SPECIFICATION Spec
CONSTANTS
  e1 = e1
  e2 = e2
  EntryIds = {e1, e2}
  Shapes <- MCShapes
  Orders <- MCOrders
  Prices = {1, 2}
  MaxHeld = 1
  MaxFaults = 1
  MaxRestarts = 1
INVARIANTS
  FiresOnce
PROPERTIES
  CancelTakesEffect
  MarkOnlyRises
  NothingLingers
