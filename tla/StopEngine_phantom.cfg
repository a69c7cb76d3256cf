SPECIFICATION Spec
CONSTANTS
  e1 = e1
  e2 = e2
  EntryIds = {e1, e2}
  Orders <- MCTriggers
  Shapes <- MCKinds
  Prices = {1, 2}
  MaxHeld = 2
  MaxFaults = 0
  MaxRestarts = 0
PROPERTY
  NoPhantomFill
