CONSTANTS
  Calls = {c1, c2}
  Requests <- MCRequests
  Momentum <- MCMomentum
  Named = {TRUE, FALSE}
  Holding = 1
  Polls = 1
  MaxOrders = 3
  MaxFaults = 1
SPECIFICATION Spec
CHECK_DEADLOCK FALSE
INVARIANTS
  TradesOnce
  GateHolds
PROPERTIES
  Answered
