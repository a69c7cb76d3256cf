CONSTANTS
  MaxVersion = 2
  MaxFaults = 1
SPECIFICATION UpdateSpec
INVARIANTS
  ScheduleInForce
PROPERTIES
  Consented
  NoDowngrade
  DueCarriedOut
