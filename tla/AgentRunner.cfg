SPECIFICATION Spec
CONSTANTS
  Floor = 2
  SwarmMin = 3
  HardCap = 4
  Cadences = {1, 2, 5}
  Pauses = {2, 3}
PROPERTIES
  FloorUnlessWoken
  PauseHonoured
  StopHonoured
  WakesEventually
