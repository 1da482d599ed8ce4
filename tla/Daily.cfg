SPECIFICATION Spec
CONSTANTS
  DayLength = 3
  Summer = {}
  Shift = 0
  RotationTime = 2
  MaxFiles = 1
  LastMoment = 15
CHECK_DEADLOCK FALSE
INVARIANT CurrentFileRetained
