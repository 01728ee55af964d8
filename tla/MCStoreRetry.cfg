SPECIFICATION Spec
CONSTANTS
  None = None
  Torn = Torn
  Bytes = {b1, b2, b3}
  AutoKeep = 2
  DailyKeep = 4
  ReplacedKeep = 4
  DayLength = 2
  Readings = {0}
  Faults = {"write", "flush", "remove"}
  MaxInstalls = 3
  MaxDeaths = 0
  MaxToday = 0
SYMMETRY MCSymmetry
INVARIANT
  RetriedIsKept
CHECK_DEADLOCK FALSE
