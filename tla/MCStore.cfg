SPECIFICATION Spec
CONSTANTS
  None = None
  Torn = Torn
  Bytes = {b1, b2, b3}
  AutoKeep = 1
  DailyKeep = 2
  ReplacedKeep = 2
  DayLength = 2
  Readings = {7}
  Faults = {"write", "flush", "remove"}
  MaxInstalls = 4
  MaxDeaths = 2
  MaxToday = 4
SYMMETRY MCSymmetry
VIEW MCView
CONSTRAINT MCHalves
INVARIANTS
  DurableSurvives
  DisplacedIsKept
  CopiesOrdered
  WrongClockCostsOne
PROPERTY
  RegisterSpec
CHECK_DEADLOCK FALSE
