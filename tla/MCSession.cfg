SPECIFICATION Spec
CONSTANTS
  None = None
  Note = {n1, n2}
  Field = {f}
  IdleChoices = {2, 3}
  ClearChoices = {1}
  DefaultClear = 1
  ActivityCap = 4
  TimedLength = 1
  AccessibleLength = 3
  HeldMax = 1
  MaxExtensions = 1
  RevealWindow = 2
  MaxFieldsPerWindow = 1
  FreeAttempts = 1
  FailureDelays <- MCFailureDelays
  RetryDelay = 1
  AskedIdle = {2, 4}
  AskedClear = {1}
  AskedAppSwitch = {TRUE}
  AskedAnywhere = {TRUE, FALSE}
  ChangeCounts = {7}
  MaxTime = 6
  CountMax = 4
CONSTRAINT MCHalves
VIEW MCView
SYMMETRY MCSymmetry
INVARIANTS
  CapHolds
  NoRevival
  BackoffAccumulates
  ShownOnlyWhenAllowed
  RevealBounded
  WindowLimit
