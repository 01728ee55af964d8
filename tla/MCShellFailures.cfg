SPECIFICATION Spec
CONSTANTS
  None = None
  ClearsLeftover = TRUE
  App = {}
  Note = {n1}
  Field = {f1}
  IdleChoices = {1}
  ClearChoices = {1}
  DefaultClear = 1
  ActivityCap = 2
  TimedLength = 1
  AccessibleLength = 1
  HeldMax = 1
  MaxExtensions = 0
  CountMax = 2
  RevealWindow = 1
  MaxFieldsPerWindow = 1
  FreeAttempts = 1
  FailureDelays <- MCDelays
  RetryDelay = 1
  AskedSettings <- MCPlainSetting
  Clears <- MCAlways
  Writes <- MCBoth
  MaxTime = 1
  MaxChanges = 0
  MaxInFlight = 0
INVARIANTS
CountOnDisk
