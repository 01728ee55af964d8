SPECIFICATION Spec
CONSTANTS
  None = None
  ClearsLeftover = FALSE
  App = {a1, a2}
  Note = {n1}
  Field = {f1}
  IdleChoices = {1}
  ClearChoices = {1}
  DefaultClear = 1
  ActivityCap = 2
  TimedLength = 1
  AccessibleLength = 1
  HeldMax = 1
  MaxExtensions = 0
  CountMax = 1
  RevealWindow = 1
  MaxFieldsPerWindow = 1
  FreeAttempts = 1
  FailureDelays <- MCDelays
  RetryDelay = 1
  AskedSettings <- MCSettings
  Clears <- MCBoth
  Writes <- MCAlways
  MaxTime = 2
  MaxChanges = 2
  MaxInFlight = 2
CONSTRAINT MCHalves
SYMMETRY MCSymmetry
INVARIANTS
  GuardInForce
  AttemptsCarried
  OpenIffUnlocked
  CopyTracked
  FocusHides
PROPERTIES
  DismissalEnds
