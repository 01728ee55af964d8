SPECIFICATION Spec
CONSTANTS
  None = None
  Action <- TwoSteps
  MaxSteps = 2
  MaxEvents = 1
INVARIANTS
  RestIsClean
  KitOwned
CHECK_DEADLOCK FALSE
