SPECIFICATION Spec
CONSTANTS
  None = None
  Action <- OneStep
  MaxSteps = 1
  MaxEvents = 2
PROPERTIES
  LeaseEnds
  PanelCloses
CHECK_DEADLOCK FALSE
