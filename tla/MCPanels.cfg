SPECIFICATION Spec
CONSTANTS
  None = None
  Grace = 1
  KeyGap = 1
  ClickGap = 2
  ArmWindow = 3
  LivePause = 1
  HoldLimit = 1
  TypedLimit = 1
  ReadoutTime = 1
  Suggestions = {"words"}
  Shapes <- AllShapes
CHECK_DEADLOCK FALSE
INVARIANTS
  BlankWhileSuspended
  PlainIsFresh
  AdviceIsCurrent
PROPERTY CheckingEnds
