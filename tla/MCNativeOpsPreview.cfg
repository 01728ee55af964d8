SPECIFICATION Spec
CONSTANTS
  None = None
  MaxVersions = 3
  MaxSequence = 4
  MaxJobs = 1
VIEW MCView
CHECK_DEADLOCK FALSE
INVARIANT
  PreviewWarns
