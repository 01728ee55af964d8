SPECIFICATION Spec
CONSTANTS
  None = None
  MaxVersions = 3
  MaxSequence = 2
  MaxJobs = 2
VIEW MCView
CHECK_DEADLOCK FALSE
INVARIANTS
  CommitsFresh
  SavedIsOpen
  WalletReadable
  KitConfirmed
  PreviewCompares
PROPERTIES
  Undisturbed
  NoLostUpdate
