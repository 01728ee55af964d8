SPECIFICATION Spec
CONSTANTS
  Parts <- AllParts
  Never = Never
  Note = {n1, n2}
  Retention = 1
  ConfirmAfter = 1
  Offset <- YearsOff
  MaxTime = 2
  MaxChanges = 2
  MaxBackups = 1
  Foreign <- AnotherVault
  Closed = Closed
  Thread = {t1, t2}
  Nobody = Nobody
  MaxPresses = 3
  MaxFaults = 1
  Binding = {b1, b2}
  Off = Off
  Days = 1
  MaxLeases = 2
  MaxMishaps = 1
CHECK_DEADLOCK FALSE
INVARIANTS
  ArmedWhileServing
  EnabledHasItem
  OrphanIsOwed
  UnbackedIsSaid
  OlderIsSaid
PROPERTIES
  OverdueTwice
  GrantEndsWithLock
  TouchIsAuthorized
