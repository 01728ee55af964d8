SPECIFICATION PartSpec
CONSTANTS
  Parts <- TrashOnly
  Never = Never
  Note = {n1, n2}
  Retention = 2
  ConfirmAfter = 1
  Offset <- YearsOff
  MaxTime = 3
  MaxChanges = 2
  MaxBackups = 1
  Foreign <- AnotherVault
  Closed = Closed
  Thread = {t1, t2}
  Nobody = Nobody
  MaxPresses = 3
  MaxFaults = 1
  Binding = {b1, b2}
  Off = Off
  Days = 1
  MaxLeases = 2
  MaxMishaps = 1
CHECK_DEADLOCK FALSE
PROPERTY WrongDateRemovesNothing
