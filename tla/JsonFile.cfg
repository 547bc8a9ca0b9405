SPECIFICATION Spec
CONSTANTS
  c1 = c1
  c2 = c2
  k1 = k1
  k2 = k2
  v1 = v1
  v2 = v2
  Clients = {c1, c2}
  Keys = {k1, k2}
  Values = {v1, v2}
  MayCancel = TRUE
  MayCrash = TRUE
  DiskMayFail = TRUE
  Absent = Absent
  Blank = Blank
  Garbled = Garbled
  Error = Error
  None = None
INVARIANTS
  TypeOK
  DamageHasCause
PROPERTIES
  ImplementsKeyValueStorage
  OperationsEnd
