\* As many keys as a leaf takes: the root is never split.
CONSTANTS
  MAX_KEYS = 3
  Key = {1, 2, 3}
  MaxNodes = 1
  MaxPages = 2
  MaxSlots = 2
  Value = {a}
SPECIFICATION Spec
INVARIANTS
  TypeOK
  IndexPointsHome
  ScanAgreesWithFind
PROPERTIES
  RowsStayReachable
  ImplementsKeyIndex
