CONSTANTS
  MaxTx = 3
  MaxOpen = 2
  Table = {users}
  Key = {0, 1}
  MaxRows = 2
  NoTx = 0
  Name = {n}
  Unknown = Unknown
SPECIFICATION Spec
PROPERTY RollbackRestores
CHECK_DEADLOCK FALSE
