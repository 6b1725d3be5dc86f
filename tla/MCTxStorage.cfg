CONSTANTS
  MaxTx = 3
  MaxOpen = 3
  Table = {users}
  Key = {0, 1}
  MaxRows = 2
  NoTx = 0
  Name = {n}
  Unknown = Unknown
SPECIFICATION Spec
INVARIANTS
  TypeOK
  LockCompatibility
  StableView
  DirtyIsPrivate
  IndexSound
PROPERTIES
  LocksStable
  ImplementsLockTable
  StrictTwoPhase
CHECK_DEADLOCK FALSE
