CONSTANTS
  MaxPages = 3
  Content = {zero, a}
  Zero = zero
  PoolSize = 2
  User = {u1, u2, u3}
  None = None
SPECIFICATION Spec
INVARIANTS
  TypeOK
  PoolConsistent
  PointersValid
  PinsCounted
  CleanIsOnDisk
PROPERTIES
  ClockSparesLast
  OnlyHoldersChange
  ImplementsPageStore
