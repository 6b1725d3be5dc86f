CONSTANTS
  MaxPages = 1
  MaxSlots = 2
  Value = {a, b, e}
  Unreadable = {e}
  a = a
  b = b
  OldRead <- Shortened
  Radix = 2
  Misfit = misfit
  Zero = zero
  MaxTx = 2
  MaxLog = 3
  Steal = TRUE
  SkipRecovery = TRUE
SPECIFICATION Spec
INVARIANTS
  TypeOK
  RecoverableNow
  AcknowledgedIsLogged
PROPERTY RecoversCommitted
VIEW Visible
CONSTRAINT Followed
CHECK_DEADLOCK FALSE
