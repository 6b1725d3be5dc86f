\* QueryEngine: recover() is called before anything is served.
CONSTANTS
  MaxPages = 1
  MaxSlots = 2
  Value = {a, b, e}
  Unreadable = {e}
  a = a
  b = b
  OldRead <- Shortened
  Radix = 2
  Misfit = misfit
  Zero = zero
  MaxTx = 2
  MaxLog = 3
  Steal = FALSE
  SkipRecovery = FALSE
SPECIFICATION Spec
INVARIANT ServesCommitted
CHECK_DEADLOCK FALSE
