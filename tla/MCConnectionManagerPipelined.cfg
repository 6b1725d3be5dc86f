CONSTANTS
  Client = {c1}
  Quoting = {}
  Statement = {"BEGIN", "COMMIT", "INSERT"}
  MaxSent = 2
  Pipelined = TRUE
  None = None
SPECIFICATION Spec
INVARIANT ExecutesWhatWasSent
CHECK_DEADLOCK FALSE
