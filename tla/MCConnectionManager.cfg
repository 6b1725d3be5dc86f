\* The server waits for clients when there are none left: it may stop.
CONSTANTS
  Client = {c1, c2}
  Quoting = {c2}
  Statement = {"BEGIN", "COMMIT", "SELECT"}
  MaxSent = 2
  Pipelined = FALSE
  None = None
SPECIFICATION Spec
INVARIANTS
  TypeOK
  ExecutesWhatWasSent
  TransactionsDoNotInterleave
PROPERTY EveryStatementAnswered
CHECK_DEADLOCK FALSE
