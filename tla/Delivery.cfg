CONSTANTS
  Clients = {c1, c2}
  Submitter = c1
  NoClient = NoClient
  MaxRetries = 1
  MaxOps = 4
  MaxFaults = 4
  Durable = TRUE
  CrashAt = {"idle", "received"}
  ConfirmForgets = FALSE
  Stored = TRUE
  Strays = {"empty", "other"}
SPECIFICATION FairSpec
INVARIANTS AtMostOnce NothingLost
PROPERTIES ImplementsContract OperationEnds
CHECK_DEADLOCK FALSE
