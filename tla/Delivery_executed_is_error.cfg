CONSTANTS
  Clients = {c1, c2}
  Submitter = c1
  NoClient = NoClient
  MaxRetries = 1
  MaxOps = 3
  MaxFaults = 1
  Durable = TRUE
  CrashAt = {}
  ConfirmForgets = FALSE
  Stored = TRUE
  Strays = {}
SPECIFICATION Spec
PROPERTIES ExecutedIsNotRefused
CHECK_DEADLOCK FALSE
