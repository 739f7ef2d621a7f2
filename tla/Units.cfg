SPECIFICATION Spec
CONSTANTS
  Calls = 2
  UnitType = "Q"
  MaxRetries = 1
  MaxOps = 4
  MaxFaults = 3
  Durable = TRUE
  Stored = TRUE
  CrashAt = {"idle", "playing"}
  Coroutines = FALSE
  EarlyConfirm = FALSE
INVARIANTS
  PlayedOnce
  DoneMeansRanUnlessInDoubt
  InOrder
PROPERTIES ImplementsContract
CHECK_DEADLOCK FALSE
