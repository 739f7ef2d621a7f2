\* A connect over each path, then three operations on the wRFC connection.
CONSTANTS
  Paths <- MCPaths
  MaxFaults = 2
  MaxRounds = 2
  Threads = {t1, t2}
  MaxOps = 3
SPECIFICATION Spec
INVARIANTS CredentialsLast FailureCloses InStep OwnReply DoomedFrameSkippedUntold
PROPERTY ConnectEnds
\* The application may stop using the connection.
CHECK_DEADLOCK FALSE
