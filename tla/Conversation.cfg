CONSTANTS
  Callers = {c1, c2}
  NoOne = NoOne
  Ops = {"call", "ping", "ship", "confirm"}
  MaxOps = 3
  MaxFaults = 2
  MaxFrames = 2
  MaxRetries = 1
  LongReplies = {"gfi", "ddif", "invoke", "ship"}
  TimeoutAt = {"gfi", "ddif", "rsd", "invoke", "ping", "ship", "confirm"}
  CancelAt = {"gfi", "ddif", "rsd", "invoke", "ping", "ship", "confirm", "backoff"}
SPECIFICATION FairSpec
INVARIANTS OwnReplyUnlessLapsed ReadyMeansInStep
PROPERTIES BrokenIsFinal StaysOutOfStep OperationEnds
CHECK_DEADLOCK FALSE
