CONSTANTS
  Callers = {c1, c2}
  NoOne = NoOne
  Ops = {"call"}
  MaxOps = 2
  MaxFaults = 1
  MaxFrames = 2
  MaxRetries = 1
  LongReplies = {}
  TimeoutAt = {"gfi"}
  CancelAt = {}
SPECIFICATION Spec
INVARIANTS OwnReplyOnly
CHECK_DEADLOCK FALSE
