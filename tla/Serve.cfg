SPECIFICATION Spec
CONSTANTS
  Callers = {c1, c2}
  MaxServes = 2
  MaxStops = 2
  MaxCalls = 2
  MaxIdle = 1
  MaxFaults = 1
  Patient = FALSE
INVARIANTS
  OwnConversation
  LeavesBetweenCalls
  Serviceable
PROPERTY
  StopEndsServing
CHECK_DEADLOCK FALSE
