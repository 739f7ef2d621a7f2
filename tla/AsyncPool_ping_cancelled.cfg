CONSTANTS
  Tasks = {t1, t2}
  Conns = {c1, c2}
  NoConn = NoConn
  MinSize = 1
  MaxSize = 1
  MaxFaults = 0
  MaxStarts = 0
  CancelPoints = {"pinging"}
  Renotify = TRUE
SPECIFICATION Spec
INVARIANTS SizeIsExact
