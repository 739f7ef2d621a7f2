CONSTANTS
  Tasks = {t1, t2, t3}
  Conns = {c1, c2, c3, c4}
  NoConn = NoConn
  MinSize = 1
  MaxSize = 2
  MaxFaults = 1
  MaxStarts = 1
  CancelPoints <- Awaits
  Renotify = TRUE
SPECIFICATION FairSpec
INVARIANTS Ownership NeverUndercounts SlotsAccounted NoOrphan NoLostWakeup
PROPERTIES ImplementsContract CloseDrains
