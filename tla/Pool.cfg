CONSTANTS
  Threads = {t1, t2, t3}
  Conns = {c1, c2, c3}
  NoConn = NoConn
  MinSize = 1
  MaxSize = 2
  MaxFaults = 1
SPECIFICATION FairSpec
INVARIANTS Ownership SlotsAccounted NoOrphan NoLostWakeup
PROPERTIES ClosedIsFinal ImplementsContract CheckoutEnds CloseDrains
