---------------------- MODULE AsyncConnectionPoolProofs ----------------------
(***************************************************************************)
(* Proofs about AsyncConnectionPool, for any tasks and connections, any    *)
(* min_size and max_size, any number of starts and faults, and whatever    *)
(* awaits a cancellation may land on.                                      *)
(***************************************************************************)
EXTENDS AsyncConnectionPool, FiniteSetTheorems, TLAPS

(* The fields, without a ceiling for the counter.                           *)
Shape ==
  /\ idle \subseteq live /\ inUse \subseteq Conns /\ live \subseteq Conns
  /\ IsFiniteSet(idle) /\ IsFiniteSet(inUse)
  /\ created \in Int /\ closed \in BOOLEAN
  /\ waiters \subseteq {t \in Tasks : pc[t] = "waiting"}
  /\ pc \in [Tasks -> {"out", "checkout", "holding"} \union Awaits]
  /\ conn \in [Tasks -> Conns \union {NoConn}]
  /\ victims \in [Tasks -> SUBSET Conns]
  /\ warmLeft \in [Tasks -> 0..MinSize]
  /\ faults \in 0..MaxFaults /\ starts \in 0..MaxStarts /\ lapsed \in BOOLEAN

(* Who has what: besides SingleOwner, what a task lends is in _in_use, and  *)
(* no two calls of close() have a connection in common.                     *)
OwnInv ==
  /\ Shape /\ SingleOwner
  /\ \A t \in Tasks : pc[t] \in {"pinging", "holding"} => conn[t] \in inUse
  /\ \A t, u \in Tasks : t # u => victims[t] \cap victims[u] = {}

LEMMA NotifyWakes ==
  ASSUME Notify PROVE waiters' \subseteq waiters
  BY DEF Notify

LEMMA FaultType ==
  ASSUME Fault, faults \in 0..MaxFaults PROVE faults' \in 0..MaxFaults
  BY BoundAssumption DEF Fault

LEMMA OwnInit == Init => OwnInv
  <1> SUFFICES ASSUME Init PROVE OwnInv
    OBVIOUS
  <1>1. IsFiniteSet({})
    BY FS_EmptySet
  <1>2. 0 \in 0..MinSize /\ 0 \in 0..MaxFaults /\ 0 \in 0..MaxStarts
    BY SizeAssumption, BoundAssumption
  <1>3. /\ warmLeft \in [Tasks -> 0..MinSize] /\ victims \in [Tasks -> SUBSET Conns]
        /\ conn \in [Tasks -> Conns \union {NoConn}]
        /\ pc \in [Tasks -> {"out", "checkout", "holding"} \union Awaits]
    BY <1>2 DEF Init
  <1>4. /\ idle \subseteq live /\ inUse \subseteq Conns /\ live \subseteq Conns
        /\ IsFiniteSet(idle) /\ IsFiniteSet(inUse)
        /\ waiters \subseteq {t \in Tasks : pc[t] = "waiting"}
    BY <1>1 DEF Init
  <1>5. closed \in BOOLEAN /\ lapsed \in BOOLEAN
    BY DEF Init
  <1>6. created \in Int /\ faults \in 0..MaxFaults /\ starts \in 0..MaxStarts
    BY BoundAssumption DEF Init
  <1>10. Shape
    BY <1>3, <1>4, <1>5, <1>6 DEF Shape
  <1>7. \A t \in Tasks : pc[t] = "out" /\ victims[t] = {}
    BY DEF Init
  <1>8. Handling = {}
    BY <1>7 DEF Handling
  <1>9. SingleOwner
    BY <1>7, <1>8 DEF SingleOwner
  <1> QED BY <1>7, <1>9, <1>10 DEF OwnInv

-----------------------------------------------------------------------------
(* start() and what only moves a task.                                      *)
LEMMA MovesKeep ==
  ASSUME OwnInv, NEW t \in Tasks, NEW p \in {"out", "checkout", "warming", "opening", "closing", "waiting"},
         pc[t] \notin {"holding", "pinging", "discarding", "releasing"},
         pc' = [pc EXCEPT ![t] = p],
         waiters' \subseteq waiters \union (IF p = "waiting" THEN {t} ELSE {}), t \in waiters' => p = "waiting",
         UNCHANGED <<idle, inUse, live, conn, victims>>,
         created' \in Int, closed' \in BOOLEAN, warmLeft' \in [Tasks -> 0..MinSize],
         faults' \in 0..MaxFaults, starts' \in 0..MaxStarts, lapsed' \in BOOLEAN
  PROVE  OwnInv'
  <1>1. pc'[t] = p /\ \A u \in Tasks : u # t => pc'[u] = pc[u]
    BY DEF OwnInv, Shape
  <1>2. pc' \in [Tasks -> {"out", "checkout", "holding"} \union Awaits]
    BY DEF OwnInv, Shape, Awaits
  <1>3. waiters' \subseteq {u \in Tasks : pc'[u] = "waiting"}
    BY <1>1 DEF OwnInv, Shape
  <1>4. Shape'
    BY <1>2, <1>3 DEF OwnInv, Shape
  <1>5. Handling' = Handling
    BY <1>1 DEF Handling
  <1>6. SingleOwner'
    BY <1>5 DEF OwnInv, SingleOwner
  <1> QED BY <1>1, <1>4, <1>6 DEF OwnInv

LEMMA QuietKeeps ==
  ASSUME OwnInv, NEW t \in Tasks,
         \/ Start(t) \/ WarmOpenFails(t) \/ StartReturns(t) \/ Acquire(t) \/ RefuseClosed(t) \/ Reserve(t)
         \/ Wait(t) \/ OpenFails(t) \/ CloseReturns(t) \/ CancelWait(t) \/ CancelOpen(t) \/ CancelStart(t)
  PROVE  OwnInv'
  <1> USE DEF Goto
  <1>0. /\ \A u \in waiters : pc[u] = "waiting"
        /\ created \in Int /\ closed \in BOOLEAN /\ warmLeft \in [Tasks -> 0..MinSize]
        /\ faults \in 0..MaxFaults /\ starts \in 0..MaxStarts /\ lapsed \in BOOLEAN
    BY DEF OwnInv, Shape
  <1>1. CASE Start(t)
    <2>1. MinSize \in 0..MinSize /\ starts' \in 0..MaxStarts
      BY <1>0, <1>1, SizeAssumption, BoundAssumption DEF Start
    <2>2. warmLeft' \in [Tasks -> 0..MinSize]
      BY <1>0, <1>1, <2>1 DEF Start
    <2> QED BY <1>0, <1>1, <2>1, <2>2, MovesKeep DEF Start
  <1>2. CASE WarmOpenFails(t) \/ StartReturns(t) \/ CancelStart(t)
    <2>1. 0 \in 0..MinSize
      BY SizeAssumption
    <2>2. warmLeft' \in [Tasks -> 0..MinSize]
      BY <1>0, <1>2, <2>1 DEF WarmOpenFails, StartReturns, CancelStart
    <2>3. faults' \in 0..MaxFaults
      BY <1>0, <1>2, FaultType DEF WarmOpenFails, StartReturns, CancelStart
    <2> QED BY <1>0, <1>2, <2>2, <2>3, MovesKeep DEF WarmOpenFails, StartReturns, CancelStart, CancelAt
  <1>3. CASE Acquire(t) \/ CloseReturns(t) \/ CancelOpen(t)
    BY <1>0, <1>3, MovesKeep DEF Acquire, CloseReturns, CancelOpen, CancelAt
  <1>4. CASE RefuseClosed(t) \/ Reserve(t)
    <2>1. t \notin waiters /\ pc[t] \notin {"holding", "pinging", "discarding", "releasing"}
      BY <1>0, <1>4 DEF RefuseClosed, Reserve, AtLoopTop
    <2> QED BY <1>0, <1>4, <2>1, MovesKeep DEF RefuseClosed, Reserve
  <1>5. CASE Wait(t)
    <2>1. pc[t] \notin {"holding", "pinging", "discarding", "releasing"}
      BY <1>0, <1>5 DEF Wait, AtLoopTop
    <2> QED BY <1>0, <1>5, <2>1, MovesKeep DEF Wait
  <1>6. CASE OpenFails(t)
    <2>1. faults' \in 0..MaxFaults /\ waiters' \subseteq waiters
      BY <1>0, <1>6, FaultType, NotifyWakes DEF OpenFails
    <2>2. created' \in Int /\ UNCHANGED <<idle, inUse, closed, conn, victims, warmLeft, live, starts, lapsed>>
      BY <1>0, <1>6 DEF OpenFails
    <2>3. t \notin waiters' /\ pc[t] = "opening" /\ pc' = [pc EXCEPT ![t] = "out"]
      BY <1>0, <1>6, <2>1 DEF OpenFails
    <2> QED BY <1>0, <2>1, <2>2, <2>3, MovesKeep
  <1>7. CASE CancelWait(t)
    <2>1. waiters' \subseteq waiters \ {t}
      BY <1>7, NotifyWakes DEF CancelWait
    <2> QED BY <1>0, <1>7, <2>1, MovesKeep DEF CancelWait, CancelAt
  <1> QED BY <1>1, <1>2, <1>3, <1>4, <1>5, <1>6, <1>7

-----------------------------------------------------------------------------
(* What lends, takes back, opens and closes.                                *)
LEMMA WarmKeeps ==
  ASSUME OwnInv, NEW t \in Tasks, WarmOpens(t)
  PROVE  OwnInv'
  <1>1. PICK c \in Conns \ live : live' = live \union {c} /\ idle' = idle \union {c}
    BY DEF WarmOpens
  <1>2. warmLeft[t] - 1 \in 0..MinSize /\ created' \in Int
    BY SizeAssumption DEF WarmOpens, OwnInv, Shape
  <1>3. warmLeft' \in [Tasks -> 0..MinSize]
    BY <1>2 DEF WarmOpens, OwnInv, Shape
  <1>4. IsFiniteSet(idle') /\ waiters' \subseteq waiters
    BY <1>1, FS_AddElement, NotifyWakes DEF WarmOpens, OwnInv, Shape
  <1>5. Shape'
    BY <1>1, <1>2, <1>3, <1>4 DEF WarmOpens, OwnInv, Shape
  <1>6. SingleOwner'
    BY <1>1 DEF WarmOpens, OwnInv, Shape, SingleOwner, Handling
  <1> QED BY <1>5, <1>6 DEF WarmOpens, OwnInv

LEMMA TakeKeeps ==
  ASSUME OwnInv, NEW t \in Tasks, TakeIdle(t)
  PROVE  OwnInv'
  <1>1. PICK c \in idle : idle' = idle \ {c} /\ inUse' = inUse \union {c} /\ conn' = [conn EXCEPT ![t] = c]
    BY DEF TakeIdle
  <1>2. IsFiniteSet(idle') /\ IsFiniteSet(inUse')
    BY <1>1, FS_AddElement, FS_RemoveElement DEF OwnInv, Shape
  <1>3. /\ pc'[t] = "pinging" /\ \A u \in Tasks : u # t => pc'[u] = pc[u] /\ conn'[u] = conn[u]
        /\ conn'[t] = c /\ pc' \in [Tasks -> {"out", "checkout", "holding"} \union Awaits]
    BY <1>1 DEF TakeIdle, OwnInv, Shape, Awaits
  <1>4. t \notin waiters
    BY DEF TakeIdle, AtLoopTop, OwnInv, Shape
  <1>5. Shape'
    BY <1>1, <1>2, <1>3, <1>4 DEF TakeIdle, OwnInv, Shape
  <1>6. SingleOwner'
    BY <1>1, <1>3 DEF TakeIdle, OwnInv, Shape, SingleOwner, Handling
  <1> QED BY <1>1, <1>3, <1>5, <1>6 DEF TakeIdle, OwnInv

LEMMA OpenKeeps ==
  ASSUME OwnInv, NEW t \in Tasks, OpenOk(t)
  PROVE  OwnInv'
  <1>1. PICK c \in Conns \ live : live' = live \union {c} /\ inUse' = inUse \union {c} /\ conn' = [conn EXCEPT ![t] = c]
    BY DEF OpenOk
  <1>2. IsFiniteSet(inUse')
    BY <1>1, FS_AddElement DEF OwnInv, Shape
  <1>3. /\ pc'[t] = "holding" /\ \A u \in Tasks : u # t => pc'[u] = pc[u] /\ conn'[u] = conn[u]
        /\ conn'[t] = c /\ pc' \in [Tasks -> {"out", "checkout", "holding"} \union Awaits]
    BY <1>1 DEF OpenOk, Goto, OwnInv, Shape, Awaits
  <1>4. t \notin waiters
    BY DEF OpenOk, Goto, OwnInv, Shape
  <1>5. Shape'
    BY <1>1, <1>2, <1>3, <1>4 DEF OpenOk, OwnInv, Shape
  <1>6. SingleOwner'
    BY <1>1, <1>3 DEF OpenOk, OwnInv, Shape, SingleOwner, Handling
  <1> QED BY <1>1, <1>3, <1>5, <1>6 DEF OpenOk, OwnInv

LEMMA LendingKeeps ==
  ASSUME OwnInv, NEW t \in Tasks,
         PingHealthy(t) \/ PingDead(t) \/ Release(t) \/ ReleaseToClosedPool(t) \/ CancelPing(t)
  PROVE  OwnInv'
  <1> USE DEF Goto, CancelAt
  <1>0. /\ waiters' \subseteq waiters /\ t \notin waiters
        /\ pc[t] \in {"pinging", "holding"} /\ conn[t] \in inUse /\ conn[t] \in live \ idle
        /\ \A u \in Tasks : u # t => pc'[u] = pc[u]
        /\ faults' \in 0..MaxFaults /\ created' \in Int
        /\ UNCHANGED <<closed, victims, warmLeft, live, starts>>
    <2>1. waiters' \subseteq waiters /\ UNCHANGED <<closed, victims, warmLeft, live, starts>>
      BY NotifyWakes DEF PingHealthy, PingDead, Release, ReleaseToClosedPool, CancelPing
    <2>2. faults' \in 0..MaxFaults /\ created' \in Int
      BY FaultType DEF PingHealthy, PingDead, Release, ReleaseToClosedPool, CancelPing, OwnInv, Shape
    <2>3. pc[t] \in {"pinging", "holding"} /\ \A u \in Tasks : u # t => pc'[u] = pc[u]
      BY DEF PingHealthy, PingDead, Release, ReleaseToClosedPool, CancelPing, OwnInv, Shape
    <2> QED BY <2>1, <2>2, <2>3 DEF OwnInv, Shape, SingleOwner, Handling
  <1>1. CASE PingHealthy(t)
    <2>1. pc'[t] = "holding" /\ pc' \in [Tasks -> {"out", "checkout", "holding"} \union Awaits]
      BY <1>1 DEF PingHealthy, OwnInv, Shape
    <2>2. Shape' /\ Handling' = Handling
      BY <1>0, <1>1, <2>1 DEF PingHealthy, OwnInv, Shape, Handling
    <2>3. SingleOwner'
      BY <1>1, <2>2 DEF PingHealthy, OwnInv, SingleOwner
    <2> QED BY <1>0, <1>1, <2>1, <2>2, <2>3 DEF PingHealthy, OwnInv
  <1>2. CASE PingDead(t) \/ ReleaseToClosedPool(t)
    <2>1. /\ pc'[t] \in {"discarding", "releasing"}
          /\ pc' \in [Tasks -> {"out", "checkout", "holding"} \union Awaits]
          /\ inUse' = inUse \ {conn[t]} /\ UNCHANGED <<idle, conn, lapsed>>
      BY <1>2 DEF PingDead, ReleaseToClosedPool, OwnInv, Shape, Awaits
    <2>2. IsFiniteSet(inUse')
      BY <2>1, FS_RemoveElement DEF OwnInv, Shape
    <2>3. Shape' /\ Handling' = Handling
      BY <1>0, <2>1, <2>2 DEF OwnInv, Shape, Handling
    <2>4. SingleOwner'
      BY <1>0, <2>1, <2>3 DEF OwnInv, SingleOwner
    <2>5. \A u \in Tasks : pc'[u] \in {"pinging", "holding"} => conn[u] # conn[t]
      BY <1>0, <2>1 DEF OwnInv, SingleOwner, Handling
    <2> QED BY <1>0, <2>1, <2>3, <2>4, <2>5 DEF OwnInv
  <1>3. CASE Release(t)
    <2>1. /\ pc'[t] = "out" /\ pc' \in [Tasks -> {"out", "checkout", "holding"} \union Awaits]
          /\ inUse' = inUse \ {conn[t]} /\ idle' = idle \union {conn[t]} /\ lapsed' = lapsed
          /\ conn' \in [Tasks -> Conns \union {NoConn}] /\ \A u \in Tasks : u # t => conn'[u] = conn[u]
      BY <1>3 DEF Release, OwnInv, Shape
    <2>2. IsFiniteSet(inUse') /\ IsFiniteSet(idle')
      BY <2>1, FS_RemoveElement, FS_AddElement DEF OwnInv, Shape
    <2>3. Shape'
      BY <1>0, <2>1, <2>2 DEF OwnInv, Shape
    <2>4. Handling' = Handling \ {t} /\ \A u \in Handling' : conn'[u] = conn[u] /\ conn[u] # conn[t]
      BY <1>0, <2>1 DEF OwnInv, SingleOwner, Handling
    <2>5. \A u \in Tasks : conn[t] \notin victims[u]
      BY <1>0 DEF OwnInv, SingleOwner, Handling
    <2>6. SingleOwner'
      BY <1>0, <2>1, <2>4, <2>5 DEF OwnInv, SingleOwner
    <2> QED BY <1>0, <2>1, <2>3, <2>4, <2>6 DEF OwnInv, Handling
  <1>4. CASE CancelPing(t)
    <2>1. /\ pc'[t] = "out" /\ pc' \in [Tasks -> {"out", "checkout", "holding"} \union Awaits]
          /\ UNCHANGED <<inUse, idle>> /\ lapsed' \in BOOLEAN
          /\ conn' \in [Tasks -> Conns \union {NoConn}] /\ \A u \in Tasks : u # t => conn'[u] = conn[u]
      BY <1>4 DEF CancelPing, OwnInv, Shape
    <2>2. Shape'
      BY <1>0, <2>1 DEF OwnInv, Shape
    <2>3. Handling' = Handling \ {t}
      BY <1>0, <2>1 DEF Handling
    <2>4. SingleOwner'
      BY <1>0, <2>1, <2>3 DEF OwnInv, SingleOwner, Handling
    <2> QED BY <1>0, <2>1, <2>2, <2>4 DEF OwnInv
  <1> QED BY <1>1, <1>2, <1>3, <1>4

LEMMA ClosingKeeps ==
  ASSUME OwnInv, NEW t \in Tasks,
         \/ DiscardDone(t) \/ ReleaseClosesConn(t) \/ CancelCloseOfOne(t)
         \/ Close(t) \/ CloseVictim(t) \/ CancelClose(t)
  PROVE  OwnInv'
  <1> USE DEF Goto, CancelAt
  <1>1. CASE DiscardDone(t) \/ ReleaseClosesConn(t) \/ CancelCloseOfOne(t)
    <2>1. /\ pc[t] \in {"discarding", "releasing"} /\ pc'[t] \in {"checkout", "out"}
          /\ pc' \in [Tasks -> {"out", "checkout", "holding"} \union Awaits]
          /\ \A u \in Tasks : u # t => pc'[u] = pc[u] /\ conn'[u] = conn[u]
          /\ conn' \in [Tasks -> Conns \union {NoConn}]
          /\ live' = live \ {conn[t]}
          /\ UNCHANGED <<idle, inUse, created, closed, waiters, victims, warmLeft, faults, starts, lapsed>>
      BY <1>1 DEF DiscardDone, ReleaseClosesConn, CancelCloseOfOne, OwnInv, Shape
    <2>2. conn[t] \notin idle /\ \A u \in Tasks : conn[t] \notin victims[u]
      BY <2>1 DEF OwnInv, SingleOwner, Handling
    <2>3. Shape'
      BY <2>1, <2>2 DEF OwnInv, Shape
    <2>4. Handling' = Handling \ {t} /\ \A u \in Handling' : conn'[u] = conn[u] /\ conn[u] # conn[t]
      BY <2>1 DEF OwnInv, SingleOwner, Handling
    <2>5. SingleOwner'
      BY <2>1, <2>2, <2>4 DEF OwnInv, SingleOwner
    <2> QED BY <2>1, <2>3, <2>5 DEF OwnInv
  <1>2. CASE Close(t)
    <2>1. /\ pc[t] = "out" /\ pc'[t] = "closing"
          /\ pc' \in [Tasks -> {"out", "checkout", "holding"} \union Awaits]
          /\ \A u \in Tasks : u # t => pc'[u] = pc[u] /\ victims'[u] = victims[u]
          /\ victims' \in [Tasks -> SUBSET Conns] /\ victims'[t] = idle /\ idle' = {} /\ waiters' = {}
          /\ UNCHANGED <<inUse, conn, warmLeft, live, faults, starts, lapsed>>
      BY <1>2 DEF Close, OwnInv, Shape, Awaits
    <2>2. IsFiniteSet(idle') /\ created' \in Int /\ closed' \in BOOLEAN
      BY <1>2, <2>1, FS_EmptySet, FS_CardinalityType DEF Close, OwnInv, Shape
    <2>3. Shape'
      BY <2>1, <2>2 DEF OwnInv, Shape
    <2>4. Handling' = Handling
      BY <2>1 DEF Handling
    <2>5. SingleOwner'
      BY <2>1, <2>4 DEF OwnInv, Shape, SingleOwner
    <2>6. \A u \in Tasks : u # t => victims'[u] \cap victims'[t] = {}
      BY <2>1 DEF OwnInv, SingleOwner
    <2> QED BY <2>1, <2>3, <2>5, <2>6 DEF OwnInv
  <1>3. CASE CloseVictim(t) \/ CancelClose(t)
    <2>1. PICK c \in victims[t] : live' = live \ {c}
      BY <1>3 DEF CloseVictim, CancelClose
    <2>2. /\ pc' \in [Tasks -> {"out", "checkout", "holding"} \union Awaits]
          /\ \A u \in Tasks : u # t => pc'[u] = pc[u] /\ victims'[u] = victims[u]
          /\ pc[t] = "closing" /\ pc'[t] \in {"closing", "out"}
          /\ victims' \in [Tasks -> SUBSET Conns] /\ victims'[t] \subseteq victims[t]
          /\ UNCHANGED <<idle, inUse, created, closed, waiters, conn, warmLeft, faults, starts>>
          /\ lapsed' \in BOOLEAN
      <3>1. CASE CloseVictim(t)
        BY <3>1 DEF CloseVictim, OwnInv, Shape
      <3>2. CASE CancelClose(t)
        BY <3>2 DEF CancelClose, OwnInv, Shape, Awaits
      <3> QED BY <1>3, <3>1, <3>2
    <2>3. c \notin victims'[t]
      <3>1. CASE CancelClose(t)
        <4>1. victims' = [victims EXCEPT ![t] = {}] /\ t \in DOMAIN victims
          BY <3>1 DEF CancelClose, OwnInv, Shape
        <4> QED BY <4>1
      <3>2. CASE CloseVictim(t)
        <4>1. PICK d \in victims[t] : victims' = [victims EXCEPT ![t] = @ \ {d}] /\ live' = live \ {d}
          BY <3>2 DEF CloseVictim
        <4>2. c \in live /\ d \in live
          BY <4>1 DEF OwnInv, SingleOwner
        <4>3. c = d
          BY <2>1, <4>1, <4>2
        <4> QED BY <4>1, <4>3 DEF OwnInv, Shape
      <3> QED BY <1>3, <3>1, <3>2
    <2>4. c \notin idle /\ \A u \in Handling : conn[u] # c
      BY <2>1 DEF OwnInv, SingleOwner
    <2>5. \A u \in Tasks : c \notin victims'[u]
      BY <2>1, <2>2, <2>3 DEF OwnInv
    <2>6. Shape'
      BY <2>1, <2>2, <2>4 DEF OwnInv, Shape
    <2>7. Handling' = Handling
      BY <2>2 DEF Handling
    <2>8. SingleOwner'
      BY <2>1, <2>2, <2>4, <2>5, <2>7 DEF OwnInv, SingleOwner
    <2> QED BY <2>2, <2>6, <2>8 DEF OwnInv
  <1> QED BY <1>1, <1>2, <1>3

LEMMA OwnStep == OwnInv /\ [Next]_vars => OwnInv'
  <1> SUFFICES ASSUME OwnInv, [Next]_vars PROVE OwnInv'
    OBVIOUS
  <1>1. CASE UNCHANGED vars
    BY <1>1 DEF vars, OwnInv, Shape, SingleOwner, Handling
  <1>2. ASSUME NEW t \in Tasks,
               Start(t) \/ Acquire(t) \/ Close(t) \/ GiveBack(t) \/ PoolStep(t) \/ Cancel(t)
        PROVE  OwnInv'
    BY <1>2, QuietKeeps, WarmKeeps, TakeKeeps, OpenKeeps, LendingKeeps, ClosingKeeps
       DEF GiveBack, PoolStep, Cancel
  <1> QED BY <1>1, <1>2 DEF Next

THEOREM Owners == Spec => []OwnInv
  BY OwnInit, OwnStep, PTL DEF Spec

-----------------------------------------------------------------------------
(* The counter.  A set that gains or loses one element gains or loses at    *)
(* most one in size.                                                        *)
LEMMA Gain ==
  ASSUME NEW S, IsFiniteSet(S), NEW x
  PROVE  /\ IsFiniteSet(S \union {x})
         /\ Cardinality(S) \in Nat /\ Cardinality(S \union {x}) \in Nat
         /\ Cardinality(S \union {x}) <= Cardinality(S) + 1
  <1>1. Cardinality(S) \in Nat
    BY FS_CardinalityType
  <1>2. Cardinality(S \union {x}) = IF x \in S THEN Cardinality(S) ELSE Cardinality(S) + 1
    BY FS_AddElement
  <1>3. IsFiniteSet(S \union {x})
    BY FS_AddElement
  <1> QED BY <1>1, <1>2, <1>3

LEMMA Loss ==
  ASSUME NEW S, IsFiniteSet(S), NEW x \in S
  PROVE  /\ IsFiniteSet(S \ {x})
         /\ Cardinality(S) \in Nat /\ Cardinality(S \ {x}) \in Nat
         /\ Cardinality(S \ {x}) = Cardinality(S) - 1
  <1>1. Cardinality(S) \in Nat
    BY FS_CardinalityType
  <1>2. Cardinality(S \ {x}) = IF x \in S THEN Cardinality(S) - 1 ELSE Cardinality(S)
    BY FS_RemoveElement
  <1>3. IsFiniteSet(S \ {x})
    BY FS_RemoveElement
  <1>4. Cardinality(S \ {x}) \in Nat
    BY <1>3, FS_CardinalityType
  <1> QED BY <1>1, <1>2, <1>3, <1>4

CountInv == IsFiniteSet(Opening) /\ NeverUndercounts

LEMMA CountInit == Init => CountInv
  <1> SUFFICES ASSUME Init PROVE CountInv
    OBVIOUS
  <1>1. Opening = {}
    BY DEF Init, Opening
  <1>2. IsFiniteSet({}) /\ Cardinality({}) = 0
    BY FS_EmptySet
  <1> QED BY <1>1, <1>2 DEF Init, CountInv, NeverUndercounts, Counted

(* Steps that leave _idle, _in_use, _created and the reservations alone.    *)
LEMMA CountQuiet ==
  ASSUME OwnInv, CountInv, NEW t \in Tasks,
         \/ Start(t) \/ WarmOpenFails(t) \/ StartReturns(t) \/ Acquire(t) \/ RefuseClosed(t) \/ Wait(t)
         \/ PingHealthy(t) \/ DiscardDone(t) \/ ReleaseClosesConn(t) \/ CloseVictim(t) \/ CloseReturns(t)
         \/ CancelWait(t) \/ CancelPing(t) \/ CancelCloseOfOne(t) \/ CancelClose(t) \/ CancelStart(t)
  PROVE  CountInv'
  <1>1. UNCHANGED <<idle, inUse, created>>
    BY DEF Start, WarmOpenFails, StartReturns, Acquire, RefuseClosed, Wait, PingHealthy, DiscardDone,
           ReleaseClosesConn, CloseVictim, CloseReturns, CancelWait, CancelPing, CancelCloseOfOne,
           CancelClose, CancelStart
  <1>2. pc[t] # "opening" /\ pc'[t] # "opening" /\ \A u \in Tasks : u # t => pc'[u] = pc[u]
    BY DEF Start, WarmOpenFails, StartReturns, Acquire, RefuseClosed, Wait, PingHealthy, DiscardDone,
           ReleaseClosesConn, CloseVictim, CloseReturns, CancelWait, CancelPing, CancelCloseOfOne,
           CancelClose, CancelStart, Goto, CancelAt, AtLoopTop, OwnInv, Shape
  <1>3. Opening' = Opening
    BY <1>2 DEF Opening
  <1> QED BY <1>1, <1>3 DEF CountInv, NeverUndercounts, Counted

LEMMA CountIdle ==
  ASSUME OwnInv, CountInv, NEW t \in Tasks,
         \/ WarmOpens(t) \/ TakeIdle(t) \/ PingDead(t) \/ Release(t) \/ ReleaseToClosedPool(t) \/ Close(t)
  PROVE  CountInv'
  <1>1. pc[t] # "opening" /\ pc'[t] # "opening" /\ \A u \in Tasks : u # t => pc'[u] = pc[u]
    BY DEF WarmOpens, TakeIdle, PingDead, Release, ReleaseToClosedPool, Close, Goto, AtLoopTop, OwnInv, Shape
  <1>2. Opening' = Opening
    BY <1>1 DEF Opening
  <1>3. IsFiniteSet(idle) /\ IsFiniteSet(inUse) /\ IsFiniteSet(Opening) /\ created \in Int
    BY DEF OwnInv, Shape, CountInv
  <1>4. Cardinality(idle) \in Nat /\ Cardinality(inUse) \in Nat /\ Cardinality(Opening) \in Nat
    BY <1>3, FS_CardinalityType
  <1>5. Cardinality(idle) + Cardinality(inUse) + Cardinality(Opening) <= created
    BY DEF CountInv, NeverUndercounts, Counted
  <1>6. SUFFICES Cardinality(idle') + Cardinality(inUse') + Cardinality(Opening) <= created'
    BY <1>2, <1>3 DEF CountInv, NeverUndercounts, Counted
  <1>7. CASE WarmOpens(t)
    <2>1. PICK c \in Conns : idle' = idle \union {c} /\ inUse' = inUse /\ created' = created + 1
      BY <1>7 DEF WarmOpens
    <2>2. Cardinality(idle') <= Cardinality(idle) + 1 /\ Cardinality(idle') \in Nat
      BY <1>3, <2>1, Gain
    <2> QED BY <1>3, <1>4, <1>5, <2>1, <2>2
  <1>8. CASE TakeIdle(t)
    <2>1. PICK c \in idle : idle' = idle \ {c} /\ inUse' = inUse \union {c} /\ created' = created
      BY <1>8 DEF TakeIdle
    <2>2. Cardinality(idle') = Cardinality(idle) - 1
      BY <1>3, <2>1, Loss
    <2>3. Cardinality(inUse') <= Cardinality(inUse) + 1 /\ Cardinality(inUse') \in Nat
      BY <1>3, <2>1, Gain
    <2> QED BY <1>3, <1>4, <1>5, <2>1, <2>2, <2>3
  <1>9. CASE PingDead(t) \/ ReleaseToClosedPool(t)
    <2>1. conn[t] \in inUse /\ inUse' = inUse \ {conn[t]} /\ idle' = idle /\ created' = created - 1
      BY <1>9 DEF PingDead, ReleaseToClosedPool, Goto, OwnInv
    <2>2. Cardinality(inUse') = Cardinality(inUse) - 1
      BY <1>3, <2>1, Loss
    <2> QED BY <1>3, <1>4, <1>5, <2>1, <2>2
  <1>10. CASE Release(t)
    <2>1. /\ conn[t] \in inUse /\ inUse' = inUse \ {conn[t]}
          /\ idle' = idle \union {conn[t]} /\ created' = created
      BY <1>10 DEF Release, Goto, OwnInv
    <2>2. Cardinality(inUse') = Cardinality(inUse) - 1
      BY <1>3, <2>1, Loss
    <2>3. Cardinality(idle') <= Cardinality(idle) + 1 /\ Cardinality(idle') \in Nat
      BY <1>3, <2>1, Gain
    <2> QED BY <1>3, <1>4, <1>5, <2>1, <2>2, <2>3
  <1>11. CASE Close(t)
    <2>1. idle' = {} /\ inUse' = inUse /\ created' = created - Cardinality(idle)
      BY <1>11 DEF Close
    <2>2. Cardinality(idle') = 0
      BY <2>1, FS_EmptySet
    <2> QED BY <1>3, <1>4, <1>5, <2>1, <2>2
  <1> QED BY <1>7, <1>8, <1>9, <1>10, <1>11

LEMMA CountOpening ==
  ASSUME OwnInv, CountInv, NEW t \in Tasks,
         Reserve(t) \/ OpenOk(t) \/ OpenFails(t) \/ CancelOpen(t)
  PROVE  CountInv'
  <1>1. IsFiniteSet(idle) /\ IsFiniteSet(inUse) /\ IsFiniteSet(Opening) /\ created \in Int
    BY DEF OwnInv, Shape, CountInv
  <1>2. Cardinality(idle) \in Nat /\ Cardinality(inUse) \in Nat /\ Cardinality(Opening) \in Nat
    BY <1>1, FS_CardinalityType
  <1>3. Cardinality(idle) + Cardinality(inUse) + Cardinality(Opening) <= created
    BY DEF CountInv, NeverUndercounts, Counted
  <1>4. CASE Reserve(t)
    <2>1. idle' = idle /\ inUse' = inUse /\ created' = created + 1
      BY <1>4 DEF Reserve
    <2>2. pc'[t] = "opening" /\ \A u \in Tasks : u # t => pc'[u] = pc[u]
      BY <1>4 DEF Reserve, OwnInv, Shape
    <2>3. Opening' = Opening \union {t}
      BY <2>2 DEF Opening
    <2>4. /\ IsFiniteSet(Opening') /\ Cardinality(Opening') \in Nat
          /\ Cardinality(Opening') <= Cardinality(Opening) + 1
      BY <1>1, <2>3, Gain
    <2>5. Cardinality(idle') + Cardinality(inUse') + Cardinality(Opening') <= created'
      BY <1>1, <1>2, <1>3, <2>1, <2>4
    <2> QED BY <2>4, <2>5 DEF CountInv, NeverUndercounts, Counted
  <1>5. CASE OpenOk(t) \/ OpenFails(t) \/ CancelOpen(t)
    <2>1. t \in Opening /\ pc'[t] # "opening" /\ \A u \in Tasks : u # t => pc'[u] = pc[u]
      BY <1>5 DEF OpenOk, OpenFails, CancelOpen, CancelAt, Goto, Opening, OwnInv, Shape
    <2>2. Opening' = Opening \ {t}
      BY <2>1 DEF Opening
    <2>3. IsFiniteSet(Opening') /\ Cardinality(Opening') = Cardinality(Opening) - 1
      BY <1>1, <2>1, <2>2, Loss
    <2>4. CASE OpenOk(t)
      <3>1. PICK c \in Conns : inUse' = inUse \union {c} /\ idle' = idle /\ created' = created
        BY <2>4 DEF OpenOk
      <3>2. Cardinality(inUse') <= Cardinality(inUse) + 1 /\ Cardinality(inUse') \in Nat
        BY <1>1, <3>1, Gain
      <3>3. Cardinality(idle') + Cardinality(inUse') + Cardinality(Opening') <= created'
        BY <1>1, <1>2, <1>3, <2>3, <3>1, <3>2
      <3> QED BY <2>3, <3>3 DEF CountInv, NeverUndercounts, Counted
    <2>5. CASE OpenFails(t) \/ CancelOpen(t)
      <3>1. idle' = idle /\ inUse' = inUse /\ created' \in Int /\ created' >= created - 1
        BY <1>1, <2>5 DEF OpenFails, CancelOpen
      <3>2. Cardinality(idle') + Cardinality(inUse') + Cardinality(Opening') <= created'
        BY <1>1, <1>2, <1>3, <2>3, <3>1
      <3> QED BY <2>3, <3>2 DEF CountInv, NeverUndercounts, Counted
    <2> QED BY <1>5, <2>4, <2>5
  <1> QED BY <1>4, <1>5

LEMMA CountStep == OwnInv /\ CountInv /\ [Next]_vars => CountInv'
  <1> SUFFICES ASSUME OwnInv, CountInv, [Next]_vars PROVE CountInv'
    OBVIOUS
  <1>1. CASE UNCHANGED vars
    BY <1>1 DEF vars, CountInv, NeverUndercounts, Counted, Opening
  <1>2. ASSUME NEW t \in Tasks,
               Start(t) \/ Acquire(t) \/ Close(t) \/ GiveBack(t) \/ PoolStep(t) \/ Cancel(t)
        PROVE  CountInv'
    BY <1>2, CountQuiet, CountIdle, CountOpening DEF GiveBack, PoolStep, Cancel
  <1> QED BY <1>1, <1>2 DEF Next

LEMMA Counts == Spec => []CountInv
  BY Owners, CountInit, CountStep, PTL DEF Spec

(* _created is never below what the pool has lent, keeps idle or is         *)
(* opening, in AsyncConnectionPool, whatever fails and wherever             *)
(* cancellations land: a slot that _checkout finds free really is.          *)
THEOREM CounterNeverBelow == Spec => []NeverUndercounts
  BY Counts, PTL DEF CountInv

-----------------------------------------------------------------------------
(* The ceiling.  start() opens without a look at max_size, so besides what  *)
(* _checkout reserves below it the counter may grow by what the calls of    *)
(* start() still have to open: a set of turns, MinSize for each call.       *)
ToOpen == {p \in Tasks \X (1..MinSize) : p[2] <= warmLeft[p[1]]}

Ceiling == MaxSize + starts * MinSize

CeilingInv ==
  /\ \A t \in Tasks : pc[t] # "warming" => warmLeft[t] = 0
  /\ IsFiniteSet(ToOpen)
  /\ Cardinality(ToOpen) <= starts * MinSize
  /\ created + Cardinality(ToOpen) <= Ceiling

LEMMA CeilingInit == Init => CeilingInv
  <1> SUFFICES ASSUME Init PROVE CeilingInv
    OBVIOUS
  <1>1. \A t \in Tasks : warmLeft[t] = 0
    BY DEF Init
  <1>2. ToOpen = {}
    BY <1>1 DEF ToOpen
  <1>3. IsFiniteSet({}) /\ Cardinality({}) = 0
    BY FS_EmptySet
  <1>4. starts * MinSize = 0
    BY SizeAssumption DEF Init
  <1> QED BY <1>1, <1>2, <1>3, <1>4, SizeAssumption DEF Init, CeilingInv, Ceiling

(* Steps that open no connection for start() and do not raise the counter.  *)
LEMMA CeilingQuiet ==
  ASSUME OwnInv, CeilingInv, UNCHANGED <<warmLeft, starts>>, created' \in Int,
         created' <= created \/ created' <= MaxSize,
         \A u \in Tasks : pc'[u] # "warming" => pc[u] # "warming" \/ warmLeft[u] = 0
  PROVE  CeilingInv'
  <1>1. ToOpen' = ToOpen
    BY DEF ToOpen
  <1>2. Cardinality(ToOpen) \in Nat
    BY FS_CardinalityType DEF CeilingInv
  <1>3. created' + Cardinality(ToOpen) <= Ceiling'
    <2>1. starts * MinSize \in Int /\ created \in Int /\ Ceiling' = Ceiling
      BY SizeAssumption DEF OwnInv, Shape, Ceiling
    <2> QED BY <1>2, <2>1, SizeAssumption DEF CeilingInv, Ceiling
  <1> QED BY <1>1, <1>3 DEF CeilingInv

LEMMA CeilingLending ==
  ASSUME OwnInv, CeilingInv, NEW t \in Tasks,
         \/ StartReturns(t) \/ Acquire(t) \/ RefuseClosed(t) \/ TakeIdle(t) \/ Reserve(t) \/ Wait(t)
         \/ PingHealthy(t) \/ PingDead(t) \/ DiscardDone(t) \/ OpenOk(t) \/ OpenFails(t) \/ Release(t)
         \/ ReleaseToClosedPool(t) \/ ReleaseClosesConn(t) \/ Close(t) \/ CloseVictim(t) \/ CloseReturns(t)
         \/ CancelWait(t) \/ CancelPing(t) \/ CancelOpen(t) \/ CancelCloseOfOne(t) \/ CancelClose(t)
  PROVE  CeilingInv'
  <1>1. UNCHANGED <<warmLeft, starts>>
    BY DEF StartReturns, Acquire, RefuseClosed, TakeIdle, Reserve, Wait, PingHealthy, PingDead, DiscardDone,
           OpenOk, OpenFails, Release, ReleaseToClosedPool, ReleaseClosesConn, Close, CloseVictim,
           CloseReturns, CancelWait, CancelPing, CancelOpen, CancelCloseOfOne, CancelClose
  <1>2. \A u \in Tasks : pc'[u] # "warming" => pc[u] # "warming" \/ warmLeft[u] = 0
    BY DEF StartReturns, Acquire, RefuseClosed, TakeIdle, Reserve, Wait, PingHealthy, PingDead, DiscardDone,
           OpenOk, OpenFails, Release, ReleaseToClosedPool, ReleaseClosesConn, Close, CloseVictim,
           CloseReturns, CancelWait, CancelPing, CancelOpen, CancelCloseOfOne, CancelClose, CancelAt, Goto,
           AtLoopTop, OwnInv, Shape
  <1>3. created' \in Int /\ (created' <= created \/ created' <= MaxSize)
    <2>1. Cardinality(idle) \in Nat /\ created \in Int
      BY FS_CardinalityType DEF OwnInv, Shape
    <2> QED BY <2>1, SizeAssumption
            DEF StartReturns, Acquire, RefuseClosed, TakeIdle, Reserve, Wait, PingHealthy, PingDead,
                DiscardDone, OpenOk, OpenFails, Release, ReleaseToClosedPool, ReleaseClosesConn, Close,
                CloseVictim, CloseReturns, CancelWait, CancelPing, CancelOpen, CancelCloseOfOne, CancelClose
  <1> QED BY <1>1, <1>2, <1>3, CeilingQuiet

LEMMA CeilingStart ==
  ASSUME OwnInv, CeilingInv, NEW t \in Tasks,
         Start(t) \/ WarmOpens(t) \/ WarmOpenFails(t) \/ CancelStart(t)
  PROVE  CeilingInv'
  <1>1. /\ IsFiniteSet(ToOpen) /\ Cardinality(ToOpen) \in Nat /\ created \in Int
        /\ starts \in Nat /\ starts * MinSize \in Nat
    BY FS_CardinalityType, SizeAssumption, BoundAssumption DEF CeilingInv, OwnInv, Shape
  <1>2. \A u \in Tasks : warmLeft[u] \in 0..MinSize
    BY DEF OwnInv, Shape
  <1>3. CASE Start(t)
    <2>1. warmLeft'[t] = MinSize /\ starts' = starts + 1 /\ created' = created
      BY <1>3 DEF Start, OwnInv, Shape
    <2>2. \A u \in Tasks : u # t => warmLeft'[u] = warmLeft[u] /\ pc'[u] = pc[u]
      BY <1>3 DEF Start, Goto, OwnInv, Shape
    <2>3. pc'[t] = "warming"
      BY <1>3 DEF Start, Goto, OwnInv, Shape
    <2>4. ToOpen' \subseteq ToOpen \union ({t} \X (1..MinSize))
      BY <2>2 DEF ToOpen
    <2>5. IsFiniteSet({t} \X (1..MinSize)) /\ Cardinality({t} \X (1..MinSize)) = MinSize
      <3>1. IsFiniteSet({t}) /\ Cardinality({t}) = 1
        BY FS_Singleton
      <3>2. IsFiniteSet(1..MinSize) /\ Cardinality(1..MinSize) = MinSize
        BY FS_Interval, SizeAssumption
      <3>3. /\ IsFiniteSet({t} \X (1..MinSize))
            /\ Cardinality({t} \X (1..MinSize)) = Cardinality({t}) * Cardinality(1..MinSize)
        BY <3>1, <3>2, FS_Product
      <3> QED BY <3>1, <3>2, <3>3, SizeAssumption
    <2>6. /\ IsFiniteSet(ToOpen \union ({t} \X (1..MinSize)))
          /\ Cardinality(ToOpen \union ({t} \X (1..MinSize))) <= Cardinality(ToOpen) + MinSize
      <3>1. IsFiniteSet(ToOpen \union ({t} \X (1..MinSize)))
        BY <1>1, <2>5, FS_Union
      <3>2. Cardinality(ToOpen \union ({t} \X (1..MinSize))) =
              Cardinality(ToOpen) + MinSize - Cardinality(ToOpen \cap ({t} \X (1..MinSize)))
        BY <1>1, <2>5, FS_Union
      <3>3. IsFiniteSet(ToOpen \cap ({t} \X (1..MinSize)))
        BY <1>1, FS_Subset
      <3>4. Cardinality(ToOpen \cap ({t} \X (1..MinSize))) \in Nat
        BY <3>3, FS_CardinalityType
      <3> QED BY <1>1, <3>1, <3>2, <3>4, SizeAssumption
    <2>7. IsFiniteSet(ToOpen') /\ Cardinality(ToOpen') <= Cardinality(ToOpen \union ({t} \X (1..MinSize)))
      BY <2>4, <2>6, FS_Subset
    <2>8. /\ Cardinality(ToOpen') \in Nat
          /\ Cardinality(ToOpen \union ({t} \X (1..MinSize))) \in Nat
      BY <2>6, <2>7, FS_CardinalityType
    <2>9. starts' * MinSize = starts * MinSize + MinSize
      BY <1>1, <2>1, SizeAssumption
    <2>10. Cardinality(ToOpen') <= starts' * MinSize /\ created' + Cardinality(ToOpen') <= Ceiling'
      BY <1>1, <2>1, <2>6, <2>7, <2>8, <2>9, SizeAssumption DEF CeilingInv, Ceiling
    <2> QED BY <2>2, <2>3, <2>7, <2>10 DEF CeilingInv
  <1>4. CASE WarmOpens(t)
    <2>1. /\ warmLeft[t] > 0 /\ warmLeft'[t] = warmLeft[t] - 1
          /\ starts' = starts /\ created' = created + 1 /\ pc' = pc /\ pc[t] = "warming"
          /\ \A u \in Tasks : u # t => warmLeft'[u] = warmLeft[u]
      BY <1>4 DEF WarmOpens, OwnInv, Shape
    <2>2. <<t, warmLeft[t]>> \in ToOpen
      BY <1>2, <2>1, SizeAssumption DEF ToOpen
    <2>3. ToOpen' = ToOpen \ {<<t, warmLeft[t]>>}
      <3>1. ASSUME NEW u \in Tasks, NEW i \in 1..MinSize
            PROVE  i <= warmLeft'[u] <=> i <= warmLeft[u] /\ <<u, i>> # <<t, warmLeft[t]>>
        <4>1. CASE u = t
          BY <1>2, <2>1, <4>1, SizeAssumption
        <4>2. CASE u # t
          BY <2>1, <4>2
        <4> QED BY <4>1, <4>2
      <3> QED BY <3>1 DEF ToOpen
    <2>4. IsFiniteSet(ToOpen') /\ Cardinality(ToOpen') = Cardinality(ToOpen) - 1
      BY <1>1, <2>2, <2>3, Loss
    <2>5. Cardinality(ToOpen') <= starts' * MinSize /\ created' + Cardinality(ToOpen') <= Ceiling'
      BY <1>1, <2>1, <2>4, SizeAssumption DEF CeilingInv, Ceiling
    <2> QED BY <2>1, <2>4, <2>5 DEF CeilingInv
  <1>5. CASE WarmOpenFails(t) \/ CancelStart(t)
    <2>1. /\ warmLeft'[t] = 0 /\ starts' = starts /\ created' = created
          /\ \A u \in Tasks : u # t => warmLeft'[u] = warmLeft[u] /\ pc'[u] = pc[u]
      BY <1>5 DEF WarmOpenFails, CancelStart, CancelAt, Goto, OwnInv, Shape
    <2>2. \A u \in Tasks : warmLeft'[u] <= warmLeft[u]
      BY <1>2, <2>1, SizeAssumption
    <2>3. ToOpen' \subseteq ToOpen
      <3>1. ASSUME NEW u \in Tasks, NEW i \in 1..MinSize, i <= warmLeft'[u]
            PROVE  i <= warmLeft[u]
        <4>1. CASE u = t
          BY <1>2, <2>1, <3>1, <4>1, SizeAssumption
        <4>2. CASE u # t
          BY <2>1, <3>1, <4>2
        <4> QED BY <4>1, <4>2
      <3> QED BY <3>1 DEF ToOpen
    <2>4. IsFiniteSet(ToOpen') /\ Cardinality(ToOpen') <= Cardinality(ToOpen)
      BY <1>1, <2>3, FS_Subset
    <2>5. Cardinality(ToOpen') \in Nat
      BY <2>4, FS_CardinalityType
    <2>6. Cardinality(ToOpen') <= starts' * MinSize /\ created' + Cardinality(ToOpen') <= Ceiling'
      BY <1>1, <2>1, <2>4, <2>5, SizeAssumption DEF CeilingInv, Ceiling
    <2> QED BY <2>1, <2>4, <2>6 DEF CeilingInv
  <1> QED BY <1>3, <1>4, <1>5

LEMMA CeilingStep == OwnInv /\ CeilingInv /\ [Next]_vars => CeilingInv'
  <1> SUFFICES ASSUME OwnInv, CeilingInv, [Next]_vars PROVE CeilingInv'
    OBVIOUS
  <1>1. CASE UNCHANGED vars
    BY <1>1 DEF vars, CeilingInv, Ceiling, ToOpen
  <1>2. ASSUME NEW t \in Tasks,
               Start(t) \/ Acquire(t) \/ Close(t) \/ GiveBack(t) \/ PoolStep(t) \/ Cancel(t)
        PROVE  CeilingInv'
    BY <1>2, CeilingLending, CeilingStart DEF GiveBack, PoolStep, Cancel
  <1> QED BY <1>1, <1>2 DEF Next

LEMMA TypeFromCounts == OwnInv /\ CountInv /\ CeilingInv => Ownership
  <1> SUFFICES ASSUME OwnInv, CountInv, CeilingInv PROVE Ownership
    OBVIOUS
  <1>1. /\ Cardinality(idle) \in Nat /\ Cardinality(inUse) \in Nat /\ Cardinality(Opening) \in Nat
        /\ Cardinality(ToOpen) \in Nat
    BY FS_CardinalityType DEF OwnInv, Shape, CountInv, CeilingInv
  <1>2. created >= 0
    BY <1>1 DEF CountInv, NeverUndercounts, Counted, OwnInv, Shape
  <1>3. starts * MinSize <= MaxStarts * MinSize
    BY SizeAssumption, BoundAssumption DEF OwnInv, Shape
  <1>4. starts * MinSize \in Int /\ MaxStarts * MinSize \in Int /\ created \in Int
    BY SizeAssumption, BoundAssumption DEF OwnInv, Shape
  <1>5. created \in 0..(MaxSize + MaxStarts * MinSize)
    BY <1>1, <1>2, <1>3, <1>4, SizeAssumption DEF CeilingInv, Ceiling
  <1>6. idle \subseteq Conns
    BY DEF OwnInv, Shape
  <1>7. TypeOK
    BY <1>5, <1>6 DEF OwnInv, Shape, TypeOK
  <1> QED BY <1>7 DEF OwnInv, Ownership

(* In AsyncConnectionPool no two tasks ever have one connection, nor is one *)
(* in a task's hands idle or being closed, and the counter stays between    *)
(* zero and max_size plus min_size for each start(), wherever cancellations *)
(* land.                                                                    *)
THEOREM OneOwnerPerConnection == Spec => []Ownership
  <1>1. Spec => []CeilingInv
    BY Owners, CeilingInit, CeilingStep, PTL DEF Spec
  <1> QED BY <1>1, Owners, Counts, TypeFromCounts, PTL

-----------------------------------------------------------------------------
(* Until a cancellation cuts something short: what is in _in_use is really  *)
(* lent or being pinged, so a connection that enters a set is new to it,    *)
(* and the counter goes up and down with what it counts.                    *)
Lent == {t \in Tasks : pc[t] \in {"pinging", "holding"}}

LentInv ==
  /\ ~lapsed => \A c \in inUse : \E t \in Lent : conn[t] = c
  /\ \A t \in Tasks : pc[t] # "closing" => victims[t] = {}
  /\ NoOrphan

LEMMA LentInit == Init => LentInv
  <1> SUFFICES ASSUME Init PROVE LentInv
    OBVIOUS
  <1>1. inUse = {} /\ live = {}
    BY DEF Init
  <1>2. \A t \in Tasks : victims[t] = {}
    BY DEF Init
  <1> QED BY <1>1, <1>2 DEF LentInv, NoOrphan

(* Steps of a task that has no connection in its hands, before or after.    *)
LEMMA LentQuiet ==
  ASSUME OwnInv, LentInv, NEW t \in Tasks,
         \/ Start(t) \/ WarmOpenFails(t) \/ StartReturns(t) \/ Acquire(t) \/ RefuseClosed(t) \/ Reserve(t)
         \/ Wait(t) \/ OpenFails(t) \/ CloseReturns(t) \/ CancelWait(t) \/ CancelStart(t) \/ WarmOpens(t)
  PROVE  LentInv'
  <1>1. /\ UNCHANGED <<inUse, conn, victims>>
        /\ idle \subseteq idle' /\ live' \subseteq live \union idle'
    BY DEF Start, WarmOpenFails, StartReturns, Acquire, RefuseClosed, Reserve, Wait, OpenFails, CloseReturns,
           CancelWait, CancelStart, WarmOpens
  <1>2. ~lapsed' => ~lapsed
    BY DEF Start, WarmOpenFails, StartReturns, Acquire, RefuseClosed, Reserve, Wait, OpenFails, CloseReturns,
           CancelWait, CancelStart, WarmOpens
  <1>3. /\ pc[t] \notin {"pinging", "holding", "discarding", "releasing"}
        /\ pc'[t] \notin {"pinging", "holding", "discarding", "releasing"}
        /\ \A u \in Tasks : u # t => pc'[u] = pc[u]
    BY DEF Start, WarmOpenFails, StartReturns, Acquire, RefuseClosed, Reserve, Wait, OpenFails, CloseReturns,
           CancelWait, CancelStart, WarmOpens, Goto, CancelAt, AtLoopTop, OwnInv, Shape
  <1>4. pc'[t] # "closing" => victims[t] = {}
    BY DEF Start, WarmOpenFails, StartReturns, Acquire, RefuseClosed, Reserve, Wait, OpenFails, CloseReturns,
           CancelWait, CancelStart, WarmOpens, Goto, CancelAt, AtLoopTop, LentInv
  <1>5. Lent' = Lent /\ Handling' = Handling
    BY <1>3 DEF Lent, Handling
  <1>6. ~lapsed' => \A c \in inUse' : \E u \in Lent' : conn'[u] = c
    BY <1>1, <1>5, <1>2 DEF LentInv
  <1>7. \A u \in Tasks : pc'[u] # "closing" => victims'[u] = {}
    BY <1>1, <1>3, <1>4 DEF LentInv
  <1>8. NoOrphan'
    BY <1>1, <1>5, <1>2 DEF LentInv, NoOrphan
  <1> QED BY <1>6, <1>7, <1>8 DEF LentInv

LEMMA LentLapsing ==
  ASSUME OwnInv, LentInv, NEW t \in Tasks, CancelPing(t) \/ CancelOpen(t) \/ CancelClose(t)
  PROVE  LentInv'
  <1>1. lapsed'
    BY DEF CancelPing, CancelOpen, CancelClose
  <1>2. \A u \in Tasks : u # t => pc'[u] = pc[u] /\ victims'[u] = victims[u]
    BY DEF CancelPing, CancelOpen, CancelClose, CancelAt, Goto, OwnInv, Shape
  <1>3. victims'[t] = {}
    BY DEF CancelPing, CancelOpen, CancelClose, CancelAt, Goto, LentInv, OwnInv, Shape
  <1>4. \A u \in Tasks : pc'[u] # "closing" => victims'[u] = {}
    BY <1>2, <1>3 DEF LentInv
  <1>5. NoOrphan'
    BY <1>1 DEF NoOrphan
  <1> QED BY <1>1, <1>4, <1>5 DEF LentInv

LEMMA LentMoves ==
  ASSUME OwnInv, LentInv, NEW t \in Tasks,
         \/ TakeIdle(t) \/ OpenOk(t) \/ PingHealthy(t) \/ PingDead(t) \/ Release(t) \/ ReleaseToClosedPool(t)
         \/ DiscardDone(t) \/ ReleaseClosesConn(t) \/ CancelCloseOfOne(t)
  PROVE  LentInv'
  <1> USE DEF Goto, CancelAt
  <1>1. /\ lapsed' = lapsed /\ victims' = victims
        /\ \A u \in Tasks : u # t => pc'[u] = pc[u] /\ conn'[u] = conn[u]
    BY DEF TakeIdle, OpenOk, PingHealthy, PingDead, Release, ReleaseToClosedPool, DiscardDone,
           ReleaseClosesConn, CancelCloseOfOne, OwnInv, Shape
  <1>2. pc[t] # "closing" /\ pc'[t] # "closing"
    BY DEF TakeIdle, OpenOk, PingHealthy, PingDead, Release, ReleaseToClosedPool, DiscardDone,
           ReleaseClosesConn, CancelCloseOfOne, AtLoopTop, OwnInv, Shape
  <1>3. \A u \in Tasks : pc'[u] # "closing" => victims'[u] = {}
    BY <1>1, <1>2 DEF LentInv
  <1>4. (\A c \in inUse : \E u \in Lent : conn[u] = c) => \A c \in inUse' : \E u \in Lent' : conn'[u] = c
    <2>1. CASE TakeIdle(t) \/ OpenOk(t)
      <3>1. t \notin Lent /\ t \in Lent' /\ inUse' \subseteq inUse \union {conn'[t]}
        BY <2>1 DEF TakeIdle, OpenOk, AtLoopTop, Lent, OwnInv, Shape
      <3> QED BY <1>1, <3>1 DEF Lent
    <2>2. CASE PingHealthy(t)
      <3>1. inUse' = inUse /\ conn' = conn /\ Lent' = Lent
        BY <1>1, <2>2 DEF PingHealthy, Lent, OwnInv, Shape
      <3> QED BY <3>1
    <2>3. CASE PingDead(t) \/ Release(t) \/ ReleaseToClosedPool(t)
      <3>1. inUse' = inUse \ {conn[t]}
        BY <2>3 DEF PingDead, Release, ReleaseToClosedPool
      <3> QED BY <1>1, <3>1 DEF Lent
    <2>4. CASE DiscardDone(t) \/ ReleaseClosesConn(t) \/ CancelCloseOfOne(t)
      <3>1. inUse' = inUse /\ t \notin Lent
        BY <2>4 DEF DiscardDone, ReleaseClosesConn, CancelCloseOfOne, Lent
      <3> QED BY <1>1, <3>1 DEF Lent
    <2> QED BY <2>1, <2>2, <2>3, <2>4
  <1>5. NoOrphan'
    <2>1. ASSUME NEW c \in live', c \notin live
          PROVE  \E u \in Handling' : conn'[u] = c
      <3>1. OpenOk(t) /\ c = conn'[t] /\ pc'[t] = "holding"
        BY <2>1 DEF TakeIdle, OpenOk, PingHealthy, PingDead, Release, ReleaseToClosedPool, DiscardDone,
                    ReleaseClosesConn, CancelCloseOfOne, OwnInv, Shape
      <3> QED BY <3>1 DEF Handling
    <2>2. ASSUME NEW c \in live', c \in idle
          PROVE  c \in idle' \/ \E u \in Handling' : conn'[u] = c
      <3>1. CASE TakeIdle(t)
        <4>1. t \in Handling' /\ idle' = idle \ {conn'[t]}
          BY <3>1 DEF TakeIdle, Handling, OwnInv, Shape
        <4> QED BY <2>2, <4>1
      <3>2. CASE ~TakeIdle(t)
        BY <2>2, <3>2 DEF OpenOk, PingHealthy, PingDead, Release, ReleaseToClosedPool, DiscardDone,
                          ReleaseClosesConn, CancelCloseOfOne
      <3> QED BY <3>1, <3>2
    <2>3. ASSUME NEW c \in live', NEW u \in Handling, conn[u] = c
          PROVE  c \in idle' \/ \E v \in Handling' : conn'[v] = c
      <3>1. CASE u # t
        BY <1>1, <2>3, <3>1 DEF Handling
      <3>2. CASE u = t
        <4>1. CASE PingHealthy(t) \/ PingDead(t) \/ ReleaseToClosedPool(t)
          <5>1. t \in Handling' /\ conn'[t] = c
            BY <2>3, <3>2, <4>1 DEF PingHealthy, PingDead, ReleaseToClosedPool, Handling, OwnInv, Shape
          <5> QED BY <5>1
        <4>2. CASE Release(t)
          BY <2>3, <3>2, <4>2 DEF Release
        <4>3. CASE DiscardDone(t) \/ ReleaseClosesConn(t) \/ CancelCloseOfOne(t)
          BY <2>3, <3>2, <4>3 DEF DiscardDone, ReleaseClosesConn, CancelCloseOfOne
        <4>4. CASE TakeIdle(t) \/ OpenOk(t)
          BY <2>3, <3>2, <4>4 DEF TakeIdle, OpenOk, AtLoopTop, Handling
        <4> QED BY <4>1, <4>2, <4>3, <4>4
      <3> QED BY <3>1, <3>2
    <2>4. ASSUME NEW c \in live', ~lapsed'
          PROVE  c \in idle' \/ (\E u \in Handling' : conn'[u] = c) \/ \E u \in Tasks : c \in victims'[u]
      <3>1. CASE c \notin live
        BY <2>1, <2>4, <3>1
      <3>2. CASE c \in live
        <4>1. c \in idle \/ (\E u \in Handling : conn[u] = c) \/ \E u \in Tasks : c \in victims[u]
          BY <1>1, <2>4, <3>2 DEF LentInv, NoOrphan
        <4> QED BY <1>1, <2>2, <2>3, <2>4, <4>1
      <3> QED BY <3>1, <3>2
    <2> QED BY <2>4 DEF NoOrphan
  <1> QED BY <1>1, <1>3, <1>4, <1>5 DEF LentInv

LEMMA LentClosing ==
  ASSUME OwnInv, LentInv, NEW t \in Tasks, Close(t) \/ CloseVictim(t)
  PROVE  LentInv'
  <1> USE DEF Goto
  <1>1. /\ UNCHANGED <<inUse, conn, lapsed>> /\ pc'[t] = "closing"
        /\ \A u \in Tasks : u # t => pc'[u] = pc[u] /\ victims'[u] = victims[u]
        /\ pc[t] \in {"out", "closing"}
    BY DEF Close, CloseVictim, OwnInv, Shape
  <1>2. Lent' = Lent /\ Handling' = Handling
    BY <1>1 DEF Lent, Handling
  <1>3. /\ \A c \in idle : c \in idle' \/ c \in victims'[t]
        /\ \A c \in victims[t] : c \in victims'[t] \/ c \notin live'
        /\ live' \subseteq live
    <2>1. CASE Close(t)
      <3>1. victims'[t] = idle /\ live' = live /\ victims[t] = {}
        BY <2>1 DEF Close, LentInv, OwnInv, Shape
      <3> QED BY <3>1
    <2>2. CASE CloseVictim(t)
      <3>1. PICK c \in victims[t] : victims' = [victims EXCEPT ![t] = @ \ {c}] /\ live' = live \ {c}
        BY <2>2 DEF CloseVictim
      <3>2. victims'[t] = victims[t] \ {c}
        BY <3>1 DEF OwnInv, Shape
      <3> QED BY <2>2, <3>1, <3>2 DEF CloseVictim
    <2> QED BY <2>1, <2>2
  <1>4. NoOrphan'
    <2>1. ASSUME NEW c \in live', ~lapsed'
          PROVE  c \in idle' \/ (\E u \in Handling' : conn'[u] = c) \/ \E u \in Tasks : c \in victims'[u]
      <3>1. c \in idle \/ (\E u \in Handling : conn[u] = c) \/ \E u \in Tasks : c \in victims[u]
        BY <1>1, <1>3, <2>1 DEF LentInv, NoOrphan
      <3> QED BY <1>1, <1>2, <1>3, <2>1, <3>1
    <2> QED BY <2>1 DEF NoOrphan
  <1>5. ~lapsed' => \A c \in inUse' : \E u \in Lent' : conn'[u] = c
    BY <1>1, <1>2 DEF LentInv
  <1>6. \A u \in Tasks : pc'[u] # "closing" => victims'[u] = {}
    BY <1>1 DEF LentInv
  <1> QED BY <1>4, <1>5, <1>6 DEF LentInv

LEMMA LentStep == OwnInv /\ LentInv /\ [Next]_vars => LentInv'
  <1> SUFFICES ASSUME OwnInv, LentInv, [Next]_vars PROVE LentInv'
    OBVIOUS
  <1>1. CASE UNCHANGED vars
    BY <1>1 DEF vars, LentInv, Lent, NoOrphan, Handling
  <1>2. ASSUME NEW t \in Tasks,
               Start(t) \/ Acquire(t) \/ Close(t) \/ GiveBack(t) \/ PoolStep(t) \/ Cancel(t)
        PROVE  LentInv'
    BY <1>2, LentQuiet, LentLapsing, LentMoves, LentClosing DEF GiveBack, PoolStep, Cancel
  <1> QED BY <1>1, <1>2 DEF Next

LEMMA Lending == Spec => []LentInv
  BY Owners, LentInit, LentStep, PTL DEF Spec

(* In AsyncConnectionPool no connection is left open and out of reach, by   *)
(* failures, close() or the cancellations that cut no ping, open or close() *)
(* short.                                                                   *)
THEOREM NoneLeftOpen == Spec => []NoOrphan
  BY Lending, PTL DEF LentInv

ExactInv == ~lapsed => created = Counted

LEMMA ExactInit == Init => ExactInv
  <1> SUFFICES ASSUME Init PROVE ExactInv
    OBVIOUS
  <1>1. Opening = {}
    BY DEF Init, Opening
  <1>2. Cardinality({}) = 0
    BY FS_EmptySet
  <1> QED BY <1>1, <1>2 DEF Init, ExactInv, Counted

LEMMA ExactStep ==
  ASSUME OwnInv, CountInv, LentInv, ExactInv, NEW t \in Tasks,
         Start(t) \/ Acquire(t) \/ Close(t) \/ GiveBack(t) \/ PoolStep(t) \/ Cancel(t)
  PROVE  ExactInv'
  <1> USE DEF Goto, CancelAt
  <1>1. /\ IsFiniteSet(idle) /\ IsFiniteSet(inUse) /\ IsFiniteSet(Opening) /\ created \in Int
        /\ Cardinality(idle) \in Nat /\ Cardinality(inUse) \in Nat /\ Cardinality(Opening) \in Nat
    BY FS_CardinalityType DEF OwnInv, Shape, CountInv
  <1>2. SUFFICES ASSUME ~lapsed' PROVE created' = Counted'
    BY DEF ExactInv
  <1>3. CASE \/ Start(t) \/ WarmOpenFails(t) \/ StartReturns(t) \/ Acquire(t) \/ RefuseClosed(t) \/ Wait(t)
             \/ PingHealthy(t) \/ DiscardDone(t) \/ ReleaseClosesConn(t) \/ CloseVictim(t) \/ CloseReturns(t)
             \/ CancelWait(t) \/ CancelCloseOfOne(t) \/ CancelStart(t)
    <2>1. UNCHANGED <<idle, inUse, created>>
      BY <1>3 DEF Start, WarmOpenFails, StartReturns, Acquire, RefuseClosed, Wait, PingHealthy, DiscardDone,
             ReleaseClosesConn, CloseVictim, CloseReturns, CancelWait, CancelCloseOfOne, CancelStart
    <2>2. ~lapsed
      BY <1>2, <1>3
         DEF Start, WarmOpenFails, StartReturns, Acquire, RefuseClosed, Wait, PingHealthy, DiscardDone,
             ReleaseClosesConn, CloseVictim, CloseReturns, CancelWait, CancelCloseOfOne, CancelStart
    <2>3. pc[t] # "opening" /\ pc'[t] # "opening" /\ \A u \in Tasks : u # t => pc'[u] = pc[u]
      BY <1>3 DEF Start, WarmOpenFails, StartReturns, Acquire, RefuseClosed, Wait, PingHealthy, DiscardDone,
             ReleaseClosesConn, CloseVictim, CloseReturns, CancelWait, CancelCloseOfOne, CancelStart,
             AtLoopTop, OwnInv, Shape
    <2>4. Opening' = Opening
      BY <2>3 DEF Opening
    <2> QED BY <2>1, <2>2, <2>4 DEF ExactInv, Counted
  <1>4. CASE WarmOpens(t) \/ TakeIdle(t) \/ PingDead(t) \/ Release(t) \/ ReleaseToClosedPool(t) \/ Close(t)
    <2>1. ~lapsed
      BY <1>2, <1>4 DEF WarmOpens, TakeIdle, PingDead, Release, ReleaseToClosedPool, Close
    <2>2. created = Cardinality(idle) + Cardinality(inUse) + Cardinality(Opening)
      BY <2>1 DEF ExactInv, Counted
    <2>3. pc[t] # "opening" /\ pc'[t] # "opening" /\ \A u \in Tasks : u # t => pc'[u] = pc[u]
      BY <1>4 DEF WarmOpens, TakeIdle, PingDead, Release, ReleaseToClosedPool, Close, AtLoopTop, OwnInv, Shape
    <2>4. Opening' = Opening
      BY <2>3 DEF Opening
    <2>5. SUFFICES created' = Cardinality(idle') + Cardinality(inUse') + Cardinality(Opening)
      BY <2>4 DEF Counted
    <2>6. \A c \in inUse : c \in live \ idle
      BY <2>1 DEF LentInv, Lent, OwnInv, SingleOwner, Handling
    <2>7. CASE WarmOpens(t)
      <3>1. PICK c \in Conns \ live : idle' = idle \union {c} /\ inUse' = inUse /\ created' = created + 1
        BY <2>7 DEF WarmOpens
      <3>2. c \notin idle
        BY <3>1 DEF OwnInv, Shape
      <3>3. Cardinality(idle') = Cardinality(idle) + 1
        BY <1>1, <3>1, <3>2, FS_AddElement
      <3> QED BY <1>1, <2>2, <3>1, <3>3
    <2>8. CASE TakeIdle(t)
      <3>1. PICK c \in idle : idle' = idle \ {c} /\ inUse' = inUse \union {c} /\ created' = created
        BY <2>8 DEF TakeIdle
      <3>2. Cardinality(idle') = Cardinality(idle) - 1
        BY <1>1, <3>1, Loss
      <3>3. Cardinality(inUse') = Cardinality(inUse) + 1
        BY <1>1, <2>6, <3>1, FS_AddElement
      <3> QED BY <1>1, <2>2, <3>1, <3>2, <3>3
    <2>9. CASE PingDead(t) \/ ReleaseToClosedPool(t)
      <3>1. conn[t] \in inUse /\ inUse' = inUse \ {conn[t]} /\ idle' = idle /\ created' = created - 1
        BY <2>9 DEF PingDead, ReleaseToClosedPool, OwnInv
      <3>2. Cardinality(inUse') = Cardinality(inUse) - 1
        BY <1>1, <3>1, Loss
      <3> QED BY <1>1, <2>2, <3>1, <3>2
    <2>10. CASE Release(t)
      <3>1. /\ conn[t] \in inUse /\ inUse' = inUse \ {conn[t]}
            /\ idle' = idle \union {conn[t]} /\ created' = created
        BY <2>10 DEF Release, OwnInv
      <3>2. Cardinality(inUse') = Cardinality(inUse) - 1
        BY <1>1, <3>1, Loss
      <3>3. Cardinality(idle') = Cardinality(idle) + 1
        BY <1>1, <2>6, <3>1, FS_AddElement
      <3> QED BY <1>1, <2>2, <3>1, <3>2, <3>3
    <2>11. CASE Close(t)
      <3>1. idle' = {} /\ inUse' = inUse /\ created' = created - Cardinality(idle)
        BY <2>11 DEF Close
      <3>2. Cardinality(idle') = 0
        BY <3>1, FS_EmptySet
      <3> QED BY <1>1, <2>2, <3>1, <3>2
    <2> QED BY <1>4, <2>7, <2>8, <2>9, <2>10, <2>11
  <1>5. CASE Reserve(t)
    <2>1. ~lapsed /\ idle' = idle /\ inUse' = inUse /\ created' = created + 1
      BY <1>2, <1>5 DEF Reserve
    <2>2. /\ pc[t] # "opening" /\ pc'[t] = "opening" /\ \A u \in Tasks : u # t => pc'[u] = pc[u]
      BY <1>5 DEF Reserve, AtLoopTop, OwnInv, Shape
    <2>3. Opening' = Opening \union {t} /\ t \notin Opening
      BY <2>2 DEF Opening
    <2>4. Cardinality(Opening') = Cardinality(Opening) + 1
      BY <1>1, <2>3, FS_AddElement
    <2> QED BY <1>1, <2>1, <2>4 DEF ExactInv, Counted
  <1>6. CASE OpenOk(t) \/ OpenFails(t)
    <2>1. ~lapsed /\ idle' = idle
      BY <1>2, <1>6 DEF OpenOk, OpenFails
    <2>2. t \in Opening /\ pc'[t] # "opening" /\ \A u \in Tasks : u # t => pc'[u] = pc[u]
      BY <1>6 DEF OpenOk, OpenFails, Opening, OwnInv, Shape
    <2>3. Opening' = Opening \ {t}
      BY <2>2 DEF Opening
    <2>4. Cardinality(Opening') = Cardinality(Opening) - 1
      BY <1>1, <2>2, <2>3, Loss
    <2>5. CASE OpenOk(t)
      <3>1. PICK c \in Conns \ live : inUse' = inUse \union {c} /\ created' = created
        BY <2>5 DEF OpenOk
      <3>2. c \notin inUse
        BY <2>1, <3>1 DEF LentInv, Lent, OwnInv, SingleOwner, Handling
      <3>3. Cardinality(inUse') = Cardinality(inUse) + 1
        BY <1>1, <3>1, <3>2, FS_AddElement
      <3> QED BY <1>1, <2>1, <2>4, <3>1, <3>3 DEF ExactInv, Counted
    <2>6. CASE OpenFails(t)
      <3>1. inUse' = inUse /\ created' = created - 1
        BY <2>6 DEF OpenFails
      <3> QED BY <1>1, <2>1, <2>4, <3>1 DEF ExactInv, Counted
    <2> QED BY <1>6, <2>5, <2>6
  <1>7. CASE CancelPing(t) \/ CancelOpen(t) \/ CancelClose(t)
    BY <1>2, <1>7 DEF CancelPing, CancelOpen, CancelClose
  <1> QED BY <1>3, <1>4, <1>5, <1>6, <1>7 DEF GiveBack, PoolStep, Cancel

LEMMA ExactNext == OwnInv /\ CountInv /\ LentInv /\ ExactInv /\ [Next]_vars => ExactInv'
  <1> SUFFICES ASSUME OwnInv, CountInv, LentInv, ExactInv, [Next]_vars PROVE ExactInv'
    OBVIOUS
  <1>1. CASE UNCHANGED vars
    BY <1>1 DEF vars, ExactInv, Counted, Opening
  <1>2. ASSUME NEW t \in Tasks,
               Start(t) \/ Acquire(t) \/ Close(t) \/ GiveBack(t) \/ PoolStep(t) \/ Cancel(t)
        PROVE  ExactInv'
    BY <1>2, ExactStep
  <1> QED BY <1>1, <1>2 DEF Next

(* Only the cancellation of a ping, an open or a close(), or a start() on a *)
(* closed pool, makes AsyncConnectionPool._created drift: until then it is  *)
(* exact, and what is in _in_use is in some task's hands.                   *)
THEOREM ExactUnlessCut == Spec => []SlotsAccounted
  <1>1. Spec => []ExactInv
    BY Owners, Counts, Lending, ExactInit, ExactNext, PTL DEF Spec
  <1>2. LentInv /\ ExactInv => SlotsAccounted
    BY DEF LentInv, Lent, ExactInv, SlotsAccounted, SizeIsExact, Handling
  <1> QED BY <1>1, <1>2, Lending, PTL

-----------------------------------------------------------------------------
(* No lost wakeup, where a notification is handed on or no wait is          *)
(* cancelled.  A step frees no unit and puts no awake task to sleep, or the *)
(* task it takes uses a unit up, or it wakes a task for what it frees.      *)
FreeUnits == Cardinality(idle) + FreeSlots

WakeInv == NoLostWakeup /\ (closed => waiters = {})

LEMMA AwakeFinite ==
  ASSUME IsFiniteSet(Tasks), OwnInv
  PROVE  IsFiniteSet(Awake) /\ Cardinality(Awake) \in Nat /\ Cardinality(idle) \in Nat /\ FreeUnits \in Nat
  <1>1. Awake \subseteq Tasks
    BY DEF Awake
  <1>2. IsFiniteSet(Awake)
    BY <1>1, FS_Subset
  <1>3. Cardinality(Awake) \in Nat /\ Cardinality(idle) \in Nat
    BY <1>2, FS_CardinalityType DEF OwnInv, Shape
  <1>4. FreeUnits \in Nat
    BY <1>3, SizeAssumption DEF FreeUnits, FreeSlots, OwnInv, Shape
  <1> QED BY <1>2, <1>3, <1>4

(* The four ways a step keeps the balance; gone and come are the tasks that *)
(* stop being awake and that begin to be.                                   *)
LEMMA Balance ==
  ASSUME IsFiniteSet(Tasks), OwnInv, OwnInv', NoLostWakeup, waiters' \subseteq waiters,
         NEW gone, NEW come,
         \/ FreeUnits' <= FreeUnits /\ Awake \subseteq Awake'
         \/ FreeUnits' <= FreeUnits - 1 /\ Awake \ {gone} \subseteq Awake'
         \/ FreeUnits' <= FreeUnits + 1 /\ come \notin Awake /\ Awake \union {come} \subseteq Awake'
         \/ /\ FreeUnits' <= FreeUnits /\ come \notin Awake
            /\ (Awake \ {gone}) \union {come} \subseteq Awake'
  PROVE  NoLostWakeup'
  <1>1. IsFiniteSet(Awake) /\ Cardinality(Awake) \in Nat /\ FreeUnits \in Nat
    BY AwakeFinite
  <1>2. IsFiniteSet(Tasks) /\ Awake' \subseteq Tasks
    BY DEF Awake
  <1>3. IsFiniteSet(Awake') /\ Cardinality(Awake') \in Nat
    BY <1>2, FS_Subset, FS_CardinalityType
  <1>4. FreeUnits' \in Int
    BY FS_CardinalityType, SizeAssumption DEF FreeUnits, FreeSlots, OwnInv, Shape
  <1>5. SUFFICES ASSUME waiters' # {} PROVE FreeUnits' <= Cardinality(Awake')
    BY DEF NoLostWakeup, FreeUnits
  <1>6. FreeUnits <= Cardinality(Awake)
    BY <1>5 DEF NoLostWakeup, FreeUnits
  <1>7. CASE FreeUnits' <= FreeUnits /\ Awake \subseteq Awake'
    <2>1. Cardinality(Awake) <= Cardinality(Awake')
      BY <1>3, <1>7, FS_Subset
    <2> QED BY <1>1, <1>3, <1>4, <1>6, <1>7, <2>1
  <1>8. /\ IsFiniteSet(Awake \ {gone}) /\ Cardinality(Awake \ {gone}) \in Nat
        /\ Cardinality(Awake \ {gone}) >= Cardinality(Awake) - 1
    <2>1. IsFiniteSet(Awake \ {gone})
      BY <1>1, FS_RemoveElement
    <2>2. Cardinality(Awake \ {gone}) = IF gone \in Awake THEN Cardinality(Awake) - 1 ELSE Cardinality(Awake)
      BY <1>1, FS_RemoveElement
    <2>3. Cardinality(Awake \ {gone}) \in Nat
      BY <2>1, FS_CardinalityType
    <2> QED BY <1>1, <2>1, <2>2, <2>3
  <1>9. CASE FreeUnits' <= FreeUnits - 1 /\ Awake \ {gone} \subseteq Awake'
    <2>1. Cardinality(Awake \ {gone}) <= Cardinality(Awake')
      BY <1>3, <1>9, FS_Subset
    <2> QED BY <1>1, <1>3, <1>4, <1>6, <1>8, <1>9, <2>1
  <1>10. CASE FreeUnits' <= FreeUnits + 1 /\ come \notin Awake /\ Awake \union {come} \subseteq Awake'
    <2>1. Cardinality(Awake \union {come}) = Cardinality(Awake) + 1
      BY <1>1, <1>10, FS_AddElement
    <2>2. Cardinality(Awake \union {come}) <= Cardinality(Awake')
      BY <1>3, <1>10, FS_Subset
    <2> QED BY <1>1, <1>3, <1>4, <1>6, <1>10, <2>1, <2>2
  <1>11. CASE /\ FreeUnits' <= FreeUnits /\ come \notin Awake
              /\ (Awake \ {gone}) \union {come} \subseteq Awake'
    <2>1. Cardinality((Awake \ {gone}) \union {come}) = Cardinality(Awake \ {gone}) + 1
      BY <1>8, <1>11, FS_AddElement
    <2>2. Cardinality((Awake \ {gone}) \union {come}) <= Cardinality(Awake')
      BY <1>3, <1>11, FS_Subset
    <2> QED BY <1>1, <1>3, <1>4, <1>6, <1>8, <1>11, <2>1, <2>2
  <1> QED BY <1>7, <1>9, <1>10, <1>11

LEMMA WakeStep ==
  ASSUME IsFiniteSet(Tasks), Renotify \/ "waiting" \notin CancelPoints,
         OwnInv, OwnInv', WakeInv, NEW t \in Tasks,
         Start(t) \/ Acquire(t) \/ Close(t) \/ GiveBack(t) \/ PoolStep(t) \/ Cancel(t)
  PROVE  WakeInv'
  <1> USE DEF Goto
  <1>0. /\ \A u \in waiters : u \in Tasks /\ pc[u] = "waiting"
        /\ created \in Int /\ IsFiniteSet(idle) /\ Cardinality(idle) \in Nat
        /\ NoLostWakeup /\ MaxSize \in Nat
    BY AwakeFinite, SizeAssumption DEF OwnInv, Shape, WakeInv
  <1>1. CASE \/ Start(t) \/ WarmOpenFails(t) \/ StartReturns(t) \/ Acquire(t) \/ PingHealthy(t) \/ DiscardDone(t)
             \/ OpenOk(t) \/ ReleaseClosesConn(t) \/ CloseVictim(t) \/ CloseReturns(t) \/ CancelPing(t)
             \/ CancelOpen(t) \/ CancelCloseOfOne(t) \/ CancelClose(t) \/ CancelStart(t)
    <2>1. UNCHANGED <<idle, created, waiters, closed>>
      BY <1>1 DEF Start, WarmOpenFails, StartReturns, Acquire, PingHealthy, DiscardDone, OpenOk,
                  ReleaseClosesConn, CloseVictim, CloseReturns, CancelPing, CancelOpen, CancelCloseOfOne,
                  CancelClose, CancelStart
    <2>2. /\ \A u \in Tasks : u # t => pc'[u] = pc[u]
          /\ t \in Awake => pc'[t] = "checkout"
      BY <1>1 DEF Start, WarmOpenFails, StartReturns, Acquire, PingHealthy, DiscardDone, OpenOk,
                  ReleaseClosesConn, CloseVictim, CloseReturns, CancelPing, CancelOpen, CancelCloseOfOne,
                  CancelClose, CancelStart, CancelAt, Awake, AtLoopTop, OwnInv, Shape
    <2>3. Awake \subseteq Awake' /\ FreeUnits' = FreeUnits
      BY <2>1, <2>2 DEF Awake, AtLoopTop, FreeUnits, FreeSlots
    <2>4. FreeUnits' <= FreeUnits
      BY <2>3, AwakeFinite
    <2>5. NoLostWakeup'
      BY <1>0, <2>1, <2>3, <2>4, Balance
    <2> QED BY <2>1, <2>5 DEF WakeInv
  <1>2. CASE TakeIdle(t) \/ Reserve(t)
    <2>1. ~closed' /\ waiters' = waiters /\ \A u \in Tasks : u # t => pc'[u] = pc[u]
      BY <1>2 DEF TakeIdle, Reserve, OwnInv, Shape
    <2>2. Awake \ {t} \subseteq Awake'
      BY <2>1 DEF Awake, AtLoopTop
    <2>3. FreeUnits' = FreeUnits - 1
      <3>1. CASE TakeIdle(t)
        <4>1. PICK c \in idle : idle' = idle \ {c} /\ created' = created
          BY <3>1 DEF TakeIdle
        <4>2. Cardinality(idle') = Cardinality(idle) - 1
          BY <1>0, <4>1, Loss
        <4> QED BY <1>0, <4>1, <4>2 DEF FreeUnits, FreeSlots
      <3>2. CASE Reserve(t)
        <4>1. idle' = idle /\ created' = created + 1 /\ created < MaxSize
          BY <3>2 DEF Reserve
        <4> QED BY <1>0, <4>1 DEF FreeUnits, FreeSlots
      <3> QED BY <1>2, <3>1, <3>2
    <2>4. FreeUnits' <= FreeUnits - 1
      BY <2>3, AwakeFinite
    <2>5. NoLostWakeup'
      BY <1>0, <2>1, <2>2, <2>4, Balance
    <2> QED BY <2>1, <2>5 DEF WakeInv
  <1>3. CASE Wait(t)
    <2>1. ~closed' /\ idle' = {} /\ created' = created /\ created >= MaxSize
      BY <1>3 DEF Wait
    <2>2. Cardinality(idle') = 0
      BY <2>1, FS_EmptySet
    <2>3. Cardinality(idle') + FreeSlots' = 0
      BY <1>0, <2>1, <2>2 DEF FreeSlots
    <2>4. Awake' \subseteq Tasks
      BY DEF Awake
    <2>5. Cardinality(Awake') \in Nat
      BY <2>4, FS_Subset, FS_CardinalityType
    <2> QED BY <2>1, <2>3, <2>5 DEF WakeInv, NoLostWakeup
  <1>4. CASE RefuseClosed(t) \/ ReleaseToClosedPool(t) \/ Close(t)
    <2>1. waiters' = {}
      BY <1>4 DEF RefuseClosed, ReleaseToClosedPool, Close, Notify, WakeInv
    <2> QED BY <2>1 DEF WakeInv, NoLostWakeup
  <1>5. CASE WarmOpens(t) \/ PingDead(t) \/ OpenFails(t) \/ Release(t)
    <2>1. Notify /\ closed' = closed
      BY <1>5 DEF WarmOpens, PingDead, OpenFails, Release
    <2>2. pc[t] # "waiting" /\ pc[t] # "checkout" /\ \A u \in Tasks : u # t => pc'[u] = pc[u]
      BY <1>5 DEF WarmOpens, PingDead, OpenFails, Release, OwnInv, Shape
    <2>3. FreeUnits' <= FreeUnits + 1
      <3>1. CASE WarmOpens(t)
        <4>1. PICK c \in Conns \ live : idle' = idle \union {c} /\ created' = created + 1
          BY <3>1 DEF WarmOpens
        <4>2. Cardinality(idle') <= Cardinality(idle) + 1 /\ Cardinality(idle') \in Nat
          BY <1>0, <4>1, Gain
        <4> QED BY <1>0, <4>1, <4>2 DEF FreeUnits, FreeSlots
      <3>2. CASE PingDead(t) \/ OpenFails(t)
        <4>1. idle' = idle /\ created' = created - 1
          BY <3>2 DEF PingDead, OpenFails
        <4> QED BY <1>0, <4>1 DEF FreeUnits, FreeSlots
      <3>3. CASE Release(t)
        <4>1. idle' = idle \union {conn[t]} /\ created' = created
          BY <3>3 DEF Release
        <4>2. Cardinality(idle') <= Cardinality(idle) + 1 /\ Cardinality(idle') \in Nat
          BY <1>0, <4>1, Gain
        <4> QED BY <1>0, <4>1, <4>2 DEF FreeUnits, FreeSlots
      <3> QED BY <1>5, <3>1, <3>2, <3>3
    <2>4. CASE waiters = {}
      BY <2>1, <2>4 DEF Notify, WakeInv, NoLostWakeup
    <2>5. CASE waiters # {}
      <3>1. PICK w \in waiters : waiters' = waiters \ {w}
        BY <2>1, <2>5 DEF Notify
      <3>2. w \notin Awake /\ Awake \union {w} \subseteq Awake'
        BY <1>0, <2>2, <3>1 DEF Awake, AtLoopTop
      <3>3. waiters' \subseteq waiters
        BY <3>1
      <3>4. NoLostWakeup'
        BY <1>0, <2>3, <3>2, <3>3, Balance
      <3>5. ~closed
        BY <2>5 DEF WakeInv
      <3> QED BY <2>1, <3>4, <3>5 DEF WakeInv
    <2> QED BY <2>4, <2>5
  <1>6. CASE CancelWait(t)
    <2>1. /\ pc[t] = "waiting" /\ pc'[t] = "out" /\ \A u \in Tasks : u # t => pc'[u] = pc[u]
          /\ UNCHANGED <<idle, created, closed>>
      BY <1>6 DEF CancelWait, CancelAt, OwnInv, Shape
    <2>2. FreeUnits' = FreeUnits
      BY <2>1 DEF FreeUnits, FreeSlots
    <2>3. FreeUnits' <= FreeUnits
      BY <2>2, AwakeFinite
    <2>4. CASE t \in waiters
      <3>1. waiters' = waiters \ {t}
        BY <1>6, <2>4 DEF CancelWait
      <3>2. Awake \subseteq Awake' /\ waiters' \subseteq waiters
        BY <2>1, <2>4, <3>1 DEF Awake, AtLoopTop
      <3>3. NoLostWakeup'
        BY <1>0, <2>3, <3>2, Balance
      <3> QED BY <2>1, <3>1, <3>3 DEF WakeInv
    <2>5. CASE t \notin waiters
      <3>1. Notify
        BY <1>6, <2>5 DEF CancelWait, CancelAt
      <3>2. CASE waiters = {}
        BY <3>1, <3>2 DEF Notify, WakeInv, NoLostWakeup
      <3>3. CASE waiters # {}
        <4>1. PICK w \in waiters : waiters' = waiters \ {w}
          BY <3>1, <3>3 DEF Notify
        <4>2. w \notin Awake /\ (Awake \ {t}) \union {w} \subseteq Awake'
          BY <1>0, <2>1, <2>5, <4>1 DEF Awake, AtLoopTop
        <4>3. waiters' \subseteq waiters
          BY <4>1
        <4>4. NoLostWakeup'
          BY <1>0, <2>3, <4>2, <4>3, Balance
        <4> QED BY <2>1, <3>3, <4>4 DEF WakeInv
      <3> QED BY <3>2, <3>3
    <2> QED BY <2>4, <2>5
  <1> QED BY <1>1, <1>2, <1>3, <1>4, <1>5, <1>6 DEF GiveBack, PoolStep, Cancel

(* In AsyncConnectionPool a free slot or idle connection always has an      *)
(* awake task of its own while another one sleeps in cond.wait(), for any   *)
(* finite number of tasks, if asyncio hands a cancelled waiter's            *)
(* notification on, or no wait is cancelled.                                *)
THEOREM NoneSleepsThrough ==
  ASSUME IsFiniteSet(Tasks), Renotify \/ "waiting" \notin CancelPoints
  PROVE  Spec => []NoLostWakeup
  <1>1. Init => WakeInv
    BY DEF Init, WakeInv, NoLostWakeup
  <1>2. OwnInv /\ OwnInv' /\ WakeInv /\ [Next]_vars => WakeInv'
    <2> SUFFICES ASSUME OwnInv, OwnInv', WakeInv, [Next]_vars PROVE WakeInv'
      OBVIOUS
    <2>1. CASE UNCHANGED vars
      BY <2>1 DEF vars, WakeInv, NoLostWakeup, FreeSlots, Awake, AtLoopTop
    <2>2. ASSUME NEW t \in Tasks,
                 Start(t) \/ Acquire(t) \/ Close(t) \/ GiveBack(t) \/ PoolStep(t) \/ Cancel(t)
          PROVE  WakeInv'
      BY <2>2, WakeStep
    <2> QED BY <2>1, <2>2 DEF Next
  <1>3. WakeInv => NoLostWakeup
    BY DEF WakeInv
  <1> QED BY <1>1, <1>2, <1>3, Owners, PTL DEF Spec
-----------------------------------------------------------------------------
(* The contract, shared with the thread-safe pool.  A cancellation in the   *)
(* middle of a ping or an open withdraws the reservation as a failure does, *)
(* one while the task waits or discards is a refusal.                       *)
LentTo == [t \in Tasks |-> IF pc[t] = "holding" THEN conn[t] ELSE NoConn]

LEMMA StageMoves ==
  ASSUME NEW t \in Tasks, \A u \in Tasks : u # t => pc'[u] = pc[u],
         NEW a, NEW b, Stage(t) = a, Stage(t)' = b
  PROVE  Contract!Move(t, a, b)
  <1>1. \A u \in Tasks : u # t => Stage(u)' = Stage(u)
    BY DEF Stage
  <1>2. [u \in Tasks |-> Stage(u)][t] = a
    OBVIOUS
  <1>3. [u \in Tasks |-> Stage(u)]' = [[u \in Tasks |-> Stage(u)] EXCEPT ![t] = b]
    BY <1>1
  <1> QED BY <1>2, <1>3 DEF Contract!Move

LEMMA StagesStay ==
  ASSUME NEW t \in Tasks, \A u \in Tasks : u # t => pc'[u] = pc[u], Stage(t)' = Stage(t)
  PROVE  UNCHANGED [u \in Tasks |-> Stage(u)]
  <1>1. \A u \in Tasks : u # t => Stage(u)' = Stage(u)
    BY DEF Stage
  <1> QED BY <1>1

LEMMA LentStays ==
  ASSUME \A u \in Tasks : /\ pc[u] = "holding" <=> pc'[u] = "holding"
                          /\ pc[u] = "holding" => conn'[u] = conn[u]
  PROVE  UNCHANGED LentTo
  BY DEF LentTo

(* Who has a claim has a slot: a connection of _in_use or a reservation.    *)
LEMMA ClaimsCounted ==
  ASSUME OwnInv, CountInv
  PROVE  /\ Cardinality(idle) \in Nat /\ Cardinality(inUse) \in Nat /\ Cardinality(Opening) \in Nat
         /\ Cardinality(Contract!Claims) \in Nat
         /\ Cardinality(Contract!Claims) <= Cardinality(inUse) + Cardinality(Opening)
  <1>1. Contract!Claims = Lent \union Opening
    BY DEF Contract!Claims, Stage, Lent, Opening
  <1>2. /\ IsFiniteSet(idle) /\ Cardinality(idle) \in Nat
        /\ IsFiniteSet(inUse) /\ Cardinality(inUse) \in Nat
        /\ IsFiniteSet(Opening) /\ Cardinality(Opening) \in Nat
    BY FS_CardinalityType DEF OwnInv, Shape, CountInv
  <1>3. IsFiniteSet(Lent) /\ Cardinality(Lent) \in Nat /\ Cardinality(Lent) <= Cardinality(inUse)
    <2> DEFINE f == [t \in Lent |-> conn[t]]
    <2>1. \A t \in Lent : conn[t] \in inUse
      BY DEF OwnInv, Lent
    <2>2. \A t, u \in Lent : conn[t] = conn[u] => t = u
      BY DEF OwnInv, SingleOwner, Handling, Lent
    <2>3. f \in [Lent -> inUse]
      BY <2>1
    <2>4. IsInjective(f)
      BY <2>2 DEF IsInjective
    <2>5. f \in Injection(Lent, inUse)
      BY <2>3, <2>4 DEF Injection
    <2>6. IsFiniteSet(Lent) /\ Cardinality(Lent) <= Cardinality(inUse)
      BY <1>2, <2>5, FS_Injection
    <2> QED BY <2>6, FS_CardinalityType
  <1>4. /\ IsFiniteSet(Lent \union Opening)
        /\ Cardinality(Lent \union Opening) =
             Cardinality(Lent) + Cardinality(Opening) - Cardinality(Lent \intersect Opening)
    BY <1>2, <1>3, FS_Union
  <1>5. Lent \intersect Opening = {}
    BY DEF Lent, Opening
  <1>6. Cardinality(Lent \intersect Opening) = 0
    BY <1>5, FS_EmptySet
  <1> QED BY <1>1, <1>2, <1>3, <1>4, <1>6

(* There is room for one more claim where _checkout takes or reserves.      *)
LEMMA RoomToClaim ==
  ASSUME Ownership, OwnInv, CountInv, NEW t \in Tasks, TakeIdle(t) \/ Reserve(t)
  PROVE  Contract!Cardinality(Contract!Claims) < MaxSize + MaxStarts * MinSize
  <1>1. MaxStarts * MinSize \in Nat /\ MaxSize \in Nat
    BY SizeAssumption, BoundAssumption
  <1>2. created \in Int /\ created <= MaxSize + MaxStarts * MinSize
    <2>1. created \in 0..(MaxSize + MaxStarts * MinSize)
      BY DEF Ownership, TypeOK
    <2> QED BY <1>1, <2>1
  <1>3. Cardinality(idle) + Cardinality(inUse) + Cardinality(Opening) <= created
    BY DEF CountInv, NeverUndercounts, Counted
  <1>4. Cardinality(inUse) + Cardinality(Opening) < MaxSize + MaxStarts * MinSize
    <2>1. CASE Reserve(t)
      BY <1>1, <1>2, <1>3, <2>1, ClaimsCounted DEF Reserve
    <2>2. CASE TakeIdle(t)
      <3>1. idle # {}
        BY <2>2 DEF TakeIdle
      <3>2. Cardinality(idle) # 0
        BY <3>1, FS_EmptySet DEF OwnInv, Shape
      <3> QED BY <1>1, <1>2, <1>3, <3>2, ClaimsCounted
    <2> QED BY <2>1, <2>2
  <1>5. Contract!Cardinality(Contract!Claims) = Cardinality(Contract!Claims)
    BY Zenon DEF Cardinality, Contract!Cardinality
  <1> QED BY <1>1, <1>4, <1>5, ClaimsCounted

LEMMA ContractStep ==
  ASSUME Ownership, OwnInv, OwnInv', CountInv, NEW t \in Tasks,
         Start(t) \/ Acquire(t) \/ Close(t) \/ GiveBack(t) \/ PoolStep(t) \/ Cancel(t)
  PROVE  Contract!Next \/ UNCHANGED Contract!vars
  <1> USE DEF Goto, CancelAt
  <1>0. /\ pc \in [Tasks -> {"out", "checkout", "holding"} \union Awaits]
        /\ conn \in [Tasks -> Conns \union {NoConn}]
    BY DEF OwnInv, Shape
  <1>1. CASE Acquire(t)
    <2>1. Contract!Move(t, "away", "asking")
      BY <1>0, <1>1, StageMoves DEF Acquire, Stage
    <2>2. UNCHANGED LentTo
      BY <1>0, <1>1, LentStays DEF Acquire
    <2> QED BY <1>1, <2>1, <2>2 DEF Acquire, Contract!Next, Contract!Ask, LentTo
  <1>2. CASE \/ RefuseClosed(t) \/ CancelWait(t)
             \/ pc[t] = "discarding" /\ CancelCloseOfOne(t)
    <2>1. Contract!Move(t, "asking", "away")
      BY <1>0, <1>2, StageMoves DEF RefuseClosed, CancelWait, CancelCloseOfOne, AtLoopTop, Stage
    <2>2. UNCHANGED LentTo
      <3>1. \A u \in Tasks : /\ pc[u] = "holding" <=> pc'[u] = "holding"
                             /\ pc[u] = "holding" => conn'[u] = conn[u]
        BY <1>0, <1>2 DEF RefuseClosed, CancelWait, CancelCloseOfOne, AtLoopTop
      <3> QED BY <3>1, LentStays
    <2>3. UNCHANGED closed
      BY <1>2 DEF RefuseClosed, CancelWait, CancelCloseOfOne
    <2> QED BY <2>1, <2>2, <2>3 DEF Contract!Next, Contract!Refuse, LentTo
  <1>3. CASE TakeIdle(t) \/ Reserve(t)
    <2>1. Contract!Move(t, "asking", "reserved")
      BY <1>0, <1>3, StageMoves DEF TakeIdle, Reserve, AtLoopTop, Stage
    <2>2. UNCHANGED LentTo
      <3>1. \A u \in Tasks : /\ pc[u] = "holding" <=> pc'[u] = "holding"
                             /\ pc[u] = "holding" => conn'[u] = conn[u]
        BY <1>0, <1>3 DEF TakeIdle, Reserve, AtLoopTop
      <3> QED BY <3>1, LentStays
    <2>3. ~closed /\ UNCHANGED closed
      BY <1>3 DEF TakeIdle, Reserve
    <2>4. Contract!Reserve(t)
      BY <1>3, <2>1, <2>2, <2>3, RoomToClaim DEF Contract!Reserve, LentTo
    <2> QED BY <2>4 DEF Contract!Next
  <1>4. CASE PingDead(t) \/ OpenFails(t) \/ CancelPing(t) \/ CancelOpen(t)
    <2>1. Contract!Move(t, "reserved", "asking") \/ Contract!Move(t, "reserved", "away")
      <3>1. CASE PingDead(t)
        BY <1>0, <3>1, StageMoves DEF PingDead, Stage
      <3>2. CASE OpenFails(t) \/ CancelPing(t) \/ CancelOpen(t)
        BY <1>0, <3>2, StageMoves DEF OpenFails, CancelPing, CancelOpen, Stage
      <3> QED BY <1>4, <3>1, <3>2
    <2>2. UNCHANGED LentTo
      <3>1. \A u \in Tasks : /\ pc[u] = "holding" <=> pc'[u] = "holding"
                             /\ pc[u] = "holding" => conn'[u] = conn[u]
        BY <1>0, <1>4 DEF PingDead, OpenFails, CancelPing, CancelOpen
      <3> QED BY <3>1, LentStays
    <2>3. UNCHANGED closed
      BY <1>4 DEF PingDead, OpenFails, CancelPing, CancelOpen
    <2> QED BY <2>1, <2>2, <2>3 DEF Contract!Next, Contract!Withdraw, LentTo
  <1>5. CASE PingHealthy(t) \/ OpenOk(t)
    <2>1. Contract!Move(t, "reserved", "lent")
      BY <1>0, <1>5, StageMoves DEF PingHealthy, OpenOk, Stage
    <2>2. /\ pc'[t] = "holding" /\ pc[t] # "holding"
          /\ \A u \in Tasks : u # t => pc'[u] = pc[u] /\ conn'[u] = conn[u]
      BY <1>0, <1>5 DEF PingHealthy, OpenOk
    <2>3. conn'[t] \in Conns /\ \A u \in Tasks : pc[u] = "holding" => conn[u] # conn'[t]
      <3>1. /\ conn'[t] \in live' /\ live' \subseteq Conns
            /\ \A u \in Tasks : u # t /\ pc'[u] = "holding" => conn'[u] # conn'[t]
        BY <2>2 DEF OwnInv, Shape, SingleOwner, Handling
      <3> QED BY <2>2, <3>1
    <2>4. \A u \in Tasks : LentTo[u] # conn'[t]
      BY <2>3, ConnAssumption DEF LentTo
    <2>5. LentTo' = [LentTo EXCEPT ![t] = conn'[t]]
      BY <2>2 DEF LentTo
    <2>6. UNCHANGED closed
      BY <1>5 DEF PingHealthy, OpenOk
    <2>7. Contract!Lend(t)
      BY <2>1, <2>3, <2>4, <2>5, <2>6 DEF Contract!Lend, LentTo
    <2> QED BY <2>7 DEF Contract!Next
  <1>6. CASE Release(t) \/ ReleaseToClosedPool(t)
    <2>1. Contract!Move(t, "lent", "away")
      BY <1>0, <1>6, StageMoves DEF Release, ReleaseToClosedPool, Stage
    <2>2. pc'[t] # "holding" /\ \A u \in Tasks : u # t => pc'[u] = pc[u] /\ conn'[u] = conn[u]
      BY <1>0, <1>6 DEF Release, ReleaseToClosedPool
    <2>3. LentTo' = [LentTo EXCEPT ![t] = NoConn]
      BY <2>2 DEF LentTo
    <2> QED BY <1>6, <2>1, <2>3 DEF Release, ReleaseToClosedPool, Contract!Next, Contract!GiveBack, LentTo
  <1>7. CASE Close(t)
    <2>1. UNCHANGED [u \in Tasks |-> Stage(u)]
      BY <1>0, <1>7, StagesStay DEF Close, Stage
    <2>2. UNCHANGED LentTo
      BY <1>0, <1>7, LentStays DEF Close
    <2> QED BY <1>7, <2>1, <2>2 DEF Close, Contract!Next, Contract!Close, LentTo
  <1>8. CASE \/ Start(t) \/ WarmOpens(t) \/ WarmOpenFails(t) \/ StartReturns(t) \/ Wait(t) \/ DiscardDone(t)
             \/ ReleaseClosesConn(t) \/ CloseVictim(t) \/ CloseReturns(t) \/ CancelClose(t) \/ CancelStart(t)
             \/ pc[t] = "releasing" /\ CancelCloseOfOne(t)
    <2>1. UNCHANGED [u \in Tasks |-> Stage(u)]
      <3>1. \A u \in Tasks : u # t => pc'[u] = pc[u]
        BY <1>0, <1>8 DEF Start, WarmOpens, WarmOpenFails, StartReturns, Wait, DiscardDone, ReleaseClosesConn,
                          CloseVictim, CloseReturns, CancelClose, CancelStart, CancelCloseOfOne
      <3>2. Stage(t)' = Stage(t)
        BY <1>0, <1>8 DEF Start, WarmOpens, WarmOpenFails, StartReturns, Wait, DiscardDone, ReleaseClosesConn,
                          CloseVictim, CloseReturns, CancelClose, CancelStart, CancelCloseOfOne, AtLoopTop, Stage
      <3> QED BY <3>1, <3>2, StagesStay
    <2>2. UNCHANGED LentTo
      <3>1. \A u \in Tasks : /\ pc[u] = "holding" <=> pc'[u] = "holding"
                             /\ pc[u] = "holding" => conn'[u] = conn[u]
        BY <1>0, <1>8 DEF Start, WarmOpens, WarmOpenFails, StartReturns, Wait, DiscardDone, ReleaseClosesConn,
                          CloseVictim, CloseReturns, CancelClose, CancelStart, CancelCloseOfOne, AtLoopTop
      <3> QED BY <3>1, LentStays
    <2>3. closed' = closed
      BY <1>8 DEF Start, WarmOpens, WarmOpenFails, StartReturns, Wait, DiscardDone, ReleaseClosesConn,
                  CloseVictim, CloseReturns, CancelClose, CancelStart, CancelCloseOfOne
    <2> QED BY <2>1, <2>2, <2>3 DEF Contract!vars, LentTo
  <1>9. CASE CancelCloseOfOne(t)
    BY <1>2, <1>8, <1>9 DEF CancelCloseOfOne
  <1> QED BY <1>1, <1>2, <1>3, <1>4, <1>5, <1>6, <1>7, <1>8, <1>9 DEF GiveBack, PoolStep, Cancel

(* AsyncConnectionPool implements PoolContract with the ceiling raised by   *)
(* what start() opens: it lends distinct connections and reserves nothing   *)
(* once it is closed, wherever cancellations land.                          *)
THEOREM AsyncPoolMeetsContract == Spec => ImplementsContract
  <1>1. Init => Contract!Init
    BY DEF Init, Contract!Init, Stage
  <1>2. Ownership /\ OwnInv /\ OwnInv' /\ CountInv /\ [Next]_vars => [Contract!Next]_(Contract!vars)
    <2> SUFFICES ASSUME Ownership, OwnInv, OwnInv', CountInv, [Next]_vars
                 PROVE  [Contract!Next]_(Contract!vars)
      OBVIOUS
    <2>1. CASE UNCHANGED vars
      BY <2>1 DEF vars, Contract!vars, Stage
    <2>2. ASSUME NEW t \in Tasks,
                 Start(t) \/ Acquire(t) \/ Close(t) \/ GiveBack(t) \/ PoolStep(t) \/ Cancel(t)
          PROVE  [Contract!Next]_(Contract!vars)
      BY <2>2, ContractStep
    <2> QED BY <2>1, <2>2 DEF Next
  <1> QED BY <1>1, <1>2, OneOwnerPerConnection, Owners, Counts, PTL DEF Spec, ImplementsContract, Contract!Spec
=============================================================================
