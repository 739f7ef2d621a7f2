------------------------ MODULE ConnectionPoolProofs ------------------------
(***************************************************************************)
(* What TLAPS proves of ConnectionPool for every set of threads, every     *)
(* set of connections and every min_size and max_size.                     *)
(***************************************************************************)
EXTENDS ConnectionPool, FiniteSetTheorems, TLAPS

(* Who owns what: no two threads handle one connection, none of theirs is   *)
(* idle or on a close list, and _in_use is what is borrowed.  Inductive as  *)
(* it stands; the other invariants are proved from it.                      *)
THEOREM OwnershipInvariant == Spec => []Ownership
<1>1. Init => Ownership
  <2> SUFFICES ASSUME Init PROVE Ownership
    OBVIOUS
  <2>1. TypeOK
    <3>1. idle \subseteq Conns /\ IsFiniteSet(idle) /\ live \subseteq Conns
      BY DEF Init
    <3>2. created \in Int /\ faults \in 0..MaxFaults
      BY FaultAssumption, SizeAssumption DEF Init
    <3>3. pc \in [Threads -> PC] /\ waiters \subseteq {t \in Threads : pc[t] = "waiting"}
      BY DEF Init, PC
    <3>4. QED
      BY <3>1, <3>2, <3>3, FS_EmptySet DEF Init, TypeOK
  <2>2. QED
    BY <2>1 DEF Init, Ownership, SingleOwner, Handling, Borrowing
<1>2. Ownership /\ [Next]_vars => Ownership'
  <2> SUFFICES ASSUME Ownership, [Next]_vars PROVE Ownership'
    OBVIOUS
  <2> USE ConnAssumption DEF Goto, Handling, Borrowing
  <2>1. ASSUME NEW t \in Threads, Acquire(t) PROVE Ownership'
    <3>1. TypeOK'
      BY <2>1
      DEF Acquire, Ownership, TypeOK, SingleOwner, PC
    <3>2. SingleOwner'
      BY <2>1 DEF Acquire, Ownership, TypeOK, SingleOwner
    <3>3. QED
      BY <2>1, <3>1, <3>2 DEF Acquire, Ownership, TypeOK, SingleOwner
  <2>2. ASSUME NEW t \in Threads, DeadlinePasses(t) PROVE Ownership'
    <3>1. TypeOK'
      BY <2>2
      DEF DeadlinePasses, Ownership, TypeOK, SingleOwner, PC
    <3>2. SingleOwner'
      BY <2>2 DEF DeadlinePasses, Ownership, TypeOK, SingleOwner
    <3>3. QED
      BY <2>2, <3>1, <3>2 DEF DeadlinePasses, Ownership, TypeOK, SingleOwner
  <2>3. ASSUME NEW t \in Threads, RefuseClosed(t) PROVE Ownership'
    <3>1. TypeOK'
      BY <2>3
      DEF RefuseClosed, AtLoopTop, Ownership, TypeOK, SingleOwner, PC
    <3>2. SingleOwner'
      BY <2>3 DEF RefuseClosed, AtLoopTop, Ownership, TypeOK, SingleOwner
    <3>3. QED
      BY <2>3, <3>1, <3>2
      DEF RefuseClosed, AtLoopTop, Ownership, TypeOK, SingleOwner
  <2>4. ASSUME NEW t \in Threads, TakeIdle(t) PROVE Ownership'
    <3> PICK c \in idle : /\ idle' = idle \ {c}
                        /\ inUse' = inUse \union {c}
                        /\ conn' = [conn EXCEPT ![t] = c]
      BY <2>4 DEF TakeIdle
    <3>1. IsFiniteSet(idle') /\ IsFiniteSet(inUse')
      BY FS_AddElement, FS_RemoveElement DEF Ownership, TypeOK
    <3>2. TypeOK'
      BY <2>4, <3>1 DEF TakeIdle, AtLoopTop, Ownership, TypeOK, PC
    <3>3. SingleOwner'
      BY <2>4 DEF TakeIdle, AtLoopTop, Ownership, TypeOK, SingleOwner
    <3>4. QED
      BY <2>4, <3>2, <3>3 DEF TakeIdle, AtLoopTop, Ownership, TypeOK, SingleOwner
  <2>5. ASSUME NEW t \in Threads, PingHealthy(t) PROVE Ownership'
    <3>1. TypeOK'
      BY <2>5
      DEF PingHealthy, Ownership, TypeOK, SingleOwner, PC
    <3>2. SingleOwner'
      BY <2>5 DEF PingHealthy, Ownership, TypeOK, SingleOwner
    <3>3. QED
      BY <2>5, <3>1, <3>2 DEF PingHealthy, Ownership, TypeOK, SingleOwner
  <2>6. ASSUME NEW t \in Threads, PingDead(t) PROVE Ownership'
    <3>1. TypeOK'
      BY <2>6, FaultAssumption, FS_RemoveElement
      DEF PingDead, Fault, Ownership, TypeOK, SingleOwner, PC
    <3>2. SingleOwner'
      BY <2>6 DEF PingDead, Fault, Ownership, TypeOK, SingleOwner
    <3>3. QED
      BY <2>6, <3>1, <3>2 DEF PingDead, Fault, Ownership, TypeOK, SingleOwner
  <2>7. ASSUME NEW t \in Threads, DiscardDone(t) PROVE Ownership'
    <3>1. TypeOK'
      BY <2>7
      DEF DiscardDone, Notify, Ownership, TypeOK, SingleOwner, PC
    <3>2. SingleOwner'
      BY <2>7 DEF DiscardDone, Notify, Ownership, TypeOK, SingleOwner
    <3>3. QED
      BY <2>7, <3>1, <3>2 DEF DiscardDone, Notify, Ownership, TypeOK, SingleOwner
  <2>8. ASSUME NEW t \in Threads, Reserve(t) PROVE Ownership'
    <3>1. TypeOK'
      BY <2>8
      DEF Reserve, AtLoopTop, Ownership, TypeOK, SingleOwner, PC
    <3>2. SingleOwner'
      BY <2>8 DEF Reserve, AtLoopTop, Ownership, TypeOK, SingleOwner
    <3>3. QED
      BY <2>8, <3>1, <3>2 DEF Reserve, AtLoopTop, Ownership, TypeOK, SingleOwner
  <2>9. ASSUME NEW t \in Threads, OpenOk(t) PROVE Ownership'
    <3> PICK c \in Conns \ live : /\ live' = live \union {c}
                                /\ inUse' = inUse \union {c}
                                /\ conn' = [conn EXCEPT ![t] = c]
                                /\ broken' = broken \ {c}
      BY <2>9 DEF OpenOk
    <3>1. IsFiniteSet(inUse')
      BY FS_AddElement DEF Ownership, TypeOK
    <3>2. TypeOK'
      BY <2>9, <3>1 DEF OpenOk, Ownership, TypeOK, PC
    <3>3. SingleOwner'
      BY <2>9 DEF OpenOk, Ownership, TypeOK, SingleOwner
    <3>4. QED
      BY <2>9, <3>2, <3>3 DEF OpenOk, Ownership, TypeOK, SingleOwner
  <2>10. ASSUME NEW t \in Threads, OpenFails(t) PROVE Ownership'
    <3>1. TypeOK'
      BY <2>10, FaultAssumption
      DEF OpenFails, Fault, Notify, Ownership, TypeOK, SingleOwner, PC
    <3>2. SingleOwner'
      BY <2>10 DEF OpenFails, Fault, Notify, Ownership, TypeOK, SingleOwner
    <3>3. QED
      BY <2>10, <3>1, <3>2
      DEF OpenFails, Fault, Notify, Ownership, TypeOK, SingleOwner
  <2>11. ASSUME NEW t \in Threads, GiveUp(t) PROVE Ownership'
    <3>1. TypeOK'
      BY <2>11
      DEF GiveUp, AtLoopTop, Ownership, TypeOK, SingleOwner, PC
    <3>2. SingleOwner'
      BY <2>11 DEF GiveUp, AtLoopTop, Ownership, TypeOK, SingleOwner
    <3>3. QED
      BY <2>11, <3>1, <3>2 DEF GiveUp, AtLoopTop, Ownership, TypeOK, SingleOwner
  <2>12. ASSUME NEW t \in Threads, Wait(t) PROVE Ownership'
    <3>1. TypeOK'
      BY <2>12
      DEF Wait, AtLoopTop, Ownership, TypeOK, SingleOwner, PC
    <3>2. SingleOwner'
      BY <2>12 DEF Wait, AtLoopTop, Ownership, TypeOK, SingleOwner
    <3>3. QED
      BY <2>12, <3>1, <3>2 DEF Wait, AtLoopTop, Ownership, TypeOK, SingleOwner
  <2>13. ASSUME NEW t \in Threads, BreakInUse(t) PROVE Ownership'
    <3>1. TypeOK'
      BY <2>13, FaultAssumption
      DEF BreakInUse, Fault, Ownership, TypeOK, SingleOwner, PC
    <3>2. SingleOwner'
      BY <2>13 DEF BreakInUse, Fault, Ownership, TypeOK, SingleOwner
    <3>3. QED
      BY <2>13, <3>1, <3>2 DEF BreakInUse, Fault, Ownership, TypeOK, SingleOwner
  <2>14. ASSUME NEW t \in Threads, Release(t) PROVE Ownership'
    <3>1. TypeOK'
      BY <2>14, FS_AddElement, FS_RemoveElement
      DEF Release, Notify, Ownership, TypeOK, SingleOwner, PC
    <3>2. SingleOwner'
      BY <2>14 DEF Release, Notify, Ownership, TypeOK, SingleOwner
    <3>3. QED
      BY <2>14, <3>1, <3>2 DEF Release, Notify, Ownership, TypeOK, SingleOwner
  <2>15. ASSUME NEW t \in Threads, ReleaseToClosedPool(t) PROVE Ownership'
    <3>1. TypeOK'
      BY <2>15, FS_RemoveElement
      DEF ReleaseToClosedPool, Ownership, TypeOK, SingleOwner, PC
    <3>2. SingleOwner'
      BY <2>15 DEF ReleaseToClosedPool, Ownership, TypeOK, SingleOwner
    <3>3. QED
      BY <2>15, <3>1, <3>2 DEF ReleaseToClosedPool, Ownership, TypeOK, SingleOwner
  <2>16. ASSUME NEW t \in Threads, ReleaseClosesConn(t) PROVE Ownership'
    <3>1. TypeOK'
      BY <2>16
      DEF ReleaseClosesConn, Notify, Ownership, TypeOK, SingleOwner, PC
    <3>2. SingleOwner'
      BY <2>16 DEF ReleaseClosesConn, Notify, Ownership, TypeOK, SingleOwner
    <3>3. QED
      BY <2>16, <3>1, <3>2
      DEF ReleaseClosesConn, Notify, Ownership, TypeOK, SingleOwner
  <2>17. ASSUME NEW t \in Threads, Close(t) PROVE Ownership'
    <3>1. TypeOK'
      BY <2>17, FS_EmptySet
      DEF Close, Ownership, TypeOK, SingleOwner, PC
    <3>2. SingleOwner'
      BY <2>17 DEF Close, Ownership, TypeOK, SingleOwner
    <3>3. QED
      BY <2>17, <3>1, <3>2 DEF Close, Ownership, TypeOK, SingleOwner
  <2>18. ASSUME NEW t \in Threads, CloseVictim(t) PROVE Ownership'
    <3>1. TypeOK'
      BY <2>18
      DEF CloseVictim, Ownership, TypeOK, SingleOwner, PC
    <3>2. SingleOwner'
      BY <2>18 DEF CloseVictim, Ownership, TypeOK, SingleOwner
    <3>3. QED
      BY <2>18, <3>1, <3>2 DEF CloseVictim, Ownership, TypeOK, SingleOwner
  <2>19. ASSUME NEW t \in Threads, CloseReturns(t) PROVE Ownership'
    <3>1. TypeOK'
      BY <2>19
      DEF CloseReturns, Ownership, TypeOK, SingleOwner, PC
    <3>2. SingleOwner'
      BY <2>19, SMTT(30) DEF CloseReturns, Ownership, TypeOK, SingleOwner
    <3>3. QED
      BY <2>19, <3>1, <3>2 DEF CloseReturns, Ownership, TypeOK, SingleOwner
  <2>20. CASE UNCHANGED vars
    BY <2>20 DEF vars, Ownership, TypeOK, SingleOwner
  <2>q. QED
    BY <2>1, <2>2, <2>3, <2>4, <2>5, <2>6, <2>7, <2>8, <2>9, <2>10, <2>11,
       <2>12, <2>13, <2>14, <2>15, <2>16, <2>17, <2>18, <2>19, <2>20
    DEF Next, GiveBack, PoolStep
<1>q. QED BY <1>1, <1>2, PTL DEF Spec

-----------------------------------------------------------------------------
(* The counting arguments take finite sets of threads and how a step that   *)
(* moves one thread changes them.                                           *)
LEMMA ThreadSetsFinite ==
  ASSUME NEW S, S \subseteq Threads
  PROVE  IsFiniteSet(S) /\ Cardinality(S) \in Nat
  BY ThreadAssumption, FS_Subset, FS_CardinalityType

(* In-use connections are open and not idle: what a step adds to one of the *)
(* two sets was not in it before.                                           *)
LEMMA InUseIsLive == Ownership => inUse \subseteq live \ idle
  BY DEF Ownership, SingleOwner, Handling, Borrowing

(* What the arithmetic over the slots needs: the three sets it counts are   *)
(* finite and created is an integer.                                        *)
LEMMA SetsCounted ==
  Ownership => /\ IsFiniteSet(idle) /\ Cardinality(idle) \in Nat
               /\ IsFiniteSet(inUse) /\ Cardinality(inUse) \in Nat
               /\ IsFiniteSet(Opening) /\ Cardinality(Opening) \in Nat
               /\ created \in Int
  BY ThreadSetsFinite, FS_CardinalityType DEF Ownership, TypeOK, Opening

(* The slot counter is exact and never exceeds max_size, whatever fails and *)
(* whoever closes the pool meanwhile.                                       *)
THEOREM SlotsInvariant == Spec => []SlotsAccounted
<1>1. Init => SlotsAccounted
  <2> SUFFICES ASSUME Init PROVE SlotsAccounted
    OBVIOUS
  <2>1. Opening = {}
    BY DEF Init, Opening
  <2>2. Cardinality(idle) = created /\ inUse = {} /\ created = MinSize
    BY DEF Init
  <2>3. QED
    BY <2>1, <2>2, SizeAssumption, FS_EmptySet DEF SlotsAccounted
<1>2. Ownership /\ SlotsAccounted /\ [Next]_vars => SlotsAccounted'
  <2> SUFFICES ASSUME Ownership, SlotsAccounted, [Next]_vars
               PROVE  SlotsAccounted'
    OBVIOUS
  <2>0. pc \in [Threads -> PC]
    BY DEF Ownership, TypeOK
  <2>a. MaxSize \in Nat
    BY SizeAssumption
  <2>1. ASSUME idle' = idle, inUse' = inUse, created' = created,
               Opening' = Opening
        PROVE  SlotsAccounted'
    BY <2>1 DEF SlotsAccounted
  <2>2. ASSUME NEW t \in Threads, NEW s, s # "opening", pc[t] # "opening",
               pc' = [pc EXCEPT ![t] = s]
        PROVE  Opening' = Opening
    BY <2>0, <2>2 DEF Opening
  <2>3. ASSUME NEW t \in Threads, TakeIdle(t) PROVE SlotsAccounted'
    <3>1. PICK c \in idle : idle' = idle \ {c} /\ inUse' = inUse \union {c}
      BY <2>3 DEF TakeIdle
    <3>2. Opening' = Opening
      BY <2>2, <2>3 DEF TakeIdle, AtLoopTop
    <3>3. /\ Cardinality(idle') = Cardinality(idle) - 1
          /\ Cardinality(inUse') = Cardinality(inUse) + 1
      BY <3>1, SetsCounted, InUseIsLive, FS_AddElement, FS_RemoveElement
    <3>4. QED
      BY <2>3, <3>2, <3>3, SetsCounted DEF TakeIdle, SlotsAccounted
  <2>4. ASSUME NEW t \in Threads, pc[t] \in {"pinging", "holding"},
               inUse' = inUse \ {conn[t]}
        PROVE  Cardinality(inUse') = Cardinality(inUse) - 1
    BY <2>4, SetsCounted, FS_RemoveElement DEF Ownership, Borrowing
  <2>5. ASSUME NEW t \in Threads, PingDead(t) PROVE SlotsAccounted'
    <3>1. Opening' = Opening /\ Cardinality(inUse') = Cardinality(inUse) - 1
      BY <2>2, <2>4, <2>5 DEF PingDead, Goto
    <3>2. idle' = idle /\ created' = created - 1
      BY <2>5 DEF PingDead
    <3>3. QED
      BY <3>1, <3>2, <2>a, SetsCounted DEF SlotsAccounted
  <2>6. ASSUME NEW t \in Threads, Reserve(t) PROVE SlotsAccounted'
    <3>1. Opening' = Opening \union {t} /\ t \notin Opening
      BY <2>0, <2>6 DEF Reserve, AtLoopTop, Opening
    <3>2. Cardinality(Opening') = Cardinality(Opening) + 1
      BY <3>1, SetsCounted, FS_AddElement
    <3>3. idle' = idle /\ inUse' = inUse /\ created' = created + 1 /\ created < MaxSize
      BY <2>6 DEF Reserve
    <3>4. QED
      BY <3>2, <3>3, <2>a, SetsCounted DEF SlotsAccounted
  <2>7. ASSUME NEW t \in Threads, NEW s, pc[t] = "opening", s # "opening",
               pc' = [pc EXCEPT ![t] = s]
        PROVE  Cardinality(Opening') = Cardinality(Opening) - 1
    <3>1. Opening' = Opening \ {t} /\ t \in Opening
      BY <2>0, <2>7 DEF Opening
    <3>2. QED
      BY <3>1, SetsCounted, FS_RemoveElement
  <2>8. ASSUME NEW t \in Threads, OpenOk(t) PROVE SlotsAccounted'
    <3>1. PICK c \in Conns \ live : inUse' = inUse \union {c}
      BY <2>8 DEF OpenOk
    <3>2. Cardinality(inUse') = Cardinality(inUse) + 1
      BY <3>1, SetsCounted, InUseIsLive, FS_AddElement
    <3>3. Cardinality(Opening') = Cardinality(Opening) - 1
      BY <2>7, <2>8 DEF OpenOk, Goto
    <3>4. idle' = idle /\ created' = created
      BY <2>8 DEF OpenOk
    <3>5. QED
      BY <3>2, <3>3, <3>4, <2>a, SetsCounted DEF SlotsAccounted
  <2>9. ASSUME NEW t \in Threads, OpenFails(t) PROVE SlotsAccounted'
    <3>1. Cardinality(Opening') = Cardinality(Opening) - 1
      BY <2>7, <2>9 DEF OpenFails, Goto
    <3>2. idle' = idle /\ inUse' = inUse /\ created' = created - 1
      BY <2>9 DEF OpenFails
    <3>3. QED
      BY <3>1, <3>2, <2>a, SetsCounted DEF SlotsAccounted
  <2>10. ASSUME NEW t \in Threads, Release(t) PROVE SlotsAccounted'
    <3>1. Cardinality(idle') = Cardinality(idle) + 1
      <4>1. conn[t] \notin idle
        BY <2>10 DEF Release, Goto, Ownership, SingleOwner, Handling
      <4>2. QED
        BY <2>10, <4>1, SetsCounted, FS_AddElement DEF Release
    <3>2. Opening' = Opening /\ Cardinality(inUse') = Cardinality(inUse) - 1
      BY <2>2, <2>4, <2>10 DEF Release, Goto
    <3>3. created' = created
      BY <2>10 DEF Release
    <3>4. QED
      BY <3>1, <3>2, <3>3, <2>a, SetsCounted DEF SlotsAccounted
  <2>11. ASSUME NEW t \in Threads, ReleaseToClosedPool(t)
         PROVE  SlotsAccounted'
    <3>1. Opening' = Opening /\ Cardinality(inUse') = Cardinality(inUse) - 1
      BY <2>2, <2>4, <2>11 DEF ReleaseToClosedPool, Goto
    <3>2. idle' = idle /\ created' = created - 1
      BY <2>11 DEF ReleaseToClosedPool
    <3>3. QED
      BY <3>1, <3>2, <2>a, SetsCounted DEF SlotsAccounted
  <2>12. ASSUME NEW t \in Threads, Close(t) PROVE SlotsAccounted'
    <3>1. Opening' = Opening
      BY <2>2, <2>12 DEF Close, Goto
    <3>2. /\ inUse' = inUse /\ Cardinality(idle') = 0
          /\ created' = created - Cardinality(idle)
      BY <2>12, FS_EmptySet DEF Close
    <3>3. QED
      BY <3>1, <3>2, <2>a, SetsCounted DEF SlotsAccounted
  <2>13. ASSUME NEW t \in Threads,
                \/ Acquire(t) \/ RefuseClosed(t) \/ PingHealthy(t)
                \/ DiscardDone(t) \/ GiveUp(t) \/ Wait(t)
                \/ ReleaseClosesConn(t) \/ CloseReturns(t)
         PROVE  SlotsAccounted'
    BY <2>1, <2>2, <2>13
    DEF Acquire, RefuseClosed, PingHealthy, DiscardDone, GiveUp, Wait,
        ReleaseClosesConn, CloseReturns, AtLoopTop, Goto
  <2>14. ASSUME NEW t \in Threads,
                DeadlinePasses(t) \/ BreakInUse(t) \/ CloseVictim(t)
         PROVE  SlotsAccounted'
    BY <2>1, <2>14 DEF DeadlinePasses, BreakInUse, CloseVictim, Opening
  <2>15. CASE UNCHANGED vars
    BY <2>1, <2>15 DEF vars, Opening
  <2>16. QED
    BY <2>3, <2>5, <2>6, <2>8, <2>9, <2>10, <2>11, <2>12, <2>13, <2>14, <2>15
    DEF Next, GiveBack, PoolStep
<1>3. QED
  BY <1>1, <1>2, OwnershipInvariant, PTL DEF Spec

-----------------------------------------------------------------------------
(* No socket is lost: each open connection is idle, in a thread's hands or  *)
(* in the list of the close() that is closing it.                           *)
THEOREM NoOrphanInvariant == Spec => []NoOrphan
<1>1. Init => NoOrphan
  BY DEF Init, NoOrphan
<1>2. Ownership /\ NoOrphan /\ [Next]_vars => NoOrphan'
  <2> SUFFICES ASSUME Ownership, NoOrphan, [Next]_vars PROVE NoOrphan'
    OBVIOUS
  <2> USE DEF Ownership, TypeOK, SingleOwner, NoOrphan, Handling, Goto
  <2>1. ASSUME NEW t \in Threads,
               \/ Acquire(t) \/ DeadlinePasses(t) \/ RefuseClosed(t)
               \/ PingHealthy(t) \/ PingDead(t) \/ Reserve(t)
               \/ OpenFails(t) \/ GiveUp(t) \/ Wait(t) \/ BreakInUse(t)
               \/ ReleaseToClosedPool(t) \/ CloseReturns(t)
        PROVE  NoOrphan'
    <3>1. live' = live /\ idle' = idle /\ conn' = conn /\ victims' = victims
      BY <2>1 DEF Acquire, DeadlinePasses, RefuseClosed, PingHealthy, PingDead,
           Reserve, OpenFails, GiveUp, Wait, BreakInUse, ReleaseToClosedPool,
           CloseReturns
    <3>2. Handling \subseteq Handling'
      BY <2>1 DEF Acquire, DeadlinePasses, RefuseClosed, PingHealthy, PingDead,
           Reserve, OpenFails, GiveUp, Wait, BreakInUse, ReleaseToClosedPool,
           CloseReturns, AtLoopTop
    <3>3. QED
      BY <3>1, <3>2
  <2>2. ASSUME NEW t \in Threads, TakeIdle(t) PROVE NoOrphan'
    BY <2>2 DEF TakeIdle, AtLoopTop
  <2>3. ASSUME NEW t \in Threads, DiscardDone(t) PROVE NoOrphan'
    BY <2>3 DEF DiscardDone
  <2>4. ASSUME NEW t \in Threads, OpenOk(t) PROVE NoOrphan'
    BY <2>4 DEF OpenOk
  <2>5. ASSUME NEW t \in Threads, Release(t) PROVE NoOrphan'
    BY <2>5 DEF Release
  <2>6. ASSUME NEW t \in Threads, ReleaseClosesConn(t) PROVE NoOrphan'
    BY <2>6 DEF ReleaseClosesConn
  <2>7. ASSUME NEW t \in Threads, Close(t) PROVE NoOrphan'
    BY <2>7 DEF Close
  <2>8. ASSUME NEW t \in Threads, CloseVictim(t) PROVE NoOrphan'
    BY <2>8 DEF CloseVictim
  <2>9. CASE UNCHANGED vars
    BY <2>9 DEF vars
  <2>10. QED
    BY <2>1, <2>2, <2>3, <2>4, <2>5, <2>6, <2>7, <2>8, <2>9
    DEF Next, GiveBack, PoolStep
<1>3. QED
  BY <1>1, <1>2, OwnershipInvariant, PTL DEF Spec

-----------------------------------------------------------------------------
(* No lost wakeup.  A step either frees no unit and puts no alert thread to *)
(* sleep, or the alert thread it removes consumes a unit, or the unit it    *)
(* frees makes one more thread alert: the notified one, or the thread that  *)
(* discards its dead candidate and looks again.                             *)
THEOREM WakeupInvariant == Spec => []NoLostWakeup
<1>1. Init => NoLostWakeup
  BY DEF Init, NoLostWakeup
<1>2. Ownership /\ Ownership' /\ NoLostWakeup /\ [Next]_vars => NoLostWakeup'
  <2> SUFFICES ASSUME Ownership, Ownership', NoLostWakeup, [Next]_vars
               PROVE  NoLostWakeup'
    OBVIOUS
  <2>0. /\ FreeUnits \in Int /\ FreeUnits' \in Int
        /\ IsFiniteSet(Alert) /\ Cardinality(Alert) \in Nat
        /\ IsFiniteSet(Alert') /\ Cardinality(Alert') \in Nat
    <3>1. MaxSize \in Nat
      BY SizeAssumption
    <3>2. FreeUnits \in Int
      BY <3>1, SetsCounted DEF FreeUnits
    <3>3. IsFiniteSet(idle') /\ created' \in Int
      BY DEF Ownership, TypeOK
    <3>4. FreeUnits' \in Int
      BY <3>1, <3>3, FS_CardinalityType DEF FreeUnits
    <3>5. Alert \subseteq Threads /\ Alert' \subseteq Threads
      BY DEF Alert
    <3>6. QED
      BY <3>2, <3>4, <3>5, ThreadSetsFinite
  <2>1. ASSUME FreeUnits' <= FreeUnits, Alert \subseteq Alert',
               waiters' \subseteq waiters
        PROVE  NoLostWakeup'
    BY <2>0, <2>1, FS_Subset DEF NoLostWakeup
  <2>2. ASSUME NEW t, FreeUnits' = FreeUnits - 1, Alert \ {t} \subseteq Alert',
               waiters' \subseteq waiters
        PROVE  NoLostWakeup'
    <3>1. /\ IsFiniteSet(Alert \ {t})
          /\ Cardinality(Alert \ {t}) \in Nat
          /\ Cardinality(Alert \ {t}) >= Cardinality(Alert) - 1
      <4>1. /\ IsFiniteSet(Alert \ {t})
            /\ Cardinality(Alert \ {t}) =
                 IF t \in Alert THEN Cardinality(Alert) - 1 ELSE Cardinality(Alert)
        BY <2>0, FS_RemoveElement
      <4>2. Cardinality(Alert \ {t}) \in Nat
        BY <4>1, FS_CardinalityType
      <4> QED BY <2>0, <4>1, <4>2
    <3>2. Cardinality(Alert') >= Cardinality(Alert) - 1
      BY <2>0, <2>2, <3>1, FS_Subset
    <3>3. waiters' # {} => Cardinality(Alert) >= FreeUnits
      BY <2>2 DEF NoLostWakeup
    <3>4. waiters' # {} => Cardinality(Alert') >= FreeUnits'
      BY <2>0, <2>2, <3>2, <3>3
    <3>5. QED
      BY <3>4 DEF NoLostWakeup
  <2>3. ASSUME NEW x, x \notin Alert, FreeUnits' = FreeUnits + 1,
               Alert \union {x} \subseteq Alert', waiters' \subseteq waiters
        PROVE  NoLostWakeup'
    <3>1. /\ IsFiniteSet(Alert \union {x})
          /\ Cardinality(Alert \union {x}) = Cardinality(Alert) + 1
      BY <2>0, <2>3, FS_AddElement
    <3>2. Cardinality(Alert') >= Cardinality(Alert) + 1
      BY <2>0, <2>3, <3>1, FS_Subset
    <3>3. QED
      BY <2>0, <2>3, <3>2 DEF NoLostWakeup
  <2>4. ASSUME waiters' = {} PROVE NoLostWakeup'
    BY <2>4 DEF NoLostWakeup
  <2> USE DEF Goto
  <2>5. ASSUME NEW t \in Threads,
               \/ Acquire(t) \/ DeadlinePasses(t) \/ PingHealthy(t)
               \/ OpenOk(t) \/ BreakInUse(t) \/ CloseVictim(t)
               \/ CloseReturns(t) \/ DiscardDone(t) \/ ReleaseClosesConn(t)
        PROVE  NoLostWakeup'
    <3> USE DEF Acquire, DeadlinePasses, PingHealthy, OpenOk, BreakInUse,
            CloseVictim, CloseReturns, DiscardDone, ReleaseClosesConn, Notify
    <3>1. FreeUnits' = FreeUnits
      BY <2>5 DEF FreeUnits
    <3>2. Alert \subseteq Alert' /\ waiters' \subseteq waiters
      BY <2>5 DEF Alert, Ownership, TypeOK
    <3>3. QED
      BY <2>0, <2>1, <3>1, <3>2
  <2>6. ASSUME NEW t \in Threads, TakeIdle(t) PROVE NoLostWakeup'
    <3>1. PICK c \in idle : idle' = idle \ {c}
      BY <2>6 DEF TakeIdle
    <3>2. Cardinality(idle') = Cardinality(idle) - 1 /\ created' = created
      BY <2>6, <3>1, SetsCounted, FS_RemoveElement DEF TakeIdle
    <3>3. FreeUnits' = FreeUnits - 1
      BY <3>2, SetsCounted, SizeAssumption DEF FreeUnits
    <3>4. Alert \ {t} \subseteq Alert' /\ waiters' \subseteq waiters
      BY <2>6 DEF TakeIdle, Alert, Ownership, TypeOK
    <3>5. QED
      BY <2>2, <3>3, <3>4
  <2>7. ASSUME NEW t \in Threads, Reserve(t) PROVE NoLostWakeup'
    <3>1. FreeUnits' = FreeUnits - 1
      BY <2>7, SetsCounted, SizeAssumption DEF Reserve, FreeUnits
    <3>2. Alert \ {t} \subseteq Alert' /\ waiters' \subseteq waiters
      BY <2>7 DEF Reserve, Alert, Ownership, TypeOK
    <3>3. QED
      BY <2>2, <3>1, <3>2
  <2>8. ASSUME NEW t \in Threads, PingDead(t) PROVE NoLostWakeup'
    <3>1. FreeUnits' = FreeUnits + 1
      BY <2>8, SetsCounted, SizeAssumption DEF PingDead, FreeUnits
    <3>2. t \notin Alert /\ Alert \union {t} \subseteq Alert'
      BY <2>8 DEF PingDead, Alert, Ownership, TypeOK
    <3>3. waiters' = waiters
      BY <2>8 DEF PingDead
    <3>4. QED
      BY <2>3, <3>1, <3>2, <3>3
  <2>9. ASSUME NEW t \in Threads, OpenFails(t) \/ Release(t)
        PROVE  NoLostWakeup'
    <3>1. CASE waiters = {}
      BY <2>4, <2>9, <3>1 DEF OpenFails, Release, Notify
    <3>2. CASE waiters # {}
      <4>1. PICK w \in waiters : waiters' = waiters \ {w}
        BY <2>9, <3>2 DEF OpenFails, Release, Notify
      <4>2. FreeUnits' = FreeUnits + 1
        <5>1. CASE OpenFails(t)
          BY <5>1, SetsCounted, SizeAssumption DEF OpenFails, FreeUnits
        <5>2. CASE Release(t)
          <6>1. conn[t] \notin idle
            BY <5>2 DEF Release, Ownership, SingleOwner, Handling
          <6>2. /\ Cardinality(idle') = Cardinality(idle) + 1
                /\ created' = created
            BY <5>2, <6>1, SetsCounted, FS_AddElement DEF Release
          <6>3. QED
            BY <6>2, SetsCounted, SizeAssumption DEF FreeUnits
        <5>3. QED
          BY <2>9, <5>1, <5>2
      <4>3. w \notin Alert /\ Alert \union {w} \subseteq Alert'
        BY <2>9, <4>1 DEF OpenFails, Release, Alert, Ownership, TypeOK
      <4>4. QED
        BY <2>3, <4>1, <4>2, <4>3
    <3>3. QED
      BY <3>1, <3>2
  <2>10. ASSUME NEW t \in Threads, GiveUp(t) \/ Wait(t) PROVE NoLostWakeup'
    <3>1. idle' = {} /\ created' = created /\ created >= MaxSize
      BY <2>10 DEF GiveUp, Wait, Exhausted
    <3>2. FreeUnits' <= 0
      BY <3>1, SetsCounted, SizeAssumption, FS_EmptySet DEF FreeUnits
    <3>3. QED
      BY <2>0, <3>2 DEF NoLostWakeup
  <2>11. ASSUME NEW t \in Threads,
                RefuseClosed(t) \/ ReleaseToClosedPool(t) \/ Close(t)
         PROVE  NoLostWakeup'
    BY <2>4, <2>11 DEF RefuseClosed, ReleaseToClosedPool, Close, Ownership
  <2>12. CASE UNCHANGED vars
    BY <2>0, <2>1, <2>12 DEF vars, FreeUnits, Alert
  <2>13. QED
    BY <2>5, <2>6, <2>7, <2>8, <2>9, <2>10, <2>11, <2>12
    DEF Next, GiveBack, PoolStep
<1>3. QED
  BY <1>1, <1>2, OwnershipInvariant, PTL DEF Spec

-----------------------------------------------------------------------------
(* close() is final: nothing enters the idle set of a closed pool again and *)
(* no thread outside gets a connection from it.                             *)
THEOREM ClosedStaysFinal == Spec => ClosedIsFinal
<1>1. Ownership /\ [Next]_vars =>
        [closed => /\ closed' /\ idle' = {}
                   /\ \A t \in Threads :
                        pc[t] \in {"out", "checkout", "waiting"} =>
                          pc'[t] \in {"out", "checkout"} \/ pc'[t] = pc[t]]_vars
  <2> SUFFICES ASSUME Ownership, Next, closed
               PROVE  /\ closed' /\ idle' = {}
                      /\ \A t \in Threads :
                           pc[t] \in {"out", "checkout", "waiting"} =>
                             pc'[t] \in {"out", "checkout"} \/ pc'[t] = pc[t]
    BY DEF vars
  <2> PICK t \in Threads : \/ Acquire(t) \/ DeadlinePasses(t) \/ BreakInUse(t)
                           \/ Close(t) \/ GiveBack(t) \/ PoolStep(t)
    BY DEF Next
  <2>1. idle = {} /\ pc \in [Threads -> PC]
    BY DEF Ownership, TypeOK
  <2>2. closed' /\ idle' = {}
    BY <2>1 DEF Acquire, DeadlinePasses, BreakInUse, Close, GiveBack, Release,
         ReleaseToClosedPool, PoolStep, RefuseClosed, TakeIdle, Reserve, GiveUp,
         Wait, PingHealthy, PingDead, DiscardDone, OpenOk, OpenFails,
         ReleaseClosesConn, CloseVictim, CloseReturns
  <2>3. \A u \in Threads : pc[u] \in {"out", "checkout", "waiting"} =>
           pc'[u] \in {"out", "checkout"} \/ pc'[u] = pc[u]
    BY <2>1 DEF Acquire, DeadlinePasses, BreakInUse, Close, GiveBack, Release,
         ReleaseToClosedPool, PoolStep, RefuseClosed, TakeIdle, Reserve, GiveUp,
         Wait, PingHealthy, PingDead, DiscardDone, OpenOk, OpenFails,
         ReleaseClosesConn, CloseVictim, CloseReturns, Goto, AtLoopTop
  <2>4. QED
    BY <2>2, <2>3
<1>2. QED
  BY <1>1, OwnershipInvariant, PTL DEF Spec, ClosedIsFinal

-----------------------------------------------------------------------------
(* The contract.  Each step is a step of PoolContract for one thread, or    *)
(* leaves every thread's stage and what it is lent as they are.             *)
LEMMA StageMoves ==
  ASSUME NEW t \in Threads, \A u \in Threads : u # t => pc'[u] = pc[u],
         NEW a, NEW b, Stage(t) = a, Stage(t)' = b
  PROVE  Contract!Move(t, a, b)
  <1>1. \A u \in Threads : u # t => Stage(u)' = Stage(u)
    BY DEF Stage
  <1>2. [u \in Threads |-> Stage(u)][t] = a
    OBVIOUS
  <1>3. [u \in Threads |-> Stage(u)]' = [[u \in Threads |-> Stage(u)] EXCEPT ![t] = b]
    BY <1>1
  <1> QED BY <1>2, <1>3 DEF Contract!Move

LEMMA StagesStay ==
  ASSUME NEW t \in Threads, \A u \in Threads : u # t => pc'[u] = pc[u], Stage(t)' = Stage(t)
  PROVE  UNCHANGED [u \in Threads |-> Stage(u)]
  <1>1. \A u \in Threads : u # t => Stage(u)' = Stage(u)
    BY DEF Stage
  <1> QED BY <1>1

LEMMA LentStays ==
  ASSUME \A u \in Threads : /\ pc[u] = "holding" <=> pc'[u] = "holding"
                            /\ pc[u] = "holding" => conn'[u] = conn[u]
  PROVE  UNCHANGED [u \in Threads |-> IF pc[u] = "holding" THEN conn[u] ELSE NoConn]
  OBVIOUS

(* Who has a claim has a slot: a connection of _in_use or a reservation.    *)
LEMMA ClaimsCounted ==
  ASSUME Ownership
  PROVE  Cardinality(Contract!Claims) <= Cardinality(inUse) + Cardinality(Opening)
  <1>1. Contract!Claims = Borrowing \union Opening
    BY DEF Contract!Claims, Stage, Borrowing, Opening, Ownership, TypeOK, PC
  <1>2. Cardinality(Borrowing) <= Cardinality(inUse)
    <2> DEFINE f == [t \in Borrowing |-> conn[t]]
    <2>1. \A t \in Borrowing : conn[t] \in inUse
      BY DEF Ownership, Borrowing
    <2>2. \A t, u \in Borrowing : conn[t] = conn[u] => t = u
      BY DEF Ownership, SingleOwner, Handling, Borrowing
    <2>3. f \in [Borrowing -> inUse]
      BY <2>1
    <2>4. IsInjective(f)
      BY <2>2 DEF IsInjective
    <2>5. f \in Injection(Borrowing, inUse)
      BY <2>3, <2>4 DEF Injection
    <2> QED BY <2>5, SetsCounted, FS_Injection
  <1>3. IsFiniteSet(Borrowing) /\ Cardinality(Borrowing) \in Nat
    BY ThreadSetsFinite DEF Borrowing
  <1>4. IsFiniteSet(Opening) /\ Cardinality(Opening) \in Nat /\ Cardinality(inUse) \in Nat
    BY SetsCounted
  <1>5. Cardinality(Borrowing \union Opening) =
          Cardinality(Borrowing) + Cardinality(Opening) - Cardinality(Borrowing \intersect Opening)
    BY <1>3, <1>4, FS_Union
  <1>6. Borrowing \intersect Opening = {}
    BY DEF Borrowing, Opening
  <1>7. Cardinality(Borrowing \intersect Opening) = 0
    BY <1>6, FS_EmptySet
  <1> QED BY <1>1, <1>2, <1>3, <1>4, <1>5, <1>7

LEMMA ContractStep ==
  ASSUME Ownership, Ownership', SlotsAccounted, NEW t \in Threads,
         \/ Acquire(t) \/ DeadlinePasses(t) \/ BreakInUse(t) \/ Close(t) \/ GiveBack(t) \/ PoolStep(t)
  PROVE  Contract!Next \/ UNCHANGED Contract!vars
  <1> USE DEF Goto
  <1>0. pc \in [Threads -> PC] /\ conn \in [Threads -> Conns \union {NoConn}]
    BY DEF Ownership, TypeOK
  <1>1. CASE Acquire(t)
    <2>1. Contract!Move(t, "away", "asking")
      BY <1>0, <1>1, StageMoves DEF Acquire, Stage
    <2>2. UNCHANGED [u \in Threads |-> IF pc[u] = "holding" THEN conn[u] ELSE NoConn]
      BY <1>0, <1>1, LentStays DEF Acquire
    <2> QED BY <1>1, <2>1, <2>2 DEF Acquire, Contract!Next, Contract!Ask
  <1>2. CASE RefuseClosed(t) \/ GiveUp(t)
    <2>1. Contract!Move(t, "asking", "away")
      BY <1>0, <1>2, StageMoves DEF RefuseClosed, GiveUp, AtLoopTop, Stage
    <2>2. UNCHANGED [u \in Threads |-> IF pc[u] = "holding" THEN conn[u] ELSE NoConn]
      BY <1>0, <1>2, LentStays DEF RefuseClosed, GiveUp, AtLoopTop
    <2> QED BY <1>2, <2>1, <2>2 DEF RefuseClosed, GiveUp, Contract!Next, Contract!Refuse
  <1>3. CASE TakeIdle(t) \/ Reserve(t)
    <2>1. Contract!Move(t, "asking", "reserved")
      BY <1>0, <1>3, StageMoves DEF TakeIdle, Reserve, AtLoopTop, Stage
    <2>2. UNCHANGED [u \in Threads |-> IF pc[u] = "holding" THEN conn[u] ELSE NoConn]
      <3>1. \A u \in Threads : /\ pc[u] = "holding" <=> pc'[u] = "holding"
                               /\ pc[u] = "holding" => conn'[u] = conn[u]
        BY <1>0, <1>3 DEF TakeIdle, Reserve, AtLoopTop
      <3> QED BY <3>1, LentStays
    <2>3. Cardinality(inUse) + Cardinality(Opening) < MaxSize
      <3>1. CASE Reserve(t)
        BY <3>1, SetsCounted, SizeAssumption DEF Reserve, SlotsAccounted
      <3>2. CASE TakeIdle(t)
        <4>1. idle # {}
          BY <3>2 DEF TakeIdle
        <4>2. Cardinality(idle) > 0
          BY <4>1, SetsCounted, FS_EmptySet
        <4> QED BY <4>2, SetsCounted, SizeAssumption DEF SlotsAccounted
      <3> QED BY <1>3, <3>1, <3>2
    <2>4. Contract!Cardinality(Contract!Claims) < MaxSize
      <3>0. Contract!Cardinality(Contract!Claims) = Cardinality(Contract!Claims)
        BY Zenon DEF Cardinality, Contract!Cardinality
      <3>1. Contract!Claims \subseteq Threads
        BY DEF Contract!Claims
      <3>2. Cardinality(Contract!Claims) \in Nat
        BY <3>1, ThreadSetsFinite
      <3> QED BY <2>3, <3>0, <3>2, ClaimsCounted, SetsCounted, SizeAssumption
    <2>5. ~closed /\ UNCHANGED closed
      BY <1>3 DEF TakeIdle, Reserve
    <2>6. Contract!Reserve(t)
      BY <2>1, <2>2, <2>4, <2>5 DEF Contract!Reserve
    <2> QED BY <2>6 DEF Contract!Next
  <1>4. CASE PingDead(t) \/ OpenFails(t)
    <2>1. Contract!Move(t, "reserved", "asking") \/ Contract!Move(t, "reserved", "away")
      <3>1. CASE PingDead(t)
        BY <1>0, <3>1, StageMoves DEF PingDead, Stage
      <3>2. CASE OpenFails(t)
        BY <1>0, <3>2, StageMoves DEF OpenFails, Stage
      <3> QED BY <1>4, <3>1, <3>2
    <2>2. UNCHANGED [u \in Threads |-> IF pc[u] = "holding" THEN conn[u] ELSE NoConn]
      BY <1>0, <1>4, LentStays DEF PingDead, OpenFails
    <2> QED BY <1>4, <2>1, <2>2 DEF PingDead, OpenFails, Contract!Next, Contract!Withdraw
  <1>5. CASE PingHealthy(t) \/ OpenOk(t)
    <2>1. Contract!Move(t, "reserved", "lent")
      BY <1>0, <1>5, StageMoves DEF PingHealthy, OpenOk, Stage
    <2>2. /\ pc'[t] = "holding" /\ pc[t] # "holding"
          /\ \A u \in Threads : u # t => pc'[u] = pc[u] /\ conn'[u] = conn[u]
      BY <1>0, <1>5 DEF PingHealthy, OpenOk
    <2>3. conn'[t] \in Conns /\ \A u \in Threads : pc[u] = "holding" => conn[u] # conn'[t]
      BY <2>2 DEF Ownership, SingleOwner, Handling, Borrowing, TypeOK
    <2>4. \A u \in Threads : [v \in Threads |-> IF pc[v] = "holding" THEN conn[v] ELSE NoConn][u] # conn'[t]
      BY <2>3, ConnAssumption
    <2>5. [u \in Threads |-> IF pc[u] = "holding" THEN conn[u] ELSE NoConn]' =
            [[u \in Threads |-> IF pc[u] = "holding" THEN conn[u] ELSE NoConn] EXCEPT ![t] = conn'[t]]
      BY <2>2
    <2> QED BY <1>5, <2>1, <2>3, <2>4, <2>5 DEF PingHealthy, OpenOk, Contract!Next, Contract!Lend
  <1>6. CASE Release(t) \/ ReleaseToClosedPool(t)
    <2>1. Contract!Move(t, "lent", "away")
      BY <1>0, <1>6, StageMoves DEF Release, ReleaseToClosedPool, Stage
    <2>2. pc'[t] # "holding" /\ \A u \in Threads : u # t => pc'[u] = pc[u] /\ conn'[u] = conn[u]
      BY <1>0, <1>6 DEF Release, ReleaseToClosedPool
    <2>3. [u \in Threads |-> IF pc[u] = "holding" THEN conn[u] ELSE NoConn]' =
            [[u \in Threads |-> IF pc[u] = "holding" THEN conn[u] ELSE NoConn] EXCEPT ![t] = NoConn]
      BY <2>2
    <2> QED BY <1>6, <2>1, <2>3 DEF Release, ReleaseToClosedPool, Contract!Next, Contract!GiveBack
  <1>7. CASE Close(t)
    <2>1. UNCHANGED [u \in Threads |-> Stage(u)]
      BY <1>0, <1>7, StagesStay DEF Close, Stage
    <2>2. UNCHANGED [u \in Threads |-> IF pc[u] = "holding" THEN conn[u] ELSE NoConn]
      BY <1>0, <1>7, LentStays DEF Close
    <2> QED BY <1>7, <2>1, <2>2 DEF Close, Contract!Next, Contract!Close
  <1>8. CASE \/ DeadlinePasses(t) \/ BreakInUse(t) \/ DiscardDone(t) \/ ReleaseClosesConn(t)
             \/ CloseVictim(t) \/ CloseReturns(t) \/ Wait(t)
    <2>1. UNCHANGED [u \in Threads |-> Stage(u)]
      <3>1. \A u \in Threads : u # t => pc'[u] = pc[u]
        BY <1>0, <1>8 DEF DeadlinePasses, BreakInUse, DiscardDone, ReleaseClosesConn, CloseVictim,
                          CloseReturns, Wait
      <3>2. Stage(t)' = Stage(t)
        BY <1>0, <1>8 DEF DeadlinePasses, BreakInUse, DiscardDone, ReleaseClosesConn, CloseVictim,
                          CloseReturns, Wait, AtLoopTop, Stage
      <3> QED BY <3>1, <3>2, StagesStay
    <2>2. UNCHANGED [u \in Threads |-> IF pc[u] = "holding" THEN conn[u] ELSE NoConn]
      <3>1. \A u \in Threads : /\ pc[u] = "holding" <=> pc'[u] = "holding"
                               /\ pc[u] = "holding" => conn'[u] = conn[u]
        BY <1>0, <1>8 DEF DeadlinePasses, BreakInUse, DiscardDone, ReleaseClosesConn, CloseVictim,
                          CloseReturns, Wait, AtLoopTop
      <3> QED BY <3>1, LentStays
    <2>3. closed' = closed
      BY <1>8 DEF DeadlinePasses, BreakInUse, DiscardDone, ReleaseClosesConn, CloseVictim, CloseReturns, Wait
    <2> QED BY <2>1, <2>2, <2>3 DEF Contract!vars
  <1> QED BY <1>1, <1>2, <1>3, <1>4, <1>5, <1>6, <1>7, <1>8 DEF GiveBack, PoolStep

(* ConnectionPool implements PoolContract: to its callers it is a semaphore *)
(* of max_size units that lends distinct connections and grants nothing new *)
(* once it is closed.                                                       *)
THEOREM PoolMeetsContract == Spec => ImplementsContract
  <1>1. Init => Contract!Init
    BY DEF Init, Contract!Init, Stage
  <1>2. Ownership /\ Ownership' /\ SlotsAccounted /\ [Next]_vars => [Contract!Next]_(Contract!vars)
    <2> SUFFICES ASSUME Ownership, Ownership', SlotsAccounted, [Next]_vars
                 PROVE  [Contract!Next]_(Contract!vars)
      OBVIOUS
    <2>1. CASE UNCHANGED vars
      BY <2>1 DEF vars, Contract!vars, Stage
    <2>2. ASSUME NEW t \in Threads,
                 \/ Acquire(t) \/ DeadlinePasses(t) \/ BreakInUse(t) \/ Close(t) \/ GiveBack(t) \/ PoolStep(t)
          PROVE  [Contract!Next]_(Contract!vars)
      BY <2>2, ContractStep
    <2> QED BY <2>1, <2>2 DEF Next
  <1> QED BY <1>1, <1>2, OwnershipInvariant, SlotsInvariant, PTL DEF Spec, ImplementsContract, Contract!Spec
=============================================================================
