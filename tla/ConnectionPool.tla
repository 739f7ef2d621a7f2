--------------------------- MODULE ConnectionPool ---------------------------
(***************************************************************************)
(* The thread-safe ConnectionPool of saprfclib/pool.py: threads check a    *)
(* connection out, use it and give it back, the pool health-checks what it *)
(* lends, grows lazily and can be closed at any time.                      *)
(*                                                                         *)
(* Every action is one critical section of the pool's Condition, or one of *)
(* the calls the code makes while the lock is released (ping, open, close  *)
(* of a connection).  The code gives the lock up around each of these, so  *)
(* the other threads' actions interleave exactly there.                    *)
(***************************************************************************)
EXTENDS Integers, FiniteSets

CONSTANTS
  Threads,    (* the threads that share the pool                           *)
  Conns,      (* identities of connections, one per successful connect()   *)
  NoConn,     (* "this thread handles no connection"                       *)
  MinSize,    (* min_size: connections opened by the constructor           *)
  MaxSize,    (* max_size: the ceiling the pool does not grow past         *)
  MaxFaults   (* how many times a peer may fail: a ping that answers no,   *)
              (* an open that raises, a session that turns BROKEN in use   *)

ASSUME SizeAssumption ==
  /\ MinSize \in Nat
  /\ MaxSize \in Nat \ {0}
  /\ MinSize <= MaxSize

ASSUME ConnAssumption == NoConn \notin Conns
ASSUME ThreadAssumption == IsFiniteSet(Threads)
ASSUME FaultAssumption == MaxFaults \in Nat

VARIABLES
  idle,      (* _idle: connections ready to lend                           *)
  inUse,     (* _in_use: connections lent, or provisionally taken          *)
  created,   (* _created: the slots of max_size that are taken             *)
  closed,    (* _closed                                                    *)
  waiters,   (* threads in cv.wait() that nobody has notified yet          *)
  pc,        (* where each thread stands                                   *)
  conn,      (* the connection each thread handles                         *)
  expired,   (* the thread's acquire deadline has passed                   *)
  victims,   (* idle connections that a close() call still has to close    *)
  live,      (* connections whose socket is open                           *)
  broken,    (* connections that retired themselves (session BROKEN)       *)
  faults     (* peer failures so far                                       *)

vars == <<idle, inUse, created, closed, waiters, pc, conn, expired,
          victims, live, broken, faults>>

PC == {"out",         \* not inside the pool
       "checkout",    \* at the top of the loop of _checkout
       "waiting",     \* in cv.wait(remaining)
       "pinging",     \* _ping_ok(candidate), lock released
       "discarding",  \* _safe_close of a dead candidate, lock released
       "opening",     \* _open() of a reserved slot, lock released
       "holding",     \* in the body of "with pool.acquire()"
       "releasing",   \* _safe_close in release() of a closed pool
       "closing"}     \* close(), outside the lock

Init ==
  /\ \E warm \in SUBSET Conns :
        /\ Cardinality(warm) = MinSize
        /\ IsFiniteSet(warm)
        /\ idle = warm
        /\ live = warm
  /\ inUse = {}
  /\ created = MinSize
  /\ closed = FALSE
  /\ waiters = {}
  /\ pc = [t \in Threads |-> "out"]
  /\ conn = [t \in Threads |-> NoConn]
  /\ expired = [t \in Threads |-> FALSE]
  /\ victims = [t \in Threads |-> {}]
  /\ broken = {}
  /\ faults = 0

-----------------------------------------------------------------------------
(* The Condition.  notify() wakes one waiter, if there is one; a thread     *)
(* whose wait timed out stays registered until it has the lock again.       *)

Notify ==
  \/ waiters = {} /\ UNCHANGED waiters
  \/ \E w \in waiters : waiters' = waiters \ {w}

Goto(t, from, to) ==
  /\ pc[t] = from
  /\ pc' = [pc EXCEPT ![t] = to]

(* t holds the lock at the top of the loop: it has just come in, or its     *)
(* wait ended, by a notify or by its deadline.                              *)
AtLoopTop(t) ==
  \/ pc[t] = "checkout"
  \/ pc[t] = "waiting" /\ (t \notin waiters \/ expired[t])

Exhausted == idle = {} /\ created >= MaxSize

Fault == faults < MaxFaults /\ faults' = faults + 1

-----------------------------------------------------------------------------
(* acquire() and _checkout()                                                *)

Acquire(t) ==
  /\ Goto(t, "out", "checkout")
  /\ expired' = [expired EXCEPT ![t] = FALSE]
  /\ UNCHANGED <<idle, inUse, created, closed, waiters, conn, victims, live,
                 broken, faults>>

(* time.monotonic() reaches the deadline: noticed only when the pool is     *)
(* exhausted, so it matters only where the thread waits or is about to.     *)
DeadlinePasses(t) ==
  /\ pc[t] \in {"checkout", "waiting"}
  /\ ~expired[t]
  /\ expired' = [expired EXCEPT ![t] = TRUE]
  /\ UNCHANGED <<idle, inUse, created, closed, waiters, pc, conn, victims,
                 live, broken, faults>>

RefuseClosed(t) ==
  /\ AtLoopTop(t)
  /\ closed
  /\ pc' = [pc EXCEPT ![t] = "out"]
  /\ waiters' = waiters \ {t}
  /\ UNCHANGED <<idle, inUse, created, closed, conn, expired, victims, live,
                 broken, faults>>

TakeIdle(t) ==
  /\ AtLoopTop(t)
  /\ ~closed
  /\ \E c \in idle :
        /\ idle' = idle \ {c}
        /\ inUse' = inUse \union {c}
        /\ conn' = [conn EXCEPT ![t] = c]
  /\ pc' = [pc EXCEPT ![t] = "pinging"]
  /\ waiters' = waiters \ {t}
  /\ UNCHANGED <<created, closed, expired, victims, live, broken, faults>>

PingHealthy(t) ==
  /\ Goto(t, "pinging", "holding")
  /\ conn[t] \notin broken
  /\ UNCHANGED <<idle, inUse, created, closed, waiters, conn, expired,
                 victims, live, broken, faults>>

(* The session is BROKEN, or ping() is falsy or raises.                     *)
PingDead(t) ==
  /\ Goto(t, "pinging", "discarding")
  /\ \/ conn[t] \in broken /\ UNCHANGED faults
     \/ conn[t] \notin broken /\ Fault
  /\ inUse' = inUse \ {conn[t]}
  /\ created' = created - 1
  /\ UNCHANGED <<idle, closed, waiters, conn, expired, victims, live, broken>>

DiscardDone(t) ==
  /\ Goto(t, "discarding", "checkout")
  /\ live' = live \ {conn[t]}
  /\ conn' = [conn EXCEPT ![t] = NoConn]
  /\ Notify
  /\ UNCHANGED <<idle, inUse, created, closed, expired, victims, broken,
                 faults>>

(* Mutant: the closed flag is not looked at before a slot is reserved.      *)
ReserveInClosedPool(t) ==
  /\ AtLoopTop(t)
  /\ idle = {}
  /\ created < MaxSize
  /\ created' = created + 1
  /\ pc' = [pc EXCEPT ![t] = "opening"]
  /\ waiters' = waiters \ {t}
  /\ UNCHANGED <<idle, inUse, closed, conn, expired, victims, live, broken,
                 faults>>

Reserve(t) ==
  /\ AtLoopTop(t)
  /\ ~closed
  /\ idle = {}
  /\ created < MaxSize
  /\ created' = created + 1
  /\ pc' = [pc EXCEPT ![t] = "opening"]
  /\ waiters' = waiters \ {t}
  /\ UNCHANGED <<idle, inUse, closed, conn, expired, victims, live, broken,
                 faults>>

OpenOk(t) ==
  /\ Goto(t, "opening", "holding")
  /\ \E c \in Conns \ live :
        /\ live' = live \union {c}
        /\ inUse' = inUse \union {c}
        /\ conn' = [conn EXCEPT ![t] = c]
        /\ broken' = broken \ {c}
  /\ UNCHANGED <<idle, created, closed, waiters, expired, victims, faults>>

(* Mutant: a failed open does not give its reservation back.                *)
OpenFailsKeepsSlot(t) ==
  /\ Goto(t, "opening", "out")
  /\ Fault
  /\ Notify
  /\ UNCHANGED <<idle, inUse, created, closed, conn, expired, victims, live,
                 broken>>

(* Mutant: a failed open gives its slot back without telling a waiter.      *)
OpenFailsSilently(t) ==
  /\ Goto(t, "opening", "out")
  /\ Fault
  /\ created' = created - 1
  /\ UNCHANGED <<idle, inUse, closed, waiters, conn, expired, victims, live,
                 broken>>

OpenFails(t) ==
  /\ Goto(t, "opening", "out")
  /\ Fault
  /\ created' = created - 1
  /\ Notify
  /\ UNCHANGED <<idle, inUse, closed, conn, expired, victims, live, broken>>

(* PoolTimeoutError                                                         *)
GiveUp(t) ==
  /\ AtLoopTop(t)
  /\ ~closed
  /\ Exhausted
  /\ expired[t]
  /\ pc' = [pc EXCEPT ![t] = "out"]
  /\ waiters' = waiters \ {t}
  /\ UNCHANGED <<idle, inUse, created, closed, conn, expired, victims, live,
                 broken, faults>>

(* Mutant: the deadline is computed anew in each turn of the loop.          *)
WaitRestartsClock(t) ==
  /\ AtLoopTop(t)
  /\ ~closed
  /\ Exhausted
  /\ pc' = [pc EXCEPT ![t] = "waiting"]
  /\ waiters' = waiters \union {t}
  /\ expired' = [expired EXCEPT ![t] = FALSE]
  /\ UNCHANGED <<idle, inUse, created, closed, conn, victims, live, broken,
                 faults>>

Wait(t) ==
  /\ AtLoopTop(t)
  /\ ~closed
  /\ Exhausted
  /\ ~expired[t]
  /\ pc' = [pc EXCEPT ![t] = "waiting"]
  /\ waiters' = waiters \union {t}
  /\ UNCHANGED <<idle, inUse, created, closed, conn, expired, victims, live,
                 broken, faults>>

-----------------------------------------------------------------------------
(* The borrower, release() and close()                                      *)

(* A reply the borrower could not read to its end retires the connection.   *)
BreakInUse(t) ==
  /\ pc[t] = "holding"
  /\ conn[t] \notin broken
  /\ Fault
  /\ broken' = broken \union {conn[t]}
  /\ UNCHANGED <<idle, inUse, created, closed, waiters, pc, conn, expired,
                 victims, live>>

(* Mutant: release() returns the connection to the idle set of a closed     *)
(* pool too.                                                                *)
ReleaseIgnoresClosed(t) ==
  /\ Goto(t, "holding", "out")
  /\ inUse' = inUse \ {conn[t]}
  /\ idle' = idle \union {conn[t]}
  /\ conn' = [conn EXCEPT ![t] = NoConn]
  /\ Notify
  /\ UNCHANGED <<created, closed, expired, victims, live, broken, faults>>

Release(t) ==
  /\ ~closed
  /\ Goto(t, "holding", "out")
  /\ inUse' = inUse \ {conn[t]}
  /\ idle' = idle \union {conn[t]}
  /\ conn' = [conn EXCEPT ![t] = NoConn]
  /\ Notify
  /\ UNCHANGED <<created, closed, expired, victims, live, broken, faults>>

ReleaseToClosedPool(t) ==
  /\ closed
  /\ Goto(t, "holding", "releasing")
  /\ inUse' = inUse \ {conn[t]}
  /\ created' = created - 1
  /\ UNCHANGED <<idle, closed, waiters, conn, expired, victims, live, broken,
                 faults>>

(* Mutant: release() of a closed pool drops the connection unclosed.        *)
ReleaseDropsConn(t) ==
  /\ Goto(t, "releasing", "out")
  /\ conn' = [conn EXCEPT ![t] = NoConn]
  /\ Notify
  /\ UNCHANGED <<idle, inUse, created, closed, expired, victims, live, broken,
                 faults>>

ReleaseClosesConn(t) ==
  /\ Goto(t, "releasing", "out")
  /\ live' = live \ {conn[t]}
  /\ conn' = [conn EXCEPT ![t] = NoConn]
  /\ Notify
  /\ UNCHANGED <<idle, inUse, created, closed, expired, victims, broken,
                 faults>>

(* Mutant: close() forgets _idle.clear().                                   *)
CloseKeepsIdle(t) ==
  /\ ~closed
  /\ Goto(t, "out", "closing")
  /\ closed' = TRUE
  /\ victims' = [victims EXCEPT ![t] = idle]
  /\ created' = created - Cardinality(idle)
  /\ waiters' = {}
  /\ UNCHANGED <<idle, inUse, conn, expired, live, broken, faults>>

(* A second close() returns at once and changes nothing.                    *)
Close(t) ==
  /\ ~closed
  /\ Goto(t, "out", "closing")
  /\ closed' = TRUE
  /\ victims' = [victims EXCEPT ![t] = idle]
  /\ idle' = {}
  /\ created' = created - Cardinality(idle)
  /\ waiters' = {}
  /\ UNCHANGED <<inUse, conn, expired, live, broken, faults>>

CloseVictim(t) ==
  /\ pc[t] = "closing"
  /\ \E c \in victims[t] :
        /\ victims' = [victims EXCEPT ![t] = @ \ {c}]
        /\ live' = live \ {c}
  /\ UNCHANGED <<idle, inUse, created, closed, waiters, pc, conn, expired,
                 broken, faults>>

CloseReturns(t) ==
  /\ Goto(t, "closing", "out")
  /\ victims[t] = {}
  /\ UNCHANGED <<idle, inUse, created, closed, waiters, conn, expired,
                 victims, live, broken, faults>>

-----------------------------------------------------------------------------
(* What the pool itself does next for a thread that is inside a call of it. *)
PoolStep(t) ==
  \/ RefuseClosed(t) \/ TakeIdle(t) \/ Reserve(t) \/ GiveUp(t) \/ Wait(t)
  \/ PingHealthy(t) \/ PingDead(t) \/ DiscardDone(t)
  \/ OpenOk(t) \/ OpenFails(t)
  \/ ReleaseClosesConn(t) \/ CloseVictim(t) \/ CloseReturns(t)

GiveBack(t) == Release(t) \/ ReleaseToClosedPool(t)

Next ==
  \E t \in Threads :
    \/ Acquire(t) \/ DeadlinePasses(t) \/ BreakInUse(t) \/ Close(t)
    \/ GiveBack(t) \/ PoolStep(t)

Spec == Init /\ [][Next]_vars

(* Threads are scheduled, pings, opens and closes return, clocks advance    *)
(* and a "with" block ends; nobody has to call acquire() or close().        *)
Fairness ==
  \A t \in Threads :
    /\ WF_vars(PoolStep(t))
    /\ WF_vars(GiveBack(t))
    /\ WF_vars(DeadlinePasses(t))

FairSpec == Spec /\ Fairness

-----------------------------------------------------------------------------
TypeOK ==
  /\ idle \subseteq Conns /\ IsFiniteSet(idle)
  /\ inUse \subseteq Conns /\ IsFiniteSet(inUse)
  /\ created \in Int
  /\ closed \in BOOLEAN
  /\ waiters \subseteq {t \in Threads : pc[t] = "waiting"}
  /\ pc \in [Threads -> PC]
  /\ conn \in [Threads -> Conns \union {NoConn}]
  /\ expired \in [Threads -> BOOLEAN]
  /\ victims \in [Threads -> SUBSET Conns]
  /\ live \subseteq Conns
  /\ broken \subseteq Conns
  /\ faults \in 0..MaxFaults

Opening == {t \in Threads : pc[t] = "opening"}
Borrowing == {t \in Threads : pc[t] \in {"pinging", "holding"}}
Handling == {t \in Threads : pc[t] \in {"pinging", "holding", "discarding",
                                        "releasing"}}

(* The slot counter never drifts from what it counts, whatever fails and    *)
(* whoever closes the pool meanwhile: _created is the idle connections, the *)
(* borrowed ones and the reservations whose open() is still under way, and  *)
(* never more than max_size.                                                *)
SlotsAccounted ==
  /\ created = Cardinality(idle) + Cardinality(inUse) + Cardinality(Opening)
  /\ created <= MaxSize

(* "Lend a single-owner Connection": no two threads handle one connection,  *)
(* and none that a thread handles can be popped from the idle set or is     *)
(* being closed by close().                                                 *)
SingleOwner ==
  /\ \A t \in Handling : conn[t] \in live \ idle
  /\ \A t, u \in Handling : t # u => conn[t] # conn[u]
  /\ \A t \in Threads : victims[t] \subseteq live \ idle
  /\ \A t \in Handling, u \in Threads : conn[t] \notin victims[u]

(* No socket is lost: each open connection is idle, lent, or in the hands   *)
(* of a thread that is about to close it.                                   *)
NoOrphan ==
  \A c \in live :
    \/ c \in idle
    \/ \E t \in Handling : conn[t] = c
    \/ \E t \in Threads : c \in victims[t]

(* No lost wakeup: while a thread sleeps un-notified in cv.wait(), every    *)
(* free unit (an idle connection or an untaken slot) has its own thread     *)
(* that is awake, without the help of a timeout, and will look at it before *)
(* it waits or gives up.                                                    *)
Alert == {t \in Threads : \/ pc[t] \in {"checkout", "discarding"}
                          \/ pc[t] = "waiting" /\ t \notin waiters}
FreeUnits == Cardinality(idle) + (MaxSize - created)
NoLostWakeup == waiters # {} => FreeUnits <= Cardinality(Alert)

(* Who owns what, in a form each step preserves: SingleOwner, with idle     *)
(* connections open, _in_use exactly the connections of the borrowing       *)
(* threads, and close() having run at most once.                            *)
Ownership ==
  /\ TypeOK
  /\ SingleOwner
  /\ idle \subseteq live
  /\ \A t \in Borrowing : conn[t] \in inUse
  /\ \A c \in inUse : \E t \in Borrowing : conn[t] = c
  /\ \A t, u \in Threads : t # u => victims[t] \intersect victims[u] = {}
  /\ closed => idle = {} /\ waiters = {}
  /\ ~closed => \A t \in Threads : victims[t] = {}

(* close() is final: a closed pool's idle set stays empty, and whoever      *)
(* enters or sleeps in _checkout afterwards gets nothing.                   *)
ClosedIsFinal ==
  [][closed => /\ closed' /\ idle' = {}
               /\ \A t \in Threads : pc[t] \in {"out", "checkout", "waiting"} =>
                     pc'[t] \in {"out", "checkout"} \/ pc'[t] = pc[t]]_vars

(* Every acquire() ends: with a connection, PoolTimeoutError, the closed    *)
(* pool's RuntimeError or the error of open().                              *)
CheckoutEnds ==
  \A t \in Threads :
    pc[t] \in {"checkout", "waiting", "pinging", "discarding", "opening"}
      ~> pc[t] \in {"holding", "out"}

(* Once the pool is closed every connection it ever opened gets closed,     *)
(* those lent or being opened at that moment included.                      *)
CloseDrains == closed ~> [](live = {})

(* docs/cookbook/connection-pool.md: "pool.close() waits for checked-out    *)
(* connections to be returned, then closes all of them": when close()       *)
(* returns, nothing it was to close is still open.                          *)
CloseWaitsForBorrowers ==
  [][\A t \in Threads : (pc[t] = "closing" /\ pc'[t] = "out") => inUse = {}]_vars

(* What a caller may rely on, stated without pings, waiters and close lists *)
(* (PoolContract.tla), with a reservation while a slot or candidate is      *)
(* taken for the thread.                                                    *)
Stage(t) ==
  CASE pc[t] \in {"checkout", "waiting", "discarding"} -> "asking"
    [] pc[t] \in {"pinging", "opening"} -> "reserved"
    [] pc[t] = "holding" -> "lent"
    [] OTHER -> "away"

Contract ==
  INSTANCE PoolContract WITH
    stage <- [t \in Threads |-> Stage(t)],
    lent <- [t \in Threads |-> IF pc[t] = "holding" THEN conn[t] ELSE NoConn]

(* The pool is a semaphore of MaxSize units that lends distinct connections *)
(* and grants no new reservation once it is closed.                         *)
ImplementsContract == Contract!Spec
=============================================================================
