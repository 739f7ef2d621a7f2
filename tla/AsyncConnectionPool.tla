------------------------- MODULE AsyncConnectionPool -------------------------
(***************************************************************************)
(* The asyncio AsyncConnectionPool of saprfclib/pool.py.  Tasks of one     *)
(* event loop interleave only where a task awaits something that is not    *)
(* ready: cond.wait(), a ping, an open, a close.  The Condition's lock is  *)
(* never held across such an await, so taking it never suspends, and each  *)
(* action below is the code from one await to the next.                    *)
(*                                                                         *)
(* Unlike threads, a task can be cancelled at each of its awaits: by       *)
(* asyncio.wait_for when the acquire timeout elapses, or from outside.     *)
(***************************************************************************)
EXTENDS Integers, FiniteSets

CONSTANTS
  Tasks, Conns, NoConn,
  MinSize, MaxSize,
  MaxFaults,     (* bound on pings answering no and opens that raise        *)
  MaxStarts,     (* bound on calls of start()                               *)
  CancelPoints,  (* the awaits where a cancellation may land                *)
  Renotify       (* asyncio.Condition.wait hands a notification on when the *)
                 (* notified task is cancelled: Python 3.13 does, 3.12 does *)
                 (* not, and the package supports both                      *)

Awaits == {"waiting", "pinging", "discarding", "opening", "releasing",
           "closing", "warming"}

ASSUME SizeAssumption ==
  /\ MinSize \in Nat
  /\ MaxSize \in Nat \ {0}
  /\ MinSize <= MaxSize
ASSUME ConnAssumption == NoConn \notin Conns
ASSUME BoundAssumption == MaxFaults \in Nat /\ MaxStarts \in Nat
ASSUME CancelAssumption == CancelPoints \subseteq Awaits /\ Renotify \in BOOLEAN

VARIABLES
  idle, inUse, created, closed,   (* the pool's own state                   *)
  waiters,   (* tasks in cond.wait() that nobody has notified yet           *)
  pc, conn,  (* where each task stands, and the connection it handles       *)
  victims,   (* idle connections a close() still has to close               *)
  warmLeft,  (* connections a start() still has to open                     *)
  live,      (* connections whose socket is open                            *)
  faults, starts,
  lapsed     (* history: a cancellation cut a ping, an open or a close()    *)
             (* short, or start() opened a connection into a closed pool    *)

vars == <<idle, inUse, created, closed, waiters, pc, conn, victims, warmLeft,
          live, faults, starts, lapsed>>

Init ==
  /\ idle = {} /\ inUse = {} /\ created = 0 /\ closed = FALSE
  /\ waiters = {}
  /\ pc = [t \in Tasks |-> "out"]
  /\ conn = [t \in Tasks |-> NoConn]
  /\ victims = [t \in Tasks |-> {}]
  /\ warmLeft = [t \in Tasks |-> 0]
  /\ live = {}
  /\ faults = 0 /\ starts = 0 /\ lapsed = FALSE

-----------------------------------------------------------------------------
Notify ==
  \/ waiters = {} /\ UNCHANGED waiters
  \/ \E w \in waiters : waiters' = waiters \ {w}

Goto(t, from, to) ==
  /\ pc[t] = from
  /\ pc' = [pc EXCEPT ![t] = to]

AtLoopTop(t) ==
  \/ pc[t] = "checkout"
  \/ pc[t] = "waiting" /\ t \notin waiters

Fault == faults < MaxFaults /\ faults' = faults + 1

-----------------------------------------------------------------------------
(* start()                                                                  *)

Start(t) ==
  /\ Goto(t, "out", "warming")
  /\ starts < MaxStarts
  /\ starts' = starts + 1
  /\ warmLeft' = [warmLeft EXCEPT ![t] = MinSize]
  /\ UNCHANGED <<idle, inUse, created, closed, waiters, conn, victims, live,
                 faults, lapsed>>

(* The slot is counted only after the open, and neither max_size nor        *)
(* _closed is looked at.                                                    *)
WarmOpens(t) ==
  /\ pc[t] = "warming"
  /\ warmLeft[t] > 0
  /\ \E c \in Conns \ live :
        /\ live' = live \union {c}
        /\ idle' = idle \union {c}
  /\ created' = created + 1
  /\ warmLeft' = [warmLeft EXCEPT ![t] = @ - 1]
  /\ Notify
  /\ lapsed' = (lapsed \/ closed)
  /\ UNCHANGED <<inUse, closed, pc, conn, victims, faults, starts>>

WarmOpenFails(t) ==
  /\ Goto(t, "warming", "out")
  /\ warmLeft[t] > 0
  /\ Fault
  /\ warmLeft' = [warmLeft EXCEPT ![t] = 0]
  /\ UNCHANGED <<idle, inUse, created, closed, waiters, conn, victims, live,
                 starts, lapsed>>

StartReturns(t) ==
  /\ Goto(t, "warming", "out")
  /\ warmLeft[t] = 0
  /\ UNCHANGED <<idle, inUse, created, closed, waiters, conn, victims,
                 warmLeft, live, faults, starts, lapsed>>

-----------------------------------------------------------------------------
(* acquire() and _checkout()                                                *)

Acquire(t) ==
  /\ Goto(t, "out", "checkout")
  /\ UNCHANGED <<idle, inUse, created, closed, waiters, conn, victims,
                 warmLeft, live, faults, starts, lapsed>>

RefuseClosed(t) ==
  /\ AtLoopTop(t)
  /\ closed
  /\ pc' = [pc EXCEPT ![t] = "out"]
  /\ UNCHANGED <<idle, inUse, created, closed, waiters, conn, victims,
                 warmLeft, live, faults, starts, lapsed>>

(* Mutant: the closed flag is not looked at before a slot is reserved.      *)
ReserveInClosedPool(t) ==
  /\ AtLoopTop(t)
  /\ idle = {}
  /\ created < MaxSize
  /\ created' = created + 1
  /\ pc' = [pc EXCEPT ![t] = "opening"]
  /\ UNCHANGED <<idle, inUse, closed, waiters, conn, victims, warmLeft, live,
                 faults, starts, lapsed>>

TakeIdle(t) ==
  /\ AtLoopTop(t)
  /\ ~closed
  /\ \E c \in idle :
        /\ idle' = idle \ {c}
        /\ inUse' = inUse \union {c}
        /\ conn' = [conn EXCEPT ![t] = c]
  /\ pc' = [pc EXCEPT ![t] = "pinging"]
  /\ UNCHANGED <<created, closed, waiters, victims, warmLeft, live, faults,
                 starts, lapsed>>

Reserve(t) ==
  /\ AtLoopTop(t)
  /\ ~closed
  /\ idle = {}
  /\ created < MaxSize
  /\ created' = created + 1
  /\ pc' = [pc EXCEPT ![t] = "opening"]
  /\ UNCHANGED <<idle, inUse, closed, waiters, conn, victims, warmLeft, live,
                 faults, starts, lapsed>>

Wait(t) ==
  /\ AtLoopTop(t)
  /\ ~closed
  /\ idle = {}
  /\ created >= MaxSize
  /\ pc' = [pc EXCEPT ![t] = "waiting"]
  /\ waiters' = waiters \union {t}
  /\ UNCHANGED <<idle, inUse, created, closed, conn, victims, warmLeft, live,
                 faults, starts, lapsed>>

PingHealthy(t) ==
  /\ Goto(t, "pinging", "holding")
  /\ UNCHANGED <<idle, inUse, created, closed, waiters, conn, victims,
                 warmLeft, live, faults, starts, lapsed>>

(* The slot is given back and a waiter told before the dead connection is   *)
(* closed, the other way round than in ConnectionPool.                      *)
PingDead(t) ==
  /\ Goto(t, "pinging", "discarding")
  /\ Fault
  /\ inUse' = inUse \ {conn[t]}
  /\ created' = created - 1
  /\ Notify
  /\ UNCHANGED <<idle, closed, conn, victims, warmLeft, live, starts,
                 lapsed>>

DiscardDone(t) ==
  /\ Goto(t, "discarding", "checkout")
  /\ live' = live \ {conn[t]}
  /\ conn' = [conn EXCEPT ![t] = NoConn]
  /\ UNCHANGED <<idle, inUse, created, closed, waiters, victims, warmLeft,
                 faults, starts, lapsed>>

OpenOk(t) ==
  /\ Goto(t, "opening", "holding")
  /\ \E c \in Conns \ live :
        /\ live' = live \union {c}
        /\ inUse' = inUse \union {c}
        /\ conn' = [conn EXCEPT ![t] = c]
  /\ UNCHANGED <<idle, created, closed, waiters, victims, warmLeft, faults,
                 starts, lapsed>>

(* Mutant: a failed open gives its slot back without telling a waiter.      *)
OpenFailsSilently(t) ==
  /\ Goto(t, "opening", "out")
  /\ Fault
  /\ created' = created - 1
  /\ UNCHANGED <<idle, inUse, closed, waiters, conn, victims, warmLeft, live,
                 starts, lapsed>>

(* Mutant: a failed open does not give its reservation back.                *)
OpenFailsKeepsSlot(t) ==
  /\ Goto(t, "opening", "out")
  /\ Fault
  /\ Notify
  /\ UNCHANGED <<idle, inUse, created, closed, conn, victims, warmLeft, live,
                 starts, lapsed>>

OpenFails(t) ==
  /\ Goto(t, "opening", "out")
  /\ Fault
  /\ created' = created - 1
  /\ Notify
  /\ UNCHANGED <<idle, inUse, closed, conn, victims, warmLeft, live, starts,
                 lapsed>>

-----------------------------------------------------------------------------
(* release() and close()                                                    *)

(* Mutant: release() returns the connection to a closed pool's idle set.    *)
ReleaseIgnoresClosed(t) ==
  /\ Goto(t, "holding", "out")
  /\ inUse' = inUse \ {conn[t]}
  /\ idle' = idle \union {conn[t]}
  /\ conn' = [conn EXCEPT ![t] = NoConn]
  /\ Notify
  /\ UNCHANGED <<created, closed, victims, warmLeft, live, faults, starts,
                 lapsed>>

Release(t) ==
  /\ ~closed
  /\ Goto(t, "holding", "out")
  /\ inUse' = inUse \ {conn[t]}
  /\ idle' = idle \union {conn[t]}
  /\ conn' = [conn EXCEPT ![t] = NoConn]
  /\ Notify
  /\ UNCHANGED <<created, closed, victims, warmLeft, live, faults, starts,
                 lapsed>>

ReleaseToClosedPool(t) ==
  /\ closed
  /\ Goto(t, "holding", "releasing")
  /\ inUse' = inUse \ {conn[t]}
  /\ created' = created - 1
  /\ Notify
  /\ UNCHANGED <<idle, closed, conn, victims, warmLeft, live, faults, starts,
                 lapsed>>

(* Mutant: release() of a closed pool drops the connection unclosed.        *)
ReleaseDropsConn(t) ==
  /\ Goto(t, "releasing", "out")
  /\ conn' = [conn EXCEPT ![t] = NoConn]
  /\ UNCHANGED <<idle, inUse, created, closed, waiters, victims, warmLeft,
                 live, faults, starts, lapsed>>

ReleaseClosesConn(t) ==
  /\ Goto(t, "releasing", "out")
  /\ live' = live \ {conn[t]}
  /\ conn' = [conn EXCEPT ![t] = NoConn]
  /\ UNCHANGED <<idle, inUse, created, closed, waiters, victims, warmLeft,
                 faults, starts, lapsed>>

(* Mutant: close() forgets _idle.clear().                                   *)
CloseKeepsIdle(t) ==
  /\ ~closed
  /\ Goto(t, "out", "closing")
  /\ closed' = TRUE
  /\ victims' = [victims EXCEPT ![t] = idle]
  /\ created' = created - Cardinality(idle)
  /\ waiters' = {}
  /\ UNCHANGED <<idle, inUse, conn, warmLeft, live, faults, starts, lapsed>>

Close(t) ==
  /\ ~closed
  /\ Goto(t, "out", "closing")
  /\ closed' = TRUE
  /\ victims' = [victims EXCEPT ![t] = idle]
  /\ idle' = {}
  /\ created' = created - Cardinality(idle)
  /\ waiters' = {}
  /\ UNCHANGED <<inUse, conn, warmLeft, live, faults, starts, lapsed>>

CloseVictim(t) ==
  /\ pc[t] = "closing"
  /\ \E c \in victims[t] :
        /\ victims' = [victims EXCEPT ![t] = @ \ {c}]
        /\ live' = live \ {c}
  /\ UNCHANGED <<idle, inUse, created, closed, waiters, pc, conn, warmLeft,
                 faults, starts, lapsed>>

CloseReturns(t) ==
  /\ Goto(t, "closing", "out")
  /\ victims[t] = {}
  /\ UNCHANGED <<idle, inUse, created, closed, waiters, conn, victims,
                 warmLeft, live, faults, starts, lapsed>>

-----------------------------------------------------------------------------
(* Cancellation: the CancelledError leaves the pool's code through handlers *)
(* that catch Exception, which it is not, so none of them undoes anything.  *)

CancelAt(t, await) == await \in CancelPoints /\ Goto(t, await, "out")

(* A task cancelled after it was notified takes the notification with it,   *)
(* unless asyncio hands it on.                                              *)
CancelWait(t) ==
  /\ CancelAt(t, "waiting")
  /\ IF t \in waiters THEN waiters' = waiters \ {t}
     ELSE IF Renotify THEN Notify ELSE UNCHANGED waiters
  /\ UNCHANGED <<idle, inUse, created, closed, conn, victims, warmLeft, live,
                 faults, starts, lapsed>>

(* Mutant: the slot of a cancelled ping is given back, its connection left  *)
(* in _in_use.                                                              *)
CancelPingFreesSlot(t) ==
  /\ CancelAt(t, "pinging")
  /\ conn' = [conn EXCEPT ![t] = NoConn]
  /\ created' = created - 1
  /\ lapsed' = TRUE
  /\ UNCHANGED <<idle, inUse, closed, waiters, victims, warmLeft, live, faults,
                 starts>>

(* The candidate stays in _in_use, its slot stays counted.                  *)
CancelPing(t) ==
  /\ CancelAt(t, "pinging")
  /\ conn' = [conn EXCEPT ![t] = NoConn]
  /\ lapsed' = TRUE
  /\ UNCHANGED <<idle, inUse, created, closed, waiters, victims, warmLeft,
                 live, faults, starts>>

(* The reservation stays counted.                                           *)
CancelOpen(t) ==
  /\ CancelAt(t, "opening")
  /\ lapsed' = TRUE
  /\ UNCHANGED <<idle, inUse, created, closed, waiters, conn, victims,
                 warmLeft, live, faults, starts>>

(* The transport starts its close before it awaits the end of it.           *)
CancelCloseOfOne(t) ==
  /\ \/ CancelAt(t, "discarding")
     \/ CancelAt(t, "releasing")
  /\ live' = live \ {conn[t]}
  /\ conn' = [conn EXCEPT ![t] = NoConn]
  /\ UNCHANGED <<idle, inUse, created, closed, waiters, victims, warmLeft,
                 faults, starts, lapsed>>

(* The connection being closed gets closed, the rest of the list does not.  *)
CancelClose(t) ==
  /\ CancelAt(t, "closing")
  /\ \E c \in victims[t] : live' = live \ {c}
  /\ victims' = [victims EXCEPT ![t] = {}]
  /\ lapsed' = TRUE
  /\ UNCHANGED <<idle, inUse, created, closed, waiters, conn, warmLeft,
                 faults, starts>>

CancelStart(t) ==
  /\ CancelAt(t, "warming")
  /\ warmLeft[t] > 0
  /\ warmLeft' = [warmLeft EXCEPT ![t] = 0]
  /\ UNCHANGED <<idle, inUse, created, closed, waiters, conn, victims, live,
                 faults, starts, lapsed>>

Cancel(t) ==
  \/ CancelWait(t) \/ CancelPing(t) \/ CancelOpen(t)
  \/ CancelCloseOfOne(t) \/ CancelClose(t) \/ CancelStart(t)

-----------------------------------------------------------------------------
PoolStep(t) ==
  \/ WarmOpens(t) \/ WarmOpenFails(t) \/ StartReturns(t)
  \/ RefuseClosed(t) \/ TakeIdle(t) \/ Reserve(t) \/ Wait(t)
  \/ PingHealthy(t) \/ PingDead(t) \/ DiscardDone(t)
  \/ OpenOk(t) \/ OpenFails(t)
  \/ ReleaseClosesConn(t) \/ CloseVictim(t) \/ CloseReturns(t)

GiveBack(t) == Release(t) \/ ReleaseToClosedPool(t)

Next ==
  \E t \in Tasks :
    \/ Start(t) \/ Acquire(t) \/ Close(t)
    \/ GiveBack(t) \/ PoolStep(t) \/ Cancel(t)

Spec == Init /\ [][Next]_vars

(* The event loop runs ready tasks, I/O completes, "async with" blocks end. *)
Fairness == \A t \in Tasks : WF_vars(PoolStep(t)) /\ WF_vars(GiveBack(t))

FairSpec == Spec /\ Fairness

-----------------------------------------------------------------------------
Opening == {t \in Tasks : pc[t] = "opening"}
Handling == {t \in Tasks : pc[t] \in {"pinging", "holding", "discarding",
                                      "releasing"}}

TypeOK ==
  /\ idle \subseteq Conns
  /\ inUse \subseteq Conns
  /\ created \in 0..(MaxSize + MaxStarts * MinSize)
  /\ closed \in BOOLEAN
  /\ waiters \subseteq {t \in Tasks : pc[t] = "waiting"}
  /\ pc \in [Tasks -> {"out", "checkout", "holding"} \union Awaits]
  /\ conn \in [Tasks -> Conns \union {NoConn}]
  /\ victims \in [Tasks -> SUBSET Conns]
  /\ warmLeft \in [Tasks -> 0..MinSize]
  /\ live \subseteq Conns
  /\ faults \in 0..MaxFaults
  /\ starts \in 0..MaxStarts
  /\ lapsed \in BOOLEAN

Counted == Cardinality(idle) + Cardinality(inUse) + Cardinality(Opening)

(* Wherever a cancellation lands, _created never falls below what the pool  *)
(* really has: a freed slot is always really free.                          *)
NeverUndercounts == Counted <= created

(* "size: connections the pool currently owns, lent or idle": the counter   *)
(* is exact, a reservation counting from the moment its open() is begun,    *)
(* and what is in _in_use is in some task's hands.                          *)
SizeIsExact ==
  /\ created = Counted
  /\ \A c \in inUse : \E t \in Handling : conn[t] = c

(* Nothing but a cancelled ping or open makes the counter drift: every      *)
(* failure, close() and harmless cancellation leaves it exact.              *)
SlotsAccounted == ~lapsed => SizeIsExact

(* "max_size: the ceiling the pool will not grow past".                     *)
CeilingKept == created <= MaxSize

(* No two tasks handle one connection, nor is one they handle idle or in    *)
(* the list of a close().                                                   *)
SingleOwner ==
  /\ \A t \in Handling : conn[t] \in live \ idle
  /\ \A t, u \in Handling : t # u => conn[t] # conn[u]
  /\ \A t \in Tasks : victims[t] \subseteq live \ idle
  /\ \A t \in Handling, u \in Tasks : conn[t] \notin victims[u]

(* The accounts stay in order under every failure, cancellation and close():*)
(* no task ever has what another one has, and every field has its type.     *)
Ownership == TypeOK /\ SingleOwner

(* Each open connection is idle, in a task's hands, or about to be closed,  *)
(* until a cancellation cuts a ping, an open or a close() short.            *)
NoOrphan ==
  ~lapsed => \A c \in live :
    \/ c \in idle
    \/ \E t \in Handling : conn[t] = c
    \/ \E t \in Tasks : c \in victims[t]

(* No lost wakeup: while a task sleeps un-notified in cond.wait(), each     *)
(* free unit has its own task that is awake and will look at it.            *)
Awake == {t \in Tasks : AtLoopTop(t)}
FreeSlots == IF created < MaxSize THEN MaxSize - created ELSE 0
NoLostWakeup ==
  waiters # {} => Cardinality(idle) + FreeSlots <= Cardinality(Awake)

(* Once the pool is closed every connection it opened gets closed, unless   *)
(* such a cancellation, or a start() on the closed pool, came between.      *)
CloseDrains == closed ~> (lapsed \/ [](live = {}))

(* The same contract as the thread-safe pool's, with the ceiling raised by  *)
(* what start() opens over max_size.                                        *)
Stage(t) ==
  CASE pc[t] \in {"checkout", "waiting", "discarding"} -> "asking"
    [] pc[t] \in {"pinging", "opening"} -> "reserved"
    [] pc[t] = "holding" -> "lent"
    [] OTHER -> "away"

Contract ==
  INSTANCE PoolContract WITH
    Threads <- Tasks,
    MaxSize <- MaxSize + MaxStarts * MinSize,
    stage <- [t \in Tasks |-> Stage(t)],
    lent <- [t \in Tasks |-> IF pc[t] = "holding" THEN conn[t] ELSE NoConn]

(* A semaphore that lends distinct connections and grants nothing new once  *)
(* it is closed, wherever cancellations land.                               *)
ImplementsContract == Contract!Spec
=============================================================================
