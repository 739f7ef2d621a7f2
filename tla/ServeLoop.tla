----------------------------- MODULE ServeLoop -----------------------------
(***************************************************************************)
(* The registered RFC server (server.py): serve_forever() starts a thread  *)
(* that connects to the gateway, registers, and answers one inbound call   *)
(* after another, while other threads stop() or close() the server and     *)
(* start it again.  The gateway is external: it hands a registration that  *)
(* waits a conversation ID and a call, and idle frames at any time.        *)
(*                                                                         *)
(* A run of the serve thread is named by its number; its connection is its *)
(* own.  `stopped`, `thread` and `transport` are attributes of the server, *)
(* shared by all its threads without a lock.                               *)
(***************************************************************************)
EXTENDS Naturals, Sequences

CONSTANTS
  Callers,       (* application threads                                    *)
  MaxServes, MaxStops, MaxCalls, MaxIdle, MaxFaults,
  Patient        (* every call ends within the 5 s that close() waits      *)

ASSUME BoundAssumption ==
  /\ MaxServes \in Nat /\ MaxStops \in Nat
  /\ MaxCalls \in Nat /\ MaxIdle \in Nat /\ MaxFaults \in Nat
ASSUME PatientAssumption == Patient \in BOOLEAN

Runs == 1..MaxServes
None == 0

VARIABLES
  stopped, thread, transport,
  caller, joins,            (* where a caller is, and the run it joins      *)
  pc,                       (* where a run of the serve thread is           *)
  registered,
  conn,                     (* a run's socket: "none", "open", "noread", "closed" *)
  handle,                   (* gw_handle: the conversation ID it replies to *)
  serving,                  (* the call it dispatches                       *)
  inbox,                    (* frames of the gateway not read yet           *)
  gateway,                  (* how the gateway sees the registration        *)
  assigned,                 (* the call its last 06cf announced             *)
  answered,                 (* <<call, conversation ID of its reply>>       *)
  failed,                   (* runs where a dispatch raised                 *)
  calls, idles, stops, faults

server == <<stopped, thread, transport>>
runVars == <<pc, registered, handle, serving, failed>>
wire == <<conn, inbox, gateway, assigned, answered>>
counts == <<calls, idles, stops, faults>>
vars == <<server, caller, joins, runVars, wire, counts>>

Init ==
  /\ stopped = FALSE /\ thread = None /\ transport = None
  /\ caller = [c \in Callers |-> "out"] /\ joins = [c \in Callers |-> None]
  /\ pc = [n \in Runs |-> "unborn"]
  /\ registered = [n \in Runs |-> FALSE]
  /\ conn = [n \in Runs |-> "none"]
  /\ handle = [n \in Runs |-> None] /\ serving = [n \in Runs |-> None]
  /\ inbox = [n \in Runs |-> <<>>]
  /\ gateway = [n \in Runs |-> "none"] /\ assigned = [n \in Runs |-> None]
  /\ answered = {} /\ failed = {}
  /\ calls = 0 /\ idles = 0 /\ stops = 0 /\ faults = 0

Alive(n) == n # None /\ pc[n] \notin {"unborn", "ended"}

Fault == faults < MaxFaults /\ faults' = faults + 1

Frame(kind, k) == [kind |-> kind, call |-> k]

-----------------------------------------------------------------------------
(* The application                                                          *)

(* Refused while the thread is alive; a stop() before this is forgotten.    *)
ServeForever(c) ==
  /\ caller[c] = "out"
  /\ ~(IF thread = None THEN FALSE ELSE Alive(thread))
  /\ \E n \in Runs :
       /\ pc[n] = "unborn" /\ \A m \in Runs : m < n => pc[m] # "unborn"
       /\ stopped' = FALSE /\ thread' = n
       /\ pc' = [pc EXCEPT ![n] = "connecting"]
       /\ joins' = [joins EXCEPT ![c] = n]
  /\ caller' = [caller EXCEPT ![c] = "serving"]
  /\ UNCHANGED <<transport, registered, handle, serving, failed, wire,
                 counts>>

ServeReturns(c) ==
  /\ caller[c] = "serving"
  /\ pc[joins[c]] = "ended"
  /\ caller' = [caller EXCEPT ![c] = "out"]
  /\ UNCHANGED <<server, joins, runVars, wire, counts>>

(* stop(), alone or as the first thing close() does: the flag ...           *)
Stop(c) ==
  /\ caller[c] = "out"
  /\ stops < MaxStops /\ stops' = stops + 1
  /\ stopped' = TRUE
  /\ \E next \in {"stopping", "closing"} : caller' = [caller EXCEPT ![c] = next]
  /\ UNCHANGED <<thread, transport, joins, runVars, wire, calls, idles,
                 faults>>

AfterStop(c) ==
  /\ caller[c] \in {"stopping", "closing"}
  /\ IF caller[c] = "closing" /\ thread # None
       THEN /\ caller' = [caller EXCEPT ![c] = "joining"]
            /\ joins' = [joins EXCEPT ![c] = thread]
            /\ UNCHANGED thread
       ELSE /\ caller' = [caller EXCEPT ![c] = "out"]
            /\ thread' = IF caller[c] = "closing" THEN None ELSE thread
            /\ UNCHANGED joins

(* Mutant: the thread that may be blocked in a read is not woken.           *)
ShutReadsNever(c) ==
  /\ AfterStop(c)
  /\ UNCHANGED <<stopped, transport, runVars, wire, counts>>

(* 06d0: the gateway forgets the registration, and whatever reply it still  *)
(* waits for the end of is cut.                                             *)
ListenEnd(g) == CASE g \in {"none", "gone"} -> g [] g = "replied" -> "cut" [] OTHER -> "left"

(* Mutant: the thread that stops the server also takes leave for it.        *)
ShutReadsAndLeaves(c) ==
  /\ AfterStop(c)
  /\ conn' = IF transport = None THEN conn
             ELSE [conn EXCEPT ![transport] = IF @ = "open" THEN "noread" ELSE @]
  /\ gateway' = IF transport = None THEN gateway
                ELSE [gateway EXCEPT ![transport] = ListenEnd(@)]
  /\ UNCHANGED <<stopped, transport, runVars, inbox, answered, counts,
                 assigned>>

(* ... then the read side of whatever transport is there.                   *)
ShutReads(c) ==
  /\ AfterStop(c)
  /\ conn' = IF transport = None THEN conn
             ELSE [conn EXCEPT ![transport] = IF @ = "open" THEN "noread" ELSE @]
  /\ UNCHANGED <<stopped, transport, runVars, inbox, gateway, answered,
                 counts, assigned>>

(* The join of close() ends with the thread, or after 5 s without it.       *)
CloseReturns(c) ==
  /\ caller[c] = "joining"
  /\ ~Alive(joins[c]) \/ (~Patient /\ pc[joins[c]] = "dispatching")
  /\ thread' = None
  /\ caller' = [caller EXCEPT ![c] = "out"]
  /\ UNCHANGED <<stopped, transport, joins, runVars, wire, counts>>

-----------------------------------------------------------------------------
(* The serve thread                                                         *)

Step(n, from, to) == pc[n] = from /\ pc' = [pc EXCEPT ![n] = to]

Connects(n) ==
  /\ Step(n, "connecting", "greeting")
  /\ transport' = n
  /\ conn' = [conn EXCEPT ![n] = "open"]
  /\ gateway' = [gateway EXCEPT ![n] = "greeted"]
  /\ UNCHANGED <<stopped, thread, caller, joins, registered, handle, serving,
                 failed, inbox, answered, counts, assigned>>

ConnectFails(n) ==
  /\ Fault
  /\ Step(n, "connecting", "ended")
  /\ UNCHANGED <<server, caller, joins, registered, handle, serving, failed,
                 wire, calls, idles, stops>>

Reads(n) == pc[n] \in {"greeting", "reading"} /\ inbox[n] # <<>>

(* The NI response is discarded; the program ID and 06d1 follow.            *)
Registers(n) ==
  /\ Reads(n)
  /\ Step(n, "greeting", "top")
  /\ inbox' = [inbox EXCEPT ![n] = Tail(@)]
  /\ registered' = [registered EXCEPT ![n] = TRUE]
  /\ gateway' = [gateway EXCEPT ![n] = IF @ = "gone" THEN @ ELSE "waiting"]
  /\ UNCHANGED <<server, caller, joins, handle, serving, failed, conn,
                 answered, counts, assigned>>

LoopTop(n) ==
  /\ Step(n, "top", IF stopped THEN "leaving" ELSE "reading")
  /\ UNCHANGED <<server, caller, joins, registered, handle, serving, failed,
                 wire, counts>>

(* Mutant: an idle frame is read as a conversation ID.                      *)
ReadFrameIdleIsHandle(n) ==
  /\ Reads(n)
  /\ LET f == Head(inbox[n]) IN
       /\ Step(n, "reading", IF f.kind = "call" THEN "dispatching" ELSE "top")
       /\ handle' = [handle EXCEPT ![n] = IF f.kind # "call" THEN f.call ELSE @]
       /\ serving' = [serving EXCEPT ![n] = IF f.kind = "call" THEN f.call ELSE @]
  /\ inbox' = [inbox EXCEPT ![n] = Tail(@)]
  /\ UNCHANGED <<server, caller, joins, registered, failed, conn, gateway,
                 answered, counts, assigned>>

(* 06cf keeps the conversation ID, 0603 is dispatched, anything else is     *)
(* passed over.                                                             *)
ReadFrame(n) ==
  /\ Reads(n)
  /\ LET f == Head(inbox[n]) IN
       /\ Step(n, "reading", IF f.kind = "call" THEN "dispatching" ELSE "top")
       /\ handle' = [handle EXCEPT ![n] = IF f.kind = "conversation" THEN f.call ELSE @]
       /\ serving' = [serving EXCEPT ![n] = IF f.kind = "call" THEN f.call ELSE @]
  /\ inbox' = [inbox EXCEPT ![n] = Tail(@)]
  /\ UNCHANGED <<server, caller, joins, registered, failed, conn, gateway,
                 answered, counts, assigned>>

(* End of file: the reads were shut down, or the gateway has gone.  Frames  *)
(* that arrived before a shutdown may or may not be read first.             *)
EndOfFile(n) ==
  /\ pc[n] \in {"greeting", "reading"}
  /\ conn[n] = "noread" \/ (gateway[n] = "gone" /\ inbox[n] = <<>>)
  /\ pc' = [pc EXCEPT ![n] = "leaving"]
  /\ UNCHANGED <<server, caller, joins, registered, handle, serving, failed,
                 wire, counts>>

(* The handler, or what isolates it, ends with a response: 0608 with the    *)
(* call's conversation ID.                                                  *)
Replies(n) ==
  /\ Step(n, "dispatching", IF gateway[n] = "gone" THEN "top" ELSE "replied")
  /\ answered' = IF gateway[n] = "gone" THEN answered
                 ELSE answered \union {<<serving[n], handle[n]>>}
  /\ gateway' = [gateway EXCEPT ![n] = IF @ = "gone" THEN @ ELSE "replied"]
  /\ UNCHANGED <<server, caller, joins, registered, handle, serving, failed,
                 conn, inbox, counts, assigned>>

(* The dispatch raises outside the handler's isolation (a request that does *)
(* not deserialize, a result that does not serialize): no frame is sent.    *)
DispatchRaises(n) ==
  /\ Fault
  /\ Step(n, "dispatching", "top")
  /\ failed' = failed \union {n}
  /\ UNCHANGED <<server, caller, joins, registered, handle, serving, wire,
                 calls, idles, stops>>

(* Mutant: 06d0 where the reply should end with 06d1.                       *)
WaitsAgainWithListenEnd(n) ==
  /\ Step(n, "replied", "top")
  /\ gateway' = [gateway EXCEPT ![n] = IF @ = "gone" THEN @ ELSE "left"]
  /\ UNCHANGED <<server, caller, joins, registered, handle, serving, failed,
                 conn, inbox, answered, counts, assigned>>

(* 060b, 06d2, and 06d1 for the next call.                                  *)
WaitsAgain(n) ==
  /\ Step(n, "replied", "top")
  /\ gateway' = [gateway EXCEPT ![n] = IF @ = "gone" THEN @ ELSE "waiting"]
  /\ UNCHANGED <<server, caller, joins, registered, handle, serving, failed,
                 conn, inbox, answered, counts, assigned>>

Leaves(n) ==
  /\ Step(n, "leaving", "closing")
  /\ transport' = None
  /\ UNCHANGED <<stopped, thread, caller, joins, registered, handle, serving,
                 failed, wire, counts>>

(* 06d0 only on the server's own stop, then the socket is closed.           *)
Ends(n) ==
  /\ Step(n, "closing", "ended")
  /\ gateway' = [gateway EXCEPT ![n] =
                   IF registered[n] /\ stopped THEN ListenEnd(@) ELSE "gone"]
  /\ conn' = [conn EXCEPT ![n] = "closed"]
  /\ UNCHANGED <<server, caller, joins, registered, handle, serving, failed,
                 inbox, answered, counts, assigned>>

-----------------------------------------------------------------------------
(* The gateway                                                              *)

Sends(n, f) == inbox' = [inbox EXCEPT ![n] = Append(@, f)]

Connected(n) == conn[n] \in {"open", "noread"} /\ gateway[n] # "gone"

AnswersGreeting(n) ==
  /\ Connected(n) /\ gateway[n] = "greeted"
  /\ gateway' = [gateway EXCEPT ![n] = "known"]
  /\ Sends(n, Frame("greeting", None))
  /\ UNCHANGED <<server, caller, joins, runVars, conn, answered, counts,
                 assigned>>

Assigns(n) ==
  /\ Connected(n) /\ gateway[n] = "waiting"
  /\ calls < MaxCalls /\ calls' = calls + 1
  /\ gateway' = [gateway EXCEPT ![n] = "assigned"]
  /\ assigned' = [assigned EXCEPT ![n] = calls']
  /\ Sends(n, Frame("conversation", calls'))
  /\ UNCHANGED <<server, caller, joins, runVars, conn, answered, idles,
                 stops, faults>>

Delivers(n) ==
  /\ Connected(n) /\ gateway[n] = "assigned"
  /\ gateway' = [gateway EXCEPT ![n] = "calling"]
  /\ Sends(n, Frame("call", assigned[n]))
  /\ UNCHANGED <<server, caller, joins, runVars, conn, answered, counts,
                 assigned>>

(* About every 314 s on an idle registration.                               *)
SendsIdle(n) ==
  /\ Connected(n) /\ gateway[n] \in {"waiting", "assigned"}
  /\ idles < MaxIdle /\ idles' = idles + 1
  /\ Sends(n, Frame("idle", None))
  /\ UNCHANGED <<server, caller, joins, runVars, conn, gateway, answered,
                 calls, stops, faults, assigned>>

HangsUp(n) ==
  /\ Fault
  /\ Connected(n)
  /\ gateway' = [gateway EXCEPT ![n] = "gone"]
  /\ UNCHANGED <<server, caller, joins, runVars, conn, inbox, answered,
                 calls, idles, stops, assigned>>

-----------------------------------------------------------------------------
ServeThread(n) ==
  \/ Connects(n) \/ Registers(n) \/ LoopTop(n) \/ ReadFrame(n) \/ EndOfFile(n)
  \/ Replies(n) \/ WaitsAgain(n) \/ Leaves(n) \/ Ends(n)

Application(c) == ServeReturns(c) \/ ShutReads(c) \/ CloseReturns(c)

Next ==
  \/ \E c \in Callers : ServeForever(c) \/ Stop(c) \/ Application(c)
  \/ \E n \in Runs :
       \/ ServeThread(n) \/ ConnectFails(n) \/ DispatchRaises(n)
       \/ AnswersGreeting(n) \/ Assigns(n) \/ Delivers(n) \/ SendsIdle(n) \/ HangsUp(n)

(* Threads run, handlers return, and the gateway answers the first frame of *)
(* a connection; it need not deliver a call.                                *)
Fairness ==
  /\ \A c \in Callers : WF_vars(Application(c))
  /\ \A n \in Runs : WF_vars(ServeThread(n)) /\ WF_vars(AnswersGreeting(n))

Spec == Init /\ [][Next]_vars /\ Fairness

-----------------------------------------------------------------------------
Frames == [kind : {"greeting", "conversation", "call", "idle"},
           call : 0..MaxCalls]

TypeOK ==
  /\ stopped \in BOOLEAN
  /\ thread \in Runs \union {None} /\ transport \in Runs \union {None}
  /\ caller \in [Callers -> {"out", "serving", "stopping", "closing", "joining"}]
  /\ joins \in [Callers -> Runs \union {None}]
  /\ pc \in [Runs -> {"unborn", "connecting", "greeting", "top", "reading",
                      "dispatching", "replied", "leaving", "closing", "ended"}]
  /\ registered \in [Runs -> BOOLEAN]
  /\ conn \in [Runs -> {"none", "open", "noread", "closed"}]
  /\ handle \in [Runs -> 0..MaxCalls] /\ serving \in [Runs -> 0..MaxCalls]
  /\ assigned \in [Runs -> 0..MaxCalls]
  /\ inbox \in [Runs -> Seq(Frames)]
  /\ gateway \in [Runs -> {"none", "greeted", "known", "waiting",
                           "assigned", "calling",
                           "replied", "left", "gone", "cut"}]
  /\ answered \in SUBSET ((0..MaxCalls) \X (0..MaxCalls))
  /\ failed \subseteq Runs
  /\ calls \in 0..MaxCalls /\ idles \in 0..MaxIdle
  /\ stops \in 0..MaxStops /\ faults \in 0..MaxFaults

(* "carries the conversation ID": a reply names the conversation of its own *)
(* call, whatever idle frames come in between.                              *)
OwnConversation == \A a \in answered : a[1] = a[2]

(* "nothing can interleave with a reply in flight": 06d0 does not come      *)
(* between a reply and the 06d1 that ends it.                               *)
LeavesBetweenCalls == \A n \in Runs : gateway[n] # "cut"

(* "the gateway delivered no further calls": a thread that waits for a call *)
(* is one the gateway will deliver to, or has delivered to, unless a        *)
(* dispatch raised on this registration or the gateway hung up.             *)
Serviceable ==
  \A n \in Runs :
    pc[n] \in {"top", "reading"} /\ n \notin failed /\ gateway[n] # "gone"
      => \/ gateway[n] \in {"waiting", "assigned"}
         \/ gateway[n] = "calling" /\ \E i \in 1..Len(inbox[n]) : inbox[n][i].kind = "call"

(* "Shutting down the read side unblocks the blocking recv_message() call": *)
(* a thread whose server is stopped ends, at whatever step it was, unless   *)
(* close() gave up on an earlier thread or the server is started again.     *)
NeverAbandoned == [](\A n \in Runs : Alive(n) => thread = n)
StopsAtLast == \A n \in Runs : (stopped /\ Alive(n)) ~> (~Alive(n) \/ ~stopped)
StopEndsServing == NeverAbandoned => StopsAtLast
=============================================================================
