----------------------------- MODULE WsSession -----------------------------
(***************************************************************************)
(* The synchronous Connection that connect() returns for wRFC              *)
(* (connection.py), from its LOGON, which it leaves to its first operation,*)
(* to the calls that follow it or to the classic connection that a built-in*)
(* call falls back to when the session is not carried.  A fallback goes    *)
(* through the steps of ConnectPath, which this module extends.            *)
(*                                                                         *)
(* Threads share the connection.  call() and ping() hold its lock from     *)
(* start to end; get_connection_attributes() does not take it, and does    *)
(* the LOGON too.  The server is external: it answers requests in order, at*)
(* any time, and may close the WebSocket at any time.                      *)
(***************************************************************************)
EXTENDS ConnectPath

CONSTANTS Threads, MaxOps

Nobody == "nobody"

ASSUME OpsAssumption == MaxOps \in Nat /\ Nobody \notin Threads

VARIABLES
  over,          (* the Connection's transport: "ws", "tcp", "dead"         *)
  holder,        (* of the lock                                             *)
  op, step,      (* a thread's operation, and the reply it waits for        *)
  mine,          (* the request that reply answers                          *)
  kept,          (* the wRFC session's state during a fallback              *)
  requests,      (* sent, and not answered yet: [id, kind]                  *)
  wire,          (* sent back, and not read yet: [id, kind, result]         *)
  logon,         (* as the server sees it: "out", "in", "failed", "gone"    *)
  astray,        (* a reply may come that no operation waits for, or two do *)
  told,          (* an operation has reported the failed logon              *)
  ops, asked

sessionVars == <<over, holder, op, step, mine, kept, requests, wire, logon, astray, told,
                 ops, asked>>
vars == <<pathVars, sessionVars>>

SessionInit ==
  /\ Init
  /\ over = "ws" /\ holder = Nobody /\ kept = "none"
  /\ op = [t \in Threads |-> "none"] /\ step = [t \in Threads |-> "idle"]
  /\ mine = [t \in Threads |-> 0]
  /\ requests = <<>> /\ wire = <<>> /\ logon = "out"
  /\ astray = FALSE /\ told = FALSE
  /\ ops = 0 /\ asked = 0

-----------------------------------------------------------------------------
(* What an operation does next.  `path` and the steps of ConnectPath change *)
(* in a fallback only, the session's state otherwise.                       *)

steady == <<path, at, ms, sock, secure, sent, unread, redirected, rounds, failedAt>>

(* A frame goes out, after what was read has left w, and its reply is waited *)
(* for; while another thread waits too, either may get the other's.         *)
SendAndWait(t, kind, w) ==
  /\ asked' = asked + 1
  /\ requests' = Append(requests, [id |-> asked', kind |-> kind])
  /\ wire' = w
  /\ step' = [step EXCEPT ![t] = kind]
  /\ mine' = [mine EXCEPT ![t] = asked']
  /\ UNCHANGED <<steady, over, kept, logon, told>>

(* The wRFC session's state, which a fallback puts aside and may replace.   *)
Becomes(state) ==
  CASE over = "tcp" -> UNCHANGED <<session, kept>>
    [] \E u \in Threads : step[u] = "fallback" -> kept' = state /\ UNCHANGED session
    [] OTHER -> session' = state /\ UNCHANGED kept

(* The operation ends; the finally of a call or a ping makes IN_CALL READY. *)
Finish(t, state, w) ==
  /\ step' = [step EXCEPT ![t] = "idle"]
  /\ holder' = IF holder = t THEN Nobody ELSE holder
  /\ Becomes(IF state = "IN_CALL" THEN "READY" ELSE state)
  /\ wire' = w
  /\ UNCHANGED <<steady, over, op, mine, requests, logon, ops, asked>>

(* _fail_closed guards a ping, a call's own reply and a LOGON that is done  *)
(* for itself; metadata, the LOGON of a first call and a built-in call's    *)
(* reply are read without it.                                               *)
Closes(t) == \/ step[t] \in {"invoke", "ping"}
             \/ step[t] = "logon" /\ op[t] \in {"ping", "attributes"}

(* Mutant: no read closes.                                                  *)
FailsOpen(t, w) ==
  Finish(t, session, w) /\ UNCHANGED told

(* The operation raises.                                                    *)
Fails(t, w) ==
  Finish(t, IF Closes(t) THEN "BROKEN" ELSE session, w) /\ UNCHANGED told

(* A built-in call that is not carried: the WebSocket is closed, and the     *)
(* path of a classic connection without timeouts begins.                    *)
FallBack(t) ==
  /\ step' = [step EXCEPT ![t] = "fallback"]
  /\ kept' = session
  /\ path' = [kind |-> "classic", group |-> FALSE, router |-> FALSE, jwt |-> FALSE,
              tunnel |-> FALSE, named |-> TRUE, timed |-> FALSE]
  /\ at' = "tcp" /\ session' = "DISCONNECTED"
  /\ sock' = "none" /\ secure' = "no" /\ sent' = <<>> /\ unread' = <<>>
  /\ redirected' = FALSE /\ rounds' = 0
  /\ requests' = <<>> /\ wire' = <<>> /\ logon' = "gone"
  /\ UNCHANGED <<ms, failedAt, faults, over, holder, op, mine, astray, told, ops, asked>>

-----------------------------------------------------------------------------
(* Operations                                                               *)

Begin(t, o) ==
  /\ step[t] = "idle" /\ at = "connected" /\ over = "ws"
  /\ ops < MaxOps /\ ops' = ops + 1
  /\ op' = [op EXCEPT ![t] = o]
  /\ astray' = (astray \/ \E u \in Threads \ {t} : step[u] # "idle")
  /\ UNCHANGED faults

(* An operation that finds WS_PENDING sends the LOGON, whatever came of an  *)
(* earlier one.                                                             *)
BeginPending(t, o) ==
  /\ session = "WS_PENDING" /\ UNCHANGED session
  /\ IF o = "attributes" THEN UNCHANGED holder ELSE holder = Nobody /\ holder' = t
  /\ Begin(t, o)
  /\ SendAndWait(t, "logon", wire)

(* With its descriptors cached a call goes straight to its invoke.          *)
BeginReady(t, o) ==
  /\ session = "READY" /\ session' = "IN_CALL"
  /\ holder = Nobody /\ holder' = t
  /\ Begin(t, o)
  /\ \E kind \in (IF o = "ping" THEN {"ping"} ELSE {"gfi", "invoke"}) :
       SendAndWait(t, kind, wire)

Got(t, at_) == step[t] = at_ /\ wire # <<>>
IsLogon(result) == Head(wire).kind = "logon" /\ Head(wire).result = result

(* drain_queued_close: of the frames behind the reply, those that arrived   *)
(* are dropped; a close among them is noticed.                              *)
Arrived(rest, n) == \E i \in 1..n : rest[i].kind = "close"

LogonAccepted(t) ==
  /\ Got(t, "logon") /\ IsLogon("ok")
  /\ IF op[t] \in {"ping", "attributes"}
       THEN Finish(t, "READY", Tail(wire)) /\ UNCHANGED <<astray, told, faults>>
       ELSE LET rest == Tail(wire) IN
            \E n \in 0..Len(rest) :
              CASE ~Arrived(rest, n) ->
                     /\ session' = "READY"
                     /\ SendAndWait(t, IF op[t] = "builtin" THEN "direct" ELSE "gfi",
                                    SubSeq(rest, n + 1, Len(rest)))
                     /\ UNCHANGED <<holder, op, astray, ops, faults>>
                [] Arrived(rest, n) /\ op[t] = "builtin" -> FallBack(t)
                [] OTHER -> /\ Finish(t, "READY", SubSeq(rest, n + 1, Len(rest)))
                            /\ UNCHANGED <<astray, told, faults>>

(* Mutant: the reply is taken for a clean logon.                            *)
LogonFailureUnread(t) ==
  /\ Got(t, "logon") /\ IsLogon("failed")
  /\ session' = "READY"
  /\ SendAndWait(t, IF op[t] = "builtin" THEN "direct" ELSE "gfi", Tail(wire))
  /\ UNCHANGED <<holder, op, astray, ops, faults>>

(* It authenticated, but the function it named failed.                      *)
LogonFailed(t) ==
  /\ Got(t, "logon") /\ IsLogon("failed")
  /\ IF op[t] = "builtin"
       THEN FallBack(t)
       ELSE /\ Finish(t, "READY", Tail(wire))
            /\ told' = TRUE /\ UNCHANGED <<astray, faults>>

(* A reply that does not authenticate, or that is no LOGON's.               *)
LogonRefused(t) ==
  /\ Got(t, "logon") /\ ~IsLogon("ok") /\ ~IsLogon("failed")
  /\ Fails(t, Tail(wire))
  /\ UNCHANGED <<astray, faults>>

(* The descriptors: the interface, then a layout perhaps, then the invoke.  *)
Invokes(t, w) ==
  /\ session' = IF op[t] = "first call" THEN "IN_CALL" ELSE session
  /\ SendAndWait(t, "invoke", w)

MetadataRead(t) ==
  /\ Got(t, "gfi") \/ Got(t, "layout")
  /\ Head(wire).kind # "close"
  /\ UNCHANGED <<faults, astray>>
  /\ \/ /\ step[t] = "gfi"
        /\ SendAndWait(t, "layout", Tail(wire))
        /\ UNCHANGED <<session, holder, op, ops>>
     \/ /\ op[t] = "first call" => session = "READY"
        /\ Invokes(t, Tail(wire))
        /\ UNCHANGED <<holder, op, ops>>
     \/ /\ op[t] = "first call" /\ session # "READY"
        /\ Fails(t, Tail(wire))

ReplyRead(t) ==
  /\ Got(t, "invoke") \/ Got(t, "ping") \/ Got(t, "direct")
  /\ Head(wire).kind # "close"
  /\ Finish(t, session, Tail(wire))
  /\ UNCHANGED <<astray, told, faults>>

(* The WebSocket is closed.  A layout that cannot be had is done without,   *)
(* and a built-in call whose session is not carried falls back.             *)
CloseRead(t) ==
  /\ \E s \in {"gfi", "layout", "invoke", "ping", "direct"} : Got(t, s)
  /\ Head(wire).kind = "close"
  /\ UNCHANGED <<faults, astray>>
  /\ CASE step[t] = "direct" -> FallBack(t)
       [] step[t] = "layout" /\ (op[t] = "first call" => session = "READY") ->
            Invokes(t, Tail(wire)) /\ UNCHANGED <<holder, op, ops>>
       [] OTHER -> Fails(t, Tail(wire))

(* Nothing comes: the socket is at its end, or the read times out and the   *)
(* reply stays owed.                                                        *)
NothingRead(t) ==
  /\ step[t] \notin {"idle", "fallback"} /\ wire = <<>>
  /\ \/ logon = "gone" /\ UNCHANGED <<faults, astray>>
     \/ logon # "gone" /\ path.timed /\ Fault /\ astray' = (astray \/ ~Closes(t))
  /\ IF step[t] = "layout" /\ (op[t] = "first call" => session = "READY")
       THEN Invokes(t, wire) /\ UNCHANGED <<holder, op, ops>>
       ELSE Fails(t, wire)

(* The fallback's own call: answered, the classic connection takes the place *)
(* of this one; failed, it is dropped, and the closed WebSocket stays.      *)
FallbackCalled(t) ==
  /\ step[t] = "fallback" /\ at = "connected"
  /\ step' = [step EXCEPT ![t] = "idle"] /\ holder' = Nobody
  /\ \/ over' = "tcp" /\ UNCHANGED <<session, faults>>
     \/ Fault /\ over' = "dead" /\ session' = kept
  /\ UNCHANGED <<steady, op, mine, kept, requests, wire, logon, astray, told, ops, asked>>

FallbackRaised(t) ==
  /\ step[t] = "fallback" /\ at = "raised"
  /\ step' = [step EXCEPT ![t] = "idle"] /\ holder' = Nobody
  /\ over' = "dead" /\ session' = kept
  /\ UNCHANGED <<steady, faults, op, mine, kept, requests, wire, logon, astray, told, ops, asked>>

-----------------------------------------------------------------------------
(* The server                                                               *)

Reply(r, result) == Append(wire, [id |-> r.id, kind |-> r.kind, result |-> result])
HangUp == Append(wire, [id |-> 0, kind |-> "close", result |-> "none"])

client == <<pathVars, over, holder, op, step, mine, kept, astray, told, ops, asked>>
clientButFaults == <<steady, session, over, holder, op, step, mine, kept, astray, told, ops, asked>>

AnswersLogon ==
  /\ requests # <<>> /\ logon # "gone" /\ Head(requests).kind = "logon"
  /\ requests' = Tail(requests)
  /\ UNCHANGED clientButFaults
  /\ \/ logon' = "in" /\ wire' = Reply(Head(requests), "ok") /\ UNCHANGED faults
     \/ logon' = "failed" /\ wire' = Reply(Head(requests), "failed") /\ Fault
     \/ UNCHANGED logon /\ wire' = Reply(Head(requests), "refused") /\ Fault

AnswersCall ==
  /\ requests # <<>> /\ logon = "in" /\ Head(requests).kind # "logon"
  /\ requests' = Tail(requests)
  /\ wire' = Reply(Head(requests), "ok")
  /\ UNCHANGED <<client, logon>>

(* A call into a session whose logon failed is a short dump.                *)
Dumps ==
  /\ requests # <<>> /\ logon \in {"out", "failed"} /\ Head(requests).kind # "logon"
  /\ requests' = <<>> /\ logon' = "gone" /\ wire' = HangUp
  /\ UNCHANGED client

ServerCloses ==
  /\ at = "connected" /\ over = "ws" /\ logon # "gone"
  /\ Fault
  /\ requests' = <<>> /\ logon' = "gone" /\ wire' = HangUp
  /\ UNCHANGED clientButFaults

-----------------------------------------------------------------------------
Next ==
  \/ PathStep /\ UNCHANGED sessionVars
  \/ \E t \in Threads :
       \/ \E o \in {"first call", "builtin", "ping", "attributes"} : BeginPending(t, o)
       \/ \E o \in {"call", "ping"} : BeginReady(t, o)
       \/ LogonAccepted(t) \/ LogonFailed(t) \/ LogonRefused(t)
       \/ MetadataRead(t) \/ ReplyRead(t) \/ CloseRead(t) \/ NothingRead(t)
       \/ FallbackCalled(t) \/ FallbackRaised(t)
  \/ AnswersLogon \/ AnswersCall \/ Dumps \/ ServerCloses

(* connect() runs; nobody has to use the connection it returns.             *)
Spec == SessionInit /\ [][Next]_vars /\ WF_vars(PathStep /\ UNCHANGED sessionVars)

-----------------------------------------------------------------------------
Steppings == {"logon", "gfi", "layout", "invoke", "ping", "direct"}

TypeOK ==
  /\ PathTypeOK
  /\ over \in {"ws", "tcp", "dead"} /\ holder \in Threads \union {Nobody}
  /\ op \in [Threads -> {"none", "first call", "call", "builtin", "ping", "attributes"}]
  /\ step \in [Threads -> Steppings \union {"idle", "fallback"}]
  /\ mine \in [Threads -> 0..asked] /\ asked \in Nat /\ ops \in 0..MaxOps
  /\ kept \in {"none", "WS_PENDING", "READY", "BROKEN"}
  /\ requests \in Seq([id : 1..asked, kind : Steppings])
  /\ wire \in Seq([id : 0..asked, kind : Steppings \union {"close"},
                   result : {"ok", "failed", "refused", "none"}])
  /\ logon \in {"out", "in", "failed", "gone"}
  /\ astray \in BOOLEAN /\ told \in BOOLEAN

(* What an operation reads is the reply to its own request, or the end of   *)
(* the connection.  This is what the lock, and closing the session on a     *)
(* reply that was not read, are for; it is lost where the code reads        *)
(* without either: a read that times out outside _fail_closed, and          *)
(* get_connection_attributes() while a call is under way.                   *)
OwnReply ==
  \A t \in Threads :
    step[t] \in Steppings /\ wire # <<>> /\ ~astray =>
      Head(wire).kind = "close" \/ Head(wire).id = mine[t]

DoomedFrames == {i \in DOMAIN requests : requests[i].kind # "logon"}

(* "Sending an invoke into that session is what makes the work process take *)
(* a short dump" (connection.py:2583): no operation sends one into a session *)
(* whose logon failed ...                                                   *)
DoomedFrameSkipped == logon = "failed" /\ ~astray => DoomedFrames = {}

(* ... at least not before an operation has reported the failure.           *)
DoomedFrameSkippedUntold == logon = "failed" /\ ~astray /\ ~told => DoomedFrames = {}
=============================================================================
