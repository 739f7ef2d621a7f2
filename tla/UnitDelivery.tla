---------------------------- MODULE UnitDelivery ----------------------------
(***************************************************************************)
(* One bgRFC unit: its calls are buffered in a unit handle and shipped     *)
(* together (connection.py), with retries, parking and re-drive; the       *)
(* receiving RfcServer plays them back in order behind its unit store      *)
(* (server.py, stores.py), answers state queries and takes the confirm.    *)
(* Requests of a connection that was given up may still arrive, at any     *)
(* later time, and the server may crash between any two of its steps.      *)
(*                                                                         *)
(* The store is keyed by unit ID and type.  There is one unit, of type     *)
(* UnitType; queries and confirms name a type of their own, "T" unless the *)
(* caller says otherwise.                                                  *)
(***************************************************************************)
EXTENDS Naturals, Sequences

CONSTANTS
  Calls,         (* buffered calls of the unit                              *)
  UnitType,      (* "Q" when it was created with queues, else "T"           *)
  MaxRetries, MaxOps, MaxFaults,
  Durable,       (* SqliteUnitStore, not InMemoryUnitStore                  *)
  CrashAt,       (* points of the playback where the process may die        *)
  Stored,        (* the sender was given a store to park the payload in     *)
  Coroutines,    (* the handlers are `async def`, on an AsyncRfcServer      *)
  EarlyConfirm   (* senders confirm units they were not told committed      *)

UnitStates == {"NOT_FOUND", "IN_PROCESS", "COMMITTED", "ROLLED_BACK", "CONFIRMED"}
Types == {"T", "Q"}

ASSUME UnitAssumption == Calls \in Nat \ {0} /\ UnitType \in Types
ASSUME BoundAssumption ==
  MaxRetries \in Nat /\ MaxOps \in Nat /\ MaxFaults \in Nat
ASSUME SettingAssumption ==
  /\ Durable \in BOOLEAN /\ Coroutines \in BOOLEAN /\ EarlyConfirm \in BOOLEAN
  /\ Stored \in BOOLEAN
  /\ CrashAt \subseteq {"idle", "playing", "played"}

VARIABLES
  op, pc, tries,  (* the sender's operation, where it is, its attempts      *)
  result,         (* how its last submission ended                          *)
  told,           (* the state its last query was answered                  *)
  parked,
  link,           (* "up"; "dead" under a session that takes it for up; or  *)
                  (* "retired" with its session                             *)
  lapsed,         (* a read gave up unguarded, its answer still to come     *)
  misled,         (* a reply that says nothing was taken for a success      *)
  toServer, toClient,
  late,           (* requests of retired connections, still under way       *)
  store,          (* the server's unit store, per type                      *)
  playing,        (* a ship is being dispatched; from a live connection?    *)
  done,           (* calls played back so far                               *)
  runs,           (* times each call's handler ran to its end               *)
  begun, faults

senderVars == <<op, pc, tries, result, told, parked>>
wireVars == <<link, lapsed, misled, toServer, toClient, late>>
serverVars == <<store, playing, done, runs>>
vars == <<senderVars, wireVars, serverVars, begun, faults>>

Init ==
  /\ op = "none" /\ pc = "out" /\ tries = 0
  /\ result = "none" /\ told = "none" /\ parked = FALSE
  /\ link = "up" /\ lapsed = FALSE /\ misled = FALSE
  /\ toServer = <<>> /\ toClient = <<>> /\ late = {}
  /\ store = [t \in Types |-> "NOT_FOUND"]
  /\ playing = "no" /\ done = 0 /\ runs = [i \in 1..Calls |-> 0]
  /\ begun = 0 /\ faults = 0

Fault == faults < MaxFaults /\ faults' = faults + 1

Request(kind, type) == [kind |-> kind, type |-> type]
Ship == Request("ship", UnitType)
Describe == Request("describe", "T")  (* RFC_GET_FUNCTION_INTERFACE         *)
Unnamed == Request("unnamed", "T")    (* a query or confirm without a unit  *)
Asks == {"query", "confirm"}

-----------------------------------------------------------------------------
(* The sender                                                               *)

(* On the connection that is there, dead or not, or on a new one.           *)
Sends(m) ==
  \/ /\ link = "up"
     /\ toServer' = Append(toServer, m)
     /\ UNCHANGED <<link, toClient>>
  \/ link = "dead" /\ UNCHANGED <<link, toServer, toClient>>
  \/ /\ link # "up" /\ link' = "up"
     /\ toServer' = <<m>> /\ toClient' = <<>>

Start(o, where, m) ==
  /\ op' = o /\ pc' = where /\ tries' = 0
  /\ Sends(m)
  /\ UNCHANGED <<result, told, parked, lapsed, misled, late, serverVars, faults>>

Begin == pc = "out" /\ begun < MaxOps /\ begun' = begun + 1

(* The with-block of a unit handle ends without an exception; again, with a *)
(* new handle and the same ID, when the unit has to be re-sent.             *)
Submit ==
  /\ \/ result \in {"none", "exhausted", "failed"}
     \/ told \in {"NOT_FOUND", "ROLLED_BACK"}
  /\ Begin
  /\ Start("ship", "sent", Ship)

(* Mutant: the payload is taken out of the store.                           *)
FetchTakes ==
  /\ parked
  /\ Begin
  /\ op' = "redrive" /\ pc' = "fetched"
  /\ parked' = FALSE
  /\ UNCHANGED <<tries, result, told, wireVars, serverVars, faults>>

(* retry_parked_unit reads the payload before it has the lock.              *)
Fetch ==
  /\ parked
  /\ Begin
  /\ op' = "redrive" /\ pc' = "fetched"
  /\ UNCHANGED <<tries, result, told, parked, wireVars, serverVars, faults>>

Redrive == pc = "fetched" /\ Start("redrive", "sent", Ship) /\ UNCHANGED begun

(* A query or confirm is an ordinary call: on a metadata cache that may know*)
(* the module, else after asking the backend to describe it.                *)
Ask(o, t) ==
  /\ t \in {"T", UnitType}
  /\ Begin
  /\ Start(o, "sent", Request(o, t)) \/ Start(o, "describing", Describe)

Query(t) == Ask("query", t)

(* COMMITTED: "Confirm event may be sent."                                  *)
Confirm(t) ==
  /\ result = "ok" \/ told = "COMMITTED" \/ EarlyConfirm
  /\ Ask("confirm", t)

Finish(r) ==
  /\ op' = "none" /\ pc' = "out" /\ result' = r
  /\ UNCHANGED <<tries, parked>>

(* Only an exception or a return code but 0 is raised; an empty reply has   *)
(* neither.                                                                 *)
Refusals == {"executed", "failure"}

(* A reply that describes nothing makes a function without parameters: the  *)
(* unit's are dropped from the request.                                     *)
TakeDescription(t) ==
  /\ pc = "describing" /\ t \in {"T", UnitType}
  /\ toClient # <<>>
  /\ toClient' = Tail(toClient)
  /\ LET reply == Head(toClient) IN
       \/ reply \in Refusals /\ Finish(result) /\ UNCHANGED toServer
       \/ /\ reply \notin Refusals
          /\ pc' = "sent" /\ UNCHANGED <<op, tries, result, parked>>
          /\ toServer' = IF link # "up" THEN toServer
                         ELSE Append(toServer, IF reply = "described"
                                               THEN Request(op, t) ELSE Unnamed)
  /\ UNCHANGED <<told, link, lapsed, misled, late, serverVars, begun, faults>>

(* A state answer has return code 0 like any success; only get_unit_state   *)
(* looks for the state in it, and raises when there is none.  An empty reply*)
(* is a success of a ship; for a query or confirm see AskUnanswered.        *)
TakeReply ==
  /\ pc = "sent"
  /\ toClient # <<>>
  /\ toClient' = Tail(toClient)
  /\ LET reply == Head(toClient)
         ok == reply \notin Refusals IN
       /\ \/ /\ op = "redrive" /\ ok
             /\ pc' = "unparking"
             /\ UNCHANGED <<op, tries, result, told, parked>>
          \/ op = "ship" /\ ok /\ Finish("ok") /\ UNCHANGED told
          \/ op \in {"ship", "redrive"} /\ ~ok /\ Finish("failed") /\ UNCHANGED told
          \/ op = "query" /\ reply # "empty" /\ Finish(result)
                          /\ told' = IF reply \in UnitStates THEN reply ELSE told
          \/ op = "confirm" /\ reply # "empty" /\ Finish(result) /\ UNCHANGED told
       /\ misled' = (misled \/ reply = "empty")
  /\ UNCHANGED <<link, lapsed, toServer, late, serverVars, begun, faults>>

Unpark ==
  /\ pc = "unparking"
  /\ op' = "none" /\ pc' = "out" /\ result' = "ok" /\ parked' = FALSE
  /\ UNCHANGED <<tries, told, wireVars, serverVars, begun, faults>>

(* What was sent may still be served; nobody reads the answers.             *)
Abandon ==
  /\ late' = late \union {toServer[i] : i \in 1..Len(toServer)}
  /\ toServer' = <<>>
  /\ playing' = IF playing = "live" THEN "orphan" ELSE playing

(* The connection works and the answer is still to come.                    *)
Due == link = "up" /\ (toServer # <<>> \/ playing = "live")

(* No answer comes; or not in time, or none that can be read: a fault.      *)
NoReply == IF toClient = <<>> /\ ~Due THEN UNCHANGED faults ELSE Fault

PassOver == toClient' = IF toClient = <<>> THEN toClient ELSE Tail(toClient)

(* A ship is retried on the same connection, then parked, given a store.    *)
ShipUnanswered ==
  /\ pc = "sent" /\ op \in {"ship", "redrive"}
  /\ NoReply /\ PassOver
  /\ \/ tries < MaxRetries /\ tries' = tries + 1 /\ pc' = "backoff"
                           /\ UNCHANGED <<op, result, parked>>
     \/ tries = MaxRetries /\ op' = "none" /\ pc' = "out"
                           /\ result' = "exhausted" /\ parked' = Stored
                           /\ UNCHANGED tries
  /\ lapsed' = (lapsed \/ Due)
  /\ UNCHANGED <<told, link, misled, toServer, late, serverVars, begun>>

(* The frames of the reply do not join: a ValueError, which is neither      *)
(* retried nor parked.                                                      *)
ShipBreaksOff ==
  /\ pc = "sent" /\ op \in {"ship", "redrive"}
  /\ toClient # <<>> /\ Fault /\ PassOver
  /\ Finish("failed")
  /\ UNCHANGED <<told, link, lapsed, misled, toServer, late, serverVars, begun>>

Resend ==
  /\ pc = "backoff"
  /\ pc' = "sent"
  /\ toServer' = IF link = "up" THEN Append(toServer, Ship) ELSE toServer
  /\ UNCHANGED <<op, tries, result, told, parked, link, lapsed, misled, toClient,
                 late, serverVars, begun, faults>>

(* The request for a description is not guarded as the call itself is: its  *)
(* failure leaves the connection in use.                                    *)
DescriptionUnanswered ==
  /\ pc = "describing"
  /\ NoReply /\ PassOver
  /\ Finish(result)
  /\ lapsed' = (lapsed \/ Due)
  /\ UNCHANGED <<told, link, misled, toServer, late, serverVars, begun>>

(* Mutant: an unanswered query leaves its connection in use.                *)
AskUnansweredStays ==
  /\ pc = "sent" /\ op \in Asks
  /\ NoReply /\ PassOver
  /\ Finish(result)
  /\ UNCHANGED <<told, link, lapsed, misled, toServer, late, serverVars, begun>>

(* A failure of the query or confirm itself retires the connection; so does *)
(* a reply without a return code.                                           *)
AskUnanswered ==
  /\ pc = "sent" /\ op \in Asks
  /\ IF toClient # <<>> /\ Head(toClient) = "empty" THEN UNCHANGED faults
                                                    ELSE NoReply
  /\ Finish(result)
  /\ link' = "retired" /\ toClient' = <<>>
  /\ Abandon
  /\ UNCHANGED <<told, lapsed, misled, store, done, runs, begun>>

Disconnect ==
  /\ Fault
  /\ pc # "out" /\ link = "up"
  /\ link' = "dead" /\ toClient' = <<>>
  /\ Abandon
  /\ UNCHANGED <<senderVars, lapsed, misled, store, done, runs, begun>>

(* The gateway aborts the conversation: what it last sends is a frame header*)
(* without a body.                                                          *)
GatewayAborts ==
  /\ Fault
  /\ pc # "out" /\ link = "up"
  /\ link' = "dead" /\ toClient' = Append(toClient, "empty")
  /\ Abandon
  /\ UNCHANGED <<senderVars, lapsed, misled, store, done, runs, begun>>

-----------------------------------------------------------------------------
(* The server                                                               *)

(* The next request of the connection, or one that was long under way.      *)
Takes(kind, t, from) ==
  /\ playing = "no"
  /\ \/ /\ from = "live" /\ toServer # <<>>
        /\ Head(toServer) = Request(kind, t)
        /\ toServer' = Tail(toServer) /\ UNCHANGED late
     \/ /\ from = "orphan" /\ Request(kind, t) \in late
        /\ late' = late \ {Request(kind, t)} /\ UNCHANGED toServer
  /\ UNCHANGED <<senderVars, link, lapsed, misled, begun, faults>>

Answer(from, m) ==
  toClient' = IF from = "live" THEN Append(toClient, m) ELSE toClient

(* check_unit: a unit COMMITTED or CONFIRMED is not played back again.      *)
ShipKnown(from) ==
  /\ Takes("ship", UnitType, from)
  /\ store[UnitType] \in {"COMMITTED", "CONFIRMED"}
  /\ Answer(from, "executed")
  /\ UNCHANGED serverVars

(* Mutant: the store is not asked.                                          *)
PersistUnchecked(from) ==
  /\ Takes("ship", UnitType, from)
  /\ store' = [store EXCEPT ![UnitType] = "IN_PROCESS"]
  /\ playing' = from /\ done' = 0
  /\ UNCHANGED <<runs, toClient>>

Persist(from) ==
  /\ Takes("ship", UnitType, from)
  /\ store[UnitType] \notin {"COMMITTED", "CONFIRMED"}
  /\ store' = [store EXCEPT ![UnitType] = "IN_PROCESS"]
  /\ playing' = from /\ done' = 0
  /\ UNCHANGED <<runs, toClient>>

(* The handler is called, never awaited.                                    *)
PlayCall ==
  /\ playing # "no" /\ done < Calls
  /\ done' = done + 1
  /\ runs' = IF Coroutines THEN runs ELSE [runs EXCEPT ![done + 1] = @ + 1]
  /\ UNCHANGED <<senderVars, wireVars, store, playing, begun, faults>>

(* Mutant: a call that fails is passed over.                                *)
CallPassedOver ==
  /\ playing # "no" /\ done < Calls
  /\ Fault
  /\ done' = done + 1
  /\ UNCHANGED <<senderVars, wireVars, store, playing, runs, begun>>

(* The call count does not parse, or the next call is missing, empty,       *)
(* undecodable or unknown, or its handler raises: the playback stops there. *)
(* The store is left IN_PROCESS.                                            *)
CallFails ==
  /\ playing # "no" /\ done < Calls
  /\ Fault
  /\ Answer(playing, "failure")
  /\ playing' = "no"
  /\ UNCHANGED <<senderVars, link, lapsed, misled, toServer, late, store, done,
                 runs, begun>>

(* All calls were played: confirmed in the store, whatever on_commit does,  *)
(* and answered.                                                            *)
Commit ==
  /\ playing # "no" /\ done = Calls
  /\ store' = [store EXCEPT ![UnitType] = "CONFIRMED"]
  /\ Answer(playing, "ok")
  /\ playing' = "no"
  /\ UNCHANGED <<senderVars, link, lapsed, misled, toServer, late, done, runs,
                 begun, faults>>

(* A unit the store does not know is CONFIRMED like any other.              *)
AnswerConfirm(t, from) ==
  /\ Takes("confirm", t, from)
  /\ store' = [store EXCEPT ![t] = "CONFIRMED"]
  /\ Answer(from, "ok")
  /\ UNCHANGED <<playing, done, runs>>

AnswerQuery(t, from) ==
  /\ Takes("query", t, from)
  /\ Answer(from, store[t])
  /\ UNCHANGED serverVars

(* "invalid or missing BGRFC_UNIT_ID".                                      *)
AnswerUnnamed(from) ==
  /\ Takes("unnamed", "T", from)
  /\ Answer(from, "failure")
  /\ UNCHANGED serverVars

(* An RfcServer describes itself only if somebody registered the module.    *)
AnswerDescribe(from) ==
  /\ Takes("describe", "T", from)
  /\ Answer(from, "described") \/ Answer(from, "failure")
  /\ UNCHANGED serverVars

PlaybackPoint ==
  IF playing = "no" THEN "idle" ELSE IF done < Calls THEN "playing" ELSE "played"

(* The process dies with its connections and is started again.              *)
Crash ==
  /\ PlaybackPoint \in CrashAt
  /\ Fault
  /\ link' = IF link = "up" THEN "dead" ELSE link
  /\ toServer' = <<>> /\ toClient' = <<>>
  /\ store' = IF Durable THEN store ELSE [t \in Types |-> "NOT_FOUND"]
  /\ playing' = "no"
  /\ UNCHANGED <<senderVars, lapsed, misled, late, done, runs, begun>>

-----------------------------------------------------------------------------
SenderStep ==
  \/ Redrive \/ TakeReply \/ Unpark \/ ShipUnanswered \/ ShipBreaksOff \/ Resend
  \/ (\E t \in Types : TakeDescription(t)) \/ DescriptionUnanswered
  \/ AskUnanswered

ServerStep ==
  \/ \E from \in {"live", "orphan"} :
       \/ ShipKnown(from) \/ Persist(from)
       \/ AnswerUnnamed(from) \/ AnswerDescribe(from)
       \/ \E t \in Types : AnswerConfirm(t, from) \/ AnswerQuery(t, from)
  \/ PlayCall \/ CallFails \/ Commit

Next ==
  \/ Submit \/ Fetch
  \/ \E t \in Types : Query(t) \/ Confirm(t)
  \/ SenderStep \/ Disconnect \/ GatewayAborts
  \/ ServerStep \/ Crash

Spec == Init /\ [][Next]_vars

-----------------------------------------------------------------------------
Requests == [kind : {"ship", "query", "confirm", "describe", "unnamed"},
             type : Types]
Replies == {"ok", "executed", "failure", "described", "empty"} \union UnitStates

TypeOK ==
  /\ op \in {"none", "ship", "redrive", "query", "confirm"}
  /\ pc \in {"out", "fetched", "describing", "sent", "backoff", "unparking"}
  /\ pc = "describing" => op \in Asks
  /\ tries \in 0..MaxRetries
  /\ result \in {"none", "ok", "failed", "exhausted"}
  /\ told \in UnitStates \union {"none"}
  /\ parked \in BOOLEAN /\ link \in {"up", "dead", "retired"}
  /\ lapsed \in BOOLEAN /\ misled \in BOOLEAN
  /\ toServer \in Seq(Requests) /\ toClient \in Seq(Replies)
  /\ late \subseteq Requests
  /\ store \in [Types -> UnitStates]
  /\ playing \in {"no", "live", "orphan"}
  /\ done \in 0..Calls
  /\ runs \in [1..Calls -> Nat]
  /\ begun \in 0..MaxOps /\ faults \in 0..MaxFaults

Ran == runs[Calls] > 0

(* "A unit is one LUW": it is played back to its end at most once, however  *)
(* often and over whichever connections it is shipped, parked, re-driven,   *)
(* confirmed and looked up.                                                 *)
PlayedOnce == runs[Calls] <= 1

(* A sender that was told its unit is done, by the answer to its ship, by   *)
(* RFC_EXECUTED or by a state query, or is about to be: every call ran.     *)
DoneMeansRan ==
  \/ Ran
  \/ /\ result # "ok" /\ told \notin {"COMMITTED", "CONFIRMED"}
     /\ \A i \in 1..Len(toClient) :
          toClient[i] \notin {"ok", "executed", "COMMITTED", "CONFIRMED"}

(* The same, but where a ship or a request for a description was given up  *)
(* unguarded, so that the next answer read may be the one to an earlier     *)
(* request, or a ship was answered without a return code.                   *)
InDoubt == lapsed \/ misled
DoneMeansRanUnlessInDoubt == InDoubt \/ DoneMeansRan

(* "execution stops at the first error rather than carrying on": no call of *)
(* the unit runs more often than the one before it.                         *)
InOrder == \A i \in 1..(Calls - 1) : runs[i + 1] <= runs[i]

(* What the application may rely on (DeliveryContract.tla): one party, and  *)
(* the unit done when its last call was played.                             *)
Contract ==
  INSTANCE DeliveryContract WITH
    Parties <- {"sender"}, said <- [p \in {"sender"} |-> result],
    kept <- parked, done <- runs[Calls], doubt <- InDoubt

(* Shipping, retrying, parking and re-driving a unit, over connections that *)
(* also carry queries and confirms, come to one execution and reports of    *)
(* it, true until a read lapses unguarded or an empty reply passes for a    *)
(* success: no success before it, and the payload is in the store from the  *)
(* time the sender gives up until it is told of one (connection.py, the unit*)
(* handle and retry_parked_unit).                                           *)
ImplementsContract == Contract!Spec
=============================================================================
