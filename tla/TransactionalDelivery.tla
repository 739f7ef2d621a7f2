------------------------ MODULE TransactionalDelivery ------------------------
(***************************************************************************)
(* The life of one tRFC transaction ID, from end to end: the client's      *)
(* submit with its retries, parking and re-drive (connection.py), the      *)
(* connections that time out and break, and the receiving server's         *)
(* exactly-once gate over its TID store (server.py, stores.py), which may  *)
(* crash between any two of its steps.                                     *)
(*                                                                         *)
(* Stores are keyed by TID and every step names one, so one TID is enough. *)
(* The clients are connections, of one process or of several, that share   *)
(* the durable store of parked calls; one of them made the call.           *)
(***************************************************************************)
EXTENDS Integers, Sequences

CONSTANTS
  Clients, Submitter, NoClient,
  MaxRetries,      (* max_retries of _submit_with_retry                     *)
  MaxOps,          (* bound on operations begun                             *)
  MaxFaults,       (* bound on timeouts, disconnects, crashes and refusals  *)
  Durable,         (* the server's TidStore outlives its process: the       *)
                   (* SqliteTidStore does, the InMemoryTidStore does not    *)
  CrashAt,         (* steps of the server where its process may die         *)
  ConfirmForgets,  (* ARFC_DEST_CONFIRM drops the TID: an SAP system does,  *)
                   (* RfcServer only acknowledges                           *)
  Stored,          (* the clients were given a tid_store to park calls in   *)
  Strays           (* replies that say nothing of the TID and no error      *)

ServerSteps == {"idle", "received", "ran"}

ASSUME ClientAssumption == Submitter \in Clients /\ NoClient \notin Clients
ASSUME BoundAssumption ==
  MaxRetries \in Nat /\ MaxOps \in Nat /\ MaxFaults \in Nat
ASSUME StoreAssumption == Stored \in BOOLEAN /\ Strays \subseteq {"empty", "other"}
ASSUME ServerAssumption ==
  Durable \in BOOLEAN /\ ConfirmForgets \in BOOLEAN /\ CrashAt \subseteq ServerSteps

VARIABLES
  op,         (* "submit", "redrive", "confirm" or "none", per client       *)
  pc,         (* "out", "fetched", "sent", "backoff" or "unparking"         *)
  tries,      (* attempts so far of the running submission                  *)
  result,     (* how the client's last submission ended                     *)
  down,       (* the client's connection is broken                          *)
  toServer,   (* per client, requests on the wire                           *)
  toClient,   (* per client, replies on the wire                            *)
  parked,     (* the call's bytes are in the client's store                 *)
  misled,     (* a stray reply was taken for the success of a submission    *)
  step,       (* what the server is doing                                   *)
  serving,    (* for whom; NoClient when nobody is left to answer           *)
  tidState,   (* the TID in the server's TidStore                           *)
  effects,    (* times the handler ran to its end                           *)
  begun, faults

clientVars == <<op, pc, tries, result, parked, misled>>
serverVars == <<step, serving, tidState, effects>>
vars == <<op, pc, tries, result, down, toServer, toClient, parked, misled,
          step, serving, tidState, effects, begun, faults>>

Init ==
  /\ op = [c \in Clients |-> "none"]
  /\ pc = [c \in Clients |-> "out"]
  /\ tries = [c \in Clients |-> 0]
  /\ result = [c \in Clients |-> "none"]
  /\ down = [c \in Clients |-> FALSE]
  /\ toServer = [c \in Clients |-> <<>>]
  /\ toClient = [c \in Clients |-> <<>>]
  /\ parked = FALSE /\ misled = FALSE
  /\ step = "idle" /\ serving = NoClient
  /\ tidState = "unknown" /\ effects = 0
  /\ begun = 0 /\ faults = 0

Fault == faults < MaxFaults /\ faults' = faults + 1

-----------------------------------------------------------------------------
(* The client                                                               *)

(* The request goes out on the client's connection, unseen by the server   *)
(* if that is broken, or on a new one.                                      *)
Request(c, m) ==
  \/ /\ ~down[c]
     /\ toServer' = [toServer EXCEPT ![c] = Append(@, m)]
     /\ UNCHANGED <<down, toClient>>
  \/ down[c] /\ UNCHANGED <<down, toServer, toClient>>
  \/ /\ down[c]
     /\ down' = [down EXCEPT ![c] = FALSE]
     /\ toServer' = [toServer EXCEPT ![c] = <<m>>]
     /\ toClient' = [toClient EXCEPT ![c] = <<>>]

Start(c, o) ==
  /\ op' = [op EXCEPT ![c] = o]
  /\ pc' = [pc EXCEPT ![c] = "sent"]
  /\ tries' = [tries EXCEPT ![c] = 0]
  /\ Request(c, IF o = "confirm" THEN "confirm" ELSE "ship")
  /\ UNCHANGED <<result, parked, misled, serverVars, faults>>

Begin(c) == pc[c] = "out" /\ begun < MaxOps /\ begun' = begun + 1

(* A first submit, or the same TID again, which the documentation allows    *)
(* after a communication error only.                                        *)
Submit ==
  /\ result[Submitter] \in {"none", "exhausted"}
  /\ Begin(Submitter)
  /\ Start(Submitter, "submit")

(* retry_parked looks the bytes up in the store, in a thread of its own,    *)
(* before it asks for the connection's lock.                                *)
Fetch(c) ==
  /\ parked
  /\ Begin(c)
  /\ pc' = [pc EXCEPT ![c] = "fetched"]
  /\ op' = [op EXCEPT ![c] = "redrive"]
  /\ UNCHANGED <<tries, result, down, toServer, toClient, parked, misled,
                 serverVars, faults>>

Redrive(c) == pc[c] = "fetched" /\ Start(c, "redrive") /\ UNCHANGED begun

(* confirm_tid: "only after successful submit".                             *)
Confirm(c) == result[c] = "ok" /\ Begin(c) /\ Start(c, "confirm")

Finish(c, r) ==
  /\ op' = [op EXCEPT ![c] = "none"]
  /\ pc' = [pc EXCEPT ![c] = "out"]
  /\ result' = [result EXCEPT ![c] = r]
  /\ UNCHANGED tries

(* raise_for_rfc_error looks for an exception and for a return code but 0: *)
(* a reply with neither, like the gateway's header without a body, or one   *)
(* to another operation that succeeded, passes for this one's success.      *)
Strange == {"empty", "other"}
Successes == {"ok"} \union Strange

(* Mutant: any reply is taken for a success, its return code unread.        *)
TakeReplyUnread(c) ==
  /\ pc[c] = "sent"
  /\ toClient[c] # <<>>
  /\ toClient' = [toClient EXCEPT ![c] = Tail(@)]
  /\ misled' = (misled \/ (op[c] # "confirm" /\ Head(toClient[c]) \in Strange))
  /\ \/ op[c] = "redrive" /\ pc' = [pc EXCEPT ![c] = "unparking"]
                          /\ UNCHANGED <<op, tries, result>>
     \/ op[c] = "submit" /\ Finish(c, "ok")
     \/ op[c] = "confirm" /\ Finish(c, "confirmed")
  /\ UNCHANGED <<down, toServer, parked, serverVars, begun, faults>>

(* The next reply on the connection is the answer.  Any return code but 0,  *)
(* RFC_EXECUTED included, is raised as AbapSystemFailure.                   *)
TakeReply(c) ==
  /\ pc[c] = "sent"
  /\ toClient[c] # <<>>
  /\ toClient' = [toClient EXCEPT ![c] = Tail(@)]
  /\ misled' = (misled \/ (op[c] # "confirm" /\ Head(toClient[c]) \in Strange))
  /\ LET ok == Head(toClient[c]) \in Successes IN
       \/ op[c] = "redrive" /\ ok /\ pc' = [pc EXCEPT ![c] = "unparking"]
                                  /\ UNCHANGED <<op, tries, result>>
       \/ op[c] = "submit" /\ ok /\ Finish(c, "ok")
       \/ op[c] = "confirm" /\ ok /\ Finish(c, "confirmed")
       \/ op[c] = "confirm" /\ ~ok /\ Finish(c, result[c])
       \/ op[c] # "confirm" /\ ~ok /\ Finish(c, "failed")
  /\ UNCHANGED <<down, toServer, parked, serverVars, begun, faults>>

(* The frames of the reply do not join: one calls itself the last too early,*)
(* one is empty, or they are too many.  That ValueError is no               *)
(* CommunicationError: the call is neither sent again nor parked.           *)
ReplyBreaksOff(c) ==
  /\ pc[c] = "sent"
  /\ toClient[c] # <<>>
  /\ Fault
  /\ toClient' = [toClient EXCEPT ![c] = Tail(@)]
  /\ Finish(c, IF op[c] = "confirm" THEN result[c] ELSE "raised")
  /\ UNCHANGED <<down, toServer, parked, misled, serverVars, begun>>

(* delete_parked, in a thread of its own after the lock was released.       *)
Unpark(c) ==
  /\ pc[c] = "unparking"
  /\ Finish(c, "ok")
  /\ parked' = FALSE
  /\ UNCHANGED <<down, toServer, toClient, misled, serverVars, begun, faults>>

(* The connection is broken; or the read times out, too early when the      *)
(* answer is still to come; or the reply does not parse as one.             *)
Awaited(c) == toServer[c] # <<>> \/ (step # "idle" /\ serving = c)

CommunicationError(c) ==
  \/ down[c] /\ UNCHANGED <<toClient, faults>>
  \/ /\ ~down[c] /\ toClient[c] = <<>>
     /\ IF Awaited(c) THEN Fault ELSE UNCHANGED faults
     /\ UNCHANGED toClient
  \/ /\ toClient[c] # <<>> /\ Fault
     /\ toClient' = [toClient EXCEPT ![c] = Tail(@)]

(* Mutant: the last attempt's failure is raised without parking the call.   *)
AttemptFailsUnparked(c) ==
  /\ pc[c] = "sent"
  /\ CommunicationError(c)
  /\ \/ /\ op[c] # "confirm" /\ tries[c] < MaxRetries
        /\ tries' = [tries EXCEPT ![c] = @ + 1]
        /\ pc' = [pc EXCEPT ![c] = "backoff"]
        /\ UNCHANGED <<op, result, parked>>
     \/ /\ op[c] # "confirm" /\ tries[c] = MaxRetries
        /\ Finish(c, "exhausted")
        /\ UNCHANGED parked
     \/ op[c] = "confirm" /\ Finish(c, result[c]) /\ UNCHANGED parked
  /\ UNCHANGED <<down, toServer, misled, serverVars, begun>>

(* Retried up to max_retries times; then the bytes are parked, if there is a*)
(* store.                                                                   *)
AttemptFails(c) ==
  /\ pc[c] = "sent"
  /\ CommunicationError(c)
  /\ \/ /\ op[c] # "confirm" /\ tries[c] < MaxRetries
        /\ tries' = [tries EXCEPT ![c] = @ + 1]
        /\ pc' = [pc EXCEPT ![c] = "backoff"]
        /\ UNCHANGED <<op, result, parked>>
     \/ /\ op[c] # "confirm" /\ tries[c] = MaxRetries
        /\ Finish(c, "exhausted")
        /\ parked' = Stored
     \/ op[c] = "confirm" /\ Finish(c, result[c]) /\ UNCHANGED parked
  /\ UNCHANGED <<down, toServer, misled, serverVars, begun>>

(* Mutant: a broken connection is waited for.                               *)
ResendWaits(c) ==
  /\ pc[c] = "backoff"
  /\ ~down[c]
  /\ pc' = [pc EXCEPT ![c] = "sent"]
  /\ toServer' = [toServer EXCEPT ![c] = Append(@, "ship")]
  /\ UNCHANGED <<op, tries, result, down, toClient, parked, misled, serverVars,
                 begun, faults>>

(* The same bytes on the same connection.                                   *)
Resend(c) ==
  /\ pc[c] = "backoff"
  /\ pc' = [pc EXCEPT ![c] = "sent"]
  /\ toServer' = IF down[c] THEN toServer
                 ELSE [toServer EXCEPT ![c] = Append(@, "ship")]
  /\ UNCHANGED <<op, tries, result, down, toClient, parked, misled, serverVars,
                 begun, faults>>

-----------------------------------------------------------------------------
(* Connections                                                              *)

Drop(S) ==
  /\ down' = [c \in Clients |-> down[c] \/ (c \in S /\ pc[c] # "out")]
  /\ toServer' = [c \in Clients |-> IF c \in S THEN <<>> ELSE toServer[c]]
  /\ toClient' = [c \in Clients |-> IF c \in S THEN <<>> ELSE toClient[c]]

(* What is on the wire is lost; a request already taken is still served.    *)
Disconnect(c) ==
  /\ Fault
  /\ pc[c] # "out" /\ ~down[c]
  /\ Drop({c})
  /\ serving' = IF serving = c THEN NoClient ELSE serving
  /\ UNCHANGED <<clientVars, step, tidState, effects, begun>>

(* The gateway aborts the conversation: what it last sends is a frame header*)
(* without a body.                                                          *)
GatewayAborts(c) ==
  /\ "empty" \in Strays
  /\ Fault
  /\ pc[c] # "out" /\ ~down[c]
  /\ down' = [down EXCEPT ![c] = TRUE]
  /\ toServer' = [toServer EXCEPT ![c] = <<>>]
  /\ toClient' = [toClient EXCEPT ![c] = Append(@, "empty")]
  /\ serving' = IF serving = c THEN NoClient ELSE serving
  /\ UNCHANGED <<clientVars, step, tidState, effects, begun>>

(* While nobody has the lock for this TID: another operation is sent on the *)
(* connection, times out, and leaves it READY with its reply to come.       *)
OtherLapses(c) ==
  /\ "other" \in Strays
  /\ Fault
  /\ pc[c] \notin {"sent", "backoff"} /\ ~down[c]
  /\ toServer' = [toServer EXCEPT ![c] = Append(@, "other")]
  /\ UNCHANGED <<clientVars, down, toClient, serverVars, begun>>

-----------------------------------------------------------------------------
(* The server: one request at a time, also in AsyncRfcServer, whose         *)
(* transactional dispatch does not await.                                   *)

Reply(c, m) ==
  toClient' = IF c = NoClient THEN toClient
              ELSE [toClient EXCEPT ![c] = Append(@, m)]

Receives(c, kind) ==
  /\ step = "idle"
  /\ toServer[c] # <<>>
  /\ Head(toServer[c]) = kind
  /\ toServer' = [toServer EXCEPT ![c] = Tail(@)]
  /\ UNCHANGED <<clientVars, down, effects, begun, faults>>

(* check_transaction: a TID that was executed is answered RFC_EXECUTED.     *)
AnswerDuplicate(c) ==
  /\ Receives(c, "ship")
  /\ tidState = "executed"
  /\ Reply(c, "executed")
  /\ UNCHANGED <<step, serving, tidState>>

(* Mutant: the TID is not looked up.                                        *)
AcceptUnchecked(c) ==
  /\ Receives(c, "ship")
  /\ tidState' = "received"
  /\ step' = "received"
  /\ serving' = c
  /\ UNCHANGED toClient

(* mark_received, before the handler.                                       *)
Accept(c) ==
  /\ Receives(c, "ship")
  /\ tidState # "executed"
  /\ tidState' = "received"
  /\ step' = "received"
  /\ serving' = c
  /\ UNCHANGED toClient

AnswerConfirm(c) ==
  /\ Receives(c, "confirm")
  /\ tidState' = IF ConfirmForgets THEN "unknown" ELSE tidState
  /\ Reply(c, "ok")
  /\ UNCHANGED <<step, serving>>

(* Another operation, that succeeds.                                        *)
AnswerOther(c) ==
  /\ Receives(c, "other")
  /\ Reply(c, "other")
  /\ UNCHANGED <<step, serving, tidState>>

HandlerRuns ==
  /\ step = "received"
  /\ step' = "ran"
  /\ effects' = effects + 1
  /\ UNCHANGED <<clientVars, down, toServer, toClient, serving, tidState,
                 begun, faults>>

(* No handler, or it raises: rolled back, SYSTEM_FAILURE.                   *)
HandlerRefuses ==
  /\ step = "received"
  /\ Fault
  /\ step' = "idle" /\ serving' = NoClient
  /\ tidState' = "rolled_back"
  /\ Reply(serving, "failure")
  /\ UNCHANGED <<clientVars, down, toServer, effects, begun>>

(* The request cannot be deserialized: the exception ends the dispatch with *)
(* the TID received and no reply.                                           *)
Undecodable ==
  /\ step = "received"
  /\ Fault
  /\ step' = "idle" /\ serving' = NoClient
  /\ UNCHANGED <<clientVars, down, toServer, toClient, tidState, effects,
                 begun>>

(* mark_executed and the reply.                                             *)
Commit ==
  /\ step = "ran"
  /\ step' = "idle" /\ serving' = NoClient
  /\ tidState' = "executed"
  /\ Reply(serving, "ok")
  /\ UNCHANGED <<clientVars, down, toServer, effects, begun, faults>>

(* The process dies, every connection with it, and is started again.        *)
Crash ==
  /\ step \in CrashAt
  /\ Fault
  /\ step' = "idle" /\ serving' = NoClient
  /\ tidState' = IF Durable THEN tidState ELSE "unknown"
  /\ Drop(Clients)
  /\ UNCHANGED <<clientVars, effects, begun>>

-----------------------------------------------------------------------------
ClientStep(c) ==
  \/ Redrive(c) \/ TakeReply(c) \/ ReplyBreaksOff(c) \/ Unpark(c)
  \/ AttemptFails(c) \/ Resend(c)

ServerStep ==
  \/ \E c \in Clients : \/ AnswerDuplicate(c) \/ Accept(c)
                        \/ AnswerConfirm(c) \/ AnswerOther(c)
  \/ HandlerRuns \/ HandlerRefuses \/ Undecodable \/ Commit

Next ==
  \/ Submit
  \/ \E c \in Clients : \/ Fetch(c) \/ Confirm(c)
                        \/ ClientStep(c) \/ Disconnect(c)
                        \/ GatewayAborts(c) \/ OtherLapses(c)
  \/ ServerStep
  \/ Crash

Spec == Init /\ [][Next]_vars

(* Each client's task runs, and its read has a timeout; the server serves.  *)
Fairness == WF_vars(ServerStep) /\ \A c \in Clients : WF_vars(ClientStep(c))

FairSpec == Spec /\ Fairness

-----------------------------------------------------------------------------
Requests == {"ship", "confirm", "other"}
Replies == {"ok", "executed", "failure", "empty", "other"}

TypeOK ==
  /\ op \in [Clients -> {"none", "submit", "redrive", "confirm"}]
  /\ pc \in [Clients -> {"out", "fetched", "sent", "backoff", "unparking"}]
  /\ tries \in [Clients -> 0..MaxRetries]
  /\ result \in [Clients -> {"none", "ok", "failed", "raised", "exhausted",
                            "confirmed"}]
  /\ down \in [Clients -> BOOLEAN]
  /\ toServer \in [Clients -> Seq(Requests)]
  /\ toClient \in [Clients -> Seq(Replies)]
  /\ parked \in BOOLEAN /\ misled \in BOOLEAN
  /\ step \in ServerSteps
  /\ serving \in Clients \union {NoClient}
  /\ (step = "idle") => (serving = NoClient)
  /\ tidState \in {"unknown", "received", "executed", "rolled_back"}
  /\ effects \in Nat
  /\ begun \in 0..MaxOps /\ faults \in 0..MaxFaults

(* "Exactly-once semantics via the SAME tid": however often the call is     *)
(* sent, re-driven or confirmed, and by whom, the handler runs at most once.*)
AtMostOnce == effects <= 1

(* "exactly-once delivery is signaled by absence of exception": a           *)
(* submission that returned without an error was executed.                  *)
OkMeansExecuted ==
  \A c \in Clients : result[c] \in {"ok", "confirmed"} => effects > 0

(* It was, unless its reply, or that of another submission of the TID, bore *)
(* no return code or belonged to another operation: a late reply to an      *)
(* earlier attempt, a confirm or a re-drive is never taken for a success    *)
(* too early.                                                               *)
OkMeansExecutedUnlessMisled == misled \/ OkMeansExecuted

(* RetryExhausted loses nothing, given a tid_store: a call that was given up*)
(* for want of an answer is in the store for a re-drive, or was executed;   *)
(* but for re-drives that drop it on a stray reply.                         *)
NothingLost ==
  Stored => \A c \in Clients :
              result[c] = "exhausted" => parked \/ effects > 0 \/ misled

(* Exactly-once "via the SAME tid resent on every retry (backend returns    *)
(* RFC_EXECUTED for known TIDs)": a submission whose call was executed is   *)
(* not reported as refused.                                                 *)
ExecutedIsNotRefused ==
  [][\A c \in Clients :
       result[c] # "failed" /\ result'[c] = "failed" => effects = 0]_vars

(* Every operation ends, whatever is lost, late or down.                    *)
OperationEnds == \A c \in Clients : op[c] # "none" ~> op[c] = "none"

(* What the applications may rely on (DeliveryContract.tla): in doubt once  *)
(* a stray reply was taken for a success.                                   *)
Contract ==
  INSTANCE DeliveryContract WITH
    Parties <- Clients, said <- result, kept <- parked, done <- effects,
    doubt <- misled

(* Submitting, retrying, parking, re-driving and confirming a TID come to   *)
(* an execution, once, and to reports of it: no success before it, no entry *)
(* dropped from the store but by one, no confirm but after one, until a     *)
(* stray reply is taken for a success                                       *)
(* (connection.py, call_transactional, retry_parked and confirm_tid).       *)
ImplementsContract == Contract!Spec
=============================================================================
