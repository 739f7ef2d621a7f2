--------------------- MODULE TransactionalDeliveryProofs ---------------------
(***************************************************************************)
(* Proofs about TransactionalDelivery, for any set of clients and any      *)
(* number of operations, retries and faults.                               *)
(***************************************************************************)
EXTENDS TransactionalDelivery, TLAPS

(* Who may say "ok": a reply, a confirm on its way or a finished submission *)
(* that claims success appears only after the handler ran to its end, until *)
(* a stray reply is taken for a success.                                    *)
Holds(queue, m) == \E i \in 1..Len(queue) : queue[i] = m

Earned ==
  effects = 0 /\ ~misled =>
    /\ step # "ran"
    /\ \A c \in Clients :
         /\ ~Holds(toClient[c], "ok")
         /\ ~Holds(toServer[c], "confirm")
         /\ op[c] # "confirm" /\ pc[c] # "unparking"
         /\ result[c] \notin {"ok", "confirmed"}

DeliveryInv == TypeOK /\ Earned /\ NothingLost

(* The handler has run once at most, and if it has, the TID says executed   *)
(* or the server is about to record it.                                     *)
ExecutedOnce ==
  \/ effects = 0
  \/ effects = 1 /\ (step = "ran" \/ (step = "idle" /\ tidState = "executed"))

(* The server as the documentation wants it run: a durable store, and no    *)
(* crash between the handler and mark_executed.                             *)
Careful == Durable /\ ~ConfirmForgets /\ "ran" \notin CrashAt

-----------------------------------------------------------------------------
(* What Append and Tail do to the messages of a queue.                      *)
LEMMA AppendHolds ==
  ASSUME NEW M, NEW q \in Seq(M), NEW x \in M, NEW m
  PROVE  /\ Append(q, x) \in Seq(M)
         /\ Holds(Append(q, x), m) => Holds(q, m) \/ x = m
  BY DEF Holds

LEMMA TailHolds ==
  ASSUME NEW M, NEW q \in Seq(M), q # <<>>, NEW m
  PROVE  /\ Tail(q) \in Seq(M)
         /\ Head(q) \in M
         /\ Holds(Tail(q), m) => Holds(q, m)
         /\ Head(q) = m => Holds(q, m)
  <1>1. /\ Tail(q) \in Seq(M) /\ Head(q) \in M /\ Head(q) = q[1]
        /\ Len(q) \in Nat /\ Len(q) >= 1 /\ Len(Tail(q)) = Len(q) - 1
    OBVIOUS
  <1>2. ASSUME NEW i \in 1..Len(Tail(q)), Tail(q)[i] = m
        PROVE  Holds(q, m)
    <2>1. i + 1 \in 1..Len(q) /\ q[i + 1] = m
      BY <1>1, <1>2
    <2> QED BY <2>1 DEF Holds
  <1> QED BY <1>1, <1>2 DEF Holds

(* No queue holds a message while it is empty.                              *)
LEMMA EmptyHolds == \A m : ~Holds(<<>>, m)
  BY DEF Holds

-----------------------------------------------------------------------------
(* Replies and disconnections keep the queues well typed.                   *)
LEMMA ReplyType ==
  ASSUME TypeOK, NEW c \in Clients \union {NoClient}, NEW r \in Replies, Reply(c, r)
  PROVE  /\ toClient' \in [Clients -> Seq(Replies)]
         /\ \A d \in Clients, m \in Replies :
               Holds(toClient'[d], m) => Holds(toClient[d], m) \/ m = r
  <1>1. CASE c = NoClient
    BY <1>1 DEF TypeOK, Reply
  <1>2. CASE c # NoClient
    <2>1. c \in Clients /\ toClient' = [toClient EXCEPT ![c] = Append(@, r)]
      BY <1>2 DEF Reply
    <2> QED BY <2>1, AppendHolds, SMTT(30) DEF TypeOK
  <1> QED BY <1>1, <1>2

LEMMA DropType ==
  ASSUME TypeOK, NEW S, Drop(S)
  PROVE  /\ down' \in [Clients -> BOOLEAN]
         /\ toServer' \in [Clients -> Seq(Requests)]
         /\ toClient' \in [Clients -> Seq(Replies)]
         /\ \A c \in Clients, m \in Requests \union Replies :
               /\ Holds(toServer'[c], m) => Holds(toServer[c], m)
               /\ Holds(toClient'[c], m) => Holds(toClient[c], m)
  BY EmptyHolds DEF TypeOK, Drop

-----------------------------------------------------------------------------
(* Type correctness is inductive by itself.                                 *)
LEMMA InitType == Init => TypeOK
  <1> SUFFICES ASSUME Init PROVE TypeOK
    OBVIOUS
  <1>1. /\ toServer \in [Clients -> Seq(Requests)]
        /\ toClient \in [Clients -> Seq(Replies)]
    BY DEF Init
  <1>2. 0 \in 0..MaxRetries /\ 0 \in 0..MaxOps /\ 0 \in 0..MaxFaults
    BY BoundAssumption
  <1> QED
    BY <1>1, <1>2 DEF Init, TypeOK, ServerSteps

(* A request adds itself to the client's queue, at most, and may clear the  *)
(* replies of a broken connection.                                          *)
LEMMA RequestType ==
  ASSUME TypeOK, NEW c \in Clients, NEW m \in Requests, Request(c, m)
  PROVE  /\ down' \in [Clients -> BOOLEAN]
         /\ toServer' \in [Clients -> Seq(Requests)]
         /\ toClient' \in [Clients -> Seq(Replies)]
         /\ \A d \in Clients : \A n :
               /\ Holds(toServer'[d], n) => Holds(toServer[d], n) \/ n = m
               /\ Holds(toClient'[d], n) => Holds(toClient[d], n)
  <1>1. CASE /\ toServer' = [toServer EXCEPT ![c] = Append(@, m)]
             /\ UNCHANGED <<down, toClient>>
    <2>1. /\ toServer[c] \in Seq(Requests)
          /\ Append(toServer[c], m) \in Seq(Requests)
          /\ \A n : Holds(Append(toServer[c], m), n) => Holds(toServer[c], n) \/ n = m
      BY AppendHolds DEF TypeOK
    <2> QED BY <1>1, <2>1 DEF TypeOK
  <1>2. CASE UNCHANGED <<down, toServer, toClient>>
    BY <1>2 DEF TypeOK
  <1>3. CASE /\ down' = [down EXCEPT ![c] = FALSE]
             /\ toServer' = [toServer EXCEPT ![c] = <<m>>]
             /\ toClient' = [toClient EXCEPT ![c] = <<>>]
    <2>1. /\ <<m>> \in Seq(Requests)
          /\ \A n : Holds(<<m>>, n) => n = m
      BY DEF Holds
    <2>2. <<>> \in Seq(Replies)
      OBVIOUS
    <2> QED BY <1>3, <2>1, <2>2, EmptyHolds DEF TypeOK
  <1> QED BY <1>1, <1>2, <1>3 DEF Request

LEMMA StartType ==
  ASSUME TypeOK, NEW c \in Clients, NEW o \in {"submit", "redrive", "confirm"},
         Start(c, o), begun' \in 0..MaxOps
  PROVE  TypeOK'
  <1>1. /\ down' \in [Clients -> BOOLEAN]
        /\ toServer' \in [Clients -> Seq(Requests)]
        /\ toClient' \in [Clients -> Seq(Replies)]
    BY RequestType DEF Start, Requests
  <1>2. /\ op' \in [Clients -> {"none", "submit", "redrive", "confirm"}]
        /\ pc' \in [Clients -> {"out", "fetched", "sent", "backoff", "unparking"}]
        /\ tries' \in [Clients -> 0..MaxRetries]
    BY BoundAssumption DEF TypeOK, Start
  <1> QED
    BY <1>1, <1>2 DEF TypeOK, Start, serverVars

LEMMA ClientType ==
  ASSUME TypeOK, NEW c \in Clients, ClientStep(c)
  PROVE  TypeOK'
  <1>1. CASE Redrive(c)
    BY <1>1, StartType DEF Redrive, TypeOK
  <1>2. CASE TakeReply(c)
    <2>1. toClient' \in [Clients -> Seq(Replies)]
      BY <1>2, TailHolds DEF TypeOK, TakeReply
    <2> QED
      BY <1>2, <2>1 DEF TypeOK, TakeReply, Finish, serverVars
  <1>3. CASE Unpark(c)
    BY <1>3 DEF TypeOK, Unpark, Finish, serverVars
  <1>6. CASE ReplyBreaksOff(c)
    <2>1. toClient' \in [Clients -> Seq(Replies)]
      BY <1>6, TailHolds DEF TypeOK, ReplyBreaksOff
    <2>2. faults' \in 0..MaxFaults
      BY <1>6, BoundAssumption DEF ReplyBreaksOff, Fault, TypeOK
    <2> QED
      BY <1>6, <2>1, <2>2 DEF TypeOK, ReplyBreaksOff, Finish, serverVars
  <1>4. CASE AttemptFails(c)
    <2>1. CommunicationError(c)
      BY <1>4 DEF AttemptFails
    <2>2. toClient' \in [Clients -> Seq(Replies)]
      <3>1. CASE toClient' = toClient
        BY <3>1 DEF TypeOK
      <3>2. CASE toClient[c] # <<>> /\ toClient' = [toClient EXCEPT ![c] = Tail(@)]
        BY <3>2, TailHolds DEF TypeOK
      <3> QED BY <2>1, <3>1, <3>2 DEF CommunicationError
    <2>3. faults' = faults \/ Fault
      BY <2>1 DEF CommunicationError
    <2>4. faults' \in 0..MaxFaults
      BY <2>3, BoundAssumption DEF TypeOK, Fault
    <2>5. \/ tries' = tries
          \/ tries[c] < MaxRetries /\ tries' = [tries EXCEPT ![c] = @ + 1]
      BY <1>4 DEF AttemptFails, Finish
    <2>6. tries' \in [Clients -> 0..MaxRetries]
      <3>1. CASE tries' = tries
        BY <3>1 DEF TypeOK
      <3>2. CASE tries[c] < MaxRetries /\ tries' = [tries EXCEPT ![c] = @ + 1]
        <4>1. tries[c] + 1 \in 0..MaxRetries
          BY <3>2, BoundAssumption DEF TypeOK
        <4> QED BY <3>2, <4>1 DEF TypeOK
      <3> QED BY <2>5, <3>1, <3>2
    <2> QED
      BY <1>4, <2>2, <2>4, <2>6, StoreAssumption
      DEF TypeOK, AttemptFails, Finish, serverVars
  <1>5. CASE Resend(c)
    <2>1. toServer' \in [Clients -> Seq(Requests)]
      BY <1>5 DEF TypeOK, Resend, Requests
    <2> QED
      BY <1>5, <2>1 DEF TypeOK, Resend, serverVars
  <1> QED BY <1>1, <1>2, <1>3, <1>4, <1>5, <1>6 DEF ClientStep

LEMMA ReceivesType ==
  ASSUME TypeOK, NEW c \in Clients, NEW kind, Receives(c, kind)
  PROVE  toServer' \in [Clients -> Seq(Requests)]
  BY TailHolds DEF TypeOK, Receives

LEMMA ServerType ==
  ASSUME TypeOK, ServerStep
  PROVE  TypeOK'
  <1>1. ASSUME NEW c \in Clients, AnswerDuplicate(c) PROVE TypeOK'
    <2>1. toClient' \in [Clients -> Seq(Replies)]
      BY <1>1, ReplyType DEF AnswerDuplicate, Replies
    <2> QED
      BY <1>1, <2>1, ReceivesType DEF TypeOK, AnswerDuplicate, Receives, clientVars
  <1>2. ASSUME NEW c \in Clients, Accept(c) PROVE TypeOK'
    BY <1>2, ReceivesType DEF TypeOK, Accept, Receives, clientVars, ServerSteps
  <1>3. ASSUME NEW c \in Clients, AnswerConfirm(c) PROVE TypeOK'
    <2>1. toClient' \in [Clients -> Seq(Replies)]
      BY <1>3, ReplyType DEF AnswerConfirm, Replies
    <2> QED
      BY <1>3, <2>1, ReceivesType DEF TypeOK, AnswerConfirm, Receives, clientVars
  <1>8. ASSUME NEW c \in Clients, AnswerOther(c) PROVE TypeOK'
    <2>1. toClient' \in [Clients -> Seq(Replies)]
      BY <1>8, ReplyType DEF AnswerOther, Replies
    <2> QED
      BY <1>8, <2>1, ReceivesType DEF TypeOK, AnswerOther, Receives, clientVars
  <1>4. CASE HandlerRuns
    BY <1>4 DEF TypeOK, HandlerRuns, clientVars, ServerSteps
  <1>5. CASE HandlerRefuses
    <2>1. toClient' \in [Clients -> Seq(Replies)]
      BY <1>5, ReplyType DEF HandlerRefuses, Replies, TypeOK
    <2> QED
      BY <1>5, <2>1, BoundAssumption
      DEF TypeOK, HandlerRefuses, Fault, clientVars, ServerSteps
  <1>6. CASE Undecodable
    BY <1>6, BoundAssumption DEF TypeOK, Undecodable, Fault, clientVars, ServerSteps
  <1>7. CASE Commit
    <2>1. toClient' \in [Clients -> Seq(Replies)]
      BY <1>7, ReplyType DEF Commit, Replies, TypeOK
    <2> QED
      BY <1>7, <2>1 DEF TypeOK, Commit, clientVars, ServerSteps
  <1> QED BY <1>1, <1>2, <1>3, <1>4, <1>5, <1>6, <1>7, <1>8 DEF ServerStep

LEMMA AbortType ==
  ASSUME TypeOK, NEW c \in Clients, GatewayAborts(c)
  PROVE  /\ down' \in [Clients -> BOOLEAN]
         /\ toServer' \in [Clients -> Seq(Requests)]
         /\ toClient' \in [Clients -> Seq(Replies)]
         /\ \A d \in Clients : \A n :
               /\ Holds(toServer'[d], n) => Holds(toServer[d], n)
               /\ Holds(toClient'[d], n) => Holds(toClient[d], n) \/ n = "empty"
  <1>1. /\ toClient[c] \in Seq(Replies) /\ "empty" \in Replies
        /\ <<>> \in Seq(Requests)
    BY DEF TypeOK, Replies
  <1>2. /\ Append(toClient[c], "empty") \in Seq(Replies)
        /\ \A n : Holds(Append(toClient[c], "empty"), n)
                   => Holds(toClient[c], n) \/ n = "empty"
    BY <1>1, AppendHolds
  <1> QED BY <1>1, <1>2, EmptyHolds DEF TypeOK, GatewayAborts

LEMMA NextType == TypeOK /\ [Next]_vars => TypeOK'
  <1> SUFFICES ASSUME TypeOK, [Next]_vars PROVE TypeOK'
    OBVIOUS
  <1>1. CASE Submit
    <2>1. begun' \in 0..MaxOps
      BY <1>1, BoundAssumption DEF Submit, Begin, TypeOK
    <2> QED BY <1>1, <2>1, StartType, ClientAssumption DEF Submit
  <1>2. ASSUME NEW c \in Clients, Fetch(c) PROVE TypeOK'
    BY <1>2, BoundAssumption DEF Fetch, Begin, TypeOK, serverVars
  <1>3. ASSUME NEW c \in Clients, Confirm(c) PROVE TypeOK'
    <2>1. begun' \in 0..MaxOps
      BY <1>3, BoundAssumption DEF Confirm, Begin, TypeOK
    <2> QED BY <1>3, <2>1, StartType DEF Confirm
  <1>4. ASSUME NEW c \in Clients, Disconnect(c) PROVE TypeOK'
    <2>1. Drop({c})
      BY <1>4 DEF Disconnect
    <2>2. faults' \in 0..MaxFaults
      BY <1>4, BoundAssumption DEF Disconnect, Fault, TypeOK
    <2> QED
      BY <1>4, <2>1, <2>2, DropType DEF Disconnect, TypeOK, clientVars
  <1>5. CASE Crash
    <2>1. Drop(Clients)
      BY <1>5 DEF Crash
    <2>2. faults' \in 0..MaxFaults
      BY <1>5, BoundAssumption DEF Crash, Fault, TypeOK
    <2> QED
      BY <1>5, <2>1, <2>2, DropType DEF Crash, TypeOK, clientVars, ServerSteps
  <1>6. CASE UNCHANGED vars
    BY <1>6 DEF TypeOK, vars, clientVars, serverVars
  <1>7. ASSUME NEW c \in Clients, GatewayAborts(c) PROVE TypeOK'
    <2>1. faults' \in 0..MaxFaults
      BY <1>7, BoundAssumption DEF GatewayAborts, Fault, TypeOK
    <2> QED
      BY <1>7, <2>1, AbortType DEF GatewayAborts, TypeOK, clientVars
  <1>8. ASSUME NEW c \in Clients, OtherLapses(c) PROVE TypeOK'
    <2>1. faults' \in 0..MaxFaults
      BY <1>8, BoundAssumption DEF OtherLapses, Fault, TypeOK
    <2>2. toServer' \in [Clients -> Seq(Requests)]
      BY <1>8 DEF OtherLapses, TypeOK, Requests
    <2> QED
      BY <1>8, <2>1, <2>2 DEF OtherLapses, TypeOK, clientVars, serverVars
  <1> QED
    BY <1>1, <1>2, <1>3, <1>4, <1>5, <1>6, <1>7, <1>8, ClientType, ServerType DEF Next

(* Every variable keeps its type.                                           *)
THEOREM TypeInvariant == Spec => []TypeOK
  BY InitType, NextType, PTL DEF Spec

-----------------------------------------------------------------------------
(* Only a handler that runs to its end changes the count of effects.        *)
LEMMA EffectsGrow ==
  ASSUME TypeOK, [Next]_vars
  PROVE  \/ effects' = effects
         \/ HandlerRuns /\ effects' = effects + 1
  BY DEF Next, Submit, Fetch, Confirm, Begin, Start, ClientStep, Redrive,
         TakeReply, ReplyBreaksOff, Unpark, AttemptFails, Resend, Disconnect,
         GatewayAborts, OtherLapses, ServerStep, AnswerDuplicate, Accept,
         AnswerConfirm, AnswerOther, Receives, HandlerRuns, HandlerRefuses,
         Undecodable, Commit, Crash, vars, serverVars

(* Nobody forgets that a stray reply was taken for a success.               *)
LEMMA MisledStays ==
  ASSUME [Next]_vars, misled
  PROVE  misled'
  BY DEF Next, Submit, Fetch, Confirm, Begin, Start, ClientStep, Redrive,
         TakeReply, ReplyBreaksOff, Unpark, AttemptFails, Resend, Disconnect,
         GatewayAborts, OtherLapses, ServerStep, AnswerDuplicate, Accept,
         AnswerConfirm, AnswerOther, Receives, HandlerRuns, HandlerRefuses,
         Undecodable, Commit, Crash, vars, clientVars

(* Sending anything else puts no confirm on the wire.                       *)
LEMMA NoConfirmQueued ==
  ASSUME TypeOK, NEW c \in Clients, NEW m \in {"ship", "other"},
         \A d \in Clients : ~Holds(toServer[d], "confirm"),
         toServer' = [toServer EXCEPT ![c] = Append(@, m)]
  PROVE  \A d \in Clients : ~Holds(toServer'[d], "confirm")
  <1> TAKE d \in Clients
  <1>1. CASE d = c
    <2>1. toServer[c] \in Seq(Requests) /\ m \in Requests
      BY DEF TypeOK, Requests
    <2>2. toServer'[d] = Append(toServer[c], m)
      BY <1>1 DEF TypeOK
    <2> QED BY <1>1, <2>1, <2>2, AppendHolds
  <1>2. CASE d # c
    BY <1>2 DEF TypeOK
  <1> QED BY <1>1, <1>2

(* A submission or re-drive starts with no "ok" to be read.                 *)
LEMMA ShipStarts ==
  ASSUME TypeOK, Earned, effects = 0, ~misled,
         NEW c \in Clients, NEW o \in {"submit", "redrive"}, Start(c, o)
  PROVE  Earned'
  <1>1. \A d \in Clients : ~Holds(toServer'[d], "confirm") /\ ~Holds(toClient'[d], "ok")
    BY RequestType DEF Start, Earned, Requests
  <1> QED
    BY <1>1 DEF Start, Earned, TypeOK, serverVars

(* While the handler has not run, no step of a client earns an "ok".        *)
LEMMA ClientEarned ==
  ASSUME TypeOK, Earned, effects = 0, effects' = 0, ~misled, ~misled',
         NEW c \in Clients, ClientStep(c)
  PROVE  Earned'
  <1>0. USE DEF Earned
  <1>1. CASE Redrive(c)
    BY <1>1, ShipStarts DEF Redrive
  <1>2. CASE TakeReply(c)
    <2>1. /\ Head(toClient[c]) # "ok"
          /\ \A d \in Clients : ~Holds(toClient'[d], "ok")
      BY <1>2, TailHolds DEF TakeReply, TypeOK
    <2>2. Head(toClient[c]) \notin Strange /\ op[c] # "confirm"
      BY <1>2 DEF TakeReply
    <2>3. Head(toClient[c]) \notin Successes
      BY <2>1, <2>2 DEF Successes
    <2> QED
      BY <1>2, <2>1, <2>3 DEF TakeReply, Finish, TypeOK, serverVars
  <1>6. CASE ReplyBreaksOff(c)
    <2>1. \A d \in Clients : ~Holds(toClient'[d], "ok")
      BY <1>6, TailHolds DEF ReplyBreaksOff, TypeOK
    <2> QED
      BY <1>6, <2>1 DEF ReplyBreaksOff, Finish, TypeOK, serverVars
  <1>3. CASE Unpark(c)
    BY <1>3 DEF Unpark
  <1>4. CASE AttemptFails(c)
    <2>1. CommunicationError(c)
      BY <1>4 DEF AttemptFails
    <2>2. \A d \in Clients : ~Holds(toClient'[d], "ok")
      <3>1. CASE toClient' = toClient
        BY <3>1
      <3>2. CASE toClient[c] # <<>> /\ toClient' = [toClient EXCEPT ![c] = Tail(@)]
        BY <3>2, TailHolds DEF TypeOK
      <3> QED BY <2>1, <3>1, <3>2 DEF CommunicationError
    <2> QED
      BY <1>4, <2>2 DEF AttemptFails, Finish, TypeOK, serverVars
  <1>5. CASE Resend(c)
    <2>1. \A d \in Clients : ~Holds(toServer'[d], "confirm")
      BY <1>5, NoConfirmQueued DEF Resend
    <2> QED
      BY <1>5, <2>1 DEF Resend, TypeOK, serverVars
  <1> QED BY <1>1, <1>2, <1>3, <1>4, <1>5, <1>6 DEF ClientStep

LEMMA ServerEarned ==
  ASSUME TypeOK, Earned, effects = 0, effects' = 0, ~misled, ServerStep
  PROVE  Earned'
  <1>0. USE DEF Earned
  <1>1. ASSUME NEW c \in Clients, NEW kind, Receives(c, kind)
        PROVE  /\ \A d \in Clients : ~Holds(toServer'[d], "confirm")
               /\ kind # "confirm"
    BY <1>1, TailHolds DEF Receives, TypeOK
  <1>2. ASSUME NEW c \in Clients, AnswerDuplicate(c) PROVE Earned'
    <2>1. \A d \in Clients : ~Holds(toClient'[d], "ok")
      BY <1>2, ReplyType DEF AnswerDuplicate, Replies
    <2> QED
      BY <1>2, <1>1, <2>1 DEF AnswerDuplicate, Receives, clientVars
  <1>3. ASSUME NEW c \in Clients, Accept(c) PROVE Earned'
    BY <1>3, <1>1 DEF Accept, Receives, clientVars
  <1>4. ASSUME NEW c \in Clients, AnswerConfirm(c) PROVE Earned'
    BY <1>4, <1>1 DEF AnswerConfirm
  <1>9. ASSUME NEW c \in Clients, AnswerOther(c) PROVE Earned'
    <2>1. \A d \in Clients : ~Holds(toClient'[d], "ok")
      BY <1>9, ReplyType DEF AnswerOther, Replies
    <2> QED
      BY <1>9, <1>1, <2>1 DEF AnswerOther, Receives, clientVars
  <1>5. CASE HandlerRuns
    BY <1>5 DEF HandlerRuns
  <1>6. CASE HandlerRefuses
    <2>1. \A d \in Clients : ~Holds(toClient'[d], "ok")
      BY <1>6, ReplyType DEF HandlerRefuses, Replies, TypeOK
    <2> QED
      BY <1>6, <2>1 DEF HandlerRefuses, clientVars
  <1>7. CASE Undecodable
    BY <1>7 DEF Undecodable, clientVars
  <1>8. CASE Commit
    BY <1>8 DEF Commit
  <1> QED
    BY <1>2, <1>3, <1>4, <1>5, <1>6, <1>7, <1>8, <1>9 DEF ServerStep

LEMMA NextEarned ==
  ASSUME TypeOK, Earned, [Next]_vars
  PROVE  Earned'
  <1> SUFFICES ASSUME effects' = 0, ~misled' PROVE Earned'
    BY DEF Earned
  <1>0. effects = 0 /\ ~misled
    BY EffectsGrow, MisledStays DEF TypeOK
  <1>2. CASE Submit
    BY <1>0, <1>2, ShipStarts, ClientAssumption DEF Submit
  <1>3. ASSUME NEW c \in Clients, Fetch(c) PROVE Earned'
    BY <1>0, <1>3 DEF Fetch, Earned, TypeOK, serverVars
  <1>4. ASSUME NEW c \in Clients, Confirm(c) PROVE Earned'
    BY <1>0, <1>4 DEF Confirm, Earned
  <1>5. ASSUME NEW c \in Clients, Disconnect(c) PROVE Earned'
    <2>1. Drop({c})
      BY <1>5 DEF Disconnect
    <2> QED
      BY <1>0, <1>5, <2>1, DropType
      DEF Disconnect, Earned, clientVars, Requests, Replies
  <1>6. CASE Crash
    <2>1. Drop(Clients)
      BY <1>6 DEF Crash
    <2> QED
      BY <1>0, <1>6, <2>1, DropType DEF Crash, Earned, clientVars, Requests, Replies
  <1>7. CASE UNCHANGED vars
    BY <1>7 DEF Earned, vars, clientVars, serverVars
  <1>8. ASSUME NEW c \in Clients, GatewayAborts(c) PROVE Earned'
    BY <1>0, <1>8, AbortType DEF GatewayAborts, Earned, clientVars
  <1>9. ASSUME NEW c \in Clients, OtherLapses(c) PROVE Earned'
    <2>1. \A d \in Clients : ~Holds(toServer'[d], "confirm")
      BY <1>0, <1>9, NoConfirmQueued DEF OtherLapses, Earned
    <2> QED
      BY <1>0, <1>9, <2>1 DEF OtherLapses, Earned, clientVars, serverVars
  <1> QED
    BY <1>0, <1>2, <1>3, <1>4, <1>5, <1>6, <1>7, <1>8, <1>9, ClientEarned, ServerEarned
    DEF Next

(* An entry is removed from the store only after a re-drive that succeeded. *)
LEMMA NextNothingLost ==
  ASSUME TypeOK, Earned, NothingLost, [Next]_vars
  PROVE  NothingLost'
  <1> SUFFICES ASSUME Stored, ~misled', NEW d \in Clients, result'[d] = "exhausted"
               PROVE  parked' \/ effects' > 0
    BY DEF NothingLost
  <1>0. ~misled
    BY MisledStays
  <1>1. effects # 0 <=> effects > 0
    BY DEF TypeOK
  <1>2. effects > 0 => effects' > 0
    BY EffectsGrow DEF TypeOK
  <1>3. ASSUME result[d] = "exhausted", parked' = parked PROVE parked' \/ effects' > 0
    BY <1>0, <1>2, <1>3 DEF NothingLost
  <1>4. ASSUME NEW c \in Clients, TakeReply(c) \/ ReplyBreaksOff(c)
        PROVE  parked' \/ effects' > 0
    <2>1. result[d] = "exhausted" /\ parked' = parked
      BY <1>4 DEF TakeReply, ReplyBreaksOff, Finish, TypeOK
    <2> QED BY <1>3, <2>1
  <1>5. ASSUME NEW c \in Clients, Unpark(c) PROVE parked' \/ effects' > 0
    BY <1>0, <1>1, <1>2, <1>5 DEF Unpark, Earned
  <1>6. ASSUME NEW c \in Clients, AttemptFails(c) PROVE parked' \/ effects' > 0
    <2>1. parked' \/ (result[d] = "exhausted" /\ parked' = parked)
      BY <1>6 DEF AttemptFails, Finish, TypeOK
    <2> QED BY <1>3, <2>1
  <1>7. \/ result' = result /\ parked' = parked
        \/ \E c \in Clients : \/ TakeReply(c) \/ ReplyBreaksOff(c)
                              \/ Unpark(c) \/ AttemptFails(c)
    BY DEF Next, Submit, Fetch, Confirm, Begin, Start, ClientStep, Redrive,
           Resend, Disconnect, GatewayAborts, OtherLapses, ServerStep,
           AnswerDuplicate, Accept, AnswerConfirm, AnswerOther, Receives,
           HandlerRuns, HandlerRefuses, Undecodable, Commit, Crash, vars, clientVars
  <1> QED BY <1>3, <1>4, <1>5, <1>6, <1>7

LEMMA DeliveryInvariant == Spec => []DeliveryInv
  <1>1. Init => DeliveryInv
    BY InitType, EmptyHolds DEF Init, DeliveryInv, Earned, NothingLost
  <1>2. DeliveryInv /\ [Next]_vars => DeliveryInv'
    BY NextType, NextEarned, NextNothingLost DEF DeliveryInv
  <1> QED BY <1>1, <1>2, PTL DEF Spec

(* A submission that ended without an error was executed, until one takes a *)
(* reply without a return code, or to another operation, for its success    *)
(* (invoke.py, raise_for_rfc_error): call_transactional and retry_parked    *)
(* never take a reply to an earlier attempt, a confirm or a refusal for one,*)
(* whatever was lost, late or repeated and wherever the server crashed.     *)
THEOREM OkIsExecuted == Spec => []OkMeansExecutedUnlessMisled
  <1>1. DeliveryInv => OkMeansExecutedUnlessMisled
    BY DEF DeliveryInv, TypeOK, Earned, OkMeansExecuted, OkMeansExecutedUnlessMisled
  <1> QED BY <1>1, DeliveryInvariant, PTL

(* With a tid_store, a call given up by _submit_with_retry is parked or was *)
(* executed, until a re-drive takes such a reply for its success.           *)
THEOREM NothingIsLost == Spec => []NothingLost
  <1>1. DeliveryInv => NothingLost
    BY DEF DeliveryInv
  <1> QED BY <1>1, DeliveryInvariant, PTL

-----------------------------------------------------------------------------
(* The gate of _dispatch_transactional.                                     *)
LEMMA NextExecutedOnce ==
  ASSUME Careful, TypeOK, ExecutedOnce, [Next]_vars
  PROVE  ExecutedOnce'
  <1>1. ASSUME effects' = effects, step' = step, tidState' = tidState
        PROVE  ExecutedOnce'
    BY <1>1 DEF ExecutedOnce
  <1>2. CASE ServerStep
    <2>1. ASSUME NEW c \in Clients, AnswerDuplicate(c) PROVE ExecutedOnce'
      BY <1>1, <2>1 DEF AnswerDuplicate, Receives
    <2>2. ASSUME NEW c \in Clients, Accept(c) PROVE ExecutedOnce'
      BY <2>2 DEF Accept, Receives, ExecutedOnce
    <2>3. ASSUME NEW c \in Clients, AnswerConfirm(c) PROVE ExecutedOnce'
      BY <1>1, <2>3 DEF AnswerConfirm, Receives, Careful
    <2>8. ASSUME NEW c \in Clients, AnswerOther(c) PROVE ExecutedOnce'
      BY <1>1, <2>8 DEF AnswerOther, Receives
    <2>4. CASE HandlerRuns
      BY <2>4 DEF HandlerRuns, ExecutedOnce
    <2>5. CASE HandlerRefuses
      BY <2>5 DEF HandlerRefuses, ExecutedOnce
    <2>6. CASE Undecodable
      BY <2>6 DEF Undecodable, ExecutedOnce
    <2>7. CASE Commit
      BY <2>7 DEF Commit, ExecutedOnce
    <2> QED
      BY <1>2, <2>1, <2>2, <2>3, <2>4, <2>5, <2>6, <2>7, <2>8 DEF ServerStep
  <1>3. CASE Crash
    BY <1>3 DEF Crash, Careful, ExecutedOnce
  <1>4. \/ effects' = effects /\ step' = step /\ tidState' = tidState
        \/ ServerStep \/ Crash
    BY DEF Next, Submit, Fetch, Confirm, Begin, Start, ClientStep, Redrive,
           TakeReply, ReplyBreaksOff, Unpark, AttemptFails, Resend, Disconnect,
           GatewayAborts, OtherLapses, vars, serverVars
  <1> QED BY <1>1, <1>2, <1>3, <1>4

(* Exactly-once: with a durable store that keeps executed TIDs, and no crash*)
(* between the handler's effect and mark_executed, the handler runs at most *)
(* once, whatever clients send, re-drive or confirm and whatever else dies. *)
THEOREM ExactlyOnce ==
  ASSUME Careful
  PROVE  Spec => []AtMostOnce
  <1>1. Init => ExecutedOnce
    BY DEF Init, ExecutedOnce
  <1>2. TypeOK /\ ExecutedOnce /\ [Next]_vars => ExecutedOnce'
    BY NextExecutedOnce
  <1>3. ExecutedOnce => AtMostOnce
    BY DEF ExecutedOnce, AtMostOnce
  <1> QED BY <1>1, <1>2, <1>3, TypeInvariant, PTL DEF Spec
-----------------------------------------------------------------------------
(* The contract.  Most steps leave what the clients were told, the store of *)
(* parked calls and the effects as they are; the others are one step of     *)
(* DeliveryContract each.                                                   *)
Unseen == UNCHANGED <<result, parked, effects, misled>>

(* A confirm is under way only for a client whose submission succeeded.     *)
ConfirmsOk == \A c \in Clients : op[c] = "confirm" => result[c] = "ok"

LEMMA UnseenOr ==
  ASSUME [Next]_vars
  PROVE  \/ Unseen
         \/ HandlerRuns
         \/ \E c \in Clients : \/ TakeReply(c) \/ ReplyBreaksOff(c)
                               \/ Unpark(c) \/ AttemptFails(c)
  BY DEF Next, Submit, Fetch, Confirm, Begin, Start, ClientStep, Redrive,
         Resend, Disconnect, GatewayAborts, OtherLapses, ServerStep,
         AnswerDuplicate, Accept, AnswerConfirm, AnswerOther, Receives, HandlerRefuses, Undecodable, Commit, Crash,
         vars, clientVars, serverVars, Unseen

LEMMA NextConfirmsOk ==
  ASSUME TypeOK, ConfirmsOk, [Next]_vars
  PROVE  ConfirmsOk'
  <1> SUFFICES ASSUME NEW d \in Clients, op'[d] = "confirm"
               PROVE  result'[d] = "ok"
    BY DEF ConfirmsOk
  <1>1. ASSUME op' = op, result' = result PROVE result'[d] = "ok"
    BY <1>1 DEF ConfirmsOk
  <1>2. ASSUME NEW c \in Clients, Confirm(c) PROVE result'[d] = "ok"
    BY <1>2 DEF Confirm, Start, TypeOK, ConfirmsOk
  <1>3. ASSUME NEW c \in Clients, NEW o \in {"submit", "redrive"}, Start(c, o)
        PROVE  result'[d] = "ok"
    BY <1>3 DEF Start, TypeOK, ConfirmsOk
  <1>4. ASSUME NEW c \in Clients, Fetch(c) PROVE result'[d] = "ok"
    BY <1>4 DEF Fetch, TypeOK, ConfirmsOk
  <1>5. ASSUME NEW c \in Clients, NEW r, Finish(c, r) PROVE result'[d] = "ok"
    <2>1. d # c
      BY <1>5 DEF Finish, TypeOK
    <2> QED BY <1>5, <2>1 DEF Finish, TypeOK, ConfirmsOk
  <1>6. ASSUME NEW c \in Clients,
               TakeReply(c) \/ ReplyBreaksOff(c) \/ Unpark(c) \/ AttemptFails(c)
        PROVE  result'[d] = "ok"
    <2>1. UNCHANGED <<op, result>> \/ \E r : Finish(c, r)
      BY <1>6, Zenon DEF TakeReply, ReplyBreaksOff, Unpark, AttemptFails
    <2> QED BY <1>1, <1>5, <2>1
  <1>7. \/ UNCHANGED <<op, result>>
        \/ \E c \in Clients : \/ Confirm(c) \/ Fetch(c)
                              \/ \E o \in {"submit", "redrive"} : Start(c, o)
                              \/ TakeReply(c) \/ ReplyBreaksOff(c)
                              \/ Unpark(c) \/ AttemptFails(c)
    BY ClientAssumption
    DEF Next, Submit, ClientStep, Redrive, Resend, Disconnect, GatewayAborts,
        OtherLapses, ServerStep, AnswerDuplicate, Accept, AnswerConfirm,
        AnswerOther, Receives, HandlerRuns, HandlerRefuses, Undecodable, Commit, Crash, vars, clientVars
  <1> QED BY <1>1, <1>2, <1>3, <1>4, <1>6, <1>7

LEMMA ContractStep ==
  ASSUME Stored, TypeOK, Earned, ConfirmsOk, ExecutedOnce, ExecutedOnce', [Next]_vars
  PROVE  [Contract!Next]_(Contract!vars)
  <1>0. effects \in Nat
    BY DEF TypeOK
  <1>1. CASE Unseen
    BY <1>1 DEF Unseen, Contract!vars
  <1>2. CASE HandlerRuns
    <2>1. effects' = effects + 1 /\ UNCHANGED <<result, parked, misled>>
      BY <1>2 DEF HandlerRuns, clientVars
    <2>2. effects = 0
      BY <1>0, <2>1 DEF ExecutedOnce
    <2> QED BY <2>1, <2>2 DEF Contract!Next, Contract!Execute
  <1>7. ASSUME NEW c \in Clients, Finish(c, result[c]), UNCHANGED <<parked, effects, misled>>
        PROVE  Unseen
    BY <1>7 DEF Unseen, Finish, TypeOK
  <1>3. ASSUME NEW c \in Clients, TakeReply(c) PROVE [Contract!Next]_(Contract!vars)
    <2>1. /\ UNCHANGED <<parked, effects>> /\ toClient[c] # <<>>
          /\ misled' = (misled \/ (op[c] # "confirm" /\ Head(toClient[c]) \in Strange))
      BY <1>3 DEF TakeReply, serverVars
    <2>2. misled' \in {misled, TRUE} /\ (op[c] = "confirm" => misled' = misled)
      BY <2>1 DEF TypeOK
    <2>3. Head(toClient[c]) \in Successes /\ op[c] # "confirm" => effects > 0 \/ misled'
      <3>1. Head(toClient[c]) = "ok" => effects > 0 \/ misled
        BY <1>0, <2>1, TailHolds DEF Earned, TypeOK
      <3> QED BY <2>1, <3>1 DEF Successes
    <2>4. \/ UNCHANGED <<op, tries, result>>
          \/ Head(toClient[c]) \in Successes /\ op[c] # "confirm" /\ Finish(c, "ok")
          \/ op[c] = "confirm" /\ Finish(c, "confirmed")
          \/ op[c] = "confirm" /\ Finish(c, result[c])
          \/ Head(toClient[c]) \notin Successes /\ Finish(c, "failed")
      BY <1>3 DEF TakeReply
    <2>5. CASE UNCHANGED <<op, tries, result>>
      <3>1. CASE misled' = misled
        BY <1>1, <2>1, <2>5, <3>1 DEF Unseen
      <3>2. CASE misled' = TRUE
        BY <2>1, <2>5, <3>2 DEF Contract!Next, Contract!Lapse
      <3> QED BY <2>2, <3>1, <3>2
    <2>6. CASE Head(toClient[c]) \in Successes /\ op[c] # "confirm" /\ Finish(c, "ok")
      BY <2>1, <2>2, <2>3, <2>6 DEF Finish, Contract!Next, Contract!Succeed, Contract!Tell
    <2>7. CASE op[c] = "confirm" /\ Finish(c, "confirmed")
      BY <2>1, <2>2, <2>7 DEF Finish, ConfirmsOk, Contract!Next, Contract!Confirm, Contract!Tell
    <2>8. CASE op[c] = "confirm" /\ Finish(c, result[c])
      BY <1>1, <1>7, <2>1, <2>2, <2>8
    <2>9. CASE Head(toClient[c]) \notin Successes /\ Finish(c, "failed")
      <3>1. Head(toClient[c]) \notin Strange
        BY <2>9 DEF Successes
      <3>2. misled' = misled
        BY <2>1, <3>1 DEF TypeOK
      <3> QED BY <2>1, <2>9, <3>2 DEF Finish, Contract!Next, Contract!Fail, Contract!Tell
    <2> QED BY <2>4, <2>5, <2>6, <2>7, <2>8, <2>9
  <1>8. ASSUME NEW c \in Clients, ReplyBreaksOff(c) PROVE [Contract!Next]_(Contract!vars)
    <2>1. UNCHANGED <<parked, effects, misled>>
      BY <1>8 DEF ReplyBreaksOff, serverVars
    <2>2. Finish(c, result[c]) \/ Finish(c, "raised")
      BY <1>8 DEF ReplyBreaksOff
    <2>3. CASE Finish(c, "raised")
      BY <2>1, <2>3 DEF Finish, Contract!Next, Contract!Fail, Contract!Tell
    <2> QED BY <1>1, <1>7, <2>1, <2>2, <2>3
  <1>4. ASSUME NEW c \in Clients, Unpark(c) PROVE [Contract!Next]_(Contract!vars)
    <2>1. effects > 0 \/ misled
      BY <1>0, <1>4 DEF Unpark, Earned
    <2>2. Finish(c, "ok") /\ parked' = FALSE /\ effects' = effects /\ misled' = misled
      BY <1>4 DEF Unpark, serverVars
    <2> QED BY <2>1, <2>2 DEF Finish, Contract!Next, Contract!Succeed, Contract!Tell
  <1>5. ASSUME NEW c \in Clients, AttemptFails(c) PROVE [Contract!Next]_(Contract!vars)
    <2>1. effects' = effects /\ misled' = misled
      BY <1>5 DEF AttemptFails, serverVars
    <2>2. \/ Unseen
          \/ Finish(c, "exhausted") /\ parked' = TRUE
          \/ Finish(c, result[c]) /\ parked' = parked
      BY <1>5, <2>1 DEF AttemptFails, Unseen
    <2>3. CASE Finish(c, "exhausted") /\ parked' = TRUE
      BY <2>1, <2>3 DEF Finish, Contract!Next, Contract!GiveUp, Contract!Tell
    <2>4. CASE Finish(c, result[c]) /\ parked' = parked
      BY <1>1, <1>7, <2>1, <2>4
    <2> QED BY <1>1, <2>2, <2>3, <2>4
  <1> QED BY <1>1, <1>2, <1>3, <1>4, <1>5, <1>8, UnseenOr

(* TransactionalDelivery implements DeliveryContract, on the same terms as  *)
(* ExactlyOnce and with a tid_store: submitting, retrying, parking,         *)
(* re-driving and confirming come to one execution at most and reports of   *)
(* it that are true until a stray reply is taken for a success              *)
(* (connection.py, call_transactional, retry_parked and confirm_tid).       *)
THEOREM DeliveryMeetsContract ==
  ASSUME Careful, Stored
  PROVE  Spec => ImplementsContract
  <1>1. Init => Contract!Init /\ ConfirmsOk /\ ExecutedOnce
    BY DEF Init, Contract!Init, ConfirmsOk, ExecutedOnce
  <1>2. TypeOK /\ ConfirmsOk /\ [Next]_vars => ConfirmsOk'
    BY NextConfirmsOk
  <1>3. TypeOK /\ ExecutedOnce /\ [Next]_vars => ExecutedOnce'
    BY NextExecutedOnce
  <1>4. /\ TypeOK /\ Earned /\ ConfirmsOk /\ ExecutedOnce /\ ExecutedOnce' /\ [Next]_vars
        => [Contract!Next]_(Contract!vars)
    BY ContractStep
  <1>5. DeliveryInv => TypeOK /\ Earned
    BY DEF DeliveryInv
  <1> QED
    BY <1>1, <1>2, <1>3, <1>4, <1>5, DeliveryInvariant, PTL
    DEF Spec, ImplementsContract, Contract!Spec
=============================================================================
