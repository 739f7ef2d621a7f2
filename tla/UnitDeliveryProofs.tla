------------------------- MODULE UnitDeliveryProofs -------------------------
(***************************************************************************)
(* Proofs about UnitDelivery, for units of any number of calls, any number *)
(* of retries, operations and faults, and every setting of its constants   *)
(* but those a theorem names.                                              *)
(***************************************************************************)
EXTENDS UnitDelivery, SequenceTheorems, TLAPS

-----------------------------------------------------------------------------
(* Types                                                                    *)

LEMMA ZeroInBounds ==
  0 \in 0..MaxRetries /\ 0 \in 0..MaxOps /\ 0 \in 0..MaxFaults /\ 0 \in 0..Calls
  BY UnitAssumption, BoundAssumption

LEMMA InitType == Init => TypeOK
  <1> SUFFICES ASSUME Init PROVE TypeOK
    OBVIOUS
  <1>1. store \in [Types -> UnitStates] /\ runs \in [1..Calls -> Nat]
    BY DEF Init, UnitStates
  <1>2. toServer \in Seq(Requests) /\ toClient \in Seq(Replies) /\ late \subseteq Requests
    BY DEF Init
  <1> QED BY <1>1, <1>2, ZeroInBounds DEF Init, TypeOK

LEMMA FaultType ==
  ASSUME TypeOK, Fault PROVE faults' \in 0..MaxFaults
  BY BoundAssumption DEF TypeOK, Fault

LEMMA SendsType ==
  ASSUME TypeOK, NEW m \in Requests, Sends(m)
  PROVE  /\ link' \in {"up", "dead", "retired"}
         /\ toServer' \in Seq(Requests) /\ toClient' \in Seq(Replies)
  <1>1. Append(toServer, m) \in Seq(Requests) /\ <<m>> \in Seq(Requests)
    BY DEF TypeOK
  <1>2. <<>> \in Seq(Replies)
    OBVIOUS
  <1> QED BY <1>1, <1>2 DEF TypeOK, Sends

LEMMA StartType ==
  ASSUME TypeOK, NEW o \in {"ship", "redrive", "query", "confirm"}, NEW m \in Requests,
         NEW w \in {"describing", "sent"}, w = "describing" => o \in Asks,
         Start(o, w, m), begun' \in 0..MaxOps
  PROVE  TypeOK'
  <1>1. /\ link' \in {"up", "dead", "retired"}
        /\ toServer' \in Seq(Requests) /\ toClient' \in Seq(Replies)
    BY SendsType DEF Start
  <1>2. tries' \in 0..MaxRetries
    BY ZeroInBounds DEF Start
  <1> QED BY <1>1, <1>2 DEF TypeOK, Start, serverVars

LEMMA BeginType ==
  ASSUME TypeOK, Begin PROVE begun' \in 0..MaxOps
  BY BoundAssumption DEF TypeOK, Begin

LEMMA AbandonType ==
  ASSUME TypeOK, Abandon
  PROVE  /\ late' \subseteq Requests /\ toServer' \in Seq(Requests)
         /\ playing' \in {"no", "live", "orphan"}
  <1>1. \A i \in 1..Len(toServer) : toServer[i] \in Requests
    BY DEF TypeOK
  <1> QED BY <1>1 DEF TypeOK, Abandon

LEMMA PassOverType ==
  ASSUME TypeOK, PassOver PROVE toClient' \in Seq(Replies)
  <1>1. toClient # <<>> => Tail(toClient) \in Seq(Replies)
    BY DEF TypeOK
  <1> QED BY <1>1 DEF TypeOK, PassOver

LEMMA NoReplyType ==
  ASSUME TypeOK, NoReply PROVE faults' \in 0..MaxFaults
  BY FaultType DEF NoReply, TypeOK

LEMMA RequestTypes ==
  /\ Ship \in Requests /\ Describe \in Requests /\ Unnamed \in Requests
  /\ \A o \in Asks, t \in Types : Request(o, t) \in Requests
  BY UnitAssumption DEF Ship, Describe, Unnamed, Request, Requests, Asks, Types

LEMMA AsksAre ==
  /\ Asks = {"query", "confirm"}
  /\ \A t \in {"T", UnitType} : t \in Types
  BY UnitAssumption DEF Asks, Types

LEMMA AskType ==
  ASSUME TypeOK, NEW o \in Asks, NEW t, Ask(o, t)
  PROVE  TypeOK'
  <1>1. Request(o, t) \in Requests /\ o \in {"ship", "redrive", "query", "confirm"}
    BY RequestTypes, AsksAre DEF Ask
  <1> QED BY <1>1, RequestTypes, StartType, BeginType DEF Ask

LEMMA TakesType ==
  ASSUME TypeOK, NEW kind, NEW t, NEW from, Takes(kind, t, from)
  PROVE  toServer' \in Seq(Requests) /\ late' \subseteq Requests
  <1>1. toServer # <<>> => Tail(toServer) \in Seq(Requests)
    BY DEF TypeOK
  <1> QED BY <1>1 DEF TypeOK, Takes

LEMMA AnswerType ==
  ASSUME TypeOK, NEW from, NEW m \in Replies, Answer(from, m)
  PROVE  toClient' \in Seq(Replies)
  BY DEF TypeOK, Answer

LEMMA TypeStep == TypeOK /\ [Next]_vars => TypeOK'
  <1> SUFFICES ASSUME TypeOK, [Next]_vars PROVE TypeOK'
    OBVIOUS
  <1> USE DEF senderVars, wireVars, serverVars
  <1>1. CASE UNCHANGED vars
    BY <1>1 DEF TypeOK, vars
  <1>2. CASE Submit \/ Redrive
    BY <1>2, RequestTypes, StartType, BeginType DEF Submit, Redrive, TypeOK
  <1>3. ASSUME NEW t \in Types, Query(t) \/ Confirm(t) PROVE TypeOK'
    BY <1>3, AskType, AsksAre DEF Query, Confirm
  <1>4. CASE Fetch
    BY <1>4, BeginType DEF TypeOK, Fetch
  <1>5. CASE TakeReply
    <2>1. toClient' \in Seq(Replies)
      BY <1>5 DEF TypeOK, TakeReply
    <2>2. Head(toClient) \in UnitStates \/ told' = told \/ op # "query"
      BY <1>5 DEF TakeReply
    <2>3. told' \in UnitStates \union {"none"}
      BY <1>5 DEF TypeOK, TakeReply
    <2> QED BY <1>5, <2>1, <2>3 DEF TypeOK, TakeReply, Finish
  <1>6. CASE Unpark
    BY <1>6 DEF TypeOK, Unpark
  <1>7. CASE ShipUnanswered
    <2>1. faults' \in 0..MaxFaults /\ toClient' \in Seq(Replies)
      BY <1>7, NoReplyType, PassOverType DEF ShipUnanswered
    <2>2. tries' \in 0..MaxRetries
      BY <1>7, BoundAssumption DEF ShipUnanswered, TypeOK
    <2>3. /\ lapsed' \in BOOLEAN
          /\ pc' \in {"out", "fetched", "describing", "sent", "backoff", "unparking"}
          /\ op' \in {"none", "ship", "redrive", "query", "confirm"}
          /\ result' \in {"none", "ok", "failed", "exhausted"} /\ parked' \in BOOLEAN
      BY <1>7, SettingAssumption DEF ShipUnanswered, TypeOK, Due
    <2> QED BY <1>7, <2>1, <2>2, <2>3 DEF TypeOK, ShipUnanswered
  <1>8. CASE Resend
    <2>1. toServer' \in Seq(Requests)
      BY <1>8, RequestTypes DEF TypeOK, Resend
    <2> QED BY <1>8, <2>1 DEF TypeOK, Resend
  <1>19. CASE ShipBreaksOff
    <2>1. faults' \in 0..MaxFaults /\ toClient' \in Seq(Replies)
      BY <1>19, FaultType, PassOverType DEF ShipBreaksOff
    <2> QED BY <1>19, <2>1 DEF TypeOK, ShipBreaksOff, Finish
  <1>20. CASE DescriptionUnanswered
    <2>1. faults' \in 0..MaxFaults /\ toClient' \in Seq(Replies)
      BY <1>20, NoReplyType, PassOverType DEF DescriptionUnanswered
    <2>2. lapsed' \in BOOLEAN
      BY <1>20 DEF TypeOK, DescriptionUnanswered, Due
    <2> QED BY <1>20, <2>1, <2>2 DEF TypeOK, DescriptionUnanswered, Finish
  <1>21. ASSUME NEW t \in Types, TakeDescription(t) PROVE TypeOK'
    <2>1. toClient' \in Seq(Replies)
      BY <1>21 DEF TypeOK, TakeDescription
    <2>2. CASE Head(toClient) \in Refusals
      BY <1>21, <2>1, <2>2 DEF TypeOK, TakeDescription, Finish
    <2>3. CASE Head(toClient) \notin Refusals
      <3>1. Request(op, t) \in Requests
        BY <1>21, RequestTypes DEF TypeOK, TakeDescription
      <3>2. toServer' \in Seq(Requests)
        <4>1. toServer' \in {toServer, Append(toServer, Request(op, t)), Append(toServer, Unnamed)}
          BY <1>21, <2>3 DEF TakeDescription
        <4>2. /\ Append(toServer, Request(op, t)) \in Seq(Requests)
              /\ Append(toServer, Unnamed) \in Seq(Requests)
          BY <3>1, RequestTypes DEF TypeOK
        <4> QED BY <4>1, <4>2 DEF TypeOK
      <3> QED BY <1>21, <2>1, <2>3, <3>2 DEF TypeOK, TakeDescription
    <2> QED BY <2>2, <2>3
  <1>9. CASE AskUnanswered
    <2>1. faults' \in 0..MaxFaults
      BY <1>9, NoReplyType DEF AskUnanswered, TypeOK
    <2>2. <<>> \in Seq(Replies)
      OBVIOUS
    <2> QED BY <1>9, <2>1, <2>2, AbandonType DEF TypeOK, AskUnanswered, Finish
  <1>10. CASE Disconnect \/ GatewayAborts
    <2>1. <<>> \in Seq(Replies) /\ Append(toClient, "empty") \in Seq(Replies)
      BY DEF TypeOK, Replies
    <2>2. faults' \in 0..MaxFaults
      BY <1>10, FaultType DEF Disconnect, GatewayAborts
    <2>3. /\ late' \subseteq Requests /\ toServer' \in Seq(Requests)
          /\ playing' \in {"no", "live", "orphan"}
      BY <1>10, AbandonType DEF Disconnect, GatewayAborts
    <2> QED BY <1>10, <2>1, <2>2, <2>3 DEF TypeOK, Disconnect, GatewayAborts
  <1>11. ASSUME NEW from \in {"live", "orphan"}, ShipKnown(from) PROVE TypeOK'
    <2>1. toServer' \in Seq(Requests) /\ late' \subseteq Requests
      BY <1>11, TakesType DEF ShipKnown
    <2>2. toClient' \in Seq(Replies)
      BY <1>11, AnswerType DEF ShipKnown, Replies
    <2> QED BY <1>11, <2>1, <2>2 DEF TypeOK, ShipKnown, Takes
  <1>12. ASSUME NEW from \in {"live", "orphan"}, Persist(from) PROVE TypeOK'
    <2>1. toServer' \in Seq(Requests) /\ late' \subseteq Requests
      BY <1>12, TakesType DEF Persist
    <2>2. store' \in [Types -> UnitStates] /\ done' \in 0..Calls
      BY <1>12, UnitAssumption DEF TypeOK, Persist, UnitStates
    <2> QED BY <1>12, <2>1, <2>2 DEF TypeOK, Persist, Takes
  <1>13. ASSUME NEW from \in {"live", "orphan"}, NEW t \in Types, AnswerConfirm(t, from)
         PROVE  TypeOK'
    <2>1. toServer' \in Seq(Requests) /\ late' \subseteq Requests
      BY <1>13, TakesType DEF AnswerConfirm
    <2>2. toClient' \in Seq(Replies)
      BY <1>13, AnswerType DEF AnswerConfirm, Replies
    <2>3. store' \in [Types -> UnitStates]
      BY <1>13 DEF TypeOK, AnswerConfirm, UnitStates
    <2> QED BY <1>13, <2>1, <2>2, <2>3 DEF TypeOK, AnswerConfirm, Takes
  <1>14. ASSUME NEW from \in {"live", "orphan"}, NEW t \in Types, AnswerQuery(t, from)
         PROVE  TypeOK'
    <2>1. toServer' \in Seq(Requests) /\ late' \subseteq Requests
      BY <1>14, TakesType DEF AnswerQuery
    <2>2. toClient' \in Seq(Replies)
      BY <1>14, AnswerType DEF AnswerQuery, Replies, TypeOK
    <2> QED BY <1>14, <2>1, <2>2 DEF TypeOK, AnswerQuery, Takes
  <1>22. ASSUME NEW from \in {"live", "orphan"}, AnswerUnnamed(from) \/ AnswerDescribe(from)
         PROVE  TypeOK'
    <2>1. toServer' \in Seq(Requests) /\ late' \subseteq Requests
      BY <1>22, TakesType DEF AnswerUnnamed, AnswerDescribe
    <2>2. toClient' \in Seq(Replies)
      BY <1>22, AnswerType DEF AnswerUnnamed, AnswerDescribe, Replies
    <2> QED BY <1>22, <2>1, <2>2 DEF TypeOK, AnswerUnnamed, AnswerDescribe, Takes
  <1>15. CASE PlayCall
    <2>1. done + 1 \in 1..Calls
      BY <1>15, UnitAssumption DEF TypeOK, PlayCall
    <2>2. runs' \in [1..Calls -> Nat]
      BY <1>15, <2>1, SMTT(30) DEF TypeOK, PlayCall
    <2>3. done' \in 0..Calls
      BY <1>15, <2>1 DEF PlayCall
    <2> QED BY <1>15, <2>2, <2>3 DEF TypeOK, PlayCall
  <1>16. CASE CallFails
    <2>1. toClient' \in Seq(Replies)
      BY <1>16, AnswerType DEF CallFails, Replies
    <2> QED BY <1>16, <2>1, FaultType DEF TypeOK, CallFails
  <1>17. CASE Commit
    <2>1. toClient' \in Seq(Replies)
      BY <1>17, AnswerType DEF Commit, Replies
    <2>2. store' \in [Types -> UnitStates]
      BY <1>17 DEF TypeOK, Commit, UnitStates
    <2> QED BY <1>17, <2>1, <2>2 DEF TypeOK, Commit
  <1>18. CASE Crash
    <2>1. store' \in [Types -> UnitStates]
      BY <1>18 DEF TypeOK, Crash, UnitStates
    <2> QED BY <1>18, <2>1, FaultType DEF TypeOK, Crash
  <1> QED
    BY <1>1, <1>2, <1>3, <1>4, <1>5, <1>6, <1>7, <1>8, <1>9, <1>10, <1>11, <1>12, <1>13,
       <1>14, <1>15, <1>16, <1>17, <1>18, <1>19, <1>20, <1>21, <1>22
       DEF Next, SenderStep, ServerStep

(* Every variable keeps to its type: the fields of the unit handle, the     *)
(* parked payload and the unit store (connection.py, server.py, stores.py). *)
THEOREM UnitTypeCorrect == Spec => []TypeOK
  <1> QED BY InitType, TypeStep, PTL DEF Spec

-----------------------------------------------------------------------------
(* The kinds of step, as they touch the server's side.                      *)
SenderMoves ==
  \/ Submit \/ Fetch \/ Redrive \/ TakeReply \/ Unpark \/ ShipUnanswered \/ ShipBreaksOff
  \/ Resend \/ DescriptionUnanswered
  \/ \E t \in Types : Query(t) \/ Confirm(t) \/ TakeDescription(t)

Cuts == AskUnanswered \/ Disconnect \/ GatewayAborts

Looks(from) ==
  \/ ShipKnown(from) \/ AnswerUnnamed(from) \/ AnswerDescribe(from)
  \/ \E t \in Types : AnswerQuery(t, from)

Sources == {"live", "orphan"}

LEMMA StepKinds ==
  ASSUME [Next]_vars
  PROVE  \/ UNCHANGED vars \/ SenderMoves \/ Cuts
         \/ \E from \in Sources : \/ Looks(from) \/ Persist(from)
                                  \/ \E t \in Types : AnswerConfirm(t, from)
         \/ PlayCall \/ CallFails \/ Commit \/ Crash
  BY DEF Next, SenderStep, ServerStep, SenderMoves, Cuts, Looks, Sources

LEMMA SenderLeavesServer == SenderMoves => UNCHANGED serverVars
  BY DEF SenderMoves, Submit, Fetch, Redrive, Start, TakeReply, Unpark, ShipUnanswered,
         ShipBreaksOff, Resend, DescriptionUnanswered, Query, Confirm, Ask, TakeDescription

LEMMA CutsAbandon ==
  Cuts => Abandon /\ UNCHANGED <<store, done, runs, told, parked, result, lapsed, misled>>
  BY DEF Cuts, AskUnanswered, Disconnect, GatewayAborts, Finish, senderVars

LEMMA LooksOnly ==
  ASSUME NEW from, Looks(from)
  PROVE  UNCHANGED serverVars /\ UNCHANGED <<senderVars, link, lapsed, misled, begun, faults>>
  BY DEF Looks, ShipKnown, AnswerUnnamed, AnswerDescribe, AnswerQuery, Takes

-----------------------------------------------------------------------------
(* The playback.  What a step may do to it: leave it, cut its connection or *)
(* end it; begin one; or play the next call.                                *)
Stays == UNCHANGED <<done, runs>> /\ (playing' = "no" \/ (playing # "no" /\ playing' # "no"))
Begins == playing = "no" /\ done' = 0 /\ runs' = runs /\ playing' # "no"

LEMMA PlaybackMoves ==
  ASSUME TypeOK, [Next]_vars
  PROVE  Stays \/ Begins \/ PlayCall
  <1> USE DEF Stays, serverVars, wireVars
  <1>1. CASE UNCHANGED vars
    BY <1>1 DEF vars
  <1>2. CASE SenderMoves
    BY <1>2, SenderLeavesServer
  <1>3. CASE Cuts
    BY <1>3, CutsAbandon DEF Abandon
  <1>4. ASSUME NEW from \in Sources, Looks(from) \/ \E t \in Types : AnswerConfirm(t, from)
        PROVE  Stays
    BY <1>4, LooksOnly DEF AnswerConfirm
  <1>5. ASSUME NEW from \in Sources, Persist(from) PROVE Begins
    BY <1>5 DEF Persist, Takes, Begins, Sources
  <1>6. CASE CallFails \/ Commit \/ Crash
    BY <1>6 DEF CallFails, Commit, Crash
  <1> QED BY <1>1, <1>2, <1>3, <1>4, <1>5, <1>6, StepKinds

(* The call that comes next has run less often than the one before it.      *)
OrderInv ==
  /\ InOrder
  /\ playing # "no" /\ ~Coroutines /\ 0 < done /\ done < Calls => runs[done + 1] < runs[done]

LEMMA OrderStep == TypeOK /\ OrderInv /\ [Next]_vars => OrderInv'
  <1> SUFFICES ASSUME TypeOK, OrderInv, [Next]_vars PROVE OrderInv'
    OBVIOUS
  <1>1. CASE Stays
    BY <1>1 DEF Stays, OrderInv, InOrder
  <1>2. CASE Begins
    BY <1>2 DEF Begins, OrderInv, InOrder
  <1>3. CASE PlayCall
    <2>1. /\ done \in Nat /\ Calls \in Nat /\ done < Calls /\ done + 1 \in 1..Calls /\ done' = done + 1
          /\ \A i \in 1..Calls : runs[i] \in Nat
      BY <1>3, UnitAssumption DEF PlayCall, TypeOK
    <2>2. CASE Coroutines
      BY <1>3, <2>2 DEF PlayCall, OrderInv, InOrder
    <2>3. CASE ~Coroutines
      <3>1. /\ runs'[done + 1] = runs[done + 1] + 1
            /\ \A i \in 1..Calls : i # done + 1 => runs'[i] = runs[i]
        BY <1>3, <2>1, <2>3 DEF PlayCall, TypeOK
      <3>2. ASSUME NEW i \in 1..(Calls - 1) PROVE runs'[i + 1] <= runs'[i]
        <4>1. i \in 1..Calls /\ i + 1 \in 1..Calls
          BY <2>1
        <4>2. runs[i + 1] <= runs[i]
          BY DEF OrderInv, InOrder
        <4>3. CASE i = done
          <5>1. runs[done + 1] < runs[done]
            BY <1>3, <2>1, <2>3, <4>3 DEF OrderInv, PlayCall
          <5> QED BY <2>1, <3>1, <4>1, <4>3, <5>1
        <4>4. CASE i # done
          <5>1. runs'[i + 1] = runs[i + 1] /\ runs'[i] >= runs[i]
            BY <2>1, <3>1, <4>1, <4>4
          <5> QED BY <2>1, <3>1, <4>1, <4>2, <5>1
        <4> QED BY <4>3, <4>4
      <3>3. ASSUME done + 1 < Calls PROVE runs'[done + 2] < runs'[done + 1]
        <4>1. done + 1 \in 1..(Calls - 1) /\ done + 2 \in 1..Calls /\ (done + 1) + 1 = done + 2
          BY <2>1, <3>3
        <4>2. runs[done + 2] <= runs[done + 1]
          BY <4>1 DEF OrderInv, InOrder
        <4> QED BY <2>1, <3>1, <4>1, <4>2
      <3> QED
        <4>1. done' + 1 = done + 2
          BY <2>1
        <4> QED BY <2>1, <3>2, <3>3, <4>1 DEF OrderInv, InOrder
    <2> QED BY <2>2, <2>3
  <1> QED BY <1>1, <1>2, <1>3, PlaybackMoves

(* No call of the unit has run more often than the one before it: a         *)
(* playback stops at the first call that fails, and a later one starts over *)
(* (server.py, the loop over the unit's calls).                             *)
THEOREM UnitInOrder == Spec => []InOrder
  <1>1. Init => OrderInv
    BY UnitAssumption DEF Init, OrderInv, InOrder
  <1>2. OrderInv => InOrder
    BY DEF OrderInv
  <1> QED BY <1>1, <1>2, InitType, TypeStep, OrderStep, PTL DEF Spec

-----------------------------------------------------------------------------
(* Once.  A unit that was played back to its end is CONFIRMED, or is about  *)
(* to be, and a CONFIRMED unit is not played back.                          *)
OnceInv ==
  /\ PlayedOnce
  /\ Ran => store[UnitType] = "CONFIRMED" \/ (playing # "no" /\ done = Calls)
  /\ playing # "no" /\ done < Calls => ~Ran

(* Only a ship changes the store otherwise, and never from CONFIRMED.       *)
LEMMA StoreMoves ==
  ASSUME TypeOK, [Next]_vars, Durable,
         store[UnitType] = "CONFIRMED"
  PROVE  store'[UnitType] = "CONFIRMED"
  <1> USE DEF serverVars
  <1>1. CASE UNCHANGED vars
    BY <1>1 DEF vars
  <1>2. CASE SenderMoves
    BY <1>2, SenderLeavesServer
  <1>3. CASE Cuts
    BY <1>3, CutsAbandon
  <1>4. ASSUME NEW from \in Sources,
               Looks(from) \/ Persist(from) \/ \E t \in Types : AnswerConfirm(t, from)
        PROVE  store'[UnitType] = "CONFIRMED"
    <2>1. CASE Persist(from)
      BY <2>1 DEF Persist
    <2>2. ASSUME NEW t \in Types, AnswerConfirm(t, from) PROVE store'[UnitType] = "CONFIRMED"
      BY <2>2, UnitAssumption DEF AnswerConfirm, TypeOK
    <2>3. CASE Looks(from)
      BY <2>3, LooksOnly
    <2> QED BY <1>4, <2>1, <2>2, <2>3
  <1>5. CASE PlayCall \/ CallFails \/ Commit \/ Crash
    BY <1>5, UnitAssumption DEF PlayCall, CallFails, Commit, Crash, TypeOK
  <1> QED BY <1>1, <1>2, <1>3, <1>4, <1>5, StepKinds

(* The end of a playback that has played every call, unless the process     *)
(* dies there, is its commit.                                               *)
LEMMA PlayedCommits ==
  ASSUME TypeOK, [Next]_vars, "played" \notin CrashAt,
         playing # "no", done = Calls, playing' = "no"
  PROVE  store'[UnitType] = "CONFIRMED"
  <1> USE DEF TypeOK, serverVars, wireVars
  <1>1. ~ UNCHANGED vars
    BY DEF vars
  <1>2. ~SenderMoves
    BY SenderLeavesServer
  <1>3. ~Cuts
    BY CutsAbandon DEF Abandon
  <1>4. ASSUME NEW from \in Sources
        PROVE  ~(Looks(from) \/ Persist(from) \/ \E t \in Types : AnswerConfirm(t, from))
    BY LooksOnly DEF Persist, AnswerConfirm, Takes
  <1>5. ~(PlayCall \/ CallFails)
    BY UnitAssumption DEF PlayCall, CallFails
  <1>6. ~Crash
    BY UnitAssumption DEF Crash, PlaybackPoint
  <1>7. Commit
    BY <1>1, <1>2, <1>3, <1>4, <1>5, <1>6, StepKinds
  <1> QED BY <1>7, UnitAssumption DEF Commit

(* A playback begins on a unit that is not CONFIRMED.                       *)
LEMMA BeginsUnconfirmed ==
  ASSUME TypeOK, [Next]_vars, playing = "no", playing' # "no"
  PROVE  store[UnitType] # "CONFIRMED"
  <1> USE DEF serverVars, wireVars
  <1>1. ~ UNCHANGED vars
    BY DEF vars
  <1>2. ~SenderMoves
    BY SenderLeavesServer
  <1>3. ~Cuts
    BY CutsAbandon DEF Abandon
  <1>4. ASSUME NEW from \in Sources
        PROVE  ~(Looks(from) \/ \E t \in Types : AnswerConfirm(t, from))
    BY LooksOnly DEF AnswerConfirm
  <1>5. ~(PlayCall \/ CallFails \/ Commit \/ Crash)
    BY DEF PlayCall, CallFails, Commit, Crash
  <1>6. \E from \in Sources : Persist(from)
    BY <1>1, <1>2, <1>3, <1>4, <1>5, StepKinds
  <1> QED BY <1>6 DEF Persist

LEMMA OnceStep ==
  ASSUME Durable, "played" \notin CrashAt
  PROVE  TypeOK /\ OnceInv /\ [Next]_vars => OnceInv'
  <1> SUFFICES ASSUME TypeOK, OnceInv, [Next]_vars PROVE OnceInv'
    OBVIOUS
  <1>1. Calls \in 1..Calls /\ runs[Calls] \in Nat /\ done \in 0..Calls /\ Calls \in Nat
    BY UnitAssumption DEF TypeOK
  <1>2. CASE Stays
    <2>1. PlayedOnce' /\ Ran' = Ran /\ done' = done
      BY <1>2 DEF Stays, OnceInv, PlayedOnce, Ran
    <2>2. Ran' => store'[UnitType] = "CONFIRMED" \/ (playing' # "no" /\ done' = Calls)
      BY <1>2, <2>1, StoreMoves, PlayedCommits DEF OnceInv, Stays
    <2> QED BY <1>2, <2>1, <2>2 DEF OnceInv, Stays
  <1>3. CASE Begins
    <2>1. store[UnitType] # "CONFIRMED" /\ ~Ran
      BY <1>3, BeginsUnconfirmed DEF Begins, OnceInv
    <2> QED BY <1>3, <2>1 DEF Begins, OnceInv, PlayedOnce, Ran
  <1>4. CASE PlayCall
    <2>1. ~Ran /\ playing' = playing /\ playing # "no" /\ done' = done + 1 /\ done < Calls
      BY <1>4 DEF PlayCall, OnceInv
    <2>2. runs[Calls] = 0
      BY <1>1, <2>1 DEF Ran
    <2>3. CASE done + 1 = Calls
      <3>1. runs'[Calls] <= 1
        BY <1>1, <1>4, <2>2, <2>3 DEF PlayCall, TypeOK
      <3> QED BY <1>1, <2>1, <2>3, <3>1 DEF OnceInv, PlayedOnce
    <2>4. CASE done + 1 # Calls
      <3>1. runs'[Calls] = 0
        BY <1>1, <1>4, <2>2, <2>4 DEF PlayCall, TypeOK
      <3> QED BY <3>1 DEF OnceInv, PlayedOnce, Ran
    <2> QED BY <2>3, <2>4
  <1> QED BY <1>2, <1>3, <1>4, PlaybackMoves

(* "A unit is one LUW": with the durable store, and unless the process dies *)
(* between the last handler and the commit, a unit is played back to its    *)
(* end at most once (server.py, the unit branch of the dispatch; stores.py).*)
THEOREM UnitPlayedOnce ==
  ASSUME Durable, "played" \notin CrashAt
  PROVE  Spec => []PlayedOnce
  <1>1. Init => OnceInv
    BY UnitAssumption DEF Init, OnceInv, PlayedOnce, Ran
  <1>2. OnceInv => PlayedOnce
    BY DEF OnceInv
  <1> QED BY <1>1, <1>2, InitType, TypeStep, OnceStep, PTL DEF Spec

-----------------------------------------------------------------------------
(* Done means ran.  As long as nothing was given up on a connection that    *)
(* stays in use, a connection carries one request or one answer at a time,  *)
(* of the kind the sender waits for; behind it, once the connection is dead,*)
(* only the empty reply of the gateway.                                     *)
Waiting == pc \in {"describing", "sent"}
Idle == toServer = <<>> /\ playing # "live"
Blank == \A i \in 1..Len(toClient) : toClient[i] = "empty"
Closed == \A i \in 2..Len(toClient) : toClient[i] = "empty"
Quiet == Idle /\ IF link = "up" THEN toClient = <<>> ELSE Blank

Lone ==
  \/ toServer = <<>> /\ toClient = <<>>
  \/ playing # "live" /\ Len(toServer) = 1 /\ toClient = <<>>
  \/ playing # "live" /\ toServer = <<>> /\ Len(toClient) = 1

ShipWords == {"ok", "executed", "failure", "empty"}

OneAnswer ==
  /\ Waiting \/ Quiet
  /\ IF link = "up" THEN Lone ELSE Idle /\ Closed
  /\ op \in {"ship", "redrive"} /\ pc = "sent" =>
       /\ \A i \in 1..Len(toServer) : toServer[i].kind = "ship"
       /\ \A i \in 1..Len(toClient) : toClient[i] \in ShipWords

DoneWords == {"ok", "executed", "COMMITTED", "CONFIRMED"}

(* Nobody says, or asks for the confirmation, that the unit is done.        *)
NobodyClaims ==
  /\ \A t \in Types : store[t] \notin DoneWords
  /\ result # "ok" /\ told \notin DoneWords /\ pc # "unparking" /\ op # "confirm"
  /\ \A i \in 1..Len(toClient) : toClient[i] \notin DoneWords
  /\ \A i \in 1..Len(toServer) : toServer[i].kind # "confirm"
  /\ \A m \in late : m.kind # "confirm"

Played == playing # "no" => \A i \in 1..done : runs[i] > 0

DoneInv == ~InDoubt => Played /\ OneAnswer /\ (Ran \/ NobodyClaims)

LEMMA PlayedStep ==
  ASSUME ~Coroutines, TypeOK, Played, [Next]_vars
  PROVE  Played' /\ (Ran => Ran')
  <1>1. CASE Stays
    BY <1>1 DEF Stays, Played, Ran
  <1>2. CASE Begins
    BY <1>2 DEF Begins, Played, Ran
  <1>3. CASE PlayCall
    <2>1. /\ done \in Nat /\ Calls \in Nat /\ done + 1 \in 1..Calls /\ done' = done + 1 /\ playing # "no"
          /\ \A i \in 1..Calls : runs[i] \in Nat
      BY <1>3, UnitAssumption DEF PlayCall, TypeOK
    <2>2. /\ runs'[done + 1] = runs[done + 1] + 1
          /\ \A i \in 1..Calls : i # done + 1 => runs'[i] = runs[i]
      BY <1>3, <2>1 DEF PlayCall, TypeOK
    <2>3. \A i \in 1..done' : i \in 1..Calls /\ (i = done + 1 \/ i \in 1..done)
      BY <2>1
    <2>4. Played'
      BY <2>1, <2>2, <2>3 DEF Played
    <2>5. Calls \in 1..Calls
      BY UnitAssumption
    <2> QED BY <2>1, <2>2, <2>4, <2>5 DEF Ran
  <1> QED BY <1>1, <1>2, <1>3, PlaybackMoves

LEMMA QuietIsOne ==
  ASSUME TypeOK', Quiet', ~Waiting'
  PROVE  OneAnswer'
  BY DEF TypeOK, Quiet, Idle, Blank, Closed, Lone, OneAnswer, Waiting

(* A request on a quiet connection, whatever becomes of it.                 *)
Sent(m) ==
  \/ link = "up" /\ toServer' = Append(toServer, m) /\ UNCHANGED <<link, toClient>>
  \/ link # "up" /\ UNCHANGED <<link, toServer, toClient>>
  \/ link # "up" /\ link' = "up" /\ toServer' = <<m>> /\ toClient' = <<>>

LEMMA AsksOnce ==
  ASSUME TypeOK, Quiet, NEW m, Sent(m), UNCHANGED playing, Waiting',
         op' \in {"ship", "redrive"} => m.kind = "ship"
  PROVE  OneAnswer'
  <1>1. toServer = <<>> /\ playing' # "live"
    BY DEF Quiet, Idle
  <1>2. CASE link' = "up"
    <2>1. toServer' = <<m>> /\ toClient' = <<>>
      BY <1>1, <1>2 DEF Sent, Quiet
    <2>2. Len(toServer') = 1 /\ toServer'[1] = m /\ Len(toClient') = 0
      BY <2>1
    <2> QED BY <1>1, <1>2, <2>1, <2>2 DEF OneAnswer, Lone
  <1>3. CASE link' # "up"
    <2>1. UNCHANGED <<link, toServer, toClient>> /\ Blank
      BY <1>3 DEF Sent, Quiet
    <2>2. Closed' /\ \A i \in 1..Len(toClient') : toClient'[i] \in ShipWords
      BY <2>1 DEF Blank, Closed, ShipWords, TypeOK
    <2> QED BY <1>1, <1>3, <2>1, <2>2 DEF OneAnswer, Idle
  <1> QED BY <1>2, <1>3

(* An answer consumed, or none to come.                                     *)
LEMMA Consumes ==
  ASSUME TypeOK, OneAnswer, PassOver, ~Due \/ toClient # <<>>,
         UNCHANGED <<link, toServer, playing>>
  PROVE  Quiet'
  <1>1. CASE link = "up"
    <2>1. toClient = <<>> => Idle
      BY <1>1 DEF Due, Idle
    <2>2. toClient # <<>> => Idle /\ Len(toClient) = 1
      BY <1>1 DEF OneAnswer, Lone, Idle, TypeOK
    <2>3. toClient' = <<>>
      <3>1. CASE toClient = <<>>
        BY <3>1 DEF PassOver
      <3>2. CASE toClient # <<>>
        BY <2>2, <3>2 DEF PassOver, TypeOK
      <3> QED BY <3>1, <3>2
    <2> QED BY <1>1, <2>1, <2>2, <2>3 DEF Quiet, Idle
  <1>2. CASE link # "up"
    <2>1. Idle /\ Closed
      BY <1>2 DEF OneAnswer
    <2>2. Blank'
      <3>1. CASE toClient = <<>>
        BY <3>1 DEF PassOver, Blank
      <3>2. CASE toClient # <<>>
        <4>1. /\ toClient' = Tail(toClient) /\ Len(toClient) \in Nat
              /\ Len(toClient') = Len(toClient) - 1
              /\ \A i \in 1..Len(toClient') : toClient'[i] = toClient[i + 1]
          BY <3>2, HeadTailProperties DEF PassOver, TypeOK
        <4>2. \A i \in 1..Len(toClient') : i + 1 \in 2..Len(toClient)
          BY <4>1
        <4> QED BY <2>1, <4>1, <4>2 DEF Blank, Closed
      <3> QED BY <3>1, <3>2
    <2> QED BY <1>2, <2>1, <2>2 DEF Quiet, Idle
  <1> QED BY <1>1, <1>2

(* Taking the only request.                                                 *)
LEMMA TakesOnly ==
  ASSUME TypeOK, OneAnswer, NEW kind, NEW t, Takes(kind, t, "live")
  PROVE  /\ toServer' = <<>> /\ toClient = <<>> /\ Waiting /\ link = "up" /\ playing = "no"
         /\ op \in {"ship", "redrive"} /\ pc = "sent" => kind = "ship"
  <1>1. /\ toServer # <<>> /\ Head(toServer) = Request(kind, t) /\ toServer' = Tail(toServer)
        /\ playing = "no"
    BY DEF Takes
  <1>2. Len(toServer) = 1 /\ toClient = <<>> /\ Waiting /\ link = "up"
    BY <1>1 DEF OneAnswer, Quiet, Idle, Lone
  <1>3. Head(toServer) = toServer[1] /\ toServer' = <<>>
    BY <1>1, <1>2 DEF TypeOK
  <1> QED BY <1>1, <1>2, <1>3 DEF OneAnswer, Request

LEMMA AnswersOnce ==
  ASSUME toClient = <<>>, NEW m, Answer("live", m)
  PROVE  Len(toClient') = 1 /\ toClient'[1] = m
  <1>1. toClient' = <<m>>
    BY DEF Answer
  <1> QED BY <1>1

LEMMA OneAnswerStep ==
  ASSUME TypeOK, TypeOK', OneAnswer, [Next]_vars, ~lapsed'
  PROVE  OneAnswer'
  <1> USE DEF serverVars, wireVars, senderVars
  <1>1. CASE UNCHANGED vars
    BY <1>1 DEF vars, OneAnswer, Quiet, Idle, Blank, Closed, Lone, Waiting
  <1>2. ASSUME NEW o, NEW w \in {"describing", "sent"}, NEW m, Start(o, w, m), ~Waiting,
               o \in {"ship", "redrive"} => m.kind = "ship"
        PROVE  OneAnswer'
    <2>1. Quiet
      BY <1>2 DEF OneAnswer
    <2>2. Sent(m)
      BY <1>2 DEF Start, Sends, Sent
    <2> QED BY <1>2, <2>1, <2>2, AsksOnce DEF Start, Waiting
  <1>3. CASE Submit \/ Redrive
    <2>1. Ship.kind = "ship" /\ ~Waiting
      BY <1>3 DEF Ship, Request, Submit, Redrive, Begin, Waiting
    <2> QED BY <1>2, <1>3, <2>1 DEF Submit, Redrive
  <1>4. ASSUME NEW t \in Types, Query(t) \/ Confirm(t) PROVE OneAnswer'
    <2>1. ~Waiting
      BY <1>4 DEF Query, Confirm, Ask, Begin, Waiting
    <2> QED BY <1>2, <1>4, <2>1 DEF Query, Confirm, Ask
  <1>5. CASE Fetch \/ Unpark
    <2>1. Quiet' /\ ~Waiting'
      BY <1>5 DEF Fetch, Unpark, OneAnswer, Quiet, Idle, Blank, Begin, Waiting
    <2> QED BY <2>1, QuietIsOne
  <1>6. CASE TakeReply
    <2>1. PassOver /\ toClient # <<>> /\ ~Waiting' /\ UNCHANGED <<link, toServer, playing>>
      BY <1>6 DEF TakeReply, Finish, PassOver, Waiting
    <2> QED BY <2>1, Consumes, QuietIsOne
  <1>7. CASE ShipUnanswered \/ DescriptionUnanswered \/ ShipBreaksOff
    <2>1. /\ PassOver /\ ~Waiting' /\ UNCHANGED <<link, toServer, playing>>
          /\ ~Due \/ toClient # <<>>
      BY <1>7 DEF ShipUnanswered, DescriptionUnanswered, ShipBreaksOff, Finish, Waiting
    <2> QED BY <2>1, Consumes, QuietIsOne
  <1>8. CASE Resend
    <2>1. Quiet /\ Ship.kind = "ship" /\ Sent(Ship) /\ Waiting' /\ UNCHANGED playing
      BY <1>8 DEF Resend, OneAnswer, Ship, Request, Sent, Waiting
    <2> QED BY <2>1, AsksOnce
  <1>18. ASSUME NEW t \in Types, TakeDescription(t) PROVE OneAnswer'
    <2>1. PassOver /\ toClient # <<>> /\ op \in Asks
      BY <1>18 DEF TakeDescription, PassOver, TypeOK
    <2>2. CASE Head(toClient) \in Refusals
      <3>1. ~Waiting' /\ UNCHANGED <<link, toServer, playing>>
        BY <1>18, <2>2 DEF TakeDescription, Finish, Waiting
      <3> QED BY <2>1, <3>1, Consumes, QuietIsOne
    <2>3. CASE Head(toClient) \notin Refusals
      <3>1. pc' = "sent" /\ op' = op /\ UNCHANGED <<link, playing>>
        BY <1>18, <2>3 DEF TakeDescription
      <3>2. op' \notin {"ship", "redrive"}
        BY <2>1, <3>1 DEF Asks
      <3>3. CASE link = "up"
        <4>1. toServer = <<>> /\ playing # "live" /\ Len(toClient) = 1
          BY <2>1, <3>3 DEF OneAnswer, Lone, TypeOK
        <4>2. toClient' = <<>>
          BY <2>1, <4>1 DEF PassOver, TypeOK
        <4>3. PICK m : toServer' = Append(toServer, m)
          BY <1>18, <2>3, <3>3 DEF TakeDescription
        <4>4. Len(toServer') = 1
          BY <4>1, <4>3
        <4> QED BY <3>1, <3>2, <3>3, <4>1, <4>2, <4>4 DEF OneAnswer, Lone, Waiting
      <3>4. CASE link # "up"
        <4>1. toServer' = toServer /\ Idle /\ Closed
          BY <1>18, <2>3, <3>4 DEF TakeDescription, OneAnswer
        <4>2. ~Due
          BY <3>4 DEF Due
        <4>3. Quiet'
          BY <2>1, <3>1, <4>1, <4>2, Consumes
        <4>4. Closed'
          BY <3>1, <3>4, <4>3 DEF Quiet, Blank, Closed, TypeOK
        <4> QED BY <3>1, <3>2, <3>4, <4>3, <4>4 DEF OneAnswer, Quiet, Waiting
      <3> QED BY <3>3, <3>4
    <2> QED BY <2>2, <2>3
  <1>9. CASE AskUnanswered \/ Disconnect
    <2>1. /\ toServer' = <<>> /\ toClient' = <<>> /\ playing' # "live" /\ link' # "up"
      BY <1>9 DEF AskUnanswered, Disconnect, Abandon
    <2> QED BY <2>1 DEF OneAnswer, Quiet, Idle, Blank, Closed
  <1>19. CASE GatewayAborts
    <2>1. /\ link = "up" /\ link' # "up" /\ toServer' = <<>> /\ playing' # "live"
          /\ toClient' = Append(toClient, "empty") /\ pc' = pc /\ op' = op
      BY <1>19 DEF GatewayAborts, Abandon
    <2>2. Len(toClient) \in 0..1 /\ (Waiting \/ Len(toClient) = 0)
      BY <2>1 DEF OneAnswer, Quiet, Lone, TypeOK
    <2>3. /\ Len(toClient') = Len(toClient) + 1
          /\ \A i \in 1..Len(toClient) : toClient'[i] = toClient[i]
          /\ toClient'[Len(toClient) + 1] = "empty"
      BY <2>1, <2>2, AppendProperties DEF TypeOK, Replies
    <2>4. Closed'
      BY <2>2, <2>3 DEF Closed
    <2>5. Waiting' \/ Blank'
      BY <2>1, <2>2, <2>3 DEF Waiting, Blank
    <2>6. op \in {"ship", "redrive"} /\ pc = "sent" =>
            \A i \in 1..Len(toClient') : toClient'[i] \in ShipWords
      BY <2>2, <2>3 DEF OneAnswer, ShipWords
    <2> QED BY <2>1, <2>4, <2>5, <2>6 DEF OneAnswer, Quiet, Idle
  <1>10. ASSUME NEW kind, NEW t, Takes(kind, t, "orphan"), UNCHANGED toClient, playing' # "live"
         PROVE  OneAnswer'
    BY <1>10 DEF Takes, OneAnswer, Quiet, Idle, Blank, Closed, Lone, Waiting
  <1>11. ASSUME NEW kind, NEW t, NEW m, Takes(kind, t, "live"), Answer("live", m), playing' = playing,
                kind = "ship" => m = "executed"
         PROVE  OneAnswer'
    <2>1. /\ toServer' = <<>> /\ toClient = <<>> /\ Waiting /\ link = "up" /\ playing = "no"
          /\ op \in {"ship", "redrive"} /\ pc = "sent" => kind = "ship"
      BY <1>11, TakesOnly
    <2>2. Len(toClient') = 1 /\ toClient'[1] = m
      BY <1>11, <2>1, AnswersOnce
    <2>3. pc' = pc /\ op' = op /\ link' = link
      BY <1>11 DEF Takes
    <2> QED BY <1>11, <2>1, <2>2, <2>3 DEF OneAnswer, Lone, Waiting, ShipWords
  <1>12. ASSUME NEW from \in Sources, Looks(from) \/ \E t \in Types : AnswerConfirm(t, from)
         PROVE  OneAnswer'
    <2>1. CASE from = "orphan"
      BY <1>10, <1>12, <2>1 DEF Looks, ShipKnown, AnswerConfirm, AnswerQuery, AnswerUnnamed,
                                AnswerDescribe, Answer, Takes
    <2>2. CASE from = "live"
      <3>1. CASE ShipKnown("live")
        BY <1>11, <3>1 DEF ShipKnown
      <3>2. ASSUME NEW t \in Types, AnswerConfirm(t, "live") \/ AnswerQuery(t, "live")
            PROVE  OneAnswer'
        BY <1>11, <3>2 DEF AnswerConfirm, AnswerQuery
      <3>3. CASE AnswerUnnamed("live") \/ AnswerDescribe("live")
        BY <1>11, <3>3 DEF AnswerUnnamed, AnswerDescribe
      <3> QED BY <1>12, <2>2, <3>1, <3>2, <3>3 DEF Looks
    <2> QED BY <2>1, <2>2 DEF Sources
  <1>13. ASSUME NEW from \in Sources, Persist(from) PROVE OneAnswer'
    <2>1. CASE from = "orphan"
      BY <1>10, <1>13, <2>1 DEF Persist
    <2>2. CASE from = "live"
      <3>1. /\ toServer' = <<>> /\ toClient = <<>> /\ Waiting /\ link = "up"
        BY <1>13, <2>2, TakesOnly DEF Persist
      <3>2. pc' = pc /\ op' = op /\ link' = link /\ toClient' = toClient
        BY <1>13 DEF Persist, Takes
      <3> QED BY <3>1, <3>2 DEF OneAnswer, Lone, Waiting
    <2> QED BY <2>1, <2>2 DEF Sources
  <1>14. ASSUME NEW m \in {"ok", "failure"}, Answer(playing, m), playing' = "no",
                UNCHANGED <<senderVars, link, toServer>>
         PROVE  OneAnswer'
    <2>1. CASE playing = "live"
      <3>1. toServer = <<>> /\ toClient = <<>> /\ Waiting /\ link = "up"
        BY <2>1 DEF OneAnswer, Quiet, Idle, Lone
      <3>2. Len(toClient') = 1 /\ toClient'[1] = m
        BY <1>14, <2>1, <3>1, AnswersOnce
      <3> QED BY <1>14, <3>1, <3>2 DEF OneAnswer, Lone, Waiting, ShipWords
    <2>2. CASE playing # "live"
      BY <1>14, <2>2 DEF Answer, OneAnswer, Quiet, Idle, Blank, Closed, Lone, Waiting
    <2> QED BY <2>1, <2>2
  <1>15. CASE CallFails \/ Commit
    BY <1>14, <1>15 DEF CallFails, Commit
  <1>16. CASE PlayCall
    BY <1>16 DEF PlayCall, OneAnswer, Quiet, Idle, Blank, Closed, Lone, Waiting
  <1>17. CASE Crash
    <2>1. toServer' = <<>> /\ toClient' = <<>> /\ playing' # "live"
      BY <1>17 DEF Crash
    <2> QED BY <2>1 DEF OneAnswer, Quiet, Idle, Blank, Closed, Lone
  <1> QED
    BY <1>1, <1>3, <1>4, <1>5, <1>6, <1>7, <1>8, <1>9, <1>12, <1>13, <1>15, <1>16, <1>17,
       <1>18, <1>19, StepKinds DEF SenderMoves, Cuts

LEMMA AsksNoConfirm ==
  ASSUME TypeOK, NobodyClaims, NEW m \in Requests, m.kind # "confirm",
         toServer' \in {toServer, Append(toServer, m), <<m>>}
  PROVE  \A i \in 1..Len(toServer') : toServer'[i].kind # "confirm"
  <1>1. CASE toServer' = toServer
    BY <1>1 DEF NobodyClaims
  <1>2. CASE toServer' = Append(toServer, m)
    <2>1. /\ Len(toServer') = Len(toServer) + 1 /\ Len(toServer) \in Nat
          /\ \A i \in 1..Len(toServer) : toServer'[i] = toServer[i]
          /\ toServer'[Len(toServer) + 1] = m
      BY <1>2, AppendProperties DEF TypeOK
    <2> QED BY <2>1 DEF NobodyClaims
  <1>3. CASE toServer' = <<m>>
    BY <1>3
  <1> QED BY <1>1, <1>2, <1>3

(* Reading says nothing new.                                                *)
LEMMA PassesNotDone ==
  ASSUME TypeOK, NobodyClaims, PassOver
  PROVE  \A i \in 1..Len(toClient') : toClient'[i] \notin DoneWords
  <1>1. CASE toClient = <<>>
    BY <1>1 DEF PassOver
  <1>2. CASE toClient # <<>>
    <2>1. /\ Len(toClient) \in Nat /\ Len(toClient') = Len(toClient) - 1
          /\ \A i \in 1..Len(toClient') : toClient'[i] = toClient[i + 1]
      BY <1>2, HeadTailProperties DEF PassOver, TypeOK
    <2>2. \A i \in 1..Len(toClient') : i + 1 \in 1..Len(toClient)
      BY <2>1
    <2> QED BY <2>1, <2>2 DEF NobodyClaims
  <1> QED BY <1>1, <1>2

LEMMA HeadNotDone ==
  ASSUME TypeOK, toClient # <<>>
  PROVE  /\ NobodyClaims => Head(toClient) \notin DoneWords
         /\ OneAnswer /\ op \in {"ship", "redrive"} /\ pc = "sent" => Head(toClient) \in ShipWords
  <1>1. 1 \in 1..Len(toClient) /\ Head(toClient) = toClient[1]
    BY EmptySeq DEF TypeOK
  <1> QED BY <1>1 DEF NobodyClaims, OneAnswer

LEMMA SaysNotDone ==
  ASSUME TypeOK, NobodyClaims, NEW from, NEW m \in Replies, m \notin DoneWords, Answer(from, m)
  PROVE  \A i \in 1..Len(toClient') : toClient'[i] \notin DoneWords
  <1>1. CASE from = "live"
    <2>1. toClient' = Append(toClient, m)
      BY <1>1 DEF Answer
    <2>2. /\ Len(toClient') = Len(toClient) + 1 /\ Len(toClient) \in Nat
          /\ \A i \in 1..Len(toClient) : toClient'[i] = toClient[i]
          /\ toClient'[Len(toClient) + 1] = m
      BY <2>1, AppendProperties DEF TypeOK
    <2> QED BY <2>2 DEF NobodyClaims
  <1>2. CASE from # "live"
    BY <1>2 DEF Answer, NobodyClaims
  <1> QED BY <1>1, <1>2

(* What is taken was no confirm, and what is left is none.                  *)
LEMMA TakesNoConfirm ==
  ASSUME TypeOK, NobodyClaims, NEW kind, NEW t, NEW from \in {"live", "orphan"}, Takes(kind, t, from)
  PROVE  /\ kind # "confirm"
         /\ \A i \in 1..Len(toServer') : toServer'[i].kind # "confirm"
         /\ \A m \in late' : m.kind # "confirm"
  <1>1. CASE from = "live"
    <2>1. toServer # <<>> /\ Head(toServer) = Request(kind, t) /\ toServer' = Tail(toServer) /\ late' = late
      BY <1>1 DEF Takes
    <2>2. /\ Len(toServer) \in Nat \ {0} /\ Head(toServer) = toServer[1]
          /\ Len(toServer') = Len(toServer) - 1
          /\ \A i \in 1..Len(toServer') : toServer'[i] = toServer[i + 1]
      BY <2>1, HeadTailProperties DEF TypeOK
    <2>3. toServer[1].kind # "confirm"
      BY <2>2 DEF NobodyClaims
    <2>4. ASSUME NEW i \in 1..Len(toServer') PROVE toServer'[i].kind # "confirm"
      <3>1. i + 1 \in 1..Len(toServer)
        BY <2>2
      <3> QED BY <2>2, <3>1 DEF NobodyClaims
    <2> QED BY <2>1, <2>2, <2>3, <2>4 DEF NobodyClaims, Request
  <1>2. CASE from = "orphan"
    BY <1>2 DEF Takes, NobodyClaims, Request
  <1> QED BY <1>1, <1>2

LEMMA ClaimStep ==
  ASSUME ~EarlyConfirm, TypeOK, Played, OneAnswer, NobodyClaims, ~Ran, [Next]_vars, ~misled'
  PROVE  NobodyClaims'
  <1> USE DEF serverVars, wireVars, senderVars
  <1>1. CASE UNCHANGED vars
    BY <1>1 DEF vars, NobodyClaims
  <1>2. ASSUME NEW o, NEW w \in {"describing", "sent"}, NEW m \in Requests, Start(o, w, m),
               m.kind # "confirm", o # "confirm"
        PROVE  NobodyClaims'
    <2>1. toServer' \in {toServer, Append(toServer, m), <<m>>} /\ toClient' \in {toClient, <<>>}
      BY <1>2 DEF Start, Sends
    <2>2. \A i \in 1..Len(toServer') : toServer'[i].kind # "confirm"
      BY <1>2, <2>1, AsksNoConfirm
    <2>3. \A i \in 1..Len(toClient') : toClient'[i] \notin DoneWords
      BY <2>1 DEF NobodyClaims
    <2> QED BY <1>2, <2>2, <2>3 DEF Start, NobodyClaims
  <1>3. CASE Submit \/ Redrive
    <2>1. Ship \in Requests /\ Ship.kind = "ship"
      BY UnitAssumption DEF Ship, Request, Requests
    <2> QED BY <1>2, <1>3, <2>1 DEF Submit, Redrive
  <1>4. ASSUME NEW t \in Types, Query(t) \/ Confirm(t) PROVE NobodyClaims'
    <2>1. ~Confirm(t)
      BY DEF Confirm, NobodyClaims, DoneWords
    <2>2. /\ Request("query", t) \in Requests /\ Request("query", t).kind = "query"
          /\ Describe \in Requests /\ Describe.kind = "describe"
      BY RequestTypes DEF Request, Describe, Asks
    <2> QED BY <1>2, <1>4, <2>1, <2>2 DEF Query, Ask
  <1>5. CASE Fetch
    BY <1>5 DEF Fetch, NobodyClaims
  <1>6. CASE TakeReply
    <2>1. /\ pc = "sent" /\ toClient # <<>> /\ PassOver /\ Head(toClient) # "empty"
          /\ UNCHANGED <<toServer, late, store>>
      BY <1>6 DEF TakeReply, PassOver
    <2>2. \A i \in 1..Len(toClient') : toClient'[i] \notin DoneWords
      BY <2>1, PassesNotDone
    <2>3. Head(toClient) \notin DoneWords
      BY <2>1, HeadNotDone
    <2>4. op \in {"ship", "redrive"} => Head(toClient) \in Refusals
      BY <2>1, <2>3, HeadNotDone DEF DoneWords, ShipWords, Refusals
    <2>5. result' # "ok" /\ told' \notin DoneWords /\ pc' # "unparking" /\ op' # "confirm"
      BY <1>6, <2>3, <2>4, SMTT(30) DEF TakeReply, Finish, NobodyClaims
    <2> QED BY <2>1, <2>2, <2>5 DEF NobodyClaims
  <1>18. ASSUME NEW t \in Types, TakeDescription(t) PROVE NobodyClaims'
    <2>1. /\ toClient # <<>> /\ PassOver /\ op \in Asks
          /\ UNCHANGED <<late, store, told, result>> /\ pc' # "unparking"
          /\ op' \in {op, "none"}
      BY <1>18 DEF TakeDescription, PassOver, TypeOK, Finish
    <2>2. \A i \in 1..Len(toClient') : toClient'[i] \notin DoneWords
      BY <2>1, PassesNotDone
    <2>3. op # "confirm"
      BY <1>18 DEF TakeDescription, NobodyClaims
    <2>4. Request(op, t) \in Requests /\ Request(op, t).kind # "confirm"
      BY <2>1, <2>3, RequestTypes DEF Request
    <2>5. Unnamed \in Requests /\ Unnamed.kind # "confirm"
      BY RequestTypes DEF Unnamed, Request
    <2>6. toServer' \in {toServer, Append(toServer, Request(op, t)), Append(toServer, Unnamed)}
      BY <1>18 DEF TakeDescription, Refusals
    <2>7. \A i \in 1..Len(toServer') : toServer'[i].kind # "confirm"
      BY <2>4, <2>5, <2>6, AsksNoConfirm
    <2> QED BY <2>1, <2>2, <2>7 DEF NobodyClaims
  <1>7. CASE Unpark
    BY <1>7 DEF Unpark, NobodyClaims
  <1>8. CASE ShipUnanswered \/ ShipBreaksOff \/ DescriptionUnanswered
    <2>1. /\ PassOver /\ UNCHANGED <<toServer, late, store, told>>
          /\ result' \in {result, "failed", "exhausted"} /\ pc' \in {"out", "backoff"}
          /\ op' \in {op, "none"}
      BY <1>8 DEF ShipUnanswered, ShipBreaksOff, DescriptionUnanswered, Finish
    <2>2. \A i \in 1..Len(toClient') : toClient'[i] \notin DoneWords
      BY <2>1, PassesNotDone
    <2> QED BY <2>1, <2>2 DEF NobodyClaims
  <1>9. CASE Resend
    <2>1. Ship \in Requests /\ Ship.kind = "ship"
      BY UnitAssumption DEF Ship, Request, Requests
    <2>2. \A i \in 1..Len(toServer') : toServer'[i].kind # "confirm"
      BY <1>9, <2>1, AsksNoConfirm DEF Resend, NobodyClaims
    <2> QED BY <1>9, <2>2 DEF Resend, NobodyClaims
  <1>10. CASE Cuts
    <2>1. /\ Abandon /\ UNCHANGED <<store, told, result>>
          /\ pc' \in {pc, "out"} /\ op' \in {op, "none"}
      BY <1>10, CutsAbandon DEF Cuts, AskUnanswered, Disconnect, GatewayAborts, Finish
    <2>2. \A m \in late' : m.kind # "confirm"
      BY <2>1 DEF Abandon, NobodyClaims
    <2>3. "empty" \in Replies /\ "empty" \notin DoneWords
      BY DEF Replies, DoneWords
    <2>4. toClient' = <<>> \/ Answer("live", "empty")
      BY <1>10 DEF Cuts, AskUnanswered, Disconnect, GatewayAborts, Answer
    <2>5. \A i \in 1..Len(toClient') : toClient'[i] \notin DoneWords
      BY <2>3, <2>4, SaysNotDone
    <2> QED BY <2>1, <2>2, <2>5 DEF Abandon, NobodyClaims
  <1>11. ASSUME NEW from \in Sources
         PROVE  ~ShipKnown(from) /\ \A t \in Types : ~AnswerConfirm(t, from)
    <2>1. ~ShipKnown(from)
      BY UnitAssumption DEF ShipKnown, NobodyClaims, DoneWords
    <2> QED BY <2>1, TakesNoConfirm DEF AnswerConfirm, Sources
  <1>12. ASSUME NEW from \in Sources, Persist(from) PROVE NobodyClaims'
    <2>1. /\ \A i \in 1..Len(toServer') : toServer'[i].kind # "confirm"
          /\ \A m \in late' : m.kind # "confirm"
      BY <1>12, TakesNoConfirm DEF Persist, Sources
    <2>2. \A t \in Types : store'[t] \notin DoneWords
      BY <1>12 DEF Persist, NobodyClaims, TypeOK, DoneWords
    <2>3. UNCHANGED <<op, result, told, pc, toClient>>
      BY <1>12 DEF Persist, Takes
    <2> QED BY <2>1, <2>2, <2>3 DEF NobodyClaims
  <1>13. ASSUME NEW from \in Sources, Looks(from), ~ShipKnown(from) PROVE NobodyClaims'
    <2>1. PICK kind, t : Takes(kind, t, from)
      BY <1>13 DEF Looks, AnswerQuery, AnswerUnnamed, AnswerDescribe
    <2>2. /\ \A i \in 1..Len(toServer') : toServer'[i].kind # "confirm"
          /\ \A m \in late' : m.kind # "confirm"
      BY <2>1, TakesNoConfirm DEF Sources
    <2>3. PICK m \in Replies : m \notin DoneWords /\ Answer(from, m)
      <3>1. \A u \in Types : store[u] \in Replies /\ store[u] \notin DoneWords
        BY DEF TypeOK, NobodyClaims, Replies
      <3>2. /\ {"failure", "described"} \subseteq Replies
            /\ \A m \in {"failure", "described"} : m \notin DoneWords
        BY DEF Replies, DoneWords
      <3> QED BY <1>13, <3>1, <3>2 DEF Looks, AnswerQuery, AnswerUnnamed, AnswerDescribe
    <2>4. \A i \in 1..Len(toClient') : toClient'[i] \notin DoneWords
      BY <2>3, SaysNotDone
    <2>5. UNCHANGED <<op, result, told, pc, store>>
      BY <1>13, LooksOnly
    <2> QED BY <2>2, <2>4, <2>5 DEF NobodyClaims
  <1>14. CASE PlayCall
    BY <1>14 DEF PlayCall, NobodyClaims
  <1>15. CASE CallFails
    <2>1. "failure" \in Replies /\ "failure" \notin DoneWords
      BY DEF Replies, DoneWords
    <2>2. \A i \in 1..Len(toClient') : toClient'[i] \notin DoneWords
      BY <1>15, <2>1, SaysNotDone DEF CallFails
    <2> QED BY <1>15, <2>2 DEF CallFails, NobodyClaims
  <1>16. ~Commit
    <2>1. Calls \in 1..Calls
      BY UnitAssumption
    <2> QED BY <2>1 DEF Commit, Played, Ran
  <1>17. CASE Crash
    <2>1. \A t \in Types : store'[t] \notin DoneWords
      BY <1>17 DEF Crash, NobodyClaims, DoneWords
    <2> QED BY <1>17, <2>1 DEF Crash, NobodyClaims
  <1> QED
    BY <1>1, <1>3, <1>4, <1>5, <1>6, <1>7, <1>8, <1>9, <1>10, <1>11, <1>12, <1>13, <1>14,
       <1>15, <1>16, <1>17, <1>18, StepKinds DEF SenderMoves

(* Giving up unguarded, or being misled, is for good.                       *)
LEMMA InDoubtStays == TypeOK /\ InDoubt /\ [Next]_vars => InDoubt'
  <1> SUFFICES ASSUME TypeOK, InDoubt, [Next]_vars PROVE InDoubt'
    OBVIOUS
  <1> USE DEF InDoubt
  <1>1. CASE SenderMoves
    BY <1>1 DEF SenderMoves, Submit, Fetch, Redrive, Start, TakeReply, Unpark, ShipUnanswered,
      ShipBreaksOff, Resend, DescriptionUnanswered, Query, Confirm, Ask, TakeDescription, wireVars
  <1>2. CASE Cuts
    BY <1>2, CutsAbandon
  <1>3. ASSUME NEW from \in Sources,
               Looks(from) \/ Persist(from) \/ \E t \in Types : AnswerConfirm(t, from)
        PROVE  InDoubt'
    BY <1>3, LooksOnly DEF Persist, AnswerConfirm, Takes
  <1>4. CASE UNCHANGED vars \/ PlayCall \/ CallFails \/ Commit \/ Crash
    BY <1>4 DEF vars, wireVars, PlayCall, CallFails, Commit, Crash
  <1> QED BY <1>1, <1>2, <1>3, <1>4, StepKinds

LEMMA DoneStep ==
  ASSUME ~Coroutines, ~EarlyConfirm
  PROVE  TypeOK /\ TypeOK' /\ DoneInv /\ [Next]_vars => DoneInv'
  <1> SUFFICES ASSUME TypeOK, TypeOK', DoneInv, [Next]_vars, ~InDoubt'
               PROVE  Played' /\ OneAnswer' /\ (Ran' \/ NobodyClaims')
    BY DEF DoneInv
  <1>1. Played /\ OneAnswer /\ (Ran \/ NobodyClaims)
    BY InDoubtStays DEF DoneInv
  <1>2. ~lapsed' /\ ~misled'
    BY DEF InDoubt
  <1> QED BY <1>1, <1>2, PlayedStep, OneAnswerStep, ClaimStep

(* A sender that was told its unit is done, by whatever answer, or is about *)
(* to be told, is not deceived: every call of the unit ran, however often   *)
(* it was shipped, over whichever connections, and wherever the server      *)
(* crashed, with either store.  (It needs synchronous handlers, senders     *)
(* that confirm what was committed, no ship and no request for a            *)
(* description given up before its answer came, and no ship answered by a   *)
(* reply without a return code; connection.py, invoke.py.)                  *)
THEOREM UnitDoneMeansRan ==
  ASSUME ~Coroutines, ~EarlyConfirm
  PROVE  Spec => []DoneMeansRanUnlessInDoubt
  <1>1. Init => DoneInv
    BY DEF Init, DoneInv, Played, OneAnswer, Quiet, Idle, Lone, NobodyClaims, DoneWords
  <1>2. DoneInv => DoneMeansRanUnlessInDoubt
    BY DEF DoneInv, DoneMeansRanUnlessInDoubt, DoneMeansRan, NobodyClaims, DoneWords
  <1> QED BY <1>1, <1>2, InitType, TypeStep, DoneStep, PTL DEF Spec

-----------------------------------------------------------------------------
(* The contract.  Most steps leave what the sender was told, the store of   *)
(* parked units, the last call and the doubts as they are; the others are   *)
(* one step of DeliveryContract each.                                       *)
Unseen == UNCHANGED <<result, parked, runs, lapsed, misled>>

LEMMA UnseenOr ==
  ASSUME [Next]_vars
  PROVE  \/ Unseen \/ PlayCall \/ TakeReply \/ Unpark \/ ShipUnanswered
         \/ ShipBreaksOff \/ DescriptionUnanswered
  <1> USE DEF serverVars, wireVars, senderVars, Unseen
  <1>1. CASE UNCHANGED vars
    BY <1>1 DEF vars
  <1>2. CASE \/ Submit \/ Fetch \/ Redrive \/ Resend
             \/ \E t \in Types : Query(t) \/ Confirm(t) \/ TakeDescription(t)
    BY <1>2 DEF Submit, Fetch, Redrive, Start, Resend, Query, Confirm, Ask, TakeDescription, Finish
  <1>3. CASE Cuts
    BY <1>3, CutsAbandon
  <1>4. ASSUME NEW from \in Sources,
               Looks(from) \/ Persist(from) \/ \E t \in Types : AnswerConfirm(t, from)
        PROVE  Unseen
    BY <1>4, LooksOnly DEF Persist, AnswerConfirm, Takes
  <1>5. CASE CallFails \/ Commit \/ Crash
    BY <1>5 DEF CallFails, Commit, Crash
  <1> QED BY <1>1, <1>2, <1>3, <1>4, <1>5, StepKinds DEF SenderMoves

LEMMA TellsSender ==
  ASSUME NEW how, result' = how
  PROVE  [p \in {"sender"} |-> result'] = [[p \in {"sender"} |-> result] EXCEPT !["sender"] = how]
  OBVIOUS

(* A ship that is answered with a success was played, or something is in    *)
(* doubt, if only from this reply on.                                       *)
LEMMA SuccessEarned ==
  ASSUME TypeOK, DoneInv,
         \/ pc = "unparking"
         \/ /\ pc = "sent" /\ op = "ship" /\ toClient # <<>>
            /\ Head(toClient) \notin Refusals /\ Head(toClient) # "empty"
  PROVE  Ran \/ InDoubt
  <1> SUFFICES ASSUME ~Ran, ~InDoubt PROVE FALSE
    OBVIOUS
  <1>1. OneAnswer /\ NobodyClaims
    BY DEF DoneInv
  <1>2. pc # "unparking"
    BY <1>1 DEF NobodyClaims
  <1>3. Head(toClient) \in ShipWords /\ Head(toClient) \notin DoneWords
    BY <1>1, <1>2, HeadNotDone
  <1> QED BY <1>2, <1>3 DEF ShipWords, DoneWords, Refusals

LEMMA ContractStep ==
  ASSUME TypeOK, TypeOK', OnceInv, OnceInv', DoneInv, [Next]_vars, Stored
  PROVE  [Contract!Next]_(Contract!vars)
  <1>0. InDoubt' \in {InDoubt, TRUE}
    BY InDoubtStays, Zenon DEF InDoubt, TypeOK
  <1>1. CASE Unseen
    BY <1>1 DEF Unseen, Contract!vars, InDoubt
  <1>2. CASE PlayCall
    <2>1. UNCHANGED <<result, parked, lapsed, misled>>
      BY <1>2 DEF PlayCall, senderVars, wireVars
    <2>2. Calls \in 1..Calls /\ runs[Calls] \in Nat
      BY UnitAssumption DEF TypeOK
    <2>3. runs'[Calls] \in {runs[Calls], runs[Calls] + 1}
      <3>1. CASE runs' = runs
        BY <3>1
      <3>2. CASE runs' = [runs EXCEPT ![done + 1] = @ + 1]
        BY <2>2, <3>2 DEF TypeOK
      <3> QED BY <1>2, <3>1, <3>2 DEF PlayCall
    <2>4. CASE runs'[Calls] = runs[Calls]
      BY <2>1, <2>4 DEF Contract!vars, InDoubt
    <2>5. CASE runs'[Calls] = runs[Calls] + 1
      <3>1. runs[Calls] = 0
        BY <2>2, <2>5 DEF OnceInv, PlayedOnce
      <3> QED BY <2>1, <2>5, <3>1 DEF Contract!Next, Contract!Execute, InDoubt
    <2> QED BY <2>3, <2>4, <2>5
  <1>3. ASSUME Ran \/ InDoubt', result' = "ok", parked' \in {parked, FALSE}, UNCHANGED runs
        PROVE  Contract!Succeed("sender")
    BY <1>0, <1>3, TellsSender DEF Ran, Contract!Succeed, Contract!Tell
  <1>7. ASSUME UNCHANGED <<result, parked, runs>> PROVE [Contract!Next]_(Contract!vars)
    <2>1. CASE InDoubt' = InDoubt
      BY <1>7, <2>1 DEF Contract!vars
    <2>2. CASE InDoubt' = TRUE
      BY <1>7, <2>2 DEF Contract!Next, Contract!Lapse
    <2> QED BY <1>0, <2>1, <2>2
  <1>8. ASSUME UNCHANGED <<parked, runs, lapsed, misled>>, result' = "failed"
        PROVE  [Contract!Next]_(Contract!vars)
    BY <1>8, TellsSender DEF Contract!Next, Contract!Fail, Contract!Tell, InDoubt
  <1>4. CASE TakeReply
    <2>1. UNCHANGED <<parked, runs, lapsed>> /\ misled' = (misled \/ Head(toClient) = "empty")
      BY <1>4 DEF TakeReply, Finish, serverVars
    <2>2. \/ result' = result
          \/ result' = "failed" /\ Head(toClient) \in Refusals
          \/ /\ result' = "ok" /\ pc = "sent" /\ op = "ship" /\ toClient # <<>>
             /\ Head(toClient) \notin Refusals
      BY <1>4 DEF TakeReply, Finish
    <2>3. CASE result' = result
      BY <1>7, <2>1, <2>3
    <2>4. CASE result' = "failed" /\ Head(toClient) \in Refusals
      <3>1. Head(toClient) # "empty"
        BY <2>4 DEF Refusals
      <3>2. misled' = misled
        BY <2>1, <3>1, Zenon DEF TypeOK
      <3> QED BY <1>8, <2>1, <2>4, <3>2
    <2>5. CASE /\ result' = "ok" /\ pc = "sent" /\ op = "ship" /\ toClient # <<>>
               /\ Head(toClient) \notin Refusals
      <3>1. Ran \/ InDoubt'
        <4>1. CASE Head(toClient) = "empty"
          BY <2>1, <4>1 DEF InDoubt
        <4>2. CASE Head(toClient) # "empty"
          BY <2>5, <4>2, SuccessEarned, InDoubtStays
        <4> QED BY <4>1, <4>2
      <3> QED BY <1>3, <2>1, <2>5, <3>1 DEF Contract!Next
    <2> QED BY <2>2, <2>3, <2>4, <2>5
  <1>5. CASE Unpark
    <2>1. Ran \/ InDoubt'
      BY <1>5, SuccessEarned, InDoubtStays DEF Unpark
    <2> QED BY <1>3, <1>5, <2>1 DEF Unpark, serverVars, Contract!Next
  <1>6. CASE ShipUnanswered
    <2>1. UNCHANGED runs
      BY <1>6 DEF ShipUnanswered, serverVars
    <2>2. \/ UNCHANGED <<result, parked>>
          \/ result' = "exhausted" /\ parked' = TRUE
      BY <1>6 DEF ShipUnanswered
    <2>3. CASE result' = "exhausted" /\ parked' = TRUE
      BY <1>0, <2>1, <2>3, TellsSender DEF Contract!Next, Contract!GiveUp, Contract!Tell
    <2> QED BY <1>7, <2>1, <2>2, <2>3
  <1>9. CASE ShipBreaksOff
    BY <1>8, <1>9 DEF ShipBreaksOff, Finish, serverVars
  <1>10. CASE DescriptionUnanswered
    BY <1>7, <1>10 DEF DescriptionUnanswered, Finish, serverVars
  <1> QED BY <1>1, <1>2, <1>4, <1>5, <1>6, <1>9, <1>10, UnseenOr

(* UnitDelivery implements DeliveryContract, on the terms of the two        *)
(* theorems above and given a store to park in: shipping, retrying, parking,*)
(* re-driving, querying and confirming come to one execution at most, and to*)
(* reports of it that are true until something is in doubt (connection.py,  *)
(* the unit handle and retry_parked_unit).                                  *)
THEOREM UnitMeetsContract ==
  ASSUME Durable, "played" \notin CrashAt, ~Coroutines, ~EarlyConfirm, Stored
  PROVE  Spec => ImplementsContract
  <1>1. Init => Contract!Init
    BY UnitAssumption DEF Init, Contract!Init, InDoubt
  <1>2. Init => OnceInv
    BY UnitAssumption DEF Init, OnceInv, PlayedOnce, Ran
  <1>3. Init => DoneInv
    BY DEF Init, DoneInv, Played, OneAnswer, Quiet, Idle, Lone, NobodyClaims, DoneWords
  <1>4. TypeOK /\ TypeOK' /\ OnceInv /\ OnceInv' /\ DoneInv /\ [Next]_vars => [Contract!Next]_(Contract!vars)
    BY ContractStep
  <1> QED
    BY <1>1, <1>2, <1>3, <1>4, InitType, TypeStep, OnceStep, DoneStep, PTL
    DEF Spec, ImplementsContract, Contract!Spec
=============================================================================
