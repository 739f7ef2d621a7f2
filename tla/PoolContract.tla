---------------------------- MODULE PoolContract ----------------------------
(***************************************************************************)
(* What a connection pool promises its callers, whatever it does inside:   *)
(* at most MaxSize callers have a connection or a claim to one, a          *)
(* connection is lent to one caller at a time, a claim may be withdrawn,   *)
(* and a closed pool grants no new claim.                                  *)
(***************************************************************************)
EXTENDS Integers, FiniteSets

CONSTANTS Threads, Conns, NoConn, MaxSize

VARIABLES
  stage,    (* "away", "asking", "reserved" or "lent", for each caller      *)
  lent,     (* the connection lent to each caller                           *)
  closed

vars == <<stage, lent, closed>>

Init ==
  /\ stage = [t \in Threads |-> "away"]
  /\ lent = [t \in Threads |-> NoConn]
  /\ closed = FALSE

Claims == {t \in Threads : stage[t] \in {"reserved", "lent"}}

Move(t, from, to) ==
  /\ stage[t] = from
  /\ stage' = [stage EXCEPT ![t] = to]

Ask(t) == Move(t, "away", "asking") /\ UNCHANGED <<lent, closed>>

Refuse(t) == Move(t, "asking", "away") /\ UNCHANGED <<lent, closed>>

Reserve(t) ==
  /\ ~closed
  /\ Cardinality(Claims) < MaxSize
  /\ Move(t, "asking", "reserved")
  /\ UNCHANGED <<lent, closed>>

(* The candidate turned out dead, or the connection could not be opened.    *)
Withdraw(t) ==
  /\ \/ Move(t, "reserved", "asking")
     \/ Move(t, "reserved", "away")
  /\ UNCHANGED <<lent, closed>>

Lend(t) ==
  /\ Move(t, "reserved", "lent")
  /\ \E c \in Conns :
        /\ \A u \in Threads : lent[u] # c
        /\ lent' = [lent EXCEPT ![t] = c]
  /\ UNCHANGED closed

GiveBack(t) ==
  /\ Move(t, "lent", "away")
  /\ lent' = [lent EXCEPT ![t] = NoConn]
  /\ UNCHANGED closed

Close == closed' = TRUE /\ UNCHANGED <<stage, lent>>

Next ==
  \/ Close
  \/ \E t \in Threads :
       Ask(t) \/ Refuse(t) \/ Reserve(t) \/ Withdraw(t) \/ Lend(t) \/ GiveBack(t)

Spec == Init /\ [][Next]_vars
=============================================================================
