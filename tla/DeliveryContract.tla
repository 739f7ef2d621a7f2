-------------------------- MODULE DeliveryContract --------------------------
(***************************************************************************)
(* What a transactional delivery promises the parties that share its ID,   *)
(* a TID or a unit ID, whatever it does inside: the work is done once at   *)
(* most; a party is told it succeeded only when it is done, unless answers *)
(* have come in doubt, by a read that was given up on a connection that    *)
(* stays in use or by a reply that says neither success nor failure; a     *)
(* party that gives up leaves it in the store of parked calls, from which  *)
(* it goes only when a party is told it succeeded; and nobody confirms but *)
(* a party that was told so.  (It does not promise that a party told of a  *)
(* failure was not executed: RFC_EXECUTED is reported as one, and so is a  *)
(* reply that breaks off, which raises something else.)                    *)
(***************************************************************************)
EXTENDS Naturals

CONSTANTS Parties

VARIABLES
  said,     (* how each party's last submission ended                       *)
  kept,     (* the call is in the store, to be driven again                 *)
  done,     (* times it was executed                                        *)
  doubt     (* an answer may have been taken for what it does not say       *)

vars == <<said, kept, done, doubt>>

Init ==
  /\ said = [p \in Parties |-> "none"]
  /\ kept = FALSE /\ done = 0 /\ doubt = FALSE

Execute == done = 0 /\ done' = 1 /\ UNCHANGED <<said, kept, doubt>>

Tell(p, how) == said' = [said EXCEPT ![p] = how]

Succeed(p) ==
  /\ doubt' \in {doubt, TRUE}
  /\ done > 0 \/ doubt'
  /\ Tell(p, "ok")
  /\ kept' \in {kept, FALSE}
  /\ UNCHANGED done

Fail(p) ==
  /\ \E how \in {"failed", "raised"} : Tell(p, how)
  /\ UNCHANGED <<kept, done, doubt>>

GiveUp(p) ==
  /\ Tell(p, "exhausted")
  /\ kept' = TRUE
  /\ doubt' \in {doubt, TRUE}
  /\ UNCHANGED done

Confirm(p) ==
  /\ said[p] = "ok"
  /\ Tell(p, "confirmed")
  /\ UNCHANGED <<kept, done, doubt>>

Lapse == doubt' = TRUE /\ UNCHANGED <<said, kept, done>>

Next ==
  \/ Execute \/ Lapse
  \/ \E p \in Parties : Succeed(p) \/ Fail(p) \/ GiveUp(p) \/ Confirm(p)

Spec == Init /\ [][Next]_vars
=============================================================================
