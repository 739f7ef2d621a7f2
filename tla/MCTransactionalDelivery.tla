---------------------- MODULE MCTransactionalDelivery ----------------------
(***************************************************************************)
(* TransactionalDelivery on small instances: the submitter and one other   *)
(* connection that shares its store of parked calls.                       *)
(***************************************************************************)
EXTENDS TransactionalDelivery
=============================================================================
