------------------------ MODULE MCAsyncConnectionPool ------------------------
(***************************************************************************)
(* AsyncConnectionPool on small instances.                                 *)
(***************************************************************************)
EXTENDS AsyncConnectionPool

=============================================================================
