-------------------------- MODULE MCConnectionPool --------------------------
(***************************************************************************)
(* ConnectionPool on small instances: three threads contending for two     *)
(* slots, enough connection identities for the replacements that exist at  *)
(* once, and a few peer failures.                                          *)
(***************************************************************************)
EXTENDS ConnectionPool
=============================================================================
