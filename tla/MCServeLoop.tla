---------------------------- MODULE MCServeLoop ----------------------------
(* Two application threads, one to serve and one to stop.                   *)
EXTENDS ServeLoop
=============================================================================
