---------------------------- MODULE MCWsSession ----------------------------
(* Two threads, and a path of each kind with what it may be combined with.  *)
EXTENDS WsSession

Plain == [kind |-> "classic", group |-> FALSE, router |-> FALSE, jwt |-> FALSE,
          tunnel |-> FALSE, named |-> TRUE, timed |-> TRUE]

MCPaths == {
  [Plain EXCEPT !.group = TRUE, !.router = TRUE],
  [Plain EXCEPT !.timed = FALSE],
  [Plain EXCEPT !.kind = "socks", !.jwt = TRUE, !.router = TRUE],
  [Plain EXCEPT !.kind = "socks"],
  [Plain EXCEPT !.kind = "snc", !.router = TRUE],
  [Plain EXCEPT !.kind = "snc"],
  [Plain EXCEPT !.kind = "ws"],
  [Plain EXCEPT !.kind = "ws", !.timed = FALSE],
  [Plain EXCEPT !.kind = "ws", !.tunnel = TRUE, !.router = TRUE],
  [Plain EXCEPT !.kind = "ws", !.named = FALSE]}
=============================================================================
