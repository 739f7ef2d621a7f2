---------------------------- MODULE ConnectPath ----------------------------
(***************************************************************************)
(* connect() (connection.py): from the caller's parameters to a connection *)
(* that is READY, or, for wRFC, whose logon is left to its first operation.*)
(* A path resolves a logon group at the message server (router.py), opens  *)
(* a socket, takes it through a SOCKS5 proxy (socks5.py) or a tunnel, TLS  *)
(* and the WebSocket upgrade (ws.py), asks a SAProuter for its route, and  *)
(* does the NI, gateway and logon legs (session.py), with the GSS exchange *)
(* of SNC (snc.py) before the logon.                                       *)
(*                                                                         *)
(* The far ends are external: each request they get is answered at once,   *)
(* or refused, dropped or left unanswered, which are faults.               *)
(***************************************************************************)
EXTENDS Naturals, Sequences

CONSTANTS
  Paths,         (* the parameters connect() is called with                 *)
  MaxFaults,
  MaxRounds      (* GSS tokens the mechanism asks for, beyond the first     *)

Kinds == {"classic", "socks", "snc", "ws"}
AllPaths == [kind : Kinds, group : BOOLEAN, router : BOOLEAN,
             jwt : BOOLEAN,        (* SOCKS5 with a SAP JWT                 *)
             tunnel : BOOLEAN,     (* an HTTP CONNECT proxy before TLS      *)
             named : BOOLEAN,      (* user and password were given          *)
             timed : BOOLEAN]      (* timeout and read_timeout were given   *)

ASSUME PathAssumption == Paths \subseteq AllPaths
ASSUME BoundAssumption == MaxFaults \in Nat /\ MaxRounds \in Nat

VARIABLES
  path,
  at,            (* the read or step connect() is at; "raised", "connected" *)
  session,       (* Session.state                                           *)
  ms, sock,      (* the sockets to the message server and to the far end    *)
  secure,        (* "no", "tls" or "gss"                                    *)
  sent,          (* <<request, secure>>, in order; a repeated one once      *)
  unread,        (* replies that came: [to, ok]                             *)
  redirected, rounds,
  failedAt,      (* the step it raised at                                   *)
  faults

pathVars == <<path, at, session, ms, sock, secure, sent, unread, redirected,
              rounds, failedAt, faults>>

Init ==
  /\ path \in Paths
  /\ at = IF path.group THEN "ms" ELSE "tcp"
  /\ session = "DISCONNECTED"
  /\ ms = "none" /\ sock = "none" /\ secure = "no"
  /\ sent = <<>> /\ unread = <<>>
  /\ redirected = FALSE /\ rounds = 0
  /\ failedAt = "nowhere" /\ faults = 0

Fault == faults < MaxFaults /\ faults' = faults + 1

-----------------------------------------------------------------------------
(* Reads and replies                                                     *)

Sends(r) ==
  sent' = IF sent # <<>> /\ sent[Len(sent)] = <<r, secure'>> THEN sent
          ELSE Append(sent, <<r, secure'>>)

(* A request goes out, its reply may come behind what is unread, and the    *)
(* next step is to read it.                                                 *)
Ask(r, before) ==
  /\ at' = r
  /\ Sends(r)
  /\ \/ unread' = Append(before, [to |-> r, ok |-> TRUE]) /\ UNCHANGED faults
     \/ Fault /\ unread' = Append(before, [to |-> r, ok |-> FALSE])
     \/ Fault /\ unread' = before

(* A reply was read at r, and the code takes it for r's.                    *)
Answered(r) ==
  /\ at = r /\ unread # <<>> /\ Head(unread).ok
  /\ UNCHANGED path

AskNext(r) == Ask(r, Tail(unread))

(* DEFAULT_READ_TIMEOUT is None: reads wait for ever unless told otherwise. *)
(* The reply fails a check, the peer hangs up, or the read times out.       *)
GivesUp == \/ unread # <<>> /\ ~Head(unread).ok
           \/ unread = <<>> /\ path.timed

(* Steps whose failure closes the socket they work on.                      *)
Guarded == {"socks method", "socks jwt", "socks connect", "tunnel", "tls", "redirect", "upgrade"}

(* Mutant: before the tunnel stands nobody closes the socket.               *)
RaiseFromTunnel ==
  /\ at' = "raised" /\ failedAt' = at
  /\ ms' = IF ms = "open" THEN "closed" ELSE ms
  /\ sock' = IF at \in Guarded \ {"tunnel"} THEN "closed" ELSE sock
  /\ UNCHANGED <<path, session, secure, sent, unread, redirected, rounds>>

Raise ==
  /\ at' = "raised" /\ failedAt' = at
  /\ ms' = IF ms = "open" THEN "closed" ELSE ms
  /\ sock' = IF at \in Guarded THEN "closed" ELSE sock
  /\ UNCHANGED <<path, session, secure, sent, unread, redirected, rounds>>

Reads == {"ms attach", "ms list", "socks method", "socks jwt", "socks connect",
          "tunnel", "upgrade", "route", "ni", "gw connect", "gw done", "gss", "logon"}

ReadFails == at \in Reads /\ GivesUp /\ Raise /\ UNCHANGED faults

(* No connection; a certificate that does not verify; a redirect to nowhere; *)
(* a GSS library that does not load, or a context it does not establish.    *)
StepFails == at \in {"ms", "tcp", "tls", "redirect", "snc", "init", "gss"} /\ Fault /\ Raise

-----------------------------------------------------------------------------
(* The message server: attach, list, first record, detach.                  *)

ResolveGroup ==
  /\ at = "ms"
  /\ ms' = "open"
  /\ UNCHANGED <<path, session, sock, secure, redirected, rounds, failedAt>>
  /\ Ask("ms attach", unread)

AttachAnswered ==
  /\ Answered("ms attach")
  /\ UNCHANGED <<session, ms, sock, secure, redirected, rounds, failedAt>>
  /\ AskNext("ms list")

ListAnswered ==
  /\ Answered("ms list")
  /\ at' = "tcp" /\ ms' = "closed" /\ unread' = Tail(unread)
  /\ UNCHANGED <<session, sock, secure, sent, redirected, rounds, failedAt, faults>>

-----------------------------------------------------------------------------
(* The socket and what it is taken through                                  *)

(* _handshake() on a new session; a wRFC session has no legs and only keeps *)
(* the credentials, which it must have: refused, the socket stays open.     *)
Handshake(before) ==
  CASE path.kind # "ws" -> session' = "CONNECTED" /\ Ask("ni", before) /\ UNCHANGED failedAt
    [] path.kind = "ws" /\ path.named ->
         /\ at' = "connected" /\ session' = "WS_PENDING" /\ unread' = before
         /\ UNCHANGED <<sent, failedAt, faults>>
    [] OTHER -> /\ at' = "raised" /\ failedAt' = "handshake" /\ unread' = before
                /\ UNCHANGED <<session, sent, faults>>

(* A SAProuter is asked first, but by SNC only after its NI exchange.       *)
Route == path.router /\ path.kind # "snc"

(* Mutant: the route's acknowledgement is left to be read.                  *)
GreetUnacknowledged(before) ==
  Handshake(IF Route THEN Append(before, [to |-> "route", ok |-> TRUE]) ELSE before)

Greet(before) ==
  IF Route THEN Ask("route", before) /\ UNCHANGED <<session, failedAt>>
           ELSE Handshake(before)

OpenSocket ==
  /\ at = "tcp"
  /\ sock' = "open"
  /\ UNCHANGED <<path, ms, secure, redirected, rounds>>
  /\ CASE path.kind = "socks" -> Ask("socks method", unread) /\ UNCHANGED <<session, failedAt>>
       [] path.kind = "ws" /\ path.tunnel -> Ask("tunnel", unread) /\ UNCHANGED <<session, failedAt>>
       [] path.kind = "ws" /\ ~path.tunnel -> at' = "tls" /\ UNCHANGED <<session, sent, unread, failedAt, faults>>
       [] path.kind = "snc" -> session' = "CONNECTED" /\ Ask("ni", unread) /\ UNCHANGED failedAt
       [] path.kind = "classic" -> Greet(unread)

(* SOCKS5: the offered method was selected, the token accepted, the         *)
(* destination connected.                                                   *)
MethodSelected ==
  /\ Answered("socks method")
  /\ UNCHANGED <<session, ms, sock, secure, redirected, rounds, failedAt>>
  /\ AskNext(IF path.jwt THEN "socks jwt" ELSE "socks connect")

TokenAccepted ==
  /\ Answered("socks jwt")
  /\ UNCHANGED <<session, ms, sock, secure, redirected, rounds, failedAt>>
  /\ AskNext("socks connect")

ProxyConnected ==
  /\ Answered("socks connect")
  /\ UNCHANGED <<ms, sock, secure, redirected, rounds>>
  /\ Greet(Tail(unread))

TunnelStands ==
  /\ Answered("tunnel")
  /\ at' = "tls" /\ unread' = Tail(unread)
  /\ UNCHANGED <<session, ms, sock, secure, sent, redirected, rounds, failedAt, faults>>

(* The upgrade carries the credentials.                                     *)
TlsEstablished ==
  /\ at = "tls"
  /\ secure' = "tls"
  /\ UNCHANGED <<path, session, ms, sock, redirected, rounds, failedAt>>
  /\ Ask("upgrade", unread)

Upgraded ==
  /\ Answered("upgrade")
  /\ UNCHANGED <<ms, sock, secure, redirected, rounds>>
  /\ Greet(Tail(unread))

(* Mutant: every redirect is followed.                                      *)
FollowsRedirects ==
  /\ Answered("upgrade")
  /\ at' = "redirect" /\ redirected' = TRUE /\ unread' = Tail(unread)
  /\ UNCHANGED <<session, ms, sock, secure, sent, rounds, failedAt, faults>>

(* One redirect is followed, on the same socket; a second one is refused.   *)
FollowsRedirect ==
  /\ ~redirected
  /\ Answered("upgrade")
  /\ at' = "redirect" /\ redirected' = TRUE /\ unread' = Tail(unread)
  /\ UNCHANGED <<session, ms, sock, secure, sent, rounds, failedAt, faults>>

Redirected ==
  /\ at = "redirect"
  /\ UNCHANGED <<path, session, ms, sock, secure, redirected, rounds, failedAt>>
  /\ Ask("upgrade", unread)

RefusesRedirect == redirected /\ Answered("upgrade") /\ Raise /\ UNCHANGED faults

-----------------------------------------------------------------------------
(* The legs of the session                                                  *)

(* NI_PONG                                                                  *)
RouteAnswered ==
  /\ Answered("route")
  /\ UNCHANGED <<ms, sock, secure, redirected, rounds>>
  /\ IF path.kind = "snc" THEN AskNext("gw connect") /\ UNCHANGED <<session, failedAt>>
                          ELSE Handshake(Tail(unread))

NiAnswered ==
  /\ Answered("ni")
  /\ session' = "NI_VERSIONED"
  /\ UNCHANGED <<ms, sock, secure, redirected, rounds, failedAt>>
  /\ IF path.kind = "snc" THEN at' = "snc" /\ unread' = Tail(unread) /\ UNCHANGED <<sent, faults>>
                          ELSE AskNext("gw connect")

(* The GSS library is loaded and credentials are acquired.                  *)
SncReady ==
  /\ at = "snc"
  /\ UNCHANGED <<path, session, ms, sock, secure, redirected, rounds, failedAt>>
  /\ Ask(IF path.router THEN "route" ELSE "gw connect", unread)

GwConnectAnswered ==
  /\ Answered("gw connect")
  /\ session' = "GW_CONNECTED"
  /\ UNCHANGED <<ms, sock, secure, redirected, rounds, failedAt>>
  /\ AskNext("gw done")

(* Mutant: the logon is sent as soon as the gateway is done.                *)
GwDoneLogsOn ==
  /\ Answered("gw done")
  /\ session' = "GW_DONE"
  /\ UNCHANGED <<ms, sock, secure, redirected, rounds, failedAt>>
  /\ AskNext("logon")

GwDoneAnswered ==
  /\ Answered("gw done")
  /\ session' = "GW_DONE"
  /\ UNCHANGED <<ms, sock, secure, redirected, rounds, failedAt>>
  /\ IF path.kind = "snc" THEN at' = "init" /\ unread' = Tail(unread) /\ UNCHANGED <<sent, faults>>
                          ELSE AskNext("logon")

(* init_sec_context: a token to send and another one to read, or the        *)
(* context is established and the logon goes out wrapped.                   *)
GssToken ==
  /\ at = "init"
  /\ UNCHANGED <<path, session, ms, sock, redirected, failedAt>>
  /\ \/ rounds < MaxRounds /\ rounds' = rounds + 1 /\ UNCHANGED secure /\ Ask("gss", unread)
     \/ secure' = "gss" /\ UNCHANGED rounds /\ Ask("logon", unread)

GssAnswered ==
  /\ Answered("gss")
  /\ at' = "init" /\ unread' = Tail(unread)
  /\ UNCHANGED <<session, ms, sock, secure, sent, redirected, rounds, failedAt, faults>>

LogonAnswered ==
  /\ Answered("logon")
  /\ at' = "connected" /\ session' = "READY" /\ unread' = Tail(unread)
  /\ UNCHANGED <<ms, sock, secure, sent, redirected, rounds, failedAt, faults>>

-----------------------------------------------------------------------------
PathStep ==
  \/ ResolveGroup \/ AttachAnswered \/ ListAnswered
  \/ OpenSocket \/ MethodSelected \/ TokenAccepted \/ ProxyConnected
  \/ TunnelStands \/ TlsEstablished \/ Upgraded \/ FollowsRedirect \/ Redirected
  \/ RefusesRedirect
  \/ RouteAnswered \/ NiAnswered \/ SncReady \/ GwConnectAnswered \/ GwDoneAnswered
  \/ GssToken \/ GssAnswered \/ LogonAnswered
  \/ ReadFails \/ StepFails

Steps == Reads \union {"ms", "tcp", "tls", "redirect", "snc", "init"}
Ends == {"connected", "raised"}

PathTypeOK ==
  /\ path \in Paths
  /\ at \in Steps \union Ends
  /\ session \in {"DISCONNECTED", "CONNECTED", "NI_VERSIONED", "GW_CONNECTED", "GW_DONE",
                  "WS_PENDING", "READY", "IN_CALL", "BROKEN"}
  /\ {ms, sock} \subseteq {"none", "open", "closed"} /\ secure \in {"no", "tls", "gss"}
  /\ sent \in Seq(Reads \X {"no", "tls", "gss"})
  /\ unread \in Seq([to : Reads, ok : BOOLEAN])
  /\ redirected \in BOOLEAN /\ rounds \in 0..MaxRounds
  /\ failedAt \in Steps \union {"nowhere", "handshake"}
  /\ faults \in 0..MaxFaults

(* Every reply is read where the code expects it: it is the reply to the    *)
(* request before it, although some requests are built by another module    *)
(* over another transport, and only the session's own legs are checked by   *)
(* a state machine.                                                         *)
InStep ==
  /\ at \in Reads => \A i \in DOMAIN unread : unread[i].to = at
  /\ at \notin Reads \union {"raised"} => unread = <<>>

(* What carries the caller's password goes out once the path in front of it *)
(* stands: after the route, the proxy and the legs, and under the           *)
(* protection the path asked for.                                           *)
Before(request) ==
  (IF path.router /\ request = "logon" THEN {"route"} ELSE {})
    \union (IF path.kind = "socks" THEN {"socks connect"} ELSE {})
    \union (IF path.kind = "socks" /\ path.jwt THEN {"socks jwt"} ELSE {})
    \union (IF path.tunnel /\ request = "upgrade" THEN {"tunnel"} ELSE {})
    \union (IF request = "logon" THEN {"ni", "gw connect", "gw done"} ELSE {})

Protection == CASE path.kind = "snc" -> "gss" [] path.kind = "ws" -> "tls" [] OTHER -> "no"

CredentialsLast ==
  \A i \in DOMAIN sent : sent[i][1] \in {"logon", "upgrade"} =>
    /\ sent[i][2] = Protection
    /\ Before(sent[i][1]) \subseteq {sent[j][1] : j \in 1..i-1}
    /\ sent[i][1] = "logon" => i = Len(sent)

(* A socket that has not become a connection is closed by the step that     *)
(* fails on it, and the message server's in any case.                       *)
FailureCloses ==
  /\ ms = "open" => at \in {"ms attach", "ms list"}
  /\ at = "raised" /\ failedAt \in {"socks method", "socks jwt", "socks connect",
                                    "tunnel", "tls", "redirect", "upgrade"} => sock = "closed"

(* With timeouts every path comes to an end, whatever the far ends do: they *)
(* may redirect an upgrade again and again.                                 *)
ConnectEnds == path.timed ~> at \in Ends
=============================================================================
