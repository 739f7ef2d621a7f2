-------------------------- MODULE WsSessionProofs --------------------------
(***************************************************************************)
(* Proofs about WsSession and the path of ConnectPath that leads to it, for *)
(* any set of paths, threads, and any number of faults, GSS rounds and     *)
(* operations.                                                             *)
(***************************************************************************)
EXTENDS WsSession, SequenceTheorems, TLAPS

Asked == {sent[j][1] : j \in 1..Len(sent)}

(* Which steps belong to which kind of path, and how it is protected there. *)
KindFits ==
  /\ at \in {"tunnel", "tls", "upgrade", "redirect"} => path.kind = "ws"
  /\ at \in {"socks method", "socks jwt", "socks connect"} => path.kind = "socks"
  /\ at \in {"snc", "init", "gss"} => path.kind = "snc"
  /\ at \in {"ni", "gw connect", "gw done", "logon"} => path.kind # "ws"
  /\ path.kind \in {"classic", "socks"} => secure = "no"
  /\ at \in {"upgrade", "redirect"} => secure = "tls"

(* What has been asked for when a step is reached.                          *)
AskedBefore ==
  /\ at \in Reads => at \in Asked
  /\ at \notin {"logon", "connected", "raised"} => "logon" \notin Asked
  /\ path.jwt /\ at = "socks connect" => "socks jwt" \in Asked
  /\ path.kind = "socks" /\ at \in {"route", "ni", "gw connect", "gw done", "logon"} =>
       "socks connect" \in Asked /\ (path.jwt => "socks jwt" \in Asked)
  /\ path.tunnel /\ at \in {"tls", "upgrade", "redirect"} => "tunnel" \in Asked
  /\ path.router /\ path.kind # "snc" /\ at = "ni" => "route" \in Asked
  /\ path.kind = "snc" /\ at \in {"snc", "route"} => "ni" \in Asked
  /\ path.router /\ at \in {"gw connect", "gw done", "init", "gss"} => "route" \in Asked
  /\ at \in {"gw connect", "gw done", "init", "gss"} => "ni" \in Asked
  /\ at \in {"gw done", "init", "gss"} => "gw connect" \in Asked
  /\ at \in {"init", "gss"} => "gw done" \in Asked

(* One reply at a time.                                                     *)
UnreadFits ==
  /\ unread = <<>> \/ \E r \in [to : Reads, ok : BOOLEAN] : unread = <<r>>
  /\ InStep

Sent == Reads \X {"no", "tls", "gss"}

PathInv ==
  /\ path \in AllPaths /\ at \in Steps \union Ends
  /\ sent \in Seq(Sent) /\ secure \in {"no", "tls", "gss"}
  /\ UnreadFits /\ KindFits /\ AskedBefore /\ CredentialsLast /\ FailureCloses

-----------------------------------------------------------------------------
LEMMA CredentialsKept ==
  ASSUME CredentialsLast, path' = path, sent' = sent
  PROVE  CredentialsLast'
  <1>1. Protection' = Protection /\ \A r : Before(r)' = Before(r)
    BY DEF Protection, Before
  <1> QED BY <1>1, SMTT(30) DEF CredentialsLast

LEMMA NothingUnread ==
  ASSUME unread' = <<>> PROVE UnreadFits'
  <1>1. DOMAIN unread' = {}
    OBVIOUS
  <1> QED BY <1>1 DEF UnreadFits, InStep

(* A request goes out: what it may carry depends on what went before.       *)
LEMMA SendsOne ==
  ASSUME sent \in Seq(Sent), NEW r \in Reads, Sends(r), secure' \in {"no", "tls", "gss"},
         CredentialsLast, path' = path, "logon" \notin Asked,
         r \in {"logon", "upgrade"} => secure' = Protection /\ Before(r) \subseteq Asked
  PROVE  sent' \in Seq(Sent) /\ Asked' = Asked \union {r} /\ CredentialsLast'
  <1> DEFINE m == <<r, secure'>>
  <1>0. m \in Sent /\ m[1] = r /\ m[2] = secure'
    BY DEF Sent
  <1>1. CASE sent # <<>> /\ sent[Len(sent)] = m
    <2>1. sent' = sent
      BY <1>1 DEF Sends
    <2>2. Len(sent) \in 1..Len(sent)
      BY <1>1
    <2>3. r \in Asked
      BY <1>0, <1>1, <2>2 DEF Asked
    <2>4. CredentialsLast'
      BY <2>1, CredentialsKept
    <2> QED BY <2>1, <2>3, <2>4 DEF Asked
  <1>2. CASE ~(sent # <<>> /\ sent[Len(sent)] = m)
    <2>1. sent' = Append(sent, m)
      BY <1>2 DEF Sends
    <2>2. /\ sent' \in Seq(Sent) /\ Len(sent') = Len(sent) + 1 /\ Len(sent) \in Nat
          /\ \A i \in 1..Len(sent) : sent'[i] = sent[i]
          /\ sent'[Len(sent) + 1] = m
          /\ DOMAIN sent = 1..Len(sent) /\ DOMAIN sent' = 1..Len(sent')
      BY <1>0, <2>1, AppendProperties
    <2>3. Asked' = Asked \union {r}
      <3>1. ASSUME NEW x \in Asked' PROVE x \in Asked \union {r}
        BY <1>0, <2>2, <3>1 DEF Asked
      <3>2. ASSUME NEW x \in Asked PROVE x \in Asked'
        <4>1. PICK j \in 1..Len(sent) : x = sent[j][1]
          BY <3>2 DEF Asked
        <4>2. j \in 1..Len(sent') /\ sent'[j][1] = x
          BY <2>2, <4>1
        <4> QED BY <4>2 DEF Asked
      <3>3. Len(sent) + 1 \in 1..Len(sent')
        BY <2>2
      <3>4. r \in Asked'
        BY <1>0, <2>2, <3>3 DEF Asked
      <3> QED BY <3>1, <3>2, <3>4
    <2>4. CredentialsLast'
      <3> SUFFICES ASSUME NEW i \in 1..Len(sent'), sent'[i][1] \in {"logon", "upgrade"}
                   PROVE  /\ sent'[i][2] = Protection
                          /\ Before(sent'[i][1]) \subseteq {sent'[j][1] : j \in 1..i-1}
                          /\ sent'[i][1] = "logon" => i = Len(sent')
        BY <2>2 DEF CredentialsLast, Protection, Before
      <3>1. CASE i = Len(sent) + 1
        <4>1. i - 1 = Len(sent) /\ \A j \in 1..i-1 : sent'[j] = sent[j]
          BY <2>2, <3>1
        <4>2. Asked = {sent'[j][1] : j \in 1..i-1}
          BY <4>1 DEF Asked
        <4> QED BY <1>0, <2>2, <3>1, <4>2
      <3>2. CASE i # Len(sent) + 1
        <4>1. i \in 1..Len(sent) /\ sent'[i] = sent[i] /\ \A j \in 1..i-1 : sent'[j] = sent[j]
          BY <2>2, <3>2
        <4>2. {sent'[j][1] : j \in 1..i-1} = {sent[j][1] : j \in 1..i-1}
          BY <4>1
        <4>3. sent[i][1] # "logon"
          BY <4>1 DEF Asked
        <4> QED BY <2>2, <4>1, <4>2, <4>3 DEF CredentialsLast
      <3> QED BY <3>1, <3>2
    <2> QED BY <2>2, <2>3, <2>4
  <1> QED BY <1>1, <1>2

LEMMA AsksOne ==
  ASSUME PathInv, NEW r \in Reads, NEW before, before = <<>>, Ask(r, before), path' = path,
         secure' \in {"no", "tls", "gss"}, at \notin {"logon", "connected", "raised"},
         r \in {"logon", "upgrade"} => secure' = Protection /\ Before(r) \subseteq Asked
  PROVE  /\ at' = r /\ sent' \in Seq(Sent) /\ Asked' = Asked \union {r}
         /\ CredentialsLast' /\ UnreadFits'
  <1>1. "logon" \notin Asked /\ sent \in Seq(Sent) /\ CredentialsLast
    BY DEF PathInv, AskedBefore
  <1>2. sent' \in Seq(Sent) /\ Asked' = Asked \union {r} /\ CredentialsLast'
    BY <1>1, SendsOne DEF Ask
  <1>3. at' = r /\ r # "raised"
    BY DEF Ask, Reads
  <1>4. PICK b \in BOOLEAN : unread' = <<>> \/ unread' = <<[to |-> r, ok |-> b]>>
    <2>1. /\ Append(before, [to |-> r, ok |-> TRUE]) = <<[to |-> r, ok |-> TRUE]>>
          /\ Append(before, [to |-> r, ok |-> FALSE]) = <<[to |-> r, ok |-> FALSE]>>
      OBVIOUS
    <2> QED BY <2>1 DEF Ask
  <1>5. UnreadFits'
    <2>1. CASE unread' = <<>>
      BY <2>1, NothingUnread
    <2>2. CASE unread' = <<[to |-> r, ok |-> b]>>
      <3>1. [to |-> r, ok |-> b] \in [to : Reads, ok : BOOLEAN]
        OBVIOUS
      <3>2. \A i \in DOMAIN unread' : unread'[i].to = r
        BY <2>2
      <3> QED BY <1>3, <2>2, <3>1, <3>2 DEF UnreadFits, InStep
    <2> QED BY <1>4, <2>1, <2>2
  <1> QED BY <1>2, <1>3, <1>5

(* A step that sends nothing and leaves nothing to read.                    *)
LEMMA Rests ==
  ASSUME PathInv, path' = path, sent' = sent, unread' = <<>>
  PROVE  sent' \in Seq(Sent) /\ Asked' = Asked /\ CredentialsLast' /\ UnreadFits'
  BY CredentialsKept, NothingUnread DEF PathInv, Asked

(* The reply that was waited for was the only one.                          *)
LEMMA ReadsOnly ==
  ASSUME PathInv, NEW r \in Reads, Answered(r)
  PROVE  at = r /\ path' = path /\ Tail(unread) = <<>>
  <1>1. PICK m : unread = <<m>>
    BY DEF PathInv, UnreadFits, Answered
  <1>2. Tail(unread) = <<>>
    BY <1>1
  <1> QED BY <1>2 DEF Answered

-----------------------------------------------------------------------------
(* The steps of connect()                                                   *)

LEMMA RaiseKeeps ==
  ASSUME PathInv, Raise, at \notin Ends
  PROVE  PathInv'
  <1>1. path' = path /\ sent' = sent /\ unread' = unread /\ secure' = secure /\ at' = "raised" /\ failedAt' = at
        /\ ms' # "open"
    BY DEF Raise
  <1>2. CredentialsLast' /\ Asked' = Asked
    BY <1>1, CredentialsKept DEF PathInv, Asked
  <1>3. UnreadFits'
    BY <1>1 DEF PathInv, UnreadFits, InStep, Reads
  <1>4. KindFits' /\ AskedBefore'
    BY <1>1, <1>2 DEF PathInv, KindFits, AskedBefore, Reads
  <1>5. FailureCloses'
    BY <1>1 DEF Raise, FailureCloses, Guarded
  <1> QED BY <1>1, <1>2, <1>3, <1>4, <1>5 DEF PathInv, Ends

(* A request that carries no credentials, on a path that is no further than *)
(* the steps behind allow.                                                  *)
LEMMA AsksPlain ==
  ASSUME PathInv, NEW r \in Reads \ {"logon", "upgrade"}, NEW before, before = <<>>, Ask(r, before),
         UNCHANGED <<path, secure>>,
         at \notin {"logon", "connected", "raised"},
         ms' = "open" => r \in {"ms attach", "ms list"},
         KindFits', Asked' = Asked \union {r} => AskedBefore'
  PROVE  PathInv'
  <1>1. /\ at' = r /\ sent' \in Seq(Sent) /\ Asked' = Asked \union {r}
        /\ CredentialsLast' /\ UnreadFits'
    BY AsksOne DEF PathInv
  <1>2. FailureCloses'
    BY <1>1 DEF FailureCloses, Reads
  <1> QED BY <1>1, <1>2 DEF PathInv, Steps

LEMMA RestsPlain ==
  ASSUME PathInv, UNCHANGED <<path, sent, secure>>, unread' = <<>>, at' \in (Steps \ Reads) \union {"connected"},
         ms' # "open", KindFits', Asked' = Asked => AskedBefore'
  PROVE  PathInv'
  <1>1. sent' \in Seq(Sent) /\ Asked' = Asked /\ CredentialsLast' /\ UnreadFits'
    BY Rests
  <1>2. FailureCloses'
    BY DEF FailureCloses, Steps, Reads
  <1> QED BY <1>1, <1>2 DEF PathInv, Steps, Ends

LEMMA HandshakeKeeps ==
  ASSUME PathInv, at \in {"tcp", "socks connect", "upgrade", "route"}, path.kind # "snc",
         NEW before, before = <<>>, Handshake(before), UNCHANGED <<path, ms, secure>>,
         path.router => "route" \in Asked,
         path.kind = "socks" => "socks connect" \in Asked /\ (path.jwt => "socks jwt" \in Asked)
  PROVE  PathInv'
  <1>1. ms' # "open"
    BY DEF PathInv, FailureCloses
  <1>2. CASE path.kind # "ws"
    <2>1. Ask("ni", before)
      BY <1>2 DEF Handshake
    <2>2. KindFits'
      BY <1>2, <2>1 DEF PathInv, KindFits, Ask
    <2>3. Asked' = Asked \union {"ni"} => AskedBefore'
      BY <1>2, <2>1 DEF PathInv, AskedBefore, Ask, Reads
    <2>4. "ni" \in Reads \ {"logon", "upgrade"}
      BY DEF Reads
    <2> QED BY <1>1, <2>1, <2>2, <2>3, <2>4, AsksPlain
  <1>3. CASE path.kind = "ws"
    <2>1. unread' = <<>> /\ sent' = sent /\ at' \in {"connected", "raised"}
          /\ (at' = "raised" => failedAt' = "handshake")
      BY <1>3 DEF Handshake
    <2>2. sent' \in Seq(Sent) /\ Asked' = Asked /\ CredentialsLast' /\ UnreadFits'
      BY <2>1, Rests
    <2>3. KindFits' /\ AskedBefore' /\ FailureCloses'
      BY <1>1, <1>3, <2>1 DEF KindFits, AskedBefore, FailureCloses, Reads
    <2> QED BY <2>1, <2>2, <2>3 DEF PathInv, Ends
  <1> QED BY <1>2, <1>3

LEMMA GreetKeeps ==
  ASSUME PathInv, at \in {"tcp", "socks connect", "upgrade"}, path.kind # "snc",
         NEW before, before = <<>>, Greet(before), UNCHANGED <<path, ms, secure>>,
         path.kind = "socks" => "socks connect" \in Asked /\ (path.jwt => "socks jwt" \in Asked)
  PROVE  PathInv'
  <1>1. ms' # "open"
    BY DEF PathInv, FailureCloses
  <1>2. CASE Route
    <2>1. Ask("route", before)
      BY <1>2 DEF Greet
    <2>2. KindFits'
      BY <2>1 DEF PathInv, KindFits, Ask
    <2>3. Asked' = Asked \union {"route"} => AskedBefore'
      BY <2>1 DEF PathInv, AskedBefore, Ask, Reads
    <2>4. "route" \in Reads \ {"logon", "upgrade"}
      BY DEF Reads
    <2> QED BY <1>1, <2>1, <2>2, <2>3, <2>4, AsksPlain
  <1>3. CASE ~Route
    <2>1. ~path.router
      BY <1>3 DEF Route, PathInv, AllPaths
    <2> QED BY <1>3, <2>1, HandshakeKeeps DEF Greet
  <1> QED BY <1>2, <1>3

LEMMA SocketKeeps ==
  ASSUME PathInv, OpenSocket
  PROVE  PathInv'
  <1>1. at = "tcp" /\ UNCHANGED <<path, ms, secure>> /\ unread = <<>> /\ ms' # "open"
    BY DEF OpenSocket, PathInv, UnreadFits, InStep, Reads, FailureCloses
  <1>2. path.kind \in Kinds
    BY DEF PathInv, AllPaths
  <1>3. CASE path.kind = "classic"
    BY <1>1, <1>3, GreetKeeps DEF OpenSocket
  <1>4. CASE path.kind = "socks"
    <2>1. Ask("socks method", unread)
      BY <1>4 DEF OpenSocket
    <2>2. KindFits' /\ (Asked' = Asked \union {"socks method"} => AskedBefore')
      BY <1>1, <1>4, <2>1 DEF PathInv, KindFits, AskedBefore, Ask, Reads
    <2>3. "socks method" \in Reads \ {"logon", "upgrade"}
      BY DEF Reads
    <2> QED BY <1>1, <2>1, <2>2, <2>3, AsksPlain
  <1>5. CASE path.kind = "snc"
    <2>1. Ask("ni", unread)
      BY <1>5 DEF OpenSocket
    <2>2. KindFits' /\ (Asked' = Asked \union {"ni"} => AskedBefore')
      BY <1>1, <1>5, <2>1 DEF PathInv, KindFits, AskedBefore, Ask, Reads
    <2>3. "ni" \in Reads \ {"logon", "upgrade"}
      BY DEF Reads
    <2> QED BY <1>1, <2>1, <2>2, <2>3, AsksPlain
  <1>6. CASE path.kind = "ws" /\ path.tunnel
    <2>1. Ask("tunnel", unread)
      BY <1>6 DEF OpenSocket
    <2>2. KindFits' /\ (Asked' = Asked \union {"tunnel"} => AskedBefore')
      BY <1>1, <1>6, <2>1 DEF PathInv, KindFits, AskedBefore, Ask, Reads
    <2>3. "tunnel" \in Reads \ {"logon", "upgrade"}
      BY DEF Reads
    <2> QED BY <1>1, <2>1, <2>2, <2>3, AsksPlain
  <1>7. CASE path.kind = "ws" /\ ~path.tunnel
    <2>1. at' = "tls" /\ sent' = sent /\ unread' = <<>>
      BY <1>1, <1>7 DEF OpenSocket
    <2>2. KindFits' /\ (Asked' = Asked => AskedBefore')
      BY <1>1, <1>7, <2>1 DEF PathInv, KindFits, AskedBefore, Reads
    <2>3. "tls" \in Steps \ Reads
      BY DEF Steps, Reads
    <2> QED BY <1>1, <2>1, <2>2, <2>3, RestsPlain
  <1> QED BY <1>2, <1>3, <1>4, <1>5, <1>6, <1>7 DEF Kinds

(* The message server, the proxy, the tunnel, TLS and the upgrade.          *)
LEMMA FrontKeeps ==
  ASSUME PathInv,
         \/ ResolveGroup \/ AttachAnswered \/ ListAnswered \/ MethodSelected \/ TokenAccepted
         \/ ProxyConnected \/ TunnelStands \/ TlsEstablished \/ Upgraded \/ FollowsRedirect
         \/ Redirected
  PROVE  PathInv'
  <1> USE DEF Reads
  <1>1. CASE ResolveGroup
    <2>1. at = "ms" /\ UNCHANGED <<path, secure>> /\ Ask("ms attach", unread) /\ unread = <<>>
      BY <1>1 DEF ResolveGroup, PathInv, UnreadFits, InStep
    <2>2. KindFits' /\ (Asked' = Asked \union {"ms attach"} => AskedBefore')
      BY <2>1 DEF PathInv, KindFits, AskedBefore, Ask
    <2> QED BY <2>1, <2>2, AsksPlain
  <1>2. CASE AttachAnswered
    <2>1. at = "ms attach" /\ UNCHANGED <<path, secure>> /\ Ask("ms list", Tail(unread)) /\ Tail(unread) = <<>>
      BY <1>2, ReadsOnly DEF AttachAnswered, AskNext
    <2>2. KindFits' /\ (Asked' = Asked \union {"ms list"} => AskedBefore')
      BY <2>1 DEF PathInv, KindFits, AskedBefore, Ask
    <2> QED BY <2>1, <2>2, AsksPlain
  <1>3. CASE ListAnswered
    <2>1. at = "ms list" /\ UNCHANGED <<path, secure, sent>> /\ unread' = <<>> /\ at' = "tcp" /\ ms' # "open"
      BY <1>3, ReadsOnly DEF ListAnswered
    <2>2. KindFits' /\ (Asked' = Asked => AskedBefore')
      BY <2>1 DEF PathInv, KindFits, AskedBefore
    <2> QED BY <2>1, <2>2, RestsPlain DEF Steps
  <1>4. CASE MethodSelected
    <2> DEFINE r == IF path.jwt THEN "socks jwt" ELSE "socks connect"
    <2>1. /\ at = "socks method" /\ UNCHANGED <<path, secure, ms>> /\ Ask(r, Tail(unread))
          /\ Tail(unread) = <<>>
      BY <1>4, ReadsOnly DEF MethodSelected, AskNext
    <2>2. KindFits' /\ (Asked' = Asked \union {r} => AskedBefore') /\ ms' # "open"
      BY <2>1 DEF PathInv, KindFits, AskedBefore, FailureCloses, Ask
    <2> QED BY <2>1, <2>2, AsksPlain
  <1>5. CASE TokenAccepted
    <2>1. /\ at = "socks jwt" /\ UNCHANGED <<path, secure, ms>> /\ Ask("socks connect", Tail(unread))
          /\ Tail(unread) = <<>>
      BY <1>5, ReadsOnly DEF TokenAccepted, AskNext
    <2>2. KindFits' /\ (Asked' = Asked \union {"socks connect"} => AskedBefore') /\ ms' # "open"
      BY <2>1 DEF PathInv, KindFits, AskedBefore, FailureCloses, Ask
    <2> QED BY <2>1, <2>2, AsksPlain
  <1>6. CASE ProxyConnected
    <2>1. /\ at = "socks connect" /\ UNCHANGED <<path, secure, ms>> /\ Greet(Tail(unread))
          /\ Tail(unread) = <<>>
      BY <1>6, ReadsOnly DEF ProxyConnected
    <2>2. path.kind = "socks" /\ "socks connect" \in Asked /\ (path.jwt => "socks jwt" \in Asked)
      BY <2>1 DEF PathInv, KindFits, AskedBefore
    <2> QED BY <2>1, <2>2, GreetKeeps
  <1>7. CASE TunnelStands
    <2>1. /\ at = "tunnel" /\ UNCHANGED <<path, secure, sent, ms>> /\ unread' = <<>> /\ at' = "tls"
      BY <1>7, ReadsOnly DEF TunnelStands
    <2>2. KindFits' /\ (Asked' = Asked => AskedBefore') /\ ms' # "open"
      BY <2>1 DEF PathInv, KindFits, AskedBefore, FailureCloses
    <2> QED BY <2>1, <2>2, RestsPlain DEF Steps
  <1>8. CASE TlsEstablished \/ Redirected
    <2>1. /\ at \in {"tls", "redirect"} /\ UNCHANGED <<path, ms>> /\ secure' = "tls"
          /\ Ask("upgrade", unread) /\ path.kind = "ws"
      BY <1>8 DEF TlsEstablished, Redirected, PathInv, KindFits
    <2>2. unread = <<>> /\ ms' # "open"
      BY <2>1 DEF PathInv, UnreadFits, InStep, FailureCloses
    <2>3. Protection = "tls" /\ Before("upgrade") \subseteq Asked
      BY <2>1 DEF Protection, Before, PathInv, AskedBefore
    <2>4. /\ at' = "upgrade" /\ sent' \in Seq(Sent) /\ Asked' = Asked \union {"upgrade"}
          /\ CredentialsLast' /\ UnreadFits'
      BY <2>1, <2>2, <2>3, AsksOne
    <2>5. KindFits' /\ AskedBefore' /\ FailureCloses'
      BY <2>1, <2>2, <2>4 DEF PathInv, KindFits, AskedBefore, FailureCloses
    <2> QED BY <2>1, <2>4, <2>5 DEF PathInv, Steps
  <1>9. CASE Upgraded
    <2>1. /\ at = "upgrade" /\ UNCHANGED <<path, secure, ms>> /\ Greet(Tail(unread))
          /\ Tail(unread) = <<>> /\ path.kind = "ws"
      BY <1>9, ReadsOnly DEF Upgraded, PathInv, KindFits
    <2> QED BY <2>1, GreetKeeps
  <1>10. CASE FollowsRedirect
    <2>1. /\ at = "upgrade" /\ UNCHANGED <<path, secure, sent, ms>> /\ unread' = <<>> /\ at' = "redirect"
      BY <1>10, ReadsOnly DEF FollowsRedirect
    <2>2. KindFits' /\ (Asked' = Asked => AskedBefore') /\ ms' # "open"
      BY <2>1 DEF PathInv, KindFits, AskedBefore, FailureCloses
    <2> QED BY <2>1, <2>2, RestsPlain DEF Steps
  <1> QED BY <1>1, <1>2, <1>3, <1>4, <1>5, <1>6, <1>7, <1>8, <1>9, <1>10

(* The route and the legs of the session.                                   *)
LEMMA LegsKeep ==
  ASSUME PathInv,
         \/ RouteAnswered \/ NiAnswered \/ SncReady \/ GwConnectAnswered \/ GwDoneAnswered
         \/ GssToken \/ GssAnswered \/ LogonAnswered
  PROVE  PathInv'
  <1> USE DEF Reads
  <1>1. CASE RouteAnswered
    <2>1. at = "route" /\ UNCHANGED <<path, secure, ms>> /\ Tail(unread) = <<>> /\ "route" \in Asked
      BY <1>1, ReadsOnly DEF RouteAnswered, PathInv, AskedBefore
    <2>2. CASE path.kind = "snc"
      <3>1. Ask("gw connect", Tail(unread))
        BY <1>1, <2>2 DEF RouteAnswered, AskNext
      <3>2. KindFits' /\ (Asked' = Asked \union {"gw connect"} => AskedBefore') /\ ms' # "open"
        BY <2>1, <2>2, <3>1 DEF PathInv, KindFits, AskedBefore, FailureCloses, Ask
      <3> QED BY <2>1, <3>1, <3>2, AsksPlain
    <2>3. CASE path.kind # "snc"
      <3>1. Handshake(Tail(unread))
        BY <1>1, <2>3 DEF RouteAnswered
      <3>2. path.kind = "socks" => "socks connect" \in Asked /\ (path.jwt => "socks jwt" \in Asked)
        BY <2>1 DEF PathInv, AskedBefore
      <3> QED BY <2>1, <2>3, <3>1, <3>2, HandshakeKeeps
    <2> QED BY <2>2, <2>3
  <1>2. CASE NiAnswered
    <2>1. at = "ni" /\ UNCHANGED <<path, secure, ms>> /\ Tail(unread) = <<>> /\ ms' # "open"
      BY <1>2, ReadsOnly DEF NiAnswered, PathInv, FailureCloses
    <2>2. CASE path.kind = "snc"
      <3>1. at' = "snc" /\ unread' = <<>> /\ sent' = sent
        BY <1>2, <2>1, <2>2 DEF NiAnswered
      <3>2. KindFits' /\ (Asked' = Asked => AskedBefore')
        BY <2>1, <2>2, <3>1 DEF PathInv, KindFits, AskedBefore
      <3> QED BY <2>1, <3>1, <3>2, RestsPlain DEF Steps
    <2>3. CASE path.kind # "snc"
      <3>1. Ask("gw connect", Tail(unread))
        BY <1>2, <2>3 DEF NiAnswered, AskNext
      <3>2. KindFits' /\ (Asked' = Asked \union {"gw connect"} => AskedBefore')
        BY <2>1, <2>3, <3>1 DEF PathInv, KindFits, AskedBefore, Ask
      <3> QED BY <2>1, <3>1, <3>2, AsksPlain
    <2> QED BY <2>2, <2>3
  <1>3. CASE SncReady
    <2> DEFINE r == IF path.router THEN "route" ELSE "gw connect"
    <2>1. at = "snc" /\ UNCHANGED <<path, secure, ms>> /\ Ask(r, unread) /\ unread = <<>> /\ ms' # "open"
      BY <1>3 DEF SncReady, PathInv, UnreadFits, InStep, FailureCloses
    <2>2. KindFits' /\ (Asked' = Asked \union {r} => AskedBefore')
      BY <2>1 DEF PathInv, KindFits, AskedBefore, Ask
    <2> QED BY <2>1, <2>2, AsksPlain
  <1>4. CASE GwConnectAnswered
    <2>1. /\ at = "gw connect" /\ UNCHANGED <<path, secure, ms>> /\ Tail(unread) = <<>> /\ ms' # "open"
          /\ Ask("gw done", Tail(unread))
      BY <1>4, ReadsOnly DEF GwConnectAnswered, AskNext, PathInv, FailureCloses
    <2>2. KindFits' /\ (Asked' = Asked \union {"gw done"} => AskedBefore')
      BY <2>1 DEF PathInv, KindFits, AskedBefore, Ask
    <2> QED BY <2>1, <2>2, AsksPlain
  (* The logon: everything in front of it has been asked for.               *)
  <1>5. ASSUME NEW before, before = <<>>, Ask("logon", before), UNCHANGED <<path, ms>>,
               secure' = Protection, path.kind # "ws", Before("logon") \subseteq Asked,
               at \in {"gw done", "init"}
        PROVE  PathInv'
    <2>1. Protection \in {"no", "tls", "gss"}
      BY DEF Protection
    <2>2. /\ at' = "logon" /\ sent' \in Seq(Sent) /\ Asked' = Asked \union {"logon"}
          /\ CredentialsLast' /\ UnreadFits'
      BY <1>5, <2>1, AsksOne
    <2>3. KindFits' /\ AskedBefore' /\ FailureCloses'
      BY <1>5, <2>2 DEF PathInv, KindFits, AskedBefore, FailureCloses, Before, Protection
    <2> QED BY <1>5, <2>1, <2>2, <2>3 DEF PathInv, Steps
  <1>6. CASE GwDoneAnswered
    <2>1. /\ at = "gw done" /\ UNCHANGED <<path, secure, ms>> /\ Tail(unread) = <<>> /\ ms' # "open"
          /\ path.kind # "ws"
      BY <1>6, ReadsOnly DEF GwDoneAnswered, PathInv, FailureCloses, KindFits
    <2>2. CASE path.kind = "snc"
      <3>1. at' = "init" /\ unread' = <<>> /\ sent' = sent
        BY <1>6, <2>1, <2>2 DEF GwDoneAnswered
      <3>2. KindFits' /\ (Asked' = Asked => AskedBefore')
        BY <2>1, <2>2, <3>1 DEF PathInv, KindFits, AskedBefore
      <3> QED BY <2>1, <3>1, <3>2, RestsPlain DEF Steps
    <2>3. CASE path.kind # "snc"
      <3>1. Ask("logon", Tail(unread))
        BY <1>6, <2>3 DEF GwDoneAnswered, AskNext
      <3>2. path.kind \in {"classic", "socks"} /\ secure' = Protection
        BY <2>1, <2>3 DEF PathInv, AllPaths, Kinds, KindFits, Protection
      <3>3. Before("logon") \subseteq Asked
        BY <2>1, <3>2 DEF PathInv, AskedBefore, Before
      <3> QED BY <1>5, <2>1, <3>1, <3>2, <3>3
    <2> QED BY <2>2, <2>3
  <1>7. CASE GssToken
    <2>1. /\ at = "init" /\ UNCHANGED <<path, ms>> /\ unread = <<>> /\ ms' # "open" /\ path.kind = "snc"
      BY <1>7 DEF GssToken, PathInv, UnreadFits, InStep, FailureCloses, KindFits
    <2>2. CASE UNCHANGED secure /\ Ask("gss", unread)
      <3>1. KindFits' /\ (Asked' = Asked \union {"gss"} => AskedBefore')
        BY <2>1, <2>2 DEF PathInv, KindFits, AskedBefore, Ask
      <3> QED BY <2>1, <2>2, <3>1, AsksPlain
    <2>3. CASE secure' = "gss" /\ Ask("logon", unread)
      <3>1. secure' = Protection /\ Before("logon") \subseteq Asked
        BY <2>1, <2>3 DEF Protection, Before, PathInv, AskedBefore
      <3> QED BY <1>5, <2>1, <2>3, <3>1
    <2> QED BY <1>7, <2>2, <2>3 DEF GssToken
  <1>8. CASE GssAnswered
    <2>1. /\ at = "gss" /\ UNCHANGED <<path, secure, sent, ms>> /\ unread' = <<>> /\ at' = "init" /\ ms' # "open"
      BY <1>8, ReadsOnly DEF GssAnswered, PathInv, FailureCloses
    <2>2. KindFits' /\ (Asked' = Asked => AskedBefore')
      BY <2>1 DEF PathInv, KindFits, AskedBefore
    <2> QED BY <2>1, <2>2, RestsPlain DEF Steps
  <1>9. CASE LogonAnswered
    <2>1. /\ at = "logon" /\ UNCHANGED <<path, secure, sent, ms>> /\ unread' = <<>> /\ at' = "connected"
          /\ ms' # "open"
      BY <1>9, ReadsOnly DEF LogonAnswered, PathInv, FailureCloses
    <2>2. KindFits' /\ (Asked' = Asked => AskedBefore')
      BY <2>1 DEF PathInv, KindFits, AskedBefore
    <2> QED BY <2>1, <2>2, RestsPlain
  <1> QED BY <1>1, <1>2, <1>3, <1>4, <1>6, <1>7, <1>8, <1>9

LEMMA PathKeeps == PathInv /\ PathStep => PathInv'
  <1> SUFFICES ASSUME PathInv, PathStep PROVE PathInv'
    OBVIOUS
  <1>1. CASE ReadFails \/ StepFails \/ RefusesRedirect
    <2>1. Raise /\ at \notin Ends
      BY <1>1 DEF ReadFails, StepFails, RefusesRedirect, Answered, Reads, Ends
    <2> QED BY <2>1, RaiseKeeps
  <1> QED BY <1>1, FrontKeeps, LegsKeep, SocketKeeps DEF PathStep

-----------------------------------------------------------------------------
(* The session.  An operation that may fall back holds the lock while the   *)
(* connection stands, and during its fallback.                              *)
Operations == {"none", "first call", "call", "builtin", "ping", "attributes"}

LockInv ==
  /\ op \in [Threads -> Operations]
  /\ step \in [Threads -> Steppings \union {"idle", "fallback"}]
  /\ \A t \in Threads :
       /\ step[t] # "idle" /\ op[t] # "attributes" =>
            holder = t /\ (step[t] = "fallback" \/ at = "connected")
       /\ step[t] \in {"direct", "fallback"} => op[t] = "builtin"

SessionInv == PathInv /\ LockInv

(* Waiting for the next reply of an operation, or ending it, leaves the     *)
(* lock with those who need it.                                             *)
LEMMA WaitsOn ==
  ASSUME LockInv, NEW t \in Threads, NEW kind \in Steppings, NEW w, SendAndWait(t, kind, w),
         UNCHANGED <<holder, op>>, step[t] \notin {"idle", "fallback"}, kind = "direct" => op[t] = "builtin"
  PROVE  LockInv'
  <1>1. step' = [step EXCEPT ![t] = kind] /\ at' = at
    BY DEF SendAndWait, steady
  <1>2. kind \notin {"idle", "fallback"}
    BY DEF Steppings
  <1>3. step' \in [Threads -> Steppings \union {"idle", "fallback"}]
    BY <1>1 DEF LockInv
  <1> QED BY <1>1, <1>2, <1>3 DEF LockInv

LEMMA FinishKeeps ==
  ASSUME LockInv, NEW t \in Threads, NEW state, NEW w, Finish(t, state, w)
  PROVE  LockInv' /\ UNCHANGED steady
  <1>1. /\ step' = [step EXCEPT ![t] = "idle"] /\ UNCHANGED <<at, op>>
        /\ holder' = IF holder = t THEN Nobody ELSE holder
    BY DEF Finish, steady
  <1>2. step' \in [Threads -> Steppings \union {"idle", "fallback"}]
    BY <1>1 DEF LockInv
  <1>3. \A u \in Threads : u # t => step'[u] = step[u]
    BY <1>1 DEF LockInv
  <1>4. step'[t] = "idle"
    BY <1>1 DEF LockInv
  <1> QED BY <1>1, <1>2, <1>3, <1>4 DEF LockInv, Finish

LEMMA BeginsKeep ==
  ASSUME LockInv, NEW t \in Threads, NEW o \in Operations, NEW kind \in Steppings, NEW w,
         Begin(t, o), SendAndWait(t, kind, w), kind # "direct",
         o # "attributes" => holder = Nobody /\ holder' = t,
         o = "attributes" => holder' = holder
  PROVE  LockInv'
  <1>1. /\ step' = [step EXCEPT ![t] = kind] /\ at' = at /\ at = "connected" /\ op' = [op EXCEPT ![t] = o]
        /\ step[t] = "idle"
    BY DEF SendAndWait, steady, Begin
  <1>2. kind \notin {"direct", "fallback"}
    BY DEF Steppings
  <1>3. step' \in [Threads -> Steppings \union {"idle", "fallback"}] /\ op' \in [Threads -> Operations]
    BY <1>1 DEF LockInv
  <1>4. step'[t] = kind /\ op'[t] = o /\ \A u \in Threads : u # t => step'[u] = step[u] /\ op'[u] = op[u]
    BY <1>1 DEF LockInv
  <1> QED BY <1>1, <1>2, <1>3, <1>4, OpsAssumption DEF LockInv

LEMMA FallBackKeeps ==
  ASSUME SessionInv, NEW t \in Threads, FallBack(t), step[t] \notin {"idle", "fallback"}, op[t] = "builtin"
  PROVE  SessionInv'
  <1>1. holder = t /\ at = "connected"
    BY DEF SessionInv, LockInv
  <1>2. /\ step' = [step EXCEPT ![t] = "fallback"] /\ op' = op /\ holder' = holder
        /\ path' = [kind |-> "classic", group |-> FALSE, router |-> FALSE, jwt |-> FALSE,
                    tunnel |-> FALSE, named |-> TRUE, timed |-> FALSE]
        /\ at' = "tcp" /\ secure' = "no" /\ sent' = <<>> /\ unread' = <<>> /\ ms' = ms
    BY DEF FallBack
  <1>3. LockInv'
    <2>1. step' \in [Threads -> Steppings \union {"idle", "fallback"}]
      BY <1>2 DEF SessionInv, LockInv
    <2>2. step'[t] = "fallback" /\ \A u \in Threads : u # t => step'[u] = step[u]
      BY <1>2 DEF SessionInv, LockInv
    <2> QED BY <1>1, <1>2, <2>1, <2>2 DEF SessionInv, LockInv
  <1>4. PathInv'
    <2>1. sent' \in Seq(Sent) /\ Asked' = {} /\ CredentialsLast'
      <3>1. sent' \in Seq(Sent) /\ 1..Len(sent') = {} /\ DOMAIN sent' = {}
        BY <1>2
      <3> QED BY <3>1 DEF Asked, CredentialsLast
    <2>2. path' \in AllPaths /\ UnreadFits'
      BY <1>2, NothingUnread DEF AllPaths, Kinds
    <2>3. KindFits' /\ AskedBefore'
      BY <1>2, <2>1 DEF KindFits, AskedBefore, Reads
    <2>4. FailureCloses'
      BY <1>1, <1>2 DEF SessionInv, PathInv, FailureCloses
    <2> QED BY <1>2, <2>1, <2>2, <2>3, <2>4 DEF PathInv, Steps
  <1> QED BY <1>3, <1>4 DEF SessionInv

LEMMA SteadyKeeps == PathInv /\ UNCHANGED steady => PathInv'
  <1> SUFFICES ASSUME PathInv, UNCHANGED steady PROVE PathInv'
    OBVIOUS
  <1>1. CredentialsLast' /\ Asked' = Asked
    BY CredentialsKept DEF PathInv, steady, Asked
  <1>2. /\ path' = path /\ at' = at /\ ms' = ms /\ sock' = sock /\ secure' = secure /\ sent' = sent
        /\ unread' = unread /\ failedAt' = failedAt
    BY DEF steady
  <1>3. KindFits'
    BY <1>2 DEF PathInv, KindFits
  <1>5. AskedBefore'
    <2>1. AskedBefore
      BY DEF PathInv
    <2>2. path' = path /\ at' = at /\ Asked' = Asked
      BY <1>1, <1>2
    <2> QED BY <2>1, <2>2, ZenonT(60) DEF AskedBefore, Reads
  <1>4. UnreadFits' /\ FailureCloses'
    BY <1>2 DEF PathInv, UnreadFits, InStep, FailureCloses
  <1> QED BY <1>1, <1>2, <1>3, <1>4, <1>5 DEF PathInv

LEMMA SessionStep == SessionInv /\ [Next]_vars => SessionInv'
  <1> SUFFICES ASSUME SessionInv, [Next]_vars PROVE SessionInv'
    OBVIOUS
  <1>0. PathInv /\ LockInv
    BY DEF SessionInv
  <1>1. CASE UNCHANGED vars
    BY <1>0, <1>1, SteadyKeeps DEF vars, pathVars, sessionVars, steady, SessionInv, LockInv
  <1>2. CASE PathStep /\ UNCHANGED sessionVars
    <2>1. at # "connected"
      BY <1>2 DEF PathStep, ResolveGroup, AttachAnswered, ListAnswered, OpenSocket, MethodSelected,
             TokenAccepted, ProxyConnected, TunnelStands, TlsEstablished, Upgraded, FollowsRedirect,
             Redirected, RefusesRedirect, RouteAnswered, NiAnswered, SncReady, GwConnectAnswered,
             GwDoneAnswered, GssToken, GssAnswered, LogonAnswered, ReadFails, StepFails, Answered, Reads
    <2>2. LockInv'
      BY <1>0, <1>2, <2>1 DEF LockInv, sessionVars
    <2> QED BY <1>0, <1>2, <2>2, PathKeeps DEF SessionInv
  <1>3. ASSUME UNCHANGED steady, LockInv' PROVE SessionInv'
    BY <1>0, <1>3, SteadyKeeps DEF SessionInv
  <1>4. ASSUME NEW t \in Threads, NEW state, NEW w, Finish(t, state, w) PROVE SessionInv'
    BY <1>0, <1>3, <1>4, FinishKeeps
  <1>5. ASSUME NEW t \in Threads, NEW kind \in Steppings, NEW w, SendAndWait(t, kind, w),
               UNCHANGED <<holder, op>>, step[t] \notin {"idle", "fallback"}, kind = "direct" => op[t] = "builtin"
        PROVE  SessionInv'
    BY <1>0, <1>3, <1>5, WaitsOn DEF SendAndWait
  <1>6. ASSUME NEW t \in Threads, NEW o \in {"first call", "builtin", "ping", "attributes"}, BeginPending(t, o)
        PROVE  SessionInv'
    <2>1. /\ Begin(t, o) /\ SendAndWait(t, "logon", wire)
          /\ o # "attributes" => holder = Nobody /\ holder' = t
          /\ o = "attributes" => holder' = holder
      BY <1>6 DEF BeginPending
    <2>2. "logon" \in Steppings /\ o \in Operations
      BY DEF Steppings, Operations
    <2>3. LockInv'
      BY <1>0, <2>1, <2>2, BeginsKeep
    <2> QED BY <1>3, <2>1, <2>3 DEF SendAndWait
  <1>7. ASSUME NEW t \in Threads, NEW o \in {"call", "ping"}, BeginReady(t, o)
        PROVE  SessionInv'
    <2>1. /\ Begin(t, o) /\ holder = Nobody /\ holder' = t
          /\ \E kind \in {"ping", "gfi", "invoke"} : SendAndWait(t, kind, wire)
      BY <1>7 DEF BeginReady
    <2>2. o \in Operations /\ o # "attributes"
      BY DEF Operations
    <2>3. PICK kind \in {"ping", "gfi", "invoke"} : SendAndWait(t, kind, wire)
      BY <2>1
    <2>4. kind \in Steppings /\ kind # "direct"
      BY DEF Steppings
    <2>5. LockInv'
      BY <1>0, <2>1, <2>2, <2>3, <2>4, BeginsKeep
    <2> QED BY <1>3, <2>3, <2>5 DEF SendAndWait
  <1>8. ASSUME NEW t \in Threads, FallBack(t), step[t] \notin {"idle", "fallback"}, op[t] = "builtin"
        PROVE  SessionInv'
    BY <1>8, FallBackKeeps
  <1>9. ASSUME NEW t \in Threads, LogonAccepted(t) PROVE SessionInv'
    <2>1. step[t] = "logon"
      BY <1>9 DEF LogonAccepted, Got
    <2>2. CASE op[t] \in {"ping", "attributes"}
      BY <1>4, <1>9, <2>2 DEF LogonAccepted
    <2>3. CASE op[t] \notin {"ping", "attributes"}
      <3>1. \/ \E n \in 0..Len(Tail(wire)) :
                 /\ SendAndWait(t, IF op[t] = "builtin" THEN "direct" ELSE "gfi",
                                SubSeq(Tail(wire), n + 1, Len(Tail(wire))))
                 /\ UNCHANGED <<holder, op>>
            \/ op[t] = "builtin" /\ FallBack(t)
            \/ \E w : Finish(t, "READY", w)
        BY <1>9, <2>3 DEF LogonAccepted
      <3>2. (IF op[t] = "builtin" THEN "direct" ELSE "gfi") \in Steppings
        BY DEF Steppings
      <3> QED BY <1>4, <1>5, <1>8, <2>1, <3>1, <3>2
    <2> QED BY <2>2, <2>3
  <1>10. ASSUME NEW t \in Threads, LogonFailed(t) \/ LogonRefused(t) PROVE SessionInv'
    BY <1>4, <1>8, <1>10 DEF LogonFailed, LogonRefused, Got, Fails
  <1>11. ASSUME NEW t \in Threads, MetadataRead(t) PROVE SessionInv'
    <2>1. "layout" \in Steppings /\ "invoke" \in Steppings
      BY DEF Steppings
    <2> QED BY <1>4, <1>5, <1>11, <2>1 DEF MetadataRead, Got, Invokes, Fails
  <1>12. ASSUME NEW t \in Threads, ReplyRead(t) PROVE SessionInv'
    BY <1>4, <1>12 DEF ReplyRead
  <1>13. ASSUME NEW t \in Threads, CloseRead(t) PROVE SessionInv'
    <2>1. "invoke" \in Steppings
      BY DEF Steppings
    <2>2. step[t] \notin {"idle", "fallback"} /\ (step[t] = "direct" => op[t] = "builtin")
      BY <1>0, <1>13 DEF CloseRead, Got, LockInv
    <2> QED BY <1>4, <1>5, <1>8, <1>13, <2>1, <2>2 DEF CloseRead, Invokes, Fails
  <1>14. ASSUME NEW t \in Threads, NothingRead(t) PROVE SessionInv'
    <2>1. "invoke" \in Steppings
      BY DEF Steppings
    <2> QED BY <1>4, <1>5, <1>14, <2>1 DEF NothingRead, Invokes, Fails
  <1>15. ASSUME NEW t \in Threads, FallbackCalled(t) \/ FallbackRaised(t) PROVE SessionInv'
    <2>1. /\ step[t] = "fallback" /\ step' = [step EXCEPT ![t] = "idle"] /\ holder' = Nobody
          /\ UNCHANGED <<steady, op>>
      BY <1>15 DEF FallbackCalled, FallbackRaised
    <2>2. holder = t
      BY <1>0, <2>1 DEF LockInv
    <2>3. step' \in [Threads -> Steppings \union {"idle", "fallback"}]
      BY <1>0, <2>1 DEF LockInv
    <2>4. step'[t] = "idle" /\ \A u \in Threads : u # t => step'[u] = step[u]
      BY <1>0, <2>1 DEF LockInv
    <2>5. LockInv'
      BY <1>0, <2>1, <2>2, <2>3, <2>4 DEF LockInv, steady
    <2> QED BY <1>3, <2>1, <2>5
  <1>16. CASE AnswersLogon \/ AnswersCall \/ Dumps \/ ServerCloses
    <2>1. UNCHANGED <<steady, holder, op, step>>
      BY <1>16 DEF AnswersLogon, AnswersCall, Dumps, ServerCloses, client, clientButFaults, pathVars, steady
    <2> QED BY <1>0, <1>3, <2>1 DEF LockInv, steady
  <1> QED
    BY <1>1, <1>2, <1>6, <1>7, <1>9, <1>10, <1>11, <1>12, <1>13, <1>14, <1>15, <1>16 DEF Next

LEMMA SessionStarts == SessionInit => SessionInv
  <1> SUFFICES ASSUME SessionInit PROVE SessionInv
    OBVIOUS
  <1>1. /\ path \in AllPaths /\ at \in {"ms", "tcp"} /\ sent = <<>> /\ unread = <<>>
        /\ secure = "no" /\ ms = "none"
    BY PathAssumption DEF SessionInit, Init
  <1>2. sent \in Seq(Sent) /\ Asked = {} /\ CredentialsLast
    <2>1. sent \in Seq(Sent) /\ 1..Len(sent) = {} /\ DOMAIN sent = {}
      BY <1>1
    <2> QED BY <2>1 DEF Asked, CredentialsLast
  <1>3. UnreadFits
    <2>1. DOMAIN unread = {}
      BY <1>1
    <2> QED BY <1>1, <2>1 DEF UnreadFits, InStep
  <1>4. KindFits /\ AskedBefore /\ FailureCloses
    BY <1>1, <1>2 DEF KindFits, AskedBefore, FailureCloses, Reads
  <1>5. LockInv
    BY DEF SessionInit, LockInv, Operations
  <1> QED BY <1>1, <1>2, <1>3, <1>4, <1>5 DEF SessionInv, PathInv, Steps

LEMMA SessionInvariance == Spec => []SessionInv
  <1> QED BY SessionStarts, SessionStep, PTL DEF Spec

(* What carries the caller's password goes out only once the route, the     *)
(* proxy and the gateway legs of its path stand, and under the protection   *)
(* the path asked for; a fallback's new path included (connect() and        *)
(* _handshake of connection.py, ws.py, socks5.py, snc.py).                  *)
THEOREM PasswordsLast == Spec => []CredentialsLast
  <1>1. SessionInv => CredentialsLast
    BY DEF SessionInv, PathInv
  <1> QED BY SessionInvariance, <1>1, PTL

(* A proxy, tunnel, TLS or upgrade step that fails closes its socket, and   *)
(* the message server's socket never outlives its lookup (router.py,        *)
(* socks5.py, ws.py).                                                       *)
THEOREM FailuresClose == Spec => []FailureCloses
  <1>1. SessionInv => FailureCloses
    BY DEF SessionInv, PathInv
  <1> QED BY SessionInvariance, <1>1, PTL

(* Every reply of connect() is read where the code expects it, whatever     *)
(* combination of parameters it was called with.                            *)
THEOREM RepliesInStep == Spec => []InStep
  <1>1. SessionInv => InStep
    BY DEF SessionInv, PathInv, UnreadFits
  <1> QED BY SessionInvariance, <1>1, PTL

-----------------------------------------------------------------------------
(* The one reply an operation waits for.  While none has gone astray, one   *)
(* operation at most waits, and what the server owes it or has sent it is   *)
(* the reply to its request, with the server's close perhaps behind.        *)
ClosingFrame == [id |-> 0, kind |-> "close", result |-> "none"]
Answer(id, kind, result) == [id |-> id, kind |-> kind, result |-> result]
Results == {"ok", "failed", "refused"}

(* The server owes nothing that it will still send; nothing but its close   *)
(* is there to be read.                                                     *)
NothingOwed == logon # "gone" => requests = <<>>
AtMostClose(w) == w = <<>> \/ (logon = "gone" /\ w = <<ClosingFrame>>)

Owes(id, kind) ==
  \/ logon = "gone" /\ AtMostClose(wire)
  \/ logon # "gone" /\ requests = <<[id |-> id, kind |-> kind]>> /\ wire = <<>>
  \/ NothingOwed /\ \E r \in Results :
       \/ wire = <<Answer(id, kind, r)>>
       \/ logon = "gone" /\ wire = <<Answer(id, kind, r), ClosingFrame>>

NobodyWaits == \A t \in Threads : step[t] = "idle"
OneWaits == \A t, u \in Threads : step[t] # "idle" /\ step[u] # "idle" => t = u
Broken == at = "connected" /\ session = "BROKEN"

(* A session that breaks may leave a reply behind, which nobody comes for.  *)
Paired ==
  /\ OneWaits
  /\ \A t \in Threads : step[t] \in Steppings =>
       at = "connected" /\ over = "ws" /\ Owes(mine[t], step[t])
  /\ \A t \in Threads : step[t] = "fallback" =>
       logon = "gone" /\ requests = <<>> /\ wire = <<>>
  /\ over # "ws" => logon = "gone"
  /\ NobodyWaits /\ over = "ws" =>
       \/ NothingOwed /\ AtMostClose(wire)
       \/ Broken /\ \E id \in Nat, kind \in Steppings : Owes(id, kind)

(* A logon failed, and no operation has said so: whoever waits is about to  *)
(* read it.                                                                 *)
FailureUntold == logon = "failed" /\ ~told
FailureAhead ==
  FailureUntold =>
    /\ requests = <<>>
    /\ \A t \in Threads : step[t] \in Steppings =>
         step[t] = "logon" /\ wire # <<>> /\ Head(wire).result = "failed"
    /\ NobodyWaits => Broken

ReplyInv ==
  /\ SessionInv
  /\ mine \in [Threads -> Nat] /\ asked \in Nat
  /\ ~astray => Paired /\ FailureAhead

(* Who reads has one reply in front of it, its own or the close; the        *)
(* failure of the logon while nobody has told it.                           *)
LEMMA ReadsOwn ==
  ASSUME Paired, FailureAhead, NEW t \in Threads, step[t] \in Steppings, wire # <<>>
  PROVE  /\ NothingOwed /\ AtMostClose(Tail(wire))
         /\ \/ Head(wire) = ClosingFrame
            \/ \E r \in Results : Head(wire) = Answer(mine[t], step[t], r)
         /\ FailureUntold => step[t] = "logon" /\ Head(wire) = Answer(mine[t], "logon", "failed")
  <1>1. Owes(mine[t], step[t])
    BY DEF Paired
  <1>2. CASE logon = "gone" /\ AtMostClose(wire)
    <2>1. wire = <<ClosingFrame>>
      BY <1>2 DEF AtMostClose
    <2>2. Head(wire) = ClosingFrame /\ Tail(wire) = <<>>
      BY <2>1
    <2> QED BY <1>2, <2>2 DEF NothingOwed, AtMostClose, FailureUntold
  <1>3. ASSUME NothingOwed, NEW r \in Results, wire = <<Answer(mine[t], step[t], r)>>
        PROVE  Head(wire) = Answer(mine[t], step[t], r) /\ AtMostClose(Tail(wire))
    <2>1. Head(wire) = Answer(mine[t], step[t], r) /\ Tail(wire) = <<>>
      BY <1>3
    <2> QED BY <2>1 DEF AtMostClose
  <1>4. ASSUME NothingOwed, NEW r \in Results, logon = "gone",
               wire = <<Answer(mine[t], step[t], r), ClosingFrame>>
        PROVE  Head(wire) = Answer(mine[t], step[t], r) /\ AtMostClose(Tail(wire))
    <2>1. Head(wire) = Answer(mine[t], step[t], r) /\ Tail(wire) = <<ClosingFrame>>
      BY <1>4
    <2> QED BY <1>4, <2>1 DEF AtMostClose
  <1>5. ASSUME FailureUntold, NEW r \in Results, Head(wire) = Answer(mine[t], step[t], r)
        PROVE  step[t] = "logon" /\ r = "failed"
    <2>1. Head(wire).result = r
      BY <1>5 DEF Answer
    <2> QED BY <1>5, <2>1 DEF FailureAhead
  <1> QED BY <1>1, <1>2, <1>3, <1>4, <1>5 DEF Owes, FailureUntold

(* A request of the only operation, of which nothing is owed before.        *)
LEMMA WaitsForOne ==
  ASSUME NEW t \in Threads, NEW kind \in Steppings, NEW w, SendAndWait(t, kind, w),
         mine \in [Threads -> Nat], asked \in Nat, LockInv,
         \A u \in Threads : u # t => step[u] = "idle",
         at = "connected", over = "ws", NothingOwed, AtMostClose(w), ~FailureUntold
  PROVE  mine' \in [Threads -> Nat] /\ asked' \in Nat /\ Paired' /\ FailureAhead'
  <1>1. /\ asked' = asked + 1 /\ requests' = Append(requests, [id |-> asked', kind |-> kind])
        /\ wire' = w /\ step' = [step EXCEPT ![t] = kind] /\ mine' = [mine EXCEPT ![t] = asked']
        /\ at' = at /\ over' = over /\ logon' = logon /\ told' = told
    BY DEF SendAndWait, steady
  <1>2. /\ asked' \in Nat /\ mine' \in [Threads -> Nat] /\ mine'[t] = asked'
        /\ step'[t] = kind /\ \A u \in Threads : u # t => step'[u] = "idle"
    BY <1>1 DEF LockInv
  <1>3. kind \notin {"idle", "fallback"} /\ "idle" \notin Steppings
    BY DEF Steppings
  <1>4. logon # "gone" => requests' = <<[id |-> asked', kind |-> kind]>> /\ wire' = <<>>
    BY <1>1 DEF NothingOwed, AtMostClose
  <1>5. logon = "gone" => AtMostClose(wire)'
    BY <1>1 DEF AtMostClose
  <1>6. Owes(mine[t], step[t])'
    BY <1>1, <1>2, <1>4, <1>5 DEF Owes, AtMostClose
  <1>7. Paired'
    BY <1>1, <1>2, <1>3, <1>6 DEF Paired, OneWaits, NobodyWaits
  <1>8. FailureAhead'
    BY <1>1 DEF FailureAhead, FailureUntold
  <1> QED BY <1>2, <1>7, <1>8

(* The operation ends having read what it was owed, or breaks the session.  *)
LEMMA EndsPaired ==
  ASSUME NEW t \in Threads, NEW state, NEW w, Finish(t, state, w),
         LockInv, Paired, FailureAhead, step[t] \in Steppings,
         \/ NothingOwed /\ AtMostClose(w) /\ ~FailureUntold'
         \/ state = "BROKEN" /\ w = wire /\ told' = told,
         mine[t] \in Nat
  PROVE  Paired' /\ FailureAhead'
  <1>1. /\ step' = [step EXCEPT ![t] = "idle"] /\ wire' = w
        /\ Becomes(IF state = "IN_CALL" THEN "READY" ELSE state)
        /\ at' = at /\ over' = over /\ mine' = mine /\ requests' = requests /\ logon' = logon
    BY DEF Finish, steady
  <1>2. at = "connected" /\ over = "ws" /\ Owes(mine[t], step[t]) /\ step[t] # "idle" /\ step[t] # "fallback"
    BY DEF Paired, Steppings
  <1>3. \A u \in Threads : u # t => step[u] = "idle"
    BY <1>2 DEF Paired, OneWaits
  <1>4. \A u \in Threads : step'[u] = "idle"
    BY <1>1, <1>3 DEF LockInv
  <1>5. "idle" \notin Steppings
    BY DEF Steppings
  <1>6. CASE NothingOwed /\ AtMostClose(w) /\ ~FailureUntold'
    <2>1. NothingOwed' /\ AtMostClose(wire)'
      BY <1>1, <1>6 DEF NothingOwed, AtMostClose
    <2>2. Paired'
      BY <1>1, <1>2, <1>4, <1>5, <2>1 DEF Paired, OneWaits
    <2> QED BY <1>6, <2>2 DEF FailureAhead
  <1>7. CASE state = "BROKEN" /\ w = wire /\ told' = told
    <2>1. session' = "BROKEN"
      BY <1>1, <1>2, <1>3, <1>7 DEF Becomes
    <2>2. Broken'
      BY <1>1, <1>2, <2>1 DEF Broken
    <2>4. \A id, kind : Owes(id, kind) => Owes(id, kind)'
      BY <1>1, <1>7 DEF Owes, AtMostClose, NothingOwed
    <2>5. Paired'
      BY <1>1, <1>2, <1>4, <1>5, <2>2, <2>4 DEF Paired, OneWaits
    <2>6. FailureAhead'
      BY <1>1, <1>4, <1>5, <1>7, <2>2 DEF FailureAhead, FailureUntold
    <2> QED BY <2>5, <2>6
  <1> QED BY <1>6, <1>7

(* A fallback owes and hears nothing.                                       *)
LEMMA FallsBackPaired ==
  ASSUME NEW t \in Threads, FallBack(t), LockInv, Paired, step[t] \in Steppings
  PROVE  Paired' /\ FailureAhead'
  <1>1. /\ step' = [step EXCEPT ![t] = "fallback"] /\ over' = over
        /\ requests' = <<>> /\ wire' = <<>> /\ logon' = "gone"
    BY DEF FallBack
  <1>2. \A u \in Threads : u # t => step[u] = "idle"
    BY DEF Paired, OneWaits, Steppings
  <1>3. step'[t] = "fallback" /\ \A u \in Threads : u # t => step'[u] = "idle"
    BY <1>1, <1>2 DEF LockInv
  <1>4. "idle" \notin Steppings /\ "fallback" \notin Steppings
    BY DEF Steppings
  <1>5. Paired'
    BY <1>1, <1>3, <1>4 DEF Paired, OneWaits, NobodyWaits
  <1> QED BY <1>1, <1>5 DEF FailureAhead, FailureUntold

(* The server finds one request to answer, of whoever waits.                *)
LEMMA AnswersOne ==
  ASSUME Paired, LockInv, mine \in [Threads -> Nat], requests # <<>>, logon # "gone"
  PROVE  /\ over = "ws" /\ (NobodyWaits => Broken)
         /\ \E id \in Nat, kind \in Steppings :
              /\ requests = <<[id |-> id, kind |-> kind]>> /\ wire = <<>>
              /\ \A t \in Threads : step[t] \in Steppings => id = mine[t] /\ kind = step[t]
  <1>1. over = "ws" /\ (NobodyWaits => Broken)
    BY DEF Paired, NothingOwed
  <1>2. \A id, kind : Owes(id, kind) => requests = <<[id |-> id, kind |-> kind]>> /\ wire = <<>>
    BY DEF Owes, NothingOwed
  <1>3. ASSUME NEW t \in Threads, step[t] \in Steppings
        PROVE  /\ mine[t] \in Nat /\ requests = <<[id |-> mine[t], kind |-> step[t]]>> /\ wire = <<>>
               /\ \A u \in Threads : step[u] \in Steppings => u = t
    BY <1>2, <1>3 DEF Paired, OneWaits, Steppings
  <1>4. CASE \A t \in Threads : step[t] \notin Steppings
    <2>1. NobodyWaits
      BY <1>4 DEF NobodyWaits, LockInv, Paired
    <2>2. PICK id \in Nat, kind \in Steppings : Owes(id, kind)
      BY <1>1, <2>1 DEF Paired, NothingOwed
    <2> QED BY <1>1, <1>2, <1>4, <2>2
  <1> QED BY <1>1, <1>3, <1>4

LEMMA AnswerPaired ==
  ASSUME Paired, FailureAhead, LockInv, mine \in [Threads -> Nat],
         UNCHANGED <<at, session, over, step, mine, told>>,
         requests # <<>>, logon # "gone", requests' = Tail(requests),
         NEW r \in Results, wire' = Reply(Head(requests), r),
         logon' # "gone", FailureUntold' => r = "failed" /\ Head(requests).kind = "logon"
  PROVE  Paired' /\ FailureAhead'
  <1>1. over = "ws" /\ (NobodyWaits => Broken)
    BY AnswersOne
  <1>2. PICK id \in Nat, kind \in Steppings :
          /\ requests = <<[id |-> id, kind |-> kind]>> /\ wire = <<>>
          /\ \A t \in Threads : step[t] \in Steppings => id = mine[t] /\ kind = step[t]
    BY AnswersOne
  <1>3. Head(requests) = [id |-> id, kind |-> kind] /\ requests' = <<>>
    BY <1>2
  <1>4. wire' = <<Answer(id, kind, r)>>
    BY <1>2, <1>3 DEF Reply, Answer
  <1>5. Owes(id, kind)'
    BY <1>3, <1>4 DEF Owes, NothingOwed, Answer
  <1>6. \A t \in Threads : step[t] # "fallback"
    BY DEF Paired
  <1>7. Paired'
    BY <1>1, <1>2, <1>5, <1>6 DEF Paired, OneWaits, NobodyWaits, Broken
  <1>8. FailureUntold' => kind = "logon" /\ r = "failed"
    BY <1>3
  <1>9. wire' # <<>> /\ Head(wire').result = r
    BY <1>4 DEF Answer
  <1>10. FailureAhead'
    BY <1>1, <1>2, <1>3, <1>8, <1>9 DEF FailureAhead, NobodyWaits, Broken
  <1> QED BY <1>7, <1>10

LEMMA AppendBehind ==
  ASSUME NEW a, NEW b PROVE Append(<<a>>, b) = <<a, b>>
  <1>1. <<a>> \in Seq({a, b}) /\ <<a, b>> \in Seq({a, b})
    OBVIOUS
  <1>2. /\ Append(<<a>>, b) \in Seq({a, b}) /\ Len(Append(<<a>>, b)) = 2
        /\ Append(<<a>>, b)[1] = a /\ Append(<<a>>, b)[2] = b
    BY <1>1, AppendProperties
  <1>3. Len(<<a, b>>) = 2 /\ \A i \in 1..2 : Append(<<a>>, b)[i] = <<a, b>>[i]
    BY <1>2
  <1> QED BY <1>1, <1>2, <1>3, SeqEqual

LEMMA DrainsClose ==
  ASSUME NEW rest, AtMostClose(rest), NEW n \in 0..Len(rest)
  PROVE  AtMostClose(SubSeq(rest, n + 1, Len(rest)))
  <1>1. CASE rest = <<>>
    BY <1>1 DEF AtMostClose
  <1>2. CASE logon = "gone" /\ rest = <<ClosingFrame>>
    <2>1. rest \in Seq({ClosingFrame}) /\ Len(rest) = 1
      BY <1>2
    <2>3. SubSeq(rest, 1, 1) = rest /\ SubSeq(rest, 2, 1) = <<>>
      BY <2>1, SubSeqFull, SubSeqEmpty
    <2>2. n = 0 \/ n = 1
      BY <2>1
    <2> QED BY <1>2, <2>1, <2>2, <2>3 DEF AtMostClose
  <1> QED BY <1>1, <1>2 DEF AtMostClose

LEMMA HangUpPaired ==
  ASSUME Paired, LockInv, UNCHANGED <<at, session, over, step, mine>>,
         logon # "gone", logon' = "gone", requests' = <<>>, wire' = HangUp
  PROVE  Paired' /\ FailureAhead'
  <1>1. wire' = Append(wire, ClosingFrame)
    BY DEF HangUp, ClosingFrame
  <1>2. wire = <<>> => AtMostClose(wire)' /\ NothingOwed'
    BY <1>1 DEF AtMostClose, NothingOwed
  <1>3. ASSUME NEW id, NEW kind, Owes(id, kind) PROVE Owes(id, kind)'
    <2>1. CASE wire = <<>>
      BY <1>2, <2>1 DEF Owes
    <2>2. ASSUME NEW r \in Results, wire = <<Answer(id, kind, r)>>
          PROVE  Owes(id, kind)'
      <3>1. wire' = <<Answer(id, kind, r), ClosingFrame>>
        BY <1>1, <2>2, AppendBehind
      <3> QED BY <3>1 DEF Owes, NothingOwed, Answer, ClosingFrame
    <2> QED BY <1>3, <2>1, <2>2 DEF Owes
  <1>4. \A t \in Threads : step[t] # "fallback"
    BY DEF Paired
  <1>5. Paired'
    <2>1. OneWaits' /\ (over # "ws" => logon = "gone")'
      BY DEF Paired, OneWaits
    <2>2. ASSUME NEW t \in Threads, step'[t] \in Steppings
          PROVE  at' = "connected" /\ over' = "ws" /\ Owes(mine[t], step[t])'
      <3>1. PICK id, kind : id = mine[t] /\ kind = step[t]
        OBVIOUS
      <3>2. at = "connected" /\ over = "ws" /\ Owes(id, kind)
        BY <2>2, <3>1 DEF Paired
      <3> QED BY <1>3, <3>1, <3>2
    <2>3. NobodyWaits' /\ over' = "ws" =>
            \/ NothingOwed' /\ AtMostClose(wire)'
            \/ Broken' /\ \E id \in Nat, kind \in Steppings : Owes(id, kind)'
      BY <1>2, <1>3 DEF Paired, NobodyWaits, Broken, AtMostClose
    <2> QED BY <1>4, <2>1, <2>2, <2>3 DEF Paired
  <1> QED BY <1>5 DEF FailureAhead, FailureUntold

LEMMA ReplyStarts == SessionInit => ReplyInv
  <1> SUFFICES ASSUME SessionInit PROVE ReplyInv
    OBVIOUS
  <1>1. SessionInv
    BY SessionStarts
  <1>2. Paired /\ FailureAhead
    BY DEF SessionInit, Paired, OneWaits, NothingOwed, AtMostClose, FailureAhead, FailureUntold, Steppings
  <1> QED BY <1>1, <1>2 DEF ReplyInv, SessionInit

LEMMA ReplyStep == ReplyInv /\ [Next]_vars => ReplyInv'
  <1> SUFFICES ASSUME ReplyInv, [Next]_vars PROVE ReplyInv'
    OBVIOUS
  <1> DEFINE Good == mine' \in [Threads -> Nat] /\ asked' \in Nat /\ (~astray' => Paired' /\ FailureAhead')
  <1>0. SessionInv' /\ PathInv /\ LockInv /\ mine \in [Threads -> Nat] /\ asked \in Nat
    BY SessionStep DEF ReplyInv, SessionInv
  <1>1. ASSUME ~astray PROVE Paired /\ FailureAhead
    BY <1>1 DEF ReplyInv
  <1> SUFFICES Good
    BY <1>0 DEF ReplyInv
  <1>2. ASSUME UNCHANGED <<at, over, step, mine, asked, requests, wire, logon, astray, told, session>> PROVE Good
    BY <1>0, <1>1, <1>2
       DEF Paired, FailureAhead, OneWaits, NobodyWaits, Owes, NothingOwed, AtMostClose, Broken, FailureUntold
  (* No operation is under way on the connection.                           *)
  <1>3. CASE PathStep /\ UNCHANGED sessionVars
    <2>1. at # "connected"
      BY <1>3 DEF PathStep, ResolveGroup, AttachAnswered, ListAnswered, OpenSocket, MethodSelected,
             TokenAccepted, ProxyConnected, TunnelStands, TlsEstablished, Upgraded, FollowsRedirect,
             Redirected, RefusesRedirect, RouteAnswered, NiAnswered, SncReady, GwConnectAnswered,
             GwDoneAnswered, GssToken, GssAnswered, LogonAnswered, ReadFails, StepFails, Answered, Reads
    <2>2. UNCHANGED <<over, step, mine, asked, requests, wire, logon, astray, told>>
      BY <1>3 DEF sessionVars
    <2>3. ASSUME ~astray PROVE \A t \in Threads : step[t] \notin Steppings
      BY <1>1, <2>1, <2>3 DEF Paired
    <2>4. ~Broken
      BY <2>1 DEF Broken
    <2>5. ASSUME ~astray PROVE Paired'
      BY <1>1, <2>2, <2>3, <2>4, <2>5 DEF Paired, OneWaits, NobodyWaits, NothingOwed, AtMostClose
    <2>6. ASSUME ~astray PROVE FailureAhead'
      BY <1>1, <2>2, <2>3, <2>4, <2>6 DEF FailureAhead, FailureUntold, NobodyWaits
    <2> QED BY <1>0, <2>2, <2>5, <2>6
  (* An operation begins: nobody else's is under way, and nothing is owed.  *)
  <1>4. ASSUME NEW t \in Threads, NEW o, NEW kind \in Steppings, Begin(t, o), SendAndWait(t, kind, wire),
               session # "BROKEN"
        PROVE  Good
    <2>1. mine' \in [Threads -> Nat] /\ asked' \in Nat
      BY <1>0, <1>4 DEF SendAndWait
    <2>2. ASSUME ~astray' PROVE Paired' /\ FailureAhead'
      <3>1. /\ Paired /\ FailureAhead /\ at = "connected" /\ over = "ws" /\ NobodyWaits
        BY <1>1, <1>4, <2>2 DEF Begin, NobodyWaits
      <3>2. NothingOwed /\ AtMostClose(wire) /\ ~FailureUntold
        BY <1>4, <3>1 DEF Paired, FailureAhead, Broken
      <3> QED BY <1>0, <1>4, <3>1, <3>2, WaitsForOne DEF NobodyWaits
    <2> QED BY <2>1, <2>2
  <1>5. ASSUME NEW t \in Threads, NEW o \in {"first call", "builtin", "ping", "attributes"}, BeginPending(t, o)
        PROVE  Good
    <2>1. "logon" \in Steppings
      BY DEF Steppings
    <2> QED BY <1>4, <1>5, <2>1 DEF BeginPending
  <1>6. ASSUME NEW t \in Threads, NEW o \in {"call", "ping"}, BeginReady(t, o) PROVE Good
    <2>1. PICK kind \in {"ping", "gfi", "invoke"} : SendAndWait(t, kind, wire)
      BY <1>6 DEF BeginReady
    <2>2. kind \in Steppings
      BY DEF Steppings
    <2> QED BY <1>4, <1>6, <2>1, <2>2 DEF BeginReady
  (* It goes on, ends or falls back, having read what it was owed.          *)
  <1>7. ASSUME NEW t \in Threads, step[t] \in Steppings, NEW kind \in Steppings, NEW w, SendAndWait(t, kind, w),
               astray' = astray, ~astray => NothingOwed /\ AtMostClose(w) /\ ~FailureUntold
        PROVE  Good
    <2>1. mine' \in [Threads -> Nat] /\ asked' \in Nat
      BY <1>0, <1>7 DEF SendAndWait
    <2>2. ASSUME ~astray' PROVE Paired' /\ FailureAhead'
      <3>1. Paired /\ step[t] # "idle"
        BY <1>1, <1>7, <2>2 DEF Steppings
      <3>2. at = "connected" /\ over = "ws" /\ \A u \in Threads : u # t => step[u] = "idle"
        BY <1>7, <3>1 DEF Paired, OneWaits
      <3> QED BY <1>0, <1>7, <2>2, <3>2, WaitsForOne
    <2> QED BY <2>1, <2>2
  <1>8. ASSUME NEW t \in Threads, step[t] \in Steppings, NEW state, NEW w, Finish(t, state, w),
               ~astray' => ~astray,
               ~astray' => \/ NothingOwed /\ AtMostClose(w) /\ ~FailureUntold'
                           \/ state = "BROKEN" /\ w = wire /\ told' = told
        PROVE  Good
    <2>1. mine' = mine /\ asked' = asked
      BY <1>8 DEF Finish
    <2>2. ASSUME ~astray' PROVE Paired' /\ FailureAhead'
      BY <1>0, <1>1, <1>8, <2>2, EndsPaired
    <2> QED BY <1>0, <2>1, <2>2
  <1>9. ASSUME NEW t \in Threads, step[t] \in Steppings, FallBack(t) PROVE Good
    <2>1. mine' = mine /\ asked' = asked /\ astray' = astray
      BY <1>9 DEF FallBack
    <2>2. ASSUME ~astray' PROVE Paired' /\ FailureAhead'
      BY <1>0, <1>1, <1>9, <2>1, <2>2, FallsBackPaired
    <2> QED BY <1>0, <2>1, <2>2
  <1>10. ASSUME NEW t \in Threads, step[t] \in Steppings, wire # <<>>, ~astray
         PROVE  /\ NothingOwed /\ AtMostClose(Tail(wire))
                /\ \/ Head(wire) = ClosingFrame
                   \/ \E r \in Results : Head(wire) = Answer(mine[t], step[t], r)
                /\ FailureUntold => step[t] = "logon" /\ Head(wire) = Answer(mine[t], "logon", "failed")
    BY <1>1, <1>10, ReadsOwn
  <1>11. "logon" \in Steppings /\ "gfi" \in Steppings /\ "layout" \in Steppings /\ "invoke" \in Steppings
         /\ "ping" \in Steppings /\ "direct" \in Steppings
    BY DEF Steppings
  <1>12. ASSUME NEW t \in Threads, NEW state, NEW w, Finish(t, state, w) PROVE logon' = logon
    BY <1>12 DEF Finish
  <1>13. ASSUME NEW t \in Threads, LogonAccepted(t) PROVE Good
    <2>1. /\ step[t] = "logon" /\ step[t] \in Steppings /\ wire # <<>>
          /\ Head(wire).kind = "logon" /\ Head(wire).result = "ok"
      BY <1>11, <1>13 DEF LogonAccepted, Got, IsLogon
    <2>2. ASSUME ~astray PROVE NothingOwed /\ AtMostClose(Tail(wire)) /\ ~FailureUntold
      BY <1>10, <2>1, <2>2 DEF Answer
    <2>3. ASSUME NEW w, Finish(t, "READY", w), ~astray => AtMostClose(w), UNCHANGED <<astray, told>> PROVE Good
      BY <1>8, <1>12, <2>1, <2>2, <2>3 DEF FailureUntold
    <2>4. CASE op[t] \in {"ping", "attributes"}
      <3>1. Finish(t, "READY", Tail(wire)) /\ UNCHANGED <<astray, told>>
        BY <1>13, <2>4 DEF LogonAccepted
      <3> QED BY <2>2, <2>3, <3>1
    <2>5. CASE op[t] \notin {"ping", "attributes"}
      <3> DEFINE rest == Tail(wire)
      <3> DEFINE left(n) == SubSeq(rest, n + 1, Len(rest))
      <3>1. PICK n \in 0..Len(rest) :
              \/ /\ SendAndWait(t, IF op[t] = "builtin" THEN "direct" ELSE "gfi", left(n))
                 /\ UNCHANGED astray
              \/ FallBack(t)
              \/ Finish(t, "READY", left(n)) /\ UNCHANGED <<astray, told>>
        BY <1>13, <2>5 DEF LogonAccepted
      <3>2. ASSUME ~astray PROVE AtMostClose(left(n))
        BY <2>2, <3>2, DrainsClose
      <3>3. (IF op[t] = "builtin" THEN "direct" ELSE "gfi") \in Steppings
        BY <1>11
      <3> HIDE DEF left
      <3> QED BY <1>7, <1>9, <2>1, <2>2, <2>3, <3>1, <3>2, <3>3
    <2> QED BY <2>4, <2>5
  <1>14. ASSUME NEW t \in Threads, LogonFailed(t) PROVE Good
    <2>1. step[t] \in Steppings /\ wire # <<>>
      BY <1>11, <1>14 DEF LogonFailed, Got
    <2>2. CASE op[t] = "builtin"
      BY <1>9, <1>14, <2>1, <2>2 DEF LogonFailed
    <2>3. CASE op[t] # "builtin"
      <3>1. Finish(t, "READY", Tail(wire)) /\ astray' = astray /\ ~FailureUntold'
        BY <1>14, <2>3 DEF LogonFailed, FailureUntold
      <3> QED BY <1>8, <1>10, <2>1, <3>1
    <2> QED BY <2>2, <2>3
  (* A reply that is not the failure of a logon.                            *)
  <1>15. ASSUME NEW t \in Threads, step[t] \in Steppings, wire # <<>>,
                step[t] = "logon" => ~(Head(wire).kind = "logon" /\ Head(wire).result = "failed")
         PROVE  ~astray => NothingOwed /\ AtMostClose(Tail(wire)) /\ ~FailureUntold
    BY <1>10, <1>15 DEF Answer
  <1>16. ASSUME NEW t \in Threads, step[t] \in Steppings, wire # <<>>, NEW state, Finish(t, state, Tail(wire)),
                step[t] = "logon" => ~(Head(wire).kind = "logon" /\ Head(wire).result = "failed"),
                UNCHANGED <<astray, told>>
         PROVE  Good
    BY <1>8, <1>12, <1>15, <1>16 DEF FailureUntold
  <1>17. ASSUME NEW t \in Threads, LogonRefused(t) PROVE Good
    <2>1. step[t] \in Steppings /\ wire # <<>> /\ UNCHANGED <<astray, told>> /\ ~IsLogon("failed")
      BY <1>11, <1>17 DEF LogonRefused, Got, Fails
    <2>2. Finish(t, IF Closes(t) THEN "BROKEN" ELSE session, Tail(wire))
      BY <1>17 DEF LogonRefused, Fails
    <2> QED BY <1>16, <2>1, <2>2 DEF IsLogon
  <1>18. ASSUME NEW t \in Threads, MetadataRead(t) PROVE Good
    <2>1. step[t] \in Steppings /\ step[t] # "logon" /\ wire # <<>> /\ UNCHANGED astray
      BY <1>11, <1>18 DEF MetadataRead, Got
    <2>2. \/ \E kind \in {"layout", "invoke"} : SendAndWait(t, kind, Tail(wire))
          \/ Finish(t, IF Closes(t) THEN "BROKEN" ELSE session, Tail(wire)) /\ UNCHANGED told
      BY <1>18 DEF MetadataRead, Invokes, Fails
    <2> QED BY <1>7, <1>11, <1>15, <1>16, <2>1, <2>2
  <1>19. ASSUME NEW t \in Threads, ReplyRead(t) PROVE Good
    <2>1. step[t] \in Steppings /\ step[t] # "logon" /\ wire # <<>>
      BY <1>11, <1>19 DEF ReplyRead, Got
    <2> QED BY <1>16, <1>19, <2>1 DEF ReplyRead
  <1>20. ASSUME NEW t \in Threads, CloseRead(t) PROVE Good
    <2>1. step[t] \in Steppings /\ step[t] # "logon" /\ wire # <<>> /\ UNCHANGED astray
      BY <1>11, <1>20 DEF CloseRead, Got
    <2>2. \/ FallBack(t)
          \/ SendAndWait(t, "invoke", Tail(wire))
          \/ Finish(t, IF Closes(t) THEN "BROKEN" ELSE session, Tail(wire)) /\ UNCHANGED told
      BY <1>20 DEF CloseRead, Invokes, Fails
    <2> QED BY <1>7, <1>9, <1>11, <1>15, <1>16, <2>1, <2>2
  (* Nothing is read: nothing comes any more, or the session breaks.        *)
  <1>21. ASSUME NEW t \in Threads, NothingRead(t) PROVE Good
    <2>1. step[t] \in Steppings /\ wire = <<>>
      BY <1>0, <1>21 DEF NothingRead, LockInv
    <2>2. \/ logon = "gone" /\ UNCHANGED astray
          \/ logon # "gone" /\ astray' = (astray \/ ~Closes(t))
      BY <1>21 DEF NothingRead
    <2>3. ASSUME ~astray' PROVE ~astray /\ ~FailureUntold
      <3>1. ~astray
        BY <2>2, <2>3
      <3> QED BY <1>1, <2>1, <3>1 DEF FailureAhead
    <2>4. AtMostClose(wire) /\ (logon = "gone" => NothingOwed)
      BY <2>1 DEF AtMostClose, NothingOwed
    <2>5. CASE SendAndWait(t, "invoke", wire) /\ step[t] = "layout"
      <3>1. ~Closes(t)
        BY <2>5 DEF Closes
      <3>2. astray' = astray \/ (astray' /\ ~astray)
        BY <2>2, <3>1
      <3>3. ASSUME ~astray' PROVE NothingOwed
        BY <2>2, <2>4, <3>1, <3>3
      <3>4. CASE astray'
        BY <1>0, <2>5, <3>4 DEF SendAndWait
      <3>5. CASE ~astray'
        <4>1. astray' = astray
          BY <2>2, <3>1, <3>5
        <4> QED BY <1>7, <1>11, <2>1, <2>3, <2>4, <2>5, <3>3, <3>5, <4>1
      <3> QED BY <3>4, <3>5
    <2>6. CASE Finish(t, IF Closes(t) THEN "BROKEN" ELSE session, wire) /\ UNCHANGED told
      <3>1. ~FailureUntold => ~FailureUntold'
        BY <1>12, <2>6 DEF FailureUntold
      <3>2. ~astray' => NothingOwed \/ (IF Closes(t) THEN "BROKEN" ELSE session) = "BROKEN"
        BY <2>2, <2>4
      <3> QED BY <1>8, <2>1, <2>3, <2>4, <2>6, <3>1, <3>2
    <2> QED BY <1>21, <2>5, <2>6 DEF NothingRead, Invokes, Fails
  <1>22. ASSUME NEW t \in Threads, FallbackCalled(t) \/ FallbackRaised(t) PROVE Good
    <2>1. /\ step[t] = "fallback" /\ step' = [step EXCEPT ![t] = "idle"]
          /\ UNCHANGED <<mine, requests, wire, logon, astray, told, asked>> /\ over' # "ws"
      BY <1>22 DEF FallbackCalled, FallbackRaised
    <2>2. ASSUME ~astray PROVE Paired' /\ FailureAhead'
      <3>1. logon = "gone" /\ \A u \in Threads : u # t => step[u] = "idle"
        BY <1>1, <2>1, <2>2 DEF Paired, OneWaits
      <3>2. \A u \in Threads : step'[u] = "idle"
        BY <1>0, <2>1, <3>1 DEF LockInv
      <3> QED BY <2>1, <3>1, <3>2 DEF Paired, OneWaits, FailureAhead, FailureUntold, Steppings
    <2> QED BY <1>0, <2>1, <2>2
  <1>23. CASE AnswersLogon \/ AnswersCall
    <2>1. /\ UNCHANGED <<at, session, over, step, mine, told, astray, asked>>
          /\ requests # <<>> /\ logon # "gone" /\ requests' = Tail(requests) /\ logon' # "gone"
      BY <1>23 DEF AnswersLogon, AnswersCall, client, clientButFaults, pathVars, steady
    <2>2. PICK r \in Results : wire' = Reply(Head(requests), r) /\
            (logon' = "failed" => (r = "failed" /\ Head(requests).kind = "logon")
                                    \/ (logon = "failed" /\ r = "refused"))
      BY <1>23 DEF AnswersLogon, AnswersCall, Results
    <2>3. ASSUME ~astray PROVE Paired' /\ FailureAhead'
      <3>1. FailureUntold' => r = "failed" /\ Head(requests).kind = "logon"
        <4>1. ~FailureUntold
          BY <1>1, <2>1, <2>3 DEF FailureAhead
        <4> QED BY <2>1, <2>2, <4>1 DEF FailureUntold
      <3> QED BY <1>0, <1>1, <2>1, <2>2, <2>3, <3>1, AnswerPaired
    <2> QED BY <1>0, <2>1, <2>3
  <1>24. CASE Dumps \/ ServerCloses
    <2>1. /\ UNCHANGED <<at, session, over, step, mine, astray, asked>>
          /\ logon # "gone" /\ logon' = "gone" /\ requests' = <<>> /\ wire' = HangUp
      BY <1>24 DEF Dumps, ServerCloses, client, clientButFaults, pathVars, steady
    <2> QED BY <1>0, <1>1, <2>1, HangUpPaired
  <1>25. CASE UNCHANGED vars
    BY <1>2, <1>25 DEF vars, pathVars, sessionVars
  <1> QED
    BY <1>3, <1>5, <1>6, <1>13, <1>14, <1>17, <1>18, <1>19, <1>20, <1>21, <1>22, <1>23, <1>24, <1>25 DEF Next

LEMMA ReplyInvariance == Spec => []ReplyInv
  <1> QED BY ReplyStarts, ReplyStep, PTL DEF Spec

(* What an operation reads is the reply to its own request, or the close:   *)
(* the lock, and breaking the session on a reply that was not read, see to  *)
(* it unless a read outside both has left a reply on its way               *)
(* (connection.py: call, ping, get_connection_attributes, _fail_closed).    *)
THEOREM OwnReplies == Spec => []OwnReply
  <1>1. ASSUME ReplyInv PROVE OwnReply
    <2> SUFFICES ASSUME NEW t \in Threads, step[t] \in Steppings, wire # <<>>, ~astray
                 PROVE  Head(wire).kind = "close" \/ Head(wire).id = mine[t]
      BY DEF OwnReply
    <2> QED BY <1>1, ReadsOwn DEF ReplyInv, ClosingFrame, Answer
  <1> QED BY ReplyInvariance, <1>1, PTL

(* No invoke goes into a session whose logon failed, before an operation    *)
(* has reported that failure (connection.py:2583, _ws_logon).               *)
THEOREM DoomedFramesUntold == Spec => []DoomedFrameSkippedUntold
  <1>1. ASSUME ReplyInv PROVE DoomedFrameSkippedUntold
    <2>1. logon = "failed" /\ ~astray /\ ~told => requests = <<>>
      BY <1>1 DEF ReplyInv, FailureAhead, FailureUntold
    <2>2. requests = <<>> => DoomedFrames = {}
      BY DEF DoomedFrames
    <2> QED BY <2>1, <2>2 DEF DoomedFrameSkippedUntold
  <1> QED BY ReplyInvariance, <1>1, PTL
=============================================================================
