---------------------------- MODULE Conversation ----------------------------
(***************************************************************************)
(* One logged-on connection: the callers that share it, the CPIC session   *)
(* state, and the byte stream on which a reply can be told from the next   *)
(* one only by having read everything before it.  AsyncConnection of       *)
(* saprfclib/connection.py; the classic Connection drives the same code on *)
(* a loop thread.                                                          *)
(*                                                                         *)
(* The server answers requests in order, each with one or more frames, and *)
(* may be late: a reader that stops before the end of a reply leaves the   *)
(* rest of it, or all of it, for whoever reads next.                       *)
(***************************************************************************)
EXTENDS Integers, Sequences

CONSTANTS
  Callers, NoOne,
  Ops,           (* the operations callers use                              *)
  MaxOps,        (* bound on operations begun                               *)
  MaxFaults,     (* bound on timeouts, cancellations and malformed replies  *)
  MaxFrames,     (* frames of the longest reply                             *)
  MaxRetries,    (* max_retries of _submit_with_retry                       *)
  LongReplies,   (* requests whose reply may span frames                    *)
  TimeoutAt,     (* requests whose read may time out                        *)
  CancelAt       (* requests whose reading task may be cancelled            *)

Requests == {"gfi",      \* RFC_GET_FUNCTION_INTERFACE of _call_bootstrap
             "ddif",     \* DDIF_FIELDINFO_GET of _struct_via_ddif
             "rsd",      \* RFC_GET_STRUCTURE_DEFINITION, its fallback
             "invoke",   \* the call proper
             "ping",     \* RFCPING
             "ship",     \* ARFC_DEST_SHIP, BGRFC_DEST_SHIP
             "confirm"}  \* ARFC_DEST_CONFIRM

ASSUME OpsAssumption == Ops \subseteq {"call", "ping", "ship", "confirm"}
ASSUME BoundAssumption ==
  /\ MaxOps \in Nat /\ MaxFaults \in Nat /\ MaxRetries \in Nat
  /\ MaxFrames \in Nat \ {0}
ASSUME RequestAssumption ==
  /\ LongReplies \subseteq Requests
  /\ TimeoutAt \subseteq Requests
  /\ CancelAt \subseteq Requests \union {"backoff"}
ASSUME CallerAssumption == NoOne \notin Callers

VARIABLES
  session,   (* SessionState: "READY", "IN_CALL" or "BROKEN"                *)
  op,        (* what each caller asked for; "none" when it asked nothing    *)
  holder,    (* the caller that has the connection's lock                   *)
  phase,     (* the request the holder waits on, "backoff" or "none"        *)
  mine,      (* number of the request the holder waits on                   *)
  reply,     (* request whose reply it is reading; 0 before a first frame   *)
  tries,     (* attempts of the running ship                                *)
  known,     (* the called function's descriptor is in the metadata cache   *)
  sent,      (* requests sent so far: the next one's number                 *)
  owed,      (* requests the server has yet to finish answering             *)
  part,      (* frames it has sent of the first of them                     *)
  wire,      (* frames sent and not yet read                                *)
  used,      (* <<request, request whose reply was taken for its answer>>   *)
  begun, faults,
  lapsed     (* history: a read was given up, or stopped inside a reply,    *)
             (* where the code does not retire the connection for it        *)

vars == <<session, op, holder, phase, mine, reply, tries, known, sent, owed,
          part, wire, used, begun, faults, lapsed>>

Init ==
  /\ session = "READY"
  /\ op = [c \in Callers |-> "none"]
  /\ holder = NoOne /\ phase = "none"
  /\ mine = 0 /\ reply = 0 /\ tries = 0
  /\ known = FALSE
  /\ sent = 0 /\ owed = <<>> /\ part = 0 /\ wire = <<>>
  /\ used = {}
  /\ begun = 0 /\ faults = 0 /\ lapsed = FALSE

-----------------------------------------------------------------------------
(* The server                                                               *)

ServerSends(last) ==
  /\ wire' = Append(wire, [req |-> Head(owed).req, first |-> part = 0,
                           last |-> last])
  /\ UNCHANGED <<session, op, holder, phase, mine, reply, tries, known, sent,
                 used, begun, faults, lapsed>>

FinishReply ==
  /\ owed # <<>>
  /\ ServerSends(TRUE)
  /\ owed' = Tail(owed)
  /\ part' = 0

ContinueReply ==
  /\ owed # <<>>
  /\ Head(owed).kind \in LongReplies
  /\ part + 1 < MaxFrames
  /\ ServerSends(FALSE)
  /\ part' = part + 1
  /\ UNCHANGED owed

-----------------------------------------------------------------------------
(* Sending, leaving, reading                                                *)

Send(kind) ==
  /\ sent' = sent + 1
  /\ owed' = Append(owed, [req |-> sent + 1, kind |-> kind])
  /\ phase' = kind
  /\ mine' = sent + 1
  /\ reply' = 0

(* The operation ends, by return or by exception; the "finally" of every    *)
(* operation turns IN_CALL into READY and leaves BROKEN alone.              *)
Leave(state) ==
  /\ session' = state
  /\ op' = [op EXCEPT ![holder] = "none"]
  /\ holder' = NoOne
  /\ phase' = "none"
  /\ mine' = 0 /\ reply' = 0 /\ tries' = 0

Fault == faults < MaxFaults /\ faults' = faults + 1

(* The bootstrap requests and ping take one frame for the whole reply; the  *)
(* others join frames until the TLV stream is complete.                     *)
ReadsOneFrame == phase \in {"gfi", "ddif", "rsd", "ping"}

(* A frame that starts inside a reply does not parse: its stream is not     *)
(* TLV, so no reader waits for the rest of it.                              *)
InSync == reply # 0 \/ Head(wire).first

ReplyRead == phase \in Requests /\ wire # <<>>
             /\ (ReadsOneFrame \/ Head(wire).last \/ ~InSync)

Lapse(when) == lapsed' = (lapsed \/ when)

(* Mutant: a reply is over only when a further frame says so.               *)
AnswerReadsOn ==
  ReplyRead /\ Len(wire) > 1 /\ wire' = Tail(wire) /\ Lapse(~Head(wire).last)

(* Mutant: whatever else has arrived is thrown away with it.                *)
AnswerDrains == ReplyRead /\ wire' = <<>> /\ Lapse(~Head(wire).last)

(* The holder reads the frame that ends the reply, as far as it can tell.   *)
Answer == ReplyRead /\ wire' = Tail(wire) /\ Lapse(~Head(wire).last)

TakenFor == <<mine, IF reply = 0 THEN Head(wire).req ELSE reply>>

ReadOn ==
  /\ phase \in Requests
  /\ wire # <<>>
  /\ ~ReplyRead
  /\ wire' = Tail(wire)
  /\ reply' = TakenFor[2]
  /\ UNCHANGED <<session, op, holder, phase, mine, tries, known, sent, owed,
                 part, used, begun, faults, lapsed>>

-----------------------------------------------------------------------------
(* Beginning an operation                                                   *)

Begin(c, o) ==
  /\ op[c] = "none"
  /\ begun < MaxOps
  /\ begun' = begun + 1
  /\ op' = [op EXCEPT ![c] = o]
  /\ UNCHANGED <<session, holder, phase, mine, reply, tries, known, sent,
                 owed, part, wire, used, faults, lapsed>>

FirstRequest(o) ==
  IF o = "call" THEN IF known THEN "invoke" ELSE "gfi" ELSE o

(* Mutant: only the lock is asked for, not the session's state.             *)
EnterUnchecked(c) ==
  /\ op[c] # "none"
  /\ holder = NoOne
  /\ session' = "IN_CALL"
  /\ holder' = c
  /\ Send(FirstRequest(op[c]))
  /\ UNCHANGED <<op, tries, known, part, wire, used, begun, faults,
                 lapsed>>

(* The lock is free, _require_state and mark_in_call pass.                  *)
Enter(c) ==
  /\ op[c] # "none"
  /\ holder = NoOne
  /\ session = "READY"
  /\ session' = "IN_CALL"
  /\ holder' = c
  /\ Send(FirstRequest(op[c]))
  /\ UNCHANGED <<op, tries, known, part, wire, used, begun, faults,
                 lapsed>>

(* _require_state raises; or, the descriptor at hand, a parameter is unknown*)
(* and the lock is given up with nothing sent.                              *)
Refuse(c) ==
  /\ op[c] # "none"
  /\ holder = NoOne
  /\ session # "READY" \/ (op[c] = "call" /\ known)
  /\ op' = [op EXCEPT ![c] = "none"]
  /\ UNCHANGED <<session, holder, phase, mine, reply, tries, known, sent,
                 owed, part, wire, used, begun, faults, lapsed>>

-----------------------------------------------------------------------------
(* The reply of the request the holder waits on                             *)

(* A well-formed reply, a result or an ABAP error, is the request's answer. *)
Parsed == InSync /\ used' = used \union {TakenFor} /\ UNCHANGED faults

(* The bytes cannot be decoded: a frame out of step, or a malformed reply.  *)
Unreadable ==
  /\ UNCHANGED used
  /\ \/ ~InSync /\ UNCHANGED faults
     \/ InSync /\ Fault

(* The descriptor is cached, without the layouts that could not be had, and *)
(* the call goes out, unless a parameter is unknown or cannot be encoded.   *)
Invoke ==
  /\ known' = TRUE
  /\ \/ Send("invoke") /\ UNCHANGED <<session, op, holder, tries>>
     \/ Leave("READY") /\ UNCHANGED <<sent, owed>>
  /\ UNCHANGED <<part, begun>>

SendLookup(kind) ==
  Send(kind) /\ UNCHANGED <<session, op, holder, tries, known, part, begun>>

End(state) == Leave(state) /\ UNCHANGED <<known, sent, owed, part, begun>>

(* No function of that name: the call ends.  Otherwise the layouts of its   *)
(* structure and table parameters are looked up, one here, none if it has   *)
(* no such parameter.  A payload without records is no error, and describes *)
(* a function without parameters.                                           *)
GfiAnswered ==
  /\ phase = "gfi"
  /\ Answer
  /\ \/ Parsed /\ (SendLookup("ddif") \/ Invoke \/ End("READY"))
     \/ Unreadable /\ (Invoke \/ End("READY"))

(* An ABAP error or a reply without rows leads to the fallback; any other   *)
(* exception is logged and swallowed.                                       *)
DdifAnswered ==
  /\ phase = "ddif"
  /\ Answer
  /\ \/ Parsed /\ (SendLookup("rsd") \/ Invoke)
     \/ Unreadable /\ Invoke

RsdAnswered ==
  /\ phase = "rsd"
  /\ Answer
  /\ Parsed \/ Unreadable
  /\ Invoke

(* _fail_closed: what cannot be decoded retires the session.                *)
InvokeAnswered ==
  /\ phase = "invoke"
  /\ Answer
  /\ \/ Parsed /\ End("READY")
     \/ Unreadable /\ End("BROKEN")

(* ping() decodes outside _fail_closed, confirm_tid() has none.             *)
PlainAnswered ==
  /\ phase \in {"ping", "confirm"}
  /\ Answer
  /\ Parsed \/ Unreadable
  /\ End("READY")

(* CommunicationError: sleep and send again, or, the retries exhausted,     *)
(* park and give up.                                                        *)
ShipFails ==
  \/ /\ tries < MaxRetries
     /\ tries' = tries + 1
     /\ phase' = "backoff"
     /\ mine' = 0 /\ reply' = 0
     /\ UNCHANGED <<session, op, holder, known, sent, owed, part, begun>>
  \/ tries = MaxRetries /\ End("READY")

(* raise_for_rfc_error reports bytes that do not parse as a                 *)
(* CommunicationError, which is retried.  It takes a payload without        *)
(* records for success, and the join of the frames raises a ValueError,     *)
(* which is not retried.                                                    *)
ShipAnswered ==
  /\ phase = "ship"
  /\ Answer
  /\ \/ Parsed /\ End("READY")
     \/ Unreadable /\ (ShipFails \/ End("READY"))

-----------------------------------------------------------------------------
(* Timeouts and cancellations, of a reader whose reply has not come         *)

TimesOut == phase \in TimeoutAt /\ wire = <<>> /\ Fault /\ UNCHANGED <<wire, used>>

(* Mutant: the OSError of a read leaves the session usable.                 *)
GuardedTimeoutForgives ==
  TimesOut /\ phase \in {"invoke", "ping"} /\ End("READY") /\ Lapse(FALSE)

GuardedTimeout ==
  TimesOut /\ phase \in {"invoke", "ping"} /\ End("BROKEN") /\ Lapse(FALSE)

(* CommunicationError, and the connection stays READY.                      *)
UnguardedTimeout ==
  TimesOut /\ phase \in {"gfi", "confirm"} /\ End("READY") /\ Lapse(TRUE)

LookupTimeout ==
  TimesOut /\ phase \in {"ddif", "rsd"} /\ Invoke /\ Lapse(TRUE)

ShipTimeout == TimesOut /\ phase = "ship" /\ ShipFails /\ Lapse(TRUE)

Resend ==
  /\ phase = "backoff"
  /\ SendLookup("ship")
  /\ UNCHANGED <<wire, used, faults, lapsed>>

(* CancelledError passes every handler; only the "finally" runs.            *)
Cancelled ==
  /\ phase \in CancelAt
  /\ Fault
  /\ End("READY")
  /\ Lapse(TRUE)
  /\ UNCHANGED <<wire, used>>

-----------------------------------------------------------------------------
Reader ==
  \/ ReadOn \/ GfiAnswered \/ DdifAnswered \/ RsdAnswered \/ InvokeAnswered
  \/ PlainAnswered \/ ShipAnswered \/ Resend

Timeout == GuardedTimeout \/ UnguardedTimeout \/ LookupTimeout \/ ShipTimeout

Next ==
  \/ \E c \in Callers : (\E o \in Ops : Begin(c, o)) \/ Enter(c) \/ Refuse(c)
  \/ FinishReply \/ ContinueReply
  \/ Reader \/ Timeout \/ Cancelled

Spec == Init /\ [][Next]_vars

(* The server answers, the reader runs, the lock is handed on.              *)
Fairness ==
  /\ WF_vars(FinishReply)
  /\ WF_vars(Reader)
  /\ \A c \in Callers : WF_vars(Enter(c) \/ Refuse(c))

FairSpec == Spec /\ Fairness

-----------------------------------------------------------------------------
Frame == [req : Nat, first : BOOLEAN, last : BOOLEAN]

TypeOK ==
  /\ session \in {"READY", "IN_CALL", "BROKEN"}
  /\ op \in [Callers -> Ops \union {"none"}]
  /\ holder \in Callers \union {NoOne}
  /\ phase \in Requests \union {"none", "backoff"}
  /\ mine \in Nat /\ reply \in Nat /\ sent \in Nat
  /\ tries \in 0..MaxRetries
  /\ known \in BOOLEAN
  /\ owed \in Seq([req : Nat, kind : Requests])
  /\ part \in 0..(MaxFrames - 1)
  /\ wire \in Seq(Frame)
  /\ begun \in 0..MaxOps /\ faults \in 0..MaxFaults
  /\ lapsed \in BOOLEAN

(* The session is IN_CALL exactly while some caller is inside an operation. *)
SessionTracksLock ==
  /\ (session = "IN_CALL") <=> (holder # NoOne)
  /\ (phase # "none") <=> (holder # NoOne)

(* "A request was sent whose reply could not be read to its end ... any     *)
(* further call on this connection would read the previous reply's          *)
(* leftovers": no operation, metadata lookups included, ever takes the      *)
(* reply to an earlier request for the answer to its own.                   *)
OwnReplyOnly == \A pair \in used : pair[1] = pair[2]

(* What _fail_closed and the join of frames achieve: as long as no timeout  *)
(* outside a guarded read, no cancellation and no bootstrap reply of more   *)
(* than one frame came to pass, replies and requests belong together, and a *)
(* READY connection has every request answered and every answer read.       *)
OwnReplyUnlessLapsed == ~lapsed => OwnReplyOnly
ReadyMeansInStep == ~lapsed /\ session = "READY" => owed = <<>> /\ wire = <<>>

(* "Once the position in the stream is unknown it stays unknown": a READY   *)
(* connection that is out of step never gets in step again by itself, so    *)
(* only retiring it helps.                                                  *)
OutOfStep == session = "READY" /\ owed \o wire # <<>>
StaysOutOfStep ==
  [](OutOfStep => [](session = "READY" => OutOfStep))

(* BROKEN is terminal, and nothing is sent on a broken connection.          *)
BrokenIsFinal ==
  [][session = "BROKEN" => session' = "BROKEN" /\ sent' = sent]_vars

(* Every operation ends, with a result, an error or a refusal.              *)
OperationEnds == \A c \in Callers : op[c] # "none" ~> op[c] = "none"
=============================================================================
