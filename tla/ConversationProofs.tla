-------------------------- MODULE ConversationProofs --------------------------
(***************************************************************************)
(* Proofs about Conversation, for any set of callers and any number of     *)
(* operations, faults, frames and retries.                                 *)
(***************************************************************************)
EXTENDS Conversation, SequenceTheorems, TLAPS

(* The reply of the running request, or what is left of it, is all that is  *)
(* owed and on the wire: frames numbered with that request, the first of    *)
(* them marked first unless it has been read, the last of them last.        *)
InReply ==
  /\ mine # 0
  /\ reply \in {0, mine}
  /\ IF owed = <<>> THEN wire # <<>> ELSE Len(owed) = 1 /\ owed[1].req = mine
  /\ \A i \in 1..Len(wire) :
        /\ wire[i].req = mine
        /\ wire[i].last <=> (i = Len(wire) /\ owed = <<>>)
        /\ wire[i].first <=> (i = 1 /\ reply = 0)
  /\ (part = 0) <=> (owed = <<>> \/ (wire = <<>> /\ reply = 0))

(* Nothing is owed and nothing is unread.                                   *)
Quiet == owed = <<>> /\ wire = <<>> /\ part = 0

(* The stream is in step until something lapses: a request's reply is under *)
(* way while one is waited on, and the line is quiet otherwise, except on a *)
(* connection that was retired.                                             *)
StreamInStep ==
  ~lapsed =>
    /\ OwnReplyOnly
    /\ phase \in Requests => InReply
    /\ phase \notin Requests => session = "BROKEN" \/ Quiet

ConversationInv == TypeOK /\ SessionTracksLock /\ StreamInStep

-----------------------------------------------------------------------------
(* What the building blocks of the actions do to the types.                 *)
LEMMA RequestType ==
  ASSUME TypeOK, NEW c \in Callers, op[c] # "none"
  PROVE  FirstRequest(op[c]) \in Requests
  BY OpsAssumption DEF TypeOK, FirstRequest, Requests

LEMMA SendType ==
  ASSUME TypeOK, NEW kind \in Requests, Send(kind)
  PROVE  /\ sent' \in Nat /\ mine' \in Nat /\ reply' \in Nat
         /\ owed' \in Seq([req : Nat, kind : Requests])
         /\ phase' \in Requests
  <1>1. [req |-> sent + 1, kind |-> kind] \in [req : Nat, kind : Requests]
    BY DEF TypeOK
  <1> QED BY <1>1 DEF TypeOK, Send

LEMMA LeaveType ==
  ASSUME TypeOK, NEW state \in {"READY", "BROKEN"}, Leave(state)
  PROVE  /\ session' = state /\ holder' = NoOne /\ phase' = "none"
         /\ mine' \in Nat /\ reply' \in Nat /\ tries' \in 0..MaxRetries
         /\ op' \in [Callers -> Ops \union {"none"}]
  <1>1. 0 \in 0..MaxRetries
    BY BoundAssumption
  <1>2. op' \in [Callers -> Ops \union {"none"}]
    BY DEF TypeOK, Leave
  <1> QED BY <1>1, <1>2 DEF Leave

LEMMA FaultType ==
  ASSUME TypeOK, Fault
  PROVE  faults' \in 0..MaxFaults
  BY BoundAssumption DEF TypeOK, Fault

LEMMA LastTail ==
  ASSUME NEW M, NEW q \in Seq(M), Len(q) = 1
  PROVE  Tail(q) = <<>>
  <1>1. q # <<>>
    BY EmptySeq
  <1>2. Tail(q) \in Seq(M) /\ Len(Tail(q)) = Len(q) - 1
    BY <1>1
  <1>3. Len(Tail(q)) = 0
    BY <1>2
  <1>4. Tail(q) # <<>> => Len(Tail(q)) \in Nat \ {0}
    BY <1>2, EmptySeq, Zenon
  <1> QED BY <1>3, <1>4

LEMMA FrameType ==
  ASSUME NEW r \in Nat, NEW first \in BOOLEAN, NEW last \in BOOLEAN
  PROVE  [req |-> r, first |-> first, last |-> last] \in Frame
  BY DEF Frame

LEMMA HeadTail ==
  ASSUME NEW M, NEW q \in Seq(M), q # <<>>
  PROVE  Head(q) \in M /\ Tail(q) \in Seq(M)
  OBVIOUS

-----------------------------------------------------------------------------
(* Types and the lock, inductive together: the caller that leaves is the    *)
(* one that holds the lock.                                                 *)
Basic == TypeOK /\ SessionTracksLock

LEMMA InitBasic == Init => Basic
  <1> SUFFICES ASSUME Init PROVE Basic
    OBVIOUS
  <1>1. 0 \in 0..MaxRetries /\ 0 \in 0..MaxOps /\ 0 \in 0..MaxFaults
        /\ 0 \in 0..(MaxFrames - 1)
    BY BoundAssumption
  <1>2. op \in [Callers -> Ops \union {"none"}]
    BY DEF Init
  <1>3. <<>> \in Seq([req : Nat, kind : Requests]) /\ <<>> \in Seq(Frame)
    OBVIOUS
  <1>4. TypeOK
    BY <1>1, <1>2, <1>3 DEF Init, TypeOK
  <1> QED BY <1>4 DEF Init, Basic, SessionTracksLock

(* The steps of the holder are made of these moves: send, leave, give up an *)
(* attempt, each with the variables it leaves alone.                        *)
HolderMoves ==
  \/ /\ \E kind \in Requests : Send(kind)
     /\ UNCHANGED <<session, op, holder, tries>>
  \/ \E state \in {"READY", "BROKEN"} : Leave(state) /\ UNCHANGED <<sent, owed>>
  \/ /\ tries < MaxRetries /\ tries' = tries + 1
     /\ phase' = "backoff" /\ mine' = 0 /\ reply' = 0
     /\ UNCHANGED <<session, op, holder, sent, owed>>

LEMMA MovesBasic ==
  ASSUME Basic, phase # "none", HolderMoves,
         known' \in BOOLEAN, part' = part, begun' = begun,
         wire' \in Seq(Frame), faults' \in 0..MaxFaults, lapsed' \in BOOLEAN
  PROVE  Basic'
  <1>0. USE DEF Basic
  <1>1. CASE /\ \E kind \in Requests : Send(kind)
             /\ UNCHANGED <<session, op, holder, tries>>
    <2>1. PICK kind \in Requests : Send(kind)
      BY <1>1
    <2> QED
      BY <1>1, <2>1, SendType DEF TypeOK, SessionTracksLock, Requests
  <1>2. CASE \E state \in {"READY", "BROKEN"} :
               Leave(state) /\ UNCHANGED <<sent, owed>>
    <2>1. PICK state \in {"READY", "BROKEN"} : Leave(state)
      BY <1>2
    <2> QED
      BY <1>2, <2>1, LeaveType DEF TypeOK, SessionTracksLock
  <1>3. CASE /\ tries < MaxRetries /\ tries' = tries + 1
             /\ phase' = "backoff" /\ mine' = 0 /\ reply' = 0
             /\ UNCHANGED <<session, op, holder, sent, owed>>
    <2>1. tries' \in 0..MaxRetries
      BY <1>3, BoundAssumption DEF TypeOK
    <2> QED
      BY <1>3, <2>1 DEF TypeOK, SessionTracksLock
  <1> QED BY <1>1, <1>2, <1>3 DEF HolderMoves

LEMMA InvokeMoves ==
  Invoke => HolderMoves /\ known' = TRUE /\ UNCHANGED <<part, begun>>
  BY DEF Invoke, HolderMoves, Requests

LEMMA LookupMoves ==
  ASSUME NEW kind \in Requests, SendLookup(kind)
  PROVE  HolderMoves /\ UNCHANGED <<known, part, begun>>
  BY DEF SendLookup, HolderMoves

LEMMA EndMoves ==
  ASSUME NEW state \in {"READY", "BROKEN"}, End(state)
  PROVE  HolderMoves /\ UNCHANGED <<known, part, begun>>
  BY DEF End, HolderMoves

LEMMA ShipFailsMoves == ShipFails => HolderMoves /\ UNCHANGED <<known, part, begun>>
  BY EndMoves DEF ShipFails, HolderMoves

(* What an answered request and a timeout do: the frame is taken, or none   *)
(* is, and the holder moves.                                                *)
Answers ==
  \/ GfiAnswered \/ DdifAnswered \/ RsdAnswered \/ InvokeAnswered
  \/ PlainAnswered \/ ShipAnswered

LEMMA AnswersMove ==
  Answers => /\ Answer /\ (Parsed \/ Unreadable)
             /\ HolderMoves /\ known' \in {known, TRUE}
             /\ UNCHANGED <<part, begun>>
  <1> SUFFICES ASSUME Answers
               PROVE  /\ Answer /\ (Parsed \/ Unreadable)
                      /\ HolderMoves /\ known' \in {known, TRUE}
                      /\ UNCHANGED <<part, begun>>
    OBVIOUS
  <1>1. CASE GfiAnswered
    BY <1>1, LookupMoves, InvokeMoves, EndMoves DEF GfiAnswered, Requests
  <1>2. CASE DdifAnswered
    BY <1>2, LookupMoves, InvokeMoves DEF DdifAnswered, Requests
  <1>3. CASE RsdAnswered
    BY <1>3, InvokeMoves DEF RsdAnswered
  <1>4. CASE InvokeAnswered
    BY <1>4, EndMoves DEF InvokeAnswered
  <1>5. CASE PlainAnswered
    BY <1>5, EndMoves DEF PlainAnswered
  <1>6. CASE ShipAnswered
    BY <1>6, EndMoves, ShipFailsMoves DEF ShipAnswered
  <1> QED BY <1>1, <1>2, <1>3, <1>4, <1>5, <1>6 DEF Answers

LEMMA TimeoutMoves ==
  Timeout => /\ Fault /\ UNCHANGED <<wire, used>>
             /\ HolderMoves /\ known' \in {known, TRUE}
             /\ UNCHANGED <<part, begun>>
             /\ lapsed' \in BOOLEAN /\ (lapsed => lapsed')
             /\ lapsed' \/ (session' = "BROKEN" /\ phase' = "none")
             /\ phase \in Requests
  <1> SUFFICES ASSUME Timeout
               PROVE  /\ Fault /\ UNCHANGED <<wire, used>>
                      /\ HolderMoves /\ known' \in {known, TRUE}
                      /\ UNCHANGED <<part, begun>>
                      /\ lapsed' \in BOOLEAN /\ (lapsed => lapsed')
                      /\ lapsed' \/ (session' = "BROKEN" /\ phase' = "none")
                      /\ phase \in Requests
    OBVIOUS
  <1>1. CASE GuardedTimeout
    BY <1>1, EndMoves DEF GuardedTimeout, TimesOut, Lapse, End, Leave, Requests
  <1>2. CASE UnguardedTimeout
    BY <1>2, EndMoves DEF UnguardedTimeout, TimesOut, Lapse, Requests
  <1>3. CASE LookupTimeout
    BY <1>3, InvokeMoves DEF LookupTimeout, TimesOut, Lapse, Requests
  <1>4. CASE ShipTimeout
    BY <1>4, ShipFailsMoves DEF ShipTimeout, TimesOut, Lapse, Requests
  <1> QED BY <1>1, <1>2, <1>3, <1>4 DEF Timeout

LEMMA ServerBasic ==
  ASSUME Basic, FinishReply \/ ContinueReply
  PROVE  Basic'
  <1>0. USE DEF Basic
  <1>1. owed # <<>> /\ Head(owed) \in [req : Nat, kind : Requests]
        /\ Tail(owed) \in Seq([req : Nat, kind : Requests])
    BY HeadTail DEF FinishReply, ContinueReply, TypeOK
  <1>2. wire' \in Seq(Frame)
    <2>1. PICK last \in BOOLEAN : ServerSends(last)
      BY DEF FinishReply, ContinueReply
    <2>2. [req |-> Head(owed).req, first |-> part = 0, last |-> last] \in Frame
      BY <1>1, FrameType
    <2> QED BY <2>1, <2>2 DEF ServerSends, TypeOK
  <1>3. part' \in 0..(MaxFrames - 1)
    <2>1. part' = 0 \/ (part' = part + 1 /\ part + 1 < MaxFrames)
      BY DEF FinishReply, ContinueReply
    <2>2. part \in Nat /\ MaxFrames \in Nat \ {0}
      BY BoundAssumption DEF TypeOK
    <2> QED BY <2>1, <2>2
  <1> QED
    BY <1>1, <1>2, <1>3
    DEF FinishReply, ContinueReply, ServerSends, TypeOK, SessionTracksLock

LEMMA NextBasic ==
  ASSUME Basic, [Next]_vars
  PROVE  Basic'
  <1>1. ASSUME NEW c \in Callers, NEW o \in Ops, Begin(c, o) PROVE Basic'
    <2>1. begun' \in 0..MaxOps
      BY <1>1, BoundAssumption DEF Begin, Basic, TypeOK
    <2> QED BY <1>1, <2>1 DEF Begin, Basic, TypeOK, SessionTracksLock
  <1>2. ASSUME NEW c \in Callers, Enter(c) PROVE Basic'
    <2>1. /\ FirstRequest(op[c]) \in Requests /\ Send(FirstRequest(op[c]))
      BY <1>2, RequestType DEF Enter, Basic
    <2>2. "none" \notin Requests /\ c # NoOne
      BY CallerAssumption DEF Requests
    <2>3. /\ sent' \in Nat /\ mine' \in Nat /\ reply' \in Nat
          /\ owed' \in Seq([req : Nat, kind : Requests])
          /\ phase' \in Requests
      BY <2>1, SendType DEF Basic
    <2> QED
      BY <1>2, <2>2, <2>3 DEF Enter, Basic, TypeOK, SessionTracksLock
  <1>3. ASSUME NEW c \in Callers, Refuse(c) PROVE Basic'
    BY <1>3 DEF Refuse, Basic, TypeOK, SessionTracksLock
  <1>4. CASE FinishReply \/ ContinueReply
    BY <1>4, ServerBasic
  <1>5. CASE ReadOn
    <2>1. Head(wire) \in Frame /\ Tail(wire) \in Seq(Frame)
      BY <1>5, HeadTail DEF ReadOn, Basic, TypeOK
    <2>2. reply' \in Nat
      BY <1>5, <2>1 DEF ReadOn, TakenFor, Basic, TypeOK, Frame
    <2> QED BY <1>5, <2>1, <2>2 DEF ReadOn, Basic, TypeOK, SessionTracksLock
  <1>6. CASE Answers
    <2>1. /\ Answer /\ (Parsed \/ Unreadable)
          /\ HolderMoves /\ known' \in {known, TRUE}
          /\ UNCHANGED <<part, begun>>
      BY <1>6, AnswersMove
    <2>2. Head(wire) \in Frame /\ Tail(wire) \in Seq(Frame) /\ phase # "none"
      BY <2>1, HeadTail DEF Answer, ReplyRead, Requests, Basic, TypeOK
    <2>3. wire' \in Seq(Frame) /\ lapsed' \in BOOLEAN
      BY <2>1, <2>2 DEF Answer, Lapse, Basic, TypeOK, Frame
    <2>4. faults' \in 0..MaxFaults
      BY <2>1, FaultType DEF Parsed, Unreadable, Basic, TypeOK
    <2>5. known' \in BOOLEAN
      BY <2>1 DEF Basic, TypeOK
    <2> QED BY <2>1, <2>2, <2>3, <2>4, <2>5, MovesBasic
  <1>7. CASE Timeout
    <2>1. /\ wire' \in Seq(Frame) /\ lapsed' \in BOOLEAN
          /\ known' \in BOOLEAN /\ phase # "none"
      BY <1>7, TimeoutMoves DEF Basic, TypeOK, Requests
    <2>2. faults' \in 0..MaxFaults
      BY <1>7, TimeoutMoves, FaultType DEF Basic
    <2> QED BY <1>7, <2>1, <2>2, TimeoutMoves, MovesBasic
  <1>8. CASE Resend
    <2>1. HolderMoves /\ UNCHANGED <<known, part, begun>> /\ phase # "none"
      BY <1>8, LookupMoves DEF Resend, Requests
    <2> QED BY <1>8, <2>1, MovesBasic DEF Resend, Basic, TypeOK
  <1>9. CASE Cancelled
    <2>1. HolderMoves /\ UNCHANGED <<known, part, begun>>
      BY <1>9, EndMoves DEF Cancelled
    <2>2. phase # "none"
      BY <1>9, RequestAssumption DEF Cancelled, Requests
    <2>3. faults' \in 0..MaxFaults
      BY <1>9, FaultType DEF Cancelled, Basic
    <2> QED BY <1>9, <2>1, <2>2, <2>3, MovesBasic
      DEF Cancelled, Lapse, Basic, TypeOK
  <1>10. CASE UNCHANGED vars
    BY <1>10 DEF vars, Basic, TypeOK, SessionTracksLock
  <1> QED
    BY <1>1, <1>2, <1>3, <1>4, <1>5, <1>6, <1>7, <1>8, <1>9, <1>10
    DEF Next, Reader, Answers

-----------------------------------------------------------------------------
(* On a quiet line a request sent is the only one whose reply is under way, *)
(* and whatever else the holder does leaves the line quiet.                 *)
LEMMA MoveFromQuiet ==
  ASSUME Basic, owed = <<>>, wire' = <<>>, part' = 0,
         \/ \E kind \in Requests : Send(kind)
         \/ phase' \notin Requests /\ owed' = owed
  PROVE  /\ phase' \in Requests => InReply'
         /\ phase' \notin Requests => Quiet'
  <1>1. CASE \E kind \in Requests : Send(kind)
    <2>1. PICK kind \in Requests : Send(kind)
      BY <1>1
    <2>2. mine' = sent + 1 /\ mine' # 0 /\ reply' = 0
      BY <2>1 DEF Send, Basic, TypeOK
    <2>3. Len(owed') = 1 /\ owed'[1].req = mine' /\ owed' # <<>>
      BY <2>1 DEF Send
    <2>4. phase' \in Requests
      BY <2>1 DEF Send
    <2> QED BY <2>2, <2>3, <2>4 DEF InReply
  <1>2. CASE phase' \notin Requests /\ owed' = owed
    BY <1>2 DEF Quiet
  <1> QED BY <1>1, <1>2

(* A reader that reaches the last frame of its reply leaves a quiet line,   *)
(* and has read the reply to its own request.                               *)
LEMMA LastFrame ==
  ASSUME Basic, InReply, wire # <<>>, Head(wire).last
  PROVE  owed = <<>> /\ Tail(wire) = <<>> /\ part = 0
  <1>1. /\ wire \in Seq(Frame) /\ Len(wire) \in Nat /\ Len(wire) >= 1
        /\ Head(wire) = wire[1] /\ 1 \in 1..Len(wire)
    BY DEF Basic, TypeOK
  <1>2. 1 = Len(wire) /\ owed = <<>>
    BY <1>1 DEF InReply
  <1>3. Tail(wire) = <<>>
    BY <1>1, <1>2, LastTail
  <1> QED BY <1>2, <1>3 DEF InReply

LEMMA OwnFrame ==
  ASSUME Basic, InReply, wire # <<>>
  PROVE  InSync /\ TakenFor[1] = TakenFor[2] /\ TakenFor[2] = mine
  <1>1. /\ wire \in Seq(Frame) /\ Len(wire) \in Nat /\ Len(wire) >= 1
        /\ Head(wire) = wire[1] /\ 1 \in 1..Len(wire)
    BY DEF Basic, TypeOK
  <1>2. Head(wire).req = mine /\ (Head(wire).first <=> reply = 0)
    BY <1>1 DEF InReply
  <1> QED BY <1>2 DEF InReply, InSync, TakenFor

LEMMA AnswerInStep ==
  ASSUME Basic, StreamInStep, Answers, ~lapsed'
  PROVE  /\ OwnReplyOnly'
         /\ phase' \in Requests => InReply'
         /\ phase' \notin Requests => Quiet'
  <1>1. /\ ReplyRead /\ wire' = Tail(wire) /\ Lapse(~Head(wire).last)
        /\ Parsed \/ Unreadable
        /\ HolderMoves /\ part' = part
    BY AnswersMove DEF Answer
  <1>2. wire # <<>> /\ phase \in Requests
    BY <1>1 DEF ReplyRead
  <1>3. ~lapsed /\ Head(wire).last
    BY <1>1, Zenon DEF Lapse
  <1>4. InReply /\ OwnReplyOnly
    BY <1>2, <1>3 DEF StreamInStep
  <1>5. owed = <<>> /\ wire' = <<>> /\ part' = 0
    BY <1>1, <1>2, <1>3, <1>4, LastFrame
  <1>6. OwnReplyOnly'
    <2>1. TakenFor[1] = TakenFor[2]
      BY <1>2, <1>4, OwnFrame
    <2>2. used' = used \/ used' = used \union {TakenFor}
      BY <1>1 DEF Parsed, Unreadable
    <2> QED BY <1>4, <2>1, <2>2 DEF OwnReplyOnly
  <1>7. \/ \E kind \in Requests : Send(kind)
        \/ phase' \notin Requests /\ owed' = owed
    BY <1>1 DEF HolderMoves, Leave, Requests
  <1> QED BY <1>5, <1>6, <1>7, MoveFromQuiet

(* The server sends the frames of the one reply it owes, in order.          *)
LEMMA ServerInStep ==
  ASSUME Basic, InReply, FinishReply \/ ContinueReply
  PROVE  InReply'
  <1>1. PICK last \in BOOLEAN :
          /\ ServerSends(last)
          /\ IF last THEN owed' = Tail(owed) /\ part' = 0
                     ELSE owed' = owed /\ part' = part + 1
    BY DEF FinishReply, ContinueReply
  <1>2. /\ owed # <<>> /\ Len(owed) = 1 /\ Head(owed).req = mine
        /\ Tail(owed) = <<>>
    <2>1. owed # <<>>
      BY DEF FinishReply, ContinueReply
    <2>2. Len(owed) = 1 /\ owed[1].req = mine
      BY <2>1 DEF InReply
    <2>3. owed \in Seq([req : Nat, kind : Requests]) /\ Head(owed) = owed[1]
      BY <2>1 DEF Basic, TypeOK
    <2> QED BY <2>1, <2>2, <2>3, LastTail
  <1>3. /\ mine' = mine /\ reply' = reply /\ wire \in Seq(Frame)
        /\ part \in Nat /\ Len(wire) \in Nat
    BY <1>1, BoundAssumption DEF ServerSends, Basic, TypeOK
  <1>4. owed' = <<>> <=> last
    BY <1>1, <1>2
  <1> DEFINE f == [req |-> Head(owed).req, first |-> part = 0, last |-> last]
  <1>5. /\ wire' = Append(wire, f) /\ Len(wire') = Len(wire) + 1 /\ wire' # <<>>
        /\ \A i \in 1..Len(wire) : wire'[i] = wire[i]
        /\ wire'[Len(wire) + 1] = f
    BY <1>1, <1>3 DEF ServerSends
  <1>6. f.req = mine /\ (f.last <=> last) /\ (f.first <=> part = 0)
    <2>1. f.req = Head(owed).req /\ f.last = last /\ f.first = (part = 0)
      BY Zenon
    <2> QED BY <1>2, <2>1
  <1>7. (part = 0) <=> (wire = <<>> /\ reply = 0)
    BY <1>2 DEF InReply
  <1>8. ASSUME NEW i \in 1..Len(wire')
        PROVE  /\ wire'[i].req = mine
               /\ wire'[i].last <=> (i = Len(wire') /\ owed' = <<>>)
               /\ wire'[i].first <=> (i = 1 /\ reply = 0)
    <2>1. CASE i = Len(wire) + 1
      <3>1. i = 1 <=> wire = <<>>
        BY <1>3, <2>1
      <3> QED BY <1>4, <1>5, <1>6, <1>7, <2>1, <3>1
    <2>2. CASE i # Len(wire) + 1
      <3>1. i \in 1..Len(wire) /\ wire'[i] = wire[i]
        BY <1>3, <1>5, <2>2
      <3> QED BY <1>2, <1>3, <1>5, <2>2, <3>1 DEF InReply
    <2> QED BY <2>1, <2>2
  <1>9. (part' = 0) <=> (owed' = <<>> \/ (wire' = <<>> /\ reply' = 0))
    BY <1>1, <1>3, <1>4, <1>5
  <1>10. IF owed' = <<>> THEN wire' # <<>>
                         ELSE Len(owed') = 1 /\ owed'[1].req = mine'
    BY <1>1, <1>2, <1>3, <1>4, <1>5 DEF InReply
  <1> HIDE DEF f
  <1> QED BY <1>3, <1>8, <1>9, <1>10 DEF InReply

LEMMA NextInStep ==
  ASSUME Basic, StreamInStep, [Next]_vars
  PROVE  StreamInStep'
  <1> SUFFICES ASSUME ~lapsed'
               PROVE  /\ OwnReplyOnly'
                      /\ phase' \in Requests => InReply'
                      /\ phase' \notin Requests => session' = "BROKEN" \/ Quiet'
    BY DEF StreamInStep
  <1> DEFINE Stays == UNCHANGED <<session, phase, mine, reply, owed, part,
                                  wire, used, lapsed>>
  <1>1. CASE Stays
    BY <1>1 DEF StreamInStep, OwnReplyOnly, InReply, Quiet
  <1>2. ASSUME NEW c \in Callers, Enter(c)
        PROVE  OwnReplyOnly' /\ phase' \in Requests /\ InReply'
    <2>1. /\ ~lapsed /\ session = "READY" /\ holder = NoOne /\ used' = used
          /\ wire' = wire /\ part' = part /\ Send(FirstRequest(op[c]))
          /\ FirstRequest(op[c]) \in Requests
      BY <1>2, RequestType DEF Enter, Basic
    <2>2. phase = "none" /\ phase \notin Requests
      BY <2>1 DEF Basic, SessionTracksLock, Requests
    <2>3. Quiet /\ OwnReplyOnly
      BY <2>1, <2>2 DEF StreamInStep
    <2>4. phase' \in Requests
      BY <2>1 DEF Send
    <2> QED BY <2>1, <2>3, <2>4, MoveFromQuiet DEF Quiet, OwnReplyOnly
  <1>3. CASE FinishReply \/ ContinueReply
    <2>1. /\ ~lapsed /\ session' = session /\ phase' = phase /\ used' = used
          /\ owed # <<>>
      BY <1>3 DEF FinishReply, ContinueReply, ServerSends
    <2>2. phase \in Requests => InReply'
      BY <1>3, <2>1, ServerInStep DEF StreamInStep
    <2>3. phase \notin Requests => session = "BROKEN"
      BY <2>1 DEF StreamInStep, Quiet
    <2> QED BY <2>1, <2>2, <2>3 DEF StreamInStep, OwnReplyOnly
  <1>4. CASE ReadOn
    <2>1. /\ ~lapsed /\ phase \in Requests /\ wire # <<>> /\ ~Head(wire).last
          /\ wire' = Tail(wire) /\ reply' = TakenFor[2]
          /\ UNCHANGED <<session, phase, mine, owed, part, used>>
      BY <1>4 DEF ReadOn, ReplyRead
    <2>2. InReply /\ OwnReplyOnly
      BY <2>1 DEF StreamInStep
    <2>3. reply' = mine
      BY <2>1, <2>2, OwnFrame
    <2>4. /\ wire \in Seq(Frame) /\ Len(wire) \in Nat /\ Len(wire) >= 1
          /\ Head(wire) = wire[1] /\ Len(Tail(wire)) = Len(wire) - 1
          /\ \A i \in 1..Len(Tail(wire)) :
                /\ Tail(wire)[i] = wire[i + 1]
                /\ i + 1 \in 1..Len(wire) /\ i + 1 # 1
                /\ i = Len(Tail(wire)) <=> i + 1 = Len(wire)
      <3>1. wire \in Seq(Frame)
        BY DEF Basic, TypeOK
      <3>2. Len(wire) \in Nat /\ Len(wire) >= 1 /\ Head(wire) = wire[1]
        BY <2>1, <3>1
      <3>3. Len(Tail(wire)) = Len(wire) - 1
        BY <2>1, <3>1
      <3>4. ASSUME NEW i \in 1..Len(Tail(wire)) PROVE Tail(wire)[i] = wire[i + 1]
        BY <2>1, <3>1, <3>2, <3>3
      <3>5. ASSUME NEW i \in 1..Len(Tail(wire))
            PROVE  /\ i + 1 \in 1..Len(wire) /\ i + 1 # 1
                   /\ i = Len(Tail(wire)) <=> i + 1 = Len(wire)
        BY <3>2, <3>3
      <3> QED BY <3>1, <3>2, <3>3, <3>4, <3>5
    <2>5. 1 # Len(wire) \/ owed # <<>>
      <3>1. 1 \in 1..Len(wire) /\ ~wire[1].last
        BY <2>1, <2>4
      <3>2. wire[1].last <=> (1 = Len(wire) /\ owed = <<>>)
        BY <2>2, <3>1, Zenon DEF InReply
      <3> QED BY <3>1, <3>2
    <2>6. owed = <<>> => Tail(wire) # <<>>
      <3>1. owed = <<>> => Len(Tail(wire)) # 0
        BY <2>4, <2>5
      <3> QED BY <3>1, EmptySeq
    <2>7. part # 0 \/ owed = <<>>
      BY <2>1, <2>2 DEF InReply
    <2>8. ASSUME NEW i \in 1..Len(wire')
          PROVE  /\ wire'[i].req = mine'
                 /\ wire'[i].last <=> (i = Len(wire') /\ owed' = <<>>)
                 /\ wire'[i].first <=> (i = 1 /\ reply' = 0)
      <3>1. /\ wire'[i] = wire[i + 1] /\ i + 1 \in 1..Len(wire) /\ i + 1 # 1
            /\ i = Len(wire') <=> i + 1 = Len(wire)
        BY <2>1, <2>4
      <3>2. reply' # 0
        BY <2>2, <2>3 DEF InReply
      <3> QED BY <2>1, <2>2, <3>1, <3>2 DEF InReply
    <2>9. InReply'
      BY <2>1, <2>2, <2>3, <2>6, <2>7, <2>8 DEF InReply
    <2> QED BY <2>1, <2>2, <2>9 DEF OwnReplyOnly
  <1>5. CASE Answers
    BY <1>5, AnswerInStep
  <1>6. CASE Timeout
    <2>1. /\ session' = "BROKEN" /\ phase' = "none" /\ used' = used
          /\ ~lapsed
      BY <1>6, TimeoutMoves
    <2> QED BY <2>1 DEF StreamInStep, OwnReplyOnly, Requests
  <1>7. CASE Resend
    <2>1. /\ phase = "backoff" /\ phase \notin Requests /\ ~lapsed
          /\ Send("ship") /\ "ship" \in Requests
          /\ UNCHANGED <<session, wire, part, used>>
      BY <1>7 DEF Resend, SendLookup, Requests
    <2>2. session # "BROKEN"
      BY <2>1 DEF Basic, SessionTracksLock
    <2>3. Quiet /\ OwnReplyOnly
      BY <2>1, <2>2 DEF StreamInStep
    <2> QED BY <2>1, <2>3, MoveFromQuiet DEF Quiet, OwnReplyOnly
  <1>8. CASE Cancelled
    BY <1>8, Zenon DEF Cancelled, Lapse
  <1>9. Stays \/ (\E c \in Callers : Enter(c))
        \/ FinishReply \/ ContinueReply \/ ReadOn \/ Answers \/ Timeout
        \/ Resend \/ Cancelled
    BY DEF Next, Begin, Refuse, Reader, Answers, vars
  <1> QED BY <1>1, <1>2, <1>3, <1>4, <1>5, <1>6, <1>7, <1>8, <1>9

LEMMA ConversationInvariant == Spec => []ConversationInv
  <1>1. Init => ConversationInv
    <2>1. Init => StreamInStep
      BY DEF Init, StreamInStep, OwnReplyOnly, Quiet, Requests
    <2> QED BY <2>1, InitBasic DEF Basic, ConversationInv
  <1>2. ConversationInv /\ [Next]_vars => ConversationInv'
    BY NextBasic, NextInStep DEF Basic, ConversationInv
  <1> QED BY <1>1, <1>2, PTL DEF Spec

-----------------------------------------------------------------------------
(* Every variable keeps its type.                                           *)
THEOREM TypeInvariant == Spec => []TypeOK
  <1>1. ConversationInv => TypeOK
    BY DEF ConversationInv
  <1> QED BY <1>1, ConversationInvariant, PTL

(* The session is IN_CALL exactly while a caller is inside an operation:    *)
(* no "finally" misses it and none restores a session it does not own.      *)
THEOREM SessionInvariant == Spec => []SessionTracksLock
  <1>1. ConversationInv => SessionTracksLock
    BY DEF ConversationInv
  <1> QED BY <1>1, ConversationInvariant, PTL

(* No operation takes the reply to another request for its own, until a     *)
(* read lapses that the code does not retire the connection for.            *)
THEOREM OwnReplyInvariant == Spec => []OwnReplyUnlessLapsed
  <1>1. ConversationInv => OwnReplyUnlessLapsed
    BY DEF ConversationInv, StreamInStep, OwnReplyUnlessLapsed
  <1> QED BY <1>1, ConversationInvariant, PTL

(* Until then, a connection that is READY owes nothing and has nothing left *)
(* to read.                                                                 *)
THEOREM ReadyInvariant == Spec => []ReadyMeansInStep
  <1>1. ConversationInv => ReadyMeansInStep
    BY DEF ConversationInv, StreamInStep, SessionTracksLock, ReadyMeansInStep,
           Quiet, Requests
  <1> QED BY <1>1, ConversationInvariant, PTL

(* Nobody is inside an operation on a BROKEN session, and nobody gets in.   *)
LEMMA BrokenStep ==
  ASSUME Basic, [Next]_vars, session = "BROKEN"
  PROVE  session' = "BROKEN" /\ sent' = sent
  <1>1. holder = NoOne /\ phase = "none"
    BY DEF Basic, SessionTracksLock
  <1>2. ~Answers /\ ~Timeout /\ ~ReadOn /\ ~Resend /\ ~Cancelled
    <2>1. phase \notin Requests /\ phase # "backoff"
      BY <1>1 DEF Requests
    <2> QED
      BY <2>1, AnswersMove, TimeoutMoves, RequestAssumption
      DEF Answer, ReplyRead, ReadOn, Resend, Cancelled
  <1>3. \A c \in Callers : ~Enter(c)
    BY DEF Enter
  <1> QED
    BY <1>2, <1>3 DEF Next, Reader, Answers, Begin, Refuse, FinishReply,
                      ContinueReply, ServerSends, vars

(* mark_broken is final: no "finally" revives the session, and no caller    *)
(* queued on the lock sends anything on it.                                 *)
THEOREM BrokenStays == Spec => BrokenIsFinal
  <1>1. Basic /\ [Next]_vars =>
          [session = "BROKEN" => session' = "BROKEN" /\ sent' = sent]_vars
    BY BrokenStep
  <1>2. ConversationInv => Basic
    BY DEF ConversationInv, Basic
  <1> QED
    BY <1>1, <1>2, ConversationInvariant, PTL DEF Spec, BrokenIsFinal

-----------------------------------------------------------------------------
(* Out of step for good.  Ends counts the replies whose end is still to be  *)
(* read, by naming them: one is left over on a connection out of step, and  *)
(* a request waited on makes it two.  A reader takes one end at most, its   *)
(* own or another's, so the one left over is never made up for.             *)
EndAt(i) == i \in 1..Len(wire) /\ wire[i].last

OneEnd == owed # <<>> \/ \E i : EndAt(i)

TwoEnds ==
  \/ Len(owed) >= 2
  \/ \E i : EndAt(i) /\ (owed # <<>> \/ \E j : j # i /\ EndAt(j))

LeftOver == session # "BROKEN" => OneEnd /\ (phase \in Requests => TwoEnds)

(* A line with nothing owed on it ends with the end of a reply.             *)
WireEnds == owed = <<>> /\ wire # <<>> => wire[Len(wire)].last

LEMMA ReadEnds ==
  ASSUME Basic, wire # <<>>, wire' = Tail(wire)
  PROVE  /\ \A i : EndAt(i) /\ i # 1 => EndAt(i - 1)'
         /\ ~Head(wire).last => ~EndAt(1)
         /\ wire' # <<>> => wire'[Len(wire')] = wire[Len(wire)]
  <1>1. /\ wire \in Seq(Frame) /\ Len(wire) \in Nat /\ Len(wire) >= 1
        /\ Head(wire) = wire[1] /\ wire' \in Seq(Frame)
    BY DEF Basic, TypeOK
  <1>2. Len(wire') = Len(wire) - 1 /\ \A i \in 1..Len(wire') : wire'[i] = wire[i + 1]
    BY <1>1, HeadTailProperties
  <1>3. ASSUME NEW i, EndAt(i), i # 1 PROVE EndAt(i - 1)'
    <2>1. i - 1 \in 1..Len(wire') /\ (i - 1) + 1 = i
      BY <1>1, <1>2, <1>3 DEF EndAt
    <2>2. wire'[i - 1] = wire[i]
      BY <1>2, <2>1
    <2> QED BY <1>3, <2>1, <2>2 DEF EndAt
  <1>4. wire' # <<>> => Len(wire') \in 1..Len(wire')
    BY <1>1, EmptySeq
  <1> QED BY <1>1, <1>2, <1>3, <1>4 DEF EndAt

LEMMA SentEnds ==
  ASSUME Basic, FinishReply \/ ContinueReply
  PROVE  /\ \A i : EndAt(i) => EndAt(i)'
         /\ OneEnd' /\ (TwoEnds => TwoEnds') /\ WireEnds'
  <1>1. PICK last \in BOOLEAN :
          /\ ServerSends(last) /\ owed # <<>>
          /\ IF last THEN owed' = Tail(owed) ELSE owed' = owed
    BY DEF FinishReply, ContinueReply
  <1> DEFINE f == [req |-> Head(owed).req, first |-> part = 0, last |-> last]
  <1>0. PICK n : n = Len(wire) + 1
    OBVIOUS
  <1>2. /\ wire \in Seq(Frame) /\ Len(wire) \in Nat /\ wire' = Append(wire, f)
        /\ owed \in Seq([req : Nat, kind : Requests])
    BY <1>1 DEF ServerSends, Basic, TypeOK
  <1>3. Len(wire') = n /\ wire'[n] = f /\ \A i \in 1..Len(wire) : wire'[i] = wire[i]
    BY <1>0, <1>2
  <1>4. f.last = last
    BY Zenon
  <1>5. ASSUME NEW i, EndAt(i) PROVE EndAt(i)' /\ i # n
    <2>1. i \in 1..Len(wire) /\ wire[i].last
      BY <1>5 DEF EndAt
    <2>2. i \in 1..Len(wire') /\ i # n
      BY <1>0, <1>2, <1>3, <2>1
    <2> QED BY <1>3, <2>1, <2>2 DEF EndAt
  <1>6. n \in 1..Len(wire')
    BY <1>0, <1>2, <1>3
  <1>7. CASE last
    <2>1. EndAt(n)' /\ wire'[Len(wire')].last
      BY <1>3, <1>4, <1>6, <1>7 DEF EndAt
    <2>2. Len(owed) >= 2 => owed' # <<>>
      <3>1. Len(owed') = Len(owed) - 1 /\ Len(owed) \in Nat
        BY <1>1, <1>2, <1>7
      <3>2. owed' = <<>> => Len(owed') = 0
        OBVIOUS
      <3> QED BY <3>1, <3>2
    <2> QED BY <1>1, <1>5, <2>1, <2>2 DEF OneEnd, TwoEnds, WireEnds
  <1>8. CASE ~last
    <2>1. owed' = owed
      BY <1>1, <1>8
    <2> QED BY <1>1, <1>5, <2>1 DEF OneEnd, TwoEnds, WireEnds
  <1> QED BY <1>5, <1>7, <1>8

(* A request the client sends is one more the server owes an answer to.     *)
LEMMA SendOwes ==
  ASSUME Basic, NEW kind, Send(kind)
  PROVE  /\ Len(owed) \in Nat /\ Len(owed') = Len(owed) + 1
         /\ owed' # <<>> /\ (owed # <<>> => Len(owed') >= 2)
  <1>1. owed \in Seq([req : Nat, kind : Requests])
    BY DEF Basic, TypeOK
  <1>2. owed' = Append(owed, [req |-> sent + 1, kind |-> kind])
    BY DEF Send
  <1> DEFINE r == [req |-> sent + 1, kind |-> kind]
  <1>3. Len(owed) \in Nat /\ Len(owed') = Len(owed) + 1
    <2> HIDE DEF r
    <2>1. owed' = Append(owed, r)
      BY <1>2 DEF r
    <2> QED BY <1>1, <2>1
  <1>4. Len(<<>>) = 0
    BY EmptySeq
  <1>5. owed' # <<>>
    BY <1>3, <1>4
  <1>6. owed # <<>> => Len(owed) \in Nat \ {0}
    BY <1>1, EmptySeq
  <1> QED BY <1>3, <1>5, <1>6

(* A move of the holder takes nothing from the wire; a request it sends is  *)
(* one more end.                                                            *)
LEMMA MovedEnds ==
  ASSUME Basic, HolderMoves,
         owed # <<>> \/ \E i : EndAt(i)'
  PROVE  session' # "BROKEN" => OneEnd' /\ (phase' \in Requests => TwoEnds')
  <1>1. CASE \E kind \in Requests : Send(kind)
    <2>1. owed' # <<>> /\ (owed # <<>> => Len(owed') >= 2)
      BY <1>1, SendOwes
    <2> QED BY <2>1 DEF OneEnd, TwoEnds
  <1>2. CASE UNCHANGED owed /\ phase' \notin Requests
    BY <1>2 DEF OneEnd
  <1> QED BY <1>1, <1>2 DEF HolderMoves, Leave, Requests

LEMMA LeftOverStays ==
  ASSUME Basic, WireEnds, LeftOver, [Next]_vars
  PROVE  LeftOver'
  <1> SUFFICES ASSUME session' # "BROKEN"
               PROVE  OneEnd' /\ (phase' \in Requests => TwoEnds')
    BY DEF LeftOver
  <1>0. OneEnd /\ (phase \in Requests => TwoEnds)
    BY BrokenStep DEF LeftOver
  <1>1. CASE UNCHANGED <<phase, owed, wire>>
    BY <1>0, <1>1 DEF OneEnd, TwoEnds, EndAt
  <1>2. CASE FinishReply \/ ContinueReply
    BY <1>0, <1>2, SentEnds DEF FinishReply, ContinueReply, ServerSends
  <1>3. CASE ReadOn
    <2>1. /\ phase \in Requests /\ wire # <<>> /\ ~Head(wire).last /\ wire' = Tail(wire)
          /\ UNCHANGED <<phase, owed>>
      BY <1>3 DEF ReadOn, ReplyRead
    <2>2. \A i : EndAt(i) => EndAt(i - 1)'
      BY <2>1, ReadEnds
    <2>3. \A i, j : EndAt(i) /\ EndAt(j) /\ j # i => j - 1 # i - 1
      BY DEF EndAt
    <2>4. TwoEnds'
      BY <1>0, <2>1, <2>2, <2>3 DEF TwoEnds
    <2> QED BY <1>0, <2>1, <2>2, <2>4 DEF OneEnd
  <1>4. CASE Answers
    <2>1. wire' = Tail(wire) /\ wire # <<>> /\ phase \in Requests /\ HolderMoves
      BY <1>4, AnswersMove DEF Answer, ReplyRead
    <2>2. \A i : EndAt(i) /\ i # 1 => EndAt(i - 1)'
      BY <2>1, ReadEnds
    <2>3. owed # <<>> \/ \E i : EndAt(i) /\ i # 1
      <3>1. Len(owed) >= 2 => owed # <<>>
        OBVIOUS
      <3> QED BY <1>0, <2>1, <3>1 DEF TwoEnds
    <2>4. owed # <<>> \/ \E i : EndAt(i)'
      BY <2>2, <2>3
    <2> QED BY <2>1, <2>4, MovedEnds
  <1>5. CASE UNCHANGED wire /\ HolderMoves
    <2>1. \A i : EndAt(i) => EndAt(i)'
      BY <1>5 DEF EndAt
    <2>2. owed # <<>> \/ \E i : EndAt(i)'
      BY <1>0, <2>1 DEF OneEnd
    <2> QED BY <1>5, <2>2, MovedEnds
  <1>6. ASSUME NEW c \in Callers, Enter(c) PROVE OneEnd' /\ (phase' \in Requests => TwoEnds')
    <2>1. Send(FirstRequest(op[c])) /\ wire' = wire
      BY <1>6 DEF Enter
    <2>2. owed' # <<>> /\ (owed # <<>> => Len(owed') >= 2)
      BY <2>1, SendOwes
    <2>3. \A i : EndAt(i) => EndAt(i)'
      BY <2>1 DEF EndAt
    <2> QED BY <1>0, <2>2, <2>3 DEF OneEnd, TwoEnds
  <1>7. CASE Timeout \/ Resend \/ Cancelled
    <2>1. "ship" \in Requests
      BY DEF Requests
    <2> QED BY <1>5, <1>7, <2>1, TimeoutMoves, LookupMoves, EndMoves DEF Resend, Cancelled
  <1> QED
    BY <1>1, <1>2, <1>3, <1>4, <1>6, <1>7 DEF Next, Begin, Refuse, Reader, Answers, vars

LEMMA WireEndsStays ==
  ASSUME Basic, WireEnds, [Next]_vars
  PROVE  WireEnds'
  <1>1. CASE FinishReply \/ ContinueReply
    BY <1>1, SentEnds
  <1>2. CASE owed' = owed \/ owed' # <<>>
    <2>1. CASE wire' = wire
      BY <1>2, <2>1 DEF WireEnds
    <2>2. CASE wire # <<>> /\ wire' = Tail(wire)
      BY <1>2, <2>2, ReadEnds DEF WireEnds
    <2>3. wire' = wire \/ (wire # <<>> /\ wire' = Tail(wire)) \/ FinishReply \/ ContinueReply
      BY AnswersMove, TimeoutMoves
      DEF Next, Begin, Enter, Refuse, Reader, ReadOn, Resend, Cancelled, Answers, Answer, ReplyRead, vars
    <2> QED BY <1>1, <2>1, <2>2, <2>3
  <1>3. (\E kind \in Requests : Send(kind)) => owed' # <<>>
    BY SendOwes
  <1>4. HolderMoves => owed' = owed \/ owed' # <<>>
    BY <1>3 DEF HolderMoves
  <1>5. (\E c \in Callers : Enter(c)) => owed' # <<>>
    BY SendOwes DEF Enter
  <1>6. Answers \/ Timeout \/ Resend \/ Cancelled => HolderMoves
    BY AnswersMove, TimeoutMoves, LookupMoves, EndMoves DEF Resend, Cancelled, Requests
  <1> QED
    BY <1>1, <1>2, <1>4, <1>5, <1>6 DEF Next, Begin, Refuse, Reader, ReadOn, Answers, vars

(* Once a READY connection is out of step with the server it is out of step *)
(* whenever it is READY again: only retiring it helps, which is why         *)
(* _fail_closed does (connection.py, _fail_closed).                         *)
THEOREM OutOfStepForGood == Spec => StaysOutOfStep
  <1>1. Init => WireEnds
    BY DEF Init, WireEnds
  <1>2. Basic /\ WireEnds /\ [Next]_vars => WireEnds'
    BY WireEndsStays
  <1>3. Basic /\ WireEnds /\ OutOfStep => LeftOver
    <2> SUFFICES ASSUME Basic, WireEnds, OutOfStep PROVE LeftOver
      OBVIOUS
    <2>1. owed # <<>> \/ wire # <<>>
      BY DEF OutOfStep
    <2>2. wire # <<>> => Len(wire) \in 1..Len(wire)
      BY EmptySeq DEF Basic, TypeOK
    <2>3. OneEnd
      BY <2>1, <2>2 DEF OneEnd, EndAt, WireEnds
    <2>4. phase \notin Requests
      BY DEF OutOfStep, Basic, SessionTracksLock, Requests
    <2> QED BY <2>3, <2>4 DEF LeftOver
  <1>4. Basic /\ WireEnds /\ LeftOver /\ [Next]_vars => LeftOver'
    BY LeftOverStays
  <1>5. Basic /\ LeftOver => (session = "READY" => OutOfStep)
    <2> SUFFICES ASSUME Basic, LeftOver, session = "READY" PROVE owed \o wire # <<>>
      BY DEF OutOfStep
    <2>1. owed # <<>> \/ wire # <<>>
      BY DEF LeftOver, OneEnd, EndAt
    <2> DEFINE Item == [req : Nat, kind : Requests] \union Frame
    <2>2. owed \in Seq([req : Nat, kind : Requests]) /\ wire \in Seq(Frame)
      BY DEF Basic, TypeOK
    <2>3. owed \in Seq(Item) /\ wire \in Seq(Item)
      BY <2>2, SeqMonotonic, Zenon
    <2> HIDE DEF Item
    <2> QED BY <2>1, <2>3, ConcatEqualIffEmpty
  <1>6. ConversationInv => Basic
    BY DEF ConversationInv, Basic
  <1> QED
    BY <1>1, <1>2, <1>3, <1>4, <1>5, <1>6, ConversationInvariant, PTL DEF Spec, StaysOutOfStep
=============================================================================
