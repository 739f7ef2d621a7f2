--------------------------- MODULE ServeLoopProofs ---------------------------
(***************************************************************************)
(* Proofs about ServeLoop, for any application threads and any number of   *)
(* runs, stops, calls, idle frames and faults.                             *)
(***************************************************************************)
EXTENDS ServeLoop, SequenceTheorems, TLAPS

Has(n, kind) == \E i \in 1..Len(inbox[n]) : inbox[n][i].kind = kind

(* A run that reads or answers, on a connection the gateway has not left.   *)
Working == {"greeting", "top", "reading", "dispatching", "replied"}

(* Frames come in the order greeting, conversation, call, each once and as  *)
(* the gateway has sent them.                                               *)
Queued(n) ==
  \A i \in 1..Len(inbox[n]) :
    LET f == inbox[n][i] IN
    /\ f.kind = "greeting" => gateway[n] = "known" /\ Len(inbox[n]) = 1
    /\ f.kind = "conversation" => gateway[n] \in {"assigned", "calling"} /\ f.call = assigned[n]
    /\ f.kind = "call" => gateway[n] = "calling" /\ f.call = assigned[n]
    /\ \A j \in 1..Len(inbox[n]) :
         /\ f.kind \in {"call", "conversation"} /\ inbox[n][j].kind = f.kind => i = j
         /\ f.kind = "call" /\ inbox[n][j].kind = "conversation" => j < i

(* What the gateway thinks of the registration and what it has sent agree   *)
(* with where the run is, and a call's conversation is known when it is     *)
(* read.                                                                    *)
Together(n) ==
  /\ pc[n] = "greeting" <=> gateway[n] \in {"greeted", "known"}
  /\ gateway[n] \in {"greeted", "known", "waiting", "assigned", "calling", "replied"}
  /\ Queued(n)
  /\ gateway[n] = "greeted" => Len(inbox[n]) = 0
  /\ gateway[n] = "known" => Len(inbox[n]) = 1 /\ inbox[n][1].kind = "greeting"
  /\ gateway[n] \in {"assigned", "calling"} => Has(n, "conversation") \/ handle[n] = assigned[n]
  /\ gateway[n] = "calling" => Has(n, "call") \/ pc[n] = "dispatching" \/ n \in failed
  /\ pc[n] = "dispatching" =>
       /\ gateway[n] = "calling"
       /\ serving[n] = assigned[n] /\ handle[n] = assigned[n]
       /\ ~Has(n, "conversation") /\ ~Has(n, "call")
  /\ pc[n] = "replied" => gateway[n] = "replied"

RunInv(n) ==
  /\ pc[n] \in Working /\ gateway[n] # "gone" => Together(n)
  /\ gateway[n] = "replied" => pc[n] = "replied"
  /\ pc[n] \in {"unborn", "connecting"} => gateway[n] = "none" /\ inbox[n] = <<>> /\ conn[n] = "none"
  /\ gateway[n] # "cut"

ServeInv == TypeOK /\ OwnConversation /\ \A n \in Runs : RunInv(n)

-----------------------------------------------------------------------------
LEMMA InitInv == Init => ServeInv
  <1> SUFFICES ASSUME Init PROVE ServeInv
    OBVIOUS
  <1>1. TypeOK
    <2>1. 0 \in Nat /\ MaxCalls \in Nat /\ MaxIdle \in Nat /\ MaxStops \in Nat /\ MaxFaults \in Nat
      BY BoundAssumption
    <2>2. 0 \in 0..MaxCalls /\ 0 \in 0..MaxIdle /\ 0 \in 0..MaxStops /\ 0 \in 0..MaxFaults
      BY <2>1
    <2>3. <<>> \in Seq(Frames)
      OBVIOUS
    <2> QED BY <2>2, <2>3 DEF Init, TypeOK, None
  <1> QED BY <1>1 DEF Init, ServeInv, OwnConversation, RunInv, Working

(* A run nobody moves, and whose connection is left alone, stays together.  *)
LEMMA Unmoved ==
  ASSUME NEW m \in Runs, RunInv(m),
         pc'[m] = pc[m], gateway'[m] = gateway[m], inbox'[m] = inbox[m],
         handle'[m] = handle[m], serving'[m] = serving[m], assigned'[m] = assigned[m],
         failed \subseteq failed', conn[m] = "none" => conn'[m] = "none"
  PROVE  RunInv(m)'
  BY DEF RunInv, Together, Queued, Has, Working

(* A run that stops working owes nothing but what the gateway thinks.       *)
LEMMA Idle ==
  ASSUME NEW m \in Runs, pc'[m] \notin Working \union {"unborn", "connecting"},
         gateway'[m] \notin {"cut", "replied"}
  PROVE  RunInv(m)'
  BY DEF RunInv, Working

LEMMA Gone ==
  ASSUME NEW m \in Runs, pc'[m] \notin {"unborn", "connecting"},
         gateway'[m] = "gone"
  PROVE  RunInv(m)'
  BY DEF RunInv

-----------------------------------------------------------------------------
(* Types                                                                    *)

LEMMA FrameType ==
  ASSUME NEW kind \in {"greeting", "conversation", "call", "idle"}, NEW k \in 0..MaxCalls
  PROVE  Frame(kind, k) \in Frames
  BY DEF Frame, Frames

LEMMA SendsType ==
  ASSUME TypeOK, NEW n \in Runs, NEW f \in Frames, Sends(n, f)
  PROVE  /\ inbox' \in [Runs -> Seq(Frames)]
         /\ inbox'[n] = Append(inbox[n], f)
         /\ \A m \in Runs \ {n} : inbox'[m] = inbox[m]
  <1>1. Append(inbox[n], f) \in Seq(Frames)
    BY DEF TypeOK
  <1> QED BY <1>1 DEF TypeOK, Sends

(* What reading a frame leaves.                                             *)
LEMMA TailType ==
  ASSUME TypeOK, NEW n \in Runs, inbox[n] # <<>>,
         inbox' = [inbox EXCEPT ![n] = Tail(@)]
  PROVE  /\ inbox' \in [Runs -> Seq(Frames)]
         /\ Head(inbox[n]) = inbox[n][1] /\ Head(inbox[n]) \in Frames
         /\ Len(inbox[n]) \in Nat \ {0}
         /\ inbox'[n] = Tail(inbox[n])
         /\ Len(inbox'[n]) = Len(inbox[n]) - 1
         /\ \A i \in 1..Len(inbox'[n]) : inbox'[n][i] = inbox[n][i + 1]
         /\ \A m \in Runs \ {n} : inbox'[m] = inbox[m]
  <1>1. inbox[n] \in Seq(Frames) /\ Tail(inbox[n]) \in Seq(Frames)
    BY DEF TypeOK
  <1>2. inbox'[n] = Tail(inbox[n])
    BY DEF TypeOK
  <1>3. Len(inbox[n]) \in Nat \ {0} /\ Head(inbox[n]) = inbox[n][1] /\ Head(inbox[n]) \in Frames
    BY <1>1
  <1>4. /\ Len(inbox'[n]) = Len(inbox[n]) - 1
        /\ \A i \in 1..Len(inbox'[n]) : inbox'[n][i] = inbox[n][i + 1]
    BY <1>1, <1>2, HeadTailProperties
  <1> QED BY <1>1, <1>2, <1>3, <1>4 DEF TypeOK

(* One step, one lemma: what has a type keeps it.                           *)
LEMMA FaultType ==
  ASSUME TypeOK, Fault PROVE faults' \in 0..MaxFaults
  BY BoundAssumption DEF TypeOK, Fault

LEMMA TypeStep == TypeOK /\ [Next]_vars => TypeOK'
  <1> SUFFICES ASSUME TypeOK, [Next]_vars PROVE TypeOK'
    OBVIOUS
  <1>1. CASE UNCHANGED vars
    BY <1>1 DEF TypeOK, vars, server, runVars, wire, counts
  <1>2. ASSUME NEW c \in Callers, ServeForever(c) PROVE TypeOK'
    <2>1. PICK n \in Runs : /\ stopped' = FALSE /\ thread' = n
                            /\ pc' = [pc EXCEPT ![n] = "connecting"]
                            /\ joins' = [joins EXCEPT ![c] = n]
      BY <1>2 DEF ServeForever
    <2>2. pc' \in [Runs -> {"unborn", "connecting", "greeting", "top", "reading",
                            "dispatching", "replied", "leaving", "closing", "ended"}]
      BY <2>1 DEF TypeOK
    <2>3. /\ joins' \in [Callers -> Runs \union {None}]
          /\ thread' \in Runs \union {None} /\ stopped' \in BOOLEAN
      BY <2>1 DEF TypeOK
    <2>4. caller' \in [Callers -> {"out", "serving", "stopping", "closing", "joining"}]
      BY <1>2 DEF TypeOK, ServeForever
    <2>5. UNCHANGED <<transport, registered, handle, serving, failed, wire, counts>>
      BY <1>2 DEF ServeForever
    <2> QED BY <2>2, <2>3, <2>4, <2>5 DEF TypeOK, wire, counts
  <1>3. ASSUME NEW c \in Callers, ServeReturns(c) PROVE TypeOK'
    BY <1>3, Zenon DEF TypeOK, ServeReturns, server, runVars, wire, counts
  <1>4. ASSUME NEW c \in Callers, Stop(c) PROVE TypeOK'
    BY <1>4, BoundAssumption, SMTT(30) DEF TypeOK, Stop, runVars, wire
  <1>5. ASSUME NEW c \in Callers, ShutReads(c) PROVE TypeOK'
    <2>1. conn' \in [Runs -> {"none", "open", "noread", "closed"}]
      BY <1>5 DEF TypeOK, ShutReads
    <2>2. /\ caller' \in [Callers -> {"out", "serving", "stopping", "closing", "joining"}]
          /\ joins' \in [Callers -> Runs \union {None}] /\ thread' \in Runs \union {None}
      BY <1>5 DEF TypeOK, ShutReads, AfterStop
    <2> QED BY <1>5, <2>1, <2>2 DEF TypeOK, ShutReads, runVars, counts
  <1>6. ASSUME NEW c \in Callers, CloseReturns(c) PROVE TypeOK'
    BY <1>6 DEF TypeOK, CloseReturns, runVars, wire, counts
  <1>7. ASSUME NEW n \in Runs, Connects(n) PROVE TypeOK'
    BY <1>7 DEF TypeOK, Connects, Step, counts
  <1>8. ASSUME NEW n \in Runs, ConnectFails(n) PROVE TypeOK'
    BY <1>8, FaultType DEF TypeOK, ConnectFails, Step, server, wire
  <1>9. ASSUME NEW n \in Runs, Registers(n) PROVE TypeOK'
    <2>1. inbox' \in [Runs -> Seq(Frames)]
      BY <1>9, TailType DEF Registers, Reads
    <2> QED BY <1>9, <2>1 DEF TypeOK, Registers, Step, server, counts
  <1>10. ASSUME NEW n \in Runs, LoopTop(n) PROVE TypeOK'
    BY <1>10 DEF TypeOK, LoopTop, Step, server, wire, counts
  <1>11. ASSUME NEW n \in Runs, ReadFrame(n) PROVE TypeOK'
    <2>1. inbox' \in [Runs -> Seq(Frames)] /\ Head(inbox[n]) \in Frames
      BY <1>11, TailType DEF ReadFrame, Reads
    <2>2. Head(inbox[n]).call \in 0..MaxCalls
      BY <2>1 DEF Frames
    <2>3. handle' \in [Runs -> 0..MaxCalls] /\ serving' \in [Runs -> 0..MaxCalls]
      BY <1>11, <2>2 DEF TypeOK, ReadFrame
    <2>4. pc' \in [Runs -> {"unborn", "connecting", "greeting", "top", "reading",
                            "dispatching", "replied", "leaving", "closing", "ended"}]
      BY <1>11 DEF TypeOK, ReadFrame, Step
    <2> QED BY <1>11, <2>1, <2>3, <2>4 DEF TypeOK, ReadFrame, server, counts
  <1>12. ASSUME NEW n \in Runs, EndOfFile(n) PROVE TypeOK'
    BY <1>12 DEF TypeOK, EndOfFile, server, wire, counts
  <1>13. ASSUME NEW n \in Runs, Replies(n) PROVE TypeOK'
    <2>1. answered' \in SUBSET ((0..MaxCalls) \X (0..MaxCalls))
      BY <1>13 DEF TypeOK, Replies
    <2> QED BY <1>13, <2>1 DEF TypeOK, Replies, Step, server, counts
  <1>14. ASSUME NEW n \in Runs, WaitsAgain(n) PROVE TypeOK'
    BY <1>14 DEF TypeOK, WaitsAgain, Step, server, counts
  <1>15. ASSUME NEW n \in Runs, Leaves(n) PROVE TypeOK'
    BY <1>15 DEF TypeOK, Leaves, Step, wire, counts
  <1>16. ASSUME NEW n \in Runs, Ends(n) PROVE TypeOK'
    BY <1>16 DEF TypeOK, Ends, Step, ListenEnd, server, counts
  <1>17. ASSUME NEW n \in Runs, DispatchRaises(n) PROVE TypeOK'
    BY <1>17, FaultType DEF TypeOK, DispatchRaises, Step, server, wire
  <1>18. ASSUME NEW n \in Runs, AnswersGreeting(n) PROVE TypeOK'
    <2>1. None \in 0..MaxCalls
      BY BoundAssumption DEF None
    <2>2. inbox' \in [Runs -> Seq(Frames)]
      BY <1>18, <2>1, FrameType, SendsType DEF AnswersGreeting
    <2> QED BY <1>18, <2>2 DEF TypeOK, AnswersGreeting, server, runVars, counts
  <1>19. ASSUME NEW n \in Runs, Assigns(n) PROVE TypeOK'
    <2>1. calls' \in 0..MaxCalls
      BY <1>19, BoundAssumption DEF TypeOK, Assigns
    <2>2. inbox' \in [Runs -> Seq(Frames)]
      BY <1>19, <2>1, FrameType, SendsType DEF Assigns
    <2> QED BY <1>19, <2>1, <2>2 DEF TypeOK, Assigns, server, runVars
  <1>20. ASSUME NEW n \in Runs, Delivers(n) PROVE TypeOK'
    <2>1. inbox' \in [Runs -> Seq(Frames)]
      BY <1>20, FrameType, SendsType DEF TypeOK, Delivers
    <2> QED BY <1>20, <2>1 DEF TypeOK, Delivers, server, runVars, counts
  <1>21. ASSUME NEW n \in Runs, SendsIdle(n) PROVE TypeOK'
    <2>1. None \in 0..MaxCalls /\ idles' \in 0..MaxIdle
      BY <1>21, BoundAssumption DEF TypeOK, SendsIdle, None
    <2>2. inbox' \in [Runs -> Seq(Frames)]
      BY <1>21, <2>1, FrameType, SendsType DEF SendsIdle
    <2> QED BY <1>21, <2>1, <2>2 DEF TypeOK, SendsIdle, server, runVars
  <1>22. ASSUME NEW n \in Runs, HangsUp(n) PROVE TypeOK'
    BY <1>22, FaultType DEF TypeOK, HangsUp, server, runVars
  <1> QED
    BY <1>1, <1>2, <1>3, <1>4, <1>5, <1>6, <1>7, <1>8, <1>9, <1>10, <1>11, <1>12, <1>13,
       <1>14, <1>15, <1>16, <1>17, <1>18, <1>19, <1>20, <1>21, <1>22
       DEF Next, ServeThread, Application

-----------------------------------------------------------------------------
(* The other runs: a step moves one run and its own connection.             *)
LEMMA OthersStay ==
  ASSUME TypeOK, NEW n \in Runs, NEW m \in Runs \ {n}, RunInv(m),
         \/ Connects(n) \/ ConnectFails(n) \/ Registers(n) \/ LoopTop(n)
         \/ ReadFrame(n) \/ EndOfFile(n) \/ Replies(n) \/ WaitsAgain(n)
         \/ Leaves(n) \/ Ends(n) \/ DispatchRaises(n) \/ AnswersGreeting(n)
         \/ Assigns(n) \/ Delivers(n) \/ SendsIdle(n) \/ HangsUp(n)
  PROVE  RunInv(m)'
  <1>1. pc'[m] = pc[m]
    BY SMTT(30) DEF TypeOK, Connects, ConnectFails, Registers, LoopTop, ReadFrame, EndOfFile, Replies,
           WaitsAgain, Leaves, Ends, DispatchRaises, AnswersGreeting, Assigns, Delivers,
           SendsIdle, HangsUp, Step, runVars
  <1>2. gateway'[m] = gateway[m]
    BY SMTT(30) DEF TypeOK, Connects, ConnectFails, Registers, LoopTop, ReadFrame, EndOfFile, Replies,
           WaitsAgain, Leaves, Ends, DispatchRaises, AnswersGreeting, Assigns, Delivers,
           SendsIdle, HangsUp, Step, wire
  <1>3. inbox'[m] = inbox[m]
    BY SMTT(30) DEF TypeOK, Connects, ConnectFails, Registers, LoopTop, ReadFrame, EndOfFile, Replies,
           WaitsAgain, Leaves, Ends, DispatchRaises, AnswersGreeting, Assigns, Delivers,
           SendsIdle, HangsUp, Sends, wire
  <1>4. handle'[m] = handle[m] /\ serving'[m] = serving[m]
    BY SMTT(30) DEF TypeOK, Connects, ConnectFails, Registers, LoopTop, ReadFrame, EndOfFile, Replies,
           WaitsAgain, Leaves, Ends, DispatchRaises, AnswersGreeting, Assigns, Delivers,
           SendsIdle, HangsUp, runVars
  <1>5. assigned'[m] = assigned[m] /\ failed \subseteq failed'
    BY SMTT(30) DEF TypeOK, Connects, ConnectFails, Registers, LoopTop, ReadFrame, EndOfFile, Replies,
           WaitsAgain, Leaves, Ends, DispatchRaises, AnswersGreeting, Assigns, Delivers,
           SendsIdle, HangsUp, runVars, wire
  <1>6. conn'[m] = conn[m]
    BY SMTT(30) DEF TypeOK, Connects, ConnectFails, Registers, LoopTop, ReadFrame, EndOfFile, Replies,
           WaitsAgain, Leaves, Ends, DispatchRaises, AnswersGreeting, Assigns, Delivers,
           SendsIdle, HangsUp, wire
  <1> QED BY <1>1, <1>2, <1>3, <1>4, <1>5, <1>6, Unmoved

(* The run that moves.                                                      *)
LEMMA ConnectsStay ==
  ASSUME TypeOK, NEW n \in Runs, RunInv(n), Connects(n) \/ ConnectFails(n)
  PROVE  RunInv(n)'
  <1>1. CASE Connects(n)
    <2>1. pc'[n] = "greeting" /\ gateway'[n] = "greeted" /\ inbox'[n] = <<>>
      BY <1>1 DEF Connects, Step, TypeOK, RunInv
    <2> QED BY <2>1 DEF RunInv, Together, Queued, Has
  <1>2. CASE ConnectFails(n)
    <2>1. pc'[n] = "ended" /\ gateway'[n] = "none"
      BY <1>2 DEF ConnectFails, Step, TypeOK, RunInv, wire
    <2> QED BY <2>1, Idle DEF Working
  <1> QED BY <1>1, <1>2

LEMMA RegistersStay ==
  ASSUME TypeOK, NEW n \in Runs, RunInv(n), Registers(n)
  PROVE  RunInv(n)'
  <1>1. pc[n] = "greeting" /\ pc'[n] = "top" /\ inbox[n] # <<>>
    BY DEF Registers, Reads, Step, TypeOK
  <1>2. CASE gateway[n] = "gone"
    <2>1. gateway'[n] = "gone"
      BY <1>2 DEF Registers, TypeOK
    <2> QED BY <1>1, <2>1, Gone
  <1>3. CASE gateway[n] # "gone"
    <2>1. Together(n)
      BY <1>1, <1>3 DEF RunInv, Working
    <2>2. /\ inbox' \in [Runs -> Seq(Frames)] /\ Len(inbox[n]) \in Nat \ {0}
          /\ Len(inbox'[n]) = Len(inbox[n]) - 1
      BY TailType DEF Registers, Reads
    <2>3. Len(inbox[n]) = 1
      BY <1>1, <2>1, <2>2 DEF Together, Queued
    <2>5. inbox'[n] \in Seq(Frames) /\ Len(inbox'[n]) = 0
      BY <2>2, <2>3
    <2>4. gateway'[n] = "waiting"
      BY <1>3 DEF Registers, TypeOK
    <2> QED BY <1>1, <2>4, <2>5 DEF RunInv, Together, Queued, Has
  <1> QED BY <1>2, <1>3

LEMMA LoopTopStays ==
  ASSUME TypeOK, NEW n \in Runs, RunInv(n), LoopTop(n)
  PROVE  RunInv(n)'
  <1>1. pc[n] = "top" /\ pc'[n] \in {"leaving", "reading"}
    BY DEF LoopTop, Step, TypeOK
  <1>2. /\ gateway'[n] = gateway[n] /\ inbox'[n] = inbox[n]
        /\ handle'[n] = handle[n] /\ assigned'[n] = assigned[n] /\ failed' = failed
    BY DEF LoopTop, wire
  <1> QED BY <1>1, <1>2 DEF RunInv, Together, Queued, Has, Working

LEMMA EndOfFileStays ==
  ASSUME TypeOK, NEW n \in Runs, RunInv(n), EndOfFile(n) \/ Leaves(n)
  PROVE  RunInv(n)'
  <1>1. /\ pc[n] \in {"greeting", "reading", "leaving"} /\ pc'[n] \in {"leaving", "closing"}
        /\ gateway'[n] = gateway[n]
    BY DEF EndOfFile, Leaves, Step, TypeOK, wire
  <1> QED BY <1>1 DEF RunInv, Working

LEMMA EndsStays ==
  ASSUME TypeOK, NEW n \in Runs, RunInv(n), Ends(n)
  PROVE  RunInv(n)'
  <1>1. pc[n] = "closing" /\ pc'[n] = "ended" /\ gateway[n] # "replied"
    BY DEF Ends, Step, TypeOK, RunInv
  <1>2. gateway'[n] \notin {"cut", "replied"}
    BY <1>1 DEF Ends, ListenEnd, TypeOK, RunInv
  <1> QED BY <1>1, <1>2, Idle DEF Working

LEMMA ReadFrameStays ==
  ASSUME TypeOK, NEW n \in Runs, RunInv(n), ReadFrame(n)
  PROVE  RunInv(n)'
  <1> DEFINE f == Head(inbox[n])
  <1>1. /\ pc[n] = "reading" /\ pc'[n] = IF f.kind = "call" THEN "dispatching" ELSE "top"
        /\ handle'[n] = IF f.kind = "conversation" THEN f.call ELSE handle[n]
        /\ serving'[n] = IF f.kind = "call" THEN f.call ELSE serving[n]
        /\ gateway'[n] = gateway[n] /\ assigned'[n] = assigned[n] /\ failed' = failed
    BY DEF ReadFrame, Step, TypeOK
  <1>2. CASE gateway[n] = "gone"
    BY <1>1, <1>2, Gone
  <1>3. CASE gateway[n] # "gone"
    <2>1. Together(n) /\ gateway[n] \notin {"replied", "cut", "greeted", "known"}
      BY <1>1, <1>3 DEF RunInv, Working, Together
    <2>2. /\ f = inbox[n][1] /\ Len(inbox[n]) \in Nat \ {0}
          /\ Len(inbox'[n]) = Len(inbox[n]) - 1
          /\ \A i \in 1..Len(inbox'[n]) : inbox'[n][i] = inbox[n][i + 1]
      BY TailType DEF ReadFrame, Reads
    <2>3. \A i \in 1..Len(inbox'[n]) : i + 1 \in 1..Len(inbox[n]) /\ i + 1 # 1
      BY <2>2
    <2>4. 1 \in 1..Len(inbox[n])
      BY <2>2
    <2>5. Queued(n)'
      <3> SUFFICES ASSUME NEW i \in 1..Len(inbox'[n])
                   PROVE  LET g == inbox'[n][i] IN
                          /\ g.kind # "greeting"
                          /\ g.kind = "conversation" =>
                               gateway[n] \in {"assigned", "calling"} /\ g.call = assigned[n]
                          /\ g.kind = "call" => gateway[n] = "calling" /\ g.call = assigned[n]
                          /\ \A j \in 1..Len(inbox'[n]) :
                               /\ g.kind \in {"call", "conversation"} /\ inbox'[n][j].kind = g.kind => i = j
                               /\ g.kind = "call" /\ inbox'[n][j].kind = "conversation" => j < i
        BY <1>1 DEF Queued
      <3>1. i + 1 \in 1..Len(inbox[n]) /\ inbox'[n][i] = inbox[n][i + 1]
        BY <2>2, <2>3
      <3>2. /\ inbox'[n][i].kind # "greeting"
            /\ inbox'[n][i].kind = "conversation" =>
                 gateway[n] \in {"assigned", "calling"} /\ inbox'[n][i].call = assigned[n]
            /\ inbox'[n][i].kind = "call" => gateway[n] = "calling" /\ inbox'[n][i].call = assigned[n]
        BY <2>1, <3>1 DEF Queued, Together
      <3>3. ASSUME NEW j \in 1..Len(inbox'[n])
            PROVE  /\ inbox'[n][i].kind \in {"call", "conversation"} /\ inbox'[n][j].kind = inbox'[n][i].kind => i = j
                   /\ inbox'[n][i].kind = "call" /\ inbox'[n][j].kind = "conversation" => j < i
        <4>1. j + 1 \in 1..Len(inbox[n]) /\ inbox'[n][j] = inbox[n][j + 1]
          BY <2>2, <2>3
        <4>2. /\ inbox'[n][i].kind \in {"call", "conversation"} /\ inbox'[n][j].kind = inbox'[n][i].kind
                   => i + 1 = j + 1
              /\ inbox'[n][i].kind = "call" /\ inbox'[n][j].kind = "conversation" => j + 1 < i + 1
          BY <2>1, <3>1, <4>1 DEF Queued, Together
        <4> QED BY <4>2
      <3> QED BY <3>2, <3>3
    <2>6. \A kind : f.kind # kind /\ Has(n, kind) => Has(n, kind)'
      <3> SUFFICES ASSUME NEW kind, f.kind # kind, Has(n, kind) PROVE Has(n, kind)'
        OBVIOUS
      <3>1. PICK i \in 1..Len(inbox[n]) : inbox[n][i].kind = kind
        BY DEF Has
      <3>2. i # 1
        BY <2>2, <3>1
      <3>3. i - 1 \in 1..Len(inbox'[n])
        BY <2>2, <3>2
      <3>4. (i - 1) + 1 = i
        BY <3>3
      <3>5. inbox'[n][i - 1] = inbox[n][i]
        BY <2>2, <3>3, <3>4
      <3> QED BY <3>1, <3>3, <3>5 DEF Has
    <2>7. CASE f.kind = "call"
      <3>1. gateway[n] = "calling" /\ f.call = assigned[n]
        BY <2>1, <2>2, <2>4, <2>7 DEF Together, Queued
      <3>2. ~Has(n, "conversation")
        BY <2>1, <2>2, <2>4, <2>7 DEF Together, Queued, Has
      <3>3. \A i \in 1..Len(inbox'[n]) : inbox'[n][i].kind \notin {"call", "conversation"}
        BY <2>1, <2>2, <2>3, <2>4, <2>7, <3>2 DEF Together, Queued, Has
      <3>4. handle[n] = assigned[n]
        BY <2>1, <3>1, <3>2 DEF Together
      <3> QED BY <1>1, <2>1, <2>5, <2>7, <3>1, <3>3, <3>4 DEF RunInv, Together, Has
    <2>8. CASE f.kind # "call"
      <3>1. gateway[n] \in {"assigned", "calling"} => Has(n, "conversation")' \/ handle'[n] = assigned[n]
        BY <1>1, <2>1, <2>2, <2>4, <2>6 DEF Together, Queued
      <3>2. gateway[n] = "calling" => Has(n, "call")' \/ n \in failed
        BY <1>1, <2>1, <2>6, <2>8 DEF Together
      <3> QED BY <1>1, <2>1, <2>5, <2>8, <3>1, <3>2 DEF RunInv, Together
    <2> QED BY <2>7, <2>8
  <1> QED BY <1>2, <1>3

LEMMA AnswersStay ==
  ASSUME TypeOK, NEW n \in Runs, RunInv(n),
         Replies(n) \/ DispatchRaises(n) \/ WaitsAgain(n)
  PROVE  RunInv(n)'
  <1>1. CASE gateway[n] = "gone"
    <2>1. gateway'[n] = "gone" /\ pc'[n] \in {"top", "replied"}
      BY <1>1 DEF Replies, DispatchRaises, WaitsAgain, Step, TypeOK, wire
    <2> QED BY <2>1, Gone
  <1>2. CASE gateway[n] # "gone" /\ Replies(n)
    <2>1. pc[n] = "dispatching" /\ pc'[n] = "replied" /\ gateway'[n] = "replied" /\ inbox'[n] = inbox[n]
      BY <1>2 DEF Replies, Step, TypeOK
    <2>2. Together(n)
      BY <1>2, <2>1 DEF RunInv, Working
    <2>3. Queued(n)'
      BY <2>1, <2>2 DEF Together, Queued, Has
    <2> QED BY <2>1, <2>2, <2>3 DEF RunInv, Together
  <1>3. CASE gateway[n] # "gone" /\ DispatchRaises(n)
    <2>1. /\ pc[n] = "dispatching" /\ pc'[n] = "top" /\ gateway'[n] = gateway[n] /\ inbox'[n] = inbox[n]
          /\ handle'[n] = handle[n] /\ assigned'[n] = assigned[n] /\ n \in failed'
      BY <1>3 DEF DispatchRaises, Step, TypeOK, wire
    <2>2. Together(n)
      BY <1>3, <2>1 DEF RunInv, Working
    <2> QED BY <2>1, <2>2 DEF RunInv, Together, Queued, Has
  <1>4. CASE gateway[n] # "gone" /\ WaitsAgain(n)
    <2>1. pc[n] = "replied" /\ pc'[n] = "top" /\ gateway'[n] = "waiting" /\ inbox'[n] = inbox[n]
      BY <1>4 DEF WaitsAgain, Step, TypeOK
    <2>2. Together(n) /\ gateway[n] = "replied"
      BY <1>4, <2>1 DEF RunInv, Working, Together
    <2>3. Queued(n)'
      BY <2>1, <2>2 DEF Together, Queued
    <2> QED BY <2>1, <2>3 DEF RunInv, Together
  <1> QED BY <1>1, <1>2, <1>3, <1>4

(* The gateway: it adds a frame at the end.                                 *)
LEMMA SendsFrame ==
  ASSUME TypeOK, NEW n \in Runs, NEW f \in Frames, Sends(n, f)
  PROVE  /\ Len(inbox[n]) \in Nat /\ Len(inbox'[n]) = Len(inbox[n]) + 1
         /\ \A i \in 1..Len(inbox[n]) : i \in 1..Len(inbox'[n]) /\ inbox'[n][i] = inbox[n][i]
         /\ Len(inbox'[n]) \in 1..Len(inbox'[n]) /\ inbox'[n][Len(inbox'[n])] = f
         /\ \A i \in 1..Len(inbox'[n]) : i \in 1..Len(inbox[n]) \/ i = Len(inbox'[n])
         /\ \A kind : Has(n, kind) => Has(n, kind)'
         /\ Has(n, f.kind)'
  <1>1. inbox[n] \in Seq(Frames) /\ inbox'[n] = Append(inbox[n], f)
    BY SendsType DEF TypeOK
  <1>2. /\ Len(inbox[n]) \in Nat /\ Len(inbox'[n]) = Len(inbox[n]) + 1
        /\ \A i \in 1..Len(inbox[n]) : inbox'[n][i] = inbox[n][i]
        /\ inbox'[n][Len(inbox[n]) + 1] = f
    BY <1>1, AppendProperties
  <1> QED BY <1>2 DEF Has

LEMMA AnswersGreetingStays ==
  ASSUME TypeOK, NEW n \in Runs, RunInv(n), AnswersGreeting(n)
  PROVE  RunInv(n)'
  <1>1. /\ gateway[n] = "greeted" /\ gateway'[n] = "known" /\ pc' = pc
        /\ handle' = handle /\ assigned' = assigned /\ failed' = failed
    BY DEF AnswersGreeting, TypeOK, runVars
  <1>2. Frame("greeting", None) \in Frames /\ Frame("greeting", None).kind = "greeting"
    BY BoundAssumption, FrameType DEF Frame, None
  <1>3. CASE pc[n] \in Working
    <2>1. Together(n)
      BY <1>1, <1>3 DEF RunInv
    <2> DEFINE f == Frame("greeting", None)
    <2>4. /\ Len(inbox'[n]) = Len(inbox[n]) + 1 /\ inbox'[n][Len(inbox'[n])] = f
      BY <1>2, SendsFrame DEF AnswersGreeting
    <2>5. Len(inbox[n]) = 0
      BY <1>1, <2>1 DEF Together
    <2>2. Len(inbox'[n]) = 1 /\ inbox'[n][1].kind = "greeting"
      BY <1>2, <2>4, <2>5
    <2>3. Queued(n)'
      BY <1>1, <2>2 DEF Queued
    <2> QED BY <1>1, <2>1, <2>2, <2>3 DEF RunInv, Together
  <1>4. CASE pc[n] \notin Working
    BY <1>1, <1>4 DEF RunInv
  <1> QED BY <1>3, <1>4

LEMMA AssignsStays ==
  ASSUME TypeOK, NEW n \in Runs, RunInv(n), Assigns(n)
  PROVE  RunInv(n)'
  <1>1. /\ gateway[n] = "waiting" /\ gateway'[n] = "assigned" /\ pc' = pc /\ assigned'[n] = calls'
        /\ handle' = handle /\ failed' = failed
    BY DEF Assigns, TypeOK, runVars
  <1>2. CASE pc[n] \in Working
    <2>1. Together(n)
      BY <1>1, <1>2 DEF RunInv
    <2> DEFINE f == Frame("conversation", calls')
    <2>2. f \in Frames /\ f.kind = "conversation" /\ f.call = assigned'[n]
      BY <1>1, BoundAssumption, FrameType DEF Frame, Assigns, TypeOK
    <2>3. \A i \in 1..Len(inbox[n]) : inbox[n][i].kind \notin {"greeting", "conversation", "call"}
      BY <1>1, <2>1 DEF Together, Queued
    <2>4. /\ Len(inbox[n]) \in Nat /\ Len(inbox'[n]) = Len(inbox[n]) + 1
          /\ \A i \in 1..Len(inbox[n]) : i \in 1..Len(inbox'[n]) /\ inbox'[n][i] = inbox[n][i]
          /\ inbox'[n][Len(inbox'[n])] = f
          /\ \A i \in 1..Len(inbox'[n]) : i \in 1..Len(inbox[n]) \/ i = Len(inbox'[n])
          /\ Has(n, "conversation")'
      BY <2>2, SendsFrame DEF Assigns
    <2>5. \A i \in 1..Len(inbox'[n]) :
            inbox'[n][i].kind \notin {"greeting", "conversation", "call"} \/ i = Len(inbox'[n])
      BY <2>3, <2>4
    <2>6. Queued(n)'
      <3>1. ASSUME NEW i \in 1..Len(inbox'[n])
            PROVE  /\ inbox'[n][i].kind \notin {"greeting", "call"}
                   /\ inbox'[n][i].kind = "conversation" => i = Len(inbox'[n])
        BY <2>2, <2>4, <2>5
      <3>2. inbox'[n][Len(inbox'[n])].call = assigned'[n]
        BY <2>2, <2>4
      <3> QED BY <1>1, <3>1, <3>2 DEF Queued
    <2> QED BY <1>1, <2>1, <2>4, <2>6 DEF RunInv, Together
  <1>3. CASE pc[n] \notin Working
    BY <1>1, <1>3 DEF RunInv
  <1> QED BY <1>2, <1>3

LEMMA DeliversStays ==
  ASSUME TypeOK, NEW n \in Runs, RunInv(n), Delivers(n)
  PROVE  RunInv(n)'
  <1>1. /\ gateway[n] = "assigned" /\ gateway'[n] = "calling" /\ pc' = pc /\ assigned' = assigned
        /\ handle' = handle /\ failed' = failed
    BY DEF Delivers, TypeOK, runVars
  <1>2. CASE pc[n] \in Working
    <2>1. Together(n)
      BY <1>1, <1>2 DEF RunInv
    <2> DEFINE f == Frame("call", assigned[n])
    <2>2. f \in Frames /\ f.kind = "call" /\ f.call = assigned[n]
      BY FrameType DEF Frame, TypeOK
    <2>3. \A i \in 1..Len(inbox[n]) : inbox[n][i].kind \notin {"greeting", "call"}
      BY <1>1, <2>1 DEF Together, Queued
    <2>4. /\ Len(inbox[n]) \in Nat /\ Len(inbox'[n]) = Len(inbox[n]) + 1
          /\ \A i \in 1..Len(inbox[n]) : i \in 1..Len(inbox'[n]) /\ inbox'[n][i] = inbox[n][i]
          /\ inbox'[n][Len(inbox'[n])] = f
          /\ \A i \in 1..Len(inbox'[n]) : i \in 1..Len(inbox[n]) \/ i = Len(inbox'[n])
          /\ Has(n, "call")' /\ (Has(n, "conversation") => Has(n, "conversation")')
      BY <2>2, SendsFrame DEF Delivers
    <2>5. \A i \in 1..Len(inbox'[n]) :
            \/ i = Len(inbox'[n]) /\ inbox'[n][i] = f
            \/ /\ i \in 1..Len(inbox[n]) /\ i < Len(inbox'[n]) /\ inbox'[n][i] = inbox[n][i]
               /\ inbox'[n][i].kind \notin {"greeting", "call"}
      BY <2>3, <2>4
    <2>6. Queued(n)'
      <3>1. \A i, j \in 1..Len(inbox[n]) :
              /\ inbox[n][i].kind = "conversation" => inbox[n][i].call = assigned[n]
              /\ inbox[n][i].kind = "conversation" /\ inbox[n][j].kind = "conversation" => i = j
        BY <2>1 DEF Together, Queued
      <3>2. ASSUME NEW i \in 1..Len(inbox'[n])
            PROVE  /\ inbox'[n][i].kind # "greeting"
                   /\ inbox'[n][i].kind \in {"conversation", "call"} => inbox'[n][i].call = assigned[n]
        BY <2>2, <2>5, <3>1
      <3>3. ASSUME NEW i \in 1..Len(inbox'[n]), NEW j \in 1..Len(inbox'[n])
            PROVE  /\ inbox'[n][i].kind \in {"call", "conversation"} /\ inbox'[n][j].kind = inbox'[n][i].kind
                        => i = j
                   /\ inbox'[n][i].kind = "call" /\ inbox'[n][j].kind = "conversation" => j < i
        BY <2>2, <2>5, <3>1
      <3> QED BY <1>1, <3>2, <3>3 DEF Queued
    <2> QED BY <1>1, <2>1, <2>4, <2>6 DEF RunInv, Together
  <1>3. CASE pc[n] \notin Working
    BY <1>1, <1>3 DEF RunInv
  <1> QED BY <1>2, <1>3

LEMMA SendsIdleStays ==
  ASSUME TypeOK, NEW n \in Runs, RunInv(n), SendsIdle(n)
  PROVE  RunInv(n)'
  <1>1. /\ gateway[n] \in {"waiting", "assigned"} /\ gateway' = gateway /\ pc' = pc
        /\ assigned' = assigned /\ handle' = handle /\ failed' = failed
    BY DEF SendsIdle, runVars
  <1>2. CASE pc[n] \in Working
    <2>1. Together(n)
      BY <1>1, <1>2 DEF RunInv
    <2> DEFINE f == Frame("idle", None)
    <2>2. f \in Frames /\ f.kind = "idle"
      BY BoundAssumption, FrameType DEF Frame, None
    <2>3. /\ \A i \in 1..Len(inbox[n]) : i \in 1..Len(inbox'[n]) /\ inbox'[n][i] = inbox[n][i]
          /\ inbox'[n][Len(inbox'[n])] = f
          /\ \A i \in 1..Len(inbox'[n]) : i \in 1..Len(inbox[n]) \/ i = Len(inbox'[n])
          /\ Has(n, "conversation") => Has(n, "conversation")'
      BY <2>2, SendsFrame DEF SendsIdle
    <2>4. Queued(n)'
      <3>1. \A i \in 1..Len(inbox[n]) : inbox[n][i].kind # "greeting"
        BY <1>1, <2>1 DEF Together, Queued
      <3> QED BY <1>1, <2>1, <2>2, <2>3, <3>1 DEF Together, Queued
    <2> QED BY <1>1, <2>1, <2>3, <2>4 DEF RunInv, Together
  <1>3. CASE pc[n] \notin Working
    BY <1>1, <1>3 DEF RunInv
  <1> QED BY <1>2, <1>3

LEMMA HangsUpStays ==
  ASSUME TypeOK, NEW n \in Runs, RunInv(n), HangsUp(n)
  PROVE  RunInv(n)'
  <1>1. gateway'[n] = "gone" /\ pc' = pc /\ conn[n] # "none"
    BY DEF HangsUp, Connected, TypeOK, runVars
  <1> QED BY <1>1, Gone DEF RunInv

-----------------------------------------------------------------------------
(* The application: it starts a run that did not exist, and disturbs no     *)
(* other.                                                                   *)
LEMMA ApplicationStays ==
  ASSUME TypeOK, NEW c \in Callers, NEW m \in Runs, RunInv(m),
         ServeForever(c) \/ Stop(c) \/ ServeReturns(c) \/ ShutReads(c) \/ CloseReturns(c)
  PROVE  RunInv(m)'
  <1>1. CASE ServeForever(c)
    <2>1. /\ gateway' = gateway /\ inbox' = inbox /\ conn' = conn /\ handle' = handle
          /\ serving' = serving /\ assigned' = assigned /\ failed' = failed
      BY <1>1 DEF ServeForever, wire
    <2>2. PICK n \in Runs : pc[n] = "unborn" /\ pc' = [pc EXCEPT ![n] = "connecting"]
      BY <1>1 DEF ServeForever
    <2>3. CASE m = n
      BY <2>1, <2>2, <2>3 DEF TypeOK, RunInv, Working
    <2>4. CASE m # n
      BY <2>1, <2>2, <2>4, Unmoved DEF TypeOK
    <2> QED BY <2>3, <2>4
  <1>2. CASE Stop(c) \/ ServeReturns(c) \/ CloseReturns(c)
    <2>1. UNCHANGED <<runVars, wire>>
      BY <1>2 DEF Stop, ServeReturns, CloseReturns
    <2> QED BY <2>1, Unmoved DEF runVars, wire
  <1>3. CASE ShutReads(c)
    <2>1. /\ UNCHANGED <<runVars, inbox, gateway, assigned>>
          /\ conn[m] = "none" => conn'[m] = "none"
      BY <1>3 DEF TypeOK, ShutReads
    <2> QED BY <2>1, Unmoved DEF runVars
  <1> QED BY <1>1, <1>2, <1>3

(* A reply is for the call whose conversation was read last.                *)
LEMMA OwnStep ==
  ASSUME ServeInv, [Next]_vars
  PROVE  OwnConversation'
  <1>1. ASSUME NEW n \in Runs, Replies(n) PROVE OwnConversation'
    <2>1. pc[n] = "dispatching" /\ RunInv(n)
      BY <1>1 DEF Replies, Step, ServeInv
    <2>2. gateway[n] # "gone" => serving[n] = handle[n]
      BY <2>1 DEF RunInv, Working, Together
    <2>3. CASE gateway[n] = "gone"
      BY <1>1, <2>3 DEF Replies, OwnConversation, ServeInv
    <2>4. CASE gateway[n] # "gone"
      <3>1. answered' = answered \union {<<serving[n], handle[n]>>}
        BY <1>1, <2>4 DEF Replies
      <3> QED BY <2>2, <2>4, <3>1 DEF OwnConversation, ServeInv
    <2> QED BY <2>3, <2>4
  <1>2. CASE ~ \E n \in Runs : Replies(n)
    <2>1. answered' = answered
      BY <1>2 DEF Next, ServeThread, Application, vars, wire, ServeForever, Stop, ServeReturns, ShutReads,
             CloseReturns, Connects, ConnectFails, Registers, LoopTop, ReadFrame, EndOfFile, WaitsAgain,
             Leaves, Ends, DispatchRaises, AnswersGreeting, Assigns, Delivers, SendsIdle, HangsUp
    <2> QED BY <2>1 DEF OwnConversation, ServeInv
  <1> QED BY <1>1, <1>2

LEMMA ServeStep == ServeInv /\ [Next]_vars => ServeInv'
  <1> SUFFICES ASSUME ServeInv, [Next]_vars PROVE ServeInv'
    OBVIOUS
  <1>1. TypeOK /\ TypeOK' /\ OwnConversation'
    BY TypeStep, OwnStep DEF ServeInv
  <1>2. ASSUME NEW m \in Runs PROVE RunInv(m)'
    <2>1. RunInv(m)
      BY DEF ServeInv
    <2>2. CASE UNCHANGED vars
      BY <2>1, <2>2, Unmoved DEF vars, runVars, wire
    <2>3. ASSUME NEW c \in Callers, ServeForever(c) \/ Stop(c) \/ Application(c)
          PROVE  RunInv(m)'
      BY <1>1, <2>1, <2>3, ApplicationStays DEF Application
    <2>4. ASSUME NEW n \in Runs,
                 \/ ServeThread(n) \/ ConnectFails(n) \/ DispatchRaises(n) \/ AnswersGreeting(n)
                 \/ Assigns(n) \/ Delivers(n) \/ SendsIdle(n) \/ HangsUp(n)
          PROVE  RunInv(m)'
      <3>1. CASE m = n
        <4>1. CASE Connects(n) \/ ConnectFails(n) \/ Registers(n) \/ LoopTop(n) \/ ReadFrame(n)
                   \/ EndOfFile(n) \/ Leaves(n) \/ Ends(n)
          BY <1>1, <2>1, <3>1, <4>1, ConnectsStay, RegistersStay, LoopTopStays, ReadFrameStays,
             EndOfFileStays, EndsStays
        <4>2. CASE Replies(n) \/ DispatchRaises(n) \/ WaitsAgain(n)
          BY <1>1, <2>1, <3>1, <4>2, AnswersStay
        <4>3. CASE AnswersGreeting(n) \/ Assigns(n) \/ Delivers(n) \/ SendsIdle(n) \/ HangsUp(n)
          BY <1>1, <2>1, <3>1, <4>3, AnswersGreetingStays, AssignsStays, DeliversStays, SendsIdleStays,
             HangsUpStays
        <4> QED BY <2>4, <4>1, <4>2, <4>3 DEF ServeThread
      <3>2. CASE m # n
        BY <1>1, <2>1, <2>4, <3>2, OthersStay DEF ServeThread
      <3> QED BY <3>1, <3>2
    <2> QED BY <2>2, <2>3, <2>4 DEF Next
  <1> QED BY <1>1, <1>2 DEF ServeInv

LEMMA Invariance == Spec => []ServeInv
  <1> QED BY InitInv, ServeStep, PTL DEF Spec

LEMMA InvImplies == ServeInv => LeavesBetweenCalls /\ Serviceable
  <1> SUFFICES ASSUME ServeInv PROVE LeavesBetweenCalls /\ Serviceable
    OBVIOUS
  <1>1. LeavesBetweenCalls
    BY DEF ServeInv, RunInv, LeavesBetweenCalls
  <1>2. Serviceable
    <2> SUFFICES ASSUME NEW n \in Runs, pc[n] \in {"top", "reading"}, n \notin failed, gateway[n] # "gone"
                 PROVE  \/ gateway[n] \in {"waiting", "assigned"}
                        \/ gateway[n] = "calling" /\ Has(n, "call")
      BY DEF Serviceable, Has
    <2>1. Together(n) /\ (gateway[n] = "replied" => pc[n] = "replied")
      BY DEF ServeInv, RunInv, Working
    <2> QED BY <2>1 DEF Together
  <1> QED BY <1>1, <1>2

-----------------------------------------------------------------------------
(* Every variable keeps to its type, for any number of threads and runs     *)
(* (the attributes of server.RfcServer and what its gateway holds).         *)
THEOREM ServeTypeCorrect == Spec => []TypeOK
  <1>1. ServeInv => TypeOK
    BY DEF ServeInv
  <1> QED BY Invariance, <1>1, PTL

(* A reply of the serve loop carries the conversation ID of the call it     *)
(* answers, however calls, idle frames, failing dispatches, stops and       *)
(* restarts interleave (server.py, gw_handle of the serve loop).   *)
THEOREM RepliesOwnConversation == Spec => []OwnConversation
  <1>1. ServeInv => OwnConversation
    BY DEF ServeInv
  <1> QED BY Invariance, <1>1, PTL

(* 06d0 never comes between a reply and the 06d1 that ends it, although any *)
(* thread may stop the server at any moment.                                *)
THEOREM LeavesOnlyBetweenCalls == Spec => []LeavesBetweenCalls
  <1> QED BY Invariance, InvImplies, PTL

(* A thread that waits for a call waits on a registration the gateway       *)
(* delivers to, unless a dispatch raised on it or the gateway hung up.      *)
THEOREM WaitsWhereCallsCome == Spec => []Serviceable
  <1> QED BY Invariance, InvImplies, PTL
=============================================================================
