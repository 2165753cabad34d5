-------------------------- MODULE WebSocketsProofs --------------------------
(***************************************************************************)
(* Proofs about WebSockets, for any number of commands, interrupts and     *)
(* chunks, and any capacity of the network.                                *)
(***************************************************************************)
EXTENDS WebSockets, FiniteSetTheorems, SequenceTheorems, TLAPS

Good == TypeOK /\ SocketInv

LEMMA MsgTypes ==
    ASSUME NEW T, NEW t \in T, NEW n \in 0..MaxSent
    PROVE  Msg(t, n) \in Of(T) /\ Msg(t, n).type = t /\ Msg(t, n).n = n
  BY DEF Msg, Of

LEMMA OfTypes ==
    ASSUME NEW T, NEW m \in Of(T)
    PROVE  m.type \in T /\ m.n \in 0..MaxSent
  BY DEF Of

LEMMA InitSocket == Init => Good
<1> SUFFICES ASSUME Init PROVE Good
  OBVIOUS
<1>1. 0 \in 0..MaxSent /\ 0 \in 0..MaxInts /\ 0 \in 0..MaxOuts
  BY SocketsAssumption
<1>2. Nothing \in Of(Messages \cup {"nothing"}) /\ Nothing \in Of(Replies \cup {"nothing"})
  BY <1>1 DEF Nothing, Of
<1>3. TypeOK
  <2>1. /\ up \in Seq(Of(Messages)) /\ down \in Seq(Of(Replies)) /\ Len(down) <= Cap
        /\ <<>> \in Seq(Of(Steps))
    BY EmptySeq, SocketsAssumption DEF Init
  <2>2. loop \in [at : Places, msg : Of(Messages \cup {"nothing"}), script : Seq(Of(Steps))]
    BY <1>2, <2>1 DEF Init, Places
  <2>3. client \in [running : BOOLEAN, mode : Modes, sent : 0..MaxSent, ints : 0..MaxInts]
    BY <1>1 DEF Init, Modes
  <2>4. job \in [at : {"none", "run", "exited", "free"}, kind : Jobs, n : 0..MaxSent,
                 chunk : BOOLEAN, outs : 0..MaxOuts]
    BY <1>1 DEF Init, NoJob, Jobs
  <2>5. QED
    BY <1>2, <2>1, <2>2, <2>3, <2>4 DEF Init, TypeOK
<1>4. WireInv
  BY EmptySeq DEF Init, WireInv, Quiet
<1>5. SlotInv
  <2>1. 1..Len(loop.script) = {}
    BY DEF Init
  <2>2. QED
    BY <2>1 DEF Init, SlotInv, SlotHeld, NoJob
<1>6. QED
  BY <1>3, <1>4, <1>5 DEF Init, Good, SocketInv, TurnInv, LiveInv

-----------------------------------------------------------------------------
(***************************************************************************)
(* A step of the page leaves the server alone and sends what its endpoint  *)
(* may expect.                                                             *)
(***************************************************************************)
LEMMA PageKeeps ==
    ASSUME SocketInv, Page, up' \in Seq(Of(Sendable))
    PROVE  SocketInv'
<1>1. UNCHANGED <<ep, sess, loop, live, slot, cancel, job, sending, writers>>
  BY DEF Page, server
<1>2. WireInv' /\ SlotInv' /\ TurnInv' /\ LiveInv'
  BY <1>1 DEF SocketInv, WireInv, Sendable, Quiet, SlotInv, SlotHeld, TurnInv, LiveInv
<1>3. QED
  BY <1>2 DEF SocketInv

LEMMA PageSends ==
    ASSUME Good, Page, UNCHANGED <<conn, down>>,
           NEW type \in Sendable, NEW n \in 0..MaxSent, Sends(Msg(type, n)),
           client' \in [running : BOOLEAN, mode : Modes, sent : 0..MaxSent, ints : 0..MaxInts]
    PROVE  Good'
<1>1. Msg(type, n) \in Of(Sendable) /\ up \in Seq(Of(Sendable))
  BY MsgTypes DEF Good, SocketInv, WireInv
<1>2. up' \in Seq(Of(Sendable))
  BY <1>1, AppendProperties DEF Sends
<1>3. Of(Sendable) \subseteq Of(Messages)
  BY DEF Sendable, Messages, Of
<1>4. up' \in Seq(Of(Messages))
  BY <1>2, <1>3, SeqMonotonic
<1>5. TypeOK'
  BY <1>4 DEF Good, TypeOK, Page, server
<1>6. QED
  BY <1>2, <1>5, PageKeeps DEF Good

LEMMA PageStep ==
    ASSUME Good,
           User \/ Receive \/ PromptAgain
    PROVE  Good'
<1>1. client \in [running : BOOLEAN, mode : Modes, sent : 0..MaxSent, ints : 0..MaxInts]
      /\ MaxSent \in Nat /\ MaxInts \in Nat
  BY SocketsAssumption DEF Good, TypeOK
<1>2. ASSUME NEW kind \in Builtins \cup Jobs, Enter(kind) PROVE Good'
  <2>1. kind \in Sendable /\ client.sent + 1 \in 0..MaxSent
    BY <1>1, <1>2 DEF Enter, HasKeyboard, Sendable
  <2>2. client' \in [running : BOOLEAN, mode : Modes, sent : 0..MaxSent, ints : 0..MaxInts]
    BY <1>1, <1>2, <2>1 DEF Enter, Modes
  <2>3. QED
    BY <1>2, <2>1, <2>2, PageSends DEF Enter
<1>3. CASE CtrlC
  <2>1. "int" \in Sendable /\ client.sent \in 0..MaxSent /\ client.ints + 1 \in 0..MaxInts
    BY <1>1, <1>3 DEF CtrlC, HasKeyboard, Sendable
  <2>2. client' \in [running : BOOLEAN, mode : Modes, sent : 0..MaxSent, ints : 0..MaxInts]
    BY <1>1, <1>3, <2>1 DEF CtrlC
  <2>3. QED
    BY <1>3, <2>1, <2>2, PageSends DEF CtrlC
<1>4. CASE Input
  <2>1. "input" \in Sendable /\ client.sent + 1 \in 0..MaxSent
    BY <1>1, <1>4 DEF Input, Sendable
  <2>2. client' \in [running : BOOLEAN, mode : Modes, sent : 0..MaxSent, ints : 0..MaxInts]
    BY <1>1, <1>4, <2>1 DEF Input
  <2>3. QED
    BY <1>4, <2>1, <2>2, PageSends DEF Input
<1>5. CASE Receive
  <2>1. down' \in Seq(Of(Replies)) /\ Len(down') <= Cap
    <3>1. down \in Seq(Of(Replies)) /\ down # <<>> /\ Len(down) <= Cap
      BY <1>5 DEF Receive, Good, TypeOK
    <3>2. Tail(down) \in Seq(Of(Replies)) /\ Len(Tail(down)) = Len(down) - 1
      BY <3>1, HeadTailProperties
    <3>3. Len(down) \in Nat /\ Cap \in Nat
      BY <3>1, LenProperties, SocketsAssumption
    <3>4. QED
      BY <1>5, <3>1, <3>2, <3>3 DEF Receive
  <2>2. client' \in [running : BOOLEAN, mode : Modes, sent : 0..MaxSent, ints : 0..MaxInts]
    BY <1>1, <1>5 DEF Receive, Modes
  <2>3. UNCHANGED <<ep, sess, conn, up, server>>
    BY <1>5 DEF Receive, Page
  <2>4. TypeOK'
    BY <2>1, <2>2, <2>3 DEF Good, TypeOK, server
  <2>5. QED
    BY <1>5, <2>3, <2>4, PageKeeps DEF Receive, Good, SocketInv, WireInv
<1>6. CASE PromptAgain \/ ExecOpens \/ ExecFails \/ Leave
  <2>1. client' \in [running : BOOLEAN, mode : Modes, sent : 0..MaxSent, ints : 0..MaxInts]
    BY <1>1, <1>6 DEF PromptAgain, ExecOpens, ExecFails, Leave, Modes
  <2>2. UNCHANGED <<ep, sess, up, down, server>> /\ Page
    BY <1>6 DEF PromptAgain, ExecOpens, ExecFails, Leave, Page
  <2>3. conn' \in {"open", "left", "shut"}
    BY <1>6 DEF PromptAgain, ExecOpens, ExecFails, Leave, Good, TypeOK
  <2>4. TypeOK'
    BY <2>1, <2>2, <2>3 DEF Good, TypeOK, server
  <2>5. QED
    BY <2>2, <2>4, PageKeeps DEF Good, SocketInv, WireInv
<1>7. QED
  BY <1>2, <1>3, <1>4, <1>5, <1>6 DEF User

-----------------------------------------------------------------------------
\* The connection's writers.
LEMMA WriteStep ==
    ASSUME Good, NEW g \in Goroutines, Write(g) \/ Written(g)
    PROVE  Good'
<1>1. CASE Write(g)
  <2>1. TypeOK'
    BY <1>1 DEF Good, TypeOK, Write, Quiet
  <2>2. TurnInv'
    BY <1>1 DEF Good, SocketInv, TurnInv, Write, MutexFree, Bare
  <2>3. WireInv' /\ SlotInv' /\ LiveInv'
    BY <1>1 DEF Good, SocketInv, WireInv, Sendable, Quiet, SlotInv, SlotHeld, LiveInv, Write
  <2>4. QED
    BY <2>1, <2>2, <2>3 DEF Good, SocketInv
<1>2. CASE Written(g)
  <2>1. sending' \in [Goroutines -> Of(Replies \cup {"nothing"})]
        /\ \A h \in Goroutines : sending'[h] = IF h = g THEN Nothing ELSE sending[h]
    <3>1. Nothing \in Of(Replies \cup {"nothing"})
      BY SocketsAssumption DEF Nothing, Of
    <3>2. QED
      BY <1>2, <3>1 DEF Written, Good, TypeOK
  <2>2. sending[g] \in Of(Replies)
    <3>1. sending[g] # Nothing /\ sending[g] \in Of(Replies \cup {"nothing"})
      BY <1>2 DEF Written, Good, TypeOK
    <3>2. sending[g].type \in Replies
      BY <3>1 DEF Good, SocketInv, WireInv, Quiet
    <3>3. QED
      BY <3>1, <3>2 DEF Of
  <2>3. down' \in Seq(Of(Replies)) /\ Len(down') <= Cap
    <3>1. down \in Seq(Of(Replies)) /\ Len(down) \in Nat /\ Cap \in Nat /\ Len(down) <= Cap
      BY LenProperties, SocketsAssumption DEF Good, TypeOK
    <3>2. /\ Append(down, sending[g]) \in Seq(Of(Replies))
          /\ Len(Append(down, sending[g])) = Len(down) + 1
      BY <2>2, <3>1, AppendProperties
    <3>3. QED
      BY <1>2, <3>1, <3>2 DEF Written
  <2>4. writers' \subseteq {h \in Goroutines : sending'[h] # Nothing}
    BY <1>2, <2>1 DEF Written, Good, TypeOK
  <2>5. TypeOK'
    BY <1>2, <2>1, <2>3, <2>4 DEF Written, Good, TypeOK
  <2>6. WireInv'
    BY <1>2, <2>1 DEF Written, Good, SocketInv, WireInv, Sendable, Quiet
  <2>7. SlotInv' /\ TurnInv' /\ LiveInv'
    BY <1>2 DEF Good, SocketInv, SlotInv, SlotHeld, TurnInv, LiveInv, Written
  <2>8. QED
    BY <2>5, <2>6, <2>7 DEF Good, SocketInv
<1>3. QED
  BY <1>1, <1>2

-----------------------------------------------------------------------------
\* A goroutine that begins to send has not been writing.
LEMMA Says ==
    ASSUME Good, NEW g \in Goroutines, NEW r \in Of(Replies), Quiet(g),
           sending' = [sending EXCEPT ![g] = r] \/ sending' = sending,
           UNCHANGED writers
    PROVE  /\ sending' \in [Goroutines -> Of(Replies \cup {"nothing"})]
           /\ writers' \subseteq {h \in Goroutines : sending'[h] # Nothing}
           /\ \A h \in Goroutines : Quiet(h)' \/ sending'[h].type \in Replies
<1>1. r \in Of(Replies \cup {"nothing"}) /\ r.type \in Replies
  BY DEF Of
<1>2. sending \in [Goroutines -> Of(Replies \cup {"nothing"})] /\ g \notin writers
      /\ writers \subseteq {h \in Goroutines : sending[h] # Nothing}
  BY DEF Good, TypeOK, Quiet
<1>3. \A h \in Goroutines : Quiet(h) \/ sending[h].type \in Replies
  BY DEF Good, SocketInv, WireInv
<1>4. CASE sending' = [sending EXCEPT ![g] = r]
  BY <1>1, <1>2, <1>3, <1>4 DEF Quiet
<1>5. CASE sending' = sending
  BY <1>2, <1>3, <1>5 DEF Quiet
<1>6. QED
  BY <1>4, <1>5

LEMMA JobSteps ==
    ASSUME Good, Prints \/ SayOutput \/ Exit \/ Done \/ Free \/ Over
    PROVE  Good'
<1>1. job \in [at : {"none", "run", "exited", "free"}, kind : Jobs, n : 0..MaxSent,
               chunk : BOOLEAN, outs : 0..MaxOuts]
      /\ MaxOuts \in Nat
  BY SocketsAssumption DEF Good, TypeOK
<1>2. CASE Prints \/ Exit
  <2>1. job.outs < MaxOuts => job.outs + 1 \in 0..MaxOuts
    BY <1>1
  <2>2. job' \in [at : {"none", "run", "exited", "free"}, kind : Jobs, n : 0..MaxSent,
                  chunk : BOOLEAN, outs : 0..MaxOuts]
        /\ job'.at # "none" /\ job.at # "none"
    BY <1>1, <1>2, <2>1 DEF Prints, Exit
  <2>3. UNCHANGED <<Net, conn, loop, live, slot, cancel, killed, sending, writers>>
    BY <1>2 DEF Prints, Exit
  <2>4. TypeOK'
    BY <2>2, <2>3 DEF Good, TypeOK, Net
  <2>5. WireInv' /\ SlotInv' /\ TurnInv' /\ LiveInv'
    BY <2>2, <2>3 DEF Good, SocketInv, WireInv, Sendable, Quiet, SlotInv, SlotHeld, TurnInv,
                      LiveInv, Net
  <2>6. QED
    BY <2>4, <2>5 DEF Good, SocketInv
<1>3. CASE SayOutput \/ Done
  <2>1. UNCHANGED <<Net, conn, loop, live, slot, cancel, killed, writers>> /\ Quiet("job")
    BY <1>3 DEF SayOutput, Done
  <2>2. PICK r \in Of(Replies) : sending' = [sending EXCEPT !["job"] = r]
    <3>1. Msg("output", job.n) \in Of(Replies) /\ Msg("done", job.n) \in Of(Replies)
      BY <1>1, MsgTypes DEF Replies
    <3>2. QED
      BY <1>3, <3>1 DEF SayOutput, Done
  <2>3. job' \in [at : {"none", "run", "exited", "free"}, kind : Jobs, n : 0..MaxSent,
                  chunk : BOOLEAN, outs : 0..MaxOuts]
        /\ (job'.at = "none" <=> job.at = "none")
    BY <1>1, <1>3 DEF SayOutput, Done
  <2>4. /\ sending' \in [Goroutines -> Of(Replies \cup {"nothing"})]
        /\ writers' \subseteq {h \in Goroutines : sending'[h] # Nothing}
        /\ \A h \in Goroutines : Quiet(h)' \/ sending'[h].type \in Replies
    BY <2>1, <2>2, Says DEF Goroutines
  <2>5. TypeOK'
    BY <2>1, <2>3, <2>4 DEF Good, TypeOK, Net
  <2>6. WireInv'
    BY <2>1, <2>4 DEF Good, SocketInv, WireInv, Sendable, Net
  <2>7. SlotInv' /\ TurnInv' /\ LiveInv'
    BY <2>1, <2>3 DEF Good, SocketInv, SlotInv, SlotHeld, TurnInv, LiveInv, Net
  <2>8. QED
    BY <2>5, <2>6, <2>7 DEF Good, SocketInv
<1>4. CASE Free \/ Over
  <2>1. /\ UNCHANGED <<Net, loop, live, sending, writers>> /\ job.at = "free" /\ job' = NoJob
        /\ conn' \in {"open", "left", "shut"} /\ killed' \in BOOLEAN
        /\ slot' \in BOOLEAN /\ cancel' \in BOOLEAN
        /\ ep = "terminal" => ~cancel'
    BY <1>4 DEF Free, Over, Shut, Good, TypeOK
  <2>2. NoJob \in [at : {"none", "run", "exited", "free"}, kind : Jobs, n : 0..MaxSent,
                   chunk : BOOLEAN, outs : 0..MaxOuts]
    BY SocketsAssumption DEF NoJob, Jobs
  <2>3. TypeOK'
    BY <2>1, <2>2 DEF Good, TypeOK, Net
  <2>4. WireInv' /\ TurnInv' /\ LiveInv'
    BY <2>1 DEF Good, SocketInv, WireInv, Sendable, Quiet, TurnInv, LiveInv, Net
  <2>5. SlotInv'
    <3>1. job.at # "none" /\ loop.at # "start"
          /\ \A i \in 1..Len(loop.script) : loop.script[i].type # "finish"
      BY <2>1 DEF Good, SocketInv, SlotInv
    <3>2. job'.at = "none"
      BY <2>1 DEF NoJob
    <3>3. QED
      BY <2>1, <3>1, <3>2 DEF SlotInv, SlotHeld, Net
  <2>6. QED
    BY <2>3, <2>4, <2>5 DEF Good, SocketInv
<1>5. QED
  BY <1>2, <1>3, <1>4

-----------------------------------------------------------------------------
(***************************************************************************)
(* A branch of the loop that has no finish in its script, and may take the *)
(* slot, keeps the invariant; so does a change of place, when the message  *)
(* and the slot are as the new place expects.                              *)
(***************************************************************************)
LEMMA Pairs ==
    ASSUME NEW a \in Steps, NEW b \in Steps, NEW n \in 0..MaxSent
    PROVE  /\ <<Msg(a, n)>> \in Seq(Of(Steps)) /\ <<Msg(a, n), Msg(b, n)>> \in Seq(Of(Steps))
           /\ a # "finish" => \A i \in 1..Len(<<Msg(a, n)>>) : <<Msg(a, n)>>[i].type # "finish"
           /\ a # "finish" /\ b # "finish" =>
                \A i \in 1..Len(<<Msg(a, n), Msg(b, n)>>) :
                    <<Msg(a, n), Msg(b, n)>>[i].type # "finish"
<1>1. /\ Msg(a, n) \in Of(Steps) /\ Msg(a, n).type = a
      /\ Msg(b, n) \in Of(Steps) /\ Msg(b, n).type = b
  BY MsgTypes
<1>2. QED
  BY <1>1

LEMMA Branch ==
    ASSUME Good, NEW script \in Seq(Of(Steps)),
           \A i \in 1..Len(script) : script[i].type # "finish",
           NEW at \in {"read", "upgrade"},
           loop' = [loop EXCEPT !.at = at, !.script = script],
           UNCHANGED <<Net, conn, live, cancel, job, killed, sending, writers>>,
           slot' \in BOOLEAN, slot => slot'
    PROVE  Good'
<1>1. /\ loop' \in [at : Places, msg : Of(Messages \cup {"nothing"}), script : Seq(Of(Steps))]
      /\ loop'.at = at /\ loop'.script = script
  BY DEF Good, TypeOK, Places
<1>2. TypeOK'
  BY <1>1 DEF Good, TypeOK, Net
<1>3. WireInv' /\ TurnInv' /\ LiveInv'
  BY <1>1 DEF Good, SocketInv, WireInv, Sendable, Quiet, TurnInv, LiveInv, Net
<1>4. SlotInv'
  BY <1>1 DEF Good, SocketInv, SlotInv, SlotHeld, Net
<1>5. QED
  BY <1>2, <1>3, <1>4 DEF Good, SocketInv

LEMMA Place ==
    ASSUME Good, NEW at \in Places, loop' = At(at), loop.at # "read",
           UNCHANGED <<Net, conn, live, cancel, job, sending, writers>>,
           killed' \in BOOLEAN, slot' \in BOOLEAN, slot => slot',
           at = "interrupt" => ep = "terminal", at = "feed" => ep = "exec" /\ live,
           at = "admit" => ep = "terminal" /\ loop.msg.type \in Builtins \cup Jobs /\ live,
           at = "start" => ep = "terminal" /\ loop.msg.type \in Jobs /\ slot' /\ job.at = "none",
           at # "check"
    PROVE  Good'
<1>1. /\ loop' \in [at : Places, msg : Of(Messages \cup {"nothing"}), script : Seq(Of(Steps))]
      /\ loop'.at = at /\ loop'.msg = loop.msg /\ loop'.script = loop.script
  BY DEF Good, TypeOK, At
<1>2. TypeOK'
  BY <1>1 DEF Good, TypeOK, Net
<1>3. WireInv' /\ TurnInv' /\ LiveInv'
  BY <1>1 DEF Good, SocketInv, WireInv, Sendable, Quiet, TurnInv, LiveInv, Net
<1>4. \A i \in 1..Len(loop.script) : loop.script[i].type # "finish"
  BY DEF Good, SocketInv, SlotInv
<1>5. SlotInv'
  BY <1>1, <1>4 DEF Good, SocketInv, SlotInv, SlotHeld, Net
<1>6. QED
  BY <1>2, <1>3, <1>5 DEF Good, SocketInv

LEMMA Numbers == Good => 0 \in 0..MaxSent /\ loop.msg.n \in 0..MaxSent
  BY SocketsAssumption DEF Good, TypeOK, Of

LEMMA UpgradedGood == Good /\ Upgraded => Good'
<1> SUFFICES ASSUME Good, Upgraded PROVE Good'
  OBVIOUS
<1>1. 0 \in 0..MaxSent /\ loop.at = "upgrade" /\ loop.script = <<>>
      /\ UNCHANGED <<Net, conn, live, slot, cancel, killed, sending, writers>>
  BY Numbers DEF Upgraded
<1>2. CASE /\ loop' = [loop EXCEPT !.script = <<Msg("session_invalid", 0), Msg("return", 0)>>]
           /\ UNCHANGED job
  <2>1. loop' = [loop EXCEPT !.at = "upgrade",
                             !.script = <<Msg("session_invalid", 0), Msg("return", 0)>>]
    BY <1>1, <1>2 DEF Good, TypeOK
  <2>2. "session_invalid" \in Steps /\ "return" \in Steps
    BY DEF Steps, Replies
  <2> DEFINE script == <<Msg("session_invalid", 0), Msg("return", 0)>>
  <2>3. script \in Seq(Of(Steps)) /\ \A i \in 1..Len(script) : script[i].type # "finish"
    BY <1>1, <2>2, Pairs
  <2>4. UNCHANGED <<Net, conn, live, cancel, job, killed, sending, writers>>
        /\ slot' \in BOOLEAN /\ (slot => slot')
    BY <1>1, <1>2 DEF Good, TypeOK
  <2> HIDE DEF script
  <2>5. loop' = [loop EXCEPT !.at = "upgrade", !.script = script]
    BY <2>1 DEF script
  <2>6. QED
    BY <2>3, <2>4, <2>5, Branch
<1>3. CASE /\ loop' = [loop EXCEPT !.script = <<Msg("error", 0), Msg("return", 0)>>]
           /\ UNCHANGED job
  <2>1. loop' = [loop EXCEPT !.at = "upgrade", !.script = <<Msg("error", 0), Msg("return", 0)>>]
    BY <1>1, <1>3 DEF Good, TypeOK
  <2>2. "error" \in Steps /\ "return" \in Steps
    BY DEF Steps, Replies
  <2> DEFINE script == <<Msg("error", 0), Msg("return", 0)>>
  <2>3. script \in Seq(Of(Steps)) /\ \A i \in 1..Len(script) : script[i].type # "finish"
    BY <1>1, <2>2, Pairs
  <2>4. UNCHANGED <<Net, conn, live, cancel, job, killed, sending, writers>>
        /\ slot' \in BOOLEAN /\ (slot => slot')
    BY <1>1, <1>3 DEF Good, TypeOK
  <2> HIDE DEF script
  <2>5. loop' = [loop EXCEPT !.at = "upgrade", !.script = script]
    BY <2>1 DEF script
  <2>6. QED
    BY <2>3, <2>4, <2>5, Branch
<1>4. CASE ep = "terminal" /\ loop' = At("read") /\ UNCHANGED job
  BY <1>1, <1>4, Place DEF Good, TypeOK, Places
<1>5. CASE ep # "terminal" /\ loop' = At("read") /\ \E k \in Jobs : job' = Started(k, 0)
  <2>1. /\ loop' \in [at : Places, msg : Of(Messages \cup {"nothing"}), script : Seq(Of(Steps))]
        /\ loop'.at = "read" /\ loop'.script = <<>>
    BY <1>1, <1>5 DEF Good, TypeOK, At, Places
  <2>2. job' \in [at : {"none", "run", "exited", "free"}, kind : Jobs, n : 0..MaxSent,
                  chunk : BOOLEAN, outs : 0..MaxOuts]
    <3>1. PICK k \in Jobs : job' = Started(k, 0)
      BY <1>5
    <3>2. 0 \in 0..MaxSent /\ 0 \in 0..MaxOuts
      BY SocketsAssumption
    <3>3. QED
      BY <3>1, <3>2 DEF Started, NoJob
  <2>3. TypeOK'
    BY <1>1, <2>1, <2>2 DEF Good, TypeOK, Net
  <2>4. WireInv' /\ TurnInv' /\ LiveInv'
    BY <1>1, <2>1 DEF Good, SocketInv, WireInv, Sendable, Quiet, TurnInv, LiveInv, Net
  <2>5. SlotInv'
    BY <1>1, <1>5, <2>1 DEF SlotInv, SlotHeld, Net
  <2>6. QED
    BY <2>3, <2>4, <2>5 DEF Good, SocketInv
<1>6. QED
  BY <1>2, <1>3, <1>4, <1>5 DEF Upgraded

LEMMA ReadGood == Good /\ Read => Good'
<1> SUFFICES ASSUME Good, Read PROVE Good'
  OBVIOUS
<1>1. /\ loop.at = "read" /\ loop.script = <<>> /\ up # <<>> /\ up' = Tail(up)
      /\ loop' = [loop EXCEPT !.at = "check", !.msg = Head(up)] /\ live' = sess
      /\ UNCHANGED <<ep, sess, conn, down, client, slot, cancel, job, killed, sending, writers>>
  BY DEF Read, Reading
<1>2. Head(up) \in Of(Sendable) /\ Tail(up) \in Seq(Of(Sendable))
  BY <1>1, HeadTailProperties DEF Good, SocketInv, WireInv
<1>3. Tail(up) \in Seq(Of(Messages)) /\ Head(up) \in Of(Messages)
  BY <1>1, HeadTailProperties DEF Good, TypeOK
<1>4. /\ loop' \in [at : Places, msg : Of(Messages \cup {"nothing"}), script : Seq(Of(Steps))]
      /\ loop'.at = "check" /\ loop'.msg = Head(up) /\ loop'.script = <<>>
  <2>1. Head(up) \in Of(Messages \cup {"nothing"})
    BY <1>3 DEF Of
  <2>2. QED
    BY <1>1, <2>1 DEF Good, TypeOK, Places
<1>5. TypeOK'
  BY <1>1, <1>3, <1>4 DEF Good, TypeOK
<1>6. WireInv'
  <2>1. Sendable' = Sendable /\ Head(up).type \in Sendable
    BY <1>1, <1>2, OfTypes DEF Sendable
  <2>2. QED
    BY <1>1, <1>2, <1>4, <2>1 DEF Good, SocketInv, WireInv, Quiet
<1>7. SlotInv' /\ TurnInv' /\ LiveInv'
  BY <1>1, <1>4 DEF Good, SocketInv, SlotInv, SlotHeld, TurnInv, LiveInv
<1>8. QED
  BY <1>5, <1>6, <1>7 DEF Good, SocketInv


LEMMA ReadFailsGood == Good /\ ReadFails => Good'
<1> SUFFICES ASSUME Good, ReadFails PROVE Good'
  OBVIOUS
<1> DEFINE last == IF ep = "terminal" THEN "return" ELSE "cancel"
           script == <<Msg(last, 0)>>
<1>1. last \in Steps /\ last # "finish" /\ 0 \in 0..MaxSent
  BY Numbers DEF Steps
<1>2. script \in Seq(Of(Steps)) /\ \A i \in 1..Len(script) : script[i].type # "finish"
  BY <1>1, Pairs
<1>3. loop' = [loop EXCEPT !.at = "read", !.script = script]
      /\ UNCHANGED <<Net, conn, live, slot, cancel, job, killed, sending, writers>>
  BY DEF ReadFails, Then
<1>4. slot' \in BOOLEAN /\ (slot => slot')
  BY <1>3 DEF Good, TypeOK
<1> HIDE DEF script
<1>5. QED
  BY <1>2, <1>3, <1>4, Branch

LEMMA Endpoint == Good => ep \in {"terminal", "logs", "exec"}
  BY SocketsAssumption DEF Good, TypeOK

LEMMA CheckGood == Good /\ Check => Good'
<1> SUFFICES ASSUME Good, Check PROVE Good'
  OBVIOUS
<1>1. loop.at = "check" /\ loop.msg.n \in 0..MaxSent /\ loop.msg.type \in Sendable
      /\ UNCHANGED <<Net, conn, live, slot, cancel, job, killed, sending, writers>>
      /\ slot' \in BOOLEAN /\ (slot => slot') /\ killed' \in BOOLEAN
  BY Numbers DEF Check, Good, TypeOK, SocketInv, WireInv
<1>2. CASE ~sess
  <2> DEFINE last == IF ep = "terminal" THEN "return" ELSE "cancel"
             script == <<Msg("session_invalid", loop.msg.n), Msg(last, 0)>>
  <2>1. /\ "session_invalid" \in Steps /\ last \in Steps /\ last # "finish" /\ 0 \in 0..MaxSent
        /\ Msg("session_invalid", loop.msg.n) \in Of(Steps) /\ Msg(last, 0) \in Of(Steps)
        /\ Msg("session_invalid", loop.msg.n).type = "session_invalid"
        /\ Msg(last, 0).type = last
    BY <1>1, Numbers, MsgTypes DEF Steps, Replies
  <2>2. script \in Seq(Of(Steps)) /\ \A i \in 1..Len(script) : script[i].type # "finish"
    BY <2>1
  <2>3. loop' = [loop EXCEPT !.at = "read", !.script = script]
    BY <1>2 DEF Check, Then
  <2> HIDE DEF script
  <2>4. QED
    BY <1>1, <2>2, <2>3, Branch
<1>3. CASE sess
  <2>1. PICK at \in {"read", "feed", "interrupt", "admit"} :
           /\ loop' = At(at)
           /\ at = "interrupt" => ep = "terminal"
           /\ at = "feed" => ep = "exec"
           /\ at = "admit" => ep = "terminal" /\ loop.msg.type # "int"
    <3>1. DealtWith \in {"read", "feed", "interrupt", "admit"}
          /\ (DealtWith = "feed" => ep = "exec")
          /\ (DealtWith = "interrupt" => ep = "terminal")
          /\ (DealtWith = "admit" => ep = "terminal" /\ loop.msg.type # "int")
      BY Endpoint DEF DealtWith
    <3>2. QED
      BY <1>3, <3>1 DEF Check
  <2>2. live
    BY <1>1, <1>3 DEF Good, SocketInv, LiveInv
  <2>3. at = "admit" => loop.msg.type \in Builtins \cup Jobs
    BY <1>1, <2>1 DEF Sendable
  <2>4. at \in Places
    BY DEF Places
  <2>5. QED
    BY <1>1, <2>1, <2>2, <2>3, <2>4, Place
<1>4. QED
  BY <1>2, <1>3 DEF Good, TypeOK

LEMMA InterruptGood == Good /\ (Feed \/ Interrupt) => Good'
<1> SUFFICES ASSUME Good, Feed \/ Interrupt PROVE Good'
  OBVIOUS
<1>1. /\ loop' = At("read") /\ loop.at # "read" /\ "read" \in Places
      /\ UNCHANGED <<Net, conn, live, cancel, job, sending, writers>>
      /\ killed' \in BOOLEAN /\ slot' \in BOOLEAN /\ (slot => slot')
  BY DEF Feed, Interrupt, Good, TypeOK, Places
<1>2. QED
  BY <1>1, Place

LEMMA ScriptShape ==
    ASSUME NEW kind \in Builtins, NEW n \in 0..MaxSent
    PROVE  /\ Script(kind, n) \in Seq(Of(Steps))
           /\ \A i, j \in 1..Len(Script(kind, n)) :
                 Script(kind, n)[i].type = "finish" /\ j # i => Script(kind, n)[j].type \in Replies
<1>1. \A t \in Steps : Msg(t, n) \in Of(Steps) /\ Msg(t, n).type = t
  BY MsgTypes
<1>2. /\ {"error", "finish", "done", "output", "edit", "exec_open"} \subseteq Steps
      /\ {"error", "done", "output", "edit", "exec_open"} \subseteq Replies
      /\ "finish" \notin Replies
  BY DEF Steps, Replies
<1>3. CASE kind = "refused"
  <2>1. Script(kind, n) = <<Msg("error", n), Msg("finish", n), Msg("done", n)>>
    BY <1>3 DEF Script
  <2>2. QED
    BY <1>1, <1>2, <2>1
<1>4. CASE kind = "builtin"
  <2>1. Script(kind, n) = <<Msg("output", n), Msg("finish", n), Msg("done", n)>>
    BY <1>4 DEF Script
  <2>2. QED
    BY <1>1, <1>2, <2>1
<1>5. CASE kind = "edit"
  <2>1. Script(kind, n) = <<Msg("edit", n), Msg("finish", n)>>
    BY <1>5 DEF Script
  <2>2. QED
    BY <1>1, <1>2, <2>1
<1>6. CASE kind = "open"
  <2>1. Script(kind, n) = <<Msg("exec_open", n), Msg("finish", n)>>
    BY <1>6 DEF Script
  <2>2. QED
    BY <1>1, <1>2, <2>1
<1>7. QED
  BY <1>3, <1>4, <1>5, <1>6 DEF Builtins

LEMMA AdmitGood == Good /\ Admit => Good'
<1> SUFFICES ASSUME Good, Admit PROVE Good'
  OBVIOUS
<1> DEFINE n == loop.msg.n
<1>1. /\ n \in 0..MaxSent /\ loop.at = "admit" /\ ep = "terminal" /\ live /\ slot' = TRUE
      /\ loop.msg.type \in Builtins \cup Jobs
      /\ UNCHANGED <<Net, conn, live, cancel, job, killed, sending, writers>>
      /\ killed' \in BOOLEAN
  BY Numbers DEF Admit, Good, TypeOK, SocketInv, WireInv, LiveInv
<1>2. CASE slot
  <2>1. "error" \in Steps /\ "done" \in Steps
    BY DEF Steps, Replies
  <2>2. Busy(n) \in Seq(Of(Steps)) /\ \A i \in 1..Len(Busy(n)) : Busy(n)[i].type # "finish"
    BY <1>1, <2>1, Pairs DEF Busy
  <2>3. loop' = [loop EXCEPT !.at = "read", !.script = Busy(n)]
    BY <1>2 DEF Admit, Then
  <2>4. QED
    BY <1>1, <2>2, <2>3, Branch
<1>3. ~slot => job.at = "none"
  BY <1>1 DEF Good, SocketInv, SlotInv, SlotHeld
<1>4. CASE ~slot /\ loop.msg.type \in Jobs
  <2>1. loop' = At("start") /\ "start" \in Places
    BY <1>4 DEF Admit, Places
  <2>2. QED
    BY <1>1, <1>3, <1>4, <2>1, Place
<1>5. CASE ~slot /\ loop.msg.type \notin Jobs
  <2> DEFINE script == Script(loop.msg.type, n)
  <2>1. /\ script \in Seq(Of(Steps))
        /\ \A i, j \in 1..Len(script) :
              script[i].type = "finish" /\ j # i => script[j].type \in Replies
    BY <1>1, <1>5, ScriptShape
  <2>2. loop' = [loop EXCEPT !.at = "read", !.script = script]
    BY <1>5 DEF Admit, Then
  <2> HIDE DEF script
  <2>3. /\ loop' \in [at : Places, msg : Of(Messages \cup {"nothing"}), script : Seq(Of(Steps))]
        /\ loop'.at = "read" /\ loop'.script = script
    BY <2>1, <2>2 DEF Good, TypeOK, Places
  <2>4. TypeOK'
    BY <1>1, <2>3 DEF Good, TypeOK, Net
  <2>5. WireInv' /\ TurnInv' /\ LiveInv'
    BY <1>1, <2>3 DEF Good, SocketInv, WireInv, Sendable, Quiet, TurnInv, LiveInv, Net
  <2>6. SlotInv'
    BY <1>1, <1>3, <1>5, <2>1, <2>3 DEF Good, SocketInv, SlotInv, SlotHeld, Net
  <2>7. QED
    BY <2>4, <2>5, <2>6 DEF Good, SocketInv
<1>6. QED
  BY <1>2, <1>4, <1>5 DEF Good, TypeOK


LEMMA StartGood == Good /\ Start => Good'
<1> SUFFICES ASSUME Good, Start PROVE Good'
  OBVIOUS
<1>1. /\ loop.at = "start" /\ ep = "terminal" /\ loop.msg.type \in Jobs /\ slot
      /\ loop.msg.n \in 0..MaxSent /\ cancel' = TRUE /\ killed' = FALSE
      /\ UNCHANGED <<Net, conn, live, slot, sending, writers>>
      /\ \A i \in 1..Len(loop.script) : loop.script[i].type # "finish"
  BY Numbers DEF Start, Good, SocketInv, WireInv, SlotInv
<1>2. /\ job' \in [at : {"none", "run", "exited", "free"}, kind : Jobs, n : 0..MaxSent,
                   chunk : BOOLEAN, outs : 0..MaxOuts]
      /\ job'.at = "run"
  <2>1. job' = Started(loop.msg.type, loop.msg.n)
    BY DEF Start
  <2>2. 0 \in 0..MaxOuts
    BY SocketsAssumption
  <2>3. QED
    BY <1>1, <2>1, <2>2 DEF Started, NoJob
<1>3. /\ loop' \in [at : Places, msg : Of(Messages \cup {"nothing"}), script : Seq(Of(Steps))]
      /\ loop'.at = "read" /\ loop'.script = loop.script
  BY DEF Start, Good, TypeOK, At, Places
<1>4. TypeOK'
  BY <1>1, <1>2, <1>3 DEF Good, TypeOK, Net
<1>5. WireInv' /\ TurnInv' /\ LiveInv'
  BY <1>1, <1>3 DEF Good, SocketInv, WireInv, Sendable, Quiet, TurnInv, LiveInv, Net
<1>6. SlotInv'
  BY <1>1, <1>2, <1>3 DEF SlotInv, SlotHeld, Net
<1>7. QED
  BY <1>4, <1>5, <1>6 DEF Good, SocketInv

\* What the first step of a script leaves.
LEMMA OneStep ==
    ASSUME Good, loop.script # <<>>, NEW at \in Places, loop' = [Rest EXCEPT !.at = at]
    PROVE  /\ loop' \in [at : Places, msg : Of(Messages \cup {"nothing"}), script : Seq(Of(Steps))]
           /\ loop'.at = at /\ loop'.msg = loop.msg /\ Head(loop.script) \in Of(Steps)
           /\ 1 \in 1..Len(loop.script) /\ Head(loop.script) = loop.script[1]
           /\ \A i \in 1..Len(loop'.script) :
                 i + 1 \in 1..Len(loop.script) /\ loop'.script[i] = loop.script[i + 1]
<1>1. loop.script \in Seq(Of(Steps))
  BY DEF Good, TypeOK
<1>2. /\ Head(loop.script) \in Of(Steps) /\ Tail(loop.script) \in Seq(Of(Steps))
      /\ Len(Tail(loop.script)) = Len(loop.script) - 1
      /\ \A i \in 1..Len(Tail(loop.script)) : Tail(loop.script)[i] = loop.script[i + 1]
      /\ Len(loop.script) \in Nat \ {0} /\ Head(loop.script) = loop.script[1]
  BY <1>1, HeadTailProperties, EmptySeq
<1>3. /\ loop' \in [at : Places, msg : Of(Messages \cup {"nothing"}), script : Seq(Of(Steps))]
      /\ loop'.at = at /\ loop'.msg = loop.msg /\ loop'.script = Tail(loop.script)
  BY <1>2 DEF Rest, Good, TypeOK
<1>4. \A i \in 1..Len(loop'.script) : i + 1 \in 1..Len(loop.script)
  BY <1>2, <1>3
<1>5. QED
  BY <1>2, <1>3, <1>4

LEMMA SayGood == Good /\ Say => Good'
<1> SUFFICES ASSUME Good, Say PROVE Good'
  OBVIOUS
<1>1. /\ loop.script # <<>> /\ Quiet("loop") /\ Head(loop.script).type \in Replies
      /\ sending' = [sending EXCEPT !["loop"] = Head(loop.script)] /\ loop' = Rest
      /\ UNCHANGED <<Net, conn, live, slot, cancel, job, killed, writers>>
  BY DEF Say
<1>2. loop' = [Rest EXCEPT !.at = loop.at] /\ loop.at \in Places
  BY <1>1 DEF Rest, Good, TypeOK
<1>3. /\ loop' \in [at : Places, msg : Of(Messages \cup {"nothing"}), script : Seq(Of(Steps))]
      /\ loop'.at = loop.at /\ loop'.msg = loop.msg /\ Head(loop.script) \in Of(Steps)
      /\ \A i \in 1..Len(loop'.script) :
             i + 1 \in 1..Len(loop.script) /\ loop'.script[i] = loop.script[i + 1]
  BY <1>1, <1>2, OneStep
<1>4. Head(loop.script) \in Of(Replies)
  BY <1>1, <1>3 DEF Of
<1>5. /\ sending' \in [Goroutines -> Of(Replies \cup {"nothing"})]
      /\ writers' \subseteq {h \in Goroutines : sending'[h] # Nothing}
      /\ \A h \in Goroutines : Quiet(h)' \/ sending'[h].type \in Replies
  BY <1>1, <1>4, Says DEF Goroutines
<1>6. TypeOK'
  BY <1>1, <1>3, <1>5 DEF Good, TypeOK, Net
<1>7. WireInv' /\ TurnInv' /\ LiveInv'
  BY <1>1, <1>3, <1>5 DEF Good, SocketInv, WireInv, Sendable, TurnInv, LiveInv, Net
<1>8. SlotInv'
  <2>1. SlotHeld' /\ (loop'.at = "start" => slot' /\ job'.at = "none")
    BY <1>1, <1>3 DEF Good, SocketInv, SlotInv, SlotHeld, Net
  <2>2. ASSUME NEW i \in 1..Len(loop'.script), loop'.script[i].type = "finish"
        PROVE  /\ ep' = "terminal" /\ slot' /\ job'.at = "none" /\ loop'.at = "read"
               /\ \A j \in 1..Len(loop'.script) : j # i => loop'.script[j].type \in Replies
    <3>1. i + 1 \in 1..Len(loop.script) /\ loop.script[i + 1].type = "finish"
      BY <1>3, <2>2
    <3>2. /\ ep = "terminal" /\ slot /\ job.at = "none" /\ loop.at = "read"
          /\ \A j \in 1..Len(loop.script) : j # i + 1 => loop.script[j].type \in Replies
      BY <3>1 DEF Good, SocketInv, SlotInv
    <3>3. ASSUME NEW j \in 1..Len(loop'.script), j # i PROVE loop'.script[j].type \in Replies
      BY <1>3, <3>2, <3>3
    <3>4. QED
      BY <1>1, <1>3, <3>2, <3>3 DEF Net
  <2>3. QED
    BY <2>1, <2>2 DEF SlotInv
<1>9. QED
  BY <1>6, <1>7, <1>8 DEF Good, SocketInv

LEMMA LastSteps ==
    ASSUME Good, Finish \/ Return \/ Cancel
    PROVE  Good'
<1>1. /\ loop.script # <<>> /\ Head(loop.script).type \in {"finish", "return", "cancel"}
      /\ Head(loop.script).type = "finish" <=> Finish
      /\ UNCHANGED <<Net, live, cancel, job, sending, writers>>
      /\ conn' \in {"open", "left", "shut"} /\ killed' \in BOOLEAN /\ slot' \in BOOLEAN
      /\ slot' = slot \/ Finish
  BY DEF Finish, Return, Cancel, Due, Shut, Good, TypeOK
<1>2. PICK at \in Places : loop' = [Rest EXCEPT !.at = at] /\ at \in {loop.at, "gone"}
                           /\ (Finish => at = loop.at)
  <2>1. CASE Finish
    <3>1. loop' = [Rest EXCEPT !.at = loop.at] /\ loop.at \in Places
      BY <2>1 DEF Finish, Rest, Good, TypeOK
    <3>2. QED
      BY <3>1
  <2>2. CASE ~Finish
    BY <2>2 DEF Return, Cancel, Places
  <2>3. QED
    BY <2>1, <2>2
<1>3. /\ loop' \in [at : Places, msg : Of(Messages \cup {"nothing"}), script : Seq(Of(Steps))]
      /\ loop'.at = at /\ loop'.msg = loop.msg
      /\ 1 \in 1..Len(loop.script) /\ Head(loop.script) = loop.script[1]
      /\ \A i \in 1..Len(loop'.script) :
             i + 1 \in 1..Len(loop.script) /\ loop'.script[i] = loop.script[i + 1]
  BY <1>1, <1>2, OneStep
<1>4. \A i \in 1..Len(loop'.script) : loop'.script[i].type # "finish"
  <2>1. SUFFICES ASSUME NEW i \in 1..Len(loop'.script), loop'.script[i].type = "finish"
                 PROVE  FALSE
    OBVIOUS
  <2>2. i + 1 \in 1..Len(loop.script) /\ loop.script[i + 1].type = "finish" /\ i + 1 # 1
    BY <1>3, <2>1
  <2>3. loop.script[1].type \in Replies
    BY <1>3, <2>2 DEF Good, SocketInv, SlotInv
  <2>4. QED
    BY <1>1, <1>3, <2>3 DEF Replies
<1>5. TypeOK'
  BY <1>1, <1>3 DEF Good, TypeOK, Net
<1>6. WireInv' /\ TurnInv' /\ LiveInv'
  BY <1>1, <1>2, <1>3 DEF Good, SocketInv, WireInv, Sendable, Quiet, TurnInv, LiveInv, Net
<1>7. SlotInv'
  <2>1. Finish => ep = "terminal" /\ job.at = "none" /\ loop.at = "read"
    BY <1>1, <1>3 DEF Good, SocketInv, SlotInv
  <2>2. QED
    BY <1>1, <1>2, <1>3, <1>4, <2>1 DEF Good, SocketInv, SlotInv, SlotHeld, Net
<1>8. QED
  BY <1>5, <1>6, <1>7 DEF Good, SocketInv

-----------------------------------------------------------------------------
LEMMA NextSocket == Good /\ [Next]_vars => Good'
<1> SUFFICES ASSUME Good, [Next]_vars PROVE Good'
  OBVIOUS
<1>1. CASE LoopStep
  BY <1>1, UpgradedGood, ReadGood, ReadFailsGood, CheckGood, InterruptGood, AdmitGood,
     StartGood, SayGood, LastSteps, WriteStep DEF LoopStep, Goroutines
<1>2. CASE JobStep \/ Prints \/ Exit
  BY <1>2, JobSteps, WriteStep DEF JobStep, Goroutines
<1>3. CASE Receive \/ PromptAgain \/ User
  BY <1>3, PageStep
<1>4. CASE SessionEnds
  <2>1. TypeOK'
    BY <1>4 DEF SessionEnds, server, Good, TypeOK
  <2>2. WireInv' /\ SlotInv' /\ TurnInv' /\ LiveInv'
    BY <1>4 DEF SessionEnds, server, Good, SocketInv, WireInv, Sendable, Quiet, SlotInv,
                SlotHeld, TurnInv, LiveInv
  <2>3. QED
    BY <2>1, <2>2 DEF Good, SocketInv
<1>5. CASE UNCHANGED vars
  <2>1. TypeOK'
    BY <1>5 DEF vars, server, Good, TypeOK
  <2>2. WireInv' /\ SlotInv' /\ TurnInv' /\ LiveInv'
    BY <1>5 DEF vars, server, Good, SocketInv, WireInv, Sendable, Quiet, SlotInv,
                SlotHeld, TurnInv, LiveInv
  <2>3. QED
    BY <2>1, <2>2 DEF Good, SocketInv
<1>6. QED
  BY <1>1, <1>2, <1>3, <1>4, <1>5 DEF Next

LEMMA SocketInvariant == Spec => []Good
  BY InitSocket, NextSocket, PTL DEF Spec

-----------------------------------------------------------------------------
(***************************************************************************)
(* The variables keep their types: no message that an endpoint does not    *)
(* know is admitted or started, and no reply but the six kinds is sent.    *)
(***************************************************************************)
THEOREM TypeCorrect == Spec => []TypeOK
<1>1. Good => TypeOK
  BY DEF Good
<1>2. QED
  BY <1>1, SocketInvariant, PTL

(***************************************************************************)
(* One command at a time, for any number of commands and interrupts: the   *)
(* slot is taken while a subprocess lives or its goroutine has yet to end, *)
(* and the cancel function is there exactly as long.                       *)
(***************************************************************************)
THEOREM OneCommand == Spec => []SlotHeld
<1>1. Good => SlotHeld
  BY DEF Good, SocketInv, SlotInv
<1>2. QED
  BY <1>1, SocketInvariant, PTL

\* The goroutines of /ws/terminal and /ws/exec never write at once.
THEOREM OneWriter == Spec => []WritersTakeTurns
<1>1. Good => WritersTakeTurns
  <2>1. SUFFICES ASSUME Good, ep # "logs" PROVE Cardinality(writers) <= 1
    BY DEF WritersTakeTurns
  <2>2. CASE writers = {}
    BY <2>2, FS_EmptySet
  <2>3. CASE writers # {}
    <3>1. PICK g \in writers : writers = {g}
      BY <2>1, <2>3 DEF Good, SocketInv, TurnInv
    <3>2. QED
      BY <3>1, FS_Singleton
  <2>4. QED
    BY <2>2, <2>3
<1>2. QED
  BY <1>1, SocketInvariant, PTL

(***************************************************************************)
(* No command that was read after its session had ended is admitted, and   *)
(* no such input is given to a subprocess.                                 *)
(***************************************************************************)
THEOREM LogoutHolds == Spec => NoWorkAfterLogout
<1>1. Good => (loop.at \in {"admit", "feed"} => live)
  BY DEF Good, SocketInv, LiveInv
<1>2. Good /\ [Next]_vars =>
         [loop.at \in {"admit", "feed"} /\ loop'.at # loop.at => live]_vars
  BY <1>1
<1>3. QED
  BY <1>2, SocketInvariant, PTL DEF Spec, NoWorkAfterLogout

-----------------------------------------------------------------------------
(***************************************************************************)
(* The inductive invariant of DoneIsLast.  A command has one number, and   *)
(* that number is at one place: on its way to the server, with the loop,   *)
(* or with the job.  While an output of it may still come from there, no   *)
(* done of it has been said.                                               *)
(***************************************************************************)
Entered == Builtins \cup Jobs
Taking  == {"check", "feed", "interrupt", "admit", "start"}

\* A message of one of these types, and with this number, is in s.
Has(s, types) == \E i \in 1..Len(s) : s[i].type \in types
HasNum(s, types, n) == \E i \in 1..Len(s) : s[i].type \in types /\ s[i].n = n

\* The numbers that the loop is about to answer.
Held(n) ==
    \/ loop.at \in Taking /\ loop.msg.type \in Entered /\ loop.msg.n = n
    \/ HasNum(loop.script, {"output", "done"}, n)

Coming(n) ==
    \/ n > client.sent
    \/ HasNum(up, Entered, n)
    \/ Held(n)
    \/ loop.at = "upgrade" /\ n = 0
    \/ job.at \in {"run", "exited"} /\ job.n = n

Said(n) ==
    \/ HasNum(down, {"done"}, n)
    \/ \E g \in Goroutines : sending[g].type = "done" /\ sending[g].n = n

Ordered(s) ==
    \A i, j \in 1..Len(s) :
        i < j /\ s[i].type = "done" /\ s[j].type = "output" => s[j].n # s[i].n

DoneEnds(s) ==
    \A i, j \in 1..Len(s) : i < j /\ s[i].type = "done" => s[j].type \notin {"output", "done"}

SaidInv ==
    /\ Ordered(down)
    /\ \A n \in 0..MaxSent : Coming(n) => ~Said(n)
    /\ \A g \in Goroutines : sending[g].type = "output" => ~Said(sending[g].n)

NumberInv ==
    /\ \A i, j \in 1..Len(up) :
           i # j /\ up[i].type \in Entered /\ up[j].type \in Entered => up[i].n # up[j].n
    /\ \A n \in 0..MaxSent : HasNum(up, Entered, n) =>
           n <= client.sent /\ ~Held(n) /\ (job.at # "none" => job.n # n)
    /\ \A n \in 0..MaxSent : Held(n) => n <= client.sent /\ (job.at # "none" => job.n # n)
    /\ job.at # "none" => job.n <= client.sent

LoopInv ==
    /\ loop.at \in Taking => loop.script = <<>> /\ Quiet("loop")
    /\ DoneEnds(loop.script)
    /\ loop.at = "upgrade" => /\ job.at = "none" /\ sending["loop"].type # "output"
                              /\ ~Has(loop.script, {"output", "done"})
    /\ sending["loop"].type = "output" /\ job.at # "none" => job.n # sending["loop"].n

JobInv ==
    /\ job.chunk => job.at \in {"run", "exited"}
    /\ job.at = "none" => Quiet("job")
    /\ sending["job"].type \in {"output", "done"} => sending["job"].n = job.n
    /\ sending["job"].type = "output" => job.at \in {"run", "exited"}

OrderInv == SaidInv /\ NumberInv /\ LoopInv /\ JobInv

(***************************************************************************)
(* The inductive invariant of NothingLost: while the page waits at its     *)
(* prompt, something that ends the wait is under way.                      *)
(***************************************************************************)
Ends == {"done", "error", "edit", "exec_open", "session_invalid", "return"}

AnswerDue ==
    \/ Has(up, Entered)
    \/ loop.at \in Taking /\ loop.msg.type \in Entered
    \/ Has(loop.script, Ends)
    \/ \E g \in Goroutines : sending[g].type \in Ends
    \/ Has(down, Ends)
    \/ job.at \in {"run", "exited"}

Waits == ep = "terminal" /\ conn = "open" /\ client.running /\ client.mode = "line"

DueInv ==
    /\ Waits => AnswerDue
    /\ loop.at = "interrupt" => loop.msg.type = "int"

-----------------------------------------------------------------------------
\* Messages at the ends of a sequence.
LEMMA AppendHas ==
    ASSUME NEW T, NEW s \in Seq(T), NEW m \in T, NEW types
    PROVE  /\ Has(Append(s, m), types) <=> Has(s, types) \/ m.type \in types
           /\ \A n : HasNum(Append(s, m), types, n) <=>
                        HasNum(s, types, n) \/ (m.type \in types /\ m.n = n)
<1>1. /\ Len(s) \in Nat /\ Len(Append(s, m)) = Len(s) + 1
      /\ \A i \in 1..Len(s) : Append(s, m)[i] = s[i]
      /\ Append(s, m)[Len(s) + 1] = m
  BY AppendProperties, LenProperties
<1>2. \A i : i \in 1..(Len(s) + 1) <=> i \in 1..Len(s) \/ i = Len(s) + 1
  BY <1>1
<1>3. QED
  BY <1>1, <1>2 DEF Has, HasNum

LEMMA TailHas ==
    ASSUME NEW T, NEW s \in Seq(T), s # <<>>, NEW types
    PROVE  /\ Has(s, types) <=> Has(Tail(s), types) \/ Head(s).type \in types
           /\ \A n : HasNum(s, types, n) <=>
                        HasNum(Tail(s), types, n) \/ (Head(s).type \in types /\ Head(s).n = n)
<1>1. /\ Len(s) \in Nat /\ Len(s) >= 1 /\ Len(Tail(s)) = Len(s) - 1 /\ Head(s) = s[1]
      /\ \A i \in 1..Len(Tail(s)) : Tail(s)[i] = s[i + 1]
  BY HeadTailProperties, EmptySeq, LenProperties
<1>2. \A i \in 1..Len(s) : i = 1 \/ (i - 1 \in 1..Len(Tail(s)) /\ Tail(s)[i - 1] = s[i])
  <2> SUFFICES ASSUME NEW i \in 1..Len(s), i # 1
               PROVE  i - 1 \in 1..Len(Tail(s)) /\ Tail(s)[i - 1] = s[i]
    OBVIOUS
  <2>1. i - 1 \in 1..Len(Tail(s)) /\ (i - 1) + 1 = i
    BY <1>1
  <2>2. QED
    BY <1>1, <2>1
<1>3. \A i \in 1..Len(Tail(s)) : i + 1 \in 1..Len(s) /\ s[i + 1] = Tail(s)[i]
  BY <1>1
<1>4. 1 \in 1..Len(s)
  BY <1>1
<1>5. Has(s, types) <=> Has(Tail(s), types) \/ Head(s).type \in types
  BY <1>1, <1>2, <1>3, <1>4 DEF Has
<1>6. ASSUME NEW n
      PROVE  HasNum(s, types, n) <=>
                HasNum(Tail(s), types, n) \/ (Head(s).type \in types /\ Head(s).n = n)
  BY <1>1, <1>2, <1>3, <1>4 DEF HasNum
<1>7. QED
  BY <1>5, <1>6

LEMMA EmptyHas ==
    ASSUME NEW types
    PROVE  ~Has(<<>>, types) /\ (\A n : ~HasNum(<<>>, types, n)) /\ DoneEnds(<<>>)
<1>1. 1..Len(<<>>) = {}
  OBVIOUS
<1>2. QED
  BY <1>1 DEF Has, HasNum, DoneEnds

LEMMA Typed ==
    ASSUME Good
    PROVE  /\ up \in Seq(Of(Messages)) /\ down \in Seq(Of(Replies))
           /\ loop.script \in Seq(Of(Steps)) /\ loop.msg.n \in 0..MaxSent
           /\ job.n \in 0..MaxSent /\ client.sent \in 0..MaxSent /\ MaxSent \in Nat
           /\ \A g \in Goroutines : sending[g].n \in 0..MaxSent
           /\ \A n, types : HasNum(up, types, n) => n \in 0..MaxSent
<1>1. /\ up \in Seq(Of(Messages)) /\ down \in Seq(Of(Replies))
      /\ loop.script \in Seq(Of(Steps)) /\ loop.msg.n \in 0..MaxSent
      /\ job.n \in 0..MaxSent /\ client.sent \in 0..MaxSent /\ MaxSent \in Nat
      /\ \A g \in Goroutines : sending[g].n \in 0..MaxSent
  BY Numbers, SocketsAssumption DEF Good, TypeOK, Of
<1>2. \A i \in 1..Len(up) : up[i] \in Of(Messages)
  BY <1>1, ElementOfSeq
<1>3. QED
  BY <1>1, <1>2 DEF HasNum, Of

-----------------------------------------------------------------------------
\* The page sends a command under a new number, or something else.
LEMMA SendOrder ==
    ASSUME Good, OrderInv, NEW m \in Of(Messages), up' = Append(up, m),
           UNCHANGED <<down, loop, job, sending>>,
           client'.sent \in 0..MaxSent, client.sent <= client'.sent,
           m.type \in Entered => m.n = client'.sent /\ client.sent < client'.sent
    PROVE  OrderInv'
<1>1. \A n : HasNum(up', Entered, n) <=>
                HasNum(up, Entered, n) \/ (m.type \in Entered /\ m.n = n)
  BY Typed, AppendHas
<1>2. \A n : (Held(n)' <=> Held(n)) /\ (Said(n)' <=> Said(n))
  BY DEF Held, Said
<1>3. \A n \in 0..MaxSent : Coming(n)' => Coming(n)
  BY <1>1, <1>2, Typed DEF Coming
<1>4. SaidInv'
  BY <1>2, <1>3 DEF OrderInv, SaidInv, Ordered
<1>5. NumberInv'
  <2>1. /\ Len(up) \in Nat /\ Len(up') = Len(up) + 1
        /\ \A i \in 1..Len(up) : up'[i] = up[i]
        /\ up'[Len(up) + 1] = m
    BY Typed, AppendProperties, LenProperties
  <2>2. \A i \in 1..Len(up) : up[i].type \in Entered => up[i].n <= client.sent
    BY Typed DEF OrderInv, NumberInv, HasNum
  <2>3. \A i, j \in 1..Len(up') :
           i # j /\ up'[i].type \in Entered /\ up'[j].type \in Entered => up'[i].n # up'[j].n
    <3> SUFFICES ASSUME NEW i \in 1..Len(up'), NEW j \in 1..Len(up'), i # j,
                        up'[i].type \in Entered, up'[j].type \in Entered,
                        up'[i].n = up'[j].n
                 PROVE  FALSE
      OBVIOUS
    <3>1. CASE i \in 1..Len(up) /\ j \in 1..Len(up)
      BY <2>1, <3>1 DEF OrderInv, NumberInv
    <3>2. CASE i = Len(up) + 1 /\ j \in 1..Len(up)
      <4>1. up[j].n <= client.sent /\ up[j].n = client'.sent /\ client.sent < client'.sent
        BY <2>1, <2>2, <3>2
      <4>2. QED
        BY <4>1, Typed
    <3>3. CASE j = Len(up) + 1 /\ i \in 1..Len(up)
      <4>1. up[i].n <= client.sent /\ up[i].n = client'.sent /\ client.sent < client'.sent
        BY <2>1, <2>2, <3>3
      <4>2. QED
        BY <4>1, Typed
    <3>4. QED
      BY <2>1, <3>1, <3>2, <3>3
  <2>4. ASSUME NEW n \in 0..MaxSent, HasNum(up', Entered, n)
        PROVE  n <= client'.sent /\ ~Held(n)' /\ (job'.at # "none" => job'.n # n)
    <3>1. CASE HasNum(up, Entered, n)
      BY <1>2, <3>1, Typed DEF OrderInv, NumberInv
    <3>2. CASE m.type \in Entered /\ m.n = n
      BY <1>2, <3>2, Typed DEF OrderInv, NumberInv
    <3>3. QED
      BY <1>1, <2>4, <3>1, <3>2
  <2>5. /\ \A n \in 0..MaxSent : Held(n)' => n <= client'.sent /\ (job'.at # "none" => job'.n # n)
        /\ job'.at # "none" => job'.n <= client'.sent
    BY <1>2, Typed DEF OrderInv, NumberInv
  <2>6. QED
    BY <2>3, <2>4, <2>5 DEF NumberInv
<1>6. LoopInv' /\ JobInv'
  BY DEF OrderInv, LoopInv, JobInv, Quiet
<1>7. QED
  BY <1>4, <1>5, <1>6 DEF OrderInv

\* What is on the way to the page gets less.
LEMMA ReceiveOrder ==
    ASSUME Good, OrderInv, UNCHANGED <<up, loop, job, sending>>, client'.sent = client.sent,
           down' = down \/ (down # <<>> /\ down' = Tail(down))
    PROVE  OrderInv'
<1>1. Ordered(down') /\ \A n : HasNum(down', {"done"}, n) => HasNum(down, {"done"}, n)
  <2>1. CASE down' = down
    BY <2>1 DEF OrderInv, SaidInv
  <2>2. CASE down # <<>> /\ down' = Tail(down)
    <3>1. /\ Len(down) \in Nat /\ Len(down') = Len(down) - 1
          /\ \A i \in 1..Len(down') : down'[i] = down[i + 1]
      BY <2>2, Typed, HeadTailProperties, LenProperties
    <3>2. \A i \in 1..Len(down') : i + 1 \in 1..Len(down)
      BY <3>1
    <3>3. ASSUME NEW i \in 1..Len(down'), NEW j \in 1..Len(down'), i < j,
                 down'[i].type = "done", down'[j].type = "output"
          PROVE  down'[j].n # down'[i].n
      <4>1. /\ i + 1 \in 1..Len(down) /\ j + 1 \in 1..Len(down) /\ i + 1 < j + 1
            /\ down[i + 1] = down'[i] /\ down[j + 1] = down'[j]
        BY <3>1, <3>2, <3>3
      <4>2. QED
        BY <3>3, <4>1 DEF OrderInv, SaidInv, Ordered
    <3>4. \A n : HasNum(down, {"done"}, n) <=>
                    HasNum(Tail(down), {"done"}, n) \/ (Head(down).type \in {"done"} /\ Head(down).n = n)
      BY <2>2, Typed, TailHas
    <3>5. QED
      BY <2>2, <3>3, <3>4 DEF Ordered
  <2>3. QED
    BY <2>1, <2>2
<1>2. \A n : (Held(n)' <=> Held(n)) /\ (Said(n)' => Said(n)) /\ (Coming(n)' <=> Coming(n))
  BY <1>1 DEF Held, Said, Coming
<1>3. SaidInv'
  BY <1>1, <1>2 DEF OrderInv, SaidInv
<1>4. NumberInv' /\ LoopInv' /\ JobInv'
  BY <1>2 DEF OrderInv, NumberInv, LoopInv, JobInv, Quiet
<1>5. QED
  BY <1>3, <1>4 DEF OrderInv

LEMMA PageOrder ==
    ASSUME Good, Good', OrderInv, User \/ Receive \/ PromptAgain
    PROVE  OrderInv'
<1>1. UNCHANGED <<loop, job, sending>> /\ client.sent \in 0..MaxSent
      /\ client'.sent \in 0..MaxSent /\ MaxSent \in Nat
      /\ client \in [running : BOOLEAN, mode : Modes, sent : 0..MaxSent, ints : 0..MaxInts]
  BY SocketsAssumption
     DEF Good, TypeOK, User, Receive, PromptAgain, Enter, CtrlC, Input, ExecOpens,
         ExecFails, Leave, Page, server
<1>2. ASSUME NEW kind \in Builtins \cup Jobs, Enter(kind) PROVE OrderInv'
  <2>1. client'.sent = client.sent + 1 /\ kind \in Messages
    BY <1>1, <1>2 DEF Enter, Messages
  <2>2. Msg(kind, client.sent + 1) \in Of(Messages) /\ Msg(kind, client.sent + 1).n = client'.sent
    BY <1>1, <2>1, MsgTypes
  <2>3. QED
    BY <1>1, <1>2, <2>1, <2>2, SendOrder DEF Enter, Sends
<1>3. CASE CtrlC
  <2>1. client'.sent = client.sent /\ Msg("int", client.sent) \in Of(Messages)
        /\ Msg("int", client.sent).type \notin Entered
    BY <1>1, <1>3, MsgTypes DEF CtrlC, Messages, Msg, Entered, Builtins, Jobs
  <2>2. QED
    BY <1>1, <1>3, <2>1, SendOrder DEF CtrlC, Sends
<1>4. CASE Input
  <2>1. client'.sent = client.sent + 1
    BY <1>1, <1>4 DEF Input
  <2>2. Msg("input", client.sent + 1) \in Of(Messages)
        /\ Msg("input", client.sent + 1).type \notin Entered
    BY <1>1, <2>1, MsgTypes DEF Messages, Msg, Entered, Builtins, Jobs
  <2>3. QED
    BY <1>1, <1>4, <2>1, <2>2, SendOrder DEF Input, Sends
<1>5. CASE Receive \/ PromptAgain \/ ExecOpens \/ ExecFails \/ Leave
  <2>1. client'.sent = client.sent /\ up' = up
        /\ (down' = down \/ (down # <<>> /\ down' = Tail(down)))
    BY <1>1, <1>5 DEF Receive, PromptAgain, ExecOpens, ExecFails, Leave
  <2>2. QED
    BY <1>1, <2>1, ReceiveOrder
<1>6. QED
  BY <1>2, <1>3, <1>4, <1>5 DEF User

LEMMA WriteOrder ==
    ASSUME Good, OrderInv, NEW g \in Goroutines, Write(g) \/ Written(g)
    PROVE  OrderInv'
<1>1. CASE Write(g)
  <2>1. UNCHANGED <<up, down, client, loop, job, sending>>
    BY <1>1 DEF Write
  <2>2. QED
    BY <2>1, ReceiveOrder
<1>2. CASE Written(g)
  <2>1. /\ UNCHANGED <<up, client, loop, job>>
        /\ sending'[g] = Nothing
        /\ \A h \in Goroutines : sending'[h] = Nothing \/ sending'[h] = sending[h]
        /\ Nothing.type = "nothing"
        /\ down' = down \/ down' = Append(down, sending[g])
    BY <1>2 DEF Written, Good, TypeOK, Nothing
  <2>2. sending[g] \in Of(Replies)
    <3>1. sending[g] # Nothing /\ sending[g] \in Of(Replies \cup {"nothing"})
      BY <1>2 DEF Written, Good, TypeOK
    <3>2. sending[g].type \in Replies
      BY <3>1 DEF Good, SocketInv, WireInv, Quiet
    <3>3. QED
      BY <3>1, <3>2 DEF Of
  <2>3. \A n : HasNum(down', {"done"}, n) =>
                  HasNum(down, {"done"}, n) \/ (sending[g].type = "done" /\ sending[g].n = n)
    <3>1. CASE down' = down
      BY <3>1
    <3>2. CASE down' = Append(down, sending[g])
      <4>1. \A n : HasNum(Append(down, sending[g]), {"done"}, n) <=>
                      HasNum(down, {"done"}, n) \/ (sending[g].type \in {"done"} /\ sending[g].n = n)
        BY <2>2, Typed, AppendHas
      <4>2. QED
        BY <3>2, <4>1
    <3>3. QED
      BY <2>1, <3>1, <3>2
  <2>4. \A n : (Held(n)' <=> Held(n)) /\ (Said(n)' => Said(n)) /\ (Coming(n)' <=> Coming(n))
    BY <2>1, <2>3 DEF Held, Said, Coming
  <2>5. Ordered(down')
    <3>1. CASE down' = down
      BY <3>1 DEF OrderInv, SaidInv
    <3>2. CASE down' = Append(down, sending[g])
      <4>1. /\ Len(down) \in Nat /\ Len(down') = Len(down) + 1
            /\ \A i \in 1..Len(down) : down'[i] = down[i]
            /\ down'[Len(down) + 1] = sending[g]
        BY <2>2, <3>2, Typed, AppendProperties, LenProperties
      <4>2. sending[g].type = "output" =>
               \A i \in 1..Len(down) : down[i].type = "done" => down[i].n # sending[g].n
        BY DEF OrderInv, SaidInv, Said, HasNum
      <4>3. ASSUME NEW i \in 1..Len(down'), NEW j \in 1..Len(down'), i < j,
                   down'[i].type = "done", down'[j].type = "output"
            PROVE  down'[j].n # down'[i].n
        <5>1. CASE j \in 1..Len(down)
          <6>1. i \in 1..Len(down)
            BY <4>1, <4>3, <5>1
          <6>2. QED
            BY <4>1, <4>3, <5>1, <6>1 DEF OrderInv, SaidInv, Ordered
        <5>2. CASE j = Len(down) + 1
          <6>1. i \in 1..Len(down)
            BY <4>1, <4>3, <5>2
          <6>2. QED
            BY <4>1, <4>2, <4>3, <5>2, <6>1
        <5>3. QED
          BY <4>1, <5>1, <5>2
      <4>4. QED
        BY <4>3 DEF Ordered
    <3>3. QED
      BY <2>1, <3>1, <3>2
  <2>6. SaidInv'
    <3>1. ASSUME NEW h \in Goroutines, sending'[h].type = "output"
          PROVE  ~Said(sending[h].n)' /\ sending'[h].n = sending[h].n
      <4>1. sending'[h] = sending[h]
        BY <2>1, <3>1
      <4>2. ~Said(sending[h].n)
        BY <3>1, <4>1 DEF OrderInv, SaidInv
      <4>3. QED
        BY <2>4, <4>1, <4>2
    <3>2. \A n \in 0..MaxSent : Coming(n)' => ~Said(n)'
      BY <2>4 DEF OrderInv, SaidInv
    <3>3. QED
      BY <2>5, <3>1, <3>2 DEF SaidInv
  <2>7. NumberInv'
    BY <2>1, <2>4 DEF OrderInv, NumberInv
  <2>8. LoopInv' /\ JobInv'
    BY <2>1 DEF OrderInv, LoopInv, JobInv, Quiet, Goroutines
  <2>9. QED
    BY <2>6, <2>7, <2>8 DEF OrderInv
<1>3. QED
  BY <1>1, <1>2

-----------------------------------------------------------------------------
\* What remains of a script.
LEMMA TailEnds ==
    ASSUME NEW T, NEW s \in Seq(T), s # <<>>, DoneEnds(s)
    PROVE  /\ DoneEnds(Tail(s))
           /\ Head(s).type = "done" => ~Has(Tail(s), {"output", "done"})
<1>1. /\ Len(s) \in Nat /\ Len(s) >= 1 /\ Len(Tail(s)) = Len(s) - 1 /\ Head(s) = s[1]
      /\ \A i \in 1..Len(Tail(s)) : Tail(s)[i] = s[i + 1]
  BY HeadTailProperties, EmptySeq, LenProperties
<1>2. \A i \in 1..Len(Tail(s)) :
         i + 1 \in 1..Len(s) /\ Tail(s)[i] = s[i + 1] /\ 1 < i + 1 /\ 1 \in 1..Len(s)
  BY <1>1
<1>3. ASSUME NEW i \in 1..Len(Tail(s)), NEW j \in 1..Len(Tail(s)), i < j,
             Tail(s)[i].type = "done"
      PROVE  Tail(s)[j].type \notin {"output", "done"}
  <2>1. i + 1 \in 1..Len(s) /\ j + 1 \in 1..Len(s) /\ i + 1 < j + 1
        /\ Tail(s)[i] = s[i + 1] /\ Tail(s)[j] = s[j + 1]
    BY <1>1, <1>2, <1>3
  <2>2. QED
    BY <1>3, <2>1 DEF DoneEnds
<1>4. ASSUME Head(s).type = "done", NEW i \in 1..Len(Tail(s))
      PROVE  Tail(s)[i].type \notin {"output", "done"}
  BY <1>1, <1>2, <1>4 DEF DoneEnds
<1>5. QED
  BY <1>3, <1>4 DEF DoneEnds, Has

LEMMA HasNumHas ==
    ASSUME NEW s, NEW types
    PROVE  \A n : HasNum(s, types, n) => Has(s, types)
BY DEF HasNum, Has

\* The scripts: two messages without output and done; those of Admit.
LEMMA SilentScript ==
    ASSUME NEW a, NEW b, NEW n, NEW k,
           {a, b} \subseteq {"session_invalid", "error", "return", "cancel"}
    PROVE  /\ DoneEnds(<<Msg(a, n), Msg(b, k)>>) /\ ~Has(<<Msg(a, n), Msg(b, k)>>, {"output", "done"})
           /\ DoneEnds(<<Msg(a, n)>>) /\ ~Has(<<Msg(a, n)>>, {"output", "done"})
<1>1. \A i \in 1..Len(<<Msg(a, n), Msg(b, k)>>) :
         <<Msg(a, n), Msg(b, k)>>[i].type \in {a, b}
  BY DEF Msg
<1>2. \A i \in 1..Len(<<Msg(a, n)>>) : <<Msg(a, n)>>[i].type \in {a, b}
  BY DEF Msg
<1>3. QED
  BY <1>1, <1>2 DEF DoneEnds, Has

LEMMA AnswerScript ==
    ASSUME NEW kind \in Builtins, NEW n, NEW s, s \in {Busy(n), Script(kind, n)}
    PROVE  /\ DoneEnds(s)
           /\ \A k : HasNum(s, {"output", "done"}, k) => k = n
<1>1. \/ s = <<Msg("error", n), Msg("done", n)>>
      \/ s = <<Msg("error", n), Msg("finish", n), Msg("done", n)>>
      \/ s = <<Msg("output", n), Msg("finish", n), Msg("done", n)>>
      \/ s = <<Msg("edit", n), Msg("finish", n)>>
      \/ s = <<Msg("exec_open", n), Msg("finish", n)>>
  BY DEF Busy, Script, Builtins
<1>2. (\A i \in 1..Len(s) : s[i].n = n) /\ Len(s) \in {2, 3}
      /\ \A i \in 1..Len(s) : s[i].type = "done" => i = Len(s)
  <2>1. CASE s = <<Msg("error", n), Msg("done", n)>>
    BY <2>1 DEF Msg
  <2>2. CASE s = <<Msg("error", n), Msg("finish", n), Msg("done", n)>>
    BY <2>2 DEF Msg
  <2>3. CASE s = <<Msg("output", n), Msg("finish", n), Msg("done", n)>>
    BY <2>3 DEF Msg
  <2>4. CASE s = <<Msg("edit", n), Msg("finish", n)>>
    BY <2>4 DEF Msg
  <2>5. CASE s = <<Msg("exec_open", n), Msg("finish", n)>>
    BY <2>5 DEF Msg
  <2>6. QED
    BY <1>1, <2>1, <2>2, <2>3, <2>4, <2>5
<1>3. QED
  BY <1>2 DEF DoneEnds, HasNum

-----------------------------------------------------------------------------
\* The loop goes on: it holds no new number.
LEMMA LoopMoves ==
    ASSUME OrderInv, LoopInv', UNCHANGED <<up, down, client, job, sending>>,
           \A n : Held(n)' => Held(n),
           loop'.at = "upgrade" => loop.at = "upgrade"
    PROVE  OrderInv'
<1>1. \A n : (Said(n)' <=> Said(n)) /\ (Coming(n)' => Coming(n))
  BY DEF Said, Coming
<1>2. SaidInv'
  BY <1>1 DEF OrderInv, SaidInv, Ordered
<1>3. NumberInv' /\ JobInv'
  BY DEF OrderInv, NumberInv, JobInv, Quiet
<1>4. QED
  BY <1>2, <1>3 DEF OrderInv

\* It takes its next step, whatever that is.
LEMMA RestOrder ==
    ASSUME Good, OrderInv, loop.script # <<>>, UNCHANGED <<up, down, client, job, sending>>,
           loop' = Rest \/ loop' = [Rest EXCEPT !.at = "gone"]
    PROVE  OrderInv'
<1>1. /\ loop'.script = Tail(loop.script) /\ loop'.msg = loop.msg
      /\ loop'.at \in {loop.at, "gone"} /\ loop.at \notin Taking /\ "gone" \notin Taking
  BY DEF Good, TypeOK, Rest, OrderInv, LoopInv, Taking
<1>2. DoneEnds(loop'.script)
  BY <1>1, Typed, TailEnds DEF OrderInv, LoopInv
<1>3. Has(loop'.script, {"output", "done"}) => Has(loop.script, {"output", "done"})
  BY <1>1, Typed, TailHas
<1>4. ASSUME NEW n PROVE Held(n)' => Held(n)
  <2>1. HasNum(loop'.script, {"output", "done"}, n) => HasNum(loop.script, {"output", "done"}, n)
    BY <1>1, Typed, TailHas
  <2>2. QED
    BY <1>1, <2>1 DEF Held
<1>5. LoopInv'
  BY <1>1, <1>2, <1>3 DEF OrderInv, LoopInv, Quiet
<1>6. QED
  BY <1>1, <1>4, <1>5, LoopMoves

LEMMA ReadOrder ==
    ASSUME Good, OrderInv, Read
    PROVE  OrderInv'
<1>1. /\ UNCHANGED <<down, client, job, sending>> /\ up # <<>> /\ up' = Tail(up)
      /\ loop.script = <<>> /\ Quiet("loop") /\ loop.at = "read"
      /\ loop'.at = "check" /\ loop'.script = <<>> /\ loop'.msg = Head(up)
  BY DEF Read, Reading, Good, TypeOK
<1>2. /\ Len(up) \in Nat /\ Len(up) >= 1 /\ Len(up') = Len(up) - 1 /\ Head(up) = up[1]
      /\ \A i \in 1..Len(up') : up'[i] = up[i + 1]
  BY <1>1, Typed, HeadTailProperties, EmptySeq, LenProperties
<1>3. \A i \in 1..Len(up') : i + 1 \in 1..Len(up) /\ up'[i] = up[i + 1] /\ i + 1 # 1
                             /\ 1 \in 1..Len(up)
  BY <1>2
<1>4. /\ \A n : ~HasNum(loop.script, {"output", "done"}, n)
      /\ ~Has(loop.script, {"output", "done"}) /\ DoneEnds(loop.script)
  BY <1>1, EmptyHas
<1>5. \A n : Held(n)' <=> Head(up).type \in Entered /\ Head(up).n = n
  BY <1>1, <1>4 DEF Held, Taking
<1>6. \A n : HasNum(up, Entered, n) <=> HasNum(up', Entered, n) \/ Held(n)'
  BY <1>1, <1>5, Typed, TailHas
<1>7. \A n : (Said(n)' <=> Said(n)) /\ (Coming(n)' => Coming(n))
  BY <1>1, <1>6 DEF Said, Coming
<1>8. SaidInv'
  BY <1>1, <1>7 DEF OrderInv, SaidInv, Ordered
<1>9. NumberInv'
  <2>1. ASSUME NEW i \in 1..Len(up'), NEW j \in 1..Len(up'), i # j,
               up'[i].type \in Entered, up'[j].type \in Entered
        PROVE  up'[i].n # up'[j].n
    <3>1. i + 1 \in 1..Len(up) /\ j + 1 \in 1..Len(up) /\ i + 1 # j + 1
      BY <1>2, <1>3, <2>1
    <3>2. QED
      BY <1>3, <2>1, <3>1 DEF OrderInv, NumberInv
  <2>2. ASSUME NEW n, HasNum(up', Entered, n) PROVE ~Held(n)'
    <3>1. PICK i \in 1..Len(up') : up'[i].type \in Entered /\ up'[i].n = n
      BY <2>2 DEF HasNum
    <3>2. up[i + 1].type \in Entered /\ up[i + 1].n = n /\ i + 1 # 1 /\ i + 1 \in 1..Len(up)
          /\ 1 \in 1..Len(up)
      BY <1>3, <3>1
    <3>3. up[1].type \in Entered => up[1].n # n
      BY <3>2 DEF OrderInv, NumberInv
    <3>4. QED
      BY <1>2, <1>5, <3>3
  <2>3. /\ \A n \in 0..MaxSent : HasNum(up', Entered, n) =>
              n <= client'.sent /\ (job'.at # "none" => job'.n # n)
        /\ \A n \in 0..MaxSent : Held(n)' =>
              n <= client'.sent /\ (job'.at # "none" => job'.n # n)
        /\ job'.at # "none" => job'.n <= client'.sent
    BY <1>1, <1>6 DEF OrderInv, NumberInv
  <2>4. QED
    BY <2>1, <2>2, <2>3 DEF NumberInv
<1>10. LoopInv' /\ JobInv'
  BY <1>1, <1>4 DEF OrderInv, LoopInv, JobInv, Quiet
<1>11. QED
  BY <1>8, <1>9, <1>10 DEF OrderInv

\* A job begins, with a number that was the loop's, or 0 after the upgrade.
LEMMA BeginOrder ==
    ASSUME Good, OrderInv, UNCHANGED <<up, down, client, sending>>,
           NEW k \in Jobs, NEW n \in 0..MaxSent, job' = Started(k, n), job.at = "none",
           loop' = At("read"), loop.script = <<>>, n <= client.sent, Coming(n),
           ~HasNum(up, Entered, n), sending["loop"].type # "output"
    PROVE  OrderInv'
<1>1. /\ job'.at = "run" /\ job'.n = n /\ job'.chunk = FALSE
      /\ loop'.at = "read" /\ loop'.script = <<>> /\ sending["job"] = Nothing
      /\ Nothing.type = "nothing"
  BY DEF Started, NoJob, At, Good, TypeOK, OrderInv, JobInv, Quiet, Nothing
<1>2. /\ \A m : ~HasNum(loop'.script, {"output", "done"}, m)
      /\ DoneEnds(loop'.script)
  BY <1>1, EmptyHas
<1>3. \A m : ~Held(m)' /\ (Said(m)' <=> Said(m))
  BY <1>1, <1>2 DEF Held, Taking, Said
<1>4. \A m : Coming(m)' => Coming(m)
  BY <1>1, <1>3 DEF Coming
<1>5. SaidInv'
  BY <1>3, <1>4 DEF OrderInv, SaidInv, Ordered
<1>6. NumberInv'
  BY <1>1, <1>3 DEF OrderInv, NumberInv
<1>7. LoopInv' /\ JobInv'
  BY <1>1, <1>2 DEF LoopInv, JobInv, Taking, Quiet
<1>8. QED
  BY <1>5, <1>6, <1>7 DEF OrderInv

LEMMA UpgradedOrder ==
    ASSUME Good, OrderInv, Upgraded
    PROVE  OrderInv'
<1>1. /\ loop.at = "upgrade" /\ loop.script = <<>> /\ UNCHANGED <<up, down, client, sending>>
      /\ job.at = "none" /\ sending["loop"].type # "output" /\ ep' = ep
      /\ loop \in [at : Places, msg : Of(Messages \cup {"nothing"}), script : Seq(Of(Steps))]
  BY DEF Upgraded, Net, OrderInv, LoopInv, Good, TypeOK
<1>2. ASSUME job' = job, loop'.at \in {"upgrade", "read"}, DoneEnds(loop'.script),
             ~Has(loop'.script, {"output", "done"})
      PROVE  OrderInv'
  <2>1. LoopInv'
    BY <1>1, <1>2 DEF OrderInv, LoopInv, Taking
  <2>2. \A n : ~Held(n)'
    BY <1>2, HasNumHas DEF Held, Taking
  <2>3. QED
    BY <1>1, <1>2, <2>1, <2>2, LoopMoves
<1>3. CASE ~sess /\ loop' = [loop EXCEPT !.script = <<Msg("session_invalid", 0), Msg("return", 0)>>]
           /\ job' = job
  <2>1. loop'.at = "upgrade" /\ loop'.script = <<Msg("session_invalid", 0), Msg("return", 0)>>
    BY <1>1, <1>3
  <2>2. QED
    BY <1>2, <1>3, <2>1, SilentScript
<1>4. CASE loop' = [loop EXCEPT !.script = <<Msg("error", 0), Msg("return", 0)>>] /\ job' = job
  <2>1. loop'.at = "upgrade" /\ loop'.script = <<Msg("error", 0), Msg("return", 0)>>
    BY <1>1, <1>4
  <2>2. QED
    BY <1>2, <1>4, <2>1, SilentScript
<1>5. CASE loop' = At("read") /\ job' = job
  <2>1. loop'.at = "read" /\ loop'.script = <<>>
    BY <1>1, <1>5 DEF At
  <2>2. QED
    BY <1>2, <1>5, <2>1, EmptyHas
<1>6. CASE loop' = At("read") /\ ep # "terminal" /\ \E k \in Jobs : job' = Started(k, 0)
  <2>1. 0 \in 0..MaxSent /\ 0 <= client.sent
    BY Typed
  <2>2. Coming(0)
    BY <1>1 DEF Coming
  <2>3. ~HasNum(up, Entered, 0)
    <3>1. up \in Seq(Of({"input"}))
      BY <1>6 DEF Good, SocketInv, WireInv, Sendable
    <3>2. \A i \in 1..Len(up) : up[i].type = "input"
      BY <3>1, ElementOfSeq, OfTypes
    <3>3. QED
      BY <3>2 DEF HasNum, Entered, Builtins, Jobs
  <2>4. QED
    BY <1>1, <1>6, <2>1, <2>2, <2>3, BeginOrder
<1>7. QED
  BY <1>3, <1>4, <1>5, <1>6 DEF Upgraded

LEMMA StartOrder ==
    ASSUME Good, OrderInv, Start
    PROVE  OrderInv'
<1>1. /\ loop.at = "start" /\ UNCHANGED <<up, down, client, sending>> /\ loop' = At("read")
      /\ job' = Started(loop.msg.type, loop.msg.n) /\ job.at = "none"
      /\ loop.msg.type \in Jobs /\ loop.script = <<>> /\ Quiet("loop")
  BY DEF Start, Net, Good, SocketInv, WireInv, SlotInv, OrderInv, LoopInv, Taking
<1>2. Held(loop.msg.n) /\ loop.msg.n \in 0..MaxSent
  BY <1>1, Typed DEF Held, Taking, Entered
<1>3. Coming(loop.msg.n) /\ ~HasNum(up, Entered, loop.msg.n) /\ loop.msg.n <= client.sent
  BY <1>2 DEF Coming, OrderInv, NumberInv
<1>4. sending["loop"].type # "output"
  BY <1>1 DEF Quiet, Nothing
<1>5. QED
  BY <1>1, <1>2, <1>3, <1>4, BeginOrder

\* The steps of the loop that change nothing but the loop.
LEMMA HeldScript ==
    ASSUME OrderInv, UNCHANGED <<up, down, client, job, sending>>, loop.at # "upgrade",
           loop'.at = "read", DoneEnds(loop'.script),
           \A n : HasNum(loop'.script, {"output", "done"}, n) => Held(n)
    PROVE  OrderInv'
<1>1. \A n : Held(n)' => Held(n)
  BY DEF Held, Taking
<1>2. LoopInv'
  BY DEF OrderInv, LoopInv, Taking, Quiet
<1>3. QED
  BY <1>1, <1>2, LoopMoves

LEMMA HeldMessage ==
    ASSUME OrderInv, UNCHANGED <<up, down, client, job, sending>>, loop.at \in Taking,
           loop'.script = loop.script, loop'.msg = loop.msg,
           loop'.at \in {"read", "feed", "interrupt", "admit", "start"}
    PROVE  OrderInv'
<1>1. \A n : Held(n)' => Held(n)
  BY DEF Held, Taking
<1>2. LoopInv'
  BY DEF OrderInv, LoopInv, Taking, Quiet
<1>3. QED
  BY <1>1, <1>2, LoopMoves DEF Taking

LEMMA CheckOrder ==
    ASSUME Good, OrderInv, ReadFails \/ Check \/ Feed \/ Interrupt \/ Admit
    PROVE  OrderInv'
<1>1. /\ UNCHANGED <<up, down, client, job, sending>>
      /\ loop \in [at : Places, msg : Of(Messages \cup {"nothing"}), script : Seq(Of(Steps))]
  BY DEF ReadFails, Check, Feed, Interrupt, Admit, Net, Good, TypeOK
<1>2. ASSUME NEW s, loop' = Then(s) PROVE loop'.at = "read" /\ loop'.script = s
  BY <1>1, <1>2 DEF Then
<1>3. ASSUME NEW at, loop' = At(at)
      PROVE  loop'.at = at /\ loop'.script = loop.script /\ loop'.msg = loop.msg
  BY <1>1, <1>3 DEF At
<1>4. CASE ReadFails
  <2> DEFINE a == IF ep = "terminal" THEN "return" ELSE "cancel"
  <2>1. loop' = Then(<<Msg(a, 0)>>) /\ loop.at # "upgrade"
    BY <1>4 DEF ReadFails, Reading
  <2>2. a \in {"session_invalid", "error", "return", "cancel"}
    OBVIOUS
  <2> HIDE DEF a
  <2>3. DoneEnds(<<Msg(a, 0)>>) /\ ~Has(<<Msg(a, 0)>>, {"output", "done"})
    BY <2>2, SilentScript
  <2>4. QED
    BY <1>1, <1>2, <2>1, <2>3, HasNumHas, HeldScript
<1>5. CASE Check /\ ~sess
  <2> DEFINE a == IF ep = "terminal" THEN "return" ELSE "cancel"
             s == <<Msg("session_invalid", loop.msg.n), Msg(a, 0)>>
  <2>1. loop' = Then(s) /\ loop.at # "upgrade"
    BY <1>5 DEF Check
  <2>2. a \in {"session_invalid", "error", "return", "cancel"}
    OBVIOUS
  <2>3. DoneEnds(s) /\ ~Has(s, {"output", "done"})
    BY <2>2, SilentScript
  <2> HIDE DEF s
  <2>4. QED
    BY <1>1, <1>2, <2>1, <2>3, HasNumHas, HeldScript
<1>6. CASE Check /\ sess
  <2>1. /\ loop' = At(DealtWith) /\ loop.at \in Taking
        /\ DealtWith \in {"read", "feed", "interrupt", "admit", "start"}
    BY <1>6, Endpoint DEF Check, DealtWith, Taking
  <2>2. QED
    BY <1>1, <1>3, <2>1, HeldMessage
<1>7. CASE Feed \/ Interrupt
  <2>1. loop' = At("read") /\ loop.at \in Taking
    BY <1>7 DEF Feed, Interrupt, Taking
  <2>2. QED
    BY <1>1, <1>3, <2>1, HeldMessage
<1>8. CASE Admit
  <2>1. /\ loop.at = "admit" /\ loop.msg.type \in Builtins \cup Jobs /\ Held(loop.msg.n)
        /\ loop.at \in Taking /\ loop.at # "upgrade"
    BY <1>8 DEF Admit, Good, SocketInv, WireInv, Held, Taking, Entered
  <2>2. \/ loop' = Then(Busy(loop.msg.n))
        \/ loop' = At("start")
        \/ loop.msg.type \in Builtins /\ loop' = Then(Script(loop.msg.type, loop.msg.n))
    BY <1>8, <2>1 DEF Admit
  <2>3. CASE loop' = At("start")
    BY <1>1, <1>3, <2>1, <2>3, HeldMessage
  <2>4. ASSUME NEW kind \in Builtins, NEW s, s \in {Busy(loop.msg.n), Script(kind, loop.msg.n)},
               loop' = Then(s)
        PROVE  OrderInv'
    <3>1. DoneEnds(s) /\ \A k : HasNum(s, {"output", "done"}, k) => k = loop.msg.n
      BY <2>4, AnswerScript
    <3>2. loop'.at = "read" /\ loop'.script = s
      BY <1>2, <2>4
    <3>3. QED
      BY <1>1, <2>1, <3>1, <3>2, HeldScript
  <2>5. "refused" \in Builtins
    BY DEF Builtins
  <2>6. QED
    BY <2>2, <2>3, <2>4, <2>5
<1>9. QED
  BY <1>4, <1>5, <1>6, <1>7, <1>8

LEMMA SayOrder ==
    ASSUME Good, OrderInv, Say
    PROVE  OrderInv'
<1>0. PICK m : m = Head(loop.script)
  OBVIOUS
<1>1. /\ UNCHANGED <<up, down, client, job>> /\ loop.script # <<>> /\ Quiet("loop")
      /\ m.type \in Replies /\ sending'["loop"] = m /\ sending'["job"] = sending["job"]
      /\ sending["loop"] = Nothing
      /\ loop'.script = Tail(loop.script) /\ loop'.at = loop.at /\ loop'.msg = loop.msg
      /\ loop.at \notin Taking
  BY <1>0 DEF Say, Rest, Net, Good, TypeOK, Goroutines, Quiet, OrderInv, LoopInv
<1>2. /\ Goroutines = {"loop", "job"} /\ Nothing.type = "nothing" /\ m.n \in 0..MaxSent
      /\ m \in Of(Steps)
  <2>1. m \in Of(Steps)
    BY <1>0, <1>1, Typed, HeadTailProperties
  <2>2. QED
    BY <2>1, OfTypes DEF Goroutines, Nothing
<1>3. /\ DoneEnds(loop'.script)
      /\ m.type = "done" => ~Has(loop'.script, {"output", "done"})
  BY <1>0, <1>1, Typed, TailEnds DEF OrderInv, LoopInv
<1>4. /\ Has(loop.script, {"output", "done"}) <=>
             Has(loop'.script, {"output", "done"}) \/ m.type \in {"output", "done"}
      /\ \A n : HasNum(loop.script, {"output", "done"}, n) <=>
             HasNum(loop'.script, {"output", "done"}, n) \/ (m.type \in {"output", "done"} /\ m.n = n)
  <2>1. /\ Has(loop.script, {"output", "done"}) <=>
               Has(Tail(loop.script), {"output", "done"})
               \/ Head(loop.script).type \in {"output", "done"}
        /\ \A n : HasNum(loop.script, {"output", "done"}, n) <=>
               HasNum(Tail(loop.script), {"output", "done"}, n)
               \/ (Head(loop.script).type \in {"output", "done"} /\ Head(loop.script).n = n)
    BY <1>1, Typed, TailHas
  <2>2. QED
    BY <1>0, <1>1, <2>1
<1>5. \A n : Held(n)' => Held(n)
  BY <1>1, <1>4 DEF Held
<1>6. \A n : Coming(n)' => Coming(n)
  BY <1>1, <1>5 DEF Coming
<1>7. \A n : Said(n)' <=> Said(n) \/ (m.type = "done" /\ m.n = n)
  BY <1>1, <1>2 DEF Said
<1>8. m.type \in {"output", "done"} =>
        /\ Held(m.n) /\ Coming(m.n) /\ ~Said(m.n) /\ m.n <= client.sent
        /\ ~HasNum(up, Entered, m.n) /\ (job.at # "none" => job.n # m.n)
        /\ loop.at # "upgrade"
  <2> HAVE m.type \in {"output", "done"}
  <2>1. Held(m.n) /\ Coming(m.n) /\ loop.at # "upgrade"
    BY <1>4 DEF Held, Coming, OrderInv, LoopInv
  <2>2. QED
    BY <1>2, <2>1 DEF OrderInv, SaidInv, NumberInv
<1>9. m.type = "done" => ~Coming(m.n)'
  <2> HAVE m.type = "done"
  <2>1. ~Held(m.n)'
    BY <1>1, <1>3, HasNumHas DEF Held
  <2>2. client'.sent \in Nat /\ m.n \in Nat
    BY <1>1, <1>2, Typed
  <2>3. QED
    BY <1>1, <1>8, <2>1, <2>2 DEF Coming
<1>10. SaidInv'
  <2>1. Ordered(down')
    BY <1>1 DEF OrderInv, SaidInv
  <2>2. ASSUME NEW n \in 0..MaxSent, Coming(n)' PROVE ~Said(n)'
    BY <1>6, <1>7, <1>9, <2>2 DEF OrderInv, SaidInv
  <2>3. ASSUME sending'["loop"].type = "output" PROVE ~Said(m.n)'
    BY <1>1, <1>7, <1>8, <2>3
  <2>4. ASSUME NEW n, sending'["job"].type = "output", n = sending["job"].n PROVE ~Said(n)'
    <3>1. sending["job"].type = "output" /\ sending["job"].n = job.n /\ job.at \in {"run", "exited"}
      BY <1>1, <2>4 DEF OrderInv, JobInv
    <3>2. ~Said(n)
      BY <1>2, <2>4, <3>1 DEF OrderInv, SaidInv
    <3>3. m.type = "done" => m.n # n
      BY <1>8, <2>4, <3>1
    <3>4. QED
      BY <1>7, <3>2, <3>3
  <2>5. \A n : \A g \in Goroutines : sending'[g].type = "output" /\ n = sending'[g].n => ~Said(n)'
    <3> SUFFICES ASSUME NEW n, NEW g \in Goroutines, sending'[g].type = "output",
                        n = sending'[g].n
                 PROVE  ~Said(n)'
      OBVIOUS
    <3>1. CASE g = "loop"
      BY <1>1, <2>3, <3>1
    <3>2. CASE g = "job"
      BY <1>1, <2>4, <3>2
    <3>3. QED
      BY <1>2, <3>1, <3>2
  <2>6. QED
    BY <2>1, <2>2, <2>5 DEF SaidInv
<1>11. NumberInv'
  BY <1>1, <1>5 DEF OrderInv, NumberInv
<1>12. LoopInv'
  BY <1>1, <1>3, <1>4, <1>8 DEF OrderInv, LoopInv
<1>13. JobInv'
  BY <1>1 DEF OrderInv, JobInv, Quiet
<1>14. QED
  BY <1>10, <1>11, <1>12, <1>13 DEF OrderInv

-----------------------------------------------------------------------------
LEMMA JobOrder ==
    ASSUME Good, OrderInv, JobStep \/ Prints \/ Exit
    PROVE  OrderInv'
<1>1. /\ Goroutines = {"loop", "job"} /\ Nothing.type = "nothing"
      /\ job \in [at : {"none", "run", "exited", "free"}, kind : Jobs, n : 0..MaxSent,
                  chunk : BOOLEAN, outs : 0..MaxOuts]
      /\ sending \in [Goroutines -> Of(Replies \cup {"nothing"})]
  BY DEF Goroutines, Nothing, Good, TypeOK
<1>2. CASE Prints \/ Exit
  <2>1. /\ UNCHANGED <<up, down, client, loop, sending>>
        /\ job.at = "run" /\ job'.at \in {"run", "exited"} /\ job'.n = job.n
    BY <1>1, <1>2 DEF Prints, Exit, Net
  <2>2. \A n : (Held(n)' <=> Held(n)) /\ (Said(n)' <=> Said(n)) /\ (Coming(n)' => Coming(n))
    BY <2>1 DEF Held, Said, Coming
  <2>3. SaidInv'
    BY <2>1, <2>2 DEF OrderInv, SaidInv, Ordered
  <2>4. NumberInv' /\ LoopInv' /\ JobInv'
    BY <2>1, <2>2 DEF OrderInv, NumberInv, LoopInv, JobInv, Quiet
  <2>5. QED
    BY <2>3, <2>4 DEF OrderInv
<1>3. CASE SayOutput
  <2>1. /\ UNCHANGED <<up, down, client, loop>> /\ job.chunk /\ Quiet("job")
        /\ sending' = [sending EXCEPT !["job"] = Msg("output", job.n)]
        /\ job'.at = job.at /\ job'.n = job.n /\ job'.chunk = FALSE
    BY <1>1, <1>3 DEF SayOutput, Net
  <2>2. /\ sending'["job"] = Msg("output", job.n) /\ sending'["loop"] = sending["loop"]
        /\ sending["job"] = Nothing /\ job.at \in {"run", "exited"}
        /\ Msg("output", job.n).type = "output" /\ Msg("output", job.n).n = job.n
        /\ Msg("output", job.n) # Nothing
    BY <1>1, <2>1 DEF Quiet, OrderInv, JobInv, Msg, Nothing
  <2>3. \A n : (Held(n)' <=> Held(n)) /\ (Said(n)' <=> Said(n)) /\ (Coming(n)' <=> Coming(n))
    BY <1>1, <2>1, <2>2 DEF Held, Said, Coming
  <2>4. ~Said(job.n)
    BY <2>2, Typed DEF OrderInv, SaidInv, Coming
  <2>5. \A n : \A g \in Goroutines : sending'[g].type = "output" /\ n = sending'[g].n => ~Said(n)'
    <3> SUFFICES ASSUME NEW n, NEW g \in Goroutines, sending'[g].type = "output",
                        n = sending'[g].n
                 PROVE  ~Said(n)'
      OBVIOUS
    <3>1. CASE g = "loop"
      BY <1>1, <2>2, <2>3, <3>1 DEF OrderInv, SaidInv
    <3>2. CASE g = "job"
      BY <2>2, <2>3, <2>4, <3>2
    <3>3. QED
      BY <1>1, <3>1, <3>2
  <2>6. SaidInv'
    BY <2>1, <2>3, <2>5 DEF OrderInv, SaidInv, Ordered
  <2>7. NumberInv' /\ LoopInv' /\ JobInv'
    BY <2>1, <2>2, <2>3 DEF OrderInv, NumberInv, LoopInv, JobInv, Quiet
  <2>8. QED
    BY <2>6, <2>7 DEF OrderInv
<1>4. CASE Done
  <2>1. /\ UNCHANGED <<up, down, client, loop>> /\ ~job.chunk /\ Quiet("job") /\ job.at = "exited"
        /\ sending' = [sending EXCEPT !["job"] = Msg("done", job.n)]
        /\ job'.at = "free" /\ job'.n = job.n /\ job'.chunk = job.chunk
    BY <1>1, <1>4 DEF Done, Net
  <2>2. /\ sending'["job"] = Msg("done", job.n) /\ sending'["loop"] = sending["loop"]
        /\ sending["job"] = Nothing
        /\ Msg("done", job.n).type = "done" /\ Msg("done", job.n).n = job.n
        /\ Msg("done", job.n) # Nothing
    BY <1>1, <2>1 DEF Quiet, Msg, Nothing
  <2>3. \A n : /\ Held(n)' <=> Held(n)
               /\ Said(n)' <=> Said(n) \/ n = job.n
               /\ Coming(n)' => Coming(n)
    BY <1>1, <2>1, <2>2 DEF Held, Said, Coming
  <2>4. \A n : n = job.n => ~Coming(n)'
    <3>1. /\ loop.at # "upgrade" /\ job.n <= client.sent
          /\ ~HasNum(up, Entered, job.n) /\ ~Held(job.n)
      BY <2>1, Typed DEF OrderInv, LoopInv, NumberInv
    <3>2. ~(job.n > client.sent)
      BY <3>1, Typed
    <3> SUFFICES ASSUME NEW n, n = job.n PROVE ~Coming(n)'
      OBVIOUS
    <3>3. ~Held(n)' /\ ~HasNum(up', Entered, n) /\ ~(n > client'.sent)
      BY <2>1, <2>3, <3>1, <3>2
    <3>4. QED
      BY <2>1, <3>1, <3>3 DEF Coming
  <2>5. \A n : \A g \in Goroutines : sending'[g].type = "output" /\ n = sending'[g].n => ~Said(n)'
    <3> SUFFICES ASSUME NEW n, NEW g \in Goroutines, sending'[g].type = "output",
                        n = sending'[g].n
                 PROVE  ~Said(n)'
      OBVIOUS
    <3>1. g = "loop" /\ sending["loop"].type = "output" /\ n = sending["loop"].n
      BY <1>1, <2>2
    <3>2. ~Said(n) /\ n # job.n
      BY <1>1, <2>1, <3>1 DEF OrderInv, SaidInv, LoopInv
    <3>3. QED
      BY <2>3, <3>2
  <2>6. \A n \in 0..MaxSent : Coming(n)' => ~Said(n)'
    BY <2>3, <2>4 DEF OrderInv, SaidInv
  <2>7. SaidInv'
    BY <2>1, <2>5, <2>6 DEF OrderInv, SaidInv, Ordered
  <2>8. NumberInv' /\ LoopInv' /\ JobInv'
    BY <2>1, <2>2, <2>3 DEF OrderInv, NumberInv, LoopInv, JobInv, Quiet
  <2>9. QED
    BY <2>7, <2>8 DEF OrderInv
<1>5. CASE Free \/ Over
  <2>1. /\ UNCHANGED <<up, down, client, loop, sending>> /\ Quiet("job") /\ job' = NoJob
        /\ job'.at = "none" /\ job'.chunk = FALSE /\ sending["job"] = Nothing
    BY <1>5 DEF Free, Over, Net, NoJob, Quiet
  <2>2. \A n : (Held(n)' <=> Held(n)) /\ (Said(n)' <=> Said(n)) /\ (Coming(n)' => Coming(n))
    BY <2>1 DEF Held, Said, Coming
  <2>3. SaidInv'
    BY <2>1, <2>2 DEF OrderInv, SaidInv, Ordered
  <2>4. NumberInv' /\ LoopInv' /\ JobInv'
    BY <1>1, <2>1, <2>2 DEF OrderInv, NumberInv, LoopInv, JobInv, Quiet
  <2>5. QED
    BY <2>3, <2>4 DEF OrderInv
<1>6. CASE Write("job") \/ Written("job")
  BY <1>1, <1>6, WriteOrder
<1>7. QED
  BY <1>2, <1>3, <1>4, <1>5, <1>6 DEF JobStep

LEMMA InitOrder == Init => OrderInv
<1> SUFFICES ASSUME Init PROVE OrderInv
  OBVIOUS
<1>1. /\ up = <<>> /\ down = <<>> /\ loop.script = <<>> /\ loop.at = "upgrade" /\ job.at = "none"
      /\ job.chunk = FALSE /\ \A g \in Goroutines : sending[g] = Nothing
      /\ Goroutines = {"loop", "job"} /\ Nothing.type = "nothing" /\ 1..Len(<<>>) = {}
  BY DEF Init, NoJob, Nothing, Goroutines
<1>2. \A n : ~HasNum(up, Entered, n) /\ ~Held(n) /\ ~Said(n)
  BY <1>1, EmptyHas DEF Held, Said, Taking
<1>3. SaidInv /\ NumberInv
  BY <1>1, <1>2 DEF SaidInv, NumberInv, Ordered
<1>4. LoopInv /\ JobInv
  BY <1>1, EmptyHas DEF LoopInv, JobInv, Quiet, Taking
<1>5. QED
  BY <1>3, <1>4 DEF OrderInv

LEMMA OrderStep ==
    ASSUME Good, Good', OrderInv, [Next]_vars
    PROVE  OrderInv'
<1>1. CASE SessionEnds \/ UNCHANGED vars
  <2>1. UNCHANGED <<up, down, client, loop, job, sending>>
    BY <1>1 DEF SessionEnds, vars, server
  <2>2. QED
    BY <2>1, ReceiveOrder
<1>2. CASE Finish \/ Return \/ Cancel
  <2>1. /\ UNCHANGED <<up, down, client, job, sending>> /\ loop.script # <<>>
        /\ loop' = Rest \/ loop' = [Rest EXCEPT !.at = "gone"]
    BY <1>2 DEF Finish, Return, Cancel, Due, Net
  <2>2. QED
    BY <2>1, RestOrder
<1>3. CASE LoopStep
  BY <1>2, <1>3, UpgradedOrder, ReadOrder, CheckOrder, StartOrder, SayOrder, WriteOrder
     DEF LoopStep, Goroutines
<1>4. QED
  BY <1>1, <1>3, PageOrder, JobOrder DEF Next

(***************************************************************************)
(* On any connection the done of a command follows the last of its output, *)
(* on the wire and in the goroutine that sends both.                       *)
(***************************************************************************)
THEOREM DoneLast == Spec => []DoneIsLast
<1>1. Good /\ OrderInv => DoneIsLast
  BY DEF OrderInv, SaidInv, Ordered, JobInv, DoneIsLast, Good, TypeOK
<1>2. Init => Good /\ OrderInv
  BY InitSocket, InitOrder
<1>3. Good /\ OrderInv /\ [Next]_vars => (Good /\ OrderInv)'
  <2>1. SUFFICES ASSUME Good, OrderInv, [Next]_vars PROVE Good' /\ OrderInv'
    OBVIOUS
  <2>2. Good'
    BY <2>1, NextSocket
  <2>3. QED
    BY <2>1, <2>2, OrderStep
<1>4. QED
  BY <1>1, <1>2, <1>3, PTL DEF Spec

-----------------------------------------------------------------------------
\* A step that leaves no new wait, and takes no answer away.
LEMMA StaysDue ==
    ASSUME DueInv, Waits' => Waits, AnswerDue => AnswerDue',
           loop'.at = "interrupt" => loop'.msg.type = "int"
    PROVE  DueInv'
BY DEF DueInv

LEMMA PageDue ==
    ASSUME Good, DueInv, User \/ Receive \/ PromptAgain
    PROVE  DueInv'
<1>1. UNCHANGED <<ep, loop, job, sending>> /\ client.sent \in 0..MaxSent
      /\ client \in [running : BOOLEAN, mode : Modes, sent : 0..MaxSent, ints : 0..MaxInts]
  BY DEF Good, TypeOK, User, Receive, PromptAgain, Enter, CtrlC, Input, ExecOpens,
         ExecFails, Leave, Page, server
<1>2. CASE ~Waits'
  BY <1>1, <1>2 DEF DueInv
<1>3. ASSUME NEW kind \in Builtins \cup Jobs, Enter(kind) PROVE DueInv'
  <2>1. client.sent + 1 \in 0..MaxSent /\ kind \in Messages
    BY <1>1, <1>3, Typed DEF Enter, Messages
  <2>2. Msg(kind, client.sent + 1) \in Of(Messages) /\ Msg(kind, client.sent + 1).type \in Entered
    BY <2>1, MsgTypes DEF Entered
  <2>3. Has(Append(up, Msg(kind, client.sent + 1)), Entered)
    BY <2>2, Typed, AppendHas
  <2>4. Has(up', Entered)
    BY <1>3, <2>3 DEF Enter, Sends
  <2>5. QED
    BY <1>1, <2>4 DEF DueInv, AnswerDue
<1>4. CASE CtrlC
  <2>1. Msg("int", client.sent) \in Of(Messages)
    BY <1>1, MsgTypes DEF Messages
  <2>2. Has(up, Entered) => Has(Append(up, Msg("int", client.sent)), Entered)
    BY <2>1, Typed, AppendHas
  <2>3. (Has(up, Entered) => Has(up', Entered)) /\ down' = down /\ conn' = conn
        /\ client'.running = client.running /\ client'.mode = client.mode
    BY <1>1, <1>4, <2>2 DEF CtrlC, Sends
  <2>4. (Waits' => Waits) /\ (AnswerDue => AnswerDue')
    BY <1>1, <2>3 DEF Waits, AnswerDue
  <2>5. QED
    BY <1>1, <2>4, StaysDue DEF DueInv
<1>5. CASE Receive /\ Waits'
  <2>1. down # <<>> /\ down' = Tail(down) /\ up' = up /\ conn' = conn
    BY <1>5 DEF Receive
  <2>2. Head(down).type \notin Ends /\ client' = client
    <3>1. Head(down).type \notin {"done", "error", "edit", "exec_open", "session_invalid"}
      BY <1>1, <1>5 DEF Receive, Waits, Modes
    <3>2. Head(down).type \in Replies
      BY <2>1, Typed, HeadTailProperties, OfTypes
    <3>3. QED
      BY <1>5, <3>1, <3>2 DEF Ends, Replies, Receive
  <2>3. Has(down, Ends) => Has(Tail(down), Ends)
    BY <2>1, <2>2, Typed, TailHas
  <2>4. (Waits' => Waits) /\ (AnswerDue => AnswerDue')
    BY <1>1, <2>1, <2>2, <2>3 DEF Waits, AnswerDue
  <2>5. QED
    BY <1>1, <2>4, StaysDue DEF DueInv
<1>6. CASE (Input \/ PromptAgain \/ ExecOpens \/ ExecFails \/ Leave) /\ Waits'
  BY <1>1, <1>6 DEF Input, PromptAgain, ExecOpens, ExecFails, Leave, Waits
<1>7. QED
  BY <1>2, <1>3, <1>4, <1>5, <1>6 DEF User

LEMMA WriteDue ==
    ASSUME Good, DueInv, NEW g \in Goroutines, Write(g) \/ Written(g)
    PROVE  DueInv'
<1>1. CASE Write(g)
  BY <1>1 DEF Write, DueInv, Waits, AnswerDue
<1>2. CASE Written(g) /\ Waits'
  <2>1. /\ UNCHANGED <<ep, conn, up, client, loop, job>> /\ conn = "open"
        /\ down' = Append(down, sending[g])
        /\ sending \in [Goroutines -> Of(Replies \cup {"nothing"})]
        /\ sending' = [sending EXCEPT ![g] = Nothing]
        /\ sending[g] # Nothing
    BY <1>2 DEF Written, Waits, Good, TypeOK
  <2>2. \A h \in Goroutines : h # g => sending'[h] = sending[h]
    BY <2>1
  <2>3. sending[g] \in Of(Replies)
    <3>1. sending[g].type \in Replies /\ sending[g] \in Of(Replies \cup {"nothing"})
      BY <2>1 DEF Good, SocketInv, WireInv, Quiet
    <3>2. QED
      BY <3>1 DEF Of
  <2>4. Has(Append(down, sending[g]), Ends) <=> Has(down, Ends) \/ sending[g].type \in Ends
    BY <2>3, Typed, AppendHas
  <2>5. (Waits' => Waits) /\ (AnswerDue => AnswerDue')
    BY <2>1, <2>2, <2>4 DEF Waits, AnswerDue
  <2>6. QED
    BY <2>1, <2>5, StaysDue DEF DueInv
<1>3. CASE Written(g) /\ ~Waits'
  BY <1>3 DEF Written, DueInv
<1>4. QED
  BY <1>1, <1>2, <1>3

-----------------------------------------------------------------------------
\* Every script of a command holds the reply that ends the wait.
LEMMA ScriptEnds ==
    ASSUME NEW kind \in Builtins, NEW n, NEW s, s \in {Busy(n), Script(kind, n)}
    PROVE  Has(s, Ends)
<1>1. \/ s = <<Msg("error", n), Msg("done", n)>>
      \/ s = <<Msg("error", n), Msg("finish", n), Msg("done", n)>>
      \/ s = <<Msg("output", n), Msg("finish", n), Msg("done", n)>>
      \/ s = <<Msg("edit", n), Msg("finish", n)>>
      \/ s = <<Msg("exec_open", n), Msg("finish", n)>>
  BY DEF Busy, Script, Builtins
<1>2. {"error", "done", "edit", "exec_open"} \subseteq Ends
  BY DEF Ends
<1>3. CASE s[1].type \in Ends /\ Len(s) \in {2, 3}
  BY <1>3 DEF Has
<1>4. CASE s = <<Msg("output", n), Msg("finish", n), Msg("done", n)>>
  <2>1. s[3].type = "done" /\ Len(s) = 3
    BY <1>4 DEF Msg
  <2>2. QED
    BY <1>2, <2>1 DEF Has
<1>5. CASE s = <<Msg("error", n), Msg("done", n)>>
  <2>1. s[1].type = "error" /\ Len(s) = 2
    BY <1>5 DEF Msg
  <2>2. QED
    BY <1>2, <1>3, <2>1
<1>6. CASE s = <<Msg("error", n), Msg("finish", n), Msg("done", n)>>
  <2>1. s[1].type = "error" /\ Len(s) = 3
    BY <1>6 DEF Msg
  <2>2. QED
    BY <1>2, <1>3, <2>1
<1>7. CASE s = <<Msg("edit", n), Msg("finish", n)>>
  <2>1. s[1].type = "edit" /\ Len(s) = 2
    BY <1>7 DEF Msg
  <2>2. QED
    BY <1>2, <1>3, <2>1
<1>8. CASE s = <<Msg("exec_open", n), Msg("finish", n)>>
  <2>1. s[1].type = "exec_open" /\ Len(s) = 2
    BY <1>8 DEF Msg
  <2>2. QED
    BY <1>2, <1>3, <2>1
<1>9. QED
  BY <1>1, <1>4, <1>5, <1>6, <1>7, <1>8

\* A step of the loop that leaves the wires, the replies and the job alone.
LEMMA LoopDue ==
    ASSUME DueInv, UNCHANGED <<ep, up, down, client, job, sending>>, Waits' => conn = "open",
           loop'.at = "interrupt" => loop'.msg.type = "int",
           (loop.at \in Taking /\ loop.msg.type \in Entered) \/ Has(loop.script, Ends) =>
               (loop'.at \in Taking /\ loop'.msg.type \in Entered) \/ Has(loop'.script, Ends)
    PROVE  DueInv'
<1>1. (Waits' => Waits) /\ (AnswerDue => AnswerDue')
  BY DEF Waits, AnswerDue
<1>2. QED
  BY <1>1, StaysDue

LEMMA UpgradedDue ==
    ASSUME Good, DueInv, Upgraded
    PROVE  DueInv'
<1>1. /\ loop.at = "upgrade" /\ loop.script = <<>>
      /\ UNCHANGED <<ep, up, down, client, conn, sending>>
      /\ loop \in [at : Places, msg : Of(Messages \cup {"nothing"}), script : Seq(Of(Steps))]
  BY DEF Upgraded, Net, Good, TypeOK
<1>2. loop'.at # "interrupt" /\ loop.at \notin Taking /\ ~Has(loop.script, Ends)
  BY <1>1, EmptyHas DEF Upgraded, At, Taking
<1>3. CASE job' = job
  BY <1>1, <1>2, <1>3, LoopDue DEF Waits
<1>4. CASE ep # "terminal"
  BY <1>1, <1>2, <1>4 DEF DueInv, Waits
<1>5. QED
  BY <1>3, <1>4 DEF Upgraded

LEMMA ReadDue ==
    ASSUME Good, DueInv, Read
    PROVE  DueInv'
<1>1. /\ UNCHANGED <<ep, conn, down, client, job, sending>> /\ up # <<>> /\ up' = Tail(up)
      /\ loop.script = <<>> /\ loop.at = "read"
      /\ loop'.at = "check" /\ loop'.script = <<>> /\ loop'.msg = Head(up)
  BY DEF Read, Reading, Good, TypeOK
<1>2. Has(up, Entered) => Has(Tail(up), Entered) \/ Head(up).type \in Entered
  BY <1>1, Typed, TailHas
<1>3. ~Has(loop.script, Ends)
  BY <1>1, EmptyHas
<1>4. (Waits' => Waits) /\ (AnswerDue => AnswerDue')
  BY <1>1, <1>2, <1>3 DEF Waits, AnswerDue, Taking
<1>5. QED
  BY <1>1, <1>4, StaysDue

LEMMA CheckDue ==
    ASSUME Good, OrderInv, DueInv, Check \/ Feed \/ Interrupt \/ Admit
    PROVE  DueInv'
<1>1. /\ UNCHANGED <<ep, up, down, client, job, sending, conn>>
      /\ loop \in [at : Places, msg : Of(Messages \cup {"nothing"}), script : Seq(Of(Steps))]
      /\ loop.at \in Taking
  BY DEF Check, Feed, Interrupt, Admit, Net, Good, TypeOK, Taking
<1>2. ASSUME NEW s, loop' = Then(s) PROVE loop'.at = "read" /\ loop'.script = s
  BY <1>1, <1>2 DEF Then
<1>3. ASSUME NEW at, loop' = At(at)
      PROVE  loop'.at = at /\ loop'.script = loop.script /\ loop'.msg = loop.msg
  BY <1>1, <1>3 DEF At
<1>4. loop.script = <<>> /\ ~Has(loop.script, Ends)
  BY <1>1, EmptyHas DEF OrderInv, LoopInv
<1>5. "int" \notin Entered
  BY DEF Entered, Builtins, Jobs
<1>6. CASE ~Waits'
  <2>1. loop'.at = "interrupt" => loop'.msg.type = "int"
    BY <1>1, <1>6, Endpoint DEF Check, DealtWith, Feed, Interrupt, Admit, Then, At
  <2>2. QED
    BY <1>6, <2>1 DEF DueInv
<1>7. CASE Check /\ ~sess /\ Waits'
  <2> DEFINE a == IF ep = "terminal" THEN "return" ELSE "cancel"
             s == <<Msg("session_invalid", loop.msg.n), Msg(a, 0)>>
  <2>1. loop' = Then(s)
    BY <1>7 DEF Check
  <2>2. s[1].type = "session_invalid" /\ Len(s) = 2
    BY DEF Msg
  <2>3. Has(s, Ends)
    BY <2>2 DEF Has, Ends
  <2> HIDE DEF s
  <2>4. loop'.at = "read" /\ loop'.script = s
    BY <1>2, <2>1
  <2>5. QED
    BY <1>1, <1>7, <2>3, <2>4, LoopDue DEF Waits
<1>8. CASE Check /\ sess /\ Waits'
  <2>1. ep = "terminal"
    BY <1>1, <1>8 DEF Waits
  <2>2. CASE loop.msg.type = "int"
    <3>1. loop' = At("interrupt")
      BY <1>8, <2>1, <2>2 DEF Check, DealtWith
    <3>2. loop'.at = "interrupt" /\ loop'.msg = loop.msg /\ loop'.script = loop.script
      BY <1>3, <3>1
    <3>3. QED
      BY <1>1, <1>4, <1>5, <1>8, <2>2, <3>2, LoopDue DEF Waits
  <2>3. CASE loop.msg.type # "int"
    <3>1. loop' = At("admit")
      BY <1>8, <2>1, <2>3 DEF Check, DealtWith
    <3>2. loop'.at = "admit" /\ loop'.msg = loop.msg /\ loop'.script = loop.script
      BY <1>3, <3>1
    <3>3. QED
      BY <1>1, <1>4, <1>8, <3>2, LoopDue DEF Waits, Taking
  <2>4. QED
    BY <2>2, <2>3
<1>9. CASE Interrupt /\ Waits'
  <2>1. loop' = At("read") /\ loop.msg.type \notin Entered
    BY <1>5, <1>9 DEF Interrupt, DueInv
  <2>2. loop'.at = "read" /\ loop'.msg = loop.msg /\ loop'.script = loop.script
    BY <1>3, <2>1
  <2>3. QED
    BY <1>1, <1>4, <1>9, <2>1, <2>2, LoopDue DEF Waits
<1>10. CASE Admit /\ Waits'
  <2>1. loop.msg.type \in Builtins \cup Jobs
    BY <1>10 DEF Admit, Good, SocketInv, WireInv
  <2>2. \/ loop' = Then(Busy(loop.msg.n))
        \/ loop' = At("start")
        \/ loop.msg.type \in Builtins /\ loop' = Then(Script(loop.msg.type, loop.msg.n))
    BY <1>10, <2>1 DEF Admit
  <2>3. CASE loop' = At("start")
    <3>1. loop'.at = "start" /\ loop'.msg = loop.msg /\ loop'.script = loop.script
      BY <1>3, <2>3
    <3>2. QED
      BY <1>1, <1>4, <1>10, <3>1, LoopDue DEF Waits, Taking
  <2>4. ASSUME NEW kind \in Builtins, NEW s, s \in {Busy(loop.msg.n), Script(kind, loop.msg.n)},
               loop' = Then(s)
        PROVE  DueInv'
    <3>1. Has(s, Ends)
      BY <2>4, ScriptEnds
    <3>2. loop'.at = "read" /\ loop'.script = s
      BY <1>2, <2>4
    <3>3. QED
      BY <1>1, <1>10, <3>1, <3>2, LoopDue DEF Waits
  <2>5. "refused" \in Builtins
    BY DEF Builtins
  <2>6. QED
    BY <2>2, <2>3, <2>4, <2>5
<1>11. ~(Feed /\ Waits')
  BY <1>1 DEF Feed, Waits, Good, SocketInv, WireInv
<1>12. QED
  BY <1>6, <1>7, <1>8, <1>9, <1>10, <1>11

\* The steps of a script.
LEMMA RestDue ==
    ASSUME Good, OrderInv, DueInv, Say \/ Finish \/ Return \/ Cancel
    PROVE  DueInv'
<1>1. /\ UNCHANGED <<ep, up, down, client, job>> /\ loop.script # <<>>
      /\ loop'.script = Tail(loop.script) /\ loop'.msg = loop.msg
      /\ loop'.at \in {loop.at, "gone"} /\ loop.at \notin Taking
      /\ sending'["job"] = sending["job"] /\ sending["loop"] = Nothing
      /\ Goroutines = {"loop", "job"} /\ Nothing.type \notin Ends
  BY DEF Say, Finish, Return, Cancel, Due, Rest, Net, Good, TypeOK, OrderInv, LoopInv, Quiet,
         Goroutines, Nothing, Ends
<1>2. Has(loop.script, Ends) =>
          Has(loop'.script, Ends) \/ Head(loop.script).type \in Ends
  <2>1. Has(loop.script, Ends) <=>
           Has(Tail(loop.script), Ends) \/ Head(loop.script).type \in Ends
    BY <1>1, Typed, TailHas
  <2>2. QED
    BY <1>1, <2>1
<1>3. loop'.at = "interrupt" => loop'.msg.type = "int"
  BY <1>1 DEF DueInv
<1>4. CASE Say
  <2>1. conn' = conn /\ sending'["loop"] = Head(loop.script)
    BY <1>4 DEF Say, Good, TypeOK, Goroutines
  <2>2. (Waits' => Waits) /\ (AnswerDue => AnswerDue')
    BY <1>1, <1>2, <2>1 DEF Waits, AnswerDue
  <2>3. QED
    BY <1>3, <2>2, StaysDue
<1>5. CASE Finish \/ Cancel
  <2>1. conn' = conn /\ sending' = sending /\ Head(loop.script).type \notin Ends
    BY <1>5 DEF Finish, Cancel, Net, Due, Ends
  <2>2. (Waits' => Waits) /\ (AnswerDue => AnswerDue')
    BY <1>1, <1>2, <2>1 DEF Waits, AnswerDue
  <2>3. QED
    BY <1>3, <2>2, StaysDue
<1>6. CASE Return
  <2>1. ~Waits'
    BY <1>6 DEF Return, Shut, Waits
  <2>2. QED
    BY <1>3, <2>1 DEF DueInv
<1>7. QED
  BY <1>4, <1>5, <1>6

LEMMA StartDue ==
    ASSUME Good, DueInv, Start \/ ReadFails
    PROVE  DueInv'
<1>1. loop \in [at : Places, msg : Of(Messages \cup {"nothing"}), script : Seq(Of(Steps))]
      /\ conn' = conn
  BY DEF Start, ReadFails, Good, TypeOK
<1>2. CASE Start
  <2>1. job'.at = "run" /\ loop'.at = "read"
    BY <1>1, <1>2 DEF Start, Started, NoJob, At
  <2>2. QED
    BY <2>1 DEF DueInv, AnswerDue
<1>3. CASE ReadFails
  <2>1. ~Waits' /\ loop'.at = "read"
    BY <1>1, <1>3 DEF ReadFails, Waits, Then
  <2>2. QED
    BY <2>1 DEF DueInv
<1>4. QED
  BY <1>2, <1>3

LEMMA JobDue ==
    ASSUME Good, DueInv, SayOutput \/ Done \/ Free \/ Over \/ Prints \/ Exit
    PROVE  DueInv'
<1>1. /\ UNCHANGED <<ep, up, down, client, loop>> /\ Goroutines = {"loop", "job"}
      /\ job \in [at : {"none", "run", "exited", "free"}, kind : Jobs, n : 0..MaxSent,
                  chunk : BOOLEAN, outs : 0..MaxOuts]
      /\ sending \in [Goroutines -> Of(Replies \cup {"nothing"})]
      /\ Nothing.type \notin Ends
  BY DEF SayOutput, Done, Free, Over, Prints, Exit, Net, Goroutines, Good, TypeOK, Nothing, Ends
<1>2. sending'["loop"] = sending["loop"]
  BY <1>1 DEF SayOutput, Done, Free, Over, Prints, Exit
<1>3. sending["job"].type \in Ends => sending'["job"].type \in Ends
  BY <1>1 DEF SayOutput, Done, Free, Over, Prints, Exit, Quiet
<1>4. job.at \in {"run", "exited"} =>
          job'.at \in {"run", "exited"} \/ sending'["job"].type \in Ends
  <2>1. CASE SayOutput \/ Prints \/ Exit
    BY <1>1, <2>1 DEF SayOutput, Prints, Exit
  <2>2. CASE Done
    <3>1. sending'["job"] = Msg("done", job.n)
      BY <1>1, <2>2 DEF Done
    <3>2. QED
      BY <3>1 DEF Msg, Ends
  <2>3. CASE Free \/ Over
    BY <2>3 DEF Free, Over
  <2>4. QED
    BY <2>1, <2>2, <2>3
<1>5. AnswerDue => AnswerDue'
  BY <1>1, <1>2, <1>3, <1>4 DEF AnswerDue
<1>6. Waits' => Waits
  BY <1>1 DEF Waits, SayOutput, Done, Free, Over, Prints, Exit, Shut
<1>7. QED
  BY <1>1, <1>5, <1>6, StaysDue DEF DueInv

LEMMA DueStep ==
    ASSUME Good, OrderInv, DueInv, [Next]_vars
    PROVE  DueInv'
<1>1. CASE SessionEnds \/ UNCHANGED vars
  BY <1>1 DEF SessionEnds, vars, server, DueInv, Waits, AnswerDue
<1>2. CASE LoopStep
  BY <1>2, UpgradedDue, ReadDue, StartDue, CheckDue, RestDue, WriteDue DEF LoopStep, Goroutines
<1>3. CASE JobStep \/ Prints \/ Exit
  BY <1>3, JobDue, WriteDue DEF JobStep, Goroutines
<1>4. QED
  BY <1>1, <1>2, <1>3, PageDue DEF Next

(***************************************************************************)
(* No answer gets lost, for any number of commands and interrupts: when    *)
(* nothing is under way and the server waits for input, so does the page,  *)
(* unless the shell of /ws/exec took the keyboard away.                    *)
(***************************************************************************)
THEOREM NoAnswerLost == Spec => []NothingLost
<1>1. ASSUME Good, OrderInv, DueInv PROVE NothingLost
  <2>1. SUFFICES ASSUME Waits, up = <<>>, down = <<>>, Reading, job.at = "none" PROVE FALSE
    BY DEF NothingLost, Waits, Good, TypeOK
  <2>2. \A g \in Goroutines : sending[g] = Nothing
    BY <1>1, <2>1 DEF Reading, OrderInv, JobInv, Quiet, Goroutines
  <2>3. Nothing.type \notin Ends
    BY DEF Nothing, Ends
  <2>4. ~Has(up, Entered) /\ ~Has(down, Ends) /\ ~Has(loop.script, Ends)
    BY <2>1, EmptyHas DEF Reading
  <2>5. QED
    BY <1>1, <2>1, <2>2, <2>3, <2>4 DEF DueInv, AnswerDue, Reading, Taking
<1>2. Init => Good /\ OrderInv /\ DueInv
  <2>1. Init => DueInv
    BY DEF Init, DueInv, Waits
  <2>2. QED
    BY <2>1, InitSocket, InitOrder
<1>3. Good /\ OrderInv /\ DueInv /\ [Next]_vars => (Good /\ OrderInv /\ DueInv)'
  <2>1. SUFFICES ASSUME Good, OrderInv, DueInv, [Next]_vars
                 PROVE  Good' /\ OrderInv' /\ DueInv'
    OBVIOUS
  <2>2. Good'
    BY <2>1, NextSocket
  <2>3. QED
    BY <2>1, <2>2, OrderStep, DueStep
<1>4. QED
  BY <1>1, <1>2, <1>3, PTL DEF Spec

-----------------------------------------------------------------------------
(***************************************************************************)
(* Who can go on, and when nobody can.                                      *)
(***************************************************************************)
\* The write of a goroutine: it waits for the mutex, then for the network, which
\* no longer matters once the connection is closed.
CanWrite(g) ==
    /\ ~Quiet(g)
    /\ IF g \in writers THEN conn = "open" => Len(down) < Cap ELSE Bare(g) \/ MutexFree

LoopCan ==
    \/ loop.at = "upgrade" /\ loop.script = <<>>
    \/ Reading /\ (conn = "open" => up # <<>>)
    \/ loop.at = "check"
    \/ loop.at = "feed" /\ job.at # "run"
    \/ loop.at \in {"interrupt", "admit", "start"} /\ MutexFree
    \/ /\ loop.script # <<>> /\ Quiet("loop")
       /\ Head(loop.script).type = "finish" => MutexFree
    \/ CanWrite("loop")

\* A subprocess that has been killed exits.
JobCan ==
    \/ job.at = "run" /\ killed
    \/ job.chunk /\ Quiet("job")
    \/ job.at = "exited" /\ ~job.chunk /\ Quiet("job")
    \/ job.at = "free" /\ Quiet("job") /\ (ep = "terminal" => MutexFree)
    \/ CanWrite("job")

\* The page reads what has arrived, and is left after it was told to log in.
PageCan == IF client.mode = "gone" THEN conn = "open" ELSE down # <<>>

\* What is then to be found: the loop waits for a message, at most beside a
\* subprocess that nobody has interrupted; or the connection and all is over; or
\* the loop of /ws/exec waits for its subprocess to read.
AtRest ==
    /\ \A g \in Goroutines : Quiet(g)
    /\ client.mode # "gone" => down = <<>>
    /\ loop.script = <<>>
    /\ job.at = "none" \/ (job.at = "run" /\ ~job.chunk /\ ~killed)
    /\ \/ loop.at = "read" /\ conn = "open" /\ up = <<>>
       \/ loop.at = "gone" /\ conn # "open" /\ job.at = "none"
       \/ Feeding /\ ep = "exec"

\* Somebody can go on, or all are at rest.
NobodyHangs == LoopCan \/ JobCan \/ PageCan \/ AtRest

\* The last thing a loop does ends the subprocess; /ws/logs and /ws/exec are shut
\* when theirs is over.
GoneInv ==
    /\ \A i \in 1..Len(loop.script) :
          /\ loop.script[i].type \in {"return", "cancel"} => i = Len(loop.script)
          /\ loop.script[i].type = "cancel" => ep # "terminal" /\ loop.at # "upgrade"
    /\ loop.at = "gone" =>
          /\ loop.script = <<>> /\ Quiet("loop") /\ (killed \/ job.at = "none")
          /\ conn = "open" => ep # "terminal"
    /\ ep # "terminal" /\ conn = "open" /\ loop.at # "upgrade" => job.at # "none"

Steady(s) == \A i \in 1..Len(s) : s[i].type \notin {"return", "cancel"}
EndsWell(s) == \A i \in 1..Len(s) : s[i].type \in {"return", "cancel"} => i = Len(s)

LEMMA SteadyScripts ==
    ASSUME NEW n \in 0..MaxSent
    PROVE  /\ \A kind \in Builtins : Steady(Script(kind, n))
           /\ Steady(Busy(n)) /\ Steady(<<>>)
<1>1. \A t \in Steps : Msg(t, n).type = t
  BY MsgTypes
<1>2. /\ {"error", "finish", "done", "output", "edit", "exec_open"} \subseteq Steps
  BY DEF Steps, Replies
<1>3. ASSUME NEW kind \in Builtins PROVE Steady(Script(kind, n))
  <2>1. CASE kind \in {"refused", "builtin"}
    <3>1. PICK t \in {"error", "output"} :
             Script(kind, n) = <<Msg(t, n), Msg("finish", n), Msg("done", n)>>
      BY <2>1 DEF Script
    <3>2. QED
      BY <1>1, <1>2, <3>1 DEF Steady
  <2>2. CASE kind \in {"edit", "open"}
    <3>1. PICK t \in {"edit", "exec_open"} : Script(kind, n) = <<Msg(t, n), Msg("finish", n)>>
      BY <2>2 DEF Script
    <3>2. QED
      BY <1>1, <1>2, <3>1 DEF Steady
  <2>3. QED
    BY <2>1, <2>2 DEF Builtins
<1>4. Steady(Busy(n))
  <2>1. Busy(n) = <<Msg("error", n), Msg("done", n)>>
    BY DEF Busy
  <2>2. QED
    BY <1>1, <1>2, <2>1 DEF Steady
<1>5. Steady(<<>>)
  <2>1. 1..Len(<<>>) = {}
    OBVIOUS
  <2>2. QED
    BY <2>1 DEF Steady
<1>6. QED
  BY <1>3, <1>4, <1>5

LEMMA EndingScripts ==
    ASSUME NEW n, NEW m, NEW a \in {"session_invalid", "error"}, NEW b \in {"return", "cancel"}
    PROVE  /\ EndsWell(<<Msg(b, m)>>) /\ EndsWell(<<Msg(a, n), Msg(b, m)>>)
           /\ \A i \in 1..Len(<<Msg(b, m)>>) : <<Msg(b, m)>>[i].type = "cancel" => b = "cancel"
           /\ \A i \in 1..Len(<<Msg(a, n), Msg(b, m)>>) :
                 <<Msg(a, n), Msg(b, m)>>[i].type = "cancel" => b = "cancel"
<1>1. Msg(a, n).type = a /\ Msg(b, m).type = b
  BY DEF Msg
<1>2. QED
  BY <1>1 DEF EndsWell

-----------------------------------------------------------------------------
\* A step that leaves the loop where it is.
LEMMA GoneStays ==
    ASSUME GoneInv, ep' = ep, loop' = loop,
           loop.at = "gone" => sending'["loop"] = Nothing /\ (killed' \/ job'.at = "none"),
           conn' = "open" => conn = "open",
           ep # "terminal" /\ conn' = "open" /\ loop.at # "upgrade" => job'.at # "none"
    PROVE  GoneInv'
BY DEF GoneInv, Quiet

\* A step of the loop that is not its last.
LEMMA GoesOn ==
    ASSUME GoneInv, UNCHANGED <<ep, conn>>, loop'.at # "gone", EndsWell(loop'.script),
           \A i \in 1..Len(loop'.script) :
              loop'.script[i].type = "cancel" => ep # "terminal" /\ loop'.at # "upgrade",
           ep # "terminal" /\ loop'.at # "upgrade" =>
              job'.at # "none" \/ (job' = job /\ loop.at # "upgrade")
    PROVE  GoneInv'
BY DEF GoneInv, EndsWell

LEMMA LoopGone == Good /\ GoneInv /\ LoopStep => GoneInv'
<1> SUFFICES ASSUME Good, GoneInv, LoopStep PROVE GoneInv'
  OBVIOUS
<1>1. /\ loop \in [at : Places, msg : Of(Messages \cup {"nothing"}), script : Seq(Of(Steps))]
      /\ sending \in [Goroutines -> Of(Replies \cup {"nothing"})]
      /\ 0 \in 0..MaxSent /\ loop.msg.n \in 0..MaxSent
  BY Numbers DEF Good, TypeOK
<1>2. EndsWell(loop.script)
  BY DEF GoneInv, EndsWell
<1>3. \A s : Steady(s) => EndsWell(s) /\ \A i \in 1..Len(s) : s[i].type # "cancel"
  BY DEF Steady, EndsWell
<1>4. CASE Upgraded
  <2>1. UNCHANGED <<ep, conn>>
    BY <1>4 DEF Upgraded, Net
  <2>2. ASSUME NEW a \in {"session_invalid", "error"},
               loop' = [loop EXCEPT !.script = <<Msg(a, 0), Msg("return", 0)>>]
        PROVE  GoneInv'
    <3>1. loop'.at = "upgrade" /\ loop'.script = <<Msg(a, 0), Msg("return", 0)>>
      BY <1>1, <1>4, <2>2 DEF Upgraded
    <3>2. /\ EndsWell(loop'.script)
          /\ \A i \in 1..Len(loop'.script) : loop'.script[i].type # "cancel"
      BY <3>1, EndingScripts
    <3>3. QED
      BY <2>1, <3>1, <3>2, GoesOn
  <2>3. CASE loop' = At("read") /\ (ep # "terminal" => \E k \in Jobs : job' = Started(k, 0))
    <3>1. loop'.at = "read" /\ loop'.script = <<>>
      BY <1>1, <1>4, <2>3 DEF Upgraded, At
    <3>2. ep # "terminal" => job'.at # "none"
      BY <2>3 DEF Started, NoJob
    <3>3. QED
      BY <1>1, <1>3, <2>1, <3>1, <3>2, SteadyScripts, GoesOn
  <2>4. QED
    BY <1>4, <2>2, <2>3 DEF Upgraded
<1>5. ASSUME NEW at \in {"check", "read", "feed", "interrupt", "admit"}, loop.at # "upgrade",
             loop'.at = at, loop'.script = loop.script, UNCHANGED <<ep, conn, job>>
      PROVE  GoneInv'
  BY <1>2, <1>5, GoesOn DEF GoneInv
<1>6. CASE Read \/ Feed \/ Interrupt
  BY <1>1, <1>5, <1>6 DEF Read, Reading, Feed, Interrupt, At, Net
<1>7. ASSUME UNCHANGED <<ep, conn, job>>, loop.at # "upgrade", NEW n, NEW m,
             NEW b \in {"return", "cancel"}, b = "cancel" => ep # "terminal",
             loop' = Then(<<Msg(b, m)>>) \/ loop' = Then(<<Msg("session_invalid", n), Msg(b, m)>>)
      PROVE  GoneInv'
  <2>1. /\ loop'.at = "read"
        /\ loop'.script = <<Msg(b, m)>> \/ loop'.script = <<Msg("session_invalid", n), Msg(b, m)>>
    BY <1>1, <1>7 DEF Then
  <2>2. QED
    BY <1>7, <2>1, EndingScripts, GoesOn
<1>8. CASE ReadFails
  <2>1. PICK b \in {"return", "cancel"} :
           (b = "cancel" => ep # "terminal") /\ loop' = Then(<<Msg(b, 0)>>)
    BY <1>8 DEF ReadFails
  <2>2. UNCHANGED <<ep, conn, job>> /\ loop.at # "upgrade"
    BY <1>8 DEF ReadFails, Reading, Net
  <2>3. QED
    BY <1>7, <2>1, <2>2
<1>9. CASE Check
  <2>1. UNCHANGED <<ep, conn, job>> /\ loop.at = "check"
    BY <1>9 DEF Check, Net
  <2>2. CASE sess
    <3>1. DealtWith \in {"read", "feed", "interrupt", "admit"}
      BY Endpoint DEF DealtWith
    <3>2. QED
      BY <1>1, <1>5, <1>9, <2>1, <2>2, <3>1 DEF Check, At
  <2>3. CASE ~sess
    <3>1. PICK b \in {"return", "cancel"} :
             /\ b = "cancel" => ep # "terminal"
             /\ loop' = Then(<<Msg("session_invalid", loop.msg.n), Msg(b, 0)>>)
      BY <1>9, <2>3 DEF Check
    <3>2. QED
      BY <1>7, <2>1, <3>1
  <2>4. QED
    BY <2>2, <2>3
<1>10. CASE Admit
  <2>1. UNCHANGED <<ep, conn, job>> /\ loop.at = "admit" /\ ep = "terminal"
    BY <1>10 DEF Admit, Net, Good, SocketInv, WireInv
  <2>2. \/ loop' = At("start")
        \/ \E s : loop' = Then(s) /\ Steady(s)
    <3>1. loop.msg.type \in Builtins \cup Jobs
      BY <2>1 DEF Good, SocketInv, WireInv
    <3>2. QED
      BY <1>1, <1>10, <3>1, SteadyScripts DEF Admit
  <2>3. loop'.at \in {"start", "read"} /\ EndsWell(loop'.script)
    BY <1>1, <1>2, <1>3, <2>2 DEF At, Then
  <2>4. \A i \in 1..Len(loop'.script) : loop'.script[i].type # "cancel"
    BY <1>1, <1>3, <2>1, <2>2 DEF At, Then, GoneInv
  <2>5. QED
    BY <2>1, <2>3, <2>4, GoesOn
<1>11. CASE Start
  <2>1. UNCHANGED <<ep, conn>> /\ ep = "terminal"
    BY <1>11 DEF Start, Net, Good, SocketInv, WireInv
  <2>2. loop'.at = "read" /\ loop'.script = loop.script
    BY <1>1, <1>11 DEF Start, At
  <2>3. QED
    BY <1>2, <2>1, <2>2, GoesOn DEF GoneInv
<1>12. ASSUME loop.script # <<>>, NEW at \in Places, loop' = [Rest EXCEPT !.at = at]
       PROVE  /\ loop'.at = at /\ EndsWell(loop'.script)
              /\ \A i \in 1..Len(loop'.script) : loop'.script[i].type = "cancel" =>
                    ep # "terminal" /\ loop.at # "upgrade"
              /\ Head(loop.script).type \in {"return", "cancel"} => loop'.script = <<>>
              /\ Head(loop.script).type = "cancel" => ep # "terminal" /\ loop.at # "upgrade"
  <2>1. /\ loop'.at = at /\ loop'.script = Tail(loop.script)
        /\ Len(loop.script) \in Nat \ {0} /\ Len(Tail(loop.script)) = Len(loop.script) - 1
        /\ Tail(loop.script) \in Seq(Of(Steps))
    BY <1>1, <1>12, HeadTailProperties, EmptySeq DEF Rest
  <2>2. /\ 1 \in 1..Len(loop.script) /\ Head(loop.script) = loop.script[1]
        /\ \A i \in 1..Len(loop'.script) :
              i + 1 \in 1..Len(loop.script) /\ loop'.script[i] = loop.script[i + 1]
    BY <1>12, OneStep
  <2>3. EndsWell(loop'.script)
    BY <1>2, <2>1, <2>2 DEF EndsWell
  <2>4. \A i \in 1..Len(loop'.script) : loop'.script[i].type = "cancel" =>
            ep # "terminal" /\ loop.at # "upgrade"
    BY <2>2 DEF GoneInv
  <2>5. ASSUME Head(loop.script).type \in {"return", "cancel"} PROVE loop'.script = <<>>
    <3>1. Len(loop.script) = 1
      BY <1>2, <2>2, <2>5 DEF EndsWell
    <3>2. Len(Tail(loop.script)) = 0
      BY <2>1, <3>1
    <3>3. QED
      BY <2>1, <3>2, EmptySeq
  <2>6. QED
    BY <2>1, <2>2, <2>3, <2>4, <2>5 DEF GoneInv
<1>13. Rest = [Rest EXCEPT !.at = loop.at]
  BY <1>1 DEF Rest
<1>14. CASE Say \/ Finish
  <2>1. loop.script # <<>> /\ loop' = [Rest EXCEPT !.at = loop.at] /\ UNCHANGED <<ep, conn, job>>
    BY <1>13, <1>14 DEF Say, Finish, Due, Net
  <2>2. loop.at \in Places /\ loop.at # "gone"
    BY <1>1, <2>1 DEF GoneInv
  <2>3. QED
    BY <1>12, <2>1, <2>2, GoesOn
<1>15. CASE Return
  <2>1. /\ loop.script # <<>> /\ loop' = [Rest EXCEPT !.at = "gone"] /\ ep' = ep /\ killed'
        /\ Head(loop.script).type = "return" /\ conn' # "open" /\ sending'["loop"] = Nothing
    BY <1>15 DEF Return, Due, Net, Shut, Quiet
  <2>2. loop'.at = "gone" /\ loop'.script = <<>>
    BY <1>12, <2>1 DEF Places
  <2>3. QED
    BY <2>1, <2>2 DEF GoneInv, Quiet
<1>16. CASE Cancel
  <2>1. /\ loop.script # <<>> /\ loop' = [Rest EXCEPT !.at = "gone"] /\ killed'
        /\ UNCHANGED <<ep, conn, job>>
        /\ Head(loop.script).type = "cancel" /\ sending'["loop"] = Nothing
    BY <1>16 DEF Cancel, Due, Net, Quiet
  <2>2. loop'.at = "gone" /\ loop'.script = <<>> /\ ep # "terminal" /\ loop.at # "upgrade"
    BY <1>12, <2>1 DEF Places
  <2>3. QED
    BY <2>1, <2>2 DEF GoneInv, Quiet
<1>17. CASE Write("loop") \/ Written("loop")
  <2>1. UNCHANGED <<ep, conn, loop, killed, job>>
    BY <1>17 DEF Write, Written
  <2>2. sending["loop"] = Nothing => sending'["loop"] = Nothing
    BY <1>1, <1>17 DEF Write, Written, Goroutines
  <2>3. QED
    BY <2>1, <2>2, GoneStays DEF GoneInv, Quiet
<1>18. QED
  BY <1>4, <1>6, <1>8, <1>9, <1>10, <1>11, <1>14, <1>15, <1>16, <1>17 DEF LoopStep

LEMMA GoneStep == Good /\ GoneInv /\ [Next]_vars => GoneInv'
<1> SUFFICES ASSUME Good, GoneInv, [Next]_vars PROVE GoneInv'
  OBVIOUS
<1>1. CASE LoopStep
  BY <1>1, LoopGone
<1>2. /\ sending \in [Goroutines -> Of(Replies \cup {"nothing"})]
      /\ job \in [at : {"none", "run", "exited", "free"}, kind : Jobs, n : 0..MaxSent,
                  chunk : BOOLEAN, outs : 0..MaxOuts]
  BY DEF Good, TypeOK
<1>3. ASSUME UNCHANGED <<ep, loop, killed, job, sending>>, conn' = "open" => conn = "open"
      PROVE  GoneInv'
  BY <1>3, GoneStays DEF GoneInv, Quiet
<1>4. CASE Receive \/ PromptAgain \/ User
  <2>1. UNCHANGED <<ep, server>> /\ (conn' = "open" => conn = "open")
    BY <1>4 DEF Receive, PromptAgain, User, Enter, CtrlC, Input, ExecOpens, ExecFails, Leave,
                Page, Sends
  <2>2. QED
    BY <1>3, <2>1 DEF server
<1>5. CASE SessionEnds \/ UNCHANGED vars
  BY <1>3, <1>5 DEF SessionEnds, vars, server
<1>6. CASE Prints \/ Exit \/ SayOutput \/ Done
  <2>1. UNCHANGED <<ep, conn, loop, killed>>
    BY <1>6 DEF Prints, Exit, SayOutput, Done, Net
  <2>2. (job'.at # "none" /\ job.at # "none") \/ job'.at = job.at
    BY <1>2, <1>6 DEF Prints, Exit, SayOutput, Done
  <2>3. sending'["loop"] = sending["loop"]
    BY <1>2, <1>6 DEF Prints, Exit, SayOutput, Done, Goroutines
  <2>4. QED
    BY <2>1, <2>2, <2>3, GoneStays DEF GoneInv, Quiet
<1>7. CASE Free \/ Over
  <2>1. /\ UNCHANGED <<ep, loop, sending>> /\ job'.at = "none"
        /\ conn' = "open" => conn = "open" /\ ep = "terminal"
    BY <1>7 DEF Free, Over, Net, Shut, NoJob
  <2>2. QED
    BY <2>1, GoneStays DEF GoneInv, Quiet
<1>8. CASE Write("job") \/ Written("job")
  <2>1. UNCHANGED <<ep, conn, loop, killed, job>>
    BY <1>8 DEF Write, Written
  <2>2. sending'["loop"] = sending["loop"]
    BY <1>2, <1>8 DEF Write, Written, Goroutines
  <2>3. QED
    BY <2>1, <2>2, GoneStays DEF GoneInv, Quiet
<1>9. QED
  BY <1>1, <1>4, <1>5, <1>6, <1>7, <1>8 DEF Next, JobStep

(***************************************************************************)
(* The safety half of InterruptEnds and NoOrphans.  The mutex, the command *)
(* slot, the network and the goroutines of a connection cannot all wait    *)
(* for each other: as long as the page reads what arrives, somebody can go *)
(* on until the loop waits for a message, with nothing under way and at    *)
(* most a subprocess that nobody has killed, or the connection is closed,  *)
(* and then both goroutines are gone and no subprocess is left.  The one   *)
(* exception: on /ws/exec the loop may be left waiting for its subprocess  *)
(* to read its input, and then it does not see that the page has gone.     *)
(***************************************************************************)
THEOREM ConnectionsDoNotHang == Spec => []NobodyHangs
<1>1. Init => GoneInv
  <2> SUFFICES ASSUME Init PROVE GoneInv
    OBVIOUS
  <2>1. 1..Len(loop.script) = {}
    BY DEF Init
  <2>2. QED
    BY <2>1 DEF Init, GoneInv
<1>2. Good /\ GoneInv => NobodyHangs
  <2> SUFFICES ASSUME Good, GoneInv, ~LoopCan, ~JobCan, ~PageCan PROVE AtRest
    BY DEF NobodyHangs
  <2>1. /\ down \in Seq(Of(Replies)) /\ Cap \in Nat \ {0}
        /\ writers \subseteq {g \in Goroutines : sending[g] # Nothing}
        /\ loop.at \in Places /\ loop.script \in Seq(Of(Steps))
        /\ job.at \in {"none", "run", "exited", "free"} /\ job.chunk \in BOOLEAN
        /\ conn \in {"open", "left", "shut"}
    BY SocketsAssumption DEF Good, TypeOK
  <2>2. \A g \in Goroutines : ~CanWrite(g)
    BY DEF LoopCan, JobCan, Goroutines
  <2>3. ASSUME NEW g \in Goroutines, g \in writers PROVE FALSE
    <3>1. ~Quiet(g)
      BY <2>1, <2>3 DEF Quiet
    <3>2. conn = "open" /\ ~(Len(down) < Cap)
      BY <2>2, <2>3, <3>1 DEF CanWrite
    <3>3. down # <<>>
      BY <2>1, <3>2
    <3>4. QED
      BY <3>2, <3>3 DEF PageCan
  <2>4. writers = {} /\ MutexFree
    BY <2>1, <2>3 DEF MutexFree
  <2>5. \A g \in Goroutines : Quiet(g)
    BY <2>2, <2>4 DEF CanWrite
  <2>6. Quiet("loop") /\ Quiet("job")
    BY <2>5 DEF Goroutines
  <2>7. loop.script = <<>> /\ (loop.at \in {"read", "gone"} \/ Feeding)
    BY <2>1, <2>4, <2>6 DEF LoopCan, Places, Feeding
  <2>8. ~job.chunk /\ (job.at = "none" \/ (job.at = "run" /\ ~killed))
    BY <2>1, <2>4, <2>6 DEF JobCan
  <2>9. loop.at = "gone" => job.at = "none" /\ conn # "open"
    BY <2>8 DEF GoneInv
  <2>10. loop.at = "read" => conn = "open" /\ up = <<>>
    BY <2>6, <2>7 DEF LoopCan, Reading
  <2>11. client.mode # "gone" => down = <<>>
    BY DEF PageCan
  <2>12. Feeding => ep = "exec"
    BY DEF Feeding, Good, SocketInv, WireInv
  <2>13. QED
    BY <2>5, <2>7, <2>8, <2>9, <2>10, <2>11, <2>12 DEF AtRest
<1>3. QED
  BY <1>1, <1>2, GoneStep, InitSocket, NextSocket, PTL DEF Spec

(***************************************************************************)
(* handleTerminalWS: an interrupt that has been read ends the subprocess   *)
(* there is, whatever command it was meant for; only if there is none it   *)
(* does nothing.                                                           *)
(***************************************************************************)
InterruptsHit ==
    [][loop.at = "interrupt" /\ loop'.at # "interrupt" => job'.at = "none" \/ killed']_vars

THEOREM InterruptsKill == Spec => InterruptsHit
<1>1. ASSUME Good, Next, loop.at = "interrupt", loop'.at # "interrupt"
      PROVE  job'.at = "none" \/ killed'
  <2>1. loop' # loop
    BY <1>1
  <2>2. LoopStep
    BY <1>1, <2>1 DEF Next, JobStep, SayOutput, Done, Free, Over, Write, Written, Prints, Exit,
              Receive, PromptAgain, User, Enter, CtrlC, Input, ExecOpens, ExecFails, Leave,
              SessionEnds, Page, server
  <2>3. loop \in [at : Places, msg : Of(Messages \cup {"nothing"}), script : Seq(Of(Steps))]
    BY <1>1 DEF Good, TypeOK
  <2>4. CASE Say \/ Finish \/ Write("loop") \/ Written("loop")
    BY <1>1, <2>3, <2>4 DEF Say, Finish, Rest, Write, Written
  <2>5. CASE Upgraded \/ Read \/ ReadFails \/ Check \/ Feed \/ Admit \/ Start
    BY <1>1, <2>5 DEF Upgraded, Read, ReadFails, Reading, Check, Feed, Admit, Start
  <2>6. CASE Return \/ Cancel
    BY <2>6 DEF Return, Cancel
  <2>7. CASE Interrupt
    <3>1. cancel <=> job.at # "none"
      BY <1>1 DEF Good, SocketInv, WireInv, SlotInv, SlotHeld
    <3>2. QED
      BY <2>7, <3>1 DEF Interrupt
  <2>8. QED
    BY <2>2, <2>4, <2>5, <2>6, <2>7 DEF LoopStep
<1>2. Good /\ [Next]_vars =>
         [loop.at = "interrupt" /\ loop'.at # "interrupt" => job'.at = "none" \/ killed']_vars
  BY <1>1
<1>3. QED
  BY <1>2, SocketInvariant, PTL DEF Spec, InterruptsHit
=============================================================================
