----------------------------- MODULE WebSockets -----------------------------
(***************************************************************************)
(* One websocket connection of `containerctl serve`: /ws/terminal,         *)
(* /ws/logs or /ws/exec (internal/web/terminal.go), with the browser page  *)
(* at its other end (assets/terminal.html).  On the server two goroutines  *)
(* work: "loop" reads what the client sends, "job" runs a subprocess and   *)
(* sends what it prints.  They share the command slot and its cancel       *)
(* function, and the mutex mu under which both write to the connection.    *)
(***************************************************************************)
EXTENDS Naturals, Sequences, FiniteSets

CONSTANTS Endpoints,   \* the endpoints to look at
          MaxSent, MaxInts, MaxOuts,  \* bounds: commands, interrupts, chunks of a job
          Cap          \* replies the network holds before a write blocks

Builtins == {"refused", "builtin", "edit", "open"}
Jobs     == {"job", "follow"}   \* "follow" may go on until it is killed
Messages == Builtins \cup Jobs \cup {"int", "input"}
Replies  == {"output", "done", "error", "edit", "exec_open", "session_invalid"}

ASSUME SocketsAssumption ==
    /\ Endpoints \subseteq {"terminal", "logs", "exec"}
    /\ {MaxSent, MaxInts, MaxOuts} \subseteq Nat /\ Cap \in Nat \ {0}

Goroutines == {"loop", "job"}
Nothing == [type |-> "nothing", n |-> 0]
Msg(type, n) == [type |-> type, n |-> n]

VARIABLES ep,       \* the endpoint of this connection
          sess,     \* its session is in the store and has not expired
          conn,     \* "open", "left" by the client, or "shut" by the server
          up, down, \* messages and replies under way; n numbers the commands
          client,   \* the page: running, what has the keyboard, and counters
          loop,     \* the goroutine that reads: where it is, the message, and
                    \* the replies and steps its current branch still has to take
          live,     \* the session was valid when that message was read
          slot,     \* the variable running of handleTerminalWS
          cancel,   \* the variable cancel is not nil
          job,      \* the goroutine that runs the subprocess
          killed,   \* the context of that subprocess is cancelled
          sending,  \* the reply each goroutine is sending
          writers   \* the goroutines inside WriteJSON

server == <<loop, live, slot, cancel, job, killed, sending, writers>>
vars == <<ep, sess, conn, up, down, client, server>>

Modes == {"line", "edit", "opening", "exec", "stuck", "gone"}

Places == {"upgrade", "read", "check", "feed", "interrupt", "admit", "start", "gone"}
Steps  == Replies \cup {"finish", "return", "cancel"}
Of(types) == [type : types, n : 0..MaxSent]

TypeOK ==
    /\ ep \in Endpoints /\ sess \in BOOLEAN /\ conn \in {"open", "left", "shut"}
    /\ up \in Seq(Of(Messages))
    /\ down \in Seq(Of(Replies)) /\ Len(down) <= Cap
    /\ client \in [running : BOOLEAN, mode : Modes, sent : 0..MaxSent, ints : 0..MaxInts]
    /\ loop \in [at : Places, msg : Of(Messages \cup {"nothing"}), script : Seq(Of(Steps))]
    /\ live \in BOOLEAN /\ slot \in BOOLEAN /\ cancel \in BOOLEAN /\ killed \in BOOLEAN
    /\ job \in [at : {"none", "run", "exited", "free"}, kind : Jobs, n : 0..MaxSent,
                chunk : BOOLEAN, outs : 0..MaxOuts]
    /\ sending \in [Goroutines -> Of(Replies \cup {"nothing"})]
    /\ writers \subseteq {g \in Goroutines : sending[g] # Nothing}

NoJob == [at |-> "none", kind |-> "job", n |-> 0, chunk |-> FALSE, outs |-> 0]

Init ==
    /\ ep \in Endpoints /\ sess = TRUE /\ conn = "open" /\ up = <<>> /\ down = <<>>
    /\ client = [running |-> FALSE, mode |-> "line", sent |-> 0, ints |-> 0]
    /\ loop = [at |-> "upgrade", msg |-> Nothing, script |-> <<>>] /\ live = TRUE
    /\ slot = FALSE /\ cancel = FALSE /\ job = NoJob /\ killed = FALSE
    /\ sending = [g \in Goroutines |-> Nothing] /\ writers = {}

-----------------------------------------------------------------------------
\* The page.  Enter is ignored while running.
Sends(m) == conn = "open" /\ up' = Append(up, m)
Page == UNCHANGED <<ep, sess, server>>

HasKeyboard == ep = "terminal" /\ client.mode \in {"line", "opening", "stuck"}

Enter(kind) ==
    /\ HasKeyboard /\ ~client.running /\ client.sent < MaxSent
    /\ client' = [client EXCEPT !.running = TRUE, !.sent = @ + 1,
                                !.mode = IF @ = "stuck" THEN "line" ELSE @]
    /\ Sends(Msg(kind, client.sent + 1))
    /\ UNCHANGED <<conn, down>> /\ Page

CtrlC ==
    /\ HasKeyboard /\ client.running /\ client.ints < MaxInts
    /\ client' = [client EXCEPT !.ints = @ + 1]
    /\ Sends(Msg("int", client.sent))
    /\ UNCHANGED <<conn, down>> /\ Page

\* A message to /ws/logs or /ws/exec.
Input ==
    /\ ep # "terminal" /\ client.mode = "line" /\ client.sent < MaxSent
    /\ client' = [client EXCEPT !.sent = @ + 1]
    /\ Sends(Msg("input", client.sent + 1))
    /\ UNCHANGED <<conn, down>> /\ Page

\* ws.onmessage.
Receive ==
    /\ down # <<>> /\ client.mode # "gone"
    /\ down' = Tail(down)
    /\ client' = CASE Head(down).type \in {"done", "error"} -> [client EXCEPT !.running = FALSE]
                   [] Head(down).type = "edit" ->
                          [client EXCEPT !.running = FALSE, !.mode = "edit"]
                   [] Head(down).type = "exec_open" -> [client EXCEPT !.mode = "opening"]
                   [] Head(down).type = "session_invalid" -> [client EXCEPT !.mode = "gone"]
                   [] OTHER -> client
    /\ UNCHANGED <<conn, up>> /\ Page

\* The editor is closed, or the session on /ws/exec ends.
PromptAgain ==
    /\ client.mode \in {"edit", "exec"}
    /\ client' = [client EXCEPT !.mode = "line", !.running = FALSE]
    /\ UNCHANGED <<conn, up, down>> /\ Page

\* execWs opens; or it is refused, or breaks: then no handler calls writePrompt.
ExecOpens ==
    /\ client.mode = "opening"
    /\ client' = [client EXCEPT !.mode = "exec"]
    /\ UNCHANGED <<conn, up, down>> /\ Page
ExecFails ==
    /\ client.mode \in {"opening", "exec"}
    /\ client' = [client EXCEPT !.mode = "stuck"]
    /\ UNCHANGED <<conn, up, down>> /\ Page

\* The tab is closed, the network fails, or the page has read the last reply.
Leave ==
    /\ client.mode # "gone" \/ conn = "open"
    /\ conn = "shut" => down = <<>>
    /\ client' = [client EXCEPT !.mode = "gone"]
    /\ conn' = IF conn = "open" THEN "left" ELSE conn
    /\ UNCHANGED <<up, down>> /\ Page

\* /logout of the same session, or its TTL has passed.
SessionEnds ==
    /\ sess /\ sess' = FALSE
    /\ UNCHANGED <<ep, conn, up, down, client, server>>

-----------------------------------------------------------------------------
\* send takes mu and writes.  A write blocks while the network is full and
\* fails at once when the connection is no more.  The reader of /ws/logs writes
\* without mu.
Bare(g) == ep = "logs" /\ g = "loop"
MutexFree == \A g \in writers : Bare(g)
Quiet(g) == sending[g] = Nothing

\* Mutant: send without the mutex.
WriteAnyway(g) ==
    /\ ~Quiet(g) /\ g \notin writers
    /\ writers' = writers \cup {g}
    /\ UNCHANGED <<ep, sess, conn, up, down, client, loop, live, slot, cancel, job, killed, sending>>

Write(g) ==
    /\ ~Quiet(g) /\ g \notin writers
    /\ Bare(g) \/ MutexFree
    /\ writers' = writers \cup {g}
    /\ UNCHANGED <<ep, sess, conn, up, down, client, loop, live, slot, cancel, job, killed, sending>>

Written(g) ==
    /\ g \in writers
    /\ IF conn = "open" THEN Len(down) < Cap /\ down' = Append(down, sending[g])
       ELSE UNCHANGED down
    /\ sending' = [sending EXCEPT ![g] = Nothing]
    /\ writers' = writers \ {g}
    /\ UNCHANGED <<ep, sess, conn, up, client, loop, live, slot, cancel, job, killed>>

-----------------------------------------------------------------------------
Net == <<ep, sess, up, down, client>>
At(at) == [loop EXCEPT !.at = at]
Then(script) == [loop EXCEPT !.at = "read", !.script = script]
Started(kind, n) == [NoJob EXCEPT !.at = "run", !.kind = kind, !.n = n]

\* The checks after the upgrade.  /ws/logs and /ws/exec may refuse the query;
\* then they start their subprocess, and a goroutine that reads.
Upgraded ==
    /\ loop.at = "upgrade" /\ loop.script = <<>>
    /\ \/ ~sess /\ loop' = [loop EXCEPT !.script = <<Msg("session_invalid", 0), Msg("return", 0)>>]
                /\ UNCHANGED job
       \/ sess /\ ep # "terminal"
               /\ loop' = [loop EXCEPT !.script = <<Msg("error", 0), Msg("return", 0)>>]
               /\ UNCHANGED job
       \/ sess /\ loop' = At("read")
               /\ IF ep = "terminal" THEN UNCHANGED job ELSE \E k \in Jobs : job' = Started(k, 0)
    /\ UNCHANGED <<Net, conn, live, slot, cancel, killed, sending, writers>>

Reading == loop.at = "read" /\ loop.script = <<>> /\ Quiet("loop")

Read ==
    /\ Reading /\ up # <<>> /\ conn # "shut"
    /\ up' = Tail(up)
    /\ loop' = [loop EXCEPT !.at = "check", !.msg = Head(up)]
    /\ live' = sess
    /\ UNCHANGED <<ep, sess, conn, down, client, slot, cancel, job, killed, sending, writers>>

ReadFails ==
    /\ Reading /\ conn # "open"
    /\ loop' = Then(<<Msg(IF ep = "terminal" THEN "return" ELSE "cancel", 0)>>)
    /\ UNCHANGED <<Net, conn, live, slot, cancel, job, killed, sending, writers>>

\* Where a message is dealt with.
DealtWith == CASE ep = "logs" -> "read"
           [] ep = "exec" -> "feed"
           [] OTHER -> IF loop.msg.type = "int" THEN "interrupt" ELSE "admit"

\* Mutant: the session is checked on upgrade only.
CheckSkipped ==
    /\ loop.at = "check"
    /\ loop' = At(DealtWith)
    /\ UNCHANGED <<Net, conn, live, slot, cancel, job, killed, sending, writers>>

Check ==
    /\ loop.at = "check"
    /\ loop' = IF ~sess
               THEN Then(<<Msg("session_invalid", loop.msg.n),
                           Msg(IF ep = "terminal" THEN "return" ELSE "cancel", 0)>>)
               ELSE At(DealtWith)
    /\ UNCHANGED <<Net, conn, live, slot, cancel, job, killed, sending, writers>>

\* /ws/exec writes the input to the pty of its subprocess, or resizes it.  The
\* write may block as long as a subprocess is there that does not read.
Feed ==
    /\ loop.at = "feed"
    /\ loop' = At("read")
    /\ UNCHANGED <<Net, conn, live, slot, cancel, job, killed, sending, writers>>

Feeding == loop.at = "feed" /\ job.at = "run"

Interrupt ==
    /\ loop.at = "interrupt" /\ MutexFree
    /\ killed' = (killed \/ cancel)
    /\ loop' = At("read")
    /\ UNCHANGED <<Net, conn, live, slot, cancel, job, sending, writers>>

\* What a command without subprocess sends, and where it frees the slot.
\* Mutant: exec of a shell by the pattern of the refusals, without its reply.
ScriptShort(kind, n) ==
    CASE kind = "refused" -> <<Msg("error", n), Msg("finish", n), Msg("done", n)>>
      [] kind = "builtin" -> <<Msg("output", n), Msg("finish", n)>>
      [] kind = "edit"    -> <<Msg("edit", n), Msg("finish", n)>>
      [] kind = "open"    -> <<Msg("exec_open", n), Msg("finish", n)>>

Script(kind, n) ==
    CASE kind = "refused" -> <<Msg("error", n), Msg("finish", n), Msg("done", n)>>
      [] kind = "builtin" -> <<Msg("output", n), Msg("finish", n), Msg("done", n)>>
      [] kind = "edit"    -> <<Msg("edit", n), Msg("finish", n)>>
      [] kind = "open"    -> <<Msg("exec_open", n), Msg("finish", n)>>

\* Mutant: a refused command frees the slot like the others.
BusyFrees(n) == <<Msg("error", n), Msg("finish", n), Msg("done", n)>>
Busy(n) == <<Msg("error", n), Msg("done", n)>>

Admit ==
    /\ loop.at = "admit" /\ MutexFree
    /\ slot' = TRUE
    /\ LET m == loop.msg
       IN  loop' = IF slot THEN Then(Busy(m.n))
                   ELSE IF m.type \in Jobs THEN At("start")
                   ELSE Then(Script(m.type, m.n))
    /\ UNCHANGED <<Net, conn, live, cancel, job, killed, sending, writers>>

\* Mutant: the cancel function is not kept.
StartUncancelled ==
    /\ loop.at = "start" /\ MutexFree
    /\ killed' = FALSE
    /\ job' = Started(loop.msg.type, loop.msg.n)
    /\ loop' = At("read")
    /\ UNCHANGED <<Net, conn, live, slot, cancel, sending, writers>>

\* The cancel function is set, and the goroutine of the command begins.
Start ==
    /\ loop.at = "start" /\ MutexFree
    /\ cancel' = TRUE /\ killed' = FALSE
    /\ job' = Started(loop.msg.type, loop.msg.n)
    /\ loop' = At("read")
    /\ UNCHANGED <<Net, conn, live, slot, sending, writers>>

Due(type) == loop.script # <<>> /\ Quiet("loop") /\ Head(loop.script).type = type
Rest == [loop EXCEPT !.script = Tail(@)]

Say ==
    /\ loop.script # <<>> /\ Quiet("loop") /\ Head(loop.script).type \in Replies
    /\ sending' = [sending EXCEPT !["loop"] = Head(loop.script)]
    /\ loop' = Rest
    /\ UNCHANGED <<Net, conn, live, slot, cancel, job, killed, writers>>

\* finishCmd.
Finish ==
    /\ Due("finish") /\ MutexFree
    /\ slot' = FALSE
    /\ loop' = Rest
    /\ UNCHANGED <<Net, conn, live, cancel, job, killed, sending, writers>>

\* The handler returns: the connection is closed, the request's context ends.
Shut == IF conn = "open" THEN "shut" ELSE conn
\* Mutant: the subprocess has a context of its own.
ReturnAlone ==
    /\ Due("return")
    /\ conn' = Shut
    /\ loop' = [Rest EXCEPT !.at = "gone"]
    /\ UNCHANGED <<Net, live, slot, cancel, job, killed, sending, writers>>

Return ==
    /\ Due("return")
    /\ conn' = Shut /\ killed' = TRUE
    /\ loop' = [Rest EXCEPT !.at = "gone"]
    /\ UNCHANGED <<Net, live, slot, cancel, job, sending, writers>>

\* The reading goroutine of /ws/logs and /ws/exec ends.
Cancel ==
    /\ Due("cancel")
    /\ killed' = TRUE
    /\ loop' = [Rest EXCEPT !.at = "gone"]
    /\ UNCHANGED <<Net, conn, live, slot, cancel, job, sending, writers>>

-----------------------------------------------------------------------------
\* execCommand: the subprocess prints, a chunk is read from the pipe and sent.
Prints ==
    /\ job.at = "run" /\ ~job.chunk /\ job.outs < MaxOuts /\ Quiet("job")
    /\ job' = [job EXCEPT !.chunk = TRUE, !.outs = @ + 1]
    /\ UNCHANGED <<Net, conn, loop, live, slot, cancel, killed, sending, writers>>

SayOutput ==
    /\ job.chunk /\ Quiet("job")
    /\ sending' = [sending EXCEPT !["job"] = Msg("output", job.n)]
    /\ job' = [job EXCEPT !.chunk = FALSE]
    /\ UNCHANGED <<Net, conn, loop, live, slot, cancel, killed, writers>>

Exit ==
    /\ job.at = "run"
    /\ job' = [job EXCEPT !.at = "exited"]
    /\ UNCHANGED <<Net, conn, loop, live, slot, cancel, killed, sending, writers>>

\* Mutants: done does not wait for the last chunk; an interrupted command
\* sends none.
DoneEarly ==
    /\ job.at = "exited" /\ Quiet("job")
    /\ sending' = [sending EXCEPT !["job"] = Msg("done", job.n)]
    /\ job' = [job EXCEPT !.at = "free"]
    /\ UNCHANGED <<Net, conn, loop, live, slot, cancel, killed, writers>>
DoneUnlessKilled ==
    /\ job.at = "exited" /\ ~job.chunk /\ Quiet("job")
    /\ sending' = IF killed THEN sending ELSE [sending EXCEPT !["job"] = Msg("done", job.n)]
    /\ job' = [job EXCEPT !.at = "free"]
    /\ UNCHANGED <<Net, conn, loop, live, slot, cancel, killed, writers>>

\* cmd.Wait, wg.Wait, and done.
Done ==
    /\ job.at = "exited" /\ ~job.chunk /\ Quiet("job")
    /\ sending' = [sending EXCEPT !["job"] = Msg("done", job.n)]
    /\ job' = [job EXCEPT !.at = "free"]
    /\ UNCHANGED <<Net, conn, loop, live, slot, cancel, killed, writers>>

\* The deferred function of the command's goroutine.
Free ==
    /\ ep = "terminal" /\ job.at = "free" /\ Quiet("job") /\ MutexFree
    /\ slot' = FALSE /\ cancel' = FALSE
    /\ job' = NoJob
    /\ UNCHANGED <<Net, conn, loop, live, killed, sending, writers>>

\* On the other endpoints the handler itself ran the subprocess, and returns.
Over ==
    /\ ep # "terminal" /\ job.at = "free" /\ Quiet("job")
    /\ conn' = Shut /\ killed' = TRUE
    /\ job' = NoJob
    /\ UNCHANGED <<Net, loop, live, slot, cancel, sending, writers>>

-----------------------------------------------------------------------------
LoopStep ==
    \/ Upgraded \/ Read \/ ReadFails \/ Check \/ Feed \/ Interrupt \/ Admit \/ Start
    \/ Say \/ Finish \/ Return \/ Cancel \/ Write("loop") \/ Written("loop")

JobStep == SayOutput \/ Done \/ Free \/ Over \/ Write("job") \/ Written("job")

User ==
    \/ \E kind \in Builtins \cup Jobs : Enter(kind)
    \/ CtrlC \/ Input \/ ExecOpens \/ ExecFails \/ Leave

Next == LoopStep \/ JobStep \/ Prints \/ Exit \/ Receive \/ PromptAgain \/ User \/ SessionEnds

Spec == Init /\ [][Next]_vars

\* Go's scheduler, also for a goroutine that waits for the mutex, but not for one
\* that writes to a subprocess, which need not read; a subprocess that follows
\* nothing, or is killed, exits; a browser reads what arrives.
FairSpec ==
    /\ Spec
    /\ WF_vars(~Feeding /\ LoopStep) /\ WF_vars(JobStep) /\ WF_vars(Receive)
    /\ WF_vars((job.kind = "job" \/ killed) /\ Exit)

-----------------------------------------------------------------------------
(***************************************************************************)
(* One command at a time: while the subprocess of a command lives or its   *)
(* goroutine has yet to end, the slot is taken, and the cancel function is *)
(* there for an interrupt exactly as long.                                 *)
(***************************************************************************)
SlotHeld ==
    ep = "terminal" => (cancel <=> job.at # "none") /\ (job.at # "none" => slot)

(***************************************************************************)
(* No answer gets lost: when nothing is under way in either direction and  *)
(* the server waits for input, a page that has the keyboard accepts input. *)
(* (Not so after /ws/exec has failed: the page is "stuck".)                *)
(***************************************************************************)
NothingLost ==
    (ep = "terminal" /\ conn = "open" /\ up = <<>> /\ down = <<>>
        /\ Reading /\ job.at = "none" /\ client.mode = "line")
    => ~client.running

(***************************************************************************)
(* docs/SPEC.md:1067: done "Always follows the last `output`": no output   *)
(* of a command is sent or still to come once its done is on the way.      *)
(***************************************************************************)
DoneIsLast ==
    /\ \A i, j \in 1..Len(down) :
           i < j /\ down[i].type = "done" /\ down[j].type = "output" => down[j].n # down[i].n
    /\ job.at = "free" => ~job.chunk

(***************************************************************************)
(* A websocket connection supports one writer at a time: the goroutines of *)
(* /ws/terminal and /ws/exec never write at once.                          *)
(***************************************************************************)
WritersTakeTurns == ep # "logs" => Cardinality(writers) <= 1

(***************************************************************************)
(* docs/SPEC.md:1024: sessions are checked again on every message: no      *)
(* command that was read after its session had ended is admitted, and no   *)
(* such input is given to the subprocess of /ws/exec.                      *)
(***************************************************************************)
NoWorkAfterLogout ==
    [][loop.at \in {"admit", "feed"} /\ loop'.at # loop.at => live]_vars

Following == job.at = "run" /\ job.kind = "follow" /\ ~killed

(***************************************************************************)
(* Every command that is entered is answered, and the page accepts input   *)
(* again, unless it follows logs, or the page has lost the keyboard.       *)
(***************************************************************************)
Answered ==
    client.running /\ client.mode = "line" ~>
        ~client.running \/ client.mode # "line" \/ Following

\* An interrupt ends also a command that would never end.
InterruptEnds ==
    Following /\ (\E i \in 1..Len(up) : up[i].type = "int") ~> job.at = "none"

(***************************************************************************)
(* terminal.go:771 "cancel ctx (kills subprocess) on disconnect": when the *)
(* connection is gone, the subprocess and both goroutines end -- unless    *)
(* the goroutine of /ws/exec that would notice blocks for ever in a write  *)
(* to a subprocess that does not read: nothing ends that one.              *)
(***************************************************************************)
NoOrphans ==
    conn # "open" ~> (job.at = "none" /\ loop.at = "gone") \/ []Feeding

-----------------------------------------------------------------------------
(***************************************************************************)
(* The inductive invariant of SlotHeld, WritersTakeTurns and               *)
(* NoWorkAfterLogout.  What lies on the wire and in a script is known; the *)
(* slot is taken from Admit until the job is there, and no script frees    *)
(* the slot of a job.                                                      *)
(***************************************************************************)
Sendable == IF ep = "terminal" THEN Builtins \cup Jobs \cup {"int"} ELSE {"input"}

WireInv ==
    /\ up \in Seq(Of(Sendable))
    /\ loop.at = "check" => loop.msg.type \in Sendable
    /\ loop.at = "feed" => ep = "exec"
    /\ loop.at = "interrupt" => ep = "terminal"
    /\ loop.at = "admit" => ep = "terminal" /\ loop.msg.type \in Builtins \cup Jobs
    /\ loop.at = "start" => ep = "terminal" /\ loop.msg.type \in Jobs
    /\ \A g \in Goroutines : Quiet(g) \/ sending[g].type \in Replies

SlotInv ==
    /\ SlotHeld
    /\ loop.at = "start" => slot /\ job.at = "none"
    /\ \A i \in 1..Len(loop.script) : loop.script[i].type = "finish" =>
          /\ ep = "terminal" /\ slot /\ job.at = "none" /\ loop.at = "read"
          /\ \A j \in 1..Len(loop.script) : j # i => loop.script[j].type \in Replies

TurnInv == ep # "logs" => \A g, h \in writers : g = h

LiveInv ==
    /\ loop.at = "check" /\ sess => live
    /\ loop.at \in {"admit", "feed"} => live

SocketInv == WireInv /\ SlotInv /\ TurnInv /\ LiveInv

=============================================================================
