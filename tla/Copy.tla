--------------------------------- MODULE Copy ---------------------------------
(***************************************************************************)
(* containerctl cp: internal/copy and cmd/cp.go.  A copy is a pipeline.     *)
(* The source (the engine's archive GET, or the goroutine that packs a host *)
(* path) writes a tar stream; each renaming adds a goroutine that reads the *)
(* stream and writes it on into a pipe; the last reader unpacks it, passes  *)
(* it to stdout, or is the body of the engine's archive PUT.  The engine    *)
(* holds a lock of the container during a GET, a PUT and a stat.            *)
(*                                                                          *)
(* An archive is Entries entries of two blocks each, a header and its data, *)
(* and a trailer.  Where a stream breaks matters: between two entries a tar *)
(* writer can still be closed properly, inside one it cannot.               *)
(***************************************************************************)
EXTENDS Integers

CONSTANTS Proc,      \* processes that run cp
          Container, \* containers, by id
          Host,      \* the host side of a copy
          Free,      \* the lock of a container nobody copies from or to
          Entries,   \* bound: entries of an archive
          Buffer,    \* blocks the connection to the engine holds
          Requests,  \* the copies that are run
          MaxFaults  \* bound: broken streams, refused calls and kills

Length == 2 * Entries
Between(n) == n % 2 = 0

\* link: -L follows the source to another name.  rename: the destination is a
\* new name.  refused: a directory onto a file.  stdio: the host side is "-".
Request == {r \in [src : Container \cup {Host}, dst : Container \cup {Host},
                   link : BOOLEAN, rename : BOOLEAN, refused : BOOLEAN, stdio : BOOLEAN] :
               /\ r.src # Host \/ r.dst # Host
               /\ r.stdio => Host \in {r.src, r.dst} /\ ~r.rename /\ ~r.refused
               /\ r.stdio /\ r.src = Host => ~r.link}

ASSUME CopyAssumption ==
    /\ Host \notin Container /\ Free \notin Proc
    /\ Entries \in Nat \ {0} /\ Buffer \in Nat \ {0} /\ MaxFaults \in Nat
    /\ Requests \subseteq Request

VARIABLES req,     \* what each process copies
          at,      \* where its main goroutine stands
          pipe,    \* the stages of its pipeline: stage i reads pipe[i]
          stages,  \* how many pipes it has
          copied,  \* blocks that have reached the destination
          temp,    \* processes whose temporary file is on disk
          lock,    \* the process that holds a container's lock
          faults

vars == <<req, at, pipe, stages, copied, temp, lock, faults>>

Points == {"link", "stat", "get", "pack", "drain", "prepare", "put", "putting", "extract"}
Outcomes == {"none", "ok", "error", "killed"}

\* Blocks written, blocks read, and how the stream ends: "end" with the trailer,
\* "cut" without it, "endcut" with the trailer and then an error.
Stream == [put : 0..Length, got : 0..Length, end : {"open", "end", "cut", "endcut"}]
Fresh == [put |-> 0, got |-> 0, end |-> "open"]
Stages == 1..3

TypeOK ==
    /\ req \in [Proc -> Request]
    /\ at \in [Proc -> Points \cup Outcomes]
    /\ pipe \in [Proc -> [Stages -> Stream]]
    /\ stages \in [Proc -> 0..3]
    /\ copied \in [Proc -> 0..Length]
    /\ temp \subseteq Proc
    /\ lock \in [Container -> Proc \cup {Free}]
    /\ faults \in 0..MaxFaults

Busy(p) == at[p] \in Points

Init ==
    /\ req \in [Proc -> Requests]
    /\ at = [p \in Proc |-> "none"]
    /\ pipe = [p \in Proc |-> [i \in Stages |-> Fresh]]
    /\ stages = [p \in Proc |-> 0]
    /\ copied = [p \in Proc |-> 0]
    /\ temp = {}
    /\ lock = [c \in Container |-> Free]
    /\ faults = 0

-----------------------------------------------------------------------------
SameContainer(r) == r.src = r.dst
Goto(p, point) == at' = [at EXCEPT ![p] = point]
Released(p) == [c \in Container |-> IF lock[c] = p THEN Free ELSE lock[c]]

\* A return: deferred calls close the streams and remove the temporary file.
Return(p, out) ==
    /\ Goto(p, out)
    /\ lock' = Released(p)
    /\ temp' = temp \ {p}
    /\ pipe' = [pipe EXCEPT ![p] = [i \in Stages |-> Fresh]]
    /\ stages' = [stages EXCEPT ![p] = 0]

\* The containers are resolved to ids, which no lock delays.
Begin(p) ==
    /\ at[p] = "none"
    /\ Goto(p, IF req[p].src # Host /\ req[p].link THEN "link"
               ELSE IF req[p].dst # Host THEN "stat" ELSE "get")
    /\ UNCHANGED <<req, pipe, stages, copied, temp, lock, faults>>

\* resolveContainerSource, for -L.
Link(p) ==
    /\ at[p] = "link" /\ lock[req[p].src] = Free
    /\ Goto(p, IF req[p].dst # Host THEN "stat" ELSE "get")
    /\ UNCHANGED <<req, pipe, stages, copied, temp, lock, faults>>

\* containerDestInfo.
Stat(p) ==
    /\ at[p] = "stat" /\ lock[req[p].dst] = Free
    /\ Goto(p, IF req[p].src = Host THEN "pack" ELSE "get")
    /\ UNCHANGED <<req, pipe, stages, copied, temp, lock, faults>>

\* Mutant: the same container is streamed like two different ones.
GetStreams(p) ==
    /\ at[p] = "get" /\ lock[req[p].src] = Free
    /\ lock' = [lock EXCEPT ![req[p].src] = p]
    /\ stages' = [stages EXCEPT ![p] = 1]
    /\ Goto(p, "prepare")
    /\ UNCHANGED <<req, pipe, copied, temp, faults>>

Get(p) ==
    /\ at[p] = "get" /\ lock[req[p].src] = Free
    /\ lock' = [lock EXCEPT ![req[p].src] = p]
    /\ stages' = [stages EXCEPT ![p] = 1]
    /\ IF SameContainer(req[p])
       THEN Goto(p, "drain") /\ temp' = temp \cup {p}
       ELSE Goto(p, "prepare") /\ UNCHANGED temp
    /\ UNCHANGED <<req, pipe, copied, faults>>

\* packLocal, or stdin.
Pack(p) ==
    /\ at[p] = "pack"
    /\ stages' = [stages EXCEPT ![p] = 1]
    /\ Goto(p, "prepare")
    /\ UNCHANGED <<req, pipe, copied, temp, lock, faults>>

-----------------------------------------------------------------------------
\* The source.  A pipe takes a block when the one before has been read.
Room(p) == IF req[p].src = Host THEN 1 ELSE Buffer
Writing(p) == Busy(p) /\ stages[p] > 0 /\ pipe[p][1].end = "open"
SourceLets(p) == lock' = IF req[p].src = Host THEN lock ELSE [lock EXCEPT ![req[p].src] = Free]

Send(p) ==
    /\ Writing(p)
    /\ pipe[p][1].put < Length /\ pipe[p][1].put - pipe[p][1].got < Room(p)
    /\ pipe' = [pipe EXCEPT ![p][1].put = @ + 1]
    /\ UNCHANGED <<req, at, stages, copied, temp, lock, faults>>

SendEnd(p) ==
    /\ Writing(p) /\ pipe[p][1].put = Length
    /\ pipe' = [pipe EXCEPT ![p][1].end = "end"]
    /\ SourceLets(p)
    /\ UNCHANGED <<req, at, stages, copied, temp, faults>>

\* What a tar writer that is closed after an error leaves in the stream.
Closed(n) == IF Between(n) THEN "endcut" ELSE "cut"

\* The connection breaks or is interrupted, or a host file cannot be read.
Break(p) ==
    /\ Writing(p)
    /\ faults < MaxFaults /\ faults' = faults + 1
    /\ pipe' = [pipe EXCEPT ![p][1].end =
                   IF req[p].src = Host /\ ~req[p].stdio THEN Closed(pipe[p][1].put) ELSE "cut"]
    /\ SourceLets(p)
    /\ UNCHANGED <<req, at, stages, copied, temp>>

\* rewriteTarBase: a goroutine that reads pipe i and writes pipe i + 1.
Exhausted(s) == s.got = s.put /\ s.end # "open"
Running(p, i) == Busy(p) /\ i < stages[p] /\ pipe[p][i + 1].end = "open"

Rename(p, i) ==
    /\ Running(p, i)
    /\ pipe[p][i].got < pipe[p][i].put /\ pipe[p][i + 1].got = pipe[p][i + 1].put
    /\ pipe' = [pipe EXCEPT ![p][i].got = @ + 1, ![p][i + 1].put = @ + 1]
    /\ UNCHANGED <<req, at, stages, copied, temp, lock, faults>>

\* Mutant: the pipe ends without the error.
PassesEnd(s) == "end"

\* How a tar reader takes the end of a stream, and what it passes on.
Passes(s) == IF s.end = "cut" THEN Closed(s.put) ELSE "end"

RenameEnd(p, i) ==
    /\ Running(p, i) /\ Exhausted(pipe[p][i])
    /\ pipe' = [pipe EXCEPT ![p][i + 1].end = Passes(pipe[p][i])]
    /\ UNCHANGED <<req, at, stages, copied, temp, lock, faults>>

-----------------------------------------------------------------------------
\* drainToTemp, then the archive is read again from the temporary file.
Drained(p) == [put |-> Length, got |-> 0, end |-> "end"]

Drain(p) ==
    /\ at[p] = "drain" /\ pipe[p][1].got < pipe[p][1].put
    /\ pipe' = [pipe EXCEPT ![p][1].got = @ + 1]
    /\ UNCHANGED <<req, at, stages, copied, temp, lock, faults>>

DrainEnd(p) ==
    /\ at[p] = "drain" /\ Exhausted(pipe[p][1])
    /\ IF pipe[p][1].end = "end"
       THEN /\ pipe' = [pipe EXCEPT ![p][1] = Drained(p)]
            /\ lock' = Released(p)
            /\ Goto(p, "prepare")
            /\ UNCHANGED <<stages, temp>>
       ELSE Return(p, "error")
    /\ UNCHANGED <<req, copied, faults>>

\* A name that -L or the destination changes is rewritten by a goroutine each;
\* packLocal gives a host path its name itself.
Renamings(r) == (IF r.link /\ r.src # Host THEN 1 ELSE 0) + (IF r.rename THEN 1 ELSE 0)

Prepared(p, next) ==
    /\ at[p] = "prepare"
    /\ IF req[p].refused
       THEN Return(p, "error")
       ELSE /\ stages' = [stages EXCEPT ![p] = 1 + (IF req[p].stdio THEN 0 ELSE Renamings(req[p]))]
            /\ Goto(p, next)
            /\ UNCHANGED <<pipe, temp, lock>>
    /\ UNCHANGED <<req, copied, faults>>

\* prepareArchiveForContainer, and for a destination on the host prepareCopy.
Prepare(p) == req[p].dst # Host /\ Prepared(p, "put")
PrepareHost(p) == req[p].dst = Host /\ Prepared(p, "extract")

\* CopyToContainer waits for the lock of the destination.
Put(p) ==
    /\ at[p] = "put" /\ lock[req[p].dst] = Free
    /\ lock' = [lock EXCEPT ![req[p].dst] = p]
    /\ Goto(p, "putting")
    /\ UNCHANGED <<req, pipe, stages, copied, temp, faults>>

\* The end of the pipeline: untar, io.Copy to stdout, or the engine.
Last(p) == pipe[p][stages[p]]
Unpacking(p) == at[p] = "extract" /\ ~req[p].stdio

Take(p) ==
    /\ at[p] \in {"putting", "extract"} /\ Last(p).got < Last(p).put
    /\ pipe' = [pipe EXCEPT ![p][stages[p]].got = @ + 1]
    /\ copied' = [copied EXCEPT ![p] = @ + 1]
    /\ UNCHANGED <<req, at, stages, temp, lock, faults>>

\* A tar reader stops at the trailer.  A request fails when its body does.
Content(p) == Last(p).end = "end" \/ (Unpacking(p) /\ Last(p).end = "endcut")

\* Mutant: how the stream ended is not looked at.
ContentAny(p) == Last(p).end # "open"

TakeEnd(p) ==
    /\ at[p] \in {"putting", "extract"} /\ Exhausted(Last(p))
    /\ Return(p, IF Content(p) THEN "ok" ELSE "error")
    /\ UNCHANGED <<req, copied, faults>>

\* A call of the engine or the file system is refused, or ends with ctrl-C.
Refused(p) ==
    /\ Busy(p)
    /\ faults < MaxFaults /\ faults' = faults + 1
    /\ Return(p, "error")
    /\ UNCHANGED <<req, copied>>

\* Nothing is deferred any more; the engine sees the connections close.
Killed(p) ==
    /\ Busy(p)
    /\ faults < MaxFaults /\ faults' = faults + 1
    /\ Goto(p, "killed")
    /\ lock' = Released(p)
    /\ UNCHANGED <<req, pipe, stages, copied, temp>>

Main(p) ==
    \/ Link(p) \/ Stat(p) \/ Get(p) \/ Pack(p) \/ Drain(p) \/ DrainEnd(p)
    \/ Prepare(p) \/ PrepareHost(p) \/ Put(p) \/ Take(p) \/ TakeEnd(p)
Source(p) == Send(p) \/ SendEnd(p)
Renamer(p, i) == Rename(p, i) \/ RenameEnd(p, i)

Next ==
    \E p \in Proc :
        \/ Begin(p) \/ Main(p) \/ Source(p) \/ Break(p) \/ Refused(p) \/ Killed(p)
        \/ \E i \in Stages : Renamer(p, i)

Spec == Init /\ [][Next]_vars

\* The engine answers, and goroutines that can go on do.
FairSpec ==
    /\ Spec
    /\ \A p \in Proc :
          WF_vars(Main(p)) /\ WF_vars(Source(p)) /\ \A i \in Stages : WF_vars(Renamer(p, i))

-----------------------------------------------------------------------------
(***************************************************************************)
(* A copy that exits 0 leaves no file truncated, and without a renaming on  *)
(* the way (runCp, untar, rewriteTarBase) it has delivered the whole        *)
(* archive -- wherever the stream broke, and through however many pipes.    *)
(***************************************************************************)
Plain(p) == Renamings(req[p]) = 0
NothingTruncated ==
    \A p \in Proc : at[p] = "ok" => /\ Between(copied[p])
                                    /\ Plain(p) => copied[p] = Length

(***************************************************************************)
(* BetweenContainers never has an archive GET and PUT under way that wait   *)
(* for each other, and every stage of the pipeline lets go when another     *)
(* fails: each cp comes to an end.  Excepted are two processes that stream  *)
(* between the same two containers in opposite directions.                  *)
(***************************************************************************)
Crossed ==
    \E p, q \in Proc : /\ p # q
                       /\ at[p] = "put" /\ lock[req[p].dst] = q
                       /\ at[q] = "put" /\ lock[req[q].dst] = p
CopiesEnd == \A p \in Proc : Busy(p) ~> ~Busy(p) \/ Crossed

(***************************************************************************)
(* docs/SPEC.md:299 of cp: "0 ok, 1 error".                                 *)
(***************************************************************************)
OkMeansCopied == \A p \in Proc : at[p] = "ok" => copied[p] = Length
=============================================================================
