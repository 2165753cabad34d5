------------------------------ MODULE Commands ------------------------------
(***************************************************************************)
(* The lifecycle commands: disable, enable, start, stop, restart, repull   *)
(* and down (the files of cmd/ with those names).  Each process Proc runs   *)
(* one command after the other; processes share state.json and the engine  *)
(* and nothing else.  A command works through its names one by one, one    *)
(* engine call per step; the order of the names is left open.              *)
(***************************************************************************)
EXTENDS Planner

CONSTANTS Proc,       \* processes
          Declared,   \* the stack; it has no networks here
          Hosts,      \* what the engine may hold to begin with
          Cmds, Args, \* the commands and the name arguments that are run
          MaxFaults,  \* bound: failing calls and kills
          MaxEvents   \* bound: steps of other parties

Commands == {"disable", "enable", "start", "stop", "restart", "repull", "down"}

ASSUME CommandsAssumption ==
    /\ Declared \in Stack /\ ValidStack(Declared)
    /\ Hosts \subseteq [Name -> Ctr]
    /\ Cmds \subseteq Commands /\ Args \subseteq SUBSET Name

\* The engine gives every container an id, and a name that is free does not run.
Engine(c) ==
    \A n \in Name : /\ (c[n].owner = "none") <=> (c[n].id = NoId)
                    /\ c[n].owner = "none" => ~c[n].running

ASSUME HostsAssumption == \A host \in Hosts : Engine(host)

\* state.json, or a text that does not parse.
File == [whole : BOOLEAN, names : SUBSET Name]
Holding(S) == [whole |-> TRUE, names |-> S]
Torn == [whole |-> FALSE, names |-> {}]

VARIABLES file,    \* state.json
          ctrs,    \* the engine: the container holding each full name
          job,     \* what each process is doing
          kept,    \* names disabled with success and not enabled since
          faults, events

vars == <<file, ctrs, job, kept, faults, events>>

Stages == {"idle", "next", "save", "writing", "plan", "pull", "inspect",
           "stop", "remove", "create", "start", "check", "wake"}

Job == [cmd : Commands \cup {"none"},
        args : SUBSET Name, todo : SUBSET Name, cur : Name,
        at : Stages,                       \* the call it makes next
        mem : SUBSET Name,                 \* the State it loaded and changes
        had : SUBSET Name,                 \* the State as it was loaded
        ids : [Name -> Id \cup {NoId}],    \* the containers it has seen
        out : {"none", "ok", "error", "killed"},
        calm : BOOLEAN]                    \* nobody else has acted since it began

TypeOK ==
    /\ file \in File
    /\ ctrs \in [Name -> Ctr]
    /\ job \in [Proc -> Job]
    /\ \A p \in Proc : job[p].at \in {"stop", "remove", "start", "wake"} =>
                          job[p].ids[job[p].cur] \in Id
    /\ kept \in SUBSET Name
    /\ faults \in Nat /\ events \in Nat

NoIds == [n \in Name |-> NoId]
Idle == [cmd |-> "none", args |-> {}, todo |-> {}, cur |-> CHOOSE n \in Name : TRUE,
         at |-> "idle", mem |-> {}, had |-> {}, ids |-> NoIds, out |-> "none",
         calm |-> FALSE]

Init ==
    /\ file = Holding({})
    /\ ctrs \in Hosts
    /\ job = [p \in Proc |-> Idle]
    /\ kept = {}
    /\ faults = 0 /\ events = 0

-----------------------------------------------------------------------------
\* Where a process goes from here.  Other processes see that it has acted.
Turns(p, j) ==
    job' = [q \in Proc |-> IF q = p THEN j ELSE [job[q] EXCEPT !.calm = FALSE]]

To(p, at)   == [job[p] EXCEPT !.at = at]
Seen(p, at) == [job[p] EXCEPT !.at = at, !.ids[job[p].cur] = ctrs[job[p].cur].id]
NextName(p) == [job[p] EXCEPT !.at = "next", !.todo = @ \ {job[p].cur},
                              !.ids[job[p].cur] = NoId, !.cur = Idle.cur]
Ends(p, out) == [job[p] EXCEPT !.at = "idle", !.out = out, !.todo = {}, !.mem = {},
                               !.ids = NoIds, !.cur = Idle.cur]

Silent == UNCHANGED <<file, ctrs, kept, faults, events>>

Cur(p)   == ctrs[job[p].cur]
CurId(p) == job[p].ids[job[p].cur]

Fault == faults < MaxFaults /\ faults' = faults + 1

-----------------------------------------------------------------------------
\* disable, enable and start load state.json once, before the first name.
Loads == {"disable", "enable", "start"}

\* What the commands accept as arguments; down takes no name for all of them.
Accepts(cmd, args) ==
    /\ cmd # "down" => args # {}
    /\ cmd = "repull" => Cardinality(args) = 1
    /\ cmd \in {"start", "stop", "restart", "down", "repull"} => args \subseteq Declared.names

\* down lists the containers of the project once.
Listed(args) ==
    {n \in Name : ctrs[n].owner = "ours" /\ (n \in args \/ args = {})}

Begin(p, cmd, args) ==
    /\ job[p].at = "idle" /\ Accepts(cmd, args)
    /\ cmd \in Loads => file.whole
    /\ LET mem  == IF cmd \in Loads THEN file.names ELSE {}
           todo == IF cmd = "down" THEN Listed(args) ELSE args
           ids  == IF cmd # "down" THEN NoIds
                   ELSE [n \in Name |-> IF n \in todo THEN ctrs[n].id ELSE NoId]
       IN  Turns(p, [cmd |-> cmd, args |-> args, todo |-> todo, cur |-> Idle.cur,
                     at |-> "next", mem |-> mem, had |-> mem, ids |-> ids,
                     out |-> "none", calm |-> TRUE])
    /\ Silent

\* state.json does not parse.
Unreadable(p, cmd, args) ==
    /\ job[p].at = "idle" /\ Accepts(cmd, args)
    /\ cmd \in Loads /\ ~file.whole
    /\ Turns(p, [Idle EXCEPT !.cmd = cmd, !.args = args, !.out = "error"])
    /\ Silent

\* The tests each command makes before its first call for a name.
Chooses(p, cmd, n) == job[p].at = "next" /\ job[p].cmd = cmd /\ n \in job[p].todo
With(p, n, at) == [job[p] EXCEPT !.cur = n, !.at = at]
Skip(p, n) == [job[p] EXCEPT !.todo = @ \ {n}]

\* Mutant: the name replaces the list instead of joining it.
DisableReplaces(p, n) ==
    /\ Chooses(p, "disable", n)
    /\ Turns(p, IF n \notin Declared.names THEN Ends(p, "error")
                ELSE IF n \in job[p].mem THEN Skip(p, n)
                ELSE [With(p, n, "save") EXCEPT !.mem = {n}])
    /\ Silent

DisableTakes(p, n) ==
    /\ Chooses(p, "disable", n)
    /\ Turns(p, IF n \notin Declared.names THEN Ends(p, "error")
                ELSE IF n \in job[p].mem THEN Skip(p, n)
                ELSE [With(p, n, "save") EXCEPT !.mem = @ \cup {n}])
    /\ Silent

EnableTakes(p, n) ==
    /\ Chooses(p, "enable", n)
    /\ Turns(p, IF n \notin Declared.names \/ Declared.spec[n].off THEN Ends(p, "error")
                ELSE IF n \notin job[p].mem THEN Skip(p, n)
                ELSE [With(p, n, "save") EXCEPT !.mem = @ \ {n}])
    /\ Silent

\* Mutant: the state file is not consulted.
StartTakesAny(p, n) ==
    Chooses(p, "start", n) /\ Turns(p, With(p, n, "inspect")) /\ Silent

StartTakes(p, n) ==
    /\ Chooses(p, "start", n)
    /\ Turns(p, IF n \in job[p].mem THEN Skip(p, n) ELSE With(p, n, "inspect"))
    /\ Silent

StopTakes(p, n) == Chooses(p, "stop", n) /\ Turns(p, With(p, n, "inspect")) /\ Silent
RestartTakes(p, n) == Chooses(p, "restart", n) /\ Turns(p, With(p, n, "inspect")) /\ Silent
RepullTakes(p, n) == Chooses(p, "repull", n) /\ Turns(p, With(p, n, "pull")) /\ Silent
DownTakes(p, n) == Chooses(p, "down", n) /\ Turns(p, With(p, n, "stop")) /\ Silent

Finish(p) ==
    /\ job[p].at = "next" /\ job[p].todo = {}
    /\ Turns(p, Ends(p, "ok"))
    /\ kept' = IF job[p].cmd = "disable" THEN kept \cup job[p].args ELSE kept
    /\ UNCHANGED <<file, ctrs, faults, events>>

-----------------------------------------------------------------------------
\* State.Save: os.WriteFile truncates the file, then writes it.
Truncate(p) ==
    /\ job[p].at = "save"
    /\ file' = Torn
    /\ Turns(p, To(p, "writing"))
    /\ kept' = IF job[p].cmd = "enable" THEN kept \ {job[p].cur} ELSE kept
    /\ UNCHANGED <<ctrs, faults, events>>

\* Another process may have written since: a shorter text leaves its tail.
Write(p) ==
    /\ job[p].at = "writing"
    /\ file' \in IF file.names \subseteq job[p].mem THEN {Holding(job[p].mem)}
                 ELSE {Holding(job[p].mem), Torn}
    /\ Turns(p, To(p, IF job[p].cmd = "disable" THEN "inspect" ELSE "plan"))
    /\ UNCHANGED <<ctrs, kept, faults, events>>

\* enable plans for one name, with nothing disabled.
Selects(p) == {job[p].cur}
Plans(p) ==
    /\ job[p].at = "plan" /\ ~Conflict(Declared, Selects(p), ctrs)
    /\ Turns(p, CASE CtrAction(Declared, Selects(p), {}, ctrs, job[p].cur) = "create" ->
                       To(p, "create")
                  [] CtrAction(Declared, Selects(p), {}, ctrs, job[p].cur) = "recreate" ->
                       Seen(p, "stop")
                  [] OTHER -> To(p, "check"))
    /\ Silent

Pull(p) ==
    /\ job[p].at = "pull"
    /\ Turns(p, To(p, "inspect"))
    /\ Silent

\* InspectContainer by full name, and what each command makes of the answer.
Inspects(p, cmd) == job[p].at = "inspect" /\ job[p].cmd = cmd

DisableInspects(p) ==
    /\ Inspects(p, "disable")
    /\ Turns(p, IF Cur(p).owner = "unmanaged" THEN Ends(p, "error")
                ELSE IF Cur(p).running THEN Seen(p, "stop") ELSE NextName(p))
    /\ Silent

StartInspects(p) ==
    /\ Inspects(p, "start")
    /\ Turns(p, IF Cur(p).owner = "unmanaged" THEN Ends(p, "error")
                ELSE IF Cur(p).owner = "none" THEN NextName(p) ELSE Seen(p, "wake"))
    /\ Silent

StopInspects(p) ==
    /\ Inspects(p, "stop")
    /\ Turns(p, IF Cur(p).owner = "unmanaged" THEN Ends(p, "error")
                ELSE IF Cur(p).owner = "none" THEN NextName(p) ELSE Seen(p, "stop"))
    /\ Silent

RestartInspects(p) ==
    /\ Inspects(p, "restart")
    /\ Turns(p, IF Cur(p).owner \in {"none", "unmanaged"} THEN Ends(p, "error")
                ELSE Seen(p, "stop"))
    /\ Silent

\* The labels are not looked at.
RepullInspects(p) ==
    /\ Inspects(p, "repull")
    /\ Turns(p, IF Cur(p).owner = "none" THEN To(p, "create") ELSE Seen(p, "stop"))
    /\ Silent

\* Mutant: enable waits until the container runs.
CheckWaits(p) ==
    /\ job[p].at = "check"
    /\ Turns(p, IF Cur(p).owner = "none" \/ Cur(p).running THEN NextName(p)
                ELSE To(p, "check"))
    /\ Silent

\* startStoppedContainer of enable, after its plan has been carried out.
Check(p) ==
    /\ job[p].at = "check"
    /\ Turns(p, IF Cur(p).owner = "none" \/ Cur(p).running THEN NextName(p)
                ELSE Seen(p, "wake"))
    /\ Silent

-----------------------------------------------------------------------------
\* The engine calls, each by the id that was seen.
Stop(p) ==
    /\ job[p].at = "stop" /\ Cur(p).id = CurId(p)
    /\ ctrs' = [ctrs EXCEPT ![job[p].cur].running = FALSE]
    /\ Turns(p, IF job[p].cmd \in {"disable", "stop"} THEN NextName(p) ELSE To(p, "remove"))
    /\ UNCHANGED <<file, kept, faults, events>>

\* Mutant: the container is addressed by its name.
RemoveByName(p) ==
    /\ job[p].at = "remove" /\ Cur(p).owner # "none" /\ ~Cur(p).running
    /\ ctrs' = [ctrs EXCEPT ![job[p].cur] = Absent]
    /\ Turns(p, IF job[p].cmd = "down" THEN NextName(p) ELSE To(p, "create"))
    /\ UNCHANGED <<file, kept, faults, events>>

Remove(p) ==
    /\ job[p].at = "remove" /\ Cur(p).id = CurId(p) /\ ~Cur(p).running
    /\ ctrs' = [ctrs EXCEPT ![job[p].cur] = Absent]
    /\ Turns(p, IF job[p].cmd = "down" THEN NextName(p) ELSE To(p, "create"))
    /\ UNCHANGED <<file, kept, faults, events>>

NewIds == Id \ ({ctrs[n].id : n \in Name} \cup {job[p].ids[n] : p \in Proc, n \in Name})

\* Mutant: the new container is not started.
CreateOnly(p) ==
    /\ job[p].at = "create" /\ Cur(p).owner = "none" /\ NewIds # {}
    /\ ctrs' = [ctrs EXCEPT ![job[p].cur] =
                   [id |-> CHOOSE i \in NewIds : TRUE, owner |-> "ours", running |-> FALSE,
                    hash |-> Hash(Declared.spec[job[p].cur])]]
    /\ Turns(p, NextName(p))
    /\ UNCHANGED <<file, kept, faults, events>>

Create(p) ==
    /\ job[p].at = "create" /\ Cur(p).owner = "none" /\ NewIds # {}
    /\ LET id == CHOOSE i \in NewIds : TRUE
           n == job[p].cur
       IN  /\ ctrs' = [ctrs EXCEPT ![n] =
                          [id |-> id, owner |-> "ours", running |-> FALSE,
                           hash |-> Hash(Declared.spec[n])]]
           /\ Turns(p, [To(p, "start") EXCEPT !.ids[n] = id])
    /\ UNCHANGED <<file, kept, faults, events>>

\* StartContainer, of the container just created or of one that was stopped.
Start(p) ==
    /\ job[p].at \in {"start", "wake"} /\ Cur(p).id = CurId(p)
    /\ ctrs' = [ctrs EXCEPT ![job[p].cur].running = TRUE]
    /\ Turns(p, NextName(p))
    /\ UNCHANGED <<file, kept, faults, events>>

\* Mutant: a command goes on to its next name.
AfterFailureNext(p) ==
    IF job[p].cmd = "down" /\ job[p].at = "stop" THEN To(p, "remove") ELSE NextName(p)

\* What a command does about a call that failed: down only warns, enable goes
\* on when the call was one of its plan, the others end.
AfterFailure(p) ==
    LET cmd == job[p].cmd
        at == job[p].at
    IN  CASE cmd = "down" -> IF at = "stop" THEN To(p, "remove") ELSE NextName(p)
          [] cmd = "enable" /\ at \in {"stop", "remove", "create", "start"} -> To(p, "check")
          [] OTHER -> Ends(p, "error")

\* The calls that cannot succeed as things are.
Hopeless(p) ==
    LET at == job[p].at
    IN  \/ at \in {"stop", "remove", "start", "wake"} /\ Cur(p).id # CurId(p)
        \/ at = "remove" /\ Cur(p).running
        \/ at = "create" /\ Cur(p).owner # "none"
        \/ at = "plan" /\ Conflict(Declared, Selects(p), ctrs)

Fails(p) ==
    /\ job[p].at \notin {"idle", "next"}
    /\ \/ Hopeless(p) /\ UNCHANGED faults
       \/ Fault
    /\ Turns(p, AfterFailure(p))
    /\ UNCHANGED <<file, ctrs, kept, events>>

Killed(p) ==
    /\ job[p].at # "idle"
    /\ Fault
    /\ Turns(p, Ends(p, "killed"))
    /\ UNCHANGED <<file, ctrs, kept, events>>

-----------------------------------------------------------------------------
\* Other parties, among them an apply.
Event(c) ==
    /\ events < MaxEvents /\ events' = events + 1
    /\ ctrs' = c
    /\ job' = [p \in Proc |-> [job[p] EXCEPT !.calm = FALSE]]
    /\ UNCHANGED <<file, kept, faults>>

Exits(n) == ctrs[n].running /\ Event([ctrs EXCEPT ![n].running = FALSE])
Vanishes(n) == ctrs[n].owner # "none" /\ Event([ctrs EXCEPT ![n] = Absent])

Replaced(n, owner) ==
    /\ NewIds # {}
    /\ Event([ctrs EXCEPT ![n] = [id |-> CHOOSE i \in NewIds : TRUE, owner |-> owner,
                                  running |-> owner = "ours",
                                  hash |-> Hash(Declared.spec[n])]])

\* An apply (re)creates the container of a declared name.
Applied(n) ==
    /\ n \in Declared.names /\ ~Declared.spec[n].off
    /\ file.whole /\ n \notin file.names
    /\ ctrs[n].owner \in {"none", "ours"}
    /\ Replaced(n, "ours")

\* A container that is not managed takes the full name.
Taken(n) == ctrs[n].owner \in {"none", "ours"} /\ Replaced(n, "unmanaged")

Step(p) ==
    \/ \E n \in Name :
           \/ DisableTakes(p, n) \/ EnableTakes(p, n) \/ StartTakes(p, n)
           \/ StopTakes(p, n) \/ RestartTakes(p, n) \/ RepullTakes(p, n) \/ DownTakes(p, n)
    \/ DisableInspects(p) \/ StartInspects(p) \/ StopInspects(p)
    \/ RestartInspects(p) \/ RepullInspects(p)
    \/ Finish(p) \/ Truncate(p) \/ Write(p) \/ Plans(p) \/ Pull(p)
    \/ Check(p) \/ Stop(p) \/ Remove(p) \/ Create(p) \/ Start(p) \/ Fails(p)

Invoke(p) == \E cmd \in Cmds, args \in Args : Begin(p, cmd, args) \/ Unreadable(p, cmd, args)

Environment == \E n \in Name : Exits(n) \/ Vanishes(n) \/ Applied(n) \/ Taken(n)

Next == (\E p \in Proc : Invoke(p) \/ Step(p) \/ Killed(p)) \/ Environment

Spec == Init /\ [][Next]_vars
\* A process makes its next call when the last one has returned.
FairSpec == Spec /\ \A p \in Proc : WF_vars(Step(p))

-----------------------------------------------------------------------------
Own(p) == job[p].at # "idle" /\ job'[p].at # job[p].at

\* Whose containers a command may change; down filters by project, too.
Reach(cmd) == IF cmd = "down" THEN {"none", "ours"} ELSE {"none", "ours", "other"}

(***************************************************************************)
(* README:12 "Only objects labeled containerctl.managed=true are touched", *)
(* for the commands that look at the labels before they call: whatever     *)
(* takes the full name between the look and the call, none of them changes *)
(* a container outside its reach.                                          *)
(***************************************************************************)
ManagedOnly ==
    [][\A p \in Proc :
          Own(p) /\ job[p].cmd \in {"disable", "start", "stop", "restart", "down"} =>
              \A n \in Name : ctrs'[n] = ctrs[n] \/ ctrs[n].owner \in Reach(job[p].cmd)]_vars

(***************************************************************************)
(* An exit status of 0 means what it says: left to itself, a start has     *)
(* left every name running that exists and is not disabled, a stop none, a *)
(* restart or repull has every name running with the declared              *)
(* configuration, a disable has every name that was not disabled before    *)
(* listed and stopped -- also the names dealt with before others.  enable  *)
(* and down promise as much only while no call has failed.                 *)
(***************************************************************************)
Succeeded(p, cmd) == job[p].cmd = cmd /\ job[p].at = "idle" /\ job[p].out = "ok" /\ job[p].calm
UpToDate(n) == ctrs[n].running /\ ctrs[n].hash = Hash(Declared.spec[n])

OkMeansDone ==
    \A p \in Proc, n \in Name :
        n \in job[p].args =>
            /\ Succeeded(p, "start") =>
                  n \in job[p].had \/ ctrs[n].owner = "none" \/ ctrs[n].running
            /\ Succeeded(p, "stop") => ~ctrs[n].running
            /\ Succeeded(p, "restart") \/ Succeeded(p, "repull") => UpToDate(n)
            /\ Succeeded(p, "disable") /\ n \notin job[p].had =>
                  n \in file.names /\ ~ctrs[n].running
            /\ faults = 0 =>
                  /\ Succeeded(p, "enable") /\ n \in job[p].had /\ ctrs[n].owner = "ours"
                         => UpToDate(n)
                  /\ Succeeded(p, "down") => ctrs[n].owner # "ours"

(***************************************************************************)
(* "Persistent off": when one command runs at a time, a name disabled with *)
(* success stays in state.json until an enable of it begins, through       *)
(* failures and kills of other commands -- or state.json is Torn, and then *)
(* no command that heeds it runs at all.                                   *)
(***************************************************************************)
DisableSticks == file.whole => kept \subseteq file.names

(***************************************************************************)
(* When one command runs at a time, start and enable start no name that    *)
(* state.json lists, and not while it cannot be read.                      *)
(***************************************************************************)
NoRevival ==
    [][\A p \in Proc, n \in Name :
          (Own(p) /\ job[p].cmd \in {"start", "enable"}
              /\ ~ctrs[n].running /\ ctrs'[n].running)
          => file.whole /\ n \notin file.names]_vars

(***************************************************************************)
(* Commands that only ever bring a container up do not take it down        *)
(* together: when no call fails and no other command runs, any number of   *)
(* start, restart and repull that race for a running container may report  *)
(* errors, yet leave it running when the last of them has ended.           *)
(***************************************************************************)
RacesLeaveRunning ==
    (\A p \in Proc : job[p].at = "idle") => \A n \in Declared.names : ctrs[n].running

\* Every command comes to an end, whatever fails or is in its way.
CommandsEnd == \A p \in Proc : job[p].at # "idle" ~> job[p].at = "idle"

=============================================================================
