-------------------------------- MODULE Apply --------------------------------
(***************************************************************************)
(* `containerctl apply` (cmd/apply.go, internal/reconcile/reconcile.go):   *)
(* one process plans from a snapshot of the host and then issues engine    *)
(* calls one at a time, each of which may fail, while other parties change *)
(* the host, the user edits stack.yaml and the process may be killed.      *)
(***************************************************************************)
EXTENDS Planner

CONSTANTS Stacks,      \* the contents stack.yaml may have
          Selections,  \* the name arguments apply may be given
          MaxFaults,   \* bound: failing calls and kills
          MaxEvents    \* bound: steps of the environment

ASSUME ApplyAssumption ==
    /\ Stacks \subseteq {s \in Stack : ValidStack(s)}
    /\ Selections \subseteq SUBSET Name

VARIABLES stack,      \* stack.yaml
          disabled,   \* the names in state.json
          ctrs,       \* the engine: the container holding each full name
          nets,       \* the engine: this project's managed networks
          images,     \* the engine: images present locally
          pc,         \* "idle", "next" action, or the call to issue for `cur`
          sel, plan,  \* the selection and the plan of the current or last run
          todoPulls, todoNets, todoCtrs,
          unpulled,   \* images this run tried to pull and did not get
          cur, newId, \* the container being worked on; the id Create returned
          res,        \* Result: what happened to each container
          exit,       \* exit status of the last run
          faults, events,
          disturbed   \* the world changed since the plan was computed

world == <<stack, disabled, ctrs, nets, images>>
local == <<sel, plan, todoPulls, todoNets, todoCtrs, unpulled, cur, newId, res>>
vars  == <<world, local, pc, exit, faults, events, disturbed>>

Results == {"none", "created", "recreated", "removed", "skipped", "failed"}

TypeOK ==
    /\ stack \in Stack
    /\ disabled \in SUBSET Name
    /\ ctrs \in [Name -> Ctr]
    /\ nets \in SUBSET Net
    /\ images \in SUBSET Image
    /\ pc \in {"idle", "next", "remove", "create", "start"}
    /\ sel \in SUBSET Name
    /\ plan \in Plan
    /\ todoPulls \in SUBSET Image
    /\ todoNets \in SUBSET Net
    /\ todoCtrs \in SUBSET Name
    /\ unpulled \in SUBSET Image
    /\ cur \in Name
    /\ newId \in Id \cup {NoId}
    /\ pc = "start" => newId \in Id
    /\ res \in [Name -> Results]
    /\ exit \in {"none", "running", "ok", "error", "partial", "killed"}
    /\ faults \in Nat
    /\ events \in Nat
    /\ disturbed \in BOOLEAN

\* The host starts without containers of this project; others may be there.
Init ==
    /\ stack \in Stacks
    /\ disabled = {}
    /\ ctrs = [n \in Name |-> Absent]
    /\ nets = {}
    /\ images = {}
    /\ pc = "idle"
    /\ sel = {}
    /\ plan = Build(stack, {}, disabled, ctrs, nets)
    /\ todoPulls = {} /\ todoNets = {} /\ todoCtrs = {} /\ unpulled = {}
    /\ cur = CHOOSE n \in Name : TRUE
    /\ newId = NoId
    /\ res = [n \in Name |-> "none"]
    /\ exit = "none"
    /\ faults = 0 /\ events = 0 /\ disturbed = FALSE

-----------------------------------------------------------------------------
\* runApply up to the plan: refused, nothing to do, or on to the engine calls.
PlanFor(s) == Build(stack, s, disabled, ctrs, nets)

Invoked(s) == pc = "idle" /\ s \in SUBSET stack.names

ApplyRefused(s) ==
    /\ Invoked(s)
    /\ BuildFails(stack, s, disabled, ctrs)
    /\ exit' = "error"
    /\ UNCHANGED <<world, local, pc, faults, events, disturbed>>

ApplyPlans(s) ==
    /\ Invoked(s)
    /\ ~BuildFails(stack, s, disabled, ctrs)
    /\ sel' = s
    /\ plan' = PlanFor(s)
    /\ unpulled' = {}
    /\ res' = [n \in Name |-> "none"]
    /\ disturbed' = FALSE
    /\ UNCHANGED <<world, cur, newId, faults, events>>

ApplyNothingToDo(s) ==
    /\ ApplyPlans(s)
    /\ ~HasChanges(PlanFor(s))
    /\ exit' = "ok"
    /\ todoPulls' = {} /\ todoNets' = {} /\ todoCtrs' = {}
    /\ UNCHANGED pc

NeedsImage(p) == {p.stack.spec[n].image :
                     n \in {m \in Name : p.ctr[m] \in {"create", "recreate"}}}

ApplyStarts(s) ==
    /\ ApplyPlans(s)
    /\ HasChanges(PlanFor(s))
    /\ exit' = "running"
    /\ pc' = "next"
    /\ todoPulls' = NeedsImage(PlanFor(s))
    /\ todoNets' = {x \in Net : PlanFor(s).net[x] \in {"create", "remove"}}
    /\ todoCtrs' = {n \in Name : PlanFor(s).ctr[n] # "none"}

-----------------------------------------------------------------------------
\* An engine call that returns an error for no reason the model knows.
Fault == faults < MaxFaults /\ faults' = faults + 1

(***************************************************************************)
(* PullImages: every image once, in any order.  An error is printed and    *)
(* the run goes on; Pull throws the engine's answer away, so that a pull   *)
(* that fails after it was accepted is not even printed.                   *)
(***************************************************************************)
PullImage(i) ==
    /\ pc = "next" /\ i \in todoPulls
    /\ todoPulls' = todoPulls \ {i}
    /\ \/ images' = images \cup {i} /\ UNCHANGED <<unpulled, faults>>
       \/ Fault /\ unpulled' = unpulled \cup {i} /\ UNCHANGED images
    /\ UNCHANGED <<stack, disabled, ctrs, nets, pc, sel, plan, todoNets,
                   todoCtrs, cur, newId, res, exit, events, disturbed>>

(***************************************************************************)
(* Networks come first, creations before removals.  The engine refuses to  *)
(* remove a network that a running container is attached to.  Any network  *)
(* error ends the run.                                                     *)
(***************************************************************************)
NetTurn(x) ==
    /\ pc = "next" /\ todoPulls = {} /\ x \in todoNets
    /\ plan.net[x] = "remove" => \A y \in todoNets : plan.net[y] = "remove"

Attached(x) == {n \in Name : ctrs[n].running /\ x \in ctrs[n].hash.nets}

NetworkStep(x) ==
    /\ NetTurn(x)
    /\ plan.net[x] = "remove" => Attached(x) = {}
    /\ nets' = IF plan.net[x] = "create" THEN nets \cup {x} ELSE nets \ {x}
    /\ todoNets' = todoNets \ {x}
    /\ UNCHANGED <<stack, disabled, ctrs, images, pc, sel, plan, todoPulls,
                   todoCtrs, unpulled, cur, newId, res, exit, faults, events,
                   disturbed>>

NetworkFails(x) ==
    /\ NetTurn(x)
    /\ \/ plan.net[x] = "remove" /\ Attached(x) # {} /\ UNCHANGED faults
       \/ Fault
    /\ pc' = "idle"
    /\ exit' = "error"
    /\ UNCHANGED <<world, local, events, disturbed>>

-----------------------------------------------------------------------------
\* Mutants: depends_on is ignored; containers before networks; a health gate.
ReadyAnyOrder(n) == pc = "next" /\ todoPulls = {} /\ todoNets = {} /\ n \in todoCtrs
ReadyBeforeNets(n) ==
    pc = "next" /\ todoPulls = {} /\ n \in todoCtrs /\ plan.after[n] \cap todoCtrs = {}
ReadyAfterSuccess(n) ==
    /\ ReadyAnyOrder(n) /\ plan.after[n] \cap todoCtrs = {}
    /\ \A d \in plan.after[n] : res[d] # "failed"

\* The containers, each after the planned ones it depends on.
Ready(n) ==
    /\ pc = "next" /\ todoPulls = {} /\ todoNets = {}
    /\ n \in todoCtrs /\ plan.after[n] \cap todoCtrs = {}

Finished(n, r) ==
    /\ res' = [res EXCEPT ![n] = r]
    /\ todoCtrs' = todoCtrs \ {n}
    /\ pc' = "next"
    /\ newId' = NoId
    /\ cur' = n
    /\ UNCHANGED <<stack, disabled, nets, images, sel, plan, todoPulls,
                   todoNets, unpulled, exit, events, disturbed>>

Moved(n, to) ==
    /\ pc' = to
    /\ cur' = n
    /\ UNCHANGED <<stack, disabled, nets, images, sel, plan, todoPulls, todoNets,
                   todoCtrs, unpulled, res, exit, faults, events, disturbed>>

LeaveAlone(n) ==
    /\ Ready(n) /\ plan.ctr[n] \in {"skip", "disabled", "declared-off"}
    /\ Finished(n, "skipped")
    /\ UNCHANGED <<ctrs, faults>>

\* stopAndRemove: two calls, both by the id that was planned.
StopTurn(n) == Ready(n) /\ plan.ctr[n] \in {"recreate", "remove"}

\* Mutant: the container is addressed by its name.
StopByName(n) ==
    /\ StopTurn(n)
    /\ ctrs' = [ctrs EXCEPT ![n].running = FALSE]
    /\ Moved(n, "remove")
    /\ UNCHANGED newId

StopOld(n) ==
    /\ StopTurn(n) /\ ctrs[n].id = plan.id[n]
    /\ ctrs' = [ctrs EXCEPT ![n].running = FALSE]
    /\ Moved(n, "remove")
    /\ UNCHANGED newId

StopFails(n) ==
    /\ StopTurn(n)
    /\ \/ ctrs[n].id # plan.id[n] /\ UNCHANGED faults
       \/ Fault
    /\ Finished(n, "failed")
    /\ UNCHANGED ctrs

RemoveOld ==
    /\ pc = "remove" /\ ctrs[cur].id = plan.id[cur] /\ ~ctrs[cur].running
    /\ ctrs' = [ctrs EXCEPT ![cur] = Absent]
    /\ \/ plan.ctr[cur] = "remove"
          /\ Finished(cur, "removed") /\ UNCHANGED faults
       \/ plan.ctr[cur] = "recreate" /\ Moved(cur, "create") /\ UNCHANGED newId

RemoveFails ==
    /\ pc = "remove"
    /\ \/ (ctrs[cur].id # plan.id[cur] \/ ctrs[cur].running) /\ UNCHANGED faults
       \/ Fault
    /\ Finished(cur, "failed")
    /\ UNCHANGED ctrs

\* createAndStart: the engine gives the new container an id nobody refers to.
CreateTurn(n) ==
    \/ Ready(n) /\ plan.ctr[n] = "create"
    \/ pc = "create" /\ n = cur

NewIds == Id \ ({newId} \cup {ctrs[n].id : n \in Name} \cup {plan.id[n] : n \in Name})

\* Mutant: the label carries the hash of a container without its depends_on.
CreatedPartlyHashed(n, id) ==
    [id |-> id, owner |-> "ours", running |-> FALSE,
     hash |-> [Hash(plan.stack.spec[n]) EXCEPT !.deps = {}]]

Created(n, id) ==
    [id |-> id, owner |-> "ours", running |-> FALSE,
     hash |-> Hash(plan.stack.spec[n])]

CanCreate(n) ==
    /\ ctrs[n].owner = "none"
    /\ plan.stack.spec[n].image \in images

CreateNew(n) ==
    /\ CreateTurn(n) /\ CanCreate(n) /\ NewIds # {}
    /\ newId' = CHOOSE id \in NewIds : TRUE
    /\ ctrs' = [ctrs EXCEPT ![n] = Created(n, newId')]
    /\ Moved(n, "start")

CreateFails(n) ==
    /\ CreateTurn(n)
    /\ \/ ~CanCreate(n) /\ UNCHANGED faults
       \/ Fault
    /\ Finished(n, "failed")
    /\ UNCHANGED ctrs

\* A further network cannot be connected and the clean-up fails as well.
CreateLeavesHalf(n) ==
    /\ CreateTurn(n) /\ CanCreate(n) /\ NewIds # {}
    /\ Cardinality(plan.stack.spec[n].nets) > 1
    /\ Fault
    /\ ctrs' = [ctrs EXCEPT ![n] = Created(n, CHOOSE id \in NewIds : TRUE)]
    /\ Finished(n, "failed")

StartNew ==
    /\ pc = "start" /\ ctrs[cur].id = newId /\ ctrs[cur].hash.nets \subseteq nets
    /\ ctrs' = [ctrs EXCEPT ![cur].running = TRUE]
    /\ Finished(cur, IF plan.ctr[cur] = "create" THEN "created" ELSE "recreated")
    /\ UNCHANGED faults

\* Mutant: the error of StartContainer is dropped.
StartErrorDropped ==
    /\ pc = "start"
    /\ Fault
    /\ Finished(cur, "created")
    /\ UNCHANGED ctrs

StartFails ==
    /\ pc = "start"
    /\ \/ (ctrs[cur].id # newId \/ ~(ctrs[cur].hash.nets \subseteq nets))
          /\ UNCHANGED faults
       \/ Fault
    /\ Finished(cur, "failed")
    /\ UNCHANGED ctrs

\* Mutant: HasFailures is not consulted.
ApplyEndsOk ==
    /\ pc = "next" /\ todoPulls = {} /\ todoNets = {} /\ todoCtrs = {}
    /\ pc' = "idle" /\ exit' = "ok"
    /\ UNCHANGED <<world, local, faults, events, disturbed>>

ApplyEnds ==
    /\ pc = "next" /\ todoPulls = {} /\ todoNets = {} /\ todoCtrs = {}
    /\ pc' = "idle"
    /\ exit' = IF \E n \in Name : res[n] = "failed" THEN "partial" ELSE "ok"
    /\ UNCHANGED <<world, local, faults, events, disturbed>>

\* The process dies between two calls; nothing of it survives but the host.
Killed ==
    /\ pc # "idle"
    /\ Fault
    /\ pc' = "idle" /\ exit' = "killed" /\ newId' = NoId
    /\ UNCHANGED <<world, sel, plan, todoPulls, todoNets, todoCtrs, unpulled,
                   cur, res, events, disturbed>>

-----------------------------------------------------------------------------
\* What other parties do to stack.yaml, state.json and the containers.
Event(s, d, c) ==
    /\ events < MaxEvents
    /\ events' = events + 1
    /\ disturbed' = TRUE
    /\ stack' = s /\ disabled' = d /\ ctrs' = c
    /\ UNCHANGED <<nets, images, local, pc, exit, faults>>

\* The user saves another stack.yaml.
EditStack(s) == s # stack /\ Event(s, disabled, ctrs)

Stopped(n) == [ctrs EXCEPT ![n].running = FALSE]

\* `containerctl disable`: save the name, then stop the container.
Disable(n) ==
    /\ n \in stack.names \ disabled
    /\ Event(stack, disabled \cup {n},
             IF ctrs[n].owner = "unmanaged" THEN ctrs ELSE Stopped(n))

\* A container exits, or `containerctl stop` or `docker stop` stops it.
Exits(n) == ctrs[n].running /\ Event(stack, disabled, Stopped(n))

\* Someone removes a container behind the tool's back.
Vanishes(n) ==
    ctrs[n] # Absent /\ Event(stack, disabled, [ctrs EXCEPT ![n] = Absent])

\* A container that is not this project's takes the full name, be it free or
\* freed for it (docker rm -f, docker run).
Taken(n, owner) ==
    /\ ctrs[n].owner \in {"none", "ours"} /\ NewIds # {}
    /\ Event(stack, disabled,
             [ctrs EXCEPT ![n] = [id |-> CHOOSE id \in NewIds : TRUE,
                                  owner |-> owner, running |-> TRUE,
                                  hash |-> NoHash]])

-----------------------------------------------------------------------------
Invoke ==
    \E s \in Selections : ApplyRefused(s) \/ ApplyNothingToDo(s) \/ ApplyStarts(s)

Run ==
    \/ \E i \in Image : PullImage(i)
    \/ \E x \in Net : NetworkStep(x) \/ NetworkFails(x)
    \/ \E n \in Name : \/ LeaveAlone(n)
                       \/ StopOld(n) \/ StopFails(n)
                       \/ CreateNew(n) \/ CreateFails(n) \/ CreateLeavesHalf(n)
    \/ RemoveOld \/ RemoveFails
    \/ StartNew \/ StartFails
    \/ ApplyEnds

Environment ==
    \/ \E s \in Stacks : EditStack(s)
    \/ \E n \in Name : Disable(n) \/ Exits(n) \/ Vanishes(n)
    \/ \E n \in Name, owner \in {"other", "unmanaged"} : Taken(n, owner)

Next == Invoke \/ Run \/ Killed \/ Environment

Spec == Init /\ [][Next]_vars

\* Every engine call returns, and the user keeps running full applies.
FairSpec == Spec /\ WF_vars(Run) /\ WF_vars(ApplyStarts({}))

-----------------------------------------------------------------------------
\* A step of the process itself, as opposed to one of the environment.
Own == events' = events

(***************************************************************************)
(* The inductive invariant behind the safety properties.                   *)
(***************************************************************************)
Active == {"create", "recreate", "remove"}

\* An id the process holds is the id of a container of this project, or of none.
IdsOwned ==
    /\ \A n \in Name : (ctrs[n].owner = "none") <=> (ctrs[n].id = NoId)
    /\ \A n \in Name :
          plan.id[n] # NoId /\ ctrs[n].id = plan.id[n] => ctrs[n].owner = "ours"
    /\ pc = "start" /\ ctrs[cur].id = newId => ctrs[cur].owner = "ours"

\* What each action of a plan says about the stack and the selection.
PlanShape ==
    /\ \A n \in Name : LET a == plan.ctr[n]
                           picked == n \in Selected(plan.stack, sel)
                           off == plan.stack.spec[n].off IN
          /\ a \in {"create", "recreate"} => picked /\ ~off
          /\ a \in {"skip", "disabled", "declared-off"} => picked
          /\ a = "remove" => (picked /\ off) \/ (~picked /\ Full(sel))
          /\ a \in {"recreate", "remove"} => plan.id[n] # NoId
    /\ \A x \in Net : /\ plan.net[x] = "create" => x \in plan.stack.nets
                      /\ plan.net[x] = "remove" => x \notin plan.stack.nets /\ Full(sel)

\* Where the run stands in its plan.
RunShape ==
    /\ pc # "idle" <=> exit = "running"
    /\ \A n \in todoCtrs : plan.ctr[n] # "none"
    /\ \A x \in todoNets : plan.net[x] \in {"create", "remove"}
    /\ pc \in {"remove", "create", "start"} =>
          cur \in todoCtrs /\ todoNets = {} /\ todoPulls = {}
    /\ pc = "remove" => plan.ctr[cur] \in {"recreate", "remove"}
    /\ pc = "create" => plan.ctr[cur] = "recreate"
    /\ pc = "start" => plan.ctr[cur] \in {"create", "recreate"}

\* What a plan may do to the names that state.json listed.
DisabledPlanned ==
    \A n \in plan.disabled :
        /\ plan.ctr[n] \notin {"create", "recreate", "skip"}
        /\ plan.ctr[n] = "remove" =>
              n \notin plan.stack.names \/ plan.stack.spec[n].off

Settled(n) == CtrAction(stack, sel, disabled, ctrs, n) \notin Active
NetSettled(x) == NetAction(stack, sel, nets, x) \notin {"create", "remove"}

\* An undisturbed run has settled all it has dealt with.
Progress ==
    pc # "idle" /\ ~disturbed =>
        /\ stack = plan.stack
        /\ \A n \in Name : plan.ctr[n] \notin Active => Settled(n)
        /\ \A n \in Name \ todoCtrs : res[n] # "failed" => Settled(n)
        /\ \A x \in Net \ todoNets : NetSettled(x)
        /\ pc = "start" => ctrs[cur].hash = Hash(stack.spec[cur])
                           /\ ctrs[cur].owner = "ours"

RunInv == IdsOwned /\ PlanShape /\ RunShape /\ DisabledPlanned /\ Progress

(***************************************************************************)
(* README "Only objects labeled containerctl.managed=true are touched":    *)
(* whatever others do to the host after the plan was computed, including   *)
(* putting their own container under a planned full name, no call of apply *)
(* changes a container that is not this project's (StopContainer and       *)
(* RemoveContainer by the planned id, CreateContainer only on a free name).*)
(***************************************************************************)
ForeignUntouched ==
    [][Own => \A n \in Name :
                 ctrs[n].owner \in {"other", "unmanaged"} => ctrs'[n] = ctrs[n]]_vars

(***************************************************************************)
(* A partial apply changes nothing but the selected containers and never   *)
(* removes a network, also when it is killed, fails midway, or stack.yaml  *)
(* changes under it (SPEC "Partial applies never remove orphaned ...").    *)
(***************************************************************************)
PartialScope ==
    [][Own /\ pc # "idle" /\ ~Full(sel) =>
          /\ nets \subseteq nets'
          /\ \A n \in Name \ sel : ctrs'[n] = ctrs[n]]_vars

(***************************************************************************)
(* `disable` survives apply: no apply creates, starts, stops or removes a  *)
(* container that state.json listed when it planned, unless stack.yaml     *)
(* gives it up, by disabled: true or by not declaring it.  (A container    *)
(* disabled after the plan is started all the same.)                       *)
(***************************************************************************)
DisabledSurvives ==
    [][Own /\ pc # "idle" => \A n \in plan.disabled :
          \/ ctrs'[n] = ctrs[n]
          \/ /\ \/ n \notin plan.stack.names
                \/ plan.stack.spec[n].off
             /\ ~ctrs'[n].running]_vars

(***************************************************************************)
(* A run that reports success has converged: unless the world has changed  *)
(* since its plan, planning again finds nothing to do (exit 0 of runApply).*)
(***************************************************************************)
ExitZeroConverged ==
    exit = "ok" /\ ~disturbed => ~HasChanges(Build(stack, sel, disabled, ctrs, nets))

(***************************************************************************)
(* Result is truthful: left to itself, a finished run has created exactly  *)
(* the containers it lists, they run with the hash of the plan, those it   *)
(* lists as removed are gone, and nothing planned is missing from the      *)
(* lists whatever failed before it.                                        *)
(***************************************************************************)
ResultTruthful ==
    pc = "idle" /\ exit \in {"ok", "partial"} /\ ~disturbed /\ HasChanges(plan) =>
        \A n \in Name :
            /\ (res[n] = "none") = (plan.ctr[n] = "none")
            /\ res[n] \in {"created", "recreated"} =>
                  ctrs[n].running /\ ctrs[n].hash = Hash(plan.stack.spec[n])
            /\ res[n] = "removed" => ctrs[n] = Absent

(***************************************************************************)
(* depends_on is start order: when a container is started after a call of  *)
(* its own run and no other call has failed, every dependency this run     *)
(* creates or recreates is already running with its new configuration.     *)
(***************************************************************************)
DependenciesFirst ==
    [][\A n \in Name :
          (Own /\ ~ctrs[n].running /\ ctrs'[n].running /\ ~disturbed)
          => \A d \in plan.after[n] :
                plan.ctr[d] \in {"create", "recreate"} /\ res[d] # "failed" =>
                    ctrs[d].running /\ ctrs[d].hash = Hash(plan.stack.spec[d])]_vars

(***************************************************************************)
(* No call of apply fails because of the calls before it.  A container is  *)
(* counted as failed only because a call failed of itself (faults), because*)
(* somebody interfered, or, for one to be created, because another project *)
(* has its name, its image could not be had, or it names a network that    *)
(* stack.yaml does not declare: pulls, networks and dependencies, then     *)
(* stop, remove, create and start come in an order the engine accepts.     *)
(***************************************************************************)
HasCause(n) ==
    /\ plan.ctr[n] \in {"create", "recreate"}
    /\ \/ ctrs[n].owner = "other"
       \/ plan.stack.spec[n].image \in unpulled \ images
       \/ ~(plan.stack.spec[n].nets \subseteq plan.stack.nets)

FailsForACause ==
    [][\A n \in Name :
          (Own /\ res[n] # "failed" /\ res'[n] = "failed" /\ faults' = faults /\ ~disturbed)
          => HasCause(n)]_vars

\* Every run comes to an end, whatever fails: no phase waits for ever.
ApplyTerminates == pc # "idle" ~> pc = "idle"

Converged == ~HasChanges(PlanFor({}))

\* Causes the user has to fix: Build refuses, or a foreign container is in the way.
Blocked ==
    \/ BuildFails(stack, {}, disabled, ctrs)
    \/ \E n \in stack.names : ctrs[n].owner = "other"

(***************************************************************************)
(* SPEC "Failure handling": nothing is rolled back, the user re-runs apply *)
(* after fixing the cause.  Once calls stop failing and nobody else acts,  *)
(* re-running a full apply reaches the declared state and stays there.     *)
(***************************************************************************)
RetryConverges == <>[]~Blocked => <>[]Converged

=============================================================================
