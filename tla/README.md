# A TLA+ model of containerctl

`containerctl` keeps the containers of one host in the state a `stack.yaml`
declares. It is a command: every invocation is a process of its own that reads
`stack.yaml`, a small `state.json` and the container engine, and then issues
engine calls one at a time. Nothing is locked between invocations, and nothing
is remembered but what the two files and the engine hold. That is what makes it
worth modelling: plans go stale, calls fail halfway, processes die between two
calls, and the next invocation has to cope with whatever they left behind.

## 1. Inventory

| Component (source) | State | Operations | Talks to |
|---|---|---|---|
| Planner (`internal/reconcile/plan.go`) | none: a function of a snapshot | `Build`, `HasChanges`, `topoSort` | the engine (lists), called by apply, enable, repull, update |
| Apply engine (`internal/reconcile/reconcile.go`) | the plan, the `Result` | `PullImages`, `Apply`, `createAndStart`, `stopAndRemove`, `containerSpec` | engine calls; a pool of goroutines |
| apply command (`cmd/apply.go`) | exit status | `runApply` | planner, apply engine |
| Container hash (`internal/config/hash.go`) | none | `Hash`, `normalize` | read by the planner, written as a label by `containerSpec` |
| Stack loading (`internal/config/load.go`, `validate.go`) | none | `Load`, `validate`, `${VAR}` expansion | every command |
| Managed files (`internal/config/files.go`) | files on the host | materialize before create | apply, enable, repull |
| State file (`internal/state/state.go`) | `state.json`: the disabled names | `Load`, `Save`, `Disable`, `Enable` | disable, enable, apply, status |
| Lifecycle commands (`cmd/disable.go`, `enable.go`, `start.go`, `stop.go`, `restart.go`, `repull.go`, `down.go`) | none | one handler each | state file, planner, engine |
| Selection (`cmd/filter.go`) | none | names and label expressions | all commands with targets |
| Runtime client (`internal/runtime`) | none | one method per engine call | the engine |
| Updates (`cmd/update.go`, `internal/config/update.go`, `internal/registry`) | `stack.yaml` | tag comparison, digest, rewrite of one line, apply | registry, apply engine |
| Prune (`cmd/prune.go`) | none | list, confirm, remove | engine |
| Web terminal (`internal/web/terminal.go`) | one command slot per connection, cancel function | run, interrupt, resize, history | child processes, websocket |
| Web sessions (`internal/web/auth.go`) | sessions, failure counters, block windows | login, check, logout | every handler |
| Web stack editor (`internal/web/handlers.go`) | none; `stack.yaml` and its ETag | GET, conditional PUT, validate | the file |
| Copy (`internal/copy`) | streams in flight | host to container, container to container | engine archives |
| Self-upgrade (`internal/upgrade`) | the binary on disk | decide, download, replace, roll back | GitHub releases |
| Read-only commands, generate, rendering, server and TLS, user configuration, Podman client | none | list and print, route, read | |

Hard behaviours, by component, with the property that makes the component
correct:

* **Apply**: an engine call may fail at any point and is never rolled back; the
  process may be killed between any two calls; another process may stop, remove or
  replace a container after it was planned; `stack.yaml` and `state.json` may
  change under it. Correct when it touches only its own containers, stays within
  its selection, tells the truth in its exit status, fails only for causes outside
  its own order of calls, and when re-running it reaches the declared state.
* **topoSort**: its order depends on Go's random map iteration. Correct when
  whatever the order, dependencies come first and a cycle is reported exactly when
  there is one.
* **PullImages**: two loops and any number of goroutines share a semaphore and a
  channel. Correct when it bounds the pulls, loses none of the errors they return,
  and returns.
* **State file and lifecycle commands**: load, change and save are three steps of
  a process; two commands lose each other's update; `os.WriteFile` truncates
  first; `enable` saves before it reconciles. Correct when exit 0 is truthful, a
  disable persists, and the commands keep to containers they may touch.
* **Updates and the web stack editor**: `update --apply` and every page of the editor
  read the whole `stack.yaml`, change a part and write the whole back; only the saves of
  the editor are conditional, and their check of the ETag and their write are not one step.
  The file is rewritten before the new image is known to exist. Correct when what a
  save was acknowledged for stays, the file is never behind the containers, and no update
  leaves the major version.
* **Web terminal**: the goroutine of a command and the reading loop share one slot, a
  cancel function and the connection; `done` is sent before the slot is free, and the
  page decides by the replies when to accept input. Correct when one command runs at a
  time, each is answered, an interrupt ends it, and nothing outlives the connection (which
  a shell that does not read its input can prevent).
* **Web sessions**: counters and windows that end by the clock, and a session that is
  looked up under one lock and deleted under another. Correct when guessing is slowed as
  documented, a wait that was told suffices, and an answer about a session was true.
* **Copy**: a pipeline of goroutines over streams that may break anywhere, and two archive
  streams of one container that contend for the engine's lock. Correct when exit 0 means
  that nothing was truncated, and every copy ends.
* **Self-upgrade**: a crash between two renames; releases that change between the reading
  of the metadata and the download; two upgrades at once. Correct when the executable is
  always a whole build, and no older version takes its place.

`PROJECT.json` lists each of these hazards at the line where it bites, with the
properties that watch it, or a note that says why none does.

## 2. The modules

    Planner            Build, HasChanges: a function of a snapshot
      Apply            the apply process, the engine, the environment
        MCApply        instances for TLC
        ApplyProofs    theorems
    Pulls              what PullImages promises; Apply!PullImage is this in one step
      PullPool         the loops, goroutines, semaphore, channel; implements Pulls
    LinearExtension    what topoSort promises; Apply!Ready takes containers that way
      TopoSort         Kahn's algorithm; implements LinearExtension
        MCTopoSort
    ReconcileProofs    theorems about TopoSort and PullPool, which it extends both
    Commands           (extends Planner) disable, enable, start, stop, restart, repull, down
      MCCommands, CommandsProofs
    WebSockets         a websocket connection: page, reading loop, command
      WebSocketsProofs
    Copy               cp: streams, renamings, the engine's lock
      MCCopy, CopyProofs
    Versions           comparison of versions and of image tags
      StackEdits       stack.yaml: editor pages and update --apply
        MCStackEdits, StackEditsProofs
      Upgrade          upgrade: decision, download, replacement
        MCUpgrade, UpgradeProofs
    Login              login throttling and the session store, over a clock
      LoginProofs

### Planner

A container of the stack is the record of what the planner and the engine tell
apart: its networks, its dependencies, `disabled: true` (`off`, not hashed) and
`image`, which stands for every other hashed field. A hash is the record of the
fields it is computed from: two containers have the same hash when their
normalised configurations are equal, so that SHA-256 is taken to be injective.
What holds the full name of a logical container is one record: its id, whose it is
by its labels (this project's, another project's, nobody's), whether it runs, and
the hash in its label. `CtrAction` keeps the order of the tests in `Build` (YAML,
then `state.json`, then existence, then hash); `NetAction` and the removal of
orphans depend on `Full(sel)`, an apply without names. `Build` refuses when an
unmanaged container holds a selected name or when the planned containers depend on
each other in a circle.

### Apply

| Variable | In the code |
|---|---|
| `stack`, `disabled` | `stack.yaml`; the names in `state.json` |
| `ctrs`, `nets`, `images` | the engine |
| `pc` | `idle`, between two actions (`next`), or about to issue `remove`, `create`, `start` for `cur` |
| `sel`, `plan` | the arguments, and the `Plan` with the stack and disabled names it was computed from |
| `todoPulls`, `todoNets`, `todoCtrs` | what is left of the three phases |
| `newId` | the id `CreateContainer` returned |
| `res`, `exit` | the `Result`, the exit status |
| `unpulled` | history: images this run tried to pull and did not get, whether an error was printed or the client swallowed it |
| `faults`, `events`, `disturbed` | bounds, and whether the world changed since the plan |

Each engine call is an action with a variant that fails, and the engine's own
refusals (name taken, network in use, image or network missing, running container
removed without force, id gone) are guards of the successful call, so that a call
that cannot succeed takes its failing branch. `stopAndRemove` is `StopOld` and `RemoveOld`,
`createAndStart` is `CreateNew` and `StartNew`; `CreateLeavesHalf` is the branch of
`CreateContainer` in which connecting a further network fails and so does the
clean-up, which leaves a container with the planned hash behind. The environment
edits `stack.yaml`, disables a container (the save and the stop of `disable` taken
as one step, at any time), stops or removes containers, puts another's container
under a name that is free or made free for it, and kills the process.

Abstractions: the snapshot of `Build` (two lists and the state file) is one step;
pulls of one run are taken one at a time, which `PullPool` justifies; the order of
containers is any that respects dependencies, which `TopoSort` justifies; within
one dependency level the alphabetical order of the code is one of those allowed;
parsing of ports, mounts and resource limits in `containerSpec` is one more reason
for `CreateFails`. A pull that fails with an error and one that fails in the stream which
`Client.Pull` discards differ only in what is printed, and are one branch of `PullImage`.

### PullPool and TopoSort

`PullPool` has one action per statement that can block or interleave: taking a
slot, `runtime.Pull` returning (nil with the image, nil without it, as the client discards
the engine's stream, or an error, which the history `refused` keeps), sending the result, giving the slot back,
receiving a result. `TopoSort` seeds the queue in the order a `range` over a map
happens to have, pops a node, and visits its successors one by one.

### Commands

Each process of `Proc` runs one lifecycle command after the other; what the processes
share is `state.json` and the engine.

| Variable | In the code |
|---|---|
| `file` | `state.json`: a set of names, or `Torn`, a text that does not parse |
| `ctrs` | the engine, as in `Apply` |
| `job[p]` | a handler: command, arguments, names left, current name, the call it makes next (`at`), the loaded `State` (`mem`), the ids it has looked up, its outcome |
| `kept` | history: the names disabled with success for which no `enable` has saved since |

For a name a command first makes its tests (`DisableTakes`, `StartTakes`, ...), then
looks the container up (`...Inspects`), then issues `Stop`, `Remove`, `Create`, `Start` by
the id it saw. Two names may be dealt with in any order. `State.Save` is `Truncate` and
`Write`, as `os.WriteFile` does it; when another process has written a longer list in
between, its tail may stay behind the shorter text, and the file no longer parses.
A failing call ends the command, but `down` only warns, and `enable` goes on to start what
there is when a call of its plan has failed (`AfterFailure`). `Killed` ends a process at
any point. An apply of someone else, exits, removals and a container under another
label are events. The stack has no networks here: those calls are `Apply`'s subject, and the
faults they add to `enable` are those of its stage `plan`.

### WebSockets

One connection to `/ws/terminal`, `/ws/logs` or `/ws/exec`, which differ in who is the
handler and who is spawned: on the terminal the reading loop is the handler, on the
others the goroutine of the subprocess is.

| Variable | In the code |
|---|---|
| `sess`, `conn`, `up`, `down` | the session is valid; the connection, and what is under way on it |
| `client` | the page: `running`, and what has the keyboard (`line`, the editor, `/ws/exec`) |
| `loop` | the reading loop: where it is, its message, and in `script` the replies and `finishCmd` that its branch still has to do, in order |
| `slot`, `cancel` | the variables `running` and `cancel != nil` of `handleTerminalWS` |
| `job`, `killed` | the goroutine of the subprocess, a chunk read from the pipe and not yet sent; its context is cancelled |
| `sending`, `writers` | the reply a goroutine is in `send` with; who is inside `WriteJSON` |

A write takes the mutex, blocks while `Cap` replies wait for the client, and fails at
once when the connection is gone; `Interrupt`, `Admit`, `Finish` and `Free` need the mutex,
so a blocked write holds them up, as it does in the code. On `/ws/exec` the reading loop
also writes to the pty (`Feed`), and while its subprocess lives that write may block
(`Feeding`). The command line is abstracted
to its kind: refused, answered by the server itself, `edit`, a shell in `exec`
(`exec_open`), a subprocess that ends, and one that may follow logs for ever.

### Copy

A `cp` is a pipeline. Its source is the engine's `GET /archive`, or the goroutine of
`packLocal`; every renaming (`-L`, or a new name at the destination) is a goroutine of
`rewriteTarBase` that reads one pipe and writes the next; the last reader unpacks,
passes on to stdout, or is the body of `PUT /archive`.

| Variable | In the code |
|---|---|
| `req`, `at` | the arguments; where the main goroutine stands, or how it ended |
| `pipe`, `stages` | blocks written and read of each stream, how it ended, and how many there are |
| `copied`, `temp` | blocks at the destination; whether the temporary file of `drainToTemp` exists |
| `lock` | external: the engine lets one `GET`, `PUT` or `stat` into a container at a time |

An archive is `Entries` entries of a header and data. What decides the outcome of a broken
stream is where it breaks: a tar writer that is closed between two entries still writes
a proper trailer (`Closed`), inside an entry it cannot. `Passes` is what a tar reader
makes of the end it sees. The connection to the engine holds `Buffer` blocks, an `io.Pipe`
one. Names, ownership and the counting of bytes are data.

### StackEdits

| Variable | In the code |
|---|---|
| `text` | `stack.yaml`: the edits it contains and the image of each container, or `Broken` between truncation and write |
| `page` | what each page of the browser shows, what it was read from, the ETag it sends, reads after saves that are not yet answered |
| `put` | a save as `handleFileWrite` sees it: the ETag has been compared (`write`), the file truncated (`writing`) |
| `upd` | the process `update --apply`: containers to do, and the step of the current one |
| `ctr` | the engine |
| `kept`, `raced` | history: acknowledged edits; whether anybody wrote over a text he had not read |

An ETag is the hash of a text, here the text itself. `raced` is set by the write that
replaces another text than the one its writer has read, and by the page when it takes
the ETag of a text it does not show: `saveEditor` reads the file back after the 204.
`Target` is `CheckTagUpdates` and the choice of its last element; the tags of the
registry are a set. After the file, each container is pulled, inspected, stopped, removed,
created and started; a failure is printed and the next one is taken (`Fails`).

### Login

`validateLogin` is one step, as it holds `failMu` throughout; `valid` is three (`Lookup`,
`Judge`, `Delete`), as it releases the lock after the look-up. Every duration is an age in
ticks that stops at the last value the code tells apart, so that a clock without bound has
finitely many states. `globalFailures`, `count`, `blocked` are the fields of the store,
`sessions` its map; `Younger` is the loop that keeps the failures inside a window. `tries`, `told`, `ended` and the `live` of a request are history: the
wrong tokens of the last `BlockFor` ticks, what is left of a wait that was told, the
sessions that are over, and what a request has seen of its own while under way.

### Upgrade

Each process of `Proc` fetches a release (`Fetch`), decides (`Judge`), downloads (`Get`,
`Write`), verifies and replaces. `dest` and `old` are the executable and `<executable>.old`;
`image` follows the file a running process was started from through renames, which is what
Windows refuses to replace or remove. `replaceFile` is `Swap` on Unix and
`Clear`, `Aside`, `MoveIn`, `Back`, `Clean` on Windows. `Publish` is `release.yaml`: a version,
or the rolling release deleted or made for any commit, as runs of the workflow may overlap
and be repeated. A build is its track, its
version numbers, whether a suffix follows, and its commit.

## 3. What the runs show

| Run | Question | Instance |
|---|---|---|
| `apply_safety` | no interleaving with faults, kills and environment breaks the safety properties | db and web, six stacks, three selections, 1 fault, 2 events |
| `apply_liveness` | each apply ends; re-running converges | four stacks with the same network, full and partial applies, 1 fault, 2 events |
| `topo_sort` | all iteration orders give a correct order or a true cycle | all graphs on three names, those on four with three or four edges |
| `pull_pool` | no returned error lost, returns, implements `Pulls` | four images, two slots |
| `commands_alone` | one command at a time, with faults, kills and others' steps: exit 0 is truthful, a disable persists, commands that look at labels keep to managed containers | two declared names and one that is not, four lists of arguments (`repull` takes one name), two hosts, 1 fault, 1 event |
| `commands_race` | start, restart and repull of one container leave it running | three processes, no faults |
| `web_sockets` | one command at a time, all answered, nothing left behind, but for a shell that does not read | all endpoints, three commands, one interrupt, two replies in the network |
| `copy` | what exits 0 is not truncated, every copy ends | two processes, two containers and the host, all directions, two entries, 1 fault |
| `copy_partial` | `docs/SPEC.md:299`: exit 0 means copied. It does not: see section 6 | one process, one renaming, 1 fault |
| `stack_edits` | saves are kept, the file leads, updates stay in their major version | two pages with two and one edits, one update of two containers, 1 fault |
| `login` | throttling, honest waits, true answers | two addresses, windows of 5, 3 and 2 ticks, two sessions, one request |
| `upgrade` | the executable stays whole, and versions move forward | two processes, both kinds of system, three releases, two rolling commits, 1 publication, 2 faults |

Properties of `Apply`:

* `ForeignUntouched`: no call changes a container that is not the project's, even
  when it was put under the planned name after the plan.
* `PartialScope`: an apply with names changes only those containers and removes no
  network.
* `DisabledSurvives`: what `state.json` listed at planning time is not created,
  started or replaced.
* `ExitZeroConverged`: after exit 0 in an undisturbed world a second plan is empty.
* `ResultTruthful`: the lists of `Result` are what happened.
* `DependenciesFirst`: order among containers.
* `FailsForACause`: apart from interference, a container is counted as failed only when a call
  failed of itself, its name is another project's, its image could not be had, or it names a
  network the stack does not declare; the order of the calls makes none of them fail.
* `ApplyTerminates`, `RetryConverges`: liveness.

Properties of `Commands`: `OkMeansDone` (exit 0 against the engine, for every name given),
`DisableSticks`, `NoRevival` (start and enable against `state.json`), `ManagedOnly` (what takes
the name between look-up and call is not touched: `disable`, `start`, `stop`, `restart` and `down`
change no unmanaged container, and `down` none of another project; `enable` and `repull` are outside it,
and section 6 says what `repull` does), `RacesLeaveRunning`, `CommandsEnd`.

Properties of `WebSockets`: `SlotHeld`, `NothingLost` (in quiescence a page with the keyboard
accepts input), `DoneIsLast`, `WritersTakeTurns`, `NoWorkAfterLogout`; liveness `Answered`,
`InterruptEnds`, `NoOrphans` (after a disconnect everything ends, or the loop of `/ws/exec` stays in
a write to a subprocess that does not read: section 6).

Properties of `Copy`: `NothingTruncated` and the liveness `CopiesEnd`. Of `StackEdits`: `SavesKept`,
`NeverAhead`, `StaysInMajor`, `ConflictMeansChange` (a page whose own last save is the file's text is
not told of a conflict, unless a write has raced: with a second update, more than the run has, a lost
write can bring the page's own text back after it has read another's ETag, 28 steps from the start). Of `Login`: `Throttled`, `FailuresBounded`, `WaitIsEnough`,
`AnswersWereTrue`. Of `Upgrade`: `BinaryWhole` and `InstallsForward` (a greater version for a version;
with a digest what was decided on, and not the rolling build that runs).

**Bounds.** `MaxFaults` caps failing calls and kills, `MaxEvents` the steps of the
environment; both are guards of those steps only, so a run of apply is never cut
short. One fault and two events are enough for each hazard listed: the longest
needs a first apply, an edit or an intrusion, and a second apply in which one call
fails. `Ids` is 1..5: `NewIds` hands out ids not in use, and two containers, their
successors and an intruder never need more. Two names suffice for one dependency,
one partial selection and one orphan; two networks for one created and one removed in
the same plan; two images for one change of hash. Longer chains of dependencies are
`TopoSort`'s question, and there graphs have up to four nodes (a diamond, a
four-cycle, a self-dependency). Four images on two slots make the first loop of
`PullImages` wait twice. In `Commands` one fault and one event reach every failing branch,
and a process issues any number of commands, so that a fault in one meets the next; three
processes are as many as the stages of a recreation that can be told apart
(stopped, removed, created). Three commands on a connection are one whose answer is
late, one sent too early because of it, and one after that; two replies in the network
make the third write block.

Two entries make a stream that breaks before, inside, between and after entries; a buffer
of one block makes every writer wait for its reader. In `StackEdits` one page types twice,
so that it saves with an ETag it has read back, while another saves once; the tags include
a longer one, one with more digits, one of another suffix and one of another major version,
and one container is at a floating tag. In `Login` the windows keep the order of the real
ones (`Delay` below `BlockFor` below `Window`) and are all different; `Threshold`
is three, so that an address can be blocked by its own failures (two) or by everyone's. `Id`
bounds the logins. In `Upgrade` one publication between decision and download is enough for a rolling
build to be swapped for an earlier one or for the one that runs, as an executable may be of any commit to
begin with. Two faults are what it takes to leave Windows without an
executable: a refused second rename and a refused rename back.

**Fairness.** `Apply`: `WF(Run)`, because the process issues its next call as soon
as the last returned and every engine call carries the engine's answer or an
error; `WF(ApplyStarts({}))` is the assumption of SPEC "Failure handling" that the
user re-runs apply, and is needed by `RetryConverges` only. `RetryConverges` assumes
that what blocks a plan is eventually removed (`Blocked`); partial applies of any names may come between
the full ones, and do not delay it for ever. It is run on stacks that
keep their networks: section 6 says why. `PullPool`: weak fairness of the caller and of each goroutine, Go's
scheduler, and a `Pull` that returns. `Commands`: `WF(Step(p))` for each process, as
for apply; no command need ever be invoked. `WebSockets`: both goroutines, a page that
reads what arrives, and a subprocess that exits when it is killed or when it follows
nothing; neither the user, nor a subprocess that follows logs, has to do anything, and a write to a
subprocess that does not read has no fairness (`~Feeding`).
`Copy`: the main goroutine, the source and each renaming go on when they can, which is Go's
scheduler and an engine that answers; no fault has to happen. The other modules state safety only.

Deadlock checking is off for `topo_sort` and `pull_pool`, functions that end, for
`web_sockets`, where a connection ends, for `copy` and `copy_partial`, where each process copies
once (and where `Crossed`, below, stands still), and for `stack_edits`, `login` and `upgrade`,
whose bounded edits, logins and releases run out.

## 4. What is proved

The theorems hold for every set of names, networks, images, ids, stacks and selections
(finite where cardinalities are used), of pages, tags, containers, requests, sessions and
releases, any number of processes, faults, events, workers, commands, edits and interrupts, any
size of archive, lifetime, and capacity of the network. The assumptions are those
named in the modules: `PlannerAssumption` (the empty id is no id, there is an
image), `ApplyAssumption` (stacks are valid, selections are sets of names), the
ones on the graphs of `TopoSort`, and `PoolAssumption` (finitely many images, at
least one slot), `SocketsAssumption` (bounds are naturals, the network holds a reply),
`CopyAssumption` (an archive has an entry, requests are what `runCp` accepts), `StackEditsAssumption`
(tags are versions with a suffix), `HostsAssumption` of `StackEdits` (to begin with no container is newer
than `stack.yaml` says) and of `Commands` (a container has an id, and a free name does not run), `LoginAssumption` (the order of the windows), `UpgradeAssumption` and
`BuildAssumption` (a build is told apart from a missing file and from half a download).
Three theorems about `Commands` have a hypothesis of their own, because the property is false without
it (section 6): `OneAtATime` (no two commands overlap) for `Persistent` and `StartsOnlyEnabled`,
`OnlyBringUp` (start, restart and repull of running containers, no failing call, nobody else) for
`RacesEndUp`. They are what the instances of `commands_alone` and `commands_race` satisfy.

* **Apply.** `TypeCorrect`, then `RunInvariant: Spec => []RunInv`. `RunInv` is
  inductive and has five parts: `IdsOwned` (an id in the plan, or returned by create, is
  carried by a container of the project or by none: this is why addressing by id
  makes `ForeignUntouched` hold though the host changes), `PlanShape` (what each kind of
  action says about the selection and the stack), `RunShape` (where `pc` and the todo
  sets stand), `DisabledPlanned`, and `Progress` (in an undisturbed run what is done or
  needs nothing is settled). From it follow `ForeignSafe`, `PartialStaysInScope`,
  `DisabledStays` and `ExitZeroIsConverged`. `ResultInv` says of a container what `Result`
  will say while the call that settles it is still to come; with `RunInv` it gives `ResultIsTruthful`
  and `StartsAfterDependencies`. `Expected` adds of an undisturbed run that what is still to be done is as
  it was planned (`Untouched`) and the container at hand is as the call before left it (`AtHand`); with
  the images and networks of `Prepared` every guard of a call is then met but for the causes named, which
  is `FailuresHaveCauses`. `PlanOrdered` keeps from `Build` that the
  `depends_on` of the containers to do have no circle: some container is always ready, and no phase
  waits for ever (`RunNeverStuck`). Each step uses up a call, at most one for an image or a network and four for
  a container (`RunRunsOut`, for `FiniteStacks`).
* **TopoSort.** `SortInv` says that the in-degree of a node counts the edges not yet
  visited, that what is placed has its dependencies before it, and that nodes
  unplaced when the queue is empty have unplaced dependencies. `SortTyped`,
  `CycleTestExact` (the length test reports a cycle exactly when there is one)
  and the refinement `SortImplements` follow.
* **PullPool.** `PoolInv` equates the counters with the sizes of what they count:
  slots taken with goroutines not exited, results received with workers whose result is
  no longer in the channel, and the failed workers with the pulls that returned an error. `PoolBounded`, `PoolReports` and the refinement
  `PoolRefines` follow. The channel has room for all results, so a worker that holds a slot can
  always give it back, and whoever waits for a slot or a result waits for such a worker
  (`PoolCannotDeadlock`); each of the five steps of an image is taken once (`PoolRunsOut`).
* **Commands.** `CommandInv` is the inductive type invariant: which calls a command makes (`Shape`), and that a
  container that still has the id a command saw is the one it saw (`SeenIds`), whatever happened in
  between, because an engine never gives out an id twice. `TypeCorrect`, `Labels`. `TrustInv` is about a
  command that runs alone: the `State` it holds is what `state.json` has, but for the name it
  is about to save (`Persistent`, `StartsOnlyEnabled`). `RaceInv`: of the processes that have taken
  a container down together, one still holds the id of what is there, or waits to create what is not;
  a call that spoils another's step is itself a step of bringing the container up (`RacesEndUp`).
  `CalmInv`, for any number of processes: while nobody interferes with a command, the file
  and the engine are as it has seen and left them, so that what it has done of the names before
  the current one is still done at its end (`StatusTruthful`). No step of a command leads back, and
  none of another process adds to it (`CommandsRunOut`, for finitely many names).
* **WebSockets.** `SocketInv` has four parts: `WireInv` (which messages and replies are under
  way on which endpoint), `SlotInv`, `TurnInv` and `LiveInv`. `SlotHeld` alone is not inductive:
  the slot is taken a step before the subprocess is there, and it is freed at two places, by
  the command's goroutine and by `finishCmd`. `SlotInv` adds that the slot is held from
  `Admit` to `Start`, and that a script with a `finish` to come runs only while there is no
  job, and has only one. `TypeCorrect`, `OneCommand`, `OneWriter` and `LogoutHolds` follow.
  `OrderInv` numbers the commands: what is under way, at the reading loop, at the command's goroutine, at
  the mutex or on the wire, belongs to the last command admitted, and nothing of it comes after its
  `done` (`DoneLast`). `DueInv`: while the page waits at its prompt, the command it sent or a reply that
  ends the wait is somewhere between the page, the loop, the goroutine and the wire (`NoAnswerLost`).
  `GoneInv`: a script ends with the step that ends the loop, and once the loop is gone the
  subprocess is killed or there is none. With the guards of all steps it gives `ConnectionsDoNotHang`:
  when neither a goroutine nor the page can go on, either the loop waits for a message, all
  that was sent is read, and a subprocess is there at most if nobody killed it; or the connection is
  closed and nothing is left; or the loop of `/ws/exec` is in its write to a subprocess, which is
  the one exception the code makes necessary. `InterruptsKill`: an interrupt that has been read hits.
* **Copy.** `CopyInv` says of each process, from the values of its own pipeline, that a stream is
  read no further than it is written, that a stage has written what it has read and ends after
  the one before (`Chained`), that a trailer never stands inside an entry (`Sound`), and that
  what has arrived is what the last pipe gave. `NothingTruncated` is not inductive without it: the
  end of the last pipe says nothing of the first. `PipelinesConsistent`, `CopiesWhole`. `LockInv`
  adds why a process holds the lock of a container: it streams from it and has not come to the end, or into
  it. A pipeline that is read always has somebody who can go on (`PipelineFlows`), so that a copy stands still
  only at the lock of another copy, and all of them only in a ring of crossed ones
  (`OnlyCrossedCopiesWait`). What is left of its streams, counted twice for the draining, bounds its
  steps (`CopiesRunOut`).
* **StackEdits.** `TextsTyped` shows that all texts there are, in the file, in the pages and in the update,
  declare tags of the first major versions: that is what `MajorStays` needs, as a racing save brings
  back any earlier text. `EditInv` adds who has seen what: a page shows the text it read and its own
  edits, a writer past its check has in it what it replaces, at most one writes (`OneWriter`), and the
  last whole text of the file (`LastWhole`, which while somebody writes is the one he has seen) has every
  acknowledged edit and no tag behind a container's. It rests on transitivity of `Greater`,
  proved as a lemma. `EditsSound`, `SavesStay`, `FileLeads`.
  `MatchInv`: once its saves have been read back a page has the ETag of the text it was read from,
  and a save carries it, unless a write raced (`ConflictsAreChanges`).
* **Login.** `SessionInv`: the store has every session that is not over, one that is over is there
  only if it is too old, and a request that holds an entry read earlier has seen its session live if
  the entry is young, and over if it is old. `StoreSound`, `AnswersTrue`. `ThrottleInv`: beyond
  the first `Threshold` the failures everyone shares are `Delay` apart, which bounds the list; the tries since the
  last success are no more than `count`, or lie before the block that began; what an address was told to wait
  covers its block and everyone's delay, as both only run out. `ThrottleSound`, `TriesThrottled`,
  `ListBounded`, `WaitSuffices`. What the filter of a list returns (`YoungerIsEnd`) is a statement for every
  length of list; in place of an induction theorem it is proved from its least counterexample, which exists
  by `LeastOf` (the order of the naturals is well-founded).
* **Upgrade.** `UpgradeInv`: a process runs the file under the name in `image`, and while that is the
  executable the executable is there; what is about to be renamed into place is a whole build; when the
  executable is away `.old` is there, and someone is between two renames or has died there. That
  `.old` is never removed while it is the only copy follows from the process that removes it: it
  then runs `.old` itself. `UpgradesSound`, `BinaryStaysWhole`. `ForwardInv` adds what a process knows: from the decision
  on, what has been read is what its `--version` asks for (`Reads`), stays what it was compared as
  (`Decided`), and what has been downloaded is that, or, as the rolling release changes under it, some
  rolling build in place of one (`Loaded`); the digest leaves only the first: `InstallsGoForward`. It rests on
  `OrderAssumption`: `Greater` agrees with the order the releases are meant to have.

Every invariant and every action property of a run that passes is stated by a theorem. Only
model-checked are the liveness properties (`ApplyTerminates`, `RetryConverges`, `PoolReturns`,
`CommandsEnd`, `Answered`, `InterruptEnds`, `NoOrphans`, `CopiesEnd`), whose proofs need fairness and
ENABLED, out of the prover's reach, and the counterexample of `copy_partial`. Of most of them the
safety half is proved, that a step is always there and that the steps run out: `RunNeverStuck`
and `RunRunsOut` for `ApplyTerminates`, `PoolCannotDeadlock` and `PoolRunsOut` for `PoolReturns`,
`CommandsRunOut` for `CommandsEnd` (a command waits for nobody: each of its calls succeeds or
fails), `OnlyCrossedCopiesWait` and `CopiesRunOut` for `CopiesEnd`. For `Answered`, `InterruptEnds` and
`NoOrphans` the first part is: `NoAnswerLost`, `InterruptsKill`, `ConnectionsDoNotHang`. In these
theorems ENABLED is spelt out as the guards (`CanGo`, `LoopCan`, `JobCan`). That a step which can be taken is
taken is the fairness.

## 5. What is not modelled

* **Read-only commands, `generate`, rendering, TLS and static files, user configuration, the choice
  of the Podman socket.** They read and print, and keep no state.
* **Managed files.** Written before a container is created; two writers of one host path write
  what the same `stack.yaml` says, and no later step reads it. `Apply` has them as one more reason
  for a call to fail.
* **Prune.** A list, a question, and removals that the engine refuses for what is in use.
  No protocol between steps beyond what the engine itself guards.
* **The registry's HTTP protocol** (pages of tags, tokens, digests): `Registry` is the set of tags
  that comes out of it. `update --check` without `--apply` prints.
* **Selectors.** Label expressions are evaluated before anything changes; commands get names.
* **The container hash** is its normalised fields, so SHA-256 is taken to be injective and the order of
  lists, which the code sorts or keeps, is not told apart.
* **Loading of `stack.yaml`**: only what `validate` guarantees of names and `depends_on`.
* **Runtime client**: the calls that change something, with the engine behind them as external.

A next step would be the steps that remain to a connection of the web terminal once the page has left it
or waits for an answer.

## 6. Where documents and code disagree

Shown by a run:

* `copy_partial`: `docs/SPEC.md:299` gives `cp` the exit codes "0 ok, 1 error". When an archive breaks
  between two entries while a renaming is on its way, the deferred `Close` of `rewriteTarBase` writes a
  proper trailer before the error is passed on; the reader stops at the trailer, and `cp` exits 0 with
  entries missing. `packLocal` does the same to a host file that cannot be read.

Met while modelling. The models have this behaviour, and properties state their exceptions for it,
except where it lies in data they leave out (status codes, the order of networks in the hash, expired
entries that stay in their maps):

* `docs/SPEC.md:610` removes orphaned networks after containers. The code removes them first
  (`reconcile.go:45`), and the engine refuses while a container is attached: every re-run ends at
  the same place. `RetryConverges` is run on stacks that keep their networks for this reason.
* `docs/SPEC.md:37` says unmanaged containers are never touched. `repull` (`repull.go:67`)
  stops and removes whatever holds the full name, without a look at its labels.
* `README.md:76` calls `disable` persistent. Two that overlap both report success, and the later
  save drops the other's name (`disable.go:62`).
* `docs/SPEC.md:1163` says that any inbound message interrupts a log stream. A message of a valid
  session does nothing (`terminal.go:424`).
* `README.md:238` says that concurrent edits return 409. `handleFileWrite` compares the ETag, then
  reads the body and writes: two saves, or a save and an `update`, can both pass. `saveEditor` then
  takes the ETag of whatever it reads back, so that a later save of the page overwrites
  another's text without a conflict. `SavesKept` and `NeverAhead` hold unless a write `raced`.
* `docs/SPEC.md:1010` requires `If-Match`; a `PUT` without one is accepted. `docs/SPEC.md:1177` says 200 where
  the code answers 204.
* `docs/SPEC.md:299` copies from and to managed containers; `cp` does not look at the label.
* Two processes that stream between the same two containers in opposite directions each hold the
  lock the other waits for, and neither ends: `Crossed` in `CopiesEnd`.
* `Pull` of the runtime client discards the stream in which the engine reports errors after the
  request was accepted (`docker.go:229`), so that such a pull returns nil without the image and
  `PullImages` reports nothing; `create` fails later. `AllReported` speaks of the errors `Pull` returns.
* When connecting a further network fails and the clean-up too (`docker.go:312`), the container that stays
  behind has the planned hash. This run counts it as failed; later plans skip it, unconnected and stopped.
* `terminal.go:771` says the goroutine that reads `/ws/exec` kills the subprocess on disconnect. It also
  writes the input to the pty (`terminal.go:788`); when the subprocess does not read, that write blocks,
  the disconnect is never noticed, and subprocess and goroutines stay. `NoOrphans` and
  `ConnectionsDoNotHang` except it (`Feeding`).
* `update --apply` exits 0 when containers failed to be recreated.
* When both waits apply, `validateLogin` tells the delay for everyone (three seconds), though the block of
  the address may be longer: `Blocked` in `Login` counts that answer as no promise.
* Sessions and failure counters that nobody presents again stay in their maps after they expire.
* Two upgrades that overlap can leave the older release installed: each compares with the
  build it runs. `InstallsForward` is about a process and what it replaces itself with.
* The release workflow may publish an older commit as the rolling release, and where GitHub gives no digest an
  upgrade that decided on one commit installs whatever is there by then, the running one included.
* A build `v1.2.3-rc.1` is told it is up to date when `v1.2.3` is the latest release, and one that is asked
  for by its own tag, without a digest from GitHub, exits 1.
* On Windows `.old` stays behind after an upgrade, as the process itself runs from it; while a long-lived
  process still does, the next upgrade is refused.
* `hash.go:162` sorts `h.Networks`, which is never filled: networks in another order change the
  hash, against `docs/SPEC.md:520`.
* `cmd/stop.go:18` says stopped containers restart on the next apply. `Build` compares only
  hashes, so a stopped container whose spec has not changed is skipped and stays stopped.
* `docs/SPEC.md:602` says removal because of `disabled: true` clears the entry in
  `state.json`. Nothing does; the name stays disabled after the YAML line is taken back.
* `docs/SPEC.md:614` says a container whose pull failed is skipped. The error is printed and
  the container is stopped and removed all the same.
* A `disable` issued while an apply is pulling is overruled by the plan made before it,
  and later applies leave the container running.
* `disable` saves before it stops: after a stop that failed, a second `disable` finds the
  name, says "already disabled" and exits 0 while the container runs.
* `enable` exits 0 when its plan failed; `down` exits 0 when a container could not be
  removed. `restart` and `repull` do not read `state.json` and revive a disabled container.
* The page treats both `error` and `done` as the end of a command. With an `error` read and
  its `done` still under way, a command entered quickly is taken for finished by
  that `done`, and Ctrl+C no longer interrupts it.
* When `/ws/exec` is refused before it opens, or its socket fails, nothing resets `running`:
  the page takes no more input until it is reloaded.
* The reader of `/ws/logs` sends `session_invalid` without the mutex that its sibling
  writes under, so that both may be inside `WriteJSON`.
