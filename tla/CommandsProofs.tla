--------------------------- MODULE CommandsProofs ---------------------------
(***************************************************************************)
(* Proofs about Commands, for any stack, host, number of processes, faults *)
(* and steps of other parties.                                             *)
(***************************************************************************)
EXTENDS Commands, FiniteSetTheorems, TLAPS

\* The commands that look at labels before they call.
Labelled == {"disable", "start", "stop", "restart", "down"}

\* Which calls a command makes.
Calls(cmd, at) ==
    /\ cmd = "none" => at = "idle"
    /\ cmd = "disable" => at \in {"idle", "next", "save", "writing", "inspect", "stop"}
    /\ cmd = "enable" => at \notin {"pull", "inspect"}
    /\ cmd = "start" => at \in {"idle", "next", "inspect", "wake"}
    /\ cmd = "stop" => at \in {"idle", "next", "inspect", "stop"}
    /\ cmd \in {"restart", "repull"} =>
          at \in {"idle", "next", "pull", "inspect", "stop", "remove", "create", "start"}
    /\ cmd = "down" => at \in {"idle", "next", "stop", "remove"}

\* A command works on a name it has yet to do, and calls by ids.
Shape(j) ==
    /\ j.at \in {"stop", "remove", "start", "wake"} => j.ids[j.cur] \in Id
    /\ j.at \notin {"idle", "next"} => j.cur \in j.todo
    /\ j.at = "idle" => j.todo = {}
    /\ j.cmd = "down" => \A n \in j.todo : j.ids[n] \in Id
    /\ Calls(j.cmd, j.at)

\* While the container with an id that was seen is there, it is what was seen.
SeenIds(j, c) ==
    \A n \in Name :
        j.ids[n] # NoId /\ j.ids[n] = c[n].id =>
            /\ j.cmd \in Labelled => c[n].owner \in Reach(j.cmd)
            /\ j.at = "start" /\ n = j.cur =>
                  c[n].owner = "ours" /\ c[n].hash = Hash(Declared.spec[n])

Good(j, c) == j \in Job /\ Shape(j) /\ SeenIds(j, c)

CommandInv ==
    /\ file \in File /\ kept \in SUBSET Name /\ faults \in Nat /\ events \in Nat
    /\ ctrs \in [Name -> Ctr] /\ Engine(ctrs)
    /\ job \in [Proc -> Job] /\ \A p \in Proc : Good(job[p], ctrs)

\* What a step leaves of a container: itself, its absence, or a new one.
Stays(c, d, new) ==
    \A n \in Name :
        \/ d[n].id = c[n].id /\ d[n].owner = c[n].owner /\ d[n].hash = c[n].hash
        \/ d[n].id = NoId
        \/ d[n].id \in new

-----------------------------------------------------------------------------
LEMMA AbsentTyped ==
    Absent \in Ctr /\ Absent.id = NoId /\ Absent.owner = "none" /\ ~Absent.running
<1>1. NoHash \in Hashes
  BY PlannerAssumption DEF NoHash, Hashes
<1>2. QED
  BY <1>1 DEF Absent, Ctr, Owner

LEMMA IdleTyped == Idle.cur \in Name /\ Idle \in Job /\ NoIds \in [Name -> Id \cup {NoId}]
<1>1. \E n \in Name : TRUE
  BY CommandsAssumption DEF Stack, ValidStack
<1>2. Idle.cur \in Name
  BY <1>1 DEF Idle
<1>3. QED
  BY <1>2 DEF Idle, Job, NoIds, Stages

LEMMA SpecTyped ==
    ASSUME NEW n \in Name
    PROVE  Hash(Declared.spec[n]) \in Hashes
BY CommandsAssumption DEF Hash, Hashes, Stack, Container

LEMMA NewIdsFresh ==
    ASSUME NewIds # {}, NEW id, id = CHOOSE i \in NewIds : TRUE
    PROVE  /\ id \in NewIds /\ id \in Id /\ id # NoId
BY PlannerAssumption DEF NewIds

\* A process acts, and the others learn of it.
LEMMA TurnsTo ==
    ASSUME job \in [Proc -> Job], NEW p \in Proc, NEW j \in Job, Turns(p, j)
    PROVE  /\ job' \in [Proc -> Job] /\ job'[p] = j
           /\ \A q \in Proc \ {p} : job'[q] = [job[q] EXCEPT !.calm = FALSE]
<1>1. \A q \in Proc : [job[q] EXCEPT !.calm = FALSE] \in Job
  BY DEF Job
<1>2. QED
  BY <1>1 DEF Turns

LEMMA OtherGood ==
    ASSUME NEW j, NEW c, NEW d, NEW new, Good(j, c), Stays(c, d, new),
           NoId \notin Id, \A n \in Name : j.ids[n] \notin new
    PROVE  Good([j EXCEPT !.calm = FALSE], d)
<1> DEFINE k == [j EXCEPT !.calm = FALSE]
<1>1. /\ k \in Job /\ k.cmd = j.cmd /\ k.at = j.at /\ k.cur = j.cur /\ k.ids = j.ids
      /\ k.todo = j.todo
  BY DEF Good, Job
<1> HIDE DEF k
<1>2. Shape(k)
  BY <1>1 DEF Good, Shape
<1>3. SeenIds(k, d)
  BY <1>1 DEF Good, SeenIds, Stays
<1>4. QED
  BY <1>1, <1>2, <1>3 DEF Good, k

LEMMA StepGood ==
    ASSUME CommandInv, NEW p \in Proc, NEW j, Turns(p, j), Good(j, ctrs'),
           file' \in File, kept' \in SUBSET Name, faults' \in Nat, events' \in Nat,
           ctrs' \in [Name -> Ctr], Engine(ctrs'), Stays(ctrs, ctrs', NewIds)
    PROVE  CommandInv'
<1>1. job \in [Proc -> Job] /\ j \in Job
  BY DEF CommandInv, Good
<1>2. /\ job' \in [Proc -> Job] /\ job'[p] = j
      /\ \A q \in Proc \ {p} : job'[q] = [job[q] EXCEPT !.calm = FALSE]
  BY <1>1, TurnsTo
<1>3. ASSUME NEW q \in Proc \ {p} PROVE Good([job[q] EXCEPT !.calm = FALSE], ctrs')
  <2>1. \A n \in Name : job[q].ids[n] \notin NewIds
    BY DEF NewIds
  <2>2. QED
    BY <2>1, OtherGood, PlannerAssumption DEF CommandInv
<1>4. QED
  BY <1>2, <1>3 DEF CommandInv

-----------------------------------------------------------------------------
\* The job of a process after each way to go on.
LEMMA ToFields ==
    ASSUME CommandInv, NEW p \in Proc, NEW at \in Stages
    PROVE  /\ To(p, at) \in Job
           /\ To(p, at).cmd = job[p].cmd /\ To(p, at).args = job[p].args
           /\ To(p, at).todo = job[p].todo /\ To(p, at).cur = job[p].cur
           /\ To(p, at).at = at
           /\ To(p, at).mem = job[p].mem /\ To(p, at).had = job[p].had
           /\ To(p, at).ids = job[p].ids
           /\ To(p, at).out = job[p].out /\ To(p, at).calm = job[p].calm
BY DEF CommandInv, Good, Job, To

LEMMA SeenFields ==
    ASSUME CommandInv, NEW p \in Proc, NEW at \in Stages
    PROVE  /\ Seen(p, at) \in Job
           /\ Seen(p, at).cmd = job[p].cmd /\ Seen(p, at).args = job[p].args
           /\ Seen(p, at).todo = job[p].todo /\ Seen(p, at).cur = job[p].cur
           /\ Seen(p, at).at = at
           /\ Seen(p, at).mem = job[p].mem /\ Seen(p, at).had = job[p].had
           /\ Seen(p, at).ids = [job[p].ids EXCEPT ![job[p].cur] = Cur(p).id]
           /\ Seen(p, at).out = job[p].out /\ Seen(p, at).calm = job[p].calm
BY DEF CommandInv, Good, Job, Seen, Cur, Ctr

LEMMA NextFields ==
    ASSUME CommandInv, NEW p \in Proc
    PROVE  /\ NextName(p) \in Job
           /\ NextName(p).cmd = job[p].cmd /\ NextName(p).args = job[p].args
           /\ NextName(p).todo = job[p].todo \ {job[p].cur}
           /\ NextName(p).at = "next"
           /\ NextName(p).mem = job[p].mem /\ NextName(p).had = job[p].had
           /\ NextName(p).ids = [job[p].ids EXCEPT ![job[p].cur] = NoId]
           /\ NextName(p).out = job[p].out /\ NextName(p).calm = job[p].calm
BY IdleTyped DEF CommandInv, Good, Job, NextName, Stages

LEMMA EndsFields ==
    ASSUME CommandInv, NEW p \in Proc, NEW out \in {"ok", "error", "killed"}
    PROVE  /\ Ends(p, out) \in Job
           /\ Ends(p, out).cmd = job[p].cmd /\ Ends(p, out).args = job[p].args
           /\ Ends(p, out).todo = {} /\ Ends(p, out).at = "idle"
           /\ Ends(p, out).mem = {} /\ Ends(p, out).had = job[p].had
           /\ Ends(p, out).ids = NoIds
           /\ Ends(p, out).out = out /\ Ends(p, out).calm = job[p].calm
BY IdleTyped DEF CommandInv, Good, Job, Ends, Stages

LEMMA WithFields ==
    ASSUME CommandInv, NEW p \in Proc, NEW n \in Name, NEW at \in Stages
    PROVE  /\ With(p, n, at) \in Job
           /\ With(p, n, at).cmd = job[p].cmd /\ With(p, n, at).args = job[p].args
           /\ With(p, n, at).todo = job[p].todo /\ With(p, n, at).cur = n
           /\ With(p, n, at).at = at
           /\ With(p, n, at).mem = job[p].mem /\ With(p, n, at).had = job[p].had
           /\ With(p, n, at).ids = job[p].ids
           /\ With(p, n, at).out = job[p].out /\ With(p, n, at).calm = job[p].calm
BY DEF CommandInv, Good, Job, With

LEMMA SkipFields ==
    ASSUME CommandInv, NEW p \in Proc, NEW n \in Name
    PROVE  /\ Skip(p, n) \in Job
           /\ Skip(p, n).cmd = job[p].cmd /\ Skip(p, n).args = job[p].args
           /\ Skip(p, n).todo = job[p].todo \ {n} /\ Skip(p, n).cur = job[p].cur
           /\ Skip(p, n).at = job[p].at
           /\ Skip(p, n).mem = job[p].mem /\ Skip(p, n).had = job[p].had
           /\ Skip(p, n).ids = job[p].ids
           /\ Skip(p, n).out = job[p].out /\ Skip(p, n).calm = job[p].calm
BY DEF CommandInv, Good, Job, Skip

LEMMA JobFields ==
    ASSUME CommandInv, NEW p \in Proc
    PROVE  /\ job[p] \in Job /\ job[p].cur \in Name /\ job[p].todo \in SUBSET Name
           /\ job[p].ids \in [Name -> Id \cup {NoId}]
           /\ job[p].cmd \in Commands \cup {"none"} /\ job[p].at \in Stages
           /\ job[p].args \in SUBSET Name
           /\ job[p].mem \in SUBSET Name /\ job[p].had \in SUBSET Name
           /\ Shape(job[p]) /\ SeenIds(job[p], ctrs)
BY DEF CommandInv, Good, Job

\* What has been seen stays true of what stays.
LEMMA SeenStays ==
    ASSUME CommandInv, NEW p \in Proc, NEW d, Stays(ctrs, d, NewIds)
    PROVE  SeenIds(job[p], d)
<1>1. \A n \in Name : job[p].ids[n] \notin NewIds
  BY DEF NewIds
<1>2. QED
  BY <1>1 DEF CommandInv, Good, SeenIds, Stays

LEMMA NextGood ==
    ASSUME CommandInv, NEW p \in Proc, NEW d, Stays(ctrs, d, NewIds), job[p].at # "idle"
    PROVE  Good(NextName(p), d)
<1>1. SeenIds(job[p], d) /\ Shape(job[p])
  BY SeenStays, JobFields
<1>2. /\ \A n \in Name \ {job[p].cur} : NextName(p).ids[n] = job[p].ids[n]
      /\ NextName(p).ids[job[p].cur] = NoId
  <2>1. NextName(p).ids = [job[p].ids EXCEPT ![job[p].cur] = NoId]
    BY NextFields
  <2>2. job[p].ids \in [Name -> Id \cup {NoId}] /\ job[p].cur \in Name
    BY JobFields
  <2>3. QED
    BY <2>1, <2>2
<1>3. Shape(NextName(p))
  <2>1. Calls(NextName(p).cmd, NextName(p).at)
    BY <1>1, NextFields DEF Shape, Calls
  <2>2. ASSUME NextName(p).cmd = "down", NEW n \in NextName(p).todo
       PROVE  NextName(p).ids[n] \in Id
    <3>1. job[p].cmd = "down" /\ n \in job[p].todo
      BY <2>2, NextFields
    <3>2. n \in Name
      BY <3>1, JobFields
    <3>3. job[p].ids[n] \in Id
      BY <1>1, <3>1, <3>2 DEF Shape
    <3>4. QED
      BY <2>2, <1>1, <1>2, <3>1, <3>2, <3>3, JobFields, NextFields
  <2>3. QED
    BY <2>1, <2>2, NextFields DEF Shape
<1>4. SeenIds(NextName(p), d)
  BY <1>1, <1>2, NextFields DEF SeenIds
<1>5. QED
  BY <1>3, <1>4, NextFields DEF Good

LEMMA EndsGood ==
    ASSUME CommandInv, NEW p \in Proc, NEW out \in {"ok", "error", "killed"}, NEW d
    PROVE  Good(Ends(p, out), d)
BY EndsFields DEF Good, Shape, Calls, SeenIds, NoIds

LEMMA ToGood ==
    ASSUME CommandInv, NEW p \in Proc, NEW at \in Stages \ {"idle", "next", "start"},
           NEW d, Stays(ctrs, d, NewIds),
           job[p].at \notin {"idle", "next"}, Calls(job[p].cmd, at),
           at \in {"stop", "remove", "wake"} => CurId(p) \in Id
    PROVE  Good(To(p, at), d)
<1>1. SeenIds(job[p], d) /\ Shape(job[p]) /\ job[p] \in Job
  BY SeenStays DEF CommandInv, Good
<1>2. Shape(To(p, at))
  BY <1>1, ToFields DEF Shape, CurId
<1>3. SeenIds(To(p, at), d)
  BY <1>1, ToFields DEF SeenIds
<1>4. QED
  BY <1>2, <1>3, ToFields DEF Good

\* A container that has been looked at is called by its id from then on.
LEMMA SeenGood ==
    ASSUME CommandInv, NEW p \in Proc, NEW at \in {"stop", "wake"},
           job[p].at \notin {"idle", "next"}, Calls(job[p].cmd, at),
           Cur(p).owner # "none",
           job[p].cmd \in Labelled => Cur(p).owner \in Reach(job[p].cmd)
    PROVE  Good(Seen(p, at), ctrs)
<1>1. SeenIds(job[p], ctrs) /\ Shape(job[p]) /\ job[p] \in Job /\ at \in Stages
  BY DEF CommandInv, Good, Stages
<1>2. Cur(p).id \in Id /\ job[p].cur \in Name
  BY <1>1 DEF CommandInv, Engine, Ctr, Cur, Job
<1>3. /\ \A n \in Name \ {job[p].cur} : Seen(p, at).ids[n] = job[p].ids[n]
      /\ Seen(p, at).ids[job[p].cur] = Cur(p).id
  <2>1. Seen(p, at).ids = [job[p].ids EXCEPT ![job[p].cur] = Cur(p).id]
    BY <1>1, SeenFields
  <2>2. job[p].ids \in [Name -> Id \cup {NoId}]
    BY JobFields
  <2>3. QED
    BY <1>2, <2>1, <2>2
<1>4. Shape(Seen(p, at))
  <2>1. ASSUME Seen(p, at).cmd = "down", NEW n \in Seen(p, at).todo
       PROVE  Seen(p, at).ids[n] \in Id
    <3>1. job[p].cmd = "down" /\ n \in job[p].todo
      BY <2>1, <1>1, SeenFields
    <3>2. n \in Name
      BY <3>1, JobFields
    <3>3. job[p].ids[n] \in Id
      BY <1>1, <3>1, <3>2 DEF Shape
    <3>4. QED
      BY <2>1, <1>1, <1>2, <1>3, <3>1, <3>2, <3>3, JobFields, SeenFields
  <2>2. Calls(Seen(p, at).cmd, Seen(p, at).at) /\ Seen(p, at).cur \in Seen(p, at).todo
    BY <1>1, SeenFields DEF Shape
  <2>3. QED
    BY <1>1, <1>2, <1>3, <2>1, <2>2, SeenFields DEF Shape
<1>5. SeenIds(Seen(p, at), ctrs)
  BY <1>1, <1>2, <1>3, SeenFields DEF SeenIds, Cur
<1>6. QED
  BY <1>1, <1>4, <1>5, SeenFields DEF Good

LEMMA WithGood ==
    ASSUME CommandInv, NEW p \in Proc, NEW n \in job[p].todo,
           NEW at \in {"save", "inspect", "pull", "stop"},
           job[p].at = "next", Calls(job[p].cmd, at),
           at = "stop" => job[p].cmd = "down"
    PROVE  n \in Name /\ Good(With(p, n, at), ctrs)
<1>1. SeenIds(job[p], ctrs) /\ Shape(job[p]) /\ job[p] \in Job /\ at \in Stages /\ n \in Name
  BY DEF CommandInv, Good, Stages, Job
<1>2. Shape(With(p, n, at))
  BY <1>1, WithFields DEF Shape
<1>3. SeenIds(With(p, n, at), ctrs)
  BY <1>1, WithFields DEF SeenIds
<1>4. QED
  BY <1>1, <1>2, <1>3, WithFields DEF Good

LEMMA SkipGood ==
    ASSUME CommandInv, NEW p \in Proc, NEW n \in Name, job[p].at = "next"
    PROVE  Good(Skip(p, n), ctrs)
<1>1. SeenIds(job[p], ctrs) /\ Shape(job[p]) /\ job[p] \in Job
  BY DEF CommandInv, Good
<1>2. Shape(Skip(p, n))
  BY <1>1, SkipFields DEF Shape
<1>3. SeenIds(Skip(p, n), ctrs)
  BY <1>1, SkipFields DEF SeenIds
<1>4. QED
  BY <1>2, <1>3, SkipFields DEF Good

-----------------------------------------------------------------------------
\* What the steps make of the engine.
LEMMA SameStays == \A c, new : Stays(c, c, new)
BY DEF Stays

LEMMA RunStays ==
    ASSUME CommandInv, NEW n \in Name, NEW run \in BOOLEAN, ctrs[n].owner # "none"
    PROVE  LET d == [ctrs EXCEPT ![n].running = run]
           IN  d \in [Name -> Ctr] /\ Engine(d) /\ Stays(ctrs, d, NewIds)
<1> DEFINE d == [ctrs EXCEPT ![n].running = run]
<1>1. /\ d \in [Name -> Ctr]
      /\ \A m \in Name \ {n} : d[m] = ctrs[m]
      /\ d[n].id = ctrs[n].id /\ d[n].owner = ctrs[n].owner /\ d[n].hash = ctrs[n].hash
  BY DEF CommandInv, Ctr
<1> HIDE DEF d
<1>2. Engine(d)
  BY <1>1 DEF CommandInv, Engine
<1>3. Stays(ctrs, d, NewIds)
  BY <1>1 DEF Stays
<1>4. QED
  BY <1>1, <1>2, <1>3 DEF d

LEMMA AbsentStays ==
    ASSUME CommandInv, NEW n \in Name
    PROVE  LET d == [ctrs EXCEPT ![n] = Absent]
           IN  d \in [Name -> Ctr] /\ Engine(d) /\ Stays(ctrs, d, NewIds)
<1> DEFINE d == [ctrs EXCEPT ![n] = Absent]
<1>1. /\ d \in [Name -> Ctr]
      /\ \A m \in Name \ {n} : d[m] = ctrs[m]
      /\ d[n] = Absent
  BY AbsentTyped DEF CommandInv
<1> HIDE DEF d
<1>2. Engine(d)
  BY <1>1, AbsentTyped DEF CommandInv, Engine
<1>3. Stays(ctrs, d, NewIds)
  BY <1>1, AbsentTyped DEF Stays
<1>4. QED
  BY <1>1, <1>2, <1>3 DEF d

LEMMA NewStays ==
    ASSUME CommandInv, NEW n \in Name, NEW id \in NewIds, id \in Id,
           NEW owner \in {"ours", "unmanaged"}, NEW run \in BOOLEAN
    PROVE  LET d == [ctrs EXCEPT ![n] = [id |-> id, owner |-> owner, running |-> run,
                                         hash |-> Hash(Declared.spec[n])]]
           IN  d \in [Name -> Ctr] /\ Engine(d) /\ Stays(ctrs, d, NewIds)
<1> DEFINE new == [id |-> id, owner |-> owner, running |-> run,
                   hash |-> Hash(Declared.spec[n])]
           d == [ctrs EXCEPT ![n] = new]
<1>1. new \in Ctr /\ new.id = id /\ new.owner = owner /\ id # NoId
  BY SpecTyped, PlannerAssumption DEF Ctr, Owner
<1> HIDE DEF new
<1>2. /\ d \in [Name -> Ctr]
      /\ \A m \in Name \ {n} : d[m] = ctrs[m]
      /\ d[n] = new
  BY <1>1 DEF CommandInv
<1> HIDE DEF d
<1>3. Engine(d)
  BY <1>1, <1>2 DEF CommandInv, Engine
<1>4. Stays(ctrs, d, NewIds)
  BY <1>1, <1>2 DEF Stays
<1>5. QED
  BY <1>2, <1>3, <1>4 DEF d, new

\* Whatever an id was seen of is still there when a call by that id succeeds.
LEMMA CurFacts ==
    ASSUME CommandInv, NEW p \in Proc
    PROVE  /\ Cur(p) \in Ctr /\ (Cur(p).owner = "none" <=> Cur(p).id = NoId)
           /\ Cur(p).id \in Id \/ Cur(p).owner = "none"
           /\ Cur(p).owner = "none" => ~Cur(p).running
           /\ job[p].at \in {"stop", "remove", "start", "wake"} => CurId(p) \in Id
           /\ job[p].at \in {"stop", "remove", "start", "wake"} /\ Cur(p).id = CurId(p) =>
                 /\ Cur(p).owner # "none"
                 /\ job[p].cmd \in Labelled => Cur(p).owner \in Reach(job[p].cmd)
<1>1. job[p].cur \in Name /\ Shape(job[p]) /\ SeenIds(job[p], ctrs)
  BY JobFields
<1>2. Cur(p) \in Ctr /\ (Cur(p).owner = "none" <=> Cur(p).id = NoId)
      /\ (Cur(p).owner = "none" => ~Cur(p).running)
  BY <1>1 DEF CommandInv, Cur, Engine
<1>3. Cur(p).id \in Id \/ Cur(p).owner = "none"
  BY <1>2 DEF Ctr
<1>4. job[p].at \in {"stop", "remove", "start", "wake"} => CurId(p) \in Id
  BY <1>1 DEF Shape, CurId
<1>5. ASSUME job[p].at \in {"stop", "remove", "start", "wake"}, Cur(p).id = CurId(p)
      PROVE  /\ Cur(p).owner # "none"
             /\ job[p].cmd \in Labelled => Cur(p).owner \in Reach(job[p].cmd)
  <2>1. CurId(p) # NoId
    BY <1>4, <1>5, PlannerAssumption
  <2>2. QED
    BY <1>1, <1>2, <1>5, <2>1 DEF SeenIds, Cur, CurId
<1>6. QED
  BY <1>2, <1>3, <1>4, <1>5

\* A step that only turns the job.
LEMMA QuietGood ==
    ASSUME CommandInv, NEW p \in Proc, NEW j, Turns(p, j), Good(j, ctrs), Silent
    PROVE  CommandInv'
BY StepGood, SameStays DEF Silent, CommandInv

-----------------------------------------------------------------------------
LEMMA BeginGood ==
    ASSUME CommandInv, NEW p \in Proc, NEW cmd \in Cmds, NEW args \in Args,
           Begin(p, cmd, args)
    PROVE  CommandInv'
<1> DEFINE mem  == IF cmd \in Loads THEN file.names ELSE {}
           todo == IF cmd = "down" THEN Listed(args) ELSE args
           ids  == IF cmd # "down" THEN NoIds
                   ELSE [n \in Name |-> IF n \in todo THEN ctrs[n].id ELSE NoId]
           j    == [cmd |-> cmd, args |-> args, todo |-> todo, cur |-> Idle.cur,
                    at |-> "next", mem |-> mem, had |-> mem, ids |-> ids,
                    out |-> "none", calm |-> TRUE]
<1>1. cmd \in Commands /\ args \in SUBSET Name
  BY CommandsAssumption
<1>2. mem \in SUBSET Name
  BY DEF CommandInv, File
<1>3. /\ todo \in SUBSET Name
      /\ cmd = "down" => \A n \in todo : ctrs[n].owner = "ours" /\ ctrs[n].id \in Id
  BY <1>1 DEF Listed, CommandInv, Engine, Ctr
<1>4. /\ ids \in [Name -> Id \cup {NoId}]
      /\ cmd # "down" => \A n \in Name : ids[n] = NoId
      /\ cmd = "down" => \A n \in Name : ids[n] = IF n \in todo THEN ctrs[n].id ELSE NoId
  BY <1>3, IdleTyped DEF NoIds
<1> HIDE DEF mem, todo, ids
<1>5. /\ j \in Job /\ j.cmd = cmd /\ j.at = "next" /\ j.todo = todo /\ j.ids = ids
  BY <1>1, <1>2, <1>3, <1>4, IdleTyped DEF Job, Stages
<1> HIDE DEF j
<1>6. Shape(j)
  BY <1>1, <1>3, <1>4, <1>5 DEF Shape, Calls, Commands
<1>7. SeenIds(j, ctrs)
  BY <1>1, <1>3, <1>4, <1>5 DEF SeenIds, Reach
<1>8. Turns(p, j) /\ Silent
  BY DEF Begin, j, mem, todo, ids
<1>9. QED
  BY <1>5, <1>6, <1>7, <1>8, QuietGood DEF Good

LEMMA UnreadableGood ==
    ASSUME CommandInv, NEW p \in Proc, NEW cmd \in Cmds, NEW args \in Args,
           Unreadable(p, cmd, args)
    PROVE  CommandInv'
<1> DEFINE j == [Idle EXCEPT !.cmd = cmd, !.args = args, !.out = "error"]
<1>1. cmd \in Commands /\ args \in SUBSET Name
  BY CommandsAssumption
<1>2. j \in Job /\ j.cmd = cmd /\ j.at = "idle" /\ j.todo = {} /\ j.ids = NoIds
  BY <1>1, IdleTyped DEF Job, Idle
<1> HIDE DEF j
<1>3. Shape(j) /\ SeenIds(j, ctrs)
  BY <1>1, <1>2 DEF Shape, Calls, SeenIds, NoIds
<1>4. Turns(p, j) /\ Silent
  BY DEF Unreadable, j
<1>5. QED
  BY <1>2, <1>3, <1>4, QuietGood DEF Good

\* The choice of a name keeps the invariant, whatever it does to the State.
LEMMA TakesGood ==
    ASSUME CommandInv, NEW p \in Proc, NEW n \in Name,
           \/ DisableTakes(p, n) \/ EnableTakes(p, n) \/ StartTakes(p, n)
           \/ StopTakes(p, n) \/ RestartTakes(p, n) \/ RepullTakes(p, n) \/ DownTakes(p, n)
    PROVE  CommandInv'
<1>1. Silent /\ job[p].at = "next" /\ n \in job[p].todo
  BY DEF DisableTakes, EnableTakes, StartTakes, StopTakes, RestartTakes, RepullTakes,
         DownTakes, Chooses
<1>2. Good(Ends(p, "error"), ctrs) /\ Good(Skip(p, n), ctrs)
  BY <1>1, EndsGood, SkipGood
<1>3. ASSUME NEW at \in {"save", "inspect", "pull", "stop"}, Calls(job[p].cmd, at),
             at = "stop" => job[p].cmd = "down", NEW S \in SUBSET Name
      PROVE  Good(With(p, n, at), ctrs) /\ Good([With(p, n, at) EXCEPT !.mem = S], ctrs)
  <2> DEFINE j == With(p, n, at)
             k == [j EXCEPT !.mem = S]
  <2>1. Good(j, ctrs)
    BY <1>1, <1>3, WithGood
  <2> HIDE DEF j
  <2>2. /\ k \in Job /\ k.cmd = j.cmd /\ k.at = j.at /\ k.cur = j.cur /\ k.ids = j.ids
        /\ k.todo = j.todo
    BY <2>1 DEF Good, Job
  <2> HIDE DEF k
  <2>3. Shape(k) /\ SeenIds(k, ctrs)
    BY <2>1, <2>2 DEF Good, Shape, SeenIds
  <2>4. QED
    BY <2>1, <2>2, <2>3 DEF Good, k, j
<1>4. /\ job[p].mem \cup {n} \in SUBSET Name /\ job[p].mem \ {n} \in SUBSET Name
  BY JobFields
<1>5. CASE DisableTakes(p, n)
  <2>1. Good([With(p, n, "save") EXCEPT !.mem = job[p].mem \cup {n}], ctrs)
    BY <1>3, <1>4, <1>5 DEF DisableTakes, Chooses, Calls
  <2>2. [With(p, n, "save") EXCEPT !.mem = @ \cup {n}]
           = [With(p, n, "save") EXCEPT !.mem = job[p].mem \cup {n}]
    <3>1. "save" \in Stages
      BY DEF Stages
    <3>2. With(p, n, "save").mem = job[p].mem
      BY <3>1, WithFields
    <3>3. QED
      BY <3>2
  <2>3. QED
    BY <1>1, <1>2, <1>5, <2>1, <2>2, QuietGood DEF DisableTakes
<1>6. CASE EnableTakes(p, n)
  <2>1. Good([With(p, n, "save") EXCEPT !.mem = job[p].mem \ {n}], ctrs)
    BY <1>3, <1>4, <1>6 DEF EnableTakes, Chooses, Calls
  <2>2. [With(p, n, "save") EXCEPT !.mem = @ \ {n}]
           = [With(p, n, "save") EXCEPT !.mem = job[p].mem \ {n}]
    <3>1. "save" \in Stages
      BY DEF Stages
    <3>2. With(p, n, "save").mem = job[p].mem
      BY <3>1, WithFields
    <3>3. QED
      BY <3>2
  <2>3. QED
    BY <1>1, <1>2, <1>6, <2>1, <2>2, QuietGood DEF EnableTakes
<1>7. CASE StartTakes(p, n)
  <2>1. Good(With(p, n, "inspect"), ctrs)
    BY <1>3, <1>7 DEF StartTakes, Chooses, Calls
  <2>2. QED
    BY <1>1, <1>2, <1>7, <2>1, QuietGood DEF StartTakes
<1>8. CASE StopTakes(p, n) \/ RestartTakes(p, n)
  <2>1. Good(With(p, n, "inspect"), ctrs)
    BY <1>3, <1>8 DEF StopTakes, RestartTakes, Chooses, Calls
  <2>2. QED
    BY <1>1, <1>8, <2>1, QuietGood DEF StopTakes, RestartTakes
<1>9. CASE RepullTakes(p, n)
  <2>1. Good(With(p, n, "pull"), ctrs)
    BY <1>3, <1>9 DEF RepullTakes, Chooses, Calls
  <2>2. QED
    BY <1>1, <1>9, <2>1, QuietGood DEF RepullTakes
<1>10. CASE DownTakes(p, n)
  <2>1. Good(With(p, n, "stop"), ctrs)
    BY <1>3, <1>10 DEF DownTakes, Chooses, Calls
  <2>2. QED
    BY <1>1, <1>10, <2>1, QuietGood DEF DownTakes
<1>11. QED
  BY <1>5, <1>6, <1>7, <1>8, <1>9, <1>10

LEMMA FinishGood ==
    ASSUME CommandInv, NEW p \in Proc, Finish(p)
    PROVE  CommandInv'
<1>1. Turns(p, Ends(p, "ok")) /\ Good(Ends(p, "ok"), ctrs)
  BY EndsGood DEF Finish
<1>2. kept' \in SUBSET Name
  BY JobFields DEF CommandInv, Finish
<1>3. QED
  BY <1>1, <1>2, StepGood, SameStays DEF CommandInv, Finish

LEMMA SaveGood ==
    ASSUME CommandInv, NEW p \in Proc, Truncate(p) \/ Write(p)
    PROVE  CommandInv'
<1>1. file' \in File
  <2>1. Torn \in File /\ Holding(job[p].mem) \in File
    BY JobFields DEF Torn, Holding, File
  <2>2. file' \in {Torn, Holding(job[p].mem)}
    BY DEF Truncate, Write
  <2>3. QED
    BY <2>1, <2>2
<1>2. kept' \in SUBSET Name
  BY DEF CommandInv, Truncate, Write
<1>3. job[p].at \in {"save", "writing"} /\ job[p].cmd \in {"disable", "enable"}
  BY JobFields DEF Truncate, Write, Shape, Calls, Commands
<1>4. /\ Good(To(p, "writing"), ctrs)
      /\ job[p].cmd = "disable" => Good(To(p, "inspect"), ctrs)
      /\ job[p].cmd = "enable" => Good(To(p, "plan"), ctrs)
  BY <1>3, ToGood, SameStays DEF Stages, Calls
<1>5. \E j : Turns(p, j) /\ Good(j, ctrs)
  BY <1>3, <1>4 DEF Truncate, Write
<1>6. QED
  BY <1>1, <1>2, <1>5, StepGood, SameStays DEF CommandInv, Truncate, Write

LEMMA PlansGood ==
    ASSUME CommandInv, NEW p \in Proc, Plans(p)
    PROVE  CommandInv'
<1>1. job[p].at = "plan" /\ job[p].cmd = "enable" /\ Silent
  BY JobFields DEF Plans, Shape, Calls, Commands
<1> DEFINE action == CtrAction(Declared, Selects(p), {}, ctrs, job[p].cur)
<1>2. CASE action = "create"
  <2>1. Good(To(p, "create"), ctrs)
    BY <1>1, ToGood, SameStays DEF Stages, Calls
  <2>2. QED
    BY <1>1, <1>2, <2>1, QuietGood DEF Plans
<1>3. CASE action = "recreate"
  <2>1. Cur(p).owner # "none"
    BY <1>3, AbsentTyped DEF CtrAction, Cur
  <2>2. Good(Seen(p, "stop"), ctrs)
    BY <1>1, <2>1, SeenGood DEF Labelled, Calls
  <2>3. QED
    BY <1>1, <1>3, <2>2, QuietGood DEF Plans
<1>4. CASE action \notin {"create", "recreate"}
  <2>1. Good(To(p, "check"), ctrs)
    BY <1>1, ToGood, SameStays DEF Stages, Calls
  <2>2. QED
    BY <1>1, <1>4, <2>1, QuietGood DEF Plans
<1>5. QED
  BY <1>2, <1>3, <1>4

LEMMA PullGood ==
    ASSUME CommandInv, NEW p \in Proc, Pull(p)
    PROVE  CommandInv'
<1>1. Good(To(p, "inspect"), ctrs)
  BY JobFields, ToGood, SameStays DEF Pull, Stages, Calls, Shape, Commands
<1>2. QED
  BY <1>1, QuietGood DEF Pull

LEMMA InspectsGood ==
    ASSUME CommandInv, NEW p \in Proc,
           \/ DisableInspects(p) \/ StartInspects(p) \/ StopInspects(p)
           \/ RestartInspects(p) \/ RepullInspects(p) \/ Check(p)
    PROVE  CommandInv'
<1>1. Cur(p).owner \in Owner /\ (Cur(p).owner = "none" => ~Cur(p).running)
  BY CurFacts DEF Ctr
<1>2. job[p].at \notin {"idle", "next"} /\ Silent
  BY DEF DisableInspects, StartInspects, StopInspects, RestartInspects, RepullInspects,
         Inspects, Check
<1>3. Good(Ends(p, "error"), ctrs) /\ Good(NextName(p), ctrs)
  BY <1>2, EndsGood, NextGood, SameStays
<1>4. CASE DisableInspects(p)
  <2>1. Cur(p).owner # "unmanaged" /\ Cur(p).running => Good(Seen(p, "stop"), ctrs)
    BY <1>1, <1>2, <1>4, SeenGood DEF DisableInspects, Inspects, Calls, Reach, Owner
  <2>2. QED
    BY <1>2, <1>3, <1>4, <2>1, QuietGood DEF DisableInspects
<1>5. CASE StartInspects(p)
  <2>1. Cur(p).owner \notin {"unmanaged", "none"} => Good(Seen(p, "wake"), ctrs)
    BY <1>1, <1>2, <1>5, SeenGood DEF StartInspects, Inspects, Calls, Reach, Owner
  <2>2. QED
    BY <1>2, <1>3, <1>5, <2>1, QuietGood DEF StartInspects
<1>6. CASE StopInspects(p) \/ RestartInspects(p)
  <2>1. Cur(p).owner \notin {"unmanaged", "none"} => Good(Seen(p, "stop"), ctrs)
    BY <1>1, <1>2, <1>6, SeenGood
       DEF StopInspects, RestartInspects, Inspects, Calls, Reach, Owner
  <2>2. QED
    BY <1>2, <1>3, <1>6, <2>1, QuietGood DEF StopInspects, RestartInspects
<1>7. CASE RepullInspects(p)
  <2>1. Cur(p).owner # "none" => Good(Seen(p, "stop"), ctrs)
    BY <1>2, <1>7, SeenGood DEF RepullInspects, Inspects, Calls, Labelled
  <2>2. Good(To(p, "create"), ctrs)
    BY <1>2, <1>7, ToGood, SameStays DEF RepullInspects, Inspects, Calls, Stages
  <2>3. QED
    BY <1>2, <1>7, <2>1, <2>2, QuietGood DEF RepullInspects
<1>8. CASE Check(p)
  <2>1. job[p].cmd = "enable"
    BY <1>8, JobFields DEF Check, Shape, Calls, Commands
  <2>2. Cur(p).owner # "none" => Good(Seen(p, "wake"), ctrs)
    BY <1>2, <2>1, SeenGood DEF Calls, Labelled
  <2>3. QED
    BY <1>2, <1>3, <1>8, <2>2, QuietGood DEF Check
<1>9. QED
  BY <1>4, <1>5, <1>6, <1>7, <1>8

LEMMA StopGood ==
    ASSUME CommandInv, NEW p \in Proc, Stop(p)
    PROVE  CommandInv'
<1>1. Cur(p).owner # "none" /\ job[p].cur \in Name /\ job[p].at = "stop"
  BY CurFacts, JobFields DEF Stop
<1>2. ctrs' \in [Name -> Ctr] /\ Engine(ctrs') /\ Stays(ctrs, ctrs', NewIds)
  BY <1>1, RunStays DEF Stop, Cur
<1>3. Good(NextName(p), ctrs')
  BY <1>1, <1>2, NextGood
<1>4. job[p].cmd \notin {"disable", "stop"} => Good(To(p, "remove"), ctrs')
  BY <1>1, <1>2, JobFields, CurFacts, ToGood DEF Shape, Calls, Commands, Stages
<1>5. \E j : Turns(p, j) /\ Good(j, ctrs')
  BY <1>3, <1>4 DEF Stop
<1>6. QED
  BY <1>2, <1>5, StepGood DEF CommandInv, Stop

LEMMA RemoveGood ==
    ASSUME CommandInv, NEW p \in Proc, Remove(p)
    PROVE  CommandInv'
<1>1. job[p].cur \in Name /\ job[p].at = "remove"
  BY JobFields DEF Remove
<1>2. ctrs' \in [Name -> Ctr] /\ Engine(ctrs') /\ Stays(ctrs, ctrs', NewIds)
  BY <1>1, AbsentStays DEF Remove
<1>3. Good(NextName(p), ctrs')
  BY <1>1, <1>2, NextGood
<1>4. job[p].cmd # "down" => Good(To(p, "create"), ctrs')
  BY <1>1, <1>2, JobFields, ToGood DEF Shape, Calls, Commands, Stages
<1>5. \E j : Turns(p, j) /\ Good(j, ctrs')
  BY <1>3, <1>4 DEF Remove
<1>6. QED
  BY <1>2, <1>5, StepGood DEF CommandInv, Remove

LEMMA CreateGood ==
    ASSUME CommandInv, NEW p \in Proc, Create(p)
    PROVE  CommandInv'
<1> DEFINE id == CHOOSE i \in NewIds : TRUE
           n == job[p].cur
           j == [To(p, "start") EXCEPT !.ids[n] = id]
<1>1. id \in NewIds /\ id \in Id /\ id # NoId
  BY NewIdsFresh DEF Create
<1> HIDE DEF id
<1>2. n \in Name /\ job[p].at = "create"
  BY JobFields DEF Create
<1>3. /\ ctrs' = [ctrs EXCEPT ![n] = [id |-> id, owner |-> "ours", running |-> FALSE,
                                      hash |-> Hash(Declared.spec[n])]]
      /\ Turns(p, j) /\ UNCHANGED <<file, kept, faults, events>>
  BY DEF Create, id
<1>4. /\ ctrs' \in [Name -> Ctr] /\ Engine(ctrs') /\ Stays(ctrs, ctrs', NewIds)
  BY <1>1, <1>2, <1>3, NewStays
<1>5. ctrs'[n].owner = "ours" /\ ctrs'[n].hash = Hash(Declared.spec[n])
  BY <1>2, <1>3 DEF CommandInv
<1>6. /\ j \in Job /\ j.cmd = job[p].cmd /\ j.at = "start" /\ j.todo = job[p].todo
      /\ j.cur = n /\ j.ids = [job[p].ids EXCEPT ![n] = id]
  BY <1>1, <1>2, JobFields DEF To, Job, Stages
<1> HIDE DEF j
<1>7. job[p].cmd \in {"enable", "restart", "repull"} /\ n \in job[p].todo
  BY <1>2, JobFields DEF Shape, Calls, Commands
<1>8. /\ j.ids[n] = id
      /\ \A m \in Name \ {n} : j.ids[m] = job[p].ids[m]
  BY <1>2, <1>6, JobFields
<1>9. Shape(j)
  BY <1>1, <1>6, <1>7, <1>8 DEF Shape, Calls
<1>10. SeenIds(j, ctrs')
  <2>1. SeenIds(job[p], ctrs')
    BY <1>4, SeenStays
  <2>2. QED
    BY <1>5, <1>6, <1>7, <1>8, <2>1 DEF SeenIds, Reach
<1>11. QED
  BY <1>3, <1>4, <1>6, <1>9, <1>10, StepGood DEF CommandInv, Good

LEMMA StartGood ==
    ASSUME CommandInv, NEW p \in Proc, Start(p)
    PROVE  CommandInv'
<1>1. Cur(p).owner # "none" /\ job[p].cur \in Name /\ job[p].at # "idle"
  BY CurFacts, JobFields DEF Start
<1>2. ctrs' \in [Name -> Ctr] /\ Engine(ctrs') /\ Stays(ctrs, ctrs', NewIds)
  BY <1>1, RunStays DEF Start, Cur
<1>3. Good(NextName(p), ctrs')
  BY <1>1, <1>2, NextGood
<1>4. QED
  BY <1>2, <1>3, StepGood DEF CommandInv, Start

LEMMA FailureGood ==
    ASSUME CommandInv, NEW p \in Proc, Fails(p) \/ Killed(p)
    PROVE  CommandInv'
<1>1. job[p].at # "idle" /\ UNCHANGED <<file, ctrs, kept, events>> /\ faults' \in Nat
  BY DEF CommandInv, Fails, Killed, Fault
<1>2. Good(Ends(p, "killed"), ctrs) /\ Good(Ends(p, "error"), ctrs) /\ Good(NextName(p), ctrs)
  BY <1>1, EndsGood, NextGood, SameStays
<1>3. Fails(p) /\ job[p].cmd = "down" /\ job[p].at = "stop" => Good(To(p, "remove"), ctrs)
  BY CurFacts, ToGood, SameStays DEF Calls, Stages
<1>4. Fails(p) /\ job[p].cmd = "enable" => Good(To(p, "check"), ctrs)
  BY ToGood, SameStays DEF Calls, Stages, Fails
<1>5. \E j : Turns(p, j) /\ Good(j, ctrs)
  BY <1>2, <1>3, <1>4 DEF Fails, Killed, AfterFailure
<1>6. QED
  BY <1>1, <1>5, StepGood, SameStays DEF CommandInv

LEMMA EnvironmentGood ==
    ASSUME CommandInv, Environment
    PROVE  CommandInv'
<1>1. ASSUME NEW c, Event(c), c \in [Name -> Ctr], Engine(c), Stays(ctrs, c, NewIds)
      PROVE  CommandInv'
  <2>1. \A q \in Proc : [job[q] EXCEPT !.calm = FALSE] \in Job
    BY DEF CommandInv, Job
  <2>2. /\ job' \in [Proc -> Job]
        /\ \A q \in Proc : job'[q] = [job[q] EXCEPT !.calm = FALSE]
    BY <1>1, <2>1 DEF Event
  <2>3. ASSUME NEW q \in Proc PROVE Good([job[q] EXCEPT !.calm = FALSE], c)
    <3>1. \A n \in Name : job[q].ids[n] \notin NewIds
      BY DEF NewIds
    <3>2. QED
      BY <1>1, <3>1, OtherGood, PlannerAssumption DEF CommandInv
  <2>4. /\ file' = file /\ kept' = kept /\ faults' = faults /\ events' \in Nat /\ ctrs' = c
    BY <1>1 DEF Event, CommandInv
  <2>5. QED
    BY <1>1, <2>2, <2>3, <2>4 DEF CommandInv
<1>2. ASSUME NEW n \in Name, Exits(n) PROVE CommandInv'
  <2>1. ctrs[n].owner # "none"
    BY <1>2 DEF Exits, CommandInv, Engine
  <2>2. QED
    BY <1>1, <1>2, <2>1, RunStays DEF Exits
<1>3. ASSUME NEW n \in Name, Vanishes(n) PROVE CommandInv'
  BY <1>1, <1>3, AbsentStays DEF Vanishes
<1>4. ASSUME NEW n \in Name, NEW owner \in {"ours", "unmanaged"}, Replaced(n, owner)
      PROVE  CommandInv'
  <2> DEFINE id == CHOOSE i \in NewIds : TRUE
             run == owner = "ours"
  <2>1. id \in NewIds /\ id \in Id
    BY <1>4, NewIdsFresh DEF Replaced
  <2>2. Event([ctrs EXCEPT ![n] = [id |-> id, owner |-> owner, running |-> run,
                                   hash |-> Hash(Declared.spec[n])]])
    BY <1>4 DEF Replaced
  <2>3. run \in BOOLEAN
    OBVIOUS
  <2> HIDE DEF id, run
  <2>4. QED
    BY <1>1, <2>1, <2>2, <2>3, NewStays
<1>5. QED
  BY <1>2, <1>3, <1>4 DEF Environment, Applied, Taken

LEMMA InitGood == Init => CommandInv
<1> SUFFICES ASSUME Init PROVE CommandInv
  OBVIOUS
<1>1. /\ file \in File /\ kept \in SUBSET Name /\ faults \in Nat /\ events \in Nat
      /\ ctrs \in [Name -> Ctr] /\ Engine(ctrs)
  BY CommandsAssumption, HostsAssumption DEF Init, Holding, File
<1>2. /\ Idle.cmd = "none" /\ Idle.at = "idle" /\ Idle.todo = {} /\ Idle.ids = NoIds
  BY DEF Idle
<1>3. Shape(Idle) /\ SeenIds(Idle, ctrs)
  BY <1>2 DEF Shape, Calls, SeenIds, NoIds
<1>4. QED
  BY <1>1, <1>3, IdleTyped DEF Init, CommandInv, Good

LEMMA StepsGood ==
    ASSUME CommandInv, [Next]_vars
    PROVE  CommandInv'
<1>1. ASSUME NEW p \in Proc, Step(p) PROVE CommandInv'
  BY <1>1, TakesGood, FinishGood, SaveGood, PlansGood, PullGood, InspectsGood, StopGood,
     RemoveGood, CreateGood, StartGood, FailureGood DEF Step
<1>2. ASSUME NEW p \in Proc, Invoke(p) PROVE CommandInv'
  BY <1>2, BeginGood, UnreadableGood DEF Invoke
<1>3. CASE UNCHANGED vars
  BY <1>3 DEF CommandInv, Good, vars
<1>4. QED
  BY <1>1, <1>2, <1>3, FailureGood, EnvironmentGood DEF Next

LEMMA CommandInvariant == Spec => []CommandInv
<1>1. CommandInv /\ [Next]_vars => CommandInv'
  BY StepsGood
<1>2. QED
  BY <1>1, InitGood, PTL DEF Spec

(***************************************************************************)
(* The variables keep their types, and a command calls the engine only by  *)
(* an id that it has seen.                                                 *)
(***************************************************************************)
THEOREM TypeCorrect == Spec => []TypeOK
<1>1. CommandInv => TypeOK
  BY DEF CommandInv, Good, Shape, TypeOK
<1>2. QED
  BY <1>1, CommandInvariant, PTL

-----------------------------------------------------------------------------
\* A step of one process leaves the jobs of the others, except that it is seen.
LEMMA StepTurns ==
    ASSUME NEW p \in Proc, Invoke(p) \/ Step(p) \/ Killed(p)
    PROVE  \E j : Turns(p, j)
<1>1. CASE Invoke(p) \/ Killed(p)
  BY <1>1 DEF Invoke, Killed, Begin, Unreadable
<1>2. CASE Step(p)
  <2>1. CASE \E n \in Name :
           \/ DisableTakes(p, n) \/ EnableTakes(p, n) \/ StartTakes(p, n)
           \/ StopTakes(p, n) \/ RestartTakes(p, n) \/ RepullTakes(p, n) \/ DownTakes(p, n)
    BY <2>1 DEF DisableTakes, EnableTakes, StartTakes, StopTakes, RestartTakes,
                RepullTakes, DownTakes
  <2>2. CASE \/ DisableInspects(p) \/ StartInspects(p) \/ StopInspects(p)
             \/ RestartInspects(p) \/ RepullInspects(p) \/ Check(p)
    BY <2>2 DEF DisableInspects, StartInspects, StopInspects, RestartInspects,
                RepullInspects, Check
  <2>3. CASE \/ Finish(p) \/ Truncate(p) \/ Write(p) \/ Plans(p) \/ Pull(p)
             \/ Stop(p) \/ Remove(p) \/ Start(p) \/ Fails(p)
    BY <2>3 DEF Finish, Truncate, Write, Plans, Pull, Stop, Remove, Start, Fails
  <2>4. CASE Create(p)
    BY <2>4 DEF Create
  <2>5. QED
    BY <1>2, <2>1, <2>2, <2>3, <2>4 DEF Step
<1>3. QED
  BY <1>1, <1>2

LEMMA OthersStay ==
    ASSUME CommandInv, NEW p \in Proc, NEW q \in Proc, p # q,
           Invoke(p) \/ Step(p) \/ Killed(p)
    PROVE  job'[q] = [job[q] EXCEPT !.calm = FALSE]
BY StepTurns DEF Turns

\* Who is responsible for a call.
LEMMA OwnStep ==
    ASSUME CommandInv, Next, NEW p \in Proc, Own(p)
    PROVE  Step(p) \/ Killed(p)
<1>1. ASSUME NEW q \in Proc, Invoke(q) \/ Step(q) \/ Killed(q), p # q PROVE FALSE
  <2>1. job'[p] = [job[p] EXCEPT !.calm = FALSE]
    BY <1>1, OthersStay
  <2>2. QED
    BY <2>1, JobFields DEF Own, Job
<1>2. CASE Environment
  <2>1. job'[p] = [job[p] EXCEPT !.calm = FALSE]
    BY <1>2 DEF Environment, Exits, Vanishes, Applied, Taken, Replaced, Event
  <2>2. QED
    BY <2>1, JobFields DEF Own, Job
<1>3. ~Invoke(p)
  BY DEF Own, Invoke, Begin, Unreadable
<1>4. QED
  BY <1>1, <1>2, <1>3 DEF Next

\* The only calls that change the engine.
LEMMA StepCtrs ==
    ASSUME NEW p \in Proc, Invoke(p) \/ Step(p) \/ Killed(p)
    PROVE  ctrs' = ctrs \/ Stop(p) \/ Remove(p) \/ Create(p) \/ Start(p)
<1>1. CASE Invoke(p) \/ Killed(p)
  BY <1>1 DEF Invoke, Killed, Begin, Unreadable, Silent
<1>2. CASE Step(p)
  <2>1. CASE \E n \in Name :
           \/ DisableTakes(p, n) \/ EnableTakes(p, n) \/ StartTakes(p, n)
           \/ StopTakes(p, n) \/ RestartTakes(p, n) \/ RepullTakes(p, n) \/ DownTakes(p, n)
    BY <2>1 DEF DisableTakes, EnableTakes, StartTakes, StopTakes, RestartTakes,
                RepullTakes, DownTakes, Silent
  <2>2. CASE \/ DisableInspects(p) \/ StartInspects(p) \/ StopInspects(p)
             \/ RestartInspects(p) \/ RepullInspects(p) \/ Check(p)
    BY <2>2 DEF DisableInspects, StartInspects, StopInspects, RestartInspects,
                RepullInspects, Check, Silent
  <2>3. CASE \/ Finish(p) \/ Truncate(p) \/ Write(p) \/ Plans(p) \/ Pull(p) \/ Fails(p)
    BY <2>3 DEF Finish, Truncate, Write, Plans, Pull, Fails, Silent
  <2>4. QED
    BY <1>2, <2>1, <2>2, <2>3 DEF Step
<1>3. QED
  BY <1>1, <1>2

(***************************************************************************)
(* README:12: a disable, start, stop, restart or down changes a container  *)
(* only within its reach, whoever takes the full name between its look at  *)
(* the labels and its call: the id that it calls by is then not found.     *)
(***************************************************************************)
THEOREM Labels == Spec => ManagedOnly
<1>1. ASSUME CommandInv, Next, NEW p \in Proc, Own(p),
             job[p].cmd \in {"disable", "start", "stop", "restart", "down"},
             NEW n \in Name
      PROVE  ctrs'[n] = ctrs[n] \/ ctrs[n].owner \in Reach(job[p].cmd)
  <2>1. ctrs' = ctrs \/ Stop(p) \/ Remove(p) \/ Create(p) \/ Start(p)
    BY <1>1, OwnStep, StepCtrs
  <2>2. ctrs'[n] = ctrs[n] \/ n = job[p].cur
    <3>1. ctrs \in [Name -> Ctr]
      BY <1>1 DEF CommandInv
    <3>2. CASE Stop(p) \/ Start(p)
      BY <3>1, <3>2 DEF Stop, Start
    <3>3. CASE Remove(p) \/ Create(p)
      BY <3>1, <3>3 DEF Remove, Create
    <3>4. QED
      BY <2>1, <3>2, <3>3
  <2>3. CASE Create(p)
    BY <1>1, <2>2, <2>3 DEF Create, Cur, Reach
  <2>4. CASE Stop(p) \/ Remove(p) \/ Start(p)
    <3>1. Cur(p).owner \in Reach(job[p].cmd)
      BY <1>1, <2>4, CurFacts DEF Stop, Remove, Start, Labelled
    <3>2. QED
      BY <2>2, <3>1 DEF Cur
  <2>5. QED
    BY <2>1, <2>3, <2>4
<1>2. CommandInv /\ [Next]_vars =>
          [\A p \in Proc :
             Own(p) /\ job[p].cmd \in {"disable", "start", "stop", "restart", "down"} =>
                \A n \in Name : ctrs'[n] = ctrs[n] \/ ctrs[n].owner \in Reach(job[p].cmd)]_vars
  BY <1>1 DEF vars
<1>3. QED
  BY <1>2, CommandInvariant, PTL DEF Spec, ManagedOnly

-----------------------------------------------------------------------------
\* One command at a time.
OneAtATime == \A p, q \in Proc : p = q

\* The State that a command holds is the one in state.json, but for the name
\* that it is about to save; what has been disabled is in both.
Trusted(j, f, k) ==
    /\ j.cmd \in Loads /\ j.at \notin {"idle", "save", "writing"} => f = Holding(j.mem)
    /\ j.at = "writing" => f = Torn /\ k \subseteq j.mem
    /\ j.at = "save" => k \subseteq j.mem \cup (IF j.cmd = "enable" THEN {j.cur} ELSE {})
    /\ j.cmd = "disable" /\ j.at # "idle" =>
          /\ j.args \ j.todo \subseteq j.mem
          /\ j.at # "next" => j.cur \in j.mem
    /\ j.cmd \in {"start", "enable"} /\ j.at \notin {"idle", "next"} => j.cur \notin j.mem

TrustInv == DisableSticks /\ \A p \in Proc : Trusted(job[p], file, kept)

\* The other commands neither read nor write state.json.
LEMMA OthersTrusted ==
    ASSUME NEW j, NEW f, NEW k, Shape(j), j.cmd \in Commands \cup {"none"}, j.cmd \notin Loads
    PROVE  Trusted(j, f, k)
BY DEF Shape, Calls, Trusted, Loads, Commands

LEMMA EndsTrusted ==
    ASSUME CommandInv, NEW p \in Proc, NEW out \in {"ok", "error", "killed"}, NEW f, NEW k
    PROVE  Trusted(Ends(p, out), f, k)
BY EndsFields DEF Trusted

LEMMA KeepsTrusted ==
    ASSUME CommandInv, NEW p \in Proc, Trusted(job[p], file, kept),
           job[p].at \notin {"idle", "next", "save", "writing"}
    PROVE  /\ Trusted(NextName(p), file, kept)
           /\ \A at \in Stages \ {"idle", "next", "save", "writing"} :
                 Trusted(To(p, at), file, kept) /\ Trusted(Seen(p, at), file, kept)
<1>1. Trusted(NextName(p), file, kept)
  BY NextFields, JobFields DEF Trusted
<1>2. ASSUME NEW at \in Stages \ {"idle", "next", "save", "writing"}
      PROVE  Trusted(To(p, at), file, kept) /\ Trusted(Seen(p, at), file, kept)
  <2>1. Trusted(To(p, at), file, kept)
    BY ToFields, JobFields DEF Trusted
  <2>2. Trusted(Seen(p, at), file, kept)
    <3>1. /\ Seen(p, at).cmd = job[p].cmd /\ Seen(p, at).args = job[p].args
          /\ Seen(p, at).todo = job[p].todo /\ Seen(p, at).cur = job[p].cur
          /\ Seen(p, at).at = at /\ Seen(p, at).mem = job[p].mem
      BY SeenFields
    <3>2. QED
      BY <3>1 DEF Trusted
  <2>3. QED
    BY <2>1, <2>2
<1>3. QED
  BY <1>1, <1>2

LEMMA StepTrusted ==
    ASSUME OneAtATime, CommandInv, CommandInv', NEW p \in Proc, NEW j \in Job, Turns(p, j),
           Trusted(j, file', kept'), DisableSticks'
    PROVE  TrustInv'
<1>1. job'[p] = j
  BY TurnsTo DEF CommandInv
<1>2. QED
  BY <1>1 DEF OneAtATime, TrustInv

\* A step that leaves state.json alone.
LEMMA QuietTrusted ==
    ASSUME OneAtATime, CommandInv, CommandInv', TrustInv, NEW p \in Proc, NEW j \in Job,
           Turns(p, j), Trusted(j, file, kept), UNCHANGED <<file, kept>>
    PROVE  TrustInv'
BY StepTrusted DEF TrustInv, DisableSticks

-----------------------------------------------------------------------------
LEMMA InvokeTrusted ==
    ASSUME OneAtATime, CommandInv, CommandInv', TrustInv, NEW p \in Proc, Invoke(p)
    PROVE  TrustInv'
<1>1. PICK cmd \in Cmds, args \in Args : Begin(p, cmd, args) \/ Unreadable(p, cmd, args)
  BY DEF Invoke
<1>2. cmd \in Commands /\ args \in SUBSET Name /\ Silent
  BY <1>1, CommandsAssumption DEF Begin, Unreadable
<1>3. CASE Begin(p, cmd, args)
  <2>1. PICK j : /\ Turns(p, j) /\ j.cmd = cmd /\ j.args = args /\ j.at = "next"
                 /\ cmd \in Loads => j.mem = file.names
                 /\ cmd # "down" => j.todo = args
    BY <1>3 DEF Begin
  <2>2. job'[p] = j /\ j \in Job
    BY <2>1 DEF Turns, CommandInv
  <2>3. cmd \in Loads => file = Holding(file.names)
    BY <1>3 DEF Begin, CommandInv, File, Holding
  <2>4. Trusted(j, file, kept)
    BY <2>1, <2>3 DEF Trusted, Loads
  <2>5. QED
    BY <1>2, <2>1, <2>2, <2>4, QuietTrusted DEF Silent
<1>4. CASE Unreadable(p, cmd, args)
  <2>1. PICK j : Turns(p, j) /\ j.at = "idle"
    <3> DEFINE j == [Idle EXCEPT !.cmd = cmd, !.args = args, !.out = "error"]
    <3>1. j.at = "idle"
      BY DEF Idle
    <3>2. Turns(p, j)
      BY <1>4 DEF Unreadable
    <3> HIDE DEF j
    <3>3. QED
      BY <3>1, <3>2
  <2>2. job'[p] = j /\ j \in Job
    BY <2>1 DEF Turns, CommandInv
  <2>3. Trusted(j, file, kept)
    BY <2>1 DEF Trusted
  <2>4. QED
    BY <1>2, <2>1, <2>2, <2>3, QuietTrusted DEF Silent
<1>5. QED
  BY <1>1, <1>3, <1>4

LEMMA TakesTrusted ==
    ASSUME OneAtATime, CommandInv, CommandInv', TrustInv, NEW p \in Proc, NEW n \in Name,
           \/ DisableTakes(p, n) \/ EnableTakes(p, n) \/ StartTakes(p, n)
           \/ StopTakes(p, n) \/ RestartTakes(p, n) \/ RepullTakes(p, n) \/ DownTakes(p, n)
    PROVE  TrustInv'
<1>1. Silent /\ job[p].at = "next" /\ n \in job[p].todo
  BY DEF DisableTakes, EnableTakes, StartTakes, StopTakes, RestartTakes, RepullTakes,
         DownTakes, Chooses
<1>2. /\ Trusted(job[p], file, kept) /\ DisableSticks
      /\ job[p].cmd \in Loads => file = Holding(job[p].mem) /\ kept \subseteq job[p].mem
  BY <1>1 DEF TrustInv, Trusted, Holding, DisableSticks
<1>3. Trusted(Ends(p, "error"), file, kept)
  BY EndsTrusted
<1>4. Trusted(With(p, n, "inspect"), file, kept) \/ n \in job[p].mem \/ job[p].cmd = "disable"
  <2>1. "inspect" \in Stages
    BY DEF Stages
  <2>2. QED
    BY <1>1, <1>2, <2>1, WithFields DEF Trusted
<1>5. PICK j : Turns(p, j) /\ Trusted(j, file, kept)
  <2>1. CASE DisableTakes(p, n)
    <3>1. n \in job[p].mem => Trusted(Skip(p, n), file, kept)
      BY <1>1, <1>2, <2>1, SkipFields DEF Trusted
    <3>2. Trusted([With(p, n, "save") EXCEPT !.mem = @ \cup {n}], file, kept)
      <4> DEFINE j == [With(p, n, "save") EXCEPT !.mem = @ \cup {n}]
      <4>1. /\ j.cmd = "disable" /\ j.at = "save" /\ j.cur = n /\ j.mem = job[p].mem \cup {n}
            /\ j.args = job[p].args /\ j.todo = job[p].todo
        BY <2>1, JobFields DEF DisableTakes, Chooses, With, Job
      <4> HIDE DEF j
      <4>2. Trusted(j, file, kept)
        BY <1>1, <1>2, <2>1, <4>1 DEF Trusted, DisableTakes, Chooses, Loads
      <4>3. QED
        BY <4>2 DEF j
    <3>3. QED
      BY <1>3, <2>1, <3>1, <3>2 DEF DisableTakes
  <2>2. CASE EnableTakes(p, n)
    <3>1. Trusted(Skip(p, n), file, kept)
      BY <1>1, <1>2, <2>2, SkipFields DEF Trusted, EnableTakes, Chooses
    <3>2. Trusted([With(p, n, "save") EXCEPT !.mem = @ \ {n}], file, kept)
      <4> DEFINE j == [With(p, n, "save") EXCEPT !.mem = @ \ {n}]
      <4>1. j.cmd = "enable" /\ j.at = "save" /\ j.cur = n /\ j.mem = job[p].mem \ {n}
        BY <2>2, JobFields DEF EnableTakes, Chooses, With, Job
      <4> HIDE DEF j
      <4>2. Trusted(j, file, kept)
        BY <1>1, <1>2, <2>2, <4>1 DEF Trusted, EnableTakes, Chooses, Loads
      <4>3. QED
        BY <4>2 DEF j
    <3>3. QED
      BY <1>3, <2>2, <3>1, <3>2 DEF EnableTakes
  <2>3. CASE StartTakes(p, n)
    <3>1. Trusted(Skip(p, n), file, kept)
      BY <1>1, <1>2, <2>3, SkipFields DEF Trusted, StartTakes, Chooses
    <3>2. QED
      BY <1>4, <2>3, <3>1 DEF StartTakes, Chooses
  <2>4. CASE StopTakes(p, n) \/ RestartTakes(p, n) \/ RepullTakes(p, n) \/ DownTakes(p, n)
    <3>1. PICK j : Turns(p, j)
      BY <2>4 DEF StopTakes, RestartTakes, RepullTakes, DownTakes
    <3>2. job'[p] = j /\ j.cmd = job[p].cmd /\ Shape(j) /\ j.cmd \in Commands \cup {"none"}
      <4>1. job'[p] = j
        BY <3>1 DEF Turns, CommandInv
      <4>2. Shape(j) /\ j.cmd \in Commands \cup {"none"}
        BY <4>1 DEF CommandInv, Good, Job
      <4>3. job'[p].cmd = job[p].cmd
        <5>1. {"inspect", "pull", "stop"} \subseteq Stages
          BY DEF Stages
        <5>2. QED
          BY <2>4, <5>1, WithFields, JobFields
             DEF StopTakes, RestartTakes, RepullTakes, DownTakes, Turns, CommandInv
      <4>4. QED
        BY <4>1, <4>2, <4>3
    <3>3. job[p].cmd \notin Loads
      BY <2>4 DEF StopTakes, RestartTakes, RepullTakes, DownTakes, Chooses, Loads
    <3>4. QED
      BY <3>1, <3>2, <3>3, OthersTrusted
  <2>5. QED
    BY <2>1, <2>2, <2>3, <2>4
<1>6. job'[p] = j /\ j \in Job
  BY <1>5 DEF Turns, CommandInv
<1>7. QED
  BY <1>1, <1>5, <1>6, QuietTrusted DEF Silent

LEMMA FinishTrusted ==
    ASSUME OneAtATime, CommandInv, CommandInv', TrustInv, NEW p \in Proc, Finish(p)
    PROVE  TrustInv'
<1>1. job[p].cmd = "disable" => file.whole /\ job[p].args \subseteq file.names
  BY JobFields DEF TrustInv, Trusted, Holding, Finish, Loads
<1>2. DisableSticks'
  BY <1>1 DEF TrustInv, DisableSticks, Finish
<1>3. Trusted(Ends(p, "ok"), file', kept')
  BY EndsTrusted
<1>4. QED
  BY <1>2, <1>3, StepTrusted, EndsFields DEF Finish

\* The one moment at which what a command holds becomes what is stored.
LEMMA SaveTrusted ==
    ASSUME OneAtATime, CommandInv, CommandInv', TrustInv, NEW p \in Proc,
           Truncate(p) \/ Write(p)
    PROVE  TrustInv'
<1>1. /\ job[p].cmd \in {"disable", "enable"}
      /\ Trusted(job[p], file, kept)
      /\ {"writing", "inspect", "plan"} \subseteq Stages
  BY JobFields DEF TrustInv, Truncate, Write, Shape, Calls, Commands, Stages
<1>2. CASE Truncate(p)
  <2>1. kept' \subseteq job[p].mem
    BY <1>1, <1>2 DEF Truncate, Trusted
  <2>2. Trusted(To(p, "writing"), file', kept')
    BY <1>1, <1>2, <2>1, ToFields DEF Truncate, Trusted
  <2>3. DisableSticks'
    BY <1>2 DEF Truncate, Torn, DisableSticks
  <2>4. QED
    BY <1>1, <1>2, <2>2, <2>3, StepTrusted, ToFields DEF Truncate
<1>3. CASE Write(p)
  <2>1. file = Torn /\ kept \subseteq job[p].mem
    BY <1>1, <1>3 DEF Write, Trusted
  <2>2. file' = Holding(job[p].mem) /\ kept' = kept
    BY <1>3, <2>1 DEF Write, Torn
  <2>3. DisableSticks'
    BY <2>1, <2>2 DEF Holding, DisableSticks
  <2>4. \A at \in {"inspect", "plan"} : Trusted(To(p, at), file', kept')
    BY <1>1, <1>3, <2>2, ToFields DEF Write, Trusted
  <2>5. QED
    BY <1>1, <1>3, <2>3, <2>4, StepTrusted, ToFields DEF Write
<1>4. QED
  BY <1>2, <1>3

\* The other steps leave state.json and go on, or end.
LEMMA RestTrusted ==
    ASSUME OneAtATime, CommandInv, CommandInv', TrustInv, NEW p \in Proc,
           \/ DisableInspects(p) \/ StartInspects(p) \/ StopInspects(p)
           \/ RestartInspects(p) \/ RepullInspects(p)
           \/ Plans(p) \/ Pull(p) \/ Check(p) \/ Stop(p) \/ Remove(p) \/ Start(p)
           \/ Fails(p) \/ Killed(p)
    PROVE  TrustInv'
<1>1. UNCHANGED <<file, kept>>
  BY DEF DisableInspects, StartInspects, StopInspects, RestartInspects, RepullInspects,
         Plans, Pull, Check, Stop, Remove, Start, Fails, Killed, Silent
<1>2. /\ Trusted(Ends(p, "error"), file, kept) /\ Trusted(Ends(p, "killed"), file, kept)
      /\ Trusted(job[p], file, kept)
      /\ {"inspect", "stop", "remove", "create", "check", "wake"} \subseteq Stages
  BY EndsTrusted DEF TrustInv, Stages
<1>3. job[p].at \notin {"idle", "next", "save", "writing"} =>
          /\ Trusted(NextName(p), file, kept)
          /\ \A at \in {"inspect", "stop", "remove", "create", "check", "wake"} :
                Trusted(To(p, at), file, kept) /\ Trusted(Seen(p, at), file, kept)
  BY <1>2, KeepsTrusted
<1>4. PICK j : Turns(p, j) /\ Trusted(j, file, kept)
  <2>1. CASE \/ DisableInspects(p) \/ StartInspects(p) \/ StopInspects(p)
             \/ RestartInspects(p) \/ RepullInspects(p)
    BY <1>2, <1>3, <2>1 DEF DisableInspects, StartInspects, StopInspects, RestartInspects,
                            RepullInspects, Inspects
  <2>2. CASE Plans(p) \/ Pull(p) \/ Check(p)
    BY <1>3, <2>2 DEF Plans, Pull, Check
  <2>3. CASE Stop(p) \/ Remove(p) \/ Start(p)
    BY <1>3, <2>3 DEF Stop, Remove, Start
  <2>4. CASE Fails(p)
    <3>1. job[p].at \in {"save", "writing"} => job[p].cmd # "down"
      BY JobFields DEF Shape, Calls
    <3>2. QED
      BY <1>2, <1>3, <2>4, <3>1 DEF Fails, AfterFailure
  <2>5. CASE Killed(p)
    BY <1>2, <2>5 DEF Killed
  <2>6. QED
    BY <2>1, <2>2, <2>3, <2>4, <2>5
<1>5. job'[p] = j /\ j \in Job
  BY <1>4 DEF Turns, CommandInv
<1>6. QED
  BY <1>1, <1>4, <1>5, QuietTrusted

LEMMA CreateTrusted ==
    ASSUME OneAtATime, CommandInv, CommandInv', TrustInv, NEW p \in Proc, Create(p)
    PROVE  TrustInv'
<1>1. PICK id : Turns(p, [To(p, "start") EXCEPT !.ids[job[p].cur] = id])
  BY DEF Create
<1> DEFINE j == [To(p, "start") EXCEPT !.ids[job[p].cur] = id]
<1>2. /\ j.cmd = job[p].cmd /\ j.at = "start" /\ j.cur = job[p].cur /\ j.mem = job[p].mem
      /\ j.args = job[p].args /\ j.todo = job[p].todo
  BY JobFields DEF To, Job
<1> HIDE DEF j
<1>3. Turns(p, j) /\ job[p].at = "create" /\ Trusted(job[p], file, kept)
      /\ UNCHANGED <<file, kept>>
  BY <1>1 DEF Create, TrustInv, j
<1>4. Trusted(j, file, kept)
  BY <1>2, <1>3 DEF Trusted
<1>5. job'[p] = j /\ j \in Job
  BY <1>3 DEF Turns, CommandInv
<1>6. QED
  BY <1>3, <1>4, <1>5, QuietTrusted

LEMMA EnvironmentTrusted ==
    ASSUME CommandInv, CommandInv', TrustInv, Environment
    PROVE  TrustInv'
<1>1. /\ UNCHANGED <<file, kept>>
      /\ \A p \in Proc : job'[p] = [job[p] EXCEPT !.calm = FALSE]
  BY DEF Environment, Exits, Vanishes, Applied, Taken, Replaced, Event
<1>2. ASSUME NEW p \in Proc PROVE Trusted(job[p], file, kept)'
  <2>1. /\ job'[p].cmd = job[p].cmd /\ job'[p].at = job[p].at /\ job'[p].cur = job[p].cur
        /\ job'[p].mem = job[p].mem /\ job'[p].args = job[p].args
        /\ job'[p].todo = job[p].todo
    BY <1>1, JobFields DEF Job
  <2>2. Trusted(job[p], file, kept)
    BY DEF TrustInv
  <2>3. QED
    BY <1>1, <2>1, <2>2 DEF Trusted
<1>3. QED
  BY <1>1, <1>2 DEF TrustInv, DisableSticks

LEMMA TrustInvariant ==
    ASSUME OneAtATime
    PROVE  Spec => []TrustInv
<1>1. Init => TrustInv
  BY DEF Init, TrustInv, Trusted, DisableSticks, Idle, Holding
<1>2. CommandInv /\ CommandInv' /\ TrustInv /\ [Next]_vars => TrustInv'
  <2> SUFFICES ASSUME CommandInv, CommandInv', TrustInv, [Next]_vars PROVE TrustInv'
    OBVIOUS
  <2>1. ASSUME NEW p \in Proc, Step(p) PROVE TrustInv'
    BY <2>1, TakesTrusted, FinishTrusted, SaveTrusted, RestTrusted, CreateTrusted DEF Step
  <2>2. ASSUME NEW p \in Proc, Invoke(p) \/ Killed(p) PROVE TrustInv'
    BY <2>2, InvokeTrusted, RestTrusted
  <2>3. CASE UNCHANGED vars
    BY <2>3 DEF TrustInv, Trusted, DisableSticks, vars
  <2>4. QED
    BY <2>1, <2>2, <2>3, EnvironmentTrusted DEF Next
<1>3. QED
  BY <1>1, <1>2, CommandInvariant, PTL DEF Spec

(***************************************************************************)
(* Persistent off, for any stack and any sequence of commands, failures and *)
(* kills, as long as no two commands run at the same time: a name that was  *)
(* disabled with success is in state.json until an enable of it begins.     *)
(***************************************************************************)
THEOREM Persistent ==
    ASSUME OneAtATime
    PROVE  Spec => []DisableSticks
<1>1. TrustInv => DisableSticks
  BY DEF TrustInv
<1>2. QED
  BY <1>1, TrustInvariant, PTL

(***************************************************************************)
(* As long as no two commands run at the same time, start and enable start  *)
(* no container whose name state.json lists.                                *)
(***************************************************************************)
THEOREM StartsOnlyEnabled ==
    ASSUME OneAtATime
    PROVE  Spec => NoRevival
<1>1. ASSUME CommandInv, TrustInv, Next, NEW p \in Proc, NEW n \in Name, Own(p),
             job[p].cmd \in {"start", "enable"}, ~ctrs[n].running, ctrs'[n].running
      PROVE  file.whole /\ n \notin file.names
  <2>1. ctrs' = ctrs \/ Stop(p) \/ Remove(p) \/ Create(p) \/ Start(p)
    BY <1>1, OwnStep, StepCtrs
  <2>2. Start(p) /\ n = job[p].cur
    <3>1. ctrs \in [Name -> Ctr]
      BY <1>1 DEF CommandInv
    <3>2. CASE Stop(p) \/ Start(p)
      BY <1>1, <3>1, <3>2 DEF Stop, Start, Ctr
    <3>3. ~Remove(p) /\ ~Create(p)
      BY <1>1, <3>1, AbsentTyped DEF Remove, Create
    <3>4. QED
      BY <1>1, <2>1, <3>2, <3>3
  <2>3. Trusted(job[p], file, kept)
    BY <1>1 DEF TrustInv
  <2>4. QED
    BY <1>1, <2>2, <2>3 DEF Start, Trusted, Loads, Holding
<1>2. CommandInv /\ TrustInv /\ [Next]_vars =>
          [\A p \in Proc, n \in Name :
             (Own(p) /\ job[p].cmd \in {"start", "enable"}
                 /\ ~ctrs[n].running /\ ctrs'[n].running)
             => file.whole /\ n \notin file.names]_vars
  BY <1>1 DEF vars
<1>3. QED
  BY <1>2, CommandInvariant, TrustInvariant, PTL DEF Spec, NoRevival

-----------------------------------------------------------------------------
\* Nothing runs but commands that bring containers up, nothing fails, and all
\* that is declared runs to begin with.
OnlyBringUp ==
    /\ Cmds \subseteq {"start", "restart", "repull"}
    /\ MaxFaults = 0 /\ MaxEvents = 0
    /\ \A host \in Hosts : \A n \in Declared.names : host[n].running

\* The process is about to remove, replace or start the container that holds
\* the name, and nothing but its own next call decides whether it does.
Brings(j, n, c) ==
    /\ j.cur = n
    /\ \/ j.at \in {"remove", "start"} /\ j.ids[n] = c[n].id
       \/ j.at = "create" /\ c[n].owner = "none"

\* Of the processes that took a container down together one still brings it up.
RaceInv ==
    /\ \A p \in Proc : job[p].cmd \in {"none", "start", "restart", "repull"}
    /\ \A n \in Declared.names : ctrs[n].running \/ \E p \in Proc : Brings(job[p], n, ctrs)

LEMMA StepCmd ==
    ASSUME CommandInv, NEW p \in Proc, Step(p) \/ Killed(p)
    PROVE  job'[p].cmd = job[p].cmd
<1> DEFINE Same(j) == j.cmd = job[p].cmd
<1>1. /\ \A at \in Stages : Same(To(p, at)) /\ Same(Seen(p, at))
      /\ Same(NextName(p)) /\ \A out \in {"ok", "error", "killed"} : Same(Ends(p, out))
      /\ \A n \in Name, at \in Stages : Same(With(p, n, at))
      /\ \A n \in Name : Same(Skip(p, n))
  <2>1. \A at \in Stages : Same(To(p, at))
    BY ToFields
  <2>2. \A at \in Stages : Same(Seen(p, at))
    BY SeenFields
  <2>3. Same(NextName(p)) /\ \A out \in {"ok", "error", "killed"} : Same(Ends(p, out))
    BY NextFields, EndsFields
  <2>4. \A n \in Name : Same(Skip(p, n)) /\ \A at \in Stages : Same(With(p, n, at))
    BY WithFields, SkipFields
  <2>5. QED
    BY <2>1, <2>2, <2>3, <2>4
<1>2. {"next", "save", "writing", "plan", "pull", "inspect", "stop", "remove", "create",
       "start", "check", "wake"} \subseteq Stages
  BY DEF Stages
<1>3. PICK j : Turns(p, j) /\ Same(j)
  <2>1. ASSUME NEW n \in Name, DisableTakes(p, n) \/ EnableTakes(p, n)
        PROVE  \E j : Turns(p, j) /\ Same(j)
    <3>1. /\ Same([With(p, n, "save") EXCEPT !.mem = @ \cup {n}])
          /\ Same([With(p, n, "save") EXCEPT !.mem = @ \ {n}])
      BY JobFields DEF With, Job
    <3>2. QED
      BY <1>1, <2>1, <3>1 DEF DisableTakes, EnableTakes
  <2>2. ASSUME NEW n \in Name, \/ StartTakes(p, n) \/ StopTakes(p, n) \/ RestartTakes(p, n)
                               \/ RepullTakes(p, n) \/ DownTakes(p, n)
        PROVE  \E j : Turns(p, j) /\ Same(j)
    BY <1>1, <1>2, <2>2 DEF StartTakes, StopTakes, RestartTakes, RepullTakes, DownTakes
  <2>3. CASE \/ DisableInspects(p) \/ StartInspects(p) \/ StopInspects(p)
             \/ RestartInspects(p) \/ RepullInspects(p) \/ Check(p) \/ Plans(p) \/ Pull(p)
    BY <1>1, <1>2, <2>3 DEF DisableInspects, StartInspects, StopInspects, RestartInspects,
                            RepullInspects, Check, Plans, Pull
  <2>4. CASE \/ Finish(p) \/ Truncate(p) \/ Write(p) \/ Stop(p) \/ Remove(p) \/ Start(p)
             \/ Fails(p) \/ Killed(p)
    BY <1>1, <1>2, <2>4 DEF Finish, Truncate, Write, Stop, Remove, Start, Fails, Killed,
                            AfterFailure
  <2>5. CASE Create(p)
    <3>1. PICK id : Turns(p, [To(p, "start") EXCEPT !.ids[job[p].cur] = id])
      BY <2>5 DEF Create
    <3>2. Same([To(p, "start") EXCEPT !.ids[job[p].cur] = id])
      BY JobFields DEF To, Job
    <3>3. QED
      BY <3>1, <3>2
  <2>6. QED
    BY <2>1, <2>2, <2>3, <2>4, <2>5 DEF Step
<1>4. QED
  BY <1>3 DEF Turns, CommandInv

\* A process that has reached remove, create or start makes that call.
LEMMA StepCalls ==
    ASSUME NEW p \in Proc, Invoke(p) \/ Step(p),
           job[p].at \in {"remove", "create", "start"}
    PROVE  Remove(p) \/ Create(p) \/ Start(p) \/ Fails(p)
BY DEF Invoke, Begin, Unreadable, Step, DisableTakes, EnableTakes, StartTakes, StopTakes,
       RestartTakes, RepullTakes, DownTakes, Chooses, DisableInspects, StartInspects,
       StopInspects, RestartInspects, RepullInspects, Inspects, Check, Finish, Truncate,
       Write, Plans, Pull, Stop

\* A step that leaves the container of n where it is.
LEMMA RaceKeeps ==
    ASSUME CommandInv, RaceInv, NEW p \in Proc, Invoke(p) \/ Step(p),
           NEW n \in Declared.names, n \in Name,
           ctrs'[n] = ctrs[n] \/ ctrs'[n].running,
           Brings(job[p], n, ctrs) => ctrs[n].running \/ ctrs'[n].running
    PROVE  ctrs'[n].running \/ \E q \in Proc : Brings(job'[q], n, ctrs')
<1>1. CASE ctrs'[n] = ctrs[n] /\ ~ctrs[n].running
  <2>1. PICK q \in Proc : Brings(job[q], n, ctrs) /\ q # p
    BY <1>1 DEF RaceInv
  <2>2. job'[q] = [job[q] EXCEPT !.calm = FALSE]
    BY <2>1, OthersStay
  <2>3. job'[q].cur = job[q].cur /\ job'[q].at = job[q].at /\ job'[q].ids = job[q].ids
    BY <2>2, JobFields DEF Job
  <2>4. QED
    BY <1>1, <2>1, <2>3 DEF Brings
<1>2. QED
  BY <1>1

LEMMA RaceStep ==
    ASSUME OnlyBringUp, CommandInv, CommandInv', RaceInv, NEW p \in Proc, Invoke(p) \/ Step(p),
           NEW n \in Declared.names
    PROVE  ctrs'[n].running \/ \E q \in Proc : Brings(job'[q], n, ctrs')
<1>1. n \in Name /\ job[p] \in Job /\ ctrs \in [Name -> Ctr] /\ job[p].cur \in Name
  BY CommandsAssumption, JobFields DEF CommandInv, Stack
<1>2. ctrs' = ctrs \/ Stop(p) \/ Remove(p) \/ Create(p) \/ Start(p)
  BY StepCtrs
<1>3. n = job[p].cur \/ ctrs'[n] = ctrs[n]
  <2>1. CASE Stop(p) \/ Start(p)
    BY <1>1, <2>1 DEF Stop, Start
  <2>2. CASE Remove(p) \/ Create(p)
    BY <1>1, <2>2 DEF Remove, Create
  <2>3. QED
    BY <1>2, <2>1, <2>2
<1>4. CASE n # job[p].cur
  BY <1>1, <1>3, <1>4, RaceKeeps DEF Brings
<1>5. CASE n = job[p].cur /\ Stop(p)
  <2>1. job[p].cmd \in {"restart", "repull"} /\ job[p].at = "stop"
    BY <1>5, JobFields DEF Stop, Shape, Calls, RaceInv
  <2>2. Turns(p, To(p, "remove")) /\ ctrs'[n].id = job[p].ids[n]
    BY <1>1, <1>5, <2>1 DEF Stop, Cur, CurId, Ctr
  <2>3. job'[p] = To(p, "remove")
    BY <2>2 DEF Turns, CommandInv
  <2>4. Brings(job'[p], n, ctrs')
    BY <1>5, <2>2, <2>3, ToFields DEF Brings, Stages
  <2>5. QED
    BY <2>4
<1>6. CASE n = job[p].cur /\ Remove(p)
  <2>1. job[p].cmd \in {"restart", "repull"}
    BY <1>6, JobFields DEF Remove, Shape, Calls, RaceInv
  <2>2. Turns(p, To(p, "create")) /\ ctrs'[n].owner = "none"
    BY <1>1, <1>6, <2>1, AbsentTyped DEF Remove
  <2>3. job'[p] = To(p, "create")
    BY <2>2 DEF Turns, CommandInv
  <2>4. Brings(job'[p], n, ctrs')
    BY <1>6, <2>2, <2>3, ToFields DEF Brings, Stages
  <2>5. QED
    BY <2>4
<1>7. CASE n = job[p].cur /\ Create(p)
  <2> DEFINE id == CHOOSE i \in NewIds : TRUE
             j == [To(p, "start") EXCEPT !.ids[n] = id]
  <2>1. Turns(p, j) /\ ctrs'[n].id = id
    BY <1>1, <1>7 DEF Create
  <2> HIDE DEF id
  <2>2. j.cur = n /\ j.at = "start" /\ j.ids[n] = id
    BY <1>1, <1>7, JobFields DEF To, Job
  <2> HIDE DEF j
  <2>3. job'[p] = j
    BY <2>1 DEF Turns, CommandInv
  <2>4. Brings(job'[p], n, ctrs')
    BY <2>1, <2>2, <2>3 DEF Brings
  <2>5. QED
    BY <2>4
<1>8. CASE n = job[p].cur /\ Start(p)
  BY <1>1, <1>8 DEF Start, Ctr
<1>9. CASE n = job[p].cur /\ ctrs' = ctrs
  <2>1. ASSUME Brings(job[p], n, ctrs), ~ctrs[n].running PROVE FALSE
    <3>1. job[p].at \in {"remove", "create", "start"}
      BY <2>1 DEF Brings
    <3>2. CASE Fails(p)
      <4>1. ~Fault
        BY DEF Fault, OnlyBringUp, CommandInv
      <4>2. Hopeless(p)
        BY <3>2, <4>1 DEF Fails
      <4>3. QED
        BY <1>9, <2>1, <3>1, <4>2 DEF Hopeless, Brings, Cur, CurId
    <3>3. CASE Remove(p)
      <4>1. ctrs'[n].owner = "none" /\ ctrs[n].owner # "none"
        BY <1>1, <1>9, <3>3, AbsentTyped, CurFacts DEF Remove, Cur
      <4>2. QED
        BY <1>9, <4>1
    <3>4. CASE Create(p)
      <4>1. ctrs'[n].owner = "ours" /\ ctrs[n].owner = "none"
        BY <1>1, <1>9, <3>4 DEF Create, Cur
      <4>2. QED
        BY <1>9, <4>1
    <3>5. CASE Start(p)
      BY <1>1, <1>9, <2>1, <3>5 DEF Start, Ctr
    <3>6. QED
      BY <3>1, <3>2, <3>3, <3>4, <3>5, StepCalls
  <2>2. QED
    BY <1>1, <1>9, <2>1, RaceKeeps
<1>10. QED
  BY <1>2, <1>4, <1>5, <1>6, <1>7, <1>8, <1>9

LEMMA RaceInvariant ==
    ASSUME OnlyBringUp
    PROVE  Spec => []RaceInv
<1>1. Init => RaceInv
  BY DEF Init, RaceInv, Idle, OnlyBringUp
<1>2. CommandInv /\ CommandInv' /\ RaceInv /\ [Next]_vars => RaceInv'
  <2> SUFFICES ASSUME CommandInv, CommandInv', RaceInv, [Next]_vars PROVE RaceInv'
    OBVIOUS
  <2>1. ASSUME NEW p \in Proc, Invoke(p) \/ Step(p) PROVE RaceInv'
    <3>1. ASSUME NEW q \in Proc
          PROVE  job'[q].cmd \in {"none", "start", "restart", "repull"}
      <4>1. CASE q # p
        <5>1. job'[q].cmd = job[q].cmd
          <6>1. job'[q] = [job[q] EXCEPT !.calm = FALSE]
            BY <2>1, <4>1, OthersStay
          <6>2. QED
            BY <6>1, JobFields DEF Job
        <5>2. QED
          BY <5>1 DEF RaceInv
      <4>2. CASE q = p /\ Step(p)
        BY <4>2, StepCmd DEF RaceInv
      <4>3. CASE q = p /\ Invoke(p)
        <5>1. PICK cmd \in Cmds, args \in Args : Begin(p, cmd, args) \/ Unreadable(p, cmd, args)
          BY <4>3 DEF Invoke
        <5>2. job'[p].cmd = cmd
          <6>1. CASE Begin(p, cmd, args)
            BY <6>1 DEF Begin, Turns, CommandInv
          <6>2. CASE Unreadable(p, cmd, args)
            BY <6>2 DEF Unreadable, Turns, CommandInv, Idle
          <6>3. QED
            BY <5>1, <6>1, <6>2
        <5>3. QED
          BY <4>3, <5>2 DEF OnlyBringUp
      <4>4. QED
        BY <2>1, <4>1, <4>2, <4>3
    <3>2. QED
      BY <2>1, <3>1, RaceStep DEF RaceInv
  <2>2. ~Environment /\ \A p \in Proc : ~Killed(p)
    BY DEF Environment, Exits, Vanishes, Applied, Taken, Replaced, Event, Killed, Fault,
           OnlyBringUp, CommandInv
  <2>3. CASE UNCHANGED vars
    BY <2>3 DEF RaceInv, Brings, vars
  <2>4. QED
    BY <2>1, <2>2, <2>3 DEF Next
<1>3. QED
  BY <1>1, <1>2, CommandInvariant, PTL DEF Spec

(***************************************************************************)
(* Any number of start, restart and repull that race for running containers *)
(* leave every declared one running when the last of them has ended, when   *)
(* no call fails and nobody else interferes: each call of one that spoils   *)
(* another's is itself a step of bringing the container up.                 *)
(***************************************************************************)
THEOREM RacesEndUp ==
    ASSUME OnlyBringUp
    PROVE  Spec => []RacesLeaveRunning
<1>1. RaceInv => RacesLeaveRunning
  BY DEF RaceInv, RacesLeaveRunning, Brings
<1>2. QED
  BY <1>1, RaceInvariant, PTL

-----------------------------------------------------------------------------
\* What a command that nobody has disturbed has got done of a name.
Done(j, n, f, c, k) ==
    /\ j.cmd = "start" => n \in j.had \/ c[n].owner = "none" \/ c[n].running
    /\ j.cmd = "stop" => ~c[n].running
    /\ j.cmd \in {"restart", "repull"} => c[n].running /\ c[n].hash = Hash(Declared.spec[n])
    /\ j.cmd = "disable" /\ n \notin j.had =>
          n \in (IF j.at = "idle" THEN f.names ELSE j.mem) /\ ~c[n].running
    /\ k = 0 =>
          /\ j.cmd = "enable" /\ n \in j.had /\ c[n].owner = "ours" =>
                c[n].running /\ c[n].hash = Hash(Declared.spec[n])
          /\ j.cmd = "down" => c[n].owner # "ours"

\* What state.json holds meanwhile: the State of the command, which differs from
\* the State it loaded in the names that it has dealt with, and the current one.
OnFile(j, f) ==
    /\ j.cmd \in Loads /\ j.at \notin {"idle", "save", "writing"} => f = Holding(j.mem)
    /\ j.at = "writing" => f = Torn
    /\ j.cmd = "start" => j.mem \subseteq j.had
    /\ j.cmd = "disable" =>
          /\ j.mem \cap j.todo \subseteq j.had \cup (IF j.at = "next" THEN {} ELSE {j.cur})
          /\ j.at \notin {"idle", "next"} => j.cur \in j.mem
    /\ j.cmd = "enable" =>
          /\ j.had \cap j.todo \subseteq j.mem \cup (IF j.at = "next" THEN {} ELSE {j.cur})
          /\ j.at \notin {"idle", "next"} =>
                j.cur \in Declared.names /\ ~Declared.spec[j.cur].off

\* What the engine holds meanwhile, k calls having failed: what was seen.
OnHost(j, c, k) ==
    /\ j.at \in {"stop", "remove", "start", "wake"} => j.ids[j.cur] = c[j.cur].id
    /\ j.at = "remove" /\ (j.cmd = "down" => k = 0) => ~c[j.cur].running
    /\ j.cmd = "down" => \A n \in j.todo : j.ids[n] = c[n].id
    /\ j.cmd = "enable" /\ k = 0 =>
          /\ j.at = "create" => c[j.cur].owner # "ours"
          /\ j.at \in {"check", "wake"} /\ c[j.cur].owner = "ours" =>
                c[j.cur].hash = Hash(Declared.spec[j.cur])

Alone(j, f, c, k) ==
    j.calm /\ (j.at # "idle" \/ j.out = "ok") =>
        /\ OnFile(j, f) /\ OnHost(j, c, k)
        /\ \A n \in j.args \ j.todo : Done(j, n, f, c, k)

CalmInv == \A p \in Proc : Alone(job[p], file, ctrs, faults)

\* The name at hand changes hands; what is done of the others stays done.
LEMMA AloneStep ==
    ASSUME CommandInv, NEW p \in Proc, Alone(job[p], file, ctrs, faults),
           job[p].at # "idle",
           NEW j, NEW f, NEW d, NEW k, NEW n \in job[p].todo,
           \A m \in Name \ {n} : d[m] = ctrs[m],
           k = 0 => faults = 0,
           j.cmd = job[p].cmd, j.args = job[p].args, j.had = job[p].had,
           j.calm = job[p].calm, j.at # "idle",
           j.cmd = "disable" => job[p].mem \subseteq j.mem,
           \/ j.todo = job[p].todo
           \/ /\ j.todo = job[p].todo \ {n}
              /\ n \in j.args /\ j.calm => Done(j, n, f, d, k),
           j.calm => OnFile(j, f) /\ OnHost(j, d, k)
    PROVE  Alone(j, f, d, k)
<1> SUFFICES ASSUME j.calm, NEW m \in j.args \ j.todo, m # n
             PROVE  Done(j, m, f, d, k)
  BY DEF Alone
<1>1. m \in Name /\ d[m] = ctrs[m] /\ m \in job[p].args \ job[p].todo
  BY JobFields
<1>2. Done(job[p], m, file, ctrs, faults)
  BY <1>1 DEF Alone
<1>3. QED
  BY <1>1, <1>2 DEF Done

LEMMA FailedAlone ==
    ASSUME CommandInv, NEW p \in Proc, NEW out \in {"error", "killed"}, NEW f, NEW c, NEW k
    PROVE  Alone(Ends(p, out), f, c, k)
BY EndsFields DEF Alone

\* Only the process that acts remains undisturbed.
LEMMA StepAlone ==
    ASSUME CommandInv, CommandInv', NEW p \in Proc, NEW j, Turns(p, j),
           Alone(j, file', ctrs', faults')
    PROVE  CalmInv'
<1>1. job'[p] = j /\ \A q \in Proc \ {p} : job'[q] = [job[q] EXCEPT !.calm = FALSE]
  BY DEF Turns, CommandInv
<1>2. \A q \in Proc \ {p} : ~job'[q].calm
  BY <1>1, JobFields DEF Job
<1>3. QED
  BY <1>1, <1>2 DEF CalmInv, Alone

LEMMA FileKeeps ==
    ASSUME CommandInv, NEW p \in Proc, OnFile(job[p], file),
           job[p].at \notin {"idle", "next", "save", "writing"}
    PROVE  /\ OnFile(NextName(p), file)
           /\ \A at \in Stages \ {"idle", "next", "save", "writing"} :
                 OnFile(To(p, at), file) /\ OnFile(Seen(p, at), file)
<1>1. OnFile(NextName(p), file)
  BY NextFields DEF OnFile
<1>2. ASSUME NEW at \in Stages \ {"idle", "next", "save", "writing"}
      PROVE  OnFile(To(p, at), file) /\ OnFile(Seen(p, at), file)
  <2>1. OnFile(To(p, at), file)
    BY ToFields DEF OnFile
  <2>2. OnFile(Seen(p, at), file)
    <3>1. /\ Seen(p, at).cmd = job[p].cmd /\ Seen(p, at).had = job[p].had
          /\ Seen(p, at).todo = job[p].todo /\ Seen(p, at).cur = job[p].cur
          /\ Seen(p, at).at = at /\ Seen(p, at).mem = job[p].mem
      BY SeenFields
    <3>2. QED
      BY <3>1 DEF OnFile
  <2>3. QED
    BY <2>1, <2>2
<1>3. QED
  BY <1>1, <1>2

LEMMA HostNext ==
    ASSUME CommandInv, NEW p \in Proc, OnHost(job[p], ctrs, faults), NEW d, NEW k,
           \A m \in Name \ {job[p].cur} : d[m] = ctrs[m]
    PROVE  OnHost(NextName(p), d, k)
<1>1. /\ NextName(p).cmd = job[p].cmd /\ NextName(p).at = "next"
      /\ NextName(p).todo = job[p].todo \ {job[p].cur}
      /\ NextName(p).ids = [job[p].ids EXCEPT ![job[p].cur] = NoId]
  BY NextFields
<1>2. \A m \in Name \ {job[p].cur} : NextName(p).ids[m] = job[p].ids[m]
  BY <1>1, JobFields
<1>3. job[p].cmd = "down" => \A m \in NextName(p).todo : NextName(p).ids[m] = d[m].id
  <2> SUFFICES ASSUME job[p].cmd = "down", NEW m \in NextName(p).todo
               PROVE  NextName(p).ids[m] = d[m].id
    OBVIOUS
  <2>1. m \in job[p].todo /\ m # job[p].cur
    BY <1>1
  <2>2. m \in Name
    BY <2>1, JobFields
  <2>3. job[p].ids[m] = ctrs[m].id
    BY <2>1 DEF OnHost
  <2>4. QED
    BY <1>2, <2>1, <2>2, <2>3
<1>4. QED
  BY <1>1, <1>3 DEF OnHost

\* A name is finished with.
LEMMA NextAlone ==
    ASSUME CommandInv, NEW p \in Proc, Alone(job[p], file, ctrs, faults),
           job[p].at \notin {"idle", "next", "save", "writing"},
           NEW d, NEW k, k = 0 => faults = 0,
           \A m \in Name \ {job[p].cur} : d[m] = ctrs[m],
           job[p].calm => Done(NextName(p), job[p].cur, file, d, k)
    PROVE  Alone(NextName(p), file, d, k)
<1>1. job[p].cur \in job[p].todo
  BY JobFields DEF Shape
<1>2. job[p].calm => OnFile(NextName(p), file) /\ OnHost(NextName(p), d, k)
  BY FileKeeps, HostNext DEF Alone
<1>3. /\ NextName(p).cmd = job[p].cmd /\ NextName(p).args = job[p].args
      /\ NextName(p).had = job[p].had /\ NextName(p).calm = job[p].calm
      /\ NextName(p).at = "next" /\ NextName(p).mem = job[p].mem
      /\ NextName(p).todo = job[p].todo \ {job[p].cur}
  BY NextFields
<1>4. QED
  BY <1>1, <1>2, <1>3, AloneStep

\* The next call for the same name.
LEMMA ToAlone ==
    ASSUME CommandInv, NEW p \in Proc, Alone(job[p], file, ctrs, faults),
           job[p].at \notin {"idle", "next", "save", "writing"},
           NEW at \in Stages \ {"idle", "next", "save", "writing"},
           NEW d, NEW k, k = 0 => faults = 0,
           \A m \in Name \ {job[p].cur} : d[m] = ctrs[m],
           job[p].calm => OnHost(To(p, at), d, k)
    PROVE  Alone(To(p, at), file, d, k)
<1>1. job[p].cur \in job[p].todo
  BY JobFields DEF Shape
<1>2. job[p].calm => OnFile(To(p, at), file)
  BY FileKeeps DEF Alone
<1>3. /\ To(p, at).cmd = job[p].cmd /\ To(p, at).args = job[p].args
      /\ To(p, at).had = job[p].had /\ To(p, at).calm = job[p].calm
      /\ To(p, at).at = at /\ To(p, at).mem = job[p].mem /\ To(p, at).todo = job[p].todo
  BY ToFields
<1>4. QED
  BY <1>1, <1>2, <1>3, AloneStep

\* A container is looked at, and called by what was seen.
LEMMA SeenAlone ==
    ASSUME CommandInv, NEW p \in Proc, Alone(job[p], file, ctrs, faults),
           job[p].at \in {"plan", "inspect", "check"}, NEW at \in {"stop", "wake"},
           job[p].calm /\ job[p].cmd = "enable" /\ faults = 0 /\ at = "wake"
             /\ Cur(p).owner = "ours" => Cur(p).hash = Hash(Declared.spec[job[p].cur])
    PROVE  Alone(Seen(p, at), file, ctrs, faults)
<1>1. job[p].cur \in job[p].todo /\ at \in Stages /\ job[p].cmd # "down" /\ job[p].cur \in Name
  BY JobFields DEF Shape, Calls, Stages
<1>2. job[p].calm => OnFile(Seen(p, at), file)
  BY <1>1, FileKeeps DEF Alone
<1>3. /\ Seen(p, at).cmd = job[p].cmd /\ Seen(p, at).args = job[p].args
      /\ Seen(p, at).had = job[p].had /\ Seen(p, at).calm = job[p].calm
      /\ Seen(p, at).at = at /\ Seen(p, at).mem = job[p].mem
      /\ Seen(p, at).todo = job[p].todo /\ Seen(p, at).cur = job[p].cur
      /\ Seen(p, at).ids = [job[p].ids EXCEPT ![job[p].cur] = Cur(p).id]
  BY <1>1, SeenFields
<1>4. Seen(p, at).ids[job[p].cur] = Cur(p).id
  BY <1>1, <1>3, JobFields
<1>5. job[p].calm => OnHost(Seen(p, at), ctrs, faults)
  BY <1>1, <1>3, <1>4 DEF OnHost, Cur
<1>6. QED
  BY <1>1, <1>2, <1>3, <1>5, AloneStep

-----------------------------------------------------------------------------
LEMMA InvokeAlone ==
    ASSUME CommandInv, CommandInv', NEW p \in Proc, Invoke(p)
    PROVE  CalmInv'
<1>1. PICK cmd \in Cmds, args \in Args : Begin(p, cmd, args) \/ Unreadable(p, cmd, args)
  BY DEF Invoke
<1>2. cmd \in Commands /\ args \in SUBSET Name /\ Silent
  BY <1>1, CommandsAssumption DEF Begin, Unreadable
<1>3. CASE Begin(p, cmd, args)
  <2> DEFINE mem  == IF cmd \in Loads THEN file.names ELSE {}
             todo == IF cmd = "down" THEN Listed(args) ELSE args
             ids  == IF cmd # "down" THEN NoIds
                     ELSE [n \in Name |-> IF n \in todo THEN ctrs[n].id ELSE NoId]
             j    == [cmd |-> cmd, args |-> args, todo |-> todo, cur |-> Idle.cur,
                      at |-> "next", mem |-> mem, had |-> mem, ids |-> ids,
                      out |-> "none", calm |-> TRUE]
  <2>1. /\ Turns(p, j) /\ j.cmd = cmd /\ j.args = args /\ j.at = "next"
        /\ cmd \in Loads => j.mem = file.names
        /\ j.mem = j.had
        /\ j.todo = IF cmd = "down" THEN Listed(args) ELSE args
        /\ cmd = "down" => j.ids = [n \in Name |-> IF n \in j.todo THEN ctrs[n].id ELSE NoId]
    BY <1>3 DEF Begin
  <2> HIDE DEF j
  <2>2. cmd \in Loads => file = Holding(file.names)
    BY <1>3 DEF Begin, CommandInv, File, Holding
  <2>3. OnFile(j, file)
    BY <2>1, <2>2 DEF OnFile, Loads
  <2>4. OnHost(j, ctrs, faults)
    BY <2>1 DEF OnHost, Listed
  <2>5. \A n \in j.args \ j.todo : Done(j, n, file, ctrs, faults)
    BY <1>2, <2>1 DEF Done, Listed
  <2>6. Alone(j, file, ctrs, faults)
    BY <2>3, <2>4, <2>5 DEF Alone
  <2>7. QED
    BY <1>2, <2>1, <2>6, StepAlone DEF Silent
<1>4. CASE Unreadable(p, cmd, args)
  <2> DEFINE j == [Idle EXCEPT !.cmd = cmd, !.args = args, !.out = "error"]
  <2>1. j.at = "idle" /\ j.out = "error"
    BY DEF Idle
  <2>2. Turns(p, j)
    BY <1>4 DEF Unreadable
  <2> HIDE DEF j
  <2>3. Alone(j, file, ctrs, faults)
    BY <2>1 DEF Alone
  <2>4. QED
    BY <1>2, <2>2, <2>3, StepAlone DEF Silent
<1>5. QED
  BY <1>1, <1>3, <1>4

\* A name of which nothing needs to be done.
LEMMA SkipAlone ==
    ASSUME CommandInv, NEW p \in Proc, Alone(job[p], file, ctrs, faults),
           job[p].at = "next", NEW n \in job[p].todo,
           job[p].calm => Done(Skip(p, n), n, file, ctrs, faults)
    PROVE  Alone(Skip(p, n), file, ctrs, faults)
<1>1. n \in Name
  BY JobFields
<1>2. /\ Skip(p, n).cmd = job[p].cmd /\ Skip(p, n).args = job[p].args
      /\ Skip(p, n).had = job[p].had /\ Skip(p, n).calm = job[p].calm
      /\ Skip(p, n).at = "next" /\ Skip(p, n).mem = job[p].mem
      /\ Skip(p, n).todo = job[p].todo \ {n} /\ Skip(p, n).ids = job[p].ids
  BY <1>1, SkipFields
<1>3. job[p].calm => OnFile(Skip(p, n), file) /\ OnHost(Skip(p, n), ctrs, faults)
  BY <1>2 DEF Alone, OnFile, OnHost
<1>4. QED
  BY <1>2, <1>3, AloneStep

LEMMA WithAlone ==
    ASSUME CommandInv, NEW p \in Proc, Alone(job[p], file, ctrs, faults),
           job[p].at = "next", NEW n \in job[p].todo,
           NEW at \in {"inspect", "pull", "stop"},
           job[p].cmd \notin {"disable", "enable"},
           at = "stop" => job[p].cmd = "down"
    PROVE  Alone(With(p, n, at), file, ctrs, faults)
<1>1. n \in Name /\ at \in Stages
  BY JobFields DEF Stages
<1>2. /\ With(p, n, at).cmd = job[p].cmd /\ With(p, n, at).args = job[p].args
      /\ With(p, n, at).had = job[p].had /\ With(p, n, at).calm = job[p].calm
      /\ With(p, n, at).at = at /\ With(p, n, at).mem = job[p].mem
      /\ With(p, n, at).todo = job[p].todo /\ With(p, n, at).ids = job[p].ids
      /\ With(p, n, at).cur = n
  BY <1>1, WithFields
<1>3. job[p].calm => OnFile(With(p, n, at), file) /\ OnHost(With(p, n, at), ctrs, faults)
  BY <1>2 DEF Alone, OnFile, OnHost
<1>4. QED
  BY <1>2, <1>3, AloneStep

LEMMA TakesAlone ==
    ASSUME CommandInv, CommandInv', CalmInv, NEW p \in Proc, NEW n \in Name,
           \/ DisableTakes(p, n) \/ EnableTakes(p, n) \/ StartTakes(p, n)
           \/ StopTakes(p, n) \/ RestartTakes(p, n) \/ RepullTakes(p, n) \/ DownTakes(p, n)
    PROVE  CalmInv'
<1>1. Silent /\ job[p].at = "next" /\ n \in job[p].todo
  BY DEF DisableTakes, EnableTakes, StartTakes, StopTakes, RestartTakes, RepullTakes,
         DownTakes, Chooses
<1>2. Alone(job[p], file, ctrs, faults) /\ Alone(Ends(p, "error"), file, ctrs, faults)
  BY FailedAlone DEF CalmInv
<1>3. /\ Skip(p, n).cmd = job[p].cmd /\ Skip(p, n).had = job[p].had
      /\ Skip(p, n).at = "next" /\ Skip(p, n).mem = job[p].mem
  BY <1>1, SkipFields
<1>4. \E j : Turns(p, j) /\ Alone(j, file, ctrs, faults)
  <2>1. CASE DisableTakes(p, n)
    <3>1. ASSUME n \in job[p].mem PROVE Alone(Skip(p, n), file, ctrs, faults)
      <4>1. job[p].calm => Done(Skip(p, n), n, file, ctrs, faults)
        BY <1>1, <1>2, <1>3, <2>1, <3>1 DEF Done, Alone, OnFile, DisableTakes, Chooses
      <4>2. QED
        BY <1>1, <1>2, <4>1, SkipAlone
    <3>2. Alone([With(p, n, "save") EXCEPT !.mem = @ \cup {n}], file, ctrs, faults)
      <4> DEFINE j == [With(p, n, "save") EXCEPT !.mem = @ \cup {n}]
      <4>1. /\ j.cmd = "disable" /\ j.at = "save" /\ j.cur = n /\ j.mem = job[p].mem \cup {n}
            /\ j.args = job[p].args /\ j.todo = job[p].todo /\ j.had = job[p].had
            /\ j.calm = job[p].calm /\ j.ids = job[p].ids /\ job[p].cmd = "disable"
        BY <2>1, JobFields DEF DisableTakes, Chooses, With, Job
      <4> HIDE DEF j
      <4>2. job[p].calm => OnFile(j, file) /\ OnHost(j, ctrs, faults)
        BY <1>1, <1>2, <4>1 DEF Alone, OnFile, OnHost
      <4>3. Alone(j, file, ctrs, faults)
        BY <1>1, <1>2, <4>1, <4>2, AloneStep
      <4>4. QED
        BY <4>3 DEF j
    <3>3. QED
      BY <1>2, <2>1, <3>1, <3>2 DEF DisableTakes
  <2>2. CASE EnableTakes(p, n)
    <3>1. ASSUME n \notin job[p].mem PROVE Alone(Skip(p, n), file, ctrs, faults)
      <4>1. job[p].calm => Done(Skip(p, n), n, file, ctrs, faults)
        BY <1>1, <1>2, <1>3, <2>2, <3>1 DEF Done, Alone, OnFile, EnableTakes, Chooses
      <4>2. QED
        BY <1>1, <1>2, <4>1, SkipAlone
    <3>2. ASSUME n \in Declared.names, ~Declared.spec[n].off
          PROVE  Alone([With(p, n, "save") EXCEPT !.mem = @ \ {n}], file, ctrs, faults)
      <4> DEFINE j == [With(p, n, "save") EXCEPT !.mem = @ \ {n}]
      <4>1. /\ j.cmd = "enable" /\ j.at = "save" /\ j.cur = n /\ j.mem = job[p].mem \ {n}
            /\ j.args = job[p].args /\ j.todo = job[p].todo /\ j.had = job[p].had
            /\ j.calm = job[p].calm /\ j.ids = job[p].ids /\ job[p].cmd = "enable"
        BY <2>2, JobFields DEF EnableTakes, Chooses, With, Job
      <4> HIDE DEF j
      <4>2. job[p].calm => OnFile(j, file) /\ OnHost(j, ctrs, faults)
        BY <1>1, <1>2, <3>2, <4>1 DEF Alone, OnFile, OnHost
      <4>3. Alone(j, file, ctrs, faults)
        BY <1>1, <1>2, <4>1, <4>2, AloneStep
      <4>4. QED
        BY <4>3 DEF j
    <3>3. QED
      BY <1>2, <2>2, <3>1, <3>2 DEF EnableTakes
  <2>3. CASE StartTakes(p, n)
    <3>1. ASSUME n \in job[p].mem PROVE Alone(Skip(p, n), file, ctrs, faults)
      <4>1. job[p].calm => Done(Skip(p, n), n, file, ctrs, faults)
        BY <1>1, <1>2, <1>3, <2>3, <3>1 DEF Done, Alone, OnFile, StartTakes, Chooses
      <4>2. QED
        BY <1>1, <1>2, <4>1, SkipAlone
    <3>2. Alone(With(p, n, "inspect"), file, ctrs, faults)
      BY <1>1, <1>2, <2>3, WithAlone DEF StartTakes, Chooses
    <3>3. QED
      BY <2>3, <3>1, <3>2 DEF StartTakes
  <2>4. CASE StopTakes(p, n) \/ RestartTakes(p, n)
    <3>1. Alone(With(p, n, "inspect"), file, ctrs, faults)
      BY <1>1, <1>2, <2>4, WithAlone DEF StopTakes, RestartTakes, Chooses
    <3>2. QED
      BY <2>4, <3>1 DEF StopTakes, RestartTakes
  <2>5. CASE RepullTakes(p, n)
    <3>1. Alone(With(p, n, "pull"), file, ctrs, faults)
      BY <1>1, <1>2, <2>5, WithAlone DEF RepullTakes, Chooses
    <3>2. QED
      BY <2>5, <3>1 DEF RepullTakes
  <2>6. CASE DownTakes(p, n)
    <3>1. Alone(With(p, n, "stop"), file, ctrs, faults)
      BY <1>1, <1>2, <2>6, WithAlone DEF DownTakes, Chooses
    <3>2. QED
      BY <2>6, <3>1 DEF DownTakes
  <2>7. QED
    BY <2>1, <2>2, <2>3, <2>4, <2>5, <2>6
<1>5. QED
  BY <1>1, <1>4, StepAlone DEF Silent

\* What is done while the command runs is what it reports at its end.
LEMMA FinishAlone ==
    ASSUME CommandInv, CommandInv', CalmInv, NEW p \in Proc, Finish(p)
    PROVE  CalmInv'
<1> DEFINE j == Ends(p, "ok")
<1>1. /\ j.cmd = job[p].cmd /\ j.args = job[p].args /\ j.todo = {} /\ j.at = "idle"
      /\ j.mem = {} /\ j.had = job[p].had /\ j.calm = job[p].calm
  BY EndsFields
<1> HIDE DEF j
<1>2. Alone(job[p], file, ctrs, faults) /\ job[p].at = "next" /\ job[p].todo = {}
  BY DEF CalmInv, Finish
<1>3. ASSUME j.calm PROVE OnFile(j, file) /\ OnHost(j, ctrs, faults)
  BY <1>1 DEF OnFile, OnHost
<1>4. ASSUME j.calm, NEW n \in j.args \ j.todo PROVE Done(j, n, file, ctrs, faults)
  <2>1. job[p].cmd \in Loads => file = Holding(job[p].mem)
    BY <1>1, <1>2, <1>4 DEF Alone, OnFile
  <2>2. Done(job[p], n, file, ctrs, faults)
    BY <1>1, <1>2, <1>4 DEF Alone
  <2>3. QED
    BY <1>1, <1>2, <2>1, <2>2 DEF Done, Holding, Loads
<1>5. Alone(j, file, ctrs, faults)
  BY <1>3, <1>4 DEF Alone
<1>6. QED
  BY <1>5, StepAlone DEF Finish, j

LEMMA SaveAlone ==
    ASSUME CommandInv, CommandInv', CalmInv, NEW p \in Proc, Truncate(p) \/ Write(p)
    PROVE  CalmInv'
<1>1. /\ job[p].cmd \in {"disable", "enable"} /\ job[p].cur \in job[p].todo
      /\ Alone(job[p], file, ctrs, faults)
      /\ {"writing", "inspect", "plan"} \subseteq Stages
  BY JobFields DEF CalmInv, Truncate, Write, Shape, Calls, Commands, Stages
<1>2. ASSUME NEW at \in {"writing", "inspect", "plan"}, NEW f,
             job[p].at \in {"save", "writing"},
             job[p].calm => f = IF at = "writing" THEN Torn ELSE Holding(job[p].mem)
      PROVE  Alone(To(p, at), f, ctrs, faults)
  <2>1. /\ To(p, at).cmd = job[p].cmd /\ To(p, at).args = job[p].args
        /\ To(p, at).had = job[p].had /\ To(p, at).calm = job[p].calm
        /\ To(p, at).at = at /\ To(p, at).mem = job[p].mem
        /\ To(p, at).todo = job[p].todo /\ To(p, at).cur = job[p].cur
    BY <1>1, ToFields
  <2>2. job[p].calm => OnFile(To(p, at), f)
    BY <1>1, <1>2, <2>1 DEF OnFile, Alone
  <2>3. OnHost(To(p, at), ctrs, faults)
    BY <1>1, <2>1 DEF OnHost
  <2>4. QED
    BY <1>1, <1>2, <2>1, <2>2, <2>3, AloneStep
<1>3. CASE Truncate(p)
  BY <1>2, <1>3, StepAlone DEF Truncate
<1>4. CASE Write(p)
  <2>1. job[p].calm => file' = Holding(job[p].mem)
    BY <1>1, <1>4 DEF Write, Alone, OnFile, Torn
  <2>2. /\ Alone(To(p, "inspect"), file', ctrs, faults)
        /\ Alone(To(p, "plan"), file', ctrs, faults)
    BY <1>2, <1>4, <2>1 DEF Write
  <2>3. QED
    BY <1>4, <2>2, StepAlone DEF Write
<1>5. QED
  BY <1>3, <1>4

LEMMA PlansAlone ==
    ASSUME CommandInv, CommandInv', CalmInv, NEW p \in Proc, Plans(p) \/ Pull(p)
    PROVE  CalmInv'
<1>1. /\ Alone(job[p], file, ctrs, faults) /\ job[p].at \in {"plan", "pull"} /\ Silent
      /\ {"inspect", "create", "check"} \subseteq Stages
      /\ job[p].cmd # "down" /\ (job[p].at = "plan" => job[p].cmd = "enable")
      /\ job[p].at = "pull" => job[p].cmd # "enable"
  BY JobFields DEF CalmInv, Plans, Pull, Stages, Shape, Calls, Commands
<1>2. CASE Pull(p)
  <2>1. OnHost(To(p, "inspect"), ctrs, faults)
    BY <1>1, <1>2, ToFields DEF OnHost
  <2>2. Alone(To(p, "inspect"), file, ctrs, faults)
    BY <1>1, <1>2, <2>1, ToAlone
  <2>3. QED
    BY <1>1, <1>2, <2>2, StepAlone DEF Pull, Silent
<1>3. CASE Plans(p)
  <2> DEFINE action == CtrAction(Declared, Selects(p), {}, ctrs, job[p].cur)
  <2>1. job[p].at = "plan" /\ job[p].cmd = "enable"
    BY <1>1, <1>3 DEF Plans
  <2>2. job[p].calm =>
           action = IF Cur(p).owner # "ours" THEN "create"
                    ELSE IF Cur(p).hash = Hash(Declared.spec[job[p].cur]) THEN "skip"
                    ELSE "recreate"
    <3>1. job[p].calm => job[p].cur \in Declared.names /\ ~Declared.spec[job[p].cur].off
      BY <1>1, <2>1 DEF Alone, OnFile
    <3>2. QED
      BY <3>1 DEF CtrAction, Selected, Selects, Full, Cur
  <2>3. CASE action = "create"
    <3>1. job[p].calm => OnHost(To(p, "create"), ctrs, faults)
      BY <1>1, <2>1, <2>2, <2>3, ToFields DEF OnHost, Cur
    <3>2. Alone(To(p, "create"), file, ctrs, faults)
      BY <1>1, <2>1, <3>1, ToAlone
    <3>3. QED
      BY <1>1, <1>3, <2>3, <3>2, StepAlone DEF Plans, Silent
  <2>4. CASE action = "recreate"
    <3>1. Alone(Seen(p, "stop"), file, ctrs, faults)
      BY <1>1, <2>1, SeenAlone
    <3>2. QED
      BY <1>1, <1>3, <2>4, <3>1, StepAlone DEF Plans, Silent
  <2>5. CASE action \notin {"create", "recreate"}
    <3>1. job[p].calm => OnHost(To(p, "check"), ctrs, faults)
      BY <1>1, <2>1, <2>2, <2>5, ToFields DEF OnHost, Cur
    <3>2. Alone(To(p, "check"), file, ctrs, faults)
      BY <1>1, <2>1, <3>1, ToAlone
    <3>3. QED
      BY <1>1, <1>3, <2>5, <3>2, StepAlone DEF Plans, Silent
  <2>6. QED
    BY <2>3, <2>4, <2>5
<1>4. QED
  BY <1>2, <1>3

LEMMA InspectsAlone ==
    ASSUME CommandInv, CommandInv', CalmInv, NEW p \in Proc,
           \/ DisableInspects(p) \/ StartInspects(p) \/ StopInspects(p)
           \/ RestartInspects(p) \/ RepullInspects(p) \/ Check(p)
    PROVE  CalmInv'
<1>1. /\ Alone(job[p], file, ctrs, faults) /\ Alone(Ends(p, "error"), file, ctrs, faults)
      /\ job[p].at \in {"inspect", "check"} /\ Silent
      /\ "create" \in Stages
      /\ Cur(p).owner = "none" => ~Cur(p).running
      /\ job[p].at = "check" => job[p].cmd = "enable"
      /\ job[p].at = "inspect" => job[p].cmd # "enable"
  BY FailedAlone, CurFacts, JobFields
     DEF CalmInv, DisableInspects, StartInspects, StopInspects, RestartInspects, RepullInspects,
         Inspects, Check, Stages, Shape, Calls, Commands
<1>2. /\ NextName(p).cmd = job[p].cmd /\ NextName(p).had = job[p].had
      /\ NextName(p).at = "next" /\ NextName(p).mem = job[p].mem
  BY NextFields
<1>3. /\ job[p].at = "inspect" => \A at \in {"stop", "wake"} : Alone(Seen(p, at), file, ctrs, faults)
      /\ (job[p].calm => Done(NextName(p), job[p].cur, file, ctrs, faults))
            => Alone(NextName(p), file, ctrs, faults)
  BY <1>1, SeenAlone, NextAlone
<1>4. \E j : Turns(p, j) /\ Alone(j, file, ctrs, faults)
  <2>1. CASE DisableInspects(p)
    <3>1. job[p].calm /\ ~Cur(p).running => Done(NextName(p), job[p].cur, file, ctrs, faults)
      BY <1>1, <1>2, <2>1 DEF Done, DisableInspects, Inspects, Cur, Alone, OnFile
    <3>2. QED
      BY <1>1, <1>3, <2>1, <3>1 DEF DisableInspects, Inspects
  <2>2. CASE StartInspects(p)
    <3>1. Cur(p).owner = "none" => Done(NextName(p), job[p].cur, file, ctrs, faults)
      BY <1>2, <2>2 DEF Done, StartInspects, Inspects, Cur
    <3>2. QED
      BY <1>1, <1>3, <2>2, <3>1 DEF StartInspects, Inspects
  <2>3. CASE StopInspects(p)
    <3>1. Cur(p).owner = "none" => Done(NextName(p), job[p].cur, file, ctrs, faults)
      BY <1>1, <1>2, <2>3 DEF Done, StopInspects, Inspects, Cur
    <3>2. QED
      BY <1>1, <1>3, <2>3, <3>1 DEF StopInspects, Inspects
  <2>4. CASE RestartInspects(p)
    BY <1>1, <1>3, <2>4 DEF RestartInspects, Inspects
  <2>5. CASE RepullInspects(p)
    <3>1. job[p].cmd = "repull" /\ job[p].at = "inspect"
      BY <2>5 DEF RepullInspects, Inspects
    <3>2. OnHost(To(p, "create"), ctrs, faults)
      BY <1>1, <3>1, ToFields DEF OnHost
    <3>3. Alone(To(p, "create"), file, ctrs, faults)
      BY <1>1, <3>1, <3>2, ToAlone
    <3>4. QED
      BY <1>3, <2>5, <3>1, <3>3 DEF RepullInspects, Inspects
  <2>6. CASE Check(p)
    <3>1. job[p].at = "check" /\ job[p].cmd = "enable"
      BY <1>1, <2>6 DEF Check
    <3>2. job[p].calm /\ faults = 0 /\ Cur(p).owner = "ours" =>
              Cur(p).hash = Hash(Declared.spec[job[p].cur])
      BY <1>1, <3>1 DEF Alone, OnHost, Cur
    <3>3. job[p].calm /\ (Cur(p).owner = "none" \/ Cur(p).running) =>
              Done(NextName(p), job[p].cur, file, ctrs, faults)
      BY <1>2, <3>1, <3>2 DEF Done, Cur
    <3>4. Alone(Seen(p, "wake"), file, ctrs, faults)
      BY <1>1, <3>1, <3>2, SeenAlone
    <3>5. QED
      BY <1>3, <2>6, <3>3, <3>4 DEF Check
  <2>7. QED
    BY <2>1, <2>2, <2>3, <2>4, <2>5, <2>6
<1>5. QED
  BY <1>1, <1>4, StepAlone DEF Silent

LEMMA StopAlone ==
    ASSUME CommandInv, CommandInv', CalmInv, NEW p \in Proc, Stop(p)
    PROVE  CalmInv'
<1>1. /\ Alone(job[p], file, ctrs, faults) /\ job[p].at = "stop" /\ job[p].cur \in Name
      /\ "remove" \in Stages /\ ctrs \in [Name -> Ctr] /\ job[p].cmd # "start"
      /\ UNCHANGED <<file, faults>>
  BY JobFields DEF CalmInv, Stop, Stages, CommandInv, Shape, Calls
<1>2. /\ \A m \in Name \ {job[p].cur} : ctrs'[m] = ctrs[m]
      /\ ~ctrs'[job[p].cur].running /\ ctrs'[job[p].cur].id = ctrs[job[p].cur].id
  BY <1>1 DEF Stop, Ctr
<1>3. CASE job[p].cmd \in {"disable", "stop"}
  <2>1. /\ NextName(p).cmd = job[p].cmd /\ NextName(p).had = job[p].had
        /\ NextName(p).at = "next" /\ NextName(p).mem = job[p].mem
    BY NextFields
  <2>2. job[p].calm => Done(NextName(p), job[p].cur, file, ctrs', faults)
    BY <1>1, <1>2, <1>3, <2>1 DEF Done, Alone, OnFile
  <2>3. Alone(NextName(p), file, ctrs', faults)
    BY <1>1, <1>2, <2>2, NextAlone
  <2>4. QED
    BY <1>1, <1>3, <2>3, StepAlone DEF Stop
<1>4. CASE job[p].cmd \notin {"disable", "stop"}
  <2>1. /\ To(p, "remove").cmd = job[p].cmd /\ To(p, "remove").todo = job[p].todo
        /\ To(p, "remove").cur = job[p].cur /\ To(p, "remove").at = "remove"
        /\ To(p, "remove").ids = job[p].ids
    BY <1>1, ToFields
  <2>2. job[p].calm => OnHost(To(p, "remove"), ctrs', faults)
    <3>1. job[p].calm => OnHost(job[p], ctrs, faults)
      BY <1>1 DEF Alone
    <3>2. \A m \in job[p].todo : m \in Name /\ ctrs'[m].id = ctrs[m].id
      BY <1>2, JobFields
    <3>3. QED
      BY <1>1, <1>2, <2>1, <3>1, <3>2 DEF OnHost
  <2>3. Alone(To(p, "remove"), file, ctrs', faults)
    BY <1>1, <1>2, <2>2, ToAlone
  <2>4. QED
    BY <1>1, <1>4, <2>3, StepAlone DEF Stop
<1>5. QED
  BY <1>3, <1>4

LEMMA RemoveAlone ==
    ASSUME CommandInv, CommandInv', CalmInv, NEW p \in Proc, Remove(p)
    PROVE  CalmInv'
<1>1. /\ Alone(job[p], file, ctrs, faults) /\ job[p].at = "remove" /\ job[p].cur \in Name
      /\ "create" \in Stages /\ ctrs \in [Name -> Ctr]
      /\ UNCHANGED <<file, faults>>
  BY JobFields DEF CalmInv, Remove, Stages, CommandInv
<1>2. /\ \A m \in Name \ {job[p].cur} : ctrs'[m] = ctrs[m]
      /\ ctrs'[job[p].cur].owner = "none"
  BY <1>1, AbsentTyped DEF Remove
<1>3. CASE job[p].cmd = "down"
  <2>1. Done(NextName(p), job[p].cur, file, ctrs', faults)
    BY <1>2, <1>3, NextFields DEF Done
  <2>2. Alone(NextName(p), file, ctrs', faults)
    BY <1>1, <1>2, <2>1, NextAlone
  <2>3. QED
    BY <1>1, <1>3, <2>2, StepAlone DEF Remove
<1>4. CASE job[p].cmd # "down"
  <2>1. OnHost(To(p, "create"), ctrs', faults)
    BY <1>1, <1>2, <1>4, ToFields DEF OnHost
  <2>2. Alone(To(p, "create"), file, ctrs', faults)
    BY <1>1, <1>2, <2>1, ToAlone
  <2>3. QED
    BY <1>1, <1>4, <2>2, StepAlone DEF Remove
<1>5. QED
  BY <1>3, <1>4

LEMMA CreateAlone ==
    ASSUME CommandInv, CommandInv', CalmInv, NEW p \in Proc, Create(p)
    PROVE  CalmInv'
<1> DEFINE id == CHOOSE i \in NewIds : TRUE
           n == job[p].cur
           j == [To(p, "start") EXCEPT !.ids[n] = id]
<1>1. /\ Alone(job[p], file, ctrs, faults) /\ job[p].at = "create" /\ n \in Name
      /\ ctrs \in [Name -> Ctr] /\ UNCHANGED <<file, faults>>
      /\ n \in job[p].todo /\ job[p].cmd # "down"
  BY JobFields DEF CalmInv, Create, CommandInv, Shape, Calls
<1>2. Turns(p, j) /\ ctrs'[n].id = id /\ \A m \in Name \ {n} : ctrs'[m] = ctrs[m]
  BY <1>1 DEF Create
<1> HIDE DEF id
<1>3. /\ j.cmd = job[p].cmd /\ j.args = job[p].args /\ j.had = job[p].had
      /\ j.calm = job[p].calm /\ j.at = "start" /\ j.mem = job[p].mem
      /\ j.todo = job[p].todo /\ j.cur = n /\ j.ids[n] = id
  BY <1>1, JobFields DEF To, Job
<1> HIDE DEF j
<1>4. job[p].calm => OnFile(j, file)
  BY <1>1, <1>3 DEF Alone, OnFile
<1>5. OnHost(j, ctrs', faults)
  BY <1>1, <1>2, <1>3 DEF OnHost
<1>6. Alone(j, file, ctrs', faults)
  BY <1>1, <1>2, <1>3, <1>4, <1>5, AloneStep
<1>7. QED
  BY <1>1, <1>2, <1>6, StepAlone

LEMMA StartAlone ==
    ASSUME CommandInv, CommandInv', CalmInv, NEW p \in Proc, Start(p)
    PROVE  CalmInv'
<1>1. /\ Alone(job[p], file, ctrs, faults) /\ job[p].at \in {"start", "wake"}
      /\ job[p].cur \in Name /\ ctrs \in [Name -> Ctr] /\ UNCHANGED <<file, faults>>
      /\ job[p].cmd \in {"start", "enable", "restart", "repull"}
      /\ job[p].cmd \in {"restart", "repull"} => job[p].at = "start"
  BY JobFields DEF CalmInv, Start, CommandInv, Shape, Calls, Commands
<1>2. /\ \A m \in Name \ {job[p].cur} : ctrs'[m] = ctrs[m]
      /\ ctrs'[job[p].cur].running
      /\ ctrs'[job[p].cur].owner = ctrs[job[p].cur].owner
      /\ ctrs'[job[p].cur].hash = ctrs[job[p].cur].hash
  BY <1>1 DEF Start, Ctr
<1>3. job[p].at = "start" => ctrs[job[p].cur].hash = Hash(Declared.spec[job[p].cur])
  <2>1. SeenIds(job[p], ctrs) /\ CurId(p) \in Id /\ Cur(p).id = CurId(p)
    BY <1>1, JobFields, CurFacts DEF Start
  <2>2. QED
    BY <1>1, <2>1, PlannerAssumption DEF SeenIds, Cur, CurId
<1>4. job[p].calm => Done(NextName(p), job[p].cur, file, ctrs', faults)
  <2>1. /\ NextName(p).cmd = job[p].cmd /\ NextName(p).had = job[p].had
    BY NextFields
  <2>2. job[p].calm => OnHost(job[p], ctrs, faults)
    BY <1>1 DEF Alone
  <2>3. QED
    BY <1>1, <1>2, <1>3, <2>1, <2>2 DEF Done, OnHost
<1>5. Alone(NextName(p), file, ctrs', faults)
  BY <1>1, <1>2, <1>4, NextAlone
<1>6. QED
  BY <1>1, <1>5, StepAlone DEF Start

\* After a failed call nothing is promised, or the call had done its work.
LEMMA FailureAlone ==
    ASSUME CommandInv, CommandInv', CalmInv, NEW p \in Proc, Fails(p) \/ Killed(p)
    PROVE  CalmInv'
<1>1. /\ Alone(job[p], file, ctrs, faults) /\ UNCHANGED <<file, ctrs>>
      /\ Alone(Ends(p, "error"), file, ctrs, faults')
      /\ Alone(Ends(p, "killed"), file, ctrs, faults')
      /\ {"remove", "check"} \subseteq Stages
  BY FailedAlone DEF CalmInv, Fails, Killed, Stages
<1>2. faults' = 0 => faults = 0 /\ Fails(p) /\ Hopeless(p)
  BY DEF Fails, Killed, Fault, CommandInv
<1>3. ASSUME job[p].cmd = "down", Fails(p)
      PROVE  /\ job[p].at = "stop" => Alone(To(p, "remove"), file, ctrs, faults')
             /\ job[p].at # "stop" => Alone(NextName(p), file, ctrs, faults')
  <2>1. job[p].at \in {"stop", "remove"}
    BY <1>3, JobFields DEF Fails, Shape, Calls
  <2>2. job[p].calm => faults' # 0
    BY <1>1, <1>2, <2>1 DEF Alone, OnHost, Hopeless, Cur, CurId
  <2>3. ASSUME job[p].at = "stop" PROVE Alone(To(p, "remove"), file, ctrs, faults')
    <3>1. job[p].calm => OnHost(To(p, "remove"), ctrs, faults')
      BY <1>1, <1>3, <2>2, <2>3, ToFields DEF Alone, OnHost
    <3>2. QED
      BY <1>1, <1>2, <2>3, <3>1, ToAlone
  <2>4. ASSUME job[p].at # "stop" PROVE Alone(NextName(p), file, ctrs, faults')
    <3>1. job[p].calm => Done(NextName(p), job[p].cur, file, ctrs, faults')
      BY <1>3, <2>2, NextFields DEF Done
    <3>2. QED
      BY <1>1, <1>2, <2>1, <3>1, NextAlone
  <2>5. QED
    BY <2>3, <2>4
<1>4. ASSUME job[p].cmd = "enable", Fails(p),
             job[p].at \in {"stop", "remove", "create", "start"}
      PROVE  Alone(To(p, "check"), file, ctrs, faults')
  <2>1. job[p].calm /\ faults' = 0 => Cur(p).owner # "ours"
    BY <1>1, <1>2, <1>4 DEF Alone, OnHost, Hopeless, Cur, CurId
  <2>2. job[p].calm => OnHost(To(p, "check"), ctrs, faults')
    BY <1>1, <1>4, <2>1, ToFields DEF OnHost, Cur
  <2>3. QED
    BY <1>1, <1>2, <1>4, <2>2, ToAlone
<1>5. \E j : Turns(p, j) /\ Alone(j, file, ctrs, faults')
  <2>1. CASE Fails(p)
    BY <1>1, <1>3, <1>4, <2>1 DEF Fails, AfterFailure
  <2>2. CASE Killed(p)
    BY <1>1, <2>2 DEF Killed
  <2>3. QED
    BY <2>1, <2>2
<1>6. QED
  BY <1>1, <1>5, StepAlone

LEMMA EnvironmentAlone ==
    ASSUME CommandInv, Environment
    PROVE  CalmInv'
<1>1. \A p \in Proc : job'[p] = [job[p] EXCEPT !.calm = FALSE]
  BY DEF Environment, Exits, Vanishes, Applied, Taken, Replaced, Event
<1>2. \A p \in Proc : ~job'[p].calm
  BY <1>1, JobFields DEF Job
<1>3. QED
  BY <1>2 DEF CalmInv, Alone

LEMMA CalmInvariant == Spec => []CalmInv
<1>1. Init => CalmInv
  BY DEF Init, CalmInv, Alone, Idle
<1>2. CommandInv /\ CommandInv' /\ CalmInv /\ [Next]_vars => CalmInv'
  <2> SUFFICES ASSUME CommandInv, CommandInv', CalmInv, [Next]_vars PROVE CalmInv'
    OBVIOUS
  <2>1. ASSUME NEW p \in Proc, Step(p) PROVE CalmInv'
    BY <2>1, TakesAlone, FinishAlone, SaveAlone, PlansAlone, InspectsAlone, StopAlone,
       RemoveAlone, CreateAlone, StartAlone, FailureAlone DEF Step
  <2>2. ASSUME NEW p \in Proc, Invoke(p) \/ Killed(p) PROVE CalmInv'
    BY <2>2, InvokeAlone, FailureAlone
  <2>3. CASE UNCHANGED vars
    BY <2>3 DEF CalmInv, vars
  <2>4. QED
    BY <2>1, <2>2, <2>3, EnvironmentAlone DEF Next
<1>3. QED
  BY <1>1, <1>2, CommandInvariant, PTL DEF Spec

(***************************************************************************)
(* An exit status of 0 means what it says, for any stack, any list of names *)
(* and any host: the names that a command has dealt with stay as it left    *)
(* them while it goes on with the others, and calls that failed have either *)
(* ended it with another status, or found nothing left to do.               *)
(***************************************************************************)
THEOREM StatusTruthful == Spec => []OkMeansDone
<1>1. CommandInv /\ CalmInv => OkMeansDone
  <2> SUFFICES ASSUME CommandInv, CalmInv, NEW p \in Proc, NEW n \in Name,
                      n \in job[p].args, job[p].at = "idle", job[p].out = "ok", job[p].calm
               PROVE  Done(job[p], n, file, ctrs, faults)
    BY DEF OkMeansDone, Succeeded, UpToDate, Done
  <2>1. job[p].todo = {}
    BY JobFields DEF Shape
  <2>2. QED
    BY <2>1 DEF CalmInv, Alone
<1>2. QED
  BY <1>1, CommandInvariant, CalmInvariant, PTL
-----------------------------------------------------------------------------
\* How far a command has come with a name; it goes down at every call.
Rank(at) ==
    CASE at = "next" -> 10 [] at = "save" -> 9 [] at \in {"writing", "pull"} -> 8
      [] at \in {"inspect", "plan"} -> 7 [] at = "stop" -> 6 [] at = "remove" -> 5
      [] at = "create" -> 4 [] at = "start" -> 3 [] at = "check" -> 2 [] OTHER -> 1

\* The calls that a command has left at most: ten for each name, and its end.
CallsLeft(j) == IF j.at = "idle" THEN 0 ELSE 10 * Cardinality(j.todo) + Rank(j.at) - 9

LEMMA TodoSize ==
    ASSUME IsFiniteSet(Name), CommandInv, NEW p \in Proc
    PROVE  /\ Cardinality(job[p].todo) \in Nat
           /\ job[p].at \notin {"idle", "next"} => Cardinality(job[p].todo) > 0
           /\ \A n \in job[p].todo :
                 Cardinality(job[p].todo \ {n}) = Cardinality(job[p].todo) - 1
           /\ Rank(job[p].at) \in 1..10
           /\ CallsLeft(job[p]) \in Nat /\ (job[p].at # "idle" => CallsLeft(job[p]) > 0)
<1>1. IsFiniteSet(job[p].todo) /\ Cardinality(job[p].todo) \in Nat
  BY JobFields, FS_Subset, FS_CardinalityType
<1>2. ASSUME NEW n \in job[p].todo
      PROVE  Cardinality(job[p].todo \ {n}) = Cardinality(job[p].todo) - 1
  BY <1>1, FS_RemoveElement
<1>3. job[p].at \notin {"idle", "next"} => Cardinality(job[p].todo) > 0
  BY <1>1, JobFields, FS_EmptySet DEF Shape
<1>4. Rank(job[p].at) \in 1..10
  BY DEF Rank
<1>5. CallsLeft(job[p]) \in Nat /\ (job[p].at # "idle" => CallsLeft(job[p]) > 0)
  BY <1>1, <1>3, <1>4 DEF CallsLeft, Rank
<1>6. QED
  BY <1>1, <1>2, <1>3, <1>4, <1>5

LEMMA StepRunsOut ==
    ASSUME IsFiniteSet(Name), CommandInv, NEW p \in Proc, Step(p) \/ Killed(p)
    PROVE  job[p].at # "idle" /\ CallsLeft(job'[p]) < CallsLeft(job[p])
<1> DEFINE Less(j) == CallsLeft(j) < CallsLeft(job[p])
<1>1. ASSUME NEW out \in {"ok", "error", "killed"}, job[p].at # "idle" PROVE Less(Ends(p, out))
  BY <1>1, TodoSize, EndsFields DEF CallsLeft
<1>2. ASSUME job[p].at \notin {"idle", "next"} PROVE Less(NextName(p))
  <2>1. job[p].cur \in job[p].todo
    BY <1>2, JobFields DEF Shape
  <2>2. Cardinality(NextName(p).todo) = Cardinality(job[p].todo) - 1 /\ NextName(p).at = "next"
    BY <2>1, TodoSize, NextFields
  <2>3. QED
    BY <1>2, <2>2, TodoSize DEF CallsLeft, Rank
<1>3. ASSUME NEW at \in Stages \ {"idle"}, job[p].at # "idle", Rank(at) < Rank(job[p].at)
      PROVE  /\ Less(To(p, at)) /\ Less(Seen(p, at))
             /\ \A n \in Name : Less(With(p, n, at))
  <2>1. Rank(at) \in 1..10
    BY DEF Rank
  <2>2. ASSUME NEW j, j.at = at, j.todo = job[p].todo PROVE Less(j)
    BY <1>3, <2>1, <2>2, TodoSize DEF CallsLeft
  <2>3. Less(To(p, at))
    <3>1. To(p, at).at = at /\ To(p, at).todo = job[p].todo
      BY ToFields
    <3>2. QED
      BY <2>2, <3>1
  <2>4. Less(Seen(p, at))
    <3>1. Seen(p, at).at = at /\ Seen(p, at).todo = job[p].todo
      BY SeenFields
    <3>2. QED
      BY <2>2, <3>1
  <2>5. ASSUME NEW n \in Name PROVE Less(With(p, n, at))
    <3>1. With(p, n, at).at = at /\ With(p, n, at).todo = job[p].todo
      BY WithFields
    <3>2. QED
      BY <2>2, <3>1
  <2>6. QED
    BY <2>3, <2>4, <2>5
<1>4. ASSUME NEW n \in job[p].todo, job[p].at = "next" PROVE Less(Skip(p, n))
  <2>1. n \in Name
    BY JobFields
  <2>2. Cardinality(Skip(p, n).todo) = Cardinality(job[p].todo) - 1 /\ Skip(p, n).at = "next"
    BY <1>4, <2>1, TodoSize, SkipFields
  <2>3. QED
    BY <1>4, <2>2, TodoSize DEF CallsLeft, Rank
<1>5. {"next", "save", "writing", "plan", "pull", "inspect", "stop", "remove", "create",
       "start", "check", "wake"} \subseteq Stages \ {"idle"}
  BY DEF Stages
<1>6. PICK j : Turns(p, j) /\ Less(j) /\ job[p].at # "idle"
  <2>1. ASSUME NEW n \in Name, DisableTakes(p, n) \/ EnableTakes(p, n)
        PROVE  \E j : Turns(p, j) /\ Less(j) /\ job[p].at # "idle"
    <3>1. job[p].at = "next" /\ n \in job[p].todo
      BY <2>1 DEF DisableTakes, EnableTakes, Chooses
    <3>2. Less(With(p, n, "save"))
      BY <1>3, <1>5, <3>1 DEF Rank
    <3>3. /\ Less([With(p, n, "save") EXCEPT !.mem = @ \cup {n}])
          /\ Less([With(p, n, "save") EXCEPT !.mem = @ \ {n}])
      <4>1. With(p, n, "save") \in Job
        BY <1>5, WithFields
      <4>2. QED
        BY <3>2, <4>1 DEF CallsLeft, Job
    <3>4. QED
      BY <1>1, <1>4, <2>1, <3>1, <3>3 DEF DisableTakes, EnableTakes
  <2>2. ASSUME NEW n \in Name, \/ StartTakes(p, n) \/ StopTakes(p, n) \/ RestartTakes(p, n)
                               \/ RepullTakes(p, n) \/ DownTakes(p, n)
        PROVE  \E j : Turns(p, j) /\ Less(j) /\ job[p].at # "idle"
    <3>1. job[p].at = "next" /\ n \in job[p].todo
      BY <2>2 DEF StartTakes, StopTakes, RestartTakes, RepullTakes, DownTakes, Chooses
    <3>2. \A at \in {"inspect", "pull", "stop"} : Less(With(p, n, at))
      BY <1>3, <1>5, <3>1 DEF Rank
    <3>3. QED
      BY <1>4, <2>2, <3>1, <3>2 DEF StartTakes, StopTakes, RestartTakes, RepullTakes, DownTakes
  <2>3. CASE \/ DisableInspects(p) \/ StartInspects(p) \/ StopInspects(p)
             \/ RestartInspects(p) \/ RepullInspects(p)
    <3>1. job[p].at = "inspect"
      BY <2>3 DEF DisableInspects, StartInspects, StopInspects, RestartInspects,
                  RepullInspects, Inspects
    <3>2. Less(Seen(p, "stop")) /\ Less(Seen(p, "wake")) /\ Less(To(p, "create"))
      BY <1>3, <1>5, <3>1 DEF Rank
    <3>3. QED
      BY <1>1, <1>2, <2>3, <3>1, <3>2
         DEF DisableInspects, StartInspects, StopInspects, RestartInspects, RepullInspects
  <2>4. CASE Check(p) \/ Plans(p) \/ Pull(p)
    <3>1. /\ job[p].at = "check" => Less(Seen(p, "wake"))
          /\ job[p].at = "plan" => Less(To(p, "create")) /\ Less(Seen(p, "stop"))
                                   /\ Less(To(p, "check"))
          /\ job[p].at = "pull" => Less(To(p, "inspect"))
      BY <1>3, <1>5 DEF Rank
    <3>2. QED
      BY <1>2, <2>4, <3>1 DEF Check, Plans, Pull
  <2>5. CASE Finish(p) \/ Truncate(p) \/ Write(p)
    <3>1. /\ job[p].at = "save" => Less(To(p, "writing"))
          /\ job[p].at = "writing" => Less(To(p, "inspect")) /\ Less(To(p, "plan"))
      BY <1>3, <1>5 DEF Rank
    <3>2. QED
      BY <1>1, <2>5, <3>1 DEF Finish, Truncate, Write
  <2>6. CASE Stop(p) \/ Remove(p) \/ Start(p) \/ Fails(p) \/ Killed(p)
    <3>1. /\ job[p].at = "stop" => Less(To(p, "remove"))
          /\ job[p].at = "remove" => Less(To(p, "create"))
          /\ job[p].at \in {"stop", "remove", "create", "start"} => Less(To(p, "check"))
      BY <1>3, <1>5 DEF Rank
    <3>2. QED
      BY <1>1, <1>2, <2>6, <3>1 DEF Stop, Remove, Start, Fails, Killed, AfterFailure
  <2>7. CASE Create(p)
    <3>1. PICK id : Turns(p, [To(p, "start") EXCEPT !.ids[job[p].cur] = id])
                    /\ job[p].at = "create"
      BY <2>7 DEF Create
    <3>2. Less(To(p, "start")) /\ To(p, "start") \in Job
      BY <1>3, <1>5, <3>1, ToFields DEF Rank
    <3>3. Less([To(p, "start") EXCEPT !.ids[job[p].cur] = id])
      BY <3>2 DEF CallsLeft, Job
    <3>4. QED
      BY <3>1, <3>3
  <2>8. QED
    BY <2>1, <2>2, <2>3, <2>4, <2>5, <2>6, <2>7 DEF Step
<1>7. QED
  BY <1>6 DEF Turns, CommandInv

(***************************************************************************)
(* No command goes on for ever, whatever fails and however many others run *)
(* at the same time: every step of a process leaves it fewer calls, no     *)
(* retry leads back, and no step of another gives it more.                 *)
(***************************************************************************)
THEOREM CommandsRunOut ==
    ASSUME IsFiniteSet(Name)
    PROVE  Spec => [][\A p \in Proc : job[p].at # "idle" =>
                        /\ CallsLeft(job[p]) \in Nat
                        /\ IF Step(p) \/ Killed(p) THEN CallsLeft(job'[p]) < CallsLeft(job[p])
                           ELSE CallsLeft(job'[p]) = CallsLeft(job[p])]_vars
<1>1. ASSUME CommandInv, Next, NEW p \in Proc, job[p].at # "idle"
      PROVE  /\ CallsLeft(job[p]) \in Nat
             /\ IF Step(p) \/ Killed(p) THEN CallsLeft(job'[p]) < CallsLeft(job[p])
                ELSE CallsLeft(job'[p]) = CallsLeft(job[p])
  <2>1. ASSUME job'[p] = [job[p] EXCEPT !.calm = FALSE]
        PROVE  CallsLeft(job'[p]) = CallsLeft(job[p])
    BY <1>1, <2>1, JobFields DEF CallsLeft, Job
  <2>2. ASSUME NEW q \in Proc \ {p}, Invoke(q) \/ Step(q) \/ Killed(q)
        PROVE  job'[p] = [job[p] EXCEPT !.calm = FALSE]
    BY <1>1, <2>2, OthersStay
  <2>3. ASSUME Environment PROVE job'[p] = [job[p] EXCEPT !.calm = FALSE]
    BY <2>3 DEF Environment, Exits, Vanishes, Applied, Taken, Replaced, Event
  <2>4. ~Invoke(p)
    BY <1>1 DEF Invoke, Begin, Unreadable
  <2>5. QED
    BY <1>1, <2>1, <2>2, <2>3, <2>4, StepRunsOut, TodoSize DEF Next
<1>2. CommandInv /\ [Next]_vars =>
        [\A p \in Proc : job[p].at # "idle" =>
            /\ CallsLeft(job[p]) \in Nat
            /\ IF Step(p) \/ Killed(p) THEN CallsLeft(job'[p]) < CallsLeft(job[p])
               ELSE CallsLeft(job'[p]) = CallsLeft(job[p])]_vars
  BY <1>1
<1>3. QED
  BY <1>2, CommandInvariant, PTL DEF Spec

=============================================================================
