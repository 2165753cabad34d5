------------------------------ MODULE PullPool ------------------------------
(***************************************************************************)
(* PullImages of internal/reconcile/reconcile.go: a loop that takes a slot *)
(* of the semaphore and starts a goroutine for every image, goroutines     *)
(* that pull, send their result and give the slot back, and a second loop  *)
(* that receives as many results as there are images.                      *)
(***************************************************************************)
EXTENDS Naturals, FiniteSets

CONSTANTS Image,     \* image references
          Workers    \* slots of the semaphore: 4 for apply, 2 for enable

ASSUME PoolAssumption ==
    /\ IsFiniteSet(Image)
    /\ Workers \in Nat \ {0}

VARIABLES jobs,      \* the distinct images of the plan's creates and recreates
          unsent,    \* those the first loop has not reached
          worker,    \* the goroutine of each image
          sem,       \* slots taken
          ch,        \* the buffered results channel
          received,  \* results taken from it
          errs,      \* images of the errors to be returned
          images,    \* the engine: images present
          refused,   \* history: images whose Pull has returned an error
          phase      \* "spawn", "collect", "returned"

poolVars == <<jobs, unsent, worker, sem, ch, received, errs, images, refused, phase>>

Stages == {"none", "pulling", "pulled", "failed", "sent", "exited"}

PoolTypeOK ==
    /\ jobs \in SUBSET Image /\ unsent \in SUBSET jobs
    /\ worker \in [Image -> Stages]
    /\ sem \in 0..Workers
    /\ ch \in SUBSET [image : jobs, ok : BOOLEAN]
    /\ received \in 0..Cardinality(jobs)
    /\ errs \in SUBSET jobs
    /\ images \in SUBSET Image
    /\ refused \in SUBSET jobs
    /\ phase \in {"spawn", "collect", "returned"}

PoolInit ==
    /\ jobs \in SUBSET Image
    /\ unsent = jobs
    /\ worker = [i \in Image |-> "none"]
    /\ sem = 0 /\ ch = {} /\ received = 0 /\ errs = {}
    /\ images \in SUBSET Image /\ refused = {}
    /\ phase = "spawn"

Moves(i, from, to) == worker[i] = from /\ worker' = [worker EXCEPT ![i] = to]

Spawn(i) ==
    /\ phase = "spawn" /\ i \in unsent
    /\ sem < Workers /\ sem' = sem + 1
    /\ Moves(i, "none", "pulling")
    /\ unsent' = unsent \ {i}
    /\ UNCHANGED <<jobs, ch, received, errs, images, refused, phase>>

Spawned ==
    /\ phase = "spawn" /\ unsent = {}
    /\ phase' = "collect"
    /\ UNCHANGED <<jobs, unsent, worker, sem, ch, received, errs, images, refused>>

\* runtime.Pull copies the engine's answer to io.Discard: it returns nil also
\* when that tells of an error, and the image is not there.
Pulled(i) ==
    /\ \/ /\ Moves(i, "pulling", "pulled")
          /\ images' \in {images, images \cup {i}} /\ UNCHANGED refused
       \/ /\ Moves(i, "pulling", "failed")
          /\ refused' = refused \cup {i} /\ UNCHANGED images
    /\ UNCHANGED <<jobs, unsent, sem, ch, received, errs, phase>>

\* Mutants: an unbuffered channel; the error is not sent.
SendUnbuffered(i) ==
    /\ worker[i] \in {"pulled", "failed"}
    /\ ch = {} /\ phase = "collect"
    /\ ch' = {[image |-> i, ok |-> worker[i] = "pulled"]}
    /\ Moves(i, worker[i], "sent")
    /\ UNCHANGED <<jobs, unsent, sem, received, errs, images, refused, phase>>
SendAlwaysOk(i) ==
    /\ worker[i] \in {"pulled", "failed"}
    /\ Cardinality(ch) < Cardinality(jobs)
    /\ ch' = ch \cup {[image |-> i, ok |-> TRUE]}
    /\ Moves(i, worker[i], "sent")
    /\ UNCHANGED <<jobs, unsent, sem, received, errs, images, refused, phase>>

\* ch holds as many results as there are jobs, so that no worker waits for the
\* second loop while the first one waits for a slot.
Send(i) ==
    /\ worker[i] \in {"pulled", "failed"}
    /\ Cardinality(ch) < Cardinality(jobs)
    /\ ch' = ch \cup {[image |-> i, ok |-> worker[i] = "pulled"]}
    /\ Moves(i, worker[i], "sent")
    /\ UNCHANGED <<jobs, unsent, sem, received, errs, images, refused, phase>>

Release(i) ==
    /\ Moves(i, "sent", "exited")
    /\ sem' = sem - 1
    /\ UNCHANGED <<jobs, unsent, ch, received, errs, images, refused, phase>>

Collect(r) ==
    /\ phase = "collect" /\ received < Cardinality(jobs)
    /\ r \in ch /\ ch' = ch \ {r}
    /\ received' = received + 1
    /\ errs' = IF r.ok THEN errs ELSE errs \cup {r.image}
    /\ UNCHANGED <<jobs, unsent, worker, sem, images, refused, phase>>

\* Mutant: one result too few is received.
ReturnsEarly ==
    /\ phase = "collect" /\ received + 1 >= Cardinality(jobs)
    /\ phase' = "returned"
    /\ UNCHANGED <<jobs, unsent, worker, sem, ch, received, errs, images, refused>>

CallerReturns ==
    /\ phase = "collect" /\ received = Cardinality(jobs)
    /\ phase' = "returned"
    /\ UNCHANGED <<jobs, unsent, worker, sem, ch, received, errs, images, refused>>

Caller == Spawned \/ CallerReturns \/ (\E i \in jobs : Spawn(i)) \/ (\E r \in ch : Collect(r))
Worker(i) == Pulled(i) \/ Send(i) \/ Release(i)
PoolNext == Caller \/ \E i \in Image : Worker(i)

PoolSpec == PoolInit /\ [][PoolNext]_poolVars
\* The caller and every goroutine run when they can, and every pull returns.
FairPoolSpec == PoolSpec /\ WF_poolVars(Caller) /\ \A i \in Image : WF_poolVars(Worker(i))

-----------------------------------------------------------------------------
Busy == {i \in Image : worker[i] \in {"pulling", "pulled", "failed", "sent"}}
Reported == {r.image : r \in ch}
Got == {i \in jobs : worker[i] \in {"sent", "exited"} /\ i \notin Reported}
Failed == errs \cup {r.image : r \in {x \in ch : ~x.ok}}
               \cup {i \in Image : worker[i] = "failed"}

\* "in parallel (bounded by workers)": never more pulls at once than slots.
Bounded == Cardinality({i \in Image : worker[i] = "pulling"}) <= Workers

(***************************************************************************)
(* When PullImages returns, every pull is over, and it returns an error    *)
(* for exactly the images whose Pull returned one, in whatever order the   *)
(* goroutines ended: none is left in the channel, lost or made up.  (That  *)
(* an image without an error is present is more than Pull promises.)       *)
(***************************************************************************)
AllReported ==
    phase = "returned" =>
        /\ \A i \in jobs : worker[i] \in {"sent", "exited"}
        /\ errs = refused

(***************************************************************************)
(* The pool is a way to pull every image of the plan once, which is all    *)
(* that Apply!PullImage takes it for.                                      *)
(***************************************************************************)
Promise == INSTANCE Pulls
    WITH todo <- {i \in jobs : worker[i] \in {"none", "pulling"}},
         present <- images, failed <- Failed, returned <- phase = "returned"

PoolImplements == Promise!Spec

\* The two loops and the workers never wait for each other in a circle.
PoolReturns == <>(phase = "returned" /\ sem = 0)

\* The inductive invariant: the counters are the sizes of what they count.
PoolInv ==
    /\ sem = Cardinality(Busy)
    /\ received = Cardinality(Got)
    /\ \A i \in Image : worker[i] = "none" <=> i \notin jobs \/ i \in unsent
    /\ \A r \in ch : worker[r.image] \in {"sent", "exited"}
    /\ \A r, s \in ch : r.image = s.image => r = s
    /\ errs \subseteq Got
    /\ Failed = refused
    /\ phase # "spawn" => unsent = {}
    /\ phase = "returned" => received = Cardinality(jobs)

=============================================================================
