----------------------------- MODULE ApplyProofs -----------------------------
EXTENDS Apply, FiniteSetTheorems, TLAPS

LEMMA HashTyped ==
    ASSUME NEW s \in Stack, NEW n \in Name
    PROVE  Hash(s.spec[n]) \in Hashes
BY DEF Stack, Container, Hash, Hashes

LEMMA AbsentTyped == Absent \in Ctr
<1>1. (CHOOSE i \in Image : TRUE) \in Image
  BY PlannerAssumption
<1>2. NoHash \in Hashes
  BY <1>1 DEF NoHash, Hashes
<1>3. QED
  BY <1>2 DEF Absent, Ctr, Owner

LEMMA BuildTyped ==
    ASSUME NEW s \in Stack, NEW sl \in SUBSET Name, NEW d \in SUBSET Name,
           NEW c \in [Name -> Ctr], NEW ns \in SUBSET Net
    PROVE  Build(s, sl, d, c, ns) \in Plan
<1>1. \A n \in Name : CtrAction(s, sl, d, c, n) \in CtrActions
  BY DEF CtrAction, CtrActions
<1>2. \A x \in Net : NetAction(s, sl, ns, x) \in NetActions
  BY DEF NetAction, NetActions
<1>3. \A n \in Name : (IF c[n].owner = "ours" THEN c[n].id ELSE NoId) \in Id \cup {NoId}
  BY DEF Ctr
<1>4. \A n \in Name : DepsWithin(s, Planned(s, sl, d, c), n) \in SUBSET Name
  BY DEF DepsWithin, Planned
<1>5. QED
  BY <1>1, <1>2, <1>3, <1>4 DEF Build, Plan

LEMMA InitTyped == Init => TypeOK
<1>1. SUFFICES ASSUME Init PROVE TypeOK
  OBVIOUS
<1>2. stack \in Stack /\ stack.names # {} /\ stack.names \subseteq Name
  BY <1>1, ApplyAssumption DEF Init, ValidStack, Stack
<1>3. ctrs \in [Name -> Ctr]
  BY <1>1, AbsentTyped DEF Init
<1>4. plan \in Plan
  <2>1. Build(stack, {}, disabled, ctrs, nets) \in Plan
    BY <1>1, <1>2, <1>3, BuildTyped DEF Init
  <2>2. QED
    BY <1>1, <2>1 DEF Init
<1>5. (CHOOSE n \in Name : TRUE) \in Name
  BY <1>2
<1>6. QED
  BY <1>1, <1>2, <1>3, <1>4, <1>5 DEF Init, TypeOK, Results

LEMMA PlansTyped ==
    ASSUME TypeOK, NEW s \in Selections, ApplyPlans(s)
    PROVE  /\ plan' = PlanFor(s) /\ plan' \in Plan
           /\ sel' \in SUBSET Name /\ res' \in [Name -> Results]
<1>1. s \in SUBSET Name
  BY ApplyAssumption
<1>2. PlanFor(s) \in Plan
  BY <1>1, BuildTyped DEF TypeOK, PlanFor
<1>3. QED
  BY <1>1, <1>2 DEF ApplyPlans, Results

LEMMA NewIdTyped == ASSUME NewIds # {} PROVE (CHOOSE id \in NewIds : TRUE) \in NewIds
OBVIOUS

LEMMA CreatedTyped ==
    ASSUME TypeOK, NEW n \in Name, NEW id \in Id
    PROVE  Created(n, id) \in Ctr
<1>1. plan.stack \in Stack
  BY DEF TypeOK, Plan
<1>2. Hash(plan.stack.spec[n]) \in Hashes
  BY <1>1, HashTyped
<1>3. QED
  BY <1>2 DEF Created, Ctr, Owner

LEMMA StopKeepsType ==
    ASSUME NEW c \in [Name -> Ctr], NEW n \in Name, NEW b \in BOOLEAN
    PROVE  [c EXCEPT ![n].running = b] \in [Name -> Ctr]
BY DEF Ctr

LEMMA NextTyped == TypeOK /\ [Next]_vars => TypeOK'
<1>1. SUFFICES ASSUME TypeOK, [Next]_vars PROVE TypeOK'
  OBVIOUS
<1> USE <1>1
<1>2. CASE Invoke
  <2>1. PICK s \in Selections :
            ApplyRefused(s) \/ ApplyNothingToDo(s) \/ ApplyStarts(s)
    BY <1>2 DEF Invoke
  <2>2. CASE ApplyRefused(s)
    BY <2>2 DEF ApplyRefused, TypeOK, world, local
  <2>3. CASE ApplyNothingToDo(s)
    <3>1. ApplyPlans(s)
      BY <2>3 DEF ApplyNothingToDo
    <3>2. QED
      BY <2>3, <3>1, PlansTyped DEF ApplyNothingToDo, ApplyPlans, TypeOK, world
  <2>4. CASE ApplyStarts(s)
    <3>1. ApplyPlans(s)
      BY <2>4 DEF ApplyStarts
    <3>2. todoPulls' \in SUBSET Image
      BY <2>4, <3>1, PlansTyped DEF ApplyStarts, NeedsImage, Plan, Stack, Container
    <3>3. QED
      BY <2>4, <3>1, <3>2, PlansTyped DEF ApplyStarts, ApplyPlans, TypeOK, world
  <2>5. QED
    BY <2>1, <2>2, <2>3, <2>4
<1>3. CASE Run
  <2>1. ASSUME NEW i \in Image, PullImage(i) PROVE TypeOK'
    BY <2>1 DEF PullImage, Fault, TypeOK
  <2>2. ASSUME NEW x \in Net, NetworkStep(x) PROVE TypeOK'
    BY <2>2 DEF NetworkStep, TypeOK
  <2>3. ASSUME NEW x \in Net, NetworkFails(x) PROVE TypeOK'
    BY <2>3 DEF NetworkFails, Fault, TypeOK, world, local
  <2>4. ASSUME NEW n \in Name, LeaveAlone(n) PROVE TypeOK'
    BY <2>4 DEF LeaveAlone, Finished, TypeOK, Results
  <2>5. ASSUME NEW n \in Name, StopOld(n) PROVE TypeOK'
    BY <2>5, StopKeepsType DEF StopOld, Moved, TypeOK
  <2>6. ASSUME NEW n \in Name, StopFails(n) PROVE TypeOK'
    BY <2>6 DEF StopFails, Finished, Fault, TypeOK, Results
  <2>7. ASSUME NEW n \in Name, CreateNew(n) PROVE TypeOK'
    <3>1. newId' \in Id
      BY <2>7, NewIdTyped DEF CreateNew, NewIds
    <3>2. ctrs' \in [Name -> Ctr]
      BY <2>7, <3>1, CreatedTyped DEF CreateNew, TypeOK
    <3>3. QED
      BY <2>7, <3>1, <3>2 DEF CreateNew, Moved, TypeOK
  <2>8. ASSUME NEW n \in Name, CreateFails(n) PROVE TypeOK'
    BY <2>8 DEF CreateFails, Finished, Fault, TypeOK, Results
  <2>9. ASSUME NEW n \in Name, CreateLeavesHalf(n) PROVE TypeOK'
    <3>1. (CHOOSE id \in NewIds : TRUE) \in Id
      BY <2>9, NewIdTyped DEF CreateLeavesHalf, NewIds
    <3>2. ctrs' \in [Name -> Ctr]
      BY <2>9, <3>1, CreatedTyped DEF CreateLeavesHalf, TypeOK
    <3>3. QED
      BY <2>9, <3>2 DEF CreateLeavesHalf, Finished, Fault, TypeOK, Results
  <2>10. ASSUME RemoveOld PROVE TypeOK'
    <3>1. ctrs' \in [Name -> Ctr]
      BY <2>10, AbsentTyped DEF RemoveOld, TypeOK
    <3>2. QED
      BY <2>10, <3>1 DEF RemoveOld, Finished, Moved, TypeOK, Results
  <2>11. ASSUME RemoveFails PROVE TypeOK'
    BY <2>11 DEF RemoveFails, Finished, Fault, TypeOK, Results
  <2>12. ASSUME StartNew PROVE TypeOK'
    BY <2>12, StopKeepsType DEF StartNew, Finished, TypeOK, Results
  <2>13. ASSUME StartFails PROVE TypeOK'
    BY <2>13 DEF StartFails, Finished, Fault, TypeOK, Results
  <2>14. ASSUME ApplyEnds PROVE TypeOK'
    BY <2>14 DEF ApplyEnds, TypeOK, world, local
  <2>15. QED
    BY <1>3, <2>1, <2>2, <2>3, <2>4, <2>5, <2>6, <2>7, <2>8, <2>9, <2>10,
       <2>11, <2>12, <2>13, <2>14 DEF Run
<1>4. CASE Killed
  BY <1>4 DEF Killed, Fault, TypeOK, world
<1>5. CASE Environment
  <2>1. ASSUME NEW s \in Stack, NEW d \in SUBSET Name, NEW c \in [Name -> Ctr],
               Event(s, d, c)
        PROVE  TypeOK'
    BY <2>1 DEF Event, TypeOK, local
  <2>2. ASSUME NEW s \in Stacks, EditStack(s) PROVE TypeOK'
    <3>1. s \in Stack /\ disabled \in SUBSET Name /\ ctrs \in [Name -> Ctr]
      BY ApplyAssumption DEF TypeOK
    <3>2. QED
      BY <2>1, <2>2, <3>1 DEF EditStack
  <2>3. ASSUME NEW n \in Name, Disable(n) PROVE TypeOK'
    <3>1. Stopped(n) \in [Name -> Ctr] /\ stack \in Stack /\ ctrs \in [Name -> Ctr]
      BY StopKeepsType DEF Stopped, TypeOK
    <3>2. disabled \cup {n} \in SUBSET Name
      BY DEF TypeOK
    <3>3. QED
      BY <2>1, <2>3, <3>1, <3>2 DEF Disable
  <2>4. ASSUME NEW n \in Name, Exits(n) PROVE TypeOK'
    <3>1. Stopped(n) \in [Name -> Ctr] /\ stack \in Stack /\ disabled \in SUBSET Name
      BY StopKeepsType DEF Stopped, TypeOK
    <3>2. QED
      BY <2>1, <2>4, <3>1 DEF Exits
  <2>5. ASSUME NEW n \in Name, Vanishes(n) PROVE TypeOK'
    <3>1. [ctrs EXCEPT ![n] = Absent] \in [Name -> Ctr] /\ stack \in Stack
          /\ disabled \in SUBSET Name
      BY AbsentTyped DEF TypeOK
    <3>2. QED
      BY <2>1, <2>5, <3>1 DEF Vanishes
  <2>6. ASSUME NEW n \in Name, NEW owner \in {"other", "unmanaged"}, Taken(n, owner)
        PROVE  TypeOK'
    <3> DEFINE c == [id |-> CHOOSE id \in NewIds : TRUE, owner |-> owner,
                     running |-> TRUE, hash |-> NoHash]
    <3>1. (CHOOSE id \in NewIds : TRUE) \in Id
      BY <2>6, NewIdTyped DEF Taken, NewIds
    <3>2. NoHash \in Hashes
      BY AbsentTyped DEF Absent, Ctr
    <3>3. c \in Ctr
      BY <3>1, <3>2 DEF Ctr, Owner
    <3>4. [ctrs EXCEPT ![n] = c] \in [Name -> Ctr] /\ stack \in Stack
          /\ disabled \in SUBSET Name
      BY <3>3 DEF TypeOK
    <3>5. Event(stack, disabled, [ctrs EXCEPT ![n] = c])
      BY <2>6 DEF Taken
    <3>6. QED
      BY <2>1, <3>4, <3>5
  <2>7. QED
    BY <1>5, <2>2, <2>3, <2>4, <2>5, <2>6 DEF Environment
<1>6. CASE UNCHANGED vars
  BY <1>6 DEF vars, world, local, TypeOK
<1>7. QED
  BY <1>2, <1>3, <1>4, <1>5, <1>6 DEF Next

\* Every variable keeps its type, and a container that is about to be started
\* has the id CreateContainer returned.
THEOREM TypeCorrect == Spec => []TypeOK
<1>1. QED
  BY InitTyped, NextTyped, PTL DEF Spec


-----------------------------------------------------------------------------
\* A step that changes at most n's container, and the plan not at all, leaves
\* every other container as settled as it was.
LEMMA SettledFrame ==
    ASSUME NEW n \in Name, UNCHANGED <<stack, sel, disabled>>,
           ctrs'[n].owner = ctrs[n].owner, ctrs'[n].hash = ctrs[n].hash
    PROVE  Settled(n)' <=> Settled(n)
BY DEF Settled, CtrAction, Selected, Full, Active

LEMMA NetSettledFrame ==
    ASSUME UNCHANGED <<stack, sel, nets>>, NEW x \in Net
    PROVE  NetSettled(x)' <=> NetSettled(x)
BY DEF NetSettled, NetAction, Full

\* What Build puts into a plan.
LEMMA BuildShape ==
    ASSUME TypeOK, NEW s \in SUBSET Name, NEW n \in Name
    PROVE  LET p == PlanFor(s) a == CtrAction(stack, s, disabled, ctrs, n) IN
           /\ p.stack = stack
           /\ p.ctr[n] = a
           /\ p.id[n] = IF ctrs[n].owner = "ours" THEN ctrs[n].id ELSE NoId
           /\ a \in {"create", "recreate"} =>
                 n \in Selected(stack, s) /\ ~stack.spec[n].off
           /\ a \in {"skip", "disabled", "declared-off"} => n \in Selected(stack, s)
           /\ a = "remove" => \/ n \in Selected(stack, s) /\ stack.spec[n].off
                              \/ n \notin Selected(stack, s) /\ Full(s)
           /\ a \in {"recreate", "remove"} => ctrs[n].owner = "ours"
           /\ n \in disabled => /\ a \notin {"create", "recreate", "skip"}
                                /\ a = "remove" => \/ n \notin stack.names
                                                   \/ stack.spec[n].off
BY DEF PlanFor, Build, CtrAction, Selected, Full

LEMMA BuildNets ==
    ASSUME NEW s \in SUBSET Name, NEW x \in Net
    PROVE  LET a == NetAction(stack, s, nets, x) IN
           /\ PlanFor(s).net[x] = a
           /\ a = "create" => x \in stack.nets
           /\ a = "remove" => x \notin stack.nets /\ Full(s)
BY DEF PlanFor, Build, NetAction

\* A plan just built has the shape the invariant asks for.
LEMMA FreshPlanShape ==
    ASSUME TypeOK, NEW s \in SUBSET Name,
           \A n \in Name : ctrs[n].owner = "ours" => ctrs[n].id # NoId,
           NEW p, p = PlanFor(s)
    PROVE  /\ \A n \in Name : LET a == p.ctr[n]
                                  picked == n \in Selected(p.stack, s)
                                  off == p.stack.spec[n].off IN
                 /\ a \in {"create", "recreate"} => picked /\ ~off
                 /\ a \in {"skip", "disabled", "declared-off"} => picked
                 /\ a = "remove" => (picked /\ off) \/ (~picked /\ Full(s))
                 /\ a \in {"recreate", "remove"} => p.id[n] # NoId
           /\ \A x \in Net : /\ p.net[x] = "create" => x \in p.stack.nets
                             /\ p.net[x] = "remove" => x \notin p.stack.nets /\ Full(s)
<1>1. p.stack = stack
  BY DEF PlanFor, Build
<1>2. ASSUME NEW n \in Name
      PROVE  LET a == p.ctr[n]
                 picked == n \in Selected(stack, s)
                 off == stack.spec[n].off IN
             /\ a \in {"create", "recreate"} => picked /\ ~off
             /\ a \in {"skip", "disabled", "declared-off"} => picked
             /\ a = "remove" => (picked /\ off) \/ (~picked /\ Full(s))
             /\ a \in {"recreate", "remove"} => p.id[n] # NoId
  BY <1>2, BuildShape
<1>3. ASSUME NEW x \in Net
      PROVE  /\ p.net[x] = "create" => x \in stack.nets
             /\ p.net[x] = "remove" => x \notin stack.nets /\ Full(s)
  BY <1>3, BuildNets
<1>4. QED
  BY <1>1, <1>2, <1>3

LEMMA InitInv == Init => RunInv
<1>1. SUFFICES ASSUME Init PROVE RunInv
  OBVIOUS
<1>2. TypeOK
  BY <1>1, InitTyped
<1>3. plan = PlanFor({}) /\ {} \in SUBSET Name
  BY <1>1 DEF Init, PlanFor
<1>4. \A n \in Name : ctrs[n].owner = "none" /\ ctrs[n].id = NoId
  BY <1>1 DEF Init, Absent
<1>5. IdsOwned
  BY <1>1, <1>2, <1>3, <1>4, BuildShape DEF IdsOwned, Init
<1>6. PlanShape
  <2>1. \A n \in Name : ctrs[n].owner # "ours"
    BY <1>4
  <2>2. sel = {}
    BY <1>1 DEF Init
  <2>3. QED
    BY <1>2, <1>3, <2>1, <2>2, FreshPlanShape DEF PlanShape
<1>7. RunShape /\ DisabledPlanned /\ Progress
  <2>1. plan.disabled = {}
    BY <1>1 DEF Init, Build
  <2>2. QED
    BY <1>1, <2>1 DEF RunShape, DisabledPlanned, Progress, Init
<1>8. QED
  BY <1>5, <1>6, <1>7 DEF RunInv

\* A new plan satisfies the invariant.
LEMMA PlansInv ==
    ASSUME TypeOK, RunInv, NEW s \in Selections, ApplyPlans(s),
           \/ pc' = "idle" /\ exit' = "ok" /\ todoNets' = {} /\ todoCtrs' = {}
           \/ /\ pc' = "next" /\ exit' = "running"
              /\ todoNets' = {x \in Net : plan'.net[x] \in {"create", "remove"}}
              /\ todoCtrs' = {n \in Name : plan'.ctr[n] # "none"}
    PROVE  RunInv'
<1>1. s \in SUBSET Name /\ plan' = PlanFor(s) /\ sel' = s /\ UNCHANGED world
  BY ApplyAssumption DEF ApplyPlans
<1>2. IdsOwned'
  BY <1>1, BuildShape DEF IdsOwned, RunInv, TypeOK, Ctr, world
<1>3. PlanShape'
  <2>1. \A n \in Name : ctrs[n].owner = "ours" => ctrs[n].id # NoId
    BY DEF RunInv, IdsOwned
  <2>2. QED
    BY <1>1, <2>1, FreshPlanShape DEF PlanShape
<1>4. RunShape'
  <2>1. CASE pc' = "idle" /\ exit' = "ok" /\ todoNets' = {} /\ todoCtrs' = {}
    BY <2>1 DEF RunShape
  <2>2. CASE /\ pc' = "next" /\ exit' = "running"
             /\ todoNets' = {x \in Net : plan'.net[x] \in {"create", "remove"}}
             /\ todoCtrs' = {n \in Name : plan'.ctr[n] # "none"}
    BY <2>2 DEF RunShape
  <2>3. QED
    BY <2>1, <2>2
<1>5. DisabledPlanned'
  <2>1. plan'.disabled = disabled /\ plan'.stack = stack /\ disabled \in SUBSET Name
    BY <1>1 DEF PlanFor, Build, TypeOK
  <2>2. QED
    BY <1>1, <2>1, BuildShape DEF DisabledPlanned
<1>6. Progress'
  <2>1. \A n \in Name : plan'.ctr[n] = CtrAction(stack, s, disabled, ctrs, n)
    BY <1>1, BuildShape
  <2>2. \A x \in Net : plan'.net[x] = NetAction(stack, s, nets, x)
    BY <1>1, BuildNets
  <2>3. plan'.stack = stack'
    BY <1>1 DEF PlanFor, Build, world
  <2>4. QED
    BY <1>1, <2>1, <2>2, <2>3 DEF Progress, Settled, NetSettled, Active, world
<1>7. QED
  BY <1>2, <1>3, <1>4, <1>5, <1>6 DEF RunInv

\* A step that changes no container, network, plan or stack.
LEMMA QuietInv ==
    ASSUME TypeOK, RunInv,
           UNCHANGED <<stack, disabled, ctrs, nets, sel, plan>>,
           pc' \in {"idle", "next"},
           (pc' # "idle") <=> (exit' = "running"),
           todoNets' \subseteq todoNets, todoCtrs' \subseteq todoCtrs,
           pc' # "idle" =>
              /\ disturbed' = disturbed /\ pc # "idle"
              /\ todoNets' = todoNets
              /\ \A n \in Name :
                    \/ res'[n] = res[n] /\ (n \in todoCtrs' <=> n \in todoCtrs)
                    \/ res'[n] = "failed"
                    \/ plan.ctr[n] \notin Active
    PROVE  RunInv'
<1>1. IdsOwned' /\ PlanShape' /\ DisabledPlanned'
  BY DEF RunInv, IdsOwned, PlanShape, DisabledPlanned, RunShape
<1>2. RunShape'
  BY DEF RunInv, RunShape
<1>3. Progress'
  <2>1. SUFFICES ASSUME pc' # "idle", ~disturbed' PROVE Progress'
    BY DEF Progress
  <2>2. Progress!2
    BY <2>1 DEF RunInv, Progress
  <2>3. \A n \in Name : Settled(n)' <=> Settled(n)
    BY SettledFrame
  <2>4. \A x \in Net : NetSettled(x)' <=> NetSettled(x)
    BY NetSettledFrame
  <2>5. QED
    BY <2>1, <2>2, <2>3, <2>4 DEF Progress
<1>4. QED
  BY <1>1, <1>2, <1>3 DEF RunInv

-----------------------------------------------------------------------------
\* The containers of a step that changes none but n's, or nothing of it but
\* whether it runs.
LEMMA OtherIds ==
    ASSUME TypeOK, RunInv, NEW n \in Name, UNCHANGED plan,
           \A m \in Name \ {n} : ctrs'[m] = ctrs[m],
           (ctrs'[n].owner = "none") <=> (ctrs'[n].id = NoId),
           plan.id[n] # NoId /\ ctrs'[n].id = plan.id[n] => ctrs'[n].owner = "ours",
           pc' = "start" /\ ctrs'[cur'].id = newId' => ctrs'[cur'].owner = "ours"
    PROVE  IdsOwned'
BY DEF RunInv, IdsOwned

LEMMA NewIdIsFresh ==
    ASSUME NewIds # {}, NEW id, id = CHOOSE i \in NewIds : TRUE
    PROVE  /\ id \in Id /\ id # newId /\ id # NoId
           /\ \A n \in Name : id # ctrs[n].id /\ id # plan.id[n]
BY PlannerAssumption DEF NewIds

LEMMA NetworkStepInv ==
    ASSUME TypeOK, RunInv, NEW x \in Net, NetworkStep(x)
    PROVE  RunInv'
<1>1. IdsOwned' /\ PlanShape' /\ DisabledPlanned'
  BY DEF RunInv, IdsOwned, PlanShape, DisabledPlanned, NetworkStep
<1>2. RunShape'
  BY DEF RunInv, RunShape, NetworkStep, NetTurn
<1>3. Progress'
  <2>1. SUFFICES ASSUME pc' # "idle", ~disturbed' PROVE Progress'
    BY DEF Progress
  <2>2. Progress!2
    BY <2>1 DEF RunInv, Progress, NetworkStep
  <2>3. \A n \in Name : Settled(n)' <=> Settled(n)
    BY DEF NetworkStep, Settled, CtrAction, Selected, Full, Active
  <2>4. ASSUME NEW y \in Net \ todoNets' PROVE NetSettled(y)'
    <3>1. CASE y = x
      BY <2>2, <3>1 DEF NetworkStep, NetTurn, RunInv, RunShape, PlanShape,
                        NetSettled, NetAction
    <3>2. CASE y # x
      BY <2>2, <2>4, <3>2 DEF NetworkStep, NetSettled, NetAction
    <3>3. QED
      BY <3>1, <3>2
  <2>5. QED
    BY <2>2, <2>3, <2>4 DEF Progress, NetworkStep
<1>4. QED
  BY <1>1, <1>2, <1>3 DEF RunInv

LEMMA StopOldInv ==
    ASSUME TypeOK, RunInv, NEW n \in Name, StopOld(n)
    PROVE  RunInv'
<1>1. /\ \A m \in Name \ {n} : ctrs'[m] = ctrs[m]
      /\ ctrs'[n].id = ctrs[n].id /\ ctrs'[n].owner = ctrs[n].owner
      /\ ctrs'[n].hash = ctrs[n].hash
  BY DEF StopOld, TypeOK, Ctr
<1>2. IdsOwned'
  BY <1>1 DEF StopOld, Moved, RunInv, IdsOwned
<1>3. PlanShape' /\ RunShape' /\ DisabledPlanned'
  BY DEF StopOld, StopTurn, Ready, Moved, RunInv, PlanShape, RunShape,
         DisabledPlanned
<1>4. \A m \in Name : Settled(m)' <=> Settled(m)
  BY <1>1, SettledFrame DEF StopOld, Moved
<1>5. \A x \in Net : NetSettled(x)' <=> NetSettled(x)
  BY NetSettledFrame DEF StopOld, Moved
<1>6. Progress'
  BY <1>4, <1>5 DEF Progress, RunInv, StopOld, StopTurn, Ready, Moved
<1>7. QED
  BY <1>2, <1>3, <1>6 DEF RunInv

LEMMA RemoveOldInv ==
    ASSUME TypeOK, RunInv, RemoveOld
    PROVE  RunInv'
<1>1. /\ cur \in Name /\ cur' = cur
      /\ ctrs'[cur] = Absent
      /\ \A m \in Name \ {cur} : ctrs'[m] = ctrs[m]
      /\ pc = "remove" /\ pc' \in {"next", "create"}
      /\ UNCHANGED <<stack, disabled, nets, sel, plan, todoPulls, todoNets,
                     exit, disturbed>>
  BY DEF RemoveOld, TypeOK, Finished, Moved
<1>2. Absent.owner = "none" /\ Absent.id = NoId
  BY DEF Absent
<1>3. IdsOwned'
  BY <1>1, <1>2, OtherIds
<1>4. PlanShape' /\ DisabledPlanned'
  BY <1>1 DEF RunInv, PlanShape, DisabledPlanned
<1>5. RunShape'
  BY <1>1 DEF RemoveOld, Finished, Moved, RunInv, RunShape
<1>6. Progress'
  <2>1. SUFFICES ASSUME ~disturbed' PROVE Progress'
    BY DEF Progress
  <2>2. Progress!2
    BY <1>1, <2>1 DEF RunInv, Progress
  <2>3. \A m \in Name \ {cur} : Settled(m)' <=> Settled(m)
    BY <1>1, SettledFrame
  <2>4. \A x \in Net : NetSettled(x)' <=> NetSettled(x)
    BY <1>1, NetSettledFrame
  <2>5. plan.ctr[cur] \in Active
    BY <1>1 DEF RunInv, RunShape, Active
  <2>6. plan.ctr[cur] = "remove" => Settled(cur)'
    BY <1>1, <1>2, <2>2 DEF RunInv, PlanShape, Settled, CtrAction, Selected,
                            Full, Active
  <2>7. CASE plan.ctr[cur] = "remove" /\ Finished(cur, "removed")
    BY <1>1, <2>2, <2>3, <2>4, <2>5, <2>6, <2>7 DEF Progress, Finished, TypeOK
  <2>8. CASE plan.ctr[cur] = "recreate" /\ Moved(cur, "create")
    BY <1>1, <2>2, <2>3, <2>4, <2>5, <2>8
       DEF Progress, Moved, RunInv, RunShape
  <2>9. QED
    BY <2>7, <2>8 DEF RemoveOld
<1>7. QED
  BY <1>3, <1>4, <1>5, <1>6 DEF RunInv

\* Both ways a container comes into being: with the id kept, and half made.
LEMMA CreatedInv ==
    ASSUME TypeOK, RunInv, NEW n \in Name, CreateTurn(n), NewIds # {},
           NEW id, id = CHOOSE i \in NewIds : TRUE,
           ctrs' = [ctrs EXCEPT ![n] = Created(n, id)],
           \/ Moved(n, "start") /\ newId' = id
           \/ Finished(n, "failed")
    PROVE  RunInv'
<1>1. /\ cur' = n
      /\ ctrs'[n] = Created(n, id)
      /\ \A m \in Name \ {n} : ctrs'[m] = ctrs[m]
      /\ pc \in {"next", "create"} /\ pc' \in {"start", "next"}
      /\ UNCHANGED <<stack, disabled, nets, sel, plan, todoPulls, todoNets,
                     exit, disturbed>>
  BY DEF CreateTurn, Ready, TypeOK, Moved, Finished
<1>2. /\ Created(n, id).owner = "ours" /\ Created(n, id).id = id
      /\ Created(n, id).hash = Hash(plan.stack.spec[n])
  BY DEF Created
<1>3. id # NoId /\ id # plan.id[n]
  BY NewIdIsFresh
<1>4. n \in todoCtrs /\ plan.ctr[n] \in {"create", "recreate"}
      /\ todoNets = {} /\ todoPulls = {}
  BY DEF CreateTurn, Ready, RunInv, RunShape
<1>5. IdsOwned'
  BY <1>1, <1>2, <1>3, OtherIds
<1>6. PlanShape' /\ DisabledPlanned'
  BY <1>1 DEF RunInv, PlanShape, DisabledPlanned
<1>7. RunShape'
  BY <1>1, <1>4 DEF Finished, Moved, RunInv, RunShape
<1>8. Progress'
  <2>1. SUFFICES ASSUME ~disturbed' PROVE Progress'
    BY DEF Progress
  <2>2. Progress!2
    BY <1>1, <2>1 DEF RunInv, Progress
  <2>3. \A m \in Name \ {n} : Settled(m)' <=> Settled(m)
    BY <1>1, SettledFrame
  <2>4. \A x \in Net : NetSettled(x)' <=> NetSettled(x)
    BY <1>1, NetSettledFrame
  <2>5. CASE Moved(n, "start")
    BY <1>1, <1>2, <1>4, <2>2, <2>3, <2>4, <2>5 DEF Progress, Moved, Active
  <2>6. CASE Finished(n, "failed")
    BY <1>1, <1>2, <1>4, <2>2, <2>3, <2>4, <2>6
       DEF Progress, Finished, Active, TypeOK
  <2>7. QED
    BY <2>5, <2>6
<1>9. QED
  BY <1>5, <1>6, <1>7, <1>8 DEF RunInv

LEMMA StartNewInv ==
    ASSUME TypeOK, RunInv, StartNew
    PROVE  RunInv'
<1>1. /\ cur \in Name /\ cur' = cur
      /\ \A m \in Name \ {cur} : ctrs'[m] = ctrs[m]
      /\ ctrs'[cur].id = ctrs[cur].id /\ ctrs'[cur].owner = ctrs[cur].owner
      /\ ctrs'[cur].hash = ctrs[cur].hash
      /\ pc = "start" /\ pc' = "next"
      /\ UNCHANGED <<stack, disabled, nets, sel, plan, todoPulls, todoNets,
                     exit, disturbed>>
  BY DEF StartNew, TypeOK, Ctr, Finished
<1>2. IdsOwned'
  BY <1>1, OtherIds DEF RunInv, IdsOwned
<1>3. PlanShape' /\ DisabledPlanned'
  BY <1>1 DEF RunInv, PlanShape, DisabledPlanned
<1>4. RunShape'
  BY <1>1 DEF StartNew, Finished, RunInv, RunShape
<1>5. Progress'
  <2>1. SUFFICES ASSUME ~disturbed' PROVE Progress'
    BY DEF Progress
  <2>2. Progress!2
    BY <1>1, <2>1 DEF RunInv, Progress
  <2>3. \A m \in Name : Settled(m)' <=> Settled(m)
    BY <1>1, SettledFrame
  <2>4. \A x \in Net : NetSettled(x)' <=> NetSettled(x)
    BY <1>1, NetSettledFrame
  <2>5. Settled(cur)
    BY <1>1, <2>2 DEF RunInv, RunShape, PlanShape, Settled, CtrAction, Active
  <2>6. QED
    BY <1>1, <2>2, <2>3, <2>4, <2>5 DEF Progress, StartNew, Finished, TypeOK
<1>6. QED
  BY <1>2, <1>3, <1>4, <1>5 DEF RunInv

\* Whatever others do, the ids this process holds stay its own.
LEMMA EnvironmentInv ==
    ASSUME TypeOK, RunInv, Environment
    PROVE  RunInv'
<1>1. disturbed' = TRUE /\ UNCHANGED <<local, pc, exit>>
  BY DEF Environment, EditStack, Disable, Exits, Vanishes, Taken, Event
<1>2. PlanShape' /\ RunShape' /\ Progress'
  BY <1>1 DEF RunInv, PlanShape, RunShape, Progress, local
<1>3. DisabledPlanned'
  BY <1>1 DEF Environment, EditStack, Disable, Exits, Vanishes, Taken, Event,
              RunInv, DisabledPlanned, local
<1>4. IdsOwned'
  <2>1. ASSUME NEW s \in Stacks, EditStack(s) PROVE IdsOwned'
    BY <1>1, <2>1 DEF EditStack, Event, RunInv, IdsOwned, local
  <2>2. ASSUME NEW n \in Name, ctrs' = ctrs \/ ctrs' = Stopped(n) PROVE IdsOwned'
    <3>1. \A m \in Name : ctrs'[m].id = ctrs[m].id /\ ctrs'[m].owner = ctrs[m].owner
      BY <2>2 DEF Stopped, TypeOK, Ctr
    <3>2. cur \in Name
      BY DEF TypeOK
    <3>3. QED
      BY <1>1, <3>1, <3>2 DEF RunInv, IdsOwned, local
  <2>3. ASSUME NEW n \in Name, Vanishes(n) PROVE IdsOwned'
    <3>1. /\ ctrs'[n].id = NoId /\ ctrs'[n].owner = "none"
          /\ \A m \in Name \ {n} : ctrs'[m] = ctrs[m]
      BY <2>3 DEF Vanishes, Event, Absent, TypeOK
    <3>2. pc = "start" => newId # NoId
      BY PlannerAssumption DEF TypeOK
    <3>3. cur \in Name
      BY DEF TypeOK
    <3>4. QED
      BY <1>1, <3>1, <3>2, <3>3 DEF RunInv, IdsOwned, local
  <2>4. ASSUME NEW n \in Name, NEW owner \in {"other", "unmanaged"}, Taken(n, owner)
        PROVE  IdsOwned'
    <3> DEFINE id == CHOOSE i \in NewIds : TRUE
    <3>1. /\ ctrs'[n].id = id /\ ctrs'[n].owner = owner
          /\ \A m \in Name \ {n} : ctrs'[m] = ctrs[m]
      BY <2>4 DEF Taken, Event, TypeOK
    <3>2. id # newId /\ id # NoId /\ id # plan.id[n]
      BY <2>4, NewIdIsFresh DEF Taken
    <3>3. cur \in Name
      BY DEF TypeOK
    <3>4. QED
      BY <1>1, <3>1, <3>2, <3>3 DEF RunInv, IdsOwned, local
  <2>5. QED
    BY <2>1, <2>2, <2>3, <2>4 DEF Environment, Disable, Exits, Event
<1>5. QED
  BY <1>2, <1>3, <1>4 DEF RunInv

LEMMA InvNext == TypeOK /\ RunInv /\ [Next]_vars => RunInv'
<1> SUFFICES ASSUME TypeOK, RunInv, [Next]_vars PROVE RunInv'
  OBVIOUS
<1>1. CASE Invoke
  <2>1. ASSUME NEW s \in Selections, ApplyRefused(s) PROVE RunInv'
    <3>1. UNCHANGED <<stack, disabled, ctrs, nets, sel, plan, pc, todoNets,
                      todoCtrs>> /\ pc = "idle" /\ exit' = "error"
      BY <2>1 DEF ApplyRefused, Invoked, world, local
    <3>2. QED
      BY <3>1, QuietInv
  <2>2. ASSUME NEW s \in Selections, ApplyNothingToDo(s) PROVE RunInv'
    BY <2>2, PlansInv DEF ApplyNothingToDo, ApplyPlans, Invoked
  <2>3. ASSUME NEW s \in Selections, ApplyStarts(s) PROVE RunInv'
    BY <2>3, PlansInv DEF ApplyStarts, ApplyPlans
  <2>4. QED
    BY <1>1, <2>1, <2>2, <2>3 DEF Invoke
<1>2. CASE Run
  <2>1. ASSUME NEW i \in Image, PullImage(i) PROVE RunInv'
    BY <2>1, QuietInv DEF PullImage, RunInv, RunShape
  <2>2. ASSUME NEW x \in Net, NetworkFails(x) PROVE RunInv'
    BY <2>2, QuietInv DEF NetworkFails, world, local
  <2>3. ASSUME NEW n \in Name, Finished(n, "failed"), ctrs' = ctrs, pc # "idle"
        PROVE  RunInv'
    BY <2>3, QuietInv DEF Finished, RunInv, RunShape, TypeOK
  <2>4. ASSUME NEW n \in Name, LeaveAlone(n) PROVE RunInv'
    BY <2>4, QuietInv DEF LeaveAlone, Ready, Finished, RunInv, RunShape, TypeOK,
                          Active
  <2>5. ASSUME NEW n \in Name, StopFails(n) \/ CreateFails(n) PROVE RunInv'
    BY <2>3, <2>5 DEF StopFails, StopTurn, CreateFails, CreateTurn, Ready
  <2>6. ASSUME RemoveFails \/ StartFails PROVE RunInv'
    BY <2>3, <2>6 DEF RemoveFails, StartFails, TypeOK
  <2>7. ASSUME NEW n \in Name, CreateNew(n) PROVE RunInv'
    BY <2>7, CreatedInv DEF CreateNew
  <2>8. ASSUME NEW n \in Name, CreateLeavesHalf(n) PROVE RunInv'
    BY <2>8, CreatedInv DEF CreateLeavesHalf
  <2>9. CASE ApplyEnds
    BY <2>9, QuietInv DEF ApplyEnds, world, local
  <2>10. QED
    BY <1>2, <2>1, <2>2, <2>4, <2>5, <2>6, <2>7, <2>8, <2>9,
       NetworkStepInv, StopOldInv, RemoveOldInv, StartNewInv DEF Run
<1>3. CASE Killed
  BY <1>3, QuietInv DEF Killed, world
<1>4. CASE Environment
  BY <1>4, EnvironmentInv
<1>5. CASE UNCHANGED vars
  BY <1>5 DEF vars, world, local, RunInv, IdsOwned, PlanShape, RunShape,
              DisabledPlanned, Progress, Settled, NetSettled
<1>6. QED
  BY <1>1, <1>2, <1>3, <1>4, <1>5 DEF Next

\* The ids, the plan and the progress of a run are what the engine shows.
THEOREM RunInvariant == Spec => []RunInv
<1>1. QED
  BY TypeCorrect, InitInv, InvNext, PTL DEF Spec

-----------------------------------------------------------------------------
\* What a step of the process can do to the containers and the networks: to one
\* container that is planned to change and is this project's or not there yet.
LEMMA OwnStep ==
    ASSUME TypeOK, RunInv, [Next]_vars, Own
    PROVE  /\ \/ ctrs' = ctrs
              \/ \E m \in Name :
                    /\ pc # "idle" /\ plan.ctr[m] \in Active
                    /\ ctrs[m].owner \in {"none", "ours"}
                    /\ \A n \in Name \ {m} : ctrs'[n] = ctrs[n]
                    /\ plan.ctr[m] = "remove" => ~ctrs'[m].running
           /\ \/ nets \subseteq nets'
              \/ \E x \in Net : pc # "idle" /\ plan.net[x] = "remove"
<1>1. CASE Invoke
  BY <1>1 DEF Invoke, ApplyRefused, ApplyNothingToDo, ApplyStarts, ApplyPlans,
              world
<1>2. CASE Run
  <2> DEFINE Changes(m) == /\ pc # "idle" /\ plan.ctr[m] \in Active
                           /\ ctrs[m].owner \in {"none", "ours"}
                           /\ \A n \in Name \ {m} : ctrs'[n] = ctrs[n]
                           /\ plan.ctr[m] = "remove" => ~ctrs'[m].running
                           /\ nets' = nets
  <2>1. ASSUME NEW m \in Name, StopOld(m) PROVE Changes(m)
    <3>1. /\ plan.ctr[m] \in {"recreate", "remove"} /\ pc # "idle"
          /\ plan.id[m] # NoId /\ ctrs[m].id = plan.id[m]
      BY <2>1 DEF StopOld, StopTurn, Ready, RunInv, PlanShape
    <3>2. ctrs[m].owner = "ours"
      BY <3>1 DEF RunInv, IdsOwned
    <3>3. QED
      BY <2>1, <3>1, <3>2 DEF StopOld, Moved, TypeOK, Ctr, Active
  <2>2. ASSUME RemoveOld PROVE cur \in Name /\ Changes(cur)
    <3>1. /\ plan.ctr[cur] \in {"recreate", "remove"} /\ pc # "idle"
          /\ plan.id[cur] # NoId /\ ctrs[cur].id = plan.id[cur] /\ cur \in Name
      BY <2>2 DEF RemoveOld, RunInv, PlanShape, RunShape, TypeOK
    <3>2. ctrs[cur].owner = "ours"
      BY <3>1 DEF RunInv, IdsOwned
    <3>3. QED
      BY <2>2, <3>1, <3>2 DEF RemoveOld, Finished, Moved, TypeOK, Absent, Active
  <2>3. ASSUME NEW m \in Name, CreateNew(m) \/ CreateLeavesHalf(m)
        PROVE  Changes(m)
    <3>1. plan.ctr[m] \in {"create", "recreate"} /\ pc # "idle"
      BY <2>3 DEF CreateNew, CreateLeavesHalf, CreateTurn, Ready, RunInv, RunShape
    <3>2. QED
      BY <2>3, <3>1 DEF CreateNew, CreateLeavesHalf, CanCreate, Moved, Finished,
                        TypeOK, Active
  <2>4. ASSUME StartNew PROVE cur \in Name /\ Changes(cur)
    <3>1. /\ plan.ctr[cur] \in {"create", "recreate"} /\ pc # "idle"
          /\ ctrs[cur].owner = "ours" /\ cur \in Name
      BY <2>4 DEF StartNew, RunInv, IdsOwned, RunShape, TypeOK
    <3>2. QED
      BY <2>4, <3>1 DEF StartNew, Finished, TypeOK, Active
  <2>5. ASSUME NEW x \in Net, NetworkStep(x)
        PROVE  /\ ctrs' = ctrs
               /\ nets \subseteq nets' \/ (pc # "idle" /\ plan.net[x] = "remove")
    BY <2>5 DEF NetworkStep, NetTurn, RunInv, RunShape
  <2>6. QED
    BY <1>2, <2>1, <2>2, <2>3, <2>4, <2>5
       DEF Run, PullImage, NetworkFails, LeaveAlone, StopFails, CreateFails,
           RemoveFails, StartFails, Finished, ApplyEnds, world
<1>3. CASE Killed
  BY <1>3 DEF Killed, world
<1>4. CASE Environment
  BY <1>4 DEF Environment, EditStack, Disable, Exits, Vanishes, Taken, Event,
              Own, TypeOK
<1>5. CASE UNCHANGED vars
  BY <1>5 DEF vars, world
<1>6. QED
  BY <1>1, <1>2, <1>3, <1>4, <1>5 DEF Next

\* A call of apply leaves the containers of others as they are: it stops and
\* removes by ids that IdsOwned says are its own, and creates on free names.
THEOREM ForeignSafe == Spec => ForeignUntouched
<1>1. TypeOK /\ RunInv /\ [Next]_vars =>
        [Own => \A n \in Name :
           ctrs[n].owner \in {"other", "unmanaged"} => ctrs'[n] = ctrs[n]]_vars
  BY OwnStep
<1>2. QED
  BY <1>1, TypeCorrect, RunInvariant, PTL DEF Spec, ForeignUntouched

\* A partial apply stays within the names it was given and keeps the networks.
THEOREM PartialStaysInScope == Spec => PartialScope
<1>1. TypeOK /\ RunInv /\ [Next]_vars =>
        [Own /\ pc # "idle" /\ ~Full(sel) =>
          /\ nets \subseteq nets'
          /\ \A n \in Name \ sel : ctrs'[n] = ctrs[n]]_vars
  <2> SUFFICES ASSUME TypeOK, RunInv, [Next]_vars, Own, ~Full(sel)
               PROVE  /\ nets \subseteq nets'
                      /\ \A n \in Name \ sel : ctrs'[n] = ctrs[n]
    OBVIOUS
  <2>1. \A m \in Name : plan.ctr[m] \in Active => m \in sel
    BY DEF RunInv, PlanShape, Selected, Active
  <2>2. \A x \in Net : plan.net[x] # "remove"
    BY DEF RunInv, PlanShape
  <2>3. QED
    BY <2>1, <2>2, OwnStep
<1>2. QED
  BY <1>1, TypeCorrect, RunInvariant, PTL DEF Spec, PartialScope

\* No call of apply acts on a name state.json listed at planning time, but to remove it when
\* stack.yaml gives it up.
THEOREM DisabledStays == Spec => DisabledSurvives
<1>1. TypeOK /\ RunInv /\ [Next]_vars =>
        [Own /\ pc # "idle" => \A n \in plan.disabled :
          \/ ctrs'[n] = ctrs[n]
          \/ /\ \/ n \notin plan.stack.names
                \/ plan.stack.spec[n].off
             /\ ~ctrs'[n].running]_vars
  <2> SUFFICES ASSUME TypeOK, RunInv, [Next]_vars, Own, pc # "idle",
                      NEW n \in plan.disabled, ctrs'[n] # ctrs[n]
               PROVE  /\ n \notin plan.stack.names \/ plan.stack.spec[n].off
                      /\ ~ctrs'[n].running
    OBVIOUS
  <2>1. n \in Name
    BY DEF TypeOK, Plan
  <2>2. plan.ctr[n] \in Active /\ (plan.ctr[n] = "remove" => ~ctrs'[n].running)
    BY <2>1, OwnStep
  <2>3. QED
    BY <2>1, <2>2 DEF RunInv, DisabledPlanned, Active
<1>2. QED
  BY <1>1, TypeCorrect, RunInvariant, PTL DEF Spec, DisabledSurvives

\* A plan without changes says that every object is settled.
LEMMA NoChanges ==
    ~HasChanges(Build(stack, sel, disabled, ctrs, nets))
    <=> (\A n \in Name : Settled(n)) /\ (\A x \in Net : NetSettled(x))
BY DEF HasChanges, Build, Settled, NetSettled, Active

\* A run that exits 0 has dealt with all of its plan, and Progress says that
\* what it has dealt with is settled.
THEOREM ExitZeroIsConverged == Spec => []ExitZeroConverged
<1> DEFINE AllSettled == (\A n \in Name : Settled(n)) /\ (\A x \in Net : NetSettled(x))
           Inv == exit = "ok" /\ ~disturbed => AllSettled
<1>1. Init => Inv
  BY DEF Init
<1>2. TypeOK /\ RunInv /\ Inv /\ [Next]_vars => Inv'
  <2> SUFFICES ASSUME TypeOK, RunInv, Inv, [Next]_vars, exit' = "ok", ~disturbed'
               PROVE  AllSettled'
    OBVIOUS
  <2>1. ASSUME NEW s \in Selections, ApplyNothingToDo(s) PROVE AllSettled'
    <3>1. /\ stack' = stack /\ sel' = s /\ disabled' = disabled /\ ctrs' = ctrs
          /\ nets' = nets /\ ~HasChanges(PlanFor(s))
      BY <2>1 DEF ApplyNothingToDo, ApplyPlans, world
    <3>2. QED
      BY <3>1 DEF PlanFor, HasChanges, Build, Settled, NetSettled, Active
  <2>2. CASE ApplyEnds
    <3>1. /\ pc = "next" /\ todoNets = {} /\ todoCtrs = {} /\ ~disturbed
          /\ \A n \in Name : res[n] # "failed"
      BY <2>2 DEF ApplyEnds
    <3>2. AllSettled
      BY <3>1 DEF RunInv, Progress
    <3>3. QED
      BY <2>2, <3>2 DEF ApplyEnds, world, local, Settled, NetSettled
  <2>3. CASE UNCHANGED vars
    BY <2>3 DEF vars, world, local, Settled, NetSettled
  <2>4. CASE Environment
    BY <2>4 DEF Environment, EditStack, Disable, Exits, Vanishes, Taken, Event
  <2>5. CASE Killed
    BY <2>5 DEF Killed
  <2>6. CASE Run /\ ~ApplyEnds
    <3>1. pc # "idle" /\ (exit' = exit \/ exit' = "error")
      BY <2>6 DEF Run, PullImage, NetworkStep, NetworkFails, NetTurn, LeaveAlone,
                  StopOld, StopFails, StopTurn, CreateNew, CreateFails,
                  CreateLeavesHalf, CreateTurn, Ready, RemoveOld, RemoveFails,
                  StartNew, StartFails, Finished, Moved
    <3>2. QED
      BY <3>1 DEF RunInv, RunShape
  <2>7. CASE Invoke
    BY <2>1, <2>7 DEF Invoke, ApplyRefused, ApplyStarts
  <2>8. QED
    BY <2>2, <2>3, <2>4, <2>5, <2>6, <2>7 DEF Next
<1>3. Inv <=> ExitZeroConverged
  BY NoChanges DEF ExitZeroConverged
<1>4. QED
  BY <1>1, <1>2, <1>3, TypeCorrect, RunInvariant, PTL DEF Spec

-----------------------------------------------------------------------------
(***************************************************************************)
(* What a run has told and prepared so far; the inductive invariant of     *)
(* ResultTruthful and DependenciesFirst.  A container has a result once    *)
(* the run is done with it, and, if nobody interferes, the result is true; *)
(* the networks and images of the plan are there or still to come; what    *)
(* the container at hand waits for is done.                                *)
(***************************************************************************)
Told(n) ==
    /\ res[n] \in {"created", "recreated"} =>
          ctrs[n].running /\ ctrs[n].hash = Hash(plan.stack.spec[n])
    /\ res[n] = "removed" => ctrs[n] = Absent

Dealt(n) ==
    /\ res[n] = "none" <=> plan.ctr[n] = "none" \/ n \in todoCtrs
    /\ plan.ctr[n] \in {"create", "recreate"} => res[n] \notin {"removed", "skipped"}

Prepared ==
    /\ plan.stack.nets \subseteq nets \cup todoNets
    /\ NeedsImage(plan) \subseteq images \cup unpulled \cup todoPulls

Running ==
    /\ \A n \in Name : Dealt(n)
    /\ Prepared
    /\ pc # "next" => plan.after[cur] \cap todoCtrs = {}
    /\ ~disturbed => \A n \in Name : Told(n)

ResultInv == (pc # "idle" => Running) /\ ResultTruthful

LEMMA InitResult == Init => ResultInv
BY DEF Init, ResultInv, ResultTruthful

\* The run is done with a container.
LEMMA FinishedResult ==
    ASSUME TypeOK, RunInv, Running, NEW n \in Name, NEW r \in Results \ {"none"}, Finished(n, r),
           n \in todoCtrs,
           plan.ctr[n] \in {"create", "recreate"} => r \notin {"removed", "skipped"},
           \A m \in Name \ {n} : ctrs'[m] = ctrs[m],
           ~disturbed /\ r \in {"created", "recreated"} =>
               ctrs'[n].running /\ ctrs'[n].hash = Hash(plan.stack.spec[n]),
           r = "removed" => ctrs'[n] = Absent
    PROVE  Running'
<1>1. /\ UNCHANGED <<nets, images, plan, todoPulls, todoNets, unpulled, disturbed>>
      /\ pc' = "next" /\ todoCtrs' = todoCtrs \ {n} /\ res'[n] = r
      /\ \A m \in Name \ {n} : res'[m] = res[m]
  BY DEF Finished, TypeOK
<1>2. plan.ctr[n] # "none"
  BY DEF RunInv, RunShape
<1>3. ASSUME NEW m \in Name PROVE Dealt(m)'
  BY <1>1, <1>2 DEF Running, Dealt
<1>4. Prepared'
  BY <1>1 DEF Running, Prepared, NeedsImage
<1>5. ASSUME ~disturbed', NEW m \in Name PROVE Told(m)'
  BY <1>1, <1>5 DEF Running, Told
<1>6. QED
  BY <1>1, <1>3, <1>4, <1>5 DEF Running

\* The run goes on with a container it is not done with.
LEMMA MovedResult ==
    ASSUME TypeOK, RunInv, Running, NEW n \in Name, NEW to, Moved(n, to),
           n \in todoCtrs, plan.after[n] \cap todoCtrs = {},
           \A m \in Name \ {n} : ctrs'[m] = ctrs[m]
    PROVE  Running'
<1>1. /\ UNCHANGED <<nets, images, plan, todoPulls, todoNets, todoCtrs, unpulled, res, disturbed>>
      /\ cur' = n /\ res[n] = "none"
  BY DEF Moved, Running, Dealt
<1>2. \A m \in Name : Dealt(m)' /\ (~disturbed' => Told(m)')
  BY <1>1 DEF Running, Dealt, Told
<1>3. Prepared'
  BY <1>1 DEF Running, Prepared, NeedsImage
<1>4. QED
  BY <1>1, <1>2, <1>3 DEF Running

LEMMA StartsResult ==
    ASSUME TypeOK, NEW s \in Selections, ApplyStarts(s)
    PROVE  ResultInv'
<1>1. /\ s \in SUBSET Name /\ plan' = PlanFor(s) /\ pc' = "next"
      /\ UNCHANGED <<nets, images>>
      /\ todoPulls' = NeedsImage(plan')
      /\ todoNets' = {x \in Net : plan'.net[x] \in {"create", "remove"}}
      /\ todoCtrs' = {n \in Name : plan'.ctr[n] # "none"}
      /\ \A n \in Name : res'[n] = "none"
  BY ApplyAssumption DEF ApplyStarts, ApplyPlans, world
<1>2. plan'.stack = stack
  BY <1>1 DEF PlanFor, Build
<1>3. \A n \in Name : Dealt(n)' /\ Told(n)'
  BY <1>1 DEF Dealt, Told
<1>4. Prepared'
  <2>1. ASSUME NEW x \in plan'.stack.nets PROVE x \in nets' \cup todoNets'
    <3>1. x \in Net /\ plan'.net[x] = NetAction(stack, s, nets, x)
      BY <1>1, <1>2, BuildNets DEF TypeOK, Stack
    <3>2. QED
      BY <1>1, <1>2, <3>1 DEF NetAction
  <2>2. NeedsImage(plan)' \subseteq todoPulls'
    BY <1>1 DEF NeedsImage
  <2>3. QED
    BY <2>1, <2>2 DEF Prepared
<1>5. QED
  BY <1>1, <1>3, <1>4 DEF ResultInv, Running, ResultTruthful

LEMMA RunResult ==
    ASSUME TypeOK, RunInv, Running, Run, pc' # "idle", pc # "idle"
    PROVE  Running'
<1>1. ASSUME NEW i \in Image, PullImage(i) PROVE Running'
  <2>1. /\ UNCHANGED <<ctrs, nets, plan, todoNets, todoCtrs, res, disturbed, pc, cur>>
        /\ images \cup unpulled \cup todoPulls
             \subseteq images' \cup unpulled' \cup todoPulls'
    BY <1>1 DEF PullImage
  <2>2. Prepared'
    BY <2>1 DEF Running, Prepared, NeedsImage
  <2>3. QED
    BY <2>1, <2>2 DEF Running, Dealt, Told
<1>2. ASSUME NEW x \in Net, NetworkStep(x) PROVE Running'
  <2>1. /\ UNCHANGED <<ctrs, images, unpulled, todoPulls, plan, todoCtrs, res, disturbed, pc, cur>>
        /\ todoNets' = todoNets \ {x} /\ plan.net[x] \in {"create", "remove"}
        /\ nets' = IF plan.net[x] = "create" THEN nets \cup {x} ELSE nets \ {x}
    BY <1>2 DEF NetworkStep, NetTurn, RunInv, RunShape
  <2>2. plan.net[x] = "remove" => x \notin plan.stack.nets
    BY DEF RunInv, PlanShape
  <2>3. plan.stack.nets \subseteq nets' \cup todoNets'
    BY <2>1, <2>2 DEF Running, Prepared
  <2>4. Prepared'
    BY <2>1, <2>3 DEF Running, Prepared, NeedsImage
  <2>5. QED
    BY <2>1, <2>4 DEF Running, Dealt, Told
<1>3. ASSUME NEW n \in Name, Ready(n) \/ (pc # "next" /\ n = cur)
      PROVE  n \in todoCtrs /\ plan.after[n] \cap todoCtrs = {}
  BY <1>3 DEF Ready, Running, RunInv, RunShape, TypeOK
<1>4. cur \in Name
  BY DEF TypeOK
<1>5. {"skipped", "failed", "removed", "created", "recreated"} \subseteq Results \ {"none"}
  BY DEF Results
<1>6. ASSUME NEW n \in Name, LeaveAlone(n) PROVE Running'
  BY <1>3, <1>5, <1>6, FinishedResult DEF LeaveAlone
<1>7. ASSUME NEW n \in Name, n \in todoCtrs, Finished(n, "failed"),
             \A m \in Name \ {n} : ctrs'[m] = ctrs[m]
      PROVE  Running'
  BY <1>5, <1>7, FinishedResult
<1>8. ASSUME NEW n \in Name, StopOld(n) PROVE Running'
  <2>1. Moved(n, "remove") /\ \A m \in Name \ {n} : ctrs'[m] = ctrs[m]
    BY <1>8 DEF StopOld, TypeOK
  <2>2. QED
    BY <1>3, <1>8, <2>1, MovedResult DEF StopOld, StopTurn
<1>9. ASSUME NEW n \in Name, StopFails(n) \/ CreateFails(n) PROVE Running'
  <2>1. n \in todoCtrs /\ Finished(n, "failed") /\ ctrs' = ctrs
    BY <1>3, <1>9 DEF StopFails, CreateFails, StopTurn, CreateTurn
  <2>2. QED
    BY <1>7, <2>1
<1>10. ASSUME NEW n \in Name, CreateNew(n) \/ CreateLeavesHalf(n) PROVE Running'
  <2>1. n \in todoCtrs /\ plan.after[n] \cap todoCtrs = {}
        /\ \A m \in Name \ {n} : ctrs'[m] = ctrs[m]
    BY <1>3, <1>10 DEF CreateNew, CreateLeavesHalf, CreateTurn, TypeOK
  <2>2. Moved(n, "start") \/ Finished(n, "failed")
    BY <1>10 DEF CreateNew, CreateLeavesHalf
  <2>3. QED
    BY <1>7, <2>1, <2>2, MovedResult
<1>11. CASE RemoveOld
  <2>1. /\ cur \in todoCtrs /\ plan.after[cur] \cap todoCtrs = {}
        /\ ctrs'[cur] = Absent /\ \A m \in Name \ {cur} : ctrs'[m] = ctrs[m]
    BY <1>3, <1>4, <1>11 DEF RemoveOld, TypeOK
  <2>2. CASE plan.ctr[cur] = "remove" /\ Finished(cur, "removed")
    BY <1>4, <1>5, <2>1, <2>2, FinishedResult
  <2>3. CASE Moved(cur, "create")
    BY <1>4, <2>1, <2>3, MovedResult
  <2>4. QED
    BY <1>11, <2>2, <2>3 DEF RemoveOld
<1>12. CASE RemoveFails \/ StartFails
  <2>1. cur \in todoCtrs /\ Finished(cur, "failed") /\ ctrs' = ctrs
    BY <1>3, <1>4, <1>12 DEF RemoveFails, StartFails
  <2>2. QED
    BY <1>4, <1>7, <2>1
<1>13. CASE StartNew
  <2>1. /\ cur \in todoCtrs /\ ctrs'[cur].running /\ ctrs'[cur].hash = ctrs[cur].hash
        /\ \A m \in Name \ {cur} : ctrs'[m] = ctrs[m]
    BY <1>3, <1>4, <1>13 DEF StartNew, TypeOK, Ctr
  <2>2. ~disturbed => ctrs[cur].hash = Hash(plan.stack.spec[cur])
    BY <1>13 DEF StartNew, RunInv, Progress
  <2>3. PICK r \in {"created", "recreated"} : Finished(cur, r)
    BY <1>13 DEF StartNew
  <2>4. QED
    BY <1>4, <1>5, <2>1, <2>2, <2>3, FinishedResult
<1>14. QED
  BY <1>1, <1>2, <1>6, <1>8, <1>9, <1>10, <1>11, <1>12, <1>13
     DEF Run, NetworkFails, ApplyEnds

LEMMA ResultNext == TypeOK /\ RunInv /\ ResultInv /\ [Next]_vars => ResultInv'
<1> SUFFICES ASSUME TypeOK, RunInv, ResultInv, [Next]_vars PROVE ResultInv'
  OBVIOUS
<1>1. CASE Invoke
  <2>1. ASSUME NEW s \in Selections, ApplyRefused(s) PROVE ResultInv'
    BY <2>1 DEF ApplyRefused, Invoked, ResultInv, ResultTruthful
  <2>2. ASSUME NEW s \in Selections, ApplyNothingToDo(s) PROVE ResultInv'
    BY <2>2 DEF ApplyNothingToDo, ApplyPlans, Invoked, ResultInv, ResultTruthful
  <2>3. QED
    BY <1>1, <2>1, <2>2, StartsResult DEF Invoke
<1>2. CASE Run
  <2>1. pc # "idle"
    BY <1>2 DEF Run, PullImage, NetworkStep, NetworkFails, NetTurn, LeaveAlone, StopOld,
                StopFails, StopTurn, CreateNew, CreateFails, CreateLeavesHalf, CreateTurn,
                Ready, RemoveOld, RemoveFails, StartNew, StartFails, ApplyEnds
  <2>2. CASE pc' # "idle"
    BY <1>2, <2>1, <2>2, RunResult DEF ResultInv, ResultTruthful
  <2>3. CASE ApplyEnds
    <3>1. /\ UNCHANGED <<ctrs, plan, res, disturbed>> /\ todoCtrs = {} /\ pc' = "idle"
      BY <2>3 DEF ApplyEnds, world, local
    <3>2. QED
      BY <2>1, <3>1 DEF ResultInv, Running, Dealt, Told, ResultTruthful
  <2>4. CASE \E x \in Net : NetworkFails(x)
    BY <2>4 DEF NetworkFails, ResultInv, ResultTruthful
  <2>5. QED
    BY <1>2, <2>1, <2>2, <2>3, <2>4
       DEF Run, PullImage, NetworkStep, LeaveAlone, StopOld, StopFails, CreateNew, CreateFails,
           CreateLeavesHalf, RemoveOld, RemoveFails, StartNew, StartFails, Finished, Moved
<1>3. CASE Killed
  BY <1>3 DEF Killed, ResultInv, ResultTruthful
<1>4. CASE Environment
  <2>1. disturbed' = TRUE /\ UNCHANGED <<nets, images, local, pc>>
    BY <1>4 DEF Environment, EditStack, Disable, Exits, Vanishes, Taken, Event
  <2>2. QED
    BY <2>1 DEF ResultInv, Running, Dealt, Prepared, NeedsImage, ResultTruthful, local
<1>5. CASE UNCHANGED vars
  BY <1>5 DEF vars, world, local, ResultInv, Running, Dealt, Told, Prepared, NeedsImage,
              ResultTruthful
<1>6. QED
  BY <1>1, <1>2, <1>3, <1>4, <1>5 DEF Next

LEMMA ResultInvariant == Spec => []ResultInv
<1>1. QED
  BY InitResult, ResultNext, TypeCorrect, RunInvariant, PTL DEF Spec

(***************************************************************************)
(* Result is truthful for any stack, selection and failures: what a        *)
(* finished run lists as created runs with the hash of the plan, what it   *)
(* lists as removed is gone, and every planned container is listed.        *)
(***************************************************************************)
THEOREM ResultIsTruthful == Spec => []ResultTruthful
<1>1. ResultInv => ResultTruthful
  BY DEF ResultInv
<1>2. QED
  BY <1>1, ResultInvariant, PTL

\* Where a step of the process starts a container.
LEMMA StartsAtHand ==
    ASSUME TypeOK, RunInv, [Next]_vars, Own, NEW n \in Name,
           ~ctrs[n].running, ctrs'[n].running
    PROVE  pc = "start" /\ n = cur
<1>1. ASSUME NEW m \in Name, StopOld(m) PROVE FALSE
  BY <1>1 DEF StopOld, TypeOK, Ctr
<1>2. ASSUME NEW m \in Name, CreateNew(m) \/ CreateLeavesHalf(m) PROVE FALSE
  BY <1>2 DEF CreateNew, CreateLeavesHalf, Created, TypeOK
<1>3. ~RemoveOld
  BY DEF RemoveOld, TypeOK, Absent
<1>4. StartNew => pc = "start" /\ n = cur
  BY DEF StartNew, TypeOK
<1>5. ~Environment
  BY DEF Environment, EditStack, Disable, Exits, Vanishes, Taken, Event, Own, TypeOK
<1>6. ctrs' # ctrs
  OBVIOUS
<1>7. ~(Invoke \/ Killed \/ UNCHANGED vars)
  BY <1>6 DEF Invoke, ApplyRefused, ApplyNothingToDo, ApplyStarts, ApplyPlans, Killed,
              vars, world
<1>8. Run
  BY <1>5, <1>7 DEF Next
<1>9. QED
  BY <1>1, <1>2, <1>3, <1>4, <1>6, <1>8
     DEF Run, PullImage, NetworkStep, NetworkFails, LeaveAlone, StopFails, CreateFails,
         RemoveFails, StartFails, Finished, ApplyEnds, world

(***************************************************************************)
(* depends_on is start order for any graph: what a container waits for has *)
(* its result, so that, unless it failed, it runs with its configuration.  *)
(***************************************************************************)
THEOREM StartsAfterDependencies == Spec => DependenciesFirst
<1>1. TypeOK /\ RunInv /\ ResultInv /\ [Next]_vars =>
        [\A n \in Name :
          (Own /\ ~ctrs[n].running /\ ctrs'[n].running /\ ~disturbed)
          => \A d \in plan.after[n] :
                plan.ctr[d] \in {"create", "recreate"} /\ res[d] # "failed" =>
                    ctrs[d].running /\ ctrs[d].hash = Hash(plan.stack.spec[d])]_vars
  <2> SUFFICES ASSUME TypeOK, RunInv, ResultInv, [Next]_vars, NEW n \in Name, Own,
                      ~ctrs[n].running, ctrs'[n].running, ~disturbed,
                      NEW d \in plan.after[n],
                      plan.ctr[d] \in {"create", "recreate"}, res[d] # "failed"
               PROVE  ctrs[d].running /\ ctrs[d].hash = Hash(plan.stack.spec[d])
    OBVIOUS
  <2>1. pc = "start" /\ n = cur
    BY StartsAtHand
  <2>2. Running /\ d \in Name /\ d \notin todoCtrs
    BY <2>1 DEF ResultInv, Running, TypeOK, Plan
  <2>3. res[d] \in {"created", "recreated"}
    BY <2>2 DEF Running, Dealt, TypeOK, Results
  <2>4. QED
    BY <2>2, <2>3 DEF Running, Told
<1>2. QED
  BY <1>1, TypeCorrect, RunInvariant, ResultInvariant, PTL DEF Spec, DependenciesFirst

-----------------------------------------------------------------------------
(***************************************************************************)
(* What an undisturbed run may count on; the inductive invariant of        *)
(* FailsForACause.  A container it still has to deal with is as the plan   *)
(* found it, and the one at hand is as the calls so far have left it.      *)
(***************************************************************************)
Untouched(n) ==
    /\ plan.ctr[n] \in {"recreate", "remove"} => ctrs[n].id = plan.id[n]
    /\ plan.ctr[n] = "create" => ctrs[n].owner \in {"none", "other"}

AtHand ==
    /\ pc = "remove" => ctrs[cur].id = plan.id[cur] /\ ~ctrs[cur].running
    /\ pc = "create" => ctrs[cur].owner = "none"
    /\ pc = "start" => ctrs[cur].id = newId

Expected ==
    pc # "idle" /\ ~disturbed =>
        /\ \A n \in todoCtrs : pc = "next" \/ n # cur => Untouched(n)
        /\ AtHand

\* The run is done with a container and has touched no other.
LEMMA FinishedExpected ==
    ASSUME TypeOK, Expected, pc # "idle", NEW n \in Name, NEW r, Finished(n, r),
           pc = "next" \/ n = cur,
           \A m \in Name \ {n} : ctrs'[m] = ctrs[m]
    PROVE  Expected'
<1>1. /\ UNCHANGED <<plan, disturbed>> /\ pc' = "next" /\ todoCtrs' = todoCtrs \ {n}
  BY DEF Finished
<1>2. todoCtrs \subseteq Name
  BY DEF TypeOK
<1>3. QED
  BY <1>1, <1>2 DEF Expected, AtHand, Untouched

\* The run goes on with a container it is not done with.
LEMMA MovedExpected ==
    ASSUME TypeOK, Expected, pc # "idle", NEW n \in Name,
           NEW to \in {"remove", "create", "start"}, Moved(n, to), pc = "next" \/ n = cur,
           \A m \in Name \ {n} : ctrs'[m] = ctrs[m],
           ~disturbed => AtHand'
    PROVE  Expected'
<1>1. /\ UNCHANGED <<plan, disturbed, todoCtrs>> /\ pc' = to /\ cur' = n
  BY DEF Moved
<1>2. todoCtrs \subseteq Name
  BY DEF TypeOK
<1>3. ~disturbed' => AtHand'
  BY <1>1
<1>4. ASSUME ~disturbed', NEW m \in todoCtrs', m # cur' PROVE Untouched(m)'
  BY <1>1, <1>2, <1>4 DEF Expected, Untouched
<1>5. QED
  BY <1>1, <1>3, <1>4 DEF Expected

LEMMA StartsExpected ==
    ASSUME TypeOK, NEW s \in Selections, ApplyStarts(s)
    PROVE  Expected'
<1>1. /\ s \in SUBSET Name /\ plan' = PlanFor(s) /\ pc' = "next" /\ ctrs' = ctrs
      /\ todoCtrs' \subseteq Name /\ ~Conflict(stack, s, ctrs)
  BY ApplyAssumption DEF ApplyStarts, ApplyPlans, BuildFails, world
<1>2. ASSUME NEW n \in Name PROVE Untouched(n)'
  <2>1. /\ plan'.ctr[n] = CtrAction(stack, s, disabled, ctrs, n)
        /\ plan'.ctr[n] \in {"recreate", "remove"} => plan'.id[n] = ctrs[n].id
        /\ plan'.ctr[n] = "create" => n \in Selected(stack, s)
    BY <1>1, BuildShape
  <2>2. plan'.ctr[n] = "create" => ctrs[n].owner # "ours"
    BY <2>1 DEF CtrAction
  <2>3. plan'.ctr[n] = "create" => ctrs[n].owner # "unmanaged"
    BY <1>1, <2>1 DEF Conflict
  <2>4. ctrs[n].owner \in {"none", "ours", "other", "unmanaged"}
    BY DEF TypeOK, Ctr, Owner
  <2>5. QED
    BY <1>1, <2>1, <2>2, <2>3, <2>4 DEF Untouched
<1>3. QED
  BY <1>1, <1>2 DEF Expected, AtHand

LEMMA RunExpected ==
    ASSUME TypeOK, RunInv, Expected, Run, pc # "idle", pc' # "idle"
    PROVE  Expected'
<1>1. ASSUME NEW i \in Image, PullImage(i) PROVE Expected'
  BY <1>1 DEF PullImage, Expected, Untouched, AtHand
<1>2. ASSUME NEW x \in Net, NetworkStep(x) PROVE Expected'
  BY <1>2 DEF NetworkStep, Expected, Untouched, AtHand
<1>3. cur \in Name
  BY DEF TypeOK
<1>4. ASSUME NEW n \in Name, LeaveAlone(n) PROVE Expected'
  BY <1>4, FinishedExpected DEF LeaveAlone, Ready
<1>5. ASSUME NEW n \in Name, StopFails(n) \/ CreateFails(n) PROVE Expected'
  BY <1>5, FinishedExpected DEF StopFails, CreateFails, StopTurn, CreateTurn, Ready
<1>6. CASE RemoveFails \/ StartFails
  BY <1>3, <1>6, FinishedExpected DEF RemoveFails, StartFails
<1>7. ASSUME NEW n \in Name, StopOld(n) PROVE Expected'
  <2>1. /\ \A m \in Name \ {n} : ctrs'[m] = ctrs[m]
        /\ ctrs'[n].id = ctrs[n].id /\ ~ctrs'[n].running
        /\ pc = "next" /\ pc' = "remove" /\ cur' = n /\ plan' = plan
    BY <1>7 DEF StopOld, StopTurn, Ready, Moved, TypeOK, Ctr
  <2>2. AtHand'
    BY <1>7, <2>1 DEF AtHand, StopOld
  <2>3. QED
    BY <1>7, <2>1, <2>2, MovedExpected DEF StopOld
<1>8. ASSUME NEW n \in Name, CreateNew(n) PROVE Expected'
  <2>1. /\ \A m \in Name \ {n} : ctrs'[m] = ctrs[m]
        /\ ctrs'[n].id = newId' /\ pc' = "start" /\ cur' = n
        /\ pc = "next" \/ n = cur
    BY <1>8 DEF CreateNew, Created, CreateTurn, Ready, Moved, TypeOK
  <2>2. AtHand'
    BY <2>1 DEF AtHand
  <2>3. QED
    BY <1>8, <2>1, <2>2, MovedExpected DEF CreateNew
<1>9. ASSUME NEW n \in Name, CreateLeavesHalf(n) PROVE Expected'
  <2>1. /\ \A m \in Name \ {n} : ctrs'[m] = ctrs[m]
        /\ pc = "next" \/ n = cur
    BY <1>9 DEF CreateLeavesHalf, CreateTurn, Ready, TypeOK
  <2>2. QED
    BY <1>9, <2>1, FinishedExpected DEF CreateLeavesHalf
<1>10. CASE RemoveOld
  <2>1. /\ \A m \in Name \ {cur} : ctrs'[m] = ctrs[m]
        /\ ctrs'[cur].owner = "none"
    BY <1>3, <1>10 DEF RemoveOld, TypeOK, Absent
  <2>2. CASE Finished(cur, "removed")
    BY <1>3, <2>1, <2>2, FinishedExpected
  <2>3. CASE Moved(cur, "create")
    <3>1. AtHand'
      BY <2>1, <2>3 DEF AtHand, Moved
    <3>2. QED
      BY <1>3, <2>1, <2>3, <3>1, MovedExpected
  <2>4. QED
    BY <1>10, <2>2, <2>3 DEF RemoveOld
<1>11. CASE StartNew
  <2>1. /\ \A m \in Name \ {cur} : ctrs'[m] = ctrs[m]
        /\ \E r \in Results : Finished(cur, r)
    BY <1>3, <1>11 DEF StartNew, TypeOK, Results
  <2>2. QED
    BY <1>3, <2>1, FinishedExpected
<1>12. QED
  BY <1>1, <1>2, <1>4, <1>5, <1>6, <1>7, <1>8, <1>9, <1>10, <1>11
     DEF Run, NetworkFails, ApplyEnds

LEMMA ExpectedInvariant == Spec => []Expected
<1>1. Init => Expected
  BY DEF Init, Expected
<1>2. TypeOK /\ RunInv /\ Expected /\ [Next]_vars => Expected'
  <2> SUFFICES ASSUME TypeOK, RunInv, Expected, [Next]_vars PROVE Expected'
    OBVIOUS
  <2>1. CASE Invoke
    <3>1. ASSUME NEW s \in Selections, ApplyRefused(s) \/ ApplyNothingToDo(s)
          PROVE  Expected'
      BY <3>1 DEF ApplyRefused, ApplyNothingToDo, ApplyPlans, Invoked, Expected
    <3>2. QED
      BY <2>1, <3>1, StartsExpected DEF Invoke
  <2>2. CASE Run
    <3>1. pc # "idle"
      BY <2>2 DEF Run, PullImage, NetworkStep, NetworkFails, NetTurn, LeaveAlone, StopOld,
                  StopFails, StopTurn, CreateNew, CreateFails, CreateLeavesHalf, CreateTurn,
                  Ready, RemoveOld, RemoveFails, StartNew, StartFails, ApplyEnds
    <3>2. QED
      BY <2>2, <3>1, RunExpected DEF Expected
  <2>3. CASE Killed
    BY <2>3 DEF Killed, Expected
  <2>4. CASE Environment
    BY <2>4 DEF Environment, EditStack, Disable, Exits, Vanishes, Taken, Event, Expected
  <2>5. CASE UNCHANGED vars
    BY <2>5 DEF vars, world, local, Expected, Untouched, AtHand
  <2>6. QED
    BY <2>1, <2>2, <2>3, <2>4, <2>5 DEF Next
<1>3. QED
  BY <1>1, <1>2, TypeCorrect, RunInvariant, PTL DEF Spec

(***************************************************************************)
(* The order of apply's calls makes none of them fail, for any stack and   *)
(* any dependencies: without interference, a container is counted as       *)
(* failed only for a call that failed of itself or for a cause of HasCause.*)
(***************************************************************************)
THEOREM FailuresHaveCauses == Spec => FailsForACause
<1>1. TypeOK /\ RunInv /\ ResultInv /\ Expected /\ [Next]_vars =>
        [\A n \in Name :
          (Own /\ res[n] # "failed" /\ res'[n] = "failed" /\ faults' = faults /\ ~disturbed)
          => HasCause(n)]_vars
  <2> SUFFICES ASSUME TypeOK, RunInv, ResultInv, Expected, Next, NEW n \in Name, Own,
                      res[n] # "failed", res'[n] = "failed", faults' = faults, ~disturbed
               PROVE  HasCause(n)
    BY DEF vars, local
  <2>1. ~Fault
    BY DEF Fault, TypeOK
  <2>2. ASSUME NEW m \in Name, NEW r, Finished(m, r)
        PROVE  m = n /\ r = "failed"
    BY <2>2 DEF Finished, TypeOK
  <2>3. pc # "idle" => Prepared
    BY DEF ResultInv, Running
  <2>4. ASSUME NEW m \in Name, StopFails(m) PROVE FALSE
    BY <2>1, <2>4 DEF StopFails, StopTurn, Ready, Expected, Untouched
  <2>5. ~RemoveFails
    BY <2>1 DEF RemoveFails, Expected, AtHand
  <2>6. ASSUME NEW m \in Name, CreateFails(m) PROVE HasCause(n)
    <3>1. /\ m = n /\ CreateTurn(n) /\ ~CanCreate(n)
          /\ plan.ctr[n] \in {"create", "recreate"} /\ todoPulls = {} /\ pc # "idle"
      BY <2>1, <2>2, <2>6 DEF CreateFails, CreateTurn, Ready, RunInv, RunShape
    <3>2. CASE ctrs[n].owner # "none"
      <4>1. pc = "next" /\ n \in todoCtrs /\ plan.ctr[n] = "create"
        BY <3>1, <3>2 DEF CreateTurn, Ready, Expected, AtHand
      <4>2. ctrs[n].owner = "other"
        BY <3>2, <4>1 DEF Expected, Untouched
      <4>3. QED
        BY <3>1, <4>2 DEF HasCause
    <3>3. CASE plan.stack.spec[n].image \notin images
      <4>1. plan.stack.spec[n].image \in NeedsImage(plan)
        BY <3>1 DEF NeedsImage
      <4>2. QED
        BY <2>3, <3>1, <3>3, <4>1 DEF Prepared, HasCause
    <3>4. QED
      BY <3>1, <3>2, <3>3 DEF CanCreate
  <2>7. CASE StartFails
    <3>1. /\ cur = n /\ pc = "start" /\ plan.ctr[n] \in {"create", "recreate"}
          /\ todoNets = {} /\ ctrs[n].id = newId
          /\ ctrs[n].hash = Hash(plan.stack.spec[n])
      BY <2>2, <2>7 DEF StartFails, TypeOK, RunInv, RunShape, Progress, Expected, AtHand
    <3>2. ~(plan.stack.spec[n].nets \subseteq nets)
      BY <2>1, <2>7, <3>1 DEF StartFails, Hash
    <3>3. plan.stack.nets \subseteq nets
      BY <2>3, <3>1 DEF Prepared
    <3>4. QED
      BY <3>1, <3>2, <3>3 DEF HasCause
  <2>8. ASSUME NEW m \in Name, LeaveAlone(m) PROVE FALSE
    BY <2>2, <2>8 DEF LeaveAlone
  <2>9. ASSUME NEW m \in Name, CreateLeavesHalf(m) PROVE FALSE
    BY <2>1, <2>9 DEF CreateLeavesHalf
  <2>10. ~RemoveOld /\ ~StartNew
    BY <2>2 DEF RemoveOld, StartNew, Moved, TypeOK
  <2>11. res' = res \/ res' = [m \in Name |-> "none"] \/ Run
    BY DEF Next, Invoke, ApplyRefused, ApplyNothingToDo, ApplyStarts, ApplyPlans, Killed,
           Environment, EditStack, Disable, Exits, Vanishes, Taken, Event, local
  <2>12. Run
    BY <2>11
  <2>13. QED
    BY <2>4, <2>5, <2>6, <2>7, <2>8, <2>9, <2>10, <2>12
       DEF Run, PullImage, NetworkStep, NetworkFails, StopOld, CreateNew, Moved, ApplyEnds, local
<1>2. QED
  BY <1>1, TypeCorrect, RunInvariant, ResultInvariant, ExpectedInvariant, PTL
     DEF Spec, FailsForACause

-----------------------------------------------------------------------------
\* A run is made from a plan without circles.
PlanOrdered ==
    pc # "idle" => \A S \in (SUBSET todoCtrs) \ {{}} : \E n \in S : plan.after[n] \cap S = {}

LEMMA FreshPlanOrdered ==
    ASSUME TypeOK, NEW s \in Selections, ApplyStarts(s)
    PROVE  PlanOrdered'
<1> DEFINE planned == Planned(stack, s, disabled, ctrs)
<1>1. ~Cyclic(stack, planned)
  BY DEF ApplyStarts, ApplyPlans, BuildFails
<1>2. /\ planned \subseteq Name /\ todoCtrs' \subseteq planned
      /\ \A n \in Name : plan'.after[n] = DepsWithin(stack, planned, n)
  BY DEF ApplyStarts, ApplyPlans, PlanFor, Build, Planned
<1>3. ASSUME NEW S \in (SUBSET todoCtrs') \ {{}} PROVE \E n \in S : plan'.after[n] \cap S = {}
  <2>1. PICK n \in S : DepsWithin(stack, S, n) = {}
    BY <1>1, <1>2 DEF Cyclic
  <2>2. plan'.after[n] \cap S = {}
    BY <1>2, <2>1 DEF DepsWithin
  <2>3. QED
    BY <2>2
<1>4. QED
  BY <1>3 DEF PlanOrdered

LEMMA OrderedNext == TypeOK /\ RunInv /\ PlanOrdered /\ [Next]_vars => PlanOrdered'
<1> SUFFICES ASSUME TypeOK, RunInv, PlanOrdered, [Next]_vars PROVE PlanOrdered'
  OBVIOUS
<1>1. ASSUME pc # "idle" \/ pc' = "idle", plan' = plan, todoCtrs' \subseteq todoCtrs
      PROVE  PlanOrdered'
  BY <1>1 DEF PlanOrdered
<1>2. CASE Invoke
  <2>1. ASSUME NEW s \in Selections, ApplyRefused(s) \/ ApplyNothingToDo(s) PROVE PlanOrdered'
    BY <2>1 DEF ApplyRefused, ApplyNothingToDo, ApplyPlans, Invoked, PlanOrdered
  <2>2. QED
    BY <1>2, <2>1, FreshPlanOrdered DEF Invoke
<1>3. CASE Run \/ Killed
  BY <1>1, <1>3
     DEF Run, Killed, PullImage, NetworkStep, NetworkFails, NetTurn, LeaveAlone, StopOld,
         StopFails, StopTurn, CreateNew, CreateFails, CreateLeavesHalf, CreateTurn, Ready,
         RemoveOld, RemoveFails, StartNew, StartFails, ApplyEnds, Finished, Moved, local
<1>4. CASE Environment \/ UNCHANGED vars
  <2>1. UNCHANGED <<local, pc>>
    BY <1>4 DEF Environment, EditStack, Disable, Exits, Vanishes, Taken, Event, vars
  <2>2. QED
    BY <2>1 DEF PlanOrdered, local
<1>5. QED
  BY <1>2, <1>3, <1>4 DEF Next

(***************************************************************************)
(* No phase waits for ever: a run that is between two actions has an image *)
(* to pull, a network whose turn it is, a container that waits for no      *)
(* planned one (whatever depends on what), or nothing left to do.          *)
(***************************************************************************)
SomethingIsNext ==
    pc = "next" =>
        \/ todoPulls # {}
        \/ \E x \in Net : NetTurn(x)
        \/ \E n \in Name : Ready(n)
        \/ todoPulls = {} /\ todoNets = {} /\ todoCtrs = {}

\* A run never gets stuck in its plan: Build refuses the circles in which it would.
THEOREM RunNeverStuck == Spec => []SomethingIsNext
<1>1. Init => PlanOrdered
  BY DEF Init, PlanOrdered
<1>2. TypeOK /\ RunInv /\ PlanOrdered => SomethingIsNext
  <2> SUFFICES ASSUME TypeOK, RunInv, PlanOrdered, pc = "next", todoPulls = {},
                      todoNets # {} \/ todoCtrs # {}
               PROVE  (\E x \in Net : NetTurn(x)) \/ (\E n \in Name : Ready(n))
    BY DEF SomethingIsNext
  <2>1. CASE todoNets # {}
    <3>1. todoNets \subseteq Net /\ \A x \in todoNets : plan.net[x] \in {"create", "remove"}
      BY DEF TypeOK, RunInv, RunShape
    <3>2. PICK x \in todoNets : plan.net[x] = "create"
                                  \/ \A y \in todoNets : plan.net[y] = "remove"
      BY <2>1, <3>1
    <3>3. NetTurn(x)
      BY <3>2 DEF NetTurn
    <3>4. QED
      BY <3>1, <3>3
  <2>2. CASE todoNets = {}
    <3>1. PICK n \in todoCtrs : plan.after[n] \cap todoCtrs = {}
      BY <2>2 DEF PlanOrdered
    <3>2. n \in Name /\ Ready(n)
      BY <2>2, <3>1 DEF Ready, TypeOK
    <3>3. QED
      BY <3>2
  <2>3. QED
    BY <2>1, <2>2
<1>3. QED
  BY <1>1, <1>2, OrderedNext, TypeCorrect, RunInvariant, PTL DEF Spec

(***************************************************************************)
(* The calls a run has left at most: one for each image and each network,  *)
(* four for a container (stop, remove, create, start), and its end.        *)
(***************************************************************************)
CallsLeft ==
    IF pc = "idle" THEN 0
    ELSE Cardinality(todoPulls) + Cardinality(todoNets) + 4 * Cardinality(todoCtrs) + 1
           - (CASE pc = "remove" -> 1 [] pc = "create" -> 2 [] pc = "start" -> 3 [] OTHER -> 0)

FiniteStacks == IsFiniteSet(Name) /\ IsFiniteSet(Net) /\ IsFiniteSet(Image)

LEMMA TodoSizes ==
    ASSUME FiniteStacks, TypeOK
    PROVE  /\ Cardinality(todoPulls) \in Nat /\ Cardinality(todoNets) \in Nat
           /\ Cardinality(todoCtrs) \in Nat
           /\ \A i \in todoPulls : Cardinality(todoPulls \ {i}) = Cardinality(todoPulls) - 1
           /\ \A x \in todoNets : Cardinality(todoNets \ {x}) = Cardinality(todoNets) - 1
           /\ \A n \in todoCtrs : /\ Cardinality(todoCtrs \ {n}) = Cardinality(todoCtrs) - 1
                                  /\ Cardinality(todoCtrs) > 0
<1>1. IsFiniteSet(todoPulls) /\ IsFiniteSet(todoNets) /\ IsFiniteSet(todoCtrs)
  BY FS_Subset DEF FiniteStacks, TypeOK
<1>2. /\ Cardinality(todoPulls) \in Nat /\ Cardinality(todoNets) \in Nat
      /\ Cardinality(todoCtrs) \in Nat
  BY <1>1, FS_CardinalityType
<1>3. ASSUME NEW i \in todoPulls
      PROVE  Cardinality(todoPulls \ {i}) = Cardinality(todoPulls) - 1
  BY <1>1, FS_RemoveElement
<1>4. ASSUME NEW x \in todoNets PROVE Cardinality(todoNets \ {x}) = Cardinality(todoNets) - 1
  BY <1>1, FS_RemoveElement
<1>5. ASSUME NEW n \in todoCtrs
      PROVE  /\ Cardinality(todoCtrs \ {n}) = Cardinality(todoCtrs) - 1
             /\ Cardinality(todoCtrs) > 0
  BY <1>1, <1>2, FS_RemoveElement, FS_EmptySet
<1>6. QED
  BY <1>2, <1>3, <1>4, <1>5

(***************************************************************************)
(* A run cannot go on for ever, whatever fails and whatever others do in   *)
(* the meantime: each of its steps leaves it fewer calls, and nobody else  *)
(* gives it more.                                                          *)
(***************************************************************************)
THEOREM RunRunsOut ==
    ASSUME FiniteStacks
    PROVE  Spec => [][pc # "idle" =>
                        /\ CallsLeft \in Nat
                        /\ IF Own THEN CallsLeft' < CallsLeft ELSE CallsLeft' = CallsLeft]_vars
<1>1. ASSUME TypeOK, TypeOK', RunInv, Next, pc # "idle"
      PROVE  /\ CallsLeft \in Nat
             /\ IF Own THEN CallsLeft' < CallsLeft ELSE CallsLeft' = CallsLeft
  <2>1. /\ Cardinality(todoPulls) \in Nat /\ Cardinality(todoNets) \in Nat
        /\ Cardinality(todoCtrs) \in Nat
        /\ pc \in {"remove", "create", "start"} => Cardinality(todoCtrs) > 0
    BY <1>1, TodoSizes DEF RunInv, RunShape
  <2>2. CallsLeft \in Nat \ {0}
    BY <1>1, <2>1 DEF CallsLeft, TypeOK
  <2>3. ASSUME Run \/ Killed PROVE Own /\ CallsLeft' < CallsLeft
    <3>1. Own
      BY <2>3 DEF Own, Run, Killed, PullImage, NetworkStep, NetworkFails, LeaveAlone, StopOld,
                  StopFails, CreateNew, CreateFails, CreateLeavesHalf, RemoveOld, RemoveFails,
                  StartNew, StartFails, ApplyEnds, Finished, Moved
    <3>2. ASSUME pc' = "idle" PROVE CallsLeft' < CallsLeft
      BY <2>2, <3>2 DEF CallsLeft
    <3>3. ASSUME NEW i \in Image, PullImage(i) PROVE CallsLeft' < CallsLeft
      BY <1>1, <2>1, <3>3, TodoSizes DEF PullImage, CallsLeft
    <3>4. ASSUME NEW x \in Net, NetworkStep(x) PROVE CallsLeft' < CallsLeft
      BY <1>1, <2>1, <3>4, TodoSizes DEF NetworkStep, NetTurn, CallsLeft
    <3>5. ASSUME NEW n \in todoCtrs, NEW r, Finished(n, r) PROVE CallsLeft' < CallsLeft
      BY <1>1, <2>1, <3>5, TodoSizes DEF Finished, CallsLeft, TypeOK
    <3>6. ASSUME NEW n, NEW to, Moved(n, to),
                 \/ pc = "next" /\ to \in {"remove", "start"}
                 \/ pc = "remove" /\ to = "create"
                 \/ pc = "create" /\ to = "start"
          PROVE  CallsLeft' < CallsLeft
      BY <2>1, <3>6 DEF Moved, CallsLeft
    <3>7. ASSUME NEW n \in Name,
                 \/ LeaveAlone(n) \/ StopOld(n) \/ StopFails(n)
                 \/ CreateNew(n) \/ CreateFails(n) \/ CreateLeavesHalf(n)
          PROVE  CallsLeft' < CallsLeft
      <4>1. n \in todoCtrs
        BY <1>1, <3>7 DEF LeaveAlone, StopOld, StopFails, StopTurn, CreateNew, CreateFails,
                          CreateLeavesHalf, CreateTurn, Ready, RunInv, RunShape
      <4>2. CASE StopOld(n)
        BY <3>6, <4>2 DEF StopOld, StopTurn, Ready
      <4>3. CASE CreateNew(n)
        BY <3>6, <4>3 DEF CreateNew, CreateTurn, Ready
      <4>4. QED
        BY <3>5, <3>7, <4>1, <4>2, <4>3
           DEF LeaveAlone, StopFails, CreateFails, CreateLeavesHalf
    <3>8. ASSUME RemoveOld \/ RemoveFails \/ StartNew \/ StartFails
          PROVE  CallsLeft' < CallsLeft
      <4>1. cur \in todoCtrs
        BY <1>1, <3>8 DEF RemoveOld, RemoveFails, StartNew, StartFails, RunInv, RunShape
      <4>2. QED
        BY <3>5, <3>6, <3>8, <4>1 DEF RemoveOld, RemoveFails, StartNew, StartFails
    <3>9. QED
      BY <2>3, <3>1, <3>2, <3>3, <3>4, <3>7, <3>8
         DEF Run, Killed, NetworkFails, ApplyEnds
  <2>4. ASSUME Environment PROVE ~Own /\ CallsLeft' = CallsLeft
    BY <1>1, <2>4 DEF Environment, EditStack, Disable, Exits, Vanishes, Taken, Event, Own,
                      CallsLeft, local, TypeOK
  <2>5. ~Invoke
    BY <1>1 DEF Invoke, ApplyRefused, ApplyNothingToDo, ApplyStarts, ApplyPlans, Invoked
  <2>6. QED
    BY <1>1, <2>2, <2>3, <2>4, <2>5 DEF Next
<1>2. QED
  BY <1>1, TypeCorrect, RunInvariant, PTL DEF Spec

=============================================================================
