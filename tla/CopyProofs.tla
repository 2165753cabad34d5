------------------------------ MODULE CopyProofs ------------------------------
(***************************************************************************)
(* Proofs about Copy, for any processes, containers, requests and size of  *)
(* archive.  What a copy has delivered follows from the state of its own    *)
(* pipeline, so the invariant is stated of the values of one process.       *)
(***************************************************************************)
EXTENDS Copy, TLAPS

\* How many pipes a process has, which its point determines.
Width(r, a) ==
    CASE a \in {"drain", "prepare"}          -> 1
      [] a \in {"put", "putting", "extract"} -> 1 + (IF r.stdio THEN 0 ELSE Renamings(r))
      [] OTHER                               -> 0

\* A stream is never read further than it is written, and a trailer stands
\* between two entries -- on the first pipe after the last one, unless a host
\* path was packed.
Sound(r, s) ==
    /\ \A i \in Stages : s[i].got <= s[i].put
    /\ \A i \in Stages : s[i].end \in {"end", "endcut"} => Between(s[i].put)
    /\ s[1].end = "end" => s[1].put = Length
    /\ s[1].end = "endcut" => r.src = Host

\* A stage has written what it has read, and ends after the one before.
Chained(s, n) ==
    \A i \in Stages : i < n => /\ s[i].got = s[i + 1].put
                               /\ s[i + 1].end # "open" => Exhausted(s[i])

\* From here on the last pipe has given what the destination has.
Counted == {"prepare", "put", "putting", "extract"}

Flow(r, a, s, n, c) ==
    /\ n = Width(r, a)
    /\ \A i \in Stages : i > n => s[i] = Fresh
    /\ Sound(r, s) /\ Chained(s, n)
    /\ a = "prepare" => c = 0
    /\ a \in {"put", "putting"} => r.dst # Host
    /\ a = "extract" => r.dst = Host
    /\ c = IF a \in Counted THEN s[n].got ELSE 0

Whole(r, c) == Between(c) /\ (Renamings(r) = 0 => c = Length)

Good(r, a, s, n, c) ==
    /\ a \in Points \cup {"none"} => Flow(r, a, s, n, c)
    /\ a = "ok" => Whole(r, c)

GoodAt(p) == Good(req[p], at[p], pipe[p], stages[p], copied[p])

CopyInv == TypeOK /\ \A p \in Proc : GoodAt(p)

-----------------------------------------------------------------------------
(***************************************************************************)
(* Lemmas about the values of one process.                                  *)
(***************************************************************************)
LEMMA Lengths ==
    /\ Length \in Nat /\ 0 < Length /\ Between(0) /\ Between(Length)
    /\ Fresh \in Stream
BY CopyAssumption DEF Length, Between, Fresh, Stream

LEMMA Widths ==
    ASSUME NEW r \in Request, NEW a
    PROVE  /\ Renamings(r) \in 0..2
           /\ Width(r, a) \in 0..3
           /\ a \in {"drain", "prepare", "put", "putting", "extract"} <=> Width(r, a) > 0
           /\ a \in {"drain", "prepare"} => Width(r, a) = 1
           /\ a \in {"put", "putting", "extract"} =>
                Width(r, a) = 1 + (IF r.stdio THEN 0 ELSE Renamings(r))
<1>1. Renamings(r) \in 0..2
  BY DEF Renamings
<1>2. QED
  BY <1>1 DEF Width

LEMMA FreshFlow ==
    ASSUME NEW r \in Request, NEW a \in Points \cup {"none"}, Width(r, a) = 0
    PROVE  Flow(r, a, [i \in Stages |-> Fresh], 0, 0)
<1> DEFINE s == [i \in Stages |-> Fresh]
<1>1. \A i \in Stages : s[i] = Fresh
  OBVIOUS
<1>2. Sound(r, s) /\ Chained(s, 0)
  BY <1>1, Lengths DEF Sound, Chained, Fresh, Stages
<1>3. a \notin {"drain", "prepare", "put", "putting", "extract"}
  BY Widths
<1>4. QED
  BY <1>1, <1>2, <1>3 DEF Flow, Counted

\* The first pipe of a pipeline, when the archive starts to flow.
LEMMA OpenFlow ==
    ASSUME NEW r \in Request, NEW s \in [Stages -> Stream], NEW c,
           NEW a \in Points, NEW b \in Points,
           Flow(r, a, s, 0, c), Width(r, b) = 1, b \in {"drain", "prepare"}
    PROVE  Flow(r, b, s, 1, c)
<1>1. Chained(s, 1)
  BY DEF Chained, Stages
<1>2. a \notin Counted /\ c = 0
  BY Widths DEF Flow, Counted
<1>3. s[1].got = 0
  BY DEF Flow, Stages, Fresh
<1>4. QED
  BY <1>1, <1>2, <1>3 DEF Flow, Stages, Counted

\* A write to the first pipe, and the end that the source puts there.
LEMMA SendFlow ==
    ASSUME NEW r \in Request, NEW s \in [Stages -> Stream], NEW a, NEW n \in 1..3, NEW c,
           Flow(r, a, s, n, c), s[1].end = "open", s[1].put < Length
    PROVE  LET t == [s EXCEPT ![1].put = @ + 1]
           IN  t \in [Stages -> Stream] /\ Flow(r, a, t, n, c)
<1> DEFINE t == [s EXCEPT ![1].put = @ + 1]
<1>1. /\ t[1] = [s[1] EXCEPT !.put = @ + 1]
      /\ t[2] = s[2] /\ t[3] = s[3]
      /\ t \in [Stages -> Stream]
  BY Lengths DEF Stages, Stream
<1>2. t[1].got = s[1].got /\ t[1].end = "open" /\ t[1].put = s[1].put + 1
  BY <1>1 DEF Stages, Stream
<1>3. Sound(r, t)
  BY <1>1, <1>2, Lengths DEF Flow, Sound, Stages, Stream
<1>4. Chained(t, n)
  BY <1>1, <1>2 DEF Flow, Chained, Exhausted, Stages
<1>5. \A i \in Stages : t[i].got = s[i].got /\ (i > n => t[i] = Fresh)
  BY <1>1, <1>2 DEF Flow, Stages
<1>6. n \in Stages
  BY DEF Stages
<1>7. c = IF a \in Counted THEN t[n].got ELSE 0
  BY <1>5, <1>6 DEF Flow
<1>8. QED
  BY <1>1, <1>3, <1>4, <1>5, <1>7 DEF Flow

LEMMA EndFlow ==
    ASSUME NEW r \in Request, NEW s \in [Stages -> Stream], NEW a, NEW n \in 1..3, NEW c,
           Flow(r, a, s, n, c), s[1].end = "open",
           NEW e \in {"end", "cut", "endcut"},
           e = "end" => s[1].put = Length,
           e = "endcut" => r.src = Host /\ Between(s[1].put)
    PROVE  LET t == [s EXCEPT ![1].end = e]
           IN  t \in [Stages -> Stream] /\ Flow(r, a, t, n, c)
<1> DEFINE t == [s EXCEPT ![1].end = e]
<1>1. /\ t[1] = [s[1] EXCEPT !.end = e]
      /\ t[2] = s[2] /\ t[3] = s[3]
      /\ t \in [Stages -> Stream]
  BY DEF Stages, Stream
<1>2. t[1].got = s[1].got /\ t[1].end = e /\ t[1].put = s[1].put
  BY <1>1 DEF Stages, Stream
<1>3. Sound(r, t)
  BY <1>1, <1>2, Lengths DEF Flow, Sound, Stages
<1>4. Chained(t, n)
  BY <1>1, <1>2 DEF Flow, Chained, Exhausted, Stages
<1>5. \A i \in Stages : t[i].got = s[i].got /\ (i > n => t[i] = Fresh)
  BY <1>1, <1>2 DEF Flow, Stages
<1>6. n \in Stages
  BY DEF Stages
<1>7. c = IF a \in Counted THEN t[n].got ELSE 0
  BY <1>5, <1>6 DEF Flow
<1>8. QED
  BY <1>1, <1>3, <1>4, <1>5, <1>7 DEF Flow

\* A renaming passes a block on, and then the end of its stream.
LEMMA RenameFlow ==
    ASSUME NEW r \in Request, NEW s \in [Stages -> Stream], NEW a, NEW n \in 1..3, NEW c,
           Flow(r, a, s, n, c), NEW i \in 1..2, i < n, s[i + 1].end = "open",
           s[i].got < s[i].put, s[i + 1].got = s[i + 1].put
    PROVE  LET t == [s EXCEPT ![i].got = @ + 1, ![i + 1].put = @ + 1]
           IN  t \in [Stages -> Stream] /\ Flow(r, a, t, n, c)
<1> DEFINE t == [s EXCEPT ![i].got = @ + 1, ![i + 1].put = @ + 1]
<1>1. i \in Stages /\ i + 1 \in Stages /\ i + 1 # i /\ n \in Stages
  BY DEF Stages
<1>2. s[i].got = s[i + 1].put /\ s[i] \in Stream /\ s[i + 1] \in Stream
  BY <1>1 DEF Flow, Chained
<1>3. /\ t[i] = [s[i] EXCEPT !.got = @ + 1]
      /\ t[i + 1] = [s[i + 1] EXCEPT !.put = @ + 1]
      /\ \A j \in Stages \ {i, i + 1} : t[j] = s[j]
  BY <1>1
<1>4. /\ t[i].got = s[i].got + 1 /\ t[i].put = s[i].put /\ t[i].end = s[i].end
      /\ t[i + 1].put = s[i + 1].put + 1 /\ t[i + 1].got = s[i + 1].got
      /\ t[i + 1].end = "open"
      /\ t[i] \in Stream /\ t[i + 1] \in Stream
  BY <1>2, <1>3, Lengths DEF Stream
<1>5. t \in [Stages -> Stream]
  BY <1>1, <1>4
<1>6. \A j \in Stages : t[j].got <= t[j].put
  BY <1>2, <1>3, <1>4 DEF Flow, Sound, Stream
<1>7. \A j \in Stages : t[j].end # "open" => t[j].end = s[j].end /\ t[j].put = s[j].put
  BY <1>3, <1>4
<1>8. t[1].end = s[1].end
  BY <1>1, <1>3, <1>4 DEF Stages
<1>9. Sound(r, t)
  BY <1>6, <1>7, <1>8 DEF Flow, Sound, Stages
<1>10. ASSUME NEW j \in Stages, j < n
       PROVE  /\ t[j].got = t[j + 1].put
              /\ t[j + 1].end # "open" => Exhausted(t[j])
  <2>1. s[j].got = s[j + 1].put /\ (s[j + 1].end # "open" => Exhausted(s[j])) /\ j + 1 \in Stages
    BY <1>10 DEF Flow, Chained, Stages
  <2>2. CASE j = i
    BY <2>1, <2>2, <1>4, <1>2
  <2>3. CASE j = i + 1
    BY <2>1, <2>3, <1>1, <1>3, <1>4 DEF Exhausted, Stages
  <2>4. CASE j + 1 = i
    BY <2>1, <2>4, <1>1, <1>3, <1>4 DEF Exhausted, Stages
  <2>5. CASE j \notin {i, i + 1} /\ j + 1 # i
    BY <2>1, <2>5, <1>1, <1>3 DEF Stages
  <2>6. QED
    BY <2>2, <2>3, <2>4, <2>5
<1>11. \A j \in Stages : j > n => t[j] = Fresh
  BY <1>1, <1>3 DEF Flow, Stages
<1>12. t[n].got = s[n].got
  BY <1>1, <1>3, <1>4 DEF Stages
<1>13. QED
  BY <1>5, <1>9, <1>10, <1>11, <1>12 DEF Flow, Chained

LEMMA RenameEndFlow ==
    ASSUME NEW r \in Request, NEW s \in [Stages -> Stream], NEW a, NEW n \in 1..3, NEW c,
           Flow(r, a, s, n, c), NEW i \in 1..2, i < n, s[i + 1].end = "open",
           Exhausted(s[i])
    PROVE  LET t == [s EXCEPT ![i + 1].end = Passes(s[i])]
           IN  t \in [Stages -> Stream] /\ Flow(r, a, t, n, c)
<1> DEFINE t == [s EXCEPT ![i + 1].end = Passes(s[i])]
<1>1. i \in Stages /\ i + 1 \in Stages /\ i + 1 # i /\ n \in Stages
  BY DEF Stages
<1>2. s[i].got = s[i + 1].put /\ s[i] \in Stream /\ s[i + 1] \in Stream /\ s[i].got = s[i].put
  BY <1>1 DEF Flow, Chained, Exhausted
<1>3. /\ t[i + 1] = [s[i + 1] EXCEPT !.end = Passes(s[i])]
      /\ \A j \in Stages \ {i + 1} : t[j] = s[j]
  BY <1>1
<1>4. /\ Passes(s[i]) \in {"end", "cut", "endcut"}
      /\ Passes(s[i]) # "cut" => Between(s[i].put)
  BY <1>1, <1>2 DEF Passes, Closed, Flow, Sound, Exhausted, Stream
<1>5. /\ t[i + 1].put = s[i + 1].put /\ t[i + 1].got = s[i + 1].got
      /\ t[i + 1].end = Passes(s[i]) /\ t[i + 1] \in Stream
  <2>1. PICK e \in {"end", "cut", "endcut"} : e = Passes(s[i])
    BY <1>4
  <2>2. t[i + 1] = [s[i + 1] EXCEPT !.end = e]
    BY <1>3, <2>1
  <2>3. QED
    BY <1>2, <2>1, <2>2 DEF Stream
<1>6. t \in [Stages -> Stream]
  BY <1>1, <1>5
<1>7. \A j \in Stages : t[j].got = s[j].got /\ t[j].put = s[j].put
  BY <1>3, <1>5
<1>8. t[1] = s[1]
  BY <1>1, <1>3 DEF Stages
<1>9. Sound(r, t)
  BY <1>2, <1>3, <1>4, <1>5, <1>7, <1>8 DEF Flow, Sound, Stages
<1>10. ASSUME NEW j \in Stages, j < n
       PROVE  /\ t[j].got = t[j + 1].put
              /\ t[j + 1].end # "open" => Exhausted(t[j])
  <2>1. s[j].got = s[j + 1].put /\ (s[j + 1].end # "open" => Exhausted(s[j])) /\ j + 1 \in Stages
    BY <1>10 DEF Flow, Chained, Stages
  <2>2. CASE j = i
    BY <2>1, <2>2, <1>1, <1>3, <1>5
  <2>3. CASE j = i + 1
    BY <2>1, <2>3, <1>1, <1>3, <1>5, <1>4 DEF Exhausted, Stages
  <2>4. CASE j \notin {i, i + 1}
    BY <2>1, <2>4, <1>1, <1>3 DEF Stages
  <2>5. QED
    BY <2>2, <2>3, <2>4
<1>11. \A j \in Stages : j > n => t[j] = Fresh
  BY <1>1, <1>3 DEF Flow, Stages
<1>12. QED
  BY <1>6, <1>7, <1>9, <1>10, <1>11, <1>1 DEF Flow, Chained

\* The last reader takes a block.
LEMMA TakeFlow ==
    ASSUME NEW r \in Request, NEW s \in [Stages -> Stream], NEW a, NEW n \in 1..3, NEW c,
           Flow(r, a, s, n, c), s[n].got < s[n].put
    PROVE  LET t == [s EXCEPT ![n].got = @ + 1]
           IN  /\ t \in [Stages -> Stream]
               /\ a \in {"putting", "extract"} =>
                    Flow(r, a, t, n, c + 1) /\ c + 1 \in 0..Length
               /\ a = "drain" => Flow(r, a, t, n, c)
<1> DEFINE t == [s EXCEPT ![n].got = @ + 1]
<1>1. n \in Stages
  BY DEF Stages
<1>2. /\ t[n] = [s[n] EXCEPT !.got = @ + 1]
      /\ \A j \in Stages \ {n} : t[j] = s[j]
      /\ s[n] \in Stream
  BY <1>1
<1>3. /\ t[n].got = s[n].got + 1 /\ t[n].put = s[n].put /\ t[n].end = s[n].end
      /\ t[n] \in Stream
  BY <1>2, Lengths DEF Stream
<1>4. t \in [Stages -> Stream]
  BY <1>1, <1>3
<1>5. \A j \in Stages : t[j].put = s[j].put /\ t[j].end = s[j].end
  BY <1>2, <1>3
<1>6. Sound(r, t)
  BY <1>2, <1>3, <1>5 DEF Flow, Sound, Stages, Stream
<1>7. \A j \in Stages : j < n => j + 1 \in Stages /\ t[j] = s[j]
  BY <1>2 DEF Stages
<1>8. Chained(t, n)
  BY <1>5, <1>7 DEF Flow, Chained
<1>9. \A j \in Stages : j > n => t[j] = Fresh
  BY <1>1, <1>2 DEF Flow, Stages
<1>10. CASE a \in {"putting", "extract"}
  <2>1. c = s[n].got /\ c + 1 = t[n].got
    BY <1>3, <1>10 DEF Flow, Counted
  <2>2. c + 1 \in 0..Length
    BY <2>1, <1>2, Lengths DEF Stream
  <2>3. Flow(r, a, t, n, c + 1)
    BY <2>1, <1>6, <1>8, <1>9, <1>10 DEF Flow, Counted
  <2>4. QED
    BY <2>2, <2>3, <1>4, <1>10
<1>11. CASE a = "drain"
  <2>1. c = 0
    BY <1>11 DEF Flow, Counted
  <2>2. Flow(r, a, t, n, c)
    BY <2>1, <1>6, <1>8, <1>9, <1>11 DEF Flow, Counted
  <2>3. QED
    BY <2>2, <1>4, <1>11
<1>12. QED
  BY <1>4, <1>10, <1>11

-----------------------------------------------------------------------------
(***************************************************************************)
(* The steps.                                                               *)
(***************************************************************************)
LEMMA InitCopy == Init => CopyInv
<1> SUFFICES ASSUME Init PROVE CopyInv
  OBVIOUS
<1>1. TypeOK
  <2>1. req \in [Proc -> Request]
    BY CopyAssumption DEF Init
  <2>2. pipe \in [Proc -> [Stages -> Stream]] /\ copied \in [Proc -> 0..Length]
    BY Lengths DEF Init
  <2>3. QED
    BY <2>1, <2>2, CopyAssumption DEF Init, TypeOK, Outcomes
<1>2. ASSUME NEW p \in Proc PROVE GoodAt(p)
  <2>1. req[p] \in Request
    BY <1>1 DEF TypeOK
  <2>2. at[p] = "none" /\ pipe[p] = [i \in Stages |-> Fresh] /\ stages[p] = 0 /\ copied[p] = 0
    BY DEF Init
  <2>3. Width(req[p], "none") = 0
    BY DEF Width
  <2>4. Flow(req[p], "none", [i \in Stages |-> Fresh], 0, 0)
    BY <2>1, <2>3, FreshFlow
  <2>5. QED
    BY <2>2, <2>4 DEF GoodAt, Good
<1>3. QED
  BY <1>1, <1>2 DEF CopyInv

\* A step changes the values of one process.
LEMMA OneMoves ==
    ASSUME CopyInv, NEW p \in Proc, TypeOK', req' = req, GoodAt(p)',
           \A q \in Proc \ {p} : /\ at'[q] = at[q] /\ pipe'[q] = pipe[q]
                                 /\ stages'[q] = stages[q] /\ copied'[q] = copied[q]
    PROVE  CopyInv'
<1>1. \A q \in Proc \ {p} : GoodAt(q)'
  BY DEF CopyInv, GoodAt
<1>2. QED
  BY <1>1 DEF CopyInv

LEMMA Values ==
    ASSUME CopyInv, NEW p \in Proc
    PROVE  /\ req[p] \in Request /\ at[p] \in Points \cup Outcomes
           /\ pipe[p] \in [Stages -> Stream] /\ stages[p] \in 0..3
           /\ copied[p] \in 0..Length
           /\ Good(req[p], at[p], pipe[p], stages[p], copied[p])
BY DEF CopyInv, TypeOK, GoodAt

LEMMA ReleasedTyped ==
    ASSUME TypeOK, NEW p \in Proc
    PROVE  Released(p) \in [Container -> Proc \cup {Free}]
BY DEF TypeOK, Released

LEMMA ReturnCopy ==
    ASSUME CopyInv, NEW p \in Proc, NEW out \in {"ok", "error"}, Return(p, out),
           req' = req, copied' = copied, faults' \in 0..MaxFaults,
           out = "ok" => Whole(req[p], copied[p])
    PROVE  CopyInv'
<1>1. TypeOK
  BY DEF CopyInv
<1>2. TypeOK'
  <2>1. [i \in Stages |-> Fresh] \in [Stages -> Stream]
    BY Lengths
  <2>2. pipe' \in [Proc -> [Stages -> Stream]]
    BY <1>1, <2>1 DEF Return, TypeOK
  <2>3. lock' \in [Container -> Proc \cup {Free}]
    BY <1>1, ReleasedTyped DEF Return
  <2>4. QED
    BY <1>1, <2>2, <2>3 DEF Return, Goto, TypeOK, Outcomes
<1>3. at'[p] = out /\ copied'[p] = copied[p]
  BY <1>1 DEF Return, Goto, TypeOK
<1>4. out \notin Points \cup {"none"}
  BY DEF Points
<1>5. GoodAt(p)'
  BY <1>3, <1>4 DEF GoodAt, Good
<1>6. QED
  BY <1>1, <1>2, <1>5, OneMoves DEF Return, Goto, TypeOK

\* A step of the main goroutine that touches neither a pipe nor the count.
LEMMA GotoCopy ==
    ASSUME CopyInv, NEW p \in Proc, NEW point \in Points, Goto(p, point),
           NEW n \in 0..3, stages' = [stages EXCEPT ![p] = n],
           Flow(req[p], point, pipe[p], n, copied[p]),
           UNCHANGED <<req, pipe, copied>>, faults' = faults,
           temp' \subseteq Proc, lock' \in [Container -> Proc \cup {Free}]
    PROVE  CopyInv'
<1>1. TypeOK
  BY DEF CopyInv
<1>2. TypeOK'
  BY <1>1 DEF Goto, TypeOK
<1>3. at'[p] = point /\ stages'[p] = n
  BY <1>1 DEF Goto, TypeOK
<1>4. point # "ok"
  BY DEF Points
<1>5. GoodAt(p)'
  BY <1>3, <1>4 DEF GoodAt, Good
<1>6. QED
  BY <1>1, <1>2, <1>5, OneMoves DEF Goto, TypeOK

\* A step that changes the pipes of a process at work, and perhaps its count.
LEMMA FlowCopy ==
    ASSUME CopyInv, NEW p \in Proc, at[p] \in Points,
           NEW s \in [Stages -> Stream], pipe' = [pipe EXCEPT ![p] = s],
           NEW c \in 0..Length, copied' = [copied EXCEPT ![p] = c],
           Flow(req[p], at[p], s, stages[p], c),
           UNCHANGED <<req, at, stages, temp>>, faults' \in 0..MaxFaults,
           lock' \in [Container -> Proc \cup {Free}]
    PROVE  CopyInv'
<1>1. TypeOK
  BY DEF CopyInv
<1>2. TypeOK'
  BY <1>1 DEF TypeOK
<1>3. pipe'[p] = s /\ copied'[p] = c
  BY <1>1 DEF TypeOK
<1>4. at[p] # "ok"
  BY DEF Points
<1>5. GoodAt(p)'
  BY <1>3, <1>4 DEF GoodAt, Good
<1>6. QED
  BY <1>1, <1>2, <1>5, OneMoves DEF TypeOK

LEMMA BeginCopy ==
    ASSUME CopyInv, NEW p \in Proc, Begin(p)
    PROVE  CopyInv'
<1>1. PICK point \in {"link", "stat", "get"} : Goto(p, point)
  <2> DEFINE first == IF req[p].src # Host /\ req[p].link THEN "link"
                     ELSE IF req[p].dst # Host THEN "stat" ELSE "get"
  <2>1. Goto(p, first) /\ first \in {"link", "stat", "get"}
    BY DEF Begin
  <2> HIDE DEF first
  <2>2. QED
    BY <2>1
<1>2. at[p] = "none" /\ stages[p] = 0 /\ copied[p] = 0 /\ TypeOK
  <2>1. at[p] = "none"
    BY DEF Begin
  <2>2. Flow(req[p], "none", pipe[p], stages[p], copied[p])
    BY <2>1, Values DEF Good
  <2>3. QED
    BY <2>1, <2>2 DEF Flow, Width, Counted, CopyInv
<1>3. \A i \in Stages : pipe[p][i] = Fresh
  BY <1>2, Values DEF Good, Flow, Stages
<1>4. pipe[p] = [i \in Stages |-> Fresh]
  BY <1>3, Values
<1>5. Flow(req[p], point, pipe[p], 0, copied[p])
  <2>1. Width(req[p], point) = 0 /\ point \in Points
    BY <1>1 DEF Width, Points
  <2>2. QED
    BY <2>1, <1>2, <1>4, Values, FreshFlow
<1>6. stages' = [stages EXCEPT ![p] = 0]
  BY <1>2 DEF Begin, TypeOK
<1>7. /\ UNCHANGED <<req, pipe, copied>> /\ faults' = faults /\ point \in Points
      /\ temp' \subseteq Proc /\ lock' \in [Container -> Proc \cup {Free}]
  BY <1>1, <1>2 DEF Begin, TypeOK, Points
<1>8. CopyInv /\ 0 \in 0..3 /\ point \in Points /\ p \in Proc
  BY <1>7
<1>9. QED
  BY <1>1, <1>5, <1>6, <1>7, <1>8, GotoCopy

\* Before the archive flows, a process goes from one point to another.
LEMMA StillFresh ==
    ASSUME CopyInv, NEW p \in Proc, at[p] \in {"link", "stat", "get", "pack"},
           NEW point \in Points, Width(req[p], point) = 0
    PROVE  /\ stages[p] = 0
           /\ Flow(req[p], point, pipe[p], 0, copied[p])
<1>1. Flow(req[p], at[p], pipe[p], stages[p], copied[p])
  BY Values DEF Good, Points
<1>2. stages[p] = 0 /\ copied[p] = 0
  BY <1>1 DEF Flow, Width, Counted
<1>3. pipe[p] = [i \in Stages |-> Fresh]
  BY <1>1, <1>2, Values DEF Flow, Stages
<1>4. QED
  BY <1>2, <1>3, Values, FreshFlow

LEMMA LinkCopy ==
    ASSUME CopyInv, NEW p \in Proc, Link(p) \/ Stat(p)
    PROVE  CopyInv'
<1>1. PICK point \in {"stat", "get", "pack"} : Goto(p, point)
  BY DEF Link, Stat, Goto
<1>2. at[p] \in {"link", "stat"} /\ TypeOK
  BY DEF Link, Stat, CopyInv
<1>3. Width(req[p], point) = 0 /\ point \in Points
  BY DEF Width, Points
<1>4. stages[p] = 0 /\ Flow(req[p], point, pipe[p], 0, copied[p])
  BY <1>2, <1>3, StillFresh
<1>5. stages' = [stages EXCEPT ![p] = 0]
  BY <1>2, <1>4 DEF Link, Stat, TypeOK
<1>6. QED
  BY <1>1, <1>2, <1>3, <1>4, <1>5, GotoCopy DEF Link, Stat, TypeOK

LEMMA GetCopy ==
    ASSUME CopyInv, NEW p \in Proc, Get(p) \/ Pack(p)
    PROVE  CopyInv'
<1>1. PICK point \in {"drain", "prepare"} : Goto(p, point)
  BY DEF Get, Pack, Goto
<1>2. at[p] \in {"get", "pack"} /\ TypeOK /\ point \in Points
  BY DEF Get, Pack, CopyInv, Points
<1>3. Width(req[p], at[p]) = 0 /\ Width(req[p], point) = 1 /\ at[p] \in Points
  BY <1>2 DEF Width, Points
<1>4. Flow(req[p], at[p], pipe[p], 0, copied[p])
  BY <1>2, <1>3, StillFresh
<1>5. Flow(req[p], point, pipe[p], 1, copied[p])
  BY <1>2, <1>3, <1>4, Values, OpenFlow
<1>6. temp' \subseteq Proc /\ lock' \in [Container -> Proc \cup {Free}] /\ faults' = faults
  BY <1>2 DEF Get, Pack, TypeOK
<1>7. QED
  BY <1>1, <1>2, <1>5, <1>6, GotoCopy DEF Get, Pack

\* A process at work: its values, and the type of what a step leaves alone.
LEMMA AtWork ==
    ASSUME CopyInv, NEW p \in Proc, at[p] \in Points, stages[p] > 0
    PROVE  /\ stages[p] \in 1..3
           /\ pipe[p] \in [Stages -> Stream]
           /\ Flow(req[p], at[p], pipe[p], stages[p], copied[p])
           /\ copied[p] \in 0..Length
           /\ copied = [copied EXCEPT ![p] = copied[p]]
           /\ faults \in 0..MaxFaults
           /\ lock \in [Container -> Proc \cup {Free}]
BY Values DEF Good, CopyInv, TypeOK

LEMMA SourceCopy ==
    ASSUME CopyInv, NEW p \in Proc, Send(p) \/ SendEnd(p) \/ Break(p)
    PROVE  CopyInv'
<1>1. at[p] \in Points /\ stages[p] > 0 /\ pipe[p][1].end = "open"
  BY DEF Send, SendEnd, Break, Writing, Busy
<1>2. faults' \in 0..MaxFaults
  BY <1>1, AtWork, CopyAssumption DEF Send, SendEnd, Break
<1>3. lock' \in [Container -> Proc \cup {Free}]
  BY <1>1, AtWork DEF Send, SendEnd, Break, SourceLets
<1>4. CASE Send(p)
  <2> DEFINE s == [pipe[p] EXCEPT ![1].put = @ + 1]
  <2>1. s \in [Stages -> Stream] /\ Flow(req[p], at[p], s, stages[p], copied[p])
    BY <1>1, <1>4, AtWork, Values, SendFlow DEF Send
  <2>2. pipe' = [pipe EXCEPT ![p] = s]
    BY <1>4 DEF Send
  <2> HIDE DEF s
  <2>3. QED
    BY <1>1, <1>2, <1>3, <1>4, <2>1, <2>2, AtWork, FlowCopy DEF Send
<1>5. CASE SendEnd(p) \/ Break(p)
  <2>1. PICK e \in {"end", "cut", "endcut"} :
          /\ pipe' = [pipe EXCEPT ![p][1].end = e]
          /\ e = "end" => pipe[p][1].put = Length
          /\ e = "endcut" => req[p].src = Host /\ Between(pipe[p][1].put)
    <3>1. CASE SendEnd(p)
      BY <3>1 DEF SendEnd
    <3>2. CASE Break(p)
      BY <3>2 DEF Break, Closed
    <3>3. QED
      BY <1>5, <3>1, <3>2
  <2> DEFINE s == [pipe[p] EXCEPT ![1].end = e]
  <2>2. s \in [Stages -> Stream] /\ Flow(req[p], at[p], s, stages[p], copied[p])
    BY <1>1, <2>1, AtWork, Values, EndFlow
  <2>3. pipe' = [pipe EXCEPT ![p] = s]
    BY <2>1
  <2> HIDE DEF s
  <2>4. QED
    BY <1>1, <1>2, <1>3, <1>5, <2>2, <2>3, AtWork, FlowCopy DEF SendEnd, Break
<1>6. QED
  BY <1>4, <1>5

LEMMA RenamerCopy ==
    ASSUME CopyInv, NEW p \in Proc, NEW i \in Stages, Renamer(p, i)
    PROVE  CopyInv'
<1>1. at[p] \in Points /\ i < stages[p] /\ pipe[p][i + 1].end = "open"
  BY DEF Renamer, Rename, RenameEnd, Running, Busy
<1>2. stages[p] \in 1..3 /\ i \in 1..2 /\ req[p] \in Request
  BY <1>1, Values DEF Stages
<1>3. /\ pipe[p] \in [Stages -> Stream] /\ pipe \in [Proc -> [Stages -> Stream]]
      /\ Flow(req[p], at[p], pipe[p], stages[p], copied[p])
  BY <1>1, <1>2, AtWork DEF CopyInv, TypeOK
<1>4. /\ copied' = [copied EXCEPT ![p] = copied[p]] /\ copied[p] \in 0..Length
      /\ faults' \in 0..MaxFaults /\ lock' \in [Container -> Proc \cup {Free}]
      /\ UNCHANGED <<req, at, stages, temp>>
  BY <1>1, <1>2, AtWork DEF Renamer, Rename, RenameEnd
<1>5. CASE Rename(p, i)
  <2>1. PICK s : s = [pipe[p] EXCEPT ![i].got = @ + 1, ![i + 1].put = @ + 1]
    OBVIOUS
  <2>2. pipe[p][i].got < pipe[p][i].put /\ pipe[p][i + 1].got = pipe[p][i + 1].put
    BY <1>5 DEF Rename
  <2>3. s \in [Stages -> Stream] /\ Flow(req[p], at[p], s, stages[p], copied[p])
    BY <1>1, <1>2, <1>3, <2>1, <2>2, RenameFlow
  <2>4. pipe' = [pipe EXCEPT ![p] = s]
    BY <1>3, <1>5, <2>1 DEF Rename
  <2>5. QED
    BY <1>1, <1>5, <1>4, <2>3, <2>4, FlowCopy DEF Rename
<1>6. CASE RenameEnd(p, i)
  <2>1. PICK s : s = [pipe[p] EXCEPT ![i + 1].end = Passes(pipe[p][i])]
    OBVIOUS
  <2>2. Exhausted(pipe[p][i])
    BY <1>6 DEF RenameEnd
  <2>3. s \in [Stages -> Stream] /\ Flow(req[p], at[p], s, stages[p], copied[p])
    BY <1>1, <1>2, <1>3, <2>1, <2>2, RenameEndFlow
  <2>4. pipe' = [pipe EXCEPT ![p] = s]
    BY <1>3, <1>6, <2>1 DEF RenameEnd
  <2>5. QED
    BY <1>1, <1>6, <1>4, <2>3, <2>4, FlowCopy DEF RenameEnd
<1>7. QED
  BY <1>5, <1>6 DEF Renamer

LEMMA TakeCopy ==
    ASSUME CopyInv, NEW p \in Proc, Take(p) \/ Drain(p)
    PROVE  CopyInv'
<1>1. at[p] \in {"putting", "extract", "drain"} /\ at[p] \in Points
  BY DEF Take, Drain, Points
<1>2. Flow(req[p], at[p], pipe[p], stages[p], copied[p]) /\ req[p] \in Request
  BY <1>1, Values DEF Good
<1>3. stages[p] \in 1..3 /\ (at[p] = "drain" => stages[p] = 1)
  BY <1>1, <1>2, Widths DEF Flow
<1>4. /\ pipe[p] \in [Stages -> Stream] /\ pipe \in [Proc -> [Stages -> Stream]]
      /\ copied \in [Proc -> 0..Length]
  BY Values DEF CopyInv, TypeOK
<1>5. /\ faults' \in 0..MaxFaults /\ lock' \in [Container -> Proc \cup {Free}]
      /\ UNCHANGED <<req, at, stages, temp>>
  BY <1>1, <1>3, AtWork DEF Take, Drain
<1>6. /\ pipe[p][stages[p]].got < pipe[p][stages[p]].put
      /\ pipe' = [pipe EXCEPT ![p][stages[p]].got = @ + 1]
  BY <1>3 DEF Take, Drain, Last
<1>7. PICK s : s = [pipe[p] EXCEPT ![stages[p]].got = @ + 1]
  OBVIOUS
<1>8. pipe' = [pipe EXCEPT ![p] = s]
  BY <1>4, <1>6, <1>7
<1>9. /\ s \in [Stages -> Stream]
      /\ at[p] \in {"putting", "extract"} =>
           Flow(req[p], at[p], s, stages[p], copied[p] + 1) /\ copied[p] + 1 \in 0..Length
      /\ at[p] = "drain" => Flow(req[p], at[p], s, stages[p], copied[p])
  BY <1>2, <1>3, <1>4, <1>6, <1>7, TakeFlow
<1>10. CASE Take(p)
  <2>1. at[p] \in {"putting", "extract"} /\ copied' = [copied EXCEPT ![p] = copied[p] + 1]
    BY <1>10, <1>4 DEF Take
  <2>2. QED
    BY <2>1, <1>1, <1>5, <1>8, <1>9, FlowCopy
<1>11. CASE Drain(p)
  <2>1. at[p] = "drain" /\ copied' = [copied EXCEPT ![p] = copied[p]] /\ copied[p] \in 0..Length
    BY <1>11, <1>4 DEF Drain
  <2>2. QED
    BY <2>1, <1>1, <1>5, <1>8, <1>9, FlowCopy
<1>12. QED
  BY <1>10, <1>11

\* How a copy ends: its count is that of a stream which is exhausted.
LEMMA TakeEndCopy ==
    ASSUME CopyInv, NEW p \in Proc, TakeEnd(p)
    PROVE  CopyInv'
<1>1. at[p] \in {"putting", "extract"} /\ Exhausted(Last(p)) /\ at[p] \in Points
  BY DEF TakeEnd, Points
<1>2. Flow(req[p], at[p], pipe[p], stages[p], copied[p]) /\ req[p] \in Request
  BY <1>1, Values DEF Good
<1>3. stages[p] \in Stages
  BY <1>1, <1>2, Widths DEF Flow, Stages
<1>4. copied[p] = Last(p).put
  BY <1>1, <1>2 DEF Flow, Exhausted, Last, Counted
<1>5. ASSUME Content(p) PROVE Whole(req[p], copied[p])
  <2>1. Last(p).end \in {"end", "endcut"} /\ (Last(p).end = "endcut" => at[p] = "extract")
    BY <1>5 DEF Content, Unpacking
  <2>2. Between(copied[p])
    BY <1>2, <1>3, <1>4, <2>1 DEF Flow, Sound, Last
  <2>3. ASSUME Renamings(req[p]) = 0 PROVE copied[p] = Length
    <3>1. stages[p] = 1
      BY <2>3, <1>1, <1>2, Widths DEF Flow
    <3>2. Last(p).end = "end"
      BY <2>1, <3>1, <1>2 DEF Flow, Sound, Last, Request
    <3>3. QED
      BY <3>1, <3>2, <1>2, <1>4 DEF Flow, Sound, Last
  <2>4. QED
    BY <2>2, <2>3 DEF Whole
<1>6. faults' \in 0..MaxFaults /\ req' = req /\ copied' = copied
  BY DEF TakeEnd, CopyInv, TypeOK
<1>7. CASE Content(p)
  BY <1>5, <1>6, <1>7, ReturnCopy DEF TakeEnd
<1>8. CASE ~Content(p)
  BY <1>6, <1>8, ReturnCopy DEF TakeEnd
<1>9. QED
  BY <1>7, <1>8

LEMMA DrainEndCopy ==
    ASSUME CopyInv, NEW p \in Proc, DrainEnd(p)
    PROVE  CopyInv'
<1>1. at[p] = "drain" /\ TypeOK /\ req' = req /\ copied' = copied /\ faults' \in 0..MaxFaults
  BY DEF DrainEnd, CopyInv, TypeOK
<1>2. Flow(req[p], "drain", pipe[p], stages[p], copied[p]) /\ req[p] \in Request
  BY <1>1, Values DEF Good, Points
<1>3. stages[p] = 1 /\ copied[p] = 0
  BY <1>2, Widths DEF Flow, Counted
<1>4. CASE pipe[p][1].end # "end"
  BY <1>1, <1>4, ReturnCopy DEF DrainEnd
<1>5. CASE pipe[p][1].end = "end"
  <2>1. PICK s : s = [pipe[p] EXCEPT ![1] = Drained(p)]
    OBVIOUS
  <2>2. Drained(p) \in Stream /\ Between(Length) /\ Drained(p).end = "end"
        /\ Drained(p).put = Length /\ Drained(p).got = 0 /\ 0 <= Length
    BY Lengths DEF Drained, Stream
  <2>3. s \in [Stages -> Stream] /\ s[1] = Drained(p) /\ s[2] = pipe[p][2] /\ s[3] = pipe[p][3]
    BY <2>1, <2>2, Values DEF Stages
  <2>4. Sound(req[p], s)
    BY <1>2, <2>2, <2>3 DEF Flow, Sound, Stages
  <2>5. Chained(s, 1)
    BY DEF Chained, Stages
  <2>6. \A i \in Stages : i > 1 => s[i] = Fresh
    BY <1>2, <1>3, <2>3 DEF Flow, Stages
  <2>7. Flow(req[p], "prepare", s, 1, 0)
    BY <2>2, <2>3, <2>4, <2>5, <2>6 DEF Flow, Width, Counted
  <2>8. /\ pipe' = [pipe EXCEPT ![p] = s] /\ Goto(p, "prepare") /\ lock' = Released(p)
        /\ UNCHANGED <<stages, temp>>
    BY <1>1, <1>5, <2>1 DEF DrainEnd, TypeOK
  <2>9. TypeOK'
    BY <1>1, <2>3, <2>8, ReleasedTyped DEF TypeOK, Goto, Points
  <2>10. at'[p] = "prepare" /\ pipe'[p] = s
    BY <1>1, <2>8 DEF TypeOK, Goto
  <2>11. GoodAt(p)'
    BY <1>1, <1>3, <2>7, <2>8, <2>10 DEF GoodAt, Good
  <2>12. QED
    BY <1>1, <2>8, <2>9, <2>11, OneMoves DEF TypeOK, Goto
<1>6. QED
  BY <1>4, <1>5

LEMMA PrepareCopy ==
    ASSUME CopyInv, NEW p \in Proc, Prepare(p) \/ PrepareHost(p)
    PROVE  CopyInv'
<1>1. PICK next \in {"put", "extract"} :
        /\ Prepared(p, next)
        /\ next = "put" => req[p].dst # Host
        /\ next = "extract" => req[p].dst = Host
  BY DEF Prepare, PrepareHost
<1>2. /\ at[p] = "prepare" /\ TypeOK /\ req' = req /\ copied' = copied
      /\ faults' = faults /\ faults \in 0..MaxFaults
  BY <1>1 DEF Prepared, CopyInv, TypeOK
<1>3. Flow(req[p], "prepare", pipe[p], stages[p], copied[p]) /\ req[p] \in Request
  BY <1>2, Values DEF Good, Points
<1>4. stages[p] = 1 /\ copied[p] = 0 /\ pipe[p][2] = Fresh /\ pipe[p][3] = Fresh
  BY <1>3, Widths DEF Flow, Stages
<1>5. CASE req[p].refused
  BY <1>1, <1>2, <1>5, ReturnCopy DEF Prepared
<1>6. CASE ~req[p].refused
  <2>1. PICK n : n = Width(req[p], next)
    OBVIOUS
  <2>2. n \in 1..3 /\ n = 1 + (IF req[p].stdio THEN 0 ELSE Renamings(req[p]))
    BY <1>1, <1>3, <2>1, Widths
  <2>3. stages' = [stages EXCEPT ![p] = n] /\ Goto(p, next) /\ UNCHANGED <<pipe, temp, lock>>
    BY <1>1, <1>6, <2>2 DEF Prepared
  <2>4. Sound(req[p], pipe[p])
    BY <1>3 DEF Flow
  <2>5. Chained(pipe[p], n)
    <3>1. pipe[p][1].got = 0
      BY <1>3, <1>4 DEF Flow, Counted
    <3>2. QED
      BY <1>4, <2>2, <3>1 DEF Chained, Stages, Fresh
  <2>6. Flow(req[p], next, pipe[p], n, copied[p])
    <3>1. \A i \in Stages : i > n => pipe[p][i] = Fresh
      BY <1>4, <2>2 DEF Stages
    <3>2. copied[p] = IF next \in Counted THEN pipe[p][n].got ELSE 0
      <4>1. pipe[p][1].got = 0 /\ n \in Stages /\ Fresh.got = 0
        BY <1>3, <1>4, <2>2 DEF Flow, Stages, Fresh, Counted
      <4>2. pipe[p][n].got = 0
        BY <4>1, <1>4 DEF Stages
      <4>3. QED
        BY <1>4, <4>2 DEF Counted
    <3>3. QED
      BY <1>1, <2>1, <2>4, <2>5, <3>1, <3>2 DEF Flow
  <2>7. temp' \subseteq Proc /\ lock' \in [Container -> Proc \cup {Free}]
    BY <1>2, <2>3 DEF TypeOK
  <2>8. next \in Points /\ n \in 0..3
    BY <2>2 DEF Points
  <2>9. QED
    BY <1>1, <1>2, <2>3, <2>6, <2>7, <2>8, GotoCopy
<1>7. QED
  BY <1>5, <1>6

LEMMA PutCopy ==
    ASSUME CopyInv, NEW p \in Proc, Put(p)
    PROVE  CopyInv'
<1>1. at[p] = "put" /\ TypeOK /\ Goto(p, "putting") /\ stages[p] \in 0..3
  BY DEF Put, CopyInv, TypeOK
<1>2. Flow(req[p], "put", pipe[p], stages[p], copied[p])
  BY <1>1, Values DEF Good, Points
<1>3. Flow(req[p], "putting", pipe[p], stages[p], copied[p])
  BY <1>2 DEF Flow, Width, Counted
<1>4. /\ UNCHANGED <<req, pipe, copied>> /\ faults' = faults
      /\ stages' = [stages EXCEPT ![p] = stages[p]] /\ temp' \subseteq Proc
      /\ lock' \in [Container -> Proc \cup {Free}]
  BY <1>1 DEF Put, TypeOK
<1>5. PICK n \in 0..3 : n = stages[p]
  BY <1>1
<1>6. PICK point \in Points : point = "putting"
  BY DEF Points
<1>7. QED
  BY <1>1, <1>3, <1>4, <1>5, <1>6, GotoCopy

\* A process that a kill ends promises nothing any more.
LEMMA KilledCopy ==
    ASSUME CopyInv, NEW p \in Proc, Killed(p)
    PROVE  CopyInv'
<1>1. TypeOK /\ at' = [at EXCEPT ![p] = "killed"]
  BY DEF Killed, CopyInv, Goto
<1>2. TypeOK'
  <2>1. lock' \in [Container -> Proc \cup {Free}] /\ faults' \in 0..MaxFaults
    BY <1>1, ReleasedTyped, CopyAssumption DEF Killed, TypeOK
  <2>2. QED
    BY <1>1, <2>1 DEF Killed, TypeOK, Outcomes
<1>3. at'[p] = "killed"
  BY <1>1 DEF TypeOK
<1>4. GoodAt(p)'
  BY <1>3 DEF GoodAt, Good, Points
<1>5. QED
  BY <1>1, <1>2, <1>4, OneMoves DEF Killed, TypeOK

LEMMA RefusedCopy ==
    ASSUME CopyInv, NEW p \in Proc, Refused(p)
    PROVE  CopyInv'
<1>1. faults' \in 0..MaxFaults
  BY CopyAssumption DEF Refused, CopyInv, TypeOK
<1>2. QED
  BY <1>1, ReturnCopy DEF Refused

-----------------------------------------------------------------------------
LEMMA StepCopy == CopyInv /\ [Next]_vars => CopyInv'
<1> SUFFICES ASSUME CopyInv, [Next]_vars PROVE CopyInv'
  OBVIOUS
<1>1. CASE UNCHANGED vars
  BY <1>1 DEF vars, CopyInv, TypeOK, GoodAt
<1>2. ASSUME NEW p \in Proc, Main(p) PROVE CopyInv'
  <2>1. CASE Link(p) \/ Stat(p)
    BY <2>1, LinkCopy
  <2>2. CASE Get(p) \/ Pack(p)
    BY <2>2, GetCopy
  <2>3. CASE Take(p) \/ Drain(p)
    BY <2>3, TakeCopy
  <2>4. CASE DrainEnd(p)
    BY <2>4, DrainEndCopy
  <2>5. CASE Prepare(p) \/ PrepareHost(p)
    BY <2>5, PrepareCopy
  <2>6. CASE Put(p)
    BY <2>6, PutCopy
  <2>7. CASE TakeEnd(p)
    BY <2>7, TakeEndCopy
  <2>8. QED
    BY <1>2, <2>1, <2>2, <2>3, <2>4, <2>5, <2>6, <2>7 DEF Main
<1>3. ASSUME NEW p \in Proc, Begin(p) PROVE CopyInv'
  BY <1>3, BeginCopy
<1>4. ASSUME NEW p \in Proc, Source(p) \/ Break(p) PROVE CopyInv'
  BY <1>4, SourceCopy DEF Source
<1>5. ASSUME NEW p \in Proc, NEW i \in Stages, Renamer(p, i) PROVE CopyInv'
  BY <1>5, RenamerCopy
<1>6. ASSUME NEW p \in Proc, Refused(p) PROVE CopyInv'
  BY <1>6, RefusedCopy
<1>7. ASSUME NEW p \in Proc, Killed(p) PROVE CopyInv'
  BY <1>7, KilledCopy
<1>8. QED
  BY <1>1, <1>2, <1>3, <1>4, <1>5, <1>6, <1>7 DEF Next

(***************************************************************************)
(* Every process's pipeline is consistent (internal/copy): what a stage has *)
(* read is what it has written, it ends after the one before, and a trailer *)
(* never stands inside an entry.                                             *)
(***************************************************************************)
THEOREM PipelinesConsistent == Spec => []CopyInv
<1>1. CopyInv /\ [Next]_vars => CopyInv'
  BY StepCopy
<1>2. QED
  BY InitCopy, <1>1, PTL DEF Spec

(***************************************************************************)
(* A cp that exits 0 has truncated no file, and without a renaming on the   *)
(* way it has delivered the whole archive, for any processes, requests,     *)
(* sizes of archive and of buffer, and any number of faults.                *)
(***************************************************************************)
THEOREM CopiesWhole == Spec => []NothingTruncated
<1>1. CopyInv => NothingTruncated
  BY DEF CopyInv, GoodAt, Good, Whole, NothingTruncated, Plain
<1>2. QED
  BY PipelinesConsistent, <1>1, PTL
-----------------------------------------------------------------------------
(***************************************************************************)
(* The locks of the engine, and who waits for whom.                         *)
(***************************************************************************)
\* Why a process holds the lock of a container: it streams from it and has not
\* come to the end of the archive, or it streams into it.
Holds(p, c) ==
    \/ /\ req[p].src = c /\ pipe[p][1].end = "open"
       /\ at[p] \in {"drain", "prepare", "put", "putting", "extract"}
       /\ at[p] # "drain" => req[p].dst # c
    \/ req[p].dst = c /\ at[p] = "putting"

LockInv == \A c \in Container, p \in Proc : lock[c] = p => Holds(p, c)

LEMMA LockMoves ==
    ASSUME CopyInv, LockInv, NEW p \in Proc, req' = req,
           \A q \in Proc \ {p} : at'[q] = at[q] /\ pipe'[q] = pipe[q],
           \A c \in Container : lock'[c] \in {lock[c], Free, p},
           \A c \in Container : lock'[c] = p => Holds(p, c)'
    PROVE  LockInv'
<1>1. \A q \in Proc \ {p}, c \in Container : Holds(q, c) => Holds(q, c)'
  BY DEF Holds
<1>2. QED
  BY <1>1, CopyAssumption DEF LockInv

\* A process that has let go of everything.
LEMMA ReleasedNone ==
    ASSUME NEW p \in Proc, lock' = Released(p)
    PROVE  \A c \in Container : lock'[c] \in {lock[c], Free} /\ lock'[c] # p
BY CopyAssumption DEF Released

LEMMA LockStep == CopyInv /\ LockInv /\ [Next]_vars => LockInv'
<1> SUFFICES ASSUME CopyInv, LockInv, [Next]_vars PROVE LockInv'
  OBVIOUS
<1> USE DEF Goto
<1>1. CASE UNCHANGED vars
  BY <1>1 DEF vars, LockInv, Holds
<1>2. /\ at \in [Proc -> Points \cup Outcomes] /\ pipe \in [Proc -> [Stages -> Stream]]
      /\ req \in [Proc -> Request] /\ lock \in [Container -> Proc \cup {Free}]
  BY DEF CopyInv, TypeOK
<1>3. ASSUME NEW p \in Proc, at[p] \in {"none", "link", "stat", "get", "pack"},
             NEW c \in Container
      PROVE  lock[c] # p
  BY <1>3 DEF LockInv, Holds
<1>4. ASSUME NEW p \in Proc, Begin(p) \/ Link(p) \/ Stat(p) \/ Pack(p) PROVE LockInv'
  <2>1. \A q \in Proc \ {p} : at'[q] = at[q] /\ pipe'[q] = pipe[q]
    BY <1>2, <1>4 DEF Begin, Link, Stat, Pack
  <2>2. req' = req /\ lock' = lock
    BY <1>4 DEF Begin, Link, Stat, Pack
  <2>3. \A c \in Container : lock[c] # p
    BY <1>3, <1>4 DEF Begin, Link, Stat, Pack
  <2>4. QED
    BY <2>1, <2>2, <2>3, LockMoves
<1>5. ASSUME NEW p \in Proc, Get(p) PROVE LockInv'
  <2>1. \A q \in Proc \ {p} : at'[q] = at[q] /\ pipe'[q] = pipe[q]
    BY <1>2, <1>5 DEF Get
  <2>2. pipe[p][1].end = "open"
    <3>1. Width(req[p], "get") = 0 /\ "get" \in Points /\ at[p] = "get"
      BY <1>5 DEF Width, Points, Get
    <3>2. Flow(req[p], "get", pipe[p], 0, copied[p])
      BY <3>1, StillFresh
    <3>3. QED
      BY <3>2 DEF Flow, Stages, Fresh
  <2>3. ASSUME NEW c \in Container, lock'[c] = p PROVE Holds(p, c)'
    <3>1. c = req[p].src
      BY <1>2, <1>3, <1>5, <2>3 DEF Get
    <3>2. QED
      BY <1>2, <1>5, <2>2, <3>1 DEF Get, Holds, SameContainer
  <2>4. \A c \in Container : lock'[c] \in {lock[c], Free, p}
    BY <1>2, <1>5 DEF Get
  <2>5. req' = req
    BY <1>5 DEF Get
  <2>6. QED
    BY <2>1, <2>3, <2>4, <2>5, LockMoves
<1>6. ASSUME NEW p \in Proc, NEW i \in Stages, Send(p) \/ Renamer(p, i) \/ Drain(p) \/ Take(p)
      PROVE  LockInv'
  <2>1. \A q \in Proc \ {p} : at'[q] = at[q] /\ pipe'[q] = pipe[q]
    BY <1>2, <1>6 DEF Send, Renamer, Rename, RenameEnd, Drain, Take
  <2>2. at' = at /\ req' = req /\ lock' = lock
    BY <1>6 DEF Send, Renamer, Rename, RenameEnd, Drain, Take
  <2>3. pipe'[p][1].end = pipe[p][1].end
    <3>1. CASE Send(p) \/ Drain(p)
      BY <1>2, <3>1 DEF Send, Drain, Stages, Stream
    <3>2. CASE Take(p)
      BY <1>2, <3>2 DEF Take, Stages, Stream
    <3>3. CASE Renamer(p, i)
      BY <1>2, <3>3 DEF Renamer, Rename, RenameEnd, Stages, Stream
    <3>4. QED
      BY <1>6, <3>1, <3>2, <3>3
  <2>4. QED
    BY <2>1, <2>2, <2>3, LockMoves DEF LockInv, Holds
<1>7. ASSUME NEW p \in Proc, SendEnd(p) \/ Break(p) PROVE LockInv'
  <2>1. \A q \in Proc \ {p} : at'[q] = at[q] /\ pipe'[q] = pipe[q]
    BY <1>2, <1>7 DEF SendEnd, Break
  <2>2. at' = at /\ req' = req /\ SourceLets(p)
    BY <1>7 DEF SendEnd, Break
  <2>3. ASSUME NEW c \in Container, lock'[c] = p PROVE Holds(p, c)'
    <3>1. lock[c] = p /\ c # req[p].src
      BY <1>2, <2>2, <2>3, CopyAssumption DEF SourceLets
    <3>2. QED
      BY <2>2, <3>1 DEF LockInv, Holds
  <2>4. \A c \in Container : lock'[c] \in {lock[c], Free, p}
    BY <1>2, <2>2 DEF SourceLets
  <2>5. QED
    BY <2>1, <2>2, <2>3, <2>4, LockMoves
<1>8. ASSUME NEW p \in Proc, lock' = Released(p), req' = req,
             \A q \in Proc \ {p} : at'[q] = at[q] /\ pipe'[q] = pipe[q]
      PROVE  LockInv'
  BY <1>8, ReleasedNone, LockMoves
<1>9. ASSUME NEW p \in Proc, NEW out, Return(p, out), req' = req PROVE LockInv'
  BY <1>2, <1>8, <1>9 DEF Return
<1>10. ASSUME NEW p \in Proc, DrainEnd(p) \/ TakeEnd(p) \/ Refused(p) \/ Killed(p) PROVE LockInv'
  <2>1. CASE TakeEnd(p) \/ Refused(p)
    BY <1>9, <2>1 DEF TakeEnd, Refused
  <2>2. CASE DrainEnd(p)
    BY <1>2, <1>8, <1>9, <2>2 DEF DrainEnd
  <2>3. CASE Killed(p)
    BY <1>2, <1>8, <2>3 DEF Killed
  <2>4. QED
    BY <1>10, <2>1, <2>2, <2>3
<1>11. ASSUME NEW p \in Proc, Prepare(p) \/ PrepareHost(p) PROVE LockInv'
  <2>1. CASE Return(p, "error")
    BY <1>9, <1>11, <2>1 DEF Prepare, PrepareHost, Prepared
  <2>2. CASE ~Return(p, "error")
    <3>1. /\ at[p] = "prepare" /\ at' = [at EXCEPT ![p] = IF req[p].dst # Host THEN "put" ELSE "extract"]
          /\ pipe' = pipe /\ lock' = lock /\ req' = req
      BY <1>11, <2>2 DEF Prepare, PrepareHost, Prepared
    <3>2. \A c \in Container : lock[c] = p => Holds(p, c)'
      BY <1>2, <3>1 DEF LockInv, Holds
    <3>3. QED
      BY <1>2, <3>1, <3>2, LockMoves
  <2>3. QED
    BY <2>1, <2>2
<1>12. ASSUME NEW p \in Proc, Put(p) PROVE LockInv'
  <2>1. /\ at[p] = "put" /\ at' = [at EXCEPT ![p] = "putting"]
        /\ lock' = [lock EXCEPT ![req[p].dst] = p] /\ pipe' = pipe /\ req' = req
    BY <1>12 DEF Put
  <2>2. \A c \in Container : lock'[c] = p => Holds(p, c)'
    BY <1>2, <2>1 DEF LockInv, Holds
  <2>3. QED
    BY <1>2, <2>1, <2>2, LockMoves
<1>13. QED
  BY <1>1, <1>4, <1>5, <1>6, <1>7, <1>10, <1>11, <1>12 DEF Next, Main, Source, Stages

LEMMA LocksHeld == Spec => [](CopyInv /\ LockInv)
<1>1. Init => LockInv
  BY CopyAssumption DEF Init, LockInv
<1>2. QED
  BY <1>1, LockStep, PipelinesConsistent, PTL DEF Spec

\* The container whose lock a process waits for.
Awaited(p) == IF at[p] \in {"link", "get"} THEN req[p].src ELSE req[p].dst
AtLock(p) == at[p] \in {"link", "stat", "get", "put"}

\* One of the goroutines of a copy, or the engine on its behalf, can go on.
SourceCan(p) ==
    Writing(p) /\ (pipe[p][1].put = Length \/ pipe[p][1].put - pipe[p][1].got < Room(p))
RenamerCan(p, i) ==
    Running(p, i) /\ (\/ Exhausted(pipe[p][i])
                      \/ pipe[p][i].got < pipe[p][i].put /\ pipe[p][i + 1].got = pipe[p][i + 1].put)
Readable(s) == s.got < s.put \/ Exhausted(s)
MainCan(p) ==
    \/ AtLock(p) /\ lock[Awaited(p)] = Free
    \/ at[p] \in {"pack", "prepare"}
    \/ at[p] = "drain" /\ Readable(pipe[p][1])
    \/ at[p] \in {"putting", "extract"} /\ Readable(Last(p))
CanGo(p) == SourceCan(p) \/ MainCan(p) \/ \E i \in Stages : RenamerCan(p, i)

\* Copies that wait for each other in a ring; two of them are Crossed.
Ring == \E S \in (SUBSET Proc) \ {{}} :
            \A p \in S : at[p] = "put" /\ lock[req[p].dst] \in S \ {p}

\* While a copy is under way, some copy can go on or a ring has closed.
OnlyRingsStandStill ==
    (\E p \in Proc : Busy(p)) => Ring \/ \E p \in Proc : Busy(p) /\ CanGo(p)

\* A pipeline that is being read to its end has somebody who can go on: the
\* reader, or the goroutine that writes what it waits for, or the one before.
LEMMA PipelineFlows ==
    ASSUME CopyInv, NEW p \in Proc, at[p] \in {"drain", "putting", "extract"}
    PROVE  CanGo(p)
<1> DEFINE s == pipe[p]
           n == stages[p]
<1>1. /\ at[p] \in Points /\ n = Width(req[p], at[p]) /\ n > 0 /\ req[p] \in Request
  BY Values, Widths DEF Good, Flow, Points
<1>2. n \in 1..3 /\ s \in [Stages -> Stream] /\ Flow(req[p], at[p], s, n, copied[p])
  BY <1>1, AtWork
<1>3. /\ s[1] \in Stream /\ s[2] \in Stream /\ s[3] \in Stream
      /\ \A i \in Stages : s[i].got <= s[i].put
  BY <1>2 DEF Flow, Sound, Stages
<1>4. \A i \in Stages : Readable(s[i]) \/ (s[i].got = s[i].put /\ s[i].end = "open")
  BY <1>2, <1>3, Lengths DEF Readable, Exhausted, Stages, Stream
<1>5. Room(p) >= 1
  BY CopyAssumption DEF Room
<1>6. s[1].got = s[1].put /\ s[1].end = "open" => SourceCan(p)
  BY <1>1, <1>2, <1>3, <1>5, Lengths, CopyAssumption DEF SourceCan, Writing, Busy, Stream, Room
<1>7. ASSUME NEW i \in {1, 2}, i < n, s[i + 1].got = s[i + 1].put, s[i + 1].end = "open"
      PROVE  RenamerCan(p, i) \/ (s[i].got = s[i].put /\ s[i].end = "open")
  BY <1>1, <1>4, <1>7 DEF RenamerCan, Running, Busy, Readable, Stages
<1>8. Readable(s[n]) => MainCan(p)
  BY <1>1, <1>2 DEF MainCan, Last, Width
<1>9. n \in Stages /\ 1 \in Stages /\ 2 \in Stages
  BY <1>2 DEF Stages
<1>10. CASE n = 1
  BY <1>4, <1>6, <1>8, <1>9, <1>10 DEF CanGo
<1>11. CASE n = 2
  BY <1>4, <1>6, <1>7, <1>8, <1>9, <1>11 DEF CanGo
<1>12. CASE n = 3
  BY <1>4, <1>6, <1>7, <1>8, <1>9, <1>12 DEF CanGo
<1>13. QED
  BY <1>2, <1>10, <1>11, <1>12

\* The lock that is waited for is that of a container: the host has none.
SidesKnown ==
    \A p \in Proc : /\ at[p] \in {"link", "get"} => req[p].src # Host
                    /\ at[p] \in {"stat", "put"} => req[p].dst # Host

LEMMA SidesStep == CopyInv /\ SidesKnown /\ [Next]_vars => SidesKnown'
<1> SUFFICES ASSUME CopyInv, SidesKnown, [Next]_vars PROVE SidesKnown'
  OBVIOUS
<1> USE DEF Goto
<1>1. /\ at \in [Proc -> Points \cup Outcomes] /\ req \in [Proc -> Request]
  BY DEF CopyInv, TypeOK
<1>2. CASE UNCHANGED vars
  BY <1>2 DEF vars, SidesKnown
<1>3. ASSUME NEW p \in Proc, req' = req, \A q \in Proc \ {p} : at'[q] = at[q],
             \/ at'[p] = at[p] \/ at'[p] \notin {"link", "get", "stat", "put"}
             \/ at'[p] \in {"link", "get"} /\ req[p].src # Host
             \/ at'[p] \in {"stat", "put"} /\ req[p].dst # Host
      PROVE  SidesKnown'
  BY <1>3 DEF SidesKnown
<1>4. ASSUME NEW p \in Proc, Begin(p) PROVE SidesKnown'
  BY <1>1, <1>3, <1>4 DEF Begin, Request
<1>5. ASSUME NEW p \in Proc, Link(p) \/ Stat(p) PROVE SidesKnown'
  BY <1>1, <1>3, <1>5 DEF Link, Stat, SidesKnown
<1>6. ASSUME NEW p \in Proc, Get(p) \/ Pack(p) \/ Put(p) PROVE SidesKnown'
  BY <1>1, <1>3, <1>6 DEF Get, Pack, Put
<1>7. ASSUME NEW p \in Proc, NEW i \in Stages,
             Source(p) \/ Break(p) \/ Renamer(p, i) \/ Drain(p) \/ Take(p)
      PROVE  SidesKnown'
  BY <1>2, <1>7 DEF Source, Send, SendEnd, Break, Renamer, Rename, RenameEnd, Drain, Take, SidesKnown
<1>8. ASSUME NEW p \in Proc, NEW out \in Outcomes, Return(p, out), req' = req PROVE SidesKnown'
  BY <1>1, <1>3, <1>8 DEF Return, Outcomes
<1>9. ASSUME NEW p \in Proc, DrainEnd(p) \/ TakeEnd(p) \/ Refused(p) \/ Killed(p) PROVE SidesKnown'
  <2>1. {"ok", "error"} \subseteq Outcomes
    BY DEF Outcomes
  <2>2. CASE TakeEnd(p) \/ Refused(p)
    BY <1>8, <2>1, <2>2 DEF TakeEnd, Refused
  <2>3. CASE DrainEnd(p)
    BY <1>1, <1>3, <1>8, <2>1, <2>3 DEF DrainEnd
  <2>4. CASE Killed(p)
    BY <1>1, <1>3, <2>4 DEF Killed
  <2>5. QED
    BY <1>9, <2>2, <2>3, <2>4
<1>10. ASSUME NEW p \in Proc, Prepare(p) \/ PrepareHost(p) PROVE SidesKnown'
  <2>1. req' = req /\ "error" \in Outcomes
    BY <1>10 DEF Prepare, PrepareHost, Prepared, Outcomes
  <2>2. CASE Return(p, "error")
    BY <1>8, <2>1, <2>2
  <2>3. CASE ~Return(p, "error")
    BY <1>1, <1>3, <1>10, <2>1, <2>3 DEF Prepare, PrepareHost, Prepared
  <2>4. QED
    BY <2>2, <2>3
<1>11. QED
  BY <1>2, <1>4, <1>5, <1>6, <1>7, <1>9, <1>10 DEF Next, Main, Stages

\* A copy that cannot go on is at a lock that another copy holds, and so is that
\* copy, unless it can go on.
LEMMA StandsAtLock ==
    ASSUME CopyInv, LockInv, SidesKnown, NEW p \in Proc, Busy(p), ~CanGo(p)
    PROVE  /\ AtLock(p) /\ Awaited(p) \in Container
           /\ \E q \in Proc \ {p} : /\ lock[Awaited(p)] = q /\ Busy(q)
                                    /\ CanGo(q) \/ at[q] = "put"
<1>1. AtLock(p)
  BY PipelineFlows DEF Busy, Points, CanGo, MainCan, AtLock
<1>2. req[p].src \in Container \cup {Host} /\ req[p].dst \in Container \cup {Host}
  BY DEF CopyInv, TypeOK, Request
<1>3. Awaited(p) \in Container
  BY <1>1, <1>2 DEF SidesKnown, AtLock, Awaited
<1>4. lock[Awaited(p)] # Free
  BY <1>1 DEF CanGo, MainCan
<1>5. PICK q \in Proc : lock[Awaited(p)] = q
  BY <1>3, <1>4 DEF CopyInv, TypeOK
<1>6. Holds(q, Awaited(p))
  BY <1>3, <1>5 DEF LockInv
<1>7. q # p
  BY <1>1, <1>6 DEF Holds, AtLock, Awaited
<1>8. at[q] \in {"drain", "prepare", "put", "putting", "extract"}
  BY <1>6 DEF Holds
<1>9. CanGo(q) \/ at[q] = "put"
  BY <1>8, PipelineFlows DEF CanGo, MainCan
<1>10. QED
  BY <1>1, <1>3, <1>5, <1>7, <1>8, <1>9 DEF Busy, Points

(***************************************************************************)
(* The safety half of CopiesEnd.  Whatever cp processes run, and wherever   *)
(* their streams stand: as long as one has not returned, one of them can go *)
(* on, except when some of them stand in a ring, each waiting to stream     *)
(* into a container that the next holds.  No copy is in a ring with itself: *)
(* its own pipes, connection and locks never block it.                      *)
(***************************************************************************)
THEOREM OnlyCrossedCopiesWait == Spec => []OnlyRingsStandStill
<1>1. Init => SidesKnown
  BY DEF Init, SidesKnown
<1>2. CopyInv /\ LockInv /\ SidesKnown => OnlyRingsStandStill
  <2> SUFFICES ASSUME CopyInv, LockInv, SidesKnown, NEW b \in Proc, Busy(b),
                      \A p \in Proc : Busy(p) => ~CanGo(p)
               PROVE  Ring
    BY DEF OnlyRingsStandStill
  <2> DEFINE S == {p \in Proc : at[p] = "put"}
  <2>1. ASSUME NEW p \in Proc, Busy(p)
        PROVE  lock[Awaited(p)] \in S \ {p}
    BY <2>1, StandsAtLock
  <2>2. S \in (SUBSET Proc) \ {{}}
    BY <2>1
  <2>3. \A p \in S : at[p] = "put" /\ lock[req[p].dst] \in S \ {p}
    BY <2>1 DEF Awaited, Busy, Points
  <2>4. QED
    BY <2>2, <2>3 DEF Ring
<1>3. QED
  BY <1>1, <1>2, SidesStep, LocksHeld, PTL DEF Spec

-----------------------------------------------------------------------------
\* A bound on the steps that are left to a copy, faults included: what remains to
\* be written, read and ended of its streams, and the points to come; an archive
\* that is drained is read a second time.
PointsLeft(a) == CASE a = "link" -> Length + 7
                   [] a = "stat" -> Length + 6
                   [] a \in {"get", "pack"} -> Length + 5
                   [] a = "drain" -> Length + 4
                   [] a = "prepare" -> 3
                   [] a = "put" -> 2
                   [] OTHER -> 1
Left(s) == (Length - s.put) + (Length - s.got) + (IF s.end = "open" THEN 1 ELSE 0)
StepsLeft(a, s) ==
    IF a \in Points THEN PointsLeft(a) + Left(s[1]) + Left(s[2]) + Left(s[3]) ELSE 0

LEMMA LeftCounted ==
    ASSUME NEW s \in Stream
    PROVE  /\ Left(s) \in 0..(2 * Length + 1)
           /\ s.put = s.got /\ s.end # "open" => Left(s) = 2 * Length - 2 * s.put
<1>1. s.put \in 0..Length /\ s.got \in 0..Length
  BY DEF Stream
<1>2. QED
  BY <1>1, Lengths DEF Left

\* Writing a block, reading one and ending the stream use it up.
LEMMA StreamUsed ==
    ASSUME NEW s \in Stream
    PROVE  /\ Left([s EXCEPT !.put = @ + 1]) < Left(s)
           /\ Left([s EXCEPT !.got = @ + 1]) < Left(s)
           /\ \A e : s.end = "open" /\ e # "open" => Left([s EXCEPT !.end = e]) < Left(s)
<1>1. s.put \in Int /\ s.got \in Int
  BY Lengths DEF Stream
<1>2. s = [put |-> s.put, got |-> s.got, end |-> s.end]
  BY DEF Stream
<1>3. QED
  BY <1>1, <1>2, Lengths DEF Left, Stream

LEMMA StepsLeftCounted ==
    ASSUME NEW a \in Points \cup Outcomes, NEW s \in [Stages -> Stream]
    PROVE  /\ StepsLeft(a, s) \in 0..(7 * Length + 10)
           /\ a \in Points => StepsLeft(a, s) > 0
           /\ a \notin Points => StepsLeft(a, s) = 0
<1>1. s[1] \in Stream /\ s[2] \in Stream /\ s[3] \in Stream
  BY DEF Stages
<1>2. PointsLeft(a) \in 1..(Length + 7)
  BY Lengths DEF PointsLeft
<1>3. QED
  BY <1>1, <1>2, LeftCounted, Lengths DEF StepsLeft

\* A step that moves the main goroutine on and leaves the streams.
LEMMA PointPassed ==
    ASSUME NEW a \in Points, NEW b \in Points \cup Outcomes, NEW s \in [Stages -> Stream],
           b \in Points => PointsLeft(b) < PointsLeft(a)
    PROVE  StepsLeft(b, s) < StepsLeft(a, s)
<1>1. s[1] \in Stream /\ s[2] \in Stream /\ s[3] \in Stream
  BY DEF Stages
<1>2. PointsLeft(a) \in Nat /\ PointsLeft(b) \in Nat
  BY Lengths DEF PointsLeft
<1>3. Left(s[1]) \in Nat /\ Left(s[2]) \in Nat /\ Left(s[3]) \in Nat
  BY <1>1, LeftCounted, Lengths
<1>4. StepsLeft(a, s) > 0
  BY StepsLeftCounted
<1>5. QED
  BY <1>2, <1>3, <1>4 DEF StepsLeft

\* A step that moves streams on and leaves the main goroutine.
LEMMA StreamsMoved ==
    ASSUME NEW a \in Points, NEW s \in [Stages -> Stream], NEW t \in [Stages -> Stream],
           \A i \in Stages : Left(t[i]) <= Left(s[i]), \E i \in Stages : Left(t[i]) < Left(s[i])
    PROVE  StepsLeft(a, t) < StepsLeft(a, s)
<1>1. \A i \in Stages : Left(s[i]) \in Nat /\ Left(t[i]) \in Nat
  BY LeftCounted, Lengths
<1>2. PointsLeft(a) \in Nat
  BY Lengths DEF PointsLeft
<1>3. QED
  BY <1>1, <1>2 DEF StepsLeft, Stages

\* Every step is one process's, and unless it begins the copy it uses up a step
\* of it.
CopyStep ==
    \E p \in Proc :
        /\ \A q \in Proc \ {p} : at'[q] = at[q] /\ pipe'[q] = pipe[q]
        /\ Busy(p) => StepsLeft(at'[p], pipe'[p]) < StepsLeft(at[p], pipe[p])
        /\ ~Busy(p) => Begin(p)

LEMMA StepCounted == CopyInv /\ CopyInv' /\ [Next]_vars => CopyStep \/ UNCHANGED vars
<1> SUFFICES ASSUME CopyInv, CopyInv', Next PROVE CopyStep
  OBVIOUS
<1> USE DEF Goto
<1>1. /\ at \in [Proc -> Points \cup Outcomes] /\ pipe \in [Proc -> [Stages -> Stream]]
      /\ at' \in [Proc -> Points \cup Outcomes] /\ pipe' \in [Proc -> [Stages -> Stream]]
      /\ stages \in [Proc -> 0..3]
  BY DEF CopyInv, TypeOK
<1>2. \A p \in Proc : /\ at[p] \in Points \cup Outcomes /\ pipe[p] \in [Stages -> Stream]
                      /\ at'[p] \in Points \cup Outcomes /\ pipe'[p] \in [Stages -> Stream]
  BY <1>1
<1>3. ASSUME NEW p \in Proc, Busy(p), \A q \in Proc \ {p} : at'[q] = at[q] /\ pipe'[q] = pipe[q],
             StepsLeft(at'[p], pipe'[p]) < StepsLeft(at[p], pipe[p])
      PROVE  CopyStep
  BY <1>3 DEF CopyStep
<1>4. ASSUME NEW p \in Proc, Begin(p) PROVE CopyStep
  BY <1>1, <1>4 DEF CopyStep, Begin, Busy, Points
\* The main goroutine has returned, or the process is killed.
<1>5. ASSUME NEW p \in Proc, Busy(p), at'[p] \notin Points,
             \A q \in Proc \ {p} : at'[q] = at[q] /\ pipe'[q] = pipe[q]
      PROVE  CopyStep
  <2>1. StepsLeft(at'[p], pipe'[p]) = 0 /\ StepsLeft(at[p], pipe[p]) > 0
    BY <1>2, <1>5, StepsLeftCounted DEF Busy
  <2>2. QED
    BY <1>3, <1>5, <2>1
<1>6. ASSUME NEW p \in Proc, NEW out \in {"ok", "error"}, Busy(p), Return(p, out) PROVE CopyStep
  <2>1. at'[p] \notin Points
    BY <1>1, <1>6 DEF Return, Points
  <2>2. QED
    BY <1>1, <1>5, <1>6, <2>1 DEF Return
<1>7. ASSUME NEW p \in Proc, TakeEnd(p) \/ Refused(p) \/ Killed(p) PROVE CopyStep
  <2>1. CASE TakeEnd(p)
    BY <1>6, <2>1 DEF TakeEnd, Busy, Points
  <2>2. CASE Refused(p)
    BY <1>6, <2>2 DEF Refused
  <2>3. CASE Killed(p)
    <3>1. at'[p] = "killed" /\ Busy(p) /\ \A q \in Proc \ {p} : at'[q] = at[q] /\ pipe'[q] = pipe[q]
      BY <1>1, <2>3 DEF Killed
    <3>2. QED
      BY <1>5, <3>1 DEF Points
  <2>4. QED
    BY <1>7, <2>1, <2>2, <2>3
\* The main goroutine has come to a later point.
<1>8. ASSUME NEW p \in Proc, at[p] \in Points, pipe' = pipe, \A q \in Proc \ {p} : at'[q] = at[q],
             at'[p] \in Points => PointsLeft(at'[p]) < PointsLeft(at[p])
      PROVE  CopyStep
  BY <1>2, <1>3, <1>8, PointPassed DEF Busy
<1>9. ASSUME NEW p \in Proc, Link(p) \/ Stat(p) \/ Get(p) \/ Pack(p) \/ Put(p) PROVE CopyStep
  <2>1. pipe' = pipe /\ \A q \in Proc \ {p} : at'[q] = at[q]
    BY <1>1, <1>9 DEF Link, Stat, Get, Pack, Put
  <2>2. \/ at[p] = "link" /\ at'[p] \in {"stat", "get"}
        \/ at[p] = "stat" /\ at'[p] \in {"pack", "get"}
        \/ at[p] \in {"get", "pack"} /\ at'[p] \in {"drain", "prepare"}
        \/ at[p] = "put" /\ at'[p] = "putting"
    BY <1>1, <1>9 DEF Link, Stat, Get, Pack, Put
  <2>3. at[p] \in Points /\ PointsLeft(at'[p]) < PointsLeft(at[p])
    BY <2>2, Lengths DEF PointsLeft, Points
  <2>4. QED
    BY <1>8, <2>1, <2>3
<1>10. ASSUME NEW p \in Proc, Prepare(p) \/ PrepareHost(p) PROVE CopyStep
  <2>1. at[p] = "prepare" /\ Busy(p)
    BY <1>10 DEF Prepare, PrepareHost, Prepared, Busy, Points
  <2>2. CASE Return(p, "error")
    BY <1>6, <2>1, <2>2
  <2>3. CASE ~Return(p, "error")
    <3>1. /\ pipe' = pipe /\ at'[p] \in {"put", "extract"}
          /\ \A q \in Proc \ {p} : at'[q] = at[q]
      BY <1>1, <1>10, <2>3 DEF Prepare, PrepareHost, Prepared
    <3>2. PointsLeft(at'[p]) < PointsLeft(at[p])
      BY <2>1, <3>1 DEF PointsLeft
    <3>3. QED
      BY <1>8, <2>1, <3>1, <3>2 DEF Busy
  <2>4. QED
    BY <2>2, <2>3
\* A stream has moved on.
<1>11. ASSUME NEW p \in Proc, Busy(p), at' = at, \A q \in Proc \ {p} : pipe'[q] = pipe[q],
              \A i \in Stages : Left(pipe'[p][i]) <= Left(pipe[p][i]),
              \E i \in Stages : Left(pipe'[p][i]) < Left(pipe[p][i])
       PROVE  CopyStep
  <2>1. StepsLeft(at'[p], pipe'[p]) < StepsLeft(at[p], pipe[p])
    BY <1>2, <1>11, StreamsMoved DEF Busy
  <2>2. QED
    BY <1>3, <1>11, <2>1
\* One stream has: blocks are written or read, or it is ended.
<1>12. ASSUME NEW p \in Proc, NEW i \in Stages, NEW w, Busy(p), at' = at,
              pipe' = [pipe EXCEPT ![p] = [pipe[p] EXCEPT ![i] = w]], Left(w) < Left(pipe[p][i])
       PROVE  CopyStep
  <2>1. /\ \A q \in Proc \ {p} : pipe'[q] = pipe[q]
        /\ pipe'[p] = [pipe[p] EXCEPT ![i] = w]
    BY <1>1, <1>12
  <2>2. pipe'[p][i] = w /\ \A j \in Stages \ {i} : pipe'[p][j] = pipe[p][j]
    BY <1>2, <2>1
  <2>3. \A j \in Stages : Left(pipe[p][j]) \in Nat /\ Left(pipe'[p][j]) \in Nat
    BY <1>2, LeftCounted, Lengths
  <2>4. \A j \in Stages : Left(pipe'[p][j]) <= Left(pipe[p][j])
    BY <1>12, <2>2, <2>3
  <2>5. QED
    BY <1>11, <1>12, <2>1, <2>2, <2>4
<1>13. ASSUME NEW p \in Proc, Source(p) \/ Break(p) PROVE CopyStep
  <2>1. Busy(p) /\ at' = at /\ 1 \in Stages /\ pipe[p][1] \in Stream
    BY <1>2, <1>13 DEF Source, Send, SendEnd, Break, Writing, Stages
  <2>2. CASE Send(p)
    <3>1. pipe' = [pipe EXCEPT ![p] = [pipe[p] EXCEPT ![1] = [pipe[p][1] EXCEPT !.put = @ + 1]]]
      BY <1>1, <2>2 DEF Send
    <3>2. QED
      BY <1>12, <2>1, <3>1, StreamUsed
  <2>3. ASSUME NEW e, e # "open", pipe' = [pipe EXCEPT ![p][1].end = e], pipe[p][1].end = "open"
        PROVE  CopyStep
    <3>1. pipe' = [pipe EXCEPT ![p] = [pipe[p] EXCEPT ![1] = [pipe[p][1] EXCEPT !.end = e]]]
      BY <1>1, <2>3
    <3>2. QED
      BY <1>12, <2>1, <2>3, <3>1, StreamUsed
  <2>4. CASE SendEnd(p)
    BY <2>3, <2>4 DEF SendEnd, Writing
  <2>5. CASE Break(p)
    <3>1. PICK e \in {"endcut", "cut"} : pipe' = [pipe EXCEPT ![p][1].end = e]
      BY <1>1, <2>5 DEF Break, Closed
    <3>2. QED
      BY <2>3, <2>5, <3>1 DEF Break, Writing
  <2>6. QED
    BY <1>13, <2>2, <2>4, <2>5 DEF Source
<1>14. ASSUME NEW p \in Proc, NEW i \in Stages, Busy(p), at' = at,
              pipe' = [pipe EXCEPT ![p][i].got = @ + 1]
       PROVE  CopyStep
  <2>1. pipe' = [pipe EXCEPT ![p] = [pipe[p] EXCEPT ![i] = [pipe[p][i] EXCEPT !.got = @ + 1]]]
    BY <1>1, <1>14
  <2>2. QED
    BY <1>2, <1>12, <1>14, <2>1, StreamUsed
<1>15. ASSUME NEW p \in Proc, Drain(p) \/ Take(p) PROVE CopyStep
  <2>1. at[p] \in {"drain", "putting", "extract"} /\ at[p] \in Points
    BY <1>15 DEF Drain, Take, Points
  <2>2. stages[p] = Width(req[p], at[p]) /\ stages[p] \in 0..3
    <3>1. Flow(req[p], at[p], pipe[p], stages[p], copied[p])
      BY <2>1, Values DEF Good
    <3>2. QED
      BY <2>1, <3>1, Values DEF Flow
  <2>3. stages[p] \in Stages /\ 1 \in Stages
    BY <2>1, <2>2, Values, Widths DEF Stages
  <2>4. CASE Drain(p)
    BY <1>14, <2>1, <2>3, <2>4 DEF Drain, Busy
  <2>5. CASE Take(p)
    BY <1>14, <2>1, <2>3, <2>5 DEF Take, Busy
  <2>6. QED
    BY <1>15, <2>4, <2>5
<1>16. ASSUME NEW p \in Proc, NEW i \in Stages, Renamer(p, i) PROVE CopyStep
  <2>1. Busy(p) /\ at' = at /\ i + 1 \in Stages /\ i \in 1..3 /\ \A q \in Proc \ {p} : pipe'[q] = pipe[q]
    BY <1>1, <1>16 DEF Renamer, Rename, RenameEnd, Running, Stages
  <2>2. CASE RenameEnd(p, i)
    <3>1. pipe' = [pipe EXCEPT ![p] = [pipe[p] EXCEPT ![i + 1] =
                                         [pipe[p][i + 1] EXCEPT !.end = Passes(pipe[p][i])]]]
      BY <1>1, <2>1, <2>2 DEF RenameEnd
    <3>2. pipe[p][i + 1].end = "open" /\ Passes(pipe[p][i]) # "open"
      BY <2>2 DEF RenameEnd, Running, Passes, Closed
    <3>3. QED
      BY <1>2, <1>12, <2>1, <3>1, <3>2, StreamUsed
  <2>3. CASE Rename(p, i)
    <3>1. /\ pipe'[p][i].put = pipe[p][i].put /\ pipe'[p][i].got = pipe[p][i].got + 1
          /\ pipe'[p][i].end = pipe[p][i].end
          /\ pipe'[p][i + 1].put = pipe[p][i + 1].put + 1 /\ pipe'[p][i + 1].got = pipe[p][i + 1].got
          /\ pipe'[p][i + 1].end = pipe[p][i + 1].end
      BY <1>1, <2>1, <2>3 DEF Rename, Stream
    <3>2. \A j \in Stages \ {i, i + 1} : pipe'[p][j] = pipe[p][j]
      BY <1>1, <2>1, <2>3 DEF Rename
    <3>3. \A j \in Stages : Left(pipe[p][j]) \in Nat /\ pipe[p][j] \in Stream
      BY <1>2, LeftCounted, Lengths
    <3>4. Left(pipe'[p][i]) < Left(pipe[p][i]) /\ Left(pipe'[p][i + 1]) < Left(pipe[p][i + 1])
      BY <2>1, <3>1, <3>3, Lengths DEF Left, Stream
    <3>5. \A j \in Stages : Left(pipe'[p][j]) <= Left(pipe[p][j])
      <4>1. \A j \in Stages : pipe'[p][j] \in Stream
        BY <1>2
      <4>2. \A j \in Stages : Left(pipe'[p][j]) \in Nat
        BY <4>1, LeftCounted, Lengths
      <4>3. QED
        BY <3>2, <3>3, <3>4, <4>2
    <3>6. QED
      BY <1>11, <2>1, <3>4, <3>5
  <2>4. QED
    BY <1>16, <2>2, <2>3 DEF Renamer
<1>17. ASSUME NEW p \in Proc, DrainEnd(p) PROVE CopyStep
  <2>1. at[p] = "drain" /\ Busy(p)
    BY <1>17 DEF DrainEnd, Busy, Points
  <2>2. CASE Return(p, "error")
    BY <1>6, <2>1, <2>2
  <2>3. CASE ~Return(p, "error")
    <3>1. /\ pipe' = [pipe EXCEPT ![p][1] = Drained(p)] /\ at' = [at EXCEPT ![p] = "prepare"]
      BY <1>17, <2>3 DEF DrainEnd
    <3>2. /\ at'[p] = "prepare" /\ pipe'[p][1] = Drained(p)
          /\ pipe'[p][2] = pipe[p][2] /\ pipe'[p][3] = pipe[p][3]
          /\ \A q \in Proc \ {p} : at'[q] = at[q] /\ pipe'[q] = pipe[q]
      BY <1>1, <3>1 DEF Stages
    <3>3. Left(pipe'[p][1]) = Length
      BY <3>2, Lengths DEF Left, Drained
    <3>4. Left(pipe[p][1]) \in Nat /\ Left(pipe[p][2]) \in Nat /\ Left(pipe[p][3]) \in Nat
      <4>1. pipe[p][1] \in Stream /\ pipe[p][2] \in Stream /\ pipe[p][3] \in Stream
        BY <1>2 DEF Stages
      <4>2. QED
        BY <4>1, LeftCounted, Lengths
    <3>5. PointsLeft("drain") = Length + 4 /\ PointsLeft("prepare") = 3
      BY DEF PointsLeft
    <3>6. StepsLeft(at'[p], pipe'[p]) < StepsLeft(at[p], pipe[p])
      BY <2>1, <3>2, <3>3, <3>4, <3>5, Lengths DEF StepsLeft, Points
    <3>7. QED
      BY <1>3, <2>1, <3>2, <3>6
  <2>4. QED
    BY <2>2, <2>3
<1>18. QED
  BY <1>4, <1>7, <1>9, <1>10, <1>13, <1>15, <1>16, <1>17 DEF Next, Main

(***************************************************************************)
(* Once begun, a copy of n blocks takes at most 7 * n + 10 steps, those      *)
(* in which a stream breaks, a call is refused or the process is killed     *)
(* included: no reader, writer or renaming of the pipeline of internal/copy *)
(* goes on for ever, and the archive is read twice at most (drainToTemp).   *)
(***************************************************************************)
THEOREM CopiesRunOut ==
    /\ Spec => [](\A p \in Proc : StepsLeft(at[p], pipe[p]) \in 0..(7 * Length + 10))
    /\ Spec => [][CopyStep]_vars
<1>1. CopyInv => \A p \in Proc : StepsLeft(at[p], pipe[p]) \in 0..(7 * Length + 10)
  BY StepsLeftCounted DEF CopyInv, TypeOK
<1>2. CopyInv /\ CopyInv' /\ [Next]_vars => [CopyStep]_vars
  BY StepCounted
<1>3. QED
  BY <1>1, <1>2, PipelinesConsistent, PTL DEF Spec
=============================================================================
