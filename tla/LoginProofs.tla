----------------------------- MODULE LoginProofs -----------------------------
(***************************************************************************)
(* Proofs about Login: the sessions, for any number of ids and of requests  *)
(* and any lifetime; then the throttle, for any number of addresses and any  *)
(* window, thresholds and delays that LoginAssumption allows.                *)
(***************************************************************************)
EXTENDS Login, TLAPS, WellFoundedInduction, SequenceTheorems

RequestRecord == [id : Id \cup {None}, at : Points, age : 0..(Ttl + 1), live : SUBSET BOOLEAN]

SessionsTyped ==
    /\ sessions \in [Id -> 0..(Ttl + 1) \cup {None}]
    /\ request \in [Request -> RequestRecord]
    /\ fresh \subseteq Id /\ ended \subseteq Id \ fresh

\* The store has every session that is not over; one that is over may be there,
\* too old.
StoreTrue ==
    \A s \in Id :
        /\ s \in fresh => sessions[s] = None
        /\ s \notin fresh /\ s \notin ended => sessions[s] # None /\ sessions[s] <= Ttl
        /\ s \in ended => sessions[s] = None \/ sessions[s] > Ttl

\* What a request has seen of its session: that it was over, that it was not.
SeenOver(live) == FALSE \in live
SeenLive(live) == TRUE \in live

\* A request under way has seen what its session is by now; an entry that was
\* read ages like the one in the store.
SeesNow(r) ==
    UnderWay(r) =>
        /\ request[r].id \in Id \ fresh
        /\ request[r].id \in ended    => SeenOver(request[r].live)
        /\ request[r].id \notin ended => SeenLive(request[r].live)

JudgeTrue(r) ==
    /\ request[r].at = "judge" =>
         /\ request[r].age <= Ttl => SeenLive(request[r].live)
         /\ request[r].age > Ttl => request[r].id \in ended
         /\ request[r].id \notin ended => request[r].age = sessions[request[r].id]
    /\ request[r].at = "delete" => request[r].id \in ended

AnswerTrue(r) ==
    /\ request[r].at = "served"  => SeenLive(request[r].live)
    /\ request[r].at = "refused" => SeenOver(request[r].live)

SessionInv ==
    /\ SessionsTyped /\ StoreTrue
    /\ \A r \in Request : SeesNow(r) /\ JudgeTrue(r) /\ AnswerTrue(r)

-----------------------------------------------------------------------------
LEMMA Ages ==
    /\ Ttl \in Nat /\ None \notin 0..(Ttl + 1) /\ None \notin Id
    /\ \A age \in 0..(Ttl + 1) :
          /\ Older(age, Ttl + 1) \in 0..(Ttl + 1)
          /\ Older(age, Ttl + 1) >= age
    /\ \A age \in 0..(Ttl + 1) \cup {None} :
          /\ OlderOrNone(age, Ttl + 1) \in 0..(Ttl + 1) \cup {None}
          /\ OlderOrNone(age, Ttl + 1) = None <=> age = None
          /\ age # None => OlderOrNone(age, Ttl + 1) = Older(age, Ttl + 1)
BY LoginAssumption DEF Older, OlderOrNone

\* What the witness of a step adds to the requests that are under way.
LEMMA WitnessAdds ==
    ASSUME NEW requests \in [Request -> RequestRecord], NEW over, NEW r \in Request
    PROVE  /\ Witness(requests, over) \in [Request -> RequestRecord]
           /\ Witness(requests, over)[r].id = requests[r].id
           /\ Witness(requests, over)[r].at = requests[r].at
           /\ Witness(requests, over)[r].age = requests[r].age
           /\ SeenOver(requests[r].live) => SeenOver(Witness(requests, over)[r].live)
           /\ SeenLive(requests[r].live) => SeenLive(Witness(requests, over)[r].live)
           /\ requests[r].at \in {"lookup", "judge", "delete"} =>
                /\ requests[r].id \in over    => SeenOver(Witness(requests, over)[r].live)
                /\ requests[r].id \notin over => SeenLive(Witness(requests, over)[r].live)
           /\ requests[r].at \notin {"lookup", "judge", "delete"} =>
                Witness(requests, over)[r] = requests[r]
<1> DEFINE seen(q) == requests[q].live \cup {requests[q].id \notin over}
           add(q) == [requests[q] EXCEPT !.live = seen(q)]
<1>1. ASSUME NEW q \in Request
      PROVE  /\ seen(q) \in SUBSET BOOLEAN
             /\ requests[q].id \in over => SeenOver(seen(q))
             /\ requests[q].id \notin over => SeenLive(seen(q))
             /\ SeenOver(requests[q].live) => SeenOver(seen(q))
             /\ SeenLive(requests[q].live) => SeenLive(seen(q))
  <2>1. requests[q].live \in SUBSET BOOLEAN
    BY DEF RequestRecord
  <2>2. CASE requests[q].id \in over
    <3>1. (requests[q].id \notin over) = FALSE
      BY <2>2
    <3>2. QED
      BY <2>1, <2>2, <3>1 DEF SeenOver, SeenLive
  <2>3. CASE requests[q].id \notin over
    <3>1. (requests[q].id \notin over) = TRUE
      BY <2>3
    <3>2. QED
      BY <2>1, <2>3, <3>1 DEF SeenOver, SeenLive
  <2>4. QED
    BY <2>2, <2>3
<1> HIDE DEF seen
<1>2. ASSUME NEW q \in Request
      PROVE  /\ add(q) \in RequestRecord /\ add(q).id = requests[q].id
             /\ add(q).at = requests[q].at /\ add(q).age = requests[q].age
             /\ add(q).live = seen(q)
  BY <1>1 DEF RequestRecord
<1>3. Witness(requests, over) =
        [q \in Request |-> IF requests[q].at \in {"lookup", "judge", "delete"}
                           THEN add(q) ELSE requests[q]]
  BY DEF Witness, seen
<1> HIDE DEF add
<1>4. QED
  BY <1>1, <1>2, <1>3

LEMMA InitSessions == Init => SessionInv
<1> SUFFICES ASSUME Init PROVE SessionInv
  OBVIOUS
<1>1. SessionsTyped
  BY Ages DEF Init, SessionsTyped, RequestRecord, Idle, Points
<1>2. StoreTrue
  BY DEF Init, StoreTrue
<1>3. \A r \in Request : SeesNow(r) /\ JudgeTrue(r) /\ AnswerTrue(r)
  BY DEF Init, Idle, UnderWay, SeesNow, JudgeTrue, AnswerTrue
<1>4. QED
  BY <1>1, <1>2, <1>3 DEF SessionInv

LEMMA TickSessions ==
    ASSUME SessionInv, Tick
    PROVE  SessionInv'
<1>1. /\ sessions \in [Id -> 0..(Ttl + 1) \cup {None}]
      /\ request \in [Request -> RequestRecord]
      /\ fresh \subseteq Id /\ ended \subseteq Id \ fresh /\ StoreTrue
  BY DEF SessionInv, SessionsTyped
<1>2. /\ fresh' = fresh
      /\ sessions' = [s \in Id |-> OlderOrNone(sessions[s], Ttl + 1)]
      /\ ended' = ended \cup {s \in Id : sessions'[s] # None /\ sessions'[s] > Ttl}
  BY DEF Tick
<1>3. ASSUME NEW s \in Id
      PROVE  /\ sessions'[s] \in 0..(Ttl + 1) \cup {None}
             /\ sessions'[s] = None <=> sessions[s] = None
             /\ sessions[s] # None =>
                  sessions'[s] = Older(sessions[s], Ttl + 1) /\ sessions'[s] >= sessions[s]
  <2>1. sessions[s] \in 0..(Ttl + 1) \cup {None} /\ sessions'[s] = OlderOrNone(sessions[s], Ttl + 1)
    BY <1>1, <1>2
  <2>2. QED
    BY <2>1, Ages
<1>4. sessions' \in [Id -> 0..(Ttl + 1) \cup {None}]
  BY <1>1, <1>2, Ages
<1>5. ended \subseteq ended' /\ ended' \subseteq Id \ fresh
  BY <1>1, <1>2, <1>3, Ages DEF StoreTrue
<1>6. StoreTrue'
  <2>1. ASSUME NEW s \in Id, s \in ended' PROVE sessions'[s] = None \/ sessions'[s] > Ttl
    BY <1>1, <1>2, <1>3, <2>1, Ages DEF StoreTrue
  <2>2. ASSUME NEW s \in Id, s \notin fresh, s \notin ended'
        PROVE  sessions'[s] # None /\ sessions'[s] <= Ttl
    BY <1>1, <1>2, <1>3, <1>5, <2>2, Ages DEF StoreTrue
  <2>3. \A s \in fresh : sessions'[s] = None
    BY <1>1, <1>3 DEF StoreTrue
  <2>4. QED
    BY <1>2, <2>1, <2>2, <2>3 DEF StoreTrue
<1> DEFINE aged == [r \in Request |->
                      [request[r] EXCEPT !.age = IF request[r].at = "judge"
                                                 THEN Older(@, Ttl + 1) ELSE @]]
<1>7. ASSUME NEW r \in Request
      PROVE  /\ aged[r] \in RequestRecord
             /\ aged[r].id = request[r].id /\ aged[r].at = request[r].at
             /\ aged[r].live = request[r].live
             /\ aged[r].age = IF request[r].at = "judge" THEN Older(request[r].age, Ttl + 1)
                              ELSE request[r].age
             /\ request[r].age \in 0..(Ttl + 1)
  BY <1>1, Ages DEF RequestRecord
<1>8. PICK requests \in [Request -> RequestRecord] : requests = aged
  BY <1>7
<1>9. request' = Witness(requests, ended')
  BY <1>8 DEF Tick
<1> HIDE DEF aged
<1>10. ASSUME NEW r \in Request
       PROVE  /\ request'[r].id = request[r].id /\ request'[r].at = request[r].at
              /\ request'[r].age = aged[r].age
              /\ SeenOver(request[r].live) => SeenOver(request'[r].live)
              /\ SeenLive(request[r].live) => SeenLive(request'[r].live)
              /\ UnderWay(r) =>
                   /\ request[r].id \in ended'    => SeenOver(request'[r].live)
                   /\ request[r].id \notin ended' => SeenLive(request'[r].live)
  <2>1. PICK over : over = ended'
    OBVIOUS
  <2>2. request' = Witness(requests, over)
    BY <1>9, <2>1
  <2>3. /\ request'[r].id = requests[r].id /\ request'[r].at = requests[r].at
        /\ request'[r].age = requests[r].age
        /\ SeenOver(requests[r].live) => SeenOver(request'[r].live)
        /\ SeenLive(requests[r].live) => SeenLive(request'[r].live)
        /\ requests[r].at \in {"lookup", "judge", "delete"} =>
             /\ requests[r].id \in over    => SeenOver(request'[r].live)
             /\ requests[r].id \notin over => SeenLive(request'[r].live)
    BY <2>2, WitnessAdds
  <2>4. QED
    BY <1>7, <1>8, <2>1, <2>3 DEF UnderWay
<1>11. request' \in [Request -> RequestRecord]
  <2>1. PICK over : over = ended'
    OBVIOUS
  <2>2. request' = Witness(requests, over)
    BY <1>9, <2>1
  <2>3. CASE Request = {}
    BY <2>2, <2>3 DEF Witness
  <2>4. CASE Request # {}
    BY <2>2, <2>4, WitnessAdds
  <2>5. QED
    BY <2>3, <2>4
<1>12. ASSUME NEW r \in Request PROVE (SeesNow(r) /\ JudgeTrue(r) /\ AnswerTrue(r))'
  <2>1. SeesNow(r) /\ JudgeTrue(r) /\ AnswerTrue(r)
    BY DEF SessionInv
  <2>2. SeesNow(r)'
    BY <1>2, <1>10, <2>1 DEF SeesNow, UnderWay
  <2>3. JudgeTrue(r)'
    <3>1. CASE request[r].at = "judge"
      <4>1. /\ request[r].id \in Id \ fresh
            /\ request'[r].at = "judge" /\ request'[r].id = request[r].id
            /\ request'[r].age = Older(request[r].age, Ttl + 1)
            /\ request[r].age \in 0..(Ttl + 1) /\ request'[r].age >= request[r].age
        BY <1>7, <1>10, <2>1, <3>1, Ages DEF SeesNow, UnderWay
      <4>2. request'[r].age \in 0..(Ttl + 1)
        BY <4>1, Ages
      <4>3. request'[r].age <= Ttl => SeenLive(request'[r].live)
        <5>1. request'[r].age <= Ttl => request[r].age <= Ttl
          BY <4>1, <4>2, Ages
        <5>2. request[r].age <= Ttl => SeenLive(request[r].live)
          BY <2>1, <3>1 DEF JudgeTrue
        <5>3. QED
          BY <1>10, <5>1, <5>2, Zenon
      <4>4. ASSUME request[r].id \notin ended
            PROVE  request'[r].age = sessions'[request[r].id] /\ sessions'[request[r].id] # None
        BY <1>1, <1>3, <2>1, <3>1, <4>1, <4>4 DEF JudgeTrue, StoreTrue
      <4>5. request'[r].age > Ttl => request[r].id \in ended'
        BY <1>2, <1>5, <4>1, <4>4
      <4>6. request[r].id \notin ended' => request'[r].age = sessions'[request[r].id]
        BY <1>5, <4>4
      <4>7. QED
        BY <4>1, <4>3, <4>5, <4>6 DEF JudgeTrue
    <3>2. CASE request[r].at # "judge"
      BY <1>5, <1>10, <2>1, <3>2 DEF JudgeTrue
    <3>3. QED
      BY <3>1, <3>2
  <2>4. AnswerTrue(r)'
    BY <1>10, <2>1 DEF AnswerTrue
  <2>5. QED
    BY <2>2, <2>3, <2>4
<1>13. SessionsTyped'
  BY <1>1, <1>2, <1>4, <1>5, <1>11 DEF SessionsTyped
<1>14. QED
  BY <1>6, <1>12, <1>13 DEF SessionInv

\* A step of one request, whose live set stays as it is.
LEMMA RequestStep ==
    ASSUME SessionInv, NEW r \in Request, NEW rec \in RequestRecord,
           request' = [request EXCEPT ![r] = rec],
           UNCHANGED <<fresh, ended>>,
           sessions' \in [Id -> 0..(Ttl + 1) \cup {None}], StoreTrue',
           \A s \in Id : sessions'[s] # sessions[s] => s \in ended,
           (SeesNow(r) /\ JudgeTrue(r) /\ AnswerTrue(r))'
    PROVE  SessionInv'
<1>1. request \in [Request -> RequestRecord] /\ SessionsTyped
  BY DEF SessionInv, SessionsTyped
<1>2. SessionsTyped'
  BY <1>1 DEF SessionsTyped
<1>3. ASSUME NEW q \in Request \ {r} PROVE (SeesNow(q) /\ JudgeTrue(q) /\ AnswerTrue(q))'
  <2>1. request'[q] = request[q]
    BY <1>1
  <2>2. SeesNow(q) /\ JudgeTrue(q) /\ AnswerTrue(q)
    BY DEF SessionInv
  <2>3. SeesNow(q)' /\ AnswerTrue(q)'
    BY <2>1, <2>2 DEF SeesNow, UnderWay, AnswerTrue
  <2>4. JudgeTrue(q)'
    BY <1>1, <2>1, <2>2 DEF JudgeTrue, SeesNow, UnderWay, SessionsTyped
  <2>5. QED
    BY <2>3, <2>4
<1>4. QED
  BY <1>2, <1>3 DEF SessionInv

LEMMA ArriveSessions ==
    ASSUME SessionInv, NEW r \in Request, Arrive(r)
    PROVE  SessionInv'
<1>1. SessionsTyped /\ StoreTrue
  BY DEF SessionInv
<1>2. PICK s \in Id \ fresh :
        request' = [request EXCEPT ![r] = [id |-> s, at |-> "lookup", age |-> 0,
                                           live |-> {s \notin ended}]]
  BY DEF Arrive
<1>3. UNCHANGED <<fresh, ended, sessions>>
  BY DEF Arrive, SessionRead
<1>4. PICK live \in SUBSET BOOLEAN :
        /\ live = {s \notin ended}
        /\ s \in ended => SeenOver(live)
        /\ s \notin ended => SeenLive(live)
  <2>1. CASE s \in ended
    <3>1. (s \notin ended) = FALSE
      BY <2>1
    <3>2. {FALSE} \in SUBSET BOOLEAN
      OBVIOUS
    <3>3. QED
      BY <2>1, <3>1, <3>2 DEF SeenOver, SeenLive
  <2>2. CASE s \notin ended
    <3>1. (s \notin ended) = TRUE
      BY <2>2
    <3>2. {TRUE} \in SUBSET BOOLEAN
      OBVIOUS
    <3>3. QED
      BY <2>2, <3>1, <3>2 DEF SeenOver, SeenLive
  <2>3. QED
    BY <2>1, <2>2
<1>5. PICK rec : rec = [id |-> s, at |-> "lookup", age |-> 0, live |-> live]
  OBVIOUS
<1>6. rec \in RequestRecord
  BY <1>5, Ages DEF RequestRecord, Points
<1>7. request' = [request EXCEPT ![r] = rec] /\ request'[r] = rec
  BY <1>1, <1>2, <1>4, <1>5 DEF SessionsTyped
<1>8. (SeesNow(r) /\ JudgeTrue(r) /\ AnswerTrue(r))'
  <2>1. rec.id = s /\ rec.at = "lookup" /\ rec.live = live
    BY <1>5
  <2>2. QED
    BY <1>3, <1>4, <1>7, <2>1 DEF SeesNow, JudgeTrue, AnswerTrue
<1>9. StoreTrue'
  BY <1>1, <1>3 DEF StoreTrue
<1>10. QED
  BY <1>1, <1>3, <1>6, <1>7, <1>8, <1>9, RequestStep DEF SessionsTyped

LEMMA LookupSessions ==
    ASSUME SessionInv, NEW r \in Request, Lookup(r) \/ Judge(r)
    PROVE  SessionInv'
<1>1. SessionsTyped /\ StoreTrue /\ SeesNow(r) /\ JudgeTrue(r) /\ request[r] \in RequestRecord
  BY DEF SessionInv, SessionsTyped
<1>2. UNCHANGED <<fresh, ended, sessions>> /\ request[r].at \in {"lookup", "judge"}
  BY DEF Lookup, Judge, SessionRead
<1>3. StoreTrue'
  BY <1>1, <1>2 DEF StoreTrue
<1>4. request[r].id \in Id \ fresh
  BY <1>1, <1>2 DEF SeesNow, UnderWay
<1>5. ASSUME NEW at \in Points, NEW age \in 0..(Ttl + 1),
             request' = [request EXCEPT ![r].at = at, ![r].age = age],
             at \in {"judge", "delete", "served", "refused"},
             at = "judge" => age = sessions[request[r].id],
             at = "delete" => request[r].id \in ended,
             at = "served" => SeenLive(request[r].live),
             at = "refused" => SeenOver(request[r].live)
      PROVE  SessionInv'
  <2>1. PICK rec : rec = [request[r] EXCEPT !.at = at, !.age = age]
    OBVIOUS
  <2>2. /\ rec \in RequestRecord /\ rec.id = request[r].id /\ rec.at = at
        /\ rec.age = age /\ rec.live = request[r].live
    BY <1>1, <2>1 DEF RequestRecord
  <2>3. request' = [request EXCEPT ![r] = rec] /\ request'[r] = rec
    BY <1>1, <1>5, <2>1 DEF SessionsTyped
  <2>4. SeesNow(r)'
    BY <1>1, <1>2, <2>2, <2>3 DEF SeesNow, UnderWay
  <2>5. AnswerTrue(r)'
    BY <1>5, <2>2, <2>3 DEF AnswerTrue
  <2>6. JudgeTrue(r)'
    <3>1. CASE at = "judge"
      <4>1. age <= Ttl => request[r].id \notin ended
        BY <1>1, <1>4, <1>5, <3>1, Ages DEF StoreTrue
      <4>2. age <= Ttl => SeenLive(request[r].live)
        BY <1>1, <1>2, <4>1 DEF SeesNow, UnderWay
      <4>3. age > Ttl => request[r].id \in ended
        BY <1>1, <1>4, <1>5, <3>1, Ages DEF StoreTrue
      <4>4. QED
        BY <1>2, <1>5, <2>2, <2>3, <3>1, <4>2, <4>3 DEF JudgeTrue
    <3>2. CASE at # "judge"
      BY <1>2, <1>5, <2>2, <2>3, <3>2 DEF JudgeTrue
    <3>3. QED
      BY <3>1, <3>2
  <2>7. QED
    BY <1>1, <1>2, <1>3, <2>2, <2>3, <2>4, <2>5, <2>6, RequestStep DEF SessionsTyped
<1>6. CASE Lookup(r)
  <2>1. CASE sessions[request[r].id] = None
    <3>1. SeenOver(request[r].live)
      BY <1>1, <1>2, <1>4, <2>1 DEF StoreTrue, SeesNow, UnderWay
    <3>2. request' = [request EXCEPT ![r].at = "refused", ![r].age = 0]
      BY <1>6, <2>1 DEF Lookup, Answer
    <3>3. "refused" \in Points /\ 0 \in 0..(Ttl + 1)
      BY Ages DEF Points
    <3>4. QED
      BY <1>5, <3>1, <3>2, <3>3
  <2>2. CASE sessions[request[r].id] # None
    <3>1. PICK age \in 0..(Ttl + 1) : age = sessions[request[r].id]
      BY <1>1, <1>4, <2>2 DEF SessionsTyped
    <3>2. request' = [request EXCEPT ![r].at = "judge", ![r].age = age]
      BY <1>6, <2>2, <3>1 DEF Lookup
    <3>3. QED
      BY <1>5, <3>1, <3>2 DEF Points
  <2>3. QED
    BY <2>1, <2>2
<1>7. CASE Judge(r)
  <2>1. request[r].at = "judge" /\ request[r].age \in 0..(Ttl + 1)
    BY <1>1, <1>7 DEF Judge, RequestRecord
  <2>2. CASE request[r].age > Ttl
    <3>1. PICK age \in 0..(Ttl + 1) : age = request[r].age
      BY <2>1
    <3>2. request[r].id \in ended
      BY <1>1, <2>1, <2>2 DEF JudgeTrue
    <3>3. request' = [request EXCEPT ![r].at = "delete", ![r].age = age]
      BY <1>1, <1>7, <2>2, <3>1 DEF Judge, SessionsTyped, RequestRecord
    <3>4. QED
      BY <1>5, <3>2, <3>3 DEF Points
  <2>3. CASE ~(request[r].age > Ttl)
    <3>1. request[r].age <= Ttl
      BY <2>1, <2>3, Ages
    <3>2. SeenLive(request[r].live)
      BY <1>1, <2>1, <3>1 DEF JudgeTrue
    <3>3. request' = [request EXCEPT ![r].at = "served", ![r].age = 0]
      BY <1>7, <2>3 DEF Judge, Answer
    <3>4. "served" \in Points /\ 0 \in 0..(Ttl + 1)
      BY Ages DEF Points
    <3>5. QED
      BY <1>5, <3>2, <3>3, <3>4
  <2>4. QED
    BY <2>2, <2>3
<1>8. QED
  BY <1>6, <1>7

LEMMA DeleteSessions ==
    ASSUME SessionInv, NEW r \in Request, Delete(r)
    PROVE  SessionInv'
<1>1. SessionsTyped /\ StoreTrue /\ SeesNow(r) /\ JudgeTrue(r) /\ request[r] \in RequestRecord
  BY DEF SessionInv, SessionsTyped
<1>2. UNCHANGED <<fresh, ended>> /\ request[r].at = "delete" /\ request[r].id \in ended
  BY <1>1 DEF Delete, SessionRead, JudgeTrue
<1>3. sessions' = [sessions EXCEPT ![request[r].id] = None]
  BY DEF Delete, Forget
<1>4. /\ sessions' \in [Id -> 0..(Ttl + 1) \cup {None}]
      /\ \A s \in Id : sessions'[s] # sessions[s] => s \in ended
  BY <1>1, <1>2, <1>3 DEF SessionsTyped
<1>5. StoreTrue'
  BY <1>1, <1>2, <1>3 DEF StoreTrue, SessionsTyped
<1>6. SeenOver(request[r].live)
  BY <1>1, <1>2 DEF SeesNow, UnderWay
<1>7. PICK rec : rec = [request[r] EXCEPT !.at = "refused", !.age = 0]
  OBVIOUS
<1>8. /\ rec \in RequestRecord /\ rec.at = "refused" /\ rec.live = request[r].live
  <2>1. "refused" \in Points /\ 0 \in 0..(Ttl + 1)
    BY Ages DEF Points
  <2>2. QED
    BY <1>1, <1>7, <2>1 DEF RequestRecord
<1>9. request' = [request EXCEPT ![r] = rec] /\ request'[r] = rec
  BY <1>1, <1>7 DEF Delete, Answer, SessionsTyped
<1>10. (SeesNow(r) /\ JudgeTrue(r) /\ AnswerTrue(r))'
  BY <1>6, <1>8, <1>9 DEF SeesNow, UnderWay, JudgeTrue, AnswerTrue
<1>11. QED
  BY <1>2, <1>4, <1>5, <1>8, <1>9, <1>10, RequestStep

LEMMA CreateSessions ==
    ASSUME SessionInv, NEW a \in Addr, Create(a)
    PROVE  SessionInv'
<1>1. SessionsTyped /\ StoreTrue
  BY DEF SessionInv
<1>2. PICK s \in fresh : fresh' = fresh \ {s} /\ sessions' = [sessions EXCEPT ![s] = 0]
  BY DEF Create
<1>3. UNCHANGED <<request, ended>>
  BY DEF Create
<1>4. SessionsTyped'
  BY <1>1, <1>2, <1>3, Ages DEF SessionsTyped
<1>5. StoreTrue'
  BY <1>1, <1>2, <1>3, Ages DEF StoreTrue, SessionsTyped
<1>6. ASSUME NEW r \in Request PROVE (SeesNow(r) /\ JudgeTrue(r) /\ AnswerTrue(r))'
  <2>1. SeesNow(r) /\ JudgeTrue(r) /\ AnswerTrue(r)
    BY DEF SessionInv
  <2>2. SeesNow(r)' /\ AnswerTrue(r)'
    BY <1>2, <1>3, <2>1 DEF SeesNow, UnderWay, AnswerTrue
  <2>3. UnderWay(r) => sessions'[request[r].id] = sessions[request[r].id]
    BY <1>1, <1>2, <2>1 DEF SeesNow, SessionsTyped
  <2>4. JudgeTrue(r)'
    BY <1>3, <2>1, <2>3 DEF JudgeTrue, UnderWay
  <2>5. QED
    BY <2>2, <2>4
<1>7. QED
  BY <1>4, <1>5, <1>6 DEF SessionInv

LEMMA LogoutSessions ==
    ASSUME SessionInv, NEW s \in Id, Logout(s)
    PROVE  SessionInv'
<1>1. SessionsTyped /\ StoreTrue
  BY DEF SessionInv
<1>2. /\ s \notin fresh /\ fresh' = fresh /\ ended' = ended \cup {s}
      /\ sessions' = [sessions EXCEPT ![s] = None]
  BY DEF Logout, Forget
<1>3. PICK over : over = ended'
  OBVIOUS
<1>4. PICK requests \in [Request -> RequestRecord] : requests = request
  BY <1>1 DEF SessionsTyped
<1>5. request' = Witness(requests, over)
  BY <1>3, <1>4 DEF Logout
<1>6. request' \in [Request -> RequestRecord]
  <2>1. CASE Request = {}
    BY <1>5, <2>1 DEF Witness
  <2>2. CASE Request # {}
    BY <1>5, <2>2, WitnessAdds
  <2>3. QED
    BY <2>1, <2>2
<1>7. SessionsTyped'
  BY <1>1, <1>2, <1>6 DEF SessionsTyped
<1>8. StoreTrue'
  BY <1>1, <1>2 DEF StoreTrue, SessionsTyped
<1>9. ASSUME NEW r \in Request PROVE (SeesNow(r) /\ JudgeTrue(r) /\ AnswerTrue(r))'
  <2>1. SeesNow(r) /\ JudgeTrue(r) /\ AnswerTrue(r)
    BY DEF SessionInv
  <2>2. /\ request'[r].id = request[r].id /\ request'[r].at = request[r].at
        /\ request'[r].age = request[r].age
        /\ SeenOver(request[r].live) => SeenOver(request'[r].live)
        /\ SeenLive(request[r].live) => SeenLive(request'[r].live)
        /\ request[r].at \in {"lookup", "judge", "delete"} =>
             /\ request[r].id \in over    => SeenOver(request'[r].live)
             /\ request[r].id \notin over => SeenLive(request'[r].live)
    BY <1>4, <1>5, WitnessAdds
  <2>3. SeesNow(r)' /\ AnswerTrue(r)'
    BY <1>2, <1>3, <2>1, <2>2 DEF SeesNow, UnderWay, AnswerTrue
  <2>4. request[r].id \in Id /\ request[r].id \notin ended' =>
           sessions'[request[r].id] = sessions[request[r].id]
    BY <1>1, <1>2 DEF SessionsTyped
  <2>5. request[r].at = "judge" => request[r].id \in Id
    BY <2>1 DEF SeesNow, UnderWay
  <2>6. JudgeTrue(r)'
    BY <1>2, <2>1, <2>2, <2>4, <2>5 DEF JudgeTrue
  <2>7. QED
    BY <2>3, <2>6
<1>10. QED
  BY <1>7, <1>8, <1>9 DEF SessionInv

-----------------------------------------------------------------------------
LEMMA StepSessions == SessionInv /\ [Next]_vars => SessionInv'
<1> SUFFICES ASSUME SessionInv, [Next]_vars PROVE SessionInv'
  OBVIOUS
<1>1. ASSUME UNCHANGED <<sessions, fresh, request, ended>> PROVE SessionInv'
  BY <1>1 DEF SessionInv, SessionsTyped, StoreTrue, SeesNow, UnderWay, JudgeTrue, AnswerTrue
<1>2. CASE UNCHANGED vars
  BY <1>1, <1>2 DEF vars
<1>3. ASSUME NEW a \in Addr, Blocked(a) \/ RightToken(a) \/ WrongToken(a) PROVE SessionInv'
  BY <1>1, <1>3 DEF Blocked, RightToken, WrongToken
<1>4. ASSUME NEW r \in Request, Arrive(r) \/ Lookup(r) \/ Judge(r) \/ Delete(r)
      PROVE  SessionInv'
  BY <1>4, ArriveSessions, LookupSessions, DeleteSessions
<1>5. QED
  BY <1>2, <1>3, <1>4, TickSessions, CreateSessions, LogoutSessions DEF Next

(***************************************************************************)
(* The store has every session that is not over, and a request knows what   *)
(* its session was (auth.go:119-150, sessionStore).                          *)
(***************************************************************************)
THEOREM StoreSound == Spec => []SessionInv
<1>1. SessionInv /\ [Next]_vars => SessionInv'
  BY StepSessions
<1>2. QED
  BY InitSessions, <1>1, PTL DEF Spec

(***************************************************************************)
(* The answer to a request is right for some moment of it, for any number   *)
(* of sessions and requests and any lifetime.                                *)
(***************************************************************************)
THEOREM AnswersTrue == Spec => []AnswersWereTrue
<1>1. SessionInv => AnswersWereTrue
  BY DEF SessionInv, AnswerTrue, AnswersWereTrue, SeenOver, SeenLive
<1>2. QED
  BY StoreSound, <1>1, PTL

-----------------------------------------------------------------------------
\* Induction over data: a set of numbers has a least element.
Below == {p \in Nat \X Nat : p[1] < p[2]}

LEMMA LeastOf ==
    ASSUME NEW T \in SUBSET Nat, T # {}
    PROVE  \E x \in T : \A y \in T : x <= y
<1>1. Below = OpToRel(<, Nat)
  BY DEF Below, OpToRel
<1>2. IsWellFoundedOn(Below, Nat)
  BY <1>1, NatLessThanWellFounded
<1>3. PICK x \in T : \A y \in T : ~ (<<y, x>> \in Below)
  BY <1>2, WFMin
<1>4. ASSUME NEW y \in T PROVE x <= y
  <2>1. <<y, x>> \in Nat \X Nat
    OBVIOUS
  <2>2. ~ (y < x)
    BY <1>3, <2>1 DEF Below
  <2>3. QED
    BY <2>2
<1>5. QED
  BY <1>4

OldestFirst(ages) == \A i, j \in 1..Len(ages) : i <= j => ages[j] <= ages[i]

\* Where a sequence that is ordered passes below cap.
LEMMA Passes ==
    ASSUME NEW ages \in Seq(Nat), OldestFirst(ages), NEW cap \in Nat
    PROVE  \E k \in 0..Len(ages) : \A i \in 1..Len(ages) : ages[i] < cap <=> i > k
<1> DEFINE T == {i \in 1..Len(ages) : ages[i] < cap}
<1>1. CASE T = {}
  <2>1. \A i \in 1..Len(ages) : ages[i] < cap <=> i > Len(ages)
    BY <1>1
  <2>2. QED
    BY <2>1
<1>2. CASE T # {}
  <2>1. PICK x \in T : \A y \in T : x <= y
    <3>1. T \in SUBSET Nat
      OBVIOUS
    <3>2. QED
      BY <1>2, <3>1, LeastOf
  <2>2. \A i \in 1..Len(ages) : ages[i] \in Nat
    OBVIOUS
  <2>3. \A i \in 1..Len(ages) : ages[i] < cap <=> i > x - 1
    BY <2>1, <2>2 DEF OldestFirst
  <2>4. x - 1 \in 0..Len(ages)
    OBVIOUS
  <2>5. QED
    BY <2>3, <2>4
<1>3. QED
  BY <1>1, <1>2

\* The loop leaves the end of an ordered sequence.
LEMMA YoungerIsEnd ==
    ASSUME NEW ages \in Seq(Nat), OldestFirst(ages), NEW cap \in Nat
    PROVE  \E k \in 0..Len(ages) :
             /\ \A i \in 1..Len(ages) : ages[i] < cap <=> i > k
             /\ Younger(ages, cap) = [j \in 1..Len(ages) - k |-> ages[j + k]]
<1>1. PICK k \in 0..Len(ages) : \A i \in 1..Len(ages) : ages[i] < cap <=> i > k
  BY Passes
<1> DEFINE n == Len(ages)
           Step(f, i) == IF i = 0 THEN <<>>
                         ELSE IF ages[i] < cap THEN Append(f[i - 1], ages[i]) ELSE f[i - 1]
           End(i) == IF i <= k THEN <<>> ELSE [j \in 1..i - k |-> ages[j + k]]
           ends == [i \in 0..n |-> End(i)]
           filtered == CHOOSE f : f = [i \in 0..n |-> Step(f, i)]
<1>2. n \in Nat /\ \A i \in 1..n : ages[i] \in Nat
  OBVIOUS
<1>3. ASSUME NEW i \in 0..n, i # 0 PROVE ends[i] = Step(ends, i)
  <2>1. i - 1 \in 0..n /\ i \in 1..n
    BY <1>3
  <2>2. ends[i] = End(i) /\ ends[i - 1] = End(i - 1)
    BY <2>1
  <2>3. CASE i <= k
    <3>1. ~(ages[i] < cap) /\ End(i) = <<>> /\ End(i - 1) = <<>>
      BY <1>1, <2>1, <2>3
    <3>2. QED
      BY <1>3, <2>2, <3>1
  <2>4. CASE i > k
    <3>1. ages[i] < cap
      BY <1>1, <2>1, <2>4
    <3>2. End(i - 1) = [j \in 1..i - 1 - k |-> ages[j + k]]
      <4>1. CASE i - 1 <= k
        <5>1. End(i - 1) = <<>> /\ 1..i - 1 - k = {}
          BY <2>1, <2>4, <4>1
        <5>2. QED
          BY <5>1
      <4>2. CASE ~(i - 1 <= k)
        BY <4>2
      <4>3. QED
        BY <4>1, <4>2
    <3>3. End(i - 1) \in Seq(Nat) /\ Len(End(i - 1)) = i - 1 - k
      <4>1. i - 1 - k \in Nat /\ \A j \in 1..i - 1 - k : j + k \in 1..n
        BY <2>1, <2>4
      <4>2. \A j \in 1..i - 1 - k : ages[j + k] \in Nat
        BY <1>2, <4>1
      <4>3. QED
        BY <3>2, <4>1, <4>2
    <3>4. PICK s \in Seq(Nat) : s = End(i - 1)
      BY <3>3
    <3>5. Append(s, ages[i]) = [j \in 1..i - k |-> ages[j + k]]
      <4>1. Len(s) = i - 1 - k /\ s = [j \in 1..i - 1 - k |-> ages[j + k]]
        BY <3>2, <3>3, <3>4
      <4>2. i - k \in Nat /\ i - k = Len(s) + 1 /\ \A j \in 1..i - k : ages[j + k] \in Nat
        BY <1>2, <2>1, <2>4, <4>1
      <4>3. PICK a \in Nat : a = ages[i]
        BY <1>2, <2>1
      <4>4. /\ Append(s, a) \in Seq(Nat) /\ Len(Append(s, a)) = Len(s) + 1
            /\ \A j \in 1..Len(s) : Append(s, a)[j] = s[j]
            /\ Append(s, a)[Len(s) + 1] = a
        BY AppendProperties
      <4>5. \A j \in 1..i - k : Append(s, a)[j] = ages[j + k]
        BY <4>1, <4>2, <4>3, <4>4
      <4>6. PICK t \in Seq(Nat) : t = Append(s, a)
        BY <4>4
      <4>7. t = [j \in 1..i - k |-> t[j]]
        <5>1. Len(t) = i - k
          BY <4>2, <4>4, <4>6
        <5>2. t \in [1..i - k -> Nat]
          BY <5>1, LenProperties
        <5>3. QED
          BY <5>2
      <4>8. QED
        BY <4>3, <4>5, <4>6, <4>7
    <3>6. Step(ends, i) = Append(ends[i - 1], ages[i])
      BY <1>3, <3>1
    <3>7. ends[i] = [j \in 1..i - k |-> ages[j + k]]
      BY <2>2, <2>4
    <3>8. ends[i - 1] = s
      BY <2>2, <3>4
    <3> HIDE DEF ends, Step, End
    <3>9. QED
      BY <3>5, <3>6, <3>7, <3>8
  <2>5. QED
    BY <2>1, <2>3, <2>4
<1>4. ends[0] = Step(ends, 0)
  OBVIOUS
<1>5. ends = [i \in 0..n |-> Step(ends, i)]
  BY <1>3, <1>4
<1> HIDE DEF Step, End
<1>6. filtered = [i \in 0..n |-> Step(filtered, i)]
  BY <1>5
<1>7. filtered[n] = ends[n]
  <2> DEFINE T == {i \in 0..n : filtered[i] # ends[i]}
  <2> HIDE DEF filtered, ends
  <2>1. SUFFICES ASSUME T # {} PROVE FALSE
    BY <1>2 DEF T
  <2>2. PICK i \in T : \A j \in T : i <= j
    <3>1. T \in SUBSET Nat
      BY <1>2
    <3>2. QED
      BY <2>1, <3>1, LeastOf
  <2>3. filtered[i] = Step(filtered, i) /\ ends[i] = Step(ends, i)
    BY <1>5, <1>6
  <2>4. i # 0 => filtered[i - 1] = ends[i - 1]
    <3>1. i # 0 => i - 1 \in 0..n /\ i - 1 < i
      BY <1>2
    <3>2. QED
      BY <2>2, <3>1
  <2>5. Step(filtered, i) = Step(ends, i)
    BY <2>4 DEF Step
  <2>6. QED
    BY <2>3, <2>5
<1>8. Younger(ages, cap) = filtered[n]
  BY DEF Younger, filtered, Step
<1>9. ends[n] = [j \in 1..n - k |-> ages[j + k]]
  BY <1>2 DEF ends, End
<1>10. QED
  BY <1>1, <1>7, <1>8, <1>9

LEMMA YoungerFacts ==
    ASSUME NEW ages \in Seq(Nat), OldestFirst(ages), NEW cap \in Nat
    PROVE  \E k \in 0..Len(ages) :
             /\ \A i \in 1..Len(ages) : ages[i] < cap <=> i > k
             /\ Younger(ages, cap) \in Seq(0..cap - 1)
             /\ Len(Younger(ages, cap)) = Len(ages) - k
             /\ \A j \in 1..Len(ages) - k : Younger(ages, cap)[j] = ages[j + k]
             /\ OldestFirst(Younger(ages, cap))
<1>1. PICK k \in 0..Len(ages) :
        /\ \A i \in 1..Len(ages) : ages[i] < cap <=> i > k
        /\ Younger(ages, cap) = [j \in 1..Len(ages) - k |-> ages[j + k]]
  BY YoungerIsEnd
<1>2. PICK n \in Nat : n = Len(ages) - k
  <2>1. Len(ages) \in Nat /\ k \in Int /\ k <= Len(ages)
    OBVIOUS
  <2>2. Len(ages) - k \in Nat
    BY <2>1
  <2>3. QED
    BY <2>2
<1>3. PICK end : end = Younger(ages, cap)
  OBVIOUS
<1>4. end = [j \in 1..n |-> ages[j + k]]
  BY <1>1, <1>2, <1>3
<1>5. \A j \in 1..n : j + k \in 1..Len(ages) /\ j + k > k
  BY <1>2
<1>6. \A j \in 1..n : ages[j + k] \in 0..cap - 1
  <2>1. \A i \in 1..Len(ages) : ages[i] \in Nat
    OBVIOUS
  <2>2. QED
    BY <1>1, <1>5, <2>1
<1>7. end \in Seq(0..cap - 1) /\ Len(end) = n
  BY <1>4, <1>6
<1>8. \A i, j \in 1..n : i <= j => end[j] <= end[i]
  <2>1. \A i, j \in 1..n : i <= j => i + k <= j + k
    OBVIOUS
  <2>2. QED
    BY <1>4, <1>5, <2>1 DEF OldestFirst
<1>9. OldestFirst(end)
  BY <1>7, <1>8 DEF OldestFirst
<1>10. QED
  BY <1>1, <1>2, <1>3, <1>4, <1>7, <1>9

-----------------------------------------------------------------------------
\* Beyond Threshold recent failures lie Delay apart: each was let in only when
\* the one before it was that old.
SpacedOut(ages) ==
    \A i, j \in 1..Len(ages) :
        Threshold <= i /\ i <= j /\ ages[i] < Window => ages[j] + (j - i) * Delay <= ages[i]

LEMMA SpacedYounger ==
    ASSUME NEW ages \in Seq(0..Window), OldestFirst(ages), SpacedOut(ages)
    PROVE  SpacedOut(Younger(ages, Window))
<1>1. ages \in Seq(Nat) /\ Window \in Nat /\ Delay \in Nat /\ Threshold \in Nat
  BY LoginAssumption
<1>2. PICK k \in 0..Len(ages) :
        /\ \A i \in 1..Len(ages) : ages[i] < Window <=> i > k
        /\ Len(Younger(ages, Window)) = Len(ages) - k
        /\ \A j \in 1..Len(ages) - k : Younger(ages, Window)[j] = ages[j + k]
  BY <1>1, YoungerFacts
<1>3. ASSUME NEW i \in 1..Len(ages) - k, NEW j \in 1..Len(ages) - k, Threshold <= i, i <= j
      PROVE  ages[j + k] + (j - i) * Delay <= ages[i + k]
  <2>1. i + k \in 1..Len(ages) /\ j + k \in 1..Len(ages) /\ i + k > k
        /\ Threshold <= i + k /\ i + k <= j + k
    BY <1>1, <1>3
  <2>2. ages[j + k] + ((j + k) - (i + k)) * Delay <= ages[i + k]
    BY <1>2, <2>1 DEF SpacedOut
  <2>3. (j + k) - (i + k) = j - i
    BY <2>1
  <2>4. QED
    BY <2>2, <2>3
<1>4. QED
  BY <1>2, <1>3 DEF SpacedOut

LEMMA OlderFailures ==
    ASSUME NEW ages \in Seq(0..Window), OldestFirst(ages), SpacedOut(ages),
           NEW older, older = [i \in DOMAIN ages |-> Older(ages[i], Window)]
    PROVE  /\ older \in Seq(0..Window) /\ Len(older) = Len(ages)
           /\ \A i \in 1..Len(ages) : older[i] = Older(ages[i], Window)
           /\ OldestFirst(older) /\ SpacedOut(older)
<1>1. Window \in Nat /\ Delay \in Nat /\ Threshold \in Nat /\ Len(ages) \in Nat
  BY LoginAssumption
<1>2. \A i \in 1..Len(ages) : ages[i] \in 0..Window /\ Older(ages[i], Window) \in 0..Window
  BY <1>1 DEF Older
<1>3. older = [i \in 1..Len(ages) |-> Older(ages[i], Window)]
  OBVIOUS
<1>4. older \in Seq(0..Window) /\ Len(older) = Len(ages)
  BY <1>1, <1>2, <1>3
<1>5. \A i \in 1..Len(ages) : older[i] = Older(ages[i], Window)
  BY <1>3
<1>6. OldestFirst(older)
  BY <1>1, <1>2, <1>4, <1>5 DEF OldestFirst, Older
<1>7. ASSUME NEW i \in 1..Len(ages), NEW j \in 1..Len(ages), Threshold <= i, i <= j,
             older[i] < Window
      PROVE  older[j] + (j - i) * Delay <= older[i]
  <2>1. ages[i] < Window /\ older[i] = ages[i] + 1 /\ ages[i] \in Nat /\ ages[j] \in Nat
    BY <1>1, <1>2, <1>5, <1>7 DEF Older
  <2>2. ages[j] <= ages[i]
    BY <1>7 DEF OldestFirst
  <2>3. older[j] = ages[j] + 1
    BY <1>1, <1>5, <2>1, <2>2 DEF Older
  <2>4. ages[j] + (j - i) * Delay <= ages[i]
    BY <1>7, <2>1 DEF SpacedOut
  <2>5. PICK far \in Int : far = (j - i) * Delay
    BY <1>1
  <2>6. QED
    BY <2>1, <2>3, <2>4, <2>5
<1>8. SpacedOut(older)
  BY <1>4, <1>7 DEF SpacedOut
<1>9. QED
  BY <1>4, <1>5, <1>6, <1>8

LEMMA Quotient ==
    ASSUME NEW a \in Nat, NEW d \in Nat \ {0}, NEW k \in Nat, k * d <= a
    PROVE  k <= a \div d
<1>1. a \div d \in Int /\ a < (a \div d + 1) * d
  <2>1. a = d * (a \div d) + (a % d) /\ a % d \in 0..d - 1 /\ a \div d \in Int
    OBVIOUS
  <2>2. (a \div d + 1) * d = d * (a \div d) + d
    BY <2>1
  <2>3. QED
    BY <2>1, <2>2
<1>2. PICK q \in Int : q = a \div d
  BY <1>1
<1>3. k * d < (q + 1) * d
  BY <1>1, <1>2
<1>4. k < q + 1
  <2>1. SUFFICES ASSUME q + 1 <= k PROVE FALSE
    BY <1>2
  <2>2. (q + 1) * d <= k * d
    BY <2>1
  <2>3. QED
    BY <1>3, <2>2
<1>5. QED
  BY <1>2, <1>4

\* What a failure adds.
LEMMA SpacedAppend ==
    ASSUME NEW ages \in Seq(0..Window - 1), OldestFirst(ages), SpacedOut(ages),
           GlobalWait(ages) = 0
    PROVE  /\ Append(ages, 0) \in Seq(0..Window)
           /\ OldestFirst(Append(ages, 0)) /\ SpacedOut(Append(ages, 0))
           /\ Len(Append(ages, 0)) <= Threshold + (Window - 1) \div Delay
<1>1. /\ Window \in Nat \ {0} /\ Delay \in Nat \ {0} /\ Threshold \in Nat \ {0}
      /\ Len(ages) \in Nat
  BY LoginAssumption
<1>2. PICK n \in Nat : n = Len(ages)
  BY <1>1
<1>3. PICK all : all = Append(ages, 0)
  OBVIOUS
<1>4. /\ \A i \in 1..n : ages[i] \in 0..Window - 1
      /\ ages \in Seq(0..Window)
  BY <1>1, <1>2
<1>5. /\ all \in Seq(0..Window) /\ Len(all) = n + 1
      /\ \A i \in 1..n : all[i] = ages[i]
      /\ all[n + 1] = 0
  <2>1. 0 \in 0..Window
    BY <1>1
  <2>2. QED
    BY <1>2, <1>3, <1>4, <2>1, AppendProperties
<1>6. OldestFirst(all)
  <2>1. ASSUME NEW i \in 1..n + 1, NEW j \in 1..n + 1, i <= j PROVE all[j] <= all[i]
    <3>1. CASE j = n + 1
      <4>1. all[j] = 0
        BY <1>5, <3>1
      <4>2. all[i] \in 0..Window
        <5>1. all \in [1..n + 1 -> 0..Window]
          BY <1>5, LenProperties
        <5>2. QED
          BY <2>1, <5>1
      <4>3. QED
        BY <1>1, <4>1, <4>2
    <3>2. CASE j # n + 1
      <4>1. i \in 1..n /\ j \in 1..n
        BY <2>1, <3>2
      <4>2. QED
        BY <1>2, <1>5, <2>1, <4>1 DEF OldestFirst
    <3>3. QED
      BY <3>1, <3>2
  <2>2. QED
    BY <1>5, <2>1 DEF OldestFirst
<1>7. n >= Threshold => Delay <= ages[n]
  BY <1>1, <1>2, <1>4 DEF GlobalWait, Last
<1>8. ASSUME NEW i \in 1..n, Threshold <= i PROVE (n + 1 - i) * Delay <= ages[i]
  <2>1. n \in 1..n /\ i <= n /\ n >= Threshold /\ ages[i] < Window
    BY <1>1, <1>4, <1>8
  <2>2. ages[n] + (n - i) * Delay <= ages[i]
    BY <1>2, <1>8, <2>1 DEF SpacedOut
  <2>3. (n + 1 - i) * Delay = (n - i) * Delay + Delay
    BY <1>1
  <2>4. PICK far \in Int : far = (n - i) * Delay
    BY <1>1
  <2>5. ages[n] \in Nat /\ ages[i] \in Nat
    BY <1>4, <2>1
  <2>6. QED
    BY <1>1, <1>7, <2>1, <2>2, <2>3, <2>4, <2>5
<1>9. ASSUME NEW i \in 1..n + 1, NEW j \in 1..n + 1, Threshold <= i, i <= j, all[i] < Window
      PROVE  all[j] + (j - i) * Delay <= all[i]
  <2>1. CASE i = n + 1
    <3>1. j = i /\ (j - i) * Delay = 0 /\ all[j] = 0
      BY <1>1, <1>5, <1>9, <2>1
    <3>2. QED
      BY <1>5, <2>1, <3>1
  <2>2. CASE i \in 1..n /\ j = n + 1
    <3>1. all[j] = 0 /\ all[i] = ages[i]
      BY <1>5, <2>2
    <3>2. (j - i) * Delay <= ages[i] /\ (j - i) * Delay \in Int
      BY <1>1, <1>8, <1>9, <2>2
    <3>3. QED
      BY <3>1, <3>2
  <2>3. CASE i \in 1..n /\ j \in 1..n
    <3>1. all[j] = ages[j] /\ all[i] = ages[i]
      BY <1>5, <2>3
    <3>2. QED
      BY <1>2, <1>9, <2>3, <3>1 DEF SpacedOut
  <2>4. QED
    BY <1>9, <2>1, <2>2, <2>3
<1>10. SpacedOut(all)
  BY <1>5, <1>9 DEF SpacedOut
<1>11. n + 1 <= Threshold + (Window - 1) \div Delay
  <2>1. PICK q \in Nat : q = (Window - 1) \div Delay
    <3>1. 0 * Delay <= Window - 1 /\ Window - 1 \in Nat
      BY <1>1
    <3>2. (Window - 1) \div Delay \in Int /\ 0 <= (Window - 1) \div Delay
      BY <1>1, <3>1, Quotient
    <3>3. QED
      BY <3>2
  <2>2. CASE n < Threshold
    BY <1>1, <2>1, <2>2
  <2>3. CASE n >= Threshold
    <3>1. Threshold \in 1..n
      BY <1>1, <2>3
    <3>2. (n + 1 - Threshold) * Delay <= ages[Threshold] /\ ages[Threshold] <= Window - 1
          /\ ages[Threshold] \in Int
      BY <1>1, <1>4, <1>8, <3>1
    <3>3. (n + 1 - Threshold) * Delay <= Window - 1
      <4>1. PICK far \in Int : far = (n + 1 - Threshold) * Delay
        BY <1>1
      <4>2. QED
        BY <1>1, <3>2, <4>1
    <3>4. n + 1 - Threshold <= q
      BY <1>1, <2>1, <2>3, <3>3, Quotient
    <3>5. QED
      BY <1>1, <2>1, <3>4
  <2>4. QED
    BY <1>1, <2>2, <2>3
<1>12. QED
  BY <1>3, <1>5, <1>6, <1>10, <1>11

-----------------------------------------------------------------------------
\* The delay for everyone.
LEMMA WaitRange ==
    ASSUME NEW ages \in Seq(0..Window)
    PROVE  GlobalWait(ages) \in 0..Delay
<1>1. Window \in Nat /\ Delay \in Nat /\ Threshold \in Nat \ {0}
  BY LoginAssumption
<1>2. CASE Len(ages) >= Threshold /\ Last(ages) < Delay
  <2>1. Len(ages) \in 1..Len(ages)
    BY <1>1, <1>2
  <2>2. Last(ages) \in Nat /\ Last(ages) < Delay
    <3>1. ages \in [1..Len(ages) -> 0..Window]
      BY LenProperties
    <3>2. ages[Len(ages)] \in 0..Window
      BY <2>1, <3>1
    <3>3. Last(ages) = ages[Len(ages)]
      BY DEF Last
    <3>4. QED
      BY <1>1, <1>2, <3>2, <3>3
  <2>3. QED
    BY <1>1, <1>2, <2>2 DEF GlobalWait
<1>3. CASE ~(Len(ages) >= Threshold /\ Last(ages) < Delay)
  BY <1>1, <1>3 DEF GlobalWait
<1>4. QED
  BY <1>2, <1>3

LEMMA WaitNow ==
    ASSUME NEW ages \in Seq(0..Window), OldestFirst(ages)
    PROVE  GlobalWait(Younger(ages, Window)) \in 0..Delay
<1>1. ages \in Seq(Nat) /\ Window \in Nat
  BY LoginAssumption
<1>2. PICK k \in 0..Len(ages) : Younger(ages, Window) \in Seq(0..Window - 1)
  BY <1>1, YoungerFacts
<1>3. Younger(ages, Window) \in Seq(0..Window)
  BY <1>1, <1>2
<1>4. QED
  BY <1>3, WaitRange

\* To drop the old ones twice is to drop them once.
LEMMA WaitAgain ==
    ASSUME NEW ages \in Seq(0..Window), OldestFirst(ages)
    PROVE  GlobalWait(Younger(Younger(ages, Window), Window)) = GlobalWait(Younger(ages, Window))
<1>1. ages \in Seq(Nat) /\ Window \in Nat /\ Threshold \in Nat \ {0}
  BY LoginAssumption
<1>2. PICK recent : recent = Younger(ages, Window)
  OBVIOUS
<1>3. recent \in Seq(0..Window - 1) /\ OldestFirst(recent)
  BY <1>1, <1>2, YoungerFacts
<1>4. recent \in Seq(Nat) /\ Len(recent) \in Nat
      /\ \A i \in 1..Len(recent) : recent[i] < Window
  BY <1>1, <1>3
<1>5. PICK k \in 0..Len(recent) :
        /\ \A i \in 1..Len(recent) : recent[i] < Window <=> i > k
        /\ Len(Younger(recent, Window)) = Len(recent) - k
        /\ \A j \in 1..Len(recent) - k : Younger(recent, Window)[j] = recent[j + k]
  BY <1>1, <1>3, <1>4, YoungerFacts
<1>6. k = 0
  <2>1. SUFFICES ASSUME k # 0 PROVE FALSE
    OBVIOUS
  <2>2. k \in 1..Len(recent)
    BY <2>1
  <2>3. QED
    BY <1>4, <1>5, <2>2
<1>7. PICK again : again = Younger(recent, Window)
  OBVIOUS
<1>8. Len(again) = Len(recent) /\ \A j \in 1..Len(recent) : again[j] = recent[j]
  BY <1>4, <1>5, <1>6, <1>7
<1>9. Len(recent) >= Threshold => Last(again) = Last(recent)
  BY <1>1, <1>4, <1>8 DEF Last
<1>10. GlobalWait(again) = GlobalWait(recent)
  BY <1>8, <1>9 DEF GlobalWait
<1>11. QED
  BY <1>2, <1>7, <1>10

\* A tick shortens it, if there is one, and brings none about.
LEMMA WaitShrinks ==
    ASSUME NEW ages \in Seq(0..Window), OldestFirst(ages), SpacedOut(ages),
           NEW older, older = [i \in DOMAIN ages |-> Older(ages[i], Window)]
    PROVE  /\ GlobalWait(Younger(ages, Window)) = 0 => GlobalWait(Younger(older, Window)) = 0
           /\ GlobalWait(Younger(ages, Window)) > 0 =>
                GlobalWait(Younger(older, Window)) <= GlobalWait(Younger(ages, Window)) - 1
<1>1. ages \in Seq(Nat) /\ Window \in Nat /\ Threshold \in Nat \ {0} /\ Delay \in Nat
      /\ Len(ages) \in Nat
  BY LoginAssumption
<1>2. /\ older \in Seq(0..Window) /\ Len(older) = Len(ages) /\ OldestFirst(older)
      /\ \A i \in 1..Len(ages) : older[i] = Older(ages[i], Window)
  BY OlderFailures
<1>3. older \in Seq(Nat)
  BY <1>1, <1>2
<1>4. PICK recent, later : recent = Younger(ages, Window) /\ later = Younger(older, Window)
  OBVIOUS
<1>5. PICK k \in 0..Len(ages) :
        /\ \A i \in 1..Len(ages) : ages[i] < Window <=> i > k
        /\ recent \in Seq(0..Window - 1)
        /\ Len(recent) = Len(ages) - k
        /\ \A j \in 1..Len(ages) - k : recent[j] = ages[j + k]
  <2>1. PICK k \in 0..Len(ages) :
          /\ \A i \in 1..Len(ages) : ages[i] < Window <=> i > k
          /\ Younger(ages, Window) \in Seq(0..Window - 1)
          /\ Len(Younger(ages, Window)) = Len(ages) - k
          /\ \A j \in 1..Len(ages) - k : Younger(ages, Window)[j] = ages[j + k]
    BY <1>1, YoungerFacts
  <2>2. QED
    BY <1>4, <2>1
<1>7. PICK l \in 0..Len(ages) :
        /\ \A i \in 1..Len(ages) : older[i] < Window <=> i > l
        /\ later \in Seq(0..Window - 1)
        /\ Len(later) = Len(ages) - l
        /\ \A j \in 1..Len(ages) - l : later[j] = older[j + l]
  <2> OldestFirst(older) /\ older \in Seq(Nat) /\ Window \in Nat
    BY <1>1, <1>2, <1>3
  <2>1. PICK l \in 0..Len(older) :
          /\ \A i \in 1..Len(older) : older[i] < Window <=> i > l
          /\ Younger(older, Window) \in Seq(0..Window - 1)
          /\ Len(Younger(older, Window)) = Len(older) - l
          /\ \A j \in 1..Len(older) - l : Younger(older, Window)[j] = older[j + l]
    BY YoungerFacts
  <2>2. QED
    BY <1>2, <1>4, <2>1
<1>8. CASE Len(later) < Threshold
  <2>1. GlobalWait(later) = 0
    BY <1>1, <1>7, <1>8 DEF GlobalWait
  <2>2. recent \in Seq(0..Window)
    BY <1>1, <1>5
  <2>3. GlobalWait(recent) \in Nat
    BY <1>1, <2>2, WaitRange
  <2>4. QED
    BY <1>4, <2>1, <2>3
<1>9. CASE Len(later) >= Threshold
  <2>1. Len(ages) \in 1..Len(ages) /\ Len(ages) > l /\ Len(ages) - l \in 1..Len(ages) - l
    BY <1>1, <1>7, <1>9
  <2>2. older[Len(ages)] < Window /\ Last(later) = older[Len(ages)]
    <3>1. older[Len(ages)] < Window /\ later[Len(ages) - l] = older[Len(ages) - l + l]
      BY <1>7, <2>1
    <3>2. Len(ages) - l + l = Len(ages)
      BY <2>1
    <3>3. Last(later) = later[Len(later)]
      BY DEF Last
    <3>4. QED
      BY <1>7, <3>1, <3>2, <3>3
  <2>3. ages[Len(ages)] < Window /\ older[Len(ages)] = ages[Len(ages)] + 1
        /\ ages[Len(ages)] \in Nat
    BY <1>1, <1>2, <2>1, <2>2 DEF Older
  <2>4. \A i \in 1..Len(ages) : i > l => i > k
    <3>1. ASSUME NEW i \in 1..Len(ages), i > l PROVE i > k
      <4>1. older[i] < Window /\ older[i] = Older(ages[i], Window)
        BY <1>2, <1>7, <3>1
      <4> ages[i] \in Nat
        BY <1>1
      <4>2. ages[i] < Window
        BY <1>1, <4>1 DEF Older
      <4>3. QED
        BY <1>5, <4>2
    <3>2. QED
      BY <3>1
  <2>5. k <= l
    <3>1. SUFFICES ASSUME l < k PROVE FALSE
      OBVIOUS
    <3>2. k \in 1..Len(ages)
      BY <3>1
    <3>3. QED
      BY <2>4, <3>1, <3>2
  <2>6. Len(recent) >= Threshold /\ Len(ages) - k \in 1..Len(ages) - k
    BY <1>1, <1>5, <1>7, <1>9, <2>1, <2>5
  <2>7. Last(recent) = ages[Len(ages)]
    BY <1>5, <2>6 DEF Last
  <2>8. PICK age \in Nat : age = ages[Len(ages)]
    BY <2>3
  <2>9. GlobalWait(recent) = IF age < Delay THEN Delay - age ELSE 0
    BY <2>6, <2>7, <2>8 DEF GlobalWait
  <2>10. GlobalWait(later) = IF age + 1 < Delay THEN Delay - (age + 1) ELSE 0
    BY <1>9, <2>2, <2>3, <2>8 DEF GlobalWait
  <2>11. GlobalWait(recent) = 0 => GlobalWait(later) = 0
    BY <1>1, <2>8, <2>9, <2>10
  <2>12. GlobalWait(recent) > 0 => GlobalWait(later) <= GlobalWait(recent) - 1
    BY <1>1, <2>8, <2>9, <2>10
  <2>13. QED
    BY <1>4, <2>11, <2>12
<1>10. QED
  BY <1>1, <1>7, <1>8, <1>9

-----------------------------------------------------------------------------
\* The inductive invariant of the throttle.
FailuresTyped ==
    /\ globalFailures \in Seq(0..Window)
    /\ count \in [Addr -> 0..MaxFail]
    /\ blocked \in [Addr -> 0..BlockFor \cup {None}]
    /\ tries \in [Addr -> Seq(0..BlockFor - 1)]
    /\ told \in [Addr -> 0..BlockFor \cup {None}]

\* The tries that count are those since the last right token or ended block; a
\* block began after every try that is remembered.
CountSound(a) ==
    /\ OldestFirst(tries[a])
    /\ blocked[a] = None => Len(tries[a]) <= count[a] /\ count[a] < MaxFail
    /\ blocked[a] # None => /\ Len(tries[a]) <= MaxFail
                            /\ \A i \in 1..Len(tries[a]) : blocked[a] <= tries[a][i]

\* What an address was told to wait covers its own block and everyone's delay.
ToldSound(a) == told[a] # None => OwnWait(a) <= told[a] /\ GlobalWait(Recent) <= told[a]

GlobalSound ==
    /\ OldestFirst(globalFailures) /\ SpacedOut(globalFailures)
    /\ FailuresBounded

ThrottleInv ==
    /\ FailuresTyped /\ GlobalSound
    /\ \A a \in Addr : CountSound(a) /\ ToldSound(a)

LEMMA Limits ==
    /\ Window \in Nat \ {0} /\ Threshold \in Nat \ {0} /\ MaxFail \in Nat \ {0}
    /\ Delay \in Nat \ {0} /\ BlockFor \in Nat \ {0}
    /\ Delay <= BlockFor /\ BlockFor <= Window
    /\ None \notin Int
BY LoginAssumption

LEMMA BoundNat == Threshold + (Window - 1) \div Delay \in Nat
<1>1. 0 * Delay <= Window - 1 /\ Window - 1 \in Nat /\ 0 \in Nat
  BY Limits
<1>2. (Window - 1) \div Delay \in Int /\ 0 <= (Window - 1) \div Delay
  BY <1>1, Limits, Quotient
<1>3. QED
  BY <1>2, Limits

LEMMA InitThrottle == Init => ThrottleInv
<1> SUFFICES ASSUME Init PROVE ThrottleInv
  OBVIOUS
<1>1. FailuresTyped
  BY Limits DEF Init, FailuresTyped
<1>2. GlobalSound
  BY BoundNat DEF Init, GlobalSound, OldestFirst, SpacedOut, FailuresBounded
<1>3. \A a \in Addr : CountSound(a) /\ ToldSound(a)
  BY Limits DEF Init, CountSound, ToldSound, OldestFirst
<1>4. QED
  BY <1>1, <1>2, <1>3 DEF ThrottleInv

\* What is left of the failures when the old ones have been dropped.
LEMMA RecentFacts ==
    ASSUME ThrottleInv
    PROVE  /\ Recent \in Seq(0..Window - 1) /\ Recent \in Seq(0..Window)
           /\ OldestFirst(Recent) /\ SpacedOut(Recent)
           /\ Len(Recent) <= Threshold + (Window - 1) \div Delay
           /\ GlobalWait(Recent) \in 0..Delay
           /\ GlobalWait(Younger(Recent, Window)) = GlobalWait(Recent)
<1>1. globalFailures \in Seq(0..Window) /\ OldestFirst(globalFailures)
      /\ SpacedOut(globalFailures)
  BY DEF ThrottleInv, FailuresTyped, GlobalSound
<1>2. globalFailures \in Seq(Nat) /\ Window \in Nat
  BY <1>1, Limits
<1>3. PICK k \in 0..Len(globalFailures) :
        /\ Younger(globalFailures, Window) \in Seq(0..Window - 1)
        /\ Len(Younger(globalFailures, Window)) = Len(globalFailures) - k
        /\ OldestFirst(Younger(globalFailures, Window))
  BY <1>1, <1>2, YoungerFacts
<1>4. Recent \in Seq(0..Window - 1) /\ OldestFirst(Recent)
      /\ Len(Recent) = Len(globalFailures) - k
  BY <1>3 DEF Recent
<1>5. SpacedOut(Recent)
  BY <1>1, SpacedYounger DEF Recent
<1>6. Recent \in Seq(0..Window)
  BY <1>2, <1>4
<1>7. Len(Recent) <= Threshold + (Window - 1) \div Delay
  BY <1>1, <1>4, BoundNat DEF ThrottleInv, GlobalSound, FailuresBounded
<1>8. GlobalWait(Recent) \in 0..Delay
  BY <1>6, WaitRange
<1>9. GlobalWait(Younger(Recent, Window)) = GlobalWait(Recent)
  BY <1>1, WaitAgain DEF Recent
<1>10. QED
  BY <1>4, <1>5, <1>6, <1>7, <1>8, <1>9

LEMMA OwnWaitRange ==
    ASSUME ThrottleInv, NEW a \in Addr
    PROVE  OwnWait(a) \in 0..BlockFor
<1>1. blocked[a] \in 0..BlockFor \cup {None}
  BY DEF ThrottleInv, FailuresTyped
<1>2. QED
  BY <1>1, Limits DEF OwnWait

\* An attempt drops the old failures and nothing else of the clock.
LEMMA TrimmedWait ==
    ASSUME ThrottleInv, globalFailures' = Recent
    PROVE  GlobalSound' /\ GlobalWait(Recent)' = GlobalWait(Recent)
<1>1. PICK recent : recent = Recent
  OBVIOUS
<1>2. GlobalWait(Recent)' = GlobalWait(Younger(recent, Window))
  BY <1>1 DEF Recent
<1>3. GlobalWait(Younger(recent, Window)) = GlobalWait(recent)
  BY <1>1, RecentFacts
<1>4. OldestFirst(recent) /\ SpacedOut(recent)
      /\ Len(recent) <= Threshold + (Window - 1) \div Delay
  BY <1>1, RecentFacts
<1>5. GlobalSound'
  BY <1>1, <1>4 DEF GlobalSound, FailuresBounded
<1>6. QED
  BY <1>1, <1>2, <1>3, <1>5

LEMMA BlockedThrottle ==
    ASSUME ThrottleInv, NEW a \in Addr, Blocked(a)
    PROVE  ThrottleInv'
<1>1. /\ globalFailures' = Recent /\ UNCHANGED <<count, blocked, tries>>
      /\ \A b \in Addr \ {a} : told'[b] = told[b]
  BY DEF Blocked, ThrottleInv, FailuresTyped
<1>2. GlobalSound' /\ GlobalWait(Recent)' = GlobalWait(Recent)
  BY <1>1, TrimmedWait
<1>3. OwnWait(a) \in 0..BlockFor /\ GlobalWait(Recent) \in 0..Delay
  BY OwnWaitRange, RecentFacts
<1>4. told'[a] = CASE GlobalWait(Recent) = 0 /\ OwnWait(a) > 0 -> OwnWait(a)
                   [] OwnWait(a) = 0 /\ GlobalWait(Recent) > 0 -> GlobalWait(Recent)
                   [] OTHER -> None
  BY DEF Blocked, ThrottleInv, FailuresTyped
<1>5. /\ told'[a] \in 0..BlockFor \cup {None}
      /\ told'[a] # None => OwnWait(a) <= told'[a] /\ GlobalWait(Recent) <= told'[a]
  <2>1. PICK own \in 0..BlockFor, global \in 0..Delay : own = OwnWait(a) /\ global = GlobalWait(Recent)
    BY <1>3
  <2>2. QED
    BY <1>4, <2>1, Limits
<1>6. \A b \in Addr : OwnWait(b)' = OwnWait(b)
  BY <1>1 DEF OwnWait
<1>7. \A b \in Addr : ToldSound(b)'
  BY <1>1, <1>2, <1>5, <1>6 DEF ToldSound, ThrottleInv
<1>8. \A b \in Addr : CountSound(b)'
  BY <1>1 DEF CountSound, ThrottleInv
<1>9. FailuresTyped'
  <2>1. told' \in [Addr -> 0..BlockFor \cup {None}]
    BY <1>1, <1>5 DEF Blocked, ThrottleInv, FailuresTyped
  <2>2. QED
    BY <1>1, <2>1, RecentFacts DEF ThrottleInv, FailuresTyped
<1>10. QED
  BY <1>2, <1>7, <1>8, <1>9 DEF ThrottleInv

LEMMA RightTokenThrottle ==
    ASSUME ThrottleInv, NEW a \in Addr, RightToken(a)
    PROVE  ThrottleInv'
<1>1. /\ globalFailures' = Recent
      /\ count'[a] = 0 /\ blocked'[a] = None /\ tries'[a] = <<>> /\ told'[a] = None
      /\ \A b \in Addr \ {a} : /\ count'[b] = count[b] /\ blocked'[b] = blocked[b]
                               /\ tries'[b] = tries[b] /\ told'[b] = told[b]
  BY DEF RightToken, ThrottleInv, FailuresTyped
<1>2. GlobalSound' /\ GlobalWait(Recent)' = GlobalWait(Recent)
  BY <1>1, TrimmedWait
<1>3. \A b \in Addr \ {a} : OwnWait(b)' = OwnWait(b)
  BY <1>1 DEF OwnWait
<1>4. \A b \in Addr : ToldSound(b)'
  BY <1>1, <1>2, <1>3 DEF ToldSound, ThrottleInv
<1>5. \A b \in Addr : CountSound(b)'
  BY <1>1, Limits DEF CountSound, ThrottleInv, OldestFirst
<1>6. FailuresTyped'
  BY RecentFacts, Limits DEF RightToken, ThrottleInv, FailuresTyped
<1>7. QED
  BY <1>2, <1>4, <1>5, <1>6 DEF ThrottleInv

\* One more try, and perhaps a block.
LEMMA WrongTokenCounts ==
    ASSUME ThrottleInv, NEW a \in Addr, WrongToken(a)
    PROVE  /\ count'[a] \in 0..MaxFail /\ tries'[a] \in Seq(0..BlockFor - 1)
           /\ Len(tries'[a]) = Len(tries[a]) + 1
           /\ CountSound(a)'
<1>1. /\ count'[a] = Counted(a) + 1 /\ tries'[a] = Append(tries[a], 0)
      /\ blocked'[a] = IF Blocks(Counted(a) + 1) THEN 0 ELSE None
  BY DEF WrongToken, ThrottleInv, FailuresTyped
<1>2. /\ tries[a] \in Seq(0..BlockFor - 1) /\ blocked[a] \in 0..BlockFor \cup {None}
      /\ count[a] \in 0..MaxFail /\ CountSound(a)
  BY DEF ThrottleInv, FailuresTyped
<1>3. PICK n \in Nat : n = Len(tries[a])
  BY <1>2
<1>4. PICK before \in Seq(0..BlockFor - 1) : before = tries[a]
  BY <1>2
<1>5. PICK all : all = Append(before, 0)
  OBVIOUS
<1>6. /\ all \in Seq(0..BlockFor - 1) /\ Len(all) = n + 1
      /\ \A i \in 1..n : all[i] = before[i]
      /\ all[n + 1] = 0
  <2>1. 0 \in 0..BlockFor - 1
    BY Limits
  <2>2. QED
    BY <1>3, <1>4, <1>5, <2>1, AppendProperties
<1>7. \A i \in 1..n + 1 : all[i] \in Nat
  <2>1. all \in [1..n + 1 -> 0..BlockFor - 1]
    BY <1>6, LenProperties
  <2>2. QED
    BY <2>1
<1>8. OldestFirst(all)
  <2>1. ASSUME NEW i \in 1..n + 1, NEW j \in 1..n + 1, i <= j PROVE all[j] <= all[i]
    <3>1. CASE j = n + 1
      BY <1>6, <1>7, <2>1, <3>1
    <3>2. CASE j # n + 1
      <4>1. i \in 1..n /\ j \in 1..n
        BY <2>1, <3>2
      <4>2. before[j] <= before[i]
        BY <1>2, <1>3, <1>4, <2>1, <4>1 DEF CountSound, OldestFirst
      <4>3. QED
        BY <1>6, <4>1, <4>2
    <3>3. QED
      BY <3>1, <3>2
  <2>2. QED
    BY <1>6, <2>1 DEF OldestFirst
<1>9. n <= Counted(a) /\ Counted(a) \in 0..MaxFail - 1
  <2>1. OwnWait(a) = 0
    BY DEF WrongToken, Admitted
  <2>2. CASE blocked[a] = None
    BY <1>2, <1>3, <2>2, Limits DEF Counted, CountSound
  <2>3. CASE blocked[a] # None
    <3>1. blocked[a] = BlockFor
      BY <1>2, <2>1, <2>3, Limits DEF OwnWait
    <3>2. \A i \in 1..n : BlockFor <= before[i] /\ before[i] \in 0..BlockFor - 1
      BY <1>2, <1>3, <1>4, <2>3, <3>1 DEF CountSound
    <3>3. n = 0
      <4>1. SUFFICES ASSUME n # 0 PROVE FALSE
        OBVIOUS
      <4>2. 1 \in 1..n
        BY <4>1
      <4>3. BlockFor <= before[1] /\ before[1] \in 0..BlockFor - 1
        BY <3>2, <4>2
      <4>4. QED
        BY <4>3, Limits
    <3>4. QED
      BY <2>3, <3>3, Limits DEF Counted
  <2>4. QED
    BY <2>2, <2>3
<1>10. tries'[a] = all
  BY <1>1, <1>4, <1>5
<1>11. CountSound(a)'
  <2>1. CASE Blocks(Counted(a) + 1)
    <3>1. blocked'[a] = 0 /\ blocked'[a] # None
      BY <1>1, <2>1, Limits
    <3>2. n + 1 <= MaxFail /\ \A i \in 1..n + 1 : 0 <= all[i]
      BY <1>7, <1>9, Limits
    <3>3. QED
      BY <1>6, <1>8, <1>10, <3>1, <3>2 DEF CountSound
  <2>2. CASE ~Blocks(Counted(a) + 1)
    <3>1. blocked'[a] = None /\ Counted(a) + 1 < MaxFail
      BY <1>1, <1>9, <2>2, Limits DEF Blocks
    <3>2. n + 1 <= count'[a] /\ count'[a] < MaxFail
      BY <1>1, <1>9, <3>1
    <3>3. QED
      BY <1>6, <1>8, <1>10, <3>1, <3>2 DEF CountSound
  <2>3. QED
    BY <2>1, <2>2
<1>12. count'[a] \in 0..MaxFail
  BY <1>1, <1>9, Limits
<1>13. QED
  BY <1>3, <1>6, <1>10, <1>11, <1>12

LEMMA WrongTokenThrottle ==
    ASSUME ThrottleInv, NEW a \in Addr, WrongToken(a)
    PROVE  ThrottleInv'
<1>1. PICK recent : recent = Recent
  OBVIOUS
<1>2. /\ recent \in Seq(0..Window - 1) /\ OldestFirst(recent) /\ SpacedOut(recent)
      /\ GlobalWait(recent) = 0
  BY <1>1, RecentFacts DEF WrongToken, Admitted
<1>3. PICK all : all = Append(recent, 0)
  OBVIOUS
<1>4. /\ all \in Seq(0..Window) /\ OldestFirst(all) /\ SpacedOut(all)
      /\ Len(all) <= Threshold + (Window - 1) \div Delay
  BY <1>2, <1>3, SpacedAppend
<1>5. globalFailures' = all
  BY <1>1, <1>3 DEF WrongToken
<1>6. GlobalSound'
  BY <1>4, <1>5 DEF GlobalSound, FailuresBounded
<1>7. \A b \in Addr \ {a} : /\ count'[b] = count[b] /\ blocked'[b] = blocked[b]
                            /\ tries'[b] = tries[b] /\ told'[b] = None
  BY DEF WrongToken, ThrottleInv, FailuresTyped
<1>8. \A b \in Addr : CountSound(b)'
  BY <1>7, WrongTokenCounts DEF CountSound, ThrottleInv
<1>9. told'[a] # None => told'[a] = BlockFor /\ blocked'[a] = 0
  BY DEF WrongToken, ThrottleInv, FailuresTyped
<1>10. GlobalWait(Recent)' \in 0..Delay
  <2>1. GlobalWait(Younger(all, Window)) \in 0..Delay
    BY <1>4, WaitNow
  <2>2. QED
    BY <1>5, <2>1 DEF Recent
<1>11. ToldSound(a)'
  <2>1. SUFFICES ASSUME told'[a] # None PROVE OwnWait(a)' <= told'[a] /\ GlobalWait(Recent)' <= told'[a]
    BY DEF ToldSound
  <2>2. OwnWait(a)' = BlockFor /\ told'[a] = BlockFor
    BY <1>9, <2>1, Limits DEF OwnWait
  <2>3. QED
    BY <1>10, <2>2, Limits
<1>12. \A b \in Addr : ToldSound(b)'
  BY <1>7, <1>11 DEF ToldSound
<1>13. FailuresTyped'
  <2>1. count' = [count EXCEPT ![a] = Counted(a) + 1]
        /\ tries' = [tries EXCEPT ![a] = Append(@, 0)]
        /\ blocked' = [blocked EXCEPT ![a] = IF Blocks(Counted(a) + 1) THEN 0 ELSE None]
    BY DEF WrongToken
  <2>2. count' \in [Addr -> 0..MaxFail] /\ tries' \in [Addr -> Seq(0..BlockFor - 1)]
    BY <2>1, WrongTokenCounts DEF ThrottleInv, FailuresTyped
  <2>3. blocked' \in [Addr -> 0..BlockFor \cup {None}]
    BY <2>1, Limits DEF ThrottleInv, FailuresTyped
  <2>4. told' \in [Addr -> 0..BlockFor \cup {None}]
    BY Limits DEF WrongToken
  <2>5. QED
    BY <1>4, <1>5, <2>2, <2>3, <2>4 DEF FailuresTyped
<1>14. QED
  BY <1>6, <1>8, <1>12, <1>13 DEF ThrottleInv

\* A tick: the tries grow older, those of BlockFor ticks ago are forgotten, and
\* so are all before a block when it ends.
LEMMA TickCounts ==
    ASSUME ThrottleInv, NEW a \in Addr, Tick
    PROVE  tries'[a] \in Seq(0..BlockFor - 1) /\ CountSound(a)'
<1>1. /\ tries[a] \in Seq(0..BlockFor - 1) /\ blocked[a] \in 0..BlockFor \cup {None}
      /\ count[a] \in 0..MaxFail /\ CountSound(a)
  BY DEF ThrottleInv, FailuresTyped
<1>2. PICK before \in Seq(0..BlockFor - 1) : before = tries[a]
  BY <1>1
<1>3. PICK n \in Nat : n = Len(before)
  OBVIOUS
<1>4. PICK aged : aged = [i \in DOMAIN before |-> before[i] + 1]
  OBVIOUS
<1>5. tries'[a] = Younger(aged, BlockFor)
  BY <1>2, <1>4 DEF Tick
<1>6. /\ count'[a] = count[a]
      /\ blocked'[a] = OlderOrNone(blocked[a], BlockFor)
  BY DEF Tick
<1>7. \A i \in 1..n : before[i] \in 0..BlockFor - 1
  <2>1. before \in [1..n -> 0..BlockFor - 1]
    BY <1>3, LenProperties
  <2>2. QED
    BY <2>1
<1>8. aged = [i \in 1..n |-> before[i] + 1]
  BY <1>3, <1>4
<1>9. aged \in Seq(Nat) /\ Len(aged) = n /\ \A i \in 1..n : aged[i] = before[i] + 1
  BY <1>7, <1>8
<1>10. OldestFirst(aged)
  BY <1>1, <1>2, <1>3, <1>7, <1>9 DEF CountSound, OldestFirst
<1>11. PICK k \in 0..Len(aged) :
         /\ \A i \in 1..Len(aged) : aged[i] < BlockFor <=> i > k
         /\ Younger(aged, BlockFor) \in Seq(0..BlockFor - 1)
         /\ Len(Younger(aged, BlockFor)) = Len(aged) - k
         /\ \A j \in 1..Len(aged) - k : Younger(aged, BlockFor)[j] = aged[j + k]
         /\ OldestFirst(Younger(aged, BlockFor))
  <2>1. BlockFor \in Nat
    BY Limits
  <2>2. QED
    BY <1>9, <1>10, <2>1, YoungerFacts
<1>12. PICK later : later = Younger(aged, BlockFor)
  OBVIOUS
<1>13. /\ later \in Seq(0..BlockFor - 1) /\ OldestFirst(later)
       /\ Len(later) = n - k /\ k \in 0..n
       /\ \A j \in 1..n - k : later[j] = before[j + k] + 1 /\ before[j + k] \in Nat
  <2>1. later \in Seq(0..BlockFor - 1) /\ OldestFirst(later) /\ Len(later) = n - k
    BY <1>9, <1>11, <1>12
  <2>2. \A j \in 1..n - k : j + k \in 1..n
    OBVIOUS
  <2>3. \A j \in 1..n - k : later[j] = aged[j + k]
    BY <1>9, <1>11, <1>12
  <2>4. QED
    BY <1>7, <1>9, <1>11, <2>1, <2>2, <2>3
<1>14. tries'[a] = later
  BY <1>5, <1>12
<1>15. CASE blocked[a] = None
  <2>1. blocked'[a] = None
    BY <1>6, <1>15 DEF OlderOrNone
  <2>2. n - k <= count[a] /\ count[a] < MaxFail
    BY <1>1, <1>2, <1>3, <1>13, <1>15 DEF CountSound
  <2>3. QED
    BY <1>6, <1>13, <1>14, <2>1, <2>2 DEF CountSound
<1>16. CASE blocked[a] # None
  <2>1. PICK age \in 0..BlockFor : age = blocked[a]
    BY <1>1, <1>16
  <2>2. blocked'[a] = Older(age, BlockFor) /\ blocked'[a] # None
    BY <1>6, <1>16, <2>1, Limits DEF OlderOrNone, Older
  <2>3. n <= MaxFail /\ \A i \in 1..n : age <= before[i]
    BY <1>1, <1>2, <1>3, <1>16, <2>1 DEF CountSound
  <2>4. \A j \in 1..n - k : Older(age, BlockFor) <= later[j]
    <3>1. ASSUME NEW j \in 1..n - k PROVE Older(age, BlockFor) <= later[j]
      <4>1. j + k \in 1..n
        BY <1>13
      <4>2. age <= before[j + k] /\ later[j] = before[j + k] + 1 /\ before[j + k] \in Nat
        BY <1>13, <2>3, <4>1
      <4>3. Older(age, BlockFor) <= age + 1
        BY Limits DEF Older
      <4>4. Older(age, BlockFor) \in Nat
        BY Limits DEF Older
      <4>5. QED
        BY <4>2, <4>3, <4>4
    <3>2. QED
      BY <3>1
  <2>5. Len(later) <= MaxFail
    BY <1>13, <2>3, Limits
  <2>6. QED
    BY <1>13, <1>14, <2>2, <2>4, <2>5 DEF CountSound
<1>17. QED
  BY <1>15, <1>16

LEMMA TickThrottle ==
    ASSUME ThrottleInv, Tick
    PROVE  ThrottleInv'
<1>1. PICK ages \in Seq(0..Window) : ages = globalFailures /\ OldestFirst(ages) /\ SpacedOut(ages)
  BY DEF ThrottleInv, FailuresTyped, GlobalSound
<1>2. PICK older : older = [i \in DOMAIN ages |-> Older(ages[i], Window)]
  OBVIOUS
<1>3. globalFailures' = older
  BY <1>1, <1>2 DEF Tick
<1>4. older \in Seq(0..Window) /\ Len(older) = Len(ages) /\ OldestFirst(older) /\ SpacedOut(older)
  BY <1>1, <1>2, OlderFailures
<1>5. GlobalSound'
  BY <1>1, <1>3, <1>4 DEF GlobalSound, FailuresBounded, ThrottleInv
<1>6. PICK now, next : now = GlobalWait(Younger(ages, Window)) /\ next = GlobalWait(Younger(older, Window))
  OBVIOUS
<1>7. GlobalWait(Recent) = now /\ GlobalWait(Recent)' = next
  BY <1>1, <1>3, <1>6 DEF Recent
<1>8. (now = 0 => next = 0) /\ (now > 0 => next <= now - 1)
  BY <1>1, <1>2, <1>6, WaitShrinks
<1>9. now \in 0..Delay /\ next \in 0..Delay
  BY <1>1, <1>4, <1>6, WaitNow
<1>10. ASSUME NEW a \in Addr PROVE ToldSound(a)'
  <2>1. told'[a] = IF told[a] \in {None, 0} THEN told[a] ELSE told[a] - 1
    BY DEF Tick
  <2>2. told[a] \in 0..BlockFor \cup {None} /\ blocked[a] \in 0..BlockFor \cup {None} /\ ToldSound(a)
    BY DEF ThrottleInv, FailuresTyped
  <2>3. blocked'[a] = OlderOrNone(blocked[a], BlockFor)
    BY DEF Tick
  <2>4. SUFFICES ASSUME told'[a] # None PROVE OwnWait(a)' <= told'[a] /\ next <= told'[a]
    BY <1>7 DEF ToldSound
  <2>5. PICK wait \in 0..BlockFor : wait = told[a]
    BY <2>1, <2>2, <2>4
  <2>6. told'[a] = IF wait = 0 THEN 0 ELSE wait - 1
    BY <2>1, <2>5, Limits
  <2>7. OwnWait(a) <= wait /\ now <= wait
    BY <1>7, <2>2, <2>5, Limits DEF ToldSound
  <2>8. OwnWait(a)' <= told'[a]
    <3>1. CASE blocked[a] = None
      <4>1. blocked'[a] = None
        BY <2>3, <3>1 DEF OlderOrNone
      <4>2. OwnWait(a)' = 0
        BY <4>1 DEF OwnWait
      <4>3. QED
        BY <2>6, <4>2
    <3>2. CASE blocked[a] # None
      <4>1. PICK age \in 0..BlockFor : age = blocked[a]
        BY <2>2, <3>2
      <4>2. blocked'[a] = Older(age, BlockFor) /\ Older(age, BlockFor) # None
        BY <2>3, <3>2, <4>1, Limits DEF OlderOrNone, Older
      <4>3. OwnWait(a) = IF age < BlockFor THEN BlockFor - age ELSE 0
        BY <3>2, <4>1 DEF OwnWait
      <4>4. OwnWait(a)' = IF Older(age, BlockFor) < BlockFor
                          THEN BlockFor - Older(age, BlockFor) ELSE 0
        BY <4>2 DEF OwnWait
      <4>5. QED
        BY <2>6, <2>7, <4>3, <4>4, Limits DEF Older
    <3>3. QED
      BY <3>1, <3>2
  <2>9. next <= told'[a]
    BY <1>8, <1>9, <2>6, <2>7, Limits
  <2>10. QED
    BY <2>8, <2>9
<1>11. FailuresTyped'
  <2>1. count' = count /\ count \in [Addr -> 0..MaxFail]
    BY DEF Tick, ThrottleInv, FailuresTyped
  <2>2. blocked' \in [Addr -> 0..BlockFor \cup {None}]
    <3>1. \A age \in 0..BlockFor \cup {None} : OlderOrNone(age, BlockFor) \in 0..BlockFor \cup {None}
      BY Limits DEF OlderOrNone, Older
    <3>2. QED
      BY <3>1 DEF Tick, ThrottleInv, FailuresTyped
  <2>3. tries' \in [Addr -> Seq(0..BlockFor - 1)]
    <3>1. \A a \in Addr : tries'[a] \in Seq(0..BlockFor - 1)
      BY TickCounts
    <3>2. tries' = [a \in Addr |-> tries'[a]]
      BY DEF Tick
    <3>3. QED
      BY <3>1, <3>2
  <2>4. told' \in [Addr -> 0..BlockFor \cup {None}]
    <3>1. \A w \in 0..BlockFor \cup {None} :
            (IF w \in {None, 0} THEN w ELSE w - 1) \in 0..BlockFor \cup {None}
      BY Limits
    <3>2. QED
      BY <3>1 DEF Tick, ThrottleInv, FailuresTyped
  <2>5. QED
    BY <1>3, <1>4, <2>1, <2>2, <2>3, <2>4 DEF FailuresTyped
<1>12. QED
  BY <1>5, <1>10, <1>11, TickCounts DEF ThrottleInv

LEMMA StepThrottle == ThrottleInv /\ [Next]_vars => ThrottleInv'
<1> SUFFICES ASSUME ThrottleInv, [Next]_vars PROVE ThrottleInv'
  OBVIOUS
<1>1. ASSUME UNCHANGED <<globalFailures, count, blocked, tries, told>> PROVE ThrottleInv'
  BY <1>1 DEF ThrottleInv, FailuresTyped, GlobalSound, FailuresBounded, CountSound, ToldSound,
              OwnWait, Recent
<1>2. ASSUME NEW a \in Addr, Create(a) PROVE ThrottleInv'
  BY <1>1, <1>2 DEF Create
<1>3. ASSUME NEW s \in Id, Logout(s) PROVE ThrottleInv'
  BY <1>1, <1>3 DEF Logout
<1>4. ASSUME NEW r \in Request, Arrive(r) \/ Lookup(r) \/ Judge(r) \/ Delete(r)
      PROVE  ThrottleInv'
  BY <1>1, <1>4 DEF Arrive, Lookup, Judge, Delete, SessionRead
<1>5. CASE UNCHANGED vars
  BY <1>1, <1>5 DEF vars
<1>6. QED
  BY <1>2, <1>3, <1>4, <1>5, TickThrottle, BlockedThrottle, RightTokenThrottle,
     WrongTokenThrottle DEF Next

(***************************************************************************)
(* The inductive invariant of the throttle of validateLogin: recent         *)
(* failures beyond the threshold lie Delay apart, a block began after every *)
(* try that is remembered, and what an address was told covers its waits.   *)
(***************************************************************************)
THEOREM ThrottleSound == Spec => []ThrottleInv
<1>1. QED
  BY InitThrottle, StepThrottle, PTL DEF Spec

(***************************************************************************)
(* No address has more than maxLoginFailures wrong tokens looked at in any  *)
(* loginBlockDur without a right one among them.                            *)
(***************************************************************************)
THEOREM TriesThrottled == Spec => []Throttled
<1>1. ThrottleInv => Throttled
  <2>1. ASSUME ThrottleInv, NEW a \in Addr PROVE Len(tries[a]) <= MaxFail
    <3>1. CountSound(a) /\ count[a] \in 0..MaxFail /\ tries[a] \in Seq(0..BlockFor - 1)
      BY <2>1 DEF ThrottleInv, FailuresTyped
    <3>2. QED
      BY <3>1, Limits DEF CountSound
  <2>2. QED
    BY <2>1 DEF Throttled
<1>2. QED
  BY ThrottleSound, <1>1, PTL

(***************************************************************************)
(* The list of failures that validateLogin keeps is bounded, whatever the   *)
(* number of addresses and of attempts.                                     *)
(***************************************************************************)
THEOREM ListBounded == Spec => []FailuresBounded
<1>1. ThrottleInv => FailuresBounded
  BY DEF ThrottleInv, GlobalSound
<1>2. QED
  BY ThrottleSound, <1>1, PTL

(***************************************************************************)
(* Who has waited as long as the answer of validateLogin said is not told   *)
(* to wait again, unless there was a failure meanwhile.                     *)
(***************************************************************************)
THEOREM WaitSuffices == Spec => WaitIsEnough
<1>1. ThrottleInv /\ [Next]_vars =>
        [\A a \in Addr : told[a] = 0 => told'[a] \in {0, None} \/ tries'[a] # tries[a]]_told
  <2>1. SUFFICES ASSUME ThrottleInv, Next, NEW a \in Addr, told[a] = 0
                 PROVE  told'[a] \in {0, None} \/ tries'[a] # tries[a]
    BY DEF vars
  <2>2. told \in [Addr -> 0..BlockFor \cup {None}] /\ None # 0
    BY <2>1, Limits DEF ThrottleInv, FailuresTyped
  <2>3. CASE Tick
    BY <2>1, <2>3 DEF Tick
  <2>4. ASSUME NEW b \in Addr, Blocked(b) PROVE told'[a] = 0
    <3>1. CASE a = b
      <4>1. OwnWait(a) <= 0 /\ GlobalWait(Recent) <= 0
        BY <2>1, <2>2 DEF ThrottleInv, ToldSound
      <4>2. OwnWait(a) = 0 /\ GlobalWait(Recent) = 0
        BY <2>1, <4>1, OwnWaitRange, RecentFacts, Limits
      <4>3. GlobalWait(Recent) + OwnWait(a) > 0
        BY <2>4, <3>1 DEF Blocked
      <4>4. QED
        BY <4>2, <4>3
    <3>2. CASE a # b
      BY <2>1, <2>2, <2>4, <3>2 DEF Blocked
    <3>3. QED
      BY <3>1, <3>2
  <2>5. ASSUME NEW b \in Addr, RightToken(b) PROVE told'[a] \in {0, None}
    BY <2>1, <2>2, <2>5 DEF RightToken
  <2>6. ASSUME NEW b \in Addr, WrongToken(b) PROVE told'[a] = None \/ tries'[a] # tries[a]
    <3>1. CASE a = b
      <4>1. Len(tries'[a]) = Len(tries[a]) + 1 /\ Len(tries[a]) \in Nat
        BY <2>1, <2>6, <3>1, WrongTokenCounts DEF ThrottleInv, FailuresTyped
      <4>2. QED
        BY <4>1
    <3>2. CASE a # b
      BY <2>6, <3>2 DEF WrongToken
    <3>3. QED
      BY <3>1, <3>2
  <2>7. ASSUME NEW b \in Addr, Create(b) PROVE told'[a] = 0
    BY <2>1, <2>7 DEF Create
  <2>8. ASSUME NEW s \in Id, Logout(s) PROVE told'[a] = 0
    BY <2>1, <2>8 DEF Logout
  <2>9. ASSUME NEW r \in Request, Arrive(r) \/ Lookup(r) \/ Judge(r) \/ Delete(r)
        PROVE  told'[a] = 0
    BY <2>1, <2>9 DEF Arrive, Lookup, Judge, Delete, SessionRead
  <2>10. QED
    BY <2>1, <2>3, <2>4, <2>5, <2>6, <2>7, <2>8, <2>9 DEF Next
<1>2. QED
  BY ThrottleSound, <1>1, PTL DEF Spec, WaitIsEnough
=============================================================================
