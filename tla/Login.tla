-------------------------------- MODULE Login --------------------------------
(***************************************************************************)
(* Logging in to containerctl serve: internal/web/auth.go and the login and *)
(* logout handlers.  validateLogin runs under failMu and slows guessing     *)
(* down per address and over all addresses; the sessions are a map under mu *)
(* which valid reads and cleans in two steps.                               *)
(*                                                                          *)
(* Every duration is an age in ticks, kept up to the last value that the    *)
(* code tells apart.                                                        *)
(***************************************************************************)
EXTENDS Integers, SequencesExt

CONSTANTS Addr,       \* client addresses
          Window,     \* 10 minutes: how long a failure counts for everyone
          Threshold,  \* 25: failures in Window after which everyone is slowed
          Delay,      \* 3 seconds between attempts then
          MaxFail,    \* maxLoginFailures
          BlockFor,   \* loginBlockDur
          Id,         \* bound: session ids that are drawn
          Ttl,        \* the lifetime of a session
          Request,    \* requests with a session cookie under way at once
          None

ASSUME LoginAssumption ==
    /\ Window \in Nat /\ Threshold \in Nat \ {0} /\ MaxFail \in Nat \ {0} /\ Ttl \in Nat
    /\ Delay \in Nat \ {0} /\ BlockFor \in Nat \ {0}
    /\ Delay <= BlockFor /\ BlockFor <= Window
    /\ None \notin Id \cup Int

VARIABLES globalFailures, \* the ages of failed attempts from anywhere, oldest first
          count,          \* failed attempts of each address
          blocked,        \* the age of an address's block, or None
          passed,         \* addresses whose token was right, not yet logged in
          sessions,       \* the store: the age of each session, or None
          fresh,          \* ids that have not been drawn
          request,        \* a request: its session and where valid stands
          ended,          \* sessions that are over: logged out or too old
          tries,          \* ages below BlockFor of an address's wrong tokens
          told            \* what is left of the wait an address was told

vars == <<globalFailures, count, blocked, passed, sessions, fresh, request, ended, tries, told>>

Points == {"none", "lookup", "judge", "delete", "served", "refused"}

TypeOK ==
    /\ globalFailures \in Seq(0..Window)
    /\ count \in [Addr -> 0..MaxFail]
    /\ blocked \in [Addr -> 0..BlockFor \cup {None}]
    /\ passed \subseteq Addr
    /\ sessions \in [Id -> 0..(Ttl + 1) \cup {None}]
    /\ fresh \subseteq Id
    /\ request \in [Request -> [id : Id \cup {None}, at : Points,
                                age : 0..(Ttl + 1), live : SUBSET BOOLEAN]]
    /\ ended \subseteq Id
    /\ tries \in [Addr -> Seq(0..(BlockFor - 1))]
    /\ told \in [Addr -> 0..BlockFor \cup {None}]

Idle == [id |-> None, at |-> "none", age |-> 0, live |-> {}]

Init ==
    /\ globalFailures = <<>>
    /\ count = [a \in Addr |-> 0] /\ blocked = [a \in Addr |-> None]
    /\ passed = {}
    /\ sessions = [s \in Id |-> None] /\ fresh = Id
    /\ request = [r \in Request |-> Idle]
    /\ ended = {} /\ tries = [a \in Addr |-> <<>>] /\ told = [a \in Addr |-> None]

-----------------------------------------------------------------------------
\* What a request has seen of its session while it was under way.
UnderWay(r) == request[r].at \in {"lookup", "judge", "delete"}
Witness(requests, over) ==
    [r \in Request |-> IF requests[r].at \in {"lookup", "judge", "delete"}
                       THEN [requests[r] EXCEPT !.live = @ \cup {requests[r].id \notin over}]
                       ELSE requests[r]]

\* A loop that keeps the ages below cap, in order.  (Not SelectSeq, which the
\* prover has no definition of.)
Younger(ages, cap) ==
    LET filtered[i \in 0..Len(ages)] ==
          IF i = 0 THEN <<>>
          ELSE IF ages[i] < cap THEN Append(filtered[i - 1], ages[i]) ELSE filtered[i - 1]
    IN  filtered[Len(ages)]

Older(age, cap) == IF age < cap THEN age + 1 ELSE cap
OlderOrNone(age, cap) == IF age = None THEN None ELSE Older(age, cap)

Tick ==
    /\ globalFailures' = [i \in DOMAIN globalFailures |-> Older(globalFailures[i], Window)]
    /\ blocked' = [a \in Addr |-> OlderOrNone(blocked[a], BlockFor)]
    /\ sessions' = [s \in Id |-> OlderOrNone(sessions[s], Ttl + 1)]
    /\ ended' = ended \cup {s \in Id : sessions'[s] # None /\ sessions'[s] > Ttl}
    /\ request' = Witness([r \in Request |->
                             [request[r] EXCEPT !.age = IF request[r].at = "judge"
                                                        THEN Older(@, Ttl + 1) ELSE @]],
                          ended')
    /\ tries' = [a \in Addr |->
                   Younger([i \in DOMAIN tries[a] |-> tries[a][i] + 1], BlockFor)]
    /\ told' = [a \in Addr |-> IF told[a] \in {None, 0} THEN told[a] ELSE told[a] - 1]
    /\ UNCHANGED <<count, passed, fresh>>

-----------------------------------------------------------------------------
Recent == Younger(globalFailures, Window)

\* Mutant: the delay is counted from the first failure.
GlobalWaitFirst(recent) ==
    IF Len(recent) >= Threshold /\ Head(recent) < Delay THEN Delay - Head(recent) ELSE 0

\* What is left of the wait between two attempts, when there were many.
GlobalWait(recent) ==
    IF Len(recent) >= Threshold /\ Last(recent) < Delay THEN Delay - Last(recent) ELSE 0

\* Mutant: an address is let in again a tick too late.
OwnWaitLate(a) == IF blocked[a] # None THEN BlockFor - blocked[a] + 1 ELSE 0

OwnWait(a) ==
    IF blocked[a] # None /\ blocked[a] < BlockFor THEN BlockFor - blocked[a] ELSE 0

\* The failures that count: a block that has ended clears them.
Counted(a) == IF blocked[a] # None THEN 0 ELSE count[a]

\* Mutant: the block begins a failure late.
BlocksLate(n) == n > MaxFail

Blocks(n) == n >= MaxFail

\* validateLogin answers "blocked" and the login page shows the wait.  (When
\* the answer is the delay for everyone, the address's own block may be
\* longer: that wait is no promise.)
Blocked(a) ==
    /\ globalFailures' = Recent
    /\ LET global == GlobalWait(Recent)
           own    == OwnWait(a)
       IN  /\ global + own > 0
           /\ told' = [told EXCEPT ![a] = CASE global = 0 /\ own > 0 -> own
                                            [] own = 0 /\ global > 0 -> global
                                            [] OTHER -> None]
    /\ UNCHANGED <<count, blocked, passed, sessions, fresh, request, ended, tries>>

Admitted(a) == GlobalWait(Recent) = 0 /\ OwnWait(a) = 0

\* The bounds: ids are left, and an address logs in once at a time.
RightToken(a) ==
    /\ Admitted(a) /\ a \notin passed /\ fresh # {}
    /\ globalFailures' = Recent
    /\ count' = [count EXCEPT ![a] = 0]
    /\ blocked' = [blocked EXCEPT ![a] = None]
    /\ passed' = passed \cup {a}
    /\ tries' = [tries EXCEPT ![a] = <<>>]
    /\ told' = [told EXCEPT ![a] = None]
    /\ UNCHANGED <<sessions, fresh, request, ended>>

\* A failure may make everybody wait again.
WrongToken(a) ==
    /\ Admitted(a)
    /\ globalFailures' = Append(Recent, 0)
    /\ count' = [count EXCEPT ![a] = Counted(a) + 1]
    /\ blocked' = [blocked EXCEPT ![a] = IF Blocks(Counted(a) + 1) THEN 0 ELSE None]
    /\ tries' = [tries EXCEPT ![a] = Append(@, 0)]
    /\ told' = [b \in Addr |-> IF b = a /\ Blocks(Counted(a) + 1) THEN BlockFor ELSE None]
    /\ UNCHANGED <<passed, sessions, fresh, request, ended>>

\* create: the id is 32 random bytes.
Create(a) ==
    /\ a \in passed /\ passed' = passed \ {a}
    /\ \E s \in fresh :
          /\ fresh' = fresh \ {s}
          /\ sessions' = [sessions EXCEPT ![s] = 0]
    /\ UNCHANGED <<globalFailures, count, blocked, request, ended, tries, told>>

-----------------------------------------------------------------------------
\* Mutant: logging out clears the cookie only.
ForgetNone(s) == sessions

\* delete
Forget(s) == [sessions EXCEPT ![s] = None]

Logout(s) ==
    /\ s \notin fresh
    /\ sessions' = Forget(s)
    /\ ended' = ended \cup {s}
    /\ request' = Witness(request, ended')
    /\ UNCHANGED <<globalFailures, count, blocked, passed, fresh, tries, told>>

SessionRead == <<globalFailures, count, blocked, passed, fresh, ended, tries, told>>
Answer(r, answer) == request' = [request EXCEPT ![r].at = answer, ![r].age = 0]

\* protected: a request arrives with the cookie of a session.
Arrive(r) ==
    /\ ~UnderWay(r)
    /\ \E s \in Id \ fresh :
          request' = [request EXCEPT ![r] = [id |-> s, at |-> "lookup", age |-> 0,
                                             live |-> {s \notin ended}]]
    /\ UNCHANGED <<SessionRead, sessions>>

Lookup(r) ==
    /\ request[r].at = "lookup"
    /\ IF sessions[request[r].id] = None
       THEN Answer(r, "refused")
       ELSE request' = [request EXCEPT ![r].at = "judge", ![r].age = sessions[request[r].id]]
    /\ UNCHANGED <<SessionRead, sessions>>

\* The entry that was read is judged after the lock is gone.
Judge(r) ==
    /\ request[r].at = "judge"
    /\ IF request[r].age > Ttl THEN request' = [request EXCEPT ![r].at = "delete"]
                               ELSE Answer(r, "served")
    /\ UNCHANGED <<SessionRead, sessions>>

Delete(r) ==
    /\ request[r].at = "delete"
    /\ sessions' = Forget(request[r].id)
    /\ Answer(r, "refused")
    /\ UNCHANGED SessionRead

Next ==
    \/ Tick
    \/ \E a \in Addr : Blocked(a) \/ RightToken(a) \/ WrongToken(a) \/ Create(a)
    \/ \E s \in Id : Logout(s)
    \/ \E r \in Request : Arrive(r) \/ Lookup(r) \/ Judge(r) \/ Delete(r)

Spec == Init /\ [][Next]_vars

-----------------------------------------------------------------------------
(***************************************************************************)
(* README.md:223: "5 failures, then a 30s block".  However failures, blocks *)
(* and the clock fall, no address has more than MaxFail wrong tokens looked *)
(* at in any BlockFor ticks without a right one among them.                 *)
(***************************************************************************)
Throttled == \A a \in Addr : Len(tries[a]) <= MaxFail

(***************************************************************************)
(* globalFailures stays bounded, whatever the number of addresses: beyond   *)
(* Threshold there is a failure every Delay ticks of a Window at most.      *)
(***************************************************************************)
FailuresBounded == Len(globalFailures) <= Threshold + (Window - 1) \div Delay

(***************************************************************************)
(* Who waits as long as validateLogin said, while nobody fails, is not told *)
(* to wait again: neither by its own block nor by the delay for everyone.   *)
(***************************************************************************)
WaitIsEnough ==
    [][\A a \in Addr : told[a] = 0 => told'[a] \in {0, None} \/ tries'[a] # tries[a]]_told

(***************************************************************************)
(* The answer of valid is right for some moment of the request, although it *)
(* reads and deletes under two locks: nobody is served whose session was    *)
(* over before the request came, or refused whose session never ended.      *)
(***************************************************************************)
AnswersWereTrue ==
    \A r \in Request :
        /\ request[r].at = "served"  => TRUE \in request[r].live
        /\ request[r].at = "refused" => FALSE \in request[r].live
=============================================================================
