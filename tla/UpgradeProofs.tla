---------------------------- MODULE UpgradeProofs ----------------------------
(***************************************************************************)
(* Proofs about Upgrade, for any number of overlapping upgrades, releases   *)
(* and faults, on Unix and on Windows.                                      *)
(***************************************************************************)
EXTENDS Upgrade, TLAPS

\* Who runs is in use under the name its executable has by now, and that name
\* is there; what is about to be put in place is a whole build.
ProcSound(p) ==
    /\ at[p] # "none" => image[p] \in {"dest", "old"}
    /\ image[p] = "dest" => dest # None
    /\ at[p] \in {"judge", "get", "write"} => rel[p] \in Release
    /\ at[p] \in {"write", "verify"} => temp[p] # None
    /\ at[p] \in {"swap", "clear", "aside", "movein"} => temp[p] \in Build
    /\ at[p] \in {"clear", "aside", "movein", "back", "clean"} => os = "windows"

DestSound ==
    dest = None => /\ os = "windows" /\ old # None
                   /\ torn \/ \E p \in Proc : at[p] \in {"movein", "back"}

UpgradeInv == TypeOK /\ (\A p \in Proc : ProcSound(p)) /\ DestSound

-----------------------------------------------------------------------------
LEMMA InitUpgrade == Init => UpgradeInv
<1> SUFFICES ASSUME Init PROVE UpgradeInv
  OBVIOUS
<1>1. TypeOK
  <2>1. devel \in 1..Commits \cup {None} /\ changes \in 0..MaxReleases /\ faults \in 0..MaxFaults
    BY UpgradeAssumption DEF Init
  <2>2. latest \in Published /\ dest \in Build \cup {None} /\ os \in {"unix", "windows"}
    BY DEF Init
  <2>3. ask \in [Proc -> Asks] /\ at \in [Proc -> Points]
    BY DEF Init, Asks, Points
  <2>4. QED
    BY <2>1, <2>2, <2>3 DEF Init, TypeOK
<1>2. \A p \in Proc : ProcSound(p)
  BY DEF Init, ProcSound
<1>3. DestSound
  BY BuildAssumption DEF Init, DestSound
<1>4. QED
  BY <1>1, <1>2, <1>3 DEF UpgradeInv

\* A step of one process that leaves the files alone, or puts a build in place.
LEMMA OneUpgrades ==
    ASSUME UpgradeInv, NEW p \in Proc, TypeOK', ProcSound(p)', DestSound',
           dest' # None \/ dest' = dest, os' = os,
           \A q \in Proc \ {p} : /\ at'[q] = at[q] /\ image'[q] = image[q]
                                 /\ rel'[q] = rel[q] /\ temp'[q] = temp[q]
    PROVE  UpgradeInv'
<1>1. ASSUME NEW q \in Proc \ {p} PROVE ProcSound(q)'
  <2>1. ProcSound(q)
    BY DEF UpgradeInv
  <2>2. QED
    BY <2>1 DEF ProcSound
<1>2. QED
  BY <1>1 DEF UpgradeInv

LEMMA ExitUpgrade ==
    ASSUME UpgradeInv, NEW p \in Proc, Exit(p), UNCHANGED <<os, github>>,
           dest' \in Build \cup {None}, dest' # None \/ dest' = dest,
           old' \in Build \cup {None}, dest' = None => old' = old,
           faults' \in 0..MaxFaults, torn' \in BOOLEAN, torn => torn',
           at[p] \in {"movein", "back"} => torn' \/ dest' # None
    PROVE  UpgradeInv'
<1>1. TypeOK
  BY DEF UpgradeInv
<1>2. TypeOK'
  BY <1>1 DEF TypeOK, Exit, Goto, Points, Asks, github
<1>3. at'[p] = "none" /\ image'[p] = "none"
  BY <1>1 DEF TypeOK, Exit, Goto
<1>4. \A q \in Proc \ {p} : /\ at'[q] = at[q] /\ image'[q] = image[q]
                            /\ rel'[q] = rel[q] /\ temp'[q] = temp[q]
  BY <1>1 DEF TypeOK, Exit, Goto
<1>5. ProcSound(p)'
  BY <1>3 DEF ProcSound
<1>6. DestSound'
  <2>1. SUFFICES ASSUME dest' = None PROVE DestSound'
    BY DEF DestSound
  <2>2. dest = None /\ os' = "windows" /\ old' # None
    BY <2>1 DEF UpgradeInv, DestSound
  <2>3. CASE torn
    BY <2>2, <2>3 DEF DestSound
  <2>4. CASE ~torn
    <3>1. PICK q \in Proc : at[q] \in {"movein", "back"}
      BY <2>2, <2>4 DEF UpgradeInv, DestSound
    <3>2. CASE q = p
      BY <2>1, <2>2, <3>1, <3>2 DEF DestSound
    <3>3. CASE q # p
      BY <1>4, <2>2, <3>1, <3>3 DEF DestSound
    <3>4. QED
      BY <3>2, <3>3
  <2>5. QED
    BY <2>3, <2>4
<1>7. QED
  BY <1>2, <1>4, <1>5, <1>6, OneUpgrades

\* A process goes on, with the files as they are.
LEMMA GotoUpgrade ==
    ASSUME UpgradeInv, NEW p \in Proc, NEW point \in Points, Goto(p, point),
           at[p] \notin {"movein", "back"},
           UNCHANGED <<os, github, dest, torn>>, old' \in Build \cup {None},
           dest = None => old' = old, faults' \in 0..MaxFaults,
           ask' \in [Proc -> Asks], self' \in [Proc -> Build \cup {None}],
           NEW name \in {"dest", "old"}, image' = [image EXCEPT ![p] = name],
           name = "dest" => dest # None,
           NEW release \in Release \cup {None}, rel' = [rel EXCEPT ![p] = release],
           NEW file \in Build \cup {Partial, None}, temp' = [temp EXCEPT ![p] = file],
           point \in {"judge", "get", "write"} => release \in Release,
           point \in {"write", "verify"} => file # None,
           point \in {"swap", "clear", "aside", "movein"} => file \in Build,
           point \in {"clear", "aside", "movein", "back", "clean"} => os = "windows"
    PROVE  UpgradeInv'
<1>1. TypeOK
  BY DEF UpgradeInv
<1>2. TypeOK'
  BY <1>1 DEF TypeOK, Goto, github
<1>3. at'[p] = point /\ image'[p] = name /\ rel'[p] = release /\ temp'[p] = file
  BY <1>1 DEF TypeOK, Goto
<1>4. \A q \in Proc \ {p} : /\ at'[q] = at[q] /\ image'[q] = image[q]
                            /\ rel'[q] = rel[q] /\ temp'[q] = temp[q]
  BY <1>1 DEF TypeOK, Goto
<1>5. ProcSound(p)'
  BY <1>3 DEF ProcSound
<1>6. DestSound'
  <2>1. SUFFICES ASSUME dest = None PROVE DestSound'
    BY DEF DestSound
  <2>2. os = "windows" /\ old # None /\ (torn \/ \E q \in Proc : at[q] \in {"movein", "back"})
    BY <2>1 DEF UpgradeInv, DestSound
  <2>3. (\E q \in Proc : at[q] \in {"movein", "back"})
           => \E q \in Proc : at'[q] \in {"movein", "back"}
    BY <1>4
  <2>4. QED
    BY <2>1, <2>2, <2>3 DEF DestSound
<1>7. QED
  BY <1>2, <1>4, <1>5, <1>6, OneUpgrades

\* What stays as it is when a process goes on.
LEMMA Keeps ==
    ASSUME UpgradeInv, NEW p \in Proc
    PROVE  /\ image = [image EXCEPT ![p] = image[p]] /\ rel = [rel EXCEPT ![p] = rel[p]]
           /\ temp = [temp EXCEPT ![p] = temp[p]]
           /\ rel[p] \in Release \cup {None} /\ temp[p] \in Build \cup {Partial, None}
           /\ at[p] # "none" => image[p] \in {"dest", "old"}
           /\ image[p] = "dest" => dest # None
           /\ ask \in [Proc -> Asks] /\ self \in [Proc -> Build \cup {None}]
           /\ dest \in Build \cup {None} /\ old \in Build \cup {None}
           /\ faults \in 0..MaxFaults /\ torn \in BOOLEAN /\ ProcSound(p)
           /\ DestSound
BY DEF UpgradeInv, TypeOK, ProcSound

LEMMA WantedBuilds ==
    ASSUME UpgradeInv, NEW p \in Proc
    PROVE  Wanted(p) \in Build \cup {None}
<1>1. latest \in Published /\ devel \in 1..Commits \cup {None} /\ ask[p] \in Asks
  BY DEF UpgradeInv, TypeOK
<1>2. CASE OnDevel(p)
  BY <1>1, <1>2 DEF Wanted, Build
<1>3. CASE ~OnDevel(p)
  <2>1. ask[p] # Stable => ask[p] \in Published
    BY <1>1, <1>3 DEF OnDevel, Asks
  <2>2. QED
    BY <1>1, <1>3, <2>1 DEF Wanted, Build
<1>4. QED
  BY <1>2, <1>3

LEMMA StartUpgrade ==
    ASSUME UpgradeInv, NEW p \in Proc, Start(p)
    PROVE  UpgradeInv'
<1>1. /\ at[p] = "none" /\ dest # None /\ Goto(p, "fetch")
      /\ image' = [image EXCEPT ![p] = "dest"]
      /\ UNCHANGED <<os, github, files, rel, temp, faults, torn>>
  BY DEF Start
<1>2. ask' \in [Proc -> Asks] /\ self' \in [Proc -> Build \cup {None}]
  BY Keeps DEF Start
<1>3. "fetch" \in Points
  BY DEF Points
<1>4. PICK release \in Release \cup {None} : release = rel[p]
  BY Keeps
<1>5. PICK file \in Build \cup {Partial, None} : file = temp[p]
  BY Keeps
<1>6. rel' = [rel EXCEPT ![p] = release] /\ temp' = [temp EXCEPT ![p] = file]
  BY <1>1, <1>4, <1>5, Keeps
<1>7. dest' = dest /\ old' = old /\ UNCHANGED <<os, github, dest, torn>>
      /\ old' \in Build \cup {None} /\ faults' \in 0..MaxFaults
  BY <1>1, Keeps DEF files
<1>8. PICK point \in Points : point = "fetch"
  BY <1>3
<1>9. PICK name \in {"dest", "old"} : name = "dest"
  OBVIOUS
<1>10. Goto(p, point) /\ image' = [image EXCEPT ![p] = name] /\ at[p] \notin {"movein", "back"}
  BY <1>1, <1>8, <1>9
<1>11. /\ point \notin {"judge", "get", "write", "verify", "swap", "clear", "aside",
                       "movein", "back", "clean"}
       /\ (name = "dest" => dest # None)
  BY <1>1, <1>8
<1>12. QED
  BY <1>2, <1>6, <1>7, <1>10, <1>11, GotoUpgrade

\* Steps that end, or change at most what the process has read.
LEMMA FetchUpgrade ==
    ASSUME UpgradeInv, NEW p \in Proc, Fetch(p)
    PROVE  UpgradeInv'
<1>1. at[p] = "fetch" /\ UNCHANGED <<os, github, files, faults, torn>>
  BY DEF Fetch
<1>2. dest' = dest /\ old' = old
  BY <1>1 DEF files
<1>3. CASE Wanted(p) = None
  <2>1. Exit(p)
    BY <1>3 DEF Fetch
  <2>2. QED
    BY <1>1, <1>2, <2>1, Keeps, ExitUpgrade
<1>4. CASE Wanted(p) # None
  <2>1. PICK commit \in BOOLEAN, digest \in BOOLEAN :
          rel' = [rel EXCEPT ![p] = [build |-> Wanted(p), commit |-> commit, digest |-> digest]]
    BY <1>4 DEF Fetch
  <2>2. PICK release : release = [build |-> Wanted(p), commit |-> commit, digest |-> digest]
    OBVIOUS
  <2>3. release \in Release /\ rel' = [rel EXCEPT ![p] = release]
    BY <1>4, <2>1, <2>2, WantedBuilds DEF Release
  <2>4. Goto(p, "judge") /\ UNCHANGED <<ask, self, image, temp>> /\ "judge" \in Points
    BY <1>4 DEF Fetch, Points
  <2>5. PICK name \in {"dest", "old"} : name = image[p]
    BY <1>1, Keeps
  <2>6. PICK file \in Build \cup {Partial, None} : file = temp[p]
    BY Keeps
  <2>7. image' = [image EXCEPT ![p] = name] /\ temp' = [temp EXCEPT ![p] = file]
        /\ (name = "dest" => dest # None)
    BY <2>4, <2>5, <2>6, Keeps
  <2>8. /\ UNCHANGED <<os, github, dest, torn>> /\ old' \in Build \cup {None}
        /\ (dest = None => old' = old) /\ faults' \in 0..MaxFaults
        /\ ask' \in [Proc -> Asks] /\ self' \in [Proc -> Build \cup {None}]
        /\ at[p] \notin {"movein", "back"}
    BY <1>1, <1>2, <2>4, Keeps
  <2>9. PICK point \in Points : point = "judge"
    BY <2>4
  <2>10. PICK chosen \in Release \cup {None} : chosen = release
    BY <2>3
  <2>11. /\ Goto(p, point) /\ rel' = [rel EXCEPT ![p] = chosen] /\ chosen \in Release
         /\ point \notin {"write", "verify", "swap", "clear", "aside", "movein", "back", "clean"}
    BY <2>3, <2>4, <2>9, <2>10
  <2>12. QED
    BY <2>7, <2>8, <2>11, GotoUpgrade
<1>5. QED
  BY <1>3, <1>4

\* A process goes on and keeps its image, and perhaps writes its file.
LEMMA WriteUpgrade ==
    ASSUME UpgradeInv, NEW p \in Proc, NEW point \in Points, Goto(p, point),
           at[p] \in {"judge", "get", "write", "verify", "clear"},
           UNCHANGED <<os, github, dest, torn, ask, self, image, rel>>,
           old' \in Build \cup {None}, dest = None => old' = old, faults' \in 0..MaxFaults,
           NEW file \in Build \cup {Partial, None}, temp' = [temp EXCEPT ![p] = file],
           point \in {"get", "write", "verify", "swap", "clear", "aside"},
           point \in {"get", "write"} => at[p] \in {"judge", "get"},
           point \in {"write", "verify"} => file # None,
           point \in {"swap", "clear", "aside"} => file \in Build,
           point \in {"clear", "aside"} => os = "windows"
    PROVE  UpgradeInv'
<1>1. PICK name \in {"dest", "old"} : name = image[p]
  BY Keeps
<1>2. PICK release \in Release \cup {None} : release = rel[p]
  BY Keeps
<1>3. /\ image' = [image EXCEPT ![p] = name] /\ rel' = [rel EXCEPT ![p] = release]
      /\ (name = "dest" => dest # None)
  BY <1>1, <1>2, Keeps
<1>4. point \in {"judge", "get", "write"} => release \in Release
  BY <1>2, Keeps DEF ProcSound
<1>5. ask' \in [Proc -> Asks] /\ self' \in [Proc -> Build \cup {None}]
      /\ at[p] \notin {"movein", "back"}
  BY Keeps
<1>6. QED
  BY <1>3, <1>4, <1>5, GotoUpgrade
LEMMA FaultCounted ==
    ASSUME UpgradeInv, faults < MaxFaults, faults' = faults + 1
    PROVE  faults' \in 0..MaxFaults
BY UpgradeAssumption DEF UpgradeInv, TypeOK

LEMMA EndUpgrade ==
    ASSUME UpgradeInv, NEW p \in Proc, Exit(p), at[p] \notin {"movein", "back"},
           UNCHANGED <<os, github, files, torn>>, faults' \in 0..MaxFaults
    PROVE  UpgradeInv'
<1>1. dest' = dest /\ old' = old /\ UNCHANGED <<os, github>> /\ torn' = torn
  BY DEF files
<1>2. dest' \in Build \cup {None} /\ old' \in Build \cup {None} /\ torn' \in BOOLEAN
  BY <1>1, Keeps
<1>3. QED
  BY <1>1, <1>2, ExitUpgrade

LEMMA JudgeUpgrade ==
    ASSUME UpgradeInv, NEW p \in Proc, Judge(p)
    PROVE  UpgradeInv'
<1>1. at[p] = "judge" /\ UNCHANGED <<os, github, files, faults, torn>>
  BY DEF Judge
<1>2. CASE Exit(p)
  <2>1. UNCHANGED <<os, github, files, torn>> /\ faults' \in 0..MaxFaults
    BY <1>1, Keeps
  <2>2. QED
    BY <1>1, <1>2, <2>1, EndUpgrade
<1>3. CASE Goto(p, "get") /\ UNCHANGED Process
  <2>1. /\ UNCHANGED <<os, github, dest, torn, ask, self, image, rel>> /\ temp' = temp
        /\ old' = old /\ old' \in Build \cup {None} /\ faults' \in 0..MaxFaults
    BY <1>1, <1>3, Keeps DEF files, Process
  <2>2. PICK point \in Points : point = "get"
    BY DEF Points
  <2>3. PICK file \in Build \cup {Partial, None} : file = temp[p]
    BY Keeps
  <2>4. /\ Goto(p, point) /\ temp' = [temp EXCEPT ![p] = file]
        /\ at[p] \in {"judge", "get", "write", "verify", "clear"}
        /\ point \in {"get", "write", "verify", "swap", "clear", "aside"}
        /\ point \notin {"write", "verify", "swap", "clear", "aside"}
        /\ at[p] \in {"judge", "get"}
    BY <1>1, <1>3, <2>1, <2>2, <2>3, Keeps
  <2>5. QED
    BY <2>1, <2>4, WriteUpgrade
<1>4. QED
  BY <1>2, <1>3 DEF Judge

LEMMA GetUpgrade ==
    ASSUME UpgradeInv, NEW p \in Proc, Get(p)
    PROVE  UpgradeInv'
<1>1. at[p] = "get" /\ UNCHANGED <<os, github, files, faults, torn>>
  BY DEF Get
<1>2. CASE Exit(p)
  <2>1. UNCHANGED <<os, github, files, torn>> /\ faults' \in 0..MaxFaults
    BY <1>1, Keeps
  <2>2. QED
    BY <1>1, <1>2, <2>1, EndUpgrade
<1>3. CASE ~Exit(p)
  <2>1. /\ Goto(p, "write") /\ temp' = [temp EXCEPT ![p] = Partial]
        /\ UNCHANGED <<ask, self, image, rel>>
    BY <1>3 DEF Get
  <2>2. /\ UNCHANGED <<os, github, dest, torn, ask, self, image, rel>>
        /\ old' = old /\ old' \in Build \cup {None} /\ faults' \in 0..MaxFaults
    BY <1>1, <2>1, Keeps DEF files
  <2>3. PICK point \in Points : point = "write"
    BY DEF Points
  <2>4. PICK file \in Build \cup {Partial, None} : file = Partial
    OBVIOUS
  <2>5. /\ Goto(p, point) /\ temp' = [temp EXCEPT ![p] = file]
        /\ at[p] \in {"judge", "get", "write", "verify", "clear"}
        /\ point \in {"get", "write", "verify", "swap", "clear", "aside"}
        /\ point \notin {"verify", "swap", "clear", "aside"}
        /\ at[p] \in {"judge", "get"} /\ file # None
    BY <1>1, <2>1, <2>3, <2>4, BuildAssumption
  <2>6. QED
    BY <2>2, <2>5, WriteUpgrade
<1>4. QED
  BY <1>2, <1>3

LEMMA ServedBuilds ==
    ASSUME UpgradeInv, NEW p \in Proc, at[p] = "write"
    PROVE  Served(p) \in Build
<1>1. rel[p] \in Release
  BY Keeps DEF ProcSound
<1>2. rel[p].build \in Build
  BY <1>1 DEF Release
<1>3. devel \in 1..Commits \cup {None}
  BY DEF UpgradeInv, TypeOK
<1>4. QED
  BY <1>2, <1>3 DEF Served, Build

LEMMA CopyUpgrade ==
    ASSUME UpgradeInv, NEW p \in Proc, Write(p)
    PROVE  UpgradeInv'
<1>1. /\ at[p] = "write" /\ Goto(p, "verify")
      /\ UNCHANGED <<os, github, files, ask, self, image, rel, torn>>
  BY DEF Write
<1>2. faults' \in 0..MaxFaults
  BY FaultCounted, Keeps DEF Write
<1>3. PICK file \in Build \cup {Partial, None} :
        file # None /\ temp' = [temp EXCEPT ![p] = file]
  <2>1. CASE temp' = [temp EXCEPT ![p] = Served(p)]
    BY <1>1, <2>1, ServedBuilds, BuildAssumption
  <2>2. CASE UNCHANGED temp
    <3>1. temp[p] # None
      BY <1>1, Keeps DEF ProcSound
    <3>2. QED
      BY <2>2, <3>1, Keeps
  <2>3. QED
    BY <2>1, <2>2 DEF Write
<1>4. /\ UNCHANGED <<os, github, dest, torn, ask, self, image, rel>>
      /\ old' = old /\ old' \in Build \cup {None}
  BY <1>1, Keeps DEF files
<1>5. PICK point \in Points : point = "verify"
  BY DEF Points
<1>6. /\ Goto(p, point) /\ at[p] \in {"judge", "get", "write", "verify", "clear"}
      /\ point \in {"get", "write", "verify", "swap", "clear", "aside"}
      /\ point \notin {"get", "write", "swap", "clear", "aside"}
  BY <1>1, <1>5
<1>7. QED
  BY <1>2, <1>3, <1>4, <1>6, WriteUpgrade

LEMMA VerifyUpgrade ==
    ASSUME UpgradeInv, NEW p \in Proc, Verify(p)
    PROVE  UpgradeInv'
<1>1. at[p] = "verify" /\ UNCHANGED <<os, github, files, faults, torn>>
  BY DEF Verify
<1>2. CASE Exit(p)
  <2>1. UNCHANGED <<os, github, files, torn>> /\ faults' \in 0..MaxFaults
    BY <1>1, Keeps
  <2>2. QED
    BY <1>1, <1>2, <2>1, EndUpgrade
<1>3. CASE ~Exit(p)
  <2>1. /\ Verified(p) /\ Goto(p, IF os = "windows" THEN "clear" ELSE "swap")
        /\ UNCHANGED Process
    BY <1>3 DEF Verify
  <2>2. /\ UNCHANGED <<os, github, dest, torn, ask, self, image, rel>> /\ temp' = temp
        /\ old' = old /\ old' \in Build \cup {None} /\ faults' \in 0..MaxFaults
    BY <1>1, <2>1, Keeps DEF files, Process
  <2>3. PICK point \in Points : point = IF os = "windows" THEN "clear" ELSE "swap"
    BY DEF Points
  <2>4. PICK file \in Build \cup {Partial, None} : file = temp[p]
    BY Keeps
  <2>5. file \in Build
    BY <1>1, <2>1, <2>4, Keeps DEF Verified, ProcSound
  <2>6. /\ Goto(p, point) /\ temp' = [temp EXCEPT ![p] = file]
        /\ at[p] \in {"judge", "get", "write", "verify", "clear"}
        /\ point \in {"get", "write", "verify", "swap", "clear", "aside"}
        /\ point \notin {"get", "write", "verify", "aside"}
        /\ (point \in {"clear", "aside"} => os = "windows")
    BY <1>1, <2>1, <2>2, <2>3, <2>4, Keeps
  <2>7. QED
    BY <2>2, <2>5, <2>6, WriteUpgrade
<1>4. QED
  BY <1>2, <1>3
-----------------------------------------------------------------------------
\* Steps that put a build in place, or take one away.
LEMMA SwapUpgrade ==
    ASSUME UpgradeInv, NEW p \in Proc, Swap(p)
    PROVE  UpgradeInv'
<1>1. at[p] = "swap" /\ dest' = temp[p] /\ Exit(p) /\ UNCHANGED <<os, github, old, faults, torn>>
  BY DEF Swap
<1>2. dest' \in Build /\ dest' # None
  BY <1>1, Keeps, BuildAssumption DEF ProcSound
<1>3. /\ UNCHANGED <<os, github>> /\ old' \in Build \cup {None} /\ torn' = torn
      /\ faults' \in 0..MaxFaults /\ torn' \in BOOLEAN
  BY <1>1, Keeps
<1>4. QED
  BY <1>1, <1>2, <1>3, ExitUpgrade

\* The process itself may run .old by now, and then it stays.
LEMMA OldStays ==
    ASSUME UpgradeInv, NEW p \in Proc, at[p] # "none", RemoveOld
    PROVE  old' \in Build \cup {None} /\ (dest = None => old' = old)
<1>1. old \in Build \cup {None} /\ (dest = None => image[p] = "old")
  BY Keeps
<1>2. QED
  BY <1>1 DEF RemoveOld, InUse

LEMMA ClearUpgrade ==
    ASSUME UpgradeInv, NEW p \in Proc, Clear(p)
    PROVE  UpgradeInv'
<1>1. /\ at[p] = "clear" /\ RemoveOld /\ Goto(p, "aside")
      /\ UNCHANGED <<os, github, dest, Process, faults, torn>>
  BY DEF Clear
<1>2. old' \in Build \cup {None} /\ (dest = None => old' = old)
  BY <1>1, OldStays
<1>3. /\ UNCHANGED <<os, github, dest, torn, ask, self, image, rel>> /\ temp' = temp
      /\ faults' \in 0..MaxFaults
  BY <1>1, Keeps DEF Process
<1>4. PICK point \in Points : point = "aside"
  BY DEF Points
<1>5. PICK file \in Build \cup {Partial, None} : file = temp[p]
  BY Keeps
<1>6. file \in Build /\ os = "windows"
  BY <1>1, <1>5, Keeps DEF ProcSound
<1>7. /\ Goto(p, point) /\ temp' = [temp EXCEPT ![p] = file]
      /\ at[p] \in {"judge", "get", "write", "verify", "clear"}
      /\ point \in {"get", "write", "verify", "swap", "clear", "aside"}
      /\ point \notin {"get", "write", "verify"}
  BY <1>1, <1>3, <1>4, <1>5, Keeps
<1>8. QED
  BY <1>2, <1>3, <1>6, <1>7, WriteUpgrade

LEMMA AsideUpgrade ==
    ASSUME UpgradeInv, NEW p \in Proc, Aside(p)
    PROVE  UpgradeInv'
<1>1. at[p] = "aside" /\ UNCHANGED <<os, github, faults, torn>>
  BY DEF Aside
<1>2. CASE dest = None \/ InUse("old")
  <2>1. Exit(p) /\ UNCHANGED files
    BY <1>2 DEF Aside
  <2>2. UNCHANGED <<os, github, files, torn>> /\ faults' \in 0..MaxFaults
    BY <1>1, <2>1, Keeps
  <2>3. QED
    BY <1>1, <2>1, <2>2, EndUpgrade
<1>3. CASE ~(dest = None \/ InUse("old"))
  <2>1. /\ old' = dest /\ dest' = None /\ dest # None /\ image' = Renamed("dest", "old")
        /\ Goto(p, "movein") /\ UNCHANGED <<ask, self, rel, temp>>
    BY <1>3 DEF Aside
  <2>2. TypeOK
    BY DEF UpgradeInv
  <2>3. TypeOK'
    BY <1>1, <2>1, <2>2 DEF TypeOK, Goto, Points, Renamed, github
  <2>4. at'[p] = "movein" /\ \A q \in Proc \ {p} : at'[q] = at[q]
    BY <2>1, <2>2 DEF TypeOK, Goto
  <2>5. \A q \in Proc : image'[q] = IF image[q] = "dest" THEN "old" ELSE image[q]
    BY <2>1 DEF Renamed
  <2>6. os = "windows" /\ temp[p] \in Build
    BY <1>1, Keeps DEF ProcSound
  <2>7. ASSUME NEW q \in Proc PROVE ProcSound(q)'
    <3>1. ProcSound(q) /\ ProcSound(p)
      BY DEF UpgradeInv
    <3>2. CASE q = p
      BY <1>1, <2>1, <2>4, <2>5, <2>6, <3>1, <3>2 DEF ProcSound
    <3>3. CASE q # p
      BY <1>1, <2>1, <2>4, <2>5, <3>1, <3>3 DEF ProcSound
    <3>4. QED
      BY <3>2, <3>3
  <2>8. DestSound'
    BY <1>1, <2>1, <2>4, <2>6 DEF DestSound
  <2>9. QED
    BY <2>3, <2>7, <2>8 DEF UpgradeInv
<1>4. QED
  BY <1>2, <1>3

LEMMA MoveInUpgrade ==
    ASSUME UpgradeInv, NEW p \in Proc, MoveIn(p)
    PROVE  UpgradeInv'
<1>1. at[p] = "movein" /\ UNCHANGED <<os, github, old, ask, self, image, rel, temp, torn>>
  BY DEF MoveIn, Process
<1>2. TypeOK
  BY DEF UpgradeInv
<1>3. faults' \in 0..MaxFaults
  BY FaultCounted, Keeps DEF MoveIn
<1>4. /\ os = "windows" /\ temp[p] \in Build /\ image[p] \in {"dest", "old"}
      /\ (image[p] = "dest" => dest # None)
  BY <1>1, Keeps DEF ProcSound
<1>5. CASE dest' = temp[p] /\ Goto(p, "clean")
  <2>1. dest' # None /\ dest' \in Build
    BY <1>4, <1>5, BuildAssumption
  <2>2. TypeOK'
    BY <1>1, <1>2, <1>3, <1>5, <2>1 DEF TypeOK, Goto, Points, github
  <2>3. at'[p] = "clean" /\ \A q \in Proc \ {p} : at'[q] = at[q]
    BY <1>2, <1>5 DEF TypeOK, Goto
  <2>4. ProcSound(p)'
    BY <1>1, <1>4, <2>1, <2>3 DEF ProcSound
  <2>5. DestSound'
    BY <2>1 DEF DestSound
  <2>6. QED
    BY <1>1, <2>1, <2>2, <2>3, <2>4, <2>5, OneUpgrades
<1>6. CASE dest' = dest /\ Goto(p, "back")
  <2>1. TypeOK'
    BY <1>1, <1>2, <1>3, <1>6 DEF TypeOK, Goto, Points, github
  <2>2. at'[p] = "back" /\ \A q \in Proc \ {p} : at'[q] = at[q]
    BY <1>2, <1>6 DEF TypeOK, Goto
  <2>3. ProcSound(p)'
    BY <1>1, <1>4, <1>6, <2>2 DEF ProcSound
  <2>4. DestSound'
    BY <1>1, <1>6, <2>2, Keeps DEF DestSound
  <2>5. QED
    BY <1>1, <1>6, <2>1, <2>2, <2>3, <2>4, OneUpgrades
<1>7. QED
  BY <1>5, <1>6 DEF MoveIn

LEMMA BackUpgrade ==
    ASSUME UpgradeInv, NEW p \in Proc, Back(p)
    PROVE  UpgradeInv'
<1>1. /\ at[p] = "back" /\ Goto(p, "none") /\ UNCHANGED <<os, github>>
      /\ self' = [self EXCEPT ![p] = None] /\ rel' = [rel EXCEPT ![p] = None]
      /\ temp' = [temp EXCEPT ![p] = None] /\ ask' = [ask EXCEPT ![p] = Stable]
  BY DEF Back
<1>2. TypeOK
  BY DEF UpgradeInv
<1>3. at'[p] = "none" /\ \A q \in Proc \ {p} : /\ at'[q] = at[q] /\ rel'[q] = rel[q]
                                               /\ temp'[q] = temp[q]
  BY <1>1, <1>2 DEF TypeOK, Goto
<1>4. CASE /\ old # None /\ dest' = old /\ old' = None /\ UNCHANGED <<faults, torn>>
           /\ image' = [Renamed("old", "dest") EXCEPT ![p] = "none"]
  <2>1. TypeOK'
    BY <1>1, <1>2, <1>4 DEF TypeOK, Goto, Points, Asks, Renamed, github
  <2>2. dest' # None
    BY <1>4
  <2>3. /\ image'[p] = "none"
        /\ \A q \in Proc \ {p} : image'[q] = IF image[q] = "old" THEN "dest" ELSE image[q]
    BY <1>4 DEF Renamed
  <2>4. ASSUME NEW q \in Proc PROVE ProcSound(q)'
    <3>1. ProcSound(q)
      BY DEF UpgradeInv
    <3>2. CASE q = p
      BY <1>3, <2>3, <3>2 DEF ProcSound
    <3>3. CASE q # p
      BY <1>1, <1>3, <2>2, <2>3, <3>1, <3>3 DEF ProcSound
    <3>4. QED
      BY <3>2, <3>3
  <2>5. DestSound'
    BY <2>2 DEF DestSound
  <2>6. QED
    BY <2>1, <2>4, <2>5 DEF UpgradeInv
<1>5. CASE /\ torn' = TRUE /\ UNCHANGED files /\ faults' \in 0..MaxFaults
           /\ image' = [image EXCEPT ![p] = "none"]
  <2>1. dest' = dest /\ old' = old
    BY <1>5 DEF files
  <2>2. TypeOK'
    BY <1>1, <1>2, <1>5, <2>1 DEF TypeOK, Goto, Points, Asks, github
  <2>3. image'[p] = "none" /\ \A q \in Proc \ {p} : image'[q] = image[q]
    BY <1>2, <1>5 DEF TypeOK
  <2>4. ProcSound(p)'
    BY <1>3, <2>3 DEF ProcSound
  <2>5. DestSound'
    BY <1>1, <1>5, <2>1, Keeps DEF DestSound
  <2>6. QED
    BY <1>1, <1>3, <2>1, <2>2, <2>3, <2>4, <2>5, OneUpgrades
<1>6. (IF old = None \/ InUse("dest") THEN UNCHANGED faults
          ELSE faults < MaxFaults /\ faults' = faults + 1) => faults' \in 0..MaxFaults
  BY FaultCounted, Keeps
<1>7. QED
  BY <1>4, <1>5, <1>6 DEF Back

LEMMA CleanUpgrade ==
    ASSUME UpgradeInv, NEW p \in Proc, Clean(p)
    PROVE  UpgradeInv'
<1>1. /\ at[p] = "clean" /\ RemoveOld /\ Exit(p) /\ UNCHANGED <<os, github, dest, faults, torn>>
  BY DEF Clean
<1>2. old' \in Build \cup {None} /\ (dest = None => old' = old)
  BY <1>1, OldStays
<1>3. /\ UNCHANGED <<os, github>> /\ dest' \in Build \cup {None} /\ dest' = dest
      /\ faults' \in 0..MaxFaults /\ torn' \in BOOLEAN /\ torn' = torn
  BY <1>1, Keeps
<1>4. QED
  BY <1>1, <1>2, <1>3, ExitUpgrade

LEMMA FailsUpgrade ==
    ASSUME UpgradeInv, NEW p \in Proc, Fails(p)
    PROVE  UpgradeInv'
<1>1. /\ at[p] \notin {"movein", "back"} /\ Exit(p) /\ UNCHANGED <<os, github, files, torn>>
      /\ faults < MaxFaults /\ faults' = faults + 1
  BY DEF Fails
<1>2. QED
  BY <1>1, FaultCounted, EndUpgrade

LEMMA KilledUpgrade ==
    ASSUME UpgradeInv, NEW p \in Proc, Killed(p)
    PROVE  UpgradeInv'
<1>1. /\ Exit(p) /\ UNCHANGED <<os, github, files>> /\ faults < MaxFaults /\ faults' = faults + 1
      /\ torn' = (torn \/ at[p] \in {"movein", "back"})
  BY DEF Killed
<1>2. dest' = dest /\ old' = old
  BY <1>1 DEF files
<1>3. /\ UNCHANGED <<os, github>> /\ faults' \in 0..MaxFaults /\ dest' \in Build \cup {None}
      /\ old' \in Build \cup {None} /\ torn' \in BOOLEAN
  BY <1>1, <1>2, FaultCounted, Keeps
<1>4. (torn => torn') /\ (at[p] \in {"movein", "back"} => torn')
  BY <1>1
<1>5. QED
  BY <1>1, <1>2, <1>3, <1>4, ExitUpgrade

LEMMA PublishUpgrade ==
    ASSUME UpgradeInv, Publish
    PROVE  UpgradeInv'
<1>1. TypeOK
  BY DEF UpgradeInv
<1>2. /\ changes < MaxReleases /\ changes' = changes + 1
      /\ UNCHANGED <<os, dest, old, ask, self, image, rel, temp, at, faults, torn>>
  BY DEF Publish, files, Process
<1>3. latest' \in Published /\ devel' \in 1..Commits \cup {None}
  BY <1>1, UpgradeAssumption DEF Publish, TypeOK
<1>4. changes' \in 0..MaxReleases
  BY <1>1, <1>2, UpgradeAssumption DEF TypeOK
<1>5. TypeOK'
  BY <1>1, <1>2, <1>3, <1>4 DEF TypeOK
<1>6. \A q \in Proc : ProcSound(q)'
  BY <1>2 DEF UpgradeInv, ProcSound
<1>7. DestSound'
  BY <1>2 DEF UpgradeInv, DestSound
<1>8. QED
  BY <1>5, <1>6, <1>7 DEF UpgradeInv

LEMMA StepUpgrade == UpgradeInv /\ [Next]_vars => UpgradeInv'
<1> SUFFICES ASSUME UpgradeInv, [Next]_vars PROVE UpgradeInv'
  OBVIOUS
<1>1. CASE Publish
  BY <1>1, PublishUpgrade
<1>2. ASSUME NEW p \in Proc, Upgrades(p) PROVE UpgradeInv'
  BY <1>2, StartUpgrade, FetchUpgrade, JudgeUpgrade, GetUpgrade, CopyUpgrade, VerifyUpgrade,
     SwapUpgrade, ClearUpgrade, AsideUpgrade, MoveInUpgrade, BackUpgrade, CleanUpgrade
     DEF Upgrades
<1>3. ASSUME NEW p \in Proc, Fails(p) \/ Killed(p) PROVE UpgradeInv'
  BY <1>3, FailsUpgrade, KilledUpgrade
<1>4. CASE UNCHANGED vars
  <2>1. UNCHANGED <<os, latest, devel, changes, dest, old, ask, self, image, rel, temp, at,
                    faults, torn>>
    BY <1>4 DEF vars, github, files
  <2>2. TypeOK'
    BY <2>1 DEF UpgradeInv, TypeOK
  <2>3. (\A q \in Proc : ProcSound(q)') /\ DestSound'
    BY <2>1 DEF UpgradeInv, ProcSound, DestSound
  <2>4. QED
    BY <2>2, <2>3 DEF UpgradeInv
<1>5. QED
  BY <1>1, <1>2, <1>3, <1>4 DEF Next

-----------------------------------------------------------------------------
(***************************************************************************)
(* replaceFile and Replace (internal/upgrade): every variable keeps its     *)
(* type, what is about to be renamed into place was verified to be a whole  *)
(* build, and on Windows the executable is away only between two renames    *)
(* or after a process that was killed or refused twice there.               *)
(***************************************************************************)
THEOREM UpgradesSound == Spec => []UpgradeInv
BY InitUpgrade, StepUpgrade, PTL DEF Spec

(***************************************************************************)
(* However upgrades overlap, fail and are killed, the executable is never   *)
(* half a download, and while it is away .old is a whole build.             *)
(***************************************************************************)
THEOREM BinaryStaysWhole == Spec => []BinaryWhole
<1>1. UpgradeInv => BinaryWhole
  BY BuildAssumption DEF UpgradeInv, TypeOK, DestSound, BinaryWhole
<1>2. QED
  BY <1>1, UpgradesSound, PTL

-----------------------------------------------------------------------------
(***************************************************************************)
(* What a process has read is what its --version asks for, and what it has  *)
(* downloaded is that, or a rolling build if that is one, for the rolling   *)
(* release changes under it.  Stated of the values of one process.          *)
(***************************************************************************)
Rolls(k, s) == k = Rolling \/ (k = Stable /\ s.track = "devel")

Reads(s, r, k) ==
    /\ r \in Release
    /\ IF Rolls(k, s) THEN r.build \in {Devel(c) : c \in 1..Commits}
                      ELSE r.build \in {Tagged(t) : t \in Published}

Decided(s, r) ==
    /\ s.track = "release" /\ r.build.track = "release" => Greater(r.build.semver, s.semver)
    /\ s.track = "devel" /\ r.build.track = "devel" => s.sha # r.build.sha

Loaded(r, t) ==
    \/ t = r.build
    \/ r.build.track = "devel" /\ \E c \in 1..Commits : t = Devel(c)

Installing == {"swap", "clear", "aside", "movein"}
Loading == {"get", "write", "verify"}

Advances(a, s, r, t, k) ==
    /\ a # "none" => s \in Build
    /\ a \in {"judge"} \cup Loading \cup Installing => Reads(s, r, k)
    /\ a \in Loading \cup Installing => Decided(s, r)
    /\ a \in {"write", "verify"} => t = Partial \/ Loaded(r, t)
    /\ a \in Installing => Loaded(r, t) /\ (r.digest => t = r.build)

Advance(p) == Advances(at[p], self[p], rel[p], temp[p], ask[p])

ForwardInv == UpgradeInv /\ \A p \in Proc : Advance(p)

LEMMA Rolled ==
    ASSUME NEW c \in 1..Commits
    PROVE  Devel(c).track = "devel"
BY DEF Devel

LEMMA Ranked ==
    ASSUME NEW b \in Build
    PROVE  b.track = "release" => \E i \in DOMAIN Order : Order[i] = b.semver
<1>1. CASE b \in {Tagged(t) : t \in Published}
  BY <1>1, UpgradeAssumption DEF Tagged
<1>2. CASE b \in {Devel(c) : c \in 1..Commits}
  BY <1>2 DEF Devel
<1>3. CASE b \in Local
  BY <1>3, OrderAssumption
<1>4. QED
  BY <1>1, <1>2, <1>3 DEF Build

LEMMA OthersAdvance ==
    ASSUME ForwardInv, UpgradeInv', NEW p \in Proc, Advance(p)',
           \A q \in Proc \ {p} : /\ at'[q] = at[q] /\ self'[q] = self[q] /\ rel'[q] = rel[q]
                                 /\ temp'[q] = temp[q] /\ ask'[q] = ask[q]
    PROVE  ForwardInv'
<1>1. ASSUME NEW q \in Proc \ {p} PROVE Advance(q)'
  BY DEF ForwardInv, Advance
<1>2. QED
  BY <1>1 DEF ForwardInv

LEMMA ExitAdvances ==
    ASSUME ForwardInv, UpgradeInv', NEW p \in Proc, Exit(p)
    PROVE  ForwardInv'
<1>1. TypeOK
  BY DEF ForwardInv, UpgradeInv
<1>2. at'[p] = "none" /\ \A q \in Proc \ {p} :
        /\ at'[q] = at[q] /\ self'[q] = self[q] /\ rel'[q] = rel[q]
        /\ temp'[q] = temp[q] /\ ask'[q] = ask[q]
  BY <1>1 DEF TypeOK, Exit, Goto
<1>3. Advance(p)'
  BY <1>2 DEF Advance, Advances, Loading, Installing
<1>4. QED
  BY <1>2, <1>3, OthersAdvance

\* A process goes on, with what it was asked for and started from.
LEMMA GoesOn ==
    ASSUME ForwardInv, UpgradeInv', NEW p \in Proc, NEW point, Goto(p, point),
           UNCHANGED <<ask, self>>,
           NEW release \in Release \cup {None}, rel' = [rel EXCEPT ![p] = release],
           NEW file \in Build \cup {Partial, None}, temp' = [temp EXCEPT ![p] = file],
           Advances(point, self[p], release, file, ask[p])
    PROVE  ForwardInv'
<1>1. TypeOK
  BY DEF ForwardInv, UpgradeInv
<1>2. at'[p] = point /\ rel'[p] = release /\ temp'[p] = file
  BY <1>1 DEF TypeOK, Goto
<1>3. \A q \in Proc \ {p} :
        /\ at'[q] = at[q] /\ self'[q] = self[q] /\ rel'[q] = rel[q]
        /\ temp'[q] = temp[q] /\ ask'[q] = ask[q]
  BY <1>1 DEF TypeOK, Goto
<1>4. Advance(p)'
  BY <1>2 DEF Advance
<1>5. QED
  BY <1>3, <1>4, OthersAdvance

\* Nothing but its point changes.
LEMMA MovesOn ==
    ASSUME ForwardInv, UpgradeInv', NEW p \in Proc, NEW point, Goto(p, point),
           UNCHANGED <<ask, self, rel, temp>>,
           Advances(point, self[p], rel[p], temp[p], ask[p])
    PROVE  ForwardInv'
<1>1. UpgradeInv
  BY DEF ForwardInv
<1>2. PICK release \in Release \cup {None} : release = rel[p]
  BY <1>1, Keeps
<1>3. PICK file \in Build \cup {Partial, None} : file = temp[p]
  BY <1>1, Keeps
<1>4. rel' = [rel EXCEPT ![p] = release] /\ temp' = [temp EXCEPT ![p] = file]
  BY <1>1, <1>2, <1>3, Keeps
<1>5. Advances(point, self[p], release, file, ask[p])
  BY <1>2, <1>3
<1>6. QED
  BY <1>4, <1>5, GoesOn

LEMMA StartAdvances ==
    ASSUME ForwardInv, UpgradeInv', NEW p \in Proc, Start(p)
    PROVE  ForwardInv'
<1>1. TypeOK /\ dest # None
  BY DEF ForwardInv, UpgradeInv, Start
<1>2. at'[p] = "fetch" /\ self'[p] \in Build
  BY <1>1 DEF Start, Goto, TypeOK
<1>3. \A q \in Proc \ {p} :
        /\ at'[q] = at[q] /\ self'[q] = self[q] /\ rel'[q] = rel[q]
        /\ temp'[q] = temp[q] /\ ask'[q] = ask[q]
  BY <1>1 DEF Start, Goto, TypeOK
<1>4. Advance(p)'
  BY <1>2 DEF Advance, Advances, Loading, Installing
<1>5. QED
  BY <1>3, <1>4, OthersAdvance

LEMMA FetchAdvances ==
    ASSUME ForwardInv, UpgradeInv', NEW p \in Proc, Fetch(p)
    PROVE  ForwardInv'
<1>1. /\ at[p] = "fetch" /\ dest' = dest /\ old' = old
  BY DEF Fetch, files, github, ForwardInv
<1>2. CASE Wanted(p) = None
  BY <1>1, <1>2, ExitAdvances DEF Fetch
<1>3. CASE Wanted(p) # None
  <2>1. PICK commit \in BOOLEAN, digest \in BOOLEAN :
          rel' = [rel EXCEPT ![p] = [build |-> Wanted(p), commit |-> commit, digest |-> digest]]
    BY <1>3 DEF Fetch
  <2>2. UpgradeInv
    BY DEF ForwardInv
  <2>3. Wanted(p) \in Build
    BY <1>3, <2>2, WantedBuilds
  <2>4. PICK release \in Release \cup {None} :
          release = [build |-> Wanted(p), commit |-> commit, digest |-> digest]
    BY <2>3 DEF Release
  <2>5. rel' = [rel EXCEPT ![p] = release] /\ release \in Release /\ release.build = Wanted(p)
    BY <2>1, <2>3, <2>4 DEF Release
  <2>6. PICK file \in Build \cup {Partial, None} : file = temp[p]
    BY <2>2, Keeps
  <2>7. /\ Goto(p, "judge") /\ UNCHANGED <<ask, self>> /\ temp' = [temp EXCEPT ![p] = file]
    BY <1>3, <2>2, <2>6, Keeps DEF Fetch
  <2>8. self[p] \in Build
    BY <1>1 DEF ForwardInv, Advance, Advances
  <2>9. latest \in Published /\ devel \in 1..Commits \cup {None} /\ ask[p] \in Asks
    BY <2>2 DEF UpgradeInv, TypeOK
  <2>10. Reads(self[p], release, ask[p])
    <3>1. CASE Rolls(ask[p], self[p])
      <4>1. devel \in 1..Commits /\ Wanted(p) = Devel(devel)
        <5>1. OnDevel(p)
          BY <3>1 DEF OnDevel, Rolls
        <5>2. Wanted(p) = IF devel = None THEN None ELSE Devel(devel)
          BY <5>1 DEF Wanted
        <5>3. QED
          BY <1>3, <2>9, <5>2
      <4>2. QED
        BY <2>5, <3>1, <4>1 DEF Reads
    <3>2. CASE ~Rolls(ask[p], self[p])
      <4>1. PICK t \in Published : Wanted(p) = Tagged(t)
        BY <2>9, <3>2 DEF Wanted, OnDevel, Rolls, Asks
      <4>2. QED
        BY <2>5, <3>2, <4>1 DEF Reads
    <3>3. QED
      BY <3>1, <3>2
  <2>11. Advances("judge", self[p], release, file, ask[p])
    BY <2>8, <2>10 DEF Advances, Loading, Installing
  <2>12. QED
    BY <1>1, <2>5, <2>7, <2>11, GoesOn
<1>4. QED
  BY <1>2, <1>3

LEMMA JudgeAdvances ==
    ASSUME ForwardInv, UpgradeInv', NEW p \in Proc, Judge(p)
    PROVE  ForwardInv'
<1>1. /\ at[p] = "judge" /\ dest' = dest /\ old' = old
  BY DEF Judge, files, github, ForwardInv
<1>2. CASE Exit(p)
  BY <1>1, <1>2, ExitAdvances
<1>3. CASE Decide(p) = "upgrade" /\ Goto(p, "get") /\ UNCHANGED Process
  <2>1. /\ self[p] \in Build
        /\ Reads(self[p], rel[p], ask[p])
    BY <1>1 DEF ForwardInv, Advance, Advances
  <2>2. OnDevel(p) <=> Rolls(ask[p], self[p])
    BY DEF OnDevel, Rolls
  <2>3. Decided(self[p], rel[p])
    <3>1. CASE OnDevel(p)
      <4>1. rel[p].build.track = "devel"
        BY <2>1, <2>2, <3>1, Rolled DEF Reads
      <4>2. DecideDevel(self[p], rel[p]) = "upgrade"
        BY <1>3, <3>1 DEF Decide
      <4>3. self[p].track = "devel" => self[p].sha # rel[p].build.sha
        BY <4>2 DEF DecideDevel
      <4>4. QED
        BY <4>1, <4>3 DEF Decided
    <3>2. CASE ~OnDevel(p)
      <4>1. rel[p].build.track = "release"
        BY <2>1, <2>2, <3>2 DEF Reads, Tagged
      <4>2. DecideRelease(self[p], ask[p], rel[p]) = "upgrade"
        BY <1>3, <3>2 DEF Decide
      <4>3. self[p].track = "release" => Greater(rel[p].build.semver, self[p].semver)
        BY <4>2 DEF DecideRelease, SemverGreater
      <4>4. QED
        BY <4>1, <4>3 DEF Decided
    <3>3. QED
      BY <3>1, <3>2
  <2>4. Advances("get", self[p], rel[p], temp[p], ask[p])
    BY <2>1, <2>3 DEF Advances, Loading, Installing
  <2>5. QED
    BY <1>1, <1>3, <2>4, MovesOn DEF Process
<1>4. QED
  BY <1>2, <1>3 DEF Judge

LEMMA GetAdvances ==
    ASSUME ForwardInv, UpgradeInv', NEW p \in Proc, Get(p)
    PROVE  ForwardInv'
<1>1. /\ at[p] = "get" /\ dest' = dest /\ old' = old
  BY DEF Get, files, github, ForwardInv
<1>2. CASE Exit(p)
  BY <1>1, <1>2, ExitAdvances
<1>3. CASE ~Exit(p)
  <2>1. /\ Goto(p, "write") /\ temp' = [temp EXCEPT ![p] = Partial]
        /\ UNCHANGED <<ask, self, image, rel>>
    BY <1>3 DEF Get
  <2>2. UpgradeInv
    BY DEF ForwardInv
  <2>3. PICK release \in Release \cup {None} : release = rel[p]
    BY <2>2, Keeps
  <2>4. PICK file \in Build \cup {Partial, None} : file = Partial
    OBVIOUS
  <2>5. rel' = [rel EXCEPT ![p] = release] /\ temp' = [temp EXCEPT ![p] = file]
    BY <2>1, <2>2, <2>3, <2>4, Keeps
  <2>6. Advances("get", self[p], rel[p], temp[p], ask[p])
    BY <1>1 DEF ForwardInv, Advance
  <2>7. Advances("write", self[p], release, file, ask[p])
    BY <2>3, <2>4, <2>6 DEF Advances, Loading, Installing
  <2>8. QED
    BY <1>1, <2>1, <2>5, <2>7, GoesOn
<1>4. QED
  BY <1>2, <1>3

LEMMA ServedAdvances ==
    ASSUME ForwardInv, NEW p \in Proc, at[p] = "write"
    PROVE  Loaded(rel[p], Served(p))
<1>1. Reads(self[p], rel[p], ask[p])
  BY DEF ForwardInv, Advance, Advances, Loading
<1>2. devel \in 1..Commits \cup {None}
  BY DEF ForwardInv, UpgradeInv, TypeOK
<1>3. CASE rel[p].build.track = "devel" /\ devel # None
  <2>1. Served(p) = Devel(devel) /\ devel \in 1..Commits
    BY <1>2, <1>3 DEF Served
  <2>2. QED
    BY <1>3, <2>1 DEF Loaded
<1>4. CASE ~(rel[p].build.track = "devel" /\ devel # None)
  BY <1>4 DEF Served, Loaded
<1>5. QED
  BY <1>3, <1>4

LEMMA WriteAdvances ==
    ASSUME ForwardInv, UpgradeInv', NEW p \in Proc, Write(p)
    PROVE  ForwardInv'
<1>1. /\ at[p] = "write" /\ dest' = dest /\ old' = old
      /\ Goto(p, "verify") /\ UNCHANGED <<ask, self, rel>>
  BY DEF Write, files, github, ForwardInv
<1>2. UpgradeInv
  BY DEF ForwardInv
<1>3. Advances("write", self[p], rel[p], temp[p], ask[p])
  BY <1>1 DEF ForwardInv, Advance
<1>4. CASE temp' = [temp EXCEPT ![p] = Served(p)]
  <2>1. PICK release \in Release \cup {None} : release = rel[p]
    BY <1>2, Keeps
  <2>2. PICK file \in Build \cup {Partial, None} : file = Served(p)
    BY <1>1, <1>2, ServedBuilds
  <2>3. rel' = [rel EXCEPT ![p] = release] /\ temp' = [temp EXCEPT ![p] = file]
    BY <1>1, <1>2, <1>4, <2>1, <2>2, Keeps
  <2>4. Loaded(release, file)
    BY <1>1, <2>1, <2>2, ServedAdvances
  <2>5. Advances("verify", self[p], release, file, ask[p])
    BY <1>3, <2>1, <2>4 DEF Advances, Loading, Installing
  <2>6. QED
    BY <1>1, <2>3, <2>5, GoesOn
<1>5. CASE UNCHANGED temp
  <2>1. Advances("verify", self[p], rel[p], temp[p], ask[p])
    BY <1>3 DEF Advances, Loading, Installing
  <2>2. QED
    BY <1>1, <1>5, <2>1, MovesOn
<1>6. QED
  BY <1>4, <1>5 DEF Write

LEMMA VerifyAdvances ==
    ASSUME ForwardInv, UpgradeInv', NEW p \in Proc, Verify(p)
    PROVE  ForwardInv'
<1>1. /\ at[p] = "verify" /\ dest' = dest /\ old' = old
  BY DEF Verify, files, github, ForwardInv
<1>2. CASE Exit(p)
  BY <1>1, <1>2, ExitAdvances
<1>3. CASE ~Exit(p)
  <2>1. PICK point : point = IF os = "windows" THEN "clear" ELSE "swap"
    OBVIOUS
  <2>2. Verified(p) /\ Goto(p, point) /\ UNCHANGED <<ask, self, rel, temp>>
    BY <1>3, <2>1 DEF Verify, Process
  <2>3. Advances("verify", self[p], rel[p], temp[p], ask[p])
    BY <1>1 DEF ForwardInv, Advance
  <2>4. Advances(point, self[p], rel[p], temp[p], ask[p])
    BY <2>1, <2>2, <2>3 DEF Advances, Verified, Loading, Installing
  <2>5. QED
    BY <1>1, <2>2, <2>4, MovesOn
<1>4. QED
  BY <1>2, <1>3

\* What is about to be put in place.
LEMMA Installs ==
    ASSUME ForwardInv, NEW p \in Proc, at[p] \in Installing
    PROVE  /\ Decided(self[p], rel[p])
           /\ Reads(self[p], rel[p], ask[p]) /\ Loaded(rel[p], temp[p])
           /\ rel[p].digest => temp[p] = rel[p].build
           /\ self[p] \in Build
BY DEF ForwardInv, Advance, Advances, Installing, Loaded

LEMMA ReplaceAdvances ==
    ASSUME ForwardInv, UpgradeInv', NEW p \in Proc,
           Swap(p) \/ Clear(p) \/ Aside(p) \/ MoveIn(p) \/ Back(p) \/ Clean(p)
    PROVE  ForwardInv'
<1>1. Advances(at[p], self[p], rel[p], temp[p], ask[p])
  BY DEF ForwardInv, Advance
<1>2. CASE Exit(p)
  BY <1>2, ExitAdvances
<1>3. CASE Clear(p)
  <2>1. at[p] = "clear" /\ Goto(p, "aside") /\ UNCHANGED <<ask, self, rel, temp>>
    BY <1>3 DEF Clear, Process
  <2>2. Advances("aside", self[p], rel[p], temp[p], ask[p])
    BY <1>1, <2>1 DEF Advances, Loading, Installing
  <2>3. QED
    BY <2>1, <2>2, MovesOn
<1>4. CASE Aside(p) /\ ~Exit(p)
  <2>1. at[p] = "aside" /\ Goto(p, "movein") /\ UNCHANGED <<ask, self, rel, temp>>
    BY <1>4 DEF Aside
  <2>2. Advances("movein", self[p], rel[p], temp[p], ask[p])
    BY <1>1, <2>1 DEF Advances, Loading, Installing
  <2>3. QED
    BY <2>1, <2>2, MovesOn
<1>5. CASE MoveIn(p)
  <2>1. PICK point \in {"clean", "back"} : Goto(p, point)
    BY <1>5 DEF MoveIn
  <2>2. at[p] = "movein" /\ UNCHANGED <<ask, self, rel, temp>>
    BY <1>5 DEF MoveIn, Process
  <2>3. Advances(point, self[p], rel[p], temp[p], ask[p])
    BY <1>1, <2>1, <2>2 DEF Advances, Loading, Installing
  <2>4. QED
    BY <2>1, <2>2, <2>3, MovesOn
<1>6. CASE Back(p)
  <2>1. TypeOK
    BY DEF ForwardInv, UpgradeInv
  <2>2. /\ Goto(p, "none") /\ self' = [self EXCEPT ![p] = None] /\ rel' = [rel EXCEPT ![p] = None]
        /\ temp' = [temp EXCEPT ![p] = None] /\ ask' = [ask EXCEPT ![p] = Stable]
    BY <1>6 DEF Back
  <2>3. at'[p] = "none" /\ \A q \in Proc \ {p} :
          /\ at'[q] = at[q] /\ self'[q] = self[q] /\ rel'[q] = rel[q]
          /\ temp'[q] = temp[q] /\ ask'[q] = ask[q]
    BY <2>1, <2>2 DEF TypeOK, Goto
  <2>4. Advance(p)'
    BY <2>3 DEF Advance, Advances, Loading, Installing
  <2>5. QED
    BY <2>3, <2>4, OthersAdvance
<1>7. QED
  BY <1>2, <1>3, <1>4, <1>5, <1>6 DEF Swap, Clean

LEMMA EndsAdvance ==
    ASSUME ForwardInv, UpgradeInv', NEW p \in Proc, Fails(p) \/ Killed(p)
    PROVE  ForwardInv'
BY ExitAdvances DEF Fails, Killed

LEMMA PublishAdvances ==
    ASSUME ForwardInv, UpgradeInv', Publish
    PROVE  ForwardInv'
<1>1. UNCHANGED <<ask, self, rel, temp, at>>
  BY DEF Publish, Process
<1>2. QED
  BY <1>1 DEF ForwardInv, Advance

LEMMA InitForward == Init => ForwardInv
<1> SUFFICES ASSUME Init PROVE ForwardInv
  OBVIOUS
<1>1. UpgradeInv
  BY InitUpgrade
<1>2. \A p \in Proc : Advance(p)
  BY DEF Init, Advance, Advances, Loading, Installing
<1>3. QED
  BY <1>1, <1>2 DEF ForwardInv

LEMMA StepForward == ForwardInv /\ [Next]_vars => ForwardInv'
<1> SUFFICES ASSUME ForwardInv, [Next]_vars PROVE ForwardInv'
  OBVIOUS
<1>1. UpgradeInv'
  BY StepUpgrade DEF ForwardInv
<1>2. CASE Publish
  BY <1>1, <1>2, PublishAdvances
<1>3. ASSUME NEW p \in Proc, Upgrades(p) PROVE ForwardInv'
  BY <1>1, <1>3, StartAdvances, FetchAdvances, JudgeAdvances, GetAdvances, WriteAdvances,
     VerifyAdvances, ReplaceAdvances DEF Upgrades
<1>4. ASSUME NEW p \in Proc, Fails(p) \/ Killed(p) PROVE ForwardInv'
  BY <1>1, <1>4, EndsAdvance
<1>5. CASE UNCHANGED vars
  <2>1. UNCHANGED <<ask, self, rel, temp, at>>
    BY <1>5 DEF vars
  <2>2. QED
    BY <1>1, <2>1 DEF ForwardInv, Advance
<1>6. QED
  BY <1>2, <1>3, <1>4, <1>5 DEF Next

\* What a process puts in place is greater than what it runs, and with a digest
\* not the same rolling build.
LEMMA LoadedForward ==
    ASSUME ForwardInv, NEW p \in Proc, at[p] \in Installing
    PROVE  /\ Forward(self[p], temp[p])
           /\ rel[p].digest => Another(self[p], temp[p])
<1>1. /\ Decided(self[p], rel[p]) /\ Reads(self[p], rel[p], ask[p])
      /\ Loaded(rel[p], temp[p]) /\ self[p] \in Build
      /\ rel[p].digest => temp[p] = rel[p].build
  BY Installs
<1>2. ASSUME self[p].track = "release", temp[p].track = "release"
      PROVE  Rank(temp[p]) > Rank(self[p])
  <2>1. temp[p] = rel[p].build
    BY <1>1, <1>2, Rolled DEF Loaded
  <2>2. Greater(temp[p].semver, self[p].semver) /\ temp[p] \in Build
    BY <1>1, <1>2, <2>1 DEF Decided, Reads, Release
  <2>3. \E i \in DOMAIN Order : Order[i] = temp[p].semver
    BY <1>2, <2>2, Ranked
  <2>4. \E i \in DOMAIN Order : Order[i] = self[p].semver
    BY <1>1, <1>2, Ranked
  <2>5. /\ Rank(temp[p]) \in DOMAIN Order /\ Order[Rank(temp[p])] = temp[p].semver
        /\ Rank(self[p]) \in DOMAIN Order /\ Order[Rank(self[p])] = self[p].semver
    BY <2>3, <2>4 DEF Rank
  <2>6. QED
    BY <2>2, <2>5, OrderAssumption
<1>3. rel[p].digest => Another(self[p], temp[p])
  BY <1>1 DEF Decided, Another
<1>4. QED
  BY <1>2, <1>3 DEF Forward

(***************************************************************************)
(* Who replaces the executable puts no smaller and no equal version there   *)
(* than it runs, and with a digest exactly what it decided on, which is not *)
(* the rolling build it runs, whatever is released or installed meanwhile.  *)
(***************************************************************************)
THEOREM InstallsGoForward == Spec => InstallsForward
<1>1. ASSUME ForwardInv, [Next]_vars, NEW p \in Proc,
             at[p] \in {"swap", "movein"}, at'[p] # at[p], dest' # dest
      PROVE  /\ Forward(self[p], dest')
             /\ rel[p].digest => dest' = rel[p].build /\ Another(self[p], dest')
  <2>1. TypeOK
    BY <1>1 DEF ForwardInv, UpgradeInv
  <2>2. ASSUME NEW q \in Proc, Upgrades(q) \/ Fails(q) \/ Killed(q) PROVE dest' = temp[p]
    <3>1. \E point : at' = [at EXCEPT ![q] = point]
      BY <2>2 DEF Upgrades, Fails, Killed, Start, Fetch, Judge, Get, Write, Verify, Swap, Clear,
                  Aside, MoveIn, Back, Clean, Exit, Goto
    <3>2. q = p
      BY <1>1, <2>1, <3>1 DEF TypeOK
    <3>3. Swap(p) \/ MoveIn(p) \/ Fails(p) \/ Killed(p)
      BY <1>1, <2>2, <3>2 DEF Upgrades, Start, Fetch, Judge, Get, Write, Verify, Clear, Aside,
                              Back, Clean
    <3>4. QED
      BY <1>1, <3>3 DEF Swap, MoveIn, Fails, Killed, files
  <2>3. dest' = temp[p]
    BY <1>1, <2>2 DEF Next, Publish, vars, files
  <2>4. at[p] \in Installing
    BY <1>1 DEF Installing
  <2>5. QED
    BY <1>1, <2>3, <2>4, LoadedForward, Installs
<1>2. ForwardInv /\ [Next]_vars =>
        [\A p \in Proc :
           (at[p] \in {"swap", "movein"} /\ at'[p] # at[p] /\ dest' # dest)
           => /\ Forward(self[p], dest')
              /\ rel[p].digest => dest' = rel[p].build /\ Another(self[p], dest')]_vars
  BY <1>1
<1>3. Spec => []ForwardInv
  BY InitForward, StepForward, PTL DEF Spec
<1>4. QED
  BY <1>2, <1>3, PTL DEF Spec, InstallsForward
=============================================================================
