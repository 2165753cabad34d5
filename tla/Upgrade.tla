------------------------------- MODULE Upgrade -------------------------------
(***************************************************************************)
(* containerctl upgrade: internal/upgrade and cmd/upgrade.go.  A process    *)
(* reads a release from GitHub, decides whether it is newer than itself,    *)
(* downloads the asset next to its own executable and puts it in its place: *)
(* by one rename, or on Windows by two, since a running executable can be   *)
(* renamed there but neither replaced nor removed.  Any number of upgrades  *)
(* may run at once, and releases appear meanwhile.                          *)
(***************************************************************************)
EXTENDS Versions, Integers

CONSTANTS Proc,       \* processes that run upgrade
          Published,  \* published versions: their numbers, and whether a suffix follows
          Local,      \* versions built from a checkout: described, or "dev"
          Commits,    \* bound: commits of the rolling release, in no order
          Order,      \* the version numbers, in the order they are meant to have
          MaxReleases,\* bound: changes on GitHub
          MaxFaults,  \* bound: refused calls, broken downloads and kills
          None, Partial, \* no build, and one that was not written to its end
          Stable, Rolling \* upgrade without --version, and with --version=devel

ASSUME UpgradeAssumption ==
    /\ \A t \in Published : \E i \in DOMAIN Order : Order[i] = t.semver
    /\ Commits \in Nat \ {0} /\ MaxReleases \in Nat /\ MaxFaults \in Nat

Tagged(t) == [track |-> "release", semver |-> t.semver, extra |-> t.suffix, sha |-> None]
Devel(c)  == [track |-> "devel", semver |-> <<>>, extra |-> FALSE, sha |-> c]
Build     == {Tagged(t) : t \in Published} \cup {Devel(c) : c \in 1..Commits} \cup Local

\* A build is neither of the two marks for a file that is none.
ASSUME BuildAssumption ==
    None \notin Build /\ Partial \notin Build /\ Partial # None /\ None \notin Nat

\* The numbers are compared as they are meant to be.
ASSUME OrderAssumption ==
    /\ \A i, j \in DOMAIN Order : Greater(Order[i], Order[j]) => i > j
    /\ \A b \in Local : b.track = "release" => \E i \in DOMAIN Order : Order[i] = b.semver

Asks == {Stable, Rolling} \cup Published

\* The release a process has read: what it names, and whether GitHub told the
\* commit and the digest of the asset.
Release == [build : Build, commit : BOOLEAN, digest : BOOLEAN]

VARIABLES os,      \* "unix" or "windows"
          latest,  \* GitHub: the latest release
          devel,   \* GitHub: the commit of the rolling release, or None
          changes, \* releases so far
          dest,    \* the executable, or None
          old,     \* on Windows: <executable>.old, or None
          ask,     \* --version of each process
          self,    \* the build it runs
          image,   \* the name its executable has by now
          rel,     \* the release it has read
          temp,    \* the file it downloads
          at,
          faults,
          torn     \* a process died, or was refused twice, between two renames

github == <<latest, devel, changes>>
files  == <<dest, old>>
vars   == <<os, github, files, ask, self, image, rel, temp, at, faults, torn>>

Points == {"none", "fetch", "judge", "get", "write", "verify", "swap",
           "clear", "aside", "movein", "back", "clean"}

TypeOK ==
    /\ os \in {"unix", "windows"}
    /\ latest \in Published /\ devel \in 1..Commits \cup {None} /\ changes \in 0..MaxReleases
    /\ dest \in Build \cup {None} /\ old \in Build \cup {None}
    /\ ask \in [Proc -> Asks] /\ self \in [Proc -> Build \cup {None}]
    /\ image \in [Proc -> {"dest", "old", "none"}]
    /\ rel \in [Proc -> Release \cup {None}]
    /\ temp \in [Proc -> Build \cup {Partial, None}]
    /\ at \in [Proc -> Points]
    /\ faults \in 0..MaxFaults /\ torn \in BOOLEAN

Init ==
    /\ os \in {"unix", "windows"}
    /\ latest \in {t \in Published : ~t.suffix} /\ devel = 1 /\ changes = 0
    /\ dest \in Build /\ old = None
    /\ ask = [p \in Proc |-> Stable] /\ self = [p \in Proc |-> None]
    /\ image = [p \in Proc |-> "none"]
    /\ rel = [p \in Proc |-> None] /\ temp = [p \in Proc |-> None]
    /\ at = [p \in Proc |-> "none"]
    /\ faults = 0 /\ torn = FALSE

-----------------------------------------------------------------------------
Goto(p, point) == at' = [at EXCEPT ![p] = point]

\* The process ends; the deferred Remove takes the temporary file.
Exit(p) ==
    /\ Goto(p, "none")
    /\ self' = [self EXCEPT ![p] = None] /\ image' = [image EXCEPT ![p] = "none"]
    /\ rel' = [rel EXCEPT ![p] = None] /\ temp' = [temp EXCEPT ![p] = None]
    /\ ask' = [ask EXCEPT ![p] = Stable]

Process == <<ask, self, image, rel, temp>>

\* GitHub: a version is released, or a run of the release workflow deletes the
\* rolling release, or makes it for the commit of that run.  Runs may overlap and
\* be repeated, so this commit may be any, an older one and one made before.
Publish ==
    /\ changes < MaxReleases /\ changes' = changes + 1
    /\ \/ latest' \in {t \in Published : ~t.suffix} \ {latest} /\ UNCHANGED devel
       \/ devel' \in (1..Commits \cup {None}) \ {devel} /\ UNCHANGED latest
    /\ UNCHANGED <<os, files, Process, at, faults, torn>>

Start(p) ==
    /\ at[p] = "none" /\ dest # None
    /\ self' = [self EXCEPT ![p] = dest] /\ image' = [image EXCEPT ![p] = "dest"]
    /\ ask' \in {[ask EXCEPT ![p] = a] : a \in Asks}
    /\ Goto(p, "fetch")
    /\ UNCHANGED <<os, github, files, rel, temp, faults, torn>>

-----------------------------------------------------------------------------
\* fetchTarget: without --version a devel build stays with devel.
OnDevel(p) == ask[p] = Rolling \/ (ask[p] = Stable /\ self[p].track = "devel")
Wanted(p) ==
    IF OnDevel(p) THEN (IF devel = None THEN None ELSE Devel(devel))
                  ELSE Tagged(IF ask[p] = Stable THEN latest ELSE ask[p])

Fetch(p) ==
    /\ at[p] = "fetch"
    /\ IF Wanted(p) = None
       THEN Exit(p)
       ELSE /\ \E commit, digest \in BOOLEAN :
                  /\ OnDevel(p) \/ ~commit
                  /\ rel' = [rel EXCEPT ![p] = [build |-> Wanted(p), commit |-> commit, digest |-> digest]]
            /\ Goto(p, "judge")
            /\ UNCHANGED <<ask, self, image, temp>>
    /\ UNCHANGED <<os, github, files, faults, torn>>

\* Mutant: the numbers are compared one by one, whatever comes before them.
AnyGreater(a, b) == \E i \in DOMAIN a \cap DOMAIN b : a[i] > b[i]

SemverGreater(a, b) == Greater(a, b)

DecideDevel(current, remote) ==
    IF current.track # "devel" THEN "upgrade"
    ELSE IF current.sha = None \/ ~remote.commit THEN "refuse"
    ELSE IF current.sha = remote.build.sha THEN "none" ELSE "upgrade"

DecideRelease(current, requested, remote) ==
    IF current.track # "release" \/ SemverGreater(remote.build.semver, current.semver)
    THEN "upgrade"
    ELSE IF \/ requested = Stable
            \/ remote.build.semver = current.semver /\ ~current.extra
         THEN "none" ELSE "refuse"

\* The running build is compared, but the digest is that of the file.
Decide(p) ==
    IF rel[p].digest /\ dest = rel[p].build THEN "none"
    ELSE IF OnDevel(p) THEN DecideDevel(self[p], rel[p])
                       ELSE DecideRelease(self[p], ask[p], rel[p])

\* With --check the process ends here in any case.
Judge(p) ==
    /\ at[p] = "judge"
    /\ \/ Exit(p)
       \/ dest # None /\ Decide(p) = "upgrade" /\ Goto(p, "get") /\ UNCHANGED Process
    /\ UNCHANGED <<os, github, files, faults, torn>>

\* Replace: the executable is there, and so is the asset.  The URL of a rolling
\* asset serves whatever build is there by now.
Get(p) ==
    /\ at[p] = "get"
    /\ IF dest = None \/ (rel[p].build.track = "devel" /\ devel = None)
       THEN Exit(p)
       ELSE Goto(p, "write") /\ temp' = [temp EXCEPT ![p] = Partial]
            /\ UNCHANGED <<ask, self, image, rel>>
    /\ UNCHANGED <<os, github, files, faults, torn>>

Served(p) ==
    IF rel[p].build.track = "devel" /\ devel # None THEN Devel(devel) ELSE rel[p].build

\* The body is copied to the end, or its end comes too early.
Write(p) ==
    /\ at[p] = "write"
    /\ Goto(p, "verify")
    /\ \/ temp' = [temp EXCEPT ![p] = Served(p)] /\ UNCHANGED faults
       \/ faults < MaxFaults /\ faults' = faults + 1 /\ UNCHANGED temp
    /\ UNCHANGED <<os, github, files, ask, self, image, rel, torn>>

\* Mutant: only the digest is looked at, which GitHub may not have given.
DigestOnly(p) == rel[p].digest => temp[p] = rel[p].build

\* The size, then the digest.
Verified(p) == temp[p] # Partial /\ (rel[p].digest => temp[p] = rel[p].build)

Verify(p) ==
    /\ at[p] = "verify"
    /\ \/ Verified(p) /\ Goto(p, IF os = "windows" THEN "clear" ELSE "swap") /\ UNCHANGED Process
       \/ ~Verified(p) /\ Exit(p)
       \/ temp[p] # rel[p].build /\ Exit(p)     \* another build, of another size
    /\ UNCHANGED <<os, github, files, faults, torn>>

-----------------------------------------------------------------------------
\* replaceFile
Swap(p) ==
    /\ at[p] = "swap"
    /\ dest' = temp[p]
    /\ Exit(p)
    /\ UNCHANGED <<os, github, old, faults, torn>>

InUse(name) == \E q \in Proc : image[q] = name
Renamed(from, to) == [q \in Proc |-> IF image[q] = from THEN to ELSE image[q]]
RemoveOld == old' = IF InUse("old") THEN old ELSE None

Clear(p) ==
    /\ at[p] = "clear"
    /\ RemoveOld /\ Goto(p, "aside")
    /\ UNCHANGED <<os, github, dest, Process, faults, torn>>

Aside(p) ==
    /\ at[p] = "aside"
    /\ IF dest = None \/ InUse("old")
       THEN Exit(p) /\ UNCHANGED files
       ELSE /\ old' = dest /\ dest' = None
            /\ image' = Renamed("dest", "old")
            /\ Goto(p, "movein")
            /\ UNCHANGED <<ask, self, rel, temp>>
    /\ UNCHANGED <<os, github, faults, torn>>

MoveIn(p) ==
    /\ at[p] = "movein"
    /\ \/ ~InUse("dest") /\ dest' = temp[p] /\ Goto(p, "clean") /\ UNCHANGED faults
       \/ InUse("dest") /\ Goto(p, "back") /\ UNCHANGED <<dest, faults>>
       \/ faults < MaxFaults /\ faults' = faults + 1 /\ Goto(p, "back") /\ UNCHANGED dest
    /\ UNCHANGED <<os, github, old, Process, torn>>

\* The rename back, whose error is ignored.
Back(p) ==
    /\ at[p] = "back"
    /\ Goto(p, "none")
    /\ self' = [self EXCEPT ![p] = None] /\ rel' = [rel EXCEPT ![p] = None]
    /\ temp' = [temp EXCEPT ![p] = None] /\ ask' = [ask EXCEPT ![p] = Stable]
    /\ \/ /\ old # None /\ ~InUse("dest")
          /\ dest' = old /\ old' = None
          /\ image' = [Renamed("old", "dest") EXCEPT ![p] = "none"]
          /\ UNCHANGED <<faults, torn>>
       \/ /\ IF old = None \/ InUse("dest") THEN UNCHANGED faults
                ELSE faults < MaxFaults /\ faults' = faults + 1
          /\ torn' = TRUE
          /\ image' = [image EXCEPT ![p] = "none"]
          /\ UNCHANGED files
    /\ UNCHANGED <<os, github>>

Clean(p) ==
    /\ at[p] = "clean"
    /\ RemoveOld /\ Exit(p)
    /\ UNCHANGED <<os, github, dest, faults, torn>>

\* A call is refused, or the deadline of three minutes has passed.
Fails(p) ==
    /\ at[p] \in {"fetch", "get", "write", "swap", "aside"}
    /\ faults < MaxFaults /\ faults' = faults + 1
    /\ Exit(p)
    /\ UNCHANGED <<os, github, files, torn>>

\* The temporary file stays behind.
Killed(p) ==
    /\ at[p] # "none"
    /\ faults < MaxFaults /\ faults' = faults + 1
    /\ torn' = (torn \/ at[p] \in {"movein", "back"})
    /\ Exit(p)
    /\ UNCHANGED <<os, github, files>>

Upgrades(p) ==
    \/ Start(p) \/ Fetch(p) \/ Judge(p) \/ Get(p) \/ Write(p) \/ Verify(p)
    \/ Swap(p) \/ Clear(p) \/ Aside(p) \/ MoveIn(p) \/ Back(p) \/ Clean(p)

Next == Publish \/ \E p \in Proc : Upgrades(p) \/ Fails(p) \/ Killed(p)

Spec == Init /\ [][Next]_vars

-----------------------------------------------------------------------------
(***************************************************************************)
(* docs/SPEC.md:82 "atomic replace": whatever fails or is killed, and       *)
(* however upgrades overlap, the executable is a whole build; on Windows it *)
(* may be away between the two renames, for good only after a kill there or *)
(* two refused renames, and then .old is a whole build.                     *)
(***************************************************************************)
BinaryWhole ==
    /\ dest # Partial
    /\ dest = None => /\ os = "windows" /\ old \in Build
                      /\ torn \/ \E p \in Proc : at[p] \in {"movein", "back"}

(***************************************************************************)
(* README.md:25: a process whose build is a version replaces it only by a   *)
(* greater one.  Where GitHub gave a digest, what is installed is what was   *)
(* decided on, and not the rolling build that runs already -- although the  *)
(* release may change between reading it and the download.  Without a       *)
(* digest it may be any rolling build.                                      *)
(***************************************************************************)
Rank(build) == CHOOSE i \in DOMAIN Order : Order[i] = build.semver
Forward(from, to) == from.track = "release" /\ to.track = "release" => Rank(to) > Rank(from)
Another(from, to) == from.track = "devel" /\ to.track = "devel" => to.sha # from.sha

InstallsForward ==
    [][\A p \in Proc :
          (at[p] \in {"swap", "movein"} /\ at'[p] # at[p] /\ dest' # dest)
          => /\ Forward(self[p], dest')
             /\ rel[p].digest => dest' = rel[p].build /\ Another(self[p], dest')]_vars
=============================================================================
