------------------------------ MODULE StackEdits ------------------------------
(***************************************************************************)
(* Who writes stack.yaml: pages of the browser editor, through the server's *)
(* /api/v1/file (internal/web/handlers.go), and containerctl update --apply *)
(* (cmd/update.go, internal/config/update.go), which then recreates the      *)
(* containers whose image it has changed.  Each reads the whole file, changes *)
(* its part, and writes the whole back; only the editor's saves are           *)
(* conditional.                                                               *)
(***************************************************************************)
EXTENDS Versions, FiniteSets

CONSTANTS Page,       \* browser pages with the editor
          Name,       \* containers of the stack
          FirstTag,   \* the image tag stack.yaml declares for each
          Registry,   \* the tags the registry lists for each
          Held,       \* containers update leaves alone
          Hosts,      \* what the engine may hold to begin with
          MaxEdits,   \* bound: edits of each page
          MaxUpdates, \* bound: runs of update --apply
          MaxFaults   \* bound: failing calls and kills

Edit == {e \in Page \X Nat : e[2] \in 1..MaxEdits[e[1]]}
Tags == UNION {Registry[n] : n \in Name} \cup {FirstTag[n] : n \in Name}

ASSUME StackEditsAssumption ==
    /\ FirstTag \in [Name -> Tag] /\ Registry \in [Name -> SUBSET Tag]
    /\ Held \subseteq Name
    /\ MaxEdits \in [Page -> Nat] /\ MaxUpdates \in Nat /\ MaxFaults \in Nat

\* What has a name, or had it last.
Host == [owner : {"none", "ours", "unmanaged"}, image : Tag, running : BOOLEAN]

\* No container is of a tag ahead of stack.yaml.
ASSUME HostsAssumption ==
    /\ Hosts \subseteq [Name -> Host]
    /\ \A h \in Hosts : \A n \in Name : h[n].owner = "ours" =>
          ~Greater(h[n].image.ver, FirstTag[n].ver)

\* A text of the file: the edits it contains, and the images it declares.  The
\* ETag of a text is its hash, here the text itself.
Text == [edits : SUBSET Edit, image : [Name -> Tags]]
Broken == [edits |-> {}, image |-> <<>>]       \* truncated, or of two mixed texts
Original == [edits |-> {}, image |-> FirstTag]

VARIABLES text,    \* stack.yaml
          page,    \* the pages
          put,     \* the save each page has under way, as the server sees it
          upd,     \* the process update --apply
          ctr,     \* the engine's container of each name
          kept,    \* edits that a save has been acknowledged for
          raced,   \* a write was based on a text that was not the file's
          faults

vars == <<text, page, put, upd, ctr, kept, raced, faults>>

\* shows: the buffer.  base: the text it was read from, or was saved as.
\* etag: what it sends as If-Match.  owed: reads after a save, to be answered.
\* A save is early when such a read is still to be answered.
ClosedPage == [open |-> FALSE, shows |-> Original, base |-> Original, etag |-> Original,
               made |-> 0, owed |-> 0]
NoPut == [at |-> "none", body |-> Original, match |-> Original, seen |-> Original,
          early |-> FALSE]
NoUpd == [at |-> "idle", runs |-> 0, todo |-> {}, cur |-> "none", image |-> FirstTag,
          copy |-> Original, seen |-> Original]

Init ==
    /\ text = Original
    /\ page = [c \in Page |-> ClosedPage]
    /\ put = [c \in Page |-> NoPut]
    /\ upd = NoUpd
    /\ ctr \in Hosts
    /\ kept = {} /\ raced = FALSE /\ faults = 0

Fault == faults < MaxFaults /\ faults' = faults + 1

-----------------------------------------------------------------------------
\* The page: openEditor, typing, saveEditor, closeEditor.  An empty text leaves
\* it at "Loading..." for good.
Open(c) ==
    /\ ~page[c].open /\ text # Broken
    /\ page' = [page EXCEPT ![c].open = TRUE, ![c].shows = text, ![c].base = text,
                            ![c].etag = text]
    /\ UNCHANGED <<text, put, upd, ctr, kept, raced, faults>>

Type(c) ==
    /\ page[c].open /\ page[c].made < MaxEdits[c]
    /\ page' = [page EXCEPT ![c].made = @ + 1,
                            ![c].shows.edits = @ \cup {<<c, page[c].made + 1>>}]
    /\ UNCHANGED <<text, put, upd, ctr, kept, raced, faults>>

Save(c) ==
    /\ page[c].open /\ put[c].at = "none" /\ page[c].shows # page[c].base
    /\ put' = [put EXCEPT ![c] = [NoPut EXCEPT !.at = "check", !.body = page[c].shows,
                                               !.match = page[c].etag,
                                               !.early = page[c].owed > 0]]
    /\ UNCHANGED <<text, page, upd, ctr, kept, raced, faults>>

\* What remains of a page when the editor is closed, with :q! or after :wq.
Left(pg) == [ClosedPage EXCEPT !.made = pg.made, !.owed = pg.owed]

Close(c) ==
    /\ page[c].open /\ put[c].at = "none"
    /\ page' = [page EXCEPT ![c] = Left(@)]
    /\ UNCHANGED <<text, put, upd, ctr, kept, raced, faults>>

\* The page reads the file back after a save, for its ETag and nothing else.
ReadBack(c) ==
    /\ page[c].owed > 0
    /\ page' = [page EXCEPT ![c].owed = @ - 1, ![c].etag = IF page[c].open THEN text ELSE @]
    /\ raced' = (raced \/ (page[c].open /\ text # page[c].base))
    /\ UNCHANGED <<text, put, upd, ctr, kept, faults>>

-----------------------------------------------------------------------------
\* Mutant: If-Match is not compared.
ConflictsNever(c) == FALSE

\* The server: handleFileWrite.
Conflicts(c) == text # put[c].match

Check(c) ==
    /\ put[c].at = "check" /\ ~Conflicts(c)
    /\ put' = [put EXCEPT ![c].at = "write", ![c].seen = text]
    /\ UNCHANGED <<text, page, upd, ctr, kept, raced, faults>>

Conflict(c) ==
    /\ put[c].at = "check" /\ Conflicts(c)
    /\ put' = [put EXCEPT ![c] = NoPut]
    /\ UNCHANGED <<text, page, upd, ctr, kept, raced, faults>>

\* os.WriteFile truncates, then writes; another's bytes may be there by then.
Truncate(c) ==
    /\ put[c].at = "write"
    /\ put' = [put EXCEPT ![c].at = "writing"]
    /\ raced' = (raced \/ text # put[c].seen)
    /\ text' = Broken
    /\ UNCHANGED <<page, upd, ctr, kept, faults>>

Lands(body) == text' \in IF text = Broken THEN {body} ELSE {body, Broken}

\* Mutant: the page forgets to read its new ETag.
SavedForgets(c) == [page[c] EXCEPT !.base = put[c].body]

\* The page takes the 204.
Saved(c) == [page[c] EXCEPT !.base = put[c].body, !.owed = @ + 1]

Write(c) ==
    /\ put[c].at = "writing"
    /\ Lands(put[c].body)
    /\ \E after \in {Saved(c), Left(Saved(c))} : page' = [page EXCEPT ![c] = after]
    /\ kept' = kept \cup put[c].body.edits
    /\ put' = [put EXCEPT ![c] = NoPut]
    /\ UNCHANGED <<upd, ctr, raced, faults>>

-----------------------------------------------------------------------------
\* update --apply loads the stack and asks the registry, once (checkImage).
Pinned(n) == IsVersion(upd.image[n])
Updatable(n, image) ==
    ~IsVersion(image[n]) \/ SameMajor(image[n], Registry[n]) # {}

Begin ==
    /\ upd.at = "idle" /\ upd.runs < MaxUpdates /\ text # Broken
    /\ \E todo \in SUBSET {n \in Name \ Held : Updatable(n, text.image)} :
          upd' = [NoUpd EXCEPT !.at = "next", !.runs = upd.runs + 1, !.todo = todo,
                               !.image = text.image]
    /\ UNCHANGED <<text, page, put, ctr, kept, raced, faults>>

To(at) == upd' = [upd EXCEPT !.at = at]
NextName == upd' = [upd EXCEPT !.at = "next", !.todo = @ \ {upd.cur}, !.cur = "none",
                               !.copy = Original, !.seen = Original]

\* Mutant: any newer tag will do, of whatever major version.
TargetAny(n) ==
    IF Pinned(n) THEN Newest({t \in Registry[n] : Greater(t.ver, upd.image[n].ver)})
    ELSE {upd.image[n]}

Target(n) ==
    IF Pinned(n) THEN Newest(SameMajor(upd.image[n], Registry[n])) ELSE {upd.image[n]}

\* Mutant: the pull comes first.
TakePulls(n) ==
    /\ upd.at = "next" /\ n \in upd.todo
    /\ \E t \in Target(n) :
          upd' = [upd EXCEPT !.cur = n, !.at = "pull", !.image[n] = t]
    /\ UNCHANGED <<text, page, put, ctr, kept, raced, faults>>

Take(n) ==
    /\ upd.at = "next" /\ n \in upd.todo
    /\ \E t \in Target(n) :
          upd' = [upd EXCEPT !.cur = n, !.image[n] = t,
                             !.at = IF Pinned(n) THEN "read" ELSE "pull"]
    /\ UNCHANGED <<text, page, put, ctr, kept, raced, faults>>

\* UpdateContainerImage finds no line of the name in a truncated text.
Read ==
    /\ upd.at = "read"
    /\ IF text = Broken THEN NextName
       ELSE upd' = [upd EXCEPT !.at = "write", !.seen = text,
                               !.copy = [text EXCEPT !.image[upd.cur] = upd.image[upd.cur]]]
    /\ UNCHANGED <<text, page, put, ctr, kept, raced, faults>>

TruncateByUpdate ==
    /\ upd.at = "write"
    /\ To("writing")
    /\ raced' = (raced \/ text # upd.seen)
    /\ text' = Broken
    /\ UNCHANGED <<page, put, ctr, kept, faults>>

WriteByUpdate ==
    /\ upd.at = "writing"
    /\ Lands(upd.copy)
    /\ upd' = [upd EXCEPT !.at = "pull", !.copy = Original, !.seen = Original]
    /\ UNCHANGED <<page, put, ctr, kept, raced, faults>>

Pull == upd.at = "pull" /\ To("inspect") /\ UNCHANGED <<text, page, put, ctr, kept, raced, faults>>

Inspect ==
    /\ upd.at = "inspect"
    /\ CASE ctr[upd.cur].owner = "none" -> To("create")
         [] ctr[upd.cur].owner = "ours" -> To("stop")
         [] OTHER -> NextName
    /\ UNCHANGED <<text, page, put, ctr, kept, raced, faults>>

Engine(at, next, after) ==
    /\ upd.at = at
    /\ ctr' = [ctr EXCEPT ![upd.cur] = after]
    /\ next
    /\ UNCHANGED <<text, page, put, kept, raced, faults>>

Stop == Engine("stop", To("remove"), [ctr[upd.cur] EXCEPT !.running = FALSE])
Remove == Engine("remove", To("create"), [ctr[upd.cur] EXCEPT !.owner = "none"])
Create == Engine("create", To("start"),
                 [owner |-> "ours", image |-> upd.image[upd.cur], running |-> FALSE])
Start == Engine("start", NextName, [ctr[upd.cur] EXCEPT !.running = TRUE])

\* Every failure is printed, and the next container is taken.
Fails ==
    /\ upd.at \in {"read", "write", "pull", "inspect", "stop", "remove", "create", "start"}
    /\ Fault /\ NextName
    /\ UNCHANGED <<text, page, put, ctr, kept, raced>>

End == upd.at = "next" /\ upd.todo = {} /\ To("idle")
       /\ UNCHANGED <<text, page, put, ctr, kept, raced, faults>>

Killed ==
    /\ upd.at # "idle" /\ Fault /\ To("idle")
    /\ UNCHANGED <<text, page, put, ctr, kept, raced>>

Editing(c) ==
    \/ Open(c) \/ Type(c) \/ Save(c) \/ Close(c) \/ ReadBack(c)
    \/ Check(c) \/ Conflict(c) \/ Truncate(c) \/ Write(c)
Updating ==
    \/ Begin \/ (\E n \in Name : Take(n)) \/ Read \/ TruncateByUpdate \/ WriteByUpdate
    \/ Pull \/ Inspect \/ Stop \/ Remove \/ Create \/ Start \/ Fails \/ End

Next == (\E c \in Page : Editing(c)) \/ Updating \/ Killed

Spec == Init /\ [][Next]_vars

-----------------------------------------------------------------------------
(***************************************************************************)
(* What a save was acknowledged for stays in the file, through saves of    *)
(* other pages and through update --apply -- unless a write raced: it was   *)
(* based on a text that was no longer the file's, or a page took the ETag   *)
(* of a text it does not show (saveEditor reads it back after a save).      *)
(***************************************************************************)
SavesKept == ~raced /\ text # Broken => kept \subseteq text.edits

(***************************************************************************)
(* docs/SPEC.md:1177 "If they differ (another client wrote in the           *)
(* meantime): returns 409": a page whose own last save is the file's text   *)
(* is not told of a conflict, if its earlier saves have been read back --    *)
(* unless a write raced.  (A page that has read back the ETag of another's   *)
(* text is told of one even when an update has written its text again.)      *)
(***************************************************************************)
ConflictMeansChange ==
    [][\A c \in Page :
          put[c].at = "check" /\ put'[c].at = "none"
             => text # page[c].base \/ put[c].early \/ raced]_vars

(***************************************************************************)
(* The new image is declared before a container of it is created, whatever *)
(* fails or ends the process in between (runCheckUpdate): the next apply    *)
(* brings no container back to an older image, unless a write raced.        *)
(***************************************************************************)
NeverAhead ==
    ~raced /\ text # Broken =>
        \A n \in Name : ctr[n].owner = "ours" =>
            ~Greater(ctr[n].image.ver, text.image[n].ver)

(***************************************************************************)
(* cmd/update.go:38 "Major version bumps always require a manual tag        *)
(* change": however many updates and racing saves there have been, a tag in *)
(* the file is the first one or a greater one of its major version.         *)
(***************************************************************************)
StaysInMajor ==
    text # Broken =>
        \A n \in Name :
            \/ text.image[n] = FirstTag[n]
            \/ /\ SameKind(text.image[n], FirstTag[n])
               /\ text.image[n].ver[1] = FirstTag[n].ver[1]
               /\ Greater(text.image[n].ver, FirstTag[n].ver)
=============================================================================
