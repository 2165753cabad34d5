--------------------------- MODULE StackEditsProofs ---------------------------
(***************************************************************************)
(* Proofs about StackEdits, for any pages, containers and registry, and any *)
(* number of edits, updates and faults.                                      *)
(***************************************************************************)
EXTENDS StackEdits, TLAPS

LEMMA GreaterTransitive ==
    ASSUME NEW a \in Version, NEW b \in Version, NEW c \in Version,
           Greater(a, b), Greater(b, c)
    PROVE  Greater(a, c)
<1>1. /\ Len(a) \in Nat /\ Len(b) \in Nat /\ Len(c) \in Nat
      /\ \A i \in 1..Len(a) : a[i] \in Nat
      /\ \A i \in 1..Len(b) : b[i] \in Nat
      /\ \A i \in 1..Len(c) : c[i] \in Nat
  BY DEF Version
<1>2. ASSUME NEW i \in 1..Len(a), DifferAt(a, b, i), a[i] > b[i] PROVE Greater(a, c)
  <2>1. i \in 1..Len(b) /\ \A j \in 1..(i - 1) : a[j] = b[j]
    BY <1>2 DEF DifferAt
  <2>2. ASSUME NEW j \in 1..Len(b), DifferAt(b, c, j), b[j] > c[j] PROVE Greater(a, c)
    <3>1. j \in 1..Len(c) /\ \A k \in 1..(j - 1) : b[k] = c[k]
      BY <2>2 DEF DifferAt
    <3>2. CASE i <= j
      <4>1. i \in 1..Len(c) /\ a[i] > c[i]
        BY <1>1, <1>2, <2>1, <2>2, <3>1, <3>2
      <4>2. \A k \in 1..(i - 1) : a[k] = c[k]
        BY <1>1, <2>1, <3>1, <3>2
      <4>3. QED
        BY <1>1, <4>1, <4>2 DEF Greater, DifferAt
    <3>3. CASE j < i
      <4>1. j \in 1..Len(a) /\ a[j] = b[j] /\ a[j] > c[j]
        BY <1>1, <2>1, <2>2, <3>3
      <4>2. \A k \in 1..(j - 1) : a[k] = c[k]
        BY <1>1, <2>1, <3>1, <3>3
      <4>3. QED
        BY <1>1, <3>1, <4>1, <4>2 DEF Greater, DifferAt
    <3>4. QED
      BY <1>1, <3>2, <3>3
  <2>3. ASSUME Len(b) > Len(c), \A j \in 1..Len(c) : b[j] = c[j] PROVE Greater(a, c)
    <3>1. CASE i <= Len(c)
      <4>1. i \in 1..Len(c) /\ a[i] > c[i]
        BY <1>1, <1>2, <2>3, <3>1
      <4>2. \A k \in 1..(i - 1) : a[k] = c[k]
        BY <1>1, <2>1, <2>3, <3>1
      <4>3. DifferAt(a, c, i)
        BY <1>1, <4>1, <4>2 DEF DifferAt
      <4>4. QED
        BY <4>1, <4>3 DEF Greater
    <3>2. CASE i > Len(c)
      <4>1. Len(a) > Len(c) /\ \A k \in 1..Len(c) : a[k] = c[k]
        BY <1>1, <2>1, <2>3, <3>2
      <4>2. QED
        BY <4>1 DEF Greater
    <3>3. QED
      BY <1>1, <3>1, <3>2
  <2>4. QED
    BY <2>2, <2>3 DEF Greater
<1>3. ASSUME Len(a) > Len(b), \A i \in 1..Len(b) : a[i] = b[i] PROVE Greater(a, c)
  <2>1. ASSUME NEW j \in 1..Len(b), DifferAt(b, c, j), b[j] > c[j] PROVE Greater(a, c)
    <3>1. j \in 1..Len(c) /\ \A k \in 1..(j - 1) : b[k] = c[k]
      BY <2>1 DEF DifferAt
    <3>2. j \in 1..Len(a) /\ a[j] > c[j] /\ \A k \in 1..(j - 1) : a[k] = c[k]
      BY <1>1, <1>3, <2>1, <3>1
    <3>3. QED
      BY <1>1, <3>1, <3>2 DEF Greater, DifferAt
  <2>2. ASSUME Len(b) > Len(c), \A j \in 1..Len(c) : b[j] = c[j] PROVE Greater(a, c)
    <3>1. Len(a) > Len(c) /\ \A k \in 1..Len(c) : a[k] = c[k]
      BY <1>1, <1>3, <2>2
    <3>2. QED
      BY <3>1 DEF Greater
  <2>3. QED
    BY <2>1, <2>2 DEF Greater
<1>4. QED
  BY <1>2, <1>3 DEF Greater

\* A version is not greater than itself.
LEMMA GreaterIrreflexive ==
    ASSUME NEW a \in Version
    PROVE  ~Greater(a, a)
BY DEF Greater, DifferAt, Version

-----------------------------------------------------------------------------
(***************************************************************************)
(* Every text there is -- in the file, in a page, in a save, in an update   *)
(* -- declares the first tags or greater ones of the same major version.    *)
(***************************************************************************)
Within(t, first) ==
    \/ t = first
    \/ SameKind(t, first) /\ t.ver[1] = first.ver[1] /\ Greater(t.ver, first.ver)

Images == {image \in [Name -> Tag] : \A n \in Name : Within(image[n], FirstTag[n])}
Texts == [edits : SUBSET (Page \X Nat), image : Images]
Contents == Texts \cup {Broken}

PageRecord == [open : BOOLEAN, shows : Texts, base : Texts, etag : Contents,
               made : Nat, owed : Nat]
PutRecord == [at : {"none", "check", "write", "writing"}, body : Texts,
              match : Contents, seen : Contents, early : BOOLEAN]
UpdatePoints == {"idle", "next", "read", "write", "writing", "pull", "inspect",
                 "stop", "remove", "create", "start"}
UpdateRecord == [at : UpdatePoints, runs : Nat, todo : SUBSET Name,
                 cur : Name \cup {"none"}, image : Images, copy : Texts, seen : Contents]

Typed ==
    /\ text \in Contents
    /\ page \in [Page -> PageRecord]
    /\ put \in [Page -> PutRecord]
    /\ upd \in UpdateRecord

LEMMA WithinNewer ==
    ASSUME NEW first \in Tag, NEW cur \in Tag, NEW tags \in SUBSET Tag,
           NEW t \in Newest(SameMajor(cur, tags)), IsVersion(cur), Within(cur, first)
    PROVE  t \in Tag /\ Within(t, first)
<1>1. t \in Tag /\ SameKind(t, cur) /\ t.ver[1] = cur.ver[1] /\ Greater(t.ver, cur.ver)
  BY DEF Newest, SameMajor
<1>2. CASE cur = first
  BY <1>1, <1>2 DEF Within
<1>3. CASE SameKind(cur, first) /\ cur.ver[1] = first.ver[1] /\ Greater(cur.ver, first.ver)
  <2>1. first.ver \in Version /\ cur.ver \in Version /\ t.ver \in Version
    BY <1>1 DEF Tag
  <2>2. Greater(t.ver, first.ver)
    BY <1>1, <1>3, <2>1, GreaterTransitive
  <2>3. SameKind(t, first) /\ t.ver[1] = first.ver[1]
    BY <1>1, <1>3 DEF SameKind
  <2>4. QED
    BY <1>1, <2>2, <2>3 DEF Within
<1>4. QED
  BY <1>2, <1>3 DEF Within

LEMMA FirstTexts ==
    /\ FirstTag \in Images /\ Original \in Texts
    /\ ClosedPage \in PageRecord /\ NoPut \in PutRecord /\ NoUpd \in UpdateRecord
<1>1. FirstTag \in Images
  BY StackEditsAssumption DEF Images, Within
<1>2. Original \in Texts
  BY <1>1 DEF Original, Texts
<1>3. QED
  BY <1>1, <1>2 DEF ClosedPage, NoPut, NoUpd, PageRecord, PutRecord, UpdateRecord, Contents,
                    UpdatePoints

LEMMA EditingTyped ==
    ASSUME Typed, NEW c \in Page, Editing(c)
    PROVE  Typed'
<1> USE DEF Typed
<1>1. page[c] \in PageRecord /\ put[c] \in PutRecord /\ text \in Contents
  OBVIOUS
<1>2. CASE Open(c)
  <2>1. text \in Texts
    BY <1>1, <1>2 DEF Open, Contents
  <2>2. page' \in [Page -> PageRecord]
    BY <1>1, <1>2, <2>1 DEF Open, PageRecord, Contents
  <2>3. QED
    BY <1>2, <2>2 DEF Open
<1>3. CASE Type(c)
  <2>1. page[c].shows \in Texts /\ page[c].made + 1 \in Nat
    BY <1>1 DEF PageRecord
  <2>2. [page[c].shows EXCEPT !.edits = @ \cup {<<c, page[c].made + 1>>}] \in Texts
    BY <2>1 DEF Texts
  <2>3. PICK shows \in Texts :
          page' = [page EXCEPT ![c].made = @ + 1, ![c].shows = shows]
    BY <1>3, <2>2 DEF Type
  <2>4. page' \in [Page -> PageRecord]
    BY <1>1, <2>1, <2>3 DEF PageRecord
  <2>5. QED
    BY <1>3, <2>4 DEF Type
<1>4. CASE Save(c)
  <2>1. /\ page[c].shows \in Texts /\ page[c].etag \in Contents
        /\ (page[c].owed > 0) \in BOOLEAN
    BY <1>1 DEF PageRecord
  <2>2. PICK early \in BOOLEAN : early = (page[c].owed > 0)
    BY <2>1
  <2>3. [NoPut EXCEPT !.at = "check", !.body = page[c].shows, !.match = page[c].etag,
                      !.early = early] \in PutRecord
    BY <2>1, FirstTexts DEF PutRecord
  <2>4. put' = [put EXCEPT ![c] = [NoPut EXCEPT !.at = "check", !.body = page[c].shows,
                                               !.match = page[c].etag, !.early = early]]
    BY <1>4, <2>2 DEF Save
  <2>5. put' \in [Page -> PutRecord]
    BY <2>3, <2>4
  <2>6. QED
    BY <1>4, <2>5 DEF Save
<1>5. CASE Close(c)
  <2>1. Left(page[c]) \in PageRecord
    BY <1>1, FirstTexts DEF Left, PageRecord
  <2>2. QED
    BY <1>5, <2>1 DEF Close
<1>6. CASE ReadBack(c)
  <2>1. PICK etag \in Contents : etag = IF page[c].open THEN text ELSE page[c].etag
    BY <1>1 DEF PageRecord
  <2>2. page[c].owed - 1 \in Nat
    BY <1>1, <1>6 DEF ReadBack, PageRecord
  <2>3. [page[c] EXCEPT !.owed = page[c].owed - 1, !.etag = etag] \in PageRecord
    BY <1>1, <2>1, <2>2 DEF PageRecord
  <2>4. page' = [page EXCEPT ![c] = [page[c] EXCEPT !.owed = page[c].owed - 1, !.etag = etag]]
    BY <1>1, <1>6, <2>1 DEF ReadBack, PageRecord
  <2>5. QED
    BY <1>6, <2>3, <2>4 DEF ReadBack
<1>7. CASE Check(c) \/ Conflict(c)
  <2>1. put' \in [Page -> PutRecord]
    BY <1>1, <1>7, FirstTexts DEF Check, Conflict, PutRecord
  <2>2. QED
    BY <1>7, <2>1 DEF Check, Conflict
<1>8. CASE Truncate(c)
  <2>1. put' \in [Page -> PutRecord]
    BY <1>1, <1>8 DEF Truncate, PutRecord
  <2>2. QED
    BY <1>8, <2>1 DEF Truncate, Contents
<1>9. CASE Write(c)
  <2>1. Saved(c) \in PageRecord
    <3>1. put[c].body \in Texts /\ page[c].owed + 1 \in Nat
      BY <1>1 DEF PageRecord, PutRecord
    <3>2. Saved(c) = [page[c] EXCEPT !.base = put[c].body, !.owed = page[c].owed + 1]
      BY DEF Saved
    <3>3. QED
      BY <1>1, <3>1, <3>2 DEF PageRecord
  <2>2. Left(Saved(c)) \in PageRecord
    BY <2>1, FirstTexts DEF Left, PageRecord
  <2>3. page' \in [Page -> PageRecord] /\ put' \in [Page -> PutRecord]
    BY <1>9, <2>1, <2>2, FirstTexts DEF Write
  <2>4. text' \in Contents
    BY <1>1, <1>9 DEF Write, Lands, PutRecord, Contents
  <2>5. QED
    BY <1>9, <2>3, <2>4 DEF Write
<1>10. QED
  BY <1>2, <1>3, <1>4, <1>5, <1>6, <1>7, <1>8, <1>9 DEF Editing

LEMMA TargetTyped ==
    ASSUME Typed, NEW n \in Name, NEW t \in Target(n)
    PROVE  [upd.image EXCEPT ![n] = t] \in Images
<1>1. upd.image \in [Name -> Tag] /\ \A m \in Name : Within(upd.image[m], FirstTag[m])
  BY DEF Typed, UpdateRecord, Images
<1>2. FirstTag[n] \in Tag /\ Registry[n] \in SUBSET Tag /\ upd.image[n] \in Tag
  BY <1>1, StackEditsAssumption
<1>3. CASE Pinned(n)
  BY <1>1, <1>2, <1>3, WithinNewer DEF Target, Pinned, Images
<1>4. CASE ~Pinned(n)
  BY <1>1, <1>2, <1>4 DEF Target, Images
<1>5. QED
  BY <1>3, <1>4

LEMMA UpdatingTyped ==
    ASSUME Typed, Updating \/ Killed
    PROVE  Typed'
<1> USE DEF Typed
<1>1. upd \in UpdateRecord /\ text \in Contents
  OBVIOUS
<1>2. [upd EXCEPT !.at = "next", !.todo = @ \ {upd.cur}, !.cur = "none",
                  !.copy = Original, !.seen = Original] \in UpdateRecord
  BY <1>1, FirstTexts DEF UpdateRecord, UpdatePoints, Contents
<1>3. \A point \in UpdatePoints : [upd EXCEPT !.at = point] \in UpdateRecord
  BY <1>1 DEF UpdateRecord
<1>4. NextName => upd' \in UpdateRecord
  BY <1>2 DEF NextName
<1>5. \A point \in UpdatePoints : To(point) => upd' \in UpdateRecord
  BY <1>3 DEF To
<1> HIDE DEF Typed
<1>6. CASE Begin
  <2>1. text \in Texts
    BY <1>1, <1>6 DEF Begin, Contents
  <2>2. PICK todo \in SUBSET Name :
          upd' = [NoUpd EXCEPT !.at = "next", !.runs = upd.runs + 1, !.todo = todo,
                               !.image = text.image]
    BY <1>6 DEF Begin
  <2>3. text.image \in Images /\ upd.runs + 1 \in Nat
    BY <1>1, <2>1 DEF Texts, UpdateRecord
  <2>4. upd' \in UpdateRecord
    BY <2>2, <2>3, FirstTexts DEF UpdateRecord, UpdatePoints
  <2>5. QED
    BY <1>6, <2>4 DEF Begin, Typed
<1>7. ASSUME NEW n \in Name, Take(n) PROVE Typed'
  <2>1. PICK t \in Target(n) :
          upd' = [upd EXCEPT !.cur = n, !.image[n] = t,
                             !.at = IF Pinned(n) THEN "read" ELSE "pull"]
    BY <1>7 DEF Take
  <2>2. PICK image \in Images : image = [upd.image EXCEPT ![n] = t]
    BY TargetTyped
  <2>3. PICK point \in {"read", "pull"} : point = IF Pinned(n) THEN "read" ELSE "pull"
    OBVIOUS
  <2>4. upd' = [upd EXCEPT !.cur = n, !.image = image, !.at = point]
    BY <1>1, <2>1, <2>2, <2>3 DEF UpdateRecord
  <2>5. upd' \in UpdateRecord
    BY <1>1, <2>2, <2>4 DEF UpdateRecord, UpdatePoints
  <2>6. QED
    BY <1>7, <2>5 DEF Take, Typed
<1>8. CASE Read
  <2>1. CASE text = Broken
    BY <1>4, <1>8, <2>1 DEF Read, Typed
  <2>2. CASE text # Broken
    <3>1. text \in Texts
      BY <1>1, <2>2 DEF Contents
    <3>2. PICK copy : copy = [text EXCEPT !.image[upd.cur] = upd.image[upd.cur]]
      OBVIOUS
    <3>3. copy \in Texts
      BY <1>1, <3>1, <3>2 DEF Texts, Images, UpdateRecord
    <3>4. upd' = [upd EXCEPT !.at = "write", !.seen = text, !.copy = copy]
      BY <1>8, <2>2, <3>2 DEF Read
    <3>5. upd' \in UpdateRecord
      BY <1>1, <3>3, <3>4 DEF UpdateRecord, UpdatePoints
    <3>6. QED
      BY <1>8, <3>5 DEF Read, Typed
  <2>3. QED
    BY <2>1, <2>2
<1>9. CASE TruncateByUpdate
  BY <1>5, <1>9 DEF TruncateByUpdate, Typed, UpdatePoints, Contents
<1>10. CASE WriteByUpdate
  <2>1. upd' \in UpdateRecord
    BY <1>1, <1>10, FirstTexts DEF WriteByUpdate, UpdateRecord, UpdatePoints, Contents
  <2>2. text' \in Contents
    BY <1>1, <1>10 DEF WriteByUpdate, Lands, UpdateRecord, Contents
  <2>3. QED
    BY <1>10, <2>1, <2>2 DEF WriteByUpdate, Typed
<1>11. CASE Pull \/ Inspect
  BY <1>4, <1>5, <1>11 DEF Pull, Inspect, Typed, UpdatePoints
<1>12. CASE Stop \/ Remove \/ Create \/ Start
  BY <1>4, <1>5, <1>12 DEF Stop, Remove, Create, Start, Engine, Typed, UpdatePoints
<1>13. CASE Fails \/ End \/ Killed
  BY <1>4, <1>5, <1>13 DEF Fails, End, Killed, Typed, UpdatePoints
<1>14. QED
  BY <1>6, <1>7, <1>8, <1>9, <1>10, <1>11, <1>12, <1>13 DEF Updating

(***************************************************************************)
(* However pages and updates race, every text there is declares tags of the *)
(* first major versions (internal/registry/tags.go, cmd/update.go).          *)
(***************************************************************************)
THEOREM TextsTyped == Spec => []Typed
<1>1. Init => Typed
  BY FirstTexts DEF Init, Typed, Contents
<1>2. Typed /\ [Next]_vars => Typed'
  BY EditingTyped, UpdatingTyped DEF Next, vars, Typed
<1>3. QED
  BY <1>1, <1>2, PTL DEF Spec

(***************************************************************************)
(* A tag in stack.yaml is the first one or a greater one of its major       *)
(* version, after any number of updates and of saves that race with them.   *)
(***************************************************************************)
THEOREM MajorStays == Spec => []StaysInMajor
<1>1. Typed => StaysInMajor
  BY DEF Typed, Contents, Texts, Images, Within, StaysInMajor
<1>2. QED
  BY TextsTyped, <1>1, PTL

-----------------------------------------------------------------------------
(***************************************************************************)
(* While no write has raced: a page shows the text it was read from and its *)
(* own edits; whoever is about to write, or is writing, has the last whole   *)
(* text of the file in what it writes; and that text has every edit that was *)
(* acknowledged and declares no older tag than a container was created from. *)
(***************************************************************************)
Extends(t, u) == t.edits \subseteq u.edits /\ t.image = u.image

PageSound(c) ==
    /\ Extends(page[c].base, page[c].shows)
    /\ page[c].open => page[c].base # Broken /\ page[c].shows # Broken
    /\ put[c].at # "none" => /\ page[c].open /\ put[c].body # Broken
                             /\ Extends(put[c].body, page[c].shows)
    /\ ~raced /\ page[c].open =>
         page[c].etag # Broken /\ Extends(page[c].etag, page[c].shows)
    /\ ~raced /\ put[c].at = "check" =>
         put[c].match # Broken /\ Extends(put[c].match, put[c].body)
    /\ ~raced /\ put[c].at \in {"write", "writing"} =>
         put[c].seen # Broken /\ Extends(put[c].seen, put[c].body)

UpdateSound ==
    /\ upd.at \notin {"idle", "next"} => upd.cur \in Name
    /\ upd.at \in {"write", "writing"} =>
         /\ upd.seen # Broken
         /\ upd.copy = [upd.seen EXCEPT !.image[upd.cur] = upd.image[upd.cur]]

CtrSound ==
    /\ ctr \in [Name -> Host]
    /\ \A n \in Name : ctr[n].owner = "ours" => ctr[n].image \in Tag

OneWriter ==
    /\ \A c \in Page : put[c].at = "writing" =>
          /\ text = Broken /\ upd.at # "writing"
          /\ \A d \in Page \ {c} : put[d].at # "writing"
    /\ upd.at = "writing" => text = Broken

LastWhole(t) ==
    \/ t = text /\ t # Broken
    \/ \E c \in Page : put[c].at = "writing" /\ t = put[c].seen
    \/ upd.at = "writing" /\ t = upd.seen

Waiting == IF upd.at = "next" THEN upd.todo ELSE upd.todo \ {upd.cur}
Behind(t) == \A n \in Name : ctr[n].owner = "ours" =>
                               ~Greater(ctr[n].image.ver, t.image[n].ver)
Updated(t) ==
    /\ upd.at # "idle" => \A n \in Waiting : t.image[n] = upd.image[n]
    /\ upd.at \in {"read", "write", "writing"} =>
         Greater(upd.image[upd.cur].ver, t.image[upd.cur].ver)
    /\ upd.at \in {"pull", "inspect", "stop", "remove", "create", "start"} =>
         t.image[upd.cur] = upd.image[upd.cur]

FileSound == \A t \in Texts : LastWhole(t) => kept \subseteq t.edits /\ Behind(t) /\ Updated(t)

EditInv ==
    /\ Typed /\ CtrSound /\ UpdateSound
    /\ \A c \in Page : PageSound(c)
    /\ ~raced => OneWriter /\ FileSound

LEMMA InitEdits == Init => EditInv
<1> SUFFICES ASSUME Init PROVE EditInv
  OBVIOUS
<1>1. Typed
  BY FirstTexts DEF Init, Typed, Contents
<1>2. CtrSound /\ UpdateSound
  BY HostsAssumption DEF Init, CtrSound, Host, UpdateSound, NoUpd
<1>3. \A c \in Page : PageSound(c)
  BY DEF Init, PageSound, ClosedPage, NoPut, Extends
<1>4. OneWriter
  BY DEF Init, OneWriter, NoPut, NoUpd
<1>5. FileSound
  <2>1. ASSUME NEW t \in Texts, LastWhole(t) PROVE t = Original
    BY <2>1 DEF LastWhole, Init, NoPut, NoUpd
  <2>2. Behind(Original)
    BY HostsAssumption DEF Behind, Init, Original
  <2>3. Updated(Original)
    BY DEF Updated, Init, NoUpd
  <2>4. QED
    BY <2>1, <2>2, <2>3 DEF FileSound, Init
<1>6. QED
  BY <1>1, <1>2, <1>3, <1>4, <1>5 DEF EditInv

\* A step of a page that touches no file.
LEMMA QuietStep ==
    ASSUME OneWriter, FileSound, UNCHANGED <<text, upd, ctr, kept>>,
           \A d \in Page : put'[d].at = "writing" =>
              put[d].at = "writing" /\ put'[d].seen = put[d].seen
    PROVE  OneWriter' /\ FileSound'
<1>1. OneWriter'
  BY DEF OneWriter
<1>2. \A t : LastWhole(t)' => LastWhole(t)
  BY DEF LastWhole
<1>3. \A t : Behind(t)' = Behind(t) /\ Updated(t)' = Updated(t)
  BY DEF Behind, Updated, Waiting
<1>4. FileSound'
  BY <1>2, <1>3 DEF FileSound
<1>5. QED
  BY <1>1, <1>4

\* What a step of one page leaves alone.
LEMMA PageStep ==
    ASSUME EditInv, NEW c \in Page, Editing(c),
           UNCHANGED <<upd, ctr>>, raced => raced',
           \A d \in Page \ {c} : page'[d] = page[d] /\ put'[d] = put[d],
           PageSound(c)',
           ~raced' => OneWriter' /\ FileSound'
    PROVE  EditInv'
<1>1. Typed'
  BY EditingTyped DEF EditInv
<1>2. CtrSound' /\ UpdateSound'
  BY DEF EditInv, CtrSound, UpdateSound
<1>3. \A d \in Page : PageSound(d)'
  BY DEF EditInv, PageSound
<1>4. QED
  BY <1>1, <1>2, <1>3 DEF EditInv

LEMMA PageTypes ==
    ASSUME EditInv, NEW c \in Page
    PROVE  /\ page[c] \in PageRecord /\ put[c] \in PutRecord /\ text \in Contents
           /\ page \in [Page -> PageRecord] /\ put \in [Page -> PutRecord]
           /\ PageSound(c)
BY DEF EditInv, Typed

LEMMA ExtendsReflexive == \A t : Extends(t, t)
BY DEF Extends

LEMMA ExtendsTransitive ==
    \A t, u, v : Extends(t, u) /\ Extends(u, v) => Extends(t, v)
BY DEF Extends

LEMMA OpenEdits ==
    ASSUME EditInv, NEW c \in Page, Open(c)
    PROVE  EditInv'
<1> USE PageTypes
<1>1. /\ page'[c].open = TRUE /\ page'[c].shows = text /\ page'[c].base = text
      /\ page'[c].etag = text
  BY DEF Open, PageRecord
<1>2. put' = put /\ text # Broken /\ raced' = raced /\ ~page[c].open
  BY DEF Open
<1>3. put[c].at = "none"
  BY <1>2 DEF PageSound
<1>4. PageSound(c)'
  BY <1>1, <1>2, <1>3, ExtendsReflexive DEF PageSound
<1>5. \A d \in Page \ {c} : page'[d] = page[d]
  BY DEF Open
<1>6. ~raced' => OneWriter' /\ FileSound'
  BY <1>2, QuietStep DEF Open, EditInv
<1>7. Editing(c) /\ UNCHANGED <<upd, ctr>>
  BY DEF Open, Editing
<1>8. QED
  BY <1>2, <1>4, <1>5, <1>6, <1>7, PageStep

LEMMA TypeEdits ==
    ASSUME EditInv, NEW c \in Page, Type(c)
    PROVE  EditInv'
<1> USE PageTypes
<1>1. PICK shows : shows = [page[c].shows EXCEPT !.edits = @ \cup {<<c, page[c].made + 1>>}]
  OBVIOUS
<1>2. page[c].shows \in Texts
  BY DEF PageRecord
<1>3. Extends(page[c].shows, shows) /\ shows # Broken
  BY <1>1, <1>2 DEF Extends, Texts, Broken
<1>4. /\ page'[c].open = page[c].open /\ page'[c].shows = shows
      /\ page'[c].base = page[c].base /\ page'[c].etag = page[c].etag
  BY <1>1 DEF Type, PageRecord
<1>5. put' = put /\ raced' = raced
  BY DEF Type
<1>6. PageSound(c)'
  BY <1>3, <1>4, <1>5, ExtendsTransitive DEF PageSound
<1>7. \A d \in Page \ {c} : page'[d] = page[d]
  BY DEF Type
<1>8. ~raced' => OneWriter' /\ FileSound'
  BY <1>5, QuietStep DEF Type, EditInv
<1>9. Editing(c) /\ UNCHANGED <<upd, ctr>>
  BY DEF Type, Editing
<1>10. QED
  BY <1>5, <1>6, <1>7, <1>8, <1>9, PageStep

LEMMA SaveEdits ==
    ASSUME EditInv, NEW c \in Page, Save(c)
    PROVE  EditInv'
<1> USE PageTypes
<1>1. /\ put'[c].at = "check" /\ put'[c].body = page[c].shows
      /\ put'[c].match = page[c].etag
  BY DEF Save, NoPut
<1>2. page' = page /\ page[c].open /\ raced' = raced
  BY DEF Save
<1>3. PageSound(c)'
  BY <1>1, <1>2, ExtendsReflexive DEF PageSound
<1>4. \A d \in Page \ {c} : put'[d] = put[d]
  BY DEF Save
<1>5. ~raced' => OneWriter' /\ FileSound'
  BY <1>1, <1>2, <1>4, QuietStep DEF Save, EditInv
<1>6. Editing(c) /\ UNCHANGED <<upd, ctr>>
  BY DEF Save, Editing
<1>7. QED
  BY <1>2, <1>3, <1>4, <1>5, <1>6, PageStep

LEMMA CloseEdits ==
    ASSUME EditInv, NEW c \in Page, Close(c)
    PROVE  EditInv'
<1> USE PageTypes
<1>1. /\ page'[c].open = FALSE /\ page'[c].shows = Original /\ page'[c].base = Original
  BY DEF Close, Left, ClosedPage
<1>2. put' = put /\ put[c].at = "none" /\ raced' = raced
  BY DEF Close
<1>3. PageSound(c)'
  BY <1>1, <1>2, ExtendsReflexive DEF PageSound
<1>4. \A d \in Page \ {c} : page'[d] = page[d]
  BY DEF Close
<1>5. ~raced' => OneWriter' /\ FileSound'
  BY <1>2, QuietStep DEF Close, EditInv
<1>6. Editing(c) /\ UNCHANGED <<upd, ctr>>
  BY DEF Close, Editing
<1>7. QED
  BY <1>2, <1>3, <1>4, <1>5, <1>6, PageStep

LEMMA ReadBackEdits ==
    ASSUME EditInv, NEW c \in Page, ReadBack(c)
    PROVE  EditInv'
<1> USE PageTypes
<1>1. /\ page'[c].open = page[c].open /\ page'[c].shows = page[c].shows
      /\ page'[c].base = page[c].base
      /\ page'[c].etag = IF page[c].open THEN text ELSE page[c].etag
  BY DEF ReadBack, PageRecord
<1>2. put' = put /\ raced' = (raced \/ (page[c].open /\ text # page[c].base))
  BY DEF ReadBack
<1>3. PageSound(c)'
  BY <1>1, <1>2 DEF PageSound
<1>4. \A d \in Page \ {c} : page'[d] = page[d]
  BY DEF ReadBack
<1>5. ~raced' => OneWriter' /\ FileSound'
  BY <1>2, QuietStep DEF ReadBack, EditInv
<1>6. Editing(c) /\ UNCHANGED <<upd, ctr>>
  BY DEF ReadBack, Editing
<1>7. QED
  BY <1>2, <1>3, <1>4, <1>5, <1>6, PageStep

LEMMA CheckEdits ==
    ASSUME EditInv, NEW c \in Page, Check(c) \/ Conflict(c)
    PROVE  EditInv'
<1> USE PageTypes
<1>1. page' = page /\ raced' = raced /\ put[c].at = "check" /\ put'[c].at \in {"write", "none"}
  BY DEF Check, Conflict, NoPut, PutRecord
<1>2. Check(c) => /\ put'[c].seen = text /\ text = put[c].match
                  /\ put'[c].body = put[c].body /\ put'[c].at = "write"
  BY DEF Check, Conflicts, PutRecord
<1>3. Conflict(c) => put'[c].at = "none"
  BY DEF Conflict, NoPut
<1>4. PageSound(c)'
  BY <1>1, <1>2, <1>3 DEF PageSound
<1>5. \A d \in Page \ {c} : put'[d] = put[d]
  BY DEF Check, Conflict
<1>6. \A d \in Page : put'[d].at = "writing" => put[d].at = "writing" /\ put'[d].seen = put[d].seen
  BY <1>1, <1>5
<1>7. ~raced' => OneWriter' /\ FileSound'
  BY <1>1, <1>6, QuietStep DEF Check, Conflict, EditInv
<1>8. Editing(c) /\ UNCHANGED <<upd, ctr>>
  BY DEF Check, Conflict, Editing
<1>9. QED
  BY <1>1, <1>4, <1>5, <1>7, <1>8, PageStep

LEMMA TruncateEdits ==
    ASSUME EditInv, NEW c \in Page, Truncate(c)
    PROVE  EditInv'
<1> USE PageTypes
<1>1. /\ put[c].at = "write" /\ put'[c].at = "writing" /\ put'[c].seen = put[c].seen
      /\ put'[c].body = put[c].body /\ text' = Broken /\ page' = page
      /\ UNCHANGED <<upd, ctr, kept>>
  BY DEF Truncate, PutRecord
<1>2. raced' = (raced \/ text # put[c].seen)
  BY DEF Truncate
<1>3. \A d \in Page \ {c} : put'[d] = put[d]
  BY DEF Truncate
<1>4. PageSound(c)'
  BY <1>1, <1>2 DEF PageSound
<1>5. ASSUME ~raced' PROVE OneWriter' /\ FileSound'
  <2>1. ~raced /\ text = put[c].seen /\ text # Broken /\ OneWriter /\ FileSound
    BY <1>1, <1>2, <1>5 DEF PageSound, EditInv
  <2>2. upd.at # "writing" /\ \A d \in Page : put[d].at # "writing"
    BY <2>1 DEF OneWriter
  <2>3. OneWriter'
    BY <1>1, <1>3, <2>2 DEF OneWriter
  <2>4. \A t : LastWhole(t)' => t = text
    BY <1>1, <1>3, <2>1, <2>2 DEF LastWhole
  <2>5. LastWhole(text)
    BY <2>1 DEF LastWhole
  <2>6. \A t : Behind(t)' = Behind(t) /\ Updated(t)' = Updated(t)
    BY <1>1 DEF Behind, Updated, Waiting
  <2>7. FileSound'
    BY <1>1, <2>1, <2>4, <2>5, <2>6 DEF FileSound
  <2>8. QED
    BY <2>3, <2>7
<1>6. Editing(c)
  BY DEF Editing
<1>7. QED
  BY <1>1, <1>2, <1>3, <1>4, <1>5, <1>6, PageStep

LEMMA WriteEdits ==
    ASSUME EditInv, NEW c \in Page, Write(c)
    PROVE  EditInv'
<1> USE PageTypes
<1>1. /\ put[c].at = "writing" /\ put'[c] = NoPut /\ UNCHANGED <<upd, ctr, raced>>
      /\ kept' = kept \cup put[c].body.edits
      /\ put[c].body \in Texts /\ put[c].seen \in Contents
  BY DEF Write, PutRecord
<1>2. \A d \in Page \ {c} : put'[d] = put[d] /\ page'[d] = page[d]
  BY DEF Write
<1>3. page'[c] \in {Saved(c), Left(Saved(c))}
  BY DEF Write
<1>4. /\ Saved(c).open = page[c].open /\ Saved(c).shows = page[c].shows
      /\ Saved(c).base = put[c].body /\ Saved(c).etag = page[c].etag
  BY DEF Saved, PageRecord
<1>5. /\ Left(Saved(c)).open = FALSE /\ Left(Saved(c)).shows = Original
      /\ Left(Saved(c)).base = Original
  BY DEF Left, ClosedPage
<1>6. NoPut.at = "none"
  BY DEF NoPut
<1>7. PageSound(c)'
  <2>1. CASE page'[c] = Saved(c)
    BY <1>1, <1>4, <1>6, <2>1 DEF PageSound
  <2>2. CASE page'[c] = Left(Saved(c))
    BY <1>1, <1>5, <1>6, <2>2, ExtendsReflexive DEF PageSound
  <2>3. QED
    BY <1>3, <2>1, <2>2
<1>8. ASSUME ~raced' PROVE OneWriter' /\ FileSound'
  <2>1. ~raced /\ OneWriter /\ FileSound
    BY <1>1, <1>8 DEF EditInv
  <2>2. text = Broken /\ upd.at # "writing" /\ \A d \in Page \ {c} : put[d].at # "writing"
    BY <1>1, <2>1 DEF OneWriter
  <2>3. put[c].seen \in Texts /\ Extends(put[c].seen, put[c].body)
    BY <1>1, <2>1 DEF PageSound, Contents
  <2>4. text' = put[c].body
    BY <2>2 DEF Write, Lands
  <2>5. \A d \in Page : put'[d].at # "writing"
    BY <1>1, <1>2, <1>6, <2>2
  <2>6. OneWriter'
    BY <1>1, <2>2, <2>5 DEF OneWriter
  <2>7. \A t : LastWhole(t)' => t = put[c].body
    BY <1>1, <2>2, <2>4, <2>5 DEF LastWhole
  <2>8. LastWhole(put[c].seen)
    BY <1>1 DEF LastWhole
  <2>9. kept \subseteq put[c].seen.edits /\ Behind(put[c].seen) /\ Updated(put[c].seen)
    BY <2>1, <2>3, <2>8 DEF FileSound
  <2>10. kept' \subseteq put[c].body.edits
    BY <1>1, <2>3, <2>9 DEF Extends
  <2>11. Behind(put[c].body) /\ Updated(put[c].body)
    BY <2>3, <2>9 DEF Extends, Behind, Updated
  <2>12. \A t : Behind(t)' = Behind(t) /\ Updated(t)' = Updated(t)
    BY <1>1 DEF Behind, Updated, Waiting
  <2>13. ASSUME NEW t \in Texts, LastWhole(t)'
         PROVE  (kept \subseteq t.edits /\ Behind(t) /\ Updated(t))'
    <3>1. PICK body : body = put[c].body
      OBVIOUS
    <3>2. t = body
      BY <2>7, <2>13, <3>1
    <3>3. kept' \subseteq body.edits /\ Behind(body) /\ Updated(body)
      BY <2>10, <2>11, <3>1
    <3>4. QED
      BY <2>12, <3>2, <3>3
  <2>14. QED
    BY <2>6, <2>13 DEF FileSound
<1>9. Editing(c)
  BY DEF Editing
<1>10. QED
  BY <1>1, <1>2, <1>7, <1>8, <1>9, PageStep

-----------------------------------------------------------------------------
LEMMA UpdateStep ==
    ASSUME EditInv, Updating \/ Killed, UNCHANGED <<page, put>>, raced => raced',
           UpdateSound', CtrSound', ~raced' => OneWriter' /\ FileSound'
    PROVE  EditInv'
<1>1. Typed'
  BY UpdatingTyped DEF EditInv
<1>2. \A c \in Page : PageSound(c)'
  BY DEF EditInv, PageSound
<1>3. QED
  BY <1>1, <1>2 DEF EditInv

\* A step of the update that touches neither the file nor a container.
LEMMA QuietUpdate ==
    ASSUME EditInv, Updating \/ Killed, UNCHANGED <<text, page, put, ctr, kept, raced>>,
           UpdateSound', upd'.at # "writing",
           \A t \in Texts : ~raced /\ LastWhole(t) /\ Updated(t) => Updated(t)'
    PROVE  EditInv'
<1>1. CtrSound'
  BY DEF EditInv, CtrSound
<1>2. ASSUME ~raced' PROVE OneWriter' /\ FileSound'
  <2>1. ~raced /\ OneWriter /\ FileSound
    BY <1>2 DEF EditInv
  <2>2. OneWriter'
    BY <2>1 DEF OneWriter
  <2>3. \A t : (LastWhole(t)' => LastWhole(t)) /\ Behind(t)' = Behind(t)
    BY DEF LastWhole, Behind
  <2>4. FileSound'
    BY <2>1, <2>3 DEF FileSound
  <2>5. QED
    BY <2>2, <2>4
<1>3. QED
  BY <1>1, <1>2, UpdateStep

\* The update takes the next container, or goes on with this one.
LEMMA NextNameSound ==
    ASSUME EditInv, NextName, upd.at \notin {"idle", "next"}
    PROVE  /\ UpdateSound' /\ upd'.at = "next"
           /\ \A t : Updated(t) => Updated(t)'
<1>1. upd \in UpdateRecord
  BY DEF EditInv, Typed
<1>2. /\ upd'.at = "next" /\ upd'.todo = upd.todo \ {upd.cur} /\ upd'.image = upd.image
  BY <1>1 DEF NextName, UpdateRecord
<1>3. UpdateSound'
  BY <1>2 DEF UpdateSound
<1>4. \A t : Updated(t) => Updated(t)'
  BY <1>2 DEF Updated, Waiting
<1>5. QED
  BY <1>2, <1>3, <1>4

LEMMA ToSound ==
    ASSUME EditInv, NEW point \in UpdatePoints, To(point)
    PROVE  /\ upd'.at = point /\ upd'.todo = upd.todo /\ upd'.cur = upd.cur
           /\ upd'.image = upd.image /\ upd'.seen = upd.seen /\ upd'.copy = upd.copy
<1>1. upd \in UpdateRecord
  BY DEF EditInv, Typed
<1>2. QED
  BY <1>1 DEF To, UpdateRecord

LEMMA BeginUpdate ==
    ASSUME EditInv, Begin
    PROVE  EditInv'
<1>1. /\ upd'.at = "next" /\ upd'.image = text.image /\ text # Broken /\ upd.at = "idle"
      /\ UNCHANGED <<text, page, put, ctr, kept, raced>>
  BY DEF Begin, NoUpd
<1>2. PICK todo \in SUBSET Name : upd'.todo = todo
  BY DEF Begin, NoUpd
<1>3. UpdateSound'
  BY <1>1 DEF UpdateSound
<1>4. ASSUME NEW t \in Texts, ~raced, LastWhole(t) PROVE Updated(t)'
  <2>1. t = text
    BY <1>1, <1>4 DEF EditInv, OneWriter, LastWhole
  <2>2. QED
    BY <1>1, <2>1 DEF Updated
<1>5. QED
  BY <1>1, <1>3, <1>4, QuietUpdate DEF Updating

LEMMA TakeUpdate ==
    ASSUME EditInv, NEW n \in Name, Take(n)
    PROVE  EditInv'
<1>1. upd \in UpdateRecord /\ upd.at = "next" /\ n \in upd.todo
      /\ UNCHANGED <<text, page, put, ctr, kept, raced>>
  BY DEF EditInv, Typed, Take
<1>2. PICK new \in Target(n) :
        upd' = [upd EXCEPT !.cur = n, !.image[n] = new,
                           !.at = IF Pinned(n) THEN "read" ELSE "pull"]
  BY DEF Take
<1>3. upd.image \in [Name -> Tag]
  BY <1>1 DEF UpdateRecord, Images
<1>4. /\ upd'.cur = n /\ upd'.todo = upd.todo
      /\ upd'.at = IF Pinned(n) THEN "read" ELSE "pull"
      /\ upd'.image = [upd.image EXCEPT ![n] = new]
  BY <1>1, <1>2 DEF UpdateRecord
<1>5. UpdateSound'
  BY <1>4 DEF UpdateSound
<1>6. ASSUME NEW t \in Texts, Updated(t) PROVE Updated(t)'
  <2>1. \A m \in upd.todo : t.image[m] = upd.image[m]
    BY <1>1, <1>6 DEF Updated, Waiting
  <2>2. \A m \in upd.todo \ {n} : t.image[m] = upd'.image[m]
    BY <1>1, <1>3, <1>4, <2>1 DEF UpdateRecord
  <2>3. upd'.image[n] = new /\ t.image[n] = upd.image[n]
    BY <1>1, <1>3, <1>4, <2>1
  <2>4. CASE Pinned(n)
    <3>1. Greater(new.ver, upd.image[n].ver)
      BY <1>2, <2>4 DEF Target, Newest, SameMajor
    <3>2. upd'.at = "read"
      BY <1>4, <2>4
    <3>3. QED
      BY <1>4, <2>2, <2>3, <3>1, <3>2 DEF Updated, Waiting
  <2>5. CASE ~Pinned(n)
    <3>1. new = upd.image[n]
      BY <1>2, <2>5 DEF Target
    <3>2. upd'.at = "pull"
      BY <1>4, <2>5
    <3>3. QED
      BY <1>4, <2>2, <2>3, <3>1, <3>2 DEF Updated, Waiting
  <2>6. QED
    BY <2>4, <2>5
<1>7. upd'.at # "writing" /\ Updating
  BY <1>4 DEF Updating
<1>8. QED
  BY <1>1, <1>5, <1>6, <1>7, QuietUpdate

LEMMA ReadUpdate ==
    ASSUME EditInv, Read
    PROVE  EditInv'
<1>1. upd \in UpdateRecord /\ upd.at = "read" /\ Updating /\ upd.cur \in Name
      /\ UNCHANGED <<text, page, put, ctr, kept, raced>>
  BY DEF EditInv, Typed, Read, Updating, UpdateSound
<1>2. CASE text = Broken
  <2>1. NextName
    BY <1>2 DEF Read
  <2>2. UpdateSound' /\ upd'.at = "next" /\ \A t : Updated(t) => Updated(t)'
    BY <1>1, <2>1, NextNameSound
  <2>3. QED
    BY <1>1, <2>2, QuietUpdate
<1>3. CASE text # Broken
  <2>1. /\ upd'.at = "write" /\ upd'.seen = text /\ upd'.todo = upd.todo
        /\ upd'.cur = upd.cur /\ upd'.image = upd.image
        /\ upd'.copy = [text EXCEPT !.image[upd.cur] = upd.image[upd.cur]]
    BY <1>1, <1>3 DEF Read, UpdateRecord
  <2>2. UpdateSound'
    BY <1>1, <1>3, <2>1 DEF UpdateSound
  <2>3. \A t : Updated(t) => Updated(t)'
    BY <1>1, <2>1 DEF Updated, Waiting
  <2>4. QED
    BY <1>1, <2>1, <2>2, <2>3, QuietUpdate
<1>4. QED
  BY <1>2, <1>3

LEMMA TruncateUpdate ==
    ASSUME EditInv, TruncateByUpdate
    PROVE  EditInv'
<1>1. /\ upd.at = "write" /\ Updating /\ text' = Broken
      /\ raced' = (raced \/ text # upd.seen)
      /\ UNCHANGED <<page, put, ctr, kept>>
  BY DEF TruncateByUpdate, Updating
<1>2. /\ upd'.at = "writing" /\ upd'.todo = upd.todo /\ upd'.cur = upd.cur
      /\ upd'.image = upd.image /\ upd'.seen = upd.seen /\ upd'.copy = upd.copy
  BY ToSound DEF TruncateByUpdate, UpdatePoints
<1>3. UpdateSound' /\ CtrSound'
  BY <1>1, <1>2 DEF EditInv, UpdateSound, CtrSound
<1>4. ASSUME ~raced' PROVE OneWriter' /\ FileSound'
  <2>1. ~raced /\ text = upd.seen /\ text # Broken /\ OneWriter /\ FileSound
    BY <1>1, <1>4 DEF UpdateSound, EditInv
  <2>2. \A d \in Page : put[d].at # "writing"
    BY <2>1 DEF OneWriter
  <2>3. OneWriter'
    BY <1>1, <1>2, <2>2 DEF OneWriter
  <2>4. \A t : LastWhole(t)' => t = text
    BY <1>1, <1>2, <2>1, <2>2 DEF LastWhole
  <2>5. LastWhole(text)
    BY <2>1 DEF LastWhole
  <2>6. \A t : Behind(t)' = Behind(t) /\ (Updated(t) => Updated(t)')
    BY <1>1, <1>2 DEF Behind, Updated, Waiting
  <2>7. FileSound'
    BY <1>1, <2>1, <2>4, <2>5, <2>6 DEF FileSound
  <2>8. QED
    BY <2>3, <2>7
<1>5. QED
  BY <1>1, <1>3, <1>4, UpdateStep

LEMMA WriteUpdate ==
    ASSUME EditInv, WriteByUpdate
    PROVE  EditInv'
<1>1. /\ upd \in UpdateRecord /\ upd.at = "writing" /\ Updating /\ upd.cur \in Name
      /\ upd.seen # Broken /\ upd.seen \in Texts /\ upd.copy \in Texts
      /\ upd.copy = [upd.seen EXCEPT !.image[upd.cur] = upd.image[upd.cur]]
      /\ UNCHANGED <<page, put, ctr, kept, raced>>
  BY DEF EditInv, Typed, WriteByUpdate, Updating, UpdateSound, UpdateRecord, Contents
<1>2. /\ upd'.at = "pull" /\ upd'.todo = upd.todo /\ upd'.cur = upd.cur
      /\ upd'.image = upd.image
  BY <1>1 DEF WriteByUpdate, UpdateRecord
<1>3. UpdateSound' /\ CtrSound'
  BY <1>1, <1>2 DEF EditInv, UpdateSound, CtrSound
<1>4. ASSUME ~raced' PROVE OneWriter' /\ FileSound'
  <2>1. ~raced /\ OneWriter /\ FileSound /\ text = Broken
    BY <1>1, <1>4 DEF EditInv, OneWriter
  <2>2. \A d \in Page : put[d].at # "writing"
    BY <1>1, <2>1 DEF OneWriter
  <2>3. OneWriter'
    BY <1>1, <1>2, <2>2 DEF OneWriter
  <2>4. text' = upd.copy
    BY <2>1 DEF WriteByUpdate, Lands
  <2>5. \A t : LastWhole(t)' => t = upd.copy
    BY <1>1, <1>2, <2>2, <2>4 DEF LastWhole
  <2>6. LastWhole(upd.seen)
    BY <1>1 DEF LastWhole
  <2>7. kept \subseteq upd.seen.edits /\ Behind(upd.seen) /\ Updated(upd.seen)
    BY <1>1, <2>1, <2>6 DEF FileSound
  <2>8. /\ upd.seen.image \in [Name -> Tag] /\ upd.image \in [Name -> Tag]
        /\ upd.copy.edits = upd.seen.edits
        /\ upd.copy.image = [upd.seen.image EXCEPT ![upd.cur] = upd.image[upd.cur]]
    BY <1>1 DEF Texts, Images, UpdateRecord
  <2>9. /\ upd.copy.image[upd.cur] = upd.image[upd.cur]
        /\ \A n \in Name \ {upd.cur} : upd.copy.image[n] = upd.seen.image[n]
    BY <1>1, <2>8
  <2>10. ASSUME NEW n \in Name, ctr[n].owner = "ours"
         PROVE  ~Greater(ctr[n].image.ver, upd.copy.image[n].ver)
    <3>1. ~Greater(ctr[n].image.ver, upd.seen.image[n].ver)
      BY <2>7, <2>10 DEF Behind
    <3>2. CASE n # upd.cur
      BY <2>9, <3>1, <3>2
    <3>3. CASE n = upd.cur
      <4>1. Greater(upd.image[n].ver, upd.seen.image[n].ver)
        BY <1>1, <2>7, <3>3 DEF Updated
      <4>2. /\ ctr[n].image.ver \in Version /\ upd.image[n].ver \in Version
            /\ upd.seen.image[n].ver \in Version
        BY <2>8, <2>10 DEF EditInv, CtrSound, Tag
      <4>3. ~Greater(ctr[n].image.ver, upd.image[n].ver)
        BY <3>1, <4>1, <4>2, GreaterTransitive
      <4>4. QED
        BY <2>9, <3>3, <4>3
    <3>4. QED
      BY <3>2, <3>3
  <2>11. PICK copy : copy = upd.copy
    OBVIOUS
  <2>12. Behind(copy)'
    BY <1>1, <2>10, <2>11 DEF Behind
  <2>13. Updated(copy)'
    <3>1. upd.todo \subseteq Name
      BY <1>1 DEF UpdateRecord
    <3>2. \A n \in upd.todo \ {upd.cur} : copy.image[n] = upd.image[n]
      BY <1>1, <2>7, <2>9, <2>11, <3>1 DEF Updated, Waiting
    <3>3. copy.image[upd.cur] = upd.image[upd.cur]
      BY <2>9, <2>11
    <3>4. QED
      BY <1>2, <3>2, <3>3 DEF Updated, Waiting
  <2>14. ASSUME NEW t \in Texts, LastWhole(t)'
         PROVE  (kept \subseteq t.edits /\ Behind(t) /\ Updated(t))'
    <3>1. t = copy
      BY <2>5, <2>11, <2>14
    <3>2. kept' \subseteq copy.edits
      BY <1>1, <2>7, <2>8, <2>11
    <3>3. QED
      BY <2>12, <2>13, <3>1, <3>2
  <2>15. QED
    BY <2>3, <2>14 DEF FileSound
<1>5. QED
  BY <1>1, <1>3, <1>4, UpdateStep

LEMMA PullUpdate ==
    ASSUME EditInv, Pull \/ Inspect \/ End \/ Fails \/ Killed
    PROVE  EditInv'
<1>1. /\ upd \in UpdateRecord /\ UNCHANGED <<text, page, put, ctr, kept, raced>>
      /\ Updating \/ Killed
  BY DEF EditInv, Typed, Pull, Inspect, End, Fails, Killed, Updating
<1>2. CASE NextName /\ upd.at \notin {"idle", "next"}
  BY <1>1, <1>2, NextNameSound, QuietUpdate
<1>3. ASSUME NEW point \in {"idle", "inspect", "create", "stop"}, To(point),
             point # "idle" => upd.at \in {"pull", "inspect"}
      PROVE  EditInv'
  <2>1. /\ upd'.at = point /\ upd'.todo = upd.todo /\ upd'.cur = upd.cur
        /\ upd'.image = upd.image /\ upd'.seen = upd.seen /\ upd'.copy = upd.copy
    BY <1>3, ToSound DEF UpdatePoints
  <2>2. UpdateSound'
    BY <1>3, <2>1 DEF EditInv, UpdateSound
  <2>3. \A t : Updated(t) => Updated(t)'
    BY <1>3, <2>1 DEF Updated, Waiting
  <2>4. QED
    BY <1>1, <2>1, <2>2, <2>3, QuietUpdate
<1>4. CASE Pull
  BY <1>3, <1>4 DEF Pull
<1>5. CASE Inspect
  BY <1>2, <1>3, <1>5 DEF Inspect
<1>6. CASE End \/ Killed
  BY <1>3, <1>6 DEF End, Killed
<1>7. CASE Fails
  BY <1>2, <1>7 DEF Fails
<1>8. QED
  BY <1>4, <1>5, <1>6, <1>7

\* The calls of the engine, of which one creates a container.
LEMMA EngineUpdate ==
    ASSUME EditInv, Stop \/ Remove \/ Create \/ Start
    PROVE  EditInv'
<1>1. /\ upd \in UpdateRecord /\ UNCHANGED <<text, page, put, kept, raced>> /\ Updating
      /\ upd.at \in {"stop", "remove", "create", "start"} /\ upd.cur \in Name
  BY DEF EditInv, Typed, UpdateSound, Stop, Remove, Create, Start, Engine, Updating
<1>2. /\ UpdateSound' /\ upd'.at \in {"remove", "create", "start", "next"}
      /\ \A t : Updated(t) => Updated(t)'
  <2>1. CASE Start
    BY <1>1, <2>1, NextNameSound DEF Start, Engine
  <2>2. ASSUME NEW point \in {"remove", "create", "start"}, To(point)
        PROVE  /\ UpdateSound' /\ upd'.at = point /\ \A t : Updated(t) => Updated(t)'
    <3>1. /\ upd'.at = point /\ upd'.todo = upd.todo /\ upd'.cur = upd.cur
          /\ upd'.image = upd.image
      BY <2>2, ToSound DEF UpdatePoints
    <3>2. UpdateSound'
      BY <1>1, <3>1 DEF UpdateSound
    <3>3. \A t : Updated(t) => Updated(t)'
      BY <1>1, <3>1 DEF Updated, Waiting
    <3>4. QED
      BY <3>1, <3>2, <3>3
  <2>3. CASE Stop \/ Remove \/ Create
    BY <2>2, <2>3 DEF Stop, Remove, Create, Engine
  <2>4. QED
    BY <2>1, <2>3
<1>3. /\ \A n \in Name \ {upd.cur} : ctr'[n] = ctr[n]
      /\ ctr'[upd.cur].owner = "ours" => ctr'[upd.cur].image \in {ctr[upd.cur].image, upd.image[upd.cur]}
      /\ ctr'[upd.cur].owner = "ours" /\ ctr'[upd.cur].image # upd.image[upd.cur]
            => ctr[upd.cur].owner = "ours"
      /\ ctr' \in [Name -> Host]
  <2>1. ctr \in [Name -> Host] /\ upd.image \in [Name -> Tag]
    BY <1>1 DEF EditInv, CtrSound, UpdateRecord, Images
  <2>2. /\ [ctr[upd.cur] EXCEPT !.running = FALSE] \in Host
        /\ [ctr[upd.cur] EXCEPT !.running = TRUE] \in Host
        /\ [ctr[upd.cur] EXCEPT !.owner = "none"] \in Host
        /\ [owner |-> "ours", image |-> upd.image[upd.cur], running |-> FALSE] \in Host
    BY <1>1, <2>1 DEF Host
  <2>3. PICK after \in Host :
          /\ ctr' = [ctr EXCEPT ![upd.cur] = after]
          /\ \/ after.owner = ctr[upd.cur].owner /\ after.image = ctr[upd.cur].image
             \/ after.owner = "none"
             \/ after.image = upd.image[upd.cur]
    <3>1. CASE Stop
      BY <1>1, <2>1, <2>2, <3>1 DEF Stop, Engine, Host
    <3>2. CASE Remove
      BY <1>1, <2>1, <2>2, <3>2 DEF Remove, Engine, Host
    <3>3. CASE Create
      BY <1>1, <2>1, <2>2, <3>3 DEF Create, Engine
    <3>4. CASE Start
      BY <1>1, <2>1, <2>2, <3>4 DEF Start, Engine, Host
    <3>5. QED
      BY <3>1, <3>2, <3>3, <3>4
  <2>4. QED
    BY <1>1, <2>1, <2>3
<1>4. CtrSound'
  <2>1. upd.image[upd.cur] \in Tag
    BY <1>1 DEF UpdateRecord, Images
  <2>2. QED
    BY <1>1, <1>3, <2>1 DEF EditInv, CtrSound
<1>5. ASSUME ~raced' PROVE OneWriter' /\ FileSound'
  <2>1. ~raced /\ OneWriter /\ FileSound
    BY <1>1, <1>5 DEF EditInv
  <2>2. OneWriter'
    BY <1>1, <1>2, <2>1 DEF OneWriter
  <2>3. ASSUME NEW t \in Texts, LastWhole(t)'
        PROVE  (kept \subseteq t.edits /\ Behind(t) /\ Updated(t))'
    <3>1. LastWhole(t)
      BY <1>1, <1>2, <2>3 DEF LastWhole
    <3>2. kept \subseteq t.edits /\ Behind(t) /\ Updated(t)
      BY <2>1, <3>1 DEF FileSound
    <3>3. t.image[upd.cur] = upd.image[upd.cur] /\ t.image[upd.cur].ver \in Version
      BY <1>1, <3>2 DEF Updated, Texts, Images, Tag
    <3>4. ~Greater(upd.image[upd.cur].ver, t.image[upd.cur].ver)
      BY <3>3, GreaterIrreflexive
    <3>5. Behind(t)'
      BY <1>3, <3>2, <3>4 DEF Behind
    <3>6. QED
      BY <1>1, <1>2, <3>2, <3>5
  <2>4. QED
    BY <2>2, <2>3 DEF FileSound
<1>6. QED
  BY <1>1, <1>2, <1>4, <1>5, UpdateStep

-----------------------------------------------------------------------------
LEMMA StepEdits == EditInv /\ [Next]_vars => EditInv'
<1> SUFFICES ASSUME EditInv, [Next]_vars PROVE EditInv'
  OBVIOUS
<1>1. CASE UNCHANGED vars
  BY <1>1 DEF vars, EditInv, Typed, CtrSound, UpdateSound, PageSound, OneWriter, FileSound,
              LastWhole, Behind, Updated, Waiting
<1>2. ASSUME NEW c \in Page, Editing(c) PROVE EditInv'
  BY <1>2, OpenEdits, TypeEdits, SaveEdits, CloseEdits, ReadBackEdits, CheckEdits,
     TruncateEdits, WriteEdits DEF Editing
<1>3. CASE Updating \/ Killed
  BY <1>3, BeginUpdate, TakeUpdate, ReadUpdate, TruncateUpdate, WriteUpdate, PullUpdate,
     EngineUpdate DEF Updating
<1>4. QED
  BY <1>1, <1>2, <1>3 DEF Next

(***************************************************************************)
(* Whoever will write stack.yaml (handleFileWrite, UpdateContainerImage)    *)
(* knows what it replaces, unless a write raced.                            *)
(***************************************************************************)
THEOREM EditsSound == Spec => []EditInv
<1>1. EditInv /\ [Next]_vars => EditInv'
  BY StepEdits
<1>2. QED
  BY InitEdits, <1>1, PTL DEF Spec

LEMMA FileInv ==
    ASSUME EditInv, ~raced, text # Broken
    PROVE  kept \subseteq text.edits /\ Behind(text)
<1>1. text \in Texts /\ FileSound
  BY DEF EditInv, Typed, Contents
<1>2. LastWhole(text)
  BY DEF LastWhole
<1>3. QED
  BY <1>1, <1>2 DEF FileSound

(***************************************************************************)
(* What a save was acknowledged for stays in stack.yaml, through any number *)
(* of saves and updates, unless one of them raced.                           *)
(***************************************************************************)
THEOREM SavesStay == Spec => []SavesKept
<1>1. EditInv => SavesKept
  BY FileInv DEF SavesKept
<1>2. QED
  BY EditsSound, <1>1, PTL

(***************************************************************************)
(* Unless a write raced, no container of ours runs a newer image than the   *)
(* file declares, whatever update --apply is killed or fails at.            *)
(***************************************************************************)
THEOREM FileLeads == Spec => []NeverAhead
<1>1. EditInv => NeverAhead
  BY FileInv DEF NeverAhead, Behind
<1>2. QED
  BY EditsSound, <1>1, PTL
-----------------------------------------------------------------------------
(***************************************************************************)
(* The inductive invariant of ConflictMeansChange: once its saves have been *)
(* read back a page has the ETag of the text it was read from or saved as,  *)
(* and a save that was not early carries it, unless a write raced.          *)
(***************************************************************************)
PageFresh(c) ==
    /\ put[c].at # "none" /\ ~put[c].early => page[c].owed = 0
    /\ ~raced /\ page[c].open /\ page[c].owed = 0 => page[c].etag = page[c].base
    /\ ~raced /\ put[c].at # "none" /\ ~put[c].early => put[c].match = page[c].base

MatchInv == \A c \in Page : PageFresh(c)

LEMMA InitMatch == Init => MatchInv
BY DEF Init, MatchInv, PageFresh, ClosedPage, NoPut

LEMMA MatchStep ==
    ASSUME MatchInv, NEW c \in Page, raced => raced',
           \A d \in Page \ {c} : page'[d] = page[d] /\ put'[d] = put[d],
           PageFresh(c)'
    PROVE  MatchInv'
BY DEF MatchInv, PageFresh

LEMMA EditingMatch ==
    ASSUME EditInv, MatchInv, NEW c \in Page, Editing(c)
    PROVE  MatchInv'
<1>1. /\ page[c] \in PageRecord /\ put[c] \in PutRecord
      /\ page \in [Page -> PageRecord] /\ put \in [Page -> PutRecord]
      /\ put[c].at # "none" => page[c].open
      /\ PageFresh(c)
  BY PageTypes DEF PageSound, MatchInv
<1>2. page[c].owed \in Nat /\ NoPut.at = "none"
  BY <1>1 DEF PageRecord, NoPut
<1>3. raced => raced'
  BY DEF Editing, Open, Type, Save, Close, ReadBack, Check, Conflict, Truncate, Write
<1>4. \A d \in Page \ {c} : page'[d] = page[d] /\ put'[d] = put[d]
  BY <1>1 DEF Editing, Open, Type, Save, Close, ReadBack, Check, Conflict, Truncate, Write
<1>5. CASE Open(c)
  <2>1. page'[c].base = text /\ page'[c].etag = text /\ put' = put /\ ~page[c].open
    BY <1>1, <1>5 DEF Open, PageRecord
  <2>2. PageFresh(c)'
    BY <1>1, <2>1 DEF PageFresh
  <2>3. QED
    BY <1>3, <1>4, <2>2, MatchStep
<1>6. CASE Type(c)
  <2>1. /\ page'[c].base = page[c].base /\ page'[c].etag = page[c].etag
        /\ page'[c].owed = page[c].owed /\ page'[c].open = page[c].open
        /\ put' = put /\ raced' = raced
    BY <1>1, <1>6 DEF Type, PageRecord
  <2>2. PageFresh(c)'
    BY <1>1, <2>1 DEF PageFresh
  <2>3. QED
    BY <1>3, <1>4, <2>2, MatchStep
<1>7. CASE Save(c)
  <2> DEFINE due == page[c].owed > 0
  <2>1. PICK early : early = due
    OBVIOUS
  <2>2. put'[c].match = page[c].etag /\ put'[c].early = early
    BY <1>1, <1>7, <2>1 DEF Save, NoPut
  <2>3. page' = page /\ raced' = raced /\ page[c].open
    BY <1>7 DEF Save
  <2>4. ~put'[c].early => page[c].owed = 0
    <3>1. ~due => page[c].owed = 0
      BY <1>2
    <3> HIDE DEF due
    <3>2. QED
      BY <2>1, <2>2, <3>1
  <2>5. PageFresh(c)'
    BY <1>1, <2>2, <2>3, <2>4 DEF PageFresh
  <2>6. QED
    BY <1>3, <1>4, <2>5, MatchStep
<1>8. CASE Close(c)
  <2>1. page'[c].open = FALSE /\ put' = put /\ put[c].at = "none"
    BY <1>1, <1>8 DEF Close, Left, ClosedPage
  <2>2. PageFresh(c)'
    BY <2>1 DEF PageFresh
  <2>3. QED
    BY <1>3, <1>4, <2>2, MatchStep
<1>9. CASE ReadBack(c)
  <2>1. /\ page'[c].base = page[c].base /\ page'[c].open = page[c].open
        /\ page'[c].etag = IF page[c].open THEN text ELSE page[c].etag
        /\ put' = put /\ page[c].owed > 0
    BY <1>1, <1>9 DEF ReadBack, PageRecord
  <2>2. ~raced' => ~raced /\ (page[c].open => text = page[c].base)
    BY <1>9 DEF ReadBack
  <2>3. put[c].at # "none" => put[c].early
    BY <1>1, <1>2, <2>1 DEF PageFresh
  <2>4. PageFresh(c)'
    BY <1>1, <2>1, <2>2, <2>3 DEF PageFresh
  <2>5. QED
    BY <1>3, <1>4, <2>4, MatchStep
<1>10. CASE Check(c) \/ Truncate(c)
  <2>1. /\ put'[c].match = put[c].match /\ put'[c].early = put[c].early
        /\ page' = page /\ put[c].at # "none"
    BY <1>1, <1>10 DEF Check, Truncate, PutRecord
  <2>2. PageFresh(c)'
    BY <1>1, <1>3, <2>1 DEF PageFresh
  <2>3. QED
    BY <1>3, <1>4, <2>2, MatchStep
<1>11. CASE Conflict(c)
  <2>1. put'[c] = NoPut /\ page' = page /\ raced' = raced
    BY <1>1, <1>11 DEF Conflict
  <2>2. PageFresh(c)'
    BY <1>1, <1>2, <2>1 DEF PageFresh
  <2>3. QED
    BY <1>3, <1>4, <2>2, MatchStep
<1>12. CASE Write(c)
  <2>1. put'[c] = NoPut /\ page'[c] \in {Saved(c), Left(Saved(c))}
    BY <1>1, <1>12 DEF Write
  <2>2. Saved(c).owed = page[c].owed + 1 /\ Left(Saved(c)).open = FALSE
    BY <1>1 DEF Saved, Left, ClosedPage, PageRecord
  <2>3. PageFresh(c)'
    BY <1>2, <2>1, <2>2 DEF PageFresh
  <2>4. QED
    BY <1>3, <1>4, <2>3, MatchStep
<1>13. QED
  BY <1>5, <1>6, <1>7, <1>8, <1>9, <1>10, <1>11, <1>12 DEF Editing

\* A step of the update may race, and leaves the pages alone.
LEMMA UpdatingQuiet ==
    ASSUME Updating \/ Killed
    PROVE  UNCHANGED <<page, put>> /\ (raced => raced')
<1>1. CASE Begin
  BY <1>1 DEF Begin
<1>2. ASSUME NEW n \in Name, Take(n) PROVE UNCHANGED <<page, put, raced>>
  BY <1>2 DEF Take
<1>3. CASE Read
  BY <1>3 DEF Read
<1>4. CASE TruncateByUpdate
  <2>1. UNCHANGED <<page, put>> /\ raced' = (raced \/ text # upd.seen)
    BY <1>4 DEF TruncateByUpdate
  <2>2. QED
    BY <2>1
<1>5. CASE WriteByUpdate
  BY <1>5 DEF WriteByUpdate
<1>6. CASE Pull \/ Inspect \/ Fails \/ End \/ Killed
  BY <1>6 DEF Pull, Inspect, Fails, End, Killed
<1>7. CASE Stop \/ Remove \/ Create \/ Start
  BY <1>7 DEF Stop, Remove, Create, Start, Engine
<1>8. QED
  BY <1>1, <1>2, <1>3, <1>4, <1>5, <1>6, <1>7 DEF Updating

LEMMA StepMatch == EditInv /\ MatchInv /\ [Next]_vars => MatchInv'
<1> SUFFICES ASSUME EditInv, MatchInv, [Next]_vars PROVE MatchInv'
  OBVIOUS
<1>1. CASE UNCHANGED vars
  BY <1>1 DEF vars, MatchInv, PageFresh
<1>2. CASE Updating \/ Killed
  BY <1>2, UpdatingQuiet DEF MatchInv, PageFresh
<1>3. QED
  BY <1>1, <1>2, EditingMatch DEF Next

(***************************************************************************)
(* A page whose own last save is what stack.yaml holds is not answered 409  *)
(* (handleFileWrite), unless it saved before its last save was read back,    *)
(* or a write raced.                                                         *)
(***************************************************************************)
THEOREM ConflictsAreChanges == Spec => ConflictMeansChange
<1>1. EditInv /\ MatchInv /\ [Next]_vars =>
        [\A c \in Page :
            put[c].at = "check" /\ put'[c].at = "none"
              => text # page[c].base \/ put[c].early \/ raced]_vars
  <2>1. SUFFICES ASSUME EditInv, MatchInv, Next, NEW c \in Page,
                        put[c].at = "check", put'[c].at = "none"
                 PROVE  text # page[c].base \/ put[c].early \/ raced
    BY DEF vars
  <2>2. put \in [Page -> PutRecord]
    BY <2>1 DEF EditInv, Typed
  <2>3. ~(Updating \/ Killed)
    BY <2>1, UpdatingQuiet
  <2>4. PICK d \in Page : Editing(d)
    BY <2>1, <2>3 DEF Next
  <2>5. d = c
    BY <2>1, <2>2, <2>4 DEF Editing, Open, Type, Save, Close, ReadBack, Check, Conflict,
                            Truncate, Write
  <2>6. Conflict(c)
    BY <2>1, <2>2, <2>4, <2>5 DEF Editing, Open, Type, Save, Close, ReadBack, Check,
                                  Truncate, Write, PutRecord
  <2>7. text # put[c].match
    BY <2>6 DEF Conflict, Conflicts
  <2>8. put[c].early \/ raced \/ put[c].match = page[c].base
    BY <2>1 DEF MatchInv, PageFresh
  <2>9. QED
    BY <2>7, <2>8
<1>2. EditInv /\ MatchInv /\ [Next]_vars => MatchInv'
  BY StepMatch
<1>3. QED
  BY EditsSound, InitMatch, <1>1, <1>2, PTL DEF Spec, ConflictMeansChange
=============================================================================
