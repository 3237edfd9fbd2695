--------------------------- MODULE BackupDir_proofs ---------------------------
(***************************************************************************)
(* Proofs about BackupDir, for every set of phones, models, partitions and *)
(* contents and every number of commands.  The three properties follow     *)
(* from one inductive invariant: the entries of a running create and the   *)
(* listing agree with the images that no later dump and no thread of an    *)
(* earlier one has touched, and what verify and restore said still holds   *)
(* of those images.                                                        *)
(***************************************************************************)
EXTENDS BackupDir, FiniteSetTheorems, TLAPS

Contents == Gens \cup {Torn}
Files == Contents \cup {NoFile}
Entry == [status : {"absent", "failed", "ok"}, verified : {"none", "yes", "no"},
          sha : Files, held : Files]
Listing == [of : Phones, ents : [Parts -> Entry]]
Creating == {"dump", "note", "finish"}
Dumping == {"dump", "note"}

TypeOK ==
  /\ pc \in {"idle", "mismatch", "write"} \cup Creating
  /\ phone \in Phones
  /\ part \in [Phones -> [Parts -> Contents]]
  /\ img \in [Parts -> Files]
  /\ entries \in [Parts -> Entry]
  /\ Readable(listed) => listed \in Listing
  /\ Readable(main) => main \in Phones
  /\ todo \in Seq(Parts)
  /\ pc \in Dumping => todo # <<>>
  /\ known \in BOOLEAN /\ agreed \in BOOLEAN
  /\ report \in [Parts -> {"nothing", "missing", "verified", "ok", "FAILED"}]
  /\ verdict \in [Parts -> {"nothing", "skipped", "missing", "ok", "CORRUPT"}]
  /\ taken \in [Parts -> Phones]
  /\ unnoted \subseteq Parts /\ scribbled \subseteq Parts
  /\ astray \in BOOLEAN
  /\ pumps \subseteq [part : Parts, of : Phones, holds : Contents]

\* A directory that is being filled has been neither verified nor restored.
PhaseInv ==
  /\ pc \notin Creating => entries = Unlisted
  /\ pc \in Creating => verdict = Silent
  /\ pc # "write" /\ pc # "idle" => report = Silent

\* An entry e of partition p is true of the image and of where it came from.
TrueOf(e, p, ph) ==
  /\ e.status = "ok" => img[p] # NoFile /\ img[p] = e.sha
  /\ e.verified = "yes" => taken[p] = ph

HonestEntry(e) == e.verified = "yes" => e.sha = e.held

EntriesInv ==
  \A p \in Parts : /\ HonestEntry(entries[p])
                   /\ p \notin scribbled => TrueOf(entries[p], p, phone)

ListedInv ==
  Readable(listed) =>
    \A p \in Parts : /\ HonestEntry(listed.ents[p])
                     /\ p \notin unnoted \cup scribbled => TrueOf(listed.ents[p], p, listed.of)

VerdictInv ==
  \A p \in Parts :
    /\ verdict[p] \in {"missing", "CORRUPT"} => p \in unnoted \cup scribbled \/ astray
    /\ verdict[p] = "ok" /\ Readable(listed) /\ ~astray /\ p \notin scribbled =>
         img[p] = listed.ents[p].sha

\* What a restore has still to write it has not reported on.
RestoreInv ==
  /\ pc \in {"mismatch", "write"} =>
       /\ \A i, j \in 1..Len(todo) : todo[i] = todo[j] => i = j
       /\ \A i \in 1..Len(todo) : report[todo[i]] = "nothing"
  /\ \A p \in Parts \ scribbled : report[p] = "verified" => part[phone][p] = img[p]
  /\ (pc = "write" \/ report # Silent) /\ known /\ ~agreed =>
       Readable(main) /\ Model[main] = Model[phone]

IInv == TypeOK /\ PhaseInv /\ EntriesInv /\ ListedInv /\ VerdictInv /\ RestoreInv
-----------------------------------------------------------------------------
(* Facts about the data. *)

LEMMA WishIsList ==
  ASSUME NEW w \in Wishes
  PROVE  w \in Seq(Parts) /\ \A i, j \in 1..Len(w) : w[i] = w[j] => i = j
<1>1. PICK P \in SUBSET Parts : w \in SetToSeqs(P)
  BY DEF Wishes, SetToAllKPermutations
<1>2. Cardinality(P) \in Nat
  BY PartsAssumption, FS_Subset, FS_CardinalityType
<1>3. /\ w \in [1..Cardinality(P) -> P]
      /\ \A i, j \in 1..Cardinality(P) : i # j => w[i] # w[j]
  BY <1>1, Zenon DEF SetToSeqs
<1>4. w \in Seq(P) /\ Len(w) = Cardinality(P)
  BY <1>2, <1>3
<1>5. w \in Seq(Parts)
  BY <1>4
<1>6. QED BY <1>3, <1>4, <1>5

LEMMA HeadAndTail ==
  ASSUME NEW s \in Seq(Parts), s # <<>>
  PROVE  /\ Head(s) \in Parts /\ Head(s) = s[1] /\ Len(s) \in Nat \ {0}
         /\ Tail(s) \in Seq(Parts) /\ Len(Tail(s)) = Len(s) - 1
         /\ \A i \in 1..Len(Tail(s)) : Tail(s)[i] = s[i + 1]
  OBVIOUS

LEMMA DumpFacts ==
  ASSUME NEW had \in BOOLEAN, NEW o \in DumpOutcomes(TRUE, had, TRUE)
  PROVE  /\ o.status \in {"ok", "failed"} /\ o.verified \in {"yes", "no", "none"}
         /\ o.file \in {"copy", "torn", "old"}
         /\ o.verified = "yes" => o.status = "ok" /\ o.file = "copy"
         /\ o.file = "old" /\ o.status = "ok" => had
  BY DEF DumpOutcomes

\* What one dump leaves: the file, its entry, and that they agree.
LEMMA DumpLeaves ==
  ASSUME TypeOK, NEW p \in Parts,
         NEW o \in DumpOutcomes(TRUE, img[p] # NoFile, TRUE)
  PROVE  /\ FileAfter(o, p) \in Files /\ EntryOf(o, p) \in Entry
         /\ HonestEntry(EntryOf(o, p))
         /\ EntryOf(o, p).status = "ok" =>
              FileAfter(o, p) # NoFile /\ EntryOf(o, p).sha = FileAfter(o, p)
         /\ EntryOf(o, p).verified = "yes" => o.file # "old"
<1>1. /\ o.status \in {"ok", "failed"} /\ o.verified \in {"yes", "no", "none"}
      /\ o.file \in {"copy", "torn", "old"}
      /\ o.verified = "yes" => o.status = "ok" /\ o.file = "copy"
      /\ o.file = "old" /\ o.status = "ok" => img[p] # NoFile
  BY DumpFacts
<1>2. part[phone][p] \in Contents /\ img[p] \in Files
  BY DEF TypeOK
<1>3. NoFile \notin Contents
  BY ContentsAssumption DEF Contents
<1>4. FileAfter(o, p) \in Files
  BY <1>1, <1>2 DEF FileAfter, Files, Contents
<1>5. EntryOf(o, p) \in Entry
  BY <1>1, <1>2, <1>4 DEF EntryOf, FailedEntry, Entry, Files
<1>6. o.status = "ok" => FileAfter(o, p) # NoFile
  BY <1>1, <1>2, <1>3 DEF FileAfter, Contents
<1>7. QED
  BY <1>1, <1>4, <1>5, <1>6 DEF EntryOf, FailedEntry, HonestEntry, FileAfter
-----------------------------------------------------------------------------
(* Type correctness. *)

LEMMA TypeInit == Init => TypeOK
<1> SUFFICES ASSUME Init PROVE TypeOK
  OBVIOUS
<1>1. known \in BOOLEAN /\ agreed \in BOOLEAN /\ astray \in BOOLEAN
  BY Zenon DEF Init
<1>2. pumps \subseteq [part : Parts, of : Phones, holds : Contents]
  BY DEF Init
<1>3. QED
  BY <1>1, <1>2 DEF Init, TypeOK, Dumping, Contents, Files, Entry, Absent, Unlisted, Silent, Readable

LEMMA TypeStep == TypeOK /\ [Next]_vars => TypeOK'
<1> SUFFICES ASSUME TypeOK, [Next]_vars PROVE TypeOK'
  OBVIOUS
<1> USE DEF TypeOK, Creating, Dumping
<1>1. ASSUME NEW w \in Wishes, CreateStart(w) PROVE TypeOK'
  <2>1. known' \in BOOLEAN /\ agreed' \in BOOLEAN
    BY <1>1, Zenon DEF CreateStart
  <2>2. QED
    BY <1>1, <2>1, WishIsList DEF CreateStart, NewCmd, Silent, dirvars
<1>2. CASE DumpOne
  <2> DEFINE p == Head(todo)
  <2>0. p \in Parts
    BY <1>2, HeadAndTail DEF DumpOne
  <2>1. PICK o \in DumpOutcomes(TRUE, img[p] # NoFile, TRUE) :
          /\ img' = [img EXCEPT ![p] = FileAfter(o, p)]
          /\ entries' = [entries EXCEPT ![p] = EntryOf(o, p)]
          /\ taken' \in {taken, [taken EXCEPT ![p] = phone]}
          /\ unnoted' = unnoted \cup {p} /\ scribbled' = scribbled \ {p}
          /\ pumps' \subseteq pumps \cup {[part |-> p, of |-> phone, holds |-> part[phone][p]]}
    BY <1>2 DEF DumpOne, Outlived
  <2>2a. FileAfter(o, p) \in Files /\ EntryOf(o, p) \in Entry
    BY <2>0, DumpLeaves
  <2>2b. phone \in Phones /\ part[phone][p] \in Contents
    BY <2>0
  <2>2. /\ FileAfter(o, p) \in Files /\ EntryOf(o, p) \in Entry
        /\ [part |-> p, of |-> phone, holds |-> part[phone][p]]
             \in [part : Parts, of : Phones, holds : Contents]
    BY <2>0, <2>2a, <2>2b
  <2> HIDE DEF p
  <2>3. QED
    BY <1>2, <2>0, <2>1, <2>2 DEF DumpOne, Quiet, restorevars
<1>3. CASE Note
  <2>1. Tail(todo) \in Seq(Parts)
    BY <1>3, HeadAndTail DEF Note
  <2>2. listed' \in Listing
    BY <1>3 DEF Note, Listing
  <2>3. todo' \in Seq(Parts)
    BY <1>3, <2>1 DEF Note
  <2>4. QED
    BY <1>3, <2>2, <2>3 DEF Note, Calm, Quiet, restorevars
<1>4. CASE CreateEnd
  BY <1>4 DEF CreateEnd, Calm, Quiet, restorevars, Unlisted, Absent, Entry, Files
<1>5. ASSUME NEW place \in Places, Verify(place) PROVE TypeOK'
  <2>1. known' \in BOOLEAN /\ agreed' \in BOOLEAN /\ astray' \in BOOLEAN
    BY <1>5, Zenon DEF Verify
  <2>2. \A p \in Parts : Verdict(p, place) \in {"nothing", "skipped", "missing", "ok", "CORRUPT"}
    <3> SUFFICES ASSUME NEW p \in Parts
                 PROVE  Verdict(p, place) \in {"nothing", "skipped", "missing", "ok", "CORRUPT"}
      OBVIOUS
    <3>1. listed.ents[p].status \in {"absent", "failed", "ok"}
      BY <1>5 DEF Verify, Listing, Entry
    <3>2. QED BY <3>1 DEF Verdict
  <2>3. QED
    BY <1>5, <2>1, <2>2 DEF Verify, NewCmd, Silent, dirvars
<1>6. ASSUME NEW w \in Wishes, NEW a \in BOOLEAN, RestoreStart(w, a) PROVE TypeOK'
  <2>1. known' \in BOOLEAN /\ agreed' \in BOOLEAN
    BY <1>6, Zenon DEF RestoreStart
  <2>2. QED
    BY <1>6, <2>1, WishIsList DEF RestoreStart, NewCmd, Silent, dirvars
<1>7. CASE AgreeMismatch
  <2>1. agreed' \in BOOLEAN
    BY <1>7, Zenon DEF AgreeMismatch
  <2>2. QED
    BY <1>7, <2>1 DEF AgreeMismatch, Calm, Quiet, dirvars
<1>8. CASE Decline
  BY <1>8 DEF Decline, Calm, Quiet, dirvars, restorevars
<1>9. CASE Skip
  BY <1>9, HeadAndTail DEF Skip, Calm, Quiet, dirvars
<1>10. CASE WriteOne
  <2>1. PICK p \in Parts, o \in WriteOutcomes :
          /\ p = Head(todo) /\ img[p] # NoFile
          /\ part' = [part EXCEPT ![phone][p] = PartAfter(o, p)]
          /\ report' = [report EXCEPT ![p] = o.report]
    BY <1>10, HeadAndTail DEF WriteOne
  <2>2. o.leaves \in {"old", "image", "torn"} /\ o.report \in {"verified", "ok", "FAILED"}
    BY DEF WriteOutcomes
  <2>3. PartAfter(o, p) \in Contents
    BY <2>1, <2>2 DEF PartAfter, Files, Contents
  <2>4. todo' \in Seq(Parts) /\ pc' \in {"idle", "write"}
    <3>1. (pc' = "idle" /\ todo' = <<>>) \/ (pc' = pc /\ todo' = Tail(todo))
      BY <1>10 DEF WriteOne
    <3>2. Tail(todo) \in Seq(Parts) /\ pc = "write"
      BY <1>10, HeadAndTail DEF WriteOne
    <3>3. <<>> \in Seq(Parts)
      OBVIOUS
    <3>4. QED BY <3>1, <3>2, <3>3
  <2>5. QED
    BY <1>10, <2>1, <2>2, <2>3, <2>4 DEF WriteOne, Calm, Quiet, dirvars
<1>11. CASE RestoreEnd
  BY <1>11 DEF RestoreEnd, Calm, Quiet, dirvars, restorevars
<1>12. CASE Crash
  <2>1. /\ pc' = "idle" /\ todo' = <<>> /\ entries' \in [Parts -> Entry]
        /\ UNCHANGED <<verdict, taken, scribbled, astray, known, agreed, report, phone>>
        /\ pumps' = {}
    BY <1>12 DEF Crash, Quiet, restorevars, Unlisted, Absent, Entry, Files
  <2>2. todo # <<>> => Head(todo) \in Parts
    BY HeadAndTail
  <2>3. /\ part' \in [Phones -> [Parts -> Contents]]
        /\ img' \in [Parts -> Files] /\ unnoted' \subseteq Parts
    <3>1. \/ UNCHANGED <<part, img, unnoted>>
          \/ /\ pc = "dump" /\ img' = [img EXCEPT ![Head(todo)] = Torn]
             /\ unnoted' = unnoted \cup {Head(todo)} /\ UNCHANGED part
          \/ /\ todo # <<>> /\ part' = [part EXCEPT ![phone][Head(todo)] = Torn]
             /\ UNCHANGED <<img, unnoted>>
      BY <1>12 DEF Crash
    <3>2. CASE UNCHANGED <<part, img, unnoted>>
      BY <3>2
    <3>3. CASE pc = "dump" /\ img' = [img EXCEPT ![Head(todo)] = Torn]
               /\ unnoted' = unnoted \cup {Head(todo)} /\ UNCHANGED part
      BY <2>2, <3>3 DEF Contents, Files
    <3>4. CASE todo # <<>> /\ part' = [part EXCEPT ![phone][Head(todo)] = Torn]
               /\ UNCHANGED <<img, unnoted>>
      BY <2>2, <3>4 DEF Contents
    <3>5. QED BY <3>1, <3>2, <3>3, <3>4
  <2>4. /\ listed' = listed \/ listed' = Torn
        /\ main' = main \/ main' = Torn
    BY <1>12 DEF Crash
  <2>5. QED
    BY <2>1, <2>3, <2>4 DEF Readable
<1>17. CASE ProcessEnds
  BY <1>17 DEF ProcessEnds, Quiet, dirvars, restorevars
<1>18. ASSUME NEW w \in pumps, LateWrite(w) PROVE TypeOK'
  <2>1. w.part \in Parts /\ w.of \in Phones /\ w.holds \in Contents
    BY <1>18
  <2>2. /\ img' = [img EXCEPT ![w.part] = Torn] \/ img' = [img EXCEPT ![w.part] = w.holds]
        /\ pumps' \subseteq pumps /\ scribbled' = scribbled \cup {w.part}
        /\ taken' = [taken EXCEPT ![w.part] = w.of]
        /\ UNCHANGED <<pc, phone, part, entries, listed, main, todo, known, agreed, report,
                       verdict, unnoted, astray>>
    BY <1>18 DEF LateWrite, restorevars
  <2>3. img' \in [Parts -> Files] /\ taken' \in [Parts -> Phones]
    BY <2>1, <2>2 DEF Files, Contents
  <2>4. QED BY <2>1, <2>2, <2>3
<1>13. ASSUME NEW ph \in Phones, Plug(ph) PROVE TypeOK'
  BY <1>13 DEF Plug, dirvars, Silent
<1>14. ASSUME NEW p \in Parts, NEW g \in Gens, SystemWrite(p, g) PROVE TypeOK'
  BY <1>14 DEF SystemWrite, dirvars, Contents
<1>15. CASE UNCHANGED vars
  BY <1>15 DEF vars, dirvars
<1>16. QED
  BY <1>1, <1>2, <1>3, <1>4, <1>5, <1>6, <1>7, <1>8, <1>9, <1>10, <1>11, <1>12,
     <1>13, <1>14, <1>15, <1>17, <1>18
  DEF Next, Command, World
\* Type correctness of the directory, its commands and the phones.
THEOREM TypeCorrect == Spec => []TypeOK
<1>1. QED
  BY TypeInit, TypeStep, PTL DEF Spec

-----------------------------------------------------------------------------
(* The inductive invariant. *)

LEMMA InvInit == Init => IInv
<1> SUFFICES ASSUME Init PROVE IInv
  OBVIOUS
<1>1. TypeOK
  BY TypeInit
<1>2. QED
  BY <1>1 DEF Init, IInv, PhaseInv, EntriesInv, ListedInv, VerdictInv, RestoreInv,
     HonestEntry, TrueOf, Absent, Unlisted, Silent, Readable, Creating

\* create forgets what verify and restore said before it touches an image.
LEMMA CreateKeeps == ASSUME IInv, NEW w \in Wishes, CreateStart(w) PROVE IInv'
<1>1. TypeOK'
  BY TypeStep DEF IInv, Next, Command
<1>2. /\ pc = "idle" /\ pc' \in {"finish", "dump"}
      /\ UNCHANGED <<phone, part, img, entries, listed, main, taken, unnoted, scribbled>>
      /\ verdict' = Silent /\ report' = Silent
  BY DEF CreateStart, NewCmd
<1>3. PhaseInv' /\ EntriesInv' /\ ListedInv'
  BY <1>2 DEF IInv, PhaseInv, EntriesInv, ListedInv, HonestEntry, TrueOf, Creating
<1>4. VerdictInv' /\ RestoreInv'
  BY <1>2 DEF IInv, VerdictInv, RestoreInv, Silent
<1>5. QED BY <1>1, <1>3, <1>4 DEF IInv

LEMMA DumpKeeps == ASSUME IInv, DumpOne PROVE IInv'
<1>1. TypeOK /\ TypeOK'
  BY TypeStep DEF IInv, Next, Command
<1> DEFINE p == Head(todo)
<1>2. p \in Parts
  BY <1>1, HeadAndTail DEF DumpOne, TypeOK
<1>3. PICK o \in DumpOutcomes(TRUE, img[p] # NoFile, TRUE) :
        /\ img' = [img EXCEPT ![p] = FileAfter(o, p)]
        /\ entries' = [entries EXCEPT ![p] = EntryOf(o, p)]
        /\ taken' = IF o.file = "old" THEN taken ELSE [taken EXCEPT ![p] = phone]
  BY DEF DumpOne
<1>4. /\ HonestEntry(EntryOf(o, p))
      /\ EntryOf(o, p).status = "ok" =>
           FileAfter(o, p) # NoFile /\ EntryOf(o, p).sha = FileAfter(o, p)
      /\ EntryOf(o, p).verified = "yes" => o.file # "old"
  BY <1>1, <1>2, DumpLeaves
<1>5. /\ pc = "dump" /\ pc' = "note" /\ unnoted' = unnoted \cup {p}
      /\ scribbled' = scribbled \ {p}
      /\ UNCHANGED <<phone, part, listed, main, todo, verdict, known, agreed, report>>
  BY DEF DumpOne, Quiet, restorevars
<1> HIDE DEF p
<1>6. ASSUME NEW q \in Parts, q # p
      PROVE  /\ img'[q] = img[q] /\ entries'[q] = entries[q] /\ taken'[q] = taken[q]
             /\ q \in unnoted' <=> q \in unnoted
             /\ q \in scribbled' <=> q \in scribbled
  BY <1>1, <1>3, <1>5, <1>6 DEF TypeOK
<1>7. /\ img'[p] = FileAfter(o, p) /\ entries'[p] = EntryOf(o, p)
      /\ o.file # "old" => taken'[p] = phone
      /\ p \in unnoted'
  BY <1>1, <1>2, <1>3, <1>5 DEF TypeOK
<1>8. EntriesInv'
  BY <1>4, <1>5, <1>6, <1>7 DEF IInv, EntriesInv, HonestEntry, TrueOf
<1>9. ListedInv'
  BY <1>5, <1>6, <1>7 DEF IInv, ListedInv, HonestEntry, TrueOf
<1>10. verdict' = Silent /\ report' = Silent
  BY <1>5 DEF IInv, PhaseInv, Creating
<1>11. PhaseInv' /\ VerdictInv' /\ RestoreInv'
  BY <1>5, <1>10 DEF IInv, PhaseInv, VerdictInv, RestoreInv, Silent, Creating
<1>12. QED BY <1>1, <1>8, <1>9, <1>11 DEF IInv

LEMMA NoteKeeps == ASSUME IInv, Note PROVE IInv'
<1>1. TypeOK /\ TypeOK'
  BY TypeStep DEF IInv, Next, Command
<1>2. /\ pc = "note" /\ pc' \in {"dump", "finish"}
      /\ listed' = [of |-> phone, ents |-> entries] /\ unnoted' = {}
      /\ UNCHANGED <<phone, part, img, entries, main, taken, scribbled, verdict, known, agreed,
                     report>>
  BY DEF Note, Calm, Quiet, restorevars
<1>3. verdict' = Silent /\ report' = Silent
  BY <1>2 DEF IInv, PhaseInv, Creating
<1>4. EntriesInv'
  BY <1>2 DEF IInv, EntriesInv, HonestEntry, TrueOf
<1>4a. listed'.ents = entries /\ listed'.of = phone
  BY <1>2
<1>4b. \A p \in Parts :
         /\ HonestEntry(entries[p])
         /\ p \notin scribbled => TrueOf(entries[p], p, phone)
  BY DEF IInv, EntriesInv
<1>4c. \A p \in Parts :
         /\ HonestEntry(entries[p])
         /\ p \notin unnoted' \cup scribbled' =>
              /\ entries[p].status = "ok" => img'[p] # NoFile /\ img'[p] = entries[p].sha
              /\ entries[p].verified = "yes" => taken'[p] = phone
  BY <1>2, <1>4b DEF TrueOf
<1>4d. ListedInv'
  BY <1>4a, <1>4c DEF ListedInv, HonestEntry, TrueOf
<1>5. PhaseInv' /\ VerdictInv' /\ RestoreInv'
  BY <1>2, <1>3 DEF IInv, PhaseInv, VerdictInv, RestoreInv, Silent, Creating
<1>6. QED BY <1>1, <1>4, <1>4d, <1>5 DEF IInv

LEMMA CreateEndKeeps == ASSUME IInv, CreateEnd PROVE IInv'
<1>1. TypeOK /\ TypeOK'
  BY TypeStep DEF IInv, Next, Command
<1>2. /\ pc = "finish" /\ pc' = "idle" /\ main' = phone /\ entries' = Unlisted
      /\ UNCHANGED <<phone, part, img, listed, taken, unnoted, scribbled, verdict, known, agreed,
                     report>>
  BY DEF CreateEnd, Calm, Quiet, restorevars
<1>3. verdict' = Silent /\ report' = Silent
  BY <1>2 DEF IInv, PhaseInv, Creating
<1>4. EntriesInv' /\ ListedInv'
  BY <1>2 DEF IInv, EntriesInv, ListedInv, HonestEntry, TrueOf, Unlisted, Absent
<1>5. PhaseInv' /\ VerdictInv' /\ RestoreInv'
  BY <1>2, <1>3 DEF IInv, PhaseInv, VerdictInv, RestoreInv, Silent, Creating
<1>6. QED BY <1>1, <1>4, <1>5 DEF IInv

LEMMA VerifyKeeps == ASSUME IInv, NEW place \in Places, Verify(place) PROVE IInv'
<1>1. TypeOK /\ TypeOK'
  BY TypeStep DEF IInv, Next, Command
<1>2. /\ pc = "idle" /\ pc' = "idle" /\ Readable(listed) /\ report' = Silent
      /\ UNCHANGED <<phone, part, img, entries, listed, main, taken, unnoted, scribbled>>
      /\ verdict' = [p \in Parts |-> Verdict(p, place)]
      /\ astray' = (place # "here")
  BY DEF Verify, NewCmd
<1>3. ASSUME NEW p \in Parts, place = "here"
      PROVE  /\ Verdict(p, place) \in {"missing", "CORRUPT"} => p \in unnoted \cup scribbled
             /\ Verdict(p, place) = "ok" => img[p] = listed.ents[p].sha
  <2>0. Found(p, place) = img[p]
    BY <1>3 DEF Found
  <2>1. listed.ents[p].status \in {"absent", "failed", "ok"}
    BY <1>1, <1>2 DEF TypeOK, Listing, Entry
  <2>2. CASE listed.ents[p].status = "ok"
    BY <1>2, <2>0, <2>2 DEF Verdict, IInv, ListedInv, TrueOf
  <2>3. CASE listed.ents[p].status # "ok"
    BY <2>1, <2>3 DEF Verdict
  <2>4. QED BY <2>2, <2>3
<1>4. VerdictInv'
  BY <1>2, <1>3 DEF VerdictInv
<1>5. PhaseInv' /\ EntriesInv' /\ ListedInv' /\ RestoreInv'
  BY <1>2 DEF IInv, PhaseInv, EntriesInv, ListedInv, RestoreInv, HonestEntry, TrueOf, Silent,
     Creating
<1>6. QED BY <1>1, <1>4, <1>5 DEF IInv
\* What the directory says of itself does not depend on the partitions.
LEMMA DirectoryKeeps ==
  ASSUME IInv, UNCHANGED <<dirvars, verdict>>, UNCHANGED phone
  PROVE  EntriesInv' /\ ListedInv' /\ VerdictInv'
  BY DEF IInv, EntriesInv, ListedInv, VerdictInv, HonestEntry, TrueOf, dirvars

LEMMA RestoreStartKeeps ==
  ASSUME IInv, NEW w \in Wishes, NEW a \in BOOLEAN, RestoreStart(w, a) PROVE IInv'
<1>1. TypeOK /\ TypeOK'
  BY TypeStep DEF IInv, Next, Command
<1>2. /\ pc = "idle" /\ report' = Silent /\ Readable(main) /\ todo' = w
      /\ UNCHANGED <<phone, part, dirvars, verdict>>
      /\ known' = (a \/ Model[main] = Model[phone])
      /\ pc' = IF a /\ Model[main] # Model[phone] THEN "mismatch" ELSE "write"
  BY DEF RestoreStart, NewCmd
<1>3. known' /\ pc' = "write" => Model[main] = Model[phone]
  BY <1>2
<1>4. RestoreInv'
  BY <1>2, <1>3, WishIsList DEF RestoreInv, Silent, dirvars
<1>5. PhaseInv'
  BY <1>2 DEF IInv, PhaseInv, Creating, dirvars
<1>6. QED BY <1>1, <1>2, <1>4, <1>5, DirectoryKeeps DEF IInv

LEMMA AgreeKeeps == ASSUME IInv, AgreeMismatch PROVE IInv'
<1>1. TypeOK /\ TypeOK'
  BY TypeStep DEF IInv, Next, Command
<1>2. /\ pc = "mismatch" /\ pc' = "write" /\ agreed' = TRUE
      /\ UNCHANGED <<phone, part, dirvars, todo, report, verdict>>
  BY DEF AgreeMismatch, Calm, Quiet
<1>3. PhaseInv' /\ RestoreInv'
  BY <1>2 DEF IInv, PhaseInv, RestoreInv, Creating, dirvars
<1>4. QED BY <1>1, <1>2, <1>3, DirectoryKeeps DEF IInv

LEMMA DeclineKeeps == ASSUME IInv, Decline PROVE IInv'
<1>1. TypeOK /\ TypeOK'
  BY TypeStep DEF IInv, Next, Command
<1>2. /\ pc = "mismatch" /\ pc' = "idle"
      /\ UNCHANGED <<phone, part, dirvars, known, agreed, report, verdict>>
  BY DEF Decline, Calm, Quiet, restorevars
<1>3. report' = Silent
  BY <1>2 DEF IInv, PhaseInv, Creating
<1>4. PhaseInv' /\ RestoreInv'
  BY <1>2, <1>3 DEF IInv, PhaseInv, RestoreInv, Creating, Silent, dirvars
<1>5. QED BY <1>1, <1>2, <1>4, DirectoryKeeps DEF IInv

\* A report r about the head of the list, with the rest still to be written.
LEMMA ReportKeeps ==
  ASSUME IInv, TypeOK', pc = "write", todo # <<>>,
         (pc' = "write" /\ todo' = Tail(todo)) \/ (pc' = "idle" /\ todo' = <<>>),
         NEW r, report' = [report EXCEPT ![Head(todo)] = r],
         r = "verified" => part'[phone][Head(todo)] = img[Head(todo)],
         \A q \in Parts : q # Head(todo) => part'[phone][q] = part[phone][q],
         UNCHANGED <<phone, dirvars, known, agreed, verdict>>
  PROVE  IInv'
<1>1. TypeOK
  BY DEF IInv
<1>2. /\ Head(todo) \in Parts /\ Head(todo) = todo[1] /\ Len(todo) \in Nat \ {0}
      /\ Tail(todo) \in Seq(Parts) /\ Len(Tail(todo)) = Len(todo) - 1
      /\ \A i \in 1..Len(Tail(todo)) : Tail(todo)[i] = todo[i + 1]
  BY <1>1, HeadAndTail DEF TypeOK
<1>3. /\ \A i, j \in 1..Len(todo) : todo[i] = todo[j] => i = j
      /\ \A i \in 1..Len(todo) : todo[i] \in Parts /\ report[todo[i]] = "nothing"
  BY <1>1, <1>2 DEF IInv, RestoreInv, TypeOK
<1>4. ASSUME pc' = "write", NEW i \in 1..Len(todo')
      PROVE  /\ todo'[i] = todo[i + 1] /\ i + 1 \in 1..Len(todo)
             /\ report'[todo'[i]] = "nothing"
  <2>1. todo'[i] = todo[i + 1] /\ i + 1 \in 1..Len(todo) /\ 1 \in 1..Len(todo)
    BY <1>2, <1>4
  <2>2. todo[i + 1] # Head(todo) /\ todo[i + 1] \in Parts
    BY <1>2, <1>3, <1>4, <2>1
  <2>3. QED BY <1>1, <1>3, <2>1, <2>2 DEF TypeOK
<1>5. ASSUME pc' = "write", NEW i \in 1..Len(todo'), NEW j \in 1..Len(todo'), todo'[i] = todo'[j]
      PROVE  i = j
  BY <1>2, <1>3, <1>4, <1>5
<1>6. \A q \in Parts \ scribbled' : report'[q] = "verified" => part'[phone'][q] = img'[q]
  BY <1>1 DEF IInv, RestoreInv, TypeOK, dirvars
<1>7. known' /\ ~agreed' => Readable(main)' /\ Model[main'] = Model[phone']
  BY DEF IInv, RestoreInv, dirvars, Readable
<1>8. RestoreInv'
  BY <1>4, <1>5, <1>6, <1>7 DEF RestoreInv
<1>9. PhaseInv'
  BY DEF IInv, PhaseInv, Creating, dirvars
<1>10. QED BY <1>8, <1>9, DirectoryKeeps DEF IInv

LEMMA SkipKeeps == ASSUME IInv, Skip PROVE IInv'
<1>1. TypeOK'
  BY TypeStep DEF IInv, Next, Command
<1>2. QED
  BY <1>1, ReportKeeps DEF Skip, Calm, Quiet

LEMMA WriteKeeps == ASSUME IInv, WriteOne PROVE IInv'
<1>1. TypeOK /\ TypeOK'
  BY TypeStep DEF IInv, Next, Command
<1> DEFINE p == Head(todo)
<1>2. p \in Parts
  BY <1>1, HeadAndTail DEF WriteOne, TypeOK
<1>3. PICK o \in WriteOutcomes :
        /\ part' = [part EXCEPT ![phone][p] = PartAfter(o, p)]
        /\ report' = [report EXCEPT ![p] = o.report]
        /\ (pc' = "write" /\ todo' = Tail(todo)) \/ (pc' = "idle" /\ todo' = <<>>)
  BY DEF WriteOne
<1>4. o.report = "verified" => PartAfter(o, p) = img[p]
  BY DEF WriteOutcomes, PartAfter
<1>5. /\ part'[phone][p] = PartAfter(o, p)
      /\ \A q \in Parts : q # p => part'[phone][q] = part[phone][q]
  BY <1>1, <1>2, <1>3 DEF TypeOK
<1>6. pc = "write" /\ todo # <<>> /\ UNCHANGED <<phone, dirvars, known, agreed, verdict>>
  BY DEF WriteOne, Calm, Quiet
<1>7. QED
  BY <1>1, <1>3, <1>4, <1>5, <1>6, ReportKeeps

LEMMA RestoreEndKeeps == ASSUME IInv, RestoreEnd PROVE IInv'
<1>1. TypeOK'
  BY TypeStep DEF IInv, Next, Command
<1>2. /\ pc = "write" /\ pc' = "idle"
      /\ UNCHANGED <<phone, part, dirvars, todo, known, agreed, report, verdict>>
  BY DEF RestoreEnd, Calm, Quiet, restorevars
<1>3. PhaseInv' /\ RestoreInv'
  BY <1>2 DEF IInv, PhaseInv, RestoreInv, Creating, dirvars, Readable
<1>4. QED BY <1>1, <1>2, <1>3, DirectoryKeeps DEF IInv

LEMMA CrashKeeps == ASSUME IInv, Crash PROVE IInv'
<1>1. TypeOK /\ TypeOK'
  BY TypeStep DEF IInv, Next, World
<1>2. /\ pc # "idle" /\ pc' = "idle" /\ entries' = Unlisted
      /\ UNCHANGED <<phone, taken, scribbled, astray, verdict, known, agreed, report>>
  BY DEF Crash, Quiet, restorevars
<1>3. todo # <<>> => Head(todo) \in Parts
  BY <1>1, HeadAndTail DEF TypeOK
<1>4. pc \in Creating \cup {"mismatch"} => report = Silent
  BY DEF IInv, PhaseInv, Creating
<1>5. PhaseInv' /\ EntriesInv'
  BY <1>2 DEF PhaseInv, EntriesInv, HonestEntry, TrueOf, Unlisted, Absent, Creating
<1>6. CASE UNCHANGED <<part, img, listed, main, unnoted>>
  BY <1>1, <1>2, <1>5, <1>6 DEF IInv, ListedInv, VerdictInv, RestoreInv, HonestEntry, TrueOf,
     Readable
<1>7. CASE /\ pc = "dump" /\ img' = [img EXCEPT ![Head(todo)] = Torn]
           /\ unnoted' = unnoted \cup {Head(todo)} /\ UNCHANGED <<part, listed, main>>
  <2>1. Head(todo) \in Parts /\ report = Silent /\ verdict = Silent
    BY <1>1, <1>3, <1>4, <1>7 DEF IInv, PhaseInv, TypeOK, Creating, Dumping
  <2>2. \A q \in Parts : q # Head(todo) => img'[q] = img[q]
    BY <1>1, <1>7, <2>1 DEF TypeOK
  <2>3. ListedInv'
    BY <1>2, <1>7, <2>1, <2>2 DEF IInv, ListedInv, HonestEntry, TrueOf
  <2>4. VerdictInv' /\ RestoreInv'
    BY <1>2, <2>1 DEF VerdictInv, RestoreInv, Silent
  <2>5. QED BY <1>1, <1>5, <2>3, <2>4 DEF IInv
<1>8. CASE /\ pc = "note" /\ listed' = Torn /\ UNCHANGED <<part, img, main, unnoted>>
  <2>1. report = Silent /\ verdict = Silent
    BY <1>4, <1>8 DEF IInv, PhaseInv, Creating
  <2>2. ListedInv'
    BY <1>8 DEF ListedInv, Readable
  <2>3. VerdictInv' /\ RestoreInv'
    BY <1>2, <2>1 DEF VerdictInv, RestoreInv, Silent
  <2>4. QED BY <1>1, <1>5, <2>2, <2>3 DEF IInv
<1>9. CASE /\ pc = "finish" /\ main' = Torn /\ UNCHANGED <<part, img, listed, unnoted>>
  <2>1. report = Silent /\ verdict = Silent
    BY <1>4, <1>9 DEF IInv, PhaseInv, Creating
  <2>2. ListedInv'
    BY <1>2, <1>9 DEF IInv, ListedInv, HonestEntry, TrueOf
  <2>3. VerdictInv' /\ RestoreInv'
    BY <1>2, <2>1 DEF VerdictInv, RestoreInv, Silent
  <2>4. QED BY <1>1, <1>5, <2>2, <2>3 DEF IInv
<1>10. CASE /\ pc = "write" /\ todo # <<>> /\ part' = [part EXCEPT ![phone][Head(todo)] = Torn]
            /\ UNCHANGED <<img, listed, main, unnoted>>
  <2>1. Head(todo) \in Parts /\ Head(todo) = todo[1] /\ 1 \in 1..Len(todo)
    BY <1>1, <1>10, HeadAndTail DEF TypeOK
  <2>2. report[Head(todo)] = "nothing"
    BY <1>10, <2>1 DEF IInv, RestoreInv
  <2>3. \A q \in Parts : q # Head(todo) => part'[phone][q] = part[phone][q]
    BY <1>1, <1>10, <2>1 DEF TypeOK
  <2>4. RestoreInv'
    BY <1>2, <1>10, <2>2, <2>3 DEF IInv, RestoreInv, Readable
  <2>5. ListedInv' /\ VerdictInv'
    BY <1>2, <1>10 DEF IInv, ListedInv, VerdictInv, HonestEntry, TrueOf
  <2>6. QED BY <1>1, <1>5, <2>4, <2>5 DEF IInv
<1>11. QED
  BY <1>6, <1>7, <1>8, <1>9, <1>10 DEF Crash

\* The end of a process takes its threads with it and nothing else.
LEMMA ProcessEndsKeeps == ASSUME IInv, ProcessEnds PROVE IInv'
<1>1. TypeOK'
  BY TypeStep DEF IInv, Next, World
<1>2. UNCHANGED <<pc, phone, part, dirvars, todo, known, agreed, report, verdict>>
  BY DEF ProcessEnds, Quiet, restorevars
<1>3. PhaseInv' /\ RestoreInv'
  BY <1>2 DEF IInv, PhaseInv, RestoreInv, dirvars, Readable
<1>4. QED BY <1>1, <1>2, <1>3, DirectoryKeeps DEF IInv

\* Of an image that a thread writes nothing is promised any more.
LEMMA LateWriteKeeps == ASSUME IInv, NEW w \in pumps, LateWrite(w) PROVE IInv'
<1>1. TypeOK /\ TypeOK'
  BY TypeStep DEF IInv, Next, World
<1>2. w.part \in Parts
  BY <1>1 DEF TypeOK
<1>3. /\ scribbled' = scribbled \cup {w.part}
      /\ UNCHANGED <<pc, phone, part, entries, listed, main, todo, known, agreed, report,
                     verdict, unnoted, astray>>
  BY DEF LateWrite, restorevars
<1>4. \A q \in Parts \ scribbled' : img'[q] = img[q] /\ taken'[q] = taken[q]
  <2>1. /\ img' = [img EXCEPT ![w.part] = Torn] \/ img' = [img EXCEPT ![w.part] = w.holds]
        /\ taken' = [taken EXCEPT ![w.part] = w.of]
    BY DEF LateWrite
  <2>2. QED BY <1>1, <1>3, <2>1 DEF TypeOK
<1>5. EntriesInv' /\ ListedInv'
  BY <1>3, <1>4 DEF IInv, EntriesInv, ListedInv, HonestEntry, TrueOf
<1>6. VerdictInv'
  BY <1>3, <1>4 DEF IInv, VerdictInv
<1>7. PhaseInv' /\ RestoreInv'
  BY <1>3, <1>4 DEF IInv, PhaseInv, RestoreInv, Readable
<1>8. QED BY <1>1, <1>5, <1>6, <1>7 DEF IInv

LEMMA PlugKeeps == ASSUME IInv, NEW ph \in Phones, Plug(ph) PROVE IInv'
<1>1. TypeOK'
  BY TypeStep DEF IInv, Next, World
<1>2. /\ pc = "idle" /\ pc' = "idle" /\ report' = Silent
      /\ UNCHANGED <<part, dirvars, verdict>>
  BY DEF Plug
<1>3. entries = Unlisted
  BY <1>2 DEF IInv, PhaseInv, Creating
<1>4. PhaseInv' /\ EntriesInv' /\ RestoreInv'
  BY <1>2, <1>3 DEF PhaseInv, EntriesInv, RestoreInv, HonestEntry, TrueOf, Unlisted, Absent,
     Silent, Creating, dirvars
<1>5. ListedInv' /\ VerdictInv'
  BY <1>2 DEF IInv, ListedInv, VerdictInv, HonestEntry, TrueOf, dirvars
<1>6. QED BY <1>1, <1>4, <1>5 DEF IInv

LEMMA SystemKeeps ==
  ASSUME IInv, NEW p \in Parts, NEW g \in Gens, SystemWrite(p, g) PROVE IInv'
<1>1. TypeOK /\ TypeOK'
  <2>1. CASE g # part[phone][p]
    BY <2>1, TypeStep DEF IInv, Next, World
  <2>2. CASE g = part[phone][p]
    BY <2>2 DEF IInv, TypeOK, SystemWrite, dirvars, Contents, Creating, Dumping
  <2>3. QED BY <2>1, <2>2
<1>2. /\ report' = [report EXCEPT ![p] = "nothing"]
      /\ part' = [part EXCEPT ![phone][p] = g]
      /\ UNCHANGED <<pc, todo, phone, dirvars, verdict, known, agreed>>
  BY DEF SystemWrite
<1>3. \A q \in Parts \ scribbled : report'[q] = "verified" => part'[phone][q] = img[q]
  BY <1>1, <1>2 DEF IInv, RestoreInv, TypeOK
<1>4. report = Silent => report' = Silent
  BY <1>1, <1>2 DEF Silent, TypeOK
<1>5. \A q \in Parts : report[q] = "nothing" => report'[q] = "nothing"
  BY <1>1, <1>2 DEF TypeOK
<1>6. PhaseInv'
  BY <1>2, <1>4 DEF IInv, PhaseInv, Creating, dirvars
<1>7. ASSUME pc \in {"mismatch", "write"}
      PROVE  /\ \A i, j \in 1..Len(todo') : todo'[i] = todo'[j] => i = j
             /\ \A i \in 1..Len(todo') : report'[todo'[i]] = "nothing"
  BY <1>1, <1>2, <1>5, <1>7 DEF IInv, RestoreInv, TypeOK
<1>8. RestoreInv'
  BY <1>2, <1>3, <1>4, <1>7 DEF IInv, RestoreInv, dirvars, Readable
<1>9. QED BY <1>1, <1>2, <1>6, <1>8, DirectoryKeeps DEF IInv

LEMMA InvStep == IInv /\ [Next]_vars => IInv'
<1> SUFFICES ASSUME IInv, [Next]_vars PROVE IInv'
  OBVIOUS
<1>1. CASE UNCHANGED vars
  <2>1. TypeOK'
    BY <1>1, TypeStep DEF IInv
  <2>2. PhaseInv' /\ RestoreInv'
    BY <1>1 DEF IInv, vars, dirvars, PhaseInv, RestoreInv, Readable
  <2>3. QED BY <1>1, <2>1, <2>2, DirectoryKeeps DEF IInv, vars, dirvars
<1>2. CASE Command
  BY <1>2, CreateKeeps, DumpKeeps, NoteKeeps, CreateEndKeeps, VerifyKeeps, RestoreStartKeeps,
     AgreeKeeps, DeclineKeeps, SkipKeeps, WriteKeeps, RestoreEndKeeps DEF Command
<1>3. CASE World
  BY <1>3, CrashKeeps, ProcessEndsKeeps, LateWriteKeeps, PlugKeeps, SystemKeeps DEF World
<1>4. QED BY <1>1, <1>2, <1>3 DEF Next

LEMMA Invariant == Spec => []IInv
<1>1. QED
  BY InvInit, InvStep, PTL DEF Spec

-----------------------------------------------------------------------------
\* verify blames an image only for a dump that was not noted after it, for a thread
\* that wrote it after it was hashed, or for a directory that is elsewhere now.
THEOREM BlameIsRight == Spec => []BlameHasCause
<1>1. IInv => BlameHasCause
  BY DEF IInv, VerdictInv, BlameHasCause
<1>2. QED BY Invariant, <1>1, PTL

\* A verified, noted image that no thread wrote since is not written to a phone of
\* another known model unless MISMATCH was typed.
THEOREM ImagesAreGuarded == Spec => []MismatchGuardsImages
<1>1. IInv => MismatchGuardsImages
  <2> SUFFICES ASSUME IInv, NEW p \in Parts,
                      report[p] \notin {"nothing", "missing"}, known, ~agreed,
                      Readable(listed), listed.of = main, listed.ents[p].verified = "yes",
                      p \notin unnoted \cup scribbled
               PROVE  Model[taken[p]] = Model[phone]
    BY DEF MismatchGuardsImages
  <2>1. report # Silent
    BY DEF Silent
  <2>2. taken[p] = main
    BY DEF IInv, ListedInv, TrueOf
  <2>3. QED BY <2>1, <2>2 DEF IInv, RestoreInv
<1>2. QED BY Invariant, <1>1, PTL

\* Dump, verify and restore together give back what the dump found.
THEOREM RestoreIsExact == Spec => []RestoreGivesBack
<1>1. IInv => RestoreGivesBack
  BY DEF IInv, ListedInv, VerdictInv, RestoreInv, HonestEntry, RestoreGivesBack
<1>2. QED BY Invariant, <1>1, PTL
=============================================================================
