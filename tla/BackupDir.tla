------------------------------ MODULE BackupDir ------------------------------
(***************************************************************************)
(* The partition images of `mrt backup create`, `verify` and `restore`:    *)
(* modules/backup.py and dump_all of modules/partitions.py.  create dumps  *)
(* the partitions one by one and rewrites partitions/manifest.json after   *)
(* each; manifest.json, which names the model, is written at the end.      *)
(* verify hashes the images again; restore compares models and writes the  *)
(* images without looking at the hashes.  Commands follow each other over  *)
(* one directory, on whichever phone is attached, and may die anywhere.    *)
(* A dump whose join expired leaves a thread behind that goes on writing   *)
(* its image as long as the process lives; and the directory may be moved, *)
(* which restore follows and verify does not.                              *)
(***************************************************************************)
EXTENDS Naturals, Sequences, FiniteSets, SequencesExt, Outcomes

CONSTANTS Phones, Parts,
          Model,        \* phone -> its model
          Gens,         \* contents of a partition
          Torn,         \* contents cut short
          NoFile,       \* "there is no such file"
          MaxCmds,      \* bound: commands started
          MaxMoves,     \* bound: writes by the running systems and by threads left behind
          MaxPumps      \* bound: threads left behind at a time

ASSUME PartsAssumption == IsFiniteSet(Parts)
ASSUME ContentsAssumption == {Torn, NoFile} \cap Gens = {} /\ Torn # NoFile

VARIABLES
  pc,        \* "idle", "dump", "note", "finish", "mismatch" or "write"
  phone,     \* the phone that is attached
  part,      \* phone -> partition -> contents
  img,       \* partitions/<name>.img
  entries,   \* the entries of the running create: [status, verified, sha] and, as
             \* history, what the partition held when it was dumped
  listed,    \* partitions/manifest.json: [of: phone, ents], NoFile or Torn
  main,      \* manifest.json: its phone, NoFile or Torn
  todo,      \* partitions still to be dumped or written
  known,     \* the comparison of the models was made, or would have agreed
  agreed,    \* MISMATCH was typed
  report,    \* partition -> what the last restore noted of it as it is now
  verdict,   \* partition -> what the last verify said of the directory as it is
  taken,     \* history: partition -> the phone its image was dumped from
  unnoted,   \* history: partitions dumped since partitions/manifest.json was written
  pumps,     \* threads that dumps left behind: the image they write, of whom, and what
  scribbled, \* history: images written by such a thread since they were hashed
  astray,    \* history: the last verify did not look at the images of this directory
  cmds, moves

vars == <<pc, phone, part, img, entries, listed, main, todo, known, agreed, report,
          verdict, taken, unnoted, pumps, scribbled, astray, cmds, moves>>
dirvars == <<img, entries, listed, main, taken, unnoted, scribbled, astray>>
restorevars == <<known, agreed, report>>

Absent == [status |-> "absent", verified |-> "none", sha |-> NoFile, held |-> NoFile]
Unlisted == [p \in Parts |-> Absent]
Silent == [p \in Parts |-> "nothing"]
Readable(file) == file \notin {NoFile, Torn}

Init ==
  /\ pc = "idle" /\ phone \in Phones
  /\ part \in [Phones -> {[p \in Parts |-> g] : g \in Gens}]
  /\ img = [p \in Parts |-> NoFile] /\ entries = Unlisted
  /\ listed = NoFile /\ main = NoFile
  /\ todo = <<>> /\ known = TRUE /\ agreed = FALSE
  /\ report = Silent /\ verdict = Silent
  /\ taken = [p \in Parts |-> phone]
  /\ unnoted = {} /\ pumps = {} /\ scribbled = {}
  /\ astray = FALSE
  /\ cmds = 0 /\ moves = 0

NewCmd == /\ pc = "idle" /\ cmds < MaxCmds
          /\ cmds' = cmds + 1
          /\ report' = Silent
          /\ UNCHANGED <<phone, part, pumps, moves>>

Quiet == UNCHANGED <<phone, cmds, moves>>
Calm == Quiet /\ UNCHANGED pumps
\* The partitions a command handles, in the order of the table or of the listing.
Wishes == SetToAllKPermutations(Parts)

----------------------------------------------------------------------------
(* create *)

\* Without root, or when no partition has a wanted name, there is nothing to dump.
CreateStart(wanted) ==
  /\ NewCmd
  /\ pc' = IF wanted = <<>> THEN "finish" ELSE "dump"
  /\ todo' = wanted
  /\ verdict' = Silent /\ astray' = FALSE
  /\ known' = TRUE /\ agreed' = FALSE
  /\ UNCHANGED <<img, entries, listed, main, taken, unnoted, scribbled>>

FileAfter(o, p) ==
  CASE o.file = "copy" -> part[phone][p] [] o.file = "torn" -> Torn [] o.file = "old" -> img[p]

FailedEntry(p) == [status |-> "failed", verified |-> "none", sha |-> NoFile, held |-> part[phone][p]]

\* Mutants: the image is hashed before the dump; a dump that returned is taken for verified.
HashedFirst(o, p) ==
  IF o.status = "failed" THEN FailedEntry(p)
  ELSE [status |-> "ok", verified |-> o.verified, sha |-> img[p], held |-> part[phone][p]]
Trusting(o, p) ==
  IF o.status = "failed" THEN FailedEntry(p)
  ELSE [status |-> "ok", verified |-> "yes", sha |-> FileAfter(o, p), held |-> part[phone][p]]

\* The hash is that of the file at that moment, which may not be the last.
EntryOf(o, p) ==
  IF o.status = "failed" THEN FailedEntry(p)
  ELSE [status |-> "ok", verified |-> o.verified, sha |-> FileAfter(o, p), held |-> part[phone][p]]

\* A thread that has opened its file and not written all of it when its join
\* expires goes on.
Outlived(o, p) ==
  \/ UNCHANGED pumps
  \/ /\ o.file = "torn" /\ Cardinality(pumps) < MaxPumps /\ moves < MaxMoves
     /\ pumps' = pumps \cup {[part |-> p, of |-> phone, holds |-> part[phone][p]]}

\* dump_partition; an exception makes an entry without a hash.
DumpOne ==
  /\ pc = "dump" /\ todo # <<>>
  /\ LET p == Head(todo)
     IN  \E o \in DumpOutcomes(TRUE, img[p] # NoFile, TRUE) :
           /\ img' = [img EXCEPT ![p] = FileAfter(o, p)]
           /\ entries' = [entries EXCEPT ![p] = EntryOf(o, p)]
           /\ taken' = IF o.file = "old" THEN taken
                       ELSE [taken EXCEPT ![p] = phone]
           /\ Outlived(o, p)
  /\ unnoted' = unnoted \cup {Head(todo)}
  /\ scribbled' = scribbled \ {Head(todo)}
  /\ pc' = "note"
  /\ UNCHANGED <<part, listed, main, todo, verdict, astray, restorevars>> /\ Quiet

\* partitions/manifest.json, after every partition.
Note == /\ pc = "note"
        /\ listed' = [of |-> phone, ents |-> entries]
        /\ unnoted' = {}
        /\ todo' = Tail(todo)
        /\ pc' = IF Tail(todo) = <<>> THEN "finish" ELSE "dump"
        /\ UNCHANGED <<part, img, entries, main, verdict, taken, scribbled, astray, restorevars>> /\ Calm

CreateEnd == /\ pc = "finish"
             /\ main' = phone
             /\ entries' = Unlisted
             /\ pc' = "idle"
             /\ UNCHANGED <<part, img, listed, todo, verdict, taken, unnoted, scribbled, astray,
                            restorevars>> /\ Calm

----------------------------------------------------------------------------
(* verify *)

\* verify opens the path that create was given: it leads to this directory's image;
\* to nothing, if the directory was moved or verify runs elsewhere; or to the images
\* as they were listed, if this is a copy of the directory.
Places == {"here", "gone", "original"}
Found(p, place) ==
  CASE place = "here" -> img[p]
    [] place = "gone" -> NoFile
    [] place = "original" -> listed.ents[p].sha

Verdict(p, place) ==
  LET e == listed.ents[p]
  IN  CASE e.status = "absent" -> "nothing"
        [] e.status = "failed" -> "skipped"
        [] e.status = "ok" /\ Found(p, place) = NoFile -> "missing"
        [] e.status = "ok" /\ Found(p, place) # NoFile ->
             IF Found(p, place) = e.sha THEN "ok" ELSE "CORRUPT"

Verify(place) == /\ NewCmd
                 /\ Readable(listed)
                 /\ verdict' = [p \in Parts |-> Verdict(p, place)]
                 /\ astray' = (place # "here")
                 /\ known' = TRUE /\ agreed' = FALSE
                 /\ UNCHANGED <<pc, img, entries, listed, main, taken, unnoted, scribbled, todo>>

----------------------------------------------------------------------------
(* restore *)

\* Mutant: a backup of another model is restored without asking.
RestoreUnasked(wanted, answers) ==
  /\ NewCmd
  /\ Readable(main)
  /\ todo' = wanted
  /\ known' = (answers \/ Model[main] = Model[phone]) /\ agreed' = FALSE
  /\ pc' = "write"
  /\ UNCHANGED <<dirvars, verdict>>

\* A phone that does not answer getprop skips the comparison, which makes a
\* difference only if the models differ.
RestoreStart(wanted, answers) ==
  /\ NewCmd
  /\ Readable(main)
  /\ todo' = wanted
  /\ known' = (answers \/ Model[main] = Model[phone]) /\ agreed' = FALSE
  /\ pc' = IF answers /\ Model[main] # Model[phone] THEN "mismatch" ELSE "write"
  /\ UNCHANGED <<dirvars, verdict>>

AgreeMismatch == /\ pc = "mismatch"
                 /\ agreed' = TRUE
                 /\ pc' = "write"
                 /\ UNCHANGED <<part, dirvars, todo, known, report, verdict>> /\ Calm

Decline == /\ pc = "mismatch"
           /\ pc' = "idle" /\ todo' = <<>>
           /\ UNCHANGED <<part, dirvars, restorevars, verdict>> /\ Calm

Skip == /\ pc = "write" /\ todo # <<>> /\ img[Head(todo)] = NoFile
        /\ report' = [report EXCEPT ![Head(todo)] = "missing"]
        /\ todo' = Tail(todo)
        /\ pc' = IF Tail(todo) = <<>> THEN "idle" ELSE "write"
        /\ UNCHANGED <<part, dirvars, known, agreed, verdict>> /\ Calm

PartAfter(o, p) ==
  CASE o.leaves = "old" -> part[phone][p] [] o.leaves = "image" -> img[p] [] o.leaves = "torn" -> Torn

\* write_partition asks for the partition's name; a declined prompt and every
\* other failure leave it as an exception, which ends the restore.
WriteOne ==
  /\ pc = "write" /\ todo # <<>> /\ img[Head(todo)] # NoFile
  /\ LET p == Head(todo)
     IN  \E o \in WriteOutcomes :
           /\ part' = [part EXCEPT ![phone][p] = PartAfter(o, p)]
           /\ report' = [report EXCEPT ![p] = o.report]
           /\ todo' = IF o.report = "FAILED" THEN <<>> ELSE Tail(todo)
           /\ pc' = IF todo' = <<>> THEN "idle" ELSE "write"
  /\ UNCHANGED <<dirvars, known, agreed, verdict>> /\ Calm

\* No partition was asked for.
RestoreEnd == /\ pc = "write" /\ todo = <<>>
              /\ pc' = "idle"
              /\ UNCHANGED <<part, dirvars, todo, restorevars, verdict>> /\ Calm

----------------------------------------------------------------------------
(* The world. *)

\* The process dies, and its threads; the file or partition it was writing may be torn.
Crash ==
  /\ pc # "idle"
  /\ pc' = "idle" /\ todo' = <<>>
  /\ \/ UNCHANGED <<part, img, listed, main, unnoted>>
     \/ /\ pc = "dump" /\ img' = [img EXCEPT ![Head(todo)] = Torn]
        /\ unnoted' = unnoted \cup {Head(todo)}
        /\ UNCHANGED <<part, listed, main>>
     \/ pc = "note" /\ listed' = Torn /\ UNCHANGED <<part, img, main, unnoted>>
     \/ pc = "finish" /\ main' = Torn /\ UNCHANGED <<part, img, listed, unnoted>>
     \/ /\ pc = "write" /\ todo # <<>> /\ part' = [part EXCEPT ![phone][Head(todo)] = Torn]
        /\ UNCHANGED <<img, listed, main, unnoted>>
  /\ entries' = Unlisted
  /\ pumps' = {}
  /\ UNCHANGED <<verdict, taken, scribbled, astray, restorevars>> /\ Quiet

\* A thread that outlived its dump writes a piece, or its last.
LateWrite(w) ==
  /\ moves < MaxMoves
  /\ moves' = moves + 1
  /\ \/ img' = [img EXCEPT ![w.part] = Torn] /\ UNCHANGED pumps
     \/ img' = [img EXCEPT ![w.part] = w.holds] /\ pumps' = pumps \ {w}
  /\ scribbled' = scribbled \cup {w.part}
  /\ taken' = [taken EXCEPT ![w.part] = w.of]
  /\ UNCHANGED <<pc, phone, part, entries, listed, main, todo, restorevars, verdict, unnoted,
                 astray, cmds>>

\* The process ends with its command (in the menu, with a later one), and its threads.
ProcessEnds == /\ pc = "idle" /\ pumps # {} /\ pumps' = {}
               /\ UNCHANGED <<pc, part, dirvars, todo, restorevars, verdict>> /\ Quiet

\* The running system, or a dd that an earlier command gave up on, writes a
\* partition, during a command or between two; what it leaves is a generation.
SystemWrite(p, g) ==
  /\ moves < MaxMoves
  /\ moves' = moves + 1
  /\ part' = [part EXCEPT ![phone][p] = g]
  /\ report' = [report EXCEPT ![p] = "nothing"]
  /\ UNCHANGED <<pc, phone, dirvars, todo, known, agreed, verdict, pumps, cmds>>

Plug(ph) == /\ pc = "idle" /\ cmds < MaxCmds /\ ph # phone
            /\ phone' = ph
            /\ report' = Silent
            /\ UNCHANGED <<pc, part, dirvars, todo, known, agreed, verdict, pumps, cmds, moves>>

Command == \/ \E w \in Wishes : CreateStart(w)
           \/ DumpOne \/ Note \/ CreateEnd
           \/ \E place \in Places : Verify(place)
           \/ \E w \in Wishes, a \in BOOLEAN : RestoreStart(w, a)
           \/ AgreeMismatch \/ Decline \/ Skip \/ WriteOne \/ RestoreEnd

World == \/ Crash \/ ProcessEnds
         \/ \E w \in pumps : LateWrite(w)
         \/ \E ph \in Phones : Plug(ph)
         \/ \E p \in Parts : \E g \in Gens \ {part[phone][p]} : SystemWrite(p, g)

Next == Command \/ World

Spec == Init /\ [][Next]_vars

----------------------------------------------------------------------------
(* verify blames an image only for a dump that died, or was not yet noted, after *)
(* partitions/manifest.json was written, for a thread that went on writing the   *)
(* image after it was hashed, or for a directory that is not where it was        *)
(* created; whatever was dumped, failed and dumped again: partitions.py:138,     *)
(* backup.py:147-155.                                                            *)
BlameHasCause ==
  \A p \in Parts :
    verdict[p] \in {"missing", "CORRUPT"} => p \in unnoted \cup scribbled \/ astray

(* An image that the directory lists as verified for the phone its manifest.json *)
(* names, and that no thread has written since, is not written to a phone of     *)
(* another known model unless MISMATCH was typed, though the images themselves   *)
(* tell no model: backup.py:93-94.                                               *)
MismatchGuardsImages ==
  \A p \in Parts \ (unnoted \cup scribbled) :
    (/\ report[p] \notin {"nothing", "missing"} /\ known /\ ~agreed
     /\ Readable(listed) /\ listed.of = main /\ listed.ents[p].verified = "yes")
      => Model[taken[p]] = Model[phone]

(* A partition whose dump was verified, whose image verify calls ok and whose    *)
(* restore verified holds what it held when it was dumped, unless the system or  *)
(* a thread of a dump wrote meanwhile; in a directory that is where it was       *)
(* created, for else verify and restore look at two files: dump_all, verify and  *)
(* restore together.                                                             *)
RestoreGivesBack ==
  \A p \in Parts \ scribbled :
    (/\ report[p] = "verified" /\ verdict[p] = "ok" /\ ~astray
     /\ Readable(listed) /\ listed.ents[p].verified = "yes")
      => part[phone][p] = listed.ents[p].held
=============================================================================
