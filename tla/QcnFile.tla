------------------------------- MODULE QcnFile -------------------------------
(***************************************************************************)
(* `mrt efs qcn edit FILE ITEM`: efs_qcn_edit of cli.py over utils/qcn.py. *)
(* An item is written in place, over the units of its stream, or into the  *)
(* tree, which --rebuild lays out anew; either way into FILE or into       *)
(* another file.  Commands follow each other and may die at any step.      *)
(***************************************************************************)
EXTENDS QcnContainer

CONSTANTS Trees,     \* contents of the file at the start
          Items, Storages, \* what the technician may name
          TooLong,   \* those with more than 31 characters
          Lengths,   \* lengths of a new value
          Default,   \* NV_ITEM_ARRAY, the storage of a new item
          Anywhere,  \* no --storage
          NoFile, Torn, \* no file, and one cut short, which nothing can read
          MaxEdits   \* bound: commands started

ASSUME NamesAssumption == Default \in Storages /\ TooLong \subseteq Items \cup Storages /\ Anywhere \notin Storages
ASSUME LengthsAssumption == Lengths \subseteq Nat

VARIABLES
  step,   \* "idle", "confirm", "load", "copy", "copying", "find", "open" or "write"
  job,    \* what it was asked to do
  qcn,    \* FILE
  out,    \* the file of --out
  held,   \* the tree or container in memory
  told,   \* "none", or the end: "done", "refused", "declined", "died"
  was,    \* history: FILE when the command was started
  edits

editVars == <<step, job, qcn, out, held, told, was, edits>>

Job == [item : Items, storage : Storages \cup {Anywhere}, len : Lengths, rebuild : BOOLEAN, toOut : BOOLEAN]

Readable(f) == f \notin {NoFile, Torn}
Value(n) == [k \in 1..n |-> <<"new", 100 * edits + k>>]
Target == IF job.toOut THEN out ELSE qcn
Write(f) == IF job.toOut THEN out' = f /\ UNCHANGED qcn ELSE qcn' = f /\ UNCHANGED out

\* How QPST may have placed n sectors; only the order differs from the writer's own.
Backwards == [n \in Nat |-> [p \in 0..(n - 1) |-> n - 1 - p]]

EditInit == /\ qcn \in {Layout(t, InOrder) : t \in Trees} \cup {Layout(t, Backwards) : t \in Trees}
            /\ step = "idle" /\ told = "none" /\ edits = 0
            /\ job = CHOOSE j \in Job : TRUE
            /\ out = NoFile /\ held = <<>> /\ was = qcn

StartEdit == /\ step = "idle" /\ edits < MaxEdits
             /\ job' \in Job
             /\ step' = "confirm" /\ told' = "none" /\ edits' = edits + 1
             /\ was' = qcn
             /\ UNCHANGED <<qcn, out, held>>

EndEdit(how) == step' = "idle" /\ told' = how /\ held' = <<>>

ConfirmEdit == /\ step = "confirm"
               /\ step' = IF job.rebuild THEN "load" ELSE IF job.toOut THEN "copy" ELSE "find"
               /\ UNCHANGED <<job, qcn, out, held, told, was, edits>>

DeclineEdit == /\ step = "confirm"
               /\ EndEdit("declined")
               /\ UNCHANGED <<job, qcn, out, was, edits>>

----------------------------------------------------------------------------
(* --rebuild *)

NamedStorage == IF job.storage = Anywhere THEN Default ELSE job.storage

\* The tree with the item set; a node in its place goes with all that is below it.
SetItem(tree, storage, item, value) ==
  LET path == <<storage, item>>
      opened == IF \E k \in DOMAIN tree : tree[k].path = <<storage>> THEN tree
                ELSE Append(tree, Storage(<<storage>>))
      at == {k \in DOMAIN opened : opened[k].path = path}
      last == Max({k \in DOMAIN opened : opened[k].path[1] = storage})
  IN  IF at = {} THEN InsertAt(opened, last + 1, Stream(path, value))
      ELSE SelectSeq([opened EXCEPT ![Min(at)] = Stream(path, value)],
                     LAMBDA n : ~IsStrictPrefix(path, n.path))

Load == /\ step = "load"
        /\ IF Readable(qcn) /\ ~ \E n \in ToSet(ToTree(qcn)) : n = Stream(<<NamedStorage>>, n.data)
           THEN /\ step' = "open"
                /\ held' = SetItem(ToTree(qcn), NamedStorage, job.item, Value(job.len))
                /\ UNCHANGED told
           ELSE EndEdit("refused")
        /\ UNCHANGED <<job, qcn, out, was, edits>>

\* Python opens the file for writing before it evaluates what is to be written.
Open == /\ step = "open"
        /\ Write(Torn)
        /\ step' = "write"
        /\ UNCHANGED <<job, held, told, was, edits>>

Refused(tree) == TooLarge(tree) \/ \E k \in DOMAIN tree : Last(tree[k].path) \in TooLong

SaveFile == /\ step = "write"
            /\ IF ~job.rebuild THEN Write(held) /\ EndEdit("done")
               ELSE IF Refused(held) THEN EndEdit("refused") /\ UNCHANGED <<qcn, out>>
               ELSE Write(Serialize(held)) /\ EndEdit("done")
            /\ UNCHANGED <<job, was, edits>>

----------------------------------------------------------------------------
(* in place *)

Copy == /\ step = "copy"
        /\ out' = Torn
        /\ step' = "copying"
        /\ UNCHANGED <<job, qcn, held, told, was, edits>>

Copied == /\ step = "copying"
          /\ out' = qcn
          /\ step' = "find"
          /\ UNCHANGED <<job, qcn, held, told, was, edits>>

\* Mutant: --storage is ignored.
FoundAnywhere(c) == {i \in DOMAIN c.dir : c.dir[i].type = "stream" /\ c.dir[i].name = job.item}

\* Directory entries the item may be: the first one is taken.
Found(c) == {i \in DOMAIN c.dir : /\ c.dir[i].type = "stream" /\ c.dir[i].name = job.item
                                  /\ job.storage = Anywhere \/ ParentName(c, i - 1) = job.storage}

\* Mutant: the file is opened for writing first.
FindOpens == /\ step = "find"
             /\ LET c == CompoundFile(Target)
                    e == c.dir[Min(Found(c))]
                IN  IF Readable(Target) /\ Found(c) # {} /\ e.size = job.len
                    THEN /\ held' = Overwritten(Target, e, Value(job.len))
                         /\ step' = "open"
                         /\ UNCHANGED <<told, qcn, out>>
                    ELSE EndEdit("refused") /\ Write(Torn)
             /\ UNCHANGED <<job, was, edits>>

Find == /\ step = "find"
        /\ LET c == CompoundFile(Target)
               e == c.dir[Min(Found(c))]
           IN  IF Readable(Target) /\ Found(c) # {} /\ e.size = job.len
               THEN /\ held' = Overwritten(Target, e, Value(job.len))
                    /\ step' = "open"
                    /\ UNCHANGED told
               ELSE EndEdit("refused")
        /\ UNCHANGED <<job, qcn, out, was, edits>>

KillEdit == /\ step # "idle"
            /\ EndEdit("died")
            /\ UNCHANGED <<job, qcn, out, was, edits>>

EditNext == StartEdit \/ ConfirmEdit \/ DeclineEdit \/ Load \/ Open \/ SaveFile \/ Copy \/ Copied \/ Find \/ KillEdit

EditSpec == EditInit /\ [][EditNext]_editVars

----------------------------------------------------------------------------
Others(nodes, path) == {n \in nodes : n.path # path /\ n # Storage(Front(path))}

(* After an edit that succeeded the file reads back as the tree it was made of   *)
(* with the value in one item of that name, in the storage that was asked for,   *)
(* and a storage at most is new: Qcn.save, edit_item_inplace.                    *)
EditIsExact ==
  told = "done" =>
    LET old == ToSet(ToTree(was))
        new == ToSet(ToTree(Target))
    IN  \E n \in new : /\ n.type = "stream" /\ Last(n.path) = job.item /\ n.data = Value(job.len)
                       /\ job.storage # Anywhere => IsSuffix(<<job.storage, job.item>>, n.path)
                       /\ Others(old, n.path) = Others(new, n.path)

(* The sectors that hold the tables of the container f: DIFAT, FAT, directory, mini FAT. *)
Tables(f, c) == ToSet(DifatChain(f)) \cup ToSet(FatSectors(f)) \cup ToSet(Chain(c.fat, f.firstDir))
                \cup (IF f.numMini = 0 THEN {} ELSE ToSet(Chain(c.fat, f.firstMini)))

Streams(c) == {i \in DOMAIN c.dir : c.dir[i].type = "stream"}
Places(c, i) == ToSet(Units(c, c.dir[i]))

IsSequence(s) == Len(s) \in Nat /\ s = [k \in 1..Len(s) |-> s[k]]

(* Sound: the tables lie in the file, and so do the units of the streams, outside *)
(* the tables; a stream has as many of them as its size and no other stream's.    *)
Sound(f) ==
  LET c == CompoundFile(f)
      tables == Tables(f, c)
      InFile(at) == at[1] \in 0..(Len(f.sectors) - 1) /\ at[2] \in 0..(Len(f.sectors[at[1] + 1]) - 1)
  IN  /\ IsSequence(c.dir) /\ IsSequence(f.sectors) /\ \A s \in DOMAIN f.sectors : IsSequence(f.sectors[s])
      /\ tables \subseteq 0..(Len(f.sectors) - 1)
      /\ \A i \in Streams(c) :
           /\ Cardinality(Places(c, i)) = c.dir[i].size
           /\ \A at \in Places(c, i) : InFile(at) /\ at[1] \notin tables
           /\ \A j \in Streams(c) \ {i} : Places(c, i) \cap Places(c, j) = {}

(* Whatever was edited, in place or by a rebuild, the files are sound: the writer  *)
(* gives no sector to two, and an edit in place takes none: qcn.py:316-377, 465.   *)
ContainersAreSound == told = "done" \/ edits = 0 => Sound(Target)

(* An edit in place of a sound container leaves everything of it but the units of  *)
(* the one stream: header, directory, FAT, mini FAT and what every other stream    *)
(* reads back as; its own stream reads back as the value                           *)
(* (docs/COMMANDS.md:167, "whole container preserved").                            *)
InPlaceKeepsContainer ==
  (told = "done" /\ ~job.rebuild /\ Sound(was)) =>
    LET old == CompoundFile(was)
        new == CompoundFile(Target)
        found == Min(Found(old))
        place == Places(old, found)
        Changed(s) == {u \in DOMAIN was.sectors[s] : was.sectors[s][u] # Target.sectors[s][u]}
    IN  /\ [Target EXCEPT !.sectors = <<>>] = [was EXCEPT !.sectors = <<>>]
        /\ \A s \in DOMAIN was.sectors : \A u \in Changed(s) : <<s - 1, u - 1>> \in place
        /\ new.dir = old.dir /\ new.fat = old.fat /\ new.minifat = old.minifat
        /\ \A i \in Streams(old) :
              ReadEntry(new, new.dir[i]) = IF i = found THEN Value(job.len) ELSE ReadEntry(old, old.dir[i])

(* An edit in place that is refused, for a missing item, another length or a     *)
(* file it cannot read, leaves FILE as it was: edit_item_inplace.                *)
RefusedInPlaceKeepsFile == (told = "refused" /\ ~job.rebuild) => qcn = was
=============================================================================
