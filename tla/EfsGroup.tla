------------------------------- MODULE EfsGroup -------------------------------
(***************************************************************************)
(* `mrt efs backup` and `mrt efs restore`: backup and restore in           *)
(* modules/efs.py, which move the partitions that carry a phone's radio    *)
(* identity between a phone and one backup directory.  Phones are plugged  *)
(* and unplugged, commands follow each other over the same directory, a    *)
(* command may die between any two steps, and a running modem may write    *)
(* the partitions at any time.  Each dump and each write is one step whose *)
(* results are those of Outcomes.                                          *)
(***************************************************************************)
EXTENDS Naturals, FiniteSets, Outcomes

CONSTANTS Phones,     \* phones that come to the workbench
          Model,      \* phone -> its ro.product.device
          Groups,     \* group name -> its partitions
          Parts,      \* every partition of a group
          Gens,       \* NV contents a modem can write
          Torn,       \* contents that are no NV image any more
          NoFile,     \* "there is no such file"
          Unsized,    \* partitions whose size the phone does not tell
          MaxCmds,    \* bound: commands started
          MaxMoves,   \* bound: writes of running modems
          MaxLate     \* bound: writes that go on without their command

ASSUME GroupsAssumption == \A g \in DOMAIN Groups : Groups[g] \subseteq Parts
ASSUME ContentAssumption == Torn \notin Gens /\ NoFile \notin Gens \cup {Torn}

VARIABLES
  pc,        \* "idle", or the phase of the running command
  phone,     \* the phone that is plugged in
  nv,        \* NV contents of each phone's partitions
  img,       \* image files of the backup directory
  from,      \* history: the phone whose dump wrote each of them
  manifest,  \* its efs-manifest.json
  entries,   \* the manifest a running backup is putting together
  todo,      \* partitions the running loop still has to handle.  The code goes
             \* through them in the order of its tables; here any order is a step
  cmd,       \* arguments and decisions of the running (or last) command
  rb,        \* image files of the last restore's rollback directory
  rbSaid,    \* what the rollback dumps told the operator
  before,    \* history: the phone's partitions when the operator consented
  moved,     \* history: partitions that others wrote during the last command
  halfway,   \* history: a backup into the directory did not reach its end
  late,      \* writes that were given up on and may still go on on their phone
  cmds, moves

files == <<img, from, manifest, halfway>>
restored == <<rb, rbSaid, before>>
vars == <<pc, phone, nv, files, entries, todo, cmd, restored, moved, late, cmds, moves>>

Content == Gens \cup {Torn}
Entry == [status : {"absent", "ok", "failed"}, verified : {"yes", "no", "none"},
          sha : Content \cup {NoFile}]
Absent == [status |-> "absent", verified |-> "none", sha |-> NoFile]
NoManifest == [made |-> FALSE, of |-> NoFile,
               group |-> CHOOSE g \in DOMAIN Groups : TRUE,
               ents |-> [p \in Parts |-> Absent]]
Pcs == {"idle", "backup", "mismatch", "consent", "rollback", "write"}

TypeOK ==
  /\ pc \in Pcs
  /\ phone \in Phones
  /\ nv \in [Phones -> [Parts -> Content]]
  /\ img \in [Parts -> Content \cup {NoFile}]
  /\ from \in [Parts -> Phones \cup {NoFile}]
  /\ manifest \in [made : BOOLEAN, of : Phones \cup {NoFile}, group : DOMAIN Groups,
                   ents : [Parts -> Entry]]
  /\ entries \in [Parts -> Entry]
  /\ todo \subseteq Parts
  /\ cmd \in [group : DOMAIN Groups, chosen : SUBSET Parts, rollback : BOOLEAN,
            known : BOOLEAN, agreed : BOOLEAN]
  /\ rb \in [Parts -> Content \cup {NoFile}]
  /\ rbSaid \in [Parts -> {"nothing", "ok", "warned"}]
  /\ before \in [Parts -> Content]
  /\ moved \subseteq Parts
  /\ halfway \in BOOLEAN
  /\ late \subseteq [by : Nat, phone : Phones, part : Parts, src : Content]
  /\ cmds \in Nat /\ moves \in Nat

NothingRestored == /\ rb' = [p \in Parts |-> NoFile]
                   /\ rbSaid' = [p \in Parts |-> "nothing"]
                   /\ before' = nv[phone]

\* The backup directory at first: new, or with a whole backup that was made before.
NewDirectory == /\ img = [p \in Parts |-> NoFile] /\ from = img
                /\ manifest = NoManifest

HoldsBackup(ph, g) ==
  /\ Groups[g] # {}
  /\ img = [p \in Parts |-> IF p \in Groups[g] THEN nv[ph][p] ELSE NoFile]
  /\ from = [p \in Parts |-> IF p \in Groups[g] THEN ph ELSE NoFile]
  /\ manifest = [made |-> TRUE, of |-> ph, group |-> g,
                 ents |-> [p \in Parts |->
                   IF p \in Groups[g]
                     THEN [status |-> "ok", verified |-> "yes", sha |-> img[p]] ELSE Absent]]

Init ==
  /\ pc = "idle"
  /\ phone \in Phones
  /\ nv \in [Phones -> {[p \in Parts |-> g] : g \in Gens}]
  /\ \/ NewDirectory
     \/ \E ph \in Phones, g \in DOMAIN Groups : HoldsBackup(ph, g)
  /\ entries = [p \in Parts |-> Absent]
  /\ todo = {}
  /\ cmd \in [group : DOMAIN Groups, chosen : {{}}, rollback : {TRUE},
             known : {TRUE}, agreed : {FALSE}]
  /\ rb = [p \in Parts |-> NoFile] /\ rbSaid = [p \in Parts |-> "nothing"]
  /\ before = nv[phone]
  /\ moved = {} /\ halfway = FALSE /\ late = {}
  /\ cmds = 0 /\ moves = 0

\* Bookkeeping of a new command.
NewCmd == /\ pc = "idle" /\ cmds < MaxCmds
          /\ cmds' = cmds + 1
          /\ moved' = {}
          /\ UNCHANGED <<phone, nv, late, moves>>

\* The rest of a phase leaves the world outside the command alone.
Quiet == UNCHANGED <<phone, moved, late, cmds, moves>>

-----------------------------------------------------------------------------
(* Backup.                                                                 *)

BackupStart(g) == /\ NewCmd
                  /\ Groups[g] # {}
                  /\ pc' = "backup"
                  /\ cmd' = [cmd EXCEPT !.group = g]
                  /\ todo' = Groups[g]
                  /\ entries' = [p \in Parts |-> Absent]
                  /\ halfway' = TRUE
                  /\ NothingRestored
                  /\ UNCHANGED <<img, from, manifest>>

FileAfter(o, old, contents) ==
  CASE o.file = "copy" -> contents [] o.file = "torn" -> Torn [] o.file = "old" -> old

\* dump_partition(verify=True); an exception only marks the entry as failed.
BackupOne ==
  /\ pc = "backup"
  /\ \E p \in todo :
       \E o \in DumpOutcomes(TRUE, img[p] # NoFile, p \in moved \cup Unsized) :
         LET file == FileAfter(o, img[p], nv[phone][p]) IN
           /\ img' = [img EXCEPT ![p] = file]
           /\ from' = IF o.file = "old" THEN from ELSE [from EXCEPT ![p] = phone]
           /\ entries' = [entries EXCEPT ![p] =
                [status |-> o.status,
                 verified |-> IF o.status = "ok" THEN o.verified ELSE "none",
                 sha |-> IF o.status = "ok" THEN file ELSE NoFile]]
           /\ todo' = todo \ {p}
  /\ UNCHANGED <<pc, nv, manifest, halfway, cmd, restored>> /\ Quiet

\* Mutants: a repeated backup keeps the older entry of a failed dump; it keeps
\* the header of the manifest that is there.
BackupEndMerges ==
  /\ pc = "backup" /\ todo = {}
  /\ manifest' = [made |-> TRUE, of |-> phone, group |-> cmd.group,
                  ents |-> [p \in Parts |-> IF entries[p].status = "failed"
                                            THEN manifest.ents[p] ELSE entries[p]]]
  /\ halfway' = FALSE
  /\ pc' = "idle"
  /\ entries' = [p \in Parts |-> Absent]
  /\ UNCHANGED <<nv, img, from, todo, cmd, restored>> /\ Quiet

BackupEndKeepsDevice ==
  /\ pc = "backup" /\ todo = {}
  /\ manifest' = [made |-> TRUE, of |-> IF manifest.made THEN manifest.of ELSE phone,
                  group |-> cmd.group, ents |-> entries]
  /\ halfway' = FALSE
  /\ pc' = "idle"
  /\ entries' = [p \in Parts |-> Absent]
  /\ UNCHANGED <<nv, img, from, todo, cmd, restored>> /\ Quiet

\* efs-manifest.json is written once, at the end.
BackupEnd == /\ pc = "backup" /\ todo = {}
             /\ manifest' = [made |-> TRUE, of |-> phone, group |-> cmd.group, ents |-> entries]
             /\ halfway' = FALSE
             /\ pc' = "idle"
             /\ entries' = [p \in Parts |-> Absent]
             /\ UNCHANGED <<nv, img, from, todo, cmd, restored>> /\ Quiet

-----------------------------------------------------------------------------
(* Restore.                                                                *)

Available == {p \in Parts : manifest.ents[p].status = "ok"}

\* Everything available, or what is available of the operator's --partitions;
\* the group argument plays no part.
Chosen(wanted) == wanted \cap Available

Wishes == {Groups[manifest.group]} \cup {{p} : p \in Parts}

\* Mutant: the files are not looked at.
RestoreStartBlind(wanted, rollback, known) ==
  /\ NewCmd
  /\ manifest.made
  /\ cmd' = [cmd EXCEPT !.chosen = wanted, !.rollback = rollback,
                         !.known = known, !.agreed = FALSE]
  /\ pc' = IF known /\ Model[manifest.of] # Model[phone] THEN "mismatch" ELSE "consent"
  /\ todo' = {}
  /\ NothingRestored
  /\ UNCHANGED <<files, entries>>

\* The image files cannot change before the prompts are answered, so the order
\* of the identity guard and the checks of the files does not show.
\* A getprop that answers nothing skips the identity guard.  The guard compares
\* the phone with the one that the manifest names, not with those the images are of.
RestoreStart(wanted, rollback, known) ==
  /\ NewCmd
  /\ manifest.made
  /\ Chosen(wanted) # {}
  /\ \A p \in Chosen(wanted) : img[p] # NoFile
  /\ cmd' = [cmd EXCEPT !.chosen = Chosen(wanted), !.rollback = rollback,
                         !.known = known, !.agreed = FALSE]
  /\ pc' = IF known /\ Model[manifest.of] # Model[phone] THEN "mismatch" ELSE "consent"
  /\ todo' = {}
  /\ NothingRestored
  /\ UNCHANGED <<files, entries>>

\* The operator types MISMATCH.
AgreeMismatch == /\ pc = "mismatch"
                 /\ pc' = "consent"
                 /\ cmd' = [cmd EXCEPT !.agreed = TRUE]
                 /\ UNCHANGED <<nv, files, entries, todo, restored>> /\ Quiet

\* The operator types RESTORE.
Consent == /\ pc = "consent"
           /\ pc' = IF cmd.rollback THEN "rollback" ELSE "write"
           /\ todo' = cmd.chosen
           /\ before' = nv[phone]
           /\ moved' = {}
           /\ UNCHANGED <<phone, nv, files, entries, cmd, rb, rbSaid, late, cmds, moves>>

Decline == /\ pc \in {"mismatch", "consent"}
           /\ pc' = "idle"
           /\ UNCHANGED <<nv, files, entries, todo, cmd, restored>> /\ Quiet

\* Mutant: only an exception counts as a warning.
RollbackOneQuiet ==
  /\ pc = "rollback"
  /\ \E p \in todo :
       \E o \in DumpOutcomes(FALSE, FALSE, p \in moved \cup Unsized) :
         /\ rb' = [rb EXCEPT ![p] = FileAfter(o, NoFile, nv[phone][p])]
         /\ rbSaid' = [rbSaid EXCEPT ![p] = IF o.status = "failed" THEN "warned" ELSE "ok"]
         /\ todo' = todo \ {p}
  /\ UNCHANGED <<pc, nv, files, entries, cmd, before>> /\ Quiet

\* dump_partition(verify=False) into a fresh directory; failures only warn.
RollbackOne ==
  /\ pc = "rollback"
  /\ \E p \in todo :
       \E o \in DumpOutcomes(FALSE, FALSE, p \in moved \cup Unsized) :
         /\ rb' = [rb EXCEPT ![p] = FileAfter(o, NoFile, nv[phone][p])]
         /\ rbSaid' = [rbSaid EXCEPT ![p] = IF o.warned THEN "warned" ELSE "ok"]
         /\ todo' = todo \ {p}
  /\ UNCHANGED <<pc, nv, files, entries, cmd, before>> /\ Quiet

RollbackEnd == /\ pc = "rollback" /\ todo = {}
               /\ pc' = "write" /\ todo' = cmd.chosen
               /\ UNCHANGED <<nv, files, entries, cmd, restored>> /\ Quiet

PartAfter(o, p) ==
  CASE o.leaves = "old" -> nv[phone][p] [] o.leaves = "image" -> img[p] [] o.leaves = "torn" -> Torn

\* The dd of p goes on on the phone although the command no longer waits for it.
Outlives(p) ==
  /\ Cardinality(late) < MaxLate
  /\ late' = late \cup {[by |-> cmds, phone |-> phone, part |-> p, src |-> img[p]]}

\* write_partition, which asks for the partition's name once more; every
\* MrtError, a declined prompt or a timeout of dd included, is put into the report
\* and the loop goes on.  (The report is printed and never read again.)
WriteOne ==
  /\ pc = "write"
  /\ \E p \in todo, o \in WriteOutcomes :
       /\ nv' = [nv EXCEPT ![phone][p] = PartAfter(o, p)]
       /\ todo' = todo \ {p}
       /\ UNCHANGED late \/ (o.report = "FAILED" /\ Outlives(p))
  /\ UNCHANGED <<pc, phone, files, entries, cmd, rb, rbSaid, before, moved, cmds, moves>>

RestoreEnd == /\ pc = "write" /\ todo = {}
              /\ pc' = "idle"
              /\ UNCHANGED <<nv, files, entries, todo, cmd, restored>> /\ Quiet

-----------------------------------------------------------------------------
(* The world.                                                              *)

\* The command dies; what it was writing may be torn.
Crash ==
  /\ pc # "idle"
  /\ pc' = "idle"
  /\ \/ UNCHANGED <<img, from, rb, nv, late>>
     \/ \E p \in todo :
          \/ /\ pc = "backup"
             /\ img' = [img EXCEPT ![p] = Torn] /\ from' = [from EXCEPT ![p] = phone]
             /\ UNCHANGED <<rb, nv, late>>
          \/ pc = "rollback" /\ rb' = [rb EXCEPT ![p] = Torn] /\ UNCHANGED <<img, from, nv, late>>
          \/ /\ pc = "write"
             /\ UNCHANGED nv \/ nv' = [nv EXCEPT ![phone][p] = Torn]
             /\ UNCHANGED late \/ Outlives(p)
             /\ UNCHANGED <<img, from, rb>>
  /\ entries' = [p \in Parts |-> Absent] /\ todo' = {}
  /\ UNCHANGED <<phone, manifest, halfway, cmd, rbSaid, before, moved, cmds, moves>>

\* A dd that was given up on writes a part of its image, or the rest; what an earlier
\* command left behind counts as written by others.
LateWrite(w) ==
  /\ \/ nv' = [nv EXCEPT ![w.phone][w.part] = Torn] /\ UNCHANGED late
     \/ nv' = [nv EXCEPT ![w.phone][w.part] = w.src] /\ late' = late \ {w}
  /\ moved' = IF w.phone = phone /\ w.by # cmds THEN moved \cup {w.part} ELSE moved
  /\ UNCHANGED <<pc, phone, files, entries, todo, cmd, restored, cmds, moves>>

\* A running modem writes its NV.
ModemWrite(ph) ==
  /\ moves < MaxMoves /\ moves' = moves + 1
  /\ \E p \in Parts, g \in Gens :
       /\ nv' = [nv EXCEPT ![ph][p] = g]
       /\ moved' = IF ph = phone THEN moved \cup {p} ELSE moved
  /\ UNCHANGED <<pc, phone, files, entries, todo, cmd, restored, late, cmds>>

\* Another phone is plugged in before the next command.
Plug(ph) == /\ pc = "idle" /\ cmds < MaxCmds /\ ph # phone
            /\ phone' = ph
            /\ moved' = Parts
            /\ UNCHANGED <<pc, nv, files, entries, todo, cmd, restored, late, cmds, moves>>

-----------------------------------------------------------------------------
Command == \/ \E g \in DOMAIN Groups : BackupStart(g)
           \/ BackupOne \/ BackupEnd
           \/ \E w \in Wishes, r, k \in BOOLEAN : RestoreStart(w, r, k)
           \/ AgreeMismatch \/ Consent \/ Decline
           \/ RollbackOne \/ RollbackEnd \/ WriteOne \/ RestoreEnd

World == Crash \/ (\E w \in late : LateWrite(w)) \/ \E ph \in Phones : ModemWrite(ph) \/ Plug(ph)

Next == Command \/ World

Spec == Init /\ [][Next]_vars

-----------------------------------------------------------------------------
(* Properties.                                                             *)

\* A partition of known size of which a restore has changed the contents, and
\* whose rollback dump gave no warning, can be put back from the rollback
\* directory, also if the command died half way or a dd it gave up on writes
\* later (efs.py:223-240).
RollbackCoversOverwrites ==
  \A p \in Parts \ (moved \cup Unsized) :
    (rbSaid[p] = "ok" /\ nv[phone][p] # before[p]) => rb[p] = before[p]

\* A manifest whose backup ran to its end tells the truth about every verified
\* image in the directory, whatever was backed up there before (efs.py:139-152).
VerifiedEntryIsImage ==
  (manifest.made /\ ~halfway) =>
    \A p \in Parts : manifest.ents[p].verified = "yes" => img[p] = manifest.ents[p].sha

\* An image that was dumped from a phone of another model is only written after
\* the token MISMATCH, whatever was plugged, backed up and restored before, if
\* the phone told its model, the last backup into the directory reached its end
\* and verified the image.  The guard only looks at the manifest, so a backup of
\* another phone that died before it wrote its own manifest, and an image that
\* an unverified dump left as it was, go unasked (efs.py:139-152, 183-190).
ForeignImageNeedsToken ==
  (pc \in {"rollback", "write"} /\ cmd.known /\ ~halfway) =>
    \A p \in cmd.chosen :
      manifest.ents[p].verified = "yes" =>
        cmd.agreed \/ (from[p] \in Phones /\ Model[from[p]] = Model[phone])
=============================================================================
