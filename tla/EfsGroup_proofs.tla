--------------------------- MODULE EfsGroup_proofs ---------------------------
(***************************************************************************)
(* Proofs about EfsGroup, for every set of phones, models and groups, and  *)
(* any number of commands, of writes by modems and of writes that outlive  *)
(* their commands.  Three things have to be carried from phase to phase:   *)
(* what a command under way has promised of the files it wrote (the        *)
(* entries of a backup, the dumps of a rollback), that the command touches *)
(* no phone between the operator's consent and the write, and that a write *)
(* it gave up on comes behind its rollback dumps.                          *)
(***************************************************************************)
EXTENDS EfsGroup, TLAPS

Asking == {"mismatch", "consent"}
Restoring == {"rollback", "write"}

\* A restore has every image it is going to write.
ImagesInv ==
  /\ pc \in Asking \cup {"rollback"} => \A p \in cmd.chosen : img[p] # NoFile
  /\ pc = "write" => \A p \in todo : img[p] # NoFile

\* The model was compared, or the token typed, before anything is asked or done.
GuardInv ==
  pc \in {"consent"} \cup Restoring =>
    (cmd.known /\ Model[manifest.of] # Model[phone] => cmd.agreed)

\* Until the write begins the phone is as the operator agreed to find it, and
\* an unwarned rollback dump is that state; a dump that was interrupted may be
\* anything, but then the phone is untouched.
RollbackInv ==
  /\ pc \in Asking => \A p \in Parts : rbSaid[p] = "nothing"
  /\ pc = "rollback" => \A p \in Parts \ moved : nv[phone][p] = before[p]
  /\ pc \in Restoring =>
       \A p \in Parts \ (moved \cup Unsized) : rbSaid[p] = "ok" => rb[p] = before[p]
  /\ RollbackCoversOverwrites

\* A verified entry is of the image that lies in the directory, and that image is
\* of the phone the manifest names: one of the running backup always, one of the
\* manifest unless a backup died behind it.
EntryInv ==
  /\ pc = "backup" =>
       /\ halfway
       /\ \A p \in Parts :
            entries[p].verified = "yes" => img[p] = entries[p].sha /\ from[p] = phone
  /\ \A p \in Parts :
       manifest.ents[p].verified = "yes" =>
         manifest.of \in Phones /\ (~halfway => from[p] = manifest.of)
  /\ VerifiedEntryIsImage

\* A write that outlives its command while it is the last one comes behind its rollback.
LateInv ==
  \A w \in late :
    /\ w.by <= cmds
    /\ w.by = cmds =>
         /\ pc \in {"write", "idle"}
         /\ \A p \in Parts \ (moved \cup Unsized) : rbSaid[p] = "ok" => rb[p] = before[p]

IInv == TypeOK /\ ImagesInv /\ GuardInv /\ RollbackInv /\ EntryInv /\ LateInv
-----------------------------------------------------------------------------
(* Facts about the constants and about the results of dumps and writes. *)

LEMMA Constants ==
  /\ Torn \in Content /\ NoFile \notin Content /\ Gens \subseteq Content
  /\ Absent \in Entry /\ Absent.verified = "none"
<1>1. Torn \in Content /\ NoFile \notin Content /\ Gens \subseteq Content
  BY ContentAssumption DEF Content
<1>2. QED BY <1>1 DEF Absent, Entry

LEMMA FileFacts ==
  ASSUME NEW o, o.file \in {"copy", "torn", "old"},
         NEW old \in Content \cup {NoFile}, NEW contents \in Content
  PROVE  /\ FileAfter(o, old, contents) \in Content \cup {NoFile}
         /\ o.file = "copy" => FileAfter(o, old, contents) = contents
BY Constants DEF FileAfter

LEMMA PartFacts ==
  ASSUME TypeOK, NEW o \in WriteOutcomes, NEW p \in Parts, img[p] # NoFile
  PROVE  PartAfter(o, p) \in Content
<1>1. nv[phone][p] \in Content /\ img[p] \in Content
  BY DEF TypeOK
<1>2. o.leaves \in {"old", "image", "torn"}
  BY DEF WriteOutcomes
<1>3. QED BY <1>1, <1>2, Constants DEF PartAfter

LEMMA InitInv == Init => IInv
<1> SUFFICES ASSUME Init PROVE IInv
  OBVIOUS
<1>1. nv \in [Phones -> [Parts -> Content]] /\ nv[phone] \in [Parts -> Content]
  BY Constants DEF Init
<1>2. cmd.group \in DOMAIN Groups /\ phone \in Phones
  BY DEF Init
<1>3. /\ img \in [Parts -> Content \cup {NoFile}] /\ from \in [Parts -> Phones \cup {NoFile}]
      /\ manifest \in [made : BOOLEAN, of : Phones \cup {NoFile}, group : DOMAIN Groups,
                       ents : [Parts -> Entry]]
      /\ \A p \in Parts : manifest.ents[p].verified = "yes" =>
           manifest.of \in Phones /\ from[p] = manifest.of /\ img[p] = manifest.ents[p].sha
  <2>1. CASE NewDirectory
    BY <1>2, <2>1, Constants DEF NewDirectory, NoManifest
  <2>2. CASE \E ph \in Phones, g \in DOMAIN Groups : HoldsBackup(ph, g)
    <3>1. PICK ph \in Phones, g \in DOMAIN Groups : HoldsBackup(ph, g)
      BY <2>2
    <3>2. /\ img = [p \in Parts |-> IF p \in Groups[g] THEN nv[ph][p] ELSE NoFile]
          /\ from = [p \in Parts |-> IF p \in Groups[g] THEN ph ELSE NoFile]
          /\ manifest = [made |-> TRUE, of |-> ph, group |-> g,
                          ents |-> [p \in Parts |->
                            IF p \in Groups[g]
                              THEN [status |-> "ok", verified |-> "yes", sha |-> img[p]]
                              ELSE Absent]]
      BY <3>1 DEF HoldsBackup
    <3>3. img \in [Parts -> Content \cup {NoFile}]
      BY <1>1, <3>2
    <3>4. \A p \in Parts : [status |-> "ok", verified |-> "yes", sha |-> img[p]] \in Entry
      BY <3>3 DEF Entry
    <3>5. manifest \in [made : BOOLEAN, of : Phones \cup {NoFile}, group : DOMAIN Groups,
                        ents : [Parts -> Entry]]
      BY <3>2, <3>4, Constants
    <3>6. QED BY <3>2, <3>3, <3>5, Constants
  <2>3. QED BY <2>1, <2>2 DEF Init
<1>4. cmd \in [group : DOMAIN Groups, chosen : SUBSET Parts, rollback : BOOLEAN,
               known : BOOLEAN, agreed : BOOLEAN]
  BY DEF Init
<1>5. TypeOK
  BY <1>1, <1>3, <1>4, Constants DEF Init, TypeOK, Pcs
<1>6. ImagesInv /\ GuardInv /\ RollbackInv /\ EntryInv
  BY <1>3 DEF Init, ImagesInv, GuardInv, RollbackInv, EntryInv, RollbackCoversOverwrites,
              VerifiedEntryIsImage, Asking, Restoring
<1>7. LateInv
  BY DEF Init, LateInv
<1>8. QED BY <1>5, <1>6, <1>7 DEF IInv
-----------------------------------------------------------------------------
(* Starting a command. *)

LEMMA NothingRestoredFacts ==
  ASSUME IInv, NothingRestored
  PROVE  /\ rb' \in [Parts -> Content \cup {NoFile}]
         /\ rbSaid' = [p \in Parts |-> "nothing"]
         /\ before' \in [Parts -> Content]
         /\ rbSaid' \in [Parts -> {"nothing", "ok", "warned"}]
<1>1. nv[phone] \in [Parts -> Content]
  BY DEF IInv, TypeOK
<1>2. QED BY <1>1 DEF NothingRestored

LEMMA BackupStartStep == ASSUME IInv, NEW g \in DOMAIN Groups, BackupStart(g) PROVE IInv'
<1>1. /\ pc = "idle" /\ pc' = "backup" /\ cmds' = cmds + 1 /\ moved' = {}
      /\ cmd' = [cmd EXCEPT !.group = g] /\ todo' = Groups[g]
      /\ entries' = [p \in Parts |-> Absent] /\ halfway' = TRUE
      /\ UNCHANGED <<phone, nv, late, moves, img, from, manifest>>
  BY DEF BackupStart, NewCmd
<1>2. NothingRestored
  BY DEF BackupStart
<1>3. TypeOK'
  <2>1. Groups[g] \subseteq Parts BY GroupsAssumption
  <2>2. entries' \in [Parts -> Entry] BY <1>1, Constants
  <2>3. cmd' \in [group : DOMAIN Groups, chosen : SUBSET Parts, rollback : BOOLEAN,
                  known : BOOLEAN, agreed : BOOLEAN]
    BY <1>1 DEF IInv, TypeOK
  <2>4. /\ rb' \in [Parts -> Content \cup {NoFile}] /\ before' \in [Parts -> Content]
        /\ rbSaid' \in [Parts -> {"nothing", "ok", "warned"}]
    BY <1>2, NothingRestoredFacts
  <2>5. /\ pc' \in Pcs /\ phone' \in Phones /\ nv' \in [Phones -> [Parts -> Content]]
        /\ img' \in [Parts -> Content \cup {NoFile}]
        /\ from' \in [Parts -> Phones \cup {NoFile}]
        /\ manifest' \in [made : BOOLEAN, of : Phones \cup {NoFile}, group : DOMAIN Groups,
                          ents : [Parts -> Entry]]
        /\ todo' \subseteq Parts /\ moved' \subseteq Parts /\ halfway' \in BOOLEAN
        /\ cmds' \in Nat /\ moves' \in Nat /\ late' = late
    BY <1>1, <2>1 DEF IInv, TypeOK, Pcs
  <2>6. late \subseteq [by : Nat, phone : Phones, part : Parts, src : Content]
    BY DEF IInv, TypeOK
  <2>7. QED BY <2>2, <2>3, <2>4, <2>5, <2>6 DEF TypeOK
<1>4. ImagesInv' /\ GuardInv'
  BY <1>1 DEF ImagesInv, GuardInv, Asking, Restoring
<1>5. RollbackInv'
  BY <1>1, <1>2, NothingRestoredFacts DEF RollbackInv, RollbackCoversOverwrites, Asking, Restoring
<1>6. EntryInv'
  BY <1>1, Constants DEF IInv, EntryInv, VerifiedEntryIsImage
<1>7. LateInv'
  BY <1>1 DEF IInv, TypeOK, LateInv
<1>8. QED BY <1>3, <1>4, <1>5, <1>6, <1>7 DEF IInv

LEMMA RestoreStartStep ==
  ASSUME IInv, NEW wanted \in SUBSET Parts, NEW rollback \in BOOLEAN, NEW known \in BOOLEAN,
         RestoreStart(wanted, rollback, known)
  PROVE  IInv'
<1>1. /\ pc = "idle" /\ cmds' = cmds + 1 /\ moved' = {} /\ todo' = {}
      /\ cmd' = [cmd EXCEPT !.chosen = Chosen(wanted), !.rollback = rollback,
                            !.known = known, !.agreed = FALSE]
      /\ pc' = IF known /\ Model[manifest.of] # Model[phone] THEN "mismatch" ELSE "consent"
      /\ \A p \in Chosen(wanted) : img[p] # NoFile
      /\ UNCHANGED <<phone, nv, late, moves, img, from, manifest, halfway, entries>>
  BY DEF RestoreStart, NewCmd, files
<1>2. NothingRestored
  BY DEF RestoreStart
<1>3. /\ cmd' \in [group : DOMAIN Groups, chosen : SUBSET Parts, rollback : BOOLEAN,
                   known : BOOLEAN, agreed : BOOLEAN]
      /\ cmd'.chosen = Chosen(wanted) /\ cmd'.known = known
  <2>1. Chosen(wanted) \subseteq Parts BY DEF Chosen
  <2>2. QED BY <1>1, <2>1 DEF IInv, TypeOK
<1>4. TypeOK'
  BY <1>1, <1>2, <1>3, NothingRestoredFacts DEF IInv, TypeOK, Pcs
<1>5. ImagesInv'
  BY <1>1, <1>3 DEF ImagesInv, Asking
<1>6. GuardInv'
  BY <1>1, <1>3 DEF GuardInv, Restoring
<1>7. RollbackInv'
  BY <1>1, <1>2, NothingRestoredFacts DEF RollbackInv, RollbackCoversOverwrites, Asking, Restoring
<1>8. EntryInv'
  BY <1>1 DEF IInv, EntryInv, VerifiedEntryIsImage
<1>9. LateInv'
  BY <1>1 DEF IInv, TypeOK, LateInv
<1>10. QED BY <1>4, <1>5, <1>6, <1>7, <1>8, <1>9 DEF IInv

LEMMA WishFacts == ASSUME IInv, NEW w \in Wishes PROVE w \in SUBSET Parts
<1>1. Groups[manifest.group] \subseteq Parts
  BY GroupsAssumption DEF IInv, TypeOK
<1>2. QED BY <1>1 DEF Wishes
-----------------------------------------------------------------------------
(* The loop of a backup and its end. *)

LEMMA BackupOneStep == ASSUME IInv, BackupOne PROVE IInv'
<1>0. PICK p \in todo : \E o \in DumpOutcomes(TRUE, img[p] # NoFile, p \in moved \cup Unsized) :
        LET file == FileAfter(o, img[p], nv[phone][p]) IN
          /\ img' = [img EXCEPT ![p] = file]
          /\ from' = IF o.file = "old" THEN from ELSE [from EXCEPT ![p] = phone]
          /\ entries' = [entries EXCEPT ![p] =
               [status |-> o.status,
                verified |-> IF o.status = "ok" THEN o.verified ELSE "none",
                sha |-> IF o.status = "ok" THEN file ELSE NoFile]]
          /\ todo' = todo \ {p}
  BY DEF BackupOne
<1>1. PICK o \in DumpOutcomes(TRUE, img[p] # NoFile, p \in moved \cup Unsized) :
        LET file == FileAfter(o, img[p], nv[phone][p]) IN
          /\ img' = [img EXCEPT ![p] = file]
          /\ from' = IF o.file = "old" THEN from ELSE [from EXCEPT ![p] = phone]
          /\ entries' = [entries EXCEPT ![p] =
               [status |-> o.status,
                verified |-> IF o.status = "ok" THEN o.verified ELSE "none",
                sha |-> IF o.status = "ok" THEN file ELSE NoFile]]
          /\ todo' = todo \ {p}
  BY <1>0
<1> DEFINE file == FileAfter(o, img[p], nv[phone][p])
<1>2. /\ pc = "backup" /\ pc' = pc
      /\ UNCHANGED <<nv, manifest, halfway, cmd, rb, rbSaid, before, phone, moved, late,
                     cmds, moves>>
  BY DEF BackupOne, Quiet, restored
<1>3. p \in Parts /\ img[p] \in Content \cup {NoFile} /\ nv[phone][p] \in Content
  BY DEF IInv, TypeOK
<1>4. /\ o.status \in {"ok", "failed"} /\ o.verified \in {"yes", "no", "none"}
      /\ o.file \in {"copy", "torn", "old"}
      /\ o.verified = "yes" => o.file = "copy"
  BY DEF DumpOutcomes
<1>5. file \in Content \cup {NoFile}
  BY <1>3, <1>4, FileFacts
<1>6. /\ entries' \in [Parts -> Entry] /\ img' \in [Parts -> Content \cup {NoFile}]
      /\ from' \in [Parts -> Phones \cup {NoFile}]
  BY <1>1, <1>3, <1>4, <1>5 DEF IInv, TypeOK, Entry
<1>7. TypeOK'
  BY <1>1, <1>2, <1>6 DEF IInv, TypeOK
<1>8. ImagesInv' /\ GuardInv' /\ RollbackInv'
  BY <1>2 DEF IInv, ImagesInv, GuardInv, RollbackInv, RollbackCoversOverwrites, Asking, Restoring
<1>9. EntryInv'
  <2>1. halfway' BY <1>2 DEF IInv, EntryInv
  <2>2. ASSUME NEW q \in Parts, entries'[q].verified = "yes" PROVE img'[q] = entries'[q].sha /\ from'[q] = phone'
    <3>1. CASE q = p
      <4>1. entries'[p] = [status |-> o.status,
                           verified |-> IF o.status = "ok" THEN o.verified ELSE "none",
                           sha |-> IF o.status = "ok" THEN file ELSE NoFile]
        BY <1>1, <1>3 DEF IInv, TypeOK
      <4>2. img'[p] = file
        BY <1>1, <1>3 DEF IInv, TypeOK
      <4>3. o.file = "copy" /\ from'[p] = phone
        BY <1>1, <1>3, <1>4, <2>2, <3>1, <4>1 DEF IInv, TypeOK
      <4>4. QED BY <1>2, <2>2, <3>1, <4>1, <4>2, <4>3
    <3>2. CASE q # p
      <4>1. entries'[q] = entries[q] /\ img'[q] = img[q] /\ from'[q] = from[q]
        BY <1>1, <3>2 DEF IInv, TypeOK
      <4>2. QED BY <1>2, <2>2, <4>1 DEF IInv, EntryInv
    <3>3. QED BY <3>1, <3>2
  <2>3. QED BY <1>2, <2>1, <2>2 DEF IInv, EntryInv, VerifiedEntryIsImage
<1>10. LateInv'
  BY <1>2 DEF IInv, LateInv
<1>11. QED BY <1>7, <1>8, <1>9, <1>10 DEF IInv

LEMMA BackupEndStep == ASSUME IInv, BackupEnd PROVE IInv'
<1>1. /\ pc = "backup" /\ pc' = "idle" /\ halfway' = FALSE
      /\ manifest' = [made |-> TRUE, of |-> phone, group |-> cmd.group, ents |-> entries]
      /\ entries' = [p \in Parts |-> Absent]
      /\ UNCHANGED <<nv, img, from, todo, cmd, rb, rbSaid, before, phone, moved, late,
                     cmds, moves>>
  BY DEF BackupEnd, Quiet, restored
<1>2. manifest' \in [made : BOOLEAN, of : Phones \cup {NoFile}, group : DOMAIN Groups, ents : [Parts -> Entry]]
      /\ manifest'.ents = entries /\ manifest'.of = phone /\ phone \in Phones
  BY <1>1 DEF IInv, TypeOK
<1>3. TypeOK'
  BY <1>1, <1>2, Constants DEF IInv, TypeOK, Pcs
<1>4. ImagesInv' /\ GuardInv' /\ RollbackInv'
  BY <1>1 DEF IInv, ImagesInv, GuardInv, RollbackInv, RollbackCoversOverwrites, Asking, Restoring
<1>5. EntryInv'
  BY <1>1, <1>2 DEF IInv, EntryInv, VerifiedEntryIsImage
<1>6. LateInv'
  BY <1>1 DEF IInv, LateInv
<1>7. QED BY <1>3, <1>4, <1>5, <1>6 DEF IInv
-----------------------------------------------------------------------------
(* The prompts of a restore, and the ends of its loops. *)

LEMMA AgreeMismatchStep == ASSUME IInv, AgreeMismatch PROVE IInv'
<1>1. /\ pc = "mismatch" /\ pc' = "consent" /\ cmd' = [cmd EXCEPT !.agreed = TRUE]
      /\ UNCHANGED <<nv, img, from, manifest, halfway, entries, todo, rb, rbSaid, before,
                     phone, moved, late, cmds, moves>>
  BY DEF AgreeMismatch, Quiet, files, restored
<1>2. /\ cmd' \in [group : DOMAIN Groups, chosen : SUBSET Parts, rollback : BOOLEAN,
                   known : BOOLEAN, agreed : BOOLEAN]
      /\ cmd'.chosen = cmd.chosen /\ cmd'.agreed
  BY <1>1 DEF IInv, TypeOK
<1>3. TypeOK'
  BY <1>1, <1>2 DEF IInv, TypeOK, Pcs
<1>4. ImagesInv' /\ GuardInv' /\ RollbackInv' /\ EntryInv'
  BY <1>1, <1>2 DEF IInv, ImagesInv, GuardInv, RollbackInv, RollbackCoversOverwrites, EntryInv,
                    VerifiedEntryIsImage, Asking, Restoring
<1>5. LateInv'
  BY <1>1 DEF IInv, LateInv
<1>6. QED BY <1>3, <1>4, <1>5 DEF IInv

LEMMA ConsentStep == ASSUME IInv, Consent PROVE IInv'
<1>1. /\ pc = "consent" /\ pc' = IF cmd.rollback THEN "rollback" ELSE "write"
      /\ todo' = cmd.chosen /\ before' = nv[phone] /\ moved' = {}
      /\ UNCHANGED <<phone, nv, img, from, manifest, halfway, entries, cmd, rb, rbSaid,
                     late, cmds, moves>>
  BY DEF Consent, files
<1>2. TypeOK'
  BY <1>1 DEF IInv, TypeOK, Pcs
<1>3. ImagesInv' /\ GuardInv' /\ EntryInv'
  BY <1>1 DEF IInv, ImagesInv, GuardInv, EntryInv, VerifiedEntryIsImage, Asking, Restoring
<1>4. RollbackInv'
  BY <1>1 DEF IInv, RollbackInv, RollbackCoversOverwrites, Asking, Restoring
<1>5. LateInv'
  BY <1>1 DEF IInv, LateInv
<1>6. QED BY <1>2, <1>3, <1>4, <1>5 DEF IInv

LEMMA EndStep == ASSUME IInv, Decline \/ RollbackEnd \/ RestoreEnd PROVE IInv'
<1>1. UNCHANGED <<nv, img, from, manifest, halfway, entries, cmd, rb, rbSaid, before,
                  phone, moved, late, cmds, moves>>
  BY DEF Decline, RollbackEnd, RestoreEnd, Quiet, files, restored
<1>2. \/ pc # "backup" /\ pc' = "idle" /\ UNCHANGED todo
      \/ pc = "rollback" /\ pc' = "write" /\ todo' = cmd.chosen
  BY DEF Decline, RollbackEnd, RestoreEnd
<1>3. TypeOK'
  BY <1>1, <1>2 DEF IInv, TypeOK, Pcs
<1>4. ImagesInv' /\ GuardInv' /\ EntryInv'
  BY <1>1, <1>2 DEF IInv, ImagesInv, GuardInv, EntryInv, VerifiedEntryIsImage, Asking, Restoring
<1>5. RollbackInv'
  BY <1>1, <1>2 DEF IInv, RollbackInv, RollbackCoversOverwrites, Asking, Restoring
<1>6. LateInv'
  BY <1>1, <1>2 DEF IInv, LateInv
<1>7. QED BY <1>3, <1>4, <1>5, <1>6 DEF IInv
-----------------------------------------------------------------------------
(* The loops of a restore. *)

LEMMA RollbackOneStep == ASSUME IInv, RollbackOne PROVE IInv'
<1>1. PICK p \in todo : \E o \in DumpOutcomes(FALSE, FALSE, p \in moved \cup Unsized) :
        /\ rb' = [rb EXCEPT ![p] = FileAfter(o, NoFile, nv[phone][p])]
        /\ rbSaid' = [rbSaid EXCEPT ![p] = IF o.warned THEN "warned" ELSE "ok"]
        /\ todo' = todo \ {p}
  BY DEF RollbackOne
<1>2. PICK o \in DumpOutcomes(FALSE, FALSE, p \in moved \cup Unsized) :
        /\ rb' = [rb EXCEPT ![p] = FileAfter(o, NoFile, nv[phone][p])]
        /\ rbSaid' = [rbSaid EXCEPT ![p] = IF o.warned THEN "warned" ELSE "ok"]
        /\ todo' = todo \ {p}
  BY <1>1
<1>3. /\ pc = "rollback" /\ pc' = pc
      /\ UNCHANGED <<nv, img, from, manifest, halfway, entries, cmd, before, phone, moved,
                     late, cmds, moves>>
  BY DEF RollbackOne, Quiet, files
<1>4. p \in Parts /\ nv[phone][p] \in Content
  BY DEF IInv, TypeOK
<1>5. /\ o.file \in {"copy", "torn", "old"} /\ o.warned \in BOOLEAN
      /\ ~o.warned /\ p \notin moved \cup Unsized => o.file = "copy"
  BY DEF DumpOutcomes
<1>6. /\ FileAfter(o, NoFile, nv[phone][p]) \in Content \cup {NoFile}
      /\ o.file = "copy" => FileAfter(o, NoFile, nv[phone][p]) = nv[phone][p]
  BY <1>4, <1>5, FileFacts
<1>7. TypeOK'
  BY <1>2, <1>3, <1>4, <1>6 DEF IInv, TypeOK
<1>8. ImagesInv' /\ GuardInv' /\ EntryInv'
  BY <1>3 DEF IInv, ImagesInv, GuardInv, EntryInv, VerifiedEntryIsImage, Asking, Restoring
<1>9. RollbackInv'
  <2>1. ASSUME NEW q \in Parts \ (moved \cup Unsized), rbSaid'[q] = "ok"
        PROVE  rb'[q] = before[q]
    <3>1. CASE q = p
      <4>1. ~o.warned
        BY <1>2, <1>4, <1>5, <2>1, <3>1 DEF IInv, TypeOK
      <4>2. FileAfter(o, NoFile, nv[phone][p]) = nv[phone][p]
        BY <1>5, <1>6, <2>1, <3>1, <4>1
      <4>3. nv[phone][p] = before[p]
        BY <1>3, <2>1, <3>1 DEF IInv, RollbackInv
      <4>4. rb'[p] = FileAfter(o, NoFile, nv[phone][p])
        BY <1>2, <1>4 DEF IInv, TypeOK
      <4>5. QED BY <3>1, <4>2, <4>3, <4>4
    <3>2. CASE q # p
      <4>1. rb'[q] = rb[q] /\ rbSaid'[q] = rbSaid[q]
        BY <1>2, <3>2 DEF IInv, TypeOK
      <4>2. QED BY <1>3, <2>1, <4>1 DEF IInv, RollbackInv, Restoring
    <3>3. QED BY <3>1, <3>2
  <2>2. \A q \in Parts \ moved : nv[phone][q] = before[q]
    BY <1>3 DEF IInv, RollbackInv
  <2>3. QED BY <1>3, <2>1, <2>2 DEF RollbackInv, RollbackCoversOverwrites, Asking
<1>10. LateInv'
  BY <1>3 DEF IInv, LateInv
<1>11. QED BY <1>7, <1>8, <1>9, <1>10 DEF IInv

LEMMA OutlivesType ==
  ASSUME TypeOK, NEW p \in Parts, img[p] # NoFile, Outlives(p) \/ UNCHANGED late
  PROVE  late' \subseteq [by : Nat, phone : Phones, part : Parts, src : Content]
<1>1. img[p] \in Content /\ phone \in Phones /\ cmds \in Nat
  BY DEF TypeOK
<1>2. QED BY <1>1 DEF Outlives, TypeOK

LEMMA OutlivesInv ==
  ASSUME IInv, NEW p, Outlives(p) \/ UNCHANGED late, pc = "write", pc' \in {"write", "idle"},
         UNCHANGED <<cmds, moved, rbSaid, rb, before>>
  PROVE  LateInv'
<1>1. \A q \in Parts \ (moved \cup Unsized) : rbSaid[q] = "ok" => rb[q] = before[q]
  BY DEF IInv, RollbackInv, Restoring
<1>2. cmds \in Nat
  BY DEF IInv, TypeOK
<1>3. QED BY <1>1, <1>2 DEF IInv, LateInv, Outlives

LEMMA WriteOneStep == ASSUME IInv, WriteOne PROVE IInv'
<1>1. PICK p \in todo, o \in WriteOutcomes :
        /\ nv' = [nv EXCEPT ![phone][p] = PartAfter(o, p)]
        /\ todo' = todo \ {p}
        /\ UNCHANGED late \/ Outlives(p)
  BY DEF WriteOne
<1>2. /\ pc = "write" /\ pc' = pc
      /\ UNCHANGED <<img, from, manifest, halfway, entries, cmd, rb, rbSaid, before, phone,
                     moved,
                     cmds, moves>>
  BY DEF WriteOne, files
<1>3. p \in Parts /\ img[p] # NoFile
  BY <1>2 DEF IInv, TypeOK, ImagesInv
<1>4. PartAfter(o, p) \in Content
  BY <1>3, PartFacts DEF IInv
<1>5. late' \subseteq [by : Nat, phone : Phones, part : Parts, src : Content]
  BY <1>1, <1>3, OutlivesType DEF IInv
<1>6. TypeOK'
  BY <1>1, <1>2, <1>3, <1>4, <1>5 DEF IInv, TypeOK
<1>7. ImagesInv' /\ GuardInv' /\ EntryInv'
  BY <1>1, <1>2 DEF IInv, ImagesInv, GuardInv, EntryInv, VerifiedEntryIsImage, Asking, Restoring
<1>8. RollbackInv'
  BY <1>2 DEF IInv, RollbackInv, RollbackCoversOverwrites, Asking, Restoring
<1>9. LateInv'
  BY <1>1, <1>2, OutlivesInv
<1>10. QED BY <1>6, <1>7, <1>8, <1>9 DEF IInv
-----------------------------------------------------------------------------
(* The world. *)

LEMMA CrashStep == ASSUME IInv, Crash PROVE IInv'
<1>1. /\ pc # "idle" /\ pc' = "idle"
      /\ entries' = [p \in Parts |-> Absent] /\ todo' = {}
      /\ UNCHANGED <<manifest, halfway, cmd, rbSaid, before, phone, moved, cmds, moves>>
  BY DEF Crash
<1>2. \/ UNCHANGED <<img, from, rb, nv, late>>
      \/ \E p \in todo :
           \/ /\ pc = "backup"
              /\ img' = [img EXCEPT ![p] = Torn] /\ from' = [from EXCEPT ![p] = phone]
              /\ UNCHANGED <<rb, nv, late>>
           \/ pc = "rollback" /\ rb' = [rb EXCEPT ![p] = Torn] /\ UNCHANGED <<img, from,
                                                                              nv, late>>
           \/ /\ pc = "write"
              /\ UNCHANGED nv \/ nv' = [nv EXCEPT ![phone][p] = Torn]
              /\ UNCHANGED late \/ Outlives(p)
              /\ UNCHANGED <<img, from, rb>>
  BY DEF Crash
<1>3. /\ img' \in [Parts -> Content \cup {NoFile}] /\ rb' \in [Parts -> Content \cup {NoFile}]
      /\ nv' \in [Phones -> [Parts -> Content]] /\ from' \in [Parts -> Phones \cup {NoFile}]
  <2>1. /\ img \in [Parts -> Content \cup {NoFile}] /\ rb \in [Parts -> Content \cup {NoFile}]
        /\ nv \in [Phones -> [Parts -> Content]] /\ from \in [Parts -> Phones \cup {NoFile}]
        /\ phone \in Phones
    BY DEF IInv, TypeOK
  <2>2. \A p \in Parts : /\ [img EXCEPT ![p] = Torn] \in [Parts -> Content \cup {NoFile}]
                         /\ [rb EXCEPT ![p] = Torn] \in [Parts -> Content \cup {NoFile}]
                         /\ [from EXCEPT ![p] = phone] \in [Parts -> Phones \cup {NoFile}]
    BY <2>1, Constants
  <2>3. \A p \in Parts : [nv EXCEPT ![phone][p] = Torn] \in [Phones -> [Parts -> Content]]
    BY <2>1, Constants
  <2>4. todo \subseteq Parts
    BY DEF IInv, TypeOK
  <2>5. QED BY <1>2, <2>1, <2>2, <2>3, <2>4
<1>4. late' \subseteq [by : Nat, phone : Phones, part : Parts, src : Content]
  <2>1. CASE UNCHANGED late
    BY <2>1 DEF IInv, TypeOK
  <2>2. CASE pc = "write" /\ \E p \in todo : Outlives(p)
    <3>1. PICK p \in todo : Outlives(p)
      BY <2>2
    <3>2. p \in Parts /\ img[p] # NoFile
      BY <2>2 DEF IInv, TypeOK, ImagesInv
    <3>3. QED BY <3>1, <3>2, OutlivesType DEF IInv
  <2>3. QED BY <1>2, <2>1, <2>2
<1>5. TypeOK'
  BY <1>1, <1>3, <1>4, Constants DEF IInv, TypeOK, Pcs
<1>6. ImagesInv' /\ GuardInv'
  BY <1>1 DEF ImagesInv, GuardInv, Asking, Restoring
<1>7. EntryInv'
  <2>1. halfway \/ (img' = img /\ from' = from)
    BY <1>2 DEF IInv, EntryInv
  <2>2. QED BY <1>1, <2>1 DEF IInv, EntryInv, VerifiedEntryIsImage
<1>8. RollbackInv'
  <2>1. \/ rb' = rb /\ nv' = nv
        \/ pc = "rollback" /\ nv' = nv
        \/ pc = "write" /\ rb' = rb
    BY <1>2
  <2>2. RollbackCoversOverwrites'
    BY <1>1, <2>1 DEF IInv, RollbackInv, RollbackCoversOverwrites, Restoring
  <2>3. QED BY <1>1, <2>2 DEF RollbackInv, Asking, Restoring
<1>9. LateInv'
  <2>1. CASE pc = "write"
    <3>1. UNCHANGED rb /\ (UNCHANGED late \/ \E p \in todo : Outlives(p))
      BY <1>2, <2>1
    <3>2. QED BY <1>1, <2>1, <3>1, OutlivesInv
  <2>2. CASE pc # "write"
    <3>1. UNCHANGED late
      BY <1>2, <2>2
    <3>2. QED BY <1>1, <2>2, <3>1 DEF IInv, LateInv
  <2>3. QED BY <2>1, <2>2
<1>10. QED BY <1>5, <1>6, <1>7, <1>8, <1>9 DEF IInv

LEMMA ModemWriteStep == ASSUME IInv, NEW ph \in Phones, ModemWrite(ph) PROVE IInv'
<1>1. PICK p \in Parts, g \in Gens :
        /\ nv' = [nv EXCEPT ![ph][p] = g]
        /\ moved' = IF ph = phone THEN moved \cup {p} ELSE moved
  BY DEF ModemWrite
<1>2. /\ moves' = moves + 1
      /\ UNCHANGED <<pc, phone, img, from, manifest, halfway, entries, todo, cmd, rb,
                     rbSaid, before, late, cmds>>
  BY DEF ModemWrite, files, restored
<1>3. TypeOK'
  BY <1>1, <1>2, Constants DEF IInv, TypeOK
<1>4. ImagesInv' /\ GuardInv' /\ EntryInv'
  BY <1>2 DEF IInv, ImagesInv, GuardInv, EntryInv, VerifiedEntryIsImage, Asking, Restoring
<1>5. moved \subseteq moved' /\ \A q \in Parts \ moved' : nv'[phone][q] = nv[phone][q]
  BY <1>1 DEF IInv, TypeOK
<1>6. RollbackInv'
  BY <1>2, <1>5 DEF IInv, RollbackInv, RollbackCoversOverwrites, Asking, Restoring
<1>7. LateInv'
  BY <1>2, <1>5 DEF IInv, LateInv
<1>8. QED BY <1>3, <1>4, <1>6, <1>7 DEF IInv

LEMMA LateWriteStep == ASSUME IInv, NEW w \in late, LateWrite(w) PROVE IInv'
<1>1. /\ \/ nv' = [nv EXCEPT ![w.phone][w.part] = Torn] /\ UNCHANGED late
         \/ nv' = [nv EXCEPT ![w.phone][w.part] = w.src] /\ late' = late \ {w}
      /\ moved' = IF w.phone = phone /\ w.by # cmds THEN moved \cup {w.part} ELSE moved
      /\ UNCHANGED <<pc, phone, img, from, manifest, halfway, entries, todo, cmd, rb,
                     rbSaid, before, cmds, moves>>
  BY DEF LateWrite, files, restored
<1>2. w.phone \in Phones /\ w.part \in Parts /\ w.src \in Content
  BY DEF IInv, TypeOK
<1>3. TypeOK'
  <2>1. nv' \in [Phones -> [Parts -> Content]]
    <3>1. nv \in [Phones -> [Parts -> Content]]
      BY DEF IInv, TypeOK
    <3>2. \A c \in Content :
            [nv EXCEPT ![w.phone][w.part] = c] \in [Phones -> [Parts -> Content]]
      BY <1>2, <3>1
    <3>3. QED BY <1>1, <1>2, <3>2, Constants
  <2>2. late' \subseteq late /\ moved' \subseteq Parts
    BY <1>1, <1>2 DEF IInv, TypeOK
  <2>3. QED BY <1>1, <2>1, <2>2 DEF IInv, TypeOK
<1>4. ImagesInv' /\ GuardInv' /\ EntryInv'
  BY <1>1 DEF IInv, ImagesInv, GuardInv, EntryInv, VerifiedEntryIsImage, Asking, Restoring
<1>5. /\ moved \subseteq moved'
      /\ w.by # cmds => \A q \in Parts \ moved' : nv'[phone][q] = nv[phone][q]
  BY <1>1, <1>2 DEF IInv, TypeOK
<1>6. w.by = cmds => /\ pc \in {"write", "idle"}
                    /\ \A p \in Parts \ (moved \cup Unsized) : rbSaid[p] = "ok" => rb[p] = before[p]
  BY DEF IInv, LateInv
<1>7. RollbackInv'
  BY <1>1, <1>5, <1>6 DEF IInv, RollbackInv, RollbackCoversOverwrites, Asking, Restoring
<1>8. LateInv'
  BY <1>1, <1>5 DEF IInv, LateInv
<1>9. QED BY <1>3, <1>4, <1>7, <1>8 DEF IInv

LEMMA PlugStep == ASSUME IInv, NEW ph \in Phones, Plug(ph) PROVE IInv'
<1>1. /\ pc = "idle" /\ phone' = ph /\ moved' = Parts
      /\ UNCHANGED <<pc, nv, img, from, manifest, halfway, entries, todo, cmd, rb, rbSaid,
                     before, late, cmds, moves>>
  BY DEF Plug, files, restored
<1>2. TypeOK'
  BY <1>1 DEF IInv, TypeOK
<1>3. ImagesInv' /\ GuardInv' /\ RollbackInv' /\ EntryInv'
  BY <1>1 DEF IInv, ImagesInv, GuardInv, RollbackInv, RollbackCoversOverwrites, EntryInv,
              VerifiedEntryIsImage, Asking, Restoring
<1>4. LateInv'
  BY <1>1 DEF IInv, LateInv
<1>5. QED BY <1>2, <1>3, <1>4 DEF IInv

LEMMA StepInv == IInv /\ [Next]_vars => IInv'
<1> SUFFICES ASSUME IInv, [Next]_vars PROVE IInv'
  OBVIOUS
<1>1. CASE Command
  <2>1. ASSUME NEW g \in DOMAIN Groups, BackupStart(g) PROVE IInv'
    BY <2>1, BackupStartStep
  <2>2. ASSUME NEW w \in Wishes, NEW r \in BOOLEAN, NEW k \in BOOLEAN, RestoreStart(w, r, k)
        PROVE  IInv'
    BY <2>2, WishFacts, RestoreStartStep
  <2>3. CASE BackupOne \/ BackupEnd \/ AgreeMismatch \/ Consent \/ Decline \/ RollbackOne
             \/ RollbackEnd \/ WriteOne \/ RestoreEnd
    BY <2>3, BackupOneStep, BackupEndStep, AgreeMismatchStep, ConsentStep, EndStep,
       RollbackOneStep, WriteOneStep
  <2>4. QED BY <1>1, <2>1, <2>2, <2>3 DEF Command
<1>2. CASE World
  BY <1>2, CrashStep, LateWriteStep, ModemWriteStep, PlugStep DEF World
<1>3. CASE UNCHANGED vars
  <2>1. UNCHANGED <<pc, phone, nv, img, from, manifest, halfway, entries, todo, cmd, rb,
                    rbSaid, before, moved, late, cmds, moves>>
    BY <1>3 DEF vars, files, restored
  <2>2. TypeOK'
    BY <2>1 DEF IInv, TypeOK
  <2>3. ImagesInv' /\ GuardInv' /\ RollbackInv' /\ EntryInv' /\ LateInv'
    BY <2>1 DEF IInv, ImagesInv, GuardInv, RollbackInv, RollbackCoversOverwrites, EntryInv,
                VerifiedEntryIsImage, LateInv
  <2>4. QED BY <2>2, <2>3 DEF IInv
<1>4. QED BY <1>1, <1>2, <1>3 DEF Next
-----------------------------------------------------------------------------
(* Theorems. *)

LEMMA Inductive == Spec => []IInv
BY InitInv, StepInv, PTL DEF Spec

\* Every variable keeps its type: above all no partition is ever given the
\* contents of an image that does not exist (efs.py:197-206).
THEOREM TypeCorrect == Spec => []TypeOK
<1>1. IInv => TypeOK BY DEF IInv
<1>2. QED BY Inductive, <1>1, PTL

\* Whatever a restore overwrites, on any phone and after any history of the
\* directory, can be had back from the rollback it said nothing against
\* (efs.py:223-240).
THEOREM OverwritesAreCovered == Spec => []RollbackCoversOverwrites
<1>1. IInv => RollbackCoversOverwrites BY DEF IInv, RollbackInv
<1>2. QED BY Inductive, <1>1, PTL

\* The manifest of a backup that ran to its end is true of every verified image
\* in the directory (efs.py:139-152).
THEOREM ManifestIsTrue == Spec => []VerifiedEntryIsImage
<1>1. IInv => VerifiedEntryIsImage BY DEF IInv, EntryInv
<1>2. QED BY Inductive, <1>1, PTL

\* An image that was dumped from a phone of another model needs the token, if the
\* last backup reached its end and verified it and the phone told its model
\* (efs.py:139-152, 183-190).
THEOREM ForeignImageIsAsked == Spec => []ForeignImageNeedsToken
<1>1. IInv => ForeignImageNeedsToken
  <2>1. SUFFICES ASSUME IInv, pc \in Restoring, cmd.known, ~halfway, NEW p \in cmd.chosen,
                        manifest.ents[p].verified = "yes"
                 PROVE  cmd.agreed \/ (from[p] \in Phones /\ Model[from[p]] = Model[phone])
    BY DEF ForeignImageNeedsToken, Restoring
  <2>2. p \in Parts
    BY <2>1 DEF IInv, TypeOK
  <2>3. from[p] = manifest.of /\ manifest.of \in Phones
    BY <2>1, <2>2 DEF IInv, EntryInv
  <2>4. Model[manifest.of] # Model[phone] => cmd.agreed
    BY <2>1 DEF IInv, GuardInv
  <2>5. QED BY <2>3, <2>4
<1>2. QED BY Inductive, <1>1, PTL
=============================================================================
