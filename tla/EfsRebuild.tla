------------------------------ MODULE EfsRebuild ------------------------------
(***************************************************************************)
(* `mrt efs rebuild-modemst` and `mrt efs mtk-rebuild-nvdata`:             *)
(* rebuild_modemst and mtk_rebuild_nvdata in modules/efs.py.  Both dump    *)
(* the NV partitions, check that the dump of the one the firmware rebuilds *)
(* from is good, ask, and erase the others; the firmware, which is         *)
(* external, makes new ones at the next boot.  Qualcomm's modem rebuilds   *)
(* modemst1 and modemst2 from fsg; MediaTek's nvram_daemon fills nvdata, a *)
(* file system that has to be unmounted first, from nvram.  While Android  *)
(* runs, whoever holds NV may write it back at any time, the phone may be  *)
(* rebooted under the tool, the tool may die between any two steps, and    *)
(* the command may be repeated over the same directory.                    *)
(***************************************************************************)
EXTENDS Naturals, Sequences, Outcomes

CONSTANT MaxCmds     \* bound: commands started

ASSUME BoundAssumption == MaxCmds \in Nat

VARIABLES
  family,    \* of the phone: "qualcomm" or "mediatek"
  formats,   \* init formats an nvdata it cannot mount (`formattable`)
  pc,        \* phase of the running command
  mode,      \* what the phone runs: "android" or "recovery"
  mounted,   \* /proc/mounts lists nvdata
  nv,        \* contents of the partitions
  cache,     \* NV that the running modem, or nvdata's users, hold
  file,      \* image files of the backup directory
  entries,   \* what the command's backup said of each dump
  todo,      \* partitions the running loop still has to handle
  before,    \* history: the partitions when the command started
  erased,    \* history: what each erasure of this command left behind
  moved,     \* history: partitions written by the firmware during the command
  free,      \* history: nobody has held NV since the erasures began
  done,      \* history: the last command returned without an error
  cmds

vars == <<family, formats, pc, mode, mounted, nv, cache, file, entries, todo, before,
          erased, moved, free, done, cmds>>
handset == <<family, formats>>

Targets == IF family = "qualcomm" THEN {"modemst1", "modemst2"} ELSE {"nvdata"}
Source == IF family = "qualcomm" THEN "fsg" ELSE "nvram"
Parts == Targets \cup {Source}
Wanted == IF family = "qualcomm" THEN <<"modemst1", "modemst2">> ELSE <<"nvdata">>

\* "nv": calibrated NV of this phone; "golden": the copy it is rebuilt from;
\* "bad": nothing valid; "zero": erased; "empty": a new ext4 without files.
Valid == {"nv", "golden"}
Contents == Valid \cup {"bad", "zero", "empty"}
\* An entry of the manifest: how the dump failed, or result["verified"].
Entry == {"none", "failed", "yes", "no", "unknown"}

TypeOK ==
  /\ family \in {"qualcomm", "mediatek"} /\ formats \in BOOLEAN
  /\ pc \in {"idle", "backup", "umount", "confirm", "erase", "reboot"}
  /\ mode \in {"android", "recovery"}
  /\ mounted \in BOOLEAN
  /\ nv \in [Parts -> Contents]
  /\ cache \in Valid \cup {"none"}
  /\ mode = "recovery" \/ mounted => (cache = "none") = (mode = "recovery")
  /\ file \in [Parts -> Contents \cup {"none", "prefix"}]
  /\ entries \in [Parts -> Entry]
  /\ todo \in Seq(Parts)
  /\ before \in [Parts -> Contents]
  /\ erased \in [Targets -> {"not_yet", "old", "bad", "zero", "empty"}]
  /\ moved \subseteq Targets
  /\ free \in BOOLEAN /\ done \in BOOLEAN
  /\ cmds \in Nat

\* At boot the firmware takes a valid target, or else the source; nvdata has to
\* be mounted for that, so it has to be a file system or to be formatted.
Fillable(n) == family = "qualcomm" \/ formats \/ n["nvdata"] = "empty"

Booted(n) ==
  LET good == {n[p] : p \in Targets} \cap Valid
  IN  IF good # {} THEN good
      ELSE IF Fillable(n) /\ n[Source] \in Valid THEN {n[Source]} ELSE {"none"}

Rebuilt(n, c) ==
  [p \in Parts |-> IF p \in Targets /\ n[p] \notin Valid /\ c # "none" THEN c ELSE n[p]]

Untouched == [p \in Targets |-> "not_yet"]

Init ==
  /\ family \in {"qualcomm", "mediatek"} /\ formats \in BOOLEAN
  /\ family = "qualcomm" => ~formats
  /\ pc = "idle" /\ mode \in {"android", "recovery"}
  /\ nv \in {n \in [Parts -> {"nv", "golden", "bad"}] :
              n[Source] # "nv" /\ \A p \in Targets : n[p] # "golden"}
  /\ cache \in IF mode = "android" THEN Booted(nv) ELSE {"none"}
  /\ mounted = (family = "mediatek" /\ cache # "none")
  /\ file = [p \in Parts |-> "none"]
  /\ entries = [p \in Parts |-> "none"]
  /\ todo = <<>>
  /\ before = nv /\ erased = Untouched
  /\ moved = {} /\ free = FALSE /\ done = FALSE
  /\ cmds = 0

Firmware == UNCHANGED <<handset, mode, mounted, cache, moved>>
World == Firmware /\ UNCHANGED <<free, cmds>>

-----------------------------------------------------------------------------
(* The command.                                                            *)

Start == /\ pc = "idle" /\ cmds < MaxCmds
         /\ pc' = "backup" /\ todo' = Append(Wanted, Source)
         /\ entries' = [p \in Parts |-> "none"]
         /\ before' = nv /\ erased' = Untouched
         /\ moved' = {} /\ free' = FALSE /\ done' = FALSE
         /\ cmds' = cmds + 1
         /\ UNCHANGED <<handset, mode, mounted, cache, nv, file>>

\* A torn dump of a valid image may keep enough of it to look valid.
Dumped(o, p) ==
  CASE o.file = "copy" -> {nv[p]}
    [] o.file = "old" -> {file[p]}
    [] o.file = "torn" -> IF nv[p] \in Valid THEN {"bad", "prefix"} ELSE {"bad"}

\* Mutant: a dump that ends counts as verified.
TrustedEntry(o) == IF o.status = "failed" THEN "failed" ELSE "yes"

EntryOf(o) == IF o.status = "failed" THEN "failed"
              ELSE IF o.verified = "none" THEN "unknown" ELSE o.verified

\* backup(): one dump; a failed one is noted and the loop goes on.
BackupOne ==
  /\ pc = "backup" /\ todo # <<>>
  /\ LET p == Head(todo) IN
       \E o \in DumpOutcomes(TRUE, file[p] # "none", TRUE) :
         /\ \E f \in Dumped(o, p) : file' = [file EXCEPT ![p] = f]
         /\ entries' = [entries EXCEPT ![p] = EntryOf(o)]
  /\ todo' = Tail(todo)
  /\ UNCHANGED <<pc, nv, before, erased, done>> /\ World

BackupFailed == \E p \in Parts : entries[p] = "failed"

\* analyze_image of the source's dump: state "ok" (and, of nvram, some files).
SourceIsGood == file[Source] \in {"golden", "prefix"}

\* A failed dump or a source that cannot be rebuilt from ends the command.
Refuse == /\ pc = "backup" /\ todo = <<>>
          /\ BackupFailed \/ ~SourceIsGood
          /\ pc' = "idle"
          /\ UNCHANGED <<nv, file, entries, todo, before, erased, done>> /\ World

Check == /\ pc = "backup" /\ todo = <<>>
         /\ ~BackupFailed /\ SourceIsGood
         /\ pc' = IF mounted THEN "umount" ELSE "confirm"
         /\ UNCHANGED <<nv, file, entries, todo, before, erased, done>> /\ World

\* `umount || umount -l`, and /proc/mounts again: a lazy unmount takes a busy
\* file system off that list while its users keep it.
Umount ==
  /\ pc = "umount"
  /\ \/ /\ mounted' = FALSE /\ pc' = "confirm"
        /\ cache' \in {cache, "none"}
     \/ mounted /\ pc' = "idle" /\ UNCHANGED <<mounted, cache>>
  /\ UNCHANGED <<handset, mode, nv, file, entries, todo, before, erased, moved, free, done, cmds>>

\* Mutant: the source is erased with the rest.
ConfirmWholeGroup == /\ pc = "confirm"
                     /\ pc' = "erase" /\ todo' = Append(Wanted, Source)
                     /\ free' = (cache = "none")
                     /\ UNCHANGED <<nv, file, entries, before, erased, done, cmds>> /\ Firmware

\* The operator types REBUILD, or not.
Confirm == /\ pc = "confirm"
           /\ pc' = "erase" /\ todo' = Wanted
           /\ free' = (cache = "none")
           /\ UNCHANGED <<nv, file, entries, before, erased, done, cmds>> /\ Firmware

Decline == /\ pc = "confirm"
           /\ pc' = "idle"
           /\ UNCHANGED <<nv, file, entries, todo, before, erased, done>> /\ World

\* Mutant: an nvdata whose formatting fails, and modemst2, are believed erased.
LeavesBelieved(p, left) ==
  /\ erased' = [erased EXCEPT ![p] = IF left = "old" THEN "zero" ELSE left]
  /\ nv' = IF left = "old" THEN nv ELSE [nv EXCEPT ![p] = left]

\* What dd or mke2fs left of p; neither status is seen, sync's takes its place.
Leaves(p, left) ==
  /\ erased' = [erased EXCEPT ![p] = left]
  /\ nv' = IF left = "old" THEN nv ELSE [nv EXCEPT ![p] = left]

EraseOne ==
  /\ pc = "erase" /\ todo # <<>>
  /\ \E left \in {"old", "bad", "zero"} \cup (IF family = "mediatek" THEN {"empty"} ELSE {}) :
       Leaves(Head(todo), left)
  /\ todo' = Tail(todo)
  /\ UNCHANGED <<pc, file, entries, before, done>> /\ World

\* Only an adb that fails itself is noticed, and only by mke2fs's check.
FormatRaises ==
  /\ pc = "erase" /\ todo # <<>> /\ family = "mediatek"
  /\ \E left \in {"old", "bad", "empty"} : Leaves(Head(todo), left)
  /\ pc' = "idle" /\ todo' = <<>>
  /\ UNCHANGED <<file, entries, before, done>> /\ World

Finish == /\ pc = "erase" /\ todo = <<>>
          /\ \/ pc' = "idle" /\ done' = TRUE
             \/ pc' = "reboot" /\ UNCHANGED done   \* --reboot
          /\ UNCHANGED <<nv, file, entries, todo, before, erased>> /\ World

BootInto(m) ==
  /\ mode' = m
  /\ IF m = "recovery" THEN cache' = "none" /\ UNCHANGED nv
     ELSE \E c \in Booted(nv) : cache' = c /\ nv' = Rebuilt(nv, c)
  /\ mounted' = (family = "mediatek" /\ cache' # "none")
  /\ free' = FALSE
  /\ UNCHANGED handset

\* adb reboot; a reboot that does not happen is not noticed either.
Reboot == /\ pc = "reboot"
          /\ pc' = "idle" /\ done' = TRUE
          /\ BootInto("android") \/ UNCHANGED <<handset, mode, mounted, cache, nv, free>>
          /\ UNCHANGED <<file, entries, todo, before, erased, moved, cmds>>

-----------------------------------------------------------------------------
(* The world.                                                              *)

\* The tool dies; a dump or an erasure it was running may be left half done.
Crash ==
  /\ pc # "idle"
  /\ pc' = "idle" /\ todo' = <<>>
  /\ \/ UNCHANGED <<file, nv>>
     \/ pc = "backup" /\ todo # <<>> /\ file' = [file EXCEPT ![Head(todo)] = "bad"] /\ UNCHANGED nv
     \/ pc = "erase" /\ todo # <<>> /\ nv' = [nv EXCEPT ![Head(todo)] = "bad"] /\ UNCHANGED file
  /\ UNCHANGED <<entries, before, erased, done>> /\ World

\* A running modem writes the NV it holds to one of its mirrors; the users of
\* an nvdata that was formatted under them write into the new file system.
FirmwareWrite(p) ==
  /\ cache # "none"
  /\ nv' = [nv EXCEPT ![p] = IF family = "qualcomm" \/ nv[p] \in Valid THEN cache ELSE "bad"]
  /\ moved' = moved \cup {p}
  /\ UNCHANGED <<handset, pc, mode, mounted, cache, file, entries, todo, before, erased, free,
                 done, cmds>>

\* The phone restarts under the tool, or by the technician's hand afterwards.
PhoneBoots(m) == /\ BootInto(m)
                 /\ moved' = IF m = "android" THEN Targets ELSE moved
                 /\ UNCHANGED <<pc, file, entries, todo, before, erased, done, cmds>>

-----------------------------------------------------------------------------
Command == \/ Start \/ BackupOne \/ Refuse \/ Check \/ Umount \/ Confirm \/ Decline
           \/ EraseOne \/ FormatRaises \/ Finish \/ Reboot

Next == \/ Command
        \/ Crash
        \/ \E p \in Targets : FirmwareWrite(p)
        \/ \E m \in {"android", "recovery"} : PhoneBoots(m)

Spec == Init /\ [][Next]_vars

-----------------------------------------------------------------------------
(* Properties.                                                             *)

\* A phone that had a usable NV copy has one after every step of every command,
\* wherever the tool died and however often it was repeated.
RadioSurvives ==
  (\E p \in Parts : before[p] \in Valid) => \E p \in Parts : nv[p] \in Valid

\* Once a target may have been erased its former contents are in the backup
\* directory, if the backup verified and the firmware wrote nothing meanwhile
\* (efs.py:461-465, 509-513); a repeated rebuild keeps this only for what it found.
BackupHoldsErased ==
  \A p \in Targets :
    (erased[p] # "not_yet" /\ entries[p] = "yes" /\ p \notin moved)
      => file[p] = before[p]

\* The next boot can fill p: a zero-filled nvdata has to be formatted first.
Emptied(p) == erased[p] = "empty" \/ (erased[p] = "zero" /\ (family = "qualcomm" \/ formats))

\* A rebuild that erased its targets while nobody held NV, in recovery or on an
\* nvdata that was really unmounted, is effective: the next Android takes its NV
\* from the source, whatever the statuses nobody looked at (efs.py:473-475, 525).
RebuildSticks ==
  [][(/\ done \/ pc = "reboot"
      /\ free /\ ~free' /\ done' /\ mode' = "android"
      /\ \A p \in Targets : Emptied(p))
      => cache' = nv[Source] /\ \A p \in Targets : nv'[p] = nv[Source]]_vars
=============================================================================
