------------------------------ MODULE PartWrite ------------------------------
(***************************************************************************)
(* `mrt part write`: write_partition in modules/partitions.py, the one     *)
(* path by which the toolkit writes raw flash over adb.  The host checks   *)
(* sizes, asks the operator, pushes the image to /data/local/tmp, hashes   *)
(* the upload, runs dd on the phone, hashes the partition again and        *)
(* removes the upload.  The cable, the phone's shell and the operator are  *)
(* external and may fail between any two steps; commands follow each other *)
(* on the same phone.                                                      *)
(*                                                                         *)
(* A SHA-256 is the contents it was taken of (no collisions).  A hash that *)
(* cannot be had (no sha256sum on the phone, timeout, cable out) is a      *)
(* missing answer, as remote_sha256 returns None.                          *)
(***************************************************************************)
EXTENDS Naturals, Sequences

CONSTANTS Block,      \* contents of one block of flash or of a file
          PartSize,   \* blocks of the partition
          Images,     \* contents an image file, or a damaged upload, can have
          NoFile,     \* "there is no such file on the phone"
          MaxRuns,    \* bound: commands started
          MaxFaults   \* bound: cable drops and damaged or failed uploads

ASSUME PartSizeAssumption == PartSize \in Nat \ {0}
ASSUME ImagesAssumption == Images \subseteq Seq(Block)
ASSUME NoFileAssumption == NoFile \notin Seq(Block)

VARIABLES
  pc,        \* where the host is in write_partition
  job,       \* the command's image, and was --verify asked for
  part,      \* contents of the partition
  part0,     \* history: contents of the partition when the command started
  tmp,       \* the command's upload on the phone
  script,    \* the dd script adb is waiting for
  orphans,   \* dd scripts still running on the phone that no host waits for
  link,      \* is the cable in
  rm,        \* history: was the upload's removal tried, and did it succeed
  quiet,     \* history: no orphan was running when this command started
  outcome,   \* how the command ended (or is going to end)
  verified,  \* result["verified"]
  ddFailed,  \* history: both dd attempts of this command failed
  runs, faults

phone == <<part, script, orphans>>
told == <<outcome, verified>>
history == <<part0, quiet, runs>>
vars == <<pc, job, part, part0, tmp, script, orphans, link, rm, quiet,
          outcome, verified, ddFailed, runs, faults>>

Partition == [1..PartSize -> Block]
Job == [img : Images, verify : BOOLEAN]
Script == [src : Seq(Block), pos : 0..PartSize, try : {1, 2}]
NoScript == [src |-> <<>>, pos |-> 0, try |-> 0]
Pcs == {"idle", "confirm", "push", "upload", "dd", "verify", "cleanup"}
Outcomes == {"none", "refused", "aborted", "push_failed", "upload_mismatch",
             "dd_failed", "verify_failed", "ok", "interrupted", "killed"}

Min(a, b) == IF a < b THEN a ELSE b

\* Mutant: the upload is hashed again instead of the partition.
ReadBackUpload == tmp

\* `head -c N partition | sha256sum`: as much of N as the partition has.
ReadBack == [k \in 1..Min(Len(job.img), PartSize) |-> part[k]]

\* The size checks; a size that resolve() could not read checks nothing.
Fits(j, exact, sized) == sized => /\ Len(j.img) <= PartSize
                                  /\ exact => Len(j.img) = PartSize

TypeOK ==
  /\ pc \in Pcs
  /\ job \in Job
  /\ part \in Partition /\ part0 \in Partition
  /\ tmp \in Seq(Block) \cup {NoFile}
  /\ pc \in {"upload", "dd", "verify"} => tmp # NoFile
  /\ script \in Script \cup {NoScript}
  /\ orphans \subseteq Script
  /\ link \in BOOLEAN /\ rm \in {"none", "ok", "failed"}
  /\ quiet \in BOOLEAN /\ ddFailed \in BOOLEAN
  /\ outcome \in Outcomes
  /\ verified \in {"none", "yes", "no", "unknown"}
  /\ runs \in Nat /\ faults \in Nat

Init ==
  /\ pc = "idle"
  /\ job \in Job
  /\ part \in Partition /\ part0 = part
  /\ tmp = NoFile /\ script = NoScript /\ orphans = {}
  /\ link = TRUE /\ rm = "none" /\ quiet = TRUE
  /\ outcome = "none" /\ verified = "none" /\ ddFailed = FALSE
  /\ runs = 0 /\ faults = 0

-----------------------------------------------------------------------------
(* The host, up to the upload.                                             *)

\* A new command: the operator picks an image and options.
NewRun(j) ==
  /\ pc = "idle" /\ link /\ runs < MaxRuns
  /\ runs' = runs + 1
  /\ job' = j
  /\ part0' = part /\ quiet' = (orphans = {})
  /\ tmp' = NoFile /\ rm' = "none" /\ ddFailed' = FALSE
  /\ verified' = "none"
  /\ UNCHANGED <<phone, link, faults>>

\* The size checks fail before anything is asked or sent.
Refuse(j, exact, sized) == /\ NewRun(j)
                           /\ ~Fits(j, exact, sized)
                           /\ outcome' = "refused"
                           /\ UNCHANGED pc

Begin(j, exact, sized) == /\ NewRun(j)
                          /\ Fits(j, exact, sized)
                          /\ outcome' = "none"
                          /\ pc' = "confirm"

Finish(how) == /\ pc' = "idle"
               /\ outcome' = how
               /\ UNCHANGED <<job, history, link, rm, verified, ddFailed>>

\* The operator types the partition's name, or anything else.
Confirm == /\ pc = "confirm"
           /\ pc' = "push"
           /\ UNCHANGED <<job, history, tmp, phone, link, rm, told, ddFailed, faults>>

Decline == /\ pc = "confirm"
           /\ Finish("aborted")
           /\ UNCHANGED <<tmp, phone, faults>>

PushTo(file) == /\ pc = "push" /\ link
                /\ tmp' = file
                /\ pc' = "upload"
                /\ UNCHANGED <<job, history, phone, link, rm, told, ddFailed>>

Push == PushTo(job.img) /\ UNCHANGED faults

\* adb reports success but what is on the phone is something else, or less.
PushDamaged == \E file \in Images \ {job.img} :
                 /\ Len(file) <= Len(job.img)
                 /\ faults < MaxFaults
                 /\ faults' = faults + 1
                 /\ PushTo(file)

\* What an upload that is cut short leaves on the phone.
Leftovers == {NoFile} \cup {SubSeq(job.img, 1, n) : n \in 0..Len(job.img)}

\* Mutant: adb push is not checked.
PushUnchecked == /\ pc = "push" /\ faults < MaxFaults
                 /\ faults' = faults + 1
                 /\ tmp' \in Leftovers
                 /\ pc' = "upload"
                 /\ UNCHANGED <<job, history, phone, link, rm, told, ddFailed>>

\* adb push fails: push() is outside the try, so nothing is removed.
PushFail == /\ pc = "push"
            /\ \/ ~link /\ UNCHANGED faults
               \/ faults < MaxFaults /\ faults' = faults + 1
            /\ tmp' \in Leftovers
            /\ Finish("push_failed")
            /\ UNCHANGED phone

-----------------------------------------------------------------------------
(* The host, from the upload's hash to the removal of the upload.          *)

\* Control goes to `finally` with this outcome.
Leave(how, result) ==
  /\ pc' = "cleanup"
  /\ outcome' = how /\ verified' = result
  /\ UNCHANGED <<job, history, tmp, link, rm, faults>>

StartDd == /\ pc' = "dd"
           /\ script' = [src |-> tmp, pos |-> 0, try |-> 1]
           /\ UNCHANGED <<job, history, part, tmp, orphans, link, rm, told,
                          ddFailed, faults>>

UploadMatches == pc = "upload" /\ link /\ tmp = job.img /\ StartDd

UploadMismatch == /\ pc = "upload" /\ link /\ tmp # job.img
                  /\ Leave("upload_mismatch", "none")
                  /\ UNCHANGED <<phone, ddFailed>>

\* `if remote_hash and ...`: with no answer the upload counts as good.
UploadUnhashed == pc = "upload" /\ link /\ StartDd

\* With the cable out there is no hash either, and the dd command fails.
UploadLinkDown == /\ pc = "upload" /\ ~link
                  /\ Leave("dd_failed", "none")
                  /\ UNCHANGED <<phone, ddFailed>>

\* The dd script that adb started may outlive adb, or die with it.
Abandon == /\ script' = NoScript
           /\ \/ UNCHANGED orphans
              \/ script # NoScript /\ orphans' = orphans \cup {script}

\* The script is done and `sync` set its exit status.
DdReturn == /\ pc = "dd" /\ script = NoScript
            /\ IF job.verify
                 THEN /\ pc' = "verify"
                      /\ UNCHANGED <<job, history, tmp, link, rm, told, faults>>
                 ELSE Leave("ok", "none")
            /\ UNCHANGED <<phone, ddFailed>>

\* Mutant: dd is waited for without a timeout.
DdHangs == pc = "dd" /\ FALSE /\ UNCHANGED vars

\* The host gives up on dd: run() returns 124.
DdTimeout == /\ pc = "dd"
             /\ Leave("dd_failed", "none")
             /\ Abandon
             /\ UNCHANGED <<part, ddFailed>>

VerifyMatches == /\ pc = "verify" /\ link /\ ReadBack = job.img
                 /\ Leave("ok", "yes")
                 /\ UNCHANGED <<phone, ddFailed>>

VerifyMismatch == /\ pc = "verify" /\ link /\ ReadBack # job.img
                  /\ Leave("verify_failed", "no")
                  /\ UNCHANGED <<phone, ddFailed>>

\* Mutant: a hash that cannot be had passes.
VerifyUnhashedPasses == /\ pc = "verify"
                        /\ Leave("ok", "yes")
                        /\ UNCHANGED <<phone, ddFailed>>

VerifyUnhashed == /\ pc = "verify"
                  /\ Leave("ok", "unknown")
                  /\ UNCHANGED <<phone, ddFailed>>

\* What is left of the upload when nothing is known of an rm.
MaybeRemoved == {tmp} \cup (IF link THEN {NoFile} ELSE {})

\* `finally: rm -f`, whose exit status nobody reads: it may fail, take longer
\* than its 60 seconds, or find the cable out.
Cleanup == /\ pc = "cleanup"
           /\ \/ link /\ tmp' = NoFile /\ rm' = "ok"
              \/ tmp' \in MaybeRemoved /\ rm' = "failed"
           /\ pc' = "idle"
           /\ UNCHANGED <<job, history, phone, link, told, ddFailed, faults>>

\* Ctrl-C: inside the try `finally` still runs, before it nothing does, and
\* during the removal it ends the command.
Interrupt ==
  \/ /\ pc \in {"upload", "dd", "verify"}
     /\ Leave("interrupted", "none")
     /\ Abandon
     /\ UNCHANGED <<part, ddFailed>>
  \/ /\ pc \in {"confirm", "push"}
     /\ Finish("interrupted")
     /\ tmp' \in (IF pc = "push" THEN Leftovers ELSE {tmp})
     /\ UNCHANGED <<phone, faults>>
  \/ /\ pc = "cleanup"
     /\ Finish("interrupted")
     /\ tmp' \in MaybeRemoved
     /\ UNCHANGED <<phone, faults>>

\* The host process dies.
Kill == /\ pc # "idle"
        /\ Finish("killed")
        /\ tmp' \in (IF pc = "push" THEN Leftovers ELSE {tmp})
        /\ Abandon
        /\ UNCHANGED <<part, faults>>

-----------------------------------------------------------------------------
(* The phone and the cable.                                                *)

\* One step of the script `dd conv=fsync || dd; sync` in state s, to state t.
Copied(s) == [src |-> s.src, pos |-> s.pos + 1, try |-> s.try]
Restarted(s) == [src |-> s.src, pos |-> 0, try |-> 2]

\* Mutant: dd is given seek=1.
CopiesOneOff(s, t) == /\ s.pos < Min(Len(s.src), PartSize)
                      /\ part' = [part EXCEPT ![Min(s.pos + 2, PartSize)] = s.src[s.pos + 1]]
                      /\ t = Copied(s)

Copies(s, t) == /\ s.pos < Min(Len(s.src), PartSize)
                /\ part' = [part EXCEPT ![s.pos + 1] = s.src[s.pos + 1]]
                /\ t = Copied(s)

Retries(s, t) == /\ s.try = 1
                 /\ t = Restarted(s)
                 /\ UNCHANGED part

Gives(s, t) == s.try = 2 /\ t = NoScript /\ UNCHANGED part

Ends(s, t) == /\ s.pos = Len(s.src)
              /\ t = NoScript
              /\ UNCHANGED part

ScriptStep == /\ script # NoScript
              /\ \/ /\ \/ Copies(script, script')
                       \/ Retries(script, script')
                       \/ Ends(script, script')
                    /\ UNCHANGED ddFailed
                 \/ Gives(script, script') /\ ddFailed' = TRUE
              /\ UNCHANGED <<pc, job, history, tmp, orphans, link, rm, told, faults>>

OrphanStep == \E s \in orphans :
              \E t \in {Copied(s), Restarted(s), NoScript} :
                /\ Copies(s, t) \/ Retries(s, t) \/ Gives(s, t) \/ Ends(s, t)
                /\ orphans' = (orphans \ {s}) \cup ({t} \ {NoScript})
                /\ UNCHANGED <<pc, job, history, tmp, script, link, rm, told,
                               ddFailed, faults>>

\* The cable comes out: an adb that waits for dd returns at once, non-zero.
LinkDrop == /\ link /\ pc # "idle" /\ faults < MaxFaults
            /\ link' = FALSE
            /\ faults' = faults + 1
            /\ IF pc = "dd"
                 THEN /\ pc' = "cleanup" /\ outcome' = "dd_failed"
                      /\ Abandon
                      /\ UNCHANGED <<part, verified>>
                 ELSE UNCHANGED <<pc, told, phone>>
            /\ UNCHANGED <<job, history, tmp, rm, ddFailed>>

Relink == /\ ~link
          /\ link' = TRUE
          /\ UNCHANGED <<pc, job, history, tmp, phone, rm, told, ddFailed, faults>>

-----------------------------------------------------------------------------
Host == \/ Push \/ PushDamaged \/ PushFail
        \/ UploadMatches \/ UploadMismatch \/ UploadUnhashed \/ UploadLinkDown
        \/ DdReturn \/ DdTimeout
        \/ VerifyMatches \/ VerifyMismatch \/ VerifyUnhashed
        \/ Cleanup

Operator == \/ \E j \in Job, exact, sized \in BOOLEAN :
                 Refuse(j, exact, sized) \/ Begin(j, exact, sized)
            \/ Confirm \/ Decline \/ Interrupt \/ Kill

World == ScriptStep \/ OrphanStep \/ LinkDrop \/ Relink

Next == Host \/ Operator \/ World

Spec == Init /\ [][Next]_vars

\* The host process runs and every adb call has a timeout.
FairSpec == Spec /\ WF_vars(Host)

-----------------------------------------------------------------------------
(* Properties.                                                             *)

Done == pc = "idle"

\* A run that reports verified: True leaves the whole image at the start of
\* the partition and every block behind it as it was (partitions.py:261-268),
\* unless an orphaned dd of an earlier command was still running.
VerifiedMeansWritten ==
  (Done /\ quiet /\ outcome = "ok" /\ verified = "yes") =>
     /\ Len(job.img) <= PartSize
     /\ \A k \in 1..PartSize :
          part[k] = IF k <= Len(job.img) THEN job.img[k] ELSE part0[k]

\* A command that ended before dd (refused, declined, failed push, upload hash
\* mismatch) leaves the partition exactly as it found it (partitions.py:232-254).
RefusalLeavesPartition ==
  (Done /\ quiet /\ outcome \in {"refused", "aborted", "push_failed", "upload_mismatch"})
     => part = part0 /\ orphans = {}

\* However the command ends, each block of the partition is the old block or
\* the block the upload has at that place, so a torn write never moves data
\* and never reaches behind the upload.  It is stated while the host still
\* waits for dd, when the upload is known (partitions.py:256-257).
TornWriteIsMixture ==
  (pc = "dd" /\ quiet) =>
     \A k \in 1..PartSize : \/ part[k] = part0[k]
                            \/ k <= Len(tmp) /\ part[k] = tmp[k]

\* Every command that came to its try block and was not broken off has tried to
\* remove its upload, whichever way it left the block; so an upload stays behind
\* only if that failed, if the push failed before the block, or if the command
\* was broken off (partitions.py:247-271).
UploadIsRemoved ==
  Done =>
    /\ outcome \in {"upload_mismatch", "dd_failed", "verify_failed", "ok"} => rm # "none"
    /\ tmp # NoFile => rm = "failed" \/ outcome \in {"push_failed", "interrupted", "killed"}

\* A command whose operator confirmed always comes to an end, whatever hangs:
\* every adb call has a timeout (runner.py:173-183).
CommandEnds == pc = "push" ~> pc = "idle"

\* The caller's view, for the contract.
Report == IF ~Done THEN "open"
          ELSE IF runs = 0 THEN "idle"
          ELSE IF ~quiet THEN "unsure"
          ELSE IF outcome \in {"refused", "aborted", "push_failed", "upload_mismatch"}
            THEN "untouched"
          ELSE IF outcome = "ok" /\ verified = "yes" THEN "verified"
          ELSE "unsure"

Contract == INSTANCE WriteContract
              WITH base <- part0, goal <- (IF runs = 0 THEN <<>> ELSE job.img), report <- Report

\* write_partition keeps its contract: "untouched" and "verified" reports are
\* true until the next command starts.
ImplementsContract == Contract!Spec

\* partitions.py:258-259: a dd that fails makes the command fail.
FailedDdIsReported == (Done /\ ddFailed) => outcome # "ok"
=============================================================================
