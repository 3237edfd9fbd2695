--------------------------- MODULE PartWrite_proofs ---------------------------
(***************************************************************************)
(* Proofs about PartWrite, for every block set, partition size and image   *)
(* set.  The safety properties follow from one inductive invariant, IInv:  *)
(* in a quiet command nothing but the command's own dd script can write,   *)
(* that script copies the upload that is on the phone, and every report is *)
(* given in a state where no script is left that could falsify it.         *)
(***************************************************************************)
EXTENDS PartWrite, TLAPS

NoTouch == {"refused", "aborted", "push_failed", "upload_mismatch"}
GivenUp == {"dd_failed", "interrupted", "killed"}

Written ==
  /\ Len(job.img) <= PartSize
  /\ \A k \in 1..PartSize :
       part[k] = IF k <= Len(job.img) THEN job.img[k] ELSE part0[k]

Mixture == \A k \in 1..PartSize : \/ part[k] = part0[k]
                                  \/ k <= Len(tmp) /\ part[k] = tmp[k]

\* Only the host's own script runs, and only while the host waits for it.
ScriptInv ==
  /\ pc # "dd" => script = NoScript
  /\ script # NoScript => tmp \in Seq(Block) /\ script.src = tmp
  /\ (quiet /\ pc \in {"confirm", "push", "upload", "dd", "verify"}) => orphans = {}

UploadInv ==
  pc \in {"upload", "dd", "verify"} =>
     tmp \in Seq(Block) /\ Len(tmp) <= Len(job.img)

PartInv ==
  /\ (quiet /\ pc \in {"confirm", "push", "upload"}) => part = part0
  /\ (quiet /\ pc \in {"dd", "verify"}) => Mixture

ReportInv ==
  (quiet /\ pc \in {"cleanup", "idle"}) =>
    /\ outcome \in NoTouch => part = part0
    /\ outcome \notin GivenUp => orphans = {}
    /\ (outcome = "ok" /\ verified = "yes") => Written

RemoveInv ==
  /\ pc \in {"confirm", "push"} => tmp = NoFile
  /\ UploadIsRemoved

\* Nothing happens before the first command.
RunInv == runs = 0 => pc = "idle" /\ orphans = {}

IInv == TypeOK /\ RunInv /\ ScriptInv /\ UploadInv /\ PartInv /\ ReportInv /\ RemoveInv

-----------------------------------------------------------------------------
(* Facts about the data. *)

LEMMA JobImage == ASSUME NEW j \in Job PROVE j.img \in Seq(Block)
  BY ImagesAssumption DEF Job

\* What a failed or interrupted push leaves is no file or a shorter file.
LEMMA LeftoversType == ASSUME job \in Job, NEW f \in Leftovers
                       PROVE  f \in Seq(Block) \cup {NoFile}
<1>1. CASE f = NoFile
  BY <1>1
<1>2. CASE \E n \in 0..Len(job.img) : f = SubSeq(job.img, 1, n)
  <2>1. PICK n \in 0..Len(job.img) : f = SubSeq(job.img, 1, n)
    BY <1>2
  <2>2. job.img \in Seq(Block)
    BY JobImage
  <2>3. \A k \in 1..n : k \in 1..Len(job.img)
    BY <2>2
  <2>4. SubSeq(job.img, 1, n) \in Seq(Block)
    BY <2>2, <2>3
  <2>5. QED BY <2>1, <2>4
<1>3. QED BY <1>1, <1>2 DEF Leftovers

\* The post-write hash is taken of the image only if all of it fitted.
LEMMA ReadBackIsImage ==
  ASSUME job \in Job, ReadBack = job.img
  PROVE  /\ Len(job.img) <= PartSize
         /\ \A k \in 1..Len(job.img) : part[k] = job.img[k]
<1> DEFINE n == Min(Len(job.img), PartSize)
<1>1. job.img \in Seq(Block) /\ Len(job.img) \in Nat
  BY JobImage
<1>2. n \in Nat
  BY <1>1, PartSizeAssumption DEF Min
<1>3. DOMAIN job.img = 1..Len(job.img) /\ DOMAIN ReadBack = 1..n
  BY <1>1 DEF ReadBack
<1>4. 1..n = 1..Len(job.img)
  BY <1>3
<1>5. n = Len(job.img)
  BY <1>1, <1>2, <1>4
<1>6. \A k \in 1..n : ReadBack[k] = part[k]
  BY DEF ReadBack
<1>7. QED BY <1>1, <1>5, <1>6, PartSizeAssumption DEF Min

\* One step of a dd script keeps the partition and the script well formed.
LEMMA StepType ==
  ASSUME part \in Partition, NEW s \in Script, NEW t,
         Copies(s, t) \/ Retries(s, t) \/ Gives(s, t) \/ Ends(s, t)
  PROVE  part' \in Partition /\ t \in Script \cup {NoScript}
<1>1. s.src \in Seq(Block) /\ s.pos \in 0..PartSize /\ s.try \in {1, 2}
  BY DEF Script
<1>2. CASE Copies(s, t)
  <2>1. s.pos + 1 \in 1..PartSize /\ s.pos + 1 \in 1..Len(s.src)
    BY <1>1, <1>2, PartSizeAssumption DEF Copies, Min
  <2>2. s.src[s.pos + 1] \in Block
    BY <1>1, <2>1
  <2>3. t \in Script
    BY <1>1, <1>2, <2>1 DEF Copies, Copied, Script
  <2>4. part' \in Partition
    BY <1>2, <2>1, <2>2 DEF Copies, Partition
  <2>5. QED BY <2>3, <2>4
<1>3. CASE Retries(s, t)
  BY <1>1, <1>3, PartSizeAssumption DEF Retries, Restarted, Script
<1>4. CASE Gives(s, t) \/ Ends(s, t)
  BY <1>4 DEF Gives, Ends
<1>5. QED BY <1>2, <1>3, <1>4

-----------------------------------------------------------------------------
(* Type correctness. *)

LEMMA TypeInit == Init => TypeOK
<1> SUFFICES ASSUME Init PROVE TypeOK
  OBVIOUS
<1>1. /\ link \in BOOLEAN /\ rm \in {"none", "ok", "failed"}
      /\ quiet \in BOOLEAN /\ ddFailed \in BOOLEAN
  BY Zenon DEF Init
<1>2. QED
  BY <1>1 DEF Init, TypeOK, Pcs, Outcomes

LEMMA TypeStep == TypeOK /\ [Next]_vars => TypeOK'
<1> SUFFICES ASSUME TypeOK, [Next]_vars PROVE TypeOK'
  OBVIOUS
<1> USE PartSizeAssumption DEF TypeOK, Pcs, Outcomes, phone, told, history
<1>1. ASSUME NEW j \in Job, NEW e \in BOOLEAN, NEW s \in BOOLEAN, Refuse(j, e, s) PROVE TypeOK'
  <2>1. rm' \in {"none", "ok", "failed"} /\ quiet' \in BOOLEAN /\ ddFailed' \in BOOLEAN
    BY <1>1, Zenon DEF Refuse, NewRun
  <2>2. QED
    BY <1>1, <2>1 DEF Refuse, NewRun
<1>2. ASSUME NEW j \in Job, NEW e \in BOOLEAN, NEW s \in BOOLEAN, Begin(j, e, s) PROVE TypeOK'
  <2>1. rm' \in {"none", "ok", "failed"} /\ quiet' \in BOOLEAN /\ ddFailed' \in BOOLEAN
    BY <1>2, Zenon DEF Begin, NewRun
  <2>2. QED
    BY <1>2, <2>1 DEF Begin, NewRun
<1>3. CASE Confirm
  BY <1>3 DEF Confirm
<1>4. CASE Decline
  BY <1>4 DEF Decline, Finish
<1>5. CASE Push
  BY <1>5, JobImage, NoFileAssumption DEF Push, PushTo
<1>6. CASE PushDamaged
  BY <1>6, ImagesAssumption, NoFileAssumption DEF PushDamaged, PushTo
<1>7. CASE PushFail
  BY <1>7, LeftoversType DEF PushFail, Finish
<1>8. CASE UploadMatches \/ UploadUnhashed
  BY <1>8 DEF UploadMatches, UploadUnhashed, StartDd, Script
<1>9. CASE UploadMismatch \/ UploadLinkDown
  BY <1>9 DEF UploadMismatch, UploadLinkDown, Leave
<1>10. CASE DdReturn
  BY <1>10 DEF DdReturn, Leave
<1>11. CASE DdTimeout
  BY <1>11 DEF DdTimeout, Leave, Abandon
<1>12. CASE VerifyMatches \/ VerifyMismatch \/ VerifyUnhashed
  BY <1>12 DEF VerifyMatches, VerifyMismatch, VerifyUnhashed, Leave
<1>13. CASE Cleanup
  <2>1. tmp' \in {tmp, NoFile} /\ rm' \in {"ok", "failed"}
    BY <1>13 DEF Cleanup, MaybeRemoved
  <2>2. UNCHANGED <<job, history, phone, link, told, ddFailed, faults>> /\ pc' = "idle"
    BY <1>13, Zenon DEF Cleanup
  <2>3. QED BY <2>1, <2>2
<1>14. CASE Interrupt
  <2>1. CASE pc = "cleanup"
    <3>1. tmp' \in {tmp, NoFile}
      BY <1>14, <2>1 DEF Interrupt, MaybeRemoved
    <3>2. QED BY <1>14, <2>1, <3>1 DEF Interrupt, Finish
  <2>2. CASE pc # "cleanup"
    BY <1>14, <2>2, LeftoversType DEF Interrupt, Leave, Finish, Abandon
  <2>3. QED BY <2>1, <2>2
<1>15. CASE Kill
  BY <1>15, LeftoversType DEF Kill, Finish, Abandon
<1>16. CASE ScriptStep
  <2>1. script \in Script
    BY <1>16 DEF ScriptStep
  <2>2. part' \in Partition /\ script' \in Script \cup {NoScript}
    BY <1>16, <2>1, StepType DEF ScriptStep
  <2>3. ddFailed' \in BOOLEAN
    BY <1>16, Zenon DEF ScriptStep
  <2>4. QED
    BY <1>16, <2>2, <2>3 DEF ScriptStep
<1>17. CASE OrphanStep
  <2>1. PICK s \in orphans : \E t \in {Copied(s), Restarted(s), NoScript} :
          /\ Copies(s, t) \/ Retries(s, t) \/ Gives(s, t) \/ Ends(s, t)
          /\ orphans' = (orphans \ {s}) \cup ({t} \ {NoScript})
    BY <1>17, Zenon DEF OrphanStep
  <2>2. PICK t \in {Copied(s), Restarted(s), NoScript} :
          /\ Copies(s, t) \/ Retries(s, t) \/ Gives(s, t) \/ Ends(s, t)
          /\ orphans' = (orphans \ {s}) \cup ({t} \ {NoScript})
    BY <2>1, Zenon
  <2>3. part' \in Partition /\ t \in Script \cup {NoScript}
    BY <2>2, StepType
  <2>4. orphans' \subseteq Script
    BY <2>2, <2>3
  <2>5. QED
    BY <1>17, <2>3, <2>4 DEF OrphanStep
<1>18. CASE LinkDrop
  <2>1. link' \in BOOLEAN /\ rm' \in {"none", "ok", "failed"}
    BY <1>18, Zenon DEF LinkDrop
  <2>2. /\ pc' \in Pcs /\ outcome' \in Outcomes
        /\ UNCHANGED <<verified, part>>
        /\ script' \in {script, NoScript} /\ orphans' \in {orphans, orphans \cup {script}}
    BY <1>18 DEF LinkDrop, Abandon
  <2>3. script = NoScript => orphans' = orphans
    BY <1>18 DEF LinkDrop, Abandon
  <2>4. QED
    BY <1>18, <2>1, <2>2, <2>3 DEF LinkDrop
<1>19. CASE Relink
  BY <1>19 DEF Relink
<1>20. CASE UNCHANGED vars
  BY <1>20 DEF vars
<1>21. QED
  BY <1>1, <1>2, <1>3, <1>4, <1>5, <1>6, <1>7, <1>8, <1>9, <1>10, <1>11, <1>12,
     <1>13, <1>14, <1>15, <1>16, <1>17, <1>18, <1>19, <1>20
  DEF Next, Host, Operator, World
\* PartWrite's variables keep their types, for every block set, partition size
\* and image set.
THEOREM TypeCorrect == Spec => []TypeOK
<1>1. QED
  BY TypeInit, TypeStep, PTL DEF Spec

-----------------------------------------------------------------------------
(* The inductive invariant.  Each action is dealt with once; what it does  *)
(* not touch carries over.                                                 *)

LEMMA InvInit == Init => IInv
<1> SUFFICES ASSUME Init PROVE IInv
  OBVIOUS
<1>1. TypeOK
  BY TypeInit
<1>2. QED
  BY <1>1 DEF Init, IInv, RunInv, ScriptInv, UploadInv, PartInv, ReportInv, RemoveInv,
     UploadIsRemoved, Done, NoTouch

\* A dd script step in a quiet command copies a block of the upload in place.
LEMMA ScriptKeepsMixture ==
  ASSUME TypeOK, ScriptInv, Mixture, ScriptStep
  PROVE  Mixture'
<1>1. script \in Script /\ tmp \in Seq(Block) /\ script.src = tmp /\ UNCHANGED <<part0, tmp>>
  BY DEF ScriptStep, TypeOK, ScriptInv, history
<1>2. CASE Copies(script, script')
  <2>1. script.pos \in Nat /\ script.pos + 1 \in 1..PartSize /\ script.pos + 1 <= Len(tmp)
    BY <1>1, <1>2, PartSizeAssumption DEF Copies, Min, Script
  <2>2. part' = [part EXCEPT ![script.pos + 1] = tmp[script.pos + 1]]
    BY <1>1, <1>2 DEF Copies
  <2>3. QED
    BY <1>1, <2>1, <2>2 DEF Mixture, TypeOK, Partition
<1>3. CASE UNCHANGED part
  BY <1>1, <1>3 DEF Mixture
<1>4. QED
  BY <1>2, <1>3 DEF ScriptStep, Retries, Gives, Ends

\* A post-write hash equal to the image's proves the whole command's effect.
LEMMA MatchMeansWritten ==
  ASSUME TypeOK, Mixture, ReadBack = job.img,
         tmp \in Seq(Block), Len(tmp) <= Len(job.img)
  PROVE  Written
<1>1. /\ Len(job.img) <= PartSize
      /\ \A k \in 1..Len(job.img) : part[k] = job.img[k]
  BY ReadBackIsImage DEF TypeOK
<1>2. job.img \in Seq(Block) /\ Len(job.img) \in Nat /\ Len(tmp) \in Nat
  BY JobImage DEF TypeOK
<1>3. ASSUME NEW k \in 1..PartSize
      PROVE  part[k] = IF k <= Len(job.img) THEN job.img[k] ELSE part0[k]
  BY <1>1, <1>2, PartSizeAssumption DEF Mixture
<1>4. QED BY <1>1, <1>3 DEF Written

LEMMA InvStep == IInv /\ [Next]_vars => IInv'
<1> SUFFICES ASSUME IInv, [Next]_vars PROVE IInv'
  OBVIOUS
<1>0. TypeOK /\ TypeOK'
  BY TypeStep DEF IInv
<1> USE DEF IInv, RunInv, ScriptInv, UploadInv, PartInv, ReportInv, RemoveInv,
            UploadIsRemoved, Done, NoTouch, GivenUp, phone, told, history
<1>1. ASSUME NEW j \in Job, NEW e \in BOOLEAN, NEW s \in BOOLEAN, Refuse(j, e, s) PROVE IInv'
  <2>1. runs' # 0
    BY <1>0, <1>1 DEF Refuse, NewRun, TypeOK
  <2>2. QED BY <1>0, <1>1, <2>1 DEF Refuse, NewRun
<1>2. ASSUME NEW j \in Job, NEW e \in BOOLEAN, NEW s \in BOOLEAN, Begin(j, e, s) PROVE IInv'
  <2>1. runs' # 0
    BY <1>0, <1>2 DEF Begin, NewRun, TypeOK
  <2>2. QED BY <1>0, <1>2, <2>1 DEF Begin, NewRun
<1>3. CASE Confirm
  BY <1>0, <1>3 DEF Confirm
<1>4. CASE Decline
  BY <1>0, <1>4 DEF Decline, Finish
<1>5. CASE Push
  BY <1>0, <1>5, JobImage DEF Push, PushTo, TypeOK
<1>6. CASE PushDamaged
  BY <1>0, <1>6, ImagesAssumption DEF PushDamaged, PushTo
<1>7. CASE PushFail
  BY <1>0, <1>7 DEF PushFail, Finish
<1>8. CASE UploadMatches \/ UploadUnhashed
  BY <1>0, <1>8 DEF UploadMatches, UploadUnhashed, StartDd, Mixture
<1>9. CASE UploadMismatch \/ UploadLinkDown
  BY <1>0, <1>9 DEF UploadMismatch, UploadLinkDown, Leave
<1>10. CASE DdReturn
  BY <1>0, <1>10 DEF DdReturn, Leave, Mixture
<1>11. CASE DdTimeout
  BY <1>0, <1>11 DEF DdTimeout, Leave, Abandon
<1>12. CASE VerifyMatches
  BY <1>0, <1>12, MatchMeansWritten DEF VerifyMatches, Leave, Written
<1>13. CASE VerifyMismatch \/ VerifyUnhashed
  BY <1>0, <1>13 DEF VerifyMismatch, VerifyUnhashed, Leave
<1>14. CASE Cleanup
  BY <1>0, <1>14 DEF Cleanup, Written
<1>15. CASE Interrupt
  BY <1>0, <1>15 DEF Interrupt, Leave, Finish, Abandon
<1>16. CASE Kill
  BY <1>0, <1>16 DEF Kill, Finish, Abandon
<1>17. CASE ScriptStep
  <2>1. pc = "dd" /\ script # NoScript
    BY <1>17 DEF ScriptStep
  <2>2. script' # NoScript => script'.src = script.src
    BY <1>17 DEF ScriptStep, Copies, Retries, Gives, Ends, Copied, Restarted
  <2>3. UNCHANGED <<pc, job, tmp, orphans, runs, quiet, link, rm, outcome, verified>>
    BY <1>17 DEF ScriptStep
  <2>4. quiet => Mixture'
    BY <1>17, <2>1, ScriptKeepsMixture
  <2>5. QED
    BY <1>0, <2>1, <2>2, <2>3, <2>4
<1>18. CASE OrphanStep
  BY <1>0, <1>18 DEF OrphanStep
<1>19. CASE LinkDrop
  <2>1. CASE pc = "dd"
    BY <1>0, <1>19, <2>1 DEF LinkDrop, Abandon
  <2>2. CASE pc # "dd"
    BY <1>0, <1>19, <2>2 DEF LinkDrop, Mixture, Written
  <2>3. QED BY <2>1, <2>2
<1>20. CASE Relink
  BY <1>0, <1>20 DEF Relink, Mixture, Written
<1>21. CASE UNCHANGED vars
  BY <1>0, <1>21 DEF vars, Mixture, Written
<1>22. QED
  BY <1>1, <1>2, <1>3, <1>4, <1>5, <1>6, <1>7, <1>8, <1>9, <1>10, <1>11, <1>12,
     <1>13, <1>14, <1>15, <1>16, <1>17, <1>18, <1>19, <1>20, <1>21
  DEF Next, Host, Operator, World
LEMMA Invariant == Spec => []IInv
<1>1. QED
  BY InvInit, InvStep, PTL DEF Spec

\* Whatever the blocks, the size and the images: a quiet run that reports
\* verified has the image on flash and nothing else changed.
THEOREM VerifiedIsWritten == Spec => []VerifiedMeansWritten
<1>1. IInv => VerifiedMeansWritten
  BY DEF IInv, ReportInv, VerifiedMeansWritten, Written, Done
<1>2. QED
  BY Invariant, <1>1, PTL

\* A quiet command that stopped before dd has not changed the partition.
THEOREM RefusalIsHarmless == Spec => []RefusalLeavesPartition
<1>1. IInv => RefusalLeavesPartition
  BY DEF IInv, ReportInv, RefusalLeavesPartition, NoTouch, GivenUp, Done
<1>2. QED
  BY Invariant, <1>1, PTL

\* While dd runs the partition is a block-wise mixture of old and upload.
THEOREM TornIsMixture == Spec => []TornWriteIsMixture
<1>1. IInv => TornWriteIsMixture
  BY DEF IInv, PartInv, Mixture, TornWriteIsMixture
<1>2. QED
  BY Invariant, <1>1, PTL

\* Every way out of the try block has tried to remove the upload; one is left only
\* if that failed, if the push did, or if the command was broken off.
THEOREM UploadRemoved == Spec => []UploadIsRemoved
<1>1. IInv => UploadIsRemoved
  BY DEF IInv, RemoveInv
<1>2. QED
  BY Invariant, <1>1, PTL

\* A dd goes on without its command only if the command gave up on it: dd failed by a
\* timeout or the cable, Ctrl-C, a dead host.  Whatever verify found, "ok" and
\* "verification FAILED" are the end of it (partitions.py:256-268).  This is when
\* EfsGroup lets a write outlive its command.
GivenUpOnly == (Done /\ quiet /\ orphans # {}) => outcome \in GivenUp

THEOREM OnlyGivenUpGoesOn == Spec => []GivenUpOnly
<1>1. IInv => GivenUpOnly
  BY DEF IInv, ReportInv, GivenUpOnly, Done
<1>2. QED
  BY Invariant, <1>1, PTL

-----------------------------------------------------------------------------
(* The contract.                                                           *)

Goal == IF runs = 0 THEN <<>> ELSE job.img

LEMMA ContractInit == Init => Contract!Init
  BY DEF Init, Contract!Init, Partition, Contract!Partition, Report, Done

\* A command that ends gives a report that is true when it is given.
LEMMA EndCloses ==
  ASSUME IInv, IInv', pc # "idle", pc' = "idle",
         UNCHANGED <<part, part0, quiet, runs, job>>
  PROVE  Contract!Close /\ UNCHANGED Goal
<1>1. runs # 0 /\ Report = "open"
  BY DEF IInv, RunInv, Report, Done
<1>2. Report' = "untouched" => part = part0
  BY <1>1 DEF IInv, ReportInv, NoTouch, Report, Done
<1>3. Report' = "verified" => Contract!Holds(part, job.img)
  <2>1. job.img \in Seq(Block)
    BY JobImage DEF IInv, TypeOK
  <2>2. Report' = "verified" => Written'
    BY <1>1 DEF IInv, ReportInv, NoTouch, Report, Done
  <2>3. QED
    BY <2>1, <2>2, PartSizeAssumption DEF Written, Contract!Holds
<1>4. Report' \in {"untouched", "verified", "unsure"}
  BY <1>1 DEF Report, Done
<1>5. QED
  BY <1>1, <1>2, <1>3, <1>4 DEF Contract!Close, Goal

LEMMA ContractStep ==
  IInv /\ IInv' /\ [Next]_vars => [Contract!Next]_<<part, part0, Goal, Report>>
<1> SUFFICES ASSUME IInv, IInv', [Next]_vars
             PROVE  [Contract!Next]_<<part, part0, Goal, Report>>
  OBVIOUS
<1> DEFINE Quiescent == UNCHANGED <<part, part0, Goal, Report>>
<1> USE DEF phone, told, history, Report, Done, Goal
<1>1. ASSUME NEW j \in Job, NEW e \in BOOLEAN, NEW s \in BOOLEAN, Refuse(j, e, s) PROVE Contract!Refuse
  BY <1>1 DEF Refuse, NewRun, Contract!Refuse, Job, IInv, TypeOK
<1>2. ASSUME NEW j \in Job, NEW e \in BOOLEAN, NEW s \in BOOLEAN, Begin(j, e, s) PROVE Contract!Open
  BY <1>2 DEF Begin, NewRun, Contract!Open, Job, IInv, TypeOK
<1>3. CASE Confirm \/ Push \/ PushDamaged
  BY <1>3 DEF Confirm, Push, PushDamaged, PushTo
<1>4. CASE Decline \/ PushFail \/ Kill
  <2>1. pc # "idle" /\ pc' = "idle" /\ UNCHANGED <<part, part0, quiet, runs, job>>
    BY <1>4 DEF Decline, PushFail, Kill, Finish
  <2>2. QED BY <2>1, EndCloses DEF Contract!Next
<1>5. CASE Cleanup
  <2>1. pc # "idle" /\ pc' = "idle" /\ UNCHANGED <<part, part0, quiet, runs, job>>
    BY <1>5 DEF Cleanup
  <2>2. QED BY <2>1, EndCloses DEF Contract!Next
<1>6. CASE UploadMatches \/ UploadMismatch \/ UploadUnhashed \/ UploadLinkDown
  BY <1>6 DEF UploadMatches, UploadMismatch, UploadUnhashed, UploadLinkDown, StartDd, Leave
<1>7. CASE DdReturn \/ DdTimeout
  BY <1>7 DEF DdReturn, DdTimeout, Leave
<1>8. CASE VerifyMatches \/ VerifyMismatch \/ VerifyUnhashed
  BY <1>8 DEF VerifyMatches, VerifyMismatch, VerifyUnhashed, Leave
<1>9. CASE Interrupt
  <2>1. CASE pc \in {"confirm", "push", "cleanup"} 
    <3>1. pc # "idle" /\ pc' = "idle" /\ UNCHANGED <<part, part0, quiet, runs, job>>
      BY <1>9, <2>1 DEF Interrupt, Finish
    <3>2. QED BY <3>1, EndCloses DEF Contract!Next
  <2>2. CASE pc \notin {"confirm", "push", "cleanup"}
    BY <1>9, <2>2 DEF Interrupt, Leave
  <2>3. QED BY <2>1, <2>2
<1>10. CASE ScriptStep
  <2>1. pc = "dd" /\ pc' = "dd" /\ UNCHANGED <<part0, job, runs>>
    BY <1>10 DEF ScriptStep, IInv, ScriptInv
  <2>2. part' \in Contract!Partition
    BY DEF IInv, TypeOK, Partition, Contract!Partition
  <2>3. QED BY <2>1, <2>2 DEF Contract!Next, Contract!Scribble
<1>11. CASE OrphanStep
  <2>1. orphans # {} /\ UNCHANGED <<pc, part0, job, runs, quiet, outcome, verified>>
    BY <1>11 DEF OrphanStep
  <2>2. Report \in {"open", "unsure"}
    BY <2>1 DEF IInv, RunInv, ReportInv, NoTouch, GivenUp
  <2>3. part' \in Contract!Partition
    BY DEF IInv, TypeOK, Partition, Contract!Partition
  <2>4. QED BY <2>1, <2>2, <2>3 DEF Contract!Next, Contract!Scribble
<1>12. CASE LinkDrop
  <2>1. pc # "idle" /\ pc' # "idle" /\ UNCHANGED <<part, part0, job, runs>>
    BY <1>12 DEF LinkDrop
  <2>2. QED BY <2>1
<1>13. CASE Relink
  BY <1>13 DEF Relink
<1>14. CASE UNCHANGED vars
  BY <1>14 DEF vars
<1>15. QED
  BY <1>1, <1>2, <1>3, <1>4, <1>5, <1>6, <1>7, <1>8, <1>9, <1>10, <1>11, <1>12,
     <1>13, <1>14
  DEF Next, Host, Operator, World, Contract!Next

\* write_partition keeps its contract: the reports "untouched" and "verified"
\* are true until the next command starts, for every value of the constants.
THEOREM WriteKeepsContract == Spec => ImplementsContract
<1>1. Spec => []IInv
  BY Invariant
<1>2. QED
  BY <1>1, ContractInit, ContractStep, PTL
  DEF Spec, ImplementsContract, Contract!Spec, Contract!vars, Goal
=============================================================================
