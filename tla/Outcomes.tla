------------------------------ MODULE Outcomes ------------------------------
(***************************************************************************)
(* How a dump and a write can end, as the callers see it.  PartDump and    *)
(* PartWrite model the two functions step by step; the modules about whole *)
(* groups and about rooting choose from these sets instead.  Every end     *)
(* that PartDump has is in DumpOutcomes (EndsAsOutcome there), if no       *)
(* thread of an earlier dump of the same process still writes the same     *)
(* file, and the reports "untouched" and "verified" of a write are true    *)
(* (WriteContract).  BackupDir has such threads as steps of its own;       *)
(* EfsGroup, EfsRebuild and RootFlow have none.                            *)
(***************************************************************************)

\* status  : dump_partition returned ("ok") or raised ("failed");
\* verified: result["verified"];
\* file    : what is at the output path: a "copy", something "torn", or what
\*           was there before ("old");
\* warned  : the operator saw a warning, an error or a thread's traceback.
\* verify: was verification asked for; had: there was a file at the path;
\* loose: the partition was written meanwhile, or its size is unknown, so that
\* a dump that is no copy may pass unnoticed.
DumpOutcomes(verify, had, loose) ==
  {o \in [status : {"ok", "failed"}, verified : {"yes", "no", "none"},
          file : {"copy", "torn", "old"}, warned : BOOLEAN] :
     /\ ~verify => o.verified = "none"
     /\ o.verified = "yes" => o.status = "ok" /\ o.file = "copy"
     /\ o.verified = "no" => o.warned
     /\ o.status = "failed" => o.warned
     /\ o.file = "old" => o.warned /\ (had \/ o.status = "failed")
     /\ (o.file = "torn" /\ ~o.warned) => loose}

\* report: what write_partition told its caller; leaves: what the partition
\* holds afterwards, its "old" contents, the "image", or something "torn".
WriteOutcomes ==
  {o \in [report : {"verified", "ok", "FAILED"}, leaves : {"old", "image", "torn"}] :
     o.report = "verified" => o.leaves = "image"}
=============================================================================
