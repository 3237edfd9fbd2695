------------------------------ MODULE PartDump ------------------------------
(***************************************************************************)
(* `mrt part dump` and `mrt part dump-range`: dump_partition and           *)
(* dump_range in modules/partitions.py over Runner._run_to_file in         *)
(* core/runner.py.  dd, or for a range dd | tail | head, feeds adb         *)
(* exec-out; a thread of the host copies adb's output to the image file    *)
(* while the main thread waits for adb, joins the thread for 30 seconds,   *)
(* compares sizes and hashes both sides.  The partition may be in use, so  *)
(* its contents may change under the dump, and a dump may be repeated over *)
(* an older image, in one process also while the thread of an earlier dump *)
(* whose join gave up still has that image open.  exec-out is a raw        *)
(* stream: adb's exit status says nothing about dd, so a stream that stops *)
(* early can end with status 0.                                            *)
(* The unit of all lengths is the byte of the host's file.                 *)
(***************************************************************************)
EXTENDS Naturals, Sequences, Outcomes

CONSTANTS Block,       \* contents of one byte
          Zero,        \* what a hole in a file reads as
          PartSize,    \* bytes of the partition
          Sector,      \* 512: dd's block size for a range that is not aligned
          Page,        \* 4096: its block size for one that is
          Contents,    \* bound: what the partition may hold at first
          Ranges,      \* the offsets and lengths dump_range is called with
          NoFile,      \* "there is no such file on the host"
          PipeCap,     \* bytes the pipe between adb and the thread holds
          MaxRuns,     \* bound: dumps started
          MaxFaults,   \* bound: broken streams, thread errors, slow joins
          MaxChanges   \* bound: writes of the running system to the partition

ASSUME PartSizeAssumption == PartSize \in Nat \ {0}
ASSUME RangeAssumption == /\ Sector \in Nat \ {0} /\ Page \in Nat \ {0}
                          /\ Ranges \subseteq [off : Nat, len : Nat \ {0}]
ASSUME ContentsAssumption == Contents \subseteq [1..PartSize -> Block]
ASSUME ZeroAssumption == Zero \in Block
ASSUME PipeAssumption == PipeCap \in Nat \ {0}
ASSUME NoFileAssumption == NoFile \notin Seq(Block)

VARIABLES
  pc,        \* where the main thread is
  args,      \* the command, its range, was verification asked for, is the size known
  part,      \* contents of the partition
  stream,    \* history: the bytes dd has sent so far
  ended,     \* has adb exited
  rc,        \* adb's exit status
  pipe,      \* blocks sent and not yet written by the thread
  thread,    \* "opening" the image file, "copying" into it, or "dead"
  file,      \* the image file
  sizeOk,    \* result["size_ok"]
  local,     \* sha256 of the image file
  snap,      \* history: the partition when its own hash was taken
  calm,      \* history: the thread opened the file and the partition was still
  past,      \* history: what the thread has done, "opened" the file or "raised"
  strays,    \* threads of earlier dumps that still write: where, and what is left
  alone,     \* history: no thread of an earlier dump was at work at the start
  result,    \* "none", "ok", "failed" or "killed"
  verified,  \* result["verified"]
  runs, faults, changes

hashes == <<local, snap>>
said == <<result, verified>>
ctl == <<calm, past, args, strays, alone>>
bounds == <<runs, faults, changes>>
vars == <<pc, ctl, part, stream, ended, rc, pipe, thread, file, sizeOk, hashes,
          said, bounds>>

Partition == [1..PartSize -> Block]
Args == [op : {"dump", "range"}, off : Nat, len : Nat \ {0}, verify : BOOLEAN, sized : BOOLEAN]
WholeDump(verify, sized) ==
  [op |-> "dump", off |-> 0, len |-> PartSize, verify |-> verify, sized |-> sized]
Pcs == {"idle", "stream", "join", "size", "hash", "devhash"}

TypeOK ==
  /\ pc \in Pcs
  /\ args \in Args
  /\ part \in Partition
  /\ stream \in Seq(Block) /\ Len(stream) <= PartSize
  /\ ended \in BOOLEAN /\ rc \in {0, 1, 124}
  /\ pipe \in Seq(Block)
  /\ thread \in {"opening", "copying", "dead"}
  /\ file \in Seq(Block) \cup {NoFile}
  /\ sizeOk \in BOOLEAN /\ calm \in BOOLEAN /\ past \subseteq {"opened", "raised"}
  /\ local \in Seq(Block) \cup {NoFile}
  /\ snap \in Seq(Block)
  /\ strays \subseteq [dump : Nat, at : Nat, rest : Seq(Block)] /\ alone \in BOOLEAN
  /\ result \in {"none", "ok", "failed", "killed"}
  /\ verified \in {"none", "yes", "no"}
  /\ runs \in Nat /\ faults \in Nat /\ changes \in Nat

Init ==
  /\ pc = "idle" /\ args = WholeDump(TRUE, TRUE)
  /\ part \in Contents
  /\ stream = <<>> /\ ended = TRUE /\ rc = 0
  /\ pipe = <<>> /\ thread = "dead" /\ file = NoFile
  /\ sizeOk = FALSE /\ calm = FALSE /\ past = {} /\ local = NoFile /\ snap = <<>>
  /\ strays = {} /\ alone = FALSE
  /\ result = "none" /\ verified = "none"
  /\ runs = 0 /\ faults = 0 /\ changes = 0

Fault == faults < MaxFaults /\ faults' = faults + 1 /\ UNCHANGED <<runs, changes>>

SmallerOf(a, b) == IF a < b THEN a ELSE b

\* Mutant: `tail -c +head_skip`, as if tail counted from zero.
FirstOneOff(off) == IF off % Sector = 0 THEN off ELSE off - 1

\* `tail -c +(head_skip + 1)` of what `dd bs=512 skip=` reads, or all of it.
FirstByte(off) == ((off \div Sector) * Sector) + (off % Sector)

\* The positions the pipeline on the phone sends: dd reads whole blocks as far
\* as the partition goes, tail drops what is before the range, head ends it.
Sent ==
  LET aligned == args.off % Page = 0 /\ args.len % Page = 0
      first == FirstByte(args.off)
      count == ((args.off % Sector) + args.len + Sector - 1) \div Sector
      read == IF aligned THEN args.off + args.len
              ELSE ((args.off \div Sector) + count) * Sector
  IN  IF args.op = "dump" THEN [first |-> 0, last |-> PartSize]
      ELSE [first |-> first,
            last |-> SmallerOf(SmallerOf(first + args.len, read), PartSize)]

Left == Sent.first + Len(stream) < Sent.last

\* Where the thread writes next: each of them has opened the file for itself.
Written == Len(stream) - Len(pipe)

\* The file after a write of one byte at a position, also past its end.
WriteAt(f, at, byte) ==
  [k \in 1..(IF Len(f) > at THEN Len(f) ELSE at + 1) |->
     IF k = at + 1 THEN byte ELSE IF k <= Len(f) THEN f[k] ELSE Zero]

\* The threads that still write once a new dump begins: adb of the last one has
\* ended, so what is left is what the pipe holds.
AtWork == IF thread = "copying" /\ pipe # <<>>
            THEN strays \cup {[dump |-> runs, at |-> Written, rest |-> pipe]}
            ELSE strays

-----------------------------------------------------------------------------
(* The main thread.                                                        *)

\* Popen: adb runs, the pump thread starts; an older image is still there, and
\* perhaps a thread that has it open: nothing waits for one whose join gave up.
\* A range that is known to be too long has been refused before.
Start == /\ pc = "idle" /\ runs < MaxRuns
         /\ runs' = runs + 1
         /\ pc' = "stream"
         /\ \E verify, sized \in BOOLEAN :
              args' \in {WholeDump(verify, sized)} \cup
                {[op |-> "range", off |-> r.off, len |-> r.len, verify |-> FALSE, sized |-> sized] :
                   r \in {x \in Ranges : sized => x.off + x.len <= PartSize}}
         /\ stream' = <<>> /\ ended' = FALSE /\ rc' = 0
         /\ pipe' = <<>> /\ thread' = "opening" /\ calm' = TRUE /\ past' = {}
         /\ strays' = AtWork /\ alone' = (AtWork = {})
         /\ local' = NoFile /\ snap' = <<>> /\ sizeOk' = FALSE
         /\ result' = "none" /\ verified' = "none"
         /\ UNCHANGED <<part, file, faults, changes>>

\* proc.wait() returns because adb has exited.
WaitDone == /\ pc = "stream" /\ ended
            /\ pc' = "join"
            /\ UNCHANGED <<ctl, part, stream, ended, rc, pipe, thread, file, sizeOk,
                           hashes, said, bounds>>

\* Mutant: there is no timeout.
StreamHangs == pc = "stream" /\ FALSE /\ UNCHANGED vars

\* proc.wait(timeout) expires: adb is killed.
Timeout == /\ pc = "stream" /\ ~ended
           /\ ended' = TRUE /\ rc' = 124
           /\ pc' = "join"
           /\ UNCHANGED <<ctl, part, stream, pipe, thread, file, sizeOk, hashes,
                          said, bounds>>

Return(status, v) == pc' = "idle" /\ result' = status /\ verified' = v

AfterJoin == /\ IF rc = 0 THEN pc' = "size" /\ UNCHANGED said
                          ELSE Return("failed", "none")
             /\ UNCHANGED <<ctl, part, stream, ended, rc, pipe, thread, file, sizeOk,
                            hashes>>

Joined == pc = "join" /\ thread = "dead" /\ AfterJoin /\ UNCHANGED bounds

\* The disk is slow: join(30) gives up and the thread goes on copying.  (Taken
\* for granted: opening the file takes less than those 30 seconds.)
JoinTimeout == pc = "join" /\ thread = "copying" /\ Fault /\ AfterJoin

\* Mutant: a file that is too short passes.
CheckSizeAtMost ==
  /\ pc = "size" /\ args.op = "dump"
  /\ IF file = NoFile
       THEN Return("failed", "none") /\ UNCHANGED sizeOk
       ELSE /\ sizeOk' = (args.sized => Len(file) <= PartSize)
            /\ IF args.verify THEN pc' = "hash" /\ UNCHANGED said
                              ELSE Return("ok", "none")
  /\ UNCHANGED <<ctl, part, stream, ended, rc, pipe, thread, file, hashes, bounds>>

\* getsize() raises OSError without a file; a wrong size is only a warning.
CheckSize ==
  /\ pc = "size" /\ args.op = "dump"
  /\ IF file = NoFile
       THEN Return("failed", "none") /\ UNCHANGED sizeOk
       ELSE /\ sizeOk' = (args.sized => Len(file) = PartSize)
            /\ IF args.verify THEN pc' = "hash" /\ UNCHANGED said
                              ELSE Return("ok", "none")
  /\ UNCHANGED <<ctl, part, stream, ended, rc, pipe, thread, file, hashes, bounds>>

\* dump_range: a wrong size raises VerificationFailed, and there is no hash.
CheckRange ==
  /\ pc = "size" /\ args.op = "range"
  /\ Return(IF file # NoFile /\ Len(file) = args.len THEN "ok" ELSE "failed", "none")
  /\ UNCHANGED <<ctl, part, stream, ended, rc, pipe, thread, file, sizeOk, hashes, bounds>>

HashFile == /\ pc = "hash"
            /\ local' = file
            /\ pc' = "devhash"
            /\ UNCHANGED <<ctl, part, stream, ended, rc, pipe, thread, file, sizeOk,
                           snap, said, bounds>>

\* VerificationFailed is raised only if the sizes agreed.
HashDevice ==
  /\ pc = "devhash"
  /\ snap' = part
  /\ IF local = part THEN Return("ok", "yes")
     ELSE IF sizeOk THEN Return("failed", "no")
     ELSE Return("ok", "no")
  /\ UNCHANGED <<ctl, part, stream, ended, rc, pipe, thread, file, sizeOk, local, bounds>>

\* Mutant: a hash that cannot be had passes.
HashMissingPasses == /\ pc = "devhash"
                     /\ Return("ok", "yes")
                     /\ UNCHANGED <<ctl, part, stream, ended, rc, pipe, thread, file, sizeOk,
                                    hashes, bounds>>

\* remote_sha256 returns None: no sha256sum on the phone, timeout, cable out.
HashMissing == /\ pc = "devhash"
               /\ Return("ok", "none")
               /\ UNCHANGED <<ctl, part, stream, ended, rc, pipe, thread, file, sizeOk,
                              hashes, bounds>>

\* The process ends (or is killed): its daemon threads end with it.
Exit == /\ pc # "idle" \/ thread # "dead" \/ strays # {}
        /\ pc' = "idle"
        /\ result' = IF pc = "idle" THEN result ELSE "killed"
        /\ thread' = "dead" /\ strays' = {} /\ ended' = TRUE
        /\ UNCHANGED <<calm, past, args, alone, part, stream, rc, pipe, file, sizeOk, hashes, verified, bounds>>

-----------------------------------------------------------------------------
(* The pump thread.                                                        *)

ThreadFrame == UNCHANGED <<pc, args, strays, alone, part, stream, ended, rc, sizeOk, hashes, said>>

ThreadOpen == /\ thread = "opening"
              /\ thread' = "copying" /\ file' = <<>> /\ past' = past \cup {"opened"}
              /\ ThreadFrame /\ UNCHANGED <<calm, pipe, bounds>>

ThreadCopy == /\ thread = "copying" /\ pipe # <<>>
              /\ file' = WriteAt(file, Written, Head(pipe)) /\ pipe' = Tail(pipe)
              /\ ThreadFrame /\ UNCHANGED <<calm, past, thread, bounds>>

ThreadEnd == /\ thread = "copying" /\ pipe = <<>> /\ ended
             /\ thread' = "dead"
             /\ ThreadFrame /\ UNCHANGED <<calm, past, pipe, file, bounds>>

\* open() or write() raises in the thread (no permission, disk full).
ThreadError == /\ thread # "dead" /\ Fault
               /\ thread' = "dead"
               /\ calm' = (calm /\ thread = "copying") /\ past' = past \cup {"raised"}
               /\ ThreadFrame /\ UNCHANGED <<pipe, file>>

\* A thread of an earlier dump writes on, into the file that the new one opened.
StrayCopy(t) ==
  /\ t.rest # <<>>
  /\ file' = WriteAt(file, t.at, Head(t.rest))
  /\ LET left == [t EXCEPT !.at = @ + 1, !.rest = Tail(@)]
     IN  strays' = (strays \ {t}) \cup (IF left.rest = <<>> THEN {} ELSE {left})
  /\ UNCHANGED <<pc, calm, past, args, alone, part, stream, ended, rc, pipe, thread,
                 sizeOk, hashes, said, bounds>>

-----------------------------------------------------------------------------
(* The phone.                                                              *)

PhoneFrame == UNCHANGED <<pc, args, past, strays, alone, thread, file, sizeOk, hashes, said>>

Send == /\ ~ended /\ Left /\ Len(pipe) < PipeCap
        /\ LET byte == part[Sent.first + Len(stream) + 1]
           IN  stream' = Append(stream, byte) /\ pipe' = Append(pipe, byte)
        /\ PhoneFrame /\ UNCHANGED <<calm, part, ended, rc, bounds>>

SendEnd == /\ ~ended /\ ~Left
           /\ ended' = TRUE
           /\ PhoneFrame /\ UNCHANGED <<calm, part, stream, rc, pipe, bounds>>

\* dd fails or the cable comes out; adb may well exit with status 0.
Break == /\ ~ended /\ Fault
         /\ ended' = TRUE /\ rc' \in {0, 1}
         /\ PhoneFrame /\ UNCHANGED <<calm, part, stream, pipe>>

\* The running system writes a block of the partition.
Change == /\ changes < MaxChanges /\ changes' = changes + 1
          /\ \E k \in 1..PartSize, b \in Block : part' = [part EXCEPT ![k] = b]
          /\ calm' = FALSE
          /\ PhoneFrame /\ UNCHANGED <<stream, ended, rc, pipe, runs, faults>>

-----------------------------------------------------------------------------
Main == \/ WaitDone \/ Timeout \/ Joined \/ JoinTimeout \/ CheckSize \/ CheckRange
        \/ HashFile \/ HashDevice \/ HashMissing
Thread == ThreadOpen \/ ThreadCopy \/ ThreadEnd \/ ThreadError
Phone == Send \/ SendEnd \/ Break \/ Change

Next == Start \/ Exit \/ Main \/ Thread \/ Phone \/ (\E t \in strays : StrayCopy(t))

Spec == Init /\ [][Next]_vars

\* The operating system schedules both threads; proc.wait has a timeout.
FairSpec == Spec /\ WF_vars(Main) /\ WF_vars(Thread)

-----------------------------------------------------------------------------
(* Properties.                                                             *)

Done == pc = "idle"

\* A dump that reports verified: True has left the whole partition, as it was
\* at one instant, in the file, although it was read while it changed; and its
\* own thread can no longer alter it, however late it is (partitions.py:137-149).
\* Only while no thread of an earlier dump was still writing the same file when
\* it began: such a thread may write after the hash (runner.py:225).
VerifiedDumpIsSnapshot ==
  (Done /\ result = "ok" /\ verified = "yes" /\ alone) => file = snap /\ Len(file) = PartSize

\* An accepted dump of known size whose sizes agreed, without a warning and
\* without a hash, is still a copy if nothing wrote the partition meanwhile, the
\* thread could open the file and no earlier one was writing it; so is an
\* accepted range, of exactly the bytes asked for (partitions.py:130-175,
\* runner.py:203-230).
UnwarnedDumpIsCopy ==
  (Done /\ result = "ok" /\ calm /\ alone /\ (args.op = "dump" => args.sized /\ sizeOk)) =>
     /\ args.off + args.len <= PartSize
     /\ file = [k \in 1..args.len |-> part[args.off + k]]

\* What the operator has seen of a dump that ended: an error or a warning, or
\* the traceback of the thread.
Warned == \/ "raised" \in past \/ result = "failed" \/ verified = "no"
          \/ ~sizeOk \/ (args.verify /\ verified = "none")

\* However a dump ends, it is an end the callers' models know of: what it returned
\* or raised, what the operator has seen, and whether the file is a copy, the
\* older one or neither, if no earlier thread was writing the same file
\* (partitions.py:115-149, runner.py:203-230).
EndsAsOutcome ==
  (Done /\ result \in {"ok", "failed"} /\ args.op = "dump" /\ alone) =>
    \E o \in DumpOutcomes(args.verify, file # NoFile, ~calm \/ ~args.sized) :
      /\ o.status = result /\ o.verified = verified /\ o.warned = Warned
      /\ o.file = "copy" => file = IF verified = "yes" THEN snap ELSE part
      /\ o.file = "torn" => "opened" \in past
      /\ o.file = "old" => "opened" \notin past

\* A dump always comes to an end, also if the phone stops sending or the thread
\* has died and the pipe is full (runner.py:219-226).
DumpEnds == pc = "stream" ~> Done
=============================================================================
