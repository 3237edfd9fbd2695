--------------------------- MODULE PartDump_proofs ---------------------------
(***************************************************************************)
(* Proofs about PartDump, for every partition, sector and page size, every *)
(* range and every capacity of the pipe.  The argument is that the thread  *)
(* and the pipe together always hold what the phone has sent, so that a    *)
(* file that has all its bytes cannot change any more, whether the thread  *)
(* has ended or is still running behind a join that gave up.  It needs a   *)
(* dump that no thread of an earlier one writes into (`alone`).            *)
(***************************************************************************)
EXTENDS PartDump, TLAPS

\* The thread opened the file for the bytes that are in the pipe or in the file,
\* and it is the only one that writes it.
Opened == alone /\ (thread = "copying" \/ (thread = "dead" /\ calm /\ result # "killed"))

\* What was sent is in the file and behind it in the pipe.
Conserved ==
  /\ file # NoFile
  /\ Len(file) + Len(pipe) = Len(stream)
  /\ \A k \in 1..Len(file) : file[k] = stream[k]
  /\ \A k \in 1..Len(pipe) : pipe[k] = stream[Len(file) + k]

StreamInv ==
  /\ Len(stream) = 0 \/ Sent.first + Len(stream) <= Sent.last
  /\ calm => \A k \in 1..Len(stream) : stream[k] = part[Sent.first + k]
  /\ thread = "opening" => pipe = stream
  /\ Len(pipe) <= Len(stream)
  /\ Opened => Conserved

\* Nobody measures a file before the thread has opened it, or died; a file that
\* a thread has open is there, and a dump that began alone stays alone.
PhaseInv ==
  /\ args.op = "dump" => args.off = 0 /\ args.len = PartSize
  /\ pc # "idle" => result = "none"
  /\ pc \in {"idle", "size", "hash", "devhash"} => thread # "opening"
  /\ pc \in {"hash", "devhash"} \/ verified # "none" => args.op = "dump"
  /\ pc \in {"hash", "devhash"} => file # NoFile
  /\ thread = "copying" \/ strays # {} => file # NoFile
  /\ alone => strays = {}

\* What the measured length says, it says of the file as it is from then on.
SizeInv == alone =>
  /\ (pc \in {"hash", "devhash"} \/ (Done /\ result = "ok")) /\ args.op = "dump"
        /\ args.sized /\ sizeOk => file # NoFile /\ Len(file) = PartSize
  /\ Done /\ result = "ok" /\ args.op = "range" => file # NoFile /\ Len(file) = args.len

\* A thread that outlived join may add to what was hashed, up to the partition's size.
HashInv == alone =>
  /\ pc = "devhash" =>
       /\ local # NoFile /\ file # NoFile
       /\ Len(local) <= Len(file)
       /\ \A k \in 1..Len(local) : file[k] = local[k]
       /\ file = local \/ Len(file) <= PartSize
  /\ Done /\ result = "ok" /\ verified = "yes" => file = snap /\ Len(file) = PartSize

IInv == TypeOK /\ StreamInv /\ PhaseInv /\ SizeInv /\ HashInv
-----------------------------------------------------------------------------
(* Facts about ranges and lists. *)

LEMMA SplitOffset ==
  ASSUME NEW off \in Nat
  PROVE  FirstByte(off) = off
  BY RangeAssumption DEF FirstByte

\* The pipeline sends what was asked for, from its first byte, or less.
LEMMA SentFacts ==
  ASSUME args \in Args
  PROVE  /\ Sent.first \in Nat /\ Sent.last \in Nat
         /\ Sent.last <= PartSize
         /\ args.op = "range" => Sent.first = args.off /\ Sent.last <= Sent.first + args.len
         /\ args.op = "dump" => Sent.first = 0 /\ Sent.last = PartSize
<1>1. args.off \in Nat /\ args.len \in Nat \ {0} /\ args.op \in {"dump", "range"}
  BY DEF Args
<1>2. FirstByte(args.off) = args.off
  BY <1>1, SplitOffset
<1>3. CASE args.op = "dump"
  BY <1>3, PartSizeAssumption DEF Sent
<1>4. CASE args.op = "range"
  <2> DEFINE count == ((args.off % Sector) + args.len + Sector - 1) \div Sector
             read == IF args.off % Page = 0 /\ args.len % Page = 0 THEN args.off + args.len
                     ELSE ((args.off \div Sector) + count) * Sector
  <2>1. args.off \div Sector \in Nat /\ args.off % Sector \in Nat
    BY <1>1, RangeAssumption
  <2>2. count \in Nat
    <3>1. (args.off % Sector) + args.len + Sector - 1 \in Nat
      BY <1>1, <2>1, RangeAssumption
    <3>2. QED BY <3>1, RangeAssumption
  <2>3. read \in Nat
    <3> HIDE DEF count
    <3>1. (args.off \div Sector) + count \in Nat
      BY <2>1, <2>2
    <3>2. ((args.off \div Sector) + count) * Sector \in Nat
      BY <3>1, RangeAssumption
    <3>3. QED BY <1>1, <3>2
  <2>4. Sent = [first |-> args.off,
                last |-> SmallerOf(SmallerOf(args.off + args.len, read), PartSize)]
    BY <1>2, <1>4, Zenon DEF Sent
  <2> HIDE DEF read
  <2>5. QED BY <1>1, <1>4, <2>3, <2>4, PartSizeAssumption DEF SmallerOf
<1>5. QED BY <1>1, <1>3, <1>4

LEMMA ListFacts ==
  ASSUME NEW s \in Seq(Block), s # <<>>
  PROVE  /\ Head(s) \in Block /\ Head(s) = s[1] /\ Len(s) \in Nat \ {0}
         /\ Tail(s) \in Seq(Block) /\ Len(Tail(s)) = Len(s) - 1
         /\ \A i \in 1..Len(Tail(s)) : Tail(s)[i] = s[i + 1]
  OBVIOUS

LEMMA AppendFacts ==
  ASSUME NEW s \in Seq(Block), NEW b \in Block
  PROVE  /\ Append(s, b) \in Seq(Block) /\ Len(Append(s, b)) = Len(s) + 1
         /\ Append(s, b)[Len(s) + 1] = b
         /\ \A i \in 1..Len(s) : Append(s, b)[i] = s[i]
  OBVIOUS

\* A write keeps the file a file, and at its end it appends.
LEMMA WriteFacts ==
  ASSUME NEW f \in Seq(Block), NEW at \in Nat, NEW b \in Block
  PROVE  /\ WriteAt(f, at, b) \in Seq(Block)
         /\ at = Len(f) => WriteAt(f, at, b) = Append(f, b)
<1> DEFINE n == IF Len(f) > at THEN Len(f) ELSE at + 1
<1>1. n \in Nat /\ Len(f) \in Nat /\ (at = Len(f) => n = Len(f) + 1)
  OBVIOUS
<1>2. WriteAt(f, at, b) = [k \in 1..n |-> IF k = at + 1 THEN b
                                          ELSE IF k <= Len(f) THEN f[k] ELSE Zero]
  BY DEF WriteAt
<1> HIDE DEF n
<1>3. \A k \in 1..n : (IF k = at + 1 THEN b ELSE IF k <= Len(f) THEN f[k] ELSE Zero) \in Block
  BY <1>1, ZeroAssumption
<1>4. WriteAt(f, at, b) \in Seq(Block)
  BY <1>1, <1>2, <1>3
<1>5. ASSUME at = Len(f) PROVE WriteAt(f, at, b) = Append(f, b)
  <2>1. \A k \in 1..n : (IF k = at + 1 THEN b ELSE IF k <= Len(f) THEN f[k] ELSE Zero) = Append(f, b)[k]
    BY <1>1, <1>5
  <2>2. Append(f, b) = [k \in 1..n |-> Append(f, b)[k]]
    <3>1. Append(f, b) \in Seq(Block) /\ Len(Append(f, b)) = n
      BY <1>1, <1>5, AppendFacts
    <3>2. \A x \in Seq(Block) : x = [k \in 1..Len(x) |-> x[k]]
      OBVIOUS
    <3>3. QED BY <3>1, <3>2, Zenon
  <2>3. QED BY <1>2, <2>1, <2>2
<1>6. QED BY <1>4, <1>5

\* Never more is under way than was asked for.
LEMMA StreamBound ==
  ASSUME args \in Args, stream \in Seq(Block), StreamInv, PhaseInv
  PROVE  /\ Len(stream) \in Nat /\ Len(stream) <= PartSize
         /\ Len(stream) <= args.len
         /\ Len(stream) > 0 => Sent.first + Len(stream) <= PartSize
<1>1. /\ Sent.first \in Nat /\ Sent.last \in Nat /\ Sent.last <= PartSize
      /\ args.op = "range" => Sent.last <= Sent.first + args.len
      /\ args.op = "dump" => Sent.first = 0 /\ Sent.last = PartSize
  BY SentFacts
<1>2. args.len \in Nat \ {0} /\ args.op \in {"dump", "range"}
  BY DEF Args
<1>3. Len(stream) = 0 \/ Sent.first + Len(stream) <= Sent.last
  BY DEF StreamInv
<1>4. args.op = "dump" => args.len = PartSize
  BY DEF PhaseInv
<1>5. Len(stream) \in Nat
  OBVIOUS
<1>6. QED BY <1>1, <1>2, <1>3, <1>4, <1>5, PartSizeAssumption
-----------------------------------------------------------------------------
(* Type correctness. *)

LEMMA TypeInit == Init => TypeOK
<1> SUFFICES ASSUME Init PROVE TypeOK
  OBVIOUS
<1>1. args \in Args
  BY PartSizeAssumption DEF Init, WholeDump, Args
<1>2. PartSize \in Nat /\ Len(stream) = 0 /\ stream \in Seq(Block) /\ snap \in Seq(Block)
      /\ pipe \in Seq(Block)
  BY PartSizeAssumption DEF Init
<1>3. Len(stream) <= PartSize
  BY <1>2
<1>4. /\ pc \in Pcs /\ ended \in BOOLEAN /\ rc \in {0, 1, 124} /\ alone \in BOOLEAN
      /\ strays \subseteq [dump : Nat, at : Nat, rest : Seq(Block)]
      /\ thread \in {"opening", "copying", "dead"}
      /\ sizeOk \in BOOLEAN /\ calm \in BOOLEAN /\ past \subseteq {"opened", "raised"}
      /\ result \in {"none", "ok", "failed", "killed"} /\ verified \in {"none", "yes", "no"}
      /\ runs \in Nat /\ faults \in Nat /\ changes \in Nat
      /\ file = NoFile /\ local = NoFile /\ part \in Partition
  BY ContentsAssumption DEF Init, Pcs, Partition
<1>5. file \in Seq(Block) \cup {NoFile} /\ local \in Seq(Block) \cup {NoFile}
  BY <1>4
<1>6. QED BY <1>1, <1>2, <1>3, <1>4, <1>5, Zenon DEF TypeOK

\* TypeOK in two halves, for provers that stumble over its length.
MainType ==
  /\ pc \in Pcs /\ args \in Args /\ part \in Partition
  /\ stream \in Seq(Block) /\ Len(stream) <= PartSize
  /\ ended \in BOOLEAN /\ rc \in {0, 1, 124} /\ pipe \in Seq(Block)
  /\ thread \in {"opening", "copying", "dead"}
  /\ file \in Seq(Block) \cup {NoFile}

DataType ==
  /\ sizeOk \in BOOLEAN /\ calm \in BOOLEAN
  /\ local \in Seq(Block) \cup {NoFile} /\ snap \in Seq(Block)
  /\ result \in {"none", "ok", "failed", "killed"}
  /\ verified \in {"none", "yes", "no"}
  /\ runs \in Nat /\ faults \in Nat /\ changes \in Nat

PastType == /\ past \subseteq {"opened", "raised"} /\ alone \in BOOLEAN
            /\ strays \subseteq [dump : Nat, at : Nat, rest : Seq(Block)]

LEMMA TypeParts == /\ TypeOK <=> MainType /\ DataType /\ PastType
                   /\ TypeOK' <=> MainType' /\ DataType' /\ PastType'
<1>1. TypeOK <=> MainType /\ DataType /\ PastType
  BY Zenon DEF TypeOK, MainType, DataType, PastType
<1>2. TypeOK' <=> MainType' /\ DataType' /\ PastType'
  BY Zenon DEF TypeOK, MainType, DataType, PastType
<1>3. QED BY <1>1, <1>2

\* Only the thread adds to its past, and a new dump forgets it.
LEMMA PastStep ==
  ASSUME [Next]_vars
  PROVE  \/ Start /\ past' = {}
         \/ ThreadOpen /\ past' = past \cup {"opened"}
         \/ ThreadError /\ past' = past \cup {"raised"}
         \/ ~Start /\ ~ThreadOpen /\ ~ThreadError /\ past' = past
<1>1. CASE Start
  BY <1>1 DEF Start
<1>2. CASE ThreadOpen
  BY <1>2 DEF ThreadOpen
<1>3. CASE ThreadError
  BY <1>3 DEF ThreadError
<1>4. CASE ThreadCopy \/ ThreadEnd
  BY <1>1, <1>2, <1>3, <1>4 DEF ThreadCopy, ThreadEnd
<1>5. CASE Exit \/ Main
  BY <1>1, <1>2, <1>3, <1>5 DEF Exit, Main, WaitDone, Timeout, Joined, JoinTimeout, AfterJoin, CheckSize,
     CheckRange, HashFile, HashDevice, HashMissing, ctl
<1>6. CASE Phone
  BY <1>1, <1>2, <1>3, <1>6 DEF Phone, Send, SendEnd, Break, Change, PhoneFrame
<1>7. CASE UNCHANGED vars \/ \E t \in strays : StrayCopy(t)
  BY <1>1, <1>2, <1>3, <1>7 DEF vars, ctl, StrayCopy
<1>8. QED BY <1>1, <1>2, <1>3, <1>4, <1>5, <1>6, <1>7 DEF Next, Thread

\* Threads are left behind by a start, and go on or end with the process.
LEMMA StrayStep ==
  ASSUME [Next]_vars
  PROVE  \/ Start /\ strays' = AtWork /\ alone' = (AtWork = {})
         \/ Exit /\ strays' = {} /\ alone' = alone
         \/ (\E t \in strays : StrayCopy(t)) /\ alone' = alone
         \/ (Main \/ Thread \/ Phone \/ UNCHANGED vars) /\ strays' = strays /\ alone' = alone
<1>1. CASE Start
  BY <1>1 DEF Start
<1>2. CASE Exit
  BY <1>2 DEF Exit
<1>3. CASE Main
  BY <1>3, Zenon DEF Main, WaitDone, Timeout, Joined, JoinTimeout, AfterJoin, CheckSize,
     CheckRange, HashFile, HashDevice, HashMissing, ctl
<1>4. CASE Thread
  BY <1>4, Zenon DEF Thread, ThreadOpen, ThreadCopy, ThreadEnd, ThreadError, ThreadFrame
<1>5. CASE Phone
  BY <1>5, Zenon DEF Phone, Send, SendEnd, Break, Change, PhoneFrame
<1>6. CASE UNCHANGED vars
  BY <1>6 DEF vars, ctl
<1>7. CASE \E t \in strays : StrayCopy(t)
  BY <1>7 DEF StrayCopy
<1>8. QED BY <1>1, <1>2, <1>3, <1>4, <1>5, <1>6, <1>7 DEF Next

\* One write of a thread of an earlier dump.
LEMMA StrayFacts ==
  ASSUME TypeOK, PhaseInv, NEW t \in strays, StrayCopy(t)
  PROVE  /\ ~alone /\ file \in Seq(Block) /\ file' \in Seq(Block) /\ file' # NoFile
         /\ strays' \subseteq [dump : Nat, at : Nat, rest : Seq(Block)]
         /\ pc' = pc /\ calm' = calm /\ past' = past /\ args' = args /\ alone' = alone
         /\ part' = part /\ stream' = stream /\ ended' = ended /\ rc' = rc /\ pipe' = pipe
         /\ thread' = thread /\ sizeOk' = sizeOk /\ local' = local /\ snap' = snap
         /\ result' = result /\ verified' = verified
         /\ runs' = runs /\ faults' = faults /\ changes' = changes
<1>1. /\ pc' = pc /\ calm' = calm /\ past' = past /\ args' = args /\ alone' = alone
      /\ part' = part /\ stream' = stream /\ ended' = ended /\ rc' = rc /\ pipe' = pipe
      /\ thread' = thread /\ sizeOk' = sizeOk /\ local' = local /\ snap' = snap
      /\ result' = result /\ verified' = verified
      /\ runs' = runs /\ faults' = faults /\ changes' = changes
  BY Zenon DEF StrayCopy, hashes, said, bounds
<1>2. ~alone /\ file # NoFile
  BY DEF PhaseInv
<1>3. file \in Seq(Block) /\ t \in [dump : Nat, at : Nat, rest : Seq(Block)]
  BY <1>2 DEF TypeOK
<1>4. t.dump \in Nat /\ t.at \in Nat /\ t.rest \in Seq(Block) /\ t.rest # <<>>
  BY <1>3 DEF StrayCopy
<1>5. Head(t.rest) \in Block /\ Tail(t.rest) \in Seq(Block)
  BY <1>4, ListFacts
<1>6. file' \in Seq(Block)
  BY <1>3, <1>4, <1>5, WriteFacts DEF StrayCopy
<1>7. file' # NoFile
  BY <1>6, NoFileAssumption
<1>8. [t EXCEPT !.at = @ + 1, !.rest = Tail(@)] \in [dump : Nat, at : Nat, rest : Seq(Block)]
  <2>1. t.at + 1 \in Nat
    BY <1>4
  <2>2. QED BY <1>3, <1>4, <1>5, <2>1, Zenon
<1>9. strays' \subseteq [dump : Nat, at : Nat, rest : Seq(Block)]
  BY <1>8 DEF StrayCopy, TypeOK
<1>10. QED BY <1>1, <1>2, <1>3, <1>6, <1>7, <1>9

LEMMA AtWorkType ==
  ASSUME TypeOK, StreamInv
  PROVE  AtWork \subseteq [dump : Nat, at : Nat, rest : Seq(Block)]
<1>1. Len(stream) \in Nat /\ Len(pipe) \in Nat /\ Len(pipe) <= Len(stream)
  BY DEF TypeOK, StreamInv
<1>2. Written \in Nat
  BY <1>1 DEF Written
<1>3. QED BY <1>2 DEF AtWork, TypeOK

LEMMA CopyType ==
  ASSUME TypeOK, StreamInv, PhaseInv, ThreadCopy
  PROVE  /\ file' \in Seq(Block) /\ file' # NoFile /\ pipe' \in Seq(Block)
         /\ Len(pipe') <= Len(stream) /\ Len(pipe) \in Nat /\ Len(pipe') = Len(pipe) - 1
<1>1. file \in Seq(Block) /\ pipe \in Seq(Block) /\ pipe # <<>> /\ stream \in Seq(Block)
  BY DEF ThreadCopy, PhaseInv, TypeOK
<1>2. Head(pipe) \in Block /\ Tail(pipe) \in Seq(Block) /\ Len(Tail(pipe)) = Len(pipe) - 1
  BY <1>1, ListFacts
<1>3. Written \in Nat /\ Len(pipe) \in Nat /\ Len(stream) \in Nat /\ Len(pipe) <= Len(stream)
  BY <1>1 DEF Written, StreamInv
<1>4. file' \in Seq(Block)
  BY <1>1, <1>2, <1>3, WriteFacts DEF ThreadCopy
<1>5. pipe' \in Seq(Block) /\ Len(pipe') = Len(pipe) - 1
  BY <1>2, Zenon DEF ThreadCopy
<1>6. QED BY <1>3, <1>4, <1>5, NoFileAssumption

LEMMA TypeStep == TypeOK /\ StreamInv /\ PhaseInv /\ [Next]_vars => TypeOK'
<1> SUFFICES ASSUME TypeOK, StreamInv, PhaseInv, [Next]_vars PROVE TypeOK'
  OBVIOUS
<1> USE DEF Pcs
<1>0. MainType /\ DataType
  BY TypeParts
<1>0a. PastType'
  <2>1. past' \subseteq {"opened", "raised"}
    BY PastStep DEF TypeOK
  <2>2. alone' \in BOOLEAN
    BY StrayStep DEF TypeOK
  <2>3. strays' \subseteq [dump : Nat, at : Nat, rest : Seq(Block)]
    BY StrayStep, StrayFacts, AtWorkType DEF TypeOK
  <2>4. QED BY <2>1, <2>2, <2>3 DEF PastType
<1>1. CASE Start
  <2>1. args' \in Args
    <3>1. PICK verify, sized \in BOOLEAN :
            args' \in {WholeDump(verify, sized)} \cup
              {[op |-> "range", off |-> r.off, len |-> r.len, verify |-> FALSE, sized |-> sized] :
                 r \in {x \in Ranges : sized => x.off + x.len <= PartSize}}
      BY <1>1 DEF Start
    <3>2. WholeDump(verify, sized) \in Args
      BY PartSizeAssumption DEF WholeDump, Args
    <3>3. \A r \in Ranges :
            [op |-> "range", off |-> r.off, len |-> r.len, verify |-> FALSE, sized |-> sized] \in Args
      BY RangeAssumption DEF Args
    <3>4. QED BY <3>1, <3>2, <3>3
  <2>2. /\ stream' = <<>> /\ pipe' = <<>> /\ snap' = <<>> /\ runs' = runs + 1
        /\ pc' = "stream" /\ ended' = FALSE /\ rc' = 0 /\ thread' = "opening" /\ calm' = TRUE
        /\ local' = NoFile /\ sizeOk' = FALSE /\ result' = "none" /\ verified' = "none"
        /\ UNCHANGED part /\ UNCHANGED file /\ UNCHANGED faults /\ UNCHANGED changes
    BY <1>1, Zenon DEF Start
  <2>3. stream' \in Seq(Block) /\ Len(stream') <= PartSize /\ pipe' \in Seq(Block)
        /\ snap' \in Seq(Block) /\ runs' \in Nat
    BY <2>2, PartSizeAssumption DEF TypeOK
  <2>4. /\ local' \in Seq(Block) \cup {NoFile} /\ thread' \in {"opening", "copying", "dead"}
        /\ pc' \in Pcs /\ rc' \in {0, 1, 124} /\ result' \in {"none", "ok", "failed", "killed"}
        /\ verified' \in {"none", "yes", "no"}
        /\ ended' \in BOOLEAN /\ calm' \in BOOLEAN /\ sizeOk' \in BOOLEAN
    BY <2>2
  <2>5. MainType'
    BY <1>0, <2>1, <2>2, <2>3, <2>4, Zenon DEF MainType
  <2>6. DataType'
    BY <1>0, <2>1, <2>2, <2>3, <2>4, Zenon DEF DataType
  <2>7. QED BY <2>5, <2>6, <1>0a, TypeParts
<1>2. CASE Exit
  <2>1. /\ pc' = "idle" /\ result' = (IF pc = "idle" THEN result ELSE "killed")
        /\ thread' = "dead" /\ ended' = TRUE
        /\ calm' = calm /\ args' = args /\ part' = part /\ stream' = stream /\ rc' = rc
        /\ pipe' = pipe /\ file' = file /\ sizeOk' = sizeOk /\ local' = local /\ snap' = snap
        /\ verified' = verified /\ runs' = runs /\ faults' = faults /\ changes' = changes
    BY <1>2, Zenon DEF Exit, ctl, hashes, bounds
  <2>2. /\ result' \in {"none", "ok", "failed", "killed"} /\ pc' \in Pcs /\ ended' \in BOOLEAN
        /\ thread' \in {"opening", "copying", "dead"}
    BY <2>1 DEF TypeOK
  <2>3. MainType'
    BY <1>0, <2>1, <2>2, Zenon DEF MainType
  <2>4. DataType'
    BY <1>0, <2>1, <2>2, Zenon DEF DataType
  <2>5. QED BY <2>3, <2>4, <1>0a, TypeParts
<1>3. CASE Main
  <2>1. CASE WaitDone \/ Timeout
    <3>1. /\ pc' = "join" /\ (ended' = ended \/ ended' = TRUE) /\ rc' \in {rc, 124}
          /\ calm' = calm /\ args' = args /\ part' = part /\ stream' = stream
          /\ pipe' = pipe /\ thread' = thread /\ file' = file /\ sizeOk' = sizeOk
          /\ local' = local /\ snap' = snap /\ result' = result /\ verified' = verified
          /\ runs' = runs /\ faults' = faults /\ changes' = changes
      BY <2>1, Zenon DEF WaitDone, Timeout, ctl, hashes, said, bounds
    <3>2. pc' \in Pcs /\ ended' \in BOOLEAN /\ rc' \in {0, 1, 124}
      BY <3>1 DEF TypeOK
    <3>3. MainType'
      BY <1>0, <3>1, <3>2, Zenon DEF MainType
    <3>4. DataType'
      BY <1>0, <3>1, <3>2, Zenon DEF DataType
    <3>5. QED BY <3>3, <3>4, <1>0a, TypeParts
  <2>2. CASE Joined \/ JoinTimeout
    BY <1>0a, <2>2 DEF TypeOK, PastType, Joined, JoinTimeout, AfterJoin, Return, Fault, ctl, hashes, said, bounds
  <2>3. CASE CheckSize
    BY <1>0a, <2>3 DEF TypeOK, PastType, CheckSize, Return, ctl, hashes, said, bounds
  <2>4. CASE CheckRange
    BY <1>0a, <2>4 DEF TypeOK, PastType, CheckRange, Return, ctl, hashes, said, bounds
  <2>5. CASE HashFile
    BY <1>0a, <2>5 DEF TypeOK, PastType, HashFile, Return, ctl, hashes, said, bounds
  <2>6. CASE HashDevice
    <3>1. part \in Seq(Block)
      BY PartSizeAssumption DEF TypeOK, Partition
    <3>2. QED BY <1>0a, <2>6, <3>1 DEF TypeOK, PastType, HashDevice, Return, ctl, hashes, said, bounds
  <2>7. CASE HashMissing
    BY <1>0a, <2>7 DEF TypeOK, PastType, HashMissing, Return, ctl, hashes, said, bounds
  <2>8. QED BY <1>3, <2>1, <2>2, <2>3, <2>4, <2>5, <2>6, <2>7 DEF Main
<1>4. CASE Thread
  <2>1. CASE ThreadOpen \/ ThreadEnd
    <3>1. /\ thread' \in {"copying", "dead"} /\ file' \in {file, <<>>}
          /\ pc' = pc /\ args' = args /\ part' = part /\ stream' = stream /\ ended' = ended
          /\ rc' = rc /\ sizeOk' = sizeOk /\ local' = local /\ snap' = snap /\ result' = result
          /\ verified' = verified /\ calm' = calm /\ pipe' = pipe
          /\ runs' = runs /\ faults' = faults /\ changes' = changes
      BY <2>1, Zenon DEF ThreadOpen, ThreadEnd, ThreadFrame, hashes, said, bounds
    <3>2. <<>> \in Seq(Block)
      OBVIOUS
    <3>3. file' \in Seq(Block) \cup {NoFile} /\ thread' \in {"opening", "copying", "dead"}
      BY <3>1, <3>2, Zenon DEF TypeOK
    <3>4. MainType'
      BY <1>0, <3>1, <3>3, Zenon DEF MainType
    <3>5. DataType'
      BY <1>0, <3>1, <3>3, Zenon DEF DataType
    <3>6. QED BY <3>4, <3>5, <1>0a, TypeParts
  <2>2. CASE ThreadError
    <3>1. /\ thread' = "dead" /\ calm' = (calm /\ thread = "copying") /\ faults' = faults + 1
          /\ pc' = pc /\ args' = args /\ part' = part /\ stream' = stream /\ ended' = ended
          /\ rc' = rc /\ sizeOk' = sizeOk /\ local' = local /\ snap' = snap /\ result' = result
          /\ verified' = verified /\ file' = file /\ pipe' = pipe
          /\ runs' = runs /\ changes' = changes
      BY <2>2, Zenon DEF ThreadError, ThreadFrame, Fault, hashes, said
    <3>2. faults' \in Nat /\ thread' \in {"opening", "copying", "dead"} /\ calm' \in BOOLEAN
      BY <3>1 DEF TypeOK
    <3>3. MainType'
      BY <1>0, <3>1, <3>2, Zenon DEF MainType
    <3>4. DataType'
      BY <1>0, <3>1, <3>2, Zenon DEF DataType
    <3>5. QED BY <3>3, <3>4, <1>0a, TypeParts
  <2>3. CASE ThreadCopy
    <3>1. file \in Seq(Block)
      BY <2>3 DEF ThreadCopy, PhaseInv, TypeOK
    <3>2. file' \in Seq(Block) /\ pipe' \in Seq(Block)
      BY <2>3, <3>1, CopyType
    <3>3. QED BY <1>0a, <2>3, <3>2 DEF TypeOK, PastType, ThreadCopy, ThreadFrame, hashes, said, bounds
  <2>4. QED BY <1>4, <2>1, <2>2, <2>3 DEF Thread
<1>5. CASE Phone
  <2>1. CASE SendEnd \/ Break
    <3>1. /\ ended' = TRUE /\ rc' \in {rc, 0, 1} /\ faults' \in {faults, faults + 1}
          /\ calm' = calm /\ pc' = pc /\ args' = args /\ part' = part /\ stream' = stream
          /\ thread' = thread /\ sizeOk' = sizeOk /\ local' = local /\ snap' = snap
          /\ result' = result /\ verified' = verified /\ file' = file /\ pipe' = pipe
          /\ runs' = runs /\ changes' = changes
      BY <2>1, Zenon DEF SendEnd, Break, PhoneFrame, Fault, hashes, said, bounds
    <3>2. faults' \in Nat /\ rc' \in {0, 1, 124} /\ ended' \in BOOLEAN
      BY <3>1 DEF TypeOK
    <3>3. MainType'
      BY <1>0, <3>1, <3>2, Zenon DEF MainType
    <3>4. DataType'
      BY <1>0, <3>1, <3>2, Zenon DEF DataType
    <3>5. QED BY <3>3, <3>4, <1>0a, TypeParts
  <2>2. CASE Change
    <3>1. /\ changes' = changes + 1 /\ calm' = FALSE
          /\ pc' = pc /\ args' = args /\ stream' = stream /\ ended' = ended /\ rc' = rc
          /\ thread' = thread /\ sizeOk' = sizeOk /\ local' = local /\ snap' = snap
          /\ result' = result /\ verified' = verified /\ file' = file /\ pipe' = pipe
          /\ runs' = runs /\ faults' = faults
      BY <2>2, Zenon DEF Change, PhoneFrame, hashes, said
    <3>2. PICK k \in 1..PartSize, b \in Block : part' = [part EXCEPT ![k] = b]
      BY <2>2, Zenon DEF Change
    <3>3. part' \in Partition
      BY <3>2, Zenon DEF TypeOK, Partition
    <3>4. changes' \in Nat
      BY <3>1 DEF TypeOK
    <3>5. calm' \in BOOLEAN
      BY <3>1, Zenon
    <3>6. /\ pc' \in Pcs /\ args' \in Args /\ stream' \in Seq(Block) /\ Len(stream') <= PartSize
          /\ ended' \in BOOLEAN /\ rc' \in {0, 1, 124} /\ pipe' \in Seq(Block)
          /\ thread' \in {"opening", "copying", "dead"} /\ file' \in Seq(Block) \cup {NoFile}
      BY <3>1, Zenon DEF TypeOK
    <3>7. /\ sizeOk' \in BOOLEAN /\ local' \in Seq(Block) \cup {NoFile} /\ snap' \in Seq(Block)
          /\ result' \in {"none", "ok", "failed", "killed"} /\ verified' \in {"none", "yes", "no"}
          /\ runs' \in Nat /\ faults' \in Nat
      BY <3>1, Zenon DEF TypeOK
    <3>8. MainType'
      BY <1>0, <3>3, <3>4, <3>5, <3>6, <3>7, Zenon DEF MainType
    <3>9. DataType'
      BY <1>0, <3>3, <3>4, <3>5, <3>6, <3>7, Zenon DEF DataType
    <3>10. QED BY <3>8, <3>9, <1>0a, TypeParts
  <2>3. CASE Send
    <3> DEFINE b == part[Sent.first + Len(stream) + 1]
    <3>1. /\ Sent.first \in Nat /\ Sent.last \in Nat /\ Sent.last <= PartSize
      BY SentFacts DEF TypeOK
    <3>2. Len(stream) \in Nat /\ Sent.first + Len(stream) < Sent.last /\ PartSize \in Nat
      BY <2>3, PartSizeAssumption DEF Send, Left, TypeOK
    <3>3. Sent.first + Len(stream) + 1 \in 1..PartSize
      BY <3>1, <3>2
    <3>4. b \in Block
      BY <3>3 DEF TypeOK, Partition
    <3> HIDE DEF b
    <3>5. /\ stream' = Append(stream, b) /\ pipe' = Append(pipe, b)
          /\ UNCHANGED <<pc, args, thread, file, sizeOk, hashes, said, calm, part, ended, rc, bounds>>
      BY <2>3, Zenon DEF Send, PhoneFrame, b
    <3>6. stream' \in Seq(Block) /\ pipe' \in Seq(Block) /\ Len(stream') <= PartSize
      BY <3>1, <3>2, <3>4, <3>5, AppendFacts DEF TypeOK
    <3>7. QED BY <1>0a, <3>5, <3>6 DEF TypeOK, PastType, hashes, said, bounds
  <2>4. QED BY <1>5, <2>1, <2>2, <2>3 DEF Phone
<1>6. CASE UNCHANGED vars
  BY <1>0a, <1>6 DEF TypeOK, PastType, vars, ctl, hashes, said, bounds
<1>7. CASE \E t \in strays : StrayCopy(t)
  <2>1. PICK t \in strays : StrayCopy(t)
    BY <1>7
  <2>2. MainType'
    BY <1>0, <2>1, StrayFacts, Zenon DEF MainType
  <2>3. DataType'
    BY <1>0, <2>1, StrayFacts, Zenon DEF DataType
  <2>4. QED BY <2>2, <2>3, <1>0a, TypeParts
<1>8. QED BY <1>1, <1>2, <1>3, <1>4, <1>5, <1>6, <1>7 DEF Next
-----------------------------------------------------------------------------
(* What each kind of step leaves alone. *)

StreamSame == /\ args' = args /\ part' = part /\ stream' = stream /\ pipe' = pipe
              /\ thread' = thread /\ file' = file /\ calm' = calm
              /\ alone' = alone /\ strays' = strays

LEMMA MainFrame == TypeOK /\ PhaseInv /\ Main =>
                     /\ StreamSame /\ pc # "idle" /\ result = "none"
                     /\ result' \in {"none", "ok", "failed"}
<1> SUFFICES ASSUME TypeOK, PhaseInv, Main
             PROVE  /\ StreamSame /\ pc # "idle" /\ result = "none"
                    /\ result' \in {"none", "ok", "failed"}
  OBVIOUS
<1>1. pc # "idle"
  BY DEF Main, WaitDone, Timeout, Joined, JoinTimeout, CheckSize, CheckRange, HashFile,
         HashDevice, HashMissing
<1>2. result = "none"
  BY <1>1 DEF PhaseInv
<1>3. StreamSame
  BY Zenon DEF Main, WaitDone, Timeout, Joined, JoinTimeout, AfterJoin, CheckSize, CheckRange,
         HashFile, HashDevice, HashMissing, StreamSame, ctl
<1>4. CASE WaitDone \/ Timeout \/ HashFile
  BY <1>1, <1>2, <1>3, <1>4 DEF WaitDone, Timeout, HashFile, said
<1>5. CASE Joined \/ JoinTimeout
  BY <1>1, <1>2, <1>3, <1>5 DEF Joined, JoinTimeout, AfterJoin, Return, said
<1>6. CASE CheckSize \/ CheckRange
  BY <1>1, <1>2, <1>3, <1>6 DEF CheckSize, CheckRange, Return, said
<1>7. CASE HashDevice \/ HashMissing
  BY <1>1, <1>2, <1>3, <1>7 DEF HashDevice, HashMissing, Return
<1>8. QED BY <1>4, <1>5, <1>6, <1>7 DEF Main

\* The invariant of the stream, if only the main thread moved.
LEMMA StreamFrame ==
  ASSUME StreamInv, StreamSame, Opened' => Opened
  PROVE  StreamInv'
<1>1. Sent' = Sent
  BY Zenon DEF StreamSame, Sent, FirstByte
<1>2. Conserved' <=> Conserved
  BY Zenon DEF StreamSame, Conserved
<1>3. /\ stream' = stream /\ part' = part /\ pipe' = pipe /\ calm' = calm /\ thread' = thread
  BY Zenon DEF StreamSame
<1>4. Len(stream') = 0 \/ Sent'.first + Len(stream') <= Sent'.last
  BY <1>1, <1>3 DEF StreamInv
<1>5. calm' => \A k \in 1..Len(stream') : stream'[k] = part'[Sent'.first + k]
  BY <1>1, <1>3, Zenon DEF StreamInv
<1>6. /\ thread' = "opening" => pipe' = stream'
      /\ Len(pipe') <= Len(stream')
      /\ Opened' => Conserved'
  BY <1>2, <1>3, Zenon DEF StreamInv
<1>7. QED BY <1>4, <1>5, <1>6, Zenon DEF StreamInv

LEMMA MainStream == TypeOK /\ StreamInv /\ PhaseInv /\ Main => StreamInv'
<1> SUFFICES ASSUME TypeOK, StreamInv, PhaseInv, Main PROVE StreamInv'
  OBVIOUS
<1>1. StreamSame /\ result = "none"
  BY MainFrame
<1>2. Opened' => Opened
  BY <1>1 DEF Opened, StreamSame
<1>3. QED BY <1>1, <1>2, StreamFrame

LEMMA MainPhase == TypeOK /\ PhaseInv /\ Main => PhaseInv'
<1> SUFFICES ASSUME TypeOK, PhaseInv, Main PROVE PhaseInv'
  OBVIOUS
<1>1. /\ StreamSame /\ pc # "idle" /\ result = "none"
  BY MainFrame
<1>2. CASE WaitDone \/ Timeout
  BY <1>1, <1>2 DEF WaitDone, Timeout, PhaseInv, StreamSame, said
<1>3. CASE Joined \/ JoinTimeout
  BY <1>1, <1>3 DEF Joined, JoinTimeout, AfterJoin, Return, PhaseInv, StreamSame, said
<1>4. CASE CheckSize \/ CheckRange
  BY <1>1, <1>4 DEF CheckSize, CheckRange, Return, PhaseInv, StreamSame, said
<1>5. CASE HashFile
  BY <1>1, <1>5 DEF HashFile, PhaseInv, StreamSame, said
<1>6. CASE HashDevice \/ HashMissing
  BY <1>1, <1>6 DEF HashDevice, HashMissing, Return, PhaseInv, StreamSame
<1>7. QED BY <1>2, <1>3, <1>4, <1>5, <1>6 DEF Main

LEMMA MainSize == TypeOK /\ PhaseInv /\ SizeInv /\ Main => SizeInv'
<1> SUFFICES ASSUME TypeOK, PhaseInv, SizeInv, Main PROVE SizeInv'
  OBVIOUS
<1>1. /\ StreamSame /\ pc # "idle" /\ result = "none"
  BY MainFrame
<1>2. CASE WaitDone \/ Timeout \/ Joined \/ JoinTimeout
  BY <1>1, <1>2 DEF WaitDone, Timeout, Joined, JoinTimeout, AfterJoin, Return, SizeInv, Done, said
<1>3. CASE CheckSize
  <2>1. CASE file = NoFile
    BY <1>3, <2>1 DEF CheckSize, Return, SizeInv, Done
  <2>2. CASE file # NoFile
    <3>1. sizeOk' = (args.sized => Len(file) = PartSize) /\ args' = args /\ file' = file
          /\ args.op = "dump"
      BY <1>1, <1>3, <2>2, Zenon DEF CheckSize, StreamSame
    <3>2. args.sized /\ sizeOk' => Len(file) = PartSize
      BY <3>1, Zenon
    <3>3. QED BY <2>2, <3>1, <3>2 DEF SizeInv, Done
  <2>3. QED BY <2>1, <2>2
<1>4. CASE CheckRange
  BY <1>1, <1>4 DEF CheckRange, Return, SizeInv, Done, StreamSame
<1>5. CASE HashFile
  BY <1>1, <1>5 DEF HashFile, SizeInv, Done, StreamSame
<1>6. CASE HashDevice \/ HashMissing
  <2>1. /\ pc = "devhash" /\ args' = args /\ file' = file /\ sizeOk' = sizeOk
    BY <1>1, <1>6, Zenon DEF HashDevice, HashMissing, StreamSame
  <2>2. args.op = "dump" /\ alone' = alone
    BY <1>1, <2>1 DEF PhaseInv, StreamSame
  <2>3. QED BY <2>1, <2>2 DEF SizeInv
<1>7. QED BY <1>2, <1>3, <1>4, <1>5, <1>6 DEF Main

LEMMA MainHash == TypeOK /\ PhaseInv /\ HashInv /\ Main => HashInv'
<1> SUFFICES ASSUME TypeOK, PhaseInv, HashInv, Main PROVE HashInv'
  OBVIOUS
<1>1. /\ StreamSame /\ pc # "idle" /\ result = "none"
  BY MainFrame
<1>2. CASE WaitDone \/ Timeout \/ Joined \/ JoinTimeout
  BY <1>1, <1>2 DEF WaitDone, Timeout, Joined, JoinTimeout, AfterJoin, Return, HashInv, Done, said
<1>3. CASE CheckSize \/ CheckRange
  BY <1>1, <1>3 DEF CheckSize, CheckRange, Return, HashInv, Done, said
<1>4. CASE HashFile
  <2>1. /\ local' = file /\ file' = file /\ pc' = "devhash" /\ pc = "hash"
    BY <1>1, <1>4, Zenon DEF HashFile, StreamSame
  <2>2. file # NoFile /\ file \in Seq(Block)
    BY <2>1 DEF PhaseInv, TypeOK
  <2>3. QED BY <2>1, <2>2 DEF HashInv, Done
<1>5. CASE HashMissing
  BY <1>5 DEF HashMissing, Return, HashInv, Done
<1>6. CASE HashDevice
  <2> SUFFICES ASSUME alone PROVE HashInv'
    BY <1>1 DEF HashInv, StreamSame
  <2>1. /\ pc = "devhash" /\ snap' = part /\ file' = file /\ pc' = "idle"
        /\ verified' = "yes" => local = part
    BY <1>1, <1>6 DEF HashDevice, Return, StreamSame
  <2>2. /\ local # NoFile /\ file # NoFile /\ Len(local) <= Len(file)
        /\ \A k \in 1..Len(local) : file[k] = local[k]
        /\ file = local \/ Len(file) <= PartSize
    BY <2>1 DEF HashInv
  <2>3. file \in Seq(Block) /\ part \in [1..PartSize -> Block] /\ PartSize \in Nat
    BY <2>2, PartSizeAssumption DEF TypeOK, Partition
  <2>4. ASSUME local = part PROVE file = part /\ Len(file) = PartSize
    <3>1. part \in Seq(Block) /\ Len(part) = PartSize
      BY <2>3
    <3>2. Len(file) = PartSize
      BY <2>2, <2>3, <2>4, <3>1
    <3>3. \A k \in 1..PartSize : file[k] = part[k]
      BY <2>2, <2>4, <3>1
    <3>4. QED BY <2>3, <3>1, <3>2, <3>3
  <2>5. QED BY <2>1, <2>4 DEF HashInv, Done
<1>7. QED BY <1>2, <1>3, <1>4, <1>5, <1>6 DEF Main
-----------------------------------------------------------------------------
(* The pump thread. *)

\* The main thread and the phone's record do not move.
LEMMA ThreadFrames ==
  Thread => /\ pc' = pc /\ args' = args /\ part' = part /\ stream' = stream /\ sizeOk' = sizeOk
            /\ local' = local /\ snap' = snap /\ result' = result /\ verified' = verified
            /\ calm' \in {calm, calm /\ thread = "copying"}
            /\ strays' = strays /\ alone' = alone
BY Zenon DEF Thread, ThreadOpen, ThreadCopy, ThreadEnd, ThreadError, ThreadFrame, hashes, said

LEMMA CopyFacts ==
  ASSUME TypeOK, StreamInv, PhaseInv, ThreadCopy, alone
  PROVE  /\ file \in Seq(Block) /\ Len(file) < PartSize /\ Len(file) < args.len
         /\ file' \in Seq(Block) /\ Len(file') = Len(file) + 1 /\ Len(file') <= PartSize
         /\ \A k \in 1..Len(file) : file'[k] = file[k]
         /\ Conserved'
<1>1a. /\ thread = "copying" /\ pipe # <<>> /\ stream' = stream
       /\ file' = WriteAt(file, Written, Head(pipe)) /\ pipe' = Tail(pipe)
  BY Zenon DEF ThreadCopy, ThreadFrame
<1>2. Conserved
  BY <1>1a DEF StreamInv, Opened
<1>3. file \in Seq(Block) /\ pipe \in Seq(Block) /\ stream \in Seq(Block) /\ args \in Args
  BY <1>2 DEF TypeOK, Conserved
<1>1. /\ thread = "copying" /\ pipe # <<>> /\ stream' = stream
      /\ file' = Append(file, Head(pipe)) /\ pipe' = Tail(pipe)
  <2>1. Written = Len(file) /\ Written \in Nat
    BY <1>2, <1>3 DEF Written, Conserved
  <2>2. Head(pipe) \in Block
    BY <1>1a, <1>3, ListFacts
  <2>3. QED BY <1>1a, <1>3, <2>1, <2>2, WriteFacts
<1>4. /\ Head(pipe) \in Block /\ Head(pipe) = pipe[1] /\ Len(pipe) \in Nat \ {0}
      /\ Tail(pipe) \in Seq(Block) /\ Len(Tail(pipe)) = Len(pipe) - 1
      /\ \A i \in 1..Len(Tail(pipe)) : Tail(pipe)[i] = pipe[i + 1]
  BY <1>1, <1>3, ListFacts
<1>5. Len(file) + Len(pipe) = Len(stream) /\ Len(file) \in Nat
  BY <1>2, <1>3 DEF Conserved
<1>6. Len(stream) \in Nat /\ Len(stream) <= PartSize /\ Len(stream) <= args.len
  BY <1>3, StreamBound
<1>7. PartSize \in Nat /\ args.len \in Nat
  BY <1>3, PartSizeAssumption DEF Args
<1>8. Len(file) < PartSize /\ Len(file) < args.len
  BY <1>4, <1>5, <1>6, <1>7
<1>9. /\ file' \in Seq(Block) /\ Len(file') = Len(file) + 1
      /\ file'[Len(file) + 1] = Head(pipe)
      /\ \A k \in 1..Len(file) : file'[k] = file[k]
  BY <1>1, <1>3, <1>4, AppendFacts
<1>10. Conserved'
  <2>1. file' # NoFile
    BY <1>9, NoFileAssumption
  <2>2. Len(file') + Len(pipe') = Len(stream')
    BY <1>1, <1>4, <1>5, <1>9
  <2>3. Head(pipe) = stream[Len(file) + 1]
    BY <1>2, <1>4, <1>5 DEF Conserved
  <2>4. \A k \in 1..Len(file') : file'[k] = stream'[k]
    <3>1. \A k \in 1..Len(file) : file[k] = stream[k]
      BY <1>2 DEF Conserved
    <3>2. \A k \in 1..Len(file') : k \in 1..Len(file) \/ k = Len(file) + 1
      BY <1>5, <1>9
    <3>3. QED BY <1>1, <1>9, <2>3, <3>1, <3>2
  <2>5. \A k \in 1..Len(pipe') : pipe'[k] = stream'[Len(file') + k]
    <3>1. \A k \in 1..Len(pipe) : pipe[k] = stream[Len(file) + k]
      BY <1>2 DEF Conserved
    <3>2. SUFFICES ASSUME NEW k \in 1..Len(pipe') PROVE pipe'[k] = stream[Len(file') + k]
      BY <1>1
    <3>3. k + 1 \in 1..Len(pipe) /\ Len(file) + (k + 1) = Len(file') + k
      BY <1>1, <1>4, <1>5, <1>9, <3>2
    <3>4. QED BY <1>1, <1>4, <3>1, <3>2, <3>3
  <2>6. QED BY <2>1, <2>2, <2>4, <2>5 DEF Conserved
<1>11. QED BY <1>3, <1>5, <1>7, <1>8, <1>9, <1>10

LEMMA ThreadStream == TypeOK /\ StreamInv /\ PhaseInv /\ Thread => StreamInv'
<1> SUFFICES ASSUME TypeOK, StreamInv, PhaseInv, Thread PROVE StreamInv'
  OBVIOUS
<1>1. /\ args' = args /\ part' = part /\ stream' = stream /\ result' = result
      /\ calm' => calm
  BY ThreadFrames
<1>2. Sent' = Sent
  BY <1>1, Zenon DEF Sent, FirstByte
<1>3. Len(stream') = 0 \/ Sent'.first + Len(stream') <= Sent'.last
  BY <1>1, <1>2 DEF StreamInv
<1>4. calm' => \A k \in 1..Len(stream') : stream'[k] = part'[Sent'.first + k]
  BY <1>1, <1>2, Zenon DEF StreamInv
<1>4a. alone' = alone
  BY ThreadFrames
<1>4b. Len(pipe') <= Len(stream')
  <2>1. CASE ThreadCopy
    BY <1>1, <2>1, CopyType
  <2>2. CASE ThreadOpen \/ ThreadEnd \/ ThreadError
    <3>1. pipe' = pipe
      BY <2>2, Zenon DEF ThreadOpen, ThreadEnd, ThreadError
    <3>2. QED BY <1>1, <3>1 DEF StreamInv
  <2>3. QED BY <2>1, <2>2 DEF Thread
<1>5. thread' # "opening" /\ (Opened' => Conserved')
  <2>1. CASE ThreadOpen
    <3>1. /\ thread = "opening" /\ thread' = "copying" /\ file' = <<>> /\ pipe' = pipe
      BY <2>1, Zenon DEF ThreadOpen
    <3>2. pipe = stream
      BY <3>1 DEF StreamInv
    <3>3. /\ file' # NoFile /\ Len(file') = 0 /\ Len(pipe') \in Nat
      <4>1. <<>> \in Seq(Block) /\ Len(<<>>) = 0
        OBVIOUS
      <4>2. pipe' \in Seq(Block)
        BY <3>1 DEF TypeOK
      <4>3. <<>> # NoFile
        BY <4>1, NoFileAssumption, Zenon
      <4>4. Len(pipe') \in Nat
        BY <4>2
      <4>5. QED BY <3>1, <4>1, <4>3, <4>4, Zenon
    <3>4. Conserved'
      BY <1>1, <3>1, <3>2, <3>3 DEF Conserved
    <3>5. QED BY <3>1, <3>4
  <2>2. CASE ThreadCopy
    BY <1>4a, <2>2, CopyFacts DEF ThreadCopy, Opened
  <2>3. CASE ThreadEnd
    <3>1. /\ thread = "copying" /\ thread' = "dead" /\ file' = file /\ pipe' = pipe
      BY <2>3, Zenon DEF ThreadEnd
    <3>2. Opened' => Conserved
      BY <1>4a, <3>1 DEF StreamInv, Opened
    <3>3. Conserved' <=> Conserved
      BY <1>1, <3>1, Zenon DEF Conserved
    <3>4. QED BY <3>1, <3>2, <3>3
  <2>4. CASE ThreadError
    <3>1. /\ thread' = "dead" /\ file' = file /\ pipe' = pipe
          /\ calm' = (calm /\ thread = "copying")
      BY <2>4, Zenon DEF ThreadError
    <3>2. Opened' => thread = "copying"
      BY <3>1 DEF Opened
    <3>3. Opened' => Conserved
      BY <1>4a, <3>2 DEF StreamInv, Opened
    <3>4. Conserved' <=> Conserved
      BY <1>1, <3>1, Zenon DEF Conserved
    <3>5. QED BY <3>1, <3>3, <3>4
  <2>5. QED BY <2>1, <2>2, <2>3, <2>4 DEF Thread
<1>6. QED BY <1>3, <1>4, <1>4b, <1>5, Zenon DEF StreamInv

LEMMA ThreadRest ==
  TypeOK /\ StreamInv /\ PhaseInv /\ SizeInv /\ HashInv /\ Thread => PhaseInv' /\ SizeInv' /\ HashInv'
<1> SUFFICES ASSUME TypeOK, StreamInv, PhaseInv, SizeInv, HashInv, Thread
             PROVE  PhaseInv' /\ SizeInv' /\ HashInv'
  OBVIOUS
<1>1. /\ pc' = pc /\ args' = args /\ sizeOk' = sizeOk /\ local' = local /\ snap' = snap
      /\ result' = result /\ verified' = verified /\ strays' = strays /\ alone' = alone
  BY ThreadFrames
<1>2. CASE ThreadOpen
  <2>1. /\ thread = "opening" /\ thread' = "copying" /\ file' = <<>> /\ file' # NoFile
    <3>1. <<>> \in Seq(Block)
      OBVIOUS
    <3>2. QED BY <1>2, <3>1, NoFileAssumption DEF ThreadOpen
  <2>2. pc \notin {"idle", "size", "hash", "devhash"}
    BY <2>1 DEF PhaseInv
  <2>3. PhaseInv'
    BY <1>1, <2>1, <2>2 DEF PhaseInv
  <2>4. SizeInv' /\ HashInv'
    BY <1>1, <2>2 DEF SizeInv, HashInv, Done
  <2>5. QED BY <2>3, <2>4
<1>3. CASE ThreadCopy
  <2>1. PhaseInv'
    <3>1. file' # NoFile /\ thread = "copying" /\ thread' = "copying"
      BY <1>3, CopyType DEF ThreadCopy
    <3>2. QED BY <1>1, <3>1 DEF PhaseInv
  <2>2. SUFFICES ASSUME alone PROVE SizeInv' /\ HashInv'
    BY <1>1, <2>1 DEF SizeInv, HashInv
  <2>3. /\ file \in Seq(Block) /\ Len(file) < PartSize /\ Len(file) < args.len
        /\ file' \in Seq(Block) /\ Len(file') = Len(file) + 1 /\ Len(file') <= PartSize
        /\ \A k \in 1..Len(file) : file'[k] = file[k]
    BY <1>3, <2>2, CopyFacts
  <2>4. file' # NoFile
    BY <2>3, NoFileAssumption
  <2>5. PartSize \in Nat /\ args.len \in Nat /\ Len(file) \in Nat
    BY <2>3, PartSizeAssumption DEF TypeOK, Args
  <2>6. Len(file) # PartSize /\ Len(file) # args.len
    BY <2>3, <2>5
  <2>7. SizeInv'
    BY <1>1, <2>2, <2>6 DEF SizeInv, Done
  <2>8. ~(Done /\ result = "ok" /\ verified = "yes")
    BY <2>2, <2>6 DEF HashInv
  <2>9. ASSUME pc = "devhash"
        PROVE  /\ local # NoFile /\ Len(local) <= Len(file')
               /\ \A k \in 1..Len(local) : file'[k] = local[k]
    <3>1. /\ local # NoFile /\ Len(local) <= Len(file)
          /\ \A k \in 1..Len(local) : file[k] = local[k]
      BY <2>2, <2>9 DEF HashInv
    <3>2. local \in Seq(Block)
      BY <3>1 DEF TypeOK
    <3>3. Len(local) \in Nat
      BY <3>2
    <3>4. QED BY <2>3, <2>5, <3>1, <3>3
  <2>10. HashInv'
    BY <1>1, <2>3, <2>4, <2>8, <2>9 DEF HashInv, Done
  <2>11. QED BY <2>7, <2>10
<1>4. CASE ThreadEnd \/ ThreadError
  <2>1. thread' = "dead" /\ file' = file
    BY <1>4, Zenon DEF ThreadEnd, ThreadError
  <2>2. PhaseInv'
    BY <1>1, <2>1 DEF PhaseInv
  <2>3. SizeInv' /\ HashInv'
    BY <1>1, <2>1, Zenon DEF SizeInv, HashInv, Done
  <2>4. QED BY <2>2, <2>3
<1>5. QED BY <1>2, <1>3, <1>4 DEF Thread
-----------------------------------------------------------------------------
(* The phone, the start of a dump and the end of the process. *)

LEMMA PhoneFrames ==
  Phone => /\ pc' = pc /\ args' = args /\ thread' = thread /\ file' = file /\ sizeOk' = sizeOk
           /\ local' = local /\ snap' = snap /\ result' = result /\ verified' = verified
           /\ calm' \in {calm, FALSE} /\ strays' = strays /\ alone' = alone
BY Zenon DEF Phone, Send, SendEnd, Break, Change, PhoneFrame, hashes, said

LEMMA SendFacts ==
  ASSUME TypeOK, StreamInv, PhaseInv, Send
  PROVE  StreamInv'
<1> DEFINE b == part[Sent.first + Len(stream) + 1]
<1>1. /\ Sent.first \in Nat /\ Sent.last \in Nat /\ Sent.last <= PartSize
  BY SentFacts DEF TypeOK
<1>2. Len(stream) \in Nat /\ Sent.first + Len(stream) < Sent.last /\ PartSize \in Nat
  BY PartSizeAssumption DEF Send, Left, TypeOK
<1>3. Sent.first + Len(stream) + 1 \in 1..PartSize
  BY <1>1, <1>2
<1>4. b \in Block
  BY <1>3 DEF TypeOK, Partition
<1>5. b = part[Sent.first + (Len(stream) + 1)]
  <2>1. Sent.first + Len(stream) + 1 = Sent.first + (Len(stream) + 1)
    BY <1>1, <1>2
  <2>2. QED BY <2>1
<1> HIDE DEF b
<1>6. /\ stream' = Append(stream, b) /\ pipe' = Append(pipe, b)
      /\ args' = args /\ part' = part /\ thread' = thread /\ file' = file /\ calm' = calm
      /\ result' = result /\ alone' = alone
  BY Zenon DEF Send, PhoneFrame, said, b
<1>7. /\ Len(stream') = Len(stream) + 1 /\ stream'[Len(stream) + 1] = b
      /\ \A k \in 1..Len(stream) : stream'[k] = stream[k]
      /\ Len(pipe') = Len(pipe) + 1 /\ pipe'[Len(pipe) + 1] = b
      /\ \A k \in 1..Len(pipe) : pipe'[k] = pipe[k]
      /\ Len(pipe) \in Nat
  BY <1>4, <1>6, AppendFacts DEF TypeOK
<1>8. Sent' = Sent
  BY <1>6, Zenon DEF Sent, FirstByte
<1>9. Sent'.first + Len(stream') <= Sent'.last
  BY <1>1, <1>2, <1>7, <1>8
<1>10. ASSUME calm' PROVE \A k \in 1..Len(stream') : stream'[k] = part'[Sent'.first + k]
  <2>1. \A k \in 1..Len(stream) : stream[k] = part[Sent.first + k]
    BY <1>6, <1>10, Zenon DEF StreamInv
  <2>2. \A k \in 1..Len(stream') : k \in 1..Len(stream) \/ k = Len(stream) + 1
    BY <1>2, <1>7
  <2>3. SUFFICES ASSUME NEW k \in 1..Len(stream') PROVE stream'[k] = part[Sent.first + k]
    BY <1>6, <1>8
  <2>4. CASE k \in 1..Len(stream)
    BY <1>7, <2>1, <2>4
  <2>5. CASE k = Len(stream) + 1
    BY <1>5, <1>7, <2>5
  <2>6. QED BY <2>2, <2>4, <2>5
<1>11. thread' = "opening" => pipe' = stream'
  BY <1>6 DEF StreamInv
<1>12. ASSUME Opened' PROVE Conserved'
  <2>1. Opened
    BY <1>6, <1>12, Zenon DEF Opened
  <2>2. Conserved
    BY <2>1 DEF StreamInv
  <2>3. file \in Seq(Block) /\ Len(file) + Len(pipe) = Len(stream)
    BY <2>2 DEF Conserved, TypeOK
  <2>4. Len(file) \in Nat
    BY <2>3
  <2>5. Len(file) + Len(pipe') = Len(stream')
    BY <1>7, <2>3, <2>4
  <2>6. \A k \in 1..Len(file) : file[k] = stream'[k]
    <3>1. \A k \in 1..Len(file) : k \in 1..Len(stream)
      BY <1>2, <1>7, <2>3, <2>4
    <3>2. QED BY <1>7, <2>2, <3>1 DEF Conserved
  <2>7. \A k \in 1..Len(pipe') : pipe'[k] = stream'[Len(file) + k]
    <3>1. SUFFICES ASSUME NEW k \in 1..Len(pipe') PROVE pipe'[k] = stream'[Len(file) + k]
      OBVIOUS
    <3>2. CASE k = Len(pipe) + 1
      <4>1. Len(file) + k = Len(stream) + 1
        BY <1>7, <2>3, <2>4, <3>2
      <4>2. QED BY <1>7, <3>2, <4>1
    <3>3. CASE k \in 1..Len(pipe)
      <4>1. Len(file) + k \in 1..Len(stream)
        BY <1>7, <2>3, <2>4, <3>3
      <4>2. pipe[k] = stream[Len(file) + k]
        BY <2>2, <3>3 DEF Conserved
      <4>3. QED BY <1>7, <3>3, <4>1, <4>2
    <3>4. k = Len(pipe) + 1 \/ k \in 1..Len(pipe)
      BY <1>7, <3>1
    <3>5. QED BY <3>2, <3>3, <3>4
  <2>8. file # NoFile
    BY <2>2 DEF Conserved
  <2>9. QED BY <1>6, <2>5, <2>6, <2>7, <2>8 DEF Conserved
<1>13. Len(pipe') <= Len(stream')
  BY <1>2, <1>7 DEF StreamInv
<1>14. QED BY <1>9, <1>10, <1>11, <1>12, <1>13, Zenon DEF StreamInv

LEMMA PhoneStream == TypeOK /\ StreamInv /\ PhaseInv /\ Phone => StreamInv'
<1> SUFFICES ASSUME TypeOK, StreamInv, PhaseInv, Phone PROVE StreamInv'
  OBVIOUS
<1>1. CASE Send
  BY <1>1, SendFacts
<1>2. CASE SendEnd \/ Break
  <2>1. StreamSame /\ result' = result
    BY <1>2, Zenon DEF SendEnd, Break, PhoneFrame, StreamSame, said
  <2>2. Opened' => Opened
    BY <2>1, Zenon DEF Opened, StreamSame
  <2>3. QED BY <2>1, <2>2, StreamFrame
<1>3. CASE Change
  <2>1. /\ args' = args /\ stream' = stream /\ pipe' = pipe /\ thread' = thread /\ file' = file
        /\ calm' = FALSE /\ alone' = alone
    BY <1>3, Zenon DEF Change, PhoneFrame
  <2>2. Sent' = Sent
    BY <2>1, Zenon DEF Sent, FirstByte
  <2>3. Conserved' <=> Conserved
    BY <2>1, Zenon DEF Conserved
  <2>4. Opened' => Opened
    BY <2>1, Zenon DEF Opened
  <2>5. Len(stream') = 0 \/ Sent'.first + Len(stream') <= Sent'.last
    BY <2>1, <2>2 DEF StreamInv
  <2>6. QED BY <2>1, <2>3, <2>4, <2>5, Zenon DEF StreamInv
<1>4. QED BY <1>1, <1>2, <1>3 DEF Phone

LEMMA StartStep == TypeOK /\ PhaseInv /\ Start => StreamInv' /\ PhaseInv' /\ SizeInv' /\ HashInv'
<1> SUFFICES ASSUME TypeOK, PhaseInv, Start PROVE StreamInv' /\ PhaseInv' /\ SizeInv' /\ HashInv'
  OBVIOUS
<1>1. /\ stream' = <<>> /\ pipe' = <<>> /\ pc' = "stream" /\ thread' = "opening"
      /\ result' = "none" /\ verified' = "none"
  BY Zenon DEF Start
<1>2. args'.op = "dump" => args'.off = 0 /\ args'.len = PartSize
  <2>1. PICK verify, sized \in BOOLEAN :
          args' \in {WholeDump(verify, sized)} \cup
            {[op |-> "range", off |-> r.off, len |-> r.len, verify |-> FALSE, sized |-> sized] :
               r \in {x \in Ranges : sized => x.off + x.len <= PartSize}}
    BY DEF Start
  <2>2. QED BY <2>1 DEF WholeDump
<1>3. StreamInv'
  BY <1>1 DEF StreamInv, Opened
<1>4. PhaseInv'
  <2>1. /\ strays' = AtWork /\ alone' = (AtWork = {}) /\ file' = file
    BY Zenon DEF Start
  <2>2. AtWork # {} => file # NoFile
    BY DEF AtWork, PhaseInv
  <2>3. QED BY <1>1, <1>2, <2>1, <2>2 DEF PhaseInv
<1>5. SizeInv' /\ HashInv'
  BY <1>1 DEF SizeInv, HashInv, Done
<1>6. QED BY <1>3, <1>4, <1>5

LEMMA ExitStep ==
  TypeOK /\ StreamInv /\ PhaseInv /\ SizeInv /\ HashInv /\ Exit
     => StreamInv' /\ PhaseInv' /\ SizeInv' /\ HashInv'
<1> SUFFICES ASSUME TypeOK, StreamInv, PhaseInv, SizeInv, HashInv, Exit
             PROVE  StreamInv' /\ PhaseInv' /\ SizeInv' /\ HashInv'
  OBVIOUS
<1>1. /\ pc' = "idle" /\ thread' = "dead" /\ args' = args /\ calm' = calm /\ part' = part
      /\ stream' = stream /\ pipe' = pipe /\ file' = file /\ sizeOk' = sizeOk
      /\ local' = local /\ snap' = snap /\ verified' = verified
      /\ result' = (IF pc = "idle" THEN result ELSE "killed")
      /\ strays' = {} /\ alone' = alone
  BY Zenon DEF Exit, hashes
<1>2. Opened' => Opened
  <2>1. CASE pc = "idle"
    <3>1. thread \in {"copying", "dead"}
      BY <2>1 DEF PhaseInv, TypeOK
    <3>2. result' = result
      BY <1>1, <2>1
    <3>3. QED BY <1>1, <3>1, <3>2, Zenon DEF Opened
  <2>2. CASE pc # "idle"
    BY <1>1, <2>2 DEF Opened
  <2>3. QED BY <2>1, <2>2
<1>3. Sent' = Sent /\ (Conserved' <=> Conserved)
  BY <1>1, Zenon DEF Sent, FirstByte, Conserved
<1>4. Len(stream') = 0 \/ Sent'.first + Len(stream') <= Sent'.last
  BY <1>1, <1>3 DEF StreamInv
<1>5. /\ calm' => \A k \in 1..Len(stream') : stream'[k] = part'[Sent'.first + k]
      /\ thread' = "opening" => pipe' = stream'
      /\ Len(pipe') <= Len(stream')
  BY <1>1, <1>3, Zenon DEF StreamInv
<1>6. StreamInv'
  BY <1>2, <1>3, <1>4, <1>5, Zenon DEF StreamInv
<1>7. PhaseInv'
  BY <1>1 DEF PhaseInv
<1>8. SizeInv'
  BY <1>1 DEF SizeInv, Done
<1>9. HashInv'
  BY <1>1 DEF HashInv, Done
<1>10. QED BY <1>6, <1>7, <1>8, <1>9
-----------------------------------------------------------------------------
(* The invariant and what follows from it. *)

LEMMA InvInit == Init => IInv
<1> SUFFICES ASSUME Init PROVE IInv
  OBVIOUS
<1>1. TypeOK
  BY TypeInit
<1>2. /\ pc = "idle" /\ stream = <<>> /\ pipe = <<>> /\ thread = "dead" /\ calm = FALSE
      /\ result = "none" /\ verified = "none" /\ args = WholeDump(TRUE, TRUE)
  BY DEF Init
<1>2a. strays = {} /\ alone = FALSE
  BY DEF Init
<1>3. StreamInv
  BY <1>2, <1>2a DEF StreamInv, Opened
<1>4. PhaseInv
  BY <1>2, <1>2a DEF PhaseInv, WholeDump
<1>5. SizeInv /\ HashInv
  BY <1>2 DEF SizeInv, HashInv, Done
<1>6. QED BY <1>1, <1>3, <1>4, <1>5 DEF IInv

LEMMA InvStep == IInv /\ [Next]_vars => IInv'
<1> SUFFICES ASSUME IInv, [Next]_vars PROVE IInv'
  OBVIOUS
<1>1. TypeOK /\ StreamInv /\ PhaseInv /\ SizeInv /\ HashInv
  BY DEF IInv
<1>2. TypeOK'
  BY <1>1, TypeStep
<1>3. CASE Start
  BY <1>1, <1>2, <1>3, StartStep DEF IInv
<1>4. CASE Exit
  BY <1>1, <1>2, <1>4, ExitStep DEF IInv
<1>5. CASE Main
  BY <1>1, <1>2, <1>5, MainStream, MainPhase, MainSize, MainHash DEF IInv
<1>6. CASE Thread
  BY <1>1, <1>2, <1>6, ThreadStream, ThreadRest DEF IInv
<1>7. CASE Phone
  <2>1. StreamInv'
    BY <1>1, <1>7, PhoneStream
  <2>2. /\ pc' = pc /\ args' = args /\ thread' = thread /\ file' = file /\ sizeOk' = sizeOk
        /\ local' = local /\ snap' = snap /\ result' = result /\ verified' = verified
        /\ strays' = strays /\ alone' = alone
    BY <1>7, PhoneFrames
  <2>3. PhaseInv' /\ SizeInv' /\ HashInv'
    BY <1>1, <2>2, Zenon DEF PhaseInv, SizeInv, HashInv, Done
  <2>4. QED BY <1>2, <2>1, <2>3 DEF IInv
<1>8. CASE UNCHANGED vars
  <2>1. /\ StreamSame /\ pc' = pc /\ sizeOk' = sizeOk /\ local' = local /\ snap' = snap
        /\ result' = result /\ verified' = verified
    BY <1>8, Zenon DEF vars, ctl, hashes, said, StreamSame
  <2>2. Opened' => Opened
    BY <2>1, Zenon DEF Opened, StreamSame
  <2>3. StreamInv'
    BY <1>1, <2>1, <2>2, StreamFrame
  <2>4. PhaseInv' /\ SizeInv' /\ HashInv'
    BY <1>1, <2>1, Zenon DEF PhaseInv, SizeInv, HashInv, Done, StreamSame
  <2>5. QED BY <1>2, <2>3, <2>4 DEF IInv
<1>9. CASE \E t \in strays : StrayCopy(t)
  <2>1. PICK t \in strays : StrayCopy(t)
    BY <1>9
  <2>2. /\ ~alone /\ alone' = alone /\ file' # NoFile
        /\ pc' = pc /\ args' = args /\ calm' = calm /\ part' = part /\ stream' = stream
        /\ pipe' = pipe /\ thread' = thread /\ result' = result /\ verified' = verified
    BY <1>1, <2>1, StrayFacts
  <2>3. Sent' = Sent
    BY <2>2, Zenon DEF Sent, FirstByte
  <2>4. StreamInv'
    BY <1>1, <2>2, <2>3, Zenon DEF StreamInv, Opened
  <2>5. PhaseInv'
    BY <1>1, <2>2 DEF PhaseInv
  <2>6. SizeInv' /\ HashInv'
    BY <2>2 DEF SizeInv, HashInv
  <2>7. QED BY <1>2, <2>4, <2>5, <2>6 DEF IInv
<1>10. QED BY <1>3, <1>4, <1>5, <1>6, <1>7, <1>8, <1>9 DEF Next

LEMMA Invariant == Spec => []IInv
<1>1. QED BY InvInit, InvStep, PTL DEF Spec

-----------------------------------------------------------------------------
(* How a dump ends. *)

\* A thread that is gone without having opened the file has raised, and a
\* verdict is given at the end, of a file that is there.
EndInv ==
  /\ thread = "copying" => "opened" \in past
  /\ thread = "dead" /\ (pc # "idle" \/ result \in {"ok", "failed"}) /\ "opened" \notin past
       => "raised" \in past
  /\ pc # "idle" => verified = "none"
  /\ pc \in {"hash", "devhash"} => args.verify
  /\ verified # "none" => args.verify
  /\ verified = "yes" => result = "ok"
  /\ result = "ok" => file # NoFile

LEMMA MainEnd == ASSUME IInv, EndInv, Main PROVE EndInv'
<1>1. /\ StreamSame /\ pc # "idle" /\ result = "none" /\ result' \in {"none", "ok", "failed"}
      /\ past' = past
  <2>1. ~Start /\ ~ThreadOpen /\ ~ThreadError
    <3>1. pc # "idle" /\ StreamSame
      BY MainFrame DEF IInv
    <3>2. thread' = thread
      BY <3>1 DEF StreamSame
    <3>3. QED BY <3>1, <3>2 DEF Start, ThreadOpen, ThreadError
  <2>2. past' = past
    BY <2>1, PastStep DEF Next
  <2>3. QED BY <2>2, MainFrame DEF IInv
<1>2. /\ args' = args /\ thread' = thread /\ file' = file
  BY <1>1 DEF StreamSame
<1>3. verified = "none" /\ (pc \in {"hash", "devhash"} => args.verify /\ file # NoFile)
  BY <1>1 DEF EndInv, IInv, PhaseInv
<1>4. /\ pc' # "idle" => verified' = "none"
      /\ pc' \in {"hash", "devhash"} => args.verify
      /\ verified' # "none" => args.verify
      /\ verified' = "yes" => result' = "ok"
      /\ result' = "ok" => file # NoFile
  <2>1. CASE WaitDone \/ Timeout \/ HashFile
    BY <1>1, <1>3, <2>1 DEF WaitDone, Timeout, HashFile, said
  <2>2. CASE Joined \/ JoinTimeout
    BY <1>1, <1>3, <2>2 DEF Joined, JoinTimeout, AfterJoin, Return, said
  <2>3. CASE CheckSize
    BY <1>1, <1>3, <2>3 DEF CheckSize, Return, said
  <2>4. CASE CheckRange
    BY <1>1, <1>3, <2>4 DEF CheckRange, Return
  <2>5. CASE HashDevice \/ HashMissing
    BY <1>1, <1>3, <2>5 DEF HashDevice, HashMissing, Return
  <2>6. QED BY <2>1, <2>2, <2>3, <2>4, <2>5 DEF Main
<1>5. QED BY <1>1, <1>2, <1>4 DEF EndInv

LEMMA ThreadEndInv == ASSUME IInv, EndInv, Thread PROVE EndInv'
<1>1. /\ pc' = pc /\ args' = args /\ result' = result /\ verified' = verified
  BY ThreadFrames
<1>2. CASE ThreadOpen
  <2>1. /\ thread' = "copying" /\ "opened" \in past' /\ file' = <<>>
    BY <1>2 DEF ThreadOpen
  <2>2. file' # NoFile
    <3>1. <<>> \in Seq(Block)
      OBVIOUS
    <3>2. QED BY <2>1, <3>1, NoFileAssumption
  <2>3. QED BY <1>1, <2>1, <2>2 DEF EndInv
<1>3. CASE ThreadCopy
  <2>1. thread = "copying" /\ thread' = thread /\ past' = past
    BY <1>3 DEF ThreadCopy
  <2>2. file' # NoFile
    BY <1>3, CopyType DEF IInv
  <2>3. QED BY <1>1, <2>1, <2>2 DEF EndInv
<1>4. CASE ThreadEnd
  BY <1>1, <1>4 DEF EndInv, ThreadEnd
<1>5. CASE ThreadError
  BY <1>1, <1>5 DEF EndInv, ThreadError
<1>6. QED BY <1>2, <1>3, <1>4, <1>5 DEF Thread

LEMMA EndStep == IInv /\ EndInv /\ [Next]_vars => EndInv'
<1> SUFFICES ASSUME IInv, EndInv, [Next]_vars PROVE EndInv'
  OBVIOUS
<1>1. CASE Start
  <2>1. thread' = "opening" /\ pc' = "stream" /\ verified' = "none" /\ result' = "none"
    BY <1>1 DEF Start
  <2>2. QED BY <2>1 DEF EndInv
<1>2. CASE Exit
  <2>1. /\ pc' = "idle" /\ result' = (IF pc = "idle" THEN result ELSE "killed")
        /\ thread' = "dead" /\ past' = past /\ args' = args /\ verified' = verified /\ file' = file
    BY <1>2 DEF Exit
  <2>2. pc = "idle" => thread \in {"copying", "dead"}
    BY DEF IInv, PhaseInv, TypeOK
  <2>3. QED BY <2>1, <2>2 DEF EndInv
<1>3. CASE Main
  BY <1>3, MainEnd
<1>4. CASE Thread
  BY <1>4, ThreadEndInv
<1>5. CASE Phone
  <2>1. /\ pc' = pc /\ args' = args /\ thread' = thread /\ file' = file
        /\ result' = result /\ verified' = verified
    BY <1>5, PhoneFrames
  <2>2. past' = past
    BY <1>5 DEF Phone, Send, SendEnd, Break, Change, PhoneFrame
  <2>3. QED BY <2>1, <2>2 DEF EndInv
<1>6. CASE UNCHANGED vars
  BY <1>6 DEF EndInv, vars, ctl, said
<1>7. CASE \E t \in strays : StrayCopy(t)
  <2>1. PICK t \in strays : StrayCopy(t)
    BY <1>7
  <2>2. /\ pc' = pc /\ args' = args /\ thread' = thread /\ file' # NoFile
        /\ result' = result /\ verified' = verified /\ past' = past
    BY <2>1, StrayFacts DEF IInv
  <2>3. QED BY <2>2 DEF EndInv
<1>8. QED BY <1>1, <1>2, <1>3, <1>4, <1>5, <1>6, <1>7 DEF Next

LEMMA EndInvariant == Spec => [](IInv /\ EndInv)
<1>1. Init => EndInv
  BY DEF Init, EndInv
<1>2. QED BY <1>1, EndStep, InvInit, InvStep, PTL DEF Spec
-----------------------------------------------------------------------------
\* The dump's variables keep their types and nothing longer than the partition
\* is ever sent (partitions.py:96-178).
THEOREM TypeCorrect == Spec => []TypeOK
<1>1. IInv => TypeOK
  BY DEF IInv
<1>2. QED BY <1>1, Invariant, PTL

\* verified: True means that the file is the partition as it was at one instant,
\* and stays so, whatever the system writes and however late the dump's own
\* thread is, unless a thread of an earlier dump of the same file was still at
\* work when it began (partitions.py:137-149, runner.py:225).
THEOREM VerifiedIsSnapshot == Spec => []VerifiedDumpIsSnapshot
<1>1. IInv => VerifiedDumpIsSnapshot
  BY DEF IInv, HashInv, VerifiedDumpIsSnapshot
<1>2. QED BY <1>1, Invariant, PTL

\* A dump of known size without a warning, and every accepted range, is a copy
\* if nobody wrote the partition, also when adb said nothing of a stream that
\* broke (partitions.py:130-175, runner.py:203-230).
THEOREM UnwarnedIsCopy == Spec => []UnwarnedDumpIsCopy
<1>1. IInv => UnwarnedDumpIsCopy
  <2> SUFFICES ASSUME IInv, Done, result = "ok", calm, alone,
                      args.op = "dump" => args.sized /\ sizeOk
               PROVE  /\ args.off + args.len <= PartSize
                      /\ file = [k \in 1..args.len |-> part[args.off + k]]
    BY DEF UnwarnedDumpIsCopy
  <2>1. TypeOK /\ StreamInv /\ PhaseInv /\ SizeInv
    BY DEF IInv
  <2>2. args \in Args /\ stream \in Seq(Block) /\ pipe \in Seq(Block) /\ thread \in {"copying", "dead"}
    BY <2>1 DEF TypeOK, PhaseInv, Done
  <2>3. Opened
    BY <2>2 DEF Opened
  <2>4. Conserved
    BY <2>1, <2>3 DEF StreamInv
  <2>5. args.op \in {"dump", "range"} /\ args.off \in Nat /\ args.len \in Nat \ {0}
    BY <2>2 DEF Args
  <2>6. file # NoFile /\ Len(file) = args.len
    BY <2>1, <2>5 DEF SizeInv, PhaseInv
  <2>7. file \in Seq(Block)
    BY <2>1, <2>6 DEF TypeOK
  <2>8. /\ Len(stream) \in Nat /\ Len(stream) <= args.len
        /\ Len(stream) > 0 => Sent.first + Len(stream) <= PartSize
    BY <2>1, <2>2, StreamBound
  <2>9. Len(file) + Len(pipe) = Len(stream) /\ \A k \in 1..Len(file) : file[k] = stream[k]
    BY <2>4 DEF Conserved
  <2>10. Len(stream) = args.len
    BY <2>2, <2>5, <2>6, <2>8, <2>9
  <2>11. Sent.first = args.off
    BY <2>1, <2>2, <2>5, SentFacts DEF PhaseInv
  <2>12. args.off + args.len <= PartSize
    BY <2>5, <2>8, <2>10, <2>11
  <2>13. \A k \in 1..args.len : file[k] = part[args.off + k]
    <3>1. \A k \in 1..Len(stream) : stream[k] = part[Sent.first + k]
      BY <2>1 DEF StreamInv
    <3>2. QED BY <2>6, <2>9, <2>10, <2>11, <3>1
  <2>14. file = [k \in 1..args.len |-> part[args.off + k]]
    BY <2>6, <2>7, <2>13
  <2>15. QED BY <2>12, <2>14
<1>2. QED BY <1>1, Invariant, PTL

\* The block-level dump ends in no other way than the modules that only use it
\* assume (partitions.py:115-149, runner.py:203-230).
THEOREM DumpEndsAsOutcome == Spec => []EndsAsOutcome
<1>1. ASSUME IInv, EndInv, UnwarnedDumpIsCopy, VerifiedDumpIsSnapshot,
             Done, result \in {"ok", "failed"}, args.op = "dump", alone
      PROVE  \E o \in DumpOutcomes(args.verify, file # NoFile, ~calm \/ ~args.sized) :
               /\ o.status = result /\ o.verified = verified /\ o.warned = Warned
               /\ o.file = "copy" => file = IF verified = "yes" THEN snap ELSE part
               /\ o.file = "torn" => "opened" \in past
               /\ o.file = "old" => "opened" \notin past
  <2> DEFINE kind == IF verified = "yes" THEN "copy"
                     ELSE IF "opened" \notin past THEN "old"
                     ELSE IF Warned \/ ~calm \/ ~args.sized THEN "torn" ELSE "copy"
             o == [status |-> result, verified |-> verified, file |-> kind, warned |-> Warned]
  <2>1. /\ thread \in {"copying", "dead"} /\ verified \in {"yes", "no", "none"}
        /\ part \in Partition /\ Warned \in BOOLEAN
        /\ args.verify \in BOOLEAN /\ args.len = PartSize /\ args.off = 0
    BY <1>1 DEF IInv, TypeOK, PhaseInv, Done, Warned, Args
  <2>2. /\ verified # "none" => args.verify
        /\ verified = "yes" => result = "ok"
        /\ result = "ok" => file # NoFile
        /\ "opened" \notin past => "raised" \in past
    BY <1>1, <2>1 DEF EndInv
  <2>3. /\ result = "failed" \/ verified = "no" \/ "raised" \in past => Warned
        /\ ~Warned => sizeOk
    BY DEF Warned
  <2>4. kind \in {"copy", "torn", "old"}
    OBVIOUS
  <2>5. kind = "old" => Warned /\ (file # NoFile \/ result = "failed")
    BY <1>1, <2>2, <2>3
  <2>6. kind = "torn" /\ ~Warned => ~calm \/ ~args.sized
    OBVIOUS
  <2>7. kind = "copy" => file = IF verified = "yes" THEN snap ELSE part
    <3>1. CASE verified = "yes"
      BY <1>1, <2>2, <3>1 DEF VerifiedDumpIsSnapshot
    <3>2. CASE verified # "yes"
      <4> SUFFICES ASSUME ~Warned, calm, args.sized PROVE file = part
        BY <3>2
      <4>1. result = "ok" /\ sizeOk
        BY <1>1, <2>3
      <4>2. file = [k \in 1..args.len |-> part[args.off + k]]
        BY <1>1, <4>1 DEF UnwarnedDumpIsCopy
      <4>3. \A k \in 1..PartSize : part[0 + k] = part[k]
        BY PartSizeAssumption
      <4>4. QED BY <2>1, <4>2, <4>3, PartSizeAssumption DEF Partition
    <3>3. QED BY <3>1, <3>2
  <2>8. /\ kind = "torn" => "opened" \in past
        /\ kind = "old" => "opened" \notin past
        /\ verified = "yes" => kind = "copy"
    OBVIOUS
  <2> HIDE DEF kind
  <2>9. o \in DumpOutcomes(args.verify, file # NoFile, ~calm \/ ~args.sized)
    BY <1>1, <2>1, <2>2, <2>3, <2>4, <2>5, <2>6, <2>8 DEF DumpOutcomes
  <2>10. QED BY <2>7, <2>8, <2>9
<1>2. IInv /\ EndInv /\ UnwarnedDumpIsCopy /\ VerifiedDumpIsSnapshot => EndsAsOutcome
  BY <1>1, Zenon DEF EndsAsOutcome
<1>3. QED BY <1>2, EndInvariant, UnwarnedIsCopy, VerifiedIsSnapshot, PTL
===============================================================================
