------------------------------- MODULE Payload -------------------------------
(***************************************************************************)
(* `mrt rom payload --extract-only`: utils/payload.py and extract_payload  *)
(* of modules/flash.py.  A payload holds, for each partition, operations   *)
(* that write a blob over a list of extents of the image, or zeros.  The   *)
(* images are written one extent at a time, straight to their final names; *)
(* the hashes the manifest carries are not read.  A payload file may be    *)
(* cut short or damaged, and the command may die between two writes.       *)
(* Extraction is the first half of `mrt rom payload`; RomFlash is the      *)
(* second, and the names here keep the two modules apart where both are    *)
(* used.                                                                   *)
(***************************************************************************)
EXTENDS Naturals, Sequences, FiniteSets, FiniteSetsExt

CONSTANTS Packages,     \* what a payload may hold: sequences of partitions
          ImageNames,   \* of partitions
          Blocks,       \* what a block may hold
          Zero,         \* a block of zeros
          Damaged,      \* a block that was damaged in the payload file
          NoFile,
          Blobs,        \* bound: blobs in a payload file
          MaxExtracts   \* bound: commands started

(* PartitionUpdate, Operation, Extent.  blob is what the data decompresses *)
(* to and `at` its place among the blobs of the file.                      *)
Extent == [start : Nat, num : Nat]
Operation == [type : STRING, at : Nat, dst : Seq(Extent), blob : Seq(Blocks)]
Partition == [name : ImageNames, ops : Seq(Operation)]

Compressed == {"REPLACE_BZ", "REPLACE_XZ"}
Replacing == {"REPLACE"} \cup Compressed
Zeroing == {"ZERO", "DISCARD"}
Whole(p) == \A i \in DOMAIN p.ops : p.ops[i].type \in Replacing \cup Zeroing

Ends(o) == {o.dst[j].start + o.dst[j].num : j \in DOMAIN o.dst}
Size(p) == Max({0} \cup UNION {Ends(p.ops[i]) : i \in DOMAIN p.ops})

\* The blocks of an extent, and how many blocks the extents before the j-th have.
BlocksOf(e) == e.start + 1 .. e.start + e.num
Before(o, j) == Cardinality(UNION {{i} \X (1..o.dst[i].num) : i \in 1..j - 1})

(* What the format promises of a full payload: a partition is listed once,  *)
(* no two extents of it overlap, and a blob fills the extents it is for.    *)
Disjoint(p) ==
  \A i, k \in DOMAIN p.ops : \A j \in DOMAIN p.ops[i].dst, l \in DOMAIN p.ops[k].dst :
    <<i, j>> # <<k, l>> => BlocksOf(p.ops[i].dst[j]) \cap BlocksOf(p.ops[k].dst[l]) = {}
Filled(p) ==
  \A i \in DOMAIN p.ops :
    p.ops[i].type \in Replacing => Len(p.ops[i].blob) = Before(p.ops[i], Len(p.ops[i].dst) + 1)

ASSUME BlocksAssumption == Zero \in Blocks /\ Damaged \in Blocks /\ Blobs \in Nat /\ MaxExtracts \in Nat
ASSUME PackagesAssumption ==
  \A pkg \in Packages :
    /\ pkg \in Seq(Partition)
    /\ \A i, j \in DOMAIN pkg : pkg[i].name = pkg[j].name => i = j
    /\ \A i \in DOMAIN pkg : Whole(pkg[i]) => Disjoint(pkg[i]) /\ Filled(pkg[i])

VARIABLES
  stage,        \* "idle", "next" partition, "ops", "write" the extents of one
  package,   \* the payload's partitions
  upto,      \* the blobs that the payload file still holds
  damage,    \* the blobs that are damaged
  wanted,    \* --only
  part, op, ext,     \* the partition, operation and extent that come next
  blob, cursor,      \* the data of the operation, and what of it is written
  images,    \* name -> image file in the work directory
  done, told,\* extracted so far; reported when the command ended
  extracts

input == <<package, upto, damage, wanted>>
place == <<op, ext, blob, cursor>>
extractVars == <<stage, input, part, place, images, done, told, extracts>>

ExtractTypeOK == /\ stage \in {"idle", "next", "ops", "write"}
                 /\ package \in Packages \cup {<<>>}
                 /\ upto \in 0..Blobs /\ damage \subseteq 1..Blobs /\ wanted \subseteq ImageNames
                 /\ part \in 1..Len(package) + 1
                 /\ op \in Nat \ {0} /\ ext \in Nat \ {0} /\ cursor \in Nat
                 /\ blob \in Seq(Blocks)
                 /\ images \in [ImageNames -> Seq(Blocks) \cup {NoFile}]
                 /\ done \subseteq ImageNames /\ told \subseteq ImageNames
                 /\ extracts \in 0..MaxExtracts

----------------------------------------------------------------------------
Zeros(n) == [i \in 1..n |-> Zero]

\* seek and write: what lies between the old end and the new data reads as zeros.
WriteAt(file, start, data) ==
  LET end == start + Len(data)
  IN  IF data = <<>> THEN file
      ELSE [i \in 1..Max({Len(file), end}) |->
              IF i \in start + 1..end THEN data[i - start]
              ELSE IF i <= Len(file) THEN file[i] ELSE Zero]

Truncated(file, n) == [i \in 1..n |-> IF i <= Len(file) THEN file[i] ELSE Zero]

Slice(s, from, n) == SubSeq(s, from + 1, Min({Len(s), from + n}))

----------------------------------------------------------------------------
ExtractInit == /\ stage = "idle"
               /\ package = <<>> /\ upto = 0 /\ damage = {} /\ wanted = {}
               /\ part = 1 /\ op = 1 /\ ext = 1 /\ blob = <<>> /\ cursor = 0
               /\ images = [n \in ImageNames |-> NoFile]
               /\ done = {} /\ told = {}
               /\ extracts = 0

Start(pkg, n, bad, only) ==
  /\ stage = "idle" /\ extracts < MaxExtracts
  /\ extracts' = extracts + 1
  /\ package' = pkg /\ upto' = n /\ damage' = bad /\ wanted' = only
  /\ stage' = "next" /\ part' = 1
  /\ done' = {} /\ told' = {}
  /\ UNCHANGED <<place, images>>

\* An exception ends the command: no results.
Raise == /\ stage' = "idle" /\ part' = 1 /\ op' = 1 /\ ext' = 1 /\ blob' = <<>> /\ cursor' = 0
         /\ package' = <<>> /\ upto' = 0 /\ damage' = {} /\ wanted' = {}
         /\ done' = {} /\ told' = {}

\* parse_payload: a file that ends before its manifest does.
Unparsed == /\ stage = "idle" /\ extracts < MaxExtracts
            /\ extracts' = extracts + 1
            /\ UNCHANGED images
            /\ Raise

Part == package[part]
Ops == Part.ops
Asked == wanted = {} \/ Part.name \in wanted

Skip == /\ stage = "next" /\ part <= Len(package) /\ ~Asked
        /\ part' = part + 1
        /\ UNCHANGED <<stage, input, place, images, done, told, extracts>>

\* extract_partition: differential operations are refused before the file is opened.
Open == /\ stage = "next" /\ part <= Len(package) /\ Asked
        /\ Whole(Part)
        /\ images' = [images EXCEPT ![Part.name] = <<>>]
        /\ stage' = "ops" /\ op' = 1
        /\ UNCHANGED <<input, part, ext, blob, cursor, done, told, extracts>>

\* Mutant: the file is opened before the operations are looked at.
RefuseOpened == /\ stage = "next" /\ part <= Len(package) /\ Asked
                /\ ~Whole(Part)
                /\ images' = [images EXCEPT ![Part.name] = <<>>]
                /\ UNCHANGED extracts
                /\ Raise

Refuse == /\ stage = "next" /\ part <= Len(package) /\ Asked
          /\ ~Whole(Part)
          /\ UNCHANGED <<images, extracts>>
          /\ Raise

Missing(o) == o.type \in Replacing /\ o.at > upto
Sound(o) == o.type \in Zeroing \/ o.at \notin damage

\* Damaged data need not fail to decompress: a stream may carry no check.  What comes
\* out of it is anything, of any length; what is more than the extents take is dropped.
Garbage(o) == {[i \in 1..n |-> Damaged] : n \in IF o.type \in Compressed THEN 0..Len(o.blob)
                                              ELSE {Len(o.blob)}}
Readings(o) == IF Sound(o) THEN {o.blob} ELSE Garbage(o)

Read == /\ stage = "ops" /\ op <= Len(Ops)
        /\ ~Missing(Ops[op])
        /\ blob' \in Readings(Ops[op]) /\ cursor' = 0 /\ ext' = 1
        /\ stage' = "write"
        /\ UNCHANGED <<input, part, op, images, done, told, extracts>>

\* A short read raises, and so may damaged data that does not decompress.
Unreadable == /\ stage = "ops" /\ op <= Len(Ops)
              /\ Missing(Ops[op]) \/ (Ops[op].type \in Compressed /\ ~Sound(Ops[op]))
              /\ UNCHANGED <<images, extracts>>
              /\ Raise

\* Mutant: every extent is given the head of the blob.
DataFromHead(o, e) == IF o.type \in Zeroing THEN Zeros(e.num) ELSE Slice(blob, 0, e.num)

\* The blob is cut along the extents, in their order.
Data(o, e) == IF o.type \in Zeroing THEN Zeros(e.num) ELSE Slice(blob, cursor, e.num)

WriteExtent ==
  /\ stage = "write" /\ ext <= Len(Ops[op].dst)
  /\ LET e == Ops[op].dst[ext]
     IN  /\ images' = [images EXCEPT ![Part.name] = WriteAt(@, e.start, Data(Ops[op], e))]
         /\ cursor' = cursor + e.num
  /\ ext' = ext + 1
  /\ UNCHANGED <<stage, input, part, op, blob, done, told, extracts>>

NextOp == /\ stage = "write" /\ ext > Len(Ops[op].dst)
          /\ stage' = "ops" /\ op' = op + 1
          /\ ext' = 1 /\ blob' = <<>> /\ cursor' = 0
          /\ UNCHANGED <<input, part, images, done, told, extracts>>

Close == /\ stage = "ops" /\ op > Len(Ops)
         /\ images' = [images EXCEPT ![Part.name] = Truncated(@, Size(Part))]
         /\ done' = done \cup {Part.name}
         /\ part' = part + 1 /\ op' = 1
         /\ stage' = "next"
         /\ UNCHANGED <<input, ext, blob, cursor, told, extracts>>

\* extract_all returns its results only when every partition was extracted.
Report == /\ stage = "next" /\ part > Len(package)
          /\ told' = done
          /\ stage' = "idle"
          /\ part' = 1 /\ upto' = 0 /\ wanted' = {} /\ done' = {}
          /\ UNCHANGED <<package, damage, place, images, extracts>>

KillExtract == /\ stage # "idle"
               /\ UNCHANGED <<images, extracts>>
               /\ Raise

ExtractNext ==
  \/ \E pkg \in Packages, only \in SUBSET ImageNames, n \in 0..Blobs, bad \in SUBSET (1..Blobs) :
       Start(pkg, n, bad, only)
  \/ Unparsed \/ Skip \/ Open \/ Refuse \/ Read \/ Unreadable
  \/ WriteExtent \/ NextOp \/ Close \/ Report \/ KillExtract

ExtractSpec == ExtractInit /\ [][ExtractNext]_extractVars

----------------------------------------------------------------------------
(* Properties.                                                             *)

\* What the author of a full payload meant the k-th block of an extent to hold.
Meant(o, j, k) == IF o.type \in Zeroing THEN Zero ELSE o.blob[Before(o, j) + k]

\* The image of a partition: what its operations give, where their data was not
\* damaged in the payload file, and zeros between.
Intended(p, file) ==
  /\ DOMAIN file = 1..Size(p)
  /\ \A i \in DOMAIN p.ops : Sound(p.ops[i]) =>
       \A j \in DOMAIN p.ops[i].dst : \A k \in 1..p.ops[i].dst[j].num :
         file[p.ops[i].dst[j].start + k] = Meant(p.ops[i], j, k)
  /\ \A b \in DOMAIN file :
       file[b] = Zero \/ \E i \in DOMAIN p.ops : \E j \in DOMAIN p.ops[i].dst :
                            b \in BlocksOf(p.ops[i].dst[j])

(* An image that is reported as extracted has the size that the payload      *)
(* describes, and its content wherever the data was not damaged, also over a *)
(* longer image of an earlier package and from a payload that was cut:       *)
(* damage never spreads to the extents of another operation.  No hash is     *)
(* compared, so that damage itself may be reported as extracted:             *)
(* extract_partition, payload.py:213-240.                                    *)
ReportedIsIntended ==
  \A i \in DOMAIN package : package[i].name \in told => Intended(package[i], images[package[i].name])

(* The image of a partition that was not asked for, or comes with            *)
(* differential operations only, is never touched: payload.py:207-209, 256.  *)
RefusedIsNotTouched ==
  [][\A n \in ImageNames : images'[n] # images[n] =>
       \E i \in DOMAIN package : /\ package[i].name = n /\ Whole(package[i])
                                 /\ wanted = {} \/ n \in wanted]_extractVars
=============================================================================
