----------------------------- MODULE QcnContainer -----------------------------
(***************************************************************************)
(* The compound file behind a .qcn: utils/qcn.py.  A container is a header *)
(* and numbered sectors that hold directory entries, sector numbers or     *)
(* data.  serialize lays a tree out in it, CompoundFile reads one back.    *)
(* Sizes are scaled down: 512-byte sectors of 128 numbers and 4 directory  *)
(* entries, 64-byte mini sectors, streams in mini sectors below 4096 bytes *)
(* and 109 FAT sectors are the constants here.  A container from QPST may  *)
(* scatter its sectors and continue its list of FAT sectors in DIFAT       *)
(* sectors; Layout builds those too.                                       *)
(* A tree is the sequence of its nodes, each storage followed by what is   *)
(* in it; a node is a path with the data of a stream.                      *)
(***************************************************************************)
EXTENDS Naturals, Sequences, FiniteSets, SequencesExt, FiniteSetsExt

CONSTANTS SectorUnits, MiniUnits, \* units of data in a sector and in a mini sector
          Cutoff,                 \* MINI_CUTOFF in units
          FatPer, DirPer,         \* numbers and directory entries in a sector
          MaxFat,                 \* FAT sectors the header can list
          Key                     \* name -> its rank in _dir_key

ASSUME SizesAssumption == /\ SectorUnits % MiniUnits = 0 /\ MiniUnits > 0
                          /\ Cutoff > 0 /\ FatPer > 1 /\ DirPer > 0 /\ MaxFat > 0

Free == 9999        \* FREESECT and NOSTREAM
End == 9998         \* ENDOFCHAIN
FatSect == 9997
DifSect == 9996
Root == "Root Entry"
Pad == <<"pad", 0>> \* a unit nobody wrote

NoEntry == [name |-> "", type |-> "free", left |-> Free, right |-> Free,
            size |-> 0, child |-> Free, start |-> 0]

Ceil(a, b) == (a + b - 1) \div b
Take(s, n) == SubSeq(s, 1, IF n < Len(s) THEN n ELSE Len(s))
Stream(path, data) == [path |-> path, type |-> "stream", data |-> data]
Storage(path) == [path |-> path, type |-> "storage", data |-> <<>>]

----------------------------------------------------------------------------
(* Writing: entry i of the directory is node i of the tree, entry 0 the root. *)

\* The entries below a path, sorted by _dir_key.
Siblings(tree, path) ==
  SetToSortSeq({i \in 1..Len(tree) : Front(tree[i].path) = path},
               LAMBDA a, b : LET ka == Key[Last(tree[a].path)]
                                 kb == Key[Last(tree[b].path)]
                             IN  ka < kb \/ (ka = kb /\ a < b))

\* The middle of the siblings lo..hi, which is the root of their balanced tree.
Middle(ids, lo, hi) == IF lo > hi THEN Free ELSE ids[(lo + hi) \div 2]

\* The children of sibling k in that tree: follow the halves that hold k.
Branches(ids, k) ==
  LET at[r \in Nat \X Nat] ==
        LET mid == (r[1] + r[2]) \div 2
        IN  IF k < mid THEN at[<<r[1], mid - 1>>]
            ELSE IF k > mid THEN at[<<mid + 1, r[2]>>]
            ELSE <<Middle(ids, r[1], mid - 1), Middle(ids, mid + 1, r[2])>>
  IN  at[<<1, Len(ids)>>]

\* s in pieces of n, the last one filled up.
Chunks(s, n, fill) ==
  [c \in 1..Ceil(Len(s), n) |->
     [k \in 1..n |-> IF (c - 1) * n + k <= Len(s) THEN s[(c - 1) * n + k] ELSE fill]]

\* Runs of sectors of the given lengths one behind the other: where each starts,
\* and which sector follows each sector; place says where a sector comes to lie.
First(lens, c) == FoldLeft(+, 0, SubSeq(lens, 1, c - 1))
\* Mutant: the start is not moved on behind a stream in sectors of its own.
HeadsUnmoved(lens, place) ==
  [c \in DOMAIN lens |-> IF lens[c] = 0 THEN End ELSE place[First(lens, Min({c, 4}))]]
Heads(lens, place) == [c \in DOMAIN lens |-> IF lens[c] = 0 THEN End ELSE place[First(lens, c)]]
Nexts(lens, place) ==
  [p \in 1..First(lens, Len(lens) + 1) |->
     IF \E c \in DOMAIN lens : p = First(lens, c + 1) THEN End ELSE place[p]]
Placed(s, place) ==
  [k \in DOMAIN s |-> s[1 + CHOOSE p \in 0..(Len(s) - 1) : place[p] = k - 1]]

\* Where n sectors come to lie: in order for serialize, anywhere in a file from QPST.
InOrder == [n \in Nat |-> [p \in 0..(n - 1) |-> p]]

\* The streams in mini sectors or, at Cutoff and above, in sectors of their own.
Cut(tree, mini) ==
  [i \in DOMAIN tree |-> IF (Len(tree[i].data) < Cutoff) # mini THEN <<>>
                         ELSE Chunks(tree[i].data, IF mini THEN MiniUnits ELSE SectorUnits, Pad)]
Lens(runs) == [c \in DOMAIN runs |-> Len(runs[c])]

MiniStream(minis, place) ==
  [starts |-> Heads(Lens(minis), place),
   fat |-> Chunks(Placed(Nexts(Lens(minis), place), place), FatPer, Free),
   sectors |-> Chunks(FlattenSeq(Placed(FlattenSeq(minis), place)), SectorUnits, Pad),
   size |-> Cardinality(DOMAIN place) * MiniUnits]

\* The directory; starts are those of its own run, the mini FAT's, the mini stream's
\* and the streams'.
Directory(tree, mini, starts) ==
  LET Child(path) == LET ids == Siblings(tree, path) IN Middle(ids, 1, Len(ids))
      Entry(i, ids) ==
        LET links == Branches(ids, CHOOSE k \in DOMAIN ids : ids[k] = i)
        IN  [name |-> Last(tree[i].path), type |-> tree[i].type, left |-> links[1],
             right |-> links[2], size |-> Len(tree[i].data),
             child |-> IF tree[i].type = "storage" THEN Child(tree[i].path) ELSE Free,
             start |-> IF Len(tree[i].data) < Cutoff THEN mini.starts[i] ELSE starts[3 + i]]
  IN  <<[name |-> Root, type |-> "root", left |-> Free, right |-> Free,
         size |-> mini.size, child |-> Child(<<>>), start |-> starts[3]]>>
      \o [i \in DOMAIN tree |-> Entry(i, Siblings(tree, Front(tree[i].path)))]

\* The FAT sectors that n sectors need with them, and the DIFAT sectors these need.
NumDifat(nfat) == IF nfat > MaxFat THEN Ceil(nfat - MaxFat, FatPer - 1) ELSE 0
NumFat(n) == Min({k \in 1..(2 * n) : k = Ceil(n + k + NumDifat(k), FatPer)})

\* DIFAT sectors with the FAT sectors `more', themselves in the sectors `at'.
Difat(more, at) ==
  [k \in DOMAIN at |-> Append(Chunks(more, FatPer - 1, Free)[k], IF k = Len(at) THEN End ELSE at[k + 1])]

\* The runs of a tree's sectors, with the FAT in sectors fats and the DIFAT in difats.
Container(tree, bigs, mini, lens, fats, difats, place) ==
  LET starts == Heads(lens, place)
      fat == Nexts(lens, place) \o [k \in DOMAIN fats |-> FatSect] \o [k \in DOMAIN difats |-> DifSect]
  IN  [numFat |-> Len(fats), firstDir |-> starts[1], firstMini |-> starts[2], numMini |-> Len(mini.fat),
       firstDifat |-> IF difats = <<>> THEN End ELSE difats[1],
       difat |-> Take(fats, MaxFat) \o [k \in 1..(MaxFat - Len(Take(fats, MaxFat))) |-> Free],
       sectors |-> Placed(Chunks(Directory(tree, mini, starts), DirPer, NoEntry) \o mini.fat
                          \o mini.sectors \o FlattenSeq(bigs) \o Chunks(Placed(fat, place), FatPer, Free)
                          \o Difat(SubSeq(fats, MaxFat + 1, Len(fats)), difats), place)]

\* n sectors of runs, then nfat FAT sectors and the DIFAT.
Allocated(tree, bigs, mini, lens, n, nfat, place) ==
  Container(tree, bigs, mini, lens, [k \in 1..nfat |-> place[n + k - 1]],
            [k \in 1..NumDifat(nfat) |-> place[n + nfat + k - 1]], place)

\* The container of a tree, its n sectors and mini sectors placed by placing[n].
Layout(tree, placing) ==
  LET minis == Cut(tree, TRUE)
      mini == MiniStream(minis, placing[Len(FlattenSeq(minis))])
      lens == <<Ceil(Len(tree) + 1, DirPer), Len(mini.fat), Len(mini.sectors)>> \o Lens(Cut(tree, FALSE))
      n == First(lens, Len(lens) + 1)
  IN  Allocated(tree, Cut(tree, FALSE), mini, lens, n, NumFat(n),
                placing[n + NumFat(n) + NumDifat(NumFat(n))])

\* The writer's own layout; it has no DIFAT sectors and refuses a tree that needs them.
Serialize(tree) == Layout(tree, InOrder)
TooLarge(tree) == Serialize(tree).numFat > MaxFat

----------------------------------------------------------------------------
(* Reading: sector s is sectors[s + 1], directory entry i is dir[i + 1]. *)

\* The numbers met from start on, until one has no successor or comes back.
Chain(next, start) ==
  LET n == Len(next)
      met[k \in 0..n] ==
        IF k = 0 THEN <<>>
        ELSE LET c == met[k - 1]
                 s == IF c = <<>> THEN start ELSE next[Last(c) + 1]
             IN  IF s \in 0..(n - 1) /\ s \notin ToSet(c) THEN Append(c, s) ELSE c
  IN  met[n]

Sectors(f, chain) == FlattenSeq([k \in DOMAIN chain |-> f.sectors[chain[k] + 1]])
Used(numbers) == SelectSeq(numbers, LAMBDA n : n \notin {Free, End})

\* The last number of a DIFAT sector is that of the next one.
DifatChain(f) == Chain([s \in DOMAIN f.sectors |-> Last(f.sectors[s])], f.firstDifat)

FatSectors(f) ==
  LET difat == DifatChain(f)
  IN  Take(Used(f.difat) \o FlattenSeq([k \in DOMAIN difat |-> Used(Front(f.sectors[difat[k] + 1]))]),
           f.numFat)

\* What a CompoundFile holds: FAT, directory, mini FAT and the chain of the mini stream.
CompoundFile(f) ==
  LET fat == Sectors(f, FatSectors(f))
      Read(start) == Sectors(f, Chain(fat, start))
      dir == Read(f.firstDir)
  IN  [sectors |-> f.sectors, fat |-> fat, dir |-> dir, ministream |-> Chain(fat, dir[1].start),
       minifat |-> IF f.numMini = 0 THEN <<>> ELSE Read(f.firstMini)]

\* The units that hold the stream e: <<sector, unit in it>>, from 0.
Units(c, e) ==
  LET chain == IF e.size >= Cutoff THEN Chain(c.fat, e.start) ELSE c.ministream
      minis == IF e.size >= Cutoff THEN <<>> ELSE Chain(c.minifat, e.start)
      At(u) == <<chain[1 + u \div SectorUnits], u % SectorUnits>>
  IN  [k \in 1..e.size |-> IF e.size >= Cutoff THEN At(k - 1)
                           ELSE At(minis[Ceil(k, MiniUnits)] * MiniUnits + ((k - 1) % MiniUnits))]

ReadEntry(c, e) == LET at == Units(c, e) IN [k \in DOMAIN at |-> c.sectors[at[k][1] + 1][at[k][2] + 1]]

\* The directory as a tree, siblings in order.
Tree(c) ==
  LET walk[i \in Nat] ==
        IF i >= Len(c.dir) THEN <<>>
        ELSE LET e == c.dir[i + 1]
                 below == walk[e.child]
             IN  walk[e.left]
                 \o (IF e.type = "stream" THEN <<Stream(<<e.name>>, ReadEntry(c, e))>>
                     ELSE <<Storage(<<e.name>>)>>
                          \o [k \in DOMAIN below |-> [below[k] EXCEPT !.path = <<e.name>> \o @]])
                 \o walk[e.right]
  IN  walk[c.dir[1].child]
ToTree(f) == Tree(CompoundFile(f))

\* The name of the first storage that entry i hangs below.
ParentName(c, i) ==
  LET tree[k \in Nat] == IF k >= Len(c.dir) THEN {}
                         ELSE {k} \cup tree[c.dir[k + 1].left] \cup tree[c.dir[k + 1].right]
      parents == {p \in DOMAIN c.dir : c.dir[p].type # "stream" /\ i \in tree[c.dir[p].child]}
  IN  c.dir[Min(parents)].name

\* Mutant: the container is laid out anew.
OverwrittenAnew(f, e, v) ==
  LET t == ToTree(f)
  IN  Serialize([k \in DOMAIN t |-> IF Last(t[k].path) = e.name /\ Len(t[k].data) = e.size
                                    THEN [t[k] EXCEPT !.data = v] ELSE t[k]])

\* The container f with v written over the units at.
WrittenAt(f, at, v) ==
  LET Here(s, u) == {k \in DOMAIN at : at[k] = <<s - 1, u - 1>>}
  IN  [f EXCEPT !.sectors =
         [s \in DOMAIN @ |->
            [u \in DOMAIN @[s] |-> IF Here(s, u) = {} THEN @[s][u] ELSE v[Max(Here(s, u))]]]]

\* The container f with v written over the stream e.
Overwritten(f, e, v) == WrittenAt(f, Units(CompoundFile(f), e), v)
=============================================================================
