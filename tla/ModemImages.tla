---------------------------- MODULE ModemImages ----------------------------
(***************************************************************************)
(* `mrt efs check-image`: utils/efs2.py, utils/mtknv.py and the structure  *)
(* part of modules/efs.py.  Images of modem partitions are searched for an *)
(* EFS2 superblock, an ext4 superblock or the header of MediaTek's backup  *)
(* region, judged one by one and then as a group.  The tool reads only, so *)
(* it is a set of operators here; what moves is the modem, which writes    *)
(* superblocks with a 16-bit age into two mirrors in turn, and the         *)
(* technician, who dumps partitions of several phones whole or cut short   *)
(* and may give a file the name of another partition.                      *)
(* An image is a sequence of pages; AgeMod, HighAge and LowAge stand for   *)
(* 2^16, 0xFF00 and 0x0100.                                                *)
(***************************************************************************)
EXTENDS Naturals, Sequences, FiniteSets, FiniteSetsExt

CONSTANTS Geos,         \* geometries, a set of records [name, pages]
          Working,      \* the geometry of the phone whose modem is at work
          AgeMod, HighAge, LowAge,
          Starts,       \* numbers of superblocks written at the factory
          Factory,      \* name -> images of nvram, nvdata that a phone may hold
          Spelling,     \* other spelling of a name, in capitals or with a slot -> the name
          MaxFiles,     \* bound: files on the technician's disk
          MaxWrites     \* bound: superblocks the modem writes

Mirrors == {"modemst1", "modemst2"}
MirrorOf(seq) == IF seq % 2 = 1 THEN "modemst1" ELSE "modemst2"
Efs2Names == Mirrors \cup {"fsg"}
Names == Efs2Names \cup DOMAIN Factory \cup DOMAIN Spelling

(* The pages of a partition: erased, a superblock (Super below), the first  *)
(* page of an ext4 file system, the header of a backup region, other data.  *)
Erased == [kind |-> "erased"]
Other == [kind |-> "data"]
FactoryPage == {Erased, Other} \cup [kind : {"ext4"}, bad : BOOLEAN]
               \cup [kind : {"nvram"}, flag : BOOLEAN, table : Nat, buf : Nat, ends : SUBSET Nat]

ASSUME AgeAssumption ==
  /\ AgeMod \in Nat /\ HighAge \in Nat /\ LowAge \in Nat
  /\ HighAge + 2 <= AgeMod
ASSUME ModemAssumption ==
  /\ Working \in Geos /\ \A g \in Geos : g.pages \in Nat /\ g.pages >= 2
  /\ Starts \subseteq Nat \ {0}
  /\ MaxFiles \in Nat /\ MaxWrites \in Nat

(* Only nvdata and nvcfg are ext4, and only nvram holds backup regions.     *)
ASSUME FactoryAssumption ==
  /\ DOMAIN Factory \cap Efs2Names = {}
  /\ \A p \in DOMAIN Factory : \A img \in Factory[p] :
       /\ img \in Seq(FactoryPage)
       /\ \A i \in DOMAIN img : /\ img[i].kind = "ext4" => p \in {"nvdata", "nvcfg"}
                                /\ img[i].kind = "nvram" => p = "nvram"

ASSUME SpellingAssumption ==
  /\ DOMAIN Spelling \cap (Efs2Names \cup DOMAIN Factory) = {}
  /\ \A n \in DOMAIN Spelling : Spelling[n] \in Efs2Names \cup DOMAIN Factory

VARIABLES
  seq,     \* number of the superblock the modem wrote last; its age is seq % AgeMod
  efs,     \* geometry of a phone -> EFS2 partition -> pages
  files,   \* the files on the technician's disk, [name, of, geo, pages]
  writes

imageVars == <<seq, efs, files, writes>>

Super(g, n) == [kind |-> "efs2", geo |-> g, age |-> n % AgeMod, seq |-> n]

----------------------------------------------------------------------------
(* efs2.py *)

\* is_blank; an empty file counts as blank as well (analyze_bytes).
Blank(img) == \A i \in DOMAIN img : img[i] = Erased

Superblocks(img) == {i \in DOMAIN img : img[i].kind = "efs2"}
Ages(img) == {img[i].age : i \in Superblocks(img)}

\* Mutant: the superblock that comes last is live.
LiveByOffset(img) == img[Max(Superblocks(img))]

\* max by (age, offset)
Live(img) == LET newest == {i \in Superblocks(img) : img[i].age = Max(Ages(img))}
             IN  img[Max(newest)]

\* Mutant: a high age alone does not count.
RolloverSeen(img) == Min(Ages(img)) < LowAge /\ Live(img).age > HighAge

RolloverPossible(img) ==
  Live(img).age >= HighAge \/ (Min(Ages(img)) < LowAge /\ Live(img).age > HighAge)

Analyze(img) ==
  IF Blank(img) THEN [format |-> "efs2", state |-> "blank"]
  ELSE IF Superblocks(img) = {} THEN [format |-> "efs2", state |-> "no-superblock"]
  ELSE [format |-> "efs2", live |-> Live(img), rollover |-> RolloverPossible(img),
        fits |-> Live(img).geo.pages <= Len(img),   \* is reported, and part of no verdict
        state |-> IF \E i, j \in Superblocks(img) : img[i].geo # img[j].geo
                  THEN "inconsistent" ELSE "ok"]

----------------------------------------------------------------------------
(* mtknv.py: an ext4 superblock [kind, bad] in the first page; the header   *)
(* [kind, flag, table, buf, ends] of a backup region: header and titles     *)
(* take `table' pages, the bodies behind them `buf' pages, and the titles   *)
(* list files that end at `ends', counted from the first body: the layout   *)
(* of make_mtk_nvram, tests/test_efs2_mtknv.py:44-58.                       *)

Ext4Superblock(img) == img # <<>> /\ img[1].kind = "ext4"

\* Mutant: the length of the region is not compared with the image.
HeaderUnmeasured(img, i) ==
  /\ img[i].kind = "nvram" /\ img[i].flag
  /\ img[i].ends # {}
  /\ i - 1 + img[i].table <= Len(img)

\* The bodies alone are measured, against all that comes from the header on.
HeaderAt(img, i) ==
  /\ img[i].kind = "nvram" /\ img[i].flag
  /\ img[i].ends # {} /\ img[i].buf > 0 /\ img[i].buf <= Len(img) - (i - 1)
  /\ i - 1 + img[i].table <= Len(img)

\* At the start of the image or, failing that, on the first page that has one.
Regions(img) == {i \in DOMAIN img : HeaderAt(img, i)}
Region(img) == Min(Regions(img))

AnalyzeNvram(img) ==
  [format |-> "mtk-nvram",
   state |-> IF Blank(img) THEN "blank"
             ELSE IF Regions(img) = {} THEN "no-backup-header"
             ELSE IF \A e \in img[Region(img)].ends : e <= img[Region(img)].buf THEN "ok"
             ELSE "inconsistent"]

AnalyzeNvdata(img) ==
  [format |-> "ext4",
   state |-> IF Blank(img) THEN "blank"
             ELSE IF ~Ext4Superblock(img) THEN "no-ext4-superblock"
             ELSE IF img[1].bad THEN "errors" ELSE "ok"]

----------------------------------------------------------------------------
(* efs.py *)

FormatByName(base) ==
  CASE base \in Efs2Names -> "efs2"
    [] base = "nvram" -> "mtk-nvram"
    [] base \in {"nvdata", "nvcfg"} -> "ext4"
    [] OTHER -> "none"

\* Capitals and the suffix of a slot do not matter here; in the comparison of the
\* mirrors (SummaryOk) they do.
ExpectedFormat(name) ==
  FormatByName(IF name \in DOMAIN Spelling THEN Spelling[name] ELSE name)

AnalyzeAs(format, img) ==
  CASE format = "efs2" -> Analyze(img)
    [] format = "ext4" -> AnalyzeNvdata(img)
    [] format = "mtk-nvram" -> AnalyzeNvram(img)
    [] format = "none" -> [format |-> "unknown", state |-> "unknown"]

\* What the image looks like comes before what its name promises.
AnalyzeBytes(img, name) ==
  IF Blank(img) THEN [format |-> ExpectedFormat(name), state |-> "blank"]
  ELSE AnalyzeAs(IF Superblocks(img) # {} THEN "efs2"
                 ELSE IF Ext4Superblock(img) THEN "ext4"
                 ELSE IF Regions(img) # {} THEN "mtk-nvram"
                 ELSE ExpectedFormat(name), img)

FormatMatches(name, rep) == rep.format = ExpectedFormat(name) \/ rep.state = "blank"

HasLive(rep) == "live" \in DOMAIN rep

\* Mutant: every image with a live superblock will do.
NewestIsAny(reports) == {n \in DOMAIN reports : HasLive(reports[n])}

\* compare_mirror names one of these.
Newest(reports) ==
  LET live == {n \in DOMAIN reports : HasLive(reports[n])}
      top == Max({reports[n].live.age : n \in live})
  IN  {n \in live : reports[n].live.age = top}

OneGeometry(reports) ==
  \A m, n \in DOMAIN reports :
    (HasLive(reports[m]) /\ HasLive(reports[n])) => reports[m].live.geo = reports[n].live.geo

FsgUsable(reports) == "fsg" \in DOMAIN reports => reports["fsg"].state = "ok"

CompareMirrorOk(reports) ==
  /\ OneGeometry(reports)
  /\ \A n \in DOMAIN reports : reports[n].state \notin {"blank", "no-superblock", "inconsistent"}
  /\ FsgUsable(reports)

Bad == {"blank", "no-superblock", "no-ext4-superblock", "no-backup-header", "inconsistent", "errors"}

\* Mutant: every image is judged on its own.
SummaryOneByOne(reports) ==
  \A n \in DOMAIN reports : reports[n].state \notin Bad /\ FormatMatches(n, reports[n])

SummaryOk(reports) ==
  LET mirror == {n \in DOMAIN reports \cap Efs2Names : reports[n].format = "efs2"}
  IN  /\ \A n \in DOMAIN reports : /\ reports[n].state \in Bad => reports[n].state = "blank" /\ ExpectedFormat(n) = "none"
                                   /\ ExpectedFormat(n) # "none" => FormatMatches(n, reports[n])
      /\ CompareMirrorOk([n \in mirror |-> reports[n]])

\* check_images keys its reports by the name of the file.
CheckImages(fs) == [n \in {f.name : f \in fs} |->
                      AnalyzeBytes((CHOOSE f \in fs : f.name = n).pages, n)]

----------------------------------------------------------------------------
(* The phones.  The modem of one of them is at work; the others are as they *)
(* left the factory.  A mirror's superblocks go round its first two pages.  *)

Slot(n) == ((n \div 2) % 2) + 1
Put(img, n, g) == [img EXCEPT ![Slot(n)] = Super(g, n)]
Fresh(g) == [i \in 1..g.pages |-> IF i <= 2 THEN Erased ELSE Other]

ImagesInit ==
  /\ seq \in Starts
  /\ efs = [g \in Geos |->
              [p \in Efs2Names |->
                 Put(Fresh(g), IF p = MirrorOf(seq) THEN seq ELSE seq - 1, g)]]
  /\ files = {}
  /\ writes = 0

ModemWrite == /\ writes < MaxWrites
              /\ writes' = writes + 1
              /\ seq' = seq + 1
              /\ efs' = [efs EXCEPT ![Working][MirrorOf(seq + 1)] = Put(@, seq + 1, Working)]
              /\ UNCHANGED files

\* A mirror zero-filled by rebuild-modemst.
Erase(p) == /\ efs' = [efs EXCEPT ![Working][p] = [i \in DOMAIN @ |-> Erased]]
            /\ UNCHANGED <<seq, files, writes>>

Save(f) == /\ Cardinality(files) < MaxFiles
           /\ \A e \in files : e.name # f.name
           /\ files' = files \cup {f}
           /\ UNCHANGED <<seq, efs, writes>>

\* The dump of a partition, of which the first `n' pages got to the disk.
DumpEfs(g, p, name, n) ==
  Save([name |-> name, of |-> p, geo |-> g, pages |-> SubSeq(efs[g][p], 1, n)])

DumpFactory(p, img, name, n) ==
  Save([name |-> name, of |-> p, geo |-> Working, pages |-> SubSeq(img, 1, n)])

ImagesNext ==
  \/ ModemWrite
  \/ \E p \in Mirrors : Erase(p)
  \/ \E g \in Geos, p \in Efs2Names, name \in Names : \E n \in {1, 2, g.pages} : DumpEfs(g, p, name, n)
  \/ \E p \in DOMAIN Factory, name \in Names : \E img \in Factory[p] :
       \E n \in DOMAIN img : DumpFactory(p, img, name, n)

ImagesSpec == ImagesInit /\ [][ImagesNext]_imageVars

----------------------------------------------------------------------------
(* Properties.                                                             *)

Reports == CheckImages(files)
Stamps(f) == {f.pages[i].seq : i \in Superblocks(f.pages)}

(* Unless the report says that the age may have rolled over, the superblock  *)
(* it calls live is the one the modem wrote last: efs2.py:130-134.           *)
LiveIsLatest ==
  \A f \in files : (HasLive(Reports[f.name]) /\ ~Reports[f.name].rollover)
                     => Reports[f.name].live.seq = Max(Stamps(f))

(* COMMANDS.md:160, "which copy is newest": of two mirrors dumped within      *)
(* AgeMod - HighAge superblocks of each other the one called newest is, if    *)
(* neither report speaks of a rollover: compare_mirror, efs2.py:167-170.      *)
NewestMirrorIsLatest ==
  \A e, f \in files :
    LET d == Reports[e.name]
        r == Reports[f.name]
    IN  (/\ e.name = e.of /\ f.name = f.of /\ {e.name, f.name} = Mirrors /\ e.geo = f.geo
         /\ HasLive(d) /\ HasLive(r) /\ ~d.rollover /\ ~r.rollover
         /\ f.name \in Newest(Reports)
         /\ d.live.seq <= r.live.seq + AgeMod - HighAge
         /\ r.live.seq <= d.live.seq + AgeMod - HighAge)
        => r.live.seq >= d.live.seq

(* Files of known names that together are found in order are what their      *)
(* names say and hold something, and those whose names are spelt as          *)
(* QUALCOMM_MIRROR has them come from phones of one geometry, however they   *)
(* were cut or named.  fsg_a.img or MODEMST1.img is expected to be EFS2, but *)
(* compared with no other: summarize_structures, efs.py:347-350, 412-432.    *)
OkMeansGenuine ==
  \A fs \in SUBSET files : SummaryOk(CheckImages(fs)) =>
    LET judged == {f \in fs : ExpectedFormat(f.name) # "none"}
    IN  /\ \A f \in judged : FormatByName(f.of) = ExpectedFormat(f.name) /\ ~Blank(f.pages)
        /\ \A e, f \in judged : {e.of, f.of, e.name, f.name} \subseteq Efs2Names => e.geo = f.geo

(* Of a backup region that is called usable the image has every title, and   *)
(* of each file it lists at most the last pages are cut off, as many as the  *)
(* titles take, wherever the dump was cut.  That every file is there does    *)
(* not follow, for the length of the bodies is compared with all that comes  *)
(* from the header on: mtknv.py:116, 165.                                    *)
UsableRegionLacksItsEndOnly ==
  \A f \in files : Reports[f.name] = [format |-> "mtk-nvram", state |-> "ok"] =>
    LET h == f.pages[Region(f.pages)]
        there == Len(f.pages) - (Region(f.pages) - 1)
    IN  h.table <= there /\ \A e \in h.ends : h.table + e <= there + h.table
=============================================================================
