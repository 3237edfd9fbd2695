--------------------------- MODULE RootFlow_proofs ---------------------------
(***************************************************************************)
(* Proofs about RootFlow, for every set of phones and models, any map from *)
(* phones to models, and any number of commands.  The directory is changed *)
(* in three steps (stock image, patched image, manifest) and a command may *)
(* die behind each of them; the invariants say what the files have to do   *)
(* with each other at every phase of the command that runs, and how the    *)
(* path that a flash carries is tied to the manifest and to the phone.     *)
(***************************************************************************)
EXTENDS RootFlow, TLAPS

\* patch once it holds its stock image.
HoldsStock == {"consent", "script", "pull", "manifest"}

\* Between the stock image and the manifest the directory is marked as disturbed.
PhaseInv ==
  /\ pc \in HoldsStock => stock # NoFile /\ disturbed
  /\ pc = "manifest" => patched = Magisked(stock)

\* An undisturbed manifest is of the images that lie beside it.
ManifestInv ==
  /\ PairIsConsistent
  /\ ~disturbed /\ manifest # NoFile =>
       stock # NoFile /\ stock = manifest.stock /\ patched = manifest.patched

\* A stock image copied from a file is whole, unless its copy was interrupted.
StockInv ==
  source = "file" /\ (~disturbed \/ pc \in HoldsStock) => stock.kind = "stock"

\* As long as nobody writes the directory behind its back, a job's path leads to the
\* image that the manifest records, of the model that the job compares.
PathInv ==
  pc \in Flashing /\ FromDirectory /\ ~job.rewritten =>
    /\ manifest # NoFile /\ job.of = manifest.of
    /\ IF job.what = "flash" THEN patched = manifest.patched ELSE stock = manifest.stock

\* Behind the comparison the product is the job's, or somebody agreed.
ProductInv ==
  /\ pc \in {"fastboot", "lock", "product"} => ~job.told
  /\ pc \in {"confirm", "write"} /\ FromDirectory /\ job.told =>
       Model[dev] = job.of \/ job.agreed

JobInv == PathInv /\ ProductInv /\ ForeignBuildIsExcused

IInv == TypeOK /\ PhaseInv /\ ManifestInv /\ StockInv /\ JobInv
-----------------------------------------------------------------------------
(* Facts about images. *)

LEMMA StockFacts ==
  \A m \in Models : Stock(m) \in Image /\ Stock(m).kind = "stock" /\ Stock(m).of = m
BY DEF Stock, Image

LEMMA MadeFacts == \A i \in Image : Torn(i) \in Image /\ Magisked(i) \in Image
BY DEF Torn, Magisked, Image

LEMMA ImageFacts ==
  \A i \in Image : /\ i # NoFile /\ i.of \in Models
                   /\ i.kind = "stock" => i = Stock(i.of)
<1>1. \A i \in Image : i # NoFile
  BY NoFileAssumption
<1>2. \A i \in Image : i.of \in Models /\ (i.kind = "stock" => i = Stock(i.of))
  BY DEF Image, Stock
<1>3. QED BY <1>1, <1>2

LEMMA ManifestFacts ==
  \A r \in Manifest : r # NoFile /\ r.stock \in Image /\ r.patched \in Image /\ r.of \in Models
BY NoFileAssumption DEF Manifest

\* What is left of a file when a dump ends is an image, if there was one, or
\* the dump did not fail.
LEMMA DumpFacts ==
  ASSUME NEW had \in BOOLEAN, NEW loose \in BOOLEAN, NEW o \in DumpOutcomes(TRUE, had, loose)
  PROVE  /\ o.status \in {"ok", "failed"} /\ o.file \in {"copy", "torn", "old"}
         /\ o.file = "old" => had \/ o.status = "failed"
BY DEF DumpOutcomes

LEMMA InitInv == Init => IInv
<1> SUFFICES ASSUME Init PROVE IInv
  OBVIOUS
<1>1. \A p \in Phones : Model[p] \in Models
  BY ModelAssumption
<1>2. part \in [Phones -> Image] /\ running \in [Phones -> Image]
  BY <1>1, StockFacts DEF Init
<1>3. job \in Job
  BY <1>1, StockFacts DEF Init, Job
<1>4. TypeOK
  BY <1>2, <1>3 DEF Init, TypeOK
<1>5. PhaseInv /\ ManifestInv /\ StockInv
  BY DEF Init, PhaseInv, ManifestInv, StockInv, PairIsConsistent, HoldsStock
<1>6. \A p \in Phones : part[p].of = Model[p] /\ running[p].of = Model[p]
  BY <1>1, StockFacts DEF Init
<1>7. JobInv
  BY <1>6 DEF Init, JobInv, PathInv, ProductInv, ForeignBuildIsExcused, Flashing
<1>8. QED BY <1>4, <1>5, <1>7 DEF IInv

\* Outside flash and unroot nothing is promised but what the phones hold.
LEMMA NoJob ==
  ASSUME IInv, pc' \notin Flashing, UNCHANGED <<part, running, excused>>
  PROVE  JobInv'
BY DEF IInv, JobInv, PathInv, ProductInv, ForeignBuildIsExcused, Flashing
-----------------------------------------------------------------------------
(* Steps that change the phase only, within the phases that carry a promise *)
(* or out of all of them.                                                   *)

LEMMA StayStep ==
  ASSUME IInv,
         NEW step \in {"idle", "script", "pull", "product", "write"},
         Stay(step),
         step \in {"script", "pull"} => pc \in {"consent", "script"},
         step = "product" => pc = "lock", step = "write" => pc = "confirm"
  PROVE  IInv'
<1>1. /\ pc' = step
      /\ UNCHANGED <<dev, job, part, running, mode, stock, patched, manifest, source,
                     disturbed, excused, cmds>>
  BY DEF Stay, Goto, phonevars, dirvars
<1>2. TypeOK'
  BY <1>1 DEF IInv, TypeOK
<1>3. PhaseInv'
  BY <1>1 DEF IInv, PhaseInv, HoldsStock, Flashing
<1>4. ManifestInv'
  BY <1>1 DEF IInv, ManifestInv, PairIsConsistent
<1>5. StockInv'
  BY <1>1 DEF IInv, StockInv, HoldsStock, Flashing
<1>6. JobInv'
  BY <1>1 DEF IInv, JobInv, PathInv, ProductInv, ForeignBuildIsExcused, Flashing, FromDirectory
<1>7. QED BY <1>2, <1>3, <1>4, <1>5, <1>6 DEF IInv

LEMMA StaySteps ==
  ASSUME IInv,
         \/ ObtainNothing \/ PatchConsent \/ PatchDecline \/ ScriptOk \/ ScriptFails
         \/ NoFastboot \/ LockedRefused \/ LockPassed \/ Decline \/ Confirm \/ Stays
  PROVE  IInv'
<1>1. CASE ObtainNothing \/ PatchDecline \/ ScriptFails \/ NoFastboot \/ LockedRefused
           \/ Decline \/ Stays
  <2>1. Stay("idle")
    BY <1>1 DEF ObtainNothing, PatchDecline, ScriptFails, NoFastboot, LockedRefused, Decline, Stays
  <2>2. QED BY <2>1, StayStep
<1>2. CASE PatchConsent
  BY <1>2, StayStep DEF PatchConsent
<1>3. CASE ScriptOk
  BY <1>3, StayStep DEF ScriptOk
<1>4. CASE LockPassed
  BY <1>4, StayStep DEF LockPassed, Flashing
<1>5. CASE Confirm
  BY <1>5, StayStep DEF Confirm, Flashing
<1>6. QED BY <1>1, <1>2, <1>3, <1>4, <1>5
-----------------------------------------------------------------------------
(* patch. *)

LEMMA PatchStartStep == ASSUME IInv, NEW p \in Phones, PatchStart(p) PROVE IInv'
<1>1. /\ pc' = "obtain" /\ dev' = p /\ cmds' = cmds + 1
      /\ UNCHANGED <<job, part, running, mode, stock, patched, manifest, source, disturbed, excused>>
      /\ pc = "idle"
  BY DEF PatchStart, NewCmd, Goto, phonevars, dirvars
<1>2. TypeOK'
  BY <1>1 DEF IInv, TypeOK
<1>3. PhaseInv' /\ ManifestInv' /\ StockInv'
  BY <1>1 DEF IInv, PhaseInv, ManifestInv, PairIsConsistent, StockInv, HoldsStock
<1>4. JobInv'
  BY <1>1, NoJob DEF Flashing
<1>5. QED BY <1>2, <1>3, <1>4 DEF IInv

LEMMA ObtainFileStep == ASSUME IInv, ObtainFile PROVE IInv'
<1>1. PICK m \in Models : stock' = Stock(m)
  BY DEF ObtainFile
<1>2. /\ pc' = "consent" /\ source' = "file" /\ disturbed' = TRUE
      /\ UNCHANGED <<dev, job, part, running, mode, excused, patched, manifest, cmds>>
  BY DEF ObtainFile, Goto, phonevars
<1>3. stock' \in Image /\ stock' # NoFile /\ stock'.kind = "stock"
  BY <1>1, StockFacts, ImageFacts
<1>4. TypeOK'
  BY <1>2, <1>3 DEF IInv, TypeOK
<1>5. PhaseInv' /\ ManifestInv' /\ StockInv'
  BY <1>2, <1>3 DEF IInv, PhaseInv, ManifestInv, PairIsConsistent, StockInv, HoldsStock
<1>6. JobInv'
  BY <1>2, NoJob DEF Flashing
<1>7. QED BY <1>4, <1>5, <1>6 DEF IInv

LEMMA ObtainDumpStep == ASSUME IInv, ObtainDump PROVE IInv'
<1>1. PICK o \in DumpOutcomes(TRUE, stock # NoFile, FALSE) :
        /\ stock' = CASE o.file = "copy" -> part[dev]
                      [] o.file = "torn" -> Torn(part[dev])
                      [] o.file = "old" -> stock
        /\ pc' = IF o.status = "ok" THEN "consent" ELSE "idle"
  BY DEF ObtainDump, Goto
<1>2. /\ source' = "device" /\ disturbed' = TRUE
      /\ UNCHANGED <<dev, job, part, running, mode, excused, patched, manifest, cmds>>
  BY DEF ObtainDump, phonevars
<1>3. part[dev] \in Image /\ stock \in Image \cup {NoFile}
  BY DEF IInv, TypeOK
<1>4. stock' \in Image \cup {NoFile} /\ (pc' = "consent" => stock' # NoFile)
  <2>1. CASE o.file = "copy"
    <3>1. stock' = part[dev] BY <1>1, <2>1
    <3>2. QED BY <1>3, <3>1, ImageFacts
  <2>2. CASE o.file = "torn"
    <3>1. stock' = Torn(part[dev]) BY <1>1, <2>2
    <3>2. stock' \in Image BY <1>3, <3>1, MadeFacts
    <3>3. QED BY <3>2, ImageFacts
  <2>3. CASE o.file = "old"
    <3>1. stock' = stock BY <1>1, <2>3
    <3>2. stock # NoFile \/ o.status = "failed"
      BY <2>3, DumpFacts
    <3>3. QED BY <1>1, <1>3, <3>1, <3>2
  <2>4. QED BY <2>1, <2>2, <2>3, DumpFacts
<1>5. pc' \in {"consent", "idle"}
  BY <1>1
<1>6. TypeOK'
  BY <1>2, <1>4, <1>5 DEF IInv, TypeOK
<1>7. PhaseInv' /\ ManifestInv' /\ StockInv'
  BY <1>2, <1>4, <1>5 DEF IInv, PhaseInv, ManifestInv, PairIsConsistent, StockInv, HoldsStock
<1>8. JobInv'
  BY <1>2, <1>5, NoJob DEF Flashing
<1>9. QED BY <1>6, <1>7, <1>8 DEF IInv

\* The pulled file, whole or not, is an image.
LEMMA PulledFacts ==
  ASSUME IInv, pc = "pull"
  PROVE  /\ stock \in Image /\ disturbed /\ Magisked(stock) \in Image
         /\ \A i \in {patched, Torn(stock)} : i \in Image \cup {NoFile}
<1>1. stock \in Image /\ disturbed /\ patched \in Image \cup {NoFile}
  BY DEF IInv, TypeOK, PhaseInv, HoldsStock
<1>2. Magisked(stock) \in Image /\ Torn(stock) \in Image
  BY <1>1, MadeFacts
<1>3. QED BY <1>1, <1>2

LEMMA PullStep == ASSUME IInv, Pull \/ PullFails PROVE IInv'
<1>1. /\ pc = "pull" /\ disturbed' = TRUE
      /\ UNCHANGED <<dev, job, part, running, mode, excused, stock, manifest, source, cmds>>
  BY DEF Pull, PullFails, phonevars
<1>2. \/ pc' = "manifest" /\ patched' = Magisked(stock)
      \/ pc' = "idle" /\ patched' \in {patched, Torn(stock)}
  BY DEF Pull, PullFails, Goto
<1>3. patched' \in Image \cup {NoFile}
  BY <1>1, <1>2, PulledFacts
<1>4. TypeOK'
  BY <1>1, <1>2, <1>3 DEF IInv, TypeOK
<1>5. PhaseInv'
  BY <1>1, <1>2 DEF IInv, PhaseInv, HoldsStock, Magisked
<1>6. ManifestInv' /\ StockInv'
  BY <1>1, <1>2 DEF IInv, ManifestInv, PairIsConsistent, StockInv, HoldsStock
<1>7. JobInv'
  BY <1>1, <1>2, NoJob DEF Flashing
<1>8. QED BY <1>4, <1>5, <1>6, <1>7 DEF IInv

LEMMA WriteManifestStep == ASSUME IInv, WriteManifest PROVE IInv'
<1>1. /\ pc = "manifest" /\ pc' = "idle" /\ disturbed' = FALSE
      /\ manifest' = [of |-> Model[dev], stock |-> stock, patched |-> patched]
      /\ UNCHANGED <<dev, job, part, running, mode, excused, stock, patched, source, cmds>>
  BY DEF WriteManifest, Goto, phonevars
<1>2. stock \in Image /\ stock # NoFile /\ patched = Magisked(stock) /\ patched \in Image
  <2>1. stock \in Image /\ stock # NoFile /\ patched = Magisked(stock)
    BY <1>1 DEF IInv, TypeOK, PhaseInv, HoldsStock
  <2>2. Magisked(stock) \in Image BY <2>1, MadeFacts
  <2>3. QED BY <2>1, <2>2
<1>3. manifest' \in Manifest /\ manifest'.stock = stock /\ manifest'.patched = patched
  <2>1. Model[dev] \in Models BY ModelAssumption DEF IInv, TypeOK
  <2>2. QED BY <1>1, <1>2, <2>1 DEF Manifest
<1>4. TypeOK'
  BY <1>1, <1>3 DEF IInv, TypeOK
<1>5. PhaseInv' /\ JobInv'
  BY <1>1, NoJob DEF PhaseInv, HoldsStock, Flashing
<1>6. ManifestInv'
  <2>1. manifest'.patched = Magisked(manifest'.stock)
    BY <1>2, <1>3
  <2>2. PairIsConsistent'
    BY <1>1, <2>1 DEF PairIsConsistent, Magisked
  <2>3. QED BY <1>1, <1>2, <1>3, <2>2 DEF ManifestInv
<1>7. StockInv'
  BY <1>1 DEF IInv, StockInv, HoldsStock
<1>8. QED BY <1>4, <1>5, <1>6, <1>7 DEF IInv
-----------------------------------------------------------------------------
(* flash and unroot. *)

\* A new job of a directory or of a bare file; no phone was touched yet.
LEMMA NewJobStep ==
  ASSUME IInv, NEW what \in {"flash", "unroot"}, NEW bare \in Image \cup {NoFile},
         NEW of \in Models, NEW temporary \in BOOLEAN, NewJob(what, bare, of, temporary),
         pc' = "fastboot", cmds' = cmds + 1, UNCHANGED <<dev, phonevars, dirvars>>,
         bare = NoFile =>
           /\ manifest # NoFile /\ of = manifest.of
           /\ IF what = "flash" THEN patched = manifest.patched ELSE stock = manifest.stock
  PROVE  IInv'
<1>1. /\ job' \in Job /\ ~job'.told
      /\ job'.bare = bare /\ job'.what = what /\ job'.of = of
  BY DEF NewJob, Job
<1>2. UNCHANGED <<dev, part, running, mode, excused, stock, patched, manifest, source, disturbed>>
  BY DEF phonevars, dirvars
<1>3. TypeOK'
  BY <1>1, <1>2 DEF IInv, TypeOK
<1>4. PhaseInv' /\ ManifestInv' /\ StockInv'
  BY <1>2 DEF IInv, PhaseInv, ManifestInv, PairIsConsistent, StockInv, HoldsStock
<1>5. JobInv'
  BY <1>1, <1>2 DEF IInv, JobInv, PathInv, ProductInv, ForeignBuildIsExcused, FromDirectory
<1>6. QED BY <1>3, <1>4, <1>5 DEF IInv

LEMMA ResolveDirStep ==
  ASSUME IInv, NEW what \in {"flash", "unroot"}, NEW temporary \in BOOLEAN,
         ResolveDir(what, temporary)
  PROVE  IInv'
<1>1. /\ manifest # NoFile /\ NewJob(what, NoFile, manifest.of, temporary)
      /\ IF what = "flash" THEN patched = manifest.patched ELSE stock = manifest.stock
      /\ pc' = "fastboot" /\ cmds' = cmds + 1 /\ UNCHANGED <<dev, phonevars, dirvars>>
  BY DEF ResolveDir, NewCmd, Goto
<1>2. manifest.of \in Models
  BY <1>1, ManifestFacts DEF IInv, TypeOK
<1>3. QED BY <1>1, <1>2, NewJobStep

LEMMA ResolveImageStep ==
  ASSUME IInv, NEW what \in {"flash", "unroot"}, NEW image \in Image, NEW temporary \in BOOLEAN,
         ResolveImage(what, image, temporary)
  PROVE  IInv'
<1>1. /\ NewJob(what, image, image.of, temporary)
      /\ pc' = "fastboot" /\ cmds' = cmds + 1 /\ UNCHANGED <<dev, phonevars, dirvars>>
  BY DEF ResolveImage, NewCmd, Goto
<1>2. image # NoFile /\ image.of \in Models
  BY ImageFacts
<1>3. QED BY <1>1, <1>2, NewJobStep

LEMMA ResolveStep == ASSUME IInv, Resolve PROVE IInv'
<1>1. \A m \in Models : Stock(m) \in Image /\ Magisked(Stock(m)) \in Image
  BY StockFacts, MadeFacts
<1>2. ASSUME NEW temporary \in BOOLEAN, ResolveDir("flash", temporary) PROVE IInv'
  BY <1>2, ResolveDirStep
<1>3. ASSUME NEW temporary \in BOOLEAN, NEW m \in Models,
             ResolveImage("flash", Magisked(Stock(m)), temporary)
      PROVE  IInv'
  BY <1>1, <1>3, ResolveImageStep
<1>4. ASSUME ResolveDir("unroot", FALSE) PROVE IInv'
  BY <1>4, ResolveDirStep
<1>5. ASSUME NEW m \in Models, ResolveImage("unroot", Stock(m), FALSE) PROVE IInv'
  BY <1>1, <1>5, ResolveImageStep
<1>6. QED BY <1>2, <1>3, <1>4, <1>5 DEF Resolve

\* What a phone boots or holds after a step is of its own model, was there before,
\* or is excused.
Accounted ==
  \A p \in Phones :
    /\ part'[p].of \in {Model[p], part[p].of} \/ p \in excused'
    /\ running'[p].of \in {Model[p], running[p].of, part[p].of} \/ p \in excused'

\* Steps that leave the directory alone and end the command, go on with it, or
\* do not belong to it.
LEMMA PhoneStep ==
  ASSUME IInv,
         UNCHANGED <<job, stock, patched, manifest, source, disturbed, cmds>>,
         dev' \in Phones, part' \in [Phones -> Image], running' \in [Phones -> Image],
         mode' \in [Phones -> {"android", "fastboot"}],
         excused \subseteq excused', excused' \subseteq Phones, Accounted,
         \/ pc' = pc /\ dev' = dev
         \/ pc' \in {"idle", "reboot"}
         \/ pc = "fastboot" /\ pc' \in {"lock", "confirm"}
  PROVE  IInv'
<1>1. TypeOK'
  BY DEF IInv, TypeOK
<1>2. PhaseInv' /\ ManifestInv' /\ StockInv'
  BY DEF IInv, PhaseInv, ManifestInv, PairIsConsistent, StockInv, HoldsStock
<1>3. PathInv' /\ ProductInv'
  BY DEF IInv, JobInv, PathInv, ProductInv, FromDirectory, Flashing
<1>4. ForeignBuildIsExcused'
  BY DEF IInv, JobInv, ForeignBuildIsExcused, Accounted
<1>5. QED BY <1>1, <1>2, <1>3, <1>4 DEF IInv, JobInv

\* A phone boots what its partition holds.
LEMMA BootFacts ==
  ASSUME IInv, NEW p \in Phones, Boots(p)
  PROVE  /\ running' \in [Phones -> Image]
         /\ mode' \in [Phones -> {"android", "fastboot"}]
         /\ \A q \in Phones : running'[q].of \in {running[q].of, part[q].of}
<1>1. running' = [running EXCEPT ![p] = part[p]] /\ mode' = [mode EXCEPT ![p] = "android"]
  BY DEF Boots
<1>2. part[p] \in Image /\ running \in [Phones -> Image]
      /\ mode \in [Phones -> {"android", "fastboot"}]
  BY DEF IInv, TypeOK
<1>3. QED BY <1>1, <1>2

LEMMA ToFastbootStep ==
  ASSUME IInv, NEW serials \in SUBSET Phones, ToFastboot(serials)
  PROVE  IInv'
<1>1. PICK p \in Selected(serials) : dev' = p /\ mode' = [mode EXCEPT ![p] = "fastboot"]
  BY DEF ToFastboot
<1>2. p \in Phones
  BY DEF Selected, InFastboot
<1>3. /\ pc = "fastboot" /\ pc' \in {"confirm", "lock"}
      /\ UNCHANGED <<job, part, running, excused, stock, patched, manifest, source, disturbed, cmds>>
  BY DEF ToFastboot, Goto, dirvars
<1>4. /\ mode' \in [Phones -> {"android", "fastboot"}]
      /\ part' \in [Phones -> Image] /\ running' \in [Phones -> Image]
      /\ excused \subseteq excused' /\ excused' \subseteq Phones
  BY <1>1, <1>3 DEF IInv, TypeOK
<1>5. Accounted
  BY <1>3 DEF Accounted
<1>6. QED BY <1>1, <1>2, <1>3, <1>4, <1>5, PhoneStep

LEMMA CompareProductStep == ASSUME IInv, CompareProduct PROVE IInv'
<1>1. /\ pc = "product" /\ job' = [job EXCEPT !.told = TellsProduct]
      /\ pc' = IF ProductDiffers THEN "mismatch" ELSE "confirm"
      /\ UNCHANGED <<dev, part, running, mode, stock, patched, manifest, source, disturbed,
                     excused, cmds>>
  BY DEF CompareProduct, Goto, phonevars, dirvars
<1>2. TellsProduct \in BOOLEAN
  BY DEF TellsProduct
<1>3. /\ job' \in Job /\ job'.told = TellsProduct
      /\ job'.bare = job.bare /\ job'.what = job.what /\ job'.of = job.of
      /\ job'.rewritten = job.rewritten /\ job'.agreed = job.agreed
  BY <1>1, <1>2 DEF IInv, TypeOK, Job
<1>4. TypeOK'
  BY <1>1, <1>3 DEF IInv, TypeOK
<1>5. PhaseInv' /\ ManifestInv' /\ StockInv'
  BY <1>1 DEF IInv, PhaseInv, ManifestInv, PairIsConsistent, StockInv, HoldsStock
<1>6. PathInv' /\ ForeignBuildIsExcused'
  BY <1>1, <1>3 DEF IInv, JobInv, PathInv, ForeignBuildIsExcused, FromDirectory, Flashing
<1>7. ProductInv'
  BY <1>1, <1>3 DEF ProductInv, ProductDiffers, FromDirectory
<1>8. QED BY <1>4, <1>5, <1>6, <1>7 DEF IInv, JobInv

LEMMA AgreeMismatchStep == ASSUME IInv, AgreeMismatch PROVE IInv'
<1>1. /\ pc = "mismatch" /\ pc' = "confirm" /\ job' = [job EXCEPT !.agreed = TRUE]
      /\ UNCHANGED <<dev, part, running, mode, stock, patched, manifest, source, disturbed,
                     excused, cmds>>
  BY DEF AgreeMismatch, Goto, phonevars, dirvars
<1>2. /\ job' \in Job /\ job'.bare = job.bare /\ job'.what = job.what /\ job'.of = job.of
      /\ job'.rewritten = job.rewritten /\ job'.agreed
  BY <1>1 DEF IInv, TypeOK, Job
<1>3. TypeOK'
  BY <1>1, <1>2 DEF IInv, TypeOK
<1>4. PhaseInv' /\ ManifestInv' /\ StockInv'
  BY <1>1 DEF IInv, PhaseInv, ManifestInv, PairIsConsistent, StockInv, HoldsStock
<1>5. JobInv'
  BY <1>1, <1>2 DEF IInv, JobInv, PathInv, ProductInv, ForeignBuildIsExcused, FromDirectory, Flashing
<1>6. QED BY <1>3, <1>4, <1>5 DEF IInv

\* The image that fastboot finds under the path is of the phone's model, or somebody
\* was asked, or nothing could tell.
LEMMA CarriedFacts ==
  ASSUME IInv, pc = "write", Carried # NoFile, Given
  PROVE  /\ Carried \in Image /\ Torn(Carried) \in Image /\ Torn(Carried).of = Carried.of
         /\ excused \subseteq excused' /\ excused' \subseteq Phones
         /\ Carried.of = Model[dev] \/ dev \in excused'
<1>1. /\ stock \in Image \cup {NoFile} /\ patched \in Image \cup {NoFile}
      /\ job.bare \in Image \cup {NoFile} /\ dev \in Phones /\ excused \subseteq Phones
      /\ job.what \in {"flash", "unroot"}
  BY DEF IInv, TypeOK, Job
<1>2. Carried \in Image
  BY <1>1 DEF Carried
<1>3. Torn(Carried) \in Image /\ Torn(Carried).of = Carried.of
  BY <1>2 DEF Torn, Image
<1>4. excused \subseteq excused' /\ excused' \subseteq Phones
  BY <1>1 DEF Given
<1>5. ASSUME ~Unvouched PROVE Carried.of = Model[dev]
  <2>1. /\ FromDirectory /\ job.what = "flash" /\ ~job.rewritten /\ job.told /\ ~job.agreed
        /\ manifest.stock.of = manifest.of
    BY <1>1, <1>5 DEF Unvouched
  <2>2. manifest # NoFile /\ job.of = manifest.of /\ Carried = manifest.patched
    BY <2>1 DEF IInv, JobInv, PathInv, Flashing, Carried
  <2>3. manifest.patched = Magisked(manifest.stock) /\ manifest.stock \in Image
    BY <2>2, ManifestFacts DEF IInv, TypeOK, ManifestInv, PairIsConsistent
  <2>4. manifest.patched.of = manifest.stock.of
    BY <2>3 DEF Magisked, Image
  <2>5. Model[dev] = job.of
    BY <2>1 DEF IInv, JobInv, ProductInv
  <2>6. QED BY <2>1, <2>2, <2>4, <2>5
<1>6. Carried.of = Model[dev] \/ dev \in excused'
  BY <1>5 DEF Given
<1>7. QED BY <1>2, <1>3, <1>4, <1>6

LEMMA WriteStep ==
  ASSUME IInv, BootOnce \/ Flash \/ FlashFails \/ Reboot
  PROVE  IInv'
<1>1. /\ UNCHANGED <<dev, job, stock, patched, manifest, source, disturbed, cmds>>
      /\ pc' \in {"idle", "reboot"}
  BY DEF BootOnce, Flash, FlashFails, Reboot, Goto, dirvars
<1>2. /\ dev \in Phones /\ part \in [Phones -> Image] /\ running \in [Phones -> Image]
      /\ mode \in [Phones -> {"android", "fastboot"}] /\ excused \subseteq Phones
  BY DEF IInv, TypeOK
<1> DEFINE Kept == /\ part' \in [Phones -> Image] /\ running' \in [Phones -> Image]
                   /\ mode' \in [Phones -> {"android", "fastboot"}]
                   /\ excused \subseteq excused' /\ excused' \subseteq Phones
<1>3. Kept /\ Accounted
  <2>1. CASE BootOnce
    <3>1. /\ pc = "write" /\ Carried # NoFile /\ Given /\ part' = part
          /\ running' = [running EXCEPT ![dev] = Carried]
          /\ mode' = [mode EXCEPT ![dev] = "android"]
      BY <2>1 DEF BootOnce
    <3>2. QED BY <1>2, <3>1, CarriedFacts DEF Accounted
  <2>2. CASE Flash
    <3>1. /\ pc = "write" /\ Carried # NoFile /\ Given /\ running' = running /\ mode' = mode
          /\ part' = [part EXCEPT ![dev] = Carried]
      BY <2>2 DEF Flash
    <3>2. QED BY <1>2, <3>1, CarriedFacts DEF Accounted
  <2>3. CASE FlashFails
    <3>1. pc = "write" /\ running' = running /\ mode' = mode
      BY <2>3 DEF FlashFails
    <3>2. CASE UNCHANGED <<part, excused>>
      BY <1>2, <3>1, <3>2 DEF Accounted
    <3>3. CASE Carried # NoFile /\ Given /\ part' = [part EXCEPT ![dev] = Torn(Carried)]
      BY <1>2, <3>1, <3>3, CarriedFacts DEF Accounted
    <3>4. QED BY <2>3, <3>2, <3>3 DEF FlashFails
  <2>4. CASE Reboot
    <3>1. Boots(dev) /\ part' = part /\ excused' = excused
      BY <2>4 DEF Reboot
    <3>2. QED BY <1>2, <3>1, BootFacts DEF Accounted
  <2>5. QED BY <2>1, <2>2, <2>3, <2>4
<1>4. QED BY <1>1, <1>2, <1>3, PhoneStep
-----------------------------------------------------------------------------
(* The world. *)

LEMMA KillStep == ASSUME IInv, Kill PROVE IInv'
<1>1. /\ pc # "idle" /\ pc' = "idle"
      /\ stock' \in {stock} \cup (IF pc = "obtain" THEN {Torn(Stock(Model[dev]))} ELSE {})
      /\ patched' \in {patched} \cup (IF pc = "pull" THEN {Torn(stock)} ELSE {})
      /\ manifest' \in {manifest} \cup (IF pc = "manifest" THEN {NoFile} ELSE {})
      /\ disturbed' = (disturbed \/ pc = "obtain")
      /\ UNCHANGED <<dev, job, part, running, mode, excused, source, cmds>>
  BY DEF Kill, Goto, phonevars
<1>2. stock' \in Image \cup {NoFile}
  <2>1. Model[dev] \in Models
    BY ModelAssumption DEF IInv, TypeOK
  <2>2. Torn(Stock(Model[dev])) \in Image
    BY <2>1, StockFacts, MadeFacts
  <2>3. QED BY <1>1, <2>2 DEF IInv, TypeOK
<1>3. patched' \in Image \cup {NoFile}
  <2>1. CASE pc = "pull"
    BY <1>1, <2>1, PulledFacts
  <2>2. CASE pc # "pull"
    BY <1>1, <2>2 DEF IInv, TypeOK
  <2>3. QED BY <2>1, <2>2
<1>4. manifest' \in Manifest \cup {NoFile} /\ disturbed' \in BOOLEAN
  BY <1>1 DEF IInv, TypeOK
<1>5. TypeOK'
  BY <1>1, <1>2, <1>3, <1>4 DEF IInv, TypeOK
<1>6. PhaseInv' /\ JobInv'
  BY <1>1, NoJob DEF PhaseInv, HoldsStock, Flashing
<1>7. ~disturbed' => stock' = stock /\ patched' = patched
  BY <1>1 DEF IInv, PhaseInv, HoldsStock
<1>8. ManifestInv'
  <2>1. PairIsConsistent'
    BY <1>1 DEF IInv, ManifestInv, PairIsConsistent, Magisked
  <2>2. manifest' # NoFile => manifest' = manifest
    BY <1>1
  <2>3. QED BY <1>1, <1>7, <2>1, <2>2 DEF IInv, ManifestInv
<1>9. StockInv'
  BY <1>1, <1>7 DEF IInv, StockInv, HoldsStock
<1>10. QED BY <1>5, <1>6, <1>8, <1>9 DEF IInv

LEMMA PowerCycleStep == ASSUME IInv, NEW p \in Phones, PowerCycle(p) PROVE IInv'
<1>1. /\ UNCHANGED <<pc, dev, job, part, stock, patched, manifest, source, disturbed, excused, cmds>>
      /\ \/ Boots(p)
         \/ mode' = [mode EXCEPT ![p] = "fastboot"] /\ UNCHANGED running
  BY DEF PowerCycle, dirvars
<1>2. /\ running' \in [Phones -> Image] /\ mode' \in [Phones -> {"android", "fastboot"}]
      /\ \A q \in Phones : running'[q].of \in {running[q].of, part[q].of}
  <2>1. CASE Boots(p)
    BY <2>1, BootFacts
  <2>2. CASE mode' = [mode EXCEPT ![p] = "fastboot"] /\ UNCHANGED running
    BY <2>2 DEF IInv, TypeOK
  <2>3. QED BY <1>1, <2>1, <2>2
<1>3. dev' \in Phones /\ part' \in [Phones -> Image] /\ excused' \subseteq Phones
  BY <1>1 DEF IInv, TypeOK
<1>4. Accounted
  BY <1>1, <1>2 DEF Accounted
<1>5. QED BY <1>1, <1>2, <1>3, <1>4, PhoneStep

LEMMA OtherPatchStep == ASSUME IInv, NEW p \in Phones, OtherPatch(p) PROVE IInv'
<1>1. /\ pc \in Flashing /\ source' = "file" /\ cmds' = cmds + 1
      /\ job' = [job EXCEPT !.rewritten = TRUE]
      /\ UNCHANGED <<pc, dev, part, running, mode, excused>>
  BY DEF OtherPatch, phonevars
<1>2. PICK m \in Models : stock' = Stock(m)
  BY DEF OtherPatch
<1>3. \/ /\ patched' \in {patched, Torn(stock'), Magisked(stock')}
         /\ disturbed' = TRUE /\ manifest' = manifest
      \/ /\ patched' = Magisked(stock')
         /\ manifest' = [of |-> Model[p], stock |-> stock', patched |-> patched']
         /\ disturbed' = FALSE
  BY DEF OtherPatch
<1>4. /\ stock' \in Image /\ stock' # NoFile /\ stock'.kind = "stock"
      /\ Torn(stock') \in Image /\ Magisked(stock') \in Image
  BY <1>2, StockFacts, ImageFacts, MadeFacts
<1>5. patched' \in Image \cup {NoFile} /\ disturbed' \in BOOLEAN
  BY <1>3, <1>4 DEF IInv, TypeOK
<1>6. /\ manifest' \in Manifest \cup {NoFile}
      /\ manifest' # manifest =>
           /\ manifest'.stock = stock' /\ manifest'.patched = patched'
           /\ patched' = Magisked(stock')
  <2>1. Model[p] \in Models
    BY ModelAssumption
  <2>2. QED BY <1>3, <1>4, <2>1 DEF IInv, TypeOK, Manifest
<1>7. /\ job' \in Job /\ job'.bare = job.bare /\ job'.told = job.told /\ job'.of = job.of
      /\ job'.agreed = job.agreed /\ job'.rewritten
  BY <1>1 DEF IInv, TypeOK, Job
<1>8. TypeOK'
  BY <1>1, <1>4, <1>5, <1>6, <1>7 DEF IInv, TypeOK
<1>9. PhaseInv' /\ StockInv'
  BY <1>1, <1>4 DEF PhaseInv, StockInv, HoldsStock, Flashing
<1>10. ManifestInv'
  <2>1. CASE disturbed' = TRUE /\ manifest' = manifest
    BY <2>1 DEF IInv, ManifestInv, PairIsConsistent, Magisked
  <2>2. CASE /\ patched' = Magisked(stock') /\ disturbed' = FALSE
             /\ manifest' = [of |-> Model[p], stock |-> stock', patched |-> patched']
    <3>1. manifest'.stock = stock' /\ manifest'.patched = patched'
      BY <2>2
    <3>2. manifest'.patched = Magisked(manifest'.stock)
      BY <2>2, <3>1
    <3>3. PairIsConsistent'
      BY <3>2 DEF PairIsConsistent, Magisked
    <3>4. QED BY <1>4, <3>1, <3>3 DEF ManifestInv
  <2>3. QED BY <1>3, <2>1, <2>2
<1>11. JobInv'
  BY <1>1, <1>7 DEF IInv, JobInv, PathInv, ProductInv, ForeignBuildIsExcused, FromDirectory
<1>12. QED BY <1>8, <1>9, <1>10, <1>11 DEF IInv

LEMMA StepInv == IInv /\ [Next]_vars => IInv'
<1> SUFFICES ASSUME IInv, [Next]_vars PROVE IInv'
  OBVIOUS
<1>1. CASE Patch
  <2>1. ASSUME NEW p \in Phones, PatchStart(p) PROVE IInv'
    BY <2>1, PatchStartStep
  <2>2. CASE ObtainFile \/ ObtainDump \/ Pull \/ PullFails \/ WriteManifest
    BY <2>2, ObtainFileStep, ObtainDumpStep, PullStep, WriteManifestStep
  <2>3. CASE ObtainNothing \/ PatchConsent \/ PatchDecline \/ ScriptOk \/ ScriptFails
    BY <2>3, StaySteps
  <2>4. QED BY <1>1, <2>1, <2>2, <2>3 DEF Patch
<1>2. CASE Resolve
  BY <1>2, ResolveStep
<1>3. CASE Fastboot
  <2>1. ASSUME NEW serials \in {Phones} \cup {{p} : p \in Phones}, ToFastboot(serials)
        PROVE  IInv'
    <3>1. serials \in SUBSET Phones OBVIOUS
    <3>2. QED BY <2>1, <3>1, ToFastbootStep
  <2>2. CASE NoFastboot \/ LockedRefused \/ LockPassed \/ Decline \/ Confirm \/ Stays
    BY <2>2, StaySteps
  <2>3. CASE CompareProduct \/ AgreeMismatch
    BY <2>3, CompareProductStep, AgreeMismatchStep
  <2>4. CASE BootOnce \/ Flash \/ FlashFails \/ Reboot
    BY <2>4, WriteStep
  <2>5. QED BY <1>3, <2>1, <2>2, <2>3, <2>4 DEF Fastboot
<1>4. CASE World
  BY <1>4, KillStep, PowerCycleStep, OtherPatchStep DEF World
<1>5. CASE UNCHANGED vars
  <2>1. UNCHANGED <<pc, dev, job, part, running, mode, stock, patched, manifest, source,
                    disturbed, excused, cmds>>
    BY <1>5 DEF vars
  <2>2. /\ dev' \in Phones /\ part' \in [Phones -> Image] /\ running' \in [Phones -> Image]
        /\ mode' \in [Phones -> {"android", "fastboot"}] /\ excused' \subseteq Phones
    BY <2>1 DEF IInv, TypeOK
  <2>3. Accounted
    BY <2>1 DEF Accounted
  <2>4. QED BY <2>1, <2>2, <2>3, PhoneStep
<1>6. QED BY <1>1, <1>2, <1>3, <1>4, <1>5 DEF Next
-----------------------------------------------------------------------------
(* Theorems. *)

LEMMA Inductive == Spec => []IInv
BY InitInv, StepInv, PTL DEF Spec

\* Every variable keeps its type: what a dump or a dying pull leaves behind is
\* an image or no file, and a manifest is of two images (rooting.py:215-265).
THEOREM TypeCorrect == Spec => []TypeOK
<1>1. IInv => TypeOK BY DEF IInv
<1>2. QED BY Inductive, <1>1, PTL

\* For every set of phones and any number of patches that failed or died, a
\* manifest records a stock image and what Magisk made of it (rooting.py:256-265).
THEOREM ManifestIsOfPair == Spec => []PairIsConsistent
<1>1. IInv => PairIsConsistent BY DEF IInv, ManifestInv
<1>2. QED BY Inductive, <1>1, PTL

\* For every map of phones to models and any number of patches that failed, died or
\* ran beside a flash: an image of another model reaches a phone by `root flash DIR`
\* only in the ways that Unvouched lists (rooting.py:288-312, 335-339).
THEOREM ForeignBuildIsAsked == Spec => []ForeignBuildIsExcused
<1>1. IInv => ForeignBuildIsExcused
  BY DEF IInv, JobInv
<1>2. QED BY Inductive, <1>1, PTL

\* A phone that carries the patched image of an undisturbed directory made of a
\* stock file finds there the stock image of its own build (rooting.py:364-375).
THEOREM WayBackExists == Spec => []GoingBackIsPossible
<1>1. ASSUME IInv, NEW p \in Phones, ~disturbed, source = "file", manifest # NoFile,
             part[p] = manifest.patched
      PROVE  stock = manifest.stock /\ stock = Stock(part[p].of)
  <2>1. stock = manifest.stock /\ patched = manifest.patched /\ stock # NoFile
        /\ stock.kind = "stock" /\ manifest.patched = Magisked(manifest.stock)
    BY <1>1 DEF IInv, ManifestInv, StockInv, PairIsConsistent
  <2>2. stock \in Image
    BY <1>1, <2>1 DEF IInv, TypeOK
  <2>3. stock = Stock(stock.of)
    BY <2>1, <2>2, ImageFacts
  <2>4. part[p].of = stock.of
    BY <1>1, <2>1, <2>2 DEF Magisked, Image
  <2>5. QED BY <2>1, <2>3, <2>4
<1>2. IInv => GoingBackIsPossible
  BY <1>1 DEF GoingBackIsPossible
<1>3. QED BY Inductive, <1>2, PTL
=============================================================================
