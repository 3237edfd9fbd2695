------------------------------- MODULE RootFlow -------------------------------
(***************************************************************************)
(* `mrt root patch`, `flash` and `unroot`: modules/rooting.py.  patch      *)
(* keeps a stock image in a directory, has Magisk's script patch it on the *)
(* phone, pulls the result and writes a manifest last; flash puts the      *)
(* patched image on a phone in fastboot, or boots it once; unroot puts the *)
(* stock image back.  Commands follow each other over one directory, on    *)
(* whichever phones are attached, and may die between any two steps;       *)
(* another session may patch into the directory while a flash waits.  The  *)
(* phones, their bootloaders and Magisk's script are external.             *)
(***************************************************************************)
EXTENDS Naturals, Outcomes

CONSTANTS Phones, Models,
          Model,       \* phone -> its model; an image is of one model's build
          NoFile,      \* "there is no such file"
          Locked,      \* phones whose bootloader is locked
          Mute,        \* phones whose bootloader does not tell its lock state
          Nameless,    \* phones whose bootloader does not tell its product
          MaxCmds      \* bound: commands started, those of another session included

ASSUME ModelAssumption == Model \in [Phones -> Models]
ASSUME BootloaderAssumption == Locked \cup Mute \cup Nameless \subseteq Phones

VARIABLES
  pc,        \* phase of the running command
  dev,       \* the phone it works on
  job,       \* what flash or unroot is about to write
  part,      \* phone -> contents of its boot (or init_boot) partition
  running,   \* phone -> the boot image it was started with
  mode,      \* phone -> "android" or "fastboot"
  stock,     \* stock-<target>.img of the directory
  patched,   \* magisk_patched-<target>.img
  manifest,  \* root-manifest.json
  source,    \* history: where the directory's stock image came from
  disturbed, \* history: a patch after the last complete one touched the directory
  excused,   \* history: phones that were given an image nobody vouched for
  cmds

dirvars == <<stock, patched, manifest, source, disturbed>>
phonevars == <<part, running, mode, excused>>
vars == <<pc, dev, job, part, running, mode, stock, patched, manifest, source,
          disturbed, excused, cmds>>

Image == [kind : {"stock", "patched", "torn"}, of : Models]
Stock(m) == [kind |-> "stock", of |-> m]
Torn(i) == [i EXCEPT !.kind = "torn"]

\* boot_patch.sh: the same for a stock image and for one that is patched already.
Magisked(i) == IF i.kind = "torn" THEN i ELSE [i EXCEPT !.kind = "patched"]

Manifest == [of : Models, stock : Image, patched : Image]
ASSUME NoFileAssumption == NoFile \notin Image \cup Manifest

\* A job holds the path of its image: bare is what a bare file holds, and NoFile if
\* the image is one of the directory's.  told: the bootloader told its product;
\* rewritten (history): the directory was written since the image was hashed.
Job == [what : {"flash", "unroot"}, bare : Image \cup {NoFile}, of : Models,
        temporary : BOOLEAN, agreed : BOOLEAN, told : BOOLEAN, rewritten : BOOLEAN]
FromDirectory == job.bare = NoFile

\* flash and unroot before the write ends.
Flashing == {"fastboot", "lock", "product", "mismatch", "confirm", "write"}

Rooted(p) == mode[p] = "android" /\ running[p].kind = "patched"

TypeOK ==
  /\ pc \in {"idle", "obtain", "consent", "script", "pull", "manifest", "fastboot", "lock",
             "product", "mismatch", "confirm", "write", "reboot"}
  /\ dev \in Phones
  /\ job \in Job
  /\ part \in [Phones -> Image] /\ running \in [Phones -> Image]
  /\ mode \in [Phones -> {"android", "fastboot"}]
  /\ stock \in Image \cup {NoFile} /\ patched \in Image \cup {NoFile}
  /\ manifest \in Manifest \cup {NoFile}
  /\ source \in {"none", "file", "device"}
  /\ disturbed \in BOOLEAN /\ excused \subseteq Phones
  /\ cmds \in Nat

Init ==
  /\ pc = "idle" /\ dev \in Phones
  /\ job = [what |-> "flash", bare |-> NoFile, of |-> Model[dev], temporary |-> FALSE,
            agreed |-> FALSE, told |-> FALSE, rewritten |-> FALSE]
  /\ part = [p \in Phones |-> Stock(Model[p])] /\ running = part
  /\ mode \in [Phones -> {"android", "fastboot"}]
  /\ stock = NoFile /\ patched = NoFile /\ manifest = NoFile
  /\ source = "none" /\ disturbed = FALSE /\ excused = {}
  /\ cmds = 0

NewCmd == pc = "idle" /\ cmds < MaxCmds /\ cmds' = cmds + 1
Goto(step) == pc' = step
Stay(step) == Goto(step) /\ UNCHANGED <<dev, job, phonevars, dirvars, cmds>>

-----------------------------------------------------------------------------
(* patch.                                                                  *)

PatchStart(p) == /\ NewCmd /\ mode[p] = "android"
                 /\ dev' = p
                 /\ Goto("obtain")
                 /\ UNCHANGED <<job, phonevars, dirvars>>

\* obtain_stock_image: copy the operator's image (of this model, or by mistake
\* another one), or dump the partition if the phone is rooted.  The older stock
\* image is overwritten at once, also by a dump that fails.
ObtainFile == /\ pc = "obtain"
              /\ \E m \in Models : stock' = Stock(m)
              /\ source' = "file" /\ disturbed' = TRUE
              /\ Goto("consent")
              /\ UNCHANGED <<dev, job, phonevars, patched, manifest, cmds>>

ObtainDump ==
  /\ pc = "obtain" /\ Rooted(dev)
  /\ \E o \in DumpOutcomes(TRUE, stock # NoFile, FALSE) :
       /\ stock' = CASE o.file = "copy" -> part[dev]
                     [] o.file = "torn" -> Torn(part[dev])
                     [] o.file = "old" -> stock
       /\ Goto(IF o.status = "ok" THEN "consent" ELSE "idle")
  /\ source' = "device" /\ disturbed' = TRUE
  /\ UNCHANGED <<dev, job, phonevars, patched, manifest, cmds>>

ObtainNothing == pc = "obtain" /\ ~Rooted(dev) /\ Stay("idle")

PatchConsent == pc = "consent" /\ Stay("script")
PatchDecline == pc = "consent" /\ Stay("idle")

\* Push, boot_patch.sh; a script that fails, or leaves no file, ends the command.
ScriptOk == pc = "script" /\ Stay("pull")

ScriptFails == pc = "script" /\ Stay("idle")

\* adb pull over the older patched image; it may fail half way.
Pull == /\ pc = "pull"
        /\ patched' = Magisked(stock)
        /\ disturbed' = TRUE
        /\ Goto("manifest")
        /\ UNCHANGED <<dev, job, phonevars, stock, manifest, source, cmds>>

\* Mutant: the pulled file is not looked at.
PullUnchecked == /\ pc = "pull"
                 /\ patched' \in {patched, Torn(stock)}
                 /\ disturbed' = TRUE
                 /\ Goto("manifest")
                 /\ UNCHANGED <<dev, job, phonevars, stock, manifest, source, cmds>>

PullFails == /\ pc = "pull"
             /\ patched' \in {patched, Torn(stock)}
             /\ disturbed' = TRUE
             /\ Goto("idle")
             /\ UNCHANGED <<dev, job, phonevars, stock, manifest, source, cmds>>

\* Mutant: the manifest keeps the stock image of the first patch.
WriteManifestKeeps ==
  /\ pc = "manifest"
  /\ manifest' = [of |-> Model[dev], patched |-> patched,
                  stock |-> IF manifest = NoFile THEN stock ELSE manifest.stock]
  /\ disturbed' = FALSE
  /\ Goto("idle")
  /\ UNCHANGED <<dev, job, phonevars, stock, patched, source, cmds>>

\* The hashes of both files are taken now; a manifest is what flash looks for.
WriteManifest ==
  /\ pc = "manifest"
  /\ manifest' = [of |-> Model[dev], stock |-> stock, patched |-> patched]
  /\ disturbed' = FALSE
  /\ Goto("idle")
  /\ UNCHANGED <<dev, job, phonevars, stock, patched, source, cmds>>

-----------------------------------------------------------------------------
(* flash and unroot.                                                       *)

NewJob(what, bare, of, temporary) ==
  job' = [what |-> what, bare |-> bare, of |-> of, temporary |-> temporary,
          agreed |-> FALSE, told |-> FALSE, rewritten |-> FALSE]

\* Mutant: the image is not hashed.
ResolveDirUnhashed(what, temporary) ==
  /\ NewCmd /\ manifest # NoFile
  /\ NewJob(what, NoFile, manifest.of, temporary)
  /\ Goto("fastboot")
  /\ UNCHANGED <<dev, phonevars, dirvars>>

\* _resolve_image with a directory: the hash of the file must be the manifest's.
\* Only the path of the file goes on to the write.
ResolveDir(what, temporary) ==
  /\ NewCmd /\ manifest # NoFile
  /\ IF what = "flash" THEN patched = manifest.patched ELSE stock = manifest.stock
  /\ NewJob(what, NoFile, manifest.of, temporary)
  /\ Goto("fastboot")
  /\ UNCHANGED <<dev, phonevars, dirvars>>

\* A bare image file carries no manifest: no hash and no model to compare.
ResolveImage(what, image, temporary) ==
  /\ NewCmd
  /\ NewJob(what, image, image.of, temporary)
  /\ Goto("fastboot")
  /\ UNCHANGED <<dev, phonevars, dirvars>>

\* _to_fastboot: a phone that is in fastboot is preferred, whichever it is;
\* with --serial only that phone counts.
InFastboot == {p \in Phones : mode[p] = "fastboot"}

Selected(serials) == IF InFastboot \cap serials # {} THEN InFastboot \cap serials
                     ELSE serials

ToFastboot(serials) ==
  /\ pc = "fastboot"
  /\ \E p \in Selected(serials) :
       /\ dev' = p
       /\ mode' = [mode EXCEPT ![p] = "fastboot"]
  /\ Goto(IF job.what = "unroot" THEN "confirm" ELSE "lock")
  /\ UNCHANGED <<job, part, running, excused, dirvars, cmds>>

NoFastboot == pc = "fastboot" /\ Stay("idle")

\* is_unlocked(): False ends the command, None is only a warning.  A phone that
\* has left fastboot meanwhile answers nothing.
TellsLocked == dev \in Locked \ Mute /\ mode[dev] = "fastboot"
LockedRefused == pc = "lock" /\ TellsLocked /\ Stay("idle")
LockPassed == pc = "lock" /\ ~TellsLocked /\ Stay("product")

\* unroot asks neither for the lock state nor for the product.
TellsProduct == dev \notin Nameless /\ mode[dev] = "fastboot"
ProductDiffers == FromDirectory /\ TellsProduct /\ Model[dev] # job.of

CompareProduct == /\ pc = "product"
                  /\ job' = [job EXCEPT !.told = TellsProduct]
                  /\ Goto(IF ProductDiffers THEN "mismatch" ELSE "confirm")
                  /\ UNCHANGED <<dev, phonevars, dirvars, cmds>>

AgreeMismatch == /\ pc = "mismatch"
                 /\ job' = [job EXCEPT !.agreed = TRUE]
                 /\ Goto("confirm")
                 /\ UNCHANGED <<dev, phonevars, dirvars, cmds>>

Decline == pc \in {"mismatch", "confirm"} /\ Stay("idle")
Confirm == pc = "confirm" /\ Stay("write")

\* What fastboot finds under the path now, after the wait and the prompts.
Carried == IF ~FromDirectory THEN job.bare ELSE IF job.what = "flash" THEN patched ELSE stock

\* Nobody vouches for the build of an image if it is a bare file, goes back by
\* unroot, was written since it was hashed, or was recorded as of a model it is not
\* of (the operator's stock file was of another build); nor for the phone, if its
\* bootloader told no product or the operator typed MISMATCH.
Unvouched == \/ ~FromDirectory \/ job.what = "unroot" \/ job.rewritten
             \/ manifest.stock.of # manifest.of
             \/ ~job.told \/ job.agreed

Given == excused' = IF Unvouched THEN excused \cup {dev} ELSE excused

\* fastboot boot: nothing is written.
BootOnce == /\ pc = "write" /\ job.temporary /\ mode[dev] = "fastboot" /\ Carried # NoFile
            /\ running' = [running EXCEPT ![dev] = Carried]
            /\ mode' = [mode EXCEPT ![dev] = "android"]
            /\ Given
            /\ Goto("idle")
            /\ UNCHANGED <<dev, job, part, dirvars, cmds>>

Flash == /\ pc = "write" /\ ~job.temporary /\ mode[dev] = "fastboot" /\ Carried # NoFile
         /\ part' = [part EXCEPT ![dev] = Carried]
         /\ Given
         /\ Goto("reboot")
         /\ UNCHANGED <<dev, job, running, mode, dirvars, cmds>>

\* A flash that fails raises; the transfer may have begun.
FlashFails == /\ pc = "write"
              /\ \/ UNCHANGED <<part, excused>>
                 \/ /\ ~job.temporary /\ mode[dev] = "fastboot" /\ Carried # NoFile
                    /\ part' = [part EXCEPT ![dev] = Torn(Carried)]
                    /\ Given
              /\ Goto("idle")
              /\ UNCHANGED <<dev, job, running, mode, dirvars, cmds>>

\* --no-reboot, or a reboot nobody checks: the phone stays in fastboot.
Stays == pc = "reboot" /\ Stay("idle")

Boots(p) == /\ running' = [running EXCEPT ![p] = part[p]]
            /\ mode' = [mode EXCEPT ![p] = "android"]

Reboot == /\ pc = "reboot"
          /\ Boots(dev)
          /\ Goto("idle")
          /\ UNCHANGED <<dev, job, part, excused, dirvars, cmds>>

-----------------------------------------------------------------------------
(* The world.                                                              *)

\* The tool dies; what it was writing is left torn.
Kill == /\ pc # "idle"
        /\ Goto("idle")
        /\ stock' \in {stock} \cup (IF pc = "obtain" THEN {Torn(Stock(Model[dev]))} ELSE {})
        /\ patched' \in {patched} \cup (IF pc = "pull" THEN {Torn(stock)} ELSE {})
        /\ manifest' \in {manifest} \cup (IF pc = "manifest" THEN {NoFile} ELSE {})
        /\ disturbed' = (disturbed \/ pc = "obtain")
        /\ UNCHANGED <<dev, job, phonevars, source, cmds>>

\* The technician restarts a phone, or brings it to fastboot by its keys.
PowerCycle(p) == /\ pc \notin {"write", "script", "pull"} \/ p # dev
                 /\ \/ Boots(p)
                    \/ mode' = [mode EXCEPT ![p] = "fastboot"] /\ UNCHANGED running
                 /\ UNCHANGED <<pc, dev, job, part, excused, dirvars, cmds>>

\* While flash or unroot waits, another session patches a phone into the same
\* directory, as far as it gets: its stock image, its patched image, its manifest.
OtherPatch(p) ==
  /\ pc \in Flashing /\ mode[p] = "android"
  /\ cmds < MaxCmds /\ cmds' = cmds + 1
  /\ \E m \in Models : stock' = Stock(m)
  /\ source' = "file"
  /\ \/ /\ patched' \in {patched, Torn(stock'), Magisked(stock')}
        /\ disturbed' = TRUE /\ UNCHANGED manifest
     \/ /\ patched' = Magisked(stock')
        /\ manifest' = [of |-> Model[p], stock |-> stock', patched |-> patched']
        /\ disturbed' = FALSE
  /\ job' = [job EXCEPT !.rewritten = TRUE]
  /\ UNCHANGED <<pc, dev, phonevars>>

-----------------------------------------------------------------------------
Patch == \/ \E p \in Phones : PatchStart(p)
         \/ ObtainFile \/ ObtainDump \/ ObtainNothing \/ PatchConsent \/ PatchDecline
         \/ ScriptOk \/ ScriptFails \/ Pull \/ PullFails \/ WriteManifest

Resolve == \/ \E temporary \in BOOLEAN :
                \/ ResolveDir("flash", temporary)
                \/ \E m \in Models : ResolveImage("flash", Magisked(Stock(m)), temporary)
           \/ ResolveDir("unroot", FALSE)
           \/ \E m \in Models : ResolveImage("unroot", Stock(m), FALSE)

Fastboot == \/ \E serials \in {Phones} \cup {{p} : p \in Phones} : ToFastboot(serials)
            \/ NoFastboot \/ LockedRefused \/ LockPassed
            \/ CompareProduct \/ AgreeMismatch \/ Decline \/ Confirm
            \/ BootOnce \/ Flash \/ FlashFails \/ Stays \/ Reboot

World == Kill \/ \E p \in Phones : PowerCycle(p) \/ OtherPatch(p)

Next == Patch \/ Resolve \/ Fastboot \/ World

Spec == Init /\ [][Next]_vars

-----------------------------------------------------------------------------
(* Properties.                                                             *)

\* A manifest records a pair: the patched image is what the script made of the
\* stock image recorded with it, however many patches over the same directory
\* failed or died before and after (rooting.py:228, 250, 256-265).
PairIsConsistent == manifest # NoFile => manifest.patched = Magisked(manifest.stock)

\* A phone gets an image of another model's build from `root flash DIR` only if
\* somebody was asked or nothing could tell: the directory's image files may be of
\* a patch for another phone that died before its manifest, and whichever phone is
\* in fastboot is taken.  The ways that stay open are those of Unvouched
\* (rooting.py:288-312, 335-339).
ForeignBuildIsExcused ==
  \A p \in Phones :
    (part[p].of # Model[p] \/ running[p].of # Model[p]) => p \in excused

\* A phone that carries the patched image of a directory made of a stock file
\* can go back by `unroot`: the image that passes unroot's hash check is the
\* stock image of that very build, until another patch touches the directory,
\* whichever failed or killed patches came before (rooting.py:16, 364-375).
GoingBackIsPossible ==
  \A p \in Phones :
    (/\ ~disturbed /\ source = "file"
     /\ manifest # NoFile /\ part[p] = manifest.patched)
       => stock = manifest.stock /\ stock = Stock(part[p].of)
=============================================================================
