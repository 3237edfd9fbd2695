# mrt in TLA+

`mrt` is a command-line toolkit with which a technician repairs phones over
`adb` and `fastboot`.  It reads and writes raw partitions, backs up and restores
the partitions that hold the radio identity (EFS / NV), flashes firmware, and
roots phones.  Every one of these can leave a phone without its IMEI or unable
to boot, and each is a sequence of calls to a phone that may restart, lose its
cable, answer late or not answer.  This directory holds a TLA+ model of those
sequences, the instances TLC checks and the theorems TLAPS proves.

Source lines are given as in the repository (`partitions.py:253` is
`mrt/modules/partitions.py`, line 253).

## 1. The system

| Part | Code | State | Operations |
|---|---|---|---|
| Command runner | `core/runner.py` | child process, pump thread, pipe, output file | `run`, `_run_to_file`, `popen_stream` |
| Device layer | `core/device.py` | chosen serial, cached root mode and properties | `select_device`, `root_mode`, `ensure_root`, `root_command`, `push`/`pull`, `remote_sha256`, `wait_for_fastboot`, `is_unlocked` |
| Session | `core/context.py`, `menu.py`, `cli.py` | one phone and one root mode for a whole menu session | `adb()`, `fastboot()`, the command handlers |
| Confirmation | `core/safety.py` | none | typed tokens, `--yes` |
| Raw partitions | `modules/partitions.py` | partition, upload in `/data/local/tmp`, image file | `dump_partition`, `write_partition`, `dump_range`, `dump_all`, `compare_partition`, `wipe_partition` |
| EFS / NV | `modules/efs.py` | backup directory: images and `efs-manifest.json`; rollback directory | `backup`, `restore`, `rebuild_modemst`, `mtk_rebuild_nvdata`, analysis |
| ROM flashing | `modules/flash.py`, `utils/payload.py` | image directory, plan, believed fastboot mode | `plan_flash`, `flash_directory`, `flash_payload` |
| Rooting | `modules/rooting.py` | `stock-*.img`, `magisk_patched-*.img`, `root-manifest.json` | `patch`, `flash`, `unroot`, `status` |
| Full backup | `modules/backup.py`, `dump_all` | images, `partitions/manifest.json`, `manifest.json` | `create`, `verify`, `restore` |
| OTA payload | `utils/payload.py` | images in the work directory | `extract_partition`, `extract_all` |
| QCN files | `utils/qcn.py`, `cli.py:593-617` | the QCN, a compound file | read, edit in place, rebuild |
| Modem images | `utils/efs2.py`, `mtknv.py`, `efs.py:337-432` | none; reads dumps of a modem that keeps writing | `analyze_bytes`, `check_images`, `compare_mirror` |
| Fastboot, recovery | `modules/fastboot_ops.py`, `recovery.py` | mode of the phone | lock/unlock, sideload, wipe |
| NV checksums | `utils/nvchecksum.py` | none | IMEI check digit, sums |
| The rest | apps, info, logs, screen, output, oplog | none that is read back | single adb calls, reports |

How the parts interact: every operation is a chain of blocking calls made by one
host process.  There is no lock, no journal and no daemon.  What makes it hard:

* **A call that is given up is not over.**  `run()` returns 124 at a timeout, but
  a `dd` on the phone may run on; `_run_to_file` joins its thread for 30 seconds
  and goes on whatever the thread does, in a menu session into the next command.
* **Steps that fail quietly.**  `... ; sync` hides the status of `dd`, a missing
  `sha256sum` gives `None`, reboots are not checked.
* **Files written in several steps.**  Images first and the manifest last, over
  whatever an earlier command left in the same directory; any step may be the
  last one.
* **State that is remembered.**  The mode a phone is believed to be in, the root
  mode, the chosen phone, the hash of an image taken before a prompt, the path under which it
  was dumped.
* **Other actors.**  A running modem writes the partitions, phones are plugged,
  unplugged and restarted by hand.

What makes the parts correct:

| Part | It is correct when | Stated as |
|---|---|---|
| Raw write | a write called verified is on the partition, a refused one left it alone, and a command ends | `VerifiedMeansWritten`, `TornWriteIsMixture`, `ImplementsContract`, `CommandEnds` |
| Raw dump | an image without a warning is the partition, or the range that was asked for | `VerifiedDumpIsSnapshot`, `UnwarnedDumpIsCopy`, `EndsAsOutcome`, `DumpEnds` |
| EFS / NV groups | what is overwritten can be had back, the manifest is true, an image of another model is asked about | `RollbackCoversOverwrites`, `VerifiedEntryIsImage`, `ForeignImageNeedsToken` |
| modemst / nvdata rebuild | no phone loses its last usable NV, what was erased is in the backup, a rebuild takes effect | `RadioSurvives`, `BackupHoldsErased`, `RebuildSticks` |
| ROM flashing | a prefix of the plan is on the phone, each image flashed in its mode | `PlanPrefixIsFlashed`, `LogicalInFastbootd`, `OnlyWantedIsFlashed`, `FlashEnds` |
| Rooting | stock and patched image belong together, a phone gets the build of another model only with an excuse, and there is a way back | `PairIsConsistent`, `ForeignBuildIsExcused`, `GoingBackIsPossible` |
| Session | what is remembered of a phone is true of it, and only the phone that was named is touched | `RootModeStaysTrue`, `RefusalIsRight`, `NamedPhoneOnly` |
| Full backup | `verify` blames what is damaged, restore gives back what was dumped | `BlameHasCause`, `MismatchGuardsImages`, `RestoreGivesBack` |
| OTA payload | a reported image is what the payload describes, but for damage in its own data | `ReportedIsIntended`, `RefusedIsNotTouched` |
| QCN files | an edit changes its item and nothing else, and no two streams share a place | `EditIsExact`, `InPlaceKeepsContainer`, `ContainersAreSound`, `RefusedInPlaceKeepsFile` |
| Modem images | what is called live, newest, usable or in order is | `LiveIsLatest`, `NewestMirrorIsLatest`, `OkMeansGenuine`, `UsableRegionLacksItsEndOnly` |
| Recovery, lock/unlock, NV checksums | nothing stated: the choice of the phone for a reboot or a fastboot command is in `MenuSession`, the rest forwards single calls or is a stateless sum | |

`PROJECT.json` lists the hazards one by one with the properties about each.

## 2. Modules

| Module | Code | What it is |
|---|---|---|
| `WriteContract` | `write_partition`, as its callers use it | abstract: which reports of a write may be trusted |
| `PartWrite` | `partitions.py:217-272`, `device.py`, `runner.py:160-190` | the write block by block; implements `WriteContract` |
| `PartDump` | `partitions.py:107-178`, `runner.py:192-230` | the dump of a partition or a range: dd, pipe, thread, file, hashes |
| `Outcomes` | results of the two functions | the sets of results the modules below choose from |
| `EfsGroup` | `efs.py:90-242` | backup and restore of NV groups over one directory |
| `EfsRebuild` | `efs.py:429-558` | the erase of modemst1 and modemst2, or of nvdata, and the firmware that refills them |
| `RomFlash` | `flash.py`, `device.py:223-347` | the flash plan and the two fastboot modes |
| `RootFlow` | `rooting.py` | patch, flash and unroot over one directory |
| `MenuSession` | `context.py`, `device.py:50-220`, `recovery.py:18-41` | the phones and the root mode a session caches, and the choice of a phone |
| `BackupDir` | `backup.py`, `partitions.py:182-215` | the partition images of a full backup and their two manifests |
| `Payload` | `payload.py`, `flash.py:117-135` | extraction of images from a payload, extent by extent |
| `QcnContainer` | `qcn.py` | pure: the compound file laid out and read back |
| `QcnFile` | `qcn.py`, `cli.py:593-617` | `efs qcn edit`, in place and by rebuild, over `QcnContainer` |
| `ModemImages` | `efs2.py`, `mtknv.py`, `efs.py:337-432` | what is said of dumps of EFS2, nvram and nvdata |

Every `MC*` module gives the constants of one of these for TLC.  `PartWrite_proofs`,
`PartDump_proofs`, `EfsGroup_proofs`, `RootFlow_proofs`, `MenuSession_proofs` and
`BackupDir_proofs` hold the theorems about the module they are named after (section 5),
`Flash_proofs` those about `Payload` and `RomFlash`, the two halves of `mrt rom payload`,
and `Modem_proofs` those about `EfsRebuild`, `ModemImages` and `QcnFile`, the three about
what NV is kept in.  So that such a module can extend all of its own, `Payload`,
`ModemImages` and `QcnFile` call their parts `ExtractInit`, `ImagesNext`, `EditSpec` and so on.

The modules about groups, rebuilds, backups and rooting do not repeat the block-level
models: each dump or write in them is one step whose result comes from
`Outcomes`.  What `Outcomes` excludes is what `PartDump` and `PartWrite`
establish: every end of a dump is one of `DumpOutcomes` (`EndsAsOutcome`, checked and
proved), as long as no thread of an earlier dump of the same process still writes the same file, and the reports of a write are those of the contract (`ImplementsContract`).
`EndsAsOutcome` is as exact as it looks: a dump may be verified although the operator has
seen a warning (the size was taken while a late thread was still writing) or a traceback (the
thread could not open the file, and an older image is equal to the partition), and a file that
did not verify may become a copy later.  `BackupDir` has the threads that outlive a dump as steps of
its own.  `EfsGroup`, `EfsRebuild` and `RootFlow` leave them out: each of their commands dumps a file
once, so that a thread can spoil the file of another dump there only if a menu session repeats a
command over the same directory within the life of that thread.

Conventions.  A SHA-256 is the contents it was taken of.  Contents are values of
small sets: a sequence of blocks where the order of blocks matters
(`PartWrite`, `PartDump`), and one value such as an NV generation, `"torn"` or
`"zero"` elsewhere.  `pc` names the phase of the function that runs; a phase
ends where the code makes a call that can fail, be interrupted, or interleave
with something else.  Prompts are actions (`Confirm`, `Decline`, ...); `--yes` is
the behaviour in which each prompt is confirmed.  `Kill`, `Crash` and `Interrupt` are a
dying host and Ctrl-C.  Definitions headed *Mutant* are not part of a
specification: each is a faulty variant of the definition that follows it and is
there to show that a property notices it.

### PartWrite

`pc` runs through `confirm`, `push`, `upload` (hash of the upload), `dd`,
`verify`, `cleanup`.  `script` is the `dd || dd; sync` on the phone that adb
waits for; when adb is gone and the script is not, it becomes an element of
`orphans` and goes on writing, under the next command too.  `push` is before the
`try`, so a failed push removes nothing (`PushFail`); from `upload` on, every way
out passes `Cleanup`, unless the host dies.  `Cleanup` may fail, also with the cable in: nobody reads
the status of `rm`, and it is given 60 seconds (`partitions.py:271`); `rm` remembers what became of
it.  `link` is the cable.  A hash that
cannot be had is a step of its own (`UploadUnhashed`, `VerifyUnhashed`).

### PartDump

dd's bytes go through `pipe` (`PipeCap` of them) to `thread`, which writes `file`.
A range is read by dd in units of `Sector`, or of `Page` if it is aligned, and cut by
`tail` and `head`; `Sent` is what comes out of that arithmetic, `dump_range` has neither
the size test nor the hashes.  What is promised of it is that a range
without an error is the range and lies within the partition.
The main thread waits for adb, joins the thread or gives up (`JoinTimeout`),
compares sizes, hashes the file and asks the phone for its hash.  The
`past` remembers whether the thread ever opened the file or raised; `Warned` is what the
operator has seen.  The
stream may break with exit status 0, the thread may die of an error of the file
system, the partition may change at any time, and a dump may be repeated over an
older image.  Nothing waits for a thread whose join gave up, so the next dump of the same process may
begin while it is still at work: what is left in its pipe becomes an element of `strays`, which writes
at its own position of the same file (`StrayCopy`), under the later dump and after it, until the process
ends (`Exit`).  A dump under which that may happen can be reported verified and be spoilt later.
`alone` is false of such a dump, and the properties about the file have it as a premise.

### EfsGroup

`backup` dumps the group's partitions one by one into `img` and writes
`manifest` at the end; `restore` reads the manifest, compares models, asks, takes a
rollback into `rb` and writes.  The loops take their partitions in any order, which
includes the order of the code's tables; nothing that is stated depends on it.  Phones, their NV (`nv`), a modem that writes it,
`Plug` and `Crash` are the world.  The directory is new or holds a whole backup (`HoldsBackup`), as
that of an earlier session.  `from` remembers the phone whose dump wrote each image file, which may not
be the one that the manifest names: the guard of a restore looks at the manifest only, while
`ForeignImageNeedsToken` is about `from`.  `halfway` remembers a backup that did not reach
its manifest.  `late` holds the writes whose command gave up on them, failed or died: each goes
on on its phone (`LateWrite`), under the next writes and the next commands, until it has written
its image.  Only such reports leave one behind (`Outlives`), which is what `OnlyGivenUpGoesOn`
proves of `PartWrite`; `MaxLate` bounds how many there are at a time.  What an earlier command
left behind counts as written by others (`moved`), as a modem's write does; what the restore itself
left behind does not, and its rollback must cover it.  The parameter `group` of `restore` is not in the model because
the function never reads it (`efs.py:173`).

### EfsRebuild

`rebuild_modemst` and `mtk_rebuild_nvdata` have one shape: dump the group, look at the dump
of the partition the firmware rebuilds from (`Source`: fsg or nvram), ask, erase the
others (`Targets`), and reboot if asked to.  `family` says which of the two it is.  Only
nvdata is a file system: it is unmounted first (`Umount`; a lazy unmount hides it from
`/proc/mounts` while its users keep it), formatted or zero-filled, and a zero-filled
one is of use only if init formats it (`formats`).  The firmware is a rule at boot
(`Booted`, `Rebuilt`) and a writer while Android runs.  A dump of a valid source may
be cut so that it still looks valid (`"prefix"`), which is why `RadioSurvives`
speaks of the partitions on the phone and not of the files of the backup.

### RomFlash

`Plan` is `plan_flash`, a set that the loop takes in `Order`, the fixed order followed by
the other names sorted (`IsNext`); `userspace` is what the tool believes, `mode` what the phone
is in.  Reboots and waits whose result the code drops are steps that may fail.

### RootFlow

An image is `[kind, of]`: stock, patched or torn, of one model.  Magisk's script
is a function of the image (`Magisked`).  The stock image is overwritten first,
the manifest is written last; `disturbed` remembers a patch that stopped between.
A job carries the path of its image and not its contents: `ResolveDir` hashes the file, and `Carried`
is what fastboot finds under the path when it is called, after the wait and the prompts
(`rooting.py:294`, `fastboot_ops.py:38`).  In between, `OtherPatch` is another session that patches
into the directory.  `excused` remembers the phones that were given an image nobody vouched for;
`Unvouched` lists how that can happen, and `ForeignBuildIsExcused` says that there is no other way
for a phone to get the build of another model.

### MenuSession

One `Context` over many commands.  The probe of `root_mode` is modelled call by
call with the phone changing between the calls.  The phone in fastboot is chosen and
cached apart from the one in adb (`fb`, `dev`); `mrt reboot` caches nothing and takes the first
phone in any mode.  `--no-adb-root` is not a variable: it is
stored in the context and never read (`context.py:28`).

### BackupDir

`create` takes the partitions one by one: `DumpOne` is `dump_partition`, `Note` the
rewriting of `partitions/manifest.json` after it, `CreateEnd` the `manifest.json` at
the end, which alone names the model.  `verify` and `restore` read what is there,
which may be from several commands on several phones.  `SystemWrite` is the running system, or a
dd that an earlier restore gave up on: it writes at any time, during a create or a restore too.  `taken` and `unnoted`
are history: where each image came from, and which images are younger than the
list.  A dump whose join expired leaves an element of `pumps` behind, which writes its image
(`LateWrite`) after it was hashed, until the process ends; `scribbled` holds the images to which that
happened.  `verify` opens the path that `create` recorded and `restore` the file in DIR, so the
two look at different files when the directory was moved or copied or `verify` runs elsewhere:
`Places` are the three cases, and `astray` remembers that the last `verify` was not about this directory.

### Payload

The images are written extent by extent, straight to their final names.  `stage`, `part`, `op`
and `ext` say where the three loops stand; `blob` is what was read for the operation and
`cursor` how much of it is written.  `Open` empties the file, `WriteExtent` seeks and writes,
`Close` truncates to `Size`, and `Refuse` and `Unreadable` end the command with the file as it
is then.  A block is one value.  The payload file may be shorter than its manifest says
(`upto`) or damaged (`damage`).  Damaged data of a compressed operation may raise or, as a stream may
carry no check, come out as anything of any length (`Readings`); damaged raw data always passes.  The protobuf decoder is abstracted into `Packages`; what
the format promises of a full payload is `PackagesAssumption`: a partition is listed once, extents of
it do not overlap (`Disjoint`), and a blob fills its extents (`Filled`).  Of a payload that
breaks this nothing is claimed.  The hashes the manifest carries are not in the model
because the code does not read them.  `ReportedIsIntended` therefore says of a reported image that it
has its size and that everything in it is as described but the blocks of damaged operations: damage
never spreads, and what an older image left never shows.

### QcnContainer and QcnFile

The container is modelled as it lies on disk: header, FAT, mini FAT, directory with
its tree of siblings, stream and mini stream.  `Layout` builds one as the writer
does and, with another placement of the sectors, as QPST might; `CompoundFile`
reads it the way the reader does.  Sizes are scaled: sectors of 4 units for 512
bytes, mini sectors of 2 for 64, a cutoff of 8 for 4096, 4 FAT numbers and 2 directory
entries in a sector for 128 and 4, 4 FAT sectors in the header for 109.  The
ratios that decide something, a stream that needs several sectors, a mini stream
that shares one, and a file whose FAT does not fit the header, all occur.
`Chain` follows a chain of sectors as the code does, one number of the table after the other and
at most as many as the table has; it is a recursive function, not a RECURSIVE operator, so that
it can be proved about.  `QcnFile` then has one action per step in which a file may be left half
written.  `Sound` is what a container must be for an edit in place to be safe: tables (`Tables`:
the sectors of DIFAT, FAT, directory and mini FAT) and streams (`Places`: the units of each) lie in
the file, no stream lies in the tables, and no two share a unit.  `ContainersAreSound` says that the
writer's files and the edited ones are; for a file from elsewhere `Sound` is a premise.

### ModemImages

The tool reads only, so `efs2.py` and `mtknv.py` are operators; the actions are the modem,
which writes superblocks into two mirrors in turn with an age that wraps, and the technician,
who dumps whole or cut images and may give them another name.  `AgeMod`, `HighAge`
and `LowAge` are 8, 6 and 2 for 2^16, `0xFF00` and `0x0100`.  `Slot` is where the modem puts
a superblock: the two of one image differ by two, as its writes go to the mirrors in turn.
`Factory` holds the images of the other partitions, any sequences of pages as long as only
nvdata and nvcfg start as ext4 and only nvram holds backup regions (`FactoryAssumption`).
`Spelling` maps a name in capitals or with the suffix of a slot, such as `fsg_a`, to the name it
stands for: `expected_format` reduces it, the comparison of the mirrors takes it as it is
(`efs.py:347-350`, `423`), so two files of such names may be of two geometries and still be in order.
A backup region is laid out as in `tests/test_efs2_mtknv.py:44-58`: the length of the header counts the
bodies of the files only, and each file starts relative to the first body.  The code compares that
length with all that comes from the header on, so a dump may lack as much of its end as header
and titles take; `UsableRegionLacksItsEndOnly` says that it lacks no more.

## 3. What the runs show

| Run | Bounds | Question |
|---|---|---|
| `write` | 2 blocks, 5 images (empty, shorter, equal twice, longer), 2 commands, 1 fault | Are `verified` and "nothing was written" true, with orphaned scripts of the first command under the second? Does a write end? |
| `dump` | 4 bytes in sectors of 2 and a page of 4, pipe of 1, 2 dumps or ranges (aligned, not aligned, past the end), 4 first contents, 2 faults, 1 write by the system | Is what is called verified a copy, and a range the range, over an older image, under a slow thread and under the thread of an earlier dump? Does a dump end, and only as its callers' models assume? |
| `efs_group` | 2 phones of 2 models, a mirrored pair, 2 generations, 2 commands over a new directory or a whole backup, 1 modem write, 1 write at a time that outlives its command | Do manifest and rollback tell the truth, also under a dd nobody waits for; is an image of another model kept out? |
| `rebuild` | both families, 2 rebuilds, unbounded boots and firmware writes | Can a phone lose its last usable NV? Does a rebuild take effect? |
| `rom` | 6 partitions, one of each kind, 2 commands, 2 faults | Is a prefix of the plan flashed, in the right mode, and nothing else? |
| `root` | 2 phones of 2 models, 3 commands, those of another session included | How can a phone get the build of another model; do the recorded images belong together; is there a way back? |
| `session` | a userdebug and a retail phone, 3 commands (root, status, fastboot, reboot), 2 events, 1 unanswered call | Is the cached root mode true as long as the phone does not change? Is only the named phone touched? |
| `backup` | 2 phones of 2 models, 2 partitions, 2 generations, 3 commands, 1 write by the system or a late thread, at any time, 1 such thread | Does `verify` blame the right images, also of a directory that was moved; do restores give back what was dumped, to the right model? |
| `payload` | 3 blocks in 4 orders of extents, split at every place between a raw or zero operation and a compressed or discarding one, a longer package and a differential one, 2 commands, cut and damaged files | Is a reported image the one that was meant, also over an older one and beside damage? |
| `qcn` | 3 trees (small streams, around the cutoff, needing a DIFAT sector), placed in order or backwards, 2 commands | Does an edit change its item and nothing else? Is every container laid out so that no two streams meet? |
| `images` | 2 phones of different geometry, ages modulo 8, 4 modem writes, 2 files, one name with a slot | Is the live copy the latest one; does "ok" mean what it says of cut, misnamed and respelt dumps? |

The bounds are chosen from the shortest histories in which each hazard shows: a second
command is needed to meet an orphan, an older image or an older manifest; a second block for
a torn write; a pipe of one block for a thread that dies with the pipe full; two sectors in
a page for a range that begins in the middle of one; two phones for a wrong one; three
rooting commands for patch, flash and unroot, and three backup commands for create, verify
and restore; four modem writes to go from before a roll over of the age to behind it. One
fault per command is enough for every single failure and two in `rom` and `dump` for a
failure that hides another one. Boots and modem writes need no bound because they do not
enlarge the state.

One run has a counterexample.  `write_dd_status` takes `partitions.py:258`, by which a
failed dd raises, as an invariant; the status the code looks at is that of `sync`,
and both attempts of dd may fail unseen.

### Where the text promises more than the code

Met while modelling.  They show in the properties as premises or as steps without
which the property would be false; they are noted here, not run.

| Code | What it does | What is said | Where it is in the model |
|---|---|---|---|
| `partitions.py:253` | an upload whose hash cannot be had is written | README 31, REPAIR-GUIDE 102: written only if the hashes are equal | `UploadUnhashed`; `TornWriteIsMixture` speaks of the upload, not of the image |
| `partitions.py:143-147` | a dump without a hash, or of the wrong size, is accepted | README 184, COMMANDS 157: verified on both sides | premises of `UnwarnedDumpIsCopy` |
| `efs.py:238` | a failed write is noted and the loop goes on | COMMANDS 158: atomic restore | `WriteOne` goes on after a report `"FAILED"` |
| `efs.py:230` | a failed rollback dump is a warning | README 211: a rollback is taken first | `rbSaid = "ok"` in `RollbackCoversOverwrites` |
| `runner.py:225` | a thread whose join gave up goes on writing, also after its file was hashed and under the next dump of the process, so that a dump reported verified may be spoilt | README 184: verified on both sides | `strays`, premise `alone` in `PartDump`; `pumps`, `scribbled` in `BackupDir` |
| `partitions.py:271` | the status of `rm -f` is not read and it is given 60 seconds: an upload may stay | | `Cleanup`; `rm = "failed"` in `UploadIsRemoved` |
| `efs.py:186` | a phone that tells no model skips the guard, and the guard asks for the phone that the manifest names, not for that of the images | COMMANDS 158, README 32 | `cmd.known`, `~halfway` and the verified entry in `ForeignImageNeedsToken` |
| `efs.py:173` | `--group` is never read by restore | `cli.py:649`: limit to this group | `RestoreStart` has no group |
| `efs.py:460-462`, `512-514` | a dump that was not verified lets the erase go on | `efs.py:448`, COMMANDS 161: a verified backup first | `entries[p] = "yes"` in `BackupHoldsErased` |
| `efs.py:439` | the result of dd is dropped | `efs.py:450`: zero-fills both | `Emptied` in `RebuildSticks` |
| `efs.py:540-543` | the status of `mke2fs` is replaced by that of `sync`: the test behind it sees only an adb that fails | COMMANDS 162: re-creates it as an empty ext4 | `Leaves`, `FormatRaises` |
| `efs.py:523-527` | `umount -l` takes a busy nvdata off `/proc/mounts`, so that the check behind it passes | `efs.py:526`: cannot be unmounted while Android runs | `Umount` |
| `device.py:166` | the root mode cached before a reboot is used after it | `device.py:161`: the root mode available | premises of `RootModeStaysTrue` |
| `recovery.py:20-23` | without `--serial` the first of several phones is rebooted, where other commands refuse | `recovery.py:19`: the device | `Rebootable`; premise of `NamedPhoneOnly` |
| `recovery.py:61` | a phone in fastboot is told to reboot by adb | COMMANDS 86: reboots to sideload from any mode | `sideload` is not modelled |
| `flash.py:78-104` | results of reboots, waits and `-w` are dropped | COMMANDS 75: stops at the first failure | `~failed` in `LogicalInFastbootd` |
| `flash.py:112` | `--only` naming nothing of the package flashes the whole work directory | `cli.py:970`: partitions to flash | premise of `OnlyWantedIsFlashed` |
| `flash.py:26` | `proinfo` is not in `NEVER_AUTO` | REPAIR-GUIDE 17 | `proinfo` in `MCRomFlash` |
| `rooting.py:203, 228` | `patch` overwrites the stock image first | `rooting.py:13`: the stock image is kept | `source`, `disturbed` in `GoingBackIsPossible` |
| `rooting.py:294`, `fastboot_ops.py:38` | the file is hashed before the wait and the prompts and read after them; what another session wrote meanwhile is flashed | `rooting.py:295`: refusing to flash a modified image | `Carried`; `job.rewritten` in `Unvouched` |
| `rooting.py:364-375` | unroot compares no product | | `job.what` in `Unvouched` |
| `rooting.py:335, 339` | unknown lock state or product passes | README 212-213: refuses | `Mute`, `Nameless` in `RootFlow` |
| `context.py:28` | `--no-adb-root` is never read | COMMANDS 14 and 130, `cli.py:806` | `AdbRoot` has no such guard |
| `efs.py:152` | the manifest is written last and images are not compared with it; after a backup that died, newer or torn images, of another phone too, go under the older manifest | README 211-212: refused when the source copy does not verify | `halfway` in `VerifiedEntryIsImage` and `ForeignImageNeedsToken` |
| `flash.py:99` | started in fastbootd, a firmware image sends the phone to the bootloader and the tool goes on believing in fastbootd | COMMANDS 75, REPAIR-GUIDE 106: logical partitions in fastbootd | premises of `LogicalInFastbootd` |
| `rooting.py:367` | a second `patch` from the rooted phone records a patched image as stock | REPAIR-GUIDE 61, `rooting.py:13`: unroot gives stock | premises of `GoingBackIsPossible` |
| `device.py:189`, `rooting.py:71` | `root status` caches "no root" without having tried `adb root` | `device.py:165`: neither `adb root` nor su works | premises of `RefusalIsRight` |
| `qcn.py:402` | `save` opens FILE before it serializes, and a tree that cannot be serialized is refused with FILE emptied | `qcn.py:313`: too large, edit in place instead | `Open` comes before `SaveFile`; `RefusedInPlaceKeepsFile` is about edits in place only |
| `qcn.py:456`, `cli.py:609` | without `--storage` an edit in place takes the first item of that name anywhere, `--rebuild` the one in `NV_ITEM_ARRAY` | COMMANDS 167 tells no difference | `Found`, `NamedStorage` |
| `backup.py:78-94` | after a `create` that died on another phone the guard compares with the model of the older `manifest.json` | COMMANDS 67: MISMATCH guard | `listed.of = main` in `MismatchGuardsImages` |
| `backup.py:96-132` | restore compares no hash; `verify` is a command of its own | README 185: hash verification | `verdict[p] = "ok"` in `RestoreGivesBack` |
| `backup.py:127`, `147-154` | `verify` opens the path that was recorded, `restore` the file in DIR: of a directory that was moved every image is missing, of a copy the original is verified | `backup.py:138`: re-hash partition images against the manifest | `Places`; `astray` in the properties of `BackupDir` |
| `payload.py:213-240` | hashes of the manifest are not read; damaged data that decompresses is extracted and reported; a failed extraction leaves a partial image under its final name | | `Readings`; `Intended` speaks of sound operations |
| `efs2.py:134` | the second alternative of the roll over test is never true alone, as a high age is already the first | | `RolloverPossible` has both |
| `efs2.py:136` | that the geometry does not fit the image is reported and enters no verdict | | `fits` in `Analyze` |
| `efs2.py:168` | the newest mirror is chosen by age, roll over or not | COMMANDS 160: which copy is newest | premises of `NewestMirrorIsLatest` |
| `efs.py:347-350`, `423` | `fsg_a` and `MODEMST1` are expected to be EFS2, but no mirror comparison sees them, so files of two geometries are in order | | `Spelling`; raw names in `OkMeansGenuine` |
| `mtknv.py:116`, `165` | the length of the bodies is compared with all from the header on: a dump that lacks the last pages of a file is `ok` | `tests/test_efs2_mtknv.py:44-58`: the length is that of the bodies | `HeaderAt`; `UsableRegionLacksItsEndOnly` |
| `efs.py:406` | reports are keyed by file name; of two directories with one name the last stays | COMMANDS 160: whole backup directories | `Save` in `ModemImages` allows a name once |

## 4. Liveness and fairness

`CommandEnds`, `DumpEnds` and `FlashEnds` assume weak fairness of the host's own steps and
nothing of the phone, the cable or the operator.  The code justifies it by the
operating system scheduling the process and by the timeout that every call used
there has (`runner.py:173-183`, `219-226`, `device.py:239`, `340-347`): a call either returns or
is given up, and both are host steps.  `DumpEnds` also needs the pump
thread to be scheduled.  Ctrl-C and a dying host are never assumed to happen.

## 5. Proofs

Eight `*_proofs` modules prove the safety of the eleven modules with actions for every value
of the constants: any number of phones, partitions, commands and faults, any contents, any map
from phones to models, any packages, any width of the age.  The assumptions are the named
`ASSUME`s of each module, which TLC evaluates in its run: sizes are positive, marks such as
"no file" are not contents, groups are sets of known partitions, the plan's order lists
every name once and puts firmware before the logical partitions, a full payload is as its
format says, the ages that count as high leave room for two numbers (`HighAge + 2 <= AgeMod`; in
the code 65,280 of 65,536), of the other partitions only nvdata and nvcfg are
ext4 and only nvram holds backup regions, and lengths are numbers.

None of the properties is inductive.  Each is an `IInv` that says what the commands
know at each of their phases, one lemma per group of actions that it is kept, and one
lemma about the data where there is some.  The arguments:

* `PartWrite`: only the host's own script runs in a quiet command and only in the phase
  `dd`; it copies the upload; up to `dd` the partition is untouched, during `dd` every
  block is the old one or the upload's; reports are given in states without scripts; the
  upload exists only between push and cleanup.  A script that goes on without its command was
  given up on, and the report says so (`ReportInv`).
* `PartDump`: the thread's file and the pipe together are what the phone has sent
  (`Conserved`), and what was sent is a stretch of the partition while it is still.  So a
  file that has all its bytes cannot change any more, also under its own thread when the join gave up
  on that, and its hash stays the hash of the file.  All of this is said of a dump that began `alone`; for
  it `strays` stays empty.  `SplitOffset` is the arithmetic of a range.
  For `EndsAsOutcome` it is added that a thread that is gone without having opened the file has raised
  (`ThreadEndInv`), and that the main thread has said what it saw (`MainEnd`).
* `EfsGroup`: what a command under way has promised of the files it wrote, its entries
  or its rollback dumps, is carried from phase to phase, and between the operator's consent and the
  write nothing but a modem and the writes of earlier commands touches the phone.  Once a backup has
  reached its manifest, every verified entry is of an image that the phone of the manifest gave.  A write that
  outlives its command began behind the rollback of that command, which therefore still holds what
  was there before it (`LateInv`).
* `EfsRebuild`: nothing that a command, the firmware or a crash does writes the source;
  erasures are reached only with a valid one; what they left is still there while
  nobody holds NV.
* `RomFlash`: the plan is cut where the loop stands (before it flashed, behind it
  untouched); once the tool has switched to fastbootd no firmware is left whose flashing would
  take the phone out of it.
* `RootFlow`: between the stock image and the manifest the directory is marked as
  disturbed, and an undisturbed manifest is of the two images beside it.  A job of the directory
  that nobody has rewritten since carries the recorded image, whose build is that of the recorded
  stock image; from the comparison of the product on it is also that of the phone, or one of the
  ways of `Unvouched` holds, and stays.
* `MenuSession`: the probe is a chain of calls; what is known of the phone at each link
  stays true for as long as nobody restarts it.
* `BackupDir`: the entries of a running create and the listing agree with the images
  of the partitions that no later dump and no late thread has touched; what verify and restore said
  holds until a file or a partition is written.
* `Payload`: the cursor is the place in the blob (`RunInv`), the file at hand holds what was
  written so far and zeros elsewhere, all of it below the final size (`FileInv`); extents do
  not overlap, so that no later one spoils an earlier one, and the file began empty, so that nothing
  of an older image is left; what was extracted is not written again, as no partition is
  listed twice (`DoneInv`).  `ReportIsExtracted` joins the two halves of `mrt rom payload`:
  what an extraction reports is what `RomFlash` calls `Extracted`, with which its `Planned` begins.
* `ModemImages`: a superblock is in the slot of its number, so the two of an image are two apart,
  and if neither age is near a roll over they are in the order of their ages; cutting an image and renaming it take pages away and add none, and headers of
  each kind have only one origin.  What a respelt name stands for is a name of the table.
* `QcnFile`: until the file is opened FILE is what it was when the command began; what an edit in
  place then writes is FILE with the units of one stream overwritten.  If FILE is sound these units
  hold no table, so the chain of DIFAT sectors is read as before, hence the FAT, hence the directory and
  the mini FAT, hence the chain of every stream; and as they are different ones and no other stream's,
  the stream reads back as the value and the others as before.  That two chains are the same is
  an induction along them, made with the least element at which they would differ (`UpTo`).

| Module | Theorem | What it gives |
|---|---|---|
| `PartWrite` | `TypeCorrect` | `TypeOK` |
| | `VerifiedIsWritten` | `VerifiedMeansWritten` |
| | `TornIsMixture` | `TornWriteIsMixture` |
| | `RefusalIsHarmless` | `RefusalLeavesPartition`: a refused write left the partition alone |
| | `UploadRemoved` | `UploadIsRemoved`: every command that ended from its `try` has tried to remove its upload, and none is left but by an `rm` or a push that failed, Ctrl-C or a dead host |
| | `OnlyGivenUpGoesOn` | a dd goes on without its command only if this failed, was interrupted or died: what `EfsGroup` takes for granted |
| | `WriteKeepsContract` | `PartWrite` implements `WriteContract` (the refinement mapping is `Contract`) |
| `PartDump` | `TypeCorrect` | its `TypeOK` |
| | `VerifiedIsSnapshot` | `VerifiedDumpIsSnapshot` |
| | `UnwarnedIsCopy` | `UnwarnedDumpIsCopy` |
| | `DumpEndsAsOutcome` | `EndsAsOutcome`: the callers' `DumpOutcomes` leave out no end of a dump |
| `EfsGroup` | `TypeCorrect` | `TypeOK` |
| | `OverwritesAreCovered` | `RollbackCoversOverwrites` |
| | `ManifestIsTrue` | `VerifiedEntryIsImage` |
| | `ForeignImageIsAsked` | `ForeignImageNeedsToken` |
| `EfsRebuild`, in `Modem_proofs` | `TypeCorrect` | its `TypeOK` |
| | `RadioAlwaysSurvives` | `RadioSurvives` |
| | `BackupIsKept` | `BackupHoldsErased` |
| | `RebuildIsEffective` | `RebuildSticks`, an action property |
| `ModemImages`, in `Modem_proofs` | `LiveIsTheLatest` | `LiveIsLatest` |
| | `NewestMirrorIsTheLatest` | `NewestMirrorIsLatest` |
| | `OkIsGenuine` | `OkMeansGenuine` |
| | `UsableRegionLacksItsEnd` | `UsableRegionLacksItsEndOnly` |
| `QcnFile`, in `Modem_proofs` | `RefusedInPlaceIsHarmless` | `RefusedInPlaceKeepsFile` |
| | `OutLeavesFile` | with `--out` FILE is never written |
| | `InPlaceOnlyOverwritesIt` | an edit in place changes nothing but units of the stream it found, and fills these with the value |
| | `ContainerIsKept` | `InPlaceKeepsContainer` |
| | `SoundnessIsKept` | a sound container is sound after an edit in place, for the next one |
| `Payload`, in `Flash_proofs` | `ExtractTypeCorrect` | its `ExtractTypeOK` |
| | `ReportedImagesAreMeant` | `ReportedIsIntended` |
| | `RefusedStayUntouched` | `RefusedIsNotTouched`, an action property |
| | `ReportIsExtracted` | an extraction reports exactly what `RomFlash` takes as extracted, or nothing |
| `RomFlash`, in `Flash_proofs` | `TypeCorrect` | `TypeOK` |
| | `PrefixIsFlashed` | `PlanPrefixIsFlashed` |
| | `LogicalIsInFastbootd` | `LogicalInFastbootd` |
| | `OnlyAskedIsFlashed` | `OnlyWantedIsFlashed` |
| `RootFlow` | `TypeCorrect` | its `TypeOK` |
| | `ManifestIsOfPair` | `PairIsConsistent` |
| | `ForeignBuildIsAsked` | `ForeignBuildIsExcused` |
| | `WayBackExists` | `GoingBackIsPossible` |
| `MenuSession` | `CachedModeIsTrue` | `RootModeStaysTrue` |
| | `RefusalIsJust` | `RefusalIsRight` |
| | `OnlyNamedPhone` | `NamedPhoneOnly` |
| `BackupDir` | `TypeCorrect` | its `TypeOK`, stated in the proofs |
| | `BlameIsRight` | `BlameHasCause` |
| | `ImagesAreGuarded` | `MismatchGuardsImages` |
| | `RestoreIsExact` | `RestoreGivesBack` |

`UploadIsRemoved`, `RefusalLeavesPartition`, `GivenUpOnly`, `OutKeepsFile`, `InPlaceOnlyOverwrites`,
`InPlaceKeepsSound`, the step property of `ReportIsExtracted` and the type invariants of `PartDump`,
`EfsRebuild`, `RootFlow`, `BackupDir` and `Payload` are proved and not run: a run would only restate parts of the inductive invariants.

Only model-checked:

* `CommandEnds`, `DumpEnds` and `FlashEnds`: liveness, and `ENABLED`, are out of the prover's reach.
* `EditIsExact` and `ContainersAreSound`.  Both are about what the writer lays out: it sums up the
  lengths of streams and builds a tree of siblings, and what the reader makes of a whole file
  goes through that tree.  These are recursions over trees and sums, whose library theorems take
  operators as parameters, which the provers cannot instantiate.  The proofs above begin where the
  writer is done: with a sound container, whoever wrote it.

## 6. Not modelled

* `samsung_fix_md5` (`efs.py:563-635`): each sidecar is recomputed from its own file by one
  call, and nothing reads another's result.
* `wipe_partition` (`partitions.py:285-296`), `sideload` and the wipes of `recovery.py`,
  bootloader lock and unlock, `fastboot update`, erase, format and raw commands: one call or script each, behind a
  prompt, whose result is printed and not acted upon, so that there is nothing to promise.
  The choice of the phone they go to is `FastbootCmd` and `RebootCmd` of `MenuSession`.
* NV checksums and the parsers of adb and fastboot output: stateless functions over
  strings with vectors in `tests/`.
* `efs validate`, which dumps and then does what `check-image` does.
* Listing, extracting and comparing QCN items: they read only.
* Output, operation log, reports, log capture and app management: nothing reads
  their result back; a model would restate single calls.
* The argument parser and the handlers that forward their arguments.
* The Samsung `efs.tar` of a backup, which restore never reads; the apps, app data and
  sdcard sections of a full backup, single adb calls each.
* Unpacking Magisk's package: pure, and it fails before anything but the stock
  image is touched.

* A thread that outlives its dump in `EfsGroup`, `EfsRebuild` and `RootFlow`: see `Outcomes` in section 2.
* An erasure of `EfsRebuild` that goes on after its call timed out: it is over there with the call, while
  a write of `EfsGroup` may go on (section 7, 3).

## 7. Plan

Done: the write with its contract, the dump of partitions and ranges, the groups, both
rebuilds, ROM flashing, rooting, the session with both transports and reboots, the full backup,
payloads, QCN files and modem images; the dump half of `Outcomes` as a property of `PartDump`;
writes that outlive their restore; proofs of every safety property and action property that a run
checks, but for the two about the QCN writer's layout.

What would be worth adding:

1. `sideload` over a phone that may leave a mode while it is waited for, once the code
   looks at the results of its waits (`recovery.py:61`), and `wipe_partition` once it looks at its
   status (`partitions.py:294`).
2. NV checksums as functions checked against a reference; the parsers of device lists and of
   `getvar`.
3. The late writes of `EfsGroup` in `EfsRebuild` too, whose erasing dd may outlive a timeout the
   same way until the phone restarts.  On top of the unbounded firmware writes that takes more than
   four times the states of `rebuild`, so these need a bound first.
   And the report of such a write in `WriteOutcomes`, so that the write half of `Outcomes`
   follows from `PartWrite` as the dump half follows from `PartDump`.
4. `EfsGroup`, `EfsRebuild` and `RootFlow` as refinements of one abstract "dump, then ask, then
   write" whose steps are those of `PartDump` and `PartWrite`.
