------------------------------- MODULE RomFlash -------------------------------
(***************************************************************************)
(* `mrt rom flash-dir` and `mrt rom payload`: plan_flash, flash_directory  *)
(* and flash_payload in modules/flash.py over FastbootDevice and           *)
(* wait_for_fastboot in core/device.py.  The tool flashes the images of a  *)
(* directory, of its own or filled from an OTA package, in a fixed order,  *)
(* reboots the phone into fastbootd before the first logical partition and *)
(* reboots the bootloader after each firmware partition.  It reads the     *)
(* phone's variables once, and remembers the mode it believes the phone to *)
(* be in.                                                                  *)
(* The phone and the cable are external: a reboot may not happen, a flash  *)
(* may fail or break off, and the technician may run the command again on  *)
(* the phone as the last run left it.                                      *)
(***************************************************************************)
EXTENDS Naturals, Sequences

CONSTANTS Names,       \* image names of the directory and partitions of the phone
          FLASH_ORDER, \* the fixed order: firmware, boot chain, logical, data
          Rest,        \* the other names, sorted
          FASTBOOTD_ONLY, NEVER_AUTO, Firmware,
          Super,       \* the name "super"
          Images,      \* the image sets, packages and --only lists tried
          MaxCmds,     \* bound: commands started
          MaxFaults    \* bound: reboots that do not happen, failed flashes

\* The order of every plan.
Order == FLASH_ORDER \o Rest
Precedes(m, n) == \E i, j \in DOMAIN Order : i < j /\ Order[i] = m /\ Order[j] = n
Logical == FASTBOOTD_ONLY \ {Super}

ASSUME NamesAssumption ==
  /\ Order \in Seq(Names)
  /\ \A n \in Names : \E i \in DOMAIN Order : Order[i] = n
  /\ \A i, j \in DOMAIN Order : Order[i] = Order[j] => i = j
  /\ Images \subseteq SUBSET Names
  /\ FASTBOOTD_ONLY \cup NEVER_AUTO \cup Firmware \cup {Super} \subseteq Names
ASSUME FirmwareAssumption == \A f \in Firmware, l \in Logical : Precedes(f, l)

VARIABLES
  pc,        \* where flash_directory is
  opts,      \* what was asked for: the directory's images, the package they
             \* came from, --only, the names plan_flash is limited to,
             \* --with-data, --wipe and --reboot
  todo,      \* what is left of the plan, to be flashed in its order
  vars_,     \* what getvar all said: [userspace, dynamic]
  userspace, \* does the tool believe the phone is in fastbootd
  mode,      \* mode of the phone; "off" while it restarts
  target,    \* the mode it restarts into
  flash,     \* partition -> "old", "new" or "torn", since the command started
  where,     \* history: partition -> mode in which it was last flashed
  outcome,   \* how the last command ended
  failed,    \* history: a fastboot command of this run failed
  cmds, faults

args == <<opts, vars_>>
phone == <<mode, target>>
bounds == <<cmds, faults>>
all == <<pc, opts, todo, vars_, userspace, mode, target, flash, where, outcome,
         failed, cmds, faults>>

Modes == {"bootloader", "fastbootd"}

\* plan_flash: --only (an empty list limits nothing), then NEVER_AUTO unless
\* --with-data; the images --skip takes away are not in `images`.
Plan(images, only, include_data) ==
  {n \in images : (only = {} \/ n \in only) /\ (include_data \/ n \notin NEVER_AUTO)}

\* n is what the loop takes up next.
IsNext(n) == n \in todo /\ \A m \in todo : ~Precedes(m, n)

TypeOK ==
  /\ pc \in {"idle", "confirm", "getvar", "loop", "flash", "wait", "reboot"}
  /\ opts \in [images : SUBSET Names, package : SUBSET Names, wanted : SUBSET Names,
               only : SUBSET Names, include_data : BOOLEAN, wipe : BOOLEAN, reboot : BOOLEAN]
  /\ todo \subseteq Names
  /\ vars_ \in [userspace : BOOLEAN, dynamic : BOOLEAN]
  /\ userspace \in BOOLEAN /\ failed \in BOOLEAN
  /\ mode \in Modes \cup {"off", "android"}
  /\ target \in Modes \cup {"android"}
  /\ flash \in [Names -> {"old", "new", "torn"}]
  /\ where \in [Names -> Modes \cup {"none"}]
  /\ outcome \in {"none", "aborted", "failed", "ok", "killed"}
  /\ cmds \in Nat /\ faults \in Nat

Init ==
  /\ pc = "idle"
  /\ opts = [images |-> {}, package |-> {}, wanted |-> {}, only |-> {},
             include_data |-> FALSE, wipe |-> FALSE, reboot |-> FALSE]
  /\ todo = {}
  /\ vars_ = [userspace |-> FALSE, dynamic |-> FALSE] /\ userspace = FALSE
  /\ mode \in Modes /\ target = mode
  /\ flash = [n \in Names |-> "old"] /\ where = [n \in Names |-> "none"]
  /\ outcome = "none" /\ failed = FALSE
  /\ cmds = 0 /\ faults = 0

\* A fastboot command fails.
Fault == /\ faults < MaxFaults /\ faults' = faults + 1
         /\ failed' = TRUE
         /\ UNCHANGED cmds
NoFault == UNCHANGED <<failed, bounds>>

-----------------------------------------------------------------------------
(* The command.                                                            *)

\* flash_directory with these images and names; select_device found the phone
\* in fastboot mode; an empty plan is refused.
Begin(images, package, wanted, only, o) ==
  /\ pc = "idle" /\ cmds < MaxCmds /\ mode \in Modes
  /\ Plan(images, only, o.include_data) # {}
  /\ cmds' = cmds + 1
  /\ opts' = [images |-> images, package |-> package, wanted |-> wanted, only |-> only,
              include_data |-> o.include_data, wipe |-> o.wipe, reboot |-> o.reboot]
  /\ todo' = Plan(images, only, o.include_data)
  /\ flash' = [n \in Names |-> "old"] /\ where' = [n \in Names |-> "none"]
  /\ outcome' = "none" /\ failed' = FALSE
  /\ pc' = "confirm"
  /\ UNCHANGED <<vars_, userspace, phone, faults>>

StartDir(images, wanted, o) == Begin(images, images, wanted, wanted, o)

\* extract_all: the wanted partitions of the package (all if none are named) are
\* extracted into a directory that may hold images of another package; then
\* exactly the extracted ones are asked for, `if extracted`.
Extracted(package, wanted) == IF wanted = {} THEN package ELSE package \cap wanted

\* Mutant: everything in the directory is flashed.
StartPayloadAll(stale, package, wanted, o) ==
  Begin(stale \cup Extracted(package, wanted), package, wanted, {}, o)

StartPayload(stale, package, wanted, o) ==
  Begin(stale \cup Extracted(package, wanted), package, wanted, Extracted(package, wanted), o)

\* The operator types FLASH, or not.
Confirm == /\ pc = "confirm"
           /\ pc' = "getvar"
           /\ UNCHANGED <<args, todo, userspace, phone, flash, where, outcome, failed, bounds>>

Decline == /\ pc = "confirm"
           /\ pc' = "idle" /\ outcome' = "aborted"
           /\ UNCHANGED <<args, todo, userspace, phone, flash, where, failed, bounds>>

\* getvar all, once; whether a phone tells of dynamic partitions is its own
\* affair, and an unanswered call (a fault) tells nothing.
GetVar ==
  /\ pc = "getvar"
  /\ \/ /\ mode \in Modes
        /\ \E dynamic \in BOOLEAN :
             vars_' = [userspace |-> mode = "fastbootd", dynamic |-> dynamic]
        /\ NoFault
     \/ vars_' = [userspace |-> FALSE, dynamic |-> FALSE] /\ Fault
  /\ userspace' = vars_'.userspace
  /\ pc' = "loop"
  /\ UNCHANGED <<opts, todo, phone, flash, where, outcome>>

\* A fastboot reboot command whose result nobody reads; it fails, or no phone
\* appears within its timeout.
RebootInto(m) ==
  \/ /\ mode \in Modes
     /\ mode' = "off" /\ target' = m
     /\ NoFault
  \/ Fault /\ UNCHANGED phone
  \/ mode \notin Modes /\ failed' = TRUE /\ UNCHANGED <<phone, bounds>>

NeedsFbd(n) == n \in Logical /\ vars_.dynamic

\* Mutant: fastbootd is noted but not entered.
SwitchForgets == /\ pc = "loop" /\ ~userspace
                 /\ \E n \in todo : IsNext(n) /\ NeedsFbd(n)
                 /\ userspace' = TRUE
                 /\ UNCHANGED <<pc, args, todo, phone, flash, where, outcome, failed, bounds>>

Switch == /\ pc = "loop" /\ ~userspace
          /\ \E n \in todo : IsNext(n) /\ NeedsFbd(n)
          /\ RebootInto("fastbootd")
          /\ userspace' = TRUE
          /\ pc' = "wait"
          /\ UNCHANGED <<args, todo, flash, where, outcome>>

\* wait_for_fastboot returns as soon as the phone is listed, whatever its mode,
\* or gives up after three minutes; nobody reads which.
Waited == /\ pc = "wait"
          /\ mode \in Modes
          /\ pc' = "loop"
          /\ UNCHANGED <<args, todo, userspace, phone, flash, where, outcome, failed, bounds>>

\* Mutant: the wait has no deadline.
WaitsForever == pc = "wait" /\ FALSE /\ UNCHANGED all

WaitExpires == /\ pc = "wait" /\ mode \notin Modes
               /\ pc' = "loop"
               /\ UNCHANGED <<args, todo, userspace, phone, flash, where, outcome, failed, bounds>>

\* No switch is due: fastboot is started, and waits for a phone to appear.
Flash == /\ pc = "loop"
         /\ \E n \in todo : IsNext(n) /\ (NeedsFbd(n) => userspace)
         /\ pc' = "flash"
         /\ UNCHANGED <<args, todo, userspace, phone, flash, where, outcome, failed, bounds>>

\* After a firmware partition the bootloader is restarted; `userspace` stays.
FlashOk ==
  /\ pc = "flash" /\ mode \in Modes
  /\ \E n \in todo :
       /\ IsNext(n)
       /\ flash' = [flash EXCEPT ![n] = "new"]
       /\ where' = [where EXCEPT ![n] = mode]
       /\ todo' = todo \ {n}
       /\ IF n \in Firmware THEN RebootInto("bootloader") /\ pc' = "wait"
                            ELSE pc' = "loop" /\ UNCHANGED phone /\ NoFault
  /\ UNCHANGED <<args, userspace, outcome>>

\* A transfer breaks off.
Tears == \E n \in todo : /\ IsNext(n)
                        /\ flash' = [flash EXCEPT ![n] = "torn"]
                        /\ where' = [where EXCEPT ![n] = mode]

\* Mutants: a failed flash is skipped; a transfer begins without a phone.
FlashFailsGoesOn ==
  /\ pc = "flash"
  /\ \/ mode \in Modes /\ Fault
     \/ mode \notin Modes /\ failed' = TRUE /\ UNCHANGED bounds
  /\ pc' = "loop"
  /\ \E n \in todo : IsNext(n) /\ todo' = todo \ {n}
  /\ UNCHANGED <<args, userspace, phone, flash, where, outcome>>

FlashFailsUnseen ==
  /\ pc = "flash"
  /\ \/ mode \in Modes /\ Fault
     \/ mode \notin Modes /\ failed' = TRUE /\ UNCHANGED bounds
  /\ Tears
  /\ pc' = "idle" /\ outcome' = "failed"
  /\ UNCHANGED <<args, todo, userspace, phone>>

\* The phone refuses, the transfer breaks off, or no phone appears in an hour.
FlashFails ==
  /\ pc = "flash"
  /\ \/ mode \in Modes /\ Fault
     \/ mode \notin Modes /\ failed' = TRUE /\ UNCHANGED bounds
  /\ UNCHANGED <<flash, where>> \/ (mode \in Modes /\ Tears)
  /\ pc' = "idle" /\ outcome' = "failed"
  /\ UNCHANGED <<args, todo, userspace, phone>>

\* fastboot -w, whose result nobody reads.
Wipe == /\ pc = "loop" /\ todo = {}
        /\ pc' = "reboot"
        /\ NoFault \/ (opts.wipe /\ Fault)
        /\ UNCHANGED <<args, todo, userspace, phone, flash, where, outcome>>

Finish == /\ pc = "reboot"
          /\ pc' = "idle" /\ outcome' = "ok"
          /\ IF opts.reboot THEN RebootInto("android") ELSE UNCHANGED phone /\ NoFault
          /\ UNCHANGED <<args, todo, userspace, flash, where>>

\* The tool dies in the middle; a running transfer is left half done.
Kill == /\ pc # "idle"
        /\ pc' = "idle" /\ outcome' = "killed"
        /\ UNCHANGED <<flash, where>> \/ (pc = "flash" /\ mode \in Modes /\ Tears)
        /\ UNCHANGED <<args, todo, userspace, phone, failed, bounds>>

\* The phone comes up in the mode it was sent to.
PhoneUp == /\ mode = "off"
           /\ mode' = target
           /\ UNCHANGED <<pc, args, todo, userspace, target, flash, where, outcome,
                          failed, bounds>>

\* The technician holds the keys: a phone in Android goes to the bootloader.
Keys == /\ mode = "android" /\ pc = "idle"
        /\ mode' = "bootloader"
        /\ UNCHANGED <<pc, args, todo, userspace, target, flash, where, outcome,
                       failed, bounds>>

-----------------------------------------------------------------------------
Tool == GetVar \/ Switch \/ Waited \/ WaitExpires \/ Flash \/ FlashOk \/ FlashFails
        \/ Wipe \/ Finish

Options == [include_data : BOOLEAN, wipe : BOOLEAN, reboot : BOOLEAN]

Operator == \/ \E a, b, w \in Images : \E o \in Options :
                 StartDir(a, w, o) \/ StartPayload(a, b, w, o)
            \/ Confirm \/ Decline \/ Kill \/ Keys

Next == Tool \/ Operator \/ PhoneUp

Spec == Init /\ [][Next]_all

\* Every fastboot call and the wait have a timeout.
FairSpec == Spec /\ WF_all(Tool)

-----------------------------------------------------------------------------
(* Properties.                                                             *)

Planned == Plan(opts.images, opts.only, opts.include_data)

\* However a run ends, the phone has a prefix of the plan: at most the image at
\* which it stopped is torn, everything before it is new and nothing behind it
\* was touched; a run that returns has flashed the whole plan (flash.py:71-101).
PlanPrefixIsFlashed ==
  /\ \A n \in Names : flash[n] # "old" => n \in Planned
  /\ \A m, n \in Planned : Precedes(m, n) /\ flash[n] # "old" => flash[m] = "new"
  /\ outcome = "ok" => \A n \in Planned : flash[n] = "new"

\* Started in the bootloader on a phone that tells of its dynamic partitions,
\* and as long as no fastboot command fails, every logical partition is flashed
\* in fastbootd: the order puts all firmware first (flash.py:19-26, 73-82).
LogicalInFastbootd ==
  (~vars_.userspace /\ vars_.dynamic /\ ~failed) =>
    \A n \in Logical : where[n] # "bootloader"

\* Images of an earlier package that are still in the directory are not flashed,
\* and neither is what --only leaves out, if the package has something that was
\* asked for (flash.py:110-114, 142).
OnlyWantedIsFlashed ==
  Extracted(opts.package, opts.wanted) # {} =>
    \A n \in Names : flash[n] # "old" => n \in Extracted(opts.package, opts.wanted)

\* A confirmed run ends, whatever the phone does: every fastboot call and the
\* wait have a timeout (device.py:239, 340-347).
FlashEnds == pc = "getvar" ~> pc = "idle"
=============================================================================
