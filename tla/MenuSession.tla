----------------------------- MODULE MenuSession -----------------------------
(***************************************************************************)
(* `mrt menu`: one Context (core/context.py) serves every command of the   *)
(* session.  It chooses a phone when a command first needs one             *)
(* (select_device) and keeps it, and AdbDevice.root_mode probes once how   *)
(* to become root and keeps the answer, also the answer "no root"          *)
(* (core/device.py).  `root status` probes without `adb root`.  A fastboot  *)
(* command chooses its own phone in the same way, and `mrt reboot`, in     *)
(* modules/recovery.py, takes the first phone in any mode, every time.     *)
(* Meanwhile phones are plugged, unplugged, restarted and rooted.  The     *)
(* adbd of the phones and their su are external.                           *)
(***************************************************************************)
EXTENDS Naturals, FiniteSets

CONSTANTS Phones,
          Userdebug,    \* phones whose adbd may restart as root
          NoPhone,      \* "none", also for a session without --serial
          MaxCmds,      \* bound: commands of the session
          MaxEvents,    \* bound: plugging, restarting and rooting of phones
          MaxFaults     \* bound: adb calls that are not answered in time

ASSUME PhonesAssumption == Userdebug \subseteq Phones /\ NoPhone \notin Phones

VARIABLES
  serial,    \* --serial
  dev,       \* Context._adb
  fb,        \* Context._fastboot
  root,      \* its _root_mode: "unknown", "none", "adbd", "su" or "su0"
  pc,        \* what the running command waits for
  cmd,       \* [try: try_adb_root, wants: "status" or "root"]
  outcome,   \* how the last command ended
  cable,     \* phone -> "out", "in", or "locked": in, without adb's authorization
  mode,      \* phone -> "system", "recovery" or "fastboot"
  adbd,      \* phone -> whom adbd runs as: "shell", "restarting", "root"
  su,        \* phone -> what its su does: "absent", "asks", "su", "su0"
  sent,      \* history: phones that were sent `adb root`
  steady,    \* history: the chosen phone is as it was when the probe began
  acted,     \* history: phones that did what a command told them to
  silent,    \* history: a call of the probe was not answered, or the phone
             \* was unplugged during it
  cmds, events, faults

session == <<serial, dev, fb>>
phones == <<cable, mode, adbd, su>>
bounds == <<cmds, events, faults>>
vars == <<session, root, pc, cmd, outcome, phones, sent, acted, steady, silent, bounds>>

\* Modes adb lists; select_device does not take an unauthorized phone by itself.
Listed == {p \in Phones : cable[p] # "out" /\ mode[p] # "fastboot"}
Usable == {p \in Listed : cable[p] = "in"}
InFastboot == {p \in Phones : cable[p] # "out" /\ mode[p] = "fastboot"}

Init ==
  /\ serial \in Phones \cup {NoPhone}
  /\ dev = NoPhone /\ fb = NoPhone /\ root = "unknown"
  /\ pc = "idle" /\ cmd = [try |-> TRUE, wants |-> "root"] /\ outcome = "none"
  /\ cable \in [Phones -> {"out", "in", "locked"}]
  /\ mode = [p \in Phones |-> "system"]
  /\ adbd = [p \in Phones |-> "shell"]
  /\ su \in [Phones -> {"absent", "asks", "su0"}]
  /\ sent = {} /\ acted = {} /\ steady = TRUE /\ silent = FALSE
  /\ cmds = 0 /\ events = 0 /\ faults = 0

-----------------------------------------------------------------------------
(* The session.                                                            *)

\* Mutant: without a phone of that serial the only usable one will do.
SelectableAnyway(listed, usable) ==
  IF serial \in listed THEN {serial}
  ELSE IF Cardinality(usable) = 1 THEN usable ELSE {}

\* select_device: the phone with that serial, whatever its mode, or the only
\* usable one.
Selectable(listed, usable) ==
  IF serial # NoPhone THEN {serial} \cap listed
  ELSE IF Cardinality(usable) = 1 THEN usable ELSE {}

NewCmd == pc = "idle" /\ cmds < MaxCmds /\ cmds' = cmds + 1
Fault == faults < MaxFaults /\ faults' = faults + 1

\* DeviceNotFound, also if `adb devices` or `fastboot devices` did not answer.
NoDevice ==
  /\ NewCmd
  /\ \/ dev = NoPhone /\ Selectable(Listed, Usable) = {} /\ UNCHANGED faults
     \/ fb = NoPhone /\ Selectable(InFastboot, InFastboot) = {} /\ UNCHANGED faults
     \/ (dev = NoPhone \/ fb = NoPhone) /\ Fault
  /\ outcome' = "no_device"
  /\ UNCHANGED <<session, root, pc, cmd, phones, sent, acted, steady, silent, events>>

\* A command that needs root, or `root status`; Context.adb() keeps the phone,
\* root_mode() the answer of the first probe.
StartCmd(try, wants) ==
  /\ NewCmd
  /\ dev' \in IF dev = NoPhone THEN Selectable(Listed, Usable) ELSE {dev}
  /\ cmd' = [try |-> try, wants |-> wants]
  /\ outcome' = "none"
  /\ IF root = "unknown" THEN pc' = "id" /\ steady' = TRUE /\ silent' = FALSE
                         ELSE pc' = "run" /\ UNCHANGED <<steady, silent>>
  /\ UNCHANGED <<serial, fb, root, phones, sent, acted, events, faults>>

RootStatus == StartCmd(FALSE, "status")
RootCmd == StartCmd(TRUE, "root")

\* adb finds the phone.
Attached == dev \in Usable /\ adbd[dev] # "restarting"
ShellIsRoot == Attached /\ (mode[dev] = "recovery" \/ adbd[dev] = "root")

SuAnswers(kinds) == Attached /\ mode[dev] = "system" /\ su[dev] \in kinds

Probe == UNCHANGED <<session, cmd, outcome, sent, acted, steady, cmds, events>>

\* One call of the probe: yes or no is the phone's answer; a call that cannot
\* be answered, or is not within its timeout, counts as no.
Ask(step, yes, how, otherwise) ==
  /\ pc = step
  /\ \/ /\ yes
        /\ root' = how /\ pc' = "run"
        /\ UNCHANGED <<silent, faults>>
     \/ /\ ~yes
        /\ pc' = otherwise
        /\ silent' = (silent \/ ~Attached)
        /\ UNCHANGED <<root, faults>>
     \/ /\ Fault
        /\ pc' = otherwise /\ silent' = TRUE
        /\ UNCHANGED root
  /\ UNCHANGED phones /\ Probe

AskId == Ask("id", ShellIsRoot, "adbd", IF cmd.try THEN "adb_root" ELSE "su")
\* Mutant: `adb root` that succeeds is believed.
AdbRootBelieved == /\ pc = "id_again"
                   /\ root' = "adbd" /\ pc' = "run"
                   /\ UNCHANGED <<silent, faults, phones>> /\ Probe

AskIdAgain == Ask("id_again", ShellIsRoot, "adbd", "su")
\* Mutant: `su 0` is not tried.
AskSuOnly == /\ pc = "su"
             /\ root' = IF SuAnswers({"su"}) THEN "su" ELSE "none"
             /\ pc' = "run"
             /\ silent' = (silent \/ ~Attached)
             /\ UNCHANGED <<faults, phones>> /\ Probe

AskSu == Ask("su", SuAnswers({"su"}), "su", "su0")

\* A Magisk that asks: the operator allows it once and for all.
SuIsAllowed == /\ pc \in {"su", "su0"} /\ SuAnswers({"asks"})
               /\ su' = [su EXCEPT ![dev] = "su"]
               /\ root' = pc /\ pc' = "run"
               /\ UNCHANGED <<silent, cable, mode, adbd, faults>> /\ Probe

\* `su 0 id` is the last: whatever is not uid 0 by now is cached as no root.
AskSu0 ==
  /\ pc = "su0"
  /\ \/ SuAnswers({"su", "su0"}) /\ root' = "su0" /\ UNCHANGED <<silent, faults>>
     \/ /\ ~SuAnswers({"su", "su0"})
        /\ root' = "none"
        /\ silent' = (silent \/ ~Attached)
        /\ UNCHANGED faults
     \/ /\ Fault
        /\ root' = "none" /\ silent' = TRUE
  /\ pc' = "run"
  /\ UNCHANGED phones /\ Probe

\* `adb root` succeeds, also on an adbd that then does not restart as root; if
\* it does, the phone goes away for a while.
AdbRoot ==
  /\ pc = "adb_root"
  /\ sent' = sent \cup {dev}
  /\ \/ /\ Attached /\ dev \in Userdebug
        /\ adbd' = [adbd EXCEPT ![dev] = "restarting"]
        /\ pc' = "wait" /\ UNCHANGED <<silent, faults>>
     \/ /\ Attached /\ dev \notin Userdebug
        /\ pc' \in {"wait", "su"} /\ UNCHANGED <<adbd, silent, faults>>
     \/ /\ ~Attached
        /\ pc' = "su" /\ silent' = TRUE /\ UNCHANGED <<adbd, faults>>
  /\ UNCHANGED <<session, root, cmd, outcome, cable, mode, su, acted, steady, cmds, events>>

\* wait-for-device returns when the phone is back, or after 30 seconds.
Waited == /\ pc = "wait"
          /\ \/ Attached /\ UNCHANGED <<silent, faults>>
             \/ ~Attached /\ Fault /\ silent' = TRUE
             \/ dev \notin Usable /\ silent' = TRUE /\ UNCHANGED faults
          /\ pc' = "id_again"
          /\ UNCHANGED <<root, phones>> /\ Probe

\* What the wrapped command really runs as.
RunsAs == IF \/ root = "adbd" /\ ShellIsRoot
             \/ root = "su" /\ SuAnswers({"su"})
             \/ root = "su0" /\ SuAnswers({"su", "su0"})
          THEN "as_root" ELSE "as_shell"

\* ensure_root() and the command; `root status` only reports.
Run == /\ pc = "run"
       /\ pc' = "idle"
       /\ outcome' = IF cmd.wants = "status" THEN "status"
                     ELSE IF root = "none" THEN "RootRequired"
                     ELSE IF Attached THEN RunsAs ELSE "failed"
       /\ acted' = IF outcome' \in {"as_root", "as_shell"} THEN acted \cup {dev} ELSE acted
       /\ UNCHANGED <<session, root, cmd, phones, sent, steady, silent, bounds>>

\* One fastboot command on the phone Context.fastboot() keeps; if that is not
\* in fastboot, fastboot waits for it until the runner's timeout.
FastbootCmd ==
  /\ NewCmd
  /\ fb' \in IF fb = NoPhone THEN Selectable(InFastboot, InFastboot) ELSE {fb}
  /\ IF fb' \in InFastboot THEN outcome' = "done" /\ acted' = acted \cup {fb'}
                            ELSE outcome' = "failed" /\ UNCHANGED acted
  /\ UNCHANGED <<serial, dev, root, pc, cmd, phones, sent, steady, silent, events, faults>>

\* Mutant: fastboot's list is not compared with --serial.
RebootableFastboot ==
  LET named == IF serial = NoPhone THEN Listed ELSE Listed \cap {serial}
  IN  IF named # {} THEN named ELSE InFastboot

\* Those that devices[0] may be: fastboot's list comes after adb's.
Rebootable ==
  LET named(S) == IF serial = NoPhone THEN S ELSE S \cap {serial}
  IN  IF named(Listed) # {} THEN named(Listed) ELSE named(InFastboot)

\* reboot() returns what adb or fastboot printed: a phone that took the command,
\* one without adb's authorization and a call without an answer look the same.
RebootCmd(how) ==
  /\ NewCmd
  /\ \/ /\ Rebootable = {} /\ outcome' = "no_device"
        /\ UNCHANGED <<phones, acted, steady, faults>>
     \/ \E p \in Rebootable :
          /\ outcome' = "sent"
          /\ \/ /\ cable[p] = "in" \/ mode[p] = "fastboot"
                /\ adbd[p] # "restarting"
                /\ mode' = [mode EXCEPT ![p] = how]
                /\ adbd' = [adbd EXCEPT ![p] = "shell"]
                /\ acted' = acted \cup {p}
                /\ steady' = (steady /\ p # dev)
                /\ UNCHANGED <<cable, su, faults>>
             \/ /\ p \in Listed /\ (cable[p] = "locked" \/ adbd[p] = "restarting")
                /\ UNCHANGED <<phones, acted, steady, faults>>
             \/ Fault /\ UNCHANGED <<phones, acted, steady>>
  /\ UNCHANGED <<session, root, pc, cmd, sent, silent, events>>

-----------------------------------------------------------------------------
(* The phones.                                                             *)

World == UNCHANGED <<session, root, pc, cmd, outcome, sent, acted, cmds, faults>>

AdbdIsBack(p) == /\ adbd[p] = "restarting"
                 /\ adbd' = [adbd EXCEPT ![p] = "root"]
                 /\ UNCHANGED <<cable, mode, su, steady, silent, events>> /\ World

Event == events < MaxEvents /\ events' = events + 1

\* The cable goes out or in; adbd keeps its identity.
Cable(p, how) == /\ Event
                 /\ IF cable[p] = "out" THEN how # "out" ELSE how = "out"
                 /\ cable' = [cable EXCEPT ![p] = how]
                 /\ silent' = (silent \/ p = dev)
                 /\ UNCHANGED <<mode, adbd, su, steady>> /\ World

\* The phone restarts by hand; it may have been rooted meanwhile.
Restart(p, how) ==
  /\ Event
  /\ mode' = [mode EXCEPT ![p] = how]
  /\ adbd' = [adbd EXCEPT ![p] = "shell"]
  /\ su' \in {su} \cup (IF su[p] = "absent" THEN {[su EXCEPT ![p] = "asks"]} ELSE {})
  /\ steady' = (steady /\ p # dev)
  /\ UNCHANGED <<cable, silent>> /\ World

\* Root is allowed or revoked in the phone's Magisk app.
Policy(p, what) == /\ Event
                   /\ su[p] \in {"asks", "su"} /\ what \in {"asks", "su"} \ {su[p]}
                   /\ su' = [su EXCEPT ![p] = what]
                   /\ steady' = (steady /\ p # dev)
                   /\ UNCHANGED <<cable, mode, adbd, silent>> /\ World

-----------------------------------------------------------------------------
Session == \/ NoDevice \/ RootStatus \/ RootCmd
           \/ AskId \/ AdbRoot \/ Waited \/ AskIdAgain \/ AskSu \/ SuIsAllowed \/ AskSu0
           \/ Run \/ FastbootCmd
           \/ \E how \in {"system", "recovery", "fastboot"} : RebootCmd(how)

Next == \/ Session
        \/ \E p \in Phones :
             \/ AdbdIsBack(p)
             \/ \E how \in {"out", "in", "locked"} : Cable(p, how)
             \/ \E how \in {"system", "recovery", "fastboot"} : Restart(p, how)
             \/ \E what \in {"asks", "su"} : Policy(p, what)

Spec == Init /\ [][Next]_vars

-----------------------------------------------------------------------------
(* Properties.                                                             *)

\* As long as the chosen phone was not restarted and its su not reconfigured
\* since the probe, what the session runs as root runs as uid 0, through any
\* unplugging and on any later command (device.py:170-202).
RootModeStaysTrue == steady => outcome # "as_shell"

\* A root command is refused rightly: if every call of a full probe was
\* answered and the phone has not changed since, it has no root to offer
\* (device.py:160-190).
RefusalIsRight ==
  (outcome = "RootRequired" /\ steady /\ ~silent /\ dev \in sent) =>
     dev \notin Userdebug /\ su[dev] \in {"absent", "asks"} /\ mode[dev] # "recovery"

\* With --serial no other phone ever does what a command of the session tells,
\* whatever is plugged in, in whatever mode, and whichever list did not answer:
\* three places choose a phone, each from lists of its own (context.py:35-51,
\* device.py:85-106, recovery.py:20-23).
NamedPhoneOnly == serial # NoPhone => acted \cup sent \subseteq {serial}
=============================================================================
