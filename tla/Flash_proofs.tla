---------------------------- MODULE Flash_proofs ----------------------------
(***************************************************************************)
(* Proofs about the two halves of modules/flash.py, RomFlash and Payload.  *)
(* RomFlash: for every set of names, every order in which the firmware     *)
(* comes before the logical partitions, and any number of commands and     *)
(* faults.  Two arguments: the loop has always dealt with what comes       *)
(* before the rest of its plan and never with the rest; and once the tool  *)
(* has switched to fastbootd there is no firmware left whose flashing      *)
(* would take the phone out of it again.                                   *)
(* Payload: for every set of packages of the format, any number of         *)
(* commands and any damage.  The running cursor of the code is shown to be *)
(* the place of the extent in its blob; what an extent writes stays        *)
(* because extents do not overlap; what lies between reads as zeros        *)
(* because the file was emptied when it was opened.                        *)
(* The last theorem joins them: what an extraction reports is the set of   *)
(* names that RomFlash flashes.                                            *)
(***************************************************************************)
EXTENDS RomFlash, Payload, FiniteSetTheorems, SequenceTheorems, TLAPS

Unflashed == flash = [n \in Names |-> "old"] /\ where = [n \in Names |-> "none"]

\* What a command flashes is what was asked for; until it starts, nothing.
AskedInv ==
  /\ Planned \subseteq Names
  /\ Extracted(opts.package, opts.wanted) # {} =>
       Planned \subseteq Extracted(opts.package, opts.wanted)
  /\ \A n \in Names : flash[n] # "old" => n \in Planned
  /\ pc \in {"confirm", "getvar"} => todo = Planned /\ Unflashed

\* The plan is cut where the loop stands.
PrefixInv ==
  /\ pc # "idle" =>
       /\ outcome # "ok" /\ todo \subseteq Planned
       /\ \A n \in todo : flash[n] = "old"
       /\ \A n \in Planned \ todo : flash[n] = "new"
       /\ \A m \in Planned \ todo, n \in todo : Precedes(m, n)
  /\ pc = "reboot" => todo = {}
  /\ PlanPrefixIsFlashed

\* A phone that was sent to fastbootd is there, or under way and sent nowhere
\* else, as long as no fastboot command failed.
ModeInv ==
  /\ (~vars_.userspace /\ userspace /\ ~failed /\ pc \in {"loop", "flash", "wait"}) =>
       /\ mode = "fastbootd" \/ (mode = "off" /\ target = "fastbootd")
       /\ todo \cap Firmware = {}
  /\ pc = "flash" => \A n \in todo : IsNext(n) /\ NeedsFbd(n) => userspace
  /\ LogicalInFastbootd

IInv == TypeOK /\ AskedInv /\ PrefixInv /\ ModeInv
-----------------------------------------------------------------------------
(* The order. *)

LEMMA OrderFacts ==
  /\ \A m, n \in Names : m # n => Precedes(m, n) \/ Precedes(n, m)
  /\ \A m, n \in Names : ~(Precedes(m, n) /\ Precedes(n, m))
<1> DEFINE s == Order
<1>1. /\ s \in Seq(Names)
      /\ \A n \in Names : \E i \in DOMAIN s : s[i] = n
      /\ \A i, j \in DOMAIN s : s[i] = s[j] => i = j
  BY NamesAssumption
<1>2. \A m, n : Precedes(m, n) <=> \E i, j \in DOMAIN s : i < j /\ s[i] = m /\ s[j] = n
  BY DEF Precedes
<1>3. DOMAIN s = 1..Len(s) /\ Len(s) \in Nat
  BY <1>1
<1> HIDE DEF s
<1>4. ASSUME NEW m \in Names, NEW n \in Names, m # n
      PROVE  Precedes(m, n) \/ Precedes(n, m)
  <2>1. PICK i \in DOMAIN s : s[i] = m BY <1>1
  <2>2. PICK j \in DOMAIN s : s[j] = n BY <1>1
  <2>3. i < j \/ j < i BY <1>3, <1>4, <2>1, <2>2
  <2>4. QED BY <1>2, <2>1, <2>2, <2>3
<1>5. ASSUME NEW m \in Names, NEW n \in Names, Precedes(m, n), Precedes(n, m)
      PROVE  FALSE
  <2>1. PICK i \in DOMAIN s, j \in DOMAIN s : i < j /\ s[i] = m /\ s[j] = n BY <1>2, <1>5
  <2>2. PICK k \in DOMAIN s, l \in DOMAIN s : k < l /\ s[k] = n /\ s[l] = m BY <1>2, <1>5
  <2>3. i = l /\ j = k BY <1>1, <2>1, <2>2
  <2>4. QED BY <1>3, <2>1, <2>2, <2>3
<1>6. QED BY <1>4, <1>5

\* There is one next image, and no firmware behind a logical one.
LEMMA NextFacts ==
  ASSUME TypeOK, NEW n \in todo, IsNext(n)
  PROVE  /\ \A m \in todo : IsNext(m) => m = n
         /\ \A m \in todo \ {n} : Precedes(n, m)
         /\ n \in Logical => todo \cap Firmware = {}
<1>1. todo \subseteq Names /\ n \in Names BY DEF TypeOK
<1>2. \A m \in todo \ {n} : Precedes(n, m)
  BY <1>1, OrderFacts DEF IsNext
<1>3. \A m \in todo : IsNext(m) => m = n
  BY <1>2 DEF IsNext
<1>4. n \in Logical => todo \cap Firmware = {}
  BY FirmwareAssumption DEF IsNext
<1>5. QED BY <1>2, <1>3, <1>4
-----------------------------------------------------------------------------
(* What steps keep that flash nothing. *)

LEMMA AskedKept ==
  ASSUME AskedInv, UNCHANGED <<opts, flash, where>>,
         pc' \in {"confirm", "getvar"} => pc \in {"confirm", "getvar"} /\ UNCHANGED todo
  PROVE  AskedInv'
<1>1. Planned' = Planned BY DEF Planned
<1>2. Extracted(opts.package, opts.wanted)' = Extracted(opts.package, opts.wanted)
  BY DEF Extracted
<1>3. QED BY <1>1, <1>2 DEF AskedInv, Unflashed

LEMMA PrefixKept ==
  ASSUME PrefixInv, UNCHANGED <<opts, flash, todo>>,
         pc' # "idle" => pc # "idle" /\ outcome' = outcome,
         pc' = "reboot" => todo = {},
         outcome' = "ok" => outcome = "ok" \/ pc = "reboot"
  PROVE  PrefixInv'
<1>1. Planned' = Planned BY DEF Planned
<1>2. pc' # "idle" =>
        /\ outcome' # "ok" /\ todo \subseteq Planned
        /\ \A n \in todo : flash[n] = "old"
        /\ \A n \in Planned \ todo : flash[n] = "new"
        /\ \A m \in Planned \ todo, n \in todo : Precedes(m, n)
  BY DEF PrefixInv
<1>3. outcome' = "ok" => \A n \in Planned : flash[n] = "new"
  BY DEF PrefixInv, PlanPrefixIsFlashed
<1>4. PlanPrefixIsFlashed'
  BY <1>1, <1>3 DEF PrefixInv, PlanPrefixIsFlashed
<1>5. QED BY <1>1, <1>2, <1>4 DEF PrefixInv

\* Steps before the loop, and the end of a command.
LEMMA ModeKept ==
  ASSUME ModeInv, UNCHANGED <<vars_, where>>, failed => failed',
         pc' \in {"idle", "confirm", "getvar", "reboot"}
  PROVE  ModeInv'
BY DEF ModeInv, LogicalInFastbootd

LEMMA InitInv == Init => IInv
<1> SUFFICES ASSUME Init PROVE IInv
  OBVIOUS
<1>1. Planned = {}
  BY DEF Init, Planned, Plan
<1>2. TypeOK
  BY DEF Init, TypeOK, Modes
<1>3. AskedInv
  BY <1>1 DEF Init, AskedInv
<1>4. PrefixInv /\ ModeInv
  BY <1>1, NamesAssumption DEF Init, PrefixInv, PlanPrefixIsFlashed, ModeInv, LogicalInFastbootd,
                               Logical
<1>5. QED BY <1>2, <1>3, <1>4 DEF IInv
LEMMA FaultFacts ==
  ASSUME TypeOK, Fault \/ NoFault
  PROVE  /\ failed' \in BOOLEAN /\ cmds' \in Nat /\ faults' \in Nat
         /\ failed => failed'
         /\ Fault => failed'
<1>1. /\ failed' = TRUE \/ failed' = failed
      /\ Fault => failed' = TRUE
      /\ cmds' = cmds /\ (faults' = faults + 1 \/ faults' = faults)
  BY DEF Fault, NoFault, bounds
<1>2. cmds' \in Nat /\ faults' \in Nat
  BY <1>1 DEF TypeOK
<1>3. CASE failed' = TRUE
  BY <1>2, <1>3, Zenon
<1>4. CASE failed' = failed
  BY <1>1, <1>2, <1>4, Zenon DEF TypeOK
<1>5. QED BY <1>1, <1>3, <1>4

LEMMA RebootFacts ==
  ASSUME TypeOK, NEW m \in Modes \cup {"android"}, RebootInto(m)
  PROVE  /\ failed' \in BOOLEAN /\ cmds' \in Nat /\ faults' \in Nat
         /\ failed => failed'
         /\ mode' \in Modes \cup {"off", "android"} /\ target' \in Modes \cup {"android"}
         /\ ~failed' => mode' = "off" /\ target' = m
<1>1. CASE mode' = "off" /\ target' = m /\ NoFault
  BY <1>1, FaultFacts
<1>2. CASE Fault /\ UNCHANGED phone
  BY <1>2, FaultFacts DEF phone, TypeOK
<1>3. CASE failed' = TRUE /\ UNCHANGED <<phone, bounds>>
  BY <1>3 DEF phone, bounds, TypeOK
<1>4. QED BY <1>1, <1>2, <1>3 DEF RebootInto
-----------------------------------------------------------------------------
(* Starting a command. *)

LEMMA BeginStep ==
  ASSUME IInv, NEW dir \in SUBSET Names, NEW pack \in SUBSET Names,
         NEW names \in SUBSET Names, NEW only \in SUBSET Names, NEW o \in Options,
         Begin(dir, pack, names, only, o),
         Extracted(pack, names) # {} =>
           Plan(dir, only, o.include_data) \subseteq Extracted(pack, names)
  PROVE  IInv'
<1> DEFINE plan == Plan(dir, only, o.include_data)
<1>1. /\ pc' = "confirm" /\ cmds' = cmds + 1 /\ todo' = plan
      /\ opts' = [images |-> dir, package |-> pack, wanted |-> names, only |-> only,
                  include_data |-> o.include_data, wipe |-> o.wipe, reboot |-> o.reboot]
      /\ flash' = [n \in Names |-> "old"] /\ where' = [n \in Names |-> "none"]
      /\ outcome' = "none" /\ failed' = FALSE
      /\ UNCHANGED <<vars_, userspace, mode, target, faults>>
  BY DEF Begin, phone
<1>2. plan \subseteq Names
  BY DEF Plan
<1>3. opts' \in [images : SUBSET Names, package : SUBSET Names, wanted : SUBSET Names,
                 only : SUBSET Names, include_data : BOOLEAN, wipe : BOOLEAN, reboot : BOOLEAN]
  BY <1>1 DEF Options
<1>4. Planned' = plan
  BY <1>1 DEF Planned, Plan
<1>5. Extracted(opts.package, opts.wanted)' = Extracted(pack, names)
  BY <1>1 DEF Extracted
<1>6. TypeOK'
  <2>1. /\ flash' \in [Names -> {"old", "new", "torn"}]
        /\ where' \in [Names -> Modes \cup {"none"}]
    BY <1>1
  <2>2. cmds' \in Nat /\ faults' \in Nat
    BY <1>1 DEF IInv, TypeOK
  <2>3. /\ failed' \in BOOLEAN /\ userspace' \in BOOLEAN
        /\ vars_' \in [userspace : BOOLEAN, dynamic : BOOLEAN]
        /\ mode' \in Modes \cup {"off", "android"} /\ target' \in Modes \cup {"android"}
    BY <1>1, Zenon DEF IInv, TypeOK
  <2>4. QED BY <1>1, <1>2, <1>3, <2>1, <2>2, <2>3 DEF TypeOK
<1>7. AskedInv'
  BY <1>1, <1>2, <1>4, <1>5 DEF AskedInv, Unflashed
<1>8. PrefixInv'
  BY <1>1, <1>2, <1>4 DEF PrefixInv, PlanPrefixIsFlashed
<1>9. ModeInv'
  <2>1. Logical \subseteq Names BY NamesAssumption DEF Logical
  <2>2. QED BY <1>1, <2>1 DEF ModeInv, LogicalInFastbootd
<1>10. QED BY <1>6, <1>7, <1>8, <1>9 DEF IInv

LEMMA StartStep ==
  ASSUME IInv, NEW a \in Images, NEW b \in Images, NEW w \in Images, NEW o \in Options,
         StartDir(a, w, o) \/ StartPayload(a, b, w, o)
  PROVE  IInv'
<1>1. a \in SUBSET Names /\ b \in SUBSET Names /\ w \in SUBSET Names
  BY NamesAssumption
<1>2. CASE StartDir(a, w, o)
  <2>1. Plan(a, w, o.include_data) \subseteq Extracted(a, w)
    BY DEF Plan, Extracted
  <2>2. QED BY <1>1, <1>2, <2>1, BeginStep DEF StartDir
<1>3. CASE StartPayload(a, b, w, o)
  <2> DEFINE e == Extracted(b, w)
             i == a \cup e
  <2>1. e \in SUBSET Names /\ i \in SUBSET Names
    BY <1>1 DEF Extracted
  <2>2. e # {} => Plan(i, e, o.include_data) \subseteq e
    BY DEF Plan
  <2>3. Begin(i, b, w, e, o)
    BY <1>3 DEF StartPayload
  <2> HIDE DEF e, i
  <2>4. e = Extracted(b, w) BY DEF e
  <2>5. QED BY <1>1, <2>1, <2>2, <2>3, <2>4, BeginStep
<1>4. QED BY <1>2, <1>3

LEMMA AskStep == ASSUME IInv, Confirm \/ Decline PROVE IInv'
<1>1. /\ UNCHANGED <<opts, vars_, todo, userspace, mode, target, flash, where, failed, cmds, faults>>
      /\ pc = "confirm"
      /\ \/ pc' = "getvar" /\ outcome' = outcome
         \/ pc' = "idle" /\ outcome' = "aborted"
  BY DEF Confirm, Decline, args, phone, bounds
<1>2. TypeOK'
  BY <1>1 DEF IInv, TypeOK
<1>3. AskedInv' /\ PrefixInv' /\ ModeInv'
  BY <1>1, AskedKept, PrefixKept, ModeKept DEF IInv
<1>4. QED BY <1>2, <1>3 DEF IInv

LEMMA GetVarStep == ASSUME IInv, GetVar PROVE IInv'
<1>1. /\ pc = "getvar" /\ pc' = "loop"
      /\ userspace' = vars_'.userspace
      /\ UNCHANGED <<opts, todo, mode, target, flash, where, outcome>>
  BY DEF GetVar, phone
<1>2. /\ vars_' \in [userspace : BOOLEAN, dynamic : BOOLEAN]
      /\ failed' \in BOOLEAN /\ cmds' \in Nat /\ faults' \in Nat
  <2>1. CASE Fault /\ vars_' = [userspace |-> FALSE, dynamic |-> FALSE]
    BY <2>1, FaultFacts DEF IInv
  <2>2. ASSUME NoFault, NEW dynamic \in BOOLEAN,
               vars_' = [userspace |-> mode = "fastbootd", dynamic |-> dynamic]
        PROVE  /\ vars_' \in [userspace : BOOLEAN, dynamic : BOOLEAN]
               /\ failed' \in BOOLEAN /\ cmds' \in Nat /\ faults' \in Nat
    <3>1. (mode = "fastbootd") \in BOOLEAN OBVIOUS
    <3>2. vars_' \in [userspace : BOOLEAN, dynamic : BOOLEAN]
      BY <2>2, <3>1, Zenon
    <3>3. QED BY <2>2, <3>2, FaultFacts DEF IInv
  <2>3. QED BY <2>1, <2>2 DEF GetVar
<1>3. TypeOK'
  BY <1>1, <1>2 DEF IInv, TypeOK
<1>4. AskedInv' /\ PrefixInv'
  BY <1>1, AskedKept, PrefixKept DEF IInv
<1>5. ModeInv'
  <2>1. where' = [n \in Names |-> "none"]
    BY <1>1 DEF IInv, AskedInv, Unflashed
  <2>2. \A n \in Logical : where'[n] # "bootloader"
    BY <2>1, NamesAssumption DEF Logical
  <2>3. QED BY <1>1, <2>2 DEF ModeInv, LogicalInFastbootd
<1>6. QED BY <1>3, <1>4, <1>5 DEF IInv
-----------------------------------------------------------------------------
(* The loop. *)

LEMMA SwitchStep == ASSUME IInv, Switch PROVE IInv'
<1>1. /\ pc = "loop" /\ pc' = "wait" /\ userspace' = TRUE
      /\ RebootInto("fastbootd")
      /\ UNCHANGED <<opts, vars_, todo, flash, where, outcome>>
  BY DEF Switch, args
<1>2. PICK n \in todo : IsNext(n) /\ NeedsFbd(n)
  BY DEF Switch
<1>3. /\ failed' \in BOOLEAN /\ cmds' \in Nat /\ faults' \in Nat
      /\ failed => failed'
      /\ mode' \in Modes \cup {"off", "android"} /\ target' \in Modes \cup {"android"}
      /\ ~failed' => mode' = "off" /\ target' = "fastbootd"
  BY <1>1, RebootFacts DEF IInv, Modes
<1>4. TypeOK'
  BY <1>1, <1>3 DEF IInv, TypeOK
<1>5. AskedInv' /\ PrefixInv'
  BY <1>1, AskedKept, PrefixKept DEF IInv
<1>6. todo \cap Firmware = {}
  BY <1>2, NextFacts DEF IInv, NeedsFbd
<1>7. ModeInv'
  BY <1>1, <1>3, <1>6 DEF IInv, ModeInv, LogicalInFastbootd
<1>8. QED BY <1>4, <1>5, <1>7 DEF IInv

LEMMA WaitStep == ASSUME IInv, Waited \/ WaitExpires PROVE IInv'
<1>1. /\ pc = "wait" /\ pc' = "loop"
      /\ UNCHANGED <<opts, vars_, todo, userspace, mode, target, flash, where, outcome, failed,
                     cmds, faults>>
  BY DEF Waited, WaitExpires, args, phone, bounds
<1>2. TypeOK'
  BY <1>1 DEF IInv, TypeOK
<1>3. AskedInv' /\ PrefixInv'
  BY <1>1, AskedKept, PrefixKept DEF IInv
<1>4. ModeInv'
  BY <1>1 DEF IInv, ModeInv, LogicalInFastbootd
<1>5. QED BY <1>2, <1>3, <1>4 DEF IInv

LEMMA FlashStep == ASSUME IInv, Flash PROVE IInv'
<1>1. /\ pc = "loop" /\ pc' = "flash"
      /\ UNCHANGED <<opts, vars_, todo, userspace, mode, target, flash, where, outcome, failed,
                     cmds, faults>>
  BY DEF Flash, args, phone, bounds
<1>2. PICK n \in todo : IsNext(n) /\ (NeedsFbd(n) => userspace)
  BY DEF Flash
<1>3. TypeOK'
  BY <1>1 DEF IInv, TypeOK
<1>4. AskedInv' /\ PrefixInv'
  BY <1>1, AskedKept, PrefixKept DEF IInv
<1>5. \A m \in todo : IsNext(m) /\ NeedsFbd(m) => userspace
  BY <1>2, NextFacts DEF IInv
<1>6. \A m : (IsNext(m))' <=> IsNext(m)
  BY <1>1 DEF IsNext
<1>7. \A m : (NeedsFbd(m))' <=> NeedsFbd(m)
  BY <1>1 DEF NeedsFbd
<1>8. ModeInv'
  BY <1>1, <1>5, <1>6, <1>7 DEF IInv, ModeInv, LogicalInFastbootd
<1>9. QED BY <1>3, <1>4, <1>8 DEF IInv

\* A partition is flashed, or torn, in the mode its kind asks for.
LEMMA RightMode ==
  ASSUME IInv, NEW n \in todo, IsNext(n), pc = "flash", mode \in Modes,
         where' = [where EXCEPT ![n] = mode], UNCHANGED vars_, failed => failed'
  PROVE  LogicalInFastbootd'
<1> SUFFICES ASSUME ~vars_.userspace, vars_.dynamic, ~failed, NEW m \in Logical
             PROVE  where'[m] # "bootloader"
  BY DEF LogicalInFastbootd
<1>1. where \in [Names -> Modes \cup {"none"}] /\ m \in Names
  BY NamesAssumption DEF IInv, TypeOK, Logical
<1>2. CASE m = n
  <2>1. userspace
    BY <1>2 DEF IInv, ModeInv, NeedsFbd
  <2>2. mode = "fastbootd"
    BY <2>1 DEF IInv, ModeInv, Modes
  <2>3. QED BY <1>1, <1>2, <2>2
<1>3. CASE m # n
  <2>1. where'[m] = where[m]
    BY <1>1, <1>3
  <2>2. where[m] # "bootloader"
    BY DEF IInv, ModeInv, LogicalInFastbootd
  <2>3. QED BY <2>1, <2>2
<1>4. QED BY <1>2, <1>3

LEMMA FlashOkStep == ASSUME IInv, FlashOk PROVE IInv'
<1>1. PICK n \in todo :
        /\ IsNext(n)
        /\ flash' = [flash EXCEPT ![n] = "new"]
        /\ where' = [where EXCEPT ![n] = mode]
        /\ todo' = todo \ {n}
        /\ IF n \in Firmware THEN RebootInto("bootloader") /\ pc' = "wait"
                             ELSE pc' = "loop" /\ UNCHANGED phone /\ NoFault
  BY DEF FlashOk
<1>2. /\ pc = "flash" /\ mode \in Modes /\ pc' \in {"loop", "wait"}
      /\ UNCHANGED <<opts, vars_, userspace, outcome>>
  BY <1>1 DEF FlashOk, args
<1>3. /\ failed' \in BOOLEAN /\ cmds' \in Nat /\ faults' \in Nat
      /\ failed => failed'
      /\ mode' \in Modes \cup {"off", "android"} /\ target' \in Modes \cup {"android"}
      /\ n \notin Firmware => UNCHANGED <<mode, target>>
  <2>1. CASE n \in Firmware
    BY <1>1, <2>1, RebootFacts DEF IInv, Modes
  <2>2. CASE n \notin Firmware
    <3>1. UNCHANGED <<mode, target>> /\ NoFault
      BY <1>1, <2>2 DEF phone
    <3>2. mode \in Modes \cup {"off", "android"} /\ target \in Modes \cup {"android"}
      BY DEF IInv, TypeOK
    <3>3. QED BY <2>2, <3>1, <3>2, FaultFacts DEF IInv
  <2>3. QED BY <2>1, <2>2
<1>4. todo \subseteq Planned /\ Planned' = Planned /\ Planned \subseteq Names
  BY <1>2 DEF IInv, PrefixInv, AskedInv, Planned
<1>5. /\ flash \in [Names -> {"old", "new", "torn"}] /\ where \in [Names -> Modes \cup {"none"}]
      /\ n \in Names
  BY <1>4 DEF IInv, TypeOK
<1>6. TypeOK'
  <2>1. /\ flash' \in [Names -> {"old", "new", "torn"}] /\ where' \in [Names -> Modes \cup {"none"}]
        /\ todo' \subseteq Names
    BY <1>1, <1>2, <1>4, <1>5
  <2>2. QED BY <1>2, <1>3, <2>1 DEF IInv, TypeOK
<1>7. AskedInv'
  <2>1. Extracted(opts.package, opts.wanted)' = Extracted(opts.package, opts.wanted)
    BY <1>2 DEF Extracted
  <2>2. \A m \in Names : flash'[m] # "old" => m \in Planned
    BY <1>1, <1>4, <1>5 DEF IInv, AskedInv
  <2>3. QED BY <1>2, <1>4, <2>1, <2>2 DEF IInv, AskedInv
<1>8. PrefixInv'
  <2>1. /\ \A m \in todo' : flash'[m] = "old"
        /\ \A m \in Planned \ todo' : flash'[m] = "new"
        /\ todo' \subseteq Planned
    BY <1>1, <1>2, <1>4, <1>5 DEF IInv, PrefixInv
  <2>2. \A m \in Planned \ todo', k \in todo' : Precedes(m, k)
    BY <1>1, <1>2, NextFacts DEF IInv, PrefixInv
  <2>3. \A m, k \in Planned : Precedes(m, k) /\ flash'[k] # "old" => flash'[m] = "new"
    BY <1>4, <2>1, <2>2, OrderFacts
  <2>4. outcome' # "ok"
    BY <1>2 DEF IInv, PrefixInv
  <2>5. \A m \in Names : flash'[m] # "old" => m \in Planned
    BY <1>1, <1>4, <1>5 DEF IInv, AskedInv
  <2>6. QED BY <1>2, <1>4, <2>1, <2>2, <2>3, <2>4, <2>5 DEF PrefixInv, PlanPrefixIsFlashed
<1>9. ModeInv'
  <2>1. LogicalInFastbootd'
    BY <1>1, <1>2, <1>3, RightMode
  <2>2. ASSUME ~vars_.userspace, userspace, ~failed'
        PROVE  /\ mode' = "fastbootd" \/ (mode' = "off" /\ target' = "fastbootd")
               /\ todo' \cap Firmware = {}
    <3>1. /\ mode = "fastbootd" \/ (mode = "off" /\ target = "fastbootd")
          /\ todo \cap Firmware = {}
      BY <1>2, <1>3, <2>2 DEF IInv, ModeInv
    <3>2. QED BY <1>1, <1>3, <3>1
  <2>3. QED BY <1>2, <2>1, <2>2 DEF ModeInv
<1>10. QED BY <1>6, <1>7, <1>8, <1>9 DEF IInv

\* A command that ends in the middle of a flash.
LEMMA TornStep ==
  ASSUME IInv, Tears, pc = "flash", mode \in Modes,
         pc' = "idle", outcome' \in {"failed", "killed"},
         UNCHANGED <<opts, vars_, todo, userspace, mode, target>>,
         failed => failed', failed' \in BOOLEAN, cmds' \in Nat, faults' \in Nat
  PROVE  IInv'
<1>1. PICK n \in todo : /\ IsNext(n)
                        /\ flash' = [flash EXCEPT ![n] = "torn"]
                        /\ where' = [where EXCEPT ![n] = mode]
  BY DEF Tears
<1>2. todo \subseteq Planned /\ Planned' = Planned /\ Planned \subseteq Names
  BY DEF IInv, PrefixInv, AskedInv, Planned
<1>3. /\ flash \in [Names -> {"old", "new", "torn"}] /\ where \in [Names -> Modes \cup {"none"}]
      /\ n \in Names
  BY <1>2 DEF IInv, TypeOK
<1>4. TypeOK'
  <2>1. flash' \in [Names -> {"old", "new", "torn"}] /\ where' \in [Names -> Modes \cup {"none"}]
    BY <1>1, <1>3
  <2>2. QED BY <2>1 DEF IInv, TypeOK
<1>5. \A m \in Names : flash'[m] # "old" => m \in Planned
  BY <1>1, <1>2, <1>3 DEF IInv, AskedInv
<1>6. AskedInv'
  <2>1. Extracted(opts.package, opts.wanted)' = Extracted(opts.package, opts.wanted)
    BY DEF Extracted
  <2>2. QED BY <1>2, <1>5, <2>1 DEF IInv, AskedInv
<1>7. ASSUME NEW m \in Planned, NEW k \in Planned, Precedes(m, k), flash'[k] # "old"
      PROVE  flash'[m] = "new"
  <2>1. m \notin todo
    <3>1. CASE k = n
      BY <1>1, <1>7, <3>1 DEF IsNext
    <3>2. CASE k # n
      <4>1. flash[k] # "old" BY <1>1, <1>2, <1>3, <1>7, <3>2
      <4>2. k \notin todo BY <4>1 DEF IInv, PrefixInv
      <4>3. m \in todo => Precedes(k, m) BY <4>2 DEF IInv, PrefixInv
      <4>4. QED BY <1>2, <1>7, <4>3, OrderFacts
    <3>3. QED BY <3>1, <3>2
  <2>2. flash[m] = "new" /\ m # n
    BY <2>1 DEF IInv, PrefixInv
  <2>3. QED BY <1>1, <1>2, <1>3, <2>2
<1>8. PrefixInv'
  BY <1>2, <1>5, <1>7 DEF PrefixInv, PlanPrefixIsFlashed
<1>9. ModeInv'
  <2>1. LogicalInFastbootd' BY <1>1, RightMode
  <2>2. QED BY <2>1 DEF ModeInv
<1>10. QED BY <1>4, <1>6, <1>8, <1>9 DEF IInv

\* A command that ends, or nearly, with nothing more flashed.
LEMMA StopStep ==
  ASSUME IInv, UNCHANGED <<opts, vars_, todo, userspace, flash, where>>,
         pc' \in {"idle", "reboot"}, outcome' \in {"none", "aborted", "failed", "ok", "killed"},
         pc' = "reboot" => todo = {} /\ pc # "idle" /\ outcome' = outcome,
         outcome' = "ok" => outcome = "ok" \/ pc = "reboot",
         mode' \in Modes \cup {"off", "android"}, target' \in Modes \cup {"android"},
         failed => failed', failed' \in BOOLEAN, cmds' \in Nat, faults' \in Nat
  PROVE  IInv'
<1>1. TypeOK'
  BY DEF IInv, TypeOK
<1>2. AskedInv' /\ PrefixInv' /\ ModeInv'
  BY AskedKept, PrefixKept, ModeKept DEF IInv
<1>3. QED BY <1>1, <1>2 DEF IInv

LEMMA FlashFailsStep == ASSUME IInv, FlashFails PROVE IInv'
<1>1. /\ pc = "flash" /\ pc' = "idle" /\ outcome' = "failed"
      /\ UNCHANGED <<opts, vars_, todo, userspace, mode, target>>
      /\ UNCHANGED <<flash, where>> \/ (mode \in Modes /\ Tears)
  BY DEF FlashFails, args, phone
<1>2. /\ failed' \in BOOLEAN /\ cmds' \in Nat /\ faults' \in Nat /\ (failed => failed')
  <2>1. CASE Fault
    BY <2>1, FaultFacts DEF IInv
  <2>2. CASE failed' = TRUE /\ UNCHANGED bounds
    BY <2>2 DEF bounds, IInv, TypeOK
  <2>3. QED BY <2>1, <2>2 DEF FlashFails
<1>3. mode \in Modes \cup {"off", "android"} /\ target \in Modes \cup {"android"}
  BY DEF IInv, TypeOK
<1>4. CASE UNCHANGED <<flash, where>>
  BY <1>1, <1>2, <1>3, <1>4, StopStep
<1>5. CASE mode \in Modes /\ Tears
  BY <1>1, <1>2, <1>5, TornStep
<1>6. QED BY <1>1, <1>4, <1>5

LEMMA KillStep == ASSUME IInv, Kill PROVE IInv'
<1>1. /\ pc' = "idle" /\ outcome' = "killed"
      /\ UNCHANGED <<opts, vars_, todo, userspace, mode, target, failed, cmds, faults>>
      /\ UNCHANGED <<flash, where>> \/ (pc = "flash" /\ mode \in Modes /\ Tears)
  BY DEF Kill, args, phone, bounds
<1>2. cmds' \in Nat /\ faults' \in Nat
  BY <1>1 DEF IInv, TypeOK
<1>3. failed' \in BOOLEAN /\ (failed => failed')
  BY <1>1, Zenon DEF IInv, TypeOK
<1>4. mode \in Modes \cup {"off", "android"} /\ target \in Modes \cup {"android"}
  BY DEF IInv, TypeOK
<1>5. CASE UNCHANGED <<flash, where>>
  BY <1>1, <1>2, <1>3, <1>4, <1>5, StopStep
<1>6. CASE pc = "flash" /\ mode \in Modes /\ Tears
  BY <1>1, <1>2, <1>3, <1>6, TornStep
<1>7. QED BY <1>1, <1>5, <1>6

LEMMA WipeStep == ASSUME IInv, Wipe PROVE IInv'
<1>1. /\ pc = "loop" /\ todo = {} /\ pc' = "reboot"
      /\ UNCHANGED <<opts, vars_, todo, userspace, mode, target, flash, where, outcome>>
      /\ Fault \/ NoFault
  BY DEF Wipe, args, phone
<1>2. /\ mode \in Modes \cup {"off", "android"} /\ target \in Modes \cup {"android"}
      /\ outcome \in {"none", "aborted", "failed", "ok", "killed"}
  BY DEF IInv, TypeOK
<1>3. /\ failed' \in BOOLEAN /\ cmds' \in Nat /\ faults' \in Nat /\ (failed => failed')
  BY <1>1, FaultFacts DEF IInv
<1>4. QED BY <1>1, <1>2, <1>3, StopStep

LEMMA FinishStep == ASSUME IInv, Finish PROVE IInv'
<1>1. /\ pc = "reboot" /\ pc' = "idle" /\ outcome' = "ok"
      /\ UNCHANGED <<opts, vars_, todo, userspace, flash, where>>
      /\ RebootInto("android") \/ (UNCHANGED phone /\ NoFault)
  BY DEF Finish, args
<1>2. /\ failed' \in BOOLEAN /\ cmds' \in Nat /\ faults' \in Nat /\ (failed => failed')
      /\ mode' \in Modes \cup {"off", "android"} /\ target' \in Modes \cup {"android"}
  <2>1. CASE RebootInto("android")
    BY <2>1, RebootFacts DEF IInv
  <2>2. CASE UNCHANGED phone /\ NoFault
    <3>1. mode' \in Modes \cup {"off", "android"} /\ target' \in Modes \cup {"android"}
      BY <2>2 DEF phone, IInv, TypeOK
    <3>2. QED BY <2>2, <3>1, FaultFacts DEF IInv
  <2>3. QED BY <1>1, <2>1, <2>2
<1>3. QED BY <1>1, <1>2, StopStep
-----------------------------------------------------------------------------
(* The phone. *)

LEMMA PhoneUpStep == ASSUME IInv, PhoneUp \/ Keys PROVE IInv'
<1>1. /\ UNCHANGED <<pc, opts, vars_, todo, userspace, target, flash, where, outcome, failed,
                     cmds, faults>>
      /\ \/ mode = "off" /\ mode' = target
         \/ pc = "idle" /\ mode' = "bootloader"
  BY DEF PhoneUp, Keys, args, bounds
<1>2. TypeOK'
  BY <1>1 DEF IInv, TypeOK, Modes
<1>3. AskedInv' /\ PrefixInv'
  <2>1. AskedInv' BY <1>1, AskedKept DEF IInv
  <2>2. PrefixInv'
    BY <1>1, PrefixKept DEF IInv, PrefixInv
  <2>3. QED BY <2>1, <2>2
<1>4. \A m : ((IsNext(m))' <=> IsNext(m)) /\ ((NeedsFbd(m))' <=> NeedsFbd(m))
  BY <1>1 DEF IsNext, NeedsFbd
<1>5. ModeInv'
  BY <1>1, <1>4 DEF IInv, ModeInv, LogicalInFastbootd
<1>6. QED BY <1>2, <1>3, <1>5 DEF IInv

LEMMA StepInv == IInv /\ [Next]_all => IInv'
<1> SUFFICES ASSUME IInv, [Next]_all PROVE IInv'
  OBVIOUS
<1>1. CASE Tool
  BY <1>1, GetVarStep, SwitchStep, WaitStep, FlashStep, FlashOkStep, FlashFailsStep, WipeStep,
     FinishStep DEF Tool
<1>2. CASE Operator
  BY <1>2, StartStep, AskStep, KillStep, PhoneUpStep DEF Operator
<1>3. CASE PhoneUp
  BY <1>3, PhoneUpStep
<1>4. CASE UNCHANGED all
  <2>1. UNCHANGED <<pc, opts, todo, vars_, userspace, mode, target, flash, where, outcome,
                    failed, cmds, faults>>
    BY <1>4 DEF all
  <2>2. TypeOK'
    BY <2>1 DEF IInv, TypeOK
  <2>3. AskedInv' BY <2>1, AskedKept DEF IInv
  <2>4. PrefixInv'
    BY <2>1, PrefixKept DEF IInv, PrefixInv
  <2>5. \A m : ((IsNext(m))' <=> IsNext(m)) /\ ((NeedsFbd(m))' <=> NeedsFbd(m))
    BY <2>1 DEF IsNext, NeedsFbd
  <2>6. ModeInv'
    BY <2>1, <2>5 DEF IInv, ModeInv, LogicalInFastbootd
  <2>7. QED BY <2>2, <2>3, <2>4, <2>6 DEF IInv
<1>5. QED BY <1>1, <1>2, <1>3, <1>4 DEF Next
-----------------------------------------------------------------------------
(* Theorems. *)

LEMMA Inductive == Spec => []IInv
BY InitInv, StepInv, PTL DEF Spec

\* Every variable keeps its type: what is torn is torn in a fastboot mode
\* (flash.py:51-107).
THEOREM TypeCorrect == Spec => []TypeOK
<1>1. IInv => TypeOK BY DEF IInv
<1>2. QED BY Inductive, <1>1, PTL

\* For every set of images and every history of commands and faults, the phone
\* has a prefix of the last plan, and all of it if the command returned
\* (flash.py:71-101).
THEOREM PrefixIsFlashed == Spec => []PlanPrefixIsFlashed
<1>1. IInv => PlanPrefixIsFlashed BY DEF IInv, PrefixInv
<1>2. QED BY Inductive, <1>1, PTL

\* For every order that puts the firmware before the logical partitions these
\* are flashed in fastbootd, started in the bootloader and without failures
\* (flash.py:73-101).
THEOREM LogicalIsInFastbootd == Spec => []LogicalInFastbootd
<1>1. IInv => LogicalInFastbootd BY DEF IInv, ModeInv
<1>2. QED BY Inductive, <1>1, PTL

\* Nothing is flashed but what was asked for of the package (flash.py:110-114).
THEOREM OnlyAskedIsFlashed == Spec => []OnlyWantedIsFlashed
<1>1. IInv => OnlyWantedIsFlashed BY DEF IInv, AskedInv, OnlyWantedIsFlashed
<1>2. QED BY Inductive, <1>1, PTL
-----------------------------------------------------------------------------
(* Extraction: the invariant.                                              *)

\* Where the command is in the payload, and what it has read there.
RunInv ==
  /\ stage # "idle" => told = {}
  /\ stage \in {"ops", "write"} => part <= Len(package) /\ Asked /\ Whole(Part)
  /\ stage = "ops" => op <= Len(Ops) + 1
  /\ stage = "write" => /\ op <= Len(Ops) /\ ext <= Len(Ops[op].dst) + 1
                        /\ Sound(Ops[op]) => blob = Ops[op].blob
                        /\ cursor = Before(Ops[op], ext)

\* What is extracted comes before the partition at hand.
DoneInv == \A n \in done : stage # "idle" /\ \E i \in 1..part - 1 : package[i].name = n

Written(i, j) == i < op \/ (i = op /\ stage = "write" /\ j < ext)

\* The image at hand holds what was written so far, inside its final size.
FileInv ==
  stage \in {"ops", "write"} =>
    LET f == images[Part.name]
    IN  /\ f \in Seq(Blocks)
        /\ \A i \in DOMAIN Ops : \A j \in DOMAIN Ops[i].dst : Written(i, j) /\ Sound(Ops[i]) =>
             \A k \in 1..Ops[i].dst[j].num :
               /\ Ops[i].dst[j].start + k \in DOMAIN f
               /\ f[Ops[i].dst[j].start + k] = Meant(Ops[i], j, k)
        /\ \A b \in DOMAIN f :
             /\ b <= Size(Part)
             /\ f[b] = Zero \/ \E i \in DOMAIN Ops : \E j \in DOMAIN Ops[i].dst : b \in BlocksOf(Ops[i].dst[j])

\* What was extracted, or reported, is what was meant.
ExtractedInv ==
  \A i \in DOMAIN package :
    package[i].name \in done \cup told => Intended(package[i], images[package[i].name])

ExtractInv == ExtractTypeOK /\ RunInv /\ DoneInv /\ FileInv /\ ExtractedInv
-----------------------------------------------------------------------------
(* Numbers and finite sets. *)

\* The values of a function with a finite domain are finitely many.
LEMMA ImageFinite ==
  ASSUME NEW f, IsFiniteSet(DOMAIN f), f = [x \in DOMAIN f |-> f[x]]
  PROVE  IsFiniteSet({f[x] : x \in DOMAIN f})
<1> DEFINE T == {f[x] : x \in DOMAIN f}
<1>1. f \in Surjection(DOMAIN f, T)
  BY DEF Surjection
<1>2. QED BY <1>1, FS_Surjection

\* A finite set of numbers has a greatest: the one with the fewest above it.
LEMMA MaxFacts ==
  ASSUME NEW S \in SUBSET Nat, IsFiniteSet(S), S # {}
  PROVE  Max(S) \in S /\ \A y \in S : Max(S) >= y
<1> DEFINE Above(x) == {y \in S : y > x}
           T == {Cardinality(Above(x)) : x \in S}
<1>1. \A x \in S : IsFiniteSet(Above(x)) /\ Cardinality(Above(x)) \in Nat
  <2> TAKE x \in S
  <2>1. Above(x) \in SUBSET S
    OBVIOUS
  <2> HIDE DEF Above
  <2>2. QED BY <2>1, FS_Subset, FS_CardinalityType
<1>2. T \subseteq Nat /\ T # {}
  BY <1>1
<1>3. PICK n \in T : \A m \in T : ~(m < n)
  <2>1. PICK n \in T : \A m \in T : ~(<<m, n>> \in OpToRel(<, Nat))
    BY <1>2, NatLessThanWellFounded, WFMin, Zenon
  <2>2. QED BY <1>2, <2>1 DEF OpToRel
<1>4. PICK x \in S : n = Cardinality(Above(x))
  OBVIOUS
<1>5. ASSUME NEW y \in S, y > x PROVE FALSE
  <2>1. Above(y) \subseteq Above(x) /\ y \in Above(x) /\ y \notin Above(y)
    <3>1. \A z \in S : z \in Nat /\ (z > y => z > x) /\ ~(y > y)
      BY <1>5
    <3>2. QED BY <1>5, <3>1, Zenon
  <2>2. Cardinality(Above(y)) <= Cardinality(Above(x)) /\ Cardinality(Above(y)) # Cardinality(Above(x))
    <3> HIDE DEF Above
    <3>1. QED BY <1>1, <2>1, FS_Subset
  <2>3. Cardinality(Above(y)) \in T
    OBVIOUS
  <2>4. Cardinality(Above(y)) \in Nat /\ Cardinality(Above(x)) \in Nat
    BY <1>1
  <2>5. ~(Cardinality(Above(y)) < Cardinality(Above(x)))
    BY <1>3, <1>4, <2>3
  <2> HIDE DEF Above
  <2>6. QED BY <2>2, <2>4, <2>5
<1>6. \A y \in S : x >= y
  BY <1>5
<1>7. QED BY <1>6 DEF Max

LEMMA MaxOfTwo ==
  ASSUME NEW a \in Nat, NEW b \in Nat
  PROVE  Max({a, b}) = IF a >= b THEN a ELSE b
BY DEF Max

LEMMA MinOfTwo ==
  ASSUME NEW a \in Nat, NEW b \in Nat
  PROVE  Min({a, b}) = IF a <= b THEN a ELSE b
BY DEF Min
-----------------------------------------------------------------------------
(* Extents and images. *)

\* The cursor: an extent begins in the blob where the one before it ends.
LEMMA BeforeFacts ==
  ASSUME NEW o \in Operation
  PROVE  /\ Before(o, 1) = 0
         /\ \A j \in 1..Len(o.dst) : /\ Before(o, j) \in Nat
                                     /\ Before(o, j + 1) = Before(o, j) + o.dst[j].num
                                     /\ Before(o, j + 1) <= Before(o, Len(o.dst) + 1)
<1> DEFINE B(i) == {i} \X (1..o.dst[i].num)
           U(j) == UNION {B(i) : i \in 1..j - 1}
<1>1. o.dst \in Seq(Extent) /\ Len(o.dst) \in Nat
  BY DEF Operation
<1>2. \A i \in 1..Len(o.dst) : o.dst[i].num \in Nat
  <2>1. \A i \in 1..Len(o.dst) : o.dst[i] \in Extent
    BY <1>1
  <2>2. QED BY <2>1 DEF Extent
<1>3. \A i \in 1..Len(o.dst) : IsFiniteSet(B(i)) /\ Cardinality(B(i)) = o.dst[i].num
  <2> TAKE i \in 1..Len(o.dst)
  <2>1. IsFiniteSet({i}) /\ Cardinality({i}) = 1
    BY FS_Singleton
  <2>2. o.dst[i].num \in Nat
    BY <1>2
  <2> DEFINE n == o.dst[i].num
  <2> HIDE DEF n
  <2>3. IsFiniteSet(1..n) /\ Cardinality(1..n) = n
    <3>1. n \in Nat
      BY <2>2 DEF n
    <3>2. QED BY <3>1, FS_Interval
  <2>4. IsFiniteSet({i} \X (1..n)) /\ Cardinality({i} \X (1..n)) = 1 * n
    BY <2>1, <2>3, FS_Product
  <2>5. 1 * n = n
    BY <2>2 DEF n
  <2>6. QED BY <2>4, <2>5 DEF n
<1>4. \A j \in 1..Len(o.dst) + 1 : IsFiniteSet(U(j))
  <2> TAKE j \in 1..Len(o.dst) + 1
  <2> DEFINE f == [i \in 1..j - 1 |-> B(i)]
  <2>1. IsFiniteSet(1..j - 1) /\ DOMAIN f = 1..j - 1
    BY <1>1, FS_Interval
  <2>2. IsFiniteSet({f[i] : i \in DOMAIN f})
    <3>1. f = [i \in DOMAIN f |-> f[i]]
      OBVIOUS
    <3> HIDE DEF f
    <3>2. QED BY <2>1, <3>1, ImageFinite
  <2>3. {f[i] : i \in DOMAIN f} = {B(i) : i \in 1..j - 1}
    BY Zenon
  <2>4. \A i \in 1..j - 1 : IsFiniteSet(B(i))
    BY <1>1, <1>3
  <2>5. QED
    <3> HIDE DEF B, f
    <3>1. IsFiniteSet({B(i) : i \in 1..j - 1})
      BY <2>2, <2>3
    <3>2. \A X \in {B(i) : i \in 1..j - 1} : IsFiniteSet(X)
      BY <2>4
    <3>3. QED BY <3>1, <3>2, FS_UNION
<1>5. U(1) = {}
  OBVIOUS
<1>6. ASSUME NEW j \in 1..Len(o.dst)
      PROVE  U(j + 1) = U(j) \cup B(j) /\ U(j) \cap B(j) = {} /\ U(j + 1) \subseteq U(Len(o.dst) + 1)
  <2>1. 1..(j + 1) - 1 = (1..j - 1) \cup {j}
    BY <1>1
  <2>2. U(j + 1) = U(j) \cup B(j)
    BY <2>1, Zenon
  <2>3. U(j) \cap B(j) = {}
    OBVIOUS
  <2>4. (1..(j + 1) - 1) \subseteq (1..(Len(o.dst) + 1) - 1)
    BY <1>1
  <2>5. U(j + 1) \subseteq U(Len(o.dst) + 1)
    BY <2>4, Zenon
  <2>6. QED BY <2>2, <2>3, <2>5
<1>7. \A j : Before(o, j) = Cardinality(U(j))
  BY DEF Before
<1> HIDE DEF U, B
<1>8. Before(o, 1) = 0
  BY <1>5, <1>7, FS_EmptySet
<1>9. ASSUME NEW j \in 1..Len(o.dst)
      PROVE  /\ Before(o, j) \in Nat
             /\ Before(o, j + 1) = Before(o, j) + o.dst[j].num
             /\ Before(o, j + 1) <= Before(o, Len(o.dst) + 1)
  <2>1. /\ j \in 1..Len(o.dst) + 1 /\ j + 1 \in 1..Len(o.dst) + 1
        /\ Len(o.dst) + 1 \in 1..Len(o.dst) + 1
    BY <1>1
  <2>2. IsFiniteSet(U(j)) /\ IsFiniteSet(B(j)) /\ IsFiniteSet(U(Len(o.dst) + 1))
    BY <1>3, <1>4, <2>1
  <2>3. Cardinality(U(j)) \in Nat /\ Cardinality(B(j)) = o.dst[j].num
    BY <1>3, <2>2, FS_CardinalityType
  <2>4. Cardinality(U(j + 1)) = Cardinality(U(j)) + o.dst[j].num
    <3>1. Cardinality(U(j) \cup B(j)) = Cardinality(U(j)) + Cardinality(B(j)) - Cardinality(U(j) \cap B(j))
      BY <2>2, FS_Union
    <3>2. Cardinality(U(j) \cap B(j)) = 0
      BY <1>6, FS_EmptySet
    <3>3. o.dst[j].num \in Nat
      BY <1>2
    <3>4. Cardinality(U(j)) + o.dst[j].num - 0 = Cardinality(U(j)) + o.dst[j].num
      BY <2>3, <3>3
    <3>5. QED BY <1>6, <2>3, <3>1, <3>2, <3>4
  <2>5. Cardinality(U(j + 1)) <= Cardinality(U(Len(o.dst) + 1))
    BY <1>6, <2>2, FS_Subset
  <2>6. QED BY <1>7, <2>3, <2>4, <2>5
<1>10. QED BY <1>8, <1>9

\* No extent ends behind the size of its partition.
LEMMA SizeFacts ==
  ASSUME NEW p \in Partition
  PROVE  /\ Size(p) \in Nat
         /\ \A i \in DOMAIN p.ops : \A j \in DOMAIN p.ops[i].dst :
              p.ops[i].dst[j].start + p.ops[i].dst[j].num <= Size(p)
<1> DEFINE E == {Ends(p.ops[i]) : i \in DOMAIN p.ops}
           S == {0} \cup UNION E
<1>1. p.ops \in Seq(Operation)
  BY DEF Partition
<1>2. \A i \in DOMAIN p.ops : p.ops[i].dst \in Seq(Extent)
  <2>1. \A i \in DOMAIN p.ops : p.ops[i] \in Operation
    BY <1>1
  <2>2. QED BY <2>1 DEF Operation
<1>3. ASSUME NEW i \in DOMAIN p.ops PROVE Ends(p.ops[i]) \subseteq Nat /\ IsFiniteSet(Ends(p.ops[i]))
  <2> DEFINE d == p.ops[i].dst
             f == [j \in DOMAIN d |-> d[j].start + d[j].num]
  <2>1. d \in Seq(Extent) /\ DOMAIN d = 1..Len(d) /\ Len(d) \in Nat
    BY <1>2
  <2>2. IsFiniteSet({f[j] : j \in DOMAIN f})
    <3>1. IsFiniteSet(DOMAIN f)
      BY <2>1, FS_Interval
    <3>2. f = [j \in DOMAIN f |-> f[j]]
      OBVIOUS
    <3> HIDE DEF f
    <3>3. QED BY <3>1, <3>2, ImageFinite
  <2>3. {f[j] : j \in DOMAIN f} = Ends(p.ops[i])
    BY DEF Ends
  <2>4. Ends(p.ops[i]) \subseteq Nat
    <3>1. \A j \in DOMAIN d : d[j] \in Extent
      BY <2>1
    <3>2. \A j \in DOMAIN d : d[j].start + d[j].num \in Nat
      BY <3>1 DEF Extent
    <3>3. QED BY <3>2 DEF Ends
  <2>5. QED BY <2>2, <2>3, <2>4
<1>4. IsFiniteSet(E)
  <2> DEFINE f == [i \in DOMAIN p.ops |-> Ends(p.ops[i])]
  <2>1. IsFiniteSet(DOMAIN f)
    BY <1>1, FS_Interval
  <2>2. f = [i \in DOMAIN f |-> f[i]]
    OBVIOUS
  <2>3. {f[i] : i \in DOMAIN f} = E
    BY Zenon
  <2> HIDE DEF f
  <2>4. IsFiniteSet({f[i] : i \in DOMAIN f})
    BY <2>1, <2>2, ImageFinite
  <2>5. QED BY <2>3, <2>4
<1>5. IsFiniteSet(S) /\ S \in SUBSET Nat /\ S # {}
  <2>1. IsFiniteSet(UNION E)
    BY <1>3, <1>4, FS_UNION
  <2>2. IsFiniteSet({0})
    BY FS_Singleton
  <2>3. UNION E \subseteq Nat
    BY <1>3
  <2>4. IsFiniteSet({0} \cup UNION E)
    BY <2>1, <2>2, FS_Union
  <2>5. QED BY <2>3, <2>4
<1>6. Max(S) \in S /\ \A y \in S : Max(S) >= y
  <2> HIDE DEF S
  <2>1. QED BY <1>5, MaxFacts
<1>7. Size(p) = Max(S)
  BY DEF Size
<1>8. \A i \in DOMAIN p.ops : \A j \in DOMAIN p.ops[i].dst :
        p.ops[i].dst[j].start + p.ops[i].dst[j].num \in S
  BY DEF Ends
<1> HIDE DEF S
<1>9. QED BY <1>5, <1>6, <1>7, <1>8

\* What writing does to a file: data in its place, the rest kept, zeros between.
Overwrites(new, file, start, data) ==
  /\ new \in Seq(Blocks) /\ DOMAIN file \subseteq DOMAIN new
  /\ \A k \in 1..Len(data) : start + k \in DOMAIN new /\ new[start + k] = data[k]
  /\ \A b \in DOMAIN file : b \notin start + 1..start + Len(data) => new[b] = file[b]
  /\ \A b \in DOMAIN new : b \notin start + 1..start + Len(data) => b \in DOMAIN file \/ new[b] = Zero
  /\ \A b \in DOMAIN new : b \in DOMAIN file \/ b <= start + Len(data)

LEMMA WriteAtFacts ==
  ASSUME NEW file \in Seq(Blocks), NEW start \in Nat, NEW data \in Seq(Blocks)
  PROVE  Overwrites(WriteAt(file, start, data), file, start, data)
<1> DEFINE n == Len(data)
           m == Len(file)
           end == start + n
           top == Max({m, end})
<1>1. /\ n \in Nat /\ m \in Nat /\ DOMAIN file = 1..m /\ DOMAIN data = 1..n
      /\ \A i \in 1..m : file[i] \in Blocks
      /\ \A i \in 1..n : data[i] \in Blocks
      /\ Zero \in Blocks
  BY BlocksAssumption
<1>2. CASE data = <<>>
  <2>1. WriteAt(file, start, data) = file
    BY <1>2 DEF WriteAt
  <2>2. n = 0
    BY <1>2
  <2>3. QED BY <1>1, <2>1, <2>2 DEF Overwrites
<1>3. CASE data # <<>>
  <2>0. end \in Nat /\ end = start + n
    BY <1>1
  <2> HIDE DEF n, m, end
  <2>1. top \in Nat /\ top >= m /\ top >= end /\ (top = m \/ top = end)
    <3>1. end \in Nat
      BY <2>0
    <3>2. top = IF m >= end THEN m ELSE end
      BY <1>1, <3>1, MaxOfTwo
    <3> HIDE DEF top
    <3>3. QED BY <1>1, <3>1, <3>2
  <2> DEFINE w == [i \in 1..top |-> IF i \in start + 1..end THEN data[i - start]
                                     ELSE IF i <= m THEN file[i] ELSE Zero]
  <2>2. WriteAt(file, start, data) = w
    BY <1>3 DEF WriteAt, n, m, end
  <2> HIDE DEF top
  <2>3. \A i \in 1..top : w[i] = IF i \in start + 1..end THEN data[i - start]
                                  ELSE IF i <= m THEN file[i] ELSE Zero
    OBVIOUS
  <2>4. DOMAIN w = 1..top
    OBVIOUS
  <2>5. \A i \in 1..top : w[i] \in Blocks
    <3> TAKE i \in 1..top
    <3>1. CASE i \in start + 1..end
      <4>1. i - start \in 1..n
        BY <1>1, <2>0, <2>1, <3>1
      <4>2. QED BY <1>1, <2>3, <3>1, <4>1
    <3>2. CASE i \notin start + 1..end
      BY <1>1, <2>0, <2>1, <2>3, <3>2
    <3>3. QED BY <3>1, <3>2
  <2>6. w \in Seq(Blocks)
    <3>1. w \in [1..top -> Blocks]
      BY <2>5
    <3> HIDE DEF w
    <3>2. QED BY <2>1, <3>1
  <2> HIDE DEF w
  <2>7. \A k \in 1..n : start + k \in 1..top /\ w[start + k] = data[k]
    <3> TAKE k \in 1..n
    <3>1. start + k \in 1..top /\ start + k \in start + 1..end /\ (start + k) - start = k
      BY <1>1, <2>0, <2>1
    <3>2. QED BY <2>3, <3>1
  <2>8. \A b \in 1..top : b \notin start + 1..end =>
          w[b] = IF b \in 1..m THEN file[b] ELSE Zero
    BY <1>1, <2>0, <2>1, <2>3
  <2>9. 1..m \subseteq 1..top /\ \A b \in 1..top : b \in 1..m \/ b <= end
    BY <1>1, <2>0, <2>1
  <2>10. QED BY <1>1, <2>2, <2>4, <2>6, <2>7, <2>8, <2>9 DEF n, m, end, Overwrites
<1>4. QED BY <1>2, <1>3

LEMMA TruncatedFacts ==
  ASSUME NEW file \in Seq(Blocks), NEW n \in Nat
  PROVE  LET new == Truncated(file, n)
         IN  /\ new \in Seq(Blocks) /\ DOMAIN new = 1..n
             /\ \A b \in 1..n : new[b] = IF b \in DOMAIN file THEN file[b] ELSE Zero
<1> DEFINE w == Truncated(file, n)
<1>1. /\ Len(file) \in Nat /\ DOMAIN file = 1..Len(file)
      /\ \A i \in 1..Len(file) : file[i] \in Blocks
      /\ Zero \in Blocks
  BY BlocksAssumption
<1>2. DOMAIN w = 1..n /\ \A b \in 1..n : w[b] = IF b <= Len(file) THEN file[b] ELSE Zero
  BY DEF Truncated
<1>3. w = [b \in 1..n |-> w[b]]
  BY DEF Truncated
<1> HIDE DEF w
<1>4. \A b \in 1..n : b <= Len(file) <=> b \in DOMAIN file
  BY <1>1
<1>5. \A b \in 1..n : w[b] \in Blocks
  BY <1>1, <1>2, <1>4
<1>6. w \in Seq(Blocks)
  <2>1. w \in [1..n -> Blocks]
    BY <1>3, <1>5
  <2>2. QED BY <2>1
<1>7. QED BY <1>2, <1>4, <1>6 DEF w

LEMMA SliceFacts ==
  ASSUME NEW s \in Seq(Blocks), NEW from \in Nat, NEW n \in Nat, from + n <= Len(s)
  PROVE  /\ Slice(s, from, n) \in Seq(Blocks) /\ Len(Slice(s, from, n)) = n
         /\ \A k \in 1..n : Slice(s, from, n)[k] = s[from + k]
<1>1. Len(s) \in Nat /\ from + n \in Nat
  OBVIOUS
<1>2. Min({Len(s), from + n}) = from + n
  <2> DEFINE a == Len(s)
             b == from + n
  <2>1. a \in Nat /\ b \in Nat /\ b <= a
    BY <1>1
  <2> HIDE DEF a, b
  <2>2. Min({a, b}) = b
    BY <2>1, MinOfTwo
  <2>3. QED BY <2>2 DEF a, b
<1>3. Slice(s, from, n) = SubSeq(s, from + 1, from + n)
  BY <1>2 DEF Slice
<1>4. QED BY <1>1, <1>3, SubSeqProperties

\* However short the data, a slice of it is no longer than what was asked for.
LEMMA SliceIsShort ==
  ASSUME NEW s \in Seq(Blocks), NEW from \in Nat, NEW n \in Nat
  PROVE  Slice(s, from, n) \in Seq(Blocks) /\ Len(Slice(s, from, n)) <= n
<1> DEFINE a == Len(s)
           b == from + n
           m == Min({a, b})
<1>1. a \in Nat /\ b \in Nat
  OBVIOUS
<1>2. m \in Nat /\ m <= a /\ m <= b
  <2> HIDE DEF a, b
  <2>1. QED BY <1>1, MinOfTwo
<1>3. Slice(s, from, n) = SubSeq(s, from + 1, m)
  BY DEF Slice
<1> HIDE DEF m
<1>4. CASE from + 1 <= m
  BY <1>1, <1>2, <1>3, <1>4, SubSeqProperties
<1>5. CASE ~(from + 1 <= m)
  <2>1. SubSeq(s, from + 1, m) = <<>>
    BY <1>1, <1>2, <1>5, SubSeqProperties
  <2>2. <<>> \in Seq(Blocks) /\ Len(<<>>) = 0
    OBVIOUS
  <2>3. 0 <= n
    OBVIOUS
  <2>4. QED BY <1>3, <2>1, <2>2, <2>3, Zenon
<1>6. QED BY <1>4, <1>5
-----------------------------------------------------------------------------
(* The packages and the partition at hand. *)

LEMMA PartitionFacts ==
  ASSUME NEW p \in Partition
  PROVE  /\ p.name \in ImageNames /\ p.ops \in Seq(Operation)
         /\ \A i \in DOMAIN p.ops :
              /\ p.ops[i] \in Operation
              /\ p.ops[i].dst \in Seq(Extent) /\ p.ops[i].blob \in Seq(Blocks)
              /\ \A j \in DOMAIN p.ops[i].dst :
                   /\ p.ops[i].dst[j] \in Extent
                   /\ p.ops[i].dst[j].start \in Nat /\ p.ops[i].dst[j].num \in Nat
<1>1. p.name \in ImageNames /\ p.ops \in Seq(Operation)
  BY DEF Partition
<1>2. \A i \in DOMAIN p.ops : p.ops[i] \in Operation
  BY <1>1
<1>3. \A i \in DOMAIN p.ops : p.ops[i].dst \in Seq(Extent) /\ p.ops[i].blob \in Seq(Blocks)
  BY <1>2 DEF Operation
<1>4. \A i \in DOMAIN p.ops : \A j \in DOMAIN p.ops[i].dst : p.ops[i].dst[j] \in Extent
  BY <1>3
<1>5. \A e \in Extent : e.start \in Nat /\ e.num \in Nat
  BY DEF Extent
<1>6. QED BY <1>1, <1>2, <1>3, <1>4, <1>5

LEMMA PackageFacts ==
  ASSUME package \in Packages \cup {<<>>}
  PROVE  /\ Len(package) \in Nat /\ DOMAIN package = 1..Len(package)
         /\ \A i \in DOMAIN package :
              /\ package[i] \in Partition /\ package[i].name \in ImageNames
              /\ Whole(package[i]) => Disjoint(package[i]) /\ Filled(package[i])
         /\ \A i, j \in DOMAIN package : package[i].name = package[j].name => i = j
<1>1. package \in Seq(Partition)
  <2>1. <<>> \in Seq(Partition)
    OBVIOUS
  <2>2. QED BY <2>1, PackagesAssumption, Zenon
<1>2. CASE package \in Packages
  <2>1. \A i \in DOMAIN package : package[i] \in Partition
    BY <1>1
  <2>2. QED BY <1>1, <1>2, <2>1, PackagesAssumption, PartitionFacts
<1>3. CASE package = <<>>
  BY <1>3
<1>4. QED BY <1>2, <1>3

\* What is known of the partition at hand while its operations are carried out.
LEMMA PartFacts ==
  ASSUME ExtractInv, stage \in {"ops", "write"}
  PROVE  /\ part \in DOMAIN package /\ Part \in Partition /\ Part.name \in ImageNames
         /\ Disjoint(Part) /\ Filled(Part) /\ Part.name \notin done
         /\ Len(Ops) \in Nat /\ DOMAIN Ops = 1..Len(Ops)
<1>1. /\ package \in Packages \cup {<<>>} /\ part \in 1..Len(package) + 1
      /\ part <= Len(package) /\ Whole(Part)
  BY DEF ExtractInv, ExtractTypeOK, RunInv
<1>2. part \in DOMAIN package
  BY <1>1, PackageFacts
<1>3. Part \in Partition /\ Disjoint(Part) /\ Filled(Part)
  BY <1>1, <1>2, PackageFacts DEF Part
<1>4. Part.name \notin done
  <2> SUFFICES ASSUME Part.name \in done PROVE FALSE
    OBVIOUS
  <2>1. PICK i \in 1..part - 1 : package[i].name = Part.name
    BY DEF ExtractInv, DoneInv
  <2>2. i \in DOMAIN package /\ i # part
    BY <1>1, PackageFacts
  <2>3. QED BY <1>1, <1>2, <2>1, <2>2, PackageFacts DEF Part
<1>5. QED BY <1>2, <1>3, <1>4, PartitionFacts DEF Ops

\* The data for an extent is what was meant for it, unless it was damaged.
LEMMA DataFacts ==
  ASSUME ExtractInv, stage = "write", ext <= Len(Ops[op].dst)
  PROVE  LET o == Ops[op]
             d == Data(o, o.dst[ext])
         IN  /\ op \in DOMAIN Ops /\ ext \in DOMAIN o.dst
             /\ o.dst[ext].start \in Nat /\ o.dst[ext].num \in Nat
             /\ d \in Seq(Blocks) /\ Len(d) <= o.dst[ext].num
             /\ Sound(o) => Len(d) = o.dst[ext].num /\ \A k \in 1..o.dst[ext].num : d[k] = Meant(o, ext, k)
             /\ cursor + o.dst[ext].num = Before(o, ext + 1)
<1> DEFINE o == Ops[op]
           n == o.dst[ext].num
           d == Data(o, o.dst[ext])
<1>1. /\ op \in Nat \ {0} /\ ext \in Nat \ {0} /\ op <= Len(Ops)
      /\ blob \in Seq(Blocks) /\ (Sound(o) => blob = o.blob) /\ cursor = Before(o, ext) /\ Whole(Part)
  BY DEF ExtractInv, ExtractTypeOK, RunInv
<1>2. op \in DOMAIN Ops /\ Part \in Partition /\ Filled(Part)
  BY <1>1, PartFacts
<1>3. /\ o \in Operation /\ o.dst \in Seq(Extent) /\ o.blob \in Seq(Blocks)
      /\ ext \in DOMAIN o.dst /\ o.dst[ext].start \in Nat /\ n \in Nat
  <2>1. o \in Operation /\ o.dst \in Seq(Extent) /\ o.blob \in Seq(Blocks)
    BY <1>2, PartitionFacts DEF Ops
  <2>2. ext \in DOMAIN o.dst
    BY <1>1, <2>1
  <2>3. QED BY <1>2, <2>1, <2>2, PartitionFacts DEF Ops
<1>4. /\ Before(o, ext) \in Nat /\ Before(o, ext + 1) = Before(o, ext) + n
      /\ Before(o, ext + 1) <= Before(o, Len(o.dst) + 1)
  BY <1>3, BeforeFacts
<1>5. o.type \in Replacing \cup Zeroing
  BY <1>1, <1>2 DEF Whole, Ops
<1> HIDE DEF n
<1>6. CASE o.type \in Zeroing
  <2>1. d = [k \in 1..n |-> Zero]
    BY <1>6 DEF Data, Zeros, n
  <2>2. d \in Seq(Blocks) /\ Len(d) = n
    <3>1. Zero \in Blocks
      BY BlocksAssumption
    <3> HIDE DEF d, o
    <3>2. QED BY <1>3, <2>1, <3>1
  <2>3. \A k \in 1..n : d[k] = Meant(o, ext, k)
    BY <1>6, <2>1 DEF Meant
  <2>4. QED BY <1>1, <1>2, <1>3, <1>4, <2>2, <2>3 DEF n
<1>7. CASE o.type \in Replacing
  <2>1. o.type \notin Zeroing
    BY <1>7 DEF Replacing, Compressed, Zeroing
  <2>2. d = Slice(blob, cursor, n)
    BY <2>1 DEF Data, n
  <2>3. Len(o.blob) = Before(o, Len(o.dst) + 1)
    BY <1>2, <1>7 DEF Filled, Ops
  <2>4. cursor \in Nat
    BY <1>1, <1>4
  <2>5. d \in Seq(Blocks) /\ Len(d) <= n
    <3> HIDE DEF d, o
    <3>1. QED BY <1>1, <1>3, <2>2, <2>4, SliceIsShort
  <2>6. ASSUME Sound(o)
        PROVE  Len(d) = n /\ \A k \in 1..n : d[k] = Meant(o, ext, k)
    <3>1. blob = o.blob /\ cursor + n <= Len(blob)
      BY <1>1, <1>4, <2>3, <2>6
    <3>2. Len(d) = n /\ \A k \in 1..n : d[k] = blob[cursor + k]
      <4>1. blob \in Seq(Blocks) /\ cursor \in Nat /\ n \in Nat /\ cursor + n <= Len(blob)
        BY <1>1, <1>3, <2>4, <3>1
      <4>2. /\ Len(Slice(blob, cursor, n)) = n
            /\ \A k \in 1..n : Slice(blob, cursor, n)[k] = blob[cursor + k]
        BY <4>1, SliceFacts
      <4> HIDE DEF d, o
      <4>3. QED BY <2>2, <4>2
    <3>3. QED BY <1>1, <2>1, <3>1, <3>2 DEF Meant
  <2>7. QED BY <1>1, <1>2, <1>3, <1>4, <2>5, <2>6 DEF n
<1>8. QED BY <1>5, <1>6, <1>7
-----------------------------------------------------------------------------
(* The initial states, and the ways a command ends without results. *)

LEMMA ExtractInitInv == ExtractInit => ExtractInv
<1> SUFFICES ASSUME ExtractInit PROVE ExtractInv
  OBVIOUS
<1>1. package = <<>> /\ Len(package) = 0 /\ DOMAIN package = {}
  BY DEF ExtractInit
<1>2. ExtractTypeOK
  BY <1>1, BlocksAssumption DEF ExtractInit, ExtractTypeOK
<1>3. RunInv /\ DoneInv /\ FileInv
  BY DEF ExtractInit, RunInv, DoneInv, FileInv
<1>4. ExtractedInv
  BY <1>1 DEF ExtractedInv
<1>5. QED BY <1>2, <1>3, <1>4 DEF ExtractInv

LEMMA RaiseKeeps ==
  ASSUME ExtractInv, Raise, UNCHANGED images, extracts' \in 0..MaxExtracts
  PROVE  ExtractInv'
<1>1. /\ package' = <<>> /\ Len(package') = 0 /\ DOMAIN package' = {}
      /\ stage' = "idle" /\ done' = {} /\ told' = {}
  BY DEF Raise
<1>2. ExtractTypeOK'
  <2>1. images' \in [ImageNames -> Seq(Blocks) \cup {NoFile}]
    BY DEF ExtractInv, ExtractTypeOK
  <2>2. 0 \in 0..Blobs
    BY BlocksAssumption
  <2>3. QED BY <1>1, <2>1, <2>2 DEF Raise, ExtractTypeOK
<1>3. RunInv' /\ DoneInv' /\ FileInv'
  BY <1>1 DEF RunInv, DoneInv, FileInv
<1>4. ExtractedInv'
  BY <1>1 DEF ExtractedInv
<1>5. QED BY <1>2, <1>3, <1>4 DEF ExtractInv

LEMMA EndsKeep ==
  ASSUME ExtractInv, Unparsed \/ Refuse \/ Unreadable \/ KillExtract
  PROVE  ExtractInv'
<1>1. Raise /\ UNCHANGED images
  BY Zenon DEF Unparsed, Refuse, Unreadable, KillExtract
<1>2. extracts' \in 0..MaxExtracts
  <2>1. extracts' = extracts \/ (extracts < MaxExtracts /\ extracts' = extracts + 1)
    BY Zenon DEF Unparsed, Refuse, Unreadable, KillExtract
  <2>2. QED BY <2>1, BlocksAssumption DEF ExtractInv, ExtractTypeOK
<1>3. QED BY <1>1, <1>2, RaiseKeeps
-----------------------------------------------------------------------------
(* The steps between partitions. *)

LEMMA StartKeeps ==
  ASSUME ExtractInv, NEW pkg \in Packages, NEW only \in SUBSET ImageNames, NEW n \in 0..Blobs,
         NEW bad \in SUBSET (1..Blobs), Start(pkg, n, bad, only)
  PROVE  ExtractInv'
<1>1. /\ stage' = "next" /\ part' = 1 /\ package' = pkg /\ upto' = n /\ damage' = bad
      /\ wanted' = only /\ done' = {} /\ told' = {} /\ extracts' = extracts + 1 /\ extracts < MaxExtracts
      /\ UNCHANGED <<op, ext, blob, cursor>> /\ UNCHANGED images
  BY Zenon DEF Start, place
<1>2. ExtractTypeOK'
  <2>1. pkg \in Seq(Partition)
    BY PackagesAssumption
  <2>2. part' \in 1..Len(package') + 1
    BY <1>1, <2>1
  <2>3. extracts' \in 0..MaxExtracts
    BY <1>1, BlocksAssumption DEF ExtractInv, ExtractTypeOK
  <2>4. /\ op' \in Nat \ {0} /\ ext' \in Nat \ {0} /\ cursor' \in Nat /\ blob' \in Seq(Blocks)
        /\ images' \in [ImageNames -> Seq(Blocks) \cup {NoFile}]
    BY <1>1 DEF ExtractInv, ExtractTypeOK
  <2>5. QED BY <1>1, <2>2, <2>3, <2>4 DEF ExtractTypeOK
<1>3. QED BY <1>1, <1>2 DEF ExtractInv, RunInv, DoneInv, FileInv, ExtractedInv

LEMMA SkipKeeps == ASSUME ExtractInv, Skip PROVE ExtractInv'
<1>1. /\ stage = "next" /\ stage' = stage /\ part <= Len(package) /\ part' = part + 1
      /\ UNCHANGED <<package, upto, damage, wanted>> /\ UNCHANGED <<op, ext, blob, cursor>>
      /\ UNCHANGED <<images, done, told, extracts>>
  BY Zenon DEF Skip, input, place
<1>2. ExtractTypeOK'
  BY <1>1, PackageFacts DEF ExtractInv, ExtractTypeOK
<1>3. DoneInv'
  <2>1. 1..part - 1 \subseteq 1..part' - 1
    BY <1>1 DEF ExtractInv, ExtractTypeOK
  <2>2. QED BY <1>1, <2>1 DEF ExtractInv, DoneInv
<1>4. RunInv' /\ FileInv'
  BY <1>1 DEF ExtractInv, RunInv, FileInv
<1>5. ExtractedInv'
  BY <1>1 DEF ExtractInv, ExtractedInv, Intended, Sound
<1>6. QED BY <1>2, <1>3, <1>4, <1>5 DEF ExtractInv

LEMMA ReportKeeps == ASSUME ExtractInv, Report PROVE ExtractInv'
<1>1. /\ stage = "next" /\ stage' = "idle" /\ told' = done /\ done' = {}
      /\ part' = 1 /\ upto' = 0 /\ wanted' = {}
      /\ UNCHANGED <<package, damage, images, extracts>> /\ UNCHANGED <<op, ext, blob, cursor>>
  BY Zenon DEF Report, place
<1>2. ExtractTypeOK'
  BY <1>1, PackageFacts, BlocksAssumption DEF ExtractInv, ExtractTypeOK
<1>3. RunInv' /\ DoneInv' /\ FileInv'
  BY <1>1 DEF RunInv, DoneInv, FileInv
<1>4. ExtractedInv'
  BY <1>1 DEF ExtractInv, ExtractedInv, Intended, Sound
<1>5. QED BY <1>2, <1>3, <1>4 DEF ExtractInv

\* An image that was extracted is not the one that is opened or closed next.
LEMMA OthersKeep ==
  ASSUME ExtractInv, stage \in {"next", "ops", "write"}, part \in DOMAIN package, UNCHANGED <<package, damage, told>>,
         NEW f, images' = [images EXCEPT ![Part.name] = f],
         NEW i \in DOMAIN package, package[i].name \in done
  PROVE  /\ images'[package[i].name] = images[package[i].name]
         /\ Intended(package[i], images'[package[i].name]) /\ package[i].name # Part.name
<1>1. PICK k \in 1..part - 1 : package[k].name = package[i].name
  BY DEF ExtractInv, DoneInv
<1>2. package \in Packages \cup {<<>>}
  BY DEF ExtractInv, ExtractTypeOK
<1>3. k \in DOMAIN package /\ k # part
  BY <1>2, PackageFacts
<1>4. package[i].name # Part.name
  BY <1>1, <1>2, <1>3, PackageFacts DEF Part
<1>5. package[i].name \in ImageNames /\ images \in [ImageNames -> Seq(Blocks) \cup {NoFile}]
  BY <1>2, PackageFacts DEF ExtractInv, ExtractTypeOK
<1>6. QED BY <1>4, <1>5 DEF ExtractInv, ExtractedInv

\* The file is emptied: nothing of an older image stays in it.
LEMMA OpenKeeps == ASSUME ExtractInv, Open PROVE ExtractInv'
<1>1. /\ stage = "next" /\ stage' = "ops" /\ part <= Len(package) /\ Asked /\ Whole(Part)
      /\ images' = [images EXCEPT ![Part.name] = <<>>] /\ op' = 1
      /\ UNCHANGED <<package, upto, damage, wanted>> /\ UNCHANGED <<part, ext, blob, cursor>>
      /\ UNCHANGED <<done, told, extracts>>
  BY Zenon DEF Open, input
<1>2. /\ part \in DOMAIN package /\ Part \in Partition /\ Part.name \in ImageNames
      /\ Part' = Part /\ Ops' = Ops /\ Asked' /\ Len(Ops) \in Nat
  <2>1. part \in DOMAIN package
    BY <1>1, PackageFacts DEF ExtractInv, ExtractTypeOK
  <2>2. Part \in Partition
    BY <2>1, PackageFacts DEF ExtractInv, ExtractTypeOK, Part
  <2>3. Part' = Part
    BY <1>1 DEF Part
  <2>4. QED BY <1>1, <2>1, <2>2, <2>3, PartitionFacts DEF Ops, Asked
<1>3. /\ images \in [ImageNames -> Seq(Blocks) \cup {NoFile}]
      /\ images' \in [ImageNames -> Seq(Blocks) \cup {NoFile}] /\ images'[Part.name] = <<>>
  <2>1. images \in [ImageNames -> Seq(Blocks) \cup {NoFile}]
    BY DEF ExtractInv, ExtractTypeOK
  <2>2. QED BY <1>1, <1>2, <2>1
<1>4. ExtractTypeOK'
  BY <1>1, <1>3 DEF ExtractInv, ExtractTypeOK
<1>5. RunInv'
  BY <1>1, <1>2 DEF ExtractInv, RunInv
<1>6. DoneInv'
  BY <1>1 DEF ExtractInv, DoneInv
<1>7. FileInv'
  <2>1. \A i \in DOMAIN Ops : \A j : ~Written(i, j)'
    BY <1>1, <1>2 DEF Written
  <2>2. images'[Part'.name] = <<>> /\ <<>> \in Seq(Blocks) /\ DOMAIN <<>> = {}
    BY <1>2, <1>3
  <2>3. QED BY <1>2, <2>1, <2>2, Zenon DEF FileInv
<1>8. ExtractedInv'
  <2> SUFFICES ASSUME NEW i \in DOMAIN package, package[i].name \in done \cup told
               PROVE  Intended(package[i], images'[package[i].name])
    BY <1>1 DEF ExtractedInv, Intended, Sound
  <2>1. told = {}
    BY <1>1 DEF ExtractInv, RunInv
  <2>2. QED BY <1>1, <1>2, <2>1, OthersKeep
<1>9. QED BY <1>4, <1>5, <1>6, <1>7, <1>8 DEF ExtractInv
-----------------------------------------------------------------------------
(* The steps inside a partition. *)

LEMMA ReadKeeps == ASSUME ExtractInv, Read PROVE ExtractInv'
<1>1. /\ stage = "ops" /\ stage' = "write" /\ op <= Len(Ops)
      /\ blob' \in Readings(Ops[op]) /\ cursor' = 0 /\ ext' = 1
      /\ UNCHANGED <<package, upto, damage, wanted>> /\ UNCHANGED <<part, op, images, done, told, extracts>>
  BY Zenon DEF Read, input
<1>2. Part' = Part /\ Ops' = Ops /\ Asked' = Asked
  BY <1>1 DEF Part, Ops, Asked
<1>3. op \in DOMAIN Ops /\ Part \in Partition
  BY <1>1, PartFacts DEF ExtractInv, ExtractTypeOK
<1>4. Ops[op] \in Operation /\ Ops[op].dst \in Seq(Extent) /\ Ops[op].blob \in Seq(Blocks)
  BY <1>3, PartitionFacts DEF Ops
<1>5. ExtractTypeOK'
  <2>1. blob' \in Seq(Blocks)
    <3> DEFINE b == Ops[op].blob
    <3>1. b \in Seq(Blocks) /\ Damaged \in Blocks /\ Len(b) \in Nat
      BY <1>4, BlocksAssumption
    <3> HIDE DEF b
    <3>2. ASSUME NEW n \in Nat PROVE [i \in 1..n |-> Damaged] \in Seq(Blocks)
      BY <3>1
    <3>3. \A x \in Garbage(Ops[op]) : \E n \in Nat : x = [i \in 1..n |-> Damaged]
      BY <3>1 DEF Garbage, b
    <3>4. QED BY <1>1, <3>1, <3>2, <3>3 DEF Readings, b
  <2>2. QED BY <1>1, <2>1 DEF ExtractInv, ExtractTypeOK
<1>6. RunInv'
  <2>1. Sound(Ops[op])' = Sound(Ops[op]) /\ (Sound(Ops[op]) => blob' = Ops[op].blob)
    BY <1>1, <1>2 DEF Sound, Readings
  <2>2. Before(Ops[op], 1) = 0
    BY <1>4, BeforeFacts
  <2>3. ext' <= Len(Ops[op].dst) + 1
    BY <1>1, <1>4
  <2>4. QED BY <1>1, <1>2, <2>1, <2>2, <2>3 DEF ExtractInv, RunInv
<1>7. DoneInv'
  BY <1>1 DEF ExtractInv, DoneInv
<1>8. FileInv'
  <2>1. \A i \in DOMAIN Ops : \A j \in DOMAIN Ops[i].dst : Written(i, j)' => Written(i, j)
    BY <1>1, <1>3, <1>4 DEF Written
  <2>2. \A i \in DOMAIN Ops : Sound(Ops[i])' = Sound(Ops[i])
    BY <1>1, <1>2 DEF Sound
  <2>3. QED BY <1>1, <1>2, <2>1, <2>2 DEF ExtractInv, FileInv
<1>9. ExtractedInv'
  BY <1>1 DEF ExtractInv, ExtractedInv, Intended, Sound
<1>10. QED BY <1>5, <1>6, <1>7, <1>8, <1>9 DEF ExtractInv

LEMMA NextOpKeeps == ASSUME ExtractInv, NextOp PROVE ExtractInv'
<1>1. /\ stage = "write" /\ stage' = "ops" /\ ext > Len(Ops[op].dst) /\ op' = op + 1
      /\ ext' = 1 /\ blob' = <<>> /\ cursor' = 0
      /\ UNCHANGED <<package, upto, damage, wanted>> /\ UNCHANGED <<part, images, done, told, extracts>>
  BY Zenon DEF NextOp, input
<1>2. Part' = Part /\ Ops' = Ops /\ Asked' = Asked
  BY <1>1 DEF Part, Ops, Asked
<1>3. op \in DOMAIN Ops /\ Part \in Partition
  BY <1>1, PartFacts DEF ExtractInv, ExtractTypeOK, RunInv
<1>4. ExtractTypeOK'
  BY <1>1 DEF ExtractInv, ExtractTypeOK
<1>5. RunInv'
  BY <1>1, <1>2, <1>3, PartFacts DEF ExtractInv, RunInv
<1>6. DoneInv'
  BY <1>1 DEF ExtractInv, DoneInv
<1>7. FileInv'
  <2>1. Ops[op].dst \in Seq(Extent)
    BY <1>3, PartitionFacts DEF Ops
  <2>2. \A i \in DOMAIN Ops : \A j \in DOMAIN Ops[i].dst : Written(i, j)' => Written(i, j)
    <3> SUFFICES ASSUME NEW i \in DOMAIN Ops, NEW j \in DOMAIN Ops[i].dst, Written(i, j)'
                 PROVE  Written(i, j)
      OBVIOUS
    <3>1. i \in Nat /\ op \in Nat /\ i < op + 1
      BY <1>1, <1>3, PartFacts DEF Written
    <3>2. CASE i = op
      BY <1>1, <2>1, <3>2 DEF Written, ExtractInv, ExtractTypeOK
    <3>3. CASE i # op
      BY <3>1, <3>3 DEF Written
    <3>4. QED BY <3>2, <3>3
  <2>3. \A i \in DOMAIN Ops : Sound(Ops[i])' = Sound(Ops[i])
    BY <1>1, <1>2 DEF Sound
  <2>4. QED BY <1>1, <1>2, <2>2, <2>3 DEF ExtractInv, FileInv
<1>8. ExtractedInv'
  BY <1>1 DEF ExtractInv, ExtractedInv, Intended, Sound
<1>9. QED BY <1>4, <1>5, <1>6, <1>7, <1>8 DEF ExtractInv

LEMMA WriteExtentKeeps == ASSUME ExtractInv, WriteExtent PROVE ExtractInv'
<1> DEFINE e == Ops[op].dst[ext]
           d == Data(Ops[op], e)
           f == images[Part.name]
           g == WriteAt(f, e.start, d)
<1>1. /\ stage = "write" /\ stage' = stage /\ ext <= Len(Ops[op].dst) /\ ext' = ext + 1
      /\ images' = [images EXCEPT ![Part.name] = g] /\ cursor' = cursor + e.num
      /\ UNCHANGED <<package, upto, damage, wanted>>
      /\ UNCHANGED <<part, op, blob, done, told, extracts>>
  BY Zenon DEF WriteExtent, input
<1>2. Part' = Part /\ Ops' = Ops /\ Asked' = Asked
  BY <1>1 DEF Part, Ops, Asked
<1>3. /\ part \in DOMAIN package /\ Part \in Partition /\ Part.name \in ImageNames /\ Disjoint(Part)
      /\ op \in DOMAIN Ops /\ ext \in DOMAIN Ops[op].dst
  BY <1>1, PartFacts, DataFacts
<1>4. /\ e.start \in Nat /\ e.num \in Nat /\ d \in Seq(Blocks) /\ Len(d) <= e.num
      /\ Sound(Ops[op]) => Len(d) = e.num /\ \A k \in 1..e.num : d[k] = Meant(Ops[op], ext, k)
      /\ cursor' = Before(Ops[op], ext + 1)
  BY <1>1, DataFacts
<1>5. f \in Seq(Blocks)
  BY <1>1 DEF ExtractInv, FileInv
<1> HIDE DEF d, f
<1>6. /\ g \in Seq(Blocks) /\ DOMAIN f \subseteq DOMAIN g
      /\ \A k \in 1..Len(d) : e.start + k \in DOMAIN g /\ g[e.start + k] = d[k]
      /\ \A b \in DOMAIN f : b \notin BlocksOf(e) => g[b] = f[b]
      /\ \A b \in DOMAIN g : b \notin BlocksOf(e) => b \in DOMAIN f \/ g[b] = Zero
      /\ \A b \in DOMAIN g : b \in DOMAIN f \/ b <= e.start + e.num
  <2> HIDE DEF e
  <2>1. /\ g \in Seq(Blocks) /\ DOMAIN f \subseteq DOMAIN g
        /\ \A k \in 1..Len(d) : e.start + k \in DOMAIN g /\ g[e.start + k] = d[k]
        /\ \A b \in DOMAIN f : b \notin e.start + 1..e.start + Len(d) => g[b] = f[b]
        /\ \A b \in DOMAIN g : b \notin e.start + 1..e.start + Len(d) => b \in DOMAIN f \/ g[b] = Zero
        /\ \A b \in DOMAIN g : b \in DOMAIN f \/ b <= e.start + Len(d)
    <3>1. Overwrites(g, f, e.start, d)
      BY <1>4, <1>5, WriteAtFacts DEF g
    <3> HIDE DEF g
    <3>2. QED BY <3>1, Zenon DEF Overwrites
  <2>2. DOMAIN g \subseteq Nat /\ Len(d) \in Nat
    BY <1>4, <2>1
  <2>3. \A b : b \notin BlocksOf(e) => b \notin e.start + 1..e.start + Len(d)
    BY <1>4, <2>2 DEF BlocksOf
  <2>4. \A b \in Nat : b <= e.start + Len(d) => b <= e.start + e.num
    BY <1>4, <2>2
  <2> HIDE DEF g
  <2>5. QED BY <2>1, <2>2, <2>3, <2>4, Zenon
<1> HIDE DEF e, g
<1>7. images' \in [ImageNames -> Seq(Blocks) \cup {NoFile}] /\ images'[Part.name] = g
  BY <1>1, <1>3, <1>6 DEF ExtractInv, ExtractTypeOK
<1>8. ExtractTypeOK'
  <2>1. ext' \in Nat \ {0} /\ cursor' \in Nat
    BY <1>1, <1>4 DEF ExtractInv, ExtractTypeOK
  <2>2. QED BY <1>1, <1>7, <2>1 DEF ExtractInv, ExtractTypeOK
<1>9. RunInv'
  <2>1. Sound(Ops[op])' = Sound(Ops[op])
    BY <1>1, <1>2 DEF Sound
  <2>2. ext' <= Len(Ops[op].dst) + 1
    BY <1>1, <1>3, PartitionFacts DEF Ops, ExtractInv, ExtractTypeOK
  <2>3. QED BY <1>1, <1>2, <1>4, <2>1, <2>2 DEF ExtractInv, RunInv
<1>10. DoneInv'
  BY <1>1 DEF ExtractInv, DoneInv
<1>11. \A i \in DOMAIN Ops : Sound(Ops[i])' = Sound(Ops[i])
  BY <1>1, <1>2 DEF Sound
<1>12. ASSUME NEW i \in DOMAIN Ops, NEW j \in DOMAIN Ops[i].dst, Written(i, j)', Sound(Ops[i]),
              NEW k \in 1..Ops[i].dst[j].num
       PROVE  /\ Ops[i].dst[j].start + k \in DOMAIN g
              /\ g[Ops[i].dst[j].start + k] = Meant(Ops[i], j, k)
  <2>1. CASE i = op /\ j = ext
    BY <1>4, <1>6, <1>12, <2>1 DEF e
  <2>2. CASE ~(i = op /\ j = ext)
    <3>1. Written(i, j)
      <4>1. j \in Nat
        BY <1>3, PartitionFacts DEF Ops
      <4>2. QED BY <1>1, <1>12, <2>2, <4>1 DEF Written, ExtractInv, ExtractTypeOK
    <3>2. /\ Ops[i].dst[j].start + k \in DOMAIN f
          /\ f[Ops[i].dst[j].start + k] = Meant(Ops[i], j, k)
      BY <1>1, <1>12, <3>1 DEF ExtractInv, FileInv, f
    <3>3. Ops[i].dst[j].start + k \notin BlocksOf(e)
      <4>1. <<i, j>> # <<op, ext>>
        BY <2>2
      <4>2. BlocksOf(Ops[i].dst[j]) \cap BlocksOf(e) = {}
        BY <1>3, <4>1 DEF Disjoint, Ops, e
      <4>3. Ops[i].dst[j].start + k \in BlocksOf(Ops[i].dst[j])
        <5>1. Ops[i].dst[j].start \in Nat /\ Ops[i].dst[j].num \in Nat
          BY <1>3, PartitionFacts DEF Ops
        <5>2. QED BY <5>1 DEF BlocksOf
      <4>4. QED BY <4>2, <4>3
    <3>4. QED BY <1>6, <3>2, <3>3
  <2>3. QED BY <2>1, <2>2
<1>13. ASSUME NEW b \in DOMAIN g
       PROVE  /\ b <= Size(Part)
              /\ g[b] = Zero \/ \E i \in DOMAIN Ops : \E j \in DOMAIN Ops[i].dst : b \in BlocksOf(Ops[i].dst[j])
  <2>1. e.start + e.num <= Size(Part) /\ Size(Part) \in Nat
    BY <1>3, SizeFacts DEF e, Ops
  <2>2. \A c \in DOMAIN f :
          /\ c <= Size(Part)
          /\ f[c] = Zero \/ \E i \in DOMAIN Ops : \E j \in DOMAIN Ops[i].dst : c \in BlocksOf(Ops[i].dst[j])
    BY <1>1 DEF ExtractInv, FileInv, f
  <2>3. b <= Size(Part)
    <3>1. b \in Nat
      BY <1>6
    <3>2. QED BY <1>4, <1>6, <2>1, <2>2, <3>1
  <2>4. CASE b \in BlocksOf(e)
    BY <1>3, <2>3, <2>4 DEF e
  <2>5. CASE b \notin BlocksOf(e)
    BY <1>6, <2>2, <2>3, <2>5
  <2>6. QED BY <2>4, <2>5
<1>14. FileInv'
  BY <1>2, <1>6, <1>7, <1>11, <1>12, <1>13 DEF FileInv
<1>15. ExtractedInv'
  <2> SUFFICES ASSUME NEW i \in DOMAIN package, package[i].name \in done \cup told
               PROVE  Intended(package[i], images'[package[i].name])
    BY <1>1 DEF ExtractedInv, Intended, Sound
  <2>1. told = {}
    BY <1>1 DEF ExtractInv, RunInv
  <2>2. QED BY <1>1, <1>3, <2>1, OthersKeep
<1>16. QED BY <1>8, <1>9, <1>10, <1>14, <1>15 DEF ExtractInv

\* The whole partition is written, and cut or filled to its size.
LEMMA CloseKeeps == ASSUME ExtractInv, Close PROVE ExtractInv'
<1> DEFINE f == images[Part.name]
           g == Truncated(f, Size(Part))
<1>1. /\ stage = "ops" /\ stage' = "next" /\ op > Len(Ops) /\ part' = part + 1 /\ op' = 1
      /\ images' = [images EXCEPT ![Part.name] = g] /\ done' = done \cup {Part.name}
      /\ UNCHANGED <<package, upto, damage, wanted>> /\ UNCHANGED <<ext, blob, cursor, told, extracts>>
  BY Zenon DEF Close, input
<1>2. /\ part \in DOMAIN package /\ Part \in Partition /\ Part.name \in ImageNames /\ DOMAIN Ops = 1..Len(Ops)
      /\ part <= Len(package) /\ Len(Ops) \in Nat
  BY <1>1, PartFacts DEF ExtractInv, RunInv
<1>3. f \in Seq(Blocks) /\ Size(Part) \in Nat
  BY <1>1, <1>2, SizeFacts DEF ExtractInv, FileInv
<1>4. /\ g \in Seq(Blocks) /\ DOMAIN g = 1..Size(Part)
      /\ \A b \in 1..Size(Part) : g[b] = IF b \in DOMAIN f THEN f[b] ELSE Zero
  <2> HIDE DEF f
  <2>1. QED BY <1>3, TruncatedFacts
<1> HIDE DEF f, g
<1>5. /\ images' \in [ImageNames -> Seq(Blocks) \cup {NoFile}] /\ images'[Part.name] = g
  BY <1>1, <1>2, <1>4 DEF ExtractInv, ExtractTypeOK
<1>6. ExtractTypeOK'
  <2>1. part' \in 1..Len(package') + 1
    BY <1>1, <1>2, PackageFacts DEF ExtractInv, ExtractTypeOK
  <2>2. done' \subseteq ImageNames
    BY <1>1, <1>2 DEF ExtractInv, ExtractTypeOK
  <2>3. QED BY <1>1, <1>5, <2>1, <2>2 DEF ExtractInv, ExtractTypeOK
<1>7. DoneInv'
  <2>1. part \in Nat \ {0}
    BY DEF ExtractInv, ExtractTypeOK
  <2>2. part \in 1..part' - 1 /\ 1..part - 1 \subseteq 1..part' - 1
    BY <1>1, <2>1
  <2>3. QED BY <1>1, <2>2 DEF ExtractInv, DoneInv, Part
<1>8. RunInv' /\ FileInv'
  BY <1>1 DEF ExtractInv, RunInv, FileInv
<1>9. Intended(Part, g)
  <2>1. /\ \A i \in DOMAIN Ops : \A j \in DOMAIN Ops[i].dst : Written(i, j) /\ Sound(Ops[i]) =>
             \A k \in 1..Ops[i].dst[j].num :
               /\ Ops[i].dst[j].start + k \in DOMAIN f
               /\ f[Ops[i].dst[j].start + k] = Meant(Ops[i], j, k)
        /\ \A b \in DOMAIN f :
             /\ b <= Size(Part)
             /\ f[b] = Zero \/ \E i \in DOMAIN Ops : \E j \in DOMAIN Ops[i].dst : b \in BlocksOf(Ops[i].dst[j])
    BY <1>1 DEF ExtractInv, FileInv, f
  <2>2. \A i \in DOMAIN Ops : \A j : Written(i, j)
    BY <1>1, <1>2 DEF Written, ExtractInv, ExtractTypeOK
  <2>3. DOMAIN f \subseteq 1..Size(Part)
    BY <1>3, <2>1
  <2>4. \A i \in DOMAIN Ops : Sound(Ops[i]) => \A j \in DOMAIN Ops[i].dst : \A k \in 1..Ops[i].dst[j].num :
          g[Ops[i].dst[j].start + k] = Meant(Ops[i], j, k)
    BY <1>4, <2>1, <2>2, <2>3
  <2>5. \A b \in DOMAIN g :
          g[b] = Zero \/ \E i \in DOMAIN Ops : \E j \in DOMAIN Ops[i].dst : b \in BlocksOf(Ops[i].dst[j])
    BY <1>4, <2>1
  <2>6. QED BY <1>4, <2>4, <2>5, Zenon DEF Intended, Ops
<1>10. ExtractedInv'
  <2> SUFFICES ASSUME NEW i \in DOMAIN package, package[i].name \in done' \cup told
               PROVE  Intended(package[i], images'[package[i].name])
    BY <1>1 DEF ExtractedInv, Intended, Sound
  <2>1. told = {}
    BY <1>1 DEF ExtractInv, RunInv
  <2>2. CASE package[i].name \in done
    BY <1>1, <1>2, <2>2, OthersKeep
  <2>3. CASE package[i].name = Part.name
    <3>1. package[i] = Part
      BY <1>2, <2>3, PackageFacts DEF ExtractInv, ExtractTypeOK, Part
    <3>2. QED BY <1>5, <1>9, <3>1
  <2>4. QED BY <1>1, <2>1, <2>2, <2>3
<1>11. QED BY <1>6, <1>7, <1>8, <1>10 DEF ExtractInv
-----------------------------------------------------------------------------
(* The theorems. *)

LEMMA ExtractStepInv == ExtractInv /\ [ExtractNext]_extractVars => ExtractInv'
<1> SUFFICES ASSUME ExtractInv, [ExtractNext]_extractVars PROVE ExtractInv'
  OBVIOUS
<1>1. CASE \E pkg \in Packages, only \in SUBSET ImageNames, n \in 0..Blobs, bad \in SUBSET (1..Blobs) :
             Start(pkg, n, bad, only)
  BY <1>1, StartKeeps
<1>2. CASE Unparsed \/ Refuse \/ Unreadable \/ KillExtract
  BY <1>2, EndsKeep
<1>3. CASE Skip \/ Open \/ Report
  BY <1>3, SkipKeeps, OpenKeeps, ReportKeeps
<1>4. CASE Read \/ WriteExtent \/ NextOp \/ Close
  BY <1>4, ReadKeeps, WriteExtentKeeps, NextOpKeeps, CloseKeeps
<1>5. CASE UNCHANGED extractVars
  <2>1. /\ UNCHANGED <<stage, package, upto, damage, wanted>> /\ UNCHANGED <<part, op, ext, blob, cursor>>
        /\ UNCHANGED <<images, done, told, extracts>>
    BY <1>5, Zenon DEF extractVars, input, place
  <2>2. ExtractTypeOK'
    BY <2>1 DEF ExtractInv, ExtractTypeOK
  <2>3. RunInv'
    BY <2>1 DEF ExtractInv, RunInv, Part, Ops, Asked, Sound
  <2>4. DoneInv' /\ ExtractedInv'
    BY <2>1 DEF ExtractInv, DoneInv, ExtractedInv, Intended, Sound
  <2>5. FileInv'
    BY <2>1 DEF ExtractInv, FileInv, Part, Ops, Sound, Written
  <2>6. QED BY <2>2, <2>3, <2>4, <2>5 DEF ExtractInv
<1>6. QED BY <1>1, <1>2, <1>3, <1>4, <1>5, Zenon DEF ExtractNext

LEMMA ExtractInductive == ExtractSpec => []ExtractInv
  BY ExtractInitInv, ExtractStepInv, PTL DEF ExtractSpec

\* Every reachable state is one of the declared ones: the loops stay inside the
\* lists of the manifest (payload.py:205-240, 252-260).
THEOREM ExtractTypeCorrect == ExtractSpec => []ExtractTypeOK
<1>1. ExtractInv => ExtractTypeOK
  BY DEF ExtractInv
<1>2. QED BY <1>1, ExtractInductive, PTL

\* For every package of the format: what is reported is what the payload
\* describes, wherever its data was not damaged in the file (payload.py:213-240).
THEOREM ReportedImagesAreMeant == ExtractSpec => []ReportedIsIntended
<1>1. ExtractInv => ReportedIsIntended
  BY DEF ExtractInv, ExtractedInv, ReportedIsIntended
<1>2. QED BY <1>1, ExtractInductive, PTL

\* No step of any extraction touches an image that was not asked for or that
\* cannot be extracted (payload.py:207-209, 256).
THEOREM RefusedStayUntouched == ExtractSpec => RefusedIsNotTouched
<1> DEFINE Spared == \A n \in ImageNames : images'[n] # images[n] =>
              \E i \in DOMAIN package : /\ package[i].name = n /\ Whole(package[i])
                                        /\ wanted = {} \/ n \in wanted
<1>1. ASSUME ExtractInv, [ExtractNext]_extractVars PROVE [Spared]_extractVars
  <2> SUFFICES ASSUME ExtractNext, NEW n \in ImageNames, images'[n] # images[n]
               PROVE  \E i \in DOMAIN package : /\ package[i].name = n /\ Whole(package[i])
                                                /\ wanted = {} \/ n \in wanted
    BY <1>1
  <2>1. images' # images
    OBVIOUS
  <2>2. Open \/ WriteExtent \/ Close
    <3>1. ~(Unparsed \/ Refuse \/ Unreadable \/ KillExtract)
      BY <2>1, Zenon DEF Unparsed, Refuse, Unreadable, KillExtract
    <3>2. ~(Skip \/ Read \/ NextOp \/ Report)
      BY <2>1, Zenon DEF Skip, Read, NextOp, Report
    <3>3. \A pkg, only, k, bad : ~Start(pkg, k, bad, only)
      BY <2>1, Zenon DEF Start
    <3>4. QED BY <3>1, <3>2, <3>3, Zenon DEF ExtractNext
  <2>3. \E f : images' = [images EXCEPT ![Part.name] = f]
    BY <2>2, Zenon DEF Open, WriteExtent, Close
  <2>4. n = Part.name
    BY <1>1, <2>3 DEF ExtractInv, ExtractTypeOK
  <2>5. part \in DOMAIN package /\ Whole(Part) /\ Asked
    <3>1. CASE Open
      BY <1>1, <3>1, PackageFacts DEF Open, ExtractInv, ExtractTypeOK
    <3>2. CASE WriteExtent \/ Close
      <4>1. stage \in {"ops", "write"}
        BY <3>2, Zenon DEF WriteExtent, Close
      <4>2. QED BY <1>1, <4>1, PartFacts DEF ExtractInv, RunInv
    <3>3. QED BY <2>2, <3>1, <3>2
  <2>6. QED BY <2>4, <2>5 DEF Part, Asked
<1>2. RefusedIsNotTouched <=> [][Spared]_extractVars
  BY DEF RefusedIsNotTouched
<1> HIDE DEF Spared
<1>3. QED BY <1>1, <1>2, ExtractInductive, PTL DEF ExtractSpec
-----------------------------------------------------------------------------
(* What the first half hands to the second.                                *)

\* The partitions that the loop has passed and that were asked for are extracted.
PassedInv ==
  stage # "idle" =>
    \A n : n \in done <=> /\ wanted = {} \/ n \in wanted
                         /\ \E i \in 1..part - 1 : package[i].name = n

LEMMA PassedStep ==
  ASSUME ExtractInv, PassedInv, ExtractNext
  PROVE  PassedInv'
<1>1. package \in Packages \cup {<<>>} /\ part \in 1..Len(package) + 1 /\ Len(package) \in Nat
  BY PackageFacts DEF ExtractInv, ExtractTypeOK
<1>2. ASSUME NEW pkg, NEW n, NEW bad, NEW only, Start(pkg, n, bad, only)
      PROVE  PassedInv'
  BY <1>2 DEF Start, PassedInv
<1>3. CASE Unparsed \/ Refuse \/ Unreadable \/ KillExtract
  BY <1>3 DEF Unparsed, Refuse, Unreadable, KillExtract, Raise, PassedInv
<1>4. CASE Report
  BY <1>4 DEF Report, PassedInv
<1>5. CASE Skip
  <2>1. /\ stage = "next" /\ stage' = stage /\ part' = part + 1 /\ ~Asked
        /\ UNCHANGED <<package, wanted, done>>
    BY <1>5 DEF Skip, input
  <2>2. 1..part' - 1 = (1..part - 1) \cup {part}
    BY <1>1, <2>1
  <2>3. package[part].name \notin wanted /\ wanted # {}
    BY <2>1 DEF Asked, Part
  <2>4. QED BY <2>1, <2>2, <2>3 DEF PassedInv
<1>6. CASE Close
  <2>1. /\ stage = "ops" /\ part' = part + 1 /\ done' = done \cup {package[part].name}
        /\ UNCHANGED <<package, wanted>>
    BY <1>6 DEF Close, input, Part
  <2>2. 1..part' - 1 = (1..part - 1) \cup {part}
    BY <1>1, <2>1
  <2>3. wanted = {} \/ package[part].name \in wanted
    BY <2>1 DEF ExtractInv, RunInv, Asked, Part
  <2>4. QED BY <2>1, <2>2, <2>3 DEF PassedInv
<1>7. CASE Open \/ Read \/ WriteExtent \/ NextOp
  <2>1. /\ stage # "idle" /\ UNCHANGED <<package, wanted, done, part>>
    BY <1>7 DEF Open, Read, WriteExtent, NextOp, input
  <2>2. QED BY <2>1 DEF PassedInv
<1>8. QED BY <1>2, <1>3, <1>4, <1>5, <1>6, <1>7, Zenon DEF ExtractNext

\* What RomFlash takes an extraction for: one step that reports what it calls
\* Extracted, or nothing.
ReportStep == \/ Report /\ told' = Extracted({package[i].name : i \in DOMAIN package}, wanted)
              \/ told' \in {told, {}}

\* An extraction that returns reports exactly the partitions RomFlash calls
\* Extracted, which flash_payload then flashes (flash.py:110-114); one that does
\* not return reports nothing.
THEOREM ReportIsExtracted == ExtractSpec => [][ReportStep]_extractVars
<1> DEFINE All == {package[i].name : i \in DOMAIN package}
<1>1. ExtractInit => PassedInv
  BY DEF ExtractInit, PassedInv
<1>2. ExtractInv /\ PassedInv /\ [ExtractNext]_extractVars => PassedInv'
  <2>1. ASSUME PassedInv, UNCHANGED extractVars PROVE PassedInv'
    BY <2>1 DEF PassedInv, extractVars, input
  <2>2. QED BY <2>1, PassedStep
<1>3. ASSUME ExtractInv, PassedInv, [ExtractNext]_extractVars PROVE [ReportStep]_extractVars
  <2> SUFFICES ASSUME ExtractNext, told' \notin {told, {}}
               PROVE  Report /\ told' = Extracted(All, wanted)
    BY <1>3 DEF ReportStep
  <2>1. Report
    <3>1. ~(Unparsed \/ Refuse \/ Unreadable \/ KillExtract)
      BY Zenon DEF Unparsed, Refuse, Unreadable, KillExtract, Raise
    <3>2. ~(Skip \/ Open \/ Read \/ WriteExtent \/ NextOp \/ Close)
      BY Zenon DEF Skip, Open, Read, WriteExtent, NextOp, Close
    <3>3. \A pkg, only, k, bad : ~Start(pkg, k, bad, only)
      BY Zenon DEF Start
    <3>4. QED BY <3>1, <3>2, <3>3, Zenon DEF ExtractNext
  <2>2. /\ stage = "next" /\ part > Len(package) /\ told' = done
    BY <2>1 DEF Report
  <2>3. /\ package \in Packages \cup {<<>>} /\ part \in 1..Len(package) + 1
        /\ Len(package) \in Nat /\ DOMAIN package = 1..Len(package)
    BY <1>3, PackageFacts DEF ExtractInv, ExtractTypeOK
  <2>4. 1..part - 1 = DOMAIN package
    BY <2>2, <2>3
  <2>5. \A n : n \in done <=> (wanted = {} \/ n \in wanted) /\ n \in All
    BY <1>3, <2>2, <2>4 DEF PassedInv
  <2>6. QED BY <2>1, <2>2, <2>5 DEF Extracted
<1>4. QED BY <1>1, <1>2, <1>3, ExtractInductive, PTL DEF ExtractSpec
=============================================================================
