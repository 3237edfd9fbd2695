-------------------------- MODULE MenuSession_proofs --------------------------
(***************************************************************************)
(* Proofs about MenuSession, for every set of phones and any number of     *)
(* commands and events.  The probe of root_mode is a chain of calls to a   *)
(* phone that may change between them; the invariants say what is known of *)
(* the phone at each link of the chain, and that it is known for as long   *)
(* as nobody restarts it.                                                  *)
(***************************************************************************)
EXTENDS MenuSession, TLAPS

ProbeSteps == {"id", "adb_root", "wait", "id_again", "su", "su0"}

TypeOK ==
  /\ serial \in Phones \cup {NoPhone} /\ dev \in Phones \cup {NoPhone}
  /\ fb \in Phones \cup {NoPhone}
  /\ root \in {"unknown", "none", "adbd", "su", "su0"}
  /\ pc \in ProbeSteps \cup {"idle", "run"}
  /\ cable \in [Phones -> {"out", "in", "locked"}]
  /\ mode \in [Phones -> {"system", "recovery", "fastboot"}]
  /\ adbd \in [Phones -> {"shell", "restarting", "root"}]
  /\ su \in [Phones -> {"absent", "asks", "su", "su0"}]
  /\ steady \in BOOLEAN /\ silent \in BOOLEAN

\* The root mode is asked of one phone, and once.
PhaseInv ==
  /\ pc # "idle" \/ root # "unknown" => dev \in Phones
  /\ pc \in ProbeSteps => root = "unknown"
  /\ pc = "run" => root # "unknown"
  /\ root = "unknown" /\ pc \in {"idle", "id", "adb_root"} => sent = {}
  /\ outcome = "RootRequired" => root = "none"

NamedInv ==
  serial # NoPhone => /\ dev \in {serial, NoPhone} /\ fb \in {serial, NoPhone}
                      /\ acted \cup sent \subseteq {serial}

\* The cached mode is that of the phone.
RootInv ==
  /\ steady /\ root = "adbd" => mode[dev] = "recovery" \/ adbd[dev] = "root"
  /\ steady /\ root = "su" => mode[dev] = "system" /\ su[dev] = "su"
  /\ steady /\ root = "su0" => mode[dev] = "system" /\ su[dev] \in {"su", "su0"}
  /\ outcome = "as_shell" => ~steady

\* What an answered probe has excluded so far.
ProbeInv ==
  steady /\ ~silent =>
    /\ pc \in {"adb_root", "wait", "id_again", "su", "su0"} => mode[dev] # "recovery"
    /\ pc = "wait" /\ dev \in Userdebug => adbd[dev] \in {"restarting", "root"}
    /\ pc = "id_again" /\ dev \in Userdebug => adbd[dev] = "root"
    /\ pc \in {"su", "su0"} /\ dev \in sent => dev \notin Userdebug
    /\ root = "none" /\ dev \in sent =>
         dev \notin Userdebug /\ su[dev] \in {"absent", "asks"} /\ mode[dev] # "recovery"

IInv == TypeOK /\ PhaseInv /\ NamedInv /\ RootInv /\ ProbeInv
-----------------------------------------------------------------------------
(* Facts about the phones. *)

LEMMA DeviceFacts ==
  ASSUME TypeOK
  PROVE  /\ Listed \subseteq Phones /\ Usable \subseteq Phones /\ InFastboot \subseteq Phones
         /\ dev \in Usable => dev \in Phones /\ mode[dev] \in {"system", "recovery"}
         /\ Attached => dev \in Phones /\ mode[dev] \in {"system", "recovery"}
                        /\ adbd[dev] \in {"shell", "root"}
<1>1. Listed \subseteq Phones /\ InFastboot \subseteq Phones /\ Usable \subseteq Phones
  BY DEF Listed, Usable, InFastboot
<1>2. dev \in Usable => dev \in Phones /\ mode[dev] # "fastboot"
  BY DEF Usable, Listed
<1>3. dev \in Phones => mode[dev] \in {"system", "recovery", "fastboot"}
                        /\ adbd[dev] \in {"shell", "restarting", "root"}
  BY DEF TypeOK
<1>4. QED BY <1>1, <1>2, <1>3 DEF Attached

\* select_device gives a phone, and with --serial that one.
LEMMA SelectFacts ==
  ASSUME NEW listed \in SUBSET Phones, NEW usable \in SUBSET Phones,
         NEW p \in Selectable(listed, usable)
  PROVE  p \in Phones /\ (serial # NoPhone => p = serial)
BY DEF Selectable

LEMMA RebootFacts ==
  ASSUME TypeOK, NEW p \in Rebootable
  PROVE  p \in Phones /\ (serial # NoPhone => p = serial)
<1>1. Listed \subseteq Phones /\ InFastboot \subseteq Phones
  BY DeviceFacts
<1>2. CASE serial = NoPhone
  BY <1>1, <1>2 DEF Rebootable
<1>3. CASE serial # NoPhone
  <2>1. p \in Listed \cap {serial} \/ p \in InFastboot \cap {serial}
    BY <1>3 DEF Rebootable
  <2>2. QED BY <1>1, <2>1
<1>4. QED BY <1>2, <1>3

\* Nothing the invariants speak of but the command's own outcome.
PhonesSame == cable' = cable /\ mode' = mode /\ adbd' = adbd /\ su' = su
ChoiceSame == serial' = serial /\ dev' = dev /\ root' = root /\ pc' = pc /\ sent' = sent

\* Phones may restart and change, but the invariants survive it.
LEMMA WorldKeeps ==
  ASSUME IInv, serial' = serial, dev' = dev, fb' = fb, root' = root, pc' = pc, sent' = sent,
         NEW p \in Phones,
         acted' = acted \/ (acted' = acted \cup {p} /\ (serial # NoPhone => p = serial)),
         outcome' \in {outcome, "sent"},
         cable' \in [Phones -> {"out", "in", "locked"}],
         mode' \in [Phones -> {"system", "recovery", "fastboot"}],
         adbd' \in [Phones -> {"shell", "restarting", "root"}],
         su' \in [Phones -> {"absent", "asks", "su", "su0"}],
         \A q \in Phones \ {p} : mode'[q] = mode[q] /\ adbd'[q] = adbd[q] /\ su'[q] = su[q],
         steady' = (steady /\ p # dev), silent' = silent
  PROVE  IInv'
<1>1. TypeOK /\ PhaseInv /\ NamedInv /\ RootInv /\ ProbeInv
  BY DEF IInv
<1>2. TypeOK'
  BY <1>1 DEF TypeOK
<1>3. PhaseInv'
  BY <1>1 DEF PhaseInv
<1>4. NamedInv'
  BY <1>1 DEF NamedInv
<1>5. ASSUME steady' PROVE steady /\ p # dev
  BY <1>5, Zenon
<1>6. ASSUME steady', dev \in Phones
      PROVE mode'[dev] = mode[dev] /\ adbd'[dev] = adbd[dev] /\ su'[dev] = su[dev]
  BY <1>5, <1>6
<1>7. ASSUME steady', root # "unknown" \/ pc \in ProbeSteps PROVE dev \in Phones
  BY <1>1, <1>7 DEF PhaseInv, ProbeSteps
<1>8. RootInv'
  BY <1>1, <1>5, <1>6, <1>7 DEF RootInv
<1>9. ProbeInv'
  <2>1. SUFFICES ASSUME steady', ~silent' PROVE ProbeInv'
    BY DEF ProbeInv
  <2>2. steady /\ ~silent
    BY <1>5, <2>1
  <2>3. CASE pc \in ProbeSteps \/ root # "unknown"
    BY <1>1, <1>6, <1>7, <2>1, <2>2, <2>3 DEF ProbeInv
  <2>4. CASE ~(pc \in ProbeSteps \/ root # "unknown")
    BY <2>4 DEF ProbeInv, ProbeSteps
  <2>5. QED BY <2>3, <2>4
<1>10. QED BY <1>2, <1>3, <1>4, <1>8, <1>9 DEF IInv

\* A step that leaves the chosen phone and the probe alone.
LEMMA QuietKeeps ==
  ASSUME IInv, ChoiceSame, fb' \in Phones \cup {NoPhone},
         serial # NoPhone => fb' \in {serial, NoPhone} /\ acted' \subseteq acted \cup {serial},
         mode' = mode, adbd' = adbd, su' = su, steady' = steady,
         cable' \in [Phones -> {"out", "in", "locked"}],
         silent' \in {silent, TRUE},
         outcome' = outcome \/ outcome' \notin {"as_shell", "RootRequired"}
  PROVE  IInv'
<1>1. TypeOK /\ PhaseInv /\ NamedInv /\ RootInv /\ ProbeInv
  BY DEF IInv
<1>2. /\ serial' = serial /\ dev' = dev /\ root' = root /\ pc' = pc /\ sent' = sent
  BY DEF ChoiceSame
<1>3. silent' \in BOOLEAN /\ (~silent' => ~silent)
  BY <1>1, Zenon DEF TypeOK
<1>4. TypeOK'
  BY <1>1, <1>2, <1>3, Zenon DEF TypeOK
<1>5. PhaseInv'
  BY <1>1, <1>2 DEF PhaseInv
<1>6. NamedInv'
  BY <1>1, <1>2 DEF NamedInv
<1>7. RootInv'
  BY <1>1, <1>2 DEF RootInv
<1>8. ProbeInv'
  <2>1. SUFFICES ASSUME steady', ~silent' PROVE ProbeInv'
    BY DEF ProbeInv
  <2>2. steady /\ ~silent
    BY <1>3, <2>1
  <2>3. QED BY <1>1, <1>2, <2>2 DEF ProbeInv
<1>9. QED BY <1>4, <1>5, <1>6, <1>7, <1>8 DEF IInv

LEMMA QuietSteps ==
  IInv /\ (NoDevice \/ FastbootCmd \/ UNCHANGED vars) => IInv'
<1> SUFFICES ASSUME IInv, NoDevice \/ FastbootCmd \/ UNCHANGED vars PROVE IInv'
  OBVIOUS
<1>1. TypeOK /\ NamedInv
  BY DEF IInv
<1>2. CASE NoDevice
  <2>1. /\ ChoiceSame /\ fb' = fb /\ acted' = acted /\ cable' = cable /\ mode' = mode
        /\ adbd' = adbd /\ su' = su /\ steady' = steady /\ silent' = silent
        /\ outcome' = "no_device"
    BY <1>2, Zenon DEF NoDevice, ChoiceSame, session, phones
  <2>2. fb' \in Phones \cup {NoPhone} /\ cable' \in [Phones -> {"out", "in", "locked"}]
    BY <1>1, <2>1, Zenon DEF TypeOK
  <2>3. serial # NoPhone => fb' \in {serial, NoPhone} /\ acted' \subseteq acted \cup {serial}
    BY <1>1, <2>1 DEF NamedInv
  <2>4. QED BY <2>1, <2>2, <2>3, QuietKeeps
<1>3. CASE FastbootCmd
  <2>1. /\ ChoiceSame /\ cable' = cable /\ mode' = mode
        /\ adbd' = adbd /\ su' = su /\ steady' = steady /\ silent' = silent
        /\ outcome' \in {"done", "failed"} /\ acted' \in {acted, acted \cup {fb'}}
        /\ fb' \in (IF fb = NoPhone THEN Selectable(InFastboot, InFastboot) ELSE {fb})
        /\ outcome' = "done" => fb' \in InFastboot
        /\ outcome' = "failed" => acted' = acted
    BY <1>3 DEF FastbootCmd, ChoiceSame, phones
  <2>2. fb' \in Phones \cup {NoPhone} /\ (serial # NoPhone => fb' \in {serial, NoPhone})
    <3>1. CASE fb = NoPhone
      BY <1>1, <2>1, <3>1, DeviceFacts, SelectFacts
    <3>2. CASE fb # NoPhone
      BY <1>1, <2>1, <3>2 DEF TypeOK, NamedInv
    <3>3. QED BY <3>1, <3>2
  <2>3. cable' \in [Phones -> {"out", "in", "locked"}]
    BY <1>1, <2>1, Zenon DEF TypeOK
  <2>4. serial # NoPhone => acted' \subseteq acted \cup {serial}
    <3>1. InFastboot \subseteq Phones /\ NoPhone \notin Phones
      BY <1>1, DeviceFacts, PhonesAssumption
    <3>2. fb' = NoPhone => acted' = acted
      BY <2>1, <3>1
    <3>3. QED BY <2>1, <2>2, <3>2
  <2>5. QED BY <2>1, <2>2, <2>3, <2>4, QuietKeeps
<1>4. CASE UNCHANGED vars
  <2>1. /\ ChoiceSame /\ fb' = fb /\ acted' = acted /\ cable' = cable /\ mode' = mode
        /\ adbd' = adbd /\ su' = su /\ steady' = steady /\ silent' = silent
        /\ outcome' = outcome
    BY <1>4, Zenon DEF vars, ChoiceSame, session, phones
  <2>2. fb' \in Phones \cup {NoPhone} /\ cable' \in [Phones -> {"out", "in", "locked"}]
    BY <1>1, <2>1, Zenon DEF TypeOK
  <2>3. serial # NoPhone => fb' \in {serial, NoPhone} /\ acted' \subseteq acted \cup {serial}
    BY <1>1, <2>1 DEF NamedInv
  <2>4. QED BY <2>1, <2>2, <2>3, QuietKeeps
<1>5. QED BY <1>2, <1>3, <1>4
-----------------------------------------------------------------------------
(* The phones change, by the technician's hand or by `mrt reboot`. *)

LEMMA CableStep ==
  ASSUME IInv, NEW p \in Phones, NEW how \in {"out", "in", "locked"}, Cable(p, how)
  PROVE  IInv'
<1>1. TypeOK /\ NamedInv
  BY DEF IInv
<1>2. /\ ChoiceSame /\ fb' = fb /\ acted' = acted /\ mode' = mode /\ adbd' = adbd /\ su' = su
      /\ steady' = steady /\ silent' = (silent \/ p = dev) /\ outcome' = outcome
      /\ cable' = [cable EXCEPT ![p] = how]
  BY Zenon DEF Cable, World, ChoiceSame, session
<1>3. cable' \in [Phones -> {"out", "in", "locked"}]
  BY <1>1, <1>2 DEF TypeOK
<1>4. silent' \in {silent, TRUE}
  <2>1. CASE p = dev
    BY <1>2, <2>1, Zenon
  <2>2. CASE p # dev
    <3>1. silent \in BOOLEAN
      BY <1>1 DEF TypeOK
    <3>2. silent' = silent
      BY <1>2, <2>2, <3>1, Zenon
    <3>3. QED BY <3>2
  <2>3. QED BY <2>1, <2>2
<1>5. fb' \in Phones \cup {NoPhone}
  BY <1>1, <1>2, Zenon DEF TypeOK
<1>6. serial # NoPhone => fb' \in {serial, NoPhone} /\ acted' \subseteq acted \cup {serial}
  BY <1>1, <1>2 DEF NamedInv
<1>7. QED BY <1>2, <1>3, <1>4, <1>5, <1>6, QuietKeeps

LEMMA RestartStep ==
  ASSUME IInv, NEW p \in Phones, NEW how \in {"system", "recovery", "fastboot"}, Restart(p, how)
  PROVE  IInv'
<1>1. TypeOK
  BY DEF IInv
<1>2. /\ serial' = serial /\ dev' = dev /\ fb' = fb /\ root' = root /\ pc' = pc /\ sent' = sent
      /\ acted' = acted /\ outcome' = outcome /\ cable' = cable /\ silent' = silent
      /\ steady' = (steady /\ p # dev)
      /\ mode' = [mode EXCEPT ![p] = how] /\ adbd' = [adbd EXCEPT ![p] = "shell"]
  BY Zenon DEF Restart, World, session
<1>3. su' = su \/ su' = [su EXCEPT ![p] = "asks"]
  BY DEF Restart
<1>4. /\ cable' \in [Phones -> {"out", "in", "locked"}]
      /\ mode' \in [Phones -> {"system", "recovery", "fastboot"}]
      /\ adbd' \in [Phones -> {"shell", "restarting", "root"}]
      /\ su' \in [Phones -> {"absent", "asks", "su", "su0"}]
  BY <1>1, <1>2, <1>3 DEF TypeOK
<1>5. \A q \in Phones \ {p} : mode'[q] = mode[q] /\ adbd'[q] = adbd[q] /\ su'[q] = su[q]
  BY <1>1, <1>2, <1>3 DEF TypeOK
<1>6. QED BY <1>2, <1>4, <1>5, WorldKeeps

LEMMA PolicyStep ==
  ASSUME IInv, NEW p \in Phones, NEW what \in {"asks", "su"}, Policy(p, what)
  PROVE  IInv'
<1>1. TypeOK
  BY DEF IInv
<1>2. /\ serial' = serial /\ dev' = dev /\ fb' = fb /\ root' = root /\ pc' = pc /\ sent' = sent
      /\ acted' = acted /\ outcome' = outcome /\ cable' = cable /\ silent' = silent
      /\ steady' = (steady /\ p # dev) /\ mode' = mode /\ adbd' = adbd
      /\ su' = [su EXCEPT ![p] = what]
  BY Zenon DEF Policy, World, session
<1>3. /\ cable' \in [Phones -> {"out", "in", "locked"}]
      /\ mode' \in [Phones -> {"system", "recovery", "fastboot"}]
      /\ adbd' \in [Phones -> {"shell", "restarting", "root"}]
      /\ su' \in [Phones -> {"absent", "asks", "su", "su0"}]
  BY <1>1, <1>2 DEF TypeOK
<1>4. \A q \in Phones \ {p} : mode'[q] = mode[q] /\ adbd'[q] = adbd[q] /\ su'[q] = su[q]
  BY <1>1, <1>2 DEF TypeOK
<1>5. QED BY <1>2, <1>3, <1>4, WorldKeeps

LEMMA RebootStep ==
  ASSUME IInv, NEW how \in {"system", "recovery", "fastboot"}, RebootCmd(how)
  PROVE  IInv'
<1>1. TypeOK /\ NamedInv
  BY DEF IInv
<1>2. /\ serial' = serial /\ dev' = dev /\ fb' = fb /\ root' = root /\ pc' = pc /\ sent' = sent
      /\ silent' = silent
  BY Zenon DEF RebootCmd, session
<1>3. CASE UNCHANGED <<phones, acted, steady>> /\ outcome' \in {"no_device", "sent"}
  <2>1. /\ ChoiceSame /\ acted' = acted /\ cable' = cable /\ mode' = mode /\ adbd' = adbd
        /\ su' = su /\ steady' = steady
    BY <1>2, <1>3, Zenon DEF ChoiceSame, phones
  <2>2. fb' \in Phones \cup {NoPhone} /\ cable' \in [Phones -> {"out", "in", "locked"}]
    BY <1>1, <1>2, <2>1, Zenon DEF TypeOK
  <2>3. serial # NoPhone => fb' \in {serial, NoPhone} /\ acted' \subseteq acted \cup {serial}
    BY <1>1, <1>2, <2>1 DEF NamedInv
  <2>4. outcome' \notin {"as_shell", "RootRequired"}
    BY <1>3
  <2>5. QED BY <1>2, <2>1, <2>2, <2>3, <2>4, QuietKeeps
<1>4. ASSUME NEW p \in Rebootable,
             /\ outcome' = "sent"
             /\ mode' = [mode EXCEPT ![p] = how] /\ adbd' = [adbd EXCEPT ![p] = "shell"]
             /\ acted' = acted \cup {p} /\ steady' = (steady /\ p # dev)
             /\ UNCHANGED <<cable, su>>
      PROVE  IInv'
  <2>1. p \in Phones /\ (serial # NoPhone => p = serial)
    BY <1>1, RebootFacts
  <2>2. /\ cable' \in [Phones -> {"out", "in", "locked"}]
        /\ mode' \in [Phones -> {"system", "recovery", "fastboot"}]
        /\ adbd' \in [Phones -> {"shell", "restarting", "root"}]
        /\ su' \in [Phones -> {"absent", "asks", "su", "su0"}]
    BY <1>1, <1>4, <2>1 DEF TypeOK
  <2>3. \A q \in Phones \ {p} : mode'[q] = mode[q] /\ adbd'[q] = adbd[q] /\ su'[q] = su[q]
    BY <1>1, <1>4, <2>1 DEF TypeOK
  <2>4. steady' = (steady /\ p # dev) /\ acted' = acted \cup {p} /\ outcome' \in {outcome, "sent"}
    BY <1>4, Zenon
  <2>5. QED BY <1>2, <2>1, <2>2, <2>3, <2>4, WorldKeeps
<1>5. QED BY <1>3, <1>4, Zenon DEF RebootCmd

LEMMA BackStep ==
  ASSUME IInv, NEW p \in Phones, AdbdIsBack(p)
  PROVE  IInv'
<1>1. TypeOK /\ PhaseInv /\ NamedInv /\ RootInv /\ ProbeInv
  BY DEF IInv
<1>2. /\ serial' = serial /\ dev' = dev /\ fb' = fb /\ root' = root /\ pc' = pc /\ sent' = sent
      /\ acted' = acted /\ outcome' = outcome /\ cable' = cable /\ silent' = silent
      /\ steady' = steady /\ mode' = mode /\ su' = su
      /\ adbd[p] = "restarting" /\ adbd' = [adbd EXCEPT ![p] = "root"]
  BY Zenon DEF AdbdIsBack, World, session
<1>3. adbd' \in [Phones -> {"shell", "restarting", "root"}]
  BY <1>1, <1>2 DEF TypeOK
<1>4. TypeOK'
  BY <1>1, <1>2, <1>3, Zenon DEF TypeOK
<1>5. dev \in Phones => adbd'[dev] = adbd[dev] \/ (adbd[dev] = "restarting" /\ adbd'[dev] = "root")
  BY <1>1, <1>2 DEF TypeOK
<1>6. root # "unknown" \/ pc \in {"wait", "id_again"} => dev \in Phones
  BY <1>1 DEF PhaseInv
<1>7. PhaseInv' /\ NamedInv'
  BY <1>1, <1>2, Zenon DEF PhaseInv, NamedInv
<1>8. RootInv'
  BY <1>1, <1>2, <1>5, <1>6 DEF RootInv
<1>9. ProbeInv'
  BY <1>1, <1>2, <1>5, <1>6 DEF ProbeInv
<1>10. QED BY <1>4, <1>7, <1>8, <1>9 DEF IInv
-----------------------------------------------------------------------------
(* The commands of the session. *)

LEMMA StartStep ==
  ASSUME IInv, NEW try, NEW wants, StartCmd(try, wants)
  PROVE  IInv'
<1>1. TypeOK /\ PhaseInv /\ NamedInv /\ RootInv /\ ProbeInv
  BY DEF IInv
<1>2. /\ serial' = serial /\ fb' = fb /\ root' = root /\ cable' = cable /\ mode' = mode
      /\ adbd' = adbd /\ su' = su /\ sent' = sent /\ acted' = acted /\ outcome' = "none"
      /\ pc = "idle"
  BY Zenon DEF StartCmd, NewCmd, phones
<1>3. dev' \in (IF dev = NoPhone THEN Selectable(Listed, Usable) ELSE {dev})
  BY DEF StartCmd
<1>4. dev' \in Phones /\ (serial # NoPhone => dev' = serial) /\ (dev # NoPhone => dev' = dev)
  <2>1. CASE dev = NoPhone
    BY <1>1, <1>3, <2>1, DeviceFacts, SelectFacts
  <2>2. CASE dev # NoPhone
    BY <1>1, <1>3, <2>2 DEF TypeOK, NamedInv
  <2>3. QED BY <2>1, <2>2
<1>5. CASE root = "unknown"
  <2>1. pc' = "id" /\ steady' = TRUE /\ silent' = FALSE
    BY <1>5, Zenon DEF StartCmd
  <2>2. TypeOK'
    BY <1>1, <1>2, <1>4, <2>1 DEF TypeOK, ProbeSteps
  <2>3. PhaseInv'
    BY <1>1, <1>2, <1>4, <1>5, <2>1 DEF PhaseInv, ProbeSteps
  <2>4. NamedInv'
    BY <1>1, <1>2, <1>4 DEF NamedInv
  <2>5. RootInv' /\ ProbeInv'
    BY <1>2, <1>5, <2>1 DEF RootInv, ProbeInv
  <2>6. QED BY <2>2, <2>3, <2>4, <2>5 DEF IInv
<1>6. CASE root # "unknown"
  <2>1. pc' = "run" /\ steady' = steady /\ silent' = silent
    BY <1>6, Zenon DEF StartCmd
  <2>2. dev' = dev
    BY <1>1, <1>4, <1>6, PhonesAssumption DEF PhaseInv
  <2>3. pc' \in ProbeSteps \cup {"idle", "run"} /\ pc' \notin ProbeSteps
    BY <2>1 DEF ProbeSteps
  <2>4. TypeOK'
    BY <1>1, <1>2, <2>1, <2>2, <2>3, Zenon DEF TypeOK
  <2>5. PhaseInv'
    BY <1>1, <1>2, <1>4, <1>6, <2>1, <2>3 DEF PhaseInv
  <2>6. NamedInv'
    BY <1>1, <1>2, <2>2 DEF NamedInv
  <2>7. RootInv' /\ ProbeInv'
    BY <1>1, <1>2, <2>1, <2>2 DEF RootInv, ProbeInv
  <2>8. QED BY <2>4, <2>5, <2>6, <2>7 DEF IInv
<1>7. QED BY <1>5, <1>6

\* A step of the probe that only asks: the invariants of the probe are what is left.
LEMMA ProbeKeeps ==
  ASSUME IInv, pc \in ProbeSteps, Probe, cable' = cable, mode' = mode, adbd' = adbd,
         su' \in [Phones -> {"absent", "asks", "su", "su0"}],
         root' \in {"unknown", "none", "adbd", "su", "su0"},
         silent' \in BOOLEAN,
         \/ pc' = "run" /\ root' # "unknown"
         \/ pc' \in ProbeSteps \ {"id", "adb_root"} /\ root' = "unknown"
         \/ pc = "id" /\ pc' = "adb_root" /\ root' = "unknown",
         root' = "adbd" => mode[dev] = "recovery" \/ adbd[dev] = "root",
         root' = "su" => mode[dev] = "system" /\ su'[dev] = "su",
         root' = "su0" => mode[dev] = "system" /\ su'[dev] \in {"su", "su0"},
         ProbeInv'
  PROVE  IInv'
<1>1. TypeOK /\ PhaseInv /\ NamedInv /\ RootInv
  BY DEF IInv
<1>2. /\ serial' = serial /\ dev' = dev /\ fb' = fb /\ outcome' = outcome /\ sent' = sent
      /\ acted' = acted /\ steady' = steady
  BY Zenon DEF Probe, session
<1>3. pc' \in ProbeSteps \cup {"idle", "run"}
  BY DEF ProbeSteps
<1>4. TypeOK'
  BY <1>1, <1>2, <1>3, Zenon DEF TypeOK
<1>5. dev \in Phones /\ root = "unknown" /\ (pc = "id" => sent = {})
  BY <1>1 DEF PhaseInv, ProbeSteps
<1>6. PhaseInv'
  BY <1>1, <1>2, <1>5 DEF PhaseInv, ProbeSteps
<1>7. NamedInv'
  BY <1>1, <1>2 DEF NamedInv
<1>8. RootInv'
  BY <1>1, <1>2 DEF RootInv
<1>9. QED BY <1>4, <1>6, <1>7, <1>8 DEF IInv

\* What an answer of the phone tells.
LEMMA AnswerFacts ==
  ASSUME TypeOK
  PROVE  /\ ShellIsRoot => mode[dev] = "recovery" \/ adbd[dev] = "root"
         /\ Attached /\ ~ShellIsRoot => mode[dev] = "system" /\ adbd[dev] # "root"
         /\ \A kinds \in SUBSET {"asks", "su", "su0"} :
              SuAnswers(kinds) => Attached /\ mode[dev] = "system" /\ su[dev] \in kinds
         /\ Attached /\ mode[dev] # "recovery" /\ ~SuAnswers({"su", "su0"}) =>
              su[dev] \in {"absent", "asks"}
<1>1. Attached => dev \in Phones /\ mode[dev] \in {"system", "recovery"}
                  /\ adbd[dev] \in {"shell", "root"}
  BY DeviceFacts
<1>2. Attached => su[dev] \in {"absent", "asks", "su", "su0"}
  BY <1>1 DEF TypeOK
<1>3. QED BY <1>1, <1>2 DEF ShellIsRoot, SuAnswers

LEMMA AskIdStep == IInv /\ AskId => IInv'
<1> SUFFICES ASSUME IInv, AskId PROVE IInv'
  OBVIOUS
<1>1. TypeOK /\ PhaseInv /\ ProbeInv
  BY DEF IInv
<1>2. /\ pc = "id" /\ Probe /\ cable' = cable /\ mode' = mode /\ adbd' = adbd /\ su' = su
      /\ \/ ShellIsRoot /\ root' = "adbd" /\ pc' = "run" /\ silent' = silent
         \/ /\ root' = root /\ pc' = (IF cmd.try THEN "adb_root" ELSE "su")
            /\ silent' = TRUE \/ (~ShellIsRoot /\ silent' = (silent \/ ~Attached))
  BY Zenon DEF AskId, Ask, phones
<1>3. dev' = dev /\ sent' = sent /\ steady' = steady
  BY <1>2, Zenon DEF Probe, session
<1>4. su' \in [Phones -> {"absent", "asks", "su", "su0"}] /\ root = "unknown" /\ dev \in Phones
  BY <1>1, <1>2 DEF TypeOK, PhaseInv, ProbeSteps
<1>5. silent' \in BOOLEAN
  BY <1>1, <1>2, Zenon DEF TypeOK
<1>6. ~silent' => /\ ~silent
                  /\ (root' = "adbd" /\ pc' = "run") \/ (Attached /\ ~ShellIsRoot /\ root' = "unknown" /\ pc' = (IF cmd.try THEN "adb_root" ELSE "su"))
  BY <1>2, <1>4, Zenon
<1>7. ProbeInv'
  <2>1. SUFFICES ASSUME steady', ~silent' PROVE ProbeInv'
    BY DEF ProbeInv
  <2>2. CASE root' = "adbd" /\ pc' = "run"
    BY <2>2 DEF ProbeInv
  <2>3. CASE Attached /\ ~ShellIsRoot /\ root' = "unknown" /\ pc' = (IF cmd.try THEN "adb_root" ELSE "su")
    <3>1. mode[dev] = "system" /\ adbd[dev] # "root"
      BY <1>1, <2>3, AnswerFacts
    <3>2. sent = {}
      BY <1>1, <1>2, <1>4 DEF PhaseInv
    <3>3. pc' \in {"adb_root", "su"}
      BY <2>3
    <3>4. QED BY <1>2, <1>3, <2>3, <3>1, <3>2, <3>3 DEF ProbeInv
  <2>4. QED BY <1>6, <2>1, <2>2, <2>3
<1>8. ShellIsRoot => mode[dev] = "recovery" \/ adbd[dev] = "root"
  BY <1>1, AnswerFacts
<1>9. pc \in ProbeSteps /\ "su" \in ProbeSteps \ {"id", "adb_root"}
  BY <1>2 DEF ProbeSteps
<1>10. QED BY <1>2, <1>4, <1>5, <1>7, <1>8, <1>9, ProbeKeeps

LEMMA AskIdAgainStep == IInv /\ AskIdAgain => IInv'
<1> SUFFICES ASSUME IInv, AskIdAgain PROVE IInv'
  OBVIOUS
<1>1. TypeOK /\ PhaseInv /\ ProbeInv
  BY DEF IInv
<1>2. /\ pc = "id_again" /\ Probe /\ cable' = cable /\ mode' = mode /\ adbd' = adbd /\ su' = su
      /\ \/ ShellIsRoot /\ root' = "adbd" /\ pc' = "run" /\ silent' = silent
         \/ /\ root' = root /\ pc' = "su"
            /\ silent' = TRUE \/ (~ShellIsRoot /\ silent' = (silent \/ ~Attached))
  BY Zenon DEF AskIdAgain, Ask, phones
<1>3. dev' = dev /\ sent' = sent /\ steady' = steady
  BY <1>2, Zenon DEF Probe, session
<1>4. su' \in [Phones -> {"absent", "asks", "su", "su0"}] /\ root = "unknown" /\ dev \in Phones
  BY <1>1, <1>2 DEF TypeOK, PhaseInv, ProbeSteps
<1>5. silent' \in BOOLEAN
  BY <1>1, <1>2, Zenon DEF TypeOK
<1>6. ~silent' => /\ ~silent
                  /\ (root' = "adbd" /\ pc' = "run") \/ (Attached /\ ~ShellIsRoot /\ root' = "unknown" /\ pc' = "su")
  BY <1>2, <1>4, Zenon
<1>7. ProbeInv'
  <2>1. SUFFICES ASSUME steady', ~silent' PROVE ProbeInv'
    BY DEF ProbeInv
  <2>2. CASE root' = "adbd" /\ pc' = "run"
    BY <2>2 DEF ProbeInv
  <2>3. CASE Attached /\ ~ShellIsRoot /\ root' = "unknown" /\ pc' = "su"
    <3>1. mode[dev] = "system" /\ adbd[dev] # "root"
      BY <1>1, <2>3, AnswerFacts
    <3>2. dev \notin Userdebug
      BY <1>1, <1>2, <1>3, <1>6, <2>1, <3>1 DEF ProbeInv
    <3>3. QED BY <1>2, <1>3, <2>3, <3>1, <3>2 DEF ProbeInv
  <2>4. QED BY <1>6, <2>1, <2>2, <2>3
<1>8. ShellIsRoot => mode[dev] = "recovery" \/ adbd[dev] = "root"
  BY <1>1, AnswerFacts
<1>9. pc \in ProbeSteps /\ "su" \in ProbeSteps \ {"id", "adb_root"}
  BY <1>2 DEF ProbeSteps
<1>10. QED BY <1>2, <1>4, <1>5, <1>7, <1>8, <1>9, ProbeKeeps

LEMMA AskSuStep == IInv /\ AskSu => IInv'
<1> SUFFICES ASSUME IInv, AskSu PROVE IInv'
  OBVIOUS
<1>1. TypeOK /\ PhaseInv /\ ProbeInv
  BY DEF IInv
<1>2. /\ pc = "su" /\ Probe /\ cable' = cable /\ mode' = mode /\ adbd' = adbd /\ su' = su
      /\ \/ SuAnswers({"su"}) /\ root' = "su" /\ pc' = "run" /\ silent' = silent
         \/ /\ root' = root /\ pc' = "su0"
            /\ silent' = TRUE \/ (~SuAnswers({"su"}) /\ silent' = (silent \/ ~Attached))
  BY Zenon DEF AskSu, Ask, phones
<1>3. dev' = dev /\ sent' = sent /\ steady' = steady
  BY <1>2, Zenon DEF Probe, session
<1>4. su' \in [Phones -> {"absent", "asks", "su", "su0"}] /\ root = "unknown" /\ dev \in Phones
  BY <1>1, <1>2 DEF TypeOK, PhaseInv, ProbeSteps
<1>5. silent' \in BOOLEAN
  BY <1>1, <1>2, Zenon DEF TypeOK
<1>6. ~silent' => /\ ~silent
                  /\ (root' = "su" /\ pc' = "run") \/ (Attached /\ ~SuAnswers({"su"}) /\ root' = "unknown" /\ pc' = "su0")
  BY <1>2, <1>4, Zenon
<1>7. ProbeInv'
  <2>1. SUFFICES ASSUME steady', ~silent' PROVE ProbeInv'
    BY DEF ProbeInv
  <2>2. CASE root' = "su" /\ pc' = "run"
    BY <2>2 DEF ProbeInv
  <2>3. CASE root' = "unknown" /\ pc' = "su0"
    BY <1>1, <1>2, <1>3, <1>6, <2>1, <2>3 DEF ProbeInv
  <2>4. QED BY <1>6, <2>1, <2>2, <2>3
<1>8. SuAnswers({"su"}) => mode[dev] = "system" /\ su[dev] = "su"
  BY <1>1, AnswerFacts
<1>9. pc \in ProbeSteps /\ "su0" \in ProbeSteps \ {"id", "adb_root"}
  BY <1>2 DEF ProbeSteps
<1>10. QED BY <1>2, <1>4, <1>5, <1>7, <1>8, <1>9, ProbeKeeps

LEMMA AskSu0Step == IInv /\ AskSu0 => IInv'
<1> SUFFICES ASSUME IInv, AskSu0 PROVE IInv'
  OBVIOUS
<1>1. TypeOK /\ PhaseInv /\ ProbeInv
  BY DEF IInv
<1>2. /\ pc = "su0" /\ pc' = "run" /\ Probe
      /\ cable' = cable /\ mode' = mode /\ adbd' = adbd /\ su' = su
      /\ \/ SuAnswers({"su", "su0"}) /\ root' = "su0" /\ silent' = silent
         \/ ~SuAnswers({"su", "su0"}) /\ root' = "none" /\ silent' = (silent \/ ~Attached)
         \/ root' = "none" /\ silent' = TRUE
  BY Zenon DEF AskSu0, phones
<1>3. dev' = dev /\ sent' = sent /\ steady' = steady
  BY <1>2, Zenon DEF Probe, session
<1>4. su' \in [Phones -> {"absent", "asks", "su", "su0"}] /\ dev \in Phones
  BY <1>1, <1>2 DEF TypeOK, PhaseInv, ProbeSteps
<1>5. silent' \in BOOLEAN /\ root' \in {"none", "su0"}
  BY <1>1, <1>2, Zenon DEF TypeOK
<1>6. ~silent' => ~silent /\ (root' = "su0" \/ (Attached /\ ~SuAnswers({"su", "su0"})))
  BY <1>2, Zenon
<1>7. ProbeInv'
  <2>1. SUFFICES ASSUME steady', ~silent', root' = "none", dev' \in sent'
                 PROVE  dev' \notin Userdebug /\ su'[dev'] \in {"absent", "asks"} /\ mode'[dev'] # "recovery"
    BY <1>2 DEF ProbeInv
  <2>2. ~silent /\ Attached /\ ~SuAnswers({"su", "su0"})
    BY <1>6, <2>1
  <2>3. mode[dev] # "recovery" /\ dev \notin Userdebug
    BY <1>1, <1>2, <1>3, <2>1, <2>2 DEF ProbeInv
  <2>4. su[dev] \in {"absent", "asks"}
    BY <1>1, <2>2, <2>3, AnswerFacts
  <2>5. QED BY <1>2, <1>3, <2>3, <2>4
<1>8. root' = "su0" => mode[dev] = "system" /\ su'[dev] \in {"su", "su0"}
  <2>1. SuAnswers({"su", "su0"}) => mode[dev] = "system" /\ su[dev] \in {"su", "su0"}
    BY <1>1, AnswerFacts
  <2>2. root' = "su0" => SuAnswers({"su", "su0"})
    BY <1>2
  <2>3. QED BY <1>2, <2>1, <2>2
<1>9. pc \in ProbeSteps
  BY <1>2 DEF ProbeSteps
<1>10. QED BY <1>2, <1>4, <1>5, <1>7, <1>8, <1>9, ProbeKeeps

LEMMA WaitedStep == IInv /\ Waited => IInv'
<1> SUFFICES ASSUME IInv, Waited PROVE IInv'
  OBVIOUS
<1>1. TypeOK /\ PhaseInv /\ ProbeInv
  BY DEF IInv
<1>2. /\ pc = "wait" /\ pc' = "id_again" /\ Probe /\ root' = root
      /\ cable' = cable /\ mode' = mode /\ adbd' = adbd /\ su' = su
      /\ (Attached /\ silent' = silent) \/ silent' = TRUE
  BY Zenon DEF Waited, phones
<1>3. dev' = dev /\ sent' = sent /\ steady' = steady
  BY <1>2, Zenon DEF Probe, session
<1>4. su' \in [Phones -> {"absent", "asks", "su", "su0"}] /\ root' = "unknown"
  BY <1>1, <1>2 DEF TypeOK, PhaseInv, ProbeSteps
<1>5. silent' \in BOOLEAN
  BY <1>1, <1>2, Zenon DEF TypeOK
<1>6. ProbeInv'
  <2>1. SUFFICES ASSUME steady', ~silent' PROVE ProbeInv'
    BY DEF ProbeInv
  <2>2. ~silent /\ Attached
    BY <1>2, <2>1
  <2>3. adbd[dev] # "restarting"
    BY <2>2 DEF Attached
  <2>4. QED BY <1>1, <1>2, <1>3, <1>4, <2>1, <2>2, <2>3 DEF ProbeInv
<1>7. pc \in ProbeSteps /\ pc' \in ProbeSteps \ {"id", "adb_root"}
  BY <1>2 DEF ProbeSteps
<1>8. QED BY <1>2, <1>4, <1>5, <1>6, <1>7, ProbeKeeps

LEMMA AllowedStep == IInv /\ SuIsAllowed => IInv'
<1> SUFFICES ASSUME IInv, SuIsAllowed PROVE IInv'
  OBVIOUS
<1>1. TypeOK /\ PhaseInv /\ ProbeInv
  BY DEF IInv
<1>2. /\ pc \in {"su", "su0"} /\ SuAnswers({"asks"}) /\ su' = [su EXCEPT ![dev] = "su"]
      /\ root' = pc /\ pc' = "run" /\ Probe
      /\ cable' = cable /\ mode' = mode /\ adbd' = adbd /\ silent' = silent
  BY Zenon DEF SuIsAllowed
<1>3. mode[dev] = "system" /\ dev \in Phones
  BY <1>1, <1>2, AnswerFacts, DeviceFacts
<1>4. su' \in [Phones -> {"absent", "asks", "su", "su0"}] /\ su'[dev] = "su"
  BY <1>1, <1>2, <1>3 DEF TypeOK
<1>5. ProbeInv'
  BY <1>2 DEF ProbeInv
<1>6. pc \in ProbeSteps /\ silent' \in BOOLEAN
  BY <1>1, <1>2 DEF ProbeSteps, TypeOK
<1>7. QED BY <1>2, <1>3, <1>4, <1>5, <1>6, ProbeKeeps

LEMMA AdbRootStep == IInv /\ AdbRoot => IInv'
<1> SUFFICES ASSUME IInv, AdbRoot PROVE IInv'
  OBVIOUS
<1>1. TypeOK /\ PhaseInv /\ NamedInv /\ RootInv /\ ProbeInv
  BY DEF IInv
<1>2. /\ pc = "adb_root" /\ sent' = sent \cup {dev} /\ pc' \in {"wait", "su"}
      /\ serial' = serial /\ dev' = dev /\ fb' = fb /\ root' = root /\ outcome' = outcome
      /\ cable' = cable /\ mode' = mode /\ su' = su /\ acted' = acted /\ steady' = steady
  BY DEF AdbRoot, session
<1>3. \/ /\ dev \in Userdebug /\ adbd' = [adbd EXCEPT ![dev] = "restarting"]
         /\ pc' = "wait" /\ silent' = silent
      \/ dev \notin Userdebug /\ adbd' = adbd /\ silent' = silent
      \/ adbd' = adbd /\ silent' = TRUE /\ pc' = "su"
  BY Zenon DEF AdbRoot
<1>4. dev \in Phones /\ root = "unknown"
  BY <1>1, <1>2 DEF PhaseInv, ProbeSteps
<1>5. adbd' \in [Phones -> {"shell", "restarting", "root"}]
  BY <1>1, <1>3, <1>4 DEF TypeOK
<1>6. silent' \in BOOLEAN /\ (~silent' => ~silent)
  BY <1>1, <1>3, Zenon DEF TypeOK
<1>7. pc' \in ProbeSteps \cup {"idle", "run"}
  BY <1>2 DEF ProbeSteps
<1>8. TypeOK'
  BY <1>1, <1>2, <1>5, <1>6, <1>7, Zenon DEF TypeOK
<1>9. PhaseInv'
  BY <1>1, <1>2, <1>4 DEF PhaseInv, ProbeSteps
<1>10. NamedInv'
  BY <1>1, <1>2, <1>4, PhonesAssumption DEF NamedInv
<1>11. RootInv'
  BY <1>1, <1>2, <1>4 DEF RootInv
<1>12. ProbeInv'
  <2>1. SUFFICES ASSUME steady', ~silent' PROVE ProbeInv'
    BY DEF ProbeInv
  <2>2. mode[dev] # "recovery"
    BY <1>1, <1>2, <1>6, <2>1 DEF ProbeInv
  <2>3. CASE dev \in Userdebug /\ adbd' = [adbd EXCEPT ![dev] = "restarting"] /\ pc' = "wait"
    <3>1. adbd'[dev] = "restarting"
      BY <1>1, <1>4, <2>3 DEF TypeOK
    <3>2. QED BY <1>2, <1>4, <2>2, <2>3, <3>1 DEF ProbeInv
  <2>4. CASE dev \notin Userdebug
    BY <1>2, <1>4, <2>2, <2>4 DEF ProbeInv
  <2>5. QED BY <1>3, <2>1, <2>3, <2>4
<1>13. QED BY <1>8, <1>9, <1>10, <1>11, <1>12 DEF IInv

LEMMA RunStep == IInv /\ Run => IInv'
<1> SUFFICES ASSUME IInv, Run PROVE IInv'
  OBVIOUS
<1>1. TypeOK /\ PhaseInv /\ NamedInv /\ RootInv /\ ProbeInv
  BY DEF IInv
<1>2. /\ pc = "run" /\ pc' = "idle"
      /\ serial' = serial /\ dev' = dev /\ fb' = fb /\ root' = root /\ sent' = sent
      /\ cable' = cable /\ mode' = mode /\ adbd' = adbd /\ su' = su
      /\ steady' = steady /\ silent' = silent /\ acted' \in {acted, acted \cup {dev}}
  BY DEF Run, session, phones
<1>3. /\ outcome' = "RootRequired" => root = "none"
      /\ outcome' = "as_shell" => root # "none" /\ Attached /\ RunsAs = "as_shell"
  BY DEF Run, RunsAs
<1>4. root # "unknown" /\ dev \in Phones
  BY <1>1, <1>2 DEF PhaseInv
<1>5. pc' \in ProbeSteps \cup {"idle", "run"} /\ pc' \notin ProbeSteps
  BY <1>2 DEF ProbeSteps
<1>6. TypeOK'
  BY <1>1, <1>2, <1>5, Zenon DEF TypeOK
<1>7. PhaseInv'
  BY <1>1, <1>2, <1>3, <1>4, <1>5 DEF PhaseInv
<1>8. NamedInv'
  BY <1>1, <1>2, <1>4, PhonesAssumption DEF NamedInv
<1>9. RootInv'
  <2>1. ASSUME outcome' = "as_shell", steady PROVE FALSE
    <3>1. /\ root \in {"adbd", "su", "su0"} /\ Attached
          /\ ~(root = "adbd" /\ ShellIsRoot)
          /\ ~(root = "su" /\ SuAnswers({"su"}))
          /\ ~(root = "su0" /\ SuAnswers({"su", "su0"}))
      BY <1>1, <1>3, <1>4, <2>1 DEF RunsAs, TypeOK
    <3>2. QED BY <1>1, <2>1, <3>1 DEF RootInv, ShellIsRoot, SuAnswers
  <2>2. steady \in BOOLEAN
    BY <1>1 DEF TypeOK
  <2>3. QED BY <1>1, <1>2, <2>1, <2>2 DEF RootInv
<1>10. ProbeInv'
  BY <1>1, <1>2 DEF ProbeInv
<1>11. QED BY <1>6, <1>7, <1>8, <1>9, <1>10 DEF IInv
-----------------------------------------------------------------------------
(* The invariant and what follows from it. *)

LEMMA InvInit == Init => IInv
<1> SUFFICES ASSUME Init PROVE IInv
  OBVIOUS
<1>1. /\ serial \in Phones \cup {NoPhone} /\ dev = NoPhone /\ fb = NoPhone /\ root = "unknown"
      /\ pc = "idle" /\ outcome = "none" /\ steady = TRUE /\ silent = FALSE
      /\ sent = {} /\ acted = {}
  BY DEF Init
<1>2. TypeOK
  BY <1>1 DEF Init, TypeOK, ProbeSteps
<1>3. PhaseInv /\ NamedInv /\ RootInv /\ ProbeInv
  BY <1>1 DEF PhaseInv, NamedInv, RootInv, ProbeInv, ProbeSteps
<1>4. QED BY <1>2, <1>3 DEF IInv

LEMMA InvStep == IInv /\ [Next]_vars => IInv'
<1> SUFFICES ASSUME IInv, [Next]_vars PROVE IInv'
  OBVIOUS
<1>1. CASE Session
  <2>1. CASE NoDevice \/ FastbootCmd
    BY <2>1, QuietSteps
  <2>2. CASE RootStatus \/ RootCmd
    BY <2>2, StartStep DEF RootStatus, RootCmd
  <2>3. CASE AskId \/ AskIdAgain \/ AskSu \/ AskSu0
    BY <2>3, AskIdStep, AskIdAgainStep, AskSuStep, AskSu0Step
  <2>4. CASE AdbRoot \/ Waited \/ SuIsAllowed \/ Run
    BY <2>4, AdbRootStep, WaitedStep, AllowedStep, RunStep
  <2>5. CASE \E how \in {"system", "recovery", "fastboot"} : RebootCmd(how)
    BY <2>5, RebootStep
  <2>6. QED BY <1>1, <2>1, <2>2, <2>3, <2>4, <2>5 DEF Session
<1>2. ASSUME NEW p \in Phones, AdbdIsBack(p) PROVE IInv'
  BY <1>2, BackStep
<1>3. ASSUME NEW p \in Phones, NEW how \in {"out", "in", "locked"}, Cable(p, how) PROVE IInv'
  BY <1>3, CableStep
<1>4. ASSUME NEW p \in Phones, NEW how \in {"system", "recovery", "fastboot"}, Restart(p, how)
      PROVE  IInv'
  BY <1>4, RestartStep
<1>5. ASSUME NEW p \in Phones, NEW what \in {"asks", "su"}, Policy(p, what) PROVE IInv'
  BY <1>5, PolicyStep
<1>6. CASE UNCHANGED vars
  BY <1>6, QuietSteps
<1>7. QED BY <1>1, <1>2, <1>3, <1>4, <1>5, <1>6 DEF Next

LEMMA Invariant == Spec => []IInv
<1>1. QED BY InvInit, InvStep, PTL DEF Spec

\* The cached root mode runs commands as uid 0 as long as the chosen phone is
\* not restarted and its su not reconfigured, whatever is unplugged meanwhile
\* (device.py:170-202).
THEOREM CachedModeIsTrue == Spec => []RootModeStaysTrue
<1>1. IInv => RootModeStaysTrue
  BY DEF IInv, TypeOK, RootInv, RootModeStaysTrue
<1>2. QED BY <1>1, Invariant, PTL

\* A root command is refused only to a phone that has no root to offer, if every
\* call of a full probe was answered (device.py:160-190).
THEOREM RefusalIsJust == Spec => []RefusalIsRight
<1>1. IInv => RefusalIsRight
  BY DEF IInv, PhaseInv, ProbeInv, RefusalIsRight
<1>2. QED BY <1>1, Invariant, PTL

\* With --serial every command of the session, through adb, fastboot or reboot,
\* acts on that phone only (context.py:35-51, device.py:85-106, recovery.py:20-23).
THEOREM OnlyNamedPhone == Spec => []NamedPhoneOnly
<1>1. IInv => NamedPhoneOnly
  BY DEF IInv, NamedInv, NamedPhoneOnly
<1>2. QED BY <1>1, Invariant, PTL
=============================================================================
