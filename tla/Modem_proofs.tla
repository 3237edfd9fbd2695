----------------------------- MODULE Modem_proofs -----------------------------
(***************************************************************************)
(* Proofs about what NV is kept in: EfsRebuild, ModemImages and QcnFile.   *)
(*                                                                         *)
(* EfsRebuild, for both families of phones and every number of commands.   *)
(* The argument is that nothing the commands, the firmware or a crash do   *)
(* ever writes the partition a rebuild starts from, that an erasure is     *)
(* reached only with a valid one there, and that what the erasures left is *)
(* still there while nobody holds NV.                                      *)
(*                                                                         *)
(* ModemImages, for every set of geometries, every width of the age and    *)
(* every number of writes and files.  An EFS2 partition holds the last     *)
(* superblock written to it in one slot and the one before it, two         *)
(* numbers lower, in the other; a cut keeps that, and a name cannot change *)
(* it.  What the ages say is then arithmetic modulo AgeMod, and what an    *)
(* image in order is follows from the only places a header can come from.  *)
(*                                                                         *)
(* QcnFile, for every container and every item.  Until the file is opened  *)
(* FILE is what it was, and what an edit in place then writes is FILE with *)
(* the units of one stream written over.                                   *)
(***************************************************************************)
EXTENDS EfsRebuild, ModemImages, QcnFile, FiniteSetTheorems, TLAPS

Committed == {"umount", "confirm", "erase", "reboot"}

\* A dump of the source that is good came from a valid source, and stays true:
\* nothing writes the source.
SourceInv ==
  /\ SourceIsGood => nv[Source] \in Valid
  /\ pc \in Committed \/ done => nv[Source] \in Valid

\* Without a valid source nothing valid has been lost.
RadioInv ==
  nv[Source] \in Valid \/ \A p \in Parts : before[p] \in Valid => nv[p] \in Valid

\* What a loop still has to handle it has not handled, and no target comes twice.
TodoInv ==
  /\ pc = "backup" => \A p \in Parts : (\E i \in 1..Len(todo) : todo[i] = p) <=> entries[p] = "none"
  /\ pc \in {"backup", "erase"} => \A i, j \in 1..Len(todo) : todo[i] = todo[j] => i = j
  /\ pc \in {"backup", "umount", "confirm"} => erased = Untouched
  /\ pc = "erase" => \A i \in 1..Len(todo) : todo[i] \in Targets /\ erased[todo[i]] = "not_yet"

\* A verified entry is true of the file and of what the command found.
BackupInv ==
  /\ pc = "backup" => \A p \in Targets : p \notin moved => nv[p] = before[p]
  /\ \A p \in Targets : entries[p] = "yes" /\ p \notin moved => file[p] = before[p]

\* While nobody holds NV the erasures stand.
FreeInv ==
  /\ free => cache = "none"
  /\ free => \A p \in Targets : erased[p] \in {"zero", "empty"} => nv[p] = erased[p]
  /\ done => pc = "idle"

IInv == TypeOK /\ SourceInv /\ RadioInv /\ TodoInv /\ BackupInv /\ FreeInv
-----------------------------------------------------------------------------
(* Facts about the two families and about lists. *)

LEMMA FamilyFacts ==
  ASSUME family \in {"qualcomm", "mediatek"}
  PROVE  /\ Source \in Parts /\ Source \notin Targets /\ Targets \subseteq Parts
         /\ Parts = Targets \cup {Source} /\ Targets # {}
         /\ Wanted \in Seq(Targets)
         /\ \A i, j \in 1..Len(Wanted) : Wanted[i] = Wanted[j] => i = j
         /\ Append(Wanted, Source) \in Seq(Parts)
         /\ LET s == Append(Wanted, Source)
            IN  /\ \A i, j \in 1..Len(s) : s[i] = s[j] => i = j
                /\ \A p \in Parts : \E i \in 1..Len(s) : s[i] = p
<1>1. CASE family = "qualcomm"
  <2>1. /\ Targets = {"modemst1", "modemst2"} /\ Source = "fsg"
        /\ Wanted = <<"modemst1", "modemst2">>
    BY <1>1 DEF Targets, Source, Wanted
  <2> DEFINE s == Append(Wanted, Source)
  <2>2. Len(s) = 3 /\ s[1] = "modemst1" /\ s[2] = "modemst2" /\ s[3] = "fsg"
    BY <2>1
  <2>3. s \in Seq(Parts)
    BY <2>1 DEF Parts
  <2> HIDE DEF s
  <2>4. /\ \A i, j \in 1..Len(s) : s[i] = s[j] => i = j
        /\ \A p \in Parts : \E i \in 1..Len(s) : s[i] = p
    BY <2>1, <2>2 DEF Parts
  <2>5. /\ Wanted \in Seq(Targets)
        /\ \A i, j \in 1..Len(Wanted) : Wanted[i] = Wanted[j] => i = j
    BY <2>1
  <2>6. QED BY <2>1, <2>3, <2>4, <2>5 DEF Parts, s
<1>2. CASE family = "mediatek"
  <2>1. Targets = {"nvdata"} /\ Source = "nvram" /\ Wanted = <<"nvdata">>
    BY <1>2 DEF Targets, Source, Wanted
  <2> DEFINE s == Append(Wanted, Source)
  <2>2. Len(s) = 2 /\ s[1] = "nvdata" /\ s[2] = "nvram"
    BY <2>1
  <2>3. s \in Seq(Parts)
    BY <2>1 DEF Parts
  <2> HIDE DEF s
  <2>4. /\ \A i, j \in 1..Len(s) : s[i] = s[j] => i = j
        /\ \A p \in Parts : \E i \in 1..Len(s) : s[i] = p
    BY <2>1, <2>2 DEF Parts
  <2>5. /\ Wanted \in Seq(Targets)
        /\ \A i, j \in 1..Len(Wanted) : Wanted[i] = Wanted[j] => i = j
    BY <2>1
  <2>6. QED BY <2>1, <2>3, <2>4, <2>5 DEF Parts, s
<1>3. QED BY <1>1, <1>2

LEMMA ListFacts ==
  ASSUME NEW S, NEW s \in Seq(S), s # <<>>
  PROVE  /\ Head(s) \in S /\ Head(s) = s[1] /\ Len(s) \in Nat \ {0}
         /\ Tail(s) \in Seq(S) /\ Len(Tail(s)) = Len(s) - 1
         /\ \A i \in 1..Len(Tail(s)) : Tail(s)[i] = s[i + 1]
  OBVIOUS

\* Taking the first of a list without repetitions takes it away.
LEMMA TailFacts ==
  ASSUME NEW s \in Seq(Parts), s # <<>>,
         \A i, j \in 1..Len(s) : s[i] = s[j] => i = j
  PROVE  /\ \A i, j \in 1..Len(Tail(s)) : Tail(s)[i] = Tail(s)[j] => i = j
         /\ \A p : (\E i \in 1..Len(Tail(s)) : Tail(s)[i] = p)
                     <=> p # Head(s) /\ \E i \in 1..Len(s) : s[i] = p
<1>1. /\ Head(s) = s[1] /\ Len(s) \in Nat \ {0} /\ Len(Tail(s)) = Len(s) - 1
      /\ \A i \in 1..Len(Tail(s)) : Tail(s)[i] = s[i + 1]
  BY ListFacts
<1>2. \A i, j \in 1..Len(Tail(s)) : Tail(s)[i] = Tail(s)[j] => i = j
  BY <1>1
<1>3. ASSUME NEW p, NEW i \in 1..Len(Tail(s)), Tail(s)[i] = p
      PROVE  p # Head(s) /\ \E k \in 1..Len(s) : s[k] = p
  <2>1. i + 1 \in 1..Len(s) /\ 1 \in 1..Len(s) /\ i + 1 # 1
    BY <1>1
  <2>2. QED BY <1>1, <1>3, <2>1
<1>4. ASSUME NEW p, p # Head(s), NEW k \in 1..Len(s), s[k] = p
      PROVE  \E i \in 1..Len(Tail(s)) : Tail(s)[i] = p
  <2>1. k - 1 \in 1..Len(Tail(s))
    BY <1>1, <1>4
  <2>2. QED BY <1>1, <1>4, <2>1
<1>5. QED BY <1>2, <1>3, <1>4
-----------------------------------------------------------------------------
(* The initial states. *)

LEMMA InitInv == Init => IInv
<1> SUFFICES ASSUME Init PROVE IInv
  OBVIOUS
<1>1. /\ family \in {"qualcomm", "mediatek"} /\ formats \in BOOLEAN
      /\ free = FALSE /\ done = FALSE /\ (mounted = (family = "mediatek" /\ cache # "none"))
      /\ cache \in (IF mode = "android" THEN Booted(nv) ELSE {"none"})
      /\ mode \in {"android", "recovery"}
  BY Zenon DEF Init
<1>2. Booted(nv) \subseteq Valid \cup {"none"}
  <2>1. {nv[p] : p \in Targets} \cap Valid \subseteq Valid
    OBVIOUS
  <2>2. QED BY <2>1 DEF Booted
<1>3. mounted \in BOOLEAN
  BY <1>1, Zenon
<1>4. cache \in Valid \cup {"none"}
  BY <1>1, <1>2
<1>5. mode = "recovery" \/ mounted => (cache = "none") = (mode = "recovery")
  BY <1>1, <1>2
<1>6. nv \in [Parts -> Contents] /\ before = nv
  BY DEF Init, Contents, Valid
<1>7. file \in [Parts -> Contents \cup {"none", "prefix"}] /\ entries \in [Parts -> Entry]
  BY DEF Init, Entry
<1>8. /\ erased = Untouched /\ erased \in [Targets -> {"not_yet", "old", "bad", "zero", "empty"}]
      /\ pc = "idle" /\ todo = <<>> /\ moved = {} /\ cmds = 0
  BY DEF Init, Untouched
<1>9. TypeOK
  <2>1. todo \in Seq(Parts) /\ moved \subseteq Targets /\ cmds \in Nat
    BY <1>8
  <2>2. /\ pc \in {"idle", "backup", "umount", "confirm", "erase", "reboot"}
        /\ free \in BOOLEAN /\ done \in BOOLEAN
    BY <1>1, <1>8
  <2>3. QED
    BY <1>1, <1>3, <1>4, <1>5, <1>6, <1>7, <1>8, <2>1, <2>2, Zenon DEF TypeOK
<1>10. SourceInv /\ RadioInv /\ TodoInv /\ FreeInv
  <2>1. file[Source] = "none"
    BY <1>1, FamilyFacts DEF Init
  <2>2. QED
    BY <1>1, <1>6, <1>8, <2>1 DEF SourceInv, SourceIsGood, RadioInv, TodoInv, FreeInv, Committed
<1>11. BackupInv
  <2>1. \A p \in Targets : entries[p] = "none"
    BY FamilyFacts, <1>1 DEF Init, Parts
  <2>2. QED BY <1>8, <2>1 DEF BackupInv
<1>12. QED BY <1>9, <1>10, <1>11 DEF IInv
-----------------------------------------------------------------------------
(* The steps of the command. *)

\* What no step changes, and the names that depend on it.
LEMMA EntryNames ==
  ASSUME TypeOK, UNCHANGED handset
  PROVE  /\ Parts' = Parts /\ Targets' = Targets /\ Source' = Source /\ Wanted' = Wanted
         /\ family' = family /\ formats' = formats
         /\ Source \in Parts /\ Source \notin Targets /\ Targets \subseteq Parts
         /\ Parts = Targets \cup {Source}
<1>1. family' = family /\ formats' = formats
  BY Zenon DEF handset
<1>2. family \in {"qualcomm", "mediatek"}
  BY DEF TypeOK
<1>3. QED BY <1>1, <1>2, FamilyFacts DEF Parts, Targets, Source, Wanted

\* TypeOK in two parts: the phone, and what the command keeps.
PhoneOK ==
  /\ family \in {"qualcomm", "mediatek"} /\ formats \in BOOLEAN
  /\ mode \in {"android", "recovery"} /\ mounted \in BOOLEAN
  /\ cache \in Valid \cup {"none"}
  /\ mode = "recovery" \/ mounted => (cache = "none") = (mode = "recovery")

CommandOK ==
  /\ pc \in {"idle", "backup", "umount", "confirm", "erase", "reboot"}
  /\ nv \in [Parts -> Contents]
  /\ file \in [Parts -> Contents \cup {"none", "prefix"}]
  /\ entries \in [Parts -> Entry]
  /\ todo \in Seq(Parts)
  /\ before \in [Parts -> Contents]
  /\ erased \in [Targets -> {"not_yet", "old", "bad", "zero", "empty"}]
  /\ moved \subseteq Targets
  /\ free \in BOOLEAN /\ done \in BOOLEAN
  /\ cmds \in Nat

LEMMA TwoParts == TypeOK <=> PhoneOK /\ CommandOK
  BY Zenon DEF TypeOK, PhoneOK, CommandOK

LEMMA QuietPhone ==
  ASSUME PhoneOK, UNCHANGED handset, UNCHANGED mode, UNCHANGED mounted, UNCHANGED cache
  PROVE  PhoneOK'
<1>1. /\ family' = family /\ formats' = formats /\ mode' = mode /\ mounted' = mounted
      /\ cache' = cache
  BY Zenon DEF handset
<1>2. QED BY <1>1, Zenon DEF PhoneOK

LEMMA StartKeeps == ASSUME IInv, Start PROVE IInv'
<1>1. /\ pc = "idle" /\ pc' = "backup" /\ todo' = Append(Wanted, Source)
      /\ entries' = [p \in Parts |-> "none"]
      /\ before' = nv /\ erased' = Untouched
      /\ moved' = {} /\ free' = FALSE /\ done' = FALSE /\ cmds' = cmds + 1
      /\ UNCHANGED <<handset, mode, mounted, cache, nv, file>>
  BY Zenon DEF Start
<1>2. TypeOK /\ PhoneOK /\ CommandOK /\ family \in {"qualcomm", "mediatek"}
  BY TwoParts DEF IInv, PhoneOK
<1>3. /\ Parts' = Parts /\ Targets' = Targets /\ Source' = Source
      /\ Source \in Parts /\ Targets \subseteq Parts
      /\ Append(Wanted, Source) \in Seq(Parts)
      /\ \A i, j \in 1..Len(todo') : todo'[i] = todo'[j] => i = j
      /\ \A p \in Parts : \E i \in 1..Len(todo') : todo'[i] = p
  BY <1>1, <1>2, EntryNames, FamilyFacts
<1>4. CommandOK'
  <2>1. entries' \in [Parts' -> Entry] /\ todo' \in Seq(Parts')
    BY <1>1, <1>3 DEF Entry
  <2>2. erased' \in [Targets' -> {"not_yet", "old", "bad", "zero", "empty"}]
    BY <1>1, <1>3 DEF Untouched
  <2>3. nv' \in [Parts' -> Contents] /\ before' \in [Parts' -> Contents]
    BY <1>1, <1>2, <1>3 DEF CommandOK
  <2>4. file' \in [Parts' -> Contents \cup {"none", "prefix"}] /\ cmds' \in Nat
    BY <1>1, <1>2, <1>3 DEF CommandOK
  <2>5. moved' \subseteq Targets' /\ free' \in BOOLEAN /\ done' \in BOOLEAN
    BY <1>1
  <2>6. QED BY <1>1, <2>1, <2>2, <2>3, <2>4, <2>5 DEF CommandOK
<1>5. TypeOK'
  <2>1. PhoneOK'
    BY <1>1, <1>2, QuietPhone
  <2>2. QED BY <1>4, <2>1, Zenon DEF TypeOK, PhoneOK, CommandOK
<1>6. SourceInv' /\ RadioInv' /\ BackupInv' /\ FreeInv'
  <2>1. \A p \in Targets : entries'[p] = "none"
    BY <1>1, <1>3
  <2>2. QED
    BY <1>1, <1>3, <2>1 DEF IInv, SourceInv, SourceIsGood, RadioInv, BackupInv, FreeInv, Committed
<1>7. TodoInv'
  BY <1>1, <1>3 DEF TodoInv, Untouched
<1>8. QED BY <1>5, <1>6, <1>7 DEF IInv

LEMMA DumpFacts ==
  ASSUME NEW had \in BOOLEAN, NEW o \in DumpOutcomes(TRUE, had, TRUE)
  PROVE  /\ o.status \in {"ok", "failed"} /\ o.verified \in {"yes", "no", "none"}
         /\ o.file \in {"copy", "torn", "old"}
         /\ o.verified = "yes" => o.status = "ok" /\ o.file = "copy"
  BY DEF DumpOutcomes

LEMMA BackupOneKeeps == ASSUME IInv, BackupOne PROVE IInv'
<1> DEFINE q == Head(todo)
<1>1. /\ pc = "backup" /\ todo # <<>> /\ pc' = "backup" /\ todo' = Tail(todo)
      /\ UNCHANGED <<handset, mode, mounted, cache, moved, free, cmds, nv, before, erased, done>>
  BY Zenon DEF BackupOne, World, Firmware
<1>2. PICK o \in DumpOutcomes(TRUE, file[q] # "none", TRUE) :
        /\ \E f \in Dumped(o, q) : file' = [file EXCEPT ![q] = f]
        /\ entries' = [entries EXCEPT ![q] = EntryOf(o)]
  BY Zenon DEF BackupOne
<1>f. PICK f \in Dumped(o, q) : file' = [file EXCEPT ![q] = f]
  BY <1>2
<1>3. TypeOK /\ PhoneOK /\ CommandOK
  BY TwoParts DEF IInv
<1>4. /\ Parts' = Parts /\ Targets' = Targets /\ Source' = Source
      /\ Source \in Parts /\ Targets \subseteq Parts /\ Source \notin Targets
  BY <1>1, <1>3, EntryNames
<1>5. q \in Parts /\ Tail(todo) \in Seq(Parts)
  BY <1>1, <1>3, ListFacts DEF CommandOK
<1>6. /\ o.status \in {"ok", "failed"} /\ o.verified \in {"yes", "no", "none"}
      /\ o.file \in {"copy", "torn", "old"}
      /\ o.verified = "yes" => o.status = "ok" /\ o.file = "copy"
  BY DumpFacts
<1> HIDE DEF q
<1>7. /\ EntryOf(o) \in {"failed", "yes", "no", "unknown"}
      /\ EntryOf(o) = "yes" => o.file = "copy"
      /\ EntryOf(o) # "failed" => o.status = "ok"
  BY <1>6 DEF EntryOf
<1>8. /\ nv[q] \in Contents /\ file[q] \in Contents \cup {"none", "prefix"}
  BY <1>3, <1>5 DEF CommandOK
<1>9. /\ f \in Contents \cup {"none", "prefix"}
      /\ o.file = "copy" => f = nv[q]
  BY <1>6, <1>8 DEF Dumped, Contents, Valid
<1>10. /\ file' \in [Parts -> Contents \cup {"none", "prefix"}]
       /\ file'[q] = f /\ \A p \in Parts : p # q => file'[p] = file[p]
  BY <1>f, <1>3, <1>5, <1>9 DEF CommandOK
<1>11. /\ entries' \in [Parts -> Entry]
       /\ entries'[q] = EntryOf(o) /\ \A p \in Parts : p # q => entries'[p] = entries[p]
  BY <1>2, <1>3, <1>5, <1>7 DEF CommandOK, Entry
<1>12. TypeOK'
  <2>1. PhoneOK'
    BY <1>1, <1>3, QuietPhone
  <2>2. CommandOK'
    BY <1>1, <1>3, <1>4, <1>5, <1>10, <1>11 DEF CommandOK
  <2>3. QED BY <2>1, <2>2, Zenon DEF TypeOK, PhoneOK, CommandOK
<1>13. TodoInv'
  <2>1. /\ \A i, j \in 1..Len(todo') : todo'[i] = todo'[j] => i = j
        /\ \A p : (\E i \in 1..Len(todo') : todo'[i] = p)
                    <=> p # q /\ \E i \in 1..Len(todo) : todo[i] = p
    <3>1. \A i, j \in 1..Len(todo) : todo[i] = todo[j] => i = j
      BY <1>1 DEF IInv, TodoInv
    <3>2. todo \in Seq(Parts)
      BY <1>3 DEF CommandOK
    <3>3. /\ \A i, j \in 1..Len(Tail(todo)) : Tail(todo)[i] = Tail(todo)[j] => i = j
          /\ \A p : (\E i \in 1..Len(Tail(todo)) : Tail(todo)[i] = p)
                      <=> p # Head(todo) /\ \E i \in 1..Len(todo) : todo[i] = p
      BY <1>1, <3>1, <3>2, TailFacts
    <3>4. QED BY <1>1, <3>3, Zenon DEF q
  <2>2. \A p \in Parts : (\E i \in 1..Len(todo') : todo'[i] = p) <=> entries'[p] = "none"
    <3>1. \A p \in Parts : (\E i \in 1..Len(todo) : todo[i] = p) <=> entries[p] = "none"
      BY <1>1 DEF IInv, TodoInv
    <3>2. entries'[q] # "none"
      BY <1>7, <1>11
    <3>3. QED BY <1>11, <2>1, <3>1, <3>2, Zenon
  <2>3. erased' = Untouched'
    BY <1>1, <1>4 DEF IInv, TodoInv, Untouched
  <2>4. QED BY <1>1, <1>4, <2>1, <2>2, <2>3 DEF TodoInv
<1>14. BackupInv'
  <2>1. \A p \in Targets : entries'[p] = "yes" /\ p \notin moved => file'[p] = before[p]
    BY <1>1, <1>4, <1>7, <1>9, <1>10, <1>11 DEF IInv, BackupInv
  <2>2. QED BY <1>1, <1>4, <2>1 DEF IInv, BackupInv
<1>15. RadioInv' /\ FreeInv'
  BY <1>1, <1>4 DEF IInv, RadioInv, FreeInv
<1>16. SourceInv'
  <2>1. ASSUME q = Source, f \in {"golden", "prefix"}
        PROVE  nv[Source] \in Valid
    <3>1. CASE o.file = "copy" \/ o.file = "torn"
      BY <1>8, <2>1, <3>1 DEF Dumped, Valid, Contents
    <3>2. CASE o.file = "old"
      BY <2>1, <3>2 DEF Dumped, IInv, SourceInv, SourceIsGood
    <3>3. QED BY <1>6, <3>1, <3>2
  <2>2. SourceIsGood' => nv[Source] \in Valid
    BY <1>4, <1>10, <2>1 DEF IInv, SourceInv, SourceIsGood
  <2>3. QED BY <1>1, <1>4, <2>2 DEF IInv, SourceInv, Committed
<1>17. QED BY <1>12, <1>13, <1>14, <1>15, <1>16 DEF IInv

\* Steps that decide: they change the phase, and what goes with it, only.
LEMMA DecisionKeeps ==
  ASSUME IInv, TodoInv',
         UNCHANGED handset, UNCHANGED mode, UNCHANGED mounted, UNCHANGED cache,
         UNCHANGED <<nv, file, entries, before, erased, moved, cmds>>,
         pc' \in Committed \cup {"idle"}, todo' \in Seq(Parts),
         free' \in BOOLEAN, done' \in BOOLEAN,
         pc' \in Committed \/ done' => nv[Source] \in Valid,
         done' => pc' = "idle",
         free' => free \/ (cache = "none" /\ erased = Untouched)
  PROVE  IInv'
<1>1. TypeOK /\ PhoneOK /\ CommandOK
  BY TwoParts DEF IInv
<1>2. Parts' = Parts /\ Targets' = Targets /\ Source' = Source
  BY <1>1, EntryNames
<1>3. TypeOK'
  <2>1. PhoneOK'
    BY <1>1, QuietPhone
  <2>2. CommandOK'
    BY <1>1, <1>2 DEF CommandOK, Committed
  <2>3. QED BY <2>1, <2>2, Zenon DEF TypeOK, PhoneOK, CommandOK
<1>4. SourceInv' /\ RadioInv'
  BY <1>2 DEF IInv, SourceInv, RadioInv, SourceIsGood
<1>5. BackupInv'
  BY <1>2 DEF IInv, BackupInv, Committed
<1>6. FreeInv'
  BY <1>2 DEF IInv, FreeInv, Untouched
<1>7. QED BY <1>3, <1>4, <1>5, <1>6 DEF IInv

LEMMA RefuseKeeps == ASSUME IInv, Refuse PROVE IInv'
<1>1. /\ pc' = "idle"
      /\ UNCHANGED handset /\ UNCHANGED mode /\ UNCHANGED mounted /\ UNCHANGED cache
      /\ UNCHANGED <<nv, file, entries, todo, before, erased, done, moved, free, cmds>>
  BY Zenon DEF Refuse, World, Firmware
<1>2. pc = "backup"
  BY DEF Refuse
<1>3. todo \in Seq(Parts) /\ free \in BOOLEAN /\ done \in BOOLEAN /\ ~done
  BY <1>2 DEF IInv, TypeOK, FreeInv
<1>4. TodoInv'
  BY <1>1 DEF TodoInv
<1>5. QED BY <1>1, <1>3, <1>4, DecisionKeeps DEF Committed

LEMMA CheckKeeps == ASSUME IInv, Check PROVE IInv'
<1>1. /\ pc' \in {"umount", "confirm"}
      /\ UNCHANGED handset /\ UNCHANGED mode /\ UNCHANGED mounted /\ UNCHANGED cache
      /\ UNCHANGED <<nv, file, entries, todo, before, erased, done, moved, free, cmds>>
  BY Zenon DEF Check, World, Firmware
<1>2. pc = "backup" /\ SourceIsGood
  BY DEF Check
<1>3. todo \in Seq(Parts) /\ free \in BOOLEAN /\ done \in BOOLEAN /\ ~done
  BY <1>2 DEF IInv, TypeOK, FreeInv
<1>4. nv[Source] \in Valid
  BY <1>2 DEF IInv, SourceInv
<1>5. TodoInv'
  <2>1. Untouched' = Untouched
    BY <1>1, EntryNames DEF IInv, Untouched
  <2>2. QED BY <1>1, <1>2, <2>1 DEF TodoInv, IInv
<1>6. QED BY <1>1, <1>3, <1>4, <1>5, DecisionKeeps DEF Committed

LEMMA ConfirmKeeps == ASSUME IInv, Confirm PROVE IInv'
<1>1. /\ pc = "confirm" /\ pc' = "erase" /\ todo' = Wanted
      /\ free' = (cache = "none")
      /\ UNCHANGED handset /\ UNCHANGED mode /\ UNCHANGED mounted /\ UNCHANGED cache
      /\ UNCHANGED <<nv, file, entries, before, erased, done, moved, cmds>>
  BY Zenon DEF Confirm, Firmware
<1>2. free' \in BOOLEAN /\ (free' => cache = "none")
  BY <1>1, Zenon
<1>3. /\ Targets' = Targets /\ Targets \subseteq Parts /\ Wanted \in Seq(Targets)
      /\ \A i, j \in 1..Len(Wanted) : Wanted[i] = Wanted[j] => i = j
  BY <1>1, EntryNames, FamilyFacts DEF IInv, TypeOK
<1>4. /\ nv[Source] \in Valid /\ erased = Untouched /\ done \in BOOLEAN /\ ~done
  BY <1>1 DEF IInv, SourceInv, TodoInv, FreeInv, TypeOK, Committed
<1>5. \A i \in 1..Len(Wanted) : Wanted[i] \in Targets
  BY <1>3
<1>6. TodoInv'
  BY <1>1, <1>3, <1>4, <1>5 DEF TodoInv, Untouched
<1>7. todo' \in Seq(Parts)
  BY <1>1, <1>3, <1>5
<1>8. QED BY <1>1, <1>2, <1>4, <1>6, <1>7, DecisionKeeps DEF Committed

LEMMA DeclineKeeps == ASSUME IInv, Decline PROVE IInv'
<1>1. /\ pc = "confirm" /\ pc' = "idle"
      /\ UNCHANGED handset /\ UNCHANGED mode /\ UNCHANGED mounted /\ UNCHANGED cache
      /\ UNCHANGED <<nv, file, entries, todo, before, erased, done, moved, free, cmds>>
  BY Zenon DEF Decline, World, Firmware
<1>2. todo \in Seq(Parts) /\ free \in BOOLEAN /\ done \in BOOLEAN /\ ~done
  BY <1>1 DEF IInv, TypeOK, FreeInv
<1>3. TodoInv'
  BY <1>1 DEF TodoInv
<1>4. QED BY <1>1, <1>2, <1>3, DecisionKeeps DEF Committed

LEMMA FinishKeeps == ASSUME IInv, Finish PROVE IInv'
<1>1. /\ pc = "erase"
      /\ (pc' = "idle" /\ done' = TRUE) \/ (pc' = "reboot" /\ done' = done)
      /\ UNCHANGED handset /\ UNCHANGED mode /\ UNCHANGED mounted /\ UNCHANGED cache
      /\ UNCHANGED <<nv, file, entries, todo, before, erased, moved, free, cmds>>
  BY Zenon DEF Finish, World, Firmware
<1>2. /\ todo \in Seq(Parts) /\ free \in BOOLEAN /\ nv[Source] \in Valid
      /\ done \in BOOLEAN /\ ~done
  BY <1>1 DEF IInv, TypeOK, FreeInv, SourceInv, Committed
<1>d. done' \in BOOLEAN /\ (done' => pc' = "idle")
  <2>1. CASE pc' = "idle" /\ done' = TRUE
    BY <2>1
  <2>2. CASE pc' = "reboot" /\ done' = done
    BY <1>2, <2>2
  <2>3. QED BY <1>1, <2>1, <2>2
<1>3. TodoInv'
  BY <1>1 DEF TodoInv
<1>4. QED BY <1>1, <1>2, <1>d, <1>3, DecisionKeeps DEF Committed

LEMMA UmountKeeps == ASSUME IInv, Umount PROVE IInv'
<1>1. /\ pc = "umount" /\ handset' = handset /\ mode' = mode
      /\ UNCHANGED <<nv, file, entries, todo, before, erased, moved, free, done, cmds>>
      /\ \/ mounted' = FALSE /\ pc' = "confirm" /\ cache' \in {cache, "none"}
         \/ pc' = "idle" /\ mounted' = mounted /\ cache' = cache
  BY Zenon DEF Umount
<1>2. TypeOK /\ PhoneOK /\ CommandOK
  BY TwoParts DEF IInv
<1>3. /\ Parts' = Parts /\ Targets' = Targets /\ Source' = Source
      /\ family' = family /\ formats' = formats
  BY <1>1, <1>2, EntryNames
<1>4. CommandOK'
  BY <1>1, <1>2, <1>3 DEF CommandOK
<1>5. PhoneOK'
  <2>1. /\ family' \in {"qualcomm", "mediatek"} /\ formats' \in BOOLEAN
        /\ mode' \in {"android", "recovery"} /\ mounted' \in BOOLEAN
    BY <1>1, <1>2, <1>3, Zenon DEF PhoneOK
  <2>2. cache' \in Valid \cup {"none"}
    BY <1>1, <1>2 DEF PhoneOK
  <2>3. mode' = "recovery" \/ mounted' => (cache' = "none") = (mode' = "recovery")
    <3>1. CASE mounted' = FALSE /\ pc' = "confirm" /\ cache' \in {cache, "none"}
      BY <1>1, <1>2, <3>1 DEF PhoneOK
    <3>2. CASE pc' = "idle" /\ mounted' = mounted /\ cache' = cache
      BY <1>1, <1>2, <3>2, Zenon DEF PhoneOK
    <3>3. QED BY <1>1, <3>1, <3>2
  <2>4. QED BY <2>1, <2>2, <2>3, Zenon DEF PhoneOK
<1>6. TypeOK'
  BY <1>4, <1>5, Zenon DEF TypeOK, PhoneOK, CommandOK
<1>7. SourceInv' /\ RadioInv' /\ BackupInv'
  BY <1>1, <1>3 DEF IInv, SourceInv, SourceIsGood, RadioInv, BackupInv, Committed
<1>8. TodoInv'
  BY <1>1, <1>3 DEF IInv, TodoInv, Untouched
<1>9. FreeInv'
  BY <1>1, <1>3 DEF IInv, FreeInv
<1>10. QED BY <1>6, <1>7, <1>8, <1>9 DEF IInv

\* Steps that write one target p of a running rebuild: an erasure, or its crash.
\* What is lost of p is not lost of the source.
LEMMA EraseKeeps ==
  ASSUME IInv, pc = "erase", TodoInv',
         UNCHANGED handset, UNCHANGED mode, UNCHANGED mounted, UNCHANGED cache,
         UNCHANGED <<file, entries, before, done, moved, free, cmds>>,
         NEW p \in Targets, NEW left \in {"old", "bad", "zero", "empty"},
         nv' \in {nv, [nv EXCEPT ![p] = left]},
         erased' \in {erased, [erased EXCEPT ![p] = left]},
         erased' = erased => erased[p] = "not_yet",
         left = "old" => nv' = nv,
         left # "old" /\ erased' # erased => nv' = [nv EXCEPT ![p] = left],
         pc' \in {"erase", "idle"}, todo' \in Seq(Parts)
  PROVE  IInv'
<1>1. TypeOK /\ PhoneOK /\ CommandOK
  BY TwoParts DEF IInv
<1>2. /\ Parts' = Parts /\ Targets' = Targets /\ Source' = Source
      /\ Source \in Parts /\ Targets \subseteq Parts /\ Source \notin Targets
  BY <1>1, EntryNames
<1>3. /\ nv \in [Parts -> Contents] /\ p \in Parts
      /\ erased \in [Targets -> {"not_yet", "old", "bad", "zero", "empty"}]
  BY <1>1, <1>2 DEF CommandOK
<1>4. /\ nv' \in [Parts -> Contents]
      /\ \A q \in Parts : q # p => nv'[q] = nv[q]
      /\ nv'[p] \in {nv[p], left}
  <2>1. left = "old" \/ left \in Contents
    BY DEF Contents
  <2>2. QED BY <1>3, <2>1
<1>5. /\ erased' \in [Targets -> {"not_yet", "old", "bad", "zero", "empty"}]
      /\ \A q \in Targets : q # p => erased'[q] = erased[q]
      /\ erased'[p] \in {erased[p], left}
  BY <1>3
<1>6. erased'[p] \in {"zero", "empty"} => nv'[p] = erased'[p]
  BY <1>3, <1>4, <1>5
<1>7. nv[Source] \in Valid /\ nv'[Source] = nv[Source]
  BY <1>2, <1>4 DEF IInv, SourceInv, Committed
<1>8. TypeOK'
  <2>1. PhoneOK'
    BY <1>1, QuietPhone
  <2>2. CommandOK'
    BY <1>1, <1>2, <1>4, <1>5 DEF CommandOK
  <2>3. QED BY <2>1, <2>2, Zenon DEF TypeOK, PhoneOK, CommandOK
<1>9. SourceInv' /\ RadioInv' /\ BackupInv'
  BY <1>2, <1>7 DEF IInv, SourceInv, SourceIsGood, RadioInv, BackupInv
<1>10. FreeInv'
  <2>1. ASSUME free, NEW q \in Targets, erased'[q] \in {"zero", "empty"}
        PROVE  nv'[q] = erased'[q]
    BY <1>2, <1>4, <1>5, <1>6, <2>1 DEF IInv, FreeInv
  <2>2. QED BY <1>2, <2>1 DEF IInv, FreeInv
<1>11. QED BY <1>8, <1>9, <1>10 DEF IInv

\* The target an erasure works on, and the rest of the loop.
LEMMA EraseTodo ==
  ASSUME IInv, pc = "erase", todo # <<>>
  PROVE  /\ Head(todo) \in Targets /\ erased[Head(todo)] = "not_yet"
         /\ Tail(todo) \in Seq(Parts)
         /\ \A i, j \in 1..Len(Tail(todo)) : Tail(todo)[i] = Tail(todo)[j] => i = j
         /\ \A i \in 1..Len(Tail(todo)) : /\ Tail(todo)[i] \in Targets /\ Tail(todo)[i] # Head(todo)
                                          /\ erased[Tail(todo)[i]] = "not_yet"
<1>1. /\ \A i, j \in 1..Len(todo) : todo[i] = todo[j] => i = j
      /\ \A i \in 1..Len(todo) : todo[i] \in Targets /\ erased[todo[i]] = "not_yet"
      /\ todo \in Seq(Parts)
  BY DEF IInv, TodoInv, TypeOK
<1>2. /\ Head(todo) = todo[1] /\ Len(todo) \in Nat \ {0}
      /\ Tail(todo) \in Seq(Parts) /\ Len(Tail(todo)) = Len(todo) - 1
      /\ \A i \in 1..Len(Tail(todo)) : Tail(todo)[i] = todo[i + 1]
  BY <1>1, ListFacts
<1>3. Head(todo) \in Targets /\ erased[Head(todo)] = "not_yet"
  BY <1>1, <1>2
<1>4. ASSUME NEW i \in 1..Len(Tail(todo))
      PROVE  /\ Tail(todo)[i] \in Targets /\ Tail(todo)[i] # Head(todo)
             /\ erased[Tail(todo)[i]] = "not_yet"
  <2>1. i + 1 \in 1..Len(todo) /\ 1 \in 1..Len(todo) /\ i + 1 # 1
    BY <1>2
  <2>2. QED BY <1>1, <1>2, <2>1
<1>5. \A i, j \in 1..Len(Tail(todo)) : Tail(todo)[i] = Tail(todo)[j] => i = j
  BY <1>1, TailFacts
<1>6. QED BY <1>2, <1>3, <1>4, <1>5

LEMMA EraseOneKeeps == ASSUME IInv, EraseOne PROVE IInv'
<1> DEFINE p == Head(todo)
<1>1. /\ pc = "erase" /\ todo # <<>> /\ pc' = "erase" /\ todo' = Tail(todo)
      /\ UNCHANGED handset /\ UNCHANGED mode /\ UNCHANGED mounted /\ UNCHANGED cache
      /\ UNCHANGED <<file, entries, before, done, moved, free, cmds>>
  BY Zenon DEF EraseOne, World, Firmware
<1>2. PICK left \in {"old", "bad", "zero", "empty"} : Leaves(p, left)
  <2>1. {"old", "bad", "zero"} \cup (IF family = "mediatek" THEN {"empty"} ELSE {})
          \subseteq {"old", "bad", "zero", "empty"}
    OBVIOUS
  <2>2. QED BY <2>1, Zenon DEF EraseOne
<1>3. /\ p \in Targets /\ erased[p] = "not_yet" /\ Tail(todo) \in Seq(Parts)
      /\ \A i, j \in 1..Len(Tail(todo)) : Tail(todo)[i] = Tail(todo)[j] => i = j
      /\ \A i \in 1..Len(Tail(todo)) : /\ Tail(todo)[i] \in Targets /\ Tail(todo)[i] # p
                                       /\ erased[Tail(todo)[i]] = "not_yet"
  BY <1>1, EraseTodo
<1>4. Targets' = Targets /\ erased \in [Targets -> {"not_yet", "old", "bad", "zero", "empty"}]
  BY <1>1, EntryNames DEF IInv, TypeOK
<1> HIDE DEF p
<1>5. /\ erased' = [erased EXCEPT ![p] = left]
      /\ nv' = IF left = "old" THEN nv ELSE [nv EXCEPT ![p] = left]
  BY <1>2 DEF Leaves
<1>6. \A q \in Targets : q # p => erased'[q] = erased[q]
  BY <1>3, <1>4, <1>5
<1>7. TodoInv'
  BY <1>1, <1>3, <1>4, <1>6 DEF TodoInv
<1>8. erased'[p] = left /\ erased' # erased
  BY <1>3, <1>4, <1>5
<1>9. QED BY <1>1, <1>3, <1>5, <1>7, <1>8, EraseKeeps

LEMMA FormatRaisesKeeps == ASSUME IInv, FormatRaises PROVE IInv'
<1> DEFINE p == Head(todo)
<1>1. /\ pc = "erase" /\ todo # <<>> /\ pc' = "idle" /\ todo' = <<>>
      /\ UNCHANGED handset /\ UNCHANGED mode /\ UNCHANGED mounted /\ UNCHANGED cache
      /\ UNCHANGED <<file, entries, before, done, moved, free, cmds>>
  BY Zenon DEF FormatRaises, World, Firmware
<1>2. PICK left \in {"old", "bad", "empty"} : Leaves(p, left)
  BY Zenon DEF FormatRaises
<1>3. p \in Targets /\ erased[p] = "not_yet"
  BY <1>1, EraseTodo
<1>4. erased \in [Targets -> {"not_yet", "old", "bad", "zero", "empty"}]
  BY DEF IInv, TypeOK
<1> HIDE DEF p
<1>5. /\ erased' = [erased EXCEPT ![p] = left]
      /\ nv' = IF left = "old" THEN nv ELSE [nv EXCEPT ![p] = left]
  BY <1>2 DEF Leaves
<1>6. TodoInv' /\ todo' \in Seq(Parts)
  BY <1>1 DEF TodoInv
<1>7. erased'[p] = left /\ erased' # erased
  BY <1>3, <1>4, <1>5
<1>8. QED BY <1>1, <1>3, <1>5, <1>6, <1>7, EraseKeeps
-----------------------------------------------------------------------------
(* The steps of the world. *)

LEMMA CrashKeeps == ASSUME IInv, Crash PROVE IInv'
<1> DEFINE p == Head(todo)
<1>1. /\ pc # "idle" /\ pc' = "idle" /\ todo' = <<>>
      /\ UNCHANGED handset /\ UNCHANGED mode /\ UNCHANGED mounted /\ UNCHANGED cache
      /\ UNCHANGED <<entries, before, erased, done, moved, free, cmds>>
  BY Zenon DEF Crash, World, Firmware
<1>2. TypeOK /\ PhoneOK /\ CommandOK
  BY TwoParts DEF IInv
<1>3. /\ TodoInv' /\ todo' \in Seq(Parts)
      /\ done \in BOOLEAN /\ ~done /\ free \in BOOLEAN
  BY <1>1, <1>2 DEF TodoInv, IInv, FreeInv, CommandOK
<1>4. CASE UNCHANGED <<file, nv>>
  BY <1>1, <1>3, <1>4, DecisionKeeps DEF Committed
<1>5. CASE /\ pc = "erase" /\ todo # <<>>
           /\ nv' = [nv EXCEPT ![p] = "bad"] /\ UNCHANGED file
  <2>1. p \in Targets /\ erased[p] = "not_yet"
    BY <1>5, EraseTodo
  <2> HIDE DEF p
  <2>2. QED BY <1>1, <1>3, <1>5, <2>1, EraseKeeps
<1>6. CASE /\ pc = "backup" /\ todo # <<>>
           /\ file' = [file EXCEPT ![p] = "bad"] /\ UNCHANGED nv
  <2>1. /\ Parts' = Parts /\ Targets' = Targets /\ Source' = Source
        /\ Source \in Parts /\ Targets \subseteq Parts
    BY <1>1, <1>2, EntryNames
  <2>2. p \in Parts /\ p = todo[1] /\ 1 \in 1..Len(todo)
    BY <1>2, <1>6, ListFacts DEF CommandOK
  <2>3. entries[p] = "none"
    BY <1>6, <2>2 DEF IInv, TodoInv
  <2> HIDE DEF p
  <2>4. /\ file' \in [Parts -> Contents \cup {"none", "prefix"}]
        /\ file'[p] = "bad" /\ \A q \in Parts : q # p => file'[q] = file[q]
    BY <1>2, <1>6, <2>2 DEF CommandOK, Contents
  <2>5. TypeOK'
    <3>1. PhoneOK'
      BY <1>1, <1>2, QuietPhone
    <3>2. CommandOK'
      BY <1>1, <1>2, <1>3, <1>6, <2>1, <2>4 DEF CommandOK
    <3>3. QED BY <3>1, <3>2, Zenon DEF TypeOK, PhoneOK, CommandOK
  <2>6. SourceInv' /\ RadioInv'
    <3>1. SourceIsGood' => SourceIsGood
      BY <2>1, <2>4 DEF SourceIsGood
    <3>2. QED BY <1>1, <1>3, <1>6, <2>1, <3>1 DEF IInv, SourceInv, RadioInv, Committed
  <2>7. BackupInv'
    <3>1. \A q \in Targets : entries[q] = "yes" => file'[q] = file[q]
      BY <2>1, <2>3, <2>4
    <3>2. QED BY <1>1, <2>1, <3>1 DEF IInv, BackupInv
  <2>8. FreeInv'
    BY <1>1, <1>6, <2>1 DEF IInv, FreeInv
  <2>9. QED BY <1>3, <2>5, <2>6, <2>7, <2>8 DEF IInv
<1>7. QED BY <1>4, <1>5, <1>6, Zenon DEF Crash

LEMMA FirmwareWriteKeeps == ASSUME IInv, NEW p \in Targets, FirmwareWrite(p) PROVE IInv'
<1> DEFINE c == IF family = "qualcomm" \/ nv[p] \in Valid THEN cache ELSE "bad"
<1>1. /\ cache # "none" /\ nv' = [nv EXCEPT ![p] = c] /\ moved' = moved \cup {p}
      /\ UNCHANGED handset /\ UNCHANGED mode /\ UNCHANGED mounted /\ UNCHANGED cache
      /\ UNCHANGED <<pc, file, entries, todo, before, erased, free, done, cmds>>
  BY Zenon DEF FirmwareWrite
<1>2. TypeOK /\ PhoneOK /\ CommandOK
  BY TwoParts DEF IInv
<1>3. /\ Parts' = Parts /\ Targets' = Targets /\ Source' = Source
      /\ Source \in Parts /\ Targets \subseteq Parts /\ Source \notin Targets
  BY <1>1, <1>2, EntryNames
<1>4. c \in Contents /\ (nv[p] \in Valid => c \in Valid)
  BY <1>1, <1>2 DEF PhoneOK, Contents
<1> HIDE DEF c
<1>5. /\ nv' \in [Parts -> Contents]
      /\ nv'[p] = c /\ \A q \in Parts : q # p => nv'[q] = nv[q]
  BY <1>1, <1>2, <1>3, <1>4 DEF CommandOK
<1>6. TypeOK'
  <2>1. PhoneOK'
    BY <1>1, <1>2, QuietPhone
  <2>2. CommandOK'
    BY <1>1, <1>2, <1>3, <1>5 DEF CommandOK
  <2>3. QED BY <2>1, <2>2, Zenon DEF TypeOK, PhoneOK, CommandOK
<1>7. SourceInv' /\ RadioInv'
  BY <1>1, <1>3, <1>4, <1>5 DEF IInv, SourceInv, SourceIsGood, RadioInv, Committed
<1>8. BackupInv'
  BY <1>1, <1>3, <1>5 DEF IInv, BackupInv
<1>9. TodoInv'
  BY <1>1, <1>3 DEF IInv, TodoInv, Untouched
<1>10. FreeInv'
  BY <1>1, <1>3 DEF IInv, FreeInv
<1>11. QED BY <1>6, <1>7, <1>8, <1>9, <1>10 DEF IInv

\* A boot makes nothing invalid and leaves the source alone.
LEMMA BootFacts ==
  ASSUME IInv, NEW m \in {"android", "recovery"}, BootInto(m)
  PROVE  /\ PhoneOK' /\ mode' = m /\ free' = FALSE /\ UNCHANGED handset
         /\ nv' \in [Parts -> Contents] /\ nv'[Source] = nv[Source]
         /\ \A p \in Parts : nv[p] \in Valid => nv'[p] \in Valid
         /\ m = "recovery" => nv' = nv
<1>1. /\ mode' = m /\ mounted' = (family = "mediatek" /\ cache' # "none") /\ free' = FALSE
      /\ UNCHANGED handset
      /\ m = "recovery" => cache' = "none" /\ nv' = nv
      /\ m # "recovery" => \E c \in Booted(nv) : cache' = c /\ nv' = Rebuilt(nv, c)
  BY Zenon DEF BootInto
<1>2. /\ Source \in Parts /\ Source \notin Targets
      /\ family' = family /\ formats' = formats /\ PhoneOK
      /\ nv \in [Parts -> Contents]
  BY <1>1, EntryNames, TwoParts DEF IInv, CommandOK
<1>3. Booted(nv) \subseteq Valid \cup {"none"}
  BY DEF Booted
<1>4. CASE m = "recovery"
  <2>1. mounted' \in BOOLEAN /\ cache' = "none" /\ nv' = nv
    BY <1>1, <1>4
  <2>2. mode' = "recovery" \/ mounted' => (cache' = "none") = (mode' = "recovery")
    BY <1>1, <1>4
  <2>3. PhoneOK'
    BY <1>1, <1>2, <2>1, <2>2 DEF PhoneOK
  <2>4. QED BY <1>1, <1>2, <2>1, <2>3
<1>5. CASE m = "android"
  <2>1. PICK c \in Booted(nv) : cache' = c /\ nv' = Rebuilt(nv, c)
    BY <1>1, <1>5
  <2>2. c \in Valid \cup {"none"}
    BY <1>3
  <2>3. mounted' \in BOOLEAN /\ (mounted' => cache' # "none")
    BY <1>1
  <2>4. mode' = "recovery" \/ mounted' => (cache' = "none") = (mode' = "recovery")
    BY <1>1, <1>5, <2>3
  <2>5. PhoneOK'
    BY <1>1, <1>2, <1>5, <2>1, <2>2, <2>3, <2>4, Zenon DEF PhoneOK
  <2>6. /\ nv' \in [Parts -> Contents] /\ nv'[Source] = nv[Source]
        /\ \A p \in Parts : nv[p] \in Valid => nv'[p] \in Valid
    BY <1>2, <2>1, <2>2 DEF Rebuilt, Contents, Valid
  <2>7. QED BY <1>1, <1>5, <2>5, <2>6
<1>6. QED BY <1>4, <1>5

LEMMA PhoneBootsKeeps ==
  ASSUME IInv, NEW m \in {"android", "recovery"}, PhoneBoots(m)
  PROVE  IInv'
<1>1. /\ BootInto(m) /\ moved' = (IF m = "android" THEN Targets ELSE moved)
      /\ UNCHANGED <<pc, file, entries, todo, before, erased, done, cmds>>
  BY Zenon DEF PhoneBoots
<1>2. /\ PhoneOK' /\ free' = FALSE /\ UNCHANGED handset
      /\ nv' \in [Parts -> Contents] /\ nv'[Source] = nv[Source]
      /\ \A p \in Parts : nv[p] \in Valid => nv'[p] \in Valid
      /\ m = "recovery" => nv' = nv
  BY <1>1, BootFacts
<1>3. TypeOK /\ CommandOK
  BY TwoParts DEF IInv
<1>4. /\ Parts' = Parts /\ Targets' = Targets /\ Source' = Source
      /\ Source \in Parts /\ Targets \subseteq Parts
  BY <1>2, <1>3, EntryNames
<1>5. TypeOK'
  <2>1. CommandOK'
    BY <1>1, <1>2, <1>3, <1>4 DEF CommandOK
  <2>2. QED BY <1>2, <2>1, Zenon DEF TypeOK, PhoneOK, CommandOK
<1>6. SourceInv' /\ RadioInv'
  BY <1>1, <1>2, <1>4 DEF IInv, SourceInv, SourceIsGood, RadioInv, Committed
<1>7. BackupInv'
  BY <1>1, <1>2, <1>4 DEF IInv, BackupInv
<1>8. TodoInv'
  BY <1>1, <1>4 DEF IInv, TodoInv, Untouched
<1>9. FreeInv'
  BY <1>1, <1>2 DEF IInv, FreeInv
<1>10. QED BY <1>5, <1>6, <1>7, <1>8, <1>9 DEF IInv

LEMMA RebootKeeps == ASSUME IInv, Reboot PROVE IInv'
<1>1. /\ pc = "reboot" /\ pc' = "idle" /\ done' = TRUE
      /\ UNCHANGED <<file, entries, todo, before, erased, moved, cmds>>
  BY Zenon DEF Reboot
<1>2. TypeOK /\ PhoneOK /\ CommandOK
  BY TwoParts DEF IInv
<1>3. nv[Source] \in Valid
  BY <1>1 DEF IInv, SourceInv, Committed
<1>4. CASE BootInto("android")
  <2>1. /\ PhoneOK' /\ free' = FALSE /\ UNCHANGED handset
        /\ nv' \in [Parts -> Contents] /\ nv'[Source] = nv[Source]
    BY <1>4, BootFacts
  <2>2. /\ Parts' = Parts /\ Targets' = Targets /\ Source' = Source
    BY <1>2, <2>1, EntryNames
  <2>3. TypeOK'
    <3>1. CommandOK'
      BY <1>1, <1>2, <2>1, <2>2 DEF CommandOK
    <3>2. QED BY <2>1, <3>1, Zenon DEF TypeOK, PhoneOK, CommandOK
  <2>4. SourceInv' /\ RadioInv'
    BY <1>1, <1>3, <2>1, <2>2 DEF SourceInv, RadioInv, SourceIsGood
  <2>5. BackupInv' /\ TodoInv' /\ FreeInv'
    BY <1>1, <2>1, <2>2 DEF IInv, BackupInv, TodoInv, FreeInv
  <2>6. QED BY <2>3, <2>4, <2>5 DEF IInv
<1>5. CASE UNCHANGED <<handset, mode, mounted, cache, nv, free>>
  <2>1. /\ UNCHANGED handset /\ UNCHANGED mode /\ UNCHANGED mounted /\ UNCHANGED cache
        /\ UNCHANGED nv /\ UNCHANGED free
    BY <1>5
  <2>2. TodoInv'
    BY <1>1 DEF TodoInv
  <2>3. todo' \in Seq(Parts) /\ free' \in BOOLEAN
    BY <1>1, <1>2, <2>1 DEF CommandOK
  <2>4. QED BY <1>1, <1>3, <2>1, <2>2, <2>3, DecisionKeeps
<1>6. QED BY <1>4, <1>5 DEF Reboot
-----------------------------------------------------------------------------
(* The theorems. *)

LEMMA InvStep == IInv /\ [Next]_vars => IInv'
<1> SUFFICES ASSUME IInv, [Next]_vars PROVE IInv'
  OBVIOUS
<1>1. CASE Command
  BY <1>1, StartKeeps, BackupOneKeeps, RefuseKeeps, CheckKeeps, UmountKeeps, ConfirmKeeps,
     DeclineKeeps, EraseOneKeeps, FormatRaisesKeeps, FinishKeeps, RebootKeeps DEF Command
<1>2. CASE Crash
  BY <1>2, CrashKeeps
<1>3. CASE \E p \in Targets : FirmwareWrite(p)
  BY <1>3, FirmwareWriteKeeps
<1>4. CASE \E m \in {"android", "recovery"} : PhoneBoots(m)
  BY <1>4, PhoneBootsKeeps
<1>5. CASE UNCHANGED vars
  <2>1. /\ UNCHANGED handset /\ UNCHANGED mode /\ UNCHANGED mounted /\ UNCHANGED cache
        /\ UNCHANGED <<pc, nv, file, entries, todo, before, erased, moved, free, done, cmds>>
    BY <1>5, Zenon DEF vars, handset
  <2>2. /\ Parts' = Parts /\ Targets' = Targets /\ Source' = Source /\ TypeOK
    BY <2>1, EntryNames DEF IInv
  <2>3. TypeOK'
    <3>1. PhoneOK' /\ CommandOK'
      BY <2>1, <2>2, QuietPhone, TwoParts DEF CommandOK
    <3>2. QED BY <3>1, Zenon DEF TypeOK, PhoneOK, CommandOK
  <2>4. /\ SourceInv' /\ RadioInv' /\ TodoInv' /\ BackupInv' /\ FreeInv'
    BY <2>1, <2>2 DEF IInv, SourceInv, SourceIsGood, RadioInv, TodoInv, BackupInv, FreeInv, Untouched
  <2>5. QED BY <2>3, <2>4 DEF IInv
<1>6. QED BY <1>1, <1>2, <1>3, <1>4, <1>5, Zenon DEF Next

LEMMA Invariant == Spec => []IInv
  BY InitInv, InvStep, PTL DEF Spec

\* Every reachable state is one of the declared ones, for any number of commands
\* (the phases, partitions and files of efs.py:443-553).
THEOREM TypeCorrect == Spec => []TypeOK
<1>1. IInv => TypeOK
  BY DEF IInv
<1>2. QED BY <1>1, Invariant, PTL

\* A phone with a usable NV copy keeps one: an erasure is only reached with a
\* valid source, and nothing ever writes the source (efs.py:457-475, 505-525).
THEOREM RadioAlwaysSurvives == Spec => []RadioSurvives
<1>1. IInv => RadioSurvives
  <2> SUFFICES ASSUME IInv, NEW p \in Parts, before[p] \in Valid
               PROVE  \E q \in Parts : nv[q] \in Valid
    BY DEF RadioSurvives
  <2>1. Source \in Parts
    BY FamilyFacts DEF IInv, TypeOK
  <2>2. QED BY <2>1 DEF IInv, RadioInv
<1>2. QED BY <1>1, Invariant, PTL

\* What a rebuild may have erased is in the backup directory, if its dump
\* verified and the firmware did not write meanwhile (efs.py:461-465, 509-513).
THEOREM BackupIsKept == Spec => []BackupHoldsErased
<1>1. IInv => BackupHoldsErased
  BY DEF IInv, BackupInv, BackupHoldsErased
<1>2. QED BY <1>1, Invariant, PTL

\* The first Android after an erasure nobody wrote over takes its NV from the
\* source, whatever happened in between (efs.py:473-475, 525, 540).
THEOREM RebuildIsEffective == Spec => RebuildSticks
<1> DEFINE Sticks == (/\ done \/ pc = "reboot"
                      /\ free /\ ~free' /\ done' /\ mode' = "android"
                      /\ \A p \in Targets : Emptied(p))
                       => cache' = nv[Source] /\ \A p \in Targets : nv'[p] = nv[Source]
<1>1. ASSUME IInv, [Next]_vars PROVE [Sticks]_vars
  <2> SUFFICES ASSUME Next, done \/ pc = "reboot", free, ~free', done', mode' = "android",
                      \A p \in Targets : Emptied(p)
               PROVE  cache' = nv[Source] /\ \A p \in Targets : nv'[p] = nv[Source]
    BY <1>1, Zenon
  <2>1. BootInto("android")
    <3>1. CASE Command
      <4>1. CASE Start
        BY <4>1 DEF Start
      <4>2. CASE Confirm
        BY <1>1, <4>2 DEF Confirm, IInv, FreeInv
      <4>3. CASE Reboot
        BY <4>3 DEF Reboot
      <4>4. CASE BackupOne \/ Refuse \/ Check \/ Umount \/ Decline \/ EraseOne \/ FormatRaises \/ Finish
        BY <4>4, Zenon DEF BackupOne, Refuse, Check, Umount, Decline, EraseOne, FormatRaises, Finish, World
      <4>5. QED BY <3>1, <4>1, <4>2, <4>3, <4>4 DEF Command
    <3>2. CASE Crash
      BY <3>2, Zenon DEF Crash, World
    <3>3. CASE \E p \in Targets : FirmwareWrite(p)
      BY <3>3, Zenon DEF FirmwareWrite
    <3>4. CASE \E m \in {"android", "recovery"} : PhoneBoots(m)
      BY <3>4 DEF PhoneBoots, BootInto
    <3>5. QED BY <3>1, <3>2, <3>3, <3>4 DEF Next
  <2>2. PICK c \in Booted(nv) : cache' = c /\ nv' = Rebuilt(nv, c)
    BY <2>1 DEF BootInto
  <2>3. \A p \in Targets : nv[p] = erased[p] /\ erased[p] \in {"zero", "empty"}
    BY <1>1 DEF IInv, FreeInv, Emptied
  <2>4. nv[Source] \in Valid /\ family \in {"qualcomm", "mediatek"} /\ Targets \subseteq Parts
    BY <1>1, FamilyFacts DEF IInv, SourceInv, TypeOK, Committed
  <2>5. \A p \in Targets : nv[p] \notin Valid
    BY <2>3 DEF Valid
  <2>6. Fillable(nv)
    <3>1. CASE family = "qualcomm"
      BY <3>1 DEF Fillable
    <3>2. CASE family # "qualcomm"
      BY <2>3, <3>2 DEF Fillable, Emptied, Targets
    <3>3. QED BY <3>1, <3>2
  <2>7. Booted(nv) = {nv[Source]}
    BY <2>4, <2>5, <2>6 DEF Booted
  <2>8. c = nv[Source] /\ c # "none"
    BY <2>2, <2>4, <2>7 DEF Valid
  <2>9. QED BY <2>2, <2>4, <2>5, <2>8 DEF Rebuilt
<1>2. RebuildSticks <=> [][Sticks]_vars
  BY DEF RebuildSticks
<1> HIDE DEF Sticks
<1>3. QED BY <1>1, <1>2, Invariant, PTL DEF Spec
-----------------------------------------------------------------------------
(* The images of modem partitions. *)

\* The superblocks of an image: the last one written, in its slot, and in the
\* other slot the one before it.
Page == {Erased, Other} \cup {Super(g, n) : g \in Geos, n \in Nat}

EfsPages(img, g, last) ==
  \A i \in DOMAIN img :
    \/ img[i] \in {Erased, Other}
    \/ i = Slot(last) /\ img[i] = Super(g, last)
    \/ i = 3 - Slot(last) /\ last >= 2 /\ img[i] = Super(g, last - 2)

PhonesInv ==
  /\ seq \in Nat \ {0}
  /\ efs \in [Geos -> [Efs2Names -> Seq(Page)]]
  /\ \A g \in Geos, p \in Efs2Names :
       /\ Len(efs[g][p]) = g.pages
       /\ \E last \in Nat : EfsPages(efs[g][p], g, last)
  /\ \A p \in Mirrors :
       EfsPages(efs[Working][p], Working, IF p = MirrorOf(seq) THEN seq ELSE seq - 1)

\* What a file holds, whole or cut, under whatever name.
FromEfs(f) == /\ f.of \in Efs2Names /\ f.geo \in Geos /\ f.pages \in Seq(Page)
              /\ \E last \in Nat : EfsPages(f.pages, f.geo, last)
FromFactory(f) ==
  /\ f.of \in DOMAIN Factory /\ f.pages \in Seq(FactoryPage)
  /\ \A i \in DOMAIN f.pages : /\ f.pages[i].kind = "ext4" => f.of \in {"nvdata", "nvcfg"}
                               /\ f.pages[i].kind = "nvram" => f.of = "nvram"

FilesInv == /\ \A e, f \in files : e.name = f.name => e = f
            /\ \A f \in files : FromEfs(f) \/ FromFactory(f)

ImagesInv == PhonesInv /\ FilesInv
-----------------------------------------------------------------------------
(* Ages. *)

\* A number is its remainder when a multiple is taken away.
LEMMA Remainder ==
  ASSUME NEW n \in Nat, NEW m \in Nat, m > 0, NEW q \in Nat, NEW r \in 0..m - 1, n = m * q + r
  PROVE  n % m = r
OBVIOUS

LEMMA Division ==
  ASSUME NEW n \in Nat, NEW m \in Nat, m > 0
  PROVE  /\ n % m \in 0..m - 1
         /\ \E q \in Nat : n = m * q + (n % m)
<1>1. n \div m \in Nat /\ n % m \in 0..m - 1 /\ n = m * (n \div m) + (n % m)
  OBVIOUS
<1>2. QED BY <1>1, Zenon

\* The age grows with the number until it rolls over.
LEMMA AgeGrows ==
  ASSUME NEW n \in Nat, NEW m \in Nat, m > 0, NEW k \in Nat, (n % m) + k < m
  PROVE  (n + k) % m = (n % m) + k
<1> DEFINE r == n % m
<1>1. r \in Nat /\ r + k < m
  OBVIOUS
<1>2. PICK q \in Nat : n = m * q + r
  BY Division
<1> HIDE DEF r
<1>3. m * q \in Nat
  OBVIOUS
<1>4. n + k = m * q + (r + k) /\ r + k \in 0..m - 1 /\ n + k \in Nat
  BY <1>1, <1>2, <1>3
<1>5. (n + k) % m = r + k
  BY <1>4, Remainder
<1>6. QED BY <1>5 DEF r

\* An age of 0 or 1 came two superblocks after one of the two highest ages.
LEMMA AgeWraps ==
  ASSUME NEW n \in Nat, NEW m \in Nat, m >= 2, (n + 2) % m < 2
  PROVE  n % m = m - 2 + ((n + 2) % m)
<1> DEFINE r == (n + 2) % m
<1>1. r \in {0, 1} /\ n + 2 \in Nat /\ m > 0
  OBVIOUS
<1>2. PICK q \in Nat : n + 2 = m * q + r
  BY <1>1, Division
<1> HIDE DEF r
<1>3. q # 0
  <2>1. m * 0 = 0
    OBVIOUS
  <2>2. QED BY <1>1, <1>2, <2>1
<1>4. q - 1 \in Nat /\ m * (q - 1) = m * q - m /\ m * q \in Nat
  BY <1>3
<1>5. n = m * (q - 1) + (m - 2 + r) /\ m - 2 + r \in 0..m - 1
  BY <1>1, <1>2, <1>4
<1>6. n % m = m - 2 + r
  <2> DEFINE k == q - 1
             s == m - 2 + r
  <2>1. k \in Nat /\ s \in 0..m - 1 /\ n = m * k + s
    BY <1>4, <1>5
  <2> HIDE DEF k, s
  <2>2. n % m = s
    BY <2>1, Remainder
  <2>3. QED BY <2>2 DEF s
<1>7. QED BY <1>6 DEF r

LEMMA AgeSteps ==
  ASSUME NEW n \in Nat, NEW m \in Nat, m >= 2, (n + 2) % m >= 2
  PROVE  (n + 2) % m = (n % m) + 2
<1> DEFINE r == n % m
<1>1. r \in Nat /\ r < m /\ m > 0
  OBVIOUS
<1>2. CASE r + 2 < m
  <2>1. m > 0 /\ (n % m) + 2 < m
    BY <1>2
  <2>2. QED BY <2>1, AgeGrows
<1>3. CASE r + 2 >= m
  <2>1. PICK q \in Nat : n = m * q + r
    BY <1>1, Division
  <2> DEFINE k == q + 1
             s == r + 2 - m
             w == n + 2
  <2> HIDE DEF r
  <2>2. m * (q + 1) = m * q + m /\ m * q \in Nat
    OBVIOUS
  <2>3. k \in Nat /\ s \in 0..m - 1 /\ w = m * k + s /\ w \in Nat /\ s < 2
    BY <1>1, <1>3, <2>1, <2>2
  <2> HIDE DEF k, s, w
  <2>4. w % m = s
    BY <2>3, Remainder
  <2>5. QED BY <2>3, <2>4 DEF w
<1>4. QED BY <1>1, <1>2, <1>3
-----------------------------------------------------------------------------
(* Greatest and least. *)

LEMMA MinFacts ==
  ASSUME NEW S \in SUBSET Nat, S # {}
  PROVE  Min(S) \in S /\ \A y \in S : Min(S) <= y
<1>1. PICK n \in S : \A m \in S : ~(<<m, n>> \in OpToRel(<, Nat))
  BY NatLessThanWellFounded, WFMin, Zenon
<1>2. \A m \in S : m \in Nat /\ n \in Nat
  OBVIOUS
<1>3. \A m \in S : ~(m < n)
  BY <1>1, <1>2 DEF OpToRel
<1>4. \A m \in S : n <= m
  BY <1>2, <1>3
<1>5. QED BY <1>4, Zenon DEF Min

LEMMA MaxFacts ==
  ASSUME NEW k \in Nat, NEW S \in SUBSET (0..k), S # {}
  PROVE  Max(S) \in S /\ \A y \in S : Max(S) >= y
<1> DEFINE T == {k - x : x \in S}
<1>1. T \subseteq Nat /\ T # {}
  <2>1. \A x \in S : k - x \in Nat
    OBVIOUS
  <2>2. QED BY <2>1
<1>2. PICK n \in T : \A m \in T : ~(<<m, n>> \in OpToRel(<, Nat))
  BY <1>1, NatLessThanWellFounded, WFMin, Zenon
<1>3. PICK x \in S : n = k - x
  BY <1>2
<1>4. \A y \in S : x >= y
  <2> TAKE y \in S
  <2>1. k - y \in T /\ k - y \in Nat /\ n \in Nat
    BY <1>1
  <2>2. ~(k - y < n)
    BY <1>2, <2>1 DEF OpToRel
  <2>3. QED BY <1>3, <2>1, <2>2
<1>5. QED BY <1>4 DEF Max

LEMMA MaxIs ==
  ASSUME NEW S \in SUBSET Nat, NEW x \in S, \A y \in S : x >= y
  PROVE  Max(S) = x
<1>1. Max(S) \in S /\ \A y \in S : Max(S) >= y
  BY Zenon DEF Max
<1>2. Max(S) >= x /\ x >= Max(S) /\ x \in Nat /\ Max(S) \in Nat
  BY <1>1
<1>3. QED BY <1>2
-----------------------------------------------------------------------------
(* Slots and superblocks. *)

\* The superblocks of a mirror alternate between its two slots.
LEMMA SlotFacts ==
  ASSUME NEW n \in Nat
  PROVE  Slot(n) \in {1, 2} /\ Slot(n + 2) = 3 - Slot(n)
BY DEF Slot

LEMMA PutKeeps ==
  ASSUME NEW g \in Geos, NEW last \in Nat, NEW img \in Seq(Page), Len(img) = g.pages,
         EfsPages(img, g, last)
  PROVE  /\ Put(img, last + 2, g) \in Seq(Page) /\ Len(Put(img, last + 2, g)) = g.pages
         /\ EfsPages(Put(img, last + 2, g), g, last + 2)
<1> DEFINE n == last + 2
           new == Put(img, n, g)
<1>1. n \in Nat /\ n >= 2 /\ n - 2 = last /\ Slot(n) \in {1, 2} /\ Slot(last) = 3 - Slot(n)
  <2>1. Slot(last) \in {1, 2} /\ Slot(n) = 3 - Slot(last)
    BY SlotFacts
  <2>2. QED BY <2>1
<1>2. Super(g, n) \in Page
  BY <1>1 DEF Page
<1> HIDE DEF n
<1>3. new \in Seq(Page) /\ Len(new) = Len(img) /\ DOMAIN new = DOMAIN img
  <2>1. img \in [1..Len(img) -> Page] /\ Len(img) \in Nat
    OBVIOUS
  <2>2. new \in [1..Len(img) -> Page]
    BY <1>2, <2>1 DEF Put
  <2>3. QED BY <2>1, <2>2
<1>4. \A i \in DOMAIN img : new[i] = IF i = Slot(n) THEN Super(g, n) ELSE img[i]
  BY DEF Put
<1>5. EfsPages(new, g, n)
  BY <1>1, <1>3, <1>4 DEF EfsPages
<1>6. QED BY <1>3, <1>5 DEF n

LEMMA FreshFacts ==
  ASSUME NEW g \in Geos, NEW n \in Nat
  PROVE  /\ Put(Fresh(g), n, g) \in Seq(Page) /\ Len(Put(Fresh(g), n, g)) = g.pages
         /\ EfsPages(Put(Fresh(g), n, g), g, n)
<1> DEFINE new == Put(Fresh(g), n, g)
<1>1. g.pages \in Nat
  BY ModemAssumption
<1>2. Fresh(g) \in Seq(Page) /\ Len(Fresh(g)) = g.pages
  <2>1. Fresh(g) \in [1..g.pages -> Page]
    BY DEF Fresh, Page
  <2>2. QED BY <1>1, <2>1
<1>3. Super(g, n) \in Page
  BY DEF Page
<1>4. new \in Seq(Page) /\ Len(new) = Len(Fresh(g)) /\ DOMAIN new = 1..g.pages
  <2>1. Fresh(g) \in [1..g.pages -> Page]
    BY <1>2
  <2>2. new \in [1..g.pages -> Page]
    BY <1>3, <2>1 DEF Put
  <2>3. QED BY <1>1, <1>2, <2>2
<1>5. \A i \in DOMAIN new : new[i] = IF i = Slot(n) THEN Super(g, n) ELSE Fresh(g)[i]
  BY <1>2, <1>4 DEF Put
<1>6. \A i \in DOMAIN new : Fresh(g)[i] \in {Erased, Other}
  BY <1>4 DEF Fresh
<1>7. QED BY <1>2, <1>4, <1>5, <1>6 DEF EfsPages

LEMMA CutKeeps ==
  ASSUME NEW S, NEW img \in Seq(S), NEW n \in Nat
  PROVE  /\ SubSeq(img, 1, n) \in Seq(S) \/ n > Len(img)
         /\ \A i \in DOMAIN SubSeq(img, 1, n) : n <= Len(img) => i \in DOMAIN img /\ SubSeq(img, 1, n)[i] = img[i]
OBVIOUS
-----------------------------------------------------------------------------
(* The modem and the technician. *)

LEMMA ImagesInitInv == ImagesInit => ImagesInv
<1> SUFFICES ASSUME ImagesInit PROVE ImagesInv
  OBVIOUS
<1> DEFINE N(p) == IF p = MirrorOf(seq) THEN seq ELSE seq - 1
           first(g, p) == Put(Fresh(g), N(p), g)
<1>1. seq \in Nat \ {0} /\ \A p : N(p) \in Nat
  BY ModemAssumption DEF ImagesInit
<1>2. efs = [g \in Geos |-> [p \in Efs2Names |-> first(g, p)]] /\ files = {}
  BY DEF ImagesInit
<1>3. \A g \in Geos, p \in Efs2Names :
        first(g, p) \in Seq(Page) /\ Len(first(g, p)) = g.pages /\ EfsPages(first(g, p), g, N(p))
  BY <1>1, FreshFacts
<1> HIDE DEF first, N
<1>4. efs \in [Geos -> [Efs2Names -> Seq(Page)]]
  BY <1>2, <1>3
<1>5. \A g \in Geos, p \in Efs2Names : Len(efs[g][p]) = g.pages /\ EfsPages(efs[g][p], g, N(p))
  BY <1>2, <1>3
<1>6. Working \in Geos /\ Mirrors \subseteq Efs2Names
  BY ModemAssumption DEF Efs2Names
<1>7. \A p \in Mirrors :
        EfsPages(efs[Working][p], Working, IF p = MirrorOf(seq) THEN seq ELSE seq - 1)
  BY <1>5, <1>6 DEF N
<1>8. PhonesInv
  BY <1>1, <1>4, <1>5, <1>7, Zenon DEF PhonesInv
<1>9. FilesInv
  BY <1>2 DEF FilesInv
<1>10. QED BY <1>8, <1>9 DEF ImagesInv

LEMMA ModemWriteKeeps == ASSUME ImagesInv, ModemWrite PROVE ImagesInv'
<1> DEFINE n == seq + 1
           m == MirrorOf(n)
           img == efs[Working][m]
           new == Put(img, n, Working)
<1>1. seq \in Nat \ {0} /\ efs \in [Geos -> [Efs2Names -> Seq(Page)]]
  BY Zenon DEF ImagesInv, PhonesInv
<1>2. Working \in Geos /\ Mirrors \subseteq Efs2Names
  BY ModemAssumption DEF Efs2Names
<1>3. /\ m \in Mirrors /\ MirrorOf(seq) # m /\ MirrorOf(seq) \in Mirrors
      /\ \A p \in Mirrors : p = m \/ p = MirrorOf(seq)
  BY <1>1 DEF MirrorOf, Mirrors
<1>4. seq' = n /\ files' = files /\ efs' = [efs EXCEPT ![Working][m] = new]
  BY DEF ModemWrite
<1>5. img \in Seq(Page) /\ Len(img) = Working.pages
  BY <1>1, <1>2, <1>3 DEF ImagesInv, PhonesInv
<1>6. EfsPages(img, Working, seq - 1)
  BY <1>3 DEF ImagesInv, PhonesInv
<1>7. new \in Seq(Page) /\ Len(new) = Working.pages /\ EfsPages(new, Working, n)
  <2>1. seq - 1 \in Nat /\ (seq - 1) + 2 = n
    BY <1>1
  <2> HIDE DEF img, n
  <2>2. /\ Put(img, (seq - 1) + 2, Working) \in Seq(Page)
        /\ Len(Put(img, (seq - 1) + 2, Working)) = Working.pages
        /\ EfsPages(Put(img, (seq - 1) + 2, Working), Working, (seq - 1) + 2)
    BY <1>2, <1>5, <1>6, <2>1, PutKeeps
  <2>3. QED BY <2>1, <2>2, Zenon
<1>8. n \in Nat \ {0} /\ n - 1 = seq
  BY <1>1
<1> HIDE DEF new, n, img, m
<1>9. efs' \in [Geos -> [Efs2Names -> Seq(Page)]]
  BY <1>1, <1>2, <1>3, <1>4, <1>7
<1>10. \A g \in Geos, p \in Efs2Names :
         efs'[g][p] = IF g = Working /\ p = m THEN new ELSE efs[g][p]
  BY <1>1, <1>2, <1>3, <1>4
<1>11. \A g \in Geos, p \in Efs2Names :
         Len(efs'[g][p]) = g.pages /\ \E last \in Nat : EfsPages(efs'[g][p], g, last)
  <2> TAKE g \in Geos, p \in Efs2Names
  <2>1. CASE g = Working /\ p = m
    BY <1>7, <1>8, <1>10, <2>1, Zenon
  <2>2. CASE ~(g = Working /\ p = m)
    BY <1>10, <2>2, Zenon DEF ImagesInv, PhonesInv
  <2>3. QED BY <2>1, <2>2
<1>12. \A p \in Mirrors : EfsPages(efs'[Working][p], Working, IF p = MirrorOf(n) THEN n ELSE n - 1)
  <2> TAKE p \in Mirrors
  <2>1. CASE p = m
    BY <1>2, <1>7, <1>10, <2>1, Zenon DEF m
  <2>2. CASE p # m
    <3>1. p = MirrorOf(seq) /\ p # MirrorOf(n)
      BY <1>3, <2>2 DEF m
    <3>2. EfsPages(efs[Working][p], Working, seq)
      BY <3>1, Zenon DEF ImagesInv, PhonesInv
    <3>3. efs'[Working][p] = efs[Working][p]
      BY <1>2, <1>10, <2>2, Zenon
    <3>4. QED BY <1>8, <3>1, <3>2, <3>3, Zenon
  <2>3. QED BY <2>1, <2>2
<1>13. PhonesInv'
  BY <1>4, <1>8, <1>9, <1>11, <1>12, Zenon DEF PhonesInv
<1>14. FilesInv'
  BY <1>4 DEF ImagesInv, FilesInv
<1>15. QED BY <1>13, <1>14 DEF ImagesInv

LEMMA ZeroFillKeeps == ASSUME ImagesInv, NEW q \in Mirrors, Erase(q) PROVE ImagesInv'
<1> DEFINE img == efs[Working][q]
           new == [i \in DOMAIN img |-> Erased]
<1>1. seq \in Nat \ {0} /\ efs \in [Geos -> [Efs2Names -> Seq(Page)]]
  BY Zenon DEF ImagesInv, PhonesInv
<1>2. Working \in Geos /\ Mirrors \subseteq Efs2Names
  BY ModemAssumption DEF Efs2Names
<1>3. seq' = seq /\ files' = files /\ efs' = [efs EXCEPT ![Working][q] = new]
  BY DEF Erase
<1>4. img \in Seq(Page) /\ Len(img) = Working.pages
  BY <1>1, <1>2 DEF ImagesInv, PhonesInv
<1>5. new \in Seq(Page) /\ Len(new) = Working.pages
  <2> HIDE DEF img
  <2>1. Len(img) \in Nat /\ DOMAIN img = 1..Len(img) /\ Erased \in Page
    BY <1>4 DEF Page
  <2>2. new \in [1..Len(img) -> Page] /\ DOMAIN new = 1..Len(img)
    BY <2>1
  <2>3. QED BY <1>4, <2>1, <2>2
<1>6. \A n : EfsPages(new, Working, n)
  BY DEF EfsPages
<1> HIDE DEF new, img
<1>7. efs' \in [Geos -> [Efs2Names -> Seq(Page)]]
  BY <1>1, <1>2, <1>3, <1>5
<1>8. \A g \in Geos, p \in Efs2Names :
         efs'[g][p] = IF g = Working /\ p = q THEN new ELSE efs[g][p]
  BY <1>1, <1>2, <1>3
<1>9. \A g \in Geos, p \in Efs2Names :
         Len(efs'[g][p]) = g.pages /\ \E last \in Nat : EfsPages(efs'[g][p], g, last)
  <2> TAKE g \in Geos, p \in Efs2Names
  <2>1. CASE g = Working /\ p = q
    BY <1>1, <1>5, <1>6, <1>8, <2>1, Zenon
  <2>2. CASE ~(g = Working /\ p = q)
    BY <1>8, <2>2, Zenon DEF ImagesInv, PhonesInv
  <2>3. QED BY <2>1, <2>2
<1>10. \A p \in Mirrors : EfsPages(efs'[Working][p], Working, IF p = MirrorOf(seq) THEN seq ELSE seq - 1)
  BY <1>2, <1>6, <1>8, Zenon DEF ImagesInv, PhonesInv
<1>11. PhonesInv'
  BY <1>1, <1>3, <1>7, <1>9, <1>10, Zenon DEF PhonesInv
<1>12. FilesInv'
  BY <1>3 DEF ImagesInv, FilesInv
<1>13. QED BY <1>11, <1>12 DEF ImagesInv

\* A file with a name of its own, whose pages are those of a partition.
LEMMA SaveKeeps ==
  ASSUME ImagesInv, NEW f, Save(f), FromEfs(f) \/ FromFactory(f)
  PROVE  ImagesInv'
<1>1. /\ UNCHANGED <<seq, efs>> /\ files' = files \cup {f}
      /\ \A e \in files : e.name # f.name
  BY DEF Save
<1>2. PhonesInv'
  BY <1>1 DEF ImagesInv, PhonesInv
<1>3. FilesInv'
  BY <1>1 DEF ImagesInv, FilesInv
<1>4. QED BY <1>2, <1>3 DEF ImagesInv

LEMMA DumpEfsKeeps ==
  ASSUME ImagesInv, NEW g \in Geos, NEW p \in Efs2Names, NEW name \in Names,
         NEW n \in {1, 2, g.pages}, DumpEfs(g, p, name, n)
  PROVE  ImagesInv'
<1> DEFINE img == efs[g][p]
           cut == SubSeq(img, 1, n)
           f == [name |-> name, of |-> p, geo |-> g, pages |-> cut]
<1>1. img \in Seq(Page) /\ Len(img) = g.pages
  BY DEF ImagesInv, PhonesInv
<1>2. PICK last \in Nat : EfsPages(img, g, last)
  BY DEF ImagesInv, PhonesInv
<1>3. n \in Nat /\ n <= Len(img)
  BY <1>1, ModemAssumption
<1> HIDE DEF img
<1>4. cut \in Seq(Page) /\ \A i \in DOMAIN cut : i \in DOMAIN img /\ cut[i] = img[i]
  BY <1>1, <1>3, CutKeeps
<1> HIDE DEF cut
<1>5. EfsPages(cut, g, last)
  BY <1>2, <1>4 DEF EfsPages
<1>6. FromEfs(f)
  BY <1>4, <1>5 DEF FromEfs
<1>7. Save(f)
  BY DEF DumpEfs, cut, img
<1>8. QED BY <1>6, <1>7, SaveKeeps

LEMMA DumpFactoryKeeps ==
  ASSUME ImagesInv, NEW p \in DOMAIN Factory, NEW name \in Names, NEW img \in Factory[p],
         NEW n \in DOMAIN img, DumpFactory(p, img, name, n)
  PROVE  ImagesInv'
<1> DEFINE cut == SubSeq(img, 1, n)
           f == [name |-> name, of |-> p, geo |-> Working, pages |-> cut]
<1>1. /\ img \in Seq(FactoryPage)
      /\ \A i \in DOMAIN img : /\ img[i].kind = "ext4" => p \in {"nvdata", "nvcfg"}
                               /\ img[i].kind = "nvram" => p = "nvram"
  BY FactoryAssumption
<1>2. n \in Nat /\ n <= Len(img)
  BY <1>1
<1>3. cut \in Seq(FactoryPage) /\ \A i \in DOMAIN cut : i \in DOMAIN img /\ cut[i] = img[i]
  BY <1>1, <1>2, CutKeeps
<1>4. Save(f)
  BY DEF DumpFactory
<1> HIDE DEF cut
<1>5. FromFactory(f)
  BY <1>1, <1>3 DEF FromFactory
<1>6. QED BY <1>4, <1>5, SaveKeeps

LEMMA ImagesStep == ImagesInv /\ [ImagesNext]_imageVars => ImagesInv'
<1> SUFFICES ASSUME ImagesInv, [ImagesNext]_imageVars PROVE ImagesInv'
  OBVIOUS
<1>1. CASE UNCHANGED imageVars
  BY <1>1 DEF imageVars, ImagesInv, PhonesInv, FilesInv
<1>2. CASE ImagesNext
  BY <1>2, ModemWriteKeeps, ZeroFillKeeps, DumpEfsKeeps, DumpFactoryKeeps, Zenon DEF ImagesNext
<1>3. QED BY <1>1, <1>2

LEMMA ImagesInductive == ImagesSpec => []ImagesInv
BY ImagesInitInv, ImagesStep, PTL DEF ImagesSpec
-----------------------------------------------------------------------------
(* What the tool reads in an image. *)

LEMMA KindFacts ==
  /\ \A x \in Page : x.kind \in {"erased", "data", "efs2"}
  /\ \A x \in FactoryPage : x.kind \in {"erased", "data", "ext4", "nvram"}
BY DEF Page, FactoryPage, Erased, Other, Super

LEMMA SuperblockFacts ==
  ASSUME NEW img \in Seq(Page), NEW g, NEW last \in Nat, EfsPages(img, g, last),
         NEW i \in Superblocks(img)
  PROVE  /\ i \in {1, 2}
         /\ \/ i = Slot(last) /\ img[i] = Super(g, last)
            \/ i = 3 - Slot(last) /\ last >= 2 /\ img[i] = Super(g, last - 2)
<1>1. i \in DOMAIN img /\ img[i].kind = "efs2"
  BY DEF Superblocks
<1>2. img[i] \notin {Erased, Other}
  BY <1>1 DEF Erased, Other
<1>3. \/ i = Slot(last) /\ img[i] = Super(g, last)
      \/ i = 3 - Slot(last) /\ last >= 2 /\ img[i] = Super(g, last - 2)
  BY <1>1, <1>2 DEF EfsPages
<1>4. Slot(last) \in {1, 2}
  BY SlotFacts
<1>5. QED BY <1>3, <1>4

\* Every superblock of an image is one that the modem wrote.
LEMMA WrittenFacts ==
  ASSUME NEW img \in Seq(Page), NEW g, NEW last \in Nat, EfsPages(img, g, last),
         NEW i \in Superblocks(img)
  PROVE  /\ img[i].seq \in Nat /\ img[i].seq <= last /\ last <= img[i].seq + 2
         /\ img[i].seq = last \/ last = img[i].seq + 2
         /\ img[i].geo = g /\ img[i].age = img[i].seq % AgeMod
         /\ img[i].age \in 0..AgeMod - 1
<1>1. img[i] = Super(g, last) \/ (last >= 2 /\ img[i] = Super(g, last - 2))
  BY SuperblockFacts
<1>2. PICK n \in Nat : img[i] = Super(g, n) /\ (n = last \/ last = n + 2)
  BY <1>1
<1>3. img[i].seq = n /\ img[i].geo = g /\ img[i].age = n % AgeMod
  BY <1>2 DEF Super
<1>4. n % AgeMod \in 0..AgeMod - 1
  BY AgeAssumption
<1>5. QED BY <1>2, <1>3, <1>4

\* Live is one of the superblocks, and none has a higher age.
LEMMA LiveFacts ==
  ASSUME NEW img \in Seq(Page), NEW g, NEW last \in Nat, EfsPages(img, g, last),
         Superblocks(img) # {}
  PROVE  /\ \E i \in Superblocks(img) : Live(img) = img[i]
         /\ \A i \in Superblocks(img) : img[i].age <= Live(img).age
<1> DEFINE newest == {i \in Superblocks(img) : img[i].age = Max(Ages(img))}
<1>1. AgeMod - 1 \in Nat
  BY AgeAssumption
<1>2. Ages(img) \in SUBSET (0..AgeMod - 1) /\ Ages(img) # {}
  BY WrittenFacts DEF Ages
<1>3. Max(Ages(img)) \in Ages(img) /\ \A a \in Ages(img) : Max(Ages(img)) >= a
  BY <1>1, <1>2, MaxFacts
<1>4. newest # {} /\ newest \subseteq Superblocks(img)
  BY <1>3 DEF Ages
<1>5. newest \in SUBSET (0..2)
  BY <1>4, SuperblockFacts
<1> HIDE DEF newest
<1>6. Max(newest) \in newest
  BY <1>4, <1>5, MaxFacts
<1>7. Live(img) = img[Max(newest)]
  BY DEF Live, newest
<1>8. img[Max(newest)].age = Max(Ages(img)) /\ Max(newest) \in Superblocks(img)
  BY <1>4, <1>6 DEF newest
<1>9. \A i \in Superblocks(img) : img[i].age \in Ages(img) /\ img[i].age \in 0..AgeMod - 1
  BY WrittenFacts DEF Ages
<1>10. \A i \in Superblocks(img) : img[i].age <= Max(Ages(img))
  BY <1>2, <1>3, <1>9
<1>11. QED BY <1>7, <1>8, <1>10

\* The four things that a report can be.
LEMMA ReportFacts ==
  ASSUME NEW img, NEW name
  PROVE  LET r == AnalyzeBytes(img, name)
         IN  /\ Blank(img) =>
                  r.state = "blank" /\ r.format = ExpectedFormat(name) /\ ~HasLive(r)
             /\ ~Blank(img) /\ Superblocks(img) # {} =>
                  /\ HasLive(r) /\ r.format = "efs2" /\ r.state \in {"ok", "inconsistent"}
                  /\ r.live = Live(img) /\ r.rollover = RolloverPossible(img)
             /\ ~Blank(img) /\ Superblocks(img) = {} /\ Ext4Superblock(img) =>
                  r.format = "ext4" /\ ~HasLive(r)
             /\ ~Blank(img) /\ Superblocks(img) = {} /\ ~Ext4Superblock(img) /\ Regions(img) # {} =>
                  r = AnalyzeNvram(img) /\ r.format = "mtk-nvram" /\ ~HasLive(r)
             /\ ~Blank(img) /\ Superblocks(img) = {} /\ ~Ext4Superblock(img) /\ Regions(img) = {} =>
                  ~HasLive(r) /\ (r.format = "unknown" \/ r.state \in Bad \ {"blank"})
<1> DEFINE r == AnalyzeBytes(img, name)
           named == AnalyzeAs(ExpectedFormat(name), img)
<1>1. ExpectedFormat(name) \in {"efs2", "ext4", "mtk-nvram", "none"}
  BY DEF ExpectedFormat, FormatByName
<1>2. CASE Blank(img)
  <2>1. r = [format |-> ExpectedFormat(name), state |-> "blank"]
    BY <1>2 DEF AnalyzeBytes
  <2>2. QED BY <1>2, <2>1 DEF HasLive
<1>3. CASE ~Blank(img) /\ Superblocks(img) # {}
  <2>1. r = Analyze(img)
    BY <1>3, Zenon DEF AnalyzeBytes, AnalyzeAs
  <2>2. r = [format |-> "efs2", live |-> Live(img), rollover |-> RolloverPossible(img),
             fits |-> Live(img).geo.pages <= Len(img),
             state |-> IF \E i, j \in Superblocks(img) : img[i].geo # img[j].geo
                       THEN "inconsistent" ELSE "ok"]
    BY <1>3, <2>1, Zenon DEF Analyze
  <2> HIDE DEF r
  <2>3. HasLive(r)
    BY <2>2 DEF HasLive
  <2>4. r.format = "efs2" /\ r.live = Live(img) /\ r.rollover = RolloverPossible(img)
    BY <2>2
  <2>5. r.state \in {"ok", "inconsistent"}
    BY <2>2
  <2>6. QED BY <1>3, <2>3, <2>4, <2>5 DEF r
<1>4. CASE ~Blank(img) /\ Superblocks(img) = {} /\ Ext4Superblock(img)
  <2>1. r = AnalyzeAs("ext4", img)
    BY <1>4, Zenon DEF AnalyzeBytes
  <2>2. r = AnalyzeNvdata(img)
    BY <2>1 DEF AnalyzeAs
  <2>3. QED BY <1>4, <2>2 DEF AnalyzeNvdata, HasLive
<1>5. CASE ~Blank(img) /\ Superblocks(img) = {} /\ ~Ext4Superblock(img) /\ Regions(img) # {}
  <2>1. r = AnalyzeAs("mtk-nvram", img)
    BY <1>5, Zenon DEF AnalyzeBytes
  <2>2. r = AnalyzeNvram(img)
    BY <2>1 DEF AnalyzeAs
  <2>3. QED BY <1>5, <2>2 DEF AnalyzeNvram, HasLive
<1>6. CASE ~Blank(img) /\ Superblocks(img) = {} /\ ~Ext4Superblock(img) /\ Regions(img) = {}
  <2>1. r = named
    BY <1>6, Zenon DEF AnalyzeBytes
  <2>2. CASE ExpectedFormat(name) = "efs2"
    <3>1. r = [format |-> "efs2", state |-> "no-superblock"]
      BY <1>6, <2>1, <2>2 DEF AnalyzeAs, Analyze
    <3>2. QED BY <1>6, <3>1 DEF HasLive, Bad
  <2>3. CASE ExpectedFormat(name) = "ext4"
    <3>1. r = [format |-> "ext4", state |-> "no-ext4-superblock"]
      BY <1>6, <2>1, <2>3 DEF AnalyzeAs, AnalyzeNvdata
    <3>2. QED BY <1>6, <3>1 DEF HasLive, Bad
  <2>4. CASE ExpectedFormat(name) = "mtk-nvram"
    <3>1. r = [format |-> "mtk-nvram", state |-> "no-backup-header"]
      BY <1>6, <2>1, <2>4 DEF AnalyzeAs, AnalyzeNvram
    <3>2. QED BY <1>6, <3>1 DEF HasLive, Bad
  <2>5. CASE ExpectedFormat(name) = "none"
    <3>1. r = [format |-> "unknown", state |-> "unknown"]
      BY <2>1, <2>5 DEF AnalyzeAs
    <3>2. QED BY <1>6, <3>1 DEF HasLive
  <2>6. QED BY <1>1, <2>2, <2>3, <2>4, <2>5
<1>7. QED BY <1>2, <1>3, <1>4, <1>5, <1>6

\* A report is keyed by the name of a file, which no other file has.
LEMMA CheckedFacts ==
  ASSUME FilesInv, NEW fs \in SUBSET files, NEW f \in fs
  PROVE  /\ f.name \in DOMAIN CheckImages(fs)
         /\ CheckImages(fs)[f.name] = AnalyzeBytes(f.pages, f.name)
<1>1. \A e \in fs : e.name = f.name => e = f
  BY DEF FilesInv
<1>2. (CHOOSE e \in fs : e.name = f.name) = f
  BY <1>1
<1>3. f.name \in {e.name : e \in fs}
  OBVIOUS
<1>4. QED BY <1>2, <1>3, Zenon DEF CheckImages

\* Only images of EFS2 partitions hold superblocks, only those of nvdata and
\* nvcfg are ext4, and only those of nvram hold a region.
LEMMA OriginFacts ==
  ASSUME FilesInv, NEW f \in files
  PROVE  /\ Superblocks(f.pages) # {} => FromEfs(f)
         /\ Ext4Superblock(f.pages) => f.of \in {"nvdata", "nvcfg"}
         /\ Regions(f.pages) # {} => f.of = "nvram" /\ f.pages \in Seq(FactoryPage)
<1>1. CASE FromEfs(f)
  <2>1. f.pages \in Seq(Page)
    BY <1>1 DEF FromEfs
  <2>2. \A i \in DOMAIN f.pages : f.pages[i].kind \in {"erased", "data", "efs2"}
    BY <2>1, KindFacts
  <2>3. f.pages # <<>> => 1 \in DOMAIN f.pages
    BY <2>1
  <2>4. ~Ext4Superblock(f.pages) /\ Regions(f.pages) = {}
    BY <2>2, <2>3 DEF Ext4Superblock, Regions, HeaderAt
  <2>5. QED BY <1>1, <2>4
<1>2. CASE FromFactory(f)
  <2>1. /\ f.pages \in Seq(FactoryPage)
        /\ \A i \in DOMAIN f.pages : /\ f.pages[i].kind = "ext4" => f.of \in {"nvdata", "nvcfg"}
                                     /\ f.pages[i].kind = "nvram" => f.of = "nvram"
    BY <1>2 DEF FromFactory
  <2>2. \A i \in DOMAIN f.pages : f.pages[i].kind # "efs2"
    BY <2>1, KindFacts
  <2>3. f.pages # <<>> => 1 \in DOMAIN f.pages
    BY <2>1
  <2>4. Superblocks(f.pages) = {}
    BY <2>2 DEF Superblocks
  <2>5. Ext4Superblock(f.pages) => f.of \in {"nvdata", "nvcfg"}
    BY <2>1, <2>3 DEF Ext4Superblock
  <2>6. Regions(f.pages) # {} => f.of = "nvram"
    BY <2>1 DEF Regions, HeaderAt
  <2>7. QED BY <2>1, <2>4, <2>5, <2>6
<1>3. QED BY <1>1, <1>2 DEF FilesInv

\* A report with a live superblock is of an EFS2 image of that geometry.
LEMMA LiveReport ==
  ASSUME FilesInv, NEW f \in files, HasLive(AnalyzeBytes(f.pages, f.name))
  PROVE  LET r == AnalyzeBytes(f.pages, f.name)
         IN  /\ f.of \in Efs2Names /\ Superblocks(f.pages) # {}
             /\ r.live = Live(f.pages) /\ r.rollover = RolloverPossible(f.pages)
             /\ \E i \in Superblocks(f.pages) : r.live = f.pages[i]
             /\ r.live.seq \in Nat /\ r.live.geo = f.geo
             /\ r.live.age = r.live.seq % AgeMod /\ r.live.age \in 0..AgeMod - 1
<1> DEFINE r == AnalyzeBytes(f.pages, f.name)
<1>1. /\ Superblocks(f.pages) # {}
      /\ r.live = Live(f.pages) /\ r.rollover = RolloverPossible(f.pages)
  BY ReportFacts
<1>2. FromEfs(f)
  BY <1>1, OriginFacts
<1>3. PICK last \in Nat : EfsPages(f.pages, f.geo, last)
  BY <1>2 DEF FromEfs
<1>4. f.pages \in Seq(Page) /\ f.of \in Efs2Names
  BY <1>2 DEF FromEfs
<1>5. PICK i \in Superblocks(f.pages) : Live(f.pages) = f.pages[i]
  BY <1>1, <1>3, <1>4, LiveFacts
<1>6. /\ f.pages[i].seq \in Nat /\ f.pages[i].geo = f.geo
      /\ f.pages[i].age = f.pages[i].seq % AgeMod /\ f.pages[i].age \in 0..AgeMod - 1
  BY <1>3, <1>4, WrittenFacts
<1> HIDE DEF r
<1>7. r.live = f.pages[i]
  BY <1>1, <1>5
<1>8. QED BY <1>1, <1>4, <1>6, <1>7, Zenon DEF r
-----------------------------------------------------------------------------
(* The theorems. *)

\* Of any number of superblocks and for every width of the age: without a word
\* of a rollover the live superblock is the last one (efs2.py:130-134).
THEOREM LiveIsTheLatest == ImagesSpec => []LiveIsLatest
<1>1. ASSUME FilesInv, NEW f \in files, HasLive(Reports[f.name]), ~Reports[f.name].rollover
      PROVE  Reports[f.name].live.seq = Max(Stamps(f))
  <2> DEFINE img == f.pages
             r == AnalyzeBytes(img, f.name)
  <2>1. Reports[f.name] = r
    BY <1>1, CheckedFacts DEF Reports
  <2>2. /\ Superblocks(img) # {} /\ r.live = Live(img) /\ r.rollover = RolloverPossible(img)
        /\ FromEfs(f)
    BY <1>1, <2>1, LiveReport, OriginFacts
  <2>3. PICK last \in Nat : EfsPages(img, f.geo, last)
    BY <2>2 DEF FromEfs
  <2>4. img \in Seq(Page)
    BY <2>2 DEF FromEfs
  <2>5. PICK i \in Superblocks(img) : Live(img) = img[i]
    BY <2>2, <2>3, <2>4, LiveFacts
  <2>6. \A k \in Superblocks(img) : img[k].age <= img[i].age
    BY <2>2, <2>3, <2>4, <2>5, LiveFacts
  <2>7. \A k \in Superblocks(img) :
           /\ img[k].seq \in Nat /\ img[k].seq <= last
           /\ img[k].seq = last \/ last = img[k].seq + 2
           /\ img[k].age = img[k].seq % AgeMod /\ img[k].age \in 0..AgeMod - 1
    BY <2>3, <2>4, WrittenFacts
  <2>8. ~(img[i].age >= HighAge)
    BY <1>1, <2>1, <2>2, <2>5 DEF RolloverPossible
  <2> HIDE DEF img, r
  <2>9. \A k \in Superblocks(img) : img[i].seq >= img[k].seq
    <3> SUFFICES ASSUME NEW k \in Superblocks(img), ~(img[i].seq >= img[k].seq)
                 PROVE  FALSE
      OBVIOUS
    <3> DEFINE n == img[i].seq
               m == AgeMod
    <3>1. n \in Nat /\ img[k].seq = n + 2
      BY <2>7
    <3>2. img[i].age = n % m /\ img[k].age = (n + 2) % m
      BY <2>7, <3>1
    <3>3. m \in Nat /\ m >= 2 /\ HighAge \in Nat /\ HighAge <= m - 2
      BY AgeAssumption
    <3>4. /\ n % m \in Nat /\ (n + 2) % m \in Nat
          /\ (n + 2) % m <= n % m /\ n % m < HighAge
      BY <2>6, <2>7, <2>8, <3>2, <3>3
    <3> HIDE DEF n, m
    <3>5. CASE (n + 2) % m < 2
      <4>1. n % m = m - 2 + ((n + 2) % m)
        BY <3>1, <3>3, <3>5, AgeWraps
      <4>2. QED BY <3>3, <3>4, <4>1
    <3>6. CASE (n + 2) % m >= 2
      <4>1. (n + 2) % m = (n % m) + 2
        BY <3>1, <3>3, <3>6, AgeSteps
      <4>2. QED BY <3>4, <4>1
    <3>7. QED BY <3>4, <3>5, <3>6
  <2>10. Stamps(f) \in SUBSET Nat /\ img[i].seq \in Stamps(f) /\ \A y \in Stamps(f) : img[i].seq >= y
    BY <2>7, <2>9 DEF Stamps, img
  <2>11. Max(Stamps(f)) = img[i].seq
    BY <2>10, MaxIs
  <2>12. QED BY <2>1, <2>2, <2>5, <2>11
<1>2. ImagesInv => LiveIsLatest
  BY <1>1 DEF ImagesInv, LiveIsLatest
<1>3. QED BY <1>2, ImagesInductive, PTL

\* The mirror that is called newest is, as long as the two are less than a
\* rollover apart (efs2.py:167-170).
THEOREM NewestMirrorIsTheLatest == ImagesSpec => []NewestMirrorIsLatest
<1>1. ASSUME FilesInv, NEW e \in files, NEW f \in files,
             HasLive(Reports[e.name]), HasLive(Reports[f.name]),
             ~Reports[f.name].rollover, f.name \in Newest(Reports),
             Reports[e.name].live.seq <= Reports[f.name].live.seq + AgeMod - HighAge
      PROVE  Reports[f.name].live.seq >= Reports[e.name].live.seq
  <2> DEFINE d == Reports[e.name].live
             r == Reports[f.name].live
             live == {n \in DOMAIN Reports : HasLive(Reports[n])}
             ages == {Reports[n].live.age : n \in live}
  <2>1. /\ Reports[e.name] = AnalyzeBytes(e.pages, e.name)
        /\ Reports[f.name] = AnalyzeBytes(f.pages, f.name)
        /\ e.name \in DOMAIN Reports /\ f.name \in DOMAIN Reports
    BY <1>1, CheckedFacts DEF Reports
  <2>2. /\ d.seq \in Nat /\ d.age = d.seq % AgeMod /\ d.age \in 0..AgeMod - 1
        /\ r.seq \in Nat /\ r.age = r.seq % AgeMod /\ r.age \in 0..AgeMod - 1
        /\ r = Live(f.pages) /\ ~RolloverPossible(f.pages)
    BY <1>1, <2>1, LiveReport
  <2>3. \A n \in live : Reports[n].live.age \in 0..AgeMod - 1
    <3> TAKE n \in live
    <3>1. PICK a \in files : a.name = n
      BY DEF Reports, CheckImages
    <3>2. Reports[n] = AnalyzeBytes(a.pages, a.name) /\ HasLive(Reports[n])
      BY <1>1, <3>1, CheckedFacts DEF Reports
    <3>3. QED BY <1>1, <3>2, LiveReport
  <2>4. AgeMod - 1 \in Nat /\ HighAge \in Nat /\ AgeMod \in Nat /\ HighAge + 2 <= AgeMod
    BY AgeAssumption
  <2>5. e.name \in live /\ f.name \in live
    BY <1>1, <2>1
  <2>6. ages \in SUBSET (0..AgeMod - 1) /\ d.age \in ages
    BY <2>3, <2>5
  <2>7. r.age = Max(ages)
    BY <1>1 DEF Newest
  <2> HIDE DEF live, ages
  <2>8. r.age >= d.age
    <3>1. \A a \in ages : Max(ages) >= a
      BY <2>4, <2>6, MaxFacts
    <3>2. QED BY <2>6, <2>7, <3>1
  <2>9. ~(r.age >= HighAge)
    BY <2>2 DEF RolloverPossible
  <2>10. d.seq <= r.seq + AgeMod - HighAge
    BY <1>1
  <2> HIDE DEF d, r
  <2>11. r.seq >= d.seq
    <3> SUFFICES ASSUME ~(r.seq >= d.seq) PROVE FALSE
      OBVIOUS
    <3> DEFINE k == d.seq - r.seq
    <3>1. k \in Nat /\ k > 0 /\ k <= AgeMod - HighAge /\ d.seq = r.seq + k
      BY <2>2, <2>4, <2>10
    <3> HIDE DEF k
    <3>2. (r.seq % AgeMod) + k < AgeMod /\ AgeMod > 0
      BY <2>2, <2>4, <2>9, <3>1
    <3>3. (r.seq + k) % AgeMod = (r.seq % AgeMod) + k
      BY <2>2, <2>4, <3>1, <3>2, AgeGrows
    <3>4. d.age = r.age + k
      BY <2>2, <3>1, <3>3
    <3>5. QED BY <2>2, <2>4, <2>8, <3>1, <3>4
  <2>12. QED BY <2>11 DEF d, r
<1>2. FilesInv => NewestMirrorIsLatest
  BY <1>1, Zenon DEF NewestMirrorIsLatest
<1>3. ImagesInv => NewestMirrorIsLatest
  BY <1>2 DEF ImagesInv
<1>4. QED BY <1>3, ImagesInductive, PTL

\* What is found in order is what its name says, and of one phone's geometry if
\* the names are spelt as the mirrors' are, however it was cut (efs.py:412-432).
THEOREM OkIsGenuine == ImagesSpec => []OkMeansGenuine
<1>1. ASSUME FilesInv, NEW fs \in SUBSET files, SummaryOk(CheckImages(fs)),
             NEW f \in fs, ExpectedFormat(f.name) # "none"
      PROVE  /\ FormatByName(f.of) = ExpectedFormat(f.name) /\ ~Blank(f.pages)
             /\ f.of \in Efs2Names /\ f.name \in Efs2Names =>
                  /\ f.name \in DOMAIN CheckImages(fs) \cap Efs2Names
                  /\ CheckImages(fs)[f.name].format = "efs2"
                  /\ HasLive(CheckImages(fs)[f.name])
                  /\ CheckImages(fs)[f.name].live.geo = f.geo
  <2> DEFINE rs == CheckImages(fs)
             r == AnalyzeBytes(f.pages, f.name)
             img == f.pages
  <2>1. f.name \in DOMAIN rs /\ rs[f.name] = r /\ f \in files
    BY <1>1, CheckedFacts
  <2> HIDE DEF rs
  <2>2. r.state \notin Bad /\ FormatMatches(f.name, r)
    BY <1>1, <2>1 DEF SummaryOk, rs
  <2> HIDE DEF r
  <2>3. r.state # "blank" /\ r.format = ExpectedFormat(f.name)
    BY <2>2 DEF FormatMatches, Bad
  <2>4. ~Blank(img)
    BY <2>3, ReportFacts DEF r
  <2>5. CASE Superblocks(img) # {}
    <3>1. HasLive(r) /\ r.format = "efs2"
      BY <2>4, <2>5, ReportFacts DEF r
    <3>2. f.of \in Efs2Names /\ r.live.geo = f.geo
      BY <1>1, <2>1, <3>1, LiveReport DEF r
    <3>3. FormatByName(f.of) = "efs2"
      BY <3>2 DEF FormatByName, Efs2Names, Mirrors
    <3>4. QED BY <2>1, <2>3, <2>4, <3>1, <3>2, <3>3 DEF rs
  <2>6. CASE Superblocks(img) = {} /\ Ext4Superblock(img)
    <3>1. r.format = "ext4"
      BY <2>4, <2>6, ReportFacts DEF r
    <3>2. f.of \in {"nvdata", "nvcfg"}
      BY <1>1, <2>1, <2>6, OriginFacts
    <3>3. FormatByName(f.of) = "ext4" /\ f.of \notin Efs2Names
      BY <3>2 DEF FormatByName, Efs2Names, Mirrors
    <3>4. QED BY <2>3, <2>4, <3>1, <3>3
  <2>7. CASE Superblocks(img) = {} /\ ~Ext4Superblock(img) /\ Regions(img) # {}
    <3>1. r.format = "mtk-nvram"
      BY <2>4, <2>7, ReportFacts DEF r
    <3>2. f.of = "nvram"
      BY <1>1, <2>1, <2>7, OriginFacts
    <3>3. FormatByName(f.of) = "mtk-nvram" /\ f.of \notin Efs2Names
      BY <3>2 DEF FormatByName, Efs2Names, Mirrors
    <3>4. QED BY <2>3, <2>4, <3>1, <3>3
  <2>8. CASE Superblocks(img) = {} /\ ~Ext4Superblock(img) /\ Regions(img) = {}
    <3>1. r.format = "unknown" \/ r.state \in Bad
      BY <2>4, <2>8, ReportFacts DEF r
    <3>2. ExpectedFormat(f.name) # "unknown"
      BY DEF ExpectedFormat, FormatByName
    <3>3. QED BY <2>2, <2>3, <3>1, <3>2
  <2>9. QED BY <2>5, <2>6, <2>7, <2>8
<1>2. ASSUME FilesInv, NEW fs \in SUBSET files, SummaryOk(CheckImages(fs)),
             NEW e \in fs, ExpectedFormat(e.name) # "none",
             NEW f \in fs, ExpectedFormat(f.name) # "none",
             {e.of, f.of, e.name, f.name} \subseteq Efs2Names
      PROVE  e.geo = f.geo
  <2> DEFINE rs == CheckImages(fs)
             mirror == {n \in DOMAIN rs \cap Efs2Names : rs[n].format = "efs2"}
             ms == [n \in mirror |-> rs[n]]
  <2>1. OneGeometry(ms)
    BY <1>2 DEF SummaryOk, CompareMirrorOk
  <2>2. /\ e.name \in mirror /\ HasLive(rs[e.name]) /\ rs[e.name].live.geo = e.geo
        /\ f.name \in mirror /\ HasLive(rs[f.name]) /\ rs[f.name].live.geo = f.geo
    BY <1>1, <1>2
  <2> HIDE DEF rs, mirror
  <2>3. DOMAIN ms = mirror /\ ms[e.name] = rs[e.name] /\ ms[f.name] = rs[f.name]
    BY <2>2
  <2> HIDE DEF ms
  <2>4. ms[e.name].live.geo = ms[f.name].live.geo
    BY <2>1, <2>2, <2>3, Zenon DEF OneGeometry
  <2>5. QED BY <2>2, <2>3, <2>4
<1>3. ASSUME FilesInv PROVE OkMeansGenuine
  <2> SUFFICES ASSUME NEW fs \in SUBSET files, SummaryOk(CheckImages(fs))
               PROVE  LET judged == {f \in fs : ExpectedFormat(f.name) # "none"}
                      IN  /\ \A f \in judged : FormatByName(f.of) = ExpectedFormat(f.name) /\ ~Blank(f.pages)
                          /\ \A e, f \in judged : {e.of, f.of, e.name, f.name} \subseteq Efs2Names => e.geo = f.geo
    BY Zenon DEF OkMeansGenuine
  <2>1. \A f \in fs : ExpectedFormat(f.name) # "none" =>
          FormatByName(f.of) = ExpectedFormat(f.name) /\ ~Blank(f.pages)
    BY <1>1, <1>3, Zenon
  <2>2. \A e, f \in fs : (/\ ExpectedFormat(e.name) # "none" /\ ExpectedFormat(f.name) # "none"
                          /\ {e.of, f.of, e.name, f.name} \subseteq Efs2Names) => e.geo = f.geo
    BY <1>2, <1>3, Zenon
  <2>3. QED BY <2>1, <2>2
<1>4. ImagesInv => OkMeansGenuine
  BY <1>3 DEF ImagesInv
<1>5. QED BY <1>4, ImagesInductive, PTL

\* Wherever a dump was cut, a region that is called usable has all its titles, and
\* of its files lacks no more than the pages the titles take (mtknv.py:116, 165).
THEOREM UsableRegionLacksItsEnd == ImagesSpec => []UsableRegionLacksItsEndOnly
<1>1. ASSUME FilesInv, NEW f \in files,
             Reports[f.name] = [format |-> "mtk-nvram", state |-> "ok"]
      PROVE  LET h == f.pages[Region(f.pages)]
                 there == Len(f.pages) - (Region(f.pages) - 1)
             IN  h.table <= there /\ \A e \in h.ends : h.table + e <= there + h.table
  <2> DEFINE img == f.pages
             r == AnalyzeBytes(img, f.name)
             i == Region(img)
  <2>1. Reports[f.name] = r
    BY <1>1, CheckedFacts DEF Reports
  <2> HIDE DEF r
  <2>2. r.format = "mtk-nvram" /\ r.state = "ok"
    BY <1>1, <2>1
  <2>3. Regions(img) # {} /\ r = AnalyzeNvram(img)
    <3>1. ~Blank(img)
      BY <2>2, ReportFacts DEF r
    <3>2. Superblocks(img) = {}
      BY <2>2, <3>1, ReportFacts DEF r
    <3>3. ~Ext4Superblock(img)
      BY <2>2, <3>1, <3>2, ReportFacts DEF r
    <3>4. Regions(img) # {}
      BY <2>2, <3>1, <3>2, <3>3, ReportFacts DEF r, Bad
    <3>5. QED BY <3>1, <3>2, <3>3, <3>4, ReportFacts DEF r
  <2>4. img \in Seq(FactoryPage) /\ Len(img) \in Nat
    BY <1>1, <2>3, OriginFacts
  <2>5. Regions(img) \in SUBSET Nat
    BY <2>4 DEF Regions
  <2>6. i \in Regions(img)
    BY <2>3, <2>5, MinFacts DEF Region
  <2>7. i \in DOMAIN img /\ HeaderAt(img, i)
    BY <2>6 DEF Regions
  <2>8. \A x \in img[i].ends : x <= img[i].buf
    BY <2>2, <2>3 DEF AnalyzeNvram
  <2>9. i \in Nat /\ img[i] \in FactoryPage /\ img[i].kind = "nvram"
    BY <2>4, <2>7 DEF HeaderAt
  <2>10. img[i].buf \in Nat /\ img[i].table \in Nat /\ img[i].ends \subseteq Nat
    BY <2>9 DEF FactoryPage, Erased, Other
  <2>11. /\ img[i].buf <= Len(img) - (i - 1) /\ i - 1 + img[i].table <= Len(img)
    BY <2>7 DEF HeaderAt
  <2> HIDE DEF i, img
  <2>12. img[i].table <= Len(img) - (i - 1)
    BY <2>4, <2>9, <2>10, <2>11
  <2>13. \A e \in img[i].ends : img[i].table + e <= (Len(img) - (i - 1)) + img[i].table
    BY <2>4, <2>8, <2>9, <2>10, <2>11
  <2>14. QED BY <2>12, <2>13 DEF i, img
<1>2. ImagesInv => UsableRegionLacksItsEndOnly
  BY <1>1, Zenon DEF ImagesInv, UsableRegionLacksItsEndOnly
<1>3. QED BY <1>2, ImagesInductive, PTL
-----------------------------------------------------------------------------
(* Chains of numbers. *)

LEMMA UpTo ==
  ASSUME NEW n \in Nat, NEW P, P[0], \A k \in 1..n : P[k - 1] => P[k]
  PROVE  \A k \in 0..n : P[k]
<1> SUFFICES ASSUME NEW j \in 0..n, ~P[j] PROVE FALSE
  OBVIOUS
<1> DEFINE T == {k \in 0..n : ~P[k]}
<1>1. T \in SUBSET Nat /\ T # {}
  OBVIOUS
<1>2. Min(T) \in T /\ \A y \in T : Min(T) <= y
  BY <1>1, MinFacts
<1>3. PICK k \in 0..n : ~P[k] /\ \A y \in T : k <= y
  BY <1>2
<1>4. k # 0
  BY <1>3
<1>5. k \in 1..n /\ k - 1 \in 0..n /\ ~(k <= k - 1)
  BY <1>4
<1>6. k - 1 \notin T
  BY <1>3, <1>5
<1>7. P[k - 1]
  BY <1>5, <1>6
<1>8. QED BY <1>3, <1>5, <1>7

\* The chain c with the number that follows it, as Chain extends it.
Extended(next, start, c) ==
  LET s == IF c = <<>> THEN start ELSE next[Last(c) + 1]
  IN  IF s \in 0..(Len(next) - 1) /\ s \notin ToSet(c) THEN Append(c, s) ELSE c

\* met are the first m + 1 chains that Chain goes through.
Meets(next, start, met, m) ==
  met = [k \in 0..m |-> IF k = 0 THEN <<>> ELSE Extended(next, start, met[k - 1])]

LEMMA ChainMeets ==
  ASSUME NEW next, Len(next) \in Nat, NEW start
  PROVE  \E met : Meets(next, start, met, Len(next)) /\ Chain(next, start) = met[Len(next)]
<1> DEFINE n == Len(next)
           Q == [m \in 0..n |-> \E met : Meets(next, start, met, m)]
<1> HIDE DEF n
<1>1. n \in Nat
  BY DEF n
<1>2. Q[0]
  <2>1. Meets(next, start, [k \in 0..0 |-> <<>>], 0)
    <3>1. \A k \in 0..0 : k = 0
      OBVIOUS
    <3>2. QED BY <3>1, Zenon DEF Meets
  <2>2. QED BY <1>1, <2>1
<1>3. ASSUME NEW m \in 1..n, Q[m - 1] PROVE Q[m]
  <2>1. PICK g : Meets(next, start, g, m - 1)
    BY <1>1, <1>3
  <2> DEFINE h == [k \in 0..m |-> IF k = m THEN Extended(next, start, g[m - 1]) ELSE g[k]]
  <2>2. \A k \in 0..(m - 1) : g[k] = IF k = 0 THEN <<>> ELSE Extended(next, start, g[k - 1])
    BY <2>1, Zenon DEF Meets
  <2>3. \A k \in 0..m : k = m \/ k \in 0..(m - 1)
    BY <1>3
  <2>4. \A k \in 0..m : k # 0 => k - 1 \in 0..m /\ k - 1 # m
    BY <1>3
  <2>5. \A k \in 0..m : k # 0 => h[k - 1] = g[k - 1]
    BY <2>4
  <2>6. m # 0 /\ m \in 0..m
    BY <1>3
  <2>7. \A k \in 0..m : h[k] = IF k = 0 THEN <<>> ELSE Extended(next, start, h[k - 1])
    <3> TAKE k \in 0..m
    <3>1. CASE k = m
      BY <2>5, <2>6, <3>1, Zenon
    <3>2. CASE k # m
      <4>1. h[k] = g[k] /\ k \in 0..(m - 1)
        BY <2>3, <3>2, Zenon
      <4>2. QED BY <2>2, <2>5, <4>1, Zenon
    <3>3. QED BY <3>1, <3>2
  <2>8. h = [k \in 0..m |-> h[k]]
    BY Zenon
  <2> HIDE DEF h
  <2>9. Meets(next, start, h, m)
    BY <2>7, <2>8, Zenon DEF Meets
  <2>10. QED BY <1>3, <2>9
<1>4. \A m \in 0..n : Q[m]
  <2> HIDE DEF Q
  <2>1. QED BY <1>1, <1>2, <1>3, UpTo
<1>5. n \in 0..n
  BY <1>1
<1>6. \E met : Meets(next, start, met, n)
  BY <1>4, <1>5
<1> DEFINE met == CHOOSE met : Meets(next, start, met, n)
<1>7. Meets(next, start, met, n)
  BY <1>6, Zenon
<1>8. Chain(next, start) = met[n]
  BY Zenon DEF Chain, Meets, Extended, n
<1>9. QED BY <1>7, <1>8, Zenon DEF n

LEMMA MeetsFacts ==
  ASSUME NEW next, Len(next) \in Nat, NEW start, NEW met, Meets(next, start, met, Len(next))
  PROVE  /\ met[0] = <<>>
         /\ \A k \in 1..Len(next) : met[k] = Extended(next, start, met[k - 1])
         /\ \A k \in 0..Len(next) : met[k] \in Seq(0..(Len(next) - 1))
         /\ \A k \in 0..Len(next) : ToSet(met[k]) \subseteq ToSet(met[Len(next)])
<1> DEFINE n == Len(next)
           V == 0..(n - 1)
<1>1. n \in Nat /\ 0 \in 0..n /\ \A k \in 1..n : k \in 0..n /\ k # 0
  OBVIOUS
<1>2. \A k \in 0..n : met[k] = IF k = 0 THEN <<>> ELSE Extended(next, start, met[k - 1])
  BY Zenon DEF Meets
<1>3. met[0] = <<>> /\ \A k \in 1..n : met[k] = Extended(next, start, met[k - 1])
  BY <1>1, <1>2, Zenon
<1>4. ASSUME NEW c \in Seq(V)
      PROVE  Extended(next, start, c) \in Seq(V) /\ ToSet(c) \subseteq ToSet(Extended(next, start, c))
  <2> DEFINE s == IF c = <<>> THEN start ELSE next[Last(c) + 1]
  <2>1. \/ Extended(next, start, c) = c
        \/ s \in V /\ Extended(next, start, c) = Append(c, s)
    BY Zenon DEF Extended
  <2> HIDE DEF s, V
  <2>2. CASE Extended(next, start, c) = c
    BY <2>2
  <2>3. CASE s \in V /\ Extended(next, start, c) = Append(c, s)
    <3>1. Append(c, s) \in Seq(V) /\ \A i \in DOMAIN c : i \in DOMAIN Append(c, s) /\ Append(c, s)[i] = c[i]
      BY <2>3
    <3>2. QED BY <2>3, <3>1 DEF ToSet
  <2>4. QED BY <2>1, <2>2, <2>3
<1> HIDE DEF n, V
<1>5. \A k \in 0..n : met[k] \in Seq(V)
  <2> DEFINE P == [k \in 0..n |-> met[k] \in Seq(V)]
  <2>1. P[0]
    <3>1. met[0] \in Seq(V)
      BY <1>3
    <3>2. QED BY <1>1, <3>1, Zenon
  <2>2. \A k \in 1..n : P[k - 1] => P[k]
    <3> TAKE k \in 1..n
    <3>1. k \in 0..n /\ k - 1 \in 0..n
      BY <1>1
    <3>2. QED BY <1>3, <1>4, <3>1
  <2>3. \A k \in 0..n : P[k]
    <3> HIDE DEF P
    <3>1. QED BY <1>1, <2>1, <2>2, UpTo
  <2>4. QED BY <2>3
<1>6. \A k \in 0..n : ToSet(met[k]) \subseteq ToSet(met[n])
  <2> DEFINE P == [d \in 0..n |-> ToSet(met[n - d]) \subseteq ToSet(met[n])]
  <2>1. P[0]
    <3>1. n - 0 = n
      BY <1>1
    <3>2. QED BY <1>1, <3>1, Zenon
  <2>2. \A d \in 1..n : P[d - 1] => P[d]
    <3> TAKE d \in 1..n
    <3>1. n - d \in 0..n /\ n - d + 1 \in 1..n /\ (n - d + 1) - 1 = n - d /\ d \in 0..n
          /\ d - 1 \in 0..n /\ n - (d - 1) = n - d + 1
      BY <1>1
    <3>2. ToSet(met[n - d]) \subseteq ToSet(met[n - d + 1])
      BY <1>3, <1>4, <1>5, <3>1
    <3>3. QED BY <3>1, <3>2
  <2>3. \A d \in 0..n : P[d]
    <3> HIDE DEF P
    <3>1. QED BY <1>1, <2>1, <2>2, UpTo
  <2>4. \A k \in 0..n : n - k \in 0..n /\ n - (n - k) = k
    BY <1>1
  <2>5. QED BY <2>3, <2>4
<1>7. QED BY <1>3, <1>5, <1>6 DEF n, V

\* A chain is a sequence of numbers of the file.
LEMMA ChainFacts ==
  ASSUME NEW next, Len(next) \in Nat, NEW start
  PROVE  Chain(next, start) \in Seq(0..(Len(next) - 1))
<1>1. PICK met : Meets(next, start, met, Len(next)) /\ Chain(next, start) = met[Len(next)]
  BY ChainMeets
<1>2. Len(next) \in 0..Len(next)
  OBVIOUS
<1>3. QED BY <1>1, <1>2, MeetsFacts

\* It depends only on what follows the numbers that are in it.
LEMMA ChainSame ==
  ASSUME NEW next, Len(next) \in Nat, NEW start,
         NEW other, Len(other) = Len(next),
         \A s \in ToSet(Chain(next, start)) : other[s + 1] = next[s + 1]
  PROVE  Chain(other, start) = Chain(next, start)
<1> DEFINE n == Len(next)
<1>1. PICK met : Meets(next, start, met, n) /\ Chain(next, start) = met[n]
  BY ChainMeets
<1>2. PICK too : Meets(other, start, too, n) /\ Chain(other, start) = too[n]
  BY ChainMeets
<1>3. /\ met[0] = <<>> /\ \A k \in 1..n : met[k] = Extended(next, start, met[k - 1])
      /\ \A k \in 0..n : met[k] \in Seq(0..(n - 1)) /\ ToSet(met[k]) \subseteq ToSet(met[n])
  BY <1>1, MeetsFacts
<1>4. too[0] = <<>> /\ \A k \in 1..n : too[k] = Extended(other, start, too[k - 1])
  BY <1>2, MeetsFacts
<1>5. ASSUME NEW k \in 0..n PROVE Extended(other, start, met[k]) = Extended(next, start, met[k])
  <2>1. CASE met[k] = <<>>
    BY <2>1, Zenon DEF Extended
  <2>2. CASE met[k] # <<>>
    <3>1. Last(met[k]) \in ToSet(met[k])
      BY <1>3, <1>5, <2>2 DEF Last, ToSet
    <3>2. other[Last(met[k]) + 1] = next[Last(met[k]) + 1]
      BY <1>1, <1>3, <3>1
    <3>3. QED BY <3>2, <2>2, Zenon DEF Extended
  <2>3. QED BY <2>1, <2>2
<1> HIDE DEF n
<1>6. n \in Nat
  BY DEF n
<1> DEFINE P == [k \in 0..n |-> too[k] = met[k]]
<1>7. P[0]
  <2>1. 0 \in 0..n
    BY <1>6
  <2>2. QED BY <1>3, <1>4, <2>1, Zenon
<1>8. \A k \in 1..n : P[k - 1] => P[k]
  <2> TAKE k \in 1..n
  <2>1. k \in 0..n /\ k - 1 \in 0..n
    BY <1>6
  <2>2. QED BY <1>3, <1>4, <1>5, <2>1
<1>9. \A k \in 0..n : P[k]
  <2> HIDE DEF P
  <2>1. QED BY <1>6, <1>7, <1>8, UpTo
<1>10. n \in 0..n
  BY <1>6
<1>11. QED BY <1>1, <1>2, <1>9, <1>10

-----------------------------------------------------------------------------
(* Edits of a QCN file. *)

\* The entry an edit in place finds in what FILE held, and what it makes of it.
FoundEntry == LET c == CompoundFile(was) IN c.dir[Min(Found(c))]
EditOf(f) == /\ Readable(was) /\ Found(CompoundFile(was)) # {} /\ FoundEntry.size = job.len
             /\ f = Overwritten(was, FoundEntry, Value(job.len))

IsContainer(f) ==
  f = [numFat |-> f.numFat, firstDir |-> f.firstDir, firstMini |-> f.firstMini, numMini |-> f.numMini,
       firstDifat |-> f.firstDifat, difat |-> f.difat, sectors |-> f.sectors]

\* Before the file is opened nothing has happened to FILE.
UnopenedInv ==
  /\ job.toOut => qcn = was
  /\ step \in {"confirm", "load", "copy", "copying", "find", "open"} => qcn = was
  /\ step = "load" => job.rebuild
  /\ step \in {"copy", "copying", "find"} => ~job.rebuild
  /\ step \in {"copy", "copying"} => job.toOut
  /\ step = "find" => Target = was

\* What is held, and later written, is FILE with a stream overwritten.
EditInv ==
  /\ step # "idle" => told = "none"
  /\ ~job.rebuild => /\ step \in {"open", "write"} => EditOf(held)
                     /\ told = "done" => EditOf(Target)
                     /\ told = "refused" => qcn = was

ContainerInv ==
  /\ Readable(qcn) => IsContainer(qcn)
  /\ Readable(was) => IsContainer(was)

JobInv == step # "idle" \/ told # "none" => job \in Job

QcnInv == UnopenedInv /\ EditInv /\ ContainerInv /\ JobInv
-----------------------------------------------------------------------------
LEMMA LayoutIsContainer ==
  ASSUME NEW tree, NEW placing
  PROVE  IsContainer(Layout(tree, placing))
<1>1. ASSUME NEW bigs, NEW mini, NEW lens, NEW fats, NEW difats, NEW place
      PROVE  IsContainer(Container(tree, bigs, mini, lens, fats, difats, place))
  BY DEF Container, IsContainer
<1>2. QED BY <1>1, Zenon DEF Layout, Allocated

LEMMA OverwrittenIsContainer ==
  ASSUME NEW f, IsContainer(f), NEW e, NEW v
  PROVE  IsContainer(Overwritten(f, e, v))
<1>1. ASSUME NEW x PROVE IsContainer([f EXCEPT !.sectors = x])
  BY DEF IsContainer
<1>2. QED BY <1>1, Zenon DEF Overwritten, WrittenAt

\* g is the container f with nothing changed but units of its stream e, which
\* hold the value v.
OnlyStream(f, e, v, g) ==
  LET at == Units(CompoundFile(f), e)
  IN  /\ [g EXCEPT !.sectors = <<>>] = [f EXCEPT !.sectors = <<>>]
      /\ DOMAIN g.sectors = DOMAIN f.sectors
      /\ \A s \in DOMAIN f.sectors :
           /\ DOMAIN g.sectors[s] = DOMAIN f.sectors[s]
           /\ \A u \in DOMAIN f.sectors[s] :
                IF <<s - 1, u - 1>> \in {at[k] : k \in 1..e.size}
                THEN \E k \in 1..e.size : at[k] = <<s - 1, u - 1>> /\ g.sectors[s][u] = v[k]
                ELSE g.sectors[s][u] = f.sectors[s][u]

LEMMA OverwrittenUnits ==
  ASSUME NEW f, IsContainer(f), NEW e, e.size \in Nat, NEW v
  PROVE  OnlyStream(f, e, v, Overwritten(f, e, v))
<1> DEFINE at == Units(CompoundFile(f), e)
           new == Overwritten(f, e, v)
           Here(s, u) == {k \in DOMAIN at : at[k] = <<s - 1, u - 1>>}
<1>1. DOMAIN at = 1..e.size
  BY DEF Units
<1> HIDE DEF at
<1>2. new = [f EXCEPT !.sectors =
               [s \in DOMAIN f.sectors |->
                  [u \in DOMAIN f.sectors[s] |->
                     IF Here(s, u) = {} THEN f.sectors[s][u] ELSE v[Max(Here(s, u))]]]]
  BY DEF Overwritten, WrittenAt, at
<1> HIDE DEF new
<1>3. /\ [new EXCEPT !.sectors = <<>>] = [f EXCEPT !.sectors = <<>>]
      /\ new.sectors = [s \in DOMAIN f.sectors |->
                          [u \in DOMAIN f.sectors[s] |->
                             IF Here(s, u) = {} THEN f.sectors[s][u] ELSE v[Max(Here(s, u))]]]
  BY <1>2 DEF IsContainer
<1>4. ASSUME NEW s \in DOMAIN f.sectors, NEW u \in DOMAIN f.sectors[s]
      PROVE  IF <<s - 1, u - 1>> \in {at[k] : k \in 1..e.size}
             THEN \E k \in 1..e.size : at[k] = <<s - 1, u - 1>> /\ new.sectors[s][u] = v[k]
             ELSE new.sectors[s][u] = f.sectors[s][u]
  <2> DEFINE H == Here(s, u)
  <2>1. H \subseteq 0..e.size /\ H \subseteq 1..e.size
    BY <1>1
  <2>2. \A k \in 1..e.size : k \in H <=> at[k] = <<s - 1, u - 1>>
    BY <1>1
  <2>3. new.sectors[s][u] = IF H = {} THEN f.sectors[s][u] ELSE v[Max(H)]
    BY <1>3, <1>4
  <2> HIDE DEF H, Here
  <2>4. CASE H = {}
    BY <2>2, <2>3, <2>4
  <2>5. CASE H # {}
    <3>1. Max(H) \in H
      BY <2>1, <2>5, MaxFacts
    <3>2. QED BY <2>1, <2>2, <2>3, <2>5, <3>1
  <2>6. QED BY <2>4, <2>5
<1>5. DOMAIN new.sectors = DOMAIN f.sectors /\ \A s \in DOMAIN f.sectors : DOMAIN new.sectors[s] = DOMAIN f.sectors[s]
  BY <1>3
<1>6. QED BY <1>3, <1>4, <1>5, Zenon DEF OnlyStream, at, new

(* What an edit in place leaves of a sound container. *)

LEMMA OverwrittenShape ==
  ASSUME NEW f, IsContainer(f), NEW e, NEW v
  PROVE  LET new == Overwritten(f, e, v).sectors
         IN  /\ new = [s \in DOMAIN f.sectors |-> new[s]]
             /\ \A s \in DOMAIN f.sectors : new[s] = [u \in DOMAIN f.sectors[s] |-> new[s][u]]
<1> DEFINE at == Units(CompoundFile(f), e)
           Here(s, u) == {k \in DOMAIN at : at[k] = <<s - 1, u - 1>>}
           Unit(s, u) == IF Here(s, u) = {} THEN f.sectors[s][u] ELSE v[Max(Here(s, u))]
           new == Overwritten(f, e, v).sectors
<1>1. Overwritten(f, e, v) =
        [f EXCEPT !.sectors = [s \in DOMAIN f.sectors |-> [u \in DOMAIN f.sectors[s] |-> Unit(s, u)]]]
  BY DEF Overwritten, WrittenAt
<1> HIDE DEF Unit, at
<1>2. new = [s \in DOMAIN f.sectors |-> [u \in DOMAIN f.sectors[s] |-> Unit(s, u)]]
  BY <1>1 DEF IsContainer
<1>3. QED BY <1>2

\* f and g are containers of sequences of the same lengths, alike in the tables of f.
Alike(f, g) ==
  LET tables == Tables(f, CompoundFile(f))
  IN  /\ IsContainer(f) /\ IsContainer(g)
      /\ [g EXCEPT !.sectors = <<>>] = [f EXCEPT !.sectors = <<>>]
      /\ IsSequence(f.sectors) /\ IsSequence(g.sectors) /\ Len(g.sectors) = Len(f.sectors)
      /\ \A s \in DOMAIN f.sectors : /\ IsSequence(f.sectors[s]) /\ IsSequence(g.sectors[s])
                                     /\ Len(g.sectors[s]) = Len(f.sectors[s])
      /\ tables \subseteq 0..(Len(f.sectors) - 1)
      /\ \A t \in tables : g.sectors[t + 1] = f.sectors[t + 1]

LEMMA SequenceFacts ==
  ASSUME NEW s, IsSequence(s)
  PROVE  Len(s) \in Nat /\ DOMAIN s = 1..Len(s) /\ s \in Seq({s[k] : k \in DOMAIN s})
<1> DEFINE n == Len(s)
<1>1. n \in Nat /\ s = [k \in 1..n |-> s[k]]
  BY DEF IsSequence
<1>2. DOMAIN s = 1..n
  BY <1>1, Zenon
<1> HIDE DEF n
<1>3. s \in Seq({s[k] : k \in DOMAIN s})
  BY <1>1, <1>2
<1>4. QED BY <1>1, <1>2, <1>3 DEF n

LEMMA AlikeHeader ==
  ASSUME NEW f, NEW g, Alike(f, g)
  PROVE  /\ g.numFat = f.numFat /\ g.firstDir = f.firstDir /\ g.firstMini = f.firstMini
         /\ g.numMini = f.numMini /\ g.firstDifat = f.firstDifat /\ g.difat = f.difat
<1> DEFINE h == [f EXCEPT !.sectors = <<>>]
           k == [g EXCEPT !.sectors = <<>>]
<1>1. h = k
  BY Zenon DEF Alike
<1>2. /\ h.numFat = f.numFat /\ h.firstDir = f.firstDir /\ h.firstMini = f.firstMini
      /\ h.numMini = f.numMini /\ h.firstDifat = f.firstDifat /\ h.difat = f.difat
  BY DEF Alike, IsContainer
<1>3. /\ k.numFat = g.numFat /\ k.firstDir = g.firstDir /\ k.firstMini = g.firstMini
      /\ k.numMini = g.numMini /\ k.firstDifat = g.firstDifat /\ k.difat = g.difat
  BY DEF Alike, IsContainer
<1> HIDE DEF h, k
<1>4. QED BY <1>1, <1>2, <1>3

LEMMA AlikeDifat ==
  ASSUME NEW f, NEW g, Alike(f, g)
  PROVE  DifatChain(g) = DifatChain(f) /\ DifatChain(f) \in Seq(ToSet(DifatChain(f)))
<1> DEFINE n == Len(f.sectors)
           next == [s \in DOMAIN f.sectors |-> Last(f.sectors[s])]
           other == [s \in DOMAIN g.sectors |-> Last(g.sectors[s])]
<1>1. n \in Nat /\ DOMAIN f.sectors = 1..n /\ DOMAIN g.sectors = 1..n
  BY SequenceFacts DEF Alike
<1>2. next = [s \in 1..n |-> next[s]] /\ other = [s \in 1..n |-> other[s]]
  BY <1>1
<1>3. DifatChain(f) = Chain(next, f.firstDifat) /\ DifatChain(g) = Chain(other, f.firstDifat)
  BY AlikeHeader DEF DifatChain
<1>4. \A t \in ToSet(DifatChain(f)) : t \in 0..(n - 1) /\ g.sectors[t + 1] = f.sectors[t + 1]
  BY DEF Alike, Tables
<1>5. \A t \in 0..(n - 1) : g.sectors[t + 1] = f.sectors[t + 1] => other[t + 1] = next[t + 1]
  BY <1>1
<1> HIDE DEF n, next, other
<1>6. Len(next) = n /\ Len(other) = n
  BY <1>1, <1>2
<1>7. Chain(other, f.firstDifat) = Chain(next, f.firstDifat)
  BY <1>1, <1>3, <1>4, <1>5, <1>6, ChainSame
<1>8. Chain(next, f.firstDifat) \in Seq(0..(n - 1))
  BY <1>1, <1>6, ChainFacts
<1>9. DifatChain(f) \in Seq(ToSet(DifatChain(f)))
  BY <1>3, <1>8 DEF ToSet
<1>10. QED BY <1>3, <1>7, <1>9

LEMMA AlikeSectors ==
  ASSUME NEW f, NEW g, Alike(f, g), NEW chain, ToSet(chain) \subseteq Tables(f, CompoundFile(f))
  PROVE  Sectors(g, chain) = Sectors(f, chain)
<1>1. \A k \in DOMAIN chain : g.sectors[chain[k] + 1] = f.sectors[chain[k] + 1]
  BY Zenon DEF Alike, ToSet
<1>2. [k \in DOMAIN chain |-> g.sectors[chain[k] + 1]] = [k \in DOMAIN chain |-> f.sectors[chain[k] + 1]]
  BY <1>1
<1>3. QED BY <1>2, Zenon DEF Sectors

LEMMA AlikeFat ==
  ASSUME NEW f, NEW g, Alike(f, g)
  PROVE  FatSectors(g) = FatSectors(f)
<1> DEFINE d == DifatChain(f)
           More(h) == [k \in DOMAIN d |-> Used(Front(h.sectors[d[k] + 1]))]
<1>1. \A k \in DOMAIN d : g.sectors[d[k] + 1] = f.sectors[d[k] + 1]
  BY Zenon DEF Alike, ToSet, Tables
<1>2. More(g) = More(f)
  <2>1. \A k \in DOMAIN d : Used(Front(g.sectors[d[k] + 1])) = Used(Front(f.sectors[d[k] + 1]))
    BY <1>1, Zenon
  <2>2. QED BY <2>1, Zenon
<1>3. DifatChain(g) = d /\ g.difat = f.difat /\ g.numFat = f.numFat
  BY AlikeDifat, AlikeHeader
<1>4. FatSectors(f) = Take(Used(f.difat) \o FlattenSeq(More(f)), f.numFat)
  BY Zenon DEF FatSectors
<1>5. FatSectors(g) = Take(Used(f.difat) \o FlattenSeq(More(g)), f.numFat)
  BY <1>3, Zenon DEF FatSectors
<1>6. QED BY <1>2, <1>4, <1>5, Zenon

\* They have the same FAT, directory and mini FAT.
LEMMA AlikeTables ==
  ASSUME NEW f, NEW g, Alike(f, g)
  PROVE  LET c == CompoundFile(f)
             d == CompoundFile(g)
         IN  /\ d.fat = c.fat /\ d.dir = c.dir /\ d.minifat = c.minifat /\ d.ministream = c.ministream
             /\ c.sectors = f.sectors /\ d.sectors = g.sectors
             /\ Tables(g, d) = Tables(f, c)
<1> DEFINE c == CompoundFile(f)
           d == CompoundFile(g)
           dirs(h) == Chain(CompoundFile(h).fat, h.firstDir)
           minis(h) == Chain(CompoundFile(h).fat, h.firstMini)
<1>1. \A h : LET k == CompoundFile(h)
             IN  /\ k.sectors = h.sectors /\ k.fat = Sectors(h, FatSectors(h)) /\ k.dir = Sectors(h, dirs(h))
                 /\ k.ministream = Chain(k.fat, k.dir[1].start)
                 /\ k.minifat = IF h.numMini = 0 THEN <<>> ELSE Sectors(h, minis(h))
  BY DEF CompoundFile
<1>2. /\ g.firstDir = f.firstDir /\ g.firstMini = f.firstMini /\ g.numMini = f.numMini
      /\ FatSectors(g) = FatSectors(f) /\ DifatChain(g) = DifatChain(f)
  BY AlikeHeader, AlikeFat, AlikeDifat
<1>3. /\ ToSet(FatSectors(f)) \subseteq Tables(f, c) /\ ToSet(dirs(f)) \subseteq Tables(f, c)
      /\ f.numMini # 0 => ToSet(minis(f)) \subseteq Tables(f, c)
  BY DEF Tables
<1> HIDE DEF c, d, dirs, minis
<1>4. d.fat = c.fat
  BY <1>1, <1>2, <1>3, AlikeSectors DEF c, d
<1>5. dirs(g) = dirs(f) /\ minis(g) = minis(f)
  BY <1>2, <1>4 DEF c, d, dirs, minis
<1>6. d.dir = c.dir
  BY <1>1, <1>3, <1>5, AlikeSectors DEF c, d
<1>7. d.minifat = c.minifat
  BY <1>1, <1>2, <1>3, <1>5, AlikeSectors DEF c, d
<1>8. d.ministream = c.ministream
  BY <1>1, <1>4, <1>6 DEF c, d
<1>9. Tables(g, d) = Tables(f, c)
  BY <1>2, <1>4 DEF Tables
<1>10. QED BY <1>1, <1>4, <1>6, <1>7, <1>8, <1>9 DEF c, d

LEMMA AlikeUnits ==
  ASSUME NEW f, NEW g, Alike(f, g), NEW e
  PROVE  Units(CompoundFile(g), e) = Units(CompoundFile(f), e)
<1>1. ASSUME NEW c, NEW d, d.fat = c.fat, d.minifat = c.minifat, d.ministream = c.ministream
      PROVE  Units(d, e) = Units(c, e)
  BY <1>1, Zenon DEF Units
<1>2. QED BY <1>1, AlikeTables

LEMMA OverwrittenAlike ==
  ASSUME NEW f, IsContainer(f), Sound(f), NEW i \in Streams(CompoundFile(f)),
         NEW e, e = CompoundFile(f).dir[i], e.size \in Nat, NEW v
  PROVE  Alike(f, Overwritten(f, e, v))
<1> DEFINE g == Overwritten(f, e, v)
           c == CompoundFile(f)
           tables == Tables(f, c)
           at == Units(c, e)
<1>1. /\ IsContainer(g) /\ OnlyStream(f, e, v, g)
      /\ g.sectors = [s \in DOMAIN f.sectors |-> g.sectors[s]]
      /\ \A s \in DOMAIN f.sectors : g.sectors[s] = [u \in DOMAIN f.sectors[s] |-> g.sectors[s][u]]
  BY OverwrittenIsContainer, OverwrittenUnits, OverwrittenShape
<1>2. /\ IsSequence(f.sectors) /\ \A s \in DOMAIN f.sectors : IsSequence(f.sectors[s])
      /\ tables \subseteq 0..(Len(f.sectors) - 1)
      /\ \A p \in Places(c, i) : p[1] \notin tables
  BY DEF Sound
<1>3. \A k \in 1..e.size : at[k] \in Places(c, i)
  BY DEF Places, ToSet, Units
<1> HIDE DEF g, c, tables, at
<1>4. ASSUME NEW s, IsSequence(s), NEW t, t = [k \in DOMAIN s |-> t[k]]
      PROVE  IsSequence(t) /\ Len(t) = Len(s)
  <2>1. Len(s) \in Nat /\ DOMAIN s = 1..Len(s)
    BY <1>4, SequenceFacts
  <2>2. t = [k \in 1..Len(s) |-> t[k]]
    BY <1>4, <2>1
  <2>3. Len(t) = Len(s)
    BY <2>1, <2>2
  <2>4. QED BY <2>1, <2>2, <2>3 DEF IsSequence
<1>5. /\ IsSequence(g.sectors) /\ Len(g.sectors) = Len(f.sectors)
      /\ \A s \in DOMAIN f.sectors : IsSequence(g.sectors[s]) /\ Len(g.sectors[s]) = Len(f.sectors[s])
  BY <1>1, <1>2, <1>4
<1>6. ASSUME NEW t \in tables PROVE g.sectors[t + 1] = f.sectors[t + 1]
  <2>1. DOMAIN f.sectors = 1..Len(f.sectors) /\ Len(f.sectors) \in Nat
    BY <1>2, SequenceFacts
  <2>2. t + 1 \in DOMAIN f.sectors /\ (t + 1) - 1 = t
    BY <1>2, <2>1
  <2> DEFINE s == t + 1
  <2> HIDE DEF s
  <2>3. s \in DOMAIN f.sectors /\ s - 1 = t
    BY <2>2 DEF s
  <2>4. ASSUME NEW u \in DOMAIN f.sectors[s] PROVE g.sectors[s][u] = f.sectors[s][u]
    <3>1. <<s - 1, u - 1>> \notin {at[k] : k \in 1..e.size}
      <4> SUFFICES ASSUME NEW k \in 1..e.size, at[k] = <<s - 1, u - 1>> PROVE FALSE
        OBVIOUS
      <4>1. at[k][1] = t
        BY <2>3
      <4>2. QED BY <1>2, <1>3, <4>1
    <3>2. QED BY <1>1, <2>3, <3>1 DEF OnlyStream, at, c
  <2>5. f.sectors[s] = [u \in DOMAIN f.sectors[s] |-> f.sectors[s][u]]
    <3>1. IsSequence(f.sectors[s])
      BY <1>2, <2>3
    <3>2. DOMAIN f.sectors[s] = 1..Len(f.sectors[s])
      BY <3>1, SequenceFacts
    <3>3. QED BY <3>1, <3>2, Zenon DEF IsSequence
  <2>6. g.sectors[s] = f.sectors[s]
    BY <1>1, <2>3, <2>4, <2>5
  <2>7. QED BY <2>6 DEF s
<1>7. [g EXCEPT !.sectors = <<>>] = [f EXCEPT !.sectors = <<>>]
  BY <1>1, Zenon DEF OnlyStream
<1>8. QED BY <1>1, <1>2, <1>5, <1>6, <1>7, Zenon DEF Alike, g, c, tables

\* A stream whose units are all different is where a value of its length reads back.
LEMMA PlacesDiffer ==
  ASSUME NEW c, NEW e, e.size \in Nat, Cardinality(ToSet(Units(c, e))) = e.size
  PROVE  \A k, l \in 1..e.size : Units(c, e)[k] = Units(c, e)[l] => k = l
<1> DEFINE at == Units(c, e)
           D == 1..e.size
<1>1. DOMAIN at = D /\ at = [k \in D |-> at[k]]
  BY DEF Units
<1>2. IsFiniteSet(D) /\ Cardinality(D) = e.size
  BY FS_Interval
<1>3. ToSet(at) = {at[k] : k \in D}
  BY <1>1 DEF ToSet
<1> HIDE DEF at
<1>4. at \in Surjection(D, ToSet(at))
  <2>1. at \in [D -> ToSet(at)]
    BY <1>1, <1>3
  <2>2. QED BY <1>3, <2>1 DEF Surjection
<1>5. IsFiniteSet(ToSet(at))
  BY <1>2, <1>4, FS_Surjection
<1>6. at \in Injection(D, ToSet(at))
  BY <1>2, <1>4, <1>5, FS_SurjSameCardinalityImpliesInj DEF at
<1>7. \A k, l \in DOMAIN at : at[k] = at[l] => k = l
  BY <1>6, Zenon DEF Injection, IsInjective
<1>8. QED BY <1>1, <1>7 DEF at

\* What reads back after an edit in place.
LEMMA OverwrittenReads ==
  ASSUME NEW f, IsContainer(f), Sound(f), NEW i \in Streams(CompoundFile(f)),
         NEW e, e = CompoundFile(f).dir[i], e.size \in Nat, NEW v, v = [k \in 1..e.size |-> v[k]],
         NEW j \in Streams(CompoundFile(f))
  PROVE  LET c == CompoundFile(f)
             d == CompoundFile(Overwritten(f, e, v))
         IN  ReadEntry(d, c.dir[j]) = IF j = i THEN v ELSE ReadEntry(c, c.dir[j])
<1> DEFINE g == Overwritten(f, e, v)
           c == CompoundFile(f)
           d == CompoundFile(g)
           at == Units(c, e)
           to == Units(c, c.dir[j])
<1>1. Alike(f, g) /\ OnlyStream(f, e, v, g)
  BY OverwrittenAlike, OverwrittenUnits
<1>2. /\ d.sectors = g.sectors /\ c.sectors = f.sectors /\ Units(d, c.dir[j]) = to
  BY <1>1, AlikeTables, AlikeUnits
<1>3. /\ ReadEntry(d, c.dir[j]) = [k \in DOMAIN to |-> g.sectors[to[k][1] + 1][to[k][2] + 1]]
      /\ ReadEntry(c, c.dir[j]) = [k \in DOMAIN to |-> f.sectors[to[k][1] + 1][to[k][2] + 1]]
  BY <1>2 DEF ReadEntry
<1>4. /\ \A s \in DOMAIN f.sectors : IsSequence(f.sectors[s])
      /\ IsSequence(f.sectors)
      /\ Cardinality(Places(c, i)) = e.size
      /\ \A p \in Places(c, j) : /\ p[1] \in 0..(Len(f.sectors) - 1)
                                 /\ p[2] \in 0..(Len(f.sectors[p[1] + 1]) - 1)
      /\ j # i => Places(c, i) \cap Places(c, j) = {}
  BY DEF Sound
<1>5. Places(c, j) = ToSet(to) /\ Places(c, i) = ToSet(at)
  BY DEF Places
<1>6. DOMAIN at = 1..e.size
  BY DEF Units
<1>7. /\ DOMAIN to = 1..c.dir[j].size
      /\ \A k \in DOMAIN to : to[k] = <<to[k][1], to[k][2]>>
  BY SizesAssumption DEF Units
<1>8. \A k \in DOMAIN to : to[k] \in ToSet(to)
  BY DEF ToSet
<1>9. \A s \in DOMAIN f.sectors : \A u \in DOMAIN f.sectors[s] :
        IF <<s - 1, u - 1>> \in {at[k] : k \in 1..e.size}
        THEN \E k \in 1..e.size : at[k] = <<s - 1, u - 1>> /\ g.sectors[s][u] = v[k]
        ELSE g.sectors[s][u] = f.sectors[s][u]
  BY <1>1 DEF OnlyStream
<1>10. ASSUME NEW k \in DOMAIN to
       PROVE  /\ to[k] = <<(to[k][1] + 1) - 1, (to[k][2] + 1) - 1>>
              /\ to[k][1] + 1 \in DOMAIN f.sectors
              /\ to[k][2] + 1 \in DOMAIN f.sectors[to[k][1] + 1]
  <2>1. to[k] \in Places(c, j)
    BY <1>5, <1>8
  <2> DEFINE x == to[k][1]
             y == to[k][2]
  <2>2. x \in 0..(Len(f.sectors) - 1) /\ y \in 0..(Len(f.sectors[x + 1]) - 1) /\ to[k] = <<x, y>>
    BY <1>4, <1>7, <2>1
  <2>3. DOMAIN f.sectors = 1..Len(f.sectors) /\ Len(f.sectors) \in Nat
    BY <1>4, SequenceFacts
  <2> HIDE DEF x, y
  <2>4. x + 1 \in DOMAIN f.sectors /\ (x + 1) - 1 = x
    BY <2>2, <2>3
  <2>5. DOMAIN f.sectors[x + 1] = 1..Len(f.sectors[x + 1]) /\ Len(f.sectors[x + 1]) \in Nat
    BY <1>4, <2>4, SequenceFacts
  <2>6. y + 1 \in DOMAIN f.sectors[x + 1] /\ (y + 1) - 1 = y
    BY <2>2, <2>5
  <2>7. QED BY <2>2, <2>4, <2>6 DEF x, y
<1>11. CASE j = i
  <2>1. to = at
    BY <1>11
  <2>2. \A k, l \in 1..e.size : at[k] = at[l] => k = l
    BY <1>4, <1>5, PlacesDiffer
  <2> HIDE DEF g, c, d, at, to
  <2>3. ASSUME NEW k \in 1..e.size PROVE g.sectors[to[k][1] + 1][to[k][2] + 1] = v[k]
    <3> DEFINE s == to[k][1] + 1
               u == to[k][2] + 1
    <3>1. at[k] = <<s - 1, u - 1>> /\ s \in DOMAIN f.sectors /\ u \in DOMAIN f.sectors[s]
      BY <1>6, <1>10, <2>1
    <3> HIDE DEF s, u
    <3> DEFINE p == <<s - 1, u - 1>>
    <3> HIDE DEF p
    <3>2. p \in {at[m] : m \in 1..e.size}
      BY <3>1 DEF p
    <3>3. PICK l \in 1..e.size : at[l] = <<s - 1, u - 1>> /\ g.sectors[s][u] = v[l]
      BY <1>9, <3>1, <3>2, Zenon DEF p
    <3>4. l = k
      BY <2>2, <3>1, <3>3
    <3>5. QED BY <3>3, <3>4 DEF s, u
  <2>4. [k \in DOMAIN to |-> g.sectors[to[k][1] + 1][to[k][2] + 1]] = v
    BY <1>6, <2>1, <2>3
  <2>5. QED BY <1>3, <1>11, <2>4 DEF g, c, d
<1>12. CASE j # i
  <2> HIDE DEF g, c, d, at, to
  <2>1. ASSUME NEW k \in DOMAIN to
        PROVE  g.sectors[to[k][1] + 1][to[k][2] + 1] = f.sectors[to[k][1] + 1][to[k][2] + 1]
    <3> DEFINE s == to[k][1] + 1
               u == to[k][2] + 1
    <3>1. to[k] = <<s - 1, u - 1>> /\ s \in DOMAIN f.sectors /\ u \in DOMAIN f.sectors[s]
      BY <1>10
    <3> HIDE DEF s, u
    <3>2. to[k] \notin ToSet(at)
      BY <1>4, <1>5, <1>8, <1>12
    <3>3. <<s - 1, u - 1>> \notin {at[l] : l \in 1..e.size}
      BY <1>6, <3>1, <3>2 DEF ToSet
    <3>4. g.sectors[s][u] = f.sectors[s][u]
      BY <1>9, <3>1, <3>3
    <3>5. QED BY <3>4 DEF s, u
  <2>2. QED BY <1>3, <1>12, <2>1 DEF g, c, d
<1>13. QED BY <1>11, <1>12

\* An edit in place of a sound container leaves a sound container.
LEMMA OverwrittenIsSound ==
  ASSUME NEW f, IsContainer(f), Sound(f), NEW i \in Streams(CompoundFile(f)),
         NEW e, e = CompoundFile(f).dir[i], e.size \in Nat, NEW v
  PROVE  Sound(Overwritten(f, e, v))
<1> DEFINE g == Overwritten(f, e, v)
           c == CompoundFile(f)
           d == CompoundFile(g)
<1>1. Alike(f, g)
  BY OverwrittenAlike
<1> HIDE DEF g
<1>2. d.dir = c.dir /\ Tables(g, d) = Tables(f, c) /\ \A x : Units(d, x) = Units(c, x)
  BY <1>1, AlikeTables, AlikeUnits
<1> HIDE DEF c, d
<1>3. Streams(d) = Streams(c) /\ \A j : Places(d, j) = Places(c, j)
  BY <1>2, Zenon DEF Streams, Places
<1>4. /\ IsSequence(f.sectors) /\ IsSequence(g.sectors) /\ Len(g.sectors) = Len(f.sectors)
      /\ \A s \in DOMAIN f.sectors : IsSequence(g.sectors[s]) /\ Len(g.sectors[s]) = Len(f.sectors[s])
  BY <1>1 DEF Alike
<1>5. /\ DOMAIN f.sectors = 1..Len(f.sectors) /\ DOMAIN g.sectors = 1..Len(f.sectors)
      /\ Len(f.sectors) \in Nat
  BY <1>4, SequenceFacts
<1>6. /\ IsSequence(c.dir) /\ Tables(f, c) \subseteq 0..(Len(f.sectors) - 1)
      /\ \A j \in Streams(c) :
           /\ Cardinality(Places(c, j)) = c.dir[j].size
           /\ \A at \in Places(c, j) : /\ at[1] \in 0..(Len(f.sectors) - 1)
                                       /\ at[2] \in 0..(Len(f.sectors[at[1] + 1]) - 1)
                                       /\ at[1] \notin Tables(f, c)
           /\ \A k \in Streams(c) \ {j} : Places(c, j) \cap Places(c, k) = {}
  BY DEF Sound, c
<1>7. \A s \in 0..(Len(f.sectors) - 1) : Len(g.sectors[s + 1]) = Len(f.sectors[s + 1])
  BY <1>4, <1>5
<1>8. \A j \in Streams(d) :
        /\ Cardinality(Places(d, j)) = d.dir[j].size
        /\ \A at \in Places(d, j) : /\ at[1] \in 0..(Len(g.sectors) - 1)
                                    /\ at[2] \in 0..(Len(g.sectors[at[1] + 1]) - 1)
                                    /\ at[1] \notin Tables(g, d)
        /\ \A k \in Streams(d) \ {j} : Places(d, j) \cap Places(d, k) = {}
  BY <1>2, <1>3, <1>4, <1>6, <1>7
<1>9. /\ IsSequence(d.dir) /\ IsSequence(g.sectors) /\ \A s \in DOMAIN g.sectors : IsSequence(g.sectors[s])
      /\ Tables(g, d) \subseteq 0..(Len(g.sectors) - 1)
  BY <1>2, <1>4, <1>5, <1>6
<1>10. Sound(g)
  BY <1>8, <1>9, Zenon DEF Sound, d
<1>11. QED BY <1>10 DEF g

LEMMA FoundIsStream ==
  ASSUME NEW f, Sound(f), Found(CompoundFile(f)) # {}
  PROVE  Min(Found(CompoundFile(f))) \in Streams(CompoundFile(f))
<1> DEFINE S == Found(CompoundFile(f))
<1>1. S \subseteq Streams(CompoundFile(f)) /\ S \subseteq DOMAIN CompoundFile(f).dir
  BY DEF Found, Streams
<1>2. IsSequence(CompoundFile(f).dir)
  BY DEF Sound
<1>3. S \in SUBSET Nat
  BY <1>1, <1>2, SequenceFacts
<1>4. QED BY <1>1, <1>3, MinFacts
-----------------------------------------------------------------------------
(* The edits. *)

LEMMA EditInitInv == EditInit => QcnInv
<1> SUFFICES ASSUME EditInit PROVE QcnInv
  OBVIOUS
<1>1. IsContainer(qcn)
  BY LayoutIsContainer DEF EditInit
<1>2. UnopenedInv /\ EditInv /\ ContainerInv
  BY <1>1 DEF EditInit, UnopenedInv, EditInv, ContainerInv
<1>3. QED BY <1>2 DEF QcnInv, JobInv, EditInit

\* Steps after which FILE is what it was.
LEMMA StartEditKeeps == ASSUME QcnInv, StartEdit PROVE QcnInv'
BY DEF QcnInv, StartEdit, UnopenedInv, EditInv, ContainerInv, JobInv, Readable, IsContainer

LEMMA ConfirmEditKeeps == ASSUME QcnInv, ConfirmEdit PROVE QcnInv'
BY DEF QcnInv, ConfirmEdit, UnopenedInv, EditInv, ContainerInv, JobInv, Readable, IsContainer, Target

LEMMA DeclineEditKeeps == ASSUME QcnInv, DeclineEdit PROVE QcnInv'
BY DEF QcnInv, DeclineEdit, EndEdit, UnopenedInv, EditInv, ContainerInv, JobInv, Readable, IsContainer

LEMMA LoadKeeps == ASSUME QcnInv, Load PROVE QcnInv'
<1> DEFINE ok == Readable(qcn) /\ ~ \E n \in ToSet(ToTree(qcn)) : n = Stream(<<NamedStorage>>, n.data)
<1>1. /\ step = "load" /\ UNCHANGED <<job, qcn, out, was, edits>>
      /\ \/ step' = "open" /\ UNCHANGED told
         \/ step' = "idle" /\ told' = "refused"
  BY DEF Load, EndEdit
<1>2. QED BY <1>1 DEF QcnInv, UnopenedInv, EditInv, ContainerInv, JobInv, Readable, IsContainer

LEMMA OpenKeeps == ASSUME QcnInv, Open PROVE QcnInv'
<1>1. step = "open" /\ step' = "write" /\ UNCHANGED <<job, held, told, was, edits>>
  BY DEF Open
<1>2. /\ job.toOut => qcn' = qcn
      /\ qcn' \in {qcn, Torn}
  BY DEF Open, Write
<1>3. ~job.rebuild => EditOf(held) /\ EditOf(held)'
  BY <1>1 DEF QcnInv, EditInv, EditOf, FoundEntry, Found, Value, Readable
<1>4. QED BY <1>1, <1>2, <1>3 DEF QcnInv, UnopenedInv, EditInv, ContainerInv, JobInv, Readable, IsContainer

LEMMA SaveFileKeeps == ASSUME QcnInv, SaveFile PROVE QcnInv'
<1>1. /\ step = "write" /\ step' = "idle" /\ UNCHANGED <<job, was, edits>>
      /\ job \in Job
  BY DEF SaveFile, EndEdit, QcnInv, JobInv
<1>2. CASE ~job.rebuild
  <2>1. Write(held) /\ told' = "done"
    BY <1>2 DEF SaveFile, EndEdit
  <2>2. EditOf(held)
    BY <1>1, <1>2 DEF QcnInv, EditInv
  <2>3. Target' = held
    BY <1>1, <2>1 DEF Write, Target
  <2>4. EditOf(Target)'
    BY <1>1, <2>2, <2>3 DEF EditOf, FoundEntry, Found, Value, Readable
  <2>5. IsContainer(held)
    BY <2>2, OverwrittenIsContainer DEF EditOf, QcnInv, ContainerInv
  <2>6. /\ job.toOut => qcn' = qcn
        /\ qcn' = qcn \/ qcn' = held
    BY <2>1 DEF Write
  <2>7. QED BY <1>1, <1>2, <2>1, <2>4, <2>5, <2>6
            DEF QcnInv, UnopenedInv, EditInv, ContainerInv, JobInv, Readable, IsContainer
<1>3. CASE job.rebuild
  <2>1. \/ told' = "refused" /\ qcn' = qcn
        \/ told' = "done" /\ Write(Serialize(held))
    BY <1>3 DEF SaveFile, EndEdit
  <2>2. IsContainer(Serialize(held))
    BY LayoutIsContainer DEF Serialize
  <2>3. /\ job.toOut => qcn' = qcn
        /\ qcn' = qcn \/ qcn' = Serialize(held)
    BY <2>1 DEF Write
  <2>4. QED BY <1>1, <1>3, <2>1, <2>2, <2>3
            DEF QcnInv, UnopenedInv, EditInv, ContainerInv, JobInv, Readable, IsContainer
<1>4. QED BY <1>2, <1>3

LEMMA CopyKeeps == ASSUME QcnInv, Copy \/ Copied PROVE QcnInv'
<1>1. /\ ~job.rebuild /\ job.toOut /\ qcn = was /\ step # "idle"
      /\ UNCHANGED <<job, qcn, told, was, edits>>
      /\ step' = "copying" \/ (step' = "find" /\ out' = qcn)
  BY DEF QcnInv, UnopenedInv, Copy, Copied
<1>2. QED BY <1>1 DEF QcnInv, UnopenedInv, EditInv, ContainerInv, JobInv, Readable, IsContainer, Target

LEMMA FindKeeps == ASSUME QcnInv, Find PROVE QcnInv'
<1>1. /\ step = "find" /\ ~job.rebuild /\ qcn = was /\ Target = was
      /\ UNCHANGED <<job, qcn, out, was, edits>>
  BY DEF Find, QcnInv, UnopenedInv
<1>2. \/ told' = "refused" /\ step' = "idle"
      \/ step' = "open" /\ UNCHANGED told /\ EditOf(held')
  BY <1>1 DEF Find, EndEdit, EditOf, FoundEntry
<1>3. EditOf(held') => EditOf(held)'
  BY <1>1 DEF EditOf, FoundEntry, Found, Value, Readable
<1>4. QED BY <1>1, <1>2, <1>3 DEF QcnInv, UnopenedInv, EditInv, ContainerInv, JobInv, Readable, IsContainer

LEMMA KillEditKeeps == ASSUME QcnInv, KillEdit PROVE QcnInv'
BY DEF QcnInv, KillEdit, EndEdit, UnopenedInv, EditInv, ContainerInv, JobInv, Readable, IsContainer

LEMMA QcnStep == QcnInv /\ [EditNext]_editVars => QcnInv'
<1> SUFFICES ASSUME QcnInv, [EditNext]_editVars PROVE QcnInv'
  OBVIOUS
<1>1. CASE UNCHANGED editVars
  <2>1. EditOf(held)' <=> EditOf(held)
    BY <1>1 DEF editVars, EditOf, FoundEntry, Found, Value, Readable
  <2>2. EditOf(Target)' <=> EditOf(Target)
    BY <1>1 DEF editVars, EditOf, FoundEntry, Found, Value, Readable, Target
  <2>3. Target' = Target
    BY <1>1 DEF editVars, Target
  <2>4. QED BY <1>1, <2>1, <2>2, <2>3
            DEF editVars, QcnInv, UnopenedInv, EditInv, ContainerInv, JobInv, Readable, IsContainer
<1>2. CASE EditNext
  BY <1>2, StartEditKeeps, ConfirmEditKeeps, DeclineEditKeeps, LoadKeeps, OpenKeeps, SaveFileKeeps,
     CopyKeeps, FindKeeps, KillEditKeeps DEF EditNext
<1>3. QED BY <1>1, <1>2

LEMMA QcnInductive == EditSpec => []QcnInv
BY EditInitInv, QcnStep, PTL DEF EditSpec
-----------------------------------------------------------------------------
\* An edit in place that is refused has not written FILE (qcn.py:448-471).
THEOREM RefusedInPlaceIsHarmless == EditSpec => []RefusedInPlaceKeepsFile
<1>1. QcnInv => RefusedInPlaceKeepsFile
  BY DEF QcnInv, EditInv, RefusedInPlaceKeepsFile
<1>2. QED BY <1>1, QcnInductive, PTL

\* With --out, however the command ends or dies, FILE is as it was found (cli.py:607-617).
OutKeepsFile == job.toOut => qcn = was

THEOREM OutLeavesFile == EditSpec => []OutKeepsFile
<1>1. QcnInv => OutKeepsFile
  BY DEF QcnInv, UnopenedInv, OutKeepsFile
<1>2. QED BY <1>1, QcnInductive, PTL

\* What an edit in place that succeeded has written, and where.
LEMMA DoneInPlace ==
  ASSUME QcnInv, told = "done", ~job.rebuild
  PROVE  /\ IsContainer(was) /\ Found(CompoundFile(was)) # {}
         /\ FoundEntry.size = job.len /\ job.len \in Nat
         /\ Target = Overwritten(was, FoundEntry, Value(job.len))
BY LengthsAssumption DEF QcnInv, EditInv, EditOf, ContainerInv, JobInv, Job


\* An edit in place that succeeded changed nothing of the container but units of
\* the stream it found, and filled these with the new value (qcn.py:465-468).
InPlaceOnlyOverwrites ==
  (told = "done" /\ ~job.rebuild) => OnlyStream(was, FoundEntry, Value(job.len), Target)

THEOREM InPlaceOnlyOverwritesIt == EditSpec => []InPlaceOnlyOverwrites
<1>1. QcnInv => InPlaceOnlyOverwrites
  <2> SUFFICES ASSUME QcnInv, told = "done", ~job.rebuild PROVE InPlaceOnlyOverwrites
    BY DEF InPlaceOnlyOverwrites
  <2> DEFINE e == FoundEntry
  <2>1. /\ Target = Overwritten(was, e, Value(job.len)) /\ IsContainer(was) /\ e.size \in Nat
    BY DoneInPlace
  <2> HIDE DEF e
  <2>2. OnlyStream(was, e, Value(job.len), Target)
    BY <2>1, OverwrittenUnits
  <2>3. QED BY <2>2 DEF InPlaceOnlyOverwrites, e
<1>2. QED BY <1>1, QcnInductive, PTL

\* A sound container edited in place keeps everything but the one stream: its
\* tables hold no unit of a stream, so they are read back as they were, and the
\* units of the stream are different ones and no other stream's (qcn.py:448-471).
THEOREM ContainerIsKept == EditSpec => []InPlaceKeepsContainer
<1>1. QcnInv => InPlaceKeepsContainer
  <2> SUFFICES ASSUME QcnInv, told = "done", ~job.rebuild, Sound(was) PROVE InPlaceKeepsContainer
    BY Zenon DEF InPlaceKeepsContainer
  <2> DEFINE e == FoundEntry
             v == Value(job.len)
             old == CompoundFile(was)
             new == CompoundFile(Target)
             found == Min(Found(old))
             place == Places(old, found)
             Changed(s) == {u \in DOMAIN was.sectors[s] : was.sectors[s][u] # Target.sectors[s][u]}
  <2>1. /\ IsContainer(was) /\ Found(old) # {} /\ e.size = job.len /\ e.size \in Nat
        /\ Target = Overwritten(was, e, v)
    BY DoneInPlace
  <2>2. found \in Streams(old) /\ e = old.dir[found]
    BY <2>1, FoundIsStream DEF FoundEntry
  <2>3. v = [k \in 1..e.size |-> v[k]]
    BY <2>1 DEF Value
  <2> HIDE DEF e, v
  <2>4. Alike(was, Target) /\ OnlyStream(was, e, v, Target)
    BY <2>1, <2>2, OverwrittenAlike, OverwrittenUnits
  <2>5. [Target EXCEPT !.sectors = <<>>] = [was EXCEPT !.sectors = <<>>]
    BY <2>4, Zenon DEF OnlyStream
  <2>6. \A s \in DOMAIN was.sectors : \A u \in Changed(s) : <<s - 1, u - 1>> \in place
    <3>1. place = {Units(old, e)[k] : k \in 1..e.size}
      <4>1. place = ToSet(Units(old, e)) /\ DOMAIN Units(old, e) = 1..e.size
        BY <2>2 DEF Places, Units
      <4>2. QED BY <4>1 DEF ToSet
    <3>2. \A s \in DOMAIN was.sectors : \A u \in DOMAIN was.sectors[s] :
            <<s - 1, u - 1>> \notin {Units(old, e)[k] : k \in 1..e.size}
              => Target.sectors[s][u] = was.sectors[s][u]
      BY <2>4, Zenon DEF OnlyStream
    <3>3. QED BY <3>1, <3>2, Zenon
  <2>7. new.dir = old.dir /\ new.fat = old.fat /\ new.minifat = old.minifat
    BY <2>4, AlikeTables
  <2>8. \A i \in Streams(old) : ReadEntry(new, new.dir[i]) = IF i = found THEN v ELSE ReadEntry(old, old.dir[i])
    <3> TAKE i \in Streams(old)
    <3>1. ReadEntry(new, old.dir[i]) = IF i = found THEN v ELSE ReadEntry(old, old.dir[i])
      BY <2>1, <2>2, <2>3, OverwrittenReads
    <3>2. QED BY <2>7, <3>1, Zenon
  <2>9. QED BY <2>5, <2>6, <2>7, <2>8, Zenon DEF InPlaceKeepsContainer, v
<1>2. QED BY <1>1, QcnInductive, PTL

\* It is then as sound as it was, for the next edit (qcn.py:465-468).
InPlaceKeepsSound == (told = "done" /\ ~job.rebuild /\ Sound(was)) => Sound(Target)

THEOREM SoundnessIsKept == EditSpec => []InPlaceKeepsSound
<1>1. QcnInv => InPlaceKeepsSound
  <2> SUFFICES ASSUME QcnInv, told = "done", ~job.rebuild, Sound(was) PROVE Sound(Target)
    BY Zenon DEF InPlaceKeepsSound
  <2> DEFINE e == FoundEntry
             old == CompoundFile(was)
  <2>1. /\ IsContainer(was) /\ Found(old) # {} /\ e.size \in Nat
        /\ Target = Overwritten(was, e, Value(job.len))
    BY DoneInPlace
  <2>2. Min(Found(old)) \in Streams(old) /\ e = old.dir[Min(Found(old))]
    BY <2>1, FoundIsStream DEF FoundEntry
  <2> HIDE DEF e
  <2>3. QED BY <2>1, <2>2, OverwrittenIsSound
<1>2. QED BY <1>1, QcnInductive, PTL
===============================================================================
