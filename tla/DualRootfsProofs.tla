--------------------------- MODULE DualRootfsProofs ---------------------------
(***************************************************************************)
(* The A/B root filesystem: types, the order of WriteEnv, and what a       *)
(* deployment leaves behind, proved for every set of boards and images, any *)
(* limit of boot retries and any number of deployments and faults.         *)
(***************************************************************************)
EXTENDS DualRootfs, TLAPS, SequenceTheorems

(* The slot an update goes to *)
Target == Other(home)

-----------------------------------------------------------------------------
(* Writing the environment *)

(* A write of the environment has had its effect *)
Done(w) ==
  /\ w.file = "part" => data.part = w.value
  /\ w.file = "slot" => data.slot = w.value
  /\ w.file = "ua" => data.ua = w.value
  /\ w.file = "fatPart" => fat.part = w.value
  /\ w.file = "prev" => fat.prev # "none"
  /\ w.file = "cmdline" => fat.cmdline = w.value

(* The writes of e are under way: some are done, the others are left *)
UnderWay(e) ==
  \E k \in 0 .. Len(e) :
    /\ todo = SubSeq(e, k + 1, Len(e))
    /\ "staleFile" \notin exposed => \A j \in 1 .. k : Done(e[j])

(* Each handler that waits for a WriteEnv waits for its own *)
WritesOfCaller ==
  /\ pc \notin Writers => todo = <<>>
  /\ pc = "install" => UnderWay(WriteEnvInstall(Inactive))
  /\ pc \in {"clearUpgrade", "commitWrite"} => UnderWay(WriteEnvClear)
  /\ pc = "rollbackWrite" => \E s \in Slots : UnderWay(WriteEnvRollback(s))

(* A handler runs under its own name in the database *)
HandledIsStored ==
  /\ pc = "idle" => stored = "none"
  /\ pc = "store" => stored = "store"
  /\ pc \in {"install", "clearUpgrade"} => stored = "install"
  /\ pc \in {"rebootEnter", "reboot"} => stored = "reboot"
  /\ pc = "verifyReboot" => stored = "afterReboot"
  /\ pc \in {"commitEnter", "commit", "commitWrite"} => stored = "commit"
  /\ pc = "finish" => stored = "afterCommit"
  /\ pc \in {"rollback", "rollbackWrite"} => stored = "rollback"
  /\ pc \in {"rollbackEnter", "rollbackReboot", "verifyRollbackReboot"}
       => stored = "rollbackReboot"

(* The boot count is below the limit; boards with a boot script have no    *)
(* backup of cmdline.txt and no reboot in the background                   *)
BootFacts ==
  /\ data.count < MaxBootRetries
  /\ board = "bootscr" => fat.prev = "none" /\ deferred = "none"

-----------------------------------------------------------------------------
(* What the files say of the device *)

(* The device is at home, and nothing says otherwise *)
AtHome ==
  /\ data.part = home /\ data.slot = home /\ data.ua = "0" /\ BootTarget = home
  /\ fat.prev \in {"none", home}

(* The update is installed and will be booted *)
Pending ==
  /\ data.part = Target /\ data.slot = Target /\ data.ua = "1" /\ BootTarget = Target
  /\ board = "direct" => fat.prev = home

(* boot-health took the update back, and nobody else knows yet *)
TakenBack ==
  /\ data.part = Target /\ data.ua = "0" /\ BootTarget = home
  /\ fat.prev \in {"none", home}

(* The update is committed *)
Switched ==
  data.part = Target /\ data.slot = Target /\ data.ua = "0" /\ BootTarget = Target

(* What the database allows the files to say, once no WriteEnv is under way *)
Untouched == AtHome /\ running \in {home, "none"}
FallenBack ==
  /\ TakenBack /\ running \in {home, "none"}
  /\ pc \in {"off", "boothealth", "dead", "start"}
Undecided == Untouched \/ Pending \/ FallenBack
Committed == Switched /\ running \in {Target, "none"}

Recorded ==
  /\ stored \in {"none", "store"} => Untouched
  /\ stored = "install" /\ pc # "install" => Undecided
  /\ stored \in {"reboot", "afterReboot"} => Undecided
  /\ stored = "commit" /\ pc # "commitWrite" => Undecided
  /\ stored = "afterCommit" => Committed /\ fat.prev = "none"
  /\ stored = "rollback" /\ pc # "rollbackWrite" => AtHome \/ Pending \/ FallenBack
  /\ stored = "rollbackReboot" => AtHome

(* What a handler finds *)
Handled ==
  /\ pc # "clearUpgrade"
  /\ pc \in {"install", "rebootEnter", "reboot"} => running = home
  /\ pc \in {"rebootEnter", "reboot", "commitEnter", "commit"} => Pending
  /\ pc \in {"commit", "commitWrite"} => running = Target
  /\ pc \notin {"rollbackEnter", "rollbackReboot"} /\ stored = "rollbackReboot"
       => running \in {home, "none"}
  /\ pc \in {"boothealth", "dead"} /\ AtHome => running = home

(* A board with a boot script commits what it has booted *)
Rebooted ==
  (/\ board = "bootscr" /\ Pending
   /\ \/ stored \in {"afterReboot", "commit"}
      \/ stored = "reboot" /\ pc \notin {"rebootEnter", "reboot"})
    => running \in {Target, "none"}

(* In the middle of a WriteEnv *)
Writing ==
  /\ pc = "install" =>
       /\ todo = WriteEnvInstall(Inactive) => AtHome
       /\ todo # <<>> => data.ua = "0"
       /\ fat.prev \in {"none", home}
       /\ board = "direct" /\ fat.prev = "none" => fat.cmdline = home
  /\ pc = "rollbackWrite" =>
       /\ UnderWay(WriteEnvRollback(home))
       /\ todo = WriteEnvRollback(home) => Pending
       /\ todo # <<>> => data.ua = "1"
       /\ board = "direct" => fat.prev = home
  /\ pc = "commitWrite" =>
       /\ todo # <<>> => Pending
       /\ todo = <<>> => Committed

(* A reboot that is left to the firmware or to the background boots the    *)
(* update, unless it comes after the update was given up                   *)
Reboots ==
  /\ deferred # "none" =>
       /\ board = "direct"
       /\ pc \in {"reboot", "rollback", "rollbackWrite", "rollbackEnter", "rollbackReboot"}
       /\ pc = "reboot" => deferred = Target /\ fat.try = Target
  /\ oneshot = "armed" =>
       pc = "off" /\ stored = "reboot" /\ Pending /\ fat.try = Target

(* The device follows its records, as long as it has fallen into no hole *)
OnTrack == Recorded /\ Handled /\ Rebooted /\ Writing /\ Reboots
SlotInv == OpenHoles = {} => OnTrack

Sound == TypeOK /\ WritesOfCaller /\ HandledIsStored /\ BootFacts

DualInv == Sound /\ SlotInv

-----------------------------------------------------------------------------
(* The writes of a WriteEnv *)

Writes == [file : WriteFiles, value : Slots \cup {"0", "1"}]

(* Writes that name the slot s and come in the right order: the partition  *)
(* first, the backup before cmdline.txt is replaced                        *)
SlotWrites(e, s) ==
  /\ e \in Seq(Writes) /\ Len(e) > 1 /\ e[1] = W("part", s)
  /\ \A i \in 1 .. Len(e) :
       /\ e[i].file \in {"part", "slot", "fatPart", "cmdline"} => e[i].value = s
       /\ e[i].file = "cmdline" => i > 1 /\ e[i - 1].file = "prev"
       /\ e[i].file \in {"prev", "cmdline"} => board = "direct"
  /\ \E i \in 1 .. Len(e) : e[i].file = "slot"
  /\ \E i \in 1 .. Len(e) : e[i].file = "fatPart"
  /\ board = "direct" => \E i \in 1 .. Len(e) : e[i].file = "cmdline"

(* A WriteEnv writes a slot and, last of all, the flag f *)
Plan(e, s, f) ==
  /\ SlotWrites(e, s) /\ e[Len(e)] = W("ua", f)
  /\ \A i \in 1 .. Len(e) : e[i].file = "ua" => i = Len(e)

(* Writes are appended to writes of a slot *)
LEMMA AppendWrites ==
  ASSUME NEW s \in Slots, NEW e, SlotWrites(e, s), NEW t \in Seq(Writes),
         \/ SlotWrites(t, s)
         \/ \A i \in 1 .. Len(t) : t[i].file \in {"ua", "count"}
  PROVE  /\ SlotWrites(e \o t, s)
         /\ Len(e \o t) = Len(e) + Len(t)
         /\ \A i \in 1 .. Len(e) : (e \o t)[i] = e[i]
         /\ \A i \in 1 .. Len(t) : (e \o t)[Len(e) + i] = t[i]
<1> DEFINE r == e \o t
<1>1. e \in Seq(Writes) /\ Len(e) \in Nat /\ Len(t) \in Nat /\ Len(e) > 1
  BY LenProperties DEF SlotWrites
<1>2. /\ r \in Seq(Writes) /\ Len(r) = Len(e) + Len(t)
      /\ \A i \in 1 .. Len(e) + Len(t) : r[i] = IF i <= Len(e) THEN e[i] ELSE t[i - Len(e)]
  BY <1>1, ConcatProperties
<1> HIDE DEF r
<1>3. /\ \A i \in 1 .. Len(e) : r[i] = e[i]
      /\ \A i \in 1 .. Len(t) : r[Len(e) + i] = t[i]
  <2>1. ASSUME NEW i \in 1 .. Len(e) PROVE r[i] = e[i]
    <3>1. i \in 1 .. Len(e) + Len(t) /\ i <= Len(e)
      BY <1>1, <2>1
    <3> QED BY <1>2, <3>1
  <2>2. ASSUME NEW i \in 1 .. Len(t) PROVE r[Len(e) + i] = t[i]
    <3>1. /\ Len(e) + i \in 1 .. Len(e) + Len(t) /\ ~(Len(e) + i <= Len(e))
          /\ (Len(e) + i) - Len(e) = i
      BY <1>1, <2>2
    <3> QED BY <1>2, <3>1
  <2> QED BY <2>1, <2>2
<1>4. r[1] = W("part", s)
  BY <1>1, <1>3 DEF SlotWrites
<1>5. ASSUME NEW i \in 1 .. Len(r)
      PROVE  /\ r[i].file \in {"part", "slot", "fatPart", "cmdline"} => r[i].value = s
             /\ r[i].file = "cmdline" => i > 1 /\ r[i - 1].file = "prev"
             /\ r[i].file \in {"prev", "cmdline"} => board = "direct"
  <2>1. CASE i <= Len(e)
    <3>1. i \in 1 .. Len(e) /\ r[i] = e[i]
      BY <1>1, <1>2, <1>5, <2>1
    <3>2. i > 1 => i - 1 \in 1 .. Len(e) /\ r[i - 1] = e[i - 1]
      BY <1>1, <1>3, <3>1
    <3> QED BY <3>1, <3>2 DEF SlotWrites
  <2>2. CASE i > Len(e)
    <3>1. PICK j \in 1 .. Len(t) : i = Len(e) + j
      <4>1. i - Len(e) \in 1 .. Len(t) /\ i = Len(e) + (i - Len(e))
        BY <1>1, <1>2, <1>5, <2>2
      <4> QED BY <4>1
    <3>2. r[i] = t[j]
      BY <1>3, <3>1
    <3>3. j > 1 => j - 1 \in 1 .. Len(t) /\ r[i - 1] = t[j - 1]
      <4>1. j > 1 => j - 1 \in 1 .. Len(t) /\ i - 1 = Len(e) + (j - 1)
        BY <1>1, <3>1
      <4> QED BY <1>3, <4>1
    <3>4. i > 1
      BY <1>1, <3>1
    <3>5. CASE t[j].file \in {"ua", "count"}
      BY <3>2, <3>5
    <3>6. CASE SlotWrites(t, s)
      <4>1. /\ t[j].file \in {"part", "slot", "fatPart", "cmdline"} => t[j].value = s
            /\ t[j].file = "cmdline" => j > 1 /\ t[j - 1].file = "prev"
            /\ t[j].file \in {"prev", "cmdline"} => board = "direct"
        BY <3>1, <3>6 DEF SlotWrites
      <4> QED BY <3>2, <3>3, <3>4, <4>1
    <3> QED BY <3>1, <3>5, <3>6
  <2> QED BY <1>1, <1>2, <1>5, <2>1, <2>2
<1>6. ASSUME NEW f, \E i \in 1 .. Len(e) : e[i].file = f
      PROVE  \E i \in 1 .. Len(r) : r[i].file = f
  BY <1>1, <1>2, <1>3, <1>6
<1>7. SlotWrites(r, s)
  BY <1>1, <1>2, <1>4, <1>5, <1>6 DEF SlotWrites
<1> QED BY <1>2, <1>3, <1>7 DEF r

(* The writes of writeMenderBootPart *)
LEMMA PartWrites ==
  ASSUME NEW s \in Slots
  PROVE  /\ SlotWrites(WriteMenderBootPart(s), s)
         /\ \A i \in 1 .. Len(WriteMenderBootPart(s)) : WriteMenderBootPart(s)[i].file # "ua"
<1> DEFINE b == <<W("part", s), W("slot", s), W("fatPart", s)>>
           d == <<W("prev", s), W("cmdline", s)>>
           e == WriteMenderBootPart(s)
<1>1. \A f \in WriteFiles : W(f, s) \in Writes
  BY DEF W, Writes
<1>2. b \in Seq(Writes) /\ Len(b) = 3 /\ d \in Seq(Writes) /\ Len(d) = 2
  <2>1. {"part", "slot", "fatPart", "prev", "cmdline"} \subseteq WriteFiles
    BY DEF WriteFiles
  <2> QED BY <1>1, <2>1
<1>3. /\ b[1] = W("part", s) /\ b[2] = W("slot", s) /\ b[3] = W("fatPart", s)
      /\ d[1] = W("prev", s) /\ d[2] = W("cmdline", s)
  OBVIOUS
<1>4. CASE board # "direct"
  <2>1. e = b
    BY <1>2, <1>4, ConcatEmptySeq DEF WriteMenderBootPart
  <2> HIDE DEF b, e
  <2>2. \A i \in 1 .. 3 : i = 1 \/ i = 2 \/ i = 3
    OBVIOUS
  <2>3. e \in Seq(Writes) /\ Len(e) = 3
    BY <1>2, <2>1
  <2>4. e[1] = W("part", s) /\ e[2] = W("slot", s) /\ e[3] = W("fatPart", s)
    BY <1>3, <2>1
  <2> QED BY <1>4, <2>2, <2>3, <2>4 DEF SlotWrites, W, e
<1>5. CASE board = "direct"
  <2>1. e = b \o d
    BY <1>5 DEF WriteMenderBootPart
  <2> HIDE DEF b, d, e
  <2>2. /\ e \in Seq(Writes) /\ Len(e) = 5
        /\ \A i \in 1 .. 5 : e[i] = IF i <= 3 THEN b[i] ELSE d[i - 3]
    <3>1. /\ e \in Seq(Writes) /\ Len(e) = Len(b) + Len(d)
          /\ \A i \in 1 .. Len(b) + Len(d) :
               e[i] = IF i <= Len(b) THEN b[i] ELSE d[i - Len(b)]
      BY <1>2, <2>1, ConcatProperties
    <3>2. Len(b) + Len(d) = 5 /\ Len(b) = 3
      BY <1>2
    <3> QED BY <3>1, <3>2
  <2>3. /\ e[1] = W("part", s) /\ e[2] = W("slot", s) /\ e[3] = W("fatPart", s)
        /\ e[4] = W("prev", s) /\ e[5] = W("cmdline", s)
    BY <1>3, <2>2
  <2>4. \A i \in 1 .. 5 : i = 1 \/ i = 2 \/ i = 3 \/ i = 4 \/ i = 5
    OBVIOUS
  <2> QED BY <1>5, <2>2, <2>3, <2>4 DEF SlotWrites, W, e
<1> QED BY <1>4, <1>5

(* The two forms of the partition, then the flag *)
LEMMA SlotThenFlag ==
  ASSUME NEW s \in Slots, NEW f \in {"0", "1"}, NEW t \in Seq(Writes), Len(t) > 0,
         t[Len(t)] = W("ua", f),
         \A i \in 1 .. Len(t) :
           t[i].file \in {"ua", "count"} /\ (t[i].file = "ua" => i = Len(t))
  PROVE  Plan(WriteMenderBootPart(s) \o WriteMenderBootPart(s) \o t, s, f)
<1>1. PICK p : p = WriteMenderBootPart(s)
  OBVIOUS
<1>2. PICK q : q = p \o p
  OBVIOUS
<1>3. PICK e : e = q \o t
  OBVIOUS
<1>4. SlotWrites(p, s) /\ p \in Seq(Writes)
  <2>1. SlotWrites(p, s)
    BY <1>1, PartWrites
  <2> QED BY <2>1 DEF SlotWrites
<1>5. SlotWrites(q, s)
  BY <1>2, <1>4, AppendWrites
<1>6. /\ SlotWrites(e, s) /\ Len(e) = Len(q) + Len(t)
      /\ \A i \in 1 .. Len(q) : e[i] = q[i]
      /\ \A i \in 1 .. Len(t) : e[Len(q) + i] = t[i]
  BY <1>3, <1>5, AppendWrites
<1>7. Len(p) \in Nat /\ Len(q) \in Nat /\ Len(t) \in Nat /\ Len(q) = Len(p) + Len(p)
  BY <1>2, <1>4, <1>5, AppendWrites, LenProperties DEF SlotWrites
<1>8. ASSUME NEW i \in 1 .. Len(q) PROVE q[i].file # "ua"
  <2>1. CASE i <= Len(p)
    <3>1. i \in 1 .. Len(p) /\ q[i] = p[i]
      BY <1>2, <1>4, <1>7, <1>8, <2>1, AppendWrites
    <3> QED BY <1>1, <3>1, PartWrites
  <2>2. CASE i > Len(p)
    <3>1. i - Len(p) \in 1 .. Len(p) /\ i = Len(p) + (i - Len(p))
      BY <1>7, <1>8, <2>2
    <3>2. q[i] = p[i - Len(p)]
      BY <1>2, <1>4, <3>1, AppendWrites
    <3> QED BY <1>1, <3>1, <3>2, PartWrites
  <2> QED BY <1>7, <1>8, <2>1, <2>2
<1>9. ASSUME NEW i \in 1 .. Len(e), e[i].file = "ua" PROVE i = Len(e)
  <2>1. CASE i <= Len(q)
    <3>1. i \in 1 .. Len(q) /\ e[i] = q[i]
      BY <1>6, <1>7, <1>9, <2>1
    <3> QED BY <1>8, <1>9, <3>1
  <2>2. CASE i > Len(q)
    <3>1. i - Len(q) \in 1 .. Len(t) /\ i = Len(q) + (i - Len(q))
      BY <1>6, <1>7, <1>9, <2>2
    <3>2. t[i - Len(q)].file = "ua"
      BY <1>6, <1>9, <3>1
    <3>3. i - Len(q) = Len(t)
      BY <3>1, <3>2
    <3> QED BY <1>6, <1>7, <3>1, <3>3
  <2> QED BY <1>6, <1>7, <1>9, <2>1, <2>2
<1>10. e[Len(e)] = W("ua", f)
  <2>1. Len(t) \in 1 .. Len(t)
    BY <1>7
  <2> QED BY <1>6, <2>1
<1> QED BY <1>1, <1>2, <1>3, <1>6, <1>9, <1>10 DEF Plan

(* The WriteEnvs of InstallUpdate and Rollback, and the one that only      *)
(* clears the flag                                                         *)
LEMMA Plans ==
  ASSUME NEW s \in Slots
  PROVE  /\ Plan(WriteEnvInstall(s), s, "1")
         /\ Plan(WriteEnvRollback(s), s, "0")
         /\ WriteEnvClear \in Seq(Writes) /\ Len(WriteEnvClear) = 1
         /\ WriteEnvClear[1] = W("ua", "0")
<1> DEFINE t == <<W("count", "0"), W("ua", "1")>>
           c == WriteEnvClear
<1>1. W("count", "0") \in Writes /\ W("ua", "1") \in Writes /\ W("ua", "0") \in Writes
  BY DEF W, Writes, WriteFiles
<1>2. t \in Seq(Writes) /\ Len(t) = 2 /\ t[1] = W("count", "0") /\ t[2] = W("ua", "1")
  BY <1>1
<1>3. c \in Seq(Writes) /\ Len(c) = 1 /\ c[1] = W("ua", "0")
  BY <1>1 DEF WriteEnvClear
<1> HIDE DEF t, c
<1>4. \A i \in 1 .. Len(t) : t[i].file \in {"ua", "count"} /\ (t[i].file = "ua" => i = Len(t))
  <2>1. \A i \in 1 .. 2 : i = 1 \/ i = 2
    OBVIOUS
  <2> QED BY <1>2, <2>1 DEF W
<1>5. \A i \in 1 .. Len(c) : c[i].file \in {"ua", "count"} /\ (c[i].file = "ua" => i = Len(c))
  <2>1. \A i \in 1 .. 1 : i = 1
    OBVIOUS
  <2> QED BY <1>3, <2>1 DEF W
<1>6. Plan(WriteMenderBootPart(s) \o WriteMenderBootPart(s) \o t, s, "1")
  <2>1. Len(t) > 0 /\ t[Len(t)] = W("ua", "1")
    BY <1>2
  <2> QED BY <1>2, <1>4, <2>1, SlotThenFlag
<1>7. Plan(WriteMenderBootPart(s) \o WriteMenderBootPart(s) \o c, s, "0")
  BY <1>3, <1>5, SlotThenFlag
<1> QED BY <1>3, <1>6, <1>7 DEF WriteEnvInstall, WriteEnvRollback, WriteEnvClear, t, c

-----------------------------------------------------------------------------
(* Types *)

(* The parts of TypeOK that a step changes together *)
FilesOK ==
  /\ data \in [part : Slots, slot : Slots, ua : {"0", "1"}, count : Nat]
  /\ fat \in [part : Slots, cmdline : Slots, prev : Slots \cup {"none"},
              try : Slots \cup {"none"}]
DeviceOK ==
  /\ running \in Slots \cup {"none"} /\ oneshot \in {"armed", "clear"}
  /\ deferred \in Slots \cup {"none"}
  /\ pc \in Handlers \cup {"off", "boothealth", "dead"}
  /\ running = "none" <=> pc = "off"
AgentOK ==
  /\ stored \in {"none", "store", "install", "reboot", "afterReboot", "commit",
                 "afterCommit", "rollback", "rollbackReboot"}
  /\ result \in {"none", "success", "failure"}
  /\ home \in Slots
WorldOK ==
  /\ faults \in Nat /\ deployments \in Nat
  /\ board \in Boards /\ script \in Scripts

(* TypeOK is the conjunction of these parts *)
LEMMA TypeParts ==
  TypeOK <=> /\ FilesOK /\ DeviceOK /\ AgentOK /\ WorldOK
             /\ image \in [Slots -> ImageKinds \cup {"partial"}]
             /\ todo \in Seq(Writes) /\ exposed \subseteq Holes
BY DEF TypeOK, FilesOK, DeviceOK, AgentOK, WorldOK, Writes

(* Every write of the environment keeps the types of the files *)
LEMMA WrittenTypes ==
  ASSUME FilesOK, NEW w \in Writes, Written(w),
         w.file \in {"part", "slot", "fatPart", "cmdline"} => w.value \in Slots,
         w.file = "ua" => w.value \in {"0", "1"}
  PROVE  FilesOK'
<1> QED BY DEF FilesOK, Written, Writes, WriteFiles

(* The slot, where the agent runs *)
LEMMA RunningSlot ==
  ASSUME DeviceOK
  PROVE  /\ pc # "off" => running \in Slots /\ Inactive \in Slots
         /\ Other(running) \in Slots
BY DEF DeviceOK, Inactive, Other, Slots

(* The next write of a WriteEnv under way, and what is left after it *)
LEMMA HeadOfPlan ==
  ASSUME NEW e \in Seq(Writes), UnderWay(e), todo # <<>>
  PROVE  \E k \in 0 .. Len(e) - 1 :
           /\ Head(todo) = e[k + 1] /\ k + 1 \in 1 .. Len(e)
           /\ Tail(todo) = SubSeq(e, k + 2, Len(e))
           /\ todo = SubSeq(e, k + 1, Len(e))
           /\ "staleFile" \notin exposed => \A j \in 1 .. k : Done(e[j])
<1>1. PICK k \in 0 .. Len(e) :
        /\ todo = SubSeq(e, k + 1, Len(e))
        /\ "staleFile" \notin exposed => \A j \in 1 .. k : Done(e[j])
  BY DEF UnderWay
<1>2. Len(e) \in Nat
  BY LenProperties
<1>3. k # Len(e)
  <2>1. SUFFICES ASSUME k = Len(e) PROVE FALSE
    OBVIOUS
  <2>2. SubSeq(e, k + 1, Len(e)) = <<>>
    BY <1>2, <2>1, SubSeqEmpty
  <2> QED BY <1>1, <2>2
<1>4. k \in 0 .. Len(e) - 1 /\ k + 1 \in 1 .. Len(e) /\ Len(e) \in k + 1 .. Len(e)
  BY <1>1, <1>2, <1>3
<1>5. Head(todo) = e[k + 1] /\ Tail(todo) = SubSeq(e, (k + 1) + 1, Len(e))
  BY <1>1, <1>4, HeadTailOfSubSeq
<1>6. (k + 1) + 1 = k + 2
  BY <1>4
<1> QED BY <1>1, <1>4, <1>5, <1>6

(* The next write of whichever WriteEnv is under way fits its file *)
LEMMA HeadFits ==
  ASSUME DeviceOK, WritesOfCaller, pc \in Writers, todo # <<>>
  PROVE  /\ Head(todo) \in Writes /\ Tail(todo) \in Seq(Writes)
         /\ Head(todo).file \in {"part", "slot", "fatPart", "cmdline"}
              => Head(todo).value \in Slots
         /\ Head(todo).file = "ua" => Head(todo).value \in {"0", "1"}
         /\ Head(todo).file \in {"prev", "cmdline"} => board = "direct"
<1>1. ASSUME NEW e, NEW s \in Slots, NEW f \in {"0", "1"}, UnderWay(e), Plan(e, s, f)
      PROVE  /\ Head(todo) \in Writes /\ Tail(todo) \in Seq(Writes)
             /\ Head(todo).file \in {"part", "slot", "fatPart", "cmdline"}
                  => Head(todo).value \in Slots
             /\ Head(todo).file = "ua" => Head(todo).value \in {"0", "1"}
             /\ Head(todo).file \in {"prev", "cmdline"} => board = "direct"
  <2>1. e \in Seq(Writes) /\ Len(e) \in Nat
    BY <1>1, LenProperties DEF Plan, SlotWrites
  <2>2. PICK k \in 0 .. Len(e) - 1 :
          /\ Head(todo) = e[k + 1] /\ k + 1 \in 1 .. Len(e)
          /\ Tail(todo) = SubSeq(e, k + 2, Len(e))
    BY <1>1, <2>1, HeadOfPlan
  <2>3. e[k + 1] \in Writes
    BY <2>1, <2>2, ElementOfSeq
  <2>4. Tail(todo) \in Seq(Writes)
    <3>1. \A i \in k + 2 .. Len(e) : e[i] \in Writes
      BY <2>1, <2>2, ElementOfSeq
    <3>2. k + 2 \in Int /\ Len(e) \in Int
      BY <2>1, <2>2
    <3> QED BY <2>2, <3>1, <3>2, SubSeqProperties
  <2>5. /\ e[k + 1].file \in {"part", "slot", "fatPart", "cmdline"} => e[k + 1].value = s
        /\ e[k + 1].file = "ua" => e[k + 1].value = f
        /\ e[k + 1].file \in {"prev", "cmdline"} => board = "direct"
    <3>1. SlotWrites(e, s) /\ (e[k + 1].file = "ua" => e[k + 1] = W("ua", f))
      BY <1>1, <2>2 DEF Plan
    <3>2. PICK i \in 1 .. Len(e) : i = k + 1
      BY <2>2
    <3>3. /\ e[i].file \in {"part", "slot", "fatPart", "cmdline"} => e[i].value = s
          /\ e[i].file \in {"prev", "cmdline"} => board = "direct"
      BY <3>1, <3>2 DEF SlotWrites
    <3> QED BY <3>1, <3>2, <3>3 DEF W
  <2> QED BY <2>2, <2>3, <2>4, <2>5
<1>2. CASE pc = "install"
  <2>1. Inactive \in Slots
    BY <1>2, RunningSlot
  <2>2. Plan(WriteEnvInstall(Inactive), Inactive, "1") /\ UnderWay(WriteEnvInstall(Inactive))
    BY <1>2, <2>1, Plans DEF WritesOfCaller
  <2> QED BY <1>1, <2>1, <2>2
<1>3. CASE pc = "rollbackWrite"
  <2>1. PICK s \in Slots : UnderWay(WriteEnvRollback(s))
    BY <1>3 DEF WritesOfCaller
  <2>2. Plan(WriteEnvRollback(s), s, "0")
    BY Plans
  <2> QED BY <1>1, <2>1, <2>2
<1>4. CASE pc \in {"clearUpgrade", "commitWrite"}
  <2>1. PICK e : e = WriteEnvClear
    OBVIOUS
  <2>2. e \in Seq(Writes) /\ Len(e) = 1 /\ e[1] = W("ua", "0")
    BY <2>1, Plans DEF Slots
  <2>3. UnderWay(e)
    BY <1>4, <2>1 DEF WritesOfCaller
  <2>4. Head(todo) = e[1] /\ Tail(todo) = SubSeq(e, 2, Len(e))
    <3>1. PICK k \in 0 .. Len(e) - 1 :
            Head(todo) = e[k + 1] /\ Tail(todo) = SubSeq(e, k + 2, Len(e))
      BY <2>2, <2>3, HeadOfPlan
    <3>2. k = 0
      BY <2>2
    <3> QED BY <3>1, <3>2
  <2>5. SubSeq(e, 2, Len(e)) = <<>>
    BY <2>2, SubSeqEmpty
  <2>6. e[1] \in Writes /\ e[1].file = "ua" /\ e[1].value = "0"
    BY <2>2 DEF W, Writes, WriteFiles
  <2>7. <<>> \in Seq(Writes)
    BY EmptySeq
  <2> QED BY <2>4, <2>5, <2>6, <2>7
<1> QED BY <1>2, <1>3, <1>4 DEF Writers

(* The types hold after every step *)
LEMMA TypeStep ==
  ASSUME TypeOK, WritesOfCaller, [Next]_vars
  PROVE  TypeOK'
<1> USE DEF world, hardware, disk, device, NoFault
<1>1. /\ FilesOK /\ DeviceOK /\ AgentOK /\ WorldOK
      /\ image \in [Slots -> ImageKinds \cup {"partial"}]
      /\ todo \in Seq(Writes) /\ exposed \subseteq Holes
  BY TypeParts
<1>2. /\ running \in Slots \/ pc = "off"
      /\ pc # "off" => Inactive \in Slots
      /\ Other(running) \in Slots /\ (pc # "off" => RollbackTarget \in Slots)
      /\ (deferred # "none" => deferred \in Slots)
  BY <1>1, RunningSlot DEF DeviceOK, FilesOK, RollbackTarget, Active
<1>3. /\ <<>> \in Seq(Writes) /\ WriteEnvClear \in Seq(Writes)
      /\ \A s \in Slots : WriteEnvInstall(s) \in Seq(Writes) /\ WriteEnvRollback(s) \in Seq(Writes)
  BY EmptySeq, Plans DEF Plan, SlotWrites, Slots
<1>4. SUFFICES /\ FilesOK' /\ DeviceOK' /\ AgentOK' /\ WorldOK'
               /\ image' \in [Slots -> ImageKinds \cup {"partial"}]
               /\ todo' \in Seq(Writes) /\ exposed' \subseteq Holes
  BY DEF TypeOK, FilesOK, DeviceOK, AgentOK, WorldOK, Writes
<1>5. CASE Deploy
  <2>1. FilesOK'
    BY <1>1, <1>5 DEF Deploy, FilesOK
  <2>2. DeviceOK' /\ AgentOK'
    BY <1>1, <1>2, <1>3, <1>5 DEF Deploy, Enter, Handlers, Writers, DeviceOK, AgentOK
  <2>3. WorldOK'
    BY <1>1, <1>5 DEF Deploy, WorldOK
  <2>4. image' \in [Slots -> ImageKinds \cup {"partial"}] /\ todo' \in Seq(Writes)
    BY <1>1, <1>2, <1>3, <1>5 DEF Deploy
  <2> QED BY <1>1, <1>5, <2>1, <2>2, <2>3, <2>4 DEF Deploy
<1>6. CASE NoUpdate
  BY <1>1, <1>6 DEF NoUpdate, vars, FilesOK, DeviceOK, AgentOK, WorldOK
<1>7. CASE StoreUpdate
  <2>1. image' \in [Slots -> ImageKinds \cup {"partial"}] /\ todo' \in Seq(Writes)
    BY <1>1, <1>2, <1>3, <1>7, BoardAssumption DEF StoreUpdate, Call
  <2> QED
    BY <1>1, <1>7, <2>1 DEF StoreUpdate, Call, Enter, Idle, Handlers, Writers, FilesOK,
      DeviceOK, AgentOK, WorldOK
<1>8. CASE WriteVar
  <2>1. /\ Head(todo) \in Writes /\ Tail(todo) \in Seq(Writes)
        /\ Head(todo).file \in {"part", "slot", "fatPart", "cmdline"}
             => Head(todo).value \in Slots
        /\ Head(todo).file = "ua" => Head(todo).value \in {"0", "1"}
    BY <1>1, <1>8, HeadFits DEF WriteVar
  <2>2. FilesOK'
    <3>1. CASE Written(Head(todo))
      BY <1>1, <2>1, <3>1, WrittenTypes
    <3>2. CASE UNCHANGED disk
      BY <1>1, <3>2 DEF FilesOK
    <3> QED BY <1>8, <3>1, <3>2 DEF WriteVar
  <2>3. DeviceOK' /\ AgentOK' /\ WorldOK' /\ image' \in [Slots -> ImageKinds \cup {"partial"}]
    BY <1>1, <1>8 DEF WriteVar, WriteFails, Enter, Idle, ToRollback, Fault, CanFault,
      Writers, Handlers, DeviceOK, AgentOK, WorldOK
  <2>4. todo' \in Seq(Writes)
    BY <1>3, <1>8, <2>1 DEF WriteVar
  <2>5. exposed' \subseteq Holes
    BY <1>1, <1>8 DEF WriteVar, Torn, Holes
  <2> QED BY <2>2, <2>3, <2>4, <2>5
<1>9. CASE InstallUpdate
  <2>1. FilesOK' /\ todo' \in Seq(Writes)
    BY <1>1, <1>2, <1>3, <1>9 DEF InstallUpdate, SwitchedBoot, Call, FilesOK
  <2>2. DeviceOK' /\ AgentOK'
    BY <1>1, <1>9 DEF InstallUpdate, Call, Enter, Handlers, Writers, DeviceOK, AgentOK
  <2>3. WorldOK'
    BY <1>1, <1>9 DEF InstallUpdate, Fault, CanFault, WorldOK
  <2> QED
    BY <1>1, <1>9, <2>1, <2>2, <2>3 DEF InstallUpdate, Holes
<1>10. CASE InstallFails
  BY <1>1, <1>2, <1>3, <1>10 DEF InstallFails, Enter, Idle, ToRollback, Handlers, Writers,
    FilesOK, DeviceOK, AgentOK, WorldOK
<1>11. CASE ArtifactRebootEnter
  <2>1. FilesOK'
    BY <1>1, <1>2, <1>3, <1>11 DEF ArtifactRebootEnter, FilesOK
  <2>2. DeviceOK' /\ AgentOK'
    BY <1>1, <1>2, <1>3, <1>11 DEF ArtifactRebootEnter, Enter, ToRollback, Handlers, Writers,
      DeviceOK, AgentOK, FilesOK
  <2>3. WorldOK'
    BY <1>1, <1>11 DEF ArtifactRebootEnter, Fault, CanFault, WorldOK
  <2>4. image' \in [Slots -> ImageKinds \cup {"partial"}] /\ todo' \in Seq(Writes)
    BY <1>1, <1>2, <1>3, <1>11 DEF ArtifactRebootEnter
  <2> QED BY <1>1, <1>11, <2>1, <2>2, <2>3, <2>4 DEF ArtifactRebootEnter
<1>12. CASE RebootStep
  <2>1. FilesOK'
    BY <1>1, <1>12 DEF RebootStep, FilesOK
  <2>2. DeviceOK' /\ AgentOK'
    BY <1>1, <1>2, <1>3, <1>12 DEF RebootStep, Down, Enter, ToRollback, Handlers, Writers,
      DeviceOK, AgentOK
  <2>3. WorldOK'
    BY <1>1, <1>12 DEF RebootStep, Fault, CanFault, WorldOK
  <2>4. image' \in [Slots -> ImageKinds \cup {"partial"}] /\ todo' \in Seq(Writes)
    BY <1>1, <1>2, <1>3, <1>12 DEF RebootStep
  <2> QED BY <1>1, <1>12, <2>1, <2>2, <2>3, <2>4 DEF RebootStep
<1>13. CASE DeferredReboot
  <2>1. FilesOK'
    BY <1>1, <1>2, <1>3, <1>13 DEF DeferredReboot, FilesOK, PermanentCmdline
  <2> QED
    BY <1>1, <1>3, <1>13, <2>1 DEF DeferredReboot, Down, Torn, Holes, DeviceOK, AgentOK, WorldOK
<1>14. CASE VerifyReboot
  BY <1>1, <1>2, <1>3, <1>14 DEF VerifyReboot, Enter, Idle, ToRollback, Handlers, Writers,
    FilesOK, DeviceOK, AgentOK, WorldOK
<1>15. CASE ArtifactCommitEnter
  <2>1. FilesOK'
    BY <1>1, <1>2, <1>3, <1>15 DEF ArtifactCommitEnter, PermanentCmdline, FilesOK
  <2>2. DeviceOK' /\ AgentOK'
    BY <1>1, <1>2, <1>3, <1>15 DEF ArtifactCommitEnter, Enter, ToRollback, Handlers, Writers,
      DeviceOK, AgentOK
  <2>3. WorldOK'
    BY <1>1, <1>15 DEF ArtifactCommitEnter, Fault, CanFault, WorldOK
  <2>4. image' \in [Slots -> ImageKinds \cup {"partial"}] /\ todo' \in Seq(Writes)
    BY <1>1, <1>2, <1>3, <1>15 DEF ArtifactCommitEnter
  <2> QED BY <1>1, <1>15, <2>1, <2>2, <2>3, <2>4 DEF ArtifactCommitEnter, Holes
<1>16. CASE CommitUpdate
  <2>1. FilesOK'
    BY <1>1, <1>16 DEF CommitUpdate, FilesOK
  <2>2. DeviceOK' /\ AgentOK'
    BY <1>1, <1>16 DEF CommitUpdate, Call, Enter, ToRollback, Handlers, Writers, DeviceOK, AgentOK
  <2>3. WorldOK' /\ image' \in [Slots -> ImageKinds \cup {"partial"}] /\ todo' \in Seq(Writes)
    BY <1>1, <1>3, <1>16 DEF CommitUpdate, Call, WorldOK
  <2> QED BY <1>1, <1>16, <2>1, <2>2, <2>3 DEF CommitUpdate
<1>17. CASE CommitDone
  <2>1. FilesOK'
    BY <1>1, <1>2, <1>3, <1>17 DEF CommitDone, ClearBackup, FilesOK
  <2>2. DeviceOK' /\ AgentOK'
    BY <1>1, <1>2, <1>3, <1>17 DEF CommitDone, Enter, ToRollback, Handlers, Writers, DeviceOK,
      AgentOK
  <2>3. WorldOK'
    BY <1>1, <1>17 DEF CommitDone, Fault, CanFault, WorldOK
  <2>4. image' \in [Slots -> ImageKinds \cup {"partial"}] /\ todo' \in Seq(Writes)
    BY <1>1, <1>2, <1>3, <1>17 DEF CommitDone
  <2> QED BY <1>1, <1>17, <2>1, <2>2, <2>3, <2>4 DEF CommitDone, Holes
<1>18. CASE Finish
  BY <1>1, <1>2, <1>3, <1>18 DEF Finish, Enter, Idle, ToRollback, Handlers, Writers, FilesOK,
    DeviceOK, AgentOK, WorldOK
<1>19. CASE Rollback
  <2>1. FilesOK'
    BY <1>1, <1>19 DEF Rollback, FilesOK
  <2>2. DeviceOK' /\ AgentOK'
    BY <1>1, <1>2, <1>3, <1>19 DEF Rollback, Call, Enter, ToRollback, Handlers, Writers,
      DeviceOK, AgentOK
  <2>3. WorldOK'
    BY <1>1, <1>19 DEF Rollback, WorldOK
  <2>4. image' \in [Slots -> ImageKinds \cup {"partial"}] /\ todo' \in Seq(Writes)
    BY <1>1, <1>2, <1>3, <1>19 DEF Rollback, Call
  <2> QED BY <1>1, <1>19, <2>1, <2>2, <2>3, <2>4 DEF Rollback
<1>20. CASE RollbackDone
  BY <1>1, <1>2, <1>3, <1>20 DEF RollbackDone, Enter, Idle, ToRollback, Handlers, Writers,
    FilesOK, DeviceOK, AgentOK, WorldOK
<1>21. CASE ArtifactRollbackRebootEnter
  <2> DEFINE FatFiles == [part : Slots, cmdline : Slots, prev : Slots \cup {"none"},
                          try : Slots \cup {"none"}]
  <2>1. data.part \in Slots /\ fat \in FatFiles
    BY <1>1 DEF FilesOK
  <2>2. SwitchedBoot(data.part) \in FatFiles
    BY <2>1 DEF SwitchedBoot
  <2>3. ASSUME NEW f \in FatFiles PROVE RollbackFiles(f) \in FatFiles
    BY <2>1 DEF RollbackFiles
  <2> HIDE DEF FatFiles
  <2>4. fat' \in FatFiles /\ UNCHANGED data
    BY <1>21, <2>1, <2>2, <2>3 DEF ArtifactRollbackRebootEnter
  <2>5. FilesOK'
    BY <1>1, <2>4 DEF FilesOK, FatFiles
  <2> QED
    BY <1>1, <1>3, <1>21, <2>5 DEF ArtifactRollbackRebootEnter, Fault, CanFault, Handlers,
      DeviceOK, AgentOK, WorldOK
<1>22. CASE RollbackReboot
  <2>1. FilesOK'
    BY <1>1, <1>22 DEF RollbackReboot, FilesOK
  <2>2. DeviceOK' /\ AgentOK'
    BY <1>1, <1>2, <1>3, <1>22 DEF RollbackReboot, Down, Enter, ToRollback, Handlers, Writers,
      DeviceOK, AgentOK
  <2>3. WorldOK'
    BY <1>1, <1>22 DEF RollbackReboot, Fault, CanFault, WorldOK
  <2>4. image' \in [Slots -> ImageKinds \cup {"partial"}] /\ todo' \in Seq(Writes)
    BY <1>1, <1>2, <1>3, <1>22 DEF RollbackReboot
  <2> QED BY <1>1, <1>22, <2>1, <2>2, <2>3, <2>4 DEF RollbackReboot, Holes
<1>23. CASE VerifyRollbackReboot
  BY <1>1, <1>2, <1>3, <1>23 DEF VerifyRollbackReboot, Enter, Idle, ToRollback, Handlers,
    Writers, FilesOK, DeviceOK, AgentOK, WorldOK
<1>24. CASE Boot
  <2>1. FirmwareSlot \in Slots
    BY <1>1 DEF FirmwareSlot, BootTarget, FilesOK
  <2> QED
    BY <1>1, <1>24, <2>1 DEF Boot, Handlers, Slots, FilesOK, DeviceOK, AgentOK, WorldOK
<1>25. CASE BootHealth
  <2>1. FilesOK'
    <3>1. data.count + 1 \in Nat
      BY <1>1 DEF FilesOK
    <3>2. \/ data' = data \/ data' = [data EXCEPT !.count = 0]
          \/ data' = [data EXCEPT !.count = data.count + 1]
          \/ data' = [data EXCEPT !.ua = "0", !.count = 0]
      BY <1>25 DEF BootHealth
    <3>3. \/ fat' \in {fat, [fat EXCEPT !.prev = "none"]}
          \/ /\ fat.prev # "none"
             /\ fat' = [fat EXCEPT !.cmdline = fat.prev, !.prev = "none", !.try = "none"]
      BY <1>25 DEF BootHealth
    <3>4. data' \in [part : Slots, slot : Slots, ua : {"0", "1"}, count : Nat]
      <4>1. CASE data' = data
        BY <1>1, <4>1 DEF FilesOK
      <4>2. CASE data' = [data EXCEPT !.count = 0]
        BY <1>1, <4>2 DEF FilesOK
      <4>3. CASE data' = [data EXCEPT !.count = data.count + 1]
        BY <1>1, <3>1, <4>3 DEF FilesOK
      <4>4. CASE data' = [data EXCEPT !.ua = "0", !.count = 0]
        BY <1>1, <4>4 DEF FilesOK
      <4> QED BY <3>2, <4>1, <4>2, <4>3, <4>4
    <3> QED BY <1>1, <3>3, <3>4 DEF FilesOK
  <2> QED
    BY <1>1, <1>25, <2>1 DEF BootHealth, BootContinues, Down, Handlers, DeviceOK, AgentOK,
      WorldOK
<1>26. CASE Watchdog
  BY <1>1, <1>2, <1>3, <1>26 DEF Watchdog, Down, Enter, Idle, ToRollback, Handlers, Writers,
    FilesOK, DeviceOK, AgentOK, WorldOK
<1>27. CASE HandleBootCountFallback
  <2>1. running \in Slots
    BY <1>2, <1>27 DEF HandleBootCountFallback
  <2>2. /\ \/ data' = data \/ data' = [data EXCEPT !.part = running]
           \/ data' = [data EXCEPT !.part = running, !.slot = running]
           \/ data' = [data EXCEPT !.ua = "0", !.count = 0]
        /\ UNCHANGED fat
    BY <1>27 DEF HandleBootCountFallback, Reconcile
  <2>3. FilesOK'
    <3>1. CASE data' = data
      BY <1>1, <2>2, <3>1 DEF FilesOK
    <3>2. CASE data' = [data EXCEPT !.part = running]
      BY <1>1, <2>1, <2>2, <3>2 DEF FilesOK
    <3>3. CASE data' = [data EXCEPT !.part = running, !.slot = running]
      BY <1>1, <2>1, <2>2, <3>3 DEF FilesOK
    <3>4. CASE data' = [data EXCEPT !.ua = "0", !.count = 0]
      BY <1>1, <2>2, <3>4 DEF FilesOK
    <3> QED BY <2>2, <3>1, <3>2, <3>3, <3>4
  <2> QED
    BY <1>1, <1>27, <2>3 DEF HandleBootCountFallback, Fault, CanFault, Handlers, Holes,
      DeviceOK, AgentOK, WorldOK
<1>28. CASE Resume
  <2>1. FilesOK'
    BY <1>1, <1>28 DEF Resume, FilesOK
  <2>2. DeviceOK' /\ AgentOK'
    BY <1>1, <1>28 DEF Resume, Enter, Idle, ToRollback, Handlers, Writers, DeviceOK, AgentOK
  <2>3. WorldOK' /\ image' \in [Slots -> ImageKinds \cup {"partial"}] /\ todo' \in Seq(Writes)
    BY <1>1, <1>3, <1>28 DEF Resume, WorldOK
  <2> QED BY <1>1, <1>28, <2>1, <2>2, <2>3 DEF Resume
<1>29. CASE PowerLoss
  <2>1. FilesOK'
    BY <1>1, <1>29 DEF PowerLoss, FilesOK
  <2>2. DeviceOK' /\ AgentOK'
    BY <1>1, <1>2, <1>3, <1>29 DEF PowerLoss, Down, Enter, ToRollback, Handlers, Writers,
      DeviceOK, AgentOK
  <2>3. WorldOK'
    BY <1>1, <1>29 DEF PowerLoss, Fault, CanFault, WorldOK
  <2>4. image' \in [Slots -> ImageKinds \cup {"partial"}] /\ todo' \in Seq(Writes)
    BY <1>1, <1>2, <1>3, <1>29 DEF PowerLoss
  <2> QED BY <1>1, <1>29, <2>1, <2>2, <2>3, <2>4 DEF PowerLoss, Torn, InCommitWindow, Holes
<1>30. CASE AgentCrash
  <2>1. FilesOK'
    BY <1>1, <1>30 DEF AgentCrash, FilesOK
  <2>2. DeviceOK' /\ AgentOK'
    BY <1>1, <1>2, <1>3, <1>30 DEF AgentCrash, AgentUp, Enter, ToRollback, Handlers, Writers,
      DeviceOK, AgentOK
  <2>3. WorldOK'
    BY <1>1, <1>30 DEF AgentCrash, Fault, CanFault, WorldOK
  <2>4. image' \in [Slots -> ImageKinds \cup {"partial"}] /\ todo' \in Seq(Writes)
    BY <1>1, <1>2, <1>3, <1>30 DEF AgentCrash
  <2> QED BY <1>1, <1>30, <2>1, <2>2, <2>3, <2>4 DEF AgentCrash, Torn, InCommitWindow, Holes
<1>31. CASE UNCHANGED vars
  BY <1>1, <1>31 DEF vars, FilesOK, DeviceOK, AgentOK, WorldOK
<1> QED BY <1>5, <1>6, <1>7, <1>8, <1>9, <1>10, <1>11, <1>12, <1>13, <1>14, <1>15, <1>16,
  <1>17, <1>18, <1>19, <1>20, <1>21, <1>22, <1>23, <1>24, <1>25, <1>26, <1>27, <1>28, <1>29,
  <1>30, <1>31 DEF Next, Install, Commit, Undo, Startup

-----------------------------------------------------------------------------
(* The order of the writes *)

(* No two writes of one WriteEnv disagree about a file *)
Agreeing(e) ==
  /\ e \in Seq(Writes)
  /\ \A i, j \in 1 .. Len(e) :
       e[i].file = e[j].file /\ e[i].file \notin {"prev", "count"} => e[i].value = e[j].value

(* The WriteEnvs of the agent are of this kind *)
LEMMA PlansAgree ==
  /\ \A s \in Slots : Agreeing(WriteEnvInstall(s)) /\ Agreeing(WriteEnvRollback(s))
  /\ Agreeing(WriteEnvClear)
<1>1. ASSUME NEW e, NEW s \in Slots, NEW f, Plan(e, s, f)
      PROVE  Agreeing(e)
  <2>1. e \in Seq(Writes)
    BY <1>1 DEF Plan, SlotWrites
  <2>2. ASSUME NEW i \in 1 .. Len(e), NEW j \in 1 .. Len(e), e[i].file = e[j].file,
               e[i].file \notin {"prev", "count"}
        PROVE  e[i].value = e[j].value
    <3>1. e[i] \in Writes
      BY <2>1, <2>2, ElementOfSeq
    <3>2. CASE e[i].file = "ua"
      BY <1>1, <2>2, <3>2 DEF Plan
    <3>3. CASE e[i].file \in {"part", "slot", "fatPart", "cmdline"}
      BY <1>1, <2>2, <3>3 DEF Plan, SlotWrites
    <3> QED BY <2>2, <3>1, <3>2, <3>3 DEF Writes, WriteFiles
  <2> QED BY <2>1, <2>2 DEF Agreeing
<1>2. Agreeing(WriteEnvClear)
  <2>1. PICK e : e = WriteEnvClear
    OBVIOUS
  <2>2. e \in Seq(Writes) /\ Len(e) = 1
    BY <2>1, Plans DEF Slots
  <2>3. \A i, j \in 1 .. Len(e) : i = j
    BY <2>2
  <2> QED BY <2>1, <2>2, <2>3 DEF Agreeing
<1> QED BY <1>1, <1>2, Plans

(* A write has its effect, and undoes none of the ones before it *)
LEMMA WriteDone ==
  ASSUME FilesOK, NEW w \in Writes, Written(w)
  PROVE  /\ Done(w)'
         /\ \A v \in Writes :
              Done(v) /\ (v.file = w.file /\ v.file \notin {"prev", "count"} => v.value = w.value)
                => Done(v)'
<1>1. fat.cmdline # "none"
  BY DEF FilesOK, Slots
<1> QED BY <1>1 DEF FilesOK, Written, Writes, WriteFiles, Done

(* A WriteEnv goes on with its next file, written or given up *)
LEMMA Advance ==
  ASSUME NEW e, Agreeing(e), UnderWay(e), todo # <<>>, FilesOK, todo' = Tail(todo),
         (Written(Head(todo)) /\ UNCHANGED exposed) \/ "staleFile" \in exposed'
  PROVE  UnderWay(e)'
<1>1. e \in Seq(Writes) /\ Len(e) \in Nat
  BY LenProperties DEF Agreeing
<1>2. PICK k \in 0 .. Len(e) - 1 :
        /\ Head(todo) = e[k + 1] /\ k + 1 \in 1 .. Len(e)
        /\ Tail(todo) = SubSeq(e, k + 2, Len(e))
        /\ "staleFile" \notin exposed => \A j \in 1 .. k : Done(e[j])
  BY <1>1, HeadOfPlan
<1>3. k + 1 \in 0 .. Len(e) /\ (k + 1) + 1 = k + 2
  BY <1>1, <1>2
<1>4. ASSUME "staleFile" \notin exposed', NEW j \in 1 .. k + 1
      PROVE  Done(e[j])'
  <2>1. Written(e[k + 1]) /\ "staleFile" \notin exposed
    BY <1>2, <1>4
  <2>2. e[k + 1] \in Writes /\ j \in 1 .. Len(e) /\ e[j] \in Writes
    <3>1. j \in 1 .. Len(e)
      BY <1>1, <1>2, <1>4
    <3> QED BY <1>1, <1>2, <3>1, ElementOfSeq
  <2>3. CASE j = k + 1
    BY <2>1, <2>2, <2>3, WriteDone
  <2>4. CASE j \in 1 .. k
    <3>1. Done(e[j])
      BY <1>2, <2>1, <2>4
    <3>2. e[j].file = e[k + 1].file /\ e[j].file \notin {"prev", "count"}
            => e[j].value = e[k + 1].value
      BY <1>2, <2>2 DEF Agreeing
    <3>3. PICK v : v = e[j]
      OBVIOUS
    <3> QED BY <2>1, <2>2, <3>1, <3>2, WriteDone
  <2> QED BY <1>2, <1>4, <2>3, <2>4
<1> QED BY <1>2, <1>3, <1>4 DEF UnderWay

(* Nothing is done when a WriteEnv is begun *)
LEMMA Begin ==
  ASSUME NEW e \in Seq(Writes), todo' = e
  PROVE  UnderWay(e)'
<1>1. Len(e) \in Nat /\ 0 \in 0 .. Len(e) /\ 0 + 1 = 1
  BY LenProperties
<1>2. SubSeq(e, 1, Len(e)) = e
  BY SubSeqFull
<1>3. \A j \in 1 .. 0 : FALSE
  OBVIOUS
<1> QED BY <1>1, <1>2, <1>3 DEF UnderWay

(* Each WriteEnv stays the one its caller began *)
LEMMA CallerStep ==
  ASSUME TypeOK, WritesOfCaller, [Next]_vars
  PROVE  WritesOfCaller'
<1>1. FilesOK /\ DeviceOK /\ WriteEnvClear \in Seq(Writes)
  BY TypeParts, Plans DEF Plan, SlotWrites, Slots
<1>2. CASE WriteVar
  <2>1. /\ pc \in Writers /\ todo # <<>> /\ UNCHANGED <<running, board>>
        /\ \/ todo' = <<>> /\ pc' \notin Writers
           \/ /\ todo' = Tail(todo) /\ pc' = pc
              /\ (Written(Head(todo)) /\ UNCHANGED exposed) \/ "staleFile" \in exposed'
    BY <1>2 DEF WriteVar, device, NoFault, world, hardware, Fault, WriteFails, ToRollback, Enter,
      Idle, Writers
  <2>2. CASE pc' \notin Writers
    BY <2>1, <2>2 DEF WritesOfCaller, Writers
  <2>3. CASE pc' = "install"
    <3>1. PICK e : e = WriteEnvInstall(Inactive)
      OBVIOUS
    <3>2. UnderWay(e) /\ Agreeing(e)
      BY <1>1, <2>1, <2>3, <3>1, RunningSlot, PlansAgree DEF WritesOfCaller, Writers
    <3>3. UnderWay(e)'
      BY <1>1, <2>1, <2>3, <3>2, Advance DEF Writers
    <3>4. WriteEnvInstall(Inactive)' = e
      BY <2>1, <3>1 DEF WriteEnvInstall, WriteMenderBootPart, Inactive
    <3>5. UnderWay(WriteEnvInstall(Inactive))'
      BY <3>3, <3>4 DEF UnderWay
    <3> QED BY <2>3, <3>5 DEF WritesOfCaller, Writers
  <2>4. CASE pc' \in {"clearUpgrade", "commitWrite"}
    <3>1. UnderWay(WriteEnvClear)'
      BY <1>1, <2>1, <2>4, PlansAgree, Advance DEF WritesOfCaller, Writers, WriteEnvClear
    <3> QED BY <2>4, <3>1 DEF WritesOfCaller, Writers
  <2>5. CASE pc' = "rollbackWrite"
    <3>1. PICK s \in Slots : UnderWay(WriteEnvRollback(s))
      BY <2>1, <2>5 DEF WritesOfCaller, Writers
    <3>2. PICK e : e = WriteEnvRollback(s)
      OBVIOUS
    <3>3. UnderWay(e)'
      BY <1>1, <2>1, <2>5, <3>1, <3>2, PlansAgree, Advance DEF Writers
    <3>4. WriteEnvRollback(s)' = e
      BY <2>1, <3>2 DEF WriteEnvRollback, WriteMenderBootPart
    <3>5. UnderWay(WriteEnvRollback(s))'
      BY <3>3, <3>4 DEF UnderWay
    <3> QED BY <2>5, <3>5 DEF WritesOfCaller, Writers
  <2> QED BY <2>2, <2>3, <2>4, <2>5 DEF Writers
<1>3. CASE StoreUpdate
  <2>1. CASE pc' = "install"
    <3>1. PICK e : e = WriteEnvInstall(Inactive)
      OBVIOUS
    <3>2. e \in Seq(Writes)
      BY <1>1, <1>3, <3>1, RunningSlot, PlansAgree DEF StoreUpdate, Agreeing
    <3>3. todo' = e /\ UNCHANGED <<running, board>>
      BY <1>3, <2>1, <3>1 DEF StoreUpdate, Call, Idle, device, world, hardware
    <3>4. WriteEnvInstall(Inactive)' = e
      BY <3>1, <3>3 DEF WriteEnvInstall, WriteMenderBootPart, Inactive
    <3>5. UnderWay(WriteEnvInstall(Inactive))'
      BY <3>2, <3>3, <3>4, Begin DEF UnderWay
    <3> QED BY <2>1, <3>5 DEF WritesOfCaller, Writers
  <2> QED BY <1>3, <2>1 DEF StoreUpdate, Call, Idle, WritesOfCaller, Writers
<1>4. CASE Rollback
  <2>1. CASE pc' = "rollbackWrite"
    <3>1. PICK s \in Slots : s = RollbackTarget
      BY <1>1, <1>4, RunningSlot DEF Rollback, RollbackTarget, Active
    <3>2. PICK e : e = WriteEnvRollback(s)
      OBVIOUS
    <3>3. e \in Seq(Writes) /\ todo' = e /\ UNCHANGED board
      BY <1>4, <2>1, <3>1, <3>2, PlansAgree
      DEF Rollback, Call, Enter, world, hardware, Agreeing
    <3>4. WriteEnvRollback(s)' = e
      BY <3>2, <3>3 DEF WriteEnvRollback, WriteMenderBootPart
    <3>5. UnderWay(WriteEnvRollback(s))'
      BY <3>3, <3>4, Begin DEF UnderWay
    <3> QED BY <2>1, <3>5 DEF WritesOfCaller, Writers
  <2> QED BY <1>4, <2>1 DEF Rollback, Call, Enter, WritesOfCaller, Writers
<1>5. CASE InstallUpdate \/ CommitUpdate
  <2>1. CASE pc' \in Writers
    <3>1. todo' = WriteEnvClear /\ pc' \in {"clearUpgrade", "commitWrite"}
      BY <1>5, <2>1 DEF InstallUpdate, CommitUpdate, Call, Enter, ToRollback, Writers
    <3>2. UnderWay(WriteEnvClear)'
      BY <1>1, <3>1, Begin DEF WriteEnvClear
    <3> QED BY <3>1, <3>2 DEF WritesOfCaller, Writers
  <2> QED BY <1>5, <2>1
    DEF InstallUpdate, CommitUpdate, Call, Enter, ToRollback, WritesOfCaller, Writers
<1>6. CASE DeferredReboot \/ PowerLoss \/ AgentCrash
  BY <1>6 DEF DeferredReboot, PowerLoss, AgentCrash, Down, WritesOfCaller, Writers
<1>7. CASE Deploy \/ InstallFails \/ ArtifactRebootEnter \/ RebootStep
  BY <1>7 DEF Deploy, InstallFails, ArtifactRebootEnter, RebootStep, Enter, ToRollback, Down,
    WritesOfCaller, Writers
<1>8. CASE VerifyReboot \/ ArtifactCommitEnter \/ CommitDone \/ Finish
  BY <1>8 DEF VerifyReboot, ArtifactCommitEnter, CommitDone, Finish, Enter, ToRollback, Idle,
    WritesOfCaller, Writers
<1>9. CASE RollbackDone \/ ArtifactRollbackRebootEnter \/ RollbackReboot \/ VerifyRollbackReboot
  BY <1>9 DEF RollbackDone, ArtifactRollbackRebootEnter, RollbackReboot, VerifyRollbackReboot,
    Enter, Idle, Down, WritesOfCaller, Writers
<1>10. CASE Boot \/ BootHealth \/ Watchdog \/ HandleBootCountFallback \/ Resume
  BY <1>10 DEF Boot, BootHealth, Watchdog, HandleBootCountFallback, Resume, BootContinues,
    Enter, ToRollback, Idle, Down, WritesOfCaller, Writers
<1>11. CASE NoUpdate \/ UNCHANGED vars
  <2>1. UNCHANGED <<pc, todo, data, fat, exposed, running, board>>
    BY <1>11 DEF NoUpdate, vars, disk, device, world, hardware
  <2>2. CASE pc = "install"
    <3>1. PICK e : e = WriteEnvInstall(Inactive)
      OBVIOUS
    <3>2. WriteEnvInstall(Inactive)' = e
      BY <2>1, <3>1 DEF WriteEnvInstall, WriteMenderBootPart, Inactive
    <3> QED BY <2>1, <2>2, <3>1, <3>2 DEF WritesOfCaller, Writers, UnderWay, Done
  <2>3. CASE pc = "rollbackWrite"
    <3>1. ASSUME NEW s \in Slots PROVE WriteEnvRollback(s)' = WriteEnvRollback(s)
      BY <2>1 DEF WriteEnvRollback, WriteMenderBootPart
    <3> QED BY <2>1, <2>3, <3>1 DEF WritesOfCaller, Writers, UnderWay, Done
  <2>4. CASE pc \notin {"install", "rollbackWrite"}
    BY <2>1, <2>4 DEF WritesOfCaller, Writers, UnderWay, Done, WriteEnvClear
  <2> QED BY <2>2, <2>3, <2>4
<1> QED BY <1>2, <1>3, <1>4, <1>5, <1>6, <1>7, <1>8, <1>9, <1>10, <1>11
  DEF Next, Install, Commit, Undo, Startup

(* A handler keeps running under its own name *)
LEMMA StoredStep ==
  ASSUME HandledIsStored, [Next]_vars
  PROVE  HandledIsStored'
<1> USE DEF HandledIsStored
<1>1. CASE Deploy \/ NoUpdate \/ StoreUpdate
  BY <1>1 DEF Deploy, NoUpdate, StoreUpdate, vars, Enter, Idle, Call
<1>2. CASE WriteVar
  BY <1>2 DEF WriteVar, WriteFails, Writers, Enter, Idle, ToRollback
<1>3. CASE InstallUpdate \/ InstallFails \/ ArtifactRebootEnter \/ RebootStep
  BY <1>3 DEF InstallUpdate, InstallFails, ArtifactRebootEnter, RebootStep, Enter, Call,
    ToRollback, Down
<1>4. CASE VerifyReboot \/ ArtifactCommitEnter \/ CommitUpdate \/ CommitDone \/ Finish
  BY <1>4 DEF VerifyReboot, ArtifactCommitEnter, CommitUpdate, CommitDone, Finish, Enter, Call,
    ToRollback, Idle
<1>5. CASE \/ Rollback \/ RollbackDone \/ ArtifactRollbackRebootEnter \/ RollbackReboot
           \/ VerifyRollbackReboot
  BY <1>5 DEF Rollback, RollbackDone, ArtifactRollbackRebootEnter, RollbackReboot,
    VerifyRollbackReboot, Enter, Call, Idle, Down
<1>6. CASE Boot \/ BootHealth \/ Watchdog \/ HandleBootCountFallback
  BY <1>6 DEF Boot, BootHealth, Watchdog, HandleBootCountFallback, BootContinues, Down
<1>7. CASE Resume
  BY <1>7 DEF Resume, Enter, ToRollback, Idle
<1>8. CASE DeferredReboot \/ PowerLoss \/ AgentCrash
  BY <1>8 DEF DeferredReboot, PowerLoss, AgentCrash, Down
<1>9. CASE UNCHANGED vars
  BY <1>9 DEF vars
<1> QED BY <1>1, <1>2, <1>3, <1>4, <1>5, <1>6, <1>7, <1>8, <1>9
  DEF Next, Install, Commit, Undo, Startup

(* What boot-health and the agent's start make of the flag and the count *)
LEMMA StartData ==
  ASSUME FilesOK, BootHealth \/ HandleBootCountFallback
  PROVE  /\ data'.ua \in {data.ua, "0"}
         /\ \/ data'.count = data.count \/ data'.count = 0
            \/ ~(data.count + 1 >= MaxBootRetries) /\ data'.count = data.count + 1
<1>1. \/ data' = data \/ data' = [data EXCEPT !.count = 0]
      \/ /\ data' = [data EXCEPT !.count = data.count + 1]
         /\ ~(data.count + 1 >= MaxBootRetries)
      \/ data' = [data EXCEPT !.ua = "0", !.count = 0]
      \/ data' = [data EXCEPT !.part = running]
      \/ data' = [data EXCEPT !.part = running, !.slot = running]
  BY DEF BootHealth, HandleBootCountFallback, Reconcile, disk
<1> QED BY <1>1 DEF FilesOK

(* The boot count stays below the limit *)
LEMMA BootFactsStep ==
  ASSUME TypeOK, WritesOfCaller, BootFacts, [Next]_vars
  PROVE  BootFacts'
<1> USE DEF BootFacts, NoFault, Fault, world, hardware, disk, device
<1>1. FilesOK /\ DeviceOK /\ MaxBootRetries \in Nat \ {0} /\ board \in {"bootscr", "direct"}
  BY TypeParts, BoardAssumption DEF WorldOK
<1>2. CASE WriteVar
  <2>1. CASE Written(Head(todo))
    <3>1. Head(todo) \in Writes /\ (Head(todo).file = "prev" => board = "direct")
      BY <1>1, <1>2, HeadFits DEF WriteVar
    <3>2. data'.count < MaxBootRetries /\ (board = "bootscr" => fat'.prev = fat.prev)
      BY <1>1, <2>1, <3>1 DEF Written, FilesOK, Writes, WriteFiles
    <3> QED BY <1>2, <3>2 DEF WriteVar
  <2> QED BY <1>2, <2>1 DEF WriteVar
<1>3. CASE InstallUpdate \/ ArtifactRollbackRebootEnter
  <2>1. board = "bootscr" => fat'.prev = fat.prev
    BY <1>1, <1>3 DEF InstallUpdate, ArtifactRollbackRebootEnter, RollbackFiles, SwitchedBoot,
      FilesOK
  <2> QED BY <1>3, <2>1 DEF InstallUpdate, ArtifactRollbackRebootEnter
<1>4. CASE ArtifactRebootEnter \/ ArtifactCommitEnter \/ CommitDone
  BY <1>1, <1>4 DEF ArtifactRebootEnter, ArtifactCommitEnter, CommitDone, ClearBackup, FilesOK
<1>5. CASE BootHealth
  <2>1. data'.count < MaxBootRetries
    BY <1>1, <1>5, StartData DEF FilesOK
  <2>2. board = "bootscr" => UNCHANGED <<fat, deferred>>
    BY <1>5 DEF BootHealth
  <2> QED BY <1>5, <2>1, <2>2 DEF BootHealth
<1>6. CASE HandleBootCountFallback
  <2>1. data'.count < MaxBootRetries
    BY <1>1, <1>6, StartData DEF FilesOK
  <2> QED BY <1>1, <1>6, <2>1 DEF HandleBootCountFallback
<1>7. CASE RebootStep \/ DeferredReboot \/ RollbackReboot \/ Watchdog \/ PowerLoss \/ AgentCrash
  BY <1>1, <1>7 DEF RebootStep, DeferredReboot, RollbackReboot, Watchdog, PowerLoss, AgentCrash,
    Down
<1>8. CASE \/ Deploy \/ StoreUpdate \/ InstallFails \/ VerifyReboot \/ CommitUpdate \/ Finish
           \/ Rollback \/ RollbackDone \/ VerifyRollbackReboot \/ Boot \/ Resume
  BY <1>8 DEF Deploy, StoreUpdate, InstallFails, VerifyReboot, CommitUpdate, Finish, Rollback,
    RollbackDone, VerifyRollbackReboot, Boot, Resume
<1>9. CASE NoUpdate \/ UNCHANGED vars
  BY <1>9 DEF NoUpdate, vars
<1> QED BY <1>2, <1>3, <1>4, <1>5, <1>6, <1>7, <1>8, <1>9
  DEF Next, Install, Commit, Undo, Startup

(* The flag is raised by the last write of InstallUpdate only *)
LEMMA FlagStep ==
  ASSUME TypeOK, WritesOfCaller, [Next]_vars,
         data.ua = "0", data'.ua = "1", "staleFile" \notin exposed
  PROVE  BootTarget' = data'.part
<1>1. FilesOK /\ DeviceOK
  BY TypeParts
<1>2. WriteVar /\ Written(Head(todo))
  <2>1. ASSUME UNCHANGED data PROVE FALSE
    BY <2>1
  <2>2. ~BootHealth /\ ~HandleBootCountFallback
    BY <1>1, StartData
  <2>3. ~(Deploy \/ NoUpdate \/ StoreUpdate \/ InstallUpdate \/ InstallFails
            \/ ArtifactRebootEnter \/ RebootStep)
    BY <2>1 DEF Deploy, NoUpdate, StoreUpdate, InstallUpdate, InstallFails, ArtifactRebootEnter,
      RebootStep, disk, vars
  <2>4. ~(VerifyReboot \/ ArtifactCommitEnter \/ CommitUpdate \/ CommitDone \/ Finish)
    BY <2>1 DEF VerifyReboot, ArtifactCommitEnter, CommitUpdate, CommitDone, Finish, disk
  <2>5. ~(Rollback \/ RollbackDone \/ ArtifactRollbackRebootEnter \/ RollbackReboot
            \/ VerifyRollbackReboot)
    BY <2>1 DEF Rollback, RollbackDone, ArtifactRollbackRebootEnter, RollbackReboot,
      VerifyRollbackReboot, disk
  <2>6. ~(Boot \/ Watchdog \/ Resume \/ DeferredReboot \/ PowerLoss \/ AgentCrash)
    BY <2>1 DEF Boot, Watchdog, Resume, DeferredReboot, PowerLoss, AgentCrash, disk
  <2>7. ~UNCHANGED vars
    BY <2>1 DEF vars, disk
  <2>8. WriteVar
    BY <2>2, <2>3, <2>4, <2>5, <2>6, <2>7 DEF Next, Install, Commit, Undo, Startup
  <2> QED BY <2>1, <2>8 DEF WriteVar, disk
<1>3. /\ pc \in Writers /\ todo # <<>> /\ Head(todo) \in Writes /\ UNCHANGED board
  BY <1>1, <1>2, HeadFits DEF WriteVar, NoFault, Fault, world, hardware
<1>4. /\ Head(todo).file = "ua" /\ Head(todo).value = "1"
      /\ data' = [data EXCEPT !.ua = "1"] /\ fat' = fat
  BY <1>1, <1>2, <1>3 DEF Written, FilesOK, Writes, WriteFiles
<1>5. ASSUME NEW e, UnderWay(e), e \in Seq(Writes), NEW s, NEW f, Plan(e, s, f)
      PROVE  /\ f = "1" /\ data.part = s /\ fat.part = s
             /\ board = "direct" => fat.cmdline = s
  <2>1. Len(e) \in Nat /\ Len(e) > 1
    BY <1>5, LenProperties DEF Plan, SlotWrites
  <2>2. PICK k \in 0 .. Len(e) - 1 :
          /\ Head(todo) = e[k + 1] /\ k + 1 \in 1 .. Len(e)
          /\ \A j \in 1 .. k : Done(e[j])
    BY <1>3, <1>5, HeadOfPlan
  <2>3. k + 1 = Len(e)
    BY <1>4, <1>5, <2>2 DEF Plan
  <2>4. f = "1"
    BY <1>4, <1>5, <2>2, <2>3 DEF Plan, W
  <2>5. ASSUME NEW i \in 1 .. Len(e), e[i].file # "ua" PROVE Done(e[i])
    <3>1. i # Len(e)
      BY <1>5, <2>5 DEF Plan, W
    <3>2. i \in 1 .. k
      BY <2>1, <2>2, <2>3, <2>5, <3>1
    <3> QED BY <2>2, <3>2
  <2>6. data.part = s
    <3>1. 1 \in 1 .. Len(e) /\ e[1].file = "part" /\ e[1].value = s
      BY <1>5, <2>1 DEF Plan, SlotWrites, W
    <3> QED BY <2>5, <3>1 DEF Done
  <2>7. fat.part = s
    <3>1. PICK i \in 1 .. Len(e) : e[i].file = "fatPart" /\ e[i].value = s
      BY <1>5 DEF Plan, SlotWrites
    <3> QED BY <2>5, <3>1 DEF Done
  <2>8. ASSUME board = "direct" PROVE fat.cmdline = s
    <3>1. PICK i \in 1 .. Len(e) : e[i].file = "cmdline" /\ e[i].value = s
      BY <1>5, <2>8 DEF Plan, SlotWrites
    <3> QED BY <2>5, <3>1 DEF Done
  <2> QED BY <2>4, <2>6, <2>7, <2>8
<1>6. pc = "install"
  <2>1. ASSUME pc = "rollbackWrite" PROVE FALSE
    <3>1. PICK s \in Slots : UnderWay(WriteEnvRollback(s))
      BY <2>1 DEF WritesOfCaller
    <3>2. Plan(WriteEnvRollback(s), s, "0") /\ WriteEnvRollback(s) \in Seq(Writes)
      BY Plans DEF Plan, SlotWrites
    <3> QED BY <1>5, <3>1, <3>2
  <2>2. ASSUME pc \in {"clearUpgrade", "commitWrite"} PROVE FALSE
    <3>1. PICK e : e = WriteEnvClear
      OBVIOUS
    <3>2. e \in Seq(Writes) /\ Len(e) = 1 /\ e[1] = W("ua", "0") /\ UnderWay(e)
      BY <2>2, <3>1, Plans DEF Slots, WritesOfCaller
    <3>3. PICK k \in 0 .. Len(e) - 1 : Head(todo) = e[k + 1]
      BY <1>3, <3>2, HeadOfPlan
    <3>4. k = 0
      BY <3>2
    <3> QED BY <1>4, <3>2, <3>3, <3>4 DEF W
  <2> QED BY <1>3, <2>1, <2>2 DEF Writers
<1>7. /\ Inactive \in Slots /\ UnderWay(WriteEnvInstall(Inactive))
      /\ Plan(WriteEnvInstall(Inactive), Inactive, "1")
      /\ WriteEnvInstall(Inactive) \in Seq(Writes)
  BY <1>1, <1>6, RunningSlot, Plans DEF WritesOfCaller, Plan, SlotWrites
<1>8. /\ data.part = Inactive /\ fat.part = Inactive
      /\ board = "direct" => fat.cmdline = Inactive
  BY <1>5, <1>7
<1> QED BY <1>1, <1>3, <1>4, <1>8 DEF BootTarget, FilesOK

-----------------------------------------------------------------------------
(* The device stays on its track *)

(* A hole stays open *)
LEMMA HolesStay ==
  ASSUME [Next]_vars, OpenHoles' = {}
  PROVE  /\ OpenHoles = {} /\ board' = board
         /\ \A h \in exposed' : h = "notRebooted" /\ board = "direct"
<1> USE DEF NoFault, Fault, world, hardware
<1>1. CASE WriteVar \/ DeferredReboot \/ PowerLoss \/ AgentCrash
  BY <1>1 DEF WriteVar, DeferredReboot, PowerLoss, AgentCrash, OpenHoles
<1>2. CASE InstallUpdate \/ ArtifactCommitEnter \/ CommitDone \/ RollbackReboot
             \/ HandleBootCountFallback
  BY <1>2 DEF InstallUpdate, ArtifactCommitEnter, CommitDone, RollbackReboot,
    HandleBootCountFallback, OpenHoles
<1>3. CASE Deploy \/ NoUpdate \/ StoreUpdate \/ InstallFails \/ ArtifactRebootEnter \/ RebootStep
  BY <1>3 DEF Deploy, NoUpdate, StoreUpdate, InstallFails, ArtifactRebootEnter, RebootStep, vars,
    OpenHoles
<1>4. CASE VerifyReboot \/ CommitUpdate \/ Finish \/ Rollback \/ RollbackDone
             \/ ArtifactRollbackRebootEnter \/ VerifyRollbackReboot
  BY <1>4 DEF VerifyReboot, CommitUpdate, Finish, Rollback, RollbackDone,
    ArtifactRollbackRebootEnter, VerifyRollbackReboot, OpenHoles
<1>5. CASE Boot \/ BootHealth \/ Watchdog \/ Resume \/ UNCHANGED vars
  BY <1>5 DEF Boot, BootHealth, Watchdog, Resume, vars, OpenHoles
<1> QED BY <1>1, <1>2, <1>3, <1>4, <1>5 DEF Next, Install, Commit, Undo, Startup

(* What the kinds of files say, without their other details *)
LEMMA FilesSay ==
  ASSUME Sound
  PROVE  /\ FilesOK /\ DeviceOK /\ AgentOK
         /\ board \in {"bootscr", "direct"} /\ home \in Slots
         /\ Target \in Slots /\ Target # home /\ Other(Target) = home
         /\ \A s \in Slots : s = home \/ s = Target
         /\ home # "none" /\ Target # "none"
         /\ AtHome => data.ua = "0" /\ data.part = home
         /\ Pending => data.ua = "1" /\ data.part = Target
         /\ TakenBack => data.ua = "0" /\ data.part = Target
         /\ Switched => data.ua = "0" /\ data.part = Target
<1>1. FilesOK /\ DeviceOK /\ AgentOK /\ board \in {"bootscr", "direct"}
  BY TypeParts, BoardAssumption DEF Sound, WorldOK
<1> QED BY <1>1 DEF AgentOK, Target, Other, Slots, AtHome, Pending, TakenBack, Switched

(* and that they go on saying it while nobody changes the files *)
LEMMA FilesSame ==
  ASSUME UNCHANGED <<data, fat, home, board>>
  PROVE  /\ AtHome' = AtHome /\ Pending' = Pending /\ TakenBack' = TakenBack
         /\ Switched' = Switched /\ Target' = Target /\ home' = home
BY DEF AtHome, Pending, TakenBack, Switched, BootTarget, Target

(* Where a WriteEnv stands *)
LEMMA WhileWriting ==
  ASSUME NEW e, NEW s, NEW f, Plan(e, s, f), UnderWay(e), todo # <<>>,
         "staleFile" \notin exposed
  PROVE  /\ Head(todo) \in Writes /\ Tail(todo) # e
         /\ Tail(todo) # <<>> => Head(todo).file # "ua"
         /\ Head(todo).file = "cmdline" => fat.prev # "none"
         /\ Head(todo).file \in {"prev", "cmdline"} => board = "direct"
         /\ todo # e => data.part = s /\ Len(todo) # Len(e)
<1>1. e \in Seq(Writes) /\ Len(e) \in Nat /\ Len(e) > 1
  BY LenProperties DEF Plan, SlotWrites
<1>2. PICK k \in 0 .. Len(e) - 1 :
        /\ Head(todo) = e[k + 1] /\ k + 1 \in 1 .. Len(e)
        /\ Tail(todo) = SubSeq(e, k + 2, Len(e))
        /\ todo = SubSeq(e, k + 1, Len(e))
        /\ \A j \in 1 .. k : Done(e[j])
  BY <1>1, HeadOfPlan
<1>3. Head(todo) \in Writes
  BY <1>1, <1>2, ElementOfSeq
<1>4. Len(todo) = Len(e) - k /\ Len(Tail(todo)) = Len(e) - (k + 1)
  <2>1. \A i \in k + 1 .. Len(e) : e[i] \in Writes
    BY <1>1, <1>2, ElementOfSeq
  <2>2. Len(SubSeq(e, k + 1, Len(e))) = Len(e) - k
    BY <1>1, <1>2, <2>1, SubSeqProperties
  <2>3. todo \in Seq(Writes)
    BY <1>1, <1>2, <2>1, SubSeqProperties
  <2> QED BY <1>1, <1>2, <2>2, <2>3, HeadTailProperties
<1>5. Tail(todo) # e
  <2>1. Len(e) - (k + 1) # Len(e)
    BY <1>1
  <2> QED BY <1>4, <2>1
<1>6. Tail(todo) # <<>> => Head(todo).file # "ua"
  <2>1. SUFFICES ASSUME Head(todo).file = "ua" PROVE Tail(todo) = <<>>
    OBVIOUS
  <2>2. k + 1 = Len(e)
    BY <1>2, <2>1 DEF Plan
  <2> QED BY <1>1, <1>2, <2>2, SubSeqEmpty
<1>7. Head(todo).file = "cmdline" => fat.prev # "none"
  <2>1. SUFFICES ASSUME e[k + 1].file = "cmdline" PROVE fat.prev # "none"
    BY <1>2
  <2>2. k + 1 > 1 /\ e[(k + 1) - 1].file = "prev"
    BY <1>2, <2>1 DEF Plan, SlotWrites
  <2>3. k \in 1 .. k /\ (k + 1) - 1 = k
    BY <1>1, <1>2, <2>2
  <2>4. Done(e[k]) /\ e[k].file = "prev"
    BY <1>2, <2>2, <2>3
  <2> QED BY <2>4 DEF Done
<1>8. Head(todo).file \in {"prev", "cmdline"} => board = "direct"
  BY <1>2 DEF Plan, SlotWrites
<1>9. todo # e => data.part = s /\ Len(todo) # Len(e)
  <2>1. k = 0 => todo = e
    BY <1>1, <1>2, SubSeqFull
  <2>2. ASSUME k > 0 PROVE data.part = s /\ Len(todo) # Len(e)
    <3>1. 1 \in 1 .. k /\ Len(e) - k # Len(e)
      BY <1>1, <2>2
    <3>2. Done(e[1]) /\ e[1] = W("part", s)
      BY <1>2, <3>1 DEF Plan, SlotWrites
    <3> QED BY <1>4, <3>1, <3>2 DEF Done, W
  <2>3. k = 0 \/ k > 0
    BY <1>1
  <2> QED BY <2>1, <2>2, <2>3
<1> QED BY <1>3, <1>5, <1>6, <1>7, <1>8, <1>9

(* A WriteEnv that has come to its end *)
LEMMA AllWritten ==
  ASSUME NEW e, NEW s, NEW f, Plan(e, s, f), UnderWay(e), todo = <<>>,
         "staleFile" \notin exposed, board \in {"bootscr", "direct"}
  PROVE  /\ data.part = s /\ data.slot = s /\ data.ua = f /\ BootTarget = s
         /\ board = "direct" => fat.prev # "none"
<1>1. e \in Seq(Writes) /\ Len(e) \in Nat /\ Len(e) > 1
  BY LenProperties DEF Plan, SlotWrites
<1>2. PICK k \in 0 .. Len(e) :
        todo = SubSeq(e, k + 1, Len(e)) /\ \A j \in 1 .. k : Done(e[j])
  BY DEF UnderWay
<1>3. k = Len(e)
  <2>1. SUFFICES ASSUME k < Len(e) PROVE FALSE
    BY <1>1, <1>2
  <2>2. \A i \in k + 1 .. Len(e) : e[i] \in Writes
    BY <1>1, <1>2, ElementOfSeq
  <2>3. Len(SubSeq(e, k + 1, Len(e))) = Len(e) - k
    <3>1. k + 1 \in Int /\ Len(e) \in Int /\ k + 1 <= Len(e) /\ Len(e) - (k + 1) + 1 = Len(e) - k
      BY <1>1, <2>1
    <3> QED BY <2>2, <3>1, SubSeqProperties
  <2>4. Len(todo) = 0
    BY EmptySeq
  <2>5. Len(e) - k # 0
    BY <1>1, <2>1
  <2> QED BY <1>2, <2>3, <2>4, <2>5
<1>4. \A i \in 1 .. Len(e) : Done(e[i])
  BY <1>2, <1>3
<1>5. data.part = s /\ data.ua = f
  <2>1. 1 \in 1 .. Len(e) /\ Len(e) \in 1 .. Len(e)
    BY <1>1
  <2>2. Done(W("part", s)) /\ Done(W("ua", f))
    BY <1>4, <2>1 DEF Plan, SlotWrites
  <2> QED BY <2>2 DEF Done, W
<1>6. data.slot = s
  <2>1. PICK i \in 1 .. Len(e) : e[i].file = "slot" /\ e[i].value = s
    BY DEF Plan, SlotWrites
  <2> QED BY <1>4, <2>1 DEF Done
<1>7. fat.part = s
  <2>1. PICK i \in 1 .. Len(e) : e[i].file = "fatPart" /\ e[i].value = s
    BY DEF Plan, SlotWrites
  <2> QED BY <1>4, <2>1 DEF Done
<1>8. ASSUME board = "direct" PROVE fat.cmdline = s /\ fat.prev # "none"
  <2>1. PICK i \in 1 .. Len(e) :
          e[i].file = "cmdline" /\ e[i].value = s /\ i > 1 /\ e[i - 1].file = "prev"
    BY <1>8 DEF Plan, SlotWrites
  <2>2. i - 1 \in 1 .. Len(e)
    BY <1>1, <2>1
  <2> QED BY <1>4, <2>1, <2>2 DEF Done
<1> QED BY <1>5, <1>6, <1>7, <1>8 DEF BootTarget

(* All WriteEnvs of Rollback have one length *)
LEMMA RollbackLength ==
  ASSUME NEW s \in Slots, NEW t \in Slots
  PROVE  Len(WriteEnvRollback(s)) = Len(WriteEnvRollback(t))
<1>1. ASSUME NEW r \in Slots
      PROVE  /\ WriteMenderBootPart(r) \in Seq(Writes)
             /\ Len(WriteMenderBootPart(r)) = IF board = "direct" THEN 5 ELSE 3
  <2> DEFINE b == <<W("part", r), W("slot", r), W("fatPart", r)>>
             d == <<W("prev", r), W("cmdline", r)>>
  <2>1. b \in Seq(Writes) /\ Len(b) = 3 /\ d \in Seq(Writes) /\ Len(d) = 2
    <3>1. \A x \in WriteFiles : W(x, r) \in Writes
      BY <1>1 DEF W, Writes
    <3> QED BY <3>1 DEF WriteFiles
  <2> HIDE DEF b, d
  <2>2. Len(b \o d) = Len(b) + Len(d) /\ b \o <<>> = b
    BY <2>1, ConcatProperties, ConcatEmptySeq
  <2>3. Len(b) + Len(d) = 5
    BY <2>1
  <2>4. WriteMenderBootPart(r) = b \o (IF board = "direct" THEN d ELSE <<>>)
    BY DEF WriteMenderBootPart, b, d
  <2>5. Len(WriteMenderBootPart(r)) = IF board = "direct" THEN 5 ELSE 3
    <3>1. CASE board = "direct"
      BY <2>2, <2>3, <2>4, <3>1
    <3>2. CASE board # "direct"
      BY <2>1, <2>2, <2>4, <3>2
    <3> QED BY <3>1, <3>2
  <2> QED BY <1>1, <2>5, PartWrites DEF SlotWrites
<1>2. ASSUME NEW r \in Slots
      PROVE  Len(WriteEnvRollback(r)) = IF board = "direct" THEN 11 ELSE 7
  <2>1. PICK p : p = WriteMenderBootPart(r)
    OBVIOUS
  <2>2. PICK c : c = WriteEnvClear
    OBVIOUS
  <2>3. p \in Seq(Writes) /\ Len(p) = (IF board = "direct" THEN 5 ELSE 3)
        /\ c \in Seq(Writes) /\ Len(c) = 1
    BY <1>1, <1>2, <2>1, <2>2, Plans
  <2>4. p \o p \in Seq(Writes) /\ Len(p \o p) = Len(p) + Len(p)
    BY <2>3, ConcatProperties
  <2>5. Len((p \o p) \o c) = Len(p \o p) + Len(c)
    BY <2>3, <2>4, ConcatProperties
  <2>6. WriteEnvRollback(r) = (p \o p) \o c
    BY <2>1, <2>2 DEF WriteEnvRollback, WriteEnvClear
  <2> QED BY <2>3, <2>4, <2>5, <2>6
<1> QED BY <1>2

(* A handler between two writes of its WriteEnv, or after the last one *)
LEMMA Interrupted ==
  ASSUME Sound, OnTrack, "staleFile" \notin exposed
  PROVE  /\ pc = "install" /\ todo = <<>> => Pending
         /\ pc = "rollbackWrite" /\ todo = <<>> => AtHome
         /\ pc \in {"install", "rollbackWrite"} /\ Torn = {} => AtHome \/ Pending
         /\ pc = "commitWrite" /\ InCommitWindow = {} => Pending
<1>1. /\ FilesOK /\ DeviceOK /\ AgentOK /\ board \in {"bootscr", "direct"} /\ home \in Slots
      /\ Target \in Slots /\ Target # home /\ Other(Target) = home
      /\ Writing /\ WritesOfCaller /\ BootFacts /\ Handled
  BY FilesSay DEF OnTrack, Sound
<1>2. ASSUME pc = "install"
      PROVE  /\ running = home /\ Inactive = Target /\ Plan(WriteEnvInstall(Inactive), Target, "1")
             /\ UnderWay(WriteEnvInstall(Inactive))
  BY <1>1, <1>2, Plans DEF Handled, Inactive, Target, WritesOfCaller
<1>3. ASSUME pc = "rollbackWrite"
      PROVE  Plan(WriteEnvRollback(home), home, "0") /\ UnderWay(WriteEnvRollback(home))
  BY <1>1, <1>3, Plans DEF Writing
<1>4. pc = "install" /\ todo = <<>> => Pending
  <2>1. SUFFICES ASSUME pc = "install", todo = <<>> PROVE Pending
    OBVIOUS
  <2>2. /\ data.part = Target /\ data.slot = Target /\ data.ua = "1" /\ BootTarget = Target
        /\ board = "direct" => fat.prev # "none"
    BY <1>1, <1>2, <2>1, AllWritten
  <2> QED BY <1>1, <2>1, <2>2 DEF Pending, Writing
<1>5. pc = "rollbackWrite" /\ todo = <<>> => AtHome
  <2>1. SUFFICES ASSUME pc = "rollbackWrite", todo = <<>> PROVE AtHome
    OBVIOUS
  <2>2. data.part = home /\ data.slot = home /\ data.ua = "0" /\ BootTarget = home
    BY <1>1, <1>3, <2>1, AllWritten
  <2> QED BY <1>1, <2>1, <2>2 DEF AtHome, Writing, BootFacts
<1>6. pc = "install" /\ Torn = {} => AtHome \/ Pending
  <2>1. SUFFICES ASSUME pc = "install", Torn = {}, todo # <<>> PROVE AtHome
    BY <1>4
  <2>2. data.part = running
    BY <2>1 DEF Torn
  <2>3. todo = WriteEnvInstall(Inactive)
    BY <1>1, <1>2, <2>1, <2>2, WhileWriting
  <2> QED BY <1>1, <2>1, <2>3 DEF Writing
<1>7. pc = "rollbackWrite" /\ Torn = {} => AtHome \/ Pending
  <2>1. SUFFICES ASSUME pc = "rollbackWrite", Torn = {}, todo # <<>> PROVE Pending
    BY <1>5
  <2>2. todo = WriteEnvRollback(RollbackTarget) /\ RollbackTarget \in Slots
    BY <1>1, <2>1, RunningSlot DEF Torn, RollbackTarget, Active
  <2>3. Len(todo) = Len(WriteEnvRollback(home))
    BY <1>1, <2>2, RollbackLength
  <2>4. todo = WriteEnvRollback(home)
    BY <1>3, <2>1, <2>3, WhileWriting
  <2> QED BY <1>1, <2>1, <2>4 DEF Writing
<1>8. pc = "commitWrite" /\ InCommitWindow = {} => Pending
  <2>1. SUFFICES ASSUME pc = "commitWrite", InCommitWindow = {} PROVE Pending
    OBVIOUS
  <2>2. data.ua # "0"
    BY <1>1, <2>1 DEF InCommitWindow, HasUpdate, FilesOK
  <2> QED BY <1>1, <2>1, <2>2, FilesSay DEF Writing, Committed, Switched
<1> QED BY <1>4, <1>5, <1>6, <1>7, <1>8

(* Steps that leave the files as they are *)
LEMMA QuietOnTrack ==
  ASSUME Sound, OnTrack,
         \/ NoUpdate \/ InstallFails \/ RebootStep \/ VerifyReboot \/ RollbackReboot
         \/ VerifyRollbackReboot \/ Watchdog \/ UNCHANGED vars, board' = board,
         \A h \in exposed' : h = "notRebooted" /\ board = "direct"
  PROVE  OnTrack'
<1> USE FilesSay, FilesSame DEF Sound, disk, device, world, hardware
<1>1. UNCHANGED <<data, fat, home, board>>
  BY DEF NoUpdate, InstallFails, RebootStep, VerifyReboot, RollbackReboot, VerifyRollbackReboot,
    Watchdog, vars
<1>2. CASE NoUpdate \/ UNCHANGED vars
  <2>1. UNCHANGED <<todo, pc, running, stored, deferred, oneshot, exposed>>
    BY <1>2 DEF NoUpdate, vars
  <2>2. /\ WriteEnvInstall(Inactive)' = WriteEnvInstall(Inactive)
        /\ WriteEnvRollback(home)' = WriteEnvRollback(home)
    BY <1>1, <2>1 DEF WriteEnvInstall, WriteEnvRollback, WriteMenderBootPart, Inactive
  <2>3. UnderWay(WriteEnvRollback(home)) => UnderWay(WriteEnvRollback(home))'
    BY <1>1, <2>1, <2>2 DEF UnderWay, Done
  <2>4. Writing'
    BY <1>1, <2>1, <2>2, <2>3 DEF OnTrack, Writing, Committed
  <2> QED
    BY <1>1, <2>1, <2>4 DEF OnTrack, Recorded, Handled, Rebooted, Reboots, Untouched, Undecided,
      FallenBack, Committed
<1>3. CASE InstallFails
  BY <1>1, <1>3 DEF InstallFails, OnTrack, Recorded, Handled, Rebooted, Writing, Reboots,
    Untouched, Undecided, FallenBack, Committed, Writers, HandledIsStored, DeviceOK, HasUpdate
<1>4. CASE RebootStep
  BY <1>1, <1>4 DEF RebootStep, Down, Enter, ToRollback, OnTrack, Recorded, Handled, Rebooted,
    Writing, Reboots, Untouched, Undecided, FallenBack, Committed, Writers, HandledIsStored,
    DeviceOK, HasUpdate
<1>5. CASE VerifyReboot
  BY <1>1, <1>5 DEF VerifyReboot, Enter, ToRollback, OnTrack, Recorded, Handled, Rebooted,
    Writing, Reboots, Untouched, Undecided, FallenBack, Committed, Writers, HandledIsStored,
    DeviceOK, HasUpdate
<1>6. CASE RollbackReboot
  BY <1>1, <1>6 DEF RollbackReboot, Down, OnTrack, Recorded, Handled, Rebooted, Writing,
    Reboots, Untouched, Undecided, FallenBack, Committed, Writers, HandledIsStored, DeviceOK,
    HasUpdate
<1>7. CASE VerifyRollbackReboot
  BY <1>1, <1>7 DEF VerifyRollbackReboot, Enter, Idle, OnTrack, Recorded, Handled, Rebooted,
    Writing, Reboots, Untouched, Undecided, FallenBack, Committed, Writers, HandledIsStored,
    DeviceOK, HasUpdate
<1>8. CASE Watchdog
  BY <1>1, <1>8 DEF Watchdog, Down, OnTrack, Recorded, Handled, Rebooted, Writing, Reboots,
    Untouched, Undecided, FallenBack, Committed, Writers, HandledIsStored, DeviceOK, HasUpdate
<1> QED BY <1>2, <1>3, <1>4, <1>5, <1>6, <1>7, <1>8

(* The device goes down *)
LEMMA PowerLossOnTrack ==
  ASSUME Sound, OnTrack, PowerLoss, board' = board,
         \A h \in exposed' : h = "notRebooted" /\ board = "direct"
  PROVE  OnTrack'
<1>1. UNCHANGED <<data, fat, home, board>>
  BY DEF PowerLoss, disk
<1>2. Torn = {} /\ InCommitWindow = {} /\ "staleFile" \notin exposed
  BY DEF PowerLoss, Torn, InCommitWindow
<1>3. /\ pc \in {"install", "rollbackWrite"} => AtHome \/ Pending
      /\ pc = "commitWrite" => Pending
  BY <1>2, Interrupted
<1>4. HandledIsStored /\ DeviceOK
  BY FilesSay DEF Sound
<1> QED
  BY <1>1, <1>3, <1>4, FilesSay, FilesSame DEF PowerLoss, Down, OnTrack, Recorded, Handled,
    Rebooted, Writing, Reboots, Untouched, Undecided, FallenBack, Committed, Writers,
    HandledIsStored, DeviceOK, HasUpdate

(* The agent dies, and is started again *)
LEMMA AgentCrashOnTrack ==
  ASSUME Sound, OnTrack, AgentCrash, board' = board,
         \A h \in exposed' : h = "notRebooted" /\ board = "direct"
  PROVE  OnTrack'
<1>1. UNCHANGED <<data, fat, home, board>>
  BY DEF AgentCrash, disk
<1>2. Torn = {} /\ InCommitWindow = {} /\ "staleFile" \notin exposed
  BY DEF AgentCrash, Torn, InCommitWindow
<1>3. /\ pc \in {"install", "rollbackWrite"} => AtHome \/ Pending
      /\ pc = "commitWrite" => Pending
  BY <1>2, Interrupted
<1>4. HandledIsStored /\ DeviceOK
  BY FilesSay DEF Sound
<1>5. stored # "rollbackReboot" /\ (stored = "reboot" => board = "direct")
  BY DEF AgentCrash
<1> QED
  BY <1>1, <1>3, <1>4, <1>5, FilesSay, FilesSame DEF AgentCrash, AgentUp, OnTrack, Recorded,
    Handled, Rebooted, Writing, Reboots, Untouched, Undecided, FallenBack, Committed, Writers,
    HandledIsStored, DeviceOK, HasUpdate

(* The firmware boots what the files say *)
LEMMA BootOnTrack ==
  ASSUME Sound, OnTrack, Boot, board' = board,
         \A h \in exposed' : h = "notRebooted" /\ board = "direct"
  PROVE  OnTrack'
<1>1. UNCHANGED <<data, fat, home, board>>
  BY DEF Boot, disk
<1>2. HandledIsStored /\ DeviceOK /\ AgentOK
  BY FilesSay DEF Sound
<1>3. /\ AtHome \/ TakenBack => FirmwareSlot = home
      /\ Pending \/ Switched => FirmwareSlot = Target
  <2>1. oneshot = "armed" => Pending /\ fat.try = Target
    BY DEF OnTrack, Reboots
  <2>2. /\ AtHome \/ TakenBack => BootTarget = home
        /\ Pending \/ Switched => BootTarget = Target
    BY DEF AtHome, TakenBack, Pending, Switched
  <2> QED BY <2>1, <2>2, FilesSay DEF FirmwareSlot
<1>4. UNCHANGED <<deferred, stored, todo>> /\ oneshot' = "clear" /\ pc = "off" /\ running = "none"
  BY <1>2 DEF Boot, DeviceOK
<1>5. \/ UNCHANGED <<pc, running>>
      \/ pc' = "boothealth" /\ running' = FirmwareSlot
  BY DEF Boot
<1>6. AtHome \/ Pending \/ TakenBack \/ Switched
  BY <1>2, <1>4 DEF OnTrack, Recorded, Untouched, Undecided, FallenBack, Committed, AgentOK
<1> QED
  BY <1>1, <1>2, <1>3, <1>4, <1>5, <1>6, FilesSay, FilesSame DEF OnTrack, Recorded, Handled,
    Rebooted, Writing, Reboots, Untouched, Undecided, FallenBack, Committed, Writers, HasUpdate

(* The agent goes on where its database says *)
LEMMA ResumeOnTrack ==
  ASSUME Sound, OnTrack, Resume, board' = board,
         \A h \in exposed' : h = "notRebooted" /\ board = "direct"
  PROVE  OnTrack'
<1>1. UNCHANGED <<data, fat, home, board, running, oneshot, deferred, todo>> /\ pc = "resume"
  BY DEF Resume, disk, device
<1>2. HandledIsStored /\ DeviceOK /\ AgentOK
  BY FilesSay DEF Sound
<1>3. \/ stored = "none" /\ pc' = "idle" /\ stored' = "none"
      \/ stored = "store" /\ pc' = "idle" /\ stored' = "none"
      \/ stored = "reboot" /\ pc' = "verifyReboot" /\ stored' = "afterReboot"
      \/ stored = "rollbackReboot" /\ pc' = "verifyRollbackReboot" /\ stored' = "rollbackReboot"
      \/ stored = "afterCommit" /\ pc' = "finish" /\ stored' = "afterCommit"
      \/ /\ stored \in {"install", "afterReboot", "commit", "rollback"}
         /\ pc' = "rollback" /\ stored' = "rollback"
  BY <1>2 DEF Resume, Enter, Idle, ToRollback, AgentOK
<1> QED
  BY <1>1, <1>2, <1>3, FilesSay, FilesSame DEF OnTrack, Recorded, Handled, Rebooted, Writing,
    Reboots, Untouched, Undecided, FallenBack, Committed, Writers, DeviceOK, HasUpdate

(* Rollback has written its last file *)
LEMMA RollbackDoneOnTrack ==
  ASSUME Sound, OnTrack, RollbackDone, board' = board,
         \A h \in exposed' : h = "notRebooted" /\ board = "direct"
  PROVE  OnTrack'
<1>1. UNCHANGED <<data, fat, home, board>> /\ HandledIsStored /\ DeviceOK
  BY FilesSay DEF RollbackDone, disk, Sound
<1>2. AtHome
  <2>1. "staleFile" \notin exposed
    BY DEF RollbackDone
  <2> QED BY <2>1, Interrupted DEF RollbackDone
<1> QED
  BY <1>1, <1>2, FilesSay, FilesSame DEF RollbackDone, Enter, device, OnTrack, Recorded,
    Handled, Rebooted, Writing, Reboots, Untouched, Undecided, FallenBack, Committed, Writers,
    HandledIsStored, DeviceOK, HasUpdate

(* A deployment begins *)
LEMMA DeployOnTrack ==
  ASSUME Sound, OnTrack, Deploy, board' = board,
         \A h \in exposed' : h = "notRebooted" /\ board = "direct"
  PROVE  OnTrack'
<1>1. running = home /\ HandledIsStored /\ DeviceOK
  BY FilesSay DEF Deploy, Sound, OnTrack, Recorded, Untouched, HandledIsStored, DeviceOK
<1>2. UNCHANGED <<data, fat, home, board>>
  BY <1>1 DEF Deploy, disk
<1> QED
  BY <1>1, <1>2, FilesSay, FilesSame DEF Deploy, Enter, device, OnTrack, Recorded, Handled,
    Rebooted, Writing, Reboots, Untouched, Undecided, FallenBack, Committed, Writers,
    HandledIsStored, DeviceOK, HasUpdate

(* The image is stored, and its WriteEnv begins *)
LEMMA StoreUpdateOnTrack ==
  ASSUME Sound, OnTrack, StoreUpdate, board' = board,
         \A h \in exposed' : h = "notRebooted" /\ board = "direct"
  PROVE  OnTrack'
<1>1. UNCHANGED <<data, fat, home, board, running, deferred, oneshot>>
  BY DEF StoreUpdate, disk, device
<1>2. HandledIsStored /\ DeviceOK /\ pc = "store" /\ stored = "store" /\ AtHome /\ running = home
  BY FilesSay DEF StoreUpdate, Sound, OnTrack, Recorded, Untouched, HandledIsStored, DeviceOK
<1>3. /\ data.ua = "0" /\ fat.prev \in {"none", home}
      /\ board = "direct" => fat.cmdline = home
  BY <1>2 DEF AtHome, BootTarget
<1>4. \/ pc' = "install" /\ stored' = "install"
      \/ pc' = "idle" /\ stored' = "none"
  BY DEF StoreUpdate, Call, Idle
<1>5. deferred = "none" /\ oneshot # "armed"
  BY <1>2 DEF OnTrack, Reboots
<1> QED
  BY <1>1, <1>2, <1>3, <1>4, <1>5, FilesSay, FilesSame DEF OnTrack, Recorded, Handled, Rebooted,
    Writing, Reboots, Untouched, Undecided, FallenBack, Committed, Writers, HasUpdate

(* CommitUpdate begins to clear the flag *)
LEMMA CommitUpdateOnTrack ==
  ASSUME Sound, OnTrack, CommitUpdate, board' = board,
         \A h \in exposed' : h = "notRebooted" /\ board = "direct"
  PROVE  OnTrack'
<1>1. UNCHANGED <<data, fat, home, board, running, deferred, oneshot>>
  BY DEF CommitUpdate, disk, device
<1>2. /\ HandledIsStored /\ DeviceOK /\ pc = "commit" /\ stored = "commit" /\ Pending
      /\ running = Target /\ deferred = "none" /\ oneshot # "armed"
  BY FilesSay DEF CommitUpdate, Sound, OnTrack, Handled, Reboots, HandledIsStored
<1>3. pc' = "commitWrite" /\ stored' = "commit" /\ todo' = WriteEnvClear
  BY <1>2, FilesSay DEF CommitUpdate, HasUpdate, Call
<1>4. WriteEnvClear # <<>>
  <2>1. Len(WriteEnvClear) = 1 /\ Len(<<>>) = 0
    BY FilesSay, Plans, EmptySeq
  <2> QED BY <2>1
<1>5. Pending' /\ Target' = Target
  BY <1>1, <1>2, FilesSame
<1>6. Recorded' /\ Handled' /\ Rebooted'
  BY <1>1, <1>2, <1>3, <1>5 DEF Recorded, Handled, Rebooted
<1>7. Writing' /\ Reboots'
  BY <1>1, <1>2, <1>3, <1>4, <1>5 DEF Writing, Reboots
<1> QED BY <1>6, <1>7 DEF OnTrack

(* A committed update makes its slot the home of the device *)
LEMMA FinishOnTrack ==
  ASSUME Sound, OnTrack, Finish, board' = board,
         \A h \in exposed' : h = "notRebooted" /\ board = "direct"
  PROVE  OnTrack'
<1>1. UNCHANGED <<data, fat, board, running, deferred, oneshot, todo>>
  BY DEF Finish, disk, device
<1>2. /\ HandledIsStored /\ DeviceOK /\ Switched /\ fat.prev = "none" /\ running = Target
      /\ deferred = "none" /\ oneshot # "armed"
  BY FilesSay DEF Finish, Sound, OnTrack, Recorded, Committed, Reboots, HandledIsStored, DeviceOK
<1>3. home' = Target /\ pc' = "idle" /\ stored' = "none"
  BY <1>2 DEF Finish, Idle
<1>4. AtHome'
  BY <1>1, <1>2, <1>3 DEF AtHome, Switched, BootTarget
<1>5. ~Pending'
  BY <1>4 DEF AtHome, Pending
<1> QED
  BY <1>1, <1>2, <1>3, <1>4, <1>5, FilesSay DEF OnTrack, Recorded, Handled, Rebooted, Writing,
    Reboots, Untouched, Undecided, FallenBack, Committed, Writers, HasUpdate

(* Rollback begins to write the slot the device came from *)
LEMMA RollbackOnTrack ==
  ASSUME Sound, OnTrack, Rollback, board' = board,
         \A h \in exposed' : h = "notRebooted" /\ board = "direct"
  PROVE  OnTrack'
<1>1. UNCHANGED <<data, fat, home, board, running, deferred, oneshot, exposed>>
  BY DEF Rollback, disk, device
<1>2. /\ HandledIsStored /\ DeviceOK /\ pc = "rollback" /\ stored = "rollback"
      /\ (AtHome \/ Pending) /\ oneshot # "armed"
  BY FilesSay DEF Rollback, Sound, OnTrack, Recorded, FallenBack, Reboots, HandledIsStored
<1>3. CASE HasUpdate
  <2>1. Pending /\ data.part = Target /\ data.ua = "1" /\ (board = "direct" => fat.prev = home)
    BY <1>2, <1>3, FilesSay DEF HasUpdate, Pending
  <2>2. RollbackTarget = home
    BY <1>2, <2>1, FilesSay DEF RollbackTarget, Active, Inactive, DeviceOK, Other, Slots
  <2>3. PICK e : e = WriteEnvRollback(home)
    OBVIOUS
  <2>4. todo' = e /\ pc' = "rollbackWrite" /\ stored' = "rollback" /\ e \in Seq(Writes)
    BY <1>2, <1>3, <2>2, <2>3, FilesSay, PlansAgree DEF Rollback, Call, Agreeing
  <2>5. WriteEnvRollback(home)' = e
    BY <1>1, <2>3 DEF WriteEnvRollback, WriteMenderBootPart
  <2>6. UnderWay(WriteEnvRollback(home))'
    BY <2>4, <2>5, Begin DEF UnderWay
  <2> QED
    BY <1>1, <1>2, <2>1, <2>4, <2>6, FilesSay, FilesSame DEF OnTrack, Recorded, Handled,
      Rebooted, Writing, Reboots, Untouched, Undecided, FallenBack, Committed, Writers, HasUpdate
<1>4. CASE ~HasUpdate
  <2>1. AtHome /\ pc' = "rollbackEnter" /\ stored' = "rollbackReboot"
    BY <1>2, <1>4, FilesSay DEF HasUpdate, Rollback, Enter
  <2> QED
    BY <1>1, <1>2, <2>1, FilesSay, FilesSame DEF OnTrack, Recorded, Handled, Rebooted, Writing,
      Reboots, Untouched, Undecided, FallenBack, Committed, Writers, HasUpdate
<1> QED BY <1>3, <1>4

(* InstallUpdate ends with the script that switches the slot *)
LEMMA InstallUpdateOnTrack ==
  ASSUME Sound, OnTrack, InstallUpdate, board' = board,
         \A h \in exposed' : h = "notRebooted" /\ board = "direct"
  PROVE  OnTrack'
<1>1. /\ HandledIsStored /\ DeviceOK /\ FilesOK /\ pc = "install" /\ running = home
      /\ "staleFile" \notin exposed /\ todo = <<>>
  BY FilesSay DEF InstallUpdate, Sound, OnTrack, Handled
<1>2. Pending /\ deferred = "none" /\ oneshot # "armed"
  BY <1>1, Interrupted DEF OnTrack, Reboots
<1>3. /\ fat' = IF script = "present" THEN SwitchedBoot(Inactive) ELSE fat
      /\ pc' = "rebootEnter" /\ stored' = "reboot"
      /\ UNCHANGED <<data, home, board, running, deferred, oneshot, todo>>
  BY DEF InstallUpdate, Enter, device
<1>4. Inactive = Target
  BY <1>1 DEF Inactive, Target
<1>5. Pending' /\ Target' = Target
  BY <1>1, <1>2, <1>3, <1>4, FilesSay DEF Pending, BootTarget, SwitchedBoot, Target, FilesOK
<1> QED
  BY <1>1, <1>2, <1>3, <1>5, FilesSay DEF OnTrack, Recorded, Handled, Rebooted, Writing,
    Reboots, Untouched, Undecided, FallenBack, Committed, Writers, HasUpdate

(* The script before the reboot names the slot once more *)
LEMMA ArtifactRebootEnterOnTrack ==
  ASSUME Sound, OnTrack, ArtifactRebootEnter, board' = board,
         \A h \in exposed' : h = "notRebooted" /\ board = "direct"
  PROVE  OnTrack'
<1>1. /\ HandledIsStored /\ DeviceOK /\ FilesOK /\ pc = "rebootEnter" /\ stored = "reboot"
      /\ running = home /\ Pending /\ data.part = Target
      /\ deferred = "none" /\ oneshot # "armed"
  BY FilesSay DEF ArtifactRebootEnter, Sound, OnTrack, Handled, Reboots, HandledIsStored
<1>2. /\ pc' = "reboot" /\ UNCHANGED <<data, home, board, running, oneshot, todo, stored>>
      /\ \/ UNCHANGED <<fat, deferred>>
         \/ /\ board = "direct" /\ fat' = [fat EXCEPT !.try = Target] /\ deferred' = Target
         \/ /\ board # "direct" /\ fat' = [fat EXCEPT !.part = Target] /\ UNCHANGED deferred
  BY <1>1 DEF ArtifactRebootEnter
<1>3. Pending' /\ Target' = Target /\ (deferred' # "none" => fat'.try = Target)
  BY <1>1, <1>2, FilesSay DEF Pending, BootTarget, Target, FilesOK
<1> QED
  BY <1>1, <1>2, <1>3, FilesSay DEF OnTrack, Recorded, Handled, Rebooted, Writing, Reboots,
    Untouched, Undecided, FallenBack, Committed, Writers, HasUpdate

(* The reboot in the background comes while the agent waits for it *)
LEMMA DeferredRebootOnTrack ==
  ASSUME Sound, OnTrack, DeferredReboot, board' = board,
         \A h \in exposed' : h = "notRebooted" /\ board = "direct"
  PROVE  OnTrack'
<1>1. stored = "reboot" /\ HandledIsStored /\ DeviceOK /\ FilesOK
  BY FilesSay DEF DeferredReboot, Sound
<1>2. /\ board = "direct" /\ pc = "reboot" /\ deferred = Target /\ fat.try = Target /\ Pending
      /\ oneshot # "armed"
  BY <1>1 DEF DeferredReboot, OnTrack, Reboots, Handled, HandledIsStored
<1>3. /\ pc' = "off" /\ running' = "none" /\ deferred' = "none"
      /\ UNCHANGED <<data, home, board, stored>>
      /\ \/ oneshot' = "armed" /\ UNCHANGED fat
         \/ fat' = PermanentCmdline(Target) /\ UNCHANGED oneshot
  BY <1>2 DEF DeferredReboot, Down
<1>4. Pending' /\ Target' = Target
  BY <1>1, <1>2, <1>3, FilesSay DEF Pending, BootTarget, Target, PermanentCmdline, FilesOK
<1> QED
  BY <1>1, <1>2, <1>3, <1>4, FilesSay DEF OnTrack, Recorded, Handled, Rebooted, Writing,
    Reboots, Untouched, Undecided, FallenBack, Committed, Writers, HasUpdate

(* The script before the commit makes the running slot permanent *)
LEMMA ArtifactCommitEnterOnTrack ==
  ASSUME Sound, OnTrack, ArtifactCommitEnter, board' = board,
         \A h \in exposed' : h = "notRebooted" /\ board = "direct"
  PROVE  OnTrack'
<1>1. /\ HandledIsStored /\ DeviceOK /\ FilesOK /\ pc = "commitEnter" /\ stored = "commit"
      /\ Pending /\ data.part = Target /\ running \in Slots
      /\ deferred = "none" /\ oneshot # "armed"
  BY FilesSay, RunningSlot DEF ArtifactCommitEnter, Sound, OnTrack, Handled, Reboots,
    HandledIsStored
<1>2. board # "direct" => running = Target
  BY <1>1, FilesSay DEF OnTrack, Rebooted, Slots
<1>3. UNCHANGED <<data, home, board, running, deferred, oneshot, todo>>
  BY DEF ArtifactCommitEnter, device
<1>4. CASE board = "direct" /\ running # Target
  <2>1. pc' = "rollback" /\ stored' = "rollback" /\ UNCHANGED fat
    BY <1>1, <1>4 DEF ArtifactCommitEnter, ToRollback, Enter
  <2> QED
    BY <1>1, <1>3, <2>1, FilesSay, FilesSame DEF OnTrack, Recorded, Handled, Rebooted, Writing,
      Reboots, Untouched, Undecided, FallenBack, Committed, Writers, HasUpdate
<1>5. CASE running = Target
  <2>1. /\ pc' = "commit" /\ stored' = "commit"
        /\ fat' = IF board = "direct" THEN PermanentCmdline(Target) ELSE fat
    BY <1>1, <1>5 DEF ArtifactCommitEnter
  <2>2. Pending' /\ Target' = Target
    BY <1>1, <1>3, <2>1, FilesSay DEF Pending, BootTarget, Target, PermanentCmdline, FilesOK
  <2> QED
    BY <1>1, <1>3, <1>5, <2>1, <2>2, FilesSay DEF OnTrack, Recorded, Handled, Rebooted, Writing,
      Reboots, Untouched, Undecided, FallenBack, Committed, Writers, HasUpdate
<1> QED BY <1>2, <1>4, <1>5

(* The commit drops the backup *)
LEMMA CommitDoneOnTrack ==
  ASSUME Sound, OnTrack, CommitDone, board' = board,
         \A h \in exposed' : h = "notRebooted" /\ board = "direct"
  PROVE  OnTrack'
<1>1. /\ HandledIsStored /\ DeviceOK /\ FilesOK /\ BootFacts /\ Switched /\ running = Target
      /\ deferred = "none" /\ oneshot # "armed" /\ board \in {"bootscr", "direct"}
  BY FilesSay DEF CommitDone, Sound, OnTrack, Handled, Reboots, Writing, Committed
<1>2. /\ pc' = "finish" /\ stored' = "afterCommit"
      /\ UNCHANGED <<data, home, board, running, deferred, oneshot, todo>>
      /\ fat' = IF board = "direct" THEN [fat EXCEPT !.prev = "none"] ELSE fat
  BY DEF CommitDone, Enter, device, ClearBackup
<1>3. Switched' /\ Target' = Target /\ fat'.prev = "none" /\ ~Pending'
  BY <1>1, <1>2 DEF Switched, Pending, BootTarget, Target, FilesOK, BootFacts
<1> QED
  BY <1>1, <1>2, <1>3, FilesSay DEF OnTrack, Recorded, Handled, Rebooted, Writing, Reboots,
    Untouched, Undecided, FallenBack, Committed, Writers, HasUpdate

(* The script before the rollback reboot keeps the device at home *)
LEMMA ArtifactRollbackRebootEnterOnTrack ==
  ASSUME Sound, OnTrack, ArtifactRollbackRebootEnter, board' = board,
         \A h \in exposed' : h = "notRebooted" /\ board = "direct"
  PROVE  OnTrack'
<1>1. /\ HandledIsStored /\ DeviceOK /\ FilesOK /\ pc = "rollbackEnter"
      /\ stored = "rollbackReboot" /\ AtHome /\ oneshot # "armed"
      /\ board \in {"bootscr", "direct"} /\ home \in Slots
  BY FilesSay DEF ArtifactRollbackRebootEnter, Sound, OnTrack, Recorded, Reboots, HandledIsStored
<1>2. /\ pc' = "rollbackReboot"
      /\ UNCHANGED <<data, home, board, running, deferred, oneshot, todo, stored>>
      /\ fat' \in {fat, RollbackFiles(fat), SwitchedBoot(home), RollbackFiles(SwitchedBoot(home))}
  <2>1. data.part = home
    BY <1>1, FilesSay
  <2> QED BY <1>1, <2>1 DEF ArtifactRollbackRebootEnter, device
<1>3. ASSUME NEW f \in {fat, SwitchedBoot(home)}
      PROVE  /\ f.part = (IF board = "direct" THEN fat.part ELSE home)
             /\ board = "direct" => f.cmdline = home
             /\ f.prev = fat.prev
             /\ DOMAIN f = {"part", "cmdline", "prev", "try"}
  BY <1>1, <1>3 DEF SwitchedBoot, AtHome, BootTarget, FilesOK
<1>4. ASSUME NEW f \in {fat, SwitchedBoot(home)}
      PROVE  /\ RollbackFiles(f).prev = fat.prev
             /\ IF board = "direct" THEN RollbackFiles(f).cmdline = home
                                    ELSE RollbackFiles(f).part = home
  <2>1. data.part = home
    BY <1>1, FilesSay
  <2> QED BY <1>1, <1>3, <2>1 DEF RollbackFiles
<1>5. AtHome' /\ ~Pending'
  <2>1. fat'.prev = fat.prev /\ BootTarget' = home
    BY <1>1, <1>2, <1>3, <1>4 DEF BootTarget
  <2> QED BY <1>1, <1>2, <2>1 DEF AtHome, Pending
<1> QED
  BY <1>1, <1>2, <1>5, FilesSay DEF OnTrack, Recorded, Handled, Rebooted, Writing, Reboots,
    Untouched, Undecided, FallenBack, Committed, Writers, HasUpdate, Target

(* boot-health counts, or takes the update back *)
LEMMA BootHealthOnTrack ==
  ASSUME Sound, OnTrack, BootHealth, board' = board,
         \A h \in exposed' : h = "notRebooted" /\ board = "direct"
  PROVE  OnTrack'
<1>1. /\ HandledIsStored /\ DeviceOK /\ FilesOK /\ AgentOK /\ pc = "boothealth"
      /\ deferred = "none" /\ oneshot # "armed" /\ home \in Slots
  BY FilesSay DEF BootHealth, Sound, OnTrack, Reboots
<1>2. UNCHANGED <<home, board, oneshot, todo, stored>>
  BY DEF BootHealth
<1>3. AtHome \/ Pending \/ TakenBack \/ Switched
  BY <1>1 DEF OnTrack, Recorded, Untouched, Undecided, FallenBack, Committed, AgentOK
<1>4. CASE board # "direct"
  <2>1. UNCHANGED <<data, fat, running, deferred>> /\ pc' \in {"start", "dead"}
    BY <1>4 DEF BootHealth, BootContinues, disk
  <2> QED
    BY <1>1, <1>2, <2>1, FilesSay, FilesSame DEF OnTrack, Recorded, Handled, Rebooted, Writing,
      Reboots, Untouched, Undecided, FallenBack, Committed, Writers, HasUpdate
<1>5. CASE board = "direct" /\ ~HasUpdate
  <2>1. /\ data' = [data EXCEPT !.count = 0] /\ fat' = [fat EXCEPT !.prev = "none"]
        /\ UNCHANGED <<running, deferred>> /\ pc' \in {"start", "dead"}
    BY <1>5 DEF BootHealth, BootContinues
  <2>2. ~Pending /\ ~Pending' /\ Target' = Target /\ fat'.prev = "none"
    BY <1>1, <1>2, <1>5, <2>1 DEF HasUpdate, Pending, Target, FilesOK
  <2>3. (AtHome => AtHome') /\ (TakenBack => TakenBack') /\ (Switched => Switched')
    BY <1>1, <1>2, <2>1 DEF AtHome, TakenBack, Switched, BootTarget, Target, FilesOK
  <2>4. AtHome' => AtHome
    <3>1. data'.part = data.part /\ (AtHome' => data'.part = home)
      BY <1>1, <1>2, <2>1 DEF AtHome, FilesOK
    <3> QED BY <1>3, <3>1, FilesSay
  <2> QED
    BY <1>1, <1>2, <2>1, <2>2, <2>3, <2>4, FilesSay DEF OnTrack, Recorded, Handled, Rebooted,
      Writing, Reboots, Untouched, Undecided, FallenBack, Committed, Writers, HasUpdate
<1>6. CASE board = "direct" /\ HasUpdate /\ data.count + 1 >= MaxBootRetries
  <2>1. Pending /\ fat.prev = home /\ fat.prev # "none" /\ data.part = Target
    BY <1>3, <1>6, FilesSay DEF HasUpdate, Pending
  <2>2. /\ fat' = [fat EXCEPT !.cmdline = home, !.prev = "none", !.try = "none"]
        /\ data' = [data EXCEPT !.ua = "0", !.count = 0]
        /\ pc' = "off" /\ running' = "none" /\ deferred' = "none"
    BY <1>6, <2>1 DEF BootHealth, Down
  <2>3. TakenBack' /\ ~Pending'
    BY <1>1, <1>2, <1>6, <2>1, <2>2 DEF TakenBack, Pending, BootTarget, Target, FilesOK
  <2>4. stored \in {"install", "reboot", "afterReboot", "commit", "rollback"}
    BY <1>1, <2>1, FilesSay DEF OnTrack, Recorded, Untouched, Committed, AgentOK
  <2> QED
    BY <1>1, <1>2, <2>2, <2>3, <2>4, FilesSay DEF OnTrack, Recorded, Handled, Rebooted, Writing,
      Reboots, Untouched, Undecided, FallenBack, Committed, Writers, HasUpdate
<1>7. CASE board = "direct" /\ HasUpdate /\ ~(data.count + 1 >= MaxBootRetries)
  <2>1. Pending
    BY <1>3, <1>7, FilesSay DEF HasUpdate
  <2>2. /\ data' = [data EXCEPT !.count = data.count + 1]
        /\ UNCHANGED <<fat, running, deferred>> /\ pc' \in {"start", "dead"}
    BY <1>7 DEF BootHealth, BootContinues
  <2>3. Pending' /\ Target' = Target /\ ~AtHome'
    BY <1>1, <1>2, <2>1, <2>2 DEF Pending, AtHome, BootTarget, Target, FilesOK
  <2>4. stored \in {"install", "reboot", "afterReboot", "commit", "rollback"}
    BY <1>1, <2>1, FilesSay DEF OnTrack, Recorded, Untouched, Committed, AgentOK
  <2> QED
    BY <1>1, <1>2, <2>1, <2>2, <2>3, <2>4, FilesSay DEF OnTrack, Recorded, Handled, Rebooted,
      Writing, Reboots, Untouched, Undecided, FallenBack, Committed, Writers, HasUpdate
<1> QED BY <1>4, <1>5, <1>6, <1>7

(* The agent starts, and takes the booted slot for the right one *)
LEMMA HandleBootCountFallbackOnTrack ==
  ASSUME Sound, OnTrack, HandleBootCountFallback, board' = board,
         \A h \in exposed' : h = "notRebooted" /\ board = "direct"
  PROVE  OnTrack'
<1>1. /\ HandledIsStored /\ DeviceOK /\ FilesOK /\ AgentOK /\ BootFacts /\ pc = "start"
      /\ deferred = "none" /\ oneshot # "armed" /\ home \in Slots /\ running # "none"
  BY FilesSay DEF HandleBootCountFallback, Sound, OnTrack, Reboots, DeviceOK
<1>2. UNCHANGED <<fat, home, board, running, deferred, oneshot, todo, stored>> /\ pc' = "resume"
  BY DEF HandleBootCountFallback, device
<1>3. AtHome \/ Pending \/ TakenBack \/ Switched
  BY <1>1 DEF OnTrack, Recorded, Untouched, Undecided, FallenBack, Committed, AgentOK
<1>4. CASE HasUpdate
  <2>1. Pending
    BY <1>3, <1>4, FilesSay DEF HasUpdate
  <2>2. ~(data.count >= MaxBootRetries)
    BY <1>1, BoardAssumption DEF BootFacts, FilesOK
  <2>3. UNCHANGED data
    BY <1>4, <2>2 DEF HandleBootCountFallback
  <2> QED
    BY <1>1, <1>2, <2>1, <2>3, FilesSay, FilesSame DEF OnTrack, Recorded, Handled, Rebooted,
      Writing, Reboots, Untouched, Undecided, FallenBack, Committed, Writers, HasUpdate
<1>5. CASE ~HasUpdate
  <2>1. ~Pending
    BY <1>5 DEF HasUpdate, Pending
  <2>2. /\ data' = [data EXCEPT !.part = running, !.slot = running]
        /\ stored = "rollback" => data.part = running
    BY <1>5 DEF HandleBootCountFallback, Reconcile
  <2>3. AtHome \/ TakenBack => running = home
    <3>1. ~(TakenBack /\ Switched)
      BY FilesSay DEF TakenBack, Switched
    <3> QED BY <1>1, <2>1, <2>2, <3>1, FilesSay
    DEF OnTrack, Recorded, Handled, Untouched, Undecided, FallenBack, Committed, AgentOK
  <2>4. Switched /\ ~TakenBack => running = Target /\ stored = "afterCommit"
    BY <1>1, <2>1, <2>2, FilesSay
    DEF OnTrack, Recorded, Handled, Untouched, Undecided, FallenBack, Committed, AgentOK
  <2>5. ~Pending' /\ Target' = Target
    BY <1>1, <1>2, <1>5, <2>2 DEF HasUpdate, Pending, Target, FilesOK
  <2>6. CASE AtHome \/ TakenBack
    <3>1. AtHome'
      BY <1>1, <1>2, <2>2, <2>3, <2>6 DEF AtHome, TakenBack, BootTarget, FilesOK
    <3>2. stored # "afterCommit"
      BY <1>1, <2>3, <2>6, FilesSay DEF OnTrack, Recorded, Committed
    <3> QED
      BY <1>1, <1>2, <2>3, <2>5, <2>6, <3>1, <3>2, FilesSay DEF OnTrack, Recorded, Handled,
        Rebooted, Writing, Reboots, Untouched, Undecided, FallenBack, Committed, Writers,
        HasUpdate
  <2>7. CASE Switched /\ ~TakenBack
    <3>1. Switched'
      BY <1>1, <1>2, <2>2, <2>4, <2>7 DEF Switched, BootTarget, Target, FilesOK
    <3> QED
      BY <1>1, <1>2, <2>4, <2>5, <2>7, <3>1, FilesSay DEF OnTrack, Recorded, Handled, Rebooted,
        Writing, Reboots, Untouched, Undecided, FallenBack, Committed, Writers, HasUpdate
  <2> QED BY <1>3, <2>1, <2>6, <2>7
<1> QED BY <1>4, <1>5

(* One more file of a WriteEnv, or its failure *)
LEMMA WriteVarOnTrack ==
  ASSUME Sound, OnTrack, WriteVar, board' = board,
         \A h \in exposed' : h = "notRebooted" /\ board = "direct"
  PROVE  OnTrack'
<1>1. /\ HandledIsStored /\ DeviceOK /\ FilesOK /\ AgentOK /\ WritesOfCaller
      /\ pc \in Writers /\ todo # <<>> /\ "staleFile" \notin exposed
      /\ home \in Slots /\ board \in {"bootscr", "direct"} /\ oneshot # "armed"
      /\ pc # "clearUpgrade"
  BY FilesSay DEF WriteVar, Sound, OnTrack, Reboots, Handled, Writers
<1>2. UNCHANGED <<home, board, running, deferred, oneshot>>
  BY DEF WriteVar, device
<1>3. \/ /\ Written(Head(todo)) /\ todo' = Tail(todo) /\ UNCHANGED <<pc, stored, exposed>>
      \/ /\ todo' = <<>> /\ WriteFails /\ UNCHANGED <<data, fat>>
         /\ Torn = {} /\ pc # "rollbackWrite"
  <2>1. Torn = {} \/ "torn" \in Torn
    BY DEF Torn
  <2>2. CASE Written(Head(todo)) /\ todo' = Tail(todo) /\ UNCHANGED <<pc, stored, result, exposed>>
    BY <2>2
  <2>3. CASE exposed' = exposed \cup {"staleFile"}
    BY <2>3
  <2>4. CASE /\ todo' = <<>> /\ WriteFails /\ UNCHANGED disk
             /\ exposed' = exposed \cup Torn
                  \cup (IF pc = "rollbackWrite" THEN {"rollbackFailed"} ELSE {})
    BY <2>1, <2>4 DEF disk
  <2> QED BY <2>2, <2>3, <2>4 DEF WriteVar
<1>4. CASE /\ todo' = <<>> /\ WriteFails /\ UNCHANGED <<data, fat>>
           /\ Torn = {} /\ pc # "rollbackWrite"
  <2>1. pc' = "rollback" /\ stored' = "rollback"
    BY <1>1, <1>4 DEF WriteFails, ToRollback, Enter, Writers
  <2>2. AtHome \/ Pending
    <3>1. CASE pc = "install"
      BY <1>1, <1>4, <3>1, Interrupted
    <3>2. CASE pc = "commitWrite"
      BY <1>1, <3>2 DEF OnTrack, Writing
    <3> QED BY <1>1, <1>4, <3>1, <3>2 DEF Writers
  <2>3. AtHome' \/ Pending'
    BY <1>2, <1>4, <2>2, FilesSame
  <2>4. deferred = "none"
    BY <1>1, <1>4 DEF OnTrack, Reboots, Writers
  <2> QED
    BY <1>1, <1>2, <2>1, <2>3, <2>4, FilesSay DEF OnTrack, Recorded, Handled, Rebooted, Writing,
      Reboots, Untouched, Undecided, FallenBack, Committed, Writers, HasUpdate
<1>5. CASE Written(Head(todo)) /\ todo' = Tail(todo) /\ UNCHANGED <<pc, stored, exposed>>
  <2>1. CASE pc = "install"
    <3>1. PICK e : e = WriteEnvInstall(Inactive)
      OBVIOUS
    <3>2. /\ running = home /\ Inactive = Target /\ Target \in Slots
          /\ Plan(e, Target, "1") /\ UnderWay(e)
      BY <1>1, <2>1, <3>1, FilesSay, Plans DEF OnTrack, Handled, Inactive, Target, WritesOfCaller
    <3>3. /\ Head(todo) \in Writes /\ Tail(todo) # e
          /\ Tail(todo) # <<>> => Head(todo).file # "ua"
          /\ Head(todo).file = "cmdline" => fat.prev # "none"
          /\ Head(todo).file \in {"prev", "cmdline"} => board = "direct"
      BY <1>1, <3>2, WhileWriting
    <3>4. /\ data.ua = "0" /\ fat.prev \in {"none", home}
          /\ board = "direct" /\ fat.prev = "none" => fat.cmdline = home
      BY <1>1, <2>1 DEF OnTrack, Writing
    <3>5. /\ Tail(todo) # <<>> => data'.ua = "0"
          /\ fat'.prev \in {"none", home}
          /\ board = "direct" /\ fat'.prev = "none" => fat'.cmdline = home
      BY <1>1, <1>5, <3>3, <3>4 DEF Written, Writes, WriteFiles, FilesOK
    <3>6. WriteEnvInstall(Inactive)' = e
      BY <1>2, <3>1 DEF WriteEnvInstall, WriteMenderBootPart, Inactive
    <3>7. Writing'
      BY <1>2, <1>5, <2>1, <3>3, <3>5, <3>6 DEF Writing
    <3>8. deferred = "none" /\ stored = "install"
      BY <1>1, <2>1 DEF OnTrack, Reboots, HandledIsStored
    <3> QED
      BY <1>1, <1>2, <1>5, <2>1, <3>2, <3>7, <3>8, FilesSay DEF OnTrack, Recorded, Handled,
        Rebooted, Reboots
  <2>2. CASE pc = "rollbackWrite"
    <3>1. PICK e : e = WriteEnvRollback(home)
      OBVIOUS
    <3>2. Plan(e, home, "0") /\ UnderWay(e) /\ Agreeing(e)
      BY <1>1, <2>2, <3>1, Plans, PlansAgree DEF OnTrack, Writing
    <3>3. /\ Head(todo) \in Writes /\ Tail(todo) # e
          /\ Tail(todo) # <<>> => Head(todo).file # "ua"
      BY <1>1, <3>2, WhileWriting
    <3>4. data.ua = "1" /\ (board = "direct" => fat.prev = home) /\ home # "none"
      BY <1>1, <2>2, FilesSay DEF OnTrack, Writing
    <3>5. /\ Tail(todo) # <<>> => data'.ua = "1"
          /\ board = "direct" => fat'.prev = home
      BY <1>1, <1>5, <3>3, <3>4 DEF Written, Writes, WriteFiles, FilesOK
    <3>6. WriteEnvRollback(home)' = e
      BY <1>2, <3>1 DEF WriteEnvRollback, WriteMenderBootPart
    <3>7. UnderWay(e)'
      BY <1>1, <1>5, <3>2, Advance
    <3>8. UnderWay(WriteEnvRollback(home))'
      BY <3>6, <3>7 DEF UnderWay
    <3>9. Writing'
      BY <1>2, <1>5, <2>2, <3>3, <3>5, <3>6, <3>8 DEF Writing
    <3>10. stored = "rollback" /\ (deferred # "none" => board = "direct")
      BY <1>1, <2>2 DEF OnTrack, Reboots, HandledIsStored
    <3> QED
      BY <1>1, <1>2, <1>5, <2>2, <3>9, <3>10, FilesSay DEF OnTrack, Recorded, Handled, Rebooted,
        Reboots
  <2>3. CASE pc = "commitWrite"
    <3>1. Pending /\ running = Target /\ stored = "commit" /\ deferred = "none"
      BY <1>1, <2>3 DEF OnTrack, Writing, Handled, Reboots, HandledIsStored
    <3>2. Head(todo) = W("ua", "0") /\ Tail(todo) = <<>>
      <4>1. PICK e : e = WriteEnvClear
        OBVIOUS
      <4>2. e \in Seq(Writes) /\ Len(e) = 1 /\ e[1] = W("ua", "0") /\ UnderWay(e)
        BY <1>1, <2>3, <4>1, Plans DEF WritesOfCaller
      <4>3. PICK k \in 0 .. Len(e) - 1 :
              Head(todo) = e[k + 1] /\ Tail(todo) = SubSeq(e, k + 2, Len(e))
        BY <1>1, <4>2, HeadOfPlan
      <4>4. k = 0
        BY <4>2
      <4>5. SubSeq(e, 2, Len(e)) = <<>>
        BY <4>2, SubSeqEmpty
      <4> QED BY <4>2, <4>3, <4>4, <4>5
    <3>3. data' = [data EXCEPT !.ua = "0"] /\ fat' = fat
      BY <1>5, <3>2 DEF Written, W
    <3>4. Switched' /\ ~Pending' /\ Target' = Target
      BY <1>1, <1>2, <3>1, <3>3 DEF Pending, Switched, BootTarget, Target, FilesOK
    <3> QED
      BY <1>1, <1>2, <1>5, <2>3, <3>1, <3>2, <3>4, FilesSay DEF OnTrack, Recorded, Handled,
        Rebooted, Reboots, Writing, Committed
  <2> QED BY <1>1, <2>1, <2>2, <2>3 DEF Writers
<1> QED BY <1>3, <1>4, <1>5

(* The invariant is kept by every step *)
LEMMA DualStep ==
  ASSUME DualInv, [Next]_vars
  PROVE  DualInv'
<1>1. Sound'
  BY TypeStep, CallerStep, StoredStep, BootFactsStep DEF DualInv, Sound
<1>2. ASSUME OpenHoles' = {} PROVE OnTrack'
  <2>1. /\ Sound /\ OnTrack /\ board' = board
        /\ \A h \in exposed' : h = "notRebooted" /\ board = "direct"
    BY <1>2, HolesStay DEF DualInv, SlotInv
  <2>2. CASE Deploy \/ StoreUpdate \/ WriteVar \/ InstallUpdate \/ ArtifactRebootEnter
    BY <2>1, <2>2, DeployOnTrack, StoreUpdateOnTrack, WriteVarOnTrack, InstallUpdateOnTrack,
      ArtifactRebootEnterOnTrack
  <2>3. CASE ArtifactCommitEnter \/ CommitUpdate \/ CommitDone \/ Finish
    BY <2>1, <2>3, ArtifactCommitEnterOnTrack, CommitUpdateOnTrack, CommitDoneOnTrack,
      FinishOnTrack
  <2>4. CASE Rollback \/ RollbackDone \/ ArtifactRollbackRebootEnter
    BY <2>1, <2>4, RollbackOnTrack, RollbackDoneOnTrack, ArtifactRollbackRebootEnterOnTrack
  <2>5. CASE Boot \/ BootHealth \/ HandleBootCountFallback \/ Resume
    BY <2>1, <2>5, BootOnTrack, BootHealthOnTrack, HandleBootCountFallbackOnTrack, ResumeOnTrack
  <2>6. CASE DeferredReboot \/ PowerLoss \/ AgentCrash
    BY <2>1, <2>6, DeferredRebootOnTrack, PowerLossOnTrack, AgentCrashOnTrack
  <2>7. CASE \/ NoUpdate \/ InstallFails \/ RebootStep \/ VerifyReboot \/ RollbackReboot
             \/ VerifyRollbackReboot \/ Watchdog \/ UNCHANGED vars
    BY <2>1, <2>7, QuietOnTrack
  <2> QED BY <2>2, <2>3, <2>4, <2>5, <2>6, <2>7 DEF Next, Install, Commit, Undo, Startup
<1> QED BY <1>1, <1>2 DEF DualInv, SlotInv

(* It holds when the device is delivered *)
LEMMA DualInit == Init => DualInv
<1> SUFFICES ASSUME Init PROVE DualInv
  OBVIOUS
<1>1. TypeOK
  <2>1. FilesOK
    BY DEF Init, FilesOK, Slots
  <2>2. DeviceOK /\ AgentOK /\ WorldOK
    BY DEF Init, DeviceOK, AgentOK, WorldOK, Handlers, Slots
  <2>3. image \in [Slots -> ImageKinds \cup {"partial"}]
    BY DEF Init, ImageKinds
  <2>4. todo \in Seq(Writes) /\ exposed \subseteq Holes
    BY EmptySeq DEF Init
  <2> QED BY <2>1, <2>2, <2>3, <2>4, TypeParts
<1>2. WritesOfCaller /\ HandledIsStored
  BY DEF Init, WritesOfCaller, HandledIsStored, Writers
<1>3. BootFacts
  BY BoardAssumption DEF Init, BootFacts
<1>4. AtHome /\ running = home
  BY DEF Init, AtHome, BootTarget
<1>5. OnTrack
  BY <1>4 DEF Init, OnTrack, Recorded, Handled, Rebooted, Writing, Reboots, Untouched, AtHome,
    Pending
<1> QED BY <1>1, <1>2, <1>3, <1>5 DEF DualInv, Sound, SlotInv

-----------------------------------------------------------------------------
(* The theorems *)

(* The inductive invariant holds in every behaviour: what the database,    *)
(* the boot environment and the FAT partition say of the device fits       *)
(* together in every state of InstallUpdate, CommitUpdate, Rollback and of *)
(* the boots between them.                                                 *)
THEOREM InductiveInvariant == Spec => []DualInv
<1>1. DualInv /\ [Next]_vars => DualInv'
  BY DualStep
<1> QED BY <1>1, DualInit, PTL DEF Spec

(* Types: files, device and agent keep their types through crashes, boots  *)
(* and writes that fail.                                                   *)
THEOREM TypeCorrect == Spec => []TypeOK
<1>1. DualInv => TypeOK
  BY DEF DualInv, Sound
<1> QED BY <1>1, InductiveInvariant, PTL

(* The order of WriteEnv: upgrade_available is raised only when the files  *)
(* the firmware reads name the new slot, or one of them could not be       *)
(* written.                                                                *)
THEOREM FlagComesLast == Spec => ReadyMeansSwitched
<1>1. DualInv /\ [Next]_vars
        => [ data.ua = "0" /\ data'.ua = "1" /\ "staleFile" \notin exposed =>
               BootTarget' = data'.part ]_vars
  BY FlagStep DEF DualInv, Sound
<1> QED BY <1>1, InductiveInvariant, PTL DEF Spec, ReadyMeansSwitched

(* A deployment that fails leaves the device on the slot it came from, now *)
(* and at the next boot, as long as it fell into none of the holes the     *)
(* model names (Rollback, its script, boot-health).                        *)
THEOREM FailureIsUndone == Spec => []FailureRestores
<1>1. DualInv => FailureRestores
  <2> SUFFICES ASSUME DualInv, pc = "idle", OpenHoles = {}
               PROVE  running = home /\ BootTarget = home /\ data.ua = "0"
    BY DEF FailureRestores
  <2>1. Sound /\ OnTrack /\ DeviceOK
    BY FilesSay DEF DualInv, SlotInv
  <2>2. AtHome /\ running \in {home, "none"} /\ running # "none"
    BY <2>1 DEF Sound, OnTrack, Recorded, Untouched, HandledIsStored, DeviceOK
  <2> QED BY <2>2 DEF AtHome
<1> QED BY <1>1, InductiveInvariant, PTL

(* A deployment that succeeds runs the new image, boots it next time and   *)
(* leaves no flag (CommitUpdate and its script).                           *)
THEOREM SuccessIsSwitched == Spec => SuccessSwitches
<1>1. DualInv /\ [Next]_vars
        => [ result' = "success" /\ result # "success" /\ OpenHoles = {} =>
               running = Other(home) /\ BootTarget = running /\ data.ua = "0" ]_vars
  <2> SUFFICES ASSUME DualInv, [Next]_vars, result' = "success", result # "success",
                      OpenHoles = {}
               PROVE  running = Other(home) /\ BootTarget = running /\ data.ua = "0"
    OBVIOUS
  <2>1. Finish
    BY DEF Next, Install, Commit, Undo, Startup, vars, Deploy, NoUpdate, WriteVar, WriteFails,
      StoreUpdate, InstallUpdate, InstallFails, ArtifactRebootEnter, RebootStep, VerifyReboot,
      ArtifactCommitEnter, CommitUpdate, CommitDone, Rollback, RollbackDone,
      ArtifactRollbackRebootEnter, RollbackReboot, VerifyRollbackReboot, Boot, BootHealth,
      HandleBootCountFallback, Resume, Watchdog, DeferredReboot, PowerLoss, AgentCrash, Idle
  <2>2. Sound /\ OnTrack /\ DeviceOK
    BY FilesSay DEF DualInv, SlotInv
  <2>3. Switched /\ running \in {Target, "none"} /\ running # "none"
    BY <2>1, <2>2 DEF Finish, Sound, OnTrack, Recorded, Committed, HandledIsStored, DeviceOK
  <2> QED BY <2>3 DEF Switched, Target
<1> QED BY <1>1, InductiveInvariant, PTL DEF Spec, SuccessSwitches

(* While an update is pending, the backup of cmdline.txt is the one of the *)
(* slot the device came from (updateBootCmdline, commit, boot-health).     *)
THEOREM BackupIsKept == Spec => []BackupIsHome
<1>1. DualInv => BackupIsHome
  <2> SUFFICES ASSUME DualInv, HasUpdate, exposed = {} PROVE fat.prev \in {"none", home}
    BY DEF BackupIsHome
  <2>1. Sound /\ OnTrack /\ AgentOK /\ BootFacts /\ HandledIsStored
    BY FilesSay DEF DualInv, SlotInv, OpenHoles, Sound
  <2>2. data.ua = "1" /\ board \in {"bootscr", "direct"}
    BY <2>1, FilesSay DEF HasUpdate
  <2>3. CASE board = "bootscr"
    BY <2>1, <2>3 DEF BootFacts
  <2>4. CASE board = "direct" /\ pc = "install"
    BY <2>1, <2>4 DEF OnTrack, Writing
  <2>5. CASE board = "direct" /\ pc = "rollbackWrite"
    BY <2>1, <2>5 DEF OnTrack, Writing
  <2>6. CASE board = "direct" /\ pc \notin {"install", "rollbackWrite"}
    <3>1. Pending
      BY <2>1, <2>2, <2>6, FilesSay DEF OnTrack, Recorded, Writing, Untouched, Undecided,
        FallenBack, Committed, AgentOK, HandledIsStored
    <3> QED BY <2>6, <3>1 DEF Pending
  <2> QED BY <2>2, <2>3, <2>4, <2>5, <2>6
<1> QED BY <1>1, InductiveInvariant, PTL

(* An idle agent's bookkeeping names the slot it runs on                   *)
(* (ReconcileToBootedSlot).                                                *)
THEOREM BookkeepingIsRight == Spec => []BookkeepingRight
<1>1. DualInv => BookkeepingRight
  <2> SUFFICES ASSUME DualInv, pc = "idle", exposed = {}
               PROVE  data.part = running /\ data.slot = running
    BY DEF BookkeepingRight
  <2>1. Sound /\ OnTrack /\ DeviceOK
    BY FilesSay DEF DualInv, SlotInv, OpenHoles
  <2>2. AtHome /\ running \in {home, "none"} /\ running # "none"
    BY <2>1 DEF Sound, OnTrack, Recorded, Untouched, HandledIsStored, DeviceOK
  <2> QED BY <2>2 DEF AtHome
<1> QED BY <1>1, InductiveInvariant, PTL

=============================================================================
