----------------------------- MODULE DualRootfs -----------------------------
(***************************************************************************)
(* The A/B root filesystem of a device with a file-based boot environment: *)
(* installer/dual_rootfs_device.go on installer/file_bootenv.go, the state *)
(* scripts shipped with the agent, the pre-agent service                   *)
(* otapulse-boot-health, switch-boot-slot.sh, and what the firmware makes  *)
(* of the files at the next boot.                                          *)
(*                                                                         *)
(* The caller is the deployment state machine (module UpdateFlow) cut down *)
(* to one rootfs payload: "stored" is the state name in its database and   *)
(* "pc" the handler that runs.  A WriteEnv is a sequence of single file    *)
(* writes, and a crash or a failing write may fall between any two.        *)
(***************************************************************************)
EXTENDS Naturals, Sequences

CONSTANTS
  Boards,         \* kinds of board, and whether they have the script:
  Scripts,        \* see the variables board and script
  Images,         \* what a downloaded image may turn out to be
  Faults,         \* kinds of fault that may strike
  MaxFaults,      \* bound: faults in a behaviour
  MaxDeployments, \* bound: deployments in a behaviour
  MaxBootRetries  \* DefaultMaxBootRetries, MAX_BOOT_RETRIES (3 in the code)

Slots == {"A", "B"}
FaultKinds == {"power", "agent", "write", "script", "reboot"}
ImageKinds == {"good", "noagent", "panic"}

ASSUME BoardAssumption ==
  /\ Boards \subseteq {"bootscr", "direct"} /\ Scripts \subseteq {"absent", "present"}
  /\ Images \subseteq ImageKinds /\ Faults \subseteq FaultKinds
  /\ MaxFaults \in Nat /\ MaxDeployments \in Nat
  /\ MaxBootRetries \in Nat \ {0}

VARIABLES
  board,    \* "bootscr": boot.scr reads a file on the FAT partition;
            \* "direct": the firmware reads cmdline.txt there
  script,   \* /usr/sbin/switch-boot-slot.sh: "absent" | "present"
  data,     \* /data/ota: mender_boot_part, current_slot, upgrade_available, boot_count
  fat,      \* FAT partition: mender_boot_part, cmdline.txt, cmdline_prev.txt, tryboot
  image,    \* what each root partition holds
  running,  \* the mounted root partition, or "none" while the device is down
  oneshot,  \* the firmware's tryboot flag: "armed" | "clear"
  deferred, \* the reboot script waiting in the background: its slot, or "none"
  pc,       \* what runs: "off", boot stages, or a handler of the agent
  todo,     \* file writes left of the WriteEnv under way
  stored,   \* state name in the agent's database
  result,   \* outcome of the last deployment
  home,     \* history: the slot of the last finished, good system
  exposed,  \* history: holes the device has fallen into
  faults, deployments

disk  == <<data, fat>>
device == <<running, oneshot, deferred>>
hardware == <<board, script>>
world == <<faults, deployments, hardware>>
vars  == <<disk, image, device, pc, todo, stored, result, home,
           exposed, world>>

Other(s) == IF s = "A" THEN "B" ELSE "A"

(* partitions.GetActive: the partition mounted on /, and the other one *)
Active == running
Inactive == Other(running)

(* What the next boot without tryboot starts *)
BootTarget == IF board = "direct" THEN fat.cmdline ELSE fat.part

HasUpdate == data.ua = "1"

-----------------------------------------------------------------------------
(* Faults *)

CanFault(f) == f \in Faults /\ faults < MaxFaults
Fault(f) == CanFault(f) /\ faults' = faults + 1 /\ UNCHANGED <<deployments, hardware>>
NoFault == UNCHANGED world

(* The device goes down, and the background script with it *)
Down == pc' = "off" /\ running' = "none" /\ deferred' = "none"

-----------------------------------------------------------------------------
(* FileBasedBootEnv.WriteEnv, file by file *)

W(file, value) == [file |-> file, value |-> value]

(* writeMenderBootPart, syncBootSlotToBootPartition, updateBootCmdline *)
WriteMenderBootPart(s) ==
  <<W("part", s), W("slot", s), W("fatPart", s)>>
    \o (IF board = "direct" THEN <<W("prev", s), W("cmdline", s)>> ELSE <<>>)

(* Mutant: the flag before the slot, as the map iteration once did *)
WriteEnvFlagFirst(s) ==
  <<W("count", "0"), W("ua", "1")>> \o WriteMenderBootPart(s) \o WriteMenderBootPart(s)

(* writeOrder: the partition, its hexadecimal form (which writes the same  *)
(* files again), boot count, and upgrade_available last.                   *)
WriteEnvInstall(s) ==
  WriteMenderBootPart(s) \o WriteMenderBootPart(s)
    \o <<W("count", "0"), W("ua", "1")>>
WriteEnvRollback(s) ==
  WriteMenderBootPart(s) \o WriteMenderBootPart(s) \o <<W("ua", "0")>>
WriteEnvClear == <<W("ua", "0")>>

(* One file is written; cmdline_prev.txt only if there is none yet *)
Written(w) ==
  CASE w.file = "part" -> data' = [data EXCEPT !.part = w.value] /\ UNCHANGED fat
    [] w.file = "slot" -> data' = [data EXCEPT !.slot = w.value] /\ UNCHANGED fat
    [] w.file = "ua" -> data' = [data EXCEPT !.ua = w.value] /\ UNCHANGED fat
    [] w.file = "count" -> data' = [data EXCEPT !.count = 0] /\ UNCHANGED fat
    [] w.file = "fatPart" -> fat' = [fat EXCEPT !.part = w.value] /\ UNCHANGED data
    [] w.file = "prev" ->
         /\ fat' = [fat EXCEPT !.prev = IF @ = "none" THEN fat.cmdline ELSE @]
         /\ UNCHANGED data
    [] OTHER -> fat' = [fat EXCEPT !.cmdline = w.value] /\ UNCHANGED data

(* Failures of these files are logged only *)
LoggedOnly == {"slot", "prev", "cmdline"}

(* Mutant: always the other slot, as before the slot was compared *)
RollbackTargetOther == Inactive

(* Rollback goes to the running partition if it has not been left yet *)
RollbackTarget == IF data.part # Active THEN Active ELSE Inactive

(* A WriteEnv that has changed what the next boot or the next Rollback does *)
(* and that will not be completed                                           *)
Torn ==
  IF \/ pc = "install" /\ todo # <<>> /\ data.part # running
     \/ pc = "rollbackWrite" /\ todo # <<>> /\ todo # WriteEnvRollback(RollbackTarget)
  THEN {"torn"} ELSE {}

-----------------------------------------------------------------------------
(* The agent's handlers.  Enter(p, n) stores state n and goes to handler p *)

Enter(p, n) == pc' = p /\ stored' = n

Idle(r) == pc' = "idle" /\ stored' = "none" /\ result' = r

(* The writes of a WriteEnv, then the continuation of its caller *)
Call(writes, p) == todo' = writes /\ pc' = p

(* HandleError of the states before the commit: rootfs supports rollback *)
ToRollback == Enter("rollback", "rollback")

Deploy ==
  /\ pc = "idle" /\ deployments < MaxDeployments
  /\ deployments' = deployments + 1
  /\ Enter("store", "store")
  /\ image' = [image EXCEPT ![Inactive] = "partial"]
  /\ result' = "none" /\ home' = running
  /\ UNCHANGED <<disk, device, todo, exposed, faults, hardware>>

(* A poll that finds no deployment *)
NoUpdate == pc = "idle" /\ UNCHANGED vars

(* StoreUpdate: the image is copied to the inactive partition, or not *)
StoreUpdate ==
  /\ pc = "store"
  /\ \/ /\ \E i \in Images : image' = [image EXCEPT ![Inactive] = i]
        /\ stored' = "install"
        /\ Call(WriteEnvInstall(Inactive), "install")
        /\ UNCHANGED result
     \/ Idle("failure") /\ UNCHANGED <<image, todo>>
  /\ UNCHANGED <<disk, device, home, exposed, world>>

(* Handlers that wait for a WriteEnv *)
Writers == {"install", "clearUpgrade", "rollbackWrite", "commitWrite"}

(* What a failing WriteEnv makes of its caller *)
WriteFails ==
  CASE pc = "install" -> ToRollback /\ UNCHANGED result
    [] pc = "clearUpgrade" -> ToRollback /\ UNCHANGED result
    [] pc = "rollbackWrite" -> Idle("failure")
    [] OTHER -> ToRollback /\ UNCHANGED result

WriteVar ==
  /\ pc \in Writers /\ todo # <<>>
  /\ \/ /\ Written(Head(todo)) /\ todo' = Tail(todo)
        /\ NoFault /\ UNCHANGED <<pc, stored, result, exposed>>
     \/ /\ Fault("write") /\ Head(todo).file \in LoggedOnly
        /\ todo' = Tail(todo)
        /\ exposed' = exposed \cup {"staleFile"}
        /\ UNCHANGED <<disk, pc, stored, result>>
     \/ /\ Fault("write") /\ Head(todo).file \notin LoggedOnly
        /\ todo' = <<>> /\ WriteFails
        /\ exposed' = exposed \cup Torn
             \cup (IF pc = "rollbackWrite" THEN {"rollbackFailed"} ELSE {})
        /\ UNCHANGED disk
  /\ UNCHANGED <<image, device, home>>

(* switch-boot-slot.sh writes the file this board boots from *)
SwitchedBoot(s) ==
  IF board = "direct" THEN [fat EXCEPT !.cmdline = s] ELSE [fat EXCEPT !.part = s]

(* After the WriteEnv of InstallUpdate: switchBootSlot, whose script may   *)
(* be absent, or fail                                                      *)
InstallUpdate ==
  /\ pc = "install" /\ todo = <<>>
  /\ \/ /\ fat' = IF script = "present" THEN SwitchedBoot(Inactive) ELSE fat
        /\ Enter("rebootEnter", "reboot") /\ NoFault /\ UNCHANGED <<todo, exposed>>
     \/ /\ script = "present" /\ Fault("script")
        /\ Call(WriteEnvClear, "clearUpgrade")
        /\ exposed' = exposed \cup {"switchFailed"}
        /\ UNCHANGED <<stored, fat>>
  /\ UNCHANGED <<data, image, device, result, home>>

(* upgrade_available cleared after a failing script: the install fails *)
InstallFails ==
  /\ pc = "clearUpgrade" /\ todo = <<>>
  /\ ToRollback
  /\ UNCHANGED <<disk, image, device, todo, result, home, exposed, world>>

(* cmdline.txt made permanent, its old contents kept once *)
PermanentCmdline(s) ==
  [fat EXCEPT !.prev = IF @ = "none" THEN fat.cmdline ELSE @,
              !.cmdline = s, !.try = "none"]

(* ArtifactReboot_Enter_01: tryboot files and a reboot left to a script in *)
(* the background, or the FAT copy once more; nothing at all when the FAT  *)
(* partition cannot be mounted, which is no error in any of the scripts    *)
ArtifactRebootEnter ==
  /\ pc = "rebootEnter"
  /\ \/ NoFault /\ IF board = "direct"
            THEN fat' = [fat EXCEPT !.try = data.part] /\ deferred' = data.part
            ELSE fat' = [fat EXCEPT !.part = data.part] /\ UNCHANGED deferred
     \/ Fault("script") /\ UNCHANGED <<fat, deferred>>
  /\ pc' = "reboot"
  /\ UNCHANGED <<data, image, running, oneshot, todo, stored, result, home,
                 exposed>>

(* updateRebootState: the agent's own, plain reboot; or the server aborted *)
(* the deployment, or Reboot returned an error                             *)
RebootStep ==
  /\ pc = "reboot"
  /\ \/ Down /\ NoFault /\ UNCHANGED stored
     \/ Fault("reboot") /\ ToRollback /\ UNCHANGED <<running, deferred>>
  /\ UNCHANGED <<disk, image, oneshot, todo, result, home, exposed>>

(* The script wakes up, whatever the agent is doing by then: it reboots    *)
(* with tryboot armed or, when no call arms it, rewrites cmdline.txt first *)
DeferredReboot ==
  /\ deferred # "none" /\ Down
  /\ \/ oneshot' = "armed" /\ UNCHANGED fat
     \/ fat' = PermanentCmdline(deferred) /\ UNCHANGED oneshot
  /\ todo' = <<>>
  /\ exposed' = exposed \cup Torn
                  \cup (IF stored # "reboot" THEN {"lateReboot"} ELSE {})
  /\ UNCHANGED <<data, image, stored, result, home, world>>

(* VerifyReboot looks at the flag only *)
VerifyReboot ==
  /\ pc = "verifyReboot"
  /\ IF HasUpdate THEN Enter("commitEnter", "commit") ELSE ToRollback
  /\ UNCHANGED <<disk, image, device, todo, result, home, exposed, world>>

(* Mutant: no look at the slot that runs *)
ArtifactCommitUnchecked ==
  /\ pc = "commitEnter"
  /\ fat' = IF board = "direct" THEN PermanentCmdline(data.part) ELSE fat
  /\ pc' = "commit"
  /\ UNCHANGED <<data, image, device, todo, stored, result, home, exposed, world>>

(* ArtifactCommit_Enter_01: refuses from the wrong slot, else makes the    *)
(* slot permanent                                                          *)
ArtifactCommitEnter ==
  /\ pc = "commitEnter"
  /\ \/ /\ NoFault /\ UNCHANGED exposed
        /\ IF board = "direct" /\ running # data.part
             THEN ToRollback /\ UNCHANGED fat
             ELSE /\ fat' = IF board = "direct" THEN PermanentCmdline(data.part) ELSE fat
                  /\ pc' = "commit" /\ UNCHANGED stored
     \/ /\ Fault("script") /\ exposed' = exposed \cup {"commitUnchecked"}
        /\ pc' = "commit" /\ UNCHANGED <<fat, stored>>
  /\ UNCHANGED <<data, image, device, todo, result, home>>

CommitUpdate ==
  /\ pc = "commit"
  /\ IF HasUpdate THEN Call(WriteEnvClear, "commitWrite") /\ UNCHANGED stored
                  ELSE ToRollback /\ UNCHANGED todo
  /\ UNCHANGED <<disk, image, device, result, home, exposed, world>>

(* Mutant: the backup of this cycle is kept *)
ClearBackupNever == UNCHANGED fat

(* ClearDirectBootBackup; its failure is logged only *)
ClearBackup ==
  IF board = "direct" THEN fat' = [fat EXCEPT !.prev = "none"] ELSE UNCHANGED fat

CommitDone ==
  /\ pc = "commitWrite" /\ todo = <<>>
  /\ \/ ClearBackup /\ NoFault /\ UNCHANGED exposed
     \/ /\ board = "direct" /\ Fault("write") /\ UNCHANGED fat
        /\ exposed' = exposed \cup {"staleFile"}
  /\ Enter("finish", "afterCommit")
  /\ UNCHANGED <<data, image, device, todo, result, home>>

Finish ==
  /\ pc = "finish"
  /\ Idle("success") /\ home' = running
  /\ UNCHANGED <<disk, image, device, todo, exposed, world>>

Rollback ==
  /\ pc = "rollback"
  /\ IF HasUpdate
       THEN Call(WriteEnvRollback(RollbackTarget), "rollbackWrite") /\ UNCHANGED stored
       ELSE Enter("rollbackEnter", "rollbackReboot") /\ UNCHANGED todo
  /\ UNCHANGED <<disk, image, device, result, home, exposed, world>>

RollbackDone ==
  /\ pc = "rollbackWrite" /\ todo = <<>>
  /\ Enter("rollbackEnter", "rollbackReboot")
  /\ UNCHANGED <<disk, image, device, todo, result, home, exposed, world>>

(* Mutant: cmdline.txt from its backup, whether there is one or not *)
RollbackFilesUnchecked(f) ==
  IF board = "bootscr" THEN f
  ELSE IF f.cmdline # data.part
    THEN [f EXCEPT !.cmdline = f.prev, !.prev = "none", !.try = "none"]
    ELSE [f EXCEPT !.cmdline = data.part, !.try = "none"]

(* ArtifactRollbackReboot_Enter_01: switch-boot-slot.sh where it is and    *)
(* works; on a direct board then, if the FAT partition can be mounted, the *)
(* try files, and cmdline.txt from its backup if it still names another    *)
(* slot                                                                    *)
RollbackFiles(f) ==
  IF board = "bootscr" THEN f
  ELSE IF f.cmdline # data.part /\ f.prev # "none"
    THEN [f EXCEPT !.cmdline = f.prev, !.prev = "none", !.try = "none"]
    ELSE [f EXCEPT !.cmdline = data.part, !.try = "none"]

ArtifactRollbackRebootEnter ==
  /\ pc = "rollbackEnter"
  /\ \/ /\ fat' = RollbackFiles(IF script = "present"
                                THEN SwitchedBoot(data.part) ELSE fat)
        /\ NoFault
     \/ /\ Fault("script")
        /\ fat' \in {fat, RollbackFiles(fat)}
                     \cup (IF script = "present" THEN {SwitchedBoot(data.part)} ELSE {})
  /\ pc' = "rollbackReboot"
  /\ UNCHANGED <<data, image, device, todo, stored, result,
                 home, exposed>>

RollbackReboot ==
  /\ pc = "rollbackReboot"
  /\ \/ Down /\ NoFault /\ UNCHANGED exposed
     \/ /\ Fault("reboot") /\ pc' = "verifyRollbackReboot"
        /\ exposed' = exposed \cup {"rollbackNotRebooted"}
        /\ UNCHANGED <<running, deferred>>
  /\ UNCHANGED <<disk, image, oneshot, todo, stored, result, home>>

VerifyRollbackReboot ==
  /\ pc = "verifyRollbackReboot"
  /\ IF HasUpdate THEN Enter("rollbackEnter", "rollbackReboot") /\ UNCHANGED result
                  ELSE Idle("failure")
  /\ UNCHANGED <<disk, image, device, todo, home, exposed, world>>

-----------------------------------------------------------------------------
(* Booting *)

(* Firmware and boot script: a tried slot once, else the permanent one *)
FirmwareSlot == IF oneshot = "armed" /\ fat.try # "none" THEN fat.try ELSE BootTarget

Boot ==
  /\ pc = "off"
  /\ oneshot' = "clear"
  /\ IF image[FirmwareSlot] \in {"good", "noagent"}
       THEN pc' = "boothealth" /\ running' = FirmwareSlot
       ELSE UNCHANGED <<pc, running>>
  /\ UNCHANGED <<disk, image, deferred, todo, stored, result, home, exposed, world>>

(* After boot-health the agent starts, if the image has a working one *)
BootContinues == pc' = IF image[running] = "good" THEN "start" ELSE "dead"

(* Mutant: the boots of a pending upgrade are not counted *)
BootHealthNeverCounts ==
  /\ pc = "boothealth"
  /\ BootContinues
  /\ UNCHANGED <<disk, image, device, todo, stored, result, home, exposed, world>>

(* otapulse-boot-health *)
BootHealth ==
  /\ pc = "boothealth"
  /\ IF board # "direct"
       THEN BootContinues /\ UNCHANGED <<disk, running, deferred>>
     ELSE IF ~HasUpdate
       THEN /\ data' = [data EXCEPT !.count = 0]
            /\ fat' = [fat EXCEPT !.prev = "none"]
            /\ BootContinues /\ UNCHANGED <<running, deferred>>
     ELSE IF data.count + 1 >= MaxBootRetries
       THEN /\ fat' = IF fat.prev # "none"
                        THEN [fat EXCEPT !.cmdline = fat.prev, !.prev = "none",
                                         !.try = "none"]
                        ELSE fat
            /\ data' = [data EXCEPT !.ua = "0", !.count = 0]
            /\ Down
       ELSE /\ data' = [data EXCEPT !.count = @ + 1]
            /\ BootContinues /\ UNCHANGED <<fat, running, deferred>>
  /\ UNCHANGED <<image, oneshot, todo, stored, result, home, exposed, world>>

(* A device whose agent is not running is reset in the end *)
Watchdog ==
  /\ pc = "dead" /\ Down
  /\ UNCHANGED <<disk, image, oneshot, todo, stored, result, home, exposed, world>>

(* Mutant: the bookkeeping keeps what it had *)
ReconcileNever == UNCHANGED data

(* ReconcileToBootedSlot *)
Reconcile == data' = [data EXCEPT !.part = running, !.slot = running]

(* The agent starts: HandleBootCountFallback *)
HandleBootCountFallback ==
  /\ pc = "start" /\ pc' = "resume"
  /\ \/ /\ NoFault
        /\ exposed' = exposed \cup
             (IF ~HasUpdate /\ stored = "rollback" /\ data.part # running
                THEN {"reconciled"} ELSE {})
        /\ IF ~HasUpdate THEN Reconcile
           ELSE IF data.count >= MaxBootRetries
             THEN data' = [data EXCEPT !.ua = "0", !.count = 0]
             ELSE UNCHANGED data
     \/ /\ Fault("write") /\ ~HasUpdate   \* of one of the two files, logged only
        /\ exposed' = exposed \cup {"staleFile"}
        /\ data' \in {data, [data EXCEPT !.part = running]}
  /\ UNCHANGED <<fat, image, device, todo, stored, result, home>>

(* initState.getNextState, on the names a rootfs payload goes through *)
Resume ==
  /\ pc = "resume"
  /\ CASE stored = "none" -> pc' = "idle" /\ UNCHANGED <<stored, result>>
       [] stored = "store" -> Idle("failure")
       [] stored = "reboot" -> Enter("verifyReboot", "afterReboot") /\ UNCHANGED result
       [] stored = "rollbackReboot" ->
            pc' = "verifyRollbackReboot" /\ UNCHANGED <<stored, result>>
       [] stored = "afterCommit" -> pc' = "finish" /\ UNCHANGED <<stored, result>>
       [] OTHER -> ToRollback /\ UNCHANGED result
  /\ UNCHANGED <<disk, image, device, todo, home, exposed, world>>

-----------------------------------------------------------------------------
(* Faults of the environment *)

AgentUp == pc \notin {"off", "boothealth", "dead"}

(* CommitUpdate is done and the next state is not stored *)
InCommitWindow == IF pc = "commitWrite" /\ ~HasUpdate THEN {"commitWindow"} ELSE {}

PowerLoss ==
  /\ pc # "off" /\ Fault("power") /\ Down
  /\ oneshot' = "clear" /\ todo' = <<>>
  /\ exposed' = exposed \cup Torn \cup InCommitWindow
  /\ UNCHANGED <<disk, image, stored, result, home>>

(* The agent dies, the background script with it (one control group), and  *)
(* systemd starts it again without a reboot                                *)
AgentCrash ==
  /\ AgentUp /\ Fault("agent")
  /\ pc' = "start" /\ todo' = <<>> /\ deferred' = "none"
  /\ exposed' = exposed \cup Torn \cup InCommitWindow
       \cup (CASE stored = "reboot" -> {"notRebooted"}
              [] stored = "rollbackReboot" -> {"rollbackNotRebooted"}
              [] OTHER -> {})
  /\ UNCHANGED <<disk, image, running, oneshot, stored, result, home>>

-----------------------------------------------------------------------------
Init ==
  /\ board \in Boards /\ script \in Scripts
  /\ data = [part |-> "A", slot |-> "A", ua |-> "0", count |-> 0]
  /\ fat = [part |-> "A", cmdline |-> "A", prev |-> "none", try |-> "none"]
  /\ image = [s \in Slots |-> IF s = "A" THEN "good" ELSE "partial"]
  /\ running = "A" /\ oneshot = "clear" /\ deferred = "none"
  /\ pc = "start" /\ todo = <<>>
  /\ stored = "none" /\ result = "none"
  /\ home = "A" /\ exposed = {}
  /\ faults = 0 /\ deployments = 0

Install == StoreUpdate \/ InstallUpdate \/ InstallFails \/ ArtifactRebootEnter \/ RebootStep
Commit == VerifyReboot \/ ArtifactCommitEnter \/ CommitUpdate \/ CommitDone \/ Finish
Undo == \/ Rollback \/ RollbackDone \/ ArtifactRollbackRebootEnter
        \/ RollbackReboot \/ VerifyRollbackReboot
Startup == Boot \/ BootHealth \/ HandleBootCountFallback \/ Resume

Next == \/ Deploy \/ NoUpdate \/ WriteVar \/ Install \/ Commit \/ Undo \/ Startup
        \/ Watchdog \/ DeferredReboot \/ PowerLoss \/ AgentCrash

(* Boots go on, the agent's loop runs, a dead device is reset *)
Fairness == /\ WF_vars(WriteVar) /\ WF_vars(Install) /\ WF_vars(Commit)
            /\ WF_vars(Undo) /\ WF_vars(Startup) /\ WF_vars(Watchdog)

Spec == Init /\ [][Next]_vars /\ Fairness

-----------------------------------------------------------------------------
WriteFiles == {"part", "slot", "ua", "count", "fatPart", "prev", "cmdline"}
Handlers == {"idle", "store", "rebootEnter", "reboot", "verifyReboot", "commitEnter",
             "commit", "finish", "rollback", "rollbackEnter", "rollbackReboot",
             "verifyRollbackReboot", "start", "resume"} \cup Writers
Holes == {"torn", "staleFile", "switchFailed", "commitWindow", "notRebooted",
          "commitUnchecked",
          "lateReboot", "rollbackFailed", "rollbackNotRebooted",
          "reconciled"}

(* The type invariant of the files, the device and the agent. *)
TypeOK ==
  /\ data \in [part : Slots, slot : Slots, ua : {"0", "1"}, count : Nat]
  /\ fat \in [part : Slots, cmdline : Slots, prev : Slots \cup {"none"},
              try : Slots \cup {"none"}]
  /\ image \in [Slots -> ImageKinds \cup {"partial"}]
  /\ running \in Slots \cup {"none"} /\ oneshot \in {"armed", "clear"}
  /\ deferred \in Slots \cup {"none"}
  /\ pc \in Handlers \cup {"off", "boothealth", "dead"}
  /\ running = "none" <=> pc = "off"
  /\ todo \in Seq([file : WriteFiles, value : Slots \cup {"0", "1"}])
  /\ stored \in {"none", "store", "install", "reboot", "afterReboot", "commit",
                 "afterCommit", "rollback", "rollbackReboot"}
  /\ result \in {"none", "success", "failure"}
  /\ home \in Slots /\ exposed \subseteq Holes
  /\ faults \in Nat /\ deployments \in Nat
  /\ board \in Boards /\ script \in Scripts

-----------------------------------------------------------------------------
(* Safety *)

(* upgrade_available becomes 1 only when the files the firmware reads      *)
(* already name the new slot, or one of them could not be written: a       *)
(* reboot that sees the flag boots the update (the order of WriteEnv).     *)
ReadyMeansSwitched ==
  [][ data.ua = "0" /\ data'.ua = "1" /\ "staleFile" \notin exposed =>
        BootTarget' = data'.part ]_vars

(* The holes that are open on this board: a direct board refuses to commit *)
(* from the wrong slot, so that a reboot that did not happen is no hole     *)
OpenHoles == exposed \ (IF board = "direct" THEN {"notRebooted"} ELSE {})

(* A deployment that ends in failure leaves the device on the slot it came *)
(* from, now and at the next boot, unless a WriteEnv was torn, a script    *)
(* failed or the crash fell into the commit (Rollback, the rollback        *)
(* script and boot-health together).                                       *)
FailureRestores ==
  pc = "idle" /\ result = "failure" /\ OpenHoles = {} =>
    running = home /\ BootTarget = home /\ data.ua = "0"

(* A deployment that ends in success runs the new image, and boots it next *)
(* time without any pending flag.                                          *)
SuccessSwitches ==
  [][ result' = "success" /\ result # "success" /\ OpenHoles = {} =>
        running = Other(home) /\ BootTarget = running /\ data.ua = "0" ]_vars

(* While an update is pending the backup of cmdline.txt, where there is    *)
(* one, restores the slot the device came from (updateBootCmdline writes   *)
(* it once per cycle, commit and boot-health drop it).                     *)
BackupIsHome ==
  HasUpdate /\ exposed = {} /\ pc \notin {"commit", "commitWrite"} =>
    fat.prev \in {"none", home}

(* An idle agent's bookkeeping names the slot it runs on, whoever moved    *)
(* the device there (ReconcileToBootedSlot).                               *)
BookkeepingRight ==
  pc = "idle" /\ exposed = {} => data.part = running /\ data.slot = running

(* Liveness: as long as resets come, an image whose agent does not run is  *)
(* left again and an agent runs in the end (otapulse-boot-health).         *)
AgentReturns == pc = "off" ~> pc = "idle"

-----------------------------------------------------------------------------
(* Claims of comments, scripts and documents                               *)

(* file_bootenv.go, writeMenderBootPart: a file of the FAT partition or a  *)
(* cmdline.txt that stays stale makes "WriteEnv abort before               *)
(* upgrade_available is written".                                          *)
StaleFileAborts ==
  [][ data.ua = "0" /\ data'.ua = "1" => BootTarget' = data'.part ]_vars

(* dual_rootfs_device.go: before the reboot "the rollback must switch back *)
(* the partition to the current active and running partition".             *)
RollbackStaysHome ==
  pc = "rollbackWrite" =>
    \A i \in DOMAIN todo : todo[i].file = "part" => todo[i].value = home

(* update-modules-v3-file-api.md: ArtifactVerifyReboot verifies "that the  *)
(* reboot has been performed correctly".                                   *)
CommitAfterReboot == pc = "commit" => running # home

=============================================================================
