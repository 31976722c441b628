------------------------------ MODULE Standalone ------------------------------
(***************************************************************************)
(* The commands install, commit and rollback (app/standalone.go), which a  *)
(* user runs one after the other, with reboots in between.  What one       *)
(* command leaves for the next is the entry "standalone-state" of the      *)
(* database, the artifact name in it, and what the payload has done to the *)
(* software.  A command may be killed between any two of its steps; there  *)
(* is no recovery but the next command.                                    *)
(*                                                                         *)
(* An artifact has one payload or none (ReadHeaders refuses more).         *)
(***************************************************************************)
EXTENDS Integers

CONSTANTS
  Artifacts,   \* names of the artifacts the user has
  MaxScriptTries, \* retries of a script that fit into its retry time
  MaxInstalls, \* bound: install commands
  MaxFaults,   \* bound: failing scripts, payloads and database accesses
  MaxKills     \* bound: commands that are killed

Old  == "old"
None == "none"
Keep == ""      \* artifactName = "": keep the name in the database

ASSUME StandaloneAssumption ==
  /\ {Old, None, Keep} \cap Artifacts = {}
  /\ MaxScriptTries \in Nat /\ MaxInstalls \in Nat /\ MaxFaults \in Nat /\ MaxKills \in Nat

VARIABLES
  pc,       \* the step of the running command, "rest" if there is none
  data,     \* standaloneData: kind of the installer and name of the artifact
  plan,     \* failure states that are still to be visited
  support,  \* rollbackSupport
  first,    \* firstErr of the failure states
  tries,    \* retries a state script has asked for
  state,    \* "standalone-state" in the database
  name,     \* the artifact name in the database, and whether it is broken
  software, \* what is committed, what waits for commit, what is running
  canUndo,  \* whether the update module supports rollback
  lost,     \* history: killed without a record, a record or module is gone, or
            \* an update is installed over one that waits for its commit
  installs, faults, kills

command == <<pc, data, plan, support, first, tries>>
bounds  == <<installs, faults, kills>>
vars    == <<command, state, name, software, canUndo, lost, bounds>>

Kinds == {"rootfs", "module", "stub", "empty"}
NoData == [kind |-> "empty", art |-> None, name |-> Keep]
Good(a) == [art |-> a, broken |-> FALSE]
Broken(a) == [art |-> a, broken |-> TRUE]

NoFault == UNCHANGED <<faults, lost>>
Fault == faults < MaxFaults /\ faults' = faults + 1 /\ UNCHANGED lost
(* A failing access to the database, or a module that is gone *)
Loss == faults < MaxFaults /\ faults' = faults + 1 /\ lost' = TRUE

-----------------------------------------------------------------------------
(* Scripts: ExecuteAll *)

Scripted == {"download", "install", "commit", "commitLeave", "rollback", "undo", "failure"}

(* A script exits with 21: it is run again, within the retry time *)
ScriptRetries ==
  /\ pc \in Scripted /\ tries < MaxScriptTries /\ tries' = tries + 1
  /\ UNCHANGED <<pc, data, plan, support, first, state, name, software, canUndo, lost, bounds>>

-----------------------------------------------------------------------------
(* Payload handlers *)

(* determineRollbackSupport *)
SupportsRollback(kind) == kind \in {"rootfs", "stub"} \/ (kind = "module" /\ canUndo)

(* InstallUpdate *)
Installed == [software EXCEPT !.pending = data.art, !.kind = data.kind]

(* CommitUpdate: the boot flag knows whether there is something to commit. *)
(* A module may accept a second commit or not.                             *)
CommitUpdate ==
  IF data.kind \in {"rootfs", "module"} /\ software.pending = None THEN software
  ELSE [software EXCEPT !.committed = data.art, !.pending = None, !.booted = FALSE]

CommitMayFail == data.kind = "stub" \/ software.pending = None
CommitMaySucceed == data.kind # "stub" /\ (data.kind = "rootfs" => software.pending # None)

(* Rollback: undoes what waits for its commit; the stub does nothing *)
RolledBack ==
  IF data.kind = "stub" THEN software
  ELSE [software EXCEPT !.pending = None, !.booted = FALSE]

-----------------------------------------------------------------------------
(* Control *)

Goto(p) == pc' = p /\ tries' = 0 /\ UNCHANGED <<data, plan, support, first>>

(* doStandaloneFailureStates(rollback, failure, cleanup): the caller that  *)
(* does not ask for the cleanup calls it itself.                           *)
Fail(rollback, failure) ==
  /\ plan' = [rollback |-> rollback, failure |-> failure]
  /\ pc' = (IF rollback THEN "undo" ELSE IF failure THEN "failure" ELSE "rename")
  /\ support' = FALSE /\ first' = FALSE /\ tries' = 0
  /\ UNCHANGED data

(* DoStandaloneInstall: nothing asks whether another update waits *)
StartInstall ==
  /\ pc = "rest" /\ installs < MaxInstalls /\ installs' = installs + 1
  /\ \E a \in Artifacts, k \in Kinds \ {"stub"} :
       data' = [kind |-> k, art |-> a, name |-> a]
  /\ canUndo' \in BOOLEAN
  /\ pc' = "download" /\ tries' = 0
  /\ lost' = (lost \/ state # NoData)
  /\ UNCHANGED <<plan, support, first, state, name, software, faults, kills>>

(* doStandaloneInstallStatesDownload: before the first failing step that   *)
(* has anything to clean up the command just ends, but also when the       *)
(* artifact depends on something else.                                     *)
Download ==
  /\ pc = "download"
  /\ \/ Goto("ask") /\ NoFault
     \/ Goto("rest") /\ Fault
     \/ Fail(FALSE, FALSE) /\ Fault
  /\ UNCHANGED <<state, name, software, canUndo, installs, kills>>

AskSupport ==
  /\ pc = "ask"
  /\ \/ Goto("install") /\ NoFault
     \/ Fail(FALSE, FALSE) /\ Fault
  /\ UNCHANGED <<state, name, software, canUndo, installs, kills>>

(* ArtifactInstall: the scripts before, the payload, the scripts after *)
Install ==
  /\ pc = "install"
  /\ \/ software' = Installed /\ Goto("needsReboot") /\ NoFault
     \/ software' \in {software, Installed} /\ Fail(TRUE, TRUE) /\ Fault
  /\ UNCHANGED <<state, name, canUndo, installs, kills>>

NeedsReboot ==
  /\ pc = "needsReboot"
  /\ \/ Goto("store") /\ NoFault
     \/ Fail(TRUE, TRUE) /\ Fault
  /\ UNCHANGED <<state, name, software, canUndo, installs, kills>>

(* storeStandaloneData.  Without rollback support commit at once, which    *)
(* reads the entry back.  A failing write ends the command.                *)
Store ==
  /\ pc = "store"
  /\ \/ /\ state' = data /\ NoFault
        /\ Goto(IF SupportsRollback(data.kind) THEN "rest" ELSE "commit")
     \/ state' = data /\ ~SupportsRollback(data.kind) /\ Goto("rest") /\ Loss
     \/ Goto("rest") /\ Loss /\ UNCHANGED state
  /\ UNCHANGED <<name, software, canUndo, installs, kills>>

(* restoreStandaloneData and CreateInstallersFromList: a module that is    *)
(* gone, or a root filesystem without its partitions in the configuration, *)
(* is replaced by the stub                                                 *)
Restored ==
  /\ state # NoData
  /\ \/ data' = state /\ NoFault
     \/ /\ state.kind \in {"module", "rootfs"} /\ Loss
        /\ data' = [state EXCEPT !.kind = "stub"]

(* handlePreDatabaseRestore: upgrade_available is set; the name is the one *)
(* in artifact_info of the system that runs, which need not be the one     *)
(* that is committed, and a broken update passes for a good one            *)
PreDatabaseRestore ==
  /\ state = NoData /\ software.pending # None /\ software.kind = "rootfs"
  /\ data' = [kind |-> "rootfs", art |-> software.pending,
              name |-> IF software.booted THEN software.pending ELSE software.committed]
  /\ lost' = TRUE /\ UNCHANGED faults

(* DoStandaloneCommit and DoStandaloneRollback; without anything to commit *)
(* they end at once, which changes nothing.                                *)
StartCommit ==
  /\ pc = "rest" /\ (Restored \/ PreDatabaseRestore)
  /\ pc' = "commit" /\ tries' = 0
  /\ UNCHANGED <<plan, support, first, state, name, software, canUndo, installs, kills>>

StartRollback ==
  /\ pc = "rest" /\ (Restored \/ PreDatabaseRestore)
  /\ SupportsRollback(data'.kind)
  /\ pc' = "rollback" /\ tries' = 0
  /\ UNCHANGED <<plan, support, first, state, name, software, canUndo, installs, kills>>

(* doStandaloneCommitStates *)
Commit ==
  /\ pc = "commit"
  /\ \/ /\ CommitMaySucceed /\ software' = CommitUpdate
        /\ Goto("commitLeave") /\ NoFault
     \/ CommitMayFail /\ Fail(TRUE, TRUE) /\ NoFault /\ UNCHANGED software
     \/ Fail(TRUE, TRUE) /\ Fault /\ UNCHANGED software
  /\ UNCHANGED <<state, name, canUndo, installs, kills>>

(* Too late to roll back: the name is marked *)
CommitLeave ==
  /\ pc = "commitLeave"
  /\ \/ first' = FALSE /\ NoFault
     \/ first' = TRUE /\ Fault
  /\ pc' = "cleanup" /\ tries' = 0
  /\ UNCHANGED <<data, plan, support, state, name, software, canUndo, installs, kills>>

(* DoStandaloneRollback *)
Rollback ==
  /\ pc = "rollback"
  /\ \/ /\ software' = RolledBack /\ NoFault
        /\ pc' = "cleanup" /\ data' = [data EXCEPT !.name = Keep]
        /\ tries' = 0 /\ first' = FALSE /\ UNCHANGED <<plan, support>>
     \/ software' \in {software, RolledBack} /\ Fail(FALSE, TRUE) /\ Fault
  /\ UNCHANGED <<state, name, canUndo, installs, kills>>

(* doStandaloneFailureStatesRollback *)
FailureRollback ==
  /\ pc = "undo"
  /\ \/ ~SupportsRollback(data.kind) /\ support' = FALSE /\ UNCHANGED <<software, first>> /\ NoFault
     \/ /\ SupportsRollback(data.kind) /\ support' = TRUE
        /\ software' = RolledBack /\ UNCHANGED first /\ NoFault
     \/ /\ support' = SupportsRollback(data.kind) /\ first' = TRUE
        /\ software' \in {software, IF support' THEN RolledBack ELSE software} /\ Fault
  /\ pc' = "failure" /\ tries' = 0
  /\ UNCHANGED <<data, plan, state, name, canUndo, installs, kills>>

(* doStandaloneFailureStatesFailure: only the payload can fail *)
FailureFailure ==
  /\ pc = "failure"
  /\ \/ data.kind # "stub" /\ UNCHANGED first /\ NoFault
     \/ data.kind = "stub" /\ first' = TRUE /\ NoFault
     \/ first' = TRUE /\ Fault
  /\ pc' = "rename" /\ tries' = 0
  /\ UNCHANGED <<data, plan, support, state, name, software, canUndo, installs, kills>>

(* Mutant: a failure keeps the old name even where rollback is unsupported *)
RenameIgnoresSupport ==
  /\ pc = "rename"
  /\ IF first \/ (plan.failure /\ ~plan.rollback)
     THEN UNCHANGED data /\ first' = TRUE
     ELSE data' = [data EXCEPT !.name = Keep] /\ first' = FALSE
  /\ pc' = "cleanup"
  /\ UNCHANGED <<plan, support, tries, state, name, software, canUndo, lost, bounds>>

(* The name to record: broken, or that of before *)
Rename ==
  /\ pc = "rename"
  /\ IF first \/ (plan.failure /\ (~plan.rollback \/ ~support))
     THEN UNCHANGED data /\ first' = TRUE
     ELSE data' = [data EXCEPT !.name = Keep] /\ first' = FALSE
  /\ pc' = "cleanup"
  /\ UNCHANGED <<plan, support, tries, state, name, software, canUndo, lost, bounds>>

(* Mutant: the broken mark also goes to the name that is kept *)
CleanupMarksKept ==
  /\ pc = "cleanup"
  /\ \/ /\ state' = NoData /\ NoFault
        /\ name' = IF first \/ plan.failure THEN Broken(data.name) ELSE Good(data.name)
     \/ UNCHANGED <<state, name>> /\ Loss
  /\ pc' = "rest" /\ plan' = [rollback |-> FALSE, failure |-> FALSE]
  /\ support' = FALSE /\ first' = FALSE /\ tries' = 0 /\ data' = NoData
  /\ UNCHANGED <<software, canUndo, installs, kills>>

(* doStandaloneCleanup: one transaction drops the entry and sets the name *)
CleanupUpdate ==
  /\ pc = "cleanup"
  /\ \/ /\ state' = NoData /\ NoFault
        /\ name' = IF data.name = Keep THEN name
                   ELSE IF first THEN Broken(data.name) ELSE Good(data.name)
     \/ UNCHANGED <<state, name>> /\ Loss
  /\ pc' = "rest" /\ plan' = [rollback |-> FALSE, failure |-> FALSE]
  /\ support' = FALSE /\ first' = FALSE /\ tries' = 0 /\ data' = NoData
  /\ UNCHANGED <<software, canUndo, installs, kills>>

(* The user reboots: a root filesystem that waits for its commit is booted *)
Reboot ==
  /\ pc = "rest" /\ software.pending # None /\ software.kind = "rootfs" /\ ~software.booted
  /\ software' = [software EXCEPT !.booted = TRUE]
  /\ UNCHANGED <<command, state, name, canUndo, lost, bounds>>

(* Between the payload's step and the transaction that records it *)
Unrecorded == {"needsReboot", "store", "undo", "failure", "rename", "cleanup", "commitLeave"}

Killed ==
  /\ pc # "rest" /\ kills < MaxKills /\ kills' = kills + 1
  /\ pc' = "rest" /\ data' = NoData /\ plan' = [rollback |-> FALSE, failure |-> FALSE]
  /\ support' = FALSE /\ first' = FALSE /\ tries' = 0
  /\ lost' = (lost \/ pc \in Unrecorded)
  /\ UNCHANGED <<state, name, software, canUndo, installs, faults>>

-----------------------------------------------------------------------------

Init ==
  /\ pc = "rest" /\ data = NoData /\ plan = [rollback |-> FALSE, failure |-> FALSE]
  /\ support = FALSE /\ first = FALSE /\ tries = 0
  /\ state = NoData /\ name = Good(Old) /\ canUndo = FALSE /\ lost = FALSE
  /\ software = [committed |-> Old, pending |-> None, kind |-> "empty", booted |-> FALSE]
  /\ installs = 0 /\ faults = 0 /\ kills = 0

Command ==
  \/ Download \/ AskSupport \/ Install \/ NeedsReboot \/ Store
  \/ Commit \/ CommitLeave \/ Rollback
  \/ FailureRollback \/ FailureFailure \/ Rename \/ CleanupUpdate

Next ==
  \/ Command \/ ScriptRetries
  \/ StartInstall \/ StartCommit \/ StartRollback
  \/ Reboot \/ Killed

Spec == Init /\ [][Next]_vars

-----------------------------------------------------------------------------
(* Types *)
TypeOK ==
  /\ pc \in Scripted \cup {"rest", "ask", "needsReboot", "store", "rename", "cleanup"}
  /\ data \in [kind : Kinds, art : Artifacts \cup {None}, name : Artifacts \cup {Old, Keep}]
  /\ plan \in [rollback : BOOLEAN, failure : BOOLEAN]
  /\ support \in BOOLEAN /\ first \in BOOLEAN /\ tries \in 0..MaxScriptTries
  /\ state = NoData \/ state \in [kind : Kinds, art : Artifacts, name : Artifacts]
  /\ name \in [art : Artifacts \cup {Old}, broken : BOOLEAN]
  /\ software \in [committed : Artifacts \cup {Old}, pending : Artifacts \cup {None},
                    kind : Kinds, booted : BOOLEAN]
  /\ canUndo \in BOOLEAN /\ lost \in BOOLEAN
  /\ installs \in 0..MaxInstalls /\ faults \in 0..MaxFaults /\ kills \in 0..MaxKills

(* Whatever scripts and payloads fail, the database tells the truth when a *)
(* command has ended: the update that waits for its commit is the one that *)
(* is recorded, and without one the artifact name is that of the software, *)
(* or marked as broken.  Only a command killed between the payload's step  *)
(* and the record, a failing database, an update module that has been      *)
(* removed (its stub pretends to roll back), a commit or rollback without  *)
(* a record, or an install while another update waits breaks this.         *)
NameIsTrue ==
  pc = "rest" /\ ~lost =>
    IF state # NoData THEN software.pending = state.art
    ELSE name.broken \/ (software.committed = name.art /\ software.pending = None)

(* "Use 'commit' to update, or 'rollback' to roll back the update.": the   *)
(* update that waits stays recorded until it is committed or rolled back.  *)
(* An install that fails meanwhile removes the record.                     *)
WaitingIsKept ==
  [][state # NoData /\ state' # state => data.art = state.art]_vars

=============================================================================
