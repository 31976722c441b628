--------------------------- MODULE StandaloneProofs ---------------------------
(***************************************************************************)
(* The commands install, commit and rollback: the types of Standalone and  *)
(* NameIsTrue, proved for any set of artifacts and any number of commands, *)
(* failures and kills.                                                     *)
(***************************************************************************)
EXTENDS Standalone, TLAPS

Orders == [kind : Kinds, art : Artifacts, name : Artifacts]

(* What the running command works on.  The name it will record is dropped  *)
(* only on the way into the cleanup.                                       *)
Works ==
  /\ pc \in {"download", "ask", "install", "needsReboot", "store"} =>
       data \in Orders /\ data.name = data.art
  /\ state # NoData => state \in Orders /\ state.name = state.art
  /\ pc # "rest" => data.art \in Artifacts
  /\ pc \notin {"rest", "cleanup"} => data.name # Keep

(* The artifact name is that of the software, or marked as broken ... *)
Named == name.broken \/ software.committed = name.art

(* ... and nothing waits for a commit that a mark does not cover. *)
Clean == name.broken \/ (software.committed = name.art /\ software.pending = None)

(* An update waits that the record knows *)
Waits == state # NoData /\ software.pending = state.art /\ Named

(* What is true of the device at every step of a command *)
Truth ==
  /\ pc = "rest" => IF state # NoData THEN Waits ELSE Clean
  /\ pc \in {"download", "ask", "install"} => state = NoData /\ Clean
  /\ pc \in {"needsReboot", "store"} => software.pending = data.art /\ Named
  /\ pc \in {"commit", "rollback"} => Waits /\ data = state
  /\ pc = "commitLeave" => software.committed = data.name /\ software.pending = None
  /\ pc = "undo" => plan = [rollback |-> TRUE, failure |-> TRUE] /\ Named
  /\ pc = "failure" => plan.failure /\ (~first /\ plan.rollback /\ support => Clean)
  /\ pc = "rename" =>
       (~first /\ (plan.failure => plan.rollback /\ support) => Clean)
  /\ pc = "cleanup" =>
       IF data.name = Keep THEN Clean
       ELSE first \/ (software.committed = data.name /\ software.pending = None)

(* Commands work with the installer they stored, unless it is lost *)
NoStub ==
  /\ pc \notin {"rest"} => data.kind # "stub"
  /\ state.kind # "stub"

StandaloneInv == TypeOK /\ Works /\ (~lost => Truth /\ NoStub)

-----------------------------------------------------------------------------
(* Types *)

Counters ==
  /\ tries \in 0..MaxScriptTries /\ installs \in 0..MaxInstalls
  /\ faults \in 0..MaxFaults /\ kills \in 0..MaxKills

Flags == support \in BOOLEAN /\ first \in BOOLEAN /\ canUndo \in BOOLEAN /\ lost \in BOOLEAN

Control ==
  /\ pc \in Scripted \cup {"rest", "ask", "needsReboot", "store", "rename", "cleanup"}
  /\ plan \in [rollback : BOOLEAN, failure : BOOLEAN]

Records ==
  /\ data \in [kind : Kinds, art : Artifacts \cup {None}, name : Artifacts \cup {Old, Keep}]
  /\ state = NoData \/ state \in [kind : Kinds, art : Artifacts, name : Artifacts]
  /\ name \in [art : Artifacts \cup {Old}, broken : BOOLEAN]
  /\ software \in [committed : Artifacts \cup {Old}, pending : Artifacts \cup {None},
                   kind : Kinds, booted : BOOLEAN]

(* The types in parts, before and after a step *)
LEMMA Parts == TypeOK <=> Counters /\ Flags /\ Control /\ Records
BY DEF TypeOK, Counters, Flags, Control, Records

LEMMA PartsNext == TypeOK' <=> Counters' /\ Flags' /\ Control' /\ Records'
BY DEF TypeOK, Counters, Flags, Control, Records

(* What the caller asks of the failure states, and a name with its mark *)
LEMMA Plans ==
  \A r, f \in BOOLEAN :
    [rollback |-> r, failure |-> f] \in [rollback : BOOLEAN, failure : BOOLEAN]
OBVIOUS

LEMMA Names ==
  \A a \in Artifacts \cup {Old} :
    /\ Good(a) \in [art : Artifacts \cup {Old}, broken : BOOLEAN]
    /\ Broken(a) \in [art : Artifacts \cup {Old}, broken : BOOLEAN]
BY DEF Good, Broken

LEMMA DownloadType ==
  ASSUME TypeOK, Works, Download
  PROVE  TypeOK' /\ Works'
<1> USE Parts
    DEF Download, Goto, Fail, Fault, NoFault
<1>1. Counters'
  BY StandaloneAssumption DEF Counters, StandaloneAssumption
<1>2. Flags'
  BY DEF Flags
<1>3. Control'
  <2>1. pc' \in Scripted \cup {"rest", "ask", "needsReboot", "store", "rename", "cleanup"}
    BY DEF Scripted
  <2>2. plan' \in [rollback : BOOLEAN, failure : BOOLEAN]
    <3>1. plan' = plan \/ plan' = [rollback |-> FALSE, failure |-> FALSE]
      OBVIOUS
    <3> QED
      BY <3>1, Plans DEF Control
  <2> QED
    BY <2>1, <2>2 DEF Control
<1>4. Records'
  BY StandaloneAssumption DEF Records, Works, Orders, Kinds, NoData, StandaloneAssumption
<1>5. Works'
  BY StandaloneAssumption DEF Records, Works, Orders, Kinds, NoData, StandaloneAssumption
<1> QED
  BY <1>1, <1>2, <1>3, <1>4, <1>5, PartsNext

LEMMA AskSupportType ==
  ASSUME TypeOK, Works, AskSupport
  PROVE  TypeOK' /\ Works'
<1> USE Parts
    DEF AskSupport, Goto, Fail, Fault, NoFault
<1>1. Counters'
  BY StandaloneAssumption DEF Counters, StandaloneAssumption
<1>2. Flags'
  BY DEF Flags
<1>3. Control'
  <2>1. pc' \in Scripted \cup {"rest", "ask", "needsReboot", "store", "rename", "cleanup"}
    BY DEF Scripted
  <2>2. plan' \in [rollback : BOOLEAN, failure : BOOLEAN]
    <3>1. plan' = plan \/ plan' = [rollback |-> FALSE, failure |-> FALSE]
      OBVIOUS
    <3> QED
      BY <3>1, Plans DEF Control
  <2> QED
    BY <2>1, <2>2 DEF Control
<1>4. Records'
  BY StandaloneAssumption DEF Records, Works, Orders, Kinds, NoData, StandaloneAssumption
<1>5. Works'
  BY StandaloneAssumption DEF Records, Works, Orders, Kinds, NoData, StandaloneAssumption
<1> QED
  BY <1>1, <1>2, <1>3, <1>4, <1>5, PartsNext

LEMMA InstallType ==
  ASSUME TypeOK, Works, Install
  PROVE  TypeOK' /\ Works'
<1> USE Parts
    DEF Install, Installed, Goto, Fail, Fault, NoFault
<1>1. Counters'
  BY StandaloneAssumption DEF Counters, StandaloneAssumption
<1>2. Flags'
  BY DEF Flags
<1>3. Control'
  <2>1. pc' \in Scripted \cup {"rest", "ask", "needsReboot", "store", "rename", "cleanup"}
    BY DEF Scripted
  <2>2. plan' \in [rollback : BOOLEAN, failure : BOOLEAN]
    <3>1. plan' = plan \/ plan' = [rollback |-> TRUE, failure |-> TRUE]
      OBVIOUS
    <3> QED
      BY <3>1, Plans DEF Control
  <2> QED
    BY <2>1, <2>2 DEF Control
<1>4. Records'
  BY StandaloneAssumption DEF Records, Works, Orders, Kinds, NoData, StandaloneAssumption
<1>5. Works'
  BY StandaloneAssumption DEF Records, Works, Orders, Kinds, NoData, StandaloneAssumption
<1> QED
  BY <1>1, <1>2, <1>3, <1>4, <1>5, PartsNext

LEMMA NeedsRebootType ==
  ASSUME TypeOK, Works, NeedsReboot
  PROVE  TypeOK' /\ Works'
<1> USE Parts
    DEF NeedsReboot, Goto, Fail, Fault, NoFault
<1>1. Counters'
  BY StandaloneAssumption DEF Counters, StandaloneAssumption
<1>2. Flags'
  BY DEF Flags
<1>3. Control'
  <2>1. pc' \in Scripted \cup {"rest", "ask", "needsReboot", "store", "rename", "cleanup"}
    BY DEF Scripted
  <2>2. plan' \in [rollback : BOOLEAN, failure : BOOLEAN]
    <3>1. plan' = plan \/ plan' = [rollback |-> TRUE, failure |-> TRUE]
      OBVIOUS
    <3> QED
      BY <3>1, Plans DEF Control
  <2> QED
    BY <2>1, <2>2 DEF Control
<1>4. Records'
  BY StandaloneAssumption DEF Records, Works, Orders, Kinds, NoData, StandaloneAssumption
<1>5. Works'
  BY StandaloneAssumption DEF Records, Works, Orders, Kinds, NoData, StandaloneAssumption
<1> QED
  BY <1>1, <1>2, <1>3, <1>4, <1>5, PartsNext

LEMMA StoreType ==
  ASSUME TypeOK, Works, Store
  PROVE  TypeOK' /\ Works'
<1> USE Parts
    DEF Store, Goto, Loss, NoFault
<1>1. Counters'
  BY StandaloneAssumption DEF Counters, StandaloneAssumption
<1>2. Flags'
  BY DEF Flags
<1>3. Control'
  BY DEF Control, Scripted
<1>4. Records'
  BY StandaloneAssumption DEF Records, Works, Orders, Kinds, NoData, StandaloneAssumption
<1>5. Works'
  BY StandaloneAssumption DEF Records, Works, Orders, Kinds, NoData, StandaloneAssumption
<1> QED
  BY <1>1, <1>2, <1>3, <1>4, <1>5, PartsNext

LEMMA CommitType ==
  ASSUME TypeOK, Works, Commit
  PROVE  TypeOK' /\ Works'
<1> USE Parts
    DEF Commit, CommitUpdate, CommitMayFail, CommitMaySucceed, Goto, Fail, Fault, NoFault
<1>1. Counters'
  BY StandaloneAssumption DEF Counters, StandaloneAssumption
<1>2. Flags'
  BY DEF Flags
<1>3. Control'
  <2>1. pc' \in Scripted \cup {"rest", "ask", "needsReboot", "store", "rename", "cleanup"}
    BY DEF Scripted
  <2>2. plan' \in [rollback : BOOLEAN, failure : BOOLEAN]
    <3>1. plan' = plan \/ plan' = [rollback |-> TRUE, failure |-> TRUE]
      OBVIOUS
    <3> QED
      BY <3>1, Plans DEF Control
  <2> QED
    BY <2>1, <2>2 DEF Control
<1>4. Records'
  BY StandaloneAssumption DEF Records, Works, Orders, Kinds, NoData, StandaloneAssumption
<1>5. Works'
  BY StandaloneAssumption DEF Records, Works, Orders, Kinds, NoData, StandaloneAssumption
<1> QED
  BY <1>1, <1>2, <1>3, <1>4, <1>5, PartsNext

LEMMA CommitLeaveType ==
  ASSUME TypeOK, Works, CommitLeave
  PROVE  TypeOK' /\ Works'
<1> USE Parts
    DEF CommitLeave, Fault, NoFault
<1>1. Counters'
  BY StandaloneAssumption DEF Counters, StandaloneAssumption
<1>2. Flags'
  BY DEF Flags
<1>3. Control'
  BY DEF Control, Scripted
<1>4. Records'
  BY StandaloneAssumption DEF Records, Works, Orders, Kinds, NoData, StandaloneAssumption
<1>5. Works'
  BY StandaloneAssumption DEF Records, Works, Orders, Kinds, NoData, StandaloneAssumption
<1> QED
  BY <1>1, <1>2, <1>3, <1>4, <1>5, PartsNext

LEMMA RollbackType ==
  ASSUME TypeOK, Works, Rollback
  PROVE  TypeOK' /\ Works'
<1> USE Parts
    DEF Rollback, RolledBack, Fail, Fault, NoFault
<1>1. Counters'
  BY StandaloneAssumption DEF Counters, StandaloneAssumption
<1>2. Flags'
  BY DEF Flags
<1>3. Control'
  <2>1. pc' \in Scripted \cup {"rest", "ask", "needsReboot", "store", "rename", "cleanup"}
    BY DEF Scripted
  <2>2. plan' \in [rollback : BOOLEAN, failure : BOOLEAN]
    <3>1. plan' = plan \/ plan' = [rollback |-> FALSE, failure |-> TRUE]
      OBVIOUS
    <3> QED
      BY <3>1, Plans DEF Control
  <2> QED
    BY <2>1, <2>2 DEF Control
<1>4. Records'
  BY StandaloneAssumption DEF Records, Works, Orders, Kinds, NoData, StandaloneAssumption
<1>5. Works'
  BY StandaloneAssumption DEF Records, Works, Orders, Kinds, NoData, StandaloneAssumption
<1> QED
  BY <1>1, <1>2, <1>3, <1>4, <1>5, PartsNext

LEMMA FailureRollbackType ==
  ASSUME TypeOK, Works, FailureRollback
  PROVE  TypeOK' /\ Works'
<1> USE Parts
    DEF FailureRollback, RolledBack, SupportsRollback, Fault, NoFault
<1>1. Counters'
  BY StandaloneAssumption DEF Counters, StandaloneAssumption
<1>2. Flags'
  BY DEF Flags
<1>3. Control'
  BY DEF Control, Scripted
<1>4. Records'
  <2>1. software' \in {software, [software EXCEPT !.pending = None, !.booted = FALSE]}
    OBVIOUS
  <2>2. UNCHANGED <<data, state, name>>
    OBVIOUS
  <2> QED
    BY <2>1, <2>2 DEF Records
<1>5. Works'
  BY StandaloneAssumption DEF Records, Works, Orders, Kinds, NoData, StandaloneAssumption
<1> QED
  BY <1>1, <1>2, <1>3, <1>4, <1>5, PartsNext

LEMMA FailureFailureType ==
  ASSUME TypeOK, Works, FailureFailure
  PROVE  TypeOK' /\ Works'
<1> USE Parts
    DEF FailureFailure, Fault, NoFault
<1>1. Counters'
  BY StandaloneAssumption DEF Counters, StandaloneAssumption
<1>2. Flags'
  BY DEF Flags
<1>3. Control'
  BY DEF Control, Scripted
<1>4. Records'
  BY StandaloneAssumption DEF Records, Works, Orders, Kinds, NoData, StandaloneAssumption
<1>5. Works'
  BY StandaloneAssumption DEF Records, Works, Orders, Kinds, NoData, StandaloneAssumption
<1> QED
  BY <1>1, <1>2, <1>3, <1>4, <1>5, PartsNext

LEMMA RenameType ==
  ASSUME TypeOK, Works, Rename
  PROVE  TypeOK' /\ Works'
<1> USE Parts
    DEF Rename, bounds
<1>1. Counters'
  BY StandaloneAssumption DEF Counters, StandaloneAssumption
<1>2. Flags'
  BY DEF Flags
<1>3. Control'
  BY DEF Control, Scripted
<1>4. Records'
  BY StandaloneAssumption DEF Records, Works, Orders, Kinds, NoData, StandaloneAssumption
<1>5. Works'
  BY StandaloneAssumption DEF Records, Works, Orders, Kinds, NoData, StandaloneAssumption
<1> QED
  BY <1>1, <1>2, <1>3, <1>4, <1>5, PartsNext

LEMMA CleanupUpdateType ==
  ASSUME TypeOK, Works, CleanupUpdate
  PROVE  TypeOK' /\ Works'
<1> USE Parts
    DEF CleanupUpdate, Good, Broken, Loss, NoFault
<1>1. Counters'
  BY StandaloneAssumption DEF Counters, StandaloneAssumption
<1>2. Flags'
  BY DEF Flags
<1>3. Control'
  BY DEF Control, Scripted
<1>4. Records'
  <2>1. data' = NoData /\ (state' = NoData \/ state' = state) /\ software' = software
    OBVIOUS
  <2>2. name' \in [art : Artifacts \cup {Old}, broken : BOOLEAN]
    <3>1. CASE name' = name
      BY <3>1 DEF Records
    <3>2. CASE name' # name
      <4>1. data.name \in Artifacts \cup {Old}
        BY <3>2 DEF Records
      <4>2. name' = Good(data.name) \/ name' = Broken(data.name)
        BY <3>2
      <4> QED
        BY <4>1, <4>2, Names
    <3> QED
      BY <3>1, <3>2
  <2> QED
    BY <2>1, <2>2, StandaloneAssumption DEF Records, Kinds, NoData, StandaloneAssumption
<1>5. Works'
  BY StandaloneAssumption DEF Records, Works, Orders, Kinds, NoData, StandaloneAssumption
<1> QED
  BY <1>1, <1>2, <1>3, <1>4, <1>5, PartsNext

LEMMA ScriptRetriesType ==
  ASSUME TypeOK, Works, ScriptRetries
  PROVE  TypeOK' /\ Works'
<1> USE Parts
    DEF ScriptRetries, bounds
<1>1. Counters'
  BY StandaloneAssumption DEF Counters, StandaloneAssumption
<1>2. Flags'
  BY DEF Flags
<1>3. Control'
  BY DEF Control, Scripted
<1>4. Records'
  BY StandaloneAssumption DEF Records, Works, Orders, Kinds, NoData, StandaloneAssumption
<1>5. Works'
  BY StandaloneAssumption DEF Records, Works, Orders, Kinds, NoData, StandaloneAssumption
<1> QED
  BY <1>1, <1>2, <1>3, <1>4, <1>5, PartsNext

LEMMA StartInstallType ==
  ASSUME TypeOK, Works, StartInstall
  PROVE  TypeOK' /\ Works'
<1> USE Parts
    DEF StartInstall
<1>1. Counters'
  BY StandaloneAssumption DEF Counters, StandaloneAssumption
<1>2. Flags'
  BY DEF Flags
<1>3. Control'
  BY DEF Control, Scripted
<1>4. Records'
  BY StandaloneAssumption DEF Records, Works, Orders, Kinds, NoData, StandaloneAssumption
<1>5. Works'
  BY StandaloneAssumption DEF Records, Works, Orders, Kinds, NoData, StandaloneAssumption
<1> QED
  BY <1>1, <1>2, <1>3, <1>4, <1>5, PartsNext

LEMMA StartCommitType ==
  ASSUME TypeOK, Works, StartCommit
  PROVE  TypeOK' /\ Works'
<1> USE Parts
    DEF StartCommit, Restored, PreDatabaseRestore, Loss, NoFault
<1>1. Counters'
  BY StandaloneAssumption DEF Counters, StandaloneAssumption
<1>2. Flags'
  BY DEF Flags
<1>3. Control'
  BY DEF Control, Scripted
<1>4. Records'
  BY StandaloneAssumption DEF Records, Works, Orders, Kinds, NoData, StandaloneAssumption
<1>5. Works'
  <2>1. pc' = "commit" /\ state' = state
    OBVIOUS
  <2>2. data'.art \in Artifacts /\ data'.name # Keep
    <3>1. CASE Restored
      <4>1. state \in Orders
        BY <3>1 DEF Works
      <4> QED
        BY <3>1, <4>1, StandaloneAssumption DEF Orders, StandaloneAssumption
    <3>2. CASE PreDatabaseRestore
      <4>1. /\ software.pending \in Artifacts
            /\ software.committed \in Artifacts \cup {Old}
        BY <3>2 DEF Records
      <4> QED
        BY <3>2, <4>1, StandaloneAssumption DEF StandaloneAssumption, Old, Keep
    <3> QED
      BY <3>1, <3>2
  <2> QED
    BY <2>1, <2>2 DEF Works
<1> QED
  BY <1>1, <1>2, <1>3, <1>4, <1>5, PartsNext

LEMMA StartRollbackType ==
  ASSUME TypeOK, Works, StartRollback
  PROVE  TypeOK' /\ Works'
<1> USE Parts
    DEF StartRollback, Restored, PreDatabaseRestore, Loss, NoFault
<1>1. Counters'
  BY StandaloneAssumption DEF Counters, StandaloneAssumption
<1>2. Flags'
  BY DEF Flags
<1>3. Control'
  BY DEF Control, Scripted
<1>4. Records'
  BY StandaloneAssumption DEF Records, Works, Orders, Kinds, NoData, StandaloneAssumption
<1>5. Works'
  <2>1. pc' = "rollback" /\ state' = state
    OBVIOUS
  <2>2. data'.art \in Artifacts /\ data'.name # Keep
    <3>1. CASE Restored
      <4>1. state \in Orders
        BY <3>1 DEF Works
      <4> QED
        BY <3>1, <4>1, StandaloneAssumption DEF Orders, StandaloneAssumption
    <3>2. CASE PreDatabaseRestore
      <4>1. /\ software.pending \in Artifacts
            /\ software.committed \in Artifacts \cup {Old}
        BY <3>2 DEF Records
      <4> QED
        BY <3>2, <4>1, StandaloneAssumption DEF StandaloneAssumption, Old, Keep
    <3> QED
      BY <3>1, <3>2
  <2> QED
    BY <2>1, <2>2 DEF Works
<1> QED
  BY <1>1, <1>2, <1>3, <1>4, <1>5, PartsNext

LEMMA RebootType ==
  ASSUME TypeOK, Works, Reboot
  PROVE  TypeOK' /\ Works'
<1> USE Parts
    DEF Reboot, command, bounds
<1>1. Counters'
  BY StandaloneAssumption DEF Counters, StandaloneAssumption
<1>2. Flags'
  BY DEF Flags
<1>3. Control'
  BY DEF Control, Scripted
<1>4. Records'
  BY StandaloneAssumption DEF Records, Works, Orders, Kinds, NoData, StandaloneAssumption
<1>5. Works'
  BY StandaloneAssumption DEF Records, Works, Orders, Kinds, NoData, StandaloneAssumption
<1> QED
  BY <1>1, <1>2, <1>3, <1>4, <1>5, PartsNext

LEMMA KilledType ==
  ASSUME TypeOK, Works, Killed
  PROVE  TypeOK' /\ Works'
<1> USE Parts
    DEF Killed, Unrecorded
<1>1. Counters'
  BY StandaloneAssumption DEF Counters, StandaloneAssumption
<1>2. Flags'
  BY DEF Flags
<1>3. Control'
  BY DEF Control, Scripted
<1>4. Records'
  BY StandaloneAssumption DEF Records, Works, Orders, Kinds, NoData, StandaloneAssumption
<1>5. Works'
  BY StandaloneAssumption DEF Records, Works, Orders, Kinds, NoData, StandaloneAssumption
<1> QED
  BY <1>1, <1>2, <1>3, <1>4, <1>5, PartsNext

-----------------------------------------------------------------------------
(* The truth: as long as nothing is lost, every step keeps it *)

LEMMA DownloadTrue ==
  ASSUME TypeOK, Works, ~lost => Truth /\ NoStub, Download
  PROVE  ~lost' => (Truth /\ NoStub)'
BY StandaloneAssumption
DEF TypeOK, Works, Orders, Truth, NoStub, Named, Clean, Waits, NoData, StandaloneAssumption,
    Download, Goto, Fail, Fault, NoFault

LEMMA AskSupportTrue ==
  ASSUME TypeOK, Works, ~lost => Truth /\ NoStub, AskSupport
  PROVE  ~lost' => (Truth /\ NoStub)'
BY StandaloneAssumption
DEF TypeOK, Works, Orders, Truth, NoStub, Named, Clean, Waits, NoData, StandaloneAssumption,
    AskSupport, Goto, Fail, Fault, NoFault

LEMMA InstallTrue ==
  ASSUME TypeOK, Works, ~lost => Truth /\ NoStub, Install
  PROVE  ~lost' => (Truth /\ NoStub)'
BY StandaloneAssumption
DEF TypeOK, Works, Orders, Truth, NoStub, Named, Clean, Waits, NoData, StandaloneAssumption,
    Install, Installed, Goto, Fail, Fault, NoFault

LEMMA NeedsRebootTrue ==
  ASSUME TypeOK, Works, ~lost => Truth /\ NoStub, NeedsReboot
  PROVE  ~lost' => (Truth /\ NoStub)'
BY StandaloneAssumption
DEF TypeOK, Works, Orders, Truth, NoStub, Named, Clean, Waits, NoData, StandaloneAssumption,
    NeedsReboot, Goto, Fail, Fault, NoFault

LEMMA StoreTrue ==
  ASSUME TypeOK, Works, ~lost => Truth /\ NoStub, Store
  PROVE  ~lost' => (Truth /\ NoStub)'
BY StandaloneAssumption
DEF TypeOK, Works, Orders, Truth, NoStub, Named, Clean, Waits, NoData, StandaloneAssumption,
    Store, Goto, Loss, NoFault

LEMMA CommitTrue ==
  ASSUME TypeOK, Works, ~lost => Truth /\ NoStub, Commit
  PROVE  ~lost' => (Truth /\ NoStub)'
<1> SUFFICES ASSUME ~lost' PROVE Truth' /\ NoStub'
  OBVIOUS
<1>1. ~lost /\ pc = "commit"
  BY DEF Commit, Goto, Fail, Fault, NoFault
<1>2. Waits /\ Named /\ data = state /\ data.kind # "stub" /\ state.kind # "stub"
  BY <1>1 DEF Truth, NoStub, Waits
<1>3. UNCHANGED <<data, state, name>>
  BY DEF Commit, Goto, Fail
<1>4. CASE pc' = "commitLeave"
  <2>1. software' = CommitUpdate
    BY <1>4 DEF Commit, Fail
  <2>2. data.art \in Artifacts /\ data.name = data.art /\ software.pending # None
    BY <1>2, StandaloneAssumption DEF Works, Waits, Orders, StandaloneAssumption
  <2>3. software'.committed = data.art /\ software'.pending = None
    BY <2>1, <2>2 DEF CommitUpdate, TypeOK
  <2> QED
    BY <1>2, <1>3, <1>4, <2>2, <2>3 DEF Truth, NoStub
<1>5. CASE pc' # "commitLeave"
  <2>1. /\ pc' = "undo" /\ plan' = [rollback |-> TRUE, failure |-> TRUE]
        /\ UNCHANGED software
    BY <1>5 DEF Commit, Goto, Fail
  <2>2. Named'
    BY <1>2, <1>3, <2>1 DEF Named
  <2> QED
    BY <1>2, <1>3, <2>1, <2>2 DEF Truth, NoStub
<1> QED
  BY <1>4, <1>5

LEMMA CommitLeaveTrue ==
  ASSUME TypeOK, Works, ~lost => Truth /\ NoStub, CommitLeave
  PROVE  ~lost' => (Truth /\ NoStub)'
BY StandaloneAssumption
DEF TypeOK, Works, Orders, Truth, NoStub, Named, Clean, Waits, NoData, StandaloneAssumption,
    CommitLeave, Fault, NoFault

LEMMA RollbackTrue ==
  ASSUME TypeOK, Works, ~lost => Truth /\ NoStub, Rollback
  PROVE  ~lost' => (Truth /\ NoStub)'
<1> SUFFICES ASSUME ~lost' PROVE Truth' /\ NoStub'
  OBVIOUS
<1>0. ~lost /\ pc = "rollback"
  BY DEF Rollback, Fail, Fault, NoFault
<1>1. ~lost /\ Waits /\ data = state /\ data.kind # "stub" /\ state.kind # "stub"
  BY <1>0 DEF Truth, NoStub
<1>2. Named /\ RolledBack.pending = None /\ RolledBack.committed = software.committed
  BY <1>1 DEF Waits, RolledBack, TypeOK
<1>3. CASE pc' = "cleanup"
  <2>1. data'.name = Keep /\ data'.kind = data.kind /\ UNCHANGED <<name, state>>
    BY <1>3 DEF Rollback, Fail, TypeOK
  <2>2. software' = RolledBack
    BY <1>3 DEF Rollback, Fail
  <2>3. Clean'
    BY <1>2, <2>1, <2>2 DEF Clean, Named
  <2> QED
    BY <1>1, <1>3, <2>1, <2>3 DEF Truth, NoStub
<1>4. CASE pc' # "cleanup"
  <2>1. /\ pc' = "failure" /\ plan' = [rollback |-> FALSE, failure |-> TRUE]
        /\ UNCHANGED <<data, state>>
    BY <1>4 DEF Rollback, Fail
  <2> QED
    BY <1>1, <2>1 DEF Truth, NoStub
<1> QED
  BY <1>3, <1>4

LEMMA FailureRollbackTrue ==
  ASSUME TypeOK, Works, ~lost => Truth /\ NoStub, FailureRollback
  PROVE  ~lost' => (Truth /\ NoStub)'
<1> SUFFICES ASSUME ~lost' PROVE Truth' /\ NoStub'
  OBVIOUS
<1>1. /\ ~lost /\ data.kind # "stub" /\ state.kind # "stub"
      /\ plan = [rollback |-> TRUE, failure |-> TRUE] /\ Named
  BY DEF FailureRollback, Fault, NoFault, Truth, NoStub
<1>2. Named /\ RolledBack.pending = None /\ RolledBack.committed = software.committed
  BY <1>1 DEF RolledBack, TypeOK
<1>3. pc' = "failure" /\ UNCHANGED <<data, state, plan, name>>
  BY DEF FailureRollback
<1>4. ASSUME ~first', support' PROVE Clean'
  <2>1. software' = RolledBack
    BY <1>4 DEF FailureRollback
  <2> QED
    BY <1>2, <1>3, <2>1 DEF Clean, Named
<1>5. Truth'
  BY <1>1, <1>3, <1>4 DEF Truth
<1> QED
  BY <1>1, <1>3, <1>5 DEF NoStub

LEMMA FailureFailureTrue ==
  ASSUME TypeOK, Works, ~lost => Truth /\ NoStub, FailureFailure
  PROVE  ~lost' => (Truth /\ NoStub)'
BY StandaloneAssumption
DEF TypeOK, Works, Orders, Truth, NoStub, Named, Clean, Waits, NoData, StandaloneAssumption,
    FailureFailure, Fault, NoFault

LEMMA RenameTrue ==
  ASSUME TypeOK, Works, ~lost => Truth /\ NoStub, Rename
  PROVE  ~lost' => (Truth /\ NoStub)'
BY StandaloneAssumption
DEF TypeOK, Works, Orders, Truth, NoStub, Named, Clean, Waits, NoData, StandaloneAssumption,
    Rename, bounds

LEMMA CleanupUpdateTrue ==
  ASSUME TypeOK, Works, ~lost => Truth /\ NoStub, CleanupUpdate
  PROVE  ~lost' => (Truth /\ NoStub)'
BY StandaloneAssumption
DEF TypeOK, Works, Orders, Truth, NoStub, Named, Clean, Waits, NoData, StandaloneAssumption,
    CleanupUpdate, Good, Broken, Loss, NoFault

LEMMA ScriptRetriesTrue ==
  ASSUME TypeOK, Works, ~lost => Truth /\ NoStub, ScriptRetries
  PROVE  ~lost' => (Truth /\ NoStub)'
BY StandaloneAssumption
DEF TypeOK, Works, Orders, Truth, NoStub, Named, Clean, Waits, NoData, StandaloneAssumption,
    ScriptRetries, bounds

LEMMA StartInstallTrue ==
  ASSUME TypeOK, Works, ~lost => Truth /\ NoStub, StartInstall
  PROVE  ~lost' => (Truth /\ NoStub)'
<1> SUFFICES ASSUME ~lost' PROVE Truth' /\ NoStub'
  OBVIOUS
<1>1. ~lost /\ state = NoData
  BY DEF StartInstall
<1>2. Clean /\ state.kind # "stub"
  BY <1>1 DEF StartInstall, Truth, NoStub
<1>3. pc' = "download" /\ data'.kind # "stub" /\ UNCHANGED <<state, name, software>>
  BY DEF StartInstall
<1>4. Clean'
  BY <1>2, <1>3 DEF Clean
<1> QED
  BY <1>1, <1>2, <1>3, <1>4 DEF Truth, NoStub, NoData

LEMMA StartCommitTrue ==
  ASSUME TypeOK, Works, ~lost => Truth /\ NoStub, StartCommit
  PROVE  ~lost' => (Truth /\ NoStub)'
BY StandaloneAssumption
DEF TypeOK, Works, Orders, Truth, NoStub, Named, Clean, Waits, NoData, StandaloneAssumption,
    StartCommit, Restored, PreDatabaseRestore, Loss, NoFault

LEMMA StartRollbackTrue ==
  ASSUME TypeOK, Works, ~lost => Truth /\ NoStub, StartRollback
  PROVE  ~lost' => (Truth /\ NoStub)'
BY StandaloneAssumption
DEF TypeOK, Works, Orders, Truth, NoStub, Named, Clean, Waits, NoData, StandaloneAssumption,
    StartRollback, Restored, PreDatabaseRestore, Loss, NoFault

LEMMA RebootTrue ==
  ASSUME TypeOK, Works, ~lost => Truth /\ NoStub, Reboot
  PROVE  ~lost' => (Truth /\ NoStub)'
BY StandaloneAssumption
DEF TypeOK, Works, Orders, Truth, NoStub, Named, Clean, Waits, NoData, StandaloneAssumption,
    Reboot, command, bounds

LEMMA KilledTrue ==
  ASSUME TypeOK, Works, ~lost => Truth /\ NoStub, Killed
  PROVE  ~lost' => (Truth /\ NoStub)'
<1> SUFFICES ASSUME ~lost' PROVE Truth' /\ NoStub'
  OBVIOUS
<1>1. ~lost /\ pc \in {"download", "ask", "install", "commit", "rollback"}
  BY DEF Killed, Unrecorded, TypeOK, Scripted
<1>2. (IF state # NoData THEN Waits ELSE Clean) /\ state.kind # "stub"
  BY <1>1 DEF Truth, NoStub, Waits
<1>3. pc' = "rest" /\ UNCHANGED <<state, name, software>>
  BY DEF Killed
<1>4. (IF state # NoData THEN Waits ELSE Clean)'
  BY <1>2, <1>3 DEF Clean, Waits, Named
<1> QED
  BY <1>2, <1>3, <1>4 DEF Truth, NoStub

-----------------------------------------------------------------------------
(* The theorems *)

LEMMA InitInv == Init => StandaloneInv
<1> SUFFICES ASSUME Init PROVE StandaloneInv
  OBVIOUS
<1> USE StandaloneAssumption DEF Init, StandaloneAssumption
<1>1. Counters
  BY DEF Counters
<1>2. Flags /\ Control
  BY DEF Flags, Control
<1>3. Records
  BY DEF Records, Kinds, NoData, Good
<1>4. Works
  BY DEF Works
<1>5. Truth /\ NoStub
  BY DEF Truth, NoStub, Clean, NoData, Good
<1> QED
  BY <1>1, <1>2, <1>3, <1>4, <1>5, Parts DEF StandaloneInv

LEMMA StepInv == StandaloneInv /\ [Next]_vars => StandaloneInv'
<1> SUFFICES ASSUME StandaloneInv, [Next]_vars PROVE StandaloneInv'
  OBVIOUS
<1>1. TypeOK /\ Works /\ (~lost => Truth /\ NoStub)
  BY DEF StandaloneInv
<1>2. CASE UNCHANGED vars
  BY <1>1, <1>2
  DEF StandaloneInv, TypeOK, Works, Truth, NoStub, Waits, Named, Clean, vars, command, bounds
<1>3. CASE Download
  BY <1>1, <1>3, DownloadType, DownloadTrue DEF StandaloneInv
<1>4. CASE AskSupport
  BY <1>1, <1>4, AskSupportType, AskSupportTrue DEF StandaloneInv
<1>5. CASE Install
  BY <1>1, <1>5, InstallType, InstallTrue DEF StandaloneInv
<1>6. CASE NeedsReboot
  BY <1>1, <1>6, NeedsRebootType, NeedsRebootTrue DEF StandaloneInv
<1>7. CASE Store
  BY <1>1, <1>7, StoreType, StoreTrue DEF StandaloneInv
<1>8. CASE Commit
  BY <1>1, <1>8, CommitType, CommitTrue DEF StandaloneInv
<1>9. CASE CommitLeave
  BY <1>1, <1>9, CommitLeaveType, CommitLeaveTrue DEF StandaloneInv
<1>10. CASE Rollback
  BY <1>1, <1>10, RollbackType, RollbackTrue DEF StandaloneInv
<1>11. CASE FailureRollback
  BY <1>1, <1>11, FailureRollbackType, FailureRollbackTrue DEF StandaloneInv
<1>12. CASE FailureFailure
  BY <1>1, <1>12, FailureFailureType, FailureFailureTrue DEF StandaloneInv
<1>13. CASE Rename
  BY <1>1, <1>13, RenameType, RenameTrue DEF StandaloneInv
<1>14. CASE CleanupUpdate
  BY <1>1, <1>14, CleanupUpdateType, CleanupUpdateTrue DEF StandaloneInv
<1>15. CASE ScriptRetries
  BY <1>1, <1>15, ScriptRetriesType, ScriptRetriesTrue DEF StandaloneInv
<1>16. CASE StartInstall
  BY <1>1, <1>16, StartInstallType, StartInstallTrue DEF StandaloneInv
<1>17. CASE StartCommit
  BY <1>1, <1>17, StartCommitType, StartCommitTrue DEF StandaloneInv
<1>18. CASE StartRollback
  BY <1>1, <1>18, StartRollbackType, StartRollbackTrue DEF StandaloneInv
<1>19. CASE Reboot
  BY <1>1, <1>19, RebootType, RebootTrue DEF StandaloneInv
<1>20. CASE Killed
  BY <1>1, <1>20, KilledType, KilledTrue DEF StandaloneInv
<1> QED
  BY <1>2, <1>3, <1>4, <1>5, <1>6, <1>7, <1>8, <1>9, <1>10, <1>11, <1>12, <1>13,
     <1>14, <1>15, <1>16, <1>17, <1>18, <1>19, <1>20 DEF Next, Command

(* The invariant of the commands: what the running command works on has    *)
(* the shape its step needs, and, unless something was lost on the way,    *)
(* record, artifact name and software agree at every step of every command.*)
THEOREM InductiveInvariant == Spec => []StandaloneInv
BY InitInv, StepInv, PTL DEF Spec

(* Every variable keeps its type: what commit and rollback read back is    *)
(* what an install has stored, and no name is made up.                     *)
THEOREM TypeCorrect == Spec => []TypeOK
<1>1. StandaloneInv => TypeOK
  BY DEF StandaloneInv
<1> QED
  BY <1>1, InductiveInvariant, PTL

(* Whatever scripts, payloads and state scripts fail in install, commit    *)
(* and rollback, and wherever the user reboots: when the command has ended *)
(* the update that waits is the one recorded, and without one the artifact *)
(* name is that of the software or is marked as broken.                    *)
THEOREM RecordedNameIsTrue == Spec => []NameIsTrue
<1>1. StandaloneInv => NameIsTrue
  BY DEF StandaloneInv, NameIsTrue, Truth, Waits, Clean
<1> QED
  BY <1>1, InductiveInvariant, PTL

=============================================================================
