-------------------------- MODULE UpdateFlowProofs --------------------------
(* Theorems about UpdateFlow, for every number of payloads, every budget,  *)
(* every set of answers, failing scripts and faults.                       *)
EXTENDS UpdateFlow, TLAPS

(* What the constructors of states return. *)
LEMMA NewType == \A k \in Kinds \ ControlKinds : New(k) \in States
BY DEF New, States, Kinds, UpdateKinds, WaitKinds, ControlKinds, Wrappable, PauseStates

(* Cleanup and the status report carry a final status. *)
LEMMA NewEndType ==
  \A st \in {"success", "failure"} :
    NewCleanup(st) \in States /\ NewStatusReport(st) \in States
BY DEF NewCleanup, NewStatusReport, New, States, Kinds, UpdateKinds, WaitKinds,
       ControlKinds, Wrappable, PauseStates

(* A control state carries the state it guards. *)
LEMMA NewControlType ==
  \A k \in ControlKinds, w \in Wrappable, c \in PauseStates : NewControl(k, w, c) \in States
BY DEF NewControl, New, States, Kinds, UpdateKinds, WaitKinds, ControlKinds, Wrappable,
  PauseStates

(* HandleError always names a state of the machine. *)
LEMMA ErrorNextType == \A k, r : ErrorNext(k, r) \in States
BY NewType, NewEndType DEF ErrorNext, Kinds, UpdateKinds, WaitKinds, ControlKinds

(* So does a restart. *)
LEMMA ResumeType == \A data \in StateData : Resume(data) \in States
<1> SUFFICES ASSUME NEW data \in StateData PROVE Resume(data) \in States
  OBVIOUS
<1>1. data.info.attempts \in Nat
  BY DEF StateData, UpdateInfos
<1>2. [NewStatusReport("failure") EXCEPT !.tries = data.info.attempts] \in States
  BY <1>1 DEF NewStatusReport, New, States, Kinds, UpdateKinds, WaitKinds,
              ControlKinds, Wrappable, PauseStates
<1> QED
  BY <1>2, NewType, NewEndType
  DEF Resume, ResumeNamed, Kinds, UpdateKinds, WaitKinds, ControlKinds

(* A record that StoreStateData writes. *)
LEMMA StoredType ==
  ASSUME NEW k \in UpdateKinds, NEW info \in UpdateInfos, NEW inc \in {0, 1},
         sd.count \in Nat
  PROVE  Stored(k, info, inc) \in StateData
BY SizesAssumption DEF Stored, StoredName, StateData, NextCount, CountExceeded, UpdateKinds

(* An action of the answers of NeedsReboot. *)
LEMMA AnswersType ==
  \A k \in Nat : \A r \in [1..k -> RebootAnswers] : r \in Seq(RebootTypes) /\ Len(r) = k
BY AnswersAssumption

-----------------------------------------------------------------------------
(* Type correctness, by the groups of variables that the helpers set. *)

PositionOK ==
  /\ state \in States /\ to \in States
  /\ stage \in {"transition", "handle", "exited"}
  /\ idx \in 0..(N + 2) /\ err \in {"nil", "error"}

FaultsOK == exposed \subseteq Holes /\ faults \in Nat

ArtifactOK == artifact \in [id : Nat, broken : BOOLEAN]

(* Handle returns a state, which is then the one to enter. *)
LEMMA GotoType ==
  ASSUME TypeOK
  PROVE  \A s \in States : Goto(s) => PositionOK'
BY SizesAssumption DEF Goto, TypeOK, PositionOK

(* Handle returns the state that stops the daemon. *)
LEMMA ExitType ==
  ASSUME TypeOK, Exit
  PROVE  PositionOK'
BY SizesAssumption DEF Exit, TypeOK, PositionOK

(* A write either succeeds or uses up one of the faults. *)
LEMMA FaultType ==
  ASSUME TypeOK
  PROVE  /\ NoFault => FaultsOK'
         /\ DbFault => FaultsOK'
<1>1. FaultsOK
  BY DEF TypeOK, FaultsOK
<1>2. NoFault => FaultsOK'
  BY <1>1 DEF NoFault, FaultsOK
<1>3. DbFault => FaultsOK'
  BY <1>1 DEF DbFault, FaultsOK, Holes
<1> QED
  BY <1>2, <1>3

(* A name is marked inconsistent at most once. *)
LEMMA BrokenType ==
  ASSUME TypeOK
  PROVE  Broken \in [id : Nat, broken : BOOLEAN]
BY DEF Broken, TypeOK

(* setBrokenArtifactFlag stores a marked name, or nothing. *)
LEMMA SetBrokenType ==
  ASSUME TypeOK, SetBroken
  PROVE  ArtifactOK' /\ FaultsOK'
BY BrokenType, FaultType DEF SetBroken, TypeOK, ArtifactOK

(* The error path of a handler leads to a state. *)
LEMMA HandleErrorType ==
  ASSUME TypeOK
  PROVE  \A k : HandleError(k) => PositionOK' /\ ArtifactOK' /\ FaultsOK'
<1> SUFFICES ASSUME NEW k, HandleError(k)
             PROVE  PositionOK' /\ ArtifactOK' /\ FaultsOK'
  OBVIOUS
<1>1. PositionOK'
  BY GotoType, ErrorNextType DEF HandleError
<1>2. ArtifactOK' /\ FaultsOK'
  BY SetBrokenType, FaultType DEF HandleError, TypeOK, ArtifactOK
<1> QED
  BY <1>1, <1>2

(* The loop breaker reports failure. *)
LEMMA BreakLoopType ==
  ASSUME TypeOK, BreakLoop
  PROVE  PositionOK' /\ ArtifactOK' /\ FaultsOK'
BY GotoType, NewEndType, SetBrokenType DEF BreakLoop

(* What a control state carries. *)
LEMMA ControlFields ==
  ASSUME TypeOK, state.kind \in ControlKinds
  PROVE  /\ state.wraps \in Wrappable /\ state.pause \in PauseStates
         /\ \A k \in ControlKinds : NewControl(k, state.wraps, state.pause) \in States
         /\ \A k \in ControlKinds : NewControl(k, state.wraps, "none") \in States
         /\ New(state.wraps) \in States
         /\ state.pause # "none" => New(state.pause) \in States
<1>1. state.wraps \in Wrappable /\ state.pause \in PauseStates
  BY DEF TypeOK, States
<1>2. state.wraps \in Kinds \ ControlKinds
  BY <1>1 DEF Wrappable, Kinds, UpdateKinds, ControlKinds
<1>3. state.pause # "none" => state.pause \in Kinds \ ControlKinds
  BY <1>1 DEF PauseStates, Kinds, UpdateKinds, ControlKinds
<1>4. "none" \in PauseStates
  BY DEF PauseStates
<1> QED
  BY <1>1, <1>2, <1>3, <1>4, NewType, NewControlType

(* State data of no update. *)
LEMMA NoDataType == NewUpdate \in UpdateInfos /\ NoData \in StateData
BY SizesAssumption DEF NewUpdate, NoReboots, NoData, UpdateInfos, Reboots, StateData

(* The same update, counted once more. *)
LEMMA CountedType ==
  ASSUME TypeOK
  PROVE  [sd EXCEPT !.count = NextCount(sd.count, 1)] \in StateData
BY DEF TypeOK, StateData, NextCount, CountExceeded

(* An assignment to one field of UpdateInfo keeps it an UpdateInfo. *)
LEMMA UpdTypes ==
  ASSUME TypeOK
  PROVE  /\ [upd EXCEPT !.types = TRUE] \in UpdateInfos
         /\ \A r \in {"unknown", "no", "yes"} : [upd EXCEPT !.rollback = r] \in UpdateInfos
         /\ \A r \in Reboots : [upd EXCEPT !.reboots = r] \in UpdateInfos
         /\ \A n \in Nat : [upd EXCEPT !.attempts = n] \in UpdateInfos
BY DEF TypeOK, UpdateInfos

(* A restart leaves the disk and the world alone. *)
LEMMA BootType ==
  ASSUME TypeOK, Boot, seen' \subseteq Events, FaultsOK'
  PROVE  TypeOK'
<1>1. New("init") \in States
  BY NewType DEF Kinds, ControlKinds
<1> QED
  BY <1>1, NoDataType, SizesAssumption DEF Boot, TypeOK, FaultsOK, disk

(* One lemma per group of actions, one step per action. *)

(* Fetching and storing the payloads keep every type. *)
LEMMA DownloadType ==
  ASSUME TypeOK, Download
  PROVE  TypeOK'
<1>1. CASE HandleFetch
  BY <1>1, GotoType, NewType, NewEndType, SizesAssumption
  DEF HandleFetch, TypeOK, At, PositionOK, ctx, disk, Learn, Events, Kinds,
      UpdateKinds, WaitKinds, ControlKinds
<1>2. CASE HandleFetchStoreRetry
  BY <1>2, GotoType, NewType, SizesAssumption
  DEF HandleFetchStoreRetry, TypeOK, At, PositionOK, disk, world, Kinds,
      UpdateKinds, WaitKinds, ControlKinds
<1>3. CASE HandleStoreRejected
  <2>1. upd' \in UpdateInfos
    BY <1>3, UpdTypes DEF HandleStoreRejected, TypeOK
  <2>2. PositionOK'
    BY <1>3, GotoType, NewEndType DEF HandleStoreRejected
  <2> QED
    BY <1>3, <2>1, <2>2 DEF HandleStoreRejected, TypeOK, PositionOK, Learn, Events, ctx, disk
<1>4. CASE HandleStorePayloads
  <2>1. upd' \in UpdateInfos
    BY <1>4, UpdTypes DEF HandleStorePayloads
  <2>2. sd' \in StateData
    BY <1>4, <2>1, StoredType DEF HandleStorePayloads, TypeOK, StateData, UpdateKinds
  <2>3. PositionOK'
    BY <1>4, GotoType, NewEndType, BreakLoopType, SizesAssumption, SMTT(30)
    DEF HandleStorePayloads, TypeOK, PositionOK
  <2>4. ArtifactOK' /\ FaultsOK'
    BY <1>4, BreakLoopType, FaultType DEF HandleStorePayloads, TypeOK, ArtifactOK
  <2> QED
    BY <1>4, <2>1, <2>2, <2>3, <2>4
    DEF HandleStorePayloads, TypeOK, PositionOK, ArtifactOK, FaultsOK, Events, ctx
<1>5. CASE HandleSupportsRollback
  <2>1. upd' \in UpdateInfos
    BY <1>5, UpdTypes DEF HandleSupportsRollback
  <2>2. sd' \in StateData
    BY <1>5, <2>1, StoredType DEF HandleSupportsRollback, TypeOK, StateData, disk, UpdateKinds
  <2>3. PositionOK'
    <3>1. New("updateError") \in States
      BY NewType DEF Kinds, UpdateKinds, WaitKinds, ControlKinds
    <3>2. \/ Goto(New("updateError")) \/ BreakLoop
          \/ idx' = 2 /\ UNCHANGED <<state, to, stage, err>>
      BY <1>5 DEF HandleSupportsRollback
    <3> QED
      BY <3>1, <3>2, GotoType, BreakLoopType, SizesAssumption DEF TypeOK, PositionOK
  <2>4. ArtifactOK' /\ FaultsOK'
    BY <1>5, BreakLoopType, FaultType DEF HandleSupportsRollback, TypeOK, ArtifactOK, disk
  <2> QED
    BY <1>5, <2>1, <2>2, <2>3, <2>4
    DEF HandleSupportsRollback, TypeOK, PositionOK, ArtifactOK, FaultsOK, ctx
<1>6. CASE HandleStoreEnd
  BY <1>6, GotoType, NewType, SizesAssumption
  DEF HandleStoreEnd, TypeOK, At, PositionOK, disk, Learn, Events, Kinds,
      UpdateKinds, WaitKinds, ControlKinds
<1>7. CASE HandleAfterStore
  BY <1>7, GotoType, NewControlType, SizesAssumption
  DEF HandleAfterStore, Wrappable, PauseStates, TypeOK, At, PositionOK, ctx,
      disk, world, Kinds, UpdateKinds, WaitKinds, ControlKinds
<1> QED
  BY <1>1, <1>2, <1>3, <1>4, <1>5, <1>6, <1>7 DEF Download

(* So do the handlers that consult the update control maps, *)
LEMMA ControlType ==
  ASSUME TypeOK, Control
  PROVE  TypeOK'
<1>1. CASE HandleFetchControlMap
  <2>1. PositionOK' /\ ArtifactOK' /\ FaultsOK'
    BY <1>1, ControlFields, GotoType, HandleErrorType, FaultType
    DEF HandleFetchControlMap, At, TypeOK, ArtifactOK, ControlKinds
  <2>2. mapTries' \in Nat
    BY <1>1 DEF HandleFetchControlMap, TypeOK
  <2>3. seen' \subseteq Events
    BY <1>1 DEF HandleFetchControlMap, TypeOK, Events
  <2> QED
    BY <1>1, <2>1, <2>2, <2>3 DEF HandleFetchControlMap, TypeOK, PositionOK, ArtifactOK, FaultsOK
<1>2. CASE HandleFetchRetryControlMap
  <2>1. PositionOK' /\ ArtifactOK' /\ FaultsOK'
    BY <1>2, ControlFields, GotoType, HandleErrorType, FaultType
    DEF HandleFetchRetryControlMap, At, TypeOK, ArtifactOK, ControlKinds
  <2>2. mapTries' \in Nat
    BY <1>2 DEF HandleFetchRetryControlMap, TypeOK
  <2>3. seen' \subseteq Events
    BY <1>2 DEF HandleFetchRetryControlMap, TypeOK, Events
  <2> QED
    BY <1>2, <2>1, <2>2, <2>3 DEF HandleFetchRetryControlMap, TypeOK, PositionOK, ArtifactOK,
      FaultsOK
<1>3. CASE HandleControlMapContinue
  <2>1. PositionOK'
    BY <1>3, ControlFields, GotoType DEF HandleControlMapContinue, At, ControlKinds
  <2> QED
    BY <1>3, <2>1 DEF HandleControlMapContinue, TypeOK, PositionOK, ctx, disk, world
<1>4. CASE HandleControlMapPauseAction
  <2>1. PositionOK' /\ ArtifactOK' /\ FaultsOK'
    BY <1>4, ControlFields, GotoType, HandleErrorType, FaultType
    DEF HandleControlMapPauseAction, At, TypeOK, ArtifactOK, ControlKinds
  <2>2. state.wraps \in Wrappable
    BY <1>4, ControlFields DEF HandleControlMapPauseAction, At, ControlKinds
  <2>3. pauseReported' \subseteq Wrappable
    BY <1>4, <2>2 DEF HandleControlMapPauseAction, TypeOK
  <2>4. seen' \subseteq Events
    BY <1>4 DEF HandleControlMapPauseAction, TypeOK, Learn, Events
  <2>5. pauses' \in Nat
    BY <1>4 DEF HandleControlMapPauseAction, TypeOK
  <2> QED
    BY <1>4, <2>1, <2>3, <2>4, <2>5
    DEF HandleControlMapPauseAction, TypeOK, PositionOK, ArtifactOK, FaultsOK
<1>5. CASE HandleControlMapFail
  BY <1>5, HandleErrorType, SizesAssumption
  DEF HandleControlMapFail, TypeOK, At, PositionOK, FaultsOK, ArtifactOK, ctx,
      Learn, Events, Kinds, UpdateKinds, WaitKinds, ControlKinds
<1>6. CASE HandleControlMapPause
  <2>1. PositionOK'
    BY <1>6, ControlFields, GotoType DEF HandleControlMapPause, At, ControlKinds
  <2> QED
    BY <1>6, <2>1 DEF HandleControlMapPause, TypeOK, PositionOK, ctx, disk, world
<1>7. CASE HandleRebootPauseRequested
  BY <1>7, GotoType, NewControlType, SizesAssumption
  DEF HandleRebootPauseRequested, Wrappable, PauseStates, TypeOK, At,
      PositionOK, ctx, disk, world, Kinds, UpdateKinds, WaitKinds,
      ControlKinds
<1> QED
  BY <1>1, <1>2, <1>3, <1>4, <1>5, <1>6, <1>7 DEF Control

(* the ones that install the payloads and reboot the device, *)
LEMMA ApplyType ==
  ASSUME TypeOK, Apply
  PROVE  TypeOK'
<1>1. CASE HandleInstallBegin
  <2>1. PositionOK' /\ ArtifactOK' /\ FaultsOK'
    BY <1>1, GotoType, NewType, HandleErrorType, FaultType, SizesAssumption
    DEF HandleInstallBegin, TypeOK, PositionOK, ArtifactOK, Kinds, UpdateKinds, WaitKinds,
      ControlKinds
  <2> QED
    BY <1>1, <2>1 DEF HandleInstallBegin, TypeOK, PositionOK, ArtifactOK, FaultsOK,
       Learn, Events, ctx
<1>2. CASE HandleInstallPayload
  BY <1>2, HandleErrorType, FaultType, SizesAssumption
  DEF HandleInstallPayload, TypeOK, At, PositionOK, FaultsOK, ArtifactOK, ctx,
      Learn, Events, PayStates, Kinds, UpdateKinds, WaitKinds, ControlKinds
<1>3. CASE HandleRebootType
  <2>1. PICK k \in 0..N : \E answers \in [1..k -> RebootAnswers] :
          /\ upd' = [upd EXCEPT !.reboots = answers]
          /\ \/ HandleError("install") /\ UNCHANGED sd
             \/ sd' = Stored("install", upd', 1) /\ BreakLoop
             \/ /\ sd' = Stored("install", upd', 1) /\ UNCHANGED artifact /\ NoFault
                /\ \/ Goto(NewControl("fetchControlMap", "reboot", "rebootPauseRequested"))
                   \/ Goto(NewControl("fetchControlMap", "commit", "none"))
             \/ /\ DbFault /\ UNCHANGED sd /\ artifact' \in {artifact, Broken}
                /\ Goto(ErrorNext("install", upd.rollback))
    BY <1>3 DEF HandleRebootType
  <2>a. PICK answers \in [1..k -> RebootAnswers] :
          /\ upd' = [upd EXCEPT !.reboots = answers]
          /\ \/ HandleError("install") /\ UNCHANGED sd
             \/ sd' = Stored("install", upd', 1) /\ BreakLoop
             \/ /\ sd' = Stored("install", upd', 1) /\ UNCHANGED artifact /\ NoFault
                /\ \/ Goto(NewControl("fetchControlMap", "reboot", "rebootPauseRequested"))
                   \/ Goto(NewControl("fetchControlMap", "commit", "none"))
             \/ /\ DbFault /\ UNCHANGED sd /\ artifact' \in {artifact, Broken}
                /\ Goto(ErrorNext("install", upd.rollback))
    BY <2>1
  <2>2. answers \in Reboots
    BY <2>a, AnswersType, SizesAssumption DEF Reboots
  <2>3. upd' \in UpdateInfos
    BY <2>a, <2>2, UpdTypes
  <2>4. sd' \in StateData
    BY <2>a, <2>3, StoredType DEF TypeOK, StateData, UpdateKinds
  <2>5. PositionOK'
    BY <2>a, GotoType, HandleErrorType, BreakLoopType, NewControlType, ErrorNextType
    DEF ControlKinds, Wrappable, PauseStates
  <2>6. ArtifactOK' /\ FaultsOK'
    BY <2>a, HandleErrorType, BreakLoopType, FaultType, BrokenType DEF TypeOK, ArtifactOK
  <2> QED
    BY <1>3, <2>3, <2>4, <2>5, <2>6
    DEF HandleRebootType, TypeOK, PositionOK, ArtifactOK, FaultsOK, ctx
<1>4. CASE HandleRebootRefused
  BY <1>4, GotoType, NewType, SizesAssumption
  DEF HandleRebootRefused, TypeOK, At, PositionOK, ctx, disk, Learn, Events,
      Holes, Kinds, UpdateKinds, WaitKinds, ControlKinds
<1>5. CASE HandleRebootHost
  BY <1>5, BootType DEF HandleRebootHost, TypeOK, FaultsOK
<1>6. CASE HandleRebootReturns
  BY <1>6, GotoType, NewType, HandleErrorType, FaultType, SizesAssumption
  DEF HandleRebootReturns, TypeOK, At, PositionOK, FaultsOK, ArtifactOK, ctx,
      Kinds, UpdateKinds, WaitKinds, ControlKinds
<1>7. CASE HandleVerifyReboot
  BY <1>7, GotoType, NewType, HandleErrorType, FaultType, SizesAssumption
  DEF HandleVerifyReboot, TypeOK, At, PositionOK, FaultsOK, ArtifactOK, ctx,
      Kinds, UpdateKinds, WaitKinds, ControlKinds
<1>8. CASE HandleAfterReboot
  BY <1>8, GotoType, NewControlType, SizesAssumption
  DEF HandleAfterReboot, Wrappable, PauseStates, TypeOK, At, PositionOK, ctx,
      disk, world, Kinds, UpdateKinds, WaitKinds, ControlKinds
<1> QED
  BY <1>1, <1>2, <1>3, <1>4, <1>5, <1>6, <1>7, <1>8 DEF Apply

(* the two halves of the commit, *)
LEMMA CommitType ==
  ASSUME TypeOK, Commit
  PROVE  TypeOK'
<1>1. CASE HandleCommitBegin
  <2>1. state.tries + 1 \in Nat
    BY DEF TypeOK, States
  <2>2. [New("preCommitRetry") EXCEPT !.tries = state.tries + 1] \in States
    BY <2>1 DEF New, States, PauseStates, Kinds, UpdateKinds, WaitKinds, ControlKinds
  <2>3. upd' \in UpdateInfos /\ seen' \subseteq Events
    BY <1>1, <2>1, UpdTypes DEF HandleCommitBegin, CommitBegin, TypeOK, Learn, Events
  <2>4. PositionOK' /\ ArtifactOK' /\ FaultsOK'
    BY <1>1, <2>2, GotoType, HandleErrorType, FaultType, SizesAssumption, SMTT(30)
    DEF HandleCommitBegin, CommitBegin, TypeOK, PositionOK, ArtifactOK
  <2> QED
    BY <1>1, <2>3, <2>4
    DEF HandleCommitBegin, CommitBegin, TypeOK, PositionOK, ArtifactOK, FaultsOK, ctx
<1>2. CASE HandlePreCommitRetry
  <2>1. [New("commit") EXCEPT !.tries = state.tries] \in States
    BY DEF TypeOK, New, States, PauseStates, Kinds, UpdateKinds, WaitKinds, ControlKinds
  <2>2. PositionOK' /\ ArtifactOK' /\ FaultsOK'
    BY <1>2, <2>1, GotoType, HandleErrorType, FaultType
    DEF HandlePreCommitRetry, TypeOK, ArtifactOK
  <2> QED
    BY <1>2, <2>2 DEF HandlePreCommitRetry, TypeOK, PositionOK, ArtifactOK, FaultsOK, ctx
<1>3. CASE HandleCommitFirst
  BY <1>3, HandleErrorType, FaultType, SizesAssumption
  DEF HandleCommitFirst, TypeOK, At, PositionOK, FaultsOK, ArtifactOK, ctx,
      PayStates, Kinds, UpdateKinds, WaitKinds, ControlKinds
<1>4. CASE HandleCommitStore
  <2>1. sd' \in StateData
    BY <1>4, StoredType DEF HandleCommitStore, TypeOK, StateData, disk, UpdateKinds
  <2>2. [id |-> dep, broken |-> FALSE] \in [id : Nat, broken : BOOLEAN]
    BY DEF TypeOK
  <2>3. PositionOK'
    BY <1>4, GotoType, NewType, NewEndType DEF HandleCommitStore, Kinds, UpdateKinds, WaitKinds,
      ControlKinds
  <2>4. ArtifactOK' /\ FaultsOK'
    BY <1>4, <2>2, BrokenType, FaultType DEF HandleCommitStore, TypeOK, ArtifactOK, disk
  <2> QED
    BY <1>4, <2>1, <2>3, <2>4 DEF HandleCommitStore, TypeOK, PositionOK, ArtifactOK, FaultsOK, ctx
<1>5. CASE HandleAfterFirstCommit
  BY <1>5, SizesAssumption
  DEF HandleAfterFirstCommit, TypeOK, At, ctx, disk, PayStates, Kinds,
      UpdateKinds, WaitKinds, ControlKinds
<1>6. CASE HandleAfterFirstCommitEnd
  BY <1>6, GotoType, NewType, HandleErrorType, FaultType, SizesAssumption
  DEF HandleAfterFirstCommitEnd, TypeOK, At, PositionOK, FaultsOK, ArtifactOK,
      ctx, Kinds, UpdateKinds, WaitKinds, ControlKinds
<1>7. CASE HandleAfterCommit
  BY <1>7, GotoType, NewEndType, SizesAssumption
  DEF HandleAfterCommit, TypeOK, At, PositionOK, ctx, disk, world, Kinds,
      UpdateKinds, WaitKinds, ControlKinds
<1> QED
  BY <1>1, <1>2, <1>3, <1>4, <1>5, <1>6, <1>7 DEF Commit

(* the rollback and its reboots, *)
LEMMA RollbackType ==
  ASSUME TypeOK, Rollback
  PROVE  TypeOK'
<1>1. CASE HandleRollbackPayload
  <2>1. idx + 1 \in 1..N /\ idx \in Nat
    BY <1>1, SizesAssumption DEF HandleRollbackPayload, TypeOK
  <2>2. pay' \in [1..N -> PayStates]
    BY <1>1, <2>1 DEF HandleRollbackPayload, AfterRollback, TypeOK, PayStates
  <2>3. PositionOK' /\ ArtifactOK' /\ FaultsOK'
    BY <1>1, <2>1, HandleErrorType, FaultType, SizesAssumption
    DEF HandleRollbackPayload, TypeOK, PositionOK, ArtifactOK
  <2> QED
    BY <1>1, <2>2, <2>3
    DEF HandleRollbackPayload, TypeOK, PositionOK, ArtifactOK, FaultsOK, Events, ctx
<1>2. CASE HandleRollbackEnd
  <2>1. PositionOK'
    BY <1>2, GotoType, NewType DEF HandleRollbackEnd, RollbackEnd, Kinds, UpdateKinds,
      WaitKinds, ControlKinds
  <2>2. upd.reboots \in Seq(RebootTypes) /\ Len(upd.reboots) \in 0..N
    BY SizesAssumption DEF TypeOK, UpdateInfos, Reboots
  <2>3. PICK k \in 0..(N - Len(upd.reboots)) : \E more \in [1..k -> RebootAnswers] :
          upd' = [upd EXCEPT !.reboots = @ \o more]
    BY <1>2 DEF HandleRollbackEnd, RollbackEnd
  <2>a. PICK more \in [1..k -> RebootAnswers] : upd' = [upd EXCEPT !.reboots = @ \o more]
    BY <2>3
  <2>4. more \in Seq(RebootTypes) /\ Len(more) = k
    BY <2>2, <2>3, <2>a, AnswersType, SizesAssumption
  <2>5. upd.reboots \o more \in Reboots
    BY <2>2, <2>4, SizesAssumption DEF Reboots
  <2>6. upd' \in UpdateInfos
    BY <2>a, <2>5, UpdTypes
  <2> QED
    BY <1>2, <2>1, <2>6 DEF HandleRollbackEnd, RollbackEnd, TypeOK, PositionOK, ctx, disk, world
<1>3. CASE HandleRollbackRebootHost
  BY <1>3, BootType DEF HandleRollbackRebootHost, TypeOK, FaultsOK
<1>4. CASE HandleRollbackRebootReturns
  BY <1>4, GotoType, NewType, SizesAssumption
  DEF HandleRollbackRebootReturns, TypeOK, At, PositionOK, ctx, disk, world,
      Kinds, UpdateKinds, WaitKinds, ControlKinds
<1>5. CASE HandleVerifyRollbackReboot
  BY <1>5, GotoType, NewType, HandleErrorType, FaultType, SizesAssumption
  DEF HandleVerifyRollbackReboot, TypeOK, At, PositionOK, FaultsOK,
      ArtifactOK, ctx, Learn, Events, Kinds, UpdateKinds, WaitKinds,
      ControlKinds
<1>6. CASE HandleAfterRollbackReboot
  BY <1>6, GotoType, NewType, SizesAssumption
  DEF HandleAfterRollbackReboot, TypeOK, At, PositionOK, ctx, disk, world,
      Kinds, UpdateKinds, WaitKinds, ControlKinds
<1> QED
  BY <1>1, <1>2, <1>3, <1>4, <1>5, <1>6 DEF Rollback

(* the error, cleanup and report states, *)
LEMMA FinishType ==
  ASSUME TypeOK, Finish
  PROVE  TypeOK'
<1>1. CASE HandleUpdateError
  BY <1>1, GotoType, NewEndType, SizesAssumption
  DEF HandleUpdateError, TypeOK, At, PositionOK, ctx, disk, world, Kinds,
      UpdateKinds, WaitKinds, ControlKinds
<1>2. CASE HandleCleanup
  <2>1. state.status \in {"none", "success", "failure"}
    BY DEF TypeOK, States
  <2>2. NewStatusReport(state.status) \in States
    BY <2>1 DEF NewStatusReport, New, States, Kinds, UpdateKinds, ControlKinds, PauseStates
  <2>3. PositionOK'
    BY <1>2, <2>2, GotoType, NewEndType DEF HandleCleanup
  <2> QED
    BY <1>2, <2>3 DEF HandleCleanup, TypeOK, PositionOK, Events, disk
<1>3. CASE HandleStatusReport
  <2> DEFINE sent == [state EXCEPT !.tries = @ + 1]
             logged == [sent EXCEPT !.logTries = @ + 1]
  <2>1. /\ sent \in States /\ logged \in States
        /\ sent.tries \in Nat /\ logged.logTries \in Nat
    <3>1. \A s \in States : /\ s.tries + 1 \in Nat /\ s.logTries + 1 \in Nat
                           /\ [s EXCEPT !.tries = s.tries + 1] \in States
                           /\ [s EXCEPT !.logTries = s.logTries + 1] \in States
      BY DEF States
    <3>2. sent \in States /\ logged \in States
      BY <3>1 DEF TypeOK
    <3> QED
      BY <3>2 DEF States
  <2>2. \A s \in States, n \in Nat :
          [s EXCEPT !.kind = "statusReportRetry", !.sending = n] \in States
    BY ZenonT(60) DEF States, Kinds, UpdateKinds, WaitKinds, ControlKinds
  <2>3. PICK r \in ReportOutcomes :
          /\ seen' = seen \cup Learn(r)
          /\ upd' = [upd EXCEPT !.attempts = IF r = "ok" THEN 0 ELSE sent.tries]
          /\ server' = [server EXCEPT !.told = IF r = "ok" THEN state.status ELSE @]
          /\ \/ Goto(New("idle"))
             \/ Goto([sent EXCEPT !.kind = "statusReportRetry", !.sending = sent.tries])
             \/ Goto([logged EXCEPT !.kind = "statusReportRetry",
                                    !.sending = logged.logTries])
    BY <1>3 DEF HandleStatusReport
  <2>4. PositionOK'
    BY <2>1, <2>2, <2>3, GotoType, NewType DEF Kinds, UpdateKinds, WaitKinds, ControlKinds
  <2>5. upd' \in UpdateInfos
    BY <2>1, <2>3, UpdTypes
  <2>6. state.status \in {"none", "success", "failure"}
    BY DEF TypeOK, States
  <2>7. server' \in [phase : {"active", "aborted"}, told : {"none", "success", "failure"}]
    <3> DEFINE Servers == [phase : {"active", "aborted"}, told : {"none", "success", "failure"}]
    <3>1. \A sv \in Servers, t \in {"none", "success", "failure"} :
            [sv EXCEPT !.told = t] \in Servers
      OBVIOUS
    <3>2. /\ server \in Servers /\ server.told \in {"none", "success", "failure"}
      BY DEF TypeOK
    <3> QED
      BY <2>3, <2>6, <3>1, <3>2
  <2>8. seen' \subseteq Events
    BY <2>3 DEF TypeOK, Learn, Events
  <2> QED
    BY <1>3, <2>4, <2>5, <2>7, <2>8 DEF HandleStatusReport, TypeOK, PositionOK, ctx, disk
<1>4. CASE HandleStatusReportRetry
  <2>1. [state EXCEPT !.kind = "statusReport", !.sending = 0] \in States
    BY DEF TypeOK, States, Kinds, UpdateKinds, WaitKinds, ControlKinds
  <2>2. PositionOK'
    BY <1>4, <2>1, GotoType, NewType DEF HandleStatusReportRetry, Kinds, UpdateKinds, WaitKinds,
      ControlKinds
  <2> QED
    BY <1>4, <2>2 DEF HandleStatusReportRetry, TypeOK, PositionOK, ctx, disk, world
<1> QED
  BY <1>1, <1>2, <1>3, <1>4 DEF Finish

(* and the handlers outside a deployment. *)
LEMMA OutsideType ==
  ASSUME TypeOK, Outside
  PROVE  TypeOK'
<1>1. CASE HandleInit
  <2>1. PositionOK' /\ ArtifactOK' /\ FaultsOK'
    <3>1. Resume(sd) \in States /\ New("idle") \in States
      BY ResumeType, NewType DEF TypeOK, Kinds, UpdateKinds, WaitKinds, ControlKinds
    <3>2. CASE SetBroken
      BY <1>1, <3>1, <3>2, GotoType, BreakLoopType, SetBrokenType, FaultType, ExitType
      DEF HandleInit, TypeOK, ArtifactOK, disk
    <3>3. CASE ~SetBroken
      BY <1>1, <3>1, <3>3, GotoType, FaultType, ExitType
      DEF HandleInit, BreakLoop, TypeOK, ArtifactOK, disk
    <3> QED
      BY <3>2, <3>3
  <2>2. sd' \in StateData /\ upd' \in UpdateInfos
    BY <1>1, CountedType, NoDataType DEF HandleInit, TypeOK, StateData, disk
  <2>3. inst' \in {"none", "stale", "current"}
    BY <1>1 DEF HandleInit, TypeOK
  <2> QED
    BY <1>1, <2>1, <2>2, <2>3 DEF HandleInit, TypeOK, PositionOK, ArtifactOK, FaultsOK, ctx
<1>2. CASE HandleInitUnreadable
  BY <1>2, GotoType, NewType, SizesAssumption
  DEF HandleInitUnreadable, TypeOK, At, PositionOK, ctx, disk, Holes, Kinds,
      UpdateKinds, WaitKinds, ControlKinds
<1>3. CASE HandleInitNoInstallers
  <2>1. PositionOK'
    BY <1>3, GotoType, NewEndType DEF HandleInitNoInstallers
  <2>2. sd' \in StateData /\ upd' \in UpdateInfos
    BY <1>3, CountedType DEF HandleInitNoInstallers, TypeOK, StateData
  <2> QED
    BY <1>3, <2>1, <2>2 DEF HandleInitNoInstallers, TypeOK, PositionOK, Holes, ctx
<1>4. CASE HandleIdle
  <2>1. PositionOK' /\ FaultsOK'
    BY <1>4, GotoType, NewType, FaultType DEF HandleIdle, Kinds, UpdateKinds, WaitKinds,
      ControlKinds
  <2> QED
    BY <1>4, <2>1, NoDataType DEF HandleIdle, TypeOK, PositionOK, FaultsOK, ctx
<1>5. CASE HandleCheckWait
  BY <1>5, GotoType, NewType, SizesAssumption
  DEF HandleCheckWait, TypeOK, At, PositionOK, ctx, disk, world, Kinds,
      UpdateKinds, WaitKinds, ControlKinds
<1>6. CASE HandleUpdateCheck
  <2>1. PositionOK'
    BY <1>6, GotoType, NewType, NewEndType DEF HandleUpdateCheck, Kinds, UpdateKinds, WaitKinds,
      ControlKinds
  <2>2. upd' \in UpdateInfos /\ pay' \in [1..N -> PayStates] /\ dep' \in Nat
    BY <1>6, NoDataType DEF HandleUpdateCheck, TypeOK, PayStates
  <2>3. server' \in [phase : {"active", "aborted"}, told : {"none", "success", "failure"}]
    BY <1>6 DEF HandleUpdateCheck, TypeOK, NewServer
  <2>4. inst' \in {"none", "stale", "current"} /\ seen' \subseteq Events /\ FaultsOK'
    BY <1>6 DEF HandleUpdateCheck, TypeOK, FaultsOK
  <2> QED
    BY <1>6, <2>1, <2>2, <2>3, <2>4
    DEF HandleUpdateCheck, TypeOK, PositionOK, FaultsOK, ctx, disk
<1>7. CASE HandleErrorState
  BY <1>7, GotoType, NewType, SizesAssumption
  DEF HandleErrorState, TypeOK, At, PositionOK, ctx, disk, world, Kinds,
      UpdateKinds, WaitKinds, ControlKinds
<1> QED
  BY <1>1, <1>2, <1>3, <1>4, <1>5, <1>6, <1>7 DEF Outside

(* transitionState *)
LEMMA TransitionType ==
  ASSUME TypeOK, Transition
  PROVE  TypeOK'
<1>1. IncStoreCount \in {0, 1}
  BY DEF IncStoreCount
<1>2. to.kind \in UpdateKinds => Stored(to.kind, upd, IncStoreCount) \in StateData
  BY <1>1, StoredType DEF TypeOK, StateData
<1>3. SUFFICES PositionOK' /\ ArtifactOK' /\ FaultsOK' /\ sd' \in StateData /\ seen' = seen
  BY <1>3 DEF Transition, TypeOK, PositionOK, ArtifactOK, FaultsOK, ctx
<1>4. CASE LeaveFails
  BY <1>4, HandleErrorType DEF LeaveFails, TypeOK
<1>5. CASE EnterState /\ UNCHANGED seen
  <2>1. CASE to.kind \notin UpdateKinds
    BY <1>5, <2>1, FaultType, SizesAssumption
    DEF EnterState, TypeOK, PositionOK, ArtifactOK
  <2>2. CASE /\ to.kind \in UpdateKinds
             /\ sd' = Stored(to.kind, upd, IncStoreCount)
             /\ CountExceeded(sd.count) /\ SetBroken
             /\ state' = to /\ to' = NewStatusReport("failure")
             /\ stage' = "transition" /\ idx' = 0 /\ err' = "nil"
    BY <1>2, <1>5, <2>2, SetBrokenType, NewEndType, SizesAssumption DEF TypeOK, PositionOK
  <2>3. CASE /\ to.kind \in UpdateKinds
             /\ sd' = Stored(to.kind, upd, IncStoreCount)
             /\ stage' = "handle" /\ idx' = 0 /\ err' = "nil"
             /\ state' = to /\ UNCHANGED <<to, artifact>> /\ NoFault
    BY <1>2, <1>5, <2>3, FaultType, SizesAssumption DEF TypeOK, PositionOK, ArtifactOK
  <2>4. CASE /\ DbFault /\ UNCHANGED sd /\ idx' = 0 /\ err' = "nil" /\ state' = to
             /\ to' = ErrorNext(to.kind, upd.rollback)
             /\ stage' = IF to'.kind = "error" THEN "exited" ELSE "transition"
             /\ artifact' \in {artifact, Broken}
    BY <1>5, <2>4, FaultType, ErrorNextType, BrokenType, SizesAssumption
    DEF TypeOK, PositionOK, ArtifactOK
  <2> QED
    BY <1>5, <2>1, <2>2, <2>3, <2>4 DEF EnterState
<1>6. CASE EnterStateFails /\ UNCHANGED seen
  <2>1. sd' \in StateData
    BY <1>2, <1>6 DEF EnterStateFails, TypeOK
  <2>2. PositionOK'
    BY <1>6, ErrorNextType, SizesAssumption DEF EnterStateFails, TypeOK, PositionOK
  <2>3. ArtifactOK' /\ FaultsOK'
    BY <1>6, SetBrokenType, FaultType DEF EnterStateFails, TypeOK, ArtifactOK
  <2> QED
    BY <1>6, <2>1, <2>2, <2>3
<1> QED
  BY <1>4, <1>5, <1>6 DEF Transition

(* Any step of the daemon keeps every type. *)
LEMMA AgentType ==
  ASSUME TypeOK, Agent
  PROVE  TypeOK'
BY TransitionType, OutsideType, DownloadType, ControlType, ApplyType, CommitType,
   RollbackType, FinishType
DEF Agent

(* A fresh device. *)
LEMMA InitType == Init => TypeOK
<1>1. New("init") \in States
  BY NewType DEF Kinds, ControlKinds
<1> QED
  BY <1>1, NoDataType, SizesAssumption DEF Init, TypeOK, NewServer, PayStates

(* Any step at all: the daemon's, a restart, a crash, the server's abort. *)
LEMMA NextType ==
  ASSUME TypeOK, [Next]_vars
  PROVE  TypeOK'
<1>1. CASE Agent
  BY <1>1, AgentType
<1>2. CASE ServiceRestart
  BY <1>2, BootType DEF ServiceRestart, TypeOK, FaultsOK, Holes
<1>3. CASE Crash
  <2>1. FaultsOK'
    BY <1>3 DEF Crash, TypeOK, FaultsOK, Holes
  <2> QED
    BY <1>3, <2>1, BootType DEF Crash, TypeOK
<1>4. CASE Abort
  BY <1>4 DEF Abort, TypeOK, memory, disk, ctx
<1>5. CASE UNCHANGED vars
  BY <1>5 DEF TypeOK, vars, memory, disk, world, ctx
<1> QED
  BY <1>1, <1>2, <1>3, <1>4, <1>5 DEF Next

(* Type correctness: whatever the network, the payloads, the scripts and   *)
(* the faults do, the memory of the agent, the database and the history    *)
(* stay well formed.  In particular a control state always wraps a state,  *)
(* the answers of NeedsReboot are never more than the payloads, and no     *)
(* handler's loop over the payloads runs past the last one.                *)
THEOREM TypeCorrect == Spec => []TypeOK
<1>1. Init => TypeOK
  BY InitType
<1>2. TypeOK /\ [Next]_vars => TypeOK'
  BY NextType
<1> QED
  BY <1>1, <1>2, PTL DEF Spec

-----------------------------------------------------------------------------
(* An aborted deployment is never committed: the inductive invariant       *)
(* behind AbortNeverCommits and its proof.                                 *)

(* Only a report that the server refused tells the agent of the abort. *)
KnownIsAborted == "abortKnown" \in seen => Aborted

(* While a handler of the update runs, its name is the one in the database: *)
(* a state whose store failed is left before its handler is called.        *)
HandledIsStored ==
  stage = "handle" /\ state.kind \in UpdateKinds => sd.name = StoredName(state.kind)

(* The report that precedes CommitUpdate was not refused. *)
ReportedFirst == At("commit") /\ idx >= 1 => "abortKnown" \notin seen

(* The agent is in the state that commits the rest, is about to enter it,  *)
(* or would resume it after a restart.                                     *)
CommitsOn ==
  \/ sd.name = "afterFirstCommit"
  \/ stage = "transition" /\ to.kind = "afterFirstCommit"
  \/ At("afterFirstCommit")

(* None of this happens to an agent that knows of the abort ... *)
NotPastCommit == CommitsOn => "abortKnown" \notin seen

(* ... and no control map is consulted once it has happened. *)
WaitsBeforeCommit ==
  \/ stage = "transition" /\ to.kind \in WaitKinds
  \/ stage = "handle" /\ state.kind \in WaitKinds
  => sd.name # "afterFirstCommit"

AbortInv == /\ KnownIsAborted /\ HandledIsStored /\ ReportedFirst
            /\ NotPastCommit /\ WaitsBeforeCommit

(* The kind of a state is the one it was constructed with. *)
LEMMA KindFacts ==
  /\ \A k : New(k).kind = k
  /\ \A st : NewCleanup(st).kind = "cleanup" /\ NewStatusReport(st).kind = "statusReport"
  /\ \A k, w, c : NewControl(k, w, c).kind = k
BY DEF New, NewCleanup, NewStatusReport, NewControl

(* No error leads into the second half of the commit or a control state. *)
LEMMA ErrorNextKind ==
  \A k, r : ErrorNext(k, r).kind \notin WaitKinds \cup {"afterFirstCommit"}
<1> SUFFICES ASSUME NEW k, NEW r
             PROVE  ErrorNext(k, r).kind \in
                      {"cleanup", "updateError", "verifyRollbackReboot", "rollbackReboot",
                       "rollback", "error"}
  BY DEF WaitKinds, ControlKinds
<1> QED
  BY KindFacts DEF ErrorNext

(* Only the second half of the commit is stored under its name. *)
LEMMA StoredNameFacts ==
  \A k \in UpdateKinds : StoredName(k) = "afterFirstCommit" <=> k = "afterFirstCommit"
BY DEF StoredName, UpdateKinds

(* A restart never resumes a wait, and resumes the second half of the commit
   only where the database says so. *)
LEMMA ResumeKind ==
  \A data \in StateData :
    /\ Resume(data).kind \notin WaitKinds
    /\ Resume(data).kind = "afterFirstCommit" => data.name = "afterFirstCommit"
<1> SUFFICES ASSUME NEW data \in StateData
             PROVE  /\ Resume(data).kind \notin WaitKinds
                    /\ Resume(data).kind = "afterFirstCommit"
                         => data.name = "afterFirstCommit"
  OBVIOUS
<1>1. [NewStatusReport("failure") EXCEPT !.tries = data.info.attempts].kind = "statusReport"
  BY DEF NewStatusReport, New
<1> QED
  BY <1>1, KindFacts DEF Resume, ResumeNamed, WaitKinds, ControlKinds

(* A step that ends in a state which is neither a wait nor the second half *)
(* of the commit, and stores no new name but its own.                      *)
LEMMA Leaving ==
  ASSUME AbortInv, KnownIsAborted', stage' # "handle",
         stage' = "transition" => to'.kind \notin WaitKinds \cup {"afterFirstCommit"},
         sd'.name = "afterFirstCommit" => sd.name = "afterFirstCommit",
         sd.name = "afterFirstCommit" /\ "abortKnown" \in seen' => "abortKnown" \in seen
  PROVE  AbortInv'
BY DEF AbortInv, KnownIsAborted, HandledIsStored, ReportedFirst, NotPastCommit, CommitsOn,
       WaitsBeforeCommit, At

(* A step into a wait, from a state that has its own name stored. *)
LEMMA Waiting ==
  ASSUME AbortInv, KnownIsAborted', stage' = "transition", to'.kind \in WaitKinds,
         sd'.name # "afterFirstCommit"
  PROVE  AbortInv'
BY DEF AbortInv, KnownIsAborted, HandledIsStored, ReportedFirst, NotPastCommit, CommitsOn,
       WaitsBeforeCommit, At, WaitKinds, ControlKinds

(* A step inside a handler. *)
LEMMA Staying ==
  ASSUME AbortInv, KnownIsAborted', UNCHANGED <<state, to, stage>>, sd'.name = sd.name,
         "abortKnown" \in seen' => "abortKnown" \in seen, ReportedFirst'
  PROVE  AbortInv'
BY DEF AbortInv, KnownIsAborted, HandledIsStored, NotPastCommit, CommitsOn,
       WaitsBeforeCommit, At

(* A restart. *)
LEMMA Booting ==
  ASSUME AbortInv, Boot, seen' = seen
  PROVE  AbortInv'
<1>1. state'.kind = "init" /\ to'.kind = "init"
  BY KindFacts DEF Boot
<1> QED
  BY <1>1 DEF Boot, AbortInv, KnownIsAborted, HandledIsStored, ReportedFirst, NotPastCommit,
     CommitsOn, WaitsBeforeCommit, At, Aborted, disk, UpdateKinds, WaitKinds, ControlKinds

(* The names a running handler or a wait may find in the database. *)
LEMMA HandlerName ==
  ASSUME AbortInv, stage = "handle",
         state.kind \in (UpdateKinds \cup WaitKinds) \ {"afterFirstCommit"}
  PROVE  sd.name # "afterFirstCommit"
BY StoredNameFacts DEF AbortInv, HandledIsStored, WaitsBeforeCommit

(* Nothing is committed while payloads are fetched and stored. *)
LEMMA DownloadAborts ==
  ASSUME TypeOK, AbortInv, Download
  PROVE  AbortInv'
<1>1. CASE HandleFetch
  <2>1. KnownIsAborted'
    BY <1>1 DEF AbortInv, KnownIsAborted, Aborted,
       HandleFetch, Learn, ReportOutcomes
  <2>2. sd.name # "afterFirstCommit"
    BY <1>1, HandlerName DEF HandleFetch, At, UpdateKinds, WaitKinds, ControlKinds
  <2> QED
    BY <1>1, <2>1, <2>2, Leaving, Waiting, KindFacts
    DEF HandleFetch, At, Goto, WaitKinds, ControlKinds, disk
<1>2. CASE HandleFetchStoreRetry
  <2>1. KnownIsAborted'
    BY <1>2 DEF AbortInv, KnownIsAborted, Aborted,
       HandleFetchStoreRetry, world
  <2>2. sd.name # "afterFirstCommit"
    BY <1>2, HandlerName DEF HandleFetchStoreRetry, At, UpdateKinds, WaitKinds, ControlKinds
  <2> QED
    BY <1>2, <2>1, <2>2, Leaving, KindFacts
    DEF HandleFetchStoreRetry, At, Goto, WaitKinds, ControlKinds, disk, world
<1>3. CASE HandleStoreRejected
  <2>1. KnownIsAborted'
    BY <1>3 DEF AbortInv, KnownIsAborted, Aborted,
       HandleStoreRejected, Learn, ReportOutcomes
  <2>2. sd.name # "afterFirstCommit"
    BY <1>3, HandlerName DEF HandleStoreRejected, At, UpdateKinds, WaitKinds, ControlKinds
  <2> QED
    BY <1>3, <2>1, <2>2, Leaving, KindFacts
    DEF HandleStoreRejected, At, Goto, WaitKinds, ControlKinds, disk
<1>4. CASE HandleStorePayloads
  <2>1. KnownIsAborted'
    BY <1>4 DEF AbortInv, KnownIsAborted, Aborted, HandleStorePayloads
  <2>2. sd.name # "afterFirstCommit"
    BY <1>4, HandlerName DEF HandleStorePayloads, At, UpdateKinds, WaitKinds, ControlKinds
  <2>3. sd'.name # "afterFirstCommit"
    BY <1>4, <2>2, StoredNameFacts DEF HandleStorePayloads, Stored, UpdateKinds, disk
  <2>4. \/ stage' = "transition" /\ to'.kind \in {"cleanup", "statusReport"}
        \/ UNCHANGED <<state, to, stage>> /\ sd'.name = StoredName("store")
    BY <1>4, KindFacts DEF HandleStorePayloads, BreakLoop, Goto, Stored
  <2>5. CASE stage' = "transition" /\ to'.kind \in {"cleanup", "statusReport"}
    BY <2>1, <2>3, <2>2, <2>5, Leaving DEF WaitKinds, ControlKinds
  <2>6. CASE UNCHANGED <<state, to, stage>> /\ sd'.name = StoredName("store")
    <3>1. stage = "handle" /\ state.kind = "store" /\ sd.name = StoredName("store")
      BY <1>4 DEF HandleStorePayloads, At, AbortInv, HandledIsStored, UpdateKinds
    <3>2. "abortKnown" \in seen' => "abortKnown" \in seen
      BY <1>4 DEF HandleStorePayloads
    <3> QED
      BY <2>1, <2>6, <3>1, <3>2, Staying DEF ReportedFirst, At
  <2> QED
    BY <2>4, <2>5, <2>6
<1>5. CASE HandleSupportsRollback
  <2>1. KnownIsAborted'
    BY <1>5 DEF AbortInv, KnownIsAborted, Aborted, HandleSupportsRollback
  <2>2. sd.name # "afterFirstCommit"
    BY <1>5, HandlerName DEF HandleSupportsRollback, At, UpdateKinds, WaitKinds, ControlKinds
  <2>3. sd'.name # "afterFirstCommit"
    BY <1>5, <2>2, StoredNameFacts DEF HandleSupportsRollback, Stored, UpdateKinds, disk
  <2>4. \/ stage' = "transition" /\ to'.kind \in {"updateError", "statusReport"}
        \/ UNCHANGED <<state, to, stage>> /\ sd'.name = StoredName("store")
    BY <1>5, KindFacts DEF HandleSupportsRollback, BreakLoop, Goto, Stored
  <2>5. CASE stage' = "transition" /\ to'.kind \in {"updateError", "statusReport"}
    BY <2>1, <2>3, <2>2, <2>5, Leaving DEF WaitKinds, ControlKinds
  <2>6. CASE UNCHANGED <<state, to, stage>> /\ sd'.name = StoredName("store")
    <3>1. stage = "handle" /\ state.kind = "store" /\ sd.name = StoredName("store")
      BY <1>5 DEF HandleSupportsRollback, At, AbortInv, HandledIsStored, UpdateKinds
    <3>2. "abortKnown" \in seen' => "abortKnown" \in seen
      BY <1>5 DEF HandleSupportsRollback
    <3> QED
      BY <2>1, <2>6, <3>1, <3>2, Staying DEF ReportedFirst, At
  <2> QED
    BY <2>4, <2>5, <2>6
<1>6. CASE HandleStoreEnd
  <2>1. KnownIsAborted'
    BY <1>6 DEF AbortInv, KnownIsAborted, Aborted,
       HandleStoreEnd, Learn, ReportOutcomes
  <2>2. sd.name # "afterFirstCommit"
    BY <1>6, HandlerName DEF HandleStoreEnd, At, UpdateKinds, WaitKinds, ControlKinds
  <2> QED
    BY <1>6, <2>1, <2>2, Leaving, KindFacts
    DEF HandleStoreEnd, At, Goto, WaitKinds, ControlKinds, disk
<1>7. CASE HandleAfterStore
  <2>1. KnownIsAborted'
    BY <1>7 DEF AbortInv, KnownIsAborted, Aborted,
       HandleAfterStore, world
  <2>2. sd.name # "afterFirstCommit"
    BY <1>7, HandlerName DEF HandleAfterStore, At, UpdateKinds, WaitKinds, ControlKinds
  <2> QED
    BY <1>7, <2>1, <2>2, Leaving, Waiting, KindFacts
    DEF HandleAfterStore, At, Goto, WaitKinds, ControlKinds, disk, world
<1> QED
  BY <1>1, <1>2, <1>3, <1>4, <1>5, <1>6, <1>7 DEF Download

(* A pause is only ever entered before the commit. *)
LEMMA ControlAborts ==
  ASSUME TypeOK, AbortInv, Control
  PROVE  AbortInv'
<1>1. CASE HandleFetchControlMap
  <2>1. KnownIsAborted'
    BY <1>1 DEF AbortInv, KnownIsAborted, Aborted,
       HandleFetchControlMap
  <2>2. sd.name # "afterFirstCommit"
    BY <1>1, HandlerName DEF HandleFetchControlMap, At, UpdateKinds, WaitKinds, ControlKinds
  <2> QED
    BY <1>1, <2>1, <2>2, Leaving, Waiting, KindFacts, ErrorNextKind
    DEF HandleFetchControlMap, At, Goto, WaitKinds, ControlKinds, HandleError
<1>2. CASE HandleFetchRetryControlMap
  <2>1. KnownIsAborted'
    BY <1>2 DEF AbortInv, KnownIsAborted, Aborted,
       HandleFetchRetryControlMap
  <2>2. sd.name # "afterFirstCommit"
    BY <1>2, HandlerName DEF HandleFetchRetryControlMap, At, UpdateKinds, WaitKinds, ControlKinds
  <2> QED
    BY <1>2, <2>1, <2>2, Leaving, Waiting, KindFacts, ErrorNextKind
    DEF HandleFetchRetryControlMap, At, Goto, WaitKinds, ControlKinds,
        HandleError
<1>3. CASE HandleControlMapContinue
  <2>1. KnownIsAborted'
    BY <1>3 DEF AbortInv, KnownIsAborted, Aborted, HandleControlMapContinue, world
  <2>2. sd.name # "afterFirstCommit"
    BY <1>3, HandlerName DEF HandleControlMapContinue, At, UpdateKinds, WaitKinds, ControlKinds
  <2>3. state.wraps \in Wrappable
    BY <1>3, ControlFields DEF HandleControlMapContinue, At, ControlKinds
  <2> QED
    BY <1>3, <2>1, <2>2, <2>3, Leaving, KindFacts
    DEF HandleControlMapContinue, Goto, Wrappable, WaitKinds, ControlKinds, disk
<1>4. CASE HandleControlMapPauseAction
  <2>1. KnownIsAborted'
    BY <1>4 DEF AbortInv, KnownIsAborted, Aborted, HandleControlMapPauseAction,
       Learn, ReportOutcomes
  <2>2. sd.name # "afterFirstCommit"
    BY <1>4, HandlerName DEF HandleControlMapPauseAction, At, UpdateKinds, WaitKinds, ControlKinds
  <2>3. state.pause \in PauseStates
    BY <1>4, ControlFields DEF HandleControlMapPauseAction, At, ControlKinds
  <2>4. /\ stage' = "transition" /\ sd' = sd
        /\ to'.kind \in WaitKinds \/ to'.kind \notin WaitKinds \cup {"afterFirstCommit"}
    BY <1>4, <2>3, KindFacts, ErrorNextKind
    DEF HandleControlMapPauseAction, HandleError, Goto, PauseStates, WaitKinds, ControlKinds
  <2> QED
    BY <2>1, <2>2, <2>4, Leaving, Waiting
<1>5. CASE HandleControlMapFail
  <2>1. KnownIsAborted'
    BY <1>5 DEF AbortInv, KnownIsAborted, Aborted,
       HandleControlMapFail
  <2>2. sd.name # "afterFirstCommit"
    BY <1>5, HandlerName DEF HandleControlMapFail, At, UpdateKinds, WaitKinds, ControlKinds
  <2> QED
    BY <1>5, <2>1, <2>2, Leaving, KindFacts, ErrorNextKind
    DEF HandleControlMapFail, At, Goto, WaitKinds, ControlKinds, HandleError
<1>6. CASE HandleControlMapPause
  <2>1. KnownIsAborted'
    BY <1>6 DEF AbortInv, KnownIsAborted, Aborted,
       HandleControlMapPause, world
  <2>2. sd.name # "afterFirstCommit"
    BY <1>6, HandlerName DEF HandleControlMapPause, At, UpdateKinds, WaitKinds, ControlKinds
  <2> QED
    BY <1>6, <2>1, <2>2, Leaving, Waiting, KindFacts
    DEF HandleControlMapPause, At, Goto, WaitKinds, ControlKinds, disk, world
<1>7. CASE HandleRebootPauseRequested
  <2>1. KnownIsAborted'
    BY <1>7 DEF AbortInv, KnownIsAborted, Aborted,
       HandleRebootPauseRequested, world
  <2>2. sd.name # "afterFirstCommit"
    BY <1>7, HandlerName DEF HandleRebootPauseRequested, At, UpdateKinds, WaitKinds, ControlKinds
  <2> QED
    BY <1>7, <2>1, <2>2, Leaving, Waiting, KindFacts
    DEF HandleRebootPauseRequested, At, Goto, WaitKinds, ControlKinds, disk,
        world
<1> QED
  BY <1>1, <1>2, <1>3, <1>4, <1>5, <1>6, <1>7 DEF Control

(* Installation, the reboot and its verification come before the commit. *)
LEMMA ApplyAborts ==
  ASSUME TypeOK, AbortInv, Apply
  PROVE  AbortInv'
<1>1. CASE HandleInstallBegin
  <2>1. KnownIsAborted'
    BY <1>1 DEF AbortInv, KnownIsAborted, Aborted, HandleInstallBegin,
       Learn, ReportOutcomes
  <2>2. sd.name # "afterFirstCommit"
    BY <1>1, HandlerName DEF HandleInstallBegin, At, UpdateKinds, WaitKinds, ControlKinds
  <2>3. \/ HandleError("install") \/ Goto(New("updateError"))
        \/ UNCHANGED <<state, to, stage>> /\ seen' = seen
    BY <1>1 DEF HandleInstallBegin, ReportOutcomes, Learn
  <2>4. sd' = sd /\ stage = "handle" /\ state.kind = "install"
    BY <1>1 DEF HandleInstallBegin, At
  <2>5. CASE HandleError("install") \/ Goto(New("updateError"))
    BY <2>1, <2>2, <2>4, <2>5, Leaving, ErrorNextKind, KindFacts
    DEF HandleError, Goto, WaitKinds, ControlKinds
  <2>6. CASE UNCHANGED <<state, to, stage>> /\ seen' = seen
    BY <2>1, <2>4, <2>6, Staying DEF ReportedFirst, At
  <2> QED
    BY <2>3, <2>5, <2>6
<1>2. CASE HandleInstallPayload
  <2>1. KnownIsAborted'
    BY <1>2 DEF AbortInv, KnownIsAborted, Aborted,
       HandleInstallPayload
  <2>2. sd.name # "afterFirstCommit"
    BY <1>2, HandlerName DEF HandleInstallPayload, At, UpdateKinds, WaitKinds, ControlKinds
  <2> QED
    BY <1>2, <2>1, <2>2, Leaving, Staying, KindFacts, ErrorNextKind
    DEF HandleInstallPayload, At, Goto, WaitKinds, ControlKinds, HandleError,
        ReportedFirst
<1>3. CASE HandleRebootType
  <2>1. KnownIsAborted'
    BY <1>3 DEF AbortInv, KnownIsAborted, Aborted,
       HandleRebootType
  <2>2. sd.name # "afterFirstCommit"
    BY <1>3, HandlerName DEF HandleRebootType, At, UpdateKinds, WaitKinds, ControlKinds
  <2> QED
    BY <1>3, <2>1, <2>2, Leaving, Waiting, KindFacts, ErrorNextKind,
       StoredNameFacts
    DEF HandleRebootType, At, Goto, WaitKinds, ControlKinds, HandleError,
        BreakLoop, Stored, UpdateKinds
<1>4. CASE HandleRebootRefused
  <2>1. KnownIsAborted'
    BY <1>4 DEF AbortInv, KnownIsAborted, Aborted,
       HandleRebootRefused
  <2>2. sd.name # "afterFirstCommit"
    BY <1>4, HandlerName DEF HandleRebootRefused, At, UpdateKinds, WaitKinds, ControlKinds
  <2> QED
    BY <1>4, <2>1, <2>2, Leaving, KindFacts
    DEF HandleRebootRefused, At, Goto, WaitKinds, ControlKinds, disk
<1>5. CASE HandleRebootHost
  BY <1>5, Booting DEF HandleRebootHost
<1>6. CASE HandleRebootReturns
  <2>1. KnownIsAborted'
    BY <1>6 DEF AbortInv, KnownIsAborted, Aborted,
       HandleRebootReturns
  <2>2. sd.name # "afterFirstCommit"
    BY <1>6, HandlerName DEF HandleRebootReturns, At, UpdateKinds, WaitKinds, ControlKinds
  <2> QED
    BY <1>6, <2>1, <2>2, Leaving, KindFacts, ErrorNextKind
    DEF HandleRebootReturns, At, Goto, WaitKinds, ControlKinds, HandleError
<1>7. CASE HandleVerifyReboot
  <2>1. KnownIsAborted'
    BY <1>7 DEF AbortInv, KnownIsAborted, Aborted,
       HandleVerifyReboot
  <2>2. sd.name # "afterFirstCommit"
    BY <1>7, HandlerName DEF HandleVerifyReboot, At, UpdateKinds, WaitKinds, ControlKinds
  <2> QED
    BY <1>7, <2>1, <2>2, Leaving, KindFacts, ErrorNextKind
    DEF HandleVerifyReboot, At, Goto, WaitKinds, ControlKinds, HandleError
<1>8. CASE HandleAfterReboot
  <2>1. KnownIsAborted'
    BY <1>8 DEF AbortInv, KnownIsAborted, Aborted,
       HandleAfterReboot, world
  <2>2. sd.name # "afterFirstCommit"
    BY <1>8, HandlerName DEF HandleAfterReboot, At, UpdateKinds, WaitKinds, ControlKinds
  <2> QED
    BY <1>8, <2>1, <2>2, Leaving, Waiting, KindFacts
    DEF HandleAfterReboot, At, Goto, WaitKinds, ControlKinds, disk, world
<1> QED
  BY <1>1, <1>2, <1>3, <1>4, <1>5, <1>6, <1>7, <1>8 DEF Apply

(* The report before CommitUpdate decides whether the commit goes on. *)
LEMMA CommitAborts ==
  ASSUME TypeOK, AbortInv, Commit
  PROVE  AbortInv'
<1>1. CASE HandleCommitBegin
  <2>1. KnownIsAborted'
    BY <1>1 DEF AbortInv, KnownIsAborted, Aborted, HandleCommitBegin,
       CommitBegin, Learn, ReportOutcomes
  <2>2. sd.name # "afterFirstCommit"
    BY <1>1, HandlerName DEF HandleCommitBegin, CommitBegin, At, UpdateKinds, WaitKinds,
      ControlKinds
  <2>3. \/ HandleError("commit")
        \/ Goto([New("preCommitRetry") EXCEPT !.tries = state.tries + 1])
        \/ /\ UNCHANGED <<state, to, stage>>
           /\ ~Aborted /\ seen' = seen
    BY <1>1 DEF HandleCommitBegin, CommitBegin, ReportOutcomes, Learn
  <2>4. sd' = sd
    BY <1>1 DEF HandleCommitBegin, CommitBegin
  <2>5. CASE HandleError("commit")
    BY <2>1, <2>2, <2>4, <2>5, Leaving, ErrorNextKind DEF HandleError, Goto
  <2>6. CASE Goto([New("preCommitRetry") EXCEPT !.tries = state.tries + 1])
    BY <2>1, <2>2, <2>4, <2>6, Waiting DEF Goto, New, WaitKinds
  <2>7. CASE UNCHANGED <<state, to, stage>> /\ ~Aborted /\ seen' = seen
    <3>1. "abortKnown" \notin seen
      BY <2>7 DEF AbortInv, KnownIsAborted
    <3>2. ReportedFirst'
      BY <2>7, <3>1 DEF ReportedFirst
    <3> QED
      BY <2>1, <2>4, <2>7, <3>1, <3>2, Staying
  <2> QED
    BY <2>3, <2>5, <2>6, <2>7
<1>2. CASE HandlePreCommitRetry
  <2>1. KnownIsAborted'
    BY <1>2 DEF AbortInv, KnownIsAborted, Aborted, HandlePreCommitRetry
  <2>2. sd.name # "afterFirstCommit"
    BY <1>2, HandlerName DEF HandlePreCommitRetry, At, UpdateKinds, WaitKinds, ControlKinds
  <2>3. /\ stage' = "transition"
        /\ to'.kind \notin WaitKinds \cup {"afterFirstCommit"}
    <3>1. [New("commit") EXCEPT !.tries = state.tries].kind = "commit"
      BY DEF New
    <3> QED
      BY <1>2, <3>1, ErrorNextKind
      DEF HandlePreCommitRetry, HandleError, Goto, WaitKinds, ControlKinds
  <2> QED
    BY <1>2, <2>1, <2>2, <2>3, Leaving DEF HandlePreCommitRetry
<1>3. CASE HandleCommitFirst
  <2>1. KnownIsAborted'
    BY <1>3 DEF AbortInv, KnownIsAborted, Aborted, HandleCommitFirst
  <2>2. sd.name # "afterFirstCommit"
    BY <1>3, HandlerName DEF HandleCommitFirst, At, UpdateKinds, WaitKinds, ControlKinds
  <2>3. "abortKnown" \notin seen /\ seen' = seen /\ sd' = sd
    BY <1>3 DEF HandleCommitFirst, At, AbortInv, ReportedFirst
  <2>4. CASE UNCHANGED <<state, to, stage>>
    <3>1. ReportedFirst'
      BY <2>3 DEF ReportedFirst
    <3> QED
      BY <2>1, <2>3, <2>4, <3>1, Staying
  <2>5. CASE HandleError("commit")
    BY <2>1, <2>2, <2>3, <2>5, Leaving, ErrorNextKind DEF HandleError, Goto
  <2> QED
    BY <1>3, <2>4, <2>5 DEF HandleCommitFirst
<1>4. CASE HandleCommitStore
  <2>1. KnownIsAborted'
    BY <1>4 DEF AbortInv, KnownIsAborted, Aborted, HandleCommitStore
  <2>2. sd.name # "afterFirstCommit"
    BY <1>4, HandlerName DEF HandleCommitStore, At, UpdateKinds, WaitKinds, ControlKinds
  <2>3. "abortKnown" \notin seen /\ seen' = seen
    BY <1>4 DEF HandleCommitStore, AbortInv, ReportedFirst
  <2>4. sd'.name # "afterFirstCommit"
    BY <1>4, <2>2, StoredNameFacts DEF HandleCommitStore, Stored, UpdateKinds, disk
  <2>5. /\ stage' = "transition"
        /\ to'.kind \in {"statusReport", "updateError", "afterFirstCommit"}
    BY <1>4, KindFacts DEF HandleCommitStore, Goto
  <2> QED
    BY <2>1, <2>3, <2>4, <2>5 DEF AbortInv, HandledIsStored, ReportedFirst, NotPastCommit,
       CommitsOn, WaitsBeforeCommit, At, WaitKinds, ControlKinds
<1>5. CASE HandleAfterFirstCommit
  <2>1. KnownIsAborted'
    BY <1>5 DEF AbortInv, KnownIsAborted, Aborted,
       HandleAfterFirstCommit
  <2> QED
    BY <1>5, <2>1, Staying
    DEF HandleAfterFirstCommit, At, disk, ReportedFirst
<1>6. CASE HandleAfterFirstCommitEnd
  <2>1. KnownIsAborted'
    BY <1>6 DEF AbortInv, KnownIsAborted, Aborted,
       HandleAfterFirstCommitEnd
  <2> QED
    BY <1>6, <2>1, Leaving, KindFacts, ErrorNextKind
    DEF HandleAfterFirstCommitEnd, At, Goto, WaitKinds, ControlKinds,
        HandleError
<1>7. CASE HandleAfterCommit
  <2>1. KnownIsAborted'
    BY <1>7 DEF AbortInv, KnownIsAborted, Aborted,
       HandleAfterCommit, world
  <2>2. sd.name # "afterFirstCommit"
    BY <1>7, HandlerName DEF HandleAfterCommit, At, UpdateKinds, WaitKinds, ControlKinds
  <2> QED
    BY <1>7, <2>1, <2>2, Leaving, KindFacts
    DEF HandleAfterCommit, At, Goto, WaitKinds, ControlKinds, disk, world
<1> QED
  BY <1>1, <1>2, <1>3, <1>4, <1>5, <1>6, <1>7 DEF Commit

(* A rollback never returns to the commit. *)
LEMMA RollbackAborts ==
  ASSUME TypeOK, AbortInv, Rollback
  PROVE  AbortInv'
<1>1. CASE HandleRollbackPayload
  <2>1. KnownIsAborted'
    BY <1>1 DEF AbortInv, KnownIsAborted, Aborted,
       HandleRollbackPayload
  <2>2. sd.name # "afterFirstCommit"
    BY <1>1, HandlerName DEF HandleRollbackPayload, At, UpdateKinds, WaitKinds, ControlKinds
  <2> QED
    BY <1>1, <2>1, <2>2, Leaving, Staying, KindFacts, ErrorNextKind
    DEF HandleRollbackPayload, At, Goto, WaitKinds, ControlKinds, HandleError,
        ReportedFirst
<1>2. CASE HandleRollbackEnd
  <2>1. KnownIsAborted'
    BY <1>2 DEF AbortInv, KnownIsAborted, Aborted,
       HandleRollbackEnd, RollbackEnd, world
  <2>2. sd.name # "afterFirstCommit"
    BY <1>2, HandlerName DEF HandleRollbackEnd, RollbackEnd, At, UpdateKinds, WaitKinds,
      ControlKinds
  <2> QED
    BY <1>2, <2>1, <2>2, Leaving, KindFacts
    DEF HandleRollbackEnd, RollbackEnd, At, Goto, WaitKinds, ControlKinds,
        disk, world
<1>3. CASE HandleRollbackRebootHost
  BY <1>3, Booting DEF HandleRollbackRebootHost
<1>4. CASE HandleRollbackRebootReturns
  <2>1. KnownIsAborted'
    BY <1>4 DEF AbortInv, KnownIsAborted, Aborted,
       HandleRollbackRebootReturns, world
  <2>2. sd.name # "afterFirstCommit"
    BY <1>4, HandlerName DEF HandleRollbackRebootReturns, At, UpdateKinds, WaitKinds, ControlKinds
  <2> QED
    BY <1>4, <2>1, <2>2, Leaving, KindFacts
    DEF HandleRollbackRebootReturns, At, Goto, WaitKinds, ControlKinds, disk,
        world
<1>5. CASE HandleVerifyRollbackReboot
  <2>1. KnownIsAborted'
    BY <1>5 DEF AbortInv, KnownIsAborted, Aborted,
       HandleVerifyRollbackReboot
  <2>2. sd.name # "afterFirstCommit"
    BY <1>5, HandlerName DEF HandleVerifyRollbackReboot, At, UpdateKinds, WaitKinds, ControlKinds
  <2> QED
    BY <1>5, <2>1, <2>2, Leaving, KindFacts, ErrorNextKind
    DEF HandleVerifyRollbackReboot, At, Goto, WaitKinds, ControlKinds,
        HandleError
<1>6. CASE HandleAfterRollbackReboot
  <2>1. KnownIsAborted'
    BY <1>6 DEF AbortInv, KnownIsAborted, Aborted,
       HandleAfterRollbackReboot, world
  <2>2. sd.name # "afterFirstCommit"
    BY <1>6, HandlerName DEF HandleAfterRollbackReboot, At, UpdateKinds, WaitKinds, ControlKinds
  <2> QED
    BY <1>6, <2>1, <2>2, Leaving, KindFacts
    DEF HandleAfterRollbackReboot, At, Goto, WaitKinds, ControlKinds, disk,
        world
<1> QED
  BY <1>1, <1>2, <1>3, <1>4, <1>5, <1>6 DEF Rollback

(* Neither do the error, cleanup and report states. *)
LEMMA FinishAborts ==
  ASSUME TypeOK, AbortInv, Finish
  PROVE  AbortInv'
<1>1. CASE HandleUpdateError
  <2>1. KnownIsAborted'
    BY <1>1 DEF AbortInv, KnownIsAborted, Aborted,
       HandleUpdateError, world
  <2>2. sd.name # "afterFirstCommit"
    BY <1>1, HandlerName DEF HandleUpdateError, At, UpdateKinds, WaitKinds, ControlKinds
  <2> QED
    BY <1>1, <2>1, <2>2, Leaving, KindFacts
    DEF HandleUpdateError, At, Goto, WaitKinds, ControlKinds, disk, world
<1>2. CASE HandleCleanup
  <2>1. KnownIsAborted'
    BY <1>2 DEF AbortInv, KnownIsAborted, Aborted,
       HandleCleanup
  <2>2. sd.name # "afterFirstCommit"
    BY <1>2, HandlerName DEF HandleCleanup, At, UpdateKinds, WaitKinds, ControlKinds
  <2> QED
    BY <1>2, <2>1, <2>2, Leaving, KindFacts
    DEF HandleCleanup, At, Goto, WaitKinds, ControlKinds, disk
<1>3. CASE HandleStatusReport
  <2>1. KnownIsAborted'
    BY <1>3 DEF AbortInv, KnownIsAborted, Aborted, HandleStatusReport,
       Learn, ReportOutcomes
  <2>2. sd.name # "afterFirstCommit"
    BY <1>3, HandlerName DEF HandleStatusReport, At, UpdateKinds, WaitKinds, ControlKinds
  <2>3. stage' = "transition" /\ to'.kind \in {"statusReportRetry", "idle"}
    <3> DEFINE sent == [state EXCEPT !.tries = @ + 1]
               logged == [sent EXCEPT !.logTries = @ + 1]
    <3>1. /\ [sent EXCEPT !.kind = "statusReportRetry",
                        !.sending = sent.tries].kind = "statusReportRetry"
          /\ [logged EXCEPT !.kind = "statusReportRetry",
                          !.sending = logged.logTries].kind = "statusReportRetry"
      BY DEF TypeOK, States
    <3>2. \/ Goto(New("idle"))
          \/ Goto([sent EXCEPT !.kind = "statusReportRetry", !.sending = sent.tries])
          \/ Goto([logged EXCEPT !.kind = "statusReportRetry",
                                 !.sending = logged.logTries])
      BY <1>3 DEF HandleStatusReport
    <3> HIDE DEF sent, logged
    <3> QED
      BY <3>1, <3>2, KindFacts DEF Goto
  <2> QED
    BY <1>3, <2>1, <2>2, <2>3, Leaving DEF HandleStatusReport, disk, WaitKinds, ControlKinds
<1>4. CASE HandleStatusReportRetry
  <2>1. KnownIsAborted'
    BY <1>4 DEF AbortInv, KnownIsAborted, Aborted, HandleStatusReportRetry, world
  <2>2. sd.name # "afterFirstCommit"
    BY <1>4, HandlerName DEF HandleStatusReportRetry, At, UpdateKinds, WaitKinds, ControlKinds
  <2>3. stage' = "transition" /\ to'.kind \in {"statusReport", "idle"}
    <3>1. [state EXCEPT !.kind = "statusReport", !.sending = 0].kind = "statusReport"
      BY DEF TypeOK, States
    <3> QED
      BY <1>4, <3>1, KindFacts DEF HandleStatusReportRetry, Goto
  <2> QED
    BY <1>4, <2>1, <2>2, <2>3, Leaving
    DEF HandleStatusReportRetry, disk, world, WaitKinds, ControlKinds
<1> QED
  BY <1>1, <1>2, <1>3, <1>4 DEF Finish

(* A restart resumes at most what the database holds. *)
LEMMA OutsideAborts ==
  ASSUME TypeOK, AbortInv, Outside
  PROVE  AbortInv'
<1>1. CASE HandleInit
  <2>1. KnownIsAborted'
    BY <1>1 DEF AbortInv, KnownIsAborted, Aborted, HandleInit
  <2>2. /\ stage' # "handle"
        /\ \/ stage' = "exited"
           \/ stage' = "transition" /\ to'.kind \in {"idle", "statusReport"}
           \/ stage' = "transition" /\ to' = Resume(sd)
    BY <1>1, KindFacts DEF HandleInit, BreakLoop, Goto, Exit
  <2>3. sd'.name \in {sd.name, "none"} /\ seen' = seen
    BY <1>1 DEF HandleInit, NoData, disk, TypeOK, StateData
  <2>4. CASE to'.kind # "afterFirstCommit"
    BY <2>1, <2>2, <2>3, <2>4, Leaving, ResumeKind DEF TypeOK, WaitKinds, ControlKinds
  <2>5. CASE to'.kind = "afterFirstCommit" /\ stage' = "transition"
    <3>1. sd.name = "afterFirstCommit"
      BY <2>2, <2>5, ResumeKind DEF TypeOK
    <3> QED
      BY <2>1, <2>3, <2>5, <3>1 DEF AbortInv, HandledIsStored, ReportedFirst, NotPastCommit,
         CommitsOn, WaitsBeforeCommit, At, WaitKinds, ControlKinds
  <2>6. CASE stage' = "exited"
    BY <2>1, <2>3, <2>6, Leaving
  <2> QED
    BY <2>2, <2>4, <2>5, <2>6
<1>2. CASE HandleInitUnreadable
  <2>1. KnownIsAborted'
    BY <1>2 DEF AbortInv, KnownIsAborted, Aborted,
       HandleInitUnreadable
  <2> QED
    BY <1>2, <2>1, Leaving, KindFacts
    DEF HandleInitUnreadable, At, Goto, WaitKinds, ControlKinds, disk
<1>3. CASE HandleInitNoInstallers
  <2>1. KnownIsAborted'
    BY <1>3 DEF AbortInv, KnownIsAborted, Aborted,
       HandleInitNoInstallers
  <2> QED
    BY <1>3, <2>1, Leaving, KindFacts
    DEF HandleInitNoInstallers, At, Goto, WaitKinds, ControlKinds
<1>4. CASE HandleIdle
  <2>1. KnownIsAborted'
    BY <1>4 DEF AbortInv, KnownIsAborted, Aborted, HandleIdle
  <2>2. to'.kind = "checkWait" /\ stage' = "transition"
    BY <1>4, KindFacts DEF HandleIdle, Goto
  <2> QED
    BY <1>4, <2>1, <2>2, Leaving DEF HandleIdle, NoData, WaitKinds, ControlKinds
<1>5. CASE HandleCheckWait
  <2>1. KnownIsAborted'
    BY <1>5 DEF AbortInv, KnownIsAborted, Aborted,
       HandleCheckWait, world
  <2> QED
    BY <1>5, <2>1, Leaving, KindFacts
    DEF HandleCheckWait, At, Goto, WaitKinds, ControlKinds, disk, world
<1>6. CASE HandleUpdateCheck
  <2>1. KnownIsAborted'
    BY <1>6 DEF AbortInv, KnownIsAborted, Aborted,
       HandleUpdateCheck
  <2> QED
    BY <1>6, <2>1, Leaving, KindFacts
    DEF HandleUpdateCheck, At, Goto, WaitKinds, ControlKinds, disk
<1>7. CASE HandleErrorState
  <2>1. KnownIsAborted'
    BY <1>7 DEF AbortInv, KnownIsAborted, Aborted,
       HandleErrorState, world
  <2> QED
    BY <1>7, <2>1, Leaving, KindFacts
    DEF HandleErrorState, At, Goto, WaitKinds, ControlKinds, disk, world
<1> QED
  BY <1>1, <1>2, <1>3, <1>4, <1>5, <1>6, <1>7 DEF Outside

(* transitionState stores the name before the handler runs. *)
LEMMA TransitionAborts ==
  ASSUME TypeOK, AbortInv, Transition
  PROVE  AbortInv'
<1>1. KnownIsAborted' /\ seen' = seen
  BY DEF Transition, LeaveFails, AbortInv, KnownIsAborted, Aborted
<1>2. CASE LeaveFails
  BY <1>1, <1>2, Leaving, ErrorNextKind DEF LeaveFails, HandleError, Goto
<1>3. CASE EnterState
  <2>1. stage = "transition" /\ state' = to
    BY <1>3 DEF Transition, EnterState
  <2>2. CASE to.kind \notin UpdateKinds
    <3>1. stage' = "handle" /\ idx' = 0 /\ sd' = sd
      BY <1>3, <2>2 DEF EnterState
    <3> QED
      BY <1>1, <2>1, <2>2, <3>1 DEF AbortInv, HandledIsStored, ReportedFirst, NotPastCommit,
         CommitsOn, WaitsBeforeCommit, At, UpdateKinds
  <2>3. CASE /\ to.kind \in UpdateKinds
             /\ sd' = Stored(to.kind, upd, IncStoreCount)
             /\ \/ stage' = "transition" /\ to' = NewStatusReport("failure")
                \/ stage' = "handle" /\ idx' = 0 /\ to' = to
    <3>1. sd'.name = StoredName(to.kind)
      BY <2>3 DEF Stored
    <3>2. to.kind = "afterFirstCommit" => "abortKnown" \notin seen
      BY <2>1 DEF AbortInv, NotPastCommit, CommitsOn
    <3>3. to.kind \notin WaitKinds
      BY <2>3 DEF UpdateKinds, WaitKinds, ControlKinds
    <3> QED
      BY <1>1, <2>1, <2>3, <3>1, <3>2, <3>3, StoredNameFacts, KindFacts
      DEF AbortInv, HandledIsStored, ReportedFirst, NotPastCommit, CommitsOn,
          WaitsBeforeCommit, At, WaitKinds, ControlKinds
  <2>4. CASE /\ UNCHANGED sd
             /\ to' = ErrorNext(to.kind, upd.rollback)
             /\ stage' = IF to'.kind = "error" THEN "exited" ELSE "transition"
    <3>1. stage' # "handle" /\ sd' = sd
      BY <2>4
    <3>2. to'.kind \notin WaitKinds \cup {"afterFirstCommit"}
      BY <2>4, ErrorNextKind
    <3> QED
      BY <1>1, <3>1, <3>2, Leaving
  <2> QED
    BY <1>3, <2>2, <2>3, <2>4 DEF EnterState
<1>4. CASE EnterStateFails
  <2>1. stage = "transition" /\ stage' = "transition"
    BY <1>4 DEF Transition, EnterStateFails
  <2>2. to'.kind \notin WaitKinds \cup {"afterFirstCommit"}
    BY <1>4, ErrorNextKind DEF EnterStateFails
  <2>3. sd'.name = "afterFirstCommit"
          => sd.name = "afterFirstCommit" \/ to.kind = "afterFirstCommit"
    BY <1>4, StoredNameFacts DEF EnterStateFails, Stored
  <2> QED
    BY <1>1, <2>1, <2>2, <2>3 DEF AbortInv, HandledIsStored, ReportedFirst, NotPastCommit,
       CommitsOn, WaitsBeforeCommit, At
<1> QED
  BY <1>2, <1>3, <1>4 DEF Transition

(* Any step keeps the invariant. *)
LEMMA NextAborts ==
  ASSUME TypeOK, AbortInv, [Next]_vars
  PROVE  AbortInv'
<1>1. CASE Agent
  BY <1>1, TransitionAborts, OutsideAborts, DownloadAborts, ControlAborts, ApplyAborts,
     CommitAborts, RollbackAborts, FinishAborts
  DEF Agent
<1>2. CASE ServiceRestart \/ Crash
  BY <1>2, Booting DEF ServiceRestart, Crash
<1>3. CASE Abort
  <2>1. KnownIsAborted'
    BY <1>3 DEF Abort, KnownIsAborted, Aborted, TypeOK
  <2> QED
    BY <1>3, <2>1 DEF Abort, AbortInv, HandledIsStored, ReportedFirst, NotPastCommit,
       CommitsOn, WaitsBeforeCommit, At, memory, disk
<1>4. CASE UNCHANGED vars
  BY <1>4 DEF vars, memory, disk, world, AbortInv, KnownIsAborted, Aborted, HandledIsStored,
     ReportedFirst, NotPastCommit, CommitsOn, WaitsBeforeCommit, At
<1> QED
  BY <1>1, <1>2, <1>3, <1>4 DEF Next

(* A fresh device knows of no abort. *)
LEMMA InitAborts == Init => AbortInv
BY KindFacts DEF Init, AbortInv, KnownIsAborted, HandledIsStored, ReportedFirst,
   NotPastCommit, CommitsOn, WaitsBeforeCommit, At, NoData, UpdateKinds, WaitKinds,
   ControlKinds

(* A payload becomes committed in two handlers only. *)
NoNewCommit == \A p \in 1..N : pay'[p] = "committed" => pay[p] = "committed"

(* No step of an agent that knows of the abort commits a payload. *)
LEMMA CommitStep ==
  ASSUME TypeOK, AbortInv, Next, "abortKnown" \in seen, dep' = dep
  PROVE  NoNewCommit
<1>1. pay \in [1..N -> PayStates] /\ dep \in Nat
  BY DEF TypeOK
<1>2. CASE pay' = pay
  BY <1>2 DEF NoNewCommit
<1>3. CASE HandleUpdateCheck
  BY <1>1, <1>2, <1>3 DEF HandleUpdateCheck
<1>4. CASE HandleInstallPayload
  BY <1>1, <1>4 DEF HandleInstallPayload, NoNewCommit
<1>5. CASE HandleRollbackPayload
  BY <1>1, <1>2, <1>5 DEF HandleRollbackPayload, AfterRollback, NoNewCommit
<1>6. CASE HandleCommitFirst
  BY <1>6 DEF HandleCommitFirst, AbortInv, ReportedFirst
<1>7. CASE HandleAfterFirstCommit
  BY <1>7 DEF HandleAfterFirstCommit, AbortInv, NotPastCommit, CommitsOn
<1>8. CASE Transition
  BY <1>2, <1>8 DEF Transition
<1>9. CASE Outside /\ ~HandleUpdateCheck
  BY <1>2, <1>9 DEF Outside, HandleInit, HandleInitUnreadable, HandleInitNoInstallers,
     HandleIdle, HandleCheckWait, HandleErrorState, world
<1>10. CASE Download
  BY <1>2, <1>10 DEF Download, HandleFetch, HandleFetchStoreRetry, HandleStoreRejected,
     HandleStorePayloads, HandleSupportsRollback, HandleStoreEnd, HandleAfterStore, world
<1>11. CASE Control
  BY <1>2, <1>11 DEF Control, HandleFetchControlMap, HandleFetchRetryControlMap,
     HandleControlMapContinue, HandleControlMapPauseAction, HandleControlMapFail,
     HandleControlMapPause, HandleRebootPauseRequested, world
<1>12. CASE Apply /\ ~HandleInstallPayload
  BY <1>2, <1>12 DEF Apply, HandleInstallBegin, HandleRebootType, HandleRebootRefused,
     HandleRebootHost, HandleRebootReturns, HandleVerifyReboot, HandleAfterReboot, Boot, world
<1>13. CASE Commit /\ ~HandleCommitFirst /\ ~HandleAfterFirstCommit
  BY <1>2, <1>13 DEF Commit, HandleCommitBegin, CommitBegin, HandlePreCommitRetry,
     HandleCommitStore, HandleAfterFirstCommitEnd, HandleAfterCommit, world
<1>14. CASE Rollback /\ ~HandleRollbackPayload
  BY <1>2, <1>14 DEF Rollback, HandleRollbackEnd, RollbackEnd, HandleRollbackRebootHost,
     HandleRollbackRebootReturns, HandleVerifyRollbackReboot, HandleAfterRollbackReboot,
     Boot, world
<1>15. CASE Finish
  BY <1>2, <1>15 DEF Finish, HandleUpdateError, HandleCleanup, HandleStatusReport,
     HandleStatusReportRetry, world
<1>16. CASE ServiceRestart \/ Crash \/ Abort
  BY <1>2, <1>16 DEF ServiceRestart, Crash, Abort, Boot
<1> QED
  BY <1>3, <1>4, <1>5, <1>6, <1>7, <1>8, <1>9, <1>10, <1>11, <1>12, <1>13, <1>14, <1>15,
     <1>16
  DEF Next, Agent

(* An agent that has learned from the server that its deployment was       *)
(* aborted commits no payload of it any more, whatever crashes, failing    *)
(* writes, scripts and payload handlers do, for any number of payloads     *)
(* (updateCommitState.Handle and initState.getNextState together).         *)
THEOREM AbortedNeverCommitted == Spec => AbortNeverCommits
<1>1. Init => TypeOK /\ AbortInv
  BY InitType, InitAborts
<1>2. TypeOK /\ AbortInv /\ [Next]_vars => (TypeOK /\ AbortInv)'
  BY NextType, NextAborts
<1>3. TypeOK /\ AbortInv /\ [Next]_vars
        => [ "abortKnown" \in seen /\ dep' = dep =>
               \A p \in 1..N : pay'[p] = "committed" => pay[p] = "committed" ]_vars
  BY CommitStep DEF NoNewCommit
<1> QED
  BY <1>1, <1>2, <1>3, PTL DEF Spec, AbortNeverCommits

-----------------------------------------------------------------------------
(* What becomes of a deployment: all of it or nothing, through every crash *)
(* and restart.  The inductive invariant says what the payloads and the    *)
(* artifact name are at every place of the state machine and under every   *)
(* record that a restart may find.                                         *)

-----------------------------------------------------------------------------
(* The device.  A name flagged broken decides nothing, and neither does an *)
(* artifact without payloads or the time before the first deployment.      *)

AllClean     == \A p \in 1..N : pay[p] = "clean"
AllInstalled == \A p \in 1..N : pay[p] = "installed"
AllCommitted == \A p \in 1..N : pay[p] = "committed"
NoneCommitted == \A p \in 1..N : pay[p] # "committed"
FirstCommitted == \A p \in 1..N : p = 1 => pay[p] = "committed"
RestApplied == \A p \in 1..N : p # 1 => pay[p] \in {"installed", "committed"}

OldName == N > 0 /\ dep > 0 /\ artifact.id = dep => artifact.broken

Untouched  == AllClean /\ OldName
Applied    == AllInstalled /\ OldName
Reversible == NoneCommitted /\ OldName
PastReturn == artifact.id = dep /\ FirstCommitted /\ RestApplied
Done       == artifact.id = dep /\ AllCommitted

(* No hole but those that CommittedIsFinal does not name. *)
Safe == exposed \cap {"commitWindow", "dbWriteFailed"} = {}

Settled   == Sound /\ Unbroken => Done \/ Untouched
Revertible == (Safe => NoneCommitted) /\ (Sound /\ Unbroken => OldName)

(* The payload handlers of what was downloaded are at hand, and a restart  *)
(* can restore them; or the cleanup has been done.                         *)
Carried == Sound /\ "download" \in seen => inst = "current" /\ upd.types
CleanedUp == Sound /\ Unbroken /\ "download" \in seen => "cleanup" \in seen

-----------------------------------------------------------------------------
(* The places of the state machine *)

Early(s) == \/ s.kind \in {"fetch", "fetchStoreRetry", "store", "afterStore"}
            \/ s.wraps = "install"

Late(s) == \/ s.kind \in {"rebootPauseRequested", "reboot", "verifyReboot",
                          "afterReboot", "preCommitRetry"}
           \/ s.wraps \in {"reboot", "commit"}

Reports == {"statusReport", "statusReportRetry"}
Between == {"idle", "checkWait", "updateCheck", "error"}
Reverting == {"rollbackReboot", "verifyRollbackReboot", "afterRollbackReboot",
              "updateError", "cleanup"}

(* What holds when the state s is entered. *)
Fits(s) ==
  /\ Early(s) \/ s.kind = "install" => Untouched
  /\ Late(s) \/ s.kind = "commit" => Applied
  /\ s.kind \in ControlKinds /\ s.pause # "none" => Applied
  /\ s.kind = "afterFirstCommit" => PastReturn
  /\ s.kind = "afterCommit" \/ s.status = "success" => Done
  /\ s.kind = "rollback" =>
       Revertible /\ (Sound /\ Unbroken => upd.rollback = "yes")
  /\ s.kind \in Reverting \cup Reports \cup {"idle"} => Settled
  /\ s.kind \in Reports \cup {"idle"} => CleanedUp
  /\ s.kind \in Reports => s.wraps = "none"
  /\ s.kind \in Between => sd.name \in {"none"} \cup Reports
  /\ s.kind \in {"fetch", "fetchStoreRetry", "store"} => "download" \notin seen
  /\ s.kind \in (UpdateKinds \cup WaitKinds) \ Reports => Carried
  /\ s.kind = "init" /\ sd.name = "commit" => Revertible

(* What holds inside the handlers that take several steps. *)
InStore    == state.kind = "store" /\ idx > 0
InInstall  == state.kind = "install" /\ idx > 0
InCommit   == state.kind = "commit" /\ idx = 2
InRest     == state.kind = "afterFirstCommit"
InRollback == state.kind = "rollback"

Inside ==
  /\ InStore => Untouched /\ Carried
  /\ InInstall =>
       /\ \A p \in 1..N : pay[p] = IF p < idx THEN "installed" ELSE "clean"
       /\ OldName /\ Carried
  /\ InCommit =>
       /\ FirstCommitted /\ \A p \in 1..N : p # 1 => pay[p] = "installed"
       /\ OldName /\ Carried
  /\ InRest =>
       /\ PastReturn /\ Carried
       /\ err = "nil" => \A p \in 1..N : p <= idx => pay[p] = "committed"
  /\ InRollback =>
       /\ Revertible /\ Carried
       /\ Sound /\ Unbroken => /\ upd.rollback = "yes"
                               /\ \A p \in 1..N : p <= idx => pay[p] = "clean"
  /\ ~InStore /\ ~InInstall /\ ~InCommit /\ ~InRest /\ ~InRollback => Fits(state)

(* The state that is left, whose leave scripts may still fail. *)
Left ==
  /\ state.kind = "afterStore" => Untouched
  /\ state.kind \in {"install", "verifyReboot", "afterReboot"} => Reversible
  /\ state.kind \in {"afterStore", "install", "verifyReboot", "afterReboot", "afterCommit"}
       => Carried
  /\ state.kind = "updateCheck" => sd.name \in {"none"} \cup Reports
  /\ to.kind = "fetchStoreRetry" => state.kind = "fetch"
  /\ to.kind = "preCommitRetry" => state.kind = "commit"

Place == /\ stage = "transition" => Fits(to) /\ Left
         /\ stage = "handle" => Inside /\ to = state
         /\ stage # "handle" => idx = 0 /\ err = "nil"

-----------------------------------------------------------------------------
(* The record that a restart will find *)

Midway == {"install", "reboot", "afterReboot", "commit", "rollback", "afterFirstCommit"}

Record ==
  /\ sd.name = "none" => sd = NoData
  /\ sd.name \notin {"rebootPauseRequested", "verifyReboot"}
  /\ sd.name \notin Midway => Settled
  /\ sd.name \in {"install", "afterReboot"} => Reversible
  /\ sd.name = "reboot" => Applied
  /\ sd.name = "commit" => Reversible \/ FirstCommitted
  /\ sd.name = "rollback" => Revertible
  /\ sd.name = "afterFirstCommit" => PastReturn
  /\ sd.name = "afterCommit" => Done
  /\ sd.name = "fetch" => "download" \notin seen
  /\ sd.name \in {"none"} \cup Reports => CleanedUp
  /\ sd.name \notin {"none"} \cup Reports =>
       (Sound /\ "download" \in seen => sd.info.types)

OutcomeInv == artifact.id <= dep /\ Place /\ Record

-----------------------------------------------------------------------------
(* Facts about the device and the states *)

(* A name is flagged broken in one way only. *)
LEMMA BrokenFact ==
  ASSUME TypeOK
  PROVE  Unbroken <=> ~(artifact.id = dep /\ artifact.broken)
<1>1. artifact \in [id : Nat, broken : BOOLEAN]
  BY DEF TypeOK
<1>2. CASE artifact.broken = TRUE
  BY <1>1, <1>2 DEF Unbroken, Broken
<1>3. CASE artifact.broken = FALSE
  BY <1>1, <1>3 DEF Unbroken, Broken
<1> QED
  BY <1>1, <1>2, <1>3

(* The fields of the states that the handlers construct. *)
LEMMA Fields ==
  /\ \A k : New(k).kind = k /\ New(k).wraps = "none" /\ New(k).status = "none"
  /\ \A st : /\ NewCleanup(st).kind = "cleanup" /\ NewCleanup(st).wraps = "none"
             /\ NewCleanup(st).status = st
  /\ \A st : /\ NewStatusReport(st).kind = "statusReport"
             /\ NewStatusReport(st).wraps = "none"
             /\ NewStatusReport(st).status = st
  /\ \A k, w, c : /\ NewControl(k, w, c).kind = k /\ NewControl(k, w, c).wraps = w
                  /\ NewControl(k, w, c).status = "none" /\ NewControl(k, w, c).pause = c
BY DEF New, NewCleanup, NewStatusReport, NewControl

(* A step that leaves payloads and deployment alone, and may flag the name. *)
Steady == /\ pay' = pay /\ dep' = dep
          /\ artifact' = artifact \/ artifact' = Broken
          /\ exposed \subseteq exposed'

(* It takes nothing away from what is known of the device. *)
LEMMA SteadyDevice ==
  ASSUME TypeOK, TypeOK', Steady
  PROVE  /\ Untouched => Untouched'
         /\ Applied => Applied'
         /\ OldName => OldName'
         /\ Reversible => Reversible'
         /\ PastReturn => PastReturn'
         /\ Done => Done'
         /\ FirstCommitted => FirstCommitted'
         /\ Sound' => Sound
         /\ Safe' => Safe
         /\ Sound' /\ Unbroken' => Sound /\ Unbroken
         /\ Settled => Settled'
         /\ Revertible => Revertible'
         /\ artifact.id <= dep => artifact'.id <= dep'
<1>1. \/ artifact'.id = artifact.id /\ artifact'.broken = artifact.broken
      \/ artifact'.id = dep /\ artifact'.broken = TRUE
  <2>1. Broken.id = dep /\ Broken.broken = TRUE
    BY DEF Broken
  <2> QED
    BY <2>1 DEF Steady
<1>2. dep' = dep /\ pay' = pay /\ dep \in Nat
  BY DEF Steady, TypeOK
<1>3. (Unbroken' => Unbroken)
  BY <1>1, <1>2, BrokenFact DEF Steady, Unbroken, Broken
<1>4. (Sound' => Sound) /\ (Safe' => Safe)
  BY DEF Steady, Sound, Safe
<1>5. OldName => OldName'
  BY <1>1, <1>2 DEF OldName
<1>6. /\ (AllClean <=> AllClean') /\ (AllInstalled <=> AllInstalled')
      /\ (AllCommitted <=> AllCommitted') /\ (NoneCommitted <=> NoneCommitted')
      /\ (FirstCommitted <=> FirstCommitted') /\ (RestApplied <=> RestApplied')
  BY <1>2 DEF AllClean, AllInstalled, AllCommitted, NoneCommitted, FirstCommitted, RestApplied
<1>7. artifact.id = dep => artifact'.id = dep'
  BY <1>1, <1>2
<1>8. artifact.id <= dep => artifact'.id <= dep'
  BY <1>1, <1>2
<1> QED
  BY <1>3, <1>4, <1>5, <1>6, <1>7, <1>8
  DEF Untouched, Applied, Reversible, PastReturn, Done, Settled, Revertible

(* A name that is flagged broken, or that could not be written, is beyond  *)
(* what the properties speak of.                                           *)
LEMMA SetBrokenEnds ==
  ASSUME SetBroken, pay' = pay, dep' = dep
  PROVE  Steady /\ ~(Sound' /\ Unbroken')
BY DEF SetBroken, Steady, NoFault, DbFault, Sound, Unbroken, Broken

(* What happens in a deployment is only forgotten with it. *)
Remembers == /\ "download" \in seen' => "download" \in seen
             /\ "cleanup" \in seen => "cleanup" \in seen'

(* Neither a step that leaves the name and the update's data in the record *)
(* alone ...                                                               *)
LEMMA RecordKept ==
  ASSUME TypeOK, TypeOK', Steady, Remembers, Record,
         sd'.name = sd.name, sd'.info = sd.info, sd.name = "none" => sd' = sd
  PROVE  Record'
<1>1. CleanedUp => CleanedUp'
  BY SteadyDevice DEF CleanedUp, Remembers
<1> QED
  BY <1>1, SteadyDevice DEF Record, Remembers, Reports, Midway

(* ... nor one that enters a state where it fits spoils the record. *)
LEMMA RecordStored ==
  ASSUME TypeOK, TypeOK', Steady, Remembers, NEW s, Fits(s), s.kind \in UpdateKinds,
         sd' = Stored(s.kind, upd, IncStoreCount)
  PROVE  Record'
<1>1. sd'.name = StoredName(s.kind) /\ sd'.info = upd
  BY DEF Stored
<1>2. CleanedUp => CleanedUp'
  BY SteadyDevice DEF CleanedUp, Remembers
<1>3. Untouched => Settled /\ Reversible
  BY DEF Untouched, Settled, Reversible, AllClean, NoneCommitted
<1>4. Applied => Reversible
  BY DEF Applied, Reversible, AllInstalled, NoneCommitted
<1>5. Done => Settled
  BY DEF Settled
<1>6. Carried => (Sound' /\ "download" \in seen' => upd.types)
  BY SteadyDevice DEF Carried, Remembers
<1>7. CASE Early(s) \/ s.kind = "install"
  <2>1. Untouched' /\ Settled' /\ Reversible'
    BY <1>3, <1>7, SteadyDevice DEF Fits
  <2> QED
    BY <1>1, <1>2, <1>6, <1>7, <2>1, SteadyDevice
    DEF Fits, Record, StoredName, UpdateKinds, WaitKinds, ControlKinds, Reports, Midway,
        Reverting, Late, Remembers
<1>8. CASE ~Early(s) /\ s.kind # "install"
  BY <1>1, <1>2, <1>4, <1>5, <1>6, <1>8, SteadyDevice
  DEF Fits, Record, StoredName, UpdateKinds, WaitKinds, ControlKinds, Reports, Midway,
      Reverting, Late, Early, Remembers
<1> QED
  BY <1>7, <1>8

(* Where each kind of state fits, after a step. *)
LEMMA FitsNext ==
  ASSUME NEW s, s.wraps = "none", s.status # "success"
  PROVE  /\ s.kind \in {"fetch", "fetchStoreRetry", "store"}
              /\ Untouched' /\ "download" \notin seen' => Fits(s)'
         /\ s.kind \in {"afterStore", "install"} /\ Untouched' /\ Carried' => Fits(s)'
         /\ s.kind \in {"rebootPauseRequested", "reboot", "verifyReboot", "afterReboot",
                        "preCommitRetry", "commit"}
              /\ Applied' /\ Carried' => Fits(s)'
         /\ s.kind = "afterFirstCommit" /\ PastReturn' /\ Carried' => Fits(s)'
         /\ s.kind = "afterCommit" /\ Done' /\ Carried' => Fits(s)'
         /\ s.kind = "rollback" /\ Revertible' /\ Carried'
              /\ (Sound' /\ Unbroken' => upd'.rollback = "yes") => Fits(s)'
         /\ s.kind \in Reverting /\ Settled' /\ Carried' => Fits(s)'
         /\ s.kind \in Reports /\ Settled' /\ CleanedUp' => Fits(s)'
         /\ s.kind = "idle" /\ Settled' /\ CleanedUp' /\ sd'.name \in {"none"} \cup Reports
              => Fits(s)'
         /\ s.kind \in {"checkWait", "updateCheck", "error"}
              /\ sd'.name \in {"none"} \cup Reports => Fits(s)'
         /\ s.kind = "init" /\ (sd'.name = "commit" => Revertible') => Fits(s)'
BY DEF Fits, Early, Late, Reverting, Reports, Between, UpdateKinds, WaitKinds, ControlKinds,
       Carried

(* A success is only carried by what is done. *)
LEMMA FitsSuccess ==
  ASSUME NEW s, s.wraps = "none", Done'
  PROVE  /\ s.kind = "cleanup" /\ Carried' => Fits(s)'
         /\ s.kind \in Reports /\ CleanedUp' => Fits(s)'
BY DEF Fits, Early, Late, Reverting, Reports, Between, UpdateKinds, WaitKinds, ControlKinds,
       Settled

(* A control state fits where the state that it wraps does. *)
LEMMA FitsControl ==
  ASSUME NEW k \in ControlKinds, NEW w \in Wrappable, NEW c, Carried',
         w = "install" => Untouched', w # "install" => Applied', c # "none" => Applied'
  PROVE  Fits(NewControl(k, w, c))'
<1> DEFINE s == NewControl(k, w, c)
<1>1. s.kind = k /\ s.wraps = w /\ s.status = "none" /\ s.pause = c
  BY Fields
<1> HIDE DEF s
<1>2. Fits(s)'
  BY <1>1 DEF Fits, Early, Late, Reverting, Reports, Between, UpdateKinds, WaitKinds,
     ControlKinds, Wrappable
<1> QED
  BY <1>2 DEF s

(* How the states of HandleError look. *)
LEMMA ErrorFields ==
  ASSUME NEW k, NEW r
  PROVE  /\ ErrorNext(k, r).wraps = "none" /\ ErrorNext(k, r).status # "success"
         /\ ErrorNext(k, r).kind \in {"cleanup", "updateError", "verifyRollbackReboot",
                                     "rollbackReboot", "rollback", "error"}
BY Fields DEF ErrorNext

(* What HandleError does to the artifact's name. *)
Flags(k) == IF ErrorBreaks(k, upd.rollback) THEN SetBroken
                                            ELSE UNCHANGED artifact /\ NoFault

(* It leaves the device as it is. *)
LEMMA FlagsSteady ==
  ASSUME NEW k, Flags(k), pay' = pay, dep' = dep
  PROVE  /\ Steady
         /\ ErrorBreaks(k, upd.rollback) => ~(Sound' /\ Unbroken')
         /\ ~ErrorBreaks(k, upd.rollback) => exposed' = exposed /\ artifact' = artifact
BY SetBrokenEnds DEF Flags, Steady, NoFault

(* The states before the commit can be rolled back, and are flagged where  *)
(* the payloads cannot.                                                    *)
LEMMA ErrorBeforeCommit ==
  ASSUME TypeOK, TypeOK', NEW k \in {"install", "rebootPauseRequested", "reboot",
                                     "verifyReboot", "afterReboot", "commit"},
         Flags(k), pay' = pay, dep' = dep, to' = ErrorNext(k, upd.rollback),
         upd'.rollback = upd.rollback, Reversible, Carried'
  PROVE  Fits(to)'
<1>1. CASE upd.rollback = "yes"
  <2>1. to' = New("rollback")
    BY <1>1 DEF ErrorNext
  <2>2. Reversible'
    BY FlagsSteady, SteadyDevice
  <2>3. to'.kind = "rollback" /\ to'.wraps = "none" /\ to'.status = "none"
    BY <2>1, Fields
  <2> QED
    BY <1>1, <2>2, <2>3, FitsNext DEF Reversible, Revertible
<1>2. CASE upd.rollback # "yes"
  <2>1. to' = New("updateError")
    BY <1>2 DEF ErrorNext
  <2>2. to'.kind = "updateError" /\ to'.wraps = "none" /\ to'.status = "none"
    BY <2>1, Fields
  <2>3. ErrorBreaks(k, upd.rollback)
    BY <1>2, <2>1, <2>2 DEF ErrorBreaks
  <2> QED
    BY <2>2, <2>3, FlagsSteady, FitsNext DEF Settled, Reverting
<1> QED
  BY <1>1, <1>2

(* Nothing is lost of an update that was not installed yet. *)
LEMMA ErrorBeforeInstall ==
  ASSUME TypeOK, TypeOK', NEW k \in {"fetch", "store", "afterStore"},
         Flags(k), pay' = pay, dep' = dep, to' = ErrorNext(k, upd.rollback),
         Untouched, Carried'
  PROVE  Fits(to)'
<1>1. to' = New("updateError") \/ to' = NewCleanup("failure")
  BY DEF ErrorNext
<1>2. to'.kind \in Reverting /\ to'.wraps = "none" /\ to'.status # "success"
  BY <1>1, Fields DEF Reverting
<1>3. Settled'
  BY FlagsSteady, SteadyDevice DEF Settled
<1> QED
  BY <1>2, <1>3, FitsNext

(* An update that fails beyond the point of no return is flagged. *)
LEMMA ErrorPastReturn ==
  ASSUME TypeOK, TypeOK', NEW k \in {"afterFirstCommit", "afterCommit", "rollback"},
         Flags(k), pay' = pay, dep' = dep, to' = ErrorNext(k, upd.rollback), Carried'
  PROVE  Fits(to)'
<1>1. to' = New("updateError") \/ to' = NewCleanup("failure")
  BY DEF ErrorNext
<1>2. to'.kind \in Reverting /\ to'.wraps = "none" /\ to'.status # "success"
  BY <1>1, Fields DEF Reverting
<1>3. Settled'
  BY FlagsSteady DEF Settled, ErrorBreaks
<1> QED
  BY <1>2, <1>3, FitsNext

(* From inside a handler to the next state. *)
LEMMA MovesOn ==
  ASSUME TypeOK, TypeOK', OutcomeInv, Steady, stage = "handle", state' = state,
         stage' = "transition", idx' = 0, err' = "nil", Record', Fits(to)',
         state.kind \in {"afterStore", "install", "verifyReboot", "afterReboot", "afterCommit"}
           => Carried',
         state.kind = "updateCheck" => sd' = sd,
         to'.kind = "fetchStoreRetry" => state.kind = "fetch",
         to'.kind = "preCommitRetry" => state.kind = "commit"
  PROVE  OutcomeInv'
<1>1. Inside
  BY DEF OutcomeInv, Place
<1>2. state.kind = "afterStore" => Untouched
  BY <1>1 DEF Inside, InStore, InInstall, InCommit, InRest, InRollback, Fits, Early
<1>3. state.kind = "install" => Reversible
  BY <1>1 DEF Inside, InStore, InInstall, InCommit, InRest, InRollback, Fits, Untouched,
     Reversible, AllClean, NoneCommitted
<1>4. state.kind \in {"verifyReboot", "afterReboot"} => Reversible
  BY <1>1 DEF Inside, InStore, InInstall, InCommit, InRest, InRollback, Fits, Late, Applied,
     Reversible, AllInstalled, NoneCommitted
<1>5. state.kind = "updateCheck" => sd.name \in {"none"} \cup Reports
  BY <1>1 DEF Inside, InStore, InInstall, InCommit, InRest, InRollback, Fits, Between
<1>6. Left'
  BY <1>2, <1>3, <1>4, <1>5, SteadyDevice DEF Left
<1>7. artifact'.id <= dep'
  BY SteadyDevice DEF OutcomeInv
<1> QED
  BY <1>6, <1>7 DEF OutcomeInv, Place

(* What a handler may rely on. *)
LEMMA Handling ==
  ASSUME OutcomeInv, stage = "handle"
  PROVE  /\ state.kind \in {"fetch", "fetchStoreRetry"}
              => Untouched /\ "download" \notin seen
         /\ state.kind = "store"
              => Untouched /\ Carried /\ (idx = 0 => "download" \notin seen)
         /\ state.kind = "afterStore" => Untouched /\ Carried
         /\ state.kind \in ControlKinds =>
              /\ Carried
              /\ state.wraps = "install" => Untouched
              /\ state.wraps \in {"reboot", "commit"} \/ state.pause # "none" => Applied
         /\ state.kind = "install" => OldName /\ Carried /\ (idx = 0 => Untouched)
         /\ state.kind \in {"rebootPauseRequested", "reboot", "verifyReboot", "afterReboot",
                            "preCommitRetry"} => Applied /\ Carried
         /\ state.kind = "commit" => OldName /\ Carried /\ (idx # 2 => Applied)
         /\ state.kind = "afterCommit" => Done /\ Carried
         /\ state.kind \in Reverting => Settled /\ Carried
         /\ state.kind \in Reports \cup {"idle"} => Settled /\ CleanedUp
         /\ state.kind \in Reports \cup {"cleanup"} /\ state.status = "success" => Done
         /\ state.kind \in Reports => state.wraps = "none"
         /\ state.kind \in Between => sd.name \in {"none"} \cup Reports
<1>1. Inside
  BY DEF OutcomeInv, Place
<1>2. CASE InStore \/ InInstall \/ InCommit
  BY <1>1, <1>2 DEF Inside, InStore, InInstall, InCommit, InRest, InRollback, Reverting,
     Reports, Between, ControlKinds
<1>3. CASE InRest \/ InRollback
  BY <1>1, <1>3 DEF Inside, InRest, InRollback, Reverting, Reports, Between, ControlKinds
<1>4. CASE ~InStore /\ ~InInstall /\ ~InCommit /\ ~InRest /\ ~InRollback
  <2>1. Fits(state)
    BY <1>1, <1>4 DEF Inside
  <2>2. (Untouched => OldName) /\ (Applied => OldName)
    BY DEF Untouched, Applied
  <2> QED
    BY <2>1, <2>2 DEF Fits, Early, Late, Reverting, Reports, Between, UpdateKinds, WaitKinds,
       ControlKinds
<1> QED
  BY <1>2, <1>3, <1>4

(* The payload handlers at hand, and the cleanup done, are kept. *)
LEMMA CarriedKept ==
  ASSUME TypeOK, TypeOK', Steady, Remembers
  PROVE  /\ Carried /\ inst' = inst /\ upd'.types = upd.types => Carried'
         /\ CleanedUp => CleanedUp'
BY SteadyDevice DEF Carried, CleanedUp, Remembers

(* What fitted fits still. *)
LEMMA FitsKept ==
  ASSUME TypeOK, TypeOK', Steady, Remembers, NEW s, Fits(s),
         sd'.name = sd.name \/ s.kind \in UpdateKinds,
         inst' = inst, upd'.types = upd.types, upd'.rollback = upd.rollback
  PROVE  Fits(s)'
BY SteadyDevice, CarriedKept DEF Fits, Early, Late, Remembers, UpdateKinds, Between

(* A step that leaves the record alone. *)
LEMMA RecordSame ==
  ASSUME TypeOK, TypeOK', OutcomeInv, Steady, Remembers, sd' = sd
  PROVE  Record'
BY RecordKept DEF OutcomeInv

(* The same, where the payload handlers and the update stay what they are. *)
LEMMA Moves ==
  ASSUME TypeOK, TypeOK', OutcomeInv, Steady, Remembers, stage = "handle", state' = state,
         stage' = "transition", idx' = 0, err' = "nil", Record', Fits(to)',
         state.kind \in {"afterStore", "install", "verifyReboot", "afterReboot", "afterCommit"}
           => upd'.types = upd.types /\ inst' = inst,
         state.kind = "updateCheck" => sd' = sd,
         to'.kind = "fetchStoreRetry" => state.kind = "fetch",
         to'.kind = "preCommitRetry" => state.kind = "commit"
  PROVE  OutcomeInv'
<1>1. state.kind \in {"afterStore", "install", "verifyReboot", "afterReboot", "afterCommit"}
        => Carried'
  BY Handling, CarriedKept
<1> QED
  BY <1>1, MovesOn

(* The fields of UpdateInfo that a handler sets, and those it leaves. *)
LEMMA UpdFields ==
  ASSUME TypeOK
  PROVE  /\ [upd EXCEPT !.types = TRUE].types = TRUE
         /\ [upd EXCEPT !.types = TRUE].rollback = upd.rollback
         /\ \A r : [upd EXCEPT !.rollback = r].types = upd.types
         /\ \A r : /\ [upd EXCEPT !.reboots = r].types = upd.types
                   /\ [upd EXCEPT !.reboots = r].rollback = upd.rollback
         /\ \A n : /\ [upd EXCEPT !.attempts = n].types = upd.types
                   /\ [upd EXCEPT !.attempts = n].rollback = upd.rollback
BY DEF TypeOK, UpdateInfos

(* The loop breaker always fits. *)
LEMMA BreakLoopFits ==
  ASSUME BreakLoop, pay' = pay, dep' = dep
  PROVE  /\ Steady /\ Fits(to)' /\ to'.kind = "statusReport"
         /\ state' = state /\ stage' = "transition" /\ idx' = 0 /\ err' = "nil"
         /\ ~(Sound' /\ Unbroken')
<1>1. Steady /\ ~(Sound' /\ Unbroken') /\ Goto(NewStatusReport("failure"))
  BY SetBrokenEnds DEF BreakLoop
<1>2. to'.kind = "statusReport" /\ to'.wraps = "none" /\ to'.status = "failure"
  BY <1>1, Fields DEF Goto
<1>3. Settled' /\ CleanedUp'
  BY <1>1 DEF Settled, CleanedUp
<1> QED
  BY <1>1, <1>2, <1>3, FitsNext DEF Goto, Reports

(* The payloads are untouched while they are downloaded. *)
LEMMA DownloadOutcome ==
  ASSUME TypeOK, TypeOK', AbortInv, OutcomeInv, Download
  PROVE  OutcomeInv'
<1>1. CASE HandleFetch
  <2>1. Untouched /\ "download" \notin seen /\ stage = "handle" /\ state.kind = "fetch"
    BY <1>1, Handling DEF HandleFetch, At
  <2>2. Steady /\ sd' = sd
    BY <1>1 DEF HandleFetch, Steady, disk
  <2>3. Remembers /\ "download" \notin seen'
    BY <1>1, <2>1 DEF HandleFetch, Remembers, Learn
  <2>4. PICK s : Goto(s) /\ s \in {NewStatusReport("failure"), New("store"),
                                  New("fetchStoreRetry")}
    BY <1>1 DEF HandleFetch
  <2>5. /\ s.kind \in {"statusReport", "store", "fetchStoreRetry"}
        /\ s.wraps = "none" /\ s.status # "success"
    BY <2>4, Fields
  <2>6. Untouched' /\ Settled' /\ CleanedUp'
    BY <2>1, <2>2, <2>3, SteadyDevice DEF Settled, CleanedUp
  <2>7. Fits(s)'
    BY <2>3, <2>5, <2>6, FitsNext DEF Reports
  <2> QED
    BY <2>1, <2>2, <2>3, <2>4, <2>5, <2>7, RecordSame, Moves DEF Goto
<1>2. CASE HandleFetchStoreRetry
  <2>1. Untouched /\ "download" \notin seen /\ stage = "handle"
        /\ state.kind = "fetchStoreRetry"
    BY <1>2, Handling DEF HandleFetchStoreRetry, At
  <2>2. Steady /\ sd' = sd /\ seen' = seen
    BY <1>2 DEF HandleFetchStoreRetry, Steady, disk, world
  <2>3. PICK s : Goto(s) /\ s \in {New("updateError"), New("fetch")}
    BY <1>2 DEF HandleFetchStoreRetry
  <2>4. /\ s.kind \in {"updateError", "fetch"} /\ s.wraps = "none" /\ s.status # "success"
    BY <2>3, Fields
  <2>5. Untouched' /\ Settled' /\ Carried'
    BY <2>1, <2>2, SteadyDevice DEF Settled, Carried
  <2>6. Fits(s)'
    BY <2>1, <2>2, <2>4, <2>5, FitsNext DEF Reverting
  <2> QED
    BY <2>1, <2>2, <2>3, <2>4, <2>6, RecordSame, Moves DEF Goto, Remembers
<1>3. CASE HandleStoreRejected
  <2>1. Untouched /\ "download" \notin seen /\ stage = "handle" /\ state.kind = "store"
    BY <1>3, Handling DEF HandleStoreRejected, At
  <2>2. Steady /\ sd' = sd
    BY <1>3 DEF HandleStoreRejected, Steady, disk
  <2>3. Remembers /\ "download" \notin seen'
    BY <1>3, <2>1 DEF HandleStoreRejected, Remembers, Learn
  <2>4. PICK s : Goto(s) /\ s \in {NewStatusReport("failure"), NewCleanup("failure")}
    BY <1>3 DEF HandleStoreRejected
  <2>5. /\ s.kind \in {"statusReport", "cleanup"} /\ s.wraps = "none"
        /\ s.status # "success"
    BY <2>4, Fields
  <2>6. Settled' /\ CleanedUp' /\ Carried'
    BY <2>1, <2>2, <2>3, SteadyDevice DEF Settled, CleanedUp, Carried
  <2>7. Fits(s)'
    BY <2>5, <2>6, FitsNext DEF Reports, Reverting
  <2> QED
    BY <2>1, <2>2, <2>3, <2>4, <2>5, <2>7, RecordSame, Moves DEF Goto
<1>4. CASE HandleStorePayloads
  <2>1. Untouched /\ stage = "handle" /\ state.kind = "store" /\ sd.name = "store" /\ Record
    BY <1>4, Handling
    DEF HandleStorePayloads, At, AbortInv, HandledIsStored, UpdateKinds, StoredName, OutcomeInv
  <2>2. pay' = pay /\ dep' = dep /\ Carried'
    BY <1>4, UpdFields DEF HandleStorePayloads, Carried
  <2>3. \/ BreakLoop
        \/ /\ artifact' = artifact /\ exposed \subseteq exposed'
           /\ \/ Goto(NewCleanup("failure"))
              \/ idx' = 1 /\ UNCHANGED <<state, to, stage, err>>
    BY <1>4 DEF HandleStorePayloads, NoFault, DbFault
  <2>4. Steady
    BY <2>2, <2>3, BreakLoopFits DEF Steady
  <2>5. Untouched' /\ Settled'
    BY <2>1, <2>4, SteadyDevice DEF Settled
  <2>6. sd'.name = "store" /\ (Sound' /\ "download" \in seen' => sd'.info.types)
    <3>1. CASE sd' = Stored("store", upd', 1)
      BY <1>4, <3>1, UpdFields DEF HandleStorePayloads, Stored, StoredName
    <3>2. CASE DbFault /\ UNCHANGED sd
      BY <2>1, <3>2 DEF DbFault, Sound
    <3> QED
      BY <1>4, <3>1, <3>2 DEF HandleStorePayloads
  <2>7. Record'
    BY <2>5, <2>6 DEF Record, Reports, Midway
  <2>8. CASE BreakLoop
    BY <2>1, <2>2, <2>7, <2>8, BreakLoopFits, MovesOn
  <2>9. CASE Goto(NewCleanup("failure"))
    <3>1. /\ NewCleanup("failure").kind = "cleanup" /\ NewCleanup("failure").wraps = "none"
          /\ NewCleanup("failure").status = "failure"
      BY Fields
    <3>2. Fits(NewCleanup("failure"))'
      BY <2>2, <2>5, <3>1, FitsNext DEF Reverting
    <3> QED
      BY <2>1, <2>4, <2>7, <2>9, <3>1, <3>2, MovesOn DEF Goto
  <2>10. CASE idx' = 1 /\ UNCHANGED <<state, to, stage, err>>
    <3>1. InStore' /\ ~InInstall' /\ ~InCommit' /\ ~InRest' /\ ~InRollback'
      BY <2>1, <2>10 DEF InStore, InInstall, InCommit, InRest, InRollback
    <3>2. Inside'
      BY <2>2, <2>5, <3>1 DEF Inside
    <3>3. artifact'.id <= dep'
      BY <2>4, SteadyDevice DEF OutcomeInv
    <3> QED
      BY <2>1, <2>7, <2>10, <3>2, <3>3 DEF OutcomeInv, Place
  <2> QED
    BY <2>3, <2>8, <2>9, <2>10
<1>5. CASE HandleSupportsRollback
  <2>1. Untouched /\ Carried /\ stage = "handle" /\ state.kind = "store"
        /\ sd.name = "store" /\ Record
    BY <1>5, Handling
    DEF HandleSupportsRollback, At, AbortInv, HandledIsStored, UpdateKinds, StoredName,
        OutcomeInv
  <2>2. pay' = pay /\ dep' = dep /\ inst' = inst /\ seen' = seen
    BY <1>5 DEF HandleSupportsRollback
  <2>3. upd'.types = upd.types
    BY <1>5, UpdFields, ZenonT(60) DEF HandleSupportsRollback
  <2>4. \/ BreakLoop
        \/ /\ artifact' = artifact /\ exposed \subseteq exposed'
           /\ \/ Goto(New("updateError"))
              \/ idx' = 2 /\ UNCHANGED <<state, to, stage, err>>
    BY <1>5 DEF HandleSupportsRollback, NoFault, DbFault, disk
  <2>5. Steady
    BY <2>2, <2>4, BreakLoopFits DEF Steady
  <2>6. Untouched' /\ Settled' /\ Carried'
    BY <2>1, <2>2, <2>3, <2>5, SteadyDevice, CarriedKept DEF Settled, Remembers
  <2>7. sd'.name = "store" /\ (Sound' /\ "download" \in seen' => sd'.info.types)
    <3>1. CASE sd' = Stored("store", upd', 1)
      BY <2>6, <3>1 DEF Stored, StoredName, Carried
    <3>2. CASE UNCHANGED sd
      BY <2>1, <2>2, <2>5, <3>2, SteadyDevice DEF Record, Reports
    <3> QED
      BY <1>5, <3>1, <3>2 DEF HandleSupportsRollback, disk
  <2>8. Record'
    BY <2>6, <2>7 DEF Record, Reports, Midway
  <2>9. CASE BreakLoop
    BY <2>1, <2>2, <2>8, <2>9, BreakLoopFits, MovesOn
  <2>10. CASE Goto(New("updateError"))
    <3>1. /\ New("updateError").kind = "updateError" /\ New("updateError").wraps = "none"
          /\ New("updateError").status = "none"
      BY Fields
    <3>2. Fits(New("updateError"))'
      BY <2>6, <3>1, FitsNext DEF Reverting
    <3> QED
      BY <2>1, <2>5, <2>8, <2>10, <3>1, <3>2, MovesOn DEF Goto
  <2>11. CASE idx' = 2 /\ UNCHANGED <<state, to, stage, err>>
    <3>1. InStore' /\ ~InInstall' /\ ~InCommit' /\ ~InRest' /\ ~InRollback'
      BY <2>1, <2>11 DEF InStore, InInstall, InCommit, InRest, InRollback
    <3>2. Inside'
      BY <2>6, <3>1 DEF Inside
    <3>3. artifact'.id <= dep'
      BY <2>5, SteadyDevice DEF OutcomeInv
    <3> QED
      BY <2>1, <2>8, <2>11, <3>2, <3>3 DEF OutcomeInv, Place
  <2> QED
    BY <2>4, <2>9, <2>10, <2>11
<1>6. CASE HandleStoreEnd
  <2>1. Untouched /\ Carried /\ stage = "handle" /\ state.kind = "store"
    BY <1>6, Handling DEF HandleStoreEnd, At
  <2>2. Steady /\ sd' = sd /\ inst' = inst /\ upd' = upd
    BY <1>6 DEF HandleStoreEnd, Steady, disk
  <2>3. Remembers
    BY <1>6 DEF HandleStoreEnd, Remembers, Learn
  <2>4. PICK s : Goto(s) /\ s \in {New("updateError"), New("afterStore")}
    BY <1>6 DEF HandleStoreEnd
  <2>5. /\ s.kind \in {"updateError", "afterStore"} /\ s.wraps = "none"
        /\ s.status # "success"
    BY <2>4, Fields
  <2>6. Untouched' /\ Settled' /\ Carried'
    BY <2>1, <2>2, <2>3, SteadyDevice, CarriedKept DEF Settled
  <2>7. Fits(s)'
    BY <2>5, <2>6, FitsNext DEF Reverting
  <2> QED
    BY <2>1, <2>2, <2>3, <2>4, <2>5, <2>7, RecordSame, Moves DEF Goto
<1>7. CASE HandleAfterStore
  <2>1. Untouched /\ Carried /\ stage = "handle" /\ state.kind = "afterStore"
    BY <1>7, Handling DEF HandleAfterStore, At
  <2>2. Steady /\ sd' = sd /\ inst' = inst /\ upd' = upd /\ Remembers
    BY <1>7 DEF HandleAfterStore, Steady, disk, world, Remembers
  <2>3. Untouched' /\ Carried'
    BY <2>1, <2>2, SteadyDevice, CarriedKept
  <2>4. /\ Fits(NewControl("fetchControlMap", "install", "none"))'
        /\ NewControl("fetchControlMap", "install", "none").kind = "fetchControlMap"
    BY <2>3, FitsControl, Fields DEF ControlKinds, Wrappable
  <2> QED
    BY <1>7, <2>1, <2>2, <2>4, RecordSame, Moves DEF HandleAfterStore, Goto
<1> QED
  BY <1>1, <1>2, <1>3, <1>4, <1>5, <1>6, <1>7 DEF Download

(* From a control state: to another, to the state it wraps or to its       *)
(* error state.                                                            *)
LEMMA ControlMoves ==
  ASSUME TypeOK, TypeOK', OutcomeInv, stage = "handle", state.kind \in ControlKinds,
         sd' = sd, pay' = pay, dep' = dep, inst' = inst, upd' = upd, Remembers,
         \/ /\ exposed' = exposed /\ artifact' = artifact
            /\ \/ Goto(New(state.wraps))
               \/ state.pause # "none" /\ Goto(New(state.pause))
               \/ \E k \in ControlKinds, c \in {"none", state.pause} :
                    Goto(NewControl(k, state.wraps, c))
         \/ HandleError(state.wraps)
  PROVE  OutcomeInv'
<1>1. state.wraps \in Wrappable /\ state.pause \in PauseStates
  BY ControlFields
<1>2. /\ Carried /\ (state.wraps = "install" => Untouched)
      /\ (state.wraps # "install" \/ state.pause # "none" => Applied)
  BY <1>1, Handling DEF Wrappable
<1>3. Reversible
  BY <1>2 DEF Untouched, Applied, Reversible, AllClean, AllInstalled, NoneCommitted
<1>4. Steady
  BY FlagsSteady DEF HandleError, Flags, Steady
<1>5. /\ Carried' /\ (state.wraps = "install" => Untouched')
      /\ (state.wraps # "install" \/ state.pause # "none" => Applied')
  BY <1>2, <1>4, SteadyDevice, CarriedKept
<1>6. Fits(to)' /\ to'.kind \notin {"fetchStoreRetry", "preCommitRetry"}
  <2>1. CASE Goto(New(state.wraps))
    BY <1>1, <1>5, <2>1, Fields, FitsNext DEF Goto, Wrappable
  <2>2. CASE state.pause # "none" /\ Goto(New(state.pause))
    BY <1>1, <1>5, <2>2, Fields, FitsNext DEF Goto, PauseStates
  <2>3. CASE \E k \in ControlKinds, c \in {"none", state.pause} :
               Goto(NewControl(k, state.wraps, c))
    <3>1. PICK k \in ControlKinds, c \in {"none", state.pause} :
                 Goto(NewControl(k, state.wraps, c))
      BY <2>3
    <3>2. PICK w \in Wrappable : w = state.wraps
      BY <1>1
    <3>3. Fits(NewControl(k, w, c))'
      BY <1>5, <3>2, FitsControl DEF Wrappable
    <3>4. to' = NewControl(k, w, c)
      BY <3>1, <3>2 DEF Goto
    <3> QED
      BY <3>3, <3>4, Fields DEF ControlKinds
  <2>4. CASE HandleError(state.wraps)
    <3>1. Flags(state.wraps) /\ to' = ErrorNext(state.wraps, upd.rollback)
      BY <2>4 DEF HandleError, Flags, Goto
    <3>2. state.wraps \in {"install", "reboot", "commit"}
      BY <1>1 DEF Wrappable
    <3> QED
      BY <1>3, <1>5, <3>1, <3>2, ErrorBeforeCommit, ErrorFields
  <2> QED
    BY <2>1, <2>2, <2>3, <2>4
<1>7. Record'
  BY <1>4, RecordSame
<1> QED
  BY <1>4, <1>5, <1>6, <1>7, MovesOn DEF Goto, HandleError

(* Waiting for the server's word changes nothing. *)
LEMMA ControlOutcome ==
  ASSUME TypeOK, TypeOK', AbortInv, OutcomeInv, Control
  PROVE  OutcomeInv'
<1>1. CASE HandleFetchControlMap
  BY <1>1, ControlMoves DEF HandleFetchControlMap, At, ControlKinds, Remembers, NoFault
<1>2. CASE HandleFetchRetryControlMap
  BY <1>2, ControlMoves DEF HandleFetchRetryControlMap, At, ControlKinds, Remembers, NoFault
<1>3. CASE HandleControlMapContinue
  BY <1>3, ControlMoves DEF HandleControlMapContinue, At, ControlKinds, Remembers, disk, world
<1>4. CASE HandleControlMapPauseAction
  BY <1>4, ControlMoves
  DEF HandleControlMapPauseAction, At, ControlKinds, Remembers, NoFault, Learn
<1>5. CASE HandleControlMapFail
  BY <1>5, ControlMoves DEF HandleControlMapFail, At, ControlKinds, Remembers
<1>6. CASE HandleControlMapPause
  BY <1>6, ControlMoves DEF HandleControlMapPause, At, ControlKinds, Remembers, disk, world
<1>7. CASE HandleRebootPauseRequested
  <2>1. Applied /\ Carried /\ stage = "handle" /\ state.kind = "rebootPauseRequested"
    BY <1>7, Handling DEF HandleRebootPauseRequested, At
  <2>2. Steady /\ sd' = sd /\ inst' = inst /\ upd' = upd /\ Remembers
    BY <1>7 DEF HandleRebootPauseRequested, Steady, disk, world, Remembers
  <2>3. Applied' /\ Carried'
    BY <2>1, <2>2, SteadyDevice, CarriedKept
  <2>4. /\ Fits(NewControl("controlMap", "reboot", "none"))'
        /\ NewControl("controlMap", "reboot", "none").kind = "controlMap"
    BY <2>3, FitsControl, Fields DEF ControlKinds, Wrappable
  <2> QED
    BY <1>7, <2>1, <2>2, <2>4, RecordSame, Moves DEF HandleRebootPauseRequested, Goto
<1> QED
  BY <1>1, <1>2, <1>3, <1>4, <1>5, <1>6, <1>7 DEF Control

(* From a handler before the commit to its error state. *)
LEMMA ErrorMoves ==
  ASSUME TypeOK, TypeOK', OutcomeInv, stage = "handle", Reversible, Carried, Remembers,
         NEW k \in {"install", "rebootPauseRequested", "reboot", "verifyReboot",
                    "afterReboot", "commit"},
         HandleError(k), sd' = sd, pay' = pay, dep' = dep, inst' = inst,
         upd'.rollback = upd.rollback, upd'.types = upd.types
  PROVE  OutcomeInv'
<1>1. Flags(k) /\ Goto(ErrorNext(k, upd.rollback))
  BY DEF HandleError, Flags
<1>2. Steady
  BY <1>1, FlagsSteady
<1>3. Carried' /\ Record'
  BY <1>2, CarriedKept, RecordSame
<1>4. Fits(to)' /\ to'.kind \notin {"fetchStoreRetry", "preCommitRetry"}
  BY <1>1, <1>3, ErrorBeforeCommit, ErrorFields DEF Goto
<1> QED
  BY <1>1, <1>2, <1>3, <1>4, MovesOn DEF Goto

(* After a failed write every error state fits: the hole is recorded. *)
LEMMA DbErrorFits ==
  ASSUME DbFault, NEW k, NEW r, to' = ErrorNext(k, r), to'.kind # "error"
  PROVE  Fits(to)' /\ ~Sound' /\ ~Safe' /\ Settled' /\ Revertible' /\ Carried'
<1>1. ~Sound' /\ ~Safe'
  BY DEF DbFault, Sound, Safe
<1>2. Settled' /\ Revertible' /\ Carried'
  BY <1>1 DEF Settled, Revertible, Carried
<1>3. /\ to'.wraps = "none" /\ to'.status # "success"
      /\ to'.kind \in Reverting \cup {"rollback"}
  BY ErrorFields DEF Reverting
<1> QED
  BY <1>1, <1>2, <1>3, FitsNext

(* A restart: the record is all that is left, and a restart in the commit  *)
(* window is recorded as one.                                              *)
LEMMA BootOutcome ==
  ASSUME TypeOK, TypeOK', OutcomeInv, Boot, seen' = seen, exposed \subseteq exposed',
         sd.name # "commit" \/ (InCommitWindow => "commitWindow" \in exposed')
  PROVE  OutcomeInv'
<1>1. Steady /\ sd' = sd /\ Remembers
  BY DEF Boot, Steady, disk, Remembers
<1>2. Record' /\ artifact'.id <= dep'
  BY <1>1, RecordSame, SteadyDevice DEF OutcomeInv
<1>3. sd'.name = "commit" => Revertible'
  <2>1. ASSUME sd.name = "commit"
        PROVE  Revertible'
    <3>1. Reversible \/ FirstCommitted
      BY <2>1 DEF OutcomeInv, Record
    <3>2. CASE Reversible
      BY <1>1, <3>2, SteadyDevice DEF Reversible, Revertible
    <3>3. CASE FirstCommitted /\ N > 0
      <4>1. InCommitWindow
        BY <2>1, <3>3, SizesAssumption DEF InCommitWindow, FirstCommitted
      <4>2. "commitWindow" \in exposed'
        BY <2>1, <4>1
      <4> QED
        BY <4>2 DEF Revertible, Safe, Sound
    <3>4. CASE N = 0
      BY <3>4 DEF Revertible, NoneCommitted, OldName
    <3> QED
      BY <3>1, <3>2, <3>3, <3>4, SizesAssumption
  <2> QED
    BY <1>1, <2>1
<1>4. stage' = "handle" /\ state' = New("init") /\ to' = New("init") /\ idx' = 0
  BY DEF Boot
<1>5. state'.kind = "init" /\ state'.wraps = "none" /\ state'.status = "none"
  BY <1>4, Fields
<1>6. Fits(state)'
  BY <1>3, <1>5, FitsNext
<1>7. Inside'
  BY <1>5, <1>6 DEF Inside, InStore, InInstall, InCommit, InRest, InRollback
<1> QED
  BY <1>2, <1>4, <1>7 DEF OutcomeInv, Place

(* Installing, rebooting and verifying: nothing is committed yet. *)
LEMMA ApplyOutcome ==
  ASSUME TypeOK, TypeOK', AbortInv, OutcomeInv, Apply
  PROVE  OutcomeInv'
<1>1. CASE HandleInstallBegin
  <2>1. Untouched /\ Carried /\ stage = "handle" /\ state.kind = "install"
    BY <1>1, Handling DEF HandleInstallBegin, At
  <2>2. pay' = pay /\ dep' = dep /\ inst' = inst /\ upd' = upd /\ sd' = sd /\ Remembers
    BY <1>1 DEF HandleInstallBegin, Remembers, Learn
  <2>3. \/ /\ artifact' = artifact /\ exposed' = exposed
           /\ \/ Goto(New("updateError"))
              \/ idx' = 1 /\ UNCHANGED <<state, to, stage, err>>
        \/ HandleError("install")
    BY <1>1 DEF HandleInstallBegin, NoFault
  <2>4. Steady
    BY <2>2, <2>3, FlagsSteady DEF HandleError, Flags, Steady
  <2>5. Untouched' /\ Settled' /\ Carried' /\ Record'
    BY <2>1, <2>2, <2>4, SteadyDevice, CarriedKept, RecordSame DEF Settled
  <2>6. CASE Goto(New("updateError"))
    <3>1. to'.kind = "updateError" /\ to'.wraps = "none" /\ to'.status = "none"
      BY <2>6, Fields DEF Goto
    <3> QED
      BY <2>1, <2>4, <2>5, <2>6, <3>1, FitsNext, MovesOn DEF Reverting, Goto
  <2>7. CASE HandleError("install")
    BY <2>1, <2>2, <2>7, ErrorMoves DEF Untouched, Reversible, AllClean, NoneCommitted
  <2>8. CASE idx' = 1 /\ UNCHANGED <<state, to, stage, err>>
    <3>1. InInstall' /\ ~InStore' /\ ~InCommit' /\ ~InRest' /\ ~InRollback'
      BY <2>1, <2>8 DEF InStore, InInstall, InCommit, InRest, InRollback
    <3>2. \A p \in 1..N : pay'[p] = IF p < idx' THEN "installed" ELSE "clean"
      BY <2>5, <2>8, SizesAssumption DEF Untouched, AllClean
    <3>3. Inside'
      BY <2>5, <3>1, <3>2 DEF Inside, Untouched
    <3>4. artifact'.id <= dep'
      BY <2>4, SteadyDevice DEF OutcomeInv
    <3> QED
      BY <2>1, <2>5, <2>8, <3>3, <3>4 DEF OutcomeInv, Place
  <2> QED
    BY <2>3, <2>6, <2>7, <2>8
<1>2. CASE HandleInstallPayload
  <2>1. /\ OldName /\ Carried /\ stage = "handle" /\ state.kind = "install"
        /\ sd.name = "install" /\ Record /\ idx \in 1..N /\ Inside /\ to = state
        /\ artifact.id <= dep
    BY <1>2, Handling
    DEF HandleInstallPayload, At, AbortInv, HandledIsStored, UpdateKinds, StoredName,
        OutcomeInv, Place
  <2>2. /\ dep' = dep /\ inst' = inst /\ upd' = upd /\ sd' = sd /\ seen' = seen
        /\ pay' = [pay EXCEPT ![idx] = "installed"] /\ pay \in [1..N -> PayStates]
    BY <1>2 DEF HandleInstallPayload, TypeOK
  <2>3. \A p \in 1..N : pay[p] = IF p < idx THEN "installed" ELSE "clean"
    BY <2>1 DEF Inside, InInstall
  <2>4. \A p \in 1..N : pay'[p] = IF p < idx + 1 THEN "installed" ELSE "clean"
    BY <2>1, <2>2, <2>3, SizesAssumption
  <2>5. NoneCommitted'
    BY <2>4 DEF NoneCommitted
  <2>6. CASE idx' = idx + 1 /\ UNCHANGED <<state, to, stage, err, artifact>> /\ NoFault
    <3>1. OldName' /\ Carried' /\ artifact'.id <= dep' /\ Reversible'
      BY <2>1, <2>2, <2>5, <2>6 DEF OldName, Carried, Sound, NoFault, Reversible
    <3>2. InInstall' /\ ~InStore' /\ ~InCommit' /\ ~InRest' /\ ~InRollback'
      BY <2>1, <2>6 DEF InStore, InInstall, InCommit, InRest, InRollback
    <3>3. Inside'
      BY <2>4, <2>6, <3>1, <3>2 DEF Inside
    <3>4. Record'
      BY <2>1, <2>2, <2>6, <3>1 DEF Record, Midway, Reports, Sound, NoFault
    <3> QED
      BY <2>1, <2>6, <3>1, <3>3, <3>4 DEF OutcomeInv, Place
  <2>7. CASE HandleError("install")
    <3>1. Flags("install") /\ Goto(ErrorNext("install", upd.rollback))
      BY <2>7 DEF HandleError, Flags
    <3>2. /\ exposed \subseteq exposed'
          /\ artifact' = artifact \/ artifact' = Broken
          /\ ErrorBreaks("install", upd.rollback) => ~(Sound' /\ Unbroken')
      BY <2>2, <3>1 DEF Flags, SetBroken, NoFault, DbFault, Sound, Unbroken, Broken
    <3>3. OldName' /\ Carried' /\ artifact'.id <= dep' /\ Reversible'
      <4>1. Broken.id = dep /\ Broken.broken = TRUE
        BY DEF Broken
      <4>2. dep \in Nat
        BY DEF TypeOK
      <4>3. OldName' /\ artifact'.id <= dep'
        BY <2>1, <2>2, <3>2, <4>1, <4>2 DEF OldName
      <4>4. Carried'
        BY <2>1, <2>2, <3>2 DEF Carried, Sound
      <4> QED
        BY <2>5, <4>3, <4>4 DEF Reversible
    <3>4. Fits(to)' /\ to'.kind \notin {"fetchStoreRetry", "preCommitRetry"}
      <4>1. CASE upd.rollback = "yes"
        <5>1. to' = New("rollback")
          BY <3>1, <4>1 DEF ErrorNext, Goto
        <5> QED
          BY <2>2, <3>3, <4>1, <5>1, Fields, FitsNext DEF Revertible, Reversible
      <4>2. CASE upd.rollback # "yes"
        <5>1. to' = New("updateError") /\ ErrorBreaks("install", upd.rollback)
          BY <3>1, <4>2, Fields DEF ErrorNext, ErrorBreaks, Goto
        <5> QED
          BY <3>2, <3>3, <5>1, Fields, FitsNext DEF Settled, Reverting
      <4> QED
        BY <4>1, <4>2
    <3>5. Record'
      BY <2>1, <2>2, <3>2, <3>3 DEF Record, Midway, Reports, Sound
    <3>6. Left'
      BY <2>1, <3>1, <3>3, <3>4 DEF Left, Goto
    <3> QED
      BY <3>1, <3>3, <3>4, <3>5, <3>6 DEF OutcomeInv, Place, Goto
  <2> QED
    BY <1>2, <2>6, <2>7 DEF HandleInstallPayload
<1>3. CASE HandleRebootType
  <2>1. /\ OldName /\ Carried /\ stage = "handle" /\ state.kind = "install"
        /\ sd.name = "install" /\ Record /\ Inside /\ idx = N + 1
    BY <1>3, Handling
    DEF HandleRebootType, At, AbortInv, HandledIsStored, UpdateKinds, StoredName,
        OutcomeInv, Place
  <2>2. pay' = pay /\ dep' = dep /\ inst' = inst /\ seen' = seen
    BY <1>3 DEF HandleRebootType
  <2>3. Applied /\ Reversible
    <3>1. InInstall /\ N \in Nat
      BY <2>1, SizesAssumption DEF InInstall
    <3>2. \A p \in 1..N : pay[p] = "installed"
      BY <2>1, <3>1 DEF Inside
    <3> QED
      BY <2>1, <3>2 DEF Applied, Reversible, AllInstalled, NoneCommitted
  <2>4. upd'.types = upd.types /\ upd'.rollback = upd.rollback
    BY <1>3, UpdFields DEF HandleRebootType
  <2>5. CASE sd' = sd /\ HandleError("install")
    BY <2>1, <2>2, <2>3, <2>4, <2>5, ErrorMoves DEF Remembers
  <2>6. CASE /\ sd' = Stored("install", upd', 1)
             /\ \/ BreakLoop
                \/ /\ artifact' = artifact /\ NoFault
                   /\ \/ Goto(NewControl("fetchControlMap", "reboot", "rebootPauseRequested"))
                      \/ Goto(NewControl("fetchControlMap", "commit", "none"))
    <3>1. Steady
      BY <2>2, <2>6, BreakLoopFits DEF Steady, NoFault
    <3>2. Applied' /\ Reversible' /\ Carried'
      BY <2>1, <2>2, <2>3, <2>4, <3>1, SteadyDevice, CarriedKept DEF Remembers
    <3>3. sd'.name = "install" /\ sd'.info = upd'
      BY <2>6 DEF Stored, StoredName
    <3>4. Record'
      BY <3>2, <3>3 DEF Record, Midway, Reports, Carried
    <3>5. CASE BreakLoop
      BY <2>1, <2>2, <3>2, <3>4, <3>5, BreakLoopFits, MovesOn
    <3>6. CASE \/ Goto(NewControl("fetchControlMap", "reboot", "rebootPauseRequested"))
               \/ Goto(NewControl("fetchControlMap", "commit", "none"))
      <4>1. /\ Fits(NewControl("fetchControlMap", "reboot", "rebootPauseRequested"))'
            /\ Fits(NewControl("fetchControlMap", "commit", "none"))'
        BY <3>2, FitsControl DEF ControlKinds, Wrappable
      <4> QED
        BY <2>1, <3>1, <3>2, <3>4, <3>6, <4>1, Fields, MovesOn DEF Goto
    <3> QED
      BY <2>6, <3>5, <3>6
  <2>7. CASE /\ sd' = sd /\ DbFault /\ Goto(ErrorNext("install", upd.rollback))
             /\ artifact' \in {artifact, Broken}
    <3>1. Steady
      BY <2>2, <2>7 DEF Steady, DbFault
    <3>2. Record'
      BY <2>2, <2>7, <3>1, RecordSame DEF Remembers
    <3>3. to' = ErrorNext("install", upd.rollback) /\ to'.kind \in {"rollback", "updateError"}
      BY <2>7, Fields DEF Goto, ErrorNext
    <3>4. Fits(to)' /\ Carried'
      BY <2>7, <3>3, DbErrorFits
    <3> QED
      BY <2>1, <2>7, <3>1, <3>2, <3>3, <3>4, MovesOn DEF Goto
  <2> QED
    <3>1. PICK k \in 0..N : \E answers \in [1..k -> RebootAnswers] :
            IF k < N
              THEN sd' = sd /\ HandleError("install")
              ELSE \/ /\ sd' = Stored("install", upd', 1)
                      /\ IF CountExceeded(sd.count)
                           THEN BreakLoop
                           ELSE /\ Goto(IF \E p \in 1..N : answers[p] # "none"
                                         THEN NewControl("fetchControlMap", "reboot",
                                                         "rebootPauseRequested")
                                         ELSE NewControl("fetchControlMap", "commit", "none"))
                                /\ UNCHANGED artifact /\ NoFault
                   \/ /\ DbFault /\ UNCHANGED sd
                      /\ Goto(ErrorNext("install", upd.rollback))
                      /\ artifact' \in {artifact, Broken}
      BY <1>3 DEF HandleRebootType
    <3> QED
      BY <2>5, <2>6, <2>7, <3>1
<1>4. CASE HandleRebootRefused
  <2>1. Applied /\ Carried /\ stage = "handle" /\ state.kind = "reboot"
    BY <1>4, Handling DEF HandleRebootRefused, At
  <2>2. Steady /\ sd' = sd /\ inst' = inst /\ upd' = upd /\ Remembers
    BY <1>4 DEF HandleRebootRefused, Steady, disk, Remembers
  <2>3. Applied' /\ Carried' /\ Record'
    BY <2>1, <2>2, SteadyDevice, CarriedKept, RecordSame
  <2>4. Revertible'
    BY <2>3 DEF Applied, Revertible, AllInstalled, NoneCommitted
  <2>5. Sound' => upd'.rollback = "yes"
    BY <1>4, <2>2 DEF HandleRebootRefused, Sound
  <2>6. to'.kind = "rollback" /\ to'.wraps = "none" /\ to'.status = "none"
    BY <1>4, Fields DEF HandleRebootRefused, Goto
  <2>7. Fits(to)'
    BY <2>3, <2>4, <2>5, <2>6, FitsNext
  <2> QED
    BY <1>4, <2>1, <2>2, <2>3, <2>6, <2>7, MovesOn DEF HandleRebootRefused, Goto
<1>5. CASE HandleRebootHost
  <2>1. sd.name = "reboot"
    BY <1>5 DEF HandleRebootHost, At, AbortInv, HandledIsStored, UpdateKinds, StoredName
  <2> QED
    BY <1>5, <2>1, BootOutcome DEF HandleRebootHost
<1>6. CASE HandleRebootReturns
  <2>1. Applied /\ Carried /\ stage = "handle" /\ state.kind = "reboot"
    BY <1>6, Handling DEF HandleRebootReturns, At
  <2>2. /\ pay' = pay /\ dep' = dep /\ sd' = sd /\ inst' = inst /\ upd' = upd
        /\ Remembers
    BY <1>6 DEF HandleRebootReturns, Remembers
  <2>3. CASE HandleError("reboot")
    BY <2>1, <2>2, <2>3, ErrorMoves DEF Applied, Reversible, AllInstalled, NoneCommitted
  <2>4. CASE Goto(New("verifyReboot")) /\ UNCHANGED artifact /\ NoFault
    <3>1. Steady
      BY <2>2, <2>4 DEF Steady, NoFault
    <3>2. Applied' /\ Carried' /\ Record'
      BY <2>1, <2>2, <3>1, SteadyDevice, CarriedKept, RecordSame
    <3>3. to'.kind = "verifyReboot" /\ to'.wraps = "none" /\ to'.status = "none"
      BY <2>4, Fields DEF Goto
    <3> QED
      BY <2>1, <2>4, <3>1, <3>2, <3>3, FitsNext, MovesOn DEF Goto
  <2> QED
    BY <1>6, <2>3, <2>4 DEF HandleRebootReturns
<1>7. CASE HandleVerifyReboot
  <2>1. Applied /\ Carried /\ stage = "handle" /\ state.kind = "verifyReboot"
    BY <1>7, Handling DEF HandleVerifyReboot, At
  <2>2. /\ pay' = pay /\ dep' = dep /\ sd' = sd /\ inst' = inst /\ upd' = upd
        /\ Remembers
    BY <1>7 DEF HandleVerifyReboot, Remembers
  <2>3. CASE HandleError("verifyReboot")
    BY <2>1, <2>2, <2>3, ErrorMoves DEF Applied, Reversible, AllInstalled, NoneCommitted
  <2>4. CASE Goto(New("afterReboot")) /\ UNCHANGED artifact /\ NoFault
    <3>1. Steady
      BY <2>2, <2>4 DEF Steady, NoFault
    <3>2. Applied' /\ Carried' /\ Record'
      BY <2>1, <2>2, <3>1, SteadyDevice, CarriedKept, RecordSame
    <3>3. to'.kind = "afterReboot" /\ to'.wraps = "none" /\ to'.status = "none"
      BY <2>4, Fields DEF Goto
    <3> QED
      BY <2>1, <2>4, <3>1, <3>2, <3>3, FitsNext, MovesOn DEF Goto
  <2> QED
    BY <1>7, <2>3, <2>4 DEF HandleVerifyReboot
<1>8. CASE HandleAfterReboot
  <2>1. Applied /\ Carried /\ stage = "handle" /\ state.kind = "afterReboot"
    BY <1>8, Handling DEF HandleAfterReboot, At
  <2>2. Steady /\ sd' = sd /\ inst' = inst /\ upd' = upd /\ Remembers
    BY <1>8 DEF HandleAfterReboot, Steady, disk, world, Remembers
  <2>3. Applied' /\ Carried'
    BY <2>1, <2>2, SteadyDevice, CarriedKept
  <2>4. /\ Fits(NewControl("fetchControlMap", "commit", "none"))'
        /\ NewControl("fetchControlMap", "commit", "none").kind = "fetchControlMap"
    BY <2>3, FitsControl, Fields DEF ControlKinds, Wrappable
  <2> QED
    BY <1>8, <2>1, <2>2, <2>4, RecordSame, Moves DEF HandleAfterReboot, Goto
<1> QED
  BY <1>1, <1>2, <1>3, <1>4, <1>5, <1>6, <1>7, <1>8 DEF Apply

(* The commit: the name is written with the first payload committed. *)
LEMMA CommitOutcome ==
  ASSUME TypeOK, TypeOK', AbortInv, OutcomeInv, Commit
  PROVE  OutcomeInv'
<1>1. CASE HandleCommitBegin
  <2>1. /\ Applied /\ Carried /\ stage = "handle" /\ state.kind = "commit" /\ idx = 0
        /\ Inside /\ to = state
    BY <1>1, Handling DEF HandleCommitBegin, CommitBegin, At, OutcomeInv, Place
  <2>2. /\ pay' = pay /\ dep' = dep /\ sd' = sd /\ inst' = inst /\ Remembers
    BY <1>1 DEF HandleCommitBegin, CommitBegin, Remembers, Learn
  <2>3. upd'.types = upd.types /\ upd'.rollback = upd.rollback
    <3>1. upd' = upd \/ \E n : upd' = [upd EXCEPT !.attempts = n]
      BY <1>1 DEF HandleCommitBegin, CommitBegin
    <3> QED
      BY <3>1, UpdFields, ZenonT(60)
  <2>4. CASE HandleError("commit")
    BY <2>1, <2>2, <2>3, <2>4, ErrorMoves DEF Applied, Reversible, AllInstalled, NoneCommitted
  <2>5. CASE /\ Goto([New("preCommitRetry") EXCEPT !.tries = state.tries + 1])
             /\ UNCHANGED artifact /\ NoFault
    <3>1. Steady
      BY <2>2, <2>5 DEF Steady, NoFault
    <3>2. Applied' /\ Carried' /\ Record'
      BY <2>1, <2>2, <2>3, <3>1, SteadyDevice, CarriedKept, RecordSame
    <3>3. to'.kind = "preCommitRetry" /\ to'.wraps = "none" /\ to'.status = "none"
      BY <2>5 DEF Goto, New
    <3> QED
      BY <2>1, <2>5, <3>1, <3>2, <3>3, FitsNext, MovesOn DEF Goto
  <2>6. CASE idx' = 1 /\ UNCHANGED <<state, to, stage, err, artifact>> /\ NoFault
    <3>1. Steady
      BY <2>2, <2>6 DEF Steady, NoFault
    <3>2. Fits(state)
      BY <2>1 DEF Inside, InStore, InInstall, InCommit, InRest, InRollback
    <3>3. Fits(state)' /\ Record' /\ artifact'.id <= dep'
      <4>1. PICK s : s = state
        OBVIOUS
      <4>2. Fits(s)'
        BY <2>2, <2>3, <3>1, <3>2, <4>1, FitsKept
      <4>3. s = state'
        BY <2>6, <4>1
      <4> QED
        BY <2>2, <3>1, <4>2, <4>3, RecordSame, SteadyDevice DEF OutcomeInv
    <3>4. ~InStore' /\ ~InInstall' /\ ~InCommit' /\ ~InRest' /\ ~InRollback'
      BY <2>1, <2>6 DEF InStore, InInstall, InCommit, InRest, InRollback
    <3>5. Inside'
      BY <3>3, <3>4 DEF Inside, InStore, InInstall, InCommit, InRest, InRollback
    <3> QED
      BY <2>1, <2>6, <3>3, <3>5 DEF OutcomeInv, Place
  <2> QED
    <3>1. \/ HandleError("commit")
          \/ \E r \in ReportOutcomes :
               CASE r = "fatal" -> HandleError("commit")
                 [] r = "transient" ->
                      /\ Goto([New("preCommitRetry") EXCEPT !.tries = state.tries + 1])
                      /\ UNCHANGED artifact /\ NoFault
                 [] OTHER -> /\ idx' = 1
                             /\ UNCHANGED <<state, to, stage, err, artifact>> /\ NoFault
      BY <1>1 DEF HandleCommitBegin, CommitBegin
    <3> QED
      BY <2>4, <2>5, <2>6, <3>1
<1>2. CASE HandlePreCommitRetry
  <2>1. Applied /\ Carried /\ stage = "handle" /\ state.kind = "preCommitRetry"
    BY <1>2, Handling DEF HandlePreCommitRetry, At
  <2>2. /\ pay' = pay /\ dep' = dep /\ sd' = sd /\ inst' = inst /\ upd' = upd
        /\ Remembers
    BY <1>2 DEF HandlePreCommitRetry, Remembers
  <2>3. CASE HandleError("commit")
    BY <2>1, <2>2, <2>3, ErrorMoves DEF Applied, Reversible, AllInstalled, NoneCommitted
  <2>4. CASE /\ Goto([New("commit") EXCEPT !.tries = state.tries])
             /\ UNCHANGED artifact /\ NoFault
    <3>1. Steady
      BY <2>2, <2>4 DEF Steady, NoFault
    <3>2. Applied' /\ Carried' /\ Record'
      BY <2>1, <2>2, <3>1, SteadyDevice, CarriedKept, RecordSame
    <3>3. to'.kind = "commit" /\ to'.wraps = "none" /\ to'.status = "none"
      BY <2>4 DEF Goto, New
    <3> QED
      BY <2>1, <2>4, <3>1, <3>2, <3>3, FitsNext, MovesOn DEF Goto
  <2> QED
    BY <1>2, <2>3, <2>4 DEF HandlePreCommitRetry
<1>3. CASE HandleCommitFirst
  <2>1. /\ Applied /\ Carried /\ stage = "handle" /\ state.kind = "commit"
        /\ sd.name = "commit" /\ Record /\ to = state /\ artifact.id <= dep
    BY <1>3, Handling
    DEF HandleCommitFirst, At, AbortInv, HandledIsStored, UpdateKinds, StoredName, OutcomeInv,
        Place
  <2>2. dep' = dep /\ sd' = sd /\ inst' = inst /\ upd' = upd /\ seen' = seen
    BY <1>3 DEF HandleCommitFirst
  <2>3. CASE pay' = pay /\ HandleError("commit")
    BY <2>1, <2>2, <2>3, ErrorMoves
    DEF Applied, Reversible, AllInstalled, NoneCommitted, Remembers
  <2>4. CASE /\ pay' = [p \in 1..N |-> IF p = 1 THEN "committed" ELSE pay[p]]
             /\ idx' = 2 /\ UNCHANGED <<state, to, stage, err, artifact>> /\ NoFault
    <3>1. FirstCommitted' /\ \A p \in 1..N : p # 1 => pay'[p] = "installed"
      BY <2>1, <2>4 DEF FirstCommitted, Applied, AllInstalled
    <3>2. OldName' /\ Carried' /\ artifact'.id <= dep'
      BY <2>1, <2>2, <2>4 DEF Applied, OldName, Carried, Sound, NoFault
    <3>3. ~InStore' /\ ~InInstall' /\ InCommit' /\ ~InRest' /\ ~InRollback'
      BY <2>1, <2>4 DEF InStore, InInstall, InCommit, InRest, InRollback
    <3>4. Inside'
      BY <3>1, <3>2, <3>3 DEF Inside
    <3>5. Record'
      BY <2>1, <2>2, <2>4, <3>1 DEF Record, Midway, Reports, Sound, NoFault
    <3> QED
      BY <2>1, <2>4, <3>2, <3>4, <3>5 DEF OutcomeInv, Place
  <2> QED
    BY <1>3, <2>3, <2>4 DEF HandleCommitFirst
<1>4. CASE HandleCommitStore
  <2>1. /\ Carried /\ stage = "handle" /\ state.kind = "commit" /\ sd.name = "commit"
        /\ FirstCommitted /\ \A p \in 1..N : p # 1 => pay[p] = "installed"
    BY <1>4, Handling
    DEF HandleCommitStore, At, AbortInv, HandledIsStored, UpdateKinds, StoredName, OutcomeInv,
        Place, Inside, InCommit
  <2>2. pay' = pay /\ dep' = dep /\ inst' = inst /\ upd' = upd /\ seen' = seen
    BY <1>4 DEF HandleCommitStore
  <2>3. CASE DbFault /\ UNCHANGED disk /\ Goto(New("updateError"))
    <3>1. Steady /\ sd' = sd
      BY <2>2, <2>3 DEF Steady, DbFault, disk
    <3>2. Record' /\ Carried'
      BY <2>1, <2>2, <3>1, RecordSame, CarriedKept DEF Remembers
    <3>3. Settled'
      BY <2>3 DEF Settled, Sound, DbFault
    <3>4. to'.kind = "updateError" /\ to'.wraps = "none" /\ to'.status = "none"
      BY <2>3, Fields DEF Goto
    <3> QED
      BY <2>1, <2>3, <3>1, <3>2, <3>3, <3>4, FitsNext, MovesOn DEF Goto, Reverting
  <2>4. CASE /\ sd' = Stored("commit", upd, 1)
             /\ \/ /\ Goto(NewStatusReport("failure"))
                   /\ \/ artifact' = Broken /\ NoFault
                      \/ artifact' = [id |-> dep, broken |-> FALSE] /\ DbFault
                \/ /\ artifact' = [id |-> dep, broken |-> FALSE] /\ NoFault
                   /\ Goto(New("afterFirstCommit"))
    <3>1. sd'.name = "commit" /\ sd'.info = upd /\ FirstCommitted'
      BY <2>1, <2>2, <2>4 DEF Stored, StoredName, FirstCommitted
    <3>2. exposed \subseteq exposed' /\ Carried'
      BY <2>1, <2>2, <2>4 DEF NoFault, DbFault, Carried, Sound
    <3>3. Record'
      BY <2>2, <3>1, <3>2 DEF Record, Midway, Reports, Carried
    <3>4. artifact'.id = dep /\ dep \in Nat
      BY <2>4 DEF Broken, TypeOK
    <3>5. Left'
      BY <2>1, <2>4, Fields DEF Left, Goto
    <3>6. Fits(to)'
      <4>1. CASE /\ Goto(NewStatusReport("failure"))
                 /\ \/ artifact' = Broken /\ NoFault
                    \/ artifact' = [id |-> dep, broken |-> FALSE] /\ DbFault
        <5>1. Settled' /\ CleanedUp'
          BY <2>2, <4>1 DEF Settled, CleanedUp, Sound, Unbroken, Broken, DbFault
        <5>2. to'.kind = "statusReport" /\ to'.wraps = "none" /\ to'.status = "failure"
          BY <4>1, Fields DEF Goto
        <5> QED
          BY <5>1, <5>2, FitsNext DEF Reports
      <4>2. CASE Goto(New("afterFirstCommit"))
        <5>1. PastReturn'
          BY <2>1, <2>2, <3>1, <3>4 DEF PastReturn, RestApplied
        <5>2. to'.kind = "afterFirstCommit" /\ to'.wraps = "none" /\ to'.status = "none"
          BY <4>2, Fields DEF Goto
        <5> QED
          BY <3>2, <5>1, <5>2, FitsNext
      <4> QED
        BY <2>4, <4>1, <4>2
    <3> QED
      BY <2>2, <2>4, <3>3, <3>4, <3>5, <3>6 DEF OutcomeInv, Place, Goto
  <2> QED
    BY <1>4, <2>3, <2>4 DEF HandleCommitStore
<1>5. CASE HandleAfterFirstCommit
  <2>1. /\ PastReturn /\ Carried /\ stage = "handle" /\ state.kind = "afterFirstCommit"
        /\ sd.name = "afterFirstCommit" /\ Record /\ to = state /\ artifact.id <= dep
        /\ err = "nil" => \A p \in 1..N : p <= idx => pay[p] = "committed"
    BY <1>5
    DEF HandleAfterFirstCommit, At, AbortInv, HandledIsStored, UpdateKinds, StoredName,
        OutcomeInv, Place, Inside, InRest
  <2>2. /\ dep' = dep /\ artifact' = artifact /\ sd' = sd /\ inst' = inst /\ upd' = upd
        /\ seen' = seen /\ exposed' = exposed /\ UNCHANGED <<state, to, stage>>
        /\ idx' = IF idx = 0 THEN 2 ELSE idx + 1
    BY <1>5 DEF HandleAfterFirstCommit, disk
  <2>3. idx \in Nat /\ err \in {"nil", "error"} /\ pay \in [1..N -> PayStates] /\ N \in Nat
    BY SizesAssumption DEF TypeOK
  <2>4. \/ N < 2 /\ UNCHANGED <<pay, err>>
        \/ idx' > N /\ UNCHANGED <<pay, err>>
        \/ idx' \in 1..N /\ pay' = [pay EXCEPT ![idx'] = "committed"] /\ UNCHANGED err
        \/ err' = "error" /\ UNCHANGED pay
    BY <1>5, <2>2, <2>3 DEF HandleAfterFirstCommit
  <2>5. PastReturn' /\ (err' = "nil" => \A p \in 1..N : p <= idx' => pay'[p] = "committed")
    <3>1. FirstCommitted /\ RestApplied /\ artifact.id = dep
      BY <2>1 DEF PastReturn
    <3>2. /\ FirstCommitted' /\ RestApplied'
          /\ (err' = "nil" => \A p \in 1..N : p <= idx' => pay'[p] = "committed")
      BY <2>1, <2>2, <2>3, <2>4, <3>1 DEF FirstCommitted, RestApplied
    <3> QED
      BY <2>2, <3>1, <3>2 DEF PastReturn
  <2>6. Carried' /\ artifact'.id <= dep'
    BY <2>1, <2>2 DEF Carried, Sound
  <2>7. ~InStore' /\ ~InInstall' /\ ~InCommit' /\ InRest' /\ ~InRollback'
    BY <2>1, <2>2 DEF InStore, InInstall, InCommit, InRest, InRollback
  <2>8. Inside'
    BY <2>5, <2>6, <2>7 DEF Inside
  <2>9. Record'
    BY <2>1, <2>2, <2>5 DEF Record, Midway, Reports, Sound
  <2> QED
    BY <2>1, <2>2, <2>6, <2>8, <2>9 DEF OutcomeInv, Place
<1>6. CASE HandleAfterFirstCommitEnd
  <2>1. /\ PastReturn /\ Carried /\ stage = "handle" /\ state.kind = "afterFirstCommit"
        /\ err = "nil" => \A p \in 1..N : p <= idx => pay[p] = "committed"
    BY <1>6 DEF HandleAfterFirstCommitEnd, At, OutcomeInv, Place, Inside, InRest
  <2>2. /\ pay' = pay /\ dep' = dep /\ sd' = sd /\ inst' = inst /\ upd' = upd
        /\ Remembers
    BY <1>6 DEF HandleAfterFirstCommitEnd, Remembers
  <2>3. CASE HandleError("afterFirstCommit")
    <3>1. Flags("afterFirstCommit") /\ Goto(ErrorNext("afterFirstCommit", upd.rollback))
      BY <2>3 DEF HandleError, Flags
    <3>2. Steady
      BY <2>2, <3>1, FlagsSteady
    <3>3. Carried' /\ Record'
      BY <2>1, <2>2, <3>2, CarriedKept, RecordSame
    <3>4. Fits(to)' /\ to'.kind \notin {"fetchStoreRetry", "preCommitRetry"}
      BY <2>2, <3>1, <3>3, ErrorPastReturn, ErrorFields DEF Goto
    <3> QED
      BY <2>1, <3>1, <3>2, <3>3, <3>4, MovesOn DEF Goto
  <2>4. CASE err = "nil" /\ Goto(New("afterCommit")) /\ UNCHANGED artifact /\ NoFault
    <3>1. Steady
      BY <2>2, <2>4 DEF Steady, NoFault
    <3>2. Done
      BY <1>6, <2>1, <2>4, SizesAssumption
      DEF Done, PastReturn, AllCommitted, HandleAfterFirstCommitEnd, TypeOK
    <3>3. Done' /\ Carried' /\ Record'
      BY <2>1, <2>2, <3>1, <3>2, SteadyDevice, CarriedKept, RecordSame
    <3>4. to'.kind = "afterCommit" /\ to'.wraps = "none" /\ to'.status = "none"
      BY <2>4, Fields DEF Goto
    <3> QED
      BY <2>1, <2>4, <3>1, <3>3, <3>4, FitsNext, MovesOn DEF Goto
  <2> QED
    BY <1>6, <2>3, <2>4 DEF HandleAfterFirstCommitEnd
<1>7. CASE HandleAfterCommit
  <2>1. Done /\ Carried /\ stage = "handle" /\ state.kind = "afterCommit"
    BY <1>7, Handling DEF HandleAfterCommit, At
  <2>2. Steady /\ sd' = sd /\ inst' = inst /\ upd' = upd /\ Remembers
    BY <1>7 DEF HandleAfterCommit, Steady, disk, world, Remembers
  <2>3. Done' /\ Carried' /\ Record'
    BY <2>1, <2>2, SteadyDevice, CarriedKept, RecordSame
  <2>4. to'.kind = "cleanup" /\ to'.wraps = "none"
    BY <1>7, Fields DEF HandleAfterCommit, Goto
  <2> QED
    BY <1>7, <2>1, <2>2, <2>3, <2>4, FitsSuccess, MovesOn DEF HandleAfterCommit, Goto
<1> QED
  BY <1>1, <1>2, <1>3, <1>4, <1>5, <1>6, <1>7 DEF Commit

(* The rollback: what was installed is clean again, payload by payload. *)
LEMMA RollbackOutcome ==
  ASSUME TypeOK, TypeOK', AbortInv, OutcomeInv, Rollback
  PROVE  OutcomeInv'
<1>1. CASE HandleRollbackPayload
  <2>1. /\ Revertible /\ Carried /\ stage = "handle" /\ state.kind = "rollback"
        /\ sd.name = "rollback" /\ Record /\ to = state /\ artifact.id <= dep /\ idx < N
        /\ Sound /\ Unbroken => /\ upd.rollback = "yes"
                                /\ \A p \in 1..N : p <= idx => pay[p] = "clean"
    BY <1>1
    DEF HandleRollbackPayload, At, AbortInv, HandledIsStored, UpdateKinds, StoredName,
        OutcomeInv, Place, Inside, InRollback
  <2>2. dep' = dep /\ sd' = sd /\ inst' = inst /\ upd' = upd /\ seen' = seen
    BY <1>1 DEF HandleRollbackPayload
  <2>3. CASE HandleError("rollback") /\ UNCHANGED pay
    <3>1. Flags("rollback") /\ Goto(ErrorNext("rollback", upd.rollback))
      BY <2>3 DEF HandleError, Flags
    <3>2. Steady
      BY <2>2, <2>3, <3>1, FlagsSteady
    <3>3. Carried' /\ Record'
      BY <2>1, <2>2, <3>2, CarriedKept, RecordSame DEF Remembers
    <3>4. Fits(to)' /\ to'.kind \notin {"fetchStoreRetry", "preCommitRetry"}
      BY <2>2, <2>3, <3>1, <3>3, ErrorPastReturn, ErrorFields DEF Goto
    <3> QED
      BY <2>1, <3>1, <3>2, <3>3, <3>4, MovesOn DEF Goto
  <2>4. CASE /\ \E v \in AfterRollback(idx + 1) : pay' = [pay EXCEPT ![idx + 1] = v]
             /\ idx' = idx + 1
             /\ UNCHANGED <<state, to, stage, err, artifact>> /\ NoFault
    <3>1. PICK v \in AfterRollback(idx + 1) : pay' = [pay EXCEPT ![idx + 1] = v]
      BY <2>4
    <3>2. idx + 1 \in 1..N /\ idx \in Nat /\ pay \in [1..N -> PayStates]
      BY <2>1, SizesAssumption DEF TypeOK
    <3>3. pay[idx + 1] # "committed" => v # "committed"
      BY DEF AfterRollback
    <3>4. pay[idx + 1] # "committed" /\ upd.rollback = "yes" => v = "clean"
      BY <3>2 DEF AfterRollback, PayStates
    <3>5. /\ (Sound' <=> Sound) /\ (Safe' <=> Safe) /\ (Unbroken' <=> Unbroken)
          /\ (OldName' <=> OldName) /\ (Carried' <=> Carried)
      BY <2>2, <2>4 DEF NoFault, Sound, Safe, Unbroken, Broken, OldName, Carried
    <3>6. NoneCommitted => NoneCommitted'
      BY <3>1, <3>2, <3>3 DEF NoneCommitted
    <3>7. Revertible'
      BY <2>1, <3>5, <3>6 DEF Revertible
    <3>8. Sound /\ Unbroken => \A p \in 1..N : p <= idx + 1 => pay'[p] = "clean"
      <4>1. Sound => Safe
        BY DEF Sound, Safe
      <4>2. Sound /\ Unbroken => v = "clean"
        BY <2>1, <3>2, <3>4, <4>1 DEF Revertible, NoneCommitted
      <4> QED
        BY <2>1, <3>1, <3>2, <4>2
    <3>9. ~InStore' /\ ~InInstall' /\ ~InCommit' /\ ~InRest' /\ InRollback'
      BY <2>1, <2>4 DEF InStore, InInstall, InCommit, InRest, InRollback
    <3>10. Inside'
      BY <2>1, <2>2, <2>4, <3>5, <3>7, <3>8, <3>9 DEF Inside
    <3>11. Record'
      BY <2>1, <2>2, <3>5, <3>7 DEF Record, Midway, Reports
    <3> QED
      BY <2>1, <2>2, <2>4, <3>10, <3>11 DEF OutcomeInv, Place
  <2> QED
    BY <1>1, <2>3, <2>4 DEF HandleRollbackPayload
<1>2. CASE HandleRollbackEnd
  <2>1. /\ Revertible /\ Carried /\ stage = "handle" /\ state.kind = "rollback" /\ idx = N
        /\ Sound /\ Unbroken => \A p \in 1..N : p <= idx => pay[p] = "clean"
    BY <1>2
    DEF HandleRollbackEnd, RollbackEnd, At, OutcomeInv, Place, Inside, InRollback
  <2>2. Steady /\ sd' = sd /\ inst' = inst /\ Remembers
    BY <1>2 DEF HandleRollbackEnd, RollbackEnd, Steady, Remembers, disk, world
  <2>3. upd'.types = upd.types
    <3>1. \E r : upd' = [upd EXCEPT !.reboots = r]
      BY <1>2 DEF HandleRollbackEnd, RollbackEnd
    <3> QED
      BY <3>1, UpdFields
  <2>4. Settled
    BY <2>1, SizesAssumption DEF Settled, Revertible, Untouched, AllClean
  <2>5. Settled' /\ Carried' /\ Record'
    BY <2>1, <2>2, <2>3, <2>4, SteadyDevice, CarriedKept, RecordSame
  <2>6. PICK k \in {"rollbackReboot", "updateError"} : Goto(New(k))
    BY <1>2 DEF HandleRollbackEnd, RollbackEnd
  <2>7. to'.kind = k /\ to'.wraps = "none" /\ to'.status = "none"
    BY <2>6, Fields DEF Goto
  <2> QED
    BY <2>1, <2>2, <2>5, <2>6, <2>7, FitsNext, MovesOn DEF Goto, Reverting
<1>3. CASE HandleRollbackRebootHost
  <2>1. sd.name = "rollbackReboot"
    BY <1>3
    DEF HandleRollbackRebootHost, At, AbortInv, HandledIsStored, UpdateKinds, StoredName
  <2> QED
    BY <1>3, <2>1, BootOutcome DEF HandleRollbackRebootHost
<1>4. CASE HandleRollbackRebootReturns
  <2>1. Settled /\ Carried /\ stage = "handle" /\ state.kind = "rollbackReboot"
    BY <1>4, Handling DEF HandleRollbackRebootReturns, At, Reverting
  <2>2. Steady /\ sd' = sd /\ inst' = inst /\ upd' = upd /\ Remembers
    BY <1>4 DEF HandleRollbackRebootReturns, Steady, disk, world, Remembers
  <2>3. Settled' /\ Carried' /\ Record'
    BY <2>1, <2>2, SteadyDevice, CarriedKept, RecordSame
  <2>4. to'.kind = "verifyRollbackReboot" /\ to'.wraps = "none" /\ to'.status = "none"
    BY <1>4, Fields DEF HandleRollbackRebootReturns, Goto
  <2> QED
    BY <1>4, <2>1, <2>2, <2>3, <2>4, FitsNext, MovesOn
    DEF HandleRollbackRebootReturns, Goto, Reverting
<1>5. CASE HandleVerifyRollbackReboot
  <2>1. Settled /\ Carried /\ stage = "handle" /\ state.kind = "verifyRollbackReboot"
    BY <1>5, Handling DEF HandleVerifyRollbackReboot, At, Reverting
  <2>2. /\ pay' = pay /\ dep' = dep /\ sd' = sd /\ inst' = inst /\ upd' = upd
        /\ Remembers
    BY <1>5 DEF HandleVerifyRollbackReboot, Remembers
  <2>3. PICK k \in {"afterRollbackReboot", "rollbackReboot"} : Goto(New(k))
    BY <1>5 DEF HandleVerifyRollbackReboot, HandleError, ErrorNext
  <2>4. Steady
    BY <1>5, <2>2, FlagsSteady DEF HandleVerifyRollbackReboot, HandleError, Flags, Steady,
       NoFault
  <2>5. Settled' /\ Carried' /\ Record'
    BY <2>1, <2>2, <2>4, SteadyDevice, CarriedKept, RecordSame
  <2>6. to'.kind = k /\ to'.wraps = "none" /\ to'.status = "none"
    BY <2>3, Fields DEF Goto
  <2> QED
    BY <2>1, <2>3, <2>4, <2>5, <2>6, FitsNext, MovesOn DEF Goto, Reverting
<1>6. CASE HandleAfterRollbackReboot
  <2>1. Settled /\ Carried /\ stage = "handle" /\ state.kind = "afterRollbackReboot"
    BY <1>6, Handling DEF HandleAfterRollbackReboot, At, Reverting
  <2>2. Steady /\ sd' = sd /\ inst' = inst /\ upd' = upd /\ Remembers
    BY <1>6 DEF HandleAfterRollbackReboot, Steady, disk, world, Remembers
  <2>3. Settled' /\ Carried' /\ Record'
    BY <2>1, <2>2, SteadyDevice, CarriedKept, RecordSame
  <2>4. to'.kind = "updateError" /\ to'.wraps = "none" /\ to'.status = "none"
    BY <1>6, Fields DEF HandleAfterRollbackReboot, Goto
  <2> QED
    BY <1>6, <2>1, <2>2, <2>3, <2>4, FitsNext, MovesOn
    DEF HandleAfterRollbackReboot, Goto, Reverting
<1> QED
  BY <1>1, <1>2, <1>3, <1>4, <1>5, <1>6 DEF Rollback

(* The end: cleanup before the report, the report before the next poll. *)
LEMMA FinishOutcome ==
  ASSUME TypeOK, TypeOK', AbortInv, OutcomeInv, Finish
  PROVE  OutcomeInv'
<1>1. CASE HandleUpdateError
  <2>1. Settled /\ Carried /\ stage = "handle" /\ state.kind = "updateError"
    BY <1>1, Handling DEF HandleUpdateError, At, Reverting
  <2>2. Steady /\ sd' = sd /\ inst' = inst /\ upd' = upd /\ Remembers
    BY <1>1 DEF HandleUpdateError, Steady, disk, world, Remembers
  <2>3. Settled' /\ Carried' /\ Record'
    BY <2>1, <2>2, SteadyDevice, CarriedKept, RecordSame
  <2>4. to'.kind = "cleanup" /\ to'.wraps = "none" /\ to'.status = "failure"
    BY <1>1, Fields DEF HandleUpdateError, Goto
  <2> QED
    BY <1>1, <2>1, <2>2, <2>3, <2>4, FitsNext, MovesOn
    DEF HandleUpdateError, Goto, Reverting
<1>2. CASE HandleCleanup
  <2>1. /\ Settled /\ Carried /\ stage = "handle" /\ state.kind = "cleanup"
        /\ state.status = "success" => Done
    BY <1>2, Handling DEF HandleCleanup, At, Reverting
  <2>2. Steady /\ sd' = sd /\ inst' = inst /\ upd' = upd /\ Remembers
    BY <1>2 DEF HandleCleanup, Steady, disk, Remembers
  <2>3. CleanedUp'
    BY <1>2, <2>1, <2>2, SteadyDevice DEF HandleCleanup, CleanedUp, Carried
  <2>4. Settled' /\ Record' /\ (Done => Done')
    BY <2>1, <2>2, SteadyDevice, RecordSame
  <2>5. PICK st \in {"failure", state.status} : Goto(NewStatusReport(st))
    BY <1>2 DEF HandleCleanup
  <2>6. to'.kind = "statusReport" /\ to'.wraps = "none" /\ to'.status = st
    BY <2>5, Fields DEF Goto
  <2>7. Fits(to)'
    BY <2>1, <2>3, <2>4, <2>5, <2>6, FitsNext, FitsSuccess DEF Reports
  <2> QED
    BY <2>1, <2>2, <2>4, <2>5, <2>6, <2>7, MovesOn DEF Goto
<1>3. CASE HandleStatusReport
  <2>1. /\ Settled /\ CleanedUp /\ stage = "handle" /\ state.kind = "statusReport"
        /\ sd.name = "statusReport" /\ (state.status = "success" => Done)
        /\ state.wraps = "none"
    BY <1>3, Handling
    DEF HandleStatusReport, At, Reports, AbortInv, HandledIsStored, UpdateKinds, StoredName
  <2>2. Steady /\ sd' = sd /\ Remembers
    BY <1>3 DEF HandleStatusReport, Steady, disk, Remembers, Learn
  <2>3. Settled' /\ CleanedUp' /\ Record' /\ (Done => Done')
    BY <2>1, <2>2, SteadyDevice, CarriedKept, RecordSame
  <2>4. /\ state' = state /\ stage' = "transition" /\ idx' = 0 /\ err' = "nil"
        /\ \/ to'.kind = "idle" /\ to'.status = "none" /\ to'.wraps = "none"
           \/ /\ to'.kind = "statusReportRetry" /\ to'.status = state.status
              /\ to'.wraps = state.wraps
    <3> DEFINE sent == [state EXCEPT !.tries = @ + 1]
               logged == [sent EXCEPT !.logTries = @ + 1]
               Retry(s, n) == [s EXCEPT !.kind = "statusReportRetry", !.sending = n]
    <3>1. \A n : /\ Retry(sent, n).kind = "statusReportRetry"
                 /\ Retry(sent, n).status = state.status
                 /\ Retry(sent, n).wraps = state.wraps
                 /\ Retry(logged, n).kind = "statusReportRetry"
                 /\ Retry(logged, n).status = state.status
                 /\ Retry(logged, n).wraps = state.wraps
      BY DEF TypeOK, States
    <3>2. \/ Goto(New("idle")) \/ Goto(Retry(sent, sent.tries))
          \/ Goto(Retry(logged, logged.logTries))
      BY <1>3 DEF HandleStatusReport
    <3> HIDE DEF sent, logged, Retry
    <3> QED
      BY <3>1, <3>2, Fields DEF Goto
  <2>5. Fits(to)'
    BY <2>1, <2>2, <2>3, <2>4, FitsNext, FitsSuccess DEF Reports
  <2> QED
    BY <2>1, <2>2, <2>3, <2>4, <2>5, MovesOn
<1>4. CASE HandleStatusReportRetry
  <2>1. /\ Settled /\ CleanedUp /\ stage = "handle" /\ state.kind = "statusReportRetry"
        /\ sd.name = "statusReportRetry" /\ (state.status = "success" => Done)
        /\ state.wraps = "none"
    BY <1>4, Handling
    DEF HandleStatusReportRetry, At, Reports, AbortInv, HandledIsStored, UpdateKinds, StoredName
  <2>2. Steady /\ sd' = sd /\ Remembers
    BY <1>4 DEF HandleStatusReportRetry, Steady, disk, world, Remembers
  <2>3. Settled' /\ CleanedUp' /\ Record' /\ (Done => Done')
    BY <2>1, <2>2, SteadyDevice, CarriedKept, RecordSame
  <2>4. /\ state' = state /\ stage' = "transition" /\ idx' = 0 /\ err' = "nil"
        /\ \/ to'.kind = "idle" /\ to'.status = "none" /\ to'.wraps = "none"
           \/ /\ to'.kind = "statusReport" /\ to'.status = state.status
              /\ to'.wraps = state.wraps
    <3> DEFINE again == [state EXCEPT !.kind = "statusReport", !.sending = 0]
    <3>1. again.kind = "statusReport" /\ again.status = state.status /\ again.wraps = state.wraps
      BY DEF TypeOK, States
    <3>2. Goto(New("idle")) \/ Goto(again)
      BY <1>4 DEF HandleStatusReportRetry
    <3> HIDE DEF again
    <3> QED
      BY <3>1, <3>2, Fields DEF Goto
  <2>5. Fits(to)'
    BY <2>1, <2>2, <2>3, <2>4, FitsNext, FitsSuccess DEF Reports
  <2> QED
    BY <2>1, <2>2, <2>3, <2>4, <2>5, MovesOn
<1> QED
  BY <1>1, <1>2, <1>3, <1>4 DEF Finish

(* Outside a deployment, and the restarts. *)

(* How the states of initState.getNextState look. *)
LEMMA ResumeFields ==
  ASSUME NEW data \in StateData
  PROVE  /\ Resume(data).wraps = "none" /\ Resume(data).status # "success"
         /\ data.name \in {"store", "afterStore", "cleanup"} => Resume(data).kind = "cleanup"
         /\ data.name = "reboot" => Resume(data).kind = "verifyReboot"
         /\ data.name \in {"rollbackReboot", "verifyRollbackReboot", "afterRollbackReboot"}
              => Resume(data).kind = "verifyRollbackReboot"
         /\ data.name \in {"afterFirstCommit", "afterCommit", "updateError"}
              => Resume(data).kind = data.name
         /\ data.name \in Reports => Resume(data).kind = "statusReport"
         /\ data.name \in {"install", "rebootPauseRequested", "verifyReboot", "afterReboot",
                           "commit", "rollback"}
              => Resume(data).kind =
                   IF data.info.rollback = "yes" THEN "rollback" ELSE "updateError"
<1>1. PICK r : r = [NewStatusReport("failure") EXCEPT !.tries = data.info.attempts]
  OBVIOUS
<1>2. r.kind = "statusReport" /\ r.wraps = "none" /\ r.status = "failure"
  BY <1>1 DEF NewStatusReport, New
<1>3. CASE data.name \in {"store", "afterStore", "cleanup"}
  BY <1>3, Fields DEF Resume, ResumeNamed, Reports
<1>4. CASE data.name = "reboot"
  BY <1>4, Fields DEF Resume, ResumeNamed, Reports
<1>5. CASE data.name \in {"rollbackReboot", "verifyRollbackReboot", "afterRollbackReboot"}
  BY <1>5, Fields DEF Resume, ResumeNamed, Reports
<1>6. CASE data.name \in {"afterFirstCommit", "afterCommit", "updateError"}
  BY <1>6, Fields DEF Resume, ResumeNamed, Reports
<1>7. CASE data.name \in Reports
  <2>1. Resume(data) = r
    BY <1>1, <1>7 DEF Resume, ResumeNamed, Reports
  <2> QED
    BY <1>2, <1>7, <2>1 DEF Reports
<1>8. CASE data.name \in {"none", "fetch", "install", "rebootPauseRequested", "verifyReboot",
                         "afterReboot", "commit", "rollback"}
  BY <1>8, Fields DEF Resume, ResumeNamed, Reports
<1>9. data.name \in {"none"} \cup UpdateKinds
  BY DEF StateData
<1> QED
  BY <1>3, <1>4, <1>5, <1>6, <1>7, <1>8, <1>9 DEF UpdateKinds, Reports

(* Every record is resumed in a state that fits the device. *)
LEMMA ResumeFits ==
  ASSUME TypeOK, TypeOK', OutcomeInv, stage = "handle", state.kind = "init", sd # NoData,
         sd.name # "fetch", Steady, Remembers, upd' = sd.info,
         inst' = IF sd.info.types THEN "current" ELSE "none",
         ResumeBreaks(sd) => ~(Sound' /\ Unbroken'), to' = Resume(sd)
  PROVE  Fits(to)'
<1>1. PICK s, name : s = Resume(sd) /\ name = sd.name
  OBVIOUS
<1>2. Record /\ sd \in StateData /\ name # "none" /\ name \in UpdateKinds
  BY <1>1 DEF OutcomeInv, Record, TypeOK, StateData
<1>3. name = "commit" => Revertible
  BY <1>1 DEF OutcomeInv, Place, Inside, InStore, InInstall, InCommit, InRest, InRollback, Fits
<1>4. name \notin Reports => Carried'
  <2>1. name \notin Reports => (Sound' /\ "download" \in seen' => sd.info.types)
    BY <1>1, <1>2, SteadyDevice DEF Record, Remembers
  <2> QED
    BY <2>1 DEF Carried
<1>5. name \in Reports => CleanedUp'
  BY <1>1, <1>2, CarriedKept DEF Record
<1>6. name \notin Midway => Settled'
  BY <1>1, <1>2, SteadyDevice DEF Record
<1>7. s.wraps = "none" /\ s.status # "success"
  BY <1>1, <1>2, ResumeFields
<1>8. Fits(s)'
  <2>1. CASE name \in {"store", "afterStore", "cleanup", "rollbackReboot", "updateError",
                      "verifyRollbackReboot", "afterRollbackReboot"}
    <3>1. s.kind \in Reverting
      BY <1>1, <1>2, <2>1, ResumeFields DEF Reverting
    <3> QED
      BY <1>4, <1>6, <1>7, <2>1, <3>1, FitsNext DEF Midway, Reports
  <2>2. CASE name = "reboot"
    <3>1. s.kind = "verifyReboot" /\ Applied'
      BY <1>1, <1>2, <2>2, ResumeFields, SteadyDevice DEF Record
    <3> QED
      BY <1>4, <1>7, <2>2, <3>1, FitsNext DEF Reports
  <2>3. CASE name = "afterFirstCommit"
    <3>1. s.kind = "afterFirstCommit" /\ PastReturn'
      BY <1>1, <1>2, <2>3, ResumeFields, SteadyDevice DEF Record
    <3> QED
      BY <1>4, <1>7, <2>3, <3>1, FitsNext DEF Reports
  <2>4. CASE name = "afterCommit"
    <3>1. s.kind = "afterCommit" /\ Done'
      BY <1>1, <1>2, <2>4, ResumeFields, SteadyDevice DEF Record
    <3> QED
      BY <1>4, <1>7, <2>4, <3>1, FitsNext DEF Reports
  <2>5. CASE name \in Reports
    <3>1. s.kind = "statusReport"
      BY <1>1, <1>2, <2>5, ResumeFields
    <3> QED
      BY <1>5, <1>6, <1>7, <2>5, <3>1, FitsNext DEF Reports, Midway
  <2>6. CASE name \in {"install", "afterReboot", "commit", "rollback"}
    <3>1. Revertible'
      <4>1. Revertible
        BY <1>1, <1>2, <1>3, <2>6 DEF Record, Reversible, Revertible
      <4> QED
        BY <4>1, SteadyDevice
    <3>2. CASE sd.info.rollback = "yes"
      <4>1. s.kind = "rollback" /\ upd'.rollback = "yes"
        BY <1>1, <1>2, <2>6, <3>2, ResumeFields
      <4> QED
        BY <1>4, <1>7, <2>6, <3>1, <4>1, FitsNext DEF Reports
    <3>3. CASE sd.info.rollback # "yes"
      <4>1. s.kind = "updateError" /\ ResumeBreaks(sd)
        BY <1>1, <1>2, <2>6, <3>3, ResumeFields DEF ResumeBreaks
      <4>2. Settled'
        BY <4>1 DEF Settled
      <4> QED
        BY <1>4, <1>7, <2>6, <4>1, <4>2, FitsNext DEF Reports, Reverting
    <3> QED
      BY <3>2, <3>3
  <2> QED
    BY <1>1, <1>2, <2>1, <2>2, <2>3, <2>4, <2>5, <2>6 DEF UpdateKinds, Reports, Record
<1> QED
  BY <1>1, <1>8

(* Outside a deployment: a restart takes up what the record says, and a    *)
(* poll may begin a new deployment.                                        *)
LEMMA OutsideOutcome ==
  ASSUME TypeOK, TypeOK', AbortInv, OutcomeInv, Outside
  PROVE  OutcomeInv'
<1>1. CASE HandleInit
  <2>1. stage = "handle" /\ state.kind = "init" /\ Record
    BY <1>1 DEF HandleInit, At, OutcomeInv
  <2>2. pay' = pay /\ dep' = dep /\ seen' = seen /\ Remembers
    BY <1>1 DEF HandleInit, Remembers
  <2>3. CASE sd = NoData /\ Goto(New("idle")) /\ UNCHANGED <<disk, upd, inst>> /\ NoFault
    <3>1. Steady /\ sd' = sd
      BY <2>2, <2>3 DEF Steady, NoFault, disk
    <3>2. sd.name = "none"
      BY <2>3 DEF NoData
    <3>3. Settled' /\ CleanedUp' /\ Record'
      BY <2>1, <2>2, <3>1, <3>2, SteadyDevice, CarriedKept, RecordSame DEF Record, Midway
    <3>4. to'.kind = "idle" /\ to'.wraps = "none" /\ to'.status = "none"
      BY <2>3, Fields DEF Goto
    <3> QED
      BY <2>1, <2>3, <3>1, <3>2, <3>3, <3>4, FitsNext, MovesOn DEF Goto
  <2>4. ASSUME sd # NoData, sd' = [sd EXCEPT !.count = NextCount(sd.count, 1)], Steady
        PROVE  Record'
    <3>1. sd'.name = sd.name /\ sd'.info = sd.info
      BY <2>4 DEF TypeOK, StateData
    <3> QED
      BY <2>1, <2>2, <2>4, <3>1, RecordKept DEF Record
  <2>5. CASE /\ sd # NoData /\ sd' = [sd EXCEPT !.count = NextCount(sd.count, 1)]
             /\ BreakLoop
    BY <2>1, <2>2, <2>4, <2>5, BreakLoopFits, MovesOn
  <2>6. CASE /\ sd # NoData /\ sd.name = "fetch" /\ UNCHANGED artifact
             /\ sd' = NoData /\ NoFault /\ Goto(New("idle"))
    <3>1. Steady
      BY <2>2, <2>6 DEF Steady, NoFault
    <3>2. Settled' /\ CleanedUp'
      BY <2>1, <2>2, <2>6, <3>1, SteadyDevice DEF Record, Midway, CleanedUp
    <3>3. sd'.name = "none"
      BY <2>6 DEF NoData
    <3>4. Record'
      BY <2>6, <3>2, <3>3 DEF Record, Midway, Reports
    <3>5. to'.kind = "idle" /\ to'.wraps = "none" /\ to'.status = "none"
      BY <2>6, Fields DEF Goto
    <3> QED
      BY <2>1, <2>6, <3>1, <3>2, <3>3, <3>4, <3>5, FitsNext, MovesOn DEF Goto
  <2>7. CASE /\ sd # NoData /\ UNCHANGED artifact
             /\ sd' = [sd EXCEPT !.count = NextCount(sd.count, 1)] /\ DbFault /\ Exit
    <3>1. Steady
      BY <2>2, <2>7 DEF Steady, DbFault
    <3>2. Record' /\ artifact'.id <= dep'
      BY <2>4, <2>7, <3>1, SteadyDevice DEF OutcomeInv
    <3> QED
      BY <2>7, <3>2 DEF OutcomeInv, Place, Exit
  <2>8. CASE /\ sd # NoData /\ sd.name # "fetch"
             /\ sd' = [sd EXCEPT !.count = NextCount(sd.count, 1)]
             /\ upd' = sd.info
             /\ inst' = IF sd.info.types THEN "current" ELSE "none"
             /\ Goto(Resume(sd))
             /\ IF ResumeBreaks(sd) THEN SetBroken ELSE UNCHANGED artifact /\ NoFault
    <3>1. Steady /\ (ResumeBreaks(sd) => ~(Sound' /\ Unbroken'))
      BY <2>2, <2>8, SetBrokenEnds DEF Steady, NoFault
    <3>2. to' = Resume(sd) /\ Record'
      BY <2>4, <2>8, <3>1 DEF Goto
    <3>3. Fits(to)'
      BY <2>1, <2>2, <2>8, <3>1, <3>2, ResumeFits
    <3>4. to'.kind \notin {"fetchStoreRetry", "preCommitRetry"}
      BY <3>2, ResumeKind DEF TypeOK, WaitKinds
    <3> QED
      BY <2>1, <2>8, <3>1, <3>2, <3>3, <3>4, MovesOn DEF Goto
  <2> QED
    BY <1>1, <2>3, <2>5, <2>6, <2>7, <2>8 DEF HandleInit
<1>2. CASE HandleInitUnreadable
  <2>1. stage = "handle" /\ state.kind = "init"
    BY <1>2 DEF HandleInitUnreadable, At
  <2>2. Steady /\ sd' = sd /\ Remembers /\ ~Sound'
    BY <1>2 DEF HandleInitUnreadable, Steady, Remembers, disk, Sound
  <2>3. Settled' /\ Carried' /\ Record'
    BY <2>2, RecordSame DEF Settled, Carried
  <2>4. to'.kind = "updateError" /\ to'.wraps = "none" /\ to'.status = "none"
    BY <1>2, Fields DEF HandleInitUnreadable, Goto
  <2> QED
    BY <1>2, <2>1, <2>2, <2>3, <2>4, FitsNext, MovesOn
    DEF HandleInitUnreadable, Goto, Reverting
<1>3. CASE HandleInitNoInstallers
  <2>1. stage = "handle" /\ state.kind = "init" /\ Record
    BY <1>3 DEF HandleInitNoInstallers, At, OutcomeInv
  <2>2. Steady /\ Remembers /\ ~Sound'
    BY <1>3 DEF HandleInitNoInstallers, Steady, Remembers, Sound
  <2>3. sd'.name = sd.name /\ sd'.info = sd.info /\ sd # NoData
    BY <1>3 DEF HandleInitNoInstallers, TypeOK, StateData
  <2>4. Settled' /\ CleanedUp' /\ Record'
    BY <2>1, <2>2, <2>3, RecordKept DEF Settled, CleanedUp, Record
  <2>5. to'.kind = "statusReport" /\ to'.wraps = "none" /\ to'.status = "failure"
    BY <1>3, Fields DEF HandleInitNoInstallers, Goto
  <2> QED
    BY <1>3, <2>1, <2>2, <2>4, <2>5, FitsNext, MovesOn
    DEF HandleInitNoInstallers, Goto, Reports
<1>4. CASE HandleIdle
  <2>1. /\ stage = "handle" /\ state.kind = "idle" /\ Settled /\ CleanedUp
        /\ sd.name \in {"none"} \cup Reports
    BY <1>4, Handling DEF HandleIdle, At, Between
  <2>2. Steady /\ Remembers
    BY <1>4 DEF HandleIdle, Steady, Remembers, NoFault, DbFault
  <2>3. sd'.name \in {"none"} \cup Reports /\ Record'
    <3>1. CASE sd' = sd
      BY <2>1, <2>2, <3>1, RecordSame
    <3>2. CASE sd' = NoData
      <4>1. sd'.name = "none" /\ Settled' /\ CleanedUp'
        BY <2>1, <2>2, <3>2, SteadyDevice, CarriedKept DEF NoData
      <4> QED
        BY <3>2, <4>1 DEF Record, Midway, Reports
    <3> QED
      BY <1>4, <3>1, <3>2 DEF HandleIdle
  <2>4. to'.kind = "checkWait" /\ to'.wraps = "none" /\ to'.status = "none"
    BY <1>4, Fields DEF HandleIdle, Goto
  <2> QED
    BY <1>4, <2>1, <2>2, <2>3, <2>4, FitsNext, MovesOn DEF HandleIdle, Goto
<1>5. CASE HandleCheckWait
  <2>1. stage = "handle" /\ state.kind = "checkWait" /\ sd.name \in {"none"} \cup Reports
    BY <1>5, Handling DEF HandleCheckWait, At, Between
  <2>2. Steady /\ Remembers /\ sd' = sd
    BY <1>5 DEF HandleCheckWait, Steady, Remembers, disk, world
  <2>3. Record'
    BY <2>2, RecordSame
  <2>4. to'.kind = "updateCheck" /\ to'.wraps = "none" /\ to'.status = "none"
    BY <1>5, Fields DEF HandleCheckWait, Goto
  <2> QED
    BY <1>5, <2>1, <2>2, <2>3, <2>4, FitsNext, MovesOn DEF HandleCheckWait, Goto
<1>6. CASE HandleUpdateCheck
  <2>1. /\ stage = "handle" /\ state.kind = "updateCheck" /\ sd.name \in {"none"} \cup Reports
        /\ Record /\ sd' = sd /\ artifact' = artifact
    BY <1>6, Handling DEF HandleUpdateCheck, At, Between, OutcomeInv, disk
  <2>2. CASE /\ \E k \in {"checkWait", "error"} : Goto(New(k))
             /\ UNCHANGED <<upd, inst, dep, pay, server, seen, exposed>>
    <3>1. PICK k \in {"checkWait", "error"} : Goto(New(k))
      BY <2>2
    <3>2. Steady /\ Remembers
      BY <2>1, <2>2 DEF Steady, Remembers
    <3>3. Record'
      BY <2>1, <3>2, RecordSame
    <3>4. to'.kind = k /\ to'.wraps = "none" /\ to'.status = "none"
      BY <3>1, Fields DEF Goto
    <3> QED
      BY <2>1, <3>1, <3>2, <3>3, <3>4, FitsNext, MovesOn DEF Goto
  <2>3. CASE /\ dep' = dep + 1 /\ pay' = [p \in 1..N |-> "clean"] /\ seen' = {}
             /\ \E s \in {New("fetch"), NewStatusReport("failure")} : Goto(s)
    <3>1. PICK s \in {New("fetch"), NewStatusReport("failure")} : Goto(s)
      BY <2>3
    <3>2. artifact'.id <= dep' /\ OldName'
      BY <2>1, <2>3 DEF OutcomeInv, OldName, TypeOK
    <3>3. Untouched' /\ Settled' /\ CleanedUp' /\ Carried' /\ "download" \notin seen'
      BY <2>3, <3>2 DEF Untouched, AllClean, Settled, CleanedUp, Carried
    <3>4. Record'
      BY <2>1, <3>3 DEF Record, Midway, Reports
    <3>5. /\ to'.kind \in {"fetch", "statusReport"} /\ to'.wraps = "none"
          /\ to'.status # "success"
      BY <3>1, Fields DEF Goto
    <3>6. Fits(to)'
      BY <3>3, <3>5, FitsNext DEF Reports
    <3>7. Left'
      BY <2>1, <3>1, <3>5 DEF Left, Goto
    <3> QED
      BY <3>1, <3>2, <3>4, <3>6, <3>7 DEF OutcomeInv, Place, Goto
  <2> QED
    BY <1>6, <2>2, <2>3 DEF HandleUpdateCheck
<1>7. CASE HandleErrorState
  <2>1. stage = "handle" /\ state.kind = "error" /\ sd.name \in {"none"} \cup Reports
    BY <1>7, Handling DEF HandleErrorState, At, Between
  <2>2. Steady /\ Remembers /\ sd' = sd
    BY <1>7 DEF HandleErrorState, Steady, Remembers, disk, world
  <2>3. Record'
    BY <2>2, RecordSame
  <2>4. Settled' /\ CleanedUp'
    BY <2>1, <2>2, <2>3 DEF Record, Midway, Reports
  <2>5. to'.kind = "idle" /\ to'.wraps = "none" /\ to'.status = "none"
    BY <1>7, Fields DEF HandleErrorState, Goto
  <2> QED
    BY <1>7, <2>1, <2>2, <2>3, <2>4, <2>5, FitsNext, MovesOn DEF HandleErrorState, Goto
<1> QED
  BY <1>1, <1>2, <1>3, <1>4, <1>5, <1>6, <1>7 DEF Outside

(* transitionState: which states have scripts that can fail. *)
LEMMA LeaveKinds ==
  ASSUME NEW s \in States, LeaveMayFail(TransitionOf(s))
  PROVE  s.kind \in {"updateCheck", "afterStore", "install", "verifyReboot", "afterReboot",
                    "afterCommit"}
<1>1. s.kind \in Kinds
  BY DEF States
<1> QED
  BY <1>1, ScriptsAssumption
  DEF LeaveMayFail, TransitionOf, IgnoredErrors, Kinds, UpdateKinds, WaitKinds, ControlKinds

(* The states whose enter scripts may fail. *)
LEMMA EnterKinds ==
  ASSUME NEW s \in States, EnterMayFail(TransitionOf(s))
  PROVE  s.kind \in {"updateCheck", "fetch", "store", "fetchStoreRetry", "install", "reboot",
                    "rebootPauseRequested", "commit", "preCommitRetry"}
<1>1. s.kind \in Kinds
  BY DEF States
<1> QED
  BY <1>1, ScriptsAssumption
  DEF EnterMayFail, TransitionOf, IgnoredErrors, Kinds, UpdateKinds, WaitKinds, ControlKinds

(* A state that was entered where it fitted can be left again. *)
LEMMA LeftFrom ==
  ASSUME TypeOK, TypeOK', Steady, Remembers, Fits(to), state' = to, inst' = inst, upd' = upd,
         to.kind = "updateCheck" => sd' = sd,
         to'.kind \notin {"fetchStoreRetry", "preCommitRetry"}
  PROVE  Left'
<1>1. Untouched => Reversible
  BY DEF Untouched, Reversible, AllClean, NoneCommitted
<1>2. Applied => Reversible
  BY DEF Applied, Reversible, AllInstalled, NoneCommitted
<1>3. to.kind = "afterStore" => Untouched'
  BY SteadyDevice DEF Fits, Early
<1>4. to.kind \in {"install", "verifyReboot", "afterReboot"} => Reversible'
  BY <1>1, <1>2, SteadyDevice DEF Fits, Late
<1>5. to.kind \in {"afterStore", "install", "verifyReboot", "afterReboot", "afterCommit"}
        => Carried'
  BY CarriedKept DEF Fits, UpdateKinds, Reports
<1>6. to.kind = "updateCheck" => sd'.name \in {"none"} \cup Reports
  BY DEF Fits, Between
<1> QED
  BY <1>3, <1>4, <1>5, <1>6 DEF Left

(* transitionState: the scripts, the store, and what follows if one fails. *)
LEMMA TransitionOutcome ==
  ASSUME TypeOK, TypeOK', AbortInv, OutcomeInv, Transition
  PROVE  OutcomeInv'
<1>1. /\ stage = "transition" /\ Fits(to) /\ Left /\ Record /\ artifact.id <= dep
      /\ idx = 0 /\ err = "nil"
  BY DEF Transition, OutcomeInv, Place
<1>2. /\ pay' = pay /\ dep' = dep /\ inst' = inst /\ upd' = upd /\ seen' = seen
      /\ Remembers
  BY DEF Transition, LeaveFails, Remembers
<1>3. to \in States /\ state \in States
  BY DEF TypeOK
<1>4. CASE LeaveFails
  <2>1. state.kind \in {"updateCheck", "afterStore", "install", "verifyReboot", "afterReboot",
                       "afterCommit"}
    BY <1>3, <1>4, LeaveKinds DEF LeaveFails
  <2>2. /\ Flags(state.kind) /\ Goto(ErrorNext(state.kind, upd.rollback)) /\ sd' = sd
    BY <1>4 DEF LeaveFails, HandleError, Flags
  <2>3. Steady
    BY <1>2, <2>2, FlagsSteady
  <2>4. Record' /\ artifact'.id <= dep'
    BY <1>1, <1>2, <2>2, <2>3, RecordSame, SteadyDevice
  <2>5. state.kind # "updateCheck" => Carried'
    BY <1>1, <1>2, <2>1, <2>3, CarriedKept DEF Left
  <2>6. to'.kind \notin {"fetchStoreRetry", "preCommitRetry"}
    BY <2>2, ErrorFields DEF Goto
  <2>7. Left'
    BY <1>1, <2>1, <2>2, <2>3, <2>5, <2>6, SteadyDevice DEF Left, Goto
  <2>8. Fits(to)'
    <3>1. CASE state.kind = "updateCheck"
      <4>1. to' = New("error") /\ sd'.name \in {"none"} \cup Reports
        BY <1>1, <2>2, <3>1 DEF ErrorNext, Goto, Left
      <4> QED
        BY <4>1, Fields, FitsNext
    <3>2. CASE state.kind = "afterStore"
      BY <1>1, <1>2, <2>2, <2>5, <3>2, ErrorBeforeInstall DEF Left, Goto
    <3>3. CASE state.kind \in {"install", "verifyReboot", "afterReboot"}
      BY <1>1, <1>2, <2>2, <2>5, <3>3, ErrorBeforeCommit DEF Left, Goto
    <3>4. CASE state.kind = "afterCommit"
      BY <1>2, <2>2, <2>5, <3>4, ErrorPastReturn DEF Goto
    <3> QED
      BY <2>1, <3>1, <3>2, <3>3, <3>4
  <2> QED
    BY <2>2, <2>4, <2>7, <2>8 DEF OutcomeInv, Place, Goto
<1>5. CASE EnterState
  <2>1. state' = to
    BY <1>5 DEF EnterState
  <2>2. ASSUME stage' = "handle", to' = to, idx' = 0, err' = "nil", Steady, Record',
               sd' = sd \/ to.kind \in UpdateKinds
        PROVE  OutcomeInv'
    <3>1. PICK s : s = to
      OBVIOUS
    <3>2. Fits(s)'
      BY <1>1, <1>2, <2>2, <3>1, FitsKept
    <3>3. Fits(state)' /\ artifact'.id <= dep' /\ idx' = 0 /\ err' = "nil"
      BY <1>1, <2>1, <2>2, <3>1, <3>2, SteadyDevice
    <3>4. N \in Nat
      BY SizesAssumption
    <3>5. Inside'
      BY <3>3, <3>4 DEF Inside, InStore, InInstall, InCommit, InRest, InRollback, Fits,
         UpdateKinds, Reports
    <3> QED
      BY <2>1, <2>2, <3>3, <3>5 DEF OutcomeInv, Place
  <2>3. CASE to.kind \notin UpdateKinds
    <3>1. /\ stage' = "handle" /\ to' = to /\ idx' = 0 /\ err' = "nil" /\ sd' = sd
          /\ artifact' = artifact /\ NoFault
      BY <1>5, <2>3 DEF EnterState
    <3>2. Steady
      BY <1>2, <3>1 DEF Steady, NoFault
    <3>3. Record'
      BY <1>2, <3>1, <3>2, RecordSame
    <3> QED
      BY <2>2, <3>1, <3>2, <3>3
  <2>4. CASE /\ to.kind \in UpdateKinds /\ sd' = Stored(to.kind, upd, IncStoreCount)
             /\ stage' = "handle" /\ idx' = 0 /\ err' = "nil"
             /\ UNCHANGED <<to, artifact>> /\ NoFault
    <3>1. Steady
      BY <1>2, <2>4 DEF Steady, NoFault
    <3>2. Record'
      BY <1>1, <1>2, <2>4, <3>1, RecordStored
    <3> QED
      BY <2>2, <2>4, <3>1, <3>2
  <2>5. CASE /\ to.kind \in UpdateKinds /\ sd' = Stored(to.kind, upd, IncStoreCount)
             /\ to' = NewStatusReport("failure") /\ stage' = "transition"
             /\ idx' = 0 /\ err' = "nil" /\ SetBroken
    <3>1. Steady /\ ~(Sound' /\ Unbroken')
      BY <1>2, <2>5, SetBrokenEnds
    <3>2. Record' /\ artifact'.id <= dep'
      BY <1>1, <1>2, <2>5, <3>1, RecordStored, SteadyDevice
    <3>3. to'.kind = "statusReport" /\ to'.wraps = "none" /\ to'.status = "failure"
      BY <2>5, Fields
    <3>4. Settled' /\ CleanedUp'
      BY <3>1 DEF Settled, CleanedUp
    <3>5. Fits(to)'
      BY <3>3, <3>4, FitsNext DEF Reports
    <3>6. Left'
      BY <1>1, <1>2, <2>1, <2>5, <3>1, <3>3, LeftFrom DEF UpdateKinds
    <3> QED
      BY <2>5, <3>2, <3>5, <3>6 DEF OutcomeInv, Place
  <2>6. CASE /\ to.kind \in UpdateKinds /\ DbFault /\ sd' = sd /\ idx' = 0 /\ err' = "nil"
             /\ to' = ErrorNext(to.kind, upd.rollback)
             /\ stage' = IF to'.kind = "error" THEN "exited" ELSE "transition"
             /\ artifact' \in {artifact, Broken}
    <3>1. Steady
      BY <1>2, <2>6 DEF Steady, DbFault
    <3>2. Record' /\ artifact'.id <= dep'
      BY <1>1, <1>2, <2>6, <3>1, RecordSame, SteadyDevice
    <3>3. CASE to'.kind = "error"
      BY <2>6, <3>2, <3>3 DEF OutcomeInv, Place
    <3>4. CASE to'.kind # "error"
      <4>1. Fits(to)'
        BY <2>6, <3>4, DbErrorFits
      <4>2. to'.kind \notin {"fetchStoreRetry", "preCommitRetry"}
        BY <2>6, ErrorFields
      <4>3. Left'
        BY <1>1, <1>2, <2>1, <2>6, <3>1, <4>2, LeftFrom
      <4> QED
        BY <2>6, <3>2, <3>4, <4>1, <4>3 DEF OutcomeInv, Place
    <3> QED
      BY <3>3, <3>4
  <2> QED
    BY <1>5, <2>3, <2>4, <2>5, <2>6 DEF EnterState
<1>6. CASE EnterStateFails
  <2>1. /\ state' = to /\ idx' = 0 /\ err' = "nil" /\ stage' = "transition"
        /\ to' = ErrorNext(to.kind, upd.rollback) /\ Flags(to.kind)
        /\ sd' = IF to.kind \in UpdateKinds THEN Stored(to.kind, upd, IncStoreCount) ELSE sd
        /\ TransitionOf(state) # TransitionOf(to) /\ EnterMayFail(TransitionOf(to))
    BY <1>6 DEF EnterStateFails, EnterFails, Flags
  <2>2. to.kind \in {"updateCheck", "fetch", "store", "install", "reboot",
                    "rebootPauseRequested", "commit"}
    <3>1. to.kind \in {"updateCheck", "fetch", "store", "fetchStoreRetry", "install", "reboot",
                      "rebootPauseRequested", "commit", "preCommitRetry"}
      BY <1>3, <2>1, EnterKinds
    <3>2. to.kind = "fetchStoreRetry" => TransitionOf(state) = TransitionOf(to)
      BY <1>1 DEF Left, TransitionOf
    <3>3. to.kind = "preCommitRetry" => TransitionOf(state) = TransitionOf(to)
      BY <1>1 DEF Left, TransitionOf
    <3> QED
      BY <2>1, <3>1, <3>2, <3>3
  <2>3. Steady
    BY <1>2, <2>1, FlagsSteady
  <2>4. Record' /\ artifact'.id <= dep'
    BY <1>1, <1>2, <2>1, <2>3, RecordStored, RecordSame, SteadyDevice
  <2>5. Left'
    BY <1>1, <1>2, <2>1, <2>3, LeftFrom, ErrorFields DEF UpdateKinds
  <2>6. to.kind # "updateCheck" => Carried'
    BY <1>1, <1>2, <2>2, <2>3, CarriedKept DEF Fits, UpdateKinds, Reports
  <2>7. Fits(to)'
    <3>1. CASE to.kind = "updateCheck"
      <4>1. to' = New("error") /\ sd'.name \in {"none"} \cup Reports
        BY <1>1, <2>1, <3>1 DEF ErrorNext, Fits, Between, UpdateKinds
      <4> QED
        BY <4>1, Fields, FitsNext
    <3>2. CASE to.kind \in {"fetch", "store"}
      BY <1>1, <1>2, <2>1, <2>6, <3>2, ErrorBeforeInstall DEF Fits, Early
    <3>3. CASE to.kind \in {"install", "reboot", "rebootPauseRequested", "commit"}
      <4>1. Reversible
        BY <1>1, <3>3 DEF Fits, Late, Untouched, Applied, Reversible, AllClean, AllInstalled,
           NoneCommitted
      <4> QED
        BY <1>2, <2>1, <2>6, <3>3, <4>1, ErrorBeforeCommit
    <3> QED
      BY <2>2, <3>1, <3>2, <3>3
  <2> QED
    BY <2>1, <2>4, <2>5, <2>7 DEF OutcomeInv, Place
<1> QED
  BY <1>4, <1>5, <1>6 DEF Transition

-----------------------------------------------------------------------------
(* The theorems *)

(* Any step keeps the invariant. *)
LEMMA NextOutcome ==
  ASSUME TypeOK, TypeOK', AbortInv, OutcomeInv, [Next]_vars
  PROVE  OutcomeInv'
<1>1. CASE Agent
  BY <1>1, TransitionOutcome, OutsideOutcome, DownloadOutcome, ControlOutcome, ApplyOutcome,
     CommitOutcome, RollbackOutcome, FinishOutcome
  DEF Agent
<1>2. CASE ServiceRestart \/ Crash
  <2>1. /\ Boot /\ seen' = seen
        /\ exposed' = IF InCommitWindow THEN exposed \cup {"commitWindow"} ELSE exposed
    BY <1>2 DEF ServiceRestart, Crash
  <2> QED
    BY <2>1, BootOutcome
<1>3. CASE UNCHANGED <<memory, disk, dep, pay, seen, exposed>>
  BY <1>3
  DEF memory, ctx, disk, OutcomeInv, Place, Record, Inside, Left, Fits, InStore, InInstall,
      InCommit, InRest, InRollback, Untouched, Applied, Reversible, PastReturn, Done, Settled,
      Revertible, Carried, CleanedUp, Sound, Unbroken, Safe, Broken, OldName, AllClean,
      AllInstalled, AllCommitted, NoneCommitted, FirstCommitted, RestApplied
<1> QED
  BY <1>1, <1>2, <1>3 DEF Next, Abort, vars, world

(* A fresh device fits its first state. *)
LEMMA InitOutcome == Init => OutcomeInv
<1> SUFFICES ASSUME Init
             PROVE  OutcomeInv
  OBVIOUS
<1>1. /\ state.kind = "init" /\ state.wraps = "none" /\ state.status = "none"
      /\ to = state /\ stage = "handle" /\ idx = 0 /\ sd = NoData /\ sd.name = "none"
      /\ artifact.id = 0 /\ dep = 0 /\ seen = {} /\ \A p \in 1..N : pay[p] = "clean"
  BY Fields DEF Init, NoData
<1>2. Settled /\ CleanedUp
  BY <1>1 DEF Settled, CleanedUp, Untouched, AllClean, OldName
<1>3. Record
  BY <1>1, <1>2 DEF Record, Midway, Reports
<1>4. Fits(state)
  BY <1>1 DEF Fits, Early, Late, Reverting, Reports, Between, UpdateKinds, WaitKinds,
     ControlKinds
<1>5. Inside
  BY <1>1, <1>4 DEF Inside, InStore, InInstall, InCommit, InRest, InRollback
<1> QED
  BY <1>1, <1>3, <1>5 DEF OutcomeInv, Place

(* At every place of the state machine, and under every record a restart   *)
(* may find, the payloads and the artifact name are what the handlers and  *)
(* initState.getNextState count on.                                        *)
THEOREM OutcomeInductive == Spec => [](TypeOK /\ AbortInv /\ OutcomeInv)
<1>1. Init => TypeOK /\ AbortInv /\ OutcomeInv
  BY InitType, InitAborts, InitOutcome
<1>2. TypeOK /\ AbortInv /\ OutcomeInv /\ [Next]_vars => (TypeOK /\ AbortInv /\ OutcomeInv)'
  BY NextType, NextAborts, NextOutcome
<1> QED
  BY <1>1, <1>2, PTL DEF Spec

(* A deployment that ends without a hole and without the broken flag is    *)
(* all or nothing, for any number of payloads and whatever crashes,        *)
(* scripts, payload handlers and the server do.                            *)
THEOREM AllOrNothing == Spec => []OutcomeConsistent
<1>1. TypeOK /\ AbortInv /\ OutcomeInv => OutcomeConsistent
  <2> SUFFICES ASSUME TypeOK, OutcomeInv, At("idle"), dep > 0, Sound, Unbroken
               PROVE  \/ artifact.id = dep /\ \A p \in 1..N : pay[p] = "committed"
                      \/ artifact.id # dep /\ \A p \in 1..N : pay[p] = "clean"
    BY DEF OutcomeConsistent
  <2>1. Done \/ Untouched
    BY Handling DEF At, Settled
  <2> QED
    BY <2>1, BrokenFact, SizesAssumption
    DEF Done, Untouched, OldName, AllClean, AllCommitted
<1> QED
  BY <1>1, OutcomeInductive, PTL

(* No crash forgets an update half way: a payload that is installed but    *)
(* not committed has a record that makes a restart act on it.              *)
THEOREM HalfIsRecorded == Spec => []DirtyIsRecorded
<1>1. TypeOK /\ AbortInv /\ OutcomeInv => DirtyIsRecorded
  BY DEF OutcomeInv, Record, Midway, DirtyIsRecorded, Settled, Done, Untouched, AllClean,
     AllCommitted
<1> QED
  BY <1>1, OutcomeInductive, PTL

(* The rollback state never meets a committed payload, unless a restart    *)
(* fell into the commit window or a database write failed.                 *)
THEOREM CommitIsFinal == Spec => []CommittedIsFinal
<1>1. TypeOK /\ AbortInv /\ OutcomeInv => CommittedIsFinal
  BY DEF OutcomeInv, Place, Inside, InRollback, Revertible, NoneCommitted, Safe,
     CommittedIsFinal, At
<1> QED
  BY <1>1, OutcomeInductive, PTL

(* What was downloaded is cleaned up before the deployment is forgotten,   *)
(* also when the cleanup runs after a restart.                             *)
THEOREM CleanupComesFirst == Spec => []CleanupRuns
<1>1. TypeOK /\ AbortInv /\ OutcomeInv => CleanupRuns
  BY Handling DEF CleanupRuns, CleanedUp, At
<1> QED
  BY <1>1, OutcomeInductive, PTL

(* Only the report of a done deployment tells the server of a success. *)
LEMMA SuccessStep ==
  ASSUME TypeOK, AbortInv, OutcomeInv, Next,
         server'.told = "success", server.told # "success"
  PROVE  Done
<1>1. server' # server
  OBVIOUS
<1>2. NewServer.told = "none" /\ \A x : [server EXCEPT !.phase = x].told = server.told
  BY DEF NewServer, TypeOK
<1>3. CASE HandleStatusReport
  <2>1. state.status = "success"
    BY <1>3 DEF HandleStatusReport, TypeOK
  <2> QED
    BY <1>3, <2>1, Handling DEF HandleStatusReport, At, Reports
<1>4. CASE HandleUpdateCheck \/ Abort
  BY <1>1, <1>2, <1>4 DEF HandleUpdateCheck, Abort
<1>5. CASE Transition
  BY <1>1, <1>5 DEF Transition
<1>6. CASE Outside /\ ~HandleUpdateCheck
  BY <1>1, <1>6 DEF Outside, HandleInit, HandleInitUnreadable, HandleInitNoInstallers,
     HandleIdle, HandleCheckWait, HandleErrorState, world
<1>7. CASE Download
  BY <1>1, <1>7 DEF Download, HandleFetch, HandleFetchStoreRetry, HandleStoreRejected,
     HandleStorePayloads, HandleSupportsRollback, HandleStoreEnd, HandleAfterStore, world
<1>8. CASE Control
  BY <1>1, <1>8 DEF Control, HandleFetchControlMap, HandleFetchRetryControlMap,
     HandleControlMapContinue, HandleControlMapPauseAction, HandleControlMapFail,
     HandleControlMapPause, HandleRebootPauseRequested, world
<1>9. CASE Apply
  BY <1>1, <1>9 DEF Apply, HandleInstallBegin, HandleInstallPayload, HandleRebootType,
     HandleRebootRefused, HandleRebootHost, HandleRebootReturns, HandleVerifyReboot,
     HandleAfterReboot, Boot, world
<1>10. CASE Commit
  BY <1>1, <1>10 DEF Commit, HandleCommitBegin, CommitBegin, HandlePreCommitRetry,
     HandleCommitFirst, HandleCommitStore, HandleAfterFirstCommit, HandleAfterFirstCommitEnd,
     HandleAfterCommit, world
<1>11. CASE Rollback
  BY <1>1, <1>11 DEF Rollback, HandleRollbackPayload, HandleRollbackEnd, RollbackEnd,
     HandleRollbackRebootHost, HandleRollbackRebootReturns, HandleVerifyRollbackReboot,
     HandleAfterRollbackReboot, Boot, world
<1>12. CASE Finish /\ ~HandleStatusReport
  BY <1>1, <1>12 DEF Finish, HandleUpdateError, HandleCleanup, HandleStatusReportRetry, world
<1>13. CASE ServiceRestart \/ Crash
  BY <1>1, <1>13 DEF ServiceRestart, Crash, Boot
<1> QED
  BY <1>3, <1>4, <1>5, <1>6, <1>7, <1>8, <1>9, <1>10, <1>11, <1>12, <1>13 DEF Next, Agent

(* The server is told of a success only when every payload is committed    *)
(* and the database has the artifact's name.                               *)
THEOREM SuccessIsCommitted == Spec => SuccessMeansCommitted
<1>1. TypeOK /\ AbortInv /\ OutcomeInv /\ [Next]_vars
        => [ server'.told = "success" /\ server.told # "success" =>
               artifact.id = dep /\ \A p \in 1..N : pay[p] = "committed" ]_vars
  BY SuccessStep DEF Done, AllCommitted
<1>2. Spec => [][Next]_vars
  BY PTL DEF Spec
<1> QED
  BY <1>1, <1>2, OutcomeInductive, PTL DEF SuccessMeansCommitted

-----------------------------------------------------------------------------
(* How often an orderly deployment stores its state.  The count is bounded *)
(* by the place in the state machine, so that no path without a fault and  *)
(* without a failing rollback reboot meets the loop breaker.               *)

(* The highest store count with which a state is left ... *)
Spent(s) ==
  CASE s.kind \in {"checkWait", "updateCheck", "fetch", "fetchStoreRetry"} -> 0
    [] s.kind = "store" -> 3
    [] s.kind = "afterStore" -> 4
    [] s.kind \in ControlKinds ->
         IF s.wraps = "install" THEN 4 ELSE IF s.wraps = "reboot" THEN 5 ELSE 7
    [] s.kind \in {"install", "rebootPauseRequested", "reboot"} -> 5
    [] s.kind = "verifyReboot" -> 6
    [] s.kind \in {"afterReboot", "preCommitRetry"} -> 7
    [] s.kind \in {"commit", "rollback"} -> 8
    [] s.kind \in {"afterFirstCommit", "rollbackReboot"} -> 9
    [] s.kind \in {"init", "afterCommit", "verifyRollbackReboot"} -> 10
    [] s.kind = "afterRollbackReboot" -> 11
    [] s.kind = "updateError" -> 12
    [] s.kind = "cleanup" -> 13
    [] OTHER -> 14

(* ... and with which it is entered: three handlers store once more. *)
Paid(s) == CASE s.kind = "store" -> 1
             [] s.kind = "install" -> 4
             [] s.kind = "commit" -> 7
             [] OTHER -> Spent(s)

(* Only a wait for the reboot has a state to pause in *)
Tidy(s) == s.kind \in ControlKinds /\ s.pause # "none" => s.wraps = "reboot"

(* What entering "to" adds *)
Charge == IF to.kind \in UpdateKinds THEN IncStoreCount ELSE 0

Within ==
  /\ sd.count <= Spent(state) /\ Tidy(state)
  /\ At("install") \/ At("commit") => sd.count <= Paid(state)
  /\ At("store") => idx <= 2 /\ sd.count <= idx + 1
  /\ stage = "transition" =>
       to.kind # "init" /\ Tidy(to) /\ sd.count + Charge <= Paid(to)
  /\ At("init") => \/ sd = NoData
                   \/ sd.name = "reboot" /\ sd.count <= 5
                   \/ sd.name = "rollbackReboot" /\ sd.count <= 9

(* Between two deployments the state data is gone *)
Polls(s) == s.kind \in {"checkWait", "updateCheck"}

Orderly ==
  faults = 0 =>
    /\ stage # "exited"
    /\ (stage = "handle" /\ Polls(state)) \/ (stage = "transition" /\ Polls(to))
         => sd = NoData
    /\ "rollbackRetry" \notin seen => Within

(* A step may only add to the history of failing rollback reboots *)
Grows == /\ faults' = 0 => faults = 0
         /\ "rollbackRetry" \in seen => "rollbackRetry" \in seen'

LEMMA GrowsFaults ==
  ASSUME TypeOK, NoFault \/ DbFault
  PROVE  faults' = 0 => faults = 0 /\ NoFault
BY DEF TypeOK, NoFault, DbFault

(* A handler ends: the count has room for the state it goes to. *)
LEMMA Onward ==
  ASSUME Orderly, Grows, stage' = "transition", state' = state,
         faults' = 0 /\ Polls(to') => sd' = NoData,
         faults' = 0 /\ Within /\ "rollbackRetry" \notin seen' =>
           /\ to'.kind # "init" /\ Tidy(to')
           /\ sd'.count <= Spent(state) /\ sd'.count + Charge' <= Paid(to')
  PROVE  Orderly'
BY DEF Orderly, Grows, Within, Tidy, At, Polls, Paid, Spent

(* A handler goes on. *)
LEMMA Stays ==
  ASSUME Orderly, Grows, UNCHANGED <<state, to, stage, sd>>, stage = "handle",
         state.kind # "store"
  PROVE  Orderly'
BY DEF Orderly, Grows, Within, Tidy, At, Polls

(* What is left for the states a state may go to *)
Holds(s) == IF s.kind \in {"install", "commit"} THEN Paid(s) ELSE Spent(s)
Fee(s, t) == IF /\ s.kind \in UpdateKinds /\ t.kind \in UpdateKinds
                /\ ~PermitLooping(s.kind) /\ ~PermitLooping(t.kind) THEN 1 ELSE 0
Room(s, t) == /\ t.kind # "init" /\ Tidy(t)
              /\ Holds(s) \in Nat /\ Paid(t) \in Nat
              /\ Holds(s) + Fee(s, t) <= Paid(t) /\ Holds(s) <= Spent(s)

(* A handler that stores nothing ends. *)
LEMMA Onto ==
  ASSUME TypeOK, TypeOK', Orderly, Grows, stage = "handle", stage' = "transition",
         state' = state, sd' = sd, ~Polls(to'), Within => Room(state, to')
  PROVE  Orderly'
<1>1. sd.count \in Nat
  BY DEF TypeOK, StateData
<1>2. Within => sd.count <= Holds(state)
  BY DEF Within, At, Holds
<1>3. Charge' = Fee(state, to')
  BY DEF Charge, IncStoreCount, Fee
<1>4. Fee(state, to') \in Nat
  BY DEF Fee
<1>5. Within => sd'.count <= Spent(state) /\ sd'.count + Charge' <= Paid(to')
  BY <1>1, <1>2, <1>3, <1>4 DEF Room, Within
<1> QED
  BY <1>5, Onward DEF Room

(* The target of HandleError before and after the point of no return *)
LEMMA ErrorKinds ==
  \A r :
    /\ \A k \in {"install", "rebootPauseRequested", "reboot", "verifyReboot", "afterReboot",
                 "commit"} : ErrorNext(k, r).kind \in {"rollback", "updateError"}
    /\ \A k \in {"store", "afterStore", "afterFirstCommit", "afterCommit"} :
         ErrorNext(k, r).kind = "cleanup"
    /\ \A k \in {"fetch", "rollback"} : ErrorNext(k, r).kind = "updateError"
    /\ ErrorNext("verifyRollbackReboot", r).kind = "rollbackReboot"
    /\ \A k \in {"updateCheck", "fetchStoreRetry", "preCommitRetry"} :
         ErrorNext(k, r).kind = "error"
BY KindFacts DEF ErrorNext

LEMMA ErrorGrows ==
  ASSUME TypeOK, NEW k, HandleError(k)
  PROVE  /\ stage' = "transition" /\ state' = state /\ (faults' = 0 => faults = 0)
         /\ to' = ErrorNext(k, upd.rollback)
BY GrowsFaults DEF HandleError, SetBroken, Goto

(* Fetching and storing: three stores, and one to leave. *)
LEMMA DownloadOrderly ==
  ASSUME TypeOK, TypeOK', Orderly, Download
  PROVE  Orderly'
<1>1. CASE HandleFetch
  <2>1. /\ stage = "handle" /\ state.kind = "fetch"
        /\ stage' = "transition" /\ state' = state /\ sd' = sd /\ Grows
    BY <1>1 DEF HandleFetch, At, Goto, disk, ctx, Learn, ReportOutcomes, Grows
  <2>2. to'.kind \in {"statusReport", "store", "fetchStoreRetry"}
    BY <1>1, KindFacts DEF HandleFetch, At, Goto, disk, ctx, Learn, ReportOutcomes
  <2>3. Room(state, to') /\ ~Polls(to')
    BY <2>1, <2>2
    DEF Room, Tidy, Holds, Fee, Paid, Spent, Polls, PermitLooping, UpdateKinds, ControlKinds
  <2> QED
    BY <2>1, <2>3, Onto
<1>2. CASE HandleFetchStoreRetry
  <2>1. /\ stage = "handle" /\ state.kind = "fetchStoreRetry"
        /\ stage' = "transition" /\ state' = state /\ sd' = sd /\ Grows
    BY <1>2 DEF HandleFetchStoreRetry, At, Goto, disk, world, Grows
  <2>2. to'.kind \in {"updateError", "fetch"}
    BY <1>2, KindFacts DEF HandleFetchStoreRetry, At, Goto, disk, world
  <2>3. Room(state, to') /\ ~Polls(to')
    BY <2>1, <2>2
    DEF Room, Tidy, Holds, Fee, Paid, Spent, Polls, PermitLooping, UpdateKinds, ControlKinds
  <2> QED
    BY <2>1, <2>3, Onto
<1>3. CASE HandleStoreRejected
  <2>1. /\ stage = "handle" /\ state.kind = "store"
        /\ stage' = "transition" /\ state' = state /\ sd' = sd /\ Grows
    BY <1>3 DEF HandleStoreRejected, At, Goto, disk, ctx, Learn, ReportOutcomes, Grows
  <2>2. to'.kind \in {"statusReport", "cleanup"}
    BY <1>3, KindFacts DEF HandleStoreRejected, At, Goto, disk, ctx, Learn, ReportOutcomes
  <2>3. Room(state, to') /\ ~Polls(to')
    BY <2>1, <2>2
    DEF Room, Tidy, Holds, Fee, Paid, Spent, Polls, PermitLooping, UpdateKinds, ControlKinds
  <2> QED
    BY <2>1, <2>3, Onto
<1>4. CASE HandleStorePayloads
  <2>1. stage = "handle" /\ state.kind = "store" /\ idx = 0 /\ state' = state
    BY <1>4 DEF HandleStorePayloads, At, Goto, BreakLoop
  <2>2. "rollbackRetry" \in seen <=> "rollbackRetry" \in seen'
    BY <1>4 DEF HandleStorePayloads
  <2>3. faults' = 0 => faults = 0 /\ NoFault
    BY <1>4, GrowsFaults DEF HandleStorePayloads, BreakLoop, SetBroken
  <2>4. Grows
    BY <2>2, <2>3 DEF Grows
  <2>5. CASE stage' = "transition"
    <3>1. to'.kind \in {"statusReport", "cleanup"}
      BY <1>4, <2>1, <2>5, KindFacts DEF HandleStorePayloads, Goto, BreakLoop
    <3>2. ASSUME faults' = 0, Within PROVE sd'.count <= 2
      <4>1. sd.count \in Nat /\ sd.count <= 1
        BY <2>1, <3>2 DEF Within, At, TypeOK, StateData
      <4>2. sd' = Stored("store", upd', 1) \/ sd' = sd
        BY <1>4 DEF HandleStorePayloads
      <4> QED
        BY <4>1, <4>2, SizesAssumption DEF Stored, NextCount, CountExceeded
    <3>3. sd'.count \in Nat
      BY DEF TypeOK, StateData
    <3>4. Charge' \in {0, 1}
      BY DEF Charge, IncStoreCount
    <3>5. Spent(state) = 3 /\ Paid(to') >= 13 /\ Paid(to') \in Nat
      BY <2>1, <3>1 DEF Spent, Paid, ControlKinds
    <3> QED
      BY <2>1, <2>4, <2>5, <3>1, <3>2, <3>3, <3>4, <3>5, Onward
      DEF Polls, Tidy, ControlKinds
  <2>6. CASE stage' # "transition"
    <3>1. /\ idx' = 1 /\ UNCHANGED <<state, to, stage>> /\ ~CountExceeded(sd.count)
          /\ sd' = Stored("store", upd', 1)
      BY <1>4, <2>6 DEF HandleStorePayloads, Goto, BreakLoop
    <3>2. sd'.count = sd.count + 1 /\ sd.count \in Nat
      BY <3>1 DEF Stored, NextCount, TypeOK, StateData
    <3>3. Within => Within'
      BY <2>1, <3>1, <3>2 DEF Within, Tidy, At, Spent, ControlKinds
    <3> QED
      BY <2>1, <2>4, <3>1, <3>3 DEF Orderly, Grows, Polls
  <2> QED
    BY <2>5, <2>6
<1>5. CASE HandleSupportsRollback
  <2>1. stage = "handle" /\ state.kind = "store" /\ idx = 1 /\ state' = state /\ seen' = seen
    BY <1>5 DEF HandleSupportsRollback, At, Goto, BreakLoop
  <2>3. faults' = 0 => faults = 0 /\ NoFault
    BY <1>5, GrowsFaults DEF HandleSupportsRollback, BreakLoop, SetBroken
  <2>4. Grows
    BY <2>1, <2>3 DEF Grows
  <2>5. CASE stage' = "transition"
    <3>1. to'.kind \in {"statusReport", "updateError"}
      BY <1>5, <2>1, <2>5, KindFacts DEF HandleSupportsRollback, Goto, BreakLoop
    <3>2. ASSUME faults' = 0, Within PROVE sd'.count <= 3
      <4>1. sd.count \in Nat /\ sd.count <= 2
        BY <2>1, <3>2 DEF Within, At, TypeOK, StateData
      <4>2. sd' = Stored("store", upd', 1) \/ sd' = sd
        BY <1>5 DEF HandleSupportsRollback, disk
      <4> QED
        BY <4>1, <4>2, SizesAssumption DEF Stored, NextCount, CountExceeded
    <3>3. sd'.count \in Nat
      BY DEF TypeOK, StateData
    <3>4. Charge' \in {0, 1}
      BY DEF Charge, IncStoreCount
    <3>5. Spent(state) = 3 /\ Paid(to') >= 12 /\ Paid(to') \in Nat
      BY <2>1, <3>1 DEF Spent, Paid, ControlKinds
    <3> QED
      BY <2>1, <2>4, <2>5, <3>1, <3>2, <3>3, <3>4, <3>5, Onward
      DEF Polls, Tidy, ControlKinds
  <2>6. CASE stage' # "transition"
    <3>1. /\ idx' = 2 /\ UNCHANGED <<state, to, stage>> /\ ~CountExceeded(sd.count)
          /\ sd' = Stored("store", upd', 1)
      BY <1>5, <2>6 DEF HandleSupportsRollback, Goto, BreakLoop
    <3>2. sd'.count = sd.count + 1 /\ sd.count \in Nat
      BY <3>1 DEF Stored, NextCount, TypeOK, StateData
    <3>3. Within => Within'
      BY <2>1, <3>1, <3>2 DEF Within, Tidy, At, Spent, ControlKinds
    <3> QED
      BY <2>1, <2>4, <3>1, <3>3 DEF Orderly, Grows, Polls
  <2> QED
    BY <2>5, <2>6
<1>6. CASE HandleStoreEnd
  <2>1. /\ stage = "handle" /\ state.kind = "store"
        /\ stage' = "transition" /\ state' = state /\ sd' = sd /\ Grows
    BY <1>6 DEF HandleStoreEnd, At, Goto, disk, Learn, ReportOutcomes, Grows
  <2>2. to'.kind \in {"updateError", "afterStore"}
    BY <1>6, KindFacts DEF HandleStoreEnd, At, Goto, disk, Learn, ReportOutcomes
  <2>3. Room(state, to') /\ ~Polls(to')
    BY <2>1, <2>2
    DEF Room, Tidy, Holds, Fee, Paid, Spent, Polls, PermitLooping, UpdateKinds, ControlKinds
  <2> QED
    BY <2>1, <2>3, Onto
<1>7. CASE HandleAfterStore
  <2>1. /\ stage = "handle" /\ state.kind = "afterStore"
        /\ stage' = "transition" /\ state' = state /\ sd' = sd /\ Grows
    BY <1>7 DEF HandleAfterStore, At, Goto, disk, world, Grows
  <2>2. to'.kind = "fetchControlMap" /\ to'.wraps = "install" /\ to'.pause = "none"
    BY <1>7 DEF HandleAfterStore, Goto, NewControl, New
  <2>3. Room(state, to') /\ ~Polls(to')
    BY <2>1, <2>2
    DEF Room, Tidy, Holds, Fee, Paid, Spent, Polls, PermitLooping, UpdateKinds, ControlKinds
  <2> QED
    BY <2>1, <2>3, Onto
<1> QED
  BY <1>1, <1>2, <1>3, <1>4, <1>5, <1>6, <1>7 DEF Download

(* Waiting for the server's word stores nothing: a wait costs what the *)
(* state it wraps costs.                                                 *)
LEMMA ControlGoes ==
  ASSUME TypeOK, TypeOK', Orderly, Grows, stage = "handle", state.kind \in ControlKinds,
         sd' = sd,
         \/ Goto(New(state.wraps))
         \/ state.pause # "none" /\ Goto(New(state.pause))
         \/ \E k \in ControlKinds, c \in {"none", state.pause} :
              Goto(NewControl(k, state.wraps, c))
         \/ HandleError(state.wraps)
  PROVE  Orderly'
<1>1. /\ state.wraps \in {"install", "reboot", "commit"}
      /\ state.pause \in {"none", "rebootPauseRequested"}
  BY ControlFields DEF Wrappable, PauseStates
<1>2. stage' = "transition" /\ state' = state
  BY DEF Goto, HandleError
<1>3. CASE Goto(New(state.wraps))
  <2>1. to'.kind = state.wraps
    BY <1>3, KindFacts DEF Goto
  <2> QED
    BY <1>1, <1>2, <2>1, Onto
    DEF Room, Tidy, Holds, Fee, Paid, Spent, Polls, PermitLooping, UpdateKinds, ControlKinds
<1>4. CASE state.pause # "none" /\ Goto(New(state.pause))
  <2>1. to'.kind = "rebootPauseRequested"
    BY <1>1, <1>4, KindFacts DEF Goto
  <2>2. Within => state.wraps = "reboot"
    BY <1>4 DEF Within, Tidy
  <2>3. ~Polls(to') /\ (Within => Room(state, to'))
    BY <2>1, <2>2
    DEF Room, Tidy, Holds, Fee, Paid, Spent, Polls, PermitLooping, UpdateKinds, ControlKinds
  <2> QED
    BY <1>2, <2>3, Onto
<1>5. CASE \E k \in ControlKinds, c \in {"none", state.pause} :
             Goto(NewControl(k, state.wraps, c))
  <2>1. /\ to'.kind \in ControlKinds /\ to'.wraps = state.wraps
        /\ to'.pause \in {"none", state.pause}
    BY <1>5 DEF Goto, NewControl, New
  <2>2. ~Polls(to') /\ (Within => Tidy(to'))
    BY <2>1 DEF Within, Tidy, Polls, ControlKinds
  <2>3. Within => Room(state, to')
    BY <1>1, <2>1, <2>2 DEF Room, Holds, Fee, Paid, Spent, UpdateKinds, ControlKinds
  <2> QED
    BY <1>2, <2>2, <2>3, Onto
<1>6. CASE HandleError(state.wraps)
  <2>1. to'.kind \in {"rollback", "updateError"}
    <3>1. to' = ErrorNext(state.wraps, upd.rollback)
      BY <1>6, ErrorGrows
    <3> QED
      BY <1>1, <3>1, ErrorKinds
  <2>2. ~Polls(to') /\ Room(state, to')
    BY <1>1, <2>1
    DEF Room, Tidy, Holds, Fee, Paid, Spent, Polls, PermitLooping, UpdateKinds, ControlKinds
  <2> QED
    BY <1>2, <2>2, Onto
<1> QED
  BY <1>3, <1>4, <1>5, <1>6

(* The update control maps. *)
LEMMA ControlOrderly ==
  ASSUME TypeOK, TypeOK', Orderly, Control
  PROVE  Orderly'
<1>1. CASE HandleFetchControlMap
  <2>1. Grows
    BY <1>1, ErrorGrows DEF HandleFetchControlMap, Grows, NoFault
  <2> QED
    BY <1>1, <2>1, ControlGoes DEF HandleFetchControlMap, At, ControlKinds
<1>2. CASE HandleFetchRetryControlMap
  <2>1. Grows
    BY <1>2, ErrorGrows DEF HandleFetchRetryControlMap, Grows, NoFault
  <2> QED
    BY <1>2, <2>1, ControlGoes DEF HandleFetchRetryControlMap, At, ControlKinds
<1>3. CASE HandleControlMapContinue
  <2>1. Grows
    BY <1>3 DEF HandleControlMapContinue, Grows, world
  <2> QED
    BY <1>3, <2>1, ControlGoes DEF HandleControlMapContinue, At, ControlKinds, disk
<1>4. CASE HandleControlMapPauseAction
  <2>1. Grows
    BY <1>4, ErrorGrows
    DEF HandleControlMapPauseAction, Grows, NoFault, Learn, ReportOutcomes
  <2> QED
    BY <1>4, <2>1, ControlGoes DEF HandleControlMapPauseAction, At, ControlKinds
<1>5. CASE HandleControlMapFail
  <2>1. Grows
    BY <1>5, ErrorGrows DEF HandleControlMapFail, Grows
  <2> QED
    BY <1>5, <2>1, ControlGoes DEF HandleControlMapFail, At, ControlKinds
<1>6. CASE HandleControlMapPause
  <2>1. Grows
    BY <1>6 DEF HandleControlMapPause, Grows, world
  <2> QED
    BY <1>6, <2>1, ControlGoes DEF HandleControlMapPause, At, ControlKinds, disk
<1>7. CASE HandleRebootPauseRequested
  <2>1. /\ stage = "handle" /\ state.kind = "rebootPauseRequested"
        /\ stage' = "transition" /\ state' = state /\ sd' = sd /\ Grows
    BY <1>7 DEF HandleRebootPauseRequested, At, Goto, disk, world, Grows
  <2>2. to'.kind = "controlMap" /\ to'.wraps = "reboot"
    BY <1>7 DEF HandleRebootPauseRequested, Goto, NewControl, New
  <2>3. Room(state, to') /\ ~Polls(to')
    BY <2>1, <2>2
    DEF Room, Tidy, Holds, Fee, Paid, Spent, Polls, PermitLooping, UpdateKinds, ControlKinds
  <2> QED
    BY <2>1, <2>3, Onto
<1> QED
  BY <1>1, <1>2, <1>3, <1>4, <1>5, <1>6, <1>7 DEF Control

(* Installing and rebooting: the reboot types, and a restart. *)
LEMMA ApplyOrderly ==
  ASSUME TypeOK, TypeOK', Orderly, HandledIsStored, Apply
  PROVE  Orderly'
<1>1. CASE HandleInstallBegin
  <2>1. stage = "handle" /\ state.kind = "install" /\ state' = state /\ sd' = sd /\ Grows
    BY <1>1, ErrorGrows
    DEF HandleInstallBegin, At, Goto, NoFault, Learn, ReportOutcomes, Grows
  <2>2. CASE UNCHANGED <<to, stage>>
    BY <2>1, <2>2, Stays
  <2>3. CASE ~UNCHANGED <<to, stage>>
    <3>1. stage' = "transition" /\ to'.kind \in {"updateError", "rollback"}
      BY <1>1, <2>3, KindFacts, ErrorGrows, ErrorKinds
      DEF HandleInstallBegin, At, Goto, NoFault, Learn, ReportOutcomes
    <3>2. Room(state, to') /\ ~Polls(to')
      BY <2>1, <3>1
      DEF Room, Tidy, Holds, Fee, Paid, Spent, Polls, PermitLooping, UpdateKinds,
          ControlKinds
    <3> QED
      BY <2>1, <3>1, <3>2, Onto
  <2> QED
    BY <2>2, <2>3
<1>2. CASE HandleInstallPayload
  <2>1. stage = "handle" /\ state.kind = "install" /\ state' = state /\ sd' = sd /\ Grows
    BY <1>2, ErrorGrows DEF HandleInstallPayload, At, NoFault, Grows
  <2>2. CASE UNCHANGED <<to, stage>>
    BY <2>1, <2>2, Stays
  <2>3. CASE ~UNCHANGED <<to, stage>>
    <3>1. stage' = "transition" /\ to'.kind \in {"updateError", "rollback"}
      BY <1>2, <2>3, KindFacts, ErrorGrows, ErrorKinds DEF HandleInstallPayload, At, NoFault
    <3>2. Room(state, to') /\ ~Polls(to')
      BY <2>1, <3>1
      DEF Room, Tidy, Holds, Fee, Paid, Spent, Polls, PermitLooping, UpdateKinds,
          ControlKinds
    <3> QED
      BY <2>1, <3>1, <3>2, Onto
  <2> QED
    BY <2>2, <2>3
<1>3. CASE HandleRebootType
  <2>1. /\ stage = "handle" /\ state.kind = "install" /\ state' = state /\ seen' = seen
        /\ stage' = "transition"
    BY <1>3, ErrorGrows DEF HandleRebootType, At, Goto, BreakLoop
  <2>2. faults' = 0 => faults = 0
    BY <1>3, ErrorGrows, GrowsFaults DEF HandleRebootType, BreakLoop, SetBroken
  <2>3. Grows
    BY <2>1, <2>2 DEF Grows
  <2>4. sd' = Stored("install", upd', 1) \/ sd' = sd
    BY <1>3 DEF HandleRebootType
  <2>5. \/ to'.kind \in {"statusReport", "rollback", "updateError"}
        \/ to'.kind = "fetchControlMap" /\ to'.wraps = "commit" /\ to'.pause = "none"
        \/ to'.kind = "fetchControlMap" /\ to'.wraps = "reboot"
    <3>1. \/ HandleError("install")
          \/ BreakLoop
          \/ Goto(NewControl("fetchControlMap", "reboot", "rebootPauseRequested"))
          \/ Goto(NewControl("fetchControlMap", "commit", "none"))
          \/ Goto(ErrorNext("install", upd.rollback))
      BY <1>3 DEF HandleRebootType
    <3>2. CASE HandleError("install") \/ Goto(ErrorNext("install", upd.rollback))
      BY <3>2, ErrorGrows, ErrorKinds DEF Goto
    <3>3. CASE BreakLoop
      BY <3>3, KindFacts DEF BreakLoop, Goto
    <3>4. CASE Goto(NewControl("fetchControlMap", "reboot", "rebootPauseRequested"))
      BY <3>4 DEF Goto, NewControl, New
    <3>5. CASE Goto(NewControl("fetchControlMap", "commit", "none"))
      BY <3>5 DEF Goto, NewControl, New
    <3> QED
      BY <3>1, <3>2, <3>3, <3>4, <3>5
  <2>6. ASSUME Within PROVE sd'.count <= 5
    <3>1. sd.count \in Nat /\ sd.count <= 4
      BY <2>1, <2>6 DEF Within, At, Paid, TypeOK, StateData
    <3> QED
      BY <2>4, <3>1, SizesAssumption DEF Stored, NextCount, CountExceeded
  <2>7. sd'.count \in Nat
    BY DEF TypeOK, StateData
  <2>8. Charge' \in {0, 1} /\ (to'.kind \notin UpdateKinds => Charge' = 0)
    BY DEF Charge, IncStoreCount
  <2>9. /\ Spent(state) = 5 /\ Tidy(to') /\ ~Polls(to') /\ to'.kind # "init"
        /\ Paid(to') \in Nat /\ Paid(to') >= 5
        /\ (to'.kind \in UpdateKinds => Paid(to') >= 6)
    BY <2>1, <2>5 DEF Spent, Paid, Tidy, Polls, UpdateKinds, ControlKinds
  <2> QED
    BY <2>1, <2>3, <2>6, <2>7, <2>8, <2>9, Onward
<1>4. CASE HandleRebootRefused
  <2>1. /\ stage = "handle" /\ state.kind = "reboot"
        /\ stage' = "transition" /\ state' = state /\ sd' = sd /\ Grows
    BY <1>4 DEF HandleRebootRefused, At, Goto, disk, Grows
  <2>2. to'.kind \in {"rollback"}
    BY <1>4, KindFacts DEF HandleRebootRefused, At, Goto, disk
  <2>3. Room(state, to') /\ ~Polls(to')
    BY <2>1, <2>2
    DEF Room, Tidy, Holds, Fee, Paid, Spent, Polls, PermitLooping, UpdateKinds, ControlKinds
  <2> QED
    BY <2>1, <2>3, Onto
<1>5. CASE HandleRebootHost
  <2>1. /\ stage = "handle" /\ state.kind = "reboot" /\ state' = New("init")
        /\ stage' = "handle" /\ sd' = sd /\ faults' = faults /\ seen' = seen
    BY <1>5 DEF HandleRebootHost, At, Boot, disk
  <2>2. state'.kind = "init" /\ state'.pause = "none"
    BY <2>1 DEF New
  <2>3. sd.name = "reboot"
    BY <2>1 DEF HandledIsStored, StoredName, UpdateKinds
  <2>4. Within => sd.count <= 5
    BY <2>1 DEF Within, Spent, ControlKinds
  <2>5. sd.count \in Nat
    BY DEF TypeOK, StateData
  <2>6. Within => Within'
    BY <2>1, <2>2, <2>3, <2>4, <2>5 DEF Within, Tidy, At, Spent, ControlKinds
  <2> QED
    BY <2>1, <2>2, <2>6 DEF Orderly, Polls
<1>6. CASE HandleRebootReturns
  <2>1. /\ stage = "handle" /\ state.kind = "reboot"
        /\ stage' = "transition" /\ state' = state /\ sd' = sd /\ Grows
    BY <1>6, ErrorGrows DEF HandleRebootReturns, At, Goto, NoFault, Grows
  <2>2. to'.kind \in {"rollback", "updateError", "verifyReboot"}
    BY <1>6, KindFacts, ErrorGrows, ErrorKinds DEF HandleRebootReturns, At, Goto, NoFault
  <2>3. Room(state, to') /\ ~Polls(to')
    BY <2>1, <2>2
    DEF Room, Tidy, Holds, Fee, Paid, Spent, Polls, PermitLooping, UpdateKinds, ControlKinds
  <2> QED
    BY <2>1, <2>3, Onto
<1>7. CASE HandleVerifyReboot
  <2>1. /\ stage = "handle" /\ state.kind = "verifyReboot"
        /\ stage' = "transition" /\ state' = state /\ sd' = sd /\ Grows
    BY <1>7, ErrorGrows DEF HandleVerifyReboot, At, Goto, NoFault, Grows
  <2>2. to'.kind \in {"rollback", "updateError", "afterReboot"}
    BY <1>7, KindFacts, ErrorGrows, ErrorKinds DEF HandleVerifyReboot, At, Goto, NoFault
  <2>3. Room(state, to') /\ ~Polls(to')
    BY <2>1, <2>2
    DEF Room, Tidy, Holds, Fee, Paid, Spent, Polls, PermitLooping, UpdateKinds, ControlKinds
  <2> QED
    BY <2>1, <2>3, Onto
<1>8. CASE HandleAfterReboot
  <2>1. /\ stage = "handle" /\ state.kind = "afterReboot"
        /\ stage' = "transition" /\ state' = state /\ sd' = sd /\ Grows
    BY <1>8 DEF HandleAfterReboot, At, Goto, disk, world, Grows
  <2>2. to'.kind = "fetchControlMap" /\ to'.wraps = "commit" /\ to'.pause = "none"
    BY <1>8 DEF HandleAfterReboot, Goto, NewControl, New
  <2>3. Room(state, to') /\ ~Polls(to')
    BY <2>1, <2>2
    DEF Room, Tidy, Holds, Fee, Paid, Spent, Polls, PermitLooping, UpdateKinds, ControlKinds
  <2> QED
    BY <2>1, <2>3, Onto
<1> QED
  BY <1>1, <1>2, <1>3, <1>4, <1>5, <1>6, <1>7, <1>8 DEF Apply

(* The commit: a retry of its report is free, the artifact name is one store. *)
LEMMA CommitOrderly ==
  ASSUME TypeOK, TypeOK', Orderly, Commit
  PROVE  Orderly'
<1>1. CASE HandleCommitBegin
  <2>1. stage = "handle" /\ state.kind = "commit" /\ state' = state /\ sd' = sd /\ Grows
    BY <1>1, ErrorGrows
    DEF HandleCommitBegin, CommitBegin, At, Goto, NoFault, Learn, ReportOutcomes, Grows
  <2>2. CASE UNCHANGED <<to, stage>>
    BY <2>1, <2>2, Stays
  <2>3. CASE ~UNCHANGED <<to, stage>>
    <3>1. \/ HandleError("commit")
          \/ Goto([New("preCommitRetry") EXCEPT !.tries = state.tries + 1])
      BY <1>1, <2>3 DEF HandleCommitBegin, CommitBegin, ReportOutcomes
    <3>2. stage' = "transition" /\ to'.kind \in {"rollback", "updateError", "preCommitRetry"}
      BY <3>1, ErrorGrows, ErrorKinds DEF Goto, New
    <3>3. Room(state, to') /\ ~Polls(to')
      BY <2>1, <3>2
      DEF Room, Tidy, Holds, Fee, Paid, Spent, Polls, PermitLooping, UpdateKinds,
          ControlKinds
    <3> QED
      BY <2>1, <3>2, <3>3, Onto
  <2> QED
    BY <2>2, <2>3
<1>2. CASE HandlePreCommitRetry
  <2>1. /\ stage = "handle" /\ state.kind = "preCommitRetry"
        /\ stage' = "transition" /\ state' = state /\ sd' = sd /\ Grows
    BY <1>2, ErrorGrows DEF HandlePreCommitRetry, At, Goto, NoFault, Grows
  <2>2. to'.kind \in {"rollback", "updateError", "commit"}
    BY <1>2, ErrorGrows, ErrorKinds DEF HandlePreCommitRetry, New, At, Goto, NoFault
  <2>3. Room(state, to') /\ ~Polls(to')
    BY <2>1, <2>2
    DEF Room, Tidy, Holds, Fee, Paid, Spent, Polls, PermitLooping, UpdateKinds, ControlKinds
  <2> QED
    BY <2>1, <2>3, Onto
<1>3. CASE HandleCommitFirst
  <2>1. stage = "handle" /\ state.kind = "commit" /\ state' = state /\ sd' = sd /\ Grows
    BY <1>3, ErrorGrows DEF HandleCommitFirst, At, NoFault, Grows
  <2>2. CASE UNCHANGED <<to, stage>>
    BY <2>1, <2>2, Stays
  <2>3. CASE ~UNCHANGED <<to, stage>>
    <3>1. stage' = "transition" /\ to'.kind \in {"rollback", "updateError"}
      BY <1>3, <2>3, KindFacts, ErrorGrows, ErrorKinds DEF HandleCommitFirst, At, NoFault
    <3>2. Room(state, to') /\ ~Polls(to')
      BY <2>1, <3>1
      DEF Room, Tidy, Holds, Fee, Paid, Spent, Polls, PermitLooping, UpdateKinds,
          ControlKinds
    <3> QED
      BY <2>1, <3>1, <3>2, Onto
  <2> QED
    BY <2>2, <2>3
<1>4. CASE HandleCommitStore
  <2>1. /\ stage = "handle" /\ state.kind = "commit" /\ state' = state /\ seen' = seen
        /\ stage' = "transition"
    BY <1>4 DEF HandleCommitStore, At, Goto
  <2>2. faults' = 0 => faults = 0
    BY <1>4, GrowsFaults DEF HandleCommitStore
  <2>3. Grows
    BY <2>1, <2>2 DEF Grows
  <2>4. sd' = Stored("commit", upd, 1) \/ sd' = sd
    BY <1>4 DEF HandleCommitStore, disk
  <2>5. to'.kind \in {"statusReport", "afterFirstCommit", "updateError"}
    BY <1>4, KindFacts DEF HandleCommitStore, Goto
  <2>6. ASSUME Within PROVE sd'.count <= 8
    <3>1. sd.count \in Nat /\ sd.count <= 7
      BY <2>1, <2>6 DEF Within, At, Paid, TypeOK, StateData
    <3> QED
      BY <2>4, <3>1, SizesAssumption DEF Stored, NextCount, CountExceeded
  <2>7. sd'.count \in Nat
    BY DEF TypeOK, StateData
  <2>8. Charge' \in {0, 1}
    BY DEF Charge, IncStoreCount
  <2>9. /\ Spent(state) = 8 /\ Tidy(to') /\ ~Polls(to') /\ to'.kind # "init"
        /\ Paid(to') \in Nat /\ Paid(to') >= 9
    BY <2>1, <2>5 DEF Spent, Paid, Tidy, Polls, ControlKinds
  <2> QED
    BY <2>1, <2>3, <2>6, <2>7, <2>8, <2>9, Onward
<1>5. CASE HandleAfterFirstCommit
  <2>1. /\ stage = "handle" /\ state.kind = "afterFirstCommit" /\ Grows
        /\ UNCHANGED <<state, to, stage, sd>>
    BY <1>5 DEF HandleAfterFirstCommit, At, disk, Grows
  <2> QED
    BY <2>1, Stays
<1>6. CASE HandleAfterFirstCommitEnd
  <2>1. /\ stage = "handle" /\ state.kind = "afterFirstCommit"
        /\ stage' = "transition" /\ state' = state /\ sd' = sd /\ Grows
    BY <1>6, ErrorGrows DEF HandleAfterFirstCommitEnd, At, Goto, NoFault, Grows
  <2>2. to'.kind \in {"afterCommit", "cleanup"}
    BY <1>6, KindFacts, ErrorGrows, ErrorKinds
    DEF HandleAfterFirstCommitEnd, At, Goto, NoFault
  <2>3. Room(state, to') /\ ~Polls(to')
    BY <2>1, <2>2
    DEF Room, Tidy, Holds, Fee, Paid, Spent, Polls, PermitLooping, UpdateKinds, ControlKinds
  <2> QED
    BY <2>1, <2>3, Onto
<1>7. CASE HandleAfterCommit
  <2>1. /\ stage = "handle" /\ state.kind = "afterCommit"
        /\ stage' = "transition" /\ state' = state /\ sd' = sd /\ Grows
    BY <1>7 DEF HandleAfterCommit, At, Goto, disk, world, Grows
  <2>2. to'.kind \in {"cleanup"}
    BY <1>7, KindFacts DEF HandleAfterCommit, At, Goto, disk, world
  <2>3. Room(state, to') /\ ~Polls(to')
    BY <2>1, <2>2
    DEF Room, Tidy, Holds, Fee, Paid, Spent, Polls, PermitLooping, UpdateKinds, ControlKinds
  <2> QED
    BY <2>1, <2>3, Onto
<1> QED
  BY <1>1, <1>2, <1>3, <1>4, <1>5, <1>6, <1>7 DEF Commit

(* The rollback: a reboot that has to be repeated is remembered. *)
LEMMA RollbackOrderly ==
  ASSUME TypeOK, TypeOK', Orderly, HandledIsStored, Rollback
  PROVE  Orderly'
<1>1. CASE HandleRollbackPayload
  <2>1. stage = "handle" /\ state.kind = "rollback" /\ state' = state /\ sd' = sd /\ Grows
    BY <1>1, ErrorGrows DEF HandleRollbackPayload, At, NoFault, Grows
  <2>2. CASE UNCHANGED <<to, stage>>
    BY <2>1, <2>2, Stays
  <2>3. CASE ~UNCHANGED <<to, stage>>
    <3>1. stage' = "transition" /\ to'.kind \in {"updateError"}
      BY <1>1, <2>3, KindFacts, ErrorGrows, ErrorKinds
      DEF HandleRollbackPayload, At, NoFault
    <3>2. Room(state, to') /\ ~Polls(to')
      BY <2>1, <3>1
      DEF Room, Tidy, Holds, Fee, Paid, Spent, Polls, PermitLooping, UpdateKinds,
          ControlKinds
    <3> QED
      BY <2>1, <3>1, <3>2, Onto
  <2> QED
    BY <2>2, <2>3
<1>2. CASE HandleRollbackEnd
  <2>1. /\ stage = "handle" /\ state.kind = "rollback"
        /\ stage' = "transition" /\ state' = state /\ sd' = sd /\ Grows
    BY <1>2 DEF HandleRollbackEnd, RollbackEnd, At, Goto, disk, world, Grows
  <2>2. to'.kind \in {"rollbackReboot", "updateError"}
    BY <1>2, KindFacts DEF HandleRollbackEnd, RollbackEnd, At, Goto, disk, world
  <2>3. Room(state, to') /\ ~Polls(to')
    BY <2>1, <2>2
    DEF Room, Tidy, Holds, Fee, Paid, Spent, Polls, PermitLooping, UpdateKinds, ControlKinds
  <2> QED
    BY <2>1, <2>3, Onto
<1>3. CASE HandleRollbackRebootHost
  <2>1. /\ stage = "handle" /\ state.kind = "rollbackReboot" /\ state' = New("init")
        /\ stage' = "handle" /\ sd' = sd /\ faults' = faults /\ seen' = seen
    BY <1>3 DEF HandleRollbackRebootHost, At, Boot, disk
  <2>2. state'.kind = "init" /\ state'.pause = "none"
    BY <2>1 DEF New
  <2>3. sd.name = "rollbackReboot"
    BY <2>1 DEF HandledIsStored, StoredName, UpdateKinds
  <2>4. Within => sd.count <= 9
    BY <2>1 DEF Within, Spent, ControlKinds
  <2>5. sd.count \in Nat
    BY DEF TypeOK, StateData
  <2>6. Within => Within'
    BY <2>1, <2>2, <2>3, <2>4, <2>5 DEF Within, Tidy, At, Spent, ControlKinds
  <2> QED
    BY <2>1, <2>2, <2>6 DEF Orderly, Polls
<1>4. CASE HandleRollbackRebootReturns
  <2>1. /\ stage = "handle" /\ state.kind = "rollbackReboot"
        /\ stage' = "transition" /\ state' = state /\ sd' = sd /\ Grows
    BY <1>4 DEF HandleRollbackRebootReturns, At, Goto, disk, world, Grows
  <2>2. to'.kind \in {"verifyRollbackReboot"}
    BY <1>4, KindFacts DEF HandleRollbackRebootReturns, At, Goto, disk, world
  <2>3. Room(state, to') /\ ~Polls(to')
    BY <2>1, <2>2
    DEF Room, Tidy, Holds, Fee, Paid, Spent, Polls, PermitLooping, UpdateKinds, ControlKinds
  <2> QED
    BY <2>1, <2>3, Onto
<1>5. CASE HandleVerifyRollbackReboot
  <2>1. /\ stage = "handle" /\ state.kind = "verifyRollbackReboot"
        /\ stage' = "transition" /\ state' = state /\ sd' = sd /\ Grows
    BY <1>5, ErrorGrows DEF HandleVerifyRollbackReboot, At, Goto, NoFault, Grows
  <2>2. \/ to'.kind = "afterRollbackReboot"
        \/ to'.kind = "rollbackReboot" /\ "rollbackRetry" \in seen'
    BY <1>5, KindFacts, ErrorGrows, ErrorKinds DEF HandleVerifyRollbackReboot, Goto
  <2>3. CASE to'.kind = "afterRollbackReboot"
    BY <2>1, <2>3, Onto
    DEF Room, Tidy, Holds, Fee, Paid, Spent, Polls, PermitLooping, UpdateKinds, ControlKinds
  <2>4. CASE to'.kind = "rollbackReboot" /\ "rollbackRetry" \in seen'
    BY <2>1, <2>4, Onward DEF Polls
  <2> QED
    BY <2>2, <2>3, <2>4
<1>6. CASE HandleAfterRollbackReboot
  <2>1. /\ stage = "handle" /\ state.kind = "afterRollbackReboot"
        /\ stage' = "transition" /\ state' = state /\ sd' = sd /\ Grows
    BY <1>6 DEF HandleAfterRollbackReboot, At, Goto, disk, world, Grows
  <2>2. to'.kind \in {"updateError"}
    BY <1>6, KindFacts DEF HandleAfterRollbackReboot, At, Goto, disk, world
  <2>3. Room(state, to') /\ ~Polls(to')
    BY <2>1, <2>2
    DEF Room, Tidy, Holds, Fee, Paid, Spent, Polls, PermitLooping, UpdateKinds, ControlKinds
  <2> QED
    BY <2>1, <2>3, Onto
<1> QED
  BY <1>1, <1>2, <1>3, <1>4, <1>5, <1>6 DEF Rollback

(* The end of a deployment: retries of the report are free. *)
LEMMA FinishOrderly ==
  ASSUME TypeOK, TypeOK', Orderly, Finish
  PROVE  Orderly'
<1>1. CASE HandleUpdateError
  <2>1. /\ stage = "handle" /\ state.kind = "updateError"
        /\ stage' = "transition" /\ state' = state /\ sd' = sd /\ Grows
    BY <1>1 DEF HandleUpdateError, At, Goto, disk, world, Grows
  <2>2. to'.kind \in {"cleanup"}
    BY <1>1, KindFacts DEF HandleUpdateError, At, Goto, disk, world
  <2>3. Room(state, to') /\ ~Polls(to')
    BY <2>1, <2>2
    DEF Room, Tidy, Holds, Fee, Paid, Spent, Polls, PermitLooping, UpdateKinds, ControlKinds
  <2> QED
    BY <2>1, <2>3, Onto
<1>2. CASE HandleCleanup
  <2>1. /\ stage = "handle" /\ state.kind = "cleanup"
        /\ stage' = "transition" /\ state' = state /\ sd' = sd /\ Grows
    BY <1>2 DEF HandleCleanup, At, Goto, disk, Grows
  <2>2. to'.kind \in {"statusReport"}
    BY <1>2, KindFacts DEF HandleCleanup, At, Goto, disk
  <2>3. Room(state, to') /\ ~Polls(to')
    BY <2>1, <2>2
    DEF Room, Tidy, Holds, Fee, Paid, Spent, Polls, PermitLooping, UpdateKinds, ControlKinds
  <2> QED
    BY <2>1, <2>3, Onto
<1>3. CASE HandleStatusReport
  <2>1. /\ stage = "handle" /\ state.kind = "statusReport"
        /\ stage' = "transition" /\ state' = state /\ sd' = sd /\ Grows
    BY <1>3 DEF HandleStatusReport, At, Goto, ReportOutcomes, Learn, disk, Grows
  <2>2. to'.kind \in {"idle", "statusReportRetry"}
    <3> DEFINE sent == [state EXCEPT !.tries = @ + 1]
               logged == [sent EXCEPT !.logTries = @ + 1]
    <3>1. /\ [sent EXCEPT !.kind = "statusReportRetry",
                        !.sending = sent.tries].kind = "statusReportRetry"
          /\ [logged EXCEPT !.kind = "statusReportRetry",
                          !.sending = logged.logTries].kind = "statusReportRetry"
      BY DEF TypeOK, States
    <3>2. \/ Goto(New("idle"))
          \/ Goto([sent EXCEPT !.kind = "statusReportRetry", !.sending = sent.tries])
          \/ Goto([logged EXCEPT !.kind = "statusReportRetry",
                                 !.sending = logged.logTries])
      BY <1>3 DEF HandleStatusReport
    <3> HIDE DEF sent, logged
    <3> QED
      BY <3>1, <3>2, KindFacts DEF Goto
  <2>3. Room(state, to') /\ ~Polls(to')
    BY <2>1, <2>2
    DEF Room, Tidy, Holds, Fee, Paid, Spent, Polls, PermitLooping, UpdateKinds, ControlKinds
  <2> QED
    BY <2>1, <2>3, Onto
<1>4. CASE HandleStatusReportRetry
  <2>1. /\ stage = "handle" /\ state.kind = "statusReportRetry"
        /\ stage' = "transition" /\ state' = state /\ sd' = sd /\ Grows
    BY <1>4 DEF HandleStatusReportRetry, At, Goto, disk, world, Grows
  <2>2. to'.kind \in {"idle", "statusReport"}
    <3>1. [state EXCEPT !.kind = "statusReport", !.sending = 0].kind = "statusReport"
      BY DEF TypeOK, States
    <3> QED
      BY <1>4, <3>1, KindFacts DEF HandleStatusReportRetry, Goto
  <2>3. Room(state, to') /\ ~Polls(to')
    BY <2>1, <2>2
    DEF Room, Tidy, Holds, Fee, Paid, Spent, Polls, PermitLooping, UpdateKinds, ControlKinds
  <2> QED
    BY <2>1, <2>3, Onto
<1> QED
  BY <1>1, <1>2, <1>3, <1>4 DEF Finish

(* Outside a deployment the count starts anew; a restart counts once. *)
LEMMA OutsideOrderly ==
  ASSUME TypeOK, TypeOK', Orderly,
         MaxStoreCount > 14, Outside
  PROVE  Orderly'
<1>1. CASE HandleInit
  <2>1. /\ stage = "handle" /\ state.kind = "init" /\ seen' = seen /\ sd.count \in Nat
    BY <1>1 DEF HandleInit, At, TypeOK, StateData
  <2>2. CASE sd = NoData /\ Goto(New("idle")) /\ UNCHANGED disk /\ NoFault
    <3>1. to'.kind = "idle"
      BY <2>2, KindFacts DEF Goto
    <3>2. Room(state, to') /\ ~Polls(to')
      BY <2>1, <3>1
      DEF Room, Tidy, Holds, Fee, Paid, Spent, Polls, PermitLooping, UpdateKinds,
          ControlKinds
    <3> QED
      BY <2>1, <2>2, <3>2, Onto DEF Goto, disk, NoFault, Grows
  <2>3. CASE CountExceeded(sd.count) /\ BreakLoop
    <3>1. stage' = "transition" /\ state' = state /\ to'.kind = "statusReport"
      BY <2>3, KindFacts DEF BreakLoop, Goto
    <3>2. Grows
      BY <2>1, <2>3, GrowsFaults DEF BreakLoop, SetBroken, Grows
    <3>3. ~Within
      BY <2>1, <2>3, SizesAssumption DEF Within, At, NoData, CountExceeded
    <3> QED
      BY <3>1, <3>2, <3>3, Onward DEF Polls
  <2>4. CASE sd # NoData /\ sd.name = "fetch" /\ sd' = NoData /\ NoFault /\ Goto(New("idle"))
    <3>1. stage' = "transition" /\ state' = state /\ to'.kind = "idle"
      BY <2>4, KindFacts DEF Goto
    <3>2. Grows
      BY <2>1, <2>4 DEF NoFault, Grows
    <3>3. ~Within
      BY <2>1, <2>4 DEF Within, At
    <3> QED
      BY <3>1, <3>2, <3>3, Onward DEF Polls
  <2>5. CASE DbFault
    BY <2>5 DEF DbFault, TypeOK, Orderly
  <2>6. CASE /\ sd # NoData /\ ~CountExceeded(sd.count)
             /\ sd' = [sd EXCEPT !.count = NextCount(sd.count, 1)]
             /\ Goto(Resume(sd)) /\ NoFault
    <3>1. stage' = "transition" /\ state' = state /\ to' = Resume(sd)
      BY <2>6 DEF Goto
    <3>2. Grows
      BY <2>1, <2>6 DEF NoFault, Grows
    <3>3. sd'.count = sd.count + 1
      BY <2>6 DEF NextCount, TypeOK, StateData
    <3>4. ~Polls(to')
      <4>1. [NewStatusReport("failure") EXCEPT !.tries = sd.info.attempts].kind = "statusReport"
        BY DEF NewStatusReport, New
      <4> QED
        BY <3>1, <4>1, KindFacts DEF Resume, ResumeNamed, Polls
    <3>5. ASSUME Within
          PROVE  /\ sd.count <= 9 /\ to'.kind \in {"verifyReboot", "verifyRollbackReboot"}
                 /\ (to'.kind = "verifyReboot" => sd.count <= 5)
      <4>1. \/ sd.name = "reboot" /\ sd.count <= 5
            \/ sd.name = "rollbackReboot" /\ sd.count <= 9
        BY <2>1, <2>6, <3>5 DEF Within, At
      <4>2. sd.name = "reboot" => to'.kind = "verifyReboot"
        BY <3>1, KindFacts DEF Resume, ResumeNamed
      <4>3. sd.name = "rollbackReboot" => to'.kind = "verifyRollbackReboot"
        BY <3>1, KindFacts DEF Resume, ResumeNamed
      <4> QED
        BY <2>1, <4>1, <4>2, <4>3
    <3>6. Charge' = 0
      BY <2>1, <3>1 DEF Charge, IncStoreCount, UpdateKinds
    <3>7. Spent(state) = 10
      BY <2>1 DEF Spent, ControlKinds
    <3>8. /\ (to'.kind = "verifyReboot" => Paid(to') = 6 /\ Tidy(to'))
          /\ (to'.kind = "verifyRollbackReboot" => Paid(to') = 10 /\ Tidy(to'))
      BY DEF Paid, Spent, Tidy, ControlKinds
    <3> QED
      BY <2>1, <3>1, <3>2, <3>3, <3>4, <3>5, <3>6, <3>7, <3>8, Onward
  <2> QED
    BY <1>1, <2>2, <2>3, <2>4, <2>5, <2>6 DEF HandleInit, SetBroken, NoFault
<1>2. CASE HandleInitUnreadable \/ HandleInitNoInstallers
  BY <1>2 DEF HandleInitUnreadable, HandleInitNoInstallers, TypeOK, Orderly
<1>3. CASE HandleIdle
  <2>1. /\ state.kind = "idle" /\ stage' = "transition" /\ state' = state
        /\ to'.kind = "checkWait" /\ seen' = seen
    BY <1>3, KindFacts DEF HandleIdle, At, Goto
  <2>2. faults' = 0 => faults = 0 /\ sd' = NoData
    BY <1>3, GrowsFaults DEF HandleIdle, DbFault, NoFault, TypeOK
  <2>3. Charge' = 0 /\ Spent(state) = 14 /\ Paid(to') = 0 /\ Tidy(to') /\ NoData.count = 0
    BY <2>1 DEF Charge, UpdateKinds, Spent, Paid, Tidy, ControlKinds, NoData
  <2> QED
    BY <2>1, <2>2, <2>3, Onward DEF Grows
<1>4. CASE HandleCheckWait
  <2>1. /\ stage = "handle" /\ state.kind = "checkWait" /\ stage' = "transition"
        /\ state' = state /\ to'.kind = "updateCheck" /\ sd' = sd /\ Grows
        /\ faults' = faults
    BY <1>4, KindFacts DEF HandleCheckWait, At, Goto, disk, world, Grows
  <2>2. faults = 0 => sd = NoData
    BY <2>1 DEF Orderly, Polls
  <2>3. Charge' = 0 /\ Spent(state) = 0 /\ Paid(to') = 0 /\ Tidy(to') /\ NoData.count = 0
    BY <2>1 DEF Charge, UpdateKinds, Spent, Paid, Tidy, ControlKinds, NoData
  <2> QED
    BY <2>1, <2>2, <2>3, Onward
<1>5. CASE HandleUpdateCheck
  <2>1. /\ stage = "handle" /\ state.kind = "updateCheck" /\ stage' = "transition"
        /\ state' = state /\ sd' = sd /\ faults' = faults
        /\ to'.kind \in {"checkWait", "error", "fetch", "statusReport"}
    BY <1>5, KindFacts DEF HandleUpdateCheck, At, Goto, disk
  <2>2. faults = 0 => sd = NoData
    BY <2>1 DEF Orderly, Polls
  <2>3. /\ Charge' = 0 /\ Spent(state) = 0 /\ Paid(to') \in Nat /\ Tidy(to')
        /\ NoData.count = 0 /\ Tidy(state)
    BY <2>1 DEF Charge, IncStoreCount, UpdateKinds, Spent, Paid, Tidy, ControlKinds, NoData
  <2>4. faults = 0 => Within'
    BY <2>1, <2>2, <2>3 DEF Within, At
  <2> QED
    BY <2>1, <2>2, <2>4 DEF Orderly
<1>6. CASE HandleErrorState
  <2>1. /\ stage = "handle" /\ state.kind = "error"
        /\ stage' = "transition" /\ state' = state /\ sd' = sd /\ Grows
    BY <1>6 DEF HandleErrorState, At, Goto, disk, world, Grows
  <2>2. to'.kind \in {"idle"}
    BY <1>6, KindFacts DEF HandleErrorState, At, Goto, disk, world
  <2>3. Room(state, to') /\ ~Polls(to')
    BY <2>1, <2>2
    DEF Room, Tidy, Holds, Fee, Paid, Spent, Polls, PermitLooping, UpdateKinds, ControlKinds
  <2> QED
    BY <2>1, <2>3, Onto
<1> QED
  BY <1>1, <1>2, <1>3, <1>4, <1>5, <1>6 DEF Outside

(* transitionState stores the state it enters. *)
LEMMA TransitionOrderly ==
  ASSUME TypeOK, TypeOK', Orderly, MaxStoreCount > 14, Transition
  PROVE  Orderly'
<1>1. /\ stage = "transition" /\ seen' = seen /\ sd.count \in Nat /\ sd'.count \in Nat
      /\ state \in States /\ to \in States
  BY DEF Transition, LeaveFails, TypeOK, StateData
<1>2. CASE LeaveFails
  <2>1. /\ stage' = "transition" /\ state' = state /\ sd' = sd /\ (faults' = 0 => faults = 0)
        /\ to' = ErrorNext(state.kind, upd.rollback)
    BY <1>2, ErrorGrows DEF LeaveFails
  <2>2. state.kind \in {"updateCheck", "afterStore", "install", "verifyReboot", "afterReboot",
                        "afterCommit"}
    BY <1>1, <1>2, LeaveKinds DEF LeaveFails
  <2>3. Charge' \in {0, 1}
    BY DEF Charge, IncStoreCount
  <2>4. /\ Spent(state) \in Nat /\ Paid(to') \in Nat /\ Spent(state) + 1 <= Paid(to')
        /\ ~Polls(to') /\ Tidy(to') /\ to'.kind # "init"
    <3>1. \/ state.kind = "updateCheck" /\ to'.kind = "error"
          \/ /\ state.kind \in {"install", "verifyReboot", "afterReboot"}
             /\ to'.kind \in {"rollback", "updateError"}
          \/ state.kind \in {"afterStore", "afterCommit"} /\ to'.kind = "cleanup"
      BY <2>1, <2>2, ErrorKinds
    <3> QED
      BY <3>1 DEF Spent, Paid, Polls, Tidy, ControlKinds
  <2>5. Within => sd.count <= Spent(state)
    BY DEF Within
  <2> QED
    BY <1>1, <2>1, <2>3, <2>4, <2>5, Onward DEF Grows
<1>3. CASE EnterState /\ faults' = 0
  <2>1. state' = to /\ faults = 0 /\ NoFault /\ idx' = 0
    BY <1>3, GrowsFaults DEF EnterState, SetBroken
  <2>2. Within => /\ sd.count + Charge <= Paid(to) /\ sd.count <= 14
                  /\ Tidy(to) /\ to.kind # "init"
    <3>1. Spent(state) \in Nat /\ Spent(state) <= 14
      BY DEF Spent
    <3> QED
      BY <1>1, <3>1 DEF Within
  <2>3. Polls(to) => sd = NoData
    BY <1>1, <2>1 DEF Orderly
  <2>4. Paid(to) \in Nat /\ Spent(to) \in Nat /\ Paid(to) <= Spent(to)
    BY DEF Paid, Spent, ControlKinds
  <2>5. CASE to.kind \notin UpdateKinds
    <3>1. stage' = "handle" /\ sd' = sd /\ Charge = 0
      BY <1>3, <2>5 DEF EnterState, Charge
    <3>2. Within => Within'
      BY <1>1, <2>1, <2>2, <2>4, <2>5, <3>1 DEF Within, At, Tidy, UpdateKinds
    <3> QED
      BY <1>1, <2>1, <2>3, <3>1, <3>2 DEF Orderly
  <2>6. CASE to.kind \in UpdateKinds /\ ~CountExceeded(sd.count)
    <3>1. stage' = "handle" /\ sd' = Stored(to.kind, upd, IncStoreCount)
      BY <1>1, <1>3, <2>1, <2>6 DEF EnterState, DbFault
    <3>2. sd'.count = sd.count + Charge
      BY <2>6, <3>1 DEF Stored, NextCount, Charge
    <3>3. Within => Within'
      <4>1. to.kind = "store" => Paid(to) = 1
        BY DEF Paid
      <4> QED
        BY <1>1, <2>1, <2>2, <2>4, <3>1, <3>2, <4>1 DEF Within, At, Tidy
    <3>4. ~Polls(to)
      BY <2>6 DEF Polls, UpdateKinds
    <3> QED
      BY <1>1, <2>1, <3>1, <3>3, <3>4 DEF Orderly, Polls
  <2>7. CASE to.kind \in UpdateKinds /\ CountExceeded(sd.count)
    <3>1. stage' = "transition" /\ to' = NewStatusReport("failure")
      BY <1>1, <1>3, <2>1, <2>7 DEF EnterState, DbFault
    <3>2. ~Within
      BY <1>1, <2>2, <2>7, SizesAssumption DEF CountExceeded
    <3> QED
      BY <1>1, <2>1, <3>1, <3>2, KindFacts DEF Orderly, Polls
  <2> QED
    BY <2>5, <2>6, <2>7
<1>4. CASE EnterStateFails /\ faults' = 0
  <2>1. /\ state' = to /\ faults = 0 /\ stage' = "transition" /\ ~CountExceeded(sd.count)
        /\ to' = ErrorNext(to.kind, upd.rollback)
    BY <1>4, GrowsFaults DEF EnterStateFails, SetBroken
  <2>2. sd'.count = sd.count + Charge
    BY <1>1, <1>4, <2>1 DEF EnterStateFails, Stored, NextCount, Charge, TypeOK
  <2>3. Within => sd.count + Charge <= Paid(to) /\ Tidy(to)
    BY <1>1 DEF Within
  <2>4. to.kind \in {"updateCheck", "fetch", "store", "fetchStoreRetry", "install", "reboot",
                    "rebootPauseRequested", "commit", "preCommitRetry"}
    BY <1>1, <1>4, EnterKinds DEF EnterStateFails, EnterFails
  <2>5. /\ Paid(to) \in Nat /\ Spent(to) \in Nat /\ Paid(to) <= Spent(to)
        /\ Paid(to') \in Nat /\ Paid(to) + 1 <= Paid(to')
        /\ ~Polls(to') /\ Tidy(to') /\ to'.kind # "init"
    <3>1. \/ /\ to.kind \in {"updateCheck", "fetchStoreRetry", "preCommitRetry"}
             /\ to'.kind = "error"
          \/ to.kind = "fetch" /\ to'.kind = "updateError"
          \/ to.kind = "store" /\ to'.kind = "cleanup"
          \/ /\ to.kind \in {"install", "reboot", "rebootPauseRequested", "commit"}
             /\ to'.kind \in {"rollback", "updateError"}
      BY <2>1, <2>4, ErrorKinds
    <3> QED
      BY <3>1 DEF Spent, Paid, Polls, Tidy, ControlKinds
  <2>6. Charge' \in {0, 1}
    BY DEF Charge, IncStoreCount
  <2>7. Within => Within'
    BY <1>1, <2>1, <2>2, <2>3, <2>5, <2>6 DEF Within, At, Tidy
  <2> QED
    BY <1>1, <2>1, <2>5, <2>7 DEF Orderly, Polls
<1>5. CASE faults' # 0
  BY <1>5 DEF Orderly
<1> QED
  BY <1>2, <1>3, <1>4, <1>5 DEF Transition

LEMMA NextOrderly ==
  ASSUME TypeOK, TypeOK', HandledIsStored, Orderly, MaxStoreCount > 14, [Next]_vars
  PROVE  Orderly'
<1>1. CASE Agent
  BY <1>1, DownloadOrderly, ControlOrderly, ApplyOrderly, CommitOrderly, RollbackOrderly,
     FinishOrderly, OutsideOrderly, TransitionOrderly DEF Agent
<1>2. CASE ServiceRestart
  BY <1>2 DEF ServiceRestart, Orderly
<1>3. CASE Crash
  BY <1>3 DEF Crash, Orderly, TypeOK
<1>4. CASE Abort \/ UNCHANGED vars
  <2>1. UNCHANGED <<state, to, stage, idx, sd, seen, faults>>
    BY <1>4 DEF Abort, vars, memory, disk, world
  <2> QED
    BY <2>1 DEF Orderly, Within, Tidy, Polls, At, Charge, IncStoreCount
<1> QED
  BY <1>1, <1>2, <1>3, <1>4 DEF Next

LEMMA InitOrderly == Init => Orderly
<1> SUFFICES ASSUME Init PROVE Within
  BY KindFacts DEF Init, Orderly, Polls
<1>1. state.kind = "init" /\ stage = "handle" /\ sd = NoData /\ NoData.count = 0
  BY KindFacts DEF Init, NoData
<1> QED
  BY <1>1 DEF Within, At, Spent, Tidy, ControlKinds

(* Without a fault and without a failing rollback reboot no deployment     *)
(* meets the loop breaker, if it is set above 14: that many stores has the *)
(* longest orderly path (download, install, reboot, a commit that is       *)
(* refused, rollback, its reboot, failure, cleanup and report), for any    *)
(* number of payloads, pauses and retries of the reports.  The code stops  *)
(* at 30 (MaximumStateDataStoreCount).                                     *)
THEOREM OrderlyRunsNeverBreak ==
  ASSUME MaxStoreCount > 14
  PROVE  Spec => []OrderlyRunsFit
<1>1. TypeOK /\ TypeOK' /\ AbortInv /\ Orderly /\ [Next]_vars => Orderly'
  BY NextOrderly DEF AbortInv
<1>2. TypeOK /\ Orderly => OrderlyRunsFit
  <2> SUFFICES ASSUME TypeOK, Orderly, faults = 0, "rollbackRetry" \notin seen
               PROVE  ~CountExceeded(sd.count)
    BY DEF OrderlyRunsFit
  <2>1. sd.count \in Nat /\ sd.count <= Spent(state)
    BY DEF Orderly, Within, TypeOK, StateData
  <2>2. Spent(state) \in Nat /\ Spent(state) <= 14
    BY DEF Spent
  <2> QED
    BY <2>1, <2>2, SizesAssumption DEF CountExceeded
<1> QED
  BY <1>1, <1>2, InitOrderly, OutcomeInductive, PTL DEF Spec

=============================================================================
