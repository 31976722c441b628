----------------------------- MODULE UpdateFlow -----------------------------
(***************************************************************************)
(* The deployment state machine of soc-ota-agent: the handlers of          *)
(* app/state.go, transitionState of app/mender.go that runs state scripts  *)
(* and persists the state around every handler, the state data record of   *)
(* datastore/, and what a restart makes of the record it finds.            *)
(*                                                                         *)
(* One step is one call of transitionState up to the handler, or one piece *)
(* of a handler between two durable effects, so a crash can fall between   *)
(* any two of them.  Payload handlers (update modules, the dual rootfs     *)
(* device), state scripts, the server and the database are outside: every  *)
(* call to one of them has all the outcomes the code tells apart.          *)
(***************************************************************************)
EXTENDS Naturals, Sequences, FiniteSets

CONSTANTS
  N,               \* payloads of an artifact
  MaxStoreCount,   \* MaximumStateDataStoreCount (30 in the code)
  MaxSend,         \* maxSendingAttempts() + 1, the budget of a report
  MaxBackoff,      \* attempts GetExponentialBackoffTime grants
  RebootAnswers,   \* what NeedsReboot may answer
  RollbackAnswers, \* what SupportsRollback may answer
  FailingScripts,  \* transitions whose state scripts may fail
  Faults,          \* kinds of fault that may strike
  MaxFaults,       \* bound: faults in a behaviour
  MaxPauses,       \* bound: pause answers of the control maps
  MaxDeployments   \* bound: deployments in a behaviour

RebootTypes == {"none", "custom", "automatic"}
FaultKinds == {"crash", "db", "unreadable", "installers"}

ASSUME SizesAssumption ==
  /\ N \in Nat /\ MaxStoreCount \in Nat \ {0} /\ MaxSend \in Nat \ {0}
  /\ MaxBackoff \in Nat /\ MaxFaults \in Nat /\ MaxPauses \in Nat
  /\ MaxDeployments \in Nat

ASSUME AnswersAssumption ==
  /\ RebootAnswers \subseteq RebootTypes
  /\ RollbackAnswers \subseteq BOOLEAN
  /\ Faults \subseteq FaultKinds

(* Scripts are named after Idle, Sync, Download or an Artifact state.      *)
(* ToError has no script of its own, though Launcher.get would run one     *)
(* called Error_Enter_00: there is no such state in the format of scripts. *)
ASSUME ScriptsAssumption == "Error" \notin FailingScripts

VARIABLES
  state,      \* Mender.state: the state last entered
  to,         \* toState of MenderDaemon.Run
  stage,      \* "transition" | "handle" | "exited" (daemon process gone)
  idx,        \* progress inside a handler: next payload, 0 = not begun
  err,        \* firstErr of updateAfterFirstCommitState
  upd,        \* UpdateInfo of the deployment, in memory
  sd,         \* StateData in the database, or NoData
  artifact,   \* ArtifactNameKey in the database
  inst,       \* DeviceManager.Installers: whose payload handlers
  fetchTries, \* StateContext.fetchInstallAttempts
  mapTries,   \* StateContext.controlMapFetchAttempts
  pauseReported, \* StateContext.pauseReported
  dep,        \* the deployment the server hands out (0: none yet)
  pay,        \* what each payload is on the device
  server,     \* the deployment at the server, and the outcome reports to it
  seen,       \* history: what has happened in this deployment
  exposed,    \* history: the holes this deployment fell into
  faults, pauses

ctx    == <<fetchTries, mapTries, pauseReported>>
memory == <<state, to, stage, idx, err, upd, inst, ctx>>
disk   == <<sd, artifact>>
world  == <<dep, pay, server, seen, exposed, faults, pauses>>
vars   == <<memory, disk, world>>

-----------------------------------------------------------------------------
(* States.  A Go state object is a record; "kind" is its type. *)

UpdateKinds ==   \* types that implement UpdateState: they are persisted
  {"fetch", "store", "afterStore", "install", "rebootPauseRequested", "reboot",
   "verifyReboot", "afterReboot", "commit", "afterFirstCommit", "afterCommit",
   "rollback", "rollbackReboot", "verifyRollbackReboot", "afterRollbackReboot",
   "updateError", "cleanup", "statusReport", "statusReportRetry"}

ControlKinds ==  \* the types around an update control map
  {"fetchControlMap", "fetchRetryControlMap", "controlMap", "controlMapPause"}

WaitKinds ==     \* the other types a deployment goes through
  {"fetchStoreRetry", "preCommitRetry"} \cup ControlKinds

Kinds == UpdateKinds \cup WaitKinds
           \cup {"init", "idle", "checkWait", "updateCheck", "error"}

PauseStates == {"none", "rebootPauseRequested"}
Wrappable == {"install", "reboot", "commit"}

States ==
  {s \in [kind : Kinds, wraps : Wrappable \cup {"none"}, pause : PauseStates,
          status : {"none", "success", "failure"},
          tries : Nat, logTries : Nat, sending : Nat] :
     s.kind \in ControlKinds => s.wraps \in Wrappable}

New(k) == [kind |-> k, wraps |-> "none", pause |-> "none", status |-> "none",
           tries |-> 0, logTries |-> 0, sending |-> 0]

NewCleanup(status) == [New("cleanup") EXCEPT !.status = status]
NewStatusReport(status) == [New("statusReport") EXCEPT !.status = status]
NewControl(k, wrapped, pauseState) ==
  [New(k) EXCEPT !.wraps = wrapped, !.pause = pauseState]

(* MenderState written to the database: three types share two names. *)
StoredName(k) == CASE k = "rebootPauseRequested" -> "reboot"
                   [] k = "verifyReboot" -> "afterReboot"
                   [] OTHER -> k

(* State.Transition() *)
TransitionOf(s) ==
  CASE s.kind \in {"idle", "checkWait"} -> "Idle"
    [] s.kind = "updateCheck" -> "Sync"
    [] s.kind = "error" -> "Error"
    [] s.kind \in {"fetch", "store", "fetchStoreRetry"} -> "Download_Enter"
    [] s.kind = "afterStore" -> "Download_Leave"
    [] s.kind = "install" -> "ArtifactInstall"
    [] s.kind \in {"reboot", "rebootPauseRequested"} -> "ArtifactReboot_Enter"
    [] s.kind \in {"verifyReboot", "afterReboot"} -> "ArtifactReboot_Leave"
    [] s.kind \in {"commit", "preCommitRetry"} -> "ArtifactCommit_Enter"
    [] s.kind = "afterCommit" -> "ArtifactCommit_Leave"
    [] s.kind = "rollback" -> "ArtifactRollback"
    [] s.kind = "rollbackReboot" -> "ArtifactRollbackReboot_Enter"
    [] s.kind \in {"verifyRollbackReboot", "afterRollbackReboot"}
         -> "ArtifactRollbackReboot_Leave"
    [] s.kind = "updateError" -> "ArtifactFailure"
    [] s.kind = "cleanup" -> IF s.status = "success" THEN "None" ELSE "Error"
    [] OTHER -> "None"

(* Transition.IsToError() *)
IsToError(t) == t \in {"Error", "ArtifactFailure", "ArtifactRollback",
                       "ArtifactRollbackReboot_Enter", "ArtifactRollbackReboot_Leave"}

(* ignoreErrors(): recovery is not possible there *)
IgnoredErrors == {"Idle", "ArtifactRollback", "ArtifactRollbackReboot_Enter",
                  "ArtifactRollbackReboot_Leave", "ArtifactFailure"}

(* Transition.Enter and Leave can return an error; getName() skips the     *)
(* scripts whose suffix is not the action.                                 *)
EnterMayFail(t) ==
  t \in FailingScripts \ (IgnoredErrors \cup {"None", "Download_Leave",
                           "ArtifactReboot_Leave", "ArtifactCommit_Leave"})
LeaveMayFail(t) ==
  t \in FailingScripts \ (IgnoredErrors \cup {"None", "Download_Enter",
                           "ArtifactReboot_Enter", "ArtifactCommit_Enter"})

(* Mutant: the retries of a report count as a loop. *)
PermitLoopingNever(k) == FALSE

PermitLooping(k) == k = "statusReportRetry"

-----------------------------------------------------------------------------
(* HandleError: where each state goes when it, or a script, fails. *)

ErrorNext(k, rollback) ==
  CASE k \in {"store", "afterStore", "afterFirstCommit", "afterCommit"}
         -> NewCleanup("failure")
    [] k \in {"fetch", "rollback"} -> New("updateError")
    [] k = "rollbackReboot" -> New("verifyRollbackReboot")
    [] k = "verifyRollbackReboot" -> New("rollbackReboot")
    [] k \in {"install", "rebootPauseRequested", "reboot", "verifyReboot",
              "afterReboot", "commit", "afterRollbackReboot", "cleanup",
              "statusReport"}
         -> IF rollback = "yes" THEN New("rollback") ELSE New("updateError")
    [] OTHER -> New("error")

(* ... and whether it first sets the broken artifact flag. *)
ErrorBreaks(k, rollback) ==
  \/ k \in {"afterFirstCommit", "afterCommit", "rollback"}
  \/ /\ rollback # "yes"
     /\ ErrorNext(k, rollback).kind = "updateError"
     /\ k # "fetch"

Broken == [id |-> dep, broken |-> TRUE]

-----------------------------------------------------------------------------
(* State data. *)

NoReboots == << >>
Reboots == {r \in Seq(RebootTypes) : Len(r) <= N}
UpdateInfos == [types : BOOLEAN, rollback : {"unknown", "no", "yes"},
                reboots : Reboots, attempts : Nat]
NewUpdate == [types |-> FALSE, rollback |-> "unknown", reboots |-> NoReboots,
              attempts |-> 0]

NoData == [name |-> "none", info |-> NewUpdate, count |-> 0]
StateData == [name : {"none"} \cup UpdateKinds, info : UpdateInfos, count : Nat]

CountExceeded(count) == count >= MaxStoreCount

(* Mutant: the count is never raised. *)
NextCountStuck(count, inc) == IF CountExceeded(count) THEN 0 ELSE count

NextCount(count, inc) ==
  (IF CountExceeded(count) THEN 0 ELSE count) + inc

(* StoreStateData writes even when it reports the count as exceeded. *)
Stored(k, info, inc) ==
  [name |-> StoredName(k), info |-> info, count |-> NextCount(sd.count, inc)]

CanFault(f) == f \in Faults /\ faults < MaxFaults
NoFault == UNCHANGED <<exposed, faults>>
DbFault == /\ CanFault("db")
           /\ faults' = faults + 1
           /\ exposed' = exposed \cup {"dbWriteFailed"}

-----------------------------------------------------------------------------
(* Leaving a step. *)

Goto(s) == /\ to' = s /\ stage' = "transition" /\ idx' = 0 /\ err' = "nil"
           /\ UNCHANGED state

(* NewErrorState with a fatal error makes MenderDaemon.Run return. *)
Exit == /\ stage' = "exited" /\ idx' = 0 /\ err' = "nil"
        /\ UNCHANGED <<state, to>>

(* setBrokenArtifactFlag ignores a failing write. *)
SetBroken == \/ artifact' = Broken /\ NoFault
             \/ UNCHANGED artifact /\ DbFault

(* HandleError(k) with a transient error *)
HandleError(k) ==
  /\ Goto(ErrorNext(k, upd.rollback))
  /\ IF ErrorBreaks(k, upd.rollback) THEN SetBroken
                                     ELSE UNCHANGED artifact /\ NoFault

(* handleStateDataError() when the count was exceeded *)
BreakLoop == Goto(NewStatusReport("failure")) /\ SetBroken

Aborted == server.phase = "aborted"

(* The outcomes of ReportUpdateStatus: an aborted deployment answers       *)
(* "fatal", and the network may fail any call.                             *)
ReportOutcomes == {"transient", IF Aborted THEN "fatal" ELSE "ok"}

NewServer == [phase |-> "active", told |-> "none"]

Learn(outcome) == IF outcome = "fatal" THEN {"abortKnown"} ELSE {}

-----------------------------------------------------------------------------
(* transitionState() up to the call of Handle *)

LeaveFails ==
  /\ TransitionOf(state) # TransitionOf(to)
  /\ ~(IsToError(TransitionOf(to)) /\ ~IsToError(TransitionOf(state)))
  /\ LeaveMayFail(TransitionOf(state))
  /\ HandleError(state.kind)
  /\ UNCHANGED <<sd, seen>>

EnterFails ==
  /\ TransitionOf(state) # TransitionOf(to)
  /\ EnterMayFail(TransitionOf(to))

IncStoreCount ==
  IF /\ state.kind \in UpdateKinds
     /\ ~PermitLooping(state.kind) /\ ~PermitLooping(to.kind)
    THEN 1 ELSE 0

(* SetNextState, the store, Enter scripts; then the handler runs *)
EnterState ==
  /\ state' = to
  /\ IF to.kind \notin UpdateKinds
       THEN /\ stage' = "handle" /\ idx' = 0 /\ err' = "nil"
            /\ UNCHANGED <<to, sd, artifact>> /\ NoFault
       ELSE \/ (* stored *)
               /\ sd' = Stored(to.kind, upd, IncStoreCount)
               /\ IF CountExceeded(sd.count)
                    THEN /\ to' = NewStatusReport("failure")
                         /\ stage' = "transition" /\ idx' = 0 /\ err' = "nil"
                         /\ SetBroken
                    ELSE /\ stage' = "handle" /\ idx' = 0 /\ err' = "nil"
                         /\ UNCHANGED <<to, artifact>> /\ NoFault
            \/ (* the write failed: HandleError with a fatal error *)
               /\ DbFault /\ UNCHANGED sd
               /\ idx' = 0 /\ err' = "nil"
               /\ to' = ErrorNext(to.kind, upd.rollback)
               /\ stage' = IF to'.kind = "error" THEN "exited" ELSE "transition"
               /\ IF ErrorBreaks(to.kind, upd.rollback)
                    THEN artifact' \in {artifact, Broken}
                    ELSE UNCHANGED artifact

(* Enter scripts of the state fail after its state data is stored *)
EnterStateFails ==
  /\ EnterFails
  /\ state' = to
  /\ idx' = 0 /\ err' = "nil" /\ stage' = "transition"
  /\ ~CountExceeded(sd.count)
  /\ sd' = IF to.kind \in UpdateKinds
             THEN Stored(to.kind, upd, IncStoreCount) ELSE sd
  /\ to' = ErrorNext(to.kind, upd.rollback)
  /\ IF ErrorBreaks(to.kind, upd.rollback) THEN SetBroken
                                           ELSE UNCHANGED artifact /\ NoFault

Transition ==
  /\ stage = "transition"
  /\ \/ LeaveFails
     \/ EnterState /\ UNCHANGED seen
     \/ EnterStateFails /\ UNCHANGED seen
  /\ UNCHANGED <<upd, inst, ctx, dep, pay, server, pauses>>

-----------------------------------------------------------------------------
(* Handlers outside a deployment *)

At(k) == stage = "handle" /\ state.kind = k

HandleIdle ==   \* RemoveStateData's error is ignored
  /\ At("idle")
  /\ Goto(New("checkWait"))
  /\ \/ sd' = NoData /\ NoFault
     \/ UNCHANGED sd /\ DbFault
  /\ UNCHANGED <<upd, inst, ctx, artifact, dep, pay, server, seen, pauses>>

HandleCheckWait ==
  /\ At("checkWait")
  /\ Goto(New("updateCheck"))
  /\ UNCHANGED <<upd, inst, ctx, disk, world>>

(* CheckUpdate: nothing, an error, a deployment, or a deployment whose     *)
(* control map does not belong to it.                                      *)
HandleUpdateCheck ==
  /\ At("updateCheck")
  /\ \/ /\ \E k \in {"checkWait", "error"} : Goto(New(k))
        /\ UNCHANGED <<upd, inst, dep, pay, server, seen, exposed>>
     \/ /\ dep < MaxDeployments
        /\ dep' = dep + 1
        /\ upd' = NewUpdate
        /\ inst' = IF inst = "current" THEN "stale" ELSE inst
        /\ pay' = [p \in 1..N |-> "clean"]
        /\ server' = NewServer
        /\ seen' = {} /\ exposed' = {}
        /\ \E s \in {New("fetch"), NewStatusReport("failure")} : Goto(s)
  /\ UNCHANGED <<ctx, disk, faults, pauses>>

HandleErrorState ==   \* a transient cause: the fatal one never gets here
  /\ At("error")
  /\ Goto(New("idle"))
  /\ UNCHANGED <<upd, inst, ctx, disk, world>>

-----------------------------------------------------------------------------
(* Download *)

HandleFetch ==
  /\ At("fetch")
  /\ \/ /\ Goto(NewStatusReport("failure"))        \* no deployment log
        /\ UNCHANGED seen
     \/ \E r \in ReportOutcomes :
          /\ seen' = seen \cup Learn(r)
          /\ IF r = "fatal"
               THEN Goto(NewStatusReport("failure"))
               ELSE \E k \in {"store", "fetchStoreRetry"} : Goto(New(k))
  /\ UNCHANGED <<upd, inst, ctx, disk,
                 dep, pay, server, exposed, faults, pauses>>

HandleFetchStoreRetry ==
  /\ At("fetchStoreRetry")
  /\ IF fetchTries >= MaxBackoff
       THEN Goto(New("updateError")) /\ UNCHANGED fetchTries
       ELSE Goto(New("fetch")) /\ fetchTries' = fetchTries + 1
  /\ UNCHANGED <<upd, inst, mapTries, pauseReported, disk, world>>

(* updateStoreState.Handle up to and including StorePayloads *)
HandleStoreRejected ==
  /\ At("store") /\ idx = 0
  /\ \/ /\ \E r \in ReportOutcomes :       \* no log, or aborted
             seen' = seen \cup Learn(r)
        /\ Goto(NewStatusReport("failure"))
        /\ UNCHANGED <<inst, upd>>
     \/ /\ Goto(NewCleanup("failure"))      \* ReadArtifactHeaders failed
        /\ inst' \in {inst, "none"} /\ UNCHANGED <<upd, seen>>
     \/ /\ Goto(NewStatusReport("failure")) \* header or depends mismatch
        /\ inst' = "current" /\ upd' = [upd EXCEPT !.types = TRUE]
        /\ UNCHANGED seen
  /\ UNCHANGED <<ctx, disk, dep, pay, server, exposed, faults, pauses>>

HandleStorePayloads ==
  /\ At("store") /\ idx = 0
  /\ inst' = "current"
  /\ upd' = [upd EXCEPT !.types = TRUE]
  /\ \/ /\ sd' = Stored("store", upd', 1)
        /\ IF CountExceeded(sd.count)
             THEN BreakLoop /\ UNCHANGED seen
             ELSE /\ seen' = seen \cup {"download"}
                  /\ UNCHANGED artifact /\ NoFault
                  /\ \/ Goto(NewCleanup("failure"))
                     \/ idx' = 1 /\ UNCHANGED <<state, to, stage, err>>
     \/ /\ DbFault /\ UNCHANGED <<sd, artifact, seen>>
        /\ Goto(NewCleanup("failure"))
  /\ UNCHANGED <<ctx, dep, pay, server, pauses>>

(* handleSupportsRollback: all payloads must agree *)
HandleSupportsRollback ==
  /\ At("store") /\ idx = 1
  /\ \/ /\ \E r \in {"unknown", "no", "yes"} :   \* query failed, or conflict
             upd' = [upd EXCEPT !.rollback = r]
        /\ Goto(New("updateError"))
        /\ UNCHANGED disk /\ NoFault
     \/ /\ \E yes \in RollbackAnswers :
             upd' = [upd EXCEPT !.rollback =
                       IF N = 0 THEN "unknown" ELSE IF yes THEN "yes" ELSE "no"]
        /\ \/ /\ sd' = Stored("store", upd', 1)
              /\ IF CountExceeded(sd.count)
                   THEN BreakLoop
                   ELSE /\ idx' = 2 /\ UNCHANGED <<state, to, stage, err, artifact>>
                        /\ NoFault
           \/ /\ DbFault /\ UNCHANGED disk
              /\ Goto(New("updateError"))
  /\ UNCHANGED <<inst, ctx, dep, pay, server, seen, pauses>>

HandleStoreEnd ==
  /\ At("store") /\ idx = 2
  /\ fetchTries' = 0
  /\ \E r \in ReportOutcomes :
       /\ seen' = seen \cup Learn(r)
       /\ Goto(IF r = "fatal" THEN New("updateError") ELSE New("afterStore"))
  /\ UNCHANGED <<upd, inst, mapTries, pauseReported, disk,
                 dep, pay, server, exposed, faults, pauses>>

HandleAfterStore ==
  /\ At("afterStore")
  /\ Goto(NewControl("fetchControlMap", "install", "none"))
  /\ UNCHANGED <<upd, inst, ctx, disk, world>>

-----------------------------------------------------------------------------
(* Update control: FetchControlMap -> ControlMap -> the wrapped state.     *)
(* The pool of maps answers anything here; ControlMapPool says what.       *)

HandleFetchControlMap ==
  /\ At("fetchControlMap")
  /\ \/ /\ Goto(NewControl("controlMap", state.wraps, state.pause))
        /\ mapTries' = 0
        /\ UNCHANGED <<artifact, seen>> /\ NoFault
     \/ /\ Goto(NewControl("fetchRetryControlMap", state.wraps, state.pause))
        /\ UNCHANGED <<mapTries, artifact, seen>> /\ NoFault
     \/ /\ Aborted            \* ErrNoDeploymentAvailable
        /\ HandleError(state.wraps)
        /\ seen' = seen \cup {"abortKnown"}
        /\ UNCHANGED mapTries
  /\ UNCHANGED <<upd, inst, fetchTries, pauseReported, sd, dep, pay, server, pauses>>

HandleFetchRetryControlMap ==
  /\ At("fetchRetryControlMap")
  /\ IF mapTries >= MaxBackoff
       THEN HandleError(state.wraps) /\ UNCHANGED mapTries
       ELSE /\ Goto(NewControl("fetchControlMap", state.wraps, state.pause))
            /\ mapTries' = mapTries + 1
            /\ UNCHANGED artifact /\ NoFault
  /\ UNCHANGED <<upd, inst, fetchTries, pauseReported, sd,
                 dep, pay, server, seen, pauses>>

(* The action is "continue", or unknown *)
HandleControlMapContinue ==
  /\ At("controlMap")
  /\ Goto(New(state.wraps))
  /\ UNCHANGED <<upd, inst, ctx, disk, world>>

(* "pause": take the pause state if there is one, report once, then wait *)
HandleControlMapPauseAction ==
  /\ At("controlMap") /\ pauses < MaxPauses
  /\ pauses' = pauses + 1
  /\ \/ /\ state.pause # "none"
        /\ Goto(New(state.pause))
        /\ UNCHANGED <<pauseReported, artifact, seen>> /\ NoFault
     \/ /\ state.pause = "none" /\ state.wraps \in pauseReported
        /\ Goto(NewControl("controlMapPause", state.wraps, "none"))
        /\ UNCHANGED <<pauseReported, artifact, seen>> /\ NoFault
     \/ /\ state.pause = "none" /\ state.wraps \notin pauseReported
        /\ pauseReported' = pauseReported \cup {state.wraps}
        /\ \E r \in ReportOutcomes :
             /\ seen' = seen \cup Learn(r)
             /\ IF r = "fatal"
                  THEN HandleError(state.wraps)
                  ELSE /\ Goto(NewControl("controlMapPause", state.wraps, "none"))
                       /\ UNCHANGED artifact /\ NoFault
  /\ UNCHANGED <<upd, inst, fetchTries, mapTries, sd, dep, pay, server>>

HandleControlMapFail ==
  /\ At("controlMap")
  /\ HandleError(state.wraps)
  /\ seen' = seen \cup {"forcedFail"}
  /\ UNCHANGED <<upd, inst, ctx, sd, dep, pay, server, pauses>>

(* The wait ends by the timer, by a map update, or because no map is left *)
HandleControlMapPause ==
  /\ At("controlMapPause")
  /\ \E k \in {"fetchControlMap", "controlMap"} :
       Goto(NewControl(k, state.wraps, "none"))
  /\ UNCHANGED <<upd, inst, ctx, disk, world>>

(* Entering this state has stored "reboot", so that a reboot during the    *)
(* pause resumes the update; now the pause itself is taken.                *)
HandleRebootPauseRequested ==
  /\ At("rebootPauseRequested")
  /\ Goto(NewControl("controlMap", "reboot", "none"))
  /\ UNCHANGED <<upd, inst, ctx, disk, world>>

-----------------------------------------------------------------------------
(* ArtifactInstall *)

HandleInstallBegin ==
  /\ At("install") /\ idx = 0
  /\ \/ /\ Goto(New("updateError"))      \* no deployment log
        /\ UNCHANGED <<artifact, seen>> /\ NoFault
     \/ \E r \in ReportOutcomes :
          /\ seen' = seen \cup Learn(r)
          /\ IF r = "fatal"
               THEN HandleError("install")
               ELSE /\ idx' = 1 /\ UNCHANGED <<state, to, stage, err, artifact>>
                    /\ NoFault
  /\ UNCHANGED <<upd, inst, ctx, sd, dep, pay, server, pauses>>

(* InstallUpdate of one payload; a failed one has touched the device too *)
HandleInstallPayload ==
  /\ At("install") /\ idx \in 1..N
  /\ pay' = [pay EXCEPT ![idx] = "installed"]
  /\ \/ /\ idx' = idx + 1
        /\ UNCHANGED <<state, to, stage, err, artifact>> /\ NoFault
     \/ HandleError("install")
  /\ UNCHANGED <<upd, inst, ctx, sd, dep, server, seen, pauses>>

(* handleRebootType: the answers are recorded in payload order; then the   *)
(* reboot state if any payload asked, else the commit state.               *)
HandleRebootType ==
  /\ At("install") /\ idx = N + 1
  /\ \E k \in 0..N : \E answers \in [1..k -> RebootAnswers] :
       /\ upd' = [upd EXCEPT !.reboots = answers]
       /\ IF k < N
            THEN /\ UNCHANGED sd       \* NeedsReboot failed at payload k+1
                 /\ HandleError("install")
            ELSE \/ /\ sd' = Stored("install", upd', 1)
                    /\ IF CountExceeded(sd.count)
                         THEN BreakLoop
                         ELSE /\ Goto(IF \E p \in 1..N : answers[p] # "none"
                                       THEN NewControl("fetchControlMap", "reboot",
                                                      "rebootPauseRequested")
                                       ELSE NewControl("fetchControlMap", "commit", "none"))
                              /\ UNCHANGED artifact /\ NoFault
                 \/ /\ DbFault /\ UNCHANGED sd
                    /\ Goto(ErrorNext("install", upd.rollback))
                    /\ IF ErrorBreaks("install", upd.rollback)
                         THEN artifact' \in {artifact, Broken}
                         ELSE UNCHANGED artifact
  /\ UNCHANGED <<inst, ctx, dep, pay, server, seen, pauses>>

-----------------------------------------------------------------------------
(* Restarting.  Everything in memory goes; initState looks at the record.  *)

(* A restart in the window between CommitUpdate and the state data of the  *)
(* next state finds the name "commit".                                     *)
InCommitWindow ==
  sd.name = "commit" /\ \E p \in 1..N : p = 1 /\ pay[p] = "committed"

Boot ==
  /\ state' = New("init") /\ to' = New("init") /\ stage' = "handle"
  /\ idx' = 0 /\ err' = "nil"
  /\ upd' = NewUpdate /\ inst' = "none"
  /\ fetchTries' = 0 /\ mapTries' = 0 /\ pauseReported' = {}
  /\ UNCHANGED <<disk, dep, pay, server, pauses>>

(* Power loss, a panic or a kill at any point *)
Crash ==
  /\ CanFault("crash") /\ stage # "exited" /\ ~At("init")
  /\ Boot
  /\ faults' = faults + 1
  /\ exposed' = IF InCommitWindow THEN exposed \cup {"commitWindow"} ELSE exposed
  /\ UNCHANGED seen

(* systemd restarts the daemon that returned an error: Restart=on-failure *)
ServiceRestart ==
  /\ stage = "exited"
  /\ Boot
  /\ exposed' = IF InCommitWindow THEN exposed \cup {"commitWindow"} ELSE exposed
  /\ UNCHANGED <<seen, faults>>

(* initState.getNextState *)
ResumeNamed(name, info) ==
  CASE name \in {"store", "afterStore", "cleanup"} -> NewCleanup("failure")
    [] name = "reboot" -> New("verifyReboot")
    [] name \in {"rollbackReboot", "verifyRollbackReboot", "afterRollbackReboot"}
         -> New("verifyRollbackReboot")
    [] name \in {"afterFirstCommit", "afterCommit", "updateError"} -> New(name)
    [] name \in {"statusReport", "statusReportRetry"}
         -> [NewStatusReport("failure") EXCEPT !.tries = info.attempts]
    [] OTHER -> IF info.rollback = "yes" THEN New("rollback") ELSE New("updateError")

(* Mutants: an interrupted install is only cleaned up; a commit past its   *)
(* first payload is rolled back.                                           *)
ResumeCleansInstall(data) ==
  ResumeNamed(IF data.name = "install" THEN "store" ELSE data.name, data.info)
ResumeRollsBackCommit(data) ==
  ResumeNamed(IF data.name = "afterFirstCommit" THEN "commit" ELSE data.name, data.info)

Resume(data) == ResumeNamed(data.name, data.info)

(* Mutant: a restart that cannot roll back does not flag the artifact. *)
ResumeBreaksNever(data) == FALSE

ResumeBreaks(data) ==
  /\ data.name \in {"install", "afterReboot", "commit", "rollback"}
  /\ data.info.rollback # "yes"

(* LoadStateData counts the restart, whatever it finds. *)
HandleInit ==
  /\ At("init")
  /\ \/ /\ sd = NoData
        /\ Goto(New("idle"))
        /\ UNCHANGED <<disk, upd, inst>> /\ NoFault
     \/ /\ sd # NoData                      \* a loop of restarts is cut
        /\ CountExceeded(sd.count)
        /\ sd' = [sd EXCEPT !.count = NextCount(sd.count, 1)]
        /\ upd' = sd.info /\ UNCHANGED inst
        /\ BreakLoop
     \/ /\ sd # NoData /\ ~CountExceeded(sd.count)
        /\ sd.name = "fetch"                 \* picked up again later
        /\ UNCHANGED <<artifact, upd>>
        /\ inst' = IF sd.info.types THEN "current" ELSE "none"
        /\ \/ sd' = NoData /\ NoFault /\ Goto(New("idle"))
           \/ sd' = [sd EXCEPT !.count = NextCount(sd.count, 1)] /\ DbFault /\ Exit
     \/ /\ sd # NoData /\ ~CountExceeded(sd.count) /\ sd.name # "fetch"
        /\ sd' = [sd EXCEPT !.count = NextCount(sd.count, 1)]
        /\ upd' = sd.info
        /\ inst' = IF sd.info.types THEN "current" ELSE "none"
        /\ Goto(Resume(sd))
        /\ IF ResumeBreaks(sd) THEN SetBroken ELSE UNCHANGED artifact /\ NoFault
  /\ UNCHANGED <<ctx, dep, pay, server, seen, pauses>>

(* LoadStateData failed: nothing is known about the update *)
HandleInitUnreadable ==
  /\ At("init") /\ sd # NoData /\ CanFault("unreadable")
  /\ faults' = faults + 1 /\ exposed' = exposed \cup {"stateUnreadable"}
  /\ Goto(New("updateError"))
  /\ UNCHANGED <<upd, inst, ctx, disk, dep, pay, server, seen, pauses>>

(* RestoreInstallersFromTypeList failed: "we cannot recover *anything*" *)
HandleInitNoInstallers ==
  /\ At("init") /\ sd # NoData /\ ~CountExceeded(sd.count)
  /\ CanFault("installers")
  /\ faults' = faults + 1 /\ exposed' = exposed \cup {"installersLost"}
  /\ sd' = [sd EXCEPT !.count = NextCount(sd.count, 1)]
  /\ upd' = sd.info
  /\ Goto(NewStatusReport("failure"))
  /\ UNCHANGED <<inst, ctx, artifact, dep, pay, server, seen, pauses>>

-----------------------------------------------------------------------------
(* ArtifactReboot *)

Asked(t) == \E p \in DOMAIN upd.reboots : upd.reboots[p] = t

(* The server aborted, or Reboot() of a payload failed: straight to the    *)
(* rollback state, whatever SupportsRollback answered.                     *)
HandleRebootRefused ==
  /\ At("reboot")
  /\ \/ Aborted /\ seen' = seen \cup {"abortKnown"}
     \/ Asked("custom") /\ UNCHANGED seen
  /\ Goto(New("rollback"))
  /\ exposed' = IF upd.rollback = "yes" THEN exposed
                 ELSE exposed \cup {"unsupportedRollback"}
  /\ UNCHANGED <<upd, inst, ctx, disk, dep, pay, server, faults, pauses>>

(* The host goes down: a payload's own reboot, or the single system one *)
HandleRebootHost ==
  /\ At("reboot") /\ (Asked("custom") \/ Asked("automatic"))
  /\ Boot
  /\ UNCHANGED <<seen, exposed, faults>>

(* The reboot command returned, or only peripherals were rebooted *)
HandleRebootReturns ==
  /\ At("reboot")
  /\ IF Asked("automatic") THEN HandleError("reboot")
                           ELSE /\ Goto(New("verifyReboot"))
                                /\ UNCHANGED artifact /\ NoFault
  /\ UNCHANGED <<upd, inst, ctx, sd, dep, pay, server, seen, pauses>>

HandleVerifyReboot ==
  /\ At("verifyReboot")
  /\ \/ Goto(New("afterReboot")) /\ UNCHANGED artifact /\ NoFault
     \/ HandleError("verifyReboot")
  /\ UNCHANGED <<upd, inst, ctx, sd, dep, pay, server, seen, pauses>>

HandleAfterReboot ==
  /\ At("afterReboot")
  /\ Goto(NewControl("fetchControlMap", "commit", "none"))
  /\ UNCHANGED <<upd, inst, ctx, disk, world>>

-----------------------------------------------------------------------------
(* ArtifactCommit *)

(* The scripts' version, and a last report: is the deployment still on?    *)
(* "stop" is the outcome of the report that ends the update.               *)
CommitBegin(stop) ==
  /\ At("commit") /\ idx = 0
  /\ \/ /\ HandleError("commit") /\ UNCHANGED <<upd, seen>>
     \/ \E r \in ReportOutcomes :
          LET tries == state.tries + 1 IN
          /\ seen' = seen \cup Learn(r)
          /\ upd' = [upd EXCEPT !.attempts = IF r = "ok" THEN 0 ELSE tries]
          /\ CASE r = stop -> HandleError("commit")
               [] r = "transient" ->
                    /\ Goto([New("preCommitRetry") EXCEPT !.tries = tries])
                    /\ UNCHANGED artifact /\ NoFault
               [] OTHER -> /\ idx' = 1
                           /\ UNCHANGED <<state, to, stage, err, artifact>> /\ NoFault
  /\ UNCHANGED <<inst, ctx, sd, dep, pay, server, pauses>>

(* Mutant: a refused report does not stop the commit. *)
CommitBeginAnyway == CommitBegin("none")

HandleCommitBegin == CommitBegin("fatal")

HandlePreCommitRetry ==
  /\ At("preCommitRetry")
  /\ IF state.tries < MaxSend
       THEN /\ Goto([New("commit") EXCEPT !.tries = state.tries])
            /\ UNCHANGED artifact /\ NoFault
       ELSE HandleError("commit")
  /\ UNCHANGED <<upd, inst, ctx, sd, dep, pay, server, seen, pauses>>

(* CommitUpdate of the first payload: the point of no return *)
HandleCommitFirst ==
  /\ At("commit") /\ idx = 1
  /\ \/ /\ pay' = [p \in 1..N |-> IF p = 1 THEN "committed" ELSE pay[p]]
        /\ idx' = 2
        /\ UNCHANGED <<state, to, stage, err, artifact>> /\ NoFault
     \/ /\ N > 0 /\ UNCHANGED pay
        /\ HandleError("commit")
  /\ UNCHANGED <<upd, inst, ctx, sd, dep, server, seen, pauses>>

(* One transaction: the state data, and the artifact's name and provides *)
HandleCommitStore ==
  /\ At("commit") /\ idx = 2
  /\ \/ /\ sd' = Stored("commit", upd, 1)
        /\ IF CountExceeded(sd.count)
             THEN /\ Goto(NewStatusReport("failure"))
                  /\ \/ artifact' = Broken /\ NoFault
                     \/ artifact' = [id |-> dep, broken |-> FALSE] /\ DbFault
             ELSE /\ artifact' = [id |-> dep, broken |-> FALSE] /\ NoFault
                  /\ Goto(New("afterFirstCommit"))
     \/ /\ DbFault /\ UNCHANGED disk
        /\ Goto(New("updateError"))
  /\ UNCHANGED <<upd, inst, ctx, dep, pay, server, seen, pauses>>

(* CommitUpdate of the other payloads; an error does not stop the loop *)
HandleAfterFirstCommit ==
  /\ At("afterFirstCommit") /\ idx < N
  /\ idx' = IF idx = 0 THEN 2 ELSE idx + 1
  /\ UNCHANGED <<state, to, stage>>
  /\ IF N < 2 \/ idx' > N
       THEN UNCHANGED <<pay, err>>
       ELSE \/ pay' = [pay EXCEPT ![idx'] = "committed"] /\ UNCHANGED err
            \/ err' = "error" /\ UNCHANGED pay
  /\ UNCHANGED <<upd, inst, ctx, disk,
                 dep, server, seen, exposed, faults, pauses>>

(* Mutant: the errors of the later payloads are lost. *)
AfterFirstCommitEndLosesError ==
  /\ At("afterFirstCommit") /\ idx >= N
  /\ Goto(New("afterCommit"))
  /\ UNCHANGED <<upd, inst, ctx, disk, world>>

HandleAfterFirstCommitEnd ==
  /\ At("afterFirstCommit") /\ idx >= N
  /\ IF err # "nil" THEN HandleError("afterFirstCommit")
            ELSE Goto(New("afterCommit")) /\ UNCHANGED artifact /\ NoFault
  /\ UNCHANGED <<upd, inst, ctx, sd, dep, pay, server, seen, pauses>>

HandleAfterCommit ==
  /\ At("afterCommit")
  /\ Goto(NewCleanup("success"))
  /\ UNCHANGED <<upd, inst, ctx, disk, world>>

-----------------------------------------------------------------------------
(* ArtifactRollback *)

(* Rollback() of one payload.  One that cannot roll back does nothing; one *)
(* that is committed may or may not undo what it committed.                *)
AfterRollback(p) ==
  CASE pay[p] = "installed" -> {IF upd.rollback = "yes" THEN "clean" ELSE "installed"}
    [] pay[p] = "committed" -> {"clean", "committed"}
    [] OTHER -> {"clean"}

HandleRollbackPayload ==
  /\ At("rollback") /\ idx < N
  /\ \/ /\ \E v \in AfterRollback(idx + 1) : pay' = [pay EXCEPT ![idx + 1] = v]
        /\ idx' = idx + 1
        /\ UNCHANGED <<state, to, stage, err, artifact>> /\ NoFault
     \/ /\ HandleError("rollback") /\ UNCHANGED pay
  /\ UNCHANGED <<upd, inst, ctx, sd, dep, server, seen, pauses>>

(* queryUpdateModuleReboot: Set() only appends, so the answers of payloads *)
(* not asked before are added in order, up to the first that fails.        *)
RollbackEnd(unasked) ==
  /\ At("rollback") /\ idx = N
  /\ \E k \in 0..unasked : \E more \in [1..k -> RebootAnswers] :
       upd' = [upd EXCEPT !.reboots = @ \o more]
  /\ Goto(IF \E p \in DOMAIN upd'.reboots : upd'.reboots[p] # "none"
            THEN New("rollbackReboot") ELSE New("updateError"))
  /\ UNCHANGED <<inst, ctx, disk, world>>

(* Mutant: payloads that have answered are asked again. *)
RollbackEndAsksAgain == RollbackEnd(N)

HandleRollbackEnd == RollbackEnd(N - Len(upd.reboots))

(* A payload not asked ends the loop before the system reboot *)
HandleRollbackRebootHost ==
  /\ At("rollbackReboot")
  /\ Asked("custom") \/ (Asked("automatic") /\ Len(upd.reboots) = N)
  /\ Boot
  /\ UNCHANGED <<seen, exposed, faults>>

HandleRollbackRebootReturns ==
  /\ At("rollbackReboot")
  /\ Goto(New("verifyRollbackReboot"))
  /\ UNCHANGED <<upd, inst, ctx, disk, world>>

HandleVerifyRollbackReboot ==
  /\ At("verifyRollbackReboot")
  /\ \/ /\ Goto(New("afterRollbackReboot")) /\ UNCHANGED artifact /\ NoFault
        /\ UNCHANGED seen
     \/ HandleError("verifyRollbackReboot") /\ seen' = seen \cup {"rollbackRetry"}
  /\ UNCHANGED <<upd, inst, ctx, sd, dep, pay, server, pauses>>

HandleAfterRollbackReboot ==
  /\ At("afterRollbackReboot")
  /\ Goto(New("updateError"))
  /\ UNCHANGED <<upd, inst, ctx, disk, world>>

-----------------------------------------------------------------------------
(* The end of a deployment: ArtifactFailure, Cleanup, the status report *)

(* Mutant: the failure is reported without the cleanup. *)
UpdateErrorSkipsCleanup ==
  /\ At("updateError")
  /\ Goto(NewStatusReport("failure"))
  /\ UNCHANGED <<upd, inst, ctx, disk, world>>

HandleUpdateError ==   \* errors of Failure() are only logged
  /\ At("updateError")
  /\ Goto(NewCleanup("failure"))
  /\ UNCHANGED <<upd, inst, ctx, disk, world>>

HandleCleanup ==       \* a payload's Cleanup() that fails fails the update
  /\ At("cleanup")
  /\ \/ Goto(NewStatusReport(state.status))
     \/ inst # "none" /\ Goto(NewStatusReport("failure"))
  /\ pauseReported' = {}
  /\ seen' = IF inst = "current" THEN seen \cup {"cleanup"} ELSE seen
  /\ UNCHANGED <<upd, inst, fetchTries, mapTries, disk,
                 dep, pay, server, exposed, faults, pauses>>

(* sendDeploymentStatus, then the logs of a failed update *)
HandleStatusReport ==
  /\ At("statusReport")
  /\ LET sent  == [state EXCEPT !.tries = @ + 1]
         logged == [sent EXCEPT !.logTries = @ + 1]
         Retry(s, n) == [s EXCEPT !.kind = "statusReportRetry", !.sending = n]
     IN \E r \in ReportOutcomes :
          /\ seen' = seen \cup Learn(r)
          /\ upd' = [upd EXCEPT !.attempts = IF r = "ok" THEN 0 ELSE sent.tries]
          /\ server' = [server EXCEPT !.told = IF r = "ok" THEN state.status ELSE @]
          /\ CASE r = "fatal" -> Goto(New("idle"))
               [] r = "transient" -> Goto(Retry(sent, sent.tries))
               [] OTHER -> \/ Goto(New("idle"))
                           \/ /\ state.status = "failure"
                              /\ Goto(Retry(logged, logged.logTries))
  /\ UNCHANGED <<inst, ctx, disk, dep, pay, exposed, faults, pauses>>

HandleStatusReportRetry ==
  /\ At("statusReportRetry")
  /\ IF state.sending < MaxSend
       THEN Goto([state EXCEPT !.kind = "statusReport", !.sending = 0])
       ELSE Goto(New("idle"))
  /\ UNCHANGED <<upd, inst, ctx, disk, world>>

-----------------------------------------------------------------------------
(* The server may abort the deployment, or forget it, at any moment *)
Abort ==
  /\ dep > 0 /\ ~Aborted
  /\ state.kind \notin {"idle", "checkWait", "updateCheck", "error"}
  /\ server' = [server EXCEPT !.phase = "aborted"]
  /\ UNCHANGED <<memory, disk, dep, pay, seen, exposed, faults, pauses>>

Init ==
  /\ state = New("init") /\ to = New("init") /\ stage = "handle"
  /\ idx = 0 /\ err = "nil"
  /\ upd = NewUpdate /\ sd = NoData
  /\ artifact = [id |-> 0, broken |-> FALSE]
  /\ inst = "none" /\ fetchTries = 0 /\ mapTries = 0 /\ pauseReported = {}
  /\ dep = 0 /\ pay = [p \in 1..N |-> "clean"]
  /\ server = NewServer
  /\ seen = {} /\ exposed = {} /\ faults = 0 /\ pauses = 0

Download == \/ HandleFetch \/ HandleFetchStoreRetry \/ HandleStoreRejected
            \/ HandleStorePayloads \/ HandleSupportsRollback \/ HandleStoreEnd
            \/ HandleAfterStore

Control == \/ HandleFetchControlMap \/ HandleFetchRetryControlMap
           \/ HandleControlMapContinue \/ HandleControlMapPauseAction
           \/ HandleControlMapFail \/ HandleControlMapPause
           \/ HandleRebootPauseRequested

Apply == \/ HandleInstallBegin \/ HandleInstallPayload \/ HandleRebootType
         \/ HandleRebootRefused \/ HandleRebootHost \/ HandleRebootReturns
         \/ HandleVerifyReboot \/ HandleAfterReboot

Commit == \/ HandleCommitBegin \/ HandlePreCommitRetry \/ HandleCommitFirst
          \/ HandleCommitStore \/ HandleAfterFirstCommit
          \/ HandleAfterFirstCommitEnd \/ HandleAfterCommit

Rollback == \/ HandleRollbackPayload \/ HandleRollbackEnd
            \/ HandleRollbackRebootHost \/ HandleRollbackRebootReturns
            \/ HandleVerifyRollbackReboot \/ HandleAfterRollbackReboot

Finish == \/ HandleUpdateError \/ HandleCleanup \/ HandleStatusReport
          \/ HandleStatusReportRetry

Outside == \/ HandleInit \/ HandleInitUnreadable \/ HandleInitNoInstallers
           \/ HandleIdle \/ HandleCheckWait \/ HandleUpdateCheck \/ HandleErrorState

Agent == \/ Transition \/ Outside \/ Download \/ Control \/ Apply
         \/ Commit \/ Rollback \/ Finish

Next == Agent \/ ServiceRestart \/ Crash \/ Abort

(* The daemon's loop runs, and systemd restarts the daemon *)
Fairness == WF_vars(Agent) /\ WF_vars(ServiceRestart)

Spec == Init /\ [][Next]_vars /\ Fairness

-----------------------------------------------------------------------------
PayStates == {"clean", "installed", "committed"}
Events == {"download", "cleanup", "rollbackRetry", "abortKnown", "forcedFail"}
Holes == {"dbWriteFailed", "commitWindow", "installersLost", "stateUnreadable",
          "unsupportedRollback"}

(* The type invariant of the agent's memory, its database and the device. *)
TypeOK ==
  /\ state \in States /\ to \in States
  /\ stage \in {"transition", "handle", "exited"}
  /\ idx \in 0..(N + 2) /\ err \in {"nil", "error"}
  /\ upd \in UpdateInfos /\ sd \in StateData
  /\ artifact \in [id : Nat, broken : BOOLEAN]
  /\ inst \in {"none", "stale", "current"}
  /\ fetchTries \in Nat /\ mapTries \in Nat /\ pauseReported \subseteq Wrappable
  /\ dep \in Nat /\ pay \in [1..N -> PayStates]
  /\ server \in [phase : {"active", "aborted"}, told : {"none", "success", "failure"}]
  /\ seen \subseteq Events /\ exposed \subseteq Holes
  /\ faults \in Nat /\ pauses \in Nat

-----------------------------------------------------------------------------
(* Safety *)

Unbroken == artifact # Broken
Sound == exposed = {}

(* A finished deployment that is not flagged broken is all or nothing: the *)
(* new artifact name with every payload committed, or another name with no *)
(* payload left installed.  The holes named in "exposed" are the only ways *)
(* around it (idleState.Handle is where a deployment is forgotten).        *)
OutcomeConsistent ==
  At("idle") /\ dep > 0 /\ Sound /\ Unbroken =>
    \/ artifact.id = dep /\ \A p \in 1..N : pay[p] = "committed"
    \/ artifact.id # dep /\ \A p \in 1..N : pay[p] = "clean"

(* As long as a payload is installed but not committed, the state data in  *)
(* the database is one that makes a restart roll back, go on or flag the   *)
(* artifact broken: no crash forgets an update half way.                   *)
DirtyIsRecorded ==
  Sound /\ Unbroken /\ (\E p \in 1..N : pay[p] = "installed") =>
    sd.name \in {"install", "reboot", "afterReboot", "commit", "rollback",
                 "afterFirstCommit"}

(* The server is told "success" only while every payload is committed and  *)
(* the database carries the new artifact's name (the status that travels   *)
(* from updateAfterCommitState through cleanup to the report).  The name   *)
(* may be flagged broken: a leave script of the commit that failed before  *)
(* a crash and passed after it leaves the flag and reports success.        *)
SuccessMeansCommitted ==
  [][ server'.told = "success" /\ server.told # "success" =>
        artifact.id = dep /\ \A p \in 1..N : pay[p] = "committed" ]_vars

(* Once the first payload is committed no payload is rolled back, unless   *)
(* the restart fell into the commit window or a database write failed.     *)
CommittedIsFinal ==
  At("rollback") /\ exposed \cap {"commitWindow", "dbWriteFailed"} = {} =>
    \A p \in 1..N : pay[p] # "committed"

(* A deployment whose payloads were downloaded is cleaned up before it is  *)
(* forgotten, unless the loop breaker cut it short.                        *)
CleanupRuns ==
  At("idle") /\ Sound /\ Unbroken /\ "download" \in seen => "cleanup" \in seen

(* An agent that has learned that its deployment was aborted never commits *)
(* a payload of it afterwards, crashes included (updateCommitState asks    *)
(* the server once more).                                                  *)
AbortNeverCommits ==
  [][ "abortKnown" \in seen /\ dep' = dep =>
        \A p \in 1..N : pay'[p] = "committed" => pay[p] = "committed" ]_vars

(* Without faults and without a failing rollback reboot, no deployment     *)
(* comes near the store count at which transitionState breaks a loop.      *)
OrderlyRunsFit ==
  faults = 0 /\ "rollbackRetry" \notin seen => ~CountExceeded(sd.count)

(* Liveness: every deployment ends and the agent polls again, however the  *)
(* network, scripts and payloads behave.                                   *)
DeploymentEnds == state.kind = "fetch" ~> state.kind = "idle"

-----------------------------------------------------------------------------
(* Claims of the update module documentation and of comments in state.go   *)

(* update-modules-v3-file-api.md: "ArtifactRollback will not be called if  *)
(* at least one payload has successfully finished ArtifactCommit".         *)
NoRollbackAfterCommit == At("rollback") => \A p \in 1..N : pay[p] # "committed"

(* state.go on updateRebootPauseRequestedState: after a forced failure it  *)
(* would be very bad to resume the update.                                 *)
ForcedFailureNeverCommits ==
  [][ "forcedFail" \in seen /\ dep' = dep =>
        \A p \in 1..N : pay'[p] = "committed" => pay[p] = "committed" ]_vars

=============================================================================
