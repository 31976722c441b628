# OTA-Pulse: a TLA+ model of the update agent

OTA-Pulse updates embedded Linux devices over the air. Its core is
`soc-ota-agent` (Go, a descendant of the Mender client): a daemon that polls a
deployment server, downloads an artifact, hands its payloads to payload
handlers (update modules, or the built-in A/B root filesystem), reboots,
verifies, commits or rolls back, and reports. Around it are a tunnel daemon, a
system monitor (`socmond`), boot scripts and build recipes.

This directory holds TLA+ modules that model the agent, TLC configurations that
check them on small instances, and proofs checked by TLAPS. `PROJECT.json` maps
every definition to the lines it models.

## 1. Inventory

| Part | State | Operations | Hard behaviour | What makes it correct |
|---|---|---|---|---|
| Deployment state machine (`app/state.go`, `mender.go`, `transition.go`, `daemon.go`) | current and next state, `UpdateInfo`, retry counters, loaded payload handlers | one handler per state, `transitionState` with enter/leave scripts, `HandleError`, recovery in `initState` | a crash between any two effects, failing writes, failing scripts, aborts by the server, loops | a finished deployment is all or nothing or flagged; a restart forgets nothing; an aborted one is never committed; every deployment ends |
| State data (`datastore/`, `store/`) | `StateData` under a key, a store count, a second copy while a schema migration is uncommitted | store, load, remove; migration | the count is both loop breaker and budget; unreadable data | ordinary runs fit the budget; loops do not |
| Update control maps (`app/updatemanager.go`, `app/updatecontrolmap/`) | a pool of maps by deployment and priority, expirations, persistence of unexpired maps | insert, replace, delete, `QueryAndUpdate`, expiry | expiry goroutines against queries, restart with half-expired maps | the action is that of the highest priority that has an opinion |
| Dual rootfs device (`installer/dual_rootfs_device.go`, `file_bootenv.go`, `bootenv.go`, `partitions.go`) | boot environment (`mender_boot_part`, `upgrade_available`, `bootcount`), slot pointers in several files | store, install, reboot, verify, commit, rollback, boot-count fallback | a crash between file writes; boot-health and boot loader change the same files | the device always boots a bootable slot; an uncommitted update is undone by the next failing boots |
| Boot scripts (`otapulse-boot-health`, `switch-boot-slot.sh`, `boot-*.cmd`) | boot count, command line backup | count boots, fall back | run between two lives of the agent | the same |
| Payload handlers (`installer/modules.go`, `installer.go`) | files tree, a running module process, named pipes, an event loop | store every file, finish; one call per later phase | the module reads, hangs or exits when it likes; a timer kills it | the caller sees a sequence of calls, each with its own answer |
| Download (`client/update_resumer.go`, `client_update.go`, `installer/block_device.go`) | offset, retry count, frame buffer, position on the partition | resumed range requests, writes that skip what is there, syncs | a connection lost at any byte, power lost with writes in the kernel's cache | the bytes delivered are the file, once, in order, and what is reported as stored is on the disk |
| Authorization (`app/auth.go`, `app/proxy/`, `client/client.go`) | token, server list, key, a queue of one, a broadcast channel, the proxy's listener | authorize, broadcast, restart the proxy, forward | agent, main loop, worker, other programs and websockets in parallel | a caller gets an answer younger than its question; proxy and manager agree |
| SoC Monitoring client (`client/soc_client.go`) | API key, time of the last reload | request, reload after a refusal, repeat once | a key file rewritten while it is read; two requesters | a rotation is noticed; the files are not read at every request |
| State scripts (`statescript/`) | script directory | run, retry later | a script that asks to be retried for ever | bounded by a timeout |
| Tunnel daemon (`tunnel/`, `cmd/soc-ota-tunneld`) | child process, backoff | supervise, restart | a child that dies at once | the delay grows to a cap and is reset by stability |
| Standalone mode (`app/standalone.go`, `cli/`) | `StandaloneData` | install, commit, rollback from the command line | the same effects without the daemon | an uncommitted update can be committed or rolled back once |
| socmond (`meta-otapulse/recipes-core/socmond`) | metrics, watchdog, reboot reasons | sampling, HTTP, IPC | none that touches an update | - |

Interactions: the state machine calls payload handlers (dual rootfs among
them) in the order of its states, the control-map pool before install, reboot
and commit, the client for reports, and the database before every handler of an
update. The boot scripts run between two lives of the agent and share the boot
environment with the dual rootfs device. Systemd restarts the daemon
(`support/soc-ota-agent.service`, `Restart=on-failure`).

## 2. Plan

In the order of how much of a device depends on it. Done:

1. `UpdateFlow` - the deployment state machine, its database record, crashes
   and restarts.
2. `DualRootfs` - the A/B root filesystem: boot environment file by file, state
   scripts, boot-health, firmware.
3. `ControlMaps` - the pool of update control maps, its expiry goroutines, its
   store, the states that ask and wait, against a reference definition.
4. `ModuleDownload` - the payload on its way to an update module, and
   `PayloadStorer`, the abstract contract it is shown to implement.
5. `Standalone` - install, commit and rollback from the command line.
6. `Download` - the image on its way to the inactive partition.
7. `AuthManager` and `SocClient` - authorization, local proxy, API key.
8. Proofs (section 5): every invariant and action property that a run checks,
   and the refinement of `PayloadStorer`.

Left, in this order:

9. The agent composed with the dual rootfs device (the payload calls of
   `UpdateFlow` are the operations of `DualRootfs`), and an abstract A/B update
   (running slot, committed slot, pending or not) that both implement.
10. The tunnel supervisor, the schema migration of the store, the inventory
    poll of the daemon.

Modules are written so that they can be proved about: no RECURSIVE operator,
constants with named assumptions, one action per handler or piece of a handler.

## 3. The modules

### UpdateFlow

One step is one call of `transitionState` up to the handler (leave scripts,
enter scripts, the database write and the loop check in the order of the code)
or one piece of a handler between two durable effects. So a crash can fall
between any two effects.

| Variable | Code |
|---|---|
| `state`, `to`, `stage`, `idx`, `err` | `Mender.state`, `toState` of the daemon's loop, where in the loop the agent is, loop index and `firstErr` inside a handler |
| `upd`, `sd`, `artifact` | `UpdateInfo` in memory, `StateData` and the artifact name in the database |
| `inst`, `fetchTries`, `mapTries`, `pauseReported` | loaded payload handlers and the counters of `StateContext` |
| `pay`, `server`, `dep` | what every payload is on the device; the deployment at the server |
| `seen`, `exposed`, `faults`, `pauses` | history and bounds |

The states of `state.go` are records with a `kind`, and the actions `Handle...`
are their handlers; `Transition` is `transitionState`; `Resume` is the switch of
`initState`; `Crash`, `ServiceRestart` and `Abort` are the environment. Calls
that leave the agent (payload handlers, scripts, server, database) have every
outcome the code tells apart. `exposed` names the holes a behaviour fell into:
a database write that failed after a durable effect, a crash in the commit
window, handlers that could not be restored, unreadable state data, a rollback
of payloads that do not support it. Properties that hold only outside a hole
name it, and section 4 says how the code falls into it.

### DualRootfs

The same deployment seen by the device, for one rootfs payload.

| Variable | Code |
|---|---|
| `data` | `/data/ota/mender_boot_part`, `current_slot`, `upgrade_available`, `boot_count` |
| `fat` | `mender_boot_part`, `cmdline.txt`, `cmdline_prev.txt` and the tryboot files on the FAT partition |
| `image`, `running`, `oneshot` | what the two root partitions hold, which is mounted, the firmware's tryboot flag |
| `deferred` | the script `ArtifactReboot_Enter_01` leaves in the background |
| `pc`, `todo`, `stored`, `result` | the running handler, file writes left of a `WriteEnv`, the stored state, the outcome |
| `home`, `exposed`, `faults`, `deployments` | history and bounds |

`WriteVar` writes one file of `WriteEnv` at a time, in the order of
`writeOrder`; the partition is written twice because its hexadecimal form goes
through the same function. Power loss, a crash of the agent alone, a failing
write, a failing script and a reboot that returns an error may strike between
any two steps. The scripts are one step each and read and write the files the
agent does. `Board` selects what the next boot reads: the file on the FAT
partition (boot script boards) or `cmdline.txt` (VideoCore). Images are good,
boot without a working agent, or panic.

Assumed of the environment: `boot.cmd` understands the digit in the file (what
`setexpr.b` does with it is U-Boot's business); the background script dies with
the agent's control group; tryboot is a one-shot that any reset clears; a
device without an agent is reset in the end (`Watchdog`), which nothing in the
agent guarantees and which only the liveness run uses.

### ControlMaps

| Variable | Code |
|---|---|
| `pool`, `stored` | `ControlMapPool.Pool` by ID and priority, and its copy in the database |
| `updates`, `stray` | the channel `Updates` (one place), and expiry goroutines whose map has been replaced or deleted but which will still announce |
| `pc`, `at`, `second` | the state of the daemon, the state it wraps (Install, Reboot, Commit), whether the pause state before the reboot was visited |
| `reported`, `tries` | `pauseReported`, `controlMapFetchAttempts` |
| `left`, `unsaved`, `maps`, `faults` | history and bounds |

`DBusCall` is `SetUpdateControlMap`, `CheckUpdate` and `FetchControlMap` are
the states that hand the server's map to the pool, `Expire` is the goroutine of
a map, `ControlMapQuery` is `QueryAndUpdate` with its save, `ControlMapPause`
and the two `Wait...` the states that wait for a timer or for the channel. JSON
defaults, sanitising and the default of `on_map_expire` are `Sanitize`. Pool
and store change in one step because the pool's mutex covers both. Time is left
out: a timer may fire at any moment, except that the server's map does not
expire during a wait that ends at half its life.

### ModuleDownload and PayloadStorer

| Variable | Code |
|---|---|
| `client`, `result`, `file` | the artifact reader and its calls of `StoreUpdate`, `FinishStoreUpdate`, `Cleanup` |
| `loop`, `told`, `kind`, `current`, `finish`, `reaped` | `downloadProcessLoop`, the status it sends, `downloaderType`, `currentStream`, `finishFlag`, `d.proc = nil` |
| `next`, `data`, `orphans` | the goroutines that write `stream-next` and the file, and those whose stream object was overwritten |
| `proc`, `line` | the module's process and what is in the pipe |
| `tree`, `stored` | the module's directory, and where each file has been copied in full |

Channels are unbuffered, so a send and its receive are one step, and a
goroutine that wants to send is a state of its own. The module does what it
likes. `PayloadStorer` is what a caller may rely on: calls one at a time, a
file that is reported as stored is there and is not touched afterwards. The
refinement mapping (`Contract` in `ModuleDownload`) forgets loop, pipes and
process and keeps the call, the results and the set of files that are complete.

### Standalone

`pc` is the step of the running command, `data` the `standaloneData` it works
on, `state` and `name` what the database holds, `software` what the payload has
made of the device (committed, pending, booted). The actions are the steps of
`doStandaloneInstallStates`, `doStandaloneCommitStates` and
`doStandaloneFailureStates`, each of which may fail; the kind of payload is a
root filesystem, an update module, the stub that replaces a module that has
been removed, or none. `PreDatabaseRestore` is the way back for a record that
was never written. A command may be killed between any two steps. As in the
code, an install may be started over an update that waits for its commit. `lost`
remembers this and the other ways in which the record and the device part: a
failing access to the database, a module that is gone, a record that was never
written, and a command killed between a payload's step and the transaction that
records it.

### Download

The image is a sequence of chunks. `stream` is what the connection brings next,
`offset` what `UpdateResumer` has returned, `buf` and `pos` the frame and
position of the block device writers, `cache` and `disk` the partition as the
agent reads it and as a loss of power may leave it. `Resume` asks for the rest
and skips what is known already; `WriteFrame` writes a frame unless it is on the
partition; `Sync` is the flush after a write and at the close; `Abort` the
close after an error, which still writes the buffer. `Backoff` is
`GetExponentialBackoffTime`. Decompression and checksums are left out.

### AuthManager

| Variable | Code |
|---|---|
| `inChan`, `loop`, `queue` | requests to the main loop, the one it is answering, `workerChan` |
| `worker`, `server` | where `fetchAuthToken` and its deferred broadcast are, the server it tries |
| `token`, `serverURL`, `key` | what the manager has; the device key in memory and on disk, and whether it is static |
| `proxy`, `socket`, `conns` | the proxy's listener, backend and token; its websocket handlers, with ends that have stopped reading (`stalled`), and `wsConnections` |
| `channel`, `agent`, `answer` | the agent's broadcast channel (one place, may be closed), `ReauthorizingClient.Do` around `Authorize`, its response channel |
| `owner`, `changes`, `excused` | history: the key of the last token, how often it was another one than before, and what may have caused that |

The worker restarts the proxy in steps (cancel, look for websockets, close them
one by one, shutdown, reconfigure), because handlers run between them, except
that none gets `wsConnectionsMutex` while `CloseWsConnections` has it. Closing
one writes to both ends without a deadline, so it takes ends that read. Every
request to a server begins with the identity helper, which may never end
(`HelperHangs`). `Send` is the token check of the proxy and `Forward` the
request behind it. `Restart` is a new process, whose `Load` finds the key or
fails; `Bootstrap` makes a key unless there is one or it is static.

### SocClient

`main` and `fallback` are the key in the two configuration files (0 for a file
that is missing or has no key, -1 for one that cannot be parsed), `apiKey` the
client's (0 for an agent that was started without), `since` the ticks since the
last reload, `req` where each requester's `Do` is. `Reload` is
`reloadAPIKeyIfChanged`; `RotateBegin` and `RotateEnd` are a re-provision from
outside, with a new key or with the same again, during which the main file is
broken, missing or without a key, and the fallback may still have an old one.

## 4. The runs

| Run | Instance | Shows |
|---|---|---|
| `update_flow_faults` | 1 payload, 2 faults of any kind, failing scripts everywhere | types, `OutcomeConsistent`, `DirtyIsRecorded`, `CommittedIsFinal`, `CleanupRuns`, `AbortNeverCommits` |
| `update_flow_payloads` | 2 payloads, every reboot answer, 1 crash or failing write | `OutcomeConsistent` and `SuccessMeansCommitted` when payloads differ |
| `update_flow_live` | the code's store count of 30, 1 crash, 1 pause | `DeploymentEnds`; `OrderlyRunsFit`: a deployment without faults never reaches the loop breaker |
| `dual_rootfs_faults` | boot script and VideoCore boards, with and without `switch-boot-slot.sh`, 3 deployments, 3 faults | types, `FailureRestores`, `SuccessSwitches`, `ReadyMeansSwitched`, `BackupIsHome`, `BookkeepingRight` |
| `dual_rootfs_live` | VideoCore boards, images whose agent never starts | `AgentReturns` |
| `control_maps` | a map of an application and maps of the server, of a lower priority and of the same, 3 kinds of request, 1 crash or failing write | types (no map pauses once it has expired), `HighestOpinionWins`, `RestartAgrees`, `NoMissedUpdate`, `PauseEnds` |
| `module_download` | 3 files, 2 faults | types, `SuccessMeansStored`, `KeepsContract` (the refinement of `PayloadStorer`), `CallsReturn` |
| `claim_cleanup_unconditional` | 1 file, no fault | `CleanupUnconditional` is violated, see below |
| `standalone` | 2 installations of every kind of payload, 3 failures, 1 killed command | types, `NameIsTrue` |
| `download` | an image of 3 chunks in frames of 2, 2 further downloads, 2 faults | `EveryByteOnce` (with the types), `StoredSurvives`, `BackoffAsCommented`, `DownloadEnds` |
| `auth_manager` | 2 servers, 2 requests of the agent, 1 fetch of another program, 1 websocket, 1 restart and 1 other fault | types, `FreshAnswer`, `ProxyAgrees`, `OneIdentity`, `DoReturns` |
| `soc_client` | 2 requesters, 2 rotations, an interval of 2 ticks, 2 faults | `OneReadPerInterval`, `KeyIsKept`, `RotationNoticed` |

### Where code and text disagree

`claim_cleanup_unconditional` checks "`Cleanup` executes unconditionally at the
end of all the other states, regardless of all outcomes"
(`docs/update-modules-v3-file-api.md:148`) and TLC finds the behaviour in which
it does not: a module exits with an error while no call waits for an answer,
that is before the loop has taken the first file, or between one answer and the
loop's taking of the next file or of the end. `handleCmdErr` returns an error,
`downloadProcessLoop` blocks in `d.status <- err` (`installer/modules.go:594`)
outside its select, and the reader blocks offering the next file or the end,
which only that select receives. Neither moves again. `CallsReturn` shows that
this state (`Unheard`) is the only way for a download not to end.

The modules state further sentences as properties that no run lists; each is
violated on the instance named here, when it is added to that configuration
(state predicates as INVARIANT, the others as PROPERTY):

| Property | The sentence | What happens | Instance |
|---|---|---|---|
| `UpdateFlow!NoRollbackAfterCommit` | "`ArtifactRollback` will not be called if at least one payload has successfully finished `ArtifactCommit`" (`docs/update-modules-v3-file-api.md:198`) | a crash between the first commit and the next stored state rolls back | `UpdateFlowFaults.cfg` |
| `UpdateFlow!ForcedFailureNeverCommits` | the action may resolve to "fail", "and then it would be very bad to resume the update" (`app/state.go:1647`) | "reboot" is stored for the pause; a crash after the map turned to fail resumes and commits | `UpdateFlowLive.cfg` |
| `ControlMaps!RealPause` | "the next time around, we want a real pause to happen" (`app/state.go:1662`) | the second query sees what `on_action_executed` made of the maps | `ControlMaps.cfg` |
| `DualRootfs!StaleFileAborts` | "Propagate the failure so WriteEnv aborts before upgrade_available is written" (`installer/file_bootenv.go:261`) | a `cmdline.txt` that cannot be written is logged only, and the flag is set | `DualRootfsFaults.cfg` |
| `DualRootfs!RollbackStaysHome` | before the reboot "the rollback must switch back the partition to the current active and running partition" (`installer/dual_rootfs_device.go:157`) | a rollback repeated after a crash decides the other way | `DualRootfsFaults.cfg` |
| `DualRootfs!CommitAfterReboot` | "`ArtifactVerifyReboot` should be used to verify that the reboot has been performed correctly" (the same document, line 135) | only a flag is looked at | `DualRootfsFaults.cfg` |
| `DualRootfs!AgentReturns` | a kernel panic "still auto-reverts" (`otapulse-boot-health.service:5`) | an image that panics never runs the service and is booted for ever | `DualRootfsLive.cfg` with `Images = {"good", "panic"}` |
| `Download!BackoffDoubles` | "Base: RetryPollInterval", "Max: UpdatePollInterval", "Formula: min(base * 2^attempts, max)" (`soc-ota-agent/DOWNLOAD_PROCESS_FLOW.md:652`) | the first three waits are equal: the base is one minute, the wait doubles after three attempts, and `RetryPollInterval` is the longest wait (`client/client.go:700`, `app/mender.go:297`). The comment of the function says so, and `BackoffAsCommented` shows that the code keeps to it | `Download.cfg` |
| `Standalone!WaitingIsKept` | "Use 'commit' to update, or 'rollback' to roll back the update." (`app/standalone.go:248`) | a second install that fails removes the record of the first | `Standalone.cfg` |

More places where the passing properties name a hole or leave a case out:

- `updateRebootState` rolls back after a failing reboot whatever
  SupportsRollback answered (`unsupportedRollback`); a failing database write
  after the commit rolls back too (`dbWriteFailed`); the loop breaker skips
  Cleanup; `setBrokenArtifactFlag` only logs a failing write.
- The rollback state may ask NeedsReboot before any installation
  (`app/state.go:1845`); attempts stored by the report before the commit count
  against the final one (1503); the retry counters of one deployment are left
  to the next (1157); Failure and Cleanup of an artifact that was refused are
  called on the handlers of the previous deployment (1365). All four are in the
  model (`HandleRollbackEnd`, `upd.attempts`, `fetchTries` and `mapTries`,
  `inst`), and no property is broken by them: what such a handler answers is
  the update module's business, and a deployment still ends.
- A crash between the first successful commit and the record that says so
  (`commitWindow`) resumes as a failed update and rolls back what is committed.
  State data that cannot be read (`stateUnreadable`) and payload handlers that
  cannot be restored (`installersLost`) end a deployment without a rollback;
  the artifact is not flagged as inconsistent.
- A write of the installation that fails, or power lost, between the boot file
  and `upgrade_available` leaves a device that boots the new slot and a
  `Rollback` that does nothing (`torn`); so does a failing
  `switch-boot-slot.sh`, because `WriteEnv` switched the files before it ran
  (`switchFailed`). A rollback that is interrupted in its own `WriteEnv` (`torn`)
  is repeated, compares the partition it has just written with the running one,
  and goes the other way (`RollbackStaysHome` above).
- The installation rewrites the permanent `cmdline.txt`, which
  `ArtifactCommit_Enter_01` calls its own privilege.
- `VerifyRollbackReboot` looks at a flag only: the background script may have
  booted the new slot again (`lateReboot`), or no reboot took place
  (`rollbackNotRebooted`).
- `ReconcileToBootedSlot` may run between a rollback and its reboot
  (`reconciled`), since its gate is the flag the rollback cleared.
- `NextIDControlMapHalfTime` and `NextAnyControlMapHalfTime` read the pool
  without its mutex (`app/updatemanager.go:488`); the model lets them see the
  pool before or after a change.
- A module removed between install and rollback is replaced by a stub that
  reports a rollback nobody performed (`installer/installer.go:347`, `lost`);
  an install killed between the payload's step and its record leaves an update
  the command line does not know of (`lost` as well).
- A `Load` that fails at the start for another reason than a missing key
  leaves an empty key store, "will cause regeneration of keys"
  (`app/auth.go:206`), and the next fetch overwrites a good key: the server
  sees an unknown device. A key that could not be saved is used until the next
  restart and then replaced by the one on disk. `OneIdentity` counts: each such
  failure and each start with `--forcebootstrap` costs one identity, nothing
  else does, and a static key is never changed.
- `CloseWsConnections` (`app/proxy/proxy_ws.go:214`) takes write mutexes and
  writes without a deadline, so a program or backend that stops reading its
  websocket blocks the worker; an identity helper that hangs does too
  (`device/identity_data.go:60`). Nobody is authorized any more and `Authorize`
  waits for ever. `DoReturns` shows that there is no other way (`Blocked`).
- A late refusal of an older key makes the SoC client read the files although
  its key is good; while the main file is missing or without a key it then
  takes the fallback's old one. This is the exception in `KeyIsKept`, and
  `RotationNoticed` holds in spite of it.
- The proxy's `Stop` cancels the context its `Shutdown` waits with, so it waits
  for no handler: a request that passed the token check goes to the backend
  configured next, which refuses the old token; a websocket dialled before and
  registered after `CloseWsConnections` outlives the proxy; two programs that
  connect at once both pass the limit of one, which is checked before the dial.

### Bounds

Faults and deployments are bounded, and so are the retries. Two faults of any
kind in one deployment cover a crash during the recovery from another fault;
one payload suffices there because the holes are between states, and the order
among payloads (commit of the first, then of the rest) is what the run with two
is for. The store count is 14 or 15 instead of 30 where the loop breaker must
come within reach, and 30 in the run about the budget. Three deployments of
`DualRootfs` let a file left by one cycle be found by the next and the one
after, with the slots swapped in between; three retries of a boot are the
code's own. Pauses, reports and backoff are bounded by the code itself and
appear with smaller limits.

`ControlMaps` needs two sources of maps of which one can be above, below or
level with the other, and two maps in a behaviour so that one can replace
another; three requests give every action, the default of `on_map_expire`
included (an expired pause fails). In `ModuleDownload` the second file is the
one that meets the loop after a first result, the third shows nothing new
happens after it. Three chunks in frames of two give `Download` a full frame
and a rest; a longest wait of three is no power of two. Two calls of the agent
and a fetch of another program are what it takes to leave an old message in the
broadcast channel, to fill it and to close it; a second server is what failing
over needs. The websocket is opened with one token and closed at the next. A
restart on top of a failing `Save` brings back the key on disk, and a `Load`
that fails at a restart needs nothing else; that failures add up is what the
proof of `OneIdentity` is for. Two rotations let the second fall into the interval the
first has used up.

### Fairness

`UpdateFlow`: the daemon's loop keeps running (`WF(Agent)`), and systemd
restarts a daemon that died (`Restart=on-failure`, `WF(ServiceRestart)`).
Crashes and aborts are not fair. Within the loop every wait of the code is
bounded, so no stronger assumption is needed; pauses of the control maps are
bounded by `MaxPauses`, because a server may pause an update as long as it
likes. `DualRootfs`: the steps of the agent, of a boot and of a `WriteEnv` keep
happening, and a device without an agent is reset. Firmware boots what it is
told, and the background script may come late or never. `ControlMaps`: the
daemon and the expiry timers go on; nobody has to set a map. `ModuleDownload`:
the caller, the event loop, the copying goroutines and the timer that kills the
module; nothing is assumed of the module, so it may hang in any place. `Download`:
the agent's own steps; the connection may break every time. `AuthManager`: main
loop, worker and agent go on wherever their next step is possible. Requests to
a server end one way or another (the HTTP client has a timeout). `Authorize`
waits for its broadcast without a timeout and the worker writes to websockets
without one, so neither wait is taken to end by itself: the first needs the
worker, the second ends that read, of which nothing is assumed, and an identity
helper that hangs is never fair to end (`Blocked`). `SocClient`: the agent polls, requests are answered, the
clock ticks and a file that is being written is completed. `Standalone` has no
liveness property.

## 5. What is proved

Every theorem is about `Spec` of the module that the runs check, for every
value of the constants that the named assumptions allow. These give sizes and
limits their ranges and say nothing else, with three exceptions; and one
theorem, `OrderlyRunsNeverBreak`, has a hypothesis of its own, discussed below.
`MaxBootRetries` of `DualRootfs` and `Interval` of `SocClient` are positive (3
boots and 10 seconds in the code). `ScriptsAssumption` of `UpdateFlow` says that
no state script is called `Error`: scripts are named after Idle, Sync, Download
or an Artifact state. The agent relies on this and does not check it.
`Launcher.get` (`statescript/executor.go:162`) would run a file
`Error_Enter_00`, and since `ignoreErrors` does not list `ToError`, its failure
at the cleanup after an error past the commit would lead to a rollback of
committed payloads (TLC shows this when the assumption is dropped).

Few of the properties are inductive. Each proof has an invariant of its own
that is, was checked by TLC first, and is preserved by one lemma per action or
group of actions; the theorems then follow from it.

| Module | Theorem | Property |
|---|---|---|
| `UpdateFlowProofs` | `TypeCorrect`, `AbortedNeverCommitted`, `AllOrNothing`, `HalfIsRecorded`, `CommitIsFinal`, `CleanupComesFirst`, `SuccessIsCommitted`, `OrderlyRunsNeverBreak` | `TypeOK`, `AbortNeverCommits`, `OutcomeConsistent`, `DirtyIsRecorded`, `CommittedIsFinal`, `CleanupRuns`, `SuccessMeansCommitted`, `OrderlyRunsFit` |
| `DualRootfsProofs` | `TypeCorrect`, `FlagComesLast`, `FailureIsUndone`, `SuccessIsSwitched`, `BackupIsKept`, `BookkeepingIsRight` | `TypeOK`, `ReadyMeansSwitched`, `FailureRestores`, `SuccessSwitches`, `BackupIsHome`, `BookkeepingRight` |
| `ControlMapsProofs` | `TypeCorrect`, `DocumentedAnswer`, `RestartIsFaithful`, `WakeUpsArrive` | `TypeOK`, `HighestOpinionWins`, `RestartAgrees`, `NoMissedUpdate` |
| `StandaloneProofs` | `TypeCorrect`, `RecordedNameIsTrue` | `TypeOK`, `NameIsTrue` |
| `ModuleDownloadProofs` | `TypeCorrect`, `SuccessIsStored`, `Implements` | `TypeOK`, `SuccessMeansStored`, `KeepsContract` |
| `DownloadProofs` | `BytesInOrder`, `StoredImage`, `BackoffSchedule` | `EveryByteOnce`, `StoredSurvives`, `BackoffAsCommented` |
| `AuthManagerProofs` | `TypeCorrect`, `AnswersAreFresh`, `ProxyIsInStep`, `IdentityIsKept` | `TypeOK`, `FreshAnswer`, `ProxyAgrees`, `OneIdentity` |
| `SocClientProofs` | `TypeCorrect`, `ReadsAreLimited`, `KeyStays` | `TypeOK`, `OneReadPerInterval`, `KeyIsKept` |

**UpdateFlow, types.** One lemma per group of actions, on top of lemmas about
the constructors of states (`New`, `NewControl`...), `ErrorNext` and `Resume`.

**UpdateFlow, aborts.** An agent that learned of the abort could be about to
enter the second half of the commit, or could resume it. `AbortInv` excludes
this: what the agent knows is true of the server (`KnownIsAborted`); a handler
runs only under its own name in the database (`HandledIsStored`), so a restart
cannot resume something else; past the report that precedes `CommitUpdate` the
agent does not know of an abort (`ReportedFirst`); nor does it anywhere from
which the second half of the commit is reached (`NotPastCommit`); and no
control map is consulted in between (`WaitsBeforeCommit`).

**UpdateFlow, outcome.** The properties speak of an idle agent, but whether
they hold is decided where a crash falls. `OutcomeInv` therefore says what
payloads and artifact name are in three places: in the state about to be
entered (`Fits`) or left (`Left`), inside a handler that is halfway through the
payloads (`Inside`), and under every record a restart may find (`Record`).
`Record` is the heart of it: a crash keeps only the record, and `Resume` must
lead from it to a state that `Fits` what is on the device. It uses `AbortInv`,
because what a handler may assume is what its record says.

**UpdateFlow, store budget.** `OrderlyRunsFit` says that a deployment without
faults and without a failing rollback reboot never meets the loop breaker. A
count alone cannot be inductive, so `Orderly` bounds it state by state: `Paid`
is the highest count with which a state is entered, `Spent` the highest with
which it is left. Every transition has room for its own store, waits and
report retries store nothing that counts, and between two deployments the
record is gone. The largest bound is 14, for the path through download,
install, reboot, a commit that is refused, rollback, its reboot, failure,
cleanup and report. TLC reaches 14 on two payloads, so the hypothesis
`MaxStoreCount > 14` is as weak as it can be; the code has 30
(`MaximumStateDataStoreCount`). The number of payloads, pauses and retries is
any.

**DualRootfs.** `DualInv` has two parts. `Sound` holds always: types, which of
the writes of a `WriteEnv` have had their effect and that they are those of the
running handler (`WritesOfCaller`), the record of each handler, the boot count.
`SlotInv` holds until a named hole is met: the files are in one of four
consistent shapes (`AtHome`, `Pending`, `TakenBack`, `Switched`), and the
record, the handler, the slot that runs, the remaining writes and a reboot that
is still to come each allow only some of them. A power loss between two writes
leaves none of the shapes by itself; it is the order of `writeOrder`, with
`upgrade_available` last, that makes every prefix of the writes one of them, or
one that only an agent with that record can meet.

**ControlMaps.** `HighestOpinionWins` compares the loop of the code, which
collects the actions of ever lower priorities and stops as soon as the list
gives an answer, with the documented reading, which looks at the highest
priority with an opinion and at no other (`Documented`). The two agree for every
finite pool (`QueryIsDocumented`), because what the loop has collected from the
priorities above is "continue" only, which is no answer and no opinion. `MapsInv` says what is in the
pool: finitely many maps, each complete (`PoolOf`, and `StoreOf` for the copy in
the database), of which only the server's expire without an announcement
(`ServersAreSilent`). `RestartAgrees` is inductive once it is known that
sanitising a map twice is sanitising it once (`SanitizeAgain`): a restart reads
what was sanitised before. `NoMissedUpdate` speaks of the two waits; the window
is before them, between the query that led to the pause and the wait, so
`ChangesAreNoticed` extends it to the pause state.

**Standalone.** `NameIsTrue` speaks of a device on which no command runs, and
every step of every command is on the way there. `Truth` says for each step how
the name in the database, the record and the payload relate, `Works` that a
command works on the record it read, `NoStub` that no stub stands in for a
payload. The last step of a command is then right whichever of its steps failed
and wherever it was killed, unless `lost`.

**ModuleDownload.** `DownloadInv` says where the event loop is in terms of the
caller's calls (`LoopFollows`), which goroutines may be under way (`OneStream`)
and what has been copied so far. With it every step is a step of
`PayloadStorer` or leaves its variables alone: the initial state and each
action are mapped one by one.

**Download.** The position of every chunk that was delivered, buffered or
written is kept as an invariant over all positions, so `EveryByteOnce` holds
for every `Size` and `Frame`. `BackoffAsCommented` is about a recursive
function; what holds for every round is proved by looking at the least round
for which it does not (`LeastElement`).

**AuthManager.** `AuthInv` adds that what is in the drained broadcast channel
was sent after `Authorize` began (`BoxIsFresh`), that token and server belong
together in manager and proxy at every step of a proxy restart
(`ProxyFollows`), and an account of the key (`KeyAccount`). `OneIdentity` by
itself is not inductive: when a `Load` or `Save` has failed, the change of
identity it costs is still to come, with the next token or with the next
restart. `Pending` is the number of those, and `changes + Pending <= excused`
is what every step preserves: a failure adds one to both sides, a token moves
one from `Pending` to `changes`, a restart with another key on disk leaves the
sum as it was.

**SocClient.** `KeyInv` adds that a whole main file has the newest key unless
the device was never provisioned there (`KeyOnDisk`), and that a counted read
lies in the running interval (`ReadIsRecent`). A reload therefore finds an
error, no key, or, outside of a rewrite, the newest key (`ReloadedKey`), which
gives `KeyStays`. `TypeOK` is part of `KeyInv` and is proved only.

Only model-checked: liveness (`DeploymentEnds`, `AgentReturns`, `PauseEnds`,
`CallsReturn`, `DownloadEnds`, `DoReturns`, `RotationNoticed`), because neither
fairness nor ENABLED is within the prover's reach.

## 6. What is not modelled

`PROJECT.json` lists every component with the reason. In short:

- The tunnel daemon shares no state with an update and comes last in the plan.
- Interactive setup, snapshots, D-Bus bindings, inventory, deployment logs,
  first boot, `socmond` and the build recipes keep no state that an update
  depends on. Of the device identity, only that its helper may hang is
  modelled; of the configuration files, only the API key. The limits of the
  configuration are constants of the models.
- TLS, cryptography, compression, checksums, encodings, and the copying of
  bodies through the proxy. A failing check is one of the failures.
- Of the authorization manager, `GetJwtToken`, which changes nothing, and
  `Stop`, which comes with the end of the process. Of the block device writer,
  UBI volumes, which are written without comparison.
- Of the state scripts, their versions and output; that a retried script stops
  being retried is taken from `MaxScriptTries`.

Of the boot schemes, extlinux, systemd-boot, nvbootctrl and PARTUUID boards
are left out, and so is the environment kept by U-Boot's own tools; of
`UpdateFlow`, the copies of the state data kept during a schema migration.
