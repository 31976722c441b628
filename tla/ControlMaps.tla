----------------------------- MODULE ControlMaps -----------------------------
(***************************************************************************)
(* The pool of update control maps (app/updatemanager.go,                  *)
(* app/updatecontrolmap) and the states of app/state.go that ask it before *)
(* installing, rebooting and committing.  Applications set maps over D-Bus *)
(* at any time, the server's map comes with the deployment and is fetched  *)
(* again, every map expires in a goroutine of its own, and a restart loads *)
(* what was saved.  Pool and store change together under the pool's mutex. *)
(*                                                                         *)
(* Time is left out: a timer may fire at any moment, except that the wait  *)
(* for the server ends at half the life of the server's map, so that map   *)
(* does not expire during it.                                              *)
(***************************************************************************)
EXTENDS Integers, FiniteSets, FiniteSetsExt

CONSTANTS
  Deployment,  \* the ID of the deployment, and of the maps of its server
  LocalKeys,   \* the keys (ID and priority) applications give their maps
  ServerPriorities, \* the priorities of the maps of the server
  Requests,    \* states of the maps that applications and server send
  MaxTries,    \* attempts GetExponentialBackoffTime grants
  MaxMaps,     \* bound: maps set in a behaviour
  MaxFaults    \* bound: crashes and failing writes

StateNames == {"Install", "Reboot", "Commit"}
Actions == {"continue", "force_continue", "pause", "fail"}
OfServer == [id : {Deployment}, priority : ServerPriorities]
Keys == LocalKeys \cup OfServer
OfDeployment == {k \in Keys : k.id = Deployment}

(* UpdateControlMapState, "" where the sender left a field out *)
RawStates == [action : Actions \cup {""}, expire : (Actions \ {"pause"}) \cup {""},
              executed : Actions \cup {""}]
MapStates == [action : Actions, expire : Actions \ {"pause"}, executed : Actions]

ASSUME ControlMapsAssumption ==
  /\ \A k \in LocalKeys : k.priority \in -10..10
  /\ ServerPriorities \subseteq -10..10
  /\ \A r \in Requests : DOMAIN r \subseteq StateNames /\ \A s \in DOMAIN r : r[s] \in RawStates
  /\ MaxTries \in Nat /\ MaxMaps \in Nat /\ MaxFaults \in Nat

VARIABLES
  pool,     \* ControlMapPool.Pool: the map of every key (ID, priority)
  stored,   \* UpdateControlMaps in the database
  updates,  \* the channel Updates, of capacity one
  stray,    \* expiry goroutines of maps that are no longer in the pool
  pc,       \* the state of the daemon
  at,       \* the state it wraps
  second,   \* the pause state has been visited (only before the reboot)
  reported, \* StateContext.pauseReported
  tries,    \* controlMapFetchAttempts
  left,     \* history: what the pool answers after a query that led to a pause
  unsaved,  \* history: the last write of the database failed
  maps, faults

daemon  == <<pc, at, second, reported, tries>>
history == <<left, unsaved>>
vars    == <<pool, stored, updates, stray, daemon, history, maps, faults>>

-----------------------------------------------------------------------------
(* A map: validated and completed by UnmarshalJSON *)

(* Mutant: on_map_expire defaults to the action, whatever it is *)
OnMapExpireDefaultPauses(action) == action

(* A paused update must not wait for a map that nobody refreshes *)
OnMapExpireDefault(action) == IF action = "pause" THEN "fail" ELSE action

SanitizeState(s) ==
  LET action == IF s.action = "" THEN "continue" ELSE s.action
  IN [action |-> action,
      expire |-> IF s.expire = "" THEN OnMapExpireDefault(action) ELSE s.expire,
      executed |-> IF s.executed = "" THEN action ELSE s.executed]

DefaultState == [action |-> "continue", expire |-> "continue", executed |-> "continue"]

(* States that only say "continue" are dropped *)
Sanitize(states) ==
  [s \in {n \in DOMAIN states : SanitizeState(states[n]) # DefaultState}
     |-> SanitizeState(states[s])]

NewMap(states, announces) ==
  [states |-> Sanitize(states), expired |-> FALSE, announces |-> announces]

ActionOf(m, s) == IF m.expired THEN m.states[s].expire ELSE m.states[s].action

-----------------------------------------------------------------------------
(* QueryAndUpdate *)

(* queryActionList: "continue" is no opinion, "" is no answer *)
QueryActionList(actions) ==
  IF "fail" \in actions THEN "fail"
  ELSE IF "pause" \in actions THEN "pause"
  ELSE IF "force_continue" \in actions THEN "continue"
  ELSE ""

(* Mutant: the priorities in ascending order *)
AskedUpwards(p, s, n) == {k \in DOMAIN p : k.priority <= n /\ s \in DOMAIN p[k].states}

(* The maps asked before the loop over the priorities ends with priority n *)
Asked(p, s, n) == {k \in DOMAIN p : k.priority >= n /\ s \in DOMAIN p[k].states}

AnswerAt(p, s, n) == QueryActionList({ActionOf(p[k], s) : k \in Asked(p, s, n)})

(* The priority at which the loop returns, if it does *)
Deciding(p, s) == {n \in {k.priority : k \in DOMAIN p} : AnswerAt(p, s, n) # ""}

Query(p, s) ==
  LET d == Deciding(p, s)
  IN IF d = {} THEN "continue" ELSE AnswerAt(p, s, Max(d))

(* on_action_executed replaces the action of every map that was asked *)
Updated(p, s) ==
  LET d == Deciding(p, s)
      asked == {k \in DOMAIN p :
                  /\ s \in DOMAIN p[k].states
                  /\ d # {} => k.priority >= Max(d)}
  IN [k \in DOMAIN p |->
        IF k \in asked THEN [p[k] EXCEPT !.states[s].action = p[k].states[s].executed]
                       ELSE p[k]]

-----------------------------------------------------------------------------
(* The pool *)

Has(p, id) == \E k \in DOMAIN p : k.id = id

Keep(p, keys) == [k \in DOMAIN p \cap keys |-> p[k]]

With(p, key, m) == [k \in DOMAIN p \cup {key} |-> IF k = key THEN m ELSE p[k]]

(* Goroutines whose map leaves the pool still announce their expiry *)
Strayed(p, q) ==
  stray + Cardinality({k \in DOMAIN p : /\ p[k].announces /\ ~p[k].expired
                                        /\ (k \notin DOMAIN q \/ q[k] # p[k])})

NoFault == UNCHANGED faults
Fault == faults < MaxFaults /\ faults' = faults + 1

(* saveToStore: a failing write is logged only *)
SaveToStore(p) ==
  \/ /\ stored' = [k \in DOMAIN p |-> [states |-> p[k].states, expired |-> p[k].expired]]
     /\ unsaved' = FALSE /\ NoFault
  \/ /\ Fault /\ unsaved' = TRUE /\ UNCHANGED stored

(* Mutant: the answer is given before the maps are saved *)
SaveAfterQueryForgotten(p) == UNCHANGED <<stored, unsaved, faults>>

SaveAfterQuery(p) == SaveToStore(p)

(* Mutant: the change is not announced *)
SetPoolQuietly(p) ==
  /\ pool' = p /\ stray' = Strayed(pool, p)
  /\ SaveToStore(p)
  /\ UNCHANGED updates

(* insertMap and deleteMaps *)
SetPool(p) ==
  /\ pool' = p /\ stray' = Strayed(pool, p)
  /\ SaveToStore(p)
  /\ updates' = TRUE

(* loadFromStore: maps that had not expired get a new life *)
Load(d) == [k \in DOMAIN d |-> [states |-> Sanitize(d[k].states),
                                expired |-> d[k].expired, announces |-> TRUE]]

Counted == maps < MaxMaps /\ maps' = maps + 1

(* The D-Bus method: a map without opinions deletes the one it replaces *)
SetUpdateControlMap(key, states) ==
  SetPool(IF Sanitize(states) = <<>> THEN Keep(pool, Keys \ {key})
          ELSE With(pool, key, NewMap(states, TRUE)))

DBusCall ==
  /\ \E key \in LocalKeys, states \in Requests :
       SetUpdateControlMap(key, states)
  /\ Counted
  /\ UNCHANGED <<daemon, left>>

(* HandleControlMap: the server's map replaces all maps of the deployment, *)
(* and is kept even if it has no opinion (such maps are not counted).      *)
HandleControlMap ==
  \E key \in OfServer, states \in Requests :
    /\ SetPool(With(Keep(pool, Keys \ OfDeployment), key, NewMap(states, FALSE)))
    /\ IF Sanitize(states) = <<>> THEN UNCHANGED maps ELSE Counted

(* ... and a deployment that comes without a map removes them *)
HandleNoControlMap == SetPool(Keep(pool, Keys \ OfDeployment)) /\ UNCHANGED maps

(* The goroutine of a map.  The server's map outlives the wait for it. *)
Expire(k) ==
  /\ k \in DOMAIN pool /\ ~pool[k].expired
  /\ ~pool[k].announces => pc # "waitServer"
  /\ pool' = [pool EXCEPT ![k].expired = TRUE]
  /\ updates' = (updates \/ pool[k].announces)
  /\ UNCHANGED <<stored, stray, daemon, left, unsaved, maps, faults>>

StrayExpires ==
  /\ stray > 0 /\ stray' = stray - 1 /\ updates' = TRUE
  /\ UNCHANGED <<pool, stored, daemon, history, maps, faults>>

-----------------------------------------------------------------------------
(* The daemon *)

Goto(p) == pc' = p /\ UNCHANGED <<at, second, reported, tries>>

(* NewFetchControlMapState for state s *)
Ask(s) == pc' = "fetch" /\ at' = s /\ second' = FALSE /\ UNCHANGED <<reported, tries>>

(* updateCheckState: a deployment, with or without a map *)
CheckUpdate ==
  /\ pc = "idle"
  /\ HandleControlMap \/ HandleNoControlMap
  /\ Goto("download") /\ UNCHANGED left

(* The states up to updateAfterStoreState *)
Download ==
  /\ pc = "download"
  /\ Ask("Install") \/ Goto("cleanup")
  /\ UNCHANGED <<pool, stored, updates, stray, history, maps, faults>>

(* idleState: expired maps are dropped, which is not announced *)
ClearExpired ==
  /\ pc = "idle"
  /\ LET p == Keep(pool, {k \in DOMAIN pool : ~pool[k].expired})
     IN p # pool /\ pool' = p /\ SaveToStore(p)
  /\ UNCHANGED <<updates, stray, daemon, left, maps>>

(* fetchControlMapState: ask the server only if the deployment has a map;  *)
(* an answer without a map is an error (GetUpdateControlMap)               *)
FetchControlMap ==
  /\ pc = "fetch"
  /\ \/ /\ ~Has(pool, Deployment)
        /\ UNCHANGED <<pool, stored, updates, stray, history, maps, faults>>
        /\ pc' = "query"
     \/ /\ Has(pool, Deployment)
        /\ HandleControlMap /\ UNCHANGED left
        /\ pc' = "query"
  /\ tries' = 0 /\ UNCHANGED <<at, second, reported>>

FetchControlMapFails ==
  /\ pc = "fetch" /\ Has(pool, Deployment)
  /\ Goto("retry") \/ Goto("cleanup")       \* or the server has aborted
  /\ UNCHANGED <<pool, stored, updates, stray, history, maps, faults>>

(* Mutant: the attempts are not counted *)
FetchRetryUncounted ==
  /\ pc = "retry" /\ Goto("fetch")
  /\ UNCHANGED <<pool, stored, updates, stray, history, maps, faults>>

FetchRetryControlMap ==
  /\ pc = "retry"
  /\ IF tries >= MaxTries THEN Goto("cleanup")
     ELSE pc' = "fetch" /\ tries' = tries + 1 /\ UNCHANGED <<at, second, reported>>
  /\ UNCHANGED <<pool, stored, updates, stray, history, maps, faults>>

(* What controlMapState makes of the answer.  Before the reboot a pause    *)
(* first visits updateRebootPauseRequestedState, which asks again.  A      *)
(* report the server refuses ends the deployment.                          *)
Answered(answer) ==
  \/ answer = "continue" /\ Goto("run")
  \/ answer = "fail" /\ Goto("cleanup")
  \/ /\ answer = "pause" /\ at = "Reboot" /\ ~second
     /\ second' = TRUE /\ UNCHANGED <<pc, at, reported, tries>>
  \/ /\ answer = "pause" /\ (at = "Reboot" => second)
     /\ \/ pc' = "pause"
        \/ pc' = "cleanup" /\ at \notin reported
     /\ reported' = reported \cup {at}
     /\ UNCHANGED <<at, second, tries>>

ControlMapQuery ==
  /\ pc = "query"
  /\ pool' = Updated(pool, at)
  /\ SaveAfterQuery(Updated(pool, at))
  /\ left' = IF Query(pool, at) = "pause" THEN Query(Updated(pool, at), at) ELSE "continue"
  /\ Answered(Query(pool, at))
  /\ UNCHANGED <<updates, stray, maps>>

(* controlMapPauseState: which timer to wait for *)
Active(keys) == \E k \in DOMAIN pool \cap keys : ~pool[k].expired

ControlMapPause ==
  /\ pc = "pause"
  /\ Goto(IF Active(OfDeployment) THEN "waitServer"
          ELSE IF Active(Keys) THEN "waitAny" ELSE "query")
  /\ UNCHANGED <<pool, stored, updates, stray, history, maps, faults>>

(* MultiplexWait and Wait *)
WaitTimer ==
  /\ pc \in {"waitServer", "waitAny"}
  /\ Goto(IF pc = "waitServer" THEN "fetch" ELSE "query")
  /\ UNCHANGED <<pool, stored, updates, stray, history, maps, faults>>

WaitUpdates ==
  /\ pc \in {"waitServer", "waitAny"} /\ updates
  /\ updates' = FALSE /\ Goto("query")
  /\ UNCHANGED <<pool, stored, stray, history, maps, faults>>

Restarted ==
  /\ pool' = Load(stored) /\ updates' = FALSE /\ stray' = 0
  /\ tries' = 0 /\ reported' = {}

(* The wrapped state, outside: it may fail, and a reboot restarts the agent *)
RunInstall ==
  /\ pc = "run" /\ at = "Install"
  /\ Ask("Reboot") \/ Ask("Commit") \/ Goto("cleanup")
  /\ UNCHANGED <<pool, stored, updates, stray, history, maps, faults>>

RunReboot ==
  /\ pc = "run" /\ at = "Reboot"
  /\ Restarted /\ second' = FALSE
  /\ \/ pc' = "fetch" /\ at' = "Commit"
     \/ pc' = "cleanup" /\ UNCHANGED at
  /\ UNCHANGED <<stored, left, unsaved, maps, faults>>

RunCommit ==
  /\ pc = "run" /\ at = "Commit" /\ Goto("cleanup")
  /\ UNCHANGED <<pool, stored, updates, stray, history, maps, faults>>

(* updateCleanupState *)
Cleanup ==
  /\ pc = "cleanup"
  /\ SetPool(Keep(pool, Keys \ OfDeployment))
  /\ pc' = "idle" /\ reported' = {}
  /\ UNCHANGED <<at, second, tries, left, maps>>

InDecision == {"fetch", "retry", "query", "pause", "waitServer", "waitAny"}

(* A crash ends the deployment, but for one in the reboot or in a pause    *)
(* before it: both are stored as "reboot", and the update goes on as after *)
(* one.  A download that has not begun is started again later.             *)
Crash ==
  /\ Fault /\ Restarted
  /\ \/ pc = "idle" /\ pc' = "idle" /\ UNCHANGED at
     \/ pc = "download" /\ pc' = "idle" /\ UNCHANGED at
     \/ pc # "idle" /\ pc' = "cleanup" /\ UNCHANGED at
     \/ /\ at = "Reboot" /\ (pc = "run" \/ (second /\ pc \in InDecision))
        /\ pc' = "fetch" /\ at' = "Commit"
  /\ second' = FALSE
  /\ UNCHANGED <<stored, left, unsaved, maps>>

-----------------------------------------------------------------------------

Init ==
  /\ pool = <<>> /\ stored = <<>> /\ updates = FALSE /\ stray = 0
  /\ pc = "idle" /\ at = "Install" /\ second = FALSE /\ reported = {} /\ tries = 0
  /\ left = "continue" /\ unsaved = FALSE
  /\ maps = 0 /\ faults = 0

Daemon ==
  \/ Download \/ FetchControlMap \/ FetchControlMapFails \/ FetchRetryControlMap
  \/ ControlMapQuery \/ ControlMapPause \/ WaitTimer \/ WaitUpdates
  \/ RunInstall \/ RunReboot \/ RunCommit \/ Cleanup

Next ==
  \/ Daemon \/ CheckUpdate \/ ClearExpired
  \/ DBusCall \/ StrayExpires \/ Crash
  \/ \E k \in Keys : Expire(k)

Fairness == WF_vars(Daemon) /\ \A k \in Keys : WF_vars(Expire(k))

Spec == Init /\ [][Next]_vars /\ Fairness

-----------------------------------------------------------------------------
(* Types.  In particular no map pauses an update once it has expired. *)
TypeOK ==
  /\ DOMAIN pool \subseteq Keys /\ DOMAIN stored \subseteq Keys
  /\ \A k \in DOMAIN pool :
       /\ pool[k].expired \in BOOLEAN /\ pool[k].announces \in BOOLEAN
       /\ DOMAIN pool[k].states \subseteq StateNames
       /\ \A s \in DOMAIN pool[k].states : pool[k].states[s] \in MapStates
  /\ updates \in BOOLEAN /\ stray \in Nat
  /\ pc \in InDecision \cup {"idle", "download", "run", "cleanup"}
  /\ at \in StateNames /\ second \in BOOLEAN /\ reported \subseteq StateNames
  /\ tries \in 0..MaxTries /\ left \in Actions
  /\ unsaved \in BOOLEAN
  /\ maps \in 0..MaxMaps /\ faults \in 0..MaxFaults

(* What the documentation of io.otapulse.Update1 says the answer is *)
Opinions(s, n) ==
  {ActionOf(pool[k], s) : k \in {x \in DOMAIN pool : /\ x.priority = n
                                                     /\ s \in DOMAIN pool[x].states}}
    \ {"continue"}

Documented(s) ==
  LET heard == {n \in {k.priority : k \in Keys} : Opinions(s, n) # {}}
  IN IF heard = {} THEN "continue"
     ELSE LET top == Opinions(s, Max(heard))
          IN IF "fail" \in top THEN "fail" ELSE IF "pause" \in top THEN "pause" ELSE "continue"

(* QueryAndUpdate, which collects actions over several priorities, answers *)
(* what the highest priority with an opinion says, and within a priority   *)
(* fail before pause before force_continue, for every pool that is reached.*)
HighestOpinionWins == \A s \in StateNames : Query(pool, s) = Documented(s)

(* A restart finds the maps as the last answer left them: an action that   *)
(* was executed is not executed again, a map that was deleted does not     *)
(* come back, and an expired one is not forgotten to be (but one may have  *)
(* expired since), as long as the database can be written.                 *)
RestartAgrees ==
  ~unsaved =>
    /\ DOMAIN stored = DOMAIN pool
    /\ \A k \in DOMAIN pool :
         /\ Sanitize(stored[k].states) = Sanitize(pool[k].states)
         /\ stored[k].expired => pool[k].expired

(* No wake-up is lost: when a paused update would get another answer than  *)
(* the one its last query left behind, the wait is about to be interrupted *)
(* (announceUpdate, the expiry goroutines).  The server's map has no       *)
(* channel to announce its expiry; it may expire just before the wait.     *)
NoMissedUpdate ==
  /\ pc \in {"waitServer", "waitAny"} /\ Query(pool, at) # left
  => updates \/ \E k \in DOMAIN pool \cap OfDeployment : pool[k].expired /\ ~pool[k].announces

(* However maps pause it, an update goes on or fails once nobody sets maps *)
(* any more: unrefreshed maps expire, the timers of the pause states and   *)
(* the retries of the fetch are bounded.                                   *)
PauseEnds == pc \in InDecision ~> pc \notin InDecision

(* "Since we are in this state, the next time around, we want a real pause *)
(* to happen" (updateRebootPauseRequestedState): a query that visits this  *)
(* state leaves behind maps that pause.  It does not: the query itself has *)
(* executed the action, and on_action_executed may be anything.            *)
RealPause == [][~second /\ second' => left' = "pause"]_vars

=============================================================================
