------------------------------ MODULE SocClient ------------------------------
(***************************************************************************)
(* The API client of the SoC Monitoring server (client/soc_client.go): a   *)
(* request that is refused re-reads the API key from the configuration     *)
(* files (app/mender.go, newSoCAPIKeyReloader), at most once per interval, *)
(* and is repeated once if the key is a new one.  The agent's requests and *)
(* its downloads share one client.                                         *)
(*                                                                         *)
(* Keys are numbered in the order in which they are provisioned; 0 stands  *)
(* for a file that is missing or has no key and for a client without a     *)
(* key, -1 for a file that cannot be parsed.  UseSoCMonitoring is set.     *)
(***************************************************************************)
EXTENDS Integers

CONSTANTS
  Requesters,   \* the API requester and the download requester
  Interval,     \* reloadMinInterval, in ticks of the clock
  MaxRotations, \* bound: keys provisioned while the agent runs
  MaxClock,     \* bound: ticks since a reload that are told apart
  MaxFaults     \* bound: requests that fail for another reason; restarts;
                \* rewrites of the main file with the key it had

ASSUME SocAssumption ==
  /\ Interval \in Nat \ {0} /\ MaxClock \in Nat /\ MaxClock >= Interval
  /\ MaxRotations \in Nat /\ MaxFaults \in Nat

VARIABLES
  main,      \* the key in /etc, which overrides
  fallback,  \* the key in the state directory
  writing,   \* a re-provision is rewriting the main file
  apiKey,    \* the key the client has
  since,     \* ticks since lastReloadAttempt, -1 if there was none
  req,       \* by requester: where its Do is, the key it sent, its result
  newest,    \* the key the server accepts
  reads,     \* ghost: reads of the files within the last interval
  faults

files == <<main, fallback, writing, newest>>
vars  == <<files, apiKey, since, req, reads, faults>>

Keys == 1..MaxRotations + 1
Idle(result) == [pc |-> "idle", key |-> 0, result |-> result]
Fault == faults < MaxFaults /\ faults' = faults + 1

-----------------------------------------------------------------------------
(* Re-provisioning, from outside of the agent *)

(* The main file is being rewritten: it is broken, missing or has no key   *)
(* yet.  From here on the server takes the new key and refuses the old     *)
(* one, unless the file gets the same key again.                           *)
RotateBegin ==
  /\ ~writing /\ writing' = TRUE /\ main' \in {-1, 0}
  /\ \/ newest <= MaxRotations /\ newest' = newest + 1 /\ UNCHANGED faults
     \/ Fault /\ UNCHANGED newest
  /\ UNCHANGED <<fallback, apiKey, since, req, reads>>

RotateEnd ==
  /\ writing /\ writing' = FALSE /\ main' = newest
  /\ UNCHANGED <<fallback, newest, apiKey, since, req, reads, faults>>

-----------------------------------------------------------------------------
(* The key on the disk, as LoadConfig reads it: the fallback first, then   *)
(* what the main file contains.  Without a file the reader fails and       *)
(* LoadConfig uses its defaults; neither gives a key.                      *)
Reloaded ==
  IF -1 \in {main, fallback} THEN -1
  ELSE IF main # 0 THEN main ELSE fallback

(* Mutant: only a reload that found a new key counts as an attempt *)
AttemptOnlyIfNew == IF Reloaded \notin {-1, 0, apiKey} THEN 0 ELSE since

(* A failed reload counts as well *)
Attempt == 0

(* Mutant: one reload in the life of the client *)
RateLimitedForEver == since # -1

RateLimited == since # -1 /\ since < Interval

(* Mutant: an empty key is taken for a new one *)
AdoptsEmpty == Reloaded \notin {-1, apiKey}

(* No error, not empty, not the key the client has *)
Adopts == Reloaded \notin {-1, 0, apiKey}

-----------------------------------------------------------------------------
(* Do *)

Start(r) ==
  /\ req[r].pc = "idle"
  /\ req' = [req EXCEPT ![r] = [pc |-> "sent", key |-> apiKey, result |-> "none"]]
  /\ UNCHANGED <<files, apiKey, since, reads, faults>>

(* reconstructRequest reads the key under the lock; the answer comes later *)
Answered(r) ==
  /\ req[r].pc \in {"sent", "resent"}
  /\ \/ /\ req[r].key = newest /\ req' = [req EXCEPT ![r] = Idle("ok")]
        /\ UNCHANGED faults
     \/ /\ req[r].key # newest
        /\ req' = [req EXCEPT ![r] = IF req[r].pc = "sent" THEN [@ EXCEPT !.pc = "refused"]
                                                           ELSE Idle("unauthorized")]
        /\ UNCHANGED faults
     \/ Fault /\ req' = [req EXCEPT ![r] = Idle("error")]
  /\ UNCHANGED <<files, apiKey, since, reads>>

(* reloadAPIKeyIfChanged, under the lock, and the one repetition *)
Reload(r) ==
  /\ req[r].pc = "refused"
  /\ IF RateLimited
       THEN /\ req' = [req EXCEPT ![r] = Idle("unauthorized")]
            /\ UNCHANGED <<apiKey, since, reads>>
       ELSE /\ since' = Attempt /\ reads' = reads + 1
            /\ IF Adopts THEN /\ apiKey' = Reloaded
                              /\ req' = [req EXCEPT ![r].pc = "retry"]
                         ELSE /\ req' = [req EXCEPT ![r] = Idle("unauthorized")]
                              /\ UNCHANGED apiKey
  /\ UNCHANGED <<files, faults>>

Retry(r) ==
  /\ req[r].pc = "retry"
  /\ req' = [req EXCEPT ![r] = [pc |-> "resent", key |-> apiKey, result |-> "none"]]
  /\ UNCHANGED <<files, apiKey, since, reads, faults>>

-----------------------------------------------------------------------------
Tick ==
  /\ since \in 0..MaxClock - 1 /\ since' = since + 1
  /\ reads' = IF since + 1 >= Interval THEN 0 ELSE reads
  /\ UNCHANGED <<files, apiKey, req, faults>>

(* The agent starts again, with what LoadConfig finds: no key is only a    *)
(* warning, but it does not start on a file that it cannot parse.          *)
Restart ==
  /\ Reloaded # -1 /\ Fault
  /\ apiKey' = Reloaded /\ since' = -1 /\ reads' = 0
  /\ req' = [r \in Requesters |-> Idle("none")]
  /\ UNCHANGED files

(* Provisioned in either file, in both, or not yet *)
Init ==
  /\ newest = 1 /\ writing = FALSE
  /\ main \in {0, 1} /\ fallback \in {0, 1}
  /\ apiKey = Reloaded /\ since = -1 /\ reads = 0 /\ faults = 0
  /\ req = [r \in Requesters |-> Idle("none")]

Client(r) == Answered(r) \/ Reload(r) \/ Retry(r)

Next ==
  \/ RotateBegin \/ RotateEnd \/ Tick \/ Restart
  \/ \E r \in Requesters : Start(r) \/ Client(r)

(* The agent polls, requests are answered, time passes, and a file that is *)
(* being written is completed.                                             *)
Spec ==
  /\ Init /\ [][Next]_vars
  /\ WF_vars(Tick) /\ WF_vars(RotateEnd)
  /\ \A r \in Requesters : WF_vars(Start(r)) /\ WF_vars(Client(r))

-----------------------------------------------------------------------------
(* Types *)
TypeOK ==
  /\ main \in Keys \cup {-1, 0} /\ fallback \in {0, 1} /\ writing \in BOOLEAN
  /\ apiKey \in Keys \cup {0} /\ newest \in Keys
  /\ since \in -1..MaxClock /\ reads \in Nat /\ faults \in 0..MaxFaults
  /\ req \in [Requesters -> [pc : {"idle", "sent", "refused", "retry", "resent"},
                             key : Keys \cup {0},
                             result : {"none", "ok", "unauthorized", "error"}]]

(* "a persistently-rejected key cannot trigger a filesystem read on every  *)
(* request": at most one read per interval, whether it finds a new key, an *)
(* old one or a broken file, and whichever requester asks.                 *)
OneReadPerInterval == reads <= 1

(* A running client changes its key only for a key, never for none or for  *)
(* the result of a failed read, and gives up the one the server accepts    *)
(* only while the main file is being rewritten (a late answer to a request *)
(* with an older key makes it read the files, and only the fallback,       *)
(* perhaps with an old key, is whole).                                     *)
KeyIsKept ==
  [][apiKey' # apiKey => \/ since' = -1      \* another process
                         \/ apiKey' \in Keys /\ (apiKey = newest => writing)]_vars

(* A rotation is noticed without a restart: once the new key is in the     *)
(* file every requester succeeds again, whatever the reload found while    *)
(* the file was being written and whoever used up the interval.            *)
RotationNoticed ==
  \A r \in Requesters :
    newest = MaxRotations + 1 ~> (req[r].result = "ok" /\ apiKey = newest)

=============================================================================
