--------------------------- MODULE SocClientProofs ---------------------------
(***************************************************************************)
(* The API key: the types of SocClient, OneReadPerInterval and KeyIsKept,  *)
(* proved for any number of requesters, keys and faults and every interval *)
(***************************************************************************)
EXTENDS SocClient, TLAPS

(* Only while it is rewritten has the main file not the newest key, unless *)
(* the device was never provisioned there                                  *)
KeyOnDisk ==
  /\ writing => main \in {-1, 0}
  /\ ~writing => main = newest \/ (main = 0 /\ newest = 1)

(* A read of the files is one within the running interval *)
ReadIsRecent ==
  /\ since = -1 => reads = 0
  /\ since >= Interval => reads = 0
  /\ reads \in 0..1

KeyInv == TypeOK /\ KeyOnDisk /\ ReadIsRecent

-----------------------------------------------------------------------------

(* What a read of the files gives: an error, no key, or a key that has     *)
(* been provisioned, and with a whole main file not an older one.          *)
LEMMA ReloadedKey ==
  ASSUME KeyInv
  PROVE  /\ Reloaded \in Keys \cup {-1, 0}
         /\ ~writing => Reloaded \in {newest, 0}
BY SocAssumption DEF KeyInv, TypeOK, KeyOnDisk, Reloaded, Keys, SocAssumption

LEMMA InitInv == Init => KeyInv
<1> SUFFICES ASSUME Init
             PROVE  KeyInv
  OBVIOUS
<1>1. writing \in BOOLEAN
  BY DEF Init
<1>2. Reloaded \in {0, 1}
  BY DEF Init, Reloaded
<1> QED
  BY <1>1, <1>2, SocAssumption
  DEF Init, KeyInv, TypeOK, KeyOnDisk, ReadIsRecent, Idle, Keys, SocAssumption

(* The requests *)
LEMMA ClientInv ==
  ASSUME KeyInv, NEW r \in Requesters, Start(r) \/ Client(r)
  PROVE  KeyInv'
<1> USE SocAssumption
    DEF KeyInv, TypeOK, KeyOnDisk, ReadIsRecent, Idle, Keys, files, SocAssumption
<1>1. CASE Start(r)
  BY <1>1 DEF Start
<1>2. CASE Answered(r)
  BY <1>2 DEF Answered, Fault
<1>3. CASE Reload(r)
  BY <1>3, ReloadedKey DEF Reload, RateLimited, Attempt, Adopts
<1>4. CASE Retry(r)
  BY <1>4 DEF Retry
<1> QED
  BY <1>1, <1>2, <1>3, <1>4 DEF Client

(* The files, the clock and restarts *)
LEMMA OutsideInv ==
  ASSUME KeyInv, RotateBegin \/ RotateEnd \/ Tick \/ Restart
  PROVE  KeyInv'
<1> USE SocAssumption
    DEF KeyInv, TypeOK, KeyOnDisk, ReadIsRecent, Idle, Keys, files, SocAssumption
<1>1. CASE RotateBegin
  <2>1. writing' \in BOOLEAN /\ faults' \in 0..MaxFaults /\ newest' \in Keys
    BY <1>1 DEF RotateBegin, Fault
  <2> QED
    BY <1>1, <2>1 DEF RotateBegin
<1>2. CASE RotateEnd
  <2>1. writing' \in BOOLEAN
    BY <1>2 DEF RotateEnd
  <2>2. main' = newest /\ newest \in Keys
    BY <1>2 DEF RotateEnd
  <2> QED
    BY <1>2, <2>1, <2>2 DEF RotateEnd
<1>3. CASE Tick
  BY <1>3 DEF Tick
<1>4. CASE Restart
  BY <1>4, ReloadedKey DEF Restart, Fault
<1> QED
  BY <1>1, <1>2, <1>3, <1>4

(* KeyInv is inductive: a read counts only as long as the interval it      *)
(* started lasts, and a main file that is whole has the newest key.        *)
THEOREM InductiveInvariant == Spec => []KeyInv
<1>1. KeyInv /\ [Next]_vars => KeyInv'
  <2> SUFFICES ASSUME KeyInv, [Next]_vars
               PROVE  KeyInv'
    OBVIOUS
  <2>1. CASE UNCHANGED vars
    BY <2>1 DEF vars, files, KeyInv, TypeOK, KeyOnDisk, ReadIsRecent
  <2> QED
    BY <2>1, ClientInv, OutsideInv DEF Next
<1> QED
  BY <1>1, InitInv, PTL DEF Spec

(* The types of the client: the result of a failed read never becomes the  *)
(* key; it is none (an agent that started without one), or a key that has  *)
(* been provisioned.                                                       *)
THEOREM TypeCorrect == Spec => []TypeOK
<1>1. KeyInv => TypeOK
  BY DEF KeyInv
<1> QED
  BY <1>1, InductiveInvariant, PTL

(* "a persistently-rejected key cannot trigger a filesystem read on every  *)
(* request", for any number of requesters that share the client and every  *)
(* interval.                                                               *)
THEOREM ReadsAreLimited == Spec => []OneReadPerInterval
<1>1. KeyInv => OneReadPerInterval
  BY DEF KeyInv, ReadIsRecent, OneReadPerInterval
<1> QED
  BY <1>1, InductiveInvariant, PTL

(* Whatever a reload finds in the configuration files, broken, missing or  *)
(* without a key, a running client that has a key goes on with one         *)
(* (reloadAPIKeyIfChanged), and gives up the accepted one only while the   *)
(* main file is being rewritten.                                           *)
THEOREM KeyStays == Spec => KeyIsKept
<1> DEFINE Kept == apiKey' # apiKey => \/ since' = -1
                                       \/ apiKey' \in Keys /\ (apiKey = newest => writing)
<1>1. KeyInv /\ [Next]_vars => [Kept]_vars
  <2> SUFFICES ASSUME KeyInv, Next
               PROVE  Kept
    OBVIOUS
  <2>1. ASSUME NEW r \in Requesters, Reload(r)
        PROVE  Kept
    BY <2>1, ReloadedKey DEF Reload, Adopts
  <2>2. ASSUME NEW r \in Requesters, Start(r) \/ Answered(r) \/ Retry(r)
        PROVE  Kept
    BY <2>2 DEF Start, Answered, Retry
  <2>3. CASE RotateBegin \/ RotateEnd \/ Tick
    BY <2>3 DEF RotateBegin, RotateEnd, Tick
  <2>4. CASE Restart
    <3>1. since' = -1
      BY <2>4 DEF Restart
    <3> QED
      BY <3>1
  <2> QED
    BY <2>1, <2>2, <2>3, <2>4 DEF Next, Client
<1> QED
  BY <1>1, InductiveInvariant, PTL DEF Spec, KeyIsKept

=============================================================================
