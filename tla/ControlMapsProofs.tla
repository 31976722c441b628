-------------------------- MODULE ControlMapsProofs --------------------------
(***************************************************************************)
(* The pool of update control maps: its types, HighestOpinionWins,         *)
(* RestartAgrees and NoMissedUpdate, proved for any set of maps, senders   *)
(* and priorities and any number of retries, crashes and failing writes.   *)
(***************************************************************************)
EXTENDS ControlMaps, FiniteSetTheorems, WellFoundedInduction, TLAPS

(* What a map says of the states of an update *)
StateMaps == UNION {[D -> MapStates] : D \in SUBSET StateNames}
Maps == [states : StateMaps, expired : BOOLEAN, announces : BOOLEAN]
SavedMaps == [states : StateMaps, expired : BOOLEAN]

(* Finitely many maps, each of them complete, in memory and in the store *)
PoolOf(p) == IsFiniteSet(DOMAIN p) /\ DOMAIN p \subseteq Keys /\ p \in [DOMAIN p -> Maps]
StoreOf(d) == IsFiniteSet(DOMAIN d) /\ DOMAIN d \subseteq Keys /\ d \in [DOMAIN d -> SavedMaps]

(* Only maps of the server expire without a word *)
ServersAreSilent(p) == \A k \in DOMAIN p : ~p[k].announces => k \in OfDeployment

(* The server's map has expired, of which nobody is told *)
SilentlyExpired == \E k \in DOMAIN pool \cap OfDeployment : pool[k].expired /\ ~pool[k].announces

(* From the query that led to a pause on, the answer is the one it left or *)
(* somebody will notice                                                    *)
ChangesAreNoticed ==
  pc \in {"pause", "waitServer", "waitAny"} =>
    Query(pool, at) = left \/ updates \/ SilentlyExpired

MapsInv ==
  /\ TypeOK /\ PoolOf(pool) /\ StoreOf(stored) /\ ServersAreSilent(pool)
  /\ RestartAgrees /\ ChangesAreNoticed

-----------------------------------------------------------------------------
(* Maps *)

(* A map that is received is complete ... *)
LEMMA SanitizeRequest ==
  ASSUME NEW r \in Requests
  PROVE  Sanitize(r) \in StateMaps
<1> DEFINE D == {n \in DOMAIN r : SanitizeState(r[n]) # DefaultState}
<1>1. D \subseteq StateNames /\ \A s \in D : r[s] \in RawStates
  BY ControlMapsAssumption DEF ControlMapsAssumption
<1>2. \A x \in RawStates : SanitizeState(x) \in MapStates
  BY DEF RawStates, MapStates, SanitizeState, OnMapExpireDefault, Actions
<1>3. Sanitize(r) \in [D -> MapStates]
  BY <1>1, <1>2 DEF Sanitize
<1> QED
  BY <1>1, <1>3 DEF StateMaps

(* ... and completing it again changes nothing. *)
LEMMA SanitizeComplete ==
  ASSUME NEW x \in MapStates
  PROVE  SanitizeState(x) = x
<1>1. x.action # "" /\ x.expire # "" /\ x.executed # ""
  BY DEF MapStates, Actions
<1>2. SanitizeState(x) = [action |-> x.action, expire |-> x.expire, executed |-> x.executed]
  BY <1>1 DEF SanitizeState
<1> QED
  BY <1>2 DEF MapStates

LEMMA SanitizeAgain ==
  ASSUME NEW m \in StateMaps
  PROVE  Sanitize(m) \in StateMaps /\ Sanitize(Sanitize(m)) = Sanitize(m)
<1>1. PICK E \in SUBSET StateNames : m \in [E -> MapStates]
  BY DEF StateMaps
<1> DEFINE D == {n \in E : m[n] # DefaultState}
<1>2. Sanitize(m) = [s \in D |-> m[s]]
  BY <1>1, SanitizeComplete DEF Sanitize
<1>3. Sanitize(m) \in [D -> MapStates] /\ \A s \in D : Sanitize(m)[s] # DefaultState
  BY <1>1, <1>2
<1>4. Sanitize(Sanitize(m)) = [s \in D |-> Sanitize(m)[s]]
  BY <1>3, SanitizeComplete DEF Sanitize
<1> QED
  BY <1>1, <1>3, <1>4 DEF StateMaps

(* Every map has an action for the states it speaks of. *)
LEMMA ActionType ==
  ASSUME NEW m \in Maps, NEW s \in DOMAIN m.states
  PROVE  ActionOf(m, s) \in Actions
<1>1. PICK E \in SUBSET StateNames : m.states \in [E -> MapStates]
  BY DEF Maps, StateMaps
<1>2. m.states[s] \in MapStates
  BY <1>1
<1> QED
  BY <1>2 DEF ActionOf, MapStates

-----------------------------------------------------------------------------
(* Priorities *)

(* Priorities are bounded, so there is a highest one among some. *)
LEMMA HighestPriority ==
  ASSUME NEW S \in SUBSET (-10..10), S # {}
  PROVE  Max(S) \in S /\ \A y \in S : y <= Max(S)
<1> DEFINE T == {10 - n : n \in S}
<1>1. T \in SUBSET Nat /\ T # {}
  OBVIOUS
<1>2. PICK t \in T : \A y \in T : ~ (<<y, t>> \in OpToRel(<, Nat))
  BY <1>1, NatLessThanWellFounded, WFMin
<1>3. \A y \in T : ~ (y < t)
  BY <1>1, <1>2, Zenon DEF OpToRel
<1>4. PICK x \in S : t = 10 - x
  BY <1>2
<1>5. \A y \in S : x >= y
  <2> SUFFICES ASSUME NEW y \in S PROVE x >= y
    OBVIOUS
  <2>1. ~ (10 - y < t)
    BY <1>3
  <2> QED
    BY <1>4, <2>1
<1>6. \E z \in S : \A y \in S : z >= y
  BY <1>5
<1>7. Max(S) \in S /\ \A y \in S : Max(S) >= y
  BY <1>6, Zenon DEF Max
<1> QED
  BY <1>7

(* The priorities of the maps in a pool are within the limits. *)
LEMMA KeyPriority ==
  ASSUME NEW k \in Keys
  PROVE  k.priority \in -10..10
BY ControlMapsAssumption DEF Keys, OfServer, ControlMapsAssumption

-----------------------------------------------------------------------------
(* The answer *)

(* Which answers queryActionList gives *)
LEMMA ListAnswers ==
  ASSUME NEW A \in SUBSET Actions
  PROVE  /\ QueryActionList(A) \in {"fail", "pause", "continue", ""}
         /\ QueryActionList(A) = "" <=> A \subseteq {"continue"}
         /\ QueryActionList(A) = "fail" <=> "fail" \in A
         /\ QueryActionList(A) = "pause" <=> "pause" \in A /\ "fail" \notin A
BY DEF QueryActionList, Actions

(* There is an answer if somebody who was asked has an opinion. *)
LEMMA AnswerType ==
  ASSUME NEW p, PoolOf(p), NEW s, NEW n
  PROVE  /\ AnswerAt(p, s, n) \in {"fail", "pause", "continue", ""}
         /\ AnswerAt(p, s, n) = "" <=>
              \A k \in Asked(p, s, n) : ActionOf(p[k], s) = "continue"
<1> DEFINE A == {ActionOf(p[k], s) : k \in Asked(p, s, n)}
<1>1. A \in SUBSET Actions
  BY ActionType DEF PoolOf, Asked
<1>2. AnswerAt(p, s, n) = QueryActionList(A)
  BY DEF AnswerAt
<1>3. A \subseteq {"continue"} <=> \A k \in Asked(p, s, n) : ActionOf(p[k], s) = "continue"
  OBVIOUS
<1> HIDE DEF A
<1> QED
  BY <1>1, <1>2, <1>3, ListAnswers

(* The loop over the priorities returns at the highest that decides. *)
LEMMA DecidingPriority ==
  ASSUME NEW p, PoolOf(p), NEW s, Deciding(p, s) # {}
  PROVE  /\ Deciding(p, s) \subseteq -10..10
         /\ Max(Deciding(p, s)) \in Deciding(p, s)
         /\ \A n \in Deciding(p, s) : n <= Max(Deciding(p, s))
<1>1. Deciding(p, s) \in SUBSET (-10..10)
  BY KeyPriority DEF Deciding, PoolOf
<1> QED
  BY <1>1, HighestPriority

(* QueryAndUpdate answers with one of three actions. *)
LEMMA QueryType ==
  ASSUME NEW p, PoolOf(p), NEW s
  PROVE  Query(p, s) \in {"fail", "pause", "continue"}
<1>1. CASE Deciding(p, s) = {}
  BY <1>1 DEF Query
<1>2. CASE Deciding(p, s) # {}
  <2>1. AnswerAt(p, s, Max(Deciding(p, s))) # ""
    BY <1>2, DecidingPriority DEF Deciding
  <2>2. Query(p, s) = AnswerAt(p, s, Max(Deciding(p, s)))
    BY <1>2 DEF Query
  <2> QED
    BY <2>1, <2>2, AnswerType
<1> QED
  BY <1>1, <1>2

(* The answer is the one that the documentation defines. *)
LEMMA QueryIsDocumented ==
  ASSUME PoolOf(pool), NEW s \in StateNames
  PROVE  Query(pool, s) = Documented(s)
<1> DEFINE d == Deciding(pool, s)
           heard == {n \in {k.priority : k \in Keys} : Opinions(s, n) # {}}
           Says(k) == k \in DOMAIN pool /\ s \in DOMAIN pool[k].states
<1>1. \A k : Says(k) => ActionOf(pool[k], s) \in Actions /\ k.priority \in -10..10 /\ k \in Keys
  BY ActionType, KeyPriority DEF PoolOf
<1>2. \A n : n \in heard <=>
        \E k : Says(k) /\ k.priority = n /\ ActionOf(pool[k], s) # "continue"
  BY <1>1 DEF Opinions
<1>3. \A n : n \in d <=>
        /\ n \in {k.priority : k \in DOMAIN pool}
        /\ \E k : Says(k) /\ k.priority >= n /\ ActionOf(pool[k], s) # "continue"
  BY AnswerType DEF Deciding, Asked
<1>4. heard \subseteq d
  BY <1>1, <1>2, <1>3
<1>5. CASE d = {}
  <2>1. heard = {}
    BY <1>4, <1>5
  <2> QED
    BY <1>5, <2>1 DEF Query, Documented
<1>6. CASE d # {}
  <2> DEFINE m == Max(d)
  <2>1. m \in d /\ d \subseteq -10..10 /\ \A n \in d : n <= m
    BY <1>6, DecidingPriority
  <2> HIDE DEF m, d, heard
  <2>2. \A k : Says(k) /\ k.priority >= m /\ ActionOf(pool[k], s) # "continue" => k.priority = m
    <3> SUFFICES ASSUME NEW k, Says(k), k.priority >= m, ActionOf(pool[k], s) # "continue"
                 PROVE  k.priority = m
      OBVIOUS
    <3>1. k.priority \in d
      BY <1>2, <1>4
    <3> QED
      BY <1>1, <2>1, <3>1
  <2>3. m \in heard
    BY <1>2, <1>3, <2>1, <2>2
  <2>4. Max(heard) = m
    <3>1. heard \in SUBSET (-10..10) /\ heard # {}
      BY <1>4, <2>1, <2>3
    <3>2. Max(heard) \in heard /\ m <= Max(heard)
      BY <2>3, <3>1, HighestPriority
    <3>3. Max(heard) \in d
      BY <1>4, <3>2
    <3> DEFINE h == Max(heard)
    <3>4. h \in d /\ m <= h
      BY <3>2, <3>3
    <3> HIDE DEF h
    <3>5. h = m
      BY <2>1, <3>4
    <3> QED
      BY <3>5 DEF h
  <2>5. Query(pool, s) = AnswerAt(pool, s, m)
    BY <1>6 DEF Query, d, m
  <2> DEFINE A == {ActionOf(pool[k], s) : k \in Asked(pool, s, m)}
  <2>6. A \ {"continue"} = Opinions(s, m)
    <3>1. m \in Int /\ \A k : Says(k) => k.priority \in Int
      BY <1>1, <2>1
    <3>2. \A k : Says(k) /\ k.priority = m => k.priority >= m
      BY <3>1
    <3> QED
      BY <2>2, <3>2 DEF Asked, Opinions
  <2>7. Opinions(s, m) # {} /\ Opinions(s, m) \subseteq Actions \ {"continue"}
    BY <1>1, <2>3 DEF heard, Opinions
  <2>8. Documented(s) = IF "fail" \in Opinions(s, m) THEN "fail"
                        ELSE IF "pause" \in Opinions(s, m) THEN "pause" ELSE "continue"
    BY <2>3, <2>4 DEF Documented, heard
  <2>9. AnswerAt(pool, s, m) = QueryActionList(A)
    BY DEF AnswerAt
  <2>10. A \in SUBSET Actions /\ ~ (A \subseteq {"continue"})
    BY <2>6, <2>7 DEF Actions
  <2> HIDE DEF A
  <2> QED
    BY <2>5, <2>6, <2>7, <2>8, <2>9, <2>10, ListAnswers
<1> QED
  BY <1>5, <1>6

-----------------------------------------------------------------------------
(* The pool *)

(* A pool that is well formed has the type that TypeOK asks for. *)
LEMMA PoolType ==
  ASSUME NEW p, PoolOf(p)
  PROVE  \A k \in DOMAIN p :
           /\ p[k].expired \in BOOLEAN /\ p[k].announces \in BOOLEAN
           /\ DOMAIN p[k].states \subseteq StateNames
           /\ \A s \in DOMAIN p[k].states : p[k].states[s] \in MapStates
<1> SUFFICES ASSUME NEW k \in DOMAIN p
             PROVE  /\ p[k].expired \in BOOLEAN /\ p[k].announces \in BOOLEAN
                    /\ DOMAIN p[k].states \subseteq StateNames
                    /\ \A s \in DOMAIN p[k].states : p[k].states[s] \in MapStates
  OBVIOUS
<1>1. p[k] \in Maps
  BY DEF PoolOf
<1>2. PICK E \in SUBSET StateNames : p[k].states \in [E -> MapStates]
  BY <1>1 DEF Maps, StateMaps
<1> QED
  BY <1>1, <1>2 DEF Maps

(* Deleting maps *)
LEMMA KeepPool ==
  ASSUME NEW p, PoolOf(p), ServersAreSilent(p), NEW keys
  PROVE  PoolOf(Keep(p, keys)) /\ ServersAreSilent(Keep(p, keys))
<1>1. DOMAIN Keep(p, keys) = DOMAIN p \cap keys
      /\ \A k \in DOMAIN p \cap keys : Keep(p, keys)[k] = p[k]
  BY DEF Keep
<1>2. IsFiniteSet(DOMAIN p \cap keys)
  BY FS_Subset DEF PoolOf
<1>3. Keep(p, keys) \in [DOMAIN p \cap keys -> Maps]
  BY DEF PoolOf, Keep
<1> QED
  BY <1>1, <1>2, <1>3 DEF PoolOf, ServersAreSilent

(* Inserting a map *)
LEMMA WithPool ==
  ASSUME NEW p, PoolOf(p), ServersAreSilent(p), NEW key \in Keys,
         NEW states \in Requests, NEW announces \in BOOLEAN,
         ~announces => key \in OfDeployment
  PROVE  /\ PoolOf(With(p, key, NewMap(states, announces)))
         /\ ServersAreSilent(With(p, key, NewMap(states, announces)))
<1> DEFINE m == NewMap(states, announces)
           q == With(p, key, m)
<1>1. m \in Maps /\ m.announces = announces
  BY SanitizeRequest DEF NewMap, Maps
<1> HIDE DEF m
<1>2. DOMAIN q = DOMAIN p \cup {key}
  BY DEF With
<1>3. q \in [DOMAIN p \cup {key} -> Maps]
  BY <1>1 DEF With, PoolOf
<1>4. \A k \in DOMAIN q : q[k] = IF k = key THEN m ELSE p[k]
  BY DEF With
<1>5. IsFiniteSet(DOMAIN p \cup {key})
  BY FS_AddElement DEF PoolOf
<1>6. PoolOf(q)
  BY <1>2, <1>3, <1>5 DEF PoolOf
<1>7. ServersAreSilent(q)
  BY <1>1, <1>2, <1>4 DEF ServersAreSilent
<1> QED
  BY <1>6, <1>7 DEF m

(* on_action_executed *)
LEMMA UpdatedPool ==
  ASSUME NEW p, PoolOf(p), ServersAreSilent(p), NEW s
  PROVE  PoolOf(Updated(p, s)) /\ ServersAreSilent(Updated(p, s))
<1> DEFINE q == Updated(p, s)
           New(k) == [p[k] EXCEPT !.states[s].action = p[k].states[s].executed]
<1>1. DOMAIN q = DOMAIN p
      /\ \A k \in DOMAIN p : q[k] = p[k] \/ (s \in DOMAIN p[k].states /\ q[k] = New(k))
  BY DEF Updated
<1>2. ASSUME NEW k \in DOMAIN p, s \in DOMAIN p[k].states
      PROVE  New(k) \in Maps /\ New(k).announces = p[k].announces
  <2>1. p[k] \in Maps
    BY DEF PoolOf
  <2>2. PICK E \in SUBSET StateNames : p[k].states \in [E -> MapStates]
    BY <2>1 DEF Maps, StateMaps
  <2>3. s \in E /\ p[k].states[s] \in MapStates
    BY <1>2, <2>2
  <2>4. [p[k].states[s] EXCEPT !.action = p[k].states[s].executed] \in MapStates
    BY <2>3 DEF MapStates
  <2>5. [p[k].states EXCEPT ![s].action = p[k].states[s].executed] \in [E -> MapStates]
    BY <2>2, <2>3, <2>4
  <2>6. [p[k].states EXCEPT ![s].action = p[k].states[s].executed] \in StateMaps
    BY <2>5 DEF StateMaps
  <2> QED
    BY <2>1, <2>6 DEF Maps
<1>3. \A k \in DOMAIN p : q[k] \in Maps /\ q[k].announces = p[k].announces
  BY <1>1, <1>2 DEF PoolOf
<1>4. q \in [DOMAIN p -> Maps]
  BY <1>3 DEF Updated
<1> HIDE DEF q
<1>5. PoolOf(q)
  BY <1>1, <1>4 DEF PoolOf
<1>6. ServersAreSilent(q)
  BY <1>1, <1>3 DEF ServersAreSilent
<1> QED
  BY <1>5, <1>6 DEF q

(* loadFromStore *)
LEMMA LoadPool ==
  ASSUME NEW d, StoreOf(d)
  PROVE  /\ PoolOf(Load(d)) /\ ServersAreSilent(Load(d))
         /\ DOMAIN Load(d) = DOMAIN d
         /\ \A k \in DOMAIN d : /\ Sanitize(Load(d)[k].states) = Sanitize(d[k].states)
                                /\ Load(d)[k].expired = d[k].expired
<1>1. \A k \in DOMAIN d : d[k] \in SavedMaps
  BY DEF StoreOf
<1>2. \A k \in DOMAIN d : /\ Sanitize(d[k].states) \in StateMaps
                          /\ Sanitize(Sanitize(d[k].states)) = Sanitize(d[k].states)
  BY <1>1, SanitizeAgain DEF SavedMaps
<1>3. /\ DOMAIN Load(d) = DOMAIN d
      /\ \A k \in DOMAIN d : /\ Load(d)[k].states = Sanitize(d[k].states)
                             /\ Load(d)[k].expired = d[k].expired
                             /\ Load(d)[k].announces = TRUE
  BY DEF Load
<1>4. Load(d) \in [DOMAIN d -> Maps]
  BY <1>1, <1>2 DEF Load, Maps, SavedMaps
<1> QED
  BY <1>2, <1>3, <1>4 DEF StoreOf, PoolOf, ServersAreSilent

-----------------------------------------------------------------------------
(* The store *)

(* saveToStore, whether it fails or not *)
LEMMA SaveStep ==
  ASSUME MapsInv, NEW p, PoolOf(p), pool' = p, SaveToStore(p)
  PROVE  /\ StoreOf(stored') /\ RestartAgrees'
         /\ unsaved' \in BOOLEAN /\ faults' \in 0..MaxFaults
<1>a. unsaved' \in BOOLEAN
  BY DEF SaveToStore
<1>b. faults' \in 0..MaxFaults
  <2>1. UNCHANGED faults \/ Fault
    BY DEF SaveToStore, NoFault
  <2> QED
    BY <2>1, ControlMapsAssumption DEF MapsInv, TypeOK, Fault, ControlMapsAssumption
<1>1. faults' \in 0..MaxFaults /\ unsaved' \in BOOLEAN
  BY <1>a, <1>b
<1>2. CASE Fault /\ unsaved' = TRUE /\ UNCHANGED stored
  BY <1>1, <1>2 DEF MapsInv, RestartAgrees
<1>3. CASE /\ stored' = [k \in DOMAIN p |-> [states |-> p[k].states, expired |-> p[k].expired]]
           /\ unsaved' = FALSE /\ NoFault
  <2>1. \A k \in DOMAIN p : p[k] \in Maps
    BY DEF PoolOf
  <2>2. stored' \in [DOMAIN p -> SavedMaps] /\ DOMAIN stored' = DOMAIN p
    BY <1>3, <2>1 DEF Maps, SavedMaps
  <2>3. \A k \in DOMAIN p : stored'[k].states = p[k].states /\ stored'[k].expired = p[k].expired
    BY <1>3
  <2>4. StoreOf(stored')
    BY <2>2 DEF StoreOf, PoolOf
  <2> QED
    BY <1>1, <2>2, <2>3, <2>4 DEF RestartAgrees
<1> QED
  BY <1>2, <1>3 DEF SaveToStore

(* The goroutines of maps that are replaced are counted. *)
LEMMA StrayType ==
  ASSUME MapsInv, NEW p
  PROVE  Strayed(pool, p) \in Nat
<1> DEFINE S == {k \in DOMAIN pool : /\ pool[k].announces /\ ~pool[k].expired
                                     /\ (k \notin DOMAIN p \/ p[k] # pool[k])}
<1>1. S \in SUBSET DOMAIN pool
  OBVIOUS
<1>2. IsFiniteSet(S)
  BY <1>1, FS_Subset DEF MapsInv, PoolOf
<1>3. Cardinality(S) \in Nat
  BY <1>2, FS_CardinalityType
<1>4. Strayed(pool, p) = stray + Cardinality(S)
  BY DEF Strayed
<1> HIDE DEF S
<1> QED
  BY <1>3, <1>4 DEF MapsInv, TypeOK

(* insertMap and deleteMaps *)
LEMMA SetPoolStep ==
  ASSUME MapsInv, NEW p, PoolOf(p), ServersAreSilent(p), SetPool(p)
  PROVE  /\ PoolOf(pool') /\ StoreOf(stored') /\ ServersAreSilent(pool') /\ RestartAgrees'
         /\ unsaved' \in BOOLEAN /\ faults' \in 0..MaxFaults
         /\ updates' = TRUE /\ stray' \in Nat
BY SaveStep, StrayType DEF SetPool

(* A deployment that comes with a map or without one *)
LEMMA HandleMapStep ==
  ASSUME MapsInv, HandleControlMap \/ HandleNoControlMap
  PROVE  /\ PoolOf(pool') /\ StoreOf(stored') /\ ServersAreSilent(pool') /\ RestartAgrees'
         /\ unsaved' \in BOOLEAN /\ faults' \in 0..MaxFaults
         /\ updates' = TRUE /\ stray' \in Nat /\ maps' \in 0..MaxMaps
<1> DEFINE q == Keep(pool, Keys \ OfDeployment)
<1>1. PoolOf(q) /\ ServersAreSilent(q)
  BY KeepPool DEF MapsInv
<1> HIDE DEF q
<1>2. CASE HandleNoControlMap
  BY <1>1, <1>2, SetPoolStep DEF HandleNoControlMap, q, MapsInv, TypeOK
<1>3. CASE HandleControlMap
  <2>1. PICK key \in OfServer, states \in Requests :
          /\ SetPool(With(q, key, NewMap(states, FALSE)))
          /\ IF Sanitize(states) = <<>> THEN UNCHANGED maps ELSE Counted
    BY <1>3 DEF HandleControlMap, q
  <2>2. key \in Keys /\ key \in OfDeployment
    BY DEF Keys, OfDeployment, OfServer
  <2>3. /\ PoolOf(With(q, key, NewMap(states, FALSE)))
        /\ ServersAreSilent(With(q, key, NewMap(states, FALSE)))
    BY <1>1, <2>2, WithPool
  <2>4. maps' \in 0..MaxMaps
    BY <2>1, ControlMapsAssumption DEF Counted, MapsInv, TypeOK, ControlMapsAssumption
  <2> QED
    BY <2>1, <2>3, <2>4, SetPoolStep
<1> QED
  BY <1>2, <1>3

-----------------------------------------------------------------------------
(* The steps *)

DaemonOK ==
  /\ pc \in InDecision \cup {"idle", "download", "run", "cleanup"}
  /\ at \in StateNames /\ second \in BOOLEAN /\ reported \subseteq StateNames
  /\ tries \in 0..MaxTries

Resting == {"pause", "waitServer", "waitAny"}

Parts ==
  /\ PoolOf(pool) /\ StoreOf(stored) /\ ServersAreSilent(pool) /\ RestartAgrees
  /\ ChangesAreNoticed /\ DaemonOK /\ left \in Actions /\ unsaved \in BOOLEAN
  /\ updates \in BOOLEAN /\ stray \in Nat /\ maps \in 0..MaxMaps /\ faults \in 0..MaxFaults

(* The parts of the invariant, and the same after a step *)
LEMMA Together == Parts => MapsInv
<1> SUFFICES ASSUME Parts PROVE MapsInv
  OBVIOUS
<1>1. /\ DOMAIN pool \subseteq Keys /\ DOMAIN stored \subseteq Keys
      /\ \A k \in DOMAIN pool :
           /\ pool[k].expired \in BOOLEAN /\ pool[k].announces \in BOOLEAN
           /\ DOMAIN pool[k].states \subseteq StateNames
           /\ \A s \in DOMAIN pool[k].states : pool[k].states[s] \in MapStates
  BY PoolType DEF Parts, PoolOf, StoreOf
<1>2. TypeOK
  BY <1>1 DEF Parts, TypeOK, DaemonOK
<1> QED
  BY <1>2 DEF MapsInv, Parts

LEMMA TogetherNext == Parts' => MapsInv'
BY Together, PTL

(* A step of the daemon that leaves the maps alone, and does not begin to  *)
(* wait but from a pause.                                                  *)
LEMMA QuietStep ==
  ASSUME MapsInv, DaemonOK', UNCHANGED <<pool, stored, stray, history, maps, faults>>,
         updates' \in BOOLEAN,
         pc' \in Resting => pc \in Resting /\ at' = at /\ updates' = updates
  PROVE  MapsInv'
<1>1. /\ PoolOf(pool)' /\ StoreOf(stored)' /\ ServersAreSilent(pool)' /\ RestartAgrees'
  BY DEF MapsInv, PoolOf, StoreOf, ServersAreSilent, RestartAgrees, history
<1>2. ChangesAreNoticed'
  BY DEF MapsInv, ChangesAreNoticed, SilentlyExpired, Resting, history
<1>3. /\ left' \in Actions /\ unsaved' \in BOOLEAN /\ updates' \in BOOLEAN /\ stray' \in Nat
      /\ maps' \in 0..MaxMaps /\ faults' \in 0..MaxFaults
  BY DEF MapsInv, TypeOK, history
<1> QED
  BY <1>1, <1>2, <1>3, TogetherNext DEF Parts

(* A step that changes the maps, of which a paused update will hear *)
LEMMA AnnouncedStep ==
  ASSUME MapsInv, DaemonOK', UNCHANGED left,
         PoolOf(pool)', StoreOf(stored)', ServersAreSilent(pool)', RestartAgrees',
         unsaved' \in BOOLEAN, faults' \in 0..MaxFaults,
         updates' \in BOOLEAN, stray' \in Nat, maps' \in 0..MaxMaps,
         pc' \in Resting => updates'
  PROVE  MapsInv'
<1>1. ChangesAreNoticed'
  BY DEF ChangesAreNoticed, Resting
<1>2. left' \in Actions
  BY DEF MapsInv, TypeOK
<1> QED
  BY <1>1, <1>2, TogetherNext DEF Parts

LEMMA InitInv == Init => MapsInv
<1> SUFFICES ASSUME Init PROVE MapsInv
  OBVIOUS
<1>1. DOMAIN pool = {} /\ DOMAIN stored = {}
  BY DEF Init
<1>2. PoolOf(pool) /\ StoreOf(stored) /\ ServersAreSilent(pool) /\ RestartAgrees
  <2>1. IsFiniteSet({})
    BY FS_EmptySet
  <2>2. pool \in [{} -> Maps] /\ stored \in [{} -> SavedMaps]
    BY DEF Init
  <2> QED
    BY <1>1, <2>1, <2>2 DEF PoolOf, StoreOf, ServersAreSilent, RestartAgrees
<1>3. ChangesAreNoticed
  BY DEF Init, ChangesAreNoticed
<1>4. tries \in 0..MaxTries /\ stray \in Nat /\ maps \in 0..MaxMaps /\ faults \in 0..MaxFaults
  BY ControlMapsAssumption DEF Init, ControlMapsAssumption
<1>5. DaemonOK /\ left \in Actions /\ unsaved \in BOOLEAN /\ updates \in BOOLEAN
  BY <1>4 DEF Init, DaemonOK, InDecision, StateNames, Actions
<1> QED
  BY <1>2, <1>3, <1>4, <1>5, Together DEF Parts

(* The daemon where it leaves the maps alone *)
LEMMA DaemonQuiet ==
  ASSUME MapsInv,
         \/ Download \/ FetchControlMapFails \/ FetchRetryControlMap
         \/ ControlMapPause \/ WaitTimer \/ WaitUpdates \/ RunInstall \/ RunCommit
  PROVE  MapsInv'
<1>t. DaemonOK /\ updates \in BOOLEAN
  BY DEF MapsInv, TypeOK, DaemonOK
<1>1. CASE Download
  BY <1>t, <1>1, QuietStep
  DEF Download, Ask, Goto, DaemonOK, InDecision, StateNames, Resting
<1>2. CASE FetchControlMapFails
  BY <1>t, <1>2, QuietStep DEF FetchControlMapFails, Goto, DaemonOK, InDecision, Resting
<1>3. CASE FetchRetryControlMap
  BY <1>t, <1>3, QuietStep, ControlMapsAssumption
  DEF FetchRetryControlMap, Goto, DaemonOK, InDecision, Resting, ControlMapsAssumption
<1>4. CASE ControlMapPause
  BY <1>t, <1>4, QuietStep DEF ControlMapPause, Goto, DaemonOK, InDecision, Resting
<1>5. CASE WaitTimer
  BY <1>t, <1>5, QuietStep DEF WaitTimer, Goto, DaemonOK, InDecision, Resting
<1>6. CASE WaitUpdates
  BY <1>t, <1>6, QuietStep DEF WaitUpdates, Goto, DaemonOK, InDecision, Resting
<1>7. CASE RunInstall
  BY <1>t, <1>7, QuietStep
  DEF RunInstall, Ask, Goto, DaemonOK, InDecision, StateNames, Resting
<1>8. CASE RunCommit
  BY <1>t, <1>8, QuietStep DEF RunCommit, Goto, DaemonOK, InDecision, Resting
<1> QED
  BY <1>1, <1>2, <1>3, <1>4, <1>5, <1>6, <1>7, <1>8

(* fetchControlMapState *)
LEMMA FetchInv ==
  ASSUME MapsInv, FetchControlMap
  PROVE  MapsInv'
<1>1. DaemonOK' /\ pc' \notin Resting
  BY ControlMapsAssumption
  DEF FetchControlMap, MapsInv, TypeOK, DaemonOK, InDecision, Resting, ControlMapsAssumption
<1>2. CASE UNCHANGED <<pool, stored, updates, stray, history, maps, faults>>
  BY <1>1, <1>2, QuietStep DEF MapsInv, TypeOK
<1>3. CASE HandleControlMap /\ UNCHANGED left
  <2>1. updates' \in BOOLEAN
    BY <1>3, HandleMapStep
  <2> QED
    BY <1>1, <1>3, <2>1, HandleMapStep, AnnouncedStep DEF PoolOf, StoreOf, ServersAreSilent
<1> QED
  BY <1>2, <1>3 DEF FetchControlMap

(* updateCheckState and updateCleanupState *)
LEMMA CheckInv ==
  ASSUME MapsInv, CheckUpdate
  PROVE  MapsInv'
<1>1. DaemonOK' /\ pc' \notin Resting
  BY DEF CheckUpdate, Goto, MapsInv, TypeOK, DaemonOK, InDecision, Resting
<1>2. updates' \in BOOLEAN
  BY HandleMapStep DEF CheckUpdate
<1> QED
  BY <1>1, <1>2, HandleMapStep, AnnouncedStep DEF CheckUpdate, PoolOf, StoreOf, ServersAreSilent

LEMMA CleanupInv ==
  ASSUME MapsInv, Cleanup
  PROVE  MapsInv'
<1> DEFINE p == Keep(pool, Keys \ OfDeployment)
<1>1. DaemonOK' /\ pc' \notin Resting
  BY DEF Cleanup, MapsInv, TypeOK, DaemonOK, InDecision, Resting
<1>2. PoolOf(p) /\ ServersAreSilent(p) /\ SetPool(p)
  BY KeepPool DEF MapsInv, Cleanup
<1> HIDE DEF p
<1>3. updates' \in BOOLEAN /\ UNCHANGED left /\ maps' \in 0..MaxMaps
  BY <1>2, SetPoolStep DEF Cleanup, MapsInv, TypeOK
<1> QED
  BY <1>1, <1>2, <1>3, SetPoolStep, AnnouncedStep DEF PoolOf, StoreOf, ServersAreSilent

(* A map that is set over D-Bus, at any time *)
LEMMA DBusInv ==
  ASSUME MapsInv, DBusCall
  PROVE  MapsInv'
<1>1. DaemonOK' /\ UNCHANGED left
  BY DEF DBusCall, daemon, MapsInv, TypeOK, DaemonOK
<1>2. PICK key \in LocalKeys, states \in Requests : SetUpdateControlMap(key, states)
  BY DEF DBusCall
<1> DEFINE p == IF Sanitize(states) = <<>> THEN Keep(pool, Keys \ {key})
                ELSE With(pool, key, NewMap(states, TRUE))
<1>3. PoolOf(p) /\ ServersAreSilent(p)
  <2>1. key \in Keys
    BY DEF Keys
  <2> QED
    BY <2>1, KeepPool, WithPool DEF MapsInv
<1>4. SetPool(p)
  BY <1>2 DEF SetUpdateControlMap
<1> HIDE DEF p
<1>5. maps' \in 0..MaxMaps
  BY ControlMapsAssumption DEF DBusCall, Counted, MapsInv, TypeOK, ControlMapsAssumption
<1>6. updates' \in BOOLEAN /\ updates'
  BY <1>3, <1>4, SetPoolStep
<1> QED
  BY <1>1, <1>3, <1>4, <1>5, <1>6, SetPoolStep, AnnouncedStep
  DEF PoolOf, StoreOf, ServersAreSilent

(* idleState *)
LEMMA ClearExpiredInv ==
  ASSUME MapsInv, ClearExpired
  PROVE  MapsInv'
<1> DEFINE p == Keep(pool, {k \in DOMAIN pool : ~pool[k].expired})
<1>1. DaemonOK' /\ pc' \notin Resting
  BY DEF ClearExpired, daemon, MapsInv, TypeOK, DaemonOK, InDecision, Resting
<1>2. PoolOf(p) /\ ServersAreSilent(p)
  BY KeepPool DEF MapsInv
<1>3. pool' = p /\ SaveToStore(p)
  BY DEF ClearExpired
<1> HIDE DEF p
<1>4. /\ updates' \in BOOLEAN /\ UNCHANGED left /\ maps' \in 0..MaxMaps /\ stray' \in Nat
  BY DEF ClearExpired, MapsInv, TypeOK
<1> QED
  BY <1>1, <1>2, <1>3, <1>4, SaveStep, AnnouncedStep DEF PoolOf, StoreOf, ServersAreSilent

(* A restart loads the maps that were saved. *)
LEMMA RestartedInv ==
  ASSUME MapsInv, Restarted, DaemonOK', pc' \notin Resting,
         UNCHANGED <<stored, left, unsaved, maps>>, faults' \in 0..MaxFaults
  PROVE  MapsInv'
<1>1. pool' = Load(stored) /\ updates' = FALSE /\ stray' = 0
  BY DEF Restarted
<1>2. PoolOf(pool') /\ ServersAreSilent(pool') /\ StoreOf(stored')
  BY <1>1, LoadPool DEF MapsInv
<1>3. RestartAgrees'
  BY <1>1, LoadPool DEF MapsInv, RestartAgrees
<1>4. /\ unsaved' \in BOOLEAN /\ updates' \in BOOLEAN /\ maps' \in 0..MaxMaps /\ stray' \in Nat
  BY <1>1 DEF MapsInv, TypeOK
<1> QED
  BY <1>2, <1>3, <1>4, AnnouncedStep DEF PoolOf, StoreOf, ServersAreSilent

LEMMA RunRebootInv ==
  ASSUME MapsInv, RunReboot
  PROVE  MapsInv'
<1>1. tries' \in 0..MaxTries /\ faults' \in 0..MaxFaults
  BY ControlMapsAssumption DEF RunReboot, Restarted, MapsInv, TypeOK, ControlMapsAssumption
<1>2. DaemonOK' /\ pc' \notin Resting
  BY <1>1 DEF RunReboot, Restarted, MapsInv, TypeOK, DaemonOK, InDecision, Resting, StateNames
<1> QED
  BY <1>1, <1>2, RestartedInv DEF RunReboot

LEMMA CrashInv ==
  ASSUME MapsInv, Crash
  PROVE  MapsInv'
<1>1. tries' \in 0..MaxTries /\ faults' \in 0..MaxFaults
  BY ControlMapsAssumption DEF Crash, Fault, Restarted, MapsInv, TypeOK, ControlMapsAssumption
<1>2. DaemonOK' /\ pc' \notin Resting
  BY <1>1 DEF Crash, Restarted, MapsInv, TypeOK, DaemonOK, InDecision, Resting, StateNames
<1> QED
  BY <1>1, <1>2, RestartedInv DEF Crash

(* The goroutine of a map: an application's tells, the server's is seen. *)
LEMMA ExpireInv ==
  ASSUME MapsInv, NEW k \in Keys, Expire(k)
  PROVE  MapsInv'
<1>1. /\ k \in DOMAIN pool /\ pool' = [pool EXCEPT ![k].expired = TRUE]
      /\ updates' = (updates \/ pool[k].announces)
      /\ UNCHANGED <<stored, stray, pc, at, second, reported, tries, left, unsaved, maps, faults>>
  BY DEF Expire, daemon
<1>2. pool \in [DOMAIN pool -> Maps] /\ DOMAIN pool' = DOMAIN pool
  BY <1>1 DEF MapsInv, PoolOf
<1>3. /\ \A x \in DOMAIN pool : x # k => pool'[x] = pool[x]
      /\ pool'[k] \in Maps /\ pool'[k].states = pool[k].states
      /\ pool'[k].announces = pool[k].announces /\ pool'[k].expired = TRUE
  BY <1>1, <1>2 DEF Maps
<1>4. pool' \in [DOMAIN pool -> Maps]
  BY <1>1, <1>2, <1>3 DEF Maps
<1>5. PoolOf(pool)' /\ StoreOf(stored)' /\ ServersAreSilent(pool)' /\ RestartAgrees'
  <2>1. PoolOf(pool') /\ StoreOf(stored')
    BY <1>1, <1>2, <1>4 DEF MapsInv, PoolOf, StoreOf
  <2>2. ServersAreSilent(pool')
    BY <1>2, <1>3 DEF MapsInv, ServersAreSilent
  <2>3. RestartAgrees'
    BY <1>1, <1>2, <1>3 DEF MapsInv, RestartAgrees
  <2> QED
    BY <2>1, <2>2, <2>3 DEF PoolOf, StoreOf, ServersAreSilent
<1>6. updates' \in BOOLEAN
  BY <1>1
<1>7. ChangesAreNoticed'
  <2>1. CASE pool[k].announces
    BY <1>1, <2>1 DEF ChangesAreNoticed
  <2>2. CASE ~pool[k].announces
    <3>1. k \in OfDeployment
      BY <1>1, <2>2 DEF MapsInv, ServersAreSilent
    <3>2. SilentlyExpired'
      BY <1>1, <1>2, <1>3, <2>2, <3>1 DEF SilentlyExpired
    <3> QED
      BY <3>2 DEF ChangesAreNoticed
  <2> QED
    BY <2>1, <2>2
<1>8. /\ DaemonOK' /\ left' \in Actions /\ unsaved' \in BOOLEAN /\ stray' \in Nat
      /\ maps' \in 0..MaxMaps /\ faults' \in 0..MaxFaults
  BY <1>1 DEF MapsInv, TypeOK, DaemonOK
<1> QED
  BY <1>5, <1>6, <1>7, <1>8, TogetherNext DEF Parts

LEMMA StrayInv ==
  ASSUME MapsInv, StrayExpires
  PROVE  MapsInv'
<1>1. DaemonOK' /\ stray' \in Nat
  BY DEF StrayExpires, daemon, MapsInv, TypeOK, DaemonOK
<1>2. /\ updates' \in BOOLEAN /\ updates' /\ unsaved' \in BOOLEAN /\ UNCHANGED left
      /\ maps' \in 0..MaxMaps /\ faults' \in 0..MaxFaults
  BY DEF StrayExpires, history, MapsInv, TypeOK
<1>3. PoolOf(pool)' /\ StoreOf(stored)' /\ ServersAreSilent(pool)' /\ RestartAgrees'
  BY DEF StrayExpires, history, MapsInv, PoolOf, StoreOf, ServersAreSilent, RestartAgrees
<1> QED
  BY <1>1, <1>2, <1>3, AnnouncedStep

(* controlMapState: the answer it leaves is the one the maps give then. *)
LEMMA QueryInv ==
  ASSUME MapsInv, ControlMapQuery
  PROVE  MapsInv'
<1> DEFINE p == Updated(pool, at)
<1>1. PoolOf(p) /\ ServersAreSilent(p)
  BY UpdatedPool DEF MapsInv
<1>2. pool' = p /\ SaveToStore(p)
  BY DEF ControlMapQuery, SaveAfterQuery
<1>3. left' = IF Query(pool, at) = "pause" THEN Query(p, at) ELSE "continue"
  BY DEF ControlMapQuery
<1>4. Answered(Query(pool, at)) /\ UNCHANGED <<updates, stray, maps>> /\ pc = "query"
  BY DEF ControlMapQuery
<1> HIDE DEF p
<1>5. left' \in Actions
  BY <1>1, <1>3, QueryType DEF Actions
<1>6. DaemonOK'
  BY <1>4 DEF Answered, Goto, MapsInv, TypeOK, DaemonOK, InDecision
<1>7. at' = at /\ (pc' \in Resting => Query(pool, at) = "pause")
  BY <1>4 DEF Answered, Goto, Resting
<1>8. ChangesAreNoticed'
  BY <1>2, <1>3, <1>7 DEF ChangesAreNoticed, Resting
<1>9. /\ StoreOf(stored') /\ RestartAgrees' /\ unsaved' \in BOOLEAN /\ faults' \in 0..MaxFaults
  BY <1>1, <1>2, SaveStep
<1>10. PoolOf(pool)' /\ StoreOf(stored)' /\ ServersAreSilent(pool)'
  BY <1>1, <1>2, <1>9 DEF PoolOf, StoreOf, ServersAreSilent
<1>11. updates' \in BOOLEAN /\ stray' \in Nat /\ maps' \in 0..MaxMaps
  BY <1>4 DEF MapsInv, TypeOK
<1> QED
  BY <1>5, <1>6, <1>8, <1>9, <1>10, <1>11, TogetherNext DEF Parts

-----------------------------------------------------------------------------

(* Every step of daemon, applications, server, timers and crashes keeps    *)
(* the invariant.                                                          *)
THEOREM InductiveInvariant == Spec => []MapsInv
<1>1. MapsInv /\ [Next]_vars => MapsInv'
  <2> SUFFICES ASSUME MapsInv, [Next]_vars PROVE MapsInv'
    OBVIOUS
  <2>1. CASE UNCHANGED vars
    <3>1. DaemonOK' /\ updates' \in BOOLEAN
      BY <2>1 DEF vars, daemon, MapsInv, TypeOK, DaemonOK
    <3> QED
      BY <2>1, <3>1, QuietStep DEF vars, daemon
  <2>2. CASE Daemon
    BY <2>2, DaemonQuiet, FetchInv, QueryInv, RunRebootInv, CleanupInv DEF Daemon
  <2> QED
    BY <2>1, <2>2, CheckInv, ClearExpiredInv, DBusInv, StrayInv, CrashInv, ExpireInv DEF Next
<1> QED
  BY <1>1, InitInv, PTL DEF Spec

(* Pool, channel and daemon keep their types through every interleaving of *)
(* D-Bus calls, fetches, expiries and restarts; in particular an expired   *)
(* map never pauses an update (on_map_expire is never "pause").            *)
THEOREM TypeCorrect == Spec => []TypeOK
<1>1. MapsInv => TypeOK
  BY DEF MapsInv
<1> QED
  BY <1>1, InductiveInvariant, PTL

(* QueryAndUpdate gives the documented answer for every pool: that of the  *)
(* highest priority with an opinion, fail before pause before              *)
(* force_continue.                                                         *)
THEOREM DocumentedAnswer == Spec => []HighestOpinionWins
<1>1. MapsInv => HighestOpinionWins
  BY QueryIsDocumented DEF MapsInv, HighestOpinionWins
<1> QED
  BY <1>1, InductiveInvariant, PTL

(* A restart finds the maps as the last answer left them, unless the write *)
(* of them failed (saveToStore).                                           *)
THEOREM RestartIsFaithful == Spec => []RestartAgrees
<1>1. MapsInv => RestartAgrees
  BY DEF MapsInv
<1> QED
  BY <1>1, InductiveInvariant, PTL

(* A paused update whose answer has changed is about to be woken, or the   *)
(* server's own map has expired (announceUpdate, the expiry goroutines).   *)
THEOREM WakeUpsArrive == Spec => []NoMissedUpdate
<1>1. MapsInv => NoMissedUpdate
  BY DEF MapsInv, ChangesAreNoticed, SilentlyExpired, NoMissedUpdate
<1> QED
  BY <1>1, InductiveInvariant, PTL

=============================================================================
