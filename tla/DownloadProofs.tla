---------------------------- MODULE DownloadProofs ----------------------------
(***************************************************************************)
(* The download: EveryByteOnce and StoredSurvives, proved for every size   *)
(* of the image and of a frame, for any number of resumptions, downloads   *)
(* and faults.                                                             *)
(***************************************************************************)
EXTENDS Download, TLAPS, WellFoundedInduction

(* The buffer has chunks of the image, also where nothing is said of their *)
(* order; there is room for another one wherever the reader goes on.       *)
BufferFits ==
  /\ buf \in Seq(Positions) /\ Len(buf) <= Frame
  /\ pc \in {"read", "resume"} => Len(buf) < Frame
  /\ pc \in {"sync", "closeSync"} => buf = <<>>

(* The connection brings the chunk after the last that was returned *)
StreamContinues == pc \in {"read", "frame", "sync"} => stream = offset + 1

(* The whole image has been read when the device is closed, and is in the  *)
(* cache before the last sync                                              *)
EndIsReached ==
  /\ pc \in {"close", "closeSync"} => offset = Size
  /\ pc = "closeSync" => cache = Image

DownloadInv ==
  EveryByteOnce /\ BufferFits /\ StreamContinues /\ EndIsReached /\ StoredSurvives

-----------------------------------------------------------------------------

(***************************************************************************)
(* The arithmetic of GetExponentialBackoffTime.  What holds of every round *)
(* is proved by looking at the first round of which it does not hold.      *)
(***************************************************************************)
LEMMA LeastElement ==
  ASSUME NEW T \in SUBSET Nat, T # {}
  PROVE  \E x \in T : \A y \in T : x <= y
<1>1. PICK x \in T : \A y \in T : ~ (<<y, x>> \in OpToRel(<, Nat))
  BY NatLessThanWellFounded, WFMin
<1>2. \A y \in T : ~ (y < x)
  BY <1>1, Zenon DEF OpToRel
<1> QED
  BY <1>2

LEMMA MinIs ==
  ASSUME NEW T \in SUBSET Nat, NEW m \in T, \A y \in T : m <= y
  PROVE  Min(T) = m
<1>1. PICK x : x = Min(T)
  OBVIOUS
<1>2. x \in T /\ \A y \in T : x <= y
  BY <1>1 DEF Min
<1>3. x = m
  BY <1>2
<1> QED
  BY <1>1, <1>3

LEMMA MaxIs ==
  ASSUME NEW T \in SUBSET Nat, NEW m \in T, \A y \in T : m >= y
  PROVE  Max(T) = m
<1>1. PICK x : x = Max(T)
  OBVIOUS
<1>2. x \in T /\ \A y \in T : x >= y
  BY <1>1 DEF Max
<1>3. x = m
  BY <1>2
<1> QED
  BY <1>1, <1>3

(* A table of the first n doublings *)
Doubles(g, n) ==
  g \in [0..n -> Nat] /\ g[0] = 1 /\ \A k \in 1..n : g[k] = 2 * g[k - 1]

LEMMA TablesAgree ==
  ASSUME NEW n \in Nat, NEW m \in Nat, n <= m, NEW g, NEW h, Doubles(g, n), Doubles(h, m)
  PROVE  \A k \in 0..n : g[k] = h[k]
<1> DEFINE D == {k \in 0..n : g[k] # h[k]}
<1> SUFFICES ASSUME D # {}
             PROVE  FALSE
  OBVIOUS
<1>0. D \in SUBSET Nat
  OBVIOUS
<1>1. PICK k \in D : \A y \in D : k <= y
  BY <1>0, LeastElement
<1>2. k # 0
  BY DEF Doubles
<1>3. k - 1 \in 0..n /\ k - 1 \notin D
  BY <1>1, <1>2
<1>4. g[k] = 2 * g[k - 1] /\ h[k] = 2 * h[k - 1]
  BY <1>2 DEF Doubles
<1> QED
  BY <1>3, <1>4

LEMMA TablesExist == \A n \in Nat : \E g : Doubles(g, n)
<1> DEFINE D == {k \in Nat : ~ \E g : Doubles(g, k)}
<1> SUFFICES ASSUME D # {}
             PROVE  FALSE
  OBVIOUS
<1>1. PICK k \in D : \A y \in D : k <= y
  BY LeastElement
<1>2. k # 0
  <2>1. Doubles([i \in 0..0 |-> 1], 0)
    BY DEF Doubles
  <2> QED
    BY <2>1
<1>3. k - 1 \in Nat /\ k - 1 \notin D
  BY <1>1, <1>2
<1>4. PICK g : Doubles(g, k - 1)
  BY <1>3
<1>5. Doubles([i \in 0..k |-> IF i = k THEN 2 * g[k - 1] ELSE g[i]], k)
  BY <1>3, <1>4 DEF Doubles
<1> QED
  BY <1>5

(* Interval is the function its recursive definition describes *)
LEMMA IntervalDef ==
  Interval = [k \in Nat |-> IF k = 0 THEN 1 ELSE 2 * Interval[k - 1]]
<1> DEFINE G(n) == CHOOSE g : Doubles(g, n)
           F == [n \in Nat |-> G(n)[n]]
<1>1. \A n \in Nat : Doubles(G(n), n)
  BY TablesExist
<1> HIDE DEF G
<1>2. \A n \in Nat \ {0} : G(n)[n - 1] = G(n - 1)[n - 1]
  BY <1>1, TablesAgree
<1>3. ASSUME NEW n \in Nat
      PROVE  F[n] = IF n = 0 THEN 1 ELSE 2 * F[n - 1]
  <2>1. Doubles(G(n), n)
    BY <1>1
  <2>2. n # 0 => G(n)[n] = 2 * G(n)[n - 1]
    BY <2>1 DEF Doubles
  <2>3. CASE n = 0
    BY <2>1, <2>3 DEF Doubles
  <2>4. CASE n # 0
    BY <1>2, <2>2, <2>4
  <2> QED
    BY <2>3, <2>4
<1>4. F = [k \in Nat |-> IF k = 0 THEN 1 ELSE 2 * F[k - 1]]
  BY <1>3
<1> HIDE DEF F
<1> QED
  BY <1>4 DEF Interval

LEMMA IntervalType == \A k \in Nat : Interval[k] \in Nat /\ Interval[k] > k
<1> DEFINE D == {k \in Nat : ~ (Interval[k] \in Nat /\ Interval[k] > k)}
<1> SUFFICES ASSUME D # {}
             PROVE  FALSE
  OBVIOUS
<1>1. PICK k \in D : \A y \in D : k <= y
  BY LeastElement
<1>2. k # 0
  BY IntervalDef
<1>3. k - 1 \in Nat /\ k - 1 \notin D
  BY <1>1, <1>2
<1>4. Interval[k] = 2 * Interval[k - 1]
  BY <1>2, IntervalDef
<1> QED
  BY <1>3, <1>4

LEMMA IntervalGrows ==
  ASSUME NEW j \in Nat, NEW k \in Nat, j <= k
  PROVE  Interval[j] <= Interval[k]
<1> DEFINE D == {i \in Nat : i >= j /\ Interval[i] < Interval[j]}
<1> SUFFICES ASSUME D # {}
             PROVE  FALSE
  BY IntervalType
<1>1. PICK i \in D : \A y \in D : i <= y
  BY LeastElement
<1>2. i - 1 \in Nat /\ i - 1 >= j /\ i - 1 \notin D
  BY <1>1, IntervalType
<1>3. Interval[i] = 2 * Interval[i - 1]
  BY <1>2, IntervalDef
<1> QED
  BY <1>2, <1>3, IntervalType

(* The interval reaches the longest wait with the last of the doublings *)
LEMMA DoublingsReach ==
  /\ Longest \in Nat \ {0} /\ Doublings \in Nat
  /\ \A k \in Nat : Interval[k] >= MaxWait <=> k >= Doublings
<1>1. Longest \in Nat \ {0} /\ \A k \in Nat : Interval[k] >= MaxWait <=> Interval[k] >= Longest
  BY DownloadAssumption, IntervalType DEF Longest, DownloadAssumption
<1> DEFINE T == {j \in 0..Longest : Interval[j] >= Longest}
<1>2. Longest \in T
  BY <1>1, IntervalType
<1>3. Doublings \in T /\ \A y \in T : Doublings <= y
  <2>1. T \in SUBSET Nat /\ T # {}
    BY <1>1, <1>2
  <2>2. Doublings = Min(T)
    BY DEF Doublings
  <2> HIDE DEF T
  <2> QED
    BY <2>1, <2>2, LeastElement, MinIs
<1>4. ASSUME NEW k \in Nat
      PROVE  Interval[k] >= Longest <=> k >= Doublings
  <2>1. CASE k >= Doublings
    BY <1>1, <1>3, <2>1, IntervalGrows, IntervalType
  <2>2. CASE k < Doublings
    BY <1>1, <1>3, <2>2, IntervalType
  <2> QED
    BY <2>1, <2>2, <1>3
<1> QED
  BY <1>1, <1>3, <1>4

(* What the loop returns: the interval of the attempt, cut at the longest  *)
(* wait, and no further attempt after three with the longest.              *)
LEMMA BackoffValue ==
  ASSUME NEW tried \in Nat
  PROVE  /\ Backoff(tried) \in Nat \/ Backoff(tried) = GiveUp
         /\ Backoff(tried) = GiveUp <=> tried >= PerInterval * (Doublings + 1)
         /\ Backoff(tried) # GiveUp =>
              Backoff(tried) = Min({Interval[tried \div PerInterval], Longest})
<1> DEFINE steps == {c \in 0..tried : c % PerInterval = 0}
           last  == {c \in steps : Interval[c \div PerInterval] >= MaxWait}
           d     == Doublings
<1>1. d \in Nat /\ Longest \in Nat \ {0} /\ tried \div 3 \in Nat
  BY DoublingsReach
<1>2. Max(steps) = 3 * (tried \div 3)
  <2>1. 3 * (tried \div 3) \in steps /\ \A c \in steps : 3 * (tried \div 3) >= c
    BY DEF PerInterval
  <2>2. steps \in SUBSET Nat
    OBVIOUS
  <2> HIDE DEF steps
  <2> QED
    BY <2>1, <2>2, MaxIs
<1>3. last = {c \in steps : c >= 3 * d}
  BY DoublingsReach DEF PerInterval
<1>4. Interval[tried \div 3] \in Nat /\ Interval[tried \div 3] > 0
  BY <1>1, IntervalType
<1>5. CASE tried < 3 * d
  <2>1. last = {}
    BY <1>1, <1>3, <1>5
  <2>2. Backoff(tried) = Interval[tried \div 3]
    BY <1>1, <1>2, <2>1 DEF Backoff, PerInterval
  <2>3. Interval[tried \div 3] < Longest
    <3>1. ~ (Interval[tried \div 3] >= MaxWait)
      BY <1>1, <1>5, DoublingsReach
    <3> QED
      BY <1>4, <3>1, DownloadAssumption DEF Longest, DownloadAssumption
  <2>4. Min({Interval[tried \div 3], Longest}) = Interval[tried \div 3]
    BY <1>1, <1>4, <2>3 DEF Min
  <2> QED
    BY <1>1, <1>4, <1>5, <2>2, <2>4 DEF PerInterval, GiveUp
<1>6. CASE tried >= 3 * d
  <2>1. Min(last) = 3 * d
    <3> HIDE DEF d
    <3>1. 3 * d \in steps
      BY <1>1, <1>6 DEF PerInterval
    <3>2. last \in SUBSET Nat
      OBVIOUS
    <3> HIDE DEF steps, last
    <3>3. 3 * d \in last /\ \A c \in last : 3 * d <= c
      BY <1>1, <1>3, <3>1
    <3> QED
      BY <3>2, <3>3, MinIs
  <2>2. Backoff(tried) = IF tried - 3 * d >= 3 THEN GiveUp ELSE Longest
    <3>1. last # {}
      <4>1. 3 * d \in steps
        BY <1>1, <1>6 DEF PerInterval
      <4> QED
        BY <1>3, <4>1
    <3>2. Backoff(tried) = IF tried - Min(last) >= PerInterval THEN GiveUp ELSE Longest
      BY <3>1 DEF Backoff, Longest
    <3> HIDE DEF last, d
    <3> QED
      BY <2>1, <3>2 DEF PerInterval
  <2>3. Interval[tried \div 3] >= Longest
    BY <1>1, <1>4, <1>6, DoublingsReach, IntervalType DEF Longest
  <2>4. Min({Interval[tried \div 3], Longest}) = Longest
    BY <1>1, <1>4, <2>3 DEF Min
  <2> QED
    BY <1>1, <1>6, <2>2, <2>4 DEF PerInterval, GiveUp
<1> QED
  BY <1>1, <1>5, <1>6

-----------------------------------------------------------------------------
(* The buffer put on the partition gives contents again; where the buffer  *)
(* continues the image, it is the image up to the end of the buffer.       *)
LEMMA OverwrittenContents ==
  ASSUME TypeOK, BufferFits
  PROVE  Overwritten \in Contents
BY DownloadAssumption DEF TypeOK, BufferFits, Overwritten, Covers, Contents, Positions,
   DownloadAssumption

LEMMA OverwrittenImage ==
  ASSUME DownloadInv, pc \in {"frame", "close"}, NEW p \in Positions, p <= pos + Len(buf)
  PROVE  /\ Overwritten[p] = p
         /\ Clean => cache[p] = p
BY DownloadAssumption
DEF DownloadInv, EveryByteOnce, TypeOK, BufferFits, Overwritten, Clean, Covers, Contents,
    Positions, DownloadAssumption

LEMMA InitInv == Init => DownloadInv
BY DownloadAssumption
DEF Init, DownloadInv, EveryByteOnce, TypeOK, BufferFits, StreamContinues, EndIsReached,
    StoredSurvives, Contents, Positions, DownloadAssumption

(* The check, the request and the reader *)
LEMMA ReaderInv ==
  ASSUME DownloadInv,
         \/ GetScheduledUpdate \/ FetchUpdate \/ Read \/ ReadEOF \/ ConnectionBreaks
         \/ Resume \/ ResumeGivesUp
  PROVE  DownloadInv'
<1> USE DownloadAssumption
    DEF DownloadInv, EveryByteOnce, TypeOK, BufferFits, StreamContinues, EndIsReached,
        StoredSurvives, Positions, DownloadAssumption, network, writer, partition
<1>1. CASE GetScheduledUpdate
  BY <1>1 DEF GetScheduledUpdate
<1>2. CASE FetchUpdate
  <2>1. CASE pc' = "read" /\ waits' = <<>> /\ buf' = <<>>
    <3>1. waits' \in Seq(Nat)
      BY <2>1
    <3>2. buf' \in Seq(Positions) /\ Len(buf') = 0
      BY <2>1
    <3> QED
      BY <1>2, <2>1, <3>1, <3>2 DEF FetchUpdate
  <2>2. CASE pc' = "failed" /\ UNCHANGED <<offset, stream, waits, writer>>
    BY <1>2, <2>2 DEF FetchUpdate
  <2> QED
    BY <1>2, <2>1, <2>2 DEF FetchUpdate
<1>3. CASE Read
  BY <1>3 DEF Read
<1>4. CASE ReadEOF
  BY <1>4 DEF ReadEOF
<1>5. CASE ConnectionBreaks
  BY <1>5 DEF ConnectionBreaks
<1>6. CASE Resume
  <2>1. Backoff(Len(waits)) \in Nat
    <3>1. Len(waits) \in Nat /\ Backoff(Len(waits)) # GiveUp
      BY <1>6 DEF Resume
    <3> QED
      BY <3>1, BackoffValue
  <2>2. waits' \in Seq(Nat)
    BY <1>6, <2>1 DEF Resume
  <2> QED
    BY <1>6, <2>2 DEF Resume, StreamFrom
<1>7. CASE ResumeGivesUp
  BY <1>7 DEF ResumeGivesUp
<1> QED
  BY <1>1, <1>2, <1>3, <1>4, <1>5, <1>6, <1>7

(* The writers *)
LEMMA WriterInv ==
  ASSUME DownloadInv, WriteFrame \/ Sync \/ Abort
  PROVE  DownloadInv'
<1> USE DownloadAssumption
    DEF DownloadInv, EveryByteOnce, TypeOK, BufferFits, StreamContinues, EndIsReached,
        StoredSurvives, Positions, DownloadAssumption, network, writer, partition, Fault
<1>1. CASE WriteFrame
  <2>1. cache' \in Contents
    BY <1>1, OverwrittenContents DEF WriteFrame
  <2>2. CASE pc' # "abort"
    <3>1. \A p \in 1..pos' : cache'[p] = p
      BY <1>1, <2>2, OverwrittenImage DEF WriteFrame
    <3>2. pc = "close" => cache' = Image
      BY <1>1, <2>1, <2>2, <3>1 DEF WriteFrame, Contents, Image
    <3>3. buf' = <<>>
      BY <1>1, <2>2 DEF WriteFrame
    <3>4. pos' = offset /\ pos' \in 0..Size
      BY <1>1, <2>2 DEF WriteFrame
    <3>5. TypeOK' /\ BufferFits'
      BY <1>1, <2>1, <2>2, <3>3, <3>4 DEF WriteFrame
    <3>6. StreamContinues' /\ EndIsReached' /\ StoredSurvives'
      BY <1>1, <2>2, <3>2 DEF WriteFrame
    <3> QED
      BY <1>1, <2>2, <3>1, <3>3, <3>4, <3>5, <3>6 DEF WriteFrame
  <2>3. CASE pc' = "abort"
    BY <1>1, <2>1, <2>3 DEF WriteFrame
  <2> QED
    BY <2>2, <2>3
<1>2. CASE Sync
  BY <1>2 DEF Sync, SyncAll
<1>3. CASE Abort
  BY <1>3, OverwrittenContents DEF Abort
<1> QED
  BY <1>1, <1>2, <1>3

(* New attempts, crashes and losses of power *)
LEMMA OutsideInv ==
  ASSUME DownloadInv, Again \/ Crash \/ PowerLoss
  PROVE  DownloadInv'
<1> USE DownloadAssumption
    DEF DownloadInv, EveryByteOnce, TypeOK, BufferFits, StreamContinues, EndIsReached,
        StoredSurvives, Positions, DownloadAssumption, network, writer, partition, Fault
<1>1. CASE Again
  BY <1>1 DEF Again
<1>2. CASE Crash
  BY <1>2 DEF Crash
<1>3. CASE PowerLoss
  <2>1. pc' = "stored" => cache' = Image
    BY <1>3 DEF PowerLoss, Contents, Image
  <2> QED
    BY <1>3, <2>1 DEF PowerLoss
<1> QED
  BY <1>1, <1>2, <1>3

(* DownloadInv is inductive: the connection continues where the resumer    *)
(* is, the buffer where the device is, and the device is closed only at    *)
(* the end of the image.                                                   *)
THEOREM InductiveInvariant == Spec => []DownloadInv
<1>1. DownloadInv /\ [Next]_vars => DownloadInv'
  <2> SUFFICES ASSUME DownloadInv, [Next]_vars
               PROVE  DownloadInv'
    OBVIOUS
  <2>1. CASE UNCHANGED vars
    BY <2>1 DEF vars, network, writer, partition, DownloadInv, EveryByteOnce, TypeOK,
                BufferFits, StreamContinues, EndIsReached, StoredSurvives
  <2> QED
    BY <2>1, ReaderInv, WriterInv, OutsideInv DEF Next, Agent
<1> QED
  BY <1>1, InitInv, PTL DEF Spec

(* Wherever connections break and whatever range the server answers with,  *)
(* UpdateResumer.Read returns every byte of the image once and in order,   *)
(* and the writers keep the order: for every size of image and frame.      *)
THEOREM BytesInOrder == Spec => []EveryByteOnce
<1>1. DownloadInv => EveryByteOnce
  BY DEF DownloadInv
<1> QED
  BY <1>1, InductiveInvariant, PTL

(* A download that has been stored is the image, whatever was on the       *)
(* partition before, and a loss of power does not change it: frames that   *)
(* were not written again because they looked clean included.              *)
THEOREM StoredImage == Spec => []StoredSurvives
<1>1. DownloadInv => StoredSurvives
  BY DEF DownloadInv
<1> QED
  BY <1>1, InductiveInvariant, PTL

-----------------------------------------------------------------------------

(* The waits so far are those of the documented schedule *)
OnSchedule ==
  /\ Len(waits) <= PerInterval * (Doublings + 1)
  /\ \A i \in DOMAIN waits : waits[i] = Min({Interval[(i - 1) \div PerInterval], Longest})

LEMMA OnScheduleNext ==
  ASSUME DownloadInv, OnSchedule, [Next]_vars
  PROVE  OnSchedule'
<1>1. waits \in Seq(Nat) /\ Doublings \in Nat
  BY DoublingsReach DEF DownloadInv, EveryByteOnce, TypeOK
<1>2. CASE UNCHANGED waits
  BY <1>2 DEF OnSchedule
<1>3. CASE waits' = <<>>
  BY <1>1, <1>3 DEF OnSchedule, PerInterval
<1>4. CASE Resume
  <2> DEFINE n == Len(waits)
  <2>1. n \in Nat /\ Backoff(n) # GiveUp /\ waits' = Append(waits, Backoff(n))
    BY <1>1, <1>4 DEF Resume
  <2>2. /\ Backoff(n) \in Nat /\ n < PerInterval * (Doublings + 1)
        /\ Backoff(n) = Min({Interval[n \div PerInterval], Longest})
    BY <1>1, <2>1, BackoffValue DEF PerInterval
  <2>3. ASSUME NEW i \in DOMAIN waits'
        PROVE  waits'[i] = Min({Interval[(i - 1) \div PerInterval], Longest})
    <3>1. CASE i = n + 1
      BY <1>1, <2>1, <2>2, <3>1
    <3>2. CASE i # n + 1
      <4>1. i \in DOMAIN waits /\ waits'[i] = waits[i]
        BY <1>1, <2>1, <2>2, <3>2
      <4> QED
        BY <4>1 DEF OnSchedule
    <3> QED
      BY <3>1, <3>2
  <2>4. Len(waits') <= PerInterval * (Doublings + 1)
    <3>1. Len(waits') = n + 1
      BY <1>1, <2>1, <2>2
    <3> HIDE DEF n
    <3> QED
      BY <1>1, <2>1, <2>2, <3>1 DEF PerInterval
  <2> QED
    BY <2>3, <2>4 DEF OnSchedule
<1> QED
  BY <1>2, <1>3, <1>4
  DEF Next, Agent, vars, network, GetScheduledUpdate, FetchUpdate, Read, ReadEOF, ConnectionBreaks,
      ResumeGivesUp, WriteFrame, Sync, Abort, Again, Crash, PowerLoss

(* Three attempts with each interval, doubled up to the longest, and no    *)
(* attempt left out or added: the waits of one download are those that     *)
(* the comment of GetExponentialBackoffTime promises, for every longest    *)
(* wait, powers of two or not.                                             *)
THEOREM BackoffSchedule == Spec => []BackoffAsCommented
<1>1. Init => OnSchedule
  <2> SUFFICES ASSUME Init
               PROVE  OnSchedule
    OBVIOUS
  <2>1. waits = <<>>
    BY DEF Init
  <2> QED
    BY <2>1, DoublingsReach DEF OnSchedule, PerInterval
<1>2. OnSchedule /\ DownloadInv => BackoffAsCommented
  <2> SUFFICES ASSUME OnSchedule, DownloadInv
               PROVE  BackoffAsCommented
    OBVIOUS
  <2>1. Len(waits) \in Nat /\ Doublings \in Nat
    BY DoublingsReach DEF DownloadInv, EveryByteOnce, TypeOK
  <2>2. Len(waits) < PerInterval * (Doublings + 1) => Backoff(Len(waits)) # GiveUp
    <3> DEFINE n == Len(waits)
    <3>1. n \in Nat
      BY <2>1
    <3> HIDE DEF n
    <3>2. Backoff(n) = GiveUp <=> n >= PerInterval * (Doublings + 1)
      BY <3>1, BackoffValue
    <3>3. n < PerInterval * (Doublings + 1) => ~ (n >= PerInterval * (Doublings + 1))
      BY <2>1, <3>1 DEF PerInterval
    <3> QED
      BY <3>2, <3>3 DEF n
  <2> QED
    BY <2>2 DEF OnSchedule, BackoffAsCommented
<1> QED
  BY <1>1, <1>2, OnScheduleNext, InductiveInvariant, PTL DEF Spec

=============================================================================
