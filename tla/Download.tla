------------------------------- MODULE Download -------------------------------
(***************************************************************************)
(* An image on its way from the server to the inactive partition: the      *)
(* check for an update and the download (client/client_update.go), its     *)
(* resumption when the connection breaks (client/update_resumer.go), and   *)
(* the writers the partition is opened with (installer/block_device.go):   *)
(* frames are collected, a frame that is on the partition already is not   *)
(* written again, and every write is synced.                               *)
(*                                                                         *)
(* The image is the sequence 1, 2, ..., Size of its chunks.  Decompression *)
(* is left out.  The kernel holds writes in its cache until they are       *)
(* synced; a loss of power may lose any of them.                           *)
(***************************************************************************)
EXTENDS Integers, Sequences, FiniteSets, FiniteSetsExt

CONSTANTS
  Size,        \* chunks of the image
  Frame,       \* chunks of a frame
  MaxWait,     \* longest wait before a resumption, in the smallest unit
  MaxDownloads,\* bound: downloads, each a new request for the whole image
  MaxFaults    \* bound: failing writes and syncs, crashes, losses of power

ASSUME DownloadAssumption ==
  /\ Size \in Nat \ {0} /\ Frame \in Nat \ {0} /\ MaxWait \in Nat
  /\ MaxDownloads \in Nat /\ MaxFaults \in Nat

VARIABLES
  pc,        \* what the agent does
  endpoint,  \* the request for the next deployment: v2, v1, v1 with GET
  offset,    \* chunks that the resumer has returned
  stream,    \* the next chunk the connection brings, 0 if it is broken
  waits,     \* the waits before resumptions; their number is retryAttempts
  buf,       \* chunks of the frame that is being collected
  pos,       \* position in the partition
  cache,     \* the partition as the agent reads it
  disk,      \* the partition as a loss of power may leave it
  downloads, faults

network   == <<endpoint, offset, stream, waits>>
writer    == <<buf, pos>>
partition == <<cache, disk>>
vars      == <<pc, network, writer, partition, downloads, faults>>

Positions == 1..Size
Junk == 0
Contents == [Positions -> Positions \cup {Junk}]
Image == [p \in Positions |-> p]

Fault == faults < MaxFaults /\ faults' = faults + 1

-----------------------------------------------------------------------------
(* GetExponentialBackoffTime *)

PerInterval == 3
GiveUp == -1

(* nextInterval, in the smallest unit, after k rounds of the loop *)
Interval[k \in Nat] == IF k = 0 THEN 1 ELSE 2 * Interval[k - 1]

(* Mutant: one attempt too many at the longest interval *)
BackoffOffByOne(tried) ==
  LET steps == {c \in 0..tried : c % PerInterval = 0}
      last  == {c \in steps : Interval[c \div PerInterval] >= MaxWait}
  IN IF last = {} THEN Interval[Max(steps) \div PerInterval]
     ELSE IF tried - Min(last) > PerInterval THEN GiveUp
     ELSE IF MaxWait < 1 THEN 1 ELSE MaxWait

(* The loop over c; the first interval that reaches the longest ends it *)
Backoff(tried) ==
  LET steps == {c \in 0..tried : c % PerInterval = 0}
      last  == {c \in steps : Interval[c \div PerInterval] >= MaxWait}
  IN IF last = {} THEN Interval[Max(steps) \div PerInterval]
     ELSE IF tried - Min(last) >= PerInterval THEN GiveUp
     ELSE IF MaxWait < 1 THEN 1 ELSE MaxWait

-----------------------------------------------------------------------------
(* The server *)

(* findFirstWorkingEndpoint: only "not found" leads to the next request *)
GetScheduledUpdate ==
  /\ pc = "check"
  /\ \/ pc' = "fetch" /\ UNCHANGED endpoint
     \/ pc' = "failed" /\ UNCHANGED endpoint
     \/ IF endpoint < 3 THEN endpoint' = endpoint + 1 /\ UNCHANGED pc
                        ELSE pc' = "failed" /\ UNCHANGED endpoint
  /\ UNCHANGED <<offset, stream, waits, writer, partition, downloads, faults>>

(* FetchUpdate and blockdevice.Open: a new resumer, a new chain of writers *)
FetchUpdate ==
  /\ pc = "fetch"
  /\ \/ /\ pc' = "read" /\ offset' = 0 /\ stream' = 1 /\ waits' = <<>>
        /\ buf' = <<>> /\ pos' = 0
     \/ pc' = "failed" /\ UNCHANGED <<offset, stream, waits, writer>>
  /\ UNCHANGED <<endpoint, partition, downloads, faults>>

-----------------------------------------------------------------------------
(* UpdateResumer.Read *)

Read ==
  /\ pc = "read" /\ stream \in Positions
  /\ offset' = offset + 1 /\ buf' = Append(buf, stream) /\ stream' = stream + 1
  /\ pc' = IF Len(buf) + 1 = Frame THEN "frame" ELSE "read"
  /\ UNCHANGED <<endpoint, waits, pos, partition, downloads, faults>>

ReadEOF ==
  /\ pc = "read" /\ stream > Size /\ offset >= Size
  /\ pc' = "close"
  /\ UNCHANGED <<network, writer, partition, downloads, faults>>

(* The connection breaks, or ends early.  Nothing is resumed before the    *)
(* first byte.                                                             *)
ConnectionBreaks ==
  /\ pc = "read" /\ stream # 0
  /\ stream' = 0
  /\ pc' = IF offset = 0 THEN "abort" ELSE "resume"
  /\ UNCHANGED <<endpoint, offset, waits, writer, partition, downloads, faults>>

(* Mutant: an answer that begins earlier is not skipped to the offset *)
StreamFromStart(start) == start + 1

(* getStreamFromPartialContent: what is known already is discarded *)
StreamFrom(start) == offset + 1

(* Mutant: resumptions are not counted *)
ResumeUncounted ==
  /\ pc = "resume"
  /\ UNCHANGED waits
  /\ \/ pc' = "read" /\ \E start \in 0..offset : stream' = StreamFrom(start)
     \/ UNCHANGED <<pc, stream>>
  /\ UNCHANGED <<endpoint, offset, writer, partition, downloads, faults>>

(* A request for the range from the offset.  It may fail, be answered with *)
(* something else or from a later offset, or break while it catches up.    *)
Resume ==
  /\ pc = "resume" /\ Backoff(Len(waits)) # GiveUp
  /\ waits' = Append(waits, Backoff(Len(waits)))
  /\ \/ pc' = "read" /\ \E start \in 0..offset : stream' = StreamFrom(start)
     \/ UNCHANGED <<pc, stream>>
  /\ UNCHANGED <<endpoint, offset, writer, partition, downloads, faults>>

ResumeGivesUp ==
  /\ pc = "resume" /\ Backoff(Len(waits)) = GiveUp
  /\ pc' = "abort"
  /\ UNCHANGED <<network, writer, partition, downloads, faults>>

-----------------------------------------------------------------------------
(* The writers *)

Covers(p) == p > pos /\ p <= pos + Len(buf)

(* A frame of the buffer put on the partition *)
Overwritten == [p \in Positions |-> IF Covers(p) THEN buf[p - pos] ELSE cache[p]]

(* Mutant: only the frame's first chunk is compared *)
CleanAtFirst == buf = <<>> \/ buf[1] = cache[pos + 1]

(* OptimizedBlockDeviceWriter: read the frame and compare *)
Clean == \A p \in Positions : Covers(p) => cache[p] = buf[p - pos]

(* A full frame, or the rest of the image when the device is closed.  The  *)
(* position moves on, whether the frame was written or skipped.            *)
WriteFrame ==
  /\ pc \in {"frame", "close"}
  /\ \/ /\ cache' = IF Clean THEN cache ELSE Overwritten
        /\ pos' = pos + Len(buf) /\ buf' = <<>>
        /\ pc' = IF pc = "close" THEN "closeSync" ELSE IF Clean THEN "read" ELSE "sync"
        /\ UNCHANGED faults
     \/ Fault /\ pc' = "abort" /\ UNCHANGED <<cache, writer>>
  /\ UNCHANGED <<network, disk, downloads>>

(* Mutant: the device is closed without a sync *)
SyncOnlyFrames == disk' = IF pc = "sync" THEN cache ELSE disk

(* Sync: all the device has in the cache, whoever wrote it *)
SyncAll == disk' = cache

(* FlushingWriter: after every write (a frame is never smaller than the    *)
(* flush interval) and before the close                                    *)
Sync ==
  /\ pc \in {"sync", "closeSync"}
  /\ \/ /\ SyncAll /\ UNCHANGED faults
        /\ pc' = IF pc = "sync" THEN "read" ELSE "stored"
     \/ Fault /\ pc' = (IF pc = "sync" THEN "abort" ELSE "failed") /\ UNCHANGED disk
  /\ UNCHANGED <<network, writer, cache, downloads>>

(* After an error the device is closed, which still writes the buffer *)
Abort ==
  /\ pc = "abort" /\ pc' = "failed"
  /\ \/ cache' = cache
     \/ cache' = Overwritten
  /\ disk' \in {disk, cache'}
  /\ UNCHANGED <<network, writer, downloads, faults>>

-----------------------------------------------------------------------------

(* The next attempt of the deployment, or the next deployment *)
Again ==
  /\ pc = "failed" /\ downloads < MaxDownloads /\ downloads' = downloads + 1
  /\ pc' \in {"check", "fetch"} /\ endpoint' = 1
  /\ UNCHANGED <<offset, stream, waits, writer, partition, faults>>

Crash ==
  /\ pc \notin {"stored", "failed"} /\ Fault
  /\ pc' = "failed"
  /\ UNCHANGED <<network, writer, partition, downloads>>

(* What has not been synced may be lost, at any time *)
PowerLoss ==
  /\ Fault
  /\ cache' \in {f \in Contents : \A p \in Positions : f[p] \in {cache[p], disk[p]}}
  /\ disk' = cache'
  /\ pc' = IF pc = "stored" THEN pc ELSE "failed"
  /\ UNCHANGED <<network, writer, downloads>>

-----------------------------------------------------------------------------

(* The partition holds parts of the same image, or something else *)
Init ==
  /\ pc = "check" /\ endpoint = 1 /\ offset = 0 /\ stream = 0 /\ waits = <<>>
  /\ buf = <<>> /\ pos = 0
  /\ cache \in {f \in Contents : \A p \in Positions : f[p] \in {p, Junk}}
  /\ disk = cache /\ downloads = 0 /\ faults = 0

Agent ==
  \/ GetScheduledUpdate \/ FetchUpdate
  \/ Read \/ ReadEOF \/ ConnectionBreaks \/ Resume \/ ResumeGivesUp
  \/ WriteFrame \/ Sync \/ Abort

Next == Agent \/ Again \/ Crash \/ PowerLoss

(* The agent goes on; the connection may break every time *)
Spec == Init /\ [][Next]_vars /\ WF_vars(Agent)

-----------------------------------------------------------------------------
(* Types *)
TypeOK ==
  /\ pc \in {"check", "fetch", "read", "resume", "frame", "sync", "close", "closeSync",
             "abort", "stored", "failed"}
  /\ endpoint \in 1..3 /\ offset \in 0..Size /\ stream \in 0..Size + 1
  /\ waits \in Seq(Nat) /\ Len(buf) <= Frame /\ pos \in 0..Size
  /\ cache \in Contents /\ disk \in Contents
  /\ downloads \in 0..MaxDownloads /\ faults \in 0..MaxFaults

(* Wherever connections break and whatever range the server answers with,  *)
(* the reader gets every byte of the image once and in order: what the     *)
(* resumer has returned is on the partition up to the position of the      *)
(* device and in the buffer from there on.  The types belong to it, as one *)
(* invariant that every step carries over.                                 *)
EveryByteOnce ==
  /\ TypeOK
  /\ pc \in {"read", "resume", "frame", "sync", "close", "closeSync"} =>
       /\ offset = pos + Len(buf)
       /\ \A i \in DOMAIN buf : buf[i] = pos + i
       /\ \A p \in 1..pos : cache[p] = p

(* Once StoreUpdate has succeeded the partition holds the image, whatever  *)
(* it held before and whatever earlier downloads left on it, and keeps it  *)
(* when the power fails.                                                   *)
StoredSurvives == pc = "stored" => cache = Image /\ disk = Image

(* The longest wait, and how often the interval is doubled to reach it *)
Longest == IF MaxWait < 1 THEN 1 ELSE MaxWait
Doublings == Min({j \in 0..Longest : Interval[j] >= Longest})

(* The comment of GetExponentialBackoffTime: "Start with one minute, and   *)
(* try three times, then double interval (maxInterval is maximum) and try  *)
(* again. Repeat until we tried three times with maxInterval": also for    *)
(* the waits of one download, whose resumptions share the count wherever   *)
(* the connection breaks.                                                  *)
BackoffAsCommented ==
  /\ Len(waits) <= PerInterval * (Doublings + 1)
  /\ \A i \in DOMAIN waits : waits[i] = Min({Interval[(i - 1) \div PerInterval], Longest})
  /\ pc = "resume" /\ Len(waits) < PerInterval * (Doublings + 1)
       => Backoff(Len(waits)) # GiveUp

(* DOWNLOAD_PROCESS_FLOW.md, "Retry Configuration": "Formula: min(base *   *)
(* 2^attempts, max)", the wait before a resumption (GetExponentialBackoff- *)
(* Time) doubles with every attempt, whatever the base is.                 *)
BackoffDoubles ==
  \E base \in 1..Longest :
    \A i \in DOMAIN waits : waits[i] = Min({base * 2^(i - 1), Longest})

(* A download ends, stored or failed, however often the connection breaks. *)
DownloadEnds == pc = "check" ~> pc \in {"stored", "failed"}

=============================================================================
