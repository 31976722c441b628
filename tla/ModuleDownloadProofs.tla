------------------------ MODULE ModuleDownloadProofs ------------------------
(***************************************************************************)
(* The download into an update module: its types, SuccessMeansStored and   *)
(* the refinement of PayloadStorer, proved for every number of files and   *)
(* faults.                                                                 *)
(***************************************************************************)
EXTENDS ModuleDownload, TLAPS

(* The calls during which the event loop runs *)
Active == {"between", "offering", "storing", "offeringEnd", "ending"}

(* Before PrepareStoreUpdate nothing has happened, and after the last call *)
(* nothing is left to happen.                                              *)
Outside ==
  /\ client \in {"start", "initialized"} =>
       /\ result = "ok" /\ file = 0 /\ loop = "over" /\ kind = "unknown" /\ current = 0
       /\ ~finish /\ ~reaped /\ next = Idle /\ data = NoStream /\ orphans = 0
       /\ proc = "none" /\ stored = [f \in 1..Files |-> {}]
  /\ client \in {"done", "cleaned"} => loop = "over" /\ next = Idle /\ data = NoStream

(* Where the loop is in terms of the calls: it is over with the last one,  *)
(* and it has nothing to say while that one waits for the module's exit.   *)
LoopFollows ==
  client \in Active =>
    /\ loop # "over" /\ (finish <=> client = "ending")
    /\ loop = "tell" => client # "ending"
    /\ loop = "quit" <=> (client = "ending" /\ reaped)
    /\ proc # "none" /\ (reaped => proc \in Dead)
    /\ current = IF client = "offering" THEN file - 1 ELSE file

(* Which goroutines may be under way.  An error the caller has heard leaves *)
(* some behind only if it was the module's exit.                           *)
OneStream ==
  client \in Active =>
    /\ client # "ending" /\ data # NoStream => next = Idle
    /\ client # "ending" => orphans = 0
    /\ client = "offering" => next = Idle /\ data = NoStream
    /\ client \in {"between", "offeringEnd"} /\ (next # Idle \/ data # NoStream)
         => reaped /\ result = "error"
    /\ client = "storing" /\ loop = "tell" /\ (next # Idle \/ data # NoStream)
         => reaped /\ told = "error"
    /\ client = "ending" => next # "sendErr"
    /\ client = "ending" /\ data # NoStream => reaped /\ result = "error"
    /\ kind = "mender" => next = Idle /\ reaped

(* All files go where the first one went *)
OneSink ==
  client \in Active =>
    /\ kind = "unknown" => data = NoStream /\ \A f \in 1..Files : stored[f] = {}
    /\ kind = "module" => /\ data.to \in {Idle, "module"}
                          /\ \A f \in 1..Files : stored[f] \subseteq {"module"}
    /\ kind = "mender" => /\ data.to \in {Idle, "files"}
                          /\ \A f \in 1..Files : stored[f] \subseteq {"files"}

(* A call that succeeded has stored its file *)
ReportedIsStored ==
  client \in Active =>
    /\ client \in {"offering", "storing"} => result = "ok"
    /\ client \in {"offering", "storing"} \/ data # NoStream => file > 0
    /\ client # "ending" /\ next # Idle => file > 0
    /\ result = "ok" => \A f \in 1..file : f < file \/ client \notin {"offering", "storing"}
                                             => stored[f] # {}
    /\ result = "ok" /\ client \in {"offeringEnd", "ending"} => file = Files
    /\ data.at = "sendOk" => stored[current] # {}
    /\ client = "storing" /\ loop = "tell" /\ told = "ok" => stored[file] # {}
    /\ kind = "mender" /\ result = "ok" => tree = "files" \/ (loop = "tell" /\ told = "error")

DownloadInv ==
  /\ TypeOK /\ Outside /\ LoopFollows /\ OneStream /\ OneSink /\ ReportedIsStored
  /\ SuccessMeansStored

-----------------------------------------------------------------------------
(* The invariant *)

(* The initial state *)
LEMMA InitInv ==
  ASSUME ModuleDownloadAssumption, Init
  PROVE  DownloadInv
<1> USE DEF Init, Idle, NoStream, Live, Dead, Active
<1>1. stored \in [1..Files -> SUBSET {"module", "files"}] /\ faults \in 0..MaxFaults
  BY DEF ModuleDownloadAssumption
<1>2. finish \in BOOLEAN /\ reaped \in BOOLEAN
  OBVIOUS
<1>3. TypeOK
  BY <1>1, <1>2, ModuleDownloadAssumption DEF TypeOK, ModuleDownloadAssumption
<1> QED
  BY <1>3 DEF DownloadInv, Outside, LoopFollows, OneStream, OneSink, ReportedIsStored,
     SuccessMeansStored

(* The caller.  A status it receives is that of its own call. *)
LEMMA CallerInv ==
  ASSUME ModuleDownloadAssumption, DownloadInv, Caller \/ ReaderFails
  PROVE  DownloadInv'
<1> USE ModuleDownloadAssumption
    DEF ModuleDownloadAssumption, DownloadInv, TypeOK, Outside, LoopFollows, OneStream, OneSink,
      ReportedIsStored, SuccessMeansStored, Idle, NoStream, Live, Dead, Active
<1>1. CASE Initialize
  BY <1>1 DEF Initialize, NoFault, Fault, lvars, gvars, mvars
<1>2. CASE PrepareStoreUpdate
  BY <1>2 DEF PrepareStoreUpdate, NoFault, Fault, gvars
<1>3. CASE StoreUpdate
  BY <1>3 DEF StoreUpdate, lvars, gvars, mvars
<1>4. CASE FinishStoreUpdate
  BY <1>4 DEF FinishStoreUpdate, lvars, gvars, mvars
<1>5. CASE Receive
  BY <1>5 DEF Receive, Worse, gvars, mvars
<1>6. CASE ReceiveLast
  BY <1>6 DEF ReceiveLast, Worse, mvars
<1>7. CASE Cleanup
  BY <1>7 DEF Cleanup, NoFault, Fault, lvars, gvars, mvars
<1>8. CASE ReaderFails
  BY <1>8 DEF ReaderFails, Fault, lvars, gvars, mvars
<1> QED
  BY <1>1, <1>2, <1>3, <1>4, <1>5, <1>6, <1>7, <1>8 DEF Caller

(* A crash leaves nothing but the files of the module. *)
LEMMA CrashInv ==
  ASSUME ModuleDownloadAssumption, DownloadInv, Crash
  PROVE  DownloadInv'
<1> USE DEF Idle, NoStream, Live, Dead, Active
<1>1. TypeOK'
  <2>1. faults' \in 0..MaxFaults /\ file' \in 0..Files /\ current' \in 0..file'
    BY DEF ModuleDownloadAssumption, DownloadInv, Crash, Fault, TypeOK
  <2>2. finish' \in BOOLEAN /\ reaped' \in BOOLEAN
    BY DEF Crash
  <2> QED
    BY <2>1, <2>2 DEF DownloadInv, Crash, TypeOK
<1> QED
  BY <1>1 DEF Crash, DownloadInv, Outside, LoopFollows, OneStream, OneSink, ReportedIsStored,
     SuccessMeansStored

(* The event loop *)
LEMMA LoopInv ==
  ASSUME ModuleDownloadAssumption, DownloadInv, Loop
  PROVE  DownloadInv'
<1> USE ModuleDownloadAssumption
    DEF ModuleDownloadAssumption, DownloadInv, TypeOK, Outside, LoopFollows, OneStream, OneSink,
      ReportedIsStored, SuccessMeansStored, Idle, NoStream, Live, Dead, Active, Select, NoFault, Fault, mvars
<1>1. CASE HandleNextArtifactStream
  BY <1>1 DEF HandleNextArtifactStream, Handed, Publish, StreamTo, gvars
<1>2. CASE HandleFinishChannel
  BY <1>2 DEF HandleFinishChannel, Publish
<1>3. CASE HandleCmdErr
  BY <1>3 DEF HandleCmdErr, MenderDownloads, StreamTo
<1>4. CASE HandleStreamNextChannel
  BY <1>4 DEF HandleStreamNextChannel, StreamTo
<1>5. CASE HandleStreamChannel
  BY <1>5 DEF HandleStreamChannel
<1> QED
  BY <1>1, <1>2, <1>3, <1>4, <1>5 DEF Loop

(* A copy that is complete is one of the file that was handed over last. *)
LEMMA CopiedFile ==
  ASSUME ModuleDownloadAssumption, DownloadInv, DataCopied
  PROVE  /\ client \in Active /\ current \in 1..Files /\ current = file
         /\ data \in [to : {"module", "files"}, at : {"opening", "copying", "sendOk", "sendErr"}]
BY DEF DownloadInv, DataCopied, TypeOK, LoopFollows, Outside, OneStream, ReportedIsStored,
       ModuleDownloadAssumption, Idle, NoStream, Live, Dead, Active

(* A copy that ends *)
LEMMA DataCopiedInv ==
  ASSUME ModuleDownloadAssumption, DownloadInv, DataCopied
  PROVE  DownloadInv'
<1> USE DEF Idle, NoStream, Live, Dead, Active, lvars, mvars
<1>1. stored' \in [1..Files -> SUBSET {"module", "files"}]
        /\ \A f \in 1..Files : stored[f] # {} => stored'[f] # {}
  BY CopiedFile DEF DataCopied, DownloadInv, TypeOK
<1>2. data'.at = "sendOk" => stored'[current'] # {}
  <2>1. CASE stored' = [stored EXCEPT ![current] = @ \cup {data.to}]
    <3>1. data.to \in stored'[current]
      BY <2>1, CopiedFile DEF DownloadInv, TypeOK
    <3> QED
      BY <3>1 DEF DataCopied
  <2>2. CASE data' = [data EXCEPT !.at = "sendErr"]
    BY <2>2, CopiedFile
  <2> QED
    BY <2>1, <2>2 DEF DataCopied
<1>3. ReportedIsStored'
  BY <1>1, <1>2, CopiedFile DEF DataCopied, DownloadInv, TypeOK, ReportedIsStored
<1> QED
  BY <1>3, ModuleDownloadAssumption
  DEF ModuleDownloadAssumption, DataCopied, NoFault, Fault, DownloadInv, TypeOK, Outside,
      LoopFollows, OneStream, OneSink, ReportedIsStored, SuccessMeansStored

(* Pipes, module and timers *)
LEMMA RestInv ==
  ASSUME ModuleDownloadAssumption, DownloadInv,
         NextOpened \/ NextCopied \/ DataOpened \/ Finalizer \/ ModuleReads \/ ModuleExits
           \/ DelayKiller
  PROVE  DownloadInv'
<1> USE DEF DownloadInv, TypeOK, Outside, LoopFollows, OneStream, OneSink, ReportedIsStored,
         SuccessMeansStored,
         Idle, NoStream, Live, Dead, Active, lvars
<1>1. CASE NextOpened
  BY <1>1 DEF NextOpened
<1>2. CASE NextCopied
  BY <1>2 DEF NextCopied
<1>3. CASE DataOpened
  BY <1>3 DEF DataOpened
<1>4. CASE Finalizer
  BY <1>4 DEF Finalizer, mvars
<1>5. CASE ModuleReads
  BY <1>5 DEF ModuleReads, gvars
<1>6. CASE ModuleExits
  BY <1>6 DEF ModuleExits, gvars
<1>7. CASE DelayKiller
  BY <1>7 DEF DelayKiller, Armed, gvars
<1> QED
  BY <1>1, <1>2, <1>3, <1>4, <1>5, <1>6, <1>7

(* Every step *)
LEMMA NextInv ==
  ASSUME ModuleDownloadAssumption, DownloadInv, [Next]_vars
  PROVE  DownloadInv'
<1>1. CASE UNCHANGED vars
  BY <1>1 DEF vars, lvars, gvars, mvars, DownloadInv, TypeOK, Outside, LoopFollows, OneStream,
     OneSink, ReportedIsStored, SuccessMeansStored
<1> QED
  BY <1>1, CallerInv, CrashInv, LoopInv, DataCopiedInv, RestInv DEF Next, Streams

(* DownloadInv is inductive.  It is needed because neither the types nor   *)
(* SuccessMeansStored say which goroutines an error leaves behind.         *)
THEOREM InductiveInvariant == Spec => []DownloadInv
<1>1. Init => DownloadInv
  BY InitInv, ModuleDownloadAssumption
<1>2. DownloadInv /\ [Next]_vars => DownloadInv'
  BY NextInv, ModuleDownloadAssumption
<1> QED
  BY <1>1, <1>2, PTL DEF Spec

(* The types of the download (TypeOK), among them that a stream of         *)
(* stream-next is overwritten at most once and only when the module is     *)
(* dead, hold for every number of files.                                   *)
THEOREM TypeCorrect == Spec => []TypeOK
<1>1. DownloadInv => TypeOK
  BY DEF DownloadInv
<1> QED
  BY <1>1, InductiveInvariant, PTL

(* When all calls of a download have succeeded, every file has been copied *)
(* in full and all to the same place, whenever the module exits.           *)
THEOREM SuccessIsStored == Spec => []SuccessMeansStored
<1>1. DownloadInv => SuccessMeansStored
  BY DEF DownloadInv
<1> QED
  BY <1>1, InductiveInvariant, PTL

-----------------------------------------------------------------------------
(* The refinement *)

(* The files the contract calls kept *)
Kept == {f \in 1..Files : stored[f] # {}}

(* What the caller does is a step of the contract: a call that returns     *)
(* without an error has its file, or all files, among the kept ones.       *)
LEMMA CallerRefines ==
  ASSUME ModuleDownloadAssumption, DownloadInv, Caller \/ ReaderFails \/ Crash
  PROVE  [Contract!Next]_(Contract!vars)
<1> USE DEF Contract!Next, Contract!vars, CallSeen
<1>1. CASE Initialize
  BY <1>1 DEF Initialize, Contract!PrepareStoreUpdate
<1>2. CASE PrepareStoreUpdate
  BY <1>2 DEF PrepareStoreUpdate, Contract!PrepareStoreUpdate
<1>3. CASE StoreUpdate
  BY <1>3 DEF StoreUpdate, Contract!StoreUpdate
<1>4. CASE ReaderFails
  BY <1>4 DEF ReaderFails, Contract!ReaderFails
<1>5. CASE FinishStoreUpdate
  BY <1>5 DEF FinishStoreUpdate, Contract!FinishStoreUpdate
<1>6. CASE Receive
  <2>1. client = "storing"
    BY <1>6 DEF Receive, DownloadInv, LoopFollows, Active
  <2>2. result' = "error" \/ (result' = result /\ file \in Kept)
    BY <1>6, <2>1 DEF Receive, Worse, Kept, DownloadInv, TypeOK, ReportedIsStored, Active,
      ModuleDownloadAssumption
  <2> QED
    BY <1>6, <2>1, <2>2 DEF Receive, Kept, Contract!StoreReturns
<1>7. CASE ReceiveLast
  <2>1. result' = "error" \/ (result' = result /\ Kept = 1..Files)
    BY <1>7 DEF ReceiveLast, Worse, Kept, DownloadInv, TypeOK, ReportedIsStored, Active,
      ModuleDownloadAssumption
  <2> QED
    BY <1>7, <2>1 DEF ReceiveLast, Kept, Contract!FinishReturns
<1>8. CASE Cleanup
  BY <1>8 DEF Cleanup, Contract!Cleanup
<1>9. CASE Crash
  BY <1>9 DEF Crash, Contract!Crash
<1> QED
  BY <1>1, <1>2, <1>3, <1>4, <1>5, <1>6, <1>7, <1>8, <1>9 DEF Caller

(* A copy that is completed is one of the file of the running call, or of  *)
(* one that has already failed.                                            *)
LEMMA CopyRefines ==
  ASSUME ModuleDownloadAssumption, DownloadInv, DataCopied
  PROVE  [Contract!Next]_(Contract!vars)
<1>1. CASE UNCHANGED stored
  BY <1>1 DEF DataCopied, Contract!vars, CallSeen
<1>2. CASE stored' = [stored EXCEPT ![current] = @ \cup {data.to}]
  <2>1. Kept' = Kept \cup {file}
    <3>1. data.to \in stored'[file]
      BY <1>2, CopiedFile DEF DownloadInv, TypeOK
    <3>2. \A f \in 1..Files : f # file => stored'[f] = stored[f]
      BY <1>2, CopiedFile DEF DownloadInv, TypeOK
    <3> QED
      BY <3>1, <3>2, CopiedFile DEF Kept
  <2>2. CallSeen = "store" \/ (CallSeen \in {"ready", "finish"} /\ result = "error")
    BY CopiedFile DEF DataCopied, DownloadInv, OneStream, CallSeen, Active, NoStream, Idle
  <2>3. UNCHANGED <<CallSeen, file, result>>
    BY DEF DataCopied, CallSeen
  <2> QED
    BY <2>1, <2>2, <2>3 DEF Kept, Contract!Next, Contract!Copied
<1> QED
  BY <1>1, <1>2 DEF DataCopied

(* Everything else is hidden from the caller. *)
LEMMA HiddenRefines ==
  ASSUME Loop \/ NextOpened \/ NextCopied \/ DataOpened \/ Finalizer \/ ModuleReads
           \/ ModuleExits \/ DelayKiller
  PROVE  UNCHANGED Contract!vars
BY DEF Loop, HandleNextArtifactStream, Handed, HandleFinishChannel, HandleCmdErr,
       HandleStreamNextChannel, HandleStreamChannel, NextOpened, NextCopied, DataOpened,
       Finalizer, ModuleReads, ModuleExits, DelayKiller, Contract!vars, CallSeen

(* Event loop, pipes, goroutines and process implement the contract of a   *)
(* payload handler: one call at a time, each with its own answer, and a    *)
(* file reported as stored is complete and not touched afterwards.         *)
THEOREM Implements == Spec => KeepsContract
<1>1. Init => Contract!Init
  BY ModuleDownloadAssumption DEF Init, Contract!Init, CallSeen, ModuleDownloadAssumption
<1>2. DownloadInv /\ [Next]_vars => [Contract!Next]_(Contract!vars)
  <2> SUFFICES ASSUME DownloadInv, [Next]_vars
               PROVE  [Contract!Next]_(Contract!vars)
    OBVIOUS
  <2>1. CASE UNCHANGED vars
    BY <2>1 DEF vars, Contract!vars, CallSeen
  <2> QED
    BY <2>1, CallerRefines, CopyRefines, HiddenRefines, ModuleDownloadAssumption
    DEF Next, Streams
<1> QED
  BY <1>1, <1>2, InductiveInvariant, PTL DEF Spec, KeepsContract, Contract!Spec

=============================================================================
