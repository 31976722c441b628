---------------------------- MODULE ModuleDownload ----------------------------
(***************************************************************************)
(* How the payload of an artifact reaches an update module                 *)
(* (installer/modules.go): the caller (the artifact reader, which calls    *)
(* StoreUpdate for every file and FinishStoreUpdate at the end), the event *)
(* loop downloadProcessLoop, the module's process, the goroutines that     *)
(* write the named pipe "stream-next" and the pipe or file of a payload    *)
(* file, and the timer that kills a module that takes too long.  All       *)
(* channels are unbuffered: a send is a step of both sides.                *)
(*                                                                         *)
(* The module reads as the documentation of its API demands (one full read *)
(* of stream-next, one stream, and so on), or hangs, or exits, whenever it *)
(* likes.  File contents are left out: a copy is complete or it fails.     *)
(***************************************************************************)
EXTENDS Integers

CONSTANTS
  Files,      \* the number of files in the payload
  MaxFaults   \* bound: failing system calls, broken downloads, crashes

ASSUME ModuleDownloadAssumption == Files \in Nat /\ MaxFaults \in Nat

VARIABLES
  client,   \* the caller: where it is, or which channel it waits for
  result,   \* what the calls of this download have returned so far
  file,     \* files handed over
  loop,     \* the event loop: in its select, in a send to d.status, or over
  told,     \* the status it sends
  kind,     \* downloaderType
  current,  \* currentStream
  finish,   \* finishFlag
  reaped,   \* d.proc = nil
  next,     \* the goroutine that writes stream-next (streamNext)
  data,     \* the goroutine that copies the file (stream)
  orphans,  \* goroutines whose stream object has been overwritten
  proc,     \* the module's process
  line,     \* what has been written to stream-next and not been read yet
  tree,     \* the directory: absent, with "streams", or with "files"
  stored,   \* where each file has been copied in full
  faults

lvars == <<loop, told, kind, current, finish, reaped>>
gvars == <<next, data, orphans>>
mvars == <<proc, line>>
vars  == <<client, result, file, lvars, gvars, mvars, tree, stored, faults>>

Live == {"idle", "openNext", "readNext", "named", "openStream", "reading", "atEnd"}
Dead == {"exit0", "exit1"}
Idle == "none"
NoStream == [to |-> Idle, at |-> Idle]

Fault == faults < MaxFaults /\ faults' = faults + 1
NoFault == UNCHANGED faults

(* The killer is armed from PrepareStoreUpdate to FinishStoreUpdate's end *)
Armed == client \in {"between", "offering", "storing", "offeringEnd", "ending"}

-----------------------------------------------------------------------------
(* The caller *)

(* Initialize: buildStreamsTree, which may stop half way *)
Initialize ==
  /\ client = "start"
  /\ \/ client' = "initialized" /\ tree' = "streams" /\ NoFault /\ UNCHANGED result
     \/ client' = "done" /\ result' = "error" /\ tree' \in {"absent", "streams"} /\ Fault
  /\ UNCHANGED <<file, lvars, gvars, mvars, stored>>

(* Start the module, its killer and the event loop *)
PrepareStoreUpdate ==
  /\ client = "initialized"
  /\ \/ client' = "between" /\ proc' = "idle" /\ loop' = "select" /\ NoFault /\ UNCHANGED result
     \/ client' = "done" /\ result' = "error" /\ Fault /\ UNCHANGED <<proc, loop>>
  /\ UNCHANGED <<file, told, kind, current, finish, reaped, gvars, line, tree, stored>>

(* The reader: StoreUpdate for every file, until one fails *)
StoreUpdate ==
  /\ client = "between" /\ result = "ok" /\ file < Files
  /\ client' = "offering" /\ file' = file + 1
  /\ UNCHANGED <<result, lvars, gvars, mvars, tree, stored, faults>>

(* ... or until a checksum is wrong or the download breaks between files *)
ReaderFails ==
  /\ client = "between" /\ result = "ok" /\ Fault
  /\ result' = "error"
  /\ UNCHANGED <<client, file, lvars, gvars, mvars, tree, stored>>

(* FinishStoreUpdate is called in any case *)
FinishStoreUpdate ==
  /\ client = "between" /\ (file = Files \/ result = "error")
  /\ client' = "offeringEnd"
  /\ UNCHANGED <<result, file, lvars, gvars, mvars, tree, stored, faults>>

Worse(r, s) == IF "error" \in {r, s} THEN "error" ELSE "ok"

(* downloadStream and finishDownloadProcess receive from d.status *)
Receive ==
  /\ loop = "tell" /\ client \in {"storing", "ending"}
  /\ client' = IF client = "storing" THEN "between" ELSE "done"
  /\ result' = Worse(result, told) /\ loop' = "select"
  /\ UNCHANGED <<file, told, kind, current, finish, reaped, gvars, mvars, tree, stored, faults>>

(* detachedDownloadProcess: the loop has returned, which also cancels what *)
(* is left of the streams                                                  *)
ReceiveLast ==
  /\ loop = "quit" /\ client = "ending"
  /\ client' = "done" /\ result' = Worse(result, told) /\ loop' = "over"
  /\ next' = Idle /\ data' = NoStream
  /\ UNCHANGED <<file, told, kind, current, finish, reaped, orphans, mvars, tree, stored, faults>>

(* Cleanup: the module's own, then the tree; skipped when the tree is gone *)
Cleanup ==
  /\ client = "done"
  /\ \/ tree = "absent" /\ client' = "cleaned" /\ UNCHANGED tree /\ NoFault
     \/ tree # "absent" /\ client' = "cleaned" /\ tree' = "absent" /\ NoFault
     \/ tree # "absent" /\ client' = "cleaned" /\ Fault /\ UNCHANGED tree
  /\ UNCHANGED <<result, file, lvars, gvars, mvars, stored>>

(* The agent crashes, the module with it; the restarted agent fails the    *)
(* update and cleans up, again if it crashes before the tree is gone.      *)
Crash ==
  /\ client \notin {"start", "cleaned"} /\ Fault
  /\ client' = "done" /\ result' = "error"
  /\ loop' = "over" /\ told' = "ok" /\ kind' = "unknown" /\ current' = 0
  /\ finish' = FALSE /\ reaped' = TRUE
  /\ next' = Idle /\ data' = NoStream /\ orphans' = 0
  /\ proc' = "exit1" /\ line' = Idle
  /\ UNCHANGED <<file, tree, stored>>

-----------------------------------------------------------------------------
(* The event loop.  A handler ends with Select(err). *)

(* The end of the iteration: an error goes to d.status, unless the loop is *)
(* done because the module has exited after the finish flag.               *)
Select(err) ==
  /\ told' = err
  /\ loop' = IF finish' /\ reaped' THEN "quit" ELSE IF err = "error" THEN "tell" ELSE "select"

(* publishNameInStreamNext and start: replaces the stream object, if any *)
Publish ==
  /\ next' = "opening"
  /\ orphans' = IF next = Idle THEN orphans ELSE orphans + 1

StreamTo(sink) == [to |-> sink, at |-> IF sink = "module" THEN "opening" ELSE "copying"]

(* Mutant: the call returns once the loop has the file, so that the next   *)
(* one comes while the module still reads this one                         *)
HandedAndForgotten == client' = "between"

(* downloadStream: the call that has handed over its file waits for its    *)
(* status, so the next file comes only when this one is done               *)
Handed == client' = "storing"

HandleNextArtifactStream ==
  /\ loop = "select" /\ client = "offering"
  /\ Handed /\ current' = file
  /\ UNCHANGED <<kind, finish, reaped>>
  /\ \/ /\ kind = "mender" /\ data' = StreamTo("files")
        /\ Select("ok") /\ NoFault /\ UNCHANGED <<next, orphans>>
     \/ /\ kind # "mender" /\ Publish
        /\ Select("ok") /\ NoFault /\ UNCHANGED data
     \/ /\ kind # "mender" /\ Fault                       \* Mkfifo fails
        /\ Select("error") /\ UNCHANGED gvars
  /\ UNCHANGED <<result, file, mvars, tree, stored>>

(* An empty entry tells the module that there are no more files *)
HandleFinishChannel ==
  /\ loop = "select" /\ client = "offeringEnd"
  /\ client' = "ending" /\ finish' = TRUE
  /\ UNCHANGED <<kind, current, reaped, data>>
  /\ IF kind = "mender" THEN UNCHANGED <<next, orphans>> ELSE Publish
  /\ Select("ok")
  /\ UNCHANGED <<result, file, mvars, tree, stored, faults>>

(* Mutant: the file that has been announced already is forgotten *)
MenderDownloadsNextOnly ==
  /\ kind' = "mender" /\ next' = Idle
  /\ tree' = "files" /\ Select("ok") /\ NoFault /\ UNCHANGED data

(* The module exited without reading: store the files for it, beginning    *)
(* with one that has been announced already (initializeMenderDownload)     *)
MenderDownloads ==
  /\ kind' = "mender" /\ next' = Idle
  /\ \/ /\ tree' = "files" /\ Select("ok") /\ NoFault
        /\ data' = IF current # 0 THEN StreamTo("files") ELSE data
     \/ Fault /\ Select("error") /\ UNCHANGED <<tree, data>>

HandleCmdErr ==
  /\ loop = "select" /\ proc \in Dead /\ ~reaped
  /\ reaped' = TRUE /\ UNCHANGED <<current, finish, orphans>>
  /\ \/ /\ proc = "exit1" \/ (proc = "exit0" /\ ~finish /\ kind = "module")
        /\ Select("error") /\ NoFault /\ UNCHANGED <<kind, next, data, tree>>
     \/ /\ proc = "exit0" /\ finish
        /\ Select("ok") /\ NoFault /\ UNCHANGED <<kind, next, data, tree>>
     \/ /\ proc = "exit0" /\ ~finish /\ kind = "unknown"
        /\ MenderDownloads
  /\ UNCHANGED <<client, result, file, mvars, stored>>

(* Mutant: the loop does not note that the module reads the streams *)
HandleStreamNextForgets ==
  /\ loop = "select" /\ next \in {"sendOk", "sendErr"}
  /\ next' = Idle /\ UNCHANGED <<kind, current, finish, reaped, orphans>>
  /\ \/ next = "sendErr" /\ Select("error") /\ UNCHANGED data
     \/ /\ next = "sendOk" /\ Select("ok")
        /\ data' = IF finish THEN data ELSE StreamTo("module")
  /\ UNCHANGED <<client, result, file, mvars, tree, stored, faults>>

(* Only now it is known that the module reads the streams *)
HandleStreamNextChannel ==
  /\ loop = "select" /\ next \in {"sendOk", "sendErr"}
  /\ next' = Idle /\ UNCHANGED <<current, finish, reaped, orphans>>
  /\ \/ next = "sendErr" /\ Select("error") /\ UNCHANGED <<kind, data>>
     \/ /\ next = "sendOk" /\ Select("ok")
        /\ kind' = "module"
        /\ data' = IF finish THEN data ELSE StreamTo("module")
  /\ UNCHANGED <<client, result, file, mvars, tree, stored, faults>>

(* A file that has been copied is reported at once, inside the handler *)
HandleStreamChannel ==
  /\ loop = "select" /\ data.at \in {"sendOk", "sendErr"}
  /\ data' = NoStream /\ loop' = "tell"
  /\ told' = IF data.at = "sendOk" THEN "ok" ELSE "error"
  /\ UNCHANGED <<kind, current, finish, reaped, next, orphans>>
  /\ UNCHANGED <<client, result, file, mvars, tree, stored, faults>>

-----------------------------------------------------------------------------
(* The goroutines of stream.start and the named pipes.  The open of a pipe *)
(* waits for the other side.                                               *)

NextOpened ==
  /\ next = "opening" /\ proc = "openNext"
  /\ next' = "copying" /\ proc' = "readNext"
  /\ UNCHANGED <<client, result, file, lvars, data, orphans, line, tree, stored, faults>>

(* Without a reader the write fails, but for that of the empty entry *)
NextCopied ==
  /\ next = "copying"
  /\ \/ proc = "readNext" /\ next' = "sendOk" /\ line' = IF finish THEN "end" ELSE "name"
     \/ proc # "readNext" /\ next' = (IF finish THEN "sendOk" ELSE "sendErr") /\ UNCHANGED line
  /\ UNCHANGED <<client, result, file, lvars, data, orphans, proc, tree, stored, faults>>

DataOpened ==
  /\ data.at = "opening" /\ proc = "openStream"
  /\ data' = [data EXCEPT !.at = "copying"] /\ proc' = "reading"
  /\ UNCHANGED <<client, result, file, lvars, next, orphans, line, tree, stored, faults>>

(* Mutant: a copy that is cut short counts *)
DataCopiedUnchecked ==
  /\ data.at = "copying"
  /\ \/ /\ data.to = "module" => proc = "reading"
        /\ data' = [data EXCEPT !.at = "sendOk"]
        /\ stored' = [stored EXCEPT ![current] = @ \cup {data.to}] /\ NoFault
     \/ /\ data' = [data EXCEPT !.at = "sendOk"] /\ Fault /\ UNCHANGED stored
     \/ /\ data.to = "module" /\ proc # "reading"
        /\ data' = [data EXCEPT !.at = "sendErr"] /\ NoFault /\ UNCHANGED stored
  /\ UNCHANGED <<client, result, file, lvars, next, orphans, mvars, tree>>

(* io.Copy: fails with the download, the disk, or a reader that has gone   *)
(* (unless what is left fits into the pipe)                                *)
DataCopied ==
  /\ data.at = "copying"
  /\ \/ /\ data' = [data EXCEPT !.at = "sendOk"]
        /\ stored' = [stored EXCEPT ![current] = @ \cup {data.to}] /\ NoFault
     \/ /\ data' = [data EXCEPT !.at = "sendErr"] /\ Fault /\ UNCHANGED stored
     \/ /\ data.to = "module" /\ proc # "reading"
        /\ data' = [data EXCEPT !.at = "sendErr"] /\ NoFault /\ UNCHANGED stored
  /\ UNCHANGED <<client, result, file, lvars, next, orphans, mvars, tree>>

(* The garbage collector finds an overwritten stream: cancel frees it *)
Finalizer ==
  /\ orphans > 0 /\ orphans' = orphans - 1
  /\ UNCHANGED <<client, result, file, lvars, next, data, mvars, tree, stored, faults>>

-----------------------------------------------------------------------------
(* The module's process *)

ModuleReads ==
  /\ \/ proc = "idle" /\ proc' = "openNext" /\ UNCHANGED line
     \/ proc = "readNext" /\ line = "name" /\ proc' = "named" /\ line' = Idle
     \/ proc = "readNext" /\ line = "end" /\ proc' = "atEnd" /\ line' = Idle
     \/ proc = "named" /\ proc' = "openStream" /\ UNCHANGED line
     \/ /\ proc = "reading" /\ data.at # "copying"
        /\ proc' = "idle" /\ UNCHANGED line
  /\ UNCHANGED <<client, result, file, lvars, gvars, tree, stored, faults>>

ModuleExits ==
  /\ proc \in Live /\ proc' \in Dead /\ line' = Idle
  /\ UNCHANGED <<client, result, file, lvars, gvars, tree, stored, faults>>

(* newDelayKiller: SIGTERM, then SIGKILL *)
DelayKiller ==
  /\ Armed /\ proc \in Live /\ proc' = "exit1" /\ line' = Idle
  /\ UNCHANGED <<client, result, file, lvars, gvars, tree, stored, faults>>

-----------------------------------------------------------------------------

Init ==
  /\ client = "start" /\ result = "ok" /\ file = 0
  /\ loop = "over" /\ told = "ok" /\ kind = "unknown" /\ current = 0
  /\ finish = FALSE /\ reaped = FALSE
  /\ next = Idle /\ data = NoStream /\ orphans = 0
  /\ proc = "none" /\ line = Idle /\ tree = "absent"
  /\ stored = [f \in 1..Files |-> {}] /\ faults = 0

Caller ==
  \/ Initialize \/ PrepareStoreUpdate \/ StoreUpdate \/ FinishStoreUpdate
  \/ Receive \/ ReceiveLast \/ Cleanup

Loop ==
  \/ HandleNextArtifactStream \/ HandleFinishChannel \/ HandleCmdErr
  \/ HandleStreamNextChannel \/ HandleStreamChannel

Streams == NextOpened \/ NextCopied \/ DataOpened \/ DataCopied

Next ==
  \/ Caller \/ Loop \/ Streams \/ Finalizer
  \/ ModuleReads \/ ModuleExits \/ DelayKiller
  \/ ReaderFails \/ Crash

(* The agent's goroutines run and the killer fires; nothing is assumed of  *)
(* the module.  A restarted agent cleans up.                               *)
Fairness ==
  /\ WF_vars(Caller) /\ WF_vars(Loop) /\ WF_vars(NextCopied) /\ WF_vars(DataCopied)
  /\ WF_vars(DelayKiller)

Spec == Init /\ [][Next]_vars /\ Fairness

-----------------------------------------------------------------------------
(* Types.  Only streams that no module reads any more are overwritten. *)
TypeOK ==
  /\ client \in {"start", "initialized", "between", "offering", "storing", "offeringEnd",
                 "ending", "done", "cleaned"}
  /\ result \in {"ok", "error"} /\ told \in {"ok", "error"}
  /\ file \in 0..Files /\ current \in 0..file
  /\ loop \in {"select", "tell", "quit", "over"}
  /\ kind \in {"unknown", "module", "mender"}
  /\ finish \in BOOLEAN /\ reaped \in BOOLEAN
  /\ next \in {Idle, "opening", "copying", "sendOk", "sendErr"}
  /\ \/ data = NoStream
     \/ data \in [to : {"module", "files"}, at : {"opening", "copying", "sendOk", "sendErr"}]
  /\ orphans \in 0..1 /\ (orphans > 0 => proc \in Dead)
  /\ proc \in Live \cup Dead \cup {"none"} /\ line \in {Idle, "name", "end"}
  /\ tree \in {"absent", "streams", "files"}
  /\ stored \in [1..Files -> SUBSET {"module", "files"}]
  /\ faults \in 0..MaxFaults

(* When the download of a payload succeeds, every file has been copied in  *)
(* full, all of them to the same place and none to both: to the module if  *)
(* it read a stream, otherwise into "files", whenever the module exits.    *)
SuccessMeansStored ==
  client = "done" /\ result = "ok" =>
    \E sink \in {"module", "files"} :
      /\ \A f \in 1..Files : stored[f] = {sink}
      /\ sink = "files" => tree = "files"

(* What the caller sees of the download *)
CallSeen ==
  CASE client \in {"start", "initialized"} -> "new"
    [] client = "between" -> "ready"
    [] client \in {"offering", "storing"} -> "store"
    [] client \in {"offeringEnd", "ending"} -> "finish"
    [] OTHER -> client

Contract == INSTANCE PayloadStorer
  WITH call <- CallSeen, kept <- {f \in 1..Files : stored[f] # {}}

(* Event loop, process, pipes and goroutines together do what a payload    *)
(* handler promises: a file that StoreUpdate reports as stored is copied   *)
(* in full by then and not touched afterwards, although one status channel *)
(* carries the results of files, of the module's exit and of the end: no   *)
(* call takes the result of another one for its own.                       *)
KeepsContract == Contract!Spec

(* An error that is not the answer to a call: the loop waits in the send   *)
(* to d.status, the caller for the loop.                                   *)
Unheard == loop = "tell" /\ client \in {"between", "offering", "offeringEnd"}

(* Every download comes to its end and is cleaned up, whatever the module  *)
(* does, unless an error goes unheard.                                     *)
CallsReturn == client # "start" ~> (client = "cleaned" \/ Unheard)

(* "Cleanup executes unconditionally at the end of all the other states,   *)
(* regardless of all outcomes" (update-modules-v3-file-api.md).  Not when  *)
(* an error goes unheard: the caller waits for ever.                       *)
CleanupUnconditional == client # "start" ~> client = "cleaned"

=============================================================================
