---------------------------- MODULE PayloadStorer ----------------------------
(***************************************************************************)
(* What the artifact reader may rely on when it hands the files of a       *)
(* payload to a payload handler (handlers.UpdateStorer, embedded in        *)
(* PayloadUpdatePerformer, installer/installer.go): calls one at a time,   *)
(* each with an answer of its own.  Whatever processes, pipes and          *)
(* goroutines a handler needs for it, this is all that may be seen.        *)
(***************************************************************************)
EXTENDS Integers

CONSTANT Files  \* the number of files in the payload

VARIABLES
  call,    \* the call that is being executed, or what came last
  file,    \* files handed over
  kept,    \* files the handler has in full
  result   \* what the calls have returned so far

vars == <<call, file, kept, result>>

Init == call = "new" /\ file = 0 /\ kept = {} /\ result = "ok"

PrepareStoreUpdate ==
  /\ call = "new"
  /\ \/ call' = "ready" /\ UNCHANGED result
     \/ call' = "done" /\ result' = "error"
  /\ UNCHANGED <<file, kept>>

StoreUpdate ==
  /\ call = "ready" /\ result = "ok" /\ file < Files
  /\ call' = "store" /\ file' = file + 1
  /\ UNCHANGED <<kept, result>>

(* Nothing is copied behind the back of a successful call *)
Copied ==
  /\ call = "store" \/ (call \in {"ready", "finish"} /\ result = "error")
  /\ kept' = kept \cup {file}
  /\ UNCHANGED <<call, file, result>>

StoreReturns ==
  /\ call = "store" /\ call' = "ready"
  /\ \/ file \in kept /\ UNCHANGED result
     \/ result' = "error"
  /\ UNCHANGED <<file, kept>>

(* The reader's own failure: a checksum, a broken download *)
ReaderFails ==
  /\ call = "ready" /\ result' = "error"
  /\ UNCHANGED <<call, file, kept>>

FinishStoreUpdate ==
  /\ call = "ready" /\ (file = Files \/ result = "error")
  /\ call' = "finish"
  /\ UNCHANGED <<file, kept, result>>

FinishReturns ==
  /\ call = "finish" /\ call' = "done"
  /\ \/ kept = 1..Files /\ UNCHANGED result
     \/ result' = "error"
  /\ UNCHANGED <<file, kept>>

Crash ==
  /\ call # "cleaned" /\ call' = "done" /\ result' = "error"
  /\ UNCHANGED <<file, kept>>

Cleanup ==
  /\ call = "done" /\ call' = "cleaned"
  /\ UNCHANGED <<file, kept, result>>

Next ==
  \/ PrepareStoreUpdate \/ StoreUpdate \/ Copied \/ StoreReturns \/ ReaderFails
  \/ FinishStoreUpdate \/ FinishReturns \/ Crash \/ Cleanup

Spec == Init /\ [][Next]_vars

=============================================================================
