----------------------------- MODULE ArchivePromise -----------------------------
(***************************************************************************)
(* What session/multi_workspace_store.h promises of every mutation: it is  *)
(* atomic.  A request is answered "ok" exactly when the whole of it is in  *)
(* the file, otherwise the file is what it was; a crash finds it in one of *)
(* the two states.                                                         *)
(***************************************************************************)
EXTENDS ArchiveOps

VARIABLES
    archive,        \* the content of the file, or NoFile
    request,        \* the operation asked for
    answer          \* "none", "working", "ok" or "failed"

vars == <<archive, request, answer>>

Init ==
  /\ archive = NoFile
  /\ answer = "none"

(* Whatever is asked for. *)
Ask ==
  /\ answer = "none"
  /\ answer' = "working"
  /\ UNCHANGED archive

Commit ==
  /\ answer = "working"
  /\ archive = NoFile => request.kind = "create"
  /\ archive' = Applied(request, archive)
  /\ answer' = "ok"
  /\ UNCHANGED request

Refuse ==
  /\ answer = "working"
  /\ answer' = "failed"
  /\ UNCHANGED <<archive, request>>

Answered ==
  /\ answer \in {"ok", "failed"}
  /\ answer' = "none"
  /\ UNCHANGED <<archive, request>>

Crash ==
  /\ answer' = "none"
  /\ UNCHANGED <<archive, request>>

Next == Ask \/ Commit \/ Refuse \/ Answered \/ Crash

Spec == Init /\ [][Next]_vars
================================================================================
