------------------------------ MODULE ArchiveFile ------------------------------
(***************************************************************************)
(* How the store carries out an operation: multiWorkspaceCreate writes a   *)
(* temporary file beside the target and renames it over; every other       *)
(* operation is an atomicMutate, which copies the archive to the temporary *)
(* file, changes the copy, reopens it once and renames it over the archive.*)
(* One action is one file operation, so that a crash can fall between any  *)
(* two.                                                                    *)
(***************************************************************************)
EXTENDS ArchiveOps

CONSTANT Faults     \* what may go wrong, a subset of FaultKinds

FaultKinds ==
  { "write",        \* a copy, a change or a reopening of the temporary file fails
    "rename",       \* the rename over the archive is refused
    "replace",      \* ... and removing the archive is not (the Windows path)
    "list" }        \* the list of experiments cannot be read

ASSUME FaultsAssumption == Faults \subseteq FaultKinds

VARIABLES
    file,           \* the archive at `path`
    tmp,            \* the file at `path`.tmp
    step,           \* the next file operation of the running call
    op,             \* the running call, or the last one
    ok              \* what the last call returned

fileVars == <<file, tmp, step, op, ok>>

Steps == {"idle", "create", "copy", "mutate", "heal", "rename", "again", "done"}

FileTypeOK ==
  /\ file \in Archives \cup {NoFile}
  /\ tmp \in Archives \cup {NoFile, Stale}
  /\ step \in Steps
  /\ op \in Operations
  /\ ok \in BOOLEAN

FileInit ==
  /\ file = NoFile
  /\ tmp = NoFile
  /\ step = "idle"
  /\ op = [kind |-> "create"]
  /\ ok = FALSE

-----------------------------------------------------------------------------
(* The caller asks for operation o. *)
Call(o) ==
  /\ step = "idle"
  /\ op' = o
  /\ step' = IF o.kind = "create" THEN "create" ELSE "copy"
  /\ UNCHANGED <<file, tmp, ok>>

Return(result) ==
  /\ step' = "done"
  /\ ok' = result
  /\ UNCHANGED op

Goto(s) ==
  /\ step' = s
  /\ UNCHANGED <<op, ok>>

(* The call fails; it leaves no temporary file behind. *)
Fail(from) ==
  /\ step = from
  /\ tmp' = NoFile
  /\ Return(FALSE)
  /\ UNCHANGED file

WriteMayFail == "write" \in Faults

CreateWrites ==
  /\ step = "create"
  /\ tmp' = Applied(op, file)
  /\ Goto("rename")
  /\ UNCHANGED file

CreateFails == WriteMayFail /\ Fail("create")

(* A stale temporary file is removed, or truncated, before the copy. *)
Copy ==
  /\ step = "copy"
  /\ file # NoFile
  /\ tmp' = file
  /\ Goto("mutate")
  /\ UNCHANGED file

CopyFails == (WriteMayFail \/ file = NoFile) /\ Fail("copy")

Mutate ==
  /\ step = "mutate"
  /\ ~Throws(op, tmp)
  /\ tmp' = Applied(op, tmp)
  /\ Goto("heal")
  /\ UNCHANGED file

\* Mutant of MutateThrows: the error is not noticed
MutateErrorIgnored ==
  /\ step = "mutate"
  /\ WriteMayFail \/ Throws(op, tmp)
  /\ Goto("heal")
  /\ UNCHANGED <<file, tmp>>

MutateThrows ==
  /\ step = "mutate"
  /\ WriteMayFail \/ Throws(op, tmp)
  /\ Fail("mutate")

(* One read-only open and close of the changed copy. *)
Heal ==
  /\ step = "heal"
  /\ Goto("rename")
  /\ UNCHANGED <<file, tmp>>

HealFails == WriteMayFail /\ Fail("heal")

RenameOver(from) ==
  /\ step = from
  /\ file' = tmp
  /\ tmp' = NoFile
  /\ Return(TRUE)

Rename == RenameOver("rename")

CreateRenameFails == op.kind = "create" /\ "rename" \in Faults /\ Fail("rename")

(* A refused rename is tried again once the archive has been removed; the    *)
(* removal's own failure is ignored.                                         *)
RemoveArchive ==
  /\ step = "rename"
  /\ op.kind # "create"
  /\ "rename" \in Faults
  /\ file' \in {file} \cup (IF "replace" \in Faults THEN {NoFile} ELSE {})
  /\ Goto("again")
  /\ UNCHANGED tmp

RenameAgain == RenameOver("again")

RenameAgainFails == Fail("again")

FileStep ==
  \/ CreateWrites \/ CreateFails
  \/ Copy \/ CopyFails
  \/ Mutate \/ MutateThrows
  \/ Heal \/ HealFails
  \/ Rename \/ CreateRenameFails
  \/ RemoveArchive \/ RenameAgain \/ RenameAgainFails

(* The caller takes the result. *)
Taken ==
  /\ step = "done"
  /\ step' = "idle"
  /\ UNCHANGED <<file, tmp, op, ok>>

(* The process dies; the temporary file is left as it was then. *)
FileCrash ==
  /\ step' = "idle"
  /\ tmp' = IF tmp = NoFile /\ step \notin {"create", "copy"} THEN NoFile ELSE Stale
  /\ UNCHANGED <<file, op, ok>>

-----------------------------------------------------------------------------
(* What the caller has heard by now. *)
Answer ==
  IF step = "idle" THEN "none"
  ELSE IF step # "done" THEN "working"
  ELSE IF ok THEN "ok" ELSE "failed"

Promise == INSTANCE ArchivePromise WITH archive <- file, request <- op, answer <- Answer

(* Every store operation is atomic and its result is honest.                 *)
StoreIsAtomic == Promise!Spec
================================================================================
