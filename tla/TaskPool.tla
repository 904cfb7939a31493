------------------------------- MODULE TaskPool -------------------------------
(***************************************************************************)
(* What the panels and the main program rely on when they hand a           *)
(* computation to the pool: it is carried out once, `waitAll` returns when  *)
(* everything handed in so far is done, and a pool that is destroyed has    *)
(* carried out everything first (a future obtained from it is never left    *)
(* without a result).  ThreadPool says how.                                 *)
(***************************************************************************)
CONSTANT Tasks

VARIABLES
    submitted,      \* tasks handed in
    finished,       \* tasks carried out
    owner           \* what the owner of the pool is doing

vars == <<submitted, finished, owner>>

Init ==
  /\ submitted = {}
  /\ finished = {}
  /\ owner = "free"

Submit(t) ==
  /\ owner = "free"
  /\ t \notin submitted
  /\ submitted' = submitted \cup {t}
  /\ UNCHANGED <<finished, owner>>

Finish(t) ==
  /\ t \in submitted \ finished
  /\ finished' = finished \cup {t}
  /\ UNCHANGED <<submitted, owner>>

Call(what) ==
  /\ owner = "free"
  /\ owner' = what
  /\ UNCHANGED <<submitted, finished>>

Return(what, next) ==
  /\ owner = what
  /\ finished = submitted
  /\ owner' = next
  /\ UNCHANGED <<submitted, finished>>

Next ==
  \/ \E t \in Tasks : Submit(t) \/ Finish(t)
  \/ Call("waitAll") \/ Return("waitAll", "free")
  \/ Call("destroy") \/ Return("destroy", "destroyed")

Spec == Init /\ [][Next]_vars

(* Every task is carried out, and the owner gets its thread back.            *)
Fairness ==
  /\ \A t \in Tasks : WF_vars(Finish(t))
  /\ WF_vars(Return("waitAll", "free"))
  /\ WF_vars(Return("destroy", "destroyed"))

FairSpec == Spec /\ Fairness
================================================================================
