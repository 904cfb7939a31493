----------------------------- MODULE BatchPromise -----------------------------
(***************************************************************************)
(* What the rest of the program relies on when it starts a batch            *)
(* computation of a panel: from the start on the old result is gone, one    *)
(* batch runs at a time, what it yields was computed from what it was given *)
(* and from nothing else, and it ends for as long as its tab is the one     *)
(* shown.  A panel that is reset forgets batch and result.  PanelBatch says *)
(* how; RecomputeChain builds on it.                                        *)
(***************************************************************************)
EXTENDS FiniteSets, Naturals

CONSTANTS
    Inputs,         \* what a batch may be given: a file under settings
    Enough          \* results that have to be there for one of the whole

VARIABLES
    phase,          \* "idle", "asked" (to start) or "running"
    given,          \* the inputs of the batch that runs
    result,         \* the inputs the result was made of; none: no result
    shown           \* the tab is the active one

vars == <<phase, given, result, shown>>

Init ==
  /\ phase = "idle"
  /\ given = {}
  /\ result \in SUBSET Inputs
  /\ shown = TRUE

Ask ==
  /\ phase = "idle"
  /\ phase' = "asked"
  /\ given' = {}
  /\ result' = {}
  /\ shown' = shown

Submit(in) ==
  /\ shown
  /\ phase = "asked"
  /\ phase' = IF in = {} THEN "idle" ELSE "running"
  /\ given' = in
  /\ UNCHANGED result /\ shown' = shown

End(r) ==
  /\ shown
  /\ phase = "running"
  /\ r \subseteq given /\ (r = {} \/ Cardinality(r) >= Enough)
  /\ phase' = "idle"
  /\ result' = r
  /\ given' = {} /\ shown' = shown

Abandon ==
  /\ phase' = "idle"
  /\ result' = {}
  /\ given' = {} /\ shown' = shown

SwitchTab ==
  /\ shown' = ~shown
  /\ UNCHANGED <<phase, given, result>>

Submits == \E in \in SUBSET Inputs : Submit(in)
Ends == \E r \in SUBSET Inputs : End(r)

Next == Ask \/ Submits \/ Ends \/ Abandon \/ SwitchTab

Spec == Init /\ [][Next]_vars

(* A batch is submitted and ends; only a tab left in the background waits.   *)
Fairness == WF_vars(Submits) /\ WF_vars(Ends)

FairSpec == Spec /\ Fairness
================================================================================
