---------------------------- MODULE BatchOfDatasets ----------------------------
(***************************************************************************)
(* What the user of the Batch Processing panel is promised: the checked     *)
(* datasets are processed one after the other, the archive's copy of a      *)
(* dataset is rewritten when and only when the dataset is counted as        *)
(* processed, and no other dataset is touched.  BatchEngine says how.       *)
(***************************************************************************)
EXTENDS Naturals, Sequences

CONSTANTS
    Datasets,
    Contents,       \* what the archive may hold of a dataset
    Results         \* what a recipe may make of one

VARIABLES
    phase,          \* "Idle", "Running", "Done" or "Exited"
    left,           \* the datasets still to be processed
    processed,      \* the number the user is told
    archive

vars == <<phase, left, processed, archive>>

Init ==
  /\ phase = "Idle"
  /\ left = << >>
  /\ processed = 0
  /\ archive \in [Datasets -> Contents]

(* Between two batches tabs are saved. *)
SaveTab(d) ==
  /\ phase = "Idle"
  /\ \E c \in Contents : archive' = [archive EXCEPT ![d] = c]
  /\ UNCHANGED <<phase, left, processed>>

Begin ==
  /\ phase = "Idle"
  /\ phase' = "Running"
  /\ left' # << >>
  /\ processed' = 0
  /\ UNCHANGED archive

Advance ==
  /\ phase = "Running"
  /\ left' = Tail(left)
  /\ phase' = IF left' = << >> THEN "Done" ELSE "Running"

Process ==
  /\ Advance
  /\ \E c \in Results : archive' = [archive EXCEPT ![Head(left)] = c]
  /\ processed' = processed + 1

Skip ==
  /\ Advance
  /\ UNCHANGED <<processed, archive>>

Acknowledge ==
  /\ phase = "Done"
  /\ phase' = "Idle"
  /\ UNCHANGED <<left, processed, archive>>

(* The window is closed: what is processed stays, the rest is as it was.     *)
Exit ==
  /\ phase' = "Exited"
  /\ UNCHANGED archive

Next == Begin \/ Process \/ Skip \/ Acknowledge \/ Exit \/ \E d \in Datasets : SaveTab(d)

Spec == Init /\ [][Next]_vars
================================================================================
