------------------------------ MODULE PanelBatch ------------------------------
(***************************************************************************)
(* panels/average_spectrum.cpp: the batch computation of the average, polled *)
(* once per frame.  snr_spectrum.cpp, the standard deviation of t100.cpp and *)
(* phase 0 of allan_variance.cpp are written the same way; they differ in    *)
(* how many spectra make a result (Enough) and in what is made of them.      *)
(*                                                                          *)
(* A frame (ui/app_loop.cpp) is: tickCalculation, which submits one task     *)
(* per checked file and then polls the futures; tickRecomputeChain; the      *)
(* configuration panels, where at most one widget is used per frame; the     *)
(* views, where a changed x unit is seen.  The workers run meanwhile.        *)
(* A tab that is not shown has no frames, and its workers go on.             *)
(*                                                                          *)
(* A spectrum is its file, the settings it was computed under and the unit   *)
(* its x axis is really in.  Converting from a unit the data is not in       *)
(* leaves Garbage.                                                          *)
(***************************************************************************)
EXTENDS Integers, FiniteSets, Functions

CONSTANTS
    Files,          \* the interferograms of the workspace
    Settings,       \* the selectors that make a spectrum what it is
    Units,          \* of the x axis
    DefaultUnit,    \* kXUnitCmInv
    Garbage,        \* the unit of an x axis converted wrongly
    NoData,
    Enough          \* 1: an average; 2: an SNR, a standard deviation

ASSUME PanelBatchAssumption ==
  /\ IsFiniteSet(Files)
  /\ DefaultUnit \in Units /\ Garbage \notin Units
  /\ Enough \in Nat \ {0}

VARIABLES
    pc,             \* where the frame is
    shown,          \* the workspace tab is the active one
    settings,       \* the selectors, now
    unit,           \* plot.xUnitSelector
    prevUnit,       \* plot.prevXUnitSelector, the latch of the view
    files,          \* sortedFiles
    checked,        \* filesSelectedForAveraging
    chain,          \* the recompute chain, of which this panel is the target
    phase,          \* calcInProgress and batchActive_
    batch,          \* captured at submission: [settings, unit]
    pending,        \* pendingFutures_: what became of each submitted file
    taken,          \* those whose future has been read, and is valid no more
    total,          \* totalSubmitted_
    completed,      \* completedCount_
    fileResults,    \* buffered spectra: the unit of each
    average,        \* the cached average: [files, settings, unit]
    member          \* the "average" of the workspace: its label, and the unit
                    \* its data are really in

selectors == <<settings, unit, prevUnit, files, checked>>
engine == <<phase, batch, pending, taken, total, completed, fileResults>>
results == <<average, member>>
vars == <<pc, shown, chain, selectors, engine, results>>

Queued == "queued"
Outcomes == {"ok", "empty", "throws"}
NoFiles == [f \in {} |-> NoData]

AnyUnit == Units \cup {Garbage}
Spectra == [files : SUBSET Files, settings : Settings, unit : AnyUnit]
Members ==
  [settings : Settings, inputs : SUBSET Files, unit : Units, dataUnit : AnyUnit]

ASSUME NoDataAssumption == NoData \notin Spectra \cup Members

TypeOK ==
  /\ pc \in {"tick", "poll", "chain", "panel", "view"}
  /\ shown \in BOOLEAN
  /\ settings \in Settings
  /\ unit \in Units /\ prevUnit \in Units
  /\ files \subseteq Files /\ checked \subseteq files
  /\ chain \in {"none", "pending", "active"}
  /\ phase \in {"idle", "asked", "running"}
  /\ batch \in [settings : Settings, unit : Units]
  /\ DOMAIN pending \subseteq Files
  /\ \A f \in DOMAIN pending : pending[f] \in {Queued} \cup Outcomes
  /\ taken \subseteq DOMAIN pending
  /\ total \in 0 .. Cardinality(Files)
  /\ completed \in 0 .. Cardinality(Files)
  /\ DOMAIN fileResults \subseteq DOMAIN pending
  /\ \A f \in DOMAIN fileResults : fileResults[f] \in AnyUnit
  /\ average \in Spectra \cup {NoData}
  /\ member \in Members \cup {NoData}

(* Opened fresh, or with an average that seedPanelsFromWorkspace found to be *)
(* up to date.                                                               *)
Init ==
  /\ pc = "tick" /\ shown = TRUE
  /\ settings \in Settings
  /\ unit = DefaultUnit /\ prevUnit = DefaultUnit
  /\ files = Files /\ checked \in SUBSET Files
  /\ chain = "none"
  /\ phase = "idle"
  /\ batch = [settings |-> settings, unit |-> unit]
  /\ pending = NoFiles /\ taken = {} /\ fileResults = NoFiles
  /\ total = 0 /\ completed = 0
  /\ \/ average = NoData /\ member = NoData
     \/ /\ Cardinality(checked) >= Enough
        /\ average = [files |-> checked, settings |-> settings, unit |-> unit]
        /\ member = [settings |-> settings, inputs |-> checked,
                     unit |-> unit, dataUnit |-> unit]

Goto(from, to) == pc = from /\ pc' = to

-----------------------------------------------------------------------------
(* convertXValue and the places that call it *)

Convert(u, from, to) == IF u = from THEN to ELSE Garbage

Converted(spectra, from, to) ==
  [f \in DOMAIN spectra |-> Convert(spectra[f], from, to)]

ConvertedAverage(from, to) ==
  IF average = NoData THEN NoData
  ELSE [average EXCEPT !.unit = Convert(@, from, to)]

(* onXUnitChanged: the average on display and the spectra already buffered   *)
(* follow the switch.                                                        *)
\* Mutant of ConvertData: the buffered spectra are left in the old unit
ConvertAverageOnly(from, to) ==
  /\ average' = ConvertedAverage(from, to)
  /\ UNCHANGED fileResults

ConvertData(from, to) ==
  /\ average' = ConvertedAverage(from, to)
  /\ fileResults' = Converted(fileResults, from, to)

-----------------------------------------------------------------------------
(* The start of a frame: tickCalculation *)

(* startCalculation: the result on display is gone before the new one comes. *)
\* Mutant of StartCalculation: the counter of the last batch is left
StartCounted ==
  /\ phase' = "asked"
  /\ average' = NoData
  /\ pending' = NoFiles /\ taken' = {} /\ fileResults' = NoFiles
  /\ total' = 0
  /\ UNCHANGED <<batch, completed>>

StartCalculation ==
  /\ phase' = "asked"
  /\ average' = NoData
  /\ pending' = NoFiles /\ taken' = {} /\ fileResults' = NoFiles
  /\ total' = 0 /\ completed' = 0
  /\ UNCHANGED batch

(* Phase 1: one task per checked file, under the selectors of this moment.   *)
Submit ==
  /\ phase = "asked" /\ shown
  /\ pc = "tick"
  /\ IF checked = {} THEN phase' = "idle" /\ pc' = "chain"
     ELSE phase' = "running" /\ pc' = "poll"
  /\ batch' = [settings |-> settings, unit |-> unit]
  /\ pending' = [f \in checked |-> Queued]
  /\ total' = Cardinality(checked)
  /\ UNCHANGED <<taken, completed, fileResults, results, selectors, shown, chain>>

(* Phase 2: the futures that are ready.  A spectrum arrives in the unit of   *)
(* its submission and is converted to the unit selected now; an empty one is *)
(* not buffered; an exception leaves both counters changed.                  *)
ReadyWith(o) == {f \in DOMAIN pending \ taken : pending[f] = o}

Ready == UNION {ReadyWith(o) : o \in Outcomes}

Buffered ==
  [f \in DOMAIN fileResults \cup ReadyWith("ok") |->
     IF f \in DOMAIN fileResults THEN fileResults[f]
     ELSE IF batch.unit = unit THEN unit
     ELSE Convert(batch.unit, batch.unit, unit)]

TotalAfterPoll == total - Cardinality(ReadyWith("throws"))

\* Mutant of CompletedAfterPoll: a failed task is never counted as completed
CompletedOk == completed + Cardinality(ReadyWith("ok"))

CompletedAfterPoll == completed + Cardinality(Ready)

(* The units of the buffered spectra of the files that are still there; the  *)
(* first of them gives the common grid, to which the others are resampled    *)
(* without looking at their unit.                                            *)
UnitOf(spectra) ==
  LET units == {spectra[f] : f \in DOMAIN spectra}
  IN  IF Cardinality(units) = 1 THEN CHOOSE u \in units : TRUE ELSE Garbage

\* Mutant of Made: the selectors are those of the moment the batch ends
MadeNow ==
  LET valid == DOMAIN Buffered \cap files
  IN  [files |-> valid, settings |-> settings, unit |-> UnitOf(Restrict(Buffered, valid))]

Made ==
  LET valid == DOMAIN Buffered \cap files
  IN  [files |-> valid, settings |-> batch.settings, unit |-> UnitOf(Restrict(Buffered, valid))]

(* wsUpsertAverage with makeAverageConfig and checkedInputPaths: the label is *)
(* that of the moment the batch ends.                                        *)
MemberOf(made) ==
  [settings |-> settings, inputs |-> checked, unit |-> unit, dataUnit |-> made.unit]

Finish ==
  /\ phase' = "idle"
  /\ fileResults' = NoFiles
  /\ IF Cardinality(Made.files) >= Enough
     THEN average' = Made /\ member' = MemberOf(Made)
     ELSE average' = NoData /\ UNCHANGED member

Poll ==
  /\ phase = "running" /\ shown
  /\ pc \in {"tick", "poll"} /\ pc' = "chain"
  /\ taken' = taken \cup Ready
  /\ total' = TotalAfterPoll
  /\ completed' = CompletedAfterPoll
  /\ IF CompletedAfterPoll >= TotalAfterPoll
     THEN Finish
     ELSE fileResults' = Buffered /\ UNCHANGED <<phase, results>>
  /\ UNCHANGED <<batch, pending, selectors, shown, chain>>

NothingToTick ==
  /\ phase = "idle" /\ shown
  /\ Goto("tick", "chain")
  /\ UNCHANGED <<shown, chain, selectors, engine, results>>

(* tickRecomputeChain, of which the average has no step before its own.      *)
TickChain ==
  /\ Goto("chain", "panel")
  /\ CASE chain = "active" -> /\ chain' = IF phase = "idle" THEN "none" ELSE "active"
                              /\ UNCHANGED <<engine, average>>
       [] chain = "pending" -> /\ chain' = "active"
                               /\ IF phase = "idle" THEN StartCalculation
                                  ELSE UNCHANGED <<engine, average>>
       [] OTHER -> UNCHANGED <<chain, engine, average>>
  /\ UNCHANGED <<shown, selectors, member>>

-----------------------------------------------------------------------------
(* The panels: at most one widget a frame *)

Widget == Goto("panel", "view") /\ UNCHANGED shown

NoWidget ==
  /\ Widget
  /\ UNCHANGED <<chain, selectors, engine, results>>

(* "Calculate average" and the Recompute button in the plot, both disabled   *)
(* by artifactRecomputeBusy.                                                 *)
PressCalculate ==
  /\ Widget
  /\ chain = "none" /\ phase = "idle"
  /\ chain' = "pending"
  /\ UNCHANGED <<selectors, engine, results>>

EditSettings(s) ==
  /\ Widget
  /\ settings' = s
  /\ UNCHANGED <<unit, prevUnit, files, checked, chain, engine, results>>

ToggleChecked(f) ==
  /\ Widget
  /\ f \in files
  /\ checked' = IF f \in checked THEN checked \ {f} ELSE checked \cup {f}
  /\ UNCHANGED <<settings, unit, prevUnit, files, chain, engine, results>>

PressUnit(u) ==
  /\ Widget
  /\ unit' = u
  /\ UNCHANGED <<settings, prevUnit, files, checked, chain, engine, results>>

(* Match X to Spectrum View, whose unit is u: the latch is synchronised and  *)
(* the data converted at once.                                               *)
MatchX(u) ==
  /\ Widget
  /\ u # unit
  /\ unit' = u /\ prevUnit' = u
  /\ ConvertData(unit, u)
  /\ UNCHANGED <<settings, files, checked, chain, phase, batch, pending, taken, total, completed, member>>

(* AverageSpectrum::reset.  The futures and the buffer are left to the next  *)
(* start.                                                                    *)
Reset ==
  /\ phase' = "idle"
  /\ average' = NoData
  /\ unit' = DefaultUnit /\ prevUnit' = DefaultUnit
  /\ UNCHANGED <<batch, pending, taken, total, completed, fileResults>>

(* performWorkspaceMemberDeletion of an original. *)
DeleteFile(f) ==
  /\ Widget
  /\ f \in files
  /\ files' = files \ {f} /\ checked' = checked \ {f}
  /\ Reset
  /\ UNCHANGED <<settings, chain, member>>

(* stripWorkspaceDerivatives. *)
StripDerivatives ==
  /\ Widget
  /\ member' = NoData
  /\ Reset
  /\ UNCHANGED <<settings, files, checked, chain>>

(* tickPrePlot of the view, which runs whether there is data or not. *)
View ==
  /\ Goto("view", "tick")
  /\ prevUnit' = unit
  /\ IF unit # prevUnit THEN ConvertData(prevUnit, unit) ELSE UNCHANGED <<average, fileResults>>
  /\ UNCHANGED <<shown, chain, settings, unit, files, checked, phase, batch, pending, taken, total,
                 completed, member>>

(* Another tab is shown for a while. *)
SwitchTab ==
  /\ pc = "tick"
  /\ shown' = ~shown
  /\ UNCHANGED <<pc, chain, selectors, engine, results>>

(* A worker has computed a spectrum, could not, or found nothing in it.  The *)
(* tasks of an abandoned batch run too: nobody reads them.                   *)
TaskEnds(f) ==
  /\ f \in DOMAIN pending
  /\ pending[f] = Queued
  /\ \E o \in Outcomes : pending' = [pending EXCEPT ![f] = o]
  /\ UNCHANGED <<pc, shown, chain, selectors, phase, batch, taken, total, completed,
                 fileResults, results>>

-----------------------------------------------------------------------------

Widgets ==
  \/ NoWidget \/ PressCalculate
  \/ \E s \in Settings : EditSettings(s)
  \/ \E f \in Files : ToggleChecked(f) \/ DeleteFile(f)
  \/ \E u \in Units : PressUnit(u) \/ MatchX(u)
  \/ StripDerivatives

Frame == Submit \/ Poll \/ NothingToTick \/ TickChain \/ Widgets \/ View

Next == Frame \/ SwitchTab \/ \E f \in Files : TaskEnds(f)

Spec == Init /\ [][Next]_vars

(* Frames follow each other while the tab is shown, and tasks end.           *)
Fairness == WF_vars(Frame) /\ \A f \in Files : WF_vars(TaskEnds(f))

FairSpec == Spec /\ Fairness

-----------------------------------------------------------------------------
(* Whatever the user does to the unit while a batch runs, every x axis on    *)
(* display, in the buffer or just stored is in the unit it is said to be in: *)
(* no spectrum is converted twice and none is forgotten.  Between the click  *)
(* and the view of the same frame the latch still names the old unit.        *)
OneUnit ==
  /\ \A f \in DOMAIN fileResults : phase = "running" => fileResults[f] = prevUnit
  /\ average # NoData => average.unit = prevUnit
  /\ member # NoData => member.dataUnit = member.unit

(* What a batch yields lacks a file it was given only if that file had no    *)
(* spectrum to give, was deleted, or if others threw: each exception lets    *)
(* the batch end one file early (see AllFuturesDone).                        *)
CompleteAverage ==
  phase = "running" =>
    LET submitted == DOMAIN pending
        Read(o) == {f \in taken : pending[f] = o}
    IN  /\ total = Cardinality(submitted) - Cardinality(Read("throws"))
        /\ completed = Cardinality(taken)
        /\ DOMAIN fileResults = Read("ok")
        /\ pc # "poll" => Cardinality(submitted \ taken) > Cardinality(Read("throws"))

(* The comment where a batch ends: "All futures done".                       *)
AllFuturesDone ==
  [][(phase = "running" /\ phase' = "idle" /\ pc \in {"tick", "poll"})
       => taken' = DOMAIN pending]_vars

(* workspace_reader.h says of averageOutdated that it is "true when the      *)
(* fixed-id member exists but is stale (params mismatch OR inputs mismatch"; *)
(* an average shown without the overlay was made from the settings and the   *)
(* files selected now.                                                       *)
AverageOutdated ==
  member # NoData /\ (member.settings # settings \/ member.inputs # checked)

FreshAverageIsTrue ==
  (average # NoData /\ ~AverageOutdated)
    => average.settings = settings /\ average.files \subseteq checked

(* The batch promises what BatchPromise says.                                *)
Promise == INSTANCE BatchPromise WITH
    Inputs <- Files \X Settings,
    given <- IF phase = "running" THEN (DOMAIN pending) \X {batch.settings} ELSE {},
    result <- IF average = NoData THEN {} ELSE average.files \X {average.settings}

(* Every step is one of BatchPromise or invisible to it: one batch at a time *)
(* and never restarted while it runs, and nothing in its result that it was  *)
(* not given, although files go and selectors change meanwhile.              *)
KeepsPromise == Promise!Spec

(* And a batch that is asked for is submitted and ends, unless its tab stays *)
(* in the background.                                                        *)
PromiseFulfilled == Promise!Fairness
================================================================================
