---------------------------- MODULE RecomputeChain ----------------------------
(***************************************************************************)
(* workspace/workspace_reader.cpp: the recompute chain of a workspace tab,  *)
(* with its one edge: a 100% T whose reference is the average has the       *)
(* average recomputed first.  The steps are batches of the Average and the  *)
(* 100% T panel (t100.cpp); what they promise is BatchPromise, and how they  *)
(* keep it is PanelBatch.                                                   *)
(*                                                                          *)
(* A frame is: the ticks of the two batches, tickRecomputeChain, and then    *)
(* the panels, where at most one widget is used.                            *)
(*                                                                          *)
(* A selection stands for everything a result depends on: the selectors and *)
(* the checked files.  A result is the selection its batch was given; an    *)
(* artifact of the workspace is the selection it is labelled with, which is *)
(* that of the moment it is stored.                                         *)
(***************************************************************************)
EXTENDS Integers, Sequences, FiniteSets

CONSTANTS
    Selections,
    NoData

ASSUME RecomputeChainAssumption ==
  /\ NoData \notin Selections
  /\ \A v \in Selections : NoData # [of |-> v]

VARIABLES
    pc,             \* where the frame is
    selection,      \* what is selected now
    avgPhase, avgGiven, avgResult,      \* the batch of the Average panel
    avgMember,      \* the artifact "average": its label and its flag `stale`
    stdPhase, stdGiven, stdResult,      \* the std batch of the 100% T panel
    stdReference,   \* the reference its result was computed against, if any
    referenceSource,\* which of the three source buttons is pressed
    reference,      \* refX, refY: the kind of source, what it was made of
    t100Member,     \* the artifact "t100": its label
    chain,          \* [pending, active, t100RefreshDone, t100RecomputeStd]
    started         \* batches started since the last request, per panel

average == <<avgPhase, avgGiven, avgResult>>
std == <<stdPhase, stdGiven, stdResult>>
t100 == <<std, stdReference, referenceSource, reference, t100Member>>
vars == <<pc, selection, average, avgMember, t100, chain, started>>

Sources == {"file", "csv", "average"}
Phases == {"idle", "asked", "running"}
Panels == {"Average", "T100"}

A == INSTANCE BatchPromise WITH
    Inputs <- Selections, Enough <- 1, shown <- TRUE,
    phase <- avgPhase, given <- avgGiven, result <- avgResult

S == INSTANCE BatchPromise WITH
    Inputs <- Selections, Enough <- 1, shown <- TRUE,
    phase <- stdPhase, given <- stdGiven, result <- stdResult

References == [kind : {"file", "average"}, of : SUBSET Selections] \cup [kind : {"csv"}, of : {{}}]

Chains ==
  [pending : {<< >>, <<"Average">>, <<"T100">>, <<"Average", "T100">>},
   active : Panels \cup {"None"}, t100RefreshDone : BOOLEAN, t100RecomputeStd : BOOLEAN]

TypeOK ==
  /\ pc \in {"average", "std", "chain", "panels"}
  /\ selection \in Selections
  /\ avgPhase \in Phases /\ avgGiven \subseteq Selections /\ avgResult \subseteq Selections
  /\ stdPhase \in Phases /\ stdGiven \subseteq Selections /\ stdResult \subseteq Selections
  /\ avgMember \in [label : Selections, stale : BOOLEAN] \cup {NoData}
  /\ stdReference \in References \cup {NoData}
  /\ referenceSource \in Sources
  /\ reference \in References \cup {NoData}
  /\ t100Member \in [label : Selections, source : Sources] \cup {NoData}
  /\ chain \in Chains
  /\ started \in [Panels -> 0 .. 2]

Init ==
  /\ pc = "average"
  /\ selection \in Selections
  /\ A!Init /\ avgResult = {}
  /\ S!Init /\ stdResult = {}
  /\ avgMember = NoData
  /\ stdReference = NoData
  /\ referenceSource = "file"
  /\ reference = NoData
  /\ t100Member = NoData
  /\ chain = [pending |-> << >>, active |-> "None",
              t100RefreshDone |-> FALSE, t100RecomputeStd |-> FALSE]
  /\ started = [k \in Panels |-> 0]

Goto(from, to) == pc = from /\ pc' = to

-----------------------------------------------------------------------------
(* Staleness *)

AverageOutdated == avgMember # NoData /\ avgMember.label # selection

AverageDangles == IF avgMember = NoData THEN TRUE ELSE avgMember.stale

(* t100MemberFresh: a reference to the average needs the artifact, and its   *)
(* flag, which only a save brings up to date.                                *)
T100Outdated ==
  /\ t100Member # NoData
  /\ \/ t100Member.label # selection
     \/ t100Member.source # referenceSource
     \/ t100Member.source = "average" /\ AverageDangles

StoredT100(ref) ==
  IF ref = NoData THEN t100Member ELSE [label |-> selection, source |-> referenceSource]

Busy(k) ==
  \/ chain.active = k
  \/ \E i \in DOMAIN chain.pending : chain.pending[i] = k
  \/ k = "Average" /\ avgPhase # "idle"
  \/ k = "T100" /\ stdPhase # "idle"

-----------------------------------------------------------------------------
(* The ticks of the two batches *)

(* Nothing may be checked, or every file may be unusable. *)
AverageTick ==
  /\ Goto("average", "std")
  /\ \/ avgPhase # "asked" /\ UNCHANGED <<average, avgMember>>
     \/ (A!Submit({selection}) \/ A!Submit({})) /\ UNCHANGED avgMember
     \/ A!End({}) /\ UNCHANGED avgMember
     \/ A!End(avgGiven) /\ avgMember' = [label |-> selection, stale |-> FALSE]
  /\ UNCHANGED <<selection, t100, chain, started>>

(* The std batch divides its spectra by the reference when all are there.    *)
\* Mutant of StdEnds: the artifact is not stored again
StdEndsUnstored(r) ==
  /\ S!End(r)
  /\ stdReference' = IF r = {} THEN NoData ELSE reference
  /\ UNCHANGED t100Member

StdEnds(r) ==
  /\ S!End(r)
  /\ stdReference' = IF r = {} THEN NoData ELSE reference
  /\ t100Member' = StoredT100(reference)

(* startStdCalculation, and clearStdDev, which ends the batch as well.       *)
StartStd == S!Ask /\ stdReference' = NoData

ClearStd == S!Abandon /\ stdReference' = NoData

StdTick ==
  /\ Goto("std", "chain")
  /\ \/ stdPhase # "asked" /\ UNCHANGED <<std, stdReference, t100Member>>
     \/ (S!Submit({selection}) \/ S!Submit({})) /\ UNCHANGED <<stdReference, t100Member>>
     \/ StdEnds({})
     \/ reference # NoData /\ StdEnds(stdGiven)
  /\ UNCHANGED <<selection, average, avgMember, referenceSource, reference, chain, started>>

-----------------------------------------------------------------------------
(* tickRecomputeChain *)

Counted(k) == [started EXCEPT ![k] = IF @ < 2 THEN @ + 1 ELSE @]

NoStep ==
  /\ Goto("chain", "panels")
  /\ chain.active = "None" /\ chain.pending = << >>
  /\ UNCHANGED <<selection, average, avgMember, t100, chain, started>>

NextStep == [chain EXCEPT !.active = Head(chain.pending), !.pending = Tail(@),
                          !.t100RefreshDone = FALSE]

(* The first step starts in the tick after the request.                      *)
FirstStep ==
  /\ Goto("chain", "panels")
  /\ chain.active = "None" /\ chain.pending # << >>
  /\ chain' = NextStep
  /\ IF Head(chain.pending) = "Average" /\ avgPhase = "idle"
     THEN A!Ask /\ started' = Counted("Average")
     ELSE UNCHANGED <<average, started>>
  /\ UNCHANGED <<selection, avgMember, t100>>

StepRunning ==
  \/ chain.active = "Average" /\ avgPhase # "idle"
  \/ chain.active = "T100" /\ stdPhase # "idle"

StepWaits ==
  /\ Goto("chain", "panels")
  /\ StepRunning
  /\ UNCHANGED <<selection, average, avgMember, t100, chain, started>>

\* Mutants of AverageStepDone: the step is started where its end is observed;
\* its end is seen by the result
AverageStepRestarts ==
  /\ Goto("chain", "panels")
  /\ chain.active = "Average" /\ avgPhase = "idle"
  /\ IF avgResult = {} THEN chain' = [chain EXCEPT !.active = "None", !.pending = << >>]
                            /\ UNCHANGED <<average, started>>
     ELSE A!Ask /\ started' = Counted("Average") /\ UNCHANGED chain
  /\ UNCHANGED <<selection, avgMember, t100>>

AverageStepNeedsResult ==
  /\ Goto("chain", "panels")
  /\ chain.active = "Average" /\ avgPhase = "idle"
  /\ chain' = IF avgResult = {} THEN chain
              ELSE IF chain.pending = << >> THEN [chain EXCEPT !.active = "None"] ELSE NextStep
  /\ UNCHANGED <<selection, average, avgMember, t100, started>>

AverageStepDone ==
  /\ Goto("chain", "panels")
  /\ chain.active = "Average" /\ avgPhase = "idle"
  /\ chain' = IF chain.pending = << >> THEN [chain EXCEPT !.active = "None"] ELSE NextStep
  /\ UNCHANGED <<selection, average, avgMember, t100, started>>

(* What follows the refresh of the 100% T: its std batch, or nothing.  A new  *)
(* reference has cleared the standard deviation.                             *)
\* Mutant of AfterRefresh: the latch is not set
AfterRefreshUnlatched(cleared) ==
  IF chain.t100RecomputeStd
  THEN StartStd /\ started' = Counted("T100") /\ UNCHANGED chain
  ELSE /\ IF cleared THEN ClearStd ELSE UNCHANGED <<std, stdReference>>
       /\ chain' = [chain EXCEPT !.active = "None"]
       /\ UNCHANGED started

AfterRefresh(cleared) ==
  IF chain.t100RecomputeStd
  THEN /\ StartStd
       /\ started' = Counted("T100")
       /\ chain' = [chain EXCEPT !.t100RefreshDone = TRUE]
  ELSE /\ IF cleared THEN ClearStd ELSE UNCHANGED <<std, stdReference>>
       /\ chain' = [chain EXCEPT !.t100RefreshDone = TRUE, !.active = "None"]
       /\ UNCHANGED started

T100Step ==
  /\ Goto("chain", "panels")
  /\ chain.active = "T100" /\ ~chain.t100RefreshDone /\ stdPhase = "idle"
  /\ UNCHANGED <<selection, average, avgMember, referenceSource>>

T100IsFresh ==
  /\ T100Step
  /\ ~T100Outdated
  /\ AfterRefresh(FALSE)
  /\ UNCHANGED <<reference, t100Member>>

(* setReferenceFromCurrentSpectrum, setReferenceFromAverage: they clear the  *)
(* standard deviation and whatever batch computes one.                       *)
RebuildReference(ref) ==
  /\ T100Step
  /\ T100Outdated
  /\ reference' = ref
  /\ AfterRefresh(TRUE)
  /\ t100Member' = StoredT100(ref)

RebuildFromFile ==
  referenceSource = "file" /\ RebuildReference([kind |-> "file", of |-> {selection}])

RebuildFromAverage ==
  /\ referenceSource = "average" /\ avgResult # {}
  /\ RebuildReference([kind |-> "average", of |-> avgResult])

(* A reference from a file of the user's cannot be rebuilt: only the         *)
(* transmittance is.                                                         *)
RebuildTransmittance ==
  /\ T100Step
  /\ T100Outdated
  /\ referenceSource = "csv"
  /\ AfterRefresh(FALSE)
  /\ t100Member' = StoredT100(reference)
  /\ UNCHANGED reference

(* ensureSpectraFresh has no usable spectrum, or not the reference's; or     *)
(* there is no average.  The step ends with the next tick.                   *)
RebuildRejected ==
  /\ T100Step
  /\ T100Outdated
  /\ chain' = [chain EXCEPT !.t100RefreshDone = TRUE]
  /\ UNCHANGED <<std, stdReference, reference, t100Member, started>>

T100StepDone ==
  /\ Goto("chain", "panels")
  /\ chain.active = "T100" /\ chain.t100RefreshDone /\ stdPhase = "idle"
  /\ chain' = [chain EXCEPT !.active = "None"]
  /\ UNCHANGED <<selection, average, avgMember, t100, started>>

ChainTick ==
  \/ NoStep \/ FirstStep \/ StepWaits \/ AverageStepDone
  \/ T100IsFresh \/ RebuildFromFile \/ RebuildFromAverage \/ RebuildTransmittance
  \/ RebuildRejected \/ T100StepDone

-----------------------------------------------------------------------------
(* The panels *)

Widget == Goto("panels", "average")

NoWidget == Widget /\ UNCHANGED <<selection, average, avgMember, t100, chain, started>>

(* requestRecomputeChain: ignored while there is a chain. *)
Request(target, upstream, recomputeStd) ==
  IF chain.active # "None" \/ chain.pending # << >>
  THEN UNCHANGED <<chain, started>>
  ELSE /\ chain' = [chain EXCEPT !.pending = upstream \o <<target>>,
                                 !.t100RefreshDone = FALSE,
                                 !.t100RecomputeStd = recomputeStd]
       /\ started' = [k \in Panels |-> 0]

(* staleUpstreams *)
Upstream ==
  IF referenceSource = "average" /\ AverageOutdated THEN <<"Average">> ELSE << >>

(* "Calculate average" and the Recompute button of the Average view. *)
PressCalculateAverage ==
  /\ Widget
  /\ ~Busy("Average")
  /\ Request("Average", << >>, FALSE)
  /\ UNCHANGED <<selection, average, avgMember, t100>>

(* "Calculate std" asks for the standard deviation; the Recompute button of  *)
(* the 100% T view recomputes it if there is one.                            *)
PressCalculateStd ==
  /\ Widget
  /\ ~Busy("T100") /\ reference # NoData
  /\ Request("T100", Upstream, TRUE)
  /\ UNCHANGED <<selection, average, avgMember, t100>>

PressRecomputeT100 ==
  /\ Widget
  /\ ~Busy("T100") /\ T100Outdated
  /\ Request("T100", Upstream, stdResult # {})
  /\ UNCHANGED <<selection, average, avgMember, t100>>

Select(v) ==
  /\ Widget
  /\ selection' = v
  /\ UNCHANGED <<average, avgMember, t100, chain, started>>

PressSource(k) ==
  /\ Widget
  /\ k = "average" => avgResult # {}
  /\ referenceSource' = k
  /\ UNCHANGED <<selection, average, avgMember, std, stdReference, reference, t100Member,
                 chain, started>>

(* "Set as reference", "Load" and "Use average", each offered by its source. *)
\* Mutant of SetReference: the standard deviation is left
SetReferenceOnly(ref) ==
  /\ Widget
  /\ reference' = ref
  /\ t100Member' = [label |-> selection, source |-> referenceSource]
  /\ UNCHANGED <<selection, average, avgMember, std, stdReference, referenceSource, chain, started>>

SetReference(ref) ==
  /\ Widget
  /\ reference' = ref
  /\ ClearStd
  /\ t100Member' = [label |-> selection, source |-> referenceSource]
  /\ UNCHANGED <<selection, average, avgMember, referenceSource, chain, started>>

SetFileReference ==
  referenceSource = "file" /\ SetReference([kind |-> "file", of |-> {selection}])

LoadCsv == referenceSource = "csv" /\ SetReference([kind |-> "csv", of |-> {}])

UseAverage ==
  /\ referenceSource = "average" /\ avgResult # {}
  /\ SetReference([kind |-> "average", of |-> avgResult])

(* Another file is displayed: its transmittance is computed in the view and  *)
(* the artifact stored again.                                                *)
ShowFile ==
  /\ Widget
  /\ t100Member' = StoredT100(reference)
  /\ UNCHANGED <<selection, average, avgMember, std, stdReference, referenceSource, reference,
                 chain, started>>

(* markConfigStale of "Save as": the flags of the artifacts.                 *)
SaveAs ==
  /\ Widget
  /\ avgMember # NoData
  /\ avgMember' = [avgMember EXCEPT !.stale = AverageOutdated]
  /\ UNCHANGED <<selection, average, t100, chain, started>>

(* The artifact "average" is deleted in the Files panel, not what the panel  *)
(* shows of it.                                                              *)
DeleteAverage ==
  /\ Widget
  /\ avgMember' = NoData
  /\ UNCHANGED <<selection, average, t100, chain, started>>

(* stripWorkspaceDerivatives: the panels are reset, the chain is not.        *)
Strip ==
  /\ Widget
  /\ A!Abandon /\ ClearStd
  /\ avgMember' = NoData /\ t100Member' = NoData
  /\ reference' = NoData /\ referenceSource' = "file"
  /\ UNCHANGED <<selection, chain, started>>

Widgets ==
  \/ NoWidget
  \/ PressCalculateAverage \/ PressCalculateStd \/ PressRecomputeT100
  \/ \E v \in Selections : Select(v)
  \/ \E k \in Sources : PressSource(k)
  \/ SetFileReference \/ LoadCsv \/ UseAverage \/ ShowFile
  \/ SaveAs \/ DeleteAverage \/ Strip

Next == AverageTick \/ StdTick \/ ChainTick \/ Widgets

Spec == Init /\ [][Next]_vars

(* The tab is shown and its frames follow each other; the batches keep what  *)
(* PanelBatch promises.                                                      *)
Fairness == WF_vars(Next) /\ A!Fairness /\ S!Fairness

FairSpec == Spec /\ Fairness

-----------------------------------------------------------------------------
(* One request starts a batch of a panel once at most, however the user goes *)
(* on: the chain observes the end of a step and never starts it again (the   *)
(* comment in tickRecomputeChain speaks of an "infinite 0->100->0 loop").    *)
OncePerRequest == \A k \in Panels : started[k] <= 1

(* The standard deviation on display was computed against the reference on   *)
(* display, whatever replaced the reference while the batch was running.     *)
StdMatchesReference == stdResult # {} => stdReference = reference

(* A request that ends with a new standard deviation leaves no overlay: the  *)
(* 100% T is up to date with what is selected at its end, although that may  *)
(* have changed since the request.  The exception is a reference to an       *)
(* average that was deleted, or flagged stale by a save.                     *)
ChainClearsStaleness ==
  [][(chain.active = "T100" /\ chain'.active = "None" /\ started["T100"] = 1 /\ stdResult # {}
      /\ (referenceSource = "average" => ~AverageDangles))
       => ~T100Outdated]_vars

(* Whatever happens to its panels, the chain comes to its end: the buttons   *)
(* it disables are enabled again.                                            *)
ChainEnds ==
  (chain.active # "None" \/ chain.pending # << >>)
     ~> (chain.active = "None" /\ chain.pending = << >>)

(* The comment in tickRecomputeChain: "an upstream Average step implies      *)
(* t100Outdated via the shared params/inputs", so that the reference is      *)
(* rebuilt from the new average before the std batch.                        *)
UpstreamImpliesOutdated ==
  (chain.active = "T100" /\ ~chain.t100RefreshDone /\ started["Average"] = 1 /\ avgResult # {}
     /\ t100Member # NoData /\ pc = "chain")
    => T100Outdated \/ reference = [kind |-> "average", of |-> avgResult]
================================================================================
