-------------------------- MODULE RecomputeChainProofs --------------------------
(***************************************************************************)
(* The recompute chain, for any selections.  That a request starts no batch *)
(* twice depends on where the chain is: before its first step nothing was   *)
(* started, the 100% T step is the last one, and its latch says whether its *)
(* batch was.                                                               *)
(***************************************************************************)
EXTENDS RecomputeChain, SequenceTheorems, TLAPS

(* The fields of the two panels. *)
PanelFields ==
  /\ pc \in {"average", "std", "chain", "panels"}
  /\ selection \in Selections
  /\ avgPhase \in Phases /\ avgGiven \subseteq Selections /\ avgResult \subseteq Selections
  /\ stdPhase \in Phases /\ stdGiven \subseteq Selections /\ stdResult \subseteq Selections
  /\ avgMember \in [label : Selections, stale : BOOLEAN] \cup {NoData}
  /\ stdReference \in References \cup {NoData}
  /\ referenceSource \in Sources
  /\ reference \in References \cup {NoData}
  /\ t100Member \in [label : Selections, source : Sources] \cup {NoData}

(* A chain that has not begun started nothing; its average comes first. *)
ChainFields ==
  /\ chain \in Chains
  /\ started \in [Panels -> 0 .. 1]
  /\ chain.active = "None" /\ chain.pending # << >> => started = [k \in Panels |-> 0]
  /\ chain.active = "Average" => /\ chain.pending \in {<< >>, <<"T100">>}
                                 /\ started["T100"] = 0
  /\ chain.active = "T100" => /\ chain.pending = << >>
                              /\ ~chain.t100RefreshDone => started["T100"] = 0

Inv == PanelFields /\ ChainFields /\ StdMatchesReference

USE DEF Panels, Phases, Sources
-----------------------------------------------------------------------------
LEMMA InitInv == Init => Inv
<1> SUFFICES ASSUME Init PROVE Inv
  OBVIOUS
<1>1. PanelFields /\ StdMatchesReference
  BY DEF Init, A!Init, S!Init, PanelFields, StdMatchesReference
<1>2. ChainFields
  BY DEF Init, ChainFields, Chains
<1> QED
  BY <1>1, <1>2 DEF Inv

(* The 100% T panel is stored with labels it knows. *)
LEMMA StoredTyped ==
  ASSUME PanelFields, NEW ref
  PROVE  StoredT100(ref) \in [label : Selections, source : Sources] \cup {NoData}
BY DEF PanelFields, StoredT100

-----------------------------------------------------------------------------
(* The ticks of the batches leave the chain alone. *)

LEMMA AverageTickInv ==
  ASSUME Inv, AverageTick
  PROVE  Inv'
<1>1. /\ pc' = "std" /\ selection' = selection /\ chain' = chain /\ started' = started
      /\ UNCHANGED t100
  BY DEF AverageTick, Goto
<1>2. /\ stdPhase' = stdPhase /\ stdGiven' = stdGiven /\ stdResult' = stdResult
      /\ stdReference' = stdReference /\ referenceSource' = referenceSource
      /\ reference' = reference /\ t100Member' = t100Member
  BY <1>1 DEF t100, std
<1>3. /\ avgPhase' \in Phases /\ avgGiven' \subseteq Selections /\ avgResult' \subseteq Selections
      /\ avgMember' \in [label : Selections, stale : BOOLEAN] \cup {NoData}
  <2>1. CASE UNCHANGED <<average, avgMember>>
    BY <2>1 DEF average, Inv, PanelFields
  <2>2. CASE (A!Submit({selection}) \/ A!Submit({})) /\ UNCHANGED avgMember
    BY <2>2 DEF A!Submit, Inv, PanelFields
  <2>3. CASE A!End({}) /\ UNCHANGED avgMember
    BY <2>3 DEF A!End, Inv, PanelFields
  <2>4. CASE A!End(avgGiven) /\ avgMember' = [label |-> selection, stale |-> FALSE]
    BY <2>4 DEF A!End, Inv, PanelFields
  <2> QED
    BY <2>1, <2>2, <2>3, <2>4 DEF AverageTick
<1>4. PanelFields'
  BY <1>1, <1>2, <1>3 DEF Inv, PanelFields
<1>5. ChainFields' /\ StdMatchesReference'
  BY <1>1, <1>2 DEF Inv, ChainFields, StdMatchesReference
<1> QED
  BY <1>4, <1>5 DEF Inv

LEMMA StdTickInv ==
  ASSUME Inv, StdTick
  PROVE  Inv'
<1>1. /\ pc' = "chain" /\ selection' = selection /\ chain' = chain /\ started' = started
      /\ UNCHANGED average /\ avgMember' = avgMember
      /\ referenceSource' = referenceSource /\ reference' = reference
  BY DEF StdTick, Goto
<1>2. /\ stdPhase' \in Phases /\ stdGiven' \subseteq Selections /\ stdResult' \subseteq Selections
      /\ stdReference' \in References \cup {NoData}
      /\ t100Member' \in [label : Selections, source : Sources] \cup {NoData}
      /\ StdMatchesReference'
  <2>1. CASE UNCHANGED <<std, stdReference, t100Member>>
    BY <1>1, <2>1 DEF std, Inv, PanelFields, StdMatchesReference
  <2>2. CASE (S!Submit({selection}) \/ S!Submit({})) /\ UNCHANGED <<stdReference, t100Member>>
    BY <1>1, <2>2 DEF S!Submit, Inv, PanelFields, StdMatchesReference
  <2>3. CASE \E r \in {{}, stdGiven} : StdEnds(r)
    BY <1>1, <2>3, StoredTyped DEF StdEnds, S!End, Inv, PanelFields, StdMatchesReference
  <2> QED
    BY <2>1, <2>2, <2>3 DEF StdTick
<1>3. PanelFields'
  BY <1>1, <1>2 DEF average, Inv, PanelFields
<1>4. ChainFields'
  BY <1>1 DEF Inv, ChainFields
<1> QED
  BY <1>2, <1>3, <1>4 DEF Inv

-----------------------------------------------------------------------------
(* The tick of the chain *)

(* The next step is started from nothing. *)
LEMMA NextStepTyped ==
  ASSUME Inv, chain.pending # << >>, chain.active # "T100"
  PROVE  /\ NextStep \in Chains /\ ~NextStep.t100RefreshDone
         /\ NextStep.active = Head(chain.pending)
         /\ \/ chain.active = "None" /\ NextStep.active = "Average"
               /\ NextStep.pending \in {<< >>, <<"T100">>}
            \/ NextStep.active = "T100" /\ NextStep.pending = << >>
<1>1. chain.pending \in {<<"Average">>, <<"T100">>, <<"Average", "T100">>}
  BY DEF Inv, ChainFields, Chains
<1>2. NextStep = [chain EXCEPT !.active = Head(chain.pending), !.pending = Tail(chain.pending),
                               !.t100RefreshDone = FALSE]
  BY DEF NextStep
<1>3. chain \in Chains /\ (chain.active = "Average" => chain.pending = <<"T100">>)
  BY <1>1 DEF Inv, ChainFields, Chains
<1>4. /\ Head(<<"Average">>) = "Average" /\ Tail(<<"Average">>) = << >>
      /\ Head(<<"T100">>) = "T100" /\ Tail(<<"T100">>) = << >>
      /\ Head(<<"Average", "T100">>) = "Average" /\ Tail(<<"Average", "T100">>) = <<"T100">>
  OBVIOUS
<1>5. /\ NextStep.active = Head(chain.pending) /\ NextStep.pending = Tail(chain.pending)
      /\ ~NextStep.t100RefreshDone /\ NextStep.t100RecomputeStd = chain.t100RecomputeStd
  BY <1>2, <1>3 DEF Chains
<1>6. Head(chain.pending) \in Panels /\ Tail(chain.pending) \in {<< >>, <<"T100">>}
  BY <1>1, <1>4
<1>7. NextStep \in Chains
  BY <1>2, <1>3, <1>6 DEF Chains
<1> QED
  BY <1>1, <1>3, <1>4, <1>5, <1>7 DEF Chains

(* The first step starts in the tick after the request, with a batch of the  *)
(* average if that is what comes first.                                      *)
LEMMA FirstStepInv ==
  ASSUME Inv, FirstStep
  PROVE  Inv'
<1>1. /\ chain.active = "None" /\ chain.pending # << >> /\ chain' = NextStep
      /\ pc' = "panels" /\ selection' = selection /\ avgMember' = avgMember /\ UNCHANGED t100
  BY DEF FirstStep, Goto
<1>2. started = [k \in Panels |-> 0]
  BY <1>1 DEF Inv, ChainFields
<1>3. CASE NextStep.active = "Average" /\ avgPhase = "idle"
  <2>1. A!Ask /\ started' = [started EXCEPT !["Average"] = 1]
    BY <1>1, <1>2, <1>3, NextStepTyped DEF FirstStep, Counted
  <2>2. PanelFields' /\ StdMatchesReference'
    BY <1>1, <2>1 DEF t100, std, A!Ask, Inv, PanelFields, StdMatchesReference
  <2>3. ChainFields'
    BY <1>1, <1>2, <1>3, <2>1, NextStepTyped DEF ChainFields
  <2> QED
    BY <2>2, <2>3 DEF Inv
<1>4. CASE ~(NextStep.active = "Average" /\ avgPhase = "idle")
  <2>1. UNCHANGED average /\ started' = started
    BY <1>1, <1>4, NextStepTyped DEF FirstStep
  <2>2. PanelFields' /\ StdMatchesReference'
    BY <1>1, <2>1 DEF average, t100, std, Inv, PanelFields, StdMatchesReference
  <2>3. ChainFields'
    BY <1>1, <1>2, <2>1, NextStepTyped DEF ChainFields
  <2> QED
    BY <2>2, <2>3 DEF Inv
<1> QED
  BY <1>3, <1>4

(* A step that changes only where the chain is. *)
LEMMA ChainMoves ==
  ASSUME Inv, ChainFields', pc' = "panels", UNCHANGED <<selection, average, avgMember, t100>>
  PROVE  Inv'
<1>1. PanelFields' /\ StdMatchesReference'
  BY DEF average, t100, std, Inv, PanelFields, StdMatchesReference
<1> QED
  BY <1>1 DEF Inv

LEMMA AverageStepDoneInv ==
  ASSUME Inv, AverageStepDone
  PROVE  Inv'
<1>1. chain.active = "Average" /\ started' = started /\ pc' = "panels"
  BY DEF AverageStepDone, Goto
<1>2. started["T100"] = 0 /\ chain \in Chains /\ started \in [Panels -> 0 .. 1]
  BY <1>1 DEF Inv, ChainFields
<1>3. CASE chain.pending = << >>
  <2>1. chain' = [chain EXCEPT !.active = "None"]
    BY <1>3 DEF AverageStepDone
  <2>2. chain' \in Chains /\ chain'.active = "None" /\ chain'.pending = << >>
    BY <1>2, <1>3, <2>1 DEF Chains
  <2>3. ChainFields'
    BY <1>1, <1>2, <2>2 DEF ChainFields
  <2> QED
    BY <1>1, <2>3, ChainMoves DEF AverageStepDone
<1>4. CASE chain.pending # << >>
  <2>1. chain' = NextStep
    BY <1>4 DEF AverageStepDone
  <2>2. ChainFields'
    BY <1>1, <1>2, <1>4, <2>1, NextStepTyped DEF ChainFields
  <2> QED
    BY <1>1, <2>2, ChainMoves DEF AverageStepDone
<1> QED
  BY <1>3, <1>4

LEMMA T100StepDoneInv ==
  ASSUME Inv, T100StepDone
  PROVE  Inv'
<1>1. /\ chain.active = "T100" /\ started' = started /\ pc' = "panels"
      /\ chain' = [chain EXCEPT !.active = "None"]
  BY DEF T100StepDone, Goto
<1>2. chain \in Chains /\ chain.pending = << >>
  BY <1>1 DEF Inv, ChainFields
<1>3. chain' \in Chains /\ chain'.active = "None" /\ chain'.pending = << >>
  BY <1>1, <1>2 DEF Chains
<1>4. ChainFields'
  BY <1>1, <1>3 DEF Inv, ChainFields
<1> QED
  BY <1>1, <1>4, ChainMoves DEF T100StepDone

LEMMA ChainRestsInv ==
  ASSUME Inv, NoStep \/ StepWaits
  PROVE  Inv'
<1>1. /\ pc' = "panels" /\ chain' = chain /\ started' = started
      /\ UNCHANGED <<selection, average, avgMember, t100>>
  BY DEF NoStep, StepWaits, Goto
<1>2. ChainFields'
  BY <1>1 DEF Inv, ChainFields
<1> QED
  BY <1>1, <1>2, ChainMoves

(* What the refresh of the 100% T leaves: the latch is set before its batch  *)
(* runs, and the chain is over if there is to be none.                       *)
LEMMA RefreshTyped ==
  ASSUME Inv, T100Step, NEW cleared \in BOOLEAN, AfterRefresh(cleared)
  PROVE  /\ ChainFields'
         /\ stdPhase' \in Phases /\ stdGiven' \subseteq Selections
         /\ \/ stdResult' = {} /\ stdReference' = NoData
            \/ ~cleared /\ stdResult' = stdResult /\ stdReference' = stdReference
<1>1. /\ chain.active = "T100" /\ ~chain.t100RefreshDone /\ chain \in Chains
      /\ chain.pending = << >> /\ started["T100"] = 0 /\ started \in [Panels -> 0 .. 1]
  BY DEF T100Step, Inv, ChainFields
<1>2. CASE chain.t100RecomputeStd
  <2>1. /\ S!Ask /\ stdReference' = NoData
        /\ started' = [started EXCEPT !["T100"] = 1]
        /\ chain' = [chain EXCEPT !.t100RefreshDone = TRUE]
    BY <1>1, <1>2 DEF AfterRefresh, StartStd, Counted
  <2>2. /\ chain' \in Chains /\ chain'.active = "T100" /\ chain'.pending = << >>
        /\ chain'.t100RefreshDone
    BY <1>1, <2>1 DEF Chains
  <2>3. ChainFields'
    BY <1>1, <2>1, <2>2 DEF ChainFields
  <2> QED
    BY <2>1, <2>3 DEF S!Ask
<1>3. CASE ~chain.t100RecomputeStd
  <2>1. /\ chain' = [chain EXCEPT !.t100RefreshDone = TRUE, !.active = "None"]
        /\ started' = started
        /\ IF cleared THEN ClearStd ELSE UNCHANGED <<std, stdReference>>
    BY <1>3 DEF AfterRefresh
  <2>2. chain' \in Chains /\ chain'.active = "None" /\ chain'.pending = << >>
    BY <1>1, <2>1 DEF Chains
  <2>3. ChainFields'
    BY <1>1, <2>1, <2>2 DEF ChainFields
  <2>4. CASE cleared
    BY <2>1, <2>3, <2>4 DEF ClearStd, S!Abandon
  <2>5. CASE ~cleared
    BY <2>1, <2>3, <2>5 DEF std, Inv, PanelFields
  <2> QED
    BY <2>4, <2>5
<1> QED
  BY <1>2, <1>3

LEMMA RefreshInv ==
  ASSUME Inv, T100Step, NEW cleared \in BOOLEAN, AfterRefresh(cleared),
         reference' \in References \cup {NoData}, ~cleared => reference' = reference,
         t100Member' \in [label : Selections, source : Sources] \cup {NoData}
  PROVE  Inv'
<1>1. /\ pc' = "panels" /\ selection' = selection /\ UNCHANGED average
      /\ avgMember' = avgMember /\ referenceSource' = referenceSource
  BY DEF T100Step, Goto
<1>2. PanelFields'
  BY <1>1, RefreshTyped DEF average, Inv, PanelFields
<1>3. StdMatchesReference'
  BY RefreshTyped DEF Inv, StdMatchesReference
<1> QED
  BY <1>2, <1>3, RefreshTyped DEF Inv

LEMMA RebuildsInv ==
  ASSUME Inv,
         T100IsFresh \/ RebuildFromFile \/ RebuildFromAverage \/ RebuildTransmittance
  PROVE  Inv'
<1>1. /\ [kind |-> "file", of |-> {selection}] \in References
      /\ [kind |-> "average", of |-> avgResult] \in References
      /\ PanelFields
  BY DEF Inv, PanelFields, References
<1>2. ASSUME NEW ref \in References, RebuildReference(ref) PROVE Inv'
  BY <1>1, <1>2, RefreshInv, StoredTyped DEF RebuildReference
<1>3. CASE T100IsFresh
  BY <1>1, <1>3, RefreshInv DEF T100IsFresh, PanelFields
<1>4. CASE RebuildTransmittance
  BY <1>1, <1>4, RefreshInv, StoredTyped DEF RebuildTransmittance, PanelFields
<1> QED
  BY <1>1, <1>2, <1>3, <1>4 DEF RebuildFromFile, RebuildFromAverage

LEMMA RebuildRejectedInv ==
  ASSUME Inv, RebuildRejected
  PROVE  Inv'
<1>1. /\ chain.active = "T100" /\ started' = started /\ pc' = "panels"
      /\ chain' = [chain EXCEPT !.t100RefreshDone = TRUE]
      /\ UNCHANGED <<selection, average, avgMember, t100>>
  BY DEF RebuildRejected, T100Step, Goto, t100
<1>2. chain \in Chains /\ chain.pending = << >>
  BY <1>1 DEF Inv, ChainFields
<1>3. /\ chain' \in Chains /\ chain'.active = "T100" /\ chain'.pending = << >>
      /\ chain'.t100RefreshDone
  BY <1>1, <1>2 DEF Chains
<1>4. ChainFields'
  BY <1>1, <1>3 DEF Inv, ChainFields
<1> QED
  BY <1>1, <1>4, ChainMoves

LEMMA ChainTickInv ==
  ASSUME Inv, ChainTick
  PROVE  Inv'
BY FirstStepInv, AverageStepDoneInv, T100StepDoneInv, ChainRestsInv, RebuildsInv,
   RebuildRejectedInv DEF ChainTick

-----------------------------------------------------------------------------
(* The widgets *)

(* A request is ignored or begins with nothing started. *)
LEMMA RequestTyped ==
  ASSUME Inv, NEW target \in Panels, NEW upstream \in {<< >>, <<"Average">>},
         target = "Average" => upstream = << >>, NEW std_ \in BOOLEAN,
         Request(target, upstream, std_)
  PROVE  ChainFields'
<1>1. CASE UNCHANGED <<chain, started>>
  BY <1>1 DEF Inv, ChainFields
<1>2. CASE /\ chain.active = "None"
           /\ chain' = [chain EXCEPT !.pending = upstream \o <<target>>,
                                     !.t100RefreshDone = FALSE, !.t100RecomputeStd = std_]
           /\ started' = [k \in Panels |-> 0]
  <2>1. upstream \o <<target>> \in {<<"Average">>, <<"T100">>, <<"Average", "T100">>}
    <3>1. <<target>> \in Seq(Panels) /\ <<"Average">> \in Seq(Panels)
      BY DEF Panels
    <3>2. << >> \o <<target>> = <<target>>
      BY <3>1, ConcatEmptySeq
    <3> DEFINE both == <<"Average">> \o <<target>>
    <3>4. both \in Seq(Panels) /\ Len(both) = 2 /\ both[1] = "Average" /\ both[2] = target
      BY <3>1, ConcatProperties
    <3> DEFINE pair == <<"Average", target>>
    <3>5. pair \in Seq(Panels) /\ Len(pair) = 2 /\ pair[1] = "Average" /\ pair[2] = target
      BY DEF Panels
    <3>6. \A i \in 1 .. Len(both) : both[i] = pair[i]
      BY <3>4, <3>5
    <3> HIDE DEF both, pair
    <3>7. both = pair
      BY <3>4, <3>5, <3>6, SeqEqual
    <3> QED
      BY <3>2, <3>7 DEF Panels, both, pair
  <2>2. chain' \in Chains /\ chain'.active = "None"
    BY <1>2, <2>1 DEF Inv, ChainFields, Chains
  <2>3. started' \in [Panels -> 0 .. 1]
    BY <1>2
  <2> QED
    BY <1>2, <2>2, <2>3 DEF ChainFields
<1> QED
  BY <1>1, <1>2 DEF Request

LEMMA RequestsInv ==
  ASSUME Inv, PressCalculateAverage \/ PressCalculateStd \/ PressRecomputeT100
  PROVE  Inv'
<1>1. pc' = "average" /\ UNCHANGED <<selection, average, avgMember, t100>>
  BY DEF PressCalculateAverage, PressCalculateStd, PressRecomputeT100, Widget, Goto
<1>2. Upstream \in {<< >>, <<"Average">>}
  BY DEF Upstream
<1>3. ChainFields'
  BY <1>2, RequestTyped DEF PressCalculateAverage, PressCalculateStd, PressRecomputeT100
<1>4. PanelFields' /\ StdMatchesReference'
  BY <1>1 DEF average, t100, std, Inv, PanelFields, StdMatchesReference
<1> QED
  BY <1>3, <1>4 DEF Inv

(* A new reference takes the standard deviation away. *)
LEMMA SetReferenceInv ==
  ASSUME Inv, NEW ref \in References, SetReference(ref)
  PROVE  Inv'
<1>1. PanelFields'
  BY DEF SetReference, Widget, Goto, ClearStd, S!Abandon, average, Inv, PanelFields
<1>2. ChainFields' /\ StdMatchesReference'
  BY DEF SetReference, ClearStd, S!Abandon, Inv, ChainFields, StdMatchesReference
<1> QED
  BY <1>1, <1>2 DEF Inv

LEMMA ReferencesInv ==
  ASSUME Inv, SetFileReference \/ LoadCsv \/ UseAverage
  PROVE  Inv'
<1>1. /\ [kind |-> "file", of |-> {selection}] \in References
      /\ [kind |-> "csv", of |-> {}] \in References
      /\ [kind |-> "average", of |-> avgResult] \in References
  BY DEF Inv, PanelFields, References
<1> QED
  BY <1>1, SetReferenceInv DEF SetFileReference, LoadCsv, UseAverage

(* The other widgets leave the chain and the standard deviation alone, or    *)
(* reset the panels.                                                         *)
LEMMA OtherWidgetsInv ==
  ASSUME Inv,
         \/ NoWidget \/ ShowFile \/ SaveAs \/ DeleteAverage \/ Strip
         \/ \E v \in Selections : Select(v)
         \/ \E k \in Sources : PressSource(k)
  PROVE  Inv'
<1>1. ChainFields'
  BY DEF NoWidget, ShowFile, SaveAs, DeleteAverage, Strip, Select, PressSource, Inv, ChainFields
<1>2. StdMatchesReference'
  BY DEF NoWidget, ShowFile, SaveAs, DeleteAverage, Strip, Select, PressSource, ClearStd,
     S!Abandon, t100, std, Inv, StdMatchesReference
<1>3. PanelFields'
  <2> USE DEF Inv, PanelFields, Widget, Goto, average, std, t100
  <2>1. CASE NoWidget
    BY <2>1 DEF NoWidget
  <2>2. CASE ShowFile
    BY <2>2, StoredTyped DEF ShowFile
  <2>3. CASE SaveAs
    <3>1. avgMember \in [label : Selections, stale : BOOLEAN] /\ AverageOutdated \in BOOLEAN
      BY <2>3 DEF SaveAs, AverageOutdated
    <3>2. avgMember' \in [label : Selections, stale : BOOLEAN]
      BY <2>3, <3>1 DEF SaveAs
    <3> QED
      BY <2>3, <3>2 DEF SaveAs
  <2>4. CASE DeleteAverage
    BY <2>4 DEF DeleteAverage
  <2>5. CASE Strip
    BY <2>5 DEF Strip, ClearStd, A!Abandon, S!Abandon
  <2>6. CASE \E v \in Selections : Select(v)
    BY <2>6 DEF Select
  <2>7. CASE \E k \in Sources : PressSource(k)
    BY <2>7 DEF PressSource
  <2> QED
    BY <2>1, <2>2, <2>3, <2>4, <2>5, <2>6, <2>7
<1> QED
  BY <1>1, <1>2, <1>3 DEF Inv

LEMMA NextInv == Inv /\ [Next]_vars => Inv'
<1>1. ASSUME Inv, Widgets PROVE Inv'
  BY <1>1, RequestsInv, ReferencesInv, OtherWidgetsInv DEF Widgets
<1>2. ASSUME Inv, UNCHANGED vars PROVE Inv'
  <2>1. PanelFields' /\ ChainFields' /\ StdMatchesReference'
    BY <1>2 DEF vars, average, std, t100, Inv, PanelFields, ChainFields, StdMatchesReference
  <2> QED
    BY <2>1 DEF Inv
<1> QED
  BY <1>1, <1>2, AverageTickInv, StdTickInv, ChainTickInv DEF Next

-----------------------------------------------------------------------------
(* The invariant holds throughout. *)
THEOREM Invariance == Spec => []Inv
<1> QED
  BY InitInv, NextInv, PTL DEF Spec

(* The state keeps its type. *)
THEOREM TypeCorrect == Spec => []TypeOK
<1>1. Inv => TypeOK
  BY DEF Inv, PanelFields, ChainFields, TypeOK
<1> QED
  BY <1>1, Invariance, PTL

(* One request starts a batch of a panel once at most: the chain cannot go   *)
(* round in circles.                                                         *)
THEOREM StartsOnce == Spec => []OncePerRequest
<1>1. Inv => OncePerRequest
  BY DEF Inv, ChainFields, OncePerRequest
<1> QED
  BY <1>1, Invariance, PTL

(* The standard deviation on display is that of the reference on display.    *)
THEOREM StdIsOfReference == Spec => []StdMatchesReference
<1>1. Inv => StdMatchesReference
  BY DEF Inv
<1> QED
  BY <1>1, Invariance, PTL

-----------------------------------------------------------------------------
(* The end of a chain.  A batch that ends with a result stores the 100% T in *)
(* the same frame in which the chain sees its end, before a widget can       *)
(* change what is selected.                                                  *)

Running == stdPhase # "idle" => stdResult = {}

EndSeen ==
  /\ chain.active = "T100" /\ chain.t100RefreshDone /\ started["T100"] = 1
  /\ stdPhase = "idle" /\ stdResult # {}

EndIsFresh ==
  EndSeen => pc = "chain" /\ t100Member = [label |-> selection, source |-> referenceSource]

EndInv == Running /\ EndIsFresh

LEMMA TicksEndInv ==
  ASSUME Inv, EndInv, AverageTick \/ StdTick
  PROVE  EndInv'
<1>1. CASE AverageTick
  BY <1>1 DEF AverageTick, Goto, t100, std, EndInv, Running, EndIsFresh, EndSeen
<1>2. CASE StdTick
  <2>1. /\ pc = "std" /\ pc' = "chain" /\ ~EndSeen
        /\ UNCHANGED <<selection, referenceSource, reference, chain, started>>
    BY <1>2 DEF StdTick, Goto, EndInv, EndIsFresh
  <2>2. CASE UNCHANGED <<std, stdReference, t100Member>>
    BY <2>1, <2>2 DEF std, EndInv, Running, EndIsFresh, EndSeen
  <2>3. CASE S!Submit({selection}) \/ S!Submit({})
    BY <2>1, <2>3 DEF S!Submit, EndInv, Running, EndIsFresh, EndSeen
  <2>4. CASE StdEnds({})
    BY <2>4 DEF StdEnds, S!End, EndInv, Running, EndIsFresh, EndSeen
  <2>5. CASE reference # NoData /\ StdEnds(stdGiven)
    BY <2>1, <2>5 DEF StdEnds, StoredT100, S!End, EndInv, Running, EndIsFresh
  <2> QED
    BY <1>2, <2>2, <2>3, <2>4, <2>5 DEF StdTick
<1> QED
  BY <1>1, <1>2

LEMMA ChainEndInv ==
  ASSUME Inv, EndInv, ChainTick
  PROVE  EndInv'
<1> USE DEF EndInv, Running, EndIsFresh, EndSeen
<1>0. chain \in Chains
  BY DEF Inv, ChainFields
<1>1. CASE NoStep \/ StepWaits
  BY <1>1 DEF NoStep, StepWaits, StepRunning, Goto, t100, std
<1>2. CASE FirstStep \/ AverageStepDone
  <2>1. UNCHANGED t100 /\ chain.active # "T100"
    BY <1>2 DEF FirstStep, AverageStepDone
  <2>2. \/ chain'.active = "None"
        \/ chain' = NextStep /\ chain.pending # << >>
    BY <1>0, <1>2 DEF FirstStep, AverageStepDone, Chains
  <2>3. ~EndSeen'
    BY <2>1, <2>2, NextStepTyped
  <2> QED
    BY <2>1, <2>3 DEF t100, std
<1>3. CASE \E cleared \in BOOLEAN : T100Step /\ AfterRefresh(cleared)
  <2>1. PICK cleared \in BOOLEAN : T100Step /\ AfterRefresh(cleared)
    BY <1>3
  <2>2. stdPhase = "idle"
    BY <2>1 DEF T100Step
  <2>3. CASE chain.t100RecomputeStd
    <3>1. stdResult' = {}
      BY <2>1, <2>3 DEF AfterRefresh, StartStd, S!Ask
    <3> QED
      BY <3>1
  <2>4. CASE ~chain.t100RecomputeStd
    <3>1. /\ chain' = [chain EXCEPT !.t100RefreshDone = TRUE, !.active = "None"]
          /\ IF cleared THEN ClearStd ELSE UNCHANGED <<std, stdReference>>
      BY <2>1, <2>4 DEF AfterRefresh
    <3>2. chain'.active = "None"
      BY <1>0, <3>1 DEF Chains
    <3>3. Running'
      BY <2>2, <3>1 DEF ClearStd, S!Abandon, std
    <3> QED
      BY <3>2, <3>3
  <2> QED
    BY <2>3, <2>4
<1>4. CASE RebuildRejected
  <2>1. started["T100"] = 0 /\ started' = started /\ UNCHANGED std
    BY <1>4 DEF RebuildRejected, T100Step, Inv, ChainFields
  <2> QED
    BY <2>1 DEF std
<1>5. CASE T100StepDone
  <2>1. chain' = [chain EXCEPT !.active = "None"] /\ UNCHANGED t100
    BY <1>5 DEF T100StepDone
  <2>2. chain'.active = "None"
    BY <1>0, <2>1 DEF Chains
  <2> QED
    BY <2>1, <2>2 DEF t100, std
<1> QED
  BY <1>1, <1>2, <1>3, <1>4, <1>5
     DEF ChainTick, T100IsFresh, RebuildFromFile, RebuildFromAverage, RebuildReference,
         RebuildTransmittance

LEMMA WidgetsEndInv ==
  ASSUME Inv, EndInv, Widgets
  PROVE  EndInv'
<1>1. pc = "panels" /\ ~EndSeen
  BY DEF Widgets, NoWidget, PressCalculateAverage, PressCalculateStd, PressRecomputeT100,
     Select, PressSource, SetFileReference, LoadCsv, UseAverage, SetReference, ShowFile,
     SaveAs, DeleteAverage, Strip, Widget, Goto, EndInv, EndIsFresh
<1>2. \/ stdPhase' = "idle" /\ stdResult' = {}
      \/ UNCHANGED <<stdPhase, stdResult>>
  BY DEF Widgets, NoWidget, PressCalculateAverage, PressCalculateStd, PressRecomputeT100,
     Select, PressSource, SetFileReference, LoadCsv, UseAverage, SetReference, ShowFile,
     SaveAs, DeleteAverage, Strip, ClearStd, S!Abandon, t100, std
<1>3. \/ UNCHANGED <<chain, started>>
      \/ started'["T100"] = 0
  <2>1. CASE PressCalculateAverage \/ PressCalculateStd \/ PressRecomputeT100
    BY <2>1 DEF PressCalculateAverage, PressCalculateStd, PressRecomputeT100, Request
  <2>2. CASE ~(PressCalculateAverage \/ PressCalculateStd \/ PressRecomputeT100)
    BY <2>2 DEF Widgets, NoWidget, Select, PressSource, SetFileReference, LoadCsv, UseAverage,
       SetReference, ShowFile, SaveAs, DeleteAverage, Strip
  <2> QED
    BY <2>1, <2>2
<1>4. Running'
  BY <1>2 DEF EndInv, Running
<1>5. ~EndSeen'
  BY <1>1, <1>2, <1>3 DEF EndSeen
<1> QED
  BY <1>4, <1>5 DEF EndInv, EndIsFresh

(* A request that ends with a new standard deviation leaves no overlay.      *)
THEOREM StalenessIsCleared == Spec => ChainClearsStaleness
<1>1. Init => EndInv
  BY DEF Init, EndInv, Running, EndIsFresh, EndSeen, S!Init
<1>2. Inv /\ EndInv /\ [Next]_vars => EndInv'
  <2>1. ASSUME EndInv, UNCHANGED vars PROVE EndInv'
    BY <2>1 DEF vars, t100, std, EndInv, Running, EndIsFresh, EndSeen
  <2> QED
    BY <2>1, TicksEndInv, ChainEndInv, WidgetsEndInv DEF Next
<1>3. Inv /\ EndInv /\ [Next]_vars =>
        ((chain.active = "T100" /\ chain'.active = "None" /\ started["T100"] = 1 /\ stdResult # {}
           /\ (referenceSource = "average" => ~AverageDangles)) => ~T100Outdated)
  <2> SUFFICES ASSUME Inv, EndInv, [Next]_vars, chain.active = "T100", chain'.active = "None",
                      started["T100"] = 1, stdResult # {},
                      referenceSource = "average" => ~AverageDangles
               PROVE  ~T100Outdated
    OBVIOUS
  <2>1. chain.t100RefreshDone /\ chain' # chain
    BY DEF Inv, ChainFields
  <2>2. ~Widgets
    BY <2>1 DEF Widgets, NoWidget, PressCalculateAverage, PressCalculateStd, PressRecomputeT100,
       Request, Select, PressSource, SetFileReference, LoadCsv, UseAverage, SetReference, ShowFile,
       SaveAs, DeleteAverage, Strip
  <2>3. ChainTick
    BY <2>1, <2>2 DEF Next, AverageTick, StdTick, vars
  <2>4. T100StepDone
    BY <2>1, <2>3 DEF ChainTick, NoStep, FirstStep, StepWaits, AverageStepDone, T100IsFresh,
       RebuildFromFile, RebuildFromAverage, RebuildReference, RebuildTransmittance,
       RebuildRejected, T100Step
  <2>5. EndSeen
    BY <2>1, <2>4 DEF T100StepDone, EndSeen
  <2>6. t100Member = [label |-> selection, source |-> referenceSource]
    BY <2>5 DEF EndInv, EndIsFresh
  <2> QED
    BY <2>6 DEF T100Outdated
<1> QED
  BY <1>1, <1>2, <1>3, Invariance, PTL DEF Spec, ChainClearsStaleness
================================================================================
