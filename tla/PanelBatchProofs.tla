--------------------------- MODULE PanelBatchProofs ---------------------------
(***************************************************************************)
(* The batch of a panel, for any number of files, settings and units.       *)
(*                                                                          *)
(* The counters are cardinalities: totalSubmitted_ is the number of files   *)
(* submitted less those whose task was seen to throw, completedCount_ the   *)
(* number of futures read.  A batch that was asked for starts from nothing, *)
(* whatever an abandoned one left behind.  The units follow from the latch  *)
(* of the view, which is behind the selector between the panels and the     *)
(* view of one frame and nowhere else.                                      *)
(***************************************************************************)
EXTENDS PanelBatch, FiniteSetTheorems, TLAPS

(* The files whose future was read and gave o. *)
Read(o) == {f \in taken : pending[f] = o}

(* The fields that are no counters. *)
Fields ==
  /\ pc \in {"tick", "poll", "chain", "panel", "view"}
  /\ shown \in BOOLEAN
  /\ settings \in Settings
  /\ unit \in Units /\ prevUnit \in Units
  /\ files \subseteq Files /\ checked \subseteq files
  /\ chain \in {"none", "pending", "active"}
  /\ phase \in {"idle", "asked", "running"}
  /\ batch \in [settings : Settings, unit : Units]
  /\ average \in Spectra \cup {NoData}
  /\ member \in Members \cup {NoData}

Futures ==
  /\ DOMAIN pending \subseteq Files
  /\ \A f \in DOMAIN pending : pending[f] \in {Queued} \cup Outcomes
  /\ taken \subseteq DOMAIN pending
  /\ \A f \in taken : pending[f] # Queued
  /\ DOMAIN fileResults \subseteq DOMAIN pending
  /\ \A f \in DOMAIN fileResults : fileResults[f] \in AnyUnit

Counters ==
  /\ total \in 0 .. Cardinality(Files) /\ completed \in 0 .. Cardinality(Files)
  /\ phase = "asked" =>
       /\ taken = {} /\ DOMAIN fileResults = {} /\ completed = 0
  /\ phase = "running" =>
       /\ total = Cardinality(DOMAIN pending) - Cardinality(Read("throws"))
       /\ completed = Cardinality(taken)
       /\ DOMAIN fileResults = Read("ok")

(* A batch that goes on has more futures to come than exceptions seen. *)
Waiting ==
  /\ pc = "poll" => phase = "running"
  /\ phase = "running" /\ pc # "poll" =>
       Cardinality(DOMAIN pending \ taken) > Cardinality(Read("throws"))

Axes ==
  /\ pc # "view" => prevUnit = unit
  /\ \A f \in DOMAIN fileResults : phase = "running" => fileResults[f] = prevUnit
  /\ average # NoData => average.unit = prevUnit
  /\ member # NoData => member.dataUnit = member.unit

Inv == Fields /\ Futures /\ Counters /\ Waiting /\ Axes

-----------------------------------------------------------------------------
(* Counting *)

LEMMA Counted ==
  ASSUME NEW S \in SUBSET Files
  PROVE  IsFiniteSet(S) /\ Cardinality(S) \in 0 .. Cardinality(Files)
<1>1. IsFiniteSet(Files)
  BY PanelBatchAssumption
<1>2. Cardinality(S) \in Nat /\ Cardinality(Files) \in Nat
  BY <1>1, FS_CardinalityType, FS_Subset
<1> QED
  BY <1>1, <1>2, FS_Subset

LEMMA DisjointSum ==
  ASSUME NEW S \in SUBSET Files, NEW T \in SUBSET Files, S \cap T = {}
  PROVE  Cardinality(S \cup T) = Cardinality(S) + Cardinality(T)
<1>1. IsFiniteSet(S) /\ IsFiniteSet(T) /\ Cardinality(S) \in Nat /\ Cardinality(T) \in Nat
  BY Counted
<1>2. Cardinality(S \cap T) = 0
  BY FS_EmptySet
<1>3. Cardinality(S \cup T) = Cardinality(S) + Cardinality(T) - Cardinality(S \cap T)
  BY <1>1, FS_Union
<1> QED
  BY <1>1, <1>2, <1>3

LEMMA Remaining ==
  ASSUME NEW S \in SUBSET Files, NEW T \in SUBSET S
  PROVE  Cardinality(S \ T) = Cardinality(S) - Cardinality(T)
<1>1. IsFiniteSet(S) /\ S \cap T = T
  BY Counted
<1> QED
  BY <1>1, FS_Difference

(* An average made of spectra of one unit is in that unit. *)
LEMMA UnitOfAll ==
  ASSUME NEW spectra, NEW u, DOMAIN spectra # {}, \A f \in DOMAIN spectra : spectra[f] = u
  PROVE  UnitOf(spectra) = u
<1>1. {spectra[f] : f \in DOMAIN spectra} = {u}
  OBVIOUS
<1>2. Cardinality({u}) = 1
  BY FS_Singleton
<1>3. (CHOOSE v \in {u} : TRUE) = u
  OBVIOUS
<1> QED
  BY <1>1, <1>2, <1>3 DEF UnitOf

-----------------------------------------------------------------------------
(* What a poll finds *)

LEMMA ReadyFutures ==
  ASSUME Futures
  PROVE  /\ Ready = {f \in DOMAIN pending \ taken : pending[f] # Queued}
         /\ Ready \subseteq DOMAIN pending /\ Ready \cap taken = {}
         /\ DOMAIN Buffered = DOMAIN fileResults \cup ReadyWith("ok")
         /\ DOMAIN Buffered \subseteq DOMAIN pending
<1>1. Ready = {f \in DOMAIN pending \ taken : pending[f] \in Outcomes}
  BY DEF Ready, ReadyWith
<1>2. Ready = {f \in DOMAIN pending \ taken : pending[f] # Queued}
  BY <1>1 DEF Futures, Outcomes, Queued
<1>3. DOMAIN Buffered = DOMAIN fileResults \cup ReadyWith("ok")
  BY DEF Buffered
<1> QED
  BY <1>2, <1>3 DEF Futures, ReadyWith

(* The counters are those of the futures read so far, this poll included.    *)
LEMMA PolledCounters ==
  ASSUME Fields, Futures, Counters, phase = "running"
  PROVE  LET read == taken \cup Ready
             threw == {f \in read : pending[f] = "throws"}
         IN  /\ CompletedAfterPoll = Cardinality(read)
             /\ TotalAfterPoll = Cardinality(DOMAIN pending) - Cardinality(threw)
             /\ CompletedAfterPoll \in 0 .. Cardinality(Files)
             /\ TotalAfterPoll \in 0 .. Cardinality(Files)
             /\ Cardinality(DOMAIN pending \ read) = Cardinality(DOMAIN pending) - Cardinality(read)
<1> DEFINE read == taken \cup Ready
           threw == {f \in read : pending[f] = "throws"}
<1>1. /\ DOMAIN pending \in SUBSET Files
      /\ Ready \subseteq DOMAIN pending /\ Ready \cap taken = {} /\ taken \subseteq DOMAIN pending
  BY ReadyFutures DEF Futures
<1>2. CompletedAfterPoll = Cardinality(read)
  BY <1>1, DisjointSum DEF Counters, CompletedAfterPoll
<1>3. threw = Read("throws") \cup ReadyWith("throws") /\ Read("throws") \cap ReadyWith("throws") = {}
  BY ReadyFutures DEF Futures, Read, ReadyWith, Queued
<1>4. Cardinality(threw) = Cardinality(Read("throws")) + Cardinality(ReadyWith("throws"))
  BY <1>1, <1>3, DisjointSum DEF Read, ReadyWith
<1>5. /\ Cardinality(DOMAIN pending) \in Nat
      /\ Cardinality(Read("throws")) \in Nat /\ Cardinality(ReadyWith("throws")) \in Nat
      /\ Cardinality(read) \in 0 .. Cardinality(Files)
  BY <1>1, Counted DEF Read, ReadyWith
<1>6. TotalAfterPoll = Cardinality(DOMAIN pending) - Cardinality(threw)
  BY <1>4, <1>5 DEF Counters, TotalAfterPoll
<1>7. threw \in SUBSET DOMAIN pending /\ read \in SUBSET DOMAIN pending
  BY <1>1
<1>8. Cardinality(DOMAIN pending \ threw) \in 0 .. Cardinality(Files)
  BY <1>1, Counted
<1> QED
  BY <1>1, <1>2, <1>5, <1>6, <1>7, <1>8, Remaining

(* Every buffered spectrum is in the unit selected now, and so is what is    *)
(* made of them.                                                             *)
LEMMA PolledUnits ==
  ASSUME Inv, phase = "running", pc \in {"tick", "poll"}
  PROVE  /\ \A f \in DOMAIN Buffered : Buffered[f] = unit
         /\ Made.files = DOMAIN Buffered \cap files
         /\ Made.files \subseteq DOMAIN pending
         /\ Cardinality(Made.files) >= Enough =>
              Made = [files |-> Made.files, settings |-> batch.settings, unit |-> unit]
<1>1. \A f \in DOMAIN Buffered : Buffered[f] = unit
  BY DEF Inv, Axes, Buffered, Convert
<1>2. Made.files = DOMAIN Buffered \cap files /\ Made.files \subseteq DOMAIN pending
  BY ReadyFutures DEF Inv, Made
<1>3. ASSUME Cardinality(Made.files) >= Enough
      PROVE  UnitOf(Restrict(Buffered, Made.files)) = unit
  <2>1. Made.files # {}
    BY <1>3, FS_EmptySet, PanelBatchAssumption
  <2>2. /\ DOMAIN Restrict(Buffered, Made.files) = Made.files
        /\ \A f \in Made.files : Restrict(Buffered, Made.files)[f] = unit
    BY <1>1, <1>2 DEF Restrict
  <2> QED
    BY <2>1, <2>2, UnitOfAll
<1> QED
  BY <1>1, <1>2, <1>3 DEF Made

-----------------------------------------------------------------------------
(* The steps *)

LEMMA InitInv == Init => Inv
<1> SUFFICES ASSUME Init PROVE Inv
  OBVIOUS
<1>1. checked \subseteq Files /\ DOMAIN NoFiles = {} /\ Cardinality(Files) \in Nat
  BY PanelBatchAssumption, FS_CardinalityType DEF Init, NoFiles
<1>2. Fields
  BY <1>1, PanelBatchAssumption DEF Init, Fields, Spectra, Members, AnyUnit
<1>3. Futures /\ Counters /\ Waiting
  BY <1>1 DEF Init, Futures, Counters, Waiting
<1>4. Axes
  <2>1. average # NoData => average.unit = prevUnit
    BY DEF Init
  <2>2. member # NoData => member.dataUnit = member.unit
    BY DEF Init
  <2> QED
    BY <2>1, <2>2 DEF Init, Axes
<1> QED
  BY <1>2, <1>3, <1>4 DEF Inv

(* A step that leaves the futures and counters alone, and at most abandons   *)
(* the batch.                                                                *)
LEMMA EngineKept ==
  ASSUME Futures, Counters, Waiting,
         UNCHANGED <<pending, taken, total, completed>>,
         phase' \in {phase, "idle"},
         DOMAIN fileResults' = DOMAIN fileResults,
         \A f \in DOMAIN fileResults : fileResults'[f] \in AnyUnit,
         pc # "poll", pc' # "poll"
  PROVE  Futures' /\ Counters' /\ Waiting'
<1>1. \A o : Read(o)' = Read(o)
  BY DEF Read
<1> QED
  BY <1>1 DEF Futures, Counters, Waiting

(* So do all that are not of the engine at all. *)
LEMMA EngineUntouched ==
  ASSUME Futures, Counters, Waiting, UNCHANGED engine, pc # "poll", pc' # "poll"
  PROVE  Futures' /\ Counters' /\ Waiting'
<1>1. /\ UNCHANGED <<pending, taken, total, completed>>
      /\ phase' = phase /\ fileResults' = fileResults
  BY DEF engine
<1>2. \A f \in DOMAIN fileResults : fileResults'[f] \in AnyUnit
  BY <1>1 DEF Futures
<1> QED
  BY <1>1, <1>2, EngineKept

LEMMA ConvertsTyped ==
  ASSUME NEW u \in AnyUnit, NEW from \in Units, NEW to \in Units
  PROVE  Convert(u, from, to) \in AnyUnit /\ Convert(from, from, to) = to
BY DEF Convert, AnyUnit

(* A change of the unit takes everything on display along. *)
LEMMA ConvertDataKeeps ==
  ASSUME Inv, NEW from \in Units, NEW to \in Units, ConvertData(from, to)
  PROVE  /\ average' \in Spectra \cup {NoData}
         /\ average' = NoData <=> average = NoData
         /\ average # NoData =>
              /\ average'.files = average.files /\ average'.settings = average.settings
              /\ average.unit = from => average'.unit = to
         /\ DOMAIN fileResults' = DOMAIN fileResults
         /\ \A f \in DOMAIN fileResults : /\ fileResults'[f] \in AnyUnit
                                          /\ fileResults[f] = from => fileResults'[f] = to
<1>1. fileResults' = [f \in DOMAIN fileResults |-> Convert(fileResults[f], from, to)]
  BY DEF ConvertData, Converted
<1>2. \A f \in DOMAIN fileResults : fileResults[f] \in AnyUnit
  BY DEF Inv, Futures
<1>3. /\ DOMAIN fileResults' = DOMAIN fileResults
      /\ \A f \in DOMAIN fileResults : /\ fileResults'[f] \in AnyUnit
                                       /\ fileResults[f] = from => fileResults'[f] = to
  BY <1>1, <1>2, ConvertsTyped
<1>4. CASE average = NoData
  BY <1>3, <1>4 DEF ConvertData, ConvertedAverage
<1>5. CASE average # NoData
  <2>1. average \in Spectra
    BY <1>5 DEF Inv, Fields
  <2>2. average' = [average EXCEPT !.unit = Convert(average.unit, from, to)]
    BY <1>5 DEF ConvertData, ConvertedAverage
  <2>3. Convert(average.unit, from, to) \in AnyUnit
    BY <2>1, ConvertsTyped DEF Spectra
  <2>4. average' \in Spectra
    BY <2>1, <2>2, <2>3 DEF Spectra
  <2>5. /\ average'.files = average.files /\ average'.settings = average.settings
        /\ average'.unit = Convert(average.unit, from, to)
    BY <2>1, <2>2 DEF Spectra
  <2>6. average' # NoData
    BY <2>4, NoDataAssumption
  <2> QED
    BY <1>3, <1>5, <2>4, <2>5, <2>6 DEF Convert
<1> QED
  BY <1>4, <1>5

(* The files checked at this moment are submitted. *)
LEMMA SubmitInv ==
  ASSUME Inv, Submit
  PROVE  Inv'
<1>1. /\ phase = "asked" /\ pc = "tick"
      /\ \/ checked = {} /\ phase' = "idle" /\ pc' = "chain"
         \/ checked # {} /\ phase' = "running" /\ pc' = "poll"
      /\ batch' = [settings |-> settings, unit |-> unit]
      /\ pending' = [f \in checked |-> Queued] /\ total' = Cardinality(checked)
      /\ taken' = taken /\ completed' = completed /\ fileResults' = fileResults
      /\ average' = average /\ member' = member /\ shown' = shown /\ chain' = chain
      /\ settings' = settings /\ unit' = unit /\ prevUnit' = prevUnit
      /\ files' = files /\ checked' = checked
  BY DEF Submit, results, selectors
<1>2. /\ taken = {} /\ DOMAIN fileResults = {} /\ completed = 0
      /\ checked \in SUBSET Files
  BY <1>1 DEF Inv, Counters, Fields
<1>3. Read("throws")' = {} /\ Read("ok")' = {}
  BY <1>1, <1>2 DEF Read
<1>4. Cardinality({}) = 0 /\ Cardinality(checked) \in 0 .. Cardinality(Files)
  BY <1>2, FS_EmptySet, Counted
<1>5. Fields'
  BY <1>1 DEF Inv, Fields
<1>6. Futures'
  BY <1>1, <1>2 DEF Futures
<1>7. Counters'
  <2>1. DOMAIN pending' = checked /\ Cardinality(checked) = Cardinality(checked) - Cardinality({})
    BY <1>1, <1>4
  <2>2. /\ total' = Cardinality(DOMAIN pending') - Cardinality(Read("throws")')
        /\ completed' = Cardinality(taken') /\ DOMAIN fileResults' = Read("ok")'
    BY <1>1, <1>2, <1>3, <1>4, <2>1
  <2>3. total' \in 0 .. Cardinality(Files) /\ completed' \in 0 .. Cardinality(Files)
    BY <1>1, <1>4 DEF Inv, Counters
  <2> QED
    BY <1>1, <2>2, <2>3 DEF Counters
<1>8. Waiting' /\ Axes'
  BY <1>1, <1>2 DEF Inv, Waiting, Axes
<1> QED
  BY <1>5, <1>6, <1>7, <1>8 DEF Inv

(* The futures that are ready are read; if they are enough the batch ends. *)
LEMMA PollInv ==
  ASSUME Inv, Poll
  PROVE  Inv'
<1> DEFINE read == taken \cup Ready
           threw == {f \in read : pending[f] = "throws"}
<1>1. /\ phase = "running" /\ pc \in {"tick", "poll"} /\ pc' = "chain"
      /\ taken' = read /\ total' = TotalAfterPoll /\ completed' = CompletedAfterPoll
      /\ batch' = batch /\ pending' = pending /\ shown' = shown /\ chain' = chain
      /\ settings' = settings /\ unit' = unit /\ prevUnit' = prevUnit
      /\ files' = files /\ checked' = checked
  BY DEF Poll, selectors
<1>2. /\ prevUnit = unit /\ unit \in Units /\ Units \subseteq AnyUnit
  BY <1>1 DEF Inv, Axes, Fields, AnyUnit
<1>3. \/ /\ CompletedAfterPoll < TotalAfterPoll /\ fileResults' = Buffered
         /\ phase' = phase /\ average' = average /\ member' = member
      \/ /\ phase' = "idle" /\ fileResults' = NoFiles
         /\ \/ average' = NoData /\ member' = member
            \/ /\ Cardinality(Made.files) >= Enough
               /\ average' = Made /\ member' = MemberOf(Made)
  <2>1. CompletedAfterPoll \in Int /\ TotalAfterPoll \in Int
    BY <1>1, PolledCounters DEF Inv
  <2> QED
    BY <2>1 DEF Poll, Finish, results
<1>4. /\ completed' = Cardinality(read)
      /\ total' = Cardinality(DOMAIN pending) - Cardinality(threw)
      /\ completed' \in 0 .. Cardinality(Files) /\ total' \in 0 .. Cardinality(Files)
      /\ Cardinality(DOMAIN pending \ read) = Cardinality(DOMAIN pending) - Cardinality(read)
  BY <1>1, PolledCounters DEF Inv
<1>5. /\ \A f \in DOMAIN Buffered : Buffered[f] = unit
      /\ Made.files = DOMAIN Buffered \cap files
      /\ Made.files \subseteq DOMAIN pending
      /\ Cardinality(Made.files) >= Enough =>
           Made = [files |-> Made.files, settings |-> batch.settings, unit |-> unit]
  BY <1>1, PolledUnits
<1>6. /\ Read("throws")' = threw
      /\ Read("ok")' = Read("ok") \cup ReadyWith("ok")
      /\ Read("ok")' \subseteq read
  BY <1>1, ReadyFutures DEF Inv, Read, ReadyWith, Queued
<1>7. Fields'
  <2>1. CASE Cardinality(Made.files) >= Enough /\ average' = Made /\ member' = MemberOf(Made)
    <3> DEFINE valid == Made.files
    <3>1. Made = [files |-> valid, settings |-> batch.settings, unit |-> unit]
      BY <1>5, <2>1
    <3>2. valid \subseteq Files /\ batch.settings \in Settings
      BY <1>5 DEF Inv, Fields, Futures
    <3>3. Made.unit = unit
      BY <3>1
    <3> HIDE DEF valid
    <3>4. average' \in Spectra
      BY <1>2, <2>1, <3>1, <3>2 DEF Spectra
    <3>5. member' \in Members
      BY <1>2, <2>1, <3>3 DEF MemberOf, Members, Inv, Fields
    <3> QED
      BY <1>1, <1>3, <3>4, <3>5 DEF Inv, Fields
  <2>2. CASE average' \in {average, NoData} /\ member' = member
    BY <1>1, <1>3, <2>2 DEF Inv, Fields
  <2> QED
    BY <1>3, <2>1, <2>2
<1>8. Futures'
  <2>1. read \subseteq DOMAIN pending /\ \A f \in read : pending[f] # Queued
    BY ReadyFutures DEF Inv, Futures
  <2>2. DOMAIN NoFiles = {} /\ DOMAIN Buffered \subseteq DOMAIN pending
    BY ReadyFutures DEF Inv, NoFiles
  <2>3. /\ DOMAIN fileResults' \subseteq DOMAIN pending
        /\ \A f \in DOMAIN fileResults' : fileResults'[f] \in AnyUnit
    BY <1>2, <1>3, <1>5, <2>2
  <2> QED
    BY <1>1, <2>1, <2>3 DEF Inv, Futures
<1>9. Counters'
  <2>1. phase' = "running" => DOMAIN fileResults' = Read("ok")'
    BY <1>1, <1>3, <1>6, ReadyFutures DEF Inv, Counters
  <2> QED
    BY <1>1, <1>3, <1>4, <1>6, <2>1 DEF Counters
<1>10. Waiting'
  <2>1. ASSUME phase' = "running"
        PROVE  Cardinality(DOMAIN pending \ read) > Cardinality(threw)
    <3>1. completed' < total'
      BY <1>1, <1>3, <2>1
    <3>2. Cardinality(DOMAIN pending) \in Int /\ Cardinality(threw) \in Int
      <4>1. DOMAIN pending \in SUBSET Files /\ threw \in SUBSET Files
        BY ReadyFutures DEF Inv, Futures
      <4> QED
        BY <4>1, Counted
    <3> QED
      BY <1>4, <3>1, <3>2
  <2> QED
    BY <1>1, <1>6, <2>1 DEF Waiting
<1>11. Axes'
  <2>1. \A f \in DOMAIN fileResults' : phase' = "running" => fileResults'[f] = prevUnit
    BY <1>1, <1>2, <1>3, <1>5
  <2>2. average' # NoData => average'.unit = prevUnit
    BY <1>2, <1>3, <1>5 DEF Inv, Axes
  <2>3. member' # NoData => member'.dataUnit = member'.unit
    BY <1>3, <1>5 DEF Inv, Axes, MemberOf
  <2> QED
    BY <1>1, <1>2, <2>1, <2>2, <2>3 DEF Axes
<1> QED
  BY <1>7, <1>8, <1>9, <1>10, <1>11 DEF Inv

(* The target of the chain is started, or observed to have ended. *)
LEMMA TickChainInv ==
  ASSUME Inv, TickChain
  PROVE  Inv'
<1>1. /\ pc = "chain" /\ pc' = "panel" /\ shown' = shown /\ member' = member
      /\ settings' = settings /\ unit' = unit /\ prevUnit' = prevUnit
      /\ files' = files /\ checked' = checked
      /\ chain' \in {"none", "pending", "active"}
  BY DEF TickChain, Goto, selectors, Inv, Fields
<1>2. CASE UNCHANGED <<engine, average>>
  <2>1. Futures' /\ Counters' /\ Waiting'
    BY <1>1, <1>2, EngineUntouched DEF Inv
  <2>2. phase' = phase /\ batch' = batch /\ fileResults' = fileResults /\ average' = average
    BY <1>2 DEF engine
  <2>3. Fields'
    BY <1>1, <2>2 DEF Inv, Fields
  <2>4. Axes'
    BY <1>1, <2>2 DEF Inv, Axes
  <2> QED
    BY <2>1, <2>3, <2>4 DEF Inv
<1>3. CASE StartCalculation
  <2>1. /\ phase' = "asked" /\ batch' = batch /\ average' = NoData
        /\ pending' = NoFiles /\ taken' = {} /\ fileResults' = NoFiles
        /\ total' = 0 /\ completed' = 0 /\ DOMAIN NoFiles = {}
    BY <1>3 DEF StartCalculation, NoFiles
  <2>2. Cardinality(Files) \in Nat
    BY FS_CardinalityType, PanelBatchAssumption
  <2>3. Fields'
    BY <1>1, <2>1 DEF Inv, Fields
  <2>4. Futures' /\ Counters' /\ Waiting'
    BY <1>1, <2>1, <2>2 DEF Futures, Counters, Waiting
  <2>5. Axes'
    BY <1>1, <2>1 DEF Inv, Axes
  <2> QED
    BY <2>3, <2>4, <2>5 DEF Inv
<1> QED
  BY <1>2, <1>3 DEF TickChain

(* A widget that changes selectors only. *)
LEMMA SelectorsInv ==
  ASSUME Inv, Widget, UNCHANGED <<prevUnit, engine, results>>,
         settings' \in Settings, unit' \in Units, files' = files, checked' \subseteq files,
         chain' \in {"none", "pending", "active"}
  PROVE  Inv'
<1>1. /\ pc = "panel" /\ pc' = "view" /\ shown' = shown /\ prevUnit' = prevUnit
      /\ phase' = phase /\ batch' = batch /\ fileResults' = fileResults
      /\ average' = average /\ member' = member
  BY DEF Widget, Goto, engine, results
<1>2. Futures' /\ Counters' /\ Waiting'
  BY <1>1, EngineUntouched DEF Inv
<1>3. Fields'
  BY <1>1 DEF Inv, Fields
<1>4. Axes'
  BY <1>1 DEF Inv, Axes
<1> QED
  BY <1>2, <1>3, <1>4 DEF Inv

LEMMA SelectorWidgetsInv ==
  ASSUME Inv,
         \/ NoWidget \/ PressCalculate
         \/ \E s \in Settings : EditSettings(s)
         \/ \E f \in Files : ToggleChecked(f)
         \/ \E u \in Units : PressUnit(u)
  PROVE  Inv'
<1> USE DEF Inv, Fields
<1>1. CASE NoWidget
  BY <1>1, SelectorsInv DEF NoWidget, selectors
<1>2. CASE PressCalculate
  BY <1>2, SelectorsInv DEF PressCalculate, selectors
<1>3. CASE \E s \in Settings : EditSettings(s)
  BY <1>3, SelectorsInv DEF EditSettings
<1>4. CASE \E f \in Files : ToggleChecked(f)
  BY <1>4, SelectorsInv DEF ToggleChecked
<1>5. CASE \E u \in Units : PressUnit(u)
  BY <1>5, SelectorsInv DEF PressUnit
<1> QED
  BY <1>1, <1>2, <1>3, <1>4, <1>5

(* The unit of another view is taken over, with the data and the latch. *)
LEMMA MatchXInv ==
  ASSUME Inv, NEW u \in Units, MatchX(u)
  PROVE  Inv'
<1>1. /\ pc = "panel" /\ pc' = "view" /\ shown' = shown
      /\ unit' = u /\ prevUnit' = u /\ settings' = settings /\ files' = files
      /\ checked' = checked /\ chain' = chain /\ phase' = phase /\ batch' = batch
      /\ member' = member /\ UNCHANGED <<pending, taken, total, completed>>
  BY DEF MatchX, Widget, Goto
<1>2. unit \in Units /\ prevUnit = unit
  BY <1>1 DEF Inv, Fields, Axes
<1>3. /\ average' \in Spectra \cup {NoData}
      /\ average' = NoData <=> average = NoData
      /\ average # NoData /\ average.unit = unit => average'.unit = u
      /\ DOMAIN fileResults' = DOMAIN fileResults
      /\ \A f \in DOMAIN fileResults : /\ fileResults'[f] \in AnyUnit
                                       /\ fileResults[f] = unit => fileResults'[f] = u
  BY <1>2, ConvertDataKeeps DEF MatchX
<1>4. Futures' /\ Counters' /\ Waiting'
  BY <1>1, <1>3, EngineKept DEF Inv
<1>5. Fields'
  BY <1>1, <1>3 DEF Inv, Fields
<1>6. Axes'
  BY <1>1, <1>2, <1>3 DEF Inv, Axes
<1> QED
  BY <1>4, <1>5, <1>6 DEF Inv

(* The view sees that the unit has changed. *)
LEMMA ViewInv ==
  ASSUME Inv, View
  PROVE  Inv'
<1>1. /\ pc = "view" /\ pc' = "tick" /\ shown' = shown
      /\ unit' = unit /\ prevUnit' = unit /\ settings' = settings /\ files' = files
      /\ checked' = checked /\ chain' = chain /\ phase' = phase /\ batch' = batch
      /\ member' = member /\ UNCHANGED <<pending, taken, total, completed>>
  BY DEF View, Goto
<1>2. unit \in Units /\ prevUnit \in Units
  BY DEF Inv, Fields
<1>3. /\ average' \in Spectra \cup {NoData}
      /\ average' = NoData <=> average = NoData
      /\ average # NoData /\ average.unit = prevUnit => average'.unit = unit
      /\ DOMAIN fileResults' = DOMAIN fileResults
      /\ \A f \in DOMAIN fileResults : /\ fileResults'[f] \in AnyUnit
                                       /\ fileResults[f] = prevUnit => fileResults'[f] = unit
  <2>1. CASE unit # prevUnit
    BY <1>2, <2>1, ConvertDataKeeps DEF View
  <2>2. CASE unit = prevUnit
    BY <2>2 DEF View, Inv, Fields, Futures
  <2> QED
    BY <2>1, <2>2
<1>4. Futures' /\ Counters' /\ Waiting'
  BY <1>1, <1>3, EngineKept DEF Inv
<1>5. Fields'
  BY <1>1, <1>3 DEF Inv, Fields
<1>6. Axes'
  BY <1>1, <1>3 DEF Inv, Axes
<1> QED
  BY <1>4, <1>5, <1>6 DEF Inv

(* A reset abandons the batch and forgets the average. *)
LEMMA ResetInv ==
  ASSUME Inv, Widget, Reset, settings' = settings, chain' = chain,
         files' \subseteq files, checked' \subseteq files',
         member' \in {member, NoData}
  PROVE  Inv'
<1>1. /\ pc = "panel" /\ pc' = "view" /\ shown' = shown
      /\ phase' = "idle" /\ average' = NoData /\ unit' = DefaultUnit /\ prevUnit' = DefaultUnit
      /\ batch' = batch /\ fileResults' = fileResults
      /\ UNCHANGED <<pending, taken, total, completed>>
  BY DEF Widget, Goto, Reset
<1>2. \A f \in DOMAIN fileResults : fileResults[f] \in AnyUnit
  BY DEF Inv, Futures
<1>3. Futures' /\ Counters' /\ Waiting'
  BY <1>1, <1>2, EngineKept DEF Inv
<1>4. Fields'
  BY <1>1, PanelBatchAssumption DEF Inv, Fields
<1>5. Axes'
  BY <1>1 DEF Inv, Axes
<1> QED
  BY <1>3, <1>4, <1>5 DEF Inv

LEMMA ResetsInv ==
  ASSUME Inv, StripDerivatives \/ \E f \in Files : DeleteFile(f)
  PROVE  Inv'
<1>1. CASE StripDerivatives
  BY <1>1, ResetInv DEF StripDerivatives, Inv, Fields
<1>2. CASE \E f \in Files : DeleteFile(f)
  BY <1>2, ResetInv DEF DeleteFile, Inv, Fields
<1> QED
  BY <1>1, <1>2

(* A task ends: its future may be read from now on. *)
LEMMA TaskEndsInv ==
  ASSUME Inv, NEW f \in Files, TaskEnds(f)
  PROVE  Inv'
<1>1. PICK o \in Outcomes : pending' = [pending EXCEPT ![f] = o]
  BY DEF TaskEnds
<1>2. /\ f \in DOMAIN pending /\ pending[f] = Queued /\ pc' = pc
      /\ shown' = shown /\ chain' = chain /\ phase' = phase /\ batch' = batch
      /\ taken' = taken /\ total' = total /\ completed' = completed
      /\ fileResults' = fileResults /\ average' = average /\ member' = member
      /\ settings' = settings /\ unit' = unit /\ prevUnit' = prevUnit
      /\ files' = files /\ checked' = checked
  BY DEF TaskEnds, selectors, results
<1>3. DOMAIN pending' = DOMAIN pending /\ f \notin taken
  BY <1>1, <1>2 DEF Inv, Futures
<1>4. \A g \in DOMAIN pending : pending'[g] = IF g = f THEN o ELSE pending[g]
  BY <1>1, <1>2
<1>5. \A k : Read(k)' = Read(k)
  BY <1>2, <1>3, <1>4 DEF Read, Inv, Futures
<1>6. Fields'
  BY <1>2 DEF Inv, Fields
<1>7. Futures'
  BY <1>2, <1>3, <1>4 DEF Inv, Futures
<1>8. Counters' /\ Waiting'
  BY <1>2, <1>3, <1>5 DEF Inv, Counters, Waiting
<1>9. Axes'
  BY <1>2 DEF Inv, Axes
<1> QED
  BY <1>6, <1>7, <1>8, <1>9 DEF Inv

(* What changes neither the batch nor what is on display. *)
LEMMA OutsideInv ==
  ASSUME Inv, NothingToTick \/ SwitchTab \/ UNCHANGED vars
  PROVE  Inv'
<1>1. /\ UNCHANGED engine /\ phase' = phase /\ batch' = batch /\ fileResults' = fileResults
      /\ average' = average /\ member' = member /\ chain' = chain
      /\ settings' = settings /\ unit' = unit /\ prevUnit' = prevUnit
      /\ files' = files /\ checked' = checked
      /\ shown' \in {shown, ~shown}
      /\ pc' = pc \/ (pc = "tick" /\ pc' = "chain")
  BY DEF NothingToTick, SwitchTab, Goto, selectors, engine, results, vars
<1>2. Fields'
  BY <1>1 DEF Inv, Fields
<1>3. Futures' /\ Counters' /\ Waiting'
  <2>1. \A o : Read(o)' = Read(o)
    BY <1>1 DEF Read, engine
  <2> QED
    BY <1>1, <2>1 DEF Inv, Futures, Counters, Waiting, engine
<1>4. Axes'
  BY <1>1 DEF Inv, Axes
<1> QED
  BY <1>2, <1>3, <1>4 DEF Inv

LEMMA NextInv == Inv /\ [Next]_vars => Inv'
<1>1. ASSUME Inv, Next PROVE Inv'
  <2>1. CASE Widgets
    BY <1>1, <2>1, SelectorWidgetsInv, MatchXInv, ResetsInv DEF Widgets
  <2>2. CASE Submit \/ Poll \/ TickChain \/ View
    BY <1>1, <2>2, SubmitInv, PollInv, TickChainInv, ViewInv
  <2>3. CASE NothingToTick \/ SwitchTab
    BY <1>1, <2>3, OutsideInv
  <2>4. CASE \E f \in Files : TaskEnds(f)
    BY <1>1, <2>4, TaskEndsInv
  <2> QED
    BY <1>1, <2>1, <2>2, <2>3, <2>4 DEF Next, Frame
<1> QED
  BY <1>1, OutsideInv

-----------------------------------------------------------------------------
(* The invariant holds throughout. *)
THEOREM Invariance == Spec => []Inv
<1> QED
  BY InitInv, NextInv, PTL DEF Spec

(* The state keeps its type, the counters among it: they never leave the     *)
(* number of files.                                                          *)
THEOREM TypeCorrect == Spec => []TypeOK
<1>1. Inv => TypeOK
  BY DEF Inv, Fields, Futures, Counters, TypeOK
<1> QED
  BY <1>1, Invariance, PTL

(* No spectrum is converted twice and none is forgotten, whenever the unit   *)
(* of the axis is switched.                                                  *)
THEOREM UnitsAgree == Spec => []OneUnit
<1>1. Inv => OneUnit
  BY DEF Inv, Axes, OneUnit
<1> QED
  BY <1>1, Invariance, PTL

(* The counters are those of the futures, and a batch that goes on has more  *)
(* of them to come than exceptions seen.                                     *)
THEOREM CountersAgree == Spec => []CompleteAverage
<1>1. Inv => CompleteAverage
  BY DEF Inv, Counters, Waiting, Read, CompleteAverage
<1> QED
  BY <1>1, Invariance, PTL

-----------------------------------------------------------------------------
(* Refinement *)

(* What BatchPromise sees of the panel. *)
Given == IF phase = "running" THEN (DOMAIN pending) \X {batch.settings} ELSE {}
Result == IF average = NoData THEN {} ELSE average.files \X {average.settings}

LEMMA PairsCounted ==
  ASSUME NEW S \in SUBSET Files, NEW c
  PROVE  Cardinality(S \X {c}) = Cardinality(S)
<1> DEFINE pair == [f \in S |-> <<f, c>>]
<1>1. pair \in Bijection(S, S \X {c})
  <2>1. pair \in [S -> S \X {c}]
    OBVIOUS
  <2>2. \A f, g \in S : pair[f] = pair[g] => f = g
    OBVIOUS
  <2>3. \A p \in S \X {c} : \E f \in S : pair[f] = p
    OBVIOUS
  <2> QED
    BY <2>1, <2>2, <2>3, Zenon DEF Bijection, Injection, Surjection, IsInjective
<1>2. ExistsBijection(S, S \X {c})
  BY <1>1 DEF ExistsBijection
<1>3. IsFiniteSet(S)
  BY Counted
<1> QED
  BY <1>2, <1>3, FS_Bijection

LEMMA InitRefines == Init => Promise!Init
<1> SUFFICES ASSUME Init PROVE Promise!Init
  OBVIOUS
<1>1. phase = "idle" /\ shown = TRUE /\ Given = {}
  BY DEF Init, Given
<1>2. Result \in SUBSET (Files \X Settings)
  <2>1. CASE average = NoData
    BY <2>1 DEF Result
  <2>2. CASE average # NoData
    <3>1. average.files = checked /\ average.settings = settings
      BY <2>2 DEF Init
    <3> QED
      BY <3>1 DEF Init, Result
  <2> QED
    BY <2>1, <2>2
<1> QED
  BY <1>1, <1>2 DEF Promise!Init, Given, Result

(* Steps of which it sees nothing. *)
LEMMA Invisible ==
  ASSUME phase' = phase, shown' = shown, Result' = Result, batch' = batch,
         DOMAIN pending' = DOMAIN pending
  PROVE  UNCHANGED Promise!vars
<1>1. Given' = Given
  BY DEF Given
<1> QED
  BY <1>1 DEF Promise!vars, Given, Result

LEMMA SubmitRefines ==
  ASSUME Inv, Submit
  PROVE  Promise!Submits
<1>1. /\ shown /\ phase = "asked" /\ shown' = shown /\ average' = average
      /\ \/ checked = {} /\ phase' = "idle"
         \/ checked # {} /\ phase' = "running"
      /\ batch'.settings = settings /\ DOMAIN pending' = checked
  BY DEF Submit, results
<1> DEFINE in == checked \X {settings}
<1>2. in \in SUBSET (Files \X Settings) /\ Given' = in /\ (in = {} <=> checked = {})
  <2>1. checked \subseteq Files /\ settings \in Settings
    BY DEF Inv, Fields
  <2>2. Given' = IF checked = {} THEN {} ELSE in
    BY <1>1 DEF Given
  <2>3. in = {} <=> checked = {}
    <3>1. \A f \in checked : <<f, settings>> \in in
      OBVIOUS
    <3> QED
      BY <3>1
  <2> QED
    BY <2>1, <2>2, <2>3
<1>3. Result' = Result
  BY <1>1 DEF Result
<1>4. Promise!Submit(in)
  BY <1>1, <1>2, <1>3 DEF Promise!Submit, Given, Result
<1> QED
  BY <1>2, <1>4 DEF Promise!Submits

LEMMA PollRefines ==
  ASSUME Inv, Poll
  PROVE  Promise!Ends \/ UNCHANGED Promise!vars
<1>1. /\ shown /\ phase = "running" /\ shown' = shown /\ pc \in {"tick", "poll"}
      /\ batch' = batch /\ pending' = pending
  BY DEF Poll
<1>2. CASE Finish
  <2>1. phase' = "idle" /\ Given' = {}
    BY <1>2 DEF Finish, Given
  <2>2. Result' \subseteq Given /\ (Result' = {} \/ Cardinality(Result') >= Enough)
    <3>1. CASE Cardinality(Made.files) >= Enough /\ average' = Made
      <4>1. /\ Made.files \subseteq DOMAIN pending
            /\ Made = [files |-> Made.files, settings |-> batch.settings, unit |-> unit]
        BY <1>1, <3>1, PolledUnits
      <4>2. Result' = {} \/ Result' = Made.files \X {batch.settings}
        <5>1. Made.settings = batch.settings
          BY DEF Made
        <5> QED
          BY <3>1, <5>1 DEF Result
      <4>3. Cardinality(Made.files \X {batch.settings}) = Cardinality(Made.files)
        BY <4>1, PairsCounted DEF Inv, Futures
      <4> QED
        BY <1>1, <3>1, <4>1, <4>2, <4>3 DEF Given
    <3>2. CASE average' = NoData
      BY <3>2 DEF Result
    <3> QED
      BY <1>2, <3>1, <3>2 DEF Finish
  <2>3. Given \subseteq Files \X Settings
    BY DEF Given, Inv, Fields, Futures
  <2>4. PICK r : r = Result'
    OBVIOUS
  <2>5. Promise!End(r)
    <3>1. r \subseteq Given /\ (r = {} \/ Cardinality(r) >= Enough)
      BY <2>2, <2>4
    <3>2. Promise!Cardinality(r) = Cardinality(r)
      BY DEF Promise!Cardinality, Cardinality
    <3> QED
      BY <1>1, <2>1, <2>4, <3>1, <3>2 DEF Promise!End, Given, Result
  <2> QED
    BY <2>2, <2>3, <2>4, <2>5 DEF Promise!Ends
<1>3. CASE phase' = phase /\ average' = average
  BY <1>1, <1>3, Invisible DEF Result
<1> QED
  BY <1>2, <1>3 DEF Poll, results

LEMMA ChainRefines ==
  ASSUME Inv, TickChain
  PROVE  Promise!Ask \/ UNCHANGED Promise!vars
<1>1. shown' = shown
  BY DEF TickChain
<1>2. CASE UNCHANGED <<engine, average>>
  BY <1>1, <1>2, Invisible DEF engine, Result
<1>3. CASE phase = "idle" /\ StartCalculation
  BY <1>1, <1>3 DEF StartCalculation, Promise!Ask
<1> QED
  BY <1>2, <1>3 DEF TickChain

LEMMA ConversionInvisible ==
  ASSUME Inv, (\E u \in Units : MatchX(u)) \/ View
  PROVE  UNCHANGED Promise!vars
<1>1. /\ phase' = phase /\ shown' = shown /\ batch' = batch /\ pending' = pending
      /\ pc = "panel" => prevUnit = unit
  BY DEF MatchX, View, Widget, Inv, Axes
<1>2. average' = average \/ \E from, to \in Units : ConvertData(from, to)
  BY DEF MatchX, View, Inv, Fields
<1>3. Result' = Result
  BY <1>2, ConvertDataKeeps DEF Result
<1> QED
  BY <1>1, <1>3, Invisible

LEMMA ResetRefines ==
  ASSUME StripDerivatives \/ \E f \in Files : DeleteFile(f)
  PROVE  Promise!Abandon
<1>1. phase' = "idle" /\ average' = NoData /\ shown' = shown
  BY DEF StripDerivatives, DeleteFile, Reset, Widget
<1> QED
  BY <1>1 DEF Promise!Abandon

LEMMA TaskInvisible ==
  ASSUME NEW f \in Files, TaskEnds(f)
  PROVE  UNCHANGED Promise!vars
<1>1. /\ phase' = phase /\ shown' = shown /\ batch' = batch /\ average' = average
      /\ DOMAIN pending' = DOMAIN pending
  BY DEF TaskEnds, results
<1> QED
  BY <1>1, Invisible DEF Result

LEMMA SelectorsInvisible ==
  ASSUME NothingToTick \/ NoWidget \/ PressCalculate
         \/ (\E s \in Settings : EditSettings(s)) \/ (\E f \in Files : ToggleChecked(f))
         \/ (\E u \in Units : PressUnit(u)) \/ UNCHANGED vars
  PROVE  UNCHANGED Promise!vars
<1>1. UNCHANGED <<engine, results>> /\ shown' = shown
  BY DEF NothingToTick, NoWidget, PressCalculate, EditSettings, ToggleChecked, PressUnit,
     Widget, vars
<1> QED
  BY <1>1, Invisible DEF engine, results, Result

LEMMA StepRefines == Inv /\ [Next]_vars => [Promise!Next]_(Promise!vars)
<1> SUFFICES ASSUME Inv, [Next]_vars PROVE Promise!Next \/ UNCHANGED Promise!vars
  OBVIOUS
<1>1. CASE Submit \/ Poll \/ TickChain \/ View
  BY <1>1, SubmitRefines, PollRefines, ChainRefines, ConversionInvisible DEF Promise!Next
<1>2. CASE Widgets
  BY <1>2, SelectorsInvisible, ConversionInvisible, ResetRefines DEF Widgets, Promise!Next
<1>3. CASE NothingToTick \/ UNCHANGED vars
  BY <1>3, SelectorsInvisible
<1>4. CASE SwitchTab
  <2>1. Promise!SwitchTab
    BY <1>4 DEF SwitchTab, engine, results, Promise!SwitchTab
  <2> QED
    BY <2>1 DEF Promise!Next
<1>5. CASE \E f \in Files : TaskEnds(f)
  BY <1>5, TaskInvisible
<1> QED
  BY <1>1, <1>2, <1>3, <1>4, <1>5 DEF Next, Frame

(* The batch is what the rest of the program takes it for: never restarted   *)
(* while it runs, and nothing in its result that it was not given.           *)
THEOREM PromiseKept == Spec => KeepsPromise
<1> QED
  BY InitRefines, StepRefines, Invariance, PTL DEF Spec, KeepsPromise, Promise!Spec
================================================================================
