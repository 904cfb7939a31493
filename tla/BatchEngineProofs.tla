--------------------------- MODULE BatchEngineProofs ---------------------------
(***************************************************************************)
(* The batch over the datasets, for any datasets, files and recipes.  The    *)
(* sub-state of a dataset is nothing when none is in work, which is why that *)
(* of one dataset is never taken for that of the next.  While one is, the    *)
(* counters are the cardinalities of its futures, so that counted as many as *)
(* submitted means that all were read.                                      *)
(***************************************************************************)
EXTENDS BatchEngine, FiniteSetTheorems, SequenceTheorems, TLAPS

Lines == [of : Datasets, what : Flaws, file : Files \cup {NoData}]

Fatal == {"load", "no files", "no spectra", "save"}

Usable == {f \in DOMAIN futures : futures[f] = "ok"}

ProgressOK ==
  /\ phase \in {"Idle", "Running", "Done", "Exited"}
  /\ recipe \subseteq Artifacts /\ recipe \in Recipes \cup {{}}
  /\ sourceIds \in Seq(Datasets) /\ Len(sourceIds) <= Len(Sources)
  /\ currentIdx \in 0 .. Len(sourceIds)
  /\ phase = "Running" => currentIdx < Len(sourceIds)
  /\ completedDatasets \in 0 .. currentIdx
  /\ errors \subseteq Lines

StoredOK ==
  /\ archive \in [Datasets -> Contents]
  /\ tabs \in [Datasets -> Contents \cup {NoData}]

(* Nothing is left of a dataset when none is in work. *)
WorkOK ==
  /\ sourceSubmitted \in BOOLEAN /\ assembled \in BOOLEAN /\ allanSubmitted \in BOOLEAN
  /\ phase # "Running" => ~sourceSubmitted
  /\ ~sourceSubmitted => ~assembled /\ ~allanSubmitted
  /\ scratch \in Contents \cup {NoData}
  /\ sourceSubmitted => scratch \in Contents

FuturesOK ==
  /\ DOMAIN futures \subseteq Files
  /\ \A f \in DOMAIN futures : futures[f] \in {Queued} \cup Outcomes
  /\ taken \subseteq DOMAIN futures
  /\ \A f \in taken : futures[f] # Queued
  /\ submitted = Cardinality(DOMAIN futures)
  /\ completed = Cardinality(taken)
  /\ ~assembled => fileResults = {f \in taken : futures[f] = "ok"}
  /\ assembled => taken = DOMAIN futures /\ fileResults = {} /\ validFileIds = Usable
  /\ validFileIds \subseteq Files

(* An Allan phase without bins has been reported. *)
BinsOK ==
  /\ allanTotal \in 0 .. MaxBins
  /\ allanCompleted \in 0 .. allanTotal /\ allanQueued \in 0 .. allanTotal
  /\ phase = "Running" /\ allanSubmitted /\ allanTotal = 0 => Listed(Current, "allan")

Inv ==
  /\ ProgressOK /\ StoredOK /\ WorkOK /\ FuturesOK /\ BinsOK
  /\ RecipeFollowed /\ TabsShowResult

-----------------------------------------------------------------------------
(* Counting *)

LEMMA FilesCounted ==
  ASSUME NEW S \in SUBSET Files
  PROVE  IsFiniteSet(S) /\ Cardinality(S) \in 0 .. Cardinality(Files)
<1>1. IsFiniteSet(Files)
  BY BatchEngineAssumption
<1>2. Cardinality(S) \in Nat /\ Cardinality(Files) \in Nat
  BY <1>1, FS_CardinalityType, FS_Subset
<1> QED
  BY <1>1, <1>2, FS_Subset

LEMMA DatasetsCounted ==
  ASSUME NEW checks \in SUBSET Datasets, checks # {}
  PROVE  Cardinality(checks) \in 1 .. Len(Sources)
<1> DEFINE at == 1 .. Len(Sources)
<1>1. Len(Sources) \in Nat /\ DOMAIN Sources = at
  BY BatchEngineAssumption
<1>2. IsFiniteSet(at) /\ Cardinality(at) = Len(Sources)
  BY <1>1, FS_Interval
<1>3. Sources \in Surjection(at, Datasets)
  BY <1>1, BatchEngineAssumption DEF Surjection, Datasets
<1>4. IsFiniteSet(Datasets) /\ Cardinality(Datasets) <= Len(Sources)
  BY <1>2, <1>3, FS_Surjection
<1>5. /\ IsFiniteSet(checks) /\ Cardinality(checks) <= Cardinality(Datasets)
      /\ Cardinality(checks) \in Nat /\ Cardinality(Datasets) \in Nat
  BY <1>4, FS_Subset, FS_CardinalityType
<1>6. Cardinality(checks) # 0
  BY <1>5, FS_EmptySet
<1> QED
  BY <1>1, <1>4, <1>5, <1>6

(* What was counted is what was read; counted as many as submitted, nothing  *)
(* is left to read.                                                          *)
LEMMA ReadFutures ==
  ASSUME FuturesOK
  PROVE  LET read == taken \cup Ready IN
         /\ Ready \subseteq DOMAIN futures
         /\ \A f \in read : futures[f] # Queued
         /\ Counted = Cardinality(read)
         /\ ~assembled => Buffered = {f \in read : futures[f] = "ok"}
         /\ Counted >= submitted => read = DOMAIN futures /\ Valid = Usable
<1> DEFINE read == taken \cup Ready
<1>1. /\ Ready \subseteq DOMAIN futures /\ Ready \cap taken = {}
      /\ \A f \in read : futures[f] # Queued
      /\ read \in SUBSET DOMAIN futures
  BY DEF Ready, FuturesOK
<1>2. /\ IsFiniteSet(taken) /\ IsFiniteSet(Ready) /\ IsFiniteSet(DOMAIN futures)
      /\ Cardinality(taken) \in Nat /\ Cardinality(Ready) \in Nat
      /\ Cardinality(DOMAIN futures) \in Nat /\ Cardinality(read) \in Nat
  <2>1. taken \in SUBSET Files /\ Ready \in SUBSET Files /\ DOMAIN futures \in SUBSET Files
        /\ read \in SUBSET Files
    BY <1>1 DEF FuturesOK
  <2> QED
    BY <2>1, FilesCounted
<1>3. Counted = Cardinality(read)
  <2>1. Cardinality(taken \cap Ready) = 0
    BY <1>1, FS_EmptySet
  <2>2. Cardinality(read) = Cardinality(taken) + Cardinality(Ready) - Cardinality(taken \cap Ready)
    BY <1>2, FS_Union
  <2> QED
    BY <1>2, <2>1, <2>2 DEF Counted, FuturesOK
<1>4. ~assembled => Buffered = {f \in read : futures[f] = "ok"}
  BY <1>1 DEF Buffered, FuturesOK
<1>5. ASSUME Counted >= submitted
      PROVE  read = DOMAIN futures
  <2>1. Cardinality(read) = Cardinality(DOMAIN futures)
    BY <1>1, <1>2, <1>3, <1>5, FS_Subset DEF FuturesOK
  <2> QED
    BY <1>1, <1>2, <2>1, FS_Subset
<1>6. ASSUME Counted >= submitted
      PROVE  Valid = Usable
  <2>1. CASE assembled
    BY <2>1 DEF Valid, FuturesOK
  <2>2. CASE ~assembled
    BY <1>4, <1>5, <1>6, <2>2 DEF Valid, Usable
  <2> QED
    BY <2>1, <2>2
<1> QED
  BY <1>1, <1>3, <1>4, <1>5, <1>6

-----------------------------------------------------------------------------
(* What the steps have in common *)

LEMMA CurrentTyped ==
  ASSUME ProgressOK, FuturesOK, phase = "Running"
  PROVE  /\ Current \in Datasets
         /\ \A what \in Flaws : Error(what) \in Lines
         /\ Reported \subseteq Lines
<1>1. Current \in Datasets
  BY DEF ProgressOK, Current
<1>2. \A what \in Flaws : Error(what) \in Lines
  BY <1>1 DEF Lines, Error
<1>3. Ready \subseteq Files
  BY DEF Ready, FuturesOK
<1>4. \A f \in Ready : FileError(f) \in Lines
  BY <1>1, <1>3 DEF Lines, FileError, Flaws
<1>5. Reported \subseteq Lines
  BY <1>4 DEF Reported
<1> QED
  BY <1>1, <1>2, <1>5

(* The list only grows in a batch. *)
LEMMA ListedStays ==
  ASSUME errors \subseteq errors', NEW d, NEW what, Listed(d, what)
  PROVE  Listed(d, what)'
BY DEF Listed

(* A step inside a dataset, or outside a batch, leaves what is behind.        *)
LEMMA GoesOn ==
  ASSUME ProgressOK, StoredOK, RecipeFollowed, TabsShowResult,
         UNCHANGED <<phase, recipe, sourceIds, currentIdx, completedDatasets, archive, tabs>>,
         errors \subseteq errors', errors' \subseteq Lines
  PROVE  ProgressOK' /\ StoredOK' /\ RecipeFollowed' /\ TabsShowResult' /\ Current' = Current
<1>1. Behind' = Behind /\ Current' = Current
  BY DEF Behind, Current
<1>2. ProgressOK' /\ StoredOK'
  BY DEF ProgressOK, StoredOK
<1>3. RecipeFollowed'
  BY <1>1, ListedStays DEF RecipeFollowed
<1>4. TabsShowResult'
  BY <1>1, ListedStays DEF TabsShowResult
<1> QED
  BY <1>1, <1>2, <1>3, <1>4

(* The sub-state of a dataset is cleared. *)
LEMMA Cleared ==
  ASSUME ClearWork
  PROVE  WorkOK' /\ FuturesOK' /\ BinsOK'
<1>1. /\ DOMAIN futures' = {} /\ taken' = {} /\ submitted' = 0 /\ completed' = 0
      /\ fileResults' = {} /\ validFileIds' = {} /\ ~assembled' /\ ~allanSubmitted'
  BY DEF ClearWork, NoFutures
<1>2. Cardinality({}) = 0
  BY FS_EmptySet
<1>3. FuturesOK'
  BY <1>1, <1>2 DEF FuturesOK
<1>4. WorkOK'
  BY DEF ClearWork, WorkOK
<1>5. BinsOK'
  BY BatchEngineAssumption DEF ClearWork, BinsOK
<1> QED
  BY <1>3, <1>4, <1>5

(* The dataset in work is then the last one behind. *)
LEMMA Finishes ==
  ASSUME Inv, phase = "Running", NEW ok \in BOOLEAN, FinishDatasetFor(ok),
         errors' \subseteq Lines
  PROVE  /\ ProgressOK' /\ WorkOK' /\ FuturesOK' /\ BinsOK'
         /\ Behind' = Behind \cup {Current}
         /\ phase' \in {"Running", "Done"} /\ recipe' = recipe
<1>1. WorkOK' /\ FuturesOK' /\ BinsOK'
  BY Cleared DEF FinishDatasetFor
<1>2. /\ sourceIds' = sourceIds /\ recipe' = recipe /\ currentIdx' = currentIdx + 1
      /\ completedDatasets' \in {completedDatasets, completedDatasets + 1}
      /\ phase' = IF currentIdx' >= Len(sourceIds) THEN "Done" ELSE "Running"
      /\ sourceIds \in Seq(Datasets) /\ Len(sourceIds) \in Nat
      /\ currentIdx \in Nat /\ currentIdx < Len(sourceIds)
  BY DEF FinishDatasetFor, Inv, ProgressOK
<1>3. ProgressOK'
  BY <1>2 DEF Inv, ProgressOK
<1>4. 1 .. currentIdx + 1 = (1 .. currentIdx) \cup {currentIdx + 1}
  BY <1>2
<1>5. Behind' = Behind \cup {Current}
  BY <1>2, <1>4 DEF Behind, Current
<1> QED
  BY <1>1, <1>2, <1>3, <1>5

(* A dataset that fails leaves the archive alone and is listed. *)
LEMMA Fails ==
  ASSUME Inv, phase = "Running", NEW what \in Fatal, FinishDatasetFor(FALSE),
         errors \cup {Error(what)} \subseteq errors', errors' \subseteq Lines,
         UNCHANGED stored
  PROVE  Inv'
<1>1. /\ ProgressOK' /\ WorkOK' /\ FuturesOK' /\ BinsOK'
      /\ Behind' = Behind \cup {Current} /\ recipe' = recipe
  BY Finishes
<1>2. archive' = archive /\ tabs' = tabs
  BY DEF stored
<1>3. PICK current : current = Current
  OBVIOUS
<1>3a. Listed(current, what)'
  <2>1. Error(what) \in errors' /\ Error(what).of = current /\ Error(what).what = what
    BY <1>3 DEF Error
  <2> QED
    BY <2>1 DEF Listed
<1>4. StoredOK'
  BY <1>2 DEF Inv, StoredOK
<1>5. RecipeFollowed'
  <2> SUFFICES ASSUME NEW d \in Behind'
               PROVE  \/ \E w \in Fatal : Listed(d, w)'
                      \/ /\ archive[d].of # {}
                         /\ \A a \in recipe \ archive[d].artifacts : Listed(d, a)'
    BY <1>1, <1>2 DEF RecipeFollowed, Fatal
  <2>1. CASE d = Current
    BY <1>3, <1>3a, <2>1
  <2>2. CASE d \in Behind
    BY <2>2, ListedStays DEF Inv, RecipeFollowed, Fatal
  <2> QED
    BY <1>1, <2>1, <2>2
<1>6. TabsShowResult'
  <2> SUFFICES ASSUME NEW d \in Behind', archive[d].of # {}, ~\E w \in Fatal : Listed(d, w)'
               PROVE  tabs[d] \in {NoData, archive[d]}
    BY <1>2 DEF TabsShowResult, Fatal
  <2>1. d # Current
    BY <1>3, <1>3a
  <2>2. d \in Behind /\ ~\E w \in Fatal : Listed(d, w)
    BY <1>1, <2>1, ListedStays
  <2> QED
    BY <2>2 DEF Inv, TabsShowResult, Fatal
<1> QED
  BY <1>1, <1>4, <1>5, <1>6 DEF Inv

-----------------------------------------------------------------------------
(* The steps *)

LEMMA InitInv == Init => Inv
<1> SUFFICES ASSUME Init PROVE Inv
  OBVIOUS
<1>1. /\ << >> \in Seq(Datasets) /\ Len(<< >>) = 0 /\ Len(Sources) \in Nat
      /\ DOMAIN futures = {} /\ Cardinality({}) = 0
  BY FS_EmptySet, BatchEngineAssumption DEF Init, NoFutures
<1>2. ProgressOK
  BY <1>1 DEF Init, ProgressOK
<1>3. \A fs \in FileSets : Original(fs) \in Contents
  BY BatchEngineAssumption DEF Original, Contents
<1>4. archive \in [Datasets -> Contents]
  BY <1>3 DEF Init
<1>5. tabs \in [Datasets -> Contents \cup {NoData}]
  BY <1>4 DEF Init
<1>6. WorkOK /\ StoredOK
  BY <1>4, <1>5 DEF Init, WorkOK, StoredOK
<1>7. FuturesOK
  BY <1>1 DEF Init, FuturesOK
<1>8. BinsOK
  BY BatchEngineAssumption DEF Init, BinsOK
<1>9. RecipeFollowed /\ TabsShowResult
  BY DEF Init, RecipeFollowed, TabsShowResult
<1> QED
  BY <1>2, <1>6, <1>7, <1>8, <1>9 DEF Inv

(* Outside a batch nothing is in work. *)
LEMMA WorkKept ==
  ASSUME WorkOK, FuturesOK, BinsOK, UNCHANGED work, ~sourceSubmitted
  PROVE  WorkOK' /\ FuturesOK' /\ BinsOK'
<1>1. /\ sourceSubmitted' = sourceSubmitted /\ assembled' = assembled
      /\ allanSubmitted' = allanSubmitted /\ scratch' = scratch /\ validFileIds' = validFileIds
      /\ futures' = futures /\ taken' = taken /\ submitted' = submitted
      /\ completed' = completed /\ fileResults' = fileResults
      /\ allanTotal' = allanTotal /\ allanCompleted' = allanCompleted
      /\ allanQueued' = allanQueued
  BY DEF work, spectra, allan
<1>2. FuturesOK'
  BY <1>1 DEF FuturesOK, Usable
<1> QED
  BY <1>1, <1>2 DEF WorkOK, BinsOK

LEMMA IdleInv ==
  ASSUME Inv, phase = "Idle", phase' = "Idle", UNCHANGED <<progress, work>>, StoredOK'
  PROVE  Inv'
<1>1. /\ recipe' = recipe /\ sourceIds' = sourceIds /\ currentIdx' = currentIdx
      /\ completedDatasets' = completedDatasets /\ errors' = errors
  BY DEF progress
<1>2. ProgressOK' /\ RecipeFollowed' /\ TabsShowResult'
  BY <1>1 DEF Inv, ProgressOK, RecipeFollowed, TabsShowResult
<1>3. WorkOK' /\ FuturesOK' /\ BinsOK'
  BY WorkKept DEF Inv, WorkOK
<1> QED
  BY <1>2, <1>3 DEF Inv

LEMMA TabsInv ==
  ASSUME Inv, NEW d \in Datasets, StripTab(d) \/ SaveTab(d)
  PROVE  Inv'
<1>1. phase = "Idle" /\ phase' = "Idle" /\ UNCHANGED <<progress, work>> /\ tabs[d] # NoData
  BY DEF StripTab, SaveTab, progress
<1>2. tabs[d] \in Contents /\ Original(tabs[d].files) \in Contents
  BY <1>1 DEF Inv, StoredOK, Contents, Original
<1>3. StoredOK'
  BY <1>2 DEF Inv, StoredOK, StripTab, SaveTab
<1> QED
  BY <1>1, <1>3, IdleInv

LEMMA BeginBatchInv ==
  ASSUME Inv, NEW r \in Recipes, NEW checks \in SUBSET Datasets, BeginBatch(r, checks)
  PROVE  Inv'
<1>1. /\ phase = "Idle" /\ phase' = "Running" /\ checks # {} /\ recipe' = r
      /\ sourceIds' \in [1 .. Cardinality(checks) -> checks]
      /\ currentIdx' = 0 /\ completedDatasets' = 0 /\ errors' = {}
      /\ UNCHANGED work /\ archive' = archive /\ tabs' = tabs
  BY DEF BeginBatch, Checked, stored
<1>2. Cardinality(checks) \in 1 .. Len(Sources) /\ Len(Sources) \in Nat
  BY <1>1, DatasetsCounted, BatchEngineAssumption
<1>3. /\ sourceIds' \in Seq(Datasets) /\ Len(sourceIds') = Cardinality(checks)
  <2>1. sourceIds' \in [1 .. Cardinality(checks) -> Datasets] /\ Cardinality(checks) \in Nat
    BY <1>1, <1>2
  <2> QED
    BY <2>1
<1>4. ProgressOK'
  BY <1>1, <1>2, <1>3, BatchEngineAssumption DEF ProgressOK
<1>5. StoredOK'
  BY <1>1 DEF Inv, StoredOK
<1>6. WorkOK' /\ FuturesOK' /\ BinsOK'
  BY <1>1, WorkKept DEF Inv, WorkOK
<1>7. Behind' = {}
  BY <1>1 DEF Behind
<1> QED
  BY <1>4, <1>5, <1>6, <1>7 DEF Inv, RecipeFollowed, TabsShowResult

LEMMA PressOKInv ==
  ASSUME Inv, PressOK
  PROVE  Inv'
<1>1. /\ phase = "Done" /\ phase' = "Idle" /\ recipe' = recipe /\ sourceIds' = sourceIds
      /\ currentIdx' = currentIdx /\ completedDatasets' = completedDatasets /\ errors' = errors
      /\ UNCHANGED work /\ archive' = archive /\ tabs' = tabs
  BY DEF PressOK, stored
<1>2. ProgressOK' /\ StoredOK' /\ RecipeFollowed' /\ TabsShowResult'
  BY <1>1 DEF Inv, ProgressOK, StoredOK, RecipeFollowed, TabsShowResult
<1>3. WorkOK' /\ FuturesOK' /\ BinsOK'
  BY <1>1, WorkKept DEF Inv, WorkOK
<1> QED
  BY <1>2, <1>3 DEF Inv

LEMMA CloseWindowInv ==
  ASSUME Inv, CloseWindow
  PROVE  Inv'
<1>1. /\ phase' = "Exited" /\ recipe' = {} /\ sourceIds' = << >> /\ currentIdx' = 0
      /\ completedDatasets' = 0 /\ errors' = {} /\ ClearWork
      /\ tabs' = [d \in Datasets |-> NoData] /\ archive' = archive
  BY DEF CloseWindow
<1>2. WorkOK' /\ FuturesOK' /\ BinsOK'
  BY <1>1, Cleared
<1>3. << >> \in Seq(Datasets) /\ Len(<< >>) = 0 /\ Len(Sources) \in Nat
  BY BatchEngineAssumption
<1>4. ProgressOK'
  BY <1>1, <1>3 DEF ProgressOK
<1>5. StoredOK' /\ RecipeFollowed' /\ TabsShowResult'
  BY <1>1 DEF Inv, StoredOK, RecipeFollowed, TabsShowResult
<1> QED
  BY <1>2, <1>4, <1>5 DEF Inv

LEMMA LoadFailsInv ==
  ASSUME Inv, LoadFails \/ NoFilesInDataset
  PROVE  Inv'
<1> DEFINE Fatally(what) == /\ errors' = errors \cup {Error(what)}
                            /\ FinishDatasetFor(FALSE) /\ UNCHANGED stored
<1>1. phase = "Running" /\ \E what \in {"load", "no files"} : Fatally(what)
  BY DEF LoadFails, NoFilesInDataset, Boundary
<1>2. PICK what \in {"load", "no files"} : Fatally(what)
  BY <1>1
<1>3. what \in Fatal /\ what \in Flaws
  BY <1>2 DEF Fatal, Flaws
<1>4. errors' \subseteq Lines
  BY <1>1, <1>2, <1>3, CurrentTyped DEF Inv, ProgressOK
<1> QED
  BY <1>1, <1>2, <1>3, <1>4, Fails

LEMMA LoadAndSubmitInv ==
  ASSUME Inv, LoadAndSubmit
  PROVE  Inv'
<1>1. /\ phase = "Running" /\ ~sourceSubmitted /\ sourceSubmitted'
      /\ scratch' = Original(archive[Current].files)
      /\ taken' = {} /\ completed' = 0 /\ fileResults' = {}
      /\ UNCHANGED <<phase, recipe, sourceIds, currentIdx, completedDatasets, errors>>
      /\ assembled' = assembled /\ allanSubmitted' = allanSubmitted /\ validFileIds' = validFileIds
      /\ allanTotal' = allanTotal /\ allanCompleted' = allanCompleted
      /\ allanQueued' = allanQueued /\ archive' = archive /\ tabs' = tabs
  BY DEF LoadAndSubmit, Boundary, progress, allan, stored
<1>2. PICK readable \in SUBSET archive[Current].files :
        futures' = [f \in readable |-> Queued] /\ submitted' = Cardinality(readable)
  BY DEF LoadAndSubmit
<1>3. Current \in Datasets
  BY <1>1, CurrentTyped DEF Inv
<1>4. archive[Current] \in Contents
  BY <1>3 DEF Inv, StoredOK
<1>5. readable \subseteq Files /\ scratch' \in Contents
  BY <1>1, <1>4 DEF Contents, Original
<1>6. ~assembled /\ ~allanSubmitted
  BY <1>1 DEF Inv, WorkOK
<1>7. ProgressOK' /\ StoredOK' /\ RecipeFollowed' /\ TabsShowResult'
  BY <1>1, GoesOn DEF Inv, ProgressOK
<1>8. WorkOK'
  BY <1>1, <1>5, <1>6 DEF Inv, WorkOK
<1>9. FuturesOK'
  <2>1. DOMAIN futures' = readable /\ \A f \in readable : futures'[f] = Queued
    BY <1>2
  <2>2. Cardinality({}) = 0
    BY FS_EmptySet
  <2> QED
    BY <1>1, <1>2, <1>5, <1>6, <2>1, <2>2 DEF Inv, FuturesOK
<1>10. BinsOK'
  BY <1>1, <1>6 DEF Inv, BinsOK
<1> QED
  BY <1>7, <1>8, <1>9, <1>10 DEF Inv

LEMMA PollSpectraInv ==
  ASSUME Inv, PollSpectra
  PROVE  Inv'
<1>1. /\ phase = "Running" /\ sourceSubmitted /\ Counted < submitted
      /\ taken' = taken \cup Ready /\ completed' = Counted /\ fileResults' = Buffered
      /\ errors' = errors \cup Reported
      /\ UNCHANGED <<phase, recipe, sourceIds, currentIdx, completedDatasets, archive, tabs>>
      /\ sourceSubmitted' = sourceSubmitted /\ assembled' = assembled
      /\ allanSubmitted' = allanSubmitted /\ scratch' = scratch /\ futures' = futures
      /\ submitted' = submitted /\ validFileIds' = validFileIds
      /\ allanTotal' = allanTotal /\ allanCompleted' = allanCompleted
      /\ allanQueued' = allanQueued
  BY DEF PollSpectra, Polling, allan, stored
<1>2. errors' \subseteq Lines
  BY <1>1, CurrentTyped DEF Inv, ProgressOK
<1>3. ProgressOK' /\ StoredOK' /\ RecipeFollowed' /\ TabsShowResult' /\ Current' = Current
  BY <1>1, <1>2, GoesOn DEF Inv
<1>4. /\ Ready \subseteq DOMAIN futures /\ \A f \in taken \cup Ready : futures[f] # Queued
      /\ Counted = Cardinality(taken \cup Ready)
      /\ ~assembled => Buffered = {f \in taken \cup Ready : futures[f] = "ok"}
  BY ReadFutures DEF Inv
<1>5. ~assembled
  <2>1. ASSUME assembled PROVE FALSE
    <3>1. taken = DOMAIN futures
      BY <2>1 DEF Inv, FuturesOK
    <3>2. taken \cup Ready = DOMAIN futures
      BY <1>4, <3>1
    <3>3. Counted = submitted /\ Cardinality(DOMAIN futures) \in Nat
      BY <1>4, <3>2, FilesCounted DEF Inv, FuturesOK
    <3> QED
      BY <1>1, <3>3 DEF Inv, FuturesOK
  <2> QED
    BY <2>1
<1>6. FuturesOK'
  BY <1>1, <1>4, <1>5 DEF Inv, FuturesOK
<1>7. WorkOK'
  BY <1>1 DEF Inv, WorkOK
<1>8. BinsOK'
  BY <1>1, <1>3, ListedStays DEF Inv, BinsOK
<1> QED
  BY <1>3, <1>6, <1>7, <1>8 DEF Inv

(* The spectra are assembled once all futures were read. *)
LEMMA Assembles ==
  ASSUME Inv, SpectraDone, Assemble, futures' = futures, submitted' = submitted
  PROVE  FuturesOK'
<1>1. /\ taken' = taken \cup Ready /\ completed' = Counted /\ validFileIds' = Valid
      /\ fileResults' = {} /\ assembled' /\ Counted >= submitted
  BY DEF Assemble, SpectraDone
<1>2. /\ taken \cup Ready = DOMAIN futures /\ Valid = Usable /\ Counted = Cardinality(DOMAIN futures)
      /\ \A f \in DOMAIN futures : futures[f] # Queued
  BY <1>1, ReadFutures DEF Inv
<1>3. Usable' = Usable /\ Usable \subseteq Files
  BY DEF Inv, FuturesOK, Usable
<1> QED
  BY <1>1, <1>2, <1>3 DEF Inv, FuturesOK

LEMMA SubmitAllanInv ==
  ASSUME Inv, SubmitAllan
  PROVE  Inv'
<1>1. /\ SpectraDone /\ phase = "Running" /\ sourceSubmitted /\ Assemble
      /\ assembled' /\ allanSubmitted' /\ allanCompleted' = 0
      /\ UNCHANGED <<phase, recipe, sourceIds, currentIdx, completedDatasets, archive, tabs>>
      /\ sourceSubmitted' = sourceSubmitted /\ scratch' = scratch
      /\ futures' = futures /\ submitted' = submitted
  BY DEF SubmitAllan, SpectraDone, Polling, Assemble, stored
<1>2. PICK bins \in 0 .. MaxBins :
        /\ allanTotal' = bins /\ allanQueued' = bins
        /\ errors' = errors \cup Reported \cup (IF bins = 0 THEN {Error("allan")} ELSE {})
  BY DEF SubmitAllan
<1>3. errors' \subseteq Lines
  BY <1>1, <1>2, CurrentTyped DEF Inv, ProgressOK, Flaws
<1>4. ProgressOK' /\ StoredOK' /\ RecipeFollowed' /\ TabsShowResult' /\ Current' = Current
  BY <1>1, <1>2, <1>3, GoesOn DEF Inv
<1>5. WorkOK' /\ FuturesOK'
  BY <1>1, Assembles DEF Inv, WorkOK
<1>6. ASSUME bins = 0 PROVE Listed(Current, "allan")'
  <2>1. Error("allan") \in errors' /\ Error("allan").of = Current'
        /\ Error("allan").what = "allan"
    BY <1>2, <1>4, <1>6 DEF Error
  <2> QED
    BY <2>1 DEF Listed
<1>7. BinsOK'
  BY <1>1, <1>2, <1>4, <1>6, BatchEngineAssumption DEF BinsOK
<1> QED
  BY <1>4, <1>5, <1>7 DEF Inv

LEMMA PollAllanInv ==
  ASSUME Inv, PollAllan
  PROVE  Inv'
<1>1. /\ SpectraDone /\ phase = "Running" /\ sourceSubmitted /\ Assemble /\ assembled'
      /\ allanCompleted' = AllanReady
      /\ UNCHANGED <<phase, recipe, sourceIds, currentIdx, completedDatasets, errors, archive, tabs>>
      /\ sourceSubmitted' = sourceSubmitted /\ allanSubmitted' = allanSubmitted
      /\ scratch' = scratch /\ futures' = futures /\ submitted' = submitted
      /\ allanTotal' = allanTotal /\ allanQueued' = allanQueued
  BY DEF PollAllan, SpectraDone, Polling, Assemble, progress, stored
<1>2. ProgressOK' /\ StoredOK' /\ RecipeFollowed' /\ TabsShowResult' /\ Current' = Current
  BY <1>1, GoesOn DEF Inv, ProgressOK
<1>3. WorkOK' /\ FuturesOK'
  BY <1>1, Assembles DEF Inv, WorkOK
<1>4. BinsOK'
  BY <1>1, <1>2, ListedStays, BatchEngineAssumption DEF Inv, BinsOK, AllanReady
<1> QED
  BY <1>2, <1>3, <1>4 DEF Inv

LEMMA WarnedTyped ==
  ASSUME Inv, phase = "Running"
  PROVE  Reported \subseteq Lines /\ Warned \subseteq Lines
BY CurrentTyped DEF Inv, Warned, Flaws

LEMMA FinalFails ==
  ASSUME Inv, NoSpectra \/ SaveFails
  PROVE  Inv'
<1>1. phase = "Running" /\ FinishDatasetFor(FALSE) /\ UNCHANGED stored
  BY DEF NoSpectra, SaveFails, Finalizing, SpectraDone, Polling
<1>2. CASE errors' = errors \cup Reported \cup {Error("no spectra")}
  BY <1>1, <1>2, CurrentTyped, Fails DEF Inv, ProgressOK, Fatal, Flaws
<1>3. CASE errors' = errors \cup Warned \cup {Error("save")}
  BY <1>1, <1>3, CurrentTyped, WarnedTyped, Fails DEF Inv, ProgressOK, Fatal, Flaws
<1> QED
  BY <1>2, <1>3 DEF NoSpectra, SaveFails

(* What is stored for the dataset in work. *)
NewContent == [scratch EXCEPT !.artifacts = Made, !.of = Valid]

LEMMA NewContentTyped ==
  ASSUME Inv, Finalizing
  PROVE  /\ NewContent \in Contents
         /\ NewContent.artifacts = Made /\ NewContent.of = Valid /\ Valid = Usable
<1>1. scratch \in Contents /\ Counted >= submitted
  BY DEF Inv, WorkOK, Finalizing, SpectraDone, Polling
<1>2. Valid = Usable /\ Usable \subseteq Files
  BY <1>1, ReadFutures DEF Inv, FuturesOK, Usable
<1>3. Made \subseteq Artifacts
  BY DEF Made, Artifacts
<1> QED
  BY <1>1, <1>2, <1>3 DEF NewContent, Contents

(* An artifact of the recipe that could not be made is listed. *)
LEMMA MissingListed ==
  ASSUME Inv, Finalizing, errors' = errors \cup Warned, NEW a \in recipe \ Made
  PROVE  \E e \in errors' : e.of = Current /\ e.what = a
<1>2. phase = "Running" /\ a \in {"snr", "allan"}
  BY DEF Finalizing, SpectraDone, Polling, Made, Inv, ProgressOK, Artifacts
<1>3. CASE a = "snr"
  <2>1. Cardinality(Valid) < 2
    <3>1. Valid \in SUBSET Files
      BY NewContentTyped DEF Inv, FuturesOK, Usable
    <3>2. Cardinality(Valid) \in Nat
      BY <3>1, FilesCounted
    <3> QED
      BY <1>3, <3>2 DEF Made
  <2>2. Error("snr") \in errors'
    BY <1>3, <2>1 DEF Warned
  <2>3. Error("snr").of = Current /\ Error("snr").what = "snr"
    BY DEF Error
  <2> QED
    BY <1>3, <2>2, <2>3
<1>4. CASE a = "allan"
  <2>1. allanSubmitted /\ allanTotal = 0
    BY <1>4 DEF Finalizing, Made, Inv, BinsOK
  <2>2. Listed(Current, "allan")
    BY <1>2, <2>1 DEF Inv, BinsOK
  <2> QED
    BY <1>4, <2>2 DEF Listed
<1> QED
  BY <1>2, <1>3, <1>4

LEMMA FinalizeDatasetInv ==
  ASSUME Inv, FinalizeDataset
  PROVE  Inv'
<1>1. PICK current : current = Current
  OBVIOUS
<1>2. /\ Finalizing /\ phase = "Running" /\ Valid # {} /\ errors' = errors \cup Warned
      /\ FinishDatasetFor(TRUE)
      /\ archive' = [archive EXCEPT ![current] = NewContent]
      /\ tabs' = [tabs EXCEPT ![current] = IF @ = NoData THEN NoData ELSE NewContent]
  BY <1>1 DEF FinalizeDataset, Finalizing, SpectraDone, Polling, Store, NewContent
<1>3. current \in Datasets /\ errors' \subseteq Lines
  BY <1>1, <1>2, CurrentTyped, WarnedTyped DEF Inv, ProgressOK
<1>4. /\ ProgressOK' /\ WorkOK' /\ FuturesOK' /\ BinsOK'
      /\ Behind' = Behind \cup {current} /\ recipe' = recipe
      /\ phase' \in {"Running", "Done"}
  BY <1>1, <1>2, <1>3, Finishes
<1>5. PICK content \in Contents :
        /\ content = NewContent /\ content.artifacts = Made
        /\ content.of # {}
  BY <1>2, NewContentTyped
<1>6. /\ archive'[current] = content
      /\ tabs'[current] \in {NoData, content}
      /\ \A d \in Datasets \ {current} : archive'[d] = archive[d] /\ tabs'[d] = tabs[d]
  BY <1>2, <1>3, <1>5 DEF Inv, StoredOK
<1>7. StoredOK'
  BY <1>2, <1>5 DEF Inv, StoredOK
<1>8. \A d \in Behind : d \in Datasets
  BY DEF Behind, Inv, ProgressOK
<1>9. RecipeFollowed'
  <2> SUFFICES ASSUME NEW d \in Behind'
               PROVE  \/ \E w \in Fatal : Listed(d, w)'
                      \/ /\ archive'[d].of # {}
                         /\ \A a \in recipe \ archive'[d].artifacts : Listed(d, a)'
    BY <1>4 DEF RecipeFollowed, Fatal
  <2>1. CASE d = current
    <3>1. \A a \in recipe \ Made : Listed(current, a)'
      BY <1>1, <1>2, MissingListed DEF Listed
    <3> QED
      BY <1>5, <1>6, <2>1, <3>1
  <2>2. CASE d \in Behind /\ d # current
    <3>1. \/ \E w \in Fatal : Listed(d, w)
          \/ /\ archive[d].of # {}
             /\ \A a \in recipe \ archive[d].artifacts : Listed(d, a)
      BY <1>2, <2>2 DEF Inv, RecipeFollowed, Fatal
    <3> QED
      BY <1>2, <1>6, <1>8, <2>2, <3>1, ListedStays
  <2> QED
    BY <1>4, <2>1, <2>2
<1>10. TabsShowResult'
  <2> SUFFICES ASSUME NEW d \in Behind', archive'[d].of # {}, ~\E w \in Fatal : Listed(d, w)'
               PROVE  tabs'[d] \in {NoData, archive'[d]}
    BY DEF TabsShowResult, Fatal
  <2>1. CASE d = current
    BY <1>6, <2>1
  <2>2. CASE d \in Behind /\ d # current
    <3>1. d \in Datasets /\ ~\E w \in Fatal : Listed(d, w)
      BY <1>2, <1>8, <2>2, ListedStays
    <3>2. tabs[d] \in {NoData, archive[d]}
      BY <1>2, <1>6, <2>2, <3>1 DEF Inv, TabsShowResult, Fatal
    <3> QED
      BY <1>6, <2>2, <3>1, <3>2
  <2> QED
    BY <1>4, <2>1, <2>2
<1> QED
  BY <1>4, <1>7, <1>9, <1>10 DEF Inv

LEMMA SpectrumEndsInv ==
  ASSUME Inv, NEW f \in Files, SpectrumEnds(f)
  PROVE  Inv'
<1>1. /\ f \in DOMAIN futures /\ futures[f] = Queued
      /\ UNCHANGED <<phase, recipe, sourceIds, currentIdx, completedDatasets, errors, archive, tabs>>
      /\ sourceSubmitted' = sourceSubmitted /\ assembled' = assembled
      /\ allanSubmitted' = allanSubmitted /\ scratch' = scratch /\ validFileIds' = validFileIds
      /\ taken' = taken /\ submitted' = submitted
      /\ completed' = completed /\ fileResults' = fileResults
      /\ allanTotal' = allanTotal /\ allanCompleted' = allanCompleted
      /\ allanQueued' = allanQueued
  BY DEF SpectrumEnds, progress, allan, stored
<1>2. PICK o \in Outcomes : futures' = [futures EXCEPT ![f] = o]
  BY DEF SpectrumEnds
<1>3. /\ DOMAIN futures' = DOMAIN futures /\ f \notin taken
      /\ \A g \in DOMAIN futures : futures'[g] = IF g = f THEN o ELSE futures[g]
  BY <1>1, <1>2 DEF Inv, FuturesOK
<1>4. ~assembled
  BY <1>1, <1>3 DEF Inv, FuturesOK
<1>5. FuturesOK'
  BY <1>1, <1>3, <1>4 DEF Inv, FuturesOK
<1>6. ProgressOK' /\ StoredOK' /\ RecipeFollowed' /\ TabsShowResult' /\ Current' = Current
  BY <1>1, GoesOn DEF Inv, ProgressOK
<1>7. WorkOK' /\ BinsOK'
  BY <1>1, <1>6, ListedStays DEF Inv, WorkOK, BinsOK
<1> QED
  BY <1>5, <1>6, <1>7 DEF Inv

LEMMA BinEndsInv ==
  ASSUME Inv, BinEnds
  PROVE  Inv'
<1>1. /\ allanQueued > 0 /\ allanQueued' = allanQueued - 1
      /\ UNCHANGED <<phase, recipe, sourceIds, currentIdx, completedDatasets, errors, archive, tabs>>
      /\ sourceSubmitted' = sourceSubmitted /\ assembled' = assembled
      /\ allanSubmitted' = allanSubmitted /\ scratch' = scratch /\ validFileIds' = validFileIds
      /\ futures' = futures /\ taken' = taken /\ submitted' = submitted
      /\ completed' = completed /\ fileResults' = fileResults
      /\ allanTotal' = allanTotal /\ allanCompleted' = allanCompleted
  BY DEF BinEnds, progress, spectra, stored
<1>2. ProgressOK' /\ StoredOK' /\ RecipeFollowed' /\ TabsShowResult' /\ Current' = Current
  BY <1>1, GoesOn DEF Inv, ProgressOK
<1>3. FuturesOK'
  BY <1>1 DEF Inv, FuturesOK, Usable
<1>4. WorkOK'
  BY <1>1 DEF Inv, WorkOK
<1>5. BinsOK'
  BY <1>1, <1>2, ListedStays, BatchEngineAssumption DEF Inv, BinsOK
<1> QED
  BY <1>2, <1>3, <1>4, <1>5 DEF Inv

LEMMA StutterInv ==
  ASSUME Inv, UNCHANGED vars
  PROVE  Inv'
<1>1. /\ UNCHANGED <<phase, recipe, sourceIds, currentIdx, completedDatasets, errors, archive, tabs>>
      /\ sourceSubmitted' = sourceSubmitted /\ assembled' = assembled
      /\ allanSubmitted' = allanSubmitted /\ scratch' = scratch /\ validFileIds' = validFileIds
      /\ futures' = futures /\ taken' = taken /\ submitted' = submitted
      /\ completed' = completed /\ fileResults' = fileResults
      /\ allanTotal' = allanTotal /\ allanCompleted' = allanCompleted
      /\ allanQueued' = allanQueued
  BY DEF vars, progress, work, spectra, allan, stored
<1>2. ProgressOK' /\ StoredOK' /\ RecipeFollowed' /\ TabsShowResult' /\ Current' = Current
  BY <1>1, GoesOn DEF Inv, ProgressOK
<1>3. WorkOK' /\ FuturesOK'
  BY <1>1 DEF Inv, WorkOK, FuturesOK, Usable
<1>4. BinsOK'
  BY <1>1, <1>2, ListedStays DEF Inv, BinsOK
<1> QED
  BY <1>2, <1>3, <1>4 DEF Inv

LEMMA NextInv == Inv /\ [Next]_vars => Inv'
<1> SUFFICES ASSUME Inv, [Next]_vars PROVE Inv'
  OBVIOUS
<1>1. CASE BatchTick
  BY <1>1, LoadFailsInv, LoadAndSubmitInv, PollSpectraInv, SubmitAllanInv, PollAllanInv,
     FinalFails, FinalizeDatasetInv DEF BatchTick
<1>2. CASE BinEnds
  BY <1>2, BinEndsInv
<1>3. CASE \E f \in Files : SpectrumEnds(f)
  BY <1>3, SpectrumEndsInv
<1>4. CASE \E r \in Recipes : \E checks \in SUBSET Datasets : BeginBatch(r, checks)
  BY <1>4, BeginBatchInv
<1>5. CASE \E d \in Datasets : StripTab(d) \/ SaveTab(d)
  BY <1>5, TabsInv
<1>6. CASE PressOK
  BY <1>6, PressOKInv
<1>7. CASE CloseWindow
  BY <1>7, CloseWindowInv
<1>8. CASE UNCHANGED vars
  BY <1>8, StutterInv
<1> QED
  BY <1>1, <1>2, <1>3, <1>4, <1>5, <1>6, <1>7, <1>8 DEF Next, ProgramOver

-----------------------------------------------------------------------------
(* The invariant holds throughout. *)
THEOREM Invariance == Spec => []Inv
<1> QED
  BY InitInv, NextInv, PTL DEF Spec

(* The state keeps its type. *)
THEOREM TypeCorrect == Spec => []TypeOK
<1>1. ASSUME Inv PROVE TypeOK
  <2>1. /\ DOMAIN futures \in SUBSET Files /\ taken \in SUBSET Files
        /\ taken \subseteq DOMAIN futures /\ IsFiniteSet(DOMAIN futures)
    BY <1>1, FilesCounted DEF Inv, FuturesOK
  <2>2. /\ Cardinality(DOMAIN futures) \in 0 .. Cardinality(Files)
        /\ Cardinality(taken) \in Nat /\ Cardinality(taken) <= Cardinality(DOMAIN futures)
    BY <2>1, FilesCounted, FS_Subset, FS_CardinalityType
  <2>3. submitted \in 0 .. Cardinality(Files) /\ completed \in 0 .. submitted
    BY <1>1, <2>2 DEF Inv, FuturesOK
  <2>4. fileResults \subseteq taken
    BY <1>1 DEF Inv, WorkOK, FuturesOK
  <2> QED
    BY <1>1, <2>3, <2>4 DEF Inv, ProgressOK, StoredOK, WorkOK, FuturesOK, BinsOK, Lines, TypeOK
<1> QED
  BY <1>1, Invariance, PTL

(* What the archive has of a processed dataset is the whole recipe, or the    *)
(* list says what is missing: for any recipe and any failures.               *)
THEOREM RecipeIsFollowed == Spec => []RecipeFollowed
<1>1. Inv => RecipeFollowed
  BY DEF Inv
<1> QED
  BY <1>1, Invariance, PTL

(* The open tab of a processed dataset has what the archive has. *)
THEOREM TabsAreCurrent == Spec => []TabsShowResult
<1>1. Inv => TabsShowResult
  BY DEF Inv
<1> QED
  BY <1>1, Invariance, PTL

(* No spectrum that was computed is left out of a result, in whatever order  *)
(* the workers came to their ends.                                           *)
THEOREM EverySpectrumUsed == Spec => UsesEverySpectrum
<1> DEFINE Used ==
      (phase = "Running" /\ sourceSubmitted /\ currentIdx' = currentIdx + 1) =>
        LET usable == {f \in DOMAIN futures : futures[f] = "ok"} IN
          \/ archive'[Current].of = usable
          \/ [of |-> Current, what |-> "save", file |-> NoData] \in errors'
          \/ usable = {}
<1>1. ASSUME Inv, [Next]_vars, phase = "Running", sourceSubmitted, currentIdx' = currentIdx + 1
      PROVE  Used
  <2>1. CASE NoSpectra
    BY <1>1, <2>1, NewContentTyped DEF NoSpectra, Usable
  <2>2. CASE SaveFails
    BY <2>2 DEF SaveFails, Error
  <2>3. CASE FinalizeDataset
    <3>1. Finalizing /\ archive' = [archive EXCEPT ![Current] = NewContent]
      BY <2>3 DEF FinalizeDataset, Store, NewContent
    <3>2. Current \in Datasets
      BY <1>1, CurrentTyped DEF Inv
    <3>3. archive'[Current] = NewContent
      BY <1>1, <3>1, <3>2 DEF Inv, StoredOK
    <3> QED
      BY <1>1, <3>1, <3>3, NewContentTyped DEF Usable
  <2>4. currentIdx \in Nat
    BY <1>1 DEF Inv, ProgressOK
  <2>5. ~UNCHANGED <<progress, stored>> /\ ~UNCHANGED vars
    BY <1>1, <2>4 DEF progress, vars
  <2>6. ~LoadFails /\ ~NoFilesInDataset /\ ~LoadAndSubmit
    BY <1>1 DEF LoadFails, NoFilesInDataset, LoadAndSubmit, Boundary
  <2>7. ~PollSpectra /\ ~SubmitAllan
    <3>1. PollSpectra => currentIdx' = currentIdx
      BY DEF PollSpectra
    <3>2. SubmitAllan => currentIdx' = currentIdx
      BY DEF SubmitAllan
    <3> QED
      BY <1>1, <2>4, <3>1, <3>2
  <2>8. ~PollAllan /\ ~BinEnds /\ \A f \in Files : ~SpectrumEnds(f)
    BY <2>5, <1>1, <2>4 DEF PollAllan, BinEnds, SpectrumEnds, progress
  <2>9. /\ \A r \in Recipes : \A checks \in SUBSET Datasets : ~BeginBatch(r, checks)
        /\ \A d \in Datasets : ~StripTab(d) /\ ~SaveTab(d)
        /\ ~PressOK
    BY <1>1 DEF BeginBatch, StripTab, SaveTab, PressOK
  <2>10. ~CloseWindow /\ ~ProgramOver
    BY <1>1, <2>4 DEF CloseWindow, ProgramOver
  <2>11. NoSpectra \/ SaveFails \/ FinalizeDataset
    BY <1>1, <2>5, <2>6, <2>7, <2>8, <2>9, <2>10 DEF Next, BatchTick
  <2> QED
    BY <2>1, <2>2, <2>3, <2>11
<1>2. Inv /\ [Next]_vars => [Used]_vars
  BY <1>1
<1> QED
  BY <1>2, Invariance, PTL DEF Spec, UsesEverySpectrum

-----------------------------------------------------------------------------
(* The engine is a BatchOfDatasets *)

Left == SubSeq(sourceIds, currentIdx + 1, Len(sourceIds))

LEMMA InitRefines == Init => Promise!Init
<1> SUFFICES ASSUME Init PROVE Promise!Init
  OBVIOUS
<1>1. archive \in [Datasets -> Contents]
  BY InitInv DEF Inv, StoredOK
<1>2. Left = << >>
  BY SubSeqEmpty DEF Init, Left
<1> QED
  BY <1>1, <1>2 DEF Init, Promise!Init, Left

(* A dataset that comes to its end is the first of those left. *)
LEMMA AdvanceRefines ==
  ASSUME ProgressOK, phase = "Running", NEW ok \in BOOLEAN, FinishDatasetFor(ok)
  PROVE  /\ Promise!Advance
         /\ Head(Left) = Current
         /\ completedDatasets' = completedDatasets + (IF ok THEN 1 ELSE 0)
<1> DEFINE n == Len(sourceIds)
           m == currentIdx + 1
<1>1. /\ sourceIds \in Seq(Datasets) /\ n \in Nat /\ m \in 1 .. n /\ n \in m .. n
      /\ currentIdx \in Nat
  BY DEF ProgressOK
<1>2. /\ sourceIds' = sourceIds /\ currentIdx' = m
      /\ phase' = IF m >= n THEN "Done" ELSE "Running"
      /\ completedDatasets' = completedDatasets + (IF ok THEN 1 ELSE 0)
  BY DEF FinishDatasetFor
<1>3. Head(Left) = sourceIds[m] /\ Tail(Left) = SubSeq(sourceIds, m + 1, n)
  BY <1>1, HeadTailOfSubSeq DEF Left
<1>4. Left' = Tail(Left)
  BY <1>2, <1>3 DEF Left
<1>5. Left' = << >> <=> m >= n
  <2>1. Left' = SubSeq(sourceIds, m + 1, n)
    BY <1>3, <1>4
  <2>2. CASE m >= n
    BY <1>1, <2>1, <2>2, SubSeqEmpty
  <2>3. CASE m < n
    <3>1. \A i \in m + 1 .. n : sourceIds[i] \in Datasets
      BY <1>1
    <3>2. Len(Left') = n - (m + 1) + 1
      BY <1>1, <2>1, <2>3, <3>1, SubSeqProperties
    <3> QED
      BY <1>1, <2>3, <3>2
  <2> QED
    BY <1>1, <2>2, <2>3
<1>6. Promise!Advance
  BY <1>2, <1>4, <1>5 DEF Promise!Advance, Left
<1> QED
  BY <1>2, <1>3, <1>6 DEF Current

LEMMA SkipRefines ==
  ASSUME Inv, phase = "Running", FinishDatasetFor(FALSE), UNCHANGED stored
  PROVE  Promise!Skip
<1>1. Promise!Advance /\ completedDatasets' = completedDatasets + 0
  BY AdvanceRefines DEF Inv
<1>2. completedDatasets' = completedDatasets /\ archive' = archive
  BY <1>1 DEF Inv, ProgressOK, stored
<1> QED
  BY <1>1, <1>2 DEF Promise!Skip

LEMMA ProcessRefines ==
  ASSUME Inv, FinalizeDataset
  PROVE  Promise!Process
<1>1. /\ Finalizing /\ phase = "Running" /\ Valid # {} /\ FinishDatasetFor(TRUE)
      /\ archive' = [archive EXCEPT ![Current] = NewContent]
  BY DEF FinalizeDataset, Finalizing, SpectraDone, Polling, Store, NewContent
<1>2. /\ Promise!Advance /\ Head(Left) = Current
      /\ completedDatasets' = completedDatasets + 1
  BY <1>1, AdvanceRefines DEF Inv
<1>3. NewContent \in {c \in Contents : c.of # {}}
  BY <1>1, NewContentTyped
<1>4. archive' = [archive EXCEPT ![Head(Left)] = NewContent]
  BY <1>1, <1>2
<1> QED
  BY <1>2, <1>3, <1>4 DEF Promise!Process, Left

LEMMA BeginRefines ==
  ASSUME Inv', NEW r \in Recipes, NEW checks \in SUBSET Datasets, BeginBatch(r, checks)
  PROVE  Promise!Begin
<1>1. /\ phase = "Idle" /\ phase' = "Running" /\ currentIdx' = 0 /\ completedDatasets' = 0
      /\ archive' = archive
  BY DEF BeginBatch, stored
<1>2. sourceIds' \in Seq(Datasets) /\ 0 < Len(sourceIds')
  BY <1>1 DEF Inv, ProgressOK
<1>3. SubSeq(sourceIds', 1, Len(sourceIds')) = sourceIds'
  BY <1>2, SubSeqFull
<1>4. Left' # << >>
  <2>1. Left' = sourceIds'
    BY <1>1, <1>3 DEF Left
  <2>2. Len(<< >>) = 0
    OBVIOUS
  <2> QED
    BY <1>2, <2>1, <2>2
<1> QED
  BY <1>1, <1>4 DEF Promise!Begin, Left

LEMMA SaveTabRefines ==
  ASSUME Inv, NEW d \in Datasets, SaveTab(d)
  PROVE  Promise!SaveTab(d)
<1>1. /\ phase = "Idle" /\ archive' = [archive EXCEPT ![d] = tabs[d]] /\ tabs[d] # NoData
      /\ phase' = phase /\ sourceIds' = sourceIds /\ currentIdx' = currentIdx
      /\ completedDatasets' = completedDatasets
  BY DEF SaveTab, progress
<1>2. tabs[d] \in Contents
  BY <1>1 DEF Inv, StoredOK
<1> QED
  BY <1>1, <1>2 DEF Promise!SaveTab

(* What happens inside a dataset, and to a tab alone, is not seen. *)
LEMMA UnseenRefines ==
  ASSUME UNCHANGED <<phase, sourceIds, currentIdx, completedDatasets, archive>>
  PROVE  UNCHANGED Promise!vars
BY DEF Promise!vars

LEMMA TickRefines ==
  ASSUME Inv, BatchTick
  PROVE  Promise!Next \/ UNCHANGED Promise!vars
<1>1. CASE LoadFails \/ NoFilesInDataset
  BY <1>1, SkipRefines DEF LoadFails, NoFilesInDataset, Boundary, Promise!Next
<1>2. CASE NoSpectra \/ SaveFails
  <2>1. phase = "Running" /\ FinishDatasetFor(FALSE) /\ UNCHANGED stored
    BY <1>2 DEF NoSpectra, SaveFails, Finalizing, SpectraDone, Polling
  <2> QED
    BY <2>1, SkipRefines DEF Promise!Next
<1>3. CASE FinalizeDataset
  BY <1>3, ProcessRefines DEF Promise!Next
<1>4. CASE LoadAndSubmit \/ PollSpectra \/ SubmitAllan \/ PollAllan
  <2>1. UNCHANGED <<phase, sourceIds, currentIdx, completedDatasets, archive>>
    BY <1>4 DEF LoadAndSubmit, PollSpectra, SubmitAllan, PollAllan, progress, stored
  <2> QED
    BY <2>1, UnseenRefines
<1> QED
  BY <1>1, <1>2, <1>3, <1>4 DEF BatchTick

LEMMA StepRefines == Inv /\ Inv' /\ [Next]_vars => [Promise!Next]_Promise!vars
<1> SUFFICES ASSUME Inv, Inv', [Next]_vars
             PROVE  Promise!Next \/ UNCHANGED Promise!vars
  OBVIOUS
<1>1. CASE BatchTick
  BY <1>1, TickRefines
<1>2. CASE \E r \in Recipes : \E checks \in SUBSET Datasets : BeginBatch(r, checks)
  BY <1>2, BeginRefines DEF Promise!Next
<1>3. CASE \E d \in Datasets : SaveTab(d)
  BY <1>3, SaveTabRefines DEF Promise!Next
<1>4. CASE \/ BinEnds \/ UNCHANGED vars
           \/ \E f \in Files : SpectrumEnds(f)
           \/ \E d \in Datasets : StripTab(d)
  <2>1. UNCHANGED <<phase, sourceIds, currentIdx, completedDatasets, archive>>
    BY <1>4 DEF BinEnds, SpectrumEnds, StripTab, vars, progress, stored
  <2> QED
    BY <2>1, UnseenRefines
<1>5. CASE PressOK
  <2>1. Promise!Acknowledge
    BY <1>5 DEF PressOK, stored, Promise!Acknowledge
  <2> QED
    BY <2>1 DEF Promise!Next
<1>6. CASE CloseWindow
  <2>1. Promise!Exit
    BY <1>6 DEF CloseWindow, Promise!Exit
  <2> QED
    BY <2>1 DEF Promise!Next
<1> QED
  BY <1>1, <1>2, <1>3, <1>4, <1>5, <1>6 DEF Next, ProgramOver

(* A dataset is rewritten exactly when it is counted as processed; the others *)
(* are what they were, and so are all that are left when the window is       *)
(* closed in the middle.                                                     *)
THEOREM PromiseKept == Spec => KeepsPromise
<1> QED
  BY InitRefines, StepRefines, Invariance, PTL DEF Spec, KeepsPromise, Promise!Spec
================================================================================
