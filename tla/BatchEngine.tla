------------------------------ MODULE BatchEngine ------------------------------
(***************************************************************************)
(* session/batch_engine.cpp: a recipe applied to the checked datasets of a   *)
(* project, one dataset after the other, one step per frame (batchTick).    *)
(* The workers compute one spectrum per file and then one Allan variance    *)
(* per wavelength bin, in any order; load, assembly and save are the GUI    *)
(* thread's.  The progress modal keeps the user out while a batch runs; the *)
(* window can still be closed.                                              *)
(*                                                                          *)
(* The content of a dataset is its files and what its derivatives are: the  *)
(* artifacts, and the files they were made of.  A save replaces the dataset *)
(* in the archive or leaves it (ArchiveFile).                               *)
(***************************************************************************)
EXTENDS Integers, Sequences, FiniteSets

CONSTANTS
    Sources,        \* sessionTab.sources: the datasets in their order
    Files,
    FileSets,       \* those a dataset may consist of
    Recipes,        \* sets of artifacts
    MaxBins,        \* wavelength bins
    NoData

Datasets == {Sources[i] : i \in DOMAIN Sources}
Artifacts == {"spectra", "average", "snr", "t100", "allan"}

ASSUME BatchEngineAssumption ==
  /\ Sources \in Seq(Datasets)
  /\ \A i, j \in DOMAIN Sources : Sources[i] = Sources[j] => i = j
  /\ IsFiniteSet(Files)
  /\ FileSets \subseteq SUBSET Files
  /\ Recipes \subseteq SUBSET Artifacts
  /\ MaxBins \in Nat

VARIABLES
    phase,          \* BatchPhase, or "Exited"
    recipe,
    sourceIds,
    currentIdx,
    completedDatasets,
    errors,         \* what is listed: [of, what, file]
    sourceSubmitted, assembled, allanSubmitted,
    scratch,        \* the content of the dataset in work, once loaded
    futures,        \* its files: computed how, or not yet
    taken,          \* those whose future was read
    submitted, completed,
    fileResults,    \* buffered spectra
    validFileIds,
    allanTotal, allanCompleted,
    allanQueued,    \* bins no worker has computed yet
    archive,
    tabs            \* per dataset: the workspace of its open tab

progress == <<phase, recipe, sourceIds, currentIdx, completedDatasets, errors>>
spectra == <<futures, taken, submitted, completed, fileResults>>
allan == <<allanTotal, allanCompleted, allanQueued>>
work == <<sourceSubmitted, assembled, allanSubmitted, scratch, spectra, validFileIds, allan>>
stored == <<archive, tabs>>
vars == <<progress, work, stored>>

Queued == "queued"
(* What came of a spectrum: an exception, or an empty one without a reason,   *)
(* is not listed.                                                            *)
Outcomes == {"ok", "error", "silent"}
Flaws == {"load", "no files", "file", "no spectra", "snr", "allan", "save"}

Contents ==
  [files : SUBSET Files, artifacts : SUBSET Artifacts, of : SUBSET Files]

NoFutures == [f \in {} |-> NoData]

TypeOK ==
  /\ phase \in {"Idle", "Running", "Done", "Exited"}
  /\ recipe \in Recipes \cup {{}}
  /\ sourceIds \in Seq(Datasets) /\ Len(sourceIds) <= Len(Sources)
  /\ currentIdx \in 0 .. Len(sourceIds)
  /\ completedDatasets \in 0 .. currentIdx
  /\ errors \subseteq [of : Datasets, what : Flaws, file : Files \cup {NoData}]
  /\ sourceSubmitted \in BOOLEAN /\ assembled \in BOOLEAN /\ allanSubmitted \in BOOLEAN
  /\ scratch \in Contents \cup {NoData}
  /\ DOMAIN futures \subseteq Files
  /\ \A f \in DOMAIN futures : futures[f] \in {Queued} \cup Outcomes
  /\ taken \subseteq DOMAIN futures
  /\ submitted \in 0 .. Cardinality(Files) /\ completed \in 0 .. submitted
  /\ fileResults \subseteq taken /\ validFileIds \subseteq Files
  /\ allanTotal \in 0 .. MaxBins
  /\ allanCompleted \in 0 .. allanTotal /\ allanQueued \in 0 .. allanTotal
  /\ archive \in [Datasets -> Contents]
  /\ tabs \in [Datasets -> Contents \cup {NoData}]

Original(fs) == [files |-> fs, artifacts |-> {}, of |-> {}]

Init ==
  /\ phase = "Idle"
  /\ recipe = {}
  /\ sourceIds = << >> /\ currentIdx = 0 /\ completedDatasets = 0 /\ errors = {}
  /\ sourceSubmitted = FALSE /\ assembled = FALSE /\ allanSubmitted = FALSE
  /\ scratch = NoData
  /\ futures = NoFutures /\ taken = {} /\ submitted = 0 /\ completed = 0 /\ fileResults = {}
  /\ validFileIds = {}
  /\ allanTotal = 0 /\ allanCompleted = 0 /\ allanQueued = 0
  /\ archive \in [Datasets -> {Original(fs) : fs \in FileSets}]
  /\ tabs \in [Datasets -> {NoData} \cup {archive[d] : d \in Datasets}]
  /\ \A d \in Datasets : tabs[d] \in {NoData, archive[d]}

Current == sourceIds[currentIdx + 1]

Error(what) == [of |-> Current, what |-> what, file |-> NoData]
FileError(f) == [of |-> Current, what |-> "file", file |-> f]

-----------------------------------------------------------------------------
(* Between batches: the derivatives of a tab are stripped, a tab is saved *)

StripTab(d) ==
  /\ phase = "Idle"
  /\ tabs[d] # NoData
  /\ tabs' = [tabs EXCEPT ![d] = Original(tabs[d].files)]
  /\ UNCHANGED <<progress, work, archive>>

SaveTab(d) ==
  /\ phase = "Idle"
  /\ tabs[d] # NoData
  /\ archive' = [archive EXCEPT ![d] = tabs[d]]
  /\ UNCHANGED <<progress, work, tabs>>

(* The checked datasets in the order of the list. *)
Place(d) == CHOOSE i \in DOMAIN Sources : Sources[i] = d

Checked(checks) ==
  {ids \in [1 .. Cardinality(checks) -> checks] :
     \A k, l \in DOMAIN ids : k < l => Place(ids[k]) < Place(ids[l])}

(* "Run" in the confirmation; its caller needs a recipe and a checked dataset. *)
BeginBatch(r, checks) ==
  /\ phase = "Idle"
  /\ checks # {}
  /\ phase' = "Running"
  /\ recipe' = r
  /\ sourceIds' \in Checked(checks)
  /\ currentIdx' = 0 /\ completedDatasets' = 0 /\ errors' = {}
  /\ UNCHANGED <<work, stored>>

PressOK ==
  /\ phase = "Done"
  /\ phase' = "Idle"
  /\ UNCHANGED <<recipe, sourceIds, currentIdx, completedDatasets, errors, work, stored>>

-----------------------------------------------------------------------------
(* The end of a dataset *)

(* The sub-state of finishDatasetFor. *)
\* Mutant of ClearWork: the Allan phase counts as done for the next dataset
ClearWorkOnly ==
  /\ sourceSubmitted' = FALSE /\ assembled' = FALSE
  /\ scratch' = NoData
  /\ futures' = NoFutures /\ taken' = {} /\ submitted' = 0 /\ completed' = 0 /\ fileResults' = {}
  /\ validFileIds' = {}
  /\ UNCHANGED <<allanSubmitted, allan>>

ClearWork ==
  /\ sourceSubmitted' = FALSE /\ assembled' = FALSE /\ allanSubmitted' = FALSE
  /\ scratch' = NoData
  /\ futures' = NoFutures /\ taken' = {} /\ submitted' = 0 /\ completed' = 0 /\ fileResults' = {}
  /\ validFileIds' = {}
  /\ allanTotal' = 0 /\ allanCompleted' = 0 /\ allanQueued' = 0

(* A clean program exits at once; what the workers compute goes nowhere.      *)
CloseWindow ==
  /\ phase # "Exited"
  /\ phase' = "Exited"
  /\ recipe' = {}
  /\ sourceIds' = << >> /\ currentIdx' = 0 /\ completedDatasets' = 0 /\ errors' = {}
  /\ ClearWork
  /\ tabs' = [d \in Datasets |-> NoData]
  /\ UNCHANGED archive

\* Mutant of FinishDatasetFor: it counts whatever became of it
FinishCounts(ok) ==
  /\ completedDatasets' = completedDatasets + 1
  /\ currentIdx' = currentIdx + 1
  /\ phase' = IF currentIdx' >= Len(sourceIds) THEN "Done" ELSE "Running"
  /\ ClearWork
  /\ UNCHANGED <<recipe, sourceIds>>

FinishDatasetFor(ok) ==
  /\ completedDatasets' = completedDatasets + (IF ok THEN 1 ELSE 0)
  /\ currentIdx' = currentIdx + 1
  /\ phase' = IF currentIdx' >= Len(sourceIds) THEN "Done" ELSE "Running"
  /\ ClearWork
  /\ UNCHANGED <<recipe, sourceIds>>

-----------------------------------------------------------------------------
(* batchTick: the boundary *)

Boundary == phase = "Running" /\ ~sourceSubmitted

LoadFails ==
  /\ Boundary
  /\ errors' = errors \cup {Error("load")}
  /\ FinishDatasetFor(FALSE)
  /\ UNCHANGED stored

NoFilesInDataset ==
  /\ Boundary
  /\ archive[Current].files = {}
  /\ errors' = errors \cup {Error("no files")}
  /\ FinishDatasetFor(FALSE)
  /\ UNCHANGED stored

(* The derivatives are stripped; a file that cannot be read is left out.  The *)
(* same tick goes on to poll, and the workers run in between.                *)
LoadAndSubmit ==
  /\ Boundary
  /\ archive[Current].files # {}
  /\ scratch' = Original(archive[Current].files)
  /\ \E readable \in SUBSET archive[Current].files :
       /\ futures' = [f \in readable |-> Queued]
       /\ submitted' = Cardinality(readable)
  /\ sourceSubmitted' = TRUE
  /\ taken' = {} /\ completed' = 0 /\ fileResults' = {}
  /\ UNCHANGED <<progress, assembled, allanSubmitted, validFileIds, allan, stored>>

-----------------------------------------------------------------------------
(* batchTick: the futures *)

Ready == {f \in DOMAIN futures \ taken : futures[f] # Queued}

\* Mutant of Counted: a failed task is only reported
CountedOk == completed + Cardinality({f \in Ready : futures[f] # "silent"})

Counted == completed + Cardinality(Ready)

Buffered == fileResults \cup {f \in Ready : futures[f] = "ok"}

Reported == {FileError(f) : f \in {g \in Ready : futures[g] = "error"}}

Polling == phase = "Running" /\ sourceSubmitted

PollSpectra ==
  /\ Polling
  /\ Counted < submitted
  /\ taken' = taken \cup Ready
  /\ completed' = Counted
  /\ fileResults' = Buffered
  /\ errors' = errors \cup Reported
  /\ UNCHANGED <<phase, recipe, sourceIds, currentIdx, completedDatasets, sourceSubmitted, assembled,
                 allanSubmitted, scratch, futures, submitted, validFileIds, allan, stored>>

(* assembleDataset, exactly once: it empties the buffer. *)
\* Mutant of Valid: whenever the spectra are complete
ValidAgain == Buffered

Valid == IF assembled THEN validFileIds ELSE Buffered

SpectraDone == Polling /\ Counted >= submitted

Assemble ==
  /\ taken' = taken \cup Ready
  /\ completed' = Counted
  /\ validFileIds' = Valid
  /\ fileResults' = {}
  /\ assembled' = TRUE

(* submitAllan needs two curves, and wavelengths in its range. *)
SubmitAllan ==
  /\ SpectraDone
  /\ "allan" \in recipe /\ ~allanSubmitted
  /\ Assemble
  /\ allanSubmitted' = TRUE
  /\ \E bins \in 0 .. MaxBins :
       /\ Cardinality(Valid) < 2 => bins = 0
       /\ allanTotal' = bins /\ allanQueued' = bins
       /\ errors' = errors \cup Reported \cup (IF bins = 0 THEN {Error("allan")} ELSE {})
  /\ allanCompleted' = 0
  /\ UNCHANGED <<phase, recipe, sourceIds, currentIdx, completedDatasets, sourceSubmitted, scratch,
                 futures, submitted, stored>>

AllanReady == allanTotal - allanQueued

PollAllan ==
  /\ SpectraDone
  /\ allanSubmitted /\ allanTotal > 0
  /\ AllanReady < allanTotal
  /\ Assemble
  /\ allanCompleted' = AllanReady
  /\ UNCHANGED <<progress, sourceSubmitted, allanSubmitted, scratch, futures, submitted,
                 allanTotal, allanQueued, stored>>

(* Everything is computed. *)
Finalizing ==
  /\ SpectraDone
  /\ "allan" \in recipe => allanSubmitted
  /\ allanSubmitted => AllanReady = allanTotal

(* The artifacts of finalizeDataset: a 100% T brings its average along. *)
Made ==
  (recipe \cap {"spectra", "average", "t100"})
    \cup (IF "t100" \in recipe THEN {"average"} ELSE {})
    \cup (IF "snr" \in recipe /\ Cardinality(Valid) >= 2 THEN {"snr"} ELSE {})
    \cup (IF "allan" \in recipe /\ allanTotal > 0 THEN {"allan"} ELSE {})

Warned ==
  Reported \cup (IF "snr" \in recipe /\ Cardinality(Valid) < 2 THEN {Error("snr")} ELSE {})

NoSpectra ==
  /\ Finalizing
  /\ Valid = {}
  /\ errors' = errors \cup Reported \cup {Error("no spectra")}
  /\ FinishDatasetFor(FALSE)
  /\ UNCHANGED stored

SaveFails ==
  /\ Finalizing
  /\ Valid # {}
  /\ errors' = errors \cup Warned \cup {Error("save")}
  /\ FinishDatasetFor(FALSE)
  /\ UNCHANGED stored

(* multiWorkspaceSaveSource, and what an open tab shows. *)
\* Mutant of Store: the open tab is left as it is
StoreOnly(content) ==
  /\ archive' = [archive EXCEPT ![Current] = content]
  /\ UNCHANGED tabs

Store(content) ==
  /\ archive' = [archive EXCEPT ![Current] = content]
  /\ tabs' = [tabs EXCEPT ![Current] = IF @ = NoData THEN NoData ELSE content]

FinalizeDataset ==
  /\ Finalizing
  /\ Valid # {}
  /\ errors' = errors \cup Warned
  /\ Store([scratch EXCEPT !.artifacts = Made, !.of = Valid])
  /\ FinishDatasetFor(TRUE)

BatchTick ==
  \/ LoadFails \/ NoFilesInDataset \/ LoadAndSubmit
  \/ PollSpectra \/ SubmitAllan \/ PollAllan
  \/ NoSpectra \/ SaveFails \/ FinalizeDataset

-----------------------------------------------------------------------------
(* The workers *)

SpectrumEnds(f) ==
  /\ f \in DOMAIN futures /\ futures[f] = Queued
  /\ \E o \in Outcomes : futures' = [futures EXCEPT ![f] = o]
  /\ UNCHANGED <<progress, sourceSubmitted, assembled, allanSubmitted, scratch, taken, submitted,
                 completed, fileResults, validFileIds, allan, stored>>

BinEnds ==
  /\ allanQueued > 0
  /\ allanQueued' = allanQueued - 1
  /\ UNCHANGED <<progress, sourceSubmitted, assembled, allanSubmitted, scratch, spectra,
                 validFileIds, allanTotal, allanCompleted, stored>>

ProgramOver == phase = "Exited" /\ UNCHANGED vars

Next ==
  \/ BatchTick \/ BinEnds
  \/ \E f \in Files : SpectrumEnds(f)
  \/ \E r \in Recipes : \E checks \in SUBSET Datasets : BeginBatch(r, checks)
  \/ \E d \in Datasets : StripTab(d) \/ SaveTab(d)
  \/ PressOK \/ CloseWindow \/ ProgramOver

Spec == Init /\ [][Next]_vars

(* batchTick asks for the next frame itself, and the tasks end. *)
Fairness ==
  /\ WF_vars(BatchTick) /\ WF_vars(BinEnds)
  /\ \A f \in Files : WF_vars(SpectrumEnds(f))

FairSpec == Spec /\ Fairness

-----------------------------------------------------------------------------
Listed(d, what) == \E e \in errors : e.of = d /\ e.what = what

(* The datasets behind the current one, of this batch.                       *)
Behind == {sourceIds[i] : i \in 1 .. currentIdx}

(* What the archive has of a dataset that was processed is the whole recipe,  *)
(* or the list of errors says which artifact is missing: nothing is left out  *)
(* silently, and no sub-state of one dataset is taken for that of the next.  *)
RecipeFollowed ==
  phase \in {"Running", "Done"} =>
    \A d \in Behind :
      \/ \E what \in {"load", "no files", "no spectra", "save"} : Listed(d, what)
      \/ /\ archive[d].of # {}
         /\ \A a \in recipe \ archive[d].artifacts : Listed(d, a)

(* Every spectrum the workers could compute is in the result, in whatever     *)
(* order and frame they arrived; only a dataset without any has none.        *)
UsesEverySpectrum ==
  [][(phase = "Running" /\ sourceSubmitted /\ currentIdx' = currentIdx + 1) =>
       LET usable == {f \in DOMAIN futures : futures[f] = "ok"} IN
         \/ archive'[Current].of = usable
         \/ [of |-> Current, what |-> "save", file |-> NoData] \in errors'
         \/ usable = {}]_vars

(* While the results are on screen, the tab of a processed dataset has what  *)
(* the archive has: saving it later cannot bring the old artifacts back.     *)
TabsShowResult ==
  phase \in {"Running", "Done"} =>
    \A d \in Behind :
      (archive[d].of # {} /\ ~\E what \in {"load", "no files", "no spectra", "save"} : Listed(d, what))
        => tabs[d] \in {NoData, archive[d]}

(* The engine is a BatchOfDatasets.                                          *)
Promise == INSTANCE BatchOfDatasets WITH
    Results <- {c \in Contents : c.of # {}},
    left <- SubSeq(sourceIds, currentIdx + 1, Len(sourceIds)),
    processed <- completedDatasets

(* A dataset is rewritten exactly when it is counted; the others, and all of  *)
(* them after an exit in the middle, are what they were.                      *)
KeepsPromise == Promise!Spec

(* A batch comes to its end whatever fails, unless the program does.          *)
BatchEnds == phase = "Running" ~> phase # "Running"

(* The progress modal says "%zu dataset(s) with warnings or errors" of the    *)
(* length of the list.                                                       *)
WarnedDatasets == phase = "Done" => Cardinality(errors) <= Len(sourceIds)
================================================================================
