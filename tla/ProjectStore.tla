------------------------------ MODULE ProjectStore ------------------------------
(***************************************************************************)
(* A project in memory and its archive on disk.  In memory are the list of *)
(* datasets, the tabs open on them, the comparator's copies of datasets    *)
(* that have no tab, and the experiments.  What the user does becomes a    *)
(* plan of store calls; each is carried out by ArchiveFile while the GUI   *)
(* thread waits, and its result is applied to the memory.  A crash at any  *)
(* moment leaves only the files.                                           *)
(***************************************************************************)
EXTENDS ArchiveFile, Sequences, SequencesExt

CONSTANT MaxActs    \* bound on what the user does

ASSUME MaxActsAssumption == MaxActs \in Nat

VARIABLES
    mem,            \* AppState: the project's part
    plan,           \* store calls still to make; the first may be running
    acts            \* user acts so far

vars == <<file, tmp, step, op, ok, mem, plan, acts>>

Unsaved == 0        \* the id of an experiment that was never saved

Memories ==
  [ showWelcomeScreen  : BOOLEAN,
    multiWorkspaceOpen : BOOLEAN,
    sources     : Some(Sources, Names),     \* SessionTabState::sources
    sourceCache : Some(Sources, Datas),     \* SessionTabState::sourceCache
    recipes     : SUBSET Recipes,           \* the batch panel's list
    sessions    : Some(Sources, [data : Datas, dirty : BOOLEAN]),
    tabStripOrder : SUBSET Sources,
    openTabIds    : SUBSET Sources,         \* SessionTabState::openTabIds
    experiments   : BoundedSeq([id : {Unsaved} \cup ExpIds, data : Datas,
                                dirty : BOOLEAN], MaxExpId) ]

Nothing == [x \in {} |-> OwnName]

Launched ==
  [ showWelcomeScreen |-> TRUE, multiWorkspaceOpen |-> FALSE,
    sources |-> Nothing, sourceCache |-> Nothing,
    recipes |-> {}, sessions |-> Nothing, tabStripOrder |-> {}, openTabIds |-> {},
    experiments |-> <<>> ]

Init ==
  /\ FileInit
  /\ mem = Launched
  /\ plan = <<>>
  /\ acts = 0

-----------------------------------------------------------------------------
(* What the store and session functions do to the memory. *)

LoadInto(m, c) ==
  [m EXCEPT !.multiWorkspaceOpen = TRUE, !.sources = c.sources, !.sourceCache = Nothing,
            !.openTabIds = c.tabOrder]

RefreshBatchRecipes(m, c) == [m EXCEPT !.recipes = c.recipes]

RemoveTab(m, id) ==
  [m EXCEPT !.sessions = Drop(@, id), !.sourceCache = Drop(@, id)]

Loaded(c, id) == [data |-> c.groups[id].data, dirty |-> FALSE]

OpenTabs(m, c, ids) ==
  [m EXCEPT !.sessions =
     [id \in DOMAIN @ \cup (ids \cap DOMAIN c.groups) |->
        IF id \in DOMAIN m.sessions THEN m.sessions[id] ELSE Loaded(c, id)]]

(* The tabs that were listed when the manifest was last read. *)
RestoreOpenEmbeddedTabs(m, c) == OpenTabs(m, c, m.openTabIds)

(* The members of S, one after the other; of a set of numbers, from the      *)
(* least to the greatest.                                                    *)
Orders(S) == {s \in SeqOf(S, Cardinality(S)) : ToSet(s) = S}

ListOrders(S) == {s \in Orders(S) : \A j, k \in DOMAIN s : j < k => s[j] < s[k]}

InOrder(S) == CHOOSE s \in ListOrders(S) : TRUE

IdsInMemory(m) == {m.experiments[n].id : n \in DOMAIN m.experiments} \ {Unsaved}

\* Mutant of LoadExperiments: also those that are in memory
LoadAllExperiments(m, c) ==
  LET all == InOrder(c.listedExps)
  IN  [m EXCEPT !.experiments = @ \o [n \in DOMAIN all |->
         [id |-> all[n], data |-> c.experiments[all[n]], dirty |-> FALSE]]]

(* The stored experiments that are not in memory, behind those that are. *)
LoadExperiments(m, c) ==
  LET missing == InOrder(c.listedExps \ IdsInMemory(m))
  IN  [m EXCEPT !.experiments = @ \o [n \in DOMAIN missing |->
         [id |-> missing[n], data |-> c.experiments[missing[n]], dirty |-> FALSE]]]

ClearExperiments(m) == [m EXCEPT !.experiments = <<>>]

OpenProject(m, c) ==
  RefreshBatchRecipes(
    RestoreOpenEmbeddedTabs(LoadExperiments(ClearExperiments(LoadInto(m, c)), c), c), c)

(* Leave the welcome screen. *)
Shown(m) == [m EXCEPT !.showWelcomeScreen = FALSE]

(* The strip is read back from the tab bar at the end of every frame, but on *)
(* the welcome screen there is none.                                         *)
CaptureStrip(m) ==
  IF m.showWelcomeScreen THEN m ELSE [m EXCEPT !.tabStripOrder = DOMAIN m.sessions]

PersistableTabOrder(m) ==
  IF m.tabStripOrder = {} THEN DOMAIN m.sessions ELSE m.tabStripOrder

-----------------------------------------------------------------------------
(* Ids of new experiments. *)

FreeId(taken) == CHOOSE k \in ExpIds \ taken : \A j \in ExpIds \ taken : k <= j

(* The id an experiment is saved under, when the list of those on disk can   *)
(* be read; ids already given to others count even if their save failed.     *)
UniqueExpId(m, c) == FreeId(c.listedExps \cup IdsInMemory(m))

(* When it cannot be read no id is known to be taken. *)
UncheckedExpId == FreeId({})

ExpIdFor(m, c, listed) ==
  IF listed THEN UniqueExpId(m, c) ELSE UncheckedExpId

(* Experiment n of m as it goes to the archive: with an id. *)
WithId(m, n, id) ==
  IF m.experiments[n].id = Unsaved
  THEN [m EXCEPT !.experiments[n].id = id] ELSE m

-----------------------------------------------------------------------------
(* A planned call: what is asked for, and of what. *)
Item(what) == [what |-> what]
ItemOf(what, of) == [what |-> what, of |-> of]
ItemWith(what, of, data) == [what |-> what, of |-> of, data |-> data]

(* The store operation of a planned call.  A tab and an experiment are saved *)
(* as they are when their turn comes.                                        *)
Requested(i, m) ==
  CASE i.what \in {"createEmpty", "createFirst"} -> [kind |-> "create"]
    [] i.what \in {"add", "addFirst"} ->
         [kind |-> "addSource", id |-> i.of, data |-> i.data]
    [] i.what = "remove" -> [kind |-> "removeSource", id |-> i.of]
    [] i.what = "rename" -> [kind |-> "renameSource", id |-> i.of, name |-> i.data]
    [] i.what = "tab" ->
         [kind |-> "saveSource", id |-> i.of, data |-> m.sessions[i.of].data]
    [] i.what = "batch" -> [kind |-> "saveSource", id |-> i.of, data |-> i.data]
    [] i.what = "order" -> [kind |-> "saveTabOrder", order |-> PersistableTabOrder(m)]
    [] i.what = "experiment" ->
         [kind |-> "experimentWrite", id |-> m.experiments[i.of].id,
          data |-> m.experiments[i.of].data]
    [] i.what = "delete" ->
         [kind |-> "experimentRemove", id |-> m.experiments[i.of].id]
    [] i.what = "recipe" -> [kind |-> "recipeWrite", name |-> i.of]
    [] i.what = "unrecipe" -> [kind |-> "recipeRemove", name |-> i.of]

RemoveDone(m, id, c) ==
  RefreshBatchRecipes(
    LoadInto(IF id \in DOMAIN m.sessions THEN RemoveTab(m, id) ELSE m, c), c)

\* Mutant of BatchDone: the comparator keeps what it had
BatchDoneKeepsCopy(m, id, data) ==
  [m EXCEPT
     !.sessions = IF id \in DOMAIN @ THEN [@ EXCEPT ![id] = [data |-> data, dirty |-> FALSE]]
                  ELSE @]

(* The batch's result replaces the open tab's workspace, and the             *)
(* comparator's copy.                                                        *)
BatchDone(m, id, data) ==
  [m EXCEPT
     !.sessions = IF id \in DOMAIN @ THEN [@ EXCEPT ![id] = [data |-> data, dirty |-> FALSE]]
                  ELSE @,
     !.sourceCache = Put(@, id, data)]

TabSaved(m, id) ==
  [m EXCEPT !.sessions[id].dirty = FALSE, !.sourceCache = Nothing]

(* What a successful call changes in memory; c is the archive by then. *)
Succeeded(i, m, c) ==
  CASE i.what = "createEmpty" -> Shown(OpenProject(m, c))
    [] i.what = "addFirst" -> Shown(OpenTabs(OpenProject(m, c), c, {i.of}))
    [] i.what = "add" -> RefreshBatchRecipes(LoadInto(m, c), c)
    [] i.what = "remove" -> RemoveDone(m, i.of, c)
    [] i.what = "rename" -> [m EXCEPT !.sources[i.of] = i.data]
    [] i.what = "tab" -> TabSaved(m, i.of)
    [] i.what = "batch" -> BatchDone(m, i.of, i.data)
    [] i.what = "experiment" -> [m EXCEPT !.experiments[i.of].dirty = FALSE]
    [] i.what = "delete" -> [m EXCEPT !.experiments = RemoveAt(@, i.of)]
    [] i.what \in {"recipe", "unrecipe"} -> RefreshBatchRecipes(m, c)
    [] i.what \in {"createFirst", "order"} -> m

\* Mutant of Failed: what was not saved counts as saved
FailedCleans(i, m) ==
  CASE i.what = "delete" -> [m EXCEPT !.experiments = RemoveAt(@, i.of)]
    [] i.what = "tab" -> [m EXCEPT !.sessions[i.of].dirty = FALSE]
    [] i.what = "experiment" -> [m EXCEPT !.experiments[i.of].dirty = FALSE]
    [] OTHER -> m

(* A failed call changes nothing, but a deleted experiment is gone from      *)
(* memory all the same.                                                      *)
Failed(i, m) ==
  IF i.what = "delete" THEN [m EXCEPT !.experiments = RemoveAt(@, i.of)] ELSE m

-----------------------------------------------------------------------------
(* The calls of the plan, one after the other *)

Turn(whats) ==
  /\ step = "idle"
  /\ plan # <<>>
  /\ Head(plan).what \in whats

\* Mutant of OrderUnchanged: compared with the order of the last load
OrderAsLoaded ==
  Head(plan).what = "order" /\ mem.openTabIds = PersistableTabOrder(mem)

OrderUnchanged ==
  Head(plan).what = "order" /\ file # NoFile /\ file.tabOrder = PersistableTabOrder(mem)

CanList ==
  (IF file # NoFile THEN {TRUE} ELSE {})
  \cup (IF file = NoFile \/ "list" \in Faults THEN {FALSE} ELSE {})

(* An experiment gets its id before it is written, and keeps it even if the  *)
(* write fails.                                                              *)
StartExperiment ==
  /\ Turn({"experiment"})
  /\ \E listed \in CanList :
        mem' = WithId(mem, Head(plan).of, ExpIdFor(mem, file, listed))
  /\ Call(Requested(Head(plan), mem'))
  /\ UNCHANGED <<plan, acts>>

Start ==
  /\ Turn({"createEmpty", "createFirst", "addFirst", "add", "remove", "rename",
           "tab", "batch", "order", "delete", "recipe", "unrecipe"})
  /\ ~OrderUnchanged
  /\ Call(Requested(Head(plan), mem))
  /\ UNCHANGED <<mem, plan, acts>>

(* The tab order is written only when it changed. *)
SkipOrder ==
  /\ Turn({"order"})
  /\ OrderUnchanged
  /\ plan' = Tail(plan)
  /\ UNCHANGED <<fileVars, mem, acts>>

StoreStep ==
  /\ FileStep
  /\ UNCHANGED <<mem, plan, acts>>

(* A failed call ends the plan. *)
Finish ==
  /\ Taken
  /\ mem' = CaptureStrip(IF ok THEN Succeeded(Head(plan), mem, file)
                          ELSE Failed(Head(plan), mem))
  /\ plan' = IF ok THEN Tail(plan) ELSE <<>>
  /\ UNCHANGED acts

-----------------------------------------------------------------------------
(* The user *)

Act ==
  /\ step = "idle"
  /\ plan = <<>>
  /\ acts < MaxActs
  /\ acts' = acts + 1
  /\ UNCHANGED fileVars

(* Acts in an open project. *)
InProject == Act /\ mem.multiWorkspaceOpen /\ ~mem.showWelcomeScreen

Plans(items) == InProject /\ plan' = items /\ UNCHANGED mem

Changes(m) == InProject /\ mem' = CaptureStrip(m) /\ UNCHANGED plan

(* Welcome: an empty project, over whatever is at that path. *)
NewProject ==
  /\ Act
  /\ mem.showWelcomeScreen
  /\ plan' = <<Item("createEmpty")>>
  /\ UNCHANGED mem

(* Create Multi-Workspace: a project made from a standalone dataset. *)
CreateFromDataset ==
  /\ Act
  /\ ~mem.multiWorkspaceOpen
  /\ \E id \in Sources, data \in Datas :
        plan' = <<Item("createFirst"), ItemWith("addFirst", id, data)>>
  /\ UNCHANGED mem

OpenExisting ==
  /\ Act
  /\ ~mem.multiWorkspaceOpen /\ file # NoFile
  /\ mem' = CaptureStrip(Shown(OpenProject(mem, file)))
  /\ UNCHANGED plan

(* The same project chosen again, as from the welcome screen after GoHome:   *)
(* its manifest is not read again.                                           *)
Reopen ==
  /\ Act
  /\ mem.multiWorkspaceOpen /\ file # NoFile
  /\ mem' = CaptureStrip(Shown(RestoreOpenEmbeddedTabs(LoadExperiments(mem, file), file)))
  /\ UNCHANGED plan

AddDataset ==
  /\ file # NoFile
  /\ \E id \in Sources \ DOMAIN file.sources, data \in Datas :
        Plans(<<ItemWith("add", id, data)>>)

RemoveDataset == \E id \in DOMAIN mem.sources : Plans(<<ItemOf("remove", id)>>)

RenameDataset ==
  \E id \in DOMAIN mem.sources, name \in Names :
    Plans(<<ItemWith("rename", id, name)>>)

OpenDataset ==
  /\ file # NoFile
  /\ \E id \in DOMAIN mem.sources \ DOMAIN mem.sessions :
        Changes(OpenTabs(mem, file, {id}))

(* Its unsaved changes were saved, or given up, in the prompt before. *)
CloseDataset == \E id \in DOMAIN mem.sessions : Changes(RemoveTab(mem, id))

EditDataset ==
  \E id \in DOMAIN mem.sessions, d \in Datas :
    /\ d # mem.sessions[id].data
    /\ Changes([mem EXCEPT !.sessions[id] = [data |-> d, dirty |-> TRUE]])

(* The comparator reads every dataset that has no tab, once. *)
ComparatorSources ==
  /\ file # NoFile
  /\ LET missing == (DOMAIN mem.sources \ DOMAIN mem.sessions) \cap DOMAIN file.groups
     IN  Changes([mem EXCEPT !.sourceCache =
           [id \in DOMAIN @ \cup missing |->
              IF id \in DOMAIN @ THEN @[id] ELSE file.groups[id].data]])

RunBatch ==
  \E id \in DOMAIN mem.sources, data \in Datas : Plans(<<ItemWith("batch", id, data)>>)

Unnumbered == {n \in DOMAIN mem.experiments : mem.experiments[n].id = Unsaved}

(* Bounded so that there is an id for every experiment. *)
NewExperiment ==
  /\ file # NoFile
  /\ Cardinality(file.listedExps \cup IdsInMemory(mem)) + Cardinality(Unnumbered) < MaxExpId
  /\ \E d \in Datas :
        Changes([mem EXCEPT !.experiments =
                   Append(@, [id |-> Unsaved, data |-> d, dirty |-> TRUE])])

EditExperiment ==
  \E n \in DOMAIN mem.experiments, d \in Datas :
    /\ d # mem.experiments[n].data
    /\ Changes([mem EXCEPT !.experiments[n].data = d, !.experiments[n].dirty = TRUE])

DeleteExperiment ==
  \E n \in DOMAIN mem.experiments :
    IF n \in Unnumbered
    THEN Changes([mem EXCEPT !.experiments = RemoveAt(@, n)])
    ELSE Plans(<<ItemOf("delete", n)>>)

DirtyTabs(m) == {id \in DOMAIN m.sessions : m.sessions[id].dirty}

DirtyExperiments(m) == {n \in DOMAIN m.experiments : m.experiments[n].dirty}

ItemsOf(what, order) == [n \in DOMAIN order |-> ItemOf(what, order[n])]

(* Ctrl+S, and Save All when leaving: dirty tabs, dirty experiments, and the *)
(* tab order once the experiments have their ids.                            *)
SavePlan(tabs, exps) ==
  ItemsOf("tab", tabs) \o ItemsOf("experiment", exps) \o <<Item("order")>>

(* Also on the welcome screen. The tabs are saved in the order of the strip, *)
(* the experiments in that of their list.                                    *)
SaveEverything ==
  /\ Act
  /\ mem.multiWorkspaceOpen
  /\ \E tabs \in Orders(DirtyTabs(mem)), exps \in ListOrders(DirtyExperiments(mem)) :
        plan' = SavePlan(tabs, exps)
  /\ UNCHANGED mem

(* Save in the prompt that closes a tab. *)
SaveTab == \E id \in DirtyTabs(mem) : Plans(<<ItemOf("tab", id)>>)

WriteRecipe == \E r \in Recipes \ mem.recipes : Plans(<<ItemOf("recipe", r)>>)

RemoveRecipe == \E r \in mem.recipes : Plans(<<ItemOf("unrecipe", r)>>)

(* Ctrl+H: the tabs and experiments go, the project stays listed. *)
GoHome ==
  /\ InProject
  /\ mem' = [mem EXCEPT !.showWelcomeScreen = TRUE, !.sessions = Nothing, !.experiments = <<>>,
                        !.sourceCache = [id \in DOMAIN @ \ DOMAIN mem.sessions |-> @[id]]]
  /\ UNCHANGED plan

(* The process ends, by the user's will or not, and is started again. *)
Crash ==
  /\ FileCrash
  /\ mem' = Launched
  /\ plan' = <<>>
  /\ UNCHANGED acts

User ==
  \/ NewProject \/ CreateFromDataset \/ OpenExisting \/ Reopen
  \/ AddDataset \/ RemoveDataset \/ RenameDataset
  \/ OpenDataset \/ CloseDataset \/ EditDataset
  \/ ComparatorSources \/ RunBatch
  \/ NewExperiment \/ EditExperiment \/ DeleteExperiment
  \/ SaveEverything \/ SaveTab \/ WriteRecipe \/ RemoveRecipe \/ GoHome

Next == StartExperiment \/ Start \/ SkipOrder \/ StoreStep \/ Finish \/ User \/ Crash

Spec == Init /\ [][Next]_vars

-----------------------------------------------------------------------------
(* Properties *)

TypeOK ==
  /\ FileTypeOK
  /\ mem \in Memories
  /\ acts \in 0 .. MaxActs

AtRest == step = "idle"

(* The manifest, "SOURCE OF TRUTH", lists exactly the datasets and           *)
(* experiments the archive holds, under the names the summaries repeat: no   *)
(* operation leaves an orphaned group or an entry without one, and no save   *)
(* of a tab brings a removed dataset back.                                   *)
ManifestMatchesGroups ==
  file # NoFile =>
    /\ DOMAIN file.sources = DOMAIN file.groups
    /\ file.listedExps = DOMAIN file.experiments
    /\ \A id \in DOMAIN file.sources : file.groups[id].name = file.sources[id]

(* A tab without unsaved changes shows what the archive holds. *)
CleanTabIsOnDisk ==
  AtRest => \A id \in DOMAIN mem.sessions \ DirtyTabs(mem) :
    /\ file # NoFile /\ id \in DOMAIN file.groups
    /\ mem.sessions[id].data = file.groups[id].data

(* What is on screen of the archive is what it holds.  No copy the comparator *)
(* shows of a dataset without a tab outlives a save, a batch, a removal or a *)
(* new dataset under the same id, and no list misses a change.               *)
CopiesMatchArchive ==
  AtRest =>
    /\ \A id \in DOMAIN mem.sourceCache \ DOMAIN mem.sessions :
         /\ file # NoFile /\ id \in DOMAIN file.groups
         /\ mem.sourceCache[id] = file.groups[id].data
    /\ mem.multiWorkspaceOpen =>
         file # NoFile /\ mem.sources = file.sources /\ mem.recipes = file.recipes

(* Two experiments never share an id: saving one would overwrite the other.  *)
ExperimentIdsDistinct ==
  \A n, k \in DOMAIN mem.experiments \ Unnumbered :
    n # k => mem.experiments[n].id # mem.experiments[k].id

(* An experiment without unsaved changes is in the archive as it is.         *)
CleanExperimentIsOnDisk ==
  AtRest => \A n \in DOMAIN mem.experiments \ DirtyExperiments(mem) :
    LET e == mem.experiments[n] IN
    /\ file # NoFile /\ e.id \in DOMAIN file.experiments
    /\ file.experiments[e.id] = e.data

(* The last call of a Ctrl+S has succeeded. *)
EverythingSaved ==
  /\ plan = <<Item("order")>>
  /\ plan' = <<>>
  /\ mem.tabStripOrder = DOMAIN mem.sessions
  /\ SkipOrder \/ (step = "done" /\ ok /\ step' = "idle")

(* After a Ctrl+S that reported no error, starting the program again and     *)
(* opening the project shows the same tabs and every experiment.             *)
SavedIsRestored ==
  [][EverythingSaved =>
       LET again == OpenProject(Launched, file) IN
       /\ again.sessions = mem.sessions
       /\ ToSet(mem.experiments) \subseteq ToSet(again.experiments)]_vars

(* "go-home removed all sessions": opening the same project from the welcome *)
(* screen brings back the tabs of the saved tab order.                       *)
SavedTabsReopen ==
  [][mem.showWelcomeScreen /\ Reopen =>
       DOMAIN mem'.sessions = file.tabOrder \cap DOMAIN file.groups]_vars
================================================================================
