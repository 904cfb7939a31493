--------------------------- MODULE ProjectStoreProofs ---------------------------
(***************************************************************************)
(* What the store promises is kept, and what is in memory and not marked   *)
(* unsaved is what the archive holds, for all datasets, names, contents,   *)
(* recipes, any number of acts and of experiments, whatever fails and      *)
(* wherever the process dies, as long as a refused rename is not followed  *)
(* by the removal of the archive.                                          *)
(*                                                                         *)
(* First the files: ArchiveFile refines ArchivePromise, because the whole  *)
(* call commits in the one step that renames the temporary file.  The      *)
(* invariant says what is in the temporary file until then (WorkIsWhole).  *)
(*                                                                         *)
(* Then the memory: the invariant relates memory and archive between two   *)
(* calls (Agrees), says which calls a plan may hold (Planned), and carries *)
(* both through a call: until the rename nothing has changed, after it the *)
(* memory is right once the result is applied.                             *)
(***************************************************************************)
EXTENDS ProjectStore, TLAPS, SequenceTheorems, FiniteSetTheorems

(* On its way to the rename the temporary file is the archive, then the      *)
(* archive with the operation applied; only "create" does without one.       *)
WorkIsWhole ==
  /\ step \in Steps
  /\ step = "create" => op.kind = "create"
  /\ step \in {"copy", "mutate", "again"} => op.kind # "create"
  /\ step = "mutate" => tmp = file /\ file # NoFile
  /\ step \in {"heal", "rename", "again"} =>
       /\ tmp = Applied(op, file)
       /\ file = NoFile => op.kind = "create"

(* An operation on the archive means the same in the two modules.            *)
LEMMA AppliedIsPromised ==
  ASSUME NEW o, NEW c
  PROVE  Promise!Applied(o, c) = Applied(o, c)
  BY DEF Applied, Promise!Applied, AddSource, Promise!AddSource,
         RemoveSource, Promise!RemoveSource, RenameSource, Promise!RenameSource,
         SaveSource, Promise!SaveSource, SaveTabOrder, Promise!SaveTabOrder,
         ExperimentWrite, Promise!ExperimentWrite,
         ExperimentRemove, Promise!ExperimentRemove,
         RecipeWrite, Promise!RecipeWrite, RecipeRemove, Promise!RecipeRemove,
         Put, Promise!Put, Drop, Promise!Drop, Empty, Promise!Empty

(* What a step does to the files: it asks, it is one of the file operations, *)
(* the answer is taken, the process dies, or it leaves the files alone.      *)
LEMMA StepsOfFiles ==
  ASSUME [Next]_vars
  PROVE  \/ \E o : Call(o)
         \/ FileStep
         \/ Taken
         \/ FileCrash
         \/ UNCHANGED fileVars
<1>1. CASE StartExperiment
  BY <1>1 DEF StartExperiment
<1>2. CASE Start
  BY <1>2 DEF Start
<1>3. CASE SkipOrder \/ StoreStep \/ Finish \/ Crash
  BY <1>3 DEF SkipOrder, StoreStep, Finish, Crash
<1>4. CASE User
  BY <1>4 DEF User, NewProject, CreateFromDataset, OpenExisting, Reopen, AddDataset,
       RemoveDataset, RenameDataset, OpenDataset, CloseDataset, EditDataset,
       ComparatorSources, RunBatch, NewExperiment, EditExperiment, DeleteExperiment,
       SaveEverything, SaveTab, WriteRecipe, RemoveRecipe, GoHome,
       Plans, Changes, InProject, Act
<1>5. CASE UNCHANGED vars
  BY <1>5 DEF vars, fileVars
<1> QED
  BY <1>1, <1>2, <1>3, <1>4, <1>5 DEF Next

(* One file operation keeps the invariant.                                   *)
LEMMA FileStepWhole ==
  ASSUME "replace" \notin Faults, WorkIsWhole, FileStep
  PROVE  WorkIsWhole'
<1> USE DEF WorkIsWhole, Steps, Goto, Return, Fail
<1>1. CASE CreateWrites
  BY <1>1 DEF CreateWrites
<1>2. CASE CreateFails \/ CopyFails \/ MutateThrows \/ HealFails
           \/ CreateRenameFails \/ RenameAgainFails
  BY <1>2 DEF CreateFails, CopyFails, MutateThrows, HealFails, CreateRenameFails,
              RenameAgainFails
<1>3. CASE Copy
  BY <1>3 DEF Copy
<1>4. CASE Mutate
  BY <1>4 DEF Mutate
<1>5. CASE Heal
  BY <1>5 DEF Heal
<1>6. CASE Rename \/ RenameAgain
  BY <1>6 DEF Rename, RenameAgain, RenameOver
<1>7. CASE RemoveArchive
  BY <1>7 DEF RemoveArchive
<1> QED
  BY <1>1, <1>2, <1>3, <1>4, <1>5, <1>6, <1>7 DEF FileStep

THEOREM Whole == ASSUME "replace" \notin Faults PROVE Spec => []WorkIsWhole
<1>1. Init => WorkIsWhole
  BY DEF Init, FileInit, WorkIsWhole, Steps
<1>2. WorkIsWhole /\ [Next]_vars => WorkIsWhole'
  <2> SUFFICES ASSUME WorkIsWhole, [Next]_vars
               PROVE  WorkIsWhole'
    OBVIOUS
  <2>1. CASE \E o : Call(o)
    BY <2>1 DEF Call, WorkIsWhole, Steps
  <2>2. CASE FileStep
    BY <2>2, FileStepWhole
  <2>3. CASE Taken \/ FileCrash
    BY <2>3 DEF Taken, FileCrash, WorkIsWhole, Steps
  <2>4. CASE UNCHANGED fileVars
    BY <2>4 DEF fileVars, WorkIsWhole
  <2> QED
    BY <2>1, <2>2, <2>3, <2>4, StepsOfFiles
<1> QED
  BY <1>1, <1>2, PTL DEF Spec

(* A file operation commits the whole call, refuses it, or shows nothing.    *)
LEMMA FileStepIsAtomic ==
  ASSUME "replace" \notin Faults, WorkIsWhole, FileStep
  PROVE  [Promise!Next]_(Promise!vars)
<1> USE DEF Promise!Next, Promise!vars, Answer, Goto, Return, Fail
<1>1. CASE Rename \/ RenameAgain
  <2>1. Promise!Commit
    BY <1>1, AppliedIsPromised
       DEF Rename, RenameAgain, RenameOver, Promise!Commit, WorkIsWhole
  <2> QED
    BY <2>1
<1>2. CASE CreateFails \/ CopyFails \/ MutateThrows \/ HealFails
           \/ CreateRenameFails \/ RenameAgainFails
  <2>1. Promise!Refuse
    BY <1>2 DEF CreateFails, CopyFails, MutateThrows, HealFails, CreateRenameFails,
                RenameAgainFails, Promise!Refuse
  <2> QED
    BY <2>1
<1>3. CASE CreateWrites \/ Copy \/ Mutate \/ Heal \/ RemoveArchive
  <2>1. UNCHANGED Promise!vars
    BY <1>3 DEF CreateWrites, Copy, Mutate, Heal, RemoveArchive
  <2> QED
    BY <2>1
<1> QED
  BY <1>1, <1>2, <1>3 DEF FileStep

(* Every store operation is atomic, and what it returns is the truth, also   *)
(* when the process dies in the middle of it (atomicMutate,                  *)
(* multiWorkspaceCreate).                                                    *)
THEOREM StoreKeepsPromise ==
  ASSUME "replace" \notin Faults PROVE Spec => StoreIsAtomic
<1>1. Init => Promise!Init
  BY DEF Init, FileInit, Promise!Init, Answer
<1>2. WorkIsWhole /\ [Next]_vars => [Promise!Next]_(Promise!vars)
  <2> SUFFICES ASSUME WorkIsWhole, [Next]_vars
               PROVE  [Promise!Next]_(Promise!vars)
    OBVIOUS
  <2>1. CASE \E o : Call(o)
    <3>1. Promise!Ask
      BY <2>1 DEF Call, Promise!Ask, Answer
    <3> QED
      BY <3>1 DEF Promise!Next
  <2>2. CASE FileStep
    BY <2>2, FileStepIsAtomic
  <2>3. CASE Taken
    <3>1. Promise!Answered
      BY <2>3 DEF Taken, Promise!Answered, Answer
    <3> QED
      BY <3>1 DEF Promise!Next
  <2>4. CASE FileCrash
    <3>1. Promise!Crash
      BY <2>4 DEF FileCrash, Promise!Crash, Answer
    <3> QED
      BY <3>1 DEF Promise!Next
  <2>5. CASE UNCHANGED fileVars
    BY <2>5 DEF fileVars, Promise!vars, Answer
  <2> QED
    BY <2>1, <2>2, <2>3, <2>4, <2>5, StepsOfFiles
<1> QED
  BY <1>1, <1>2, Whole, PTL DEF Spec, StoreIsAtomic, Promise!Spec

-----------------------------------------------------------------------------
(* Memory and archive                                                        *)

MemFields ==
  { "showWelcomeScreen", "multiWorkspaceOpen", "sources", "sourceCache", "recipes",
    "sessions", "tabStripOrder", "openTabIds", "experiments" }

ArchiveFields ==
  {"sources", "tabOrder", "listedExps", "groups", "experiments", "recipes"}

(* An archive whose manifest and groups match.                               *)
Matching(c) ==
  /\ DOMAIN c = ArchiveFields
  /\ DOMAIN c.sources = DOMAIN c.groups
  /\ c.listedExps = DOMAIN c.experiments
  /\ \A id \in DOMAIN c.groups : /\ DOMAIN c.groups[id] = {"data", "name"}
                                 /\ c.groups[id].name = c.sources[id]

(* The constant that stands for "no file" is no archive.                     *)
NoFileIsNoArchive == \A c : DOMAIN c = ArchiveFields => c # NoFile

(* On the welcome screen no tab is open, and before a project was opened     *)
(* nothing else of one is in memory.                                         *)
MemOK(m) ==
  /\ DOMAIN m = MemFields
  /\ \A id \in DOMAIN m.sessions : DOMAIN m.sessions[id] = {"data", "dirty"}
  /\ m.showWelcomeScreen => DOMAIN m.sessions = {}
  /\ ~m.multiWorkspaceOpen => m.showWelcomeScreen /\ DOMAIN m.sourceCache = {}

(* What is in memory is what the archive c holds.                            *)
Agrees(m, c) ==
  m.multiWorkspaceOpen =>
    /\ c # NoFile
    /\ m.sources = c.sources
    /\ m.recipes = c.recipes
    /\ \A id \in DOMAIN m.sessions :
         /\ id \in DOMAIN c.groups
         /\ ~m.sessions[id].dirty => m.sessions[id].data = c.groups[id].data
    /\ \A id \in DOMAIN m.sourceCache \ DOMAIN m.sessions :
         /\ id \in DOMAIN c.groups
         /\ m.sourceCache[id] = c.groups[id].data

Whats ==
  { "createEmpty", "createFirst", "addFirst", "add", "remove", "rename", "tab", "batch",
    "order", "experiment", "delete", "recipe", "unrecipe" }

(* Calls that another may follow.                                            *)
Leading == {"createFirst", "tab", "experiment", "order"}

(* What the user may have asked for with m in memory.                        *)
Planned(i, m) ==
  /\ i.what \in Whats
  /\ i.what = "createEmpty" => m.showWelcomeScreen
  /\ i.what \in {"createFirst", "addFirst"} <=> (i.what # "createEmpty" /\ ~m.multiWorkspaceOpen)
  /\ i.what = "tab" => i.of \in DOMAIN m.sessions
  /\ i.what \in {"rename", "batch"} => i.of \in DOMAIN m.sources
  /\ i.what = "add" => i.of \notin DOMAIN m.sources

PlanOK(p, m) ==
  /\ \E S : p \in Seq(S)
  /\ \A n \in 1 .. Len(p) : /\ Planned(p[n], m)
                            /\ p[n].what \notin Leading => n = Len(p)

Inv ==
  /\ WorkIsWhole
  /\ MemOK(mem)
  /\ file # NoFile => Matching(file)
  /\ PlanOK(plan, mem)
  /\ step # "idle" => plan # << >> /\ op = Requested(Head(plan), mem)
  /\ IF step = "done" /\ ok
     THEN LET n == Succeeded(Head(plan), mem, file) IN MemOK(n) /\ Agrees(n, file)
     ELSE Agrees(mem, file)

-----------------------------------------------------------------------------
(* What a call makes of the archive and of the memory.                       *)

(* Two memories that tell the properties the same.                           *)
Alike(m, n) ==
  /\ DOMAIN n = DOMAIN m
  /\ n.showWelcomeScreen = m.showWelcomeScreen
  /\ n.multiWorkspaceOpen = m.multiWorkspaceOpen
  /\ n.sources = m.sources
  /\ n.sourceCache = m.sourceCache
  /\ n.recipes = m.recipes
  /\ n.sessions = m.sessions

(* The experiments and the strip are about something else.                   *)
LEMMA Elsewhere ==
  ASSUME NEW m, DOMAIN m = MemFields, NEW v
  PROVE  /\ Alike(m, [m EXCEPT !.experiments = v])
         /\ Alike(m, [m EXCEPT !.tabStripOrder = v])
  BY DEF Alike, MemFields

LEMMA AlikeAgrees ==
  ASSUME NEW m, NEW n, Alike(m, n)
  PROVE  /\ MemOK(n) <=> MemOK(m)
         /\ \A c : Agrees(n, c) <=> Agrees(m, c)
         /\ \A i : Planned(i, n) <=> Planned(i, m)
  BY DEF Alike, MemOK, Agrees, Planned

LEMMA StripIsElsewhere ==
  ASSUME NEW m, DOMAIN m = MemFields
  PROVE  Alike(m, CaptureStrip(m))
  BY Elsewhere DEF CaptureStrip, Alike

LEMMA ExperimentsAreElsewhere ==
  ASSUME NEW m, DOMAIN m = MemFields, NEW n, NEW c
  PROVE  /\ Alike(m, LoadExperiments(m, c))
         /\ Alike(m, ClearExperiments(m))
         /\ Alike(m, [m EXCEPT !.experiments = RemoveAt(@, n)])
         /\ Alike(m, [m EXCEPT !.experiments[n].dirty = FALSE])
         /\ \A id : Alike(m, WithId(m, n, id))
  BY Elsewhere DEF LoadExperiments, ClearExperiments, WithId, Alike

(* Opening tabs: those that were open stay as they are, the others come from *)
(* the archive.                                                              *)
LEMMA OpenTabsAgrees ==
  ASSUME NEW m, NEW c, NEW ids, MemOK(m), Matching(c), m.multiWorkspaceOpen,
         c # NoFile, Agrees(m, c),
         NEW n, n = [OpenTabs(m, c, ids) EXCEPT !.showWelcomeScreen = FALSE]
  PROVE  MemOK(n) /\ Agrees(n, c)
<1>1. /\ DOMAIN n = MemFields /\ ~n.showWelcomeScreen
      /\ n.multiWorkspaceOpen = m.multiWorkspaceOpen
      /\ n.sources = m.sources /\ n.recipes = m.recipes /\ n.sourceCache = m.sourceCache
      /\ DOMAIN n.sessions = DOMAIN m.sessions \cup (ids \cap DOMAIN c.groups)
      /\ \A id \in DOMAIN m.sessions : n.sessions[id] = m.sessions[id]
      /\ \A id \in (ids \cap DOMAIN c.groups) \ DOMAIN m.sessions :
            n.sessions[id] = Loaded(c, id)
  BY DEF OpenTabs, MemOK, MemFields
<1>2. \A id : /\ DOMAIN Loaded(c, id) = {"data", "dirty"}
              /\ Loaded(c, id).data = c.groups[id].data
  BY DEF Loaded
<1>3. MemOK(n)
  <2>1. \A id \in DOMAIN n.sessions : DOMAIN n.sessions[id] = {"data", "dirty"}
    BY <1>1, <1>2 DEF MemOK
  <2> QED
    BY <1>1, <2>1 DEF MemOK
<1>4. Agrees(n, c)
  BY <1>1, <1>2 DEF Agrees
<1> QED
  BY <1>3, <1>4

(* Opening a project, with no tab of another one open.                       *)
LEMMA OpenProjectAgrees ==
  ASSUME NEW m, NEW c, NEW ids, MemOK(m), DOMAIN m.sessions = {}, Matching(c), c # NoFile
  PROVE  /\ MemOK(Shown(OpenProject(m, c))) /\ Agrees(Shown(OpenProject(m, c)), c)
         /\ MemOK(Shown(OpenTabs(OpenProject(m, c), c, ids)))
         /\ Agrees(Shown(OpenTabs(OpenProject(m, c), c, ids)), c)
<1> DEFINE l == LoadInto(m, c)
           e == LoadExperiments(ClearExperiments(l), c)
           r == RestoreOpenEmbeddedTabs(e, c)
           p == RefreshBatchRecipes(r, c)
<1>1. /\ DOMAIN l = MemFields /\ l.multiWorkspaceOpen
      /\ l.sources = c.sources /\ l.sourceCache = Nothing /\ l.sessions = m.sessions
  BY DEF LoadInto, MemOK, MemFields
<1>2. Alike(l, e)
  <2>1. Alike(l, ClearExperiments(l))
    BY <1>1, ExperimentsAreElsewhere
  <2>2. Alike(ClearExperiments(l), e)
    BY <1>1, <2>1, ExperimentsAreElsewhere DEF Alike
  <2> QED
    BY <2>1, <2>2 DEF Alike
<1> HIDE DEF l, e
<1>3. /\ DOMAIN p = MemFields /\ p.multiWorkspaceOpen
      /\ p.sources = c.sources /\ p.sourceCache = Nothing /\ p.recipes = c.recipes
      /\ \A id \in DOMAIN p.sessions :
           id \in DOMAIN c.groups /\ p.sessions[id] = Loaded(c, id)
  BY <1>1, <1>2 DEF Alike, RestoreOpenEmbeddedTabs, OpenTabs, RefreshBatchRecipes, MemFields
<1> HIDE DEF r, p
<1>4. DOMAIN Nothing = {}
  BY DEF Nothing
<1>5. \A id : /\ DOMAIN Loaded(c, id) = {"data", "dirty"}
              /\ Loaded(c, id).data = c.groups[id].data
  BY DEF Loaded
<1>6. OpenProject(m, c) = p
  BY DEF OpenProject, p, r, e, l
<1> DEFINE s == Shown(p)
<1>7. /\ DOMAIN s = MemFields /\ s.multiWorkspaceOpen /\ ~s.showWelcomeScreen
      /\ s.sources = c.sources /\ s.sourceCache = Nothing /\ s.recipes = c.recipes
      /\ s.sessions = p.sessions
  BY <1>3 DEF Shown, MemFields
<1>8. MemOK(s) /\ Agrees(s, c)
  <2> HIDE DEF s
  <2>1. MemOK(s)
    BY <1>3, <1>5, <1>7 DEF MemOK
  <2>2. Agrees(s, c)
    BY <1>3, <1>4, <1>5, <1>7 DEF Agrees
  <2> QED
    BY <2>1, <2>2
<1>9. Shown(OpenTabs(p, c, ids)) = [OpenTabs(s, c, ids) EXCEPT !.showWelcomeScreen = FALSE]
  BY <1>3, <1>7 DEF Shown, OpenTabs, MemFields
<1>10. /\ MemOK(Shown(OpenTabs(p, c, ids)))
       /\ Agrees(Shown(OpenTabs(p, c, ids)), c)
  BY <1>7, <1>8, <1>9, OpenTabsAgrees
<1> QED
  BY <1>6, <1>8, <1>10

-----------------------------------------------------------------------------
(* What each call makes of the archive, and of the memory once its result is *)
(* applied.                                                                  *)

(* A call that finds memory and archive in agreement leaves them so.         *)
Commits(i, m, c) ==
  LET d == Applied(Requested(i, m), c)
      n == Succeeded(i, m, d)
  IN  MemOK(n) /\ Matching(d) /\ d # NoFile /\ Agrees(n, d)

LEMMA CreateCommits ==
  ASSUME NoFileIsNoArchive, NEW m, NEW c, NEW i, i.what \in {"createEmpty", "createFirst"},
         MemOK(m), Planned(i, m)
  PROVE  Commits(i, m, c)
<1>1. Requested(i, m) = [kind |-> "create"]
  BY DEF Requested
<1>2. Applied(Requested(i, m), c) = Empty
  BY <1>1 DEF Applied
<1>3. Matching(Empty)
  BY DEF Matching, Empty, ArchiveFields
<1>4. Empty # NoFile
  BY <1>3 DEF NoFileIsNoArchive, Matching
<1>5. CASE i.what = "createEmpty"
  <2>1. Succeeded(i, m, Empty) = Shown(OpenProject(m, Empty))
    BY <1>5 DEF Succeeded
  <2>2. DOMAIN m.sessions = {}
    BY <1>5 DEF Planned, MemOK
  <2> QED
    BY <1>2, <1>3, <1>4, <2>1, <2>2, OpenProjectAgrees DEF Commits
<1>6. CASE i.what = "createFirst"
  <2>1. Succeeded(i, m, Empty) = m
    BY <1>6 DEF Succeeded
  <2>2. ~m.multiWorkspaceOpen
    BY <1>6 DEF Planned
  <2>3. Agrees(m, Empty)
    BY <2>2 DEF Agrees
  <2> QED
    BY <1>2, <1>3, <1>4, <2>1, <2>3 DEF Commits
<1> QED
  BY <1>5, <1>6

LEMMA AddMatches ==
  ASSUME NoFileIsNoArchive, NEW c, Matching(c), NEW id, NEW data, NEW d,
         d = AddSource(c, id, data)
  PROVE  /\ Matching(d) /\ d # NoFile
         /\ d.recipes = c.recipes
         /\ DOMAIN d.groups = DOMAIN c.groups \cup {id}
         /\ \A x \in DOMAIN c.groups \ {id} : d.groups[x] = c.groups[x]
<1>1. /\ DOMAIN d = ArchiveFields
      /\ d.groups = Put(c.groups, id, [data |-> data, name |-> OwnName])
      /\ d.sources = Put(c.sources, id, OwnName)
      /\ d.listedExps = c.listedExps /\ d.experiments = c.experiments
      /\ d.recipes = c.recipes
  BY DEF AddSource, Matching, ArchiveFields
<1>2. /\ DOMAIN d.groups = DOMAIN c.groups \cup {id}
      /\ DOMAIN d.sources = DOMAIN c.groups \cup {id}
      /\ d.groups[id] = [data |-> data, name |-> OwnName] /\ d.sources[id] = OwnName
      /\ \A x \in DOMAIN c.groups \ {id} :
           d.groups[x] = c.groups[x] /\ d.sources[x] = c.sources[x]
  BY <1>1 DEF Put, Matching
<1>3. Matching(d)
  <2>1. ASSUME NEW x \in DOMAIN d.groups
        PROVE  DOMAIN d.groups[x] = {"data", "name"} /\ d.groups[x].name = d.sources[x]
    <3>1. CASE x = id
      BY <3>1, <1>2
    <3>2. CASE x # id
      BY <3>2, <1>2 DEF Matching
    <3> QED
      BY <3>1, <3>2
  <2> QED
    BY <1>1, <1>2, <2>1 DEF Matching
<1> QED
  BY <1>1, <1>2, <1>3 DEF NoFileIsNoArchive

LEMMA AddCommits ==
  ASSUME NoFileIsNoArchive, NEW m, NEW c, NEW i, i.what \in {"add", "addFirst"},
         MemOK(m), Planned(i, m), Matching(c), Agrees(m, c)
  PROVE  Commits(i, m, c)
<1> DEFINE d == AddSource(c, i.of, i.data)
<1>1. Applied(Requested(i, m), c) = d
  <2>1. Requested(i, m) = [kind |-> "addSource", id |-> i.of, data |-> i.data]
    BY DEF Requested
  <2> QED
    BY <2>1 DEF Applied
<1>2. /\ Matching(d) /\ d # NoFile
      /\ d.recipes = c.recipes
      /\ DOMAIN d.groups = DOMAIN c.groups \cup {i.of}
      /\ \A x \in DOMAIN c.groups \ {i.of} : d.groups[x] = c.groups[x]
  BY AddMatches
<1> HIDE DEF d
<1>3. CASE i.what = "addFirst"
  <2>1. Succeeded(i, m, d) = Shown(OpenTabs(OpenProject(m, d), d, {i.of}))
    BY <1>3 DEF Succeeded
  <2>2. DOMAIN m.sessions = {}
    BY <1>3 DEF Planned, MemOK
  <2> QED
    BY <1>1, <1>2, <2>1, <2>2, OpenProjectAgrees DEF Commits
<1>4. CASE i.what = "add"
  <2> DEFINE n == RefreshBatchRecipes(LoadInto(m, d), d)
  <2>1. Succeeded(i, m, d) = n
    BY <1>4 DEF Succeeded
  <2>2. /\ DOMAIN n = MemFields /\ n.multiWorkspaceOpen
        /\ n.sources = d.sources /\ n.recipes = d.recipes
        /\ n.sourceCache = Nothing /\ n.sessions = m.sessions
        /\ n.showWelcomeScreen = m.showWelcomeScreen
    BY DEF RefreshBatchRecipes, LoadInto, MemOK, MemFields
  <2> HIDE DEF n
  <2>3. m.multiWorkspaceOpen
    BY <1>4 DEF Planned
  <2>4. i.of \notin DOMAIN c.groups
    BY <1>4, <2>3 DEF Planned, Agrees, Matching
  <2>5. MemOK(n)
    BY <2>2, <2>3 DEF MemOK
  <2>6. Agrees(n, d)
    BY <1>2, <2>2, <2>3, <2>4 DEF Agrees, Nothing
  <2> QED
    BY <1>1, <1>2, <2>1, <2>5, <2>6 DEF Commits
<1> QED
  BY <1>3, <1>4

LEMMA RemoveCommits ==
  ASSUME NoFileIsNoArchive, NEW m, NEW c, NEW i, i.what = "remove",
         MemOK(m), Planned(i, m), Matching(c), Agrees(m, c)
  PROVE  Commits(i, m, c)
<1> DEFINE d == RemoveSource(c, i.of)
<1>1. Applied(Requested(i, m), c) = d
  <2>1. Requested(i, m) = [kind |-> "removeSource", id |-> i.of]
    BY DEF Requested
  <2> QED
    BY <2>1 DEF Applied
<1>2. /\ DOMAIN d = ArchiveFields
      /\ d.groups = Drop(c.groups, i.of) /\ d.sources = Drop(c.sources, i.of)
      /\ d.listedExps = c.listedExps /\ d.experiments = c.experiments
      /\ d.recipes = c.recipes
  BY DEF RemoveSource, Matching, ArchiveFields
<1> HIDE DEF d
<1>3. /\ DOMAIN d.groups = DOMAIN c.groups \ {i.of}
      /\ DOMAIN d.sources = DOMAIN c.groups \ {i.of}
      /\ \A x \in DOMAIN c.groups \ {i.of} :
           d.groups[x] = c.groups[x] /\ d.sources[x] = c.sources[x]
  BY <1>2 DEF Drop, Matching
<1>4. Matching(d) /\ d # NoFile
  BY <1>2, <1>3 DEF Matching, NoFileIsNoArchive
<1> DEFINE n == RemoveDone(m, i.of, d)
<1>5. Succeeded(i, m, d) = n
  BY DEF Succeeded
<1>6. /\ DOMAIN n = MemFields /\ n.multiWorkspaceOpen
      /\ n.sources = d.sources /\ n.recipes = d.recipes
      /\ n.sourceCache = Nothing
      /\ n.showWelcomeScreen = m.showWelcomeScreen
      /\ DOMAIN n.sessions = DOMAIN m.sessions \ {i.of}
      /\ \A x \in DOMAIN n.sessions : n.sessions[x] = m.sessions[x]
  BY DEF RemoveDone, RemoveTab, RefreshBatchRecipes, LoadInto, Drop, MemOK, MemFields
<1> HIDE DEF n
<1>7. m.multiWorkspaceOpen
  BY DEF Planned
<1>8. MemOK(n)
  BY <1>6, <1>7 DEF MemOK
<1>9. Agrees(n, d)
  BY <1>3, <1>4, <1>6, <1>7 DEF Agrees, Nothing
<1> QED
  BY <1>1, <1>4, <1>5, <1>8, <1>9 DEF Commits

LEMMA RenameCommits ==
  ASSUME NoFileIsNoArchive, NEW m, NEW c, NEW i, i.what = "rename",
         MemOK(m), Planned(i, m), Matching(c), Agrees(m, c)
  PROVE  Commits(i, m, c)
<1> DEFINE d == RenameSource(c, i.of, i.data)
<1>1. Applied(Requested(i, m), c) = d
  <2>1. Requested(i, m) = [kind |-> "renameSource", id |-> i.of, name |-> i.data]
    BY DEF Requested
  <2> QED
    BY <2>1 DEF Applied
<1>2. m.multiWorkspaceOpen /\ i.of \in DOMAIN c.sources /\ i.of \in DOMAIN c.groups
  BY DEF Planned, Agrees, Matching
<1>3. /\ DOMAIN d = ArchiveFields
      /\ d.groups = [c.groups EXCEPT ![i.of].name = i.data]
      /\ d.sources = [c.sources EXCEPT ![i.of] = i.data]
      /\ d.listedExps = c.listedExps /\ d.experiments = c.experiments
      /\ d.recipes = c.recipes
  BY <1>2 DEF RenameSource, Matching, ArchiveFields
<1> HIDE DEF d
<1>4. /\ DOMAIN d.groups = DOMAIN c.groups /\ DOMAIN d.sources = DOMAIN c.groups
      /\ DOMAIN d.groups[i.of] = {"data", "name"}
      /\ d.groups[i.of].name = i.data /\ d.sources[i.of] = i.data
      /\ d.groups[i.of].data = c.groups[i.of].data
      /\ \A x \in DOMAIN c.groups \ {i.of} :
           d.groups[x] = c.groups[x] /\ d.sources[x] = c.sources[x]
  BY <1>2, <1>3 DEF Matching
<1>5. Matching(d) /\ d # NoFile
  <2>1. ASSUME NEW x \in DOMAIN d.groups
        PROVE  DOMAIN d.groups[x] = {"data", "name"} /\ d.groups[x].name = d.sources[x]
    BY <1>4 DEF Matching
  <2> QED
    BY <1>3, <1>4, <2>1 DEF Matching, NoFileIsNoArchive
<1> DEFINE n == [m EXCEPT !.sources[i.of] = i.data]
<1>6. Succeeded(i, m, d) = n
  BY DEF Succeeded
<1>7. /\ DOMAIN n = MemFields /\ n.multiWorkspaceOpen = m.multiWorkspaceOpen
      /\ n.sources = [m.sources EXCEPT ![i.of] = i.data] /\ n.recipes = m.recipes
      /\ n.sourceCache = m.sourceCache /\ n.sessions = m.sessions
      /\ n.showWelcomeScreen = m.showWelcomeScreen
  BY DEF MemOK, MemFields
<1> HIDE DEF n
<1>8. MemOK(n)
  BY <1>7 DEF MemOK
<1>9. \A x \in DOMAIN c.groups : d.groups[x].data = c.groups[x].data
  BY <1>4
<1>10. n.sources = d.sources
  BY <1>2, <1>3, <1>7 DEF Agrees
<1>11. Agrees(n, d)
  BY <1>2, <1>3, <1>4, <1>5, <1>7, <1>9, <1>10 DEF Agrees
<1> QED
  BY <1>1, <1>5, <1>6, <1>8, <1>11 DEF Commits

(* A save of a dataset the manifest lists.                                   *)
LEMMA SaveMatches ==
  ASSUME NoFileIsNoArchive, NEW c, Matching(c), NEW id \in DOMAIN c.groups, NEW data,
         NEW d, d = SaveSource(c, id, data)
  PROVE  /\ Matching(d) /\ d # NoFile
         /\ d.recipes = c.recipes /\ d.sources = c.sources
         /\ DOMAIN d.groups = DOMAIN c.groups
         /\ d.groups[id].data = data
         /\ \A x \in DOMAIN c.groups \ {id} : d.groups[x] = c.groups[x]
<1>1. /\ DOMAIN d = ArchiveFields
      /\ d.groups = Put(c.groups, id, [data |-> data, name |-> c.sources[id]])
      /\ d.sources = c.sources
      /\ d.listedExps = c.listedExps /\ d.experiments = c.experiments
      /\ d.recipes = c.recipes
  BY DEF SaveSource, Matching, ArchiveFields
<1>2. /\ DOMAIN d.groups = DOMAIN c.groups
      /\ d.groups[id] = [data |-> data, name |-> c.sources[id]]
      /\ \A x \in DOMAIN c.groups \ {id} : d.groups[x] = c.groups[x]
  BY <1>1 DEF Put
<1>3. ASSUME NEW x \in DOMAIN d.groups
      PROVE  DOMAIN d.groups[x] = {"data", "name"} /\ d.groups[x].name = d.sources[x]
  <2>1. CASE x = id
    BY <2>1, <1>1, <1>2
  <2>2. CASE x # id
    BY <2>2, <1>1, <1>2 DEF Matching
  <2> QED
    BY <2>1, <2>2
<1>4. Matching(d)
  BY <1>1, <1>2, <1>3 DEF Matching
<1> QED
  BY <1>1, <1>2, <1>4 DEF Matching, NoFileIsNoArchive

LEMMA TabCommits ==
  ASSUME NoFileIsNoArchive, NEW m, NEW c, NEW i, i.what = "tab",
         MemOK(m), Planned(i, m), Matching(c), Agrees(m, c)
  PROVE  Commits(i, m, c)
<1> DEFINE data == m.sessions[i.of].data
           d == SaveSource(c, i.of, data)
           n == TabSaved(m, i.of)
<1>1. Applied(Requested(i, m), c) = d
  <2>1. Requested(i, m) = [kind |-> "saveSource", id |-> i.of, data |-> data]
    BY DEF Requested
  <2> QED
    BY <2>1 DEF Applied
<1>2. m.multiWorkspaceOpen /\ i.of \in DOMAIN c.groups /\ i.of \in DOMAIN m.sessions
  BY DEF Planned, Agrees
<1>3. /\ Matching(d) /\ d # NoFile
      /\ d.recipes = c.recipes /\ d.sources = c.sources
      /\ DOMAIN d.groups = DOMAIN c.groups
      /\ d.groups[i.of].data = data
      /\ \A x \in DOMAIN c.groups \ {i.of} : d.groups[x] = c.groups[x]
  BY <1>2, SaveMatches
<1>4. Succeeded(i, m, d) = n
  BY DEF Succeeded
<1> HIDE DEF d
<1>5. /\ DOMAIN n = MemFields /\ n.multiWorkspaceOpen = m.multiWorkspaceOpen
      /\ n.sources = m.sources /\ n.recipes = m.recipes /\ n.sourceCache = Nothing
      /\ n.showWelcomeScreen = m.showWelcomeScreen
      /\ n.sessions = [m.sessions EXCEPT ![i.of].dirty = FALSE]
  BY DEF TabSaved, MemOK, MemFields
<1> HIDE DEF n
<1>6. /\ DOMAIN n.sessions = DOMAIN m.sessions
      /\ DOMAIN n.sessions[i.of] = {"data", "dirty"}
      /\ n.sessions[i.of].data = data
      /\ \A x \in DOMAIN m.sessions \ {i.of} : n.sessions[x] = m.sessions[x]
  BY <1>2, <1>5 DEF MemOK
<1>7. MemOK(n)
  BY <1>2, <1>5, <1>6 DEF MemOK
<1>8. Agrees(n, d)
  BY <1>2, <1>3, <1>5, <1>6 DEF Agrees, Nothing
<1> QED
  BY <1>1, <1>3, <1>4, <1>7, <1>8 DEF Commits

LEMMA BatchCommits ==
  ASSUME NoFileIsNoArchive, NEW m, NEW c, NEW i, i.what = "batch",
         MemOK(m), Planned(i, m), Matching(c), Agrees(m, c)
  PROVE  Commits(i, m, c)
<1> DEFINE d == SaveSource(c, i.of, i.data)
           n == BatchDone(m, i.of, i.data)
<1>1. Applied(Requested(i, m), c) = d
  <2>1. Requested(i, m) = [kind |-> "saveSource", id |-> i.of, data |-> i.data]
    BY DEF Requested
  <2> QED
    BY <2>1 DEF Applied
<1>2. m.multiWorkspaceOpen /\ i.of \in DOMAIN c.groups
  BY DEF Planned, Agrees, Matching
<1>3. /\ Matching(d) /\ d # NoFile
      /\ d.recipes = c.recipes /\ d.sources = c.sources
      /\ DOMAIN d.groups = DOMAIN c.groups
      /\ d.groups[i.of].data = i.data
      /\ \A x \in DOMAIN c.groups \ {i.of} : d.groups[x] = c.groups[x]
  BY <1>2, SaveMatches
<1>4. Succeeded(i, m, d) = n
  BY DEF Succeeded
<1> HIDE DEF d
<1>5. /\ DOMAIN n = MemFields /\ n.multiWorkspaceOpen = m.multiWorkspaceOpen
      /\ n.sources = m.sources /\ n.recipes = m.recipes
      /\ n.showWelcomeScreen = m.showWelcomeScreen
      /\ n.sourceCache = Put(m.sourceCache, i.of, i.data)
      /\ DOMAIN n.sessions = DOMAIN m.sessions
      /\ \A x \in DOMAIN m.sessions :
           n.sessions[x] = IF x = i.of THEN [data |-> i.data, dirty |-> FALSE]
                           ELSE m.sessions[x]
  BY DEF BatchDone, MemOK, MemFields
<1> HIDE DEF n
<1>6. MemOK(n)
  <2>1. ASSUME NEW x \in DOMAIN n.sessions
        PROVE  DOMAIN n.sessions[x] = {"data", "dirty"}
    <3>1. CASE x = i.of
      BY <3>1, <1>5
    <3>2. CASE x # i.of
      BY <3>2, <1>5 DEF MemOK
    <3> QED
      BY <3>1, <3>2
  <2> QED
    BY <1>2, <1>5, <2>1 DEF MemOK
<1>7. Agrees(n, d)
  <2>1. ASSUME NEW x \in DOMAIN n.sessions
        PROVE  /\ x \in DOMAIN d.groups
               /\ ~n.sessions[x].dirty => n.sessions[x].data = d.groups[x].data
    <3>1. CASE x = i.of
      <4>1. n.sessions[x].data = i.data
        BY <3>1, <1>5
      <4> QED
        BY <3>1, <4>1, <1>2, <1>3
    <3>2. CASE x # i.of
      BY <3>2, <1>2, <1>3, <1>5 DEF Agrees
    <3> QED
      BY <3>1, <3>2
  <2>2. ASSUME NEW x \in DOMAIN n.sourceCache \ DOMAIN n.sessions
        PROVE  x \in DOMAIN d.groups /\ n.sourceCache[x] = d.groups[x].data
    BY <1>2, <1>3, <1>5 DEF Agrees, Put
  <2> QED
    BY <1>2, <1>3, <1>5, <2>1, <2>2 DEF Agrees
<1> QED
  BY <1>1, <1>3, <1>4, <1>6, <1>7 DEF Commits

(* The others leave the datasets alone, on disk and in memory.               *)
LEMMA OtherCommits ==
  ASSUME NoFileIsNoArchive, NEW m, NEW c, NEW i,
         i.what \in {"order", "experiment", "delete", "recipe", "unrecipe"},
         MemOK(m), Planned(i, m), Matching(c), Agrees(m, c)
  PROVE  Commits(i, m, c)
<1> DEFINE d == Applied(Requested(i, m), c)
           n == Succeeded(i, m, d)
<1>1. /\ DOMAIN d = ArchiveFields
      /\ d.groups = c.groups /\ d.sources = c.sources
      /\ d.listedExps = DOMAIN d.experiments
      /\ i.what \notin {"recipe", "unrecipe"} => d.recipes = c.recipes
  <2>1. CASE i.what = "order"
    <3>1. d = SaveTabOrder(c, PersistableTabOrder(m))
      BY <2>1 DEF Requested, Applied
    <3> QED
      BY <3>1 DEF SaveTabOrder, Matching, ArchiveFields
  <2>2. CASE i.what = "experiment"
    <3>1. \E id, data : d = ExperimentWrite(c, id, data)
      BY <2>2 DEF Requested, Applied
    <3> QED
      BY <2>2, <3>1 DEF ExperimentWrite, Put, Matching, ArchiveFields
  <2>3. CASE i.what = "delete"
    <3>1. \E id : d = ExperimentRemove(c, id)
      BY <2>3 DEF Requested, Applied
    <3> QED
      BY <2>3, <3>1 DEF ExperimentRemove, Drop, Matching, ArchiveFields
  <2>4. CASE i.what = "recipe"
    <3>1. d = RecipeWrite(c, i.of)
      BY <2>4 DEF Requested, Applied
    <3> QED
      BY <2>4, <3>1 DEF RecipeWrite, Matching, ArchiveFields
  <2>5. CASE i.what = "unrecipe"
    <3>1. d = RecipeRemove(c, i.of)
      BY <2>5 DEF Requested, Applied
    <3> QED
      BY <2>5, <3>1 DEF RecipeRemove, Matching, ArchiveFields
  <2> QED
    BY <2>1, <2>2, <2>3, <2>4, <2>5
<1> HIDE DEF d
<1>2. Matching(d) /\ d # NoFile
  BY <1>1 DEF Matching, NoFileIsNoArchive
<1>3. CASE i.what \in {"order", "experiment", "delete"}
  <2>1. Alike(m, n)
    <3>1. CASE i.what = "order"
      BY <3>1 DEF Succeeded, Alike
    <3>2. CASE i.what = "experiment"
      BY <3>2, ExperimentsAreElsewhere DEF Succeeded, MemOK
    <3>3. CASE i.what = "delete"
      BY <3>3, ExperimentsAreElsewhere DEF Succeeded, MemOK
    <3> QED
      BY <1>3, <3>1, <3>2, <3>3
  <2> HIDE DEF n
  <2>2. MemOK(n) /\ Agrees(n, c)
    BY <2>1, AlikeAgrees
  <2>3. Agrees(n, d)
    BY <1>1, <1>2, <1>3, <2>2 DEF Agrees
  <2> QED
    BY <1>2, <2>2, <2>3 DEF Commits, n, d
<1>4. CASE i.what \in {"recipe", "unrecipe"}
  <2>1. /\ DOMAIN n = MemFields /\ n.multiWorkspaceOpen = m.multiWorkspaceOpen
        /\ n.sources = m.sources /\ n.recipes = d.recipes
        /\ n.sourceCache = m.sourceCache /\ n.sessions = m.sessions
        /\ n.showWelcomeScreen = m.showWelcomeScreen
    BY <1>4 DEF Succeeded, RefreshBatchRecipes, MemOK, MemFields
  <2> HIDE DEF n
  <2>2. MemOK(n)
    BY <2>1 DEF MemOK
  <2>3. Agrees(n, d)
    BY <1>1, <1>2, <2>1 DEF Agrees
  <2> QED
    BY <1>2, <2>2, <2>3 DEF Commits, n, d
<1> QED
  BY <1>3, <1>4

LEMMA CallsCommit ==
  ASSUME NoFileIsNoArchive, NEW m, NEW c, NEW i, MemOK(m), Planned(i, m), Agrees(m, c),
         Matching(c) \/ Requested(i, m).kind = "create"
  PROVE  Commits(i, m, c)
<1>1. CASE i.what \in {"createEmpty", "createFirst"}
  BY <1>1, CreateCommits
<1>2. CASE i.what \in Whats \ {"createEmpty", "createFirst"}
  <2>1. Requested(i, m).kind # "create"
    BY <1>2 DEF Requested, Whats
  <2>2. Matching(c)
    BY <2>1
  <2>3. CASE i.what \in {"add", "addFirst"}
    BY <2>2, <2>3, AddCommits
  <2>4. CASE i.what \in {"remove", "rename", "tab", "batch"}
    BY <2>2, <2>4, RemoveCommits, RenameCommits, TabCommits, BatchCommits
  <2>5. CASE i.what \in {"order", "experiment", "delete", "recipe", "unrecipe"}
    BY <2>2, <2>5, OtherCommits
  <2> QED
    BY <1>2, <2>3, <2>4, <2>5 DEF Whats
<1> QED
  BY <1>1, <1>2 DEF Planned

-----------------------------------------------------------------------------
(* Plans                                                                     *)

LEMMA OneCall ==
  ASSUME NEW m, NEW i, Planned(i, m)
  PROVE  PlanOK(<<i>>, m)
<1>1. <<i>> \in Seq({i}) /\ Len(<<i>>) = 1 /\ <<i>>[1] = i
  OBVIOUS
<1>2. 1 .. Len(<<i>>) = {1}
  BY <1>1
<1> QED
  BY <1>1, <1>2 DEF PlanOK

LEMMA NoCall == ASSUME NEW m PROVE PlanOK(<< >>, m)
<1>1. << >> \in Seq({})
  OBVIOUS
<1> QED
  BY <1>1 DEF PlanOK

LEMMA OrdersAreSequences ==
  ASSUME NEW T, NEW s \in Orders(T)
  PROVE  s \in Seq(T)
  BY DEF Orders, SeqOf

(* Ctrl+S.                                                                   *)
LEMMA SavePlanOK ==
  ASSUME NEW m, NEW tabs \in Orders(DirtyTabs(m)), NEW exps \in ListOrders(DirtyExperiments(m)),
         m.multiWorkspaceOpen
  PROVE  PlanOK(SavePlan(tabs, exps), m)
<1> DEFINE T == {ItemOf("tab", x) : x \in DirtyTabs(m)}
           E == {ItemOf("experiment", x) : x \in DirtyExperiments(m)}
           S == T \cup E \cup {Item("order")}
           p == SavePlan(tabs, exps)
<1>1. tabs \in Seq(DirtyTabs(m)) /\ exps \in Seq(DirtyExperiments(m))
  BY OrdersAreSequences DEF ListOrders
<1>2. ItemsOf("tab", tabs) \in Seq(S) /\ ItemsOf("experiment", exps) \in Seq(S)
  BY <1>1 DEF ItemsOf
<1>3. <<Item("order")>> \in Seq(S)
  OBVIOUS
<1>4. p \in Seq(S)
  BY <1>2, <1>3 DEF SavePlan
<1>5. ASSUME NEW i \in S PROVE Planned(i, m) /\ i.what \in Leading
  <2>1. CASE i \in T
    BY <2>1 DEF ItemOf, Planned, Whats, Leading, DirtyTabs
  <2>2. CASE i \in E
    BY <2>2 DEF ItemOf, Planned, Whats, Leading
  <2>3. CASE i = Item("order")
    BY <2>3 DEF Item, Planned, Whats, Leading
  <2> QED
    BY <2>1, <2>2, <2>3
<1> HIDE DEF S, p
<1>6. \A n \in 1 .. Len(p) : p[n] \in S
  BY <1>4
<1>7. PlanOK(p, m)
  BY <1>4, <1>5, <1>6 DEF PlanOK
<1> QED
  BY <1>7 DEF p

LEMMA CreatePlanOK ==
  ASSUME NEW m, ~m.multiWorkspaceOpen, NEW id, NEW data
  PROVE  PlanOK(<<Item("createFirst"), ItemWith("addFirst", id, data)>>, m)
<1> DEFINE i == Item("createFirst")
           j == ItemWith("addFirst", id, data)
<1>1. Planned(i, m) /\ i.what \in Leading
  BY DEF Item, Planned, Whats, Leading
<1>2. Planned(j, m)
  BY DEF ItemWith, Planned, Whats
<1> HIDE DEF i, j
<1>3. PlanOK(<<i, j>>, m)
  <2>1. /\ <<i, j>> \in Seq({i, j}) /\ Len(<<i, j>>) = 2
        /\ <<i, j>>[1] = i /\ <<i, j>>[2] = j
    OBVIOUS
  <2>2. 1 .. Len(<<i, j>>) = {1, 2}
    BY <2>1
  <2> QED
    BY <1>1, <1>2, <2>1, <2>2 DEF PlanOK
<1> QED
  BY <1>3 DEF i, j

(* The rest of a plan after its first call succeeded.                        *)
LEMMA PlanGoesOn ==
  ASSUME NEW p, NEW m, NEW c, NEW n, MemOK(m), PlanOK(p, m), p # << >>,
         Alike(Succeeded(Head(p), m, c), n)
  PROVE  PlanOK(Tail(p), n)
<1>1. PICK S : p \in Seq(S)
  BY DEF PlanOK
<1> DEFINE t == Tail(p)
<1>2. /\ t \in Seq(S) /\ Len(t) = Len(p) - 1 /\ Len(p) \in Nat \ {0}
      /\ Head(p) = p[1]
      /\ \A k \in 1 .. Len(t) : t[k] = p[k + 1]
  BY <1>1
<1> HIDE DEF t
<1>0. PlanOK(t, n)
  <2>1. CASE Head(p).what \notin Leading
    <3>1. 1 \in 1 .. Len(p)
      BY <1>2
    <3>2. Len(p) = 1
      BY <1>2, <2>1, <3>1 DEF PlanOK
    <3>3. t = << >>
      BY <1>2, <3>2
    <3> QED
      BY <3>3, NoCall
  <2>2. CASE Head(p).what \in Leading
    <3> DEFINE i == Head(p)
               q == Succeeded(i, m, c)
    <3>1. /\ q.showWelcomeScreen = m.showWelcomeScreen
          /\ q.multiWorkspaceOpen = m.multiWorkspaceOpen
          /\ q.sources = m.sources /\ DOMAIN q.sessions = DOMAIN m.sessions
      <4>1. CASE i.what \in {"createFirst", "order"}
        BY <4>1 DEF Succeeded
      <4>2. CASE i.what = "tab"
        BY <4>2 DEF Succeeded, TabSaved, MemOK, MemFields
      <4>3. CASE i.what = "experiment"
        BY <4>3, ExperimentsAreElsewhere DEF Succeeded, MemOK, Alike
      <4> QED
        BY <2>2, <4>1, <4>2, <4>3 DEF Leading
    <3>2. /\ n.showWelcomeScreen = m.showWelcomeScreen
          /\ n.multiWorkspaceOpen = m.multiWorkspaceOpen
          /\ n.sources = m.sources /\ DOMAIN n.sessions = DOMAIN m.sessions
      BY <3>1 DEF Alike
    <3> HIDE DEF i, q
    <3>3. \A j : Planned(j, m) => Planned(j, n)
      BY <3>2 DEF Planned
    <3>4. ASSUME NEW k \in 1 .. Len(t)
          PROVE  Planned(t[k], n) /\ (t[k].what \notin Leading => k = Len(t))
      <4>1. k + 1 \in 1 .. Len(p) /\ t[k] = p[k + 1]
        BY <1>2
      <4>2. Planned(p[k + 1], m) /\ (p[k + 1].what \notin Leading => k + 1 = Len(p))
        BY <4>1 DEF PlanOK
      <4> QED
        BY <1>2, <3>3, <4>1, <4>2
    <3> QED
      BY <1>2, <3>4 DEF PlanOK
  <2> QED
    BY <2>1, <2>2
<1> QED
  BY <1>0 DEF t

LEMMA AlikePlans ==
  ASSUME NEW p, NEW m, NEW n, Alike(m, n), PlanOK(p, m)
  PROVE  PlanOK(p, n)
  BY AlikeAgrees DEF PlanOK

-----------------------------------------------------------------------------
(* The steps of a call                                                       *)

LEMMA HeadPlanned ==
  ASSUME NEW p, NEW m, PlanOK(p, m), p # << >>
  PROVE  Planned(Head(p), m)
<1>1. PICK S : p \in Seq(S)
  BY DEF PlanOK
<1>2. 1 \in 1 .. Len(p) /\ Head(p) = p[1]
  BY <1>1
<1> QED
  BY <1>2 DEF PlanOK

LEMMA FileStepInv ==
  ASSUME NoFileIsNoArchive, "replace" \notin Faults, Inv, FileStep, UNCHANGED <<mem, plan>>
  PROVE  Inv'
<1> DEFINE i == Head(plan)
<1>1. WorkIsWhole'
  BY FileStepWhole DEF Inv
<1>2. step # "idle" /\ step # "done" /\ op' = op /\ step' # "idle"
  BY DEF FileStep, CreateWrites, CreateFails, Copy, CopyFails, Mutate, MutateThrows, Heal,
         HealFails, Rename, CreateRenameFails, RemoveArchive, RenameAgain, RenameAgainFails,
         RenameOver, Fail, Goto, Return
<1>3. CASE Rename \/ RenameAgain
  <2>1. /\ file' = Applied(op, file) /\ step' = "done" /\ ok'
        /\ file = NoFile => op.kind = "create"
    BY <1>3 DEF Rename, RenameAgain, RenameOver, Return, Inv, WorkIsWhole
  <2>2. Commits(i, mem, file)
    BY <1>2, <2>1, HeadPlanned, CallsCommit DEF Inv
  <2>3. file' = Applied(Requested(i, mem), file)
    BY <1>2, <2>1 DEF Inv
  <2>4. /\ Matching(file') /\ file' # NoFile
        /\ MemOK(Succeeded(i, mem, file')) /\ Agrees(Succeeded(i, mem, file'), file')
    BY <2>2, <2>3 DEF Commits
  <2> QED
    BY <1>1, <1>2, <2>1, <2>4 DEF Inv
<1>4. CASE ~(Rename \/ RenameAgain)
  <2>1. file' = file /\ (step' = "done" => ~ok')
    BY <1>2, <1>4 DEF FileStep, CreateWrites, CreateFails, Copy, CopyFails, Mutate, MutateThrows,
         Heal, HealFails, CreateRenameFails, RemoveArchive, RenameAgainFails, Fail, Goto, Return
  <2> QED
    BY <1>1, <1>2, <2>1 DEF Inv
<1> QED
  BY <1>3, <1>4

LEMMA CallInv ==
  ASSUME Inv, NEW o, Call(o), plan # << >>, UNCHANGED plan, Alike(mem, mem'),
         o = Requested(Head(plan), mem')
  PROVE  Inv'
<1>1. WorkIsWhole'
  BY DEF Call, Inv, WorkIsWhole, Steps
<1>2. MemOK(mem') /\ Agrees(mem', file) /\ PlanOK(plan, mem')
  BY AlikeAgrees, AlikePlans DEF Inv, Call
<1> QED
  BY <1>1, <1>2 DEF Inv, Call

LEMMA FinishInv ==
  ASSUME NoFileIsNoArchive, "replace" \notin Faults, Inv, Finish
  PROVE  Inv'
<1> DEFINE i == Head(plan)
<1>1. step = "done" /\ step' = "idle" /\ UNCHANGED <<file, tmp, op, ok>> /\ plan # << >>
  BY DEF Finish, Taken, Inv
<1>2. WorkIsWhole'
  BY <1>1 DEF WorkIsWhole, Steps
<1>3. CASE ok
  <2> DEFINE n == Succeeded(i, mem, file)
  <2>1. mem' = CaptureStrip(n) /\ plan' = Tail(plan)
    BY <1>3 DEF Finish
  <2>2. MemOK(n) /\ Agrees(n, file)
    BY <1>1, <1>3 DEF Inv
  <2>3. Alike(n, mem')
    BY <2>1, <2>2, StripIsElsewhere DEF MemOK
  <2>4. PlanOK(plan', mem')
    BY <1>1, <2>1, <2>3, PlanGoesOn DEF Inv
  <2> HIDE DEF n
  <2>5. MemOK(mem') /\ Agrees(mem', file)
    BY <2>2, <2>3, AlikeAgrees
  <2> QED
    BY <1>1, <1>2, <2>4, <2>5 DEF Inv
<1>4. CASE ~ok
  <2> DEFINE n == Failed(i, mem)
  <2>1. mem' = CaptureStrip(n) /\ plan' = << >>
    BY <1>4 DEF Finish
  <2>2. Alike(mem, n)
    BY ExperimentsAreElsewhere DEF Failed, Alike, Inv, MemOK
  <2> HIDE DEF n
  <2>3. MemOK(n) /\ Agrees(n, file)
    BY <1>1, <1>4, <2>2, AlikeAgrees DEF Inv
  <2>4. Alike(n, mem')
    BY <2>1, <2>3, StripIsElsewhere DEF MemOK
  <2>5. MemOK(mem') /\ Agrees(mem', file)
    BY <2>3, <2>4, AlikeAgrees
  <2> QED
    BY <1>1, <1>2, <2>1, <2>5, NoCall DEF Inv
<1> QED
  BY <1>3, <1>4

-----------------------------------------------------------------------------
(* The user acts while no call is planned.                                   *)

LEMMA RestInv ==
  ASSUME Inv, Act
  PROVE  /\ WorkIsWhole' /\ step' = "idle" /\ file' = file /\ plan = << >>
         /\ MemOK(mem) /\ Agrees(mem, file) /\ (file # NoFile => Matching(file))
  BY DEF Act, Inv, WorkIsWhole, fileVars

LEMMA MemActInv ==
  ASSUME Inv, Act, MemOK(mem'), Agrees(mem', file), plan' = << >>
  PROVE  Inv'
  BY RestInv, NoCall DEF Inv

LEMMA PlanActInv ==
  ASSUME Inv, Act, UNCHANGED mem, PlanOK(plan', mem)
  PROVE  Inv'
  BY RestInv DEF Inv

(* An act in the project whose change n of the memory agrees with the file.  *)
LEMMA ChangeInv ==
  ASSUME Inv, NEW n, Changes(n), MemOK(n), Agrees(n, file)
  PROVE  Inv'
<1>1. Act /\ mem' = CaptureStrip(n) /\ plan' = << >>
  BY DEF Changes, InProject, Act
<1>2. Alike(n, mem')
  BY <1>1, StripIsElsewhere DEF MemOK
<1>3. MemOK(mem') /\ Agrees(mem', file)
  BY <1>2, AlikeAgrees
<1> QED
  BY <1>1, <1>3, MemActInv

LEMMA AlikeChangeInv ==
  ASSUME Inv, NEW n, Changes(n), Alike(mem, n)
  PROVE  Inv'
<1>1. MemOK(n) /\ Agrees(n, file)
  BY RestInv, AlikeAgrees DEF Changes, InProject
<1> QED
  BY <1>1, ChangeInv

(* An act in the project that becomes one call.                              *)
LEMMA CallPlanInv ==
  ASSUME Inv, NEW i, Plans(<<i>>), Planned(i, mem)
  PROVE  Inv'
  BY OneCall, PlanActInv DEF Plans, InProject

LEMMA PlansInv ==
  ASSUME Inv,
         \/ NewProject \/ CreateFromDataset \/ AddDataset \/ RemoveDataset \/ RenameDataset
         \/ RunBatch \/ SaveEverything \/ SaveTab \/ WriteRecipe \/ RemoveRecipe
  PROVE  Inv'
<1> USE DEF Planned, Whats, Item, ItemOf, ItemWith
<1>1. CASE NewProject
  <2>1. Planned(Item("createEmpty"), mem)
    BY <1>1 DEF NewProject
  <2> QED
    BY <1>1, <2>1, OneCall, PlanActInv DEF NewProject
<1>2. CASE CreateFromDataset
  <2>1. PICK id \in Sources, data \in Datas :
          plan' = <<Item("createFirst"), ItemWith("addFirst", id, data)>>
    BY <1>2 DEF CreateFromDataset
  <2>2. PlanOK(plan', mem)
    BY <1>2, <2>1, CreatePlanOK DEF CreateFromDataset
  <2> QED
    BY <1>2, <2>2, PlanActInv DEF CreateFromDataset
<1>3. CASE AddDataset
  <2>1. PICK id \in Sources \ DOMAIN file.sources, data \in Datas :
          Plans(<<ItemWith("add", id, data)>>)
    BY <1>3 DEF AddDataset
  <2>2. id \notin DOMAIN mem.sources /\ mem.multiWorkspaceOpen
    BY <2>1, RestInv DEF Plans, InProject, Agrees
  <2>3. Planned(ItemWith("add", id, data), mem)
    BY <2>2
  <2> QED
    BY <2>1, <2>3, CallPlanInv
<1>4. CASE RemoveDataset
  <2>1. PICK id \in DOMAIN mem.sources : Plans(<<ItemOf("remove", id)>>)
    BY <1>4 DEF RemoveDataset
  <2>2. Planned(ItemOf("remove", id), mem)
    BY <2>1 DEF Plans, InProject
  <2> QED
    BY <2>1, <2>2, CallPlanInv
<1>5. CASE RenameDataset
  <2>1. PICK id \in DOMAIN mem.sources, name \in Names : Plans(<<ItemWith("rename", id, name)>>)
    BY <1>5 DEF RenameDataset
  <2>2. Planned(ItemWith("rename", id, name), mem)
    BY <2>1 DEF Plans, InProject
  <2> QED
    BY <2>1, <2>2, CallPlanInv
<1>6. CASE RunBatch
  <2>1. PICK id \in DOMAIN mem.sources, data \in Datas : Plans(<<ItemWith("batch", id, data)>>)
    BY <1>6 DEF RunBatch
  <2>2. Planned(ItemWith("batch", id, data), mem)
    BY <2>1 DEF Plans, InProject
  <2> QED
    BY <2>1, <2>2, CallPlanInv
<1>7. CASE SaveEverything
  <2>1. PICK tabs \in Orders(DirtyTabs(mem)), exps \in ListOrders(DirtyExperiments(mem)) :
          plan' = SavePlan(tabs, exps)
    BY <1>7 DEF SaveEverything
  <2>2. PlanOK(plan', mem)
    BY <1>7, <2>1, SavePlanOK DEF SaveEverything
  <2> QED
    BY <1>7, <2>2, PlanActInv DEF SaveEverything
<1>8. CASE SaveTab
  <2>1. PICK id \in DirtyTabs(mem) : Plans(<<ItemOf("tab", id)>>)
    BY <1>8 DEF SaveTab
  <2>2. Planned(ItemOf("tab", id), mem)
    BY <2>1 DEF Plans, InProject, DirtyTabs
  <2> QED
    BY <2>1, <2>2, CallPlanInv
<1>9. CASE WriteRecipe
  <2>1. PICK x \in Recipes \ mem.recipes : Plans(<<ItemOf("recipe", x)>>)
    BY <1>9 DEF WriteRecipe
  <2>2. Planned(ItemOf("recipe", x), mem)
    BY <2>1 DEF Plans, InProject
  <2> QED
    BY <2>1, <2>2, CallPlanInv
<1>10. CASE RemoveRecipe
  <2>1. PICK x \in mem.recipes : Plans(<<ItemOf("unrecipe", x)>>)
    BY <1>10 DEF RemoveRecipe
  <2>2. Planned(ItemOf("unrecipe", x), mem)
    BY <2>1 DEF Plans, InProject
  <2> QED
    BY <2>1, <2>2, CallPlanInv
<1> QED
  BY <1>1, <1>2, <1>3, <1>4, <1>5, <1>6, <1>7, <1>8, <1>9, <1>10

LEMMA TabsInv ==
  ASSUME Inv, OpenDataset \/ CloseDataset \/ EditDataset \/ ComparatorSources
  PROVE  Inv'
<1>1. CASE OpenDataset
  <2>1. PICK id : Changes(OpenTabs(mem, file, {id}))
    BY <1>1 DEF OpenDataset
  <2> DEFINE n == OpenTabs(mem, file, {id})
  <2>2. /\ ~mem.showWelcomeScreen /\ mem.multiWorkspaceOpen /\ file # NoFile
        /\ MemOK(mem) /\ Agrees(mem, file) /\ Matching(file)
    BY <1>1, <2>1, RestInv DEF Changes, InProject, OpenDataset
  <2> DEFINE s == [n EXCEPT !.showWelcomeScreen = FALSE]
  <2>3. MemOK(s) /\ Agrees(s, file)
    BY <2>2, OpenTabsAgrees
  <2>4. /\ DOMAIN n = MemFields /\ ~n.showWelcomeScreen /\ n.multiWorkspaceOpen
        /\ n.multiWorkspaceOpen = s.multiWorkspaceOpen /\ n.sources = s.sources
        /\ n.recipes = s.recipes /\ n.sourceCache = s.sourceCache /\ n.sessions = s.sessions
    BY <2>2 DEF OpenTabs, MemOK, MemFields
  <2> HIDE DEF s, n
  <2>5. MemOK(n)
    BY <2>3, <2>4, <2>2 DEF MemOK
  <2>6. Agrees(n, file)
    BY <2>3, <2>4 DEF Agrees
  <2> QED
    BY <2>1, <2>5, <2>6, ChangeInv DEF n
<1>2. CASE CloseDataset
  <2>1. PICK id : Changes(RemoveTab(mem, id))
    BY <1>2 DEF CloseDataset
  <2> DEFINE n == RemoveTab(mem, id)
  <2>2. ~mem.showWelcomeScreen /\ mem.multiWorkspaceOpen /\ MemOK(mem) /\ Agrees(mem, file)
    BY <2>1, RestInv DEF Changes, InProject
  <2>3. /\ DOMAIN n = MemFields /\ ~n.showWelcomeScreen /\ n.multiWorkspaceOpen
        /\ n.sources = mem.sources /\ n.recipes = mem.recipes
        /\ DOMAIN n.sessions = DOMAIN mem.sessions \ {id}
        /\ DOMAIN n.sourceCache = DOMAIN mem.sourceCache \ {id}
        /\ \A x \in DOMAIN n.sessions : n.sessions[x] = mem.sessions[x]
        /\ \A x \in DOMAIN n.sourceCache : n.sourceCache[x] = mem.sourceCache[x]
    BY <2>2 DEF RemoveTab, Drop, MemOK, MemFields
  <2> HIDE DEF n
  <2>4. MemOK(n)
    BY <2>2, <2>3 DEF MemOK
  <2>5. Agrees(n, file)
    BY <2>2, <2>3 DEF Agrees
  <2> QED
    BY <2>1, <2>4, <2>5, ChangeInv DEF n
<1>3. CASE EditDataset
  <2>1. PICK id \in DOMAIN mem.sessions, d \in Datas :
          Changes([mem EXCEPT !.sessions[id] = [data |-> d, dirty |-> TRUE]])
    BY <1>3 DEF EditDataset
  <2> DEFINE n == [mem EXCEPT !.sessions[id] = [data |-> d, dirty |-> TRUE]]
  <2>2. ~mem.showWelcomeScreen /\ mem.multiWorkspaceOpen /\ MemOK(mem) /\ Agrees(mem, file)
    BY <2>1, RestInv DEF Changes, InProject
  <2>3. /\ DOMAIN n = MemFields /\ ~n.showWelcomeScreen /\ n.multiWorkspaceOpen
        /\ n.sources = mem.sources /\ n.recipes = mem.recipes
        /\ n.sourceCache = mem.sourceCache
        /\ DOMAIN n.sessions = DOMAIN mem.sessions
        /\ DOMAIN n.sessions[id] = {"data", "dirty"} /\ n.sessions[id].dirty
        /\ \A x \in DOMAIN mem.sessions \ {id} : n.sessions[x] = mem.sessions[x]
    BY <2>2 DEF MemOK, MemFields
  <2> HIDE DEF n
  <2>4. MemOK(n)
    BY <2>2, <2>3 DEF MemOK
  <2>5. Agrees(n, file)
    BY <2>2, <2>3 DEF Agrees
  <2> QED
    BY <2>1, <2>4, <2>5, ChangeInv DEF n
<1>4. CASE ComparatorSources
  <2> DEFINE missing == (DOMAIN mem.sources \ DOMAIN mem.sessions) \cap DOMAIN file.groups
             n == [mem EXCEPT !.sourceCache =
                     [id \in DOMAIN @ \cup missing |->
                        IF id \in DOMAIN @ THEN @[id] ELSE file.groups[id].data]]
  <2>1. Changes(n)
    BY <1>4 DEF ComparatorSources
  <2>2. ~mem.showWelcomeScreen /\ mem.multiWorkspaceOpen /\ MemOK(mem) /\ Agrees(mem, file)
    BY <2>1, RestInv DEF Changes, InProject
  <2>3. /\ DOMAIN n = MemFields /\ ~n.showWelcomeScreen /\ n.multiWorkspaceOpen
        /\ n.sources = mem.sources /\ n.recipes = mem.recipes /\ n.sessions = mem.sessions
        /\ DOMAIN n.sourceCache = DOMAIN mem.sourceCache \cup missing
        /\ \A x \in DOMAIN mem.sourceCache : n.sourceCache[x] = mem.sourceCache[x]
        /\ \A x \in missing \ DOMAIN mem.sourceCache : n.sourceCache[x] = file.groups[x].data
    BY <2>2 DEF MemOK, MemFields
  <2> HIDE DEF n
  <2>4. MemOK(n)
    BY <2>2, <2>3 DEF MemOK
  <2>5. Agrees(n, file)
    BY <2>2, <2>3 DEF Agrees
  <2> QED
    BY <2>1, <2>4, <2>5, ChangeInv
<1> QED
  BY <1>1, <1>2, <1>3, <1>4

LEMMA ProjectInv ==
  ASSUME Inv, OpenExisting \/ Reopen \/ GoHome
  PROVE  Inv'
<1>1. CASE OpenExisting
  <2> DEFINE n == Shown(OpenProject(mem, file))
  <2>1. Act /\ mem' = CaptureStrip(n) /\ plan' = << >>
    BY <1>1 DEF OpenExisting, Act
  <2>2. MemOK(mem) /\ DOMAIN mem.sessions = {} /\ file # NoFile /\ Matching(file)
    BY <1>1, <2>1, RestInv DEF OpenExisting, MemOK
  <2>3. MemOK(n) /\ Agrees(n, file)
    BY <2>2, OpenProjectAgrees
  <2> HIDE DEF n
  <2>4. MemOK(mem') /\ Agrees(mem', file)
    BY <2>1, <2>3, StripIsElsewhere, AlikeAgrees DEF MemOK
  <2> QED
    BY <2>1, <2>4, MemActInv
<1>2. CASE Reopen
  <2> DEFINE l == LoadExperiments(mem, file)
             n == [OpenTabs(l, file, l.openTabIds) EXCEPT !.showWelcomeScreen = FALSE]
  <2>1. Act /\ mem' = CaptureStrip(n) /\ plan' = << >>
    BY <1>2 DEF Reopen, Act, Shown, RestoreOpenEmbeddedTabs
  <2>2. /\ MemOK(mem) /\ Agrees(mem, file) /\ mem.multiWorkspaceOpen
        /\ file # NoFile /\ Matching(file)
    BY <1>2, <2>1, RestInv DEF Reopen
  <2>3. Alike(mem, l)
    BY <2>2, ExperimentsAreElsewhere DEF MemOK
  <2>4. MemOK(l) /\ Agrees(l, file) /\ l.multiWorkspaceOpen
    BY <2>2, <2>3, AlikeAgrees DEF Alike
  <2> HIDE DEF l
  <2>5. MemOK(n) /\ Agrees(n, file)
    BY <2>2, <2>4, OpenTabsAgrees
  <2> HIDE DEF n
  <2>6. MemOK(mem') /\ Agrees(mem', file)
    BY <2>1, <2>5, StripIsElsewhere, AlikeAgrees DEF MemOK
  <2> QED
    BY <2>1, <2>6, MemActInv
<1>3. CASE GoHome
  <2>1. Act /\ mem.multiWorkspaceOpen /\ plan' = << >>
    BY <1>3 DEF GoHome, InProject, Act
  <2>2. MemOK(mem) /\ Agrees(mem, file)
    BY <2>1, RestInv
  <2>3. /\ DOMAIN mem' = MemFields /\ mem'.multiWorkspaceOpen
        /\ mem'.sources = mem.sources /\ mem'.recipes = mem.recipes
        /\ mem'.sessions = Nothing
        /\ DOMAIN mem'.sourceCache = DOMAIN mem.sourceCache \ DOMAIN mem.sessions
        /\ \A x \in DOMAIN mem'.sourceCache : mem'.sourceCache[x] = mem.sourceCache[x]
    BY <1>3, <2>1, <2>2 DEF GoHome, MemOK, MemFields
  <2>4. MemOK(mem')
    BY <2>3 DEF MemOK, Nothing
  <2>5. Agrees(mem', file)
    BY <2>1, <2>2, <2>3 DEF Agrees, Nothing
  <2> QED
    BY <2>1, <2>4, <2>5, MemActInv
<1> QED
  BY <1>1, <1>2, <1>3

LEMMA ExperimentsInv ==
  ASSUME Inv, NewExperiment \/ EditExperiment \/ DeleteExperiment
  PROVE  Inv'
<1>0. MemOK(mem)
  BY DEF Inv
<1>1. CASE NewExperiment
  <2>1. \E v : Changes([mem EXCEPT !.experiments = v])
    BY <1>1 DEF NewExperiment
  <2> QED
    BY <1>0, <2>1, Elsewhere, AlikeChangeInv DEF MemOK
<1>2. CASE EditExperiment
  <2>1. PICK k, d : Changes([mem EXCEPT !.experiments[k].data = d, !.experiments[k].dirty = TRUE])
    BY <1>2 DEF EditExperiment
  <2> DEFINE n == [mem EXCEPT !.experiments[k].data = d, !.experiments[k].dirty = TRUE]
  <2>2. Alike(mem, n)
    BY <1>0 DEF Alike, MemOK, MemFields
  <2> QED
    BY <2>1, <2>2, AlikeChangeInv
<1>3. CASE DeleteExperiment
  <2>1. PICK k : \/ Changes([mem EXCEPT !.experiments = RemoveAt(@, k)])
                 \/ Plans(<<ItemOf("delete", k)>>)
    BY <1>3 DEF DeleteExperiment
  <2>2. CASE Changes([mem EXCEPT !.experiments = RemoveAt(@, k)])
    BY <1>0, <2>2, ExperimentsAreElsewhere, AlikeChangeInv DEF MemOK
  <2>3. CASE Plans(<<ItemOf("delete", k)>>)
    <3>1. Planned(ItemOf("delete", k), mem)
      BY <2>3 DEF Planned, Whats, ItemOf, Plans, InProject
    <3> QED
      BY <2>3, <3>1, CallPlanInv
  <2> QED
    BY <2>1, <2>2, <2>3
<1> QED
  BY <1>1, <1>2, <1>3

-----------------------------------------------------------------------------
LEMMA LaunchedOK == MemOK(Launched) /\ \A c : Agrees(Launched, c)
  BY DEF MemOK, Agrees, Launched, MemFields, Nothing

(* Every step keeps memory, plan and archive together.                       *)
THEOREM MemoryInvariance ==
  ASSUME NoFileIsNoArchive, "replace" \notin Faults PROVE Spec => []Inv
<1>1. Init => Inv
  <2> SUFFICES ASSUME Init PROVE Inv
    OBVIOUS
  <2>1. WorkIsWhole
    BY DEF Init, FileInit, WorkIsWhole, Steps
  <2> QED
    BY <2>1, LaunchedOK, NoCall DEF Init, FileInit, Inv
<1>2. Inv /\ [Next]_vars => Inv'
  <2> SUFFICES ASSUME Inv, [Next]_vars PROVE Inv'
    OBVIOUS
  <2>1. CASE StartExperiment
    <3>1. PICK n, id : mem' = WithId(mem, n, id)
      BY <2>1 DEF StartExperiment
    <3>2. Alike(mem, mem')
      BY <3>1, ExperimentsAreElsewhere DEF Inv, MemOK
    <3> QED
      BY <2>1, <3>2, CallInv DEF StartExperiment, Turn
  <2>2. CASE Start
    <3>1. Alike(mem, mem')
      BY <2>2 DEF Start, Alike
    <3> QED
      BY <2>2, <3>1, CallInv DEF Start, Turn
  <2>3. CASE SkipOrder
    <3>1. /\ plan # << >> /\ step = "idle" /\ plan' = Tail(plan)
          /\ UNCHANGED <<file, tmp, step, op, ok, mem>>
      BY <2>3 DEF SkipOrder, Turn, fileVars
    <3>2. Alike(Succeeded(Head(plan), mem, file), mem)
      BY <2>3 DEF SkipOrder, OrderUnchanged, Succeeded, Alike
    <3>3. PlanOK(plan', mem)
      BY <3>1, <3>2, PlanGoesOn DEF Inv
    <3> QED
      BY <3>1, <3>3 DEF Inv, WorkIsWhole
  <2>4. CASE StoreStep
    BY <2>4, FileStepInv DEF StoreStep
  <2>5. CASE Finish
    BY <2>5, FinishInv
  <2>6. CASE User
    BY <2>6, PlansInv, TabsInv, ProjectInv, ExperimentsInv DEF User
  <2>7. CASE Crash
    <3>1. step' = "idle" /\ file' = file /\ mem' = Launched /\ plan' = << >>
      BY <2>7 DEF Crash, FileCrash
    <3>2. WorkIsWhole'
      BY <3>1 DEF WorkIsWhole, Steps
    <3> QED
      BY <3>1, <3>2, LaunchedOK, NoCall DEF Inv
  <2>8. CASE UNCHANGED vars
    BY <2>8 DEF vars, Inv, WorkIsWhole
  <2> QED
    BY <2>1, <2>2, <2>3, <2>4, <2>5, <2>6, <2>7, <2>8 DEF Next
<1> QED
  BY <1>1, <1>2, PTL DEF Spec

(* The manifest lists what the groups hold, under the same names.            *)
THEOREM ManifestIsTrue ==
  ASSUME NoFileIsNoArchive, "replace" \notin Faults PROVE Spec => []ManifestMatchesGroups
<1>1. Inv => ManifestMatchesGroups
  BY DEF Inv, Matching, ManifestMatchesGroups
<1> QED
  BY <1>1, MemoryInvariance, PTL

(* A tab that is not marked unsaved shows what is stored.                    *)
THEOREM CleanTabsAreStored ==
  ASSUME NoFileIsNoArchive, "replace" \notin Faults PROVE Spec => []CleanTabIsOnDisk
<1>1. Inv => CleanTabIsOnDisk
  <2> SUFFICES ASSUME Inv, AtRest, NEW id \in DOMAIN mem.sessions \ DirtyTabs(mem)
               PROVE  /\ file # NoFile /\ id \in DOMAIN file.groups
                      /\ mem.sessions[id].data = file.groups[id].data
    BY DEF CleanTabIsOnDisk
  <2>1. MemOK(mem) /\ Agrees(mem, file)
    BY DEF Inv, AtRest
  <2>2. mem.multiWorkspaceOpen
    BY <2>1 DEF MemOK
  <2>3. ~mem.sessions[id].dirty
    BY DEF DirtyTabs
  <2> QED
    BY <2>1, <2>2, <2>3 DEF Agrees
<1> QED
  BY <1>1, MemoryInvariance, PTL

(* What the comparator, the dataset list and the recipe list show is stored. *)
THEOREM CopiesAreCurrent ==
  ASSUME NoFileIsNoArchive, "replace" \notin Faults PROVE Spec => []CopiesMatchArchive
<1>1. Inv => CopiesMatchArchive
  <2> SUFFICES ASSUME Inv, AtRest
               PROVE  CopiesMatchArchive
    BY DEF CopiesMatchArchive
  <2>1. MemOK(mem) /\ Agrees(mem, file)
    BY DEF Inv, AtRest
  <2>2. \A id \in DOMAIN mem.sourceCache \ DOMAIN mem.sessions : mem.multiWorkspaceOpen
    BY <2>1 DEF MemOK
  <2> QED
    BY <2>1, <2>2 DEF Agrees, CopiesMatchArchive
<1> QED
  BY <1>1, MemoryInvariance, PTL

-----------------------------------------------------------------------------
(***************************************************************************)
(* The experiments in memory, and a Ctrl+S, for all datasets, names,       *)
(* contents, recipes, any number of acts and of ids, whatever fails and    *)
(* wherever the process dies, as long as a refused rename is not followed  *)
(* by the removal of the archive and the list of the stored experiments    *)
(* can be read.                                                            *)
(*                                                                         *)
(* No two experiments share an id, those not marked unsaved are stored as  *)
(* they are, and there is an id left for each that has none (ListOK): the  *)
(* last is what keeps the choice of a new id well defined.  The invariant  *)
(* (ListInv) holds this of the memory as it will be once the running       *)
(* call's result is applied.  A plan that ends with the tab order covers   *)
(* all that is unsaved (SaveInv), so when it is through the archive opens  *)
(* as what is in memory.                                                   *)
(***************************************************************************)

-----------------------------------------------------------------------------
(* Lists in order                                                            *)

(* A set of numbers has a least element.                                     *)
LEMMA LeastElement ==
  ASSUME NEW T, T \subseteq Nat, T # {}
  PROVE  \E x \in T : \A y \in T : x <= y
<1> DEFINE R == {p \in Nat \X Nat : p[1] < p[2]}
<1>1. IsWellFoundedOn(R, Nat)
  BY NatLessThanWellFounded DEF OpToRel
<1>2. \A x, y \in Nat : x < y => <<x, y>> \in R
  OBVIOUS
<1> HIDE DEF R
<1>3. PICK x \in T : \A y \in T : <<y, x>> \notin R
  BY <1>1, WFMin
<1>4. ASSUME NEW y \in T PROVE x <= y
  <2>1. ~(y < x)
    BY <1>2, <1>3
  <2> QED
    BY <2>1
<1> QED
  BY <1>4

(* The sequences of the length n at most.                                    *)
LEMMA SeqOfIsBounded ==
  ASSUME NEW S, NEW n \in Nat, NEW s
  PROVE  s \in SeqOf(S, n) <=> s \in Seq(S) /\ Len(s) <= n
<1>1. ASSUME s \in SeqOf(S, n) PROVE s \in Seq(S) /\ Len(s) <= n
  <2>1. PICK m \in 0 .. n : s \in [1 .. m -> S]
    BY <1>1 DEF SeqOf
  <2> QED
    BY <2>1
<1>2. ASSUME s \in Seq(S), Len(s) <= n PROVE s \in SeqOf(S, n)
  <2>1. s \in [1 .. Len(s) -> S] /\ Len(s) \in 0 .. n
    BY <1>2
  <2> QED
    BY <2>1 DEF SeqOf
<1> QED
  BY <1>1, <1>2

(* A list of the set S of numbers in their order.                            *)
LEMMA ListOrderIs ==
  ASSUME NEW S, S \subseteq Nat, IsFiniteSet(S), NEW s \in ListOrders(S)
  PROVE  /\ s \in Seq(S) /\ Len(s) <= Cardinality(S)
         /\ \A x \in S : \E k \in 1 .. Len(s) : s[k] = x
         /\ \A j, k \in 1 .. Len(s) : j < k => s[j] < s[k]
<1>1. Cardinality(S) \in Nat
  BY FS_CardinalityType
<1>2. s \in Seq(S) /\ Len(s) <= Cardinality(S)
  BY <1>1, SeqOfIsBounded DEF ListOrders, Orders
<1>3. DOMAIN s = 1 .. Len(s)
  BY <1>2
<1> QED
  BY <1>2, <1>3 DEF ListOrders, Orders, ToSet

(* An increasing sequence through all of S is one of its list orders.        *)
LEMMA IsListOrder ==
  ASSUME NEW S, S \subseteq Nat, IsFiniteSet(S), NEW s \in Seq(S),
         Len(s) <= Cardinality(S),
         \A x \in S : \E k \in 1 .. Len(s) : s[k] = x,
         \A j, k \in 1 .. Len(s) : j < k => s[j] < s[k]
  PROVE  s \in ListOrders(S)
<1>1. Cardinality(S) \in Nat
  BY FS_CardinalityType
<1>2. DOMAIN s = 1 .. Len(s) /\ \A k \in DOMAIN s : s[k] \in S
  OBVIOUS
<1>3. ToSet(s) = S
  BY <1>2 DEF ToSet
<1> QED
  BY <1>1, <1>2, <1>3, SeqOfIsBounded DEF ListOrders, Orders

(* Every finite set of numbers has a list in their order.                    *)
LEMMA ListOrderExists ==
  ASSUME NEW S, S \subseteq Nat, IsFiniteSet(S)
  PROVE  ListOrders(S) # {}
<1> DEFINE Listable(n) == \A T \in SUBSET Nat :
              IsFiniteSet(T) /\ Cardinality(T) = n => ListOrders(T) # {}
           Bad == {n \in Nat : ~Listable(n)}
<1>1. ASSUME NEW n \in Bad, \A k \in Bad : n <= k
      PROVE  FALSE
  <2>1. PICK T \in SUBSET Nat : IsFiniteSet(T) /\ Cardinality(T) = n /\ ListOrders(T) = {}
    BY <1>1
  <2>2. T # {}
    <3>1. /\ IsFiniteSet({}) /\ Cardinality({}) = 0 /\ {} \subseteq Nat
          /\ << >> \in Seq({}) /\ Len(<< >>) = 0
      BY FS_EmptySet
    <3>2. 1 .. Len(<< >>) = {} /\ Len(<< >>) <= Cardinality({})
      BY <3>1
    <3>3. << >> \in ListOrders({})
      BY <3>1, <3>2, IsListOrder
    <3> QED
      BY <2>1, <3>3
  <2>3. PICK x \in T : \A y \in T : x <= y
    BY <2>2, LeastElement
  <2> DEFINE U == T \ {x}
  <2>4. /\ IsFiniteSet(U) /\ Cardinality(U) = n - 1 /\ n - 1 \in Nat /\ U \subseteq Nat
    BY <2>1, <2>3, FS_RemoveElement, FS_EmptySet, FS_CardinalityType
  <2>5. ListOrders(U) # {}
    <3>1. Listable(n - 1)
      BY <1>1, <2>4
    <3> QED
      BY <2>1, <2>4, <3>1
  <2>6. PICK s : s \in ListOrders(U)
    BY <2>5
  <2> HIDE DEF U
  <2>7. /\ s \in Seq(U) /\ Len(s) <= n - 1
        /\ \A y \in U : \E k \in 1 .. Len(s) : s[k] = y
        /\ \A j, k \in 1 .. Len(s) : j < k => s[j] < s[k]
    BY <2>4, <2>6, ListOrderIs
  <2> DEFINE t == <<x>> \o s
  <2>8. /\ t \in Seq(T) /\ Len(t) = Len(s) + 1 /\ Len(s) \in Nat /\ t[1] = x
        /\ \A k \in 1 .. Len(s) : t[k + 1] = s[k]
        /\ \A k \in 1 .. Len(s) : s[k] \in U
    BY <2>3, <2>7 DEF U
  <2> HIDE DEF t
  <2>9. ASSUME NEW y \in T PROVE \E k \in 1 .. Len(t) : t[k] = y
    <3>1. CASE y = x
      BY <2>8, <3>1
    <3>2. CASE y # x
      <4>1. PICK k \in 1 .. Len(s) : s[k] = y
        BY <2>7, <3>2 DEF U
      <4>2. k + 1 \in 1 .. Len(t) /\ t[k + 1] = y
        BY <2>8, <4>1
      <4> QED
        BY <4>2
    <3> QED
      BY <3>1, <3>2
  <2>10. ASSUME NEW j \in 1 .. Len(t), NEW k \in 1 .. Len(t), j < k
         PROVE  t[j] < t[k]
    <3>1. k - 1 \in 1 .. Len(s) /\ (k - 1) + 1 = k
      BY <2>8, <2>10
    <3>2. t[k] = s[k - 1] /\ s[k - 1] \in U
      BY <2>8, <3>1
    <3>3. CASE j = 1
      <4>1. x <= t[k] /\ t[k] # x /\ x \in Nat /\ t[k] \in Nat
        BY <2>1, <2>3, <3>2 DEF U
      <4> QED
        BY <2>8, <3>3, <4>1
    <3>4. CASE j # 1
      <4>1. j - 1 \in 1 .. Len(s) /\ j - 1 < k - 1 /\ (j - 1) + 1 = j
        BY <2>8, <2>10, <3>4
      <4>2. t[j] = s[j - 1]
        BY <2>8, <4>1
      <4> QED
        BY <2>7, <3>1, <3>2, <4>1, <4>2
    <3> QED
      BY <3>3, <3>4
  <2>11. t \in ListOrders(T)
    <3>1. Len(t) <= Cardinality(T) /\ T \subseteq Nat /\ IsFiniteSet(T)
      BY <2>1, <2>4, <2>7, <2>8
    <3> QED
      BY <2>8, <2>9, <2>10, <3>1, IsListOrder
  <2> QED
    BY <2>1, <2>11
<1>2. Bad = {}
  BY <1>1, LeastElement
<1>3. Cardinality(S) \in Nat
  BY FS_CardinalityType
<1> QED
  BY <1>2, <1>3

(* InOrder lists every member of a finite set of numbers once.               *)
LEMMA InOrderLists ==
  ASSUME NEW S, S \subseteq Nat, IsFiniteSet(S)
  PROVE  /\ InOrder(S) \in Seq(S)
         /\ \A x \in S : \E k \in 1 .. Len(InOrder(S)) : InOrder(S)[k] = x
         /\ \A j, k \in 1 .. Len(InOrder(S)) : InOrder(S)[j] = InOrder(S)[k] => j = k
<1> DEFINE s == InOrder(S)
<1>1. s \in ListOrders(S)
  BY ListOrderExists DEF InOrder
<1> HIDE DEF s
<1>2. /\ s \in Seq(S)
      /\ \A x \in S : \E k \in 1 .. Len(s) : s[k] = x
      /\ \A j, k \in 1 .. Len(s) : j < k => s[j] < s[k]
  BY <1>1, ListOrderIs
<1>3. ASSUME NEW j \in 1 .. Len(s), NEW k \in 1 .. Len(s), s[j] = s[k]
      PROVE  j = k
  <2>1. s[j] \in S /\ j \in Nat /\ k \in Nat
    BY <1>2, ElementOfSeq
  <2>2. s[j] \in Nat
    BY <2>1
  <2>3. ~(s[j] < s[j])
    BY <2>2
  <2>4. ~(j < k) /\ ~(k < j)
    BY <1>2, <1>3, <2>3
  <2> QED
    BY <2>1, <2>4
<1> QED
  BY <1>2, <1>3 DEF s

(* While some id is free, FreeId finds one.                                  *)
LEMMA FreeIdIsFree ==
  ASSUME NEW taken \in SUBSET ExpIds, Cardinality(taken) < MaxExpId
  PROVE  FreeId(taken) \in ExpIds \ taken
<1>1. IsFiniteSet(ExpIds) /\ Cardinality(ExpIds) = MaxExpId
  <2>1. Cardinality(1 .. MaxExpId) = IF 1 > MaxExpId THEN 0 ELSE MaxExpId - 1 + 1
    BY MaxExpIdAssumption, FS_Interval
  <2>2. IsFiniteSet(1 .. MaxExpId)
    BY MaxExpIdAssumption, FS_Interval
  <2> QED
    BY <2>1, <2>2, MaxExpIdAssumption DEF ExpIds
<1>2. ExpIds \ taken # {} /\ ExpIds \ taken \subseteq Nat
  <2>1. taken # ExpIds
    BY <1>1, MaxExpIdAssumption
  <2>2. ExpIds \subseteq Nat
    BY DEF ExpIds
  <2>3. ExpIds \ taken # {}
    BY <2>1
  <2> QED
    BY <2>2, <2>3
<1>3. \E k \in ExpIds \ taken : \A j \in ExpIds \ taken : k <= j
  BY <1>2, LeastElement
<1> QED
  BY <1>3 DEF FreeId

(* What RemoveAt leaves behind.                                              *)
LEMMA RemoveAtElements ==
  ASSUME NEW S, NEW q \in Seq(S), NEW i \in 1 .. Len(q)
  PROVE  /\ RemoveAt(q, i) \in Seq(S)
         /\ Len(RemoveAt(q, i)) = Len(q) - 1
         /\ \A j \in 1 .. Len(q) - 1 :
              RemoveAt(q, i)[j] = IF j < i THEN q[j] ELSE q[j + 1]
<1> DEFINE a == SubSeq(q, 1, i - 1)
           b == SubSeq(q, i + 1, Len(q))
<1>1. Len(q) \in Nat /\ i \in Nat /\ i >= 1 /\ i <= Len(q)
  OBVIOUS
<1>2. /\ a \in Seq(S) /\ Len(a) = i - 1 /\ \A j \in 1 .. i - 1 : a[j] = q[j]
      /\ b \in Seq(S) /\ Len(b) = Len(q) - i
      /\ \A j \in 1 .. Len(q) - i : b[j] = q[i + j]
  BY <1>1, SubSeqProperties
<1>3. RemoveAt(q, i) = a \o b
  BY DEF RemoveAt
<1> HIDE DEF a, b
<1>4. /\ a \o b \in Seq(S) /\ Len(a \o b) = Len(a) + Len(b)
      /\ \A j \in 1 .. Len(a) + Len(b) :
           (a \o b)[j] = IF j <= Len(a) THEN a[j] ELSE b[j - Len(a)]
  BY <1>2, ConcatProperties
<1>5. \A j \in 1 .. Len(q) - 1 : (a \o b)[j] = IF j < i THEN q[j] ELSE q[j + 1]
  <2> TAKE j \in 1 .. Len(q) - 1
  <2>1. CASE j < i
    BY <1>1, <1>2, <1>4, <2>1
  <2>2. CASE j >= i
    <3>1. /\ j - Len(a) \in 1 .. Len(q) - i /\ j \in 1 .. Len(a) + Len(b)
          /\ i + (j - Len(a)) = j + 1 /\ ~(j <= Len(a)) /\ ~(j < i)
      BY <1>1, <1>2, <2>2
    <3>2. (a \o b)[j] = b[j - Len(a)]
      BY <1>4, <3>1
    <3> QED
      BY <1>2, <3>1, <3>2
  <2>3. j < i \/ j >= i
    BY <1>1
  <2> QED
    BY <2>1, <2>2, <2>3
<1> QED
  BY <1>1, <1>2, <1>3, <1>4, <1>5

-----------------------------------------------------------------------------
(* Types                                                                     *)

(* A function on some of the elements of S.                                  *)
LEMMA SomeIs ==
  ASSUME NEW S, NEW T, NEW f
  PROVE  f \in Some(S, T) <=> DOMAIN f \subseteq S /\ f \in [DOMAIN f -> T]
  BY DEF Some

(* Put, Drop and EXCEPT keep such a function one.                            *)
LEMMA PutType ==
  ASSUME NEW S, NEW T, NEW f \in Some(S, T), NEW x \in S, NEW v \in T
  PROVE  Put(f, x, v) \in Some(S, T)
<1>1. DOMAIN Put(f, x, v) = DOMAIN f \cup {x}
  BY DEF Put
<1>2. Put(f, x, v) \in [DOMAIN f \cup {x} -> T]
  BY SomeIs DEF Put
<1> QED
  BY <1>1, <1>2, SomeIs

LEMMA DropType ==
  ASSUME NEW S, NEW T, NEW f \in Some(S, T), NEW x
  PROVE  Drop(f, x) \in Some(S, T)
<1>1. DOMAIN Drop(f, x) = DOMAIN f \ {x}
  BY DEF Drop
<1>2. Drop(f, x) \in [DOMAIN f \ {x} -> T]
  BY SomeIs DEF Drop
<1> QED
  BY <1>1, <1>2, SomeIs

LEMMA ChangeType ==
  ASSUME NEW S, NEW T, NEW f \in Some(S, T), NEW x, NEW v, x \in DOMAIN f => v \in T
  PROVE  [f EXCEPT ![x] = v] \in Some(S, T)
<1> DEFINE g == [f EXCEPT ![x] = v]
<1>1. DOMAIN g = DOMAIN f
  OBVIOUS
<1>2. f \in [DOMAIN f -> T] /\ DOMAIN f \subseteq S
  BY SomeIs
<1>3. g \in [DOMAIN f -> T]
  BY <1>2
<1> HIDE DEF g
<1>4. g \in Some(S, T)
  BY <1>1, <1>2, <1>3, SomeIs
<1> QED
  BY <1>4 DEF g

LEMMA NothingType == ASSUME NEW S, NEW T PROVE Nothing \in Some(S, T)
<1>1. DOMAIN Nothing = {} /\ Nothing \in [{} -> T]
  BY DEF Nothing
<1> QED
  BY <1>1, SomeIs

-----------------------------------------------------------------------------
(* The list of experiments                                                   *)

(* An experiment of the list in memory.                                      *)
Exps == [id : {Unsaved} \cup ExpIds, data : Datas, dirty : BOOLEAN]

IdsOf(es) == {es[n].id : n \in DOMAIN es} \ {Unsaved}

UnsavedOf(es) == {n \in DOMAIN es : es[n].id = Unsaved}

DistinctIds(es) ==
  \A j, k \in DOMAIN es : j # k /\ es[j].id = es[k].id => es[j].id = Unsaved

(* There is an id for every experiment that has none.                        *)
Room(es, c) ==
  Cardinality(c.listedExps \cup IdsOf(es)) + Cardinality(UnsavedOf(es)) <= MaxExpId

(* What is not marked unsaved is in the archive as it is.                    *)
Stored(es, c) ==
  \A n \in DOMAIN es :
    ~es[n].dirty => es[n].id \in DOMAIN c.experiments /\ c.experiments[es[n].id] = es[n].data

ListOK(es, c) ==
  /\ es \in Seq(Exps)
  /\ DistinctIds(es)
  /\ Room(es, c)
  /\ Stored(es, c)

(* An archive of the right type whose manifest and groups match.             *)
Good(c) == c \in Archives /\ Matching(c)

(* The ids an archive lists are those it holds.                              *)
LEMMA GoodIds ==
  ASSUME NEW c, Good(c)
  PROVE  /\ c.listedExps \in SUBSET ExpIds
         /\ DOMAIN c.experiments = c.listedExps
         /\ \A x \in c.listedExps : c.experiments[x] \in Datas
<1>1. c.experiments \in Some(ExpIds, Datas) /\ c.listedExps \in SUBSET ExpIds
  BY DEF Good, Archives
<1>2. c.experiments \in [DOMAIN c.experiments -> Datas]
  BY <1>1, SomeIs
<1> QED
  BY <1>1, <1>2 DEF Good, Matching

(* There are MaxExpId ids, and every set of them is finite.                  *)
LEMMA ExpIdsFinite ==
  /\ ExpIds \subseteq Nat /\ Unsaved \notin ExpIds
  /\ IsFiniteSet(ExpIds) /\ Cardinality(ExpIds) = MaxExpId
  /\ \A S \in SUBSET ExpIds :
       /\ IsFiniteSet(S) /\ Cardinality(S) \in Nat /\ Cardinality(S) <= MaxExpId
<1>1. IsFiniteSet(1 .. MaxExpId)
  BY MaxExpIdAssumption, FS_Interval
<1>2. Cardinality(1 .. MaxExpId) = IF 1 > MaxExpId THEN 0 ELSE MaxExpId - 1 + 1
  BY MaxExpIdAssumption, FS_Interval
<1>3. IsFiniteSet(ExpIds) /\ Cardinality(ExpIds) = MaxExpId
  BY <1>1, <1>2, MaxExpIdAssumption DEF ExpIds
<1>4. ExpIds \subseteq Nat /\ Unsaved \notin ExpIds
  BY DEF ExpIds, Unsaved
<1>5. ASSUME NEW S \in SUBSET ExpIds
      PROVE  IsFiniteSet(S) /\ Cardinality(S) \in Nat /\ Cardinality(S) <= MaxExpId
  BY <1>3, FS_Subset, FS_CardinalityType
<1> QED
  BY <1>3, <1>4, <1>5

(* The members of a list of experiments.                                     *)
LEMMA ListMembers ==
  ASSUME NEW es \in Seq(Exps)
  PROVE  /\ DOMAIN es = 1 .. Len(es) /\ Len(es) \in Nat
         /\ \A n \in DOMAIN es : /\ es[n] \in Exps
                                 /\ es[n].id \in {Unsaved} \cup ExpIds
                                 /\ es[n].data \in Datas /\ es[n].dirty \in BOOLEAN
         /\ IdsOf(es) \in SUBSET ExpIds
         /\ IsFiniteSet(UnsavedOf(es)) /\ Cardinality(UnsavedOf(es)) \in Nat
<1>1. DOMAIN es = 1 .. Len(es) /\ Len(es) \in Nat
  OBVIOUS
<1>2. \A n \in DOMAIN es : es[n] \in Exps
  BY <1>1
<1>3. \A n \in DOMAIN es : /\ es[n].id \in {Unsaved} \cup ExpIds
                           /\ es[n].data \in Datas /\ es[n].dirty \in BOOLEAN
  BY <1>2 DEF Exps
<1>4. IdsOf(es) \in SUBSET ExpIds
  BY <1>3 DEF IdsOf
<1>5. UnsavedOf(es) \in SUBSET (1 .. Len(es))
  BY <1>1 DEF UnsavedOf
<1>6. IsFiniteSet(1 .. Len(es))
  BY <1>1, FS_Interval
<1>7. IsFiniteSet(UnsavedOf(es)) /\ Cardinality(UnsavedOf(es)) \in Nat
  BY <1>5, <1>6, FS_Subset, FS_CardinalityType
<1> QED
  BY <1>1, <1>2, <1>3, <1>4, <1>7

(* Fewer ids, and no more experiments without one.                           *)
LEMMA RoomShrinks ==
  ASSUME NEW es \in Seq(Exps), NEW c, Good(c), Room(es, c),
         NEW fs \in Seq(Exps), NEW d, Good(d),
         d.listedExps \cup IdsOf(fs) \subseteq c.listedExps \cup IdsOf(es),
         Cardinality(UnsavedOf(fs)) <= Cardinality(UnsavedOf(es))
  PROVE  Room(fs, d)
<1>1. /\ c.listedExps \cup IdsOf(es) \in SUBSET ExpIds
      /\ d.listedExps \cup IdsOf(fs) \in SUBSET (c.listedExps \cup IdsOf(es))
  BY GoodIds, ListMembers
<1>2. /\ IsFiniteSet(c.listedExps \cup IdsOf(es))
      /\ Cardinality(c.listedExps \cup IdsOf(es)) \in Nat
  BY <1>1, ExpIdsFinite
<1>3. /\ Cardinality(d.listedExps \cup IdsOf(fs)) <= Cardinality(c.listedExps \cup IdsOf(es))
      /\ Cardinality(d.listedExps \cup IdsOf(fs)) \in Nat
  BY <1>1, <1>2, FS_Subset, FS_CardinalityType
<1>4. Cardinality(UnsavedOf(fs)) \in Nat /\ Cardinality(UnsavedOf(es)) \in Nat
  BY ListMembers
<1> QED
  BY <1>2, <1>3, <1>4, MaxExpIdAssumption DEF Room

(* The empty list is in order beside any archive.                            *)
LEMMA EmptyListOK ==
  ASSUME NEW c, Good(c)
  PROVE  ListOK(<< >>, c)
<1>1. << >> \in Seq(Exps) /\ DOMAIN << >> = {}
  OBVIOUS
<1>2. UnsavedOf(<< >>) = {} /\ IdsOf(<< >>) = {}
  BY <1>1 DEF UnsavedOf, IdsOf
<1>3. Cardinality(c.listedExps) <= MaxExpId /\ Cardinality(c.listedExps) \in Nat
  BY GoodIds, ExpIdsFinite
<1>4. Cardinality({}) = 0 /\ c.listedExps \cup {} = c.listedExps
  BY FS_EmptySet
<1>5. Room(<< >>, c)
  <2>1. /\ Cardinality(c.listedExps \cup IdsOf(<< >>)) = Cardinality(c.listedExps)
        /\ Cardinality(UnsavedOf(<< >>)) = 0
    BY <1>2, <1>4
  <2>2. Cardinality(c.listedExps) + 0 <= MaxExpId
    BY <1>3, MaxExpIdAssumption
  <2> QED
    BY <2>1, <2>2 DEF Room
<1> QED
  BY <1>1, <1>5 DEF ListOK, DistinctIds, Stored

(* A list with n more members.                                               *)
LEMMA MoreBehind ==
  ASSUME NEW es \in Seq(Exps), NEW n \in Nat, NEW more \in [1 .. n -> Exps]
  PROVE  LET fs == es \o more IN
         /\ fs \in Seq(Exps) /\ DOMAIN fs = 1 .. Len(es) + n
         /\ \A k \in 1 .. Len(es) : fs[k] = es[k]
         /\ \A k \in 1 .. n : Len(es) + k \in DOMAIN fs /\ fs[Len(es) + k] = more[k]
         /\ \A k \in DOMAIN fs : k \in 1 .. Len(es) \/ \E j \in 1 .. n : k = Len(es) + j
<1> DEFINE fs == es \o more
<1>0. Len(es) \in Nat
  OBVIOUS
<1>1. more \in Seq(Exps) /\ Len(more) = n
  OBVIOUS
<1>2. fs \in Seq(Exps) /\ Len(fs) = Len(es) + n
  BY <1>1
<1>4. \A k \in 1 .. Len(es) : fs[k] = es[k]
  BY <1>0, <1>1
<1>5. \A k \in 1 .. n : fs[Len(es) + k] = more[k]
  BY <1>0, <1>1
<1> HIDE DEF fs
<1>3. DOMAIN fs = 1 .. Len(es) + n
  BY <1>2
<1>6. ASSUME NEW k \in DOMAIN fs, k \notin 1 .. Len(es)
      PROVE  \E j \in 1 .. n : k = Len(es) + j
  <2>1. k - Len(es) \in 1 .. n /\ k = Len(es) + (k - Len(es))
    BY <1>0, <1>3, <1>6
  <2> QED
    BY <2>1
<1>7. \A k \in 1 .. n : Len(es) + k \in DOMAIN fs
  BY <1>0, <1>3
<1> QED
  BY <1>2, <1>3, <1>4, <1>5, <1>6, <1>7 DEF fs

(* f lists S without repetition.                                             *)
Listing(f, n, S) ==
  /\ f \in [1 .. n -> S]
  /\ \A x \in S : \E k \in 1 .. n : f[k] = x
  /\ \A j, k \in 1 .. n : f[j] = f[k] => j = k

(* more are the n experiments of c that are not in es.                       *)
Missing(c, es, n, missing, more) ==
  /\ n \in Nat
  /\ Listing(missing, n, c.listedExps \ IdsOf(es))
  /\ more \in [1 .. n -> Exps]
  /\ \A k \in 1 .. n : more[k] =
       [id |-> missing[k], data |-> c.experiments[missing[k]], dirty |-> FALSE]

(* Experiments that are not in memory are put behind those that are.         *)
LEMMA LoadedListOK ==
  ASSUME NEW c, Good(c), NEW es, ListOK(es, c),
         NEW n, NEW missing, NEW more, Missing(c, es, n, missing, more)
  PROVE  /\ ListOK(es \o more, c)
         /\ \A x \in c.listedExps \ IdsOf(es) : \E k \in DOMAIN (es \o more) :
              (es \o more)[k] = [id |-> x, data |-> c.experiments[x], dirty |-> FALSE]
<1> DEFINE S == c.listedExps \ IdsOf(es)
           fs == es \o more
<1>m. /\ n \in Nat /\ Listing(missing, n, S) /\ more \in [1 .. n -> Exps]
      /\ \A k \in 1 .. n : more[k] =
           [id |-> missing[k], data |-> c.experiments[missing[k]], dirty |-> FALSE]
  BY DEF Missing
<1>s. \A x : x \in S <=> x \in c.listedExps /\ x \notin IdsOf(es)
  OBVIOUS
<1> HIDE DEF S
<1>0. es \in Seq(Exps) /\ Len(es) \in Nat /\ DOMAIN es = 1 .. Len(es)
  BY ListMembers DEF ListOK
<1>1. S \in SUBSET ExpIds /\ S \subseteq c.listedExps /\ Unsaved \notin S
  BY <1>s, GoodIds, ExpIdsFinite
<1>2. \A k \in 1 .. n : missing[k] \in S
  BY <1>m DEF Listing
<1>3. ASSUME NEW k \in 1 .. n
      PROVE  more[k].id = missing[k] /\ ~more[k].dirty
             /\ more[k].data = c.experiments[missing[k]]
             /\ more[k] = [id |-> missing[k], data |-> c.experiments[missing[k]], dirty |-> FALSE]
  BY <1>m
<1>5. /\ fs \in Seq(Exps) /\ DOMAIN fs = 1 .. Len(es) + n
      /\ \A k \in 1 .. Len(es) : fs[k] = es[k]
      /\ \A k \in 1 .. n : Len(es) + k \in DOMAIN fs /\ fs[Len(es) + k] = more[k]
      /\ \A k \in DOMAIN fs : k \in 1 .. Len(es) \/ \E j \in 1 .. n : k = Len(es) + j
  BY <1>0, <1>m, MoreBehind
<1> HIDE DEF fs
<1>6. ASSUME NEW k \in DOMAIN fs, k \notin DOMAIN es
      PROVE  \E j \in 1 .. n : /\ k = Len(es) + j
                               /\ fs[k].id = missing[j] /\ ~fs[k].dirty
                               /\ fs[k].data = c.experiments[missing[j]]
                               /\ missing[j] \in S
  <2>1. PICK j \in 1 .. n : k = Len(es) + j
    BY <1>0, <1>5, <1>6
  <2>2. fs[k] = more[j]
    BY <1>5, <2>1
  <2> QED
    BY <1>2, <1>3, <2>1, <2>2
<1>7. \A k \in DOMAIN es : k \in DOMAIN fs /\ fs[k] = es[k]
  BY <1>0, <1>5, <1>m
<1>8. DistinctIds(fs)
  <2> SUFFICES ASSUME NEW j \in DOMAIN fs, NEW k \in DOMAIN fs, j # k, fs[j].id = fs[k].id,
                      fs[j].id # Unsaved
               PROVE  FALSE
    BY DEF DistinctIds
  <2>1. CASE j \in DOMAIN es /\ k \in DOMAIN es
    BY <1>7, <2>1 DEF ListOK, DistinctIds
  <2>2. CASE j \notin DOMAIN es /\ k \notin DOMAIN es
    <3>1. PICK x \in 1 .. n : j = Len(es) + x /\ fs[j].id = missing[x]
      BY <1>6, <2>2
    <3>2. PICK y \in 1 .. n : k = Len(es) + y /\ fs[k].id = missing[y]
      BY <1>6, <2>2
    <3>3. x = y
      BY <1>m, <2>2, <3>1, <3>2 DEF Listing
    <3> QED
      BY <3>1, <3>2, <3>3
  <2>3. ASSUME NEW x \in DOMAIN es, NEW y \in DOMAIN fs \ DOMAIN es, fs[x].id = fs[y].id,
               fs[x].id # Unsaved
        PROVE  FALSE
    <3>1. es[x].id \in IdsOf(es) /\ fs[x] = es[x]
      BY <1>7, <2>3 DEF IdsOf
    <3>2. fs[y].id \in S
      BY <1>6
    <3> QED
      BY <1>s, <2>3, <3>1, <3>2
  <2> QED
    BY <2>1, <2>2, <2>3
<1>9. Room(fs, c)
  <2>1. UnsavedOf(fs) = UnsavedOf(es)
    <3>1. \A k \in DOMAIN fs \ DOMAIN es : fs[k].id # Unsaved
      BY <1>1, <1>6
    <3>2. \A k : k \in UnsavedOf(fs) <=> k \in UnsavedOf(es)
      BY <1>7, <3>1 DEF UnsavedOf
    <3> QED
      BY <3>2
  <2>2. IdsOf(fs) \subseteq c.listedExps \cup IdsOf(es)
    <3> SUFFICES ASSUME NEW k \in DOMAIN fs, fs[k].id # Unsaved
                 PROVE  fs[k].id \in c.listedExps \cup IdsOf(es)
      BY DEF IdsOf
    <3>1. CASE k \in DOMAIN es
      BY <1>7, <3>1 DEF IdsOf
    <3>2. CASE k \notin DOMAIN es
      BY <1>1, <1>6, <3>2
    <3> QED
      BY <3>1, <3>2
  <2>3. Cardinality(UnsavedOf(fs)) <= Cardinality(UnsavedOf(es))
    BY <1>0, <2>1, ListMembers
  <2> QED
    BY <1>0, <1>5, <2>2, <2>3, RoomShrinks DEF ListOK
<1>10. Stored(fs, c)
  <2> SUFFICES ASSUME NEW k \in DOMAIN fs, ~fs[k].dirty
               PROVE  /\ fs[k].id \in DOMAIN c.experiments
                      /\ c.experiments[fs[k].id] = fs[k].data
    BY DEF Stored
  <2>1. CASE k \in DOMAIN es
    BY <1>7, <2>1 DEF ListOK, Stored
  <2>2. CASE k \notin DOMAIN es
    BY <1>1, <1>6, <2>2, GoodIds
  <2> QED
    BY <2>1, <2>2
<1>11. ASSUME NEW x \in S
       PROVE  \E k \in DOMAIN fs : fs[k] = [id |-> x, data |-> c.experiments[x], dirty |-> FALSE]
  <2>1. PICK k \in 1 .. n : missing[k] = x
    BY <1>m DEF Listing
  <2>2. Len(es) + k \in DOMAIN fs /\ fs[Len(es) + k] = more[k]
    BY <1>5
  <2> QED
    BY <1>3, <2>1, <2>2
<1> QED
  BY <1>5, <1>8, <1>9, <1>10, <1>11 DEF ListOK, S, fs

(* The experiment at n is deleted.                                           *)
LEMMA RemovedList ==
  ASSUME NEW c, Good(c), NEW es, ListOK(es, c), NEW n \in DOMAIN es,
         NEW rs, rs = RemoveAt(es, n)
  PROVE  /\ rs \in Seq(Exps) /\ DistinctIds(rs) /\ IdsOf(rs) \subseteq IdsOf(es)
         /\ es[n].id # Unsaved => es[n].id \notin IdsOf(rs)
         /\ Cardinality(UnsavedOf(rs)) <= Cardinality(UnsavedOf(es))
         /\ ListOK(rs, c)
<1> DEFINE old(j) == IF j < n THEN j ELSE j + 1
<1>1. es \in Seq(Exps) /\ n \in 1 .. Len(es) /\ DOMAIN es = 1 .. Len(es) /\ Len(es) \in Nat
  BY ListMembers DEF ListOK
<1>2. /\ rs \in Seq(Exps) /\ Len(rs) = Len(es) - 1
      /\ \A j \in 1 .. Len(es) - 1 : rs[j] = IF j < n THEN es[j] ELSE es[j + 1]
  BY <1>1, RemoveAtElements
<1>3. DOMAIN rs = 1 .. Len(es) - 1
  BY <1>2
<1>4. \A j \in DOMAIN rs : old(j) \in DOMAIN es /\ old(j) # n /\ rs[j] = es[old(j)]
  BY <1>1, <1>2, <1>3
<1>5. \A j, k \in DOMAIN rs : old(j) = old(k) => j = k
  BY <1>1, <1>3
<1> HIDE DEF old
<1>6. DistinctIds(rs)
  BY <1>4, <1>5 DEF ListOK, DistinctIds
<1>7. IdsOf(rs) \subseteq IdsOf(es)
  BY <1>4 DEF IdsOf
<1>8. es[n].id # Unsaved => es[n].id \notin IdsOf(rs)
  BY <1>4 DEF ListOK, DistinctIds, IdsOf
<1>9. Cardinality(UnsavedOf(rs)) <= Cardinality(UnsavedOf(es))
  <2> DEFINE f == [j \in UnsavedOf(rs) |-> old(j)]
  <2>1. /\ \A j \in UnsavedOf(rs) : old(j) \in UnsavedOf(es)
        /\ \A j, k \in UnsavedOf(rs) : old(j) = old(k) => j = k
    BY <1>4, <1>5 DEF UnsavedOf
  <2>2. f \in Injection(UnsavedOf(rs), UnsavedOf(es))
    BY <2>1 DEF Injection, IsInjective
  <2>3. IsFiniteSet(UnsavedOf(es))
    BY <1>1, ListMembers
  <2> QED
    BY <2>2, <2>3, FS_Injection
<1>10. Room(rs, c)
  BY <1>1, <1>2, <1>7, <1>9, RoomShrinks DEF ListOK
<1>11. Stored(rs, c)
  BY <1>4 DEF ListOK, Stored
<1> QED
  BY <1>2, <1>6, <1>7, <1>8, <1>9, <1>10, <1>11 DEF ListOK

(* ... and goes from the archive.                                            *)
LEMMA DeletedListOK ==
  ASSUME NEW c, Good(c), NEW es, ListOK(es, c), NEW n \in DOMAIN es, es[n].id # Unsaved,
         NEW d, Good(d), d = ExperimentRemove(c, es[n].id)
  PROVE  ListOK(RemoveAt(es, n), d)
<1> DEFINE rs == RemoveAt(es, n)
           x == es[n].id
<1>1. /\ rs \in Seq(Exps) /\ DistinctIds(rs) /\ IdsOf(rs) \subseteq IdsOf(es)
      /\ x \notin IdsOf(rs)
      /\ Cardinality(UnsavedOf(rs)) <= Cardinality(UnsavedOf(es))
      /\ ListOK(rs, c)
  BY RemovedList
<1>2. d.listedExps = c.listedExps \ {x} /\ d.experiments = Drop(c.experiments, x)
  BY DEF ExperimentRemove, Good, Archives
<1> HIDE DEF rs, x
<1>3. Room(rs, d)
  BY <1>1, <1>2, RoomShrinks DEF ListOK
<1>4. Stored(rs, d)
  <2> SUFFICES ASSUME NEW k \in DOMAIN rs, ~rs[k].dirty
               PROVE  /\ rs[k].id \in DOMAIN d.experiments
                      /\ d.experiments[rs[k].id] = rs[k].data
    BY DEF Stored
  <2>1. /\ rs[k].id \in DOMAIN c.experiments
        /\ c.experiments[rs[k].id] = rs[k].data
    BY <1>1 DEF ListOK, Stored
  <2>2. rs[k].id # x
    BY <1>1, <2>1, GoodIds, ExpIdsFinite DEF IdsOf
  <2> QED
    BY <1>2, <2>1, <2>2 DEF Drop
<1> QED
  BY <1>1, <1>3, <1>4 DEF ListOK, rs

(* A new experiment, without an id.                                          *)
LEMMA AppendedListOK ==
  ASSUME NEW c, Good(c), NEW es, ListOK(es, c), NEW data \in Datas,
         Cardinality(c.listedExps \cup IdsOf(es)) + Cardinality(UnsavedOf(es)) < MaxExpId
  PROVE  ListOK(Append(es, [id |-> Unsaved, data |-> data, dirty |-> TRUE]), c)
<1> DEFINE e == [id |-> Unsaved, data |-> data, dirty |-> TRUE]
           fs == Append(es, e)
           l == Len(es) + 1
<1>0. es \in Seq(Exps) /\ DOMAIN es = 1 .. Len(es) /\ Len(es) \in Nat /\ e \in Exps
  BY ListMembers DEF ListOK, Exps
<1>1. e.id = Unsaved /\ e.dirty
  OBVIOUS
<1> HIDE DEF e
<1>2. fs \in Seq(Exps) /\ Len(fs) = l
  BY <1>0, AppendProperties
<1>3. \A n \in DOMAIN es : fs[n] = es[n]
  BY <1>0, AppendProperties
<1>4. fs[l] = e
  BY <1>0, AppendProperties
<1> HIDE DEF fs
<1>5. DOMAIN fs = 1 .. l
  BY <1>2
<1>6. DOMAIN fs = DOMAIN es \cup {l} /\ l \notin DOMAIN es
  BY <1>0, <1>5
<1> HIDE DEF l
<1>7. DistinctIds(fs)
  BY <1>1, <1>3, <1>4, <1>6 DEF ListOK, DistinctIds
<1>8. Stored(fs, c)
  BY <1>1, <1>3, <1>4, <1>6 DEF ListOK, Stored
<1>9. UnsavedOf(fs) = UnsavedOf(es) \cup {l}
  BY <1>1, <1>3, <1>4, <1>6 DEF UnsavedOf
<1>10. IdsOf(fs) = IdsOf(es)
  <2>1. \A x : x \in IdsOf(fs) <=> x \in IdsOf(es)
    BY <1>1, <1>3, <1>4, <1>6 DEF IdsOf
  <2> QED
    BY <2>1
<1>11. Cardinality(UnsavedOf(fs)) = Cardinality(UnsavedOf(es)) + 1
  <2>1. IsFiniteSet(UnsavedOf(es)) /\ l \notin UnsavedOf(es)
    BY <1>0, <1>6, ListMembers DEF UnsavedOf
  <2> QED
    BY <1>9, <2>1, FS_AddElement
<1>12. /\ Cardinality(c.listedExps \cup IdsOf(es)) \in Nat /\ Cardinality(UnsavedOf(es)) \in Nat
  BY <1>0, GoodIds, ListMembers, ExpIdsFinite
<1>13. Room(fs, c)
  BY <1>10, <1>11, <1>12, MaxExpIdAssumption DEF Room
<1> QED
  BY <1>2, <1>7, <1>8, <1>13 DEF ListOK, fs, e

(* One experiment is replaced by one with the same id.                       *)
LEMMA ReplacedIds ==
  ASSUME NEW es \in Seq(Exps), NEW n \in DOMAIN es, NEW e \in Exps, e.id = es[n].id,
         NEW fs, fs = [es EXCEPT ![n] = e]
  PROVE  /\ fs \in Seq(Exps) /\ DOMAIN fs = DOMAIN es
         /\ fs[n] = e /\ \A k \in DOMAIN es \ {n} : fs[k] = es[k]
         /\ IdsOf(fs) = IdsOf(es) /\ UnsavedOf(fs) = UnsavedOf(es)
         /\ DistinctIds(es) => DistinctIds(fs)
<1>1. /\ fs \in Seq(Exps) /\ DOMAIN fs = DOMAIN es /\ Len(fs) = Len(es)
      /\ fs[n] = e /\ \A k \in DOMAIN es \ {n} : fs[k] = es[k]
  BY ExceptSeq
<1>2. \A k \in DOMAIN es : fs[k].id = es[k].id
  BY <1>1
<1>3. \A x : x \in IdsOf(fs) <=> x \in IdsOf(es)
  BY <1>1, <1>2 DEF IdsOf
<1>4. UnsavedOf(fs) = UnsavedOf(es)
  BY <1>1, <1>2 DEF UnsavedOf
<1>5. DistinctIds(es) => DistinctIds(fs)
  BY <1>1, <1>2 DEF DistinctIds
<1> QED
  BY <1>1, <1>3, <1>4, <1>5

(* An experiment is changed.                                                 *)
LEMMA EditedListOK ==
  ASSUME NEW c, Good(c), NEW es, ListOK(es, c), NEW n \in DOMAIN es, NEW data \in Datas
  PROVE  ListOK([es EXCEPT ![n].data = data, ![n].dirty = TRUE], c)
<1> DEFINE e == [[es[n] EXCEPT !.data = data] EXCEPT !.dirty = TRUE]
           fs == [es EXCEPT ![n] = e]
<1>1. es \in Seq(Exps) /\ es[n] \in Exps
  BY ListMembers DEF ListOK
<1>2. e \in Exps /\ e.id = es[n].id /\ e.dirty
  BY <1>1 DEF Exps
<1>3. [es EXCEPT ![n].data = data, ![n].dirty = TRUE] = fs
  BY <1>1
<1> HIDE DEF e, fs
<1>4. /\ fs \in Seq(Exps) /\ DOMAIN fs = DOMAIN es
      /\ fs[n] = e /\ \A k \in DOMAIN es \ {n} : fs[k] = es[k]
      /\ IdsOf(fs) = IdsOf(es) /\ UnsavedOf(fs) = UnsavedOf(es)
      /\ DistinctIds(fs)
  BY <1>1, <1>2, ReplacedIds DEF ListOK, fs
<1>5. Room(fs, c)
  BY <1>4 DEF ListOK, Room
<1>6. Stored(fs, c)
  BY <1>2, <1>4 DEF ListOK, Stored
<1> QED
  BY <1>3, <1>4, <1>5, <1>6 DEF ListOK

(* An experiment is written, with its id.                                    *)
LEMMA WrittenListOK ==
  ASSUME NEW c, Good(c), NEW es, ListOK(es, c), NEW n \in DOMAIN es, es[n].id # Unsaved,
         NEW d, Good(d), d = ExperimentWrite(c, es[n].id, es[n].data)
  PROVE  ListOK([es EXCEPT ![n].dirty = FALSE], d)
<1> DEFINE e == [es[n] EXCEPT !.dirty = FALSE]
           fs == [es EXCEPT ![n] = e]
<1>1. es \in Seq(Exps) /\ es[n] \in Exps
  BY ListMembers DEF ListOK
<1>2. e \in Exps /\ e.id = es[n].id /\ e.data = es[n].data
  BY <1>1 DEF Exps
<1>3. [es EXCEPT ![n].dirty = FALSE] = fs
  BY <1>1
<1> HIDE DEF e, fs
<1>4. /\ fs \in Seq(Exps) /\ DOMAIN fs = DOMAIN es
      /\ fs[n] = e /\ \A k \in DOMAIN es \ {n} : fs[k] = es[k]
      /\ IdsOf(fs) = IdsOf(es) /\ UnsavedOf(fs) = UnsavedOf(es)
      /\ DistinctIds(fs)
  BY <1>1, <1>2, ReplacedIds DEF ListOK, fs
<1>5. /\ d.listedExps = c.listedExps \cup {es[n].id}
      /\ d.experiments = Put(c.experiments, es[n].id, es[n].data)
  BY DEF ExperimentWrite, Good, Archives
<1>6. Room(fs, d)
  <2>1. es[n].id \in IdsOf(es)
    BY DEF IdsOf
  <2>2. d.listedExps \cup IdsOf(fs) = c.listedExps \cup IdsOf(es)
    BY <1>4, <1>5, <2>1
  <2> QED
    BY <1>4, <2>2 DEF ListOK, Room
<1>7. Stored(fs, d)
  <2> SUFFICES ASSUME NEW k \in DOMAIN fs, ~fs[k].dirty
               PROVE  /\ fs[k].id \in DOMAIN d.experiments
                      /\ d.experiments[fs[k].id] = fs[k].data
    BY DEF Stored
  <2>1. CASE k = n
    BY <1>2, <1>4, <1>5, <2>1 DEF Put
  <2>2. CASE k # n
    <3>1. es[k].id \in DOMAIN c.experiments /\ c.experiments[es[k].id] = es[k].data /\ fs[k] = es[k]
      BY <1>4, <2>2 DEF ListOK, Stored
    <3>2. es[k].id # es[n].id
      BY <1>4, <2>2 DEF ListOK, DistinctIds
    <3> QED
      BY <1>5, <3>1, <3>2 DEF Put
  <2> QED
    BY <2>1, <2>2
<1> QED
  BY <1>3, <1>4, <1>6, <1>7 DEF ListOK

(* An experiment gets an id that is free.                                    *)
LEMMA NumberedListOK ==
  ASSUME NEW c, Good(c), NEW es, ListOK(es, c), NEW n \in DOMAIN es, es[n].id = Unsaved,
         NEW id, id = FreeId(c.listedExps \cup IdsOf(es))
  PROVE  /\ id \in ExpIds
         /\ ListOK([es EXCEPT ![n].id = id], c)
<1> DEFINE e == [es[n] EXCEPT !.id = id]
           fs == [es EXCEPT ![n] = e]
           taken == c.listedExps \cup IdsOf(es)
<1>1. es \in Seq(Exps) /\ es[n] \in Exps
  BY ListMembers DEF ListOK
<1>2. /\ taken \in SUBSET ExpIds /\ Cardinality(taken) \in Nat /\ IsFiniteSet(taken)
      /\ IsFiniteSet(UnsavedOf(es)) /\ Cardinality(UnsavedOf(es)) \in Nat
  BY <1>1, GoodIds, ListMembers, ExpIdsFinite
<1>3. n \in UnsavedOf(es)
  BY DEF UnsavedOf
<1>4. /\ IsFiniteSet(UnsavedOf(es) \ {n})
      /\ Cardinality(UnsavedOf(es) \ {n}) = Cardinality(UnsavedOf(es)) - 1
      /\ Cardinality(UnsavedOf(es) \ {n}) \in Nat
  BY <1>2, <1>3, FS_RemoveElement, FS_CardinalityType
<1>5. Cardinality(taken) + Cardinality(UnsavedOf(es)) <= MaxExpId
  BY DEF ListOK, Room
<1>6. Cardinality(taken) < MaxExpId
  BY <1>2, <1>4, <1>5, MaxExpIdAssumption
<1>7. id \in ExpIds \ taken /\ id # Unsaved
  BY <1>2, <1>6, FreeIdIsFree, ExpIdsFinite
<1>8. e \in Exps /\ e.id = id /\ e.dirty = es[n].dirty
  BY <1>1, <1>7 DEF Exps
<1>9. [es EXCEPT ![n].id = id] = fs
  BY <1>1
<1> HIDE DEF e, fs
<1>10. /\ fs \in Seq(Exps) /\ DOMAIN fs = DOMAIN es
       /\ fs[n] = e /\ \A k \in DOMAIN es \ {n} : fs[k] = es[k]
  BY <1>1, <1>8, ExceptSeq DEF fs
<1>11. IdsOf(fs) \subseteq IdsOf(es) \cup {id}
  BY <1>8, <1>10 DEF IdsOf
<1>12. UnsavedOf(fs) = UnsavedOf(es) \ {n}
  BY <1>7, <1>8, <1>10 DEF UnsavedOf
<1>13. DistinctIds(fs)
  <2>1. \A k \in DOMAIN es : es[k].id # id
    BY <1>7 DEF IdsOf
  <2>2. \A k \in DOMAIN fs \ {n} : fs[k].id = es[k].id /\ fs[k].id # id
    BY <1>10, <2>1
  <2>3. fs[n].id = id
    BY <1>8, <1>10
  <2> QED
    BY <1>10, <2>2, <2>3 DEF ListOK, DistinctIds
<1>14. Room(fs, c)
  <2>1. Cardinality(taken \cup {id}) = Cardinality(taken) + 1 /\ IsFiniteSet(taken \cup {id})
    BY <1>2, <1>7, FS_AddElement
  <2> DEFINE now == c.listedExps \cup IdsOf(fs)
  <2>2. now \in SUBSET (taken \cup {id})
    BY <1>11
  <2> HIDE DEF now
  <2>3. Cardinality(now) <= Cardinality(taken) + 1 /\ Cardinality(now) \in Nat
    BY <2>1, <2>2, FS_Subset, FS_CardinalityType
  <2> USE DEF now
  <2> QED
    BY <1>2, <1>4, <1>5, <1>12, <2>3, MaxExpIdAssumption DEF Room
<1>15. Stored(fs, c)
  <2>1. es[n].dirty
    BY GoodIds, ExpIdsFinite DEF ListOK, Stored
  <2> QED
    BY <1>8, <1>10, <2>1 DEF ListOK, Stored
<1> QED
  BY <1>7, <1>9, <1>10, <1>13, <1>14, <1>15 DEF ListOK

(* The archive changed, but not its experiments.                             *)
LEMMA SameListOK ==
  ASSUME NEW c, NEW es, ListOK(es, c),
         NEW d, d.listedExps = c.listedExps, d.experiments = c.experiments
  PROVE  ListOK(es, d)
  BY DEF ListOK, Room, Stored

-----------------------------------------------------------------------------
(* The archive's type                                                        *)

(* A store operation makes an archive of an archive.                         *)
LEMMA AppliedType ==
  ASSUME NEW o \in Operations, NEW c, c \in Archives \/ o.kind = "create"
  PROVE  Applied(o, c) \in Archives
<1>1. CASE o.kind = "create"
  <2>1. Empty \in Archives
    <3>1. \A T : [x \in {} |-> OwnName] \in [{} -> T]
      OBVIOUS
    <3>2. \A S, T : [x \in {} |-> OwnName] \in Some(S, T)
      BY <3>1, SomeIs
    <3> QED
      BY <3>2 DEF Empty, Archives
  <2> QED
    BY <1>1, <2>1 DEF Applied
<1>2. CASE o \in [kind : {"addSource", "saveSource"}, id : Sources, data : Datas]
  <2>1. /\ c \in Archives /\ c.groups \in Some(Sources, Groups) /\ c.sources \in Some(Sources, Names)
        /\ o.id \in Sources /\ o.data \in Datas
    BY <1>2 DEF Archives
  <2>2. CASE o.kind = "addSource"
    <3>1. [data |-> o.data, name |-> OwnName] \in Groups
      BY <2>1, OwnNameAssumption DEF Groups
    <3>2. Put(c.groups, o.id, [data |-> o.data, name |-> OwnName]) \in Some(Sources, Groups)
      BY <2>1, <3>1, PutType
    <3>3. Put(c.sources, o.id, OwnName) \in Some(Sources, Names)
      BY <2>1, OwnNameAssumption, PutType
    <3>4. AddSource(c, o.id, o.data) \in Archives
      BY <2>1, <3>2, <3>3 DEF AddSource, Archives
    <3> QED
      BY <2>2, <3>4 DEF Applied
  <2>3. CASE o.kind = "saveSource"
    <3> DEFINE name == IF o.id \in DOMAIN c.sources THEN c.sources[o.id] ELSE OwnName
    <3>1. name \in Names
      BY <2>1, SomeIs, OwnNameAssumption
    <3> HIDE DEF name
    <3>2. [data |-> o.data, name |-> name] \in Groups
      BY <2>1, <3>1 DEF Groups
    <3>3. Put(c.groups, o.id, [data |-> o.data, name |-> name]) \in Some(Sources, Groups)
      BY <2>1, <3>2, PutType
    <3>4. SaveSource(c, o.id, o.data) = [c EXCEPT !.groups = Put(@, o.id, [data |-> o.data, name |-> name])]
      BY DEF SaveSource, name
    <3>5. SaveSource(c, o.id, o.data) \in Archives
      BY <2>1, <3>3, <3>4 DEF Archives
    <3> QED
      BY <2>3, <3>5 DEF Applied
  <2> QED
    BY <1>2, <2>2, <2>3
<1>3. CASE o \in [kind : {"removeSource"}, id : Sources]
  <2>1. c \in Archives /\ c.groups \in Some(Sources, Groups) /\ c.sources \in Some(Sources, Names)
    BY <1>3 DEF Archives
  <2>2. Drop(c.groups, o.id) \in Some(Sources, Groups) /\ Drop(c.sources, o.id) \in Some(Sources, Names)
    BY <2>1, DropType
  <2>3. RemoveSource(c, o.id) \in Archives
    BY <2>1, <2>2 DEF RemoveSource, Archives
  <2> QED
    BY <1>3, <2>3 DEF Applied
<1>4. CASE o \in [kind : {"renameSource"}, id : Sources, name : Names]
  <2>1. /\ c \in Archives /\ c.groups \in Some(Sources, Groups) /\ c.sources \in Some(Sources, Names)
        /\ o.name \in Names
    BY <1>4 DEF Archives
  <2> DEFINE g == [c.groups[o.id] EXCEPT !.name = o.name]
             gs == IF o.id \in DOMAIN c.groups THEN [c.groups EXCEPT ![o.id] = g] ELSE c.groups
             ss == [c.sources EXCEPT ![o.id] = o.name]
  <2>a. o.id \in DOMAIN c.groups => c.groups[o.id] \in Groups
    BY <2>1, SomeIs
  <2>2. o.id \in DOMAIN c.groups => g \in Groups
    BY <2>1, <2>a DEF Groups
  <2> HIDE DEF g
  <2>3. gs \in Some(Sources, Groups)
    BY <2>1, <2>2, ChangeType
  <2>4. ss \in Some(Sources, Names)
    BY <2>1, ChangeType
  <2>5. RenameSource(c, o.id, o.name) = [c EXCEPT !.sources = ss, !.groups = gs]
    BY <2>1 DEF RenameSource, Archives, g
  <2> HIDE DEF gs, ss
  <2>6. RenameSource(c, o.id, o.name) \in Archives
    BY <2>1, <2>3, <2>4, <2>5 DEF Archives
  <2> QED
    BY <1>4, <2>6 DEF Applied
<1>5. CASE o \in [kind : {"saveTabOrder"}, order : SUBSET Sources]
  <2>1. c \in Archives /\ o.order \in SUBSET Sources
    BY <1>5
  <2>2. SaveTabOrder(c, o.order) \in Archives
    BY <2>1 DEF SaveTabOrder, Archives
  <2> QED
    BY <1>5, <2>2 DEF Applied
<1>6. CASE o \in [kind : {"experimentWrite"}, id : ExpIds, data : Datas]
  <2>1. c \in Archives /\ c.experiments \in Some(ExpIds, Datas) /\ o.id \in ExpIds /\ o.data \in Datas
    BY <1>6 DEF Archives
  <2>2. Put(c.experiments, o.id, o.data) \in Some(ExpIds, Datas)
    BY <2>1, PutType
  <2>3. ExperimentWrite(c, o.id, o.data) \in Archives
    BY <2>1, <2>2 DEF ExperimentWrite, Archives
  <2> QED
    BY <1>6, <2>3 DEF Applied
<1>7. CASE o \in [kind : {"experimentRemove"}, id : ExpIds]
  <2>1. c \in Archives /\ c.experiments \in Some(ExpIds, Datas)
    BY <1>7 DEF Archives
  <2>2. Drop(c.experiments, o.id) \in Some(ExpIds, Datas)
    BY <2>1, DropType
  <2>3. ExperimentRemove(c, o.id) \in Archives
    BY <2>1, <2>2 DEF ExperimentRemove, Archives
  <2> QED
    BY <1>7, <2>3 DEF Applied
<1>8. CASE o \in [kind : {"recipeWrite", "recipeRemove"}, name : Recipes]
  <2>1. c \in Archives /\ o.name \in Recipes
    BY <1>8
  <2>2. RecipeWrite(c, o.name) \in Archives /\ RecipeRemove(c, o.name) \in Archives
    BY <2>1 DEF RecipeWrite, RecipeRemove, Archives
  <2> QED
    BY <1>8, <2>2 DEF Applied
<1> QED
  BY <1>1, <1>2, <1>3, <1>4, <1>5, <1>6, <1>7, <1>8 DEF Operations

-----------------------------------------------------------------------------
(* The memory's type                                                         *)

TabStates == [data : Datas, dirty : BOOLEAN]

(* Memories, without the bound on the list of experiments.                   *)
Memory ==
  [ showWelcomeScreen  : BOOLEAN,
    multiWorkspaceOpen : BOOLEAN,
    sources     : Some(Sources, Names),
    sourceCache : Some(Sources, Datas),
    recipes     : SUBSET Recipes,
    sessions    : Some(Sources, TabStates),
    tabStripOrder : SUBSET Sources,
    openTabIds    : SUBSET Sources,
    experiments   : Seq(Exps) ]

(* n is a memory with the experiments of m.                                  *)
KeepsList(m, n) ==
  /\ n \in Memory
  /\ n.experiments = m.experiments
  /\ n.showWelcomeScreen = m.showWelcomeScreen

(* The fields of a memory and their types.                                   *)
LEMMA MemoryFields ==
  ASSUME NEW m \in Memory
  PROVE  /\ DOMAIN m = MemFields
         /\ m.showWelcomeScreen \in BOOLEAN /\ m.multiWorkspaceOpen \in BOOLEAN
         /\ m.sources \in Some(Sources, Names) /\ m.sourceCache \in Some(Sources, Datas)
         /\ m.sessions \in Some(Sources, TabStates) /\ m.recipes \in SUBSET Recipes
         /\ m.tabStripOrder \in SUBSET Sources /\ m.openTabIds \in SUBSET Sources
         /\ m.experiments \in Seq(Exps)
  BY DEF Memory, MemFields

(* One part of the memory changes, the experiments stay.                     *)
LEMMA SessionsChange ==
  ASSUME NEW m \in Memory, NEW v \in Some(Sources, TabStates)
  PROVE  KeepsList(m, [m EXCEPT !.sessions = v])
  BY DEF Memory, KeepsList

LEMMA CacheChange ==
  ASSUME NEW m \in Memory, NEW v \in Some(Sources, Datas)
  PROVE  KeepsList(m, [m EXCEPT !.sourceCache = v])
  BY DEF Memory, KeepsList

LEMMA SourcesChange ==
  ASSUME NEW m \in Memory, NEW v \in Some(Sources, Names)
  PROVE  KeepsList(m, [m EXCEPT !.sources = v])
  BY DEF Memory, KeepsList

(* The experiments change, the rest stays.                                   *)
LEMMA ListChange ==
  ASSUME NEW m \in Memory, NEW es \in Seq(Exps)
  PROVE  LET n == [m EXCEPT !.experiments = es] IN
         /\ n \in Memory /\ n.experiments = es /\ n.showWelcomeScreen = m.showWelcomeScreen
         /\ n.sessions = m.sessions
  BY DEF Memory

(* The fields of an archive and their types.                                 *)
LEMMA ArchiveTypes ==
  ASSUME NEW c, Good(c)
  PROVE  /\ c.sources \in Some(Sources, Names) /\ c.groups \in Some(Sources, Groups)
         /\ c.recipes \in SUBSET Recipes /\ c.tabOrder \in SUBSET Sources
         /\ DOMAIN c.groups \subseteq Sources
         /\ \A id \in DOMAIN c.groups : c.groups[id].data \in Datas
<1>1. /\ c.sources \in Some(Sources, Names) /\ c.groups \in Some(Sources, Groups)
      /\ c.recipes \in SUBSET Recipes /\ c.tabOrder \in SUBSET Sources
  BY DEF Good, Archives
<1>2. DOMAIN c.groups \subseteq Sources /\ \A id \in DOMAIN c.groups : c.groups[id] \in Groups
  BY <1>1, SomeIs
<1> QED
  BY <1>1, <1>2 DEF Groups

(* What opens or refreshes parts of a project leaves the experiments.        *)
LEMMA ProjectOpsKeepList ==
  ASSUME NEW m \in Memory, NEW c, Good(c)
  PROVE  /\ KeepsList(m, LoadInto(m, c))
         /\ KeepsList(m, RefreshBatchRecipes(m, c))
         /\ \A ids : KeepsList(m, OpenTabs(m, c, ids))
         /\ KeepsList(m, CaptureStrip(m))
         /\ \A id : KeepsList(m, RemoveTab(m, id))
<1>1. KeepsList(m, LoadInto(m, c))
  BY ArchiveTypes, NothingType DEF LoadInto, Memory, KeepsList
<1>2. KeepsList(m, RefreshBatchRecipes(m, c))
  BY ArchiveTypes DEF RefreshBatchRecipes, Memory, KeepsList
<1>3. ASSUME NEW ids PROVE KeepsList(m, OpenTabs(m, c, ids))
  <2> DEFINE v == [id \in DOMAIN m.sessions \cup (ids \cap DOMAIN c.groups) |->
                     IF id \in DOMAIN m.sessions THEN m.sessions[id] ELSE Loaded(c, id)]
  <2>1. m.sessions \in [DOMAIN m.sessions -> TabStates] /\ DOMAIN m.sessions \subseteq Sources
    BY MemoryFields, SomeIs
  <2>2. \A id \in DOMAIN c.groups : Loaded(c, id) \in TabStates
    BY ArchiveTypes DEF Loaded, TabStates
  <2>3. /\ DOMAIN v = DOMAIN m.sessions \cup (ids \cap DOMAIN c.groups)
        /\ v \in [DOMAIN m.sessions \cup (ids \cap DOMAIN c.groups) -> TabStates]
    BY <2>1, <2>2
  <2>4. OpenTabs(m, c, ids) = [m EXCEPT !.sessions = v]
    BY MemoryFields DEF OpenTabs, MemFields
  <2> HIDE DEF v
  <2>5. v \in Some(Sources, TabStates)
    BY <2>1, <2>3, ArchiveTypes, SomeIs
  <2> QED
    BY <2>4, <2>5, SessionsChange
<1>4. KeepsList(m, CaptureStrip(m))
  <2>1. DOMAIN m.sessions \in SUBSET Sources
    BY MemoryFields, SomeIs
  <2>2. KeepsList(m, [m EXCEPT !.tabStripOrder = DOMAIN m.sessions])
    BY <2>1 DEF Memory, KeepsList
  <2> QED
    BY <2>2 DEF CaptureStrip, KeepsList
<1>5. ASSUME NEW id PROVE KeepsList(m, RemoveTab(m, id))
  <2>1. /\ Drop(m.sessions, id) \in Some(Sources, TabStates)
        /\ Drop(m.sourceCache, id) \in Some(Sources, Datas)
    BY MemoryFields, DropType
  <2> QED
    BY <2>1 DEF RemoveTab, Memory, KeepsList
<1> QED
  BY <1>1, <1>2, <1>3, <1>4, <1>5

(* So does what happens to one dataset.                                      *)
LEMMA TabOpsKeepList ==
  ASSUME NEW m \in Memory, NEW id
  PROVE  /\ id \in DOMAIN m.sessions => KeepsList(m, TabSaved(m, id))
         /\ \A d \in Datas : id \in DOMAIN m.sessions =>
              KeepsList(m, [m EXCEPT !.sessions[id] = [data |-> d, dirty |-> TRUE]])
         /\ \A d \in Datas : id \in Sources => KeepsList(m, BatchDone(m, id, d))
         /\ \A v \in Names : KeepsList(m, [m EXCEPT !.sources[id] = v])
<1>0. /\ m.sessions \in Some(Sources, TabStates) /\ m.sourceCache \in Some(Sources, Datas)
      /\ m.sources \in Some(Sources, Names)
  BY MemoryFields
<1>1. ASSUME id \in DOMAIN m.sessions PROVE KeepsList(m, TabSaved(m, id))
  <2> DEFINE t == [m.sessions[id] EXCEPT !.dirty = FALSE]
             v == [m.sessions EXCEPT ![id] = t]
  <2>1. m.sessions[id] \in TabStates
    BY <1>0, <1>1, SomeIs
  <2>2. t \in TabStates
    BY <2>1 DEF TabStates
  <2> HIDE DEF t
  <2>3. v \in Some(Sources, TabStates)
    BY <1>0, <2>2, ChangeType
  <2>4. TabSaved(m, id) = [m EXCEPT !.sessions = v, !.sourceCache = Nothing]
    BY MemoryFields DEF TabSaved, MemFields, t
  <2> HIDE DEF v
  <2>5. Nothing \in Some(Sources, Datas)
    BY NothingType
  <2> QED
    BY <2>3, <2>4, <2>5 DEF Memory, KeepsList
<1>2. ASSUME NEW d \in Datas, id \in DOMAIN m.sessions
      PROVE  KeepsList(m, [m EXCEPT !.sessions[id] = [data |-> d, dirty |-> TRUE]])
  <2> DEFINE t == [data |-> d, dirty |-> TRUE]
             v == [m.sessions EXCEPT ![id] = t]
  <2>1. t \in TabStates
    BY DEF TabStates
  <2>2. [m EXCEPT !.sessions[id] = t] = [m EXCEPT !.sessions = v]
    BY MemoryFields DEF MemFields
  <2> HIDE DEF t
  <2>3. v \in Some(Sources, TabStates)
    BY <1>0, <2>1, ChangeType
  <2> HIDE DEF v
  <2>4. KeepsList(m, [m EXCEPT !.sessions[id] = t])
    BY <2>2, <2>3, SessionsChange
  <2> QED
    BY <2>4 DEF t
<1>3. ASSUME NEW d \in Datas, id \in Sources PROVE KeepsList(m, BatchDone(m, id, d))
  <2> DEFINE t == [data |-> d, dirty |-> FALSE]
             v == IF id \in DOMAIN m.sessions THEN [m.sessions EXCEPT ![id] = t] ELSE m.sessions
             w == Put(m.sourceCache, id, d)
  <2>1. t \in TabStates
    BY DEF TabStates
  <2>2. BatchDone(m, id, d) = [m EXCEPT !.sessions = v, !.sourceCache = w]
    BY MemoryFields DEF BatchDone, MemFields
  <2> HIDE DEF t
  <2>3. v \in Some(Sources, TabStates)
    BY <1>0, <2>1, ChangeType
  <2>4. w \in Some(Sources, Datas)
    BY <1>0, <1>3, PutType
  <2> HIDE DEF v, w
  <2> QED
    BY <2>2, <2>3, <2>4 DEF Memory, KeepsList
<1>4. ASSUME NEW x \in Names PROVE KeepsList(m, [m EXCEPT !.sources[id] = x])
  <2> DEFINE v == [m.sources EXCEPT ![id] = x]
  <2>1. v \in Some(Sources, Names)
    BY <1>0, ChangeType
  <2>2. [m EXCEPT !.sources[id] = x] = [m EXCEPT !.sources = v]
    BY MemoryFields DEF MemFields
  <2> HIDE DEF v
  <2> QED
    BY <2>1, <2>2, SourcesChange
<1> QED
  BY <1>1, <1>2, <1>3, <1>4

-----------------------------------------------------------------------------
(* Memory and archive                                                        *)

(* The experiments of m, beside the archive c.                               *)
Lists(m, c) ==
  /\ m \in Memory
  /\ m.showWelcomeScreen => m.experiments = << >>
  /\ IF c = NoFile THEN m.experiments = << >> ELSE Good(c) /\ ListOK(m.experiments, c)

(* The experiments stay in order when only other parts change.               *)
LEMMA KeptLists ==
  ASSUME NEW m, NEW n, KeepsList(m, n), NEW c, Lists(m, c)
  PROVE  Lists(n, c) /\ Lists([n EXCEPT !.showWelcomeScreen = FALSE], c)
<1>1. Lists(n, c)
  BY DEF Lists, KeepsList
<1> DEFINE s == [n EXCEPT !.showWelcomeScreen = FALSE]
<1>2. s \in Memory /\ s.experiments = n.experiments /\ ~s.showWelcomeScreen
  BY DEF KeepsList, Memory
<1> HIDE DEF s
<1>3. Lists(s, c)
  BY <1>1, <1>2 DEF Lists
<1> QED
  BY <1>1, <1>3 DEF s

(* ... and the archive changed elsewhere.                                    *)
LEMMA KeptListsAgain ==
  ASSUME NEW m, NEW n, KeepsList(m, n), NEW c, Lists(m, c), c # NoFile,
         NEW d, Good(d), d # NoFile, d.listedExps = c.listedExps, d.experiments = c.experiments
  PROVE  Lists(n, d)
<1>1. ListOK(n.experiments, d)
  BY SameListOK DEF Lists, KeepsList
<1> QED
  BY <1>1 DEF Lists, KeepsList

(* The stored experiments are read.                                          *)
LEMMA LoadedLists ==
  ASSUME NEW m \in Memory, NEW c, Good(c), ListOK(m.experiments, c),
         NEW n, n = LoadExperiments(m, c)
  PROVE  /\ n \in Memory /\ n.sessions = m.sessions /\ n.openTabIds = m.openTabIds
         /\ n.showWelcomeScreen = m.showWelcomeScreen
         /\ ListOK(n.experiments, c)
         /\ \A x \in c.listedExps \ IdsInMemory(m) : \E k \in DOMAIN n.experiments :
              n.experiments[k] = [id |-> x, data |-> c.experiments[x], dirty |-> FALSE]
<1> DEFINE es == m.experiments
           S == c.listedExps \ IdsOf(es)
           missing == InOrder(S)
           l == Len(missing)
           more == [k \in DOMAIN missing |->
                     [id |-> missing[k], data |-> c.experiments[missing[k]], dirty |-> FALSE]]
           fs == es \o more
<1>1. IdsInMemory(m) = IdsOf(es)
  BY DEF IdsInMemory, IdsOf
<1>2. n = [m EXCEPT !.experiments = fs]
  BY <1>1, MemoryFields DEF LoadExperiments, MemFields
<1>3. S \in SUBSET ExpIds /\ S \subseteq c.listedExps /\ S \subseteq Nat /\ IsFiniteSet(S)
  BY GoodIds, ExpIdsFinite
<1> HIDE DEF S
<1>4. /\ missing \in Seq(S)
      /\ \A x \in S : \E k \in 1 .. l : missing[k] = x
      /\ \A j, k \in 1 .. l : missing[j] = missing[k] => j = k
  BY <1>3, InOrderLists
<1> HIDE DEF missing
<1>5. l \in Nat /\ DOMAIN missing = 1 .. l /\ missing \in [1 .. l -> S]
  BY <1>4, LenProperties
<1>6. Listing(missing, l, S)
  BY <1>4, <1>5 DEF Listing
<1> HIDE DEF l
<1>7. ASSUME NEW k \in 1 .. l
      PROVE  [id |-> missing[k], data |-> c.experiments[missing[k]], dirty |-> FALSE] \in Exps
  <2>1. missing[k] \in S
    BY <1>5
  <2> QED
    BY <1>3, <2>1, GoodIds DEF Exps
<1>8. /\ more \in [1 .. l -> Exps]
      /\ \A k \in 1 .. l : more[k] =
           [id |-> missing[k], data |-> c.experiments[missing[k]], dirty |-> FALSE]
  BY <1>5, <1>7
<1> HIDE DEF more
<1>9. /\ ListOK(fs, c)
      /\ \A x \in S : \E k \in DOMAIN fs :
           fs[k] = [id |-> x, data |-> c.experiments[x], dirty |-> FALSE]
  <2>1. Missing(c, es, l, missing, more)
    BY <1>5, <1>6, <1>8 DEF Missing, S
  <2> QED
    BY <2>1, LoadedListOK DEF S
<1> HIDE DEF fs
<1>10. fs \in Seq(Exps)
  BY <1>9 DEF ListOK
<1>11. /\ n \in Memory /\ n.experiments = fs /\ n.sessions = m.sessions
       /\ n.openTabIds = m.openTabIds /\ n.showWelcomeScreen = m.showWelcomeScreen
  BY <1>2, <1>10 DEF Memory
<1> QED
  BY <1>1, <1>9, <1>11 DEF S

(* A project is opened.                                                      *)
LEMMA OpenedLists ==
  ASSUME NEW m \in Memory, NEW c, Good(c), c # NoFile
  PROVE  /\ Lists(Shown(OpenProject(m, c)), c)
         /\ \A ids : Lists(Shown(OpenTabs(OpenProject(m, c), c, ids)), c)
<1> DEFINE l == LoadInto(m, c)
           e == ClearExperiments(l)
           x == LoadExperiments(e, c)
           r == RestoreOpenEmbeddedTabs(x, c)
           p == RefreshBatchRecipes(r, c)
<1>1. l \in Memory
  BY ProjectOpsKeepList DEF KeepsList
<1>2. e \in Memory /\ e.experiments = << >>
  <2>1. << >> \in Seq(Exps)
    OBVIOUS
  <2> QED
    BY <1>1, <2>1 DEF ClearExperiments, Memory
<1> HIDE DEF l, e
<1>3. x \in Memory /\ ListOK(x.experiments, c)
  BY <1>2, EmptyListOK, LoadedLists
<1> HIDE DEF x
<1>4. KeepsList(x, r)
  BY <1>3, ProjectOpsKeepList DEF RestoreOpenEmbeddedTabs
<1> HIDE DEF r
<1>5. KeepsList(r, p)
  BY <1>4, ProjectOpsKeepList DEF KeepsList
<1> HIDE DEF p
<1>6. p \in Memory /\ ListOK(p.experiments, c)
  BY <1>3, <1>4, <1>5 DEF KeepsList
<1>7. p = OpenProject(m, c)
  BY DEF OpenProject, p, r, x, e, l
<1>8. ASSUME NEW q, KeepsList(p, q) PROVE Lists(Shown(q), c)
  <2>1. Shown(q) \in Memory /\ Shown(q).experiments = q.experiments /\ ~Shown(q).showWelcomeScreen
    BY <1>8 DEF Shown, KeepsList, Memory
  <2> QED
    BY <1>6, <1>8, <2>1 DEF KeepsList, Lists
<1>9. KeepsList(p, p)
  BY <1>6 DEF KeepsList
<1>10. \A ids : KeepsList(p, OpenTabs(p, c, ids))
  BY <1>6, ProjectOpsKeepList
<1> QED
  BY <1>7, <1>8, <1>9, <1>10

-----------------------------------------------------------------------------
(* What a call makes of memory and archive                                   *)

(* What the user may have asked for, in full.                                *)
Asked(i, m) ==
  /\ i.what \in {"add", "addFirst", "remove", "rename", "batch"} => i.of \in Sources
  /\ i.what \in {"add", "addFirst", "batch"} => i.data \in Datas
  /\ i.what = "rename" => i.data \in Names
  /\ i.what \in {"recipe", "unrecipe"} => i.of \in Recipes
  /\ i.what \in {"experiment", "delete"} => i.of \in DOMAIN m.experiments
  /\ i.what = "delete" => m.experiments[i.of].id # Unsaved

(* The experiment that is about to be written has its id.                    *)
Numbered(i, m) == i.what = "experiment" => m.experiments[i.of].id # Unsaved

(* A planned call requests a store operation of the right type.              *)
LEMMA RequestedType ==
  ASSUME NEW m \in Memory, NEW i, Planned(i, m), Asked(i, m), Numbered(i, m)
  PROVE  Requested(i, m) \in Operations
<1>1. CASE i.what \in {"createEmpty", "createFirst"}
  BY <1>1 DEF Requested, Operations
<1>2. CASE i.what \in {"add", "addFirst"}
  BY <1>2 DEF Requested, Operations, Asked
<1>3. CASE i.what = "remove"
  BY <1>3 DEF Requested, Operations, Asked
<1>4. CASE i.what = "rename"
  BY <1>4 DEF Requested, Operations, Asked
<1>5. CASE i.what = "tab"
  <2>1. i.of \in Sources /\ m.sessions[i.of] \in TabStates
    BY <1>5, MemoryFields, SomeIs DEF Planned
  <2>2. m.sessions[i.of].data \in Datas
    BY <2>1 DEF TabStates
  <2> QED
    BY <1>5, <2>1, <2>2 DEF Requested, Operations
<1>6. CASE i.what = "batch"
  BY <1>6 DEF Requested, Operations, Asked
<1>7. CASE i.what = "order"
  <2>1. PersistableTabOrder(m) \in SUBSET Sources
    BY MemoryFields, SomeIs DEF PersistableTabOrder
  <2> QED
    BY <1>7, <2>1 DEF Requested, Operations
<1>8. CASE i.what \in {"experiment", "delete"}
  <2>1. i.of \in DOMAIN m.experiments /\ m.experiments[i.of].id # Unsaved
    BY <1>8 DEF Asked, Numbered
  <2>2. m.experiments[i.of].id \in ExpIds /\ m.experiments[i.of].data \in Datas
    BY <2>1, MemoryFields, ListMembers
  <2> QED
    BY <1>8, <2>2 DEF Requested, Operations
<1>9. CASE i.what \in {"recipe", "unrecipe"}
  BY <1>9 DEF Requested, Operations, Asked
<1> QED
  BY <1>1, <1>2, <1>3, <1>4, <1>5, <1>6, <1>7, <1>8, <1>9 DEF Planned, Whats

(* A call that finds the experiments in order leaves them so.                *)
LEMMA CallsKeepLists ==
  ASSUME NoFileIsNoArchive, NEW m, NEW c, NEW i, MemOK(m), Planned(i, m), Agrees(m, c),
         Asked(i, m), Numbered(i, m), Lists(m, c),
         c # NoFile \/ Requested(i, m).kind = "create",
         NEW d, d = Applied(Requested(i, m), c)
  PROVE  Good(d) /\ d # NoFile /\ Lists(Succeeded(i, m, d), d)
<1> DEFINE n == Succeeded(i, m, d)
<1>1. m \in Memory
  BY DEF Lists
<1>2. c # NoFile => Good(c) /\ ListOK(m.experiments, c)
  BY DEF Lists
<1>3. d # NoFile /\ Matching(d)
  <2>1. Matching(c) \/ Requested(i, m).kind = "create"
    BY <1>2 DEF Good
  <2> QED
    BY <2>1, CallsCommit DEF Commits
<1>4. d \in Archives
  <2>1. c \in Archives \/ Requested(i, m).kind = "create"
    BY <1>2 DEF Good
  <2> QED
    BY <1>1, <2>1, RequestedType, AppliedType
<1>5. Good(d)
  BY <1>3, <1>4 DEF Good
<1>6. CASE i.what \in {"createEmpty", "createFirst"}
  <2>1. CASE i.what = "createEmpty"
    BY <1>1, <1>3, <1>5, <2>1, OpenedLists DEF Succeeded
  <2>2. CASE i.what = "createFirst"
    <3>1. n = m /\ m.experiments = << >>
      BY <2>2 DEF Succeeded, Planned, MemOK, Lists
    <3> QED
      BY <1>1, <1>3, <1>5, <3>1, EmptyListOK DEF Lists
  <2> QED
    BY <1>3, <1>5, <1>6, <2>1, <2>2
<1>7. CASE i.what = "addFirst"
  BY <1>1, <1>3, <1>5, <1>7, OpenedLists DEF Succeeded
<1>8. CASE i.what \in {"add", "remove", "rename", "tab", "batch", "order", "recipe", "unrecipe"}
  <2>1. c # NoFile
    BY <1>8 DEF Requested
  <2>2. d.listedExps = c.listedExps /\ d.experiments = c.experiments
    BY <1>2, <1>8, <2>1 DEF Requested, Applied, AddSource, RemoveSource, RenameSource, SaveSource,
         SaveTabOrder, RecipeWrite, RecipeRemove, Good, Archives
  <2>3. KeepsList(m, n)
    <3>1. CASE i.what = "add"
      <4> DEFINE l == LoadInto(m, d)
      <4>1. KeepsList(m, l)
        BY <1>1, <1>5, ProjectOpsKeepList
      <4> HIDE DEF l
      <4>2. KeepsList(l, RefreshBatchRecipes(l, d))
        BY <1>5, <4>1, ProjectOpsKeepList DEF KeepsList
      <4>3. n = RefreshBatchRecipes(l, d)
        BY <3>1 DEF Succeeded, l
      <4> QED
        BY <4>1, <4>2, <4>3 DEF KeepsList
    <3>2. CASE i.what = "remove"
      <4> DEFINE r == IF i.of \in DOMAIN m.sessions THEN RemoveTab(m, i.of) ELSE m
                 l == LoadInto(r, d)
      <4>1. KeepsList(m, r)
        BY <1>1, <1>5, ProjectOpsKeepList DEF KeepsList
      <4> HIDE DEF r
      <4>2. KeepsList(r, l)
        BY <1>5, <4>1, ProjectOpsKeepList DEF KeepsList
      <4> HIDE DEF l
      <4>3. KeepsList(l, RefreshBatchRecipes(l, d))
        BY <1>5, <4>2, ProjectOpsKeepList DEF KeepsList
      <4>4. n = RefreshBatchRecipes(l, d)
        BY <3>2 DEF Succeeded, RemoveDone, l, r
      <4> QED
        BY <4>1, <4>2, <4>3, <4>4 DEF KeepsList
    <3>3. CASE i.what = "rename"
      BY <1>1, <3>3, TabOpsKeepList DEF Succeeded, Asked
    <3>4. CASE i.what = "tab"
      BY <1>1, <3>4, TabOpsKeepList DEF Succeeded, Planned
    <3>5. CASE i.what = "batch"
      BY <1>1, <3>5, TabOpsKeepList DEF Succeeded, Asked
    <3>6. CASE i.what = "order"
      BY <1>1, <3>6 DEF Succeeded, KeepsList
    <3>7. CASE i.what \in {"recipe", "unrecipe"}
      BY <1>1, <1>5, <3>7, ProjectOpsKeepList DEF Succeeded
    <3> QED
      BY <1>8, <3>1, <3>2, <3>3, <3>4, <3>5, <3>6, <3>7
  <2> QED
    BY <1>3, <1>5, <2>1, <2>2, <2>3, KeptListsAgain
<1>9. CASE i.what \in {"experiment", "delete"}
  <2> DEFINE es == m.experiments
  <2>1. c # NoFile /\ i.of \in DOMAIN es /\ es[i.of].id # Unsaved
    BY <1>9 DEF Requested, Asked, Numbered
  <2>2. ~m.showWelcomeScreen
    <3>1. es # << >>
      BY <2>1
    <3> QED
      BY <3>1 DEF Lists
  <2>3. CASE i.what = "experiment"
    <3>1. d = ExperimentWrite(c, es[i.of].id, es[i.of].data)
      BY <2>3 DEF Requested, Applied
    <3> DEFINE fs == [es EXCEPT ![i.of].dirty = FALSE]
    <3>2. ListOK(fs, d)
      BY <1>2, <1>5, <2>1, <3>1, WrittenListOK
    <3>3. n = [m EXCEPT !.experiments = fs]
      BY <1>1, <2>3, MemoryFields DEF Succeeded, MemFields
    <3> HIDE DEF fs
    <3> QED
      BY <1>1, <1>3, <1>5, <2>2, <3>2, <3>3, ListChange DEF Lists, ListOK
  <2>4. CASE i.what = "delete"
    <3>1. d = ExperimentRemove(c, es[i.of].id)
      BY <2>4 DEF Requested, Applied
    <3> DEFINE fs == RemoveAt(es, i.of)
    <3>2. ListOK(fs, d)
      BY <1>2, <1>5, <2>1, <3>1, DeletedListOK
    <3>3. n = [m EXCEPT !.experiments = fs]
      BY <1>1, <2>4, MemoryFields DEF Succeeded, MemFields
    <3> HIDE DEF fs
    <3> QED
      BY <1>1, <1>3, <1>5, <2>2, <3>2, <3>3, ListChange DEF Lists, ListOK
  <2> QED
    BY <1>9, <2>3, <2>4
<1> QED
  BY <1>3, <1>5, <1>6, <1>7, <1>8, <1>9 DEF Planned, Whats

-----------------------------------------------------------------------------
(* The list in memory at any moment                                          *)

(* The list fits the ids there are, and no id stands twice in it.            *)
Listed(m) ==
  /\ m \in Memory
  /\ DistinctIds(m.experiments)
  /\ Len(m.experiments) <= MaxExpId

(* Distinct ids with room for the others: at most MaxExpId experiments.      *)
LEMMA ListFits ==
  ASSUME NEW c, Good(c), NEW es, ListOK(es, c)
  PROVE  Len(es) <= MaxExpId
<1> DEFINE I == IdsOf(es)
           U == UnsavedOf(es)
           W == DOMAIN es \ U
<1>1. /\ es \in Seq(Exps) /\ DOMAIN es = 1 .. Len(es) /\ Len(es) \in Nat
      /\ I \in SUBSET ExpIds /\ IsFiniteSet(U) /\ Cardinality(U) \in Nat
  BY ListMembers DEF ListOK
<1>2. /\ c.listedExps \cup I \in SUBSET ExpIds /\ I \in SUBSET (c.listedExps \cup I)
      /\ IsFiniteSet(I)
  BY <1>1, GoodIds, ExpIdsFinite
<1>3. Cardinality(I) <= Cardinality(c.listedExps \cup I)
  BY <1>2, ExpIdsFinite, FS_Subset
<1>4. /\ Cardinality(I) \in Nat /\ Cardinality(c.listedExps \cup I) \in Nat
  BY <1>1, <1>2, ExpIdsFinite
<1>5. Cardinality(I) + Cardinality(U) <= MaxExpId
  BY <1>1, <1>3, <1>4, MaxExpIdAssumption DEF ListOK, Room
<1>6. IsFiniteSet(W) /\ Cardinality(W) <= Cardinality(I)
  <2> DEFINE f == [k \in W |-> es[k].id]
  <2>1. \A k \in W : es[k].id \in I
    BY DEF IdsOf, UnsavedOf
  <2>2. f \in [W -> I]
    BY <2>1
  <2>3. \A j, k \in W : f[j] = f[k] => j = k
    BY DEF ListOK, DistinctIds, UnsavedOf
  <2> HIDE DEF f, W, I
  <2>4. f \in Injection(W, I)
    BY <2>2, <2>3 DEF Injection, IsInjective
  <2> QED
    BY <1>2, <2>4, FS_Injection
<1>7. W \cup U = 1 .. Len(es) /\ W \cap U = {}
  BY <1>1 DEF UnsavedOf
<1>8. Cardinality(W) \in Nat
  BY <1>6, FS_CardinalityType
<1>9. Cardinality(1 .. Len(es)) = Len(es)
  <2> DEFINE l == Len(es)
  <2>1. l \in Nat
    BY <1>1
  <2> HIDE DEF l
  <2>2. Cardinality(1 .. l) = IF 1 > l THEN 0 ELSE l - 1 + 1
    BY <2>1, FS_Interval
  <2>3. Cardinality(1 .. l) = l
    BY <2>1, <2>2
  <2> QED
    BY <2>3 DEF l
<1>10. Cardinality(W \cup U) = Cardinality(W) + Cardinality(U)
  <2>1. Cardinality(W \cap U) = 0
    BY <1>7, FS_EmptySet
  <2> HIDE DEF W, U
  <2>2. Cardinality(W \cup U) = Cardinality(W) + Cardinality(U) - Cardinality(W \cap U)
    BY <1>1, <1>6, FS_Union
  <2> QED
    BY <1>1, <1>8, <2>1, <2>2
<1>11. Len(es) = Cardinality(W) + Cardinality(U)
  BY <1>7, <1>9, <1>10
<1> HIDE DEF W, U, I
<1> QED
  BY <1>1, <1>4, <1>5, <1>6, <1>8, <1>11, MaxExpIdAssumption

(* A list in order beside the archive is in order by itself.                 *)
LEMMA ListsAreListed ==
  ASSUME NEW m, NEW c, Lists(m, c)
  PROVE  Listed(m)
<1>1. CASE c = NoFile
  BY <1>1, MaxExpIdAssumption DEF Lists, Listed, DistinctIds
<1>2. CASE c # NoFile
  BY <1>2, ListFits DEF Lists, Listed, ListOK
<1> QED
  BY <1>1, <1>2

(* At the end of every frame the strip is read back.                         *)
LEMMA CapturedLists ==
  ASSUME NEW m, NEW c, Lists(m, c)
  PROVE  Lists(CaptureStrip(m), c)
<1>1. CASE m.showWelcomeScreen
  BY <1>1 DEF CaptureStrip
<1>2. CASE ~m.showWelcomeScreen
  <2>1. DOMAIN m.sessions \in SUBSET Sources
    BY MemoryFields, SomeIs DEF Lists
  <2>2. KeepsList(m, CaptureStrip(m))
    BY <1>2, <2>1 DEF CaptureStrip, KeepsList, Lists, Memory
  <2> QED
    BY <2>2, KeptLists
<1> QED
  BY <1>1, <1>2

(* An experiment is gone from the list, though it is still in the archive.   *)
LEMMA GivenUpLists ==
  ASSUME NEW m, NEW c, Lists(m, c), NEW k \in DOMAIN m.experiments
  PROVE  Lists([m EXCEPT !.experiments = RemoveAt(@, k)], c)
<1> DEFINE es == m.experiments
           rs == RemoveAt(es, k)
<1>1. es # << >> /\ m \in Memory /\ DOMAIN m = MemFields
  BY MemoryFields DEF Lists
<1>2. c # NoFile /\ ~m.showWelcomeScreen /\ Good(c) /\ ListOK(es, c)
  BY <1>1 DEF Lists
<1>3. ListOK(rs, c) /\ rs \in Seq(Exps)
  BY <1>2, RemovedList
<1>4. [m EXCEPT !.experiments = RemoveAt(@, k)] = [m EXCEPT !.experiments = rs]
  BY <1>1 DEF MemFields
<1> HIDE DEF rs, es
<1> QED
  BY <1>1, <1>2, <1>3, <1>4, ListChange DEF Lists

-----------------------------------------------------------------------------
(* The invariant                                                             *)

AllAsked(p, m) == \A n \in 1 .. Len(p) : Asked(p[n], m)

(* The experiments in memory are in order beside the archive; while the      *)
(* result of a successful call is not applied yet, they will be once it is.  *)
ListInv ==
  /\ Inv
  /\ tmp \in Archives \cup {NoFile, Stale} /\ op \in Operations /\ ok \in BOOLEAN
  /\ acts \in 0 .. MaxActs
  /\ Listed(mem)
  /\ AllAsked(plan, mem)
  /\ step # "idle" => Numbered(Head(plan), mem)
  /\ Lists(IF step = "done" /\ ok THEN Succeeded(Head(plan), mem, file) ELSE mem, file)

(* The first call of a plan is one of those asked for.                       *)
LEMMA HeadAsked ==
  ASSUME NEW p, NEW m, PlanOK(p, m), AllAsked(p, m), p # << >>
  PROVE  Asked(Head(p), m)
<1>1. PICK S : p \in Seq(S)
  BY DEF PlanOK
<1>2. 1 \in 1 .. Len(p) /\ Head(p) = p[1]
  BY <1>1
<1> QED
  BY <1>2 DEF AllAsked

(* What a plan asks for is still there as long as the list keeps its length  *)
(* and its ids.                                                              *)
LEMMA StillAsked ==
  ASSUME NEW m, NEW n, DOMAIN n.experiments = DOMAIN m.experiments,
         \A k \in DOMAIN m.experiments :
           m.experiments[k].id # Unsaved => n.experiments[k].id # Unsaved
  PROVE  /\ \A i : Asked(i, m) => Asked(i, n)
         /\ \A p : AllAsked(p, m) => AllAsked(p, n)
<1>1. \A i : Asked(i, m) => Asked(i, n)
  BY DEF Asked
<1> QED
  BY <1>1 DEF AllAsked

(* The rest of a plan is still asked for once its first call succeeded.      *)
LEMMA RestAsked ==
  ASSUME NEW p, NEW m, NEW c, NEW n, PlanOK(p, m), p # << >>, AllAsked(p, m), m \in Memory,
         n.experiments = Succeeded(Head(p), m, c).experiments
  PROVE  AllAsked(Tail(p), n)
<1>1. PICK S : p \in Seq(S)
  BY DEF PlanOK
<1> DEFINE t == Tail(p)
<1>2. /\ t \in Seq(S) /\ Len(t) = Len(p) - 1 /\ Len(p) \in Nat \ {0}
      /\ Head(p) = p[1]
      /\ \A k \in 1 .. Len(t) : t[k] = p[k + 1]
  BY <1>1
<1> HIDE DEF t
<1>0. AllAsked(t, n)
  <2>1. CASE Head(p).what \notin Leading
    <3>1. 1 \in 1 .. Len(p)
      BY <1>2
    <3>2. Len(p) = 1
      BY <1>2, <2>1, <3>1 DEF PlanOK
    <3> QED
      BY <1>2, <3>2 DEF AllAsked
  <2>2. CASE Head(p).what \in Leading
    <3> DEFINE i == Head(p)
               es == m.experiments
    <3>1. DOMAIN n.experiments = DOMAIN es /\ \A k \in DOMAIN es : n.experiments[k].id = es[k].id
      <4>1. CASE i.what \in {"createFirst", "order"}
        BY <4>1 DEF Succeeded
      <4>2. CASE i.what = "tab"
        <5>1. n.experiments = TabSaved(m, i.of).experiments
          BY <4>2 DEF Succeeded
        <5> QED
          BY <5>1, MemoryFields DEF TabSaved, MemFields
      <4>3. CASE i.what = "experiment"
        <5>1. n.experiments = [es EXCEPT ![i.of].dirty = FALSE]
          BY <4>3, MemoryFields DEF Succeeded, MemFields
        <5>2. es \in Seq(Exps) /\ \A k \in DOMAIN es : es[k] \in Exps
          BY MemoryFields, ListMembers
        <5> QED
          BY <5>1, <5>2 DEF Exps
      <4> QED
        BY <2>2, <4>1, <4>2, <4>3 DEF Leading
    <3>2. \A q : AllAsked(q, m) => AllAsked(q, n)
      BY <3>1, StillAsked
    <3>3. AllAsked(t, m)
      <4> SUFFICES ASSUME NEW k \in 1 .. Len(t) PROVE Asked(t[k], m)
        BY DEF AllAsked
      <4>1. k + 1 \in 1 .. Len(p) /\ t[k] = p[k + 1]
        BY <1>2
      <4> QED
        BY <4>1 DEF AllAsked
    <3> QED
      BY <3>2, <3>3
  <2> QED
    BY <2>1, <2>2
<1> QED
  BY <1>0 DEF t

(* A file operation: only the rename changes the archive.                    *)
LEMMA FileStepListInv ==
  ASSUME NoFileIsNoArchive, "replace" \notin Faults, ListInv, FileStep,
         UNCHANGED <<mem, plan, acts>>
  PROVE  ListInv'
<1> DEFINE i == Head(plan)
<1>0. Inv'
  BY FileStepInv DEF ListInv
<1>1. /\ step # "idle" /\ step # "done" /\ op' = op /\ step' # "idle"
      /\ (step' = "done" => ok' \in BOOLEAN) /\ (step' # "done" => ok' = ok)
  BY DEF FileStep, CreateWrites, CreateFails, Copy, CopyFails, Mutate, MutateThrows, Heal,
         HealFails, Rename, CreateRenameFails, RemoveArchive, RenameAgain, RenameAgainFails,
         RenameOver, Fail, Goto, Return
<1>2. ok' \in BOOLEAN
  BY <1>1 DEF ListInv
<1>3. /\ plan # << >> /\ op = Requested(i, mem) /\ Asked(i, mem) /\ Numbered(i, mem)
      /\ Planned(i, mem) /\ MemOK(mem) /\ Agrees(mem, file) /\ Lists(mem, file)
      /\ WorkIsWhole
  BY <1>1, HeadAsked, HeadPlanned DEF ListInv, Inv
<1>4. file \in Archives \cup {NoFile}
  BY <1>3 DEF Lists, Good
<1>5. tmp' \in Archives \cup {NoFile, Stale}
  <2>1. CASE CreateWrites
    <3>1. op.kind = "create" /\ tmp' = Applied(op, file)
      BY <1>3, <2>1 DEF CreateWrites, WorkIsWhole
    <3> QED
      BY <3>1, AppliedType DEF ListInv
  <2>2. CASE Copy
    BY <1>4, <2>2 DEF Copy
  <2>3. CASE Mutate
    <3>1. tmp = file /\ file \in Archives /\ tmp' = Applied(op, tmp)
      BY <1>3, <1>4, <2>3 DEF Mutate, WorkIsWhole
    <3> QED
      BY <3>1, AppliedType DEF ListInv
  <2>4. CASE ~(CreateWrites \/ Copy \/ Mutate)
    BY <2>4 DEF ListInv, FileStep, CreateFails, CopyFails, MutateThrows, Heal,
         HealFails, Rename, CreateRenameFails, RemoveArchive, RenameAgain, RenameAgainFails,
         RenameOver, Fail, Goto, Return
  <2> QED
    BY <2>1, <2>2, <2>3, <2>4
<1>6. CASE Rename \/ RenameAgain
  <2>1. /\ file' = Applied(op, file) /\ step' = "done" /\ ok'
        /\ file = NoFile => op.kind = "create"
    BY <1>3, <1>6 DEF Rename, RenameAgain, RenameOver, Return, WorkIsWhole
  <2>2. file' = Applied(Requested(i, mem), file)
    BY <1>3, <2>1
  <2>3. file # NoFile \/ Requested(i, mem).kind = "create"
    BY <1>3, <2>1
  <2>4. Lists(Succeeded(i, mem, file'), file')
    BY <1>3, <2>2, <2>3, CallsKeepLists
  <2> QED
    BY <1>0, <1>1, <1>2, <1>5, <2>1, <2>4 DEF ListInv
<1>7. CASE ~(Rename \/ RenameAgain)
  <2>1. file' = file /\ (step' = "done" => ~ok')
    BY <1>1, <1>7 DEF FileStep, CreateWrites, CreateFails, Copy, CopyFails, Mutate, MutateThrows,
         Heal, HealFails, CreateRenameFails, RemoveArchive, RenameAgainFails, Fail, Goto, Return
  <2> QED
    BY <1>0, <1>1, <1>2, <1>3, <1>5, <2>1 DEF ListInv
<1> QED
  BY <1>6, <1>7

(* A call is asked for, of a memory n in which the experiment to be written  *)
(* has its id.                                                               *)
LEMMA CallListInv ==
  ASSUME ListInv, Inv', Call(Requested(Head(plan), mem')), plan # << >>, UNCHANGED <<plan, acts>>,
         Lists(mem', file), AllAsked(plan, mem'), Numbered(Head(plan), mem'),
         Planned(Head(plan), mem')
  PROVE  ListInv'
<1>1. /\ op' = Requested(Head(plan), mem') /\ step' # "done"
      /\ file' = file /\ tmp' = tmp /\ ok' = ok
  BY DEF Call
<1>2. Asked(Head(plan), mem')
  BY HeadAsked DEF Inv
<1>3. op' \in Operations
  BY <1>1, <1>2, RequestedType DEF Lists
<1>4. Listed(mem')
  BY ListsAreListed
<1> QED
  BY <1>1, <1>3, <1>4 DEF ListInv

(* A call starts; an experiment gets its id first.                           *)
LEMMA StartListInv ==
  ASSUME NoFileIsNoArchive, "list" \notin Faults, ListInv, Inv', StartExperiment \/ Start
  PROVE  ListInv'
<1> DEFINE i == Head(plan)
<1>1. /\ step = "idle" /\ plan # << >> /\ Lists(mem, file) /\ AllAsked(plan, mem)
      /\ Planned(i, mem) /\ Asked(i, mem) /\ mem \in Memory /\ PlanOK(plan, mem)
      /\ DOMAIN mem = MemFields
  BY HeadAsked, HeadPlanned, MemoryFields DEF StartExperiment, Start, Turn, ListInv, Inv, Listed
<1>2. CASE Start
  <2>1. mem' = mem /\ Call(Requested(i, mem)) /\ UNCHANGED <<plan, acts>> /\ i.what # "experiment"
    BY <1>2 DEF Start, Turn
  <2>2. Numbered(i, mem)
    BY <2>1 DEF Numbered
  <2>3. Call(Requested(Head(plan), mem'))
    BY <2>1
  <2> QED
    BY <1>1, <2>1, <2>2, <2>3, CallListInv
<1>3. CASE StartExperiment
  <2> DEFINE es == mem.experiments
             n == i.of
             id == FreeId(file.listedExps \cup IdsOf(es))
             fs == [es EXCEPT ![n].id = id]
  <2>1. i.what = "experiment" /\ n \in DOMAIN es
    BY <1>1, <1>3 DEF StartExperiment, Turn, Asked
  <2>2. file # NoFile /\ ~mem.showWelcomeScreen /\ Good(file) /\ ListOK(es, file)
    <3>1. es # << >>
      BY <2>1
    <3> QED
      BY <1>1, <3>1 DEF Lists
  <2>3. mem' = WithId(mem, n, id)
    <3>1. CanList = {TRUE}
      BY <2>2 DEF CanList
    <3>2. IdsInMemory(mem) = IdsOf(es)
      BY DEF IdsInMemory, IdsOf
    <3> QED
      BY <1>3, <3>1, <3>2 DEF StartExperiment, ExpIdFor, UniqueExpId
  <2>4. CASE es[n].id = Unsaved
    <3>1. id \in ExpIds /\ ListOK(fs, file)
      BY <2>1, <2>2, <2>4, NumberedListOK
    <3> HIDE DEF id
    <3>2. mem' = [mem EXCEPT !.experiments = fs]
      BY <1>1, <2>3, <2>4 DEF WithId, MemFields
    <3>3. fs \in Seq(Exps) /\ DOMAIN fs = DOMAIN es /\ fs[n].id # Unsaved
          /\ \A k \in DOMAIN es \ {n} : fs[k] = es[k]
      <4>1. id # Unsaved
        BY <3>1, ExpIdsFinite
      <4>2. es \in Seq(Exps) /\ es[n] \in Exps
        BY <1>1, <2>1, MemoryFields, ListMembers
      <4> QED
        BY <2>1, <3>1, <4>1, <4>2 DEF ListOK, Exps
    <3> HIDE DEF fs
    <3>4. mem'.experiments = fs /\ Lists(mem', file)
      BY <1>1, <2>2, <3>1, <3>2, <3>3, ListChange DEF Lists
    <3>5. AllAsked(plan, mem')
      BY <1>1, <3>3, <3>4, StillAsked
    <3>6. Numbered(i, mem')
      BY <3>3, <3>4 DEF Numbered
    <3>7. Planned(i, mem')
      BY <1>1, <3>2, Elsewhere, AlikeAgrees
    <3> HIDE DEF es, n
    <3> QED
      BY <1>1, <1>3, <3>4, <3>5, <3>6, <3>7, CallListInv DEF StartExperiment
  <2>5. CASE es[n].id # Unsaved
    <3>1. mem' = mem
      BY <2>3, <2>5 DEF WithId
    <3>2. Numbered(i, mem)
      BY <2>5 DEF Numbered
    <3> QED
      BY <1>1, <1>3, <3>1, <3>2, CallListInv DEF StartExperiment
  <2> QED
    BY <2>4, <2>5
<1> QED
  BY <1>2, <1>3

(* The result of a call is taken.                                            *)
LEMMA FinishListInv ==
  ASSUME ListInv, Inv', Finish
  PROVE  ListInv'
<1> DEFINE i == Head(plan)
<1>1. /\ step = "done" /\ step' = "idle" /\ UNCHANGED <<file, tmp, op, ok, acts>> /\ plan # << >>
      /\ PlanOK(plan, mem) /\ AllAsked(plan, mem) /\ Asked(i, mem) /\ mem \in Memory
      /\ DOMAIN mem = MemFields
  BY HeadAsked, MemoryFields DEF Finish, Taken, ListInv, Inv, Listed
<1>2. CASE ok
  <2> DEFINE n == Succeeded(i, mem, file)
  <2>1. mem' = CaptureStrip(n) /\ plan' = Tail(plan)
    BY <1>2 DEF Finish
  <2>2. Lists(n, file)
    BY <1>1, <1>2 DEF ListInv
  <2>3. n.experiments = Succeeded(i, mem, file).experiments
    OBVIOUS
  <2> HIDE DEF n
  <2>4. Lists(mem', file) /\ Listed(mem')
    BY <2>1, <2>2, CapturedLists, ListsAreListed
  <2>5. mem'.experiments = n.experiments
    <3>1. DOMAIN n = MemFields
      BY <2>2, MemoryFields DEF Lists
    <3> QED
      BY <2>1, <3>1 DEF CaptureStrip, MemFields
  <2>6. AllAsked(plan', mem')
    BY <1>1, <2>1, <2>3, <2>5, RestAsked
  <2> QED
    BY <1>1, <2>4, <2>6 DEF ListInv
<1>3. CASE ~ok
  <2>1. mem' = CaptureStrip(Failed(i, mem)) /\ plan' = << >>
    BY <1>3 DEF Finish
  <2>2. Lists(mem, file)
    BY <1>1, <1>3 DEF ListInv
  <2>3. Lists(Failed(i, mem), file)
    <3>1. CASE i.what = "delete"
      BY <1>1, <2>2, <3>1, GivenUpLists DEF Failed, Asked
    <3>2. CASE i.what # "delete"
      BY <2>2, <3>2 DEF Failed
    <3> QED
      BY <3>1, <3>2
  <2>4. Lists(mem', file) /\ Listed(mem')
    BY <2>1, <2>3, CapturedLists, ListsAreListed
  <2>5. AllAsked(plan', mem')
    BY <2>1 DEF AllAsked
  <2> QED
    BY <1>1, <2>1, <2>4, <2>5 DEF ListInv
<1> QED
  BY <1>2, <1>3

-----------------------------------------------------------------------------
(* The user's acts                                                           *)

(* An act of the user that leaves the list in order.                         *)
LEMMA ActListInv ==
  ASSUME ListInv, Inv', Act, Lists(mem', file), AllAsked(plan', mem')
  PROVE  ListInv'
<1>1. /\ step = "idle" /\ step' = "idle" /\ UNCHANGED <<file, tmp, op, ok>>
      /\ acts' \in 0 .. MaxActs
  BY MaxActsAssumption DEF Act, fileVars, ListInv
<1>2. Listed(mem')
  BY ListsAreListed
<1> QED
  BY <1>1, <1>2 DEF ListInv

(* What is known while the user may act.                                     *)
LEMMA RestLists ==
  ASSUME ListInv, Act
  PROVE  /\ Lists(mem, file) /\ mem \in Memory /\ DOMAIN mem = MemFields
         /\ MemOK(mem) /\ Agrees(mem, file)
         /\ plan = << >> /\ (file # NoFile => Good(file) /\ ListOK(mem.experiments, file))
  BY RestInv, MemoryFields DEF Act, ListInv, Listed, Lists

(* An act in the project that changes the memory to n.                       *)
LEMMA ChangeListInv ==
  ASSUME ListInv, Inv', NEW n, Changes(n), Lists(n, file)
  PROVE  ListInv'
<1>1. Act /\ mem' = CaptureStrip(n) /\ plan' = << >>
  BY DEF Changes, InProject, Act
<1>2. Lists(mem', file)
  BY <1>1, CapturedLists
<1>3. AllAsked(plan', mem')
  BY <1>1 DEF AllAsked
<1> QED
  BY <1>1, <1>2, <1>3, ActListInv

(* What the user asks for is something of the project.                       *)
LEMMA OneAsked ==
  ASSUME NEW m, NEW i, Asked(i, m)
  PROVE  AllAsked(<<i>>, m)
<1>1. Len(<<i>>) = 1 /\ <<i>>[1] = i
  OBVIOUS
<1>2. 1 .. Len(<<i>>) = {1}
  BY <1>1
<1> QED
  BY <1>1, <1>2 DEF AllAsked

(* The dirty experiments of a Ctrl+S are in the list.                        *)
LEMMA SavePlanAsked ==
  ASSUME NEW m, NEW tabs \in Orders(DirtyTabs(m)), NEW exps \in ListOrders(DirtyExperiments(m))
  PROVE  AllAsked(SavePlan(tabs, exps), m)
<1> DEFINE T == {ItemOf("tab", x) : x \in DirtyTabs(m)}
           E == {ItemOf("experiment", x) : x \in DirtyExperiments(m)}
           S == T \cup E \cup {Item("order")}
           p == SavePlan(tabs, exps)
<1>1. tabs \in Seq(DirtyTabs(m)) /\ exps \in Seq(DirtyExperiments(m))
  BY OrdersAreSequences DEF ListOrders
<1>2. ItemsOf("tab", tabs) \in Seq(S) /\ ItemsOf("experiment", exps) \in Seq(S)
  BY <1>1 DEF ItemsOf
<1>3. <<Item("order")>> \in Seq(S)
  OBVIOUS
<1>4. p \in Seq(S)
  BY <1>2, <1>3 DEF SavePlan
<1>5. ASSUME NEW i \in S PROVE Asked(i, m)
  BY DEF Item, ItemOf, Asked, DirtyExperiments
<1> HIDE DEF S, p
<1>6. \A n \in 1 .. Len(p) : p[n] \in S
  BY <1>4
<1>7. AllAsked(p, m)
  BY <1>5, <1>6 DEF AllAsked
<1> QED
  BY <1>7 DEF p

(* A project made from a standalone dataset.                                 *)
LEMMA CreateAsked ==
  ASSUME NEW m, NEW id \in Sources, NEW data \in Datas
  PROVE  AllAsked(<<Item("createFirst"), ItemWith("addFirst", id, data)>>, m)
<1> DEFINE i == Item("createFirst")
           j == ItemWith("addFirst", id, data)
<1>1. Asked(i, m) /\ Asked(j, m)
  BY DEF Item, ItemWith, Asked
<1> HIDE DEF i, j
<1>2. Len(<<i, j>>) = 2 /\ <<i, j>>[1] = i /\ <<i, j>>[2] = j
  OBVIOUS
<1>3. 1 .. Len(<<i, j>>) = {1, 2}
  BY <1>2
<1>4. AllAsked(<<i, j>>, m)
  BY <1>1, <1>2, <1>3 DEF AllAsked
<1> QED
  BY <1>4 DEF i, j

(* An act in the project that becomes one call.                              *)
LEMMA CallPlanListInv ==
  ASSUME ListInv, Inv', NEW i, Plans(<<i>>), Asked(i, mem)
  PROVE  ListInv'
<1>1. Act /\ mem' = mem /\ plan' = <<i>>
  BY DEF Plans, InProject
<1> QED
  BY <1>1, OneAsked, RestLists, ActListInv

(* The acts that plan calls.                                                 *)
LEMMA PlansListInv ==
  ASSUME ListInv, Inv',
         \/ NewProject \/ CreateFromDataset \/ AddDataset \/ RemoveDataset \/ RenameDataset
         \/ RunBatch \/ SaveEverything \/ SaveTab \/ WriteRecipe \/ RemoveRecipe
  PROVE  ListInv'
<1> USE DEF Asked, Item, ItemOf, ItemWith
<1>0. /\ DOMAIN mem.sources \subseteq Sources /\ mem.recipes \subseteq Recipes
      /\ DOMAIN mem.sessions \subseteq Sources
  BY MemoryFields, SomeIs DEF ListInv, Listed
<1>1. CASE NewProject
  <2>1. Asked(Item("createEmpty"), mem) /\ plan' = <<Item("createEmpty")>> /\ mem' = mem /\ Act
    BY <1>1 DEF NewProject
  <2> QED
    BY <2>1, OneAsked, RestLists, ActListInv
<1>2. CASE CreateFromDataset
  <2>1. PICK id \in Sources, data \in Datas :
          plan' = <<Item("createFirst"), ItemWith("addFirst", id, data)>>
    BY <1>2 DEF CreateFromDataset
  <2>2. Act /\ mem' = mem
    BY <1>2 DEF CreateFromDataset
  <2>3. AllAsked(plan', mem)
    BY <2>1, CreateAsked
  <2> QED
    BY <2>2, <2>3, RestLists, ActListInv
<1>3. CASE AddDataset
  <2>0. PICK id \in Sources \ DOMAIN file.sources, data \in Datas :
          Plans(<<ItemWith("add", id, data)>>)
    BY <1>3 DEF AddDataset
  <2>1. Asked(ItemWith("add", id, data), mem)
    OBVIOUS
  <2> QED
    BY <2>0, <2>1, CallPlanListInv
<1>4. CASE RemoveDataset
  <2>0. PICK id \in DOMAIN mem.sources : Plans(<<ItemOf("remove", id)>>)
    BY <1>4 DEF RemoveDataset
  <2>1. Asked(ItemOf("remove", id), mem)
    BY <1>0
  <2> QED
    BY <2>0, <2>1, CallPlanListInv
<1>5. CASE RenameDataset
  <2>0. PICK id \in DOMAIN mem.sources, name \in Names : Plans(<<ItemWith("rename", id, name)>>)
    BY <1>5 DEF RenameDataset
  <2>1. Asked(ItemWith("rename", id, name), mem)
    BY <1>0
  <2> QED
    BY <2>0, <2>1, CallPlanListInv
<1>6. CASE RunBatch
  <2>0. PICK id \in DOMAIN mem.sources, data \in Datas : Plans(<<ItemWith("batch", id, data)>>)
    BY <1>6 DEF RunBatch
  <2>1. Asked(ItemWith("batch", id, data), mem)
    BY <1>0
  <2> QED
    BY <2>0, <2>1, CallPlanListInv
<1>7. CASE SaveEverything
  <2>1. PICK tabs \in Orders(DirtyTabs(mem)), exps \in ListOrders(DirtyExperiments(mem)) :
          plan' = SavePlan(tabs, exps)
    BY <1>7 DEF SaveEverything
  <2>2. Act /\ mem' = mem
    BY <1>7 DEF SaveEverything
  <2>3. AllAsked(plan', mem)
    BY <2>1, SavePlanAsked
  <2> QED
    BY <2>2, <2>3, RestLists, ActListInv
<1>8. CASE SaveTab
  <2>0. PICK id \in DirtyTabs(mem) : Plans(<<ItemOf("tab", id)>>)
    BY <1>8 DEF SaveTab
  <2>1. Asked(ItemOf("tab", id), mem)
    OBVIOUS
  <2> QED
    BY <2>0, <2>1, CallPlanListInv
<1>9. CASE WriteRecipe
  <2>0. PICK x \in Recipes \ mem.recipes : Plans(<<ItemOf("recipe", x)>>)
    BY <1>9 DEF WriteRecipe
  <2>1. Asked(ItemOf("recipe", x), mem)
    OBVIOUS
  <2> QED
    BY <2>0, <2>1, CallPlanListInv
<1>10. CASE RemoveRecipe
  <2>0. PICK x \in mem.recipes : Plans(<<ItemOf("unrecipe", x)>>)
    BY <1>10 DEF RemoveRecipe
  <2>1. Asked(ItemOf("unrecipe", x), mem)
    BY <1>0
  <2> QED
    BY <2>0, <2>1, CallPlanListInv
<1> QED
  BY <1>1, <1>2, <1>3, <1>4, <1>5, <1>6, <1>7, <1>8, <1>9, <1>10

(* The acts on open tabs.                                                    *)
LEMMA TabsListInv ==
  ASSUME ListInv, Inv', OpenDataset \/ CloseDataset \/ EditDataset \/ ComparatorSources
  PROVE  ListInv'
<1>0. ASSUME NEW n, Changes(n), KeepsList(mem, n)
      PROVE  ListInv'
  <2>1. Lists(mem, file)
    BY <1>0, RestLists DEF Changes, InProject
  <2>2. Lists(n, file)
    BY <1>0, <2>1, KeptLists
  <2> QED
    BY <1>0, <2>2, ChangeListInv
<1>1. CASE OpenDataset
  <2>0. file # NoFile /\ mem \in Memory
    BY <1>1 DEF OpenDataset, ListInv, Listed
  <2>1. PICK id : Changes(OpenTabs(mem, file, {id}))
    BY <1>1 DEF OpenDataset
  <2>2. Good(file)
    BY <2>0, <2>1, RestLists DEF Changes, InProject
  <2> QED
    BY <1>0, <2>0, <2>1, <2>2, ProjectOpsKeepList
<1>2. CASE CloseDataset
  <2>1. PICK id : Changes(RemoveTab(mem, id))
    BY <1>2 DEF CloseDataset
  <2>2. DOMAIN mem.sessions \subseteq Sources /\ mem \in Memory
    BY MemoryFields, SomeIs DEF ListInv, Listed
  <2>3. /\ Drop(mem.sessions, id) \in Some(Sources, TabStates)
        /\ Drop(mem.sourceCache, id) \in Some(Sources, Datas)
    BY <2>2, MemoryFields, DropType
  <2>4. KeepsList(mem, RemoveTab(mem, id))
    BY <2>2, <2>3 DEF RemoveTab, KeepsList, Memory
  <2> QED
    BY <1>0, <2>1, <2>4
<1>3. CASE EditDataset
  <2>1. PICK id \in DOMAIN mem.sessions, d \in Datas :
          Changes([mem EXCEPT !.sessions[id] = [data |-> d, dirty |-> TRUE]])
    BY <1>3 DEF EditDataset
  <2>2. KeepsList(mem, [mem EXCEPT !.sessions[id] = [data |-> d, dirty |-> TRUE]])
    BY TabOpsKeepList DEF ListInv, Listed
  <2> QED
    BY <1>0, <2>1, <2>2
<1>4. CASE ComparatorSources
  <2> DEFINE missing == (DOMAIN mem.sources \ DOMAIN mem.sessions) \cap DOMAIN file.groups
             cache == mem.sourceCache
             v == [id \in DOMAIN cache \cup missing |->
                     IF id \in DOMAIN cache THEN cache[id] ELSE file.groups[id].data]
             n == [mem EXCEPT !.sourceCache =
                     [id \in DOMAIN @ \cup missing |->
                        IF id \in DOMAIN @ THEN @[id] ELSE file.groups[id].data]]
  <2>1. Changes(n) /\ file # NoFile
    BY <1>4 DEF ComparatorSources
  <2>2. Good(file) /\ mem \in Memory /\ DOMAIN mem = MemFields
    BY <2>1, RestLists DEF Changes, InProject
  <2>3. n = [mem EXCEPT !.sourceCache = v]
    BY <2>2 DEF MemFields
  <2>4. v \in Some(Sources, Datas)
    <3>1. cache \in [DOMAIN cache -> Datas] /\ DOMAIN cache \subseteq Sources
      BY <2>2, MemoryFields, SomeIs
    <3>2. \A id \in missing : id \in Sources /\ file.groups[id].data \in Datas
      BY <2>2, ArchiveTypes
    <3>3. v \in [DOMAIN cache \cup missing -> Datas] /\ DOMAIN cache \cup missing \subseteq Sources
          /\ DOMAIN v = DOMAIN cache \cup missing
      BY <3>1, <3>2
    <3> HIDE DEF v, missing
    <3> QED
      BY <3>3, SomeIs
  <2> HIDE DEF v
  <2>5. KeepsList(mem, [mem EXCEPT !.sourceCache = v])
    BY <2>2, <2>4, CacheChange
  <2> HIDE DEF n
  <2> QED
    BY <1>0, <2>1, <2>3, <2>5
<1> QED
  BY <1>1, <1>2, <1>3, <1>4

(* The acts that open or leave the project.                                  *)
LEMMA ProjectListInv ==
  ASSUME ListInv, Inv', OpenExisting \/ Reopen \/ GoHome
  PROVE  ListInv'
<1>0. ASSUME NEW n, Act, mem' = CaptureStrip(n), plan' = << >>, Lists(n, file)
      PROVE  ListInv'
  <2>1. AllAsked(plan', mem')
    BY <1>0 DEF AllAsked
  <2> QED
    BY <1>0, <2>1, CapturedLists, ActListInv
<1>1. CASE OpenExisting
  <2>1. /\ Act /\ mem' = CaptureStrip(Shown(OpenProject(mem, file))) /\ plan' = << >>
        /\ file # NoFile
    BY <1>1 DEF OpenExisting, Act
  <2>2. Good(file) /\ mem \in Memory
    BY <2>1, RestLists
  <2> QED
    BY <1>0, <2>1, <2>2, OpenedLists
<1>2. CASE Reopen
  <2> DEFINE l == LoadExperiments(mem, file)
             r == RestoreOpenEmbeddedTabs(l, file)
             n == Shown(r)
  <2>1. Act /\ mem' = CaptureStrip(n) /\ plan' = << >> /\ file # NoFile
    BY <1>2 DEF Reopen, Act
  <2>2. Good(file) /\ mem \in Memory /\ ListOK(mem.experiments, file)
    BY <2>1, RestLists
  <2>3. l \in Memory /\ ListOK(l.experiments, file)
    BY <2>2, LoadedLists
  <2> HIDE DEF l
  <2>4. KeepsList(l, r)
    BY <2>2, <2>3, ProjectOpsKeepList DEF RestoreOpenEmbeddedTabs
  <2> HIDE DEF r
  <2>5. n \in Memory /\ n.experiments = r.experiments /\ ~n.showWelcomeScreen
    BY <2>4 DEF Shown, KeepsList, Memory
  <2> HIDE DEF n
  <2>6. Lists(n, file)
    BY <2>1, <2>2, <2>3, <2>4, <2>5 DEF KeepsList, Lists
  <2> QED
    BY <1>0, <2>1, <2>6
<1>3. CASE GoHome
  <2> DEFINE cache == mem.sourceCache
             v == [id \in DOMAIN cache \ DOMAIN mem.sessions |-> cache[id]]
  <2>1. Act /\ plan' = << >>
    BY <1>3 DEF GoHome, InProject, Act
  <2>2. Lists(mem, file) /\ mem \in Memory /\ DOMAIN mem = MemFields
    BY <2>1, RestLists
  <2>3. v \in Some(Sources, Datas)
    <3>1. cache \in [DOMAIN cache -> Datas] /\ DOMAIN cache \subseteq Sources
      BY <2>2, MemoryFields, SomeIs
    <3>2. /\ DOMAIN v = DOMAIN cache \ DOMAIN mem.sessions
          /\ v \in [DOMAIN cache \ DOMAIN mem.sessions -> Datas]
          /\ DOMAIN cache \ DOMAIN mem.sessions \subseteq Sources
      BY <3>1
    <3> HIDE DEF v
    <3> QED
      BY <3>2, SomeIs
  <2>4. mem' = [mem EXCEPT !.showWelcomeScreen = TRUE, !.sessions = Nothing,
                           !.experiments = << >>, !.sourceCache = v]
    BY <1>3, <2>2 DEF GoHome, MemFields
  <2> HIDE DEF v
  <2>5. mem' \in Memory /\ mem'.experiments = << >>
    <3>1. << >> \in Seq(Exps) /\ Nothing \in Some(Sources, TabStates)
      BY NothingType
    <3> QED
      BY <2>2, <2>3, <2>4, <3>1 DEF Memory
  <2>6. Lists(mem', file)
    BY <2>2, <2>5, EmptyListOK DEF Lists
  <2>7. AllAsked(plan', mem')
    BY <2>1 DEF AllAsked
  <2> QED
    BY <2>1, <2>6, <2>7, ActListInv
<1> QED
  BY <1>1, <1>2, <1>3

(* The acts on experiments.                                                  *)
LEMMA ExperimentsListInv ==
  ASSUME ListInv, Inv', NewExperiment \/ EditExperiment \/ DeleteExperiment
  PROVE  ListInv'
<1> DEFINE es == mem.experiments
<1>0. ASSUME NEW fs, Changes([mem EXCEPT !.experiments = fs]), file # NoFile,
             ListOK(fs, file)
      PROVE  ListInv'
  <2> DEFINE n == [mem EXCEPT !.experiments = fs]
  <2>1. ~mem.showWelcomeScreen /\ mem \in Memory /\ Good(file)
    BY <1>0, RestLists DEF Changes, InProject
  <2>2. n \in Memory /\ n.experiments = fs /\ ~n.showWelcomeScreen
    BY <1>0, <2>1, ListChange DEF ListOK
  <2> HIDE DEF n
  <2>3. Lists(n, file)
    BY <1>0, <2>1, <2>2 DEF Lists
  <2> QED
    BY <1>0, <2>3, ChangeListInv DEF n
<1>1. CASE NewExperiment
  <2>1. PICK d \in Datas :
          Changes([mem EXCEPT !.experiments =
                     Append(@, [id |-> Unsaved, data |-> d, dirty |-> TRUE])])
    BY <1>1 DEF NewExperiment
  <2>2. /\ file # NoFile
        /\ Cardinality(file.listedExps \cup IdsInMemory(mem)) + Cardinality(Unnumbered) < MaxExpId
    BY <1>1 DEF NewExperiment
  <2>3. Good(file) /\ ListOK(es, file) /\ DOMAIN mem = MemFields
    BY <2>1, <2>2, RestLists DEF Changes, InProject
  <2>4. Cardinality(file.listedExps \cup IdsOf(es)) + Cardinality(UnsavedOf(es)) < MaxExpId
    BY <2>2 DEF IdsInMemory, IdsOf, Unnumbered, UnsavedOf
  <2> DEFINE fs == Append(es, [id |-> Unsaved, data |-> d, dirty |-> TRUE])
  <2>5. ListOK(fs, file)
    BY <2>3, <2>4, AppendedListOK
  <2>6. Changes([mem EXCEPT !.experiments = fs])
    BY <2>1, <2>3 DEF MemFields
  <2> HIDE DEF fs
  <2> QED
    BY <1>0, <2>2, <2>5, <2>6
<1>2. CASE EditExperiment
  <2>1. PICK k \in DOMAIN es, d \in Datas :
          Changes([mem EXCEPT !.experiments[k].data = d, !.experiments[k].dirty = TRUE])
    BY <1>2 DEF EditExperiment
  <2>2. Lists(mem, file) /\ DOMAIN mem = MemFields
    BY <2>1, RestLists DEF Changes, InProject
  <2>3. file # NoFile /\ Good(file) /\ ListOK(es, file)
    <3>1. es # << >>
      BY <2>1
    <3> QED
      BY <2>2, <3>1 DEF Lists
  <2> DEFINE fs == [es EXCEPT ![k].data = d, ![k].dirty = TRUE]
  <2>4. ListOK(fs, file)
    BY <2>3, EditedListOK
  <2>5. Changes([mem EXCEPT !.experiments = fs])
    BY <2>1, <2>2 DEF MemFields
  <2> HIDE DEF fs
  <2> QED
    BY <1>0, <2>3, <2>4, <2>5
<1>3. CASE DeleteExperiment
  <2>1. PICK k \in DOMAIN es :
          IF k \in Unnumbered THEN Changes([mem EXCEPT !.experiments = RemoveAt(@, k)])
          ELSE Plans(<<ItemOf("delete", k)>>)
    BY <1>3 DEF DeleteExperiment
  <2>2. CASE k \in Unnumbered
    <3>1. Changes([mem EXCEPT !.experiments = RemoveAt(@, k)])
      BY <2>1, <2>2
    <3>2. Lists(mem, file)
      BY <3>1, RestLists DEF Changes, InProject
    <3> QED
      BY <3>1, <3>2, GivenUpLists, ChangeListInv
  <2>3. CASE k \notin Unnumbered
    <3>1. Asked(ItemOf("delete", k), mem)
      BY <2>3 DEF Asked, ItemOf, Unnumbered
    <3> QED
      BY <2>1, <2>3, <3>1, CallPlanListInv
  <2> QED
    BY <2>2, <2>3
<1> QED
  BY <1>1, <1>2, <1>3

(* A program just started has no experiments.                                *)
LEMMA LaunchedLists ==
  ASSUME NEW c, c # NoFile => Good(c)
  PROVE  Lists(Launched, c)
<1>1. << >> \in Seq(Exps)
  OBVIOUS
<1>2. Launched \in Memory /\ Launched.experiments = << >>
  BY <1>1, NothingType DEF Launched, Memory
<1> QED
  BY <1>2, EmptyListOK DEF Lists

(* Every step keeps the experiments in memory in order beside the archive.   *)
THEOREM ListInvariance ==
  ASSUME NoFileIsNoArchive, "replace" \notin Faults, "list" \notin Faults
  PROVE  Spec => []ListInv
<1>1. Init => ListInv
  <2> SUFFICES ASSUME Init PROVE ListInv
    OBVIOUS
  <2>1. Inv
    <3>1. WorkIsWhole
      BY DEF Init, FileInit, WorkIsWhole, Steps
    <3> QED
      BY <3>1, LaunchedOK, NoCall DEF Init, FileInit, Inv
  <2>2. Lists(Launched, NoFile)
    BY LaunchedLists
  <2>3. op \in Operations /\ acts \in 0 .. MaxActs
    BY MaxActsAssumption DEF Init, FileInit, Operations
  <2>4. AllAsked(plan, mem)
    BY DEF Init, AllAsked
  <2> QED
    BY <2>1, <2>2, <2>3, <2>4, ListsAreListed DEF Init, FileInit, ListInv
<1>2. ListInv /\ [Next]_vars /\ Inv' => ListInv'
  <2> SUFFICES ASSUME ListInv, [Next]_vars, Inv' PROVE ListInv'
    OBVIOUS
  <2>1. CASE StartExperiment \/ Start
    BY <2>1, StartListInv
  <2>2. CASE SkipOrder
    <3>1. /\ plan # << >> /\ step = "idle" /\ plan' = Tail(plan)
          /\ UNCHANGED <<file, tmp, step, op, ok, mem, acts>> /\ Head(plan).what = "order"
      BY <2>2 DEF SkipOrder, OrderUnchanged, Turn, fileVars
    <3>2. mem.experiments = Succeeded(Head(plan), mem, file).experiments
      BY <3>1 DEF Succeeded
    <3>3. AllAsked(plan', mem)
      BY <3>1, <3>2, RestAsked DEF ListInv, Inv, Listed
    <3> QED
      BY <3>1, <3>3 DEF ListInv
  <2>3. CASE StoreStep
    BY <2>3, FileStepListInv DEF StoreStep
  <2>4. CASE Finish
    BY <2>4, FinishListInv
  <2>5. CASE User
    BY <2>5, PlansListInv, TabsListInv, ProjectListInv, ExperimentsListInv DEF User
  <2>6. CASE Crash
    <3>1. /\ step' = "idle" /\ file' = file /\ mem' = Launched /\ plan' = << >>
          /\ UNCHANGED <<op, ok, acts>> /\ tmp' \in {NoFile, Stale}
      BY <2>6 DEF Crash, FileCrash
    <3>2. file # NoFile => Good(file)
      BY DEF ListInv, Lists
    <3>3. Lists(mem', file) /\ Listed(mem')
      BY <3>1, <3>2, LaunchedLists, ListsAreListed
    <3>4. AllAsked(plan', mem')
      BY <3>1 DEF AllAsked
    <3> QED
      BY <3>1, <3>3, <3>4 DEF ListInv
  <2>7. CASE UNCHANGED vars
    BY <2>7 DEF vars, ListInv
  <2> QED
    BY <2>1, <2>2, <2>3, <2>4, <2>5, <2>6, <2>7 DEF Next
<1> QED
  BY <1>1, <1>2, MemoryInvariance, PTL DEF Spec

(* All of memory, files and running call have their types.                   *)
THEOREM TypeCorrect ==
  ASSUME NoFileIsNoArchive, "replace" \notin Faults, "list" \notin Faults
  PROVE  Spec => []TypeOK
<1>1. ListInv => TypeOK
  <2> SUFFICES ASSUME ListInv PROVE TypeOK
    OBVIOUS
  <2>1. FileTypeOK
    BY DEF ListInv, Inv, WorkIsWhole, Lists, Good, FileTypeOK
  <2>2. mem.experiments \in
          BoundedSeq([id : {Unsaved} \cup ExpIds, data : Datas, dirty : BOOLEAN], MaxExpId)
    <3> DEFINE es == mem.experiments
    <3>1. es \in Seq(Exps) /\ Len(es) \in Nat /\ Len(es) <= MaxExpId
      BY MemoryFields DEF ListInv, Listed
    <3>2. es \in [1 .. Len(es) -> Exps] /\ Len(es) \in 0 .. MaxExpId
      BY <3>1, MaxExpIdAssumption
    <3> HIDE DEF es
    <3>3. es \in SeqOf(Exps, MaxExpId)
      BY <3>2 DEF SeqOf
    <3> QED
      BY <3>3 DEF BoundedSeq, Exps, es
  <2>3. mem \in Memories
    BY <2>2 DEF ListInv, Listed, Memory, Memories, TabStates
  <2> QED
    BY <2>1, <2>3 DEF ListInv, TypeOK
<1> QED
  BY <1>1, ListInvariance, PTL

(* Two experiments never share an id.                                        *)
THEOREM IdsAreDistinct ==
  ASSUME NoFileIsNoArchive, "replace" \notin Faults, "list" \notin Faults
  PROVE  Spec => []ExperimentIdsDistinct
<1>1. ListInv => ExperimentIdsDistinct
  BY DEF ListInv, Listed, DistinctIds, ExperimentIdsDistinct, Unnumbered
<1> QED
  BY <1>1, ListInvariance, PTL

(* An experiment that is not marked unsaved is stored as it is.              *)
THEOREM CleanExperimentsAreStored ==
  ASSUME NoFileIsNoArchive, "replace" \notin Faults, "list" \notin Faults
  PROVE  Spec => []CleanExperimentIsOnDisk
<1>1. ListInv => CleanExperimentIsOnDisk
  <2> SUFFICES ASSUME ListInv, AtRest,
                      NEW n \in DOMAIN mem.experiments \ DirtyExperiments(mem)
               PROVE  LET e == mem.experiments[n] IN
                      /\ file # NoFile /\ e.id \in DOMAIN file.experiments
                      /\ file.experiments[e.id] = e.data
    BY DEF CleanExperimentIsOnDisk
  <2>1. Lists(mem, file)
    BY DEF ListInv, AtRest
  <2>2. mem.experiments # << >> /\ ~mem.experiments[n].dirty
    BY DEF DirtyExperiments
  <2> QED
    BY <2>1, <2>2 DEF Lists, ListOK, Stored
<1> QED
  BY <1>1, ListInvariance, PTL

-----------------------------------------------------------------------------
(* A Ctrl+S                                                                  *)

(* Nothing unsaved is left out of a plan that ends with the tab order.       *)
CoversTabs(p, T) == \A id \in T : \E n \in 1 .. Len(p) : p[n].what = "tab" /\ p[n].of = id

CoversExps(p, E) == \A k \in E : \E n \in 1 .. Len(p) : p[n].what = "experiment" /\ p[n].of = k

Covers(p, m) ==
  p # << >> /\ p[Len(p)].what = "order" =>
    CoversTabs(p, DirtyTabs(m)) /\ CoversExps(p, DirtyExperiments(m))

SaveInv ==
  /\ Covers(plan, mem)
  /\ step = "done" /\ ok /\ Head(plan).what = "order" =>
       file.tabOrder = PersistableTabOrder(mem)

(* A plan without the tab order promises nothing.                            *)
LEMMA NothingToCover == ASSUME NEW m PROVE Covers(<< >>, m)
  BY DEF Covers

LEMMA OneCovers ==
  ASSUME NEW m, NEW i, i.what # "order"
  PROVE  Covers(<<i>>, m)
<1>1. Len(<<i>>) = 1 /\ <<i>>[1] = i
  OBVIOUS
<1> QED
  BY <1>1 DEF Covers

(* A Ctrl+S plans a call for everything unsaved.                             *)
LEMMA SavePlanCovers ==
  ASSUME NEW m, NEW tabs \in Orders(DirtyTabs(m)), NEW exps \in ListOrders(DirtyExperiments(m))
  PROVE  Covers(SavePlan(tabs, exps), m)
<1> DEFINE a == ItemsOf("tab", tabs)
           b == ItemsOf("experiment", exps)
           o == <<Item("order")>>
           ab == a \o b
           p == ab \o o
<1>1. /\ tabs \in Seq(DirtyTabs(m)) /\ exps \in Seq(DirtyExperiments(m))
      /\ ToSet(tabs) = DirtyTabs(m) /\ ToSet(exps) = DirtyExperiments(m)
  BY OrdersAreSequences DEF ListOrders, Orders
<1> DEFINE S == {ItemOf("tab", x) : x \in DirtyTabs(m)}
                \cup {ItemOf("experiment", x) : x \in DirtyExperiments(m)} \cup {Item("order")}
<1>2. /\ a \in Seq(S) /\ Len(a) = Len(tabs) /\ \A n \in 1 .. Len(tabs) : a[n] = ItemOf("tab", tabs[n])
      /\ b \in Seq(S) /\ Len(b) = Len(exps)
      /\ \A n \in 1 .. Len(exps) : b[n] = ItemOf("experiment", exps[n])
  BY <1>1 DEF ItemsOf
<1>3. o \in Seq(S) /\ Len(o) = 1
  OBVIOUS
<1> HIDE DEF a, b, o, S
<1>a. a \in Seq(S) /\ b \in Seq(S)
  BY <1>2
<1>4. /\ ab \in Seq(S) /\ Len(ab) = Len(a) + Len(b)
      /\ \A n \in 1 .. Len(a) + Len(b) : ab[n] = IF n <= Len(a) THEN a[n] ELSE b[n - Len(a)]
  BY <1>a, ConcatProperties
<1> HIDE DEF ab
<1>b. ab \in Seq(S) /\ o \in Seq(S)
  BY <1>3, <1>4
<1>c. /\ p \in Seq(S) /\ Len(p) = Len(ab) + Len(o)
       /\ \A n \in 1 .. Len(ab) + Len(o) : p[n] = IF n <= Len(ab) THEN ab[n] ELSE o[n - Len(ab)]
  BY <1>b, ConcatProperties
<1>5. /\ p \in Seq(S) /\ Len(p) = Len(ab) + 1
      /\ \A n \in 1 .. Len(ab) + 1 : p[n] = IF n <= Len(ab) THEN ab[n] ELSE o[n - Len(ab)]
  BY <1>3, <1>c
<1> HIDE DEF p
<1>6. Len(a) \in Nat /\ Len(b) \in Nat /\ Len(ab) = Len(a) + Len(b)
  BY <1>a, <1>4, LenProperties
<1>7. ASSUME NEW n \in 1 .. Len(a)
      PROVE  n \in 1 .. Len(p) /\ p[n] = a[n]
  BY <1>4, <1>5, <1>6
<1>8. ASSUME NEW n \in 1 .. Len(b)
      PROVE  Len(a) + n \in 1 .. Len(p) /\ p[Len(a) + n] = b[n]
  <2>1. Len(a) + n \in 1 .. Len(ab) /\ Len(a) + n <= Len(ab) /\ ~(Len(a) + n <= Len(a))
        /\ (Len(a) + n) - Len(a) = n
    BY <1>6
  <2>2. p[Len(a) + n] = ab[Len(a) + n] /\ Len(a) + n \in 1 .. Len(p)
    BY <1>5, <1>6, <2>1
  <2>3. ab[Len(a) + n] = b[n]
    BY <1>4, <1>6, <2>1
  <2> QED
    BY <2>2, <2>3
<1>9. CoversTabs(p, DirtyTabs(m))
  <2> SUFFICES ASSUME NEW id \in DirtyTabs(m)
               PROVE  \E n \in 1 .. Len(p) : p[n].what = "tab" /\ p[n].of = id
    BY DEF CoversTabs
  <2>1. PICK n \in 1 .. Len(tabs) : tabs[n] = id
    BY <1>1 DEF ToSet
  <2>2. n \in 1 .. Len(p) /\ p[n] = ItemOf("tab", id)
    BY <1>2, <1>7, <2>1
  <2> QED
    BY <2>2 DEF ItemOf
<1>10. CoversExps(p, DirtyExperiments(m))
  <2> SUFFICES ASSUME NEW k \in DirtyExperiments(m)
               PROVE  \E n \in 1 .. Len(p) : p[n].what = "experiment" /\ p[n].of = k
    BY DEF CoversExps
  <2>1. PICK n \in 1 .. Len(exps) : exps[n] = k
    BY <1>1 DEF ToSet
  <2>2. Len(a) + n \in 1 .. Len(p) /\ p[Len(a) + n] = ItemOf("experiment", k)
    BY <1>2, <1>8, <2>1
  <2> QED
    BY <2>2 DEF ItemOf
<1> QED
  BY <1>9, <1>10 DEF Covers, SavePlan, p, ab, a, b, o

(* What the first call has saved need not be covered any more.               *)
LEMMA RestCovers ==
  ASSUME NEW p, NEW S, p \in Seq(S), p # << >>, NEW m, Covers(p, m), NEW n,
         DirtyTabs(n) \subseteq DirtyTabs(m), DirtyExperiments(n) \subseteq DirtyExperiments(m),
         Head(p).what = "tab" => Head(p).of \notin DirtyTabs(n),
         Head(p).what = "experiment" => Head(p).of \notin DirtyExperiments(n)
  PROVE  Covers(Tail(p), n)
<1> DEFINE t == Tail(p)
<1>1. /\ t \in Seq(S) /\ Len(t) = Len(p) - 1 /\ Len(p) \in Nat \ {0}
      /\ Head(p) = p[1]
      /\ \A k \in 1 .. Len(t) : t[k] = p[k + 1]
  OBVIOUS
<1> HIDE DEF t
<1>2. SUFFICES ASSUME t # << >>, t[Len(t)].what = "order"
               PROVE  CoversTabs(t, DirtyTabs(n)) /\ CoversExps(t, DirtyExperiments(n))
  BY DEF Covers, t
<1>3. Len(t) # 0
  BY <1>1, <1>2, EmptySeq
<1>4. p[Len(p)] = t[Len(t)]
  BY <1>1, <1>3
<1>5. CoversTabs(p, DirtyTabs(m)) /\ CoversExps(p, DirtyExperiments(m))
  BY <1>2, <1>4 DEF Covers
<1>6. ASSUME NEW k \in 1 .. Len(p), k # 1
      PROVE  k - 1 \in 1 .. Len(t) /\ t[k - 1] = p[k]
  BY <1>1, <1>6
<1>7. CoversTabs(t, DirtyTabs(n))
  <2> SUFFICES ASSUME NEW id \in DirtyTabs(n)
               PROVE  \E k \in 1 .. Len(t) : t[k].what = "tab" /\ t[k].of = id
    BY DEF CoversTabs
  <2>1. PICK k \in 1 .. Len(p) : p[k].what = "tab" /\ p[k].of = id
    BY <1>5 DEF CoversTabs
  <2>2. k # 1
    BY <1>1, <2>1
  <2> QED
    BY <1>6, <2>1, <2>2
<1>8. CoversExps(t, DirtyExperiments(n))
  <2> SUFFICES ASSUME NEW x \in DirtyExperiments(n)
               PROVE  \E k \in 1 .. Len(t) : t[k].what = "experiment" /\ t[k].of = x
    BY DEF CoversExps
  <2>1. PICK k \in 1 .. Len(p) : p[k].what = "experiment" /\ p[k].of = x
    BY <1>5 DEF CoversExps
  <2>2. k # 1
    BY <1>1, <2>1
  <2> QED
    BY <1>6, <2>1, <2>2
<1> QED
  BY <1>7, <1>8

(* A successful call saves what it was planned for.                          *)
LEMMA FinishSaveInv ==
  ASSUME ListInv, SaveInv, Finish
  PROVE  SaveInv'
<1> DEFINE i == Head(plan)
           n == Succeeded(i, mem, file)
<1>1. /\ step = "done" /\ step' = "idle" /\ plan # << >> /\ PlanOK(plan, mem)
      /\ Planned(i, mem) /\ mem \in Memory /\ DOMAIN mem = MemFields
  BY HeadPlanned, MemoryFields DEF Finish, Taken, ListInv, Inv, Listed
<1>2. SUFFICES Covers(plan', mem')
  BY <1>1 DEF SaveInv
<1>3. CASE ~ok
  BY <1>3, NothingToCover DEF Finish
<1>4. CASE ok /\ i.what \notin Leading
  <2>1. PICK S : plan \in Seq(S)
    BY <1>1 DEF PlanOK
  <2>2. 1 \in 1 .. Len(plan) /\ plan[1] = i /\ Len(plan) \in Nat
    BY <1>1, <2>1
  <2>3. Len(plan) = 1
    BY <1>1, <1>4, <2>2 DEF PlanOK
  <2>4. plan' = << >>
    BY <1>1, <1>4, <2>1, <2>3 DEF Finish
  <2> QED
    BY <2>4, NothingToCover
<1>5. CASE ok /\ i.what \in Leading
  <2>1. mem' = CaptureStrip(n) /\ plan' = Tail(plan)
    BY <1>5 DEF Finish
  <2>2. /\ DirtyTabs(n) \subseteq DirtyTabs(mem) /\ DirtyExperiments(n) \subseteq DirtyExperiments(mem)
        /\ i.what = "tab" => i.of \notin DirtyTabs(n)
        /\ i.what = "experiment" => i.of \notin DirtyExperiments(n)
        /\ DOMAIN n = MemFields
    <3>1. CASE i.what \in {"createFirst", "order"}
      BY <1>1, <3>1 DEF Succeeded
    <3>2. CASE i.what = "tab"
      <4>1. n = TabSaved(mem, i.of) /\ i.of \in DOMAIN mem.sessions
        BY <1>1, <3>2 DEF Succeeded, Planned
      <4>2. /\ DOMAIN n = MemFields /\ n.experiments = mem.experiments
            /\ n.sessions = [mem.sessions EXCEPT ![i.of].dirty = FALSE]
        BY <1>1, <4>1 DEF TabSaved, MemFields
      <4>3. mem.sessions[i.of] \in TabStates
        BY <1>1, <4>1, MemoryFields, SomeIs
      <4> HIDE DEF n
      <4>4. n.sessions[i.of].dirty = FALSE /\ DOMAIN n.sessions = DOMAIN mem.sessions
            /\ \A x \in DOMAIN mem.sessions \ {i.of} : n.sessions[x] = mem.sessions[x]
        BY <4>1, <4>2, <4>3 DEF TabStates
      <4> QED
        BY <3>2, <4>2, <4>4 DEF DirtyTabs, DirtyExperiments
    <3>3. CASE i.what = "experiment"
      <4> DEFINE es == mem.experiments
      <4>0. i.of \in DOMAIN es /\ es \in Seq(Exps)
        BY <1>1, <3>3, HeadAsked, MemoryFields DEF ListInv, Asked
      <4>1. /\ DOMAIN n = MemFields /\ n.sessions = mem.sessions
            /\ n.experiments = [es EXCEPT ![i.of].dirty = FALSE]
        BY <1>1, <3>3 DEF Succeeded, MemFields
      <4>2. es[i.of] \in Exps
        BY <4>0, ListMembers
      <4> HIDE DEF n
      <4>3. n.experiments[i.of].dirty = FALSE /\ DOMAIN n.experiments = DOMAIN es
            /\ \A x \in DOMAIN es \ {i.of} : n.experiments[x] = es[x]
        BY <4>0, <4>1, <4>2 DEF Exps
      <4> QED
        BY <3>3, <4>1, <4>3 DEF DirtyTabs, DirtyExperiments
    <3> QED
      BY <1>5, <3>1, <3>2, <3>3 DEF Leading
  <2> HIDE DEF n
  <2>3. DirtyTabs(mem') = DirtyTabs(n) /\ DirtyExperiments(mem') = DirtyExperiments(n)
    BY <2>1, <2>2 DEF CaptureStrip, MemFields, DirtyTabs, DirtyExperiments
  <2>4. PICK S : plan \in Seq(S)
    BY <1>1 DEF PlanOK
  <2> QED
    BY <1>1, <2>1, <2>2, <2>3, <2>4, RestCovers DEF SaveInv
<1> QED
  BY <1>3, <1>4, <1>5

(* While a call runs the rest of the plan still covers what is unsaved.      *)
LEMMA StepSaveInv ==
  ASSUME "replace" \notin Faults, ListInv, SaveInv, StartExperiment \/ Start \/ StoreStep
  PROVE  SaveInv'
<1> DEFINE i == Head(plan)
<1>1. mem \in Memory /\ DOMAIN mem = MemFields /\ Inv /\ WorkIsWhole
  BY MemoryFields DEF ListInv, Listed, Inv
<1>2. CASE StartExperiment
  <2>1. PICK id : mem' = WithId(mem, i.of, id)
    BY <1>2 DEF StartExperiment
  <2>2. plan' = plan /\ step' # "done"
    BY <1>2 DEF StartExperiment, Call
  <2>3. DirtyTabs(mem') = DirtyTabs(mem) /\ DirtyExperiments(mem') = DirtyExperiments(mem)
    <3> DEFINE es == mem.experiments
    <3>1. CASE es[i.of].id = Unsaved
      <4>1. /\ mem'.sessions = mem.sessions
            /\ mem'.experiments = [es EXCEPT ![i.of].id = id]
        BY <1>1, <2>1, <3>1 DEF WithId, MemFields
      <4>2. \A k \in DOMAIN es : es[k] \in Exps
        BY <1>1, MemoryFields, ListMembers
      <4>3. DOMAIN mem'.experiments = DOMAIN es
        BY <4>1
      <4>4. ASSUME NEW k \in DOMAIN es
            PROVE  mem'.experiments[k].dirty = es[k].dirty
        BY <4>1, <4>2 DEF Exps
      <4> QED
        BY <4>1, <4>3, <4>4 DEF DirtyTabs, DirtyExperiments
    <3>2. CASE es[i.of].id # Unsaved
      BY <2>1, <3>2 DEF WithId
    <3> QED
      BY <3>1, <3>2
  <2> QED
    BY <2>2, <2>3 DEF SaveInv, Covers
<1>3. CASE Start
  <2>1. mem' = mem /\ plan' = plan /\ step' # "done"
    BY <1>3 DEF Start, Call
  <2> QED
    BY <2>1 DEF SaveInv, Covers, DirtyTabs, DirtyExperiments
<1>4. CASE StoreStep
  <2>1. /\ mem' = mem /\ plan' = plan /\ step # "idle" /\ op = Requested(i, mem)
        /\ Lists(mem, file)
    BY <1>1, <1>4 DEF StoreStep, FileStep, CreateWrites, CreateFails, Copy, CopyFails, Mutate,
         MutateThrows, Heal, HealFails, Rename, CreateRenameFails, RemoveArchive, RenameAgain,
         RenameAgainFails, RenameOver, Fail, Goto, Return, Inv, ListInv
  <2>2. Covers(plan', mem')
    BY <2>1 DEF SaveInv, Covers, DirtyTabs, DirtyExperiments
  <2>3. SUFFICES ASSUME step' = "done", ok', i.what = "order"
                 PROVE  file'.tabOrder = PersistableTabOrder(mem)
    BY <2>1, <2>2 DEF SaveInv, PersistableTabOrder
  <2>4. Rename \/ RenameAgain
    BY <1>4, <2>3 DEF StoreStep, FileStep, CreateWrites, CreateFails, Copy, CopyFails, Mutate,
         MutateThrows, Heal, HealFails, CreateRenameFails, RemoveArchive,
         RenameAgainFails, Fail, Goto, Return
  <2>5. /\ file' = Applied(op, file)
        /\ file = NoFile => op.kind = "create"
    BY <1>1, <2>4 DEF Rename, RenameAgain, RenameOver, WorkIsWhole
  <2>6. op = [kind |-> "saveTabOrder", order |-> PersistableTabOrder(mem)]
    BY <2>1, <2>3 DEF Requested
  <2>7. file' = SaveTabOrder(file, PersistableTabOrder(mem)) /\ file # NoFile
    BY <2>5, <2>6 DEF Applied
  <2>8. DOMAIN file = ArchiveFields
    BY <1>1, <2>7 DEF Inv, Matching
  <2> QED
    BY <2>7, <2>8 DEF SaveTabOrder, ArchiveFields
<1> QED
  BY <1>2, <1>3, <1>4

(* Only a Ctrl+S ends a plan with the tab order.                             *)
LEMMA UserSaveInv ==
  ASSUME ListInv, SaveInv, User
  PROVE  SaveInv'
<1>1. Act
  BY DEF User, NewProject, CreateFromDataset, OpenExisting, Reopen, AddDataset,
     RemoveDataset, RenameDataset, OpenDataset, CloseDataset, EditDataset,
     ComparatorSources, RunBatch, NewExperiment, EditExperiment, DeleteExperiment,
     SaveEverything, SaveTab, WriteRecipe, RemoveRecipe, GoHome, Plans, Changes, InProject
<1>2. step' = "idle" /\ plan = << >>
  BY <1>1 DEF Act, fileVars
<1>3. SUFFICES Covers(plan', mem')
  BY <1>2 DEF SaveInv
<1>4. CASE plan' = << >>
  BY <1>4, NothingToCover
<1>5. CASE SaveEverything
  <2>1. mem' = mem /\ \E tabs \in Orders(DirtyTabs(mem)), exps \in ListOrders(DirtyExperiments(mem)) :
          plan' = SavePlan(tabs, exps)
    BY <1>5 DEF SaveEverything
  <2> QED
    BY <2>1, SavePlanCovers
<1>6. CASE CreateFromDataset
  <2>1. PICK id \in Sources, data \in Datas :
          plan' = <<Item("createFirst"), ItemWith("addFirst", id, data)>>
    BY <1>6 DEF CreateFromDataset
  <2>2. Len(plan') = 2 /\ plan'[2] = ItemWith("addFirst", id, data)
    BY <2>1
  <2>3. plan'[2].what # "order"
    BY <2>2 DEF ItemWith
  <2> QED
    BY <2>2, <2>3 DEF Covers
<1>7. CASE plan' # << >> /\ ~SaveEverything /\ ~CreateFromDataset
  <2>1. \E i : i.what # "order" /\ plan' = <<i>>
    <3>1. CASE NewProject
      <4>1. plan' = <<Item("createEmpty")>> /\ Item("createEmpty").what # "order"
        BY <3>1 DEF NewProject, Item
      <4> QED
        BY <4>1
    <3>2. \A w, x : ItemOf(w, x).what = w /\ \A y : ItemWith(w, x, y).what = w
      BY DEF ItemOf, ItemWith
    <3>3. \A w : w \in {"remove", "delete", "tab", "recipe", "unrecipe", "add", "rename", "batch"} =>
             w # "order"
      OBVIOUS
    <3>4. CASE \E w, x : /\ w \in {"remove", "delete", "tab", "recipe", "unrecipe"}
                         /\ plan' = <<ItemOf(w, x)>>
      BY <3>2, <3>3, <3>4
    <3>5. CASE \E w, x, y : w \in {"add", "rename", "batch"} /\ plan' = <<ItemWith(w, x, y)>>
      BY <3>2, <3>3, <3>5
    <3>6. CASE RemoveDataset \/ SaveTab \/ WriteRecipe \/ RemoveRecipe \/ DeleteExperiment
      <4>1. CASE RemoveDataset
        BY <3>4, <4>1 DEF RemoveDataset, Plans
      <4>2. CASE SaveTab
        BY <3>4, <4>2 DEF SaveTab, Plans
      <4>3. CASE WriteRecipe
        BY <3>4, <4>3 DEF WriteRecipe, Plans
      <4>4. CASE RemoveRecipe
        BY <3>4, <4>4 DEF RemoveRecipe, Plans
      <4>5. CASE DeleteExperiment
        BY <1>2, <1>7, <3>4, <4>5 DEF DeleteExperiment, Plans, Changes
      <4> QED
        BY <3>6, <4>1, <4>2, <4>3, <4>4, <4>5
    <3>7. CASE AddDataset \/ RenameDataset \/ RunBatch
      BY <3>5, <3>7 DEF AddDataset, RenameDataset, RunBatch, Plans
    <3>8. CASE \/ OpenExisting \/ Reopen \/ GoHome \/ OpenDataset \/ CloseDataset \/ EditDataset
               \/ ComparatorSources \/ NewExperiment \/ EditExperiment
      BY <1>2, <1>7, <3>8 DEF OpenExisting, Reopen, GoHome, OpenDataset, CloseDataset, EditDataset,
           ComparatorSources, NewExperiment, EditExperiment, Changes
    <3> QED
      BY <1>7, <3>1, <3>6, <3>7, <3>8 DEF User
  <2> QED
    BY <2>1, OneCovers
<1> QED
  BY <1>4, <1>5, <1>6, <1>7

(* A plan that ends with the tab order leaves nothing unsaved behind.        *)
THEOREM SaveInvariance ==
  ASSUME NoFileIsNoArchive, "replace" \notin Faults, "list" \notin Faults
  PROVE  Spec => []SaveInv
<1>1. Init => SaveInv
  BY NothingToCover DEF Init, FileInit, SaveInv
<1>2. ListInv /\ SaveInv /\ [Next]_vars => SaveInv'
  <2> SUFFICES ASSUME ListInv, SaveInv, [Next]_vars PROVE SaveInv'
    OBVIOUS
  <2>1. CASE StartExperiment \/ Start \/ StoreStep
    BY <2>1, StepSaveInv
  <2>2. CASE SkipOrder
    <3>1. /\ plan # << >> /\ step' = "idle" /\ plan' = Tail(plan) /\ mem' = mem
          /\ Head(plan).what = "order"
      BY <2>2 DEF SkipOrder, OrderUnchanged, Turn, fileVars
    <3>2. PICK S : plan \in Seq(S)
      BY DEF ListInv, Inv, PlanOK
    <3>3. Covers(Tail(plan), mem)
      BY <3>1, <3>2, RestCovers DEF SaveInv
    <3> QED
      BY <3>1, <3>3 DEF SaveInv
  <2>3. CASE Finish
    BY <2>3, FinishSaveInv
  <2>4. CASE User
    BY <2>4, UserSaveInv
  <2>5. CASE Crash
    BY <2>5, NothingToCover DEF Crash, FileCrash, SaveInv
  <2>6. CASE UNCHANGED vars
    BY <2>6 DEF vars, SaveInv, Covers, DirtyTabs, DirtyExperiments, PersistableTabOrder
  <2> QED
    BY <2>1, <2>2, <2>3, <2>4, <2>5, <2>6 DEF Next
<1> QED
  BY <1>1, <1>2, ListInvariance, PTL DEF Spec

-----------------------------------------------------------------------------
(* What the archive shows when it is opened again                            *)

(* What is all saved opens again as it is.                                   *)
LEMMA Reopened ==
  ASSUME NEW m, NEW c, MemOK(m), m.multiWorkspaceOpen, Agrees(m, c), Lists(m, c),
         DirtyTabs(m) = {}, DirtyExperiments(m) = {}, c.tabOrder = DOMAIN m.sessions,
         NEW again, again = OpenProject(Launched, c)
  PROVE  /\ again.sessions = m.sessions
         /\ ToSet(m.experiments) \subseteq ToSet(again.experiments)
<1> DEFINE l == LoadInto(Launched, c)
           e == ClearExperiments(l)
           x == LoadExperiments(e, c)
           r == RestoreOpenEmbeddedTabs(x, c)
<1>1. /\ c # NoFile /\ Good(c) /\ ListOK(m.experiments, c) /\ m \in Memory
      /\ m.sessions \in Some(Sources, TabStates)
  BY MemoryFields DEF Agrees, Lists
<1>2. l \in Memory /\ l.openTabIds = c.tabOrder /\ l.sessions = Nothing
  <2>1. Launched \in Memory
    BY <1>1, LaunchedLists DEF Lists
  <2>2. l \in Memory
    BY <1>1, <2>1, ProjectOpsKeepList DEF KeepsList
  <2> QED
    BY <2>2 DEF LoadInto, Launched
<1>3. /\ e \in Memory /\ e.experiments = << >> /\ e.openTabIds = c.tabOrder
      /\ e.sessions = Nothing
  <2>1. << >> \in Seq(Exps)
    OBVIOUS
  <2> HIDE DEF l
  <2> QED
    BY <1>2, <2>1 DEF ClearExperiments, Memory
<1> HIDE DEF e
<1>4. IdsInMemory(e) = {}
  BY <1>3 DEF IdsInMemory
<1>5. /\ x \in Memory /\ x.sessions = Nothing /\ x.openTabIds = c.tabOrder
      /\ \A id \in c.listedExps : \E k \in DOMAIN x.experiments :
           x.experiments[k] = [id |-> id, data |-> c.experiments[id], dirty |-> FALSE]
  BY <1>1, <1>3, <1>4, EmptyListOK, LoadedLists
<1> HIDE DEF x
<1>6. /\ r.experiments = x.experiments
      /\ r.sessions = [id \in c.tabOrder \cap DOMAIN c.groups |-> Loaded(c, id)]
  <2>1. DOMAIN x = MemFields
    BY <1>5, MemoryFields
  <2>2. r.sessions = [id \in DOMAIN x.sessions \cup (x.openTabIds \cap DOMAIN c.groups) |->
                        IF id \in DOMAIN x.sessions THEN x.sessions[id] ELSE Loaded(c, id)]
        /\ r.experiments = x.experiments
    BY <2>1 DEF RestoreOpenEmbeddedTabs, OpenTabs, MemFields
  <2>3. DOMAIN x.sessions = {}
    BY <1>5 DEF Nothing
  <2> QED
    BY <1>5, <2>2, <2>3
<1>7. again.experiments = r.experiments /\ again.sessions = r.sessions
  <2>1. r \in Memory
    BY <1>1, <1>5, ProjectOpsKeepList DEF RestoreOpenEmbeddedTabs, KeepsList
  <2>2. again = RefreshBatchRecipes(r, c)
    BY DEF OpenProject, r, x, e
  <2> HIDE DEF r
  <2> QED
    BY <2>1, <2>2, MemoryFields DEF RefreshBatchRecipes, MemFields
<1> HIDE DEF r
<1>8. again.sessions = m.sessions
  <2>1. DOMAIN m.sessions \subseteq DOMAIN c.groups
    BY DEF Agrees
  <2>2. ASSUME NEW id \in DOMAIN m.sessions
        PROVE  m.sessions[id] = Loaded(c, id)
    <3>1. m.sessions[id] \in TabStates
      BY <1>1, SomeIs
    <3>2. m.sessions[id].dirty = FALSE /\ m.sessions[id].data = c.groups[id].data
      BY <3>1 DEF DirtyTabs, Agrees, TabStates
    <3> QED
      BY <3>1, <3>2 DEF Loaded, TabStates
  <2>3. c.tabOrder \cap DOMAIN c.groups = DOMAIN m.sessions
    BY <2>1
  <2>4. m.sessions \in [DOMAIN m.sessions -> TabStates]
    BY <1>1, SomeIs
  <2> QED
    BY <1>6, <1>7, <2>2, <2>3, <2>4
<1>9. ToSet(m.experiments) \subseteq ToSet(again.experiments)
  <2> DEFINE es == m.experiments
  <2>1. \A n \in DOMAIN es : es[n] \in Exps /\ es[n].dirty \in BOOLEAN
    BY <1>1, ListMembers DEF ListOK
  <2> SUFFICES ASSUME NEW n \in DOMAIN es
               PROVE  \E k \in DOMAIN again.experiments : again.experiments[k] = es[n]
    BY DEF ToSet
  <2>2. es[n].dirty = FALSE
    BY <2>1 DEF DirtyExperiments
  <2>3. es[n].id \in c.listedExps /\ c.experiments[es[n].id] = es[n].data
    BY <1>1, <2>2, GoodIds DEF ListOK, Stored
  <2>4. es[n] = [id |-> es[n].id, data |-> c.experiments[es[n].id], dirty |-> FALSE]
    BY <2>1, <2>2, <2>3 DEF Exps
  <2> HIDE DEF es
  <2> QED
    BY <1>5, <1>6, <1>7, <2>3, <2>4
<1> QED
  BY <1>8, <1>9

(* A Ctrl+S that reported no error saved everything.                         *)
THEOREM SavesAreComplete ==
  ASSUME NoFileIsNoArchive, "replace" \notin Faults, "list" \notin Faults
  PROVE  Spec => SavedIsRestored
<1> DEFINE Restored ==
      EverythingSaved =>
        LET again == OpenProject(Launched, file) IN
        /\ again.sessions = mem.sessions
        /\ ToSet(mem.experiments) \subseteq ToSet(again.experiments)
<1>1. ListInv /\ SaveInv /\ [Next]_vars => [Restored]_vars
  <2> SUFFICES ASSUME ListInv, SaveInv, Next, EverythingSaved
               PROVE  LET again == OpenProject(Launched, file) IN
                      /\ again.sessions = mem.sessions
                      /\ ToSet(mem.experiments) \subseteq ToSet(again.experiments)
    OBVIOUS
  <2>1. /\ plan = <<Item("order")>> /\ Head(plan) = Item("order") /\ Head(plan).what = "order"
        /\ mem.tabStripOrder = DOMAIN mem.sessions
    BY DEF EverythingSaved, Item
  <2>2. PersistableTabOrder(mem) = DOMAIN mem.sessions
    BY <2>1 DEF PersistableTabOrder
  <2>3. DirtyTabs(mem) = {} /\ DirtyExperiments(mem) = {}
    <3>1. Len(plan) = 1 /\ plan[1].what = "order" /\ 1 .. Len(plan) = {1} /\ plan # << >>
      BY <2>1
    <3>2. CoversTabs(plan, DirtyTabs(mem)) /\ CoversExps(plan, DirtyExperiments(mem))
      BY <3>1 DEF SaveInv, Covers
    <3> QED
      BY <3>1, <3>2 DEF CoversTabs, CoversExps
  <2>4. MemOK(mem) /\ Planned(Head(plan), mem)
    BY <2>1, HeadPlanned DEF ListInv, Inv
  <2>5. mem.multiWorkspaceOpen
    BY <2>1, <2>4 DEF Planned
  <2>6. /\ Agrees(mem, file) /\ Lists(mem, file)
        /\ file.tabOrder = PersistableTabOrder(mem)
    <3>1. CASE SkipOrder
      BY <3>1 DEF SkipOrder, Turn, OrderUnchanged, ListInv, Inv
    <3>2. CASE step = "done" /\ ok
      <4>1. Succeeded(Head(plan), mem, file) = mem
        BY <2>1 DEF Succeeded
      <4> QED
        BY <2>1, <3>2, <4>1 DEF ListInv, Inv, SaveInv
    <3> QED
      BY <3>1, <3>2 DEF EverythingSaved
  <2> QED
    BY <2>2, <2>3, <2>4, <2>5, <2>6, Reopened
<1> QED
  BY <1>1, ListInvariance, SaveInvariance, PTL DEF Spec, SavedIsRestored
================================================================================
