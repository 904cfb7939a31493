# TLA+ models of FTS Data Explorer

This directory holds TLA+ specifications of the FTS Data Explorer (the GUI
program under `src/`), the TLC configurations that check them on small
instances, and TLAPS proofs of the results that matter for every instance.

* [1. The system](#1-the-system): components, state, interactions, what is hard
* [2. The modules](#2-the-modules) and how they correspond to the code
* [3. The runs](#3-the-runs): what each checks, its bounds, fairness
* [4. The proofs](#4-the-proofs)
* [5. Where the code disagrees with itself](#5-where-the-code-disagrees-with-itself)
* [6. What is not modelled](#6-what-is-not-modelled)
* [7. The plan](#7-the-plan)

To repeat everything, in this directory:

    tlc -config TabsDiskFaults.cfg MCTabLifecycle      # and the other .cfg
    tlc -config ThreadPool.cfg MCThreadPool
    tlc -config ProjectStore.cfg MCProjectStore
    tlc -config PanelBatch.cfg MCPanelBatch            # and LateStamp.cfg
    tlc -config RecomputeChain.cfg MCRecomputeChain
    tlc -config ConversionScreen.cfg MCConversionScreen
    tlc -config BatchEngine.cfg MCBatchEngine
    tlapm TabLifecycleProofs.tla                       # 5 to 10 minutes
    tlapm TabFlowProofs.tla                            # 5 minutes
    tlapm ThreadPoolProofs.tla                         # the others: at most 3 each
    tlapm ProjectStoreProofs.tla
    tlapm ConversionScreenProofs.tla
    tlapm PanelBatchProofs.tla
    tlapm RecomputeChainProofs.tla
    tlapm BatchEngineProofs.tla

## 1. The system

The program shows Fourier-transform-spectrometer recordings.  A *workspace* is
one `.h5` file with recordings and the results computed from them; a
*multi-workspace* (project) is one archive that embeds several workspaces
("sources", "datasets") and *experiments*, small analyses that compare sources.
It is an ImGui program: one UI thread runs a frame after the other, a thread
pool computes.

### Components

| Component (code) | State it keeps | Operations | Interacts with |
|---|---|---|---|
| Tab lifecycle (`session/workspace_session.cpp`, `main.cpp`) | `sessions`, `active`, `activeSessionIdx`, `activeTabKind`, `lastActiveSessionIdx`, queued switch / open / close / remove indices | open, switch, close, remove a tab | everything: all panels read `active` |
| Unsaved-changes flows (`ui/app_loop.cpp`, `main.cpp`, `core/app_state.cpp`) | the four modals' flags, `pendingWorkspaceAction`, the Save All work list and cursor, `exitDeferredClose`, `exitTargetIsGoHome` | Save / Don't Save / Cancel, stale-drop prompt, Save All / Discard All, go home, exit | tab lifecycle, experiments, the disk |
| Main loop (`ui/app_loop.cpp` `runFrame`) | the phase of the frame | frame top, events, poll of background work, input, UI | calls all the others in a fixed order |
| Experiments (`session/environment_session.cpp`) | the list, focus, `dirty`, `hidden`, saved id | create, show, hide, delete, save, load | project archive, prompts, exit |
| Session tab (`session/session_tab.cpp`) | `multiWorkspace` | create / open project, open or delete a dataset, new experiment | tab lifecycle, archive |
| Archive store (`session/multi_workspace_store.cpp`) | the `.h5` archive: manifest, one group per source, per experiment, recipes | create, add, remove, rename, save a source; save, remove an experiment; recipes | the filesystem: copy to `.tmp`, change, rename |
| Thread pool (`workspace/thread_pool.h`) | queue, running count, stop flag | enqueue, waitAll, destroy | every computation; one mutex, one condition variable |
| Panel computations (`panels/average_spectrum.cpp`, `snr_spectrum.cpp`, `allan_variance.cpp`, `t100.cpp`, `spectrum.cpp`) | per-tab batch: settings of the submission, submitted / completed counts, futures, buffered spectra | start, tick once per frame, reset, finish, convert to another unit | thread pool, the workspace's artifacts |
| Recompute chain (`workspace/workspace_reader.cpp`) | pending steps, active step, two latches | request, tick once per frame | the Average and the 100% T panel, one step after the other |
| Spectral pool (`session/spectral_pool.cpp`) | spectra by fingerprint | look up, request, store, evict | nothing: only `poolEvictKey` is called, on a pool nobody fills |
| Batch engine (`session/batch_engine.cpp`) | recipe, list of datasets, cursor, sub-state of one dataset, list of errors | begin, tick, finish a dataset | thread pool, archive, tabs |
| HDF5 storage (`hdf/`) | none | write / read a workspace | files |
| Numerics (`workspace/*.cpp`) | none | FFT, apodization, Allan variance | - |
| Conversion screen (`panels/conversion_screen.cpp`, `io/converter.cpp`) | three jobs, each a thread and a process; the fields; the modal | convert, convert and open, update, exit, the pull at the start of the program | filesystem, tabs |
| Welcome screen, menu bar, panels, export, headless, chrome | presentation | commands that call the above | - |

### Which behaviours are hard

1. **Indices that live longer than a frame.**  Tabs live in a vector; a switch,
   a close, a removal, the tab a prompt is about, and the Save All list are
   all *indices* queued in one frame and used in a later one.  A removal in
   between shifts them.  `removeTab` patches eleven of them.
2. **Two names for one tab.**  `s.active` (pointer) and `activeSessionIdx`.
   `doSaveWorkspace` takes the data through one and the file through the other.
3. **Four modals that share their state**: the unsaved prompt serves closing a
   tab, replacing a project and closing a workspace; the exit modal serves
   exit and go-home; either can raise the stale-drop prompt in the middle.
4. **Flows of many frames** (Save All saves one tab per frame, after swapping
   it in) during which results arrive, widgets are clicked, and the window's x
   is pressed.
5. **Failures in the middle**: the second of three saves fails.
6. **A condition variable with two kinds of waiters**, signalled outside the mutex.
7. **Results of background work that arrive after their inputs changed**, and
   caches keyed by what the inputs were.
8. **A batch that is polled while its panel changes**: files are deleted, the unit
   of the axis is switched, the selectors are moved, the tab goes to the
   background, a task throws.
9. **A chain of batches** whose steps are observed by their end in the frame it
   happens, with every widget usable in between.
10. **Threads owned by a modal** that may be closed: a `std::thread` assigned or
   destroyed before it was joined ends the program.
11. **A file that is replaced by copy-and-rename**, where the process may die
   between two steps.

### What makes each component correct

* Tabs: pointer and index agree; no tab is open twice; queued indices name tabs
  that exist; a file opened by the user lands in the tab made for it.
* Flows: no change is dropped that the user did not agree to drop; a prompt is
  about what it shows; nothing waits for a prompt that is not there; Save All
  ends; a deferred close is resolved.
* Experiments: none lost unasked; one that is not dirty is in the file.
* Thread pool: no lost wakeup; each task once, in order; waitAll and the
  destructor return, and only when everything is done.
* Archive: on disk there is always an archive, the one before or the one after
  the operation, and the caller is told which; manifest and groups agree; no two
  experiments share an id.
* Project in memory: what is not dirty is what the archive holds, in tabs, in
  experiments and in the copies the comparator keeps; a save is complete: starting
  again and opening the project shows what was there.
* Panel computations: the counters are those of the futures, so a batch ends, and
  with every spectrum; an axis is in the unit it is said to be in; a result is made
  of what the batch was given.
* Recompute chain: a request starts a batch once; what it leaves is up to date;
  it ends.
* Batch engine: a dataset has the whole recipe or a listed reason; it is rewritten
  exactly when it is counted; its open tab follows; a batch ends.
* Conversion screen: every thread is joined before it is assigned or destroyed; no
  converter writes the file that is on screen.

## 2. The modules

    AppStateOps          operators on the AppState record, one per C++ function
      TabLifecycle       the frame loop, the user and the disk around them
        MCTabLifecycle       small instances
        TabLifecycleProofs   theorems about tabs and indices; what each operator does
          TabFlowProofs        theorems about what waits, about unsaved changes
                             and about experiments

    ArchiveOps           the content of an archive, one operator per operation
      ArchivePromise     an operation happens or it does not
      ArchiveFile        the file operations that carry it out; implements ArchivePromise
        ProjectStore     the project in memory, the user, the calls they make
          MCProjectStore     small instances
          ProjectStoreProofs theorems about the files, memory against archive, the
                             experiments, and a complete save

    BatchPromise         what the program relies on of a panel's batch
      PanelBatch         the batch of the Average panel; implements BatchPromise
        MCPanelBatch         a small instance
        PanelBatchProofs     theorems
      RecomputeChain     the chain, on two BatchPromises
        MCRecomputeChain     a small instance
        RecomputeChainProofs theorems

    BatchOfDatasets      what the user of the batch panel is promised
    BatchEngine          the engine; implements BatchOfDatasets
        MCBatchEngine        a small instance
        BatchEngineProofs    theorems

    ConversionScreen     the modal, its jobs and their threads
        MCConversionScreen     a small instance
        ConversionScreenProofs theorems

    TaskPool             what the callers of the pool rely on
    ThreadPool           the pool; implements TaskPool
        MCThreadPool         a small instance
        ThreadPoolProofs     theorems

### AppStateOps and TabLifecycle

The program keeps its state in one global `AppState`; so does the model, as
one record `app` with the source's field names.  Each C++ function that changes
it is one operator from record to record in `AppStateOps`, including every
function it calls; what the function learns from outside (does the write
succeed, what does the archive hold) is an argument.  `TabLifecycle` adds

* `pc`, the phase of the frame that runs next (`runFrame` is a fixed sequence:
  queued switch, queued open, queued save, close prompt, queued removal, Save
  All, go-home, window events, background results, keyboard, UI);
* `wantCapture`, whether a modal was open when the frame began (ImGui's
  `WantCaptureKeyboard`: shortcuts are ignored);
* `events`, a counter that bounds how often the user acts.

Conventions: a tab is named by its stable key, an experiment by an identity;
indices are the code's plus one, so the code's -1 is 0 and `x > idx` reads
alike.  `dirty` and `stale` are sets of keys where the code has a flag in each
session.  Content is abstracted: a tab is dirty or not, its saved results are
stale or not, its file still holds stale results or not.

Three fields are history and no part of the program: `consent` (what the user
agreed to lose), `lost` (what was dropped dirty and without consent) and
`staleOnDisk`.

Phases correspond to the code like this:

| Action | Code |
|---|---|
| `Swap`, `Open`, `Save` | `executePendingSwap`, `executePendingOpen`, `executePendingSave` |
| `ClosePrompt`, `RemoveTabQueued` | the two blocks of `runFrame` that follow |
| `SaveAll` | `advanceExitSaveAll`, one step per frame |
| `Home`, `CloseLastTab`, `GoneHome` | `finalizeGoHome`; its loop over the tabs is one step a tab |
| `Poll` | `pollEvents`: close button, deferral, re-application |
| `BackgroundResult` | a panel's tick that stores a result in the active tab |
| `CtrlS`, `CtrlShiftS`, `CtrlH` | the shortcuts |
| `Press...` | the buttons of the modal that is up (`ExitUp`, `StaleUp`, `UnsavedUp`, `DeleteUp` give the order in which they are drawn) |
| `Click...`, `Open...`, ... | widgets; none reachable while a modal is up |

Menu *Save* is Ctrl+S and menu *Close Workspace* is the x of the active tab, so
they are not repeated.  At most one widget is clicked per frame.

`Freedoms` names what the environment may do beyond the ordinary: writes and
loads that fail, edits that make saved results stale, edits and clicks during
a flow, the window's x while a prompt is up, an experiment with no project.
Each run allows some of them.  The reason is section 5: the code has
disagreements with its own comments that one of these freedoms exposes, and
a run that looks for anything else must exclude that one.

### ArchiveOps, ArchiveFile and ProjectStore

`ArchiveOps` is the content of the project's file, a record of the manifest's
lists (`sources`, `tabOrder`, `listedExps`) and of the groups (`groups`,
`experiments`, `recipes`), and one operator for each `mutate` function of
`multi_workspace_store.cpp`.

`ArchiveFile` is how an operation reaches the disk. The files are `file`, at
`path`, and `tmp`, at `path.tmp`. `atomicMutate` is the steps `copy`,
`mutate`, `heal` (one read-only open of the copy), `rename` and, if the rename
was refused, removal of the archive and `again`; `multiWorkspaceCreate` is
`create` and `rename`. Each file operation is an action, each may fail, and the
process may die between any two (`FileCrash`). `Stale` is a temporary file left
by a crash, whole or torn: the code removes or truncates it before use and never
reads it, so its content is nothing the model needs.

`ArchivePromise` is the abstract specification: a request is answered "ok" when
it is in the file, "failed" when the file is untouched. `Answer` maps the steps
to what the caller has heard; the commit is the rename.

`ProjectStore` adds `mem`, the project's part of `AppState`: the dataset list
and the comparator's `sourceCache` of `SessionTabState`, the batch panel's
recipe list, the embedded tabs, the experiments (ids 1, 2, ... stand for "exp",
"exp_2", ...). A user act either changes `mem` at once or becomes a `plan` of
store calls. `Start`, `StartExperiment` and `SkipOrder` begin the next call,
`StoreStep` is one file operation of it, `Finish` applies its result. The GUI
thread makes the calls, so no user act falls in between; a failure ends the
plan. A `Crash` keeps only the files; `acts` counts what the user did.

What is abstracted: one path and one project; the order of the tabs (only the
set is kept: what is reopened); the content of a dataset or experiment, one of
`Datas`. `OwnName` is the name a dataset carries itself and has until it is
renamed. Results that a save prunes because they are stale are no part of a
content; `TabLifecycle` is about those.

`Faults` names what may fail: a `write` (a copy, a change, a reopening), a
`rename`, and two which passing runs leave out, see section 5: `replace` (the
archive was removed before the second rename) and `list` (the experiments'
list cannot be read although the archive can be written).

### TaskPool and ThreadPool

`TaskPool` is the promise: a task handed in is carried out, once; `waitAll`
and the destructor return when all are.  `ThreadPool` is `thread_pool.h`: a
critical section is one action, and notifications sent after the mutex was
left (`pthread_cond_signal` in `enqueue`, the broadcast of the destructor)
are actions of their own, so anything may come between.  `waiting` is the set
of threads asleep on the condition variable; `SpuriousWakeup` is the licence
POSIX gives it.  The owner is the UI thread: it alone submits, waits and
destroys (every `enqueue` in `src/` is in a function of the UI thread), hence
`enqueue on stopped ThreadPool` cannot be thrown.  `started` and `submitted`
are history.  `Owner` maps the owner's program counter to the promise's state.

### BatchPromise and PanelBatch

`PanelBatch` is one panel of one workspace tab. A frame is `Submit` or `Poll` or
`NothingToTick` (`tickCalculation`; a batch just submitted is polled in the same
tick), `TickChain`, one of the `Widgets`, and `View`, which sees that the unit was
changed; `TaskEnds` is a worker, and may come between any two. `SwitchTab` puts the
tab into the background, where it has no frames and its workers go on. The
variables `total`, `completed`, `taken`, `pending` are the code's counters and
futures: an exception lowers the one and raises the other, an abandoned batch
(`Reset`) leaves its futures to nobody.

A spectrum is its file, the settings it was computed under and the unit its axis
is *really* in: `Convert` from a unit the data is not in gives `Garbage`, which is
how a conversion done twice or not at all shows. `average` is what the panel
displays, `member` what it stored in the workspace, with the label it was given.

`BatchPromise` is what remains of it for the rest of the program: asked for,
submitted with some inputs, ended with a result made of at least `Enough` of
them, or abandoned. With `Enough = 1` it is the average, with 2 the SNR and the
standard deviation, which `snr_spectrum.cpp` and `t100.cpp` write the same way.

### RecomputeChain

`tickRecomputeChain` with the two panels it drives. Each batch is a `BatchPromise`
(instances `A` and `S`; the tab is shown throughout), so what was checked of
`PanelBatch` is what this module assumes. A *selection* stands for all a result
depends on. The artifacts carry a label, that of the moment they are stored, and a
reference of the 100% T carries what it was made of; staleness is computed from
the labels as `averageOutdated` and `t100MemberFresh` do. `started` counts the
batches of a request and is history.

### BatchOfDatasets and BatchEngine

`batchTick`, one action per way through it: the load at a dataset's boundary, the
futures, the Allan phase, and the end, which may fail in four ways. `futures` and
`allanQueued` are the workers'. The content of a dataset is its files, the artifacts
made, and the files they were made of (`of`), which is what "no spectrum is left out"
needs. Around the batch are only the acts that the confirmation allows: tabs are
saved or stripped while no batch runs, and the window may be closed at any time. A save
is one step, for `ArchiveFile` shows that it is one or nothing.

`BatchOfDatasets` promises: a dataset is rewritten exactly when it is counted.

### ConversionScreen

A frame is `PollJobs`, which joins what has ended, `ReadBusy`, and one widget;
`JobEnds` may fall between any two, which is the point. A click is two frames: the
button must be enabled when the mouse goes down (`MouseDown`) and when it goes up
(`Released`). `Start` on a thread that was not joined, or the end of the program with
one, is `std::terminate`, a state of its own. `slipped` is history: a worker ended
between the polling and the reading of `busy` of one frame.

## 3. The runs

`MaxEvents` bounds the clicks, shortcuts and results of a behaviour; answers to
prompts, phases of the frame and disk outcomes are not counted, so a flow once
started always runs to its end.  Opening a file costs 1, making it dirty 1,
starting an exit 1, hence 6 or 7 events give two dirty tabs, a flow and one or
two disturbances of it, which is the depth every known failure needs (the
violations below need 5 to 7).  Two files and one source are enough for every
shift of indices: below, at, and above the one removed.

| Run | Instance | Checks | States |
|---|---|---|---|
| `TabsDiskFaults` | 2 files, 1 source, 7 events; saves and loads fail, results go stale | `TypeOK`, `PromptShowsTabBeingClosed`, `GoHomeFindsTabsClean`, `TabCloseKeepsChanges`, `ExitKeepsChanges`, `StaleDropAskedBySaves` | 639,000 |
| `TabsInterference` | 2 files, 1 source, 1 experiment, 6 events; every freedom but spoiling edits | `ActiveConsistent`, `QueuesInRange`, `OpenLandsInItsTab`, `WaitingHasPrompt` | 645,000 |
| `Experiments` | 2 experiments, no file, 7 events; no faults | `ExperimentsNeverLost`, `CleanExperimentIsSaved` | 73,000 |
| `TabsLiveness` | 2 files, 6 events; saves fail, clicks and closes in flows | `SaveAllEnds`, `DeferredCloseResolves` | 48,000 |
| `ProjectStore` | 2 datasets, 2 contents, 2 names, 1 recipe, 3 experiment ids, 7 acts; writes and renames fail, crash anywhere | `ManifestMatchesGroups`, `CleanTabIsOnDisk`, `CopiesMatchArchive`, `ExperimentIdsDistinct`, `CleanExperimentIsOnDisk`, `StoreIsAtomic`, `SavedIsRestored` | 1,808,000 |
| `ThreadPool` | 3 tasks, 3 workers | `NoLostWakeup`, `KeepsPromise`, `PromiseFulfilled` | 20,000 |
| `PanelBatch` | 2 files, 2 settings, 2 units | `OneUnit`, `CompleteAverage`, `KeepsPromise`, `PromiseFulfilled` | 1,770,000 |
| `RecomputeChain` | 2 selections | `OncePerRequest`, `StdMatchesReference`, `ChainClearsStaleness`, `ChainEnds` | 509,000 |
| `BatchEngine` | 2 datasets, 2 files, 1 Allan bin, 2 recipes | `RecipeFollowed`, `TabsShowResult`, `KeepsPromise`, `UsesEverySpectrum`, `BatchEnds` | 1,059,000 |
| `ConversionScreen` | 2 files, the three jobs | `NeverTerminates`, `ModalOutlivesJobs`, `Joined` | 117,000 |

and two that TLC refutes, see section 5: `HiddenDirtyTab` and `LateStamp`.

The type invariants are proved of every module that has a proofs module but
`ProjectStore`, whose `TypeOK` holds in the instance of its run and is no property of
it; that of `TabLifecycle` is checked besides. Properties that go
together are conjuncts of one (`ActiveConsistent` includes `KeysDistinct`,
`QueuesInRange` the cursor of Save All, `WaitingHasPrompt` the scope of the go-home
target).

Three workers are the least that let one finish while another sleeps and a
third is awake; with three tasks the queue is non-empty while two run.

`MaxActs` bounds the user only: store calls, their file operations, failures and
crashes are free, so every call meets every failure and every crash.  Create,
open a tab, edit it, save, leave, come back and one act more are 7; two datasets
are needed for one in a tab and one in the comparator, two contents to tell old
from new, three experiment ids for two taken and one free.  Datasets and
contents are symmetric: nothing in the model orders them (the order in which
dirty tabs are saved is any).

The four later runs have no counter that bounds the user: their state is finite
and TLC visits all of it. Two files let one throw, or be deleted, while the other is
still computed; two settings tell what a result was made of from what is selected
now, two units a conversion from none. Two selections tell a label that is up to
date from one that is not, and the chain has one edge in the code
(`chainStaleUpstreams`), so two steps are all there are. Two datasets are what it takes
for one to follow another with the sub-state of the first; two files are the least for an SNR
or an Allan variance, of which one bin is polled like many. The converter needs two
paths: what it was given, and what the fields name later.

In words:

* `TabsDiskFaults`: if the user waits for each flow to end, no failing save or
  load makes the program lose a tab's changes, on close, on exit or on going
  home; the prompt about a tab shows that tab; only Save All leaves stale
  results out unasked.
* `TabsInterference`: whatever the user clicks, closes or computes in the middle
  of Save All, of a queued open and of going home, pointer and indices stay
  consistent, a file lands in its own tab, and nothing is latched.
* `Experiments`: no experiment is dropped, marked clean or left behind without
  being saved or given up.

* `ProjectStore`: whichever file operation fails and wherever the process dies,
  the archive is the one before or the one after the call and the caller is told
  which; whatever is not marked dirty in memory is in the archive; after a
  Ctrl+S without an error nothing shown is lost by closing the program.

* `PanelBatch`: whatever the user does to the files, the selectors, the unit and the
  tab in any frame of a batch, no axis is converted twice or left out, the counters
  keep to the futures although tasks throw, and the batch is a `BatchPromise`, the
  fairness included: it ends.
* `RecomputeChain`: a request never starts a batch twice, the standard deviation on
  display is that of the reference on display, a chain that completes leaves no stale
  100% T, and no chain hangs, whatever is clicked while it runs.
* `BatchEngine`: nothing is missing from a processed dataset without a line in the
  list, whatever fails; every computed spectrum is in the result; tab and archive agree;
  the engine is a `BatchOfDatasets` and comes to its end.
* `ConversionScreen`: wherever in a frame a worker ends, and however the modal or the
  program is left, no thread is assigned or destroyed before it was joined, and but for
  one gap (section 5) the modal outlives its jobs.

A deadlock of TLC would be a frame, or a thread, that cannot go on; it is checked
in every run (a closed or crashed program stutters: `Ended`) but those of
`MCProjectStore`, where the user stops after `MaxActs` acts.

### Fairness

* `TabLifecycle!Fairness`.  `WF(Next)`: the loop keeps running frames.  Strong
  fairness of the four Cancel buttons: a user who sees a modal again and again
  dismisses it some day.  Nothing is assumed about saves succeeding or the user
  refraining from clicks.  Without the Cancels a prompt may stay up forever
  and `SaveAllEnds`, which pauses under a prompt, is false.
* `ThreadPool!Fairness`.  Weak fairness per thread: the scheduler runs it, and a
  computation returns (the tasks are finite loops over data).  Nothing makes
  the owner submit, wait or destroy.
* `ProjectStore` has none: its properties are all of safety.
* `PanelBatch!Fairness`, `RecomputeChain!Fairness`.  Frames follow each other while the
  tab is shown (a running batch sets `needsRedraw`), and a task returns. The chain also
  uses what `PanelBatch` was shown to keep: `BatchPromise!Fairness` of its two batches.
* `BatchEngine!Fairness`.  `batchTick` sets `needsRedraw` itself; the tasks end.
* `ConversionScreen!Fairness`.  The idle gate lets frames follow each other while the
  modal is open or a thread is there to be joined; the processes end by themselves (the code
  has no timeout and no way to kill one, and assumes the same).

## 4. The proofs

### TabLifecycleProofs

For any finite or infinite sets of files, sources and experiments, any bound
and any subset of the freedoms, from `NoTabAssumption` (null is no key),
`IdentitiesAssumption` (no key is an experiment's identity: `consent` and `lost` hold both),
`MaxEventsAssumption` and `AllowedAssumption`:

| Theorem | States |
|---|---|
| `Invariance` | `Spec => []Inv` |
| `TypeCorrect` | `[]TypeOK` |
| `PointerAndIndexAgree` | `[]ActiveConsistent`, no tab open twice included |
| `QueuedIndicesValid` | `[]QueuesInRange`, the cursor of Save All included |

None of the last two is inductive alone. That a removal keeps
`activeSessionIdx` pointing to `active` needs that keys are distinct (the
removed key is at one place only); that the Save All list stays valid needs that
it lists no tab twice, that its cursor is inside, and that the list is already
so while the exit modal is up, before the Save All that will walk it starts. The
invariant `Inv` is a predicate `Sound(s)` of the record plus the type of `pc`,
`wantCapture` and `events`. `Sound` is stated of *a record*, so that each C++
function has one lemma, "from a sound record, a sound record", and the lemma of
a function cites the lemmas of those it calls. `Invariance` is then one step per
action of `Next`, each by the lemma of the function the phase runs. The hard
lemmas are those of `RemoveTab`: they rest on facts about `RemoveAt` on
sequences (length, elements, what stays distinct) that are proved first.

### TabFlowProofs

Under the same assumptions; `Allowed` is any subset of the freedoms, but for what a
hypothesis excludes (`NoSpoils`: no `spoilingEdit`, `NoClicks`: no `clickInFlow`):

| Theorem | States | If |
|---|---|---|
| `FlowInvariance` | `Spec => []FlowInv` | |
| `OpenIsTargeted` | `[]OpenLandsInItsTab` | |
| `GoHomeScoped` | `[]GoHomeTargetScoped`, the first conjunct of `WaitingHasPrompt` | |
| `NothingWaitsUnseen` | `[]WaitingHasPrompt` | `NoSpoils \/ NoClicks` |
| `PromptNamesItsTab` | `[]PromptShowsTabBeingClosed` | `NoClicks` |

The properties speak of one phase of the frame, and what they need is decided frames
earlier: the x of a tab queues a switch and parks the close, the next frame's top swaps the
tab in, its `closePrompt` phase raises the prompt, an answer some frames later queues the
removal, and the frame after that removes. `Flow(s, p)` therefore says of every phase `p`
what may wait in a record `s`: `Opening` and `Waits` up to which phase each request can be
there and that there is never a second one, `Located` which tab is, or is about to be,
active. `Waits` and `Located` rest on two guards of the code: widgets are unreachable while a
modal is up, and `advanceExitSaveAll` pauses under one. What breaks them is Save All, which moves
the active tab with no modal up; hence the two hypotheses, and section 5 has
the behaviours that need them. `NoSpoils` suffices for `Waits` because without stale results
an answer ends the wait in the frame it is given; the stale prompt lets it go on.

Each function has a lemma on what it does to the fields by groups (`...Does`, in
`TabLifecycleProofs`) and one that it keeps the invariant (`...Flow`). Most clicks are the same case:
they start where nothing waits (`Idle`).

The second part is about unsaved changes of tabs. All of it assumes `NoClicks`; `Thorough` is no
`lateEdit` and `ExpIds = {}`, `NoDeferral` is no `closeDuringFlow`:

| Theorem | States | If, besides |
|---|---|---|
| `KeepInvariance` | `Spec => []KeepInv` | |
| `SavesAskAboutStaleResults` | `StaleDropAskedBySaves` | |
| `LostOnlyGoingHome` | `TabsLostGoingHome`: no step loses a tab's changes but those that remove the tabs when going home | |
| `GoHomeTabsClean` | `[]GoHomeFindsTabsClean` | `Thorough` |
| `NoTabChangesLost` | `[]TabCloseKeepsChanges` | `Thorough` |
| `NothingUnsavedAtExit` | `[]ExitKeepsChanges` | `NoDeferral`, `ExpIds = {}` |

`LostOnlyGoingHome` is what holds with experiments, late results and impatient closes as well; it
has no run of its own. The others need a hypothesis for each disagreement of section 5: an
experiment on screen makes `collectDirtyTabs` miss a tab (`HiddenDirtyTab`), which is why
`ExpIds = {}`; a late result makes a tab dirty that Save All has behind it; a deferred close
is applied behind the check. `NoClicks` is the hypothesis of `Located`, on which they rest, that the
tab an answer saves or gives up is the one the close is about.

`Keeps(s, p)` compares what is dirty with what is asked for. `TabsOK`: only open tabs are dirty or stale,
and what is stale in a file is stale in memory (so a save that was not told to drop stale results
of a tab that has none drops none). `Going`: the tab queued for removal is clean or was given up,
and the one queued to be loaded is clean. `SaveAsOK`: a Save As that is queued is for the active tab, without stale
results, and nothing that could change the active tab is queued with it. `Covered`: every dirty
tab is on the list of the exit modal, and behind the cursor of Save All there is none; when going home
is due nothing is dirty. That the list is complete at the start is `DirtyTabsCollected`, and that
a save of the tab under the cursor lets the cursor move on is `AheadStep`. `Keeps` needs
`Flow` (`Known` is both), but not conversely. `KeepInv` adds that whatever waits for an answer is
known to the keyboard (`wantCapture`): Ctrl+Shift+S while the prompt of an action is up would
otherwise queue a save that the action overtakes.

The third part is about experiments, of any number and beside any tabs. `NoLoose` is no
`looseExperiment`:

| Theorem | States | If |
|---|---|---|
| `ExperimentInvariance` | `Spec => []ExpKnown` | |
| `CleanExperimentsSaved` | `[]CleanExperimentIsSaved` | `NoLoose` |
| `LostOnlyReplacing` | `ExperimentsLostReplacing`: no step loses an experiment but the answer that puts another project in the place of the open one, and that only after a failed save or by way of the stale prompt (`MayLose`) | `NoClicks`, `NoLoose` |
| `ExperimentsKept` | `[]ExperimentsNeverLost` | `NoClicks`, `NoLoose`, `NoSpoils`, no `failedSave` |
| `ExperimentsCleanAtExit` | `NoExperimentDirtyAtExit`: the window closes with no dirty experiment | `NoClicks`, `NoDeferral` |

`CleanExperimentIsSaved` is not inductive: what is dirty has to be listed (or a deleted experiment
could be saved), and no instance may be listed twice (or deleting one of two would leave a
clean one that is not there): `ExpsOK`. There must be experiments only in an open project that is
on screen, or closing the project would leave some behind: `Housed`. `DirtyListed` is to
experiments what `Covered` is to tabs, and simpler: unless tabs are clicked there, nothing makes an
experiment dirty while Save All runs, all are saved in one go, and `collectDirtyTabs` goes over all of them whatever is shown. So `HiddenDirtyTab`
loses tabs, never experiments: of `ExitKeepsChanges` the half about experiments
is `ExperimentsCleanAtExit`, which needs neither `Thorough` nor that there are no tabs. Each hypothesis holds
only of the conjunct it guards (`NoLoose => Housed(s)`, `NoClicks => DirtyListed(s, p)`), so that one
invariant serves all.

The two cases of `MayLose` are those the code has. `failedSave` is `AnswersKeepExperiments` of section 5. The stale
prompt was found by the proof, the case of `PressStaleDrop` that would not go through, and
TLC then showed the behaviour: `AnswersKeepExperiments` with `Spoiling`, there.

### ThreadPoolProofs

For any set of tasks and any non-empty finite set of workers
(`WorkersAssumption`):

| Theorem | States |
|---|---|
| `Invariance` | `Spec => []Inv` |
| `TypeCorrect` | `[]TypeOK` |
| `WakeupsArrive` | `[]NoLostWakeup` |
| `OrderKept` | `[]StartsInOrder` |
| `PromiseKept` | `Spec => KeepsPromise`: the pool implements `TaskPool` |

`NoLostWakeup` needs `Counted` (`tasksRunning` is the number of workers between
taking a task and finishing it: if the owner sleeps, someone will broadcast),
`Places` (a sleeping thread is in its loop or in waitAll; only a stopped pool
has exited workers) and, for the signal that is not yet sent, that the owner is
the only submitter.  `PromiseKept` needs `Outstanding`: what was submitted and is
not finished is in the queue or in a worker's hands, so that `AllDone` means
everything is done.

### ProjectStoreProofs

For any sets of datasets, names, contents and recipes, any number of experiment
ids and any `Faults` without `"replace"`:

| Theorem | States |
|---|---|
| `Whole` | `Spec => []WorkIsWhole` |
| `StoreKeepsPromise` | `Spec => StoreIsAtomic`: `ProjectStore` implements `ArchivePromise` |

and, if `NoFile` is none of the archives (`NoFileIsNoArchive`):

| Theorem | States |
|---|---|
| `MemoryInvariance` | `Spec => []Inv` |
| `ManifestIsTrue` | `[]ManifestMatchesGroups` |
| `CleanTabsAreStored` | `[]CleanTabIsOnDisk` |
| `CopiesAreCurrent` | `[]CopiesMatchArchive` |

`WorkIsWhole` says what is in the temporary file: before the change the archive
itself, after it the archive with the operation applied.  It is what makes the
rename the commit: the file then becomes `Applied(request, archive)`, no matter
what crashes and failures went before.  `StepsOfFiles` reduces the actions of
`ProjectStore` to the five things that can happen to the files, so the proof
has one step for each of them.

`Agrees` relates the memory to the archive and holds between two calls, not during one: after
the rename the archive is ahead of the memory until the result is applied. `Inv` therefore says
of a call under way what the memory will agree with when it ends, before the rename the
archive as it was and after it the archive with the operation applied. A plan may hold
several calls (Save All): `PlanOK` says that the memory allows each of them (`Planned`) and that a
call after which others follow is one that leaves this so. The plan's order is any order of the
dirty tabs (`Orders`), about which nothing has to be known but its members.

If the list of stored experiments can be read besides (`"list" \notin Faults`; section 5
says what happens otherwise):

| Theorem | States |
|---|---|
| `ListInvariance` | `Spec => []ListInv` |
| `TypeCorrect` | `[]TypeOK` |
| `IdsAreDistinct` | `[]ExperimentIdsDistinct` |
| `CleanExperimentsAreStored` | `[]CleanExperimentIsOnDisk` |
| `SaveInvariance` | `Spec => []SaveInv` |
| `SavesAreComplete` | `Spec => SavedIsRestored` |

`ListOK` of a list of experiments and an archive: the list is of its type, its ids are
distinct, what is not dirty is stored (`Stored`), and there is room. `Room` is what the
other three need to be inductive: the ids used, in memory and in the archive, and the
experiments that have none yet are together no more than there are ids, so that the search
for a free one (`FreeId`) finds one and the id it returns is new in *both* places. That a
new id is compared with the stored ones as well as with those in memory is what
`ListInvariance` turns on, and why `"list"` must not fail. Like `Agrees`, `ListInv` says of
a call under way what the list will be when it ends (`Lists`), before the rename and after it.

Loading puts the experiments read in order of their id (`InOrder`). That there is such an
order of any finite set of ids is `ListOrderExists`; it is proved without an induction over data: of the
sets without one take one of least cardinality, and remove its greatest element.

`SaveInv` is about a Ctrl+S: everything dirty is saved by a call that is still in the plan (`Covers`),
as long as the plan ends with the tab order. When it is through, nothing is dirty, so by
`CleanExperimentsAreStored` and `CleanTabsAreStored` opening the archive shows what is in memory.

### PanelBatchProofs

For any finite set of files, any settings and units and any `Enough >= 1`
(`PanelBatchAssumption`, and `NoDataAssumption`: "no data" is no average):

| Theorem | States |
|---|---|
| `Invariance`, `TypeCorrect` | `[]Inv`, `[]TypeOK` |
| `UnitsAgree` | `[]OneUnit` |
| `CountersAgree` | `[]CompleteAverage` |
| `PromiseKept` | `Spec => KeepsPromise`: the batch implements `BatchPromise` |

The counters are cardinalities: `total` is the number of files submitted less the
exceptions read, `completed` the number of futures read; a poll adds disjoint sets to
both (`PolledCounters`). `Waiting` says that a batch that goes on has more futures to
come than exceptions seen, which is why it ends. `Axes` ties every unit to the latch
`prevUnit`; it is inductive because all places that change the unit take the data along.

### RecomputeChainProofs

For any selections (`RecomputeChainAssumption`): `Invariance`, `TypeCorrect`, `StartsOnce`
(`[]OncePerRequest`), `StdIsOfReference` (`[]StdMatchesReference`) and `StalenessIsCleared`
(`ChainClearsStaleness`). That no batch starts twice
depends on where the chain is: before the first step nothing was started, the 100% T
is the last step, and the latch `t100RefreshDone` says whether its batch was.
`StalenessIsCleared` is an action property and needs a second invariant, `EndInv`: the chain can
see that the batch has ended only after the tick that ended it, which also stored the new
100% T, and no widget acts between the two.

### BatchEngineProofs

For any sequence of distinct datasets, any finite set of files, any recipes and any number
of bins (`BatchEngineAssumption`):

| Theorem | States |
|---|---|
| `Invariance`, `TypeCorrect` | `[]Inv`, `[]TypeOK` |
| `RecipeIsFollowed` | `[]RecipeFollowed` |
| `TabsAreCurrent` | `[]TabsShowResult` |
| `EverySpectrumUsed` | `UsesEverySpectrum` |
| `PromiseKept` | `Spec => KeepsPromise`: the engine implements `BatchOfDatasets` |

`WorkOK` says that nothing is left of a dataset when none is in work (`Cleared`, one lemma
for the one place that resets it), `FuturesOK` that counted as many as submitted means
all were read, `BinsOK` that an Allan phase without bins was reported. A dataset that fails
(`Fails`) and one that is stored (`FinalizeDatasetInv`) then extend what is said of the
datasets behind by one.

### ConversionScreenProofs

For any files (`ConversionScreenAssumption`): `Invariance`, `TypeCorrect`, `NeverTerminated`
(`[]NeverTerminates`), `ModalOutlives` (`[]ModalOutlivesJobs`) and `ExitIsClean` (`ExitLeavesNothing`,
which no run checks). The invariant adds what a held button means: if it was enabled in the
frame of the mouse down and is in that of the mouse up, no thread of the modal is left in
between, although its worker may have ended after `busy` was read.

### What is only model-checked

Liveness (`SaveAllEnds`, `DeferredCloseResolves`, `ChainEnds`, `BatchEnds`, `Joined` and
the two `PromiseFulfilled`): TLAPS does not reason about ENABLED.

Of the tabs, what `ExpIds = {}` leaves out of `GoHomeTabsClean`, `NoTabChangesLost` and
`NothingUnsavedAtExit`: with an experiment these properties are false (`HiddenDirtyTab`). Every other
safety property of a run is stated by a theorem, under the hypotheses given above.

## 5. Where the code disagrees with itself

Two runs each check one property, taken from a comment of the code, that TLC
refutes.

* `HiddenDirtyTab` (`core/app_state.cpp:54`).  Open a file, make it dirty, show an
  experiment (it becomes the active tab, `activeSessionIdx` stays), Ctrl+H.
  `collectDirtyTabs` skips the index `activeSessionIdx`, having added it only when
  a workspace is shown.  The tab is dropped unasked.
* `LateStamp` (`panels/average_spectrum.cpp:460`).  Calculate the average, change a selector or
  the checks while it runs: it was computed with the old ones and is stored with the
  label of the new, so `averageOutdated` (`workspace/workspace_reader.h:101`) takes it for fresh.

The others are reproduced by the instance given, with the property as the only one
of a `.cfg`. In the instances of `MCTabLifecycle` the constants are `FileKeys`,
`EmbeddedKeys`, `ExpIds`, `MaxEvents` and `Allowed`, in this order.

| Property | Instance | What happens |
|---|---|---|
| `NoNullDereference` | `Files0`, `Sources0`, `Exps1`, 5, `Calm` | From the Session tab with a dirty experiment, replace the project and press Save: `requestSaveWorkspace` reads `s.active->workspace` (`ui/app_loop.cpp:121`), and `active` is null. Line 56 says that the prompt can be raised for experiments alone. |
| `AnswersKeepExperiments` | `Files1`, `Sources0`, `Exps1`, 6, `SaveFaults` | As before with a workspace shown; the experiment's save fails; the project is replaced and the experiment gone (`ui/app_loop.cpp:159`). |
| `AnswersKeepExperiments` | `Files1`, `Sources0`, `Exps1`, 5, `Spoiling` | "the replace-project prompt also saves unsaved experiments" (`ui/app_loop.cpp:135`), but not if the shown tab has stale results: Save then hands over to the stale prompt, and Drop Stale Data saves the tab and replaces the project at once (line 251). The experiment, which the user had asked to save, is gone; no write has failed. |
| `StaleDropConfirmed` | `Files1`, `Sources0`, `Exps0`, 5, `Spoiling` | Save All prunes stale results without the confirmation every other path asks for (`ui/app_loop.cpp:475`); `main.cpp:281` says "Stale derivatives are never dropped silently". |
| `ExitKeepsChanges` | `Files2`, `Sources0`, `Exps0`, 7, `ImpatientClose` | The window's x during a prompt is applied after the prompt, behind the check for dirty tabs (`ui/app_loop.cpp:1410`). |
| `SavedTabsReopen` | `ProjectStore.cfg` with `MaxActs = 5`, `Faults <- NoFaults` | Ctrl+H, then the same project again. Tabs are reopened from `openTabIds`, which only reading the manifest sets and Ctrl+S does not: those of the last load come back, not those saved since (`session/workspace_session.cpp:109`, `main.cpp:102`). |
| `AllFuturesDone` | `PanelBatch.cfg` | The comment where a batch ends says "All futures done" (`average_spectrum.cpp:427`). An exception lowers the total and raises the count, so each lets the batch end one file early; the spectrum that comes later is lost. |
| `UpstreamImpliesOutdated` | `RecomputeChain.cfg` | "an upstream Average step implies t100Outdated" (`workspace_reader.cpp:1411`). The selection is changed back while the average is recomputed: the 100% T is up to date by its label and keeps the reference made of the old average. |
| `DismissedWhenJoined` | `ConversionScreen.cfg` | "While a job runs the modal cannot be dismissed (thread must be joined)" (`conversion_screen.cpp:284`). A modal whose closing was pending closes in the frame in which the worker ends between `pollJobs` and the reading of `busy`; the thread is joined when the modal is opened again, or at the exit. |
| `OpensWhatWasConverted` | `ConversionScreen.cfg` | The output is derived from the fields once more when the converter ends (`conversion_screen.cpp:188`); edited meanwhile, another file is validated and opened. |
| `WarnedDatasets` | `BatchEngine.cfg` | "%zu dataset(s) with warnings or errors" counts the lines of the list, several per dataset (`session_tab.cpp:1276`). |

Some explain why a passing run leaves a freedom out.

* `looseExperiment` breaks `CleanExperimentIsSaved` and `ExperimentsNeverLost`:
  an experiment made while no project is open has nowhere to be saved, Save All
  marks it clean all the same, and opening a project replaces it.
* `lateEdit` breaks `GoHomeFindsTabsClean`: a background result that arrives after
  Save All saved its tab makes it dirty again, and going home closes it.
* `clickInFlow` breaks `PromptShowsTabBeingClosed`: with the x of a tab clicked
  while Save All moves the active tab, the prompt is about one tab and shows
  another.
* `clickInFlow` and `spoilingEdit` together break `WaitingHasPrompt` (after seven events): in that
  prompt Save asks about the stale results of the tab shown, dropping them closes that tab, and
  `pendingTabCloseIdx` stays latched to the other with no prompt up. `TabsInterference` leaves
  `spoilingEdit` out for this reason.
* `ExperimentsNeverLost` with `failedSave` or `spoilingEdit`: see `AnswersKeepExperiments`.
* `GoHomeFindsTabsClean` with an experiment: see `HiddenDirtyTab`; the run
  `TabsDiskFaults` has none for this reason.
* `replace` breaks `StoreIsAtomic`: `multi_workspace_store.cpp:205` removes the
  archive and renames again; if that fails too, or the process dies, there is no
  archive, although the comment at line 136 promises the original untouched.
  POSIX renames over an existing file, Windows takes this path.
* `list` breaks `ExperimentIdsDistinct`: when the list of stored experiments
  cannot be read, `environment_session.cpp:3133` takes none for granted and gives
  the id "exp" again; saving then overwrites another experiment.

And some were seen while reading, outside what the models state.

* The unit of an Allan variance is taken when it ends (`allan_variance.cpp:922`), its data were
  prepared before; the 100% T view returns before its unit latch when nothing is selected
  (`app_loop.cpp:1250`).
* A request to the chain is ignored while there is one, also from another panel
  (`workspace_reader.cpp:1365`).
* Displaying another file stores the 100% T again, labelled with the present selection, and with it
  the old reference (`t100.cpp:415`); pressing another source button relabels a reference in the same way.
* The flag `stale` of an average, set by Save As, is cleared only by a new average, and keeps the overlay of a
  100% T that uses it.
* The pull at the start of the program and Update may run two gits in one directory
  (`conversion_screen.cpp:852`); only the file of the active tab is compared with the output (line 660).
* A batch replaces the unsaved changes of an open tab (`batch_engine.cpp:411`); a file that cannot be read, or
  a task that throws, is left out of a result without a line in the list.

## 6. What is not modelled

* ImGui's inside: popup stacks, focus, a click in the very frame a modal opens,
  the rebaselining of the first frame.  The idle gate only skips the input and
  UI phases (`NoShortcut`, `NoClick`).
* Menu and layout state, recent files, theme, redraw scheduling.
* The content of workspaces, of spectra and of experiments; HDF5 fields.
* Save As's change of the file path and the drag order of tabs.
* Of projects: export, merging and old file versions, the sizes shown, two
  projects open one after the other.
* The spectral pool: the program never asks it for a spectrum and never puts one into it.
* The Allan panel's two phases, and the per-file computations of the Spectrum and Interferogram
  views. The first phase of the former is a `PanelBatch`; the second is modelled for the batch engine.
* What the processes of the conversion screen do (git, Python, pipes), the registry of
  converters, and reading files in pieces (`file_stream.cpp`).
* `abortBatch`, which nobody calls, and the batch recipe editor.
* Floating-point numerics (FFT, phase correction, Allan variance): out of TLC's
  reach; the test programs cover them with reference data.
* Drawing, export, headless mode (a straight sequence), vendored FFTW and stb.
* The generated HITRAN line tables, which are nine tenths of the lines under `src/`: data
  without behaviour.

## 7. The plan

Of the first plan the panels' batches, the recompute chain (in place of the spectrum
cache, which is dead code), the batch engine and the conversion screen are done. What is left:

1. **WorkspaceFiles** (Save As, key against path, create from a standalone file, the
   write-then-rename of a single workspace), beside `ArchiveFile`.
2. **UnsavedWork**, an abstract specification of section 1's promise (changes
   leave memory by being written or given up) that `TabLifecycle` refines under
   the freedoms where it does.
3. The Allan panel's two phases on `BatchPromise`.
4. Proofs, on top of `KeepInv` and `ExpInv`, of what `TabsDiskFaults` checks where there are experiments
   but none is shown when the exit modal comes up, and of 2.
