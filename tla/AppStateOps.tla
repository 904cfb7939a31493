------------------------------ MODULE AppStateOps ------------------------------
(***************************************************************************)
(* The state of the running program that decides which tab the user sees,  *)
(* which one is saved and which one is closed: the C++ global              *)
(* `AppState appState`, as one record, with an operator per C++ function   *)
(* that changes it.  An operator takes the record before the call and      *)
(* returns the record after it; what the function leaves to the outside    *)
(* world (does the file exist, does the write succeed) is an argument.     *)
(*                                                                         *)
(* A workspace tab is named by its stable key, an experiment by an         *)
(* identity of its own.  Indices are those of the code plus one, so that   *)
(* the code's "-1" is 0 here and `x > idx` keeps its meaning.              *)
(***************************************************************************)
EXTENDS Integers, Sequences, FiniteSets, SequencesExt

CONSTANTS
    FileKeys,       \* keys of .h5 workspaces in the filesystem
    EmbeddedKeys,   \* keys "<multi-workspace>#<source>"
    ExpIds,         \* identities of experiment instances
    NoTab           \* the null pointer / the empty path

Keys == FileKeys \cup EmbeddedKeys

ASSUME NoTabAssumption == NoTab \notin Keys
ASSUME IdentitiesAssumption == Keys \cap ExpIds = {}

TabKinds == {"Workspace", "Session", "Experiment"}
PendingActions == {"None", "CloseWorkspace", "OpenMultiWorkspace"}
PendingSaveKinds == {"None", "Workspace", "Everything"}

(* Three fields are not the program's.  `consent`: the tabs and experiments  *)
(* whose changes the user agreed to lose; `lost`: those that were dropped    *)
(* with unsaved changes nobody agreed to lose; `staleOnDisk`: the tabs whose *)
(* file still holds results that went stale.                                 *)
AppStates ==
  [ sessions             : Seq(Keys),
    dirty                : SUBSET Keys,
    stale                : SUBSET Keys,
    active               : Keys \cup {NoTab},
    activeTabKind        : TabKinds,
    activeSessionIdx     : Nat,
    activeExperimentIdx  : Nat,
    lastActiveSessionIdx : Nat,
    pendingSwapIdx       : Nat,
    pendingSwapToSession : BOOLEAN,
    pendingExperimentIdx : Nat,
    pendingCloseAfterSwap : Nat,
    pendingTabCloseIdx   : Nat,
    pendingRemoveIdx     : Nat,
    pendingOpen          : Keys \cup {NoTab},
    pendingSaveKind      : PendingSaveKinds,
    pendingWorkspaceAction : PendingActions,
    showUnsavedPrompt    : BOOLEAN,
    showStaleDropPrompt  : BOOLEAN,
    showExitDirtyModal   : BOOLEAN,
    exitDirtyTabs        : Seq(Nat),
    exitDirtyExperiments : SUBSET Nat,
    exitSaveAllRunning   : BOOLEAN,
    exitSaveAllCursor    : Nat,
    exitDeferredClose    : BOOLEAN,
    exitTargetIsGoHome   : BOOLEAN,
    pendingGoHome        : BOOLEAN,
    experiments          : Seq(ExpIds),
    expDirty             : SUBSET ExpIds,
    expHidden            : SUBSET ExpIds,
    expSaved             : SUBSET ExpIds,
    pendingExperimentDeleteIdx : Nat,
    multiWorkspaceOpen   : BOOLEAN,
    welcome              : BOOLEAN,
    shouldClose          : BOOLEAN,
    nullDeref            : BOOLEAN,
    consent              : SUBSET (Keys \cup ExpIds),
    lost                 : SUBSET (Keys \cup ExpIds),
    staleOnDisk          : SUBSET Keys ]

Launched ==
  [ sessions |-> << >>, dirty |-> {}, stale |-> {}, active |-> NoTab,
    activeTabKind |-> "Workspace", activeSessionIdx |-> 0,
    activeExperimentIdx |-> 0, lastActiveSessionIdx |-> 0,
    pendingSwapIdx |-> 0, pendingSwapToSession |-> FALSE,
    pendingExperimentIdx |-> 0, pendingCloseAfterSwap |-> 0,
    pendingTabCloseIdx |-> 0, pendingRemoveIdx |-> 0, pendingOpen |-> NoTab,
    pendingSaveKind |-> "None", pendingWorkspaceAction |-> "None",
    showUnsavedPrompt |-> FALSE, showStaleDropPrompt |-> FALSE,
    showExitDirtyModal |-> FALSE, exitDirtyTabs |-> << >>,
    exitDirtyExperiments |-> {}, exitSaveAllRunning |-> FALSE,
    exitSaveAllCursor |-> 0, exitDeferredClose |-> FALSE,
    exitTargetIsGoHome |-> FALSE, pendingGoHome |-> FALSE,
    experiments |-> << >>, expDirty |-> {}, expHidden |-> {}, expSaved |-> {},
    pendingExperimentDeleteIdx |-> 0, multiWorkspaceOpen |-> FALSE,
    welcome |-> TRUE, shouldClose |-> FALSE, nullDeref |-> FALSE,
    consent |-> {}, lost |-> {}, staleOnDisk |-> {} ]

Crash(s) == [s EXCEPT !.nullDeref = TRUE]

TabIndices(s) == 1 .. Len(s.sessions)
ExpIndices(s) == 1 .. Len(s.experiments)
IndexOf(q, e) == CHOOSE i \in DOMAIN q : q[i] = e

(***************************************************************************)
(* session/workspace_session.cpp: the tab-switch queue                     *)
(***************************************************************************)

SwapInSession(s, idx) ==
  [s EXCEPT !.pendingSwapIdx = idx, !.pendingSwapToSession = FALSE,
            !.pendingExperimentIdx = 0]

FocusSessionTab(s) ==
  [s EXCEPT !.pendingSwapIdx = 0, !.pendingSwapToSession = TRUE,
            !.pendingExperimentIdx = 0]

(* Experiment before Session tab before workspace; the queues end empty. *)
ExecutePendingSwap(s) ==
  LET idle == [s EXCEPT !.pendingSwapIdx = 0, !.pendingSwapToSession = FALSE,
                        !.pendingExperimentIdx = 0]
      e == s.pendingExperimentIdx
      w == s.pendingSwapIdx
  IN  IF e # 0
      THEN IF e \in ExpIndices(s)
           THEN [idle EXCEPT !.active = NoTab, !.activeTabKind = "Experiment",
                             !.activeExperimentIdx = e]
           ELSE [idle EXCEPT !.active = NoTab, !.activeExperimentIdx = 0]
      ELSE IF s.pendingSwapToSession
      THEN [idle EXCEPT !.active = NoTab, !.activeTabKind = "Session",
                        !.activeSessionIdx = 0]
      ELSE IF w \in TabIndices(s)
      THEN [idle EXCEPT !.active = s.sessions[w], !.activeTabKind = "Workspace",
                        !.activeSessionIdx = w, !.lastActiveSessionIdx = w]
      ELSE idle

(***************************************************************************)
(* session/workspace_session.cpp: removing and closing a tab               *)
(***************************************************************************)

\* Mutants of Reindex
ReindexAlwaysDown(x, idx) == x - 1
ReindexKeepsLater(x, idx) == IF x = idx THEN 0 ELSE x

(* Where index x points after the element at idx is gone: 0 when it was it. *)
Reindex(x, idx) == IF x > idx THEN x - 1 ELSE IF x = idx THEN 0 ELSE x

\* Mutant of DirtyTabsWithout: the later entries are not moved down
DirtyTabsNotShifted(q, idx) ==
  IF idx \in Range(q) THEN RemoveAt(q, IndexOf(q, idx)) ELSE q

(* The Save All work list after tab idx is gone, and its cursor. *)
DirtyTabsWithout(q, idx) ==
  LET kept == IF idx \in Range(q) THEN RemoveAt(q, IndexOf(q, idx)) ELSE q
  IN  [n \in 1 .. Len(kept) |-> IF kept[n] > idx THEN kept[n] - 1 ELSE kept[n]]

CursorWithout(q, cursor, idx) ==
  LET passed == idx \in Range(q) /\ IndexOf(q, idx) <= cursor
      moved  == IF passed THEN cursor - 1 ELSE cursor
      length == Len(DirtyTabsWithout(q, idx))
  IN  IF q = << >> THEN cursor ELSE IF moved > length THEN length ELSE moved

RemoveTab(s, idx) ==
  LET key     == s.sessions[idx]
      erased  == [s EXCEPT !.active = IF @ = key THEN NoTab ELSE @,
                           !.sessions = RemoveAt(@, idx),
                           !.activeSessionIdx = Reindex(@, idx),
                           !.dirty = @ \ {key}, !.stale = @ \ {key},
                           !.lost = @ \cup (({key} \cap s.dirty) \ s.consent),
                           !.consent = @ \ {key},
                           !.staleOnDisk = @ \ {key}]
      focused == IF s.activeSessionIdx = idx /\ s.activeTabKind = "Workspace"
                 THEN FocusSessionTab(erased) ELSE erased
  IN  IF idx \notin TabIndices(s) THEN s
      ELSE [focused EXCEPT
              !.lastActiveSessionIdx = Reindex(@, idx),
              !.pendingSwapIdx = Reindex(@, idx),
              !.pendingCloseAfterSwap = Reindex(@, idx),
              !.pendingTabCloseIdx = Reindex(@, idx),
              !.pendingRemoveIdx = Reindex(@, idx),
              !.exitSaveAllCursor = CursorWithout(s.exitDirtyTabs, @, idx),
              !.exitDirtyTabs = DirtyTabsWithout(@, idx)]

\* Mutant of CloseTab: a parked dirty tab is not swapped in before the prompt
CloseTabUnswapped(s, idx) ==
  LET isActive == idx = s.activeSessionIdx /\ s.activeTabKind = "Workspace"
  IN  IF idx \notin TabIndices(s) THEN s
      ELSE IF s.sessions[idx] \in s.dirty
      THEN [s EXCEPT !.pendingTabCloseIdx = idx, !.showUnsavedPrompt = TRUE]
      ELSE IF isActive THEN [s EXCEPT !.pendingRemoveIdx = idx]
      ELSE RemoveTab(s, idx)

(* A dirty tab is closed through the Unsaved Changes prompt, which shows the *)
(* active tab: a parked one is swapped in first.                             *)
CloseTab(s, idx) ==
  LET isActive == idx = s.activeSessionIdx /\ s.activeTabKind = "Workspace"
  IN  IF idx \notin TabIndices(s) THEN s
      ELSE IF s.sessions[idx] \in s.dirty
      THEN IF isActive
           THEN [s EXCEPT !.pendingTabCloseIdx = idx, !.showUnsavedPrompt = TRUE]
           ELSE SwapInSession([s EXCEPT !.pendingCloseAfterSwap = idx], idx)
      ELSE IF isActive THEN [s EXCEPT !.pendingRemoveIdx = idx]
      ELSE RemoveTab(s, idx)

\* Mutant of OpenInNewTab: a switch to the tab before the new one
OpenOffByOne(s, key) ==
  IF key \in Range(s.sessions)
  THEN SwapInSession(s, IndexOf(s.sessions, key))
  ELSE [SwapInSession([s EXCEPT !.sessions = Append(@, key)], Len(s.sessions))
          EXCEPT !.pendingOpen = key]

(* The new tab is blank until ExecutePendingOpen has run in the next frame. *)
OpenInNewTab(s, key) ==
  IF key \in Range(s.sessions)
  THEN SwapInSession(s, IndexOf(s.sessions, key))
  ELSE [SwapInSession([s EXCEPT !.sessions = Append(@, key)], Len(s.sessions) + 1)
          EXCEPT !.pendingOpen = key]

(* restoreOpenEmbeddedTabs: the project's open sources that have no tab yet  *)
(* come back loaded, in the background.  (One at a time is enough to shift   *)
(* every index there is.)                                                    *)
ReopenableTabs(s) ==
  {<< >>} \cup {<<k>> : k \in EmbeddedKeys \ Range(s.sessions)}

RestoreOpenEmbeddedTabs(s, tabs) == [s EXCEPT !.sessions = @ \o tabs]

(***************************************************************************)
(* main.cpp: opening at frame top                                          *)
(***************************************************************************)

OpenOutcomes == {"loaded", "ignored", "failed"}

(* "ignored": not a regular .h5 file; the blank tab stays.                   *)
ExecutePendingOpen(s, outcome) ==
  LET r == [s EXCEPT !.pendingOpen = NoTab]
  IN  IF s.pendingOpen = NoTab \/ outcome = "ignored" THEN r
      ELSE IF outcome = "failed"
      THEN [RemoveTab(r, r.activeSessionIdx) EXCEPT !.activeTabKind = "Session"]
      ELSE IF s.active = NoTab THEN Crash(r)
      ELSE [r EXCEPT !.dirty = @ \ {s.active}, !.stale = @ \ {s.active},
                     !.consent = @ \ {s.active}, !.staleOnDisk = @ \ {s.active},
                     !.pendingWorkspaceAction = "None",
                     !.showUnsavedPrompt = FALSE,
                     !.showStaleDropPrompt = FALSE,
                     !.welcome = FALSE]

(***************************************************************************)
(* session/environment_session.cpp: experiments                            *)
(***************************************************************************)

ActivateExperiment(s, idx) ==
  IF idx \notin ExpIndices(s) THEN s
  ELSE LET e     == s.experiments[idx]
           shown == IF e \in s.expHidden
                    THEN [s EXCEPT !.expHidden = @ \ {e}, !.expDirty = @ \cup {e}]
                    ELSE s
       IN  [shown EXCEPT !.pendingExperimentIdx = idx, !.pendingSwapIdx = 0,
                         !.pendingSwapToSession = FALSE]

\* Mutant of CreateExperiment: born clean
CreateClean(s, e) ==
  ActivateExperiment([s EXCEPT !.experiments = Append(@, e)], Len(s.experiments) + 1)

(* A new instance is born dirty: the bulk saves skip clean ones. *)
CreateExperiment(s, e) ==
  ActivateExperiment([s EXCEPT !.experiments = Append(@, e),
                               !.expDirty = @ \cup {e}],
                     Len(s.experiments) + 1)

RemoveExperiment(s, idx) ==
  LET e       == s.experiments[idx]
      erased  == [s EXCEPT !.experiments = RemoveAt(@, idx),
                           !.expDirty = @ \ {e}, !.expHidden = @ \ {e},
                           !.expSaved = @ \ {e},
                           !.lost = @ \cup (({e} \cap s.expDirty) \ s.consent),
                           !.consent = @ \ {e}]
      refocus == IF s.activeTabKind # "Experiment" THEN erased
                 ELSE LET r == [erased EXCEPT !.activeExperimentIdx = Reindex(@, idx)]
                      IN  IF r.activeExperimentIdx = 0 THEN FocusSessionTab(r) ELSE r
  IN  IF idx \notin ExpIndices(s) THEN s
      ELSE [refocus EXCEPT
              !.pendingExperimentIdx = Reindex(@, idx),
              !.exitDirtyExperiments = {Reindex(x, idx) : x \in @ \ {idx}}]

(* The tab's x only hides it; the instance stays listed in the Session tab. *)
CloseRequest(s, idx) ==
  LET e == s.experiments[idx]
  IN  FocusSessionTab(IF e \in s.expHidden THEN s
                      ELSE [s EXCEPT !.expHidden = @ \cup {e},
                                     !.expDirty = @ \cup {e}])

\* Mutant of RequestDelete: only a saved instance is worth a question
DeleteUnsavedUnasked(s, idx) ==
  IF s.experiments[idx] \in s.expSaved
  THEN [s EXCEPT !.pendingExperimentDeleteIdx = idx]
  ELSE RemoveExperiment(s, idx)

RequestDelete(s, idx) ==
  IF s.experiments[idx] \in s.expDirty \cup s.expSaved
  THEN [s EXCEPT !.pendingExperimentDeleteIdx = idx]
  ELSE RemoveExperiment(s, idx)

ClearExperiments(s) ==
  [s EXCEPT !.experiments = << >>, !.expDirty = {}, !.expHidden = {},
            !.expSaved = {}, !.consent = @ \cap Keys,
            !.lost = @ \cup (s.expDirty \ s.consent),
            !.activeExperimentIdx = 0, !.pendingExperimentIdx = 0,
            !.activeTabKind = IF @ = "Experiment" THEN "Session" ELSE @]

(* Saved experiments of the project that are not in memory come in clean.    *)
UnloadedExperiments(s) ==
  {<< >>} \cup {<<e>> : e \in ExpIds \ Range(s.experiments)}

LoadExperiments(s, saved) ==
  [s EXCEPT !.experiments = @ \o saved, !.expSaved = @ \cup Range(saved)]

(* How far a bulk save of the listed experiments gets: it stops before the   *)
(* first dirty one that cannot be written.                                   *)
ExperimentSaveStops(s, listed) ==
  {n \in 0 .. Len(s.experiments) :
      n < Len(s.experiments) =>
        n + 1 \in listed /\ s.experiments[n + 1] \in s.expDirty}

(* The one that fails keeps its dirty flag but already owns an id. *)
SaveExperiments(s, listed, n) ==
  LET chosen(upTo) ==
        {s.experiments[i] : i \in listed \cap ExpIndices(s) \cap 1 .. upTo}
        \cap s.expDirty
  IN  [s EXCEPT !.expDirty = @ \ chosen(n), !.expSaved = @ \cup chosen(n + 1)]

ProjectOutcomes == {"opened", "unreadable", "experimentsUnreadable"}

(* multiWorkspaceOpenProject: the file is read before anything is dropped. *)
OpenProject(s, outcome, saved, tabs) ==
  LET cleared == [ClearExperiments(s) EXCEPT !.multiWorkspaceOpen = TRUE]
  IN  CASE outcome = "unreadable" -> s
        [] outcome = "experimentsUnreadable" -> cleared
        [] outcome = "opened" ->
             RestoreOpenEmbeddedTabs(LoadExperiments(cleared, saved), tabs)

(***************************************************************************)
(* main.cpp: saving                                                        *)
(***************************************************************************)

(* One tab, the active one.  Stale results are left out of the file.         *)
DoSaveWorkspace(s) ==
  [s EXCEPT !.dirty = @ \ {s.active}, !.staleOnDisk = @ \ {s.active}]

(* How many tabs a Save gets through before one cannot be written.           *)
TabSaveStops(s) ==
  {m \in 0 .. Len(s.sessions) :
      m = Len(s.sessions) \/ s.sessions[m + 1] \in s.dirty}

(* Ctrl+S: every dirty tab, then the experiments; a failure ends it.  Here   *)
(* stale results are written as they are.                                    *)
SaveEverything(s, m, n) ==
  LET written == {s.sessions[i] : i \in 1 .. m} \cap s.dirty
      tabs    == [s EXCEPT !.dirty = @ \ written,
                           !.staleOnDisk = @ \cup (written \cap s.stale)]
  IN  IF m < Len(s.sessions) \/ ~s.multiWorkspaceOpen THEN tabs
      ELSE SaveExperiments(tabs, ExpIndices(s), n)

SaveDeferAllowed(s) ==
  /\ ~s.exitSaveAllRunning /\ ~s.showExitDirtyModal
  /\ s.sessions # << >> \/ s.experiments # << >> \/ s.multiWorkspaceOpen
  /\ s.pendingSaveKind = "None"

RequestSaveEverything(s) ==
  IF SaveDeferAllowed(s) THEN [s EXCEPT !.pendingSaveKind = "Everything"] ELSE s

(* Save As: the active tab goes to a file just chosen. *)
RequestSaveAs(s) ==
  IF ~SaveDeferAllowed(s) THEN s
  ELSE IF s.active = NoTab THEN Crash(s)
  ELSE IF s.active \in s.stale THEN [s EXCEPT !.showStaleDropPrompt = TRUE]
  ELSE [s EXCEPT !.pendingSaveKind = "Workspace"]

(* Frame top: the active tab is the one that is active by now. *)
ExecutePendingSave(s, saved, m, n) ==
  LET r == [s EXCEPT !.pendingSaveKind = "None"]
  IN  CASE s.pendingSaveKind = "None" -> s
        [] s.pendingSaveKind = "Everything" -> SaveEverything(r, m, n)
        [] s.pendingSaveKind = "Workspace" ->
             IF s.active = NoTab THEN Crash(r)
             ELSE IF saved THEN DoSaveWorkspace(r) ELSE r

(***************************************************************************)
(* main.cpp: what waits for an answer                                      *)
(***************************************************************************)

DispatchPendingAction(s, outcome, saved, tabs) ==
  LET r == [s EXCEPT !.pendingWorkspaceAction = "None",
                     !.showUnsavedPrompt = FALSE, !.showStaleDropPrompt = FALSE]
      p == OpenProject(r, outcome, saved, tabs)
  IN  CASE s.pendingWorkspaceAction = "None" -> s
        [] s.pendingWorkspaceAction = "CloseWorkspace" ->
             CloseTab(r, r.activeSessionIdx)
        [] s.pendingWorkspaceAction = "OpenMultiWorkspace" ->
             IF outcome # "opened" THEN p
             ELSE [FocusSessionTab(p) EXCEPT !.welcome = FALSE]

(* Replacing the project asks when the active tab or any experiment is       *)
(* dirty.                                                                    *)
RequestReplaceProject(s, outcome, saved, tabs) ==
  LET r == [s EXCEPT !.pendingWorkspaceAction = "OpenMultiWorkspace"]
  IN  IF s.active \in s.dirty \/ s.expDirty # {}
      THEN [r EXCEPT !.showUnsavedPrompt = TRUE]
      ELSE DispatchPendingAction(r, outcome, saved, tabs)

(* A prompt or flow that a close request or Ctrl+H has to wait for. *)
DirtyFlowPending(s) ==
  \/ s.showUnsavedPrompt \/ s.showExitDirtyModal \/ s.showStaleDropPrompt
  \/ s.exitSaveAllRunning \/ s.pendingWorkspaceAction # "None"

\* Mutant of DirtyTabIndices: parked tabs are not asked
DirtyActiveTab(s) ==
  {i \in TabIndices(s) : s.sessions[i] \in s.dirty /\ i = s.activeSessionIdx}

(* The dirty tabs in the order they are saved: the active one first, then by *)
(* index.  A tab whose index is activeSessionIdx is listed only while a      *)
(* workspace tab is active.                                                  *)
DirtyTabIndices(s) ==
  {i \in TabIndices(s) :
      /\ s.sessions[i] \in s.dirty
      /\ i = s.activeSessionIdx => s.activeTabKind = "Workspace"}

DirtyTabOrders(s) ==
  LET D == DirtyTabIndices(s)
      before(i, j) == \/ i = s.activeSessionIdx /\ j # i
                      \/ i < j /\ j # s.activeSessionIdx
  IN  {q \in [1 .. Cardinality(D) -> D] :
          \A m, n \in 1 .. Cardinality(D) : m < n => before(q[m], q[n])}

DirtyExperimentIndices(s) == {i \in ExpIndices(s) : s.experiments[i] \in s.expDirty}

NothingCollected(s) == DirtyTabIndices(s) = {} /\ DirtyExperimentIndices(s) = {}

(* collectDirtyTabs and the modal it is for; `order` is in DirtyTabOrders.   *)
ShowExitModal(s, order) ==
  [s EXCEPT !.exitDirtyTabs = order,
            !.exitDirtyExperiments = DirtyExperimentIndices(s),
            !.showExitDirtyModal = TRUE]

(* core/app_state.cpp: Ctrl+H *)
RequestGoHome(s, order) ==
  IF DirtyFlowPending(s) \/ s.welcome THEN s
  ELSE IF NothingCollected(s)
  THEN [s EXCEPT !.pendingGoHome = TRUE, !.exitDirtyExperiments = {}]
  ELSE [ShowExitModal(s, order) EXCEPT !.exitTargetIsGoHome = TRUE]

(* The tail of finalizeGoHome, once every tab has been removed. *)
FinishGoHome(s) ==
  [ClearExperiments(s) EXCEPT !.exitDirtyTabs = << >>,
                              !.exitDirtyExperiments = {},
                              !.lastActiveSessionIdx = 0, !.welcome = TRUE]

(***************************************************************************)
(* ui/app_loop.cpp: the exit Save All, one dirty tab per frame             *)
(***************************************************************************)

AbandonSaveAll(s) ==
  [s EXCEPT !.exitSaveAllRunning = FALSE, !.exitDirtyTabs = << >>,
            !.exitDirtyExperiments = {}, !.exitTargetIsGoHome = FALSE]

(* The tabs are done: the experiments, then the window or the welcome        *)
(* screen.  Without an open project nothing is written.                      *)
FinishSaveAll(s, n) ==
  LET listed  == s.exitDirtyExperiments \cap ExpIndices(s)
      passed  == [s EXCEPT !.exitSaveAllCursor = @ + 1]
      written == IF s.multiWorkspaceOpen THEN SaveExperiments(passed, listed, n)
                 ELSE passed
      done    == [AbandonSaveAll(written) EXCEPT
                    !.expDirty = @ \ {s.experiments[i] : i \in listed}]
  IN  IF s.multiWorkspaceOpen /\ n < Len(s.experiments) THEN AbandonSaveAll(written)
      ELSE IF s.exitTargetIsGoHome THEN [done EXCEPT !.pendingGoHome = TRUE]
      ELSE [done EXCEPT !.shouldClose = TRUE]

SaveAllPaused(s) ==
  \/ ~s.exitSaveAllRunning \/ s.showUnsavedPrompt \/ s.showStaleDropPrompt
  \/ s.pendingSwapIdx # 0

SaveAllTabsDone(s) == s.exitSaveAllCursor = Len(s.exitDirtyTabs)

SaveAllTarget(s) == s.exitDirtyTabs[s.exitSaveAllCursor + 1]

\* Mutant of SaveAllTab: a tab that cannot be saved is tried again
SaveAllRetries(s, saved) ==
  LET next == [DoSaveWorkspace(s) EXCEPT !.exitSaveAllCursor = @ + 1]
  IN  IF s.activeSessionIdx # SaveAllTarget(s) THEN SwapInSession(s, SaveAllTarget(s))
      ELSE IF s.active = NoTab THEN Crash(s)
      ELSE IF ~saved THEN s
      ELSE IF SaveAllTabsDone(next) THEN next
      ELSE SwapInSession(next, SaveAllTarget(next))

(* The tab under the cursor is swapped in; once it is the active one, saved. *)
SaveAllTab(s, saved) ==
  LET next == [DoSaveWorkspace(s) EXCEPT !.exitSaveAllCursor = @ + 1]
  IN  IF s.activeSessionIdx # SaveAllTarget(s) THEN SwapInSession(s, SaveAllTarget(s))
      ELSE IF s.active = NoTab THEN Crash(s)
      ELSE IF ~saved THEN AbandonSaveAll(s)
      ELSE IF SaveAllTabsDone(next) THEN next
      ELSE SwapInSession(next, SaveAllTarget(next))

AdvanceExitSaveAll(s, saved, n) ==
  IF SaveAllPaused(s) THEN s
  ELSE IF SaveAllTabsDone(s) THEN FinishSaveAll(s, n)
  ELSE SaveAllTab(s, saved)

\* Mutants of PollEvents: no question about dirty tabs; a close that had to
\* wait is not applied later
PollUnasked(s, pressed, order) ==
  LET asked    == [s EXCEPT !.shouldClose = @ \/ pressed]
      deferred == IF asked.shouldClose /\ DirtyFlowPending(asked)
                  THEN [asked EXCEPT !.shouldClose = FALSE,
                                     !.exitDeferredClose = TRUE]
                  ELSE asked
  IN  IF deferred.exitDeferredClose /\ ~DirtyFlowPending(deferred)
      THEN [deferred EXCEPT !.exitDeferredClose = FALSE, !.shouldClose = TRUE]
      ELSE deferred

PollForgets(s, pressed, order) ==
  LET asked    == [s EXCEPT !.shouldClose = @ \/ pressed]
      checked  == IF ~asked.shouldClose \/ DirtyFlowPending(s) THEN asked
                  ELSE IF NothingCollected(s)
                  THEN [asked EXCEPT !.exitDirtyExperiments = {}]
                  ELSE [ShowExitModal(asked, order) EXCEPT !.shouldClose = FALSE]
  IN  IF checked.shouldClose /\ DirtyFlowPending(checked)
      THEN [checked EXCEPT !.shouldClose = FALSE, !.exitDeferredClose = TRUE]
      ELSE checked

(* AppLoop::pollEvents with the window's close flag raised or not.  The last *)
(* step re-applies a close that had to wait.                                 *)
PollEvents(s, pressed, order) ==
  LET asked    == [s EXCEPT !.shouldClose = @ \/ pressed]
      checked  == IF ~asked.shouldClose \/ DirtyFlowPending(s) THEN asked
                  ELSE IF NothingCollected(s)
                  THEN [asked EXCEPT !.exitDirtyExperiments = {}]
                  ELSE [ShowExitModal(asked, order) EXCEPT !.shouldClose = FALSE]
      deferred == IF checked.shouldClose /\ DirtyFlowPending(checked)
                  THEN [checked EXCEPT !.shouldClose = FALSE,
                                       !.exitDeferredClose = TRUE]
                  ELSE checked
  IN  IF deferred.exitDeferredClose /\ ~DirtyFlowPending(deferred)
      THEN [deferred EXCEPT !.exitDeferredClose = FALSE, !.shouldClose = TRUE]
      ELSE deferred

(* Frame top: the parked tab whose close was asked for is active now. *)
RaiseClosePrompt(s) ==
  IF s.pendingCloseAfterSwap = 0 THEN s
  ELSE [s EXCEPT !.pendingTabCloseIdx = s.pendingCloseAfterSwap,
                 !.pendingCloseAfterSwap = 0, !.showUnsavedPrompt = TRUE]

RunPendingRemove(s) ==
  IF s.pendingRemoveIdx = 0 THEN s
  ELSE RemoveTab([s EXCEPT !.pendingRemoveIdx = 0], s.pendingRemoveIdx)

(***************************************************************************)
(* ui/app_loop.cpp: the answers of the modals                              *)
(***************************************************************************)

(* The tab-close prompt is resolved: the tab goes at the next frame top. *)
ResolveTabClose(s) ==
  [s EXCEPT !.pendingRemoveIdx = s.pendingTabCloseIdx, !.pendingTabCloseIdx = 0,
            !.pendingWorkspaceAction = "None", !.showUnsavedPrompt = FALSE]

\* Mutants of AnswerSave: a failed save counts as done; stale results are not
\* asked about
AnswerSaveUnchecked(s, saved, n, outcome, loaded, tabs) ==
  IF s.active = NoTab THEN Crash(s)
  ELSE IF s.active \in s.stale THEN [s EXCEPT !.showStaleDropPrompt = TRUE]
  ELSE LET w == IF saved THEN DoSaveWorkspace(s) ELSE s
       IN  IF s.pendingTabCloseIdx # 0 THEN ResolveTabClose(w)
           ELSE DispatchPendingAction(w, outcome, loaded, tabs)

AnswerSaveStale(s, saved, n, outcome, loaded, tabs) ==
  IF s.active = NoTab THEN Crash(s)
  ELSE IF ~saved
  THEN [s EXCEPT !.pendingTabCloseIdx = 0, !.pendingWorkspaceAction = "None"]
  ELSE IF s.pendingTabCloseIdx # 0 THEN ResolveTabClose(DoSaveWorkspace(s))
  ELSE DispatchPendingAction(DoSaveWorkspace(s), outcome, loaded, tabs)

(* Save.  The first n experiments are written when a project is replaced;    *)
(* the action goes ahead whether or not that was all of them.                *)
AnswerSave(s, saved, n, outcome, loaded, tabs) ==
  LET closing   == s.pendingTabCloseIdx # 0
      r         == IF closing
                   THEN [s EXCEPT !.pendingWorkspaceAction = "CloseWorkspace"] ELSE s
      replacing == r.pendingWorkspaceAction = "OpenMultiWorkspace"
      w         == DoSaveWorkspace(r)
      both      == IF replacing THEN SaveExperiments(w, ExpIndices(s), n) ELSE w
  IN  IF s.active = NoTab THEN Crash(r)
      ELSE IF s.active \in s.stale THEN [r EXCEPT !.showStaleDropPrompt = TRUE]
      ELSE IF ~saved
      THEN [r EXCEPT !.pendingTabCloseIdx = 0, !.pendingWorkspaceAction = "None"]
      ELSE IF closing THEN ResolveTabClose(w)
      ELSE DispatchPendingAction(both, outcome, loaded, tabs)

(* What the Unsaved Changes prompt shows: the active tab, and the dirty      *)
(* experiments unless it is about closing a tab.                             *)
NamedByPrompt(s) ==
  (IF s.active = NoTab THEN {} ELSE {s.active})
  \cup (IF s.pendingTabCloseIdx # 0 THEN {} ELSE s.expDirty)

AnswerDontSave(s, outcome, loaded, tabs) ==
  LET r == [s EXCEPT !.consent = @ \cup NamedByPrompt(s)]
  IN  IF s.pendingTabCloseIdx # 0 THEN ResolveTabClose(r)
      ELSE DispatchPendingAction(r, outcome, loaded, tabs)

\* Mutant of AnswerCancel: the tab to close is not forgotten
AnswerCancelKeepsTab(s) ==
  [s EXCEPT !.pendingWorkspaceAction = "None", !.showUnsavedPrompt = FALSE,
            !.exitDeferredClose = FALSE]

AnswerCancel(s) ==
  [s EXCEPT !.pendingWorkspaceAction = "None", !.pendingTabCloseIdx = 0,
            !.showUnsavedPrompt = FALSE, !.exitDeferredClose = FALSE]

(* The stale prompt lists the active tab's categories before it is answered. *)
StaleCancel(s) ==
  IF s.active = NoTab THEN Crash(s) ELSE [s EXCEPT !.showStaleDropPrompt = FALSE]

StaleDrop(s, saved, outcome, loaded, tabs) ==
  IF s.active = NoTab THEN Crash(s)
  ELSE IF ~saved THEN s
  ELSE DispatchPendingAction([DoSaveWorkspace(s) EXCEPT !.showStaleDropPrompt = FALSE],
                             outcome, loaded, tabs)

ExitSaveAll(s) ==
  [s EXCEPT !.showExitDirtyModal = FALSE, !.exitSaveAllRunning = TRUE,
            !.exitSaveAllCursor = 0]

(* Discard All drops every listed tab's and experiment's dirty flag. *)
ExitDiscardAll(s) ==
  LET tabs == {s.sessions[i] : i \in Range(s.exitDirtyTabs) \cap TabIndices(s)}
      exps == {s.experiments[i] : i \in s.exitDirtyExperiments \cap ExpIndices(s)}
      r == [s EXCEPT !.dirty = @ \ tabs, !.expDirty = @ \ exps,
                     !.consent = @ \cup tabs \cup exps,
                     !.exitDirtyTabs = << >>, !.exitDirtyExperiments = {},
                     !.showExitDirtyModal = FALSE]
  IN  IF s.exitTargetIsGoHome THEN [r EXCEPT !.pendingGoHome = TRUE]
      ELSE [r EXCEPT !.shouldClose = TRUE]

ExitCancel(s) ==
  [s EXCEPT !.exitDirtyTabs = << >>, !.exitDirtyExperiments = {},
            !.showExitDirtyModal = FALSE, !.exitDeferredClose = FALSE,
            !.exitTargetIsGoHome = FALSE]

ConfirmExperimentDelete(s) ==
  LET idx    == s.pendingExperimentDeleteIdx
      agreed == {s.experiments[i] : i \in {idx} \cap ExpIndices(s)}
  IN  [RemoveExperiment([s EXCEPT !.consent = @ \cup agreed], idx)
         EXCEPT !.pendingExperimentDeleteIdx = 0]

CancelExperimentDelete(s) == [s EXCEPT !.pendingExperimentDeleteIdx = 0]

(***************************************************************************)
(* session/session_tab.cpp: the Session tab's own commands                 *)
(***************************************************************************)

(* The source is gone from the file already, so its tab goes without asking. *)
RemoveDataset(s, key) ==
  IF key \notin Range(s.sessions) THEN s
  ELSE RemoveTab([s EXCEPT !.consent = @ \cup {key}], IndexOf(s.sessions, key))

(* The dataset that a new multi-workspace embeds. *)
CreateSource(s) ==
  IF s.activeTabKind = "Workspace" /\ s.activeSessionIdx # 0
  THEN s.activeSessionIdx ELSE s.lastActiveSessionIdx

(* Autosave, create the archive, open it, and put the embedded copy in the   *)
(* place of the standalone tab.                                              *)
CreateMultiWorkspace(s, saved, created, outcome, key) ==
  LET src       == s.sessions[CreateSource(s)]
      autosaved == [s EXCEPT !.dirty = @ \ {src},
                             !.staleOnDisk = IF src \in s.dirty \cap s.stale
                                             THEN @ \cup {src} ELSE @]
      opened    == OpenProject(autosaved, outcome, << >>, << >>)
      swapped   == CloseTab(opened, IndexOf(opened.sessions, src))
  IN  IF src \in s.dirty /\ ~saved THEN s
      ELSE IF ~created THEN autosaved
      ELSE OpenInNewTab(swapped, key)

(***************************************************************************)
(* What the user changes in the data: the active tab, the active           *)
(* experiment.  `spoils` when saved results no longer match the change.     *)
(***************************************************************************)

EditActiveTab(s, spoils) ==
  LET k == {s.active}
  IN  [s EXCEPT !.dirty = @ \cup k, !.consent = @ \ k,
                !.stale = IF spoils THEN @ \cup k ELSE @,
                !.staleOnDisk = IF spoils THEN @ \cup k ELSE @]

EditActiveExperiment(s) ==
  LET e == {s.experiments[s.activeExperimentIdx]}
  IN  [s EXCEPT !.expDirty = @ \cup e, !.consent = @ \ e]
================================================================================
