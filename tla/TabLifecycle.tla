------------------------------ MODULE TabLifecycle ------------------------------
(***************************************************************************)
(* The main loop of the GUI.  A frame runs its phases in a fixed order:    *)
(* the queued tab switch, the queued open, the queued save, the queued     *)
(* close prompt and removal, the exit Save All, the go-home finalizer, then*)
(* the window events, the background results, the keyboard and the UI.     *)
(* `pc` is the phase that runs next.                                       *)
(*                                                                         *)
(* The environment is the user (one shortcut in the keyboard phase, one    *)
(* click in the UI phase), the background computations, whose results make *)
(* the active tab dirty, and the disk.  `Allowed` names what it may do in  *)
(* a run beyond the ordinary, and MaxEvents bounds how often it acts.      *)
(***************************************************************************)
EXTENDS AppStateOps

CONSTANTS
    MaxEvents,      \* bound on the environment's acts other than answers
    Allowed         \* a subset of Freedoms

Freedoms ==
  { "failedSave",       \* a write to disk fails
    "failedOpen",       \* a chosen file cannot be loaded
    "spoilingEdit",     \* an edit makes saved results stale
    "lateEdit",         \* a tab gets dirty during an exit or go-home flow
    "closeDuringFlow",  \* the window's x is pressed while a prompt is up
    "clickInFlow",      \* widgets are clicked while Save All, a Save As or
                        \* going home is under way
    "looseExperiment" } \* an experiment is made while no project is open

ASSUME MaxEventsAssumption == MaxEvents \in Nat
ASSUME AllowedAssumption == Allowed \subseteq Freedoms

VARIABLES
    app,            \* the global AppState
    pc,             \* the next phase of the frame
    wantCapture,    \* a modal was open when the frame began: no shortcuts
    events          \* environment acts so far

vars == <<app, pc, wantCapture, events>>

Phases ==
  { "swap", "open", "save", "closePrompt", "remove", "saveAll", "home",
    "closeAll", "poll", "async", "input", "ui", "closed", "crashed" }

TypeOK ==
  /\ app \in AppStates
  /\ pc \in Phases
  /\ wantCapture \in BOOLEAN
  /\ events \in 0 .. MaxEvents

Init ==
  /\ app = Launched
  /\ pc = "swap"
  /\ wantCapture = FALSE
  /\ events = 0

-----------------------------------------------------------------------------
(* The outcomes the disk may produce in this run. *)
SaveOutcomes == IF "failedSave" \in Allowed THEN BOOLEAN ELSE {TRUE}

TabSaves(s) ==
  IF "failedSave" \in Allowed THEN TabSaveStops(s) ELSE {Len(s.sessions)}

ExperimentSaves(s, listed) ==
  IF "failedSave" \in Allowed THEN ExperimentSaveStops(s, listed)
  ELSE {Len(s.experiments)}

TabOpens(key) ==
  IF "failedOpen" \notin Allowed THEN {"loaded"}
  ELSE IF key \in EmbeddedKeys THEN {"loaded", "failed"} ELSE OpenOutcomes

ProjectOpens ==
  IF "failedOpen" \in Allowed THEN ProjectOutcomes ELSE {"opened"}

-----------------------------------------------------------------------------
(* Which modal is drawn: the exit modal hides the others, and so on down.    *)
ExitUp(s) == s.showExitDirtyModal
StaleUp(s) == s.showStaleDropPrompt /\ ~ExitUp(s)
UnsavedUp(s) == s.showUnsavedPrompt /\ ~ExitUp(s) /\ ~StaleUp(s)
DeleteUp(s) ==
  s.pendingExperimentDeleteIdx # 0 /\ ~ExitUp(s) /\ ~StaleUp(s) /\ ~UnsavedUp(s)

ModalUp(s) == ExitUp(s) \/ StaleUp(s) \/ UnsavedUp(s) \/ DeleteUp(s)

(* After phase `from`, the program is in state s and runs phase `to` next. *)
Step(from, s, to) ==
  /\ pc = from
  /\ app' = s
  /\ pc' = IF s.nullDeref THEN "crashed" ELSE to
  /\ wantCapture' = IF from = "ui" THEN ModalUp(s) ELSE wantCapture

Quiet == UNCHANGED events

Act ==
  /\ events < MaxEvents
  /\ events' = events + 1

-----------------------------------------------------------------------------
(* AppLoop::runFrame, the frame top *)

Swap == Step("swap", ExecutePendingSwap(app), "open") /\ Quiet

Open ==
  /\ \E outcome \in TabOpens(app.pendingOpen) :
        Step("open", ExecutePendingOpen(app, outcome), "save")
  /\ Quiet

Save ==
  /\ \E saved \in SaveOutcomes, m \in TabSaves(app),
        n \in ExperimentSaves(app, ExpIndices(app)) :
        Step("save", ExecutePendingSave(app, saved, m, n), "closePrompt")
  /\ Quiet

ClosePrompt == Step("closePrompt", RaiseClosePrompt(app), "remove") /\ Quiet

RemoveTabQueued == Step("remove", RunPendingRemove(app), "saveAll") /\ Quiet

SaveAll ==
  /\ \E saved \in SaveOutcomes,
        n \in ExperimentSaves(app, app.exitDirtyExperiments) :
        Step("saveAll", AdvanceExitSaveAll(app, saved, n), "home")
  /\ Quiet

Home ==
  /\ IF app.pendingGoHome
     THEN Step("home", [app EXCEPT !.pendingGoHome = FALSE,
                                   !.exitTargetIsGoHome = FALSE], "closeAll")
     ELSE Step("home", app, "poll")
  /\ Quiet

(* finalizeGoHome removes the tabs back to front. *)
CloseLastTab ==
  /\ app.sessions # << >>
  /\ Step("closeAll", RemoveTab(app, Len(app.sessions)), "closeAll")
  /\ Quiet

GoneHome ==
  /\ app.sessions = << >>
  /\ Step("closeAll", FinishGoHome(app), "poll")
  /\ Quiet

-----------------------------------------------------------------------------
(* Window events, background results, keyboard *)

MayPressClose ==
  /\ events < MaxEvents
  /\ "closeDuringFlow" \in Allowed \/ ~DirtyFlowPending(app)

Poll ==
  \E pressed \in BOOLEAN, order \in DirtyTabOrders(app) :
    LET s == PollEvents(app, pressed, order) IN
    /\ pressed => MayPressClose
    /\ Step("poll", s, IF s.shouldClose THEN "closed" ELSE "async")
    /\ events' = IF pressed THEN events + 1 ELSE events

Spoils == IF "spoilingEdit" \in Allowed THEN BOOLEAN ELSE {FALSE}

MayEdit ==
  \/ "lateEdit" \in Allowed
  \/ ~(app.showExitDirtyModal \/ app.exitSaveAllRunning \/ app.pendingGoHome)

WorkspaceShown == app.activeTabKind = "Workspace" /\ app.active # NoTab

(* A computation of the active tab finishes and its result is stored in it.  *)
BackgroundResult ==
  /\ WorkspaceShown
  /\ MayEdit
  /\ \E spoils \in Spoils : Step("async", EditActiveTab(app, spoils), "input")
  /\ Act

NoResult == Step("async", app, "input") /\ Quiet

(* The shortcuts *)
Shortcut(s) == ~wantCapture /\ Step("input", s, "ui") /\ Act

CtrlS == Shortcut(RequestSaveEverything(app))

CtrlShiftS == WorkspaceShown /\ Shortcut(RequestSaveAs(app))

CtrlH == \E order \in DirtyTabOrders(app) : Shortcut(RequestGoHome(app, order))

NoShortcut == Step("input", app, "ui") /\ Quiet

-----------------------------------------------------------------------------
(* The UI phase: the modal that is up takes the click, or else the widgets   *)

Answer(up, s) == up /\ Step("ui", s, "swap") /\ Quiet

PressSave ==
  \E saved \in SaveOutcomes, n \in ExperimentSaves(app, ExpIndices(app)),
     outcome \in ProjectOpens, loaded \in UnloadedExperiments(Launched),
     tabs \in ReopenableTabs(app) :
    Answer(UnsavedUp(app), AnswerSave(app, saved, n, outcome, loaded, tabs))

PressDontSave ==
  \E outcome \in ProjectOpens, loaded \in UnloadedExperiments(Launched),
     tabs \in ReopenableTabs(app) :
    Answer(UnsavedUp(app), AnswerDontSave(app, outcome, loaded, tabs))

PressCancel == Answer(UnsavedUp(app), AnswerCancel(app))

PressStaleDrop ==
  \E saved \in SaveOutcomes, outcome \in ProjectOpens,
     loaded \in UnloadedExperiments(Launched), tabs \in ReopenableTabs(app) :
    Answer(StaleUp(app), StaleDrop(app, saved, outcome, loaded, tabs))

PressStaleCancel == Answer(StaleUp(app), StaleCancel(app))

PressSaveAll == Answer(ExitUp(app), ExitSaveAll(app))

PressDiscardAll == Answer(ExitUp(app), ExitDiscardAll(app))

PressExitCancel == Answer(ExitUp(app), ExitCancel(app))

PressDelete == Answer(DeleteUp(app), ConfirmExperimentDelete(app))

PressDeleteCancel == Answer(DeleteUp(app), CancelExperimentDelete(app))

FlowUnderWay ==
  app.exitSaveAllRunning \/ app.pendingGoHome \/ app.pendingSaveKind = "Workspace"

Click(s) ==
  /\ ~ModalUp(app)
  /\ "clickInFlow" \in Allowed \/ ~FlowUnderWay
  /\ Step("ui", s, "swap")
  /\ Act

NoClick == Step("ui", app, "swap") /\ Quiet

Edit ==
  /\ WorkspaceShown
  /\ MayEdit
  /\ \E spoils \in Spoils : Click(EditActiveTab(app, spoils))

EditExperiment ==
  /\ app.activeTabKind = "Experiment"
  /\ app.activeExperimentIdx # 0
  /\ Click(EditActiveExperiment(app))

(* The tab strip, absent on the welcome screen *)
ClickSessionTab ==
  ~app.welcome /\ app.activeTabKind # "Session" /\ Click(FocusSessionTab(app))

ClickTab ==
  \E idx \in TabIndices(app) :
    /\ ~app.welcome
    /\ ~(app.activeTabKind = "Workspace" /\ app.activeSessionIdx = idx)
    /\ Click(SwapInSession(app, idx))

ClickCloseTab ==
  \E idx \in TabIndices(app) : ~app.welcome /\ Click(CloseTab(app, idx))

ShownExperiments ==
  IF app.welcome THEN {}
  ELSE {idx \in ExpIndices(app) : app.experiments[idx] \notin app.expHidden}

ClickExperimentTab ==
  \E idx \in ShownExperiments : Click(ActivateExperiment(app, idx))

ClickCloseExperimentTab ==
  \E idx \in ShownExperiments : Click(CloseRequest(app, idx))

(* Menu bar and welcome screen *)
OpenFile == \E key \in FileKeys : Click(OpenInNewTab(app, key))

SaveAs == WorkspaceShown /\ Click(RequestSaveAs(app))

OpenFirstProject ==
  \E outcome \in ProjectOpens, loaded \in UnloadedExperiments(Launched),
     tabs \in ReopenableTabs(app) :
    LET p == OpenProject(app, outcome, loaded, tabs) IN
    /\ ~app.multiWorkspaceOpen
    /\ Click(IF outcome # "opened" THEN p
             ELSE [FocusSessionTab(p) EXCEPT !.welcome = FALSE])

(* New Multi-Workspace on the welcome screen: an empty project. *)
NewEmptyProject ==
  \E created \in SaveOutcomes, outcome \in ProjectOpens :
    LET p == OpenProject(app, outcome, << >>, << >>) IN
    /\ app.welcome
    /\ Click(IF ~created THEN app
             ELSE IF outcome # "opened" THEN p
             ELSE [FocusSessionTab(p) EXCEPT !.welcome = FALSE])

OpenSameProject ==
  \E loaded \in UnloadedExperiments(app), tabs \in ReopenableTabs(app) :
    LET p == RestoreOpenEmbeddedTabs(LoadExperiments(FocusSessionTab(app), loaded), tabs)
    IN  app.multiWorkspaceOpen /\ Click([p EXCEPT !.welcome = FALSE])

ReplaceProject ==
  \E outcome \in ProjectOpens, loaded \in UnloadedExperiments(Launched),
     tabs \in ReopenableTabs(app) :
    /\ app.multiWorkspaceOpen
    /\ Click(RequestReplaceProject(app, outcome, loaded, tabs))

(* The Session tab's panels *)
SessionShown == app.activeTabKind = "Session" /\ ~app.welcome

OpenSource ==
  \E key \in EmbeddedKeys :
    SessionShown /\ app.multiWorkspaceOpen /\ Click(OpenInNewTab(app, key))

DeleteDataset ==
  \E key \in EmbeddedKeys :
    SessionShown /\ app.multiWorkspaceOpen /\ Click(RemoveDataset(app, key))

NewMultiWorkspace ==
  \E saved \in SaveOutcomes, created \in SaveOutcomes, outcome \in ProjectOpens,
     key \in EmbeddedKeys \ Range(app.sessions) :
    /\ SessionShown /\ ~app.multiWorkspaceOpen
    /\ app.sessions # << >> /\ CreateSource(app) # 0
    /\ app.sessions[CreateSource(app)] \in FileKeys
    /\ Click(CreateMultiWorkspace(app, saved, created, outcome, key))

NewExperiment ==
  \E e \in ExpIds \ Range(app.experiments) :
    /\ SessionShown
    /\ app.multiWorkspaceOpen \/ "looseExperiment" \in Allowed
    /\ Click(CreateExperiment(app, e))

ClickExperimentRow ==
  \E idx \in ExpIndices(app) : SessionShown /\ Click(ActivateExperiment(app, idx))

DeleteExperiment ==
  \E idx \in ExpIndices(app) : SessionShown /\ Click(RequestDelete(app, idx))

-----------------------------------------------------------------------------

FrameTop ==
  \/ Swap \/ Open \/ Save \/ ClosePrompt \/ RemoveTabQueued \/ SaveAll
  \/ Home \/ CloseLastTab \/ GoneHome

Answers ==
  \/ PressSave \/ PressDontSave \/ PressCancel \/ PressStaleDrop \/ PressStaleCancel
  \/ PressSaveAll \/ PressDiscardAll \/ PressExitCancel
  \/ PressDelete \/ PressDeleteCancel

StripClicks ==
  \/ ClickSessionTab \/ ClickTab \/ ClickCloseTab
  \/ ClickExperimentTab \/ ClickCloseExperimentTab

OtherClicks ==
  \/ Edit \/ EditExperiment \/ OpenFile \/ SaveAs
  \/ OpenFirstProject \/ NewEmptyProject \/ OpenSameProject \/ ReplaceProject
  \/ OpenSource \/ DeleteDataset \/ NewMultiWorkspace
  \/ NewExperiment \/ ClickExperimentRow \/ DeleteExperiment

(* The process has ended. *)
Ended == pc \in {"closed", "crashed"} /\ UNCHANGED vars

Next ==
  \/ FrameTop \/ Poll
  \/ BackgroundResult \/ NoResult
  \/ CtrlS \/ CtrlShiftS \/ CtrlH \/ NoShortcut
  \/ Answers \/ StripClicks \/ OtherClicks \/ NoClick
  \/ Ended

Spec == Init /\ [][Next]_vars

(* The loop keeps running, and a user faced with a modal dismisses it in the *)
(* end, whatever else was pressed before.                                    *)
Fairness ==
  /\ WF_vars(Next)
  /\ SF_vars(PressCancel) /\ SF_vars(PressStaleCancel)
  /\ SF_vars(PressExitCancel) /\ SF_vars(PressDeleteCancel)

FairSpec == Spec /\ Fairness

-----------------------------------------------------------------------------
(* Safety *)

(* No tab is open twice, so a key resolves to one tab. *)
KeysDistinct ==
  \A i, j \in TabIndices(app) : app.sessions[i] = app.sessions[j] => i = j

(* The pointer to the active tab and its index always name the same tab, and *)
(* no other tab is of the same file: a save takes its data through the       *)
(* pointer and its target file through the index (doSaveWorkspace), so a     *)
(* disagreement writes one tab over another.                                 *)
ActiveConsistent ==
  /\ KeysDistinct
  /\ app.active # NoTab =>
       /\ app.activeTabKind = "Workspace"
       /\ app.activeSessionIdx \in TabIndices(app)
       /\ app.sessions[app.activeSessionIdx] = app.active
  /\ app.activeTabKind = "Workspace" /\ app.activeSessionIdx # 0 =>
       app.active # NoTab

(* Save All's cursor stays on its work list while tabs come and go.          *)
SaveAllCursorInBounds ==
  app.exitSaveAllRunning => app.exitSaveAllCursor <= Len(app.exitDirtyTabs)

(* Every queued index still names a tab (an experiment) after any removal:   *)
(* the frame top indexes the vectors with them.  Save All lists no tab twice *)
(* and its cursor stays on its list.                                         *)
QueuesInRange ==
  LET tabs == 0 .. Len(app.sessions) IN
  /\ app.activeSessionIdx \in tabs /\ app.lastActiveSessionIdx \in tabs
  /\ app.pendingSwapIdx \in tabs /\ app.pendingCloseAfterSwap \in tabs
  /\ app.pendingTabCloseIdx \in tabs /\ app.pendingRemoveIdx \in tabs
  /\ Range(app.exitDirtyTabs) \subseteq TabIndices(app)
  /\ \A m, n \in DOMAIN app.exitDirtyTabs :
       app.exitDirtyTabs[m] = app.exitDirtyTabs[n] => m = n
  /\ app.pendingExperimentIdx \in 0 .. Len(app.experiments)
  /\ app.activeTabKind = "Experiment" =>
       app.activeExperimentIdx \in 0 .. Len(app.experiments)
  /\ SaveAllCursorInBounds

(* A file chosen by the user is loaded into the tab made for it, whatever    *)
(* tab switch was queued since (executePendingOpen writes to *active).       *)
OpenLandsInItsTab ==
  pc = "open" /\ app.pendingOpen # NoTab => app.active = app.pendingOpen

(* The prompt about closing a tab shows, and saves, that very tab.           *)
PromptShowsTabBeingClosed ==
  pc = "ui" /\ UnsavedUp(app) /\ app.pendingTabCloseIdx # 0 =>
    app.active = app.sessions[app.pendingTabCloseIdx]

(* The shared exit modal resolves to "go home" only in the flow Ctrl+H       *)
(* started: closing the window never turns into going home.                  *)
GoHomeTargetScoped ==
  app.exitTargetIsGoHome =>
    app.showExitDirtyModal \/ app.exitSaveAllRunning \/ app.pendingGoHome

(* Nothing waits for an answer without a prompt that can give it: a latched  *)
(* action would defer every later exit for ever, and a latched target would  *)
(* turn it into going home.                                                  *)
WaitingHasPrompt ==
  /\ GoHomeTargetScoped
  /\ pc = "ui" /\ (app.pendingTabCloseIdx # 0 \/ app.pendingWorkspaceAction # "None")
       => app.showUnsavedPrompt

(* The program never goes through the null active pointer. *)
NoNullDereference == pc # "crashed"

(* core/app_state.cpp: "Every tab is clean here (saved or discarded via the  *)
(* shared modal)".                                                           *)
GoHomeFindsTabsClean == pc = "closeAll" => app.dirty = {}

(* An experiment without unsaved changes is in the project file, or the user *)
(* chose to lose it.                                                         *)
CleanExperimentIsSaved ==
  \A e \in Range(app.experiments) \ app.expDirty : e \in app.expSaved \cup app.consent

(* A tab is closed with unsaved changes only after the user agreed to lose   *)
(* them: by Don't Save in a prompt that named it, by Discard All, or with    *)
(* its dataset.                                                              *)
TabCloseKeepsChanges == app.lost \cap Keys = {}

(* The same of experiments: Delete, Don't Save, Discard All.                 *)
ExperimentsNeverLost == app.lost \cap ExpIds = {}

(* The window closes only when no tab or experiment holds changes the user   *)
(* still wants.                                                              *)
ExitKeepsChanges ==
  pc = "closed" => app.dirty \cup app.expDirty \subseteq app.consent

-----------------------------------------------------------------------------
(* Action properties *)

StaleResultsDropped == (app.staleOnDisk \ app'.staleOnDisk) \cap Range(app'.sessions) # {}

(* Results that went stale leave a file only after the stale prompt (a fresh *)
(* load of the file aside).                                                  *)
StaleDropConfirmed ==
  [][StaleResultsDropped => app.showStaleDropPrompt \/ pc = "open"]_vars

(* Of the saves, only the exit Save All leaves them out unasked: Save in a   *)
(* prompt, Save As and Ctrl+S never do.                                      *)
StaleDropAskedBySaves ==
  [][StaleResultsDropped =>
       app.showStaleDropPrompt \/ app.exitSaveAllRunning \/ pc = "open"]_vars

(* An answer that did not agree to lose an experiment does not lose it: a    *)
(* Save that fails must stop the action it was to precede.                   *)
AnswersKeepExperiments ==
  [][pc = "ui" /\ ModalUp(app) => (app'.lost \ app.lost) \cap ExpIds = {}]_vars

-----------------------------------------------------------------------------
(* Liveness *)

(* Save All ends, whatever tabs are closed and switched meanwhile.           *)
SaveAllEnds == app.exitSaveAllRunning ~> ~app.exitSaveAllRunning

(* A close request that had to wait is carried out or called off.            *)
DeferredCloseResolves ==
  app.exitDeferredClose ~> (pc = "closed" \/ ~app.exitDeferredClose)
================================================================================
