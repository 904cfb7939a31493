------------------------------ MODULE TabFlowProofs ------------------------------
(***************************************************************************)
(* What waits for the user's answer, or for its phase of the frame, is     *)
(* found by the code that is to go on with it; and no unsaved change and   *)
(* no stale result is dropped that the user was not asked about.  For all  *)
(* files, sources and experiments, any bound and, where no hypothesis says *)
(* otherwise, any freedoms of the environment.                             *)
(*                                                                         *)
(* The first part is about what waits.  A file asked for is loaded into    *)
(* the tab made for it, and going home is the target of the exit modal     *)
(* only in the flow Ctrl+H began, whatever else happens.  Whatever waits   *)
(* has its prompt unless results go stale and tabs are clicked in the      *)
(* middle of Save All, both (NoSpoils or NoClicks); the prompt names the   *)
(* tab it closes unless they are clicked there (NoClicks).                 *)
(*                                                                         *)
(* The properties speak of one phase each; the invariant (Flow) has to say *)
(* of every phase what may wait in it: a request is queued in one frame,   *)
(* its tab becomes active at the top of the next, and only then does its   *)
(* prompt come up or its file get loaded.  Two things never wait at once.  *)
(* That is so because a widget is reachable only when no modal is up, so   *)
(* each lemma about a click starts where nothing waits (Idle).             *)
(*                                                                         *)
(* The second is about changes in tabs, with NoClicks throughout. What is  *)
(* to go has nothing to lose, what is saved is what was asked about, and   *)
(* (no experiments, nothing dirty too late: Thorough) the exit modal lists *)
(* all that is dirty and Save All leaves it behind its cursor (Keeps).     *)
(* With an experiment on screen the modal misses a tab, which is why       *)
(* Thorough has none.                                                      *)
(*                                                                         *)
(* The third is about experiments.  Those listed are distinct and those not*)
(* dirty are saved or let go of, if none is made outside a project         *)
(* (NoLoose); the exit modal and Save All have every dirty one on their    *)
(* list, so none is left when the program goes home (Held).  One can be    *)
(* lost only where another project takes its place (MayLose).              *)
(*                                                                         *)
(* In each part there is one lemma for each operator, that it keeps the    *)
(* invariant (...Flow, ...Kept, ...Held), then the steps of Next (...Flow, *)
(* ...Keep, ...Exp).  What an operator does to the fields is in            *)
(* TabLifecycleProofs (...Does).                                           *)
(***************************************************************************)
EXTENDS TabLifecycleProofs

USE DEF TabIndices, ExpIndices

-----------------------------------------------------------------------------
(* The invariant of the prompts                                              *)

(* A tab being opened is switched to and then active.                        *)
Opening(s, p) ==
  s.pendingOpen # NoTab =>
    \/ /\ p = "swap" /\ SwitchTo(s, s.pendingSwapIdx)
       /\ s.pendingSwapIdx \in TabIndices(s)
       /\ s.sessions[s.pendingSwapIdx] = s.pendingOpen
    \/ p = "open" /\ s.active = s.pendingOpen

(* Going home is the target only in its own flow.                            *)
TargetScoped(s) ==
  s.exitTargetIsGoHome =>
    s.showExitDirtyModal \/ s.exitSaveAllRunning \/ s.pendingGoHome

(* No tab is about to be opened or closed, and no question is up.            *)
NothingWaits(s) ==
  /\ NoPrompt(s) /\ s.pendingOpen = NoTab
  /\ s.pendingCloseAfterSwap = 0 /\ s.pendingRemoveIdx = 0 /\ s.pendingTabCloseIdx = 0

(* One thing waits at a time, for its phase or for its prompt.               *)
Waits(s, p) ==
  /\ s.pendingOpen # NoTab =>
       /\ p \in {"swap", "open"} /\ NoPrompt(s) /\ s.pendingCloseAfterSwap = 0
       /\ s.pendingRemoveIdx = 0 /\ s.pendingTabCloseIdx = 0
  /\ s.pendingCloseAfterSwap # 0 =>
       /\ p \in {"swap", "open", "save", "closePrompt"} /\ NoPrompt(s)
       /\ s.pendingRemoveIdx = 0 /\ s.pendingTabCloseIdx = 0
  /\ s.pendingRemoveIdx # 0 =>
       /\ p \in {"swap", "open", "save", "closePrompt", "remove"} /\ NoPrompt(s)
       /\ s.pendingTabCloseIdx \in {0, s.pendingRemoveIdx}
  /\ s.pendingTabCloseIdx # 0 =>
       s.showUnsavedPrompt \/ s.pendingRemoveIdx = s.pendingTabCloseIdx
  /\ s.pendingWorkspaceAction # "None" => s.showUnsavedPrompt
  /\ s.pendingWorkspaceAction = "OpenMultiWorkspace" => s.pendingTabCloseIdx = 0

(* No saved result is stale, so nothing asks about one.                      *)
NothingStale(s) ==
  s.stale = {} /\ ~s.showStaleDropPrompt /\ s.pendingWorkspaceAction # "CloseWorkspace"

(* The program, or the project, is being left.                               *)
Leaving(s, p) ==
  \/ s.showExitDirtyModal \/ s.exitSaveAllRunning \/ s.pendingGoHome \/ s.shouldClose
  \/ p = "closeAll"

(* The tab whose close is asked for is the active one, and stays it; nothing *)
(* waits while the program is being left.                                    *)
Located(s, p) ==
  /\ s.pendingCloseAfterSwap # 0 =>
       IF p = "swap" THEN SwitchTo(s, s.pendingCloseAfterSwap)
       ELSE s.active = s.sessions[s.pendingCloseAfterSwap]
  /\ s.pendingTabCloseIdx # 0 => s.active = s.sessions[s.pendingTabCloseIdx] /\ NoSwitch(s)
  /\ s.pendingWorkspaceAction = "CloseWorkspace" => s.pendingTabCloseIdx # 0
  /\ p # "swap" /\ ~NoSwitch(s) =>
       s.active = NoTab \/ (s.exitSaveAllRunning /\ SwitchTo(s, s.pendingSwapIdx))
  /\ Leaving(s, p) => NothingWaits(s)
  /\ s.pendingGoHome => p \notin {"closeAll", "poll", "async", "input"}
  /\ s.shouldClose => p \notin {"async", "input", "ui"}

(* What is known whatever the environment may do, and what needs it not to   *)
(* make results stale, or not to click widgets during a flow.                *)
NoSpoils == "spoilingEdit" \notin Allowed
NoClicks == "clickInFlow" \notin Allowed

(* The invariant of the record s in which the phase p runs next.             *)
Flow(s, p) ==
  /\ Opening(s, p) /\ TargetScoped(s)
  /\ NoSpoils => NothingStale(s)
  /\ NoSpoils \/ NoClicks => Waits(s, p)
  /\ NoClicks => Located(s, p)

(* Nothing has been asked for at launch. *)
LEMMA LaunchedFlow == Flow(Launched, "swap")
  BY DEF Launched, Flow, Opening, TargetScoped, NothingStale, Waits, Located, SwitchTo,
         NoSwitch, NothingWaits, NoPrompt, Leaving

(* Nothing waits: the next frame starts from there.                          *)
LEMMA IdleFlow ==
  ASSUME NEW t, NothingWaits(t), TargetScoped(t), NoSpoils => t.stale = {}
  PROVE  Flow(t, "swap")
  BY DEF Flow, Opening, NothingStale, Waits, Located, NothingWaits, NoPrompt

(* The queued switch, and the open that may depend on it. *)
LEMMA SwapFlow ==
  ASSUME NEW s, Sound(s), Flow(s, "swap")
  PROVE  Flow(ExecutePendingSwap(s), "open")
<1> DEFINE t == ExecutePendingSwap(s)
<1>0. IsApp(s) /\ Len(s.sessions) \in Nat /\ s.pendingCloseAfterSwap \in 0 .. Len(s.sessions)
  BY FieldsOf, FieldTypes DEF Sound, TabQueues
<1>1. /\ IsApp(t) /\ SamePrompts(s, t) /\ SameExit(s, t) /\ SameData(s, t)
      /\ NoSwitch(t) /\ t.sessions = s.sessions
      /\ NoSwitch(s) => SameTabs(s, t)
      /\ \A idx \in TabIndices(s) : SwitchTo(s, idx) => t.active = s.sessions[idx]
  BY <1>0, ExecutePendingSwapDoes
<1> HIDE DEF t
<1>2. Opening(t, "open")
  BY <1>1 DEF Flow, Opening, SamePrompts
<1>3. TargetScoped(t)
  BY <1>1 DEF Flow, TargetScoped, SameExit
<1>4. NoSpoils => NothingStale(t)
  BY <1>1 DEF Flow, NothingStale, SamePrompts, SameData
<1>5. NoSpoils \/ NoClicks => Waits(t, "open")
  BY <1>1 DEF Flow, Waits, SamePrompts, NoPrompt
<1>6. NoClicks => Located(t, "open")
  <2> SUFFICES ASSUME NoClicks PROVE Located(t, "open")
    OBVIOUS
  <2>1. Located(s, "swap")
    BY DEF Flow
  <2>2. s.pendingCloseAfterSwap # 0 => t.active = s.sessions[s.pendingCloseAfterSwap]
    BY <1>0, <1>1, <2>1 DEF Located
  <2>3. NothingWaits(s) => NothingWaits(t)
    BY <1>1 DEF NothingWaits, NoPrompt, SamePrompts
  <2>4. Leaving(t, "open") => Leaving(s, "swap")
    BY <1>1 DEF Leaving, SameExit
  <2> QED
    BY <1>1, <2>1, <2>2, <2>3, <2>4 DEF Located, SamePrompts, SameTabs, SameExit
<1> QED
  BY <1>2, <1>3, <1>4, <1>5, <1>6 DEF Flow, t

(* Whether the program is being left is as before.                           *)
SameLeaving(s, t) ==
  /\ t.showExitDirtyModal = s.showExitDirtyModal
  /\ t.exitSaveAllRunning = s.exitSaveAllRunning
  /\ t.exitTargetIsGoHome = s.exitTargetIsGoHome
  /\ t.pendingGoHome = s.pendingGoHome /\ t.shouldClose = s.shouldClose

(* A phase of the frame that left all this alone.                            *)
FollowedBy(p, q) ==
  <<p, q>> \in { <<"open", "save">>, <<"save", "closePrompt">>, <<"closePrompt", "remove">>,
                <<"remove", "saveAll">>, <<"saveAll", "home">>, <<"home", "poll">>,
                <<"closeAll", "poll">>, <<"poll", "async">>, <<"async", "input">>,
                <<"input", "ui">> }

(* A phase that leaves the tabs and what waits alone, and starts no leaving  *)
(* while something waits.                                                    *)
LEMMA QuietFlow ==
  ASSUME NEW s, NEW t, NEW p, NEW q, FollowedBy(p, q), Flow(s, p),
         SamePrompts(s, t), SameTabs(s, t), SameSwitch(s, t), TargetScoped(t),
         s.pendingOpen = NoTab, NoSpoils => t.stale = {},
         p = "closePrompt" => s.pendingCloseAfterSwap = 0,
         p = "remove" => s.pendingRemoveIdx = 0,
         Leaving(t, q) => Leaving(s, p) \/ (NoClicks => NothingWaits(s)),
         t.exitSaveAllRunning = s.exitSaveAllRunning
         \/ (NoClicks => NoSwitch(s) \/ s.active = NoTab),
         NoClicks /\ t.pendingGoHome => q \notin {"poll", "async", "input"},
         NoClicks /\ t.shouldClose => q \notin {"async", "input", "ui"}
  PROVE  Flow(t, q)
<1>1. Opening(t, q)
  BY DEF Opening, SamePrompts
<1>2. NoSpoils => NothingStale(t)
  BY DEF Flow, NothingStale, SamePrompts
<1>3. NoSpoils \/ NoClicks => Waits(t, q)
  <2>1. SUFFICES ASSUME Waits(s, p) PROVE Waits(t, q)
    BY DEF Flow
  <2>2. s.pendingCloseAfterSwap # 0 => q \in {"save", "closePrompt"}
    BY <2>1 DEF FollowedBy, Waits
  <2>3. s.pendingRemoveIdx # 0 => q \in {"save", "closePrompt", "remove"}
    BY <2>1 DEF FollowedBy, Waits
  <2> QED
    BY <2>1, <2>2, <2>3 DEF Waits, SamePrompts, NoPrompt
<1>4. NoClicks => Located(t, q)
  <2> SUFFICES ASSUME NoClicks PROVE Located(t, q)
    OBVIOUS
  <2>1. Located(s, p) /\ p # "swap" /\ q \notin {"swap", "closeAll"}
    BY DEF Flow, FollowedBy
  <2>2. NothingWaits(s) => NothingWaits(t)
    BY DEF NothingWaits, NoPrompt, SamePrompts
  <2>3. Leaving(t, q) => NothingWaits(t)
    BY <2>1, <2>2 DEF Located
  <2>4. ~NoSwitch(t) =>
          t.active = NoTab \/ (t.exitSaveAllRunning /\ SwitchTo(t, t.pendingSwapIdx))
    BY <2>1 DEF Located, SameSwitch, SameTabs, NoSwitch, SwitchTo
  <2>5. t.pendingTabCloseIdx # 0 =>
          t.active = t.sessions[t.pendingTabCloseIdx] /\ NoSwitch(t)
    BY <2>1 DEF Located, SamePrompts, SameTabs, SameSwitch, NoSwitch, SwitchTo
  <2>6. t.pendingCloseAfterSwap # 0 => t.active = t.sessions[t.pendingCloseAfterSwap]
    BY <2>1 DEF Located, SamePrompts, SameTabs
  <2>7. t.pendingWorkspaceAction = "CloseWorkspace" => t.pendingTabCloseIdx # 0
    BY <2>1 DEF Located, SamePrompts
  <2> QED
    BY <2>1, <2>3, <2>4, <2>5, <2>6, <2>7 DEF Located
<1> QED
  BY <1>1, <1>2, <1>3, <1>4 DEF Flow

(* As the last lemma, when the exit flow is left alone too. *)
LEMMA SameLeavingFlow ==
  ASSUME NEW s, NEW t, NEW p, NEW q, FollowedBy(p, q), Flow(s, p),
         SamePrompts(s, t), SameTabs(s, t), SameSwitch(s, t), SameLeaving(s, t),
         s.pendingOpen = NoTab, NoSpoils => t.stale = {},
         p = "closePrompt" => s.pendingCloseAfterSwap = 0,
         p = "remove" => s.pendingRemoveIdx = 0,
         NoClicks /\ t.pendingGoHome => q \notin {"poll", "async", "input"},
         NoClicks /\ t.shouldClose => q \notin {"async", "input", "ui"}
  PROVE  Flow(t, q)
<1>1. TargetScoped(t)
  BY DEF Flow, TargetScoped, SameLeaving
<1>2. Leaving(t, q) => Leaving(s, p)
  BY DEF Leaving, SameLeaving, FollowedBy
<1>3. t.exitSaveAllRunning = s.exitSaveAllRunning
  BY DEF SameLeaving
<1> QED
  BY <1>1, <1>2, <1>3, QuietFlow

(* A tab is loaded, left blank or removed again. *)
LEMMA OpenFlow ==
  ASSUME NEW s, Sound(s), Flow(s, "open"), NEW outcome,
         ~Crashed(s, ExecutePendingOpen(s, outcome))
  PROVE  Flow(ExecutePendingOpen(s, outcome), "save")
<1> DEFINE t == ExecutePendingOpen(s, outcome)
<1>0. IsApp(s) /\ Len(s.sessions) \in Nat
  BY FieldsOf, FieldTypes DEF Sound
<1>1. \/ OpenTaken(s, t)
      \/ s.pendingOpen # NoTab /\ TabLoaded(s, t) /\ s.active # NoTab
      \/ \E r : /\ s.pendingOpen # NoTab /\ OpenTaken(s, r)
                /\ t = [RemoveTab(r, r.activeSessionIdx) EXCEPT !.activeTabKind = "Session"]
  BY <1>0, ExecutePendingOpenDoes
<1> HIDE DEF t
<1>2. CASE s.pendingOpen = NoTab
  <2>1. OpenTaken(s, t)
    BY <1>1, <1>2
  <2>2. SamePrompts(s, t) /\ SameTabs(s, t) /\ SameSwitch(s, t) /\ SameLeaving(s, t)
        /\ t.stale = s.stale
    BY <1>2, <2>1 DEF OpenTaken, SameButPrompts, SamePrompts, SameCloses, SameQuestions,
                      SameData, SameLeaving, SameExit
  <2>3. NoSpoils => t.stale = {}
    BY <2>2 DEF Flow, NothingStale
  <2>4. FollowedBy("open", "save")
    BY DEF FollowedBy
  <2>5. Flow(t, "save")
    BY <1>2, <2>2, <2>3, <2>4, SameLeavingFlow
  <2> QED
    BY <2>5 DEF t
<1>3. CASE s.pendingOpen # NoTab
  <2>0. s.active = s.pendingOpen
    BY <1>3 DEF Flow, Opening
  <2>1. NoSpoils \/ NoClicks =>
          /\ NoPrompt(s) /\ s.pendingCloseAfterSwap = 0
          /\ s.pendingRemoveIdx = 0 /\ s.pendingTabCloseIdx = 0
    BY <1>3 DEF Flow, Waits
  <2> DEFINE Opened(u) ==
        /\ SameLeaving(s, u) /\ u.stale \subseteq s.stale /\ u.pendingOpen = NoTab
        /\ NoPrompt(s) => NoPrompt(u)
        /\ s.pendingCloseAfterSwap = 0 => u.pendingCloseAfterSwap = 0
        /\ s.pendingRemoveIdx = 0 => u.pendingRemoveIdx = 0
        /\ s.pendingTabCloseIdx = 0 => u.pendingTabCloseIdx = 0
        /\ u.active = NoTab \/ (SameSwitch(s, u) /\ u.active = s.active)
  <2>2. OpenTaken(s, t) => Opened(t)
    BY DEF OpenTaken, SameButPrompts, SameCloses, SameQuestions, SameData, NoPrompt,
           SameLeaving, SameExit, SameTabs
  <2>3. TabLoaded(s, t) => Opened(t)
    BY DEF TabLoaded, SameCloses, SameLeaving, SameExit, SameTabs
  <2>4. ASSUME NEW r, OpenTaken(s, r),
               t = [RemoveTab(r, r.activeSessionIdx) EXCEPT !.activeTabKind = "Session"]
        PROVE  Opened(t)
    <3> DEFINE idx == r.activeSessionIdx
               v   == RemoveTab(r, idx)
    <3>1. /\ SameTabs(s, r) /\ SameLeaving(s, r) /\ r.stale = s.stale /\ IsApp(r)
          /\ r.pendingOpen = NoTab /\ SameCloses(s, r) /\ SameQuestions(s, r)
      BY <2>4 DEF OpenTaken, SameButPrompts, SameData, SameLeaving, SameExit
    <3>2. idx \in TabIndices(r) /\ r.sessions[idx] = r.active
      BY <1>3, <2>0, <3>1 DEF Sound, ActiveTab, SameTabs
    <3> HIDE DEF idx
    <3>3. /\ IsApp(v) /\ v.active = NoTab /\ v.stale = r.stale \ {r.sessions[idx]}
          /\ v.pendingOpen = r.pendingOpen
          /\ SameQuestions(r, v) /\ SameLeaving(r, v)
          /\ v.pendingCloseAfterSwap = Reindex(r.pendingCloseAfterSwap, idx)
          /\ v.pendingTabCloseIdx = Reindex(r.pendingTabCloseIdx, idx)
          /\ v.pendingRemoveIdx = Reindex(r.pendingRemoveIdx, idx)
      BY <3>1, <3>2, RemoveTabDoes DEF SameQuestions, SameLeaving
    <3>4. Reindex(0, idx) = 0
      BY <3>2 DEF Reindex
    <3>5. t = [v EXCEPT !.activeTabKind = "Session"]
      BY <2>4 DEF idx
    <3> HIDE DEF v
    <3> QED
      BY <3>1, <3>3, <3>4, <3>5
      DEF IsApp, AppFields, SameQuestions, SameCloses, SameLeaving, NoPrompt
  <2>5. Opened(t)
    BY <1>1, <1>3, <2>2, <2>3, <2>4
  <2>6. NoSpoils \/ NoClicks => NothingWaits(t)
    BY <2>1, <2>5 DEF NothingWaits
  <2>7. Opening(t, "save") /\ TargetScoped(t)
    BY <2>5 DEF Flow, Opening, TargetScoped, SameLeaving
  <2>8. NoSpoils => NothingStale(t)
    BY <2>5, <2>6 DEF Flow, NothingStale, NothingWaits, NoPrompt
  <2>9. NoSpoils \/ NoClicks => Waits(t, "save")
    BY <2>6 DEF Waits, NothingWaits, NoPrompt
  <2>10. NoClicks => Located(t, "save")
    <3> SUFFICES ASSUME NoClicks PROVE Located(t, "save")
      OBVIOUS
    <3>1. NothingWaits(t) /\ Located(s, "open")
      BY <2>6 DEF Flow
    <3>2. ~NoSwitch(t) =>
            t.active = NoTab \/ (t.exitSaveAllRunning /\ SwitchTo(t, t.pendingSwapIdx))
      BY <2>5, <3>1 DEF Located, SameSwitch, NoSwitch, SwitchTo, SameLeaving
    <3> QED
      BY <3>1, <3>2 DEF Located, NothingWaits, NoPrompt
  <2> QED
    BY <2>7, <2>8, <2>9, <2>10 DEF Flow, t
<1> QED
  BY <1>2, <1>3

(* The queued save. *)
LEMMA ExecutePendingSaveDoes ==
  ASSUME NEW s, s \in AppStates, NEW saved, NEW m, NEW n
  PROVE  LET t == ExecutePendingSave(s, saved, m, n) IN
         \/ Crashed(s, t)
         \/ /\ IsApp(t) /\ SamePrompts(s, t) /\ SameSwitch(s, t) /\ SameExit(s, t)
            /\ SameTabs(s, t) /\ SameLosses(s, t)
            /\ t.nullDeref = s.nullDeref /\ t.pendingSaveKind = "None"
            /\ t.dirty \subseteq s.dirty /\ t.stale = s.stale
            /\ t.staleOnDisk \subseteq s.staleOnDisk \cup s.stale
            /\ s.staleOnDisk \subseteq t.staleOnDisk \cup
                 (IF s.pendingSaveKind = "Workspace" THEN {s.active} ELSE {})
            /\ t.experiments = s.experiments
            /\ t.multiWorkspaceOpen = s.multiWorkspaceOpen /\ t.welcome = s.welcome
            /\ t.exitDirtyExperiments = s.exitDirtyExperiments
            /\ n \in Nat => ExpsWritten(s, t)
<1> DEFINE t == ExecutePendingSave(s, saved, m, n)
           r == [s EXCEPT !.pendingSaveKind = "None"]
           e == SaveEverything(r, m, n)
           d == DoSaveWorkspace(r)
           Saved(u) ==
            /\ IsApp(u) /\ SamePrompts(s, u) /\ SameSwitch(s, u) /\ SameExit(s, u)
            /\ SameTabs(s, u) /\ SameLosses(s, u)
            /\ u.nullDeref = s.nullDeref
            /\ u.dirty \subseteq s.dirty /\ u.stale = s.stale
            /\ u.staleOnDisk \subseteq s.staleOnDisk \cup s.stale
            /\ u.experiments = s.experiments
            /\ u.multiWorkspaceOpen = s.multiWorkspaceOpen /\ u.welcome = s.welcome
            /\ u.exitDirtyExperiments = s.exitDirtyExperiments
            /\ n \in Nat => ExpsWritten(s, u)
<1>0. IsApp(s) /\ s.pendingSaveKind \in PendingSaveKinds
  BY FieldsOf DEF AppStates
<1>1. /\ s.pendingSaveKind = "None" => t = s
      /\ s.pendingSaveKind = "Everything" => t = e
      /\ s.pendingSaveKind = "Workspace" =>
           t = IF s.active = NoTab THEN Crash(r) ELSE IF saved THEN d ELSE r
  BY DEF ExecutePendingSave
<1>2. Saved(s)
  BY <1>0 DEF SamePrompts, SameSwitch, SameExit, SameTabs, SameLosses, ExpsWritten
<1>3. Saved(r) /\ r.pendingSaveKind = "None" /\ r.staleOnDisk = s.staleOnDisk
      /\ r.dirty = s.dirty /\ r.active = s.active /\ SameExps(s, r)
  BY <1>0 DEF IsApp, AppFields, SamePrompts, SameSwitch, SameExit, SameTabs, SameLosses,
              SameExps, ExpsWritten
<1> HIDE DEF r
<1>4. Crashed(s, Crash(r))
  BY <1>3, CrashDoes
  DEF SameButPrompts, SameExit, SameTabs, SameData, SameLosses, SameExps, Crashed
<1>5. Saved(e) /\ e.pendingSaveKind = "None" /\ s.staleOnDisk \subseteq e.staleOnDisk
  <2>1. /\ IsApp(e) /\ SamePrompts(r, e) /\ SameSwitch(r, e) /\ SameExit(r, e)
        /\ SameTabs(r, e) /\ SameLosses(r, e)
        /\ e.nullDeref = r.nullDeref /\ e.pendingSaveKind = r.pendingSaveKind
        /\ e.dirty \subseteq r.dirty /\ e.stale = r.stale
        /\ r.staleOnDisk \subseteq e.staleOnDisk
        /\ e.staleOnDisk \subseteq r.staleOnDisk \cup r.stale
        /\ e.experiments = r.experiments
        /\ e.multiWorkspaceOpen = r.multiWorkspaceOpen /\ e.welcome = r.welcome
        /\ e.exitDirtyExperiments = r.exitDirtyExperiments
        /\ n \in Nat => ExpsWritten(r, e)
    BY <1>3, SaveEverythingDoes
  <2> HIDE DEF e
  <2> QED
    BY <1>3, <2>1 DEF SamePrompts, SameSwitch, SameExit, SameTabs, SameLosses, SameExps,
                      ExpsWritten
<1>6. Saved(d) /\ d.pendingSaveKind = "None"
      /\ s.staleOnDisk \subseteq d.staleOnDisk \cup {s.active}
  <2>1. /\ IsApp(d) /\ SamePrompts(r, d) /\ SameSwitch(r, d) /\ SameExit(r, d)
        /\ SameTabs(r, d) /\ SameLosses(r, d) /\ SameExps(r, d)
        /\ d.nullDeref = r.nullDeref /\ d.pendingSaveKind = r.pendingSaveKind
        /\ d.dirty = r.dirty \ {r.active} /\ d.stale = r.stale
        /\ d.staleOnDisk = r.staleOnDisk \ {r.active}
    BY <1>3, DoSaveWorkspaceDoes
  <2> HIDE DEF d
  <2> QED
    BY <1>3, <2>1 DEF SamePrompts, SameSwitch, SameExit, SameTabs, SameLosses, SameExps,
                      ExpsWritten
<1> HIDE DEF e, d, t, Saved
<1>7. s.pendingSaveKind \in {"None", "Everything", "Workspace"}
  BY <1>0 DEF PendingSaveKinds
<1>8. \/ Crashed(s, t)
      \/ /\ Saved(t) /\ t.pendingSaveKind = "None"
         /\ s.staleOnDisk \subseteq t.staleOnDisk \cup
                 (IF s.pendingSaveKind = "Workspace" THEN {s.active} ELSE {})
  BY <1>1, <1>2, <1>3, <1>4, <1>5, <1>6, <1>7
<1> QED
  BY <1>8 DEF Saved, t

(* The queued save may raise the stale prompt.                               *)
LEMMA SaveFlow ==
  ASSUME NEW s, Sound(s), Flow(s, "save"), NEW saved, NEW m, NEW n,
         ~Crashed(s, ExecutePendingSave(s, saved, m, n))
  PROVE  Flow(ExecutePendingSave(s, saved, m, n), "closePrompt")
<1> DEFINE t == ExecutePendingSave(s, saved, m, n)
<1>1. /\ SamePrompts(s, t) /\ SameSwitch(s, t) /\ SameExit(s, t) /\ SameTabs(s, t)
      /\ t.stale = s.stale
  BY ExecutePendingSaveDoes DEF Sound
<1> HIDE DEF t
<1>2. SameLeaving(s, t) /\ FollowedBy("save", "closePrompt")
  BY <1>1 DEF SameExit, SameLeaving, FollowedBy
<1>3. s.pendingOpen = NoTab /\ (NoSpoils => t.stale = {})
  BY <1>1 DEF Flow, Opening, NothingStale
<1>4. Flow(t, "closePrompt")
  BY <1>1, <1>2, <1>3, SameLeavingFlow
<1> QED
  BY <1>4 DEF t

(* The prompt of a parked tab comes up once that tab is active. *)
LEMMA ClosePromptFlow ==
  ASSUME NEW s, Sound(s), Flow(s, "closePrompt")
  PROVE  Flow(RaiseClosePrompt(s), "remove")
<1> DEFINE t == RaiseClosePrompt(s)
<1>0. IsApp(s)
  BY FieldsOf DEF Sound
<1>1. s.pendingOpen = NoTab /\ (NoSpoils => s.stale = {})
  BY DEF Flow, Opening, NothingStale
<1>2. CASE s.pendingCloseAfterSwap = 0
  <2>1. t = s
    BY <1>0, <1>2, ClosePromptDoes
  <2>2. /\ SamePrompts(s, s) /\ SameSwitch(s, s) /\ SameTabs(s, s) /\ SameLeaving(s, s)
        /\ FollowedBy("closePrompt", "remove")
    BY DEF SamePrompts, SameSwitch, SameTabs, SameLeaving, FollowedBy
  <2>3. Flow(s, "remove")
    BY <1>1, <1>2, <2>2, SameLeavingFlow
  <2> QED
    BY <2>1, <2>3
<1>3. CASE s.pendingCloseAfterSwap # 0
  <2>1. /\ SameButPrompts(s, t) /\ t.pendingTabCloseIdx = s.pendingCloseAfterSwap
        /\ t.pendingCloseAfterSwap = 0 /\ t.showUnsavedPrompt
        /\ t.pendingOpen = s.pendingOpen /\ t.pendingRemoveIdx = s.pendingRemoveIdx
        /\ t.pendingWorkspaceAction = s.pendingWorkspaceAction
        /\ t.showStaleDropPrompt = s.showStaleDropPrompt
    BY <1>0, <1>3, ClosePromptDoes
  <2> HIDE DEF t
  <2>2. Opening(t, "remove") /\ TargetScoped(t)
    BY <1>1, <2>1 DEF Flow, Opening, TargetScoped, SameButPrompts, SameExit
  <2>3. NoSpoils => NothingStale(t)
    BY <2>1 DEF Flow, NothingStale, SameButPrompts, SameData
  <2>4. NoSpoils \/ NoClicks =>
          NoPrompt(s) /\ s.pendingRemoveIdx = 0 /\ s.pendingTabCloseIdx = 0
    BY <1>3 DEF Flow, Waits
  <2>5. NoSpoils \/ NoClicks => Waits(t, "remove")
    BY <1>1, <2>1, <2>4 DEF Waits, NoPrompt
  <2>6. NoClicks => Located(t, "remove")
    <3> SUFFICES ASSUME NoClicks PROVE Located(t, "remove")
      OBVIOUS
    <3>1. Located(s, "closePrompt") /\ ~Leaving(s, "closePrompt")
      BY <1>3 DEF Flow, Located, NothingWaits
    <3>2. ~Leaving(t, "remove")
      BY <2>1, <3>1 DEF Leaving, SameButPrompts, SameExit
    <3>3. s.active = s.sessions[s.pendingCloseAfterSwap] /\ s.active # NoTab
      <4>1. s.active = s.sessions[s.pendingCloseAfterSwap]
        BY <1>3, <3>1 DEF Located
      <4>2. s.pendingCloseAfterSwap \in TabIndices(s) /\ NoTab \notin Keys
        BY <1>3, FieldTypes, NoTabAssumption DEF Sound, TabQueues
      <4> QED
        BY <4>1, <4>2, FieldTypes DEF Sound
    <3>4. NoSwitch(s)
      BY <3>1, <3>3 DEF Located, Leaving
    <3>5. t.active = t.sessions[t.pendingTabCloseIdx] /\ NoSwitch(t)
      BY <2>1, <3>3, <3>4 DEF SameButPrompts, SameTabs, SameSwitch, NoSwitch, SwitchTo
    <3>6. t.pendingWorkspaceAction = "CloseWorkspace" => t.pendingTabCloseIdx # 0
      BY <2>1, <1>3
    <3> QED
      BY <2>1, <3>2, <3>5, <3>6 DEF Located, Leaving
  <2> QED
    BY <2>2, <2>3, <2>5, <2>6 DEF Flow, t
<1> QED
  BY <1>2, <1>3

(* A queued switch at a time when none should be: the tab it leads away from *)
(* is not there, or Save All has asked for it.                               *)
SwitchExplained(s) ==
  ~NoSwitch(s) => s.active = NoTab \/ (s.exitSaveAllRunning /\ SwitchTo(s, s.pendingSwapIdx))

(* A removal keeps that: it calls the queued switch off, or shifts it.       *)
LEMMA RemoveTabSwitch ==
  ASSUME NEW s, IsApp(s), ActiveTab(s), NEW idx \in TabIndices(s), SwitchExplained(s)
  PROVE  SwitchExplained(RemoveTab(s, idx))
<1> DEFINE t == RemoveTab(s, idx)
           leaves  == s.activeSessionIdx = idx /\ s.activeTabKind = "Workspace"
<1>1. /\ t.active = (IF s.active = s.sessions[idx] THEN NoTab ELSE s.active)
      /\ t.exitSaveAllRunning = s.exitSaveAllRunning
      /\ ~leaves => /\ t.pendingSwapIdx = Reindex(s.pendingSwapIdx, idx)
                    /\ t.pendingSwapToSession = s.pendingSwapToSession
                    /\ t.pendingExperimentIdx = s.pendingExperimentIdx
  BY RemoveTabDoes
<1>2. Reindex(0, idx) = 0
  BY DEF Reindex
<1> HIDE DEF t
<1>3. CASE leaves
  BY <1>1, <1>3 DEF ActiveTab, SwitchExplained, t
<1>4. CASE ~leaves
  BY <1>1, <1>2, <1>4 DEF SwitchExplained, NoSwitch, SwitchTo, t
<1> QED
  BY <1>3, <1>4

(* Nothing waits for a tab that goes, and then for none. *)
LEMMA RemoveTabIdle ==
  ASSUME NEW s, IsApp(s), NEW idx \in TabIndices(s), NothingWaits(s)
  PROVE  NothingWaits(RemoveTab(s, idx))
<1>1. Reindex(0, idx) = 0
  BY DEF Reindex
<1> QED
  BY <1>1, RemoveTabDoes DEF NothingWaits, NoPrompt

(* A removal lets nothing begin to wait, and leaving as it was.              *)
LEMMA RemoveTabLeaving ==
  ASSUME NEW s, IsApp(s), NEW idx \in TabIndices(s)
  PROVE  LET t == RemoveTab(s, idx) IN
         /\ IsApp(t) /\ SameLeaving(s, t) /\ SameQuestions(s, t)
         /\ t.pendingOpen = s.pendingOpen /\ t.stale \subseteq s.stale
         /\ s.pendingCloseAfterSwap = 0 => t.pendingCloseAfterSwap = 0
         /\ s.pendingTabCloseIdx = 0 => t.pendingTabCloseIdx = 0
         /\ s.pendingTabCloseIdx = idx => t.pendingTabCloseIdx = 0
         /\ s.pendingRemoveIdx = 0 => t.pendingRemoveIdx = 0
<1>1. Reindex(0, idx) = 0 /\ Reindex(idx, idx) = 0
  BY DEF Reindex
<1> QED
  BY <1>1, RemoveTabDoes DEF SameLeaving, SameQuestions

(* The tab that waited to be removed goes. *)
LEMMA RemoveFlow ==
  ASSUME NEW s, Sound(s), Flow(s, "remove")
  PROVE  Flow(RunPendingRemove(s), "saveAll")
<1> DEFINE t == RunPendingRemove(s)
           idx == s.pendingRemoveIdx
           r == [s EXCEPT !.pendingRemoveIdx = 0]
<1>0. IsApp(s) /\ s.pendingOpen = NoTab /\ (NoSpoils => s.stale = {})
  BY FieldsOf DEF Sound, Flow, Opening, NothingStale
<1>1. CASE idx = 0
  <2>1. t = s
    BY <1>1 DEF RunPendingRemove
  <2>2. /\ SamePrompts(s, s) /\ SameSwitch(s, s) /\ SameTabs(s, s) /\ SameLeaving(s, s)
        /\ FollowedBy("remove", "saveAll")
    BY DEF SamePrompts, SameSwitch, SameTabs, SameLeaving, FollowedBy
  <2>3. Flow(s, "saveAll")
    BY <1>0, <1>1, <2>2, SameLeavingFlow
  <2> QED
    BY <2>1, <2>3
<1>2. CASE idx # 0
  <2>1. /\ SameButPrompts(s, r) /\ SameQuestions(s, r) /\ r.pendingRemoveIdx = 0
        /\ r.pendingTabCloseIdx = s.pendingTabCloseIdx /\ r.pendingOpen = s.pendingOpen
        /\ r.pendingCloseAfterSwap = s.pendingCloseAfterSwap
    BY <1>0 DEF IsApp, AppFields, SameButPrompts, SameQuestions, SameSwitch, SameExit, SameTabs,
                SameData, SameLosses, SameExps
  <2>2. t = RemoveTab(r, idx)
    BY <1>2 DEF RunPendingRemove
  <2> HIDE DEF r, t
  <2>3. IsApp(r) /\ idx \in TabIndices(r) /\ ActiveTab(r)
    BY <1>2, <2>1 DEF Sound, TabQueues, SameButPrompts, SameTabs, ActiveTab
  <2> HIDE DEF idx
  <2>4. /\ IsApp(t) /\ SameLeaving(r, t) /\ SameQuestions(r, t)
        /\ t.pendingOpen = r.pendingOpen /\ t.stale \subseteq r.stale
        /\ r.pendingCloseAfterSwap = 0 => t.pendingCloseAfterSwap = 0
        /\ r.pendingTabCloseIdx \in {0, idx} => t.pendingTabCloseIdx = 0
        /\ t.pendingRemoveIdx = 0
    BY <2>1, <2>2, <2>3, RemoveTabLeaving
  <2>5. SameLeaving(s, t) /\ SameQuestions(s, t)
    BY <2>1, <2>4 DEF SameLeaving, SameQuestions, SameButPrompts, SameExit
  <2>6. NoSpoils \/ NoClicks => NothingWaits(t)
    <3> SUFFICES ASSUME NoSpoils \/ NoClicks PROVE NothingWaits(t)
      OBVIOUS
    <3>1. NoPrompt(s) /\ s.pendingTabCloseIdx \in {0, idx} /\ s.pendingCloseAfterSwap = 0
      BY <1>2 DEF Flow, Waits, idx
    <3> QED
      BY <1>0, <2>1, <2>4, <2>5, <3>1 DEF NothingWaits, NoPrompt, SameQuestions
  <2>7. Opening(t, "saveAll") /\ TargetScoped(t)
    BY <1>0, <2>1, <2>4, <2>5 DEF Flow, Opening, TargetScoped, SameLeaving
  <2>8. NoSpoils => NothingStale(t)
    BY <1>0, <2>1, <2>4, <2>5 DEF Flow, NothingStale, SameQuestions, SameButPrompts, SameData
  <2>9. NoSpoils \/ NoClicks => Waits(t, "saveAll")
    BY <2>6 DEF Waits, NothingWaits, NoPrompt
  <2>10. NoClicks => Located(t, "saveAll")
    <3> SUFFICES ASSUME NoClicks PROVE Located(t, "saveAll")
      OBVIOUS
    <3>1. Located(s, "remove") /\ NothingWaits(t)
      BY <2>6 DEF Flow
    <3>2. SwitchExplained(r)
      BY <2>1, <3>1 DEF Located, SwitchExplained, SameButPrompts, SameSwitch, SameExit,
                        SameTabs, NoSwitch, SwitchTo
    <3>3. SwitchExplained(t)
      BY <2>2, <2>3, <3>2, RemoveTabSwitch
    <3> QED
      BY <3>1, <3>3 DEF Located, SwitchExplained, NothingWaits, NoPrompt
  <2> QED
    BY <2>7, <2>8, <2>9, <2>10 DEF Flow, t
<1> QED
  BY <1>1, <1>2

(* Going home removes the tabs, last first. *)
LEMMA CloseAllFlow ==
  ASSUME NEW s, Sound(s), Flow(s, "closeAll"), NEW idx \in TabIndices(s)
  PROVE  Flow(RemoveTab(s, idx), "closeAll")
<1> DEFINE t == RemoveTab(s, idx)
<1>0. IsApp(s) /\ ActiveTab(s) /\ s.pendingOpen = NoTab
  BY FieldsOf DEF Sound, Flow, Opening
<1>1. /\ SameLeaving(s, t) /\ SameQuestions(s, t)
      /\ t.pendingOpen = s.pendingOpen /\ t.stale \subseteq s.stale
      /\ s.pendingCloseAfterSwap = 0 => t.pendingCloseAfterSwap = 0
      /\ s.pendingTabCloseIdx = 0 => t.pendingTabCloseIdx = 0
      /\ s.pendingRemoveIdx = 0 => t.pendingRemoveIdx = 0
      /\ NothingWaits(s) => NothingWaits(t)
      /\ SwitchExplained(s) => SwitchExplained(t)
  BY <1>0, RemoveTabLeaving, RemoveTabIdle, RemoveTabSwitch
<1> HIDE DEF t
<1>2. Opening(t, "closeAll") /\ TargetScoped(t)
  BY <1>0, <1>1 DEF Flow, Opening, TargetScoped, SameLeaving
<1>3. NoSpoils => NothingStale(t)
  BY <1>1 DEF Flow, NothingStale, SameQuestions
<1>4. NoSpoils \/ NoClicks => Waits(t, "closeAll")
  BY <1>0, <1>1 DEF Flow, Waits, SameQuestions, NoPrompt
<1>5. NoClicks => Located(t, "closeAll")
  BY <1>1 DEF Flow, Located, Leaving, SwitchExplained, NothingWaits, NoPrompt, SameLeaving
<1> QED
  BY <1>2, <1>3, <1>4, <1>5 DEF Flow, t

(* The tabs are gone: so is all that was about them.                         *)
LEMMA GoneHomeFlow ==
  ASSUME NEW s, Sound(s), Flow(s, "closeAll")
  PROVE  Flow(FinishGoHome(s), "poll")
<1> DEFINE t == FinishGoHome(s)
<1>0. IsApp(s) /\ s.pendingOpen = NoTab /\ FollowedBy("closeAll", "poll")
  BY FieldsOf DEF Sound, Flow, Opening, FollowedBy
<1>1. /\ SamePrompts(s, t) /\ SameData(s, t) /\ SameLeaving(s, t)
      /\ t.active = s.active
      /\ t.pendingSwapIdx = s.pendingSwapIdx
      /\ t.pendingSwapToSession = s.pendingSwapToSession
      /\ t.pendingExperimentIdx = 0
  BY <1>0, FinishGoHomeDoes DEF SameLeaving
<1> HIDE DEF t
<1>2. Opening(t, "poll") /\ TargetScoped(t)
  BY <1>0, <1>1 DEF Flow, Opening, TargetScoped, SameLeaving, SamePrompts
<1>3. NoSpoils => NothingStale(t)
  BY <1>1 DEF Flow, NothingStale, SamePrompts, SameData
<1>4. NoSpoils \/ NoClicks => Waits(t, "poll")
  BY <1>0, <1>1 DEF Flow, Waits, SamePrompts, NoPrompt
<1>5. NoClicks => Located(t, "poll")
  <2> SUFFICES ASSUME NoClicks PROVE Located(t, "poll")
    OBVIOUS
  <2>1. Located(s, "closeAll") /\ NothingWaits(s)
    BY DEF Flow, Located, Leaving
  <2>2. NothingWaits(t)
    BY <1>1, <2>1 DEF NothingWaits, NoPrompt, SamePrompts
  <2>3. ~NoSwitch(t) => ~NoSwitch(s) /\ t.active = s.active
    BY <1>1 DEF NoSwitch, SwitchTo
  <2>4. ~NoSwitch(t) =>
          t.active = NoTab \/ (t.exitSaveAllRunning /\ SwitchTo(t, t.pendingSwapIdx))
    BY <1>1, <2>1, <2>3 DEF Located, SwitchTo, SameLeaving
  <2> QED
    BY <1>1, <2>1, <2>2, <2>4 DEF Located, SameLeaving, NothingWaits, NoPrompt
<1> QED
  BY <1>2, <1>3, <1>4, <1>5 DEF Flow, t

(* The finalizer of going home, when there is something to finalize. *)
LEMMA HomeFlow ==
  ASSUME NEW s, Sound(s), Flow(s, "home")
  PROVE  /\ ~s.pendingGoHome => Flow(s, "poll")
         /\ s.pendingGoHome =>
              Flow([s EXCEPT !.pendingGoHome = FALSE, !.exitTargetIsGoHome = FALSE], "closeAll")
<1> DEFINE t == [s EXCEPT !.pendingGoHome = FALSE, !.exitTargetIsGoHome = FALSE]
<1>0. IsApp(s) /\ s.pendingOpen = NoTab /\ (NoSpoils => s.stale = {})
      /\ FollowedBy("home", "poll")
  BY FieldsOf DEF Sound, Flow, Opening, NothingStale, FollowedBy
<1>1. SamePrompts(s, s) /\ SameSwitch(s, s) /\ SameTabs(s, s) /\ SameLeaving(s, s)
  BY DEF SamePrompts, SameSwitch, SameTabs, SameLeaving
<1>2. ~s.pendingGoHome => Flow(s, "poll")
  BY <1>0, <1>1, SameLeavingFlow
<1>3. /\ SamePrompts(s, t) /\ SameSwitch(s, t) /\ SameTabs(s, t) /\ t.stale = s.stale
      /\ ~t.pendingGoHome /\ ~t.exitTargetIsGoHome /\ t.shouldClose = s.shouldClose
      /\ t.exitSaveAllRunning = s.exitSaveAllRunning
  BY <1>0 DEF IsApp, AppFields, SamePrompts, SameSwitch, SameTabs
<1> HIDE DEF t
<1>4. Opening(t, "closeAll") /\ TargetScoped(t)
  BY <1>0, <1>3 DEF Opening, SamePrompts, TargetScoped
<1>5. NoSpoils => NothingStale(t)
  BY <1>3 DEF Flow, NothingStale, SamePrompts
<1>6. NoSpoils \/ NoClicks => Waits(t, "closeAll")
  BY <1>3 DEF Flow, Waits, SamePrompts, NoPrompt
<1>7. NoClicks /\ s.pendingGoHome => Located(t, "closeAll")
  <2> SUFFICES ASSUME NoClicks, s.pendingGoHome PROVE Located(t, "closeAll")
    OBVIOUS
  <2>1. Located(s, "home") /\ NothingWaits(s)
    BY DEF Flow, Located, Leaving
  <2>2. NothingWaits(t)
    BY <1>3, <2>1 DEF NothingWaits, NoPrompt, SamePrompts
  <2> QED
    BY <1>3, <2>1, <2>2 DEF Located, NothingWaits, NoPrompt, SameSwitch, NoSwitch, SwitchTo,
                            SameTabs
<1> QED
  BY <1>2, <1>4, <1>5, <1>6, <1>7 DEF Flow, t

(* One frame of Save All: nothing else waits while it runs. *)
LEMMA SaveAllFlow ==
  ASSUME NEW s, Sound(s), Flow(s, "saveAll"), NEW saved, NEW n,
         ~Crashed(s, AdvanceExitSaveAll(s, saved, n))
  PROVE  Flow(AdvanceExitSaveAll(s, saved, n), "home")
<1> DEFINE t == AdvanceExitSaveAll(s, saved, n)
<1>0. IsApp(s) /\ s.pendingOpen = NoTab /\ (NoSpoils => s.stale = {})
      /\ FollowedBy("saveAll", "home") /\ TargetScoped(s)
  BY FieldsOf DEF Sound, Flow, Opening, NothingStale, FollowedBy
<1>1. t = IF SaveAllPaused(s) THEN s
          ELSE IF SaveAllTabsDone(s) THEN FinishSaveAll(s, n) ELSE SaveAllTab(s, saved)
  BY DEF AdvanceExitSaveAll
<1>2. ~Crashed(s, t)
  OBVIOUS
<1> HIDE DEF t
<1>3. CASE SaveAllPaused(s)
  <2>1. SamePrompts(s, s) /\ SameSwitch(s, s) /\ SameTabs(s, s) /\ SameLeaving(s, s)
    BY DEF SamePrompts, SameSwitch, SameTabs, SameLeaving
  <2>2. Flow(s, "home")
    BY <1>0, <2>1, SameLeavingFlow
  <2> QED
    BY <1>1, <1>3, <2>2 DEF t
<1>4. ASSUME ~SaveAllPaused(s), SameButFlow(s, t), TargetScoped(t)
      PROVE  Flow(t, "home")
  <2>1. /\ SamePrompts(s, t) /\ SameTabs(s, t) /\ SameSwitch(s, t)
        /\ NoSpoils => t.stale = {}
    BY <1>0, <1>4 DEF SameButFlow
  <2>2. s.exitSaveAllRunning /\ s.pendingSwapIdx = 0
    BY <1>4 DEF SaveAllPaused
  <2>3. Leaving(s, "saveAll")
    BY <2>2 DEF Leaving
  <2>4. NoClicks => NoSwitch(s) \/ s.active = NoTab
    BY <2>2 DEF Flow, Located, NoSwitch
  <2> QED
    BY <1>0, <1>4, <2>1, <2>3, <2>4, QuietFlow
<1>5. CASE ~SaveAllPaused(s) /\ SaveAllTabsDone(s)
  <2>1. t = FinishSaveAll(s, n)
    BY <1>1, <1>5
  <2>2. SameButFlow(s, t) /\ ~t.exitTargetIsGoHome
    BY <1>0, <2>1, FinishSaveAllDoes
  <2> QED
    BY <1>4, <1>5, <2>2 DEF TargetScoped, t
<1>6. CASE ~SaveAllPaused(s) /\ ~SaveAllTabsDone(s)
  <2>1. t = SaveAllTab(s, saved)
    BY <1>1, <1>6
  <2>2. CASE t = AbandonSaveAll(s)
    <3>1. SameButFlow(s, t) /\ ~t.exitTargetIsGoHome
      BY <1>0, <2>2, ExitAnswersDo
    <3> QED
      BY <1>4, <1>6, <3>1 DEF TargetScoped, t
  <2>3. CASE t # AbandonSaveAll(s)
    <3>1. /\ SamePrompts(s, t) /\ SameTabs(s, t) /\ t.stale = s.stale
          /\ SameLeaving(s, t)
          /\ SameSwitch(s, t) \/ SwitchTo(t, t.pendingSwapIdx)
      <4>1. CASE IsApp(t) /\ SameButSwitch(s, t) /\ SwitchTo(t, SaveAllTarget(s))
        BY <4>1 DEF SameButSwitch, SameExit, SameData, SameLeaving, SwitchTo
      <4>2. CASE /\ SamePrompts(s, t) /\ SameTabs(s, t) /\ t.stale = s.stale
                 /\ t.showExitDirtyModal = s.showExitDirtyModal
                 /\ t.exitSaveAllRunning = s.exitSaveAllRunning
                 /\ t.exitTargetIsGoHome = s.exitTargetIsGoHome
                 /\ t.pendingGoHome = s.pendingGoHome /\ t.shouldClose = s.shouldClose
                 /\ SameSwitch(s, t) \/ SwitchTo(t, t.pendingSwapIdx)
        BY <4>2 DEF SameLeaving
      <4> QED
        BY <1>0, <1>2, <2>1, <2>3, <4>1, <4>2, SaveAllTabDoes
    <3>2. s.exitSaveAllRunning /\ t.exitSaveAllRunning
      BY <1>6, <3>1 DEF SaveAllPaused, SameLeaving
    <3>3. Opening(t, "home") /\ TargetScoped(t)
      BY <1>0, <3>1, <3>2 DEF Opening, TargetScoped, SamePrompts
    <3>4. NoSpoils => NothingStale(t)
      BY <3>1 DEF Flow, NothingStale, SamePrompts
    <3>5. NoSpoils \/ NoClicks => Waits(t, "home")
      BY <3>1 DEF Flow, Waits, SamePrompts, NoPrompt
    <3>6. NoClicks => Located(t, "home")
      <4> SUFFICES ASSUME NoClicks PROVE Located(t, "home")
        OBVIOUS
      <4>1. Located(s, "saveAll") /\ NothingWaits(s)
        BY <3>2 DEF Flow, Located, Leaving
      <4>2. NothingWaits(t)
        BY <3>1, <4>1 DEF NothingWaits, NoPrompt, SamePrompts
      <4>3. ~NoSwitch(t) =>
              t.active = NoTab \/ (t.exitSaveAllRunning /\ SwitchTo(t, t.pendingSwapIdx))
        BY <3>1, <3>2, <4>1 DEF Located, SwitchTo, NoSwitch, SameSwitch, SameTabs
      <4> QED
        BY <4>2, <4>3 DEF Located, NothingWaits, NoPrompt
    <3> QED
      BY <3>3, <3>4, <3>5, <3>6 DEF Flow, t
  <2> QED
    BY <2>2, <2>3
<1> QED
  BY <1>3, <1>5, <1>6

(* The window events: the exit modal comes up only when nothing waits.       *)
LEMMA PollFlow ==
  ASSUME NEW s, Sound(s), Flow(s, "poll"), NEW pressed \in BOOLEAN, NEW order,
         ~PollEvents(s, pressed, order).shouldClose
  PROVE  Flow(PollEvents(s, pressed, order), "async")
<1> DEFINE t == PollEvents(s, pressed, order)
<1>0. s \in AppStates /\ s.pendingOpen = NoTab /\ (NoSpoils => s.stale = {})
      /\ FollowedBy("poll", "async") /\ TargetScoped(s)
  BY DEF Sound, Flow, Opening, NothingStale, FollowedBy
<1>1. /\ SameButExit(s, t)
      /\ t.exitSaveAllRunning = s.exitSaveAllRunning
      /\ t.exitTargetIsGoHome = s.exitTargetIsGoHome
      /\ t.pendingGoHome = s.pendingGoHome /\ ~t.shouldClose
      /\ \/ t.showExitDirtyModal = s.showExitDirtyModal
         \/ ~DirtyFlowPending(s) /\ t.showExitDirtyModal
  BY <1>0, PollEventsDoes DEF ModalShown
<1> HIDE DEF t
<1>2. /\ SamePrompts(s, t) /\ SameTabs(s, t) /\ SameSwitch(s, t) /\ t.stale = s.stale
  BY <1>1 DEF SameButExit, SameData
<1>3. TargetScoped(t)
  BY <1>0, <1>1 DEF TargetScoped
<1>4. ~DirtyFlowPending(s) => (NoClicks => NothingWaits(s))
  BY <1>0 DEF DirtyFlowPending, Flow, Waits, NothingWaits, NoPrompt
<1>5. Leaving(t, "async") => Leaving(s, "poll") \/ (NoClicks => NothingWaits(s))
  BY <1>1, <1>4 DEF Leaving
<1>6. ~(NoClicks /\ t.pendingGoHome)
  BY <1>1 DEF Flow, Located
<1> QED
  BY <1>0, <1>1, <1>2, <1>3, <1>5, <1>6, QuietFlow DEF t

(* No shortcut, no result.                                                   *)
LEMMA IdlePhaseFlow ==
  ASSUME NEW s, NEW p \in {"async", "input"}, NEW q, FollowedBy(p, q), Flow(s, p),
         NEW t, SamePrompts(s, t), SameTabs(s, t), SameSwitch(s, t), SameLeaving(s, t),
         NoSpoils => t.stale = {}
  PROVE  Flow(t, q)
<1>1. s.pendingOpen = NoTab
  BY DEF Flow, Opening
<1>2. NoClicks => ~t.pendingGoHome /\ ~t.shouldClose
  BY DEF Flow, Located, SameLeaving
<1> QED
  BY <1>1, <1>2, SameLeavingFlow

(* A result arrives, or none does.                                           *)
LEMMA BackgroundFlow ==
  ASSUME NEW s, Sound(s), Flow(s, "async"), NEW spoils \in Spoils
  PROVE  Flow(s, "input") /\ Flow(EditActiveTab(s, spoils), "input")
<1> DEFINE t == EditActiveTab(s, spoils)
<1>1. IsApp(s) /\ FollowedBy("async", "input") /\ (NoSpoils => s.stale = {} /\ ~spoils)
  BY FieldsOf DEF Sound, FollowedBy, Flow, NothingStale, Spoils, NoSpoils
<1>2. /\ SamePrompts(s, t) /\ SameSwitch(s, t) /\ SameExit(s, t) /\ SameTabs(s, t)
      /\ ~spoils => t.stale = s.stale
  BY <1>1, EditActiveTabDoes
<1> HIDE DEF t
<1>3. SameLeaving(s, t) /\ (NoSpoils => t.stale = {})
  BY <1>1, <1>2 DEF SameExit, SameLeaving
<1>4. Flow(t, "input")
  BY <1>1, <1>2, <1>3, IdlePhaseFlow
<1>5. SamePrompts(s, s) /\ SameSwitch(s, s) /\ SameTabs(s, s) /\ SameLeaving(s, s)
  BY DEF SamePrompts, SameSwitch, SameTabs, SameLeaving
<1>6. Flow(s, "input")
  BY <1>1, <1>5, IdlePhaseFlow
<1> QED
  BY <1>4, <1>6 DEF t

(* The shortcuts. *)
LEMMA ShortcutFlow ==
  ASSUME NEW s, Sound(s), Flow(s, "input")
  PROVE  /\ Flow(s, "ui") /\ Flow(RequestSaveEverything(s), "ui")
         /\ Flow(RequestSaveAs(s), "ui")
<1>0. IsApp(s) /\ FollowedBy("input", "ui") /\ (NoSpoils => s.stale = {})
      /\ s.pendingOpen = NoTab /\ TargetScoped(s)
  BY FieldsOf DEF Sound, FollowedBy, Flow, NothingStale, Opening
<1>1. Flow(s, "ui")
  <2>1. SamePrompts(s, s) /\ SameSwitch(s, s) /\ SameTabs(s, s) /\ SameLeaving(s, s)
    BY DEF SamePrompts, SameSwitch, SameTabs, SameLeaving
  <2> QED
    BY <1>0, <2>1, IdlePhaseFlow
<1>2. Flow(RequestSaveEverything(s), "ui")
  <2> DEFINE t == RequestSaveEverything(s)
  <2>1. /\ SamePrompts(s, t) /\ SameSwitch(s, t) /\ SameExit(s, t) /\ SameTabs(s, t)
        /\ t.stale = s.stale
    BY <1>0, RequestSavesDo
  <2> HIDE DEF t
  <2>2. SameLeaving(s, t)
    BY <2>1 DEF SameExit, SameLeaving
  <2>3. Flow(t, "ui")
    BY <1>0, <2>1, <2>2, IdlePhaseFlow
  <2> QED
    BY <2>3 DEF t
<1>3. Flow(RequestSaveAs(s), "ui")
  <2> DEFINE t == RequestSaveAs(s)
  <2>1. /\ SameSwitch(s, t) /\ SameExit(s, t) /\ SameTabs(s, t) /\ t.stale = s.stale
        /\ t.pendingOpen = s.pendingOpen
        /\ t.pendingCloseAfterSwap = s.pendingCloseAfterSwap
        /\ t.pendingRemoveIdx = s.pendingRemoveIdx
        /\ t.pendingTabCloseIdx = s.pendingTabCloseIdx
        /\ t.pendingWorkspaceAction = s.pendingWorkspaceAction
        /\ t.showUnsavedPrompt = s.showUnsavedPrompt
        /\ t.showStaleDropPrompt # s.showStaleDropPrompt =>
             s.active \in s.stale /\ ~s.exitSaveAllRunning /\ ~s.showExitDirtyModal
    BY <1>0, RequestSavesDo
  <2> HIDE DEF t
  <2>2. SameLeaving(s, t)
    BY <2>1 DEF SameExit, SameLeaving
  <2>3. CASE t.showStaleDropPrompt = s.showStaleDropPrompt
    <3>1. SamePrompts(s, t)
      BY <2>1, <2>3 DEF SamePrompts
    <3>2. Flow(t, "ui")
      BY <1>0, <2>1, <2>2, <3>1, IdlePhaseFlow
    <3> QED
      BY <3>2 DEF t
  <2>4. CASE t.showStaleDropPrompt # s.showStaleDropPrompt
    <3>1. Opening(t, "ui") /\ TargetScoped(t) /\ ~NoSpoils
      BY <1>0, <2>1, <2>2, <2>4 DEF Opening, TargetScoped, SameLeaving
    <3>2. NoClicks => Waits(t, "ui")
      BY <2>1, <1>0 DEF Flow, Waits
    <3>3. NoClicks => Located(t, "ui")
      <4> SUFFICES ASSUME NoClicks PROVE Located(t, "ui")
        OBVIOUS
      <4>1. Located(s, "input") /\ ~s.pendingGoHome /\ ~s.shouldClose
        BY DEF Flow, Located
      <4>2. ~Leaving(t, "ui")
        BY <2>1, <2>2, <2>4, <4>1 DEF Leaving, SameLeaving
      <4> QED
        BY <2>1, <4>1, <4>2 DEF Located, Leaving, SameTabs, SameSwitch, NoSwitch, SwitchTo, SameExit
    <3> QED
      BY <3>1, <3>2, <3>3 DEF Flow, t
  <2> QED
    BY <2>3, <2>4
<1> QED
  BY <1>1, <1>2, <1>3

(* Ctrl+H: the modal comes up, or the program goes home, when nothing waits. *)
LEMMA GoHomeFlow ==
  ASSUME NEW s, Sound(s), Flow(s, "input"), NEW order
  PROVE  Flow(RequestGoHome(s, order), "ui")
<1> DEFINE t == RequestGoHome(s, order)
<1>0. IsApp(s) /\ FollowedBy("input", "ui") /\ (NoSpoils => s.stale = {})
      /\ s.pendingOpen = NoTab /\ TargetScoped(s)
  BY FieldsOf DEF Sound, FollowedBy, Flow, NothingStale, Opening
<1>1. \/ t = s
      \/ /\ ~DirtyFlowPending(s) /\ SameButExit(s, t)
         /\ t.exitSaveAllRunning = s.exitSaveAllRunning
         /\ t.shouldClose = s.shouldClose
         /\ t.pendingGoHome \/ t.showExitDirtyModal
  BY <1>0, RequestGoHomeDoes DEF ModalShown
<1> HIDE DEF t
<1>2. CASE t = s
  BY <1>2, ShortcutFlow DEF t
<1>3. CASE /\ ~DirtyFlowPending(s) /\ SameButExit(s, t)
           /\ t.exitSaveAllRunning = s.exitSaveAllRunning
           /\ t.shouldClose = s.shouldClose
           /\ t.pendingGoHome \/ t.showExitDirtyModal
  <2>1. /\ SamePrompts(s, t) /\ SameTabs(s, t) /\ SameSwitch(s, t) /\ t.stale = s.stale
        /\ TargetScoped(t)
    BY <1>3 DEF SameButExit, SameData, TargetScoped
  <2>2. NoClicks => NothingWaits(s)
    BY <1>0, <1>3 DEF DirtyFlowPending, Flow, Waits, NothingWaits, NoPrompt
  <2>3. NoClicks => ~t.shouldClose
    BY <1>3 DEF Flow, Located
  <2> QED
    BY <1>0, <1>3, <2>1, <2>2, <2>3, QuietFlow DEF t
<1> QED
  BY <1>1, <1>2, <1>3

(* Nothing waits after the click, if anything is known of that.              *)
LEMMA SettledFlow ==
  ASSUME NEW t, t.pendingOpen = NoTab, TargetScoped(t), NoSpoils => t.stale = {},
         NoSpoils \/ NoClicks => NothingWaits(t)
  PROVE  Flow(t, "swap")
<1>1. CASE NoSpoils \/ NoClicks
  BY <1>1, IdleFlow
<1>2. CASE ~(NoSpoils \/ NoClicks)
  BY <1>2 DEF Flow, Opening
<1> QED
  BY <1>1, <1>2

(* A click or an answer that left what waits alone.                          *)
LEMMA UiKeptFlow ==
  ASSUME NEW s, NEW t, Flow(s, "ui"), t.pendingOpen = s.pendingOpen, SameCloses(s, t),
         t.pendingWorkspaceAction = s.pendingWorkspaceAction,
         t.showUnsavedPrompt = s.showUnsavedPrompt,
         SameTabs(s, t), SameSwitch(s, t), TargetScoped(t),
         NoSpoils => t.stale = {} /\ ~t.showStaleDropPrompt,
         NoClicks /\ Leaving(t, "swap") => NothingWaits(t)
  PROVE  Flow(t, "swap")
<1>1. s.pendingOpen = NoTab
  BY DEF Flow, Opening
<1>2. NoSpoils \/ NoClicks => s.pendingCloseAfterSwap = 0 /\ s.pendingRemoveIdx = 0
  BY DEF Flow, Waits
<1>3. Opening(t, "swap")
  BY <1>1 DEF Opening
<1>4. NoSpoils => NothingStale(t)
  BY DEF Flow, NothingStale
<1>5. NoSpoils \/ NoClicks => Waits(t, "swap")
  BY <1>1, <1>2 DEF Flow, Waits, SameCloses
<1>6. NoClicks => Located(t, "swap")
  BY <1>2 DEF Flow, Located, SameCloses, SameTabs, SameSwitch, NoSwitch, SwitchTo
<1> QED
  BY <1>3, <1>4, <1>5, <1>6 DEF Flow

(* A frame without a click.                                                  *)
LEMMA NoClickFlow ==
  ASSUME NEW s, Flow(s, "ui")
  PROVE  Flow(s, "swap")
<1>1. SameCloses(s, s) /\ SameTabs(s, s) /\ SameSwitch(s, s) /\ TargetScoped(s)
  BY DEF SameCloses, SameTabs, SameSwitch, Flow
<1>2. NoSpoils => s.stale = {} /\ ~s.showStaleDropPrompt
  BY DEF Flow, NothingStale
<1>3. NoClicks /\ Leaving(s, "swap") => NothingWaits(s)
  BY DEF Flow, Located, Leaving
<1> QED
  BY <1>1, <1>2, <1>3, UiKeptFlow

(* While a prompt of a tab is up the program is not being left.              *)
LEMMA PromptedStays ==
  ASSUME NEW s, Flow(s, "ui"), s.showUnsavedPrompt \/ s.showStaleDropPrompt
  PROVE  /\ s.pendingOpen = NoTab /\ TargetScoped(s)
         /\ NoSpoils => s.stale = {} /\ ~s.showStaleDropPrompt
                        /\ s.pendingWorkspaceAction # "CloseWorkspace"
         /\ NoSpoils \/ NoClicks => s.pendingCloseAfterSwap = 0 /\ s.pendingRemoveIdx = 0
         /\ NoClicks => \A t : SameLeaving(s, t) => ~Leaving(t, "swap")
         /\ NoClicks => (s.pendingWorkspaceAction = "CloseWorkspace" => s.pendingTabCloseIdx # 0)
<1>1. /\ s.pendingOpen = NoTab /\ TargetScoped(s)
      /\ NoSpoils => s.stale = {} /\ ~s.showStaleDropPrompt
                     /\ s.pendingWorkspaceAction # "CloseWorkspace"
      /\ NoSpoils \/ NoClicks => s.pendingCloseAfterSwap = 0 /\ s.pendingRemoveIdx = 0
  BY DEF Flow, Opening, Waits, NothingStale
<1>2. NoClicks => ~Leaving(s, "ui")
  BY DEF Flow, Located, NothingWaits, NoPrompt
<1>3. NoClicks => \A t : SameLeaving(s, t) => ~Leaving(t, "swap")
  BY <1>2 DEF Leaving, SameLeaving
<1>4. NoClicks => (s.pendingWorkspaceAction = "CloseWorkspace" => s.pendingTabCloseIdx # 0)
  BY DEF Flow, Located
<1> QED
  BY <1>1, <1>3, <1>4

(* The close of a tab waits for its turn, or the tab has gone.               *)
LEMMA CloseTabLeaves ==
  ASSUME NEW s, IsApp(s), NEW idx
  PROVE  LET t == CloseTab(s, idx) IN
         t.pendingOpen = s.pendingOpen /\ SameLeaving(s, t) /\ t.stale \subseteq s.stale
<1> DEFINE t == CloseTab(s, idx)
<1>1. CASE idx \notin TabIndices(s)
  <2>1. t = s
    BY <1>1 DEF CloseTab
  <2> HIDE DEF t
  <2> QED
    BY <2>1 DEF SameLeaving, t
<1>2. CASE idx \in TabIndices(s)
  <2>1. \/ t.pendingOpen = s.pendingOpen /\ SameExit(s, t) /\ t.stale = s.stale
        \/ t = RemoveTab(s, idx)
    BY <1>2, CloseTabDoes DEF SameButPrompts, SameData
  <2> HIDE DEF t
  <2>2. t.pendingOpen = s.pendingOpen /\ SameLeaving(s, t) /\ t.stale \subseteq s.stale
    BY <1>2, <2>1, RemoveTabLeaving DEF SameExit, SameLeaving
  <2> QED
    BY <2>2 DEF t
<1> QED
  BY <1>1, <1>2

(* The tab under a prompt was clean when it went: it goes at the next frame. *)
LEMMA CloseLocatedFlow ==
  ASSUME NEW s, IsApp(s), ActiveTab(s), KeysUnique(s), s.pendingTabCloseIdx \in TabIndices(s),
         s.active = s.sessions[s.pendingTabCloseIdx], s.active # NoTab,
         s.active \notin s.dirty, NoSwitch(s), s.pendingOpen = NoTab, TargetScoped(s),
         NoSpoils => s.stale = {}, NoPrompt(s),
         s.pendingCloseAfterSwap = 0, ~Leaving(s, "swap")
  PROVE  Flow(CloseTab(s, s.activeSessionIdx), "swap")
<1> DEFINE idx == s.activeSessionIdx
           t == CloseTab(s, idx)
<1>1. /\ idx \in TabIndices(s) /\ s.sessions[idx] = s.active
      /\ s.activeTabKind = "Workspace"
  BY DEF ActiveTab
<1>2. idx = s.pendingTabCloseIdx
  BY <1>1 DEF KeysUnique
<1> HIDE DEF idx
<1>3. /\ SameButPrompts(s, t) /\ t.pendingRemoveIdx = idx
      /\ t.pendingOpen = s.pendingOpen /\ SameQuestions(s, t)
      /\ t.pendingCloseAfterSwap = s.pendingCloseAfterSwap
      /\ t.pendingTabCloseIdx = s.pendingTabCloseIdx
  BY <1>1, CloseTabDoes DEF idx
<1> HIDE DEF t
<1>4. Opening(t, "swap") /\ TargetScoped(t) /\ NoPrompt(t)
  BY <1>3 DEF Opening, TargetScoped, SameButPrompts, SameExit, NoPrompt, SameQuestions
<1>5. NoSpoils => NothingStale(t)
  BY <1>3, <1>4 DEF NothingStale, NoPrompt, SameButPrompts, SameData
<1>6. Waits(t, "swap")
  BY <1>2, <1>3, <1>4 DEF Waits, NoPrompt
<1>7. ~Leaving(t, "swap")
  BY <1>3 DEF Leaving, SameButPrompts, SameExit
<1>8. Located(t, "swap")
  BY <1>3, <1>4, <1>7 DEF Located, SameButPrompts, SameTabs, SameSwitch, NoSwitch, SwitchTo,
                          NoPrompt, Leaving
<1> QED
  BY <1>4, <1>5, <1>6, <1>8 DEF Flow, t, idx

(* The record in which a prompt was answered.                                *)
Answered(s, w) ==
  /\ IsApp(w) /\ SameSwitch(s, w) /\ SameExit(s, w) /\ SameTabs(s, w)
  /\ w.stale = s.stale /\ w.pendingOpen = s.pendingOpen /\ SameCloses(s, w)
  /\ w.showUnsavedPrompt = s.showUnsavedPrompt
  /\ w.showStaleDropPrompt => s.showStaleDropPrompt

(* What waited for the answer goes ahead; nothing waits after it but the     *)
(* removal of the tab.                                                       *)
LEMMA DispatchFlow ==
  ASSUME NEW s, Sound(s), Flow(s, "ui"), s.showUnsavedPrompt \/ s.showStaleDropPrompt,
         NEW w, Answered(s, w), w.pendingWorkspaceAction = s.pendingWorkspaceAction,
         NoClicks /\ s.pendingTabCloseIdx # 0 => s.active \notin w.dirty,
         NEW outcome \in ProjectOutcomes, NEW saved, NEW tabs \in Seq(Keys)
  PROVE  Flow(DispatchPendingAction(w, outcome, saved, tabs), "swap")
<1> DEFINE t == DispatchPendingAction(w, outcome, saved, tabs)
<1>0. /\ s.pendingOpen = NoTab /\ TargetScoped(s)
      /\ NoSpoils => s.stale = {} /\ ~s.showStaleDropPrompt
                     /\ s.pendingWorkspaceAction # "CloseWorkspace"
      /\ NoSpoils \/ NoClicks => s.pendingCloseAfterSwap = 0 /\ s.pendingRemoveIdx = 0
      /\ NoClicks => \A u : SameLeaving(s, u) => ~Leaving(u, "swap")
      /\ NoClicks => (s.pendingWorkspaceAction = "CloseWorkspace" => s.pendingTabCloseIdx # 0)
  BY PromptedStays
<1>1. IsApp(w) /\ w.sessions \in Seq(Keys) /\ w.pendingWorkspaceAction \in PendingActions
  BY FieldTypes DEF Answered, SameTabs, Sound, AppStates
<1>2. /\ w.pendingWorkspaceAction = "None" => t = w
      /\ w.pendingWorkspaceAction # "None" =>
           \E r : /\ QuestionsAnswered(w, r)
                  /\ w.pendingWorkspaceAction = "CloseWorkspace" =>
                       t = CloseTab(r, r.activeSessionIdx)
                  /\ w.pendingWorkspaceAction = "OpenMultiWorkspace" =>
                       t = ProjectShown(r, outcome, saved, tabs)
  BY <1>1, DispatchPendingActionDoes
<1> HIDE DEF t
<1>3. SameLeaving(s, w)
  BY DEF Answered, SameExit, SameLeaving
<1>4. CASE w.pendingWorkspaceAction = "None"
  <2>1. TargetScoped(w)
    BY <1>0, <1>3 DEF TargetScoped, SameLeaving
  <2>2. NoSpoils => w.stale = {} /\ ~w.showStaleDropPrompt
    BY <1>0 DEF Answered
  <2>3. Flow(w, "swap")
    BY <1>0, <1>3, <2>1, <2>2, UiKeptFlow DEF Answered
  <2> QED
    BY <1>2, <1>4, <2>3 DEF t
<1>5. ASSUME NEW r, QuestionsAnswered(w, r)
      PROVE  /\ IsApp(r) /\ SameSwitch(s, r) /\ SameLeaving(s, r) /\ SameTabs(s, r)
             /\ r.stale = s.stale /\ r.pendingOpen = NoTab /\ SameCloses(s, r) /\ NoPrompt(r)
             /\ r.dirty = w.dirty /\ TargetScoped(r)
  BY <1>0, <1>3, <1>5 DEF QuestionsAnswered, SameButPrompts, Answered, SameSwitch, SameExit,
                    SameTabs, SameData, SameCloses, SameLeaving, TargetScoped
<1>6. CASE w.pendingWorkspaceAction = "CloseWorkspace"
  <2>1. PICK r : QuestionsAnswered(w, r) /\ t = CloseTab(r, r.activeSessionIdx)
    BY <1>2, <1>6
  <2>2. /\ IsApp(r) /\ SameSwitch(s, r) /\ SameLeaving(s, r) /\ SameTabs(s, r)
        /\ r.stale = s.stale /\ r.pendingOpen = NoTab /\ SameCloses(s, r) /\ NoPrompt(r)
        /\ r.dirty = w.dirty /\ TargetScoped(r)
    BY <1>5, <2>1
  <2>3. ~NoSpoils
    BY <1>0, <1>6
  <2>4. CASE ~NoClicks
    <3>1. t.pendingOpen = NoTab /\ SameLeaving(r, t)
      BY <2>1, <2>2, CloseTabLeaves
    <3>2. Opening(t, "swap") /\ TargetScoped(t)
      BY <2>2, <3>1 DEF Opening, TargetScoped, SameLeaving
    <3> QED
      BY <2>3, <2>4, <3>2 DEF Flow, t
  <2>5. CASE NoClicks
    <3>1. s.pendingTabCloseIdx # 0
      BY <1>0, <1>6, <2>5
    <3>2. s.active = s.sessions[s.pendingTabCloseIdx] /\ NoSwitch(s)
      BY <2>5, <3>1 DEF Flow, Located
    <3>3. s.pendingTabCloseIdx \in TabIndices(s)
      BY <3>1 DEF Sound, TabQueues
    <3>4. s.active # NoTab
      BY <3>2, <3>3, FieldTypes, NoTabAssumption DEF Sound
    <3>5. ActiveTab(r) /\ KeysUnique(r)
      BY <2>2 DEF Sound, ActiveTab, KeysUnique, SameTabs
    <3>6. /\ r.pendingTabCloseIdx \in TabIndices(r)
          /\ r.active = r.sessions[r.pendingTabCloseIdx]
          /\ r.active # NoTab /\ NoSwitch(r) /\ r.active \notin r.dirty
          /\ r.pendingCloseAfterSwap = 0
      BY <1>0, <2>2, <2>5, <3>1, <3>2, <3>3, <3>4
      DEF SameTabs, SameCloses, SameSwitch, NoSwitch, SwitchTo
    <3>7. ~Leaving(r, "swap")
      BY <1>0, <2>2, <2>5
    <3> QED
      BY <2>1, <2>2, <2>3, <3>5, <3>6, <3>7, CloseLocatedFlow DEF t
  <2> QED
    BY <2>4, <2>5
<1>7. CASE w.pendingWorkspaceAction = "OpenMultiWorkspace"
  <2>1. PICK r : QuestionsAnswered(w, r) /\ t = ProjectShown(r, outcome, saved, tabs)
    BY <1>2, <1>7
  <2>2. /\ IsApp(r) /\ SameLeaving(s, r) /\ SameTabs(s, r)
        /\ r.stale = s.stale /\ r.pendingOpen = NoTab /\ SameCloses(s, r) /\ NoPrompt(r)
        /\ TargetScoped(r)
    BY <1>5, <2>1
  <2>3. r.sessions \in Seq(Keys)
    BY <1>1, <2>1, <2>2 DEF Answered, SameTabs
  <2>4. MoreTabs(r, t)
    BY <2>1, <2>2, <2>3, ProjectShownDoes
  <2>5. t.pendingOpen = NoTab /\ TargetScoped(t) /\ t.stale = s.stale
    BY <2>2, <2>4 DEF MoreTabs, SamePrompts, SameExit, SameData, TargetScoped
  <2>6. NoSpoils \/ NoClicks => s.pendingTabCloseIdx = 0
    BY <1>7 DEF Flow, Waits
  <2>7. NoSpoils \/ NoClicks => NothingWaits(t)
    BY <1>0, <2>2, <2>4, <2>6 DEF MoreTabs, SamePrompts, NothingWaits, NoPrompt, SameCloses
  <2> QED
    BY <1>0, <2>5, <2>7, SettledFlow DEF t
<1> QED
  BY <1>1, <1>4, <1>6, <1>7 DEF PendingActions

(* The prompt about closing a tab was answered: the tab goes at the next     *)
(* frame.                                                                    *)
LEMMA ResolveFlow ==
  ASSUME NEW s, Flow(s, "ui"), UnsavedUp(s), NEW w, Answered(s, w)
  PROVE  Flow(ResolveTabClose(w), "swap")
<1> DEFINE t == ResolveTabClose(w)
<1>0. s.showUnsavedPrompt /\ ~s.showStaleDropPrompt /\ ~s.showExitDirtyModal
  BY DEF UnsavedUp, StaleUp, ExitUp
<1>1. /\ s.pendingOpen = NoTab /\ TargetScoped(s)
      /\ NoSpoils => s.stale = {}
      /\ NoSpoils \/ NoClicks => s.pendingCloseAfterSwap = 0 /\ s.pendingRemoveIdx = 0
      /\ NoClicks => \A u : SameLeaving(s, u) => ~Leaving(u, "swap")
  BY <1>0, PromptedStays
<1>2. /\ SameButPrompts(w, t) /\ t.pendingTabCloseIdx = 0
      /\ t.pendingWorkspaceAction = "None" /\ ~t.showUnsavedPrompt
      /\ t.pendingOpen = w.pendingOpen
      /\ t.pendingCloseAfterSwap = w.pendingCloseAfterSwap
      /\ t.showStaleDropPrompt = w.showStaleDropPrompt
  BY ClosePromptDoes DEF Answered
<1> HIDE DEF t
<1>3. SameLeaving(s, t) /\ NoPrompt(t) /\ t.pendingOpen = NoTab /\ t.stale = s.stale
      /\ t.pendingCloseAfterSwap = s.pendingCloseAfterSwap
  BY <1>0, <1>1, <1>2 DEF Answered, SameButPrompts, SameExit, SameData, SameLeaving, NoPrompt,
                          SameCloses
<1>4. Opening(t, "swap") /\ TargetScoped(t)
  BY <1>1, <1>3 DEF Opening, TargetScoped, SameLeaving
<1>5. NoSpoils => NothingStale(t)
  BY <1>1, <1>3 DEF NothingStale, NoPrompt
<1>6. NoSpoils \/ NoClicks => Waits(t, "swap")
  BY <1>1, <1>2, <1>3 DEF Waits, NoPrompt
<1>7. NoClicks => Located(t, "swap")
  BY <1>1, <1>2, <1>3 DEF Located, NoPrompt, Leaving, SameLeaving
<1> QED
  BY <1>4, <1>5, <1>6, <1>7 DEF Flow, t

(* Save. *)
LEMMA AnswerSaveFlow ==
  ASSUME NEW s, Sound(s), Flow(s, "ui"), UnsavedUp(s),
         NEW saved, NEW n, NEW outcome \in ProjectOutcomes, NEW loaded, NEW tabs \in Seq(Keys),
         ~Crashed(s, AnswerSave(s, saved, n, outcome, loaded, tabs))
  PROVE  Flow(AnswerSave(s, saved, n, outcome, loaded, tabs), "swap")
<1> DEFINE t == AnswerSave(s, saved, n, outcome, loaded, tabs)
<1>0. s.showUnsavedPrompt /\ ~s.showStaleDropPrompt /\ ~s.showExitDirtyModal
  BY DEF UnsavedUp, StaleUp, ExitUp
<1>1. /\ s.pendingOpen = NoTab /\ TargetScoped(s)
      /\ NoSpoils => s.stale = {} /\ ~s.showStaleDropPrompt
                     /\ s.pendingWorkspaceAction # "CloseWorkspace"
      /\ NoSpoils \/ NoClicks => s.pendingCloseAfterSwap = 0 /\ s.pendingRemoveIdx = 0
      /\ NoClicks => \A u : SameLeaving(s, u) => ~Leaving(u, "swap")
      /\ NoClicks => (s.pendingWorkspaceAction = "CloseWorkspace" => s.pendingTabCloseIdx # 0)
  BY <1>0, PromptedStays
<1>2. IsApp(s) /\ ~Crashed(s, t)
  BY FieldsOf DEF Sound
<1> HIDE DEF t
<1>3. CASE /\ s.active \in s.stale
           /\ SameButPrompts(s, t) /\ t.pendingOpen = s.pendingOpen /\ SameCloses(s, t)
           /\ t.showUnsavedPrompt = s.showUnsavedPrompt /\ t.showStaleDropPrompt
           /\ t.pendingWorkspaceAction = IF s.pendingTabCloseIdx # 0 THEN "CloseWorkspace"
                                         ELSE s.pendingWorkspaceAction
  <2>1. ~NoSpoils
    BY <1>1, <1>3
  <2>2. Opening(t, "swap") /\ TargetScoped(t) /\ SameLeaving(s, t)
    BY <1>1, <1>3 DEF Opening, TargetScoped, SameButPrompts, SameExit, SameLeaving
  <2>3. NoClicks => Waits(t, "swap")
    BY <1>0, <1>1, <1>3 DEF Flow, Waits, SameCloses
  <2>4. NoClicks => Located(t, "swap")
    BY <1>1, <1>3, <2>2 DEF Flow, Located, Leaving, SameLeaving, SameCloses, SameButPrompts,
                            SameTabs, SameSwitch, NoSwitch, SwitchTo
  <2> QED
    BY <2>1, <2>2, <2>3, <2>4 DEF Flow, t
<1>4. CASE /\ SameButPrompts(s, t)
           /\ t.pendingOpen = s.pendingOpen
           /\ t.pendingCloseAfterSwap = s.pendingCloseAfterSwap
           /\ t.pendingRemoveIdx = s.pendingRemoveIdx /\ t.pendingTabCloseIdx = 0
           /\ t.showUnsavedPrompt = s.showUnsavedPrompt
           /\ t.showStaleDropPrompt = s.showStaleDropPrompt
           /\ t.pendingWorkspaceAction = "None"
  <2>1. Opening(t, "swap") /\ TargetScoped(t) /\ SameLeaving(s, t)
    BY <1>1, <1>4 DEF Opening, TargetScoped, SameButPrompts, SameExit, SameLeaving
  <2>2. NoSpoils => NothingStale(t)
    BY <1>1, <1>4 DEF NothingStale, SameButPrompts, SameData
  <2>3. NoSpoils \/ NoClicks => Waits(t, "swap")
    BY <1>1, <1>4 DEF Waits
  <2>4. NoClicks => Located(t, "swap")
    BY <1>1, <1>4, <2>1 DEF Located, Leaving, SameLeaving
  <2> QED
    BY <2>1, <2>2, <2>3, <2>4 DEF Flow, t
<1>5. CASE SavedAndAnswered(s, t, n, outcome, loaded, tabs)
  <2>1. PICK w : /\ ActiveSaved(s, w)
                 /\ w.showStaleDropPrompt = s.showStaleDropPrompt
                 /\ s.pendingTabCloseIdx # 0 => t = ResolveTabClose(w)
                 /\ s.pendingTabCloseIdx = 0 =>
                      /\ w.pendingWorkspaceAction = s.pendingWorkspaceAction
                      /\ t = DispatchPendingAction(w, outcome, loaded, tabs)
    BY <1>5 DEF SavedAndAnswered
  <2>2. Answered(s, w)
    BY <2>1 DEF Answered, ActiveSaved
  <2>3. CASE s.pendingTabCloseIdx # 0
    BY <2>1, <2>2, <2>3, ResolveFlow DEF t
  <2>4. CASE s.pendingTabCloseIdx = 0
    <3>1. /\ w.pendingWorkspaceAction = s.pendingWorkspaceAction
          /\ t = DispatchPendingAction(w, outcome, loaded, tabs)
      BY <2>1, <2>4
    <3> QED
      BY <1>0, <2>2, <2>4, <3>1, DispatchFlow DEF t
  <2> QED
    BY <2>3, <2>4
<1>6. \/ Crashed(s, t)
      \/ /\ s.active \in s.stale
         /\ SameButPrompts(s, t) /\ t.nullDeref = s.nullDeref
         /\ t.pendingOpen = s.pendingOpen /\ SameCloses(s, t)
         /\ t.showUnsavedPrompt = s.showUnsavedPrompt /\ t.showStaleDropPrompt
         /\ t.pendingWorkspaceAction = IF s.pendingTabCloseIdx # 0 THEN "CloseWorkspace"
                                       ELSE s.pendingWorkspaceAction
      \/ /\ SameButPrompts(s, t) /\ t.nullDeref = s.nullDeref
         /\ t.pendingOpen = s.pendingOpen
         /\ t.pendingCloseAfterSwap = s.pendingCloseAfterSwap
         /\ t.pendingRemoveIdx = s.pendingRemoveIdx /\ t.pendingTabCloseIdx = 0
         /\ t.showUnsavedPrompt = s.showUnsavedPrompt
         /\ t.showStaleDropPrompt = s.showStaleDropPrompt
         /\ t.pendingWorkspaceAction = "None" /\ ~saved
      \/ /\ saved /\ s.active # NoTab /\ s.active \notin s.stale
         /\ SavedAndAnswered(s, t, n, outcome, loaded, tabs)
  BY <1>2, AnswerSaveDoes DEF t
<1> QED
  BY <1>2, <1>3, <1>4, <1>5, <1>6

(* Don't Save, and Cancel. *)
LEMMA AnswerDontSaveFlow ==
  ASSUME NEW s, Sound(s), Flow(s, "ui"), UnsavedUp(s),
         NEW outcome \in ProjectOutcomes, NEW loaded, NEW tabs \in Seq(Keys)
  PROVE  Flow(AnswerDontSave(s, outcome, loaded, tabs), "swap")
<1> DEFINE t == AnswerDontSave(s, outcome, loaded, tabs)
<1>0. s.showUnsavedPrompt /\ ~s.showStaleDropPrompt /\ ~s.showExitDirtyModal /\ IsApp(s)
  BY FieldsOf DEF UnsavedUp, StaleUp, ExitUp, Sound
<1>1. PICK r : /\ IsApp(r) /\ SamePrompts(s, r) /\ SameSwitch(s, r) /\ SameExit(s, r)
               /\ SameTabs(s, r) /\ SameData(s, r)
               /\ s.pendingTabCloseIdx # 0 => t = ResolveTabClose(r)
               /\ s.pendingTabCloseIdx = 0 =>
                    t = DispatchPendingAction(r, outcome, loaded, tabs)
  BY <1>0, AnswerDontSaveDoes
<1> HIDE DEF t
<1>2. Answered(s, r) /\ r.pendingWorkspaceAction = s.pendingWorkspaceAction
  BY <1>1 DEF Answered, SamePrompts, SameData, SameCloses
<1>3. CASE s.pendingTabCloseIdx # 0
  BY <1>1, <1>2, <1>3, ResolveFlow DEF t
<1>4. CASE s.pendingTabCloseIdx = 0
  <2>1. t = DispatchPendingAction(r, outcome, loaded, tabs)
    BY <1>1, <1>4
  <2> QED
    BY <1>0, <1>2, <1>4, <2>1, DispatchFlow DEF t
<1> QED
  BY <1>3, <1>4

(* Cancel: the close that was asked for is called off.                       *)
LEMMA AnswerCancelFlow ==
  ASSUME NEW s, Sound(s), Flow(s, "ui"), UnsavedUp(s)
  PROVE  Flow(AnswerCancel(s), "swap")
<1> DEFINE t == AnswerCancel(s)
<1>0. s.showUnsavedPrompt /\ ~s.showStaleDropPrompt /\ ~s.showExitDirtyModal /\ IsApp(s)
  BY FieldsOf DEF UnsavedUp, StaleUp, ExitUp, Sound
<1>1. /\ s.pendingOpen = NoTab /\ TargetScoped(s)
      /\ NoSpoils => s.stale = {}
      /\ NoSpoils \/ NoClicks => s.pendingCloseAfterSwap = 0 /\ s.pendingRemoveIdx = 0
  BY <1>0, PromptedStays
<1>2. /\ SameData(s, t) /\ t.pendingTabCloseIdx = 0
      /\ t.pendingWorkspaceAction = "None" /\ ~t.showUnsavedPrompt
      /\ t.pendingOpen = s.pendingOpen
      /\ t.pendingCloseAfterSwap = s.pendingCloseAfterSwap
      /\ t.pendingRemoveIdx = s.pendingRemoveIdx
      /\ t.showStaleDropPrompt = s.showStaleDropPrompt
      /\ t.showExitDirtyModal = s.showExitDirtyModal
      /\ t.exitSaveAllRunning = s.exitSaveAllRunning
      /\ t.exitTargetIsGoHome = s.exitTargetIsGoHome
      /\ t.pendingGoHome = s.pendingGoHome
  BY <1>0, ClosePromptDoes
<1> HIDE DEF t
<1>3. NoSpoils \/ NoClicks => NothingWaits(t)
  BY <1>0, <1>1, <1>2 DEF NothingWaits, NoPrompt
<1>4. TargetScoped(t) /\ (NoSpoils => t.stale = {})
  BY <1>1, <1>2 DEF TargetScoped, SameData
<1> QED
  BY <1>1, <1>2, <1>3, <1>4, SettledFlow DEF t

(* The answers of the stale prompt. *)
LEMMA StaleAnswersFlow ==
  ASSUME NEW s, Sound(s), Flow(s, "ui"), StaleUp(s),
         NEW saved, NEW outcome \in ProjectOutcomes, NEW loaded, NEW tabs \in Seq(Keys)
  PROVE  /\ ~Crashed(s, StaleCancel(s)) => Flow(StaleCancel(s), "swap")
         /\ ~Crashed(s, StaleDrop(s, saved, outcome, loaded, tabs)) =>
              Flow(StaleDrop(s, saved, outcome, loaded, tabs), "swap")
<1> DEFINE c == StaleCancel(s)
           t == StaleDrop(s, saved, outcome, loaded, tabs)
<1>0. s.showStaleDropPrompt /\ ~s.showExitDirtyModal /\ IsApp(s)
  BY FieldsOf DEF StaleUp, ExitUp, Sound
<1>1. /\ s.pendingOpen = NoTab /\ TargetScoped(s)
      /\ NoSpoils => s.stale = {}
      /\ NoClicks => \A u : SameLeaving(s, u) => ~Leaving(u, "swap")
  BY <1>0, PromptedStays
<1>2. \/ Crashed(s, c)
      \/ /\ SameButPrompts(s, c)
         /\ c.pendingOpen = s.pendingOpen /\ SameCloses(s, c)
         /\ c.pendingWorkspaceAction = s.pendingWorkspaceAction
         /\ c.showUnsavedPrompt = s.showUnsavedPrompt /\ ~c.showStaleDropPrompt
  BY <1>0, StaleAnswersDo
<1>3. \/ Crashed(s, t)
      \/ t = s
      \/ /\ s.active # NoTab
         /\ DroppedAndDispatched(s, t, outcome, loaded, tabs)
  BY <1>0, StaleAnswersDo
<1> HIDE DEF c, t
<1>4. ASSUME /\ SameButPrompts(s, c)
             /\ c.pendingOpen = s.pendingOpen /\ SameCloses(s, c)
             /\ c.pendingWorkspaceAction = s.pendingWorkspaceAction
             /\ c.showUnsavedPrompt = s.showUnsavedPrompt /\ ~c.showStaleDropPrompt
      PROVE  Flow(c, "swap")
  <2>1. SameLeaving(s, c) /\ SameTabs(s, c) /\ SameSwitch(s, c) /\ c.stale = s.stale
    BY <1>4 DEF SameButPrompts, SameExit, SameLeaving, SameData
  <2>2. TargetScoped(c) /\ (NoClicks => ~Leaving(c, "swap"))
    BY <1>1, <2>1 DEF TargetScoped, SameLeaving
  <2> QED
    BY <1>1, <1>4, <2>1, <2>2, UiKeptFlow
<1>5. ASSUME NEW w, ActiveSaved(s, w), ~w.showStaleDropPrompt,
             w.pendingWorkspaceAction = s.pendingWorkspaceAction,
             t = DispatchPendingAction(w, outcome, loaded, tabs)
      PROVE  Flow(t, "swap")
  <2>1. Answered(s, w) /\ s.active \notin w.dirty
    BY <1>5 DEF Answered, ActiveSaved
  <2> QED
    BY <1>0, <1>5, <2>1, DispatchFlow
<1>6. Flow(s, "swap")
  BY NoClickFlow
<1> QED
  BY <1>2, <1>3, <1>4, <1>5, <1>6 DEF c, t, DroppedAndDispatched

(* The answers of the exit modal: nothing waits while it is up.              *)
LEMMA ExitAnswersFlow ==
  ASSUME NEW s, Sound(s), Flow(s, "ui"), ExitUp(s)
  PROVE  /\ Flow(ExitSaveAll(s), "swap") /\ Flow(ExitCancel(s), "swap")
         /\ Flow(ExitDiscardAll(s), "swap")
<1>0. s.showExitDirtyModal /\ IsApp(s)
  BY FieldsOf DEF ExitUp, Sound
<1>1. ASSUME NEW t, SameButFlow(s, t), TargetScoped(t)
      PROVE  Flow(t, "swap")
  <2>1. /\ t.pendingOpen = s.pendingOpen /\ SameCloses(s, t)
        /\ t.pendingWorkspaceAction = s.pendingWorkspaceAction
        /\ t.showUnsavedPrompt = s.showUnsavedPrompt
        /\ t.showStaleDropPrompt = s.showStaleDropPrompt
        /\ SameTabs(s, t) /\ SameSwitch(s, t) /\ t.stale = s.stale
    BY <1>1 DEF SameButFlow, SamePrompts, SameCloses
  <2>2. NoSpoils => t.stale = {} /\ ~t.showStaleDropPrompt
    BY <2>1 DEF Flow, NothingStale
  <2>3. NoClicks => NothingWaits(t)
    <3>1. NoClicks => NothingWaits(s)
      BY <1>0 DEF Flow, Located, Leaving
    <3> QED
      BY <2>1, <3>1 DEF NothingWaits, NoPrompt, SameCloses
  <2> QED
    BY <1>1, <2>1, <2>2, <2>3, UiKeptFlow
<1>2. Flow(ExitSaveAll(s), "swap")
  <2>1. SameButFlow(s, ExitSaveAll(s)) /\ TargetScoped(ExitSaveAll(s))
    BY <1>0, ExitAnswersDo DEF TargetScoped
  <2> QED
    BY <1>1, <2>1
<1>3. Flow(ExitCancel(s), "swap")
  <2>1. SameButFlow(s, ExitCancel(s)) /\ TargetScoped(ExitCancel(s))
    BY <1>0, ExitAnswersDo DEF TargetScoped
  <2> QED
    BY <1>1, <2>1
<1>4. Flow(ExitDiscardAll(s), "swap")
  <2>1. SameButFlow(s, ExitDiscardAll(s)) /\ TargetScoped(ExitDiscardAll(s))
    BY <1>0, ExitAnswersDo DEF TargetScoped
  <2> QED
    BY <1>1, <2>1
<1> QED
  BY <1>2, <1>3, <1>4

(* Where widgets can be clicked nothing waits, so far as anything is known   *)
(* of that.                                                                  *)
Idle(s) ==
  /\ s.pendingOpen = NoTab /\ TargetScoped(s)
  /\ NoSpoils => s.stale = {}
  /\ NoSpoils \/ NoClicks => NothingWaits(s)

(* With no prompt up nothing waits when a widget can be clicked.             *)
LEMMA ClickIdle ==
  ASSUME NEW s, Flow(s, "ui"), ~s.showUnsavedPrompt, ~s.showStaleDropPrompt
  PROVE  Idle(s)
  BY DEF Idle, Flow, Opening, NothingStale, Waits, NothingWaits, NoPrompt

(* Where the program is not being left, no switch is queued away from a tab. *)
Staying(s) == NoClicks => ~Leaving(s, "swap") /\ (NoSwitch(s) \/ s.active = NoTab)

(* Nor is the program being left, if nobody clicks in the middle of that.    *)
LEMMA WidgetsIdle ==
  ASSUME NEW s, Flow(s, "ui"), ~ModalUp(s), "clickInFlow" \in Allowed \/ ~FlowUnderWay,
         s = app
  PROVE  Idle(s) /\ Staying(s)
<1>1. ~s.showUnsavedPrompt /\ ~s.showStaleDropPrompt /\ ~s.showExitDirtyModal
  BY DEF ModalUp, ExitUp, StaleUp, UnsavedUp
<1>2. NoClicks => ~s.exitSaveAllRunning /\ ~s.pendingGoHome
  BY DEF NoClicks, FlowUnderWay
<1>3. Idle(s)
  BY <1>1, ClickIdle
<1>4. Staying(s)
  BY <1>1, <1>2 DEF Staying, Flow, Located, Leaving
<1> QED
  BY <1>3, <1>4

(* Nothing waits: the next frame starts from there.                          *)
LEMMA IdleSettles ==
  ASSUME NEW t, Idle(t)
  PROVE  Flow(t, "swap")
  BY SettledFlow DEF Idle

(* A change that asks for nothing.                                           *)
LEMMA IdleKept ==
  ASSUME NEW s, NEW t, Idle(s), SamePrompts(s, t), SameLeaving(s, t),
         NoSpoils => t.stale \subseteq s.stale
  PROVE  Idle(t)
  BY DEF Idle, SamePrompts, SameLeaving, TargetScoped, NothingWaits, NoPrompt

(* A click that asks for no tab to be opened or closed.                      *)
LEMMA QuietClickFlow ==
  ASSUME NEW s, NEW t, Idle(s), SamePrompts(s, t), SameExit(s, t),
         NoSpoils => t.stale \subseteq s.stale
  PROVE  Idle(t) /\ Flow(t, "swap")
<1>1. SameLeaving(s, t)
  BY DEF SameExit, SameLeaving
<1> QED
  BY <1>1, IdleKept, IdleSettles

(* The Session tab, the tabs, and a change of the tab that is shown.         *)
LEMMA SessionClickFlow ==
  ASSUME NEW s, Sound(s), Idle(s)
  PROVE  /\ Flow(FocusSessionTab(s), "swap")
         /\ \A idx : Flow(SwapInSession(s, idx), "swap")
         /\ \A spoils \in Spoils : Flow(EditActiveTab(s, spoils), "swap")
<1>0. IsApp(s)
  BY FieldsOf DEF Sound
<1>1. Flow(FocusSessionTab(s), "swap")
  <2> DEFINE t == FocusSessionTab(s)
  <2>1. SamePrompts(s, t) /\ SameExit(s, t) /\ t.stale = s.stale
    BY <1>0, FocusSessionTabDoes DEF SameButSwitch, SameData
  <2> HIDE DEF t
  <2>2. Flow(t, "swap")
    BY <2>1, QuietClickFlow
  <2> QED
    BY <2>2 DEF t
<1>2. ASSUME NEW idx PROVE Flow(SwapInSession(s, idx), "swap")
  <2> DEFINE t == SwapInSession(s, idx)
  <2>1. SamePrompts(s, t) /\ SameExit(s, t) /\ t.stale = s.stale
    BY <1>0, SwapInSessionDoes DEF SameButSwitch, SameData
  <2> HIDE DEF t
  <2>2. Flow(t, "swap")
    BY <2>1, QuietClickFlow
  <2> QED
    BY <2>2 DEF t
<1>3. ASSUME NEW spoils \in Spoils PROVE Flow(EditActiveTab(s, spoils), "swap")
  <2> DEFINE t == EditActiveTab(s, spoils)
  <2>1. /\ SamePrompts(s, t) /\ SameExit(s, t)
        /\ ~spoils => t.stale = s.stale
    BY <1>0, EditActiveTabDoes
  <2>2. NoSpoils => ~spoils
    BY DEF NoSpoils, Spoils
  <2> HIDE DEF t
  <2>3. NoSpoils => t.stale \subseteq s.stale
    BY <2>1, <2>2
  <2>4. Flow(t, "swap")
    BY <2>1, <2>3, QuietClickFlow
  <2> QED
    BY <2>4 DEF t
<1> QED
  BY <1>1, <1>2, <1>3

(* What is done to experiments.                                              *)
LEMMA OnlyExpsFlow ==
  ASSUME NEW s, Idle(s), NEW t, OnlyExps(s, t)
  PROVE  Flow(t, "swap")
  BY QuietClickFlow DEF OnlyExps, SameData

(* The widgets of experiments.                                               *)
LEMMA ExperimentClickFlow ==
  ASSUME NEW s, Sound(s), Idle(s)
  PROVE  /\ Flow(EditActiveExperiment(s), "swap")
         /\ \A e : Flow(CreateExperiment(s, e), "swap")
         /\ \A idx : /\ Flow(ActivateExperiment(s, idx), "swap")
                     /\ Flow(CloseRequest(s, idx), "swap")
         /\ \A idx \in Nat : Flow(RequestDelete(s, idx), "swap")
         /\ Flow(ConfirmExperimentDelete(s), "swap")
         /\ Flow(CancelExperimentDelete(s), "swap")
<1>0. IsApp(s) /\ s \in AppStates
  BY FieldsOf DEF Sound
<1>1. OnlyExps(s, EditActiveExperiment(s))
  BY <1>0, EditActiveExperimentDoes
<1>2. \A e : OnlyExps(s, CreateExperiment(s, e))
  BY <1>0, CreateExperimentDoes
<1>3. \A idx : OnlyExps(s, ActivateExperiment(s, idx)) /\ OnlyExps(s, CloseRequest(s, idx))
  BY <1>0, ActivateExperimentDoes, CloseRequestDoes
<1>4. /\ \A idx \in Nat : OnlyExps(s, RequestDelete(s, idx))
      /\ OnlyExps(s, ConfirmExperimentDelete(s)) /\ OnlyExps(s, CancelExperimentDelete(s))
  BY <1>0, ExperimentDeleteDoes
<1> QED
  BY <1>1, <1>2, <1>3, <1>4, OnlyExpsFlow

(* What opens a project.                                                     *)
LEMMA MoreTabsFlow ==
  ASSUME NEW s, Idle(s), NEW t, MoreTabs(s, t)
  PROVE  Idle(t) /\ Flow(t, "swap")
  BY QuietClickFlow DEF MoreTabs, SameData

(* Another project is opened: from the menu, and from the welcome screen.    *)
LEMMA OpenProjectFlow ==
  ASSUME NEW s, Sound(s), Idle(s), NEW outcome \in ProjectOutcomes, NEW saved,
         NEW tabs \in Seq(Keys)
  PROVE  /\ Flow(OpenProject(s, outcome, saved, tabs), "swap")
         /\ Flow([FocusSessionTab(OpenProject(s, outcome, saved, tabs))
                    EXCEPT !.welcome = FALSE], "swap")
<1> DEFINE p == OpenProject(s, outcome, saved, tabs)
           f == FocusSessionTab(p)
           g == [f EXCEPT !.welcome = FALSE]
<1>0. IsApp(s) /\ s.sessions \in Seq(Keys)
  BY FieldsOf, FieldTypes DEF Sound
<1>1. MoreTabs(s, p)
  BY <1>0, OpenProjectDoes
<1> HIDE DEF p
<1>2. MoreTabs(p, f) /\ IsApp(f)
  BY <1>1, FocusSessionTabDoes DEF SameButSwitch, MoreTabs, SameTabs
<1> HIDE DEF f
<1>3. MoreTabs(f, g)
  BY <1>2 DEF IsApp, AppFields, MoreTabs, SamePrompts, SameExit, SameData
<1> HIDE DEF g
<1>4. MoreTabs(s, g)
  BY <1>1, <1>2, <1>3, MoreTabsTransitive
<1>5. Flow(p, "swap") /\ Flow(g, "swap")
  BY <1>1, <1>4, MoreTabsFlow
<1> QED
  BY <1>5 DEF p, f, g

(* The project at home is opened again.                                      *)
LEMMA OpenSameProjectFlow ==
  ASSUME NEW s, Sound(s), Idle(s), NEW loaded, NEW tabs \in Seq(Keys)
  PROVE  Flow([RestoreOpenEmbeddedTabs(LoadExperiments(FocusSessionTab(s), loaded), tabs)
                 EXCEPT !.welcome = FALSE], "swap")
<1> DEFINE f == FocusSessionTab(s)
           l == LoadExperiments(f, loaded)
           p == RestoreOpenEmbeddedTabs(l, tabs)
           g == [p EXCEPT !.welcome = FALSE]
<1>0. IsApp(s) /\ s.sessions \in Seq(Keys)
  BY FieldsOf, FieldTypes DEF Sound
<1>1. MoreTabs(s, f) /\ f.sessions = s.sessions
  BY <1>0, FocusSessionTabDoes DEF SameButSwitch, MoreTabs, SameTabs
<1> HIDE DEF f
<1>2. IsApp(f)
  BY <1>1 DEF MoreTabs
<1>3. OnlyExps(f, l)
  BY <1>2, LoadExperimentsDoes
<1> HIDE DEF l
<1>4. MoreTabs(f, l) /\ IsApp(l) /\ l.sessions \in Seq(Keys)
  BY <1>0, <1>1, <1>3, OnlyExpsIsMoreTabs DEF OnlyExps
<1>5. MoreTabs(l, p) /\ IsApp(p)
  BY <1>4, RestoreTabsDoes DEF MoreTabs
<1> HIDE DEF p
<1>6. MoreTabs(p, g)
  BY <1>5 DEF IsApp, AppFields, MoreTabs, SamePrompts, SameExit, SameData
<1> HIDE DEF g
<1>7. MoreTabs(s, g)
  BY <1>1, <1>4, <1>5, <1>6, MoreTabsTransitive
<1>8. Flow(g, "swap")
  BY <1>7, MoreTabsFlow
<1> QED
  BY <1>8 DEF g, p, l, f

(* Another project: in its prompt, or at once.                               *)
LEMMA ReplaceProjectFlow ==
  ASSUME NEW s, Sound(s), Idle(s), Staying(s), NEW outcome \in ProjectOutcomes,
         NEW saved, NEW tabs \in Seq(Keys)
  PROVE  Flow(RequestReplaceProject(s, outcome, saved, tabs), "swap")
<1> DEFINE t == RequestReplaceProject(s, outcome, saved, tabs)
<1>0. IsApp(s) /\ s.sessions \in Seq(Keys)
  BY FieldsOf, FieldTypes DEF Sound
<1>1. \/ /\ SameButPrompts(s, t) /\ t.nullDeref = s.nullDeref
         /\ t.pendingOpen = s.pendingOpen /\ SameCloses(s, t)
         /\ t.pendingWorkspaceAction = "OpenMultiWorkspace"
         /\ t.showUnsavedPrompt /\ t.showStaleDropPrompt = s.showStaleDropPrompt
      \/ /\ s.active \notin s.dirty /\ s.expDirty = {}
         /\ \E r : /\ QuestionsAnswered(s, r)
                   /\ t = ProjectShown(r, outcome, saved, tabs)
  BY <1>0, RequestReplaceProjectDoes
<1> HIDE DEF t
<1>2. CASE /\ SameButPrompts(s, t)
           /\ t.pendingOpen = s.pendingOpen /\ SameCloses(s, t)
           /\ t.pendingWorkspaceAction = "OpenMultiWorkspace"
           /\ t.showUnsavedPrompt /\ t.showStaleDropPrompt = s.showStaleDropPrompt
  <2>1. SameLeaving(s, t) /\ t.stale = s.stale
    BY <1>2 DEF SameButPrompts, SameExit, SameData, SameLeaving
  <2>2. Opening(t, "swap") /\ TargetScoped(t)
    BY <1>2, <2>1 DEF Idle, Opening, TargetScoped, SameLeaving
  <2>3. NoSpoils => NothingStale(t)
    BY <1>2, <2>1 DEF Idle, NothingStale, NothingWaits, NoPrompt
  <2>4. NoSpoils \/ NoClicks => Waits(t, "swap")
    BY <1>2 DEF Idle, NothingWaits, Waits, SameCloses
  <2>5. NoClicks => Located(t, "swap")
    BY <1>2, <2>1 DEF Idle, Staying, NothingWaits, Located, Leaving, SameLeaving, SameCloses
  <2> QED
    BY <2>2, <2>3, <2>4, <2>5 DEF Flow, t
<1>3. ASSUME NEW r, QuestionsAnswered(s, r), t = ProjectShown(r, outcome, saved, tabs)
      PROVE  Flow(t, "swap")
  <2>1. /\ IsApp(r) /\ SameExit(s, r) /\ r.sessions = s.sessions /\ r.stale = s.stale
        /\ r.pendingOpen = s.pendingOpen /\ SameCloses(s, r) /\ NoPrompt(r)
    BY <1>3 DEF QuestionsAnswered, SameButPrompts, SameTabs, SameData
  <2>2. Idle(r)
    BY <2>1 DEF Idle, TargetScoped, SameExit, NothingWaits, SameCloses
  <2>3. MoreTabs(r, t)
    BY <1>0, <1>3, <2>1, ProjectShownDoes
  <2> QED
    BY <2>2, <2>3, MoreTabsFlow
<1> QED
  BY <1>1, <1>2, <1>3 DEF t

(* Save As from the menu, the stale prompt it may raise.                     *)
LEMMA SaveAsFlow ==
  ASSUME NEW s, Sound(s), Idle(s), Staying(s)
  PROVE  Flow(RequestSaveAs(s), "swap")
<1> DEFINE t == RequestSaveAs(s)
<1>1. /\ SameSwitch(s, t) /\ SameExit(s, t) /\ SameTabs(s, t) /\ t.stale = s.stale
      /\ t.pendingOpen = s.pendingOpen
      /\ t.pendingCloseAfterSwap = s.pendingCloseAfterSwap
      /\ t.pendingRemoveIdx = s.pendingRemoveIdx
      /\ t.pendingTabCloseIdx = s.pendingTabCloseIdx
      /\ t.pendingWorkspaceAction = s.pendingWorkspaceAction
      /\ t.showUnsavedPrompt = s.showUnsavedPrompt
      /\ t.showStaleDropPrompt # s.showStaleDropPrompt => s.active \in s.stale
  BY FieldsOf, RequestSavesDo DEF Sound
<1> HIDE DEF t
<1>2. CASE t.showStaleDropPrompt = s.showStaleDropPrompt
  <2>1. SamePrompts(s, t)
    BY <1>1, <1>2 DEF SamePrompts
  <2> QED
    BY <1>1, <2>1, QuietClickFlow DEF t
<1>3. CASE t.showStaleDropPrompt # s.showStaleDropPrompt
  <2>1. ~NoSpoils /\ SameLeaving(s, t)
    BY <1>1, <1>3 DEF Idle, SameLeaving, SameExit
  <2>2. Opening(t, "swap") /\ TargetScoped(t)
    BY <1>1, <2>1 DEF Idle, Opening, TargetScoped, SameLeaving
  <2>3. NoClicks => Waits(t, "swap")
    BY <1>1 DEF Idle, NothingWaits, NoPrompt, Waits
  <2>4. NoClicks => Located(t, "swap")
    BY <1>1, <2>1 DEF Idle, Staying, NothingWaits, NoPrompt, Located, Leaving, SameLeaving
  <2> QED
    BY <2>1, <2>2, <2>3, <2>4 DEF Flow, t
<1> QED
  BY <1>2, <1>3

(* A tab is opened.                                                          *)
LEMMA OpenInNewTabFlow ==
  ASSUME NEW s, IsApp(s), s.sessions \in Seq(Keys), Idle(s),
         NoClicks => ~Leaving(s, "swap"), NEW key \in Keys
  PROVE  Flow(OpenInNewTab(s, key), "swap")
<1> DEFINE t == OpenInNewTab(s, key)
<1>1. CASE key \in Range(s.sessions)
  <2>1. SameButSwitch(s, t)
    BY <1>1, OpenInNewTabDoes
  <2> HIDE DEF t
  <2>2. SamePrompts(s, t) /\ SameExit(s, t) /\ t.stale = s.stale
    BY <2>1 DEF SameButSwitch, SameData
  <2> QED
    BY <2>2, QuietClickFlow DEF t
<1>2. CASE key \notin Range(s.sessions)
  <2>1. /\ SameExit(s, t) /\ SameData(s, t) /\ SameCloses(s, t) /\ SameQuestions(s, t)
        /\ t.pendingOpen = key /\ SwitchTo(t, t.pendingSwapIdx)
        /\ t.pendingSwapIdx \in TabIndices(t)
        /\ t.sessions[t.pendingSwapIdx] = key
    BY <1>2, OpenInNewTabDoes
  <2> HIDE DEF t
  <2>2. SameLeaving(s, t)
    BY <2>1 DEF SameExit, SameLeaving
  <2>3. Opening(t, "swap") /\ TargetScoped(t)
    BY <2>1, <2>2 DEF Idle, Opening, TargetScoped, SameLeaving
  <2>4. NoSpoils => NothingStale(t)
    BY <2>1 DEF Idle, NothingStale, NothingWaits, NoPrompt, SameQuestions, SameData
  <2>5. NoSpoils \/ NoClicks => Waits(t, "swap")
    BY <2>1 DEF Idle, Waits, NothingWaits, NoPrompt, SameQuestions, SameCloses
  <2>6. NoClicks => Located(t, "swap")
    BY <2>1, <2>2 DEF Idle, Located, NothingWaits, NoPrompt, SameQuestions, SameCloses,
                      Leaving, SameLeaving
  <2> QED
    BY <2>3, <2>4, <2>5, <2>6 DEF Flow, t
<1> QED
  BY <1>1, <1>2

(* A tab is removed where nothing waits. *)
LEMMA RemoveIdle ==
  ASSUME NEW s, IsApp(s), Idle(s), NEW idx \in TabIndices(s)
  PROVE  LET t == RemoveTab(s, idx) IN IsApp(t) /\ Idle(t) /\ SameLeaving(s, t)
<1> DEFINE t == RemoveTab(s, idx)
<1>1. /\ IsApp(t) /\ SameLeaving(s, t) /\ t.pendingOpen = s.pendingOpen
      /\ t.stale \subseteq s.stale
  BY RemoveTabLeaving
<1>2. NothingWaits(s) => NothingWaits(t)
  BY RemoveTabIdle
<1> HIDE DEF t
<1>3. TargetScoped(t)
  BY <1>1 DEF Idle, TargetScoped, SameLeaving
<1>4. Idle(t)
  BY <1>1, <1>2, <1>3 DEF Idle
<1> QED
  BY <1>1, <1>4 DEF t

(* The x of a tab, in its four cases.                                        *)
LEMMA CloseTabFlow ==
  ASSUME NEW s, Sound(s), Idle(s), Staying(s), NEW idx \in TabIndices(s)
  PROVE  Flow(CloseTab(s, idx), "swap")
<1> DEFINE t == CloseTab(s, idx)
           isActive == idx = s.activeSessionIdx /\ s.activeTabKind = "Workspace"
<1>0. IsApp(s) /\ (isActive => s.active = s.sessions[idx] /\ s.active # NoTab)
  <2>1. IsApp(s) /\ ActiveTab(s) /\ Len(s.sessions) \in Nat
    BY FieldsOf, FieldTypes DEF Sound
  <2>2. idx # 0
    BY <2>1
  <2> QED
    BY <2>1, <2>2 DEF ActiveTab
<1>1. /\ s.sessions[idx] \in s.dirty /\ isActive =>
           /\ SameButPrompts(s, t) /\ t.nullDeref = s.nullDeref
           /\ t.pendingTabCloseIdx = idx /\ t.showUnsavedPrompt
           /\ t.pendingOpen = s.pendingOpen
           /\ t.pendingCloseAfterSwap = s.pendingCloseAfterSwap
           /\ t.pendingRemoveIdx = s.pendingRemoveIdx
           /\ t.pendingWorkspaceAction = s.pendingWorkspaceAction
           /\ t.showStaleDropPrompt = s.showStaleDropPrompt
      /\ s.sessions[idx] \in s.dirty /\ ~isActive =>
           /\ IsApp(t) /\ SameExit(s, t) /\ SameTabs(s, t) /\ SameData(s, t)
           /\ SameLosses(s, t) /\ SameExps(s, t) /\ t.nullDeref = s.nullDeref
           /\ SwitchTo(t, idx) /\ t.pendingCloseAfterSwap = idx
           /\ t.pendingOpen = s.pendingOpen /\ SameQuestions(s, t)
           /\ t.pendingRemoveIdx = s.pendingRemoveIdx
           /\ t.pendingTabCloseIdx = s.pendingTabCloseIdx
      /\ s.sessions[idx] \notin s.dirty /\ isActive =>
           /\ SameButPrompts(s, t) /\ t.nullDeref = s.nullDeref
           /\ t.pendingRemoveIdx = idx
           /\ t.pendingOpen = s.pendingOpen /\ SameQuestions(s, t)
           /\ t.pendingCloseAfterSwap = s.pendingCloseAfterSwap
           /\ t.pendingTabCloseIdx = s.pendingTabCloseIdx
      /\ s.sessions[idx] \notin s.dirty /\ ~isActive => t = RemoveTab(s, idx)
  BY <1>0, CloseTabDoes
<1> HIDE DEF t
<1>2. CASE s.sessions[idx] \in s.dirty /\ isActive
  <2>1. /\ SameLeaving(s, t) /\ SameTabs(s, t) /\ SameSwitch(s, t) /\ t.stale = s.stale
        /\ t.pendingTabCloseIdx = idx /\ t.showUnsavedPrompt
        /\ t.pendingOpen = s.pendingOpen
        /\ t.pendingCloseAfterSwap = s.pendingCloseAfterSwap
        /\ t.pendingRemoveIdx = s.pendingRemoveIdx
        /\ t.pendingWorkspaceAction = s.pendingWorkspaceAction
        /\ t.showStaleDropPrompt = s.showStaleDropPrompt
    BY <1>1, <1>2 DEF SameButPrompts, SameExit, SameData, SameLeaving
  <2>2. Opening(t, "swap") /\ TargetScoped(t)
    BY <2>1 DEF Idle, Opening, TargetScoped, SameLeaving
  <2>3. NoSpoils => NothingStale(t)
    BY <2>1 DEF Idle, NothingStale, NothingWaits, NoPrompt
  <2>4. NoSpoils \/ NoClicks => Waits(t, "swap")
    BY <2>1 DEF Idle, Waits, NothingWaits, NoPrompt
  <2>5. NoClicks => t.active = t.sessions[t.pendingTabCloseIdx] /\ NoSwitch(t)
    BY <1>0, <1>2, <2>1 DEF Staying, SameTabs, SameSwitch, NoSwitch, SwitchTo
  <2>6. NoClicks => Located(t, "swap")
    BY <2>1, <2>5 DEF Idle, Staying, Located, NothingWaits, NoPrompt, Leaving, SameLeaving
  <2> QED
    BY <2>2, <2>3, <2>4, <2>6 DEF Flow, t
<1>3. CASE s.sessions[idx] \in s.dirty /\ ~isActive
  <2>1. /\ SameLeaving(s, t) /\ t.stale = s.stale /\ SameQuestions(s, t)
        /\ SwitchTo(t, idx) /\ t.pendingCloseAfterSwap = idx
        /\ t.pendingOpen = s.pendingOpen
        /\ t.pendingRemoveIdx = s.pendingRemoveIdx
        /\ t.pendingTabCloseIdx = s.pendingTabCloseIdx
    BY <1>1, <1>3 DEF SameExit, SameData, SameLeaving
  <2>2. Opening(t, "swap") /\ TargetScoped(t)
    BY <2>1 DEF Idle, Opening, TargetScoped, SameLeaving
  <2>3. NoSpoils => NothingStale(t)
    BY <2>1 DEF Idle, NothingStale, NothingWaits, NoPrompt, SameQuestions
  <2>4. NoSpoils \/ NoClicks => Waits(t, "swap")
    BY <2>1 DEF Idle, Waits, NothingWaits, NoPrompt, SameQuestions
  <2>5. NoClicks => Located(t, "swap")
    BY <2>1 DEF Idle, Staying, Located, NothingWaits, NoPrompt, Leaving, SameLeaving,
                SameQuestions
  <2> QED
    BY <2>2, <2>3, <2>4, <2>5 DEF Flow, t
<1>4. CASE s.sessions[idx] \notin s.dirty /\ isActive
  <2>1. /\ SameLeaving(s, t) /\ t.stale = s.stale /\ SameQuestions(s, t)
        /\ t.pendingRemoveIdx = idx
        /\ t.pendingOpen = s.pendingOpen
        /\ t.pendingCloseAfterSwap = s.pendingCloseAfterSwap
        /\ t.pendingTabCloseIdx = s.pendingTabCloseIdx
    BY <1>1, <1>4 DEF SameButPrompts, SameExit, SameData, SameLeaving
  <2>2. Opening(t, "swap") /\ TargetScoped(t)
    BY <2>1 DEF Idle, Opening, TargetScoped, SameLeaving
  <2>3. NoSpoils => NothingStale(t)
    BY <2>1 DEF Idle, NothingStale, NothingWaits, NoPrompt, SameQuestions
  <2>4. NoSpoils \/ NoClicks => Waits(t, "swap")
    BY <2>1 DEF Idle, Waits, NothingWaits, NoPrompt, SameQuestions
  <2>5. NoClicks => Located(t, "swap")
    BY <2>1 DEF Idle, Staying, Located, NothingWaits, NoPrompt, Leaving, SameLeaving,
                SameQuestions
  <2> QED
    BY <2>2, <2>3, <2>4, <2>5 DEF Flow, t
<1>5. CASE s.sessions[idx] \notin s.dirty /\ ~isActive
  <2>1. t = RemoveTab(s, idx)
    BY <1>1, <1>5
  <2>2. Idle(t)
    BY <1>0, <2>1, RemoveIdle
  <2> QED
    BY <2>2, IdleSettles DEF t
<1> QED
  BY <1>2, <1>3, <1>4, <1>5

(* A dataset is deleted, with its tab.                                       *)
LEMMA RemoveDatasetFlow ==
  ASSUME NEW s, Sound(s), Idle(s), NEW key
  PROVE  Flow(RemoveDataset(s, key), "swap")
<1> DEFINE r   == [s EXCEPT !.consent = @ \cup {key}]
           idx == IndexOf(s.sessions, key)
           t   == RemoveTab(r, idx)
<1>0. IsApp(s) /\ s.sessions \in Seq(Keys)
  BY FieldsOf, FieldTypes DEF Sound
<1>1. RemoveDataset(s, key) = IF key \notin Range(s.sessions) THEN s ELSE t
  BY DEF RemoveDataset
<1>2. /\ IsApp(r) /\ SamePrompts(s, r) /\ SameExit(s, r) /\ r.stale = s.stale
      /\ r.sessions = s.sessions
  BY <1>0 DEF IsApp, AppFields, SamePrompts, SameExit
<1> HIDE DEF r
<1>3. Idle(r)
  BY <1>2, QuietClickFlow
<1>4. key \in Range(s.sessions) => idx \in TabIndices(r)
  BY <1>0, <1>2, IndexOfElement
<1> HIDE DEF idx
<1>5. key \in Range(s.sessions) => Idle(t)
  BY <1>2, <1>3, <1>4, RemoveIdle
<1> HIDE DEF t
<1> QED
  BY <1>1, <1>5, IdleSettles

(* A multi-workspace is made: the tab it embeds has been saved, so it goes   *)
(* at once, and its embedded copy is opened.                                 *)
LEMMA CreateMultiWorkspaceFlow ==
  ASSUME NEW s, Sound(s), Idle(s), Staying(s), NEW saved, NEW created,
         NEW outcome \in ProjectOutcomes, NEW key \in Keys,
         s.activeTabKind = "Session", CreateSource(s) # 0
  PROVE  Flow(CreateMultiWorkspace(s, saved, created, outcome, key), "swap")
<1> DEFINE src       == s.sessions[CreateSource(s)]
           more      == IF src \in s.dirty \cap s.stale
                        THEN s.staleOnDisk \cup {src} ELSE s.staleOnDisk
           autosaved == [s EXCEPT !.dirty = @ \ {src}, !.staleOnDisk = more]
           opened    == OpenProject(autosaved, outcome, << >>, << >>)
           idx       == IndexOf(opened.sessions, src)
           swapped   == CloseTab(opened, idx)
<1>0. IsApp(s) /\ s.sessions \in Seq(Keys) /\ CreateSource(s) \in TabIndices(s)
  <2>1. IsApp(s) /\ s.sessions \in Seq(Keys) /\ TabQueues(s) /\ Len(s.sessions) \in Nat
    BY FieldsOf, FieldTypes DEF Sound
  <2>2. CreateSource(s) \in 0 .. Len(s.sessions)
    BY <2>1 DEF CreateSource, TabQueues
  <2> QED
    BY <2>1, <2>2
<1>1. CreateMultiWorkspace(s, saved, created, outcome, key)
        \in {s, autosaved, OpenInNewTab(swapped, key)}
  BY DEF CreateMultiWorkspace
<1>2. src \in Range(s.sessions) /\ src = s.sessions[CreateSource(s)]
  BY <1>0, LenProperties DEF Range
<1> HIDE DEF src, more
<1>3. /\ IsApp(autosaved) /\ SamePrompts(s, autosaved) /\ SameExit(s, autosaved)
      /\ autosaved.stale = s.stale /\ autosaved.sessions = s.sessions
      /\ autosaved.activeTabKind = "Session" /\ src \notin autosaved.dirty
  BY <1>0 DEF IsApp, AppFields, SamePrompts, SameExit
<1> HIDE DEF autosaved
<1>4. Idle(autosaved) /\ Flow(autosaved, "swap")
  BY <1>3, QuietClickFlow
<1>5. /\ MoreTabs(autosaved, opened) /\ ExpsDropped(autosaved, opened)
      /\ outcome = "opened" => opened.sessions = s.sessions \o << >>
      /\ outcome # "opened" => opened.sessions = s.sessions
  <2>1. << >> \in Seq(Keys) /\ autosaved.sessions \in Seq(Keys) /\ IsApp(autosaved)
    BY <1>0, <1>3
  <2>2. ASSUME NEW none \in Seq(Keys)
        PROVE  LET p == OpenProject(autosaved, outcome, none, none) IN
               /\ MoreTabs(autosaved, p) /\ ExpsDropped(autosaved, p)
               /\ outcome = "opened" => p.sessions = autosaved.sessions \o none
               /\ outcome # "opened" => p.sessions = autosaved.sessions
    BY <2>1, OpenProjectDoes
  <2> QED
    BY <1>3, <2>1, <2>2
<1> HIDE DEF opened
<1>6. opened.sessions = s.sessions
  <2>1. s.sessions \o << >> = s.sessions
    BY <1>0, ConcatEmptySeq
  <2> QED
    BY <1>5, <2>1
<1>7. IsApp(opened) /\ Idle(opened) /\ src \notin opened.dirty
      /\ opened.activeTabKind # "Workspace" /\ SameLeaving(s, opened)
  <2>1. IsApp(opened) /\ opened.dirty = autosaved.dirty /\ SameExit(autosaved, opened)
    BY <1>5 DEF MoreTabs, SameData
  <2>2. Idle(opened)
    BY <1>4, <1>5, MoreTabsFlow
  <2>3. opened.activeTabKind # "Workspace"
    BY <1>3, <1>5 DEF ExpsDropped
  <2> QED
    BY <1>3, <2>1, <2>2, <2>3 DEF SameExit, SameLeaving
<1>8. idx \in TabIndices(opened) /\ opened.sessions[idx] = src
  BY <1>0, <1>2, <1>6, IndexOfElement
<1> HIDE DEF idx
<1>9. swapped = RemoveTab(opened, idx)
  BY <1>7, <1>8, CloseTabDoes
<1>10. IsApp(swapped) /\ Idle(swapped) /\ SameLeaving(opened, swapped)
       /\ swapped.sessions = RemoveAt(opened.sessions, idx)
  BY <1>7, <1>8, <1>9, RemoveIdle, RemoveTabDoes
<1>11. swapped.sessions \in Seq(Keys)
  BY <1>0, <1>6, <1>8, <1>10, RemoveAtElements
<1>12. NoClicks => ~Leaving(swapped, "swap")
  BY <1>7, <1>10 DEF Staying, Leaving, SameLeaving
<1> HIDE DEF swapped
<1>13. Flow(OpenInNewTab(swapped, key), "swap")
  BY <1>10, <1>11, <1>12, OpenInNewTabFlow
<1>14. Flow(s, "swap")
  BY IdleSettles
<1> QED
  BY <1>1, <1>4, <1>13, <1>14

-----------------------------------------------------------------------------
(* The inductive invariant: a process that has ended keeps only the part     *)
(* that needs nothing to happen next.                                        *)
FlowInv ==
  /\ TargetScoped(app)
  /\ pc \notin {"closed", "crashed"} => Flow(app, pc)

(* It holds at launch.                                                       *)
LEMMA InitFlow == Init => FlowInv
  BY LaunchedFlow DEF Init, FlowInv, Flow

(* A phase has run, to its end or into the null pointer.                     *)
LEMMA FlowStep ==
  ASSUME FlowInv, NEW from, NEW t, NEW q, Step(from, t, q), Flow(t, q) \/ Crashed(app, t)
  PROVE  FlowInv'
<1>1. TargetScoped(t)
  BY DEF FlowInv, Flow, Crashed, TargetScoped, SameExit
<1>2. app' = t /\ pc' = IF t.nullDeref THEN "crashed" ELSE q
  BY DEF Step
<1>3. CASE Flow(t, q)
  BY <1>1, <1>2, <1>3 DEF FlowInv
<1>4. CASE Crashed(app, t)
  BY <1>1, <1>2, <1>4 DEF FlowInv, Crashed
<1> QED
  BY <1>3, <1>4

(* The frame top. *)
LEMMA FrameTopFlow ==
  ASSUME Inv, FlowInv, FrameTop
  PROVE  FlowInv'
<1>0. Sound(app) /\ (pc \notin {"closed", "crashed"} => Flow(app, pc))
  BY DEF Inv, FlowInv
<1>1. CASE Swap
  <2>1. Step("swap", ExecutePendingSwap(app), "open") /\ pc = "swap"
    BY <1>1 DEF Swap, Step
  <2> QED
    BY <1>0, <2>1, SwapFlow, FlowStep
<1>2. CASE Open
  <2>1. PICK outcome : Step("open", ExecutePendingOpen(app, outcome), "save")
    BY <1>2 DEF Open
  <2>2. Flow(app, "open")
    BY <1>0, <2>1 DEF Step
  <2> QED
    BY <1>0, <2>1, <2>2, OpenFlow, FlowStep
<1>3. CASE Save
  <2>1. PICK saved, m, n : Step("save", ExecutePendingSave(app, saved, m, n), "closePrompt")
    BY <1>3 DEF Save
  <2>2. Flow(app, "save")
    BY <1>0, <2>1 DEF Step
  <2> QED
    BY <1>0, <2>1, <2>2, SaveFlow, FlowStep
<1>4. CASE ClosePrompt
  <2>1. Step("closePrompt", RaiseClosePrompt(app), "remove") /\ pc = "closePrompt"
    BY <1>4 DEF ClosePrompt, Step
  <2> QED
    BY <1>0, <2>1, ClosePromptFlow, FlowStep
<1>5. CASE RemoveTabQueued
  <2>1. Step("remove", RunPendingRemove(app), "saveAll") /\ pc = "remove"
    BY <1>5 DEF RemoveTabQueued, Step
  <2> QED
    BY <1>0, <2>1, RemoveFlow, FlowStep
<1>6. CASE SaveAll
  <2>1. PICK saved, n : Step("saveAll", AdvanceExitSaveAll(app, saved, n), "home")
    BY <1>6 DEF SaveAll
  <2>2. Flow(app, "saveAll")
    BY <1>0, <2>1 DEF Step
  <2> QED
    BY <1>0, <2>1, <2>2, SaveAllFlow, FlowStep
<1>7. CASE Home
  <2>1. CASE app.pendingGoHome
    <3>1. Step("home", [app EXCEPT !.pendingGoHome = FALSE, !.exitTargetIsGoHome = FALSE],
               "closeAll") /\ pc = "home"
      BY <1>7, <2>1 DEF Home, Step
    <3> QED
      BY <1>0, <2>1, <3>1, HomeFlow, FlowStep
  <2>2. CASE ~app.pendingGoHome
    <3>1. Step("home", app, "poll") /\ pc = "home"
      BY <1>7, <2>2 DEF Home, Step
    <3> QED
      BY <1>0, <2>2, <3>1, HomeFlow, FlowStep
  <2> QED
    BY <2>1, <2>2
<1>8. CASE CloseLastTab
  <2>1. Step("closeAll", RemoveTab(app, Len(app.sessions)), "closeAll") /\ pc = "closeAll"
    BY <1>8 DEF CloseLastTab, Step
  <2>2. Len(app.sessions) \in TabIndices(app)
    <3>1. app.sessions \in Seq(Keys) /\ app.sessions # << >>
      BY <1>0, <1>8, FieldTypes DEF CloseLastTab, Sound
    <3>2. Len(app.sessions) \in Nat /\ Len(app.sessions) # 0
      BY <3>1, EmptySeq, LenProperties
    <3> QED
      BY <3>2
  <2> QED
    BY <1>0, <2>1, <2>2, CloseAllFlow, FlowStep
<1>9. CASE GoneHome
  <2>1. Step("closeAll", FinishGoHome(app), "poll") /\ pc = "closeAll"
    BY <1>9 DEF GoneHome, Step
  <2> QED
    BY <1>0, <2>1, GoneHomeFlow, FlowStep
<1> QED
  BY <1>1, <1>2, <1>3, <1>4, <1>5, <1>6, <1>7, <1>8, <1>9 DEF FrameTop

(* The window events, the background results, the keyboard, and no click.    *)
LEMMA EventsFlow ==
  ASSUME Inv, FlowInv, Poll \/ BackgroundResult \/ NoResult \/ CtrlS \/ CtrlShiftS
                       \/ CtrlH \/ NoShortcut \/ NoClick \/ Ended
  PROVE  FlowInv'
<1>0. Sound(app) /\ (pc \notin {"closed", "crashed"} => Flow(app, pc))
  BY DEF Inv, FlowInv
<1>1. CASE Poll
  <2>1. PICK pressed \in BOOLEAN, order \in DirtyTabOrders(app) :
          Step("poll", PollEvents(app, pressed, order),
               IF PollEvents(app, pressed, order).shouldClose THEN "closed" ELSE "async")
    BY <1>1 DEF Poll
  <2> DEFINE t == PollEvents(app, pressed, order)
  <2>2. Flow(app, "poll") /\ app \in AppStates
    BY <1>0, <2>1 DEF Step, Sound
  <2>3. /\ t.exitSaveAllRunning = app.exitSaveAllRunning
        /\ t.exitTargetIsGoHome = app.exitTargetIsGoHome
        /\ t.pendingGoHome = app.pendingGoHome
        /\ t.showExitDirtyModal = app.showExitDirtyModal \/ t.showExitDirtyModal
    BY <2>2, PollEventsDoes DEF ModalShown
  <2>4. ~t.shouldClose => Flow(t, "async")
    BY <1>0, <2>2, PollFlow
  <2>5. Step("poll", t, IF t.shouldClose THEN "closed" ELSE "async")
    BY <2>1
  <2> HIDE DEF t
  <2>6. CASE ~t.shouldClose
    <3>1. Step("poll", t, "async")
      BY <2>5, <2>6
    <3> QED
      BY <2>4, <2>6, <3>1, FlowStep
  <2>7. CASE t.shouldClose
    <3>1. TargetScoped(t)
      BY <2>2, <2>3 DEF Flow, TargetScoped
    <3>2. app' = t /\ pc' \in {"closed", "crashed"}
      BY <2>5, <2>7 DEF Step
    <3> QED
      BY <3>1, <3>2 DEF FlowInv
  <2> QED
    BY <2>6, <2>7
<1>2. CASE BackgroundResult
  <2>1. PICK spoils \in Spoils : Step("async", EditActiveTab(app, spoils), "input")
    BY <1>2 DEF BackgroundResult
  <2>2. Flow(app, "async")
    BY <1>0, <2>1 DEF Step
  <2> QED
    BY <1>0, <2>1, <2>2, BackgroundFlow, FlowStep
<1>3. CASE NoResult
  <2>1. Step("async", app, "input") /\ Flow(app, "async")
    BY <1>0, <1>3 DEF NoResult, Step
  <2>2. \E spoils : spoils \in Spoils
    BY DEF Spoils
  <2>3. Flow(app, "input")
    BY <1>0, <2>1, <2>2, BackgroundFlow
  <2> QED
    BY <2>1, <2>3, FlowStep
<1>4. CASE CtrlS
  <2>1. Step("input", RequestSaveEverything(app), "ui") /\ Flow(app, "input")
    BY <1>0, <1>4 DEF CtrlS, Shortcut, Step
  <2> QED
    BY <1>0, <2>1, ShortcutFlow, FlowStep
<1>5. CASE CtrlShiftS
  <2>1. Step("input", RequestSaveAs(app), "ui") /\ Flow(app, "input")
    BY <1>0, <1>5 DEF CtrlShiftS, Shortcut, Step
  <2> QED
    BY <1>0, <2>1, ShortcutFlow, FlowStep
<1>6. CASE CtrlH
  <2>1. PICK order : Step("input", RequestGoHome(app, order), "ui")
    BY <1>6 DEF CtrlH, Shortcut
  <2>2. Flow(app, "input")
    BY <1>0, <2>1 DEF Step
  <2> QED
    BY <1>0, <2>1, <2>2, GoHomeFlow, FlowStep
<1>7. CASE NoShortcut
  <2>1. Step("input", app, "ui") /\ Flow(app, "input")
    BY <1>0, <1>7 DEF NoShortcut, Step
  <2> QED
    BY <1>0, <2>1, ShortcutFlow, FlowStep
<1>8. CASE NoClick
  <2>1. Step("ui", app, "swap") /\ Flow(app, "ui")
    BY <1>0, <1>8 DEF NoClick, Step
  <2> QED
    BY <2>1, NoClickFlow, FlowStep
<1>9. CASE Ended
  BY <1>9 DEF Ended, vars, FlowInv
<1> QED
  BY <1>1, <1>2, <1>3, <1>4, <1>5, <1>6, <1>7, <1>8, <1>9

(* The answers. *)
LEMMA AnswersFlow ==
  ASSUME Inv, FlowInv, Answers
  PROVE  FlowInv'
<1>0. Sound(app) /\ (pc \notin {"closed", "crashed"} => Flow(app, pc))
  BY DEF Inv, FlowInv
<1>1. ASSUME NEW up, NEW t, Answer(up, t)
      PROVE  up /\ Step("ui", t, "swap") /\ Flow(app, "ui")
  BY <1>0, <1>1 DEF Answer, Step
<1>2. CASE PressSave
  <2>1. PICK saved \in SaveOutcomes, n \in ExperimentSaves(app, ExpIndices(app)),
             outcome \in ProjectOpens, loaded \in UnloadedExperiments(Launched),
             tabs \in ReopenableTabs(app) :
          Answer(UnsavedUp(app), AnswerSave(app, saved, n, outcome, loaded, tabs))
    BY <1>2 DEF PressSave
  <2> DEFINE t == AnswerSave(app, saved, n, outcome, loaded, tabs)
  <2>2. UnsavedUp(app) /\ Step("ui", t, "swap") /\ Flow(app, "ui")
    BY <1>1, <2>1
  <2>3. outcome \in ProjectOutcomes /\ tabs \in Seq(Keys)
    BY OffersTyped, ReopenableTyped
  <2>4. Flow(t, "swap") \/ Crashed(app, t)
    BY <1>0, <2>2, <2>3, AnswerSaveFlow
  <2> HIDE DEF t
  <2> QED
    BY <2>2, <2>4, FlowStep
<1>3. CASE PressDontSave
  <2>1. PICK outcome \in ProjectOpens, loaded \in UnloadedExperiments(Launched),
             tabs \in ReopenableTabs(app) :
          Answer(UnsavedUp(app), AnswerDontSave(app, outcome, loaded, tabs))
    BY <1>3 DEF PressDontSave
  <2> DEFINE t == AnswerDontSave(app, outcome, loaded, tabs)
  <2>2. UnsavedUp(app) /\ Step("ui", t, "swap") /\ Flow(app, "ui")
    BY <1>1, <2>1
  <2>3. outcome \in ProjectOutcomes /\ tabs \in Seq(Keys)
    BY OffersTyped, ReopenableTyped
  <2>4. Flow(t, "swap")
    BY <1>0, <2>2, <2>3, AnswerDontSaveFlow
  <2> HIDE DEF t
  <2> QED
    BY <2>2, <2>4, FlowStep
<1>4. CASE PressCancel
  <2>1. UnsavedUp(app) /\ Step("ui", AnswerCancel(app), "swap") /\ Flow(app, "ui")
    BY <1>1, <1>4 DEF PressCancel
  <2> QED
    BY <1>0, <2>1, AnswerCancelFlow, FlowStep
<1>5. CASE PressStaleDrop
  <2>1. PICK saved \in SaveOutcomes, outcome \in ProjectOpens,
             loaded \in UnloadedExperiments(Launched), tabs \in ReopenableTabs(app) :
          Answer(StaleUp(app), StaleDrop(app, saved, outcome, loaded, tabs))
    BY <1>5 DEF PressStaleDrop
  <2> DEFINE t == StaleDrop(app, saved, outcome, loaded, tabs)
  <2>2. StaleUp(app) /\ Step("ui", t, "swap") /\ Flow(app, "ui")
    BY <1>1, <2>1
  <2>3. outcome \in ProjectOutcomes /\ tabs \in Seq(Keys)
    BY OffersTyped, ReopenableTyped
  <2>4. Flow(t, "swap") \/ Crashed(app, t)
    BY <1>0, <2>2, <2>3, StaleAnswersFlow
  <2> HIDE DEF t
  <2> QED
    BY <2>2, <2>4, FlowStep
<1>6. CASE PressStaleCancel
  <2>1. StaleUp(app) /\ Step("ui", StaleCancel(app), "swap") /\ Flow(app, "ui")
    BY <1>1, <1>6 DEF PressStaleCancel
  <2>2. "opened" \in ProjectOutcomes /\ << >> \in Seq(Keys)
    BY DEF ProjectOutcomes
  <2>3. Flow(StaleCancel(app), "swap") \/ Crashed(app, StaleCancel(app))
    BY <1>0, <2>1, <2>2, StaleAnswersFlow
  <2> QED
    BY <2>1, <2>3, FlowStep
<1>7. CASE PressSaveAll
  <2>1. ExitUp(app) /\ Step("ui", ExitSaveAll(app), "swap") /\ Flow(app, "ui")
    BY <1>1, <1>7 DEF PressSaveAll
  <2> QED
    BY <1>0, <2>1, ExitAnswersFlow, FlowStep
<1>8. CASE PressDiscardAll
  <2>1. ExitUp(app) /\ Step("ui", ExitDiscardAll(app), "swap") /\ Flow(app, "ui")
    BY <1>1, <1>8 DEF PressDiscardAll
  <2> QED
    BY <1>0, <2>1, ExitAnswersFlow, FlowStep
<1>9. CASE PressExitCancel
  <2>1. ExitUp(app) /\ Step("ui", ExitCancel(app), "swap") /\ Flow(app, "ui")
    BY <1>1, <1>9 DEF PressExitCancel
  <2> QED
    BY <1>0, <2>1, ExitAnswersFlow, FlowStep
<1>10. ASSUME DeleteUp(app), Flow(app, "ui") PROVE Idle(app)
  BY <1>10, ClickIdle DEF DeleteUp, ExitUp, StaleUp, UnsavedUp
<1>11. CASE PressDelete
  <2>1. /\ DeleteUp(app) /\ Step("ui", ConfirmExperimentDelete(app), "swap")
        /\ Flow(app, "ui")
    BY <1>1, <1>11 DEF PressDelete
  <2> QED
    BY <1>0, <1>10, <2>1, ExperimentClickFlow, FlowStep
<1>12. CASE PressDeleteCancel
  <2>1. /\ DeleteUp(app) /\ Step("ui", CancelExperimentDelete(app), "swap")
        /\ Flow(app, "ui")
    BY <1>1, <1>12 DEF PressDeleteCancel
  <2> QED
    BY <1>0, <1>10, <2>1, ExperimentClickFlow, FlowStep
<1> QED
  BY <1>2, <1>3, <1>4, <1>5, <1>6, <1>7, <1>8, <1>9, <1>11, <1>12 DEF Answers

(* Where a widget is clicked. *)
LEMMA Clicked ==
  ASSUME Inv, FlowInv, NEW t, Click(t)
  PROVE  Idle(app) /\ Staying(app) /\ Step("ui", t, "swap")
<1>1. pc = "ui" /\ ~ModalUp(app) /\ ("clickInFlow" \in Allowed \/ ~FlowUnderWay)
  BY DEF Click, Step
<1>2. Flow(app, "ui")
  BY <1>1 DEF FlowInv
<1> QED
  BY <1>1, <1>2, WidgetsIdle DEF Click

(* The clicks on the tab strip. *)
LEMMA StripClicksFlow ==
  ASSUME Inv, FlowInv, StripClicks
  PROVE  FlowInv'
<1>0. Sound(app) /\ app \in AppStates
  BY DEF Inv, Sound
<1>1. CASE ClickSessionTab
  <2>1. Idle(app) /\ Step("ui", FocusSessionTab(app), "swap")
    BY <1>1, Clicked DEF ClickSessionTab
  <2> QED
    BY <1>0, <2>1, SessionClickFlow, FlowStep
<1>2. CASE ClickTab
  <2>1. PICK idx : Click(SwapInSession(app, idx))
    BY <1>2 DEF ClickTab
  <2>2. Idle(app) /\ Step("ui", SwapInSession(app, idx), "swap")
    BY <2>1, Clicked
  <2> QED
    BY <1>0, <2>2, SessionClickFlow, FlowStep
<1>3. CASE ClickCloseTab
  <2>1. PICK idx \in TabIndices(app) : Click(CloseTab(app, idx))
    BY <1>3 DEF ClickCloseTab
  <2>2. Idle(app) /\ Staying(app) /\ Step("ui", CloseTab(app, idx), "swap")
    BY <2>1, Clicked
  <2> QED
    BY <1>0, <2>2, CloseTabFlow, FlowStep
<1>4. CASE ClickExperimentTab
  <2>1. PICK idx : Click(ActivateExperiment(app, idx))
    BY <1>4 DEF ClickExperimentTab
  <2>2. Idle(app) /\ Step("ui", ActivateExperiment(app, idx), "swap")
    BY <2>1, Clicked
  <2> QED
    BY <1>0, <2>2, ExperimentClickFlow, FlowStep
<1>5. CASE ClickCloseExperimentTab
  <2>1. PICK idx : Click(CloseRequest(app, idx))
    BY <1>5 DEF ClickCloseExperimentTab
  <2>2. Idle(app) /\ Step("ui", CloseRequest(app, idx), "swap")
    BY <2>1, Clicked
  <2> QED
    BY <1>0, <2>2, ExperimentClickFlow, FlowStep
<1> QED
  BY <1>1, <1>2, <1>3, <1>4, <1>5 DEF StripClicks

(* The other clicks. *)
LEMMA OtherClicksFlow ==
  ASSUME Inv, FlowInv, OtherClicks
  PROVE  FlowInv'
<1>0. Sound(app) /\ app \in AppStates /\ IsApp(app) /\ app.sessions \in Seq(Keys)
  BY FieldsOf, FieldTypes DEF Inv, Sound
<1>1. CASE Edit
  <2>1. PICK spoils \in Spoils : Click(EditActiveTab(app, spoils))
    BY <1>1 DEF Edit
  <2>2. Idle(app) /\ Step("ui", EditActiveTab(app, spoils), "swap")
    BY <2>1, Clicked
  <2> QED
    BY <1>0, <2>2, SessionClickFlow, FlowStep
<1>2. CASE EditExperiment
  <2>1. Idle(app) /\ Step("ui", EditActiveExperiment(app), "swap")
    BY <1>2, Clicked DEF EditExperiment
  <2> QED
    BY <1>0, <2>1, ExperimentClickFlow, FlowStep
<1>3. CASE OpenFile \/ OpenSource
  <2>1. PICK key \in Keys : Click(OpenInNewTab(app, key))
    BY <1>3 DEF OpenFile, OpenSource, Keys
  <2>2. Idle(app) /\ Staying(app) /\ Step("ui", OpenInNewTab(app, key), "swap")
    BY <2>1, Clicked
  <2>3. Flow(OpenInNewTab(app, key), "swap")
    BY <1>0, <2>2, OpenInNewTabFlow DEF Staying
  <2> QED
    BY <2>2, <2>3, FlowStep
<1>4. CASE SaveAs
  <2>1. Idle(app) /\ Staying(app) /\ Step("ui", RequestSaveAs(app), "swap")
    BY <1>4, Clicked DEF SaveAs
  <2> QED
    BY <1>0, <2>1, SaveAsFlow, FlowStep
<1>5. CASE OpenFirstProject
  <2>1. PICK outcome \in ProjectOpens, loaded \in UnloadedExperiments(Launched),
             tabs \in ReopenableTabs(app) :
          LET p == OpenProject(app, outcome, loaded, tabs) IN
          Click(IF outcome # "opened" THEN p
                ELSE [FocusSessionTab(p) EXCEPT !.welcome = FALSE])
    BY <1>5 DEF OpenFirstProject
  <2> DEFINE p == OpenProject(app, outcome, loaded, tabs)
             g == [FocusSessionTab(p) EXCEPT !.welcome = FALSE]
             t == IF outcome # "opened" THEN p ELSE g
  <2>2. Idle(app) /\ Step("ui", t, "swap")
    BY <2>1, Clicked
  <2>3. outcome \in ProjectOutcomes /\ tabs \in Seq(Keys)
    BY OffersTyped, ReopenableTyped
  <2>4. Flow(p, "swap") /\ Flow(g, "swap")
    BY <1>0, <2>2, <2>3, OpenProjectFlow
  <2> HIDE DEF p, g
  <2>5. Flow(t, "swap")
    BY <2>4
  <2> QED
    BY <2>2, <2>5, FlowStep
<1>6. CASE NewEmptyProject
  <2>1. PICK created \in SaveOutcomes, outcome \in ProjectOpens :
          LET p == OpenProject(app, outcome, << >>, << >>) IN
          Click(IF ~created THEN app
                ELSE IF outcome # "opened" THEN p
                ELSE [FocusSessionTab(p) EXCEPT !.welcome = FALSE])
    BY <1>6 DEF NewEmptyProject
  <2> DEFINE p == OpenProject(app, outcome, << >>, << >>)
             g == [FocusSessionTab(p) EXCEPT !.welcome = FALSE]
             t == IF ~created THEN app ELSE IF outcome # "opened" THEN p ELSE g
  <2>2. Idle(app) /\ Step("ui", t, "swap")
    BY <2>1, Clicked
  <2>3. outcome \in ProjectOutcomes /\ << >> \in Seq(Keys)
    BY OffersTyped
  <2>4. Flow(p, "swap") /\ Flow(g, "swap")
    BY <1>0, <2>2, <2>3, OpenProjectFlow
  <2>5. Flow(app, "swap")
    BY <2>2, IdleSettles
  <2> HIDE DEF p, g
  <2>6. Flow(t, "swap")
    BY <2>4, <2>5
  <2> QED
    BY <2>2, <2>6, FlowStep
<1>7. CASE OpenSameProject
  <2>1. PICK loaded \in UnloadedExperiments(app), tabs \in ReopenableTabs(app) :
          LET p == RestoreOpenEmbeddedTabs(LoadExperiments(FocusSessionTab(app), loaded), tabs)
          IN  Click([p EXCEPT !.welcome = FALSE])
    BY <1>7 DEF OpenSameProject
  <2> DEFINE t == [RestoreOpenEmbeddedTabs(LoadExperiments(FocusSessionTab(app), loaded), tabs)
                     EXCEPT !.welcome = FALSE]
  <2>2. Idle(app) /\ Step("ui", t, "swap")
    BY <2>1, Clicked
  <2>3. tabs \in Seq(Keys)
    BY ReopenableTyped
  <2>4. Flow(t, "swap")
    BY <1>0, <2>2, <2>3, OpenSameProjectFlow
  <2> HIDE DEF t
  <2> QED
    BY <2>2, <2>4, FlowStep
<1>8. CASE ReplaceProject
  <2>1. PICK outcome \in ProjectOpens, loaded \in UnloadedExperiments(Launched),
             tabs \in ReopenableTabs(app) :
          Click(RequestReplaceProject(app, outcome, loaded, tabs))
    BY <1>8 DEF ReplaceProject
  <2> DEFINE t == RequestReplaceProject(app, outcome, loaded, tabs)
  <2>2. Idle(app) /\ Staying(app) /\ Step("ui", t, "swap")
    BY <2>1, Clicked
  <2>3. outcome \in ProjectOutcomes /\ tabs \in Seq(Keys)
    BY OffersTyped, ReopenableTyped
  <2>4. Flow(t, "swap")
    BY <1>0, <2>2, <2>3, ReplaceProjectFlow
  <2> HIDE DEF t
  <2> QED
    BY <2>2, <2>4, FlowStep
<1>9. CASE DeleteDataset
  <2>1. PICK key : Click(RemoveDataset(app, key))
    BY <1>9 DEF DeleteDataset
  <2>2. Idle(app) /\ Step("ui", RemoveDataset(app, key), "swap")
    BY <2>1, Clicked
  <2> QED
    BY <1>0, <2>2, RemoveDatasetFlow, FlowStep
<1>10. CASE NewMultiWorkspace
  <2>1. PICK saved \in SaveOutcomes, created \in SaveOutcomes, outcome \in ProjectOpens,
             key \in EmbeddedKeys \ Range(app.sessions) :
          /\ SessionShown /\ CreateSource(app) # 0
          /\ Click(CreateMultiWorkspace(app, saved, created, outcome, key))
    BY <1>10 DEF NewMultiWorkspace
  <2> DEFINE t == CreateMultiWorkspace(app, saved, created, outcome, key)
  <2>2. Idle(app) /\ Staying(app) /\ Step("ui", t, "swap")
    BY <2>1, Clicked
  <2>3. /\ outcome \in ProjectOutcomes /\ key \in Keys
        /\ app.activeTabKind = "Session" /\ CreateSource(app) # 0
    BY <2>1, OffersTyped DEF SessionShown, Keys
  <2>4. Flow(t, "swap")
    BY <1>0, <2>2, <2>3, CreateMultiWorkspaceFlow
  <2> HIDE DEF t
  <2> QED
    BY <2>2, <2>4, FlowStep
<1>11. CASE NewExperiment
  <2>1. PICK e : Click(CreateExperiment(app, e))
    BY <1>11 DEF NewExperiment
  <2>2. Idle(app) /\ Step("ui", CreateExperiment(app, e), "swap")
    BY <2>1, Clicked
  <2> QED
    BY <1>0, <2>2, ExperimentClickFlow, FlowStep
<1>12. CASE ClickExperimentRow
  <2>1. PICK idx : Click(ActivateExperiment(app, idx))
    BY <1>12 DEF ClickExperimentRow
  <2>2. Idle(app) /\ Step("ui", ActivateExperiment(app, idx), "swap")
    BY <2>1, Clicked
  <2> QED
    BY <1>0, <2>2, ExperimentClickFlow, FlowStep
<1>13. CASE DeleteExperiment
  <2>1. PICK idx \in ExpIndices(app) : Click(RequestDelete(app, idx))
    BY <1>13 DEF DeleteExperiment
  <2>2. Idle(app) /\ Step("ui", RequestDelete(app, idx), "swap") /\ idx \in Nat
    BY <1>0, <2>1, Clicked, FieldTypes
  <2> QED
    BY <1>0, <2>2, ExperimentClickFlow, FlowStep
<1> QED
  BY <1>1, <1>2, <1>3, <1>4, <1>5, <1>6, <1>7, <1>8, <1>9, <1>10, <1>11, <1>12, <1>13
  DEF OtherClicks

(* Every step keeps the invariant. *)
LEMMA NextFlow == Inv /\ FlowInv /\ [Next]_vars => FlowInv'
<1>1. ASSUME Inv, FlowInv, Next PROVE FlowInv'
  BY <1>1, FrameTopFlow, EventsFlow, AnswersFlow, StripClicksFlow, OtherClicksFlow DEF Next
<1>2. ASSUME FlowInv, UNCHANGED vars PROVE FlowInv'
  BY <1>2 DEF vars, FlowInv
<1> QED
  BY <1>1, <1>2

(* The invariant of the prompts holds whatever the environment may do.       *)
THEOREM FlowInvariance == Spec => []FlowInv
<1> QED
  BY InitFlow, NextFlow, Invariance, PTL DEF Spec

(* A file is loaded into the tab made for it, whatever the user and the      *)
(* background do between the click and the frame that loads it.              *)
THEOREM OpenIsTargeted == Spec => []OpenLandsInItsTab
<1>1. FlowInv => OpenLandsInItsTab
  BY DEF FlowInv, Flow, Opening, OpenLandsInItsTab
<1> QED
  BY <1>1, FlowInvariance, PTL

(* Going home is the target of the exit modal only in the flow Ctrl+H began. *)
THEOREM GoHomeScoped == Spec => []GoHomeTargetScoped
<1>1. FlowInv => GoHomeTargetScoped
  BY DEF FlowInv, TargetScoped, GoHomeTargetScoped
<1> QED
  BY <1>1, FlowInvariance, PTL

(* Every close and every action that waits has its prompt.  Of the freedoms  *)
(* of the environment only two together break this: results that go stale,   *)
(* and clicks while Save All moves from tab to tab.                          *)
THEOREM NothingWaitsUnseen ==
  ASSUME NoSpoils \/ NoClicks
  PROVE  Spec => []WaitingHasPrompt
<1>1. FlowInv => WaitingHasPrompt
  BY DEF FlowInv, Flow, Waits, TargetScoped, WaitingHasPrompt, GoHomeTargetScoped
<1> QED
  BY <1>1, FlowInvariance, PTL

(* The prompt about closing a tab is about the tab on screen: what Save      *)
(* writes is what the prompt names.                                          *)
THEOREM PromptNamesItsTab ==
  ASSUME NoClicks
  PROVE  Spec => []PromptShowsTabBeingClosed
<1>1. FlowInv => PromptShowsTabBeingClosed
  BY DEF FlowInv, Flow, Located, PromptShowsTabBeingClosed
<1> QED
  BY <1>1, FlowInvariance, PTL

-----------------------------------------------------------------------------
(* What is dirty, stale or to be lost                                        *)

TabKeys(s) == {s.sessions[i] : i \in TabIndices(s)}

(* No close is asked for while a prompt or flow is up. *)
NoDeferral == "closeDuringFlow" \notin Allowed

(* There are no experiments and nothing gets dirty while the tabs are saved  *)
(* or discarded.                                                             *)
Thorough == ExpIds = {} /\ "lateEdit" \notin Allowed

(* What is known of a tab is known of one that is open; only a stale result  *)
(* can be stale in the file.                                                 *)
TabsOK(s) ==
  /\ s.dirty \subseteq TabKeys(s) /\ s.stale \subseteq TabKeys(s)
  /\ s.staleOnDisk \subseteq s.stale

(* The tab to be removed next has no changes to lose, nor has the one to be  *)
(* loaded next.                                                              *)
Going(s) ==
  /\ s.pendingRemoveIdx # 0 => s.sessions[s.pendingRemoveIdx] \notin s.dirty \ s.consent
  /\ s.pendingOpen \notin s.dirty

(* Save As is for the tab that was active when it was asked for, none of     *)
(* whose results were stale.                                                 *)
SaveAsOK(s, p) ==
  s.pendingSaveKind = "Workspace" =>
    /\ p \in {"ui", "swap", "open", "save"} /\ s.active # NoTab /\ s.active \notin s.stale
    /\ NoSwitch(s) /\ s.pendingOpen = NoTab /\ s.pendingWorkspaceAction = "None"

(* The program closes after the exit modal and Save All. *)
OneExit(s) == s.shouldClose => ~s.showExitDirtyModal /\ ~s.exitSaveAllRunning

(* Without experiments no tab has the index of the active one but that one.  *)
Kinds(s) ==
  s.activeTabKind # "Experiment" /\ (s.activeTabKind = "Session" => s.activeSessionIdx = 0)

(* The tabs on the list behind position c. *)
Ahead(s, c) == {s.sessions[s.exitDirtyTabs[n]] : n \in c + 1 .. Len(s.exitDirtyTabs)}

(* Every dirty tab is on the list of the exit modal, ahead of the cursor of  *)
(* Save All; when the way home is free none is left.                         *)
Covered(s, p) ==
  /\ s.showExitDirtyModal => s.dirty \subseteq Ahead(s, 0)
  /\ s.exitSaveAllRunning => s.dirty \subseteq Ahead(s, s.exitSaveAllCursor)
  /\ s.pendingGoHome \/ p = "closeAll" => s.dirty = {}
  /\ s.lost \cap Keys = {}

(* The invariant of the record s in which the phase p runs next.             *)
Keeps(s, p) ==
  /\ TabsOK(s) /\ Going(s) /\ SaveAsOK(s, p) /\ OneExit(s)
  /\ ExpIds = {} => Kinds(s)
  /\ Thorough => Covered(s, p)
  /\ NoDeferral => ~s.exitDeferredClose

(* What phase p may do to stale results and to unsaved changes. *)
Spares(s, p, t) ==
  /\ (s.staleOnDisk \ t.staleOnDisk) \cap TabKeys(t) # {} =>
       s.showStaleDropPrompt \/ s.exitSaveAllRunning \/ p = "open"
  /\ (t.lost \ s.lost) \cap Keys # {} => p = "closeAll"

(* No tab has gone or become dirty, and nothing of a tab was lost.           *)
SameTabLosses(s, t) == t.consent \cap Keys = s.consent \cap Keys /\ t.lost \cap Keys = s.lost \cap Keys

MoreKeys(s, t) == \A i \in TabIndices(s) : i \in TabIndices(t) /\ t.sessions[i] = s.sessions[i]

Unharmed(s, t) ==
  /\ MoreKeys(s, t) /\ t.dirty \subseteq s.dirty /\ t.stale = s.stale
  /\ t.staleOnDisk \subseteq s.staleOnDisk \cup s.stale
  /\ s.consent \cap Keys \subseteq t.consent /\ t.lost \cap Keys = s.lost \cap Keys

(* Without experiments the active tab is of the same kind. *)
SameKind(s, t) ==
  /\ t.activeSessionIdx = s.activeSessionIdx
  /\ s.activeTabKind # "Experiment" => t.activeTabKind = s.activeTabKind

(* A tab that is left alone is one still. *)
LEMMA KeysKept ==
  ASSUME NEW s, NEW t, MoreKeys(s, t)
  PROVE  TabKeys(s) \subseteq TabKeys(t)
  BY DEF MoreKeys, TabKeys

(* The open tabs have keys of their own, and the active one is among them.   *)
LEMMA TabKeysTyped ==
  ASSUME NEW s, Sound(s)
  PROVE  /\ TabKeys(s) = Range(s.sessions) /\ TabKeys(s) \subseteq Keys /\ NoTab \notin TabKeys(s)
         /\ \A i \in TabIndices(s) : s.sessions[i] \in TabKeys(s) /\ s.sessions[i] \in Keys
         /\ s.active # NoTab => s.active \in TabKeys(s)
<1>1. /\ s.sessions \in Seq(Keys) /\ Len(s.sessions) \in Nat
      /\ \A i \in TabIndices(s) : s.sessions[i] \in Keys
  BY FieldTypes DEF Sound
<1>2. DOMAIN s.sessions = TabIndices(s)
  BY <1>1, LenProperties
<1>3. TabKeys(s) \subseteq Keys
  BY <1>1 DEF TabKeys
<1>4. s.active # NoTab => s.active \in TabKeys(s)
  BY DEF Sound, ActiveTab, TabKeys
<1> QED
  BY <1>1, <1>2, <1>3, <1>4, NoTabAssumption DEF TabKeys, Range

(* What is known of the tabs is still of open ones.                          *)
LEMMA UnharmedTabs ==
  ASSUME NEW s, NEW t, TabsOK(s), Unharmed(s, t)
  PROVE  TabsOK(t)
<1>1. TabKeys(s) \subseteq TabKeys(t)
  BY KeysKept DEF Unharmed
<1> QED
  BY <1>1 DEF TabsOK, Unharmed

(* What was to go, or to come, still has nothing to lose.                    *)
LEMMA UnharmedGoing ==
  ASSUME NEW s, NEW t, Sound(s), TabsOK(s), Going(s), Unharmed(s, t),
         t.pendingOpen \in {NoTab, s.pendingOpen}, t.pendingRemoveIdx \in {0, s.pendingRemoveIdx}
  PROVE  Going(t)
<1>1. NoTab \notin s.dirty
  BY TabKeysTyped DEF TabsOK
<1>2. ASSUME s.pendingRemoveIdx # 0, t.pendingRemoveIdx = s.pendingRemoveIdx
      PROVE  t.sessions[t.pendingRemoveIdx] \notin t.dirty \ t.consent
  <2>1. s.pendingRemoveIdx \in TabIndices(s)
    BY <1>2, FieldTypes DEF Sound, TabQueues
  <2>2. t.sessions[t.pendingRemoveIdx] = s.sessions[s.pendingRemoveIdx]
        /\ s.sessions[s.pendingRemoveIdx] \in Keys
    BY <1>2, <2>1, TabKeysTyped DEF Unharmed, MoreKeys
  <2> QED
    BY <1>2, <2>2 DEF Going, Unharmed
<1> QED
  BY <1>1, <1>2 DEF Going, Unharmed

(* The program is being left as before, and no close waits that did not.     *)
SameLeave(s, t) ==
  /\ t.showExitDirtyModal = s.showExitDirtyModal
  /\ t.exitSaveAllRunning = s.exitSaveAllRunning
  /\ t.exitSaveAllCursor = s.exitSaveAllCursor /\ t.exitDirtyTabs = s.exitDirtyTabs
  /\ t.pendingGoHome = s.pendingGoHome /\ t.shouldClose = s.shouldClose
  /\ t.exitDeferredClose => s.exitDeferredClose

(* So does the record in which the exit flow is left alone.                  *)
LEMMA SameExitLeaves ==
  ASSUME NEW s, NEW t, SameExit(s, t)
  PROVE  SameLeave(s, t)
  BY DEF SameExit, SameLeave

(* The list of Save All is that of the same tabs.                            *)
LEMMA SameAhead ==
  ASSUME NEW s, NEW t, Sound(s), MoreKeys(s, t), t.exitDirtyTabs = s.exitDirtyTabs,
         NEW c \in Nat
  PROVE  Ahead(t, c) = Ahead(s, c)
<1>1. \A n \in 1 .. Len(s.exitDirtyTabs) : s.exitDirtyTabs[n] \in TabIndices(s)
  BY DEF Sound, WorkList, ListsTabs
<1>2. Len(s.exitDirtyTabs) \in Nat
  BY FieldTypes DEF Sound
<1>3. c + 1 .. Len(s.exitDirtyTabs) \subseteq 1 .. Len(s.exitDirtyTabs)
  BY <1>2
<1>4. \A n \in c + 1 .. Len(s.exitDirtyTabs) :
        t.sessions[s.exitDirtyTabs[n]] = s.sessions[s.exitDirtyTabs[n]]
  BY <1>1, <1>3 DEF MoreKeys
<1> QED
  BY <1>4 DEF Ahead

(* The flows that leave the program go on as they were.                      *)
LEMMA SameLeaveKept ==
  ASSUME NEW s, NEW p, NEW t, NEW q, Sound(s), Keeps(s, p), Unharmed(s, t), SameLeave(s, t),
         q = "closeAll" => p = "closeAll"
  PROVE  /\ OneExit(t) /\ (NoDeferral => ~t.exitDeferredClose)
         /\ Thorough => Covered(t, q)
<1>1. s.exitSaveAllCursor \in Nat
  BY FieldTypes DEF Sound
<1>2. /\ Ahead(t, 0) = Ahead(s, 0)
      /\ Ahead(t, s.exitSaveAllCursor) = Ahead(s, s.exitSaveAllCursor)
  BY <1>1, SameAhead DEF Unharmed, SameLeave
<1>3. Thorough => Covered(t, q)
  BY <1>2 DEF Keeps, Covered, Unharmed, SameLeave
<1> QED
  BY <1>3 DEF Keeps, OneExit, SameLeave

(* Without experiments the active tab stays of a kind.                       *)
LEMMA SameKindKept ==
  ASSUME NEW s, NEW t, Kinds(s), SameKind(s, t)
  PROVE  Kinds(t)
  BY DEF Kinds, SameKind

(* Nothing went that this step may not take. *)
LEMMA UnharmedSpares ==
  ASSUME NEW s, NEW p, NEW t, Unharmed(s, t),
         s.staleOnDisk \subseteq t.staleOnDisk
         \/ s.showStaleDropPrompt \/ s.exitSaveAllRunning \/ p = "open"
  PROVE  Spares(s, p, t)
  BY DEF Unharmed, Spares

(* The phase p took the record s to t, and q runs next.                      *)
Kept(s, p, t, q) == Keeps(t, q) /\ Spares(s, p, t)

(* A step that harms no tab keeps the invariant if it keeps what the         *)
(* invariant says of leaving the program.                                    *)
LEMMA UnharmedKept ==
  ASSUME NEW s, NEW p, NEW t, NEW q, Sound(s), Keeps(s, p), Unharmed(s, t),
         ExpIds = {} /\ Kinds(s) => Kinds(t),
         t.pendingOpen \in {NoTab, s.pendingOpen},
         t.pendingRemoveIdx \in {0, s.pendingRemoveIdx}, SaveAsOK(t, q),
         OneExit(t), NoDeferral => ~t.exitDeferredClose, Thorough => Covered(t, q),
         s.staleOnDisk \subseteq t.staleOnDisk
         \/ s.showStaleDropPrompt \/ s.exitSaveAllRunning \/ p = "open"
  PROVE  Kept(s, p, t, q)
<1>1. TabsOK(s) /\ Going(s) /\ (ExpIds = {} => Kinds(s))
  BY DEF Keeps
<1>2. TabsOK(t) /\ Going(t)
  BY <1>1, UnharmedTabs, UnharmedGoing
<1>3. Keeps(t, q)
  BY <1>1, <1>2 DEF Keeps
<1> QED
  BY <1>3, UnharmedSpares DEF Kept

(* As the last lemma, when that is left alone. *)
LEMMA QuietKept ==
  ASSUME NEW s, NEW p, NEW t, NEW q, Sound(s), Keeps(s, p), Unharmed(s, t), SameLeave(s, t),
         ExpIds = {} /\ Kinds(s) => Kinds(t), q = "closeAll" => p = "closeAll",
         t.pendingOpen \in {NoTab, s.pendingOpen},
         t.pendingRemoveIdx \in {0, s.pendingRemoveIdx}, SaveAsOK(t, q),
         s.staleOnDisk \subseteq t.staleOnDisk
         \/ s.showStaleDropPrompt \/ s.exitSaveAllRunning \/ p = "open"
  PROVE  Kept(s, p, t, q)
  BY SameLeaveKept, UnharmedKept

(* The tab of a Save As stays the active one. *)
LEMMA SaveAsKept ==
  ASSUME NEW s, NEW p, NEW t, NEW q, SaveAsOK(s, p),
         t.pendingSaveKind = "Workspace" => s.pendingSaveKind = "Workspace",
         t.active = s.active, t.stale = s.stale, SameSwitch(s, t),
         t.pendingOpen = s.pendingOpen,
         t.pendingWorkspaceAction \in {"None", s.pendingWorkspaceAction},
         q \in {"ui", "swap", "open", "save"} \/ p \notin {"ui", "swap", "open", "save"}
  PROVE  SaveAsOK(t, q)
  BY DEF SaveAsOK, SameSwitch, NoSwitch, SwitchTo

(* No Save As is asked for. *)
LEMMA NoSaveAs ==
  ASSUME NEW t, NEW q, t.pendingSaveKind # "Workspace"
  PROVE  SaveAsOK(t, q)
  BY DEF SaveAsOK

(* Records that have the same tabs and content. *)
LEMMA SameIsUnharmed ==
  ASSUME NEW s, NEW t, t.sessions = s.sessions, t.dirty \subseteq s.dirty, t.stale = s.stale,
         t.staleOnDisk \subseteq s.staleOnDisk \cup s.stale, SameTabLosses(s, t)
  PROVE  Unharmed(s, t)
  BY DEF Unharmed, MoreKeys, SameTabLosses

(* A record with the same losses has those of the tabs. *)
LEMMA SameLossesOfTabs ==
  ASSUME NEW s, NEW t, SameLosses(s, t)
  PROVE  SameTabLosses(s, t)
  BY DEF SameLosses, SameTabLosses

(* A record with the same tabs has the same kind of active tab. *)
LEMMA SameTabsKind ==
  ASSUME NEW s, NEW t, SameTabs(s, t)
  PROVE  SameKind(s, t)
  BY DEF SameTabs, SameKind

(* Two harmless steps are one.                                               *)
LEMMA UnharmedTransitive ==
  ASSUME NEW s, NEW t, NEW u, Unharmed(s, t), Unharmed(t, u)
  PROVE  Unharmed(s, u)
  BY DEF Unharmed, MoreKeys

(* Two steps that leave the leaving alone are one. *)
LEMMA SameLeaveTransitive ==
  ASSUME NEW s, NEW t, NEW u, SameLeave(s, t), SameLeave(t, u)
  PROVE  SameLeave(s, u)
  BY DEF SameLeave

(* A record that differs in prompts only: the rest is harmless.              *)
LEMMA PromptsUnharmed ==
  ASSUME NEW s, NEW t, SameButPrompts(s, t)
  PROVE  Unharmed(s, t) /\ SameLeave(s, t) /\ SameKind(s, t) /\ t.staleOnDisk = s.staleOnDisk
<1>1. SameTabLosses(s, t) /\ SameLeave(s, t) /\ SameKind(s, t)
  BY SameLossesOfTabs, SameExitLeaves, SameTabsKind DEF SameButPrompts
<1>2. Unharmed(s, t)
  BY <1>1, SameIsUnharmed DEF SameButPrompts, SameTabs, SameData
<1> QED
  BY <1>1, <1>2 DEF SameButPrompts, SameData

(* So is one whose queued switch is another. *)
LEMMA SwitchUnharmed ==
  ASSUME NEW s, NEW t, SameButSwitch(s, t)
  PROVE  /\ Unharmed(s, t) /\ SameLeave(s, t) /\ SameKind(s, t)
         /\ t.staleOnDisk = s.staleOnDisk /\ t.pendingOpen = s.pendingOpen
         /\ t.pendingRemoveIdx = s.pendingRemoveIdx /\ t.pendingSaveKind = s.pendingSaveKind
<1>1. SameTabLosses(s, t) /\ SameLeave(s, t) /\ SameKind(s, t)
  BY SameLossesOfTabs, SameExitLeaves, SameTabsKind DEF SameButSwitch
<1>2. Unharmed(s, t)
  BY <1>1, SameIsUnharmed DEF SameButSwitch, SameTabs, SameData
<1> QED
  BY <1>1, <1>2 DEF SameButSwitch, SameData, SamePrompts

-----------------------------------------------------------------------------
(* The frame top *)

(* Without experiments the queued switch leads to none. *)
LEMMA SwapKinds ==
  ASSUME NEW s, Sound(s), ExpIds = {}, Kinds(s)
  PROVE  Kinds(ExecutePendingSwap(s))
<1>1. s.pendingExperimentIdx = 0
  <2>1. s.experiments \in Seq({})
    BY FieldTypes DEF Sound
  <2>2. Len(s.experiments) = 0
    <3>1. Len(s.experiments) \in Nat /\ \A i \in 1 .. Len(s.experiments) : s.experiments[i] \in {}
      BY <2>1, FieldTypes DEF Sound
    <3> QED
      BY <3>1
  <2> QED
    BY <2>2 DEF Sound, ExperimentQueues
<1>2. IsApp(s)
  BY FieldsOf DEF Sound
<1> QED
  BY <1>1, <1>2 DEF ExecutePendingSwap, Kinds, IsApp, AppFields

(* The queued switch. *)
LEMMA SwapKept ==
  ASSUME NEW s, Sound(s), Keeps(s, "swap")
  PROVE  Kept(s, "swap", ExecutePendingSwap(s), "open")
<1> DEFINE t == ExecutePendingSwap(s)
<1>1. IsApp(s) /\ Len(s.sessions) \in Nat
  BY FieldsOf, FieldTypes DEF Sound
<1>2. /\ SamePrompts(s, t) /\ SameExit(s, t) /\ SameData(s, t)
      /\ SameLosses(s, t) /\ NoSwitch(t) /\ t.sessions = s.sessions
      /\ NoSwitch(s) => SameTabs(s, t)
  BY <1>1, ExecutePendingSwapDoes
<1>3. ExpIds = {} /\ Kinds(s) => Kinds(t)
  BY SwapKinds
<1> HIDE DEF t
<1>4. Unharmed(s, t) /\ SameLeave(s, t)
  BY <1>2, SameIsUnharmed, SameLossesOfTabs, SameExitLeaves DEF SameData
<1>5. SaveAsOK(t, "open")
  BY <1>2 DEF Keeps, SaveAsOK, SameData, SameTabs, SamePrompts
<1>6. Kept(s, "swap", t, "open")
  BY <1>2, <1>3, <1>4, <1>5, QuietKept DEF SameData, SamePrompts
<1> QED
  BY <1>6 DEF t

(* The elements that are left when one of a list of distinct ones is removed.*)
LEMMA RemoveAtRange ==
  ASSUME NEW S, NEW v \in Seq(S), NEW i \in 1 .. Len(v),
         \A m, n \in 1 .. Len(v) : v[m] = v[n] => m = n
  PROVE  LET r == RemoveAt(v, i) IN
         {r[m] : m \in 1 .. Len(r)} = {v[m] : m \in 1 .. Len(v)} \ {v[i]}
<1> DEFINE r == RemoveAt(v, i)
<1>1. Len(r) = Len(v) - 1 /\ Len(v) \in Nat
  BY RemoveAtElements, LenProperties
<1>2. \A j \in 1 .. Len(v) - 1 : r[j] = IF j < i THEN v[j] ELSE v[j + 1]
  BY RemoveAtElements
<1>3. /\ \A m \in 1 .. Len(r) : r[m] # v[i]
      /\ \A m \in 1 .. Len(v) : m # i =>
           /\ Reindex(m, i) \in 1 .. Len(r)
           /\ r[Reindex(m, i)] = v[m]
  BY RemoveAtDistinct
<1> HIDE DEF r
<1>4. \A m \in 1 .. Len(r) : \E n \in 1 .. Len(v) : r[m] = v[n]
  BY <1>1, <1>2
<1>5. {r[m] : m \in 1 .. Len(r)} \subseteq {v[m] : m \in 1 .. Len(v)} \ {v[i]}
  BY <1>3, <1>4
<1>6. {v[m] : m \in 1 .. Len(v)} \ {v[i]} \subseteq {r[m] : m \in 1 .. Len(r)}
  BY <1>3
<1>7. {r[m] : m \in 1 .. Len(r)} = {v[m] : m \in 1 .. Len(v)} \ {v[i]}
  BY <1>5, <1>6
<1> QED
  BY <1>7 DEF r

(* A tab goes with nothing to lose, or as the others do when the program     *)
(* goes home.                                                                *)
LEMMA RemovalKept ==
  ASSUME NEW s, IsApp(s), s.sessions \in Seq(Keys), KeysUnique(s), NEW p, NEW q,
         NEW idx \in TabIndices(s), TabsOK(s), s.pendingRemoveIdx = 0,
         s.pendingOpen \notin s.dirty, OneExit(s), ExpIds = {} => Kinds(s),
         NoDeferral => ~s.exitDeferredClose, s.pendingSaveKind # "Workspace",
         s.sessions[idx] \notin s.dirty \ s.consent \/ p = "closeAll",
         p = "closeAll" => q = "closeAll",
         Thorough => s.lost \cap Keys = {} /\ (~Leaving(s, q) \/ s.dirty = {})
  PROVE  LET t == RemoveTab(s, idx) IN
         /\ Kept(s, p, t, q)
         /\ TabKeys(t) \subseteq TabKeys(s) /\ s.sessions[idx] \notin TabKeys(t)
<1> DEFINE t == RemoveTab(s, idx)
           key == s.sessions[idx]
<1>1. /\ t.sessions = RemoveAt(s.sessions, idx) /\ t.activeTabKind = s.activeTabKind
      /\ t.activeSessionIdx = Reindex(s.activeSessionIdx, idx)
      /\ t.dirty = s.dirty \ {key} /\ t.stale = s.stale \ {key}
      /\ t.staleOnDisk = s.staleOnDisk \ {key} /\ t.pendingSaveKind = s.pendingSaveKind
      /\ t.lost = s.lost \cup (({key} \cap s.dirty) \ s.consent)
      /\ t.pendingOpen = s.pendingOpen
      /\ t.pendingRemoveIdx = Reindex(s.pendingRemoveIdx, idx)
      /\ t.showExitDirtyModal = s.showExitDirtyModal
      /\ t.exitSaveAllRunning = s.exitSaveAllRunning
      /\ t.pendingGoHome = s.pendingGoHome /\ t.shouldClose = s.shouldClose
      /\ t.exitDeferredClose = s.exitDeferredClose
  BY RemoveTabDoes
<1> HIDE DEF t
<1>2. Len(s.sessions) \in Nat /\ \A m, n \in 1 .. Len(s.sessions) :
        s.sessions[m] = s.sessions[n] => m = n
  BY LenProperties DEF KeysUnique
<1>3. TabKeys(t) = TabKeys(s) \ {key}
  <2> DEFINE v == s.sessions
  <2>1. v \in Seq(Keys) /\ idx \in 1 .. Len(v)
        /\ \A m, n \in 1 .. Len(v) : v[m] = v[n] => m = n
    BY <1>2
  <2>2. t.sessions = RemoveAt(v, idx) /\ key = v[idx]
    BY <1>1
  <2>3. TabKeys(s) = {v[m] : m \in 1 .. Len(v)}
    BY DEF TabKeys
  <2>4. TabKeys(t) = {RemoveAt(v, idx)[m] : m \in 1 .. Len(RemoveAt(v, idx))}
    BY <2>2 DEF TabKeys
  <2> HIDE DEF v
  <2>5. TabKeys(t) = TabKeys(s) \ {v[idx]}
    BY <2>1, <2>3, <2>4, RemoveAtRange
  <2> QED
    BY <2>2, <2>5
<1>4. TabKeys(t) \subseteq TabKeys(s) /\ key \notin TabKeys(t)
  BY <1>3
<1>5. TabKeys(s) \ {key} \subseteq TabKeys(t)
  BY <1>3
<1>6. TabsOK(t)
  BY <1>1, <1>5 DEF TabsOK
<1>7. Reindex(0, idx) = 0
  BY <1>2 DEF Reindex
<1>8. Going(t) /\ SaveAsOK(t, q) /\ OneExit(t) /\ (ExpIds = {} => Kinds(t))
      /\ (NoDeferral => ~t.exitDeferredClose)
  BY <1>1, <1>7 DEF Going, SaveAsOK, OneExit, Kinds
<1>9. p # "closeAll" => t.lost = s.lost
  BY <1>1
<1>10. Thorough => t.lost = s.lost
  <2>1. Thorough /\ s.dirty = {} => t.lost = s.lost
    BY <1>1
  <2> QED
    BY <1>9, <2>1 DEF Leaving, Thorough
<1>11. Thorough => Covered(t, q)
  <2>1. Thorough /\ s.dirty = {} => t.dirty = {}
    BY <1>1
  <2> QED
    BY <1>1, <1>10, <2>1 DEF Covered, Leaving
<1>12. Spares(s, p, t)
  BY <1>1, <1>4, <1>9 DEF Spares
<1> QED
  BY <1>4, <1>6, <1>8, <1>11, <1>12 DEF Kept, Keeps, t

(* What is known of the record s in phase p, if nobody clicks in a flow.     *)
Known(s, p) == NoClicks /\ Sound(s) /\ Flow(s, p) /\ Keeps(s, p)

(* Its parts. *)
LEMMA KnownParts ==
  ASSUME NEW s, NEW p, Known(s, p)
  PROVE  /\ Sound(s) /\ s \in AppStates /\ IsApp(s) /\ s.sessions \in Seq(Keys)
         /\ KeysUnique(s) /\ ActiveTab(s)
         /\ Opening(s, p) /\ Waits(s, p) /\ Located(s, p)
         /\ Keeps(s, p) /\ TabsOK(s) /\ Going(s) /\ SaveAsOK(s, p) /\ OneExit(s)
         /\ (ExpIds = {} => Kinds(s)) /\ (Thorough => Covered(s, p) /\ ExpIds = {})
         /\ (NoDeferral => ~s.exitDeferredClose)
  BY FieldsOf, FieldTypes DEF Known, Sound, Flow, Keeps, Thorough

(* A tab is loaded, left blank or removed again. *)
LEMMA OpenKept ==
  ASSUME NEW s, Known(s, "open"), NEW outcome
  PROVE  LET t == ExecutePendingOpen(s, outcome) IN
         Crashed(s, t) \/ Kept(s, "open", t, "save")
<1> DEFINE t == ExecutePendingOpen(s, outcome)
<1>0. /\ Sound(s) /\ IsApp(s) /\ s.sessions \in Seq(Keys) /\ KeysUnique(s) /\ ActiveTab(s)
      /\ Keeps(s, "open") /\ Opening(s, "open") /\ Waits(s, "open") /\ Located(s, "open")
      /\ TabsOK(s) /\ Going(s) /\ SaveAsOK(s, "open") /\ OneExit(s)
      /\ (ExpIds = {} => Kinds(s)) /\ (Thorough => Covered(s, "open"))
      /\ (NoDeferral => ~s.exitDeferredClose)
  BY KnownParts
<1>1. \/ Crashed(s, t)
      \/ OpenTaken(s, t)
      \/ s.pendingOpen # NoTab /\ TabLoaded(s, t) /\ s.active # NoTab
      \/ \E r : /\ s.pendingOpen # NoTab /\ OpenTaken(s, r)
                /\ t = [RemoveTab(r, r.activeSessionIdx) EXCEPT !.activeTabKind = "Session"]
  BY <1>0, ExecutePendingOpenDoes
<1>2. s.pendingOpen # NoTab =>
        /\ s.active = s.pendingOpen /\ s.pendingRemoveIdx = 0 /\ ~Leaving(s, "open")
        /\ s.pendingSaveKind # "Workspace" /\ s.active \notin s.dirty
  BY <1>0 DEF Opening, Waits, Located, NothingWaits, SaveAsOK, Going
<1> HIDE DEF t
<1>3. ASSUME NEW r, OpenTaken(s, r)
      PROVE  Kept(s, "open", r, "save") /\ TabsOK(r)
  <2>1. Unharmed(s, r) /\ SameLeave(s, r) /\ SameKind(s, r) /\ r.staleOnDisk = s.staleOnDisk
    BY <1>3, PromptsUnharmed DEF OpenTaken
  <2>2. SaveAsOK(r, "save")
    BY <1>0, <1>3
    DEF OpenTaken, SaveAsOK, SameButPrompts, SameTabs, SameData, SameSwitch, NoSwitch, SwitchTo,
        SameQuestions
  <2>3. Kept(s, "open", r, "save")
    BY <1>0, <1>3, <2>1, <2>2, SameKindKept, QuietKept DEF OpenTaken, SameCloses
  <2> QED
    BY <2>3 DEF Kept, Keeps
<1>4. ASSUME TabLoaded(s, t), s.pendingOpen # NoTab PROVE Kept(s, "open", t, "save")
  <2>1. TabsOK(t)
    BY <1>0, <1>4 DEF TabsOK, TabLoaded, SameTabs, TabKeys
  <2>2. Going(t)
    <3>1. NoTab \notin t.dirty
      BY <1>0, <1>4, TabKeysTyped DEF TabsOK, TabLoaded
    <3> QED
      BY <1>2, <1>4, <3>1 DEF Going, TabLoaded, SameCloses
  <2>3. SaveAsOK(t, "save") /\ OneExit(t) /\ (ExpIds = {} => Kinds(t))
        /\ (NoDeferral => ~t.exitDeferredClose)
    BY <1>0, <1>2, <1>4 DEF SaveAsOK, OneExit, Kinds, TabLoaded, SameExit, SameTabs
  <2>4. Thorough => Covered(t, "save")
    BY <1>0, <1>2, <1>4 DEF Covered, Leaving, TabLoaded, SameExit
  <2>5. Spares(s, "open", t)
    BY <1>4 DEF Spares, TabLoaded
  <2> QED
    BY <2>1, <2>2, <2>3, <2>4, <2>5 DEF Kept, Keeps
<1>5. ASSUME NEW r, s.pendingOpen # NoTab, OpenTaken(s, r),
             t = [RemoveTab(r, r.activeSessionIdx) EXCEPT !.activeTabKind = "Session"]
      PROVE  Kept(s, "open", t, "save")
  <2> DEFINE u == RemoveTab(r, r.activeSessionIdx)
  <2>1. /\ IsApp(r) /\ r.sessions = s.sessions /\ r.active = s.active
        /\ r.activeTabKind = s.activeTabKind /\ r.activeSessionIdx = s.activeSessionIdx
        /\ r.dirty = s.dirty /\ r.staleOnDisk = s.staleOnDisk
        /\ r.pendingSaveKind = s.pendingSaveKind /\ r.pendingOpen = NoTab
        /\ r.pendingRemoveIdx = s.pendingRemoveIdx /\ r.lost = s.lost
        /\ SameLeaving(s, r)
    BY <1>5 DEF OpenTaken, SameButPrompts, SameTabs, SameData, SameCloses, SameLosses, SameExit,
                SameLeaving
  <2>2. Keeps(r, "save") /\ TabsOK(r)
    BY <1>3, <1>5 DEF Kept
  <2>3. /\ r.activeSessionIdx \in TabIndices(r) /\ r.sessions[r.activeSessionIdx] = s.active
        /\ KeysUnique(r)
    BY <1>0, <1>2, <1>5, <2>1 DEF ActiveTab, KeysUnique
  <2>4. NoTab \notin r.dirty
    BY <1>0, <2>1, TabKeysTyped DEF TabsOK
  <2>5. ~Leaving(r, "save")
    BY <1>2, <1>5, <2>1 DEF Leaving, SameLeaving
  <2>6. /\ OneExit(r) /\ (ExpIds = {} => Kinds(r)) /\ (NoDeferral => ~r.exitDeferredClose)
        /\ (Thorough => r.lost \cap Keys = {})
    BY <2>2 DEF Keeps, Covered
  <2>7. Kept(r, "open", u, "save")
    BY <1>0, <1>2, <1>5, <2>1, <2>2, <2>3, <2>4, <2>5, <2>6, RemovalKept
  <2>8. IsApp(u) /\ u.activeSessionIdx = 0
    BY <2>1, <2>3, RemoveTabDoes DEF Reindex
  <2> HIDE DEF u
  <2>9. /\ t = [u EXCEPT !.activeTabKind = "Session"]
    BY <1>5 DEF u
  <2>10. /\ t.activeTabKind = "Session" /\ t.activeSessionIdx = 0
         /\ t.sessions = u.sessions /\ t.dirty = u.dirty /\ t.stale = u.stale
         /\ t.staleOnDisk = u.staleOnDisk /\ t.consent = u.consent /\ t.lost = u.lost
         /\ t.pendingSaveKind = u.pendingSaveKind /\ t.pendingOpen = u.pendingOpen
         /\ t.pendingRemoveIdx = u.pendingRemoveIdx
         /\ t.showExitDirtyModal = u.showExitDirtyModal
         /\ t.exitSaveAllRunning = u.exitSaveAllRunning
         /\ t.exitSaveAllCursor = u.exitSaveAllCursor /\ t.exitDirtyTabs = u.exitDirtyTabs
         /\ t.pendingGoHome = u.pendingGoHome /\ t.shouldClose = u.shouldClose
         /\ t.exitDeferredClose = u.exitDeferredClose
    BY <2>8, <2>9 DEF IsApp, AppFields
  <2>11. u.pendingSaveKind # "Workspace"
    BY <1>2, <1>5, <2>1, <2>3, RemoveTabDoes DEF u
  <2>12. Keeps(t, "save")
    BY <2>7, <2>10, <2>11
    DEF Kept, Keeps, TabsOK, TabKeys, Going, SaveAsOK, OneExit, Kinds, Covered, Ahead
  <2>13. Spares(s, "open", t)
    BY <2>1, <2>7, <2>10 DEF Kept, Spares, TabKeys
  <2> QED
    BY <2>12, <2>13 DEF Kept
<1> QED
  BY <1>1, <1>3, <1>4, <1>5 DEF t

(* The queued save. *)
LEMMA SaveKept ==
  ASSUME NEW s, Known(s, "save"), NEW saved, NEW m, NEW n
  PROVE  LET t == ExecutePendingSave(s, saved, m, n) IN
         Crashed(s, t) \/ Kept(s, "save", t, "closePrompt")
<1> DEFINE t == ExecutePendingSave(s, saved, m, n)
<1>0. /\ Sound(s) /\ s \in AppStates /\ Keeps(s, "save") /\ TabsOK(s) /\ SaveAsOK(s, "save")
      /\ (ExpIds = {} => Kinds(s))
  BY KnownParts
<1>1. \/ Crashed(s, t)
      \/ /\ IsApp(t) /\ SamePrompts(s, t) /\ SameSwitch(s, t) /\ SameExit(s, t)
         /\ SameTabs(s, t) /\ SameLosses(s, t)
         /\ t.pendingSaveKind = "None"
         /\ t.dirty \subseteq s.dirty /\ t.stale = s.stale
         /\ t.staleOnDisk \subseteq s.staleOnDisk \cup s.stale
         /\ s.staleOnDisk \subseteq t.staleOnDisk \cup
              (IF s.pendingSaveKind = "Workspace" THEN {s.active} ELSE {})
  BY <1>0, ExecutePendingSaveDoes
<1> HIDE DEF t
<1>2. ASSUME ~Crashed(s, t) PROVE Kept(s, "save", t, "closePrompt")
  <2>1. Unharmed(s, t) /\ SameLeave(s, t) /\ SameKind(s, t)
    <3>1. t.sessions = s.sessions /\ SameTabLosses(s, t)
      BY <1>1, <1>2, SameLossesOfTabs DEF SameTabs
    <3>2. Unharmed(s, t)
      BY <1>1, <1>2, <3>1, SameIsUnharmed
    <3> QED
      BY <1>1, <1>2, <3>2, SameExitLeaves, SameTabsKind
  <2>2. s.staleOnDisk \subseteq t.staleOnDisk
    BY <1>0, <1>1, <1>2 DEF SaveAsOK, TabsOK
  <2>3. SaveAsOK(t, "closePrompt")
    BY <1>1, <1>2 DEF SaveAsOK
  <2> QED
    BY <1>0, <1>1, <1>2, <2>1, <2>2, <2>3, QuietKept, SameKindKept DEF SamePrompts
<1> QED
  BY <1>2 DEF t

(* After the queued save there is no Save As left. *)
LEMMA NoSaveAsThen ==
  ASSUME NEW s, NEW p, Known(s, p), p \notin {"ui", "swap", "open", "save"}
  PROVE  s.pendingSaveKind # "Workspace"
  BY KnownParts DEF SaveAsOK

(* The prompt of a tab comes up. *)
LEMMA ClosePromptKept ==
  ASSUME NEW s, Known(s, "closePrompt")
  PROVE  Kept(s, "closePrompt", RaiseClosePrompt(s), "remove")
<1> DEFINE t == RaiseClosePrompt(s)
<1>0. /\ Sound(s) /\ IsApp(s) /\ Keeps(s, "closePrompt") /\ (ExpIds = {} => Kinds(s))
      /\ s.pendingSaveKind # "Workspace"
  BY KnownParts, NoSaveAsThen
<1>1. \/ t = s
      \/ /\ SameButPrompts(s, t) /\ t.pendingOpen = s.pendingOpen
         /\ t.pendingRemoveIdx = s.pendingRemoveIdx
  BY <1>0, ClosePromptDoes
<1> HIDE DEF t
<1>2. Unharmed(s, s) /\ SameLeave(s, s) /\ SameKind(s, s)
  BY DEF Unharmed, MoreKeys, SameLeave, SameKind
<1>3. Unharmed(s, t) /\ SameLeave(s, t) /\ SameKind(s, t) /\ t.staleOnDisk = s.staleOnDisk
      /\ t.pendingSaveKind = s.pendingSaveKind
  BY <1>1, <1>2, PromptsUnharmed DEF SameButPrompts, SameData
<1>4. SaveAsOK(t, "remove")
  BY <1>0, <1>3, NoSaveAs
<1>5. Kept(s, "closePrompt", t, "remove")
  BY <1>0, <1>1, <1>3, <1>4, QuietKept, SameKindKept
<1> QED
  BY <1>5 DEF t

(* Another value of the queued removal is all that r differs by. *)
LEMMA RemoveTaken ==
  ASSUME NEW s, IsApp(s)
  PROVE  LET r == [s EXCEPT !.pendingRemoveIdx = 0] IN
         SameButPrompts(s, r) /\ r.pendingRemoveIdx = 0 /\ r.pendingOpen = s.pendingOpen
  BY DEF IsApp, AppFields, SameButPrompts, SameSwitch, SameExit, SameTabs, SameData, SameLosses,
         SameExps

(* The tab that waited to be removed goes.                                   *)
LEMMA RemoveKept ==
  ASSUME NEW s, Known(s, "remove")
  PROVE  Kept(s, "remove", RunPendingRemove(s), "saveAll")
<1> DEFINE r == [s EXCEPT !.pendingRemoveIdx = 0]
           idx == s.pendingRemoveIdx
           t == RunPendingRemove(s)
<1>0. /\ Sound(s) /\ IsApp(s) /\ s.sessions \in Seq(Keys) /\ KeysUnique(s)
      /\ Keeps(s, "remove") /\ Waits(s, "remove") /\ Located(s, "remove")
      /\ TabsOK(s) /\ Going(s)
      /\ (ExpIds = {} => Kinds(s)) /\ s.pendingSaveKind # "Workspace"
  BY KnownParts, NoSaveAsThen
<1>1. SameButPrompts(s, r) /\ r.pendingRemoveIdx = 0 /\ r.pendingOpen = s.pendingOpen
  BY <1>0, RemoveTaken
<1>2. t = IF idx = 0 THEN s ELSE RemoveTab(r, idx)
  BY DEF RunPendingRemove
<1> HIDE DEF r, t
<1>3. Kept(s, "remove", s, "saveAll")
  <2>1. Unharmed(s, s) /\ SameLeave(s, s) /\ SaveAsOK(s, "saveAll")
    BY <1>0, NoSaveAs DEF Unharmed, MoreKeys, SameLeave
  <2> QED
    BY <1>0, <2>1, QuietKept
<1>4. ASSUME idx # 0 PROVE Kept(s, "remove", RemoveTab(r, idx), "saveAll")
  <2>1. /\ Unharmed(s, r) /\ SameLeave(s, r) /\ SameKind(s, r)
        /\ r.staleOnDisk = s.staleOnDisk /\ r.pendingSaveKind = s.pendingSaveKind
    BY <1>1, PromptsUnharmed DEF SameButPrompts, SameData
  <2>2. SaveAsOK(r, "saveAll")
    BY <1>0, <2>1, NoSaveAs
  <2>3. Keeps(r, "saveAll") /\ TabsOK(r) /\ OneExit(r) /\ (ExpIds = {} => Kinds(r))
        /\ (NoDeferral => ~r.exitDeferredClose) /\ (Thorough => r.lost \cap Keys = {})
    BY <1>0, <1>1, <2>1, <2>2, QuietKept, SameKindKept DEF Kept, Keeps, Covered
  <2>4. ~Leaving(r, "saveAll")
    BY <1>0, <1>4, <2>1 DEF Located, Leaving, NothingWaits, SameLeave
  <2>5. /\ IsApp(r) /\ r.sessions = s.sessions /\ r.dirty = s.dirty /\ r.consent = s.consent
        /\ r.lost = s.lost
    BY <1>1 DEF SameButPrompts, SameTabs, SameData, SameLosses
  <2>6. idx \in TabIndices(r) /\ KeysUnique(r) /\ r.sessions \in Seq(Keys)
    <3>1. idx \in Nat /\ idx \in 0 .. Len(s.sessions) /\ Len(s.sessions) \in Nat
      BY <1>0, FieldTypes DEF Sound, TabQueues
    <3> QED
      BY <1>0, <1>4, <2>5, <3>1 DEF KeysUnique
  <2>7. r.pendingOpen \notin r.dirty /\ r.sessions[idx] \notin r.dirty \ r.consent
    BY <1>0, <1>1, <1>4, <2>5 DEF Going
  <2>8. Kept(r, "remove", RemoveTab(r, idx), "saveAll")
    <3> HIDE DEF idx
    <3> QED
      BY <1>0, <1>1, <2>1, <2>3, <2>4, <2>5, <2>6, <2>7, RemovalKept
  <2>9. Spares(s, "remove", RemoveTab(r, idx))
    <3>1. RemoveTab(r, idx).staleOnDisk = r.staleOnDisk \ {r.sessions[idx]}
      BY <2>5, <2>6, RemoveTabDoes
    <3>2. r.sessions[idx] \notin TabKeys(RemoveTab(r, idx))
      <4> HIDE DEF idx
      <4> QED
        BY <1>0, <1>1, <2>1, <2>3, <2>4, <2>5, <2>6, <2>7, RemovalKept
    <3> QED
      BY <2>1, <2>5, <2>8, <3>1, <3>2 DEF Kept, Spares
  <2> QED
    BY <2>8, <2>9 DEF Kept
<1>5. Kept(s, "remove", t, "saveAll")
  BY <1>2, <1>3, <1>4
<1> QED
  BY <1>5 DEF t

(* One tab of Save All: the tab under the cursor is the one that is saved.   *)
LEMMA AheadStep ==
  ASSUME NEW s, Sound(s), s.exitSaveAllRunning, ~SaveAllTabsDone(s)
  PROVE  Ahead(s, s.exitSaveAllCursor) \subseteq
           {s.sessions[SaveAllTarget(s)]} \cup Ahead(s, s.exitSaveAllCursor + 1)
<1>1. s.exitSaveAllCursor \in Nat /\ Len(s.exitDirtyTabs) \in Nat
  BY FieldTypes DEF Sound
<1> DEFINE c == s.exitSaveAllCursor
<1>2. \A n \in c + 1 .. Len(s.exitDirtyTabs) :
        n = c + 1 \/ n \in (c + 1) + 1 .. Len(s.exitDirtyTabs)
  BY <1>1
<1> QED
  BY <1>2 DEF Ahead, SaveAllTarget

(* One frame of Save All.                                                    *)
LEMMA SaveAllKept ==
  ASSUME NEW s, Known(s, "saveAll"), NEW saved, NEW n
  PROVE  LET t == AdvanceExitSaveAll(s, saved, n) IN
         Crashed(s, t) \/ Kept(s, "saveAll", t, "home")
<1> DEFINE t == AdvanceExitSaveAll(s, saved, n)
<1>0. /\ Sound(s) /\ IsApp(s) /\ Keeps(s, "saveAll") /\ ActiveTab(s) /\ OneExit(s)
      /\ (ExpIds = {} => Kinds(s)) /\ s.pendingSaveKind # "Workspace"
      /\ (Thorough => Covered(s, "saveAll")) /\ (NoDeferral => ~s.exitDeferredClose)
  BY KnownParts, NoSaveAsThen
<1>1. s.exitSaveAllRunning => ~s.showExitDirtyModal
  BY <1>0 DEF Sound, WorkList
<1>2. CASE SaveAllPaused(s)
  <2>1. t = s
    BY <1>2 DEF AdvanceExitSaveAll
  <2>2. Unharmed(s, s) /\ SameLeave(s, s) /\ SaveAsOK(s, "home")
    BY <1>0, NoSaveAs DEF Unharmed, MoreKeys, SameLeave
  <2>3. Kept(s, "saveAll", s, "home")
    BY <1>0, <2>2, QuietKept
  <2> QED
    BY <2>1, <2>3
<1>3. CASE ~SaveAllPaused(s) /\ SaveAllTabsDone(s)
  <2>1. t = FinishSaveAll(s, n) /\ s.exitSaveAllRunning
    BY <1>3 DEF AdvanceExitSaveAll, SaveAllPaused
  <2>2. /\ SameButFlow(s, t) /\ SameData(s, t) /\ SameLosses(s, t)
        /\ t.showExitDirtyModal = s.showExitDirtyModal /\ ~t.exitSaveAllRunning
        /\ t.exitDeferredClose = s.exitDeferredClose
    BY <1>0, <2>1, FinishSaveAllDoes
  <2> HIDE DEF t
  <2>3. Unharmed(s, t) /\ SameKind(s, t)
    BY <2>2, SameIsUnharmed, SameLossesOfTabs, SameTabsKind
    DEF SameButFlow, SameData, SameTabs
  <2>4. Thorough => s.dirty = {}
    <3>1. s.exitSaveAllCursor \in Nat /\ s.exitSaveAllCursor = Len(s.exitDirtyTabs)
      BY <1>0, <1>3, FieldTypes DEF Sound, SaveAllTabsDone
    <3>2. Ahead(s, s.exitSaveAllCursor) = {}
      BY <3>1 DEF Ahead
    <3> QED
      BY <1>0, <2>1, <3>2 DEF Covered
  <2>5. Thorough => Covered(t, "home")
    BY <1>0, <1>1, <2>1, <2>2, <2>4 DEF Covered, SameData, SameLosses
  <2>6. OneExit(t) /\ SaveAsOK(t, "home") /\ (NoDeferral => ~t.exitDeferredClose)
    BY <1>0, <1>1, <2>1, <2>2, NoSaveAs DEF OneExit, SameButFlow
  <2>7. Kept(s, "saveAll", t, "home")
    BY <1>0, <2>1, <2>2, <2>3, <2>5, <2>6, UnharmedKept, SameKindKept DEF SameButFlow, SamePrompts
  <2> QED
    BY <2>7 DEF t
<1>4. CASE ~SaveAllPaused(s) /\ ~SaveAllTabsDone(s)
  <2>1. t = SaveAllTab(s, saved) /\ s.exitSaveAllRunning
    BY <1>4 DEF AdvanceExitSaveAll, SaveAllPaused
  <2> HIDE DEF t
  <2>3. ASSUME SameButSwitch(s, t) PROVE Kept(s, "saveAll", t, "home")
    <3>1. /\ Unharmed(s, t) /\ SameLeave(s, t) /\ SameKind(s, t)
          /\ t.staleOnDisk = s.staleOnDisk /\ t.pendingOpen = s.pendingOpen
          /\ t.pendingRemoveIdx = s.pendingRemoveIdx /\ t.pendingSaveKind = s.pendingSaveKind
      BY <2>3, SwitchUnharmed
    <3>2. SaveAsOK(t, "home")
      BY <1>0, <3>1, NoSaveAs
    <3> QED
      BY <1>0, <3>1, <3>2, QuietKept, SameKindKept
  <2>4. ASSUME t = AbandonSaveAll(s) PROVE Kept(s, "saveAll", t, "home")
    <3>1. /\ SameButFlow(s, t) /\ SameData(s, t) /\ SameLosses(s, t)
          /\ t.showExitDirtyModal = s.showExitDirtyModal
          /\ ~t.exitSaveAllRunning
          /\ t.pendingGoHome = s.pendingGoHome /\ t.shouldClose = s.shouldClose
          /\ t.exitDeferredClose = s.exitDeferredClose
      BY <1>0, <2>4, ExitAnswersDo
    <3>2. Unharmed(s, t) /\ SameKind(s, t)
      BY <3>1, SameIsUnharmed, SameLossesOfTabs, SameTabsKind
      DEF SameButFlow, SameData, SameTabs
    <3>3. Thorough => Covered(t, "home")
      BY <1>0, <1>1, <2>1, <3>1 DEF Covered, SameData, SameLosses
    <3>4. OneExit(t) /\ SaveAsOK(t, "home") /\ (NoDeferral => ~t.exitDeferredClose)
      BY <1>0, <1>1, <2>1, <3>1, NoSaveAs DEF OneExit, SameButFlow
    <3> QED
      BY <1>0, <2>1, <3>1, <3>2, <3>3, <3>4, UnharmedKept, SameKindKept
      DEF SameButFlow, SamePrompts
  <2>5. ASSUME /\ s.activeSessionIdx = SaveAllTarget(s) /\ s.active # NoTab
               /\ SamePrompts(s, t) /\ SameTabs(s, t) /\ SameLosses(s, t)
               /\ t.pendingSaveKind = s.pendingSaveKind
               /\ t.dirty = s.dirty \ {s.active} /\ t.stale = s.stale
               /\ t.staleOnDisk = s.staleOnDisk \ {s.active}
               /\ t.showExitDirtyModal = s.showExitDirtyModal
               /\ t.exitSaveAllRunning = s.exitSaveAllRunning
               /\ t.exitSaveAllCursor = s.exitSaveAllCursor + 1
               /\ t.exitDirtyTabs = s.exitDirtyTabs
               /\ t.pendingGoHome = s.pendingGoHome /\ t.shouldClose = s.shouldClose
               /\ t.exitDeferredClose = s.exitDeferredClose
        PROVE  Kept(s, "saveAll", t, "home")
    <3>1. Unharmed(s, t) /\ SameKind(s, t)
      BY <2>5, SameIsUnharmed, SameLossesOfTabs, SameTabsKind DEF SameTabs
    <3>2. s.sessions[SaveAllTarget(s)] = s.active
      BY <1>0, <2>5 DEF ActiveTab
    <3>3. s.exitSaveAllCursor + 1 \in Nat
      BY <1>0, FieldTypes DEF Sound
    <3>4. Ahead(t, t.exitSaveAllCursor) = Ahead(s, s.exitSaveAllCursor + 1)
      BY <1>0, <2>5, <3>1, <3>3, SameAhead DEF Unharmed
    <3>5. Ahead(s, s.exitSaveAllCursor) \subseteq
           {s.active} \cup Ahead(s, s.exitSaveAllCursor + 1)
      BY <1>0, <1>4, <2>1, <3>2, AheadStep
    <3>6. Thorough => Covered(t, "home")
      BY <1>0, <1>1, <2>1, <2>5, <3>4, <3>5 DEF Covered, SameLosses
    <3>7. OneExit(t) /\ SaveAsOK(t, "home") /\ (NoDeferral => ~t.exitDeferredClose)
      BY <1>0, <1>1, <2>1, <2>5, NoSaveAs DEF OneExit
    <3> QED
      BY <1>0, <2>1, <2>5, <3>1, <3>6, <3>7, UnharmedKept, SameKindKept DEF SamePrompts
  <2>6. Crashed(s, t) \/ Kept(s, "saveAll", t, "home")
    <3>1. CASE SameButSwitch(s, t)
      BY <2>3, <3>1
    <3>2. CASE t = AbandonSaveAll(s)
      BY <2>4, <3>2
    <3>3. CASE /\ s.activeSessionIdx = SaveAllTarget(s) /\ s.active # NoTab
               /\ SamePrompts(s, t) /\ SameTabs(s, t) /\ SameLosses(s, t)
               /\ t.pendingSaveKind = s.pendingSaveKind
               /\ t.dirty = s.dirty \ {s.active} /\ t.stale = s.stale
               /\ t.staleOnDisk = s.staleOnDisk \ {s.active}
               /\ t.showExitDirtyModal = s.showExitDirtyModal
               /\ t.exitSaveAllRunning = s.exitSaveAllRunning
               /\ t.exitSaveAllCursor = s.exitSaveAllCursor + 1
               /\ t.exitDirtyTabs = s.exitDirtyTabs
               /\ t.pendingGoHome = s.pendingGoHome /\ t.shouldClose = s.shouldClose
               /\ t.exitDeferredClose = s.exitDeferredClose
      BY <2>5, <3>3
    <3> QED
      BY <1>0, <2>1, <3>1, <3>2, <3>3, SaveAllTabDoes
  <2> QED
    BY <2>6 DEF t
<1> QED
  BY <1>2, <1>3, <1>4

(* The finalizer of going home, when there is something to finalize: all is  *)
(* clean.                                                                    *)
LEMMA HomeKept ==
  ASSUME NEW s, Known(s, "home")
  PROVE  /\ ~s.pendingGoHome => Kept(s, "home", s, "poll")
         /\ s.pendingGoHome =>
              Kept(s, "home", [s EXCEPT !.pendingGoHome = FALSE, !.exitTargetIsGoHome = FALSE],
                   "closeAll")
<1> DEFINE t == [s EXCEPT !.pendingGoHome = FALSE, !.exitTargetIsGoHome = FALSE]
<1>0. /\ Sound(s) /\ IsApp(s) /\ Keeps(s, "home") /\ OneExit(s)
      /\ (ExpIds = {} => Kinds(s)) /\ s.pendingSaveKind # "Workspace"
      /\ (Thorough => Covered(s, "home")) /\ (NoDeferral => ~s.exitDeferredClose)
  BY KnownParts, NoSaveAsThen
<1>1. Kept(s, "home", s, "poll")
  <2>1. Unharmed(s, s) /\ SameLeave(s, s) /\ SaveAsOK(s, "poll")
    BY <1>0, NoSaveAs DEF Unharmed, MoreKeys, SameLeave
  <2> QED
    BY <1>0, <2>1, QuietKept
<1>2. /\ t.sessions = s.sessions /\ t.dirty = s.dirty /\ t.stale = s.stale
      /\ t.staleOnDisk = s.staleOnDisk /\ SameLosses(s, t) /\ SameTabs(s, t)
      /\ SamePrompts(s, t) /\ t.pendingSaveKind = s.pendingSaveKind
      /\ t.showExitDirtyModal = s.showExitDirtyModal
      /\ t.exitSaveAllRunning = s.exitSaveAllRunning /\ t.shouldClose = s.shouldClose
      /\ t.exitDeferredClose = s.exitDeferredClose
  BY <1>0 DEF IsApp, AppFields, SameLosses, SameTabs, SamePrompts
<1> HIDE DEF t
<1>3. ASSUME s.pendingGoHome PROVE Kept(s, "home", t, "closeAll")
  <2>1. Unharmed(s, t) /\ SameKind(s, t)
    BY <1>2, SameIsUnharmed, SameLossesOfTabs, SameTabsKind
  <2>2. Thorough => Covered(t, "closeAll")
    BY <1>0, <1>2, <1>3 DEF Covered, SameLosses
  <2>3. OneExit(t) /\ SaveAsOK(t, "closeAll")
    BY <1>0, <1>2, NoSaveAs DEF OneExit
  <2> QED
    BY <1>0, <1>2, <2>1, <2>2, <2>3, UnharmedKept, SameKindKept DEF SamePrompts
<1> QED
  BY <1>1, <1>3 DEF t

(* Going home removes the tabs.                                              *)
LEMMA CloseAllKept ==
  ASSUME NEW s, Known(s, "closeAll"), NEW idx \in TabIndices(s)
  PROVE  Kept(s, "closeAll", RemoveTab(s, idx), "closeAll")
<1>0. /\ IsApp(s) /\ s.sessions \in Seq(Keys) /\ KeysUnique(s) /\ TabsOK(s) /\ Going(s)
      /\ Located(s, "closeAll") /\ OneExit(s) /\ (ExpIds = {} => Kinds(s))
      /\ s.pendingSaveKind # "Workspace" /\ (Thorough => Covered(s, "closeAll"))
      /\ (NoDeferral => ~s.exitDeferredClose)
  BY KnownParts, NoSaveAsThen
<1>1. s.pendingRemoveIdx = 0
  BY <1>0 DEF Located, Leaving, NothingWaits
<1>2. s.pendingOpen \notin s.dirty /\ (Thorough => s.lost \cap Keys = {} /\ s.dirty = {})
  BY <1>0 DEF Going, Covered
<1> QED
  BY <1>0, <1>1, <1>2, RemovalKept

(* The experiments that are dropped are no tabs.                             *)
LEMMA DroppedExpsTabs ==
  ASSUME NEW s, NEW t, s.expDirty \subseteq ExpIds, ExpsDropped(s, t)
  PROVE  SameTabLosses(s, t) /\ (s.activeTabKind # "Experiment" => t.activeTabKind = s.activeTabKind)
  BY IdentitiesAssumption DEF ExpsDropped, SameTabLosses

(* The tabs are gone.                                                        *)
LEMMA GoneHomeKept ==
  ASSUME NEW s, Known(s, "closeAll")
  PROVE  Kept(s, "closeAll", FinishGoHome(s), "poll")
<1> DEFINE t == FinishGoHome(s)
<1>0. /\ Sound(s) /\ s \in AppStates /\ IsApp(s) /\ Keeps(s, "closeAll") /\ OneExit(s)
      /\ (ExpIds = {} => Kinds(s)) /\ s.pendingSaveKind # "Workspace"
      /\ (Thorough => Covered(s, "closeAll")) /\ (NoDeferral => ~s.exitDeferredClose)
  BY KnownParts, NoSaveAsThen
<1>1. /\ SamePrompts(s, t) /\ SameData(s, t) /\ ExpsDropped(s, t)
      /\ t.sessions = s.sessions /\ t.activeSessionIdx = s.activeSessionIdx
      /\ t.showExitDirtyModal = s.showExitDirtyModal
      /\ t.exitSaveAllRunning = s.exitSaveAllRunning
      /\ t.pendingGoHome = s.pendingGoHome /\ t.shouldClose = s.shouldClose
      /\ t.exitDeferredClose = s.exitDeferredClose
  BY <1>0, FinishGoHomeDoes
<1> HIDE DEF t
<1>2. s.expDirty \subseteq ExpIds
  BY <1>0 DEF AppStates
<1>3. SameTabLosses(s, t) /\ SameKind(s, t)
  BY <1>1, <1>2, DroppedExpsTabs DEF SameKind
<1>4. Unharmed(s, t)
  BY <1>1, <1>3, SameIsUnharmed DEF SameData
<1>5. Thorough => Covered(t, "poll")
  BY <1>0, <1>1, <1>3 DEF Covered, SameData, SameTabLosses
<1>6. OneExit(t) /\ SaveAsOK(t, "poll")
  BY <1>0, <1>1, NoSaveAs DEF OneExit, SameData
<1>7. Kept(s, "closeAll", t, "poll")
  BY <1>0, <1>1, <1>3, <1>4, <1>5, <1>6, UnharmedKept, SameKindKept DEF SamePrompts, SameData
<1> QED
  BY <1>7 DEF t

-----------------------------------------------------------------------------
(* Window events, background results, keyboard                               *)

(* Without experiments the exit modal misses no dirty tab.                   *)
LEMMA DirtyTabsCollected ==
  ASSUME NEW s, Sound(s), TabsOK(s), Kinds(s)
  PROVE  s.dirty \subseteq {s.sessions[i] : i \in DirtyTabIndices(s)}
<1>1. s.activeTabKind \in TabKinds
  BY FieldTypes DEF Sound
<1>2. ASSUME NEW i \in TabIndices(s), i = s.activeSessionIdx
      PROVE  s.activeTabKind = "Workspace"
  <2>1. Len(s.sessions) \in Nat
    BY FieldTypes DEF Sound
  <2>2. s.activeSessionIdx # 0
    BY <1>2, <2>1
  <2> QED
    BY <1>1, <2>2 DEF Kinds, TabKinds
<1>3. \A i \in TabIndices(s) : s.sessions[i] \in s.dirty => i \in DirtyTabIndices(s)
  BY <1>2 DEF DirtyTabIndices
<1> QED
  BY <1>3 DEF TabsOK, TabKeys

(* What it collected is listed in full.                                      *)
LEMMA OrderCovers ==
  ASSUME NEW s, Sound(s), NEW order \in DirtyTabOrders(s)
  PROVE  DirtyTabIndices(s) = {order[n] : n \in 1 .. Len(order)}
<1> DEFINE D == DirtyTabIndices(s)
           c == Cardinality(D)
           n == Len(s.sessions)
<1>1. n \in Nat
  BY FieldTypes DEF Sound
<1>2. D \subseteq 1 .. n
  BY DEF DirtyTabIndices
<1>3. order \in [1 .. c -> D]
  BY DEF DirtyTabOrders
<1>4. order \in Seq(Nat) /\ ListsTabs(order, n)
  BY OrdersListTabs
<1> HIDE DEF D, n
<1>5. IsFiniteSet(D)
  <2>1. IsFiniteSet(1 .. n)
    BY <1>1, FS_Interval
  <2> QED
    BY <1>2, <2>1, FS_Subset
<1>6. c \in Nat
  BY <1>5, FS_CardinalityType
<1> HIDE DEF c
<1>7. Len(order) = c
  BY <1>3, <1>4, <1>6, LenProperties
<1>8. order \in Injection(1 .. c, D)
  BY <1>3, <1>4, <1>7 DEF Injection, IsInjective, ListsTabs
<1>9. Cardinality(1 .. c) = c
  BY <1>6, FS_Interval
<1>10. order \in Surjection(1 .. c, D)
  BY <1>5, <1>8, <1>9, FS_Injection DEF c
<1>11. D = {order[m] : m \in 1 .. c}
  BY <1>3, <1>10 DEF Surjection
<1> QED
  BY <1>7, <1>11 DEF D

(* So the list of the exit modal has every dirty tab.                        *)
LEMMA ModalCovers ==
  ASSUME NEW s, Sound(s), TabsOK(s), Kinds(s), NEW order \in DirtyTabOrders(s),
         NEW t, t.sessions = s.sessions, t.exitDirtyTabs = order
  PROVE  s.dirty \subseteq Ahead(t, 0)
<1>1. Ahead(t, 0) = {s.sessions[order[n]] : n \in 1 .. Len(order)}
  BY DEF Ahead
<1>2. DirtyTabIndices(s) = {order[n] : n \in 1 .. Len(order)}
  BY OrderCovers
<1>3. s.dirty \subseteq {s.sessions[i] : i \in DirtyTabIndices(s)}
  BY DirtyTabsCollected
<1> QED
  BY <1>1, <1>2, <1>3

(* Nothing was collected: nothing is dirty.                                  *)
LEMMA NoneCollected ==
  ASSUME NEW s, Sound(s), TabsOK(s), Kinds(s), NothingCollected(s)
  PROVE  s.dirty = {}
  BY DirtyTabsCollected DEF NothingCollected

(* The window events.                                                        *)
LEMMA PollKept ==
  ASSUME NEW s, Known(s, "poll"), NEW pressed \in BOOLEAN, NEW order \in DirtyTabOrders(s),
         NoDeferral /\ pressed => ~DirtyFlowPending(s)
  PROVE  LET t == PollEvents(s, pressed, order) IN
         /\ ~t.shouldClose => Kept(s, "poll", t, "async")
         /\ Spares(s, "poll", t) /\ t.lost = s.lost
         /\ NoDeferral /\ ExpIds = {} /\ t.shouldClose => t.dirty = {}
<1> DEFINE t == PollEvents(s, pressed, order)
<1>0. /\ Sound(s) /\ s \in AppStates /\ IsApp(s) /\ Keeps(s, "poll") /\ TabsOK(s) /\ OneExit(s)
      /\ Located(s, "poll") /\ (ExpIds = {} => Kinds(s)) /\ s.pendingSaveKind # "Workspace"
      /\ (Thorough => Covered(s, "poll") /\ ExpIds = {}) /\ (NoDeferral => ~s.exitDeferredClose)
  BY KnownParts, NoSaveAsThen
<1>1. /\ SameButExit(s, t)
      /\ t.exitSaveAllRunning = s.exitSaveAllRunning
      /\ t.exitSaveAllCursor = s.exitSaveAllCursor
      /\ t.pendingGoHome = s.pendingGoHome
      /\ \/ t.showExitDirtyModal = s.showExitDirtyModal /\ t.exitDirtyTabs = s.exitDirtyTabs
         \/ ~DirtyFlowPending(s) /\ ModalShown(s, t, order)
      /\ t.shouldClose => \/ ~DirtyFlowPending(s) /\ NothingCollected(s)
                          \/ s.exitDeferredClose
      /\ t.exitDeferredClose => s.exitDeferredClose \/
            (DirtyFlowPending(s) /\ (s.shouldClose \/ pressed))
  BY <1>0, PollEventsDoes
<1> HIDE DEF t
<1>2. /\ t.sessions = s.sessions /\ t.dirty = s.dirty /\ t.lost = s.lost
      /\ t.staleOnDisk = s.staleOnDisk /\ t.pendingSaveKind = s.pendingSaveKind
      /\ t.pendingOpen = s.pendingOpen /\ t.pendingRemoveIdx = s.pendingRemoveIdx
  BY <1>1 DEF SameButExit, SameTabs, SameData, SameLosses, SamePrompts
<1>3. Unharmed(s, t) /\ SameKind(s, t)
  BY <1>1, SameIsUnharmed, SameLossesOfTabs, SameTabsKind DEF SameButExit, SameTabs, SameData
<1>4. NoDeferral => ~t.exitDeferredClose
  <2>1. s.shouldClose => NothingWaits(s)
    BY <1>0 DEF Located, Leaving
  <2>2. s.shouldClose => ~DirtyFlowPending(s)
    BY <1>0, <2>1 DEF OneExit, NothingWaits, NoPrompt, DirtyFlowPending
  <2> QED
    BY <1>0, <1>1, <2>2
<1>5. Thorough => Covered(t, "async")
  <2> SUFFICES ASSUME Thorough PROVE Covered(t, "async")
    OBVIOUS
  <2>1. Covered(s, "poll") /\ Kinds(s)
    BY <1>0
  <2>2. CASE t.showExitDirtyModal = s.showExitDirtyModal /\ t.exitDirtyTabs = s.exitDirtyTabs
    BY <1>1, <1>2, <2>1, <2>2 DEF Covered, Ahead
  <2>3. CASE ~DirtyFlowPending(s) /\ ModalShown(s, t, order)
    <3>1. t.exitDirtyTabs = order /\ ~s.exitSaveAllRunning
      BY <2>3 DEF ModalShown, DirtyFlowPending
    <3>2. s.dirty \subseteq Ahead(t, 0)
      BY <1>0, <1>2, <2>1, <3>1, ModalCovers
    <3> QED
      BY <1>1, <1>2, <2>1, <3>1, <3>2 DEF Covered
  <2> QED
    BY <1>1, <2>2, <2>3
<1>6. ~t.shouldClose => Kept(s, "poll", t, "async")
  <2>1. SaveAsOK(t, "async")
    BY <1>0, <1>2, NoSaveAs
  <2>2. ~t.shouldClose => OneExit(t)
    BY DEF OneExit
  <2> QED
    BY <1>0, <1>2, <1>3, <1>4, <1>5, <2>1, <2>2, UnharmedKept, SameKindKept
<1>7. Spares(s, "poll", t)
  BY <1>2, <1>3, UnharmedSpares
<1>8. NoDeferral /\ ExpIds = {} /\ t.shouldClose => t.dirty = {}
  BY <1>0, <1>1, <1>2, NoneCollected
<1> QED
  BY <1>2, <1>6, <1>7, <1>8 DEF t

(* The active tab gets dirty where no flow counts on it that it is not.      *)
LEMMA EditKept ==
  ASSUME NEW s, Sound(s), NEW p, NEW q, Keeps(s, p), NEW spoils \in Spoils,
         s.active # NoTab, s.pendingRemoveIdx = 0, s.pendingOpen = NoTab,
         s.pendingSaveKind # "Workspace", p # "closeAll", q # "closeAll",
         Thorough => ~(s.showExitDirtyModal \/ s.exitSaveAllRunning \/ s.pendingGoHome)
  PROVE  Kept(s, p, EditActiveTab(s, spoils), q)
<1> DEFINE t == EditActiveTab(s, spoils)
<1>0. /\ TabsOK(s) /\ OneExit(s) /\ (ExpIds = {} => Kinds(s))
      /\ (Thorough => Covered(s, p)) /\ (NoDeferral => ~s.exitDeferredClose)
      /\ IsApp(s) /\ spoils \in BOOLEAN
  BY FieldsOf DEF Keeps, Sound, Spoils
<1>1. /\ SamePrompts(s, t) /\ SameExit(s, t) /\ SameTabs(s, t)
      /\ t.pendingSaveKind = s.pendingSaveKind
      /\ t.dirty = s.dirty \cup {s.active} /\ t.lost = s.lost
      /\ ~spoils => t.stale = s.stale /\ t.staleOnDisk = s.staleOnDisk
      /\ spoils => /\ t.stale = s.stale \cup {s.active}
                   /\ t.staleOnDisk = s.staleOnDisk \cup {s.active}
  BY <1>0, EditActiveTabDoes
<1> HIDE DEF t
<1>2. /\ TabKeys(t) = TabKeys(s) /\ s.active \in TabKeys(s) /\ NoTab \notin TabKeys(s)
  BY <1>1, TabKeysTyped DEF SameTabs, TabKeys
<1>3. TabsOK(t) /\ s.staleOnDisk \subseteq t.staleOnDisk
  BY <1>0, <1>1, <1>2 DEF TabsOK
<1>4. Going(t)
  BY <1>2, <1>3, <1>1 DEF Going, TabsOK, SamePrompts
<1>5. SaveAsOK(t, q) /\ OneExit(t) /\ (NoDeferral => ~t.exitDeferredClose)
  BY <1>0, <1>1, NoSaveAs DEF OneExit, SameExit
<1>6. ExpIds = {} => Kinds(t)
  BY <1>0, <1>1, SameTabsKind, SameKindKept
<1>7. Thorough => Covered(t, q)
  BY <1>0, <1>1 DEF Covered, SameExit
<1>8. Keeps(t, q)
  BY <1>3, <1>4, <1>5, <1>6, <1>7 DEF Keeps
<1>9. Spares(s, p, t)
  BY <1>1, <1>3 DEF Spares
<1> QED
  BY <1>8, <1>9 DEF Kept, t

(* Nothing happens in a phase.                                               *)
LEMMA IdlePhaseKept ==
  ASSUME NEW s, Sound(s), NEW p, NEW q, Keeps(s, p),
         q # "closeAll", q \in {"ui", "swap"} \/ s.pendingSaveKind # "Workspace",
         p = "ui" \/ s.pendingSaveKind # "Workspace"
  PROVE  Kept(s, p, s, q)
<1>1. Unharmed(s, s) /\ SameLeave(s, s) /\ SaveAsOK(s, q)
  BY DEF Unharmed, MoreKeys, SameLeave, SaveAsOK, Keeps
<1> QED
  BY <1>1, QuietKept

(* A result arrives, or none does.                                           *)
LEMMA BackgroundKept ==
  ASSUME NEW s, Known(s, "async")
  PROVE  /\ Kept(s, "async", s, "input")
         /\ \A spoils \in Spoils :
              /\ s.active # NoTab
              /\ Thorough => ~(s.showExitDirtyModal \/ s.exitSaveAllRunning \/ s.pendingGoHome)
              => Kept(s, "async", EditActiveTab(s, spoils), "input")
<1>0. /\ Sound(s) /\ Keeps(s, "async") /\ Waits(s, "async")
      /\ s.pendingSaveKind # "Workspace"
  BY KnownParts, NoSaveAsThen
<1>1. s.pendingRemoveIdx = 0 /\ s.pendingOpen = NoTab
  BY <1>0 DEF Waits
<1>2. Kept(s, "async", s, "input")
  BY <1>0, IdlePhaseKept
<1> QED
  BY <1>0, <1>1, <1>2, EditKept

(* Ctrl+S, Save As: the tab to save is the one that stays active.            *)
LEMMA RequestSavesKept ==
  ASSUME NEW s, Sound(s), NEW p, NEW q, Keeps(s, p), q \in {"ui", "swap"}, p # "closeAll",
         p = "ui" \/ s.pendingSaveKind # "Workspace"
  PROVE  /\ Kept(s, p, RequestSaveEverything(s), q)
         /\ NoSwitch(s) /\ s.pendingOpen = NoTab /\ s.pendingWorkspaceAction = "None"
            => Kept(s, p, RequestSaveAs(s), q)
<1>0. IsApp(s) /\ SaveAsOK(s, p)
  BY FieldsOf DEF Sound, Keeps
<1>1. Kept(s, p, RequestSaveEverything(s), q)
  <2> DEFINE t == RequestSaveEverything(s)
  <2>1. /\ SamePrompts(s, t) /\ SameSwitch(s, t) /\ SameExit(s, t)
        /\ SameTabs(s, t) /\ SameLosses(s, t)
        /\ t.dirty = s.dirty /\ t.stale = s.stale /\ t.staleOnDisk = s.staleOnDisk
        /\ t.pendingSaveKind \in {s.pendingSaveKind, "Everything"}
    BY <1>0, RequestSavesDo
  <2> HIDE DEF t
  <2>2. Unharmed(s, t) /\ SameLeave(s, t) /\ SameKind(s, t)
    BY <2>1, SameIsUnharmed, SameLossesOfTabs, SameExitLeaves, SameTabsKind DEF SameTabs
  <2>3. SaveAsOK(t, q)
    BY <1>0, <2>1 DEF SaveAsOK, SamePrompts, SameSwitch, SameTabs, NoSwitch, SwitchTo
  <2>4. Kept(s, p, t, q)
    BY <2>1, <2>2, <2>3, QuietKept, SameKindKept DEF SamePrompts
  <2> QED
    BY <2>4 DEF t
<1>2. ASSUME NoSwitch(s), s.pendingOpen = NoTab, s.pendingWorkspaceAction = "None"
      PROVE  Kept(s, p, RequestSaveAs(s), q)
  <2> DEFINE t == RequestSaveAs(s)
  <2>1. /\ SameSwitch(s, t) /\ SameExit(s, t)
        /\ SameTabs(s, t) /\ SameLosses(s, t)
        /\ t.dirty = s.dirty /\ t.stale = s.stale /\ t.staleOnDisk = s.staleOnDisk
        /\ t.pendingOpen = s.pendingOpen /\ t.pendingRemoveIdx = s.pendingRemoveIdx
        /\ t.pendingWorkspaceAction = s.pendingWorkspaceAction
        /\ t.pendingSaveKind \in {s.pendingSaveKind, "Workspace"}
        /\ t.pendingSaveKind # s.pendingSaveKind => s.active \notin s.stale /\ s.active # NoTab
    BY <1>0, RequestSavesDo
  <2> HIDE DEF t
  <2>2. Unharmed(s, t) /\ SameLeave(s, t) /\ SameKind(s, t)
    BY <2>1, SameIsUnharmed, SameLossesOfTabs, SameExitLeaves, SameTabsKind DEF SameTabs
  <2>3. SaveAsOK(t, q)
    BY <1>0, <1>2, <2>1 DEF SaveAsOK, SameSwitch, SameTabs, NoSwitch, SwitchTo
  <2>4. Kept(s, p, t, q)
    BY <2>1, <2>2, <2>3, QuietKept, SameKindKept
  <2> QED
    BY <2>4 DEF t
<1> QED
  BY <1>1, <1>2

(* The shortcuts for saving, and none. *)
LEMMA ShortcutKept ==
  ASSUME NEW s, Known(s, "input")
  PROVE  /\ Kept(s, "input", s, "ui") /\ Kept(s, "input", RequestSaveEverything(s), "ui")
         /\ s.active # NoTab /\ s.pendingWorkspaceAction = "None" /\ ~s.exitSaveAllRunning
            => Kept(s, "input", RequestSaveAs(s), "ui")
<1>0. /\ Sound(s) /\ Keeps(s, "input") /\ Waits(s, "input") /\ Located(s, "input")
      /\ s.pendingSaveKind # "Workspace"
  BY KnownParts, NoSaveAsThen
<1>1. s.pendingOpen = NoTab
  BY <1>0 DEF Waits
<1>2. s.active # NoTab /\ ~s.exitSaveAllRunning => NoSwitch(s)
  BY <1>0 DEF Located
<1>3. Kept(s, "input", s, "ui")
  BY <1>0, IdlePhaseKept
<1> QED
  BY <1>0, <1>1, <1>2, <1>3, RequestSavesKept

(* Ctrl+H: the modal lists what is dirty, or nothing is.                     *)
LEMMA GoHomeAskedKept ==
  ASSUME NEW s, Known(s, "input"), NEW order \in DirtyTabOrders(s)
  PROVE  Kept(s, "input", RequestGoHome(s, order), "ui")
<1> DEFINE t == RequestGoHome(s, order)
<1>0. /\ Sound(s) /\ IsApp(s) /\ Keeps(s, "input") /\ TabsOK(s) /\ OneExit(s)
      /\ Located(s, "input") /\ (ExpIds = {} => Kinds(s)) /\ s.pendingSaveKind # "Workspace"
      /\ (Thorough => Covered(s, "input") /\ ExpIds = {}) /\ (NoDeferral => ~s.exitDeferredClose)
  BY KnownParts, NoSaveAsThen
<1>1. ~s.shouldClose
  BY <1>0 DEF Located
<1>2. CASE t = s
  BY <1>0, <1>2, IdlePhaseKept
<1>3. ASSUME /\ SameButExit(s, t) /\ ~DirtyFlowPending(s)
             /\ t.shouldClose = s.shouldClose
             /\ t.exitDeferredClose = s.exitDeferredClose,
             Thorough => Covered(t, "ui")
      PROVE  Kept(s, "input", t, "ui")
  <2> HIDE DEF t
  <2>1. Unharmed(s, t) /\ SameKind(s, t)
    BY <1>3, SameIsUnharmed, SameLossesOfTabs, SameTabsKind DEF SameButExit, SameTabs, SameData
  <2>2. /\ t.staleOnDisk = s.staleOnDisk /\ t.pendingSaveKind = s.pendingSaveKind
        /\ t.pendingOpen = s.pendingOpen /\ t.pendingRemoveIdx = s.pendingRemoveIdx
    BY <1>3 DEF SameButExit, SameData, SamePrompts
  <2>3. SaveAsOK(t, "ui") /\ OneExit(t) /\ (NoDeferral => ~t.exitDeferredClose)
    BY <1>0, <1>1, <1>3, <2>2, NoSaveAs DEF OneExit
  <2> QED
    BY <1>0, <1>3, <2>1, <2>2, <2>3, UnharmedKept, SameKindKept
<1>4. CASE /\ ~DirtyFlowPending(s) /\ NothingCollected(s)
           /\ SameButExit(s, t) /\ t.pendingGoHome
           /\ t.showExitDirtyModal = s.showExitDirtyModal
           /\ t.exitSaveAllRunning = s.exitSaveAllRunning
           /\ t.shouldClose = s.shouldClose /\ t.exitDeferredClose = s.exitDeferredClose
  <2> HIDE DEF t
  <2>1. Thorough => s.dirty = {}
    BY <1>0, <1>4, NoneCollected
  <2>2. Thorough => Covered(t, "ui")
    BY <1>0, <1>4, <2>1 DEF Covered, DirtyFlowPending, SameButExit, SameData, SameLosses
  <2>3. Kept(s, "input", t, "ui")
    BY <1>3, <1>4, <2>2
  <2> QED
    BY <2>3 DEF t
<1>5. CASE /\ ~DirtyFlowPending(s) /\ ModalShown(s, t, order)
           /\ t.shouldClose = s.shouldClose /\ t.exitDeferredClose = s.exitDeferredClose
  <2> HIDE DEF t
  <2>1. /\ SameButExit(s, t) /\ t.exitDirtyTabs = order
        /\ t.exitSaveAllRunning = s.exitSaveAllRunning /\ ~s.exitSaveAllRunning
        /\ t.pendingGoHome = s.pendingGoHome
    BY <1>5 DEF ModalShown, DirtyFlowPending
  <2>2. t.sessions = s.sessions /\ t.dirty = s.dirty /\ t.lost = s.lost
    BY <2>1 DEF SameButExit, SameTabs, SameData, SameLosses
  <2>3. Thorough => s.dirty \subseteq Ahead(t, 0)
    BY <1>0, <2>1, <2>2, ModalCovers
  <2>4. Thorough => Covered(t, "ui")
    BY <1>0, <2>1, <2>2, <2>3 DEF Covered
  <2>5. Kept(s, "input", t, "ui")
    BY <1>3, <1>5, <2>1, <2>4
  <2> QED
    BY <2>5 DEF t
<1>6. Kept(s, "input", t, "ui")
  BY <1>0, <1>2, <1>4, <1>5, RequestGoHomeDoes
<1> QED
  BY <1>6

-----------------------------------------------------------------------------
(* The answers of the prompts                                                *)

(* As UnharmedKept, for a step that queues another removal.                  *)
LEMMA RequeuedKept ==
  ASSUME NEW s, NEW p, NEW t, NEW q, Sound(s), Keeps(s, p), Unharmed(s, t), SameLeave(s, t),
         ExpIds = {} /\ Kinds(s) => Kinds(t), q = "closeAll" => p = "closeAll",
         Going(t), SaveAsOK(t, q),
         s.staleOnDisk \subseteq t.staleOnDisk
         \/ s.showStaleDropPrompt \/ s.exitSaveAllRunning \/ p = "open"
  PROVE  Kept(s, p, t, q)
<1>1. TabsOK(s) /\ (ExpIds = {} => Kinds(s))
  BY DEF Keeps
<1>2. /\ TabsOK(t) /\ OneExit(t) /\ (NoDeferral => ~t.exitDeferredClose)
      /\ Thorough => Covered(t, q)
  BY <1>1, UnharmedTabs, SameLeaveKept
<1>3. Keeps(t, q)
  BY <1>1, <1>2 DEF Keeps
<1> QED
  BY <1>3, UnharmedSpares DEF Kept

(* The record after what an answer writes or gives up, before the action     *)
(* that waited.                                                              *)
Ready(s, w) ==
  /\ IsApp(w) /\ Unharmed(s, w) /\ SameLeave(s, w) /\ SameTabs(s, w) /\ SameSwitch(s, w)
  /\ w.pendingSaveKind = s.pendingSaveKind /\ w.pendingOpen = s.pendingOpen
  /\ SameCloses(s, w) /\ w.expDirty \subseteq s.expDirty
  /\ s.staleOnDisk \subseteq w.staleOnDisk \/ s.showStaleDropPrompt

(* The active tab was saved; its stale results are left out if that was      *)
(* agreed to.                                                                *)
LEMMA SavedReady ==
  ASSUME NEW s, TabsOK(s), NEW w, ActiveSaved(s, w), s.active \notin s.stale \/ s.showStaleDropPrompt
  PROVE  Ready(s, w)
<1>1. Unharmed(s, w) /\ SameLeave(s, w)
  BY SameIsUnharmed, SameLossesOfTabs, SameExitLeaves DEF ActiveSaved, SameTabs
<1>2. s.staleOnDisk \subseteq w.staleOnDisk \/ s.showStaleDropPrompt
  BY DEF ActiveSaved, TabsOK
<1> QED
  BY <1>1, <1>2 DEF Ready, ActiveSaved

(* A project is shown in the place of another: the tabs stay.                *)
LEMMA MoreTabsUnharmed ==
  ASSUME NEW s, NEW t, MoreTabs(s, t), ExpsDropped(s, t), s.expDirty \subseteq ExpIds
  PROVE  /\ Unharmed(s, t) /\ SameLeave(s, t) /\ SameKind(s, t)
         /\ t.staleOnDisk = s.staleOnDisk /\ t.pendingSaveKind = s.pendingSaveKind
<1>1. SameTabLosses(s, t) /\ SameLeave(s, t) /\ SameKind(s, t)
  BY DroppedExpsTabs, SameExitLeaves DEF MoreTabs, SameKind
<1> QED
  BY <1>1 DEF MoreTabs, Unharmed, MoreKeys, SameData, SameTabLosses

(* What waited for the answer goes ahead. *)
LEMMA DispatchKept ==
  ASSUME NEW s, Known(s, "ui"), NEW w, Ready(s, w),
         w.pendingWorkspaceAction = s.pendingWorkspaceAction,
         s.pendingTabCloseIdx # 0 => s.active \notin w.dirty,
         NEW outcome \in ProjectOutcomes, NEW saved, NEW tabs \in Seq(Keys)
  PROVE  Kept(s, "ui", DispatchPendingAction(w, outcome, saved, tabs), "swap")
<1> DEFINE t == DispatchPendingAction(w, outcome, saved, tabs)
<1>0. /\ Sound(s) /\ s \in AppStates /\ IsApp(s) /\ s.sessions \in Seq(Keys) /\ ActiveTab(s)
      /\ Located(s, "ui") /\ Keeps(s, "ui") /\ SaveAsOK(s, "ui") /\ Going(s)
      /\ (ExpIds = {} => Kinds(s))
  BY KnownParts
<1>1. /\ Unharmed(s, w) /\ SameLeave(s, w) /\ SameKind(s, w) /\ IsApp(w)
      /\ w.pendingOpen = s.pendingOpen /\ w.pendingRemoveIdx = s.pendingRemoveIdx
      /\ s.staleOnDisk \subseteq w.staleOnDisk \/ s.showStaleDropPrompt
  BY SameTabsKind DEF Ready, SameCloses
<1>2. CASE s.pendingWorkspaceAction = "None"
  <2>1. t = w
    BY <1>1, <1>2, DispatchPendingActionDoes
  <2>2. SaveAsOK(w, "swap")
    BY <1>0 DEF Ready, SaveAsOK, SameTabs, SameSwitch, NoSwitch, SwitchTo, Unharmed
  <2>3. Kept(s, "ui", w, "swap")
    BY <1>0, <1>1, <2>2, QuietKept, SameKindKept
  <2> QED
    BY <2>1, <2>3
<1>3. CASE s.pendingWorkspaceAction # "None"
  <2>1. s.pendingSaveKind # "Workspace" /\ w.pendingSaveKind # "Workspace"
    BY <1>0, <1>3 DEF SaveAsOK, Ready
  <2>2. PICK r : /\ QuestionsAnswered(w, r)
                 /\ w.pendingWorkspaceAction = "CloseWorkspace" =>
                      t = CloseTab(r, r.activeSessionIdx)
                 /\ w.pendingWorkspaceAction = "OpenMultiWorkspace" =>
                      t = ProjectShown(r, outcome, saved, tabs)
    BY <1>1, <1>3, DispatchPendingActionDoes
  <2> HIDE DEF t
  <2>3. /\ Unharmed(w, r) /\ SameLeave(w, r) /\ SameKind(w, r) /\ IsApp(r) /\ SameTabs(w, r)
        /\ r.staleOnDisk = w.staleOnDisk /\ r.pendingSaveKind = w.pendingSaveKind
        /\ r.pendingOpen = w.pendingOpen /\ r.pendingRemoveIdx = w.pendingRemoveIdx
        /\ r.expDirty = w.expDirty /\ r.dirty = w.dirty
    BY <2>2, PromptsUnharmed DEF QuestionsAnswered, SameButPrompts, SameData, SameCloses, SameExps
  <2>4. /\ Unharmed(s, r) /\ SameLeave(s, r) /\ SameTabs(s, r)
        /\ s.staleOnDisk \subseteq r.staleOnDisk \/ s.showStaleDropPrompt
    BY <1>1, <2>3, UnharmedTransitive, SameLeaveTransitive DEF SameTabs, Ready
  <2>5. CASE s.pendingWorkspaceAction = "CloseWorkspace"
    <3>1. /\ t = CloseTab(r, r.activeSessionIdx)
          /\ s.pendingTabCloseIdx # 0 /\ s.active = s.sessions[s.pendingTabCloseIdx]
      BY <1>0, <2>2, <2>5 DEF Located
    <3>2. s.pendingTabCloseIdx \in TabIndices(s)
      BY <1>0, <3>1, FieldTypes DEF Sound, TabQueues
    <3>3. s.active # NoTab
      BY <1>0, <3>1, <3>2, FieldTypes, NoTabAssumption
    <3>4. /\ r.activeSessionIdx \in TabIndices(r) /\ r.activeTabKind = "Workspace"
          /\ r.sessions[r.activeSessionIdx] = s.active /\ r.sessions[r.activeSessionIdx] \notin r.dirty
      BY <1>0, <2>3, <2>4, <3>1, <3>3 DEF ActiveTab, SameTabs
    <3>5. /\ SameButPrompts(r, t) /\ t.pendingRemoveIdx = r.activeSessionIdx
          /\ t.pendingOpen = r.pendingOpen
      BY <2>3, <3>1, <3>4, CloseTabDoes
    <3>6. /\ Unharmed(r, t) /\ SameLeave(r, t) /\ t.staleOnDisk = r.staleOnDisk
          /\ t.sessions = r.sessions /\ t.dirty = r.dirty /\ SameTabs(s, t)
          /\ t.pendingSaveKind = r.pendingSaveKind
      BY <2>4, <3>5, PromptsUnharmed DEF SameButPrompts, SameTabs, SameData
    <3>7. Unharmed(s, t) /\ SameLeave(s, t) /\ SameKind(s, t)
      BY <2>4, <3>6, UnharmedTransitive, SameLeaveTransitive, SameTabsKind
    <3>8. Going(t)
      BY <1>0, <1>1, <2>3, <3>4, <3>5, <3>6, <3>7 DEF Going, Unharmed
    <3>9. SaveAsOK(t, "swap")
      BY <2>1, <2>3, <3>6, NoSaveAs
    <3>10. Kept(s, "ui", t, "swap")
      BY <1>0, <2>4, <3>6, <3>7, <3>8, <3>9, RequeuedKept, SameKindKept
    <3> QED
      BY <3>10 DEF t
  <2>6. CASE s.pendingWorkspaceAction = "OpenMultiWorkspace"
    <3>1. t = ProjectShown(r, outcome, saved, tabs)
      BY <2>2, <2>6
    <3>2. r.sessions \in Seq(Keys)
      BY <1>0, <2>4 DEF SameTabs
    <3>3. MoreTabs(r, t) /\ ExpsDropped(r, t)
      BY <2>3, <3>1, <3>2, ProjectShownDoes
    <3>4. r.expDirty \subseteq ExpIds
      <4>1. s.expDirty \subseteq ExpIds
        BY <1>0 DEF AppStates
      <4> QED
        BY <2>3, <4>1 DEF Ready
    <3>5. /\ Unharmed(r, t) /\ SameLeave(r, t) /\ SameKind(r, t)
          /\ t.staleOnDisk = r.staleOnDisk /\ t.pendingSaveKind = r.pendingSaveKind
      BY <3>3, <3>4, MoreTabsUnharmed
    <3>6. Unharmed(s, t) /\ SameLeave(s, t)
      BY <2>4, <3>5, UnharmedTransitive, SameLeaveTransitive
    <3>7. ExpIds = {} /\ Kinds(s) => Kinds(t)
      BY <2>4, <3>5, SameTabsKind, SameKindKept
    <3>8. t.pendingOpen = s.pendingOpen /\ t.pendingRemoveIdx = s.pendingRemoveIdx
      BY <1>1, <2>3, <3>3 DEF MoreTabs, SamePrompts
    <3>9. SaveAsOK(t, "swap")
      BY <2>1, <2>3, <3>5, NoSaveAs
    <3>10. Kept(s, "ui", t, "swap")
      BY <1>0, <2>4, <3>5, <3>6, <3>7, <3>8, <3>9, QuietKept
    <3> QED
      BY <3>10 DEF t
  <2>7. s.pendingWorkspaceAction \in PendingActions
    BY <1>0 DEF AppStates
  <2> QED
    BY <1>3, <2>5, <2>6, <2>7 DEF PendingActions
<1> QED
  BY <1>2, <1>3

(* The prompt about closing a tab was answered: the tab may go.              *)
LEMMA ResolveKept ==
  ASSUME NEW s, Known(s, "ui"), NEW w, Ready(s, w), s.pendingTabCloseIdx # 0,
         s.active \notin w.dirty \ w.consent
  PROVE  Kept(s, "ui", ResolveTabClose(w), "swap")
<1> DEFINE t == ResolveTabClose(w)
<1>0. /\ Sound(s) /\ Located(s, "ui") /\ Keeps(s, "ui") /\ SaveAsOK(s, "ui") /\ Going(s)
      /\ (ExpIds = {} => Kinds(s)) /\ IsApp(w)
  BY KnownParts DEF Ready
<1>1. /\ SameButPrompts(w, t) /\ t.pendingRemoveIdx = w.pendingTabCloseIdx
      /\ t.pendingWorkspaceAction = "None" /\ t.pendingOpen = w.pendingOpen
  BY <1>0, ClosePromptDoes
<1> HIDE DEF t
<1>2. /\ Unharmed(w, t) /\ SameLeave(w, t) /\ SameTabs(w, t) /\ SameSwitch(w, t)
      /\ t.staleOnDisk = w.staleOnDisk /\ t.dirty = w.dirty /\ t.consent = w.consent
      /\ t.stale = w.stale /\ t.pendingSaveKind = w.pendingSaveKind
  BY <1>1, PromptsUnharmed DEF SameButPrompts, SameData, SameLosses
<1>3. /\ Unharmed(s, t) /\ SameLeave(s, t) /\ SameTabs(s, t)
      /\ s.staleOnDisk \subseteq t.staleOnDisk \/ s.showStaleDropPrompt
  BY <1>2, UnharmedTransitive, SameLeaveTransitive DEF Ready, SameTabs
<1>4. Going(t)
  <2>1. t.pendingRemoveIdx = s.pendingTabCloseIdx /\ t.pendingOpen = s.pendingOpen
    BY <1>1 DEF Ready, SameCloses
  <2>2. t.sessions[t.pendingRemoveIdx] = s.active
    BY <1>0, <1>3, <2>1 DEF Located, SameTabs
  <2> QED
    BY <1>0, <1>2, <1>3, <2>1, <2>2 DEF Going, Unharmed
<1>5. SaveAsOK(t, "swap")
  BY <1>0, <1>1, <1>2 DEF Ready, SaveAsOK, SameTabs, SameSwitch, NoSwitch, SwitchTo, Unharmed
<1>6. Kept(s, "ui", t, "swap")
  BY <1>0, <1>3, <1>4, <1>5, RequeuedKept, SameKindKept, SameTabsKind
<1> QED
  BY <1>6 DEF t

(* An answer that saves and drops nothing, and asks for nothing new.         *)
LEMMA PromptAnswerKept ==
  ASSUME NEW s, Known(s, "ui"), NEW t, SameButPrompts(s, t),
         t.pendingOpen = s.pendingOpen, t.pendingRemoveIdx = s.pendingRemoveIdx,
         t.pendingWorkspaceAction \in {"None", s.pendingWorkspaceAction}
         \/ s.pendingSaveKind # "Workspace"
  PROVE  Kept(s, "ui", t, "swap")
<1>0. Sound(s) /\ Keeps(s, "ui") /\ SaveAsOK(s, "ui")
  BY KnownParts
<1>1. /\ Unharmed(s, t) /\ SameLeave(s, t) /\ SameKind(s, t) /\ t.staleOnDisk = s.staleOnDisk
      /\ SameTabs(s, t) /\ SameSwitch(s, t) /\ t.pendingSaveKind = s.pendingSaveKind
      /\ t.stale = s.stale
  BY PromptsUnharmed DEF SameButPrompts, SameData
<1>2. SaveAsOK(t, "swap")
  BY <1>0, <1>1 DEF SaveAsOK, SameTabs, SameSwitch, NoSwitch, SwitchTo
<1> QED
  BY <1>0, <1>1, <1>2, QuietKept, SameKindKept

(* Save. *)
LEMMA AnswerSaveKept ==
  ASSUME NEW s, Known(s, "ui"), NEW saved, NEW n, NEW outcome \in ProjectOutcomes, NEW loaded,
         NEW tabs \in Seq(Keys)
  PROVE  LET t == AnswerSave(s, saved, n, outcome, loaded, tabs) IN
         Crashed(s, t) \/ Kept(s, "ui", t, "swap")
<1> DEFINE t == AnswerSave(s, saved, n, outcome, loaded, tabs)
<1>0. IsApp(s) /\ TabsOK(s) /\ SaveAsOK(s, "ui")
  BY KnownParts
<1>1. CASE Crashed(s, t)
  BY <1>1
<1> HIDE DEF t
<1>2. ASSUME s.active \in s.stale, SameButPrompts(s, t), t.pendingOpen = s.pendingOpen,
             SameCloses(s, t)
      PROVE  Kept(s, "ui", t, "swap")
  BY <1>0, <1>2, PromptAnswerKept DEF SaveAsOK, SameCloses
<1>3. ASSUME SameButPrompts(s, t), t.pendingOpen = s.pendingOpen,
             t.pendingRemoveIdx = s.pendingRemoveIdx, t.pendingWorkspaceAction = "None"
      PROVE  Kept(s, "ui", t, "swap")
  BY <1>3, PromptAnswerKept
<1>4. ASSUME s.active \notin s.stale, SavedAndAnswered(s, t, n, outcome, loaded, tabs)
      PROVE  Kept(s, "ui", t, "swap")
  <2>1. PICK w : /\ ActiveSaved(s, w)
                 /\ s.pendingTabCloseIdx # 0 => t = ResolveTabClose(w)
                 /\ s.pendingTabCloseIdx = 0 =>
                      /\ w.pendingWorkspaceAction = s.pendingWorkspaceAction
                      /\ t = DispatchPendingAction(w, outcome, loaded, tabs)
    BY <1>4 DEF SavedAndAnswered
  <2>2. Ready(s, w) /\ s.active \notin w.dirty
    BY <1>0, <1>4, <2>1, SavedReady DEF ActiveSaved
  <2>3. s.pendingTabCloseIdx # 0 => Kept(s, "ui", t, "swap")
    BY <2>1, <2>2, ResolveKept
  <2>4. s.pendingTabCloseIdx = 0 => Kept(s, "ui", t, "swap")
    BY <2>1, <2>2, DispatchKept
  <2> QED
    BY <2>3, <2>4
<1> QED
  BY <1>0, <1>2, <1>3, <1>4, AnswerSaveDoes DEF t

(* Don't Save: the tab on screen may be lost.                                *)
LEMMA AnswerDontSaveKept ==
  ASSUME NEW s, Known(s, "ui"), NEW outcome \in ProjectOutcomes, NEW loaded,
         NEW tabs \in Seq(Keys), UnsavedUp(s)
  PROVE  Kept(s, "ui", AnswerDontSave(s, outcome, loaded, tabs), "swap")
<1> DEFINE t == AnswerDontSave(s, outcome, loaded, tabs)
<1>0. /\ IsApp(s) /\ TabsOK(s) /\ Sound(s) /\ Waits(s, "ui") /\ Located(s, "ui")
  BY KnownParts
<1>1. PICK r : /\ IsApp(r) /\ SamePrompts(s, r) /\ SameSwitch(s, r) /\ SameExit(s, r)
               /\ SameTabs(s, r) /\ SameData(s, r) /\ SameExps(s, r) /\ r.lost = s.lost
               /\ r.consent = s.consent \cup NamedByPrompt(s)
               /\ s.pendingTabCloseIdx # 0 => t = ResolveTabClose(r)
               /\ s.pendingTabCloseIdx = 0 =>
                    t = DispatchPendingAction(r, outcome, loaded, tabs)
  BY <1>0, AnswerDontSaveDoes
<1> HIDE DEF t
<1>2. Unharmed(s, r) /\ SameLeave(s, r)
  BY <1>1, SameExitLeaves DEF Unharmed, MoreKeys, SameTabs, SameData
<1>3. Ready(s, r) /\ r.pendingWorkspaceAction = s.pendingWorkspaceAction
  BY <1>1, <1>2 DEF Ready, SamePrompts, SameData, SameExps, SameCloses
<1>4. s.active \notin r.dirty \ r.consent
  <2>1. NoTab \notin s.dirty
    BY <1>0, TabKeysTyped DEF TabsOK
  <2> QED
    BY <1>1, <2>1 DEF NamedByPrompt, SameData
<1>5. s.pendingTabCloseIdx # 0 => Kept(s, "ui", t, "swap")
  BY <1>1, <1>3, <1>4, ResolveKept
<1>6. s.pendingTabCloseIdx = 0 => Kept(s, "ui", t, "swap")
  BY <1>1, <1>3, DispatchKept
<1>7. Kept(s, "ui", t, "swap")
  BY <1>5, <1>6
<1> QED
  BY <1>7 DEF t

(* Cancel.                                                                   *)
LEMMA AnswerCancelKept ==
  ASSUME NEW s, Known(s, "ui")
  PROVE  Kept(s, "ui", AnswerCancel(s), "swap")
<1> DEFINE t == AnswerCancel(s)
<1>0. IsApp(s) /\ Sound(s) /\ Keeps(s, "ui") /\ SaveAsOK(s, "ui")
  BY KnownParts
<1>1. /\ SameSwitch(s, t) /\ SameTabs(s, t) /\ SameData(s, t) /\ SameLosses(s, t)
      /\ t.pendingWorkspaceAction = "None" /\ t.pendingOpen = s.pendingOpen
      /\ t.pendingRemoveIdx = s.pendingRemoveIdx /\ SameLeave(s, t)
  BY <1>0, ClosePromptDoes DEF SameLeave
<1> HIDE DEF t
<1>2. Unharmed(s, t) /\ SameKind(s, t)
  BY <1>1, SameIsUnharmed, SameLossesOfTabs, SameTabsKind DEF SameTabs, SameData
<1>3. SaveAsOK(t, "swap")
  BY <1>0, <1>1 DEF SaveAsOK, SameTabs, SameSwitch, SameData, NoSwitch, SwitchTo
<1>4. Kept(s, "ui", t, "swap")
  BY <1>0, <1>1, <1>2, <1>3, QuietKept, SameKindKept DEF SameData
<1> QED
  BY <1>4 DEF t

(* The answers of the stale prompt.                                          *)
LEMMA StaleAnswersKept ==
  ASSUME NEW s, Known(s, "ui"), NEW saved, NEW outcome \in ProjectOutcomes, NEW loaded,
         NEW tabs \in Seq(Keys), StaleUp(s)
  PROVE  /\ Crashed(s, StaleCancel(s)) \/ Kept(s, "ui", StaleCancel(s), "swap")
         /\ \/ Crashed(s, StaleDrop(s, saved, outcome, loaded, tabs))
            \/ Kept(s, "ui", StaleDrop(s, saved, outcome, loaded, tabs), "swap")
<1>0. /\ IsApp(s) /\ TabsOK(s) /\ Sound(s) /\ Keeps(s, "ui") /\ s.showStaleDropPrompt
  BY KnownParts DEF StaleUp
<1>1. Crashed(s, StaleCancel(s)) \/ Kept(s, "ui", StaleCancel(s), "swap")
  <2> DEFINE t == StaleCancel(s)
  <2> HIDE DEF t
  <2>1. ASSUME SameButPrompts(s, t), t.pendingOpen = s.pendingOpen, SameCloses(s, t),
               t.pendingWorkspaceAction = s.pendingWorkspaceAction
        PROVE  Kept(s, "ui", t, "swap")
    BY <2>1, PromptAnswerKept DEF SameCloses
  <2> QED
    BY <1>0, <2>1, StaleAnswersDo DEF t
<1>2. \/ Crashed(s, StaleDrop(s, saved, outcome, loaded, tabs))
      \/ Kept(s, "ui", StaleDrop(s, saved, outcome, loaded, tabs), "swap")
  <2> DEFINE t == StaleDrop(s, saved, outcome, loaded, tabs)
  <2> HIDE DEF t
  <2>1. t = s => Kept(s, "ui", t, "swap")
    BY <1>0, IdlePhaseKept
  <2>2. ASSUME DroppedAndDispatched(s, t, outcome, loaded, tabs)
        PROVE  Kept(s, "ui", t, "swap")
    <3>1. PICK w : /\ ActiveSaved(s, w)
                   /\ w.pendingWorkspaceAction = s.pendingWorkspaceAction
                   /\ t = DispatchPendingAction(w, outcome, loaded, tabs)
      BY <2>2 DEF DroppedAndDispatched
    <3>2. Ready(s, w) /\ s.active \notin w.dirty
      BY <1>0, <3>1, SavedReady DEF ActiveSaved
    <3> QED
      BY <3>1, <3>2, DispatchKept
  <2> QED
    BY <1>0, <2>1, <2>2, StaleAnswersDo DEF t
<1> QED
  BY <1>1, <1>2

(* Discard All lets go of all that is on the list of the exit modal.         *)
LEMMA DiscardAllCleans ==
  ASSUME NEW s, Sound(s), s.dirty \subseteq Ahead(s, 0)
  PROVE  s.dirty \ {s.sessions[i] : i \in Range(s.exitDirtyTabs) \cap TabIndices(s)} = {}
<1>1. /\ s.exitDirtyTabs \in Seq(Nat) /\ Len(s.exitDirtyTabs) \in Nat
      /\ \A n \in 1 .. Len(s.exitDirtyTabs) : s.exitDirtyTabs[n] \in TabIndices(s)
  BY FieldTypes DEF Sound, WorkList, ListsTabs
<1>2. DOMAIN s.exitDirtyTabs = 1 .. Len(s.exitDirtyTabs)
  BY <1>1, LenProperties
<1>3. \A n \in 1 .. Len(s.exitDirtyTabs) :
        s.exitDirtyTabs[n] \in Range(s.exitDirtyTabs) \cap TabIndices(s)
  BY <1>1, <1>2 DEF Range
<1> QED
  BY <1>3 DEF Ahead

(* The answers of the exit modal.                                            *)
LEMMA ExitAnswersKept ==
  ASSUME NEW s, Known(s, "ui"), ExitUp(s)
  PROVE  /\ Kept(s, "ui", ExitSaveAll(s), "swap") /\ Kept(s, "ui", ExitCancel(s), "swap")
         /\ Kept(s, "ui", ExitDiscardAll(s), "swap")
<1>0. /\ Sound(s) /\ IsApp(s) /\ Keeps(s, "ui") /\ OneExit(s) /\ SaveAsOK(s, "ui")
      /\ (ExpIds = {} => Kinds(s)) /\ (Thorough => Covered(s, "ui"))
      /\ (NoDeferral => ~s.exitDeferredClose) /\ s.showExitDirtyModal
      /\ ~s.exitSaveAllRunning /\ ~s.shouldClose
  BY KnownParts DEF ExitUp, OneExit, Sound, WorkList
<1>1. ASSUME NEW t, SameButFlow(s, t), Unharmed(s, t), t.staleOnDisk = s.staleOnDisk,
             OneExit(t), t.exitDeferredClose => s.exitDeferredClose,
             Thorough => Covered(t, "swap")
      PROVE  Kept(s, "ui", t, "swap")
  <2>1. SaveAsOK(t, "swap")
    BY <1>0, <1>1 DEF SaveAsOK, SameButFlow, SamePrompts, SameTabs, SameSwitch, NoSwitch, SwitchTo
  <2>2. SameKind(s, t)
    BY <1>1, SameTabsKind DEF SameButFlow
  <2> QED
    BY <1>0, <1>1, <2>1, <2>2, UnharmedKept, SameKindKept DEF SameButFlow, SamePrompts
<1>2. Kept(s, "ui", ExitSaveAll(s), "swap")
  <2> DEFINE t == ExitSaveAll(s)
  <2>1. /\ SameButFlow(s, t) /\ SameData(s, t) /\ SameLosses(s, t)
        /\ ~t.showExitDirtyModal /\ t.exitSaveAllRunning /\ t.exitSaveAllCursor = 0
        /\ t.exitDirtyTabs = s.exitDirtyTabs
        /\ t.pendingGoHome = s.pendingGoHome /\ t.shouldClose = s.shouldClose
        /\ t.exitDeferredClose = s.exitDeferredClose
    BY <1>0, ExitAnswersDo
  <2> HIDE DEF t
  <2>2. Unharmed(s, t)
    BY <2>1, SameIsUnharmed, SameLossesOfTabs DEF SameButFlow, SameTabs, SameData
  <2>3. Ahead(t, 0) = Ahead(s, 0)
    BY <2>1 DEF Ahead, SameButFlow, SameTabs
  <2>4. Thorough => Covered(t, "swap")
    BY <1>0, <2>1, <2>3 DEF Covered, SameData, SameLosses
  <2>5. OneExit(t) /\ t.staleOnDisk = s.staleOnDisk
    BY <1>0, <2>1 DEF OneExit, SameData
  <2>6. Kept(s, "ui", t, "swap")
    BY <1>1, <2>1, <2>2, <2>4, <2>5
  <2> QED
    BY <2>6 DEF t
<1>3. Kept(s, "ui", ExitCancel(s), "swap")
  <2> DEFINE t == ExitCancel(s)
  <2>1. /\ SameButFlow(s, t) /\ SameData(s, t) /\ SameLosses(s, t)
        /\ ~t.showExitDirtyModal /\ t.exitSaveAllRunning = s.exitSaveAllRunning
        /\ t.pendingGoHome = s.pendingGoHome /\ t.shouldClose = s.shouldClose
        /\ ~t.exitDeferredClose
    BY <1>0, ExitAnswersDo
  <2> HIDE DEF t
  <2>2. Unharmed(s, t)
    BY <2>1, SameIsUnharmed, SameLossesOfTabs DEF SameButFlow, SameTabs, SameData
  <2>3. Thorough => Covered(t, "swap")
    BY <1>0, <2>1 DEF Covered, SameData, SameLosses
  <2>4. OneExit(t) /\ t.staleOnDisk = s.staleOnDisk
    BY <1>0, <2>1 DEF OneExit, SameData
  <2>5. Kept(s, "ui", t, "swap")
    BY <1>1, <2>1, <2>2, <2>3, <2>4
  <2> QED
    BY <2>5 DEF t
<1>4. Kept(s, "ui", ExitDiscardAll(s), "swap")
  <2> DEFINE t    == ExitDiscardAll(s)
             tabs == {s.sessions[i] : i \in Range(s.exitDirtyTabs) \cap TabIndices(s)}
             exps == {s.experiments[i] : i \in s.exitDirtyExperiments \cap ExpIndices(s)}
  <2>1. /\ SameButFlow(s, t) /\ t.staleOnDisk = s.staleOnDisk
        /\ t.dirty = s.dirty \ tabs /\ t.consent = s.consent \cup tabs \cup exps
        /\ ~t.showExitDirtyModal /\ t.exitSaveAllRunning = s.exitSaveAllRunning
        /\ t.exitDeferredClose = s.exitDeferredClose
    BY <1>0, ExitAnswersDo
  <2>2. Thorough => s.dirty \ tabs = {}
    BY <1>0, DiscardAllCleans DEF Covered
  <2> HIDE DEF t, tabs, exps
  <2>3. Unharmed(s, t)
    BY <2>1 DEF Unharmed, MoreKeys, SameButFlow, SameTabs
  <2>4. Thorough => Covered(t, "swap")
    BY <1>0, <2>1, <2>2 DEF Covered, SameButFlow
  <2>5. OneExit(t)
    BY <1>0, <2>1 DEF OneExit
  <2>6. Kept(s, "ui", t, "swap")
    BY <1>1, <2>1, <2>3, <2>4, <2>5
  <2> QED
    BY <2>6 DEF t
<1> QED
  BY <1>2, <1>3, <1>4

-----------------------------------------------------------------------------
(* The clicks                                                                *)

(* Where nothing waits and the program is not being left little needs to be  *)
(* looked after.                                                             *)
Loose(s) ==
  /\ IsApp(s) /\ s.sessions \in Seq(Keys) /\ KeysUnique(s) /\ TabsOK(s)
  /\ ~Leaving(s, "swap") /\ s.pendingRemoveIdx = 0 /\ s.pendingOpen = NoTab
  /\ s.pendingSaveKind # "Workspace"
  /\ ExpIds = {} => Kinds(s)
  /\ Thorough => s.lost \cap Keys = {}
  /\ NoDeferral => ~s.exitDeferredClose

(* What is known where a widget is clicked.                                  *)
Free(s) ==
  /\ NoClicks /\ Sound(s) /\ Idle(s) /\ Staying(s) /\ Keeps(s, "ui")
  /\ s.pendingSaveKind # "Workspace"

(* There nothing waits, and the program is not being left.                   *)
LEMMA FreeIsLoose ==
  ASSUME NEW s, Free(s)
  PROVE  Loose(s) /\ NothingWaits(s) /\ Sound(s) /\ s \in AppStates /\ Keeps(s, "ui")
<1>1. IsApp(s) /\ s.sessions \in Seq(Keys) /\ KeysUnique(s) /\ s \in AppStates
  BY FieldsOf, FieldTypes DEF Free, Sound
<1>2. NothingWaits(s) /\ ~Leaving(s, "swap")
  BY DEF Free, Idle, Staying
<1> QED
  BY <1>1, <1>2 DEF Free, Loose, Keeps, Covered, NothingWaits

(* What is dirty is a tab. *)
LEMMA NoTabIsClean ==
  ASSUME NEW s, s.sessions \in Seq(Keys), TabsOK(s)
  PROVE  NoTab \notin s.dirty /\ TabKeys(s) = Range(s.sessions)
<1>1. /\ Len(s.sessions) \in Nat /\ DOMAIN s.sessions = TabIndices(s)
      /\ \A i \in TabIndices(s) : s.sessions[i] \in Keys
  BY LenProperties, ElementOfSeq
<1> QED
  BY <1>1, NoTabAssumption DEF TabsOK, TabKeys, Range

(* It stays so by a click that harms no tab.                                 *)
LEMMA LooseStays ==
  ASSUME NEW s, Loose(s), NEW t, IsApp(t), t.sessions = s.sessions,
         Unharmed(s, t), SameLeave(s, t), SameKind(s, t),
         t.pendingSaveKind = s.pendingSaveKind, t.pendingOpen = s.pendingOpen,
         t.pendingRemoveIdx = s.pendingRemoveIdx
  PROVE  Loose(t)
<1>1. TabsOK(t) /\ KeysUnique(t)
  BY UnharmedTabs DEF Loose, KeysUnique
<1>2. ~Leaving(t, "swap") /\ (NoDeferral => ~t.exitDeferredClose)
  BY DEF Loose, Leaving, SameLeave
<1>3. ExpIds = {} => Kinds(t)
  BY SameKindKept DEF Loose
<1> QED
  BY <1>1, <1>2, <1>3 DEF Loose, Unharmed

(* The invariant holds after a click that harms no tab and queues nothing.   *)
LEMMA LooseKeeps ==
  ASSUME NEW s, Loose(s), NEW t, Unharmed(s, t), SameLeave(s, t),
         ExpIds = {} /\ Kinds(s) => Kinds(t), t.pendingSaveKind # "Workspace", Going(t)
  PROVE  /\ Keeps(t, "swap")
         /\ s.staleOnDisk \subseteq t.staleOnDisk => Kept(s, "ui", t, "swap")
<1>1. TabsOK(t)
  BY UnharmedTabs DEF Loose
<1>2. OneExit(t) /\ (NoDeferral => ~t.exitDeferredClose) /\ (Thorough => Covered(t, "swap"))
  BY DEF Loose, Leaving, SameLeave, OneExit, Covered, Unharmed
<1>3. Keeps(t, "swap")
  BY <1>1, <1>2, NoSaveAs DEF Keeps, Loose
<1> QED
  BY <1>3, UnharmedSpares DEF Kept

(* A click that asks for no tab to be opened or removed.                     *)
LEMMA HarmlessClickKept ==
  ASSUME NEW s, Loose(s), NEW t, Unharmed(s, t), SameLeave(s, t),
         ExpIds = {} /\ Kinds(s) => Kinds(t), t.staleOnDisk = s.staleOnDisk,
         t.pendingSaveKind = s.pendingSaveKind, t.pendingOpen = s.pendingOpen,
         t.pendingRemoveIdx = s.pendingRemoveIdx
  PROVE  Kept(s, "ui", t, "swap")
<1>1. Going(t)
  BY NoTabIsClean DEF Loose, Going, Unharmed
<1> QED
  BY <1>1, LooseKeeps DEF Loose

(* The tabs in the strip. *)
LEMMA SwitchClicksKept ==
  ASSUME NEW s, Loose(s)
  PROVE  /\ Kept(s, "ui", FocusSessionTab(s), "swap")
         /\ \A idx : Kept(s, "ui", SwapInSession(s, idx), "swap")
<1>1. ASSUME NEW t, SameButSwitch(s, t)
      PROVE  Kept(s, "ui", t, "swap")
  BY <1>1, SwitchUnharmed, HarmlessClickKept, SameKindKept
<1>2. SameButSwitch(s, FocusSessionTab(s)) /\ \A idx : SameButSwitch(s, SwapInSession(s, idx))
  BY FocusSessionTabDoes, SwapInSessionDoes DEF Loose
<1> QED
  BY <1>1, <1>2

(* A tab that goes at once was clean, or its dataset is gone already.        *)
LEMMA RemovedAtOnceKept ==
  ASSUME NEW s, Loose(s), NEW idx \in TabIndices(s), s.sessions[idx] \notin s.dirty \ s.consent
  PROVE  LET t == RemoveTab(s, idx) IN
         /\ Kept(s, "ui", t, "swap")
         /\ TabKeys(t) \subseteq TabKeys(s) /\ s.sessions[idx] \notin TabKeys(t)
<1>1. OneExit(s) /\ ~Leaving(s, "swap")
  BY DEF Loose, OneExit, Leaving
<1> QED
  BY <1>1, RemovalKept, NoTabIsClean DEF Loose

(* The x of a tab. *)
LEMMA CloseTabKept ==
  ASSUME NEW s, Loose(s), NEW idx \in TabIndices(s)
  PROVE  Kept(s, "ui", CloseTab(s, idx), "swap")
<1> DEFINE t        == CloseTab(s, idx)
           isActive == idx = s.activeSessionIdx /\ s.activeTabKind = "Workspace"
<1>0. IsApp(s)
  BY DEF Loose
<1> HIDE DEF isActive
<1>1. CASE s.sessions[idx] \in s.dirty /\ isActive
  <2>1. /\ SameButPrompts(s, t) /\ t.pendingOpen = s.pendingOpen
        /\ t.pendingRemoveIdx = s.pendingRemoveIdx
    BY <1>0, <1>1, CloseTabDoes DEF isActive
  <2> HIDE DEF t
  <2>2. /\ Unharmed(s, t) /\ SameLeave(s, t) /\ SameKind(s, t) /\ t.staleOnDisk = s.staleOnDisk
        /\ t.pendingSaveKind = s.pendingSaveKind
    BY <2>1, PromptsUnharmed DEF SameButPrompts, SameData
  <2>3. Kept(s, "ui", t, "swap")
    BY <2>1, <2>2, HarmlessClickKept, SameKindKept
  <2> QED
    BY <2>3 DEF t
<1>2. CASE s.sessions[idx] \in s.dirty /\ ~isActive
  <2>1. /\ SameExit(s, t) /\ SameTabs(s, t) /\ SameData(s, t) /\ SameLosses(s, t)
        /\ t.pendingOpen = s.pendingOpen /\ t.pendingRemoveIdx = s.pendingRemoveIdx
    BY <1>0, <1>2, CloseTabDoes DEF isActive
  <2> HIDE DEF t
  <2>2. Unharmed(s, t) /\ SameLeave(s, t) /\ SameKind(s, t)
    BY <2>1, SameIsUnharmed, SameLossesOfTabs, SameExitLeaves, SameTabsKind DEF SameTabs, SameData
  <2>3. Kept(s, "ui", t, "swap")
    BY <2>1, <2>2, HarmlessClickKept, SameKindKept DEF SameData
  <2> QED
    BY <2>3 DEF t
<1>3. CASE s.sessions[idx] \notin s.dirty /\ isActive
  <2>1. SameButPrompts(s, t) /\ t.pendingRemoveIdx = idx /\ t.pendingOpen = s.pendingOpen
    BY <1>0, <1>3, CloseTabDoes DEF isActive
  <2> HIDE DEF t
  <2>2. /\ Unharmed(s, t) /\ SameLeave(s, t) /\ SameKind(s, t) /\ t.staleOnDisk = s.staleOnDisk
        /\ t.pendingSaveKind = s.pendingSaveKind /\ t.sessions = s.sessions /\ t.dirty = s.dirty
    BY <2>1, PromptsUnharmed DEF SameButPrompts, SameData, SameTabs
  <2>3. Going(t)
    BY <1>3, <2>1, <2>2, NoTabIsClean DEF Loose, Going
  <2>4. Kept(s, "ui", t, "swap")
    BY <2>2, <2>3, LooseKeeps, SameKindKept DEF Loose
  <2> QED
    BY <2>4 DEF t
<1>4. CASE s.sessions[idx] \notin s.dirty /\ ~isActive
  <2>1. t = RemoveTab(s, idx)
    BY <1>0, <1>4, CloseTabDoes DEF isActive
  <2> QED
    BY <1>4, <2>1, RemovedAtOnceKept
<1> QED
  BY <1>1, <1>2, <1>3, <1>4

(* A file or a source is opened: in a tab of its own, there is no other.     *)
LEMMA OpenInNewTabKept ==
  ASSUME NEW s, Loose(s), NEW key \in Keys
  PROVE  LET t == OpenInNewTab(s, key) IN
         /\ Kept(s, "ui", t, "swap") /\ t.staleOnDisk = s.staleOnDisk /\ t.lost = s.lost
         /\ TabKeys(t) \subseteq TabKeys(s) \cup {key}
<1> DEFINE t == OpenInNewTab(s, key)
<1>0. IsApp(s) /\ s.sessions \in Seq(Keys) /\ TabsOK(s) /\ s.pendingRemoveIdx = 0
  BY DEF Loose
<1>1. CASE key \in Range(s.sessions)
  <2>1. SameButSwitch(s, t)
    BY <1>0, <1>1, OpenInNewTabDoes
  <2> HIDE DEF t
  <2>2. Kept(s, "ui", t, "swap")
    BY <2>1, SwitchUnharmed, HarmlessClickKept, SameKindKept
  <2>3. t.staleOnDisk = s.staleOnDisk /\ t.lost = s.lost /\ TabKeys(t) = TabKeys(s)
    BY <2>1 DEF SameButSwitch, SameData, SameLosses, SameTabs, TabKeys
  <2> QED
    BY <2>2, <2>3 DEF t
<1>2. CASE key \notin Range(s.sessions)
  <2>1. /\ SameExit(s, t) /\ SameData(s, t) /\ SameLosses(s, t) /\ SameCloses(s, t)
        /\ t.activeTabKind = s.activeTabKind /\ t.activeSessionIdx = s.activeSessionIdx
        /\ t.sessions = Append(s.sessions, key) /\ t.pendingOpen = key
    BY <1>0, <1>2, OpenInNewTabDoes
  <2> HIDE DEF t
  <2>2. /\ Len(s.sessions) \in Nat /\ Len(t.sessions) = Len(s.sessions) + 1
        /\ \A i \in 1 .. Len(s.sessions) : t.sessions[i] = s.sessions[i]
        /\ t.sessions[Len(s.sessions) + 1] = key
    BY <1>0, <2>1, AppendProperties, LenProperties
  <2>3. TabKeys(t) \subseteq TabKeys(s) \cup {key}
    <3>1. \A i \in TabIndices(t) : i \in TabIndices(s) \/ i = Len(s.sessions) + 1
      BY <2>2
    <3> QED
      BY <2>2, <3>1 DEF TabKeys
  <2>4. Unharmed(s, t)
    BY <2>1, <2>2 DEF Unharmed, MoreKeys, SameData, SameLosses
  <2>5. SameLeave(s, t) /\ SameKind(s, t)
    BY <2>1, SameExitLeaves DEF SameKind
  <2>6. Going(t)
    BY <1>0, <1>2, <2>1, NoTabIsClean DEF Going, SameData, SameCloses, TabsOK
  <2>7. Kept(s, "ui", t, "swap") /\ t.staleOnDisk = s.staleOnDisk /\ t.lost = s.lost
    BY <2>1, <2>4, <2>5, <2>6, LooseKeeps, SameKindKept DEF Loose, SameData, SameLosses
  <2> QED
    BY <2>3, <2>7 DEF t
<1> QED
  BY <1>1, <1>2

(* An experiment that goes is no tab.                                        *)
LEMMA RemovedExpTabs ==
  ASSUME NEW s, IsApp(s), s.experiments \in Seq(ExpIds), NEW idx \in Nat
  PROVE  SameTabLosses(s, RemoveExperiment(s, idx))
<1> DEFINE e       == s.experiments[idx]
           erased  == [s EXCEPT !.experiments = RemoveAt(@, idx),
                           !.expDirty = @ \ {e}, !.expHidden = @ \ {e},
                           !.expSaved = @ \ {e},
                           !.lost = @ \cup (({e} \cap s.expDirty) \ s.consent),
                           !.consent = @ \ {e}]
           r       == [erased EXCEPT !.activeExperimentIdx = Reindex(@, idx)]
           refocus == IF s.activeTabKind # "Experiment" THEN erased
                      ELSE IF r.activeExperimentIdx = 0 THEN FocusSessionTab(r) ELSE r
           u       == [refocus EXCEPT
                         !.pendingExperimentIdx = Reindex(@, idx),
                         !.exitDirtyExperiments = {Reindex(x, idx) : x \in @ \ {idx}}]
           t       == RemoveExperiment(s, idx)
<1>1. t = IF idx \notin ExpIndices(s) THEN s ELSE u
  BY DEF RemoveExperiment
<1>2. /\ IsApp(erased) /\ erased.consent = s.consent \ {e}
      /\ erased.lost = s.lost \cup (({e} \cap s.expDirty) \ s.consent)
  BY DEF IsApp, AppFields
<1>3. idx \in ExpIndices(s) => e \in ExpIds
  BY LenProperties, ElementOfSeq
<1>4. idx \in ExpIndices(s) => SameTabLosses(s, erased)
  BY <1>2, <1>3, IdentitiesAssumption DEF SameTabLosses
<1> HIDE DEF erased
<1>5. IsApp(r) /\ r.consent = erased.consent /\ r.lost = erased.lost
  BY <1>2 DEF IsApp, AppFields
<1> HIDE DEF r
<1>6. FocusSessionTab(r).consent = r.consent /\ FocusSessionTab(r).lost = r.lost
      /\ IsApp(FocusSessionTab(r))
  BY <1>5, FocusSessionTabDoes DEF SameButSwitch, SameLosses
<1>7. IsApp(refocus) /\ refocus.consent = erased.consent /\ refocus.lost = erased.lost
  BY <1>2, <1>5, <1>6
<1> HIDE DEF refocus
<1>8. u.consent = erased.consent /\ u.lost = erased.lost
  BY <1>7 DEF IsApp, AppFields
<1> HIDE DEF u, t
<1>9. SameTabLosses(s, t)
  BY <1>1, <1>4, <1>8 DEF SameTabLosses
<1> QED
  BY <1>9 DEF t

(* Nor is one that is deleted, or changed.                                   *)
LEMMA ExpChangesTabs ==
  ASSUME NEW s, s \in AppStates
  PROVE  /\ \A idx \in Nat : SameTabLosses(s, RequestDelete(s, idx))
         /\ SameTabLosses(s, ConfirmExperimentDelete(s))
         /\ s.activeExperimentIdx \in ExpIndices(s) => SameTabLosses(s, EditActiveExperiment(s))
<1>0. /\ IsApp(s) /\ s.experiments \in Seq(ExpIds) /\ s.pendingExperimentDeleteIdx \in Nat
      /\ \A i \in ExpIndices(s) : s.experiments[i] \in ExpIds
  BY FieldsOf, FieldTypes DEF AppStates
<1>1. ASSUME NEW idx \in Nat PROVE SameTabLosses(s, RequestDelete(s, idx))
  <2> DEFINE t == RequestDelete(s, idx)
             q == [s EXCEPT !.pendingExperimentDeleteIdx = idx]
             r == RemoveExperiment(s, idx)
  <2>1. t = IF s.experiments[idx] \in s.expDirty \cup s.expSaved THEN q ELSE r
    BY DEF RequestDelete
  <2>2. SameTabLosses(s, q)
    BY <1>0 DEF IsApp, AppFields, SameTabLosses
  <2>3. SameTabLosses(s, r)
    BY <1>0, RemovedExpTabs
  <2> HIDE DEF q, r, t
  <2>4. SameTabLosses(s, t)
    BY <2>1, <2>2, <2>3
  <2> QED
    BY <2>4 DEF t
<1>2. SameTabLosses(s, ConfirmExperimentDelete(s))
  <2> DEFINE idx    == s.pendingExperimentDeleteIdx
             agreed == {s.experiments[i] : i \in {idx} \cap ExpIndices(s)}
             c      == [s EXCEPT !.consent = @ \cup agreed]
             r      == RemoveExperiment(c, idx)
             t      == [r EXCEPT !.pendingExperimentDeleteIdx = 0]
  <2>1. agreed \cap Keys = {}
    BY <1>0, IdentitiesAssumption
  <2>2. /\ IsApp(c) /\ c.experiments = s.experiments /\ c.lost = s.lost
        /\ c.consent = s.consent \cup agreed
    BY <1>0 DEF IsApp, AppFields
  <2> HIDE DEF agreed, c
  <2>3. SameTabLosses(c, r) /\ IsApp(r)
    BY <1>0, <2>2, RemovedExpTabs, RemoveExperimentDoes DEF OnlyExps
  <2> HIDE DEF r
  <2>4. t.consent = r.consent /\ t.lost = r.lost
    BY <2>3 DEF IsApp, AppFields
  <2>5. ConfirmExperimentDelete(s) = t
    BY DEF ConfirmExperimentDelete, r, c, agreed
  <2> HIDE DEF t
  <2> QED
    BY <2>1, <2>2, <2>3, <2>4, <2>5 DEF SameTabLosses
<1>3. ASSUME s.activeExperimentIdx \in ExpIndices(s)
      PROVE  SameTabLosses(s, EditActiveExperiment(s))
  <2>1. /\ EditActiveExperiment(s).lost = s.lost
        /\ EditActiveExperiment(s).consent = s.consent \ {s.experiments[s.activeExperimentIdx]}
    BY <1>0 DEF EditActiveExperiment, IsApp, AppFields
  <2>2. s.experiments[s.activeExperimentIdx] \notin Keys
    BY <1>0, <1>3, IdentitiesAssumption
  <2> QED
    BY <2>1, <2>2 DEF SameTabLosses
<1> QED
  BY <1>1, <1>2, <1>3

(* What is done to experiments does no tab any harm.                         *)
LEMMA OnlyExpsUnharmed ==
  ASSUME NEW s, NEW t, OnlyExps(s, t), SameTabs(s, t), SameTabLosses(s, t)
  PROVE  /\ Unharmed(s, t) /\ SameLeave(s, t) /\ SameKind(s, t)
         /\ t.staleOnDisk = s.staleOnDisk /\ t.pendingSaveKind = s.pendingSaveKind
         /\ t.pendingOpen = s.pendingOpen /\ t.pendingRemoveIdx = s.pendingRemoveIdx
  BY SameIsUnharmed, SameExitLeaves, SameTabsKind DEF OnlyExps, SamePrompts, SameData

(* The widgets of experiments.                                               *)
LEMMA ExperimentClickKept ==
  ASSUME NEW s, Free(s)
  PROVE  /\ s.activeTabKind = "Experiment" /\ s.activeExperimentIdx # 0
            => Kept(s, "ui", EditActiveExperiment(s), "swap")
         /\ \A e : Kept(s, "ui", CreateExperiment(s, e), "swap")
         /\ \A idx : /\ Kept(s, "ui", ActivateExperiment(s, idx), "swap")
                     /\ Kept(s, "ui", CloseRequest(s, idx), "swap")
         /\ \A idx \in Nat : Kept(s, "ui", RequestDelete(s, idx), "swap")
<1>0. /\ Loose(s) /\ IsApp(s) /\ s \in AppStates /\ ExperimentQueues(s)
      /\ Len(s.experiments) \in Nat
  BY FreeIsLoose, FieldTypes DEF Loose, Sound
<1>1. ASSUME NEW t, OnlyExps(s, t), SameTabs(s, t), SameTabLosses(s, t)
      PROVE  Kept(s, "ui", t, "swap")
  BY <1>0, <1>1, OnlyExpsUnharmed, HarmlessClickKept, SameKindKept
<1>2. ASSUME NEW t, OnlyExps(s, t), SameTabs(s, t), SameLosses(s, t)
      PROVE  Kept(s, "ui", t, "swap")
  BY <1>1, <1>2, SameLossesOfTabs
<1>3. ASSUME s.activeTabKind = "Experiment", s.activeExperimentIdx # 0
      PROVE  Kept(s, "ui", EditActiveExperiment(s), "swap")
  <2>1. s.activeExperimentIdx \in ExpIndices(s)
    BY <1>0, <1>3 DEF ExperimentQueues
  <2> QED
    BY <1>0, <1>1, <2>1, EditActiveExperimentDoes, ExpChangesTabs
<1>4. \A e : Kept(s, "ui", CreateExperiment(s, e), "swap")
  BY <1>0, <1>2, CreateExperimentDoes
<1>5. \A idx : /\ Kept(s, "ui", ActivateExperiment(s, idx), "swap")
               /\ Kept(s, "ui", CloseRequest(s, idx), "swap")
  BY <1>0, <1>2, ActivateExperimentDoes, CloseRequestDoes
<1>6. \A idx \in Nat : Kept(s, "ui", RequestDelete(s, idx), "swap")
  BY <1>0, <1>1, ExperimentDeleteDoes, ExpChangesTabs
<1> QED
  BY <1>3, <1>4, <1>5, <1>6

(* The answers about deleting an experiment.                                 *)
LEMMA DeleteAnswersKept ==
  ASSUME NEW s, Known(s, "ui")
  PROVE  /\ Kept(s, "ui", ConfirmExperimentDelete(s), "swap")
         /\ Kept(s, "ui", CancelExperimentDelete(s), "swap")
<1>0. /\ IsApp(s) /\ Sound(s) /\ s \in AppStates /\ ActiveTab(s) /\ Keeps(s, "ui")
      /\ SaveAsOK(s, "ui")
  BY KnownParts
<1>1. ASSUME NEW t, OnlyExps(s, t), SameTabs(s, t), SameTabLosses(s, t),
             s.activeTabKind # "Experiment" /\ NoSwitch(s) => NoSwitch(t)
      PROVE  Kept(s, "ui", t, "swap")
  <2>1. /\ Unharmed(s, t) /\ SameLeave(s, t) /\ SameKind(s, t)
        /\ t.staleOnDisk = s.staleOnDisk /\ t.pendingSaveKind = s.pendingSaveKind
        /\ t.pendingOpen = s.pendingOpen /\ t.pendingRemoveIdx = s.pendingRemoveIdx
    BY <1>1, OnlyExpsUnharmed
  <2>2. s.active # NoTab => s.activeTabKind # "Experiment"
    BY <1>0 DEF ActiveTab
  <2>3. SaveAsOK(t, "swap")
    BY <1>0, <1>1, <2>1, <2>2 DEF SaveAsOK, OnlyExps, SamePrompts, SameData
  <2> QED
    BY <1>0, <2>1, <2>3, QuietKept, SameKindKept
<1>2. Kept(s, "ui", ConfirmExperimentDelete(s), "swap")
  BY <1>0, <1>1, ExperimentDeleteDoes, ExpChangesTabs
<1>3. Kept(s, "ui", CancelExperimentDelete(s), "swap")
  <2> DEFINE t == CancelExperimentDelete(s)
  <2>1. OnlyExps(s, t) /\ SameTabs(s, t) /\ SameSwitch(s, t) /\ SameLosses(s, t)
    BY <1>0, ExperimentDeleteDoes
  <2> HIDE DEF t
  <2>2. SameTabLosses(s, t) /\ (NoSwitch(s) => NoSwitch(t))
    BY <2>1, SameLossesOfTabs DEF SameSwitch, NoSwitch, SwitchTo
  <2>3. Kept(s, "ui", t, "swap")
    BY <1>1, <2>1, <2>2
  <2> QED
    BY <2>3 DEF t
<1> QED
  BY <1>2, <1>3

(* A project is opened: from the menu, the welcome screen or the project's   *)
(* panel.                                                                    *)
LEMMA OpenProjectKept ==
  ASSUME NEW s, Free(s), NEW outcome \in ProjectOutcomes, NEW saved, NEW tabs \in Seq(Keys)
  PROVE  /\ Kept(s, "ui", OpenProject(s, outcome, saved, tabs), "swap")
         /\ Kept(s, "ui", ProjectShown(s, outcome, saved, tabs), "swap")
<1>0. /\ Loose(s) /\ IsApp(s) /\ s.sessions \in Seq(Keys) /\ s.expDirty \subseteq ExpIds
  BY FreeIsLoose DEF Loose, AppStates
<1>1. ASSUME NEW t, MoreTabs(s, t), ExpsDropped(s, t)
      PROVE  Kept(s, "ui", t, "swap")
  <2>1. /\ Unharmed(s, t) /\ SameLeave(s, t) /\ SameKind(s, t)
        /\ t.staleOnDisk = s.staleOnDisk /\ t.pendingSaveKind = s.pendingSaveKind
    BY <1>0, <1>1, MoreTabsUnharmed
  <2>2. t.pendingOpen = s.pendingOpen /\ t.pendingRemoveIdx = s.pendingRemoveIdx
    BY <1>1 DEF MoreTabs, SamePrompts
  <2> QED
    BY <1>0, <2>1, <2>2, HarmlessClickKept, SameKindKept
<1> QED
  BY <1>0, <1>1, OpenProjectDoes, ProjectShownDoes

(* The project at home is opened again.                                      *)
LEMMA OpenSameProjectKept ==
  ASSUME NEW s, Free(s), NEW loaded, NEW tabs \in Seq(Keys)
  PROVE  Kept(s, "ui",
              [RestoreOpenEmbeddedTabs(LoadExperiments(FocusSessionTab(s), loaded), tabs)
                 EXCEPT !.welcome = FALSE], "swap")
<1> DEFINE f == FocusSessionTab(s)
           l == LoadExperiments(f, loaded)
           p == RestoreOpenEmbeddedTabs(l, tabs)
           g == [p EXCEPT !.welcome = FALSE]
<1>0. /\ Loose(s) /\ IsApp(s) /\ s.sessions \in Seq(Keys) /\ s.expDirty \subseteq ExpIds
  BY FreeIsLoose DEF Loose, AppStates
<1>1. /\ MoreTabs(s, f) /\ f.sessions = s.sessions /\ SameLosses(s, f)
      /\ f.activeTabKind = s.activeTabKind
  BY <1>0, FocusSessionTabDoes DEF SameButSwitch, MoreTabs, SameTabs
<1> HIDE DEF f
<1>2. IsApp(f)
  BY <1>1 DEF MoreTabs
<1>3. OnlyExps(f, l) /\ SameLosses(f, l) /\ l.activeTabKind = f.activeTabKind
  BY <1>2, LoadExperimentsDoes DEF SameTabs
<1> HIDE DEF l
<1>4. MoreTabs(f, l) /\ IsApp(l) /\ l.sessions \in Seq(Keys)
  BY <1>0, <1>1, <1>3, OnlyExpsIsMoreTabs DEF OnlyExps
<1>5. MoreTabs(l, p) /\ IsApp(p) /\ SameLosses(l, p) /\ p.activeTabKind = l.activeTabKind
  BY <1>4, RestoreTabsDoes DEF MoreTabs
<1> HIDE DEF p
<1>6. MoreTabs(p, g) /\ SameLosses(p, g) /\ g.activeTabKind = p.activeTabKind
  BY <1>5 DEF IsApp, AppFields, MoreTabs, SamePrompts, SameExit, SameData, SameLosses
<1> HIDE DEF g
<1>7. MoreTabs(s, g)
  BY <1>1, <1>4, <1>5, <1>6, MoreTabsTransitive
<1>8. ExpsDropped(s, g)
  BY <1>1, <1>3, <1>5, <1>6 DEF ExpsDropped, SameLosses
<1>9. /\ Unharmed(s, g) /\ SameLeave(s, g) /\ SameKind(s, g)
      /\ g.staleOnDisk = s.staleOnDisk /\ g.pendingSaveKind = s.pendingSaveKind
  BY <1>0, <1>7, <1>8, MoreTabsUnharmed
<1>10. g.pendingOpen = s.pendingOpen /\ g.pendingRemoveIdx = s.pendingRemoveIdx
  BY <1>7 DEF MoreTabs, SamePrompts
<1>11. Kept(s, "ui", g, "swap")
  BY <1>0, <1>9, <1>10, HarmlessClickKept, SameKindKept
<1> QED
  BY <1>11 DEF g, p, l, f

(* Another project: in its prompt, or at once.                               *)
LEMMA ReplaceProjectKept ==
  ASSUME NEW s, Free(s), NEW outcome \in ProjectOutcomes, NEW saved, NEW tabs \in Seq(Keys)
  PROVE  Kept(s, "ui", RequestReplaceProject(s, outcome, saved, tabs), "swap")
<1> DEFINE t == RequestReplaceProject(s, outcome, saved, tabs)
<1>0. /\ Loose(s) /\ IsApp(s) /\ s.sessions \in Seq(Keys) /\ s.expDirty \subseteq ExpIds
  BY FreeIsLoose DEF Loose, AppStates
<1>1. \/ /\ SameButPrompts(s, t) /\ t.pendingOpen = s.pendingOpen /\ SameCloses(s, t)
      \/ \E r : QuestionsAnswered(s, r) /\ t = ProjectShown(r, outcome, saved, tabs)
  BY <1>0, RequestReplaceProjectDoes
<1> HIDE DEF t
<1>2. ASSUME NEW r, SameButPrompts(s, r), r.pendingOpen = s.pendingOpen, SameCloses(s, r)
      PROVE  /\ Unharmed(s, r) /\ SameLeave(s, r) /\ SameKind(s, r)
             /\ r.staleOnDisk = s.staleOnDisk /\ r.pendingSaveKind = s.pendingSaveKind
             /\ r.pendingRemoveIdx = s.pendingRemoveIdx
  BY <1>2, PromptsUnharmed DEF SameButPrompts, SameData, SameCloses
<1>3. CASE SameButPrompts(s, t) /\ t.pendingOpen = s.pendingOpen /\ SameCloses(s, t)
  <2>1. Kept(s, "ui", t, "swap")
    BY <1>0, <1>2, <1>3, HarmlessClickKept, SameKindKept
  <2> QED
    BY <2>1 DEF t
<1>4. ASSUME NEW r, QuestionsAnswered(s, r), t = ProjectShown(r, outcome, saved, tabs)
      PROVE  Kept(s, "ui", t, "swap")
  <2>1. /\ IsApp(r) /\ r.sessions = s.sessions /\ r.expDirty = s.expDirty
        /\ SameButPrompts(s, r) /\ r.pendingOpen = s.pendingOpen /\ SameCloses(s, r)
    BY <1>4 DEF QuestionsAnswered, SameButPrompts, SameTabs, SameExps
  <2>2. /\ Unharmed(s, r) /\ SameLeave(s, r) /\ SameKind(s, r)
        /\ r.staleOnDisk = s.staleOnDisk /\ r.pendingSaveKind = s.pendingSaveKind
        /\ r.pendingRemoveIdx = s.pendingRemoveIdx
    BY <1>2, <2>1
  <2>3. MoreTabs(r, t) /\ ExpsDropped(r, t)
    BY <1>0, <1>4, <2>1, ProjectShownDoes
  <2>4. /\ Unharmed(r, t) /\ SameLeave(r, t) /\ SameKind(r, t)
        /\ t.staleOnDisk = r.staleOnDisk /\ t.pendingSaveKind = r.pendingSaveKind
    BY <1>0, <2>1, <2>3, MoreTabsUnharmed
  <2>5. t.pendingOpen = r.pendingOpen /\ t.pendingRemoveIdx = r.pendingRemoveIdx
    BY <2>3 DEF MoreTabs, SamePrompts
  <2>6. Unharmed(s, t) /\ SameLeave(s, t) /\ (ExpIds = {} /\ Kinds(s) => Kinds(t))
    BY <2>2, <2>4, UnharmedTransitive, SameLeaveTransitive, SameKindKept
  <2> QED
    BY <1>0, <2>1, <2>2, <2>4, <2>5, <2>6, HarmlessClickKept
<1> QED
  BY <1>1, <1>3, <1>4 DEF t

(* Save As from the menu, and a change made in the active tab.               *)
LEMMA ActiveTabClicksKept ==
  ASSUME NEW s, Free(s), s.active # NoTab
  PROVE  /\ Kept(s, "ui", RequestSaveAs(s), "swap")
         /\ \A spoils \in Spoils :
              (Thorough => ~(s.showExitDirtyModal \/ s.exitSaveAllRunning \/ s.pendingGoHome))
              => Kept(s, "ui", EditActiveTab(s, spoils), "swap")
<1>0. /\ Loose(s) /\ NothingWaits(s) /\ Sound(s) /\ Keeps(s, "ui")
      /\ NoSwitch(s)
  BY FreeIsLoose DEF Free, Staying
<1>1. Kept(s, "ui", RequestSaveAs(s), "swap")
  BY <1>0, RequestSavesKept DEF Loose, NothingWaits, NoPrompt
<1>2. ASSUME NEW spoils \in Spoils,
             Thorough => ~(s.showExitDirtyModal \/ s.exitSaveAllRunning \/ s.pendingGoHome)
      PROVE  Kept(s, "ui", EditActiveTab(s, spoils), "swap")
  BY <1>0, <1>2, EditKept DEF Loose
<1> QED
  BY <1>1, <1>2

(* A dataset is deleted, with its tab: that was agreed to.                   *)
LEMMA RemoveDatasetKept ==
  ASSUME NEW s, Free(s), NEW key
  PROVE  Kept(s, "ui", RemoveDataset(s, key), "swap")
<1> DEFINE r   == [s EXCEPT !.consent = @ \cup {key}]
           idx == IndexOf(s.sessions, key)
           t   == RemoveTab(r, idx)
<1>0. Loose(s) /\ IsApp(s) /\ s.sessions \in Seq(Keys) /\ Sound(s) /\ Keeps(s, "ui")
      /\ s.pendingSaveKind # "Workspace"
  BY FreeIsLoose DEF Loose
<1>1. RemoveDataset(s, key) = IF key \notin Range(s.sessions) THEN s ELSE t
  BY DEF RemoveDataset
<1>2. key \in Range(s.sessions) => idx \in TabIndices(s) /\ s.sessions[idx] = key
  BY <1>0, IndexOfElement
<1>3. /\ IsApp(r) /\ SameExit(s, r) /\ SameTabs(s, r) /\ SameData(s, r) /\ r.lost = s.lost
      /\ r.pendingOpen = s.pendingOpen /\ r.pendingRemoveIdx = s.pendingRemoveIdx
      /\ r.showStaleDropPrompt = s.showStaleDropPrompt /\ key \in r.consent
  BY <1>0 DEF IsApp, AppFields, SameExit, SameTabs, SameData
<1> HIDE DEF r, idx
<1>4. Loose(r)
  BY <1>0, <1>3 DEF Loose, KeysUnique, TabsOK, TabKeys, Leaving, Kinds, SameExit, SameTabs, SameData
<1>5. ASSUME key \in Range(s.sessions)
      PROVE  Kept(s, "ui", t, "swap")
  <2>1. idx \in TabIndices(r) /\ r.sessions[idx] = key
    BY <1>2, <1>3, <1>5 DEF SameTabs
  <2>2. Kept(r, "ui", t, "swap")
    BY <1>3, <1>4, <2>1, RemovedAtOnceKept
  <2> HIDE DEF t
  <2> QED
    BY <1>3, <2>2 DEF Kept, Spares, SameData, SameExit
<1>6. Kept(s, "ui", s, "swap")
  BY <1>0, IdlePhaseKept
<1> HIDE DEF t
<1> QED
  BY <1>1, <1>5, <1>6

(* Where a tab without changes went at once, things are as loose.            *)
LEMMA RemovedStaysLoose ==
  ASSUME NEW s, Loose(s), NEW idx \in TabIndices(s), s.sessions[idx] \notin s.dirty
  PROVE  LET t == RemoveTab(s, idx) IN
         /\ Loose(t) /\ t.lost = s.lost
         /\ t.staleOnDisk = s.staleOnDisk \ {s.sessions[idx]}
<1> DEFINE t == RemoveTab(s, idx)
           v == s.sessions
<1>1. Keeps(t, "swap")
  BY RemovedAtOnceKept DEF Kept
<1>2. /\ IsApp(t) /\ t.sessions = RemoveAt(v, idx)
      /\ t.pendingSaveKind = s.pendingSaveKind /\ t.pendingOpen = s.pendingOpen
      /\ t.pendingRemoveIdx = Reindex(s.pendingRemoveIdx, idx)
      /\ t.lost = s.lost \cup (({s.sessions[idx]} \cap s.dirty) \ s.consent)
      /\ t.staleOnDisk = s.staleOnDisk \ {s.sessions[idx]}
      /\ t.showExitDirtyModal = s.showExitDirtyModal
      /\ t.exitSaveAllRunning = s.exitSaveAllRunning
      /\ t.pendingGoHome = s.pendingGoHome /\ t.shouldClose = s.shouldClose
  BY RemoveTabDoes DEF Loose
<1>3. /\ v \in Seq(Keys) /\ idx \in 1 .. Len(v) /\ Len(v) \in Nat
      /\ \A m, n \in 1 .. Len(v) : v[m] = v[n] => m = n
  BY LenProperties DEF Loose, KeysUnique
<1> HIDE DEF t, v
<1>4. /\ t.sessions \in Seq(Keys) /\ Len(t.sessions) = Len(v) - 1
      /\ \A j \in 1 .. Len(v) - 1 : t.sessions[j] = IF j < idx THEN v[j] ELSE v[j + 1]
  BY <1>2, <1>3, RemoveAtElements
<1>5. KeysUnique(t)
  <2> SUFFICES ASSUME NEW m \in TabIndices(t), NEW n \in TabIndices(t),
                      t.sessions[m] = t.sessions[n]
               PROVE  m = n
    BY DEF KeysUnique
  <2>1. m \in 1 .. Len(v) - 1 /\ n \in 1 .. Len(v) - 1
    BY <1>4
  <2>2. (IF m < idx THEN m ELSE m + 1) = (IF n < idx THEN n ELSE n + 1)
    BY <1>3, <1>4, <2>1
  <2> QED
    BY <1>3, <2>1, <2>2
<1>6. t.pendingRemoveIdx = 0 /\ ~Leaving(t, "swap") /\ t.lost = s.lost
  BY <1>2, <1>3 DEF Loose, Reindex, Leaving
<1>7. Loose(t)
  BY <1>1, <1>2, <1>4, <1>5, <1>6 DEF Loose, Keeps, Covered
<1> QED
  BY <1>2, <1>6, <1>7 DEF t

(* A multi-workspace is made: the tab it embeds has been saved, so it goes   *)
(* at once, and its embedded copy is opened.                                 *)
LEMMA CreateMultiWorkspaceKept ==
  ASSUME NEW s, Free(s), NEW saved, NEW created, NEW outcome \in ProjectOutcomes,
         NEW key \in Keys, key \notin Range(s.sessions),
         s.activeTabKind = "Session", CreateSource(s) # 0
  PROVE  Kept(s, "ui", CreateMultiWorkspace(s, saved, created, outcome, key), "swap")
<1> DEFINE src       == s.sessions[CreateSource(s)]
           more      == IF src \in s.dirty \cap s.stale
                        THEN s.staleOnDisk \cup {src} ELSE s.staleOnDisk
           autosaved == [s EXCEPT !.dirty = @ \ {src}, !.staleOnDisk = more]
           opened    == OpenProject(autosaved, outcome, << >>, << >>)
           idx       == IndexOf(opened.sessions, src)
           swapped   == CloseTab(opened, idx)
           u         == OpenInNewTab(swapped, key)
<1>0. /\ Loose(s) /\ IsApp(s) /\ s.sessions \in Seq(Keys) /\ Sound(s) /\ Keeps(s, "ui")
      /\ s.pendingSaveKind # "Workspace" /\ s.expDirty \subseteq ExpIds
      /\ CreateSource(s) \in TabIndices(s)
  <2>1. Loose(s) /\ IsApp(s) /\ s.sessions \in Seq(Keys) /\ Sound(s) /\ Keeps(s, "ui")
        /\ s.pendingSaveKind # "Workspace" /\ s.expDirty \subseteq ExpIds
    BY FreeIsLoose DEF Loose, AppStates
  <2>2. TabQueues(s) /\ Len(s.sessions) \in Nat
    BY <2>1, LenProperties DEF Sound
  <2>3. CreateSource(s) \in 0 .. Len(s.sessions)
    BY <2>2 DEF CreateSource, TabQueues
  <2> QED
    BY <2>1, <2>2, <2>3
<1>1. CreateMultiWorkspace(s, saved, created, outcome, key) \in {s, autosaved, u}
  BY DEF CreateMultiWorkspace
<1>2. src \in Range(s.sessions) /\ src \in TabKeys(s)
  BY <1>0, LenProperties DEF Range, TabKeys
<1>3. /\ s.staleOnDisk \subseteq more /\ more \subseteq s.staleOnDisk \cup s.stale
      /\ src # key
  BY <1>2
<1> HIDE DEF src, more
<1>4. /\ IsApp(autosaved) /\ SamePrompts(s, autosaved) /\ SameExit(s, autosaved)
      /\ autosaved.stale = s.stale /\ SameTabs(s, autosaved) /\ SameLosses(s, autosaved)
      /\ autosaved.dirty = s.dirty \ {src} /\ autosaved.staleOnDisk = more
      /\ autosaved.pendingSaveKind = s.pendingSaveKind
      /\ autosaved.expDirty = s.expDirty
  BY <1>0 DEF IsApp, AppFields, SamePrompts, SameExit, SameTabs, SameLosses
<1> HIDE DEF autosaved
<1>5. /\ Unharmed(s, autosaved) /\ SameLeave(s, autosaved) /\ SameKind(s, autosaved)
      /\ s.staleOnDisk \subseteq autosaved.staleOnDisk
      /\ autosaved.pendingOpen = s.pendingOpen
      /\ autosaved.pendingRemoveIdx = s.pendingRemoveIdx
      /\ autosaved.sessions = s.sessions
  <2>1. SameTabLosses(s, autosaved) /\ autosaved.sessions = s.sessions
    BY <1>4, SameLossesOfTabs DEF SameTabs
  <2>2. Unharmed(s, autosaved)
    BY <1>3, <1>4, <2>1, SameIsUnharmed
  <2> QED
    BY <1>3, <1>4, <2>1, <2>2, SameExitLeaves, SameTabsKind DEF SamePrompts
<1>6. Loose(autosaved)
  BY <1>0, <1>4, <1>5, LooseStays
<1>7. Kept(s, "ui", autosaved, "swap")
  <2>1. Going(autosaved)
    BY <1>0, <1>5, <1>6, NoTabIsClean DEF Loose, Going
  <2> QED
    BY <1>0, <1>4, <1>5, <2>1, LooseKeeps, SameKindKept DEF Loose
<1>8. /\ MoreTabs(autosaved, opened) /\ ExpsDropped(autosaved, opened)
      /\ outcome = "opened" => opened.sessions = s.sessions \o << >>
      /\ outcome # "opened" => opened.sessions = s.sessions
  <2>1. << >> \in Seq(Keys) /\ autosaved.sessions \in Seq(Keys) /\ IsApp(autosaved)
    BY <1>0, <1>4, <1>5
  <2>2. ASSUME NEW none \in Seq(Keys)
        PROVE  LET p == OpenProject(autosaved, outcome, none, none) IN
               /\ MoreTabs(autosaved, p) /\ ExpsDropped(autosaved, p)
               /\ outcome = "opened" => p.sessions = autosaved.sessions \o none
               /\ outcome # "opened" => p.sessions = autosaved.sessions
    BY <2>1, OpenProjectDoes
  <2> QED
    BY <1>5, <2>1, <2>2
<1> HIDE DEF opened
<1>9. opened.sessions = s.sessions
  <2>1. s.sessions \o << >> = s.sessions
    BY <1>0, ConcatEmptySeq
  <2> QED
    BY <1>8, <2>1
<1>10. /\ Unharmed(autosaved, opened) /\ SameLeave(autosaved, opened)
       /\ SameKind(autosaved, opened) /\ opened.staleOnDisk = autosaved.staleOnDisk
       /\ opened.pendingSaveKind = autosaved.pendingSaveKind
  BY <1>0, <1>4, <1>8, MoreTabsUnharmed
<1>11. /\ IsApp(opened) /\ opened.dirty = autosaved.dirty
       /\ opened.pendingOpen = autosaved.pendingOpen
       /\ opened.pendingRemoveIdx = autosaved.pendingRemoveIdx
       /\ opened.activeTabKind # "Workspace"
  BY <1>4, <1>8 DEF MoreTabs, SamePrompts, SameData, ExpsDropped, SameTabs
<1>12. Loose(opened)
  BY <1>5, <1>6, <1>9, <1>10, <1>11, LooseStays
<1>13. idx \in TabIndices(opened) /\ opened.sessions[idx] = src
  BY <1>0, <1>2, <1>9, IndexOfElement
<1> HIDE DEF idx
<1>14. opened.sessions[idx] \notin opened.dirty
  BY <1>4, <1>11, <1>13
<1>15. swapped = RemoveTab(opened, idx)
  BY <1>11, <1>13, <1>14, CloseTabDoes
<1>16. /\ Loose(swapped) /\ swapped.lost = opened.lost
       /\ swapped.staleOnDisk = opened.staleOnDisk \ {src}
       /\ src \notin TabKeys(swapped)
  BY <1>12, <1>13, <1>14, <1>15, RemovedStaysLoose, RemovedAtOnceKept
<1> HIDE DEF swapped
<1>17. /\ Keeps(u, "swap") /\ u.staleOnDisk = swapped.staleOnDisk /\ u.lost = swapped.lost
       /\ TabKeys(u) \subseteq TabKeys(swapped) \cup {key}
  BY <1>16, OpenInNewTabKept DEF Kept
<1> HIDE DEF u
<1>18. s.staleOnDisk \ u.staleOnDisk \subseteq {src} /\ src \notin TabKeys(u)
  BY <1>3, <1>5, <1>10, <1>16, <1>17
<1>19. u.lost \cap Keys = s.lost \cap Keys
  BY <1>5, <1>10, <1>16, <1>17 DEF Unharmed
<1>20. Kept(s, "ui", u, "swap")
  BY <1>17, <1>18, <1>19 DEF Kept, Spares
<1>21. Kept(s, "ui", s, "swap")
  BY <1>0, IdlePhaseKept
<1> QED
  BY <1>1, <1>7, <1>20, <1>21

-----------------------------------------------------------------------------
(* What waits for an answer                                                  *)

(* Nothing more waits for an answer than before, or the program has crashed. *)
AsksNoMore(s, t) ==
  t.nullDeref = TRUE \/ t.pendingWorkspaceAction \in {"None", s.pendingWorkspaceAction}

(* The removal of a tab leaves alone what waits. *)
LEMMA RemovalAsksNothing ==
  ASSUME NEW s, IsApp(s), NEW idx
  PROVE  RemoveTab(s, idx).pendingWorkspaceAction = s.pendingWorkspaceAction
<1>1. idx \notin TabIndices(s) => RemoveTab(s, idx) = s
  BY DEF RemoveTab
<1>2. idx \in TabIndices(s) =>
        RemoveTab(s, idx).pendingWorkspaceAction = s.pendingWorkspaceAction
  BY RemoveTabDoes
<1> QED
  BY <1>1, <1>2

(* What waits for an answer was asked for by a click. *)
LEMMA FrameAsksNothing ==
  ASSUME NEW s, s \in AppStates
  PROVE  /\ AsksNoMore(s, ExecutePendingSwap(s))
         /\ \A outcome : AsksNoMore(s, ExecutePendingOpen(s, outcome))
         /\ \A saved, m, n : AsksNoMore(s, ExecutePendingSave(s, saved, m, n))
         /\ AsksNoMore(s, RaiseClosePrompt(s)) /\ AsksNoMore(s, RunPendingRemove(s))
         /\ \A saved, n : AsksNoMore(s, AdvanceExitSaveAll(s, saved, n))
         /\ AsksNoMore(s, s)
         /\ AsksNoMore(s, [s EXCEPT !.pendingGoHome = FALSE, !.exitTargetIsGoHome = FALSE])
         /\ \A idx : AsksNoMore(s, RemoveTab(s, idx))
         /\ AsksNoMore(s, FinishGoHome(s))
<1>0. IsApp(s)
  BY FieldsOf
<1>1. AsksNoMore(s, ExecutePendingSwap(s))
  BY <1>0, ExecutePendingSwapDoes DEF SamePrompts, AsksNoMore
<1>2. ASSUME NEW outcome PROVE AsksNoMore(s, ExecutePendingOpen(s, outcome))
  <2> DEFINE t == ExecutePendingOpen(s, outcome)
  <2>1. \/ Crashed(s, t)
        \/ OpenTaken(s, t)
        \/ TabLoaded(s, t)
        \/ \E r : /\ OpenTaken(s, r)
                  /\ t = [RemoveTab(r, r.activeSessionIdx) EXCEPT !.activeTabKind = "Session"]
    BY <1>0, ExecutePendingOpenDoes
  <2> HIDE DEF t
  <2>2. Crashed(s, t) \/ OpenTaken(s, t) \/ TabLoaded(s, t) => AsksNoMore(s, t)
    BY DEF Crashed, OpenTaken, TabLoaded, SameQuestions, NoPrompt, AsksNoMore
  <2>3. ASSUME NEW r, OpenTaken(s, r),
               t = [RemoveTab(r, r.activeSessionIdx) EXCEPT !.activeTabKind = "Session"]
        PROVE  AsksNoMore(s, t)
    <3> DEFINE v == RemoveTab(r, r.activeSessionIdx)
    <3>1. IsApp(r) /\ r.pendingWorkspaceAction = s.pendingWorkspaceAction
      BY <2>3 DEF OpenTaken, SameButPrompts, SameQuestions
    <3>2. v.pendingWorkspaceAction = s.pendingWorkspaceAction
      BY <3>1, RemovalAsksNothing
    <3> HIDE DEF v
    <3>3. t.pendingWorkspaceAction = v.pendingWorkspaceAction
      BY <2>3 DEF v
    <3> QED
      BY <3>2, <3>3 DEF AsksNoMore
  <2>4. AsksNoMore(s, t)
    BY <2>1, <2>2, <2>3
  <2> QED
    BY <2>4 DEF t
<1>3. ASSUME NEW saved, NEW m, NEW n PROVE AsksNoMore(s, ExecutePendingSave(s, saved, m, n))
  <2> DEFINE t == ExecutePendingSave(s, saved, m, n)
  <2>1. Crashed(s, t) \/ SamePrompts(s, t)
    BY ExecutePendingSaveDoes
  <2> HIDE DEF t
  <2>2. AsksNoMore(s, t)
    BY <2>1 DEF Crashed, SamePrompts, AsksNoMore
  <2> QED
    BY <2>2 DEF t
<1>4. AsksNoMore(s, RaiseClosePrompt(s)) /\ AsksNoMore(s, s)
  BY <1>0, ClosePromptDoes DEF AsksNoMore
<1>5. AsksNoMore(s, RunPendingRemove(s))
  <2>1. LET r == [s EXCEPT !.pendingRemoveIdx = 0] IN
        IsApp(r) /\ r.pendingWorkspaceAction = s.pendingWorkspaceAction
    BY <1>0 DEF IsApp, AppFields
  <2>2. RemoveTab([s EXCEPT !.pendingRemoveIdx = 0], s.pendingRemoveIdx).pendingWorkspaceAction
          = s.pendingWorkspaceAction
    BY <2>1, RemovalAsksNothing
  <2> QED
    BY <2>2 DEF RunPendingRemove, AsksNoMore
<1>6. ASSUME NEW saved, NEW n PROVE AsksNoMore(s, AdvanceExitSaveAll(s, saved, n))
  <2>1. AsksNoMore(s, FinishSaveAll(s, n))
    BY <1>0, FinishSaveAllDoes DEF SameButFlow, SamePrompts, AsksNoMore
  <2>2. AsksNoMore(s, SaveAllTab(s, saved))
    <3>1. AsksNoMore(s, AbandonSaveAll(s))
      BY <1>0 DEF AbandonSaveAll, IsApp, AppFields, AsksNoMore
    <3> QED
      BY <1>0, <3>1, SaveAllTabDoes DEF SameButSwitch, Crashed, SamePrompts, AsksNoMore
  <2> QED
    BY <1>4, <2>1, <2>2 DEF AdvanceExitSaveAll
<1>7. AsksNoMore(s, [s EXCEPT !.pendingGoHome = FALSE, !.exitTargetIsGoHome = FALSE])
  BY <1>0 DEF IsApp, AppFields, AsksNoMore
<1>8. \A idx : AsksNoMore(s, RemoveTab(s, idx))
  BY <1>0, RemovalAsksNothing DEF AsksNoMore
<1>9. AsksNoMore(s, FinishGoHome(s))
  BY <1>0, FinishGoHomeDoes DEF SamePrompts, AsksNoMore
<1> QED
  BY <1>1, <1>2, <1>3, <1>4, <1>5, <1>6, <1>7, <1>8, <1>9

(* Nor do the window, the background and the keyboard ask for such a thing.  *)
LEMMA EventsAskNothing ==
  ASSUME NEW s, s \in AppStates
  PROVE  /\ \A pressed \in BOOLEAN : \A order : AsksNoMore(s, PollEvents(s, pressed, order))
         /\ \A spoils : AsksNoMore(s, EditActiveTab(s, spoils))
         /\ AsksNoMore(s, RequestSaveEverything(s)) /\ AsksNoMore(s, RequestSaveAs(s))
         /\ \A order : AsksNoMore(s, RequestGoHome(s, order))
<1>0. IsApp(s)
  BY FieldsOf
<1>1. ASSUME NEW pressed \in BOOLEAN, NEW order PROVE AsksNoMore(s, PollEvents(s, pressed, order))
  BY PollEventsDoes DEF SameButExit, SamePrompts, AsksNoMore
<1>2. ASSUME NEW spoils PROVE AsksNoMore(s, EditActiveTab(s, spoils))
  BY <1>0, EditActiveTabDoes DEF SamePrompts, AsksNoMore
<1>3. AsksNoMore(s, RequestSaveEverything(s)) /\ AsksNoMore(s, RequestSaveAs(s))
  BY <1>0, RequestSavesDo DEF SamePrompts, AsksNoMore
<1>4. ASSUME NEW order PROVE AsksNoMore(s, RequestGoHome(s, order))
  BY <1>0, RequestGoHomeDoes DEF SameButExit, ModalShown, SamePrompts, AsksNoMore
<1> QED
  BY <1>1, <1>2, <1>3, <1>4

-----------------------------------------------------------------------------
(* The invariant of the specification                                        *)

(* Nothing that waits for an answer is unknown to the keyboard; no tab was   *)
(* lost that was not to be, and none is left to lose when the window closes. *)
KeepInv ==
  /\ pc \notin {"closed", "crashed"} =>
       /\ Keeps(app, pc)
       /\ app.pendingWorkspaceAction # "None" => wantCapture
  /\ Thorough => app.lost \cap Keys = {}
  /\ NoDeferral /\ ExpIds = {} /\ pc = "closed" => app.dirty = {}

(* What every step is shown to do. *)
StepKept == KeepInv' /\ Spares(app, pc, app')

(* It holds at launch.                                                       *)
LEMMA InitKeep == Init => KeepInv
<1> SUFFICES ASSUME Init PROVE KeepInv
  OBVIOUS
<1>1. app = Launched /\ pc = "swap"
  BY DEF Init
<1>2. /\ app.sessions = << >> /\ app.dirty = {} /\ app.stale = {} /\ app.staleOnDisk = {}
      /\ app.lost = {} /\ app.pendingRemoveIdx = 0 /\ app.pendingOpen = NoTab
      /\ app.pendingSaveKind = "None" /\ app.pendingWorkspaceAction = "None"
      /\ ~app.shouldClose /\ ~app.exitDeferredClose /\ ~app.showExitDirtyModal
      /\ ~app.exitSaveAllRunning /\ ~app.pendingGoHome
      /\ app.activeTabKind = "Workspace"
  BY <1>1 DEF Launched
<1>3. /\ TabsOK(app) /\ Going(app) /\ SaveAsOK(app, "swap") /\ OneExit(app) /\ Kinds(app)
      /\ Covered(app, "swap")
  BY <1>2 DEF TabsOK, Going, SaveAsOK, OneExit, Kinds, Covered
<1> QED
  BY <1>1, <1>2, <1>3 DEF KeepInv, Keeps

(* What is known of the record of the running program. *)
LEMMA RunningKnown ==
  ASSUME NoClicks, Inv, FlowInv, KeepInv, pc \notin {"closed", "crashed"}
  PROVE  Known(app, pc) /\ app \in AppStates
  BY DEF Inv, FlowInv, KeepInv, Known, Sound

(* A phase has run, to its end or into the null pointer.                     *)
LEMMA KeepStep ==
  ASSUME NoClicks, KeepInv, FlowInv', NEW from, NEW t, NEW q, Step(from, t, q),
         from \notin {"closed", "crashed"}, q # "closed",
         Crashed(app, t) \/ Kept(app, from, t, q),
         IF from = "ui" THEN q = "swap" ELSE AsksNoMore(app, t)
  PROVE  StepKept
<1>1. /\ app' = t /\ pc = from /\ pc' = (IF t.nullDeref THEN "crashed" ELSE q)
      /\ wantCapture' = IF from = "ui" THEN ModalUp(t) ELSE wantCapture
  BY DEF Step
<1>2. Keeps(app, from) /\ (app.pendingWorkspaceAction # "None" => wantCapture)
  BY <1>1 DEF KeepInv
<1>3. CASE Crashed(app, t)
  <2>1. pc' = "crashed" /\ t.lost = app.lost /\ t.staleOnDisk = app.staleOnDisk
    BY <1>1, <1>3 DEF Crashed
  <2> QED
    BY <1>1, <2>1 DEF StepKept, KeepInv, Spares
<1>4. CASE Kept(app, from, t, q)
  <2>1. Keeps(t, q) /\ Spares(app, pc, app') /\ pc' # "closed"
    BY <1>1, <1>4 DEF Kept
  <2>2. Thorough => t.lost \cap Keys = {}
    BY <2>1 DEF Keeps, Covered
  <2>3. ASSUME pc' \notin {"closed", "crashed"}, t.pendingWorkspaceAction # "None"
        PROVE  wantCapture'
    <3>1. pc' = q /\ t.nullDeref # TRUE
      BY <1>1, <2>3
    <3>2. CASE from = "ui"
      <4>1. Flow(app', pc') /\ pc' = "swap"
        BY <2>3, <3>1, <3>2 DEF FlowInv
      <4>2. t.showUnsavedPrompt
        BY <1>1, <2>3, <4>1 DEF Flow, Waits
      <4> QED
        BY <1>1, <3>2, <4>2 DEF ModalUp, UnsavedUp
    <3>3. CASE from # "ui"
      BY <1>1, <1>2, <2>3, <3>1, <3>3 DEF AsksNoMore
    <3> QED
      BY <3>2, <3>3
  <2> QED
    BY <1>1, <2>1, <2>2, <2>3 DEF StepKept, KeepInv
<1> QED
  BY <1>3, <1>4

(* The frame top. *)
LEMMA FrameTopKeep ==
  ASSUME NoClicks, Inv, FlowInv, KeepInv, FrameTop
  PROVE  StepKept
<1>0. FlowInv' /\ app \in AppStates
  BY FrameTopFlow DEF Inv, Sound
<1>1. ASSUME NEW from, NEW t, NEW q, Step(from, t, q), from \notin {"closed", "crashed"}
      PROVE  Known(app, from)
  BY <1>1, RunningKnown DEF Step
<1>2. CASE Swap
  <2>1. Step("swap", ExecutePendingSwap(app), "open") /\ Known(app, "swap")
    BY <1>1, <1>2 DEF Swap
  <2>2. Kept(app, "swap", ExecutePendingSwap(app), "open")
        /\ AsksNoMore(app, ExecutePendingSwap(app))
    BY <1>0, <2>1, SwapKept, FrameAsksNothing DEF Known
  <2> QED
    BY <1>0, <2>1, <2>2, KeepStep
<1>3. CASE Open
  <2>1. PICK outcome : Step("open", ExecutePendingOpen(app, outcome), "save")
    BY <1>3 DEF Open
  <2> DEFINE t == ExecutePendingOpen(app, outcome)
  <2>2. Crashed(app, t) \/ Kept(app, "open", t, "save")
    BY <1>1, <2>1, OpenKept
  <2>3. AsksNoMore(app, t) /\ Step("open", t, "save")
    BY <1>0, <2>1, FrameAsksNothing
  <2> HIDE DEF t
  <2> QED
    BY <1>0, <2>2, <2>3, KeepStep
<1>4. CASE Save
  <2>1. PICK saved, m, n : Step("save", ExecutePendingSave(app, saved, m, n), "closePrompt")
    BY <1>4 DEF Save
  <2> DEFINE t == ExecutePendingSave(app, saved, m, n)
  <2>2. Crashed(app, t) \/ Kept(app, "save", t, "closePrompt")
    BY <1>1, <2>1, SaveKept
  <2>3. AsksNoMore(app, t) /\ Step("save", t, "closePrompt")
    BY <1>0, <2>1, FrameAsksNothing
  <2> HIDE DEF t
  <2> QED
    BY <1>0, <2>2, <2>3, KeepStep
<1>5. CASE ClosePrompt
  <2>1. Step("closePrompt", RaiseClosePrompt(app), "remove") /\ Known(app, "closePrompt")
    BY <1>1, <1>5 DEF ClosePrompt
  <2>2. Kept(app, "closePrompt", RaiseClosePrompt(app), "remove")
        /\ AsksNoMore(app, RaiseClosePrompt(app))
    BY <1>0, <2>1, ClosePromptKept, FrameAsksNothing
  <2> QED
    BY <1>0, <2>1, <2>2, KeepStep
<1>6. CASE RemoveTabQueued
  <2>1. Step("remove", RunPendingRemove(app), "saveAll") /\ Known(app, "remove")
    BY <1>1, <1>6 DEF RemoveTabQueued
  <2>2. Kept(app, "remove", RunPendingRemove(app), "saveAll")
        /\ AsksNoMore(app, RunPendingRemove(app))
    BY <1>0, <2>1, RemoveKept, FrameAsksNothing
  <2> QED
    BY <1>0, <2>1, <2>2, KeepStep
<1>7. CASE SaveAll
  <2>1. PICK saved, n : Step("saveAll", AdvanceExitSaveAll(app, saved, n), "home")
    BY <1>7 DEF SaveAll
  <2> DEFINE t == AdvanceExitSaveAll(app, saved, n)
  <2>2. Crashed(app, t) \/ Kept(app, "saveAll", t, "home")
    BY <1>1, <2>1, SaveAllKept
  <2>3. AsksNoMore(app, t) /\ Step("saveAll", t, "home")
    BY <1>0, <2>1, FrameAsksNothing
  <2> HIDE DEF t
  <2> QED
    BY <1>0, <2>2, <2>3, KeepStep
<1>8. CASE Home
  <2> DEFINE t == [app EXCEPT !.pendingGoHome = FALSE, !.exitTargetIsGoHome = FALSE]
  <2>0. AsksNoMore(app, app) /\ AsksNoMore(app, t)
    BY <1>0, FrameAsksNothing
  <2>1. CASE app.pendingGoHome
    <3>1. Step("home", t, "closeAll")
      BY <1>8, <2>1 DEF Home
    <3>2. Kept(app, "home", t, "closeAll")
      BY <1>1, <2>1, <3>1, HomeKept
    <3> HIDE DEF t
    <3> QED
      BY <1>0, <2>0, <3>1, <3>2, KeepStep
  <2>2. CASE ~app.pendingGoHome
    <3>1. Step("home", app, "poll")
      BY <1>8, <2>2 DEF Home
    <3>2. Kept(app, "home", app, "poll")
      BY <1>1, <2>2, <3>1, HomeKept
    <3> QED
      BY <1>0, <2>0, <3>1, <3>2, KeepStep
  <2> QED
    BY <2>1, <2>2
<1>9. CASE CloseLastTab
  <2>1. Step("closeAll", RemoveTab(app, Len(app.sessions)), "closeAll")
    BY <1>9 DEF CloseLastTab
  <2>2. Len(app.sessions) \in TabIndices(app)
    <3>1. app.sessions \in Seq(Keys) /\ app.sessions # << >>
      BY <1>0, <1>9, FieldTypes DEF CloseLastTab
    <3>2. Len(app.sessions) \in Nat /\ Len(app.sessions) # 0
      BY <3>1, EmptySeq, LenProperties
    <3> QED
      BY <3>2
  <2>3. Known(app, "closeAll")
    BY <1>1, <2>1
  <2> DEFINE t == RemoveTab(app, Len(app.sessions))
  <2>4. Kept(app, "closeAll", t, "closeAll") /\ AsksNoMore(app, t)
    BY <1>0, <2>2, <2>3, CloseAllKept, FrameAsksNothing
  <2>5. Step("closeAll", t, "closeAll")
    BY <2>1
  <2> HIDE DEF t
  <2> QED
    BY <1>0, <2>4, <2>5, KeepStep
<1>10. CASE GoneHome
  <2>1. Step("closeAll", FinishGoHome(app), "poll") /\ Known(app, "closeAll")
    BY <1>1, <1>10 DEF GoneHome
  <2>2. Kept(app, "closeAll", FinishGoHome(app), "poll") /\ AsksNoMore(app, FinishGoHome(app))
    BY <1>0, <2>1, GoneHomeKept, FrameAsksNothing
  <2> QED
    BY <1>0, <2>1, <2>2, KeepStep
<1> QED
  BY <1>2, <1>3, <1>4, <1>5, <1>6, <1>7, <1>8, <1>9, <1>10 DEF FrameTop

(* A window event ends the program: no change is left.                       *)
LEMMA ClosingKeep ==
  ASSUME KeepInv, NEW t, Step("poll", t, "closed"), Spares(app, "poll", t), t.lost = app.lost,
         NoDeferral /\ ExpIds = {} => t.dirty = {}
  PROVE  StepKept
  BY DEF StepKept, KeepInv, Step

(* The window events, the background results, the keyboard, and no click.    *)
LEMMA EventsKeep ==
  ASSUME NoClicks, Inv, FlowInv, KeepInv, Poll \/ BackgroundResult \/ NoResult
                       \/ CtrlS \/ CtrlShiftS \/ CtrlH \/ NoShortcut \/ NoClick \/ Ended
  PROVE  StepKept
<1>0. FlowInv' /\ app \in AppStates
  BY EventsFlow DEF Inv, Sound
<1>1. ASSUME NEW from, NEW t, NEW q, Step(from, t, q), from \notin {"closed", "crashed"}
      PROVE  Known(app, from)
  BY <1>1, RunningKnown DEF Step
<1>2. CASE Poll
  <2>1. PICK pressed \in BOOLEAN, order \in DirtyTabOrders(app) :
          /\ pressed => MayPressClose
          /\ Step("poll", PollEvents(app, pressed, order),
                  IF PollEvents(app, pressed, order).shouldClose THEN "closed" ELSE "async")
    BY <1>2 DEF Poll
  <2> DEFINE t == PollEvents(app, pressed, order)
  <2>2. Known(app, "poll")
    BY <1>1, <2>1
  <2>3. NoDeferral /\ pressed => ~DirtyFlowPending(app)
    BY <2>1 DEF MayPressClose, NoDeferral
  <2>4. /\ ~t.shouldClose => Kept(app, "poll", t, "async")
        /\ Spares(app, "poll", t) /\ t.lost = app.lost
        /\ NoDeferral /\ ExpIds = {} /\ t.shouldClose => t.dirty = {}
    BY <2>2, <2>3, PollKept
  <2>5. AsksNoMore(app, t)
    BY <1>0, EventsAskNothing
  <2>6. Step("poll", t, IF t.shouldClose THEN "closed" ELSE "async")
    BY <2>1
  <2> HIDE DEF t
  <2>7. CASE ~t.shouldClose
    <3>1. Step("poll", t, "async")
      BY <2>6, <2>7
    <3> QED
      BY <1>0, <2>4, <2>5, <2>7, <3>1, KeepStep
  <2>8. CASE t.shouldClose
    <3>1. Step("poll", t, "closed")
      BY <2>6, <2>8
    <3> QED
      BY <2>4, <2>8, <3>1, ClosingKeep
  <2> QED
    BY <2>7, <2>8
<1>3. CASE BackgroundResult
  <2>1. PICK spoils \in Spoils : Step("async", EditActiveTab(app, spoils), "input")
    BY <1>3 DEF BackgroundResult
  <2>2. /\ app.active # NoTab
        /\ Thorough => ~(app.showExitDirtyModal \/ app.exitSaveAllRunning \/ app.pendingGoHome)
    BY <1>3 DEF BackgroundResult, WorkspaceShown, MayEdit, Thorough
  <2> DEFINE t == EditActiveTab(app, spoils)
  <2>3. Kept(app, "async", t, "input") /\ AsksNoMore(app, t) /\ Step("async", t, "input")
    BY <1>0, <1>1, <2>1, <2>2, BackgroundKept, EventsAskNothing
  <2> HIDE DEF t
  <2> QED
    BY <1>0, <2>3, KeepStep
<1>4. CASE NoResult
  <2>1. Step("async", app, "input") /\ Known(app, "async")
    BY <1>1, <1>4 DEF NoResult
  <2>2. Kept(app, "async", app, "input") /\ AsksNoMore(app, app)
    BY <1>0, <2>1, BackgroundKept, FrameAsksNothing
  <2> QED
    BY <1>0, <2>1, <2>2, KeepStep
<1>5. CASE CtrlS
  <2> DEFINE t == RequestSaveEverything(app)
  <2>1. Step("input", t, "ui") /\ Known(app, "input")
    BY <1>1, <1>5 DEF CtrlS, Shortcut
  <2>2. Kept(app, "input", t, "ui") /\ AsksNoMore(app, t)
    BY <1>0, <2>1, ShortcutKept, EventsAskNothing
  <2> HIDE DEF t
  <2> QED
    BY <1>0, <2>1, <2>2, KeepStep
<1>6. CASE CtrlShiftS
  <2> DEFINE t == RequestSaveAs(app)
  <2>1. /\ Step("input", t, "ui") /\ Known(app, "input")
        /\ ~wantCapture /\ app.active # NoTab
    BY <1>1, <1>6 DEF CtrlShiftS, Shortcut, WorkspaceShown
  <2>2. app.pendingWorkspaceAction = "None"
    BY <2>1 DEF KeepInv, Step
  <2>3. app.exitSaveAllRunning => t = app
    BY DEF RequestSaveAs, SaveDeferAllowed, t
  <2>4. Kept(app, "input", t, "ui")
    BY <2>1, <2>2, <2>3, ShortcutKept
  <2>5. AsksNoMore(app, t)
    BY <1>0, EventsAskNothing
  <2> HIDE DEF t
  <2> QED
    BY <1>0, <2>1, <2>4, <2>5, KeepStep
<1>7. CASE CtrlH
  <2>1. PICK order \in DirtyTabOrders(app) : Step("input", RequestGoHome(app, order), "ui")
    BY <1>7 DEF CtrlH, Shortcut
  <2> DEFINE t == RequestGoHome(app, order)
  <2>2. Kept(app, "input", t, "ui") /\ AsksNoMore(app, t) /\ Step("input", t, "ui")
    BY <1>0, <1>1, <2>1, GoHomeAskedKept, EventsAskNothing
  <2> HIDE DEF t
  <2> QED
    BY <1>0, <2>2, KeepStep
<1>8. CASE NoShortcut
  <2>1. Step("input", app, "ui") /\ Known(app, "input")
    BY <1>1, <1>8 DEF NoShortcut
  <2>2. Kept(app, "input", app, "ui") /\ AsksNoMore(app, app)
    BY <1>0, <2>1, ShortcutKept, FrameAsksNothing
  <2> QED
    BY <1>0, <2>1, <2>2, KeepStep
<1>9. CASE NoClick
  <2>1. Step("ui", app, "swap") /\ Known(app, "ui")
    BY <1>1, <1>9 DEF NoClick
  <2>2. Kept(app, "ui", app, "swap")
    BY <2>1, IdlePhaseKept DEF Known
  <2> QED
    BY <1>0, <2>1, <2>2, KeepStep
<1>10. CASE Ended
  BY <1>10 DEF Ended, vars, StepKept, KeepInv, Spares
<1> QED
  BY <1>2, <1>3, <1>4, <1>5, <1>6, <1>7, <1>8, <1>9, <1>10

(* The answers. *)
LEMMA AnswersKeep ==
  ASSUME NoClicks, Inv, FlowInv, KeepInv, Answers
  PROVE  StepKept
<1>0. FlowInv'
  BY AnswersFlow
<1>1. ASSUME NEW up, NEW t, Answer(up, t)
      PROVE  up /\ Step("ui", t, "swap") /\ Known(app, "ui")
  BY <1>1, RunningKnown DEF Answer, Step
<1>2. ASSUME NEW t, Step("ui", t, "swap"), Crashed(app, t) \/ Kept(app, "ui", t, "swap")
      PROVE  StepKept
  BY <1>0, <1>2, KeepStep
<1>3. CASE PressSave
  <2>1. PICK saved \in SaveOutcomes, n \in ExperimentSaves(app, ExpIndices(app)),
             outcome \in ProjectOpens, loaded \in UnloadedExperiments(Launched),
             tabs \in ReopenableTabs(app) :
          Answer(UnsavedUp(app), AnswerSave(app, saved, n, outcome, loaded, tabs))
    BY <1>3 DEF PressSave
  <2> DEFINE t == AnswerSave(app, saved, n, outcome, loaded, tabs)
  <2>2. Step("ui", t, "swap") /\ Known(app, "ui")
    BY <1>1, <2>1
  <2>3. outcome \in ProjectOutcomes /\ tabs \in Seq(Keys)
    BY OffersTyped, ReopenableTyped
  <2>4. Crashed(app, t) \/ Kept(app, "ui", t, "swap")
    BY <2>2, <2>3, AnswerSaveKept
  <2> HIDE DEF t
  <2> QED
    BY <1>2, <2>2, <2>4
<1>4. CASE PressDontSave
  <2>1. PICK outcome \in ProjectOpens, loaded \in UnloadedExperiments(Launched),
             tabs \in ReopenableTabs(app) :
          Answer(UnsavedUp(app), AnswerDontSave(app, outcome, loaded, tabs))
    BY <1>4 DEF PressDontSave
  <2> DEFINE t == AnswerDontSave(app, outcome, loaded, tabs)
  <2>2. UnsavedUp(app) /\ Step("ui", t, "swap") /\ Known(app, "ui")
    BY <1>1, <2>1
  <2>3. outcome \in ProjectOutcomes /\ tabs \in Seq(Keys)
    BY OffersTyped, ReopenableTyped
  <2>4. Kept(app, "ui", t, "swap")
    BY <2>2, <2>3, AnswerDontSaveKept
  <2> HIDE DEF t
  <2> QED
    BY <1>2, <2>2, <2>4
<1>5. CASE PressCancel
  <2>1. Step("ui", AnswerCancel(app), "swap") /\ Known(app, "ui")
    BY <1>1, <1>5 DEF PressCancel
  <2> QED
    BY <1>2, <2>1, AnswerCancelKept
<1>6. CASE PressStaleDrop
  <2>1. PICK saved \in SaveOutcomes, outcome \in ProjectOpens,
             loaded \in UnloadedExperiments(Launched), tabs \in ReopenableTabs(app) :
          Answer(StaleUp(app), StaleDrop(app, saved, outcome, loaded, tabs))
    BY <1>6 DEF PressStaleDrop
  <2> DEFINE t == StaleDrop(app, saved, outcome, loaded, tabs)
  <2>2. StaleUp(app) /\ Step("ui", t, "swap") /\ Known(app, "ui")
    BY <1>1, <2>1
  <2>3. outcome \in ProjectOutcomes /\ tabs \in Seq(Keys)
    BY OffersTyped, ReopenableTyped
  <2>4. Crashed(app, t) \/ Kept(app, "ui", t, "swap")
    BY <2>2, <2>3, StaleAnswersKept
  <2> HIDE DEF t
  <2> QED
    BY <1>2, <2>2, <2>4
<1>7. CASE PressStaleCancel
  <2> DEFINE t == StaleCancel(app)
  <2>1. StaleUp(app) /\ Step("ui", t, "swap") /\ Known(app, "ui")
    BY <1>1, <1>7 DEF PressStaleCancel
  <2>2. "opened" \in ProjectOutcomes /\ << >> \in Seq(Keys)
    BY DEF ProjectOutcomes
  <2>3. Crashed(app, t) \/ Kept(app, "ui", t, "swap")
    BY <2>1, <2>2, StaleAnswersKept
  <2> HIDE DEF t
  <2> QED
    BY <1>2, <2>1, <2>3
<1>8. CASE PressSaveAll
  <2>1. ExitUp(app) /\ Step("ui", ExitSaveAll(app), "swap") /\ Known(app, "ui")
    BY <1>1, <1>8 DEF PressSaveAll
  <2> QED
    BY <1>2, <2>1, ExitAnswersKept
<1>9. CASE PressDiscardAll
  <2>1. ExitUp(app) /\ Step("ui", ExitDiscardAll(app), "swap") /\ Known(app, "ui")
    BY <1>1, <1>9 DEF PressDiscardAll
  <2> QED
    BY <1>2, <2>1, ExitAnswersKept
<1>10. CASE PressExitCancel
  <2>1. ExitUp(app) /\ Step("ui", ExitCancel(app), "swap") /\ Known(app, "ui")
    BY <1>1, <1>10 DEF PressExitCancel
  <2> QED
    BY <1>2, <2>1, ExitAnswersKept
<1>11. CASE PressDelete
  <2>1. Step("ui", ConfirmExperimentDelete(app), "swap") /\ Known(app, "ui")
    BY <1>1, <1>11 DEF PressDelete
  <2> QED
    BY <1>2, <2>1, DeleteAnswersKept
<1>12. CASE PressDeleteCancel
  <2>1. Step("ui", CancelExperimentDelete(app), "swap") /\ Known(app, "ui")
    BY <1>1, <1>12 DEF PressDeleteCancel
  <2> QED
    BY <1>2, <2>1, DeleteAnswersKept
<1> QED
  BY <1>3, <1>4, <1>5, <1>6, <1>7, <1>8, <1>9, <1>10, <1>11, <1>12 DEF Answers

(* Where a widget is clicked. *)
LEMMA ClickedFree ==
  ASSUME NoClicks, Inv, FlowInv, KeepInv, NEW t, Click(t)
  PROVE  Free(app) /\ Loose(app) /\ Step("ui", t, "swap")
<1>1. Idle(app) /\ Staying(app) /\ Step("ui", t, "swap")
  BY Clicked
<1>2. Known(app, "ui")
  BY <1>1, RunningKnown DEF Step
<1>3. app.pendingSaveKind # "Workspace"
  BY DEF Click, NoClicks, FlowUnderWay
<1>4. Free(app)
  BY <1>1, <1>2, <1>3 DEF Free, Known
<1> QED
  BY <1>1, <1>4, FreeIsLoose

(* The clicks on the tab strip. *)
LEMMA StripClicksKeep ==
  ASSUME NoClicks, Inv, FlowInv, KeepInv, StripClicks
  PROVE  StepKept
<1>0. FlowInv'
  BY StripClicksFlow
<1>1. ASSUME NEW t, Click(t), Kept(app, "ui", t, "swap")
      PROVE  StepKept
  BY <1>0, <1>1, ClickedFree, KeepStep
<1>2. CASE ClickSessionTab
  <2>1. Click(FocusSessionTab(app)) /\ Loose(app)
    BY <1>2, ClickedFree DEF ClickSessionTab
  <2> QED
    BY <1>1, <2>1, SwitchClicksKept
<1>3. CASE ClickTab
  <2>1. PICK idx : Click(SwapInSession(app, idx))
    BY <1>3 DEF ClickTab
  <2>2. Kept(app, "ui", SwapInSession(app, idx), "swap")
    BY <2>1, ClickedFree, SwitchClicksKept
  <2> QED
    BY <1>1, <2>1, <2>2
<1>4. CASE ClickCloseTab
  <2>1. PICK idx \in TabIndices(app) : Click(CloseTab(app, idx))
    BY <1>4 DEF ClickCloseTab
  <2>2. Kept(app, "ui", CloseTab(app, idx), "swap")
    BY <2>1, ClickedFree, CloseTabKept
  <2> QED
    BY <1>1, <2>1, <2>2
<1>5. CASE ClickExperimentTab
  <2>1. PICK idx : Click(ActivateExperiment(app, idx))
    BY <1>5 DEF ClickExperimentTab
  <2>2. Kept(app, "ui", ActivateExperiment(app, idx), "swap")
    BY <2>1, ClickedFree, ExperimentClickKept
  <2> QED
    BY <1>1, <2>1, <2>2
<1>6. CASE ClickCloseExperimentTab
  <2>1. PICK idx : Click(CloseRequest(app, idx))
    BY <1>6 DEF ClickCloseExperimentTab
  <2>2. Kept(app, "ui", CloseRequest(app, idx), "swap")
    BY <2>1, ClickedFree, ExperimentClickKept
  <2> QED
    BY <1>1, <2>1, <2>2
<1> QED
  BY <1>2, <1>3, <1>4, <1>5, <1>6 DEF StripClicks

(* The other clicks. *)
LEMMA OtherClicksKeep ==
  ASSUME NoClicks, Inv, FlowInv, KeepInv, OtherClicks
  PROVE  StepKept
<1>0. FlowInv' /\ app \in AppStates /\ app.sessions \in Seq(Keys)
  BY OtherClicksFlow, FieldTypes DEF Inv, Sound
<1>1. ASSUME NEW t, Click(t), Kept(app, "ui", t, "swap")
      PROVE  StepKept
  BY <1>0, <1>1, ClickedFree, KeepStep
<1>2. CASE Edit
  <2>1. PICK spoils \in Spoils : Click(EditActiveTab(app, spoils))
    BY <1>2 DEF Edit
  <2>2. /\ app.active # NoTab
        /\ Thorough => ~(app.showExitDirtyModal \/ app.exitSaveAllRunning \/ app.pendingGoHome)
    BY <1>2 DEF Edit, WorkspaceShown, MayEdit, Thorough
  <2>3. Free(app)
    BY <2>1, ClickedFree
  <2>4. Kept(app, "ui", EditActiveTab(app, spoils), "swap")
    BY <2>2, <2>3, ActiveTabClicksKept
  <2> QED
    BY <1>1, <2>1, <2>4
<1>3. CASE EditExperiment
  <2>1. /\ Click(EditActiveExperiment(app)) /\ Free(app)
        /\ app.activeTabKind = "Experiment" /\ app.activeExperimentIdx # 0
    BY <1>3, ClickedFree DEF EditExperiment
  <2> QED
    BY <1>1, <2>1, ExperimentClickKept
<1>4. CASE OpenFile \/ OpenSource
  <2>1. PICK key \in Keys : Click(OpenInNewTab(app, key))
    BY <1>4 DEF OpenFile, OpenSource, Keys
  <2>2. Kept(app, "ui", OpenInNewTab(app, key), "swap")
    BY <2>1, ClickedFree, OpenInNewTabKept
  <2> QED
    BY <1>1, <2>1, <2>2
<1>5. CASE SaveAs
  <2>1. Click(RequestSaveAs(app)) /\ Free(app) /\ app.active # NoTab
    BY <1>5, ClickedFree DEF SaveAs, WorkspaceShown
  <2> QED
    BY <1>1, <2>1, ActiveTabClicksKept
<1>6. CASE OpenFirstProject
  <2>1. PICK outcome \in ProjectOpens, loaded \in UnloadedExperiments(Launched),
             tabs \in ReopenableTabs(app) :
          LET p == OpenProject(app, outcome, loaded, tabs) IN
          Click(IF outcome # "opened" THEN p
                ELSE [FocusSessionTab(p) EXCEPT !.welcome = FALSE])
    BY <1>6 DEF OpenFirstProject
  <2>2. Click(ProjectShown(app, outcome, loaded, tabs))
    BY <2>1 DEF ProjectShown
  <2>3. outcome \in ProjectOutcomes /\ tabs \in Seq(Keys)
    BY OffersTyped, ReopenableTyped
  <2>4. Kept(app, "ui", ProjectShown(app, outcome, loaded, tabs), "swap")
    BY <2>2, <2>3, ClickedFree, OpenProjectKept
  <2> QED
    BY <1>1, <2>2, <2>4
<1>7. CASE NewEmptyProject
  <2>1. PICK created \in SaveOutcomes, outcome \in ProjectOpens :
          LET p == OpenProject(app, outcome, << >>, << >>) IN
          Click(IF ~created THEN app
                ELSE IF outcome # "opened" THEN p
                ELSE [FocusSessionTab(p) EXCEPT !.welcome = FALSE])
    BY <1>7 DEF NewEmptyProject
  <2>2. Click(IF ~created THEN app ELSE ProjectShown(app, outcome, << >>, << >>))
    BY <2>1 DEF ProjectShown
  <2>3. outcome \in ProjectOutcomes /\ << >> \in Seq(Keys)
    BY OffersTyped
  <2>4. Free(app)
    BY <2>2, ClickedFree
  <2>5. Kept(app, "ui", ProjectShown(app, outcome, << >>, << >>), "swap")
    BY <2>3, <2>4, OpenProjectKept
  <2>6. Kept(app, "ui", app, "swap")
    BY <2>4, IdlePhaseKept DEF Free
  <2>7. CASE created
    <3>1. Click(ProjectShown(app, outcome, << >>, << >>))
      BY <2>2, <2>7
    <3> QED
      BY <1>1, <2>5, <3>1
  <2>8. CASE ~created
    <3>1. Click(app)
      BY <2>2, <2>8
    <3> QED
      BY <1>1, <2>6, <3>1
  <2> QED
    BY <2>7, <2>8
<1>8. CASE OpenSameProject
  <2>1. PICK loaded \in UnloadedExperiments(app), tabs \in ReopenableTabs(app) :
          LET p == RestoreOpenEmbeddedTabs(LoadExperiments(FocusSessionTab(app), loaded), tabs)
          IN  Click([p EXCEPT !.welcome = FALSE])
    BY <1>8 DEF OpenSameProject
  <2> DEFINE t == [RestoreOpenEmbeddedTabs(LoadExperiments(FocusSessionTab(app), loaded), tabs)
                     EXCEPT !.welcome = FALSE]
  <2>2. Click(t)
    BY <2>1
  <2>3. tabs \in Seq(Keys) /\ Free(app)
    BY <2>2, ReopenableTyped, ClickedFree
  <2>4. Kept(app, "ui", t, "swap")
    BY <2>3, OpenSameProjectKept
  <2> HIDE DEF t
  <2> QED
    BY <1>1, <2>2, <2>4
<1>9. CASE ReplaceProject
  <2>1. PICK outcome \in ProjectOpens, loaded \in UnloadedExperiments(Launched),
             tabs \in ReopenableTabs(app) :
          Click(RequestReplaceProject(app, outcome, loaded, tabs))
    BY <1>9 DEF ReplaceProject
  <2>2. outcome \in ProjectOutcomes /\ tabs \in Seq(Keys) /\ Free(app)
    BY <2>1, OffersTyped, ReopenableTyped, ClickedFree
  <2>3. Kept(app, "ui", RequestReplaceProject(app, outcome, loaded, tabs), "swap")
    BY <2>2, ReplaceProjectKept
  <2> QED
    BY <1>1, <2>1, <2>3
<1>10. CASE DeleteDataset
  <2>1. PICK key : Click(RemoveDataset(app, key))
    BY <1>10 DEF DeleteDataset
  <2>2. Kept(app, "ui", RemoveDataset(app, key), "swap")
    BY <2>1, ClickedFree, RemoveDatasetKept
  <2> QED
    BY <1>1, <2>1, <2>2
<1>11. CASE NewMultiWorkspace
  <2>1. PICK saved \in SaveOutcomes, created \in SaveOutcomes, outcome \in ProjectOpens,
             key \in EmbeddedKeys \ Range(app.sessions) :
          /\ SessionShown /\ CreateSource(app) # 0
          /\ Click(CreateMultiWorkspace(app, saved, created, outcome, key))
    BY <1>11 DEF NewMultiWorkspace
  <2>2. /\ outcome \in ProjectOutcomes /\ key \in Keys /\ key \notin Range(app.sessions)
        /\ app.activeTabKind = "Session" /\ CreateSource(app) # 0 /\ Free(app)
    BY <2>1, OffersTyped, ClickedFree DEF SessionShown, Keys
  <2>3. Kept(app, "ui", CreateMultiWorkspace(app, saved, created, outcome, key), "swap")
    BY <2>2, CreateMultiWorkspaceKept
  <2> QED
    BY <1>1, <2>1, <2>3
<1>12. CASE NewExperiment
  <2>1. PICK e : Click(CreateExperiment(app, e))
    BY <1>12 DEF NewExperiment
  <2>2. Kept(app, "ui", CreateExperiment(app, e), "swap")
    BY <2>1, ClickedFree, ExperimentClickKept
  <2> QED
    BY <1>1, <2>1, <2>2
<1>13. CASE ClickExperimentRow
  <2>1. PICK idx : Click(ActivateExperiment(app, idx))
    BY <1>13 DEF ClickExperimentRow
  <2>2. Kept(app, "ui", ActivateExperiment(app, idx), "swap")
    BY <2>1, ClickedFree, ExperimentClickKept
  <2> QED
    BY <1>1, <2>1, <2>2
<1>14. CASE DeleteExperiment
  <2>1. PICK idx \in ExpIndices(app) : Click(RequestDelete(app, idx))
    BY <1>14 DEF DeleteExperiment
  <2>2. idx \in Nat
    BY <1>0, <2>1, FieldTypes
  <2>3. Kept(app, "ui", RequestDelete(app, idx), "swap")
    BY <2>1, <2>2, ClickedFree, ExperimentClickKept
  <2> QED
    BY <1>1, <2>1, <2>3
<1> QED
  BY <1>2, <1>3, <1>4, <1>5, <1>6, <1>7, <1>8, <1>9, <1>10, <1>11, <1>12, <1>13, <1>14
  DEF OtherClicks

(* Every step keeps the invariant, and takes nothing it may not.             *)
LEMMA NextKeep ==
  ASSUME NoClicks
  PROVE  Inv /\ FlowInv /\ KeepInv /\ [Next]_vars => StepKept
<1>1. ASSUME Inv, FlowInv, KeepInv, Next PROVE StepKept
  BY <1>1, FrameTopKeep, EventsKeep, AnswersKeep, StripClicksKeep, OtherClicksKeep DEF Next
<1>2. ASSUME KeepInv, UNCHANGED vars PROVE StepKept
  BY <1>2 DEF vars, StepKept, KeepInv, Spares
<1> QED
  BY <1>1, <1>2

(* What is known of unsaved changes holds throughout, if nobody clicks a     *)
(* widget while a flow is under way.                                         *)
THEOREM KeepInvariance ==
  ASSUME NoClicks
  PROVE  Spec => []KeepInv
<1>1. Inv /\ FlowInv /\ KeepInv /\ [Next]_vars => KeepInv'
  BY NextKeep DEF StepKept
<1> QED
  BY <1>1, InitKeep, Invariance, FlowInvariance, PTL DEF Spec

(* Going home finds every tab clean: whatever was dirty was saved or let go  *)
(* in the exit modal, and nothing got dirty meanwhile.                       *)
THEOREM GoHomeTabsClean ==
  ASSUME NoClicks, Thorough
  PROVE  Spec => []GoHomeFindsTabsClean
<1>1. KeepInv => GoHomeFindsTabsClean
  BY DEF KeepInv, Keeps, Covered, GoHomeFindsTabsClean
<1> QED
  BY <1>1, KeepInvariance, PTL

(* No tab is closed with changes the user did not agree to lose.             *)
THEOREM NoTabChangesLost ==
  ASSUME NoClicks, Thorough
  PROVE  Spec => []TabCloseKeepsChanges
<1>1. KeepInv => TabCloseKeepsChanges
  BY DEF KeepInv, TabCloseKeepsChanges
<1> QED
  BY <1>1, KeepInvariance, PTL

(* Without experiments, and with no close asked for while a prompt or flow   *)
(* is up, the window closes with nothing unsaved.                            *)
THEOREM NothingUnsavedAtExit ==
  ASSUME NoClicks, NoDeferral, ExpIds = {}
  PROVE  Spec => []ExitKeepsChanges
<1>1. ASSUME Inv, KeepInv, pc = "closed"
      PROVE  app.dirty \cup app.expDirty \subseteq app.consent
  <2>1. app.dirty = {}
    BY <1>1 DEF KeepInv
  <2>2. app.expDirty \subseteq ExpIds
    BY <1>1 DEF Inv, Sound, AppStates
  <2> QED
    BY <2>1, <2>2
<1>2. Inv /\ KeepInv => ExitKeepsChanges
  BY <1>1 DEF ExitKeepsChanges
<1> QED
  BY <1>2, Invariance, KeepInvariance, PTL

(* A tab that was not let go of is lost in one phase only, whatever experi-  *)
(* ments there are and whatever gets dirty when: where going home removes    *)
(* the tabs.                                                                 *)
TabsLostGoingHome ==
  [][(app'.lost \ app.lost) \cap Keys # {} => pc = "closeAll"]_vars

(* Every other way to close a tab keeps its changes.                         *)
THEOREM LostOnlyGoingHome ==
  ASSUME NoClicks
  PROVE  Spec => TabsLostGoingHome
<1>1. Inv /\ FlowInv /\ KeepInv /\ [Next]_vars =>
        [(app'.lost \ app.lost) \cap Keys # {} => pc = "closeAll"]_vars
  BY NextKeep DEF StepKept, Spares
<1> QED
  BY <1>1, Invariance, FlowInvariance, KeepInvariance, PTL DEF Spec, TabsLostGoingHome

(* Of the saves only Save All leaves stale results out of the file unasked:  *)
(* Save in a prompt, Save As and Ctrl+S never do.                            *)
THEOREM SavesAskAboutStaleResults ==
  ASSUME NoClicks
  PROVE  Spec => StaleDropAskedBySaves
<1>1. ASSUME Inv', StepKept
      PROVE  StaleResultsDropped =>
               app.showStaleDropPrompt \/ app.exitSaveAllRunning \/ pc = "open"
  <2>1. TabKeys(app') = Range(app'.sessions)
    <3>1. Sound(app')
      BY <1>1 DEF Inv, Sound
    <3> QED
      BY <3>1, TabKeysTyped
  <2> QED
    BY <1>1, <2>1 DEF StepKept, Spares, StaleResultsDropped
<1>2. Inv /\ Inv' /\ FlowInv /\ KeepInv /\ [Next]_vars =>
        [StaleResultsDropped =>
           app.showStaleDropPrompt \/ app.exitSaveAllRunning \/ pc = "open"]_vars
  BY <1>1, NextKeep
<1> QED
  BY <1>2, Invariance, FlowInvariance, KeepInvariance, PTL DEF Spec, StaleDropAskedBySaves

-----------------------------------------------------------------------------
(* The invariant of the experiments                                          *)

(* No experiment is made while no project is open. *)
NoLoose == "looseExperiment" \notin Allowed

ExpKeys(s) == {s.experiments[i] : i \in ExpIndices(s)}

(* No instance is listed twice, and what is dirty is an instance.            *)
ExpsOK(s) ==
  /\ \A i, j \in ExpIndices(s) : s.experiments[i] = s.experiments[j] => i = j
  /\ s.expDirty \subseteq ExpKeys(s)

(* There are experiments only in an open project that is on screen, so one   *)
(* that is clean was written to its file, or let go of.                      *)
Housed(s) ==
  /\ s.experiments # << >> => s.multiWorkspaceOpen /\ ~s.welcome
  /\ ExpKeys(s) \ s.expDirty \subseteq s.expSaved \cup s.consent

(* The exit modal and Save All list every dirty experiment; when the way     *)
(* home is free none is left.                                                *)
DirtyListed(s, p) ==
  /\ s.showExitDirtyModal \/ s.exitSaveAllRunning =>
       DirtyExperimentIndices(s) \subseteq s.exitDirtyExperiments
  /\ s.pendingGoHome \/ p = "closeAll" => s.expDirty = {}

(* The invariant of the record s in which the phase p runs next.             *)
Held(s, p) ==
  /\ ExpsOK(s)
  /\ NoLoose => Housed(s)
  /\ NoClicks => DirtyListed(s, p)

(* The answers that may lose an experiment nobody let go of: another project *)
(* is opened in the place of one whose experiments could not be written, or  *)
(* by way of the stale prompt, behind which they are not.                    *)
MayLose(s, p) ==
  /\ p = "ui" /\ s.pendingWorkspaceAction = "OpenMultiWorkspace"
  /\ StaleUp(s) \/ (UnsavedUp(s) /\ "failedSave" \in Allowed)

(* What phase p may do to experiments.                                       *)
SparesExps(s, p, t) ==
  NoClicks /\ NoLoose => (t.lost \ s.lost) \cap ExpIds = {} \/ MayLose(s, p)

(* The phase p took the record s to t, and q runs next.                      *)
HeldBy(s, p, t, q) == Held(t, q) /\ SparesExps(s, p, t)

(* The part of Sound that the experiments need.                              *)
ListsTyped(s) ==
  IsApp(s) /\ s.sessions \in Seq(Keys) /\ s.experiments \in Seq(ExpIds)

(* A sound record has it. *)
LEMMA SoundLists ==
  ASSUME NEW s, Sound(s)
  PROVE  ListsTyped(s) /\ s \in AppStates
  BY FieldsOf, FieldTypes DEF Sound, ListsTyped

(* The instances are experiments. *)
LEMMA ExpKeysTyped ==
  ASSUME NEW s, s.experiments \in Seq(ExpIds)
  PROVE  ExpKeys(s) \subseteq ExpIds /\ Len(s.experiments) \in Nat
         /\ ExpKeys(s) = Range(s.experiments)
         /\ \A i \in ExpIndices(s) : i \in Nat
<1>1. Len(s.experiments) \in Nat /\ \A i \in ExpIndices(s) : s.experiments[i] \in ExpIds
  BY LenProperties, ElementOfSeq
<1>2. DOMAIN s.experiments = 1 .. Len(s.experiments)
  BY LenProperties
<1> QED
  BY <1>1, <1>2 DEF ExpKeys, Range

-----------------------------------------------------------------------------
(* What leaves the experiments alone, or saves them                          *)

(* The flows in which the experiments are listed go on, or end.              *)
SameListing(s, t) ==
  /\ t.showExitDirtyModal => s.showExitDirtyModal
  /\ t.exitSaveAllRunning => s.exitSaveAllRunning
  /\ t.pendingGoHome => s.pendingGoHome
  /\ t.exitDirtyExperiments = s.exitDirtyExperiments

(* Experiments are only saved, or let go of.                                 *)
Recorded(s, t) ==
  /\ t.experiments = s.experiments /\ t.expDirty \subseteq s.expDirty
  /\ s.expSaved \subseteq t.expSaved
  /\ s.expDirty \ t.expDirty \subseteq t.expSaved \cup t.consent
  /\ s.consent \cap ExpIds \subseteq t.consent
  /\ t.multiWorkspaceOpen = s.multiWorkspaceOpen /\ (t.welcome => s.welcome)

(* Nothing of the experiments changes.                                       *)
Alone(s, t) ==
  /\ t.experiments = s.experiments /\ t.expDirty = s.expDirty /\ t.expSaved = s.expSaved
  /\ t.multiWorkspaceOpen = s.multiWorkspaceOpen /\ (t.welcome => s.welcome)
  /\ t.consent \cap ExpIds = s.consent \cap ExpIds
  /\ t.lost \cap ExpIds = s.lost \cap ExpIds
  /\ SameListing(s, t)

(* Nothing was lost.                                                         *)
NoneLost(s, t) == t.lost \cap ExpIds \subseteq s.lost

(* What is left alone is recorded.                                           *)
LEMMA AloneIsRecorded ==
  ASSUME NEW s, NEW t, Alone(s, t)
  PROVE  Recorded(s, t) /\ SameListing(s, t) /\ NoneLost(s, t)
  BY DEF Alone, Recorded, NoneLost

(* Two such steps are one.                                                   *)
LEMMA AloneTransitive ==
  ASSUME NEW s, NEW t, NEW u, Alone(s, t), Alone(t, u)
  PROVE  Alone(s, u)
  BY DEF Alone, SameListing

(* So are two that save.                                                     *)
LEMMA RecordedTransitive ==
  ASSUME NEW s, NEW t, NEW u, s.expDirty \subseteq ExpIds, Recorded(s, t), Recorded(t, u)
  PROVE  Recorded(s, u)
  BY DEF Recorded

(* The groups of fields in which this is so.                                 *)
LEMMA SameIsAlone ==
  ASSUME NEW s, NEW t, SameExps(s, t), SameLosses(s, t), SameExit(s, t)
  PROVE  Alone(s, t)
  BY DEF SameExps, SameLosses, SameExit, Alone, SameListing

(* Fewer are dirty: the instances are as before.                             *)
LEMMA ExpsKept ==
  ASSUME NEW s, NEW t, ExpsOK(s), t.experiments = s.experiments, t.expDirty \subseteq s.expDirty
  PROVE  ExpsOK(t)
  BY DEF ExpsOK, ExpKeys

(* They are still on screen, and saved unless dirty.                         *)
LEMMA HousedKept ==
  ASSUME NEW s, NEW t, s.experiments \in Seq(ExpIds), Housed(s), Recorded(s, t)
  PROVE  Housed(t)
<1>1. ExpKeys(t) = ExpKeys(s) /\ ExpKeys(s) \subseteq ExpIds
  BY ExpKeysTyped DEF Recorded, ExpKeys
<1>2. ASSUME NEW e \in ExpKeys(t), e \notin t.expDirty
      PROVE  e \in t.expSaved \cup t.consent
  BY <1>1, <1>2 DEF Housed, Recorded
<1>3. t.experiments # << >> => t.multiWorkspaceOpen /\ ~t.welcome
  BY DEF Housed, Recorded
<1> QED
  BY <1>2, <1>3 DEF Housed

(* They are still listed.                                                    *)
LEMMA ListedKept ==
  ASSUME NEW s, NEW p, NEW t, NEW q, DirtyListed(s, p), t.experiments = s.experiments,
         t.expDirty \subseteq s.expDirty, SameListing(s, t),
         q = "closeAll" => p = "closeAll" \/ s.pendingGoHome
  PROVE  DirtyListed(t, q)
<1>1. DirtyExperimentIndices(t) \subseteq DirtyExperimentIndices(s)
  BY DEF DirtyExperimentIndices
<1> QED
  BY <1>1 DEF DirtyListed, SameListing

(* So a step that saves keeps the invariant.                                 *)
LEMMA RecordedHeld ==
  ASSUME NEW s, NEW p, NEW t, NEW q, ListsTyped(s), Held(s, p), Recorded(s, t),
         SameListing(s, t), q = "closeAll" => p = "closeAll" \/ s.pendingGoHome
  PROVE  Held(t, q) /\ (NoneLost(s, t) => HeldBy(s, p, t, q))
<1>1. ExpsOK(t)
  BY ExpsKept DEF Held, Recorded
<1>2. NoLoose => Housed(t)
  BY HousedKept DEF Held, ListsTyped
<1>3. NoClicks => DirtyListed(t, q)
  BY ListedKept DEF Held, Recorded
<1>4. NoneLost(s, t) => (t.lost \ s.lost) \cap ExpIds = {}
  BY DEF NoneLost
<1> QED
  BY <1>1, <1>2, <1>3, <1>4 DEF Held, HeldBy, SparesExps

(* And so does one that leaves the experiments alone.                        *)
LEMMA AloneHeld ==
  ASSUME NEW s, NEW p, NEW t, NEW q, ListsTyped(s), Held(s, p), Alone(s, t),
         q = "closeAll" => p = "closeAll" \/ s.pendingGoHome
  PROVE  HeldBy(s, p, t, q)
  BY AloneIsRecorded, RecordedHeld

(* A crash harms no experiment.                                              *)
LEMMA CrashedAlone ==
  ASSUME NEW s, NEW t, Crashed(s, t)
  PROVE  Alone(s, t)
  BY SameIsAlone DEF Crashed, SameLosses

(* Records that differ in prompts, or in the queued switch. *)
LEMMA PromptsAlone ==
  ASSUME NEW s, NEW t, SameButPrompts(s, t) \/ SameButSwitch(s, t)
  PROVE  Alone(s, t)
  BY SameIsAlone DEF SameButPrompts, SameButSwitch

(* A tab is no experiment.                                                   *)
LEMMA RemoveTabAlone ==
  ASSUME NEW s, IsApp(s), s.sessions \in Seq(Keys), NEW idx
  PROVE  Alone(s, RemoveTab(s, idx)) /\ IsApp(RemoveTab(s, idx))
<1> DEFINE t == RemoveTab(s, idx)
<1>1. CASE idx \notin TabIndices(s)
  <2>1. t = s
    BY <1>1 DEF RemoveTab
  <2> QED
    BY <2>1 DEF Alone, SameListing
<1>2. CASE idx \in TabIndices(s)
  <2> DEFINE key == s.sessions[idx]
  <2>1. key \in Keys /\ key \notin ExpIds
    BY <1>2, ElementOfSeq, IdentitiesAssumption
  <2>2. /\ IsApp(t) /\ SameExps(s, t) /\ t.consent = s.consent \ {key}
        /\ t.lost = s.lost \cup (({key} \cap s.dirty) \ s.consent)
        /\ t.showExitDirtyModal = s.showExitDirtyModal
        /\ t.exitSaveAllRunning = s.exitSaveAllRunning
        /\ t.pendingGoHome = s.pendingGoHome
    BY <1>2, RemoveTabDoes
  <2> HIDE DEF t, key
  <2>3. t.consent \cap ExpIds = s.consent \cap ExpIds /\ t.lost \cap ExpIds = s.lost \cap ExpIds
    BY <2>1, <2>2
  <2>4. Alone(s, t) /\ IsApp(t)
    BY <2>2, <2>3 DEF SameExps, Alone, SameListing
  <2> QED
    BY <2>4 DEF t
<1> QED
  BY <1>1, <1>2

(* Nor does closing one concern them.                                        *)
LEMMA CloseTabAlone ==
  ASSUME NEW s, IsApp(s), s.sessions \in Seq(Keys), NEW idx
  PROVE  Alone(s, CloseTab(s, idx)) /\ IsApp(CloseTab(s, idx))
<1> DEFINE t == CloseTab(s, idx)
           isActive == idx = s.activeSessionIdx /\ s.activeTabKind = "Workspace"
<1>1. CASE idx \notin TabIndices(s)
  <2>1. t = s
    BY <1>1 DEF CloseTab
  <2> QED
    BY <2>1 DEF Alone, SameListing
<1>2. CASE idx \in TabIndices(s)
  <2>1. /\ s.sessions[idx] \in s.dirty /\ isActive => SameButPrompts(s, t)
        /\ s.sessions[idx] \in s.dirty /\ ~isActive =>
             IsApp(t) /\ SameExit(s, t) /\ SameLosses(s, t) /\ SameExps(s, t)
        /\ s.sessions[idx] \notin s.dirty /\ isActive => SameButPrompts(s, t)
        /\ s.sessions[idx] \notin s.dirty /\ ~isActive => t = RemoveTab(s, idx)
    BY <1>2, CloseTabDoes
  <2>2. Alone(s, RemoveTab(s, idx)) /\ IsApp(RemoveTab(s, idx))
    BY RemoveTabAlone
  <2> HIDE DEF t
  <2>3. SameButPrompts(s, t) => Alone(s, t) /\ IsApp(t)
    BY PromptsAlone DEF SameButPrompts
  <2>4. SameExit(s, t) /\ SameLosses(s, t) /\ SameExps(s, t) => Alone(s, t)
    BY SameIsAlone
  <2>5. Alone(s, t) /\ IsApp(t)
    BY <2>1, <2>2, <2>3, <2>4
  <2> QED
    BY <2>5 DEF t
<1> QED
  BY <1>1, <1>2

(* Nor does opening one. *)
LEMMA OpenInNewTabAlone ==
  ASSUME NEW s, IsApp(s), NEW key
  PROVE  Alone(s, OpenInNewTab(s, key))
  BY DEF IsApp, AppFields, OpenInNewTab, SwapInSession, Alone, SameListing

-----------------------------------------------------------------------------
(* What the frame top does to experiments                                    *)

(* Switching tabs does not concern them. *)
LEMMA SwapHeld ==
  ASSUME NEW s, ListsTyped(s), Held(s, "swap")
  PROVE  HeldBy(s, "swap", ExecutePendingSwap(s), "open")
<1> DEFINE t == ExecutePendingSwap(s)
<1>1. SameExit(s, t) /\ SameLosses(s, t) /\ SameExps(s, t)
  BY ExecutePendingSwapDoes DEF ListsTyped
<1> HIDE DEF t
<1>2. HeldBy(s, "swap", t, "open")
  BY <1>1, SameIsAlone, AloneHeld
<1> QED
  BY <1>2 DEF t

(* A tab is loaded, left blank or taken away: all the same to experiments.   *)
LEMMA OpenHeld ==
  ASSUME NEW s, ListsTyped(s), Held(s, "open"), s.active \in Keys \cup {NoTab}, NEW outcome
  PROVE  HeldBy(s, "open", ExecutePendingOpen(s, outcome), "save")
<1> DEFINE t == ExecutePendingOpen(s, outcome)
<1>0. IsApp(s) /\ s.sessions \in Seq(Keys)
  BY DEF ListsTyped
<1>1. \/ Crashed(s, t)
      \/ OpenTaken(s, t)
      \/ s.pendingOpen # NoTab /\ TabLoaded(s, t) /\ s.active # NoTab
      \/ \E r : /\ s.pendingOpen # NoTab /\ OpenTaken(s, r)
                /\ t = [RemoveTab(r, r.activeSessionIdx)
                          EXCEPT !.activeTabKind = "Session"]
  BY <1>0, ExecutePendingOpenDoes
<1> SUFFICES HeldBy(s, "open", t, "save")
  OBVIOUS
<1> HIDE DEF t
<1>2. CASE Crashed(s, t)
  BY <1>2, CrashedAlone, AloneHeld
<1>3. CASE OpenTaken(s, t)
  BY <1>3, PromptsAlone, AloneHeld DEF OpenTaken
<1>4. CASE TabLoaded(s, t) /\ s.active # NoTab
  <2>1. s.active \notin ExpIds
    BY <1>4, IdentitiesAssumption
  <2>2. t.consent \cap ExpIds = s.consent \cap ExpIds
    BY <2>1, <1>4 DEF TabLoaded
  <2>3. Alone(s, t)
    BY <2>2, <1>4 DEF TabLoaded, SameExit, Alone, SameListing
  <2> QED
    BY <2>3, AloneHeld
<1>5. ASSUME NEW r, OpenTaken(s, r),
             t = [RemoveTab(r, r.activeSessionIdx) EXCEPT !.activeTabKind = "Session"]
      PROVE  HeldBy(s, "open", t, "save")
  <2> DEFINE u == RemoveTab(r, r.activeSessionIdx)
  <2>1. Alone(s, r) /\ IsApp(r) /\ r.sessions = s.sessions
    BY <1>5, PromptsAlone DEF OpenTaken, SameButPrompts, SameTabs
  <2>2. Alone(r, u) /\ IsApp(u)
    BY <1>0, <2>1, RemoveTabAlone
  <2>3. t = [u EXCEPT !.activeTabKind = "Session"]
    BY <1>5
  <2> HIDE DEF u
  <2>4. Alone(u, t)
    BY <2>2, <2>3 DEF IsApp, AppFields, Alone, SameListing
  <2>5. Alone(s, t)
    BY <2>1, <2>2, <2>4, AloneTransitive
  <2> QED
    BY <2>5, AloneHeld
<1> QED
  BY <1>1, <1>2, <1>3, <1>4, <1>5

(* Experiments that were written are saved.                                  *)
LEMMA WrittenIsRecorded ==
  ASSUME NEW s, NEW t, ExpsWritten(s, t), t.experiments = s.experiments,
         t.multiWorkspaceOpen = s.multiWorkspaceOpen, t.welcome => s.welcome,
         s.consent \cap ExpIds \subseteq t.consent
  PROVE  Recorded(s, t)
  BY DEF ExpsWritten, Recorded

(* The queued save writes experiments, or none.                              *)
LEMMA SaveHeld ==
  ASSUME NEW s, s \in AppStates, ListsTyped(s), Held(s, "save"), NEW saved, NEW m,
         NEW n \in Nat
  PROVE  HeldBy(s, "save", ExecutePendingSave(s, saved, m, n), "closePrompt")
<1> DEFINE t == ExecutePendingSave(s, saved, m, n)
<1>1. \/ Crashed(s, t)
      \/ /\ SameExit(s, t) /\ SameLosses(s, t)
         /\ ExpsWritten(s, t) /\ t.experiments = s.experiments
         /\ t.exitDirtyExperiments = s.exitDirtyExperiments
         /\ t.multiWorkspaceOpen = s.multiWorkspaceOpen /\ t.welcome = s.welcome
  BY ExecutePendingSaveDoes
<1> SUFFICES HeldBy(s, "save", t, "closePrompt")
  OBVIOUS
<1> HIDE DEF t
<1>3. CASE Crashed(s, t)
  BY <1>3, CrashedAlone, AloneHeld
<1>4. CASE /\ SameExit(s, t) /\ SameLosses(s, t)
           /\ ExpsWritten(s, t) /\ t.experiments = s.experiments
           /\ t.exitDirtyExperiments = s.exitDirtyExperiments
           /\ t.multiWorkspaceOpen = s.multiWorkspaceOpen /\ t.welcome = s.welcome
  <2>1. Recorded(s, t)
    BY <1>4, WrittenIsRecorded DEF SameLosses
  <2>2. SameListing(s, t) /\ NoneLost(s, t)
    BY <1>4 DEF SameListing, SameExit, NoneLost, SameLosses
  <2> QED
    BY <2>1, <2>2, RecordedHeld
<1> QED
  BY <1>1, <1>3, <1>4

(* The prompt about a parked tab, and the queued removal, are about tabs.    *)
LEMMA ClosesHeld ==
  ASSUME NEW s, ListsTyped(s)
  PROVE  /\ Held(s, "closePrompt") => HeldBy(s, "closePrompt", RaiseClosePrompt(s), "remove")
         /\ Held(s, "remove") => HeldBy(s, "remove", RunPendingRemove(s), "saveAll")
<1>0. IsApp(s) /\ s.sessions \in Seq(Keys)
  BY DEF ListsTyped
<1>1. Alone(s, RaiseClosePrompt(s))
  <2> DEFINE t == RaiseClosePrompt(s)
  <2>1. t = s \/ SameButPrompts(s, t)
    BY <1>0, ClosePromptDoes
  <2> HIDE DEF t
  <2>2. Alone(s, t)
    BY <2>1, PromptsAlone DEF Alone, SameListing
  <2> QED
    BY <2>2 DEF t
<1>2. Alone(s, RunPendingRemove(s))
  <2> DEFINE r == [s EXCEPT !.pendingRemoveIdx = 0]
             t == RunPendingRemove(s)
             u == RemoveTab(r, s.pendingRemoveIdx)
  <2>1. Alone(s, r) /\ IsApp(r) /\ r.sessions = s.sessions
    BY <1>0 DEF IsApp, AppFields, Alone, SameListing
  <2>2. t = s \/ t = u
    BY DEF RunPendingRemove
  <2>3. Alone(s, s)
    BY DEF Alone, SameListing
  <2> HIDE DEF r, t
  <2>4. Alone(r, u)
    BY <1>0, <2>1, RemoveTabAlone
  <2> HIDE DEF u
  <2>5. Alone(s, t)
    BY <2>1, <2>2, <2>3, <2>4, AloneTransitive
  <2> QED
    BY <2>5 DEF t
<1> QED
  BY <1>1, <1>2, AloneHeld

(* The flow that lists the experiments has another list, or has ended.       *)
LEMMA RelistedHeld ==
  ASSUME NEW s, NEW p, NEW t, NEW q, ListsTyped(s), Held(s, p),
         t.experiments = s.experiments, t.expDirty \subseteq s.expDirty,
         NoLoose => Recorded(s, t), NoneLost(s, t),
         NoClicks /\ (t.showExitDirtyModal \/ t.exitSaveAllRunning) =>
           DirtyExperimentIndices(s) \subseteq t.exitDirtyExperiments,
         NoClicks /\ (t.pendingGoHome \/ q = "closeAll") => t.expDirty = {}
  PROVE  HeldBy(s, p, t, q)
<1>1. ExpsOK(t)
  BY ExpsKept DEF Held
<1>2. NoLoose => Housed(t)
  BY HousedKept DEF Held, ListsTyped
<1>3. DirtyExperimentIndices(t) \subseteq DirtyExperimentIndices(s)
  BY DEF DirtyExperimentIndices
<1>4. NoClicks => DirtyListed(t, q)
  BY <1>3 DEF DirtyListed
<1>5. (t.lost \ s.lost) \cap ExpIds = {}
  BY DEF NoneLost
<1> QED
  BY <1>1, <1>2, <1>4, <1>5 DEF Held, HeldBy, SparesExps

(* Save All has reached the end of its list: the experiments on it are       *)
(* written, up to one that cannot be.                                        *)
LEMMA FinishSaveAllExps ==
  ASSUME NEW s, IsApp(s), Len(s.experiments) \in Nat, NEW n \in Nat
  PROVE  LET t == FinishSaveAll(s, n) IN
         /\ t.experiments = s.experiments /\ SameLosses(s, t)
         /\ t.multiWorkspaceOpen = s.multiWorkspaceOpen /\ t.welcome = s.welcome
         /\ t.expDirty \subseteq s.expDirty
         /\ s.multiWorkspaceOpen => ExpsWritten(s, t)
         /\ ~s.multiWorkspaceOpen => t.expSaved = s.expSaved
         /\ t.showExitDirtyModal = s.showExitDirtyModal /\ ~t.exitSaveAllRunning
         /\ \/ t.pendingGoHome = s.pendingGoHome
            \/ \A i \in s.exitDirtyExperiments \cap ExpIndices(s) :
                 s.experiments[i] \notin t.expDirty
<1> DEFINE listed  == s.exitDirtyExperiments \cap ExpIndices(s)
           passed  == [s EXCEPT !.exitSaveAllCursor = @ + 1]
           saves   == SaveExperiments(passed, listed, n)
           written == IF s.multiWorkspaceOpen THEN saves ELSE passed
           names   == {s.experiments[i] : i \in listed}
           left    == AbandonSaveAll(written)
           done    == [left EXCEPT !.expDirty = @ \ names]
           home    == [done EXCEPT !.pendingGoHome = TRUE]
           out     == [done EXCEPT !.shouldClose = TRUE]
           t       == FinishSaveAll(s, n)
<1>1. /\ s.multiWorkspaceOpen /\ n < Len(s.experiments) => t = left
      /\ ~(s.multiWorkspaceOpen /\ n < Len(s.experiments)) => t \in {home, out}
  BY DEF FinishSaveAll
<1>2. /\ IsApp(passed) /\ SameLosses(s, passed) /\ SameExps(s, passed)
      /\ passed.showExitDirtyModal = s.showExitDirtyModal
      /\ passed.pendingGoHome = s.pendingGoHome
  BY DEF IsApp, AppFields, SameLosses, SameExps
<1> HIDE DEF passed, t
<1>3. /\ IsApp(saves) /\ SameExit(passed, saves) /\ SameLosses(passed, saves)
      /\ saves.experiments = passed.experiments /\ saves.expDirty \subseteq passed.expDirty
      /\ saves.multiWorkspaceOpen = passed.multiWorkspaceOpen
      /\ saves.welcome = passed.welcome
      /\ ExpsWritten(passed, saves) /\ CleanUpTo(passed, saves, listed, n)
  BY <1>2, SaveExperimentsDoes DEF OnlyExps
<1> HIDE DEF saves
<1>4. /\ IsApp(written) /\ SameLosses(s, written) /\ written.experiments = s.experiments
      /\ written.expDirty \subseteq s.expDirty
      /\ written.multiWorkspaceOpen = s.multiWorkspaceOpen /\ written.welcome = s.welcome
      /\ written.showExitDirtyModal = s.showExitDirtyModal
      /\ written.pendingGoHome = s.pendingGoHome
      /\ s.multiWorkspaceOpen => ExpsWritten(s, written)
      /\ ~s.multiWorkspaceOpen => written.expSaved = s.expSaved
  BY <1>2, <1>3 DEF SameLosses, SameExps, SameExit, ExpsWritten
<1>5. s.multiWorkspaceOpen /\ ~(n < Len(s.experiments)) => names \cap written.expDirty = {}
  <2> SUFFICES ASSUME s.multiWorkspaceOpen, ~(n < Len(s.experiments)), NEW i \in listed
               PROVE  s.experiments[i] \notin written.expDirty
    OBVIOUS
  <2>1. i \in ExpIndices(passed) /\ i <= n
    BY <1>2 DEF SameExps
  <2>2. written = saves
    OBVIOUS
  <2> QED
    BY <1>2, <1>3, <2>1, <2>2 DEF CleanUpTo, SameExps
<1> HIDE DEF written
<1>6. /\ IsApp(left) /\ SameLosses(written, left) /\ left.experiments = written.experiments
      /\ left.expDirty = written.expDirty /\ left.expSaved = written.expSaved
      /\ left.multiWorkspaceOpen = written.multiWorkspaceOpen
      /\ left.welcome = written.welcome /\ ~left.exitSaveAllRunning
      /\ left.showExitDirtyModal = written.showExitDirtyModal
      /\ left.pendingGoHome = written.pendingGoHome
  BY <1>4, ExitAnswersDo DEF SameButFlow
<1> HIDE DEF left, names
<1>7. /\ IsApp(done) /\ SameLosses(left, done) /\ done.experiments = left.experiments
      /\ done.expDirty = left.expDirty \ names /\ done.expSaved = left.expSaved
      /\ done.multiWorkspaceOpen = left.multiWorkspaceOpen
      /\ done.welcome = left.welcome /\ ~done.exitSaveAllRunning
      /\ done.showExitDirtyModal = left.showExitDirtyModal
      /\ done.pendingGoHome = left.pendingGoHome
  BY <1>6 DEF IsApp, AppFields, SameLosses
<1> HIDE DEF done
<1>8. \A u \in {home, out} :
        /\ SameLosses(done, u) /\ u.experiments = done.experiments
        /\ u.expDirty = done.expDirty /\ u.expSaved = done.expSaved
        /\ u.multiWorkspaceOpen = done.multiWorkspaceOpen
        /\ u.welcome = done.welcome /\ ~u.exitSaveAllRunning
        /\ u.showExitDirtyModal = done.showExitDirtyModal
  BY <1>7 DEF IsApp, AppFields, SameLosses
<1> HIDE DEF home, out
<1>9. CASE s.multiWorkspaceOpen /\ n < Len(s.experiments)
  <2>1. t = left
    BY <1>1, <1>9
  <2> QED
    BY <1>4, <1>6, <1>9, <2>1 DEF SameLosses, ExpsWritten, t
<1>10. CASE ~(s.multiWorkspaceOpen /\ n < Len(s.experiments))
  <2>1. t \in {home, out}
    BY <1>1, <1>10
  <2>2. /\ SameLosses(s, t) /\ t.experiments = s.experiments
        /\ t.expDirty = written.expDirty \ names /\ t.expSaved = written.expSaved
        /\ t.multiWorkspaceOpen = s.multiWorkspaceOpen /\ t.welcome = s.welcome
        /\ ~t.exitSaveAllRunning /\ t.showExitDirtyModal = s.showExitDirtyModal
    BY <1>4, <1>6, <1>7, <1>8, <2>1 DEF SameLosses
  <2>3. s.multiWorkspaceOpen => ExpsWritten(s, t)
    BY <1>4, <1>5, <1>10, <2>2 DEF ExpsWritten
  <2>4. \A i \in listed : s.experiments[i] \notin t.expDirty
    BY <2>2 DEF names
  <2>5. t.expDirty \subseteq s.expDirty /\ (~s.multiWorkspaceOpen => t.expSaved = s.expSaved)
    BY <1>4, <2>2
  <2> QED
    BY <2>2, <2>3, <2>4, <2>5 DEF t
<1> QED
  BY <1>9, <1>10

(* What is on the list is all that is dirty: nothing is left.                *)
LEMMA ListedAreAll ==
  ASSUME NEW s, NEW t, ExpsOK(s), t.expDirty \subseteq s.expDirty,
         DirtyExperimentIndices(s) \subseteq s.exitDirtyExperiments,
         \A i \in s.exitDirtyExperiments \cap ExpIndices(s) : s.experiments[i] \notin t.expDirty
  PROVE  t.expDirty = {}
<1> SUFFICES ASSUME NEW e \in t.expDirty PROVE FALSE
  OBVIOUS
<1>1. PICK i \in ExpIndices(s) : e = s.experiments[i]
  BY DEF ExpsOK, ExpKeys
<1>2. i \in DirtyExperimentIndices(s)
  BY <1>1 DEF DirtyExperimentIndices
<1> QED
  BY <1>1, <1>2

(* Without a project there is nothing to save.                               *)
LEMMA NoProjectNothing ==
  ASSUME NEW s, ExpsOK(s), s.experiments = << >>
  PROVE  s.expDirty = {} /\ DirtyExperimentIndices(s) = {} /\ ExpKeys(s) = {}
  BY DEF ExpsOK, ExpKeys, DirtyExperimentIndices

(* The end of Save All.                                                      *)
LEMMA FinishSaveAllHeld ==
  ASSUME NEW s, ListsTyped(s), Held(s, "saveAll"), s.exitSaveAllRunning, WorkList(s),
         NEW n \in Nat
  PROVE  HeldBy(s, "saveAll", FinishSaveAll(s, n), "home")
<1> DEFINE t == FinishSaveAll(s, n)
<1>0. IsApp(s) /\ Len(s.experiments) \in Nat /\ ~s.showExitDirtyModal
  BY ExpKeysTyped DEF ListsTyped, WorkList
<1>1. /\ t.experiments = s.experiments /\ SameLosses(s, t)
      /\ t.multiWorkspaceOpen = s.multiWorkspaceOpen /\ t.welcome = s.welcome
      /\ t.expDirty \subseteq s.expDirty
      /\ s.multiWorkspaceOpen => ExpsWritten(s, t)
      /\ ~s.multiWorkspaceOpen => t.expSaved = s.expSaved
      /\ t.showExitDirtyModal = s.showExitDirtyModal /\ ~t.exitSaveAllRunning
      /\ \/ t.pendingGoHome = s.pendingGoHome
         \/ \A i \in s.exitDirtyExperiments \cap ExpIndices(s) :
              s.experiments[i] \notin t.expDirty
  BY <1>0, FinishSaveAllExps
<1> SUFFICES HeldBy(s, "saveAll", t, "home")
  OBVIOUS
<1> HIDE DEF t
<1>2. NoLoose => Recorded(s, t)
  <2>1. CASE s.multiWorkspaceOpen
    BY <1>1, <2>1, WrittenIsRecorded DEF SameLosses
  <2>2. CASE ~s.multiWorkspaceOpen /\ NoLoose
    <3>1. s.experiments = << >>
      BY <2>2 DEF Held, Housed
    <3>2. s.expDirty = {}
      BY <3>1, NoProjectNothing DEF Held
    <3> QED
      BY <1>1, <2>2, <3>2 DEF Recorded, SameLosses
  <2> QED
    BY <2>1, <2>2
<1>3. NoneLost(s, t)
  BY <1>1 DEF NoneLost, SameLosses
<1>4. NoClicks /\ t.pendingGoHome => t.expDirty = {}
  <2> SUFFICES ASSUME NoClicks, t.pendingGoHome PROVE t.expDirty = {}
    OBVIOUS
  <2>1. ExpsOK(s) /\ DirtyListed(s, "saveAll")
    BY DEF Held
  <2>2. CASE t.pendingGoHome = s.pendingGoHome
    BY <1>1, <2>1, <2>2 DEF DirtyListed
  <2>3. CASE \A i \in s.exitDirtyExperiments \cap ExpIndices(s) :
               s.experiments[i] \notin t.expDirty
    BY <1>1, <2>1, <2>3, ListedAreAll DEF DirtyListed
  <2> QED
    BY <1>1, <2>2, <2>3
<1> QED
  BY <1>0, <1>1, <1>2, <1>3, <1>4, RelistedHeld

(* Save All is given up: the experiments are as they were.                   *)
LEMMA AbandonSaveAllHeld ==
  ASSUME NEW s, ListsTyped(s), Held(s, "saveAll"), s.exitSaveAllRunning, WorkList(s)
  PROVE  HeldBy(s, "saveAll", AbandonSaveAll(s), "home")
<1> DEFINE t == AbandonSaveAll(s)
<1>1. /\ SameLosses(s, t) /\ t.experiments = s.experiments /\ t.expDirty = s.expDirty
      /\ t.expSaved = s.expSaved
      /\ t.multiWorkspaceOpen = s.multiWorkspaceOpen /\ t.welcome = s.welcome
      /\ t.showExitDirtyModal = s.showExitDirtyModal /\ ~t.exitSaveAllRunning
      /\ t.pendingGoHome = s.pendingGoHome
  BY ExitAnswersDo DEF ListsTyped
<1> SUFFICES HeldBy(s, "saveAll", t, "home")
  OBVIOUS
<1> HIDE DEF t
<1>2. Recorded(s, t) /\ NoneLost(s, t)
  BY <1>1 DEF SameLosses, Recorded, NoneLost
<1>3. NoClicks /\ t.pendingGoHome => t.expDirty = {}
  BY <1>1 DEF Held, DirtyListed
<1>4. ~t.showExitDirtyModal
  BY <1>1 DEF WorkList
<1> QED
  BY <1>1, <1>2, <1>3, <1>4, RelistedHeld

(* One frame of Save All. *)
LEMMA SaveAllHeld ==
  ASSUME NEW s, ListsTyped(s), Held(s, "saveAll"), WorkList(s), NEW saved, NEW n \in Nat
  PROVE  HeldBy(s, "saveAll", AdvanceExitSaveAll(s, saved, n), "home")
<1> DEFINE t == AdvanceExitSaveAll(s, saved, n)
           a == AbandonSaveAll(s)
           f == FinishSaveAll(s, n)
           b == SaveAllTab(s, saved)
<1>1. t = s \/ (s.exitSaveAllRunning /\ t \in {f, b})
  BY DEF AdvanceExitSaveAll, SaveAllPaused
<1>2. s.exitSaveAllRunning => HeldBy(s, "saveAll", f, "home") /\ HeldBy(s, "saveAll", a, "home")
  BY FinishSaveAllHeld, AbandonSaveAllHeld
<1>3. \/ SameButSwitch(s, b) \/ Crashed(s, b) \/ b = a
      \/ /\ SameLosses(s, b) /\ SameExps(s, b)
         /\ b.showExitDirtyModal = s.showExitDirtyModal
         /\ b.exitSaveAllRunning = s.exitSaveAllRunning
         /\ b.pendingGoHome = s.pendingGoHome
  BY SaveAllTabDoes DEF ListsTyped
<1> SUFFICES HeldBy(s, "saveAll", t, "home")
  OBVIOUS
<1> HIDE DEF t, a, b, f
<1>4. Alone(s, b) \/ b = a
  BY <1>3, CrashedAlone, PromptsAlone DEF SameLosses, SameExps, Alone, SameListing
<1>5. Alone(s, s)
  BY DEF Alone, SameListing
<1> QED
  BY <1>1, <1>2, <1>4, <1>5, AloneHeld

(* Nothing is dirty: nothing has to be listed.                               *)
LEMMA CleanHeld ==
  ASSUME NEW t, NEW q, t.expDirty = {}
  PROVE  /\ DirtyListed(t, q)
         /\ t.experiments = << >> => Held(t, q)
<1>1. DirtyListed(t, q)
  BY DEF DirtyListed, DirtyExperimentIndices
<1>2. t.experiments = << >> => ExpsOK(t) /\ Housed(t)
  BY DEF ExpsOK, Housed, ExpKeys
<1> QED
  BY <1>1, <1>2 DEF Held

(* Nothing that is dirty is listed: nothing is dirty.                        *)
LEMMA NoneDirty ==
  ASSUME NEW s, ExpsOK(s), DirtyExperimentIndices(s) = {}
  PROVE  s.expDirty = {}
  BY DEF ExpsOK, ExpKeys, DirtyExperimentIndices

(* A record is left as it is. *)
LEMMA UnchangedHeld ==
  ASSUME NEW s, ListsTyped(s), NEW p, NEW q, Held(s, p),
         q = "closeAll" => p = "closeAll" \/ s.pendingGoHome
  PROVE  HeldBy(s, p, s, q)
<1>1. Alone(s, s)
  BY DEF Alone, SameListing
<1> QED
  BY <1>1, AloneHeld

(* Going home starts where no experiment is dirty.                           *)
LEMMA HomeHeld ==
  ASSUME NEW s, ListsTyped(s), Held(s, "home")
  PROVE  /\ HeldBy(s, "home", s, "poll")
         /\ s.pendingGoHome =>
              HeldBy(s, "home", [s EXCEPT !.pendingGoHome = FALSE, !.exitTargetIsGoHome = FALSE],
                     "closeAll")
<1> DEFINE t == [s EXCEPT !.pendingGoHome = FALSE, !.exitTargetIsGoHome = FALSE]
<1>1. Alone(s, t)
  BY DEF ListsTyped, IsApp, AppFields, Alone, SameListing
<1> HIDE DEF t
<1>2. s.pendingGoHome => HeldBy(s, "home", t, "closeAll")
  BY <1>1, AloneHeld
<1>3. HeldBy(s, "home", s, "poll")
  BY UnchangedHeld
<1> QED
  BY <1>2, <1>3 DEF t

(* The tabs go, and then the experiments: none of them is dirty.             *)
LEMMA CloseAllHeld ==
  ASSUME NEW s, ListsTyped(s), Held(s, "closeAll")
  PROVE  /\ \A idx : HeldBy(s, "closeAll", RemoveTab(s, idx), "closeAll")
         /\ HeldBy(s, "closeAll", FinishGoHome(s), "poll")
<1>0. IsApp(s) /\ s.sessions \in Seq(Keys)
  BY DEF ListsTyped
<1>1. \A idx : HeldBy(s, "closeAll", RemoveTab(s, idx), "closeAll")
  BY <1>0, RemoveTabAlone, AloneHeld
<1>2. HeldBy(s, "closeAll", FinishGoHome(s), "poll")
  <2> DEFINE t == FinishGoHome(s)
  <2>1. /\ t.experiments = << >> /\ t.expDirty = {}
        /\ t.lost = s.lost \cup (s.expDirty \ s.consent)
    BY <1>0, FinishGoHomeDoes
  <2> SUFFICES HeldBy(s, "closeAll", t, "poll")
    OBVIOUS
  <2> HIDE DEF t
  <2>2. NoClicks => s.expDirty = {}
    BY DEF Held, DirtyListed
  <2>3. Held(t, "poll") /\ (NoClicks => t.lost = s.lost)
    BY <2>1, <2>2, CleanHeld
  <2> QED
    BY <2>3 DEF HeldBy, SparesExps
<1> QED
  BY <1>1, <1>2

-----------------------------------------------------------------------------
(* What the window, the background and the keyboard do to experiments        *)

(* The exit modal lists them all. *)
LEMMA ModalShownHeld ==
  ASSUME NEW s, NEW p, ListsTyped(s), Held(s, p), ~DirtyFlowPending(s), NEW t, NEW order,
         ModalShown(s, t, order), NEW q, q # "closeAll"
  PROVE  HeldBy(s, p, t, q)
<1>1. /\ Recorded(s, t) /\ NoneLost(s, t) /\ t.expDirty = s.expDirty
      /\ t.experiments = s.experiments /\ t.pendingGoHome = s.pendingGoHome
      /\ t.exitDirtyExperiments = DirtyExperimentIndices(s)
  BY DEF ModalShown, SameButExit, SameLosses, Recorded, NoneLost
<1>2. NoClicks /\ t.pendingGoHome => t.expDirty = {}
  BY <1>1 DEF Held, DirtyListed
<1> QED
  BY <1>1, <1>2, RelistedHeld

(* The way out is free because nothing is dirty.                             *)
LEMMA NothingCollectedHeld ==
  ASSUME NEW s, NEW p, ListsTyped(s), Held(s, p), NothingCollected(s), NEW t,
         SameButExit(s, t), NEW q
  PROVE  HeldBy(s, p, t, q) /\ t.expDirty = {}
<1>1. s.expDirty = {}
  BY NoneDirty DEF NothingCollected, Held
<1>2. /\ Recorded(s, t) /\ NoneLost(s, t) /\ t.expDirty = {} /\ t.experiments = s.experiments
  BY <1>1 DEF SameButExit, SameLosses, Recorded, NoneLost
<1>3. ExpsOK(t) /\ (NoLoose => Housed(t)) /\ DirtyListed(t, q)
  BY <1>2, ExpsKept, HousedKept, CleanHeld DEF Held, ListsTyped
<1>4. (t.lost \ s.lost) \cap ExpIds = {}
  BY <1>2 DEF NoneLost
<1> QED
  BY <1>2, <1>3, <1>4 DEF Held, HeldBy, SparesExps

(* The window events: with no close put off, the window closes when no       *)
(* experiment is dirty.                                                      *)
LEMMA PollHeld ==
  ASSUME NEW s, s \in AppStates, ListsTyped(s), Held(s, "poll"), NEW pressed \in BOOLEAN,
         NEW order, NEW q, q # "closeAll"
  PROVE  LET t == PollEvents(s, pressed, order) IN
         /\ HeldBy(s, "poll", t, q)
         /\ t.shouldClose => t.expDirty = {} \/ s.exitDeferredClose
<1> DEFINE t == PollEvents(s, pressed, order)
<1>1. /\ SameButExit(s, t)
      /\ t.exitSaveAllRunning = s.exitSaveAllRunning
      /\ t.pendingGoHome = s.pendingGoHome
      /\ \/ /\ t.showExitDirtyModal = s.showExitDirtyModal
            /\ \/ t.exitDirtyExperiments = s.exitDirtyExperiments
               \/ NothingCollected(s) /\ ~DirtyFlowPending(s)
         \/ ~DirtyFlowPending(s) /\ ~NothingCollected(s) /\ ModalShown(s, t, order)
      /\ t.shouldClose => NothingCollected(s) \/ s.exitDeferredClose
  BY PollEventsDoes
<1> SUFFICES /\ HeldBy(s, "poll", t, q)
             /\ t.shouldClose => t.expDirty = {} \/ s.exitDeferredClose
  OBVIOUS
<1> HIDE DEF t
<1>2. CASE NothingCollected(s)
  BY <1>1, <1>2, NothingCollectedHeld
<1>3. CASE ~NothingCollected(s)
  <2>1. CASE ~DirtyFlowPending(s) /\ ModalShown(s, t, order)
    BY <1>1, <1>3, <2>1, ModalShownHeld
  <2>2. CASE /\ t.showExitDirtyModal = s.showExitDirtyModal
             /\ t.exitDirtyExperiments = s.exitDirtyExperiments
    <3>1. Alone(s, t)
      BY <1>1, <2>2 DEF SameButExit, SameLosses, Alone, SameListing
    <3> QED
      BY <1>1, <1>3, <3>1, AloneHeld
  <2> QED
    BY <1>1, <1>3, <2>1, <2>2
<1> QED
  BY <1>2, <1>3

(* Ctrl+H: the modal lists the dirty experiments, or there is none.          *)
LEMMA RequestGoHomeHeld ==
  ASSUME NEW s, NEW p, ListsTyped(s), Held(s, p), NEW order, NEW q, q # "closeAll"
  PROVE  HeldBy(s, p, RequestGoHome(s, order), q)
<1> DEFINE t == RequestGoHome(s, order)
<1>1. \/ t = s
      \/ NothingCollected(s) /\ SameButExit(s, t)
      \/ ~DirtyFlowPending(s) /\ ModalShown(s, t, order)
  BY RequestGoHomeDoes DEF ListsTyped
<1> SUFFICES HeldBy(s, p, t, q)
  OBVIOUS
<1> HIDE DEF t
<1> QED
  BY <1>1, UnchangedHeld, NothingCollectedHeld, ModalShownHeld

(* A change in the active tab is none in an experiment. *)
LEMMA EditActiveTabHeld ==
  ASSUME NEW s, NEW p, ListsTyped(s), Held(s, p), s.active \in Keys, NEW spoils,
         NEW q, q # "closeAll"
  PROVE  HeldBy(s, p, EditActiveTab(s, spoils), q)
<1> DEFINE t == EditActiveTab(s, spoils)
<1>1. /\ SameExit(s, t) /\ SameExps(s, t) /\ t.consent = s.consent \ {s.active}
      /\ t.lost = s.lost
  BY EditActiveTabDoes DEF ListsTyped
<1> SUFFICES HeldBy(s, p, t, q)
  OBVIOUS
<1> HIDE DEF t
<1>2. t.consent \cap ExpIds = s.consent \cap ExpIds
  BY <1>1, IdentitiesAssumption
<1>3. Alone(s, t)
  BY <1>1, <1>2 DEF SameExit, SameExps, Alone, SameListing
<1> QED
  BY <1>3, AloneHeld

(* Nor is a save that is asked for. *)
LEMMA RequestSavesHeld ==
  ASSUME NEW s, NEW p, ListsTyped(s), Held(s, p), NEW q, q # "closeAll"
  PROVE  HeldBy(s, p, RequestSaveEverything(s), q) /\ HeldBy(s, p, RequestSaveAs(s), q)
<1> DEFINE t == RequestSaveEverything(s)
           u == RequestSaveAs(s)
<1>1. /\ SameExit(s, t) /\ SameLosses(s, t) /\ SameExps(s, t)
      /\ SameExit(s, u) /\ SameLosses(s, u) /\ SameExps(s, u)
  BY RequestSavesDo DEF ListsTyped
<1> SUFFICES HeldBy(s, p, t, q) /\ HeldBy(s, p, u, q)
  OBVIOUS
<1> HIDE DEF t, u
<1> QED
  BY <1>1, SameIsAlone, AloneHeld

-----------------------------------------------------------------------------
(* Another project                                                           *)

(* No instance twice. *)
Distinct(q) == \A i, j \in 1 .. Len(q) : q[i] = q[j] => i = j

(* The experiments made way for those of the project, which are on disk; or  *)
(* the project could not be read.                                            *)
Replaced(s, t, saved) ==
  \/ t = s
  \/ /\ t.expDirty = {} /\ t.multiWorkspaceOpen
     /\ t.lost = s.lost \cup (s.expDirty \ s.consent)
     /\ \/ t.experiments = << >>
        \/ t.experiments = saved /\ Range(saved) \subseteq t.expSaved /\ ~t.welcome

(* A project is opened, and shown.                                           *)
LEMMA ProjectShownExps ==
  ASSUME NEW s, IsApp(s), s.sessions \in Seq(Keys), NEW outcome \in ProjectOutcomes,
         NEW saved \in Seq(ExpIds), NEW tabs \in Seq(Keys)
  PROVE  /\ Replaced(s, ProjectShown(s, outcome, saved, tabs), saved)
         /\ saved = << >> => Replaced(s, OpenProject(s, outcome, saved, tabs), saved)
<1> DEFINE c == ClearExperiments(s)
           m == [c EXCEPT !.multiWorkspaceOpen = TRUE]
           l == LoadExperiments(m, saved)
           r == RestoreOpenEmbeddedTabs(l, tabs)
           p == OpenProject(s, outcome, saved, tabs)
           f == FocusSessionTab(p)
           w == [f EXCEPT !.welcome = FALSE]
           t == ProjectShown(s, outcome, saved, tabs)
<1>1. /\ outcome = "unreadable" => p = s
      /\ outcome = "experimentsUnreadable" => p = m
      /\ outcome = "opened" => p = r
      /\ outcome \in {"unreadable", "experimentsUnreadable", "opened"}
      /\ t = IF outcome # "opened" THEN p ELSE w
  BY DEF OpenProject, ProjectShown, ProjectOutcomes
<1>2. /\ IsApp(c) /\ c.experiments = << >> /\ c.expDirty = {} /\ c.sessions = s.sessions
      /\ c.lost = s.lost \cup (s.expDirty \ s.consent)
  BY ClearExperimentsDoes DEF OnlyExps
<1> HIDE DEF c
<1>3. /\ IsApp(m) /\ m.experiments = << >> /\ m.expDirty = {} /\ m.sessions = s.sessions
      /\ m.lost = s.lost \cup (s.expDirty \ s.consent) /\ m.multiWorkspaceOpen
  BY <1>2 DEF IsApp, AppFields
<1> HIDE DEF m
<1>3a. /\ OnlyExps(m, l) /\ SameLosses(m, l) /\ l.experiments = m.experiments \o saved
      /\ l.expDirty = m.expDirty /\ l.expSaved = m.expSaved \cup Range(saved)
      /\ l.multiWorkspaceOpen = m.multiWorkspaceOpen
  BY <1>3, LoadExperimentsDoes
<1>4. /\ IsApp(l) /\ l.experiments = m.experiments \o saved /\ l.expDirty = {}
      /\ l.sessions = s.sessions
      /\ l.lost = m.lost /\ l.multiWorkspaceOpen /\ Range(saved) \subseteq l.expSaved
  BY <1>3, <1>3a DEF OnlyExps, SameLosses
<1> HIDE DEF l
<1>5. l.experiments = saved
  BY <1>3, <1>4, ConcatEmptySeq
<1>6. /\ IsApp(r) /\ r.experiments = saved /\ r.expDirty = {} /\ r.lost = m.lost
      /\ r.multiWorkspaceOpen /\ Range(saved) \subseteq r.expSaved
  BY <1>4, <1>5, RestoreTabsDoes DEF MoreTabs, SameLosses, SameExps
<1> HIDE DEF r, p, t
<1>7. CASE outcome = "opened"
  <2>1. /\ IsApp(f) /\ f.experiments = saved /\ f.expDirty = {} /\ f.lost = m.lost
        /\ f.multiWorkspaceOpen /\ Range(saved) \subseteq f.expSaved
    BY <1>1, <1>6, <1>7, FocusSessionTabDoes DEF SameButSwitch, SameLosses, SameExps
  <2> HIDE DEF f
  <2>2. /\ w.experiments = saved /\ w.expDirty = {} /\ w.lost = m.lost
        /\ w.multiWorkspaceOpen /\ Range(saved) \subseteq w.expSaved /\ ~w.welcome
    BY <2>1 DEF IsApp, AppFields
  <2> HIDE DEF w
  <2>3. t = w /\ p = r
    BY <1>1, <1>7
  <2> QED
    BY <1>3, <1>6, <2>2, <2>3 DEF Replaced, t, p
<1>8. CASE outcome # "opened"
  BY <1>1, <1>3, <1>8 DEF Replaced, t, p
<1> QED
  BY <1>7, <1>8

(* The stored experiments that may come in are distinct.                     *)
LEMMA LoadedDistinct ==
  ASSUME NEW s, NEW loaded \in UnloadedExperiments(s)
  PROVE  /\ loaded \in Seq(ExpIds) /\ Distinct(loaded)
         /\ Range(loaded) \cap Range(s.experiments) = {}
<1>1. CASE loaded = << >>
  BY <1>1 DEF Distinct, Range
<1>2. ASSUME NEW e \in ExpIds \ Range(s.experiments), loaded = <<e>>
      PROVE  loaded \in Seq(ExpIds) /\ Distinct(loaded) /\ Range(loaded) = {e}
  <2>1. loaded \in Seq(ExpIds) /\ Len(loaded) = 1 /\ loaded[1] = e
    BY <1>2
  <2>2. DOMAIN loaded = 1 .. 1
    BY <2>1, LenProperties
  <2> QED
    BY <2>1, <2>2 DEF Distinct, Range
<1> QED
  BY <1>1, <1>2 DEF UnloadedExperiments

(* What is held of a record in which only distinct saved experiments are.    *)
LEMMA LoadedHeld ==
  ASSUME NEW t, NEW saved \in Seq(ExpIds), Distinct(saved), NEW q,
         t.expDirty = {}, t.multiWorkspaceOpen,
         \/ t.experiments = << >>
         \/ t.experiments = saved /\ Range(saved) \subseteq t.expSaved /\ ~t.welcome
  PROVE  Held(t, q)
<1>1. CASE t.experiments = << >>
  BY <1>1, CleanHeld
<1>2. CASE t.experiments = saved /\ Range(saved) \subseteq t.expSaved /\ ~t.welcome
  <2>1. ExpKeys(t) = Range(saved)
    BY <1>2, ExpKeysTyped
  <2>2. ExpsOK(t) /\ Housed(t)
    BY <1>2, <2>1 DEF ExpsOK, Housed, Distinct
  <2> QED
    BY <2>2, CleanHeld DEF Held
<1> QED
  BY <1>1, <1>2

(* Experiments were written or let go of, and then made way for others.      *)
LEMMA ReplacedHeld ==
  ASSUME NEW s, NEW p, NEW w, NEW t, ListsTyped(s), Held(s, p), Recorded(s, w),
         SameListing(s, w), NoneLost(s, w), NEW saved \in Seq(ExpIds), Distinct(saved),
         Replaced(w, t, saved), NoClicks /\ NoLoose => w.expDirty \subseteq w.consent \/ MayLose(s, p)
  PROVE  HeldBy(s, p, t, "swap")
<1>1. CASE t = w
  BY <1>1, RecordedHeld
<1>2. CASE /\ t.expDirty = {} /\ t.multiWorkspaceOpen
           /\ t.lost = w.lost \cup (w.expDirty \ w.consent)
           /\ \/ t.experiments = << >>
              \/ t.experiments = saved /\ Range(saved) \subseteq t.expSaved /\ ~t.welcome
  <2>1. Held(t, "swap")
    BY <1>2, LoadedHeld
  <2>2. w.expDirty \subseteq w.consent => (t.lost \ s.lost) \cap ExpIds = {}
    BY <1>2 DEF NoneLost
  <2> QED
    BY <2>1, <2>2 DEF HeldBy, SparesExps
<1> QED
  BY <1>1, <1>2 DEF Replaced

(* The record in which an answer was given, before what waited for it.       *)
Prepared(s, w) ==
  /\ IsApp(w) /\ w.sessions = s.sessions
  /\ Recorded(s, w) /\ SameListing(s, w) /\ NoneLost(s, w)

(* What waited for the answer goes ahead: a tab, or another project.         *)
LEMMA DispatchHeld ==
  ASSUME NEW s, s \in AppStates, ListsTyped(s), Held(s, "ui"), NEW w, Prepared(s, w),
         w.pendingWorkspaceAction \in PendingActions,
         NoClicks /\ NoLoose /\ w.pendingWorkspaceAction = "OpenMultiWorkspace" =>
           w.expDirty \subseteq w.consent \/ MayLose(s, "ui"),
         NEW outcome \in ProjectOutcomes, NEW loaded \in UnloadedExperiments(Launched),
         NEW tabs \in Seq(Keys)
  PROVE  HeldBy(s, "ui", DispatchPendingAction(w, outcome, loaded, tabs), "swap")
<1> DEFINE t == DispatchPendingAction(w, outcome, loaded, tabs)
<1>0. IsApp(w) /\ w.sessions \in Seq(Keys) /\ s.expDirty \subseteq ExpIds
  BY DEF Prepared, ListsTyped, AppStates
<1>1. /\ w.pendingWorkspaceAction = "None" => t = w
      /\ w.pendingWorkspaceAction # "None" =>
           \E r : /\ QuestionsAnswered(w, r)
                  /\ w.pendingWorkspaceAction = "CloseWorkspace" =>
                       t = CloseTab(r, r.activeSessionIdx)
                  /\ w.pendingWorkspaceAction = "OpenMultiWorkspace" =>
                       t = ProjectShown(r, outcome, loaded, tabs)
  BY <1>0, DispatchPendingActionDoes
<1> SUFFICES HeldBy(s, "ui", t, "swap")
  OBVIOUS
<1> HIDE DEF t
<1>2. CASE w.pendingWorkspaceAction = "None"
  BY <1>1, <1>2, RecordedHeld DEF Prepared
<1>3. ASSUME NEW r, QuestionsAnswered(w, r)
      PROVE  /\ Prepared(s, r) /\ r.sessions \in Seq(Keys)
             /\ r.expDirty = w.expDirty /\ r.consent = w.consent
  <2>1. /\ IsApp(r) /\ Alone(w, r) /\ r.sessions = w.sessions /\ SameLosses(w, r)
    BY <1>3, PromptsAlone DEF QuestionsAnswered, SameButPrompts, SameTabs
  <2>2. Recorded(w, r) /\ SameListing(w, r) /\ NoneLost(w, r)
    BY <2>1, AloneIsRecorded
  <2>3. Recorded(s, r)
    BY <1>0, <2>2, RecordedTransitive DEF Prepared
  <2>4. SameListing(s, r) /\ NoneLost(s, r)
    BY <2>1, <2>2 DEF Prepared, SameListing, NoneLost, SameLosses
  <2> QED
    BY <1>0, <2>1, <2>3, <2>4 DEF Prepared, Alone, SameLosses
<1>4. ASSUME NEW r, QuestionsAnswered(w, r), t = CloseTab(r, r.activeSessionIdx)
      PROVE  HeldBy(s, "ui", t, "swap")
  <2>1. Prepared(s, r) /\ r.sessions \in Seq(Keys)
    BY <1>3, <1>4
  <2>2. Alone(r, t)
    BY <1>4, <2>1, CloseTabAlone DEF Prepared
  <2>3. Recorded(r, t) /\ SameListing(r, t) /\ NoneLost(r, t)
    BY <2>2, AloneIsRecorded
  <2>4. Recorded(s, t)
    BY <1>0, <2>1, <2>3, RecordedTransitive DEF Prepared
  <2>5. SameListing(s, t) /\ NoneLost(s, t)
    BY <2>1, <2>2, <2>3 DEF Prepared, SameListing, NoneLost, Alone
  <2> QED
    BY <2>4, <2>5, RecordedHeld
<1>5. ASSUME NEW r, QuestionsAnswered(w, r), t = ProjectShown(r, outcome, loaded, tabs),
             w.pendingWorkspaceAction = "OpenMultiWorkspace"
      PROVE  HeldBy(s, "ui", t, "swap")
  <2>1. /\ Prepared(s, r) /\ r.sessions \in Seq(Keys)
        /\ r.expDirty = w.expDirty /\ r.consent = w.consent
    BY <1>3, <1>5
  <2>2. loaded \in Seq(ExpIds) /\ Distinct(loaded)
    BY LoadedDistinct
  <2>3. Replaced(r, t, loaded)
    BY <1>5, <2>1, <2>2, ProjectShownExps DEF Prepared
  <2> QED
    BY <1>5, <2>1, <2>2, <2>3, ReplacedHeld DEF Prepared
<1> QED
  BY <1>1, <1>2, <1>4, <1>5 DEF PendingActions

-----------------------------------------------------------------------------
(* What the answers do to experiments                                        *)

(* An answer whose action is about tabs only. *)
LEMMA PreparedHeld ==
  ASSUME NEW s, NEW p, ListsTyped(s), s.expDirty \subseteq ExpIds, Held(s, p),
         NEW w, Prepared(s, w), NEW t, Alone(w, t), NEW q, q # "closeAll"
  PROVE  HeldBy(s, p, t, q)
<1>1. Recorded(w, t) /\ SameListing(w, t) /\ NoneLost(w, t)
  BY AloneIsRecorded
<1>2. Recorded(s, t)
  BY <1>1, RecordedTransitive DEF Prepared
<1>3. SameListing(s, t) /\ NoneLost(s, t)
  BY <1>1 DEF Prepared, SameListing, NoneLost, Alone
<1> QED
  BY <1>2, <1>3, RecordedHeld

(* The active tab was saved, and perhaps experiments. *)
LEMMA SavedPrepared ==
  ASSUME NEW s, NEW w, ActiveSaved(s, w),
         ExpsWritten(s, w) \/ (w.expDirty = s.expDirty /\ w.expSaved = s.expSaved)
  PROVE  Prepared(s, w)
<1>1. ExpsWritten(s, w)
  BY DEF ExpsWritten
<1>2. Recorded(s, w)
  BY <1>1, WrittenIsRecorded DEF ActiveSaved, SameLosses
<1>3. SameListing(s, w) /\ NoneLost(s, w)
  BY DEF ActiveSaved, SameListing, SameExit, NoneLost, SameLosses
<1> QED
  BY <1>2, <1>3 DEF Prepared, ActiveSaved, SameTabs

(* All were written: none is dirty. *)
LEMMA AllWritten ==
  ASSUME NEW s, NEW w, ExpsOK(s), ExpsWritten(s, w), Len(s.experiments) \in Nat,
         CleanUpTo(s, w, ExpIndices(s), Len(s.experiments))
  PROVE  w.expDirty = {}
  BY DEF ExpsOK, ExpKeys, ExpsWritten, CleanUpTo

(* Save: the experiments are written before another project is opened, unless*)
(* a write fails.                                                            *)
LEMMA AnswerSaveHeld ==
  ASSUME NEW s, s \in AppStates, ListsTyped(s), Held(s, "ui"), UnsavedUp(s), NEW saved,
         NEW n \in Nat, "failedSave" \notin Allowed => n = Len(s.experiments),
         NEW outcome \in ProjectOutcomes, NEW loaded \in UnloadedExperiments(Launched),
         NEW tabs \in Seq(Keys)
  PROVE  HeldBy(s, "ui", AnswerSave(s, saved, n, outcome, loaded, tabs), "swap")
<1> DEFINE t == AnswerSave(s, saved, n, outcome, loaded, tabs)
<1>0. IsApp(s) /\ s.expDirty \subseteq ExpIds /\ s.pendingWorkspaceAction \in PendingActions
  BY DEF ListsTyped, AppStates
<1>1. \/ Crashed(s, t) \/ SameButPrompts(s, t)
      \/ SavedAndAnswered(s, t, n, outcome, loaded, tabs)
  BY <1>0, AnswerSaveDoes
<1> SUFFICES HeldBy(s, "ui", t, "swap")
  OBVIOUS
<1> HIDE DEF t
<1>2. CASE Crashed(s, t) \/ SameButPrompts(s, t)
  BY <1>2, CrashedAlone, PromptsAlone, AloneHeld
<1>3. CASE SavedAndAnswered(s, t, n, outcome, loaded, tabs)
  <2>1. PICK w :
          /\ ActiveSaved(s, w) /\ ExpsWritten(s, w)
          /\ s.pendingTabCloseIdx = 0 /\ s.pendingWorkspaceAction = "OpenMultiWorkspace"
             => CleanUpTo(s, w, ExpIndices(s), n)
          /\ s.pendingTabCloseIdx # 0 => t = ResolveTabClose(w)
          /\ s.pendingTabCloseIdx = 0 =>
               /\ w.pendingWorkspaceAction = s.pendingWorkspaceAction
               /\ t = DispatchPendingAction(w, outcome, loaded, tabs)
    BY <1>3 DEF SavedAndAnswered
  <2>2. Prepared(s, w)
    BY <2>1, SavedPrepared
  <2>3. CASE s.pendingTabCloseIdx # 0
    <3>1. SameButPrompts(w, t)
      BY <2>1, <2>3, ClosePromptDoes DEF ActiveSaved
    <3>2. Alone(w, t)
      BY <3>1, PromptsAlone
    <3> QED
      BY <1>0, <2>2, <3>2, PreparedHeld
  <2>4. CASE s.pendingTabCloseIdx = 0
    <3>1. ASSUME NoClicks, NoLoose, w.pendingWorkspaceAction = "OpenMultiWorkspace"
          PROVE  w.expDirty \subseteq w.consent \/ MayLose(s, "ui")
      <4>1. s.pendingWorkspaceAction = "OpenMultiWorkspace"
        BY <2>1, <2>4, <3>1
      <4>2. CASE "failedSave" \in Allowed
        BY <4>1, <4>2 DEF MayLose
      <4>3. CASE "failedSave" \notin Allowed
        <5>1. n = Len(s.experiments) /\ CleanUpTo(s, w, ExpIndices(s), n)
          BY <2>1, <2>4, <4>1, <4>3
        <5>2. w.expDirty = {}
          BY <2>1, <5>1, AllWritten DEF Held
        <5> QED
          BY <5>2
      <4> QED
        BY <4>2, <4>3
    <3>2. w.pendingWorkspaceAction \in PendingActions
      BY <1>0, <2>1, <2>4
    <3>3. HeldBy(s, "ui", DispatchPendingAction(w, outcome, loaded, tabs), "swap")
      BY <2>2, <3>1, <3>2, DispatchHeld
    <3> QED
      BY <2>1, <2>4, <3>3
  <2> QED
    BY <2>3, <2>4
<1> QED
  BY <1>1, <1>2, <1>3

(* Don't Save: the experiments the prompt names may be lost.                 *)
LEMMA AnswerDontSaveHeld ==
  ASSUME NEW s, s \in AppStates, ListsTyped(s), Held(s, "ui"),
         NEW outcome \in ProjectOutcomes, NEW loaded \in UnloadedExperiments(Launched),
         NEW tabs \in Seq(Keys)
  PROVE  HeldBy(s, "ui", AnswerDontSave(s, outcome, loaded, tabs), "swap")
<1> DEFINE t == AnswerDontSave(s, outcome, loaded, tabs)
<1>0. IsApp(s) /\ s.expDirty \subseteq ExpIds /\ s.pendingWorkspaceAction \in PendingActions
  BY DEF ListsTyped, AppStates
<1>1. PICK r : /\ IsApp(r) /\ SamePrompts(s, r) /\ SameExit(s, r)
               /\ SameTabs(s, r) /\ SameExps(s, r) /\ r.lost = s.lost
               /\ r.consent = s.consent \cup NamedByPrompt(s)
               /\ s.pendingTabCloseIdx # 0 => t = ResolveTabClose(r)
               /\ s.pendingTabCloseIdx = 0 =>
                    t = DispatchPendingAction(r, outcome, loaded, tabs)
  BY <1>0, AnswerDontSaveDoes
<1> SUFFICES HeldBy(s, "ui", t, "swap")
  OBVIOUS
<1> HIDE DEF t
<1>2. Prepared(s, r)
  BY <1>1 DEF Prepared, SameTabs, SameExps, Recorded, SameExit, SameListing, NoneLost
<1>3. CASE s.pendingTabCloseIdx # 0
  <2>1. SameButPrompts(r, t)
    BY <1>1, <1>3, ClosePromptDoes
  <2>2. Alone(r, t)
    BY <2>1, PromptsAlone
  <2> QED
    BY <1>0, <1>2, <2>2, PreparedHeld
<1>4. CASE s.pendingTabCloseIdx = 0
  <2>1. r.expDirty \subseteq r.consent /\ r.pendingWorkspaceAction \in PendingActions
    BY <1>0, <1>1, <1>4 DEF NamedByPrompt, SameExps, SamePrompts
  <2>2. HeldBy(s, "ui", DispatchPendingAction(r, outcome, loaded, tabs), "swap")
    BY <1>2, <2>1, DispatchHeld
  <2> QED
    BY <1>1, <1>4, <2>2
<1> QED
  BY <1>3, <1>4

(* Cancel. *)
LEMMA AnswerCancelHeld ==
  ASSUME NEW s, ListsTyped(s), Held(s, "ui")
  PROVE  HeldBy(s, "ui", AnswerCancel(s), "swap")
<1> DEFINE t == AnswerCancel(s)
<1>1. /\ SameLosses(s, t) /\ SameExps(s, t)
      /\ t.showExitDirtyModal = s.showExitDirtyModal
      /\ t.exitSaveAllRunning = s.exitSaveAllRunning
      /\ t.pendingGoHome = s.pendingGoHome
  BY ClosePromptDoes DEF ListsTyped
<1> SUFFICES HeldBy(s, "ui", t, "swap")
  OBVIOUS
<1> HIDE DEF t
<1>2. Alone(s, t)
  BY <1>1 DEF SameLosses, SameExps, Alone, SameListing
<1> QED
  BY <1>2, AloneHeld

(* The answers of the stale prompt: Drop saves the tab, not the experiments. *)
LEMMA StaleAnswersHeld ==
  ASSUME NEW s, s \in AppStates, ListsTyped(s), Held(s, "ui"), StaleUp(s), NEW saved,
         NEW outcome \in ProjectOutcomes, NEW loaded \in UnloadedExperiments(Launched),
         NEW tabs \in Seq(Keys)
  PROVE  /\ HeldBy(s, "ui", StaleCancel(s), "swap")
         /\ HeldBy(s, "ui", StaleDrop(s, saved, outcome, loaded, tabs), "swap")
<1>0. IsApp(s) /\ s.expDirty \subseteq ExpIds /\ s.pendingWorkspaceAction \in PendingActions
  BY DEF ListsTyped, AppStates
<1>1. HeldBy(s, "ui", StaleCancel(s), "swap")
  <2> DEFINE t == StaleCancel(s)
  <2>1. Crashed(s, t) \/ SameButPrompts(s, t)
    BY <1>0, StaleAnswersDo
  <2> SUFFICES HeldBy(s, "ui", t, "swap")
    OBVIOUS
  <2> HIDE DEF t
  <2> QED
    BY <2>1, CrashedAlone, PromptsAlone, AloneHeld
<1>2. HeldBy(s, "ui", StaleDrop(s, saved, outcome, loaded, tabs), "swap")
  <2> DEFINE t == StaleDrop(s, saved, outcome, loaded, tabs)
  <2>1. \/ Crashed(s, t)
        \/ t = s
        \/ DroppedAndDispatched(s, t, outcome, loaded, tabs)
    BY <1>0, StaleAnswersDo
  <2> SUFFICES HeldBy(s, "ui", t, "swap")
    OBVIOUS
  <2> HIDE DEF t
  <2>2. CASE DroppedAndDispatched(s, t, outcome, loaded, tabs)
    <3>1. PICK w : /\ ActiveSaved(s, w) /\ w.expDirty = s.expDirty /\ w.expSaved = s.expSaved
                   /\ w.pendingWorkspaceAction = s.pendingWorkspaceAction
                   /\ t = DispatchPendingAction(w, outcome, loaded, tabs)
      BY <2>2 DEF DroppedAndDispatched
    <3>2. Prepared(s, w)
      BY <3>1, SavedPrepared
    <3>3. w.pendingWorkspaceAction = "OpenMultiWorkspace" => MayLose(s, "ui")
      BY <3>1 DEF MayLose
    <3>4. HeldBy(s, "ui", DispatchPendingAction(w, outcome, loaded, tabs), "swap")
      BY <1>0, <3>1, <3>2, <3>3, DispatchHeld
    <3> QED
      BY <3>1, <3>4
  <2> QED
    BY <2>1, <2>2, CrashedAlone, AloneHeld, UnchangedHeld
<1> QED
  BY <1>1, <1>2

(* The answers of the exit modal: Save All has them on its list, Discard All *)
(* lets go of them.                                                          *)
LEMMA ExitAnswersHeld ==
  ASSUME NEW s, ListsTyped(s), Held(s, "ui"), ExitUp(s), WorkList(s)
  PROVE  /\ HeldBy(s, "ui", ExitSaveAll(s), "swap") /\ HeldBy(s, "ui", ExitCancel(s), "swap")
         /\ HeldBy(s, "ui", ExitDiscardAll(s), "swap")
<1>0. IsApp(s) /\ s.showExitDirtyModal /\ ~s.exitSaveAllRunning
  BY DEF ListsTyped, ExitUp, WorkList
<1>1. NoClicks => /\ DirtyExperimentIndices(s) \subseteq s.exitDirtyExperiments
                  /\ s.pendingGoHome => s.expDirty = {}
  BY <1>0 DEF Held, DirtyListed
<1>2. HeldBy(s, "ui", ExitSaveAll(s), "swap")
  <2> DEFINE t == ExitSaveAll(s)
  <2>1. SameLosses(s, t) /\ SameExps(s, t) /\ t.pendingGoHome = s.pendingGoHome
    BY <1>0, ExitAnswersDo
  <2> SUFFICES HeldBy(s, "ui", t, "swap")
    OBVIOUS
  <2> HIDE DEF t
  <2>2. /\ Recorded(s, t) /\ NoneLost(s, t) /\ t.experiments = s.experiments
        /\ t.expDirty = s.expDirty /\ t.exitDirtyExperiments = s.exitDirtyExperiments
    BY <2>1 DEF SameLosses, SameExps, Recorded, NoneLost
  <2> QED
    BY <1>1, <2>1, <2>2, RelistedHeld
<1>3. HeldBy(s, "ui", ExitCancel(s), "swap")
  <2> DEFINE t == ExitCancel(s)
  <2>1. /\ SameLosses(s, t) /\ t.experiments = s.experiments /\ t.expDirty = s.expDirty
        /\ t.expSaved = s.expSaved
        /\ t.multiWorkspaceOpen = s.multiWorkspaceOpen /\ t.welcome = s.welcome
        /\ ~t.showExitDirtyModal /\ ~t.exitSaveAllRunning
        /\ t.pendingGoHome = s.pendingGoHome
    BY <1>0, ExitAnswersDo
  <2> SUFFICES HeldBy(s, "ui", t, "swap")
    OBVIOUS
  <2> HIDE DEF t
  <2>2. Recorded(s, t) /\ NoneLost(s, t)
    BY <2>1 DEF SameLosses, Recorded, NoneLost
  <2> QED
    BY <1>1, <2>1, <2>2, RelistedHeld
<1>4. HeldBy(s, "ui", ExitDiscardAll(s), "swap")
  <2> DEFINE t == ExitDiscardAll(s)
             keys == {s.sessions[i] : i \in Range(s.exitDirtyTabs) \cap TabIndices(s)}
             exps == {s.experiments[i] : i \in s.exitDirtyExperiments \cap ExpIndices(s)}
  <2>1. /\ t.expDirty = s.expDirty \ exps /\ t.consent = s.consent \cup keys \cup exps
        /\ t.experiments = s.experiments /\ t.expSaved = s.expSaved /\ t.lost = s.lost
        /\ t.multiWorkspaceOpen = s.multiWorkspaceOpen /\ t.welcome = s.welcome
        /\ ~t.showExitDirtyModal /\ ~t.exitSaveAllRunning
    BY <1>0, ExitAnswersDo DEF SameButFlow
  <2> SUFFICES HeldBy(s, "ui", t, "swap")
    OBVIOUS
  <2> HIDE DEF t
  <2>2. \A i \in s.exitDirtyExperiments \cap ExpIndices(s) : s.experiments[i] \notin t.expDirty
    BY <2>1
  <2> HIDE DEF keys, exps
  <2>3. Recorded(s, t) /\ NoneLost(s, t) /\ t.expDirty \subseteq s.expDirty
    BY <2>1 DEF Recorded, NoneLost
  <2>4. NoClicks => t.expDirty = {}
    BY <1>1, <2>2, <2>3, ListedAreAll DEF Held
  <2> QED
    BY <2>1, <2>3, <2>4, RelistedHeld
<1> QED
  BY <1>2, <1>3, <1>4

-----------------------------------------------------------------------------
(* An experiment is deleted                                                  *)

(* One that was not dirty, or was let go of, goes: nothing is lost, and the  *)
(* list of the exit modal names the others as before.                        *)
LEMMA RemoveExperimentHeld ==
  ASSUME NEW s, NEW p, NEW q, q # "closeAll", ListsTyped(s), Held(s, p),
         NEW idx \in ExpIndices(s),
         s.experiments[idx] \in s.consent \/ s.experiments[idx] \notin s.expDirty
  PROVE  LET t == RemoveExperiment(s, idx) IN
         /\ Held(t, q) /\ t.lost = s.lost /\ ListsTyped(t)
<1> DEFINE t == RemoveExperiment(s, idx)
           e == s.experiments[idx]
           erased == [s EXCEPT !.experiments = RemoveAt(@, idx),
                           !.expDirty = @ \ {e}, !.expHidden = @ \ {e},
                           !.expSaved = @ \ {e},
                           !.lost = @ \cup (({e} \cap s.expDirty) \ s.consent),
                           !.consent = @ \ {e}]
           r == [erased EXCEPT !.activeExperimentIdx = Reindex(@, idx)]
           f == FocusSessionTab(r)
           refocus == IF s.activeTabKind # "Experiment" THEN erased
                      ELSE IF r.activeExperimentIdx = 0 THEN f ELSE r
<1>0. IsApp(s) /\ s.experiments \in Seq(ExpIds) /\ Len(s.experiments) \in Nat
  BY ExpKeysTyped DEF ListsTyped
<1>1. t = [refocus EXCEPT !.pendingExperimentIdx = Reindex(@, idx),
             !.exitDirtyExperiments = {Reindex(x, idx) : x \in @ \ {idx}}]
  BY DEF RemoveExperiment
<1> DEFINE Erased(u) ==
             /\ IsApp(u) /\ u.experiments = RemoveAt(s.experiments, idx)
             /\ u.expDirty = s.expDirty \ {e} /\ u.expSaved = s.expSaved \ {e}
             /\ u.lost = s.lost \cup (({e} \cap s.expDirty) \ s.consent)
             /\ u.consent = s.consent \ {e}
             /\ u.multiWorkspaceOpen = s.multiWorkspaceOpen /\ u.welcome = s.welcome
             /\ u.showExitDirtyModal = s.showExitDirtyModal
             /\ u.exitSaveAllRunning = s.exitSaveAllRunning
             /\ u.pendingGoHome = s.pendingGoHome /\ u.sessions = s.sessions
<1>2. Erased(erased) /\ erased.exitDirtyExperiments = s.exitDirtyExperiments
  BY <1>0 DEF IsApp, AppFields
<1> HIDE DEF erased, e
<1>3. Erased(r) /\ r.exitDirtyExperiments = s.exitDirtyExperiments
  BY <1>2 DEF IsApp, AppFields
<1> HIDE DEF r
<1>4. Erased(f) /\ f.exitDirtyExperiments = s.exitDirtyExperiments
  <2>1. /\ IsApp(f) /\ f.experiments = r.experiments /\ f.expDirty = r.expDirty
        /\ f.expSaved = r.expSaved /\ f.lost = r.lost /\ f.consent = r.consent
        /\ f.multiWorkspaceOpen = r.multiWorkspaceOpen /\ f.welcome = r.welcome
        /\ f.showExitDirtyModal = r.showExitDirtyModal
        /\ f.exitSaveAllRunning = r.exitSaveAllRunning
        /\ f.pendingGoHome = r.pendingGoHome /\ f.sessions = r.sessions
        /\ f.exitDirtyExperiments = r.exitDirtyExperiments
    BY <1>3 DEF IsApp, AppFields, FocusSessionTab
  <2> HIDE DEF f
  <2> QED
    BY <1>3, <2>1
<1> HIDE DEF f
<1>5. Erased(refocus) /\ refocus.exitDirtyExperiments = s.exitDirtyExperiments
  BY <1>2, <1>3, <1>4
<1> HIDE DEF refocus, t
<1>6. /\ Erased(t)
      /\ t.exitDirtyExperiments = {Reindex(x, idx) : x \in s.exitDirtyExperiments \ {idx}}
  BY <1>1, <1>5 DEF IsApp, AppFields
<1> HIDE DEF Erased
<1> DEFINE v == s.experiments
           w == RemoveAt(v, idx)
<1>7. \A m, n \in 1 .. Len(v) : v[m] = v[n] => m = n
  BY DEF Held, ExpsOK
<1>8. /\ \A m, n \in 1 .. Len(w) : w[m] = w[n] => m = n
      /\ {w[m] : m \in 1 .. Len(w)} = {v[m] : m \in 1 .. Len(v)} \ {v[idx]}
      /\ w \in Seq(ExpIds) /\ Len(w) = Len(v) - 1
      /\ \A j \in 1 .. Len(v) - 1 : w[j] = IF j < idx THEN v[j] ELSE v[j + 1]
  <2>1. \A m, n \in 1 .. Len(w) : w[m] = w[n] => m = n
    BY <1>0, <1>7, RemoveAtDistinct
  <2>2. {w[m] : m \in 1 .. Len(w)} = {v[m] : m \in 1 .. Len(v)} \ {v[idx]}
    BY <1>0, <1>7, RemoveAtRange
  <2>3. /\ w \in Seq(ExpIds) /\ Len(w) = Len(v) - 1
        /\ \A j \in 1 .. Len(v) - 1 : w[j] = IF j < idx THEN v[j] ELSE v[j + 1]
    BY <1>0, RemoveAtElements
  <2> QED
    BY <2>1, <2>2, <2>3
<1>9. t.experiments = w /\ e = v[idx] /\ ExpKeys(t) = ExpKeys(s) \ {e}
  <2>1. t.experiments = w /\ e = v[idx]
    BY <1>6 DEF Erased, e
  <2> HIDE DEF w
  <2>2. ExpKeys(t) = {w[m] : m \in 1 .. Len(w)} /\ ExpKeys(s) = {v[m] : m \in 1 .. Len(v)}
    BY <2>1 DEF ExpKeys
  <2> QED
    BY <1>8, <2>1, <2>2
<1> HIDE DEF w
<1>10. ExpsOK(t)
  BY <1>6, <1>8, <1>9 DEF Held, ExpsOK, Erased
<1>11. NoLoose => Housed(t)
  <2> SUFFICES ASSUME NoLoose PROVE Housed(t)
    OBVIOUS
  <2>1. Housed(s) /\ v # << >>
    BY <1>0 DEF Held
  <2> QED
    BY <1>6, <1>9, <2>1 DEF Housed, Erased
<1>12. NoClicks => DirtyListed(t, q)
  <2> SUFFICES ASSUME NoClicks PROVE DirtyListed(t, q)
    OBVIOUS
  <2>1. DirtyListed(s, p)
    BY DEF Held
  <2>2. ASSUME DirtyExperimentIndices(s) \subseteq s.exitDirtyExperiments,
               NEW j \in DirtyExperimentIndices(t)
        PROVE  j \in t.exitDirtyExperiments
    <3>1. j \in 1 .. Len(v) - 1 /\ w[j] \in s.expDirty
      BY <1>6, <1>8, <1>9, <2>2 DEF DirtyExperimentIndices, Erased
    <3> DEFINE i == IF j < idx THEN j ELSE j + 1
    <3>2. /\ i \in 1 .. Len(v) /\ i # idx /\ v[i] = w[j]
          /\ Reindex(i, idx) = j
      BY <1>0, <1>8, <3>1 DEF Reindex
    <3> HIDE DEF i
    <3>3. i \in s.exitDirtyExperiments \ {idx}
      BY <2>2, <3>1, <3>2 DEF DirtyExperimentIndices
    <3> QED
      BY <1>6, <3>2, <3>3
  <2>3. t.showExitDirtyModal \/ t.exitSaveAllRunning =>
          DirtyExperimentIndices(t) \subseteq t.exitDirtyExperiments
    BY <1>6, <2>1, <2>2 DEF DirtyListed, Erased
  <2>4. t.pendingGoHome => t.expDirty = {}
    BY <1>6, <2>1 DEF DirtyListed, Erased
  <2> QED
    BY <2>3, <2>4 DEF DirtyListed
<1>13. t.lost = s.lost
  BY <1>6 DEF Erased, e
<1>14. ListsTyped(t)
  BY <1>6, <1>8, <1>9 DEF ListsTyped, Erased
<1> QED
  BY <1>10, <1>11, <1>12, <1>13, <1>14 DEF Held, t

(* Nothing of the experiments changed: what is held still is.                *)
LEMMA AloneStillHeld ==
  ASSUME NEW s, NEW t, NEW q, q # "closeAll", ListsTyped(s), Held(s, q), Alone(s, t)
  PROVE  Held(t, q) /\ t.lost \cap ExpIds = s.lost \cap ExpIds
<1>1. HeldBy(s, q, t, q)
  BY AloneHeld
<1> QED
  BY <1>1 DEF HeldBy, Alone

(* Delete, in the question about it, agrees to lose what it deletes.         *)
LEMMA DeleteAnswersHeld ==
  ASSUME NEW s, ListsTyped(s), Held(s, "ui")
  PROVE  /\ HeldBy(s, "ui", ConfirmExperimentDelete(s), "swap")
         /\ HeldBy(s, "ui", CancelExperimentDelete(s), "swap")
<1>0. IsApp(s) /\ s.sessions \in Seq(Keys) /\ s.experiments \in Seq(ExpIds)
  BY DEF ListsTyped
<1>1. HeldBy(s, "ui", CancelExperimentDelete(s), "swap")
  <2> DEFINE t == CancelExperimentDelete(s)
  <2>1. Alone(s, t)
    BY <1>0 DEF IsApp, AppFields, CancelExperimentDelete, Alone, SameListing
  <2> HIDE DEF t
  <2>2. HeldBy(s, "ui", t, "swap")
    BY <2>1, AloneHeld
  <2> QED
    BY <2>2 DEF t
<1>2. HeldBy(s, "ui", ConfirmExperimentDelete(s), "swap")
  <2> DEFINE idx    == s.pendingExperimentDeleteIdx
             agreed == {s.experiments[i] : i \in {idx} \cap ExpIndices(s)}
             c == [s EXCEPT !.consent = @ \cup agreed]
             u == RemoveExperiment(c, idx)
             t == ConfirmExperimentDelete(s)
  <2>1. t = [u EXCEPT !.pendingExperimentDeleteIdx = 0]
    BY DEF ConfirmExperimentDelete
  <2>2. /\ IsApp(c) /\ SameExit(s, c) /\ SameExps(s, c) /\ c.sessions = s.sessions
        /\ c.lost = s.lost /\ c.consent = s.consent \cup agreed
    BY <1>0 DEF IsApp, AppFields, SameExit, SameExps
  <2> HIDE DEF c
  <2>3. Recorded(s, c) /\ SameListing(s, c) /\ ListsTyped(c)
    BY <1>0, <2>2 DEF SameExit, SameExps, Recorded, SameListing, ListsTyped
  <2>4. Held(c, "ui") /\ Held(c, "swap")
    BY <2>3, RecordedHeld
  <2>5. u = c \/ idx \in ExpIndices(c)
    BY DEF RemoveExperiment
  <2>6. idx \in ExpIndices(c) => c.experiments[idx] \in c.consent
    BY <2>2 DEF SameExps
  <2>7. idx \in ExpIndices(c) => Held(u, "swap") /\ u.lost = c.lost /\ ListsTyped(u)
    BY <2>3, <2>4, <2>6, RemoveExperimentHeld
  <2> HIDE DEF u, t
  <2>8. Held(u, "swap") /\ u.lost = s.lost /\ ListsTyped(u)
    BY <2>2, <2>3, <2>4, <2>5, <2>7
  <2>9. Alone(u, t)
    BY <2>1, <2>8 DEF ListsTyped, IsApp, AppFields, Alone, SameListing
  <2>10. Held(t, "swap") /\ t.lost \cap ExpIds = s.lost \cap ExpIds
    BY <2>8, <2>9, AloneStillHeld
  <2>11. (t.lost \ s.lost) \cap ExpIds = {}
    BY <2>10
  <2>12. HeldBy(s, "ui", t, "swap")
    BY <2>10, <2>11 DEF HeldBy, SparesExps
  <2> QED
    BY <2>12 DEF t
<1> QED
  BY <1>1, <1>2

-----------------------------------------------------------------------------
(* What the clicks do to experiments                                         *)

(* Where the program is not being left there is nothing to list.             *)
LEMMA StayingListed ==
  ASSUME NEW s, NEW t, Staying(s), SameExit(s, t)
  PROVE  NoClicks => DirtyListed(t, "swap")
  BY DEF Staying, Leaving, SameExit, DirtyListed

(* Experiments get dirty.                                                    *)
Dirtied(s, t) ==
  /\ SameExit(s, t) /\ t.experiments = s.experiments
  /\ s.expDirty \subseteq t.expDirty /\ t.expDirty \subseteq s.expDirty \cup ExpKeys(s)
  /\ t.expSaved = s.expSaved /\ s.consent \subseteq t.consent \cup t.expDirty
  /\ t.multiWorkspaceOpen = s.multiWorkspaceOpen /\ t.welcome = s.welcome
  /\ t.lost = s.lost

(* That does no harm where the program is not being left. *)
LEMMA DirtiedHeld ==
  ASSUME NEW s, Held(s, "ui"), Staying(s), NEW t, Dirtied(s, t)
  PROVE  HeldBy(s, "ui", t, "swap")
<1>1. ExpsOK(t)
  BY DEF Held, ExpsOK, ExpKeys, Dirtied
<1>2. ExpKeys(t) = ExpKeys(s)
  BY DEF ExpKeys, Dirtied
<1>3. NoLoose => Housed(t)
  BY <1>2 DEF Held, Housed, Dirtied
<1>4. NoClicks => DirtyListed(t, "swap")
  BY StayingListed DEF Dirtied
<1>5. t.lost \ s.lost = {}
  BY DEF Dirtied
<1> QED
  BY <1>1, <1>3, <1>4, <1>5 DEF Held, HeldBy, SparesExps

(* The widgets of an experiment: showing one that was hidden, hiding one and *)
(* changing one make it dirty.                                               *)
LEMMA ExperimentWidgetsHeld ==
  ASSUME NEW s, ListsTyped(s), Held(s, "ui"), Staying(s)
  PROVE  /\ \A idx : HeldBy(s, "ui", ActivateExperiment(s, idx), "swap")
         /\ \A idx \in ExpIndices(s) : HeldBy(s, "ui", CloseRequest(s, idx), "swap")
         /\ s.activeExperimentIdx \in ExpIndices(s) =>
              HeldBy(s, "ui", EditActiveExperiment(s), "swap")
<1>0. IsApp(s) /\ \A i \in ExpIndices(s) : s.experiments[i] \in ExpKeys(s)
  BY DEF ListsTyped, ExpKeys
<1>1. ASSUME NEW idx PROVE HeldBy(s, "ui", ActivateExperiment(s, idx), "swap")
  <2> DEFINE t == ActivateExperiment(s, idx)
  <2>1. SameExit(s, t) /\ SameLosses(s, t)
    BY <1>0, ActivateExperimentDoes DEF OnlyExps
  <2>2. Dirtied(s, t)
    <3>1. CASE idx \notin ExpIndices(s)
      <4>1. t = s
        BY <3>1 DEF ActivateExperiment
      <4> QED
        BY <4>1 DEF Dirtied, SameExit
    <3>2. CASE idx \in ExpIndices(s)
      <4> DEFINE e == s.experiments[idx]
                 h == [s EXCEPT !.expHidden = @ \ {e}, !.expDirty = @ \cup {e}]
                 shown == IF e \in s.expHidden THEN h ELSE s
      <4>1. t = [shown EXCEPT !.pendingExperimentIdx = idx, !.pendingSwapIdx = 0,
                              !.pendingSwapToSession = FALSE]
        BY <3>2 DEF ActivateExperiment
      <4>2. e \in ExpKeys(s)
        BY <1>0, <3>2
      <4> HIDE DEF e
      <4>3. /\ IsApp(shown) /\ shown.experiments = s.experiments
            /\ s.expDirty \subseteq shown.expDirty
            /\ shown.expDirty \subseteq s.expDirty \cup {e} /\ shown.expSaved = s.expSaved
            /\ shown.multiWorkspaceOpen = s.multiWorkspaceOpen /\ shown.welcome = s.welcome
        BY <1>0 DEF IsApp, AppFields
      <4> HIDE DEF shown, t
      <4>4. /\ t.experiments = s.experiments /\ t.expDirty = shown.expDirty
            /\ t.expSaved = s.expSaved
            /\ t.multiWorkspaceOpen = s.multiWorkspaceOpen /\ t.welcome = s.welcome
        BY <4>1, <4>3 DEF IsApp, AppFields
      <4> QED
        BY <2>1, <4>2, <4>3, <4>4 DEF Dirtied, SameLosses
    <3> QED
      BY <3>1, <3>2
  <2> HIDE DEF t
  <2>3. HeldBy(s, "ui", t, "swap")
    BY <2>2, DirtiedHeld
  <2> QED
    BY <2>3 DEF t
<1>2. ASSUME NEW idx \in ExpIndices(s)
      PROVE  HeldBy(s, "ui", CloseRequest(s, idx), "swap")
  <2> DEFINE e == s.experiments[idx]
             h == [s EXCEPT !.expHidden = @ \cup {e}, !.expDirty = @ \cup {e}]
             shown == IF e \in s.expHidden THEN s ELSE h
             t == CloseRequest(s, idx)
  <2>1. SameExit(s, t) /\ SameLosses(s, t)
    BY <1>0, CloseRequestDoes DEF OnlyExps
  <2>2. t = FocusSessionTab(shown)
    BY DEF CloseRequest
  <2>3. e \in ExpKeys(s)
    BY <1>0
  <2> HIDE DEF e
  <2>4. /\ IsApp(shown) /\ shown.experiments = s.experiments
        /\ s.expDirty \subseteq shown.expDirty
        /\ shown.expDirty \subseteq s.expDirty \cup {e} /\ shown.expSaved = s.expSaved
        /\ shown.multiWorkspaceOpen = s.multiWorkspaceOpen /\ shown.welcome = s.welcome
    BY <1>0 DEF IsApp, AppFields
  <2> HIDE DEF shown, t
  <2>5. SameExps(shown, t)
    BY <2>2, <2>4, FocusSessionTabDoes DEF SameButSwitch
  <2>6. Dirtied(s, t)
    BY <2>1, <2>3, <2>4, <2>5 DEF Dirtied, SameLosses, SameExps
  <2>7. HeldBy(s, "ui", t, "swap")
    BY <2>6, DirtiedHeld
  <2> QED
    BY <2>7 DEF t
<1>3. ASSUME s.activeExperimentIdx \in ExpIndices(s)
      PROVE  HeldBy(s, "ui", EditActiveExperiment(s), "swap")
  <2> DEFINE e == s.experiments[s.activeExperimentIdx]
             t == EditActiveExperiment(s)
  <2>1. SameExit(s, t)
    BY <1>0, EditActiveExperimentDoes DEF OnlyExps
  <2>2. e \in ExpKeys(s)
    BY <1>0, <1>3
  <2>3. /\ t.experiments = s.experiments /\ t.expDirty = s.expDirty \cup {e}
        /\ t.expSaved = s.expSaved /\ t.consent = s.consent \ {e} /\ t.lost = s.lost
        /\ t.multiWorkspaceOpen = s.multiWorkspaceOpen /\ t.welcome = s.welcome
    BY <1>0 DEF IsApp, AppFields, EditActiveExperiment
  <2> HIDE DEF t, e
  <2>4. Dirtied(s, t)
    BY <2>1, <2>2, <2>3 DEF Dirtied
  <2>5. HeldBy(s, "ui", t, "swap")
    BY <2>4, DirtiedHeld
  <2> QED
    BY <2>5 DEF t
<1> QED
  BY <1>1, <1>2, <1>3

(* A new one is dirty from the start, and in a project.                      *)
LEMMA CreateExperimentHeld ==
  ASSUME NEW s, ListsTyped(s), Held(s, "ui"), Staying(s),
         NEW e \in ExpIds, e \notin Range(s.experiments),
         NoLoose => s.multiWorkspaceOpen /\ ~s.welcome
  PROVE  HeldBy(s, "ui", CreateExperiment(s, e), "swap")
<1> DEFINE t == CreateExperiment(s, e)
           more == [s EXCEPT !.experiments = Append(@, e), !.expDirty = @ \cup {e}]
           shown == ActivateExperiment(more, Len(s.experiments) + 1)
           v == s.experiments
<1>0. IsApp(s) /\ v \in Seq(ExpIds) /\ Len(v) \in Nat /\ Range(v) = ExpKeys(s)
  BY ExpKeysTyped DEF ListsTyped
<1>1. SameExit(s, t) /\ SameLosses(s, t)
  BY <1>0, CreateExperimentDoes DEF OnlyExps
<1>2. /\ IsApp(more) /\ more.experiments = Append(v, e)
      /\ more.expDirty = s.expDirty \cup {e}
      /\ more.expSaved = s.expSaved
      /\ more.multiWorkspaceOpen = s.multiWorkspaceOpen /\ more.welcome = s.welcome
  BY <1>0 DEF IsApp, AppFields
<1>3. /\ Len(Append(v, e)) = Len(v) + 1
      /\ \A i \in 1 .. Len(v) + 1 : Append(v, e)[i] = IF i \in 1 .. Len(v) THEN v[i] ELSE e
  BY <1>0, AppendProperties
<1>4. t = shown
  BY DEF CreateExperiment
<1> HIDE DEF more
<1> DEFINE k == Len(v) + 1
           h == [more EXCEPT !.expHidden = @ \ {e}, !.expDirty = @ \cup {e}]
           w == IF e \in more.expHidden THEN h ELSE more
<1>5. k \in ExpIndices(more) /\ more.experiments[k] = e
  BY <1>0, <1>2, <1>3
<1>6. shown = [w EXCEPT !.pendingExperimentIdx = k, !.pendingSwapIdx = 0,
                        !.pendingSwapToSession = FALSE]
  BY <1>5 DEF ActivateExperiment
<1>7. /\ IsApp(w) /\ w.experiments = Append(v, e) /\ w.expDirty = s.expDirty \cup {e}
      /\ w.expSaved = s.expSaved
      /\ w.multiWorkspaceOpen = s.multiWorkspaceOpen /\ w.welcome = s.welcome
  BY <1>2 DEF IsApp, AppFields
<1> HIDE DEF w, t, shown, k
<1>8. /\ t.experiments = Append(v, e) /\ t.expDirty = s.expDirty \cup {e}
      /\ t.expSaved = s.expSaved
      /\ t.multiWorkspaceOpen = s.multiWorkspaceOpen /\ t.welcome = s.welcome
  BY <1>4, <1>6, <1>7 DEF IsApp, AppFields
<1>9. ExpKeys(t) = ExpKeys(s) \cup {e} /\ ExpIndices(t) = 1 .. Len(v) + 1
  BY <1>0, <1>3, <1>8 DEF ExpKeys
<1>10. ExpsOK(t)
  <2>1. \A i \in 1 .. Len(v) : v[i] # e
    BY <1>0 DEF ExpKeys
  <2>2. \A i, j \in 1 .. Len(v) : v[i] = v[j] => i = j
    BY DEF Held, ExpsOK
  <2>3. \A i, j \in ExpIndices(t) : t.experiments[i] = t.experiments[j] => i = j
    BY <1>0, <1>3, <1>8, <1>9, <2>1, <2>2
  <2>4. s.expDirty \subseteq ExpKeys(s)
    BY DEF Held, ExpsOK
  <2> QED
    BY <1>8, <1>9, <2>3, <2>4 DEF ExpsOK
<1>11. NoLoose => Housed(t)
  BY <1>1, <1>8, <1>9 DEF Held, Housed, SameLosses
<1>12. NoClicks => DirtyListed(t, "swap")
  BY <1>1, StayingListed
<1>13. t.lost \ s.lost = {}
  BY <1>1 DEF SameLosses
<1> QED
  BY <1>10, <1>11, <1>12, <1>13 DEF Held, HeldBy, SparesExps, t

(* Deleting one asks unless it is neither changed nor saved.                 *)
LEMMA RequestDeleteHeld ==
  ASSUME NEW s, ListsTyped(s), Held(s, "ui"), NEW idx \in ExpIndices(s)
  PROVE  HeldBy(s, "ui", RequestDelete(s, idx), "swap")
<1> DEFINE t == RequestDelete(s, idx)
           a == [s EXCEPT !.pendingExperimentDeleteIdx = idx]
           r == RemoveExperiment(s, idx)
<1>1. CASE s.experiments[idx] \in s.expDirty \cup s.expSaved
  <2>1. t = a
    BY <1>1 DEF RequestDelete
  <2>2. Alone(s, a)
    BY DEF ListsTyped, IsApp, AppFields, Alone, SameListing
  <2> HIDE DEF a, t
  <2>3. HeldBy(s, "ui", t, "swap")
    BY <2>1, <2>2, AloneHeld
  <2> QED
    BY <2>3 DEF t
<1>2. CASE s.experiments[idx] \notin s.expDirty \cup s.expSaved
  <2>1. t = r
    BY <1>2 DEF RequestDelete
  <2>2. Held(r, "swap") /\ r.lost = s.lost
    BY <1>2, RemoveExperimentHeld
  <2> HIDE DEF r, t
  <2>3. HeldBy(s, "ui", t, "swap")
    BY <2>1, <2>2 DEF HeldBy, SparesExps
  <2> QED
    BY <2>3 DEF t
<1> QED
  BY <1>1, <1>2

(* A switch to another tab is no matter of experiments, nor is a tab that is *)
(* opened or closed.                                                         *)
LEMMA TabClicksHeld ==
  ASSUME NEW s, ListsTyped(s), Held(s, "ui")
  PROVE  /\ HeldBy(s, "ui", FocusSessionTab(s), "swap")
         /\ \A idx : /\ HeldBy(s, "ui", SwapInSession(s, idx), "swap")
                     /\ HeldBy(s, "ui", CloseTab(s, idx), "swap")
         /\ \A key : HeldBy(s, "ui", OpenInNewTab(s, key), "swap")
<1>0. IsApp(s) /\ s.sessions \in Seq(Keys)
  BY DEF ListsTyped
<1>1. Alone(s, FocusSessionTab(s))
  BY <1>0, FocusSessionTabDoes, PromptsAlone
<1>2. \A idx : Alone(s, SwapInSession(s, idx)) /\ Alone(s, CloseTab(s, idx))
  <2> TAKE idx
  <2>1. Alone(s, SwapInSession(s, idx))
    BY <1>0, SwapInSessionDoes, PromptsAlone
  <2> QED
    BY <1>0, <2>1, CloseTabAlone
<1>3. \A key : Alone(s, OpenInNewTab(s, key))
  BY <1>0, OpenInNewTabAlone
<1> QED
  BY <1>1, <1>2, <1>3, AloneHeld

(* A dataset is no experiment. *)
LEMMA RemoveDatasetHeld ==
  ASSUME NEW s, ListsTyped(s), Held(s, "ui"), NEW key \in Keys
  PROVE  HeldBy(s, "ui", RemoveDataset(s, key), "swap")
<1> DEFINE c == [s EXCEPT !.consent = @ \cup {key}]
           u == RemoveTab(c, IndexOf(s.sessions, key))
           t == RemoveDataset(s, key)
<1>0. IsApp(s) /\ s.sessions \in Seq(Keys) /\ key \notin ExpIds
  BY IdentitiesAssumption DEF ListsTyped
<1>1. t = s \/ t = u
  BY DEF RemoveDataset
<1>2. /\ IsApp(c) /\ c.sessions = s.sessions /\ SameExps(s, c) /\ SameExit(s, c)
      /\ c.lost = s.lost /\ c.consent = s.consent \cup {key}
  BY <1>0 DEF IsApp, AppFields, SameExps, SameExit
<1> SUFFICES HeldBy(s, "ui", t, "swap")
  OBVIOUS
<1> HIDE DEF c, t
<1>3. c.consent \cap ExpIds = s.consent \cap ExpIds
  BY <1>0, <1>2
<1>4. Alone(s, c)
  BY <1>2, <1>3 DEF SameExps, SameExit, Alone, SameListing
<1>5. Alone(c, u)
  BY <1>0, <1>2, RemoveTabAlone
<1> HIDE DEF u
<1>6. HeldBy(s, "ui", u, "swap")
  BY <1>4, <1>5, AloneTransitive, AloneHeld
<1>7. HeldBy(s, "ui", s, "swap")
  BY UnchangedHeld
<1> QED
  BY <1>1, <1>6, <1>7

(* Where no project is on screen there is no experiment to lose.             *)
LEMMA NothingAtHome ==
  ASSUME NEW s, Held(s, "ui"), ~s.multiWorkspaceOpen \/ s.welcome
  PROVE  NoLoose => s.expDirty = {}
  BY NoProjectNothing DEF Held, Housed

(* The first project, or a new one.                                          *)
LEMMA OpenProjectHeld ==
  ASSUME NEW s, ListsTyped(s), Held(s, "ui"), ~s.multiWorkspaceOpen \/ s.welcome,
         NEW outcome \in ProjectOutcomes, NEW saved \in Seq(ExpIds), Distinct(saved),
         NEW tabs \in Seq(Keys)
  PROVE  HeldBy(s, "ui", ProjectShown(s, outcome, saved, tabs), "swap")
<1> DEFINE t == ProjectShown(s, outcome, saved, tabs)
<1>1. Replaced(s, t, saved)
  BY ProjectShownExps DEF ListsTyped
<1>2. Recorded(s, s) /\ SameListing(s, s) /\ NoneLost(s, s)
  BY DEF Recorded, SameListing, NoneLost
<1>3. NoLoose => s.expDirty = {}
  BY NothingAtHome
<1> SUFFICES HeldBy(s, "ui", t, "swap")
  OBVIOUS
<1> HIDE DEF t
<1> QED
  BY <1>1, <1>2, <1>3, ReplacedHeld

(* Another project takes the place of one without unsaved experiments, or    *)
(* waits for the answer of a prompt.                                         *)
LEMMA ReplaceProjectHeld ==
  ASSUME NEW s, ListsTyped(s), Held(s, "ui"), NEW outcome \in ProjectOutcomes,
         NEW saved \in Seq(ExpIds), Distinct(saved), NEW tabs \in Seq(Keys)
  PROVE  HeldBy(s, "ui", RequestReplaceProject(s, outcome, saved, tabs), "swap")
<1> DEFINE t == RequestReplaceProject(s, outcome, saved, tabs)
<1>1. \/ SameButPrompts(s, t)
      \/ /\ s.expDirty = {}
         /\ \E r : QuestionsAnswered(s, r) /\ t = ProjectShown(r, outcome, saved, tabs)
  BY RequestReplaceProjectDoes DEF ListsTyped
<1> SUFFICES HeldBy(s, "ui", t, "swap")
  OBVIOUS
<1> HIDE DEF t
<1>2. CASE SameButPrompts(s, t)
  BY <1>2, PromptsAlone, AloneHeld
<1>3. ASSUME s.expDirty = {}, NEW r, QuestionsAnswered(s, r),
             t = ProjectShown(r, outcome, saved, tabs)
      PROVE  HeldBy(s, "ui", t, "swap")
  <2>1. /\ Alone(s, r) /\ IsApp(r) /\ r.sessions = s.sessions /\ r.expDirty = {}
    BY <1>3, PromptsAlone DEF QuestionsAnswered, SameButPrompts, SameTabs, SameExps
  <2>2. Replaced(r, t, saved)
    BY <1>3, <2>1, ProjectShownExps DEF ListsTyped
  <2> QED
    BY <2>1, <2>2, AloneIsRecorded, ReplacedHeld
<1> QED
  BY <1>1, <1>2, <1>3

(* The open project is opened again: the experiments on disk that were not   *)
(* in memory come in.                                                        *)
LEMMA OpenSameProjectHeld ==
  ASSUME NEW s, ListsTyped(s), Held(s, "ui"), Staying(s), s.multiWorkspaceOpen,
         NEW loaded \in UnloadedExperiments(s), NEW tabs \in Seq(Keys)
  PROVE  HeldBy(s, "ui",
                [RestoreOpenEmbeddedTabs(LoadExperiments(FocusSessionTab(s), loaded), tabs)
                   EXCEPT !.welcome = FALSE], "swap")
<1> DEFINE f == FocusSessionTab(s)
           l == LoadExperiments(f, loaded)
           r == RestoreOpenEmbeddedTabs(l, tabs)
           t == [r EXCEPT !.welcome = FALSE]
           v == s.experiments
<1>0. IsApp(s) /\ s.sessions \in Seq(Keys) /\ v \in Seq(ExpIds) /\ Len(v) \in Nat
  BY ExpKeysTyped DEF ListsTyped
<1>1. loaded \in Seq(ExpIds) /\ Distinct(loaded) /\ Range(loaded) \cap Range(v) = {}
  BY LoadedDistinct
<1>2. /\ IsApp(f) /\ SameExps(s, f) /\ SameLosses(s, f) /\ SameExit(s, f)
      /\ f.sessions = s.sessions
  BY <1>0, FocusSessionTabDoes DEF SameButSwitch, SameTabs
<1> SUFFICES HeldBy(s, "ui", t, "swap")
  OBVIOUS
<1> HIDE DEF f
<1>3. /\ IsApp(l) /\ SameExit(f, l) /\ SameLosses(f, l) /\ l.sessions = f.sessions
      /\ l.experiments = f.experiments \o loaded /\ l.expDirty = f.expDirty
      /\ l.expSaved = f.expSaved \cup Range(loaded)
      /\ l.multiWorkspaceOpen = f.multiWorkspaceOpen
  BY <1>2, LoadExperimentsDoes DEF OnlyExps
<1> HIDE DEF l
<1>4. IsApp(r) /\ SameExit(l, r) /\ SameLosses(l, r) /\ SameExps(l, r)
  <2>1. IsApp(l) /\ l.sessions \in Seq(Keys)
    BY <1>0, <1>2, <1>3
  <2> QED
    BY <2>1, RestoreTabsDoes DEF MoreTabs
<1> HIDE DEF r
<1>5. /\ SameExit(r, t) /\ SameLosses(r, t) /\ t.experiments = r.experiments
      /\ t.expDirty = r.expDirty /\ t.expSaved = r.expSaved
      /\ t.multiWorkspaceOpen = r.multiWorkspaceOpen /\ ~t.welcome
  BY <1>4 DEF IsApp, AppFields, SameExit, SameLosses
<1> HIDE DEF t
<1>6. /\ t.experiments = v \o loaded /\ t.expDirty = s.expDirty
      /\ t.expSaved = s.expSaved \cup Range(loaded) /\ t.multiWorkspaceOpen
      /\ SameExit(s, t) /\ SameLosses(s, t)
  BY <1>2, <1>3, <1>4, <1>5 DEF SameExit, SameLosses, SameExps
<1>7. /\ Len(loaded) \in Nat /\ Len(v \o loaded) = Len(v) + Len(loaded)
      /\ v \o loaded \in Seq(ExpIds)
      /\ \A i \in 1 .. Len(v) + Len(loaded) :
           (v \o loaded)[i] = IF i <= Len(v) THEN v[i] ELSE loaded[i - Len(v)]
  BY <1>0, <1>1, LenProperties, ConcatProperties
<1>8. /\ \A i \in 1 .. Len(v) : v[i] \in Range(v)
      /\ \A i \in 1 .. Len(loaded) : loaded[i] \in Range(loaded)
      /\ Range(v) = ExpKeys(s)
  <2>1. DOMAIN v = 1 .. Len(v) /\ DOMAIN loaded = 1 .. Len(loaded)
    BY <1>0, <1>1, LenProperties
  <2> QED
    BY <1>0, <2>1, ExpKeysTyped DEF Range
<1>9. ExpKeys(t) = ExpKeys(s) \cup Range(loaded)
  <2>1. \A i \in 1 .. Len(v) : i \in 1 .. Len(v) + Len(loaded) /\ (v \o loaded)[i] = v[i]
    BY <1>0, <1>7
  <2>2. \A j \in 1 .. Len(loaded) : /\ Len(v) + j \in 1 .. Len(v) + Len(loaded)
                                    /\ (v \o loaded)[Len(v) + j] = loaded[j]
    BY <1>0, <1>7
  <2>3. \A i \in 1 .. Len(v) + Len(loaded) :
          (v \o loaded)[i] \in Range(v) \cup Range(loaded)
    <3> TAKE i \in 1 .. Len(v) + Len(loaded)
    <3>1. CASE i <= Len(v)
      BY <1>0, <1>7, <1>8, <3>1
    <3>2. CASE ~(i <= Len(v))
      <4>1. i - Len(v) \in 1 .. Len(loaded)
        BY <1>0, <1>7, <3>2
      <4> QED
        BY <1>7, <1>8, <3>2, <4>1
    <3> QED
      BY <3>1, <3>2
  <2>4. ExpKeys(t) = {(v \o loaded)[i] : i \in 1 .. Len(v) + Len(loaded)}
    BY <1>6, <1>7 DEF ExpKeys
  <2>5. Range(v) = {v[i] : i \in 1 .. Len(v)}
    BY <1>8 DEF ExpKeys
  <2>6. Range(loaded) = {loaded[i] : i \in 1 .. Len(loaded)}
    <3>1. DOMAIN loaded = 1 .. Len(loaded)
      BY <1>1, LenProperties
    <3> QED
      BY <3>1 DEF Range
  <2>7. ExpKeys(t) \subseteq ExpKeys(s) \cup Range(loaded)
    BY <1>8, <2>3, <2>4
  <2>8. ExpKeys(s) \subseteq ExpKeys(t)
    BY <1>8, <2>1, <2>4, <2>5
  <2>9. Range(loaded) \subseteq ExpKeys(t)
    <3> SUFFICES ASSUME NEW j \in 1 .. Len(loaded) PROVE loaded[j] \in ExpKeys(t)
      BY <2>6
    <3>1. /\ Len(v) + j \in 1 .. Len(v) + Len(loaded)
          /\ (v \o loaded)[Len(v) + j] = loaded[j]
      BY <2>2
    <3> QED
      BY <2>4, <3>1
  <2> QED
    BY <2>7, <2>8, <2>9
<1>10. ExpsOK(t)
  <2>1. \A i, j \in 1 .. Len(v) : v[i] = v[j] => i = j
    BY DEF Held, ExpsOK
  <2>2. \A i, j \in 1 .. Len(loaded) : loaded[i] = loaded[j] => i = j
    BY <1>1 DEF Distinct
  <2>3. ASSUME NEW i \in 1 .. Len(v) + Len(loaded), NEW j \in 1 .. Len(v) + Len(loaded),
               (v \o loaded)[i] = (v \o loaded)[j]
        PROVE  i = j
    <3>1. CASE i <= Len(v) /\ j <= Len(v)
      <4>1. i \in 1 .. Len(v) /\ j \in 1 .. Len(v)
        BY <1>0, <3>1
      <4> QED
        BY <1>7, <2>1, <2>3, <3>1, <4>1
    <3>2. CASE ~(i <= Len(v)) /\ ~(j <= Len(v))
      <4>1. i - Len(v) \in 1 .. Len(loaded) /\ j - Len(v) \in 1 .. Len(loaded)
        BY <1>0, <1>7, <3>2
      <4>2. i - Len(v) = j - Len(v)
        BY <1>7, <2>2, <2>3, <3>2, <4>1
      <4> QED
        BY <1>0, <1>7, <4>2
    <3>3. ASSUME NEW a \in 1 .. Len(v) + Len(loaded), NEW b \in 1 .. Len(v) + Len(loaded),
                 a <= Len(v), ~(b <= Len(v))
          PROVE  (v \o loaded)[a] # (v \o loaded)[b]
      <4>1. a \in 1 .. Len(v) /\ b - Len(v) \in 1 .. Len(loaded)
        BY <1>0, <1>7, <3>3
      <4>2. v[a] \in Range(v) /\ loaded[b - Len(v)] \in Range(loaded)
        BY <1>8, <4>1
      <4> QED
        BY <1>1, <1>7, <3>3, <4>2
    <3> QED
      BY <2>3, <3>1, <3>2, <3>3
  <2>4. ExpIndices(t) = 1 .. Len(v) + Len(loaded)
    BY <1>6, <1>7
  <2>5. \A i, j \in ExpIndices(t) : t.experiments[i] = t.experiments[j] => i = j
    BY <1>6, <2>3, <2>4
  <2>6. t.expDirty \subseteq ExpKeys(t)
    BY <1>6, <1>9 DEF Held, ExpsOK
  <2> QED
    BY <2>5, <2>6 DEF ExpsOK
<1>11. NoLoose => Housed(t)
  BY <1>5, <1>6, <1>9 DEF Held, Housed, SameLosses
<1>12. NoClicks => DirtyListed(t, "swap")
  BY <1>6, StayingListed
<1>13. t.lost \ s.lost = {}
  BY <1>6 DEF SameLosses
<1> QED
  BY <1>10, <1>11, <1>12, <1>13 DEF Held, HeldBy, SparesExps

(* A multi-workspace is made where no project is open.                       *)
LEMMA CreateMultiWorkspaceHeld ==
  ASSUME NEW s, ListsTyped(s), Held(s, "ui"), ~s.multiWorkspaceOpen,
         NEW saved, NEW created, NEW outcome \in ProjectOutcomes, NEW key
  PROVE  HeldBy(s, "ui", CreateMultiWorkspace(s, saved, created, outcome, key), "swap")
<1> DEFINE src       == s.sessions[CreateSource(s)]
           more      == IF src \in s.dirty \cap s.stale
                        THEN s.staleOnDisk \cup {src} ELSE s.staleOnDisk
           autosaved == [s EXCEPT !.dirty = @ \ {src}, !.staleOnDisk = more]
           opened    == OpenProject(autosaved, outcome, << >>, << >>)
           swapped   == CloseTab(opened, IndexOf(opened.sessions, src))
           u         == OpenInNewTab(swapped, key)
           t         == CreateMultiWorkspace(s, saved, created, outcome, key)
<1>0. IsApp(s) /\ s.sessions \in Seq(Keys) /\ s.experiments \in Seq(ExpIds)
  BY DEF ListsTyped
<1>1. t \in {s, autosaved, u}
  BY DEF CreateMultiWorkspace
<1> SUFFICES HeldBy(s, "ui", t, "swap")
  OBVIOUS
<1> HIDE DEF src, more, t
<1>2. /\ Alone(s, autosaved) /\ IsApp(autosaved) /\ autosaved.sessions = s.sessions
      /\ autosaved.experiments = s.experiments /\ autosaved.expDirty = s.expDirty
  BY <1>0 DEF IsApp, AppFields, Alone, SameListing
<1> HIDE DEF autosaved
<1>3. /\ Replaced(autosaved, opened, << >>) /\ IsApp(opened) /\ opened.sessions \in Seq(Keys)
  <2>1. /\ << >> \in Seq(Keys) /\ << >> \in Seq(ExpIds)
        /\ autosaved.sessions \in Seq(Keys) /\ IsApp(autosaved)
    BY <1>0, <1>2
  <2>2. ASSUME NEW none \in Seq(Keys), NEW no \in Seq(ExpIds)
        PROVE  LET p == OpenProject(autosaved, outcome, no, none) IN
               /\ no = << >> => Replaced(autosaved, p, no)
               /\ IsApp(p)
               /\ outcome = "opened" => p.sessions = autosaved.sessions \o none
               /\ outcome # "opened" => p.sessions = autosaved.sessions
    <3>1. no = << >> => Replaced(autosaved, OpenProject(autosaved, outcome, no, none), no)
      BY <2>1, ProjectShownExps
    <3>2. LET p == OpenProject(autosaved, outcome, no, none) IN
          /\ MoreTabs(autosaved, p) /\ ExpsDropped(autosaved, p)
          /\ outcome = "opened" => p.sessions = autosaved.sessions \o none
          /\ outcome # "opened" => p.sessions = autosaved.sessions
      BY <2>1, OpenProjectDoes
    <3> QED
      BY <3>1, <3>2 DEF MoreTabs
  <2>3. autosaved.sessions \o << >> = autosaved.sessions
    BY <2>1, ConcatEmptySeq
  <2> QED
    BY <2>1, <2>2, <2>3
<1> HIDE DEF opened
<1>4. NoLoose => autosaved.expDirty = {}
  BY <1>2, NothingAtHome
<1>5. HeldBy(s, "ui", opened, "swap")
  <2>1. << >> \in Seq(ExpIds) /\ Distinct(<< >>)
    BY DEF Distinct
  <2> QED
    BY <1>2, <1>3, <1>4, <2>1, AloneIsRecorded, ReplacedHeld
<1>6. ListsTyped(opened)
  <2>1. opened.experiments = s.experiments \/ opened.experiments = << >>
    BY <1>2, <1>3 DEF Replaced
  <2>2. << >> \in Seq(ExpIds)
    OBVIOUS
  <2>3. opened.experiments \in Seq(ExpIds)
    BY <1>0, <2>1, <2>2
  <2> QED
    BY <1>3, <2>3 DEF ListsTyped
<1>7. Alone(opened, swapped) /\ IsApp(swapped)
  BY <1>3, CloseTabAlone
<1> HIDE DEF swapped
<1>8. Alone(opened, u)
  BY <1>7, OpenInNewTabAlone, AloneTransitive
<1> HIDE DEF u
<1>9. HeldBy(s, "ui", u, "swap")
  <2>1. Held(u, "swap") /\ u.lost \cap ExpIds = opened.lost \cap ExpIds
    BY <1>5, <1>6, <1>8, AloneStillHeld DEF HeldBy
  <2>2. (u.lost \ s.lost) \cap ExpIds = (opened.lost \ s.lost) \cap ExpIds
    BY <2>1
  <2> QED
    BY <1>5, <2>1, <2>2 DEF HeldBy, SparesExps
<1>10. HeldBy(s, "ui", autosaved, "swap") /\ HeldBy(s, "ui", s, "swap")
  BY <1>2, AloneHeld, UnchangedHeld
<1> QED
  BY <1>1, <1>9, <1>10

-----------------------------------------------------------------------------
(* The invariant of the experiments, in the running program                  *)

ExpInv ==
  /\ Held(app, pc)
  /\ NoClicks /\ NoDeferral /\ pc = "closed" => app.expDirty = {}

(* What every step is shown to do. *)
StepSpared == ExpInv' /\ SparesExps(app, pc, app')

(* What is known of the program in every step.                               *)
ExpKnown == Inv /\ FlowInv /\ (NoClicks => KeepInv) /\ ExpInv

(* It holds at launch.                                                       *)
LEMMA InitExp == Init => ExpInv
<1> SUFFICES ASSUME Init PROVE ExpInv
  OBVIOUS
<1>1. app = Launched /\ pc = "swap"
  BY DEF Init
<1>2. app.experiments = << >> /\ app.expDirty = {}
  BY <1>1 DEF Launched
<1> QED
  BY <1>1, <1>2, CleanHeld DEF ExpInv

(* What is known of the record of the running program. *)
LEMMA RunningHeld ==
  ASSUME Inv, ExpInv
  PROVE  /\ ListsTyped(app) /\ app \in AppStates /\ WorkList(app) /\ ExperimentQueues(app)
         /\ Held(app, pc)
  BY SoundLists DEF Inv, ExpInv, Sound

(* A phase has run, to its end or into the null pointer.                     *)
LEMMA ExpStep ==
  ASSUME NEW from, NEW t, NEW q, Step(from, t, q), q # "closed", HeldBy(app, from, t, q)
  PROVE  StepSpared
<1>1. /\ app' = t /\ pc = from /\ pc' = (IF t.nullDeref THEN "crashed" ELSE q)
  BY DEF Step
<1>2. Held(t, q) /\ SparesExps(app, pc, app')
  BY <1>1 DEF HeldBy
<1>3. Held(t, "crashed")
  BY <1>2 DEF Held, DirtyListed
<1>4. pc' # "closed" /\ Held(t, pc')
  BY <1>1, <1>2, <1>3
<1> QED
  BY <1>1, <1>2, <1>4 DEF StepSpared, ExpInv

(* How many experiments a bulk save writes.                                  *)
LEMMA SaveCounts ==
  ASSUME NEW listed, NEW n \in ExperimentSaves(app, listed), app \in AppStates
  PROVE  n \in Nat /\ ("failedSave" \notin Allowed => n = Len(app.experiments))
<1>1. Len(app.experiments) \in Nat
  BY FieldTypes
<1> QED
  BY <1>1 DEF ExperimentSaves, ExperimentSaveStops

(* The frame top. *)
LEMMA FrameTopExp ==
  ASSUME ExpKnown, FrameTop
  PROVE  StepSpared
<1>0. /\ ListsTyped(app) /\ app \in AppStates /\ WorkList(app) /\ Held(app, pc)
      /\ app.active \in Keys \cup {NoTab}
  BY RunningHeld, FieldTypes DEF ExpKnown
<1>1. \A from, t, q : Step(from, t, q) => Held(app, from)
  BY <1>0 DEF Step
<1>2. CASE Swap
  <2>1. Step("swap", ExecutePendingSwap(app), "open")
    BY <1>2 DEF Swap
  <2> QED
    BY <1>0, <1>1, <2>1, SwapHeld, ExpStep
<1>3. CASE Open
  <2>1. PICK outcome : Step("open", ExecutePendingOpen(app, outcome), "save")
    BY <1>3 DEF Open
  <2>2. HeldBy(app, "open", ExecutePendingOpen(app, outcome), "save")
    BY <1>0, <1>1, <2>1, OpenHeld
  <2> QED
    BY <2>1, <2>2, ExpStep
<1>4. CASE Save
  <2>1. PICK saved \in SaveOutcomes, m \in TabSaves(app),
             n \in ExperimentSaves(app, ExpIndices(app)) :
          Step("save", ExecutePendingSave(app, saved, m, n), "closePrompt")
    BY <1>4 DEF Save
  <2>2. n \in Nat /\ Held(app, "save")
    BY <1>0, <1>1, <2>1, SaveCounts
  <2>3. HeldBy(app, "save", ExecutePendingSave(app, saved, m, n), "closePrompt")
    BY <1>0, <2>2, SaveHeld
  <2> QED
    BY <2>1, <2>3, ExpStep
<1>5. CASE ClosePrompt
  <2>1. Step("closePrompt", RaiseClosePrompt(app), "remove")
    BY <1>5 DEF ClosePrompt
  <2> QED
    BY <1>0, <1>1, <2>1, ClosesHeld, ExpStep
<1>6. CASE RemoveTabQueued
  <2>1. Step("remove", RunPendingRemove(app), "saveAll")
    BY <1>6 DEF RemoveTabQueued
  <2> QED
    BY <1>0, <1>1, <2>1, ClosesHeld, ExpStep
<1>7. CASE SaveAll
  <2>1. PICK saved \in SaveOutcomes,
             n \in ExperimentSaves(app, app.exitDirtyExperiments) :
          Step("saveAll", AdvanceExitSaveAll(app, saved, n), "home")
    BY <1>7 DEF SaveAll
  <2>2. n \in Nat /\ Held(app, "saveAll")
    BY <1>0, <1>1, <2>1, SaveCounts
  <2>3. HeldBy(app, "saveAll", AdvanceExitSaveAll(app, saved, n), "home")
    BY <1>0, <2>2, SaveAllHeld
  <2> QED
    BY <2>1, <2>3, ExpStep
<1>8. CASE Home
  <2> DEFINE t == [app EXCEPT !.pendingGoHome = FALSE, !.exitTargetIsGoHome = FALSE]
  <2>1. IF app.pendingGoHome THEN Step("home", t, "closeAll") ELSE Step("home", app, "poll")
    BY <1>8 DEF Home
  <2>2. Held(app, "home")
    BY <1>0, <1>1, <2>1
  <2>3. HeldBy(app, "home", app, "poll")
        /\ (app.pendingGoHome => HeldBy(app, "home", t, "closeAll"))
    BY <1>0, <2>2, HomeHeld
  <2> HIDE DEF t
  <2> QED
    BY <2>1, <2>3, ExpStep
<1>9. CASE CloseLastTab
  <2>1. Step("closeAll", RemoveTab(app, Len(app.sessions)), "closeAll")
    BY <1>9 DEF CloseLastTab
  <2>2. HeldBy(app, "closeAll", RemoveTab(app, Len(app.sessions)), "closeAll")
    BY <1>0, <1>1, <2>1, CloseAllHeld
  <2> QED
    BY <2>1, <2>2, ExpStep
<1>10. CASE GoneHome
  <2>1. Step("closeAll", FinishGoHome(app), "poll")
    BY <1>10 DEF GoneHome
  <2> QED
    BY <1>0, <1>1, <2>1, CloseAllHeld, ExpStep
<1> QED
  BY <1>2, <1>3, <1>4, <1>5, <1>6, <1>7, <1>8, <1>9, <1>10 DEF FrameTop

(* The window events, the background results, the keyboard, and no click.    *)
LEMMA EventsExp ==
  ASSUME ExpKnown, Poll \/ BackgroundResult \/ NoResult
                   \/ CtrlS \/ CtrlShiftS \/ CtrlH \/ NoShortcut \/ NoClick \/ Ended
  PROVE  StepSpared
<1>0. /\ ListsTyped(app) /\ app \in AppStates /\ Held(app, pc) /\ app.active \in Keys \cup {NoTab}
  BY RunningHeld, FieldTypes DEF ExpKnown
<1>1. \A from, t, q : Step(from, t, q) => Held(app, from)
  BY <1>0 DEF Step
<1>2. CASE Poll
  <2>1. PICK pressed \in BOOLEAN, order \in DirtyTabOrders(app) :
          Step("poll", PollEvents(app, pressed, order),
               IF PollEvents(app, pressed, order).shouldClose THEN "closed" ELSE "async")
    BY <1>2 DEF Poll
  <2> DEFINE t == PollEvents(app, pressed, order)
  <2>2. Held(app, "poll")
    BY <1>1, <2>1
  <2>3. /\ HeldBy(app, "poll", t, "async") /\ HeldBy(app, "poll", t, "closed")
        /\ t.shouldClose => t.expDirty = {} \/ app.exitDeferredClose
    BY <1>0, <2>2, PollHeld
  <2>4. Step("poll", t, IF t.shouldClose THEN "closed" ELSE "async")
    BY <2>1
  <2> HIDE DEF t
  <2>5. CASE ~t.shouldClose
    BY <2>3, <2>4, <2>5, ExpStep
  <2>6. CASE t.shouldClose
    <3>1. /\ app' = t /\ pc = "poll" /\ pc' = (IF t.nullDeref THEN "crashed" ELSE "closed")
      BY <2>4, <2>6 DEF Step
    <3>2. Held(t, "closed") /\ SparesExps(app, pc, app')
      BY <2>3, <3>1 DEF HeldBy
    <3>3. Held(t, pc')
      BY <3>1, <3>2 DEF Held, DirtyListed
    <3>4. NoClicks /\ NoDeferral => ~app.exitDeferredClose
      BY <3>1 DEF ExpKnown, KeepInv, Keeps
    <3> QED
      BY <2>3, <2>6, <3>1, <3>2, <3>3, <3>4 DEF StepSpared, ExpInv
  <2> QED
    BY <2>5, <2>6
<1>3. CASE BackgroundResult
  <2>1. PICK spoils : Step("async", EditActiveTab(app, spoils), "input")
    BY <1>3 DEF BackgroundResult
  <2>2. app.active \in Keys
    BY <1>0, <1>3 DEF BackgroundResult, WorkspaceShown
  <2>3. HeldBy(app, "async", EditActiveTab(app, spoils), "input")
    BY <1>0, <1>1, <2>1, <2>2, EditActiveTabHeld
  <2> QED
    BY <2>1, <2>3, ExpStep
<1>4. ASSUME NEW from, NEW q, q \in {"input", "ui", "swap"}, Step(from, app, q)
      PROVE  StepSpared
  BY <1>0, <1>1, <1>4, UnchangedHeld, ExpStep
<1>5. CASE NoResult \/ NoShortcut \/ NoClick
  BY <1>4, <1>5 DEF NoResult, NoShortcut, NoClick
<1>6. CASE CtrlS
  <2>1. Step("input", RequestSaveEverything(app), "ui")
    BY <1>6 DEF CtrlS, Shortcut
  <2>2. HeldBy(app, "input", RequestSaveEverything(app), "ui")
    BY <1>0, <1>1, <2>1, RequestSavesHeld
  <2> QED
    BY <2>1, <2>2, ExpStep
<1>7. CASE CtrlShiftS
  <2>1. Step("input", RequestSaveAs(app), "ui")
    BY <1>7 DEF CtrlShiftS, Shortcut
  <2>2. HeldBy(app, "input", RequestSaveAs(app), "ui")
    BY <1>0, <1>1, <2>1, RequestSavesHeld
  <2> QED
    BY <2>1, <2>2, ExpStep
<1>8. CASE CtrlH
  <2>1. PICK order : Step("input", RequestGoHome(app, order), "ui")
    BY <1>8 DEF CtrlH, Shortcut
  <2>2. HeldBy(app, "input", RequestGoHome(app, order), "ui")
    BY <1>0, <1>1, <2>1, RequestGoHomeHeld
  <2> QED
    BY <2>1, <2>2, ExpStep
<1>9. CASE Ended
  <2>1. app' = app /\ pc' = pc /\ (app.lost \ app.lost) \cap ExpIds = {}
    BY <1>9 DEF Ended, vars
  <2> QED
    BY <2>1 DEF StepSpared, ExpKnown, ExpInv, SparesExps
<1> QED
  BY <1>2, <1>3, <1>5, <1>6, <1>7, <1>8, <1>9

(* The answers of the prompts. *)
LEMMA AnswersExp ==
  ASSUME ExpKnown, Answers
  PROVE  StepSpared
<1>0. ListsTyped(app) /\ app \in AppStates /\ WorkList(app) /\ Held(app, pc)
  BY RunningHeld DEF ExpKnown
<1>1. ASSUME NEW up, NEW t, Answer(up, t)
      PROVE  up /\ Step("ui", t, "swap") /\ Held(app, "ui")
  BY <1>0, <1>1 DEF Answer, Step
<1>2. ASSUME NEW t, Step("ui", t, "swap"), HeldBy(app, "ui", t, "swap")
      PROVE  StepSpared
  BY <1>2, ExpStep
<1>3. CASE PressSave
  <2>1. PICK saved \in SaveOutcomes, n \in ExperimentSaves(app, ExpIndices(app)),
             outcome \in ProjectOpens, loaded \in UnloadedExperiments(Launched),
             tabs \in ReopenableTabs(app) :
          Answer(UnsavedUp(app), AnswerSave(app, saved, n, outcome, loaded, tabs))
    BY <1>3 DEF PressSave
  <2> DEFINE t == AnswerSave(app, saved, n, outcome, loaded, tabs)
  <2>2. UnsavedUp(app) /\ Step("ui", t, "swap") /\ Held(app, "ui")
    BY <1>1, <2>1
  <2>3. /\ outcome \in ProjectOutcomes /\ tabs \in Seq(Keys) /\ n \in Nat
        /\ "failedSave" \notin Allowed => n = Len(app.experiments)
    BY <1>0, OffersTyped, ReopenableTyped, SaveCounts
  <2>4. HeldBy(app, "ui", t, "swap")
    BY <1>0, <2>2, <2>3, AnswerSaveHeld
  <2> HIDE DEF t
  <2> QED
    BY <1>2, <2>2, <2>4
<1>4. CASE PressDontSave
  <2>1. PICK outcome \in ProjectOpens, loaded \in UnloadedExperiments(Launched),
             tabs \in ReopenableTabs(app) :
          Answer(UnsavedUp(app), AnswerDontSave(app, outcome, loaded, tabs))
    BY <1>4 DEF PressDontSave
  <2> DEFINE t == AnswerDontSave(app, outcome, loaded, tabs)
  <2>2. Step("ui", t, "swap") /\ Held(app, "ui")
    BY <1>1, <2>1
  <2>3. outcome \in ProjectOutcomes /\ tabs \in Seq(Keys)
    BY OffersTyped, ReopenableTyped
  <2>4. HeldBy(app, "ui", t, "swap")
    BY <1>0, <2>2, <2>3, AnswerDontSaveHeld
  <2> HIDE DEF t
  <2> QED
    BY <1>2, <2>2, <2>4
<1>5. CASE PressCancel
  <2>1. Step("ui", AnswerCancel(app), "swap") /\ Held(app, "ui")
    BY <1>1, <1>5 DEF PressCancel
  <2> QED
    BY <1>0, <1>2, <2>1, AnswerCancelHeld
<1>6. CASE PressStaleDrop
  <2>1. PICK saved \in SaveOutcomes, outcome \in ProjectOpens,
             loaded \in UnloadedExperiments(Launched), tabs \in ReopenableTabs(app) :
          Answer(StaleUp(app), StaleDrop(app, saved, outcome, loaded, tabs))
    BY <1>6 DEF PressStaleDrop
  <2> DEFINE t == StaleDrop(app, saved, outcome, loaded, tabs)
  <2>2. StaleUp(app) /\ Step("ui", t, "swap") /\ Held(app, "ui")
    BY <1>1, <2>1
  <2>3. outcome \in ProjectOutcomes /\ tabs \in Seq(Keys)
    BY OffersTyped, ReopenableTyped
  <2>4. HeldBy(app, "ui", t, "swap")
    BY <1>0, <2>2, <2>3, StaleAnswersHeld
  <2> HIDE DEF t
  <2> QED
    BY <1>2, <2>2, <2>4
<1>7. CASE PressStaleCancel
  <2>1. StaleUp(app) /\ Step("ui", StaleCancel(app), "swap") /\ Held(app, "ui")
    BY <1>1, <1>7 DEF PressStaleCancel
  <2>2. /\ "opened" \in ProjectOutcomes /\ << >> \in Seq(Keys)
        /\ << >> \in UnloadedExperiments(Launched)
    BY DEF ProjectOutcomes, UnloadedExperiments
  <2>3. HeldBy(app, "ui", StaleCancel(app), "swap")
    BY <1>0, <2>1, <2>2, StaleAnswersHeld
  <2> QED
    BY <1>2, <2>1, <2>3
<1>8. CASE PressSaveAll
  <2>1. ExitUp(app) /\ Step("ui", ExitSaveAll(app), "swap") /\ Held(app, "ui")
    BY <1>1, <1>8 DEF PressSaveAll
  <2> QED
    BY <1>0, <1>2, <2>1, ExitAnswersHeld
<1>9. CASE PressDiscardAll
  <2>1. ExitUp(app) /\ Step("ui", ExitDiscardAll(app), "swap") /\ Held(app, "ui")
    BY <1>1, <1>9 DEF PressDiscardAll
  <2> QED
    BY <1>0, <1>2, <2>1, ExitAnswersHeld
<1>10. CASE PressExitCancel
  <2>1. ExitUp(app) /\ Step("ui", ExitCancel(app), "swap") /\ Held(app, "ui")
    BY <1>1, <1>10 DEF PressExitCancel
  <2> QED
    BY <1>0, <1>2, <2>1, ExitAnswersHeld
<1>11. CASE PressDelete
  <2>1. Step("ui", ConfirmExperimentDelete(app), "swap") /\ Held(app, "ui")
    BY <1>1, <1>11 DEF PressDelete
  <2> QED
    BY <1>0, <1>2, <2>1, DeleteAnswersHeld
<1>12. CASE PressDeleteCancel
  <2>1. Step("ui", CancelExperimentDelete(app), "swap") /\ Held(app, "ui")
    BY <1>1, <1>12 DEF PressDeleteCancel
  <2> QED
    BY <1>0, <1>2, <2>1, DeleteAnswersHeld
<1> QED
  BY <1>3, <1>4, <1>5, <1>6, <1>7, <1>8, <1>9, <1>10, <1>11, <1>12 DEF Answers

(* Where a widget is clicked. *)
LEMMA ClickedHeld ==
  ASSUME ExpKnown, NEW t, Click(t)
  PROVE  /\ ListsTyped(app) /\ app \in AppStates /\ Held(app, "ui") /\ Staying(app)
         /\ ExperimentQueues(app)
         /\ HeldBy(app, "ui", t, "swap") => StepSpared
<1>1. Staying(app) /\ Step("ui", t, "swap")
  BY Clicked DEF ExpKnown
<1>2. /\ ListsTyped(app) /\ app \in AppStates /\ Held(app, "ui") /\ ExperimentQueues(app)
  BY <1>1, RunningHeld DEF ExpKnown, Step
<1> QED
  BY <1>1, <1>2, ExpStep

(* The clicks on the tab strip. *)
LEMMA StripClicksExp ==
  ASSUME ExpKnown, StripClicks
  PROVE  StepSpared
<1>1. CASE ClickSessionTab
  <2>1. Click(FocusSessionTab(app))
    BY <1>1 DEF ClickSessionTab
  <2> QED
    BY <2>1, ClickedHeld, TabClicksHeld
<1>2. CASE ClickTab
  <2>1. PICK idx : Click(SwapInSession(app, idx))
    BY <1>2 DEF ClickTab
  <2>2. HeldBy(app, "ui", SwapInSession(app, idx), "swap")
    BY <2>1, ClickedHeld, TabClicksHeld
  <2> QED
    BY <2>1, <2>2, ClickedHeld
<1>3. CASE ClickCloseTab
  <2>1. PICK idx : Click(CloseTab(app, idx))
    BY <1>3 DEF ClickCloseTab
  <2>2. HeldBy(app, "ui", CloseTab(app, idx), "swap")
    BY <2>1, ClickedHeld, TabClicksHeld
  <2> QED
    BY <2>1, <2>2, ClickedHeld
<1>4. CASE ClickExperimentTab
  <2>1. PICK idx : Click(ActivateExperiment(app, idx))
    BY <1>4 DEF ClickExperimentTab
  <2>2. HeldBy(app, "ui", ActivateExperiment(app, idx), "swap")
    BY <2>1, ClickedHeld, ExperimentWidgetsHeld
  <2> QED
    BY <2>1, <2>2, ClickedHeld
<1>5. CASE ClickCloseExperimentTab
  <2>1. PICK idx \in ExpIndices(app) : Click(CloseRequest(app, idx))
    BY <1>5 DEF ClickCloseExperimentTab, ShownExperiments
  <2>2. HeldBy(app, "ui", CloseRequest(app, idx), "swap")
    BY <2>1, ClickedHeld, ExperimentWidgetsHeld
  <2> QED
    BY <2>1, <2>2, ClickedHeld
<1> QED
  BY <1>1, <1>2, <1>3, <1>4, <1>5 DEF StripClicks

(* The other clicks. *)
LEMMA OtherClicksExp ==
  ASSUME ExpKnown, OtherClicks
  PROVE  StepSpared
<1>1. CASE Edit
  <2>1. PICK spoils \in Spoils : Click(EditActiveTab(app, spoils))
    BY <1>1 DEF Edit
  <2>2. app.active \in Keys
    <3>1. app.active # NoTab /\ app \in AppStates
      BY <1>1, <2>1, ClickedHeld DEF Edit, WorkspaceShown
    <3> QED
      BY <3>1, FieldTypes
  <2>3. HeldBy(app, "ui", EditActiveTab(app, spoils), "swap")
    BY <2>1, <2>2, ClickedHeld, EditActiveTabHeld
  <2> QED
    BY <2>1, <2>3, ClickedHeld
<1>2. CASE EditExperiment
  <2>1. /\ Click(EditActiveExperiment(app))
        /\ app.activeTabKind = "Experiment" /\ app.activeExperimentIdx # 0
    BY <1>2 DEF EditExperiment
  <2>2. app.activeExperimentIdx \in ExpIndices(app)
    <3>1. ExperimentQueues(app) /\ app \in AppStates
      BY <2>1, ClickedHeld
    <3>2. Len(app.experiments) \in Nat
      BY <3>1, FieldTypes
    <3> QED
      BY <2>1, <3>1, <3>2 DEF ExperimentQueues
  <2>3. HeldBy(app, "ui", EditActiveExperiment(app), "swap")
    BY <2>1, <2>2, ClickedHeld, ExperimentWidgetsHeld
  <2> QED
    BY <2>1, <2>3, ClickedHeld
<1>3. CASE OpenFile \/ OpenSource
  <2>1. PICK key \in Keys : Click(OpenInNewTab(app, key))
    BY <1>3 DEF OpenFile, OpenSource, Keys
  <2>2. HeldBy(app, "ui", OpenInNewTab(app, key), "swap")
    BY <2>1, ClickedHeld, TabClicksHeld
  <2> QED
    BY <2>1, <2>2, ClickedHeld
<1>4. CASE SaveAs
  <2>1. Click(RequestSaveAs(app))
    BY <1>4 DEF SaveAs
  <2>2. HeldBy(app, "ui", RequestSaveAs(app), "swap")
    BY <2>1, ClickedHeld, RequestSavesHeld
  <2> QED
    BY <2>1, <2>2, ClickedHeld
<1>5. CASE OpenFirstProject
  <2>1. PICK outcome \in ProjectOpens, loaded \in UnloadedExperiments(Launched),
             tabs \in ReopenableTabs(app) :
          LET p == OpenProject(app, outcome, loaded, tabs) IN
          /\ ~app.multiWorkspaceOpen
          /\ Click(IF outcome # "opened" THEN p
                   ELSE [FocusSessionTab(p) EXCEPT !.welcome = FALSE])
    BY <1>5 DEF OpenFirstProject
  <2>2. ~app.multiWorkspaceOpen /\ Click(ProjectShown(app, outcome, loaded, tabs))
    BY <2>1 DEF ProjectShown
  <2>3. /\ outcome \in ProjectOutcomes /\ tabs \in Seq(Keys)
        /\ loaded \in Seq(ExpIds) /\ Distinct(loaded)
    BY OffersTyped, ReopenableTyped, LoadedDistinct
  <2>4. HeldBy(app, "ui", ProjectShown(app, outcome, loaded, tabs), "swap")
    BY <2>2, <2>3, ClickedHeld, OpenProjectHeld
  <2> QED
    BY <2>2, <2>4, ClickedHeld
<1>6. CASE NewEmptyProject
  <2>1. PICK created \in SaveOutcomes, outcome \in ProjectOpens :
          LET p == OpenProject(app, outcome, << >>, << >>) IN
          /\ app.welcome
          /\ Click(IF ~created THEN app
                   ELSE IF outcome # "opened" THEN p
                   ELSE [FocusSessionTab(p) EXCEPT !.welcome = FALSE])
    BY <1>6 DEF NewEmptyProject
  <2> DEFINE t == ProjectShown(app, outcome, << >>, << >>)
  <2>2. app.welcome /\ (Click(app) \/ Click(t))
    BY <2>1 DEF ProjectShown
  <2>3. /\ outcome \in ProjectOutcomes /\ << >> \in Seq(Keys)
        /\ << >> \in Seq(ExpIds) /\ Distinct(<< >>)
    BY OffersTyped DEF Distinct
  <2>4. ListsTyped(app) /\ Held(app, "ui")
    BY <2>2, ClickedHeld
  <2>5. HeldBy(app, "ui", t, "swap")
    BY <2>2, <2>3, <2>4, OpenProjectHeld
  <2>6. HeldBy(app, "ui", app, "swap")
    BY <2>4, UnchangedHeld
  <2> HIDE DEF t
  <2> QED
    BY <2>2, <2>5, <2>6, ClickedHeld
<1>7. CASE OpenSameProject
  <2>1. PICK loaded \in UnloadedExperiments(app), tabs \in ReopenableTabs(app) :
          LET p == RestoreOpenEmbeddedTabs(LoadExperiments(FocusSessionTab(app), loaded), tabs)
          IN  app.multiWorkspaceOpen /\ Click([p EXCEPT !.welcome = FALSE])
    BY <1>7 DEF OpenSameProject
  <2> DEFINE t == [RestoreOpenEmbeddedTabs(LoadExperiments(FocusSessionTab(app), loaded), tabs)
                     EXCEPT !.welcome = FALSE]
  <2>2. app.multiWorkspaceOpen /\ Click(t)
    BY <2>1
  <2>3. tabs \in Seq(Keys)
    BY ReopenableTyped
  <2>4. ListsTyped(app) /\ Held(app, "ui") /\ Staying(app)
    BY <2>2, ClickedHeld
  <2>5. HeldBy(app, "ui", t, "swap")
    BY <2>2, <2>3, <2>4, OpenSameProjectHeld
  <2> HIDE DEF t
  <2> QED
    BY <2>2, <2>5, ClickedHeld
<1>8. CASE ReplaceProject
  <2>1. PICK outcome \in ProjectOpens, loaded \in UnloadedExperiments(Launched),
             tabs \in ReopenableTabs(app) :
          Click(RequestReplaceProject(app, outcome, loaded, tabs))
    BY <1>8 DEF ReplaceProject
  <2>2. /\ outcome \in ProjectOutcomes /\ tabs \in Seq(Keys)
        /\ loaded \in Seq(ExpIds) /\ Distinct(loaded)
    BY OffersTyped, ReopenableTyped, LoadedDistinct
  <2>3. HeldBy(app, "ui", RequestReplaceProject(app, outcome, loaded, tabs), "swap")
    BY <2>1, <2>2, ClickedHeld, ReplaceProjectHeld
  <2> QED
    BY <2>1, <2>3, ClickedHeld
<1>9. CASE DeleteDataset
  <2>1. PICK key \in Keys : Click(RemoveDataset(app, key))
    BY <1>9 DEF DeleteDataset, Keys
  <2>2. HeldBy(app, "ui", RemoveDataset(app, key), "swap")
    BY <2>1, ClickedHeld, RemoveDatasetHeld
  <2> QED
    BY <2>1, <2>2, ClickedHeld
<1>10. CASE NewMultiWorkspace
  <2>1. PICK saved \in SaveOutcomes, created \in SaveOutcomes, outcome \in ProjectOpens,
             key \in EmbeddedKeys \ Range(app.sessions) :
          /\ ~app.multiWorkspaceOpen
          /\ Click(CreateMultiWorkspace(app, saved, created, outcome, key))
    BY <1>10 DEF NewMultiWorkspace
  <2>2. outcome \in ProjectOutcomes
    BY OffersTyped
  <2>3. HeldBy(app, "ui", CreateMultiWorkspace(app, saved, created, outcome, key), "swap")
    BY <2>1, <2>2, ClickedHeld, CreateMultiWorkspaceHeld
  <2> QED
    BY <2>1, <2>3, ClickedHeld
<1>11. CASE NewExperiment
  <2>1. PICK e \in ExpIds \ Range(app.experiments) :
          /\ SessionShown
          /\ app.multiWorkspaceOpen \/ "looseExperiment" \in Allowed
          /\ Click(CreateExperiment(app, e))
    BY <1>11 DEF NewExperiment
  <2>2. NoLoose => app.multiWorkspaceOpen /\ ~app.welcome
    BY <2>1 DEF NoLoose, SessionShown
  <2>3. HeldBy(app, "ui", CreateExperiment(app, e), "swap")
    BY <2>1, <2>2, ClickedHeld, CreateExperimentHeld
  <2> QED
    BY <2>1, <2>3, ClickedHeld
<1>12. CASE ClickExperimentRow
  <2>1. PICK idx : Click(ActivateExperiment(app, idx))
    BY <1>12 DEF ClickExperimentRow
  <2>2. HeldBy(app, "ui", ActivateExperiment(app, idx), "swap")
    BY <2>1, ClickedHeld, ExperimentWidgetsHeld
  <2> QED
    BY <2>1, <2>2, ClickedHeld
<1>13. CASE DeleteExperiment
  <2>1. PICK idx \in ExpIndices(app) : Click(RequestDelete(app, idx))
    BY <1>13 DEF DeleteExperiment
  <2>2. HeldBy(app, "ui", RequestDelete(app, idx), "swap")
    BY <2>1, ClickedHeld, RequestDeleteHeld
  <2> QED
    BY <2>1, <2>2, ClickedHeld
<1> QED
  BY <1>1, <1>2, <1>3, <1>4, <1>5, <1>6, <1>7, <1>8, <1>9, <1>10, <1>11, <1>12, <1>13
  DEF OtherClicks

(* Every step keeps the invariant, and takes no experiment it may not.       *)
LEMMA NextExp == ExpKnown /\ [Next]_vars => StepSpared
<1>1. ASSUME ExpKnown, Next PROVE StepSpared
  BY <1>1, FrameTopExp, EventsExp, AnswersExp, StripClicksExp, OtherClicksExp DEF Next
<1>2. ASSUME ExpKnown, UNCHANGED vars PROVE StepSpared
  <2>1. app' = app /\ pc' = pc /\ (app.lost \ app.lost) \cap ExpIds = {}
    BY <1>2 DEF vars
  <2> QED
    BY <1>2, <2>1 DEF StepSpared, ExpKnown, ExpInv, SparesExps
<1> QED
  BY <1>1, <1>2

(* What is known of experiments holds throughout, whatever the environment   *)
(* may do.                                                                   *)
THEOREM ExperimentInvariance == Spec => []ExpKnown
<1>1. ExpKnown /\ [Next]_vars => ExpInv'
  BY NextExp DEF StepSpared
<1>2. ASSUME NoClicks PROVE Spec => [](NoClicks => KeepInv)
  <2>1. KeepInv => (NoClicks => KeepInv)
    OBVIOUS
  <2> QED
    BY <1>2, <2>1, KeepInvariance, PTL
<1>3. ASSUME ~NoClicks PROVE Spec => [](NoClicks => KeepInv)
  <2>1. NoClicks => KeepInv
    BY <1>3
  <2> QED
    BY <2>1, PTL
<1>4. Spec => [](NoClicks => KeepInv)
  BY <1>2, <1>3
<1>5. Inv /\ FlowInv /\ (NoClicks => KeepInv) /\ ExpInv <=> ExpKnown
  BY DEF ExpKnown
<1> QED
  BY <1>1, <1>4, <1>5, InitExp, Invariance, FlowInvariance, PTL DEF Spec

(* An experiment without unsaved changes is in the project file, unless the  *)
(* user let go of it: with no experiment made outside a project.             *)
THEOREM CleanExperimentsSaved ==
  ASSUME NoLoose
  PROVE  Spec => []CleanExperimentIsSaved
<1>1. ASSUME ExpKnown PROVE CleanExperimentIsSaved
  <2>1. Housed(app) /\ ExpKeys(app) = Range(app.experiments)
    BY <1>1, RunningHeld, ExpKeysTyped DEF ExpKnown, Held, ListsTyped
  <2> QED
    BY <2>1 DEF Housed, CleanExperimentIsSaved
<1> QED
  BY <1>1, ExperimentInvariance, PTL

(* No step loses an experiment nobody let go of, but the answer that puts    *)
(* another project in the place of one whose experiments could not be        *)
(* written, or were not because the stale prompt had come between.           *)
ExperimentsLostReplacing ==
  [][(app'.lost \ app.lost) \cap ExpIds # {} => MayLose(app, pc)]_vars

(* Removing tabs, going home, leaving, opening and deleting lose none.       *)
THEOREM LostOnlyReplacing ==
  ASSUME NoClicks, NoLoose
  PROVE  Spec => ExperimentsLostReplacing
<1>1. ExpKnown /\ [Next]_vars =>
        [(app'.lost \ app.lost) \cap ExpIds # {} => MayLose(app, pc)]_vars
  BY NextExp DEF StepSpared, SparesExps
<1> QED
  BY <1>1, ExperimentInvariance, PTL DEF Spec, ExperimentsLostReplacing

(* Where every write succeeds and no result goes stale, no experiment is     *)
(* lost that the user did not let go of.                                     *)
THEOREM ExperimentsKept ==
  ASSUME NoClicks, NoLoose, NoSpoils, "failedSave" \notin Allowed
  PROVE  Spec => []ExperimentsNeverLost
<1>1. Init => ExperimentsNeverLost
  BY DEF Init, Launched, ExperimentsNeverLost
<1>2. ASSUME ExpKnown, ExperimentsNeverLost, [Next]_vars PROVE ExperimentsNeverLost'
  <2>1. SparesExps(app, pc, app')
    BY <1>2, NextExp DEF StepSpared
  <2>2. ~MayLose(app, pc)
    <3>1. pc = "ui" => NothingStale(app)
      BY <1>2 DEF ExpKnown, FlowInv, Flow
    <3> QED
      BY <3>1 DEF MayLose, NothingStale, StaleUp
  <2> QED
    BY <1>2, <2>1, <2>2 DEF SparesExps, ExperimentsNeverLost
<1>3. ExpKnown /\ ExperimentsNeverLost /\ [Next]_vars => ExperimentsNeverLost'
  BY <1>2
<1> QED
  BY <1>1, <1>3, ExperimentInvariance, PTL DEF Spec

(* The window closes when every experiment is written or discarded.          *)
NoExperimentDirtyAtExit == pc = "closed" => app.expDirty = {}

(* If no close had to wait for a prompt or flow, it always does.             *)
THEOREM ExperimentsCleanAtExit ==
  ASSUME NoClicks, NoDeferral
  PROVE  Spec => []NoExperimentDirtyAtExit
<1>1. ExpKnown => NoExperimentDirtyAtExit
  BY DEF ExpKnown, ExpInv, NoExperimentDirtyAtExit
<1> QED
  BY <1>1, ExperimentInvariance, PTL
================================================================================
