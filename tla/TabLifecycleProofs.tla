--------------------------- MODULE TabLifecycleProofs ---------------------------
(***************************************************************************)
(* Theorems of TabLifecycle, for every set of tabs and experiments, every  *)
(* number of events and everything the environment may be allowed to do.   *)
(*                                                                         *)
(* The invariant is Sound, a predicate on the application state alone: it  *)
(* holds at launch and every operator of AppStateOps keeps it.  Each lemma *)
(* below says so of one operator; the theorems put them together.          *)
(* Behind them come lemmas for later proofs: what each operator does to    *)
(* the fields of the state, by groups (...Does).                           *)
(***************************************************************************)
EXTENDS TabLifecycle, SequenceTheorems, FiniteSetTheorems, TLAPS

(***************************************************************************)
(* Indices and work lists after a removal                                  *)
(***************************************************************************)

(* An index into a list of n still is one when element idx has left it.      *)
LEMMA ReindexBounds ==
  ASSUME NEW n \in Nat, NEW idx \in 1 .. n, NEW x \in 0 .. n
  PROVE  Reindex(x, idx) \in 0 .. n - 1
  BY DEF Reindex

(* What RemoveAt leaves behind. *)
LEMMA RemoveAtElements ==
  ASSUME NEW S, NEW q \in Seq(S), NEW i \in 1 .. Len(q)
  PROVE  /\ RemoveAt(q, i) \in Seq(S)
         /\ Len(RemoveAt(q, i)) = Len(q) - 1
         /\ \A j \in 1 .. Len(q) - 1 :
              RemoveAt(q, i)[j] = IF j < i THEN q[j] ELSE q[j + 1]
<1> DEFINE a == SubSeq(q, 1, i - 1)
           b == SubSeq(q, i + 1, Len(q))
<1>1. a \in Seq(S) /\ Len(a) = i - 1 /\ \A j \in 1 .. i - 1 : a[j] = q[j]
  BY SubSeqProperties
<1>2. /\ b \in Seq(S) /\ Len(b) = Len(q) - i
      /\ \A j \in 1 .. Len(q) - i : b[j] = q[i + j]
  BY SubSeqProperties
<1>3. RemoveAt(q, i) = a \o b
  BY DEF RemoveAt
<1> HIDE DEF a, b
<1>4. /\ a \o b \in Seq(S) /\ Len(a \o b) = Len(a) + Len(b)
      /\ \A j \in 1 .. Len(a) + Len(b) :
           (a \o b)[j] = IF j <= Len(a) THEN a[j] ELSE b[j - Len(a)]
  BY <1>1, <1>2, ConcatProperties
<1>5. \A j \in 1 .. Len(q) - 1 : (a \o b)[j] = IF j < i THEN q[j] ELSE q[j + 1]
  BY <1>1, <1>2, <1>4
<1> QED
  BY <1>1, <1>2, <1>3, <1>4, <1>5

(* IndexOf finds an element that is there. *)
LEMMA IndexOfElement ==
  ASSUME NEW S, NEW q \in Seq(S), NEW e \in Range(q)
  PROVE  IndexOf(q, e) \in 1 .. Len(q) /\ q[IndexOf(q, e)] = e
<1>1. \E i \in DOMAIN q : q[i] = e
  BY DEF Range
<1>2. DOMAIN q = 1 .. Len(q)
  BY LenProperties
<1> QED
  BY <1>1, <1>2 DEF IndexOf

(* A work list in which every tab is one of n and none appears twice. *)
ListsTabs(q, n) ==
  /\ \A j \in 1 .. Len(q) : q[j] \in 1 .. n
  /\ \A i, j \in 1 .. Len(q) : q[i] = q[j] => i = j

(* Such a list, less idx, lists the tabs that are left when tab idx is gone. *)
LEMMA DirtyTabsKept ==
  ASSUME NEW n \in Nat, NEW q \in Seq(Nat), NEW idx \in 1 .. n
  PROVE  /\ DirtyTabsWithout(q, idx) \in Seq(Nat)
         /\ Len(DirtyTabsWithout(q, idx)) =
              IF idx \in Range(q) THEN Len(q) - 1 ELSE Len(q)
         /\ ListsTabs(q, n) => ListsTabs(DirtyTabsWithout(q, idx), n - 1)
<1> DEFINE at   == IndexOf(q, idx)
           kept == IF idx \in Range(q) THEN RemoveAt(q, at) ELSE q
           d    == DirtyTabsWithout(q, idx)
<1>1. Len(q) \in Nat /\ \A j \in 1 .. Len(q) : q[j] \in Nat
  BY LenProperties, ElementOfSeq
<1>2. idx \in Range(q) => at \in 1 .. Len(q) /\ q[at] = idx
  BY IndexOfElement
<1>3. idx \in Range(q) <=> \E j \in 1 .. Len(q) : q[j] = idx
  BY LenProperties DEF Range
<1>4. /\ kept \in Seq(Nat)
      /\ Len(kept) = IF idx \in Range(q) THEN Len(q) - 1 ELSE Len(q)
      /\ \A j \in 1 .. Len(kept) :
           kept[j] = IF idx \in Range(q) /\ j >= at THEN q[j + 1] ELSE q[j]
  <2>1. CASE idx \in Range(q)
    <3> HIDE DEF at
    <3>1. /\ RemoveAt(q, at) \in Seq(Nat)
          /\ Len(RemoveAt(q, at)) = Len(q) - 1
          /\ \A j \in 1 .. Len(q) - 1 :
               RemoveAt(q, at)[j] = IF j < at THEN q[j] ELSE q[j + 1]
      BY <1>2, <2>1, RemoveAtElements
    <3>2. kept = RemoveAt(q, at)
      BY <2>1
    <3> HIDE DEF kept
    <3>3. \A j \in 1 .. Len(q) - 1 : j >= at <=> ~(j < at)
      BY <1>1, <1>2, <2>1
    <3> QED
      BY <2>1, <3>1, <3>2, <3>3
  <2>2. CASE idx \notin Range(q)
    BY <1>1, <2>2
  <2> QED
    BY <2>1, <2>2
<1>5. \A j \in 1 .. Len(kept) : kept[j] \in Nat
  BY <1>4, ElementOfSeq
<1>6. d = [j \in 1 .. Len(kept) |-> IF kept[j] > idx THEN kept[j] - 1 ELSE kept[j]]
  BY DEF DirtyTabsWithout
<1> HIDE DEF kept, d, at
<1>7. Len(kept) \in Nat
  BY <1>4, LenProperties
<1>8. d \in Seq(Nat) /\ Len(d) = Len(kept)
  BY <1>5, <1>6, <1>7
<1>9. ASSUME ListsTabs(q, n) PROVE ListsTabs(d, n - 1)
  <2> DEFINE old(j) == IF idx \in Range(q) /\ j >= at THEN j + 1 ELSE j
  <2>a. \A j \in 1 .. Len(q) : q[j] = idx => idx \in Range(q) /\ j = at
    BY <1>1, <1>2, <1>3, <1>9 DEF ListsTabs
  <2>b. \A j \in 1 .. Len(kept) :
          /\ old(j) \in 1 .. Len(q) /\ kept[j] = q[old(j)]
          /\ idx \in Range(q) => old(j) # at
    BY SMTT(30), <1>1, <1>2, <1>4
  <2>c. \A i, j \in 1 .. Len(kept) : old(i) = old(j) => i = j
    BY <1>2, <1>4, <1>7
  <2> HIDE DEF old
  <2>1. \A j \in 1 .. Len(kept) : kept[j] # idx /\ kept[j] \in 1 .. n
    BY <1>9, <2>a, <2>b DEF ListsTabs
  <2>2. \A i, j \in 1 .. Len(kept) : kept[i] = kept[j] => i = j
    BY <1>9, <2>b, <2>c DEF ListsTabs
  <2>3. \A j \in 1 .. Len(d) : d[j] \in 1 .. n - 1
    BY <1>6, <1>7, <1>8, <2>1
  <2>4. \A i, j \in 1 .. Len(d) : d[i] = d[j] => kept[i] = kept[j]
    BY <1>6, <1>7, <1>8, <2>1
  <2> QED
    BY <1>8, <2>2, <2>3, <2>4 DEF ListsTabs
<1> QED
  BY <1>4, <1>8, <1>9 DEF d

(* The cursor stays on the list. *)
LEMMA CursorKept ==
  ASSUME NEW n \in Nat, NEW q \in Seq(Nat), NEW idx \in 1 .. n, NEW cursor \in Nat
  PROVE  /\ CursorWithout(q, cursor, idx) \in Nat
         /\ cursor <= Len(q) =>
              CursorWithout(q, cursor, idx) <= Len(DirtyTabsWithout(q, idx))
<1>1. idx \in Range(q) => IndexOf(q, idx) \in 1 .. Len(q)
  BY IndexOfElement
<1>2. Len(DirtyTabsWithout(q, idx)) \in Nat
  BY DirtyTabsKept, LenProperties
<1>3. Len(DirtyTabsWithout(q, idx)) =
        IF idx \in Range(q) THEN Len(q) - 1 ELSE Len(q)
  BY DirtyTabsKept
<1>4. Len(q) \in Nat /\ (q = << >> => Len(q) = 0 /\ idx \notin Range(q))
  BY LenProperties, EmptySeq DEF Range
<1> QED
  BY <1>1, <1>2, <1>3, <1>4 DEF CursorWithout

(***************************************************************************)
(* The invariant                                                           *)
(***************************************************************************)

KeysUnique(s) ==
  \A i, j \in TabIndices(s) : s.sessions[i] = s.sessions[j] => i = j

ActiveTab(s) ==
  /\ s.active # NoTab =>
       /\ s.activeTabKind = "Workspace"
       /\ s.activeSessionIdx \in TabIndices(s)
       /\ s.sessions[s.activeSessionIdx] = s.active
  /\ s.activeTabKind = "Workspace" /\ s.activeSessionIdx # 0 => s.active # NoTab

TabQueues(s) ==
  LET tabs == 0 .. Len(s.sessions) IN
  /\ s.activeSessionIdx \in tabs /\ s.lastActiveSessionIdx \in tabs
  /\ s.pendingSwapIdx \in tabs /\ s.pendingCloseAfterSwap \in tabs
  /\ s.pendingTabCloseIdx \in tabs /\ s.pendingRemoveIdx \in tabs

WorkList(s) ==
  /\ ListsTabs(s.exitDirtyTabs, Len(s.sessions))
  /\ s.exitSaveAllRunning =>
       s.exitSaveAllCursor <= Len(s.exitDirtyTabs) /\ ~s.showExitDirtyModal

ExperimentQueues(s) ==
  /\ s.pendingExperimentIdx \in 0 .. Len(s.experiments)
  /\ s.activeTabKind = "Experiment" =>
       s.activeExperimentIdx \in 0 .. Len(s.experiments)

Sound(s) ==
  /\ s \in AppStates
  /\ KeysUnique(s) /\ ActiveTab(s) /\ TabQueues(s) /\ WorkList(s)
  /\ ExperimentQueues(s)

(* The fields the last five conjuncts speak of, in groups. *)
SameTabs(s, t) ==
  /\ t.sessions = s.sessions /\ t.active = s.active
  /\ t.activeTabKind = s.activeTabKind
  /\ t.activeSessionIdx = s.activeSessionIdx

SameQueues(s, t) ==
  /\ t.lastActiveSessionIdx = s.lastActiveSessionIdx
  /\ t.pendingCloseAfterSwap = s.pendingCloseAfterSwap
  /\ t.pendingTabCloseIdx = s.pendingTabCloseIdx
  /\ t.pendingRemoveIdx = s.pendingRemoveIdx

SameWork(s, t) ==
  /\ t.exitDirtyTabs = s.exitDirtyTabs
  /\ t.exitSaveAllRunning = s.exitSaveAllRunning
  /\ t.exitSaveAllCursor = s.exitSaveAllCursor
  /\ t.showExitDirtyModal = s.showExitDirtyModal

SameExperiments(s, t) ==
  t.experiments = s.experiments /\ t.activeExperimentIdx = s.activeExperimentIdx

SamePending(s, t) ==
  /\ t.pendingSwapIdx = s.pendingSwapIdx
  /\ t.pendingExperimentIdx = s.pendingExperimentIdx

SameStructure(s, t) ==
  /\ SameTabs(s, t) /\ SameQueues(s, t) /\ SameWork(s, t)
  /\ SameExperiments(s, t) /\ SamePending(s, t)

USE DEF TabIndices, ExpIndices

(* What is kept when a group of fields is. *)
LEMMA GroupsKept ==
  ASSUME NEW s, NEW t, Sound(s)
  PROVE  /\ SameTabs(s, t) => KeysUnique(t) /\ ActiveTab(t)
         /\ SameTabs(s, t) /\ SameQueues(s, t)
            /\ t.pendingSwapIdx \in 0 .. Len(s.sessions) => TabQueues(t)
         /\ SameTabs(s, t) /\ SameWork(s, t) => WorkList(t)
         /\ SameTabs(s, t) /\ SameExperiments(s, t)
            /\ t.pendingExperimentIdx \in 0 .. Len(s.experiments)
              => ExperimentQueues(t)
<1>1. SameTabs(s, t) => KeysUnique(t) /\ ActiveTab(t)
  BY DEF Sound, SameTabs, KeysUnique, ActiveTab
<1>2. SameTabs(s, t) /\ SameQueues(s, t)
      /\ t.pendingSwapIdx \in 0 .. Len(s.sessions) => TabQueues(t)
  BY DEF Sound, SameTabs, SameQueues, TabQueues
<1>3. SameTabs(s, t) /\ SameWork(s, t) => WorkList(t)
  BY DEF Sound, SameTabs, SameWork, WorkList
<1>4. SameTabs(s, t) /\ SameExperiments(s, t)
      /\ t.pendingExperimentIdx \in 0 .. Len(s.experiments) => ExperimentQueues(t)
  BY DEF Sound, SameTabs, SameExperiments, ExperimentQueues
<1> QED
  BY <1>1, <1>2, <1>3, <1>4

(* Only the queued switch and what the invariant does not speak of changed. *)
LEMMA SwitchSound ==
  ASSUME NEW s, NEW t \in AppStates, Sound(s),
         SameTabs(s, t), SameQueues(s, t), SameWork(s, t), SameExperiments(s, t),
         t.pendingSwapIdx \in 0 .. Len(s.sessions),
         t.pendingExperimentIdx \in 0 .. Len(s.experiments)
  PROVE  Sound(t)
  BY GroupsKept DEF Sound

(* Nothing the invariant speaks of has changed. *)
LEMMA SameStructureSound ==
  ASSUME NEW s, NEW t \in AppStates, Sound(s), SameStructure(s, t)
  PROVE  Sound(t)
<1>1. /\ t.pendingSwapIdx \in 0 .. Len(s.sessions)
      /\ t.pendingExperimentIdx \in 0 .. Len(s.experiments)
  BY DEF SameStructure, SamePending, Sound, TabQueues, ExperimentQueues
<1> QED
  BY <1>1, SwitchSound DEF SameStructure

(* The types of the fields the proofs ask for most. *)
LEMMA FieldTypes ==
  ASSUME NEW s \in AppStates
  PROVE  /\ s.sessions \in Seq(Keys) /\ Len(s.sessions) \in Nat
         /\ \A i \in TabIndices(s) : s.sessions[i] \in Keys
         /\ s.active \in Keys \cup {NoTab} /\ s.activeTabKind \in TabKinds
         /\ s.activeSessionIdx \in Nat /\ s.lastActiveSessionIdx \in Nat
         /\ s.pendingSwapIdx \in Nat /\ s.pendingCloseAfterSwap \in Nat
         /\ s.pendingTabCloseIdx \in Nat /\ s.pendingRemoveIdx \in Nat
         /\ s.exitDirtyTabs \in Seq(Nat) /\ Len(s.exitDirtyTabs) \in Nat
         /\ s.exitSaveAllCursor \in Nat
         /\ s.experiments \in Seq(ExpIds) /\ Len(s.experiments) \in Nat
         /\ \A i \in ExpIndices(s) : s.experiments[i] \in ExpIds
         /\ s.pendingExperimentIdx \in Nat /\ s.activeExperimentIdx \in Nat
<1>1. /\ s.sessions \in Seq(Keys) /\ s.exitDirtyTabs \in Seq(Nat)
      /\ s.experiments \in Seq(ExpIds)
  BY DEF AppStates
<1>2. /\ \A i \in TabIndices(s) : s.sessions[i] \in Keys
      /\ \A i \in ExpIndices(s) : s.experiments[i] \in ExpIds
  BY <1>1, ElementOfSeq
<1>3. /\ Len(s.sessions) \in Nat /\ Len(s.exitDirtyTabs) \in Nat
      /\ Len(s.experiments) \in Nat
  BY <1>1, LenProperties
<1>4. /\ s.active \in Keys \cup {NoTab} /\ s.activeTabKind \in TabKinds
      /\ s.activeSessionIdx \in Nat /\ s.lastActiveSessionIdx \in Nat
      /\ s.pendingSwapIdx \in Nat /\ s.pendingCloseAfterSwap \in Nat
      /\ s.pendingTabCloseIdx \in Nat /\ s.pendingRemoveIdx \in Nat
      /\ s.exitSaveAllCursor \in Nat
      /\ s.pendingExperimentIdx \in Nat /\ s.activeExperimentIdx \in Nat
  BY DEF AppStates
<1> QED
  BY <1>1, <1>2, <1>3, <1>4

(***************************************************************************)
(* The tab-switch queue                                                    *)
(***************************************************************************)

(* Launch. *)
LEMMA LaunchedSound == Sound(Launched)
<1>1. Launched \in AppStates
  BY DEF Launched, AppStates, TabKinds, PendingActions, PendingSaveKinds
<1> QED
  BY <1>1 DEF Launched, Sound, KeysUnique, ActiveTab, TabQueues, WorkList,
              ListsTabs, ExperimentQueues

(* Queueing a switch to an open tab. *)
LEMMA SwapInSessionSound ==
  ASSUME NEW s, Sound(s), NEW idx \in TabIndices(s)
  PROVE  Sound(SwapInSession(s, idx))
<1> DEFINE t == SwapInSession(s, idx)
<1>0. s \in AppStates /\ idx \in Nat
  BY FieldTypes DEF Sound
<1>1. t \in AppStates
  BY ZenonT(60), <1>0 DEF SwapInSession, AppStates
<1>2. /\ SameTabs(s, t) /\ SameQueues(s, t) /\ SameWork(s, t)
      /\ SameExperiments(s, t)
      /\ t.pendingSwapIdx = idx /\ t.pendingExperimentIdx = 0
  BY <1>0 DEF SwapInSession, AppStates, SameTabs, SameQueues, SameWork, SameExperiments
<1>3. idx \in 0 .. Len(s.sessions) /\ 0 \in 0 .. Len(s.experiments)
  BY <1>0, FieldTypes
<1> HIDE DEF t
<1>4. Sound(t)
  BY <1>1, <1>2, <1>3, SwitchSound
<1> QED
  BY <1>4 DEF t

(* Queueing a switch to the Session tab. *)
LEMMA FocusSessionTabSound ==
  ASSUME NEW s, Sound(s)
  PROVE  Sound(FocusSessionTab(s))
<1> DEFINE t == FocusSessionTab(s)
<1>1. s \in AppStates /\ 0 \in 0 .. Len(s.sessions) /\ 0 \in 0 .. Len(s.experiments)
  BY FieldTypes DEF Sound
<1>2. t \in AppStates
  BY ZenonT(60), <1>1 DEF FocusSessionTab, AppStates
<1>3. /\ SameTabs(s, t) /\ SameQueues(s, t) /\ SameWork(s, t)
      /\ SameExperiments(s, t)
      /\ t.pendingSwapIdx = 0 /\ t.pendingExperimentIdx = 0
  BY <1>1 DEF FocusSessionTab, AppStates, SameTabs, SameQueues, SameWork, SameExperiments
<1> HIDE DEF t
<1>4. Sound(t)
  BY <1>1, <1>2, <1>3, SwitchSound
<1> QED
  BY <1>4 DEF t

(* Carrying out the queued switch: experiment, Session tab or workspace. *)
LEMMA ExecutePendingSwapSound ==
  ASSUME NEW s, Sound(s)
  PROVE  Sound(ExecutePendingSwap(s))
<1> DEFINE idle == [s EXCEPT !.pendingSwapIdx = 0, !.pendingSwapToSession = FALSE,
                             !.pendingExperimentIdx = 0]
           e == s.pendingExperimentIdx
           w == s.pendingSwapIdx
           t == ExecutePendingSwap(s)
<1>0. s \in AppStates /\ 0 \in 0 .. Len(s.sessions) /\ 0 \in 0 .. Len(s.experiments)
  BY FieldTypes DEF Sound
<1>1. idle \in AppStates
  BY ZenonT(60), <1>0 DEF AppStates
<1>2. /\ SameTabs(s, idle) /\ SameQueues(s, idle) /\ SameWork(s, idle)
      /\ SameExperiments(s, idle)
      /\ idle.pendingSwapIdx = 0 /\ idle.pendingExperimentIdx = 0
  BY <1>0 DEF AppStates, SameTabs, SameQueues, SameWork, SameExperiments
<1>3. t = IF e # 0
          THEN IF e \in ExpIndices(s)
               THEN [idle EXCEPT !.active = NoTab, !.activeTabKind = "Experiment",
                                 !.activeExperimentIdx = e]
               ELSE [idle EXCEPT !.active = NoTab, !.activeExperimentIdx = 0]
          ELSE IF s.pendingSwapToSession
          THEN [idle EXCEPT !.active = NoTab, !.activeTabKind = "Session",
                            !.activeSessionIdx = 0]
          ELSE IF w \in TabIndices(s)
          THEN [idle EXCEPT !.active = s.sessions[w], !.activeTabKind = "Workspace",
                            !.activeSessionIdx = w, !.lastActiveSessionIdx = w]
          ELSE idle
  BY DEF ExecutePendingSwap
<1> HIDE DEF idle, t
<1>4. Sound(idle)
  BY <1>0, <1>1, <1>2, SwitchSound
<1>5. e \in 0 .. Len(s.experiments) /\ w \in 0 .. Len(s.sessions)
      /\ Len(s.sessions) \in Nat /\ Len(s.experiments) \in Nat
  BY <1>0, FieldTypes DEF Sound, ExperimentQueues, TabQueues
<1>6. CASE e # 0
  <2>1. e \in ExpIndices(s)
    BY <1>5, <1>6
  <2>2. t = [idle EXCEPT !.active = NoTab, !.activeTabKind = "Experiment",
                         !.activeExperimentIdx = e]
    BY <1>3, <1>6, <2>1
  <2>3. t \in AppStates
    BY ZenonT(60), <1>0, <1>1, <1>5, <2>2 DEF AppStates, TabKinds
  <2>4. /\ SameWork(idle, t) /\ SameQueues(idle, t) /\ t.sessions = idle.sessions
        /\ t.experiments = idle.experiments
        /\ t.active = NoTab /\ t.activeTabKind = "Experiment"
        /\ t.activeExperimentIdx = e /\ t.activeSessionIdx = idle.activeSessionIdx
        /\ t.pendingSwapIdx = 0 /\ t.pendingExperimentIdx = 0
    BY <1>1, <1>2, <2>2 DEF AppStates, SameWork, SameQueues
  <2>5. KeysUnique(t) /\ ActiveTab(t) /\ TabQueues(t)
    BY <1>4, <1>5, <1>2, <2>4 DEF Sound, KeysUnique, ActiveTab, TabQueues, SameQueues, SameTabs
  <2>6. WorkList(t) /\ ExperimentQueues(t)
    BY <1>4, <1>5, <1>2, <2>4 DEF Sound, WorkList, ExperimentQueues, SameWork, SameTabs, SameExperiments
  <2> QED
    BY <2>3, <2>5, <2>6 DEF Sound, t
<1>7. CASE e = 0 /\ s.pendingSwapToSession
  <2>2. t = [idle EXCEPT !.active = NoTab, !.activeTabKind = "Session",
                         !.activeSessionIdx = 0]
    BY <1>3, <1>7
  <2>3. t \in AppStates
    BY ZenonT(60), <1>1, <2>2 DEF AppStates, TabKinds
  <2>4. /\ SameWork(idle, t) /\ SameQueues(idle, t) /\ t.sessions = idle.sessions
        /\ t.experiments = idle.experiments
        /\ t.active = NoTab /\ t.activeTabKind = "Session"
        /\ t.activeSessionIdx = 0
        /\ t.pendingSwapIdx = 0 /\ t.pendingExperimentIdx = 0
    BY <1>1, <1>2, <2>2 DEF AppStates, SameWork, SameQueues
  <2>5. KeysUnique(t) /\ ActiveTab(t) /\ TabQueues(t)
    BY <1>0, <1>4, <1>2, <2>4 DEF Sound, KeysUnique, ActiveTab, TabQueues, SameQueues, SameTabs
  <2>6. WorkList(t) /\ ExperimentQueues(t)
    BY <1>0, <1>4, <1>2, <2>4 DEF Sound, WorkList, ExperimentQueues, SameWork, SameTabs, SameExperiments
  <2> QED
    BY <2>3, <2>5, <2>6 DEF Sound, t
<1>8. CASE e = 0 /\ ~s.pendingSwapToSession /\ w \in TabIndices(s)
  <2>1. s.sessions[w] \in Keys /\ w \in Nat
    BY <1>0, <1>8, FieldTypes
  <2>2. t = [idle EXCEPT !.active = s.sessions[w], !.activeTabKind = "Workspace",
                         !.activeSessionIdx = w, !.lastActiveSessionIdx = w]
    BY <1>3, <1>8
  <2>3. t \in AppStates
    BY ZenonT(60), <1>1, <2>1, <2>2 DEF AppStates, TabKinds
  <2>4. /\ SameWork(idle, t) /\ t.sessions = idle.sessions
        /\ t.experiments = idle.experiments
        /\ t.pendingCloseAfterSwap = idle.pendingCloseAfterSwap
        /\ t.pendingTabCloseIdx = idle.pendingTabCloseIdx
        /\ t.pendingRemoveIdx = idle.pendingRemoveIdx
        /\ t.active = s.sessions[w] /\ t.activeTabKind = "Workspace"
        /\ t.activeSessionIdx = w /\ t.lastActiveSessionIdx = w
        /\ t.pendingSwapIdx = 0 /\ t.pendingExperimentIdx = 0
    BY <1>1, <1>2, <2>2 DEF AppStates, SameWork
  <2>5. KeysUnique(t) /\ ActiveTab(t) /\ TabQueues(t)
    BY <1>0, <1>4, <1>2, <1>8, <2>1, <2>4, NoTabAssumption
    DEF Sound, KeysUnique, ActiveTab, TabQueues, SameQueues, SameTabs
  <2>6. WorkList(t) /\ ExperimentQueues(t)
    BY <1>0, <1>4, <1>2, <2>4 DEF Sound, WorkList, ExperimentQueues, SameWork, SameTabs, SameExperiments
  <2> QED
    BY <2>3, <2>5, <2>6 DEF Sound, t
<1>9. CASE e = 0 /\ ~s.pendingSwapToSession /\ w \notin TabIndices(s)
  BY <1>3, <1>4, <1>9 DEF t
<1> QED
  BY <1>6, <1>7, <1>8, <1>9

(***************************************************************************)
(* Removing and closing a tab                                              *)
(***************************************************************************)

(* Removing an element keeps a list of distinct elements distinct.           *)
LEMMA RemoveAtDistinct ==
  ASSUME NEW S, NEW q \in Seq(S), NEW i \in 1 .. Len(q),
         \A m, n \in 1 .. Len(q) : q[m] = q[n] => m = n
  PROVE  LET r == RemoveAt(q, i) IN
         /\ \A m, n \in 1 .. Len(r) : r[m] = r[n] => m = n
         /\ \A m \in 1 .. Len(r) : r[m] # q[i]
         /\ \A m \in 1 .. Len(q) : m # i =>
              /\ Reindex(m, i) \in 1 .. Len(r)
              /\ r[Reindex(m, i)] = q[m]
<1> DEFINE r == RemoveAt(q, i)
           old(j) == IF j < i THEN j ELSE j + 1
<1>1. Len(r) = Len(q) - 1 /\ Len(q) \in Nat
  BY RemoveAtElements, LenProperties
<1>2. \A j \in 1 .. Len(q) - 1 : r[j] = IF j < i THEN q[j] ELSE q[j + 1]
  BY RemoveAtElements
<1> HIDE DEF r
<1>3. \A j \in 1 .. Len(r) :
        r[j] = q[old(j)] /\ old(j) \in 1 .. Len(q) /\ old(j) # i
  BY <1>1, <1>2
<1>4. \A m, n \in 1 .. Len(r) : old(m) = old(n) => m = n
  BY <1>1
<1>5. \A m \in 1 .. Len(q) : m # i =>
        Reindex(m, i) \in 1 .. Len(r) /\ old(Reindex(m, i)) = m
  BY <1>1 DEF Reindex
<1> HIDE DEF old
<1>6. \A m, n \in 1 .. Len(r) : r[m] = r[n] => m = n
  BY <1>3, <1>4
<1>7. \A m \in 1 .. Len(r) : r[m] # q[i]
  BY <1>3
<1>8. \A m \in 1 .. Len(q) : m # i =>
        Reindex(m, i) \in 1 .. Len(r) /\ r[Reindex(m, i)] = q[m]
  BY <1>3, <1>5
<1> QED
  BY <1>6, <1>7, <1>8 DEF r

(* Taking a tab away. *)
LEMMA RemoveTabSound ==
  ASSUME NEW s, Sound(s), NEW idx \in TabIndices(s)
  PROVE  /\ Sound(RemoveTab(s, idx))
         /\ RemoveTab(s, idx).sessions = RemoveAt(s.sessions, idx)
         /\ RemoveTab(s, idx).active =
              (IF s.active = s.sessions[idx] THEN NoTab ELSE s.active)
<1> DEFINE key     == s.sessions[idx]
           rest    == RemoveAt(s.sessions, idx)
           erased  == [s EXCEPT !.active = IF @ = key THEN NoTab ELSE @,
                                !.sessions = RemoveAt(@, idx),
                                !.activeSessionIdx = Reindex(@, idx),
                                !.dirty = @ \ {key}, !.stale = @ \ {key},
                                !.lost = @ \cup (({key} \cap s.dirty) \ s.consent),
                                !.consent = @ \ {key},
                                !.staleOnDisk = @ \ {key}]
           leaves  == s.activeSessionIdx = idx /\ s.activeTabKind = "Workspace"
           focused == IF leaves THEN FocusSessionTab(erased) ELSE erased
           cursor  == CursorWithout(s.exitDirtyTabs, s.exitSaveAllCursor, idx)
           list    == DirtyTabsWithout(s.exitDirtyTabs, idx)
           n       == Len(s.sessions)
           t       == RemoveTab(s, idx)
<1>0. s \in AppStates /\ n \in Nat /\ idx \in 1 .. n /\ idx \in Nat
  BY FieldTypes DEF Sound
<1>1. key \in Keys /\ s.sessions \in Seq(Keys)
  BY <1>0, FieldTypes
<1>2. /\ rest \in Seq(Keys) /\ Len(rest) = n - 1
      /\ \A i, j \in 1 .. n - 1 : rest[i] = rest[j] => i = j
      /\ \A j \in 1 .. n - 1 : rest[j] # key
      /\ \A j \in 1 .. n : j # idx =>
           Reindex(j, idx) \in 1 .. n - 1 /\ rest[Reindex(j, idx)] = s.sessions[j]
  <2>1. \A i, j \in 1 .. Len(s.sessions) : s.sessions[i] = s.sessions[j] => i = j
    BY DEF Sound, KeysUnique
  <2>2. idx \in 1 .. Len(s.sessions)
    OBVIOUS
  <2>3. rest \in Seq(Keys) /\ Len(rest) = n - 1
    BY <1>1, <2>2, RemoveAtElements
  <2>4. /\ \A i, j \in 1 .. Len(rest) : rest[i] = rest[j] => i = j
        /\ \A j \in 1 .. Len(rest) : rest[j] # key
        /\ \A j \in 1 .. Len(s.sessions) : j # idx =>
             Reindex(j, idx) \in 1 .. Len(rest) /\ rest[Reindex(j, idx)] = s.sessions[j]
    BY <1>1, <2>1, <2>2, RemoveAtDistinct
  <2> HIDE DEF rest
  <2> QED
    BY <2>3, <2>4
<1>3. s.exitDirtyTabs \in Seq(Nat) /\ s.exitSaveAllCursor \in Nat
  BY <1>0, FieldTypes
<1>4. /\ list \in Seq(Nat) /\ ListsTabs(list, n - 1)
  BY <1>0, <1>3, DirtyTabsKept DEF Sound, WorkList
<1>5. /\ cursor \in Nat
      /\ s.exitSaveAllCursor <= Len(s.exitDirtyTabs) => cursor <= Len(list)
  BY <1>0, <1>3, CursorKept
<1>6. \A x \in 0 .. n : Reindex(x, idx) \in 0 .. n - 1 /\ Reindex(x, idx) \in Nat
  BY <1>0, ReindexBounds
<1>7. t = [focused EXCEPT
              !.lastActiveSessionIdx = Reindex(@, idx),
              !.pendingSwapIdx = Reindex(@, idx),
              !.pendingCloseAfterSwap = Reindex(@, idx),
              !.pendingTabCloseIdx = Reindex(@, idx),
              !.pendingRemoveIdx = Reindex(@, idx),
              !.exitSaveAllCursor = CursorWithout(s.exitDirtyTabs, @, idx),
              !.exitDirtyTabs = DirtyTabsWithout(@, idx)]
  BY DEF RemoveTab
<1>8. /\ s.activeSessionIdx \in 0 .. n /\ s.lastActiveSessionIdx \in 0 .. n
      /\ s.pendingSwapIdx \in 0 .. n /\ s.pendingCloseAfterSwap \in 0 .. n
      /\ s.pendingTabCloseIdx \in 0 .. n /\ s.pendingRemoveIdx \in 0 .. n
  BY DEF Sound, TabQueues
<1>9. (IF s.active = key THEN NoTab ELSE s.active) \in Keys \cup {NoTab}
  BY <1>0, FieldTypes
<1> HIDE DEF rest, cursor, list, n, key
<1>10. /\ erased \in AppStates
       /\ erased.sessions = rest
       /\ erased.active = (IF s.active = key THEN NoTab ELSE s.active)
       /\ erased.activeTabKind = s.activeTabKind
       /\ erased.activeSessionIdx = Reindex(s.activeSessionIdx, idx)
       /\ SameQueues(s, erased) /\ SameWork(s, erased) /\ SameExperiments(s, erased)
       /\ SamePending(s, erased)
  <2>1. erased = [s EXCEPT !.active = IF @ = key THEN NoTab ELSE @,
                           !.sessions = rest,
                           !.activeSessionIdx = Reindex(@, idx),
                           !.dirty = @ \ {key}, !.stale = @ \ {key},
                           !.lost = @ \cup (({key} \cap s.dirty) \ s.consent),
                           !.consent = @ \ {key},
                           !.staleOnDisk = @ \ {key}]
    BY <1>0 DEF AppStates, rest
  <2> DEFINE a == IF s.active = key THEN NoTab ELSE s.active
             x == Reindex(s.activeSessionIdx, idx)
             l == s.lost \cup (({key} \cap s.dirty) \ s.consent)
  <2>2. /\ a \in Keys \cup {NoTab} /\ x \in Nat
        /\ l \in SUBSET (Keys \cup ExpIds)
    BY <1>0, <1>1, <1>6, <1>8, <1>9 DEF AppStates
  <2>3. erased = [s EXCEPT !.active = a, !.sessions = rest, !.activeSessionIdx = x,
                           !.dirty = @ \ {key}, !.stale = @ \ {key},
                           !.lost = l, !.consent = @ \ {key},
                           !.staleOnDisk = @ \ {key}]
    BY <1>0, <2>1 DEF AppStates
  <2> HIDE DEF erased, a, x, l
  <2>4. erased \in AppStates
    BY ZenonT(60), <1>0, <1>2, <2>2, <2>3 DEF AppStates
  <2>5. /\ erased.sessions = rest /\ erased.active = a
        /\ erased.activeTabKind = s.activeTabKind
        /\ erased.activeSessionIdx = x
        /\ SameQueues(s, erased) /\ SameWork(s, erased) /\ SameExperiments(s, erased)
        /\ SamePending(s, erased)
    BY <1>0, <2>3 DEF AppStates, SameQueues, SameWork, SameExperiments, SamePending
  <2> QED
    BY <2>4, <2>5 DEF a, x
<1> HIDE DEF erased
<1>11. /\ focused \in AppStates
       /\ focused.sessions = rest
       /\ focused.active = (IF s.active = key THEN NoTab ELSE s.active)
       /\ focused.activeTabKind = s.activeTabKind
       /\ focused.activeSessionIdx = Reindex(s.activeSessionIdx, idx)
       /\ SameQueues(s, focused) /\ SameWork(s, focused) /\ SameExperiments(s, focused)
       /\ focused.pendingSwapIdx \in {0, s.pendingSwapIdx}
       /\ focused.pendingExperimentIdx \in {0, s.pendingExperimentIdx}
  <2>1. CASE leaves
    <3>1. focused = [erased EXCEPT !.pendingSwapIdx = 0, !.pendingSwapToSession = TRUE,
                                   !.pendingExperimentIdx = 0]
      BY <2>1 DEF FocusSessionTab
    <3> HIDE DEF focused
    <3>2. focused \in AppStates
      BY ZenonT(60), <1>10, <3>1 DEF AppStates
    <3>3. /\ SameTabs(erased, focused) /\ SameQueues(erased, focused)
          /\ SameWork(erased, focused) /\ SameExperiments(erased, focused)
          /\ focused.pendingSwapIdx = 0 /\ focused.pendingExperimentIdx = 0
      BY <1>10, <3>1
      DEF AppStates, SameTabs, SameQueues, SameWork, SameExperiments
    <3> QED
      BY <1>10, <3>2, <3>3 DEF SameTabs, SameQueues, SameWork, SameExperiments
  <2>2. CASE ~leaves
    BY <1>10, <2>2 DEF SamePending
  <2> QED
    BY <2>1, <2>2
<1> HIDE DEF focused, t
<1>12. t = [focused EXCEPT
              !.lastActiveSessionIdx = Reindex(s.lastActiveSessionIdx, idx),
              !.pendingSwapIdx = Reindex(focused.pendingSwapIdx, idx),
              !.pendingCloseAfterSwap = Reindex(s.pendingCloseAfterSwap, idx),
              !.pendingTabCloseIdx = Reindex(s.pendingTabCloseIdx, idx),
              !.pendingRemoveIdx = Reindex(s.pendingRemoveIdx, idx),
              !.exitSaveAllCursor = cursor,
              !.exitDirtyTabs = list]
  BY <1>7, <1>11 DEF SameQueues, SameWork, cursor, list, AppStates
<1>13. /\ Reindex(s.lastActiveSessionIdx, idx) \in 0 .. n - 1
       /\ Reindex(focused.pendingSwapIdx, idx) \in 0 .. n - 1
       /\ Reindex(s.pendingCloseAfterSwap, idx) \in 0 .. n - 1
       /\ Reindex(s.pendingTabCloseIdx, idx) \in 0 .. n - 1
       /\ Reindex(s.pendingRemoveIdx, idx) \in 0 .. n - 1
       /\ Reindex(s.activeSessionIdx, idx) \in 0 .. n - 1
  <2>1. focused.pendingSwapIdx \in 0 .. n
    BY <1>0, <1>8, <1>11
  <2> QED
    BY <1>6, <1>8, <2>1
<1>14. t \in AppStates
  <2>1. \A x \in 0 .. n - 1 : x \in Nat
    BY <1>0
  <2>2. /\ Reindex(s.lastActiveSessionIdx, idx) \in Nat
        /\ Reindex(focused.pendingSwapIdx, idx) \in Nat
        /\ Reindex(s.pendingCloseAfterSwap, idx) \in Nat
        /\ Reindex(s.pendingTabCloseIdx, idx) \in Nat
        /\ Reindex(s.pendingRemoveIdx, idx) \in Nat
    BY <1>13, <2>1
  <2> QED
    BY ZenonT(60), <1>4, <1>5, <1>11, <1>12, <2>2 DEF AppStates
<1>15. /\ t.sessions = rest
       /\ t.active = (IF s.active = key THEN NoTab ELSE s.active)
       /\ t.activeTabKind = s.activeTabKind
       /\ t.activeSessionIdx = Reindex(s.activeSessionIdx, idx)
       /\ t.lastActiveSessionIdx \in 0 .. n - 1
       /\ t.pendingSwapIdx \in 0 .. n - 1
       /\ t.pendingCloseAfterSwap \in 0 .. n - 1
       /\ t.pendingTabCloseIdx \in 0 .. n - 1
       /\ t.pendingRemoveIdx \in 0 .. n - 1
       /\ t.exitSaveAllRunning = s.exitSaveAllRunning
       /\ t.showExitDirtyModal = s.showExitDirtyModal
       /\ t.exitSaveAllCursor = cursor /\ t.exitDirtyTabs = list
       /\ SameExperiments(s, t)
       /\ t.pendingExperimentIdx \in {0, s.pendingExperimentIdx}
  BY <1>11, <1>12, <1>13 DEF AppStates, SameExperiments, SameWork
<1>16. KeysUnique(t)
  BY <1>2, <1>15 DEF KeysUnique
<1>17. ActiveTab(t)
  <2>1. /\ s.active # NoTab =>
             /\ s.activeTabKind = "Workspace" /\ s.activeSessionIdx \in 1 .. n
             /\ s.sessions[s.activeSessionIdx] = s.active
        /\ s.activeTabKind = "Workspace" /\ s.activeSessionIdx # 0 => s.active # NoTab
    BY DEF Sound, ActiveTab, n
  <2>2. t.active # NoTab => s.activeSessionIdx # idx
    BY <1>15, <2>1 DEF key
  <2>3. \A x \in 0 .. n : Reindex(x, idx) # 0 => x # 0 /\ x # idx
    BY <1>0 DEF Reindex
  <2>4. t.active # NoTab =>
          /\ t.activeTabKind = "Workspace" /\ t.activeSessionIdx \in 1 .. n - 1
          /\ t.sessions[t.activeSessionIdx] = t.active
    BY <1>2, <1>15, <2>1, <2>2
  <2>5. t.activeTabKind = "Workspace" /\ t.activeSessionIdx # 0 => t.active # NoTab
    <3> SUFFICES ASSUME t.activeTabKind = "Workspace", t.activeSessionIdx # 0
                 PROVE  t.active # NoTab
      OBVIOUS
    <3>1. s.activeSessionIdx # 0 /\ s.activeSessionIdx # idx
      BY <1>8, <1>15, <2>3
    <3>2. s.active # NoTab /\ s.sessions[s.activeSessionIdx] = s.active
          /\ s.activeSessionIdx \in 1 .. n
      BY <1>15, <2>1, <3>1
    <3>3. s.active # key
      BY <3>1, <3>2, <1>0 DEF Sound, KeysUnique, key, n
    <3> QED
      BY <1>15, <3>2, <3>3
  <2> QED
    BY <1>2, <1>15, <2>4, <2>5 DEF ActiveTab
<1>18. TabQueues(t) /\ WorkList(t)
  BY <1>2, <1>4, <1>5, <1>13, <1>15 DEF TabQueues, WorkList, Sound
<1>19. ExperimentQueues(t)
  BY <1>0, <1>15, FieldTypes DEF Sound, ExperimentQueues, SameExperiments
<1> QED
  BY <1>14, <1>15, <1>16, <1>17, <1>18, <1>19 DEF Sound, t, rest, key

(* Queues may change freely as long as they stay in range. *)
LEMMA QueuesSound ==
  ASSUME NEW s, NEW t \in AppStates, Sound(s),
         SameTabs(s, t), SameWork(s, t), SameExperiments(s, t),
         t.lastActiveSessionIdx \in 0 .. Len(s.sessions),
         t.pendingSwapIdx \in 0 .. Len(s.sessions),
         t.pendingCloseAfterSwap \in 0 .. Len(s.sessions),
         t.pendingTabCloseIdx \in 0 .. Len(s.sessions),
         t.pendingRemoveIdx \in 0 .. Len(s.sessions),
         t.pendingExperimentIdx \in 0 .. Len(s.experiments)
  PROVE  Sound(t)
<1>1. KeysUnique(t) /\ ActiveTab(t) /\ WorkList(t) /\ ExperimentQueues(t)
  BY GroupsKept
<1>2. TabQueues(t)
  BY DEF Sound, SameTabs, TabQueues
<1> QED
  BY <1>1, <1>2 DEF Sound

(* What the queues of a sound state hold. *)
LEMMA QueuesOf ==
  ASSUME NEW s, Sound(s)
  PROVE  /\ s.lastActiveSessionIdx \in 0 .. Len(s.sessions)
         /\ s.activeSessionIdx \in 0 .. Len(s.sessions)
         /\ s.pendingSwapIdx \in 0 .. Len(s.sessions)
         /\ s.pendingCloseAfterSwap \in 0 .. Len(s.sessions)
         /\ s.pendingTabCloseIdx \in 0 .. Len(s.sessions)
         /\ s.pendingRemoveIdx \in 0 .. Len(s.sessions)
         /\ s.pendingExperimentIdx \in 0 .. Len(s.experiments)
         /\ 0 \in 0 .. Len(s.sessions) /\ 0 \in 0 .. Len(s.experiments)
         /\ s \in AppStates
<1>1. s \in AppStates
  BY DEF Sound
<1>2. 0 \in 0 .. Len(s.sessions) /\ 0 \in 0 .. Len(s.experiments)
  BY <1>1, FieldTypes
<1> QED
  BY <1>1, <1>2 DEF Sound, TabQueues, ExperimentQueues

(* Closing a tab: at once, at the next frame top, or after the prompt. *)
LEMMA CloseTabSound ==
  ASSUME NEW s, Sound(s), NEW idx
  PROVE  Sound(CloseTab(s, idx))
<1> DEFINE t        == CloseTab(s, idx)
           isActive == idx = s.activeSessionIdx /\ s.activeTabKind = "Workspace"
           asked    == [s EXCEPT !.pendingTabCloseIdx = idx, !.showUnsavedPrompt = TRUE]
           parked   == [s EXCEPT !.pendingCloseAfterSwap = idx]
           queued   == [s EXCEPT !.pendingRemoveIdx = idx]
<1>1. s \in AppStates
  BY DEF Sound
<1>2. t = IF idx \notin TabIndices(s) THEN s
          ELSE IF s.sessions[idx] \in s.dirty
          THEN IF isActive THEN asked ELSE SwapInSession(parked, idx)
          ELSE IF isActive THEN queued ELSE RemoveTab(s, idx)
  BY DEF CloseTab
<1>3. CASE idx \notin TabIndices(s)
  BY <1>2, <1>3
<1>4. CASE idx \in TabIndices(s)
  <2>1. idx \in Nat /\ idx \in 0 .. Len(s.sessions)
    BY <1>1, <1>4, FieldTypes
  <2>2. Sound(asked)
    <3>1. asked \in AppStates
      BY ZenonT(60), <1>1, <2>1 DEF AppStates
    <3>2. /\ SameTabs(s, asked) /\ SameWork(s, asked) /\ SameExperiments(s, asked)
          /\ SamePending(s, asked)
          /\ asked.lastActiveSessionIdx = s.lastActiveSessionIdx
          /\ asked.pendingCloseAfterSwap = s.pendingCloseAfterSwap
          /\ asked.pendingTabCloseIdx = idx
          /\ asked.pendingRemoveIdx = s.pendingRemoveIdx
      BY <1>1 DEF AppStates, SameTabs, SameWork, SameExperiments, SamePending
    <3> HIDE DEF asked
    <3> QED
      BY <2>1, <3>1, <3>2, QueuesOf, QueuesSound DEF SamePending
  <2>3. Sound(parked) /\ parked.sessions = s.sessions
    <3>1. parked \in AppStates
      BY ZenonT(60), <1>1, <2>1 DEF AppStates
    <3>2. /\ SameTabs(s, parked) /\ SameWork(s, parked) /\ SameExperiments(s, parked)
          /\ SamePending(s, parked)
          /\ parked.lastActiveSessionIdx = s.lastActiveSessionIdx
          /\ parked.pendingCloseAfterSwap = idx
          /\ parked.pendingTabCloseIdx = s.pendingTabCloseIdx
          /\ parked.pendingRemoveIdx = s.pendingRemoveIdx
      BY <1>1 DEF AppStates, SameTabs, SameWork, SameExperiments, SamePending
    <3> HIDE DEF parked
    <3>3. Sound(parked)
      BY <2>1, <3>1, <3>2, QueuesOf, QueuesSound DEF SamePending
    <3> QED
      BY <3>2, <3>3 DEF SameTabs
  <2>4. Sound(queued)
    <3>1. queued \in AppStates
      BY ZenonT(60), <1>1, <2>1 DEF AppStates
    <3>2. /\ SameTabs(s, queued) /\ SameWork(s, queued) /\ SameExperiments(s, queued)
          /\ SamePending(s, queued)
          /\ queued.lastActiveSessionIdx = s.lastActiveSessionIdx
          /\ queued.pendingCloseAfterSwap = s.pendingCloseAfterSwap
          /\ queued.pendingTabCloseIdx = s.pendingTabCloseIdx
          /\ queued.pendingRemoveIdx = idx
      BY <1>1 DEF AppStates, SameTabs, SameWork, SameExperiments, SamePending
    <3> HIDE DEF queued
    <3> QED
      BY <2>1, <3>1, <3>2, QueuesOf, QueuesSound DEF SamePending
  <2>5. Sound(RemoveTab(s, idx))
    BY <1>4, RemoveTabSound
  <2> HIDE DEF asked, parked, queued, t
  <2>6. Sound(SwapInSession(parked, idx))
    BY <1>4, <2>3, SwapInSessionSound
  <2>7. Sound(t)
    BY <1>2, <1>4, <2>2, <2>4, <2>5, <2>6
  <2> QED
    BY <2>7 DEF t
<1> QED
  BY <1>3, <1>4

(* More tabs, the old ones where they were. *)
LEMMA MoreTabsSound ==
  ASSUME NEW s, Sound(s), NEW tabs \in Seq(Keys),
         \A i, j \in 1 .. Len(tabs) : tabs[i] = tabs[j] => i = j,
         \A i \in 1 .. Len(tabs) : tabs[i] \notin Range(s.sessions)
  PROVE  LET t == [s EXCEPT !.sessions = @ \o tabs] IN
         Sound(t) /\ Len(t.sessions) = Len(s.sessions) + Len(tabs)
<1> DEFINE all == s.sessions \o tabs
           t   == [s EXCEPT !.sessions = all]
           n   == Len(s.sessions)
           m   == Len(tabs)
<1>1. s \in AppStates /\ n \in Nat /\ m \in Nat /\ s.sessions \in Seq(Keys)
  BY FieldTypes, LenProperties DEF Sound
<1>2. /\ all \in Seq(Keys) /\ Len(all) = n + m
      /\ \A i \in 1 .. n + m : all[i] = IF i <= n THEN s.sessions[i] ELSE tabs[i - n]
  BY <1>1, ConcatProperties
<1>3. \A i \in 1 .. n : s.sessions[i] \in Range(s.sessions)
  BY <1>1, LenProperties DEF Range
<1> HIDE DEF all
<1>4. t \in AppStates
  BY ZenonT(60), <1>1, <1>2 DEF AppStates
<1>5. /\ t.sessions = all
      /\ t.active = s.active /\ t.activeTabKind = s.activeTabKind
      /\ t.activeSessionIdx = s.activeSessionIdx
      /\ SameQueues(s, t) /\ SameWork(s, t) /\ SameExperiments(s, t) /\ SamePending(s, t)
  BY <1>1 DEF AppStates, SameQueues, SameWork, SameExperiments, SamePending
<1> HIDE DEF t
<1>6. KeysUnique(t)
  <2>1. \A i \in 1 .. n + m : i > n => i - n \in 1 .. m
    BY <1>1
  <2>2. ASSUME NEW i \in 1 .. n, NEW j \in 1 .. n + m, j > n
        PROVE  all[i] # all[j]
    <3>1. i \in 1 .. n + m /\ i <= n /\ ~(j <= n)
      BY <1>1, <2>2
    <3>2. all[i] = s.sessions[i] /\ all[j] = tabs[j - n]
      BY <1>2, <3>1
    <3>3. tabs[j - n] \notin Range(s.sessions)
      BY <2>1, <2>2
    <3> QED
      BY <1>3, <3>2, <3>3
  <2>3. ASSUME NEW i \in 1 .. n + m, NEW j \in 1 .. n + m,
               i > n, j > n, all[i] = all[j]
        PROVE  i = j
    <3>1. ~(i <= n) /\ ~(j <= n)
      BY <1>1, <2>3
    <3>2. all[i] = tabs[i - n] /\ all[j] = tabs[j - n]
      BY <1>2, <3>1
    <3>3. i - n \in 1 .. m /\ j - n \in 1 .. m
      BY <2>1, <2>3
    <3>4. i - n = j - n
      BY <2>3, <3>2, <3>3
    <3> QED
      BY <1>1, <3>4
  <2>4. \A i, j \in 1 .. n : all[i] = all[j] => i = j
    BY <1>1, <1>2 DEF Sound, KeysUnique
  <2>5. \A i, j \in 1 .. n + m : all[i] = all[j] => i = j
    <3> TAKE i, j \in 1 .. n + m
    <3>1. /\ i > n \/ i \in 1 .. n
          /\ j > n \/ j \in 1 .. n
      BY <1>1
    <3> QED
      BY <2>2, <2>3, <2>4, <3>1
  <2> QED
    BY <1>2, <1>5, <2>5 DEF KeysUnique
<1>7. 0 .. n \subseteq 0 .. n + m /\ 1 .. n \subseteq 1 .. n + m
  BY <1>1
<1>8. ActiveTab(t)
  BY <1>1, <1>2, <1>5, <1>7 DEF Sound, ActiveTab
<1>9. TabQueues(t)
  BY <1>2, <1>5, <1>7, QueuesOf DEF TabQueues, SameQueues, SamePending
<1>10. WorkList(t)
  BY <1>2, <1>5, <1>7 DEF Sound, WorkList, ListsTabs, SameWork
<1>11. ExperimentQueues(t)
  BY <1>5 DEF Sound, ExperimentQueues, SameExperiments, SamePending
<1> QED
  BY <1>2, <1>4, <1>5, <1>6, <1>8, <1>9, <1>10, <1>11 DEF Sound, t, all

(* Opening a file: the tab that has it, or a new one. *)
LEMMA OpenInNewTabSound ==
  ASSUME NEW s, Sound(s), NEW key \in Keys
  PROVE  Sound(OpenInNewTab(s, key))
<1> DEFINE longer == [s EXCEPT !.sessions = @ \o <<key>>]
           idx    == Len(s.sessions) + 1
           t      == OpenInNewTab(s, key)
<1>1. s.sessions \in Seq(Keys) /\ Len(s.sessions) \in Nat
  BY FieldTypes DEF Sound
<1>2. CASE key \in Range(s.sessions)
  <2>1. IndexOf(s.sessions, key) \in TabIndices(s)
    BY <1>1, <1>2, IndexOfElement
  <2> QED
    BY <1>2, <2>1, SwapInSessionSound DEF OpenInNewTab
<1>3. CASE key \notin Range(s.sessions)
  <2>1. <<key>> \in Seq(Keys) /\ Len(<<key>>) = 1 /\ <<key>>[1] = key
    OBVIOUS
  <2>2. \A i \in 1 .. Len(<<key>>) : i = 1
    BY <2>1
  <2>3. /\ \A i, j \in 1 .. Len(<<key>>) : <<key>>[i] = <<key>>[j] => i = j
        /\ \A i \in 1 .. Len(<<key>>) : <<key>>[i] \notin Range(s.sessions)
    BY <1>3, <2>1, <2>2
  <2>4. Sound(longer) /\ Len(longer.sessions) = Len(s.sessions) + 1
    BY <2>1, <2>3, MoreTabsSound
  <2>5. Append(s.sessions, key) = s.sessions \o <<key>>
    BY <1>1, AppendIsConcat
  <2>6. t = [SwapInSession(longer, idx) EXCEPT !.pendingOpen = key]
    BY <1>3, <2>5 DEF OpenInNewTab
  <2>7. idx \in TabIndices(longer)
    BY <1>1, <2>4
  <2> DEFINE x == SwapInSession(longer, idx)
  <2> HIDE DEF longer, t
  <2>8. Sound(x)
    BY <2>4, <2>7, SwapInSessionSound
  <2> HIDE DEF x
  <2>9. x \in AppStates
    BY <2>8 DEF Sound
  <2>10. t = [x EXCEPT !.pendingOpen = key]
    BY <2>6 DEF x
  <2>11. t \in AppStates
    BY ZenonT(60), <2>9, <2>10 DEF AppStates
  <2>12. SameStructure(x, t)
    BY <2>9, <2>10
    DEF AppStates, SameStructure, SameTabs, SameQueues, SameWork, SameExperiments, SamePending
  <2>13. Sound(t)
    BY <2>8, <2>11, <2>12, SameStructureSound
  <2> QED
    BY <2>13 DEF t
<1> QED
  BY <1>2, <1>3

(* The project's open sources come back as tabs. *)
LEMMA RestoreOpenEmbeddedTabsSound ==
  ASSUME NEW s, Sound(s), NEW tabs \in ReopenableTabs(s)
  PROVE  Sound(RestoreOpenEmbeddedTabs(s, tabs))
<1>1. CASE tabs = << >>
  <2>1. tabs \in Seq(Keys) /\ Len(tabs) = 0
    BY <1>1
  <2>2. /\ \A i, j \in 1 .. Len(tabs) : tabs[i] = tabs[j] => i = j
        /\ \A i \in 1 .. Len(tabs) : tabs[i] \notin Range(s.sessions)
    BY <2>1
  <2> QED
    BY <2>1, <2>2, MoreTabsSound DEF RestoreOpenEmbeddedTabs
<1>2. ASSUME NEW k \in EmbeddedKeys \ Range(s.sessions), tabs = <<k>>
      PROVE  Sound(RestoreOpenEmbeddedTabs(s, tabs))
  <2>1. tabs \in Seq(Keys) /\ Len(tabs) = 1 /\ tabs[1] = k
    BY <1>2 DEF Keys
  <2>2. \A i \in 1 .. Len(tabs) : i = 1
    BY <2>1
  <2>3. /\ \A i, j \in 1 .. Len(tabs) : tabs[i] = tabs[j] => i = j
        /\ \A i \in 1 .. Len(tabs) : tabs[i] \notin Range(s.sessions)
    BY <1>2, <2>1, <2>2
  <2> QED
    BY <2>1, <2>3, MoreTabsSound DEF RestoreOpenEmbeddedTabs
<1> QED
  BY <1>1, <1>2 DEF ReopenableTabs

(* Loading the chosen file, or taking its blank tab away again. *)
LEMMA ExecutePendingOpenSound ==
  ASSUME NEW s, Sound(s), NEW outcome
  PROVE  Sound(ExecutePendingOpen(s, outcome))
<1> DEFINE r == [s EXCEPT !.pendingOpen = NoTab]
           idx == r.activeSessionIdx
           x == RemoveTab(r, idx)
           loaded == [r EXCEPT !.dirty = @ \ {s.active}, !.stale = @ \ {s.active},
                        !.consent = @ \ {s.active}, !.staleOnDisk = @ \ {s.active},
                        !.pendingWorkspaceAction = "None",
                        !.showUnsavedPrompt = FALSE,
                        !.showStaleDropPrompt = FALSE,
                        !.welcome = FALSE]
           crashed == Crash(r)
           failed == [x EXCEPT !.activeTabKind = "Session"]
           t == ExecutePendingOpen(s, outcome)
<1>1. s \in AppStates
  BY DEF Sound
<1>2. r \in AppStates
  BY ZenonT(60), <1>1 DEF AppStates
<1>3. SameStructure(s, r)
  BY <1>1
  DEF AppStates, SameStructure, SameTabs, SameQueues, SameWork, SameExperiments, SamePending
<1>4. t = IF s.pendingOpen = NoTab \/ outcome = "ignored" THEN r
          ELSE IF outcome = "failed" THEN failed
          ELSE IF s.active = NoTab THEN crashed ELSE loaded
  BY DEF ExecutePendingOpen
<1> HIDE DEF r, t
<1>5. Sound(r)
  BY <1>2, <1>3, SameStructureSound
<1>6. Sound(crashed)
  <2>1. crashed \in AppStates
    BY ZenonT(60), <1>2 DEF Crash, AppStates
  <2>2. SameStructure(r, crashed)
    BY <1>2
    DEF Crash, AppStates, SameStructure, SameTabs, SameQueues, SameWork, SameExperiments,
        SamePending
  <2> HIDE DEF crashed
  <2> QED
    BY <1>5, <2>1, <2>2, SameStructureSound
<1>7. Sound(loaded)
  <2>1. loaded \in AppStates
    BY ZenonT(60), <1>2 DEF AppStates, PendingActions
  <2>2. SameStructure(r, loaded)
    BY <1>2
    DEF AppStates, SameStructure, SameTabs, SameQueues, SameWork, SameExperiments, SamePending
  <2> HIDE DEF loaded
  <2> QED
    BY <1>5, <2>1, <2>2, SameStructureSound
<1>8. Sound(failed)
  <2>1. idx \in 0 .. Len(r.sessions)
    BY <1>5, QueuesOf
  <2>2. Sound(x) /\ x.active = NoTab
    <3>1. CASE idx \in TabIndices(r)
      <4>1. Sound(x)
            /\ x.active = (IF r.active = r.sessions[idx] THEN NoTab ELSE r.active)
        BY <1>5, <3>1, RemoveTabSound
      <4>2. r.active # NoTab => r.active = r.sessions[idx]
        BY <1>5 DEF Sound, ActiveTab
      <4> QED
        BY <4>1, <4>2
    <3>2. CASE idx \notin TabIndices(r)
      <4>1. x = r
        BY <3>2 DEF RemoveTab
      <4>2. r.active = NoTab
        BY <1>5, <3>2 DEF Sound, ActiveTab
      <4> QED
        BY <1>5, <4>1, <4>2
    <3> QED
      BY <3>1, <3>2
  <2> HIDE DEF x
  <2>2a. x \in AppStates
    BY <2>2 DEF Sound
  <2>3. failed \in AppStates
    BY ZenonT(60), <2>2a DEF AppStates, TabKinds
  <2>4. /\ failed.sessions = x.sessions /\ failed.active = NoTab
        /\ failed.activeTabKind = "Session"
        /\ failed.activeSessionIdx = x.activeSessionIdx
        /\ SameQueues(x, failed) /\ SameWork(x, failed) /\ SameExperiments(x, failed)
        /\ SamePending(x, failed)
    BY <2>2, <2>2a DEF AppStates, SameQueues, SameWork, SameExperiments, SamePending
  <2> HIDE DEF failed
  <2>5. KeysUnique(failed) /\ ActiveTab(failed)
    BY <2>2, <2>4 DEF Sound, KeysUnique, ActiveTab
  <2>6. TabQueues(failed)
    BY <2>2, <2>4 DEF Sound, TabQueues, SameQueues, SamePending
  <2>7. WorkList(failed) /\ ExperimentQueues(failed)
    BY <2>2, <2>4
    DEF Sound, WorkList, ExperimentQueues, SameWork, SameExperiments, SamePending
  <2> QED
    BY <2>3, <2>5, <2>6, <2>7 DEF Sound
<1> HIDE DEF crashed, failed, loaded
<1>9. Sound(t)
  BY <1>4, <1>5, <1>6, <1>7, <1>8
<1> QED
  BY <1>9 DEF t

(***************************************************************************)
(* Experiments                                                             *)
(***************************************************************************)

(* More experiments, nothing else that matters. *)
LEMMA MoreExperimentsSound ==
  ASSUME NEW s, NEW t \in AppStates, Sound(s),
         SameTabs(s, t), SameQueues(s, t), SameWork(s, t), SamePending(s, t),
         t.activeExperimentIdx = s.activeExperimentIdx,
         Len(t.experiments) >= Len(s.experiments)
  PROVE  Sound(t)
<1>1. /\ Len(s.experiments) \in Nat /\ Len(t.experiments) \in Nat
      /\ t.pendingSwapIdx \in 0 .. Len(s.sessions)
  BY FieldTypes, QueuesOf DEF SamePending
<1>2. KeysUnique(t) /\ ActiveTab(t) /\ TabQueues(t) /\ WorkList(t)
  BY <1>1, GroupsKept
<1>3. ExperimentQueues(t)
  BY <1>1 DEF Sound, ExperimentQueues, SameTabs, SamePending
<1> QED
  BY <1>2, <1>3 DEF Sound

(* Showing an experiment. *)
LEMMA ActivateExperimentSound ==
  ASSUME NEW s, Sound(s), NEW idx
  PROVE  Sound(ActivateExperiment(s, idx))
<1> DEFINE e     == s.experiments[idx]
           shown == IF e \in s.expHidden
                    THEN [s EXCEPT !.expHidden = @ \ {e}, !.expDirty = @ \cup {e}]
                    ELSE s
           t     == [shown EXCEPT !.pendingExperimentIdx = idx, !.pendingSwapIdx = 0,
                                  !.pendingSwapToSession = FALSE]
<1>1. s \in AppStates
  BY DEF Sound
<1>2. CASE idx \notin ExpIndices(s)
  BY <1>2 DEF ActivateExperiment
<1>3. CASE idx \in ExpIndices(s)
  <2>1. e \in ExpIds /\ idx \in Nat /\ idx \in 0 .. Len(s.experiments)
    BY <1>1, <1>3, FieldTypes
  <2> HIDE DEF e
  <2>2. shown \in AppStates
    <3>1. [s EXCEPT !.expHidden = @ \ {e}, !.expDirty = @ \cup {e}] \in AppStates
      BY ZenonT(60), <1>1, <2>1 DEF AppStates
    <3> QED
      BY <1>1, <3>1
  <2>3. SameStructure(s, shown)
    BY <1>1
    DEF AppStates, SameStructure, SameTabs, SameQueues, SameWork, SameExperiments,
        SamePending
  <2>4. ActivateExperiment(s, idx) = t
    BY <1>3 DEF ActivateExperiment, e
  <2> HIDE DEF shown
  <2>5. Sound(shown)
    BY <2>2, <2>3, SameStructureSound
  <2>6. t \in AppStates
    BY ZenonT(60), <2>1, <2>2 DEF AppStates
  <2>7. /\ SameTabs(shown, t) /\ SameQueues(shown, t) /\ SameWork(shown, t)
        /\ SameExperiments(shown, t)
        /\ t.pendingExperimentIdx = idx /\ t.pendingSwapIdx = 0
    BY <2>2 DEF AppStates, SameTabs, SameQueues, SameWork, SameExperiments
  <2>8. idx \in 0 .. Len(shown.experiments) /\ 0 \in 0 .. Len(shown.sessions)
    BY <2>1, <2>3, <2>5, QueuesOf DEF SameStructure, SameExperiments
  <2> HIDE DEF t
  <2>9. Sound(t)
    BY <2>5, <2>6, <2>7, <2>8, SwitchSound
  <2> QED
    BY <2>4, <2>9
<1> QED
  BY <1>2, <1>3

(* A new experiment. *)
LEMMA CreateExperimentSound ==
  ASSUME NEW s, Sound(s), NEW e \in ExpIds
  PROVE  Sound(CreateExperiment(s, e))
<1> DEFINE all == Append(s.experiments, e)
           t   == [s EXCEPT !.experiments = all, !.expDirty = @ \cup {e}]
<1>1. s \in AppStates /\ s.experiments \in Seq(ExpIds) /\ Len(s.experiments) \in Nat
  BY FieldTypes DEF Sound
<1>2. all \in Seq(ExpIds) /\ Len(all) = Len(s.experiments) + 1
  BY <1>1, AppendProperties
<1>3. CreateExperiment(s, e) = ActivateExperiment(t, Len(s.experiments) + 1)
  BY DEF CreateExperiment
<1> HIDE DEF all
<1>4. t \in AppStates
  BY ZenonT(60), <1>1, <1>2 DEF AppStates
<1>5. /\ SameTabs(s, t) /\ SameQueues(s, t) /\ SameWork(s, t) /\ SamePending(s, t)
      /\ t.activeExperimentIdx = s.activeExperimentIdx /\ t.experiments = all
  BY <1>1 DEF AppStates, SameTabs, SameQueues, SameWork, SamePending
<1> HIDE DEF t
<1>6. Len(t.experiments) >= Len(s.experiments)
  BY <1>1, <1>2, <1>5
<1>7. Sound(t)
  BY <1>4, <1>5, <1>6, MoreExperimentsSound
<1> QED
  BY <1>3, <1>7, ActivateExperimentSound

(* An experiment goes away. *)
LEMMA RemoveExperimentSound ==
  ASSUME NEW s, Sound(s), NEW idx
  PROVE  Sound(RemoveExperiment(s, idx))
<1> DEFINE e       == s.experiments[idx]
           rest    == RemoveAt(s.experiments, idx)
           gone    == s.lost \cup (({e} \cap s.expDirty) \ s.consent)
           n       == Len(s.experiments)
           erased  == [s EXCEPT !.experiments = rest,
                                !.expDirty = @ \ {e}, !.expHidden = @ \ {e},
                                !.expSaved = @ \ {e}, !.lost = gone,
                                !.consent = @ \ {e}]
           x       == Reindex(s.activeExperimentIdx, idx)
           moved   == [erased EXCEPT !.activeExperimentIdx = x]
           refocus == IF s.activeTabKind # "Experiment" THEN erased
                      ELSE IF x = 0 THEN FocusSessionTab(moved) ELSE moved
           listed  == {Reindex(y, idx) : y \in s.exitDirtyExperiments \ {idx}}
           t       == RemoveExperiment(s, idx)
<1>1. s \in AppStates /\ n \in Nat
  BY FieldTypes DEF Sound
<1>2. CASE idx \notin ExpIndices(s)
  BY <1>2 DEF RemoveExperiment
<1>3. CASE idx \in ExpIndices(s)
  <2>1. idx \in Nat /\ idx \in 1 .. n /\ e \in ExpIds /\ s.experiments \in Seq(ExpIds)
    BY <1>1, <1>3, FieldTypes
  <2>2. rest \in Seq(ExpIds) /\ Len(rest) = n - 1
    BY <2>1, RemoveAtElements
  <2>3. \A y \in 0 .. n : Reindex(y, idx) \in 0 .. n - 1
    BY <1>1, <2>1, ReindexBounds
  <2>4. listed \in SUBSET Nat
    <3>1. s.exitDirtyExperiments \in SUBSET Nat
      BY <1>1 DEF AppStates
    <3>2. \A y \in Nat : y # idx => Reindex(y, idx) \in Nat
      BY <2>1 DEF Reindex
    <3> QED
      BY <3>1, <3>2
  <2>5. gone \in SUBSET (Keys \cup ExpIds)
    BY <1>1, <2>1 DEF AppStates
  <2>6. s.activeTabKind = "Experiment" => s.activeExperimentIdx \in 0 .. n
    BY DEF Sound, ExperimentQueues
  <2>7. s.activeTabKind = "Experiment" => x \in 0 .. n - 1 /\ x \in Nat
    BY <2>1, <1>1, <2>3, <2>6
  <2>8. t = [refocus EXCEPT
               !.pendingExperimentIdx = Reindex(@, idx),
               !.exitDirtyExperiments = {Reindex(y, idx) : y \in @ \ {idx}}]
    <3>1. erased = [s EXCEPT !.experiments = RemoveAt(@, idx),
                             !.expDirty = @ \ {e}, !.expHidden = @ \ {e},
                             !.expSaved = @ \ {e},
                             !.lost = @ \cup (({e} \cap s.expDirty) \ s.consent),
                             !.consent = @ \ {e}]
      BY <1>1 DEF AppStates
    <3>2. erased.activeExperimentIdx = s.activeExperimentIdx
      BY <1>1 DEF AppStates
    <3>3. moved.activeExperimentIdx = x
      <4>1. erased \in AppStates
        BY ZenonT(60), <1>1, <2>1, <2>2, <2>5 DEF AppStates
      <4> HIDE DEF erased, x
      <4> QED
        BY <4>1 DEF AppStates
    <3> HIDE DEF erased
    <3> QED
      BY <1>3, <3>1, <3>2, <3>3 DEF RemoveExperiment
  <2> HIDE DEF e, rest, gone, n, x, listed, t
  <2>9. erased \in AppStates
    BY ZenonT(60), <1>1, <2>2, <2>5 DEF AppStates
  <2>10. /\ SameTabs(s, erased) /\ SameQueues(s, erased) /\ SameWork(s, erased)
         /\ SamePending(s, erased) /\ erased.experiments = rest
         /\ erased.activeExperimentIdx = s.activeExperimentIdx
         /\ erased.exitDirtyExperiments = s.exitDirtyExperiments
    BY <1>1 DEF AppStates, SameTabs, SameQueues, SameWork, SamePending
  <2> HIDE DEF erased
  <2>11. s.activeTabKind = "Experiment" => moved \in AppStates
    BY ZenonT(60), <2>7, <2>9 DEF AppStates
  <2>12. /\ SameTabs(erased, moved) /\ SameQueues(erased, moved)
         /\ SameWork(erased, moved) /\ SamePending(erased, moved)
         /\ moved.experiments = rest /\ moved.activeExperimentIdx = x
         /\ moved.exitDirtyExperiments = s.exitDirtyExperiments
    BY <2>9, <2>10 DEF AppStates, SameTabs, SameQueues, SameWork, SamePending
  <2> HIDE DEF moved
  <2>13. /\ refocus \in AppStates
         /\ SameTabs(s, refocus) /\ SameQueues(s, refocus) /\ SameWork(s, refocus)
         /\ refocus.experiments = rest
         /\ s.activeTabKind = "Experiment" => refocus.activeExperimentIdx = x
         /\ refocus.pendingSwapIdx \in {0, s.pendingSwapIdx}
         /\ refocus.pendingExperimentIdx \in {0, s.pendingExperimentIdx}
         /\ refocus.exitDirtyExperiments = s.exitDirtyExperiments
    <3>1. CASE s.activeTabKind # "Experiment"
      BY <2>9, <2>10, <3>1 DEF SamePending
    <3>2. CASE s.activeTabKind = "Experiment" /\ x # 0
      BY <2>10, <2>11, <2>12, <3>2
      DEF SameTabs, SameQueues, SameWork, SamePending
    <3>3. CASE s.activeTabKind = "Experiment" /\ x = 0
      <4> DEFINE f == FocusSessionTab(moved)
      <4>1. moved \in AppStates /\ refocus = f
        BY <2>11, <3>3
      <4>2. f \in AppStates
        BY ZenonT(60), <4>1 DEF FocusSessionTab, AppStates
      <4>3. /\ SameTabs(moved, f) /\ SameQueues(moved, f) /\ SameWork(moved, f)
            /\ f.experiments = moved.experiments
            /\ f.activeExperimentIdx = moved.activeExperimentIdx
            /\ f.pendingSwapIdx = 0 /\ f.pendingExperimentIdx = 0
            /\ f.exitDirtyExperiments = moved.exitDirtyExperiments
        BY <4>1 DEF FocusSessionTab, AppStates, SameTabs, SameQueues, SameWork
      <4> HIDE DEF f
      <4> QED
        BY <2>10, <2>12, <4>1, <4>2, <4>3 DEF SameTabs, SameQueues, SameWork
    <3> QED
      BY <3>1, <3>2, <3>3
  <2> HIDE DEF refocus
  <2> DEFINE p == Reindex(refocus.pendingExperimentIdx, idx)
  <2>14. p \in 0 .. n - 1 /\ p \in Nat
    <3>1. refocus.pendingExperimentIdx \in 0 .. n
      BY <2>13, QueuesOf DEF n
    <3> QED
      BY SMTT(30), <1>1, <2>1, <2>3, <3>1
  <2>15. t = [refocus EXCEPT !.pendingExperimentIdx = p, !.exitDirtyExperiments = listed]
    BY <2>8, <2>13 DEF AppStates, listed
  <2> HIDE DEF p
  <2>16. t \in AppStates
    BY ZenonT(60), <2>4, <2>13, <2>14, <2>15 DEF AppStates
  <2>17. /\ SameTabs(refocus, t) /\ SameQueues(refocus, t) /\ SameWork(refocus, t)
         /\ t.experiments = rest
         /\ t.activeExperimentIdx = refocus.activeExperimentIdx
         /\ t.pendingSwapIdx = refocus.pendingSwapIdx /\ t.pendingExperimentIdx = p
    BY <2>13, <2>15 DEF AppStates, SameTabs, SameQueues, SameWork
  <2>18. /\ SameTabs(s, t) /\ SameQueues(s, t) /\ SameWork(s, t)
         /\ t.pendingSwapIdx \in 0 .. Len(s.sessions)
    BY <2>13, <2>17, QueuesOf DEF SameTabs, SameQueues, SameWork
  <2>19. KeysUnique(t) /\ ActiveTab(t) /\ TabQueues(t) /\ WorkList(t)
    BY <2>18, GroupsKept
  <2>20. ExperimentQueues(t)
    BY <2>2, <2>7, <2>13, <2>14, <2>17 DEF ExperimentQueues, SameTabs
  <2> QED
    BY <2>16, <2>19, <2>20 DEF Sound, t
<1> QED
  BY <1>2, <1>3

(* Closing an experiment's tab only hides it. *)
LEMMA CloseRequestSound ==
  ASSUME NEW s, Sound(s), NEW idx \in ExpIndices(s)
  PROVE  Sound(CloseRequest(s, idx))
<1> DEFINE e      == s.experiments[idx]
           hidden == [s EXCEPT !.expHidden = @ \cup {e}, !.expDirty = @ \cup {e}]
<1>1. s \in AppStates /\ e \in ExpIds
  BY FieldTypes DEF Sound
<1> HIDE DEF e
<1>2. hidden \in AppStates
  BY ZenonT(60), <1>1 DEF AppStates
<1>3. SameStructure(s, hidden)
  BY <1>1
  DEF AppStates, SameStructure, SameTabs, SameQueues, SameWork, SameExperiments, SamePending
<1>4. CloseRequest(s, idx) = FocusSessionTab(IF e \in s.expHidden THEN s ELSE hidden)
  BY DEF CloseRequest, e
<1> HIDE DEF hidden
<1>5. Sound(hidden)
  BY <1>2, <1>3, SameStructureSound
<1> QED
  BY <1>4, <1>5, FocusSessionTabSound

(* Deleting an experiment asks first or is done at once. *)
LEMMA RequestDeleteSound ==
  ASSUME NEW s, Sound(s), NEW idx \in ExpIndices(s)
  PROVE  Sound(RequestDelete(s, idx))
<1> DEFINE asked == [s EXCEPT !.pendingExperimentDeleteIdx = idx]
<1>1. s \in AppStates /\ idx \in Nat
  BY FieldTypes DEF Sound
<1>2. asked \in AppStates
  BY ZenonT(60), <1>1 DEF AppStates
<1>3. SameStructure(s, asked)
  BY <1>1
  DEF AppStates, SameStructure, SameTabs, SameQueues, SameWork, SameExperiments, SamePending
<1>4. RequestDelete(s, idx) \in {asked, RemoveExperiment(s, idx)}
  BY DEF RequestDelete
<1> HIDE DEF asked
<1>5. Sound(asked)
  BY <1>2, <1>3, SameStructureSound
<1>6. Sound(RemoveExperiment(s, idx))
  BY RemoveExperimentSound
<1> QED
  BY <1>4, <1>5, <1>6

(* The experiments of a project are dropped. *)
LEMMA ClearExperimentsSound ==
  ASSUME NEW s, Sound(s)
  PROVE  /\ Sound(ClearExperiments(s))
         /\ ClearExperiments(s).sessions = s.sessions
<1> DEFINE k == IF s.activeTabKind = "Experiment" THEN "Session" ELSE s.activeTabKind
           kept == s.consent \cap Keys
           gone == s.lost \cup (s.expDirty \ s.consent)
           t == [s EXCEPT !.experiments = << >>, !.expDirty = {}, !.expHidden = {},
                          !.expSaved = {}, !.consent = kept, !.lost = gone,
                          !.activeExperimentIdx = 0, !.pendingExperimentIdx = 0,
                          !.activeTabKind = k]
<1>1. s \in AppStates
  BY DEF Sound
<1>2. k \in TabKinds
  BY <1>1, FieldTypes DEF TabKinds
<1>2a. /\ kept \in SUBSET (Keys \cup ExpIds) /\ gone \in SUBSET (Keys \cup ExpIds)
       /\ << >> \in Seq(ExpIds)
  BY <1>1 DEF AppStates
<1>3. ClearExperiments(s) = t
  BY DEF ClearExperiments
<1> HIDE DEF k, kept, gone
<1>4. t \in AppStates
  BY ZenonT(60), <1>1, <1>2, <1>2a DEF AppStates
<1>5. /\ t.sessions = s.sessions /\ t.active = s.active /\ t.activeTabKind = k
      /\ t.activeSessionIdx = s.activeSessionIdx
      /\ SameQueues(s, t) /\ SameWork(s, t)
      /\ t.pendingSwapIdx = s.pendingSwapIdx
      /\ t.experiments = << >> /\ t.activeExperimentIdx = 0
      /\ t.pendingExperimentIdx = 0
  BY <1>1 DEF AppStates, SameQueues, SameWork
<1> HIDE DEF t
<1>6. KeysUnique(t) /\ WorkList(t)
  BY <1>5 DEF Sound, KeysUnique, WorkList, SameWork
<1>7. ActiveTab(t)
  BY <1>5 DEF Sound, ActiveTab, k
<1>8. TabQueues(t)
  BY <1>5, QueuesOf DEF TabQueues, SameQueues
<1>9. ExperimentQueues(t)
  BY <1>5 DEF ExperimentQueues
<1> QED
  BY <1>3, <1>4, <1>5, <1>6, <1>7, <1>8, <1>9 DEF Sound

(* The saved experiments of a project come in. *)
LEMMA LoadExperimentsSound ==
  ASSUME NEW s, Sound(s), NEW saved \in Seq(ExpIds)
  PROVE  /\ Sound(LoadExperiments(s, saved))
         /\ LoadExperiments(s, saved).sessions = s.sessions
<1> DEFINE all == s.experiments \o saved
           new == Range(saved)
           t   == [s EXCEPT !.experiments = all, !.expSaved = @ \cup new]
<1>1. s \in AppStates /\ s.experiments \in Seq(ExpIds) /\ Len(s.experiments) \in Nat
      /\ Len(saved) \in Nat
  BY FieldTypes, LenProperties DEF Sound
<1>2. all \in Seq(ExpIds) /\ Len(all) = Len(s.experiments) + Len(saved)
  BY <1>1, ConcatProperties
<1>3. new \in SUBSET ExpIds
  <2>1. \A i \in DOMAIN saved : saved[i] \in ExpIds
    BY ElementOfSeq, LenProperties
  <2> QED
    BY <2>1 DEF Range
<1>4. LoadExperiments(s, saved) = t
  BY DEF LoadExperiments
<1> HIDE DEF all, new
<1>5. t \in AppStates
  BY ZenonT(60), <1>1, <1>2, <1>3 DEF AppStates
<1>6. /\ SameTabs(s, t) /\ SameQueues(s, t) /\ SameWork(s, t) /\ SamePending(s, t)
      /\ t.activeExperimentIdx = s.activeExperimentIdx /\ t.experiments = all
  BY <1>1 DEF AppStates, SameTabs, SameQueues, SameWork, SamePending
<1> HIDE DEF t
<1>7. Len(t.experiments) >= Len(s.experiments)
  BY <1>1, <1>2, <1>6
<1>8. Sound(t)
  BY <1>5, <1>6, <1>7, MoreExperimentsSound
<1> QED
  BY <1>4, <1>6, <1>8 DEF SameTabs

(* A bulk save of experiments changes no list. *)
LEMMA SaveExperimentsTyped ==
  ASSUME NEW s \in AppStates, NEW listed, NEW n
  PROVE  /\ SaveExperiments(s, listed, n) \in AppStates
         /\ SameStructure(s, SaveExperiments(s, listed, n))
<1> DEFINE chosen(upTo) ==
             {s.experiments[i] : i \in listed \cap ExpIndices(s) \cap 1 .. upTo}
             \cap s.expDirty
           a == chosen(n)
           b == chosen(n + 1)
           t == [s EXCEPT !.expDirty = @ \ a, !.expSaved = @ \cup b]
<1>1. b \in SUBSET ExpIds
  BY DEF AppStates
<1>2. SaveExperiments(s, listed, n) = t
  BY DEF SaveExperiments
<1> HIDE DEF a, b
<1>3. t \in AppStates
  BY ZenonT(60), <1>1 DEF AppStates
<1>4. SameStructure(s, t)
  BY DEF AppStates, SameStructure, SameTabs, SameQueues, SameWork, SameExperiments, SamePending
<1> HIDE DEF t
<1> QED
  BY <1>2, <1>3, <1>4

(* So it keeps the invariant. *)
LEMMA SaveExperimentsSound ==
  ASSUME NEW s, Sound(s), NEW listed, NEW n
  PROVE  Sound(SaveExperiments(s, listed, n))
  BY SaveExperimentsTyped, SameStructureSound DEF Sound

(* Opening a project. *)
LEMMA OpenProjectSound ==
  ASSUME NEW s, Sound(s), NEW outcome \in ProjectOutcomes,
         NEW saved \in Seq(ExpIds), NEW tabs \in ReopenableTabs(s)
  PROVE  Sound(OpenProject(s, outcome, saved, tabs))
<1> DEFINE c       == ClearExperiments(s)
           cleared == [c EXCEPT !.multiWorkspaceOpen = TRUE]
           l       == LoadExperiments(cleared, saved)
<1>1. Sound(c) /\ c.sessions = s.sessions /\ c \in AppStates
  BY ClearExperimentsSound DEF Sound
<1>2. OpenProject(s, outcome, saved, tabs) =
        CASE outcome = "unreadable" -> s
          [] outcome = "experimentsUnreadable" -> cleared
          [] outcome = "opened" -> RestoreOpenEmbeddedTabs(l, tabs)
  BY DEF OpenProject
<1> HIDE DEF c
<1>3. cleared \in AppStates
  BY ZenonT(60), <1>1 DEF AppStates
<1>4. SameStructure(c, cleared)
  BY <1>1
  DEF AppStates, SameStructure, SameTabs, SameQueues, SameWork, SameExperiments, SamePending
<1> HIDE DEF cleared
<1>5. Sound(cleared) /\ cleared.sessions = s.sessions
  BY <1>1, <1>3, <1>4, SameStructureSound DEF SameStructure, SameTabs
<1>6. Sound(l) /\ l.sessions = s.sessions
  BY <1>5, LoadExperimentsSound
<1> HIDE DEF l
<1>7. Sound(RestoreOpenEmbeddedTabs(l, tabs))
  <2>1. tabs \in ReopenableTabs(l)
    BY <1>6 DEF ReopenableTabs
  <2> QED
    BY <1>6, <2>1, RestoreOpenEmbeddedTabsSound
<1> QED
  BY <1>2, <1>5, <1>7 DEF ProjectOutcomes

(***************************************************************************)
(* Saving                                                                  *)
(***************************************************************************)

(* Going through a null pointer ends the program. *)
LEMMA CrashSound ==
  ASSUME NEW s, Sound(s)
  PROVE  Sound(Crash(s))
<1>1. s \in AppStates
  BY DEF Sound
<1>2. Crash(s) \in AppStates
  BY ZenonT(60), <1>1 DEF Crash, AppStates
<1>3. SameStructure(s, Crash(s))
  BY <1>1
  DEF Crash, AppStates, SameStructure, SameTabs, SameQueues, SameWork, SameExperiments,
      SamePending
<1> QED
  BY <1>2, <1>3, SameStructureSound

(* Saving the active tab. *)
LEMMA DoSaveWorkspaceSound ==
  ASSUME NEW s, Sound(s)
  PROVE  Sound(DoSaveWorkspace(s)) /\ SameStructure(s, DoSaveWorkspace(s))
<1>1. s \in AppStates
  BY DEF Sound
<1>2. DoSaveWorkspace(s) \in AppStates
  BY ZenonT(60), <1>1 DEF DoSaveWorkspace, AppStates
<1>3. SameStructure(s, DoSaveWorkspace(s))
  BY <1>1
  DEF DoSaveWorkspace, AppStates, SameStructure, SameTabs, SameQueues, SameWork,
      SameExperiments, SamePending
<1> QED
  BY <1>2, <1>3, SameStructureSound

(* Saving everything. *)
LEMMA SaveEverythingSound ==
  ASSUME NEW s, Sound(s), NEW m, NEW n
  PROVE  Sound(SaveEverything(s, m, n))
<1> DEFINE written == {s.sessions[i] : i \in 1 .. m} \cap s.dirty
           more    == s.staleOnDisk \cup (written \cap s.stale)
           tabs    == [s EXCEPT !.dirty = @ \ written, !.staleOnDisk = more]
<1>1. s \in AppStates
  BY DEF Sound
<1>2. more \in SUBSET Keys
  BY <1>1 DEF AppStates
<1>3. SaveEverything(s, m, n) \in {tabs, SaveExperiments(tabs, ExpIndices(s), n)}
  BY DEF SaveEverything
<1> HIDE DEF written, more
<1>4. tabs \in AppStates
  BY ZenonT(60), <1>1, <1>2 DEF AppStates
<1>5. SameStructure(s, tabs)
  BY <1>1
  DEF AppStates, SameStructure, SameTabs, SameQueues, SameWork, SameExperiments, SamePending
<1> HIDE DEF tabs
<1>6. Sound(tabs)
  BY <1>4, <1>5, SameStructureSound
<1>7. Sound(SaveExperiments(tabs, ExpIndices(s), n))
  BY <1>6, SaveExperimentsSound
<1> QED
  BY <1>3, <1>6, <1>7

(* The queued save at frame top. *)
LEMMA ExecutePendingSaveSound ==
  ASSUME NEW s, Sound(s), NEW saved, NEW m, NEW n
  PROVE  Sound(ExecutePendingSave(s, saved, m, n))
<1> DEFINE r == [s EXCEPT !.pendingSaveKind = "None"]
<1>1. s \in AppStates /\ s.pendingSaveKind \in PendingSaveKinds
  BY DEF Sound, AppStates
<1>2. r \in AppStates
  BY ZenonT(60), <1>1 DEF AppStates, PendingSaveKinds
<1>3. SameStructure(s, r)
  BY <1>1
  DEF AppStates, SameStructure, SameTabs, SameQueues, SameWork, SameExperiments, SamePending
<1>4. ExecutePendingSave(s, saved, m, n) =
        CASE s.pendingSaveKind = "None" -> s
          [] s.pendingSaveKind = "Everything" -> SaveEverything(r, m, n)
          [] s.pendingSaveKind = "Workspace" ->
               IF s.active = NoTab THEN Crash(r)
               ELSE IF saved THEN DoSaveWorkspace(r) ELSE r
  BY DEF ExecutePendingSave
<1> HIDE DEF r
<1>5. Sound(r)
  BY <1>2, <1>3, SameStructureSound
<1>6. Sound(SaveEverything(r, m, n)) /\ Sound(Crash(r)) /\ Sound(DoSaveWorkspace(r))
  BY <1>5, SaveEverythingSound, CrashSound, DoSaveWorkspaceSound
<1> QED
  BY <1>1, <1>4, <1>5, <1>6 DEF PendingSaveKinds

(* Ctrl+S. *)
LEMMA RequestSaveEverythingSound ==
  ASSUME NEW s, Sound(s)
  PROVE  Sound(RequestSaveEverything(s))
<1> DEFINE r == [s EXCEPT !.pendingSaveKind = "Everything"]
<1>1. s \in AppStates
  BY DEF Sound
<1>2. r \in AppStates
  BY ZenonT(60), <1>1 DEF AppStates, PendingSaveKinds
<1>3. SameStructure(s, r)
  BY <1>1
  DEF AppStates, SameStructure, SameTabs, SameQueues, SameWork, SameExperiments, SamePending
<1>4. RequestSaveEverything(s) \in {r, s}
  BY DEF RequestSaveEverything
<1> HIDE DEF r
<1> QED
  BY <1>2, <1>3, <1>4, SameStructureSound

(* Ctrl+Shift+S. *)
LEMMA RequestSaveAsSound ==
  ASSUME NEW s, Sound(s)
  PROVE  Sound(RequestSaveAs(s))
<1> DEFINE r == [s EXCEPT !.pendingSaveKind = "Workspace"]
           q == [s EXCEPT !.showStaleDropPrompt = TRUE]
<1>1. s \in AppStates
  BY DEF Sound
<1>2. r \in AppStates /\ q \in AppStates
  BY ZenonT(60), <1>1 DEF AppStates, PendingSaveKinds
<1>3. SameStructure(s, r) /\ SameStructure(s, q)
  BY <1>1
  DEF AppStates, SameStructure, SameTabs, SameQueues, SameWork, SameExperiments, SamePending
<1>4. RequestSaveAs(s) \in {r, q, Crash(s), s}
  BY DEF RequestSaveAs
<1> HIDE DEF r, q
<1> QED
  BY <1>2, <1>3, <1>4, SameStructureSound, CrashSound

(***************************************************************************)
(* What waits for an answer                                                *)
(***************************************************************************)

(* Leaving the welcome screen. *)
LEMMA WelcomeSound ==
  ASSUME NEW s, Sound(s)
  PROVE  Sound([s EXCEPT !.welcome = FALSE])
<1> DEFINE t == [s EXCEPT !.welcome = FALSE]
<1>1. s \in AppStates
  BY DEF Sound
<1>2. t \in AppStates
  BY ZenonT(60), <1>1 DEF AppStates
<1>3. SameStructure(s, t)
  BY <1>1
  DEF AppStates, SameStructure, SameTabs, SameQueues, SameWork, SameExperiments, SamePending
<1> HIDE DEF t
<1>4. Sound(t)
  BY <1>2, <1>3, SameStructureSound
<1> QED
  BY <1>4 DEF t

(* The action that waited is carried out. *)
LEMMA DispatchPendingActionSound ==
  ASSUME NEW s, Sound(s), NEW outcome \in ProjectOutcomes,
         NEW saved \in Seq(ExpIds), NEW tabs \in ReopenableTabs(s)
  PROVE  Sound(DispatchPendingAction(s, outcome, saved, tabs))
<1> DEFINE r == [s EXCEPT !.pendingWorkspaceAction = "None",
                          !.showUnsavedPrompt = FALSE, !.showStaleDropPrompt = FALSE]
           p == OpenProject(r, outcome, saved, tabs)
           f == FocusSessionTab(p)
<1>1. s \in AppStates /\ s.pendingWorkspaceAction \in PendingActions
  BY DEF Sound, AppStates
<1>2. r \in AppStates
  BY ZenonT(60), <1>1 DEF AppStates, PendingActions
<1>3. SameStructure(s, r)
  BY <1>1
  DEF AppStates, SameStructure, SameTabs, SameQueues, SameWork, SameExperiments, SamePending
<1>4. DispatchPendingAction(s, outcome, saved, tabs) =
        CASE s.pendingWorkspaceAction = "None" -> s
          [] s.pendingWorkspaceAction = "CloseWorkspace" ->
               CloseTab(r, r.activeSessionIdx)
          [] s.pendingWorkspaceAction = "OpenMultiWorkspace" ->
               IF outcome # "opened" THEN p ELSE [f EXCEPT !.welcome = FALSE]
  BY DEF DispatchPendingAction
<1> HIDE DEF r
<1>5. Sound(r)
  BY <1>2, <1>3, SameStructureSound
<1>6. tabs \in ReopenableTabs(r)
  BY <1>3 DEF ReopenableTabs, SameStructure, SameTabs
<1>7. Sound(p)
  BY <1>5, <1>6, OpenProjectSound
<1> HIDE DEF p
<1>8. Sound(f)
  BY <1>7, FocusSessionTabSound
<1> HIDE DEF f
<1>9. Sound([f EXCEPT !.welcome = FALSE])
  BY <1>8, WelcomeSound
<1>10. Sound(CloseTab(r, r.activeSessionIdx))
  BY <1>5, CloseTabSound
<1> QED
  BY <1>1, <1>4, <1>7, <1>9, <1>10 DEF PendingActions

(* Replacing the project. *)
LEMMA RequestReplaceProjectSound ==
  ASSUME NEW s, Sound(s), NEW outcome \in ProjectOutcomes,
         NEW saved \in Seq(ExpIds), NEW tabs \in ReopenableTabs(s)
  PROVE  Sound(RequestReplaceProject(s, outcome, saved, tabs))
<1> DEFINE r == [s EXCEPT !.pendingWorkspaceAction = "OpenMultiWorkspace"]
           q == [r EXCEPT !.showUnsavedPrompt = TRUE]
<1>1. s \in AppStates
  BY DEF Sound
<1>2. r \in AppStates
  BY ZenonT(60), <1>1 DEF AppStates, PendingActions
<1>3. SameStructure(s, r)
  BY <1>1
  DEF AppStates, SameStructure, SameTabs, SameQueues, SameWork, SameExperiments, SamePending
<1>4. RequestReplaceProject(s, outcome, saved, tabs)
        \in {q, DispatchPendingAction(r, outcome, saved, tabs)}
  BY DEF RequestReplaceProject
<1> HIDE DEF r
<1>5. Sound(r)
  BY <1>2, <1>3, SameStructureSound
<1>6. tabs \in ReopenableTabs(r)
  BY <1>3 DEF ReopenableTabs, SameStructure, SameTabs
<1>7. q \in AppStates
  BY ZenonT(60), <1>2 DEF AppStates
<1>8. SameStructure(r, q)
  BY <1>2
  DEF AppStates, SameStructure, SameTabs, SameQueues, SameWork, SameExperiments, SamePending
<1> HIDE DEF q
<1> QED
  BY <1>4, <1>5, <1>6, <1>7, <1>8, SameStructureSound, DispatchPendingActionSound

(***************************************************************************)
(* Going home and closing the window                                       *)
(***************************************************************************)

(* A collected list names dirty tabs, each once. *)
LEMMA OrdersListTabs ==
  ASSUME NEW s, Sound(s), NEW order \in DirtyTabOrders(s)
  PROVE  order \in Seq(Nat) /\ ListsTabs(order, Len(s.sessions))
<1> DEFINE D == DirtyTabIndices(s)
           c == Cardinality(D)
           n == Len(s.sessions)
           before(i, j) == \/ i = s.activeSessionIdx /\ j # i
                           \/ i < j /\ j # s.activeSessionIdx
<1>1. n \in Nat
  BY FieldTypes DEF Sound
<1>2. D \subseteq 1 .. n
  BY DEF DirtyTabIndices
<1>3. IsFiniteSet(D)
  <2>1. IsFiniteSet(1 .. n)
    BY <1>1, FS_Interval
  <2> HIDE DEF D, n
  <2> QED
    BY <1>2, <2>1, FS_Subset
<1>4. c \in Nat
  BY <1>3, FS_CardinalityType
<1>5. /\ order \in [1 .. c -> D]
      /\ \A i, j \in 1 .. c : i < j => before(order[i], order[j])
  BY DEF DirtyTabOrders
<1> HIDE DEF D, c, n
<1>6. order \in Seq(Nat) /\ Len(order) = c
  <2>1. ASSUME NEW i \in 1 .. c PROVE order[i] \in Nat
    <3>1. order[i] \in 1 .. n
      BY <1>2, <1>5
    <3> QED
      BY <1>1, <3>1
  <2>2. order \in [1 .. c -> Nat]
    BY <1>5, <2>1
  <2> QED
    BY <1>4, <2>2, SeqDef, LenProperties
<1>7. \A j \in 1 .. c : order[j] \in 1 .. n
  BY <1>2, <1>5
<1>8. \A i, j \in 1 .. c : order[i] = order[j] => i = j
  <2> SUFFICES ASSUME NEW i \in 1 .. c, NEW j \in 1 .. c, i < j
               PROVE  order[i] # order[j]
    BY <1>4
  <2>1. before(order[i], order[j])
    BY <1>5
  <2>2. order[i] \in Int /\ order[j] \in Int
    BY <1>1, <1>7
  <2> QED
    BY <2>1, <2>2
<1> QED
  BY <1>6, <1>7, <1>8 DEF ListsTabs, n

(* Tabs, queues and experiments stay; the work list is a new sound one. *)
LEMMA WorkListSound ==
  ASSUME NEW s, NEW t \in AppStates, Sound(s),
         SameTabs(s, t), SameQueues(s, t), SameExperiments(s, t), SamePending(s, t),
         WorkList(t)
  PROVE  Sound(t)
<1>1. KeysUnique(t) /\ ActiveTab(t) /\ TabQueues(t) /\ ExperimentQueues(t)
  BY GroupsKept, QueuesOf DEF SamePending
<1> QED
  BY <1>1 DEF Sound

(* The exit modal comes up with what was collected. *)
LEMMA ShowExitModalSound ==
  ASSUME NEW s, Sound(s), ~s.exitSaveAllRunning, NEW order \in DirtyTabOrders(s)
  PROVE  Sound(ShowExitModal(s, order))
<1> DEFINE exps == DirtyExperimentIndices(s)
           t    == ShowExitModal(s, order)
<1>1. s \in AppStates
  BY DEF Sound
<1>2. order \in Seq(Nat) /\ ListsTabs(order, Len(s.sessions))
  BY OrdersListTabs
<1>3. exps \in SUBSET Nat
  BY <1>1, FieldTypes DEF DirtyExperimentIndices
<1>4. t = [s EXCEPT !.exitDirtyTabs = order, !.exitDirtyExperiments = exps,
                    !.showExitDirtyModal = TRUE]
  BY DEF ShowExitModal
<1> HIDE DEF exps, t
<1>5. t \in AppStates
  BY ZenonT(60), <1>1, <1>2, <1>3, <1>4 DEF AppStates
<1>6. /\ SameTabs(s, t) /\ SameQueues(s, t) /\ SameExperiments(s, t) /\ SamePending(s, t)
      /\ t.exitDirtyTabs = order /\ t.exitSaveAllRunning = s.exitSaveAllRunning
  BY <1>1, <1>4 DEF AppStates, SameTabs, SameQueues, SameExperiments, SamePending
<1>7. WorkList(t)
  BY <1>2, <1>6 DEF WorkList, SameTabs
<1>8. Sound(t)
  BY <1>5, <1>6, <1>7, WorkListSound
<1> QED
  BY <1>8 DEF t

(* Ctrl+H. *)
LEMMA RequestGoHomeSound ==
  ASSUME NEW s, Sound(s), NEW order \in DirtyTabOrders(s)
  PROVE  Sound(RequestGoHome(s, order))
<1> DEFINE home == [s EXCEPT !.pendingGoHome = TRUE, !.exitDirtyExperiments = {}]
           m    == ShowExitModal(s, order)
           t    == [m EXCEPT !.exitTargetIsGoHome = TRUE]
<1>1. s \in AppStates
  BY DEF Sound
<1>2. home \in AppStates
  BY ZenonT(60), <1>1 DEF AppStates
<1>3. SameStructure(s, home)
  BY <1>1
  DEF AppStates, SameStructure, SameTabs, SameQueues, SameWork, SameExperiments, SamePending
<1>4. RequestGoHome(s, order) =
        IF DirtyFlowPending(s) \/ s.welcome THEN s
        ELSE IF NothingCollected(s) THEN home ELSE t
  BY DEF RequestGoHome
<1> HIDE DEF home, m
<1>5. Sound(home)
  BY <1>2, <1>3, SameStructureSound
<1>6. ASSUME ~DirtyFlowPending(s) PROVE Sound(t)
  <2>1. Sound(m) /\ m \in AppStates
    BY <1>6, ShowExitModalSound DEF DirtyFlowPending, Sound, m
  <2>2. t \in AppStates
    BY ZenonT(60), <2>1 DEF AppStates
  <2>3. SameStructure(m, t)
    BY <2>1
    DEF AppStates, SameStructure, SameTabs, SameQueues, SameWork, SameExperiments,
        SamePending
  <2> HIDE DEF t
  <2> QED
    BY <2>1, <2>2, <2>3, SameStructureSound
<1> QED
  BY <1>4, <1>5, <1>6

(* The welcome screen, when every tab is gone. *)
LEMMA FinishGoHomeSound ==
  ASSUME NEW s, Sound(s), s.sessions = << >>
  PROVE  Sound(FinishGoHome(s))
<1> DEFINE c == ClearExperiments(s)
           t == [c EXCEPT !.exitDirtyTabs = << >>, !.exitDirtyExperiments = {},
                          !.lastActiveSessionIdx = 0, !.welcome = TRUE]
<1>1. Sound(c) /\ c \in AppStates /\ c.sessions = << >>
  BY ClearExperimentsSound DEF Sound
<1>2. FinishGoHome(s) = t
  BY DEF FinishGoHome
<1> HIDE DEF c
<1>3. Len(c.exitDirtyTabs) = 0 /\ Len(c.sessions) = 0
  <2>1. Len(c.sessions) = 0 /\ Len(c.exitDirtyTabs) \in Nat
    BY <1>1, FieldTypes
  <2>2. \A j \in 1 .. Len(c.exitDirtyTabs) : c.exitDirtyTabs[j] \in 1 .. 0
    BY <1>1, <2>1 DEF Sound, WorkList, ListsTabs
  <2> QED
    BY <2>1, <2>2
<1>4. t \in AppStates
  <2>1. << >> \in Seq(Nat)
    OBVIOUS
  <2> QED
    BY ZenonT(60), <1>1, <2>1 DEF AppStates
<1>5. /\ SameTabs(c, t) /\ SameExperiments(c, t) /\ SamePending(c, t)
      /\ t.lastActiveSessionIdx = 0
      /\ t.pendingCloseAfterSwap = c.pendingCloseAfterSwap
      /\ t.pendingTabCloseIdx = c.pendingTabCloseIdx
      /\ t.pendingRemoveIdx = c.pendingRemoveIdx
      /\ t.exitDirtyTabs = << >> /\ t.exitSaveAllRunning = c.exitSaveAllRunning
      /\ t.exitSaveAllCursor = c.exitSaveAllCursor
      /\ t.showExitDirtyModal = c.showExitDirtyModal
  BY <1>1 DEF AppStates, SameTabs, SameExperiments, SamePending
<1> HIDE DEF t
<1>6. KeysUnique(t) /\ ActiveTab(t) /\ ExperimentQueues(t)
  BY <1>1, <1>5, GroupsKept, QueuesOf DEF SamePending
<1>7. TabQueues(t)
  BY <1>1, <1>5, QueuesOf DEF TabQueues, SamePending, SameTabs
<1>8. WorkList(t)
  BY <1>1, <1>3, <1>5 DEF Sound, WorkList, ListsTabs
<1> QED
  BY <1>2, <1>4, <1>6, <1>7, <1>8 DEF Sound

(* Save All gives up, whatever its cursor. *)
LEMMA AbandonSaveAllSound ==
  ASSUME NEW s, NEW w \in AppStates, Sound(s),
         SameTabs(s, w), SameQueues(s, w), SameExperiments(s, w), SamePending(s, w)
  PROVE  Sound(AbandonSaveAll(w))
<1> DEFINE t == AbandonSaveAll(w)
<1>1. t \in AppStates
  <2>1. << >> \in Seq(Nat)
    OBVIOUS
  <2> QED
    BY ZenonT(60), <2>1 DEF AbandonSaveAll, AppStates
<1>2. /\ SameTabs(w, t) /\ SameQueues(w, t) /\ SameExperiments(w, t) /\ SamePending(w, t)
      /\ t.exitDirtyTabs = << >> /\ t.exitSaveAllRunning = FALSE
  BY DEF AbandonSaveAll, AppStates, SameTabs, SameQueues, SameExperiments, SamePending
<1> HIDE DEF t
<1>3. /\ SameTabs(s, t) /\ SameQueues(s, t) /\ SameExperiments(s, t) /\ SamePending(s, t)
  BY <1>2 DEF SameTabs, SameQueues, SameExperiments, SamePending
<1>4. WorkList(t)
  BY <1>2 DEF WorkList, ListsTabs
<1>5. Sound(t)
  BY <1>1, <1>3, <1>4, WorkListSound
<1> QED
  BY <1>5 DEF t

(* The tabs are saved: the experiments, then home or out. *)
LEMMA FinishSaveAllSound ==
  ASSUME NEW s, Sound(s), NEW n
  PROVE  Sound(FinishSaveAll(s, n))
<1> DEFINE listed  == s.exitDirtyExperiments \cap ExpIndices(s)
           up      == s.exitSaveAllCursor + 1
           passed  == [s EXCEPT !.exitSaveAllCursor = up]
           saved   == SaveExperiments(passed, listed, n)
           written == IF s.multiWorkspaceOpen THEN saved ELSE passed
           off     == {s.experiments[i] : i \in listed}
           quit    == AbandonSaveAll(written)
           done    == [quit EXCEPT !.expDirty = @ \ off]
           home    == [done EXCEPT !.pendingGoHome = TRUE]
           out     == [done EXCEPT !.shouldClose = TRUE]
<1>1. s \in AppStates
  BY DEF Sound
<1>2. passed \in AppStates
  <2>1. up \in Nat
    BY <1>1, FieldTypes
  <2> HIDE DEF up
  <2> QED
    BY ZenonT(60), <1>1, <2>1 DEF AppStates
<1>3. /\ SameTabs(s, passed) /\ SameQueues(s, passed)
      /\ SameExperiments(s, passed) /\ SamePending(s, passed)
  BY <1>1 DEF AppStates, SameTabs, SameQueues, SameExperiments, SamePending
<1>4. FinishSaveAll(s, n) \in {quit, home, out}
  BY DEF FinishSaveAll
<1> HIDE DEF listed, passed, off
<1>5. saved \in AppStates /\ SameStructure(passed, saved)
  BY <1>2, SaveExperimentsTyped
<1> HIDE DEF saved
<1>6. /\ written \in AppStates
      /\ SameTabs(s, written) /\ SameQueues(s, written)
      /\ SameExperiments(s, written) /\ SamePending(s, written)
  BY <1>2, <1>3, <1>5
  DEF SameStructure, SameTabs, SameQueues, SameExperiments, SamePending
<1> HIDE DEF written
<1>7. Sound(quit) /\ quit \in AppStates
  BY <1>6, AbandonSaveAllSound DEF Sound
<1> HIDE DEF quit
<1>8. done \in AppStates
  BY ZenonT(60), <1>7 DEF AppStates
<1>9. SameStructure(quit, done)
  BY <1>7
  DEF AppStates, SameStructure, SameTabs, SameQueues, SameWork, SameExperiments, SamePending
<1> HIDE DEF done
<1>10. Sound(done)
  BY <1>7, <1>8, <1>9, SameStructureSound
<1>11. home \in AppStates /\ out \in AppStates
  BY ZenonT(60), <1>8 DEF AppStates
<1>12. SameStructure(done, home) /\ SameStructure(done, out)
  BY <1>8
  DEF AppStates, SameStructure, SameTabs, SameQueues, SameWork, SameExperiments, SamePending
<1> HIDE DEF home, out
<1> QED
  BY <1>4, <1>7, <1>10, <1>11, <1>12, SameStructureSound

(* The tab under the cursor: swapped in, or saved and passed. *)
LEMMA SaveAllTabSound ==
  ASSUME NEW s, Sound(s), s.exitSaveAllRunning, ~SaveAllTabsDone(s), NEW saved
  PROVE  Sound(SaveAllTab(s, saved))
<1> DEFINE d    == DoSaveWorkspace(s)
           up   == d.exitSaveAllCursor + 1
           next == [d EXCEPT !.exitSaveAllCursor = up]
<1>1. /\ s \in AppStates /\ s.exitSaveAllCursor \in Nat
      /\ Len(s.exitDirtyTabs) \in Nat /\ s.exitSaveAllCursor <= Len(s.exitDirtyTabs)
      /\ ~s.showExitDirtyModal
  BY FieldTypes DEF Sound, WorkList
<1>2. s.exitSaveAllCursor + 1 \in 1 .. Len(s.exitDirtyTabs)
  BY <1>1 DEF SaveAllTabsDone
<1>3. SaveAllTarget(s) \in TabIndices(s)
  BY <1>2 DEF SaveAllTarget, Sound, WorkList, ListsTabs
<1>4. Sound(d) /\ d \in AppStates /\ SameStructure(s, d)
  BY DoSaveWorkspaceSound DEF Sound
<1>5. SaveAllTab(s, saved) =
        IF s.activeSessionIdx # SaveAllTarget(s) THEN SwapInSession(s, SaveAllTarget(s))
        ELSE IF s.active = NoTab THEN Crash(s)
        ELSE IF ~saved THEN AbandonSaveAll(s)
        ELSE IF SaveAllTabsDone(next) THEN next
        ELSE SwapInSession(next, SaveAllTarget(next))
  BY DEF SaveAllTab
<1> HIDE DEF d
<1>6. /\ up = s.exitSaveAllCursor + 1 /\ up \in Nat
      /\ d.exitDirtyTabs = s.exitDirtyTabs /\ d.sessions = s.sessions
  BY <1>1, <1>4 DEF SameStructure, SameWork, SameTabs
<1> HIDE DEF up
<1>7. next \in AppStates
  BY ZenonT(60), <1>4, <1>6 DEF AppStates
<1>8. /\ SameTabs(d, next) /\ SameQueues(d, next) /\ SameExperiments(d, next)
      /\ SamePending(d, next) /\ next.exitDirtyTabs = d.exitDirtyTabs
      /\ next.exitSaveAllCursor = up /\ next.showExitDirtyModal = d.showExitDirtyModal
  BY <1>4 DEF AppStates, SameTabs, SameQueues, SameExperiments, SamePending
<1> HIDE DEF next
<1>9. /\ WorkList(next) /\ next.sessions = s.sessions
      /\ next.exitDirtyTabs = s.exitDirtyTabs
      /\ next.exitSaveAllCursor = s.exitSaveAllCursor + 1
  <2>1. up <= Len(s.exitDirtyTabs) /\ ~d.showExitDirtyModal
    BY <1>1, <1>2, <1>4, <1>6 DEF SameStructure, SameWork
  <2> QED
    BY <1>4, <1>6, <1>8, <2>1 DEF Sound, WorkList, SameTabs
<1>10. Sound(next)
  BY <1>4, <1>7, <1>8, <1>9, WorkListSound
<1>11. ~SaveAllTabsDone(next) => SaveAllTarget(next) \in TabIndices(next)
  <2>1. ~SaveAllTabsDone(next) =>
          s.exitSaveAllCursor + 2 \in 1 .. Len(s.exitDirtyTabs)
    BY <1>1, <1>2, <1>9 DEF SaveAllTabsDone
  <2>2. s.exitSaveAllCursor + 1 + 1 = s.exitSaveAllCursor + 2
    BY <1>1
  <2> QED
    BY <1>9, <2>1, <2>2 DEF SaveAllTarget, Sound, WorkList, ListsTabs
<1>12. /\ Sound(SwapInSession(s, SaveAllTarget(s)))
       /\ ~SaveAllTabsDone(next) => Sound(SwapInSession(next, SaveAllTarget(next)))
  BY <1>3, <1>10, <1>11, SwapInSessionSound
<1>13. Sound(Crash(s)) /\ Sound(AbandonSaveAll(s))
  BY <1>1, CrashSound, AbandonSaveAllSound
  DEF SameTabs, SameQueues, SameExperiments, SamePending
<1> QED
  BY <1>5, <1>10, <1>12, <1>13

(* One frame of Save All. *)
LEMMA AdvanceExitSaveAllSound ==
  ASSUME NEW s, Sound(s), NEW saved, NEW n
  PROVE  Sound(AdvanceExitSaveAll(s, saved, n))
  BY FinishSaveAllSound, SaveAllTabSound DEF AdvanceExitSaveAll, SaveAllPaused

(* The window events. *)
LEMMA PollEventsSound ==
  ASSUME NEW s, Sound(s), NEW pressed \in BOOLEAN, NEW order \in DirtyTabOrders(s)
  PROVE  Sound(PollEvents(s, pressed, order))
<1> DEFINE asked    == [s EXCEPT !.shouldClose = @ \/ pressed]
           clean    == [asked EXCEPT !.exitDirtyExperiments = {}]
           m        == ShowExitModal(asked, order)
           modal    == [m EXCEPT !.shouldClose = FALSE]
           checked  == IF ~asked.shouldClose \/ DirtyFlowPending(s) THEN asked
                       ELSE IF NothingCollected(s) THEN clean ELSE modal
           later    == [checked EXCEPT !.shouldClose = FALSE, !.exitDeferredClose = TRUE]
           deferred == IF checked.shouldClose /\ DirtyFlowPending(checked)
                       THEN later ELSE checked
           again    == [deferred EXCEPT !.exitDeferredClose = FALSE, !.shouldClose = TRUE]
<1>1. s \in AppStates /\ s.shouldClose \in BOOLEAN
  BY DEF Sound, AppStates
<1>2. asked \in AppStates
  <2>1. (s.shouldClose \/ pressed) \in BOOLEAN
    BY <1>1
  <2> QED
    BY ZenonT(60), <1>1, <2>1 DEF AppStates
<1>3. SameStructure(s, asked)
  BY <1>1
  DEF AppStates, SameStructure, SameTabs, SameQueues, SameWork, SameExperiments, SamePending
<1>4. asked.dirty = s.dirty
  BY <1>1 DEF AppStates
<1>5. PollEvents(s, pressed, order) \in {again, deferred}
  BY DEF PollEvents
<1> HIDE DEF asked
<1>6. Sound(asked) /\ order \in DirtyTabOrders(asked)
  <2>1. Sound(asked)
    BY <1>2, <1>3, SameStructureSound
  <2>2. DirtyTabIndices(asked) = DirtyTabIndices(s)
    BY <1>3, <1>4 DEF DirtyTabIndices, SameStructure, SameTabs
  <2>3. asked.activeSessionIdx = s.activeSessionIdx
    BY <1>3 DEF SameStructure, SameTabs
  <2> QED
    BY <2>1, <2>2, <2>3 DEF DirtyTabOrders
<1>7. Sound(clean)
  <2>1. clean \in AppStates
    BY ZenonT(60), <1>2 DEF AppStates
  <2>2. SameStructure(asked, clean)
    BY <1>2
    DEF AppStates, SameStructure, SameTabs, SameQueues, SameWork, SameExperiments,
        SamePending
  <2> HIDE DEF clean
  <2> QED
    BY <1>6, <2>1, <2>2, SameStructureSound
<1>8. ASSUME ~DirtyFlowPending(s) PROVE Sound(modal)
  <2>1. ~asked.exitSaveAllRunning
    BY <1>3, <1>8 DEF DirtyFlowPending, SameStructure, SameWork
  <2>2. Sound(m) /\ m \in AppStates
    BY <1>6, <2>1, ShowExitModalSound DEF Sound
  <2> HIDE DEF m
  <2>3. modal \in AppStates
    BY ZenonT(60), <2>2 DEF AppStates
  <2>4. SameStructure(m, modal)
    BY <2>2
    DEF AppStates, SameStructure, SameTabs, SameQueues, SameWork, SameExperiments,
        SamePending
  <2> HIDE DEF modal
  <2> QED
    BY <2>2, <2>3, <2>4, SameStructureSound
<1> HIDE DEF clean, modal
<1>9. Sound(checked) /\ checked \in AppStates
  <2>1. Sound(checked)
    BY <1>6, <1>7, <1>8
  <2> QED
    BY <2>1 DEF Sound
<1> HIDE DEF checked
<1>10. Sound(later)
  <2>1. later \in AppStates
    BY ZenonT(60), <1>9 DEF AppStates
  <2>2. SameStructure(checked, later)
    BY <1>9
    DEF AppStates, SameStructure, SameTabs, SameQueues, SameWork, SameExperiments,
        SamePending
  <2> HIDE DEF later
  <2> QED
    BY <1>9, <2>1, <2>2, SameStructureSound
<1> HIDE DEF later
<1>11. Sound(deferred) /\ deferred \in AppStates
  BY <1>9, <1>10 DEF Sound
<1> HIDE DEF deferred
<1>12. Sound(again)
  <2>1. again \in AppStates
    BY ZenonT(60), <1>11 DEF AppStates
  <2>2. SameStructure(deferred, again)
    BY <1>11
    DEF AppStates, SameStructure, SameTabs, SameQueues, SameWork, SameExperiments,
        SamePending
  <2> HIDE DEF again
  <2> QED
    BY <1>11, <2>1, <2>2, SameStructureSound
<1> QED
  BY <1>5, <1>11, <1>12

(* The prompt about a parked tab, now that it is shown. *)
LEMMA RaiseClosePromptSound ==
  ASSUME NEW s, Sound(s)
  PROVE  Sound(RaiseClosePrompt(s))
<1> DEFINE idx == s.pendingCloseAfterSwap
           t   == [s EXCEPT !.pendingTabCloseIdx = idx, !.pendingCloseAfterSwap = 0,
                            !.showUnsavedPrompt = TRUE]
<1>1. s \in AppStates /\ idx \in Nat
  BY FieldTypes DEF Sound
<1>2. t \in AppStates
  BY ZenonT(60), <1>1 DEF AppStates
<1>3. /\ SameTabs(s, t) /\ SameWork(s, t) /\ SameExperiments(s, t) /\ SamePending(s, t)
      /\ t.lastActiveSessionIdx = s.lastActiveSessionIdx
      /\ t.pendingCloseAfterSwap = 0 /\ t.pendingTabCloseIdx = idx
      /\ t.pendingRemoveIdx = s.pendingRemoveIdx
  BY <1>1 DEF AppStates, SameTabs, SameWork, SameExperiments, SamePending
<1>4. RaiseClosePrompt(s) \in {s, t}
  BY DEF RaiseClosePrompt
<1> HIDE DEF t
<1>5. Sound(t)
  BY <1>2, <1>3, QueuesOf, QueuesSound DEF SamePending
<1> QED
  BY <1>4, <1>5

(* The queued removal. *)
LEMMA RunPendingRemoveSound ==
  ASSUME NEW s, Sound(s)
  PROVE  Sound(RunPendingRemove(s))
<1> DEFINE idx == s.pendingRemoveIdx
           t   == [s EXCEPT !.pendingRemoveIdx = 0]
<1>1. s \in AppStates /\ idx \in Nat
  BY FieldTypes DEF Sound
<1>2. t \in AppStates
  BY ZenonT(60), <1>1 DEF AppStates
<1>3. /\ SameTabs(s, t) /\ SameWork(s, t) /\ SameExperiments(s, t) /\ SamePending(s, t)
      /\ t.lastActiveSessionIdx = s.lastActiveSessionIdx
      /\ t.pendingCloseAfterSwap = s.pendingCloseAfterSwap
      /\ t.pendingTabCloseIdx = s.pendingTabCloseIdx
      /\ t.pendingRemoveIdx = 0
  BY <1>1 DEF AppStates, SameTabs, SameWork, SameExperiments, SamePending
<1>4. RunPendingRemove(s) = IF idx = 0 THEN s ELSE RemoveTab(t, idx)
  BY DEF RunPendingRemove
<1> HIDE DEF t
<1>5. Sound(t)
  BY <1>2, <1>3, QueuesOf, QueuesSound DEF SamePending
<1>6. CASE idx # 0
  <2>1. idx \in 0 .. Len(s.sessions)
    BY QueuesOf
  <2>2. idx \in TabIndices(t)
    BY <1>3, <1>6, <2>1 DEF SameTabs
  <2> QED
    BY <1>4, <1>5, <1>6, <2>2, RemoveTabSound
<1> QED
  BY <1>4, <1>6

(***************************************************************************)
(* The answers of the modals                                               *)
(***************************************************************************)

(* The tab-close prompt is resolved. *)
LEMMA ResolveTabCloseSound ==
  ASSUME NEW s, Sound(s)
  PROVE  Sound(ResolveTabClose(s))
<1> DEFINE idx == s.pendingTabCloseIdx
           t   == ResolveTabClose(s)
<1>1. s \in AppStates /\ idx \in Nat
  BY FieldTypes DEF Sound
<1>2. t = [s EXCEPT !.pendingRemoveIdx = idx, !.pendingTabCloseIdx = 0,
                    !.pendingWorkspaceAction = "None", !.showUnsavedPrompt = FALSE]
  BY DEF ResolveTabClose
<1> HIDE DEF t
<1>3. t \in AppStates
  BY ZenonT(60), <1>1, <1>2 DEF AppStates, PendingActions
<1>4. /\ SameTabs(s, t) /\ SameWork(s, t) /\ SameExperiments(s, t) /\ SamePending(s, t)
      /\ t.lastActiveSessionIdx = s.lastActiveSessionIdx
      /\ t.pendingCloseAfterSwap = s.pendingCloseAfterSwap
      /\ t.pendingTabCloseIdx = 0 /\ t.pendingRemoveIdx = idx
  BY <1>1, <1>2 DEF AppStates, SameTabs, SameWork, SameExperiments, SamePending
<1>5. Sound(t)
  BY <1>3, <1>4, QueuesOf, QueuesSound DEF SamePending
<1> QED
  BY <1>5 DEF t

(* Save. *)
LEMMA AnswerSaveSound ==
  ASSUME NEW s, Sound(s), NEW saved, NEW n, NEW outcome \in ProjectOutcomes,
         NEW loaded \in Seq(ExpIds), NEW tabs \in ReopenableTabs(s)
  PROVE  Sound(AnswerSave(s, saved, n, outcome, loaded, tabs))
<1> DEFINE closing == s.pendingTabCloseIdx # 0
           about   == [s EXCEPT !.pendingWorkspaceAction = "CloseWorkspace"]
           r       == IF closing THEN about ELSE s
           w       == DoSaveWorkspace(r)
           x       == SaveExperiments(w, ExpIndices(s), n)
           both    == IF r.pendingWorkspaceAction = "OpenMultiWorkspace" THEN x ELSE w
           asked   == [r EXCEPT !.showStaleDropPrompt = TRUE]
           failed  == [r EXCEPT !.pendingTabCloseIdx = 0, !.pendingWorkspaceAction = "None"]
<1>1. s \in AppStates
  BY DEF Sound
<1>2. about \in AppStates /\ SameStructure(s, about)
  <2>1. about \in AppStates
    BY ZenonT(60), <1>1 DEF AppStates, PendingActions
  <2>2. SameStructure(s, about)
    BY <1>1
    DEF AppStates, SameStructure, SameTabs, SameQueues, SameWork, SameExperiments,
        SamePending
  <2> QED
    BY <2>1, <2>2
<1>3. AnswerSave(s, saved, n, outcome, loaded, tabs) =
        IF s.active = NoTab THEN Crash(r)
        ELSE IF s.active \in s.stale THEN asked
        ELSE IF ~saved THEN failed
        ELSE IF closing THEN ResolveTabClose(w)
        ELSE DispatchPendingAction(both, outcome, loaded, tabs)
  BY DEF AnswerSave
<1> HIDE DEF about
<1>4. Sound(r) /\ r \in AppStates /\ r.sessions = s.sessions
  BY <1>1, <1>2, SameStructureSound DEF SameStructure, SameTabs
<1> HIDE DEF r
<1>5. Sound(w) /\ w \in AppStates /\ w.sessions = s.sessions
  BY <1>4, DoSaveWorkspaceSound DEF Sound, SameStructure, SameTabs
<1> HIDE DEF w
<1>6. Sound(x) /\ x.sessions = s.sessions
  BY <1>5, SaveExperimentsSound, SaveExperimentsTyped DEF SameStructure, SameTabs
<1> HIDE DEF x
<1>7. Sound(both) /\ tabs \in ReopenableTabs(both)
  BY <1>5, <1>6 DEF ReopenableTabs
<1> HIDE DEF both
<1>8. Sound(asked)
  <2>1. asked \in AppStates
    BY ZenonT(60), <1>4 DEF AppStates
  <2>2. SameStructure(r, asked)
    BY <1>4
    DEF AppStates, SameStructure, SameTabs, SameQueues, SameWork, SameExperiments,
        SamePending
  <2> HIDE DEF asked
  <2> QED
    BY <1>4, <2>1, <2>2, SameStructureSound
<1>9. Sound(failed)
  <2>1. failed \in AppStates
    BY ZenonT(60), <1>4 DEF AppStates, PendingActions
  <2>2. /\ SameTabs(r, failed) /\ SameWork(r, failed) /\ SameExperiments(r, failed)
        /\ SamePending(r, failed)
        /\ failed.lastActiveSessionIdx = r.lastActiveSessionIdx
        /\ failed.pendingCloseAfterSwap = r.pendingCloseAfterSwap
        /\ failed.pendingTabCloseIdx = 0
        /\ failed.pendingRemoveIdx = r.pendingRemoveIdx
    BY <1>4 DEF AppStates, SameTabs, SameWork, SameExperiments, SamePending
  <2> HIDE DEF failed
  <2> QED
    BY <1>4, <2>1, <2>2, QueuesOf, QueuesSound DEF SamePending
<1> HIDE DEF asked, failed, closing
<1>10. Sound(Crash(r)) /\ Sound(ResolveTabClose(w))
       /\ Sound(DispatchPendingAction(both, outcome, loaded, tabs))
  BY <1>4, <1>5, <1>7, CrashSound, ResolveTabCloseSound, DispatchPendingActionSound
<1> QED
  BY <1>3, <1>8, <1>9, <1>10

(* Don't Save. *)
LEMMA AnswerDontSaveSound ==
  ASSUME NEW s, Sound(s), NEW outcome \in ProjectOutcomes,
         NEW loaded \in Seq(ExpIds), NEW tabs \in ReopenableTabs(s)
  PROVE  Sound(AnswerDontSave(s, outcome, loaded, tabs))
<1> DEFINE more == s.consent \cup NamedByPrompt(s)
           r    == [s EXCEPT !.consent = more]
<1>1. s \in AppStates /\ s.active \in Keys \cup {NoTab}
  BY FieldTypes DEF Sound
<1>2. more \in SUBSET (Keys \cup ExpIds)
  <2>1. s.consent \subseteq Keys \cup ExpIds /\ s.expDirty \subseteq ExpIds
    BY <1>1 DEF AppStates
  <2> QED
    BY <1>1, <2>1 DEF NamedByPrompt
<1>3. AnswerDontSave(s, outcome, loaded, tabs)
        \in {ResolveTabClose(r), DispatchPendingAction(r, outcome, loaded, tabs)}
  BY DEF AnswerDontSave
<1> HIDE DEF more
<1>4. r \in AppStates
  BY ZenonT(60), <1>1, <1>2 DEF AppStates
<1>5. SameStructure(s, r)
  BY <1>1
  DEF AppStates, SameStructure, SameTabs, SameQueues, SameWork, SameExperiments, SamePending
<1> HIDE DEF r
<1>6. Sound(r) /\ tabs \in ReopenableTabs(r)
  BY <1>4, <1>5, SameStructureSound DEF ReopenableTabs, SameStructure, SameTabs
<1> QED
  BY <1>3, <1>6, ResolveTabCloseSound, DispatchPendingActionSound

(* Cancel. *)
LEMMA AnswerCancelSound ==
  ASSUME NEW s, Sound(s)
  PROVE  Sound(AnswerCancel(s))
<1> DEFINE t == AnswerCancel(s)
<1>1. s \in AppStates
  BY DEF Sound
<1>2. t \in AppStates
  BY ZenonT(60), <1>1 DEF AnswerCancel, AppStates, PendingActions
<1>3. /\ SameTabs(s, t) /\ SameWork(s, t) /\ SameExperiments(s, t) /\ SamePending(s, t)
      /\ t.lastActiveSessionIdx = s.lastActiveSessionIdx
      /\ t.pendingCloseAfterSwap = s.pendingCloseAfterSwap
      /\ t.pendingTabCloseIdx = 0 /\ t.pendingRemoveIdx = s.pendingRemoveIdx
  BY <1>1 DEF AnswerCancel, AppStates, SameTabs, SameWork, SameExperiments, SamePending
<1> HIDE DEF t
<1>4. Sound(t)
  BY <1>2, <1>3, QueuesOf, QueuesSound DEF SamePending
<1> QED
  BY <1>4 DEF t

(* The two answers of the stale prompt. *)
LEMMA StaleAnswersSound ==
  ASSUME NEW s, Sound(s), NEW saved, NEW outcome \in ProjectOutcomes,
         NEW loaded \in Seq(ExpIds), NEW tabs \in ReopenableTabs(s)
  PROVE  Sound(StaleCancel(s)) /\ Sound(StaleDrop(s, saved, outcome, loaded, tabs))
<1> DEFINE q == [s EXCEPT !.showStaleDropPrompt = FALSE]
           d == DoSaveWorkspace(s)
           r == [d EXCEPT !.showStaleDropPrompt = FALSE]
<1>1. s \in AppStates
  BY DEF Sound
<1>2. q \in AppStates
  BY ZenonT(60), <1>1 DEF AppStates
<1>3. SameStructure(s, q)
  BY <1>1
  DEF AppStates, SameStructure, SameTabs, SameQueues, SameWork, SameExperiments, SamePending
<1>4. /\ StaleCancel(s) \in {Crash(s), q}
      /\ StaleDrop(s, saved, outcome, loaded, tabs)
           \in {Crash(s), s, DispatchPendingAction(r, outcome, loaded, tabs)}
  BY DEF StaleCancel, StaleDrop
<1> HIDE DEF q, d
<1>5. Sound(d) /\ d \in AppStates /\ d.sessions = s.sessions
  BY DoSaveWorkspaceSound DEF Sound, SameStructure, SameTabs, d
<1>6. r \in AppStates
  BY ZenonT(60), <1>5 DEF AppStates
<1>7. SameStructure(d, r)
  BY <1>5
  DEF AppStates, SameStructure, SameTabs, SameQueues, SameWork, SameExperiments, SamePending
<1> HIDE DEF r
<1>8. Sound(q) /\ Sound(r) /\ tabs \in ReopenableTabs(r)
  BY <1>2, <1>3, <1>5, <1>6, <1>7, SameStructureSound
  DEF ReopenableTabs, SameStructure, SameTabs
<1> QED
  BY <1>4, <1>8, CrashSound, DispatchPendingActionSound

(* Save All begins. *)
LEMMA ExitSaveAllSound ==
  ASSUME NEW s, Sound(s)
  PROVE  Sound(ExitSaveAll(s))
<1> DEFINE t == ExitSaveAll(s)
<1>1. s \in AppStates /\ Len(s.exitDirtyTabs) \in Nat
  BY FieldTypes DEF Sound
<1>2. t \in AppStates
  BY ZenonT(60), <1>1 DEF ExitSaveAll, AppStates
<1>3. /\ SameTabs(s, t) /\ SameQueues(s, t) /\ SameExperiments(s, t) /\ SamePending(s, t)
      /\ t.exitDirtyTabs = s.exitDirtyTabs /\ t.exitSaveAllCursor = 0
      /\ t.showExitDirtyModal = FALSE
  BY <1>1 DEF ExitSaveAll, AppStates, SameTabs, SameQueues, SameExperiments, SamePending
<1> HIDE DEF t
<1>4. WorkList(t)
  BY <1>1, <1>3 DEF Sound, WorkList, SameTabs
<1>5. Sound(t)
  BY <1>2, <1>3, <1>4, WorkListSound
<1> QED
  BY <1>5 DEF t

(* Discard All: while the modal is up, Save All does not run. *)
LEMMA ExitDiscardAllSound ==
  ASSUME NEW s, Sound(s), s.showExitDirtyModal
  PROVE  Sound(ExitDiscardAll(s))
<1> DEFINE tabs == {s.sessions[i] : i \in Range(s.exitDirtyTabs) \cap TabIndices(s)}
           exps == {s.experiments[i] : i \in s.exitDirtyExperiments \cap ExpIndices(s)}
           more == s.consent \cup tabs \cup exps
           r    == [s EXCEPT !.dirty = @ \ tabs, !.expDirty = @ \ exps,
                             !.consent = more,
                             !.exitDirtyTabs = << >>, !.exitDirtyExperiments = {},
                             !.showExitDirtyModal = FALSE]
           home == [r EXCEPT !.pendingGoHome = TRUE]
           out  == [r EXCEPT !.shouldClose = TRUE]
<1>1. s \in AppStates
  BY DEF Sound
<1>2. more \in SUBSET (Keys \cup ExpIds) /\ << >> \in Seq(Nat)
  <2>1. tabs \subseteq Keys /\ exps \subseteq ExpIds
    BY <1>1, FieldTypes
  <2>2. s.consent \subseteq Keys \cup ExpIds
    BY <1>1 DEF AppStates
  <2> QED
    BY <2>1, <2>2
<1>3. ExitDiscardAll(s) \in {home, out}
  BY DEF ExitDiscardAll
<1> HIDE DEF tabs, exps, more
<1>4. r \in AppStates
  BY ZenonT(60), <1>1, <1>2 DEF AppStates
<1>5. /\ SameTabs(s, r) /\ SameQueues(s, r) /\ SameExperiments(s, r) /\ SamePending(s, r)
      /\ r.exitDirtyTabs = << >> /\ r.exitSaveAllRunning = s.exitSaveAllRunning
  BY <1>1 DEF AppStates, SameTabs, SameQueues, SameExperiments, SamePending
<1> HIDE DEF r
<1>6. WorkList(r)
  BY <1>5 DEF Sound, WorkList, ListsTabs
<1>7. Sound(r)
  BY <1>4, <1>5, <1>6, WorkListSound
<1>8. home \in AppStates /\ out \in AppStates
  BY ZenonT(60), <1>4 DEF AppStates
<1>9. SameStructure(r, home) /\ SameStructure(r, out)
  BY <1>4
  DEF AppStates, SameStructure, SameTabs, SameQueues, SameWork, SameExperiments, SamePending
<1> HIDE DEF home, out
<1> QED
  BY <1>3, <1>7, <1>8, <1>9, SameStructureSound

(* Cancel of the exit modal. *)
LEMMA ExitCancelSound ==
  ASSUME NEW s, Sound(s), s.showExitDirtyModal
  PROVE  Sound(ExitCancel(s))
<1> DEFINE t == ExitCancel(s)
<1>1. s \in AppStates /\ << >> \in Seq(Nat)
  BY DEF Sound
<1>2. t \in AppStates
  BY ZenonT(60), <1>1 DEF ExitCancel, AppStates
<1>3. /\ SameTabs(s, t) /\ SameQueues(s, t) /\ SameExperiments(s, t) /\ SamePending(s, t)
      /\ t.exitDirtyTabs = << >> /\ t.exitSaveAllRunning = s.exitSaveAllRunning
  BY <1>1 DEF ExitCancel, AppStates, SameTabs, SameQueues, SameExperiments, SamePending
<1> HIDE DEF t
<1>4. WorkList(t)
  BY <1>3 DEF Sound, WorkList, ListsTabs
<1>5. Sound(t)
  BY <1>2, <1>3, <1>4, WorkListSound
<1> QED
  BY <1>5 DEF t

(* The answers about deleting an experiment. *)
LEMMA ExperimentDeleteSound ==
  ASSUME NEW s, Sound(s)
  PROVE  Sound(ConfirmExperimentDelete(s)) /\ Sound(CancelExperimentDelete(s))
<1> DEFINE idx    == s.pendingExperimentDeleteIdx
           agreed == {s.experiments[i] : i \in {idx} \cap ExpIndices(s)}
           more   == s.consent \cup agreed
           r      == [s EXCEPT !.consent = more]
           x      == RemoveExperiment(r, idx)
           t      == [x EXCEPT !.pendingExperimentDeleteIdx = 0]
           q      == [s EXCEPT !.pendingExperimentDeleteIdx = 0]
<1>1. s \in AppStates
  BY DEF Sound
<1>2. more \in SUBSET (Keys \cup ExpIds)
  <2>1. agreed \subseteq ExpIds
    BY <1>1, FieldTypes
  <2>2. s.consent \subseteq Keys \cup ExpIds
    BY <1>1 DEF AppStates
  <2> QED
    BY <2>1, <2>2
<1>3. ConfirmExperimentDelete(s) = t /\ CancelExperimentDelete(s) = q
  BY DEF ConfirmExperimentDelete, CancelExperimentDelete
<1> HIDE DEF more
<1>4. r \in AppStates /\ q \in AppStates
  BY ZenonT(60), <1>1, <1>2 DEF AppStates
<1>5. SameStructure(s, r) /\ SameStructure(s, q)
  BY <1>1
  DEF AppStates, SameStructure, SameTabs, SameQueues, SameWork, SameExperiments, SamePending
<1> HIDE DEF r, q
<1>6. Sound(r) /\ Sound(q)
  BY <1>4, <1>5, SameStructureSound
<1>7. Sound(x) /\ x \in AppStates
  BY <1>6, RemoveExperimentSound DEF Sound
<1> HIDE DEF x
<1>8. t \in AppStates
  BY ZenonT(60), <1>7 DEF AppStates
<1>9. SameStructure(x, t)
  BY <1>7
  DEF AppStates, SameStructure, SameTabs, SameQueues, SameWork, SameExperiments, SamePending
<1> HIDE DEF t
<1> QED
  BY <1>3, <1>6, <1>7, <1>8, <1>9, SameStructureSound

(***************************************************************************)
(* The Session tab, and what the user edits                                *)
(***************************************************************************)

(* A dataset is deleted. *)
LEMMA RemoveDatasetSound ==
  ASSUME NEW s, Sound(s), NEW key \in Keys
  PROVE  Sound(RemoveDataset(s, key))
<1> DEFINE more == s.consent \cup {key}
           r    == [s EXCEPT !.consent = more]
           idx  == IndexOf(s.sessions, key)
<1>1. s \in AppStates /\ s.sessions \in Seq(Keys)
  BY FieldTypes DEF Sound
<1>2. more \in SUBSET (Keys \cup ExpIds)
  BY <1>1 DEF AppStates
<1>3. RemoveDataset(s, key) =
        IF key \notin Range(s.sessions) THEN s ELSE RemoveTab(r, idx)
  BY DEF RemoveDataset
<1> HIDE DEF more
<1>4. r \in AppStates
  BY ZenonT(60), <1>1, <1>2 DEF AppStates
<1>5. SameStructure(s, r)
  BY <1>1
  DEF AppStates, SameStructure, SameTabs, SameQueues, SameWork, SameExperiments, SamePending
<1> HIDE DEF r
<1>6. Sound(r) /\ r.sessions = s.sessions
  BY <1>4, <1>5, SameStructureSound DEF SameStructure, SameTabs
<1>7. key \in Range(s.sessions) => idx \in TabIndices(r)
  BY <1>1, <1>6, IndexOfElement
<1> HIDE DEF idx
<1> QED
  BY <1>3, <1>6, <1>7, RemoveTabSound

(* A multi-workspace is made from an open file. *)
LEMMA CreateMultiWorkspaceSound ==
  ASSUME NEW s, Sound(s), NEW saved, NEW created, NEW outcome \in ProjectOutcomes,
         NEW key \in Keys
  PROVE  Sound(CreateMultiWorkspace(s, saved, created, outcome, key))
<1> DEFINE src       == s.sessions[CreateSource(s)]
           more      == IF src \in s.dirty \cap s.stale
                        THEN s.staleOnDisk \cup {src} ELSE s.staleOnDisk
           autosaved == [s EXCEPT !.dirty = @ \ {src}, !.staleOnDisk = more]
           opened    == OpenProject(autosaved, outcome, << >>, << >>)
           swapped   == CloseTab(opened, IndexOf(opened.sessions, src))
<1>1. s \in AppStates
  BY DEF Sound
<1>2. more \in SUBSET Keys
  BY <1>1 DEF AppStates
<1>3. CreateMultiWorkspace(s, saved, created, outcome, key)
        \in {s, autosaved, OpenInNewTab(swapped, key)}
  BY DEF CreateMultiWorkspace
<1> HIDE DEF src, more
<1>4. autosaved \in AppStates
  BY ZenonT(60), <1>1, <1>2 DEF AppStates
<1>5. SameStructure(s, autosaved)
  BY <1>1
  DEF AppStates, SameStructure, SameTabs, SameQueues, SameWork, SameExperiments, SamePending
<1> HIDE DEF autosaved
<1>6. Sound(autosaved)
  BY <1>4, <1>5, SameStructureSound
<1>7. << >> \in Seq(ExpIds) /\ << >> \in ReopenableTabs(autosaved)
  BY DEF ReopenableTabs
<1>8. Sound(opened)
  BY <1>6, <1>7, OpenProjectSound
<1> HIDE DEF opened
<1>9. Sound(OpenInNewTab(swapped, key))
  BY <1>8, CloseTabSound, OpenInNewTabSound
<1> QED
  BY <1>3, <1>6, <1>9

(* An edit, or a result, makes the active tab dirty. *)
LEMMA EditActiveTabSound ==
  ASSUME NEW s, Sound(s), s.active # NoTab, NEW spoils
  PROVE  Sound(EditActiveTab(s, spoils))
<1> DEFINE k == {s.active}
           a == s.dirty \cup k
           b == IF spoils THEN s.stale \cup k ELSE s.stale
           c == IF spoils THEN s.staleOnDisk \cup k ELSE s.staleOnDisk
           t == [s EXCEPT !.dirty = a, !.consent = @ \ k, !.stale = b, !.staleOnDisk = c]
<1>1. s \in AppStates /\ s.active \in Keys
  BY FieldTypes DEF Sound
<1>2. a \in SUBSET Keys /\ b \in SUBSET Keys /\ c \in SUBSET Keys
  BY <1>1 DEF AppStates
<1>3. EditActiveTab(s, spoils) = t
  BY DEF EditActiveTab
<1> HIDE DEF k, a, b, c
<1>4. t \in AppStates
  BY ZenonT(60), <1>1, <1>2 DEF AppStates
<1>5. SameStructure(s, t)
  BY <1>1
  DEF AppStates, SameStructure, SameTabs, SameQueues, SameWork, SameExperiments, SamePending
<1> HIDE DEF t
<1> QED
  BY <1>3, <1>4, <1>5, SameStructureSound

(* An edit makes the active experiment dirty. *)
LEMMA EditActiveExperimentSound ==
  ASSUME NEW s, Sound(s), s.activeTabKind = "Experiment", s.activeExperimentIdx # 0
  PROVE  Sound(EditActiveExperiment(s))
<1> DEFINE e == {s.experiments[s.activeExperimentIdx]}
           a == s.expDirty \cup e
           t == [s EXCEPT !.expDirty = a, !.consent = @ \ e]
<1>1. s \in AppStates /\ Len(s.experiments) \in Nat
  BY FieldTypes DEF Sound
<1>2. s.activeExperimentIdx \in ExpIndices(s)
  BY <1>1 DEF Sound, ExperimentQueues
<1>3. a \in SUBSET ExpIds
  <2>1. e \subseteq ExpIds
    BY <1>1, <1>2, FieldTypes
  <2>2. s.expDirty \subseteq ExpIds
    BY <1>1 DEF AppStates
  <2> QED
    BY <2>1, <2>2
<1>4. EditActiveExperiment(s) = t
  BY DEF EditActiveExperiment
<1> HIDE DEF e, a
<1>5. t \in AppStates
  BY ZenonT(60), <1>1, <1>3 DEF AppStates
<1>6. SameStructure(s, t)
  BY <1>1
  DEF AppStates, SameStructure, SameTabs, SameQueues, SameWork, SameExperiments, SamePending
<1> HIDE DEF t
<1> QED
  BY <1>4, <1>5, <1>6, SameStructureSound

(* Going home begins. *)
LEMMA HomeSound ==
  ASSUME NEW s, Sound(s)
  PROVE  Sound([s EXCEPT !.pendingGoHome = FALSE, !.exitTargetIsGoHome = FALSE])
<1> DEFINE t == [s EXCEPT !.pendingGoHome = FALSE, !.exitTargetIsGoHome = FALSE]
<1>1. s \in AppStates
  BY DEF Sound
<1>2. t \in AppStates
  BY ZenonT(60), <1>1 DEF AppStates
<1>3. SameStructure(s, t)
  BY <1>1
  DEF AppStates, SameStructure, SameTabs, SameQueues, SameWork, SameExperiments, SamePending
<1> HIDE DEF t
<1>4. Sound(t)
  BY <1>2, <1>3, SameStructureSound
<1> QED
  BY <1>4 DEF t

(***************************************************************************)
(* The main loop                                                           *)
(***************************************************************************)

Inv ==
  /\ Sound(app)
  /\ pc \in Phases
  /\ wantCapture \in BOOLEAN
  /\ events \in 0 .. MaxEvents

(* The program starts with it. *)
LEMMA InitInv == Init => Inv
<1> SUFFICES ASSUME Init PROVE Inv
  OBVIOUS
<1>1. app = Launched /\ pc = "swap" /\ wantCapture = FALSE /\ events = 0
  BY DEF Init
<1>2. Sound(app)
  BY <1>1, LaunchedSound
<1>3. events \in 0 .. MaxEvents
  BY <1>1, MaxEventsAssumption
<1> QED
  BY <1>1, <1>2, <1>3 DEF Inv, Phases

(* What each phase of the frame top does. *)
LEMMA FrameTopInv ==
  ASSUME Inv, FrameTop
  PROVE  Inv'
<1> USE DEF Quiet
<1>0. Sound(app) /\ events \in 0 .. MaxEvents /\ wantCapture \in BOOLEAN
  BY DEF Inv
<1>1. CASE Swap
  BY <1>0, <1>1, ExecutePendingSwapSound DEF Swap, Step, Inv, Phases
<1>2. CASE Open
  BY <1>0, <1>2, ExecutePendingOpenSound DEF Open, Step, Inv, Phases
<1>3. CASE Save
  BY <1>0, <1>3, ExecutePendingSaveSound DEF Save, Step, Inv, Phases
<1>4. CASE ClosePrompt
  BY <1>0, <1>4, RaiseClosePromptSound DEF ClosePrompt, Step, Inv, Phases
<1>5. CASE RemoveTabQueued
  BY <1>0, <1>5, RunPendingRemoveSound DEF RemoveTabQueued, Step, Inv, Phases
<1>6. CASE SaveAll
  BY <1>0, <1>6, AdvanceExitSaveAllSound DEF SaveAll, Step, Inv, Phases
<1>7. CASE Home
  BY <1>0, <1>7, HomeSound DEF Home, Step, Inv, Phases
<1>8. CASE CloseLastTab
  <2>1. Len(app.sessions) \in TabIndices(app)
    <3>1. app.sessions \in Seq(Keys) /\ app.sessions # << >>
      BY <1>0, <1>8, FieldTypes DEF CloseLastTab, Sound
    <3>2. Len(app.sessions) \in Nat /\ Len(app.sessions) # 0
      BY <3>1, EmptySeq, LenProperties
    <3> QED
      BY <3>2
  <2> QED
    BY <1>0, <1>8, <2>1, RemoveTabSound DEF CloseLastTab, Step, Inv, Phases
<1>9. CASE GoneHome
  BY <1>0, <1>9, FinishGoHomeSound DEF GoneHome, Step, Inv, Phases
<1> QED
  BY <1>1, <1>2, <1>3, <1>4, <1>5, <1>6, <1>7, <1>8, <1>9 DEF FrameTop

(* The window events, the background results and the keyboard. *)
LEMMA EventsInv ==
  ASSUME Inv, Poll \/ BackgroundResult \/ NoResult \/ CtrlS \/ CtrlShiftS \/ CtrlH
              \/ NoShortcut \/ NoClick \/ Ended
  PROVE  Inv'
<1>0. Sound(app) /\ events \in 0 .. MaxEvents /\ wantCapture \in BOOLEAN
  BY DEF Inv
<1>1. Act => events' \in 0 .. MaxEvents
  BY <1>0, MaxEventsAssumption DEF Act
<1>2. \A s : ModalUp(s) \in BOOLEAN
  BY DEF ModalUp
<1>3. CASE Poll
  <2>1. PICK pressed \in BOOLEAN, order \in DirtyTabOrders(app) :
          /\ pressed => MayPressClose
          /\ Step("poll", PollEvents(app, pressed, order),
                  IF PollEvents(app, pressed, order).shouldClose
                  THEN "closed" ELSE "async")
          /\ events' = IF pressed THEN events + 1 ELSE events
    BY <1>3 DEF Poll
  <2>2. Sound(PollEvents(app, pressed, order))
    BY <1>0, PollEventsSound
  <2>3. events' \in 0 .. MaxEvents
    BY <1>0, <2>1, MaxEventsAssumption DEF MayPressClose
  <2> QED
    BY <1>0, <2>1, <2>2, <2>3 DEF Step, Inv, Phases
<1>4. CASE BackgroundResult
  BY <1>0, <1>1, <1>4, EditActiveTabSound
  DEF BackgroundResult, WorkspaceShown, Step, Inv, Phases
<1>5. CASE NoResult
  BY <1>0, <1>5 DEF NoResult, Quiet, Step, Inv, Phases
<1>6. CASE CtrlS
  BY <1>0, <1>1, <1>6, RequestSaveEverythingSound DEF CtrlS, Shortcut, Step, Inv, Phases
<1>7. CASE CtrlShiftS
  BY <1>0, <1>1, <1>7, RequestSaveAsSound DEF CtrlShiftS, Shortcut, Step, Inv, Phases
<1>8. CASE CtrlH
  BY <1>0, <1>1, <1>8, RequestGoHomeSound DEF CtrlH, Shortcut, Step, Inv, Phases
<1>9. CASE NoShortcut
  BY <1>0, <1>9 DEF NoShortcut, Quiet, Step, Inv, Phases
<1>10. CASE NoClick
  BY <1>0, <1>2, <1>10 DEF NoClick, Quiet, Step, Inv, Phases
<1>11. CASE Ended
  BY <1>11 DEF Ended, vars, Inv
<1> QED
  BY <1>3, <1>4, <1>5, <1>6, <1>7, <1>8, <1>9, <1>10, <1>11

(* What the disk offers is typed. *)
LEMMA OffersTyped ==
  /\ ProjectOpens \subseteq ProjectOutcomes
  /\ \A s : UnloadedExperiments(s) \subseteq Seq(ExpIds)
<1>1. ProjectOpens \subseteq ProjectOutcomes
  BY DEF ProjectOpens, ProjectOutcomes
<1>2. \A e \in ExpIds : <<e>> \in Seq(ExpIds)
  OBVIOUS
<1>3. << >> \in Seq(ExpIds)
  OBVIOUS
<1> QED
  BY <1>1, <1>2, <1>3 DEF UnloadedExperiments

(* An answer or a click leaves the other variables in their range. *)
LEMMA UiInv ==
  ASSUME Inv, pc' = (IF app'.nullDeref THEN "crashed" ELSE "swap"),
         wantCapture' = ModalUp(app'), Quiet \/ Act, Sound(app)'
  PROVE  Inv'
<1>1. events' \in 0 .. MaxEvents
  BY MaxEventsAssumption DEF Inv, Quiet, Act
<1>2. ModalUp(app') \in BOOLEAN
  BY DEF ModalUp
<1> QED
  BY <1>1, <1>2 DEF Inv, Phases

(* The answers. *)
LEMMA AnswersInv ==
  ASSUME Inv, Answers
  PROVE  Inv'
<1>0. Sound(app)
  BY DEF Inv
<1> USE DEF Answer
<1>1. CASE PressSave
  BY <1>0, <1>1, AnswerSaveSound, OffersTyped, UiInv DEF PressSave, Step
<1>2. CASE PressDontSave
  BY <1>0, <1>2, AnswerDontSaveSound, OffersTyped, UiInv DEF PressDontSave, Step
<1>3. CASE PressCancel
  BY <1>0, <1>3, AnswerCancelSound, UiInv DEF PressCancel, Step
<1>4. CASE PressStaleDrop
  BY <1>0, <1>4, StaleAnswersSound, OffersTyped, UiInv DEF PressStaleDrop, Step
<1>5. CASE PressStaleCancel
  <2>1. \E tabs : tabs \in ReopenableTabs(app)
    BY DEF ReopenableTabs
  <2>2. "opened" \in ProjectOutcomes /\ << >> \in Seq(ExpIds)
    BY DEF ProjectOutcomes
  <2> QED
    BY <1>0, <1>5, <2>1, <2>2, StaleAnswersSound, UiInv DEF PressStaleCancel, Step
<1>6. CASE PressSaveAll
  BY <1>0, <1>6, ExitSaveAllSound, UiInv DEF PressSaveAll, Step
<1>7. CASE PressDiscardAll
  BY <1>0, <1>7, ExitDiscardAllSound, UiInv DEF PressDiscardAll, ExitUp, Step
<1>8. CASE PressExitCancel
  BY <1>0, <1>8, ExitCancelSound, UiInv DEF PressExitCancel, ExitUp, Step
<1>9. CASE PressDelete
  BY <1>0, <1>9, ExperimentDeleteSound, UiInv DEF PressDelete, Step
<1>10. CASE PressDeleteCancel
  BY <1>0, <1>10, ExperimentDeleteSound, UiInv DEF PressDeleteCancel, Step
<1> QED
  BY <1>1, <1>2, <1>3, <1>4, <1>5, <1>6, <1>7, <1>8, <1>9, <1>10 DEF Answers

(* The clicks on the tab strip. *)
LEMMA StripClicksInv ==
  ASSUME Inv, StripClicks
  PROVE  Inv'
<1>0. Sound(app) /\ app \in AppStates
  BY DEF Inv, Sound
<1> USE DEF Click
<1>1. CASE ClickSessionTab
  BY <1>0, <1>1, FocusSessionTabSound, UiInv DEF ClickSessionTab, Step
<1>2. CASE ClickTab
  BY <1>0, <1>2, SwapInSessionSound, UiInv DEF ClickTab, Step
<1>3. CASE ClickCloseTab
  BY <1>0, <1>3, CloseTabSound, UiInv DEF ClickCloseTab, Step
<1>4. CASE ClickExperimentTab
  BY <1>0, <1>4, ActivateExperimentSound, UiInv DEF ClickExperimentTab, Step
<1>5. CASE ClickCloseExperimentTab
  BY <1>0, <1>5, CloseRequestSound, UiInv
  DEF ClickCloseExperimentTab, ShownExperiments, Step
<1> QED
  BY <1>1, <1>2, <1>3, <1>4, <1>5 DEF StripClicks

(* The other clicks. *)
LEMMA OtherClicksInv ==
  ASSUME Inv, OtherClicks
  PROVE  Inv'
<1>0. Sound(app) /\ app \in AppStates
  BY DEF Inv, Sound
<1> USE DEF Click
<1>1. CASE Edit
  BY <1>0, <1>1, EditActiveTabSound, UiInv DEF Edit, WorkspaceShown, Step
<1>2. CASE EditExperiment
  BY <1>0, <1>2, EditActiveExperimentSound, UiInv DEF EditExperiment, Step
<1>3. CASE OpenFile
  BY <1>0, <1>3, OpenInNewTabSound, UiInv DEF OpenFile, Step, Keys
<1>4. CASE SaveAs
  BY <1>0, <1>4, RequestSaveAsSound, UiInv DEF SaveAs, Step
<1>5. CASE OpenFirstProject
  <2>1. PICK outcome \in ProjectOpens, loaded \in UnloadedExperiments(Launched),
             tabs \in ReopenableTabs(app) :
          LET p == OpenProject(app, outcome, loaded, tabs) IN
          Click(IF outcome # "opened" THEN p
                ELSE [FocusSessionTab(p) EXCEPT !.welcome = FALSE])
    BY <1>5 DEF OpenFirstProject
  <2> DEFINE p == OpenProject(app, outcome, loaded, tabs)
  <2>2. Sound(p)
    BY <1>0, OffersTyped, OpenProjectSound
  <2>3. Sound([FocusSessionTab(p) EXCEPT !.welcome = FALSE])
    BY <2>2, FocusSessionTabSound, WelcomeSound
  <2> QED
    BY <2>1, <2>2, <2>3, UiInv DEF Step
<1>6. CASE NewEmptyProject
  <2>1. PICK created \in SaveOutcomes, outcome \in ProjectOpens :
          LET p == OpenProject(app, outcome, << >>, << >>) IN
          Click(IF ~created THEN app
                ELSE IF outcome # "opened" THEN p
                ELSE [FocusSessionTab(p) EXCEPT !.welcome = FALSE])
    BY <1>6 DEF NewEmptyProject
  <2> DEFINE p == OpenProject(app, outcome, << >>, << >>)
  <2>2. << >> \in Seq(ExpIds) /\ << >> \in ReopenableTabs(app)
    BY DEF ReopenableTabs
  <2>3. Sound(p)
    BY <1>0, <2>2, OffersTyped, OpenProjectSound
  <2>4. Sound([FocusSessionTab(p) EXCEPT !.welcome = FALSE])
    BY <2>3, FocusSessionTabSound, WelcomeSound
  <2> QED
    BY <1>0, <2>1, <2>3, <2>4, UiInv DEF Step
<1>7. CASE OpenSameProject
  <2>1. PICK loaded \in UnloadedExperiments(app), tabs \in ReopenableTabs(app) :
          LET p == RestoreOpenEmbeddedTabs(LoadExperiments(FocusSessionTab(app), loaded), tabs)
          IN  Click([p EXCEPT !.welcome = FALSE])
    BY <1>7 DEF OpenSameProject
  <2> DEFINE f == FocusSessionTab(app)
             l == LoadExperiments(f, loaded)
             p == RestoreOpenEmbeddedTabs(l, tabs)
  <2>2. Sound(f) /\ f.sessions = app.sessions
    BY <1>0, FocusSessionTabSound DEF FocusSessionTab, AppStates
  <2> HIDE DEF f
  <2>3. Sound(l) /\ l.sessions = app.sessions
    BY <2>2, OffersTyped, LoadExperimentsSound
  <2> HIDE DEF l
  <2>4. Sound(p)
    BY <2>3, RestoreOpenEmbeddedTabsSound DEF ReopenableTabs
  <2> HIDE DEF p
  <2>5. Sound([p EXCEPT !.welcome = FALSE])
    BY <2>4, WelcomeSound
  <2> QED
    BY <2>1, <2>5, UiInv DEF Step, p, l, f
<1>8. CASE ReplaceProject
  BY <1>0, <1>8, RequestReplaceProjectSound, OffersTyped, UiInv DEF ReplaceProject, Step
<1>9. CASE OpenSource
  BY <1>0, <1>9, OpenInNewTabSound, UiInv DEF OpenSource, Step, Keys
<1>10. CASE DeleteDataset
  BY <1>0, <1>10, RemoveDatasetSound, UiInv DEF DeleteDataset, Step, Keys
<1>11. CASE NewMultiWorkspace
  BY <1>0, <1>11, CreateMultiWorkspaceSound, OffersTyped, UiInv
  DEF NewMultiWorkspace, Step, Keys
<1>12. CASE NewExperiment
  BY <1>0, <1>12, CreateExperimentSound, UiInv DEF NewExperiment, Step
<1>13. CASE ClickExperimentRow
  BY <1>0, <1>13, ActivateExperimentSound, UiInv DEF ClickExperimentRow, Step
<1>14. CASE DeleteExperiment
  BY <1>0, <1>14, RequestDeleteSound, UiInv DEF DeleteExperiment, Step
<1> QED
  BY <1>1, <1>2, <1>3, <1>4, <1>5, <1>6, <1>7, <1>8, <1>9, <1>10, <1>11, <1>12,
     <1>13, <1>14 DEF OtherClicks

(* Every step keeps it. *)
LEMMA NextInv == Inv /\ [Next]_vars => Inv'
<1>1. ASSUME Inv, Next PROVE Inv'
  BY <1>1, FrameTopInv, EventsInv, AnswersInv, StripClicksInv, OtherClicksInv DEF Next
<1>2. ASSUME Inv, UNCHANGED vars PROVE Inv'
  BY <1>2 DEF vars, Inv
<1> QED
  BY <1>1, <1>2

(* The invariant holds throughout. *)
THEOREM Invariance == Spec => []Inv
<1> QED
  BY InitInv, NextInv, PTL DEF Spec

(* Every field keeps its type: no operator leaves the state space. *)
THEOREM TypeCorrect == Spec => []TypeOK
<1>1. Inv => TypeOK
  BY DEF Inv, Sound, TypeOK
<1> QED
  BY <1>1, Invariance, PTL

(* No tab is ever open twice, whatever is opened, restored or made.          *)
THEOREM TabsDistinct == Spec => []KeysDistinct
<1>1. Inv => KeysDistinct
  BY DEF Inv, Sound, KeysUnique, KeysDistinct
<1> QED
  BY <1>1, Invariance, PTL

(* The active pointer and the active index always name the same tab, so a    *)
(* save never writes one tab over another.                                   *)
THEOREM PointerAndIndexAgree == Spec => []ActiveConsistent
<1>1. Inv => ActiveConsistent
  BY DEF Inv, Sound, ActiveTab, ActiveConsistent, KeysUnique, KeysDistinct
<1> QED
  BY <1>1, Invariance, PTL

(* Every queued index survives every removal, and Save All lists no tab      *)
(* twice: the frame top never indexes past the end of a vector.              *)
THEOREM QueuedIndicesValid == Spec => []QueuesInRange
<1>1. ASSUME Inv PROVE QueuesInRange
  <2>1. Sound(app) /\ app.exitDirtyTabs \in Seq(Nat)
    BY <1>1, FieldTypes DEF Inv, Sound
  <2>2. DOMAIN app.exitDirtyTabs = 1 .. Len(app.exitDirtyTabs)
    BY <2>1, LenProperties
  <2>3. /\ Range(app.exitDirtyTabs) \subseteq TabIndices(app)
        /\ \A m, n \in DOMAIN app.exitDirtyTabs :
             app.exitDirtyTabs[m] = app.exitDirtyTabs[n] => m = n
    BY <2>1, <2>2 DEF Sound, WorkList, ListsTabs, Range
  <2>4. TabQueues(app) /\ ExperimentQueues(app)
    BY <2>1 DEF Sound
  <2>5. SaveAllCursorInBounds
    BY <2>1 DEF Sound, WorkList, SaveAllCursorInBounds
  <2> QED
    BY <2>3, <2>4, <2>5 DEF QueuesInRange, TabQueues, ExperimentQueues
<1> QED
  BY <1>1, Invariance, PTL

(* Save All's cursor stays on its work list, however many tabs are closed    *)
(* under it.                                                                 *)
THEOREM SaveAllCursorValid == Spec => []SaveAllCursorInBounds
<1>1. Inv => SaveAllCursorInBounds
  BY DEF Inv, Sound, WorkList, SaveAllCursorInBounds
<1> QED
  BY <1>1, Invariance, PTL

-----------------------------------------------------------------------------
(* What the operators do, by groups of fields                                *)

(* The fields of the record, and a record that has them.                     *)
AppFields ==
  { "sessions", "dirty", "stale", "active", "activeTabKind", "activeSessionIdx",
    "activeExperimentIdx", "lastActiveSessionIdx", "pendingSwapIdx",
    "pendingSwapToSession", "pendingExperimentIdx", "pendingCloseAfterSwap",
    "pendingTabCloseIdx", "pendingRemoveIdx", "pendingOpen", "pendingSaveKind",
    "pendingWorkspaceAction", "showUnsavedPrompt", "showStaleDropPrompt",
    "showExitDirtyModal", "exitDirtyTabs", "exitDirtyExperiments",
    "exitSaveAllRunning", "exitSaveAllCursor", "exitDeferredClose",
    "exitTargetIsGoHome", "pendingGoHome", "experiments", "expDirty", "expHidden",
    "expSaved", "pendingExperimentDeleteIdx", "multiWorkspaceOpen", "welcome",
    "shouldClose", "nullDeref", "consent", "lost", "staleOnDisk" }

IsApp(s) == DOMAIN s = AppFields

(* What two records have in common: what is queued or asked for; the queued  *)
(* switch; leaving the program; content; what was lost; the experiments.     *)
SamePrompts(s, t) ==
  /\ t.pendingOpen = s.pendingOpen
  /\ t.pendingCloseAfterSwap = s.pendingCloseAfterSwap
  /\ t.pendingRemoveIdx = s.pendingRemoveIdx
  /\ t.pendingTabCloseIdx = s.pendingTabCloseIdx
  /\ t.pendingWorkspaceAction = s.pendingWorkspaceAction
  /\ t.showUnsavedPrompt = s.showUnsavedPrompt
  /\ t.showStaleDropPrompt = s.showStaleDropPrompt

SameSwitch(s, t) ==
  /\ t.pendingSwapIdx = s.pendingSwapIdx
  /\ t.pendingSwapToSession = s.pendingSwapToSession
  /\ t.pendingExperimentIdx = s.pendingExperimentIdx

SameExit(s, t) ==
  /\ t.showExitDirtyModal = s.showExitDirtyModal
  /\ t.exitSaveAllRunning = s.exitSaveAllRunning
  /\ t.exitSaveAllCursor = s.exitSaveAllCursor
  /\ t.exitDirtyTabs = s.exitDirtyTabs
  /\ t.exitTargetIsGoHome = s.exitTargetIsGoHome
  /\ t.pendingGoHome = s.pendingGoHome
  /\ t.shouldClose = s.shouldClose
  /\ t.exitDeferredClose = s.exitDeferredClose

SameData(s, t) ==
  /\ t.dirty = s.dirty /\ t.stale = s.stale /\ t.staleOnDisk = s.staleOnDisk
  /\ t.pendingSaveKind = s.pendingSaveKind

SameLosses(s, t) == t.consent = s.consent /\ t.lost = s.lost

SameExps(s, t) ==
  /\ t.experiments = s.experiments /\ t.expDirty = s.expDirty
  /\ t.expSaved = s.expSaved /\ t.exitDirtyExperiments = s.exitDirtyExperiments
  /\ t.multiWorkspaceOpen = s.multiWorkspaceOpen /\ t.welcome = s.welcome

(* A switch is queued to one tab, or none is. *)
SwitchTo(s, idx) ==
  s.pendingSwapIdx = idx /\ ~s.pendingSwapToSession /\ s.pendingExperimentIdx = 0

NoSwitch(s) == SwitchTo(s, 0)

(* The record has its fields. *)
LEMMA FieldsOf == ASSUME NEW s \in AppStates PROVE IsApp(s)
  BY DEF AppStates, IsApp, AppFields

(* All but the queued switch. *)
SameButSwitch(s, t) ==
  /\ SamePrompts(s, t) /\ SameExit(s, t) /\ SameTabs(s, t) /\ SameData(s, t)
  /\ SameLosses(s, t) /\ SameExps(s, t) /\ t.nullDeref = s.nullDeref

(* Clicking a tab queues the switch to it.                                   *)
LEMMA SwapInSessionDoes ==
  ASSUME NEW s, IsApp(s), NEW idx
  PROVE  LET t == SwapInSession(s, idx) IN
         IsApp(t) /\ SameButSwitch(s, t) /\ SwitchTo(t, idx)
  BY DEF IsApp, AppFields, SwapInSession, SameButSwitch, SamePrompts, SameExit, SameTabs,
         SameData, SameLosses, SameExps, SwitchTo

(* Clicking the Session tab queues the switch to that.                       *)
LEMMA FocusSessionTabDoes ==
  ASSUME NEW s, IsApp(s)
  PROVE  LET t == FocusSessionTab(s) IN
         /\ IsApp(t) /\ SameButSwitch(s, t)
         /\ t.pendingSwapIdx = 0 /\ t.pendingSwapToSession /\ t.pendingExperimentIdx = 0
  BY DEF IsApp, AppFields, FocusSessionTab, SameButSwitch, SamePrompts, SameExit, SameTabs,
         SameData, SameLosses, SameExps

(* The queued switch is carried out. *)
LEMMA ExecutePendingSwapDoes ==
  ASSUME NEW s, IsApp(s)
  PROVE  LET t == ExecutePendingSwap(s) IN
         /\ IsApp(t) /\ SamePrompts(s, t) /\ SameExit(s, t) /\ SameData(s, t)
         /\ SameLosses(s, t) /\ SameExps(s, t) /\ NoSwitch(t)
         /\ t.sessions = s.sessions /\ t.nullDeref = s.nullDeref
         /\ NoSwitch(s) /\ Len(s.sessions) \in Nat => SameTabs(s, t)
         /\ \A idx \in TabIndices(s) : SwitchTo(s, idx) => t.active = s.sessions[idx]
<1> DEFINE t == ExecutePendingSwap(s)
<1>1. /\ IsApp(t) /\ SamePrompts(s, t) /\ SameExit(s, t) /\ SameData(s, t)
      /\ SameLosses(s, t) /\ SameExps(s, t) /\ NoSwitch(t)
      /\ t.sessions = s.sessions /\ t.nullDeref = s.nullDeref
  BY DEF IsApp, AppFields, ExecutePendingSwap, SamePrompts, SameExit, SameData, SameLosses,
         SameExps, SwitchTo, NoSwitch
<1>2. ASSUME NoSwitch(s), Len(s.sessions) \in Nat PROVE SameTabs(s, t)
  <2>1. 0 \notin TabIndices(s)
    BY <1>2
  <2> QED
    BY <1>2, <2>1 DEF IsApp, AppFields, ExecutePendingSwap, SameTabs, SwitchTo, NoSwitch
<1>3. ASSUME NEW idx \in TabIndices(s), SwitchTo(s, idx) PROVE t.active = s.sessions[idx]
  BY <1>3 DEF IsApp, AppFields, ExecutePendingSwap, SwitchTo
<1> QED
  BY <1>1, <1>2, <1>3

(* A tab goes, with all that is known of it; the indices behind it move up,  *)
(* and if it was the active one the Session tab is next.                     *)
LEMMA RemoveTabDoes ==
  ASSUME NEW s, IsApp(s), NEW idx \in TabIndices(s)
  PROVE  LET t       == RemoveTab(s, idx)
             key     == s.sessions[idx]
             leaves  == s.activeSessionIdx = idx /\ s.activeTabKind = "Workspace"
         IN
         /\ IsApp(t) /\ SameExps(s, t) /\ t.nullDeref = s.nullDeref
         /\ t.sessions = RemoveAt(s.sessions, idx)
         /\ t.active = (IF s.active = key THEN NoTab ELSE s.active)
         /\ t.activeTabKind = s.activeTabKind
         /\ t.activeSessionIdx = Reindex(s.activeSessionIdx, idx)
         /\ t.dirty = s.dirty \ {key} /\ t.stale = s.stale \ {key}
         /\ t.staleOnDisk = s.staleOnDisk \ {key} /\ t.pendingSaveKind = s.pendingSaveKind
         /\ t.consent = s.consent \ {key}
         /\ t.lost = s.lost \cup (({key} \cap s.dirty) \ s.consent)
         /\ t.pendingOpen = s.pendingOpen
         /\ t.pendingWorkspaceAction = s.pendingWorkspaceAction
         /\ t.showUnsavedPrompt = s.showUnsavedPrompt
         /\ t.showStaleDropPrompt = s.showStaleDropPrompt
         /\ t.pendingCloseAfterSwap = Reindex(s.pendingCloseAfterSwap, idx)
         /\ t.pendingTabCloseIdx = Reindex(s.pendingTabCloseIdx, idx)
         /\ t.pendingRemoveIdx = Reindex(s.pendingRemoveIdx, idx)
         /\ t.showExitDirtyModal = s.showExitDirtyModal
         /\ t.exitSaveAllRunning = s.exitSaveAllRunning
         /\ t.exitDirtyTabs = DirtyTabsWithout(s.exitDirtyTabs, idx)
         /\ t.exitTargetIsGoHome = s.exitTargetIsGoHome
         /\ t.pendingGoHome = s.pendingGoHome /\ t.shouldClose = s.shouldClose
         /\ t.exitDeferredClose = s.exitDeferredClose
         /\ leaves => /\ t.pendingSwapIdx = Reindex(0, idx) /\ t.pendingSwapToSession
                      /\ t.pendingExperimentIdx = 0
         /\ ~leaves => /\ t.pendingSwapIdx = Reindex(s.pendingSwapIdx, idx)
                       /\ t.pendingSwapToSession = s.pendingSwapToSession
                       /\ t.pendingExperimentIdx = s.pendingExperimentIdx
<1> DEFINE key     == s.sessions[idx]
           erased  == [s EXCEPT !.active = IF @ = key THEN NoTab ELSE @,
                                !.sessions = RemoveAt(@, idx),
                                !.activeSessionIdx = Reindex(@, idx),
                                !.dirty = @ \ {key}, !.stale = @ \ {key},
                                !.lost = @ \cup (({key} \cap s.dirty) \ s.consent),
                                !.consent = @ \ {key},
                                !.staleOnDisk = @ \ {key}]
           leaves  == s.activeSessionIdx = idx /\ s.activeTabKind = "Workspace"
           focused == IF leaves THEN FocusSessionTab(erased) ELSE erased
           t       == RemoveTab(s, idx)
<1>1. t = [focused EXCEPT
              !.lastActiveSessionIdx = Reindex(@, idx),
              !.pendingSwapIdx = Reindex(@, idx),
              !.pendingCloseAfterSwap = Reindex(@, idx),
              !.pendingTabCloseIdx = Reindex(@, idx),
              !.pendingRemoveIdx = Reindex(@, idx),
              !.exitSaveAllCursor = CursorWithout(s.exitDirtyTabs, @, idx),
              !.exitDirtyTabs = DirtyTabsWithout(@, idx)]
  BY DEF RemoveTab
<1> DEFINE Gone(u) ==
      /\ IsApp(u) /\ SameExps(s, u) /\ u.nullDeref = s.nullDeref
      /\ u.sessions = RemoveAt(s.sessions, idx)
      /\ u.active = (IF s.active = key THEN NoTab ELSE s.active)
      /\ u.activeTabKind = s.activeTabKind
      /\ u.activeSessionIdx = Reindex(s.activeSessionIdx, idx)
      /\ u.dirty = s.dirty \ {key} /\ u.stale = s.stale \ {key}
      /\ u.staleOnDisk = s.staleOnDisk \ {key} /\ u.pendingSaveKind = s.pendingSaveKind
      /\ u.consent = s.consent \ {key}
      /\ u.lost = s.lost \cup (({key} \cap s.dirty) \ s.consent)
<1>2. Gone(erased) /\ SamePrompts(s, erased) /\ SameExit(s, erased) /\ SameSwitch(s, erased)
  BY DEF IsApp, AppFields, SameExps, SamePrompts, SameExit, SameSwitch
<1> HIDE DEF erased
<1>3. Gone(focused) /\ SamePrompts(s, focused) /\ SameExit(s, focused)
  BY <1>2, FocusSessionTabDoes
  DEF SameButSwitch, SameExps, SamePrompts, SameExit, SameData, SameLosses, SameTabs
<1>4. /\ leaves => /\ focused.pendingSwapIdx = 0 /\ focused.pendingSwapToSession
                   /\ focused.pendingExperimentIdx = 0
      /\ ~leaves => SameSwitch(s, focused)
  BY <1>2, FocusSessionTabDoes
<1> HIDE DEF focused, t, leaves
<1>5. Gone(t)
  BY <1>1, <1>3 DEF IsApp, AppFields, SameExps
<1>6. /\ t.pendingOpen = s.pendingOpen
      /\ t.pendingWorkspaceAction = s.pendingWorkspaceAction
      /\ t.showUnsavedPrompt = s.showUnsavedPrompt
      /\ t.showStaleDropPrompt = s.showStaleDropPrompt
      /\ t.pendingCloseAfterSwap = Reindex(s.pendingCloseAfterSwap, idx)
      /\ t.pendingTabCloseIdx = Reindex(s.pendingTabCloseIdx, idx)
      /\ t.pendingRemoveIdx = Reindex(s.pendingRemoveIdx, idx)
  BY <1>1, <1>3 DEF IsApp, AppFields, SamePrompts
<1>7. /\ t.showExitDirtyModal = s.showExitDirtyModal
      /\ t.exitSaveAllRunning = s.exitSaveAllRunning
      /\ t.exitDirtyTabs = DirtyTabsWithout(s.exitDirtyTabs, idx)
      /\ t.exitTargetIsGoHome = s.exitTargetIsGoHome
      /\ t.pendingGoHome = s.pendingGoHome /\ t.shouldClose = s.shouldClose
      /\ t.exitDeferredClose = s.exitDeferredClose
  BY <1>1, <1>3 DEF IsApp, AppFields, SameExit
<1>8. /\ leaves => /\ t.pendingSwapIdx = Reindex(0, idx) /\ t.pendingSwapToSession
                   /\ t.pendingExperimentIdx = 0
      /\ ~leaves => /\ t.pendingSwapIdx = Reindex(s.pendingSwapIdx, idx)
                    /\ t.pendingSwapToSession = s.pendingSwapToSession
                    /\ t.pendingExperimentIdx = s.pendingExperimentIdx
  BY <1>1, <1>3, <1>4 DEF IsApp, AppFields, SameSwitch
<1> QED
  BY <1>5, <1>6, <1>7, <1>8 DEF leaves, t

(* What has to do with experiments changed, and at most the queued switch.   *)
OnlyExps(s, t) ==
  /\ IsApp(t) /\ SamePrompts(s, t) /\ SameExit(s, t) /\ SameData(s, t)
  /\ t.sessions = s.sessions /\ t.active = s.active
  /\ t.activeSessionIdx = s.activeSessionIdx /\ t.nullDeref = s.nullDeref

(* Two such changes are one.                                                 *)
LEMMA OnlyExpsTransitive ==
  ASSUME NEW s, NEW t, NEW u, OnlyExps(s, t), OnlyExps(t, u)
  PROVE  OnlyExps(s, u)
  BY DEF OnlyExps, SamePrompts, SameExit, SameData

(* Showing an experiment.                                                    *)
LEMMA ActivateExperimentDoes ==
  ASSUME NEW s, IsApp(s), NEW idx
  PROVE  LET t == ActivateExperiment(s, idx) IN
         OnlyExps(s, t) /\ SameTabs(s, t) /\ SameLosses(s, t)
  BY DEF IsApp, AppFields, ActivateExperiment, OnlyExps, SamePrompts, SameExit, SameData,
         SameTabs, SameLosses

(* Making an experiment.                                                     *)
LEMMA CreateExperimentDoes ==
  ASSUME NEW s, IsApp(s), NEW e
  PROVE  LET t == CreateExperiment(s, e) IN
         OnlyExps(s, t) /\ SameTabs(s, t) /\ SameLosses(s, t)
<1> DEFINE m == [s EXCEPT !.experiments = Append(@, e), !.expDirty = @ \cup {e}]
           t == ActivateExperiment(m, Len(s.experiments) + 1)
<1>1. OnlyExps(s, m) /\ SameTabs(s, m) /\ SameLosses(s, m)
  BY DEF IsApp, AppFields, OnlyExps, SamePrompts, SameExit, SameData, SameTabs, SameLosses
<1>2. CreateExperiment(s, e) = t
  BY DEF CreateExperiment
<1> HIDE DEF m
<1>3. OnlyExps(m, t) /\ SameTabs(m, t) /\ SameLosses(m, t)
  BY <1>1, ActivateExperimentDoes DEF OnlyExps
<1> HIDE DEF t
<1>4. OnlyExps(s, t)
  BY <1>1, <1>3, OnlyExpsTransitive
<1> QED
  BY <1>1, <1>2, <1>3, <1>4 DEF SameTabs, SameLosses

(* Removing an experiment, which may be the one shown.                       *)
LEMMA RemoveExperimentDoes ==
  ASSUME NEW s, IsApp(s), NEW idx \in Nat
  PROVE  LET t == RemoveExperiment(s, idx) IN
         /\ OnlyExps(s, t) /\ SameTabs(s, t)
         /\ s.activeTabKind # "Experiment" /\ NoSwitch(s) => NoSwitch(t)
         /\ s.experiments = << >> => SameLosses(s, t)
<1> DEFINE e       == s.experiments[idx]
           erased  == [s EXCEPT !.experiments = RemoveAt(@, idx),
                           !.expDirty = @ \ {e}, !.expHidden = @ \ {e},
                           !.expSaved = @ \ {e},
                           !.lost = @ \cup (({e} \cap s.expDirty) \ s.consent),
                           !.consent = @ \ {e}]
           r       == [erased EXCEPT !.activeExperimentIdx = Reindex(@, idx)]
           refocus == IF s.activeTabKind # "Experiment" THEN erased
                      ELSE IF r.activeExperimentIdx = 0 THEN FocusSessionTab(r) ELSE r
           u       == [refocus EXCEPT
                         !.pendingExperimentIdx = Reindex(@, idx),
                         !.exitDirtyExperiments = {Reindex(x, idx) : x \in @ \ {idx}}]
           t       == RemoveExperiment(s, idx)
<1>1. OnlyExps(s, erased) /\ SameTabs(s, erased) /\ SameSwitch(s, erased)
  BY DEF IsApp, AppFields, OnlyExps, SamePrompts, SameExit, SameData, SameTabs, SameSwitch
<1> HIDE DEF erased
<1>2. OnlyExps(s, r) /\ SameTabs(s, r)
  BY <1>1 DEF OnlyExps, IsApp, AppFields, SamePrompts, SameExit, SameData, SameTabs
<1> HIDE DEF r
<1>3. OnlyExps(s, FocusSessionTab(r)) /\ SameTabs(s, FocusSessionTab(r))
  BY <1>2, FocusSessionTabDoes
  DEF OnlyExps, SameButSwitch, SamePrompts, SameExit, SameData, SameTabs
<1>4. /\ OnlyExps(s, refocus) /\ SameTabs(s, refocus)
      /\ s.activeTabKind # "Experiment" => SameSwitch(s, refocus)
  BY <1>1, <1>2, <1>3
<1> HIDE DEF refocus
<1>5. /\ OnlyExps(s, u) /\ SameTabs(s, u)
      /\ u.pendingExperimentIdx = Reindex(refocus.pendingExperimentIdx, idx)
      /\ u.pendingSwapIdx = refocus.pendingSwapIdx
      /\ u.pendingSwapToSession = refocus.pendingSwapToSession
  BY <1>4 DEF OnlyExps, IsApp, AppFields, SamePrompts, SameExit, SameData, SameTabs
<1>6. t = IF idx \notin ExpIndices(s) THEN s ELSE u
  BY DEF RemoveExperiment, u, refocus, r, erased
<1> HIDE DEF u, t
<1>7. s.activeTabKind # "Experiment" /\ NoSwitch(s) => NoSwitch(u)
  BY <1>4, <1>5 DEF SameSwitch, NoSwitch, SwitchTo, Reindex
<1>8. OnlyExps(s, s) /\ SameTabs(s, s)
  BY DEF OnlyExps, SamePrompts, SameExit, SameData, SameTabs
<1>9. s.experiments = << >> => t = s
  BY <1>6
<1> QED
  BY <1>5, <1>6, <1>7, <1>8, <1>9 DEF t, SameLosses

(* The x of an experiment hides it.                                          *)
LEMMA CloseRequestDoes ==
  ASSUME NEW s, IsApp(s), NEW idx
  PROVE  LET t == CloseRequest(s, idx) IN
         OnlyExps(s, t) /\ SameTabs(s, t) /\ SameLosses(s, t)
<1> DEFINE h == IF s.experiments[idx] \in s.expHidden THEN s
                ELSE [s EXCEPT !.expHidden = @ \cup {s.experiments[idx]},
                               !.expDirty = @ \cup {s.experiments[idx]}]
<1>1. OnlyExps(s, h) /\ SameTabs(s, h) /\ SameLosses(s, h)
  BY DEF IsApp, AppFields, OnlyExps, SamePrompts, SameExit, SameData, SameTabs, SameLosses
<1>2. CloseRequest(s, idx) = FocusSessionTab(h)
  BY DEF CloseRequest
<1> HIDE DEF h
<1> QED
  BY <1>1, <1>2, FocusSessionTabDoes
  DEF OnlyExps, SameButSwitch, SamePrompts, SameExit, SameData, SameTabs, SameLosses

(* Deleting an experiment: the question, and its answers. *)
LEMMA ExperimentDeleteDoes ==
  ASSUME NEW s, s \in AppStates
  PROVE  /\ \A idx \in Nat : LET t == RequestDelete(s, idx) IN
              /\ OnlyExps(s, t) /\ SameTabs(s, t)
              /\ s.experiments = << >> => SameLosses(s, t)
         /\ LET t == ConfirmExperimentDelete(s) IN
              /\ OnlyExps(s, t) /\ SameTabs(s, t)
              /\ s.activeTabKind # "Experiment" /\ NoSwitch(s) => NoSwitch(t)
              /\ s.experiments = << >> => SameLosses(s, t)
         /\ LET t == CancelExperimentDelete(s) IN
              OnlyExps(s, t) /\ SameTabs(s, t) /\ SameSwitch(s, t) /\ SameLosses(s, t)
<1>0. IsApp(s) /\ s.pendingExperimentDeleteIdx \in Nat
  BY FieldsOf DEF AppStates
<1>1. ASSUME NEW v
      PROVE  LET q == [s EXCEPT !.pendingExperimentDeleteIdx = v] IN
             OnlyExps(s, q) /\ SameTabs(s, q) /\ SameSwitch(s, q) /\ SameLosses(s, q)
  BY <1>0 DEF IsApp, AppFields, OnlyExps, SamePrompts, SameExit, SameData, SameTabs,
              SameSwitch, SameLosses
<1>2. ASSUME NEW idx \in Nat
      PROVE  LET t == RequestDelete(s, idx) IN
             /\ OnlyExps(s, t) /\ SameTabs(s, t)
             /\ s.experiments = << >> => SameLosses(s, t)
  BY <1>0, <1>1, RemoveExperimentDoes DEF RequestDelete
<1>3. LET t == ConfirmExperimentDelete(s) IN
        /\ OnlyExps(s, t) /\ SameTabs(s, t)
        /\ s.activeTabKind # "Experiment" /\ NoSwitch(s) => NoSwitch(t)
        /\ s.experiments = << >> => SameLosses(s, t)
  <2> DEFINE idx == s.pendingExperimentDeleteIdx
             agreed == {s.experiments[i] : i \in {idx} \cap ExpIndices(s)}
             c == [s EXCEPT !.consent = @ \cup agreed]
             r == RemoveExperiment(c, idx)
             t == [r EXCEPT !.pendingExperimentDeleteIdx = 0]
  <2>1. OnlyExps(s, c) /\ SameTabs(s, c) /\ SameSwitch(s, c) /\ c.lost = s.lost
        /\ c.consent = s.consent \cup agreed /\ c.experiments = s.experiments
    BY <1>0 DEF IsApp, AppFields, OnlyExps, SamePrompts, SameExit, SameData, SameTabs,
                SameSwitch
  <2>2. s.experiments = << >> => agreed = {}
    OBVIOUS
  <2> HIDE DEF c, agreed
  <2>3. /\ OnlyExps(c, r) /\ SameTabs(c, r)
        /\ c.activeTabKind # "Experiment" /\ NoSwitch(c) => NoSwitch(r)
        /\ c.experiments = << >> => SameLosses(c, r)
    BY <1>0, <2>1, RemoveExperimentDoes DEF OnlyExps
  <2> HIDE DEF r
  <2>4. OnlyExps(r, t) /\ SameTabs(r, t) /\ SameSwitch(r, t) /\ SameLosses(r, t)
    BY <2>3 DEF IsApp, AppFields, OnlyExps, SamePrompts, SameExit, SameData, SameTabs,
                SameSwitch, SameLosses
  <2>5. ConfirmExperimentDelete(s) = t
    BY DEF ConfirmExperimentDelete, r, c, agreed
  <2> HIDE DEF t
  <2>6. OnlyExps(s, t)
    BY <2>1, <2>3, <2>4, OnlyExpsTransitive
  <2>7. SameTabs(s, t)
    BY <2>1, <2>3, <2>4 DEF SameTabs
  <2>8. s.activeTabKind # "Experiment" /\ NoSwitch(s) => NoSwitch(t)
    BY <2>1, <2>3, <2>4 DEF SameTabs, SameSwitch, NoSwitch, SwitchTo
  <2>9. s.experiments = << >> => SameLosses(s, t)
    BY <2>1, <2>2, <2>3, <2>4 DEF SameLosses
  <2> QED
    BY <2>5, <2>6, <2>7, <2>8, <2>9
<1>4. CancelExperimentDelete(s) = [s EXCEPT !.pendingExperimentDeleteIdx = 0]
  BY DEF CancelExperimentDelete
<1> QED
  BY <1>1, <1>2, <1>3, <1>4

(* All experiments are dropped: those not saved are lost if nobody agreed.   *)
LEMMA ClearExperimentsDoes ==
  ASSUME NEW s, IsApp(s)
  PROVE  LET t == ClearExperiments(s) IN
         /\ OnlyExps(s, t)
         /\ t.activeTabKind = IF s.activeTabKind = "Experiment" THEN "Session"
                              ELSE s.activeTabKind
         /\ t.experiments = << >> /\ t.expDirty = {} /\ t.expSaved = {}
         /\ t.consent = s.consent \cap Keys
         /\ t.lost = s.lost \cup (s.expDirty \ s.consent)
         /\ t.multiWorkspaceOpen = s.multiWorkspaceOpen /\ t.welcome = s.welcome
         /\ t.exitDirtyExperiments = s.exitDirtyExperiments
         /\ s.pendingSwapIdx = t.pendingSwapIdx
         /\ s.pendingSwapToSession = t.pendingSwapToSession
  BY DEF IsApp, AppFields, ClearExperiments, OnlyExps, SamePrompts, SameExit, SameData

(* The stored experiments come behind those in memory.                       *)
LEMMA LoadExperimentsDoes ==
  ASSUME NEW s, IsApp(s), NEW saved
  PROVE  LET t == LoadExperiments(s, saved) IN
         /\ OnlyExps(s, t) /\ SameTabs(s, t) /\ SameSwitch(s, t) /\ SameLosses(s, t)
         /\ t.experiments = s.experiments \o saved /\ t.expDirty = s.expDirty
         /\ t.expSaved = s.expSaved \cup Range(saved)
         /\ t.multiWorkspaceOpen = s.multiWorkspaceOpen /\ t.welcome = s.welcome
         /\ t.exitDirtyExperiments = s.exitDirtyExperiments
  BY DEF IsApp, AppFields, LoadExperiments, OnlyExps, SamePrompts, SameExit, SameData,
         SameTabs, SameSwitch, SameLosses

(* An experiment gets clean only by being written. *)
ExpsWritten(s, t) ==
  /\ t.expDirty \subseteq s.expDirty /\ s.expSaved \subseteq t.expSaved
  /\ s.expDirty \ t.expDirty \subseteq t.expSaved

(* The listed experiments among the first n are clean. *)
CleanUpTo(s, t, listed, n) ==
  \A i \in listed \cap ExpIndices(s) : i <= n => s.experiments[i] \notin t.expDirty

(* Experiments are written.                                                  *)
LEMMA SaveExperimentsDoes ==
  ASSUME NEW s, IsApp(s), NEW listed, NEW n
  PROVE  LET t == SaveExperiments(s, listed, n) IN
         /\ OnlyExps(s, t) /\ SameTabs(s, t) /\ SameSwitch(s, t) /\ SameLosses(s, t)
         /\ t.experiments = s.experiments /\ t.expDirty \subseteq s.expDirty
         /\ t.multiWorkspaceOpen = s.multiWorkspaceOpen /\ t.welcome = s.welcome
         /\ t.exitDirtyExperiments = s.exitDirtyExperiments
         /\ n \in Nat => ExpsWritten(s, t) /\ CleanUpTo(s, t, listed, n)
<1> DEFINE t == SaveExperiments(s, listed, n)
           chosen(upTo) ==
             {s.experiments[i] : i \in listed \cap ExpIndices(s) \cap 1 .. upTo}
             \cap s.expDirty
<1>1. /\ OnlyExps(s, t) /\ SameTabs(s, t) /\ SameSwitch(s, t) /\ SameLosses(s, t)
      /\ t.experiments = s.experiments /\ t.expDirty \subseteq s.expDirty
      /\ t.multiWorkspaceOpen = s.multiWorkspaceOpen /\ t.welcome = s.welcome
      /\ t.exitDirtyExperiments = s.exitDirtyExperiments
  BY DEF IsApp, AppFields, SaveExperiments, OnlyExps, SamePrompts, SameExit, SameData,
         SameTabs, SameSwitch, SameLosses
<1>2. t.expDirty = s.expDirty \ chosen(n) /\ t.expSaved = s.expSaved \cup chosen(n + 1)
  BY DEF IsApp, AppFields, SaveExperiments
<1>3. ASSUME n \in Nat PROVE chosen(n) \subseteq chosen(n + 1)
  BY <1>3
<1>4. ASSUME n \in Nat, NEW i \in listed \cap ExpIndices(s), i <= n
      PROVE  s.experiments[i] \in chosen(n) \/ s.experiments[i] \notin s.expDirty
  BY <1>4
<1> HIDE DEF t, chosen
<1>5. n \in Nat => ExpsWritten(s, t) /\ CleanUpTo(s, t, listed, n)
  BY <1>2, <1>3, <1>4 DEF ExpsWritten, CleanUpTo
<1> QED
  BY <1>1, <1>5 DEF t

(* The experiment shown is changed.                                          *)
LEMMA EditActiveExperimentDoes ==
  ASSUME NEW s, IsApp(s)
  PROVE  LET t == EditActiveExperiment(s) IN
         OnlyExps(s, t) /\ SameTabs(s, t) /\ SameSwitch(s, t)
  BY DEF IsApp, AppFields, EditActiveExperiment, OnlyExps, SamePrompts, SameExit, SameData,
         SameTabs, SameSwitch

(* As OnlyExps, but tabs may have been added behind the others.              *)
MoreTabs(s, t) ==
  /\ IsApp(t) /\ SamePrompts(s, t) /\ SameExit(s, t) /\ SameData(s, t)
  /\ t.active = s.active /\ t.activeSessionIdx = s.activeSessionIdx
  /\ t.nullDeref = s.nullDeref
  /\ \A i \in TabIndices(s) : i \in TabIndices(t) /\ t.sessions[i] = s.sessions[i]

(* A change of experiments is one that adds no tab.                          *)
LEMMA OnlyExpsIsMoreTabs ==
  ASSUME NEW s, NEW t, OnlyExps(s, t)
  PROVE  MoreTabs(s, t)
  BY DEF OnlyExps, MoreTabs

(* Two such changes are one.                                                 *)
LEMMA MoreTabsTransitive ==
  ASSUME NEW s, NEW t, NEW u, MoreTabs(s, t), MoreTabs(t, u)
  PROVE  MoreTabs(s, u)
<1>1. \A i \in TabIndices(s) : i \in TabIndices(u) /\ u.sessions[i] = s.sessions[i]
  BY DEF MoreTabs
<1> QED
  BY <1>1 DEF MoreTabs, SamePrompts, SameExit, SameData

(* The losses when the experiments are dropped.                              *)
ExpsDropped(s, t) ==
  /\ t.consent = s.consent \/ t.consent = s.consent \cap Keys
  /\ t.lost = s.lost \/ t.lost = s.lost \cup (s.expDirty \ s.consent)
  /\ \/ t.activeTabKind = s.activeTabKind
     \/ s.activeTabKind = "Experiment" /\ t.activeTabKind = "Session"

(* A project's tabs are reopened behind the others.                          *)
LEMMA RestoreTabsDoes ==
  ASSUME NEW s, IsApp(s), s.sessions \in Seq(Keys), NEW tabs \in Seq(Keys)
  PROVE  LET t == RestoreOpenEmbeddedTabs(s, tabs) IN
         /\ MoreTabs(s, t) /\ SameSwitch(s, t) /\ SameLosses(s, t) /\ SameExps(s, t)
         /\ t.activeTabKind = s.activeTabKind /\ t.sessions = s.sessions \o tabs
<1> DEFINE t == RestoreOpenEmbeddedTabs(s, tabs)
<1>1. /\ IsApp(t) /\ SamePrompts(s, t) /\ SameExit(s, t) /\ SameData(s, t)
      /\ SameSwitch(s, t) /\ SameLosses(s, t) /\ SameExps(s, t)
      /\ t.active = s.active /\ t.activeSessionIdx = s.activeSessionIdx
      /\ t.activeTabKind = s.activeTabKind /\ t.nullDeref = s.nullDeref
      /\ t.sessions = s.sessions \o tabs
  BY DEF IsApp, AppFields, RestoreOpenEmbeddedTabs, SamePrompts, SameExit, SameData,
         SameSwitch, SameLosses, SameExps
<1> HIDE DEF t
<1>2. \A i \in TabIndices(s) : i \in TabIndices(t) /\ t.sessions[i] = s.sessions[i]
  BY <1>1
<1> QED
  BY <1>1, <1>2 DEF MoreTabs, t

(* The tabs to reopen are keys.                                              *)
LEMMA ReopenableTyped ==
  ASSUME NEW s, NEW tabs \in ReopenableTabs(s)
  PROVE  tabs \in Seq(Keys)
<1>1. \A k \in EmbeddedKeys : <<k>> \in Seq(Keys)
  BY DEF Keys
<1>2. << >> \in Seq(Keys)
  OBVIOUS
<1> QED
  BY <1>1, <1>2 DEF ReopenableTabs

(* A project is opened: nothing happens if it cannot be read.                *)
LEMMA OpenProjectDoes ==
  ASSUME NEW s, IsApp(s), s.sessions \in Seq(Keys), NEW outcome \in ProjectOutcomes,
         NEW saved, NEW tabs \in Seq(Keys)
  PROVE  LET t == OpenProject(s, outcome, saved, tabs) IN
         /\ MoreTabs(s, t) /\ ExpsDropped(s, t)
         /\ outcome # "unreadable" =>
              /\ t.pendingSwapIdx = s.pendingSwapIdx
              /\ t.pendingSwapToSession = s.pendingSwapToSession
         /\ outcome = "unreadable" => t = s
         /\ outcome = "opened" => t.sessions = s.sessions \o tabs
         /\ outcome # "opened" => t.sessions = s.sessions
         /\ t.welcome = s.welcome
<1> DEFINE e == ClearExperiments(s)
           c == [e EXCEPT !.multiWorkspaceOpen = TRUE]
           l == LoadExperiments(c, saved)
           r == RestoreOpenEmbeddedTabs(l, tabs)
           t == OpenProject(s, outcome, saved, tabs)
<1>1. /\ OnlyExps(s, e) /\ ExpsDropped(s, e) /\ e.welcome = s.welcome
      /\ e.pendingSwapIdx = s.pendingSwapIdx
      /\ e.pendingSwapToSession = s.pendingSwapToSession
  BY ClearExperimentsDoes DEF ExpsDropped
<1> HIDE DEF e
<1>2. /\ OnlyExps(s, c) /\ ExpsDropped(s, c) /\ c.welcome = s.welcome
      /\ c.pendingSwapIdx = s.pendingSwapIdx
      /\ c.pendingSwapToSession = s.pendingSwapToSession
  BY <1>1 DEF OnlyExps, ExpsDropped, IsApp, AppFields, SamePrompts, SameExit, SameData
<1>3. t = CASE outcome = "unreadable" -> s
            [] outcome = "experimentsUnreadable" -> c
            [] outcome = "opened" -> r
  BY DEF OpenProject, c, e
<1> HIDE DEF c
<1>4. /\ OnlyExps(c, l) /\ SameTabs(c, l) /\ SameSwitch(c, l) /\ SameLosses(c, l)
      /\ l.welcome = c.welcome
  BY <1>2, LoadExperimentsDoes DEF OnlyExps
<1> HIDE DEF l
<1>5. IsApp(l) /\ l.sessions = s.sessions
  BY <1>2, <1>4 DEF OnlyExps
<1>6. /\ MoreTabs(l, r) /\ SameSwitch(l, r) /\ SameLosses(l, r) /\ SameExps(l, r)
      /\ r.activeTabKind = l.activeTabKind /\ r.sessions = l.sessions \o tabs
  BY <1>5, RestoreTabsDoes
<1> HIDE DEF r, t
<1>7. MoreTabs(s, c) /\ MoreTabs(s, l)
  BY <1>2, <1>4, OnlyExpsTransitive, OnlyExpsIsMoreTabs
<1>8. MoreTabs(s, r)
  BY <1>6, <1>7, MoreTabsTransitive
<1>9. ExpsDropped(s, r)
  BY <1>2, <1>4, <1>6 DEF ExpsDropped, SameLosses, SameTabs
<1>10. MoreTabs(s, s) /\ ExpsDropped(s, s)
  BY DEF MoreTabs, ExpsDropped, SamePrompts, SameExit, SameData
<1>11. /\ r.pendingSwapIdx = s.pendingSwapIdx
       /\ r.pendingSwapToSession = s.pendingSwapToSession
       /\ r.welcome = s.welcome /\ r.sessions = s.sessions \o tabs
       /\ c.sessions = s.sessions
  BY <1>2, <1>4, <1>5, <1>6 DEF SameSwitch, SameExps, OnlyExps
<1>12. CASE outcome = "unreadable"
  BY <1>3, <1>10, <1>12 DEF t
<1>13. CASE outcome = "experimentsUnreadable"
  BY <1>2, <1>3, <1>7, <1>11, <1>13 DEF t
<1>14. CASE outcome = "opened"
  BY <1>3, <1>8, <1>9, <1>11, <1>14 DEF t
<1> QED
  BY <1>12, <1>13, <1>14 DEF ProjectOutcomes

(* Saving the active tab. *)
LEMMA DoSaveWorkspaceDoes ==
  ASSUME NEW s, IsApp(s)
  PROVE  LET t == DoSaveWorkspace(s) IN
         /\ IsApp(t) /\ SamePrompts(s, t) /\ SameSwitch(s, t) /\ SameExit(s, t)
         /\ SameTabs(s, t) /\ SameLosses(s, t) /\ SameExps(s, t)
         /\ t.nullDeref = s.nullDeref /\ t.pendingSaveKind = s.pendingSaveKind
         /\ t.dirty = s.dirty \ {s.active} /\ t.stale = s.stale
         /\ t.staleOnDisk = s.staleOnDisk \ {s.active}
  BY DEF IsApp, AppFields, DoSaveWorkspace, SamePrompts, SameSwitch, SameExit, SameTabs,
         SameLosses, SameExps

(* Ctrl+S leaves alone what is not about saving.                             *)
LEMMA SaveEverythingDoes ==
  ASSUME NEW s, IsApp(s), NEW m, NEW n
  PROVE  LET t == SaveEverything(s, m, n) IN
         /\ IsApp(t) /\ SamePrompts(s, t) /\ SameSwitch(s, t) /\ SameExit(s, t)
         /\ SameTabs(s, t) /\ SameLosses(s, t)
         /\ t.nullDeref = s.nullDeref /\ t.pendingSaveKind = s.pendingSaveKind
         /\ t.dirty \subseteq s.dirty /\ t.stale = s.stale
         /\ s.staleOnDisk \subseteq t.staleOnDisk
         /\ t.staleOnDisk \subseteq s.staleOnDisk \cup s.stale
         /\ t.experiments = s.experiments
         /\ t.multiWorkspaceOpen = s.multiWorkspaceOpen /\ t.welcome = s.welcome
         /\ t.exitDirtyExperiments = s.exitDirtyExperiments
         /\ n \in Nat => ExpsWritten(s, t)
<1> DEFINE written == {s.sessions[i] : i \in 1 .. m} \cap s.dirty
           tabs    == [s EXCEPT !.dirty = @ \ written,
                                !.staleOnDisk = @ \cup (written \cap s.stale)]
           t == SaveEverything(s, m, n)
           Saved(u) ==
             /\ IsApp(u) /\ SamePrompts(s, u) /\ SameSwitch(s, u) /\ SameExit(s, u)
             /\ SameTabs(s, u) /\ SameLosses(s, u)
             /\ u.nullDeref = s.nullDeref /\ u.pendingSaveKind = s.pendingSaveKind
             /\ u.dirty \subseteq s.dirty /\ u.stale = s.stale
             /\ s.staleOnDisk \subseteq u.staleOnDisk
             /\ u.staleOnDisk \subseteq s.staleOnDisk \cup s.stale
             /\ u.experiments = s.experiments
             /\ u.multiWorkspaceOpen = s.multiWorkspaceOpen /\ u.welcome = s.welcome
             /\ u.exitDirtyExperiments = s.exitDirtyExperiments
             /\ n \in Nat => ExpsWritten(s, u)
<1>1. Saved(tabs)
  BY DEF IsApp, AppFields, SamePrompts, SameSwitch, SameExit, SameTabs, SameLosses,
         ExpsWritten
<1>2. t = IF m < Len(s.sessions) \/ ~s.multiWorkspaceOpen THEN tabs
          ELSE SaveExperiments(tabs, ExpIndices(s), n)
  BY DEF SaveEverything
<1>3. tabs.expDirty = s.expDirty /\ tabs.expSaved = s.expSaved
  BY DEF IsApp, AppFields
<1> HIDE DEF tabs
<1>4. Saved(SaveExperiments(tabs, ExpIndices(s), n))
  <2> DEFINE u == SaveExperiments(tabs, ExpIndices(s), n)
  <2>1. /\ OnlyExps(tabs, u) /\ SameTabs(tabs, u) /\ SameSwitch(tabs, u) /\ SameLosses(tabs, u)
        /\ u.experiments = tabs.experiments
        /\ u.multiWorkspaceOpen = tabs.multiWorkspaceOpen /\ u.welcome = tabs.welcome
        /\ u.exitDirtyExperiments = tabs.exitDirtyExperiments
        /\ n \in Nat => ExpsWritten(tabs, u)
    BY <1>1, SaveExperimentsDoes
  <2> HIDE DEF u
  <2>2. Saved(u)
    BY <1>1, <1>3, <2>1
    DEF OnlyExps, SamePrompts, SameSwitch, SameExit, SameTabs, SameLosses, SameData,
        ExpsWritten
  <2> QED
    BY <2>2 DEF u
<1> HIDE DEF Saved
<1>5. Saved(t)
  BY <1>1, <1>2, <1>4
<1> QED
  BY <1>5 DEF Saved

(* The active tab is changed, and its saved results may go stale by it.      *)
LEMMA EditActiveTabDoes ==
  ASSUME NEW s, IsApp(s), NEW spoils
  PROVE  LET t == EditActiveTab(s, spoils) IN
         /\ IsApp(t) /\ SamePrompts(s, t) /\ SameSwitch(s, t) /\ SameExit(s, t)
         /\ SameTabs(s, t) /\ SameExps(s, t)
         /\ t.nullDeref = s.nullDeref /\ t.pendingSaveKind = s.pendingSaveKind
         /\ t.dirty = s.dirty \cup {s.active} /\ t.consent = s.consent \ {s.active}
         /\ t.lost = s.lost
         /\ ~spoils => t.stale = s.stale /\ t.staleOnDisk = s.staleOnDisk
         /\ spoils => /\ t.stale = s.stale \cup {s.active}
                      /\ t.staleOnDisk = s.staleOnDisk \cup {s.active}
  BY DEF IsApp, AppFields, EditActiveTab, SamePrompts, SameSwitch, SameExit, SameTabs, SameExps

(* The record with another value of one of the fields of a prompt. *)
SameButPrompts(s, t) ==
  /\ IsApp(t) /\ SameSwitch(s, t) /\ SameExit(s, t) /\ SameTabs(s, t) /\ SameData(s, t)
  /\ SameLosses(s, t) /\ SameExps(s, t)

(* The program went through the null pointer, and did no other harm.         *)
Crashed(s, t) ==
  /\ t.nullDeref = TRUE /\ SameExit(s, t) /\ t.sessions = s.sessions
  /\ t.staleOnDisk = s.staleOnDisk /\ t.lost = s.lost /\ t.consent = s.consent
  /\ SameExps(s, t)

(* The null pointer changes nothing else.                                    *)
LEMMA CrashDoes ==
  ASSUME NEW s, IsApp(s)
  PROVE  LET t == Crash(s) IN
         IsApp(t) /\ t.nullDeref = TRUE /\ SameButPrompts(s, t) /\ SamePrompts(s, t)
  BY DEF IsApp, AppFields, Crash, SameButPrompts, SamePrompts, SameSwitch, SameExit, SameTabs,
         SameData, SameLosses, SameExps

(* Save As, and the shortcuts for saving: the stale prompt may come up.      *)
LEMMA RequestSavesDo ==
  ASSUME NEW s, IsApp(s)
  PROVE  /\ LET t == RequestSaveEverything(s) IN
              /\ IsApp(t) /\ SamePrompts(s, t) /\ SameSwitch(s, t) /\ SameExit(s, t)
              /\ SameTabs(s, t) /\ SameLosses(s, t) /\ SameExps(s, t)
              /\ t.nullDeref = s.nullDeref
              /\ t.dirty = s.dirty /\ t.stale = s.stale /\ t.staleOnDisk = s.staleOnDisk
              /\ t.pendingSaveKind \in {s.pendingSaveKind, "Everything"}
         /\ LET t == RequestSaveAs(s) IN
              /\ IsApp(t) /\ SameSwitch(s, t) /\ SameExit(s, t)
              /\ SameTabs(s, t) /\ SameLosses(s, t) /\ SameExps(s, t)
              /\ t.dirty = s.dirty /\ t.stale = s.stale /\ t.staleOnDisk = s.staleOnDisk
              /\ t.pendingOpen = s.pendingOpen
              /\ t.pendingCloseAfterSwap = s.pendingCloseAfterSwap
              /\ t.pendingRemoveIdx = s.pendingRemoveIdx
              /\ t.pendingTabCloseIdx = s.pendingTabCloseIdx
              /\ t.pendingWorkspaceAction = s.pendingWorkspaceAction
              /\ t.showUnsavedPrompt = s.showUnsavedPrompt
              /\ t.pendingSaveKind \in {s.pendingSaveKind, "Workspace"}
              /\ t.showStaleDropPrompt # s.showStaleDropPrompt =>
                   s.active \in s.stale /\ ~s.exitSaveAllRunning /\ ~s.showExitDirtyModal
              /\ t.pendingSaveKind # s.pendingSaveKind =>
                   /\ s.active \notin s.stale /\ s.active # NoTab
                   /\ ~s.exitSaveAllRunning /\ ~s.showExitDirtyModal
<1>1. \A v : LET t == [s EXCEPT !.pendingSaveKind = v] IN
        /\ IsApp(t) /\ SamePrompts(s, t) /\ SameSwitch(s, t) /\ SameExit(s, t)
        /\ SameTabs(s, t) /\ SameLosses(s, t) /\ SameExps(s, t)
        /\ t.nullDeref = s.nullDeref /\ t.pendingSaveKind = v
        /\ t.dirty = s.dirty /\ t.stale = s.stale /\ t.staleOnDisk = s.staleOnDisk
  BY DEF IsApp, AppFields, SamePrompts, SameSwitch, SameExit, SameTabs, SameLosses, SameExps
<1>2. SamePrompts(s, s) /\ SameSwitch(s, s) /\ SameExit(s, s) /\ SameTabs(s, s)
      /\ SameLosses(s, s) /\ SameExps(s, s)
  BY DEF SamePrompts, SameSwitch, SameExit, SameTabs, SameLosses, SameExps
<1>3. LET t == [s EXCEPT !.showStaleDropPrompt = TRUE] IN
        /\ SameButPrompts(s, t)
        /\ t.pendingOpen = s.pendingOpen
        /\ t.pendingCloseAfterSwap = s.pendingCloseAfterSwap
        /\ t.pendingRemoveIdx = s.pendingRemoveIdx
        /\ t.pendingTabCloseIdx = s.pendingTabCloseIdx
        /\ t.pendingWorkspaceAction = s.pendingWorkspaceAction
        /\ t.showUnsavedPrompt = s.showUnsavedPrompt
  BY DEF IsApp, AppFields, SameButPrompts, SameSwitch, SameExit, SameTabs, SameData,
         SameLosses, SameExps
<1>4. LET t == RequestSaveEverything(s) IN
              /\ IsApp(t) /\ SamePrompts(s, t) /\ SameSwitch(s, t) /\ SameExit(s, t)
              /\ SameTabs(s, t) /\ SameLosses(s, t) /\ SameExps(s, t)
              /\ t.nullDeref = s.nullDeref
              /\ t.dirty = s.dirty /\ t.stale = s.stale /\ t.staleOnDisk = s.staleOnDisk
              /\ t.pendingSaveKind \in {s.pendingSaveKind, "Everything"}
  BY <1>1, <1>2 DEF RequestSaveEverything
<1> DEFINE t == RequestSaveAs(s)
<1>5. CASE ~SaveDeferAllowed(s)
  <2>1. t = s
    BY <1>5 DEF RequestSaveAs
  <2> HIDE DEF t
  <2> QED
    BY <1>2, <1>4, <2>1 DEF t
<1>6. CASE SaveDeferAllowed(s) /\ s.active = NoTab
  <2>1. t = Crash(s)
    BY <1>6 DEF RequestSaveAs
  <2>2. SameButPrompts(s, t) /\ SamePrompts(s, t)
    BY <2>1, CrashDoes
  <2> HIDE DEF t
  <2> QED
    BY <1>4, <2>2 DEF t, SameButPrompts, SamePrompts, SameData
<1>7. CASE SaveDeferAllowed(s) /\ s.active # NoTab /\ s.active \in s.stale
  <2>1. t = [s EXCEPT !.showStaleDropPrompt = TRUE]
    BY <1>7 DEF RequestSaveAs
  <2>2. ~s.exitSaveAllRunning /\ ~s.showExitDirtyModal
    BY <1>7 DEF SaveDeferAllowed
  <2> HIDE DEF t
  <2> QED
    BY <1>3, <1>4, <1>7, <2>1, <2>2 DEF t, SameButPrompts, SameData
<1>8. CASE SaveDeferAllowed(s) /\ s.active # NoTab /\ s.active \notin s.stale
  <2>1. t = [s EXCEPT !.pendingSaveKind = "Workspace"]
    BY <1>8 DEF RequestSaveAs
  <2>2. ~s.exitSaveAllRunning /\ ~s.showExitDirtyModal
    BY <1>8 DEF SaveDeferAllowed
  <2> HIDE DEF t
  <2> QED
    BY <1>1, <1>4, <1>8, <2>1, <2>2 DEF t, SamePrompts
<1> QED
  BY <1>5, <1>6, <1>7, <1>8

(* What is not about leaving is left alone. *)
SameButExit(s, t) ==
  /\ IsApp(t) /\ SamePrompts(s, t) /\ SameSwitch(s, t) /\ SameTabs(s, t) /\ SameData(s, t)
  /\ SameLosses(s, t) /\ t.nullDeref = s.nullDeref
  /\ t.experiments = s.experiments /\ t.expDirty = s.expDirty /\ t.expSaved = s.expSaved
  /\ t.multiWorkspaceOpen = s.multiWorkspaceOpen /\ t.welcome = s.welcome

(* The exit modal has come up for what was collected.                        *)
ModalShown(s, t, order) ==
  /\ SameButExit(s, t) /\ t.showExitDirtyModal /\ t.exitDirtyTabs = order
  /\ t.exitDirtyExperiments = DirtyExperimentIndices(s)
  /\ t.exitSaveAllRunning = s.exitSaveAllRunning
  /\ t.pendingGoHome = s.pendingGoHome

(* Ctrl+H is ignored, or goes home, or asks about what is dirty.             *)
LEMMA RequestGoHomeDoes ==
  ASSUME NEW s, IsApp(s), NEW order
  PROVE  LET t == RequestGoHome(s, order) IN
         \/ t = s
         \/ /\ ~DirtyFlowPending(s) /\ NothingCollected(s)
            /\ SameButExit(s, t) /\ t.pendingGoHome
            /\ t.showExitDirtyModal = s.showExitDirtyModal
            /\ t.exitSaveAllRunning = s.exitSaveAllRunning
            /\ t.exitTargetIsGoHome = s.exitTargetIsGoHome
            /\ t.shouldClose = s.shouldClose /\ t.exitDeferredClose = s.exitDeferredClose
            /\ t.exitDirtyTabs = s.exitDirtyTabs
            /\ t.exitSaveAllCursor = s.exitSaveAllCursor
         \/ /\ ~DirtyFlowPending(s) /\ ~NothingCollected(s)
            /\ ModalShown(s, t, order)
            /\ t.shouldClose = s.shouldClose /\ t.exitDeferredClose = s.exitDeferredClose
<1> DEFINE t == RequestGoHome(s, order)
           home == [s EXCEPT !.pendingGoHome = TRUE, !.exitDirtyExperiments = {}]
           m == ShowExitModal(s, order)
           g == [m EXCEPT !.exitTargetIsGoHome = TRUE]
<1>1. t = IF DirtyFlowPending(s) \/ s.welcome THEN s
          ELSE IF NothingCollected(s) THEN home ELSE g
  BY DEF RequestGoHome
<1>2. /\ SameButExit(s, home) /\ home.pendingGoHome
      /\ home.showExitDirtyModal = s.showExitDirtyModal
      /\ home.exitSaveAllRunning = s.exitSaveAllRunning
      /\ home.exitTargetIsGoHome = s.exitTargetIsGoHome
      /\ home.shouldClose = s.shouldClose /\ home.exitDeferredClose = s.exitDeferredClose
      /\ home.exitDirtyTabs = s.exitDirtyTabs
      /\ home.exitSaveAllCursor = s.exitSaveAllCursor
  BY DEF IsApp, AppFields, SameButExit, SamePrompts, SameSwitch, SameTabs, SameData, SameLosses
<1>3. /\ ModalShown(s, m, order)
      /\ m.shouldClose = s.shouldClose /\ m.exitDeferredClose = s.exitDeferredClose
  BY DEF ShowExitModal, IsApp, AppFields, ModalShown, SameButExit, SamePrompts, SameSwitch,
         SameTabs, SameData, SameLosses
<1> HIDE DEF m, home
<1>4. /\ ModalShown(s, g, order)
      /\ g.shouldClose = s.shouldClose /\ g.exitDeferredClose = s.exitDeferredClose
  BY <1>3 DEF IsApp, AppFields, ModalShown, SameButExit, SamePrompts, SameSwitch,
         SameTabs, SameData, SameLosses
<1> HIDE DEF g, t
<1> QED
  BY <1>1, <1>2, <1>4 DEF t

(* The window's x asks about what is dirty; while another question is up it is*)
(* kept for later.                                                           *)
LEMMA PollEventsDoes ==
  ASSUME NEW s, s \in AppStates, NEW pressed \in BOOLEAN, NEW order
  PROVE  LET t == PollEvents(s, pressed, order) IN
         /\ SameButExit(s, t)
         /\ t.exitSaveAllRunning = s.exitSaveAllRunning
         /\ t.exitSaveAllCursor = s.exitSaveAllCursor
         /\ t.exitTargetIsGoHome = s.exitTargetIsGoHome
         /\ t.pendingGoHome = s.pendingGoHome
         /\ \/ /\ t.showExitDirtyModal = s.showExitDirtyModal
               /\ t.exitDirtyTabs = s.exitDirtyTabs
               /\ \/ t.exitDirtyExperiments = s.exitDirtyExperiments
                  \/ NothingCollected(s) /\ ~DirtyFlowPending(s)
            \/ /\ ~DirtyFlowPending(s) /\ ~NothingCollected(s) /\ ModalShown(s, t, order)
               /\ ~t.shouldClose
         /\ t.shouldClose => \/ ~DirtyFlowPending(s) /\ NothingCollected(s)
                             \/ s.exitDeferredClose
         /\ t.exitDeferredClose => s.exitDeferredClose \/
               (DirtyFlowPending(s) /\ (s.shouldClose \/ pressed))
<1> DEFINE asked    == [s EXCEPT !.shouldClose = @ \/ pressed]
           noneTo   == [asked EXCEPT !.exitDirtyExperiments = {}]
           modal    == ShowExitModal(asked, order)
           shown    == [modal EXCEPT !.shouldClose = FALSE]
           checked  == IF ~asked.shouldClose \/ DirtyFlowPending(s) THEN asked
                       ELSE IF NothingCollected(s) THEN noneTo ELSE shown
           later    == [checked EXCEPT !.shouldClose = FALSE, !.exitDeferredClose = TRUE]
           deferred == IF checked.shouldClose /\ DirtyFlowPending(checked)
                       THEN later ELSE checked
           again    == [deferred EXCEPT !.exitDeferredClose = FALSE, !.shouldClose = TRUE]
           t        == PollEvents(s, pressed, order)
           Kept(u)  == /\ SameButExit(s, u)
                       /\ u.exitSaveAllRunning = s.exitSaveAllRunning
                       /\ u.exitSaveAllCursor = s.exitSaveAllCursor
                       /\ u.exitTargetIsGoHome = s.exitTargetIsGoHome
                       /\ u.pendingGoHome = s.pendingGoHome
           List(u)  == /\ u.showExitDirtyModal = s.showExitDirtyModal
                       /\ u.exitDirtyTabs = s.exitDirtyTabs
           Same(u)  == List(u) /\ u.exitDirtyExperiments = s.exitDirtyExperiments
<1>0. /\ IsApp(s) /\ s.shouldClose \in BOOLEAN /\ s.exitDeferredClose \in BOOLEAN
  BY FieldsOf DEF AppStates
<1>1. /\ Kept(asked) /\ Same(asked) /\ asked.shouldClose = (s.shouldClose \/ pressed)
      /\ asked.exitDeferredClose = s.exitDeferredClose
  BY <1>0 DEF IsApp, AppFields, SameButExit, SamePrompts, SameSwitch, SameTabs, SameData,
              SameLosses
<1> HIDE DEF asked
<1>2. /\ Kept(noneTo) /\ List(noneTo) /\ noneTo.shouldClose = asked.shouldClose
      /\ noneTo.exitDeferredClose = s.exitDeferredClose
  BY <1>1 DEF IsApp, AppFields, SameButExit, SamePrompts, SameSwitch, SameTabs, SameData,
              SameLosses
<1>3. DirtyExperimentIndices(asked) = DirtyExperimentIndices(s)
  BY <1>1 DEF SameButExit, DirtyExperimentIndices
<1>4. /\ Kept(modal) /\ modal.showExitDirtyModal /\ modal.exitDirtyTabs = order
      /\ modal.exitDirtyExperiments = DirtyExperimentIndices(s)
      /\ modal.exitDeferredClose = s.exitDeferredClose
  BY <1>1, <1>3 DEF ShowExitModal, IsApp, AppFields, SameButExit, SamePrompts, SameSwitch,
              SameTabs, SameData, SameLosses
<1> HIDE DEF modal, noneTo
<1>5. /\ Kept(shown) /\ shown.showExitDirtyModal /\ shown.exitDirtyTabs = order
      /\ shown.exitDirtyExperiments = DirtyExperimentIndices(s)
      /\ shown.shouldClose = FALSE
      /\ shown.exitDeferredClose = s.exitDeferredClose
  BY <1>4 DEF IsApp, AppFields, SameButExit, SamePrompts, SameSwitch, SameTabs, SameData,
              SameLosses
<1> HIDE DEF shown
<1>6. /\ Kept(checked) /\ checked.exitDeferredClose = s.exitDeferredClose
      /\ \/ Same(checked)
         \/ List(checked) /\ NothingCollected(s) /\ ~DirtyFlowPending(s)
         \/ /\ ~DirtyFlowPending(s) /\ ~NothingCollected(s)
            /\ checked.showExitDirtyModal /\ checked.exitDirtyTabs = order
            /\ checked.exitDirtyExperiments = DirtyExperimentIndices(s)
            /\ checked.shouldClose = FALSE
  BY <1>1, <1>2, <1>5
<1>7. /\ checked.shouldClose => s.shouldClose \/ pressed
      /\ checked.shouldClose => DirtyFlowPending(s) \/ NothingCollected(s)
      /\ checked.shouldClose \in BOOLEAN
  BY <1>0, <1>1, <1>2, <1>5
<1>8. checked.shouldClose => DirtyFlowPending(checked) = DirtyFlowPending(s)
  BY <1>6 DEF DirtyFlowPending, SameButExit, SamePrompts
<1> HIDE DEF checked
<1>9. /\ Kept(later) /\ later.exitDeferredClose = TRUE /\ later.shouldClose = FALSE
      /\ later.showExitDirtyModal = checked.showExitDirtyModal
      /\ later.exitDirtyTabs = checked.exitDirtyTabs
      /\ later.exitDirtyExperiments = checked.exitDirtyExperiments
  BY <1>6 DEF IsApp, AppFields, SameButExit, SamePrompts, SameSwitch, SameTabs, SameData,
              SameLosses
<1> HIDE DEF later
<1>10. /\ Kept(deferred)
       /\ deferred.showExitDirtyModal = checked.showExitDirtyModal
       /\ deferred.exitDirtyTabs = checked.exitDirtyTabs
       /\ deferred.exitDirtyExperiments = checked.exitDirtyExperiments
       /\ deferred.shouldClose => ~DirtyFlowPending(s) /\ NothingCollected(s)
       /\ deferred.exitDeferredClose =>
            s.exitDeferredClose \/ (DirtyFlowPending(s) /\ (s.shouldClose \/ pressed))
       /\ ~deferred.shouldClose \/ checked.shouldClose
  BY <1>6, <1>7, <1>8, <1>9
<1>11. DirtyFlowPending(deferred) = DirtyFlowPending(checked)
  BY <1>6, <1>10 DEF DirtyFlowPending, SameButExit, SamePrompts
<1> HIDE DEF deferred
<1>12. /\ Kept(again) /\ again.exitDeferredClose = FALSE /\ again.shouldClose = TRUE
       /\ again.showExitDirtyModal = deferred.showExitDirtyModal
       /\ again.exitDirtyTabs = deferred.exitDirtyTabs
       /\ again.exitDirtyExperiments = deferred.exitDirtyExperiments
  BY <1>10 DEF IsApp, AppFields, SameButExit, SamePrompts, SameSwitch, SameTabs, SameData,
              SameLosses
<1>13. t = IF deferred.exitDeferredClose /\ ~DirtyFlowPending(deferred)
           THEN again ELSE deferred
  BY DEF PollEvents, again, deferred, later, checked, shown, modal, noneTo, asked
<1> HIDE DEF again, t
<1>14. CASE deferred.exitDeferredClose /\ ~DirtyFlowPending(deferred)
  <2>1. ~checked.showExitDirtyModal
    BY <1>10, <1>14 DEF DirtyFlowPending
  <2>2. \/ Same(t)
        \/ List(t) /\ NothingCollected(s) /\ ~DirtyFlowPending(s)
    BY <1>6, <1>10, <1>12, <1>13, <1>14, <2>1
  <2>3. s.exitDeferredClose \/ DirtyFlowPending(s)
    BY <1>10, <1>14
  <2>4. DirtyFlowPending(s) => s.exitDeferredClose
    BY <1>6, <1>11, <1>14, <2>1 DEF DirtyFlowPending, SameButExit, SamePrompts
  <2> QED
    BY <1>12, <1>13, <1>14, <2>2, <2>3, <2>4 DEF t
<1>15. CASE ~(deferred.exitDeferredClose /\ ~DirtyFlowPending(deferred))
  <2>1. t = deferred
    BY <1>13, <1>15
  <2>2. \/ Same(t)
        \/ List(t) /\ NothingCollected(s) /\ ~DirtyFlowPending(s)
        \/ /\ ~DirtyFlowPending(s) /\ ~NothingCollected(s) /\ ModalShown(s, t, order)
           /\ ~t.shouldClose
    BY <1>6, <1>10, <2>1 DEF ModalShown
  <2> QED
    BY <1>10, <2>1, <2>2 DEF t
<1> QED
  BY <1>14, <1>15

-----------------------------------------------------------------------------
(* The prompts and what waits for them                                       *)

(* The close of a tab that is asked for, in its three stages. *)
SameCloses(s, t) ==
  /\ t.pendingCloseAfterSwap = s.pendingCloseAfterSwap
  /\ t.pendingRemoveIdx = s.pendingRemoveIdx
  /\ t.pendingTabCloseIdx = s.pendingTabCloseIdx

(* The questions are as before; none is up.                                  *)
SameQuestions(s, t) ==
  /\ t.pendingWorkspaceAction = s.pendingWorkspaceAction
  /\ t.showUnsavedPrompt = s.showUnsavedPrompt
  /\ t.showStaleDropPrompt = s.showStaleDropPrompt

NoPrompt(s) ==
  /\ ~s.showUnsavedPrompt /\ ~s.showStaleDropPrompt
  /\ s.pendingWorkspaceAction = "None"

(* The request to open is taken off its queue. *)
OpenTaken(s, r) ==
  /\ SameButPrompts(s, r) /\ r.nullDeref = s.nullDeref /\ r.pendingOpen = NoTab
  /\ SameCloses(s, r) /\ SameQuestions(s, r)

(* The tab asked for has been loaded.                                        *)
TabLoaded(s, t) ==
  /\ IsApp(t) /\ SameSwitch(s, t) /\ SameExit(s, t) /\ SameTabs(s, t)
  /\ t.nullDeref = s.nullDeref /\ t.pendingSaveKind = s.pendingSaveKind
  /\ t.dirty = s.dirty \ {s.active} /\ t.stale = s.stale \ {s.active}
  /\ t.staleOnDisk = s.staleOnDisk \ {s.active}
  /\ t.consent = s.consent \ {s.active} /\ t.lost = s.lost
  /\ t.experiments = s.experiments /\ t.expDirty = s.expDirty
  /\ t.expSaved = s.expSaved
  /\ t.exitDirtyExperiments = s.exitDirtyExperiments
  /\ t.multiWorkspaceOpen = s.multiWorkspaceOpen /\ ~t.welcome
  /\ SameCloses(s, t) /\ NoPrompt(t) /\ t.pendingOpen = NoTab

(* A request to open is taken: its tab is loaded, left blank or removed.     *)
LEMMA ExecutePendingOpenDoes ==
  ASSUME NEW s, IsApp(s), NEW outcome
  PROVE  LET t == ExecutePendingOpen(s, outcome) IN
         \/ Crashed(s, t)
         \/ OpenTaken(s, t)
         \/ s.pendingOpen # NoTab /\ TabLoaded(s, t) /\ s.active # NoTab
         \/ \E r : /\ s.pendingOpen # NoTab /\ OpenTaken(s, r)
                   /\ t = [RemoveTab(r, r.activeSessionIdx)
                             EXCEPT !.activeTabKind = "Session"]
<1> DEFINE t == ExecutePendingOpen(s, outcome)
           r == [s EXCEPT !.pendingOpen = NoTab]
           l == [r EXCEPT !.dirty = @ \ {s.active}, !.stale = @ \ {s.active},
                     !.consent = @ \ {s.active}, !.staleOnDisk = @ \ {s.active},
                     !.pendingWorkspaceAction = "None",
                     !.showUnsavedPrompt = FALSE,
                     !.showStaleDropPrompt = FALSE,
                     !.welcome = FALSE]
           f == [RemoveTab(r, r.activeSessionIdx) EXCEPT !.activeTabKind = "Session"]
<1>1. t = IF s.pendingOpen = NoTab \/ outcome = "ignored" THEN r
          ELSE IF outcome = "failed" THEN f
          ELSE IF s.active = NoTab THEN Crash(r) ELSE l
  BY DEF ExecutePendingOpen
<1>2. OpenTaken(s, r)
  BY DEF IsApp, AppFields, OpenTaken, SameCloses, SameQuestions, SameButPrompts, SameSwitch,
         SameExit, SameTabs, SameData, SameLosses, SameExps
<1>3. TabLoaded(s, l)
  BY DEF IsApp, AppFields, TabLoaded, SameCloses, NoPrompt, SameSwitch, SameExit, SameTabs
<1>4. IsApp(r)
  BY <1>2 DEF OpenTaken, SameButPrompts
<1> HIDE DEF l, r, t
<1>5. Crashed(s, Crash(r))
  BY <1>2, <1>4, CrashDoes
  DEF OpenTaken, SameButPrompts, SameExit, SameTabs, SameData, SameLosses, SameExps, Crashed
<1>6. t = f => \E q : /\ OpenTaken(s, q)
                      /\ t = [RemoveTab(q, q.activeSessionIdx)
                                EXCEPT !.activeTabKind = "Session"]
  BY <1>2
<1> HIDE DEF f
<1>7. \/ Crashed(s, t)
      \/ OpenTaken(s, t)
      \/ s.pendingOpen # NoTab /\ TabLoaded(s, t) /\ s.active # NoTab
      \/ s.pendingOpen # NoTab /\ t = f
  BY <1>1, <1>2, <1>3, <1>5
<1> QED
  BY <1>6, <1>7 DEF t

(* The close of a tab is asked for: at once, in a prompt, or in a prompt     *)
(* after the tab has been switched to.                                       *)
LEMMA CloseTabDoes ==
  ASSUME NEW s, IsApp(s), NEW idx \in TabIndices(s)
  PROVE  LET t == CloseTab(s, idx)
             isActive == idx = s.activeSessionIdx /\ s.activeTabKind = "Workspace"
         IN
         /\ s.sessions[idx] \in s.dirty /\ isActive =>
              /\ SameButPrompts(s, t) /\ t.nullDeref = s.nullDeref
              /\ t.pendingTabCloseIdx = idx /\ t.showUnsavedPrompt
              /\ t.pendingOpen = s.pendingOpen
              /\ t.pendingCloseAfterSwap = s.pendingCloseAfterSwap
              /\ t.pendingRemoveIdx = s.pendingRemoveIdx
              /\ t.pendingWorkspaceAction = s.pendingWorkspaceAction
              /\ t.showStaleDropPrompt = s.showStaleDropPrompt
         /\ s.sessions[idx] \in s.dirty /\ ~isActive =>
              /\ IsApp(t) /\ SameExit(s, t) /\ SameTabs(s, t) /\ SameData(s, t)
              /\ SameLosses(s, t) /\ SameExps(s, t) /\ t.nullDeref = s.nullDeref
              /\ SwitchTo(t, idx) /\ t.pendingCloseAfterSwap = idx
              /\ t.pendingOpen = s.pendingOpen /\ SameQuestions(s, t)
              /\ t.pendingRemoveIdx = s.pendingRemoveIdx
              /\ t.pendingTabCloseIdx = s.pendingTabCloseIdx
         /\ s.sessions[idx] \notin s.dirty /\ isActive =>
              /\ SameButPrompts(s, t) /\ t.nullDeref = s.nullDeref
              /\ t.pendingRemoveIdx = idx
              /\ t.pendingOpen = s.pendingOpen /\ SameQuestions(s, t)
              /\ t.pendingCloseAfterSwap = s.pendingCloseAfterSwap
              /\ t.pendingTabCloseIdx = s.pendingTabCloseIdx
         /\ s.sessions[idx] \notin s.dirty /\ ~isActive => t = RemoveTab(s, idx)
<1> DEFINE a == [s EXCEPT !.pendingTabCloseIdx = idx, !.showUnsavedPrompt = TRUE]
           b == [s EXCEPT !.pendingCloseAfterSwap = idx]
           w == SwapInSession(b, idx)
           c == [s EXCEPT !.pendingRemoveIdx = idx]
           t == CloseTab(s, idx)
           isActive == idx = s.activeSessionIdx /\ s.activeTabKind = "Workspace"
<1>1. t = IF s.sessions[idx] \in s.dirty THEN IF isActive THEN a ELSE w
          ELSE IF isActive THEN c ELSE RemoveTab(s, idx)
  BY DEF CloseTab
<1>2. /\ SameButPrompts(s, a) /\ a.nullDeref = s.nullDeref
      /\ a.pendingTabCloseIdx = idx /\ a.showUnsavedPrompt
      /\ a.pendingOpen = s.pendingOpen
      /\ a.pendingCloseAfterSwap = s.pendingCloseAfterSwap
      /\ a.pendingRemoveIdx = s.pendingRemoveIdx
      /\ a.pendingWorkspaceAction = s.pendingWorkspaceAction
      /\ a.showStaleDropPrompt = s.showStaleDropPrompt
  BY DEF IsApp, AppFields, SameButPrompts, SameSwitch, SameExit, SameTabs, SameData,
         SameLosses, SameExps
<1>3. /\ SameButPrompts(s, b) /\ b.nullDeref = s.nullDeref
      /\ b.pendingCloseAfterSwap = idx
      /\ b.pendingOpen = s.pendingOpen /\ SameQuestions(s, b)
      /\ b.pendingRemoveIdx = s.pendingRemoveIdx
      /\ b.pendingTabCloseIdx = s.pendingTabCloseIdx
  BY DEF IsApp, AppFields, SameButPrompts, SameSwitch, SameExit, SameTabs, SameData,
         SameLosses, SameExps, SameQuestions
<1>4. /\ SameButPrompts(s, c) /\ c.nullDeref = s.nullDeref
      /\ c.pendingRemoveIdx = idx
      /\ c.pendingOpen = s.pendingOpen /\ SameQuestions(s, c)
      /\ c.pendingCloseAfterSwap = s.pendingCloseAfterSwap
      /\ c.pendingTabCloseIdx = s.pendingTabCloseIdx
  BY DEF IsApp, AppFields, SameButPrompts, SameSwitch, SameExit, SameTabs, SameData,
         SameLosses, SameExps, SameQuestions
<1> HIDE DEF a, b, c
<1>5. IsApp(w) /\ SameButSwitch(b, w) /\ SwitchTo(w, idx)
  BY <1>3, SwapInSessionDoes DEF SameButPrompts
<1> HIDE DEF w
<1>6. /\ IsApp(w) /\ SameExit(s, w) /\ SameTabs(s, w) /\ SameData(s, w)
      /\ SameLosses(s, w) /\ SameExps(s, w) /\ w.nullDeref = s.nullDeref
      /\ SwitchTo(w, idx) /\ w.pendingCloseAfterSwap = idx
      /\ w.pendingOpen = s.pendingOpen /\ SameQuestions(s, w)
      /\ w.pendingRemoveIdx = s.pendingRemoveIdx
      /\ w.pendingTabCloseIdx = s.pendingTabCloseIdx
  BY <1>3, <1>5 DEF SameButSwitch, SameButPrompts, SamePrompts, SameQuestions, SameExit,
                    SameTabs, SameData, SameLosses, SameExps
<1> HIDE DEF t
<1> QED
  BY <1>1, <1>2, <1>4, <1>6 DEF t

(* The prompt about closing a tab comes up, is answered, is called off.      *)
LEMMA ClosePromptDoes ==
  ASSUME NEW s, IsApp(s)
  PROVE  /\ LET t == RaiseClosePrompt(s) IN
              /\ s.pendingCloseAfterSwap = 0 => t = s
              /\ s.pendingCloseAfterSwap # 0 =>
                   /\ SameButPrompts(s, t) /\ t.nullDeref = s.nullDeref
                   /\ t.pendingTabCloseIdx = s.pendingCloseAfterSwap
                   /\ t.pendingCloseAfterSwap = 0 /\ t.showUnsavedPrompt
                   /\ t.pendingOpen = s.pendingOpen
                   /\ t.pendingRemoveIdx = s.pendingRemoveIdx
                   /\ t.pendingWorkspaceAction = s.pendingWorkspaceAction
                   /\ t.showStaleDropPrompt = s.showStaleDropPrompt
         /\ LET t == ResolveTabClose(s) IN
              /\ SameButPrompts(s, t) /\ t.nullDeref = s.nullDeref
              /\ t.pendingRemoveIdx = s.pendingTabCloseIdx /\ t.pendingTabCloseIdx = 0
              /\ t.pendingWorkspaceAction = "None" /\ ~t.showUnsavedPrompt
              /\ t.pendingOpen = s.pendingOpen
              /\ t.pendingCloseAfterSwap = s.pendingCloseAfterSwap
              /\ t.showStaleDropPrompt = s.showStaleDropPrompt
         /\ LET t == AnswerCancel(s) IN
              /\ IsApp(t) /\ SameSwitch(s, t) /\ SameTabs(s, t) /\ SameData(s, t)
              /\ SameLosses(s, t) /\ SameExps(s, t) /\ t.nullDeref = s.nullDeref
              /\ t.pendingTabCloseIdx = 0
              /\ t.pendingWorkspaceAction = "None" /\ ~t.showUnsavedPrompt
              /\ t.pendingOpen = s.pendingOpen
              /\ t.pendingCloseAfterSwap = s.pendingCloseAfterSwap
              /\ t.pendingRemoveIdx = s.pendingRemoveIdx
              /\ t.showStaleDropPrompt = s.showStaleDropPrompt
              /\ t.showExitDirtyModal = s.showExitDirtyModal
              /\ t.exitSaveAllRunning = s.exitSaveAllRunning
              /\ t.exitSaveAllCursor = s.exitSaveAllCursor
              /\ t.exitDirtyTabs = s.exitDirtyTabs
              /\ t.exitTargetIsGoHome = s.exitTargetIsGoHome
              /\ t.pendingGoHome = s.pendingGoHome /\ t.shouldClose = s.shouldClose
              /\ ~t.exitDeferredClose
<1>1. s.pendingCloseAfterSwap = 0 => RaiseClosePrompt(s) = s
  BY DEF RaiseClosePrompt
<1>2. LET t == RaiseClosePrompt(s) IN
        s.pendingCloseAfterSwap # 0 =>
          /\ SameButPrompts(s, t) /\ t.nullDeref = s.nullDeref
          /\ t.pendingTabCloseIdx = s.pendingCloseAfterSwap
          /\ t.pendingCloseAfterSwap = 0 /\ t.showUnsavedPrompt
          /\ t.pendingOpen = s.pendingOpen
          /\ t.pendingRemoveIdx = s.pendingRemoveIdx
          /\ t.pendingWorkspaceAction = s.pendingWorkspaceAction
          /\ t.showStaleDropPrompt = s.showStaleDropPrompt
  BY DEF RaiseClosePrompt, IsApp, AppFields, SameButPrompts, SameSwitch, SameExit, SameTabs,
         SameData, SameLosses, SameExps
<1>3. LET t == ResolveTabClose(s) IN
        /\ SameButPrompts(s, t) /\ t.nullDeref = s.nullDeref
        /\ t.pendingRemoveIdx = s.pendingTabCloseIdx /\ t.pendingTabCloseIdx = 0
        /\ t.pendingWorkspaceAction = "None" /\ ~t.showUnsavedPrompt
        /\ t.pendingOpen = s.pendingOpen
        /\ t.pendingCloseAfterSwap = s.pendingCloseAfterSwap
        /\ t.showStaleDropPrompt = s.showStaleDropPrompt
  BY DEF ResolveTabClose, IsApp, AppFields, SameButPrompts, SameSwitch, SameExit, SameTabs,
         SameData, SameLosses, SameExps
<1>4. LET t == AnswerCancel(s) IN
        /\ IsApp(t) /\ SameSwitch(s, t) /\ SameTabs(s, t) /\ SameData(s, t)
        /\ SameLosses(s, t) /\ SameExps(s, t) /\ t.nullDeref = s.nullDeref
        /\ t.pendingTabCloseIdx = 0
        /\ t.pendingWorkspaceAction = "None" /\ ~t.showUnsavedPrompt
        /\ t.pendingOpen = s.pendingOpen
        /\ t.pendingCloseAfterSwap = s.pendingCloseAfterSwap
        /\ t.pendingRemoveIdx = s.pendingRemoveIdx
        /\ t.showStaleDropPrompt = s.showStaleDropPrompt
        /\ t.showExitDirtyModal = s.showExitDirtyModal
        /\ t.exitSaveAllRunning = s.exitSaveAllRunning
        /\ t.exitSaveAllCursor = s.exitSaveAllCursor
        /\ t.exitDirtyTabs = s.exitDirtyTabs
        /\ t.exitTargetIsGoHome = s.exitTargetIsGoHome
        /\ t.pendingGoHome = s.pendingGoHome /\ t.shouldClose = s.shouldClose
        /\ ~t.exitDeferredClose
  BY DEF AnswerCancel, IsApp, AppFields, SameSwitch, SameTabs, SameData, SameLosses, SameExps
<1> QED
  BY <1>1, <1>2, <1>3, <1>4

(* Opening a key: its tab is switched to, or a blank one behind the others.  *)
LEMMA OpenInNewTabDoes ==
  ASSUME NEW s, IsApp(s), s.sessions \in Seq(Keys), NEW key \in Keys
  PROVE  LET t == OpenInNewTab(s, key) IN
         /\ key \in Range(s.sessions) =>
              SameButSwitch(s, t) /\ IsApp(t) /\ t.pendingOpen = s.pendingOpen
         /\ key \notin Range(s.sessions) =>
              /\ IsApp(t) /\ SameExit(s, t) /\ SameData(s, t) /\ SameLosses(s, t)
              /\ SameExps(s, t) /\ SameCloses(s, t) /\ SameQuestions(s, t)
              /\ t.active = s.active /\ t.activeTabKind = s.activeTabKind
              /\ t.activeSessionIdx = s.activeSessionIdx /\ t.nullDeref = s.nullDeref
              /\ t.sessions = Append(s.sessions, key)
              /\ t.pendingOpen = key /\ SwitchTo(t, t.pendingSwapIdx)
              /\ t.pendingSwapIdx \in TabIndices(t)
              /\ t.sessions[t.pendingSwapIdx] = key
<1> DEFINE t == OpenInNewTab(s, key)
           a == [s EXCEPT !.sessions = Append(@, key)]
           w == SwapInSession(a, Len(s.sessions) + 1)
           b == [w EXCEPT !.pendingOpen = key]
<1>1. t = IF key \in Range(s.sessions)
          THEN SwapInSession(s, IndexOf(s.sessions, key)) ELSE b
  BY DEF OpenInNewTab
<1>2. IsApp(a) /\ a.sessions = Append(s.sessions, key)
      /\ SamePrompts(s, a) /\ SameExit(s, a) /\ SameData(s, a) /\ SameLosses(s, a)
      /\ SameExps(s, a) /\ a.active = s.active /\ a.activeTabKind = s.activeTabKind
      /\ a.activeSessionIdx = s.activeSessionIdx /\ a.nullDeref = s.nullDeref
  BY DEF IsApp, AppFields, SamePrompts, SameExit, SameData, SameLosses, SameExps
<1> HIDE DEF a
<1>3. IsApp(w) /\ SameButSwitch(a, w) /\ SwitchTo(w, Len(s.sessions) + 1)
  BY <1>2, SwapInSessionDoes
<1> HIDE DEF w
<1>4. /\ IsApp(b) /\ SameExit(s, b) /\ SameData(s, b) /\ SameLosses(s, b)
      /\ SameExps(s, b) /\ SameCloses(s, b) /\ SameQuestions(s, b)
      /\ b.active = s.active /\ b.activeTabKind = s.activeTabKind
      /\ b.activeSessionIdx = s.activeSessionIdx /\ b.nullDeref = s.nullDeref
      /\ b.sessions = Append(s.sessions, key)
      /\ b.pendingOpen = key /\ SwitchTo(b, Len(s.sessions) + 1)
  BY <1>2, <1>3 DEF IsApp, AppFields, SameButSwitch, SamePrompts, SameExit, SameData,
                    SameLosses, SameExps, SameTabs, SameCloses, SameQuestions, SwitchTo
<1> HIDE DEF b, t
<1>5. /\ Len(s.sessions) + 1 \in 1 .. Len(Append(s.sessions, key))
      /\ Append(s.sessions, key)[Len(s.sessions) + 1] = key
  BY AppendProperties, LenProperties
<1>6. b.pendingSwapIdx = Len(s.sessions) + 1
  BY <1>4 DEF SwitchTo
<1>7. CASE key \in Range(s.sessions)
  <2> DEFINE i == IndexOf(s.sessions, key)
  <2>1. t = SwapInSession(s, i)
    BY <1>1, <1>7
  <2> HIDE DEF i
  <2>2. IsApp(t) /\ SameButSwitch(s, t)
    BY <2>1, SwapInSessionDoes
  <2> QED
    BY <1>7, <2>2 DEF t, SameButSwitch, SamePrompts
<1>8. CASE key \notin Range(s.sessions)
  <2>1. t = b
    BY <1>1, <1>8
  <2> QED
    BY <1>4, <1>5, <1>6, <1>8, <2>1 DEF t
<1> QED
  BY <1>7, <1>8

(* A project is opened from the menu, the welcome screen or a prompt.        *)
ProjectShown(s, outcome, saved, tabs) ==
  LET p == OpenProject(s, outcome, saved, tabs) IN
  IF outcome # "opened" THEN p ELSE [FocusSessionTab(p) EXCEPT !.welcome = FALSE]

(* What opening a project, and showing it, leaves alone.                     *)
LEMMA ProjectShownDoes ==
  ASSUME NEW s, IsApp(s), s.sessions \in Seq(Keys), NEW outcome \in ProjectOutcomes,
         NEW saved, NEW tabs \in Seq(Keys)
  PROVE  LET t == ProjectShown(s, outcome, saved, tabs) IN
         MoreTabs(s, t) /\ ExpsDropped(s, t)
<1> DEFINE p == OpenProject(s, outcome, saved, tabs)
           f == FocusSessionTab(p)
           g == [f EXCEPT !.welcome = FALSE]
           t == ProjectShown(s, outcome, saved, tabs)
<1>1. MoreTabs(s, p) /\ ExpsDropped(s, p)
  BY OpenProjectDoes
<1>2. IsApp(p) /\ t = IF outcome # "opened" THEN p ELSE g
  BY <1>1 DEF MoreTabs, ProjectShown
<1> HIDE DEF p
<1>3. IsApp(f) /\ SameButSwitch(p, f)
  BY <1>2, FocusSessionTabDoes
<1>4. MoreTabs(p, f) /\ SameLosses(p, f) /\ f.activeTabKind = p.activeTabKind
  BY <1>3 DEF SameButSwitch, MoreTabs, SameTabs
<1> HIDE DEF f
<1>5. MoreTabs(f, g) /\ SameLosses(f, g) /\ g.activeTabKind = f.activeTabKind
  BY <1>3 DEF IsApp, AppFields, MoreTabs, SamePrompts, SameExit, SameData, SameLosses
<1> HIDE DEF g, t
<1>6. MoreTabs(s, g)
  BY <1>1, <1>4, <1>5, MoreTabsTransitive
<1>7. ExpsDropped(s, g)
  BY <1>1, <1>4, <1>5 DEF ExpsDropped, SameLosses
<1> QED
  BY <1>1, <1>2, <1>6, <1>7 DEF t

(* The questions have been answered; what waited for them is next.           *)
QuestionsAnswered(s, r) ==
  /\ SameButPrompts(s, r) /\ r.nullDeref = s.nullDeref
  /\ r.pendingOpen = s.pendingOpen /\ SameCloses(s, r) /\ NoPrompt(r)

(* What waited for the answer goes ahead. *)
LEMMA DispatchPendingActionDoes ==
  ASSUME NEW s, IsApp(s), NEW outcome, NEW saved, NEW tabs
  PROVE  LET t == DispatchPendingAction(s, outcome, saved, tabs) IN
         /\ s.pendingWorkspaceAction = "None" => t = s
         /\ s.pendingWorkspaceAction # "None" =>
              \E r : /\ QuestionsAnswered(s, r)
                     /\ s.pendingWorkspaceAction = "CloseWorkspace" =>
                          t = CloseTab(r, r.activeSessionIdx)
                     /\ s.pendingWorkspaceAction = "OpenMultiWorkspace" =>
                          t = ProjectShown(r, outcome, saved, tabs)
<1> DEFINE t == DispatchPendingAction(s, outcome, saved, tabs)
           r == [s EXCEPT !.pendingWorkspaceAction = "None",
                     !.showUnsavedPrompt = FALSE, !.showStaleDropPrompt = FALSE]
           p == OpenProject(r, outcome, saved, tabs)
           shown == ProjectShown(r, outcome, saved, tabs)
           closed == CloseTab(r, r.activeSessionIdx)
<1>1. QuestionsAnswered(s, r)
  BY DEF IsApp, AppFields, QuestionsAnswered, SameButPrompts, SameSwitch, SameExit, SameTabs,
         SameData, SameLosses, SameExps, SameCloses, NoPrompt
<1>2. shown = IF outcome # "opened" THEN p ELSE [FocusSessionTab(p) EXCEPT !.welcome = FALSE]
  BY DEF ProjectShown
<1>3. t = CASE s.pendingWorkspaceAction = "None" -> s
            [] s.pendingWorkspaceAction = "CloseWorkspace" -> closed
            [] s.pendingWorkspaceAction = "OpenMultiWorkspace" -> shown
  BY <1>2 DEF DispatchPendingAction
<1> HIDE DEF r, t, p, shown, closed
<1>4. /\ s.pendingWorkspaceAction = "None" => t = s
      /\ s.pendingWorkspaceAction = "CloseWorkspace" => t = closed
      /\ s.pendingWorkspaceAction = "OpenMultiWorkspace" => t = shown
  BY <1>3
<1> QED
  BY <1>1, <1>4 DEF t, closed, shown

(* Another project is asked for: the question comes first if changes are     *)
(* unsaved.                                                                  *)
LEMMA RequestReplaceProjectDoes ==
  ASSUME NEW s, IsApp(s), NEW outcome, NEW saved, NEW tabs
  PROVE  LET t == RequestReplaceProject(s, outcome, saved, tabs) IN
         \/ /\ SameButPrompts(s, t) /\ t.nullDeref = s.nullDeref
            /\ t.pendingOpen = s.pendingOpen /\ SameCloses(s, t)
            /\ t.pendingWorkspaceAction = "OpenMultiWorkspace"
            /\ t.showUnsavedPrompt /\ t.showStaleDropPrompt = s.showStaleDropPrompt
         \/ /\ s.active \notin s.dirty /\ s.expDirty = {}
            /\ \E r : /\ QuestionsAnswered(s, r)
                      /\ t = ProjectShown(r, outcome, saved, tabs)
<1> DEFINE t == RequestReplaceProject(s, outcome, saved, tabs)
           q == [s EXCEPT !.pendingWorkspaceAction = "OpenMultiWorkspace"]
           a == [q EXCEPT !.showUnsavedPrompt = TRUE]
           d == DispatchPendingAction(q, outcome, saved, tabs)
<1>1. /\ SameButPrompts(s, q) /\ q.nullDeref = s.nullDeref
      /\ q.pendingOpen = s.pendingOpen /\ SameCloses(s, q)
      /\ q.pendingWorkspaceAction = "OpenMultiWorkspace"
  BY DEF IsApp, AppFields, SameButPrompts, SameSwitch, SameExit, SameTabs,
         SameData, SameLosses, SameExps, SameCloses
<1>2. /\ SameButPrompts(s, a) /\ a.nullDeref = s.nullDeref
      /\ a.pendingOpen = s.pendingOpen /\ SameCloses(s, a)
      /\ a.pendingWorkspaceAction = "OpenMultiWorkspace"
      /\ a.showUnsavedPrompt /\ a.showStaleDropPrompt = s.showStaleDropPrompt
  BY DEF IsApp, AppFields, SameButPrompts, SameSwitch, SameExit, SameTabs,
         SameData, SameLosses, SameExps, SameCloses
<1>3. t = IF s.active \in s.dirty \/ s.expDirty # {} THEN a ELSE d
  BY DEF RequestReplaceProject
<1> HIDE DEF q, a
<1>4. \E r : /\ QuestionsAnswered(q, r)
             /\ d = ProjectShown(r, outcome, saved, tabs)
  BY <1>1, DispatchPendingActionDoes DEF SameButPrompts
<1>5. ASSUME NEW r, QuestionsAnswered(q, r) PROVE QuestionsAnswered(s, r)
  BY <1>1, <1>5 DEF QuestionsAnswered, SameButPrompts, SameSwitch, SameExit, SameTabs,
         SameData, SameLosses, SameExps, SameCloses
<1> HIDE DEF t, d
<1> QED
  BY <1>2, <1>3, <1>4, <1>5 DEF t

-----------------------------------------------------------------------------
(* Going home, the exit modal and Save All                                   *)

(* All but the exit modal, its flow and the experiments. *)
SameButFlow(s, t) ==
  /\ IsApp(t) /\ SamePrompts(s, t) /\ SameTabs(s, t) /\ SameSwitch(s, t)
  /\ t.pendingSaveKind = s.pendingSaveKind /\ t.nullDeref = s.nullDeref
  /\ t.stale = s.stale /\ t.lost = s.lost

(* What is left to do at home: the experiments are dropped.                  *)
LEMMA FinishGoHomeDoes ==
  ASSUME NEW s, IsApp(s)
  PROVE  LET t == FinishGoHome(s) IN
         /\ IsApp(t) /\ SamePrompts(s, t) /\ SameData(s, t) /\ ExpsDropped(s, t)
         /\ t.sessions = s.sessions /\ t.active = s.active
         /\ t.activeSessionIdx = s.activeSessionIdx /\ t.nullDeref = s.nullDeref
         /\ t.pendingSwapIdx = s.pendingSwapIdx
         /\ t.pendingSwapToSession = s.pendingSwapToSession
         /\ t.pendingExperimentIdx = 0
         /\ t.showExitDirtyModal = s.showExitDirtyModal
         /\ t.exitSaveAllRunning = s.exitSaveAllRunning
         /\ t.exitTargetIsGoHome = s.exitTargetIsGoHome
         /\ t.pendingGoHome = s.pendingGoHome /\ t.shouldClose = s.shouldClose
         /\ t.exitDeferredClose = s.exitDeferredClose
         /\ t.experiments = << >> /\ t.expDirty = {} /\ t.expSaved = {}
         /\ t.exitDirtyTabs = << >> /\ t.exitDirtyExperiments = {}
         /\ t.lost = s.lost \cup (s.expDirty \ s.consent)
         /\ t.consent = s.consent \cap Keys
         /\ t.multiWorkspaceOpen = s.multiWorkspaceOpen /\ t.welcome
<1> DEFINE c == ClearExperiments(s)
           t == FinishGoHome(s)
<1>1. /\ OnlyExps(s, c) /\ ExpsDropped(s, c) /\ c.pendingExperimentIdx = 0
      /\ c.pendingSwapIdx = s.pendingSwapIdx
      /\ c.pendingSwapToSession = s.pendingSwapToSession
      /\ c.experiments = << >> /\ c.expDirty = {} /\ c.expSaved = {}
      /\ c.consent = s.consent \cap Keys
      /\ c.lost = s.lost \cup (s.expDirty \ s.consent)
      /\ c.multiWorkspaceOpen = s.multiWorkspaceOpen
  <2>1. c.pendingExperimentIdx = 0
    BY DEF ClearExperiments, IsApp, AppFields
  <2> HIDE DEF c
  <2> QED
    BY <2>1, ClearExperimentsDoes DEF c, ExpsDropped
<1>2. t = [c EXCEPT !.exitDirtyTabs = << >>, !.exitDirtyExperiments = {},
                    !.lastActiveSessionIdx = 0, !.welcome = TRUE]
  BY DEF FinishGoHome
<1> HIDE DEF c, t
<1>3. /\ IsApp(t) /\ SamePrompts(c, t) /\ SameData(c, t) /\ SameTabs(c, t)
      /\ SameSwitch(c, t) /\ SameLosses(c, t) /\ t.nullDeref = c.nullDeref
      /\ t.showExitDirtyModal = c.showExitDirtyModal
      /\ t.exitSaveAllRunning = c.exitSaveAllRunning
      /\ t.exitTargetIsGoHome = c.exitTargetIsGoHome
      /\ t.pendingGoHome = c.pendingGoHome /\ t.shouldClose = c.shouldClose
      /\ t.exitDeferredClose = c.exitDeferredClose
      /\ t.experiments = c.experiments /\ t.expDirty = c.expDirty /\ t.expSaved = c.expSaved
      /\ t.exitDirtyTabs = << >> /\ t.exitDirtyExperiments = {}
      /\ t.multiWorkspaceOpen = c.multiWorkspaceOpen /\ t.welcome
  BY <1>1, <1>2 DEF OnlyExps, IsApp, AppFields, SamePrompts, SameData, SameTabs, SameSwitch,
         SameLosses
<1>4. SamePrompts(s, t)
  BY <1>1, <1>3 DEF OnlyExps, SamePrompts
<1>5. SameData(s, t) /\ ExpsDropped(s, t)
  BY <1>1, <1>3 DEF OnlyExps, SameData, ExpsDropped, SameLosses, SameTabs
<1> QED
  BY <1>1, <1>3, <1>4, <1>5 DEF OnlyExps, SameTabs, SameSwitch, SameExit, SameLosses, t

(* The answers of the exit modal, and Save All called off.                   *)
LEMMA ExitAnswersDo ==
  ASSUME NEW s, IsApp(s)
  PROVE  /\ LET t == ExitSaveAll(s) IN
              /\ SameButFlow(s, t) /\ SameData(s, t) /\ SameLosses(s, t) /\ SameExps(s, t)
              /\ ~t.showExitDirtyModal /\ t.exitSaveAllRunning /\ t.exitSaveAllCursor = 0
              /\ t.exitDirtyTabs = s.exitDirtyTabs
              /\ t.exitTargetIsGoHome = s.exitTargetIsGoHome
              /\ t.pendingGoHome = s.pendingGoHome /\ t.shouldClose = s.shouldClose
              /\ t.exitDeferredClose = s.exitDeferredClose
         /\ LET t == ExitCancel(s) IN
              /\ SameButFlow(s, t) /\ SameData(s, t) /\ SameLosses(s, t)
              /\ t.experiments = s.experiments /\ t.expDirty = s.expDirty
              /\ t.expSaved = s.expSaved
              /\ t.multiWorkspaceOpen = s.multiWorkspaceOpen /\ t.welcome = s.welcome
              /\ ~t.showExitDirtyModal /\ ~t.exitTargetIsGoHome
              /\ t.exitSaveAllRunning = s.exitSaveAllRunning
              /\ t.exitSaveAllCursor = s.exitSaveAllCursor /\ t.exitDirtyTabs = << >>
              /\ t.pendingGoHome = s.pendingGoHome /\ t.shouldClose = s.shouldClose
              /\ ~t.exitDeferredClose
         /\ LET t == AbandonSaveAll(s) IN
              /\ SameButFlow(s, t) /\ SameData(s, t) /\ SameLosses(s, t)
              /\ t.experiments = s.experiments /\ t.expDirty = s.expDirty
              /\ t.expSaved = s.expSaved
              /\ t.multiWorkspaceOpen = s.multiWorkspaceOpen /\ t.welcome = s.welcome
              /\ t.showExitDirtyModal = s.showExitDirtyModal /\ ~t.exitTargetIsGoHome
              /\ ~t.exitSaveAllRunning
              /\ t.pendingGoHome = s.pendingGoHome /\ t.shouldClose = s.shouldClose
              /\ t.exitDeferredClose = s.exitDeferredClose
         /\ LET t == ExitDiscardAll(s)
                tabs == {s.sessions[i] : i \in Range(s.exitDirtyTabs) \cap TabIndices(s)}
                exps == {s.experiments[i] : i \in s.exitDirtyExperiments \cap ExpIndices(s)}
            IN
              /\ SameButFlow(s, t) /\ t.staleOnDisk = s.staleOnDisk
              /\ t.dirty = s.dirty \ tabs /\ t.expDirty = s.expDirty \ exps
              /\ t.consent = s.consent \cup tabs \cup exps
              /\ t.experiments = s.experiments /\ t.expSaved = s.expSaved
              /\ t.multiWorkspaceOpen = s.multiWorkspaceOpen /\ t.welcome = s.welcome
              /\ ~t.showExitDirtyModal /\ t.exitTargetIsGoHome = s.exitTargetIsGoHome
              /\ t.exitSaveAllRunning = s.exitSaveAllRunning
              /\ s.exitTargetIsGoHome => t.pendingGoHome /\ t.shouldClose = s.shouldClose
              /\ ~s.exitTargetIsGoHome => t.shouldClose /\ t.pendingGoHome = s.pendingGoHome
              /\ t.exitDeferredClose = s.exitDeferredClose
<1>1. LET t == ExitSaveAll(s) IN
        /\ SameButFlow(s, t) /\ SameData(s, t) /\ SameLosses(s, t) /\ SameExps(s, t)
        /\ ~t.showExitDirtyModal /\ t.exitSaveAllRunning /\ t.exitSaveAllCursor = 0
        /\ t.exitDirtyTabs = s.exitDirtyTabs
        /\ t.exitTargetIsGoHome = s.exitTargetIsGoHome
        /\ t.pendingGoHome = s.pendingGoHome /\ t.shouldClose = s.shouldClose
        /\ t.exitDeferredClose = s.exitDeferredClose
  BY DEF ExitSaveAll, IsApp, AppFields, SameButFlow, SamePrompts, SameTabs, SameSwitch,
         SameData, SameLosses, SameExps
<1>2. LET t == ExitCancel(s) IN
        /\ SameButFlow(s, t) /\ SameData(s, t) /\ SameLosses(s, t)
        /\ t.experiments = s.experiments /\ t.expDirty = s.expDirty
        /\ t.expSaved = s.expSaved
        /\ t.multiWorkspaceOpen = s.multiWorkspaceOpen /\ t.welcome = s.welcome
        /\ ~t.showExitDirtyModal /\ ~t.exitTargetIsGoHome
        /\ t.exitSaveAllRunning = s.exitSaveAllRunning
        /\ t.exitSaveAllCursor = s.exitSaveAllCursor /\ t.exitDirtyTabs = << >>
        /\ t.pendingGoHome = s.pendingGoHome /\ t.shouldClose = s.shouldClose
        /\ ~t.exitDeferredClose
  BY DEF ExitCancel, IsApp, AppFields, SameButFlow, SamePrompts, SameTabs, SameSwitch,
         SameData, SameLosses
<1>3. LET t == AbandonSaveAll(s) IN
        /\ SameButFlow(s, t) /\ SameData(s, t) /\ SameLosses(s, t)
        /\ t.experiments = s.experiments /\ t.expDirty = s.expDirty
        /\ t.expSaved = s.expSaved
        /\ t.multiWorkspaceOpen = s.multiWorkspaceOpen /\ t.welcome = s.welcome
        /\ t.showExitDirtyModal = s.showExitDirtyModal /\ ~t.exitTargetIsGoHome
        /\ ~t.exitSaveAllRunning
        /\ t.pendingGoHome = s.pendingGoHome /\ t.shouldClose = s.shouldClose
        /\ t.exitDeferredClose = s.exitDeferredClose
  BY DEF AbandonSaveAll, IsApp, AppFields, SameButFlow, SamePrompts, SameTabs, SameSwitch,
         SameData, SameLosses
<1> DEFINE tabs == {s.sessions[i] : i \in Range(s.exitDirtyTabs) \cap TabIndices(s)}
           exps == {s.experiments[i] : i \in s.exitDirtyExperiments \cap ExpIndices(s)}
           d == [s EXCEPT !.dirty = @ \ tabs, !.expDirty = @ \ exps,
                     !.consent = @ \cup tabs \cup exps,
                     !.exitDirtyTabs = << >>, !.exitDirtyExperiments = {},
                     !.showExitDirtyModal = FALSE]
           t == ExitDiscardAll(s)
           Dropped(u) ==
              /\ SameButFlow(s, u) /\ u.staleOnDisk = s.staleOnDisk
              /\ u.dirty = s.dirty \ tabs /\ u.expDirty = s.expDirty \ exps
              /\ u.consent = s.consent \cup tabs \cup exps
              /\ u.experiments = s.experiments /\ u.expSaved = s.expSaved
              /\ u.multiWorkspaceOpen = s.multiWorkspaceOpen /\ u.welcome = s.welcome
              /\ ~u.showExitDirtyModal /\ u.exitTargetIsGoHome = s.exitTargetIsGoHome
              /\ u.exitSaveAllRunning = s.exitSaveAllRunning
              /\ u.exitDeferredClose = s.exitDeferredClose
<1>4. t = IF s.exitTargetIsGoHome THEN [d EXCEPT !.pendingGoHome = TRUE]
          ELSE [d EXCEPT !.shouldClose = TRUE]
  BY DEF ExitDiscardAll
<1>5. Dropped(d) /\ d.pendingGoHome = s.pendingGoHome /\ d.shouldClose = s.shouldClose
  BY DEF IsApp, AppFields, SameButFlow, SamePrompts, SameTabs, SameSwitch
<1> HIDE DEF d, tabs, exps
<1>6. LET u == [d EXCEPT !.pendingGoHome = TRUE] IN
        Dropped(u) /\ u.pendingGoHome /\ u.shouldClose = s.shouldClose
  BY <1>5 DEF IsApp, AppFields, SameButFlow, SamePrompts, SameTabs, SameSwitch
<1>7. LET u == [d EXCEPT !.shouldClose = TRUE] IN
        Dropped(u) /\ u.shouldClose /\ u.pendingGoHome = s.pendingGoHome
  BY <1>5 DEF IsApp, AppFields, SameButFlow, SamePrompts, SameTabs, SameSwitch
<1> HIDE DEF t
<1>8. /\ Dropped(t)
      /\ s.exitTargetIsGoHome => t.pendingGoHome /\ t.shouldClose = s.shouldClose
      /\ ~s.exitTargetIsGoHome => t.shouldClose /\ t.pendingGoHome = s.pendingGoHome
  BY <1>4, <1>6, <1>7
<1> QED
  BY <1>1, <1>2, <1>3, <1>8 DEF t, tabs, exps

(* Save All has reached the end of its list. *)
LEMMA FinishSaveAllDoes ==
  ASSUME NEW s, IsApp(s), NEW n
  PROVE  LET t == FinishSaveAll(s, n) IN
         /\ SameButFlow(s, t) /\ SameData(s, t) /\ SameLosses(s, t)
         /\ t.experiments = s.experiments
         /\ t.multiWorkspaceOpen = s.multiWorkspaceOpen /\ t.welcome = s.welcome
         /\ t.showExitDirtyModal = s.showExitDirtyModal
         /\ ~t.exitSaveAllRunning /\ ~t.exitTargetIsGoHome
         /\ t.exitDeferredClose = s.exitDeferredClose
         /\ \/ t.pendingGoHome = s.pendingGoHome
            \/ s.exitTargetIsGoHome /\ t.pendingGoHome
         /\ t.shouldClose = s.shouldClose \/ (~s.exitTargetIsGoHome /\ t.shouldClose)
<1> DEFINE listed  == s.exitDirtyExperiments \cap ExpIndices(s)
           passed  == [s EXCEPT !.exitSaveAllCursor = @ + 1]
           saves   == SaveExperiments(passed, listed, n)
           written == IF s.multiWorkspaceOpen THEN saves ELSE passed
           gone    == AbandonSaveAll(written)
           done    == [gone EXCEPT !.expDirty = @ \ {s.experiments[i] : i \in listed}]
           home    == [done EXCEPT !.pendingGoHome = TRUE]
           close   == [done EXCEPT !.shouldClose = TRUE]
           t       == FinishSaveAll(s, n)
           Kept(u) == /\ SameButFlow(s, u) /\ SameData(s, u) /\ SameLosses(s, u)
                      /\ u.experiments = s.experiments
                      /\ u.multiWorkspaceOpen = s.multiWorkspaceOpen /\ u.welcome = s.welcome
                      /\ u.showExitDirtyModal = s.showExitDirtyModal
                      /\ u.exitDeferredClose = s.exitDeferredClose
           Ended2(u) == ~u.exitSaveAllRunning /\ ~u.exitTargetIsGoHome
           Same2(u) == u.pendingGoHome = s.pendingGoHome /\ u.shouldClose = s.shouldClose
<1>1. Kept(passed) /\ Same2(passed)
  BY DEF IsApp, AppFields, SameButFlow, SamePrompts, SameTabs, SameSwitch, SameData,
         SameLosses
<1>2. t = IF s.multiWorkspaceOpen /\ n < Len(s.experiments) THEN gone
          ELSE IF s.exitTargetIsGoHome THEN home ELSE close
  BY DEF FinishSaveAll
<1> HIDE DEF passed
<1>3. /\ OnlyExps(passed, saves) /\ SameTabs(passed, saves) /\ SameSwitch(passed, saves)
      /\ SameLosses(passed, saves) /\ saves.experiments = passed.experiments
      /\ saves.multiWorkspaceOpen = passed.multiWorkspaceOpen
      /\ saves.welcome = passed.welcome
  BY <1>1, SaveExperimentsDoes DEF SameButFlow
<1> HIDE DEF saves
<1>4. Kept(saves) /\ Same2(saves)
  BY <1>1, <1>3 DEF OnlyExps, SameButFlow, SamePrompts, SameTabs, SameSwitch, SameData,
                    SameLosses, SameExit
<1>5. Kept(written) /\ Same2(written)
  BY <1>1, <1>4
<1> HIDE DEF written
<1>6. IsApp(written)
  BY <1>5 DEF SameButFlow
<1>7. /\ SameButFlow(written, gone) /\ SameData(written, gone) /\ SameLosses(written, gone)
      /\ gone.experiments = written.experiments
      /\ gone.multiWorkspaceOpen = written.multiWorkspaceOpen
      /\ gone.welcome = written.welcome
      /\ gone.showExitDirtyModal = written.showExitDirtyModal
      /\ gone.exitDeferredClose = written.exitDeferredClose
      /\ gone.pendingGoHome = written.pendingGoHome /\ gone.shouldClose = written.shouldClose
      /\ Ended2(gone)
  BY <1>6, ExitAnswersDo
<1> HIDE DEF gone
<1>8. Kept(gone) /\ Same2(gone) /\ Ended2(gone)
  BY <1>5, <1>7 DEF SameButFlow, SamePrompts, SameTabs, SameSwitch, SameData, SameLosses
<1>9. Kept(done) /\ Same2(done) /\ Ended2(done)
  BY <1>8 DEF IsApp, AppFields, SameButFlow, SamePrompts, SameTabs, SameSwitch, SameData,
              SameLosses
<1> HIDE DEF done
<1>10. Kept(home) /\ home.pendingGoHome /\ home.shouldClose = s.shouldClose /\ Ended2(home)
  BY <1>9 DEF IsApp, AppFields, SameButFlow, SamePrompts, SameTabs, SameSwitch, SameData,
              SameLosses
<1>11. Kept(close) /\ close.shouldClose /\ close.pendingGoHome = s.pendingGoHome
       /\ Ended2(close)
  BY <1>9 DEF IsApp, AppFields, SameButFlow, SamePrompts, SameTabs, SameSwitch, SameData,
              SameLosses
<1> HIDE DEF home, close, t
<1>12. /\ Kept(t) /\ Ended2(t)
       /\ t.pendingGoHome = s.pendingGoHome \/ (s.exitTargetIsGoHome /\ t.pendingGoHome)
       /\ t.shouldClose = s.shouldClose \/ (~s.exitTargetIsGoHome /\ t.shouldClose)
  BY <1>2, <1>8, <1>10, <1>11
<1> QED
  BY <1>12 DEF t

(* One frame of Save All: the next tab is switched to, or saved.             *)
LEMMA SaveAllTabDoes ==
  ASSUME NEW s, IsApp(s), NEW saved
  PROVE  LET t == SaveAllTab(s, saved) IN
         \/ IsApp(t) /\ SameButSwitch(s, t) /\ SwitchTo(t, SaveAllTarget(s))
         \/ Crashed(s, t)
         \/ ~saved /\ t = AbandonSaveAll(s)
         \/ /\ s.activeSessionIdx = SaveAllTarget(s) /\ s.active # NoTab
            /\ IsApp(t) /\ SamePrompts(s, t) /\ SameTabs(s, t) /\ SameLosses(s, t)
            /\ SameExps(s, t) /\ t.nullDeref = s.nullDeref
            /\ t.pendingSaveKind = s.pendingSaveKind
            /\ t.dirty = s.dirty \ {s.active} /\ t.stale = s.stale
            /\ t.staleOnDisk = s.staleOnDisk \ {s.active}
            /\ t.showExitDirtyModal = s.showExitDirtyModal
            /\ t.exitSaveAllRunning = s.exitSaveAllRunning
            /\ t.exitSaveAllCursor = s.exitSaveAllCursor + 1
            /\ t.exitDirtyTabs = s.exitDirtyTabs
            /\ t.exitTargetIsGoHome = s.exitTargetIsGoHome
            /\ t.pendingGoHome = s.pendingGoHome /\ t.shouldClose = s.shouldClose
            /\ t.exitDeferredClose = s.exitDeferredClose
            /\ SameSwitch(s, t) \/ SwitchTo(t, t.pendingSwapIdx)
<1> DEFINE t    == SaveAllTab(s, saved)
           d    == DoSaveWorkspace(s)
           next == [d EXCEPT !.exitSaveAllCursor = @ + 1]
           w    == SwapInSession(next, SaveAllTarget(next))
           Saved(u) ==
            /\ IsApp(u) /\ SamePrompts(s, u) /\ SameTabs(s, u) /\ SameLosses(s, u)
            /\ SameExps(s, u) /\ u.nullDeref = s.nullDeref
            /\ u.pendingSaveKind = s.pendingSaveKind
            /\ u.dirty = s.dirty \ {s.active} /\ u.stale = s.stale
            /\ u.staleOnDisk = s.staleOnDisk \ {s.active}
            /\ u.showExitDirtyModal = s.showExitDirtyModal
            /\ u.exitSaveAllRunning = s.exitSaveAllRunning
            /\ u.exitSaveAllCursor = s.exitSaveAllCursor + 1
            /\ u.exitDirtyTabs = s.exitDirtyTabs
            /\ u.exitTargetIsGoHome = s.exitTargetIsGoHome
            /\ u.pendingGoHome = s.pendingGoHome /\ u.shouldClose = s.shouldClose
            /\ u.exitDeferredClose = s.exitDeferredClose
<1>1. t = IF s.activeSessionIdx # SaveAllTarget(s) THEN SwapInSession(s, SaveAllTarget(s))
          ELSE IF s.active = NoTab THEN Crash(s)
          ELSE IF ~saved THEN AbandonSaveAll(s)
          ELSE IF SaveAllTabsDone(next) THEN next ELSE w
  BY DEF SaveAllTab
<1>2. /\ IsApp(d) /\ SamePrompts(s, d) /\ SameSwitch(s, d) /\ SameExit(s, d)
      /\ SameTabs(s, d) /\ SameLosses(s, d) /\ SameExps(s, d)
      /\ d.nullDeref = s.nullDeref /\ d.pendingSaveKind = s.pendingSaveKind
      /\ d.dirty = s.dirty \ {s.active} /\ d.stale = s.stale
      /\ d.staleOnDisk = s.staleOnDisk \ {s.active}
  BY DoSaveWorkspaceDoes
<1> HIDE DEF d
<1>3. Saved(next) /\ SameSwitch(s, next)
  BY <1>2 DEF IsApp, AppFields, SamePrompts, SameSwitch, SameExit, SameTabs, SameLosses,
              SameExps
<1> HIDE DEF next
<1>4. IsApp(w) /\ SameButSwitch(next, w) /\ SwitchTo(w, SaveAllTarget(next))
  BY <1>3, SwapInSessionDoes
<1> HIDE DEF w
<1>5. Saved(w) /\ SwitchTo(w, w.pendingSwapIdx)
  <2>1. SwitchTo(w, w.pendingSwapIdx)
    BY <1>4 DEF SwitchTo
  <2> QED
    BY <1>3, <1>4, <2>1 DEF SameButSwitch, SamePrompts, SameTabs, SameLosses, SameExps,
                            SameExit, SameData
<1> DEFINE v == SwapInSession(s, SaveAllTarget(s))
<1>6. IsApp(v) /\ SameButSwitch(s, v) /\ SwitchTo(v, SaveAllTarget(s))
  BY SwapInSessionDoes
<1>7. Crashed(s, Crash(s))
  BY CrashDoes DEF SameButPrompts, SameTabs, SameData, SameLosses, SameExps, Crashed
<1> HIDE DEF t, v
<1>8. CASE s.activeSessionIdx # SaveAllTarget(s)
  <2>1. t = v
    BY <1>1, <1>8 DEF v
  <2> QED
    BY <1>6, <2>1 DEF t
<1>9. CASE s.activeSessionIdx = SaveAllTarget(s) /\ s.active = NoTab
  BY <1>1, <1>7, <1>9 DEF t
<1>10. CASE s.activeSessionIdx = SaveAllTarget(s) /\ s.active # NoTab /\ ~saved
  BY <1>1, <1>10 DEF t
<1>11. CASE s.activeSessionIdx = SaveAllTarget(s) /\ s.active # NoTab /\ saved
  BY <1>1, <1>3, <1>5, <1>11 DEF t
<1> QED
  BY <1>8, <1>9, <1>10, <1>11

-----------------------------------------------------------------------------
(* The answers that save                                                     *)

(* The active tab has been saved, and perhaps experiments.                   *)
ActiveSaved(s, w) ==
  /\ IsApp(w) /\ SameSwitch(s, w) /\ SameExit(s, w) /\ SameTabs(s, w) /\ SameLosses(s, w)
  /\ w.nullDeref = s.nullDeref /\ w.pendingSaveKind = s.pendingSaveKind
  /\ w.dirty = s.dirty \ {s.active} /\ w.stale = s.stale
  /\ w.staleOnDisk = s.staleOnDisk \ {s.active}
  /\ w.experiments = s.experiments /\ w.expDirty \subseteq s.expDirty
  /\ w.exitDirtyExperiments = s.exitDirtyExperiments
  /\ w.multiWorkspaceOpen = s.multiWorkspaceOpen /\ w.welcome = s.welcome
  /\ w.pendingOpen = s.pendingOpen /\ SameCloses(s, w)
  /\ w.showUnsavedPrompt = s.showUnsavedPrompt

(* The active tab was saved, and what waited for that goes ahead.            *)
SavedAndAnswered(s, t, n, outcome, loaded, tabs) ==
  \E w : /\ ActiveSaved(s, w)
         /\ n \in Nat =>
              /\ ExpsWritten(s, w)
              /\ s.pendingTabCloseIdx = 0 /\ s.pendingWorkspaceAction = "OpenMultiWorkspace"
                 => CleanUpTo(s, w, ExpIndices(s), n)
         /\ w.showStaleDropPrompt = s.showStaleDropPrompt
         /\ s.pendingTabCloseIdx # 0 =>
              t = ResolveTabClose(w) /\ w.expDirty = s.expDirty /\ w.expSaved = s.expSaved
         /\ s.pendingTabCloseIdx = 0 =>
              /\ w.pendingWorkspaceAction = s.pendingWorkspaceAction
              /\ t = DispatchPendingAction(w, outcome, loaded, tabs)

(* Save: the null pointer, the question about stale results, a write that    *)
(* failed, or a tab that was saved.                                          *)
LEMMA AnswerSaveDoes ==
  ASSUME NEW s, NEW saved, NEW n, NEW outcome, NEW loaded, NEW tabs, IsApp(s)
  PROVE  LET t == AnswerSave(s, saved, n, outcome, loaded, tabs) IN
         \/ Crashed(s, t)
         \/ /\ s.active \in s.stale
            /\ SameButPrompts(s, t) /\ t.nullDeref = s.nullDeref
            /\ t.pendingOpen = s.pendingOpen /\ SameCloses(s, t)
            /\ t.showUnsavedPrompt = s.showUnsavedPrompt /\ t.showStaleDropPrompt
            /\ t.pendingWorkspaceAction = IF s.pendingTabCloseIdx # 0 THEN "CloseWorkspace"
                                          ELSE s.pendingWorkspaceAction
         \/ /\ SameButPrompts(s, t) /\ t.nullDeref = s.nullDeref
            /\ t.pendingOpen = s.pendingOpen
            /\ t.pendingCloseAfterSwap = s.pendingCloseAfterSwap
            /\ t.pendingRemoveIdx = s.pendingRemoveIdx /\ t.pendingTabCloseIdx = 0
            /\ t.showUnsavedPrompt = s.showUnsavedPrompt
            /\ t.showStaleDropPrompt = s.showStaleDropPrompt
            /\ t.pendingWorkspaceAction = "None" /\ ~saved
         \/ /\ saved /\ s.active # NoTab /\ s.active \notin s.stale
            /\ SavedAndAnswered(s, t, n, outcome, loaded, tabs)
<1> DEFINE t         == AnswerSave(s, saved, n, outcome, loaded, tabs)
           closing   == s.pendingTabCloseIdx # 0
           q         == [s EXCEPT !.pendingWorkspaceAction = "CloseWorkspace"]
           r         == IF closing THEN q ELSE s
           replacing == r.pendingWorkspaceAction = "OpenMultiWorkspace"
           w         == DoSaveWorkspace(r)
           x         == SaveExperiments(w, ExpIndices(s), n)
           both      == IF replacing THEN x ELSE w
           stale     == [r EXCEPT !.showStaleDropPrompt = TRUE]
           failed    == [r EXCEPT !.pendingTabCloseIdx = 0, !.pendingWorkspaceAction = "None"]
<1>1. t = IF s.active = NoTab THEN Crash(r)
          ELSE IF s.active \in s.stale THEN stale
          ELSE IF ~saved THEN failed
          ELSE IF closing THEN ResolveTabClose(w)
          ELSE DispatchPendingAction(both, outcome, loaded, tabs)
  BY DEF AnswerSave
<1>2. /\ SameButPrompts(s, r) /\ r.nullDeref = s.nullDeref
      /\ r.pendingOpen = s.pendingOpen /\ SameCloses(s, r)
      /\ r.showUnsavedPrompt = s.showUnsavedPrompt
      /\ r.showStaleDropPrompt = s.showStaleDropPrompt
      /\ r.pendingWorkspaceAction = IF s.pendingTabCloseIdx # 0 THEN "CloseWorkspace"
                                    ELSE s.pendingWorkspaceAction
  BY DEF IsApp, AppFields, SameButPrompts, SameSwitch, SameExit, SameTabs, SameData,
         SameLosses, SameExps, SameCloses
<1> HIDE DEF r
<1>3. IsApp(r)
  BY <1>2 DEF SameButPrompts
<1>4. Crashed(s, Crash(r))
  BY <1>2, <1>3, CrashDoes
  DEF SameButPrompts, SameExit, SameTabs, SameData, SameLosses, SameExps, Crashed
<1>5. /\ SameButPrompts(s, stale) /\ stale.nullDeref = s.nullDeref
      /\ stale.pendingOpen = s.pendingOpen /\ SameCloses(s, stale)
      /\ stale.showUnsavedPrompt = s.showUnsavedPrompt /\ stale.showStaleDropPrompt
      /\ stale.pendingWorkspaceAction = IF s.pendingTabCloseIdx # 0 THEN "CloseWorkspace"
                                        ELSE s.pendingWorkspaceAction
  BY <1>2 DEF IsApp, AppFields, SameButPrompts, SameSwitch, SameExit, SameTabs, SameData,
         SameLosses, SameExps, SameCloses
<1>6. /\ SameButPrompts(s, failed) /\ failed.nullDeref = s.nullDeref
      /\ failed.pendingOpen = s.pendingOpen
      /\ failed.pendingCloseAfterSwap = s.pendingCloseAfterSwap
      /\ failed.pendingRemoveIdx = s.pendingRemoveIdx /\ failed.pendingTabCloseIdx = 0
      /\ failed.showUnsavedPrompt = s.showUnsavedPrompt
      /\ failed.showStaleDropPrompt = s.showStaleDropPrompt
      /\ failed.pendingWorkspaceAction = "None"
  BY <1>2 DEF IsApp, AppFields, SameButPrompts, SameSwitch, SameExit, SameTabs, SameData,
         SameLosses, SameExps, SameCloses
<1> HIDE DEF stale, failed
<1> DEFINE Written(u) == ActiveSaved(s, u) /\ u.showStaleDropPrompt = s.showStaleDropPrompt
                         /\ u.pendingWorkspaceAction = r.pendingWorkspaceAction
                         /\ (n \in Nat => ExpsWritten(s, u))
<1>7. Written(w) /\ w.expDirty = s.expDirty /\ w.expSaved = s.expSaved
  <2>1. /\ IsApp(w) /\ SamePrompts(r, w) /\ SameSwitch(r, w) /\ SameExit(r, w)
        /\ SameTabs(r, w) /\ SameLosses(r, w) /\ SameExps(r, w)
        /\ w.nullDeref = r.nullDeref /\ w.pendingSaveKind = r.pendingSaveKind
        /\ w.dirty = r.dirty \ {r.active} /\ w.stale = r.stale
        /\ w.staleOnDisk = r.staleOnDisk \ {r.active}
    BY <1>3, DoSaveWorkspaceDoes
  <2> HIDE DEF w
  <2> QED
    BY <1>2, <2>1 DEF ActiveSaved, SameButPrompts, SamePrompts, SameSwitch, SameExit, SameTabs,
         SameData, SameLosses, SameExps, SameCloses, ExpsWritten
<1> HIDE DEF w
<1>8. /\ OnlyExps(w, x) /\ SameTabs(w, x) /\ SameSwitch(w, x) /\ SameLosses(w, x)
      /\ x.experiments = w.experiments /\ x.expDirty \subseteq w.expDirty
      /\ x.multiWorkspaceOpen = w.multiWorkspaceOpen /\ x.welcome = w.welcome
      /\ x.exitDirtyExperiments = w.exitDirtyExperiments
      /\ n \in Nat => ExpsWritten(w, x) /\ CleanUpTo(w, x, ExpIndices(s), n)
  BY <1>7, SaveExperimentsDoes DEF ActiveSaved
<1> HIDE DEF x
<1>9. Written(x)
  BY <1>7, <1>8 DEF OnlyExps, ActiveSaved, SamePrompts, SameSwitch, SameExit, SameTabs,
         SameData, SameLosses, SameCloses, ExpsWritten
<1>10. /\ Written(both)
       /\ n \in Nat /\ replacing => CleanUpTo(s, both, ExpIndices(s), n)
  <2>1. w.experiments = s.experiments
    BY <1>7 DEF ActiveSaved
  <2> HIDE DEF Written
  <2> QED
    BY <1>7, <1>8, <1>9, <2>1 DEF CleanUpTo
<1> HIDE DEF Written
<1> HIDE DEF both, t
<1>11. CASE s.active = NoTab
  BY <1>1, <1>4, <1>11 DEF t
<1>12. CASE s.active # NoTab /\ s.active \in s.stale
  BY <1>1, <1>5, <1>12 DEF t
<1>13. CASE s.active # NoTab /\ s.active \notin s.stale /\ ~saved
  BY <1>1, <1>6, <1>13 DEF t
<1>14. CASE s.active # NoTab /\ s.active \notin s.stale /\ saved /\ closing
  <2>1. t = ResolveTabClose(w)
    BY <1>1, <1>14
  <2> QED
    BY <1>7, <1>14, <2>1 DEF t, Written, SavedAndAnswered
<1>15. CASE s.active # NoTab /\ s.active \notin s.stale /\ saved /\ ~closing
  <2>1. t = DispatchPendingAction(both, outcome, loaded, tabs)
    BY <1>1, <1>15
  <2> QED
    BY <1>2, <1>10, <1>15, <2>1 DEF t, Written, SavedAndAnswered
<1> QED
  BY <1>11, <1>12, <1>13, <1>14, <1>15

(* Don't Save: what the prompt showed may be lost. *)
LEMMA AnswerDontSaveDoes ==
  ASSUME NEW s, IsApp(s), NEW outcome, NEW loaded, NEW tabs
  PROVE  LET t == AnswerDontSave(s, outcome, loaded, tabs) IN
         \E r : /\ IsApp(r) /\ SamePrompts(s, r) /\ SameSwitch(s, r) /\ SameExit(s, r)
                /\ SameTabs(s, r) /\ SameData(s, r) /\ SameExps(s, r)
                /\ r.nullDeref = s.nullDeref /\ r.lost = s.lost
                /\ r.consent = s.consent \cup NamedByPrompt(s)
                /\ s.pendingTabCloseIdx # 0 => t = ResolveTabClose(r)
                /\ s.pendingTabCloseIdx = 0 =>
                     t = DispatchPendingAction(r, outcome, loaded, tabs)
<1> DEFINE r == [s EXCEPT !.consent = @ \cup NamedByPrompt(s)]
<1>1. /\ IsApp(r) /\ SamePrompts(s, r) /\ SameSwitch(s, r) /\ SameExit(s, r)
      /\ SameTabs(s, r) /\ SameData(s, r) /\ SameExps(s, r)
      /\ r.nullDeref = s.nullDeref /\ r.lost = s.lost
      /\ r.consent = s.consent \cup NamedByPrompt(s)
  BY DEF IsApp, AppFields, SamePrompts, SameSwitch, SameExit, SameTabs, SameData, SameExps
<1>2. LET t == AnswerDontSave(s, outcome, loaded, tabs) IN
      /\ s.pendingTabCloseIdx # 0 => t = ResolveTabClose(r)
      /\ s.pendingTabCloseIdx = 0 => t = DispatchPendingAction(r, outcome, loaded, tabs)
  BY DEF AnswerDontSave
<1> HIDE DEF r
<1> QED
  BY <1>1, <1>2

(* The stale prompt: its tab is saved without the stale results, or not.     *)
DroppedAndDispatched(s, t, outcome, loaded, tabs) ==
  \E w : /\ ActiveSaved(s, w) /\ ~w.showStaleDropPrompt
         /\ w.expDirty = s.expDirty /\ w.expSaved = s.expSaved
         /\ w.pendingWorkspaceAction = s.pendingWorkspaceAction
         /\ t = DispatchPendingAction(w, outcome, loaded, tabs)

(* The two answers of the stale prompt.                                      *)
LEMMA StaleAnswersDo ==
  ASSUME NEW s, NEW saved, NEW outcome, NEW loaded, NEW tabs, IsApp(s)
  PROVE  /\ LET t == StaleCancel(s) IN
              \/ Crashed(s, t)
              \/ /\ SameButPrompts(s, t) /\ t.nullDeref = s.nullDeref
                 /\ t.pendingOpen = s.pendingOpen /\ SameCloses(s, t)
                 /\ t.pendingWorkspaceAction = s.pendingWorkspaceAction
                 /\ t.showUnsavedPrompt = s.showUnsavedPrompt /\ ~t.showStaleDropPrompt
         /\ LET t == StaleDrop(s, saved, outcome, loaded, tabs) IN
              \/ Crashed(s, t)
              \/ t = s
              \/ /\ s.active # NoTab
                 /\ DroppedAndDispatched(s, t, outcome, loaded, tabs)
<1> DEFINE c == [s EXCEPT !.showStaleDropPrompt = FALSE]
           d == DoSaveWorkspace(s)
           w == [d EXCEPT !.showStaleDropPrompt = FALSE]
           t == StaleDrop(s, saved, outcome, loaded, tabs)
<1>1. Crashed(s, Crash(s))
  BY CrashDoes DEF SameButPrompts, SameTabs, SameData, SameLosses, SameExps, Crashed
<1>2. /\ SameButPrompts(s, c) /\ c.nullDeref = s.nullDeref
      /\ c.pendingOpen = s.pendingOpen /\ SameCloses(s, c)
      /\ c.pendingWorkspaceAction = s.pendingWorkspaceAction
      /\ c.showUnsavedPrompt = s.showUnsavedPrompt /\ ~c.showStaleDropPrompt
  BY DEF IsApp, AppFields, SameButPrompts, SameSwitch, SameExit, SameTabs, SameData,
         SameLosses, SameExps, SameCloses
<1>3. /\ IsApp(d) /\ SamePrompts(s, d) /\ SameSwitch(s, d) /\ SameExit(s, d)
      /\ SameTabs(s, d) /\ SameLosses(s, d) /\ SameExps(s, d)
      /\ d.nullDeref = s.nullDeref /\ d.pendingSaveKind = s.pendingSaveKind
      /\ d.dirty = s.dirty \ {s.active} /\ d.stale = s.stale
      /\ d.staleOnDisk = s.staleOnDisk \ {s.active}
  BY DoSaveWorkspaceDoes
<1>4. t = IF s.active = NoTab THEN Crash(s) ELSE IF ~saved THEN s
          ELSE DispatchPendingAction(w, outcome, loaded, tabs)
  BY DEF StaleDrop
<1> HIDE DEF d
<1>5. /\ ActiveSaved(s, w) /\ ~w.showStaleDropPrompt
      /\ w.expDirty = s.expDirty /\ w.expSaved = s.expSaved
      /\ w.pendingWorkspaceAction = s.pendingWorkspaceAction
  BY <1>3 DEF ActiveSaved, IsApp, AppFields, SamePrompts, SameSwitch, SameExit, SameTabs,
         SameLosses, SameExps, SameCloses
<1>6. StaleCancel(s) = IF s.active = NoTab THEN Crash(s) ELSE c
  BY DEF StaleCancel
<1> HIDE DEF c, w, t
<1>7. \/ Crashed(s, t)
      \/ t = s
      \/ s.active # NoTab /\ t = DispatchPendingAction(w, outcome, loaded, tabs)
  BY <1>1, <1>4
<1>8. LET u == StaleCancel(s) IN
        \/ Crashed(s, u)
        \/ /\ SameButPrompts(s, u) /\ u.nullDeref = s.nullDeref
           /\ u.pendingOpen = s.pendingOpen /\ SameCloses(s, u)
           /\ u.pendingWorkspaceAction = s.pendingWorkspaceAction
           /\ u.showUnsavedPrompt = s.showUnsavedPrompt /\ ~u.showStaleDropPrompt
  BY <1>1, <1>2, <1>6
<1> QED
  BY <1>5, <1>7, <1>8 DEF t, DroppedAndDispatched
================================================================================
