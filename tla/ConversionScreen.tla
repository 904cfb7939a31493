--------------------------- MODULE ConversionScreen ---------------------------
(***************************************************************************)
(* panels/conversion_screen.cpp and the jobs of io/converter.cpp: a modal   *)
(* that runs a converter or a pull of the converter repository in a thread, *)
(* and the pull of the start of the program, which nobody waits for.        *)
(*                                                                          *)
(* A frame is: pollJobs, which joins the threads that have ended; then       *)
(* `busy` is read, after which a worker may still end; then the widgets.     *)
(* The modal shows nothing else to click on.                                *)
(*                                                                          *)
(* A button of ImGui takes two frames: the mouse goes down on it in one and  *)
(* up in another, and it must be enabled in both.                           *)
(***************************************************************************)
EXTENDS FiniteSets

CONSTANTS
    Paths,          \* what the fields of the modal may name as the output
    NoPath

ASSUME ConversionScreenAssumption == NoPath \notin Paths

VARIABLES
    pc,             \* where the frame is, or how the program ended
    open,           \* conversionScreen.open
    closePending,
    held,           \* the button the mouse went down on in the last frame
    thread,         \* per job: no thread, running, or ended and not joined
    started,        \* jobStarted, syncStarted
    busy,           \* as read in this frame
    output,         \* derivedOutputH5: what the fields name now
    target,         \* what the converter was given
    openAfter,      \* openAfterConvert
    valid,          \* the files H5Store::validate accepts
    tabs,           \* the files of the workspace tabs
    active,         \* the file of the active one
    slipped         \* some worker has ended between pollJobs and `busy`

fields == <<output, target, openAfter>>
disk == <<valid, tabs, active>>
modal == <<open, closePending, held>>
vars == <<pc, modal, thread, started, busy, fields, disk, slipped>>

Jobs == {"convert", "sync", "startup"}
ModalJobs == {"convert", "sync"}
Buttons == {"Exit", "Convert", "Convert and open", "Update"}
Over == {"exited", "terminated"}
Ended == {"ok", "failed"}

TypeOK ==
  /\ pc \in {"poll", "busy", "widgets", "atexit"} \cup Over
  /\ open \in BOOLEAN /\ closePending \in BOOLEAN
  /\ held \in Buttons \cup {"none"}
  /\ thread \in [Jobs -> {"none", "running"} \cup Ended]
  /\ started \subseteq ModalJobs
  /\ busy \in BOOLEAN
  /\ output \in Paths
  /\ target \in Paths \cup {NoPath}
  /\ openAfter \in BOOLEAN
  /\ valid \subseteq Paths
  /\ tabs \subseteq Paths /\ active \in tabs \cup {NoPath}
  /\ slipped \in BOOLEAN

(* startupConverterRefresh has run: it pulls if there is a clone. *)
Init ==
  /\ pc = "poll"
  /\ open = FALSE /\ closePending = FALSE /\ held = "none"
  /\ \E t \in {"none", "running"} :
       thread = [j \in Jobs |-> IF j = "startup" THEN t ELSE "none"]
  /\ started = {}
  /\ busy = FALSE
  /\ output \in Paths /\ target = NoPath /\ openAfter = FALSE
  /\ tabs \in SUBSET Paths /\ active \in tabs \cup {NoPath}
  /\ valid = tabs
  /\ slipped = FALSE

Goto(from, to) == pc = from /\ pc' = to

-----------------------------------------------------------------------------
(* The workers *)

(* The converter writes what it is asked for, or something that is no        *)
(* workspace, or nothing.                                                    *)
JobEnds(j) ==
  /\ pc \notin Over
  /\ thread[j] = "running"
  /\ \E t \in Ended : thread' = [thread EXCEPT ![j] = t]
  /\ IF j = "convert"
     THEN valid' \in {valid, valid \ {target}} \cup
                     (IF thread'[j] = "ok" THEN {valid \cup {target}} ELSE {})
     ELSE UNCHANGED valid
  /\ slipped' = (slipped \/ pc = "busy")
  /\ UNCHANGED <<pc, modal, started, busy, fields, tabs, active>>

-----------------------------------------------------------------------------
(* pollJobs *)

HasEnded(j) == thread[j] \in Ended

(* The startup job is reaped whether the modal is open or not, the others    *)
(* only while it is.                                                         *)
\* Mutants of Reaped: nothing is while the modal is closed; the flags are
\* cleared and the threads are not joined
ReapedInModal == IF open THEN {j \in started \cup {"startup"} : HasEnded(j)} ELSE {}

ReapedStartup == {j \in {"startup"} : HasEnded(j)}

Reaped ==
  {j \in {"startup"} \cup (IF open THEN started ELSE {}) : HasEnded(j)}

(* A converter that ends well: what the fields name now is validated and, if *)
(* so asked, opened in a tab.  A prompt that is already on screen keeps the  *)
(* modal open.                                                               *)
Converted ==
  IF output \in valid /\ openAfter
  THEN /\ tabs' = tabs \cup {output} /\ active' = output
       /\ \E prompted \in BOOLEAN : closePending' = (closePending \/ ~prompted)
  ELSE UNCHANGED <<tabs, active, closePending>>

PollJobs ==
  /\ Goto("poll", IF open THEN "busy" ELSE "poll")
  /\ open \/ Reaped # {}
  /\ thread' = [j \in Jobs |-> IF j \in Reaped THEN "none" ELSE thread[j]]
  /\ started' = {j \in started : ~(open /\ HasEnded(j))}
  /\ IF "convert" \in started \ started' /\ thread["convert"] = "ok"
     THEN Converted ELSE UNCHANGED <<tabs, active, closePending>>
  /\ UNCHANGED <<open, held, busy, fields, valid, slipped>>

-----------------------------------------------------------------------------
(* The modal *)

(* "While a job runs the modal cannot be dismissed" *)
Running == \E j \in ModalJobs : thread[j] = "running"

ReadBusy ==
  /\ Goto("busy", "widgets")
  /\ busy' = Running
  /\ UNCHANGED <<modal, thread, started, fields, disk, slipped>>

(* What disables the converter buttons besides `busy`, as far as the disk is *)
(* concerned: the output would be the file of the active tab.                *)
\* Mutant of OutputConflicts: not asked
OutputConflictsNever == FALSE

OutputConflicts == output = active

Enabled(b) ==
  /\ ~busy
  /\ b \in {"Convert", "Convert and open"} => ~OutputConflicts

(* startConverter, startRepoSync: assigning to a thread that was not joined   *)
(* is std::terminate.                                                        *)
Start(j) ==
  IF thread[j] = "running" THEN pc' = "poll" /\ UNCHANGED <<thread, started>>
  ELSE IF HasEnded(j) THEN pc' = "terminated" /\ UNCHANGED <<thread, started>>
  ELSE /\ pc' = "poll"
       /\ thread' = [thread EXCEPT ![j] = "running"]
       /\ started' = started \cup {j}

(* The end of the body of the popup, after its buttons. *)
Close(exit) ==
  /\ closePending' = FALSE
  /\ open' = ~(exit \/ closePending)

Released(b) ==
  /\ pc = "widgets"
  /\ held = b /\ Enabled(b)
  /\ held' = "none"

PressExit ==
  /\ Released("Exit") /\ pc' = "poll"
  /\ Close(TRUE)
  /\ UNCHANGED <<thread, started, busy, fields, disk, slipped>>

PressConvert(b) ==
  /\ Released(b)
  /\ b \in {"Convert", "Convert and open"}
  /\ Start("convert")
  /\ target' = output /\ openAfter' = (b = "Convert and open")
  /\ Close(FALSE)
  /\ UNCHANGED <<busy, output, disk, slipped>>

PressUpdate ==
  /\ Released("Update")
  /\ Start("sync")
  /\ Close(FALSE)
  /\ UNCHANGED <<busy, fields, disk, slipped>>

(* The mouse goes down on an enabled button, or nothing of this happens. *)
MouseDown(b) ==
  /\ Goto("widgets", "poll")
  /\ b = "none" \/ Enabled(b)
  /\ held' = b
  /\ Close(FALSE)
  /\ UNCHANGED <<thread, started, busy, fields, disk, slipped>>

(* The fields are never disabled. *)
EditFields(p) ==
  /\ Goto("widgets", "poll")
  /\ output' = p
  /\ held' = "none"
  /\ Close(FALSE)
  /\ UNCHANGED <<thread, started, busy, target, openAfter, disk, slipped>>

Widgets ==
  \/ PressExit \/ PressUpdate
  \/ \E b \in Buttons : PressConvert(b)
  \/ \E b \in Buttons \cup {"none"} : MouseDown(b)
  \/ \E p \in Paths : EditFields(p)

-----------------------------------------------------------------------------
(* Around the modal *)

OpenConversionScreen ==
  /\ pc = "poll" /\ ~open
  /\ open' = TRUE
  /\ openAfter' = FALSE
  /\ held' = "none"
  /\ UNCHANGED <<pc, closePending, thread, started, busy, output, target, disk, slipped>>

(* Opening and switching tabs, which the modal prevents. *)
ShowTab(p) ==
  /\ pc = "poll" /\ ~open
  /\ p \in valid
  /\ tabs' = tabs \cup {p} /\ active' = p
  /\ UNCHANGED <<pc, modal, thread, started, busy, fields, valid, slipped>>

(* The window is closed, and the handler given to atexit joins the threads    *)
(* before they are destroyed.                                                *)
CloseWindow ==
  /\ Goto("poll", "atexit")
  /\ UNCHANGED <<modal, thread, started, busy, fields, disk, slipped>>

JoinedAtExit == Jobs

AtExit ==
  /\ pc = "atexit"
  /\ \A j \in JoinedAtExit : thread[j] # "running"
  /\ thread' = [j \in Jobs |-> IF j \in JoinedAtExit THEN "none" ELSE thread[j]]
  /\ pc' = IF \A j \in Jobs : thread'[j] = "none" THEN "exited" ELSE "terminated"
  /\ UNCHANGED <<modal, started, busy, fields, disk, slipped>>

ProgramOver == pc \in Over /\ UNCHANGED vars

Frame == PollJobs \/ ReadBusy \/ Widgets

Next ==
  \/ Frame \/ AtExit \/ ProgramOver
  \/ OpenConversionScreen \/ CloseWindow
  \/ \E p \in Paths : ShowTab(p)
  \/ \E j \in Jobs : JobEnds(j)

Spec == Init /\ [][Next]_vars

(* The idle gate of the frame loop lets frames follow each other while the   *)
(* modal is open or a thread is there to be joined; the processes the        *)
(* workers wait for end.                                                     *)
Fairness ==
  /\ WF_vars(Frame) /\ WF_vars(AtExit)
  /\ \A j \in Jobs : WF_vars(JobEnds(j))

FairSpec == Spec /\ Fairness

-----------------------------------------------------------------------------
(* No job is started over, and no thread destroyed, before it was joined:    *)
(* std::terminate is never called, wherever in a frame the worker ends.      *)
NeverTerminates == pc # "terminated"

(* The comment where `busy` is read: "While a job runs the modal cannot be   *)
(* dismissed (thread must be joined)".                                       *)
DismissedWhenJoined == ~open => \A j \in ModalJobs : thread[j] = "none"

(* The jobs of the modal run one at a time, for a pull replaces the converter *)
(* on disk.  It is dismissed with a job only if a worker ended in that one   *)
(* gap of a frame; and with the modal there while it runs, the converter     *)
(* never writes the file of the active tab.                                  *)
ModalOutlivesJobs ==
  /\ \E j \in ModalJobs : thread[j] # "running"
  /\ ~slipped =>
       /\ DismissedWhenJoined
       /\ thread["convert"] = "running" => target # active

(* The Exit button itself leaves no thread behind, gap or not.               *)
ExitLeavesNothing ==
  [][(open /\ ~open' /\ ~closePending) => \A j \in ModalJobs : thread[j] = "none"]_vars

(* A thread that is there is joined: that of the startup whatever becomes of *)
(* the modal, the others as long as the modal is there or at the exit.       *)
Joined ==
  /\ thread["startup"] # "none" ~> thread["startup"] = "none"
  /\ \A j \in ModalJobs : thread[j] # "none" ~> (thread[j] = "none" \/ ~open)
  /\ pc = "atexit" ~> pc \in Over

(* The comment of pollJobs: "Convert and open": validate, open the workspace  *)
(* - the one that was converted.                                             *)
OpensWhatWasConverted ==
  [][(open /\ active' # active) => active' = target]_vars
================================================================================
