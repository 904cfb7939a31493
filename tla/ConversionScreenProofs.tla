------------------------ MODULE ConversionScreenProofs ------------------------
(***************************************************************************)
(* Why the conversion screen never calls std::terminate, although a worker  *)
(* may end after its thread was looked at and before `busy` is read.        *)
(*                                                                          *)
(* The buttons are then enabled with a thread that is not joined.  But a    *)
(* button needs two frames: the mouse went down on it in a frame that read  *)
(* `busy` as false, so that no worker was running, and pollJobs has joined  *)
(* what had ended by the frame in which it comes up.  The invariant says    *)
(* so: with a button held, no modal thread is left in the second frame.     *)
(***************************************************************************)
EXTENDS ConversionScreen, TLAPS

(* No thread of a modal job is left, and none runs. *)
Quiet == \A j \in ModalJobs : thread[j] = "none"
Idle == \A j \in ModalJobs : thread[j] # "running"

(* Every thread that is there was started by its button, and only one is;   *)
(* the converter was given a file.                                           *)
Threads ==
  /\ thread["convert"] # "none" => target \in Paths
  /\ pc \notin Over => started = {j \in ModalJobs : thread[j] # "none"}
  /\ \A i, j \in ModalJobs : thread[i] # "none" /\ thread[j] # "none" => i = j

(* What the places of the frame know. *)
AtPoll ==
  pc = "poll" => /\ open /\ held # "none" => Idle /\ (~slipped => Quiet)
                 /\ ~closePending

InModal ==
  pc \in {"busy", "widgets"} =>
    /\ open
    /\ held # "none" => Quiet
    /\ closePending /\ ~slipped => held = "none" /\ Quiet

AtWidgets == pc = "widgets" /\ ~busy => Idle /\ (~slipped => Quiet)

InGap == pc = "busy" /\ ~slipped => \A j \in ModalJobs : thread[j] \notin Ended

Dismissed ==
  ~slipped =>
    /\ ~open => Quiet
    /\ thread["convert"] = "running" => target # active

Inv ==
  /\ TypeOK
  /\ pc # "terminated"
  /\ Threads
  /\ AtPoll /\ InModal /\ AtWidgets /\ InGap
  /\ Dismissed

USE DEF Jobs, ModalJobs, Buttons, Over, Ended
-----------------------------------------------------------------------------
LEMMA InitInv == Init => Inv
<1>1. ASSUME Init PROVE TypeOK
  BY <1>1 DEF Init, TypeOK
<1>2. ASSUME Init PROVE Quiet
  BY <1>2 DEF Init, Quiet
<1> QED
  BY <1>1, <1>2 DEF Init, Inv, Threads, AtPoll, InModal, AtWidgets, InGap, Dismissed,
     Quiet, Idle

(* A worker ends wherever the frame is. *)
LEMMA JobEndsInv ==
  ASSUME Inv, NEW j \in Jobs, JobEnds(j)
  PROVE  Inv'
<1>1. PICK t \in Ended : thread' = [thread EXCEPT ![j] = t]
  BY DEF JobEnds
<1>2. thread[j] = "running" /\ valid' \subseteq valid \cup (IF j = "convert" THEN {target} ELSE {})
  BY DEF JobEnds
<1>3. /\ pc' = pc /\ open' = open /\ closePending' = closePending /\ held' = held
      /\ started' = started /\ busy' = busy /\ target' = target /\ active' = active
      /\ output' = output /\ openAfter' = openAfter /\ tabs' = tabs
      /\ slipped' = (slipped \/ pc = "busy") /\ pc \notin Over
  BY DEF JobEnds, modal, fields
<1>4. valid' \subseteq Paths
  <2>1. j = "convert" => target \in Paths
    BY <1>2 DEF Inv, Threads
  <2> QED
    BY <1>2, <2>1 DEF Inv, TypeOK
<1>5. thread' \in [Jobs -> {"none", "running"} \cup Ended]
  BY <1>1 DEF Inv, TypeOK
<1>6. \A i \in Jobs : thread'[i] = "none" <=> thread[i] = "none"
  BY <1>1, <1>2 DEF Inv, TypeOK, Threads
<1>7. started' = {i \in ModalJobs : thread'[i] # "none"}
  BY <1>3, <1>6 DEF Inv, Threads
<1>8. TypeOK'
  BY <1>1, <1>2, <1>3, <1>4, <1>5, <1>6, <1>7 DEF Inv, TypeOK
<1> USE DEF Inv, TypeOK, Threads, AtPoll, InModal, AtWidgets, InGap, Dismissed,
        Quiet, Idle
<1>9. Threads'
  BY <1>1, <1>2, <1>3, <1>4, <1>5, <1>6, <1>7
<1>10. AtPoll'
  BY <1>1, <1>2, <1>3, <1>4, <1>5, <1>6, <1>7
<1>11. InModal'
  BY <1>1, <1>2, <1>3, <1>4, <1>5, <1>6, <1>7
<1>12. AtWidgets'
  BY <1>1, <1>2, <1>3, <1>4, <1>5, <1>6, <1>7
<1>13. InGap'
  BY <1>1, <1>2, <1>3, <1>4, <1>5, <1>6, <1>7
<1>14. Dismissed'
  BY <1>1, <1>2, <1>3, <1>4, <1>5, <1>6, <1>7
<1>15. pc' # "terminated"
  BY <1>1, <1>2, <1>3, <1>4, <1>5, <1>6, <1>7
<1> HIDE DEF TypeOK, Threads, AtPoll, InModal, AtWidgets, InGap, Dismissed
<1> QED
  BY <1>8, <1>9, <1>10, <1>11, <1>12, <1>13, <1>14, <1>15

(* pollJobs leaves no thread that has ended while the modal is open. *)
LEMMA PollJobsInv ==
  ASSUME Inv, PollJobs
  PROVE  Inv'
<1>1. /\ pc = "poll" /\ pc' = IF open THEN "busy" ELSE "poll"
      /\ thread' = [j \in Jobs |-> IF j \in Reaped THEN "none" ELSE thread[j]]
      /\ started' = {j \in started : ~(open /\ thread[j] \in Ended)}
      /\ open' = open /\ held' = held /\ busy' = busy /\ output' = output
      /\ target' = target /\ openAfter' = openAfter /\ valid' = valid
      /\ slipped' = slipped
  BY DEF PollJobs, Goto, HasEnded, fields
<1>2. Reaped = {j \in {"startup"} \cup (IF open THEN started ELSE {}) : thread[j] \in Ended}
  BY DEF Reaped, HasEnded
<1>3. \/ tabs' = tabs /\ active' = active /\ closePending' = closePending
      \/ /\ "convert" \in started /\ open /\ thread["convert"] = "ok"
         /\ output \in valid /\ tabs' = tabs \cup {output} /\ active' = output
         /\ closePending' \in BOOLEAN
  BY DEF PollJobs, Converted, HasEnded, Inv, TypeOK, AtPoll
<1>4. TypeOK'
  BY <1>1, <1>2, <1>3 DEF Inv, TypeOK
<1> USE DEF Inv, TypeOK, Threads, AtPoll, InModal, AtWidgets, InGap, Dismissed,
        Quiet, Idle
<1>5. Threads'
  BY <1>1, <1>2, <1>3
<1>6. AtPoll'
  BY <1>1, <1>2, <1>3
<1>7. InModal'
  BY <1>1, <1>2, <1>3
<1>8. AtWidgets'
  BY <1>1, <1>2, <1>3
<1>9. InGap'
  BY <1>1, <1>2, <1>3
<1>10. Dismissed'
  BY <1>1, <1>2, <1>3
<1>11. pc' # "terminated"
  BY <1>1, <1>2, <1>3
<1> HIDE DEF TypeOK, Threads, AtPoll, InModal, AtWidgets, InGap, Dismissed
<1> QED
  BY <1>4, <1>5, <1>6, <1>7, <1>8, <1>9, <1>10, <1>11

(* `busy` is read: without it nothing runs any more. *)
LEMMA ReadBusyInv ==
  ASSUME Inv, ReadBusy
  PROVE  Inv'
<1>1. /\ pc = "busy" /\ pc' = "widgets"
      /\ busy' = \E j \in ModalJobs : thread[j] = "running"
      /\ thread' = thread /\ started' = started /\ open' = open /\ held' = held
      /\ closePending' = closePending /\ output' = output /\ target' = target
      /\ openAfter' = openAfter /\ valid' = valid /\ tabs' = tabs
      /\ active' = active /\ slipped' = slipped
  BY DEF ReadBusy, Goto, Running, modal, fields, disk
<1>2. TypeOK'
  BY <1>1 DEF Inv, TypeOK
<1> USE DEF Inv, TypeOK, Threads, AtPoll, InModal, AtWidgets, InGap, Dismissed,
        Quiet, Idle
<1>3. Threads'
  BY <1>1
<1>4. AtPoll'
  BY <1>1
<1>5. InModal'
  BY <1>1
<1>6. AtWidgets'
  BY <1>1
<1>7. InGap'
  BY <1>1
<1>8. Dismissed'
  BY <1>1
<1>9. pc' # "terminated"
  BY <1>1
<1> HIDE DEF TypeOK, Threads, AtPoll, InModal, AtWidgets, InGap, Dismissed
<1> QED
  BY <1>2, <1>3, <1>4, <1>5, <1>6, <1>7, <1>8, <1>9

(* Exit: the modal goes, and no thread was left. *)
LEMMA PressExitInv ==
  ASSUME Inv, PressExit
  PROVE  Inv'
<1>1. /\ pc = "widgets" /\ pc' = "poll" /\ held = "Exit" /\ held' = "none"
      /\ closePending' = FALSE /\ open' = FALSE
      /\ thread' = thread /\ started' = started /\ busy' = busy /\ slipped' = slipped /\ valid' = valid
      /\ tabs' = tabs /\ active' = active
      /\ output' = output /\ target' = target /\ openAfter' = openAfter
  BY DEF PressExit, Released, Close, fields, disk
<1>2. TypeOK'
  BY <1>1 DEF Inv, TypeOK
<1> USE DEF Inv, TypeOK, Threads, AtPoll, InModal, AtWidgets, InGap, Dismissed,
        Quiet, Idle
<1>3. Threads'
  BY <1>1
<1>4. AtPoll'
  BY <1>1
<1>5. InModal'
  BY <1>1
<1>6. AtWidgets'
  BY <1>1
<1>7. InGap'
  BY <1>1
<1>8. Dismissed'
  BY <1>1
<1>9. pc' # "terminated"
  BY <1>1
<1> HIDE DEF TypeOK, Threads, AtPoll, InModal, AtWidgets, InGap, Dismissed
<1> QED
  BY <1>2, <1>3, <1>4, <1>5, <1>6, <1>7, <1>8, <1>9

(* A conversion starts, with no thread there. *)
LEMMA PressConvertInv ==
  ASSUME Inv, NEW b \in Buttons, PressConvert(b)
  PROVE  Inv'
<1>1. /\ pc = "widgets" /\ held = b /\ held' = "none" /\ output # active
      /\ closePending' = FALSE /\ open' = ~closePending
      /\ target' = output /\ openAfter' = (b = "Convert and open") /\ output' = output
      /\ busy' = busy /\ slipped' = slipped /\ valid' = valid
      /\ tabs' = tabs /\ active' = active
  BY DEF PressConvert, Released, Enabled, OutputConflicts, Close, disk
<1>2. Quiet /\ held # "none"
  BY <1>1 DEF Inv, InModal
<1>3. /\ pc' = "poll" /\ thread' = [thread EXCEPT !["convert"] = "running"]
      /\ started' = started \cup {"convert"}
  BY <1>2 DEF PressConvert, Start, HasEnded, Quiet
<1>4. TypeOK'
  BY <1>1, <1>2, <1>3 DEF Inv, TypeOK
<1> USE DEF Inv, TypeOK, Threads, AtPoll, InModal, AtWidgets, InGap, Dismissed,
        Quiet, Idle
<1>5. Threads'
  BY <1>1, <1>2, <1>3
<1>6. AtPoll'
  BY <1>1, <1>2, <1>3
<1>7. InModal'
  BY <1>1, <1>2, <1>3
<1>8. AtWidgets'
  BY <1>1, <1>2, <1>3
<1>9. InGap'
  BY <1>1, <1>2, <1>3
<1>10. Dismissed'
  BY <1>1, <1>2, <1>3
<1>11. pc' # "terminated"
  BY <1>1, <1>2, <1>3
<1> HIDE DEF TypeOK, Threads, AtPoll, InModal, AtWidgets, InGap, Dismissed
<1> QED
  BY <1>4, <1>5, <1>6, <1>7, <1>8, <1>9, <1>10, <1>11

(* A pull starts, with no thread there. *)
LEMMA PressUpdateInv ==
  ASSUME Inv, PressUpdate
  PROVE  Inv'
<1>1. /\ pc = "widgets" /\ held = "Update" /\ held' = "none"
      /\ closePending' = FALSE /\ open' = ~closePending
      /\ output' = output /\ target' = target /\ openAfter' = openAfter
      /\ busy' = busy /\ slipped' = slipped /\ valid' = valid
      /\ tabs' = tabs /\ active' = active
  BY DEF PressUpdate, Released, Close, fields, disk
<1>2. Quiet /\ held # "none"
  BY <1>1 DEF Inv, InModal
<1>3. /\ pc' = "poll" /\ thread' = [thread EXCEPT !["sync"] = "running"]
      /\ started' = started \cup {"sync"}
  BY <1>2 DEF PressUpdate, Start, HasEnded, Quiet
<1>4. TypeOK'
  BY <1>1, <1>2, <1>3 DEF Inv, TypeOK
<1> USE DEF Inv, TypeOK, Threads, AtPoll, InModal, AtWidgets, InGap, Dismissed,
        Quiet, Idle
<1>5. Threads'
  BY <1>1, <1>2, <1>3
<1>6. AtPoll'
  BY <1>1, <1>2, <1>3
<1>7. InModal'
  BY <1>1, <1>2, <1>3
<1>8. AtWidgets'
  BY <1>1, <1>2, <1>3
<1>9. InGap'
  BY <1>1, <1>2, <1>3
<1>10. Dismissed'
  BY <1>1, <1>2, <1>3
<1>11. pc' # "terminated"
  BY <1>1, <1>2, <1>3
<1> HIDE DEF TypeOK, Threads, AtPoll, InModal, AtWidgets, InGap, Dismissed
<1> QED
  BY <1>4, <1>5, <1>6, <1>7, <1>8, <1>9, <1>10, <1>11

(* The mouse goes down on a button while nothing runs. *)
LEMMA MouseDownInv ==
  ASSUME Inv, NEW b \in Buttons \cup {"none"}, MouseDown(b)
  PROVE  Inv'
<1>1. /\ pc = "widgets" /\ pc' = "poll" /\ held' = b /\ (b # "none" => ~busy)
      /\ closePending' = FALSE /\ open' = ~closePending
      /\ thread' = thread /\ started' = started /\ busy' = busy /\ slipped' = slipped /\ valid' = valid
      /\ tabs' = tabs /\ active' = active
      /\ output' = output /\ target' = target /\ openAfter' = openAfter
  BY DEF MouseDown, Goto, Enabled, Close, fields, disk
<1>2. TypeOK'
  BY <1>1 DEF Inv, TypeOK
<1> USE DEF Inv, TypeOK, Threads, AtPoll, InModal, AtWidgets, InGap, Dismissed,
        Quiet, Idle
<1>3. Threads'
  BY <1>1
<1>4. AtPoll'
  BY <1>1
<1>5. InModal'
  BY <1>1
<1>6. AtWidgets'
  BY <1>1
<1>7. InGap'
  BY <1>1
<1>8. Dismissed'
  BY <1>1
<1>9. pc' # "terminated"
  BY <1>1
<1> HIDE DEF TypeOK, Threads, AtPoll, InModal, AtWidgets, InGap, Dismissed
<1> QED
  BY <1>2, <1>3, <1>4, <1>5, <1>6, <1>7, <1>8, <1>9

(* A field is edited. *)
LEMMA EditFieldsInv ==
  ASSUME Inv, NEW p \in Paths, EditFields(p)
  PROVE  Inv'
<1>1. /\ pc = "widgets" /\ pc' = "poll" /\ held' = "none"
      /\ closePending' = FALSE /\ open' = ~closePending
      /\ thread' = thread /\ started' = started /\ busy' = busy /\ slipped' = slipped /\ valid' = valid
      /\ tabs' = tabs /\ active' = active
      /\ output' = p /\ target' = target /\ openAfter' = openAfter
  BY DEF EditFields, Goto, Close, disk
<1>2. TypeOK'
  BY <1>1 DEF Inv, TypeOK
<1> USE DEF Inv, TypeOK, Threads, AtPoll, InModal, AtWidgets, InGap, Dismissed,
        Quiet, Idle
<1>3. Threads'
  BY <1>1
<1>4. AtPoll'
  BY <1>1
<1>5. InModal'
  BY <1>1
<1>6. AtWidgets'
  BY <1>1
<1>7. InGap'
  BY <1>1
<1>8. Dismissed'
  BY <1>1
<1>9. pc' # "terminated"
  BY <1>1
<1> HIDE DEF TypeOK, Threads, AtPoll, InModal, AtWidgets, InGap, Dismissed
<1> QED
  BY <1>2, <1>3, <1>4, <1>5, <1>6, <1>7, <1>8, <1>9

(* The modal is opened again, possibly on a thread the gap left. *)
LEMMA OpenConversionScreenInv ==
  ASSUME Inv, OpenConversionScreen
  PROVE  Inv'
<1>1. /\ pc = "poll" /\ pc' = pc /\ ~open /\ open' = TRUE /\ openAfter' = FALSE
      /\ held' = "none" /\ closePending' = closePending
      /\ thread' = thread /\ started' = started /\ busy' = busy /\ slipped' = slipped /\ valid' = valid
      /\ tabs' = tabs /\ active' = active
      /\ output' = output /\ target' = target
  BY DEF OpenConversionScreen, disk
<1>2. TypeOK'
  BY <1>1 DEF Inv, TypeOK
<1> USE DEF Inv, TypeOK, Threads, AtPoll, InModal, AtWidgets, InGap, Dismissed,
        Quiet, Idle
<1>3. Threads'
  BY <1>1
<1>4. AtPoll'
  BY <1>1
<1>5. InModal'
  BY <1>1
<1>6. AtWidgets'
  BY <1>1
<1>7. InGap'
  BY <1>1
<1>8. Dismissed'
  BY <1>1
<1>9. pc' # "terminated"
  BY <1>1
<1> HIDE DEF TypeOK, Threads, AtPoll, InModal, AtWidgets, InGap, Dismissed
<1> QED
  BY <1>2, <1>3, <1>4, <1>5, <1>6, <1>7, <1>8, <1>9

(* Another tab is shown, behind no modal. *)
LEMMA ShowTabInv ==
  ASSUME Inv, NEW p \in Paths, ShowTab(p)
  PROVE  Inv'
<1>1. /\ pc = "poll" /\ pc' = pc /\ ~open /\ open' = open
      /\ held' = held /\ closePending' = closePending
      /\ thread' = thread /\ started' = started /\ busy' = busy /\ slipped' = slipped
      /\ valid' = valid /\ tabs' = tabs \cup {p} /\ active' = p
      /\ output' = output /\ target' = target /\ openAfter' = openAfter
  BY DEF ShowTab, modal, fields
<1>2. TypeOK'
  BY <1>1 DEF Inv, TypeOK
<1> USE DEF Inv, TypeOK, Threads, AtPoll, InModal, AtWidgets, InGap, Dismissed,
        Quiet, Idle
<1>3. Threads'
  BY <1>1
<1>4. AtPoll'
  BY <1>1
<1>5. InModal'
  BY <1>1
<1>6. AtWidgets'
  BY <1>1
<1>7. InGap'
  BY <1>1
<1>8. Dismissed'
  BY <1>1
<1>9. pc' # "terminated"
  BY <1>1
<1> HIDE DEF TypeOK, Threads, AtPoll, InModal, AtWidgets, InGap, Dismissed
<1> QED
  BY <1>2, <1>3, <1>4, <1>5, <1>6, <1>7, <1>8, <1>9

(* The window is closed. *)
LEMMA CloseWindowInv ==
  ASSUME Inv, CloseWindow
  PROVE  Inv'
<1>1. /\ pc = "poll" /\ pc' = "atexit" /\ open' = open
      /\ held' = held /\ closePending' = closePending
      /\ thread' = thread /\ started' = started /\ busy' = busy /\ slipped' = slipped /\ valid' = valid
      /\ tabs' = tabs /\ active' = active
      /\ output' = output /\ target' = target /\ openAfter' = openAfter
  BY DEF CloseWindow, Goto, modal, fields, disk
<1>2. TypeOK'
  BY <1>1 DEF Inv, TypeOK
<1> USE DEF Inv, TypeOK, Threads, AtPoll, InModal, AtWidgets, InGap, Dismissed,
        Quiet, Idle
<1>3. Threads'
  BY <1>1
<1>4. AtPoll'
  BY <1>1
<1>5. InModal'
  BY <1>1
<1>6. AtWidgets'
  BY <1>1
<1>7. InGap'
  BY <1>1
<1>8. Dismissed'
  BY <1>1
<1>9. pc' # "terminated"
  BY <1>1
<1> HIDE DEF TypeOK, Threads, AtPoll, InModal, AtWidgets, InGap, Dismissed
<1> QED
  BY <1>2, <1>3, <1>4, <1>5, <1>6, <1>7, <1>8, <1>9

(* The threads are joined at the exit. *)
LEMMA AtExitInv ==
  ASSUME Inv, AtExit
  PROVE  Inv'
<1>1. /\ pc = "atexit" /\ pc' = "exited" /\ thread' = [j \in Jobs |-> "none"]
      /\ open' = open /\ held' = held /\ closePending' = closePending
      /\ started' = started /\ busy' = busy /\ slipped' = slipped /\ valid' = valid
      /\ tabs' = tabs /\ active' = active
      /\ output' = output /\ target' = target /\ openAfter' = openAfter
  BY DEF AtExit, JoinedAtExit, modal, fields, disk
<1>2. TypeOK'
  BY <1>1 DEF Inv, TypeOK
<1> USE DEF Inv, TypeOK, Threads, AtPoll, InModal, AtWidgets, InGap, Dismissed,
        Quiet, Idle
<1>3. Threads'
  BY <1>1
<1>4. AtPoll'
  BY <1>1
<1>5. InModal'
  BY <1>1
<1>6. AtWidgets'
  BY <1>1
<1>7. InGap'
  BY <1>1
<1>8. Dismissed'
  BY <1>1
<1>9. pc' # "terminated"
  BY <1>1
<1> HIDE DEF TypeOK, Threads, AtPoll, InModal, AtWidgets, InGap, Dismissed
<1> QED
  BY <1>2, <1>3, <1>4, <1>5, <1>6, <1>7, <1>8, <1>9

(* Nothing changes. *)
LEMMA StutterInv ==
  ASSUME Inv, UNCHANGED vars
  PROVE  Inv'
<1>1. /\ pc' = pc /\ open' = open /\ held' = held /\ closePending' = closePending
      /\ thread' = thread /\ started' = started /\ busy' = busy /\ slipped' = slipped /\ valid' = valid
      /\ tabs' = tabs /\ active' = active
      /\ output' = output /\ target' = target /\ openAfter' = openAfter
  BY DEF vars, modal, fields, disk
<1>2. TypeOK'
  BY <1>1 DEF Inv, TypeOK
<1> USE DEF Inv, TypeOK, Threads, AtPoll, InModal, AtWidgets, InGap, Dismissed,
        Quiet, Idle
<1>3. Threads'
  BY <1>1
<1>4. AtPoll'
  BY <1>1
<1>5. InModal'
  BY <1>1
<1>6. AtWidgets'
  BY <1>1
<1>7. InGap'
  BY <1>1
<1>8. Dismissed'
  BY <1>1
<1>9. pc' # "terminated"
  BY <1>1
<1> HIDE DEF TypeOK, Threads, AtPoll, InModal, AtWidgets, InGap, Dismissed
<1> QED
  BY <1>2, <1>3, <1>4, <1>5, <1>6, <1>7, <1>8, <1>9

(* Every step keeps it. *)
LEMMA NextInv == Inv /\ [Next]_vars => Inv'
<1>1. ASSUME Inv, Next PROVE Inv'
  <2>1. CASE Widgets
    BY <1>1, <2>1, PressExitInv, PressConvertInv, PressUpdateInv, MouseDownInv, EditFieldsInv
    DEF Widgets
  <2>2. CASE PollJobs \/ ReadBusy \/ AtExit \/ OpenConversionScreen \/ CloseWindow
    BY <1>1, <2>2, PollJobsInv, ReadBusyInv, AtExitInv, OpenConversionScreenInv, CloseWindowInv
  <2>3. CASE (\E p \in Paths : ShowTab(p)) \/ (\E j \in Jobs : JobEnds(j))
    BY <1>1, <2>3, ShowTabInv, JobEndsInv
  <2>4. CASE UNCHANGED vars
    BY <1>1, <2>4, StutterInv
  <2> QED
    BY <1>1, <2>1, <2>2, <2>3, <2>4 DEF Next, Frame, ProgramOver
<1> QED
  BY <1>1, StutterInv

-----------------------------------------------------------------------------
(* The invariant holds throughout. *)
THEOREM Invariance == Spec => []Inv
<1> QED
  BY InitInv, NextInv, PTL DEF Spec

(* The state keeps its type. *)
THEOREM TypeCorrect == Spec => []TypeOK
<1>1. Inv => TypeOK
  BY DEF Inv
<1> QED
  BY <1>1, Invariance, PTL

(* No thread is assigned or destroyed before it was joined, wherever in a    *)
(* frame its worker ends: the program never ends in std::terminate.          *)
THEOREM NeverTerminated == Spec => []NeverTerminates
<1>1. Inv => NeverTerminates
  BY DEF Inv, NeverTerminates
<1> QED
  BY <1>1, Invariance, PTL

(* One modal job at a time; but for the gap before `busy` is read the modal  *)
(* is dismissed only when they are joined, and the converter never writes    *)
(* the file of the active tab.                                               *)
THEOREM ModalOutlives == Spec => []ModalOutlivesJobs
<1>1. ASSUME Inv PROVE ModalOutlivesJobs
  <2>1. thread["convert"] # "running" \/ thread["sync"] # "running"
    BY <1>1 DEF Inv, Threads
  <2>2. ~slipped => DismissedWhenJoined /\ (thread["convert"] = "running" => target # active)
    BY <1>1 DEF Inv, Dismissed, DismissedWhenJoined, Quiet
  <2> QED
    BY <2>1, <2>2 DEF ModalOutlivesJobs
<1> QED
  BY <1>1, Invariance, PTL

(* The Exit button leaves no thread behind, gap or not. *)
THEOREM ExitIsClean == Spec => ExitLeavesNothing
<1>1. ASSUME Inv, Next, open, ~open', ~closePending
      PROVE  \A j \in ModalJobs : thread[j] = "none"
  <2>1. PressExit
    <3>1. ~Close(FALSE)
      BY <1>1 DEF Close
    <3>2. open' # open
      BY <1>1
    <3> QED
      BY <1>1, <3>1, <3>2 DEF Next, Frame, Widgets, ProgramOver, PollJobs, ReadBusy,
         PressConvert, PressUpdate, MouseDown, EditFields, OpenConversionScreen, ShowTab,
         CloseWindow, AtExit, JobEnds, modal, vars
  <2>2. pc = "widgets" /\ held # "none"
    BY <2>1 DEF PressExit, Released
  <2> QED
    BY <1>1, <2>2 DEF Inv, InModal, Quiet
<1>2. Inv /\ [Next]_vars =>
        [(open /\ ~open' /\ ~closePending) => \A j \in ModalJobs : thread[j] = "none"]_vars
  BY <1>1
<1> QED
  BY <1>2, Invariance, PTL DEF Spec, ExitLeavesNothing
================================================================================
