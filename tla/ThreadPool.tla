------------------------------ MODULE ThreadPool ------------------------------
(***************************************************************************)
(* workspace/thread_pool.h: the pool that every spectrum, average, SNR,     *)
(* Allan and transmittance computation runs on.  One mutex and one          *)
(* condition variable serve two kinds of waiters: workers that wait for a   *)
(* task and the owner in waitAll.  A critical section is one action; the    *)
(* notifications that the code sends after it has left the mutex are        *)
(* actions of their own.                                                    *)
(*                                                                          *)
(* The owner is the UI thread.  It alone submits, waits for all (before it  *)
(* replaces the pool by one of another size) and destroys.  A task that     *)
(* throws ends like any other: its packaged_task keeps the exception.       *)
(***************************************************************************)
EXTENDS Integers, Sequences, FiniteSets, SequencesExt

CONSTANTS
    Tasks,          \* computations that may be submitted
    Workers,        \* the threads of the pool
    Main,           \* the UI thread
    NoTask

(* hardware_concurrency() workers; a platform that cannot tell the number,   *)
(* and answers 0, is excluded.                                               *)
ASSUME WorkersAssumption ==
  /\ IsFiniteSet(Workers) /\ Workers # {}
  /\ Main \notin Workers /\ NoTask \notin Tasks

VARIABLES
    queue,          \* tasks_
    tasksRunning,
    stop,
    pc,             \* where each thread is
    task,           \* the task a worker has taken
    waiting,        \* threads asleep on condition_
    submitted,      \* every task handed in, in order
    started,        \* every task taken by a worker, in order
    finished        \* tasks whose function has returned

vars == <<queue, tasksRunning, stop, pc, task, waiting, submitted, started, finished>>

Threads == Workers \cup {Main}

OwnerAt == {"idle", "signal", "waitAll", "broadcast", "join", "destroyed"}
WorkerAt == {"loop", "run", "finish", "exited"}

TypeOK ==
  /\ queue \in Seq(Tasks)
  /\ tasksRunning \in 0 .. Cardinality(Workers)
  /\ stop \in BOOLEAN
  /\ pc \in [Threads -> OwnerAt \cup WorkerAt]
  /\ pc[Main] \in OwnerAt
  /\ \A w \in Workers : pc[w] \in WorkerAt
  /\ task \in [Workers -> Tasks \cup {NoTask}]
  /\ waiting \in SUBSET Threads
  /\ submitted \in Seq(Tasks)
  /\ started \in Seq(Tasks)
  /\ finished \in SUBSET Tasks

Init ==
  /\ queue = << >>
  /\ tasksRunning = 0
  /\ stop = FALSE
  /\ pc = [p \in Threads |-> IF p = Main THEN "idle" ELSE "loop"]
  /\ task = [w \in Workers |-> NoTask]
  /\ waiting = {}
  /\ submitted = << >>
  /\ started = << >>
  /\ finished = {}

Goto(p, from, to) == pc[p] = from /\ pc' = [pc EXCEPT ![p] = to]

Awake(p) == p \notin waiting

NotifyAll == waiting' = {}

-----------------------------------------------------------------------------
(* The owner *)

Enqueue(t) ==
  /\ Goto(Main, "idle", "signal")
  /\ t \notin Range(submitted)
  /\ queue' = Append(queue, t)
  /\ submitted' = Append(submitted, t)
  /\ UNCHANGED <<tasksRunning, stop, task, waiting, started, finished>>

(* pthread_cond_signal, outside the mutex: any one waiter may be the one.    *)
Signal ==
  /\ Goto(Main, "signal", "idle")
  /\ IF waiting = {} THEN UNCHANGED waiting
     ELSE \E p \in waiting : waiting' = waiting \ {p}
  /\ UNCHANGED <<queue, tasksRunning, stop, task, submitted, started, finished>>

AllDone == queue = << >> /\ tasksRunning = 0

CallWaitAll ==
  /\ Goto(Main, "idle", "waitAll")
  /\ UNCHANGED <<queue, tasksRunning, stop, task, waiting, submitted, started, finished>>

\* Mutant of WaitAllReturns: the tasks that have been taken are not waited for
WaitAllForQueue ==
  /\ Awake(Main)
  /\ queue = << >>
  /\ Goto(Main, "waitAll", "idle")
  /\ UNCHANGED <<queue, tasksRunning, stop, task, waiting, submitted, started, finished>>

WaitAllReturns ==
  /\ Awake(Main)
  /\ AllDone
  /\ Goto(Main, "waitAll", "idle")
  /\ UNCHANGED <<queue, tasksRunning, stop, task, waiting, submitted, started, finished>>

WaitAllSleeps ==
  /\ pc[Main] = "waitAll" /\ Awake(Main)
  /\ ~AllDone
  /\ waiting' = waiting \cup {Main}
  /\ UNCHANGED <<queue, tasksRunning, stop, pc, task, submitted, started, finished>>

(* The destructor: stop, wake everybody, join the workers.                   *)
Destroy ==
  /\ Goto(Main, "idle", "broadcast")
  /\ stop' = TRUE
  /\ UNCHANGED <<queue, tasksRunning, task, waiting, submitted, started, finished>>

DestroyWakes ==
  /\ Goto(Main, "broadcast", "join")
  /\ NotifyAll
  /\ UNCHANGED <<queue, tasksRunning, stop, task, submitted, started, finished>>

Joined ==
  /\ \A w \in Workers : pc[w] = "exited"
  /\ Goto(Main, "join", "destroyed")
  /\ UNCHANGED <<queue, tasksRunning, stop, task, waiting, submitted, started, finished>>

-----------------------------------------------------------------------------
(* A worker: workerLoop *)

Take(w) ==
  /\ Awake(w)
  /\ queue # << >>
  /\ Goto(w, "loop", "run")
  /\ task' = [task EXCEPT ![w] = Head(queue)]
  /\ started' = Append(started, Head(queue))
  /\ queue' = Tail(queue)
  /\ tasksRunning' = tasksRunning + 1
  /\ UNCHANGED <<stop, waiting, submitted, finished>>

Sleep(w) ==
  /\ pc[w] = "loop" /\ Awake(w)
  /\ queue = << >> /\ ~stop
  /\ waiting' = waiting \cup {w}
  /\ UNCHANGED <<queue, tasksRunning, stop, pc, task, submitted, started, finished>>

\* Mutant of Exit: a stopped pool does not drain its queue
ExitAtOnce(w) ==
  /\ Awake(w)
  /\ stop
  /\ Goto(w, "loop", "exited")
  /\ UNCHANGED <<queue, tasksRunning, stop, task, waiting, submitted, started, finished>>

Exit(w) ==
  /\ Awake(w)
  /\ queue = << >> /\ stop
  /\ Goto(w, "loop", "exited")
  /\ UNCHANGED <<queue, tasksRunning, stop, task, waiting, submitted, started, finished>>

Run(w) ==
  /\ Goto(w, "run", "finish")
  /\ finished' = finished \cup {task[w]}
  /\ UNCHANGED <<queue, tasksRunning, stop, task, waiting, submitted, started>>

\* Mutant of Finish: one waiter is notified instead of all of them
FinishSignals(w) ==
  /\ Goto(w, "finish", "loop")
  /\ task' = [task EXCEPT ![w] = NoTask]
  /\ tasksRunning' = tasksRunning - 1
  /\ IF waiting = {} THEN UNCHANGED waiting
     ELSE \E p \in waiting : waiting' = waiting \ {p}
  /\ UNCHANGED <<queue, stop, submitted, started, finished>>

Finish(w) ==
  /\ Goto(w, "finish", "loop")
  /\ task' = [task EXCEPT ![w] = NoTask]
  /\ tasksRunning' = tasksRunning - 1
  /\ NotifyAll
  /\ UNCHANGED <<queue, stop, submitted, started, finished>>

(* pthread_cond_wait may return for no reason. *)
SpuriousWakeup(p) ==
  /\ p \in waiting
  /\ waiting' = waiting \ {p}
  /\ UNCHANGED <<queue, tasksRunning, stop, pc, task, submitted, started, finished>>

-----------------------------------------------------------------------------

Submits == \E t \in Tasks : Enqueue(t)

(* What the owner does without being asked to. *)
OwnerStep == Signal \/ WaitAllReturns \/ WaitAllSleeps \/ DestroyWakes \/ Joined

WorkerStep(w) == Take(w) \/ Sleep(w) \/ Exit(w) \/ Run(w) \/ Finish(w)

Ended == pc[Main] = "destroyed" /\ UNCHANGED vars

Next ==
  \/ Submits \/ CallWaitAll \/ Destroy \/ OwnerStep
  \/ \E w \in Workers : WorkerStep(w)
  \/ \E p \in Threads : SpuriousWakeup(p)
  \/ Ended

Spec == Init /\ [][Next]_vars

(* Threads are scheduled, and a computation returns. *)
Fairness == WF_vars(OwnerStep) /\ \A w \in Workers : WF_vars(WorkerStep(w))

FairSpec == Spec /\ Fairness

-----------------------------------------------------------------------------
(* Nobody sleeps through what it waits for, although one condition variable  *)
(* serves both kinds of waiters and a signal wakes only one of them: while   *)
(* tasks are queued a worker is awake to take them, or a signal is on its    *)
(* way; the owner sleeps only while a worker still has to finish; and after  *)
(* the destructor's broadcast nobody sleeps at all.                          *)
NoLostWakeup ==
  /\ queue # << >> =>
       \/ pc[Main] = "signal"
       \/ \E w \in Workers : Awake(w) /\ pc[w] # "exited"
  /\ Main \in waiting => ~AllDone
  /\ stop /\ pc[Main] # "broadcast" => waiting = {}

(* Tasks start in the order they were submitted, each of them once: what was *)
(* taken and what is queued make up what was submitted.                      *)
StartsInOrder == started \o queue = submitted

(* The pool promises what TaskPool says. *)
Owner ==
  CASE pc[Main] \in {"idle", "signal"} -> "free"
    [] pc[Main] = "waitAll" -> "waitAll"
    [] pc[Main] \in {"broadcast", "join"} -> "destroy"
    [] pc[Main] = "destroyed" -> "destroyed"

Promise == INSTANCE TaskPool WITH submitted <- Range(submitted), owner <- Owner

(* Every step is a step of TaskPool or invisible to it: waitAll and the      *)
(* destructor return only when every task handed in has been carried out.    *)
KeepsPromise == Promise!Spec

(* And everything promised happens: each task is carried out, waitAll and    *)
(* the destructor return.                                                    *)
PromiseFulfilled == Promise!Fairness
================================================================================
