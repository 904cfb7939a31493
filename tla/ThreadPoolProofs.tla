--------------------------- MODULE ThreadPoolProofs ---------------------------
(***************************************************************************)
(* Theorems of ThreadPool, for any set of tasks and any finite, nonempty    *)
(* set of workers: nobody sleeps through a wakeup, tasks start in order,    *)
(* and every step of the pool is one that TaskPool allows.                  *)
(***************************************************************************)
EXTENDS ThreadPool, SequenceTheorems, FiniteSetTheorems, TLAPS

(* Workers between taking a task and reporting it done. *)
Busy == {w \in Workers : pc[w] \in {"run", "finish"}}

Counted == tasksRunning = Cardinality(Busy)

(* Where a thread is decides what it may be waiting for. *)
Places ==
  /\ stop <=> pc[Main] \in {"broadcast", "join", "destroyed"}
  /\ Main \in waiting => pc[Main] = "waitAll"
  /\ \A w \in Workers : w \in waiting => pc[w] = "loop"
  /\ \A w \in Workers : pc[w] = "exited" => stop /\ queue = << >>
  /\ pc[Main] = "destroyed" => \A w \in Workers : pc[w] = "exited"

(* Every task handed in is done, queued or being run. *)
Outstanding ==
  Range(submitted) =
    finished \cup Range(queue) \cup {task[w] : w \in {v \in Workers : pc[v] = "run"}}

Types ==
  /\ queue \in Seq(Tasks)
  /\ tasksRunning \in Nat
  /\ stop \in BOOLEAN
  /\ pc \in [Threads -> OwnerAt \cup WorkerAt]
  /\ pc[Main] \in OwnerAt
  /\ \A w \in Workers : pc[w] \in WorkerAt
  /\ task \in [Workers -> Tasks \cup {NoTask}]
  /\ \A w \in Workers : pc[w] = "run" => task[w] \in Tasks
  /\ waiting \in SUBSET Threads
  /\ submitted \in Seq(Tasks)
  /\ started \in Seq(Tasks)
  /\ finished \in SUBSET Tasks

Inv == Types /\ Counted /\ Places /\ NoLostWakeup /\ StartsInOrder /\ Outstanding

-----------------------------------------------------------------------------
(* Lemmas about queues *)

(* What a queue holds after a task has joined it, and before its first left.  *)
LEMMA QueueContents ==
  ASSUME NEW S, NEW q \in Seq(S)
  PROVE  /\ \A e \in S : Range(Append(q, e)) = Range(q) \cup {e}
         /\ q # << >> => Range(q) = {Head(q)} \cup Range(Tail(q))
         /\ Range(<< >>) = {}
         /\ Range(q) \subseteq S
<1>1. ASSUME NEW e \in S PROVE Range(Append(q, e)) = Range(q) \cup {e}
  <2>1. /\ Len(q) \in Nat /\ DOMAIN q = 1 .. Len(q)
        /\ DOMAIN Append(q, e) = 1 .. Len(q) + 1
        /\ \A i \in 1 .. Len(q) : Append(q, e)[i] = q[i]
        /\ Append(q, e)[Len(q) + 1] = e
    BY <1>1
  <2>2. Range(q) \cup {e} \subseteq Range(Append(q, e))
    BY <2>1 DEF Range
  <2>3. Range(Append(q, e)) \subseteq Range(q) \cup {e}
    <3>1. \A i \in 1 .. Len(q) + 1 : i \in 1 .. Len(q) \/ i = Len(q) + 1
      BY <2>1
    <3> QED
      BY <2>1, <3>1 DEF Range
  <2> QED
    BY <2>2, <2>3
<1>2. ASSUME q # << >> PROVE Range(q) = {Head(q)} \cup Range(Tail(q))
  <2>1. /\ Len(q) \in Nat \ {0} /\ DOMAIN q = 1 .. Len(q)
        /\ Tail(q) \in Seq(S) /\ DOMAIN Tail(q) = 1 .. Len(q) - 1
        /\ \A i \in 1 .. Len(q) - 1 : Tail(q)[i] = q[i + 1]
        /\ Head(q) = q[1]
    BY <1>2
  <2>2. \A i \in 1 .. Len(q) : i = 1 \/ (i - 1 \in 1 .. Len(q) - 1 /\ q[i] = Tail(q)[i - 1])
    BY <2>1
  <2>3. Range(q) \subseteq {Head(q)} \cup Range(Tail(q))
    <3>1. ASSUME NEW i \in 1 .. Len(q) PROVE q[i] \in {Head(q)} \cup Range(Tail(q))
      <4>1. i = 1 => q[i] = Head(q)
        BY <2>1
      <4>2. i # 1 => q[i] \in Range(Tail(q))
        BY <2>1, <2>2 DEF Range
      <4> QED
        BY <4>1, <4>2
    <3> QED
      BY <2>1, <3>1 DEF Range
  <2>4. {Head(q)} \cup Range(Tail(q)) \subseteq Range(q)
    BY <2>1 DEF Range
  <2> QED
    BY <2>3, <2>4
<1>3. Range(<< >>) = {}
  BY DEF Range
<1>4. Range(q) \subseteq S
  BY DEF Range
<1> QED
  BY <1>1, <1>2, <1>3, <1>4

(* Moving the first of the queue to the end of another sequence.              *)
LEMMA MoveHead ==
  ASSUME NEW S, NEW p \in Seq(S), NEW q \in Seq(S), q # << >>
  PROVE  Append(p, Head(q)) \o Tail(q) = p \o q
<1>1. /\ Append(p, Head(q)) \in Seq(S) /\ Tail(q) \in Seq(S)
      /\ Len(Append(p, Head(q))) = Len(p) + 1 /\ Len(Tail(q)) = Len(q) - 1
      /\ Len(p) \in Nat /\ Len(q) \in Nat \ {0}
      /\ \A i \in 1 .. Len(p) : Append(p, Head(q))[i] = p[i]
      /\ Append(p, Head(q))[Len(p) + 1] = q[1]
      /\ \A i \in 1 .. Len(q) - 1 : Tail(q)[i] = q[i + 1]
  OBVIOUS
<1>2. /\ Len(Append(p, Head(q)) \o Tail(q)) = Len(p) + Len(q)
      /\ Len(p \o q) = Len(p) + Len(q)
      /\ Append(p, Head(q)) \o Tail(q) \in Seq(S) /\ p \o q \in Seq(S)
  BY <1>1, ConcatProperties
<1>3. ASSUME NEW i \in 1 .. Len(p) + Len(q)
      PROVE  (Append(p, Head(q)) \o Tail(q))[i] = (p \o q)[i]
  <2>1. (p \o q)[i] = IF i <= Len(p) THEN p[i] ELSE q[i - Len(p)]
    BY ConcatProperties
  <2>2. (Append(p, Head(q)) \o Tail(q))[i] =
          IF i <= Len(p) + 1 THEN Append(p, Head(q))[i] ELSE Tail(q)[i - (Len(p) + 1)]
    BY <1>1, ConcatProperties
  <2>3. CASE i <= Len(p)
    BY <1>1, <2>1, <2>2, <2>3
  <2>4. CASE i = Len(p) + 1
    BY <1>1, <2>1, <2>2, <2>4
  <2>5. CASE i > Len(p) + 1
    <3>1. i - (Len(p) + 1) \in 1 .. Len(q) - 1
      BY <1>1, <2>5
    <3>2. Tail(q)[i - (Len(p) + 1)] = q[i - (Len(p) + 1) + 1]
      BY <1>1, <3>1
    <3>3. i - (Len(p) + 1) + 1 = i - Len(p)
      BY <1>1
    <3> QED
      BY <1>1, <2>1, <2>2, <2>5, <3>2, <3>3
  <2> QED
    BY <1>1, <2>3, <2>4, <2>5
<1> QED
  BY <1>2, <1>3, SeqEqual

-----------------------------------------------------------------------------
(* The invariant *)

(* It holds of a new pool. *)
LEMMA InitInv == Init => Inv
<1> SUFFICES ASSUME Init PROVE Inv
  OBVIOUS
<1> USE WorkersAssumption DEF Init
<1>1. Types
  <2>1. pc \in [Threads -> OwnerAt \cup WorkerAt] /\ pc[Main] \in OwnerAt
    BY DEF Threads, OwnerAt, WorkerAt
  <2>2. \A w \in Workers : pc[w] \in WorkerAt /\ pc[w] # "run"
    BY DEF Threads, WorkerAt
  <2>3. << >> \in Seq(Tasks)
    OBVIOUS
  <2>4. task \in [Workers -> Tasks \cup {NoTask}]
    OBVIOUS
  <2> QED
    BY <2>1, <2>2, <2>3, <2>4 DEF Types
<1>2. Busy = {} /\ Counted
  BY FS_EmptySet DEF Busy, Counted, Threads
<1>3. Places
  BY DEF Places, Threads
<1>4. NoLostWakeup
  BY DEF NoLostWakeup, Threads
<1>5. StartsInOrder
  BY DEF StartsInOrder
<1>6. Outstanding
  BY DEF Outstanding, Threads, Range
<1> QED
  BY <1>1, <1>2, <1>3, <1>4, <1>5, <1>6 DEF Inv

(* A step of the owner that leaves the queue, the tasks and the workers alone *)
(* disturbs only what relates its place to the sleepers.                      *)
LEMMA OwnerMoves ==
  ASSUME Inv, NEW from \in OwnerAt, NEW to \in OwnerAt, Goto(Main, from, to),
         UNCHANGED <<queue, tasksRunning, task, submitted, started, finished>>,
         stop' \in BOOLEAN, waiting' \in SUBSET Threads,
         Places', NoLostWakeup'
  PROVE  Inv'
<1> USE WorkersAssumption DEF Inv
<1>1. /\ pc' \in [Threads -> OwnerAt \cup WorkerAt] /\ pc'[Main] = to
      /\ \A w \in Workers : pc'[w] = pc[w]
  BY DEF Types, Goto, Threads
<1>2. Types'
  BY <1>1 DEF Types
<1>3. Busy' = Busy
  BY <1>1 DEF Busy
<1>4. Counted'
  BY <1>3 DEF Counted
<1>5. StartsInOrder'
  BY DEF StartsInOrder
<1>6. Outstanding'
  BY <1>1 DEF Outstanding
<1> QED
  BY <1>2, <1>4, <1>5, <1>6

(* Waking one sleeper: the signal after a task was queued reaches a worker,   *)
(* because the owner, which sends it, cannot be asleep.                       *)
LEMMA SignalInv == Inv /\ Signal => Inv'
<1> SUFFICES ASSUME Inv, Signal PROVE Inv'
  OBVIOUS
<1> USE WorkersAssumption DEF Inv
<1>1. /\ pc[Main] = "signal" /\ pc'[Main] = "idle" /\ \A w \in Workers : pc'[w] = pc[w]
      /\ stop' = stop /\ queue' = queue /\ tasksRunning' = tasksRunning
  BY DEF Signal, Goto, Types, Threads
<1>2. Main \notin waiting /\ ~stop /\ waiting \subseteq Workers
  BY <1>1 DEF Places, Types, Threads
<1>3. waiting' \subseteq waiting /\ (waiting = {} \/ waiting' # waiting)
  BY DEF Signal
<1>4. Places'
  BY <1>1, <1>2, <1>3 DEF Places
<1>5. \E w \in Workers : w \notin waiting' /\ pc[w] # "exited"
  <2>1. \A w \in Workers : pc[w] # "exited"
    BY <1>2 DEF Places
  <2>2. \E w \in Workers : w \notin waiting'
    BY <1>2, <1>3
  <2> QED
    BY <2>1, <2>2
<1>6. NoLostWakeup'
  BY <1>1, <1>2, <1>3, <1>5 DEF NoLostWakeup, Awake
<1>7. "signal" \in OwnerAt /\ "idle" \in OwnerAt
  BY DEF OwnerAt
<1> QED
  BY <1>3, <1>4, <1>6, <1>7, OwnerMoves DEF Signal, Types

(* The owner's other steps. *)
LEMMA OwnerInv ==
  Inv /\ (CallWaitAll \/ WaitAllReturns \/ Destroy \/ DestroyWakes \/ Joined) => Inv'
<1> USE WorkersAssumption DEF Inv
<1>1. OwnerAt = {"idle", "signal", "waitAll", "broadcast", "join", "destroyed"}
  BY DEF OwnerAt
<1>2. ASSUME Inv, NEW from \in OwnerAt, NEW to \in OwnerAt, Goto(Main, from, to)
      PROVE  pc[Main] = from /\ pc'[Main] = to /\ \A w \in Workers : pc'[w] = pc[w]
  BY <1>2 DEF Goto, Types, Threads
<1>3. ASSUME Inv, CallWaitAll PROVE Inv'
  <2>1. pc[Main] = "idle" /\ pc'[Main] = "waitAll" /\ \A w \in Workers : pc'[w] = pc[w]
    BY <1>1, <1>2, <1>3 DEF CallWaitAll
  <2>2. Places'
    BY <1>3, <2>1 DEF CallWaitAll, Places
  <2>3. NoLostWakeup'
    BY <1>3, <2>1 DEF CallWaitAll, NoLostWakeup, Places, AllDone, Awake
  <2> QED
    BY <1>1, <1>3, <2>2, <2>3, OwnerMoves DEF CallWaitAll, Types
<1>4. ASSUME Inv, WaitAllReturns PROVE Inv'
  <2>1. pc[Main] = "waitAll" /\ pc'[Main] = "idle" /\ \A w \in Workers : pc'[w] = pc[w]
    BY <1>1, <1>2, <1>4 DEF WaitAllReturns
  <2>2. Places'
    BY <1>4, <2>1 DEF WaitAllReturns, Places, Awake
  <2>3. NoLostWakeup'
    BY <1>4, <2>1 DEF WaitAllReturns, NoLostWakeup, Places, AllDone, Awake
  <2> QED
    BY <1>1, <1>4, <2>2, <2>3, OwnerMoves DEF WaitAllReturns, Types
<1>5. ASSUME Inv, Destroy PROVE Inv'
  <2>1. /\ pc[Main] = "idle" /\ pc'[Main] = "broadcast"
        /\ \A w \in Workers : pc'[w] = pc[w]
    BY <1>1, <1>2, <1>5 DEF Destroy
  <2>2. Places'
    BY <1>5, <2>1 DEF Destroy, Places
  <2>3. NoLostWakeup'
    BY <1>5, <2>1 DEF Destroy, NoLostWakeup, Places, AllDone, Awake
  <2> QED
    BY <1>1, <1>5, <2>2, <2>3, OwnerMoves DEF Destroy, Types
<1>6. ASSUME Inv, DestroyWakes PROVE Inv'
  <2>1. /\ pc[Main] = "broadcast" /\ pc'[Main] = "join"
        /\ \A w \in Workers : pc'[w] = pc[w]
    BY <1>1, <1>2, <1>6 DEF DestroyWakes
  <2>2. waiting' = {}
    BY <1>6 DEF DestroyWakes, NotifyAll
  <2>3. Places'
    BY <1>6, <2>1, <2>2 DEF DestroyWakes, Places
  <2>4. NoLostWakeup'
    BY <1>6, <2>1, <2>2 DEF DestroyWakes, NoLostWakeup, Places, AllDone, Awake
  <2> QED
    BY <1>1, <1>6, <2>2, <2>3, <2>4, OwnerMoves DEF DestroyWakes, Types
<1>7. ASSUME Inv, Joined PROVE Inv'
  <2>1. /\ pc[Main] = "join" /\ pc'[Main] = "destroyed"
        /\ \A w \in Workers : pc'[w] = pc[w]
    BY <1>1, <1>2, <1>7 DEF Joined
  <2>2. Places'
    BY <1>7, <2>1 DEF Joined, Places
  <2>3. NoLostWakeup'
    BY <1>7, <2>1 DEF Joined, NoLostWakeup, Places, AllDone, Awake
  <2> QED
    BY <1>1, <1>7, <2>2, <2>3, OwnerMoves DEF Joined, Types
<1> QED
  BY <1>3, <1>4, <1>5, <1>6, <1>7

(* A task joins the queue, and its signal is still to come. *)
LEMMA EnqueueInv == ASSUME Inv, NEW t \in Tasks, Enqueue(t) PROVE Inv'
<1> USE WorkersAssumption DEF Inv
<1>1. /\ pc[Main] = "idle" /\ pc'[Main] = "signal" /\ \A w \in Workers : pc'[w] = pc[w]
      /\ pc' \in [Threads -> OwnerAt \cup WorkerAt]
  BY DEF Enqueue, Goto, Types, Threads, OwnerAt
<1>2. /\ queue' = Append(queue, t) /\ queue' \in Seq(Tasks)
      /\ submitted' = Append(submitted, t) /\ submitted' \in Seq(Tasks)
      /\ UNCHANGED <<tasksRunning, stop, task, waiting, started, finished>>
      /\ queue \in Seq(Tasks) /\ submitted \in Seq(Tasks) /\ started \in Seq(Tasks)
  BY DEF Enqueue, Types
<1>3. Types'
  BY <1>1, <1>2 DEF Types, OwnerAt
<1>4. Busy' = Busy
  BY <1>1 DEF Busy
<1>5. Counted'
  BY <1>2, <1>4 DEF Counted
<1>6. Places'
  BY <1>1, <1>2 DEF Places
<1>7. NoLostWakeup'
  BY <1>1, <1>2 DEF NoLostWakeup, Places, AllDone, Awake
<1>8. StartsInOrder'
  <2>1. started \o Append(queue, t) = Append(started \o queue, t)
    BY <1>2
  <2> QED
    BY <1>2, <2>1 DEF StartsInOrder
<1>9. Outstanding'
  <2>1. Range(queue') = Range(queue) \cup {t} /\ Range(submitted') = Range(submitted) \cup {t}
    BY <1>2, QueueContents
  <2>2. {task'[w] : w \in {v \in Workers : pc'[v] = "run"}}
          = {task[w] : w \in {v \in Workers : pc[v] = "run"}}
    BY <1>1, <1>2
  <2> QED
    BY <1>2, <2>1, <2>2 DEF Outstanding
<1> QED
  BY <1>3, <1>5, <1>6, <1>7, <1>8, <1>9

(* A step that changes nothing but who sleeps. *)
LEMMA SleepersChange ==
  ASSUME Inv, waiting' \in SUBSET Threads,
         UNCHANGED <<queue, tasksRunning, stop, pc, task, submitted, started, finished>>,
         Places', NoLostWakeup'
  PROVE  Inv'
<1> USE DEF Inv
<1>1. Types'
  BY DEF Types
<1>2. Busy' = Busy /\ Counted'
  BY DEF Busy, Counted
<1>3. StartsInOrder' /\ Outstanding'
  BY DEF StartsInOrder, Outstanding
<1> QED
  BY <1>1, <1>2, <1>3

(* The owner and the workers go to sleep only when nothing is there for them; *)
(* waking for no reason does no harm.                                         *)
LEMMA SleepInv ==
  ASSUME Inv
  PROVE  /\ WaitAllSleeps => Inv'
         /\ \A w \in Workers : Sleep(w) => Inv'
         /\ \A p \in Threads : SpuriousWakeup(p) => Inv'
<1> USE WorkersAssumption DEF Inv
<1>1. ASSUME WaitAllSleeps PROVE Inv'
  <2>1. Places'
    BY <1>1 DEF WaitAllSleeps, Places, Threads
  <2>2. NoLostWakeup'
    BY <1>1 DEF WaitAllSleeps, NoLostWakeup, Places, AllDone, Awake
  <2> QED
    BY <1>1, <2>1, <2>2, SleepersChange DEF WaitAllSleeps, Types, Threads
<1>2. ASSUME NEW w \in Workers, Sleep(w) PROVE Inv'
  <2>1. Places'
    BY <1>2 DEF Sleep, Places, Threads
  <2>2. NoLostWakeup'
    BY <1>2 DEF Sleep, NoLostWakeup, Places, AllDone, Awake
  <2> QED
    BY <1>2, <2>1, <2>2, SleepersChange DEF Sleep, Types, Threads
<1>3. ASSUME NEW p \in Threads, SpuriousWakeup(p) PROVE Inv'
  <2>1. waiting' = waiting \ {p} /\ queue' = queue /\ tasksRunning' = tasksRunning
    BY <1>3 DEF SpuriousWakeup
  <2>2. Places'
    BY <1>3, <2>1 DEF SpuriousWakeup, Places
  <2>3. NoLostWakeup'
    BY <1>3, <2>1 DEF SpuriousWakeup, NoLostWakeup, Places, AllDone, Awake
  <2> QED
    BY <1>3, <2>1, <2>2, <2>3, SleepersChange DEF SpuriousWakeup, Types
<1> QED
  BY <1>1, <1>2, <1>3

(* Where a worker's step leaves the threads. *)
LEMMA WorkerMoves ==
  ASSUME Inv, NEW w \in Workers, NEW from \in WorkerAt, NEW to \in WorkerAt,
         Goto(w, from, to)
  PROVE  /\ pc' \in [Threads -> OwnerAt \cup WorkerAt]
         /\ pc[w] = from /\ pc'[w] = to
         /\ pc'[Main] = pc[Main]
         /\ \A v \in Workers : v # w => pc'[v] = pc[v]
  BY WorkersAssumption DEF Inv, Types, Goto, Threads

(* A worker takes the first task; it is awake, so whoever is left in the      *)
(* queue has a worker that is not asleep.                                     *)
LEMMA TakeInv == ASSUME Inv, NEW w \in Workers, Take(w) PROVE Inv'
<1> USE WorkersAssumption DEF Inv
<1>1. WorkerAt = {"loop", "run", "finish", "exited"}
  BY DEF WorkerAt
<1>2. /\ pc' \in [Threads -> OwnerAt \cup WorkerAt]
      /\ pc[w] = "loop" /\ pc'[w] = "run" /\ pc'[Main] = pc[Main]
      /\ \A v \in Workers : v # w => pc'[v] = pc[v]
  BY <1>1, WorkerMoves DEF Take
<1>3. /\ w \notin waiting /\ queue # << >>
      /\ task' = [task EXCEPT ![w] = Head(queue)] /\ started' = Append(started, Head(queue))
      /\ queue' = Tail(queue) /\ tasksRunning' = tasksRunning + 1
      /\ UNCHANGED <<stop, waiting, submitted, finished>>
      /\ queue \in Seq(Tasks) /\ started \in Seq(Tasks) /\ Head(queue) \in Tasks
      /\ Tail(queue) \in Seq(Tasks) /\ task \in [Workers -> Tasks \cup {NoTask}]
  BY DEF Take, Awake, Types
<1>4. Types'
  <2>1. \A v \in Workers : pc'[v] \in WorkerAt /\ (pc'[v] = "run" => task'[v] \in Tasks)
    BY <1>1, <1>2, <1>3 DEF Types
  <2>2. /\ task' \in [Workers -> Tasks \cup {NoTask}] /\ started' \in Seq(Tasks)
        /\ queue' \in Seq(Tasks) /\ tasksRunning' \in Nat
    BY <1>3 DEF Types
  <2> QED
    BY <1>2, <1>3, <2>1, <2>2 DEF Types
<1>5. Counted'
  <2>1. Busy' = Busy \cup {w} /\ w \notin Busy
    BY <1>2 DEF Busy
  <2>2. IsFiniteSet(Busy)
    BY FS_Subset DEF Busy
  <2> QED
    BY <1>3, <2>1, <2>2, FS_AddElement DEF Counted
<1>6. Places'
  BY <1>2, <1>3 DEF Places
<1>7. NoLostWakeup'
  <2>1. w \notin waiting' /\ pc'[w] # "exited"
    BY <1>2, <1>3
  <2>2. tasksRunning' # 0
    BY <1>3 DEF Types
  <2> QED
    BY <1>2, <1>3, <2>1, <2>2 DEF NoLostWakeup, AllDone, Awake
<1>8. StartsInOrder'
  BY <1>3, MoveHead DEF StartsInOrder
<1>9. Outstanding'
  <2>1. Range(queue) = {Head(queue)} \cup Range(queue')
    BY <1>3, QueueContents
  <2>2. {task'[v] : v \in {u \in Workers : pc'[u] = "run"}}
          = {Head(queue)} \cup {task[v] : v \in {u \in Workers : pc[u] = "run"}}
    <3>1. {u \in Workers : pc'[u] = "run"} = {w} \cup {u \in Workers : pc[u] = "run"}
      BY <1>2
    <3>2. task'[w] = Head(queue) /\ \A v \in Workers : pc[v] = "run" => task'[v] = task[v]
      BY <1>2, <1>3
    <3> QED
      BY <3>1, <3>2
  <2> QED
    BY <1>3, <2>1, <2>2 DEF Outstanding
<1> QED
  BY <1>4, <1>5, <1>6, <1>7, <1>8, <1>9

(* A worker leaves only an empty, stopped pool. *)
LEMMA ExitInv == ASSUME Inv, NEW w \in Workers, Exit(w) PROVE Inv'
<1> USE WorkersAssumption DEF Inv
<1>1. WorkerAt = {"loop", "run", "finish", "exited"}
  BY DEF WorkerAt
<1>2. /\ pc' \in [Threads -> OwnerAt \cup WorkerAt]
      /\ pc[w] = "loop" /\ pc'[w] = "exited" /\ pc'[Main] = pc[Main]
      /\ \A v \in Workers : v # w => pc'[v] = pc[v]
  BY <1>1, WorkerMoves DEF Exit
<1>3. /\ w \notin waiting /\ queue = << >> /\ stop
      /\ UNCHANGED <<queue, tasksRunning, stop, task, waiting, submitted, started, finished>>
  BY DEF Exit, Awake
<1>4. Types'
  BY <1>1, <1>2, <1>3 DEF Types
<1>5. Busy' = Busy
  BY <1>2 DEF Busy
<1>6. Counted'
  BY <1>3, <1>5 DEF Counted
<1>7. Places'
  BY <1>2, <1>3 DEF Places
<1>8. NoLostWakeup'
  BY <1>2, <1>3 DEF NoLostWakeup, AllDone, Awake
<1>9. StartsInOrder'
  BY <1>3 DEF StartsInOrder
<1>10. Outstanding'
  <2>1. {v \in Workers : pc'[v] = "run"} = {v \in Workers : pc[v] = "run"}
    BY <1>2
  <2> QED
    BY <1>3, <2>1 DEF Outstanding
<1> QED
  BY <1>4, <1>6, <1>7, <1>8, <1>9, <1>10

(* A task is carried out. *)
LEMMA RunInv == ASSUME Inv, NEW w \in Workers, Run(w) PROVE Inv'
<1> USE WorkersAssumption DEF Inv
<1>1. WorkerAt = {"loop", "run", "finish", "exited"}
  BY DEF WorkerAt
<1>2. /\ pc' \in [Threads -> OwnerAt \cup WorkerAt]
      /\ pc[w] = "run" /\ pc'[w] = "finish" /\ pc'[Main] = pc[Main]
      /\ \A v \in Workers : v # w => pc'[v] = pc[v]
  BY <1>1, WorkerMoves DEF Run
<1>3. /\ finished' = finished \cup {task[w]} /\ task[w] \in Tasks
      /\ UNCHANGED <<queue, tasksRunning, stop, task, waiting, submitted, started>>
  BY <1>2 DEF Run, Types
<1>4. Types'
  BY <1>1, <1>2, <1>3 DEF Types
<1>5. Busy' = Busy
  BY <1>2 DEF Busy
<1>6. Counted'
  BY <1>3, <1>5 DEF Counted
<1>7. Places'
  BY <1>2, <1>3 DEF Places
<1>8. NoLostWakeup'
  BY <1>2, <1>3 DEF NoLostWakeup, AllDone, Awake
<1>9. StartsInOrder'
  BY <1>3 DEF StartsInOrder
<1>10. Outstanding'
  <2>1. {task'[v] : v \in {u \in Workers : pc'[u] = "run"}} \cup {task[w]}
          = {task[v] : v \in {u \in Workers : pc[u] = "run"}}
    <3>1. {u \in Workers : pc[u] = "run"} = {u \in Workers : pc'[u] = "run"} \cup {w}
      BY <1>2
    <3> QED
      BY <1>3, <3>1
  <2> QED
    BY <1>3, <2>1 DEF Outstanding
<1> QED
  BY <1>4, <1>6, <1>7, <1>8, <1>9, <1>10

(* A worker reports its task done and wakes everybody. *)
LEMMA FinishInv == ASSUME Inv, NEW w \in Workers, Finish(w) PROVE Inv'
<1> USE WorkersAssumption DEF Inv
<1>1. WorkerAt = {"loop", "run", "finish", "exited"}
  BY DEF WorkerAt
<1>2. /\ pc' \in [Threads -> OwnerAt \cup WorkerAt]
      /\ pc[w] = "finish" /\ pc'[w] = "loop" /\ pc'[Main] = pc[Main]
      /\ \A v \in Workers : v # w => pc'[v] = pc[v]
  BY <1>1, WorkerMoves DEF Finish
<1>3. /\ task' = [task EXCEPT ![w] = NoTask] /\ tasksRunning' = tasksRunning - 1
      /\ waiting' = {}
      /\ UNCHANGED <<queue, stop, submitted, started, finished>>
      /\ task \in [Workers -> Tasks \cup {NoTask}]
  BY DEF Finish, NotifyAll, Types
<1>4. /\ Busy' = Busy \ {w} /\ w \in Busy
      /\ IsFiniteSet(Busy) /\ Cardinality(Busy \ {w}) = Cardinality(Busy) - 1
      /\ IsFiniteSet(Busy \ {w}) /\ Cardinality(Busy \ {w}) \in Nat
  <2>1. Busy' = Busy \ {w} /\ w \in Busy
    BY <1>2 DEF Busy
  <2>2. IsFiniteSet(Busy)
    BY FS_Subset DEF Busy
  <2> QED
    BY <2>1, <2>2, FS_RemoveElement, FS_CardinalityType
<1>5. Counted' /\ tasksRunning' \in Nat
  BY <1>3, <1>4 DEF Counted
<1>6. Types'
  <2>1. \A v \in Workers : pc'[v] \in WorkerAt /\ (pc'[v] = "run" => task'[v] \in Tasks)
    BY <1>1, <1>2, <1>3 DEF Types
  <2>2. task' \in [Workers -> Tasks \cup {NoTask}] /\ waiting' \in SUBSET Threads
    BY <1>3
  <2> QED
    BY <1>2, <1>3, <1>5, <2>1, <2>2 DEF Types
<1>7. Places'
  BY <1>2, <1>3 DEF Places
<1>8. NoLostWakeup'
  BY <1>2, <1>3 DEF NoLostWakeup, Awake
<1>9. StartsInOrder'
  BY <1>3 DEF StartsInOrder
<1>10. Outstanding'
  <2>1. {v \in Workers : pc'[v] = "run"} = {v \in Workers : pc[v] = "run"}
    BY <1>2
  <2>2. \A v \in Workers : pc[v] = "run" => task'[v] = task[v]
    BY <1>2, <1>3
  <2>3. {task'[v] : v \in {u \in Workers : pc'[u] = "run"}}
          = {task[v] : v \in {u \in Workers : pc[u] = "run"}}
    BY <2>1, <2>2
  <2> QED
    BY <1>3, <2>3 DEF Outstanding
<1> QED
  BY <1>5, <1>6, <1>7, <1>8, <1>9, <1>10

(* The invariant is inductive. *)
LEMMA NextInv == Inv /\ [Next]_vars => Inv'
<1> SUFFICES ASSUME Inv, [Next]_vars PROVE Inv'
  OBVIOUS
<1>1. ASSUME Submits PROVE Inv'
  BY <1>1, EnqueueInv DEF Submits
<1>2. ASSUME CallWaitAll \/ Destroy \/ OwnerStep PROVE Inv'
  BY <1>2, OwnerInv, SignalInv, SleepInv DEF OwnerStep
<1>3. ASSUME NEW w \in Workers, WorkerStep(w) PROVE Inv'
  BY <1>3, TakeInv, SleepInv, ExitInv, RunInv, FinishInv DEF WorkerStep
<1>4. ASSUME NEW p \in Threads, SpuriousWakeup(p) PROVE Inv'
  BY <1>4, SleepInv
<1>5. ASSUME UNCHANGED vars PROVE Inv'
  BY <1>5 DEF vars, Inv, Types, Counted, Busy, Places, NoLostWakeup, AllDone, Awake,
              StartsInOrder, Outstanding
<1> QED
  BY <1>1, <1>2, <1>3, <1>4, <1>5 DEF Next, Ended

(* The invariant holds throughout. *)
THEOREM Invariance == Spec => []Inv
<1> QED
  BY InitInv, NextInv, PTL DEF Spec

(* Every variable keeps its type; no more tasks run than there are workers.   *)
THEOREM TypeCorrect == Spec => []TypeOK
<1>1. ASSUME Inv PROVE TypeOK
  <2>1. /\ IsFiniteSet(Busy) /\ Cardinality(Busy) \in Nat /\ Cardinality(Workers) \in Nat
        /\ Cardinality(Busy) <= Cardinality(Workers)
    BY WorkersAssumption, FS_Subset, FS_CardinalityType DEF Busy
  <2>2. tasksRunning \in 0 .. Cardinality(Workers)
    BY <1>1, <2>1 DEF Inv, Counted
  <2> QED
    BY <1>1, <2>2 DEF Inv, Types, TypeOK
<1> QED
  BY <1>1, Invariance, PTL

(* Sharing one condition variable between workers and waitAll loses no wakeup,*)
(* for any number of workers and tasks.                                       *)
THEOREM WakeupsArrive == Spec => []NoLostWakeup
<1>1. Inv => NoLostWakeup
  BY DEF Inv
<1> QED
  BY <1>1, Invariance, PTL

(* Tasks start in the order of their submission, each once. *)
THEOREM OrderKept == Spec => []StartsInOrder
<1>1. Inv => StartsInOrder
  BY DEF Inv
<1> QED
  BY <1>1, Invariance, PTL

-----------------------------------------------------------------------------
(* The pool keeps its promise *)

(* When nothing is queued and nothing runs, everything handed in is done.     *)
LEMMA DoneMeansFinished == Inv /\ AllDone => finished = Range(submitted)
<1> SUFFICES ASSUME Inv, AllDone PROVE finished = Range(submitted)
  OBVIOUS
<1>1. queue = << >> /\ Cardinality(Busy) = 0
  BY DEF Inv, AllDone, Counted
<1>2. IsFiniteSet(Busy)
  BY WorkersAssumption, FS_Subset DEF Busy
<1>3. Busy = {}
  BY <1>1, <1>2, FS_EmptySet
<1>4. Range(queue) = {}
  BY <1>1 DEF Range
<1>5. {v \in Workers : pc[v] = "run"} = {}
  BY <1>3 DEF Busy
<1> QED
  BY <1>4, <1>5 DEF Inv, Outstanding

(* A new pool is one of which nothing was asked. *)
LEMMA PromiseInit == Init => Promise!Init
  BY WorkersAssumption DEF Init, Promise!Init, Owner, Threads, Range

(* Each step is a step of TaskPool or a stutter. *)
LEMMA PromiseNext == Inv /\ Inv' /\ [Next]_vars => [Promise!Next]_(Promise!vars)
<1> SUFFICES ASSUME Inv, Inv', [Next]_vars PROVE [Promise!Next]_(Promise!vars)
  OBVIOUS
<1> USE DEF Promise!vars
<1>1. pc \in [Threads -> OwnerAt \cup WorkerAt] /\ Main \in Threads
  BY DEF Inv, Types, Threads
<1>2. ASSUME NEW t \in Tasks, Enqueue(t) PROVE Promise!Submit(t)
  <2>1. pc[Main] = "idle" /\ pc'[Main] = "signal"
    BY <1>1, <1>2 DEF Enqueue, Goto
  <2>2. Range(submitted') = Range(submitted) \cup {t}
    BY <1>2, QueueContents DEF Enqueue, Inv, Types
  <2> QED
    BY <1>2, <2>1, <2>2 DEF Enqueue, Promise!Submit, Owner
<1>3. ASSUME Signal PROVE UNCHANGED Promise!vars
  <2>1. pc[Main] = "signal" /\ pc'[Main] = "idle"
    BY <1>1, <1>3 DEF Signal, Goto
  <2> QED
    BY <1>3, <2>1 DEF Signal, Owner
<1>4. ASSUME CallWaitAll PROVE Promise!Call("waitAll")
  <2>1. pc[Main] = "idle" /\ pc'[Main] = "waitAll"
    BY <1>1, <1>4 DEF CallWaitAll, Goto
  <2> QED
    BY <1>4, <2>1 DEF CallWaitAll, Owner, Promise!Call
<1>5. ASSUME WaitAllReturns PROVE Promise!Return("waitAll", "free")
  <2>1. pc[Main] = "waitAll" /\ pc'[Main] = "idle"
    BY <1>1, <1>5 DEF WaitAllReturns, Goto
  <2>2. finished = Range(submitted)
    BY <1>5, DoneMeansFinished DEF WaitAllReturns
  <2> QED
    BY <1>5, <2>1, <2>2 DEF WaitAllReturns, Owner, Promise!Return
<1>6. ASSUME Destroy PROVE Promise!Call("destroy")
  <2>1. pc[Main] = "idle" /\ pc'[Main] = "broadcast"
    BY <1>1, <1>6 DEF Destroy, Goto
  <2> QED
    BY <1>6, <2>1 DEF Destroy, Owner, Promise!Call
<1>7. ASSUME DestroyWakes PROVE UNCHANGED Promise!vars
  <2>1. pc[Main] = "broadcast" /\ pc'[Main] = "join"
    BY <1>1, <1>7 DEF DestroyWakes, Goto
  <2> QED
    BY <1>7, <2>1 DEF DestroyWakes, Owner
<1>8. ASSUME Joined PROVE Promise!Return("destroy", "destroyed")
  <2>1. pc[Main] = "join" /\ pc'[Main] = "destroyed" /\ \A w \in Workers : pc[w] = "exited"
    BY <1>1, <1>8 DEF Joined, Goto
  <2>2. queue = << >>
    BY <2>1, WorkersAssumption DEF Inv, Places
  <2>3. Busy = {}
    BY <2>1 DEF Busy
  <2>4. finished = Range(submitted)
    BY <2>2, <2>3, FS_EmptySet, DoneMeansFinished DEF Inv, Counted, AllDone
  <2> QED
    BY <1>8, <2>1, <2>4 DEF Joined, Owner, Promise!Return
<1>9. ASSUME NEW w \in Workers, Take(w) \/ Exit(w) \/ Finish(w) PROVE UNCHANGED Promise!vars
  <2>1. pc'[Main] = pc[Main]
    BY <1>1, <1>9, WorkersAssumption DEF Take, Exit, Finish, Goto
  <2> QED
    BY <1>9, <2>1 DEF Take, Exit, Finish, Owner
<1>10. ASSUME NEW w \in Workers, Run(w)
       PROVE  UNCHANGED Promise!vars \/ \E t \in Tasks : Promise!Finish(t)
  <2>1. pc'[Main] = pc[Main] /\ pc[w] = "run"
    BY <1>1, <1>10, WorkersAssumption DEF Run, Goto
  <2>2. task[w] \in Tasks /\ task[w] \in Range(submitted)
    BY <2>1 DEF Inv, Types, Outstanding
  <2>3. /\ finished' = finished \cup {task[w]} /\ submitted' = submitted /\ Owner' = Owner
    BY <1>10, <2>1 DEF Run, Owner
  <2>4. CASE task[w] \in finished
    BY <2>3, <2>4
  <2>5. CASE task[w] \notin finished
    BY <2>2, <2>3, <2>5 DEF Promise!Finish
  <2> QED
    BY <2>4, <2>5
<1>11. ASSUME UNCHANGED <<submitted, finished, pc>> PROVE UNCHANGED Promise!vars
  BY <1>11 DEF Owner
<1>12. ASSUME WaitAllSleeps \/ UNCHANGED vars PROVE UNCHANGED Promise!vars
  BY <1>11, <1>12 DEF WaitAllSleeps, vars
<1>13. ASSUME NEW w \in Workers, Sleep(w) PROVE UNCHANGED Promise!vars
  BY <1>11, <1>13 DEF Sleep
<1>14. ASSUME NEW p \in Threads, SpuriousWakeup(p) PROVE UNCHANGED Promise!vars
  BY <1>11, <1>14 DEF SpuriousWakeup
<1> QED
  BY <1>2, <1>3, <1>4, <1>5, <1>6, <1>7, <1>8, <1>9, <1>10, <1>12, <1>13, <1>14
  DEF Next, Ended, Submits, OwnerStep, WorkerStep, Promise!Next

(* The pool implements TaskPool: waitAll and the destructor return only when  *)
(* every task handed in has been carried out.                                 *)
THEOREM PromiseKept == Spec => KeepsPromise
<1> QED
  BY PromiseInit, PromiseNext, Invariance, PTL DEF Spec, KeepsPromise, Promise!Spec
================================================================================
