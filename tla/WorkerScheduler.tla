-------------------------- MODULE WorkerScheduler --------------------------
(***************************************************************************)
(* WorkerScheduler: the pool of threads that VisionMsgDispatcher::OnReceive*)
(* hands its handlers to once a scheduler is installed.  Its owner calls   *)
(* Start, Stop and the destructor; anybody may call Start again or Enqueue *)
(* (Schedule is Enqueue: its delay is ignored).                            *)
(*                                                                         *)
(* A step is one critical section of Impl::m_mutex, the run of a task, or  *)
(* the joins at the end of Stop, which are made without the mutex.  So is  *)
(* their walk over the vector of threads: if it is empty a Start may fill  *)
(* it at the same time.  The walk may see the new threads or pass them by; *)
(* then clearing the vector destroys them unjoined, and that is the end of *)
(* the process.                                                            *)
(***************************************************************************)
EXTENDS Naturals, Sequences

CONSTANTS
  Workers,    \* the m_threadCount threads
  MaxTasks    \* bound: how many tasks are enqueued

ASSUME MaxTasksAssumption == MaxTasks \in Nat

VARIABLES
  running,    \* m_running
  threads,    \* m_threads
  queue,      \* m_queue
  worker,     \* where each thread is
  task,       \* the task each thread has taken, 0 for none
  owner,      \* the owner is idle, in Stop or the destructor, with threads to join or
              \* with none, or has destroyed the scheduler or ended the process
  destroying, \* it is the destructor
  posted,     \* how many tasks have been enqueued
  done,       \* history: the tasks that have been run
  promised,   \* history: the tasks that were queued or in hand at the last Stop
  overlapped  \* history: a Start came during a Stop

tasks == <<queue, posted, done>>
pool == <<threads, worker, task>>
control == <<running, owner, destroying, promised, overlapped>>
vars == <<tasks, pool, control>>

Init ==
  /\ running = FALSE
  /\ threads = {}
  /\ queue = <<>> /\ posted = 0 /\ done = {}
  /\ worker = [w \in Workers |-> "none"]
  /\ task = [w \in Workers |-> 0]
  /\ owner = "idle" /\ destroying = FALSE
  /\ promised = {} /\ overlapped = FALSE

Alive == owner \notin {"destroyed", "terminated"}

InStop == owner \in {"joining", "clearing"}

Waiting == {w \in Workers : worker[w] = "waiting"}

-----------------------------------------------------------------------------
(* The callers. *)

\* Threads are created only if there are none: not while Stop still joins them.
\* A Start that finds running set changes nothing.
Start ==
  /\ Alive /\ ~running
  /\ running' = TRUE
  /\ IF threads = {}
     THEN threads' = Workers /\ worker' = [w \in Workers |-> "ready"]
     ELSE UNCHANGED <<threads, worker>>
  /\ overlapped' = (overlapped \/ InStop)
  /\ UNCHANGED <<tasks, task, owner, destroying, promised>>

\* Mutant of Stop: notify_one.
StopNotifyOne ==
  /\ owner = "idle"
  /\ running' = FALSE
  /\ IF Waiting = {} THEN worker' = worker
     ELSE \E w \in Waiting : worker' = [worker EXCEPT ![w] = "ready"]
  /\ owner' = IF threads = {} THEN "clearing" ELSE "joining"
  /\ destroying' \in BOOLEAN
  /\ promised' = IF threads = {} THEN {} ELSE 1..posted
  /\ UNCHANGED <<tasks, threads, task, overlapped>>

\* Stop and the destructor, up to the joins.
Stop ==
  /\ owner = "idle"
  /\ running' = FALSE
  /\ worker' = [w \in Workers |-> IF w \in Waiting THEN "ready" ELSE worker[w]]
  /\ owner' = IF threads = {} THEN "clearing" ELSE "joining"
  /\ destroying' \in BOOLEAN
  /\ promised' = IF threads = {} THEN {} ELSE 1..posted
  /\ UNCHANGED <<tasks, threads, task, overlapped>>

\* Mutants of Joined: the joined threads stay; the threads are detached.
KeepThreads ==
  /\ InStop
  /\ \A w \in threads : worker[w] = "exited"
  /\ worker' = [w \in Workers |-> "none"]
  /\ owner' = IF destroying THEN "destroyed" ELSE "idle"
  /\ UNCHANGED <<tasks, threads, task, running, destroying, promised, overlapped>>

Detach ==
  /\ InStop
  /\ threads' = {}
  /\ worker' = [w \in Workers |-> "none"]
  /\ owner' = IF destroying THEN "destroyed" ELSE "idle"
  /\ UNCHANGED <<tasks, task, running, destroying, promised, overlapped>>

\* The last join returns and the threads are cleared.
Joined ==
  /\ InStop
  /\ \A w \in threads : worker[w] = "exited"
  /\ threads' = {}
  /\ worker' = [w \in Workers |-> "none"]
  /\ owner' = IF destroying THEN "destroyed" ELSE "idle"
  /\ UNCHANGED <<tasks, task, running, destroying, promised, overlapped>>

\* The walk over an empty vector has ended when an overlapping Start fills it.
Terminate ==
  /\ owner = "clearing" /\ threads # {}
  /\ owner' = "terminated"
  /\ UNCHANGED <<tasks, pool, running, destroying, promised, overlapped>>

\* Mutant of Enqueue: no notify_one.
EnqueueQuietly ==
  /\ Alive /\ posted < MaxTasks
  /\ posted' = posted + 1
  /\ queue' = Append(queue, posted + 1)
  /\ UNCHANGED <<done, pool, control>>

\* In any state of the scheduler: a task of a stopped one waits for a Start.
Enqueue ==
  /\ Alive /\ posted < MaxTasks
  /\ posted' = posted + 1
  /\ queue' = Append(queue, posted + 1)
  /\ IF Waiting = {} THEN worker' = worker
     ELSE \E w \in Waiting : worker' = [worker EXCEPT ![w] = "ready"]
  /\ UNCHANGED <<done, threads, task, control>>

-----------------------------------------------------------------------------
(* RunWorker. *)

Wait(w) ==
  /\ worker[w] = "ready" /\ running /\ queue = <<>>
  /\ worker' = [worker EXCEPT ![w] = "waiting"]
  /\ UNCHANGED <<tasks, threads, task, control>>

\* Mutant of Exit: the queue is not drained.
ExitAtOnce(w) ==
  /\ worker[w] = "ready" /\ ~running
  /\ worker' = [worker EXCEPT ![w] = "exited"]
  /\ UNCHANGED <<tasks, threads, task, control>>

Exit(w) ==
  /\ worker[w] = "ready" /\ ~running /\ queue = <<>>
  /\ worker' = [worker EXCEPT ![w] = "exited"]
  /\ UNCHANGED <<tasks, threads, task, control>>

Take(w) ==
  /\ worker[w] = "ready" /\ queue # <<>>
  /\ worker' = [worker EXCEPT ![w] = "task"]
  /\ task' = [task EXCEPT ![w] = Head(queue)]
  /\ queue' = Tail(queue)
  /\ UNCHANGED <<posted, done, threads, control>>

\* The task returns or throws, without the mutex.
Run(w) ==
  /\ worker[w] = "task"
  /\ worker' = [worker EXCEPT ![w] = "ready"]
  /\ done' = done \cup {task[w]}
  /\ task' = [task EXCEPT ![w] = 0]
  /\ UNCHANGED <<queue, posted, threads, control>>

Step(w) == Alive /\ (Wait(w) \/ Exit(w) \/ Take(w) \/ Run(w))

Next ==
  \/ Start \/ Stop \/ Joined \/ Terminate \/ Enqueue
  \/ \E w \in Workers : Step(w)

Spec == Init /\ [][Next]_vars

\* Threads run, and tasks end; a wake-up comes only from a notify.
FairSpec == Spec /\ WF_vars(Joined) /\ \A w \in Workers : WF_vars(Step(w))

-----------------------------------------------------------------------------
(* Properties. *)

\* The type invariant of the scheduler, its threads and its tasks.
TypeOK ==
  /\ running \in BOOLEAN
  /\ threads \in {{}, Workers}
  /\ posted \in 0..MaxTasks
  /\ queue \in Seq(1..posted)
  /\ worker \in [Workers -> {"none", "ready", "waiting", "task", "exited"}]
  /\ \A w \in threads : worker[w] # "none"
  /\ task \in [Workers -> 0..posted]
  /\ owner \in {"idle", "joining", "clearing", "destroyed", "terminated"}
  /\ destroying \in BOOLEAN
  /\ done \subseteq 1..posted
  /\ promised \subseteq 1..posted
  /\ overlapped \in BOOLEAN

\* When Stop or the destructor has returned, every task that was enqueued before
\* it was called has been run, and no task is in the hands of a thread, so that
\* what the tasks refer to may be destroyed.
StopDrains ==
  ~InStop /\ threads = {} =>
    /\ promised \subseteq done
    /\ \A w \in Workers : task[w] = 0

\* No task is lost: one that is enqueued is run if the threads are up then or
\* come up later; and Stop and the destructor return.  But not once a Start has
\* overlapped a Stop: it takes the request to stop back from the threads that
\* are being joined, or sets running for threads that are about to be gone, and
\* then no Start creates others; or it creates threads that Stop destroys.
WorkEnds ==
  /\ \A t \in 1..MaxTasks :
       t <= posted /\ running /\ threads # {} ~> t \in done \/ overlapped
  /\ InStop ~> ~InStop \/ overlapped
=============================================================================
