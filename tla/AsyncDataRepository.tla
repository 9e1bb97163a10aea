------------------------ MODULE AsyncDataRepository ------------------------
(***************************************************************************)
(* The write-behind wrapper of IDataRepository: three kinds of save are    *)
(* queued under m_mutex and written by a worker thread, the rest of the    *)
(* interface goes straight to the inner repository and keeps no state      *)
(* here.  The worker holds m_mutex while it tests its wait predicate and   *)
(* until the wait has put it to sleep; the destructor sets m_stopRequested *)
(* and notifies WITHOUT that mutex, so both can fall between the test and  *)
(* the sleep.                                                              *)
(***************************************************************************)
EXTENDS Naturals, Sequences

CONSTANTS
  MaxItems,      \* bound: how many saves the callers make
  MaxRetries     \* m_maxRetries: attempts at one write

ASSUME MaxItemsAssumption == MaxItems \in Nat
ASSUME MaxRetriesAssumption == MaxRetries \in Nat \ {0}

VARIABLES
  hasInner,      \* m_inner is not null
  queue,         \* m_pointQueue, m_resultQueue, m_statusQueue
  local,         \* the worker's localPoints, localResults, localStatuses
  attempt,       \* failed attempts at the item being written
  pc,            \* the worker thread
  signalled,     \* m_cv was notified while the worker slept
  stopRequested, \* m_stopRequested
  dtor,          \* the thread that runs the destructor
  accepted,      \* history: the kinds of the accepted saves, in order
  written,       \* history: the items the inner repository stored, in order
  dropped        \* history: items the worker gave up

worker == <<local, attempt, pc, signalled>>
history == <<accepted, written, dropped>>
vars == <<hasInner, queue, worker, stopRequested, dtor, history>>

Kind == {"point", "result", "status"}

Items == 1..Len(accepted)

Stored == {written[n] : n \in DOMAIN written}

Handled == Stored \cup dropped

NoItems == [k \in Kind |-> <<>>]

Init ==
  /\ hasInner \in BOOLEAN
  /\ queue = NoItems
  /\ local = NoItems
  /\ attempt = 0
  /\ pc = "test"
  /\ signalled = FALSE
  /\ stopRequested = FALSE
  /\ dtor = "alive"
  /\ accepted = <<>>
  /\ written = <<>>
  /\ dropped = {}

\* m_mutex is held across steps only by a worker between test and sleep.
MutexFree == pc # "blocking"

-----------------------------------------------------------------------------
(* Callers. *)

\* Mutant of Save: only a save of a point notifies.
NotifyForPoints(k) ==
  /\ dtor = "alive"
  /\ Len(accepted) < MaxItems
  /\ MutexFree
  /\ accepted' = Append(accepted, k)
  /\ queue' = [queue EXCEPT ![k] = Append(@, Len(accepted) + 1)]
  /\ signalled' = (signalled \/ (pc = "asleep" /\ k = "point"))
  /\ UNCHANGED <<hasInner, local, attempt, pc, stopRequested, dtor, written,
                 dropped>>

\* SaveZFocusPoint, SaveZFocusResult and UpdateSequenceRunStatus: push and
\* notify in one critical section, and answer StorageSuccess at once.
Save(k) ==
  /\ dtor = "alive"
  /\ Len(accepted) < MaxItems
  /\ MutexFree
  /\ accepted' = Append(accepted, k)
  /\ queue' = [queue EXCEPT ![k] = Append(@, Len(accepted) + 1)]
  /\ signalled' = (signalled \/ pc = "asleep")
  /\ UNCHANGED <<hasInner, local, attempt, pc, stopRequested, dtor, written,
                 dropped>>

\* ~AsyncDataRepository: the flag, the notification and the join are three
\* steps, none of them under m_mutex.
RequestStop ==
  /\ dtor = "alive"
  /\ stopRequested' = TRUE
  /\ dtor' = "notify"
  /\ UNCHANGED <<hasInner, queue, worker, history>>

\* A worker that has tested the predicate and is about to sleep misses it.
NotifyWorker ==
  /\ dtor = "notify"
  /\ signalled' = (signalled \/ pc = "asleep")
  /\ dtor' = "join"
  /\ UNCHANGED <<hasInner, queue, local, attempt, pc, stopRequested, accepted,
                 written, dropped>>

JoinWorker ==
  /\ dtor = "join"
  /\ pc = "exited"
  /\ dtor' = "destroyed"
  /\ UNCHANGED <<hasInner, queue, worker, stopRequested, history>>

-----------------------------------------------------------------------------
(* The worker thread, WorkerLoop. *)

\* The wait predicate: not yet time to sleep.
WorkOrStop == stopRequested \/ queue # NoItems

\* Mutant of TakeAll: the queues are copied, not swapped.
TakeCopy ==
  /\ pc = "test"
  /\ queue # NoItems
  /\ local' = queue
  /\ pc' = "flush"
  /\ UNCHANGED <<hasInner, queue, attempt, signalled, stopRequested, dtor,
                 history>>

\* All three queues are swapped out in one critical section.
TakeAll ==
  /\ pc = "test"
  /\ queue # NoItems
  /\ local' = queue
  /\ queue' = NoItems
  /\ pc' = "flush"
  /\ UNCHANGED <<hasInner, attempt, signalled, stopRequested, dtor, history>>

\* Mutant of ExitLoop: the worker leaves its loop as soon as it is told to stop.
ExitOnStop ==
  /\ pc = "test"
  /\ stopRequested
  /\ pc' = "exited"
  /\ UNCHANGED <<hasInner, queue, local, attempt, signalled, stopRequested,
                 dtor, history>>

\* break
ExitLoop ==
  /\ pc = "test"
  /\ stopRequested /\ queue = NoItems
  /\ pc' = "exited"
  /\ UNCHANGED <<hasInner, queue, local, attempt, signalled, stopRequested,
                 dtor, history>>

\* The predicate was false: the worker still holds m_mutex ...
DecideToSleep ==
  /\ pc = "test"
  /\ ~WorkOrStop
  /\ pc' = "blocking"
  /\ UNCHANGED <<hasInner, queue, local, attempt, signalled, stopRequested,
                 dtor, history>>

\* ... and the wait releases it and sleeps in one step.
Sleep ==
  /\ pc = "blocking"
  /\ pc' = "asleep"
  /\ signalled' = FALSE
  /\ UNCHANGED <<hasInner, queue, local, attempt, stopRequested, dtor, history>>

WakeUp ==
  /\ pc = "asleep" /\ signalled
  /\ pc' = "test"
  /\ signalled' = FALSE
  /\ UNCHANGED <<hasInner, queue, local, attempt, stopRequested, dtor, history>>

SpuriousWakeUp ==
  /\ pc = "asleep" /\ ~signalled
  /\ pc' = "test"
  /\ UNCHANGED <<hasInner, queue, local, attempt, signalled, stopRequested,
                 dtor, history>>

\* Mutant of Turn: statuses first.
StatusFirst(k) ==
  /\ local[k] # <<>>
  /\ k # "status" => local["status"] = <<>>
  /\ k = "result" => local["point"] = <<>>

\* The three loops run one after the other: points, results, statuses.
Turn(k) ==
  /\ local[k] # <<>>
  /\ k \in {"result", "status"} => local["point"] = <<>>
  /\ k = "status" => local["result"] = <<>>

Done(k) ==
  /\ local' = [local EXCEPT ![k] = Tail(@)]
  /\ attempt' = 0

\* One attempt that the inner repository answers with StorageSuccess.
WriteItem(k) ==
  /\ pc = "flush" /\ hasInner
  /\ Turn(k)
  /\ written' = Append(written, Head(local[k]))
  /\ Done(k)
  /\ UNCHANGED <<hasInner, queue, pc, signalled, stopRequested, dtor, accepted,
                 dropped>>

\* Mutant of FailItem: off by one in the number of attempts.
FailOnceMore(k) ==
  /\ pc = "flush" /\ hasInner
  /\ Turn(k)
  /\ \/ /\ attempt < MaxRetries
        /\ attempt' = attempt + 1
        /\ UNCHANGED <<local, dropped>>
     \/ /\ attempt = MaxRetries
        /\ dropped' = dropped \cup {Head(local[k])}
        /\ Done(k)
  /\ UNCHANGED <<hasInner, queue, pc, signalled, stopRequested, dtor, accepted,
                 written>>

\* One attempt that fails: the last one gives the item up, without a word.
FailItem(k) ==
  /\ pc = "flush" /\ hasInner
  /\ Turn(k)
  /\ \/ /\ attempt + 1 < MaxRetries
        /\ attempt' = attempt + 1
        /\ UNCHANGED <<local, dropped>>
     \/ /\ attempt + 1 = MaxRetries
        /\ dropped' = dropped \cup {Head(local[k])}
        /\ Done(k)
  /\ UNCHANGED <<hasInner, queue, pc, signalled, stopRequested, dtor, accepted,
                 written>>

\* if (!m_inner) continue;
SkipItem(k) ==
  /\ pc = "flush" /\ ~hasInner
  /\ Turn(k)
  /\ dropped' = dropped \cup {Head(local[k])}
  /\ Done(k)
  /\ UNCHANGED <<hasInner, queue, pc, signalled, stopRequested, dtor, accepted,
                 written>>

BatchDone ==
  /\ pc = "flush"
  /\ local = NoItems
  /\ pc' = "test"
  /\ UNCHANGED <<hasInner, queue, local, attempt, signalled, stopRequested,
                 dtor, history>>

Process(k) == WriteItem(k) \/ FailItem(k) \/ SkipItem(k)

WorkerLoop ==
  \/ TakeAll \/ ExitLoop \/ DecideToSleep \/ Sleep \/ WakeUp
  \/ \E k \in Kind : Process(k)
  \/ BatchDone

Destructor == RequestStop \/ NotifyWorker \/ JoinWorker

Next == (\E k \in Kind : Save(k)) \/ Destructor \/ WorkerLoop \/ SpuriousWakeUp

Spec == Init /\ [][Next]_vars

-----------------------------------------------------------------------------
(* Properties. *)

\* The type invariant of the queues, the worker and the destructor.
TypeOK ==
  /\ hasInner \in BOOLEAN
  /\ queue \in [Kind -> Seq(Nat)]
  /\ local \in [Kind -> Seq(Nat)]
  /\ attempt \in 0..(MaxRetries - 1)
  /\ pc \in {"test", "blocking", "asleep", "flush", "exited"}
  /\ signalled \in BOOLEAN
  /\ stopRequested \in BOOLEAN
  /\ dtor \in {"alive", "notify", "join", "destroyed"}
  /\ accepted \in Seq(Kind)
  /\ written \in Seq(Nat)
  /\ dropped \subseteq Nat

\* The batches and their retries implement the promise of WriteBehind: no save
\* is lost, written a second time or after it was given up, or overtaken by one
\* of its kind, and none is left behind when the destructor returns.
Promise == INSTANCE WriteBehind WITH closed <- dtor = "destroyed"
ImplementsPromise == Promise!Spec

\* A run's status reaches the inner repository only after every point and
\* result that was accepted before it: the queues are swapped together and the
\* statuses are written last.
StatusAfterItsData ==
  \A s \in Handled : accepted[s] = "status" => 1..s \subseteq Handled

\* No save wakes a worker in vain: whatever is queued is seen before it sleeps.
NoSleepOverWork == pc = "asleep" /\ queue # NoItems => signalled
=============================================================================
