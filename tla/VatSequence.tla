---------------------------- MODULE VatSequence ----------------------------
(***************************************************************************)
(* VatSequence::Execute: the polling loop that drives the tasks of one VAT *)
(* sequence on the sequence thread, with the two ways in which other       *)
(* threads interrupt it:                                                   *)
(*   - VAT_Context::SetStopRequested, an atomic flag of the context, and   *)
(*   - VatSequence::Abort, which sets m_abortRequested under m_mutex and   *)
(*     notifies the condition variable the loop sleeps on.                 *)
(*                                                                         *)
(* A step of the module is one critical section (m_mutex, or the mutex of  *)
(* the context) or one call of a task.  What a task does is abstracted to  *)
(* the TaskResult it returns; NonBlockingTaskBase::Execute, the base of    *)
(* every task, is modelled because it looks at the stop flag once more.    *)
(***************************************************************************)
EXTENDS Naturals, Sequences

CONSTANT MaxTasks   \* bound: how many entries AddTask appends to m_tasks

ASSUME MaxTasksAssumption == MaxTasks \in Nat \ {0}

VARIABLES
  m_tasks,           \* the entries: "task", or "null" for an empty pointer
  idx,               \* Execute's index, 0-based as in the code
  m_abortRequested,  \* set by Abort, cleared when Execute begins
  stopRequested,     \* the stop flag of the VAT_Context
  pc,                \* where the sequence thread is in Execute
  res,               \* the TaskResult of the last call
  result,            \* what Execute returned
  notified,          \* m_cv was signalled while the thread slept on it
  lateBodies,        \* history: task bodies begun after a stop or an abort
  passed,            \* history: steps that reported NEXT and were not re-entered
  doneSignalled      \* history: a task returned TR_DONE

vars == <<m_tasks, idx, m_abortRequested, stopRequested, pc, res, result,
          notified, lateBodies, passed, doneSignalled>>

TaskResult == {"KEEP", "NEXT", "PREV", "DONE", "ERROR"}

\* What the body of a task (OnInitialize, OnPoll) may do: return, or throw.
BodyOutcome == TaskResult \cup {"throw"}

\* Mutant of Caught: no catch (...).
Uncaught(outcome) == outcome

\* The catch clauses of NonBlockingTaskBase::Execute.
Caught(outcome) == IF outcome = "throw" THEN "ERROR" ELSE outcome

Locations == {"idle", "checkStop", "checkAbort", "fetch", "gate", "body",
              "inBody", "dispatch", "waiting", "returned"}

Init ==
  /\ m_tasks = <<>>
  /\ idx = 0
  /\ m_abortRequested = FALSE
  /\ stopRequested = FALSE
  /\ pc = "idle"
  /\ res = "KEEP"
  /\ result = "none"
  /\ notified = FALSE
  /\ lateBodies = 0
  /\ passed = {}
  /\ doneSignalled = FALSE

history == <<lateBodies, passed, doneSignalled>>

Return(value) ==
  /\ pc' = "returned"
  /\ result' = value

-----------------------------------------------------------------------------
(* Other threads. *)

\* AddTask appends under m_mutex; nothing stops a caller while Execute runs.
AddTask ==
  /\ pc # "returned"
  /\ Len(m_tasks) < MaxTasks
  /\ \E t \in {"task", "null"} : m_tasks' = Append(m_tasks, t)
  /\ UNCHANGED <<idx, m_abortRequested, stopRequested, pc, res, result,
                 notified, history>>

\* Mutant of Abort: the flag without the notification.
AbortQuietly ==
  /\ ~m_abortRequested
  /\ m_abortRequested' = TRUE
  /\ UNCHANGED <<m_tasks, idx, stopRequested, pc, res, result, notified, history>>

\* Abort sets the flag and wakes the sequence thread if it sleeps.
Abort ==
  /\ ~m_abortRequested
  /\ m_abortRequested' = TRUE
  /\ notified' = (notified \/ pc = "waiting")
  /\ UNCHANGED <<m_tasks, idx, stopRequested, pc, res, result, history>>

\* The context's flag has its own mutex, and m_cv does not hear of it.
SetStopRequested ==
  /\ ~stopRequested
  /\ stopRequested' = TRUE
  /\ UNCHANGED <<m_tasks, idx, m_abortRequested, pc, res, result, notified,
                 history>>

-----------------------------------------------------------------------------
(* The sequence thread. *)

\* An Abort that came before is forgotten here.
BeginExecute ==
  /\ pc = "idle"
  /\ m_abortRequested' = FALSE
  /\ idx' = 0
  /\ pc' = "checkStop"
  /\ UNCHANGED <<m_tasks, stopRequested, res, result, notified, history>>

CheckStop ==
  /\ pc = "checkStop"
  /\ \/ /\ stopRequested
        /\ Return("false")
     \/ /\ ~stopRequested
        /\ pc' = "checkAbort"
        /\ UNCHANGED result
  /\ UNCHANGED <<m_tasks, idx, m_abortRequested, stopRequested, res, notified,
                 history>>

\* Mutant of CheckAbort: the loop looks at the context's flag only.
SkipAbortCheck ==
  /\ pc = "checkAbort"
  /\ pc' = "fetch"
  /\ UNCHANGED <<m_tasks, idx, m_abortRequested, stopRequested, res, result,
                 notified, history>>

CheckAbort ==
  /\ pc = "checkAbort"
  /\ \/ /\ m_abortRequested
        /\ Return("false")
     \/ /\ ~m_abortRequested
        /\ pc' = "fetch"
        /\ UNCHANGED result
  /\ UNCHANGED <<m_tasks, idx, m_abortRequested, stopRequested, res, notified,
                 history>>

\* Mutant of AtEnd: off by one at the end of the list.
BeforeLast == idx + 1 >= Len(m_tasks)

AtEnd == idx >= Len(m_tasks)

\* The index is compared with the size and used in one critical section.
FetchTask ==
  /\ pc = "fetch"
  /\ \/ /\ AtEnd
        /\ Return("true")
        /\ UNCHANGED idx
     \/ /\ ~AtEnd
        /\ m_tasks[idx + 1] = "null"
        /\ idx' = idx + 1
        /\ pc' = "checkStop"
        /\ UNCHANGED result
     \/ /\ ~AtEnd
        /\ m_tasks[idx + 1] = "task"
        /\ pc' = "gate"
        /\ UNCHANGED <<idx, result>>
  /\ UNCHANGED <<m_tasks, m_abortRequested, stopRequested, res, notified,
                 history>>

\* NonBlockingTaskBase::Execute looks at the stop flag before the body runs.
TaskGate ==
  /\ pc = "gate"
  /\ \/ /\ stopRequested
        /\ res' = "ERROR"
        /\ pc' = "dispatch"
     \/ /\ ~stopRequested
        /\ pc' = "body"
        /\ UNCHANGED res
  /\ UNCHANGED <<m_tasks, idx, m_abortRequested, stopRequested, result,
                 notified, history>>

BodyBegins ==
  /\ pc = "body"
  /\ pc' = "inBody"
  /\ lateBodies' = IF (stopRequested \/ m_abortRequested) /\ lateBodies < 2
                   THEN lateBodies + 1 ELSE lateBodies
  /\ UNCHANGED <<m_tasks, idx, m_abortRequested, stopRequested, res, result,
                 notified, passed, doneSignalled>>

BodyReturns ==
  /\ pc = "inBody"
  /\ \E outcome \in BodyOutcome : res' = Caught(outcome)
  /\ pc' = "dispatch"
  /\ UNCHANGED <<m_tasks, idx, m_abortRequested, stopRequested, result,
                 notified, history>>

\* case TR_KEEP: sleep on m_cv unless an interruption is already visible.
Keep ==
  /\ pc = "dispatch" /\ res = "KEEP"
  /\ pc' = IF ~m_abortRequested /\ ~stopRequested THEN "waiting" ELSE "checkStop"
  /\ notified' = FALSE
  /\ UNCHANGED <<m_tasks, idx, m_abortRequested, stopRequested, res, result,
                 history>>

\* case TR_NEXT
Advance ==
  /\ pc = "dispatch" /\ res = "NEXT"
  /\ idx' = idx + 1
  /\ passed' = passed \cup {idx + 1}
  /\ pc' = "checkStop"
  /\ UNCHANGED <<m_tasks, m_abortRequested, stopRequested, res, result,
                 notified, lateBodies, doneSignalled>>

\* case TR_PREV: the first step stays where it is.
GoBack ==
  /\ pc = "dispatch" /\ res = "PREV"
  /\ idx' = IF idx > 0 THEN idx - 1 ELSE idx
  /\ passed' = passed \ {idx' + 1}
  /\ pc' = "checkStop"
  /\ UNCHANGED <<m_tasks, m_abortRequested, stopRequested, res, result,
                 notified, lateBodies, doneSignalled>>

\* case TR_DONE ends the whole sequence, case TR_ERROR (and default) fails it.
Finish ==
  /\ pc = "dispatch"
  /\ \/ res = "DONE" /\ doneSignalled' = TRUE /\ Return("true")
     \/ res = "ERROR" /\ UNCHANGED doneSignalled /\ Return("false")
  /\ UNCHANGED <<m_tasks, idx, m_abortRequested, stopRequested, res, notified,
                 lateBodies, passed>>

\* Mutant of Wake: wait instead of wait_for.
WakeWhenNotified ==
  /\ pc = "waiting" /\ notified
  /\ pc' = "checkStop"
  /\ notified' = FALSE
  /\ UNCHANGED <<m_tasks, idx, m_abortRequested, stopRequested, res, result,
                 history>>

\* wait_for has no predicate: a notification, the 10 ms poll interval or a
\* spurious wake-up all lead back to the head of the loop.
Wake ==
  /\ pc = "waiting"
  /\ pc' = "checkStop"
  /\ notified' = FALSE
  /\ UNCHANGED <<m_tasks, idx, m_abortRequested, stopRequested, res, result,
                 history>>

SequenceThread ==
  \/ BeginExecute \/ CheckStop \/ CheckAbort \/ FetchTask \/ TaskGate
  \/ BodyBegins \/ BodyReturns \/ Keep \/ Advance \/ GoBack \/ Finish \/ Wake

Next == AddTask \/ Abort \/ SetStopRequested \/ SequenceThread

Spec == Init /\ [][Next]_vars

\* The thread is scheduled, a task's call returns ("runs briefly on each call"
\* is ITask's contract) and wait_for times out: weak fairness of its steps.
FairSpec == Spec /\ WF_vars(SequenceThread)

-----------------------------------------------------------------------------
(* Properties. *)

\* The type invariant of the loop and its history variables.
TypeOK ==
  /\ m_tasks \in Seq({"task", "null"})
  /\ idx \in Nat
  /\ m_abortRequested \in BOOLEAN
  /\ stopRequested \in BOOLEAN
  /\ pc \in Locations
  /\ res \in TaskResult
  /\ result \in {"none", "true", "false"}
  /\ notified \in BOOLEAN
  /\ lateBodies \in Nat
  /\ passed \subseteq Nat
  /\ doneSignalled \in BOOLEAN

\* Once a stop or an abort is visible to the loop, at most the one task call
\* that was already past its checks still runs: the loop head, the base class
\* and the sleeping branch each look at a different subset of the flags.
AtMostOneLateBody == lateBodies <= 1

\* Execute answers true only if a task said DONE, or if every non-null entry of
\* the list said NEXT after it was last re-entered by a PREV.
TrueMeansPassed ==
  result = "true" =>
    \/ doneSignalled
    \/ \A i \in 1..Len(m_tasks) : m_tasks[i] = "task" => i \in passed

\* Abort never loses its wake-up: the loop does not sleep on m_cv with an
\* abort pending and no signal under way (m_mutex covers the test and the wait).
AbortWakesSleeper == pc = "waiting" /\ m_abortRequested => notified

\* A stop request ends Execute, whatever the tasks answer and although nothing
\* signals m_cv: the timed wait is what makes it true.  So does an Abort that
\* arrives while Execute runs.
RequestEndsExecute ==
  (stopRequested \/ m_abortRequested) /\ pc # "idle" ~> pc = "returned"
=============================================================================
