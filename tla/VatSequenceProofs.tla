------------------------- MODULE VatSequenceProofs -------------------------
(***************************************************************************)
(* Proofs about VatSequence, for every length of the task list.            *)
(***************************************************************************)
EXTENDS VatSequence, TLAPS, SequenceTheorems

\* A stop or an abort that the loop has still to honour is visible.
Interrupted == stopRequested \/ m_abortRequested

\* After the one late body the thread is on its way to a check that sees the
\* interruption: it can be past CheckStop only if the abort flag is set.
LateBodyIsLast ==
  /\ lateBodies \in {0, 1}
  /\ lateBodies = 1 =>
       /\ Interrupted
       /\ pc \in {"inBody", "dispatch", "waiting", "checkStop", "checkAbort",
                  "returned"}
       /\ pc = "checkAbort" => m_abortRequested
  /\ pc = "idle" => lateBodies = 0

\* The sleeping branch was taken with no interruption in sight, so a pending
\* abort came later and has signalled.
SleeperIsSignalled == pc = "waiting" /\ m_abortRequested => notified

\* Every real entry behind the index has said NEXT since it was re-entered;
\* the index never leaves the list; a positive answer comes with a reason.
PrefixPassed ==
  /\ \A i \in 1..idx : i \in 1..Len(m_tasks)
                         /\ (m_tasks[i] = "task" => i \in passed)
  /\ pc \in {"gate", "body", "inBody", "dispatch"} => idx < Len(m_tasks)
  /\ pc # "returned" => result = "none"
  /\ result = "true" => doneSignalled \/ idx >= Len(m_tasks)

IInv == TypeOK /\ LateBodyIsLast /\ SleeperIsSignalled /\ PrefixPassed

\* The variables have their types at the start.
LEMMA InitTypeOK == Init => TypeOK
<1> SUFFICES ASSUME Init PROVE TypeOK
  OBVIOUS
<1>1. m_tasks \in Seq({"task", "null"})
  BY EmptySeq DEF Init
<1>2. /\ idx \in Nat /\ lateBodies \in Nat /\ passed \subseteq Nat
      /\ pc \in Locations /\ res \in TaskResult
      /\ result \in {"none", "true", "false"}
  BY DEF Init, Locations, TaskResult
<1>3. /\ m_abortRequested \in BOOLEAN /\ stopRequested \in BOOLEAN
      /\ notified \in BOOLEAN /\ doneSignalled \in BOOLEAN
  BY DEF Init
<1>. QED
  BY <1>1, <1>2, <1>3 DEF TypeOK

\* Every step of the loop and of its callers keeps the type invariant.
LEMMA TypeOKStep == TypeOK /\ [Next]_vars => TypeOK'
<1> SUFFICES ASSUME TypeOK, [Next]_vars PROVE TypeOK'
  OBVIOUS
<1> USE DEF TypeOK, Locations, TaskResult, Return, history
<1>1. CASE AddTask
  <2>1. PICK t \in {"task", "null"} : m_tasks' = Append(m_tasks, t)
    BY <1>1 DEF AddTask
  <2>2. m_tasks' \in Seq({"task", "null"})
    BY <2>1
  <2>. QED BY <1>1, <2>2 DEF AddTask
<1>2. CASE Abort
  BY <1>2 DEF Abort
<1>3. CASE SetStopRequested
  BY <1>3 DEF SetStopRequested
<1>4. CASE BeginExecute
  BY <1>4 DEF BeginExecute
<1>5. CASE CheckStop
  BY <1>5 DEF CheckStop
<1>6. CASE CheckAbort
  BY <1>6 DEF CheckAbort
<1>7. CASE FetchTask
  BY <1>7 DEF FetchTask
<1>8. CASE TaskGate
  BY <1>8 DEF TaskGate
<1>9. CASE BodyBegins
  BY <1>9 DEF BodyBegins
<1>10. CASE BodyReturns
  BY <1>10 DEF BodyReturns, BodyOutcome, Caught
<1>11. CASE Keep
  BY <1>11 DEF Keep
<1>12. CASE Advance
  BY <1>12 DEF Advance
<1>13. CASE GoBack
  BY <1>13 DEF GoBack
<1>14. CASE Finish
  BY <1>14 DEF Finish
<1>15. CASE Wake
  BY <1>15 DEF Wake
<1>16. CASE UNCHANGED vars
  BY <1>16 DEF vars
<1>. QED
  BY <1>1, <1>2, <1>3, <1>4, <1>5, <1>6, <1>7, <1>8, <1>9, <1>10, <1>11,
     <1>12, <1>13, <1>14, <1>15, <1>16 DEF Next, SequenceThread

\* The variables of VatSequence keep their types.
THEOREM TypeCorrect == Spec => []TypeOK
<1>1. Init => TypeOK
  BY InitTypeOK
<1>2. TypeOK /\ [Next]_vars => TypeOK'
  BY TypeOKStep
<1>. QED
  BY <1>1, <1>2, PTL DEF Spec

\* The inductive invariant holds at the start.
LEMMA InitIInv == Init => IInv
BY InitTypeOK DEF Init, IInv, LateBodyIsLast, SleeperIsSignalled, PrefixPassed

\* A pending interruption lets at most one more body begin: every step.
LEMMA LateBodyStep == TypeOK /\ LateBodyIsLast /\ [Next]_vars => LateBodyIsLast'
<1> SUFFICES ASSUME TypeOK, LateBodyIsLast, [Next]_vars PROVE LateBodyIsLast'
  OBVIOUS
<1> USE DEF TypeOK, Locations, LateBodyIsLast, Interrupted, Return, history
<1>1. CASE AddTask
  BY <1>1 DEF AddTask
<1>2. CASE Abort
  BY <1>2 DEF Abort
<1>3. CASE SetStopRequested
  BY <1>3 DEF SetStopRequested
<1>4. CASE BeginExecute
  BY <1>4 DEF BeginExecute
<1>5. CASE CheckStop
  BY <1>5 DEF CheckStop
<1>6. CASE CheckAbort
  BY <1>6 DEF CheckAbort
<1>7. CASE FetchTask
  BY <1>7 DEF FetchTask
<1>8. CASE TaskGate
  BY <1>8 DEF TaskGate
<1>9. CASE BodyBegins
  BY <1>9 DEF BodyBegins
<1>10. CASE BodyReturns
  BY <1>10 DEF BodyReturns
<1>11. CASE Keep \/ Advance \/ GoBack \/ Finish \/ Wake
  BY <1>11 DEF Keep, Advance, GoBack, Finish, Wake
<1>12. CASE UNCHANGED vars
  BY <1>12 DEF vars
<1>. QED
  BY <1>1, <1>2, <1>3, <1>4, <1>5, <1>6, <1>7, <1>8, <1>9, <1>10, <1>11,
     <1>12 DEF Next, SequenceThread

\* Abort's notification reaches the sleeper: every step.
LEMMA SleeperStep == TypeOK /\ SleeperIsSignalled /\ [Next]_vars => SleeperIsSignalled'
<1> SUFFICES ASSUME TypeOK, SleeperIsSignalled, [Next]_vars
             PROVE SleeperIsSignalled'
  OBVIOUS
<1> USE DEF TypeOK, Locations, SleeperIsSignalled, Return, history
<1>1. CASE AddTask \/ Abort \/ SetStopRequested
  BY <1>1 DEF AddTask, Abort, SetStopRequested
<1>2. CASE Keep
  BY <1>2 DEF Keep
<1>3. CASE SequenceThread /\ ~Keep
  BY <1>3 DEF SequenceThread, BeginExecute, CheckStop, CheckAbort, FetchTask,
     TaskGate, BodyBegins, BodyReturns, Advance, GoBack, Finish, Wake
<1>4. CASE UNCHANGED vars
  BY <1>4 DEF vars
<1>. QED
  BY <1>1, <1>2, <1>3, <1>4 DEF Next

\* The prefix behind the index has passed: every step.
LEMMA PrefixStep == TypeOK /\ PrefixPassed /\ [Next]_vars => PrefixPassed'
<1> SUFFICES ASSUME TypeOK, PrefixPassed, [Next]_vars PROVE PrefixPassed'
  OBVIOUS
<1> USE DEF TypeOK, Locations, PrefixPassed, Return, history
<1>0. Len(m_tasks) \in Nat
  BY LenProperties
<1>1. CASE AddTask
  <2>1. PICK t \in {"task", "null"} : m_tasks' = Append(m_tasks, t)
    BY <1>1 DEF AddTask
  <2>2. /\ Len(m_tasks') = Len(m_tasks) + 1
        /\ \A i \in 1..Len(m_tasks) : m_tasks'[i] = m_tasks[i]
    BY <2>1, AppendProperties
  <2>. QED
    BY <1>0, <1>1, <2>2 DEF AddTask
<1>2. CASE Abort \/ SetStopRequested
  BY <1>2 DEF Abort, SetStopRequested
<1>3. CASE BeginExecute
  BY <1>3 DEF BeginExecute
<1>4. CASE CheckStop \/ CheckAbort \/ TaskGate \/ BodyBegins \/ BodyReturns
  BY <1>4 DEF CheckStop, CheckAbort, TaskGate, BodyBegins, BodyReturns
<1>5. CASE FetchTask
  BY <1>0, <1>5 DEF FetchTask, AtEnd
<1>6. CASE Keep \/ Finish \/ Wake
  BY <1>6 DEF Keep, Finish, Wake
<1>7. CASE Advance
  BY <1>0, <1>7 DEF Advance
<1>8. CASE GoBack
  BY <1>0, <1>8 DEF GoBack
<1>9. CASE UNCHANGED vars
  BY <1>9 DEF vars
<1>. QED
  BY <1>1, <1>2, <1>3, <1>4, <1>5, <1>6, <1>7, <1>8, <1>9
     DEF Next, SequenceThread

\* The inductive invariant of the loop.
THEOREM Invariance == Spec => []IInv
<1>1. Init => IInv
  BY InitIInv
<1>2. IInv /\ [Next]_vars => IInv'
  BY TypeOKStep, LateBodyStep, SleeperStep, PrefixStep DEF IInv
<1>. QED
  BY <1>1, <1>2, PTL DEF Spec

\* For any task list: at most one task body begins after an interruption.
THEOREM LateBodies == Spec => []AtMostOneLateBody
<1>1. IInv => AtMostOneLateBody
  BY DEF IInv, LateBodyIsLast, AtMostOneLateBody
<1>. QED
  BY <1>1, Invariance, PTL

\* For any task list: no abort leaves the loop asleep and unsignalled.
THEOREM AbortWakes == Spec => []AbortWakesSleeper
<1>1. IInv => AbortWakesSleeper
  BY DEF IInv, SleeperIsSignalled, AbortWakesSleeper
<1>. QED
  BY <1>1, Invariance, PTL

\* For any task list: a positive answer means DONE, or that every entry passed.
THEOREM TrueIsEarned == Spec => []TrueMeansPassed
<1>1. ASSUME IInv PROVE TrueMeansPassed
  <2>1. Len(m_tasks) \in Nat
    BY <1>1, LenProperties DEF IInv, TypeOK
  <2>. QED
    BY <1>1, <2>1 DEF IInv, TypeOK, PrefixPassed, TrueMeansPassed
<1>. QED
  BY <1>1, Invariance, PTL
=============================================================================
