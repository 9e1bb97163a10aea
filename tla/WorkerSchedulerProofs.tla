----------------------- MODULE WorkerSchedulerProofs -----------------------
(***************************************************************************)
(* Proofs about WorkerScheduler, for any number of threads and tasks and   *)
(* with Start allowed at every point, also while Stop joins.               *)
(***************************************************************************)
EXTENDS WorkerScheduler, TLAPS, SequenceTheorems

Places == {"none", "ready", "waiting", "task", "exited"}

Queued(t) == \E i \in 1..Len(queue) : queue[i] = t
InHand(t) == \E w \in Workers : task[w] = t

\* A thread has a task in hand exactly while it runs one, and exists exactly
\* while the vector holds it.
HandsMatch ==
  \A w \in Workers :
    /\ task[w] # 0 <=> worker[w] = "task"
    /\ w \notin threads => worker[w] = "none"

\* Every task is done, queued or in hand.
NothingLost == \A t \in 1..posted : t \in done \/ Queued(t) \/ InHand(t)

\* The owner has called Stop, which has not returned, if it ever does.
Leaving == owner \in {"joining", "clearing", "terminated"}

\* A thread leaves only for a Stop that has not returned, and when it leaves the
\* queue holds nothing any more that the Stop has promised.
ExitedLast ==
  /\ \A w \in Workers : worker[w] = "exited" =>
       Leaving /\ \A t \in promised : ~Queued(t)
  /\ threads # {} /\ ~running => Leaving
  /\ threads = {} => promised \subseteq done

IInv == TypeOK /\ HandsMatch /\ NothingLost /\ ExitedLast

\* The invariant holds before the first Start.
LEMMA InitIInv == Init => IInv
<1> SUFFICES ASSUME Init PROVE IInv
  OBVIOUS
<1>1. /\ posted = 0 /\ done = {} /\ promised = {} /\ threads = {} /\ queue = <<>>
      /\ \A w \in Workers : task[w] = 0 /\ worker[w] = "none"
  BY DEF Init
<1>2. queue \in Seq(1..posted)
  BY <1>1, EmptySeq
<1>3. /\ worker \in [Workers -> Places] /\ task \in [Workers -> 0..posted]
  BY <1>1 DEF Init, Places
<1>4. /\ running \in BOOLEAN /\ destroying \in BOOLEAN /\ overlapped \in BOOLEAN
      /\ owner \in {"idle", "joining", "clearing", "destroyed", "terminated"} /\ threads \in {{}, Workers}
  BY DEF Init
<1>5. TypeOK
  BY <1>1, <1>2, <1>3, <1>4, MaxTasksAssumption DEF TypeOK, Places
<1>6. HandsMatch /\ NothingLost /\ ExitedLast
  BY <1>1 DEF HandsMatch, NothingLost, ExitedLast, Leaving
<1>. QED BY <1>5, <1>6 DEF IInv

\* The callers' steps keep it.
LEMMA CallersKeep ==
  ASSUME IInv, Start \/ Stop \/ Joined \/ Terminate
  PROVE  IInv'
<1>0. TypeOK /\ HandsMatch /\ NothingLost /\ ExitedLast
  BY DEF IInv
<1>1. UNCHANGED <<queue, posted, done, task>>
  BY DEF Start, Stop, Joined, Terminate, tasks, pool
<1>2. NothingLost'
  BY <1>0, <1>1 DEF NothingLost, Queued, InHand
<1>3. \A t : Queued(t)' <=> Queued(t)
  BY <1>1 DEF Queued
<1>4. CASE Start
  <2>1. /\ owner' = owner /\ promised' = promised /\ destroying' = destroying
        /\ running' = TRUE /\ overlapped' \in BOOLEAN
    BY <1>4, <1>0 DEF Start, TypeOK
  <2>2. CASE threads = {}
    <3>1. threads' = Workers /\ worker' = [w \in Workers |-> "ready"]
      BY <1>4, <2>2 DEF Start
    <3>2. \A w \in Workers : task[w] = 0
      BY <1>0, <2>2 DEF HandsMatch
    <3>3. TypeOK'
      BY <1>0, <1>1, <2>1, <3>1 DEF TypeOK
    <3>4. HandsMatch'
      BY <1>1, <3>1, <3>2 DEF HandsMatch
    <3>5. ExitedLast'
      BY <1>0, <1>1, <2>1, <2>2, <3>1 DEF ExitedLast, Leaving
    <3>. QED BY <1>2, <3>3, <3>4, <3>5 DEF IInv
  <2>3. CASE threads # {}
    <3>1. UNCHANGED <<threads, worker>>
      BY <1>4, <2>3 DEF Start
    <3>2. TypeOK'
      BY <1>0, <1>1, <2>1, <3>1 DEF TypeOK
    <3>3. HandsMatch' /\ ExitedLast'
      BY <1>0, <1>1, <1>3, <2>1, <3>1 DEF HandsMatch, ExitedLast, Leaving
    <3>. QED BY <1>2, <3>2, <3>3 DEF IInv
  <2>. QED BY <2>2, <2>3
<1>5. CASE Stop
  <2>1. /\ owner = "idle" /\ owner' \in {"joining", "clearing"} /\ running' = FALSE
        /\ destroying' \in BOOLEAN /\ UNCHANGED <<threads, overlapped>>
        /\ promised' = IF threads = {} THEN {} ELSE 1..posted
    BY <1>5 DEF Stop
  <2>2. worker' = [w \in Workers |-> IF w \in Waiting THEN "ready" ELSE worker[w]]
    BY <1>5 DEF Stop
  <2>3. \A w \in Workers :
          /\ worker'[w] \in Places
          /\ worker'[w] = "none" <=> worker[w] = "none"
          /\ worker'[w] = "task" <=> worker[w] = "task"
          /\ worker'[w] = "exited" <=> worker[w] = "exited"
    BY <1>0, <2>2 DEF TypeOK, Waiting, Places
  <2>4. worker' \in [Workers -> Places]
    BY <2>2, <2>3
  <2>5. TypeOK'
    BY <1>0, <1>1, <2>1, <2>3, <2>4 DEF TypeOK, Places
  <2>6. HandsMatch'
    BY <1>0, <1>1, <2>1, <2>3 DEF HandsMatch
  <2>7. ExitedLast'
    BY <1>0, <1>1, <2>1, <2>3 DEF ExitedLast, Leaving
  <2>. QED BY <1>2, <2>5, <2>6, <2>7 DEF IInv
<1>6. CASE Joined
  <2>1. /\ InStop /\ \A w \in threads : worker[w] = "exited"
        /\ threads' = {} /\ worker' = [w \in Workers |-> "none"]
        /\ owner' \in {"idle", "destroyed"}
        /\ UNCHANGED <<running, destroying, promised, overlapped>>
    BY <1>6 DEF Joined
  <2>2. \A w \in Workers : task[w] = 0
    BY <1>0, <2>1 DEF TypeOK, HandsMatch
  <2>3. promised \subseteq done
    <3>1. CASE threads = {}
      BY <1>0, <3>1 DEF ExitedLast, Leaving
    <3>2. CASE threads # {}
      <4>1. PICK w \in Workers : worker[w] = "exited"
        BY <1>0, <2>1, <3>2 DEF TypeOK
      <4>2. \A t \in promised : ~Queued(t) /\ t \in 1..posted
        BY <1>0, <4>1 DEF ExitedLast, Leaving, TypeOK
      <4>3. \A t \in 1..posted : ~InHand(t)
        BY <2>2 DEF InHand
      <4>. QED BY <1>0, <4>2, <4>3 DEF NothingLost
    <3>. QED BY <3>1, <3>2
  <2>4. TypeOK'
    BY <1>0, <1>1, <2>1 DEF TypeOK
  <2>5. HandsMatch' /\ ExitedLast'
    BY <1>1, <2>1, <2>2, <2>3 DEF HandsMatch, ExitedLast, Leaving
  <2>. QED BY <1>2, <2>4, <2>5 DEF IInv
<1>7. CASE Terminate
  <2>1. owner' = "terminated"
        /\ UNCHANGED <<threads, worker, running, destroying, promised, overlapped>>
    BY <1>7 DEF Terminate, pool
  <2>2. TypeOK'
    BY <1>0, <1>1, <2>1 DEF TypeOK
  <2>3. HandsMatch' /\ ExitedLast'
    BY <1>0, <1>1, <1>3, <2>1 DEF HandsMatch, ExitedLast, Leaving
  <2>. QED BY <1>2, <2>2, <2>3 DEF IInv
<1>. QED BY <1>4, <1>5, <1>6, <1>7

\* So does Enqueue: the new task is none that a Stop has promised.
LEMMA EnqueueKeeps ==
  ASSUME IInv, Enqueue
  PROVE  IInv'
<1> DEFINE n == Len(queue)
<1>0. TypeOK /\ HandsMatch /\ NothingLost /\ ExitedLast
  BY DEF IInv
<1>1. /\ posted' = posted + 1 /\ posted < MaxTasks
      /\ queue' = Append(queue, posted + 1)
      /\ UNCHANGED <<done, threads, task, running, owner, destroying, promised, overlapped>>
  BY DEF Enqueue, control
<1>2. posted \in Nat /\ posted' \in 0..MaxTasks /\ 1..posted \subseteq 1..posted'
  BY <1>0, <1>1, MaxTasksAssumption DEF TypeOK
<1>3. queue \in Seq(1..posted')
  <2>1. queue \in Seq(1..posted)
    BY <1>0 DEF TypeOK
  <2>. QED BY <1>2, <2>1, SeqMonotonic
<1>4. posted + 1 \in 1..posted'
  BY <1>1, <1>2
<1>5. /\ queue' \in Seq(1..posted') /\ n \in Nat /\ Len(queue') = n + 1
      /\ \A i \in 1..n : queue'[i] = queue[i]
      /\ queue'[n + 1] = posted + 1
  BY <1>1, <1>3, <1>4, AppendProperties, LenProperties
<1>6. \A t \in 1..posted : Queued(t)' <=> Queued(t)
  <2>. TAKE t \in 1..posted
  <2>1. t # posted + 1
    BY <1>2
  <2>2. ASSUME NEW i \in 1..Len(queue'), queue'[i] = t
        PROVE  i \in 1..n /\ queue[i] = t
    <3>1. i # n + 1
      BY <1>5, <2>1, <2>2
    <3>2. i \in 1..n
      BY <1>5, <2>2, <3>1
    <3>. QED BY <1>5, <2>2, <3>2
  <2>3. 1..n \subseteq 1..Len(queue')
    BY <1>5
  <2>. QED BY <1>5, <2>2, <2>3 DEF Queued
<1>7. \E i \in 1..Len(queue') : queue'[i] = posted + 1
  <2>1. n + 1 \in 1..Len(queue')
    BY <1>5
  <2>. QED BY <1>5, <2>1
<1>8. \A w \in Workers :
        /\ worker'[w] \in Places
        /\ worker'[w] = "none" <=> worker[w] = "none"
        /\ worker'[w] = "task" <=> worker[w] = "task"
        /\ worker'[w] = "exited" <=> worker[w] = "exited"
  BY <1>0 DEF Enqueue, TypeOK, Waiting, Places
<1>9. worker' \in [Workers -> Places]
  <2>1. CASE Waiting = {}
    BY <1>0, <2>1 DEF Enqueue, TypeOK, Places
  <2>2. CASE Waiting # {}
    BY <1>0, <2>2 DEF Enqueue, TypeOK, Places
  <2>. QED BY <2>1, <2>2
<1>10. TypeOK'
  <2>1. task' \in [Workers -> 0..posted']
    BY <1>0, <1>1, <1>2 DEF TypeOK
  <2>2. done' \subseteq 1..posted' /\ promised' \subseteq 1..posted'
    BY <1>0, <1>1, <1>2 DEF TypeOK
  <2>3. \A w \in threads' : worker'[w] # "none"
    BY <1>0, <1>1, <1>8 DEF TypeOK
  <2>4. /\ running' \in BOOLEAN /\ threads' \in {{}, Workers}
        /\ owner' \in {"idle", "joining", "clearing", "destroyed", "terminated"}
        /\ destroying' \in BOOLEAN /\ overlapped' \in BOOLEAN
    BY <1>0, <1>1 DEF TypeOK
  <2>. QED BY <1>2, <1>5, <1>9, <2>1, <2>2, <2>3, <2>4 DEF TypeOK, Places
<1>11. HandsMatch'
  BY <1>0, <1>1, <1>8 DEF HandsMatch
<1>12. NothingLost'
  <2>1. \A t : InHand(t)' <=> InHand(t)
    BY <1>1 DEF InHand
  <2>2. \A t \in 1..posted' : t \in 1..posted \/ t = posted + 1
    BY <1>1, <1>2
  <2>3. ASSUME NEW t \in 1..posted'
        PROVE  t \in done' \/ Queued(t)' \/ InHand(t)'
    <3>1. CASE t = posted + 1
      BY <1>7, <3>1 DEF Queued
    <3>2. CASE t \in 1..posted
      BY <1>0, <1>1, <1>6, <2>1, <3>2 DEF NothingLost
    <3>. QED BY <2>2, <3>1, <3>2
  <2>. QED BY <2>3 DEF NothingLost
<1>13. ExitedLast'
  <2>1. promised \subseteq 1..posted
    BY <1>0 DEF TypeOK
  <2>. QED BY <1>0, <1>1, <1>6, <1>8, <2>1 DEF ExitedLast, Leaving
<1>. QED BY <1>10, <1>11, <1>12, <1>13 DEF IInv

\* A step of one thread.
LEMMA StepKeeps ==
  ASSUME IInv, NEW w \in Workers, Step(w)
  PROVE  IInv'
<1>0. TypeOK /\ HandsMatch /\ NothingLost /\ ExitedLast
  BY DEF IInv
<1>1. /\ UNCHANGED <<posted, threads, running, owner, destroying, promised, overlapped>>
      /\ posted \in Nat
  BY <1>0 DEF Step, Wait, Exit, Take, Run, control, tasks, TypeOK
<1>2. CASE Wait(w) \/ Exit(w)
  <2>1. /\ UNCHANGED <<queue, done, task>> /\ worker[w] = "ready" /\ queue = <<>>
        /\ \/ worker' = [worker EXCEPT ![w] = "waiting"]
           \/ worker' = [worker EXCEPT ![w] = "exited"] /\ ~running
    BY <1>2 DEF Wait, Exit, tasks
  <2>2. TypeOK'
    BY <1>0, <1>1, <2>1 DEF TypeOK
  <2>3. HandsMatch'
    BY <1>0, <1>1, <2>1 DEF HandsMatch, TypeOK
  <2>4. NothingLost'
    BY <1>0, <1>1, <2>1 DEF NothingLost, Queued, InHand
  <2>5. ExitedLast'
    <3>1. \A t : ~Queued(t)'
      BY <2>1 DEF Queued
    <3>2. w \in threads
      BY <1>0, <2>1 DEF HandsMatch
    <3>. QED BY <1>0, <1>1, <2>1, <3>1, <3>2 DEF ExitedLast, Leaving, TypeOK
  <2>. QED BY <2>2, <2>3, <2>4, <2>5 DEF IInv
<1>3. CASE Take(w)
  <2>1. /\ worker[w] = "ready" /\ queue # <<>> /\ done' = done
        /\ worker' = [worker EXCEPT ![w] = "task"]
        /\ task' = [task EXCEPT ![w] = Head(queue)]
        /\ queue' = Tail(queue)
    BY <1>3 DEF Take
  <2>2. queue \in Seq(1..posted)
    BY <1>0 DEF TypeOK
  <2>3. /\ Head(queue) \in 1..posted /\ Head(queue) = queue[1]
        /\ queue' \in Seq(1..posted)
        /\ Len(queue) \in Nat \ {0} /\ Len(queue') = Len(queue) - 1
        /\ \A i \in 1..(Len(queue) - 1) : queue'[i] = queue[i + 1]
    <3>1. Len(queue) \in Nat \ {0} /\ Head(queue) = queue[1]
      BY <2>1, <2>2, EmptySeq
    <3>2. 1 \in 1..Len(queue)
      BY <3>1
    <3>3. queue[1] \in 1..posted
      BY <2>2, <3>2, ElementOfSeq
    <3>4. /\ queue' \in Seq(1..posted) /\ Len(queue') = Len(queue) - 1
          /\ \A i \in 1..(Len(queue) - 1) : queue'[i] = queue[i + 1]
      BY <2>1, <2>2, HeadTailProperties
    <3>. QED BY <3>1, <3>3, <3>4
  <2>4. /\ task' \in [Workers -> 0..posted] /\ task'[w] = Head(queue)
        /\ \A v \in Workers : v # w => task'[v] = task[v] /\ worker'[v] = worker[v]
        /\ worker'[w] = "task" /\ worker' \in [Workers -> Places]
    BY <1>0, <1>1, <2>1, <2>3 DEF TypeOK, Places
  <2>5. TypeOK'
    BY <1>0, <1>1, <2>1, <2>3, <2>4 DEF TypeOK, Places
  <2>6. HandsMatch'
    <3>1. task'[w] # 0
      BY <1>1, <2>3, <2>4
    <3>. QED BY <1>0, <1>1, <2>1, <2>4, <3>1 DEF HandsMatch
  <2>7. \A t : Queued(t)' => Queued(t)
    <3>1. \A i \in 1..(Len(queue) - 1) : i + 1 \in 1..Len(queue)
      BY <2>3
    <3>. QED BY <2>3, <3>1 DEF Queued
  <2>8. NothingLost'
    <3>1. ASSUME NEW t \in 1..posted, ~(t \in done), ~InHand(t)
          PROVE  Queued(t)' \/ InHand(t)'
      <4>1. PICK i \in 1..Len(queue) : queue[i] = t
        BY <1>0, <3>1 DEF NothingLost, Queued
      <4>2. CASE i = 1
        BY <2>3, <2>4, <4>1, <4>2 DEF InHand
      <4>3. CASE i # 1
        <5>1. i - 1 \in 1..(Len(queue) - 1) /\ (i - 1) + 1 = i
          BY <2>3, <4>3
        <5>2. queue'[i - 1] = t
          BY <2>3, <4>1, <5>1
        <5>. QED BY <2>3, <5>1, <5>2 DEF Queued
      <4>. QED BY <4>2, <4>3
    <3>2. ASSUME NEW t \in 1..posted, InHand(t)
          PROVE  InHand(t)'
      <4>1. PICK v \in Workers : task[v] = t
        BY <3>2 DEF InHand
      <4>2. v # w
        BY <1>0, <1>1, <2>1, <4>1 DEF HandsMatch
      <4>. QED BY <2>4, <4>1, <4>2 DEF InHand
    <3>. QED BY <1>1, <2>1, <3>1, <3>2 DEF NothingLost
  <2>9. ExitedLast'
    BY <1>0, <1>1, <2>1, <2>4, <2>7 DEF ExitedLast, Leaving
  <2>. QED BY <2>5, <2>6, <2>8, <2>9 DEF IInv
<1>4. CASE Run(w)
  <2>1. /\ worker[w] = "task" /\ queue' = queue
        /\ worker' = [worker EXCEPT ![w] = "ready"]
        /\ done' = done \cup {task[w]}
        /\ task' = [task EXCEPT ![w] = 0]
    BY <1>4 DEF Run
  <2>2. task[w] \in 1..posted
    BY <1>0, <1>1, <2>1 DEF HandsMatch, TypeOK
  <2>3. /\ task'[w] = 0 /\ worker'[w] = "ready"
        /\ \A v \in Workers : v # w => task'[v] = task[v] /\ worker'[v] = worker[v]
        /\ worker' \in [Workers -> Places] /\ task' \in [Workers -> 0..posted]
    BY <1>0, <1>1, <2>1 DEF TypeOK, Places
  <2>4. TypeOK'
    BY <1>0, <1>1, <2>1, <2>2, <2>3 DEF TypeOK, Places
  <2>5. HandsMatch'
    BY <1>0, <1>1, <2>1, <2>3 DEF HandsMatch
  <2>6. NothingLost'
    BY <1>0, <1>1, <2>1, <2>3 DEF NothingLost, Queued, InHand
  <2>7. ExitedLast'
    BY <1>0, <1>1, <2>1, <2>3 DEF ExitedLast, Leaving, Queued
  <2>. QED BY <2>4, <2>5, <2>6, <2>7 DEF IInv
<1>. QED BY <1>2, <1>3, <1>4 DEF Step

\* Every step keeps the invariant.
LEMMA IInvStep == IInv /\ [Next]_vars => IInv'
<1> SUFFICES ASSUME IInv, [Next]_vars PROVE IInv'
  OBVIOUS
<1>1. CASE Start \/ Stop \/ Joined \/ Terminate
  BY <1>1, CallersKeep
<1>2. CASE Enqueue
  BY <1>2, EnqueueKeeps
<1>3. CASE \E w \in Workers : Step(w)
  BY <1>3, StepKeeps
<1>4. CASE UNCHANGED vars
  BY <1>4 DEF vars, tasks, pool, control, IInv, TypeOK, HandsMatch, NothingLost,
              ExitedLast, Leaving, Queued, InHand
<1>. QED BY <1>1, <1>2, <1>3, <1>4 DEF Next

\* The scheduler, its threads and its tasks keep their types.
THEOREM TypeCorrect == Spec => []TypeOK
<1>. QED BY InitIInv, IInvStep, PTL DEF Spec, IInv

\* A Stop that has returned has drained the queue, whatever was enqueued
\* meanwhile and even if Starts have overlapped it.
THEOREM StopHasDrained == Spec => []StopDrains
<1>1. IInv => StopDrains
  BY DEF IInv, StopDrains, HandsMatch, ExitedLast
<1>. QED BY <1>1, InitIInv, IInvStep, PTL DEF Spec
=============================================================================
