--------------------- MODULE AsyncSequenceRunnerProofs ---------------------
(***************************************************************************)
(* Proofs about AsyncSequenceRunner, for any number of runs and contexts   *)
(* and one controller, as the engine adapter drives it, with Stop called   *)
(* from anywhere.                                                          *)
(***************************************************************************)
EXTENDS AsyncSequenceRunner, TLAPS, SequenceTheorems

OneController == \A c, d \in Controllers : c = d

Newest == notices[Len(notices)]

\* Between its two notices.
Telling(r) == worker[r] \in {"execute", "completed", "aborted"}

\* A thread that has not ended is that of the newest run, the thread object
\* holds it, and the runner owns its sequence and its context.
Threads ==
  \A r \in Runs : Live(r) =>
    /\ thread = r /\ r = runs /\ running
    /\ currentSeq = r /\ currentCtx = ctxOf[r]

\* The flag is set from the acceptance of a run to the end of its thread.
Flagged ==
  running => /\ runs \in Runs /\ currentSeq = runs
             /\ (\E c \in Controllers : pc[c] = "spawn") \/ Live(runs)

\* What a controller has established where it is.
Callers ==
  \A c \in Controllers :
    /\ pc[c] \in {"relock", "spawn", "reset"} => thread = 0
    /\ pc[c] \in {"join", "joining"} => thread # 0
    /\ pc[c] = "joining" => target[c] = thread
    /\ pc[c] = "spawn" => /\ run[c] = runs /\ runs \in Runs /\ running
                          /\ currentSeq = runs /\ currentCtx = ctxOf[runs]

Gone == destroyed => thread = 0 /\ \A c \in Controllers : pc[c] = "idle"

\* What the newest notice says.
Told ==
  /\ (\A r \in Runs : ~Telling(r)) => notices = <<>> \/ Newest.status # "started"
  /\ \A r \in Runs : Telling(r) =>
       notices # <<>> /\ Newest.status = "started" /\ Newest.seq = r
  /\ notices # <<>> => Newest.seq <= runs
  /\ (\E r \in Runs : worker[r] = "new") \/ (\E c \in Controllers : pc[c] = "spawn")
       => notices = <<>> \/ Newest.seq < runs

IInv ==
  /\ TypeOK /\ ~terminated
  /\ Threads /\ Flagged /\ Callers /\ Gone /\ Told /\ NoticesInOrder

-----------------------------------------------------------------------------
\* What TypeOK says of the variables that most steps read.
LEMMA Types ==
  ASSUME IInv
  PROVE  /\ TypeOK /\ ~terminated /\ Threads /\ Flagged /\ Callers /\ Gone /\ Told /\ NoticesInOrder
         /\ MaxRuns \in Nat /\ runs \in Nat /\ runs <= MaxRuns
         /\ thread \in 0..runs /\ currentSeq \in 0..runs
         /\ worker \in [Runs -> WorkerLocations] /\ ctxOf \in [Runs -> Contexts \cup {"none"}]
         /\ pc \in [Controllers -> Locations] /\ call \in [Controllers -> Calls]
         /\ run \in [Controllers -> 0..runs] /\ target \in [Controllers -> 0..runs]
BY MaxRunsAssumption DEF IInv, TypeOK

\* The newest notice is of a run that was started.
LEMMA NewestTyped ==
  ASSUME IInv, notices # <<>>
  PROVE  Newest.seq \in Runs /\ Newest.seq \in Nat
<1>. DEFINE Notice == [seq : Runs, status : {"started", "completed", "aborted"}]
<1>1. notices \in Seq(Notice)
  BY Types DEF TypeOK
<1>. HIDE DEF Notice
<1>2. Len(notices) \in 1..Len(notices)
  BY <1>1
<1>3. notices[Len(notices)] \in Notice
  BY <1>1, <1>2, ElementOfSeq
<1>. QED BY <1>3 DEF Notice, Newest, Runs

\* Nothing runs while the thread object is empty or the flag is clear.
LEMMA NobodyLive ==
  ASSUME IInv, thread = 0 \/ ~running, NEW r \in Runs
  PROVE  ~Live(r) /\ ~Telling(r) /\ worker[r] # "new"
<1>1. r # 0
  BY DEF Runs
<1>2. ~Live(r)
  BY <1>1, Types DEF Threads
<1>. QED BY <1>2 DEF Live, Telling

\* The invariant holds before the first call of the runner.
LEMMA InitIInv == Init => IInv
<1> SUFFICES ASSUME Init PROVE IInv
  OBVIOUS
<1>1. /\ thread = 0 /\ currentSeq = 0 /\ currentCtx = "none" /\ runs = 0
      /\ notices = <<>> /\ asked = {}
      /\ \A r \in Runs : worker[r] = "none"
      /\ \A c \in Controllers : pc[c] = "idle"
  BY DEF Init
<1>2. /\ running \in BOOLEAN /\ stop \in [Contexts -> BOOLEAN]
  BY DEF Init
<1>3. /\ ctxOf \in [Runs -> Contexts \cup {"none"}]
      /\ worker \in [Runs -> WorkerLocations]
      /\ pc \in [Controllers -> Locations] /\ call \in [Controllers -> Calls]
      /\ run \in [Controllers -> 0..runs] /\ target \in [Controllers -> 0..runs]
  BY DEF Init, WorkerLocations, Locations, Calls
<1>4. /\ terminated = FALSE /\ destroyed = FALSE
  BY DEF Init
<1>5. terminated \in BOOLEAN /\ destroyed \in BOOLEAN
  BY <1>4
<1>6. notices \in Seq([seq : Runs, status : {"started", "completed", "aborted"}])
  BY <1>1, EmptySeq
<1>7. TypeOK
  BY <1>1, <1>2, <1>3, <1>5, <1>6, MaxRunsAssumption DEF TypeOK
<1>8. Len(notices) = 0
  BY <1>1
<1>9. Threads /\ Flagged /\ Callers /\ Gone /\ Told
  BY <1>1, <1>4 DEF Init, Threads, Flagged, Live, Callers, Gone, Told, Telling
<1>10. NoticesInOrder
  BY <1>8 DEF NoticesInOrder
<1>. QED BY <1>4, <1>7, <1>9, <1>10 DEF IInv

\* The acceptance of a run, in StartCheck and in Relock.
LEMMA AcceptKeeps ==
  ASSUME IInv, OneController, NEW c \in Controllers, NEW x \in Contexts,
         Accept(c, x), Goto(c, "spawn"), runs < MaxRuns, thread = 0, ~destroyed,
         UNCHANGED <<thread, stop, notices, worker, target, terminated, destroyed, asked>>,
         call' \in [Controllers -> Calls]
  PROVE  IInv'
<1>1. /\ running' = TRUE /\ runs' = runs + 1
      /\ run' = [run EXCEPT ![c] = runs + 1]
      /\ currentSeq' = runs + 1 /\ currentCtx' = x
      /\ ctxOf' = [ctxOf EXCEPT ![runs + 1] = x]
      /\ pc' = [pc EXCEPT ![c] = "spawn"]
  BY DEF Accept, Goto
<1>2. runs' \in Runs /\ runs' \in 0..MaxRuns /\ 0..runs \subseteq 0..runs'
  BY <1>1, Types DEF Runs
<1>3. /\ run' \in [Controllers -> 0..runs'] /\ run'[c] = runs'
      /\ target' \in [Controllers -> 0..runs']
      /\ ctxOf' \in [Runs -> Contexts \cup {"none"}] /\ ctxOf'[runs'] = x
      /\ pc' \in [Controllers -> Locations]
  <2>1. runs + 1 \in 0..runs'
    BY <1>1, <1>2, Types
  <2>2. run' \in [Controllers -> 0..runs'] /\ run'[c] = runs'
    BY <1>1, <1>2, <2>1, Types
  <2>3. target' \in [Controllers -> 0..runs']
    BY <1>2, Types
  <2>4. ctxOf' \in [Runs -> Contexts \cup {"none"}] /\ ctxOf'[runs'] = x
    BY <1>1, <1>2, Types
  <2>5. pc' \in [Controllers -> Locations]
    BY <1>1, Types DEF Locations
  <2>. QED BY <2>2, <2>3, <2>4, <2>5
<1>4. running' \in BOOLEAN
  BY <1>1
<1>5. TypeOK'
  BY <1>1, <1>2, <1>3, <1>4, Types DEF TypeOK
<1>6. \A r \in Runs : ~Live(r) /\ ~Telling(r) /\ worker[r] # "new"
  BY NobodyLive
<1>7. Threads'
  BY <1>6 DEF Threads, Live
<1>8. \A d \in Controllers : d = c /\ pc'[d] = "spawn"
  BY <1>1, Types DEF OneController
<1>9. Flagged' /\ Callers' /\ Gone'
  BY <1>1, <1>2, <1>3, <1>8 DEF Flagged, Callers, Gone
<1>10. notices = <<>> \/ (Newest.status # "started" /\ Newest.seq <= runs)
  BY <1>6, Types DEF Told
<1>11. notices # <<>> => Newest.seq \in Nat
  BY NewestTyped
<1>12. notices = <<>> \/ Newest.seq < runs'
  BY <1>1, <1>10, <1>11, Types
<1>13. Newest' = Newest /\ notices' = notices
  BY DEF Newest
<1>14. Told'
  BY <1>6, <1>10, <1>11, <1>12, <1>13, <1>2 DEF Told, Telling
<1>15. NoticesInOrder'
  BY Types DEF NoticesInOrder
<1>. QED BY <1>5, <1>7, <1>9, <1>14, <1>15, Types DEF IInv

\* Start.
LEMMA StartKeeps ==
  ASSUME IInv, OneController, NEW c \in Controllers,
         StartCheck(c) \/ Relock(c) \/ Spawn(c) \/ SpawnFails(c)
  PROVE  IInv'
<1>1. CASE StartCheck(c) /\ thread = 0
  <2>1. PICK x \in Contexts : Accept(c, x)
    BY <1>1 DEF StartCheck
  <2>2. call' \in [Controllers -> Calls] /\ ~destroyed
    BY <1>1, Types DEF StartCheck, Free, Calls
  <2>. QED BY <1>1, <2>1, <2>2, AcceptKeeps DEF StartCheck
<1>2. CASE Relock(c)
  <2>1. PICK x \in Contexts : Accept(c, x)
    BY <1>2 DEF Relock
  <2>2. thread = 0 /\ ~destroyed
    BY <1>2, Types DEF Relock, Callers, Gone
  <2>3. call' \in [Controllers -> Calls]
    BY <1>2, Types DEF Relock
  <2>. QED BY <1>2, <2>1, <2>2, <2>3, AcceptKeeps DEF Relock
<1>3. CASE StartCheck(c) /\ thread # 0
  <2>1. /\ UNCHANGED <<running, currentSeq, currentCtx, runs, ctxOf, run, thread, stop,
                       notices, worker, target, terminated, destroyed, asked>>
        /\ call' = [call EXCEPT ![c] = "start"] /\ pc' = [pc EXCEPT ![c] = "join"]
        /\ ~destroyed
    BY <1>3 DEF StartCheck, starts, Goto, Free
  <2>2. /\ pc' \in [Controllers -> Locations] /\ call' \in [Controllers -> Calls]
        /\ \A d \in Controllers : pc'[d] = "join"
    BY <2>1, Types DEF Locations, Calls, OneController
  <2>3. TypeOK'
    BY <2>1, <2>2, Types DEF TypeOK
  <2>4. Threads' /\ Callers' /\ Gone'
    BY <1>3, <2>1, <2>2, Types DEF Threads, Live, Callers, Gone
  <2>6. Flagged'
    BY <1>3, <2>1 DEF Flagged, StartCheck
  <2>5. Told' /\ NoticesInOrder'
    BY <2>1, <2>2, Types DEF Told, Telling, Newest, NoticesInOrder
  <2>. QED BY <2>1, <2>3, <2>4, <2>5, <2>6, Types DEF IInv
<1>4. CASE Spawn(c)
  <2>1. /\ pc[c] = "spawn" /\ pc' = [pc EXCEPT ![c] = "idle"]
        /\ worker' = [worker EXCEPT ![run[c]] = "new"]
        /\ terminated' = (thread # 0) /\ thread' = run[c]
        /\ UNCHANGED <<running, currentSeq, currentCtx, stop, notices, runs, ctxOf, run,
                       call, target, destroyed, asked>>
    BY <1>4 DEF Spawn, starts, Goto
  <2>2. /\ thread = 0 /\ run[c] = runs /\ runs \in Runs /\ running
        /\ currentSeq = runs /\ currentCtx = ctxOf[runs] /\ ~destroyed
    BY <2>1, Types DEF Callers, Gone
  <2>3. terminated' = FALSE
    BY <2>1, <2>2
  <2>4. /\ pc' \in [Controllers -> Locations]
        /\ \A d \in Controllers : pc'[d] = "idle"
    BY <2>1, Types DEF Locations, OneController
  <2>5. /\ worker' \in [Runs -> WorkerLocations] /\ worker'[runs] = "new"
        /\ \A r \in Runs : r # runs => worker'[r] = worker[r]
    BY <2>1, <2>2, Types DEF WorkerLocations
  <2>6. terminated' \in BOOLEAN /\ thread' \in 0..runs'
    BY <2>1, <2>2, <2>3, Types DEF Runs
  <2>7. TypeOK'
    BY <2>1, <2>4, <2>5, <2>6, Types DEF TypeOK
  <2>8. \A r \in Runs : ~Live(r) /\ ~Telling(r) /\ worker[r] # "new"
    BY <2>2, NobodyLive
  <2>9. \A r \in Runs : Live(r)' => r = runs
    BY <2>5, <2>8 DEF Live
  <2>10. Threads' /\ Flagged' /\ Callers' /\ Gone'
    BY <2>1, <2>2, <2>4, <2>5, <2>9 DEF Threads, Flagged, Live, Callers, Gone
  <2>11. notices' = notices /\ Newest' = Newest /\ runs' = runs
    BY <2>1 DEF Newest
  <2>12. \A r \in Runs : ~Telling(r)'
    BY <2>5, <2>8 DEF Telling
  <2>13. Told'
    BY <2>1, <2>8, <2>11, <2>12, Types DEF Told
  <2>14. NoticesInOrder'
    BY <2>1, Types DEF NoticesInOrder
  <2>. QED BY <2>3, <2>7, <2>10, <2>13, <2>14 DEF IInv
<1>5. CASE SpawnFails(c)
  <2>1. /\ pc[c] = "spawn" /\ pc' = [pc EXCEPT ![c] = "idle"]
        /\ running' = FALSE /\ currentSeq' = 0 /\ currentCtx' = "none"
        /\ UNCHANGED <<thread, stop, notices, runs, ctxOf, run, worker, call, target,
                       terminated, destroyed, asked>>
    BY <1>5 DEF SpawnFails, starts, Goto
  <2>2. thread = 0
    BY <2>1, Types DEF Callers
  <2>3. /\ pc' \in [Controllers -> Locations]
        /\ \A d \in Controllers : pc'[d] = "idle"
    BY <2>1, Types DEF Locations, OneController
  <2>4. running' \in BOOLEAN
    BY <2>1
  <2>5. TypeOK'
    BY <2>1, <2>3, <2>4, Types DEF TypeOK
  <2>6. \A r \in Runs : ~Live(r) /\ ~Telling(r) /\ worker[r] # "new"
    BY <2>2, NobodyLive
  <2>7. Threads' /\ Flagged' /\ Callers' /\ Gone'
    BY <2>1, <2>2, <2>3, <2>6 DEF Threads, Flagged, Live, Callers, Gone
  <2>8. Told' /\ NoticesInOrder'
    BY <2>1, <2>3, <2>6, Types DEF Told, Telling, Newest, NoticesInOrder
  <2>. QED BY <2>1, <2>5, <2>7, <2>8, Types DEF IInv
<1>6. thread = 0 \/ thread # 0
  OBVIOUS
<1>. QED BY <1>1, <1>2, <1>3, <1>4, <1>5, <1>6

\* The body of Stop changes the stop flags and the history of them only.
LEMMA StopTyped ==
  ASSUME IInv, StopCurrent \/ UNCHANGED <<stop, asked>>
  PROVE  stop' \in [Contexts -> BOOLEAN] /\ asked' \subseteq Runs
<1>1. stop \in [Contexts -> BOOLEAN] /\ asked \subseteq Runs
  BY Types DEF TypeOK
<1>2. running => currentSeq \in Runs
  BY Types DEF Flagged
<1>. QED BY <1>1, <1>2 DEF StopCurrent, AskedNow

\* WaitForCompletion, Abort and the destructor keep the invariant: their join does
\* not throw, and when it returns the thread has ended.
LEMMA WaitKeeps ==
  ASSUME IInv, OneController, NEW c \in Controllers,
         Wait(c) \/ PollEnds(c) \/ Destroy(c) \/ BeginJoin(c) \/ EndJoin(c)
  PROVE  IInv'
<1>1. UNCHANGED <<running, currentSeq, currentCtx, notices, runs, ctxOf, run, worker,
                  terminated, destroyed>>
  BY DEF Wait, PollEnds, Destroy, BeginJoin, EndJoin, shared, starts
<1>2. stop' \in [Contexts -> BOOLEAN] /\ asked' \subseteq Runs
  <2>1. StopCurrent \/ UNCHANGED <<stop, asked>>
    BY DEF Wait, PollEnds, Destroy, BeginJoin, EndJoin, shared
  <2>. QED BY <2>1, StopTyped
<1>3. PICK location \in {"idle", "poll", "join", "joining", "relock", "reset"} :
        /\ pc' = [pc EXCEPT ![c] = location]
        /\ location \in {"relock", "reset"} => thread' = 0
        /\ location \in {"join", "joining"} => thread' # 0
        /\ location = "joining" => target'[c] = thread'
  <2>1. CASE Wait(c)
    BY <2>1 DEF Wait, Goto
  <2>2. CASE PollEnds(c)
    BY <2>2 DEF PollEnds, Goto, shared
  <2>3. CASE Destroy(c)
    BY <2>3 DEF Destroy, Goto
  <2>4. CASE BeginJoin(c)
    <3>1. thread # 0 /\ thread' = thread /\ pc' = [pc EXCEPT ![c] = "joining"]
      BY <2>4, Types DEF BeginJoin, Callers, Goto, shared
    <3>2. target'[c] = thread
      BY <2>4, Types DEF BeginJoin
    <3>. QED BY <3>1, <3>2
  <2>5. CASE EndJoin(c)
    <3>1. thread' = 0 /\ pc' = [pc EXCEPT ![c] = AfterJoin(c)]
      BY <2>5, Types DEF EndJoin, Callers, Goto
    <3>. QED BY <3>1 DEF AfterJoin
  <2>. QED BY <2>1, <2>2, <2>3, <2>4, <2>5
<1>4. /\ pc' \in [Controllers -> Locations]
      /\ \A d \in Controllers : d = c /\ pc'[d] = location
  BY <1>3, Types DEF Locations, OneController
<1>5. pc[c] # "spawn" /\ ~destroyed
  BY Types DEF Wait, PollEnds, Destroy, BeginJoin, EndJoin, Free, Gone
<1>6. call' \in [Controllers -> Calls]
  BY Types DEF Wait, PollEnds, Destroy, BeginJoin, EndJoin, Calls
<1>7. target' \in [Controllers -> 0..runs]
  BY Types DEF Wait, PollEnds, Destroy, BeginJoin, EndJoin
<1>8. /\ thread' \in 0..runs
      /\ thread' = thread \/ (\A r \in Runs : ~Live(r))
  <2>1. CASE thread' = thread
    BY <2>1, Types
  <2>2. CASE thread' # thread
    <3>1. EndJoin(c)
      BY <2>2 DEF Wait, PollEnds, Destroy, BeginJoin, shared
    <3>2. thread' = 0 /\ worker[thread] = "done"
      BY <3>1, Types DEF EndJoin, Callers
    <3>3. \A r \in Runs : ~Live(r)
      BY <3>2, Types DEF Threads, Live
    <3>. QED BY <3>2, <3>3, Types
  <2>. QED BY <2>1, <2>2
<1>9. TypeOK'
  BY <1>1, <1>2, <1>4, <1>6, <1>7, <1>8, Types DEF TypeOK
<1>10. Threads'
  BY <1>1, <1>8, Types DEF Threads, Live
<1>11. Flagged'
  <2>1. \A d \in Controllers : pc[d] # "spawn"
    BY <1>4, <1>5
  <2>. QED BY <1>1, <2>1, Types DEF Flagged, Live
<1>12. Callers' /\ Gone'
  BY <1>1, <1>3, <1>4, <1>5 DEF Callers, Gone
<1>13. Told' /\ NoticesInOrder'
  BY <1>1, <1>4, Types DEF Told, Telling, Newest, NoticesInOrder
<1>. QED BY <1>1, <1>9, <1>10, <1>11, <1>12, <1>13, Types DEF IInv

\* So does giving the sequence back: no thread is left to use it.
LEMMA ResetKeeps ==
  ASSUME IInv, OneController, NEW c \in Controllers, Reset(c)
  PROVE  IInv'
<1>1. /\ pc[c] = "reset" /\ pc' = [pc EXCEPT ![c] = "idle"]
      /\ currentSeq' = 0 /\ currentCtx' = "none"
      /\ running' = IF call[c] = "destroy" THEN running ELSE FALSE
      /\ destroyed' = (call[c] = "destroy")
      /\ UNCHANGED <<thread, stop, notices, runs, ctxOf, run, worker, call, target,
                     terminated, asked>>
  BY DEF Reset, starts, Goto
<1>2. thread = 0
  BY <1>1, Types DEF Callers
<1>3. \A d \in Controllers : d = c
  BY DEF OneController
<1>4. \A r \in Runs : ~Live(r) /\ ~Telling(r) /\ worker[r] # "new"
  BY <1>2, NobodyLive
<1>5. ~running
  BY <1>1, <1>3, <1>4, Types DEF Flagged
<1>6. ~running'
  BY <1>1, <1>5
<1>7. running' \in BOOLEAN /\ destroyed' \in BOOLEAN
  <2>1. running \in BOOLEAN
    BY Types DEF TypeOK
  <2>2. running' = running \/ running' = FALSE
    BY <1>1
  <2>3. running' \in BOOLEAN
    BY <2>1, <2>2
  <2>4. destroyed' \in BOOLEAN
    BY <1>1
  <2>. QED BY <2>3, <2>4
<1>8. /\ pc' \in [Controllers -> Locations]
      /\ \A d \in Controllers : pc'[d] = "idle"
  BY <1>1, <1>3, Types DEF Locations
<1>9. TypeOK'
  <2>1. /\ currentSeq' \in 0..runs /\ currentCtx' \in Contexts \cup {"none"}
        /\ UNCHANGED <<thread, stop, notices, runs, ctxOf, run, worker, call, target,
                       terminated, asked>>
    BY <1>1, Types
  <2>. QED BY <2>1, <1>7, <1>8, Types DEF TypeOK
<1>10. Threads' /\ Flagged'
  BY <1>1, <1>4, <1>6 DEF Threads, Flagged, Live
<1>11. Callers' /\ Gone'
  BY <1>1, <1>2, <1>8 DEF Callers, Gone
<1>12. Told' /\ NoticesInOrder'
  BY <1>1, <1>4, <1>8, Types DEF Told, Telling, Newest, NoticesInOrder
<1>. QED BY <1>1, <1>9, <1>10, <1>11, <1>12, Types DEF IInv

\* And Stop itself, and a step that changes nothing.
LEMMA StopKeeps ==
  ASSUME IInv, Stop \/ UNCHANGED vars
  PROVE  IInv'
<1>1. /\ UNCHANGED <<running, thread, currentSeq, currentCtx, notices, runs, ctxOf, run,
                     worker, pc, call, target, terminated, destroyed>>
      /\ StopCurrent \/ UNCHANGED <<stop, asked>>
  BY DEF Stop, starts, vars, shared
<1>2. stop' \in [Contexts -> BOOLEAN] /\ asked' \subseteq Runs
  BY <1>1, StopTyped
<1>3. TypeOK'
  BY <1>1, <1>2, Types DEF TypeOK
<1>4. Threads' /\ Flagged' /\ Callers' /\ Gone'
  BY <1>1, Types DEF Threads, Flagged, Live, Callers, Gone
<1>5. Told' /\ NoticesInOrder'
  BY <1>1, Types DEF Told, Telling, Newest, NoticesInOrder
<1>. QED BY <1>1, <1>3, <1>4, <1>5, Types DEF IInv

-----------------------------------------------------------------------------
(* The sequence thread. *)

\* A thread that goes on finds its sequence and context; a notice it sends is
\* appended to those before.
LEMMA ThreadKeeps ==
  ASSUME IInv, NEW r \in Runs, SequenceThread(r)
  PROVE  IInv'
<1>1. /\ UNCHANGED <<thread, currentSeq, currentCtx, stop, runs, ctxOf, run, pc, call,
                     target, terminated, destroyed, asked>>
      /\ Live(r)
  BY DEF SequenceThread, SendStarted, ExecuteEnds, SendEnded, ClearRunning, starts, shared,
         Live
<1>2. /\ thread = r /\ r = runs /\ running
      /\ currentSeq = r /\ currentCtx = ctxOf[r] /\ r # 0
      /\ \A s \in Runs : s # r => ~Live(s)
  BY <1>1, Types DEF Threads, Runs
<1>3. \A s \in Runs : s # r => ~Telling(s) /\ worker[s] # "new"
  BY <1>2 DEF Live, Telling
<1>4. PICK location \in {"execute", "completed", "aborted", "clear", "done"} :
        /\ worker' = [worker EXCEPT ![r] = location]
        /\ location # "done" => running' = running
        /\ location = "done" => running' = FALSE
  BY DEF SequenceThread, SendStarted, ExecuteEnds, SendEnded, ClearRunning, Proceed, shared
<1>5. /\ worker' \in [Runs -> WorkerLocations] /\ worker'[r] = location
      /\ \A s \in Runs : s # r => worker'[s] = worker[s]
  BY <1>4, Types DEF WorkerLocations
<1>6. running' \in BOOLEAN
  <2>1. running \in BOOLEAN
    BY Types DEF TypeOK
  <2>2. running' = running \/ running' = FALSE
    BY <1>4
  <2>. QED BY <2>1, <2>2
<1>7. \A c \in Controllers : pc[c] # "spawn"
  BY <1>2, Types DEF Callers
<1>8. Threads' /\ Flagged' /\ Callers' /\ Gone'
  <2>1. \A s \in Runs : Live(s)' => s = r /\ location # "done"
    BY <1>2, <1>5 DEF Live
  <2>2. Threads'
    BY <1>1, <1>2, <1>4, <2>1, Types DEF Threads
  <2>3. location # "done" => Live(r)'
    BY <1>5 DEF Live
  <2>4. Flagged'
    BY <1>1, <1>2, <1>4, <2>3 DEF Flagged
  <2>5. Callers' /\ Gone'
    BY <1>1, <1>7, Types DEF Callers, Gone
  <2>. QED BY <2>2, <2>4, <2>5
<1>. DEFINE Notice == [seq : Runs, status : {"started", "completed", "aborted"}]
<1>9. notices \in Seq(Notice)
  BY Types DEF TypeOK
<1>. HIDE DEF Notice
<1>10. ASSUME notices' \in Seq(Notice) PROVE TypeOK'
  BY <1>1, <1>5, <1>6, <1>10, Types DEF TypeOK, Notice
<1>11. CASE ExecuteEnds(r) \/ ClearRunning(r)
  <2>1. /\ notices' = notices
        /\ worker[r] # "new" /\ worker'[r] # "new"
        /\ Telling(r)' <=> Telling(r)
    <3>1. CASE ExecuteEnds(r)
      <4>1. \E ending \in {"completed", "aborted"} : worker'[r] = ending
        BY <3>1, Types DEF ExecuteEnds, Proceed
      <4>. QED BY <3>1, <4>1 DEF ExecuteEnds, Telling, shared
    <3>2. CASE ClearRunning(r)
      <4>1. worker'[r] = "done"
        BY <3>2, Types DEF ClearRunning, Proceed
      <4>. QED BY <3>2, <4>1 DEF ClearRunning, Telling
    <3>. QED BY <1>11, <3>1, <3>2
  <2>2. \A s \in Runs : /\ Telling(s)' <=> Telling(s)
                        /\ worker'[s] = "new" <=> worker[s] = "new"
    BY <1>5, <2>1 DEF Telling
  <2>3. Newest' = Newest
    BY <2>1 DEF Newest
  <2>4. Told'
    <3>1. notices' = notices /\ runs' = runs /\ pc' = pc
      BY <1>1, <2>1
    <3>2. \A s \in Runs : worker'[s] = "new" <=> worker[s] = "new"
      BY <2>2
    <3>3. \A s \in Runs : Telling(s)' <=> Telling(s)
      BY <2>2
    <3>. QED BY <2>3, <3>1, <3>2, <3>3, Types DEF Told
  <2>5. NoticesInOrder'
    BY <2>1, Types DEF NoticesInOrder
  <2>. QED BY <1>1, <1>8, <1>9, <1>10, <2>1, <2>4, <2>5, Types DEF IInv
<1>12. CASE SendStarted(r) \/ SendEnded(r)
  <2>1. PICK status \in {"started", "completed", "aborted"} :
          /\ notices' = Append(notices, [seq |-> r, status |-> status])
          /\ status = "started" <=> worker[r] = "new"
          /\ worker[r] # "new" => Telling(r)
          /\ location = IF status = "started" THEN "execute" ELSE "clear"
    <3>1. CASE SendStarted(r)
      <4>1. worker'[r] = "execute" /\ worker[r] = "new"
        BY <3>1, Types DEF SendStarted, Proceed
      <4>2. notices' = Append(notices, [seq |-> r, status |-> "started"])
        BY <1>2, <3>1 DEF SendStarted, Notify
      <4>. QED BY <1>5, <4>1, <4>2
    <3>2. CASE SendEnded(r)
      <4>1. worker'[r] = "clear" /\ worker[r] \in {"completed", "aborted"}
        BY <3>2, Types DEF SendEnded, Proceed
      <4>2. notices' = Append(notices, [seq |-> r, status |-> worker[r]])
        BY <1>2, <3>2 DEF SendEnded, Notify
      <4>. QED BY <1>5, <4>1, <4>2 DEF Telling
    <3>. QED BY <1>12, <3>1, <3>2
  <2>. DEFINE notice == [seq |-> r, status |-> status]
              n == Len(notices)
  <2>2. notice \in Notice
    BY DEF Notice
  <2>3. /\ notices' \in Seq(Notice) /\ n \in Nat /\ Len(notices') = n + 1
        /\ \A i \in 1..n : notices'[i] = notices[i]
        /\ notices'[n + 1] = notice
    BY <1>9, <2>1, <2>2, AppendProperties, LenProperties
  <2>4. Newest'.seq = r /\ Newest'.status = status /\ notices' # <<>>
    <3>1. Newest' = notice
      BY <2>3 DEF Newest
    <3>2. notices' # <<>>
      BY <2>3
    <3>. QED BY <3>1, <3>2
  <2>5. Told'
    <3>1. Telling(r)' <=> status = "started"
      BY <1>5, <2>1 DEF Telling
    <3>2. \A s \in Runs : s # r => ~Telling(s)' /\ worker'[s] # "new"
      BY <1>3, <1>5 DEF Telling
    <3>3. worker'[r] # "new"
      BY <1>5, <2>1
    <3>4. Newest'.seq <= runs'
      BY <1>1, <1>2, <2>4, Types
    <3>. QED BY <1>1, <1>7, <2>4, <3>1, <3>2, <3>3, <3>4 DEF Told
  <2>6. notices # <<>> =>
          IF Newest.status = "started" THEN status # "started" /\ r = Newest.seq
          ELSE status = "started" /\ r > Newest.seq
    <3>1. CASE status = "started"
      <4>1. \A s \in Runs : ~Telling(s)
        BY <1>3, <2>1, <3>1 DEF Telling
      <4>2. notices # <<>> => Newest.status # "started" /\ Newest.seq < runs
        BY <2>1, <3>1, <4>1, Types DEF Told
      <4>. QED BY <1>2, <3>1, <4>2, NewestTyped, Types
    <3>2. CASE status # "started"
      <4>1. notices # <<>> => Newest.status = "started" /\ Newest.seq = r
        BY <2>1, <3>2, Types DEF Told
      <4>. QED BY <3>2, <4>1
    <3>. QED BY <3>1, <3>2
  <2>7. NoticesInOrder'
    <3> SUFFICES ASSUME NEW i \in 1..n
                 PROVE  IF notices'[i].status = "started"
                        THEN /\ notices'[i + 1].status # "started"
                             /\ notices'[i + 1].seq = notices'[i].seq
                        ELSE /\ notices'[i + 1].status = "started"
                             /\ notices'[i + 1].seq > notices'[i].seq
      BY <2>3 DEF NoticesInOrder
    <3>1. CASE i = n
      <4>1. notices'[i] = Newest /\ notices'[i + 1] = notice /\ notices # <<>>
        BY <2>3, <3>1 DEF Newest
      <4>. QED BY <2>6, <4>1
    <3>2. CASE i # n
      <4>1. i \in 1..(n - 1) /\ i + 1 \in 1..n
        BY <2>3, <3>2
      <4>. QED BY <2>3, <4>1, Types DEF NoticesInOrder
    <3>. QED BY <3>1, <3>2
  <2>. QED BY <1>1, <1>8, <1>10, <2>3, <2>5, <2>7, Types DEF IInv
<1>. QED BY <1>11, <1>12 DEF SequenceThread

-----------------------------------------------------------------------------
(* The theorems. *)

\* Every step keeps the invariant.
LEMMA NextKeeps == OneController /\ IInv /\ [Next]_vars => IInv'
<1> SUFFICES ASSUME OneController, IInv, [Next]_vars PROVE IInv'
  OBVIOUS
<1>1. ASSUME NEW c \in Controllers, Controller(c) PROVE IInv'
  BY <1>1, StartKeeps, WaitKeeps, ResetKeeps DEF Controller
<1>2. ASSUME NEW r \in Runs, SequenceThread(r) PROVE IInv'
  BY <1>2, ThreadKeeps
<1>. QED BY <1>1, <1>2, StopKeeps DEF Next

\* With one controlling thread every reachable state satisfies the invariant.
LEMMA Invariant == ASSUME OneController PROVE Spec => []IInv
<1>1. IInv /\ [Next]_vars => IInv'
  BY NextKeeps
<1>. QED BY InitIInv, <1>1, PTL DEF Spec

\* Every variable has its type: a context, a run or a notice is one that Start was
\* given.
THEOREM TypeCorrect == ASSUME OneController PROVE Spec => []TypeOK
<1>1. IInv => TypeOK
  BY DEF IInv
<1>. QED BY <1>1, Invariant, PTL

\* The runner owns the sequence and the context of a thread until the thread has
\* ended, and never assigns a thread to a joinable thread object: a Start joins
\* the thread before it, and nothing is given back before a join.
THEOREM SequenceIsKept == ASSUME OneController PROVE Spec => []SequenceOutlivesThread
<1>1. IInv => SequenceOutlivesThread
  BY DEF IInv, Threads, SequenceOutlivesThread
<1>. QED BY <1>1, Invariant, PTL

\* The sink hears of the runs one after the other, each with one ending.
THEOREM SinkHearsInOrder == ASSUME OneController PROVE Spec => []NoticesInOrder
<1>1. IInv => NoticesInOrder
  BY DEF IInv
<1>. QED BY <1>1, Invariant, PTL

\* After WaitForCompletion, Abort and the destructor it is quiet: no thread is left
\* and the newest notice is an ending.
THEOREM QuietWhenWaited == ASSUME OneController PROVE Spec => []QuietAfterWait
<1>1. IInv => QuietAfterWait
  <2> SUFFICES ASSUME IInv, (\E c \in Controllers : pc[c] = "reset") \/ destroyed
               PROVE  /\ \A r \in Runs : ~Live(r)
                      /\ notices # <<>> => Newest.status # "started"
    BY DEF QuietAfterWait, Newest
  <2>1. thread = 0
    BY Types DEF Callers, Gone
  <2>2. \A r \in Runs : ~Live(r) /\ ~Telling(r)
    BY <2>1, NobodyLive
  <2>. QED BY <2>2, Types DEF Told
<1>. QED BY <1>1, Invariant, PTL
=============================================================================
