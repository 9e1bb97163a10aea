------------------------ MODULE AsyncSequenceRunner ------------------------
(***************************************************************************)
(* AsyncSequenceRunner: one thread object that runs one sequence at a      *)
(* time, driven by the threads that call Start, WaitForCompletion, Abort   *)
(* and the destructor, with Stop callable from anywhere.                   *)
(*                                                                         *)
(* A step is a critical section of Impl::mutex or an access made without   *)
(* it: the join of the thread object, the creation of the thread and the   *)
(* worker's use of currentSeq are all outside the mutex.  The sequence is  *)
(* abstract: Execute returns or throws; VatSequence is the module that     *)
(* shows a stop request to end it.                                         *)
(***************************************************************************)
EXTENDS Naturals, Sequences

CONSTANTS
  Controllers,   \* threads that call Start, WaitForCompletion, Abort
  Contexts,      \* VAT_Context objects handed to Start; one may be reused
  MaxRuns        \* bound: how many Starts pass the running check

ASSUME MaxRunsAssumption == MaxRuns \in Nat

VARIABLES
  running,     \* the atomic flag
  thread,      \* the run whose thread the thread object holds, 0 if not joinable
  currentSeq,  \* the run whose sequence the runner owns, 0 for nullptr
  currentCtx,  \* the context of that run, "none" for nullptr
  stop,        \* the stop flag of each context
  runs,        \* how many runs have been numbered
  ctxOf,       \* the context that SequenceThreadFunc of each run holds
  worker,      \* where the thread of each run is
  pc, call,    \* where each controller is, and in which member function
  run,         \* the run a controller is starting
  target,      \* the run whose thread a controller is joining
  terminated,  \* std::terminate: a joinable thread object was assigned to
  destroyed,   \* the runner is gone
  notices,     \* history: what the result sink was told, in order
  asked        \* history: the runs during which somebody called Stop

shared == <<running, thread, currentSeq, currentCtx, stop, notices>>
starts == <<runs, ctxOf, run>>
vars == <<shared, starts, worker, pc, call, target, terminated, destroyed, asked>>

Runs == 1..MaxRuns

WorkerLocations == {"none", "new", "execute", "completed", "aborted", "clear", "done"}

Calls == {"none", "start", "wait", "waitFor", "abort", "abortAgain", "destroy"}

Locations == {"idle", "poll", "join", "joining", "relock", "spawn", "reset"}

Init ==
  /\ running = FALSE
  /\ thread = 0
  /\ currentSeq = 0
  /\ currentCtx = "none"
  /\ stop = [x \in Contexts |-> FALSE]
  /\ runs = 0
  /\ ctxOf = [r \in Runs |-> "none"]
  /\ worker = [r \in Runs |-> "none"]
  /\ pc = [c \in Controllers |-> "idle"]
  /\ call = [c \in Controllers |-> "none"]
  /\ run = [c \in Controllers |-> 0]
  /\ target = [c \in Controllers |-> 0]
  /\ terminated = FALSE
  /\ destroyed = FALSE
  /\ notices = <<>>
  /\ asked = {}

\* Controller c may call a member function of the runner.
Free(c) == pc[c] = "idle" /\ ~destroyed /\ \A d \in Controllers : call[d] # "destroy"

Goto(c, location) == pc' = [pc EXCEPT ![c] = location]

\* The locked section of Start: the run is accepted before its thread exists.
Accept(c, x) ==
  /\ running' = TRUE
  /\ runs' = runs + 1
  /\ run' = [run EXCEPT ![c] = runs + 1]
  /\ currentSeq' = runs + 1
  /\ ctxOf' = [ctxOf EXCEPT ![runs + 1] = x]
  /\ currentCtx' = x

AskedNow == asked' = IF running THEN asked \cup {currentSeq} ELSE asked

\* Mutant of StopCurrent: a run is stopped only once its thread exists.
StopJoinable ==
  /\ stop' = IF thread # 0 /\ currentCtx # "none"
             THEN [stop EXCEPT ![currentCtx] = TRUE] ELSE stop
  /\ AskedNow

\* The body of Stop, under the mutex.
StopCurrent ==
  /\ stop' = IF running /\ currentCtx # "none"
             THEN [stop EXCEPT ![currentCtx] = TRUE] ELSE stop
  /\ AskedNow

-----------------------------------------------------------------------------
(* Start. *)

\* Mutant of StartCheck: a finished thread is not joined before the next.
StartUnjoined(c) ==
  /\ Free(c) /\ runs < MaxRuns /\ ~running
  /\ call' = [call EXCEPT ![c] = "start"]
  /\ \E x \in Contexts : Accept(c, x)
  /\ Goto(c, "spawn")
  /\ UNCHANGED <<thread, stop, notices, worker, target, terminated, destroyed, asked>>

\* The check of running; a leftover thread is joined with the mutex released.
\* A Start that finds running set returns false and changes nothing.
StartCheck(c) ==
  /\ Free(c) /\ runs < MaxRuns /\ ~running
  /\ call' = [call EXCEPT ![c] = "start"]
  /\ \/ /\ thread = 0
        /\ \E x \in Contexts : Accept(c, x)
        /\ Goto(c, "spawn")
     \/ /\ thread # 0
        /\ Goto(c, "join")
        /\ UNCHANGED <<running, currentSeq, currentCtx, starts>>
  /\ UNCHANGED <<thread, stop, notices, worker, target, terminated, destroyed, asked>>

\* Back under the mutex after the join: running is not looked at again.
Relock(c) ==
  /\ pc[c] = "relock" /\ runs < MaxRuns
  /\ \E x \in Contexts : Accept(c, x)
  /\ Goto(c, "spawn")
  /\ UNCHANGED <<thread, stop, notices, worker, call, target, terminated, destroyed, asked>>

\* The thread is created and then moved into the thread object, which must not
\* hold another one.
Spawn(c) ==
  /\ pc[c] = "spawn"
  /\ worker' = [worker EXCEPT ![run[c]] = "new"]
  /\ terminated' = (thread # 0)
  /\ thread' = run[c]
  /\ Goto(c, "idle")
  /\ UNCHANGED <<running, currentSeq, currentCtx, stop, notices, starts, call, target,
                 destroyed, asked>>

\* The creation throws: the start is rolled back and false returned.
SpawnFails(c) ==
  /\ pc[c] = "spawn"
  /\ running' = FALSE
  /\ currentSeq' = 0
  /\ currentCtx' = "none"
  /\ Goto(c, "idle")
  /\ UNCHANGED <<thread, stop, notices, starts, worker, call, target, terminated,
                 destroyed, asked>>

-----------------------------------------------------------------------------
(* Stop, WaitForCompletion, Abort and the destructor. *)

Stop ==
  /\ ~destroyed
  /\ StopCurrent
  /\ UNCHANGED <<running, thread, currentSeq, currentCtx, notices, starts, worker, pc,
                 call, target, terminated, destroyed>>

\* Mutant of Wait: Abort does not stop what it waits for.
WaitOnly(c) ==
  /\ Free(c)
  /\ \E op \in {"wait", "waitFor", "abort"} : call' = [call EXCEPT ![c] = op]
  /\ UNCHANGED <<stop, asked>>
  /\ Goto(c, "poll")
  /\ UNCHANGED <<running, thread, currentSeq, currentCtx, notices, starts, worker,
                 target, terminated, destroyed>>

\* WaitForCompletion without and with a timeout, and Abort, which stops first.
Wait(c) ==
  /\ Free(c)
  /\ \E op \in {"wait", "waitFor", "abort"} :
       /\ call' = [call EXCEPT ![c] = op]
       /\ IF op = "abort" THEN StopCurrent ELSE UNCHANGED <<stop, asked>>
  /\ Goto(c, "poll")
  /\ UNCHANGED <<running, thread, currentSeq, currentCtx, notices, starts, worker,
                 target, terminated, destroyed>>

\* Mutant of PollEnds: a timeout ends the wait without a join.
HonourTimeout(c) ==
  /\ pc[c] = "poll"
  /\ ~running \/ call[c] # "wait"
  /\ Goto(c, IF thread = 0 \/ running THEN "reset" ELSE "join")
  /\ UNCHANGED <<shared, starts, worker, call, target, terminated, destroyed, asked>>

\* The polling ends with the run or, given a timeout, at any time; then comes
\* the join, in either case and without a timeout.
PollEnds(c) ==
  /\ pc[c] = "poll"
  /\ ~running \/ call[c] # "wait"
  /\ Goto(c, IF thread = 0 THEN "reset" ELSE "join")
  /\ UNCHANGED <<shared, starts, worker, call, target, terminated, destroyed, asked>>

\* The destructor; the owner calls it when no other call is under way.
Destroy(c) ==
  /\ \A d \in Controllers : Free(d)
  /\ StopCurrent
  /\ call' = [call EXCEPT ![c] = "destroy"]
  /\ Goto(c, IF thread = 0 THEN "reset" ELSE "join")
  /\ UNCHANGED <<running, thread, currentSeq, currentCtx, notices, starts, worker,
                 target, terminated, destroyed>>

\* Where a controller goes when its join has thrown.  Start does not catch it;
\* WaitForCompletion reports it and returns false; Abort then tries once more.
AfterThrow(c) ==
  CASE call[c] = "destroy" -> "reset"
    [] call[c] = "abort" /\ thread # 0 -> "join"
    [] OTHER -> "idle"

AfterJoin(c) ==
  CASE call[c] = "start" -> "relock"
    [] call[c] = "abortAgain" -> "idle"
    [] OTHER -> "reset"

\* join() on the thread object: it throws if another controller has joined it.
BeginJoin(c) ==
  /\ pc[c] = "join"
  /\ target' = [target EXCEPT ![c] = thread]
  /\ Goto(c, IF thread = 0 THEN AfterThrow(c) ELSE "joining")
  /\ UNCHANGED <<shared, starts, worker, call, terminated, destroyed, asked>>

\* Mutant of EndJoin: detach.
Detach(c) ==
  /\ pc[c] = "joining"
  /\ thread' = 0
  /\ Goto(c, AfterJoin(c))
  /\ UNCHANGED <<running, currentSeq, currentCtx, stop, notices, starts, worker, call,
                 target, terminated, destroyed, asked>>

\* It returns when the thread it waits for has ended.  Two joins of one thread
\* are a data race: the later one may return or throw.
EndJoin(c) ==
  /\ pc[c] = "joining"
  /\ worker[target[c]] = "done"
  /\ \E threw \in IF thread = target[c] THEN {FALSE} ELSE BOOLEAN :
       /\ thread' = IF threw THEN thread ELSE 0
       /\ Goto(c, IF threw THEN AfterThrow(c) ELSE AfterJoin(c))
       /\ call' = IF threw /\ call[c] = "abort"
                  THEN [call EXCEPT ![c] = "abortAgain"] ELSE call
  /\ UNCHANGED <<running, currentSeq, currentCtx, stop, notices, starts, worker, target,
                 terminated, destroyed, asked>>

\* The end of WaitForCompletion, of Abort and of the destructor.
Reset(c) ==
  /\ pc[c] = "reset"
  /\ currentSeq' = 0
  /\ currentCtx' = "none"
  /\ running' = IF call[c] = "destroy" THEN running ELSE FALSE
  /\ destroyed' = (call[c] = "destroy")
  /\ Goto(c, "idle")
  /\ UNCHANGED <<thread, stop, notices, starts, worker, call, target, terminated, asked>>

-----------------------------------------------------------------------------
(* The thread of run r, SequenceThreadFunc. *)

\* Mutant of Notify: the wrong member is named.
NotifyContext(status) ==
  notices' = IF currentSeq = 0 THEN notices
             ELSE Append(notices, [seq |-> currentCtx, status |-> status])

\* SendResult names whatever sequence the runner owns, and says nothing if none.
Notify(status) ==
  notices' = IF currentSeq = 0 THEN notices
             ELSE Append(notices, [seq |-> currentSeq, status |-> status])

Proceed(r, location) == worker' = [worker EXCEPT ![r] = location]

SendStarted(r) ==
  /\ worker[r] = "new"
  /\ Notify("started")
  /\ Proceed(r, "execute")
  /\ UNCHANGED <<running, thread, currentSeq, currentCtx, stop, starts, pc, call, target,
                 terminated, destroyed, asked>>

\* Mutant of ExecuteEnds: catch (...) {}
CatchQuietly(r) ==
  /\ worker[r] = "execute"
  /\ \E ending \in {"completed", "clear"} : Proceed(r, ending)
  /\ UNCHANGED <<shared, starts, pc, call, target, terminated, destroyed, asked>>

\* Execute ends, by itself or because it saw a stop request, with a result that
\* is ignored, or it throws.
ExecuteEnds(r) ==
  /\ worker[r] = "execute"
  /\ \E ending \in {"completed", "aborted"} : Proceed(r, ending)
  /\ UNCHANGED <<shared, starts, pc, call, target, terminated, destroyed, asked>>

SendEnded(r) ==
  /\ worker[r] \in {"completed", "aborted"}
  /\ Notify(worker[r])
  /\ Proceed(r, "clear")
  /\ UNCHANGED <<running, thread, currentSeq, currentCtx, stop, starts, pc, call, target,
                 terminated, destroyed, asked>>

ClearRunning(r) ==
  /\ worker[r] = "clear"
  /\ running' = FALSE
  /\ Proceed(r, "done")
  /\ UNCHANGED <<thread, currentSeq, currentCtx, stop, notices, starts, pc, call, target,
                 terminated, destroyed, asked>>

Controller(c) ==
  \/ StartCheck(c) \/ Relock(c) \/ Spawn(c) \/ SpawnFails(c)
  \/ Wait(c) \/ PollEnds(c) \/ Destroy(c)
  \/ BeginJoin(c) \/ EndJoin(c) \/ Reset(c)

SequenceThread(r) ==
  SendStarted(r) \/ ExecuteEnds(r) \/ SendEnded(r) \/ ClearRunning(r)

Next ==
  /\ ~terminated
  /\ \/ \E c \in Controllers : Controller(c)
     \/ Stop
     \/ \E r \in Runs : SequenceThread(r)

Spec == Init /\ [][Next]_vars

\* A call that was made goes on, and so does a sequence thread; but Execute is
\* sure to end only when its context has been told to stop.
FairSpec ==
  /\ Spec
  /\ \A c \in Controllers :
       WF_vars(/\ ~terminated
               /\ \/ Relock(c) \/ Spawn(c) \/ SpawnFails(c) \/ PollEnds(c)
                  \/ BeginJoin(c) \/ EndJoin(c) \/ Reset(c))
  /\ \A r \in Runs :
       WF_vars(/\ ~terminated
               /\ \/ SendStarted(r) \/ SendEnded(r) \/ ClearRunning(r)
                  \/ ctxOf[r] \in Contexts /\ stop[ctxOf[r]] /\ ExecuteEnds(r))

-----------------------------------------------------------------------------
(* Properties. *)

\* Run r has a thread that has not ended.
Live(r) == worker[r] \notin {"none", "done"}

\* The type invariant of the runner, its callers and its threads.
TypeOK ==
  /\ running \in BOOLEAN
  /\ thread \in 0..runs /\ currentSeq \in 0..runs
  /\ currentCtx \in Contexts \cup {"none"}
  /\ stop \in [Contexts -> BOOLEAN]
  /\ runs \in 0..MaxRuns
  /\ ctxOf \in [Runs -> Contexts \cup {"none"}]
  /\ worker \in [Runs -> WorkerLocations]
  /\ pc \in [Controllers -> Locations]
  /\ call \in [Controllers -> Calls]
  /\ run \in [Controllers -> 0..runs]
  /\ target \in [Controllers -> 0..runs]
  /\ terminated \in BOOLEAN
  /\ destroyed \in BOOLEAN
  /\ asked \subseteq Runs
  /\ notices \in Seq([seq : Runs, status : {"started", "completed", "aborted"}])

\* A thread that is still to use its sequence or its context finds them owned by
\* the runner.  So there is never more than one sequence thread, never two
\* sequences that move the same actuator, and the thread object is empty whenever
\* a thread is moved into it.  It takes a single controller: Relock does not look
\* at running again.
SequenceOutlivesThread ==
  /\ \A r \in Runs : Live(r) => currentSeq = r /\ currentCtx = ctxOf[r]
  /\ ~terminated

\* The sink hears of the runs one after the other: "started", then one ending
\* of the same run, before anything of the next.
NoticesInOrder ==
  \A i \in 1..(Len(notices) - 1) :
    IF notices[i].status = "started"
    THEN notices[i + 1].status # "started" /\ notices[i + 1].seq = notices[i].seq
    ELSE notices[i + 1].status = "started" /\ notices[i + 1].seq > notices[i].seq

\* When WaitForCompletion or Abort gives the sequence back, or the destructor
\* has returned, no thread is left, and every thread has told its ending.
QuietAfterWait ==
  (\E c \in Controllers : pc[c] = "reset") \/ destroyed =>
    /\ \A r \in Runs : ~Live(r)
    /\ notices # <<>> => notices[Len(notices)].status # "started"

\* A Stop during a run ends that run, whenever it comes: even between the
\* acceptance of the run and the creation of its thread.  And Abort and the
\* destructor, which stop the run and then wait for it, return.
StopEndsRun ==
  /\ \A r \in Runs :
       r \in asked ~> /\ ~Live(r)
                      /\ \A c \in Controllers : run[c] = r => pc[c] # "spawn"
  /\ \A c \in Controllers : call[c] \in {"abort", "destroy"} ~> pc[c] = "idle"
=============================================================================
