------------------------- MODULE VatEngineUiAdapter -------------------------
(***************************************************************************)
(* CVatEngineUiAdapter with the VatCorrectionEngine it owns: the UI starts *)
(* and stops sequences through it, and the sequence threads report to the  *)
(* UI through it.  All of that goes through one mutex, m_seqMutex.         *)
(*                                                                         *)
(* An engine is created for every start and owns a new runner, which runs  *)
(* one sequence; destroying the engine destroys the runner, which stops    *)
(* its sequence and joins its thread.  That thread posts "started" and an  *)
(* ending by PostVisionResult, which takes m_seqMutex.                     *)
(***************************************************************************)
EXTENDS Naturals, Sequences

CONSTANTS
  UIThreads,    \* the threads that start and stop sequences
  MaxEngines    \* bound: how many engines are created

ASSUME MaxEnginesAssumption == MaxEngines \in Nat
ASSUME UIThreadsAssumption == "none" \notin UIThreads

VARIABLES
  holder,       \* the thread that holds m_seqMutex across steps, or "none"
  m_pVatEngine, \* the engine, 0 for nullptr
  engines,      \* how many engines have been created
  stopped,      \* the engines whose context has been told to stop
  worker,       \* the sequence thread of each engine's runner
  pc,           \* where each UI thread is
  mine,         \* the engine a UI thread is getting rid of
  alive,        \* the adapter exists
  m_pOwner,     \* a window is registered to post to
  posted        \* history: what was posted to the UI, in order

vars == <<holder, m_pVatEngine, engines, stopped, worker, pc, mine, alive, m_pOwner,
          posted>>

Engines == 1..MaxEngines

Init ==
  /\ holder = "none"
  /\ m_pVatEngine = 0
  /\ engines = 0
  /\ stopped = {}
  /\ worker = [e \in Engines |-> "none"]
  /\ pc = [u \in UIThreads |-> "idle"]
  /\ mine = [u \in UIThreads |-> 0]
  /\ alive = TRUE
  /\ m_pOwner = FALSE
  /\ posted = <<>>

Goto(u, location) == pc' = [pc EXCEPT ![u] = location]

\* The engines whose sequence thread has not ended.
Running == {e \in Engines : worker[e] \notin {"none", "done"}}

MutexFree == holder = "none"

\* The window registers itself, in the course of its initialisation or later.
SetOwner(u) ==
  /\ pc[u] = "idle" /\ alive /\ MutexFree
  /\ m_pOwner' = TRUE
  /\ UNCHANGED <<holder, m_pVatEngine, engines, stopped, worker, pc, mine, alive, posted>>

-----------------------------------------------------------------------------
(* StartVatSequence, with m_seqMutex from beginning to end. *)

\* The lock; an engine that is still there is stopped before it is released.
StartVatSequence(u) ==
  /\ pc[u] = "idle" /\ alive /\ MutexFree
  /\ engines < MaxEngines
  /\ holder' = u
  /\ mine' = [mine EXCEPT ![u] = m_pVatEngine]
  /\ stopped' = stopped \cup ({m_pVatEngine} \ {0})
  /\ Goto(u, "replace")
  /\ UNCHANGED <<m_pVatEngine, engines, worker, alive, m_pOwner, posted>>

\* Mutant of ReleaseOld: the new sequence does not wait for the old one.
ReleaseUnjoined(u) ==
  /\ pc[u] = "replace"
  /\ m_pVatEngine' = 0
  /\ Goto(u, "create")
  /\ UNCHANGED <<holder, engines, stopped, worker, mine, alive, m_pOwner, posted>>

\* m_pVatEngine.reset() ends with the join of the old engine's thread.
ReleaseOld(u) ==
  /\ pc[u] = "replace"
  /\ mine[u] \notin Running
  /\ m_pVatEngine' = 0
  /\ Goto(u, "create")
  /\ UNCHANGED <<holder, engines, stopped, worker, mine, alive, m_pOwner, posted>>

\* The strategy's parts, the engine and its thread are created, and true is
\* returned with the new engine in place.
CreateEngine(u) ==
  /\ pc[u] = "create"
  /\ engines' = engines + 1
  /\ m_pVatEngine' = engines + 1
  /\ worker' = [worker EXCEPT ![engines + 1] = "started"]
  /\ holder' = "none"
  /\ Goto(u, "idle")
  /\ UNCHANGED <<stopped, mine, alive, m_pOwner, posted>>

\* A part is missing, a constructor throws or RunSequence answers false: no
\* engine is left and false is returned.
CreateFails(u) ==
  /\ pc[u] = "create"
  /\ holder' = "none"
  /\ Goto(u, "idle")
  /\ UNCHANGED <<m_pVatEngine, engines, stopped, worker, mine, alive, m_pOwner, posted>>

-----------------------------------------------------------------------------
(* StopVatSequence and the destructor: the engine is taken out under the    *)
(* mutex, and stopped and joined without it.                                *)

Take(u, next) ==
  /\ pc[u] = "idle" /\ alive /\ MutexFree
  /\ mine' = [mine EXCEPT ![u] = m_pVatEngine]
  /\ m_pVatEngine' = 0
  /\ Goto(u, next)
  /\ UNCHANGED <<holder, engines, stopped, worker, alive, m_pOwner, posted>>

StopVatSequence(u) == Take(u, "stop")

\* The owner destroys the adapter when no other call is under way.
Destroy(u) ==
  /\ \A v \in UIThreads : pc[v] = "idle"
  /\ Take(u, "destroy")

\* Mutant of StopSequence: the runner is released without having been stopped.
ForgetStop(u) ==
  /\ pc[u] \in {"stop", "destroy"}
  /\ Goto(u, IF pc[u] = "stop" THEN "join" ELSE "joinDestroy")
  /\ UNCHANGED <<holder, m_pVatEngine, engines, stopped, worker, mine, alive, m_pOwner, posted>>

StopSequence(u) ==
  /\ pc[u] \in {"stop", "destroy"}
  /\ stopped' = stopped \cup ({mine[u]} \ {0})
  /\ Goto(u, IF pc[u] = "stop" THEN "join" ELSE "joinDestroy")
  /\ UNCHANGED <<holder, m_pVatEngine, engines, worker, mine, alive, m_pOwner, posted>>

\* Mutant of Release: the runner's destructor detaches its thread.
ReleaseDetached(u) ==
  /\ pc[u] \in {"join", "joinDestroy"}
  /\ alive' = (pc[u] = "join")
  /\ Goto(u, "idle")
  /\ UNCHANGED <<holder, m_pVatEngine, engines, stopped, worker, mine, m_pOwner, posted>>

\* The last reference goes out of scope: the engine's thread is joined.
Release(u) ==
  /\ pc[u] \in {"join", "joinDestroy"}
  /\ mine[u] \notin Running
  /\ alive' = (pc[u] = "join")
  /\ Goto(u, "idle")
  /\ UNCHANGED <<holder, m_pVatEngine, engines, stopped, worker, mine, m_pOwner, posted>>

-----------------------------------------------------------------------------
(* The sequence thread of engine e. *)

\* Mutant of PostVisionResult: the notice names the engine of the moment.
PostCurrent(e) ==
  /\ worker[e] \in {"started", "ended"}
  /\ MutexFree
  /\ posted' = IF m_pOwner THEN Append(posted, <<m_pVatEngine, worker[e]>>) ELSE posted
  /\ worker' = [worker EXCEPT ![e] = IF worker[e] = "started" THEN "execute" ELSE "done"]
  /\ UNCHANGED <<holder, m_pVatEngine, engines, stopped, pc, mine, alive, m_pOwner>>

\* The notice of the runner, posted in one critical section if there is a window.
PostVisionResult(e) ==
  /\ worker[e] \in {"started", "ended"}
  /\ MutexFree
  /\ posted' = IF m_pOwner THEN Append(posted, <<e, worker[e]>>) ELSE posted
  /\ worker' = [worker EXCEPT ![e] = IF worker[e] = "started" THEN "execute" ELSE "done"]
  /\ UNCHANGED <<holder, m_pVatEngine, engines, stopped, pc, mine, alive, m_pOwner>>

ExecuteEnds(e) ==
  /\ worker[e] = "execute"
  /\ worker' = [worker EXCEPT ![e] = "ended"]
  /\ UNCHANGED <<holder, m_pVatEngine, engines, stopped, pc, mine, alive, m_pOwner, posted>>

UI(u) ==
  \/ SetOwner(u) \/ StartVatSequence(u) \/ ReleaseOld(u) \/ CreateEngine(u) \/ CreateFails(u)
  \/ StopVatSequence(u) \/ Destroy(u) \/ StopSequence(u) \/ Release(u)

SequenceThread(e) == PostVisionResult(e) \/ ExecuteEnds(e)

Next ==
  \/ \E u \in UIThreads : UI(u)
  \/ \E e \in Engines : SequenceThread(e)

Spec == Init /\ [][Next]_vars

\* A call that was made goes on; a sequence thread gets the mutex when it is
\* free, and its sequence is sure to end once it has been told to stop.
FairSpec ==
  /\ Spec
  /\ \A u \in UIThreads :
       WF_vars(\/ ReleaseOld(u) \/ CreateEngine(u) \/ CreateFails(u)
               \/ StopSequence(u) \/ Release(u))
  /\ \A e \in Engines :
       WF_vars(PostVisionResult(e) \/ (e \in stopped /\ ExecuteEnds(e)))

-----------------------------------------------------------------------------
(* Properties. *)

\* The type invariant of the adapter, its engines and its callers.
TypeOK ==
  /\ holder \in UIThreads \cup {"none"}
  /\ engines \in 0..MaxEngines
  /\ m_pVatEngine \in 0..engines
  /\ stopped \subseteq Engines
  /\ worker \in [Engines -> {"none", "started", "execute", "ended", "done"}]
  /\ pc \in [UIThreads -> {"idle", "replace", "create", "stop", "join",
                           "destroy", "joinDestroy"}]
  /\ mine \in [UIThreads -> 0..engines]
  /\ alive \in BOOLEAN
  /\ m_pOwner \in BOOLEAN
  /\ posted \in Seq(Engines \X {"started", "ended"})

\* No two sequences run at once on the one actuator: a restart and a stop both
\* wait for the sequence they replace.  And a sequence thread that is not over is accounted for: its engine is in place,
\* or a call that has not returned is waiting for it.  So nothing runs after
\* StopVatSequence, and nothing reports to an adapter that is gone.
NoOrphanThread ==
  \A e \in Running :
    /\ \A d \in Running : d = e
    /\ alive
    /\ e = m_pVatEngine \/ \E u \in UIThreads : mine[u] = e /\ pc[u] # "idle"

\* The window hears of the sequences one after the other.
PostsInOrder ==
  \A i, j \in 1..Len(posted) : i < j =>
    \/ posted[i][1] < posted[j][1]
    \/ posted[i][1] = posted[j][1] /\ posted[i][2] = "started" /\ posted[j][2] = "ended"

\* StopVatSequence and the destructor return: they join without the mutex that
\* the joined thread needs for its last notice.
StopReturns ==
  \A u \in UIThreads : pc[u] \in {"stop", "destroy"} ~> pc[u] = "idle"

\* What the documents ask of a start: it returns.
StartReturns ==
  \A u \in UIThreads : pc[u] = "replace" ~> pc[u] = "idle"
=============================================================================
