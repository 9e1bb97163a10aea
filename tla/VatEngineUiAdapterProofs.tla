---------------------- MODULE VatEngineUiAdapterProofs ----------------------
(***************************************************************************)
(* Proofs about VatEngineUiAdapter, for any number of sequences.  Types    *)
(* hold for any threads; that sequences neither overlap nor get lost needs *)
(* what the dialog gives: one thread that starts, stops and destroys.      *)
(***************************************************************************)
EXTENDS VatEngineUiAdapter, TLAPS, SequenceTheorems

\* The mutex is held from the first step of a start to its last.
HeldInStart ==
  /\ \A u \in UIThreads : holder = u <=> pc[u] \in {"replace", "create"}
  /\ holder # "none" => engines < MaxEngines

TInv == TypeOK /\ HeldInStart

\* The variables have their types at the start.
LEMMA InitTInv == Init => TInv
<1> SUFFICES ASSUME Init PROVE TInv
  OBVIOUS
<1>1. posted \in Seq(Engines \X {"started", "ended"})
  BY EmptySeq DEF Init
<1>2. HeldInStart
  BY UIThreadsAssumption DEF Init, HeldInStart
<1>3. /\ engines \in 0..MaxEngines /\ m_pVatEngine \in 0..engines
  BY MaxEnginesAssumption DEF Init
<1>4. /\ holder \in UIThreads \cup {"none"} /\ stopped \subseteq Engines
      /\ alive \in BOOLEAN /\ m_pOwner \in BOOLEAN
  BY Zenon DEF Init
<1>5. worker \in [Engines -> {"none", "started", "execute", "ended", "done"}]
  BY DEF Init
<1>6. pc \in [UIThreads -> {"idle", "replace", "create", "stop", "join",
                            "destroy", "joinDestroy"}]
  BY DEF Init
<1>7. mine \in [UIThreads -> 0..engines]
  BY DEF Init
<1>. QED BY <1>1, <1>2, <1>3, <1>4, <1>5, <1>6, <1>7 DEF TInv, TypeOK

\* Every step of the UI threads and of the sequence threads keeps the types.
LEMMA TInvStep == TInv /\ [Next]_vars => TInv'
<1> SUFFICES ASSUME TInv, [Next]_vars PROVE TInv'
  OBVIOUS
<1> USE MaxEnginesAssumption, UIThreadsAssumption
    DEF TInv, TypeOK, HeldInStart, Engines, Goto, MutexFree
<1>1. CASE \E u \in UIThreads : UI(u)
  <2> PICK u \in UIThreads : UI(u)
    BY <1>1
  <2>1. CASE SetOwner(u)
    BY <2>1 DEF SetOwner
  <2>2. CASE StartVatSequence(u)
    <3>1. /\ mine' \in [UIThreads -> 0..engines'] /\ stopped' \subseteq Engines
      BY <2>2 DEF StartVatSequence
    <3>. QED BY <2>2, <3>1 DEF StartVatSequence
  <2>3. CASE ReleaseOld(u)
    BY <2>3 DEF ReleaseOld
  <2>4. CASE CreateEngine(u)
    <3>1. engines + 1 \in Engines
      BY <2>4 DEF CreateEngine
    <3>2. /\ engines' \in 0..MaxEngines /\ m_pVatEngine' \in 0..engines'
          /\ mine' \in [UIThreads -> 0..engines']
      BY <2>4, <3>1 DEF CreateEngine
    <3>3. worker' \in [Engines -> {"none", "started", "execute", "ended", "done"}]
      BY <2>4, <3>1 DEF CreateEngine
    <3>4. pc' \in [UIThreads -> {"idle", "replace", "create", "stop", "join",
                                "destroy", "joinDestroy"}]
      BY <2>4 DEF CreateEngine
    <3>5. HeldInStart'
      BY <2>4 DEF CreateEngine
    <3>. QED BY <2>4, <3>2, <3>3, <3>4, <3>5 DEF CreateEngine
  <2>5. CASE CreateFails(u)
    BY <2>5 DEF CreateFails
  <2>6. CASE StopVatSequence(u) \/ Destroy(u)
    <3>1. PICK next \in {"stop", "destroy"} : Take(u, next)
      BY <2>6 DEF StopVatSequence, Destroy
    <3>2. /\ mine' \in [UIThreads -> 0..engines']
          /\ pc' \in [UIThreads -> {"idle", "replace", "create", "stop", "join",
                                    "destroy", "joinDestroy"}]
      BY <3>1 DEF Take
    <3>3. HeldInStart'
      BY <3>1 DEF Take
    <3>. QED BY <3>1, <3>2, <3>3 DEF Take
  <2>7. CASE StopSequence(u)
    <3>1. mine[u] \in 0..MaxEngines
      OBVIOUS
    <3>2. stopped' \subseteq Engines
      <4>1. {mine[u]} \ {0} \subseteq Engines
        BY <3>1
      <4>2. stopped' = stopped \cup ({mine[u]} \ {0})
        BY <2>7 DEF StopSequence
      <4>3. stopped \subseteq Engines
        BY DEF TInv, TypeOK
      <4>. QED BY <4>1, <4>2, <4>3, Zenon
    <3>3. pc' \in [UIThreads -> {"idle", "replace", "create", "stop", "join",
                                "destroy", "joinDestroy"}]
      BY <2>7 DEF StopSequence
    <3>4. HeldInStart'
      BY <2>7 DEF StopSequence
    <3>. QED BY <2>7, <3>2, <3>3, <3>4 DEF StopSequence
  <2>8. CASE Release(u)
    BY <2>8 DEF Release
  <2>. QED
    BY <2>1, <2>2, <2>3, <2>4, <2>5, <2>6, <2>7, <2>8 DEF UI
<1>2. CASE \E e \in Engines : SequenceThread(e)
  <2> PICK e \in Engines : SequenceThread(e)
    BY <1>2
  <2>1. CASE PostVisionResult(e)
    <3>1. <<e, worker[e]>> \in Engines \X {"started", "ended"}
      BY <2>1 DEF PostVisionResult
    <3>2. posted' \in Seq(Engines \X {"started", "ended"})
      BY <2>1, <3>1, AppendProperties DEF PostVisionResult
    <3>. QED BY <2>1, <3>2 DEF PostVisionResult
  <2>2. CASE ExecuteEnds(e)
    BY <2>2 DEF ExecuteEnds
  <2>. QED BY <2>1, <2>2 DEF SequenceThread
<1>3. CASE UNCHANGED vars
  BY <1>3 DEF vars
<1>. QED BY <1>1, <1>2, <1>3 DEF Next

\* The adapter, its engines and its callers keep their types.
THEOREM TypeCorrect == Spec => []TypeOK
<1>. QED BY InitTInv, TInvStep, PTL DEF Spec, TInv

-----------------------------------------------------------------------------

OneThread == \A u, v \in UIThreads : u = v

Stopping == {"stop", "join", "destroy", "joinDestroy"}

\* Where the engine is in every call: in place, in the hands of the call, or not
\* there at all.
EngineInHand ==
  \A u \in UIThreads :
    /\ pc[u] # "idle" => alive
    /\ pc[u] = "replace" => mine[u] = m_pVatEngine
    /\ pc[u] \in Stopping \cup {"create"} => m_pVatEngine = 0

\* Only the newest sequence can be running, in place or waited for.
NewestRuns ==
  /\ \A e \in Engines : e > engines => worker[e] = "none"
  /\ \A e \in Running :
       /\ e = engines /\ alive
       /\ \/ e = m_pVatEngine
          \/ \E u \in UIThreads : mine[u] = e /\ pc[u] \in Stopping

\* What has been posted of a sequence agrees with how far it has got.
PostsMatch ==
  \A i \in 1..Len(posted) :
    /\ posted[i][1] <= engines
    /\ worker[posted[i][1]] # "started"
    /\ posted[i][2] = "ended" => worker[posted[i][1]] = "done"

IInv == TInv /\ EngineInHand /\ NewestRuns /\ PostsMatch /\ PostsInOrder

\* The history is unchanged and no worker goes back to its start.
LEMMA PostsKept ==
  ASSUME TInv, PostsMatch, PostsInOrder, UNCHANGED posted,
         engines' \in Nat, engines' >= engines,
         \A e \in Engines : e <= engines =>
           /\ worker[e] # "started" => worker'[e] # "started"
           /\ worker[e] = "done" => worker'[e] = "done"
  PROVE  PostsMatch' /\ PostsInOrder'
<1>1. PostsInOrder'
  BY DEF PostsInOrder
<1>2. ASSUME NEW i \in 1..Len(posted)
      PROVE /\ posted[i][1] <= engines'
            /\ worker'[posted[i][1]] # "started"
            /\ posted[i][2] = "ended" => worker'[posted[i][1]] = "done"
  <2>1. posted[i] \in Engines \X {"started", "ended"}
    BY ElementOfSeq DEF TInv, TypeOK
  <2>2. posted[i][1] \in Engines
    BY <2>1
  <2>3. posted[i][1] <= engines
    BY DEF PostsMatch
  <2>. QED BY <2>2, <2>3, MaxEnginesAssumption DEF PostsMatch, Engines, TInv, TypeOK
<1>. QED BY <1>1, <1>2 DEF PostsMatch

\* The invariant holds before anything has been started.
LEMMA InitIInv == Init => IInv
<1> SUFFICES ASSUME Init PROVE IInv
  OBVIOUS
<1>1. TInv
  BY InitTInv
<1>2. EngineInHand
  BY DEF Init, EngineInHand, Stopping
<1>3. Running = {}
  BY DEF Init, Running, Engines
<1>4. NewestRuns
  BY <1>3 DEF Init, NewestRuns, Engines
<1>5. Len(posted) = 0
  BY DEF Init
<1>6. PostsMatch /\ PostsInOrder
  BY <1>5 DEF PostsMatch, PostsInOrder
<1>. QED BY <1>1, <1>2, <1>4, <1>6 DEF IInv

\* A step of the one UI thread.
LEMMA UIStep ==
  ASSUME OneThread, IInv, TInv', NEW u \in UIThreads, UI(u)
  PROVE  IInv'
<1> USE MaxEnginesAssumption DEF Engines, Goto, MutexFree
<1>0. /\ TypeOK /\ HeldInStart /\ TypeOK' /\ HeldInStart'
  BY DEF IInv, TInv
<1>1. /\ engines \in Nat /\ mine[u] \in Nat /\ m_pVatEngine \in Nat
      /\ \A v \in UIThreads : v = u
  BY <1>0, OneThread DEF TypeOK, OneThread
<1>2. ASSUME UNCHANGED <<engines, worker>>
      PROVE  (Running' = Running) /\ ((PostsMatch' /\ PostsInOrder') \/ posted' # posted)
  <2>1. Running' = Running
    BY <1>2 DEF Running
  <2>2. ASSUME posted' = posted PROVE PostsMatch' /\ PostsInOrder'
    BY <1>1, <1>2, <2>2, PostsKept DEF IInv
  <2>. QED BY <2>1, <2>2
<1>3. CASE SetOwner(u)
  <2>1. UNCHANGED <<engines, worker, posted, pc, mine, alive, m_pVatEngine>>
    BY <1>3 DEF SetOwner
  <2>2. EngineInHand' /\ NewestRuns'
    BY <1>2, <2>1 DEF IInv, EngineInHand, NewestRuns
  <2>. QED BY <1>2, <2>1, <2>2 DEF IInv
<1>4. CASE StartVatSequence(u)
  <2>1. UNCHANGED <<engines, worker, posted, alive, m_pVatEngine>>
    BY <1>4 DEF StartVatSequence
  <2>2. /\ pc[u] = "idle" /\ pc'[u] = "replace" /\ mine'[u] = m_pVatEngine /\ alive
    BY <1>0, <1>4 DEF StartVatSequence, TypeOK
  <2>3. EngineInHand'
    BY <1>1, <2>1, <2>2 DEF EngineInHand, Stopping
  <2>4. NewestRuns'
    BY <1>1, <1>2, <2>1, <2>2 DEF IInv, NewestRuns, Stopping
  <2>. QED BY <1>2, <2>1, <2>3, <2>4 DEF IInv
<1>5. CASE ReleaseOld(u)
  <2>1. UNCHANGED <<engines, worker, posted, alive, mine>>
    BY <1>5 DEF ReleaseOld
  <2>2. /\ pc[u] = "replace" /\ pc'[u] = "create" /\ m_pVatEngine' = 0
        /\ mine[u] = m_pVatEngine /\ mine[u] \notin Running /\ alive
    BY <1>0, <1>5 DEF ReleaseOld, TypeOK, IInv, EngineInHand
  <2>3. EngineInHand'
    BY <1>1, <2>1, <2>2 DEF EngineInHand, Stopping
  <2>4. Running = {}
    BY <1>1, <2>2 DEF IInv, NewestRuns, Stopping
  <2>5. NewestRuns'
    BY <1>2, <2>1, <2>4 DEF IInv, NewestRuns
  <2>. QED BY <1>2, <2>1, <2>3, <2>5 DEF IInv
<1>6. CASE CreateEngine(u)
  <2>1. /\ pc[u] = "create" /\ pc'[u] = "idle" /\ alive /\ m_pVatEngine = 0
        /\ engines' = engines + 1 /\ m_pVatEngine' = engines + 1
        /\ engines + 1 \in Engines
        /\ UNCHANGED <<alive, mine, posted>>
    BY <1>0, <1>6 DEF CreateEngine, TypeOK, HeldInStart, IInv, EngineInHand, Stopping
  <2>2. worker' = [worker EXCEPT ![engines + 1] = "started"]
    BY <1>6 DEF CreateEngine
  <2>3. Running = {}
    BY <1>1, <2>1 DEF IInv, NewestRuns, Stopping, Running
  <2>4. \A e \in Engines : e # engines + 1 => worker'[e] = worker[e]
    BY <1>0, <2>2 DEF TypeOK
  <2>5. Running' = {engines + 1}
    <3>1. worker'[engines + 1] = "started"
      BY <1>0, <2>1, <2>2 DEF TypeOK
    <3>. QED BY <2>1, <2>3, <2>4, <3>1 DEF Running
  <2>6. EngineInHand'
    BY <1>1, <2>1 DEF EngineInHand, Stopping
  <2>7. NewestRuns'
    <3>1. \A e \in Engines : e > engines' => worker'[e] = "none"
      BY <1>1, <2>1, <2>4 DEF IInv, NewestRuns
    <3>. QED BY <2>1, <2>5, <3>1 DEF NewestRuns
  <2>8. PostsMatch' /\ PostsInOrder'
    <3>1. \A e \in Engines : e <= engines => worker'[e] = worker[e]
      BY <1>1, <2>4
    <3>. QED BY <1>1, <2>1, <3>1, PostsKept DEF IInv
  <2>. QED BY <2>6, <2>7, <2>8 DEF IInv
<1>7. CASE CreateFails(u)
  <2>1. UNCHANGED <<engines, worker, posted, alive, mine, m_pVatEngine>>
    BY <1>7 DEF CreateFails
  <2>2. pc[u] = "create" /\ pc'[u] = "idle"
    BY <1>0, <1>7 DEF CreateFails, TypeOK
  <2>3. EngineInHand'
    BY <1>1, <2>2 DEF EngineInHand, Stopping
  <2>4. NewestRuns'
    BY <1>1, <1>2, <2>1, <2>2 DEF IInv, NewestRuns, Stopping
  <2>. QED BY <1>2, <2>1, <2>3, <2>4 DEF IInv
<1>8. CASE StopVatSequence(u) \/ Destroy(u)
  <2>1. PICK next \in {"stop", "destroy"} : Take(u, next)
    BY <1>8 DEF StopVatSequence, Destroy
  <2>2. UNCHANGED <<engines, worker, posted, alive>>
    BY <2>1 DEF Take
  <2>3. /\ pc[u] = "idle" /\ pc'[u] \in Stopping /\ alive
        /\ mine'[u] = m_pVatEngine /\ m_pVatEngine' = 0
    BY <1>0, <2>1 DEF Take, TypeOK, Stopping
  <2>4. EngineInHand'
    BY <1>1, <2>2, <2>3 DEF EngineInHand, Stopping
  <2>5. NewestRuns'
    BY <1>1, <1>2, <2>2, <2>3 DEF IInv, NewestRuns, Stopping
  <2>. QED BY <1>2, <2>2, <2>4, <2>5 DEF IInv
<1>9. CASE StopSequence(u)
  <2>1. UNCHANGED <<engines, worker, posted, alive, mine, m_pVatEngine>>
    BY <1>9 DEF StopSequence
  <2>2. pc[u] \in Stopping /\ pc'[u] \in Stopping
    BY <1>0, <1>9 DEF StopSequence, TypeOK, Stopping
  <2>3. EngineInHand'
    BY <1>1, <2>1, <2>2 DEF IInv, EngineInHand, Stopping
  <2>4. NewestRuns'
    BY <1>1, <1>2, <2>1, <2>2 DEF IInv, NewestRuns
  <2>. QED BY <1>2, <2>1, <2>3, <2>4 DEF IInv
<1>10. CASE Release(u)
  <2>1. UNCHANGED <<engines, worker, posted, mine, m_pVatEngine>>
    BY <1>10 DEF Release
  <2>2. pc[u] \in Stopping /\ pc'[u] = "idle" /\ mine[u] \notin Running
    BY <1>0, <1>10 DEF Release, TypeOK, Stopping
  <2>3. m_pVatEngine = 0
    BY <2>2 DEF IInv, EngineInHand
  <2>4. EngineInHand'
    BY <1>1, <2>2 DEF EngineInHand, Stopping
  <2>5. Running = {}
    BY <1>1, <2>2, <2>3 DEF IInv, NewestRuns, Running
  <2>6. NewestRuns'
    BY <1>2, <2>1, <2>5 DEF IInv, NewestRuns
  <2>. QED BY <1>2, <2>1, <2>4, <2>6 DEF IInv
<1>. QED
  BY <1>3, <1>4, <1>5, <1>6, <1>7, <1>8, <1>9, <1>10 DEF UI

\* A step of a sequence thread.
LEMMA SequenceStep ==
  ASSUME IInv, TInv', NEW e \in Engines, SequenceThread(e)
  PROVE  IInv'
<1>0. TypeOK /\ TypeOK' /\ engines \in Nat
  BY DEF IInv, TInv, TypeOK
<1>1. /\ UNCHANGED <<engines, pc, mine, alive, m_pVatEngine>>
      /\ worker[e] \notin {"none", "done"}
      /\ \A d \in Engines : d # e => worker'[d] = worker[d]
      /\ worker'[e] # "started"
  BY <1>0 DEF SequenceThread, PostVisionResult, ExecuteEnds, TypeOK
<1>2. e \in Running /\ e = engines
  BY <1>1 DEF Running, IInv, NewestRuns
<1>3. EngineInHand'
  BY <1>1 DEF IInv, EngineInHand
<1>4. NewestRuns'
  <2>1. Running' \subseteq Running
    BY <1>1, <1>2 DEF Running, Engines
  <2>2. \A d \in Engines : d > engines' => worker'[d] = "none"
    BY <1>0, <1>1, <1>2 DEF IInv, NewestRuns
  <2>. QED BY <1>1, <2>1, <2>2 DEF IInv, NewestRuns
<1>5. CASE ExecuteEnds(e)
  <2>1. posted' = posted /\ worker[e] # "done"
    BY <1>5 DEF ExecuteEnds
  <2>2. PostsMatch' /\ PostsInOrder'
    BY <1>0, <1>1, <2>1, PostsKept DEF IInv
  <2>. QED BY <1>3, <1>4, <2>2 DEF IInv
<1>6. CASE PostVisionResult(e) /\ ~m_pOwner
  <2>1. posted' = posted /\ worker[e] # "done"
    BY <1>6 DEF PostVisionResult
  <2>2. PostsMatch' /\ PostsInOrder'
    BY <1>0, <1>1, <2>1, PostsKept DEF IInv
  <2>. QED BY <1>3, <1>4, <2>2 DEF IInv
<1>7. CASE PostVisionResult(e) /\ m_pOwner
  <2> DEFINE n == Len(posted)
  <2>1. /\ posted' = Append(posted, <<e, worker[e]>>)
        /\ worker[e] \in {"started", "ended"}
        /\ worker' = [worker EXCEPT ![e] = IF worker[e] = "started" THEN "execute" ELSE "done"]
    BY <1>7 DEF PostVisionResult
  <2>2. posted \in Seq(Engines \X {"started", "ended"})
    BY <1>0 DEF TypeOK
  <2>3. /\ n \in Nat /\ Len(posted') = n + 1
        /\ \A i \in 1..n : posted'[i] = posted[i]
        /\ posted'[n + 1] = <<e, worker[e]>>
    BY <2>1, <2>2, AppendProperties, LenProperties
  <2>4. \A i \in 1..n :
          /\ posted[i][1] \in Engines /\ posted[i][2] \in {"started", "ended"}
    BY <2>2, ElementOfSeq
  <2>5. \A i \in 1..n :
          \/ posted[i][1] < e
          \/ posted[i][1] = e /\ posted[i][2] = "started" /\ worker[e] = "ended"
    BY <1>0, <1>1, <1>2, <2>1, <2>4, MaxEnginesAssumption DEF IInv, PostsMatch, Engines
  <2>6. PostsInOrder'
    <3>1. ASSUME NEW i \in 1..(n + 1), NEW j \in 1..(n + 1), i < j
          PROVE  \/ posted'[i][1] < posted'[j][1]
                 \/ /\ posted'[i][1] = posted'[j][1]
                    /\ posted'[i][2] = "started" /\ posted'[j][2] = "ended"
      <4>1. i \in 1..n
        BY <2>3, <3>1
      <4>2. CASE j \in 1..n
        BY <2>3, <3>1, <4>1, <4>2 DEF IInv, PostsInOrder
      <4>3. CASE j = n + 1
        BY <2>3, <2>5, <4>1, <4>3
      <4>. QED BY <2>3, <4>2, <4>3
    <3>. QED BY <2>3, <3>1 DEF PostsInOrder
  <2>7. PostsMatch'
    <3>1. ASSUME NEW i \in 1..(n + 1)
          PROVE  /\ posted'[i][1] <= engines'
                 /\ worker'[posted'[i][1]] # "started"
                 /\ posted'[i][2] = "ended" => worker'[posted'[i][1]] = "done"
      <4>1. CASE i = n + 1
        <5>1. worker[e] = "ended" => worker'[e] = "done"
          BY <1>0, <2>1 DEF TypeOK
        <5>. QED BY <1>1, <1>2, <2>3, <4>1, <5>1, MaxEnginesAssumption DEF Engines
      <4>2. CASE i \in 1..n
        <5>1. posted[i][1] \in Engines /\ (posted[i][1] = e => posted[i][2] = "started")
          BY <2>4, <2>5, <4>2, MaxEnginesAssumption DEF Engines
        <5>2. posted[i][1] <= engines /\ worker[posted[i][1]] # "started"
              /\ (posted[i][2] = "ended" => worker[posted[i][1]] = "done")
          BY <4>2 DEF IInv, PostsMatch
        <5>. QED BY <1>1, <2>3, <4>2, <5>1, <5>2
      <4>. QED BY <2>3, <4>1, <4>2
    <3>. QED BY <2>3, <3>1 DEF PostsMatch
  <2>. QED BY <1>3, <1>4, <2>6, <2>7 DEF IInv
<1>. QED BY <1>5, <1>6, <1>7 DEF SequenceThread

\* With one thread every step keeps the invariant.
LEMMA IInvStep ==
  ASSUME OneThread
  PROVE  IInv /\ [Next]_vars => IInv'
<1> SUFFICES ASSUME IInv, [Next]_vars PROVE IInv'
  OBVIOUS
<1>1. TInv'
  BY TInvStep DEF IInv
<1>2. CASE \E u \in UIThreads : UI(u)
  BY <1>1, <1>2, OneThread, UIStep
<1>3. CASE \E e \in Engines : SequenceThread(e)
  BY <1>1, <1>3, SequenceStep
<1>4. CASE UNCHANGED vars
  <2>1. EngineInHand' /\ NewestRuns' /\ PostsMatch' /\ PostsInOrder'
    BY <1>4 DEF vars, IInv, EngineInHand, NewestRuns, Running, PostsMatch, PostsInOrder
  <2>. QED BY <1>1, <2>1 DEF IInv
<1>. QED BY <1>2, <1>3, <1>4 DEF Next

\* No sequence overlaps another, outlives the adapter or is left without a call
\* that waits for it, however many are started and stopped.
THEOREM SequencesAreOwned ==
  ASSUME OneThread
  PROVE  Spec => []NoOrphanThread
<1>1. IInv => NoOrphanThread
  <2> SUFFICES ASSUME IInv, NEW e \in Running
               PROVE  /\ \A d \in Running : d = e
                      /\ alive
                      /\ e = m_pVatEngine \/ \E u \in UIThreads : mine[u] = e /\ pc[u] # "idle"
    BY DEF NoOrphanThread
  <2>. QED BY DEF IInv, NewestRuns, Running, Stopping
<1>. QED BY <1>1, InitIInv, IInvStep, PTL DEF Spec

\* The window hears of the sequences one after the other, each from its start to
\* its ending.
THEOREM WindowHearsInOrder ==
  ASSUME OneThread
  PROVE  Spec => []PostsInOrder
<1>. QED BY InitIInv, IInvStep, PTL DEF Spec, IInv
=============================================================================
