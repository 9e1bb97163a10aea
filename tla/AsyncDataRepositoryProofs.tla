---------------------- MODULE AsyncDataRepositoryProofs ----------------------
(***************************************************************************)
(* Proofs about AsyncDataRepository, for every number of saves and of      *)
(* attempts: its type invariant, that no save is left with a sleeping      *)
(* worker, the order of a status and its data, and that the queues and the *)
(* worker implement WriteBehind.                                           *)
(***************************************************************************)
EXTENDS AsyncDataRepository, TLAPS, SequenceTheorems

\* Item i is the n-th entry of sequence s.
Ascending(s) == \A m, n \in 1..Len(s) : m < n => s[m] < s[n]

\* What waits in a queue or in the worker's hands is accepted, of the queue's
\* kind and not yet handled.
Outstanding(s, k) ==
  \A n \in 1..Len(s) : s[n] \in Items \ Handled /\ accepted[s[n]] = k

\* The queues are in the order of acceptance, and whatever the worker has taken
\* is older than whatever has been queued since, of every kind.
InOrder ==
  /\ \A k \in Kind : Ascending(local[k]) /\ Ascending(queue[k])
  /\ \A k \in Kind : Outstanding(local[k], k) /\ Outstanding(queue[k], k)
  /\ \A j, k \in Kind : \A m \in 1..Len(local[j]), n \in 1..Len(queue[k]) :
       local[j][m] < queue[k][n]

\* Nothing accepted is in neither place.
NothingLost ==
  /\ Handled \subseteq Items
  /\ \A i \in Items \ Handled :
       \E k \in Kind : \/ \E n \in 1..Len(local[k]) : local[k][n] = i
                       \/ \E n \in 1..Len(queue[k]) : queue[k][n] = i

\* Where the worker and the destructor are says what they have left.
Positions ==
  /\ pc # "flush" => local = NoItems
  /\ pc \in {"blocking", "exited"} => queue = NoItems
  /\ pc = "exited" => dtor # "alive"
  /\ dtor = "destroyed" => pc = "exited"
  /\ stopRequested => dtor # "alive"

IInv ==
  TypeOK /\ Positions /\ NoSleepOverWork /\ InOrder /\ NothingLost
         /\ StatusAfterItsData

-----------------------------------------------------------------------------
(* Type correctness. *)

\* The variables have their types at the start.
LEMMA InitTypeOK == Init => TypeOK
<1> SUFFICES ASSUME Init PROVE TypeOK
  OBVIOUS
<1>1. <<>> \in Seq(Nat) /\ <<>> \in Seq(Kind)
  BY EmptySeq
<1>2. NoItems \in [Kind -> Seq(Nat)]
  BY <1>1 DEF NoItems
<1>3. attempt \in 0..(MaxRetries - 1)
  BY MaxRetriesAssumption DEF Init
<1>4. /\ hasInner \in BOOLEAN /\ signalled \in BOOLEAN
      /\ stopRequested \in BOOLEAN
  BY DEF Init
<1>. QED
  BY <1>1, <1>2, <1>3, <1>4 DEF Init, TypeOK

\* Popping the head of one local queue leaves a family of queues.
LEMMA DoneTypes ==
  ASSUME TypeOK, NEW k \in Kind, Turn(k), Done(k)
  PROVE  /\ local' \in [Kind -> Seq(Nat)]
         /\ Head(local[k]) \in Nat
         /\ attempt' \in 0..(MaxRetries - 1)
<1>1. local[k] \in Seq(Nat) /\ local[k] # <<>>
  BY DEF TypeOK, Turn
<1>2. Tail(local[k]) \in Seq(Nat) /\ Head(local[k]) \in Nat
  BY <1>1, HeadTailProperties
<1>. QED
  BY <1>2, MaxRetriesAssumption DEF TypeOK, Done

\* Every step of the callers, the worker and the destructor keeps the types.
LEMMA TypeOKStep == TypeOK /\ [Next]_vars => TypeOK'
<1> SUFFICES ASSUME TypeOK, [Next]_vars PROVE TypeOK'
  OBVIOUS
<1>0. NoItems \in [Kind -> Seq(Nat)]
  BY EmptySeq DEF NoItems
<1> USE DEF TypeOK, worker, history
<1>1. ASSUME NEW k \in Kind, Save(k) PROVE TypeOK'
  <2>1. Len(accepted) + 1 \in Nat
    BY LenProperties
  <2>2. Append(queue[k], Len(accepted) + 1) \in Seq(Nat)
    BY <2>1, AppendProperties
  <2>3. accepted' \in Seq(Kind) /\ queue' \in [Kind -> Seq(Nat)]
    BY <1>1, <2>2, AppendProperties DEF Save
  <2>. QED BY <1>1, <2>3 DEF Save
<1>2. CASE RequestStop
  BY <1>2 DEF RequestStop
<1>3. CASE NotifyWorker
  BY <1>3 DEF NotifyWorker
<1>4. CASE JoinWorker
  BY <1>4 DEF JoinWorker
<1>5. CASE TakeAll
  BY <1>5, <1>0 DEF TakeAll
<1>6. CASE ExitLoop
  BY <1>6 DEF ExitLoop
<1>7. CASE DecideToSleep
  BY <1>7 DEF DecideToSleep
<1>8. CASE Sleep
  BY <1>8 DEF Sleep
<1>9. CASE WakeUp \/ SpuriousWakeUp
  BY <1>9 DEF WakeUp, SpuriousWakeUp
<1>10. ASSUME NEW k \in Kind, WriteItem(k) PROVE TypeOK'
  <2>1. local[k] \in Seq(Nat) /\ local[k] # <<>>
    BY <1>10 DEF WriteItem, Turn
  <2>2. written' \in Seq(Nat)
    BY <1>10, <2>1, AppendProperties DEF WriteItem
  <2>. QED BY <1>10, <2>2, DoneTypes DEF WriteItem
<1>11. ASSUME NEW k \in Kind, FailItem(k) PROVE TypeOK'
  <2>1. CASE attempt + 1 < MaxRetries /\ attempt' = attempt + 1
             /\ UNCHANGED <<local, dropped>>
    BY <1>11, <2>1, MaxRetriesAssumption DEF FailItem
  <2>2. CASE dropped' = dropped \cup {Head(local[k])} /\ Done(k)
    BY <1>11, <2>2, DoneTypes DEF FailItem
  <2>. QED BY <1>11, <2>1, <2>2 DEF FailItem
<1>12. ASSUME NEW k \in Kind, SkipItem(k) PROVE TypeOK'
  BY <1>12, DoneTypes DEF SkipItem
<1>13. CASE BatchDone
  BY <1>13 DEF BatchDone
<1>14. CASE UNCHANGED vars
  BY <1>14 DEF vars
<1>. QED
  BY <1>1, <1>2, <1>3, <1>4, <1>5, <1>6, <1>7, <1>8, <1>9, <1>10, <1>11,
     <1>12, <1>13, <1>14 DEF Next, Destructor, WorkerLoop, Process

\* The queues, the worker and the destructor never leave their types.
THEOREM TypeCorrect == Spec => []TypeOK
<1>. QED
  BY InitTypeOK, TypeOKStep, PTL DEF Spec

-----------------------------------------------------------------------------
(* The four ways in which a step touches an item. *)

\* One item leaves the worker's hands, written or given up.
Handles(k) ==
  /\ Turn(k)
  /\ pc = "flush" /\ pc' = "flush"
  /\ local' = [local EXCEPT ![k] = Tail(@)]
  /\ Handled' = Handled \cup {Head(local[k])}
  /\ UNCHANGED <<queue, accepted>>

\* Nothing moves.
Idles == UNCHANGED <<queue, local, accepted, Handled>>

\* A write adds its item to what is stored.
LEMMA WriteStores ==
  ASSUME TypeOK, NEW k \in Kind, WriteItem(k)
  PROVE  Stored' = Stored \cup {Head(local[k])}
<1>1. local[k] \in Seq(Nat) /\ local[k] # <<>> /\ written \in Seq(Nat)
  BY DEF TypeOK, WriteItem, Turn
<1>2. Head(local[k]) \in Nat
  BY <1>1
<1>3. written' = Append(written, Head(local[k]))
  BY DEF WriteItem
<1>4. /\ Len(written) \in Nat
      /\ DOMAIN written = 1..Len(written)
      /\ DOMAIN written' = 1..(Len(written) + 1)
      /\ \A n \in 1..Len(written) : written'[n] = written[n]
      /\ written'[Len(written) + 1] = Head(local[k])
  BY <1>1, <1>2, <1>3, AppendProperties, LenProperties
<1>5. ASSUME NEW x \in Stored PROVE x \in Stored'
  <2>1. PICK n \in DOMAIN written : x = written[n]
    BY <1>5 DEF Stored
  <2>. QED BY <1>4, <2>1 DEF Stored
<1>6. Head(local[k]) \in Stored'
  BY <1>4 DEF Stored
<1>7. ASSUME NEW x \in Stored' PROVE x \in Stored \cup {Head(local[k])}
  <2>1. PICK n \in DOMAIN written' : x = written'[n]
    BY <1>7 DEF Stored
  <2>2. n \in 1..Len(written) \/ n = Len(written) + 1
    BY <1>4, <2>1
  <2>. QED BY <1>4, <2>1, <2>2 DEF Stored
<1>. QED BY <1>5, <1>6, <1>7

\* Every step accepts an item, takes the queues, handles an item or moves none.
LEMMA StepMovesItems ==
  ASSUME TypeOK, [Next]_vars
  PROVE  \/ \E k \in Kind : Save(k)
         \/ TakeAll
         \/ \E k \in Kind : Handles(k)
         \/ Idles
<1> USE DEF worker, history, Idles, Handled
<1>0. written' = written => Stored' = Stored
  BY DEF Stored
<1>1. ASSUME NEW k \in Kind, WriteItem(k) PROVE Handles(k)
  BY <1>1, WriteStores DEF WriteItem, Handles, Done
<1>2. ASSUME NEW k \in Kind, FailItem(k) PROVE Handles(k) \/ Idles
  BY <1>2, <1>0 DEF FailItem, Handles, Done
<1>3. ASSUME NEW k \in Kind, SkipItem(k) PROVE Handles(k)
  BY <1>3, <1>0 DEF SkipItem, Handles, Done
<1>4. CASE RequestStop \/ NotifyWorker \/ JoinWorker
  BY <1>4, <1>0 DEF RequestStop, NotifyWorker, JoinWorker
<1>5. CASE ExitLoop \/ DecideToSleep \/ Sleep \/ WakeUp \/ SpuriousWakeUp
           \/ BatchDone
  BY <1>5, <1>0 DEF ExitLoop, DecideToSleep, Sleep, WakeUp, SpuriousWakeUp, BatchDone
<1>6. CASE UNCHANGED vars
  BY <1>6, <1>0 DEF vars
<1>. QED
  BY <1>1, <1>2, <1>3, <1>4, <1>5, <1>6 DEF Next, Destructor, WorkerLoop, Process

-----------------------------------------------------------------------------
(* The inductive invariant. *)

\* It holds at the start.
LEMMA InitIInv == Init => IInv
<1> SUFFICES ASSUME Init PROVE IInv
  OBVIOUS
<1>1. TypeOK
  BY InitTypeOK
<1>2. Len(<<>>) = 0 /\ Items = {} /\ Handled = {}
  BY EmptySeq DEF Init, Items, Handled, Stored
<1>3. \A k \in Kind : Len(local[k]) = 0 /\ Len(queue[k]) = 0
  BY <1>2 DEF Init, NoItems
<1>4. InOrder
  BY <1>3 DEF InOrder, Ascending, Outstanding
<1>5. NothingLost /\ StatusAfterItsData
  BY <1>2 DEF NothingLost, StatusAfterItsData
<1>. QED
  BY <1>1, <1>4, <1>5 DEF IInv, Positions, NoSleepOverWork, Init

\* Where the threads are: a sleeping worker's queues fill only with a signal,
\* because a worker that has tested the predicate holds m_mutex until it sleeps.
LEMMA PositionsStep ==
  ASSUME TypeOK, Positions, NoSleepOverWork, [Next]_vars
  PROVE  Positions' /\ NoSleepOverWork'
<1> USE DEF Positions, NoSleepOverWork, worker, history
<1>1. ASSUME NEW k \in Kind, Save(k) PROVE Positions' /\ NoSleepOverWork'
  BY <1>1 DEF Save, MutexFree
<1>2. CASE RequestStop
  BY <1>2 DEF RequestStop
<1>3. CASE NotifyWorker
  BY <1>3 DEF NotifyWorker
<1>4. CASE JoinWorker
  BY <1>4 DEF JoinWorker
<1>5. CASE TakeAll
  BY <1>5 DEF TakeAll
<1>6. CASE ExitLoop
  BY <1>6 DEF ExitLoop
<1>7. CASE DecideToSleep
  BY <1>7 DEF DecideToSleep, WorkOrStop
<1>8. CASE Sleep
  BY <1>8 DEF Sleep
<1>9. CASE WakeUp \/ SpuriousWakeUp
  BY <1>9 DEF WakeUp, SpuriousWakeUp
<1>10. ASSUME NEW k \in Kind, Process(k) PROVE Positions' /\ NoSleepOverWork'
  BY <1>10 DEF Process, WriteItem, FailItem, SkipItem
<1>11. CASE BatchDone
  BY <1>11 DEF BatchDone
<1>12. CASE UNCHANGED vars
  BY <1>12 DEF vars
<1>. QED
  BY <1>1, <1>2, <1>3, <1>4, <1>5, <1>6, <1>7, <1>8, <1>9, <1>10, <1>11,
     <1>12 DEF Next, Destructor, WorkerLoop

\* What accepting an item does to the sequence of one queue.
LEMMA SaveFacts ==
  ASSUME TypeOK, NEW k \in Kind, Save(k)
  PROVE  /\ Len(accepted) \in Nat
         /\ Items' = Items \cup {Len(accepted) + 1}
         /\ Len(accepted) + 1 \notin Items
         /\ accepted'[Len(accepted) + 1] = k
         /\ \A i \in Items : accepted'[i] = accepted[i]
         /\ local' = local /\ Handled' = Handled
         /\ \A j \in Kind \ {k} : queue'[j] = queue[j]
         /\ Len(queue[k]) \in Nat
         /\ Len(queue'[k]) = Len(queue[k]) + 1
         /\ \A n \in 1..Len(queue[k]) : queue'[k][n] = queue[k][n]
         /\ queue'[k][Len(queue[k]) + 1] = Len(accepted) + 1
<1>1. accepted \in Seq(Kind) /\ queue[k] \in Seq(Nat) /\ Len(accepted) \in Nat
      /\ Len(queue[k]) \in Nat
  BY LenProperties DEF TypeOK
<1>2. Len(accepted) + 1 \in Nat
  BY <1>1
<1>3. /\ accepted' = Append(accepted, k)
      /\ queue'[k] = Append(queue[k], Len(accepted) + 1)
      /\ local' = local /\ Handled' = Handled
      /\ \A j \in Kind \ {k} : queue'[j] = queue[j]
  BY DEF Save, TypeOK, Handled, Stored
<1>4. /\ Len(accepted') = Len(accepted) + 1
      /\ accepted'[Len(accepted) + 1] = k
      /\ \A i \in 1..Len(accepted) : accepted'[i] = accepted[i]
  BY <1>1, <1>3, AppendProperties
<1>5. /\ Len(queue'[k]) = Len(queue[k]) + 1
      /\ queue'[k][Len(queue[k]) + 1] = Len(accepted) + 1
      /\ \A n \in 1..Len(queue[k]) : queue'[k][n] = queue[k][n]
  BY <1>1, <1>2, <1>3, AppendProperties
<1>6. Items' = 1..(Len(accepted) + 1)
  BY <1>4 DEF Items
<1>7. /\ Items' = Items \cup {Len(accepted) + 1}
      /\ Len(accepted) + 1 \notin Items
  BY <1>1, <1>6 DEF Items
<1>8. \A i \in Items : accepted'[i] = accepted[i]
  BY <1>4 DEF Items
<1>. QED
  BY <1>1, <1>3, <1>4, <1>5, <1>7, <1>8

\* What handling an item does to the worker's queues.
LEMMA HandleFacts ==
  ASSUME TypeOK, NEW k \in Kind, Handles(k)
  PROVE  /\ Len(local[k]) \in Nat \ {0}
         /\ Handled' = Handled \cup {local[k][1]}
         /\ Items' = Items /\ queue' = queue /\ accepted' = accepted
         /\ \A j \in Kind \ {k} : local'[j] = local[j]
         /\ Len(local'[k]) = Len(local[k]) - 1
         /\ \A n \in 1..Len(local'[k]) : local'[k][n] = local[k][n + 1]
<1>1. local[k] \in Seq(Nat) /\ local[k] # <<>>
  BY DEF TypeOK, Handles, Turn
<1>2. local'[k] = Tail(local[k]) /\ \A j \in Kind \ {k} : local'[j] = local[j]
  BY DEF TypeOK, Handles
<1>3. Len(local[k]) \in Nat \ {0}
  BY <1>1, EmptySeq
<1>4. /\ Head(local[k]) = local[k][1]
      /\ Len(Tail(local[k])) = Len(local[k]) - 1
      /\ \A n \in 1..Len(Tail(local[k])) : Tail(local[k])[n] = local[k][n + 1]
  BY <1>1, <1>3, HeadTailProperties
<1>. QED
  BY <1>2, <1>3, <1>4 DEF Handles, Items

\* The lengths and entries of all the queues are natural numbers.
LEMMA QueueTypes ==
  ASSUME TypeOK
  PROVE  \A k \in Kind :
           /\ Len(queue[k]) \in Nat /\ Len(local[k]) \in Nat
           /\ \A n \in 1..Len(queue[k]) : queue[k][n] \in Nat
           /\ \A n \in 1..Len(local[k]) : local[k][n] \in Nat
<1>1. \A k \in Kind : queue[k] \in Seq(Nat) /\ local[k] \in Seq(Nat)
  BY DEF TypeOK
<1>. QED
  BY <1>1, LenProperties, ElementOfSeq

\* An empty family of queues has no entries.
LEMMA NoItemsEmpty == \A k \in Kind : Len(NoItems[k]) = 0
  BY EmptySeq DEF NoItems

\* Accepting an item puts the youngest one at the end of its queue.
LEMMA SaveKeepsOrder ==
  ASSUME TypeOK, InOrder, NothingLost, NEW k \in Kind, Save(k)
  PROVE  InOrder'
<1>1. \A i \in Items : i < Len(accepted) + 1
  BY SaveFacts DEF Items
<1>2. \A j \in Kind : Ascending(local'[j]) /\ Outstanding(local[j], j)'
  BY SaveFacts DEF InOrder, Outstanding, Ascending
<1>3. ASSUME NEW j \in Kind, j # k
      PROVE  Ascending(queue'[j]) /\ Outstanding(queue[j], j)'
  BY <1>3, SaveFacts DEF InOrder, Outstanding, Ascending
<1>4. \A n \in 1..Len(queue'[k]) :
        \/ n \in 1..Len(queue[k]) /\ queue'[k][n] = queue[k][n]
        \/ n = Len(queue[k]) + 1 /\ queue'[k][n] = Len(accepted) + 1
  BY SaveFacts
<1>5. Ascending(queue'[k])
  <2>1. SUFFICES ASSUME NEW m \in 1..Len(queue'[k]), NEW n \in 1..Len(queue'[k]),
                        m < n
                 PROVE  queue'[k][m] < queue'[k][n]
    BY DEF Ascending
  <2>2. m \in 1..Len(queue[k]) /\ queue'[k][m] = queue[k][m]
    BY <1>4, <2>1, SaveFacts
  <2>3. CASE n = Len(queue[k]) + 1
    <3>1. queue[k][m] \in Items
      BY <2>2 DEF InOrder, Outstanding
    <3>. QED BY <1>1, <2>2, <2>3, <3>1, SaveFacts
  <2>4. CASE n \in 1..Len(queue[k])
    BY <2>1, <2>2, <2>4, SaveFacts DEF InOrder, Ascending
  <2>. QED BY <1>4, <2>3, <2>4
<1>6. Outstanding(queue[k], k)'
  <2>1. SUFFICES ASSUME NEW n \in 1..Len(queue'[k])
                 PROVE  /\ queue'[k][n] \in Items' \ Handled'
                        /\ accepted'[queue'[k][n]] = k
    BY DEF Outstanding
  <2>2. CASE n = Len(queue[k]) + 1
    BY <2>2, SaveFacts DEF NothingLost
  <2>3. CASE n \in 1..Len(queue[k])
    <3>1. queue[k][n] \in Items \ Handled /\ accepted[queue[k][n]] = k
      BY <2>3 DEF InOrder, Outstanding
    <3>. QED BY <2>3, <3>1, SaveFacts
  <2>. QED BY <1>4, <2>2, <2>3
<1>7. ASSUME NEW i \in Kind, NEW j \in Kind,
             NEW m \in 1..Len(local'[i]), NEW n \in 1..Len(queue'[j])
      PROVE  local'[i][m] < queue'[j][n]
  <2>1. CASE j = k
    <3>1. m \in 1..Len(local[i]) /\ local'[i][m] = local[i][m]
      BY <1>7, SaveFacts
    <3>2. local[i][m] \in Items
      BY <3>1 DEF InOrder, Outstanding
    <3>3. CASE n = Len(queue[k]) + 1
      BY <1>1, <2>1, <3>1, <3>2, <3>3, SaveFacts
    <3>4. CASE n \in 1..Len(queue[k])
      BY <2>1, <3>1, <3>4, SaveFacts DEF InOrder
    <3>. QED BY <1>4, <2>1, <3>3, <3>4
  <2>2. CASE j # k
    BY <1>7, <2>2, SaveFacts DEF InOrder
  <2>. QED BY <2>1, <2>2
<1>. QED
  BY <1>2, <1>3, <1>5, <1>6, <1>7 DEF InOrder, Ascending, Outstanding

\* Handling the oldest item of a kind leaves the rest in order.
LEMMA HandleKeepsOrder ==
  ASSUME TypeOK, InOrder, NEW k \in Kind, Handles(k)
  PROVE  InOrder'
<1>1. \A n \in 1..Len(local'[k]) :
        /\ n + 1 \in 1..Len(local[k]) /\ 1 \in 1..Len(local[k])
        /\ local'[k][n] = local[k][n + 1]
        /\ local[k][1] < local'[k][n]
        /\ local[k][1] \in Nat /\ local'[k][n] \in Nat
  BY HandleFacts, QueueTypes DEF InOrder, Ascending
<1>2. Ascending(local'[k]) /\ Outstanding(local[k], k)'
  <2>1. Ascending(local[k]) /\ Outstanding(local[k], k)
    BY DEF InOrder
  <2>2. ASSUME NEW m \in 1..Len(local'[k]), NEW n \in 1..Len(local'[k]), m < n
        PROVE  local'[k][m] < local'[k][n]
    <3>1. local[k][m + 1] < local[k][n + 1]
      BY <1>1, <2>1, <2>2 DEF Ascending
    <3>. QED BY <1>1, <3>1
  <2>3. ASSUME NEW n \in 1..Len(local'[k])
        PROVE  local'[k][n] \in Items' \ Handled' /\ accepted'[local'[k][n]] = k
    <3>1. local[k][n + 1] \in Items \ Handled /\ accepted[local[k][n + 1]] = k
      BY <1>1, <2>1 DEF Outstanding
    <3>2. local'[k][n] = local[k][n + 1] /\ local[k][1] # local'[k][n]
      BY <1>1
    <3>. QED BY <3>1, <3>2, HandleFacts
  <2>. QED BY <2>2, <2>3 DEF Ascending, Outstanding
<1>3. 1 \in 1..Len(local[k]) /\ accepted[local[k][1]] = k
      /\ \A j \in Kind : \A n \in 1..Len(queue[j]) : local[k][1] < queue[j][n]
  BY HandleFacts DEF InOrder, Outstanding
<1>4. ASSUME NEW j \in Kind, j # k
      PROVE  Ascending(local'[j]) /\ Outstanding(local[j], j)'
  BY <1>3, <1>4, HandleFacts DEF InOrder, Ascending, Outstanding
<1>5. ASSUME NEW j \in Kind
      PROVE  Ascending(queue'[j]) /\ Outstanding(queue[j], j)'
  BY <1>3, HandleFacts, QueueTypes DEF InOrder, Ascending, Outstanding
<1>6. ASSUME NEW i \in Kind, NEW j \in Kind,
             NEW m \in 1..Len(local'[i]), NEW n \in 1..Len(queue'[j])
      PROVE  local'[i][m] < queue'[j][n]
  <2>1. n \in 1..Len(queue[j]) /\ queue'[j][n] = queue[j][n]
    BY HandleFacts
  <2>2. CASE i = k
    BY <1>1, <2>1, <2>2 DEF InOrder
  <2>3. CASE i # k
    BY <2>1, <2>3, HandleFacts DEF InOrder
  <2>. QED BY <2>2, <2>3
<1>. QED
  BY <1>2, <1>4, <1>5, <1>6 DEF InOrder, Ascending, Outstanding

\* Swapping the queues out keeps each in order and empties the other side.
LEMMA TakeKeepsOrder ==
  ASSUME InOrder, TakeAll
  PROVE  InOrder'
<1>1. local' = queue /\ queue' = NoItems /\ accepted' = accepted
      /\ Handled' = Handled /\ Items' = Items
  BY DEF TakeAll, history, Handled, Stored, Items
<1>. QED
  BY <1>1, NoItemsEmpty DEF InOrder, Ascending, Outstanding

\* No step reorders what is outstanding.
LEMMA InOrderStep ==
  ASSUME TypeOK, InOrder, NothingLost, [Next]_vars
  PROVE  InOrder'
<1>1. CASE Idles
  BY <1>1 DEF Idles, InOrder, Ascending, Outstanding, Items
<1>. QED
  BY <1>1, StepMovesItems, SaveKeepsOrder, HandleKeepsOrder, TakeKeepsOrder

\* No step loses an item: it is handled, in the worker's hands or queued.
LEMMA NothingLostStep ==
  ASSUME TypeOK, InOrder, NothingLost, Positions, [Next]_vars
  PROVE  NothingLost'
<1>1. ASSUME NEW k \in Kind, Save(k) PROVE NothingLost'
  <2>1. Handled' \subseteq Items'
    BY <1>1, SaveFacts DEF NothingLost
  <2>2. ASSUME NEW i \in Items' \ Handled', i = Len(accepted) + 1
        PROVE  \E n \in 1..Len(queue'[k]) : queue'[k][n] = i
    BY <1>1, <2>2, SaveFacts
  <2>3. ASSUME NEW i \in Items \ Handled
        PROVE  \E j \in Kind :
                 \/ \E n \in 1..Len(local'[j]) : local'[j][n] = i
                 \/ \E n \in 1..Len(queue'[j]) : queue'[j][n] = i
    <3>1. PICK j \in Kind : \/ \E n \in 1..Len(local[j]) : local[j][n] = i
                           \/ \E n \in 1..Len(queue[j]) : queue[j][n] = i
      BY DEF NothingLost
    <3>2. CASE \E n \in 1..Len(local[j]) : local[j][n] = i
      BY <1>1, <3>2, SaveFacts
    <3>3. CASE \E n \in 1..Len(queue[j]) : queue[j][n] = i
      <4>1. CASE j = k
        BY <1>1, <3>3, <4>1, SaveFacts
      <4>2. CASE j # k
        BY <1>1, <3>3, <4>2, SaveFacts
      <4>. QED BY <4>1, <4>2
    <3>. QED BY <3>1, <3>2, <3>3
  <2>4. ASSUME NEW i \in Items' \ Handled'
        PROVE  \E j \in Kind :
                 \/ \E n \in 1..Len(local'[j]) : local'[j][n] = i
                 \/ \E n \in 1..Len(queue'[j]) : queue'[j][n] = i
    <3>1. CASE i = Len(accepted) + 1
      BY <2>2, <3>1
    <3>2. CASE i # Len(accepted) + 1
      <4>1. i \in Items \ Handled
        BY <1>1, <2>4, <3>2, SaveFacts
      <4>. QED BY <2>3, <4>1
    <3>. QED BY <3>1, <3>2
  <2>. QED BY <2>1, <2>4 DEF NothingLost
<1>2. CASE TakeAll
  <2>1. local' = queue /\ Handled' = Handled /\ Items' = Items
    BY <1>2 DEF TakeAll, history, Handled, Stored, Items
  <2>2. \A j \in Kind : Len(local[j]) = 0
    BY <1>2, NoItemsEmpty DEF Positions, TakeAll
  <2>. QED BY <2>1, <2>2 DEF NothingLost
<1>3. ASSUME NEW k \in Kind, Handles(k) PROVE NothingLost'
  <2>1. local[k][1] \in Items
    BY <1>3, HandleFacts DEF InOrder, Outstanding
  <2>2. ASSUME NEW i \in Items \ Handled, i # local[k][1]
        PROVE  \E j \in Kind :
                 \/ \E n \in 1..Len(local'[j]) : local'[j][n] = i
                 \/ \E n \in 1..Len(queue'[j]) : queue'[j][n] = i
    <3>1. PICK j \in Kind : \/ \E n \in 1..Len(local[j]) : local[j][n] = i
                           \/ \E n \in 1..Len(queue[j]) : queue[j][n] = i
      BY DEF NothingLost
    <3>2. CASE \E n \in 1..Len(queue[j]) : queue[j][n] = i
      BY <1>3, <3>2, HandleFacts
    <3>3. ASSUME NEW n \in 1..Len(local[j]), local[j][n] = i
          PROVE  \E m \in 1..Len(local'[j]) : local'[j][m] = i
      <4>1. CASE j = k
        <5>1. n - 1 \in 1..Len(local'[k]) /\ local'[k][n - 1] = local[k][n - 1 + 1]
          <6>1. n \in Nat /\ n >= 1 /\ n <= Len(local[k]) /\ n # 1
            BY <1>3, <2>2, <3>3, <4>1, HandleFacts
          <6>2. n - 1 \in 1..Len(local'[k])
            BY <1>3, <6>1, HandleFacts
          <6>. QED BY <1>3, <6>2, HandleFacts
        <5>. QED BY <3>3, <4>1, <5>1
      <4>2. CASE j # k
        BY <1>3, <3>3, <4>2, HandleFacts
      <4>. QED BY <4>1, <4>2
    <3>. QED BY <3>1, <3>2, <3>3
  <2>. QED BY <1>3, <2>1, <2>2, HandleFacts DEF NothingLost
<1>4. CASE Idles
  BY <1>4 DEF Idles, NothingLost, Items
<1>. QED
  BY <1>1, <1>2, <1>3, <1>4, StepMovesItems

\* The worker takes up an item only when everything it must follow is handled:
\* what is still queued is younger, and what it holds is in order.
LEMMA HandledWhenReady ==
  ASSUME TypeOK, InOrder, NothingLost, NEW k \in Kind, Turn(k),
         Len(local[k]) \in Nat \ {0}
  PROVE  /\ local[k][1] \in Items \ Handled /\ accepted[local[k][1]] = k
         /\ \A j \in 1..(local[k][1] - 1) :
              accepted[j] = k \/ k = "status" => j \in Handled
<1> DEFINE h == local[k][1]
<1>1. h \in Items \ Handled /\ accepted[h] = k /\ 1 \in 1..Len(local[k])
  BY DEF InOrder, Outstanding
<1>2. ASSUME NEW j \in 1..(h - 1), accepted[j] = k \/ k = "status",
             j \notin Handled
      PROVE  FALSE
  <2>1. h \in Nat /\ j \in Nat /\ j < h /\ j \in Items
    <3>1. Len(accepted) \in Nat
      BY LenProperties DEF TypeOK
    <3>2. h \in Nat /\ 1 <= h /\ h <= Len(accepted)
      BY <1>1, <3>1 DEF Items
    <3>. QED BY <3>1, <3>2 DEF Items
  <2>2. PICK q \in Kind : \/ \E n \in 1..Len(local[q]) : local[q][n] = j
                         \/ \E n \in 1..Len(queue[q]) : queue[q][n] = j
    BY <1>2, <2>1 DEF NothingLost
  <2>3. CASE \E n \in 1..Len(queue[q]) : queue[q][n] = j
    <3>1. PICK n \in 1..Len(queue[q]) : queue[q][n] = j
      BY <2>3
    <3>2. h < queue[q][n]
      BY <1>1 DEF InOrder
    <3>. QED BY <2>1, <3>1, <3>2
  <2>4. CASE \E n \in 1..Len(local[q]) : local[q][n] = j
    <3>1. PICK n \in 1..Len(local[q]) : local[q][n] = j
      BY <2>4
    <3>2. accepted[j] = q
      BY <3>1 DEF InOrder, Outstanding
    <3>3. CASE q = k
      <4>1. Ascending(local[k])
        BY DEF InOrder
      <4>2. n = 1 \/ 1 < n
        OBVIOUS
      <4>3. h = j \/ h < j
        BY <1>1, <3>1, <3>3, <4>1, <4>2 DEF Ascending
      <4>. QED BY <2>1, <4>3
    <3>4. CASE q # k
      <4>1. k = "status" /\ q \in {"point", "result"}
        BY <1>2, <3>2, <3>4 DEF Kind
      <4>2. local[q] = <<>>
        BY <4>1 DEF Turn
      <4>. QED BY <3>1, <4>2, EmptySeq
    <3>. QED BY <3>3, <3>4
  <2>. QED BY <2>2, <2>3, <2>4
<1>. QED
  BY <1>1, <1>2

\* A status is handled only after everything accepted before it.
LEMMA StatusStep ==
  ASSUME TypeOK, InOrder, NothingLost, StatusAfterItsData, [Next]_vars
  PROVE  StatusAfterItsData'
<1>1. ASSUME NEW k \in Kind, Handles(k) PROVE StatusAfterItsData'
  <2>1. /\ local[k][1] \in Items \ Handled /\ accepted[local[k][1]] = k
        /\ \A j \in 1..(local[k][1] - 1) :
             accepted[j] = k \/ k = "status" => j \in Handled
    BY <1>1, HandleFacts, HandledWhenReady DEF Handles
  <2>2. ASSUME k = "status" PROVE 1..local[k][1] \subseteq Handled'
    <3>1. local[k][1] \in Nat
      BY <2>1, LenProperties DEF Items, TypeOK
    <3>2. \A j \in 1..local[k][1] : j = local[k][1] \/ j \in 1..(local[k][1] - 1)
      BY <3>1
    <3>. QED BY <1>1, <2>1, <2>2, <3>2, HandleFacts
  <2>. QED BY <1>1, <2>1, <2>2, HandleFacts DEF StatusAfterItsData
<1>2. ASSUME NEW k \in Kind, Save(k) PROVE StatusAfterItsData'
  BY <1>2, SaveFacts DEF StatusAfterItsData, NothingLost
<1>3. CASE TakeAll
  BY <1>3 DEF TakeAll, history, Handled, Stored, StatusAfterItsData
<1>4. CASE Idles
  BY <1>4 DEF Idles, StatusAfterItsData
<1>. QED
  BY <1>1, <1>2, <1>3, <1>4, StepMovesItems

\* The inductive invariant holds in every reachable state.
THEOREM Invariance == Spec => []IInv
<1>1. IInv /\ [Next]_vars => IInv'
  BY TypeOKStep, PositionsStep, InOrderStep, NothingLostStep, StatusStep
     DEF IInv
<1>. QED
  BY <1>1, InitIInv, PTL DEF Spec

\* Whatever is queued is seen by the worker before it sleeps, or wakes it.
THEOREM NoLostWakeUp == Spec => []NoSleepOverWork
<1>1. IInv => NoSleepOverWork
  BY DEF IInv
<1>. QED
  BY <1>1, Invariance, PTL

\* The status of a run is handled after all that was saved before it.
THEOREM StatusComesLast == Spec => []StatusAfterItsData
<1>1. IInv => StatusAfterItsData
  BY DEF IInv
<1>. QED
  BY <1>1, Invariance, PTL

-----------------------------------------------------------------------------
(* The refinement. *)

\* Handling an item is a Write or a GiveUp of an item that is Ready.
LEMMA HandledIsReady ==
  ASSUME IInv, NEW k \in Kind, Turn(k)
  PROVE  Head(local[k]) \in Items /\ Promise!Ready(Head(local[k]))
<1>1. local[k] \in Seq(Nat) /\ local[k] # <<>>
  BY DEF IInv, TypeOK, Turn
<1>2. Len(local[k]) \in Nat \ {0} /\ Head(local[k]) = local[k][1]
  BY <1>1, EmptySeq
<1>3. /\ local[k][1] \in Items \ Handled /\ accepted[local[k][1]] = k
      /\ \A j \in 1..(local[k][1] - 1) :
           accepted[j] = k \/ k = "status" => j \in Handled
  BY <1>2, HandledWhenReady DEF IInv
<1>. QED
  BY <1>2, <1>3 DEF Promise!Ready, Promise!Items,
                         Promise!Handled, Promise!Stored, Items, Handled, Stored

\* Every step of the queues and the worker is a step of the promise, or none.
LEMMA StepRefines ==
  ASSUME IInv, [Next]_vars
  PROVE  [Promise!Next]_Promise!wbVars
<1> USE DEF worker, history, Promise!wbVars
<1>1. ASSUME NEW k \in Kind, Save(k) PROVE Promise!Next
  BY <1>1 DEF Save, Promise!Next, Promise!Accept, Promise!Kind, Kind
<1>2. ASSUME NEW k \in Kind, WriteItem(k) PROVE Promise!Next
  BY <1>2, HandledIsReady
     DEF WriteItem, Promise!Next, Promise!Write, Promise!Items, Items
<1>3. ASSUME NEW k \in Kind, FailItem(k) PROVE [Promise!Next]_Promise!wbVars
  BY <1>3, HandledIsReady
     DEF FailItem, Promise!Next, Promise!GiveUp, Promise!Items, Items
<1>4. ASSUME NEW k \in Kind, SkipItem(k) PROVE Promise!Next
  BY <1>4, HandledIsReady
     DEF SkipItem, Promise!Next, Promise!GiveUp, Promise!Items, Items
<1>5. CASE JoinWorker
  <2>1. \A k \in Kind : Len(local[k]) = 0 /\ Len(queue[k]) = 0
    BY <1>5, NoItemsEmpty DEF JoinWorker, IInv, Positions
  <2>2. Items \subseteq Handled
    BY <2>1 DEF IInv, NothingLost
  <2>. QED
    BY <1>5, <2>2 DEF JoinWorker, Promise!Next, Promise!Close, Promise!Items,
                      Promise!Handled, Promise!Stored, Items, Handled, Stored
<1>6. CASE RequestStop \/ NotifyWorker
  BY <1>6 DEF RequestStop, NotifyWorker
<1>7. CASE TakeAll \/ ExitLoop \/ DecideToSleep \/ Sleep \/ WakeUp
           \/ SpuriousWakeUp \/ BatchDone
  BY <1>7 DEF TakeAll, ExitLoop, DecideToSleep, Sleep, WakeUp, SpuriousWakeUp,
              BatchDone
<1>8. CASE UNCHANGED vars
  BY <1>8 DEF vars
<1>. QED
  BY <1>1, <1>2, <1>3, <1>4, <1>5, <1>6, <1>7, <1>8
     DEF Next, Destructor, WorkerLoop, Process

\* The wrapper keeps its promise: nothing accepted is lost, written twice or
\* overtaken, and nothing is outstanding when the destructor returns.
THEOREM Implements == Spec => ImplementsPromise
<1>1. Init => Promise!Init
  BY DEF Init, Promise!Init
<1>2. IInv /\ [Next]_vars => [Promise!Next]_Promise!wbVars
  BY StepRefines
<1>. QED
  BY <1>1, <1>2, Invariance, PTL DEF Spec, Promise!Spec, ImplementsPromise
=============================================================================
