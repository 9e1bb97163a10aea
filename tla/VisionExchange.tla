--------------------------- MODULE VisionExchange ---------------------------
(***************************************************************************)
(* A request to the vision system and its answer, between the sequence     *)
(* thread (a task that calls VAT_Context::ExecuteVisionCommand and polls   *)
(* IsValid), the packet thread (the handlers of VisionMemoryProcessor or   *)
(* VisionSLTProcessor), the vision system, and a caller of                 *)
(* AsyncSequenceRunner::Stop, which needs the context's mutex.             *)
(*                                                                         *)
(* A request carries no number: a processor keeps one slot per command,    *)
(* and an answer goes to the slots of all commands that share its stream   *)
(* and function.  The numbers here exist only to tell the answers apart.   *)
(* Every run of a sequence has a context, a processor and a link of its    *)
(* own.  How packets travel is VisionLink; the contents of an answer, and  *)
(* the mock that MemorySequenceStrategy creates today, are left out.       *)
(***************************************************************************)
EXTENDS Naturals, Sequences

CONSTANTS
  MaxRequests,   \* bound: how many requests are made
  MaxRuns        \* bound: how many sequences are run

ASSUME MaxRequestsAssumption == MaxRequests \in Nat
ASSUME MaxRunsAssumption == MaxRuns \in Nat

VARIABLES
  processor,  \* which of the two processors the strategies create
  runs,       \* how many runs have begun
  client,     \* where the sequence thread is
  commandOf,  \* the command of each request, "none" for one not made
  requests,   \* how many requests have been made
  locked,     \* VAT_Context::m_mutex is held by the sequence thread
  latest,     \* m_latestData: whose answer each command's slot holds, 0 for none
  open,       \* the requests the vision system has yet to answer
  inbox,      \* the packets that the packet thread has yet to dispatch
  todo,       \* the handlers it has yet to run for the packet it dispatches
  stop,       \* a call of Stop: none, waiting for the context, or done
  taken       \* history: the last request that took an answer, and whose it was

exchange == <<commandOf, requests, locked>>
packets == <<open, inbox, todo>>
vars == <<processor, runs, client, exchange, latest, packets, stop, taken>>

Processors == {"memory", "SLT"}
Commands == {"Measure", "SetCok", "InspReady"}
Requests == 1..MaxRequests

\* Stream and function of the answer to a command.
Stream(c) == IF c = "Measure" THEN "S107F9" ELSE "S2F42"

\* Mutant of Handlers: a handler is registered for the request, not the answer.
HandlersForRequest(stream) ==
  IF stream = "S2F42" THEN <<"SetCok">> ELSE <<>>

\* The commands whose handlers the constructors attach to an answer.
Handlers(stream) ==
  CASE stream = "S107F9" -> <<"Measure">>
    [] stream = "S2F42" /\ processor = "memory" -> <<"SetCok", "InspReady">>
    [] OTHER -> <<"SetCok">>

EmptySlots == [c \in Commands |-> 0]

Init ==
  /\ processor \in Processors
  /\ runs = 1
  /\ client = "idle"
  /\ commandOf = [n \in Requests |-> "none"]
  /\ requests = 0
  /\ locked = FALSE
  /\ latest = EmptySlots
  /\ open = {} /\ inbox = <<>> /\ todo = <<>>
  /\ stop = "none"
  /\ taken = [request |-> 0, answer |-> 0]

-----------------------------------------------------------------------------
(* The sequence thread. *)

\* Mutant of Execute: the request is not told from the one before.
ExecuteUncounted ==
  /\ client = "idle" /\ requests < MaxRequests
  /\ \E c \in Commands : commandOf' = [commandOf EXCEPT ![requests + 1] = c]
  /\ locked' = TRUE
  /\ client' = "clear"
  /\ UNCHANGED <<processor, runs, requests, latest, packets, stop, taken>>

\* ExecuteVisionCommand takes m_mutex and keeps it to its end.
Execute ==
  /\ client = "idle" /\ requests < MaxRequests
  /\ \E c \in Commands : commandOf' = [commandOf EXCEPT ![requests + 1] = c]
  /\ requests' = requests + 1
  /\ locked' = TRUE
  /\ client' = "clear"
  /\ UNCHANGED <<processor, runs, latest, packets, stop, taken>>

\* DeviceCheck, Light, or no processor: false at once, and the run ends.
ExecuteRefused ==
  /\ client = "idle"
  /\ client' = "over"
  /\ UNCHANGED <<processor, runs, exchange, latest, packets, stop, taken>>

\* Mutant of ClearLatestData: the previous answer stays.
ClearNothing ==
  /\ client = "clear"
  /\ client' = "send"
  /\ UNCHANGED <<processor, runs, exchange, latest, packets, stop, taken>>

ClearLatestData ==
  /\ client = "clear"
  /\ latest' = [latest EXCEPT ![commandOf[requests]] = 0]
  /\ client' = "send"
  /\ UNCHANGED <<processor, runs, exchange, packets, stop, taken>>

\* SendPacketAsync: the packet goes out, now or never ...
Send ==
  /\ client = "send"
  /\ open' = open \cup {requests}
  /\ client' = "return"
  /\ UNCHANGED <<processor, runs, exchange, latest, inbox, todo, stop, taken>>

\* Mutants of Return: the slot is cleared after the request has gone out; the
\* context stays locked until the answer is there.
ClearAfterSend ==
  /\ client = "return"
  /\ latest' = [latest EXCEPT ![commandOf[requests]] = 0]
  /\ locked' = FALSE
  /\ client' = "wait"
  /\ UNCHANGED <<processor, runs, commandOf, requests, packets, stop, taken>>

KeepLocked ==
  /\ client = "return"
  /\ client' = "wait"
  /\ UNCHANGED <<processor, runs, exchange, latest, packets, stop, taken>>

\* ... and when it is out, ExecuteVisionCommand returns.
Return ==
  /\ client = "return"
  /\ locked' = FALSE
  /\ client' = "wait"
  /\ UNCHANGED <<processor, runs, commandOf, requests, latest, packets, stop, taken>>

\* No connection, or the send fails: the task ends in error, and so does the run.
SendFails ==
  /\ client = "send"
  /\ locked' = FALSE
  /\ client' = "over"
  /\ UNCHANGED <<processor, runs, commandOf, requests, latest, packets, stop, taken>>

\* A poll of the task: IsValid ...
IsValid ==
  /\ client = "wait"
  /\ latest[commandOf[requests]] # 0
  /\ client' = "take"
  /\ UNCHANGED <<processor, runs, exchange, latest, packets, stop, taken>>

\* ... and GetLatestData, which locks m_dataMutex once more.
GetLatestData ==
  /\ client = "take"
  /\ taken' = [request |-> requests, answer |-> latest[commandOf[requests]]]
  /\ client' = "idle"
  /\ UNCHANGED <<processor, runs, exchange, latest, packets, stop>>

\* Mutant of GiveUp: the request is made again.
Retry ==
  /\ client = "wait"
  /\ client' = "idle"
  /\ UNCHANGED <<processor, runs, exchange, latest, packets, stop, taken>>

\* The task's deadline passes: it ends in error, and so does the run.
GiveUp ==
  /\ client = "wait"
  /\ client' = "over"
  /\ UNCHANGED <<processor, runs, exchange, latest, packets, stop, taken>>

\* The last task is done, or the loop of VatSequence sees the stop request.
Finish ==
  /\ client = "idle"
  /\ client' = "over"
  /\ UNCHANGED <<processor, runs, exchange, latest, packets, stop, taken>>

SeeStop ==
  /\ client \in {"idle", "wait"} /\ stop = "set"
  /\ client' = "over"
  /\ UNCHANGED <<processor, runs, exchange, latest, packets, stop, taken>>

\* The next run has everything new: a strategy makes the processor, today the
\* CMockVisionEventHandler, which stands where one for a link would.  A run
\* cannot be started while a Stop holds the runner's mutex.
NewRun ==
  /\ client = "over" /\ runs < MaxRuns /\ stop # "asked"
  /\ runs' = runs + 1
  /\ client' = "idle"
  /\ latest' = EmptySlots
  /\ open' = {} /\ inbox' = <<>> /\ todo' = <<>>
  /\ stop' = "none"
  /\ UNCHANGED <<processor, exchange, taken>>

-----------------------------------------------------------------------------
(* The vision system answers a request at most once, in any order, and the   *)
(* answer may be one that the handler refuses: a bad status, a short body.   *)

Answer ==
  /\ \E n \in open, good \in BOOLEAN :
       /\ open' = open \ {n}
       /\ inbox' = Append(inbox, [request |-> n, good |-> good])
  /\ UNCHANGED <<processor, runs, client, exchange, latest, todo, stop, taken>>

-----------------------------------------------------------------------------
(* The packet thread. *)

Dispatch ==
  /\ todo = <<>> /\ inbox # <<>>
  /\ LET packet == Head(inbox)
         called == Handlers(Stream(commandOf[packet.request]))
     IN todo' = [i \in 1..Len(called) |->
                   [command |-> called[i], request |-> packet.request, good |-> packet.good]]
  /\ inbox' = Tail(inbox)
  /\ UNCHANGED <<processor, runs, client, exchange, latest, open, stop, taken>>

\* OnMeasure, OnSetCok, OnInspReady: the slot is filled, or else cleared.
Handle ==
  /\ todo # <<>>
  /\ LET h == Head(todo)
     IN latest' = [latest EXCEPT ![h.command] = IF h.good THEN h.request ELSE 0]
  /\ todo' = Tail(todo)
  /\ UNCHANGED <<processor, runs, client, exchange, open, inbox, stop, taken>>

-----------------------------------------------------------------------------
(* AsyncSequenceRunner::Stop. *)

AskStop ==
  /\ stop = "none" /\ client # "over"
  /\ stop' = "asked"
  /\ UNCHANGED <<processor, runs, client, exchange, latest, packets, taken>>

SetStopRequested ==
  /\ stop = "asked" /\ ~locked
  /\ stop' = "set"
  /\ UNCHANGED <<processor, runs, client, exchange, latest, packets, taken>>

Next ==
  \/ Execute \/ ExecuteRefused \/ ClearLatestData \/ Send \/ Return \/ SendFails
  \/ IsValid \/ GetLatestData \/ GiveUp \/ Finish \/ SeeStop \/ NewRun
  \/ Answer
  \/ Dispatch \/ Handle
  \/ AskStop \/ SetStopRequested

Spec == Init /\ [][Next]_vars

\* A thread that can run does, but a send may block and the vision system may
\* stay silent.  The mutex is free between two polls and the loop looks for a
\* stop request before every poll, so neither is missed for ever.
FairSpec ==
  /\ Spec
  /\ WF_vars(ClearLatestData) /\ WF_vars(Return)
  /\ WF_vars(IsValid) /\ WF_vars(GetLatestData)
  /\ WF_vars(Dispatch) /\ WF_vars(Handle)
  /\ SF_vars(SetStopRequested) /\ SF_vars(SeeStop)

-----------------------------------------------------------------------------
(* Properties. *)

\* The type invariant of the exchange.
TypeOK ==
  /\ processor \in Processors
  /\ runs \in Nat \ {0}
  /\ client \in {"idle", "clear", "send", "return", "wait", "take", "over"}
  /\ commandOf \in [Requests -> Commands \cup {"none"}]
  /\ requests \in 0..MaxRequests
  /\ \A n \in Requests : n <= requests <=> commandOf[n] # "none"
  /\ client \notin {"idle", "over"} => requests # 0
  /\ locked \in BOOLEAN
  /\ latest \in [Commands -> 0..requests]
  /\ open \subseteq 1..requests
  /\ inbox \in Seq([request : 1..requests, good : BOOLEAN])
  /\ todo \in Seq([command : Commands, request : 1..requests, good : BOOLEAN])
  /\ stop \in {"none", "asked", "set"}
  /\ taken \in [request : 0..MaxRequests, answer : 0..MaxRequests]

\* An InspReady has followed a SetCok, and n is one of the two or came later.
\* With the memory processor the handlers for the one answer both commands share
\* run one after the other: SetCok may be taken and InspReady requested before
\* the second handler runs, which then answers InspReady with what SetCok got,
\* and from then on either may be one answer behind.
MayBeStale(n) ==
  /\ processor = "memory" /\ commandOf[n] # "Measure"
  /\ \E k, m \in Requests :
       k < m /\ m <= n /\ commandOf[k] = "SetCok" /\ commandOf[m] = "InspReady"

\* But for that, an answer that a task takes is the answer to the request it has
\* made, though neither carries a number and late answers are never discarded:
\* what protects a request is that its slot is emptied before it is sent, and
\* that a request without an answer ends the run and with it the link.
\* ExecuteVisionCommand, the handlers, IsValid and GetLatestData.
AnswerFits ==
  taken.request # 0 =>
    taken.answer = taken.request \/ MayBeStale(taken.request)

\* A good answer to request n is between the vision system and its slot.
Answered(n) ==
  /\ n = requests /\ client \in {"return", "wait"}
  /\ \/ \E i \in 1..Len(inbox) : inbox[i] = [request |-> n, good |-> TRUE]
     \/ \E i \in 1..Len(todo) :
          todo[i] = [command |-> commandOf[n], request |-> n, good |-> TRUE]
     \/ latest[commandOf[n]] = n

\* VisionSLTProcessor attaches no handler for the answer to InspReady.
Answerable(n) == processor = "memory" \/ commandOf[n] # "InspReady"

\* A good answer is taken, however early it comes, unless the run ends before:
\* the slot is cleared before the request goes out and never after.
AnswerTaken ==
  \A n \in Requests :
    Answered(n) /\ Answerable(n) /\ ~MayBeStale(n)
      ~> taken.request >= n \/ client = "over"

\* A stop request ends the run, though it has to wait for the context and the
\* vision system may never answer, unless a send blocks for ever with the
\* context locked.
StopHeard ==
  \/ stop = "asked" ~> client = "over"
  \/ <>[](client = "send")
=============================================================================
