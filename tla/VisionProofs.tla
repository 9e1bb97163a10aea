---------------------------- MODULE VisionProofs ----------------------------
(***************************************************************************)
(* Proofs about the two modules of the vision side: the requests and       *)
(* answers of VisionExchange, for any number of requests and runs, and     *)
(* the link below them, VisionLink, for any size and number of packets.    *)
(***************************************************************************)
EXTENDS VisionExchange, VisionLink, TLAPS, SequenceTheorems

(* The exchange. *)

\* A packet in the inbox.
AnswerPacket == [request : 1..requests, good : BOOLEAN]
Call(c, n, g) == [command |-> c, request |-> n, good |-> g]

\* The commands whose slots the answer to a command is written to.
HandledBy(command) ==
  IF command = "Measure" THEN {"Measure"}
  ELSE IF processor = "memory" THEN {"SetCok", "InspReady"} ELSE {"SetCok"}

InBox(n) == \E i \in 1..Len(inbox) : inbox[i].request = n
InHand(c, n) == \E i \in 1..Len(todo) : todo[i].command = c /\ todo[i].request = n

\* The slot of c will be written because of request n.
Pending(c, n) ==
  ((n \in open \/ InBox(n)) /\ c \in HandledBy(commandOf[n])) \/ InHand(c, n)

\* A SetCok has been followed by an InspReady, with the memory processor.
Mixed ==
  /\ processor = "memory"
  /\ \E k, m \in Requests : k < m /\ commandOf[k] = "SetCok" /\ commandOf[m] = "InspReady"

\* The handlers yet to run for one packet: all of them, or those left of them.
Shape ==
  \/ todo = <<>>
  \/ \E n \in 1..requests, g \in BOOLEAN :
       \/ commandOf[n] = "Measure" /\ todo = <<Call("Measure", n, g)>>
       \/ /\ commandOf[n] # "Measure" /\ processor = "SLT"
          /\ todo = <<Call("SetCok", n, g)>>
       \/ /\ commandOf[n] # "Measure" /\ processor = "memory"
          /\ \/ todo = <<Call("SetCok", n, g), Call("InspReady", n, g)>>
             \/ todo = <<Call("InspReady", n, g)>>

\* A request is answered once, and is in one place until it is.
Once ==
  /\ \A n \in open : ~InBox(n) /\ \A i \in 1..Len(todo) : todo[i].request # n
  /\ \A i, j \in 1..Len(inbox) : inbox[i].request = inbox[j].request => i = j
  /\ \A i \in 1..Len(inbox), j \in 1..Len(todo) : inbox[i].request # todo[j].request

\* A slot that holds an answer is not written by the same answer again, and
\* nobody fills the slot of InspReady for VisionSLTProcessor.
Slots ==
  /\ \A c \in Commands, n \in Requests : latest[c] = n => ~Pending(c, n)
  /\ processor = "SLT" => latest["InspReady"] = 0

\* Before a request goes out there is nothing of it anywhere.
Unsent ==
  client \in {"clear", "send"} =>
    /\ requests \notin open /\ ~InBox(requests)
    /\ \A c \in Commands : ~InHand(c, requests) /\ latest[c] # requests

\* While a run lasts, what may yet be written is the answer to the newest
\* request, whose task waits; or else the slot of InspReady for a SetCok.
Current ==
  client # "over" =>
    \A c \in Commands, n \in Requests :
      Pending(c, n) /\ (c = "Measure" \/ ~Mixed) =>
        \/ n = requests /\ client \in {"return", "wait"}
        \/ c = "InspReady" /\ commandOf[n] = "SetCok"

\* The slot that a task polls is empty or holds the answer to its request.
Own ==
  client \in {"send", "return", "wait", "take"}
    /\ (commandOf[requests] = "Measure" \/ ~Mixed) =>
       /\ latest[commandOf[requests]] \in {0, requests}
       /\ client = "take" => latest[commandOf[requests]] = requests

Fits ==
  /\ taken.request <= requests
  /\ AnswerFits

IInv == TypeOK /\ Shape /\ Once /\ Slots /\ Unsent /\ Current /\ Own /\ Fits

-----------------------------------------------------------------------------
(* Where an answer is. *)

\* A sequence, its first element and the rest.
LEMMA FirstAndRest ==
  ASSUME NEW S, NEW s \in Seq(S), s # <<>>
  PROVE  /\ Head(s) \in S /\ s[1] = Head(s)
         /\ Tail(s) \in Seq(S)
         /\ Len(s) \in Nat \ {0} /\ Len(Tail(s)) = Len(s) - 1
         /\ \A i \in 1..Len(Tail(s)) : Tail(s)[i] = s[i + 1]
BY HeadTailProperties, LenProperties

\* What TypeOK says of the variables that most steps read.
LEMMA Types ==
  ASSUME IInv
  PROVE  /\ TypeOK /\ Shape /\ Once /\ Slots /\ Unsent /\ Current /\ Own /\ Fits
         /\ MaxRequests \in Nat /\ requests \in Nat /\ requests <= MaxRequests
         /\ latest \in [Commands -> 0..requests]
         /\ commandOf \in [Requests -> Commands \cup {"none"}]
         /\ \A n \in Requests : n <= requests <=> commandOf[n] # "none"
BY MaxRequestsAssumption DEF IInv, TypeOK

\* What is yet to be written is for a request that was made, and goes to a slot
\* that its answer is for; the slot of SetCok is written before that of InspReady.
LEMMA PendingWhere ==
  ASSUME IInv, NEW c \in Commands, NEW n, Pending(c, n)
  PROVE  /\ n \in 1..requests
         /\ c \in HandledBy(commandOf[n])
         /\ processor = "memory" /\ c = "SetCok" => Pending("InspReady", n)
<1>1. CASE (n \in open \/ InBox(n)) /\ c \in HandledBy(commandOf[n])
  <2>1. n \in 1..requests
    <3>1. CASE n \in open
      BY <3>1, Types DEF TypeOK
    <3>2. CASE InBox(n)
      <4>1. PICK i \in 1..Len(inbox) : inbox[i].request = n
        BY <3>2 DEF InBox
      <4>2. inbox[i] \in AnswerPacket
        BY <4>1, Types, ElementOfSeq DEF TypeOK, AnswerPacket
      <4>. QED BY <4>1, <4>2 DEF AnswerPacket
    <3>. QED BY <1>1, <3>1, <3>2
  <2>. QED BY <1>1, <2>1 DEF Pending, HandledBy
<1>2. CASE InHand(c, n)
  <2>1. PICK i \in 1..Len(todo) : todo[i].command = c /\ todo[i].request = n
    BY <1>2 DEF InHand
  <2>2. PICK m \in 1..requests, g \in BOOLEAN :
          \/ commandOf[m] = "Measure" /\ todo = <<Call("Measure", m, g)>>
          \/ /\ commandOf[m] # "Measure" /\ processor = "SLT"
             /\ todo = <<Call("SetCok", m, g)>>
          \/ /\ commandOf[m] # "Measure" /\ processor = "memory"
             /\ \/ todo = <<Call("SetCok", m, g), Call("InspReady", m, g)>>
                \/ todo = <<Call("InspReady", m, g)>>
    BY <2>1, Types DEF Shape
  <2>3. n = m /\ c \in HandledBy(commandOf[n])
    BY <2>1, <2>2 DEF HandledBy, Call
  <2>4. ASSUME processor = "memory", c = "SetCok"
        PROVE  InHand("InspReady", n)
    <3>1. todo = <<Call("SetCok", m, g), Call("InspReady", m, g)>>
      BY <2>1, <2>2, <2>4 DEF Call
    <3>2. 2 \in 1..Len(todo) /\ todo[2].command = "InspReady" /\ todo[2].request = n
      BY <3>1, <2>3 DEF Call
    <3>. QED BY <3>2 DEF InHand
  <2>. QED BY <2>3, <2>4 DEF Pending
<1>. QED BY <1>1, <1>2 DEF Pending

\* Where nothing moves, nothing else becomes pending.
LEMMA SamePending ==
  ASSUME UNCHANGED <<processor, commandOf, packets>>
  PROVE  /\ \A c, n : Pending(c, n)' <=> Pending(c, n)
         /\ \A c, n : InHand(c, n)' <=> InHand(c, n)
         /\ \A n : InBox(n)' <=> InBox(n)
         /\ Mixed' <=> Mixed
BY DEF packets, Pending, HandledBy, InHand, InBox, Mixed

\* MayBeStale and Mixed agree on the newest request.
LEMMA StaleIsMixed ==
  ASSUME IInv, requests # 0, commandOf[requests] # "Measure", Mixed
  PROVE  MayBeStale(requests)
<1>1. PICK k, m \in Requests : k < m /\ commandOf[k] = "SetCok" /\ commandOf[m] = "InspReady"
  BY DEF Mixed
<1>2. m <= requests
  BY <1>1, Types
<1>. QED BY <1>1, <1>2 DEF MayBeStale, Mixed

\* A step that touches no packet and no slot keeps the invariant.
LEMMA QuietKeeps ==
  ASSUME IInv,
         UNCHANGED <<processor, commandOf, requests, latest, packets, taken>>,
         runs' \in Nat \ {0}, locked' \in BOOLEAN, stop' \in {"none", "asked", "set"},
         \/ client' = client
         \/ client' = "over"
         \/ client = "return" /\ client' = "wait"
         \/ IsValid
  PROVE  IInv'
<1>1. UNCHANGED <<open, inbox, todo>>
  BY DEF packets
<1>2. /\ \A c, n : Pending(c, n)' <=> Pending(c, n)
      /\ \A c, n : InHand(c, n)' <=> InHand(c, n)
      /\ \A n : InBox(n)' <=> InBox(n)
      /\ Mixed' <=> Mixed
  BY SamePending
<1>3. client \in {"idle", "clear", "send", "return", "wait", "take", "over"}
      /\ (client \notin {"idle", "over"} => requests # 0)
  BY Types DEF TypeOK
<1>4. \/ client' = client
      \/ client' = "over"
      \/ client = "return" /\ client' = "wait"
      \/ client = "wait" /\ client' = "take" /\ latest[commandOf[requests]] # 0
  BY DEF IsValid
<1>5. TypeOK'
  BY <1>1, <1>3, <1>4, Types DEF TypeOK
<1>6. Shape'
  BY <1>1, Types DEF Shape
<1>7. Once'
  BY <1>1, <1>2, Types DEF Once
<1>8. Slots'
  BY <1>1, <1>2, Types DEF Slots
<1>9. Unsent'
  BY <1>1, <1>2, <1>4, Types DEF Unsent
<1>10. requests # 0 => commandOf[requests] \in Commands
  BY Types DEF Requests
<1>11. Own'
  BY <1>2, <1>3, <1>4, <1>10, Types DEF Own
<1>12. Current'
  <2>1. CASE client' # "take" \/ client = "take"
    BY <1>2, <1>4, <2>1, Types DEF Current
  <2>2. CASE client = "wait" /\ client' = "take"
    <3> SUFFICES ASSUME NEW c \in Commands, NEW n \in Requests, Pending(c, n),
                        c = "Measure" \/ ~Mixed
                 PROVE  c = "InspReady" /\ commandOf[n] = "SetCok"
      BY <1>1, <1>2 DEF Current
    <3>. DEFINE own == commandOf[requests]
    <3>1. SUFFICES ASSUME n = requests
                   PROVE  c = "InspReady" /\ own = "SetCok"
      BY <2>2, Types DEF Current
    <3>2. /\ c \in HandledBy(own)
          /\ processor = "memory" /\ c = "SetCok" => Pending("InspReady", n)
      BY <3>1, PendingWhere
    <3>3. own = "Measure" \/ ~Mixed
      BY <3>2 DEF HandledBy
    <3>4. latest[own] = n /\ n # 0 /\ own \in Commands
      BY <1>3, <1>4, <1>10, <2>2, <3>1, <3>3, Types DEF Own
    <3>5. ~Pending(own, n)
      BY <3>4, Types DEF Slots
    <3>6. processor = "SLT" => own # "InspReady"
      BY <3>4, Types DEF Slots
    <3>7. processor \in {"memory", "SLT"}
      BY Types DEF TypeOK, Processors
    <3>. QED BY <3>2, <3>4, <3>5, <3>6, <3>7 DEF HandledBy, Commands
  <2>. QED BY <1>4, <2>1, <2>2
<1>13. Fits'
  BY <1>1, Types DEF Fits, AnswerFits, MayBeStale
<1>. QED BY <1>5, <1>6, <1>7, <1>8, <1>9, <1>11, <1>12, <1>13 DEF IInv

-----------------------------------------------------------------------------
(* The sequence thread. *)

\* The steps that leave packets and slots alone keep the invariant.
LEMMA SequenceThreadKeeps ==
  ASSUME IInv,
         \/ ExecuteRefused \/ Return \/ SendFails \/ IsValid \/ GiveUp \/ Finish
         \/ SeeStop \/ AskStop \/ SetStopRequested \/ UNCHANGED vars
  PROVE  IInv'
<1>1. UNCHANGED <<processor, runs, commandOf, requests, latest, packets, taken>>
  BY DEF ExecuteRefused, Return, SendFails, IsValid, GiveUp, Finish, SeeStop, AskStop,
         SetStopRequested, vars, exchange
<1>2. runs \in Nat \ {0} /\ locked \in BOOLEAN /\ stop \in {"none", "asked", "set"}
  BY Types DEF TypeOK
<1>3. locked' = locked \/ locked' = FALSE
  BY DEF ExecuteRefused, Return, SendFails, IsValid, GiveUp, Finish, SeeStop, AskStop,
         SetStopRequested, vars, exchange
<1>4. locked' \in BOOLEAN
  BY <1>2, <1>3
<1>5. stop' \in {"none", "asked", "set"}
  BY <1>2 DEF ExecuteRefused, Return, SendFails, IsValid, GiveUp, Finish, SeeStop, AskStop,
              SetStopRequested, vars
<1>6. \/ client' = client
      \/ client' = "over"
      \/ client = "return" /\ client' = "wait"
      \/ IsValid
  BY DEF ExecuteRefused, Return, SendFails, GiveUp, Finish, SeeStop, AskStop,
         SetStopRequested, vars
<1>. QED BY <1>1, <1>2, <1>4, <1>5, <1>6, QuietKeeps

\* ExecuteVisionCommand begins with a request of which there is no trace yet.
LEMMA ExecuteKeeps ==
  ASSUME IInv, Execute
  PROVE  IInv'
<1>1. /\ client = "idle" /\ client' = "clear" /\ requests < MaxRequests
      /\ requests' = requests + 1 /\ locked' = TRUE
      /\ UNCHANGED <<processor, runs, latest, open, inbox, todo, stop, taken>>
  BY DEF Execute, packets
<1>2. PICK c0 \in Commands : commandOf' = [commandOf EXCEPT ![requests + 1] = c0]
  BY DEF Execute
<1>3. /\ commandOf' \in [Requests -> Commands \cup {"none"}]
      /\ requests + 1 \in Requests /\ commandOf'[requests + 1] = c0 /\ c0 # "none"
      /\ \A n \in Requests : n # requests + 1 => commandOf'[n] = commandOf[n]
  BY <1>1, <1>2, Types DEF Requests, Commands
<1>4. 1..requests \subseteq 1..(requests + 1) /\ 1..requests \subseteq Requests
  BY <1>1, Types DEF Requests
<1>5. \A n \in 1..requests : commandOf'[n] = commandOf[n]
  <2>1. \A n \in 1..requests : n # requests + 1
    BY Types
  <2>. QED BY <1>3, <1>4, <2>1
<1>6. TypeOK'
  <2>1. inbox' \in Seq([request : 1..requests', good : BOOLEAN])
    <3>1. [request : 1..requests, good : BOOLEAN]
            \subseteq [request : 1..(requests + 1), good : BOOLEAN]
      BY <1>4
    <3>2. inbox \in Seq([request : 1..requests, good : BOOLEAN])
      BY Types DEF TypeOK
    <3>3. inbox \in Seq([request : 1..(requests + 1), good : BOOLEAN])
      BY <3>1, <3>2, SeqMonotonic
    <3>. QED BY <1>1, <3>3
  <2>2. todo' \in Seq([command : Commands, request : 1..requests', good : BOOLEAN])
    <3>1. [command : Commands, request : 1..requests, good : BOOLEAN]
            \subseteq [command : Commands, request : 1..(requests + 1), good : BOOLEAN]
      BY <1>4
    <3>2. todo \in Seq([command : Commands, request : 1..requests, good : BOOLEAN])
      BY Types DEF TypeOK
    <3>3. todo \in Seq([command : Commands, request : 1..(requests + 1), good : BOOLEAN])
      BY <3>1, <3>2, SeqMonotonic
    <3>. QED BY <1>1, <3>3
  <2>3. \A n \in Requests : n <= requests' <=> commandOf'[n] # "none"
    <3>. TAKE n \in Requests
    <3>1. CASE n = requests + 1
      BY <1>1, <1>3, <3>1, Types
    <3>2. CASE n # requests + 1
      <4>1. n \in Nat /\ (n <= requests + 1 <=> n <= requests)
        BY <3>2, Types DEF Requests
      <4>. QED BY <1>1, <1>3, <3>2, <4>1, Types
    <3>. QED BY <3>1, <3>2
  <2>4. latest' \in [Commands -> 0..requests'] /\ open' \subseteq 1..requests'
    BY <1>1, <1>4, Types DEF TypeOK
  <2>5. requests' \in 0..MaxRequests /\ requests' # 0
    BY <1>1, Types
  <2>6. locked' \in BOOLEAN
    BY <1>1
  <2>. QED BY <1>1, <1>3, <2>1, <2>2, <2>3, <2>4, <2>5, <2>6, Types DEF TypeOK
<1>7. Shape'
  <2>1. \A n \in 1..requests : n \in 1..requests'
    BY <1>1, <1>4
  <2>. QED BY <1>1, <1>5, <2>1, Types DEF Shape
<1>8. /\ \A n : InBox(n)' <=> InBox(n)
      /\ \A c, n : InHand(c, n)' <=> InHand(c, n)
  BY <1>1 DEF InBox, InHand
<1>9. /\ requests + 1 \notin open /\ ~InBox(requests + 1)
      /\ \A c \in Commands : ~InHand(c, requests + 1) /\ latest[c] # requests + 1
  <2>1. requests + 1 \notin 1..requests
    BY Types
  <2>2. requests + 1 \notin open
    BY <2>1, Types DEF TypeOK
  <2>3. ~InBox(requests + 1)
    <3> SUFFICES ASSUME NEW i \in 1..Len(inbox), inbox[i].request = requests + 1
                 PROVE  FALSE
      BY DEF InBox
    <3>1. inbox[i] \in AnswerPacket
      BY Types, ElementOfSeq DEF TypeOK, AnswerPacket
    <3>. QED BY <2>1, <3>1 DEF AnswerPacket
  <2>4. \A c \in Commands : ~InHand(c, requests + 1)
    BY <2>1, PendingWhere DEF Pending
  <2>5. \A c \in Commands : latest[c] # requests + 1
    BY Types
  <2>. QED BY <2>2, <2>3, <2>4, <2>5
<1>10. \A c \in Commands, n \in Requests :
         Pending(c, n)' => Pending(c, n) /\ n \in 1..requests /\ commandOf'[n] = commandOf[n]
  <2> SUFFICES ASSUME NEW c \in Commands, NEW n \in Requests, Pending(c, n)'
               PROVE  Pending(c, n) /\ n \in 1..requests /\ commandOf'[n] = commandOf[n]
    OBVIOUS
  <2>1. n # requests + 1
    BY <1>1, <1>8, <1>9 DEF Pending
  <2>2. commandOf'[n] = commandOf[n]
    BY <1>3, <2>1
  <2>3. Pending(c, n)
    BY <1>1, <1>8, <2>2 DEF Pending, HandledBy
  <2>. QED BY <2>2, <2>3, PendingWhere
<1>11. Once'
  BY <1>1, <1>8, Types DEF Once
<1>12. Slots'
  BY <1>1, <1>10, Types DEF Slots
<1>13. Unsent'
  BY <1>1, <1>8, <1>9 DEF Unsent
<1>14. Mixed => Mixed'
  <2>1. ASSUME NEW n \in Requests, commandOf[n] # "none"
        PROVE  commandOf'[n] = commandOf[n]
    BY <1>5, <2>1, Types DEF Requests
  <2>. QED BY <1>1, <2>1 DEF Mixed
<1>15. Current'
  BY <1>1, <1>10, <1>14, Types DEF Current
<1>16. Own'
  BY <1>1 DEF Own
<1>17. Fits'
  <2>1. taken.request <= requests'
    <3>1. taken.request \in Nat /\ taken.request <= requests
      BY Types DEF TypeOK, Fits
    <3>. QED BY <1>1, <3>1, Types
  <2>2. ASSUME taken.request # 0, MayBeStale(taken.request)
        PROVE  MayBeStale(taken.request)'
    <3>. DEFINE n == taken.request
    <3>1. n \in 1..requests
      BY <2>2, Types DEF TypeOK, Fits
    <3>2. PICK k, m \in Requests :
            k < m /\ m <= n /\ commandOf[k] = "SetCok" /\ commandOf[m] = "InspReady"
      BY <2>2 DEF MayBeStale
    <3>3. k \in 1..requests /\ m \in 1..requests
      BY <3>1, <3>2, Types DEF Requests
    <3>4. n' = n
      BY <1>1
    <3>. QED BY <1>1, <1>5, <2>2, <3>1, <3>2, <3>3, <3>4 DEF MayBeStale
  <2>. QED BY <1>1, <2>1, <2>2, Types DEF Fits, AnswerFits
<1>. QED BY <1>6, <1>7, <1>11, <1>12, <1>13, <1>15, <1>16, <1>17 DEF IInv

\* The slot is emptied.
LEMMA ClearKeeps ==
  ASSUME IInv, ClearLatestData
  PROVE  IInv'
<1>1. /\ client = "clear" /\ client' = "send"
      /\ latest' = [latest EXCEPT ![commandOf[requests]] = 0]
      /\ UNCHANGED <<processor, runs, commandOf, requests, locked, open, inbox, todo,
                     stop, taken>>
  BY DEF ClearLatestData, exchange, packets
<1>2. requests # 0 /\ commandOf[requests] \in Commands
  BY <1>1, Types DEF TypeOK, Requests
<1>3. /\ latest' \in [Commands -> 0..requests]
      /\ \A c \in Commands : latest'[c] = latest[c] \/ latest'[c] = 0
      /\ latest'[commandOf[requests]] = 0
  BY <1>1, <1>2, Types
<1>4. /\ \A c, n : Pending(c, n)' <=> Pending(c, n)
      /\ \A c, n : InHand(c, n)' <=> InHand(c, n)
      /\ \A n : InBox(n)' <=> InBox(n)
      /\ Mixed' <=> Mixed
  BY <1>1, SamePending DEF packets
<1>5. TypeOK'
  BY <1>1, <1>2, <1>3, Types DEF TypeOK
<1>6. Shape'
  BY <1>1, Types DEF Shape
<1>7. Once'
  BY <1>1, <1>4, Types DEF Once
<1>8. Slots'
  <2>1. \A n \in Requests : n # 0
    BY DEF Requests
  <2>2. "InspReady" \in Commands
    BY DEF Commands
  <2>. QED BY <1>1, <1>3, <1>4, <2>1, <2>2, Types DEF Slots
<1>9. Unsent'
  BY <1>1, <1>2, <1>3, <1>4, Types DEF Unsent
<1>10. Current'
  BY <1>1, <1>4, Types DEF Current
<1>11. Own'
  BY <1>1, <1>3 DEF Own
<1>12. Fits'
  BY <1>1, Types DEF Fits, AnswerFits, MayBeStale
<1>. QED BY <1>5, <1>6, <1>7, <1>8, <1>9, <1>10, <1>11, <1>12 DEF IInv

\* The request goes out.
LEMMA SendKeeps ==
  ASSUME IInv, Send
  PROVE  IInv'
<1>1. /\ client = "send" /\ client' = "return" /\ open' = open \cup {requests}
      /\ UNCHANGED <<processor, runs, commandOf, requests, locked, latest, inbox, todo,
                     stop, taken>>
  BY DEF Send, exchange
<1>2. requests \in 1..requests
  BY <1>1, Types DEF TypeOK
<1>3. /\ \A c, n : InHand(c, n)' <=> InHand(c, n)
      /\ \A n : InBox(n)' <=> InBox(n)
      /\ Mixed' <=> Mixed
      /\ \A c, n : Pending(c, n)' => Pending(c, n) \/ n = requests
  BY <1>1 DEF InHand, InBox, Mixed, Pending, HandledBy
<1>4. /\ requests \notin open /\ ~InBox(requests)
      /\ \A c \in Commands : ~InHand(c, requests) /\ latest[c] # requests
  BY <1>1, Types DEF Unsent
<1>5. TypeOK'
  BY <1>1, <1>2, Types DEF TypeOK
<1>6. Shape'
  BY <1>1, Types DEF Shape
<1>7. Once'
  <2>1. \A i \in 1..Len(todo) : todo[i].request # requests
    <3> SUFFICES ASSUME NEW i \in 1..Len(todo), todo[i].request = requests
                 PROVE  FALSE
      OBVIOUS
    <3>1. todo[i] \in [command : Commands, request : 1..requests, good : BOOLEAN]
      BY Types, ElementOfSeq DEF TypeOK
    <3>. QED BY <1>4, <3>1 DEF InHand
  <2>. QED BY <1>1, <1>3, <1>4, <2>1, Types DEF Once
<1>8. Slots'
  BY <1>1, <1>3, <1>4, Types DEF Slots
<1>9. Unsent'
  BY <1>1 DEF Unsent
<1>10. Current'
  BY <1>1, <1>3, Types DEF Current
<1>11. Own'
  BY <1>1, <1>3, Types DEF Own
<1>12. Fits'
  BY <1>1, Types DEF Fits, AnswerFits, MayBeStale
<1>. QED BY <1>5, <1>6, <1>7, <1>8, <1>9, <1>10, <1>11, <1>12 DEF IInv

\* The task takes what the slot holds.
LEMMA TakeKeeps ==
  ASSUME IInv, GetLatestData
  PROVE  IInv'
<1>1. /\ client = "take" /\ client' = "idle"
      /\ taken' = [request |-> requests, answer |-> latest[commandOf[requests]]]
      /\ UNCHANGED <<processor, runs, commandOf, requests, locked, latest, open, inbox,
                     todo, stop>>
  BY DEF GetLatestData, exchange, packets
<1>2. requests # 0 /\ commandOf[requests] \in Commands
  BY <1>1, Types DEF TypeOK, Requests
<1>3. /\ \A c, n : Pending(c, n)' <=> Pending(c, n)
      /\ \A c, n : InHand(c, n)' <=> InHand(c, n)
      /\ \A n : InBox(n)' <=> InBox(n)
      /\ Mixed' <=> Mixed
  BY <1>1, SamePending DEF packets
<1>4. latest[commandOf[requests]] \in 0..MaxRequests /\ requests \in 0..MaxRequests
  BY <1>2, Types
<1>5. TypeOK'
  BY <1>1, <1>4, Types DEF TypeOK
<1>6. Shape' /\ Once' /\ Slots' /\ Unsent' /\ Own'
  BY <1>1, <1>3, Types DEF Shape, Once, Slots, Unsent, Own
<1>7. Current'
  BY <1>1, <1>3, Types DEF Current
<1>8. Fits'
  <2>1. taken'.request = requests /\ taken'.answer = latest[commandOf[requests]]
    BY <1>1
  <2>2. CASE commandOf[requests] = "Measure" \/ ~Mixed
    BY <1>1, <2>1, <2>2, Types DEF Own, Fits, AnswerFits
  <2>3. CASE commandOf[requests] # "Measure" /\ Mixed
    <3>1. MayBeStale(requests)'
      BY <1>1, <1>2, <2>3, StaleIsMixed DEF MayBeStale
    <3>. QED BY <1>1, <2>1, <3>1, Types DEF Fits, AnswerFits, MayBeStale
  <2>. QED BY <2>2, <2>3
<1>. QED BY <1>5, <1>6, <1>7, <1>8 DEF IInv

\* A new run has slots and packets of its own.
LEMMA NewRunKeeps ==
  ASSUME IInv, NewRun
  PROVE  IInv'
<1>1. /\ runs' = runs + 1 /\ client' = "idle" /\ latest' = EmptySlots
      /\ open' = {} /\ inbox' = <<>> /\ todo' = <<>> /\ stop' = "none"
      /\ UNCHANGED <<processor, commandOf, requests, locked, taken>>
  BY DEF NewRun, exchange
<1>2. /\ \A c \in Commands : latest'[c] = 0
      /\ latest' \in [Commands -> 0..requests]
  BY <1>1, Types DEF EmptySlots
<1>3. /\ inbox' \in Seq([request : 1..requests', good : BOOLEAN])
      /\ todo' \in Seq([command : Commands, request : 1..requests', good : BOOLEAN])
  BY <1>1, EmptySeq
<1>4. runs' \in Nat \ {0}
  BY <1>1, Types DEF TypeOK
<1>5. TypeOK'
  BY <1>1, <1>2, <1>3, <1>4, Types DEF TypeOK
<1>6. \A c, n : ~Pending(c, n)'
  BY <1>1 DEF Pending, InBox, InHand
<1>7. Shape' /\ Once' /\ Unsent' /\ Own'
  BY <1>1 DEF Shape, Once, Unsent, Own
<1>8. Slots'
  BY <1>2, <1>6 DEF Slots, Commands
<1>9. Current'
  BY <1>6 DEF Current
<1>10. Fits'
  BY <1>1, Types DEF Fits, AnswerFits, MayBeStale
<1>. QED BY <1>5, <1>7, <1>8, <1>9, <1>10 DEF IInv

-----------------------------------------------------------------------------
(* The vision system and the packet thread. *)

\* An answer travels: it stays pending for the slots it was pending for.
LEMMA AnswerKeeps ==
  ASSUME IInv, Answer
  PROVE  IInv'
<1>. DEFINE len == Len(inbox)
<1>1. PICK m \in open, good \in BOOLEAN :
        /\ open' = open \ {m}
        /\ inbox' = Append(inbox, [request |-> m, good |-> good])
  BY DEF Answer
<1>2. UNCHANGED <<processor, runs, client, commandOf, requests, locked, latest, todo,
                  stop, taken>>
  BY DEF Answer, exchange
<1>3. m \in 1..requests
  BY <1>1, Types DEF TypeOK
<1>4. inbox \in Seq([request : 1..requests, good : BOOLEAN])
      /\ [request |-> m, good |-> good] \in [request : 1..requests, good : BOOLEAN]
  BY <1>3, Types DEF TypeOK
<1>5. /\ inbox' \in Seq([request : 1..requests, good : BOOLEAN])
      /\ len \in Nat /\ Len(inbox') = len + 1
      /\ \A i \in 1..len : inbox'[i] = inbox[i]
      /\ inbox'[len + 1].request = m
  BY <1>1, <1>4, AppendProperties, LenProperties
<1>6. TypeOK'
  BY <1>1, <1>2, <1>5, Types DEF TypeOK
<1>7. Shape'
  BY <1>2, Types DEF Shape
<1>8. ASSUME NEW i \in 1..Len(inbox')
      PROVE  (i \in 1..len /\ inbox'[i] = inbox[i]) \/ (i = len + 1 /\ inbox'[i].request = m)
  BY <1>5, <1>8
<1>9. \A n : InBox(n)' <=> InBox(n) \/ n = m
  <2>1. \A n : InBox(n)' => InBox(n) \/ n = m
    BY <1>8 DEF InBox
  <2>2. \A n : InBox(n) => InBox(n)'
    <3>1. 1..len \subseteq 1..Len(inbox')
      BY <1>5
    <3>. QED BY <1>5, <3>1 DEF InBox
  <2>3. InBox(m)'
    <3>1. len + 1 \in 1..Len(inbox')
      BY <1>5
    <3>. QED BY <1>5, <3>1 DEF InBox
  <2>. QED BY <2>1, <2>2, <2>3
<1>10. ~InBox(m) /\ \A i \in 1..Len(todo) : todo[i].request # m
  BY <1>1, Types DEF Once
<1>11. /\ \A c, n : InHand(c, n)' <=> InHand(c, n)
       /\ Mixed' <=> Mixed
  BY <1>2 DEF InHand, Mixed
<1>12. \A c, n : Pending(c, n)' <=> Pending(c, n)
  BY <1>1, <1>2, <1>9, <1>11 DEF Pending, HandledBy
<1>13. Once'
  <2>1. \A n \in open' : ~InBox(n)' /\ \A i \in 1..Len(todo') : todo'[i].request # n
    BY <1>1, <1>2, <1>9, Types DEF Once
  <2>2. \A i, j \in 1..Len(inbox') : inbox'[i].request = inbox'[j].request => i = j
    BY <1>8, <1>10, Types DEF Once, InBox
  <2>3. \A i \in 1..Len(inbox'), j \in 1..Len(todo') : inbox'[i].request # todo'[j].request
    BY <1>2, <1>8, <1>10, Types DEF Once
  <2>. QED BY <2>1, <2>2, <2>3 DEF Once
<1>14. Slots'
  BY <1>2, <1>12, Types DEF Slots
<1>15. Unsent'
  BY <1>1, <1>2, <1>9, <1>11, Types DEF Unsent
<1>16. Current'
  BY <1>2, <1>11, <1>12, Types DEF Current
<1>17. Own'
  BY <1>2, <1>11, Types DEF Own
<1>18. Fits'
  BY <1>2, Types DEF Fits, AnswerFits, MayBeStale
<1>. QED BY <1>6, <1>7, <1>13, <1>14, <1>15, <1>16, <1>17, <1>18 DEF IInv

\* A packet goes to the handlers of its stream and function, in their order.
LEMMA DispatchKeeps ==
  ASSUME IInv, Dispatch
  PROVE  IInv'
<1>. DEFINE n == Head(inbox).request
            g == Head(inbox).good
            called == Handlers(Stream(commandOf[n]))
<1>1. /\ todo = <<>> /\ inbox # <<>> /\ inbox' = Tail(inbox)
      /\ todo' = [i \in 1..Len(called) |->
                    [command |-> called[i], request |-> n, good |-> g]]
      /\ UNCHANGED <<processor, runs, client, commandOf, requests, locked, latest, open,
                     stop, taken>>
  BY DEF Dispatch, exchange
<1>2. inbox \in Seq([request : 1..requests, good : BOOLEAN])
  BY Types DEF TypeOK
<1>3. /\ Head(inbox) \in [request : 1..requests, good : BOOLEAN]
      /\ inbox' \in Seq([request : 1..requests, good : BOOLEAN])
      /\ Len(inbox) \in Nat \ {0} /\ Len(inbox') = Len(inbox) - 1
      /\ \A i \in 1..Len(inbox') : inbox'[i] = inbox[i + 1]
      /\ inbox[1] = Head(inbox)
  BY <1>1, <1>2, FirstAndRest
<1>4. n \in 1..requests /\ g \in BOOLEAN
  BY <1>3
<1>5. commandOf[n] \in {"Measure", "SetCok", "InspReady"} /\ n \in Requests
  BY <1>4, Types DEF Requests, Commands
<1>6. processor \in {"memory", "SLT"}
  BY Types DEF TypeOK, Processors
<1>7. \/ commandOf[n] = "Measure" /\ called = <<"Measure">>
      \/ commandOf[n] # "Measure" /\ processor = "SLT" /\ called = <<"SetCok">>
      \/ commandOf[n] # "Measure" /\ processor = "memory" /\ called = <<"SetCok", "InspReady">>
  BY <1>5, <1>6 DEF Handlers, Stream
<1>. HIDE DEF n, g, called
<1>8. /\ called = <<"Measure">> => todo' = <<Call("Measure", n, g)>>
      /\ called = <<"SetCok">> => todo' = <<Call("SetCok", n, g)>>
      /\ called = <<"SetCok", "InspReady">>
           => todo' = <<Call("SetCok", n, g), Call("InspReady", n, g)>>
  BY <1>1 DEF Call
<1>9. \/ commandOf[n] = "Measure" /\ todo' = <<Call("Measure", n, g)>>
      \/ commandOf[n] # "Measure" /\ processor = "SLT" /\ todo' = <<Call("SetCok", n, g)>>
      \/ /\ commandOf[n] # "Measure" /\ processor = "memory"
         /\ todo' = <<Call("SetCok", n, g), Call("InspReady", n, g)>>
  BY <1>7, <1>8
<1>10. Shape'
  BY <1>1, <1>4, <1>9 DEF Shape, Call
<1>11. TypeOK'
  <2>. DEFINE S == [command : Commands, request : 1..requests, good : BOOLEAN]
  <2>1. \A c \in Commands : Call(c, n, g) \in S
    BY <1>4 DEF Call
  <2>2. "Measure" \in Commands /\ "SetCok" \in Commands /\ "InspReady" \in Commands
    BY DEF Commands
  <2>. HIDE DEF S
  <2>3. \A a, b \in S : <<a>> \in Seq(S) /\ <<a, b>> \in Seq(S)
    OBVIOUS
  <2>4. todo' \in Seq(S)
    BY <1>9, <2>1, <2>2, <2>3
  <2>. USE DEF S
  <2>. QED BY <1>1, <1>3, <2>4, Types DEF TypeOK
<1>12. \A i \in 1..Len(todo') : todo'[i].request = n
  BY <1>9 DEF Call
<1>13. \A c, k : InHand(c, k)' <=> k = n /\ c \in HandledBy(commandOf[n])
  <2>. TAKE c, k
  <2>1. InHand(c, k)' => k = n /\ c \in HandledBy(commandOf[n])
    BY <1>6, <1>9 DEF InHand, HandledBy, Call
  <2>2. ASSUME k = n, c \in HandledBy(commandOf[n]) PROVE InHand(c, k)'
    <3>1. CASE \/ commandOf[n] = "Measure" /\ todo' = <<Call("Measure", n, g)>>
               \/ /\ commandOf[n] # "Measure" /\ processor = "SLT"
                  /\ todo' = <<Call("SetCok", n, g)>>
      <4>1. 1 \in 1..Len(todo') /\ todo'[1].command = c /\ todo'[1].request = k
        BY <2>2, <3>1 DEF HandledBy, Call
      <4>. QED BY <4>1 DEF InHand
    <3>2. CASE /\ commandOf[n] # "Measure" /\ processor = "memory"
               /\ todo' = <<Call("SetCok", n, g), Call("InspReady", n, g)>>
      <4>1. /\ 1 \in 1..Len(todo') /\ 2 \in 1..Len(todo')
            /\ todo'[1].request = k /\ todo'[2].request = k
            /\ todo'[1].command = c \/ todo'[2].command = c
        BY <2>2, <3>2 DEF HandledBy, Call
      <4>. QED BY <4>1 DEF InHand
    <3>. QED BY <1>9, <3>1, <3>2
  <2>. QED BY <2>1, <2>2
<1>14. 1 \in 1..Len(inbox) /\ inbox[1].request = n
  BY <1>3 DEF n
<1>15. ASSUME NEW i \in 1..Len(inbox')
       PROVE  i + 1 \in 1..Len(inbox) /\ i + 1 # 1 /\ inbox'[i] = inbox[i + 1]
  BY <1>3, <1>15
<1>16. \A k : InBox(k)' <=> InBox(k) /\ k # n
  <2>. TAKE k
  <2>1. InBox(k)' => InBox(k) /\ k # n
    BY <1>14, <1>15, Types DEF InBox, Once
  <2>2. ASSUME InBox(k), k # n PROVE InBox(k)'
    <3>1. PICK i \in 1..Len(inbox) : inbox[i].request = k
      BY <2>2 DEF InBox
    <3>2. i # 1
      BY <1>14, <2>2, <3>1
    <3>3. i - 1 \in 1..Len(inbox') /\ inbox'[i - 1] = inbox[i]
      <4>1. i - 1 \in 1..Len(inbox')
        BY <1>3, <3>1, <3>2
      <4>2. inbox'[i - 1] = inbox[(i - 1) + 1]
        BY <1>3, <4>1
      <4>. QED BY <3>1, <4>1, <4>2
    <3>. QED BY <3>1, <3>3 DEF InBox
  <2>. QED BY <2>1, <2>2
<1>17. InBox(n)
  BY <1>14 DEF InBox
<1>18. \A c, k : ~InHand(c, k)
  BY <1>1 DEF InHand
<1>19. \A c, k : Pending(c, k)' <=> Pending(c, k)
  BY <1>1, <1>13, <1>16, <1>17, <1>18 DEF Pending, HandledBy
<1>20. Mixed' <=> Mixed
  BY <1>1 DEF Mixed
<1>21. Once'
  <2>1. \A k \in open : ~InBox(k)' /\ \A i \in 1..Len(todo') : todo'[i].request # k
    BY <1>12, <1>16, <1>17, Types DEF Once
  <2>2. \A i, j \in 1..Len(inbox') : inbox'[i].request = inbox'[j].request => i = j
    <3> SUFFICES ASSUME NEW i \in 1..Len(inbox'), NEW j \in 1..Len(inbox'),
                        inbox'[i].request = inbox'[j].request
                 PROVE  i = j
      OBVIOUS
    <3>1. i + 1 = j + 1
      BY <1>15, Types DEF Once
    <3>. QED BY <1>3, <3>1
  <2>3. \A i \in 1..Len(inbox') : inbox'[i].request # n
    BY <1>14, <1>15, Types DEF Once
  <2>. QED BY <1>1, <1>12, <2>1, <2>2, <2>3 DEF Once
<1>22. Slots'
  BY <1>1, <1>19, Types DEF Slots
<1>23. Unsent'
  <2>1. ASSUME client \in {"clear", "send"} PROVE n # requests
    BY <1>17, <2>1, Types DEF Unsent
  <2>. QED BY <1>1, <1>13, <1>16, <2>1, Types DEF Unsent
<1>24. Current'
  BY <1>1, <1>19, <1>20, Types DEF Current
<1>25. Own'
  BY <1>1, <1>20, Types DEF Own
<1>26. Fits'
  BY <1>1, Types DEF Fits, AnswerFits, MayBeStale
<1>. QED BY <1>10, <1>11, <1>21, <1>22, <1>23, <1>24, <1>25, <1>26 DEF IInv

\* A handler writes its slot: that of a task which waits for this answer, or one
\* that no task polls before it has been emptied again.
LEMMA HandleKeeps ==
  ASSUME IInv, Handle
  PROVE  IInv'
<1>. DEFINE n == Head(todo).request
            hc == Head(todo).command
            value == IF Head(todo).good THEN n ELSE 0
<1>1. /\ todo # <<>> /\ todo' = Tail(todo)
      /\ latest' = [latest EXCEPT ![hc] = value]
      /\ UNCHANGED <<processor, runs, client, commandOf, requests, locked, open, inbox,
                     stop, taken>>
  BY DEF Handle, exchange
<1>2. todo \in Seq([command : Commands, request : 1..requests, good : BOOLEAN])
  BY Types DEF TypeOK
<1>3. /\ Head(todo) \in [command : Commands, request : 1..requests, good : BOOLEAN]
      /\ todo' \in Seq([command : Commands, request : 1..requests, good : BOOLEAN])
      /\ Len(todo) \in Nat \ {0} /\ todo[1] = Head(todo)
  BY <1>1, <1>2, FirstAndRest
<1>4. n \in 1..requests /\ hc \in Commands /\ value \in {0, n} /\ n \in Requests
  BY <1>3, Types DEF Requests
<1>. HIDE DEF n, hc, value
<1>5. 1 \in 1..Len(todo) /\ todo[1].request = n /\ todo[1].command = hc
  BY <1>3 DEF n, hc
<1>6. InHand(hc, n) /\ Pending(hc, n)
  BY <1>5 DEF InHand, Pending
<1>7. PICK m \in 1..requests, g \in BOOLEAN :
        \/ commandOf[m] = "Measure" /\ todo = <<Call("Measure", m, g)>>
        \/ /\ commandOf[m] # "Measure" /\ processor = "SLT"
           /\ todo = <<Call("SetCok", m, g)>>
        \/ /\ commandOf[m] # "Measure" /\ processor = "memory"
           /\ \/ todo = <<Call("SetCok", m, g), Call("InspReady", m, g)>>
              \/ todo = <<Call("InspReady", m, g)>>
  BY <1>1, Types DEF Shape
<1>8. m = n
  BY <1>5, <1>7 DEF Call
<1>9. \/ todo' = <<>>
      \/ /\ commandOf[n] # "Measure" /\ processor = "memory" /\ hc = "SetCok"
         /\ todo' = <<Call("InspReady", n, g)>>
  <2>1. \A a, b : Tail(<<a>>) = <<>> /\ Tail(<<a, b>>) = <<b>>
    OBVIOUS
  <2>2. CASE todo = <<Call("SetCok", n, g), Call("InspReady", n, g)>>
    <3>1. hc = "SetCok" /\ commandOf[n] # "Measure" /\ processor = "memory"
      BY <1>5, <1>7, <1>8, <2>2 DEF Call
    <3>. QED BY <1>1, <2>1, <2>2, <3>1
  <2>3. CASE \E c : todo = <<Call(c, n, g)>>
    BY <1>1, <2>1, <2>3
  <2>. QED BY <1>7, <1>8, <2>2, <2>3
<1>10. Shape'
  BY <1>1, <1>4, <1>9 DEF Shape, Call
<1>11. \A c \in Commands : latest'[c] = IF c = hc THEN value ELSE latest[c]
  BY <1>1, <1>4, Types
<1>12. latest' \in [Commands -> 0..requests]
  BY <1>1, <1>4, Types
<1>13. TypeOK'
  BY <1>1, <1>3, <1>12, Types DEF TypeOK
<1>14. \A c, k : InHand(c, k)' => k = n /\ c = "InspReady" /\ c # hc /\ InHand(c, k)
  <2> SUFFICES ASSUME NEW c, NEW k, InHand(c, k)'
               PROVE  k = n /\ c = "InspReady" /\ c # hc /\ InHand(c, k)
    OBVIOUS
  <2>1. PICK i \in 1..Len(todo') : todo'[i].command = c /\ todo'[i].request = k
    BY DEF InHand
  <2>2. /\ commandOf[n] # "Measure" /\ processor = "memory" /\ hc = "SetCok"
        /\ todo' = <<Call("InspReady", n, g)>>
    BY <1>9, <2>1
  <2>3. k = n /\ c = "InspReady" /\ c # hc
    BY <2>1, <2>2 DEF Call
  <2>4. todo = <<Call("SetCok", n, g), Call("InspReady", n, g)>>
    BY <1>5, <1>7, <1>8, <2>2 DEF Call
  <2>5. 2 \in 1..Len(todo) /\ todo[2].command = c /\ todo[2].request = k
    BY <2>3, <2>4 DEF Call
  <2>. QED BY <2>3, <2>5 DEF InHand
<1>15. \A k : InBox(k)' <=> InBox(k)
  BY <1>1 DEF InBox
<1>16. n \notin open /\ ~InBox(n)
  BY <1>5, Types DEF Once, InBox
<1>17. \A c, k : Pending(c, k)' => Pending(c, k) /\ (k = n => c # hc)
  BY <1>1, <1>14, <1>15, <1>16 DEF Pending, HandledBy
<1>18. Mixed' <=> Mixed
  BY <1>1 DEF Mixed
<1>19. Once'
  <2>1. \A i \in 1..Len(todo') : todo'[i].request = n
    BY <1>9 DEF Call
  <2>2. \A k \in open : ~InBox(k)' /\ \A i \in 1..Len(todo') : todo'[i].request # k
    BY <1>15, <1>16, <2>1, Types DEF Once
  <2>3. \A i \in 1..Len(inbox), j \in 1..Len(todo') : inbox[i].request # todo'[j].request
    BY <1>16, <2>1 DEF InBox
  <2>. QED BY <1>1, <2>2, <2>3, Types DEF Once
<1>20. hc \in HandledBy(commandOf[n])
  BY <1>4, <1>6, PendingWhere
<1>21. Slots'
  <2>1. \A c \in Commands, k \in Requests : latest'[c] = k => ~Pending(c, k)'
    <3> SUFFICES ASSUME NEW c \in Commands, NEW k \in Requests, latest'[c] = k, Pending(c, k)'
                 PROVE  FALSE
      OBVIOUS
    <3>1. CASE c = hc
      <4>1. k # 0
        BY DEF Requests
      <4>2. k = n
        BY <1>4, <1>11, <3>1, <4>1
      <4>. QED BY <1>17, <3>1, <4>2
    <3>2. CASE c # hc
      BY <1>11, <1>17, <3>2, Types DEF Slots
    <3>. QED BY <3>1, <3>2
  <2>2. processor = "SLT" => hc # "InspReady"
    BY <1>20 DEF HandledBy
  <2>3. processor = "SLT" => latest'["InspReady"] = 0
    BY <1>11, <2>2, Types DEF Slots, Commands
  <2>. QED BY <1>1, <2>1, <2>3 DEF Slots
<1>22. Unsent'
  <2> SUFFICES ASSUME client \in {"clear", "send"}
               PROVE  /\ requests \notin open /\ ~InBox(requests)
                      /\ \A c \in Commands : ~InHand(c, requests)' /\ latest'[c] # requests
    BY <1>1, <1>15 DEF Unsent
  <2>1. n # requests /\ requests # 0
    BY <1>1, <1>4, <1>6, Types DEF Unsent, TypeOK
  <2>2. value # requests
    BY <1>4, <2>1
  <2>3. \A c \in Commands : ~InHand(c, requests)'
    <3>1. \A c : InHand(c, requests)' => requests = n
      BY <1>1, <1>14
    <3>. QED BY <2>1, <3>1
  <2>. QED BY <1>11, <2>2, <2>3, Types DEF Unsent
<1>23. Current'
  BY <1>1, <1>17, <1>18, Types DEF Current
<1>24. Own'
  <2>. DEFINE own == commandOf[requests]
  <2> SUFFICES ASSUME client \in {"send", "return", "wait", "take"},
                      own = "Measure" \/ ~Mixed
               PROVE  /\ latest'[own] \in {0, requests}
                      /\ client = "take" => latest'[own] = requests
    BY <1>1, <1>18 DEF Own
  <2>1. own \in Commands
    BY Types DEF TypeOK, Requests
  <2>2. CASE own # hc
    BY <1>11, <2>1, <2>2, Types DEF Own
  <2>3. CASE own = hc
    <3>1. \/ n = requests /\ client \in {"return", "wait"}
          \/ hc = "InspReady" /\ commandOf[n] = "SetCok"
      BY <1>4, <1>6, <2>3, Types DEF Current
    <3>2. ~(hc = "InspReady" /\ commandOf[n] = "SetCok")
      <4> SUFFICES ASSUME hc = "InspReady", commandOf[n] = "SetCok"
                   PROVE  FALSE
        OBVIOUS
      <4>1. processor = "memory"
        BY <1>20 DEF HandledBy
      <4>2. n # requests /\ n < requests /\ requests \in Requests
        BY <1>4, <2>3, Types DEF Requests
      <4>. QED BY <1>4, <2>3, <4>1, <4>2 DEF Mixed
    <3>3. n = requests /\ client \in {"return", "wait"}
      BY <3>1, <3>2
    <3>. QED BY <1>4, <1>11, <2>1, <2>3, <3>3
  <2>. QED BY <2>2, <2>3
<1>25. Fits'
  BY <1>1, Types DEF Fits, AnswerFits, MayBeStale
<1>. QED BY <1>10, <1>13, <1>19, <1>21, <1>22, <1>23, <1>24, <1>25 DEF IInv

-----------------------------------------------------------------------------
(* The theorems. *)

\* The invariant holds when the first run begins.
LEMMA InitIInv == Init => IInv
<1> SUFFICES ASSUME Init PROVE IInv
  OBVIOUS
<1>1. /\ processor \in Processors /\ runs = 1 /\ client = "idle" /\ requests = 0
      /\ commandOf = [n \in Requests |-> "none"] /\ locked = FALSE
      /\ latest = EmptySlots /\ open = {} /\ inbox = <<>> /\ todo = <<>>
      /\ stop = "none" /\ taken = [request |-> 0, answer |-> 0]
  BY DEF Init
<1>2. \A c \in Commands : latest[c] = 0
  BY <1>1 DEF EmptySlots
<1>3. \A c, n : ~Pending(c, n)
  BY <1>1 DEF Pending, InBox, InHand
<1>4. TypeOK
  <2>1. /\ inbox \in Seq([request : 1..requests, good : BOOLEAN])
        /\ todo \in Seq([command : Commands, request : 1..requests, good : BOOLEAN])
    BY <1>1, EmptySeq
  <2>2. locked \in BOOLEAN
    BY <1>1
  <2>3. /\ commandOf \in [Requests -> Commands \cup {"none"}]
        /\ \A n \in Requests : n <= requests <=> commandOf[n] # "none"
    BY <1>1, MaxRequestsAssumption DEF Requests
  <2>4. latest \in [Commands -> 0..requests]
    BY <1>1 DEF EmptySlots
  <2>5. taken \in [request : 0..MaxRequests, answer : 0..MaxRequests]
    BY <1>1, MaxRequestsAssumption
  <2>. QED BY <1>1, <2>1, <2>2, <2>3, <2>4, <2>5, MaxRequestsAssumption DEF TypeOK
<1>5. Shape /\ Once /\ Unsent /\ Own
  BY <1>1 DEF Shape, Once, Unsent, Own
<1>6. Slots
  <2>1. "InspReady" \in Commands
    BY DEF Commands
  <2>. QED BY <1>2, <1>3, <2>1 DEF Slots
<1>7. Current
  BY <1>3 DEF Current
<1>8. Fits
  BY <1>1 DEF Fits, AnswerFits
<1>. QED BY <1>4, <1>5, <1>6, <1>7, <1>8 DEF IInv

\* Every step keeps it.
LEMMA NextKeeps == IInv /\ [Next]_vars => IInv'
BY SequenceThreadKeeps, ExecuteKeeps, ClearKeeps, SendKeeps, TakeKeeps, NewRunKeeps,
   AnswerKeeps, DispatchKeeps, HandleKeeps DEF Next

\* Every reachable state of the exchange satisfies the invariant.
LEMMA Invariant == Spec => []IInv
BY InitIInv, NextKeeps, PTL DEF Spec

\* Every variable has its type: a slot, a packet and a handler's call always name
\* a request that was made.
THEOREM TypeCorrect == Spec => []TypeOK
<1>1. IInv => TypeOK
  BY DEF IInv
<1>. QED BY <1>1, Invariant, PTL

\* A task never takes the answer to another request, though no answer carries a
\* number: an answer is handled once, a slot is empty when its request goes out,
\* and no other request is made before this one's answer is taken or the run is
\* over.  The exception is InspReady after SetCok with VisionMemoryProcessor.
THEOREM AnswersFit == Spec => []AnswerFits
<1>1. IInv => AnswerFits
  BY DEF IInv, Fits
<1>. QED BY <1>1, Invariant, PTL

-----------------------------------------------------------------------------
(* The link. *)

\* The number of a cell in all that the vision system sends.
Place(cell) == (cell[1] - 1) * CellsPerPacket + cell[2]

\* The cells of s are those that come after the n-th, in order.
Continues(s, n) == \A i \in 1..Len(s) : Place(s[i]) = n + i

\* The owner has not yet given the transport its callback, or not taken it away.
Attached == callback \/ life \in {"new", "connected"}

\* Who may be where: the callback runs only while it is set, it is set only
\* between StartReceiving and StopReceiving, and the packet thread takes the
\* queue only when it has dispatched what it took before.
Threads ==
  /\ receiver = "push" => callback
  /\ life \in {"controllerGone", "clearedLast", "joinReceiver", "destroyed"} => ~callback
  /\ life \in {"new", "connected"} => receiver = "none" /\ ~callback
  /\ life \in {"new", "connected", "receiving"} => packetLoop = "none"
  /\ packetLoop # "dispatch" => local = <<>>

CutCells == Len(Pipeline) * CellsPerPacket

\* How many cells have been received, and are handed on or held.
Received == CutCells + Len(buffer) + Len(chunk)

\* The cells between the vision system and the handlers.
Held ==
  CellsIn(wire) \cup CellsIn(chunk) \cup CellsIn(buffer)
    \cup UNION {CellsIn(frame) : frame \in CellsIn(Pipeline)}

LinkInv == LinkTypeOK /\ Threads

\* No cell comes or goes between the socket and the handlers.
CountInv ==
  /\ LinkInv
  /\ Attached => /\ Received + Len(wire) = sent * CellsPerPacket
                 /\ Held = (1..sent) \X (1..CellsPerPacket)

\* What the framer and the receive thread hold begins packet p, which is the
\* next, and goes no further.
Beginning(p) ==
  /\ p = Len(Pipeline) + 1
  /\ Received <= CutCells + CellsPerPacket
  /\ Continues(buffer, CutCells)
  /\ Continues(chunk, CutCells + Len(buffer))

\* What is to come is the rest of the stream; a packet of which something has
\* been received, and that shares no recv, is begun at the front of the buffer.
Aligned ==
  /\ Continues(wire, Received)
  /\ \A p \in Nat :
       p > Len(Pipeline) /\ p \notin merged /\ (p - 1) * CellsPerPacket < Received
         => Beginning(p)
  /\ receiver \notin {"extract", "push"} => Len(buffer) < CellsPerPacket

StreamInv == CountInv /\ AloneInPlace /\ (Attached => Aligned)

-----------------------------------------------------------------------------
(* Cells and packets. *)

\* A packet is not empty.
LEMMA CellsPerPacketIsPositive == CellsPerPacket \in Nat /\ CellsPerPacket >= 1
BY CellsAssumption

\* The product of a number of packets and the cells of a packet.
LEMMA CellsOf ==
  ASSUME NEW m \in Nat
  PROVE  /\ m * CellsPerPacket \in Nat
         /\ (m + 1) * CellsPerPacket = m * CellsPerPacket + CellsPerPacket
BY CellsPerPacketIsPositive

\* No two packets share a place.
LEMMA PlacesApart ==
  ASSUME NEW a \in Int, NEW b \in Int, NEW i \in 1..CellsPerPacket, NEW j \in 1..CellsPerPacket,
         a * CellsPerPacket + i = b * CellsPerPacket + j
  PROVE  a = b /\ i = j
<1> DEFINE C == CellsPerPacket
<1>1. C \in Int /\ i <= C /\ j <= C /\ i >= 1 /\ j >= 1
  BY CellsPerPacketIsPositive
<1>2. (a - b) * C = j - i
  BY <1>1
<1>3. ASSUME NEW d \in Int, d >= 1 PROVE d * C >= C
  BY <1>1, <1>3
<1>4. ~(a - b >= 1)
  BY <1>1, <1>2, <1>3
<1>5. ~(b - a >= 1)
  <2>1. (b - a) * C = i - j
    BY <1>1
  <2> QED BY <1>1, <1>3, <2>1
<1>6. a = b
  BY <1>4, <1>5
<1> QED BY <1>1, <1>6

\* A cell is where its place says.
LEMMA PlaceDetermines ==
  ASSUME NEW cell \in Cells, NEW m \in Nat, NEW k \in 1..CellsPerPacket,
         Place(cell) = m * CellsPerPacket + k
  PROVE  cell = <<m + 1, k>>
<1>1. cell[1] \in Nat /\ cell[2] \in 1..CellsPerPacket /\ cell = <<cell[1], cell[2]>>
  BY MaxPacketsAssumption DEF Cells
<1>2. cell[1] - 1 = m /\ cell[2] = k
  BY <1>1, PlacesApart DEF Place
<1> QED BY <1>1, <1>2

\* A packet is a sequence of its cells, at the places that follow the packets before it.
LEMMA PacketCells ==
  ASSUME NEW p \in 1..MaxPackets
  PROVE  /\ Packet(p) \in Seq(Cells) /\ Len(Packet(p)) = CellsPerPacket
         /\ Packet(p) \in Frames
         /\ Continues(Packet(p), (p - 1) * CellsPerPacket)
<1>1. Packet(p) \in [1..CellsPerPacket -> Cells]
  BY DEF Packet, Cells
<1>2. Packet(p) \in Seq(Cells)
  BY <1>1, CellsPerPacketIsPositive, SeqDef
<1>3. Len(Packet(p)) = CellsPerPacket
  BY <1>1, <1>2, CellsPerPacketIsPositive, LenProperties
<1>4. Continues(Packet(p), (p - 1) * CellsPerPacket)
  BY <1>3, CellsPerPacketIsPositive, MaxPacketsAssumption DEF Continues, Place, Packet
<1> QED BY <1>1, <1>2, <1>3, <1>4 DEF Frames

\* What continues a continuation is part of it.
LEMMA ConcatContinues ==
  ASSUME NEW s \in Seq(Cells), NEW t \in Seq(Cells), NEW n \in Nat,
         Continues(s, n), Continues(t, n + Len(s))
  PROVE  Continues(s \o t, n)
<1>1. Len(s) \in Nat /\ Len(t) \in Nat
  BY LenProperties
<1>2. Len(s \o t) = Len(s) + Len(t)
  BY ConcatProperties
<1> SUFFICES ASSUME NEW i \in 1..(Len(s) + Len(t)) PROVE Place((s \o t)[i]) = n + i
  BY <1>2 DEF Continues
<1>3. CASE i <= Len(s)
  <2>1. (s \o t)[i] = s[i] /\ i \in 1..Len(s)
    BY <1>1, <1>3, ConcatProperties
  <2> QED BY <2>1 DEF Continues
<1>4. CASE i > Len(s)
  <2>1. (s \o t)[i] = t[i - Len(s)] /\ i - Len(s) \in 1..Len(t)
    BY <1>1, <1>4, ConcatProperties
  <2>2. Place(t[i - Len(s)]) = n + Len(s) + (i - Len(s))
    BY <2>1 DEF Continues
  <2> QED BY <1>1, <2>1, <2>2
<1> QED BY <1>1, <1>3, <1>4

\* Two parts of a sequence of cells.
LEMMA SplitCells ==
  ASSUME NEW s \in Seq(Cells), NEW k \in 0..Len(s)
  PROVE  /\ SubSeq(s, 1, k) \in Seq(Cells) /\ Len(SubSeq(s, 1, k)) = k
         /\ \A i \in 1..k : SubSeq(s, 1, k)[i] = s[i]
         /\ SubSeq(s, k + 1, Len(s)) \in Seq(Cells)
         /\ Len(SubSeq(s, k + 1, Len(s))) = Len(s) - k
         /\ \A i \in 1..(Len(s) - k) : SubSeq(s, k + 1, Len(s))[i] = s[k + i]
<1>1. Len(s) \in Nat /\ k \in Nat /\ k <= Len(s) /\ \A i \in 1..Len(s) : s[i] \in Cells
  BY LenProperties, ElementOfSeq
<1>2. /\ SubSeq(s, 1, k) \in Seq(Cells)
      /\ Len(SubSeq(s, 1, k)) = IF 1 <= k THEN k - 1 + 1 ELSE 0
      /\ \A i \in 1..(k - 1 + 1) : SubSeq(s, 1, k)[i] = s[1 + i - 1]
  BY <1>1, SubSeqProperties
<1>3. /\ SubSeq(s, k + 1, Len(s)) \in Seq(Cells)
      /\ Len(SubSeq(s, k + 1, Len(s))) = IF k + 1 <= Len(s) THEN Len(s) - (k + 1) + 1 ELSE 0
      /\ \A i \in 1..(Len(s) - (k + 1) + 1) : SubSeq(s, k + 1, Len(s))[i] = s[k + 1 + i - 1]
  BY <1>1, SubSeqProperties
<1> QED BY <1>1, <1>2, <1>3

\* The two parts of a continuation.
LEMMA SplitContinues ==
  ASSUME NEW s \in Seq(Cells), NEW k \in 0..Len(s), NEW n \in Nat, Continues(s, n)
  PROVE  /\ Continues(SubSeq(s, 1, k), n)
         /\ Continues(SubSeq(s, k + 1, Len(s)), n + k)
<1>1. Len(s) \in Nat /\ k \in Nat /\ k <= Len(s)
  BY LenProperties
<1>2. ASSUME NEW i \in 1..k PROVE Place(SubSeq(s, 1, k)[i]) = n + i
  <2>1. i \in 1..Len(s)
    BY <1>1
  <2>2. SubSeq(s, 1, k)[i] = s[i]
    BY SplitCells
  <2> QED BY <2>1, <2>2 DEF Continues
<1>3. ASSUME NEW i \in 1..(Len(s) - k)
      PROVE  Place(SubSeq(s, k + 1, Len(s))[i]) = n + k + i
  <2>1. k + i \in 1..Len(s)
    BY <1>1
  <2>2. Place(s[k + i]) = n + (k + i)
    BY <2>1 DEF Continues
  <2>3. SubSeq(s, k + 1, Len(s))[i] = s[k + i]
    BY SplitCells
  <2> QED BY <1>1, <2>2, <2>3
<1> QED BY <1>2, <1>3, SplitCells DEF Continues

\* A frame cut from the front of the buffer is one.
LEMMA FrameAndRest ==
  ASSUME buffer \in Seq(Cells), HasFrame
  PROVE  /\ Frame \in Seq(Cells) /\ Len(Frame) = CellsPerPacket /\ Frame \in Frames
         /\ Rest \in Seq(Cells) /\ Len(Rest) = Len(buffer) - CellsPerPacket
<1>1. CellsPerPacket \in 0..Len(buffer)
  BY CellsPerPacketIsPositive, LenProperties DEF HasFrame
<1>2. /\ Frame \in Seq(Cells) /\ Len(Frame) = CellsPerPacket
      /\ Rest \in Seq(Cells) /\ Len(Rest) = Len(buffer) - CellsPerPacket
  BY <1>1, SplitCells DEF Frame, Rest
<1>3. Frame \in [1..CellsPerPacket -> Cells]
  BY <1>2, LenProperties
<1> QED BY <1>2, <1>3 DEF Frames

-----------------------------------------------------------------------------
(* The types and the threads, whatever a recv returns. *)

\* Nothing is connected, and no thread runs, at the start.
LEMMA InitLink == LinkInit => LinkInv
<1> SUFFICES ASSUME LinkInit PROVE LinkInv
  OBVIOUS
<1>0. <<>> \in Seq(Cells) /\ <<>> \in Seq(Frames)
  BY EmptySeq
<1>1. LinkTypeOK
  <2>1. /\ wire \in Seq(Cells) /\ chunk \in Seq(Cells) /\ buffer \in Seq(Cells)
        /\ queue \in Seq(Frames) /\ local \in Seq(Frames) /\ dispatched \in Seq(Frames)
    BY <1>0 DEF LinkInit
  <2>2. sent \in 0..MaxPackets /\ chunk = <<>>
    BY MaxPacketsAssumption DEF LinkInit
  <2> QED BY <2>1, <2>2 DEF LinkInit, LinkTypeOK
<1>2. Threads
  BY DEF LinkInit, Threads
<1> QED BY <1>1, <1>2 DEF LinkInv

\* The vision system and the owner touch no sequence but the wire.
LEMMA OutsideKeepsLink ==
  ASSUME LinkInv, VisionSystem \/ Owner
  PROVE  LinkInv'
<1> USE DEF LinkInv, network, transport, receiving, processing
<1>1. CASE SendPacket
  <2>1. sent + 1 \in 1..MaxPackets /\ sent' \in 0..MaxPackets
    BY <1>1, MaxPacketsAssumption DEF SendPacket, LinkTypeOK
  <2>2. wire' \in Seq(Cells)
    BY <1>1, <2>1, PacketCells, ConcatProperties DEF SendPacket, LinkTypeOK
  <2>3. LinkTypeOK'
    BY <1>1, <2>1, <2>2 DEF SendPacket, LinkTypeOK
  <2>4. Threads'
    BY <1>1 DEF SendPacket, Threads
  <2> QED BY <2>3, <2>4
<1>2. CASE PeerCloses
  BY <1>2 DEF PeerCloses, LinkTypeOK, Threads
<1>3. CASE Connect
  BY <1>3 DEF Connect, LinkTypeOK, Threads
<1>4. CASE StartReceiving
  BY <1>4 DEF StartReceiving, LinkTypeOK, Threads
<1>5. CASE StartProcessThread
  BY <1>5 DEF StartProcessThread, LinkTypeOK, Threads
<1>6. CASE DestroyDerived
  BY <1>6 DEF DestroyDerived, LinkTypeOK, Threads
<1>7. CASE StopProcessThread
  BY <1>7 DEF StopProcessThread, LinkTypeOK, Threads
<1>8. CASE JoinPacketThread
  BY <1>8 DEF JoinPacketThread, LinkTypeOK, Threads
<1>9. CASE StopReceiving
  BY <1>9 DEF StopReceiving, After, LinkTypeOK, Threads
<1>10. CASE ClearFlags
  BY <1>10 DEF ClearFlags, After, LinkTypeOK, Threads
<1>11. CASE CloseSocket
  BY <1>11 DEF CloseSocket, After, LinkTypeOK, Threads
<1>12. CASE JoinReceiver
  BY <1>12 DEF JoinReceiver, LinkTypeOK, Threads
<1> QED BY <1>1, <1>2, <1>3, <1>4, <1>5, <1>6, <1>7, <1>8, <1>9, <1>10, <1>11, <1>12
        DEF VisionSystem, Owner, OwnerContinues

\* The receive thread cuts cells into frames.
LEMMA ReceiverKeepsLink ==
  ASSUME LinkInv, Receiver
  PROVE  LinkInv'
<1> USE DEF LinkInv, network, transport, receiving, processing
<1>1. CASE RecvLoop
  BY <1>1 DEF RecvLoop, LinkTypeOK, Threads
<1>2. CASE RecvData
  <2>1. PICK n \in 1..Len(wire) :
          /\ chunk' = SubSeq(wire, 1, n) /\ wire' = SubSeq(wire, n + 1, Len(wire))
          /\ merged' = IF wire[1][1] = wire[n][1] THEN merged
                       ELSE merged \cup {wire[i][1] : i \in 1..n}
    BY <1>2 DEF RecvData
  <2>2. wire \in Seq(Cells) /\ n \in 0..Len(wire)
    BY LenProperties DEF LinkTypeOK
  <2>3. chunk' \in Seq(Cells) /\ wire' \in Seq(Cells)
    BY <2>1, <2>2, SplitCells
  <2>4. merged' \subseteq 1..MaxPackets
    <3>1. \A i \in 1..n : i \in 1..Len(wire)
      BY <2>2
    <3>2. \A i \in 1..n : wire[i] \in Cells
      BY <2>2, <3>1, ElementOfSeq
    <3>3. \A i \in 1..n : wire[i][1] \in 1..MaxPackets
      BY <3>2 DEF Cells
    <3>4. merged' = merged \/ merged' = merged \cup {wire[i][1] : i \in 1..n}
      BY <2>1
    <3>5. merged \subseteq 1..MaxPackets
      BY DEF LinkTypeOK
    <3>6. {wire[i][1] : i \in 1..n} \subseteq 1..MaxPackets
      BY <3>3
    <3> QED BY <3>4, <3>5, <3>6
  <2>5. LinkTypeOK'
    BY <1>2, <2>3, <2>4 DEF RecvData, LinkTypeOK
  <2>6. Threads'
    BY <1>2 DEF RecvData, LinkTypeOK, Threads
  <2> QED BY <2>5, <2>6
<1>3. CASE RecvNothing
  BY <1>3 DEF RecvNothing, LinkTypeOK, Threads
<1>4. CASE Feed
  <2>1. buffer' \in Seq(Cells) /\ chunk' \in Seq(Cells)
    BY <1>4, ConcatProperties, EmptySeq DEF Feed, LinkTypeOK
  <2> QED BY <1>4, <2>1 DEF Feed, LinkTypeOK, Threads
<1>5. CASE Extract
  <2>1. buffer' \in Seq(Cells)
    BY <1>5, FrameAndRest, ConcatProperties DEF Extract, LinkTypeOK
  <2> QED BY <1>5, <2>1 DEF Extract, LinkTypeOK, Threads
<1>6. CASE RecvReturns
  BY <1>6 DEF RecvReturns, LinkTypeOK, Threads
<1>7. CASE Push
  <2>1. buffer' \in Seq(Cells) /\ queue' \in Seq(Frames)
    BY <1>7, FrameAndRest, AppendProperties DEF Push, LinkTypeOK
  <2> QED BY <1>7, <2>1 DEF Push, LinkTypeOK, Threads
<1>8. CASE CallbackReturns
  BY <1>8 DEF CallbackReturns, LinkTypeOK, Threads
<1> QED BY <1>1, <1>2, <1>3, <1>4, <1>5, <1>6, <1>7, <1>8 DEF Receiver

\* The packet thread moves frames along.
LEMMA PacketThreadKeepsLink ==
  ASSUME LinkInv, PacketThread
  PROVE  LinkInv'
<1> USE DEF LinkInv, network, transport, receiving, processing
<1>1. CASE PacketLoop
  BY <1>1 DEF PacketLoop, LinkTypeOK, Threads
<1>2. CASE SwapQueue
  BY <1>2, EmptySeq DEF SwapQueue, LinkTypeOK, Threads
<1>3. CASE DispatchPacket
  <2>1. dispatched' \in Seq(Frames) /\ local' \in Seq(Frames)
    BY <1>3, HeadTailProperties, AppendProperties DEF DispatchPacket, LinkTypeOK
  <2> QED BY <1>3, <2>1 DEF DispatchPacket, LinkTypeOK, Threads
<1>4. CASE BatchDone
  BY <1>4 DEF BatchDone, LinkTypeOK, Threads
<1> QED BY <1>1, <1>2, <1>3, <1>4 DEF PacketThread

\* Every step of the link keeps the invariant.
LEMMA LinkInvStep ==
  ASSUME LinkInv, [LinkNext]_linkVars
  PROVE  LinkInv'
<1>1. CASE UNCHANGED linkVars
  BY <1>1 DEF linkVars, network, transport, receiving, processing, LinkInv, LinkTypeOK, Threads
<1> QED BY <1>1, OutsideKeepsLink, ReceiverKeepsLink, PacketThreadKeepsLink DEF LinkNext

\* The inductive invariant of the link.
LEMMA LinkInvariant == LinkSpec => []LinkInv
BY InitLink, LinkInvStep, PTL DEF LinkSpec

\* Every reachable state of the link is well typed, for any size and number of
\* packets and whatever a recv returns.
THEOREM LinkTypeCorrect == LinkSpec => []LinkTypeOK
BY LinkInvariant, PTL DEF LinkInv

\* The callback of ~VisionController's Impl is taken away before the Impl is gone.
THEOREM CallbackOutlived == LinkSpec => []NoCallbackIntoDeadController
<1>1. LinkInv => NoCallbackIntoDeadController
  BY DEF LinkInv, Threads, NoCallbackIntoDeadController
<1> QED BY <1>1, LinkInvariant, PTL

-----------------------------------------------------------------------------
(* The number of cells, whatever a recv returns. *)

\* The types of the sequences.
LEMMA LinkTypes ==
  ASSUME LinkInv
  PROVE  /\ wire \in Seq(Cells) /\ chunk \in Seq(Cells) /\ buffer \in Seq(Cells)
         /\ queue \in Seq(Frames) /\ local \in Seq(Frames) /\ dispatched \in Seq(Frames)
         /\ Pipeline \in Seq(Frames)
         /\ Len(wire) \in Nat /\ Len(chunk) \in Nat /\ Len(buffer) \in Nat
         /\ Len(Pipeline) \in Nat /\ CutCells \in Nat /\ Received \in Nat
         /\ sent \in Nat /\ sent <= MaxPackets
<1>1. /\ wire \in Seq(Cells) /\ chunk \in Seq(Cells) /\ buffer \in Seq(Cells)
      /\ queue \in Seq(Frames) /\ local \in Seq(Frames) /\ dispatched \in Seq(Frames)
      /\ sent \in Nat /\ sent <= MaxPackets
  BY MaxPacketsAssumption DEF LinkInv, LinkTypeOK
<1>2. dispatched \o local \in Seq(Frames)
  BY <1>1, ConcatProperties
<1>3. Pipeline \in Seq(Frames)
  BY <1>1, <1>2, ConcatProperties DEF Pipeline
<1>4. /\ Len(wire) \in Nat /\ Len(chunk) \in Nat /\ Len(buffer) \in Nat
      /\ Len(Pipeline) \in Nat
  BY <1>1, <1>3, LenProperties
<1>5. CutCells \in Nat
  BY <1>4, CellsOf DEF CutCells
<1>6. Received \in Nat
  BY <1>4, <1>5 DEF Received
<1> QED BY <1>1, <1>3, <1>4, <1>5, <1>6

\* Passing frames from the queue to the handlers leaves the pipeline as it is.
LEMMA PassingKeepsPipeline ==
  ASSUME LinkInv, PacketThread
  PROVE  Pipeline' = Pipeline
<1>1. CASE SwapQueue
  <2>1. local = <<>> /\ dispatched' = dispatched /\ local' = queue /\ queue' = <<>>
    BY <1>1 DEF SwapQueue, LinkInv, Threads
  <2>2. Pipeline' = (dispatched \o queue) \o <<>>
    BY <2>1 DEF Pipeline
  <2>3. dispatched \o local = dispatched
    BY <2>1, LinkTypes, ConcatEmptySeq
  <2>4. dispatched \o queue \in Seq(Frames)
    BY LinkTypes, ConcatProperties
  <2> QED BY <2>2, <2>3, <2>4, ConcatEmptySeq DEF Pipeline
<1>2. CASE DispatchPacket
  <2>1. /\ local # <<>> /\ dispatched' = Append(dispatched, Head(local))
        /\ local' = Tail(local) /\ queue' = queue
    BY <1>2 DEF DispatchPacket
  <2>2. Head(local) \in Frames /\ Tail(local) \in Seq(Frames)
        /\ <<Head(local)>> \in Seq(Frames)
    BY <2>1, LinkTypes, HeadTailProperties
  <2>3. <<Head(local)>> \o Tail(local) = local
    <3>1. Len(local) \in Nat /\ Len(local) >= 1 /\ local[1] = Head(local)
      BY <2>1, LinkTypes, EmptySeq, LenProperties
    <3>2. SubSeq(local, 1, Len(local)) = <<local[1]>> \o SubSeq(local, 1 + 1, Len(local))
      <4>1. local \in Seq(Frames) /\ 1 \in 1..Len(local) /\ Len(local) \in 1..Len(local)
        BY <3>1, LinkTypes
      <4> QED BY <4>1, SubSeqRecursiveFirst
    <3>3. SubSeq(local, 1, Len(local)) = local /\ Tail(local) = SubSeq(local, 2, Len(local))
      BY <2>1, LinkTypes, SubSeqFull, TailIsSubSeq
    <3> QED BY <3>1, <3>2, <3>3
  <2>4. dispatched' \o local' = dispatched \o local
    <3>1. dispatched' = dispatched \o <<Head(local)>>
      BY <2>1, <2>2, LinkTypes, AppendIsConcat
    <3>2. (dispatched \o <<Head(local)>>) \o Tail(local)
            = dispatched \o (<<Head(local)>> \o Tail(local))
      <4>1. dispatched \in Seq(Frames)
        BY LinkTypes
      <4> QED BY <2>2, <4>1, ConcatAssociative
    <3> QED BY <2>1, <2>3, <3>1, <3>2
  <2> QED BY <2>1, <2>4 DEF Pipeline
<1>3. CASE PacketLoop \/ BatchDone
  BY <1>3 DEF PacketLoop, BatchDone, Pipeline
<1> QED BY <1>1, <1>2, <1>3 DEF PacketThread

\* A push appends the frame that is cut.
LEMMA PushAppends ==
  ASSUME LinkInv, Push
  PROVE  Pipeline' = Append(Pipeline, Frame)
<1>1. Frame \in Frames /\ dispatched \o local \in Seq(Frames)
  BY LinkTypes, FrameAndRest, ConcatProperties DEF Push
<1>2. <<Frame>> \in Seq(Frames)
  BY <1>1
<1>3. Pipeline' = (dispatched \o local) \o Append(queue, Frame)
  BY DEF Push, processing, Pipeline
<1>4. Append(queue, Frame) = queue \o <<Frame>>
  BY <1>1, LinkTypes, AppendIsConcat
<1>5. Pipeline' = Pipeline \o <<Frame>>
  <2>1. queue \in Seq(Frames)
    BY LinkTypes
  <2>2. ((dispatched \o local) \o queue) \o <<Frame>> = (dispatched \o local) \o (queue \o <<Frame>>)
    BY <1>1, <1>2, <2>1, ConcatAssociative
  <2> QED BY <1>3, <1>4, <2>2 DEF Pipeline
<1> QED BY <1>1, <1>5, LinkTypes, AppendIsConcat

\* The cells of a sequence, by number.
LEMMA CellsByNumber ==
  ASSUME NEW S, NEW s \in Seq(S)
  PROVE  \A c : c \in CellsIn(s) <=> \E i \in 1..Len(s) : s[i] = c
<1>1. DOMAIN s = 1..Len(s)
  BY LenProperties
<1> QED BY <1>1 DEF CellsIn

\* The cells of two sequences joined.
LEMMA CellsOfConcat ==
  ASSUME NEW S, NEW s \in Seq(S), NEW t \in Seq(S)
  PROVE  CellsIn(s \o t) = CellsIn(s) \cup CellsIn(t)
<1> DEFINE u == s \o t
<1>1. /\ u \in Seq(S) /\ Len(u) = Len(s) + Len(t)
      /\ Len(s) \in Nat /\ Len(t) \in Nat
  BY ConcatProperties, LenProperties
<1>2. \A i \in 1..Len(u) : u[i] = IF i <= Len(s) THEN s[i] ELSE t[i - Len(s)]
  BY <1>1, ConcatProperties
<1> HIDE DEF u
<1>3. ASSUME NEW i \in 1..Len(s) PROVE i \in 1..Len(u) /\ u[i] = s[i]
  BY <1>1, <1>2
<1>4. ASSUME NEW i \in 1..Len(t) PROVE Len(s) + i \in 1..Len(u) /\ u[Len(s) + i] = t[i]
  <2>1. Len(s) + i \in 1..Len(u) /\ ~(Len(s) + i <= Len(s)) /\ Len(s) + i - Len(s) = i
    BY <1>1
  <2> QED BY <1>2, <2>1
<1>5. ASSUME NEW i \in 1..Len(u)
      PROVE  \/ i \in 1..Len(s) /\ u[i] = s[i]
             \/ i - Len(s) \in 1..Len(t) /\ u[i] = t[i - Len(s)]
  BY <1>1, <1>2
<1>6. ASSUME NEW c PROVE c \in CellsIn(u) <=> c \in CellsIn(s) \/ c \in CellsIn(t)
  <2>1. /\ c \in CellsIn(u) <=> \E i \in 1..Len(u) : u[i] = c
        /\ c \in CellsIn(s) <=> \E i \in 1..Len(s) : s[i] = c
        /\ c \in CellsIn(t) <=> \E i \in 1..Len(t) : t[i] = c
    BY <1>1, CellsByNumber
  <2> QED BY <1>1, <1>3, <1>4, <1>5, <2>1
<1>7. CellsIn(u) = CellsIn(s) \cup CellsIn(t)
  BY <1>6
<1> QED BY <1>7 DEF u

\* The cells of a sequence are those of its two parts.
LEMMA CellsOfParts ==
  ASSUME NEW s \in Seq(Cells), NEW k \in 0..Len(s)
  PROVE  CellsIn(s) = CellsIn(SubSeq(s, 1, k)) \cup CellsIn(SubSeq(s, k + 1, Len(s)))
<1> DEFINE front == SubSeq(s, 1, k)
           back == SubSeq(s, k + 1, Len(s))
<1>1. /\ Len(s) \in Nat /\ k \in Nat /\ k <= Len(s)
      /\ front \in Seq(Cells) /\ Len(front) = k
      /\ back \in Seq(Cells) /\ Len(back) = Len(s) - k
  BY SplitCells, LenProperties
<1>2. /\ \A i \in 1..k : front[i] = s[i]
      /\ \A i \in 1..(Len(s) - k) : back[i] = s[k + i]
  BY SplitCells
<1> HIDE DEF front, back
<1>3. ASSUME NEW i \in 1..k PROVE i \in 1..Len(s) /\ front[i] = s[i]
  BY <1>1, <1>2
<1>4. ASSUME NEW i \in 1..(Len(s) - k) PROVE k + i \in 1..Len(s) /\ back[i] = s[k + i]
  BY <1>1, <1>2
<1>5. ASSUME NEW i \in 1..Len(s)
      PROVE  \/ i \in 1..k /\ front[i] = s[i]
             \/ i - k \in 1..(Len(s) - k) /\ back[i - k] = s[i]
  <2>1. CASE i <= k
    BY <1>1, <1>2, <2>1
  <2>2. CASE i > k
    <3>1. i - k \in 1..(Len(s) - k) /\ k + (i - k) = i
      BY <1>1, <2>2
    <3> QED BY <1>2, <3>1
  <2> QED BY <1>1, <2>1, <2>2
<1>6. ASSUME NEW c PROVE c \in CellsIn(s) <=> c \in CellsIn(front) \/ c \in CellsIn(back)
  <2>1. /\ c \in CellsIn(s) <=> \E i \in 1..Len(s) : s[i] = c
        /\ c \in CellsIn(front) <=> \E i \in 1..Len(front) : front[i] = c
        /\ c \in CellsIn(back) <=> \E i \in 1..Len(back) : back[i] = c
    BY <1>1, CellsByNumber
  <2> QED BY <1>1, <1>3, <1>4, <1>5, <2>1
<1>7. CellsIn(s) = CellsIn(front) \cup CellsIn(back)
  BY <1>6
<1> QED BY <1>7 DEF front, back

\* A frame and the rest hold the cells of the buffer.
LEMMA FrameCells ==
  ASSUME buffer \in Seq(Cells), HasFrame
  PROVE  CellsIn(buffer) = CellsIn(Rest) \cup CellsIn(Frame)
<1>1. CellsPerPacket \in 0..Len(buffer)
  BY CellsPerPacketIsPositive, LenProperties DEF HasFrame
<1> QED BY <1>1, CellsOfParts DEF Frame, Rest

\* One element more.
LEMMA CellsOfAppend ==
  ASSUME NEW S, NEW s \in Seq(S), NEW e \in S
  PROVE  CellsIn(Append(s, e)) = CellsIn(s) \cup {e}
<1>1. /\ Append(s, e) \in Seq(S) /\ Len(Append(s, e)) = Len(s) + 1
      /\ \A i \in 1..Len(s) : Append(s, e)[i] = s[i]
      /\ Append(s, e)[Len(s) + 1] = e
  BY AppendProperties
<1>2. /\ Len(s) \in Nat /\ DOMAIN s = 1..Len(s)
      /\ DOMAIN Append(s, e) = 1..(Len(s) + 1)
  BY <1>1, LenProperties
<1>3. 1..(Len(s) + 1) = 1..Len(s) \cup {Len(s) + 1}
  BY <1>2
<1> QED BY <1>1, <1>2, <1>3 DEF CellsIn

\* The cells of a packet.
LEMMA CellsOfPacket ==
  ASSUME NEW p \in 1..MaxPackets
  PROVE  CellsIn(Packet(p)) = {p} \X (1..CellsPerPacket)
BY DEF CellsIn, Packet

\* Nothing is sent and nothing held at the start.
LEMMA InitCount ==
  LinkInit => /\ CountInv
              /\ Len(Pipeline) = 0 /\ Len(wire) = 0 /\ Len(chunk) = 0 /\ Len(buffer) = 0
<1> SUFFICES ASSUME LinkInit
             PROVE  /\ CountInv
                    /\ Len(Pipeline) = 0 /\ Len(wire) = 0 /\ Len(chunk) = 0 /\ Len(buffer) = 0
  OBVIOUS
<1>1. LinkInv
  BY InitLink
<1>2. Pipeline = <<>> /\ wire = <<>> /\ chunk = <<>> /\ buffer = <<>> /\ sent = 0
  <2>1. <<>> \in Seq(Frames)
    BY EmptySeq
  <2>2. <<>> \o <<>> = <<>>
    BY <2>1, ConcatEmptySeq
  <2> QED BY <2>2 DEF LinkInit, Pipeline
<1>3. Len(Pipeline) = 0 /\ Len(wire) = 0 /\ Len(chunk) = 0 /\ Len(buffer) = 0
  BY <1>2, EmptySeq
<1>4. Received + Len(wire) = sent * CellsPerPacket
  BY <1>2, <1>3, CellsPerPacketIsPositive DEF Received, CutCells
<1>5. Held = (1..sent) \X (1..CellsPerPacket)
  <2>1. CellsIn(<<>>) = {}
    BY DEF CellsIn
  <2>2. 1..sent = {}
    BY <1>2
  <2> QED BY <1>2, <2>1, <2>2 DEF Held
<1> QED BY <1>1, <1>3, <1>4, <1>5 DEF CountInv

\* A step that moves no cell, but may detach the transport.
LEMMA StillCount ==
  ASSUME CountInv, LinkInv', UNCHANGED <<wire, sent, chunk, buffer>>, Pipeline' = Pipeline,
         Attached' => Attached
  PROVE  CountInv'
BY DEF CountInv, CutCells, Received, Held

\* A packet sent adds its cells to the wire.
LEMMA SendCounts ==
  ASSUME CountInv, LinkInv', SendPacket
  PROVE  CountInv'
<1> DEFINE new == Packet(sent + 1)
<1>1. sent + 1 \in 1..MaxPackets /\ sent' = sent + 1 /\ wire' = wire \o new
  BY LinkTypes, MaxPacketsAssumption DEF SendPacket, CountInv
<1>2. new \in Seq(Cells) /\ Len(new) = CellsPerPacket
  BY <1>1, PacketCells
<1>3. UNCHANGED <<chunk, buffer, callback, life>> /\ Pipeline' = Pipeline
  BY DEF SendPacket, transport, receiving, processing, Pipeline
<1>4. wire \in Seq(Cells) /\ Len(wire') = Len(wire) + CellsPerPacket
  <2>1. wire \in Seq(Cells)
    BY LinkTypes DEF CountInv
  <2> QED BY <1>1, <1>2, <2>1, ConcatProperties
<1>5. sent' * CellsPerPacket = sent * CellsPerPacket + CellsPerPacket
  BY <1>1, LinkTypes, CellsOf DEF CountInv
<1>6. Received' = Received
  BY <1>3 DEF Received, CutCells
<1>7. Attached => Held' = (1..sent') \X (1..CellsPerPacket)
  <2>1. CellsIn(wire') = CellsIn(wire) \cup {sent + 1} \X (1..CellsPerPacket)
    <3>1. CellsIn(new) = {sent + 1} \X (1..CellsPerPacket)
      BY <1>1, CellsOfPacket
    <3>2. CellsIn(wire') = CellsIn(wire) \cup CellsIn(new)
      BY <1>1, <1>2, <1>4, CellsOfConcat
    <3> QED BY <3>1, <3>2
  <2>2. Held' = Held \cup {sent + 1} \X (1..CellsPerPacket)
    BY <1>3, <2>1 DEF Held
  <2>3. 1..sent' = 1..sent \cup {sent + 1}
    BY <1>1, LinkTypes DEF CountInv
  <2> QED BY <2>2, <2>3 DEF CountInv
<1> QED BY <1>3, <1>4, <1>5, <1>6, <1>7, LinkTypes, CellsPerPacketIsPositive
        DEF CountInv, Attached

\* A recv moves cells from the wire to an empty chunk.
LEMMA RecvCounts ==
  ASSUME CountInv, LinkInv', RecvData
  PROVE  CountInv'
<1>1. PICK n \in 1..Len(wire) :
        chunk' = SubSeq(wire, 1, n) /\ wire' = SubSeq(wire, n + 1, Len(wire))
  BY DEF RecvData
<1>2. UNCHANGED <<buffer, sent, callback, life>> /\ Pipeline' = Pipeline /\ receiver = "recv"
  BY DEF RecvData, transport, processing, Pipeline
<1>3. LinkInv /\ wire \in Seq(Cells) /\ Len(wire) \in Nat /\ n \in Nat /\ n \in 0..Len(wire)
  BY LinkTypes DEF CountInv
<1>4. chunk = <<>> /\ Len(chunk) = 0
  BY <1>2, <1>3, EmptySeq DEF LinkInv, LinkTypeOK
<1>5. Len(chunk') = n /\ Len(wire') = Len(wire) - n
  BY <1>1, <1>3, SplitCells
<1>6. CellsIn(chunk') \cup CellsIn(wire') = CellsIn(wire) /\ CellsIn(chunk) = {}
  <2>1. CellsIn(wire) = CellsIn(SubSeq(wire, 1, n)) \cup CellsIn(SubSeq(wire, n + 1, Len(wire)))
    BY <1>3, CellsOfParts
  <2>2. CellsIn(<<>>) = {}
    BY DEF CellsIn
  <2> QED BY <1>1, <1>4, <2>1, <2>2
<1>7. Held' = Held
  BY <1>2, <1>6 DEF Held
<1>8. Received' + Len(wire') = Received + Len(wire)
  <2>1. CutCells' = CutCells /\ Len(buffer') = Len(buffer)
    BY <1>2 DEF CutCells
  <2>2. CutCells \in Nat /\ Len(buffer) \in Nat
    BY <1>3, LinkTypes
  <2>3. Received' = CutCells + Len(buffer) + n /\ Received = CutCells + Len(buffer) + 0
    BY <1>4, <1>5, <2>1 DEF Received
  <2> QED BY <1>3, <1>5, <2>2, <2>3
<1> QED BY <1>2, <1>7, <1>8 DEF CountInv, Attached

\* The framer takes over the chunk.
LEMMA FeedCounts ==
  ASSUME CountInv, LinkInv', Feed
  PROVE  CountInv'
<1>1. /\ UNCHANGED <<wire, sent, callback, life>> /\ Pipeline' = Pipeline
      /\ buffer' = buffer \o chunk /\ chunk' = <<>> /\ Len(chunk') = 0
  BY EmptySeq DEF Feed, network, transport, processing, Pipeline
<1>2. buffer \in Seq(Cells) /\ chunk \in Seq(Cells)
  BY LinkTypes DEF CountInv
<1>3. Len(buffer') = Len(buffer) + Len(chunk)
  BY <1>1, <1>2, ConcatProperties
<1>4. CellsIn(chunk') = {} /\ CellsIn(buffer') = CellsIn(buffer) \cup CellsIn(chunk)
  <2>1. CellsIn(<<>>) = {}
    BY DEF CellsIn
  <2>2. CellsIn(buffer \o chunk) = CellsIn(buffer) \cup CellsIn(chunk)
    BY <1>2, CellsOfConcat
  <2> QED BY <1>1, <2>1, <2>2
<1>5. Held' = Held
  BY <1>1, <1>4 DEF Held
<1>6. Received' = Received
  BY <1>1, <1>3, LinkTypes DEF Received, CutCells, CountInv
<1> QED BY <1>1, <1>5, <1>6 DEF CountInv, Attached

\* A frame goes back into the framer, or is dropped by a detached transport.
LEMMA ExtractCounts ==
  ASSUME CountInv, LinkInv', Extract
  PROVE  CountInv'
<1>1. UNCHANGED <<wire, sent, callback, life, chunk>> /\ Pipeline' = Pipeline
      /\ receiver = "extract" /\ HasFrame
  BY DEF Extract, network, transport, processing, Pipeline
<1>2. CASE callback
  <2>1. buffer' = Rest \o Frame
    BY <1>2 DEF Extract
  <2>2. /\ Frame \in Seq(Cells) /\ Len(Frame) = CellsPerPacket
        /\ Rest \in Seq(Cells) /\ Len(Rest) = Len(buffer) - CellsPerPacket
    BY <1>1, LinkTypes, FrameAndRest DEF CountInv
  <2>3. Len(buffer') = Len(Rest) + Len(Frame)
    BY <2>1, <2>2, ConcatProperties
  <2>4. Len(buffer') = Len(buffer)
    BY <2>2, <2>3, LinkTypes, CellsPerPacketIsPositive DEF CountInv
  <2>5. CellsIn(buffer') = CellsIn(Rest) \cup CellsIn(Frame)
    BY <2>1, <2>2, CellsOfConcat
  <2>6. CellsIn(buffer') = CellsIn(buffer)
    BY <1>1, <2>5, FrameCells, LinkTypes DEF CountInv
  <2>7. Held' = Held /\ Received' = Received
    BY <1>1, <2>4, <2>6 DEF Held, Received, CutCells
  <2> QED BY <1>1, <2>7 DEF CountInv, Attached
<1>3. CASE ~callback
  <2>1. ~Attached
    BY <1>1, <1>3 DEF CountInv, LinkInv, Threads, Attached
  <2> QED BY <1>1, <2>1 DEF CountInv, Attached
<1> QED BY <1>2, <1>3

\* The frame that leaves the framer enters the pipeline.
LEMMA PushCounts ==
  ASSUME CountInv, LinkInv', Push
  PROVE  CountInv'
<1>1. /\ UNCHANGED <<wire, sent, callback, life, chunk>> /\ HasFrame /\ buffer' = Rest
  BY DEF Push, network, transport, processing
<1>2. Len(buffer') = Len(buffer) - CellsPerPacket /\ Frame \in Frames
  BY <1>1, LinkTypes, FrameAndRest DEF CountInv
<1>3. Pipeline \in Seq(Frames) /\ Pipeline' = Append(Pipeline, Frame)
  BY LinkTypes, PushAppends DEF CountInv
<1>4. Len(Pipeline') = Len(Pipeline) + 1
  BY <1>2, <1>3, AppendProperties
<1>5. CutCells' = CutCells + CellsPerPacket
  BY <1>4, LinkTypes, CellsOf DEF CutCells, CountInv
<1>6. Received' = Received
  BY <1>1, <1>2, <1>5, LinkTypes, CellsPerPacketIsPositive DEF Received, CountInv
<1>7. Held' = Held
  <2>1. CellsIn(Pipeline') = CellsIn(Pipeline) \cup {Frame}
    BY <1>2, <1>3, CellsOfAppend
  <2>2. CellsIn(buffer) = CellsIn(Rest) \cup CellsIn(Frame)
    BY <1>1, FrameCells, LinkTypes DEF CountInv
  <2> QED BY <1>1, <2>1, <2>2 DEF Held
<1> QED BY <1>1, <1>6, <1>7 DEF CountInv, Attached

\* Every step of the link keeps the count.
LEMMA CountStep ==
  ASSUME CountInv, [LinkNext]_linkVars
  PROVE  CountInv'
<1>1. LinkInv /\ LinkInv'
  BY LinkInvStep DEF CountInv
<1>2. CASE SendPacket \/ RecvData \/ Feed \/ Extract \/ Push
  BY <1>1, <1>2, SendCounts, RecvCounts, FeedCounts, ExtractCounts, PushCounts
<1>3. CASE PacketThread
  <2>1. UNCHANGED <<wire, sent, chunk, buffer, callback, life>>
    BY <1>3 DEF PacketThread, PacketLoop, SwapQueue, DispatchPacket, BatchDone, network,
                transport, receiving
  <2>2. Pipeline' = Pipeline
    BY <1>1, <1>3, PassingKeepsPipeline
  <2> QED BY <1>1, <2>1, <2>2, StillCount DEF Attached
<1>4. CASE PeerCloses \/ Owner
  <2>1. UNCHANGED <<wire, sent, chunk, buffer, queue, local, dispatched>>
    BY <1>4 DEF PeerCloses, Connect, StartReceiving, StartProcessThread, DestroyDerived,
                StopReceiving, StopProcessThread, JoinPacketThread, ClearFlags, CloseSocket,
                JoinReceiver, Owner, OwnerContinues, network, receiving, processing
  <2>2. Attached' => Attached
    BY <1>4 DEF PeerCloses, Connect, StartReceiving, StartProcessThread, DestroyDerived,
       StopReceiving, StopProcessThread, JoinPacketThread, ClearFlags, CloseSocket,
       JoinReceiver, After, Owner, OwnerContinues, transport, Attached
  <2>3. Pipeline' = Pipeline
    BY <2>1 DEF Pipeline
  <2> QED BY <1>1, <2>1, <2>2, <2>3, StillCount
<1>5. CASE RecvLoop \/ RecvNothing \/ RecvReturns \/ CallbackReturns
  <2>1. UNCHANGED <<wire, sent, chunk, buffer, callback, life>> /\ Pipeline' = Pipeline
    BY <1>5 DEF RecvLoop, RecvNothing, RecvReturns, CallbackReturns, network, transport,
                processing, Pipeline
  <2> QED BY <1>1, <2>1, StillCount DEF Attached
<1>6. CASE UNCHANGED linkVars
  <2>1. UNCHANGED <<wire, sent, chunk, buffer, callback, life, queue, local, dispatched>>
    BY <1>6 DEF linkVars, network, transport, receiving, processing
  <2> QED BY <1>1, <2>1, StillCount DEF Attached, Pipeline
<1> QED BY <1>2, <1>3, <1>4, <1>5, <1>6 DEF LinkNext, VisionSystem, Receiver

\* No cell of VisionTcpClient's and VisionController's shared framer is lost or
\* doubled while the callback is set, whatever a recv returns: what was sent is
\* on the wire, received, buffered or handed on, each cell exactly once.
THEOREM CellsKept == LinkSpec => []NothingIsLost
<1>1. CountInv /\ [LinkNext]_linkVars => CountInv'
  BY CountStep
<1>2. CountInv => NothingIsLost
  BY DEF CountInv, NothingIsLost, Attached, Received, CutCells, Held
<1> QED BY <1>1, <1>2, InitCount, PTL DEF LinkSpec

-----------------------------------------------------------------------------
(* The packets that share no recv. *)

\* An empty sequence has length zero.
LEMMA NoCells ==
  ASSUME NEW s \in Seq(Cells), Len(s) = 0
  PROVE  s = <<>>
BY EmptySeq

\* The cells of a stream come packet after packet.
LEMMA PacketsAscend ==
  ASSUME NEW a \in Cells, NEW b \in Cells, Place(a) <= Place(b)
  PROVE  a[1] <= b[1]
<1>1. /\ a[1] \in Nat /\ a[2] \in 1..CellsPerPacket
      /\ b[1] \in Nat /\ b[2] \in 1..CellsPerPacket
  BY MaxPacketsAssumption DEF Cells
<1> SUFFICES ASSUME a[1] > b[1] PROVE FALSE
  BY <1>1
<1> DEFINE d == a[1] - b[1] - 1
<1>2. d \in Nat
  BY <1>1
<1>3. d * CellsPerPacket \in Nat
  BY <1>2, CellsOf
<1>4. (a[1] - 1) * CellsPerPacket
        = (b[1] - 1) * CellsPerPacket + CellsPerPacket + d * CellsPerPacket
  BY <1>1, CellsPerPacketIsPositive
<1>5. (a[1] - 1) * CellsPerPacket \in Int /\ (b[1] - 1) * CellsPerPacket \in Int
  BY <1>1, CellsPerPacketIsPositive
<1> HIDE DEF d
<1> QED BY <1>1, <1>3, <1>4, <1>5, CellsPerPacketIsPositive DEF Place

\* A complete frame at the front of a beginning is the packet, and nothing follows.
LEMMA FrameIsNext ==
  ASSUME LinkInv, HasFrame, Beginning(Len(Pipeline) + 1)
  PROVE  /\ Frame = Packet(Len(Pipeline) + 1)
         /\ Len(buffer) = CellsPerPacket /\ Len(chunk) = 0
         /\ Len(Rest) = 0
<1>1. Len(buffer) = CellsPerPacket /\ Len(chunk) = 0
  BY LinkTypes, CellsPerPacketIsPositive DEF Beginning, Received, HasFrame
<1>2. Len(Rest) = 0
  BY <1>1, LinkTypes, FrameAndRest
<1>3. ASSUME NEW i \in 1..CellsPerPacket PROVE Frame[i] = <<Len(Pipeline) + 1, i>>
  <2>1. buffer[i] \in Cells /\ Place(buffer[i]) = CutCells + i
    BY <1>1, LinkTypes, ElementOfSeq DEF Beginning, Continues
  <2>2. buffer[i] = <<Len(Pipeline) + 1, i>>
    BY <2>1, LinkTypes, PlaceDetermines DEF CutCells
  <2>3. Frame[i] = buffer[i]
    BY <1>1, LinkTypes, SplitCells DEF Frame
  <2> QED BY <2>2, <2>3
<1>4. Frame \in [1..CellsPerPacket -> Cells]
  BY LinkTypes, FrameAndRest DEF Frames
<1>5. Frame = Packet(Len(Pipeline) + 1)
  BY <1>3, <1>4 DEF Packet
<1> QED BY <1>1, <1>2, <1>5

\* What has been received of the packet after the pipeline makes it a beginning,
\* if it shares no recv.
LEMMA NextBegins ==
  ASSUME LinkInv, Aligned, Received > CutCells, Len(Pipeline) + 1 \notin merged
  PROVE  Beginning(Len(Pipeline) + 1)
<1>1. Len(Pipeline) + 1 \in Nat /\ Len(Pipeline) + 1 > Len(Pipeline)
      /\ (Len(Pipeline) + 1 - 1) * CellsPerPacket = CutCells
  BY LinkTypes DEF CutCells
<1> QED BY <1>1 DEF Aligned

\* Before the transport is attached there is nothing, as at the start.
LEMMA InitStream == LinkInit => StreamInv
<1> SUFFICES ASSUME LinkInit PROVE StreamInv
  OBVIOUS
<1>1. CountInv /\ Len(Pipeline) = 0 /\ Len(wire) = 0 /\ Len(chunk) = 0 /\ Len(buffer) = 0
  BY InitCount
<1>2. AloneInPlace
  BY <1>1 DEF AloneInPlace
<1>3. Received = 0
  BY <1>1, CellsPerPacketIsPositive DEF Received, CutCells
<1>4. ASSUME NEW p \in Nat, p > 0 PROVE ~((p - 1) * CellsPerPacket < 0)
  BY <1>4, CellsOf
<1>5. Aligned
  BY <1>1, <1>3, <1>4, CellsPerPacketIsPositive DEF Aligned, Continues
<1> QED BY <1>1, <1>2, <1>5 DEF StreamInv

\* A step that moves no cell and cuts no frame, but may detach the transport.
LEMMA StillStream ==
  ASSUME StreamInv, CountInv', UNCHANGED <<wire, sent, chunk, buffer, merged>>,
         Pipeline' = Pipeline, Attached' => Attached,
         receiver' \notin {"extract", "push"} =>
           receiver \notin {"extract", "push"} \/ Len(buffer) < CellsPerPacket
  PROVE  StreamInv'
<1>1. CutCells' = CutCells /\ Received' = Received
  BY DEF CutCells, Received
<1>2. AloneInPlace'
  BY DEF StreamInv, AloneInPlace
<1>3. \A p : Beginning(p) => Beginning(p)'
  BY <1>1 DEF Beginning, Continues
<1>4. Aligned => Aligned'
  BY <1>1, <1>3 DEF Aligned, Continues
<1> QED BY <1>2, <1>4 DEF StreamInv

\* A packet sent continues the stream.
LEMMA SendKeepsStream ==
  ASSUME StreamInv, CountInv', SendPacket
  PROVE  StreamInv'
<1>1. LinkInv /\ sent + 1 \in 1..MaxPackets
  BY LinkTypes, MaxPacketsAssumption DEF SendPacket, StreamInv, CountInv
<1> DEFINE new == Packet(sent + 1)
<1>2. new \in Seq(Cells) /\ Len(new) = CellsPerPacket /\ Continues(new, sent * CellsPerPacket)
  BY <1>1, LinkTypes, PacketCells
<1>3. UNCHANGED <<chunk, buffer, receiver, callback, life, merged>> /\ Pipeline' = Pipeline
      /\ wire' = wire \o new
  BY DEF SendPacket, transport, receiving, processing, Pipeline
<1>4. Received' = Received /\ CutCells' = CutCells
  BY <1>3 DEF Received, CutCells
<1>5. ASSUME Attached, Aligned PROVE Aligned'
  <2>1. Received \in Nat /\ Received + Len(wire) = sent * CellsPerPacket
    BY <1>1, <1>5, LinkTypes DEF StreamInv, CountInv
  <2>2. Continues(wire \o new, Received)
    <3>1. wire \in Seq(Cells)
      BY <1>1, LinkTypes
    <3> QED BY <1>2, <1>5, <2>1, <3>1, ConcatContinues DEF Aligned
  <2>3. Continues(wire, Received)'
    BY <1>3, <1>4, <2>2 DEF Continues
  <2>4. \A p : Beginning(p) => Beginning(p)'
    BY <1>3, <1>4 DEF Beginning, Continues
  <2> QED BY <1>3, <1>4, <1>5, <2>3, <2>4 DEF Aligned
<1>6. AloneInPlace'
  BY <1>3 DEF StreamInv, AloneInPlace
<1> QED BY <1>3, <1>5, <1>6 DEF StreamInv, Attached

\* A recv that goes on with a packet already begun takes no more than the rest of it.
LEMMA RecvGoesOn ==
  ASSUME LinkInv, Continues(wire, Received), chunk = <<>>, Len(buffer) < CellsPerPacket,
         NEW n \in 1..Len(wire), NEW p \in Nat, Beginning(p),
         wire[1][1] = p => wire[n][1] = p
  PROVE  Received + n <= CutCells + CellsPerPacket
<1>1. /\ p = Len(Pipeline) + 1 /\ Received = CutCells + Len(buffer)
      /\ n \in Nat /\ 1 \in 1..Len(wire)
      /\ wire[1] \in Cells /\ wire[n] \in Cells
  <2>1. Len(chunk) = 0 /\ 1 \in 1..Len(wire) /\ n \in Nat
    BY LinkTypes, EmptySeq
  <2> QED BY <2>1, LinkTypes, ElementOfSeq DEF Received, Beginning
<1>2. Place(wire[1]) = Received + 1 /\ Place(wire[n]) = Received + n
  BY <1>1 DEF Continues
<1>3. wire[1] = <<Len(Pipeline) + 1, Len(buffer) + 1>>
  <2>1. Place(wire[1]) = Len(Pipeline) * CellsPerPacket + (Len(buffer) + 1)
    BY <1>1, <1>2, LinkTypes DEF CutCells
  <2>2. Len(buffer) + 1 \in 1..CellsPerPacket
    BY LinkTypes, CellsPerPacketIsPositive
  <2> QED BY <1>1, <2>1, <2>2, LinkTypes, PlaceDetermines
<1>4. wire[n][1] = Len(Pipeline) + 1 /\ wire[n][2] \in 1..CellsPerPacket
  BY <1>1, <1>3 DEF Cells
<1>5. Place(wire[n]) = CutCells + wire[n][2]
  BY <1>4, LinkTypes DEF Place, CutCells
<1>6. Received \in Nat /\ CutCells \in Nat
  BY LinkTypes
<1> QED BY <1>1, <1>2, <1>4, <1>5, <1>6, CellsPerPacketIsPositive

\* A recv that reaches the start of packet p, and brings no cells of another,
\* starts with it and ends in it.
LEMMA RecvStarts ==
  ASSUME LinkInv, Continues(wire, Received), chunk = <<>>, Len(buffer) < CellsPerPacket,
         NEW n \in 1..Len(wire), NEW p \in Nat, p >= 1,
         Received <= (p - 1) * CellsPerPacket, (p - 1) * CellsPerPacket < Received + n,
         wire[1][1] = wire[n][1] \/ \A i \in 1..n : wire[i][1] # p
  PROVE  /\ p = Len(Pipeline) + 1 /\ Len(buffer) = 0
         /\ Received + n <= CutCells + CellsPerPacket
<1> DEFINE before == (p - 1) * CellsPerPacket
           k == before - Received + 1
<1>1. /\ before \in Nat /\ Received \in Nat /\ Received = CutCells + Len(buffer)
      /\ n \in Nat /\ Len(wire) \in Nat /\ p - 1 \in Nat
  <2>1. Len(chunk) = 0 /\ p - 1 \in Nat
    BY EmptySeq
  <2> QED BY <2>1, LinkTypes, CellsOf DEF Received
<1>2. k \in 1..n /\ k \in 1..Len(wire) /\ 1 \in 1..Len(wire) /\ Received + k = before + 1
  BY <1>1
<1> HIDE DEF k
<1>3. wire[1] \in Cells /\ wire[k] \in Cells /\ wire[n] \in Cells
  BY <1>2, LinkTypes, ElementOfSeq
<1>4. /\ Place(wire[1]) = Received + 1 /\ Place(wire[k]) = before + 1
      /\ Place(wire[n]) = Received + n
  BY <1>2 DEF Continues
<1>5. wire[k] = <<p, 1>>
  <2>1. 1 \in 1..CellsPerPacket /\ p - 1 \in Nat /\ p - 1 + 1 = p
    BY <1>1, CellsPerPacketIsPositive
  <2>2. Place(wire[k]) = (p - 1) * CellsPerPacket + 1
    BY <1>4
  <2> QED BY <1>3, <2>1, <2>2, PlaceDetermines
<1>6. wire[1][1] = wire[n][1]
  BY <1>2, <1>5
<1>7. wire[1][1] = p /\ wire[n][1] = p
  <2>1. Place(wire[1]) <= Place(wire[k]) /\ Place(wire[k]) <= Place(wire[n])
    BY <1>1, <1>2, <1>4
  <2>2. wire[1][1] <= p /\ p <= wire[n][1]
    BY <1>3, <1>5, <2>1, PacketsAscend
  <2>3. wire[1][1] \in Nat
    BY <1>3, MaxPacketsAssumption DEF Cells
  <2> QED BY <1>6, <2>2, <2>3
<1>8. /\ wire[1][2] \in 1..CellsPerPacket /\ wire[n][2] \in 1..CellsPerPacket
      /\ Received + 1 = before + wire[1][2] /\ Received + n = before + wire[n][2]
  BY <1>3, <1>4, <1>7 DEF Cells, Place
<1>9. Received = before
  BY <1>1, <1>8
<1>10. Len(Pipeline) = p - 1 /\ Len(buffer) + 1 = 1
  <2>1. Len(Pipeline) * CellsPerPacket + (Len(buffer) + 1) = (p - 1) * CellsPerPacket + 1
    BY <1>1, <1>9, LinkTypes DEF CutCells
  <2>2. Len(buffer) + 1 \in 1..CellsPerPacket /\ 1 \in 1..CellsPerPacket
    BY LinkTypes, CellsPerPacketIsPositive
  <2>3. Len(Pipeline) \in Int /\ p - 1 \in Int
    BY LinkTypes
  <2> QED BY <2>1, <2>2, <2>3, PlacesApart
<1>11. Len(buffer) = 0 /\ p = Len(Pipeline) + 1
  BY <1>10, LinkTypes
<1>12. Received + n <= CutCells + CellsPerPacket
  <2>1. CutCells = before
    BY <1>1, <1>9, <1>11, LinkTypes
  <2> HIDE DEF before
  <2> QED BY <1>1, <1>8, <2>1, CellsPerPacketIsPositive
<1> QED BY <1>11, <1>12

\* A recv: whatever it returns, a packet that shares it with no other begins or goes on.
LEMMA RecvKeepsStream ==
  ASSUME StreamInv, CountInv', RecvData
  PROVE  StreamInv'
<1>1. PICK n \in 1..Len(wire) :
        /\ chunk' = SubSeq(wire, 1, n) /\ wire' = SubSeq(wire, n + 1, Len(wire))
        /\ merged' = IF wire[1][1] = wire[n][1] THEN merged
                     ELSE merged \cup {wire[i][1] : i \in 1..n}
  BY DEF RecvData
<1>2. /\ UNCHANGED <<buffer, sent, callback, life>> /\ Pipeline' = Pipeline
      /\ receiver = "recv" /\ receiver' = "feed" /\ CutCells' = CutCells
  BY DEF RecvData, transport, processing, Pipeline, CutCells
<1>3. /\ LinkInv /\ n \in 0..Len(wire) /\ n \in Nat /\ 1 \in 1..n
      /\ wire \in Seq(Cells) /\ Received \in Nat /\ CutCells \in Nat /\ Len(buffer) \in Nat
  BY LinkTypes DEF StreamInv, CountInv
<1>4. ASSUME Aligned PROVE Aligned'
  <2>1. /\ chunk = <<>> /\ Len(chunk) = 0 /\ Len(buffer) < CellsPerPacket
        /\ Continues(wire, Received) /\ Received = CutCells + Len(buffer)
    <3>1. chunk = <<>> /\ Len(buffer) < CellsPerPacket /\ Continues(wire, Received)
      BY <1>2, <1>3, <1>4 DEF LinkInv, LinkTypeOK, Aligned
    <3> QED BY <1>3, <3>1, EmptySeq DEF Received
  <2>2. /\ Continues(SubSeq(wire, 1, n), Received)
        /\ Continues(SubSeq(wire, n + 1, Len(wire)), Received + n)
        /\ Len(SubSeq(wire, 1, n)) = n
    BY <1>3, <2>1, SplitContinues, SplitCells
  <2>3. Received' = Received + n
    BY <1>1, <1>2, <2>1, <2>2 DEF Received
  <2>4. /\ Continues(chunk, CutCells + Len(buffer))'
        /\ Continues(wire, Received)'
    BY <1>1, <1>2, <2>1, <2>2, <2>3 DEF Continues
  <2>5. ASSUME NEW p \in Nat, p > Len(Pipeline), p \notin merged',
               (p - 1) * CellsPerPacket < Received'
        PROVE  Beginning(p)'
    <3>1. p \notin merged /\ (wire[1][1] = wire[n][1] \/ \A i \in 1..n : wire[i][1] # p)
      BY <1>1, <2>5
    <3>2. CASE (p - 1) * CellsPerPacket < Received
      <4>1. Beginning(p)
        BY <1>4, <2>5, <3>1, <3>2 DEF Aligned
      <4>2. wire[1][1] = p => wire[n][1] = p
        BY <1>3, <3>1
      <4>3. Received + n <= CutCells + CellsPerPacket
        BY <1>3, <2>1, <4>1, <4>2, RecvGoesOn
      <4> QED BY <1>2, <2>3, <2>4, <4>1, <4>3 DEF Beginning, Continues
    <3>3. CASE ~((p - 1) * CellsPerPacket < Received)
      <4>1. p >= 1 /\ p - 1 \in Nat /\ (p - 1) * CellsPerPacket \in Nat
        <5>1. p >= 1 /\ p - 1 \in Nat
          BY <1>3, <2>5, LinkTypes
        <5> QED BY <5>1, CellsOf
      <4>2. Received <= (p - 1) * CellsPerPacket /\ (p - 1) * CellsPerPacket < Received + n
        BY <1>3, <2>3, <2>5, <3>3, <4>1
      <4>3. /\ p = Len(Pipeline) + 1 /\ Len(buffer) = 0
            /\ Received + n <= CutCells + CellsPerPacket
        BY <1>3, <2>1, <3>1, <4>1, <4>2, RecvStarts
      <4>4. Continues(buffer, CutCells)'
        BY <1>2, <4>3 DEF Continues
      <4> QED BY <1>2, <2>3, <2>4, <4>3, <4>4 DEF Beginning
    <3> QED BY <3>2, <3>3
  <2> QED BY <1>2, <2>1, <2>4, <2>5 DEF Aligned
<1>5. AloneInPlace'
  <2>1. merged \subseteq merged'
    BY <1>1
  <2> QED BY <1>2, <2>1 DEF StreamInv, AloneInPlace, Packet
<1> QED BY <1>2, <1>4, <1>5 DEF StreamInv, Attached

\* The framer joins what it holds and what was received.
LEMMA FeedKeepsStream ==
  ASSUME StreamInv, CountInv', Feed
  PROVE  StreamInv'
<1>1. /\ UNCHANGED <<wire, sent, merged, callback, life>> /\ Pipeline' = Pipeline
      /\ buffer' = buffer \o chunk /\ chunk' = <<>> /\ Len(chunk') = 0
      /\ receiver' = "extract"
  BY EmptySeq DEF Feed, network, transport, processing, Pipeline
<1>2. LinkInv /\ buffer \in Seq(Cells) /\ chunk \in Seq(Cells) /\ CutCells \in Nat
  BY LinkTypes DEF StreamInv, CountInv
<1>3. Len(buffer') = Len(buffer) + Len(chunk) /\ Len(buffer) \in Nat /\ Len(chunk) \in Nat
  BY <1>1, <1>2, ConcatProperties, LenProperties
<1>4. CutCells' = CutCells /\ Received' = Received
  <2>1. CutCells' = CutCells
    BY <1>1 DEF CutCells
  <2>2. Received' = CutCells + (Len(buffer) + Len(chunk)) + 0
    BY <1>1, <1>3, <2>1 DEF Received
  <2> QED BY <1>2, <1>3, <2>1, <2>2 DEF Received
<1>5. ASSUME NEW p, Beginning(p) PROVE Beginning(p)'
  <2>1. Continues(buffer \o chunk, CutCells)
    BY <1>2, <1>5, ConcatContinues DEF Beginning
  <2>2. Continues(buffer, CutCells)' /\ Continues(chunk, CutCells + Len(buffer))'
    BY <1>1, <1>4, <2>1 DEF Continues
  <2> QED BY <1>1, <1>4, <1>5, <2>2 DEF Beginning
<1>6. Aligned => Aligned'
  BY <1>1, <1>4, <1>5 DEF Aligned, Continues
<1>7. AloneInPlace'
  BY <1>1 DEF StreamInv, AloneInPlace
<1> QED BY <1>1, <1>6, <1>7 DEF StreamInv, Attached

\* The frame goes back into the framer, in front of nothing if it is a packet that
\* shares no recv.
LEMMA ExtractKeepsStream ==
  ASSUME StreamInv, CountInv', Extract
  PROVE  StreamInv'
<1>1. /\ UNCHANGED <<wire, sent, merged, callback, life, chunk>> /\ Pipeline' = Pipeline
      /\ receiver = "extract" /\ HasFrame /\ LinkInv /\ CutCells' = CutCells
  BY DEF Extract, network, transport, processing, Pipeline, StreamInv, CountInv, CutCells
<1>2. AloneInPlace'
  BY <1>1 DEF StreamInv, AloneInPlace
<1>3. CASE callback
  <2>1. Aligned /\ buffer' = Rest \o Frame /\ receiver' = "push"
    BY <1>3 DEF StreamInv, Attached, Extract
  <2>2. /\ Frame \in Seq(Cells) /\ Len(Frame) = CellsPerPacket
        /\ Rest \in Seq(Cells) /\ Len(Rest) = Len(buffer) - CellsPerPacket
    BY <1>1, LinkTypes, FrameAndRest
  <2>3. Len(buffer') = Len(buffer) /\ Received' = Received
    <3>1. Len(buffer') = Len(Rest) + Len(Frame)
      BY <2>1, <2>2, ConcatProperties
    <3>2. Len(buffer') = Len(buffer)
      BY <1>1, <2>2, <3>1, LinkTypes, CellsPerPacketIsPositive
    <3> QED BY <1>1, <3>2 DEF Received
  <2>4. ASSUME NEW p \in Nat, p > Len(Pipeline), p \notin merged,
               (p - 1) * CellsPerPacket < Received
        PROVE  Beginning(p)'
    <3>1. Beginning(p) /\ p = Len(Pipeline) + 1
      BY <2>1, <2>4 DEF Aligned, Beginning
    <3>2. Len(buffer) = CellsPerPacket /\ Len(Rest) = 0
      BY <1>1, <3>1, FrameIsNext
    <3>3. Rest = <<>>
      BY <2>2, <3>2, NoCells
    <3>4. Frame = buffer
      <4>1. buffer \in Seq(Cells)
        BY <1>1, LinkTypes
      <4> QED BY <3>2, <4>1, SubSeqFull DEF Frame
    <3>5. buffer' = buffer
      BY <2>1, <2>2, <3>3, <3>4, ConcatEmptySeq
    <3> QED BY <1>1, <2>3, <3>1, <3>5 DEF Beginning, Continues
  <2> QED BY <1>1, <1>2, <2>1, <2>3, <2>4 DEF StreamInv, Aligned, Continues
<1>4. CASE ~callback
  <2>1. ~Attached'
    BY <1>1, <1>4 DEF LinkInv, Threads, Attached
  <2> QED BY <1>2, <2>1 DEF StreamInv
<1> QED BY <1>3, <1>4

\* The next packet enters the pipeline, whole if it shares no recv.
LEMMA PushKeepsStream ==
  ASSUME StreamInv, CountInv', Push
  PROVE  StreamInv'
<1>1. /\ UNCHANGED <<wire, sent, merged, callback, life, chunk, receiver>>
      /\ receiver = "push" /\ HasFrame /\ buffer' = Rest
  BY DEF Push, network, transport, processing
<1>2. LinkInv /\ Aligned /\ callback
  BY <1>1 DEF StreamInv, CountInv, LinkInv, Threads, Attached
<1>3. /\ Frame \in Frames /\ Len(buffer') = Len(buffer) - CellsPerPacket
      /\ Received > CutCells
  <2>1. Frame \in Frames /\ Len(buffer') = Len(buffer) - CellsPerPacket
    BY <1>1, <1>2, LinkTypes, FrameAndRest
  <2>2. Received > CutCells
    BY <1>1, <1>2, LinkTypes, CellsPerPacketIsPositive DEF Received, HasFrame
  <2> QED BY <2>1, <2>2
<1>4. /\ Len(Pipeline') = Len(Pipeline) + 1
      /\ Pipeline'[Len(Pipeline) + 1] = Frame
      /\ \A i \in 1..Len(Pipeline) : Pipeline'[i] = Pipeline[i]
  <2>1. Pipeline \in Seq(Frames) /\ Pipeline' = Append(Pipeline, Frame)
    BY <1>2, LinkTypes, PushAppends
  <2> QED BY <1>3, <2>1, AppendProperties
<1>5. AloneInPlace'
  <2> SUFFICES ASSUME NEW i \in 1..Len(Pipeline'), i \notin merged
               PROVE  Pipeline'[i] = Packet(i)
    BY <1>1 DEF AloneInPlace, Packet
  <2>1. CASE i = Len(Pipeline) + 1
    <3>1. Beginning(Len(Pipeline) + 1)
      BY <1>2, <1>3, <2>1, NextBegins
    <3>2. Frame = Packet(Len(Pipeline) + 1)
      BY <1>1, <1>2, <3>1, FrameIsNext
    <3> QED BY <1>4, <2>1, <3>2
  <2>2. CASE i # Len(Pipeline) + 1
    <3>1. i \in 1..Len(Pipeline)
      BY <1>2, <1>4, <2>2, LinkTypes
    <3> QED BY <1>4, <3>1 DEF StreamInv, AloneInPlace
  <2> QED BY <2>1, <2>2
<1>6. Received' = Received
  <2>1. CutCells' = CutCells + CellsPerPacket
    BY <1>2, <1>4, LinkTypes, CellsOf DEF CutCells
  <2> QED BY <1>1, <1>2, <1>3, <2>1, LinkTypes, CellsPerPacketIsPositive DEF Received
<1>7. ASSUME NEW p \in Nat, p > Len(Pipeline'), p \notin merged,
             (p - 1) * CellsPerPacket < Received
      PROVE  FALSE
  <2>1. p > Len(Pipeline) /\ p # Len(Pipeline) + 1
    BY <1>2, <1>4, <1>7, LinkTypes
  <2>2. Beginning(p)
    BY <1>2, <1>7, <2>1 DEF Aligned
  <2> QED BY <2>1, <2>2 DEF Beginning
<1>8. Aligned'
  BY <1>1, <1>2, <1>6, <1>7 DEF Aligned, Continues
<1> QED BY <1>5, <1>8 DEF StreamInv

\* Every step keeps the stream.
LEMMA StreamInvStep ==
  ASSUME StreamInv, [LinkNext]_linkVars
  PROVE  StreamInv'
<1>1. LinkInv /\ CountInv' /\ LinkInv'
  BY CountStep DEF StreamInv, CountInv
<1>2. CASE SendPacket \/ RecvData \/ Feed \/ Extract \/ Push
  BY <1>1, <1>2, SendKeepsStream, RecvKeepsStream, FeedKeepsStream, ExtractKeepsStream,
     PushKeepsStream
<1>3. CASE PacketThread
  <2>1. UNCHANGED <<wire, sent, chunk, buffer, merged, receiver, callback, life>>
    BY <1>3 DEF PacketThread, PacketLoop, SwapQueue, DispatchPacket, BatchDone, network,
                transport, receiving
  <2>2. Pipeline' = Pipeline
    BY <1>1, <1>3, PassingKeepsPipeline
  <2> QED BY <1>1, <2>1, <2>2, StillStream DEF Attached
<1>4. CASE PeerCloses \/ Owner
  <2>1. UNCHANGED <<wire, sent, chunk, buffer, merged, receiver, queue, local, dispatched>>
        \/ StartReceiving
    BY <1>4 DEF PeerCloses, Connect, StartProcessThread, DestroyDerived, StopReceiving,
                StopProcessThread, JoinPacketThread, ClearFlags, CloseSocket, JoinReceiver,
                Owner, OwnerContinues, network, transport, receiving, processing
  <2>2. CASE StartReceiving
    <3>1. /\ UNCHANGED <<wire, sent, chunk, buffer, merged, queue, local, dispatched>>
          /\ receiver' = "loop" /\ life = "connected" /\ receiver = "none"
      BY <1>1, <2>2 DEF StartReceiving, network, processing, LinkInv, Threads
    <3>2. Attached /\ Pipeline' = Pipeline
      BY <3>1 DEF Attached, Pipeline
    <3> QED BY <1>1, <3>1, <3>2, StillStream
  <2>3. CASE /\ UNCHANGED <<wire, sent, chunk, buffer, merged, receiver, queue, local,
                            dispatched>>
             /\ ~StartReceiving
    <3>1. Attached' => Attached
      BY <1>4, <2>3 DEF PeerCloses, Connect, StartProcessThread, DestroyDerived,
         StopReceiving, StopProcessThread, JoinPacketThread, ClearFlags, CloseSocket,
         JoinReceiver, After, Owner, OwnerContinues, transport, Attached
    <3>2. Pipeline' = Pipeline
      BY <2>3 DEF Pipeline
    <3> QED BY <1>1, <2>3, <3>1, <3>2, StillStream
  <2> QED BY <2>1, <2>2, <2>3
<1>5. CASE RecvLoop \/ RecvNothing \/ RecvReturns \/ CallbackReturns
  <2>1. /\ UNCHANGED <<wire, sent, chunk, buffer, merged, callback, life>>
        /\ Pipeline' = Pipeline
        /\ receiver \in {"extract", "push"} => receiver' = "extract" \/ ~HasFrame
    BY <1>5 DEF RecvLoop, RecvNothing, RecvReturns, CallbackReturns, network, transport,
                processing, Pipeline
  <2>2. ~HasFrame => Len(buffer) < CellsPerPacket
    BY <1>1, LinkTypes, CellsPerPacketIsPositive DEF HasFrame
  <2> QED BY <1>1, <2>1, <2>2, StillStream DEF Attached
<1>6. CASE UNCHANGED linkVars
  <2>1. UNCHANGED <<wire, sent, chunk, buffer, merged, receiver, callback, life, queue, local,
                    dispatched>>
    BY <1>6 DEF linkVars, network, transport, receiving, processing
  <2> QED BY <1>1, <2>1, StillStream DEF Attached, Pipeline
<1> QED BY <1>2, <1>3, <1>4, <1>5, <1>6 DEF LinkNext, VisionSystem, Receiver

\* However VisionTcpClient's recvs cut the stream, a packet that comes with no cells
\* of another is handed on whole and in its place, also after packets that the
\* shared framer has garbled.
THEOREM AlonePacketsInPlace == LinkSpec => []AloneInPlace
<1>1. StreamInv /\ [LinkNext]_linkVars => StreamInv'
  BY StreamInvStep
<1>2. StreamInv => AloneInPlace
  BY DEF StreamInv
<1> QED BY <1>1, <1>2, InitStream, PTL DEF LinkSpec

=============================================================================
