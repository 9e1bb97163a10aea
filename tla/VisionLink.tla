----------------------------- MODULE VisionLink -----------------------------
(***************************************************************************)
(* The link to the vision system, from the TCP stream to the handlers of   *)
(* the processor: VisionTcpClient's receive thread cuts the stream into    *)
(* packets with a FixedLengthFramer and calls VisionController back, which *)
(* queues them; the packet thread of VisionProcessorBase dispatches them.  *)
(*                                                                         *)
(* The controller gives the transport its own framer, and its callback     *)
(* feeds every frame the transport has cut back into that same framer.     *)
(*                                                                         *)
(* A packet is CellsPerPacket cells, so that a recv may end inside one, or *)
(* return cells of several: TCP keeps no packet boundaries, and the recv   *)
(* asks for up to 8192 bytes where a packet has 664.                       *)
(* Sending, and what the handlers do, are not part of this module.         *)
(* Its initial state, steps and types are named after the link because     *)
(* VisionProofs extends VisionExchange beside it.                          *)
(***************************************************************************)
EXTENDS Naturals, Sequences

CONSTANTS
  CellsPerPacket,   \* the 664 bytes of a packet, in cells
  MaxPackets        \* bound: how many packets the vision system sends

ASSUME CellsAssumption == CellsPerPacket \in Nat \ {0}
ASSUME MaxPacketsAssumption == MaxPackets \in Nat

VARIABLES
  wire,        \* the cells sent and not yet received
  sent,        \* how many packets the vision system has sent
  peerClosed,  \* the vision system has closed the connection
  merged,      \* history: the packets that shared a recv with another packet
  socket,      \* m_sock
  running, connected,   \* m_running and m_connected of the transport
  callback,    \* m_recvCb is set and m_callbackEnabled
  receiver,    \* the receive thread
  chunk,       \* what its last recv returned
  buffer,      \* the framer's m_buffer
  queue,       \* m_packetQueue
  local,       \* the packet thread's localQueue
  packetLoop,  \* the packet thread
  processRunning,  \* m_processRunning
  life,        \* the thread that owns the processor
  dispatched   \* history: the frames handed to the handlers

network == <<wire, sent, peerClosed, merged>>
transport == <<socket, running, connected, callback>>
receiving == <<receiver, chunk, buffer>>
processing == <<local, packetLoop, dispatched>>
linkVars == <<network, transport, receiving, queue, processing, processRunning, life>>

Packet(p) == [i \in 1..CellsPerPacket |-> <<p, i>>]

Cells == (1..MaxPackets) \X (1..CellsPerPacket)
Frames == [1..CellsPerPacket -> Cells]

LinkInit ==
  /\ wire = <<>> /\ sent = 0 /\ peerClosed = FALSE /\ merged = {}
  /\ socket = "none" /\ running = FALSE /\ connected = FALSE /\ callback = FALSE
  /\ receiver = "none" /\ chunk = <<>> /\ buffer = <<>>
  /\ queue = <<>> /\ local = <<>> /\ packetLoop = "none"
  /\ processRunning = FALSE
  /\ life = "new"
  /\ dispatched = <<>>

-----------------------------------------------------------------------------
(* The vision system. *)

SendPacket ==
  /\ socket = "open" /\ ~peerClosed
  /\ sent < MaxPackets
  /\ sent' = sent + 1
  /\ wire' = wire \o Packet(sent + 1)
  /\ UNCHANGED <<peerClosed, merged, transport, receiving, queue, processing,
                 processRunning, life>>

PeerCloses ==
  /\ socket = "open" /\ ~peerClosed
  /\ peerClosed' = TRUE
  /\ UNCHANGED <<wire, sent, merged, transport, receiving, queue, processing,
                 processRunning, life>>

-----------------------------------------------------------------------------
(* The owner: VisionProcessorBase::Initialize, Disconnect, the destructors. *)

\* VisionController::Initialize; that the connection failed is ignored.
Connect ==
  /\ life = "new"
  /\ \E ok \in BOOLEAN :
       /\ socket' = IF ok THEN "open" ELSE "none"
       /\ running' = ok /\ connected' = ok
  /\ life' = "connected"
  /\ UNCHANGED <<network, callback, receiving, queue, processing, processRunning>>

\* The callback, then the receive thread.
StartReceiving ==
  /\ life = "connected"
  /\ callback' = TRUE
  /\ running' = TRUE
  /\ receiver' = "loop"
  /\ life' = "receiving"
  /\ UNCHANGED <<network, socket, connected, chunk, buffer, queue, processing, processRunning>>

StartProcessThread ==
  /\ life = "receiving"
  /\ processRunning' = TRUE
  /\ packetLoop' = "loop"
  /\ life' = "up"
  /\ UNCHANGED <<network, transport, receiving, queue, local, dispatched>>

\* The derived part of the processor, where the handlers live, goes first ...
DestroyDerived ==
  /\ life \in {"up", "closed"}
  /\ life' = "derivedGone"
  /\ UNCHANGED <<network, transport, receiving, queue, processing, processRunning>>

\* ... and only then does the base class stop and join the packet thread.
StopProcessThread ==
  /\ life = "derivedGone"
  /\ processRunning' = FALSE
  /\ life' = "joinPackets"
  /\ UNCHANGED <<network, transport, receiving, queue, processing>>

JoinPacketThread ==
  /\ life = "joinPackets"
  /\ packetLoop = "exited"
  /\ life' = "packetsJoined"
  /\ UNCHANGED <<network, transport, receiving, queue, processing, processRunning>>

\* Where the owner is after a step of Disconnect, or of ~VisionController and
\* ~VisionTcpClient, which take the same steps.
After(inDisconnect, inDestructor) ==
  life' = IF life \in {"up", "stopped", "cleared"} THEN inDisconnect ELSE inDestructor

\* Mutant of StopReceiving: without m_cbMutex.
StopUnlocked ==
  /\ life \in {"up", "packetsJoined"}
  /\ callback' = FALSE
  /\ After("stopped", "controllerGone")
  /\ UNCHANGED <<network, socket, running, connected, receiving, queue, processing, processRunning>>

\* StopReceiving takes the callback away under m_cbMutex, which the receive
\* thread holds while the callback runs; in the destructor the controller's
\* Impl, which the callback points to, is destroyed next.
StopReceiving ==
  /\ life \in {"up", "packetsJoined"}
  /\ receiver # "push"
  /\ callback' = FALSE
  /\ After("stopped", "controllerGone")
  /\ UNCHANGED <<network, socket, running, connected, receiving, queue, processing, processRunning>>

\* Mutant of ClearFlags: the receive thread is not told to stop.
ClearConnected ==
  /\ life \in {"stopped", "controllerGone"}
  /\ connected' = FALSE
  /\ After("cleared", "clearedLast")
  /\ UNCHANGED <<network, socket, running, callback, receiving, queue, processing, processRunning>>

\* CleanupSocket: the flags without a lock ...
ClearFlags ==
  /\ life \in {"stopped", "controllerGone"}
  /\ running' = FALSE /\ connected' = FALSE
  /\ After("cleared", "clearedLast")
  /\ UNCHANGED <<network, socket, callback, receiving, queue, processing, processRunning>>

\* ... and the socket under m_bufferMutex, which RecvOnce holds while it cuts.
CloseSocket ==
  /\ life \in {"cleared", "clearedLast"}
  /\ receiver \notin {"extract", "push"}
  /\ socket' = "none"
  /\ After("closed", "joinReceiver")
  /\ UNCHANGED <<network, running, connected, callback, receiving, queue, processing, processRunning>>

JoinReceiver ==
  /\ life = "joinReceiver"
  /\ receiver = "exited"
  /\ life' = "destroyed"
  /\ UNCHANGED <<network, transport, receiving, queue, processing, processRunning>>

-----------------------------------------------------------------------------
(* The receive thread: StartRecvThread's loop over RecvOnce. *)

RecvLoop ==
  /\ receiver = "loop"
  /\ receiver' = IF running THEN "recv" ELSE "exited"
  /\ UNCHANGED <<network, transport, chunk, buffer, queue, processing, processRunning, life>>

\* recv returns some of what has arrived, whichever packets that is of; RecvOnce
\* then locks m_bufferMutex.
RecvData ==
  /\ receiver = "recv" /\ socket = "open"
  /\ \E n \in 1..Len(wire) :
       /\ chunk' = SubSeq(wire, 1, n)
       /\ wire' = SubSeq(wire, n + 1, Len(wire))
       /\ merged' = IF wire[1][1] = wire[n][1] THEN merged
                    ELSE merged \cup {wire[i][1] : i \in 1..n}
  /\ receiver' = "feed"
  /\ UNCHANGED <<sent, peerClosed, transport, buffer, queue, processing, processRunning, life>>

\* The socket is closed here, or was by the vision system: recv fails or returns 0.
RecvNothing ==
  /\ receiver = "recv"
  /\ socket = "none" \/ (peerClosed /\ wire = <<>>)
  /\ connected' = (connected /\ socket = "none")
  /\ receiver' = "loop"
  /\ UNCHANGED <<network, socket, running, callback, chunk, buffer, queue, processing,
                 processRunning, life>>

\* Mutant of Feed: the bytes are not cleared, as a buffer kept across recvs would be.
FeedKeeping ==
  /\ receiver = "feed"
  /\ buffer' = buffer \o chunk
  /\ receiver' = "extract"
  /\ UNCHANGED <<network, transport, chunk, queue, processing, processRunning, life>>

Feed ==
  /\ receiver = "feed"
  /\ buffer' = buffer \o chunk
  /\ chunk' = <<>>
  /\ receiver' = "extract"
  /\ UNCHANGED <<network, transport, queue, processing, processRunning, life>>

\* FixedLengthFramer::NextFrame
HasFrame == Len(buffer) >= CellsPerPacket
Frame == SubSeq(buffer, 1, CellsPerPacket)
Rest == SubSeq(buffer, CellsPerPacket + 1, Len(buffer))

\* RecvOnce's loop: each frame goes to the callback, which feeds it back.
Extract ==
  /\ receiver = "extract" /\ HasFrame
  /\ \/ /\ callback
        /\ buffer' = Rest \o Frame
        /\ receiver' = "push"
     \/ /\ ~callback
        /\ buffer' = Rest
        /\ UNCHANGED receiver
  /\ UNCHANGED <<network, transport, chunk, queue, processing, processRunning, life>>

RecvReturns ==
  /\ receiver = "extract" /\ ~HasFrame
  /\ receiver' = "loop"
  /\ UNCHANGED <<network, transport, chunk, buffer, queue, processing, processRunning, life>>

\* Mutants of Push: the newest packet first; only the newest packet.
PushFront ==
  /\ receiver = "push" /\ HasFrame
  /\ queue' = <<Frame>> \o queue
  /\ buffer' = Rest
  /\ UNCHANGED <<network, transport, receiver, chunk, processing, processRunning, life>>

PushNewest ==
  /\ receiver = "push" /\ HasFrame
  /\ queue' = <<Frame>>
  /\ buffer' = Rest
  /\ UNCHANGED <<network, transport, receiver, chunk, processing, processRunning, life>>

\* HandleTransportData's loop, inside the callback: m_queueMutex for each push.
Push ==
  /\ receiver = "push" /\ HasFrame
  /\ queue' = Append(queue, Frame)
  /\ buffer' = Rest
  /\ UNCHANGED <<network, transport, receiver, chunk, processing, processRunning, life>>

CallbackReturns ==
  /\ receiver = "push" /\ ~HasFrame
  /\ receiver' = "extract"
  /\ UNCHANGED <<network, transport, chunk, buffer, queue, processing, processRunning, life>>

-----------------------------------------------------------------------------
(* The packet thread: PacketLoop over ProcessPackets. *)

PacketLoop ==
  /\ packetLoop = "loop"
  /\ packetLoop' = IF processRunning THEN "swap" ELSE "exited"
  /\ UNCHANGED <<network, transport, receiving, queue, local, dispatched,
                 processRunning, life>>

SwapQueue ==
  /\ packetLoop = "swap"
  /\ local' = queue
  /\ queue' = <<>>
  /\ packetLoop' = "dispatch"
  /\ UNCHANGED <<network, transport, receiving, dispatched, processRunning, life>>

\* The handler that the dispatcher finds captures the processor, which is no
\* longer whole once its derived part is gone; the loop does not know.
DispatchPacket ==
  /\ packetLoop = "dispatch" /\ local # <<>>
  /\ dispatched' = Append(dispatched, Head(local))
  /\ local' = Tail(local)
  /\ UNCHANGED <<network, transport, receiving, queue, packetLoop, processRunning, life>>

BatchDone ==
  /\ packetLoop = "dispatch" /\ local = <<>>
  /\ packetLoop' = "loop"
  /\ UNCHANGED <<network, transport, receiving, queue, local, dispatched,
                 processRunning, life>>

VisionSystem == SendPacket \/ PeerCloses

\* A call of the owner that has begun goes on.
OwnerContinues ==
  \/ StartReceiving \/ StartProcessThread
  \/ StopProcessThread \/ JoinPacketThread
  \/ life # "up" /\ StopReceiving
  \/ ClearFlags \/ CloseSocket \/ JoinReceiver

Owner == Connect \/ DestroyDerived \/ StopReceiving \/ OwnerContinues

Receiver ==
  \/ RecvLoop \/ RecvData \/ RecvNothing \/ Feed \/ Extract \/ RecvReturns
  \/ Push \/ CallbackReturns

PacketThread == PacketLoop \/ SwapQueue \/ DispatchPacket \/ BatchDone

LinkNext == VisionSystem \/ Owner \/ Receiver \/ PacketThread

LinkSpec == LinkInit /\ [][LinkNext]_linkVars

\* The two threads are scheduled and a call of the owner is carried through;
\* nothing is assumed of the vision system.
LinkFairSpec ==
  LinkSpec /\ WF_linkVars(OwnerContinues) /\ WF_linkVars(Receiver) /\ WF_linkVars(PacketThread)

-----------------------------------------------------------------------------
(* Properties. *)

\* The packets that have been cut and not dropped, oldest first.
Pipeline == dispatched \o local \o queue

\* The type invariant of the link.
LinkTypeOK ==
  /\ wire \in Seq(Cells) /\ chunk \in Seq(Cells) /\ buffer \in Seq(Cells)
  /\ sent \in 0..MaxPackets /\ peerClosed \in BOOLEAN /\ merged \subseteq 1..MaxPackets
  /\ socket \in {"none", "open"}
  /\ running \in BOOLEAN /\ connected \in BOOLEAN /\ callback \in BOOLEAN
  /\ receiver \in {"none", "loop", "recv", "feed", "extract", "push", "exited"}
  /\ receiver # "feed" => chunk = <<>>
  /\ queue \in Seq(Frames) /\ local \in Seq(Frames) /\ dispatched \in Seq(Frames)
  /\ packetLoop \in {"none", "loop", "swap", "dispatch", "exited"}
  /\ processRunning \in BOOLEAN
  /\ life \in {"new", "connected", "receiving", "up", "stopped", "cleared", "closed",
               "derivedGone", "joinPackets", "packetsJoined", "controllerGone",
               "clearedLast", "joinReceiver", "destroyed"}

\* The handlers see the packets the vision system sent, whole and in order.
\* VisionController feeds every frame that VisionTcpClient has cut into the same
\* framer again, behind what that framer still holds.
FramesInOrder ==
  \A i \in 1..Len(Pipeline) : Pipeline[i] = Packet(i)

\* A packet no recv of which brought cells of another is handed on whole and in
\* its place, although it goes through the shared framer twice, and however the
\* packets before it were received.
AloneInPlace ==
  \A i \in 1..Len(Pipeline) : i \notin merged => Pipeline[i] = Packet(i)

\* The cells of s.
CellsIn(s) == {s[i] : i \in DOMAIN s}

\* While the callback is set, every cell that was sent is on the wire, received,
\* buffered or handed on, and none of them twice: the shared framer may garble
\* packets, but it drops and doubles nothing.
NothingIsLost ==
  callback =>
    /\ Len(Pipeline) * CellsPerPacket + Len(buffer) + Len(chunk) + Len(wire)
         = sent * CellsPerPacket
    /\ CellsIn(wire) \cup CellsIn(chunk) \cup CellsIn(buffer)
         \cup UNION {CellsIn(frame) : frame \in CellsIn(Pipeline)}
         = (1..sent) \X (1..CellsPerPacket)

\* The callback never runs on a controller that is gone: its destructor takes
\* the callback away under the mutex the callback runs under.
NoCallbackIntoDeadController ==
  life \in {"controllerGone", "clearedLast", "joinReceiver", "destroyed"} => receiver # "push"

\* Every packet sent is dispatched while the processor stays up.
EveryPacketDispatched ==
  \A p \in 1..MaxPackets :
    sent >= p /\ life = "up" ~> Len(dispatched) >= p \/ life # "up"

\* The destructor returns: it joins both threads, whatever they are doing.
DestroyReturns == life = "derivedGone" ~> life = "destroyed"
=============================================================================
