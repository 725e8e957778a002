----------------------------- MODULE ClientRecv -----------------------------
(***************************************************************************)
(* The receiving half of the Unity client's Session (NetWork/Session.cs),  *)
(* with its RecvBuffer (RecvBuffer.cs) and the way packets are decoded     *)
(* (Packet/IPacket.cs, ClientPacketHandler_Generated.cs).                  *)
(*                                                                         *)
(* Start begins a chain of receives; each completed ReceiveAsync, at once  *)
(* or later, is handled by one thread, which posts the next.  Disconnect   *)
(* comes from anywhere.  The frames of a receive are cut out by their      *)
(* sizes, but PacketReader starts at the beginning of the array whatever   *)
(* segment it is given: handlers see the bytes at the buffer's front.      *)
(*                                                                         *)
(* An exception in a handler ends the chain (the code logs it).  The       *)
(* peer's frames are well-formed and fit the buffer.                       *)
(*                                                                         *)
(* Definitions commented "Variant" are no part of the model: each is an    *)
(* action with a plausible bug that a property is shown to catch.          *)
(***************************************************************************)
EXTENDS FrameStream

CONSTANTS BufferSize,   \* the RecvBuffer's size, 65535
          MaxTotal      \* bound: bytes the peer sends

ASSUME BufferAssumption ==
  /\ BufferSize \in Nat /\ MaxTotal \in Nat
  /\ \A n \in FrameSizes : n <= BufferSize

VARIABLES
  ends,           \* the frames the peer has sent
  gone,           \* the connection is over: closed, reset, or shut down here
  disconnected,   \* _disconnected
  closed,         \* _socket has been closed
  data,           \* the bytes _buffer[0.._writePos-1]
  readPos,        \* _readPos
  room,           \* the length given to the last ReceiveAsync
  pc,             \* where the chain of receives is
  processLen,     \* OnRecv's local
  arrived,        \* history: bytes received
  before,         \* history: number of packets in earlier receives
  packets,        \* history: the segments given to OnRecvPacket
  decoded         \* history: the position each of them was decoded from

network == <<ends, gone>>
socket  == <<disconnected, closed>>
buffer  == <<data, readPos>>
history == <<before, packets, decoded>>
vars == <<network, socket, buffer, room, pc, processLen, arrived, history>>

------------------------------------------------------------------------------
WritePos == Len(data)
DataSize == WritePos - readPos
FreeSize == BufferSize - WritePos

\* The bytes of the stream behind position p.
StreamBytes(p, n) == [i \in 1..n |-> p + i]

\* The position and the size of the segment that OnRecv's loop looks at.
Segment == readPos + processLen
SegmentSize == SizeAt(ends, data[Segment + 1])

\* The loop goes on: a header and the whole packet are there.
PacketReady ==
  /\ DataSize - processLen >= HeaderSize
  /\ DataSize - processLen >= SegmentSize

\* Where PacketReader reads a segment from: _buffer.Array at _offset, which
\* starts at 0; the segment's own Offset plays no part.
ReadFrom == data[1]

Init ==
  /\ ends = <<>>
  /\ gone = FALSE
  /\ disconnected = FALSE
  /\ closed = FALSE
  /\ data = <<>>
  /\ readPos = 0
  /\ room = 0
  /\ pc = "idle"
  /\ processLen = 0
  /\ arrived = 0
  /\ before = 0
  /\ packets = <<>>
  /\ decoded = <<>>

------------------------------------------------------------------------------
(* The other end, and the other threads *)

PeerSend(n) ==
  /\ pc # "idle"
  /\ ~gone
  /\ Total(ends) + n <= MaxTotal
  /\ ends' = Extended(ends, n)
  /\ UNCHANGED <<gone, socket, buffer, room, pc, processLen, arrived, history>>

ConnectionEnds ==
  /\ pc # "idle"
  /\ gone' = TRUE
  /\ UNCHANGED <<ends, socket, buffer, room, pc, processLen, arrived, history>>

\* Disconnect called by OnDestroy or by a failed send, up to its Shutdown.
Disconnect ==
  /\ pc # "idle"
  /\ ~disconnected
  /\ disconnected' = TRUE
  /\ UNCHANGED <<network, closed, buffer, room, pc, processLen, arrived, history>>

\* The rest of that call: Shutdown and Close.
CloseSocket ==
  /\ disconnected
  /\ ~closed
  /\ closed' = TRUE
  /\ gone' = TRUE
  /\ UNCHANGED <<ends, disconnected, buffer, room, pc, processLen, arrived, history>>

------------------------------------------------------------------------------
(* The chain of receives *)

\* Session::Start, called by the Connector.
Start ==
  /\ pc = "idle"
  /\ pc' = "register"
  /\ UNCHANGED <<network, socket, buffer, room, processLen, arrived, history>>

\* RecvBuffer::Clean
Clean ==
  /\ data' = SubSeq(data, readPos + 1, WritePos)
  /\ readPos' = 0

\* Variant: the buffer is cleaned only when it is full.
RegisterDirty ==
  /\ pc = "register"
  /\ IF disconnected
       THEN pc' = "ended" /\ UNCHANGED <<buffer, room>>
       ELSE /\ UNCHANGED buffer
            /\ room' = FreeSize
            /\ pc' = "recv"
  /\ UNCHANGED <<network, socket, processLen, arrived, history>>

\* RegisterRecv's test of _disconnected, Clean and SetBuffer.
RegisterRecv ==
  /\ pc = "register"
  /\ IF disconnected
       THEN pc' = "ended" /\ UNCHANGED <<buffer, room>>
       ELSE /\ Clean
            /\ room' = BufferSize - DataSize
            /\ pc' = "recv"
  /\ UNCHANGED <<network, socket, processLen, arrived, history>>

\* ReceiveAsync, or its exception when the socket was closed meanwhile.
ReceiveAsync ==
  /\ pc = "recv"
  /\ pc' = IF closed THEN "ended" ELSE "posted"
  /\ UNCHANGED <<network, socket, buffer, room, processLen, arrived, history>>

\* The receive completes with n bytes, none when the connection is over.
Completes(n) ==
  /\ pc = "posted"
  /\ n <= room /\ n <= Total(ends) - arrived
  /\ n = 0 => gone \/ (room = 0 /\ arrived < Total(ends))
  /\ n > 0 => ~closed
  /\ arrived' = arrived + n

\* OnRecvCompleted up to OnRecv: what OnWrite refuses, and a receive of nothing,
\* is a Disconnect.
OnRecvCompleted(n) ==
  /\ Completes(n)
  /\ processLen' = 0
  /\ before' = Len(packets)
  /\ IF n = 0 \/ n > FreeSize
       THEN /\ pc' = IF n = 0 THEN "ended" ELSE "fault"
            /\ disconnected' = TRUE
            /\ UNCHANGED data
       ELSE /\ data' = data \o StreamBytes(arrived, n)
            /\ pc' = "parse"
            /\ UNCHANGED disconnected
  /\ UNCHANGED <<network, closed, readPos, room, packets, decoded>>

\* OnRecvPacket gets the segment; its handler reads it from the array's start.
Handle ==
  /\ pc = "parse"
  /\ PacketReady
  /\ packets' = Append(packets, [at |-> data[Segment + 1], len |-> SegmentSize])
  /\ decoded' = Append(decoded, ReadFrom)

\* A turn of OnRecv's loop.
OnRecvPacket ==
  /\ Handle
  /\ processLen' = processLen + SegmentSize
  /\ UNCHANGED <<network, socket, buffer, room, pc, arrived, before>>

\* The handler throws: nothing is marked as read, no receive is posted.
HandlerThrows ==
  /\ Handle
  /\ pc' = "deaf"
  /\ UNCHANGED <<network, socket, buffer, room, processLen, arrived, before>>

\* Variant: the chain stops when no packet was complete.
FinishIncomplete ==
  /\ pc = "parse"
  /\ ~PacketReady
  /\ readPos' = readPos + processLen
  /\ pc' = IF processLen = 0 THEN "ended" ELSE "register"
  /\ UNCHANGED <<network, socket, data, room, processLen, arrived, history>>

\* Variant: what was handled is not marked as read.
FinishUnread ==
  /\ pc = "parse"
  /\ ~PacketReady
  /\ pc' = "register"
  /\ UNCHANGED <<network, socket, buffer, room, processLen, arrived, history>>

\* The loop ends: OnRead, which refuses more than there is, and RegisterRecv.
FinishRecv ==
  /\ pc = "parse"
  /\ ~PacketReady
  /\ IF processLen > DataSize
       THEN pc' = "fault" /\ disconnected' = TRUE /\ UNCHANGED readPos
       ELSE /\ readPos' = readPos + processLen
            /\ pc' = "register"
            /\ UNCHANGED disconnected
  /\ UNCHANGED <<network, closed, data, room, processLen, arrived, history>>

------------------------------------------------------------------------------
Progress ==
  \/ RegisterRecv \/ ReceiveAsync
  \/ \E n \in 0..BufferSize : OnRecvCompleted(n)
  \/ OnRecvPacket \/ HandlerThrows \/ FinishRecv

Next ==
  \/ \E n \in FrameSizes : PeerSend(n)
  \/ ConnectionEnds
  \/ Disconnect \/ CloseSocket
  \/ Start
  \/ Progress

Spec == Init /\ [][Next]_vars

\* The runtime's threads take completions, and the network delivers what was
\* sent.
FairSpec == Spec /\ WF_vars(Progress)

------------------------------------------------------------------------------
(* Properties *)

Packets == [at : Nat, len : FrameSizes]

\* Every variable keeps its type; the chain never uses the OnWrite and OnRead
\* exits ("fault"), which are for bytes that exceed the buffer.
TypeOK ==
  /\ ends \in Streams
  /\ gone \in BOOLEAN /\ disconnected \in BOOLEAN /\ closed \in BOOLEAN
  /\ data \in Seq(Nat) /\ WritePos <= BufferSize
  /\ readPos \in 0..WritePos
  /\ room \in 0..BufferSize
  /\ pc \in {"idle", "register", "recv", "posted", "parse", "deaf", "ended"}
  /\ processLen \in Nat
  /\ pc = "parse" => processLen <= DataSize
  /\ arrived \in 0..Total(ends)
  /\ before \in 0..Len(packets)
  /\ packets \in Seq(Packets)
  /\ decoded \in Seq(Nat) /\ Len(decoded) = Len(packets)

\* Whatever way the stream is cut into receives, OnRecvPacket gets every frame
\* once, whole and in order: the k-th packet of the connection is the k-th frame.
WholeFrames ==
  \A k \in 1..Len(packets) :
    /\ k <= Len(ends)
    /\ packets[k] = [at |-> End(ends, k - 1) + 1, len |-> SizeOf(ends, k)]

\* With its type invariant: nothing is lost, doubled or cut on the way to a handler.
StreamIntact == TypeOK /\ WholeFrames

\* Every packet of a receive is decoded as the first one of that receive.  So a
\* packet that arrives alone is decoded right, and no header is ever read from
\* the middle of a frame; one that arrives behind another is taken for it.
DecodedAsFirst ==
  \A k \in (before + 1)..Len(packets) : decoded[k] = packets[before + 1].at

\* When the session waits for bytes, it has room for some, all of the buffer that
\* is free, and every frame that has arrived completely was handled.
NothingHeldBack ==
  pc \in {"register", "recv", "posted"} =>
    /\ pc # "register" => room = FreeSize /\ room > 0
    /\ \A k \in 1..Len(ends) : ends[k] <= arrived => k <= Len(packets)

\* Every frame sent is handled, for as long as the connection stands, although
\* all of them together are much more than the buffer; unless a handler threw.
EventuallyHandled ==
  \A k \in 1..MaxTotal :
    (Len(ends) >= k) ~> (Len(packets) >= k \/ gone \/ disconnected \/ pc = "deaf")
==============================================================================
