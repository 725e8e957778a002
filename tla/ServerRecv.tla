----------------------------- MODULE ServerRecv ------------------------------
(***************************************************************************)
(* The receiving half of a ServerLib Session: RegisterRecv, ProcessRecv    *)
(* (Session.cpp) and its RecvBuffer (RecvBuffer.cpp).                      *)
(*                                                                         *)
(* ProcessConnect starts a chain of receives: each completed WSARecv is    *)
(* handled by some worker, which posts the next one, so one thread or the  *)
(* OS has the buffer at any time.  Disconnect comes from anywhere.         *)
(*                                                                         *)
(* The RecvBuffer is _maxDataSize * BUFFER_COUNT bytes.  ProcessRecv never *)
(* calls OnRead, so _readPos stays where it is: each receive dispatches    *)
(* the packets of the earlier ones again, Clean has nothing to pull to the *)
(* front, and the buffer fills up.  The peer's frames are well-formed.     *)
(*                                                                         *)
(* Definitions commented "Variant" are no part of the model: each is an    *)
(* action with a plausible bug that a property is shown to catch.          *)
(***************************************************************************)
EXTENDS FrameStream

CONSTANTS MaxDataSize,    \* RecvBuffer::_maxDataSize
          BUFFER_COUNT,   \* RecvBuffer::BUFFER_COUNT
          MaxTotal        \* bound: bytes the peer sends

ASSUME BufferAssumption ==
  /\ MaxDataSize \in Nat \ {0} /\ BUFFER_COUNT \in Nat \ {0} /\ MaxTotal \in Nat
  /\ \A n \in FrameSizes : n <= MaxDataSize

VARIABLES
  ends,         \* the frames the peer has sent
  gone,         \* the connection is over: peer closed, reset, or disconnected
  isConnect,    \* _isConnect
  data,         \* the bytes _buffer[0.._writePos-1] of the RecvBuffer
  readPos,      \* _readPos
  room,         \* the length given to the last WSARecv
  pc,           \* where the chain of receives is
  processLen,   \* ProcessRecv's local
  arrived,      \* history: bytes received
  dispatched    \* history: the packets of the current ProcessRecv given to OnRecv

buffer == <<data, readPos>>
network == <<ends, gone>>
vars == <<network, isConnect, buffer, room, pc, processLen, arrived, dispatched>>

------------------------------------------------------------------------------
BufferSize == MaxDataSize * BUFFER_COUNT
WritePos == Len(data)
DataSize == WritePos - readPos
Capacity == BufferSize - WritePos

\* The bytes that reach the peer's end of the stream from position p on.
StreamBytes(p, n) == [i \in 1..n |-> p + i]

\* The position and the size of the packet that the loop of ProcessRecv sees.
Front == readPos + processLen
FrontSize == SizeAt(ends, data[Front + 1])

\* The loop goes on: a header and the whole packet are there.
PacketReady ==
  /\ DataSize - processLen >= HeaderSize
  /\ DataSize - processLen >= FrontSize

Init ==
  /\ ends = <<>>
  /\ gone = FALSE
  /\ isConnect = FALSE
  /\ data = <<>>
  /\ readPos = 0
  /\ room = 0
  /\ pc = "idle"
  /\ processLen = 0
  /\ arrived = 0
  /\ dispatched = <<>>

------------------------------------------------------------------------------
(* The other end, and the other threads *)

PeerSend(n) ==
  /\ pc # "idle"
  /\ ~gone
  /\ Total(ends) + n <= MaxTotal
  /\ ends' = Extended(ends, n)
  /\ UNCHANGED <<gone, isConnect, buffer, room, pc, processLen, arrived, dispatched>>

ConnectionEnds ==
  /\ pc # "idle"
  /\ gone' = TRUE
  /\ UNCHANGED <<ends, isConnect, buffer, room, pc, processLen, arrived, dispatched>>

\* Session::Disconnect called by ProcessSend or by the application.
Disconnect ==
  /\ pc # "idle"
  /\ isConnect' = FALSE
  /\ UNCHANGED <<network, buffer, room, pc, processLen, arrived, dispatched>>

------------------------------------------------------------------------------
(* The chain of receives *)

ProcessConnect ==
  /\ pc = "idle"
  /\ isConnect' = TRUE
  /\ pc' = "register"
  /\ UNCHANGED <<network, buffer, room, processLen, arrived, dispatched>>

\* RegisterRecv's test of _isConnect.
RegisterRecv ==
  /\ pc = "register"
  /\ pc' = IF isConnect THEN "recv" ELSE "ended"
  /\ UNCHANGED <<network, isConnect, buffer, room, processLen, arrived, dispatched>>

\* WSARecv into the free bytes of the buffer, which may be none.
PostRecv ==
  /\ pc = "recv"
  /\ room' = Capacity
  /\ pc' = "posted"
  /\ UNCHANGED <<network, isConnect, buffer, processLen, arrived, dispatched>>

\* WSARecv is refused: RegisterRecv returns, and nobody disconnects.
PostFail ==
  /\ pc = "recv"
  /\ gone
  /\ pc' = "stuck"
  /\ UNCHANGED <<network, isConnect, buffer, room, processLen, arrived, dispatched>>

\* A receive that completes has n bytes: those the peer has sent, as far as
\* there is room, and none when the connection is over.  A receive with no room
\* completes, with nothing, as soon as there is something to receive.
Completes(n) ==
  /\ pc = "posted"
  /\ n <= room /\ n <= Total(ends) - arrived
  /\ n = 0 => gone \/ (room = 0 /\ arrived < Total(ends))
  /\ arrived' = arrived + n

\* Variant: a receive of nothing is tried again.
ProcessRecvAgain(n) ==
  /\ Completes(n)
  /\ processLen' = 0
  /\ dispatched' = <<>>
  /\ data' = data \o StreamBytes(arrived, n)
  /\ pc' = IF n = 0 THEN "register" ELSE "parse"
  /\ UNCHANGED <<network, isConnect, readPos, room>>

\* ProcessRecv up to its loop: OnWirte refuses what exceeds the free bytes, and
\* a receive of nothing is a Disconnect.
ProcessRecv(n) ==
  /\ Completes(n)
  /\ processLen' = 0
  /\ dispatched' = <<>>
  /\ IF n > Capacity
       THEN pc' = "register" /\ UNCHANGED <<data, isConnect>>
       ELSE /\ data' = data \o StreamBytes(arrived, n)
            /\ pc' = IF n = 0 THEN "ended" ELSE "parse"
            /\ isConnect' = (isConnect /\ n # 0)
  /\ UNCHANGED <<network, readPos, room>>

\* Variant: the header is not counted.
DispatchBody ==
  /\ pc = "parse"
  /\ PacketReady
  /\ dispatched' = Append(dispatched, [at |-> data[Front + 1], len |-> FrontSize])
  /\ processLen' = processLen + FrontSize - HeaderSize
  /\ UNCHANGED <<network, isConnect, buffer, room, pc, arrived>>

\* A turn of the loop: OnRecv gets the packet.
DispatchPacket ==
  /\ pc = "parse"
  /\ PacketReady
  /\ dispatched' = Append(dispatched, [at |-> data[Front + 1], len |-> FrontSize])
  /\ processLen' = processLen + FrontSize
  /\ UNCHANGED <<network, isConnect, buffer, room, pc, arrived>>

\* RecvBuffer::Clean
Clean ==
  IF DataSize = 0
    THEN data' = <<>> /\ readPos' = 0
  ELSE IF Capacity < MaxDataSize
    THEN data' = SubSeq(data, readPos + 1, WritePos) /\ readPos' = 0
  ELSE UNCHANGED buffer

\* Variant: the next receive is not posted.
FinishSilently ==
  /\ pc = "parse"
  /\ ~PacketReady
  /\ Clean
  /\ pc' = "ended"
  /\ UNCHANGED <<network, isConnect, room, processLen, arrived, dispatched>>

\* The loop ends: Clean, and on to RegisterRecv.
FinishRecv ==
  /\ pc = "parse"
  /\ ~PacketReady
  /\ Clean
  /\ pc' = "register"
  /\ UNCHANGED <<network, isConnect, room, processLen, arrived, dispatched>>

------------------------------------------------------------------------------
Progress ==
  \/ RegisterRecv \/ PostRecv \/ PostFail
  \/ \E n \in 0..BufferSize : ProcessRecv(n)
  \/ DispatchPacket \/ FinishRecv

Next ==
  \/ \E n \in FrameSizes : PeerSend(n)
  \/ ConnectionEnds
  \/ Disconnect
  \/ ProcessConnect
  \/ Progress

Spec == Init /\ [][Next]_vars

\* The workers loop on Dispatch, and the network delivers what was sent.
FairSpec == Spec /\ WF_vars(Progress)

------------------------------------------------------------------------------
(* Properties *)

Packets == [at : Nat, len : FrameSizes]

\* Every variable keeps its type.  The loop never goes past the bytes that were
\* received, and the buffer never gets more than it can hold.
TypeOK ==
  /\ ends \in Streams
  /\ gone \in BOOLEAN
  /\ isConnect \in BOOLEAN
  /\ data \in Seq(Nat) /\ WritePos <= BufferSize
  /\ readPos \in 0..WritePos
  /\ room \in 0..BufferSize
  /\ pc \in {"idle", "register", "recv", "posted", "parse", "ended", "stuck"}
  /\ processLen \in 0..BufferSize
  /\ pc = "parse" => processLen <= DataSize
  /\ arrived \in 0..Total(ends)
  /\ dispatched \in Seq(Packets)

\* The buffer holds the stream from its first byte, all that was received, and
\* a WSARecv is given exactly the bytes behind it: OnWirte never refuses, no
\* byte is lost or overwritten.  A connection never receives more than
\* BufferSize bytes in its life.
NothingLost ==
  /\ data = StreamBytes(0, arrived)
  /\ pc = "posted" => room = Capacity

\* Whatever way the stream is cut into receives, the packets ProcessRecv hands
\* to OnRecv are frames the peer sent, whole and without a gap: the k-th packet
\* of each receive is the k-th frame of the connection.
WholeFrames ==
  \A k \in 1..Len(dispatched) :
    /\ k <= Len(ends)
    /\ dispatched[k] = [at |-> End(ends, k - 1) + 1, len |-> SizeOf(ends, k)]

\* The three together: nothing is lost, doubled or cut on the way to OnRecv, within
\* one receive.
StreamIntact == TypeOK /\ NothingLost /\ WholeFrames

\* A frame that fits the life of a connection reaches OnRecv, unless the
\* connection ends or is disconnected.
EventuallyDispatched ==
  \A k \in 1..MaxTotal :
    (Len(ends) >= k /\ ends[k] <= BufferSize)
      ~> (Len(dispatched) >= k \/ gone \/ ~isConnect)

\* A connection whose peer sends more than the buffer holds is disconnected: it
\* does not stay, receiving nothing.  RecvBuffer.cpp's comment in Clean says that
\* the data is pulled to the front when less than one buffer is free; as nothing
\* ever moves _readPos, there is nothing to pull, and this end is what follows.
CutOff == (Total(ends) > BufferSize) ~> (gone \/ ~isConnect)
==============================================================================
