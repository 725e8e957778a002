--------------------------- MODULE ClientRecvProofs ---------------------------
(***************************************************************************)
(* Proofs about the receiving half of the client's session, for any        *)
(* frames, any buffer that takes each of them, and any stream.             *)
(*                                                                         *)
(* That the loop of OnRecv is at the start of a frame again and again      *)
(* rests on the buffer holding a piece of the stream, on the frames' ends  *)
(* being in order, and on where the buffer begins: with the frame after    *)
(* the last one that an earlier receive has handled.  This is also why     *)
(* the handlers, which read from the array's start, see the first frame of *)
(* their receive.                                                          *)
(***************************************************************************)
EXTENDS ClientRecv, TLAPS

\* The frames of the stream end one after the other.
InOrder ==
  /\ \A i \in 1..Len(ends) : ends[i] > 0 /\ SizeOf(ends, i) \in FrameSizes
  /\ \A i, j \in 1..Len(ends) : i < j => ends[i] < ends[j]

\* The position of the stream that the client's buffer begins behind.
Base == arrived - Len(data)

\* The client's buffer holds the stream from there to what has arrived.  Between two
\* receives the first unread byte is the start of the frame after the last packet;
\* in the loop of OnRecv the buffer begins with the first packet of this receive.
AtFrame ==
  /\ Base \in Nat /\ data = StreamBytes(Base, Len(data))
  /\ Len(packets) <= Len(ends)
  /\ pc \notin {"parse", "deaf"} => Base + readPos = End(ends, Len(packets))
  /\ pc \in {"recv", "posted", "parse"} => readPos = 0
  /\ pc \in {"recv", "posted"} => room = BufferSize - Len(data)
  /\ pc = "parse" => /\ Base = End(ends, before)
                     /\ Base + processLen = End(ends, Len(packets))

\* Outside the loop every frame that has arrived completely was handled.
AllHandled ==
  pc \in {"idle", "register", "recv", "posted"} =>
    \A k \in 1..Len(ends) : ends[k] <= arrived => k <= Len(packets)

\* What every step keeps.
IInv ==
  /\ TypeOK /\ InOrder /\ AtFrame /\ AllHandled
  /\ WholeFrames /\ DecodedAsFirst

------------------------------------------------------------------------------
(* Sizes and ends *)

\* What FrameAssumption says of headers and frames.
LEMMA FrameFacts ==
  /\ HeaderSize \in Nat /\ HeaderSize > 0
  /\ \A n \in FrameSizes : n \in Nat /\ n >= HeaderSize
BY FrameAssumption

\* Ends are positions.
LEMMA Ends ==
  ASSUME ends \in Streams
  PROVE  /\ Len(ends) \in Nat
         /\ \A k \in 0..Len(ends) : End(ends, k) \in Nat
         /\ Total(ends) \in Nat
         /\ \A k \in 1..Len(ends) : SizeOf(ends, k) = ends[k] - End(ends, k - 1)
<1>1. ends \in Seq(Nat)
  BY DEF Streams
<1>2. \A k \in 0..Len(ends) : End(ends, k) \in Nat
  BY <1>1 DEF End
<1> QED
  BY <1>1, <1>2 DEF End, Total, SizeOf

\* The frame behind the first k ones: where it ends, and how long it is.
LEMMA NextSize ==
  ASSUME ends \in Streams, InOrder, NEW k \in Nat, k < Len(ends)
  PROVE  /\ k + 1 \in 1..Len(ends)
         /\ End(ends, k) \in Nat /\ ends[k + 1] \in Nat
         /\ End(ends, k + 1) = ends[k + 1]
         /\ SizeOf(ends, k + 1) = ends[k + 1] - End(ends, k)
         /\ SizeOf(ends, k + 1) \in FrameSizes
         /\ SizeOf(ends, k + 1) \in Nat /\ SizeOf(ends, k + 1) >= HeaderSize
         /\ \A i \in (k + 1)..Len(ends) : ends[i] \in Nat /\ ends[k + 1] <= ends[i]
<1>1. Len(ends) \in Nat
  BY Ends
<1>2. k + 1 \in 1..Len(ends) /\ k \in 0..Len(ends)
  BY <1>1
<1>3. \A i \in 1..Len(ends) : ends[i] \in Nat
  BY DEF Streams
<1>4. End(ends, k) \in Nat /\ End(ends, k + 1) = ends[k + 1]
  BY <1>2, Ends DEF End
<1>5. SizeOf(ends, k + 1) = ends[k + 1] - End(ends, k)
  BY <1>4 DEF SizeOf
<1>6. SizeOf(ends, k + 1) \in FrameSizes
  BY <1>2 DEF InOrder
<1>7. SizeOf(ends, k + 1) \in Nat /\ SizeOf(ends, k + 1) >= HeaderSize
  BY <1>6, FrameFacts
<1>8. ASSUME NEW i \in (k + 1)..Len(ends)
      PROVE  ends[i] \in Nat /\ ends[k + 1] <= ends[i]
  <2>1. i \in 1..Len(ends) /\ (k + 1 < i \/ k + 1 = i)
    BY <1>1, <1>2
  <2>2. k + 1 < i => ends[k + 1] < ends[i]
    BY <1>2, <2>1 DEF InOrder
  <2> QED
    BY <1>2, <1>3, <2>1, <2>2
<1> QED
  BY <1>2, <1>3, <1>4, <1>5, <1>6, <1>7, <1>8

\* A frame more leaves the others as they are.
LEMMA ExtendedFacts ==
  ASSUME ends \in Streams, InOrder, NEW n \in FrameSizes, ends' = Extended(ends, n)
  PROVE  /\ ends' \in Seq(Nat) /\ Len(ends') = Len(ends) + 1
         /\ \A k \in 1..Len(ends) : ends'[k] = ends[k]
         /\ ends'[Len(ends) + 1] = Total(ends) + n
         /\ Total(ends') = Total(ends) + n
         /\ \A k \in 0..Len(ends) : End(ends', k) = End(ends, k)
         /\ InOrder'
<1>1. /\ ends \in Seq(Nat) /\ Total(ends) \in Nat /\ Len(ends) \in Nat
      /\ n \in Nat /\ n > 0
  BY Ends, FrameFacts DEF Streams
<1>2. /\ ends' \in Seq(Nat) /\ Len(ends') = Len(ends) + 1
      /\ \A k \in 1..Len(ends) : ends'[k] = ends[k]
      /\ ends'[Len(ends) + 1] = Total(ends) + n
  BY <1>1 DEF Extended
<1>3. Total(ends') = Total(ends) + n
  BY <1>1, <1>2 DEF Total, End
<1>4. \A k \in 0..Len(ends) : End(ends', k) = End(ends, k)
  BY <1>1, <1>2 DEF End
<1>5. \A i \in 1..Len(ends) : ends[i] <= Total(ends)
  BY <1>1 DEF InOrder, Total, End
<1>6. \A i \in 1..Len(ends') : i \in 1..Len(ends) \/ i = Len(ends) + 1
  BY <1>1, <1>2
<1>7. \A i \in 1..Len(ends') : ends'[i] > 0
  <2>1. ends'[Len(ends) + 1] > 0
    BY <1>1, <1>2
  <2>2. \A i \in 1..Len(ends) : ends'[i] > 0
    BY <1>2 DEF InOrder
  <2> QED
    BY <1>6, <2>1, <2>2
<1>8. \A i \in 1..Len(ends') : SizeOf(ends', i) \in FrameSizes
  <2>1. \A i \in 1..Len(ends) : SizeOf(ends', i) = SizeOf(ends, i)
    BY <1>1, <1>4 DEF SizeOf
  <2>2. SizeOf(ends', Len(ends) + 1) = n
    <3>1. End(ends', Len(ends) + 1) = Total(ends) + n
      BY <1>1, <1>2 DEF End
    <3>2. End(ends', (Len(ends) + 1) - 1) = Total(ends)
      BY <1>1, <1>4 DEF Total
    <3> QED
      BY <1>1, <3>1, <3>2 DEF SizeOf
  <2> QED
    BY <1>6, <2>1, <2>2 DEF InOrder
<1>9. ASSUME NEW i \in 1..Len(ends'), NEW j \in 1..Len(ends'), i < j
      PROVE  ends'[i] < ends'[j]
  <2>1. i \in 1..Len(ends)
    BY <1>1, <1>2, <1>9
  <2>2. CASE j \in 1..Len(ends)
    BY <1>2, <1>9, <2>1, <2>2 DEF InOrder
  <2>3. CASE j = Len(ends) + 1
    <3>1. ends[i] \in Nat /\ ends[i] <= Total(ends)
      BY <1>1, <1>5, <2>1
    <3> QED
      BY <1>1, <1>2, <2>1, <2>3, <3>1
  <2> QED
    BY <1>6, <2>2, <2>3
<1>10. InOrder'
  BY <1>7, <1>8, <1>9 DEF InOrder
<1> QED
  BY <1>2, <1>3, <1>4, <1>10

\* Where a frame starts, its header gives its size; behind the last, nothing starts.
LEMMA SizeAtStart ==
  ASSUME ends \in Streams, InOrder, NEW k \in 0..Len(ends)
  PROVE  /\ k < Len(ends) => SizeAt(ends, End(ends, k) + 1) = SizeOf(ends, k + 1)
         /\ End(ends, k) <= Total(ends)
<1>1. ends \in Seq(Nat) /\ Len(ends) \in Nat
  BY DEF Streams
<1>2. \A i, j \in 0..Len(ends) : i < j => End(ends, i) < End(ends, j)
  BY <1>1 DEF InOrder, End
<1>3. End(ends, k) <= Total(ends)
  <2>1. Len(ends) \in 0..Len(ends) /\ End(ends, k) \in Nat /\ Total(ends) \in Nat
    BY <1>1, Ends
  <2>2. CASE k < Len(ends)
    BY <1>2, <2>1, <2>2 DEF Total
  <2>3. CASE k = Len(ends)
    BY <2>1, <2>3 DEF Total
  <2> QED
    BY <1>1, <2>2, <2>3
<1>4. ASSUME k < Len(ends)
      PROVE  SizeAt(ends, End(ends, k) + 1) = SizeOf(ends, k + 1)
  <2> DEFINE p == End(ends, k) + 1
             P(j) == p = End(ends, j - 1) + 1
  <2>1. k + 1 \in 1..Len(ends) /\ P(k + 1)
    BY <1>1, <1>4
  <2>2. \A j \in 1..Len(ends) : P(j) => j = k + 1
    <3> SUFFICES ASSUME NEW j \in 1..Len(ends), P(j)
                 PROVE  j = k + 1
      OBVIOUS
    <3>1. j - 1 \in 0..Len(ends) /\ End(ends, j - 1) \in Nat /\ End(ends, k) \in Nat
      BY <1>1, Ends
    <3>2. End(ends, j - 1) = End(ends, k)
      BY <3>1
    <3>3. ~(j - 1 < k) /\ ~(k < j - 1)
      BY <1>2, <3>1, <3>2
    <3> QED
      BY <3>1, <3>3
  <2>3. (CHOOSE j \in 1..Len(ends) : P(j)) = k + 1
    BY <2>1, <2>2
  <2> QED
    BY <2>1, <2>3 DEF SizeAt
<1> QED
  BY <1>3, <1>4

------------------------------------------------------------------------------
(* The buffer *)

\* The type invariant, in terms of the variables.
LEMMA Types ==
  TypeOK <=>
    /\ ends \in Streams
    /\ gone \in BOOLEAN /\ disconnected \in BOOLEAN /\ closed \in BOOLEAN
    /\ data \in Seq(Nat) /\ Len(data) <= BufferSize
    /\ readPos \in 0..Len(data)
    /\ room \in 0..BufferSize
    /\ pc \in {"idle", "register", "recv", "posted", "parse", "deaf", "ended"}
    /\ processLen \in Nat
    /\ pc = "parse" => processLen <= Len(data) - readPos
    /\ arrived \in 0..Total(ends)
    /\ before \in 0..Len(packets)
    /\ packets \in Seq(Packets)
    /\ decoded \in Seq(Nat) /\ Len(decoded) = Len(packets)
BY DEF TypeOK, WritePos, DataSize, Packets

\* A piece of the stream is as long as it says, and holds the bytes behind its place.
LEMMA PieceFacts ==
  ASSUME NEW p \in Nat, NEW n \in Nat
  PROVE  /\ StreamBytes(p, n) \in Seq(Nat) /\ Len(StreamBytes(p, n)) = n
         /\ \A i \in 1..n : StreamBytes(p, n)[i] = p + i
BY DEF StreamBytes

\* What is left of a piece of the stream behind its first bytes.
LEMMA PieceRest ==
  ASSUME NEW p \in Nat, NEW n \in Nat, NEW r \in 0..n
  PROVE  SubSeq(StreamBytes(p, n), r + 1, n) = StreamBytes(p + r, n - r)
BY DEF StreamBytes

\* A piece of the stream, and the piece after it.
LEMMA PieceMore ==
  ASSUME NEW p \in Nat, NEW n \in Nat, NEW m \in Nat
  PROVE  StreamBytes(p, n) \o StreamBytes(p + n, m) = StreamBytes(p, n + m)
BY DEF StreamBytes

------------------------------------------------------------------------------
(* The invariant *)

\* A client that has just connected.
LEMMA InitIInv ==
  ASSUME Init
  PROVE  IInv
<1>1. /\ ends = <<>> /\ data = <<>> /\ packets = <<>> /\ decoded = <<>>
      /\ gone = FALSE /\ disconnected = FALSE /\ closed = FALSE
      /\ readPos = 0 /\ room = 0 /\ pc = "idle" /\ processLen = 0
      /\ arrived = 0 /\ before = 0
  BY DEF Init
<1>2. /\ ends \in Seq(Nat) /\ data \in Seq(Nat) /\ decoded \in Seq(Nat)
      /\ packets \in Seq(Packets)
      /\ Len(ends) = 0 /\ Len(data) = 0 /\ Len(packets) = 0 /\ Len(decoded) = 0
  BY <1>1
<1>3. Total(ends) = 0 /\ BufferSize \in Nat
  BY BufferAssumption, <1>2 DEF Total, End
<1>4. TypeOK
  <2>1. /\ Len(data) <= BufferSize /\ readPos \in 0..Len(data)
        /\ room \in 0..BufferSize /\ arrived \in 0..Total(ends)
        /\ before \in 0..Len(packets)
    BY <1>1, <1>2, <1>3
  <2>2. /\ gone \in BOOLEAN /\ disconnected \in BOOLEAN /\ closed \in BOOLEAN
        /\ processLen \in Nat /\ pc = "idle"
    BY <1>1
  <2> QED
    BY <1>2, <2>1, <2>2, Types DEF Streams
<1>5. AtFrame
  <2>0. data = StreamBytes(0, 0)
    BY <1>1 DEF StreamBytes
  <2>1. Base = 0
    <3>1. arrived = 0 /\ Len(data) = 0
      BY <1>1, <1>2
    <3> QED
      BY <3>1 DEF Base
  <2>2. Base \in Nat /\ data = StreamBytes(Base, Len(data)) /\ End(ends, 0) = 0
    BY <1>2, <2>0, <2>1 DEF End
  <2>3. Base + readPos = End(ends, Len(packets))
    BY <1>1, <1>2, <2>1, <2>2
  <2> QED
    BY <1>1, <1>2, <2>2, <2>3 DEF AtFrame
<1>6. InOrder /\ AllHandled /\ WholeFrames /\ DecodedAsFirst
  BY <1>1, <1>2 DEF InOrder, AllHandled, WholeFrames, DecodedAsFirst
<1> QED
  BY <1>4, <1>5, <1>6 DEF IInv

\* A packet that the loop finds is the next frame of the stream, and what its handler
\* reads is the first of this receive.
LEMMA NextFrame ==
  ASSUME IInv, pc = "parse", PacketReady
  PROVE  LET k == Len(packets)
         IN /\ k < Len(ends)
            /\ data[Segment + 1] = End(ends, k) + 1
            /\ SegmentSize = SizeOf(ends, k + 1)
            /\ Base + processLen + SizeOf(ends, k + 1) = End(ends, k + 1)
            /\ processLen + SizeOf(ends, k + 1) <= Len(data)
            /\ ReadFrom = End(ends, before) + 1
<1> DEFINE k == Len(packets)
<1>0. TypeOK /\ InOrder /\ AtFrame
  BY DEF IInv
<1>1. /\ ends \in Streams /\ Len(ends) \in Nat /\ Total(ends) \in Nat
      /\ k \in 0..Len(ends) /\ before \in 0..k /\ processLen \in Nat /\ readPos = 0
      /\ data \in Seq(Nat) /\ Len(data) \in Nat /\ arrived \in Nat /\ arrived <= Total(ends)
      /\ Base \in Nat /\ Base + Len(data) = arrived
      /\ Base = End(ends, before) /\ Base + processLen = End(ends, k)
  BY <1>0, Types, Ends DEF AtFrame, Base
<1>2. /\ Segment = processLen /\ ReadFrom = data[1]
      /\ SegmentSize = SizeAt(ends, data[processLen + 1])
      /\ Len(data) - processLen >= HeaderSize
      /\ Len(data) - processLen >= SegmentSize
  BY <1>1 DEF Segment, ReadFrom, SegmentSize, PacketReady, DataSize, WritePos
<1>3. processLen + 1 \in 1..Len(data) /\ 1 \in 1..Len(data)
  <2>1. /\ processLen \in Nat /\ Len(data) \in Nat
        /\ Len(data) - processLen >= HeaderSize
    BY <1>1, <1>2
  <2> QED
    BY <2>1, FrameFacts
<1>4. /\ data[processLen + 1] = End(ends, k) + 1
      /\ data[1] = End(ends, before) + 1
  <2>1. \A i \in 1..Len(data) : StreamBytes(Base, Len(data))[i] = Base + i
    BY <1>1, PieceFacts
  <2>2. data = StreamBytes(Base, Len(data))
    BY <1>0 DEF AtFrame
  <2> QED
    BY <1>1, <1>3, <2>1, <2>2
<1>5. k < Len(ends)
  <2>1. End(ends, k) < Total(ends)
    BY <1>1, <1>2, FrameFacts
  <2>2. k # Len(ends)
    BY <1>1, <2>1 DEF Total
  <2> QED
    BY <1>1, <2>2
<1>6. SizeAt(ends, data[processLen + 1]) = SizeOf(ends, k + 1)
  BY <1>0, <1>1, <1>4, <1>5, SizeAtStart
<1>7. /\ SizeOf(ends, k + 1) = End(ends, k + 1) - End(ends, k)
      /\ End(ends, k) \in Nat /\ End(ends, k + 1) \in Nat
      /\ SizeOf(ends, k + 1) \in Nat
  <2>1. k \in Nat /\ ends \in Streams /\ InOrder
    BY <1>0, <1>1
  <2> QED
    BY <1>5, <2>1, NextSize
<1>8. Base + processLen + SizeOf(ends, k + 1) = End(ends, k + 1)
  BY <1>1, <1>7
<1>9. processLen + SizeOf(ends, k + 1) <= Len(data)
  <2>1. Len(data) - processLen >= SizeOf(ends, k + 1)
    BY <1>2, <1>6
  <2>2. Len(data) \in Nat /\ processLen \in Nat
    BY <1>1
  <2> QED
    BY <1>7, <2>1, <2>2
<1> QED
  BY <1>1, <1>2, <1>4, <1>5, <1>6, <1>8, <1>9

\* The packet given to the handler is the next frame, and is decoded as the first.
LEMMA HandleStep ==
  ASSUME IInv, Handle, UNCHANGED <<ends, before>>
  PROVE  /\ WholeFrames' /\ DecodedAsFirst'
         /\ packets' \in Seq(Packets) /\ Len(packets') = Len(packets) + 1
         /\ decoded' \in Seq(Nat) /\ Len(decoded') = Len(packets')
         /\ Len(packets') <= Len(ends)
<1> DEFINE k == Len(packets)
           packet == [at |-> data[Segment + 1], len |-> SegmentSize]
<1>0. /\ TypeOK /\ InOrder /\ AtFrame /\ WholeFrames
      /\ DecodedAsFirst
      /\ pc = "parse" /\ PacketReady
      /\ packets' = Append(packets, packet) /\ decoded' = Append(decoded, ReadFrom)
  BY DEF IInv, Handle
<1>1. /\ k < Len(ends) /\ packet = [at |-> End(ends, k) + 1, len |-> SizeOf(ends, k + 1)]
      /\ ReadFrom = End(ends, before) + 1
  BY <1>0, NextFrame
<1>2. /\ packets \in Seq(Packets) /\ decoded \in Seq(Nat) /\ Len(decoded) = k /\ k \in Nat
      /\ before \in 0..k /\ ends \in Streams /\ Len(ends) \in Nat
  BY <1>0, Types, Ends
<1>3. /\ End(ends, k) \in Nat /\ SizeOf(ends, k + 1) \in FrameSizes
      /\ End(ends, before) \in Nat
  BY <1>0, <1>1, <1>2, Ends DEF InOrder
<1>4. packet \in Packets /\ ReadFrom \in Nat
  BY <1>1, <1>3 DEF Packets
<1>5. /\ packets' \in Seq(Packets) /\ Len(packets') = k + 1
      /\ \A i \in 1..k : packets'[i] = packets[i]
      /\ packets'[k + 1] = packet
  BY <1>0, <1>2, <1>4
<1>6. /\ decoded' \in Seq(Nat) /\ Len(decoded') = k + 1
      /\ \A i \in 1..k : decoded'[i] = decoded[i]
      /\ decoded'[k + 1] = End(ends, before) + 1
  BY <1>0, <1>1, <1>2, <1>4
<1>7. \A i \in 1..(k + 1) : i \in 1..k \/ i = k + 1
  BY <1>2
<1>8. \A i \in 1..(k + 1) :
        /\ i <= Len(ends)
        /\ packets'[i] = [at |-> End(ends, i - 1) + 1, len |-> SizeOf(ends, i)]
  <2>1. \A i \in 1..k :
          /\ i <= Len(ends)
          /\ packets[i] = [at |-> End(ends, i - 1) + 1, len |-> SizeOf(ends, i)]
    BY <1>0 DEF WholeFrames
  <2>2. (k + 1) - 1 = k
    BY <1>2
  <2> QED
    BY <1>1, <1>5, <1>7, <2>1, <2>2
<1>9. WholeFrames'
  BY <1>5, <1>8 DEF WholeFrames
<1>10. packets'[before + 1].at = End(ends, before) + 1
  <2>1. before + 1 \in 1..(k + 1) /\ (before + 1) - 1 = before
    BY <1>2
  <2>2. packets'[before + 1] = [at |-> End(ends, (before + 1) - 1) + 1,
                                len |-> SizeOf(ends, before + 1)]
    BY <1>8, <2>1
  <2> QED
    BY <2>1, <2>2
<1>11. \A i \in (before + 1)..(k + 1) : decoded'[i] = End(ends, before) + 1
  <2>1. ASSUME NEW i \in (before + 1)..k
        PROVE  decoded[i] = End(ends, before) + 1
    <3>1. decoded[i] = packets[before + 1].at
      BY <1>0 DEF DecodedAsFirst
    <3>2. before + 1 \in 1..k
      BY <1>2
    <3> QED
      BY <1>5, <1>10, <3>1, <3>2
  <2>2. \A i \in (before + 1)..(k + 1) : i \in (before + 1)..k \/ i = k + 1
    BY <1>2
  <2>3. \A i \in (before + 1)..k : i \in 1..k
    BY <1>2
  <2> QED
    BY <1>6, <2>1, <2>2, <2>3
<1>12. DecodedAsFirst'
  BY <1>5, <1>10, <1>11 DEF DecodedAsFirst
<1> QED
  BY <1>1, <1>2, <1>5, <1>6, <1>9, <1>12

\* What a step that leaves the stream, the buffer and the packets alone keeps.
LEMMA QuietStep ==
  ASSUME IInv, gone' \in BOOLEAN, disconnected' \in BOOLEAN, closed' \in BOOLEAN,
         UNCHANGED <<ends, data, readPos, room, processLen, arrived, before, packets,
                     decoded>>,
         \/ pc' = pc
         \/ pc = "idle" /\ pc' = "register"
         \/ pc = "recv" /\ pc' = "posted"
         \/ pc \in {"register", "recv"} /\ pc' = "ended"
  PROVE  IInv'
<1>0. TypeOK /\ InOrder /\ AtFrame /\ AllHandled /\ WholeFrames /\ DecodedAsFirst
  BY DEF IInv
<1>1. TypeOK'
  BY <1>0 DEF TypeOK, WritePos, DataSize
<1>2. AtFrame'
  BY <1>0 DEF AtFrame, Base
<1>3. InOrder' /\ WholeFrames' /\ DecodedAsFirst'
  BY <1>0 DEF InOrder, WholeFrames, DecodedAsFirst
<1> QED
  BY <1>0, <1>1, <1>2, <1>3 DEF IInv, AllHandled

\* One more frame of the peer's: the ends of the others stay.
LEMMA PeerSendStep ==
  ASSUME IInv, NEW n \in FrameSizes, PeerSend(n)
  PROVE  IInv'
<1>0. TypeOK /\ InOrder /\ AtFrame /\ AllHandled /\ WholeFrames /\ DecodedAsFirst
  BY DEF IInv
<1>1. /\ ends' = Extended(ends, n)
      /\ UNCHANGED <<gone, disconnected, closed, data, readPos, room, pc, processLen,
                     arrived, before, packets, decoded>>
  BY DEF PeerSend, socket, buffer, history
<1>2. /\ ends \in Streams /\ Len(ends) \in Nat /\ Len(packets) \in 0..Len(ends)
      /\ Total(ends) \in Nat /\ arrived \in 0..Total(ends)
      /\ before \in 0..Len(packets) /\ n \in Nat
  BY <1>0, Types, Ends, FrameFacts DEF AtFrame
<1>3. /\ ends' \in Seq(Nat) /\ Len(ends') = Len(ends) + 1
      /\ \A k \in 1..Len(ends) : ends'[k] = ends[k]
      /\ ends'[Len(ends) + 1] = Total(ends) + n
      /\ Total(ends') = Total(ends) + n
      /\ \A k \in 0..Len(ends) : End(ends', k) = End(ends, k)
      /\ InOrder' /\ n > 0
  BY <1>0, <1>1, <1>2, ExtendedFacts, FrameFacts
<1>4. TypeOK'
  <2>1. arrived' \in 0..Total(ends') /\ ends' \in Streams
    BY <1>1, <1>2, <1>3 DEF Streams
  <2> QED
    BY <1>0, <1>1, <2>1 DEF TypeOK, WritePos, DataSize
<1>5. AtFrame'
  BY <1>0, <1>1, <1>2, <1>3 DEF AtFrame, Base
<1>6. AllHandled'
  <2>1. \A k \in 1..Len(ends') : k \in 1..Len(ends) \/ k = Len(ends) + 1
    BY <1>2, <1>3
  <2>2. ~(ends'[Len(ends) + 1] <= arrived)
    BY <1>2, <1>3
  <2> QED
    BY <1>0, <1>1, <1>3, <2>1, <2>2 DEF AllHandled
<1>7. WholeFrames'
  <2> SUFFICES ASSUME NEW k \in 1..Len(packets)
               PROVE  /\ k <= Len(ends')
                      /\ packets[k] = [at |-> End(ends', k - 1) + 1,
                                       len |-> SizeOf(ends', k)]
    BY <1>1 DEF WholeFrames
  <2>1. /\ k <= Len(ends)
        /\ packets[k] = [at |-> End(ends, k - 1) + 1, len |-> SizeOf(ends, k)]
    BY <1>0 DEF WholeFrames
  <2>2. k - 1 \in 0..Len(ends) /\ k \in 0..Len(ends)
    BY <1>2
  <2>3. End(ends', k - 1) = End(ends, k - 1) /\ SizeOf(ends', k) = SizeOf(ends, k)
    BY <1>3, <2>2 DEF SizeOf
  <2> QED
    BY <1>2, <1>3, <2>1, <2>3
<1>8. DecodedAsFirst'
  BY <1>0, <1>1 DEF DecodedAsFirst
<1> QED
  BY <1>3, <1>4, <1>5, <1>6, <1>7, <1>8 DEF IInv

\* RegisterRecv: Clean moves what is unread to the front, the rest of the buffer is room.
LEMMA RegisterStep ==
  ASSUME IInv, RegisterRecv, ~disconnected
  PROVE  IInv'
<1>0. TypeOK /\ InOrder /\ AtFrame /\ AllHandled /\ WholeFrames /\ DecodedAsFirst
  BY DEF IInv
<1>1. /\ pc = "register" /\ pc' = "recv" /\ readPos' = 0
      /\ data' = SubSeq(data, readPos + 1, Len(data))
      /\ room' = BufferSize - (Len(data) - readPos)
      /\ UNCHANGED <<ends, gone, disconnected, closed, processLen, arrived, before,
                     packets, decoded>>
  BY DEF RegisterRecv, Clean, DataSize, WritePos, network, socket, history
<1>2. /\ Len(data) \in Nat /\ readPos \in 0..Len(data) /\ Len(data) <= BufferSize
      /\ Base \in Nat /\ data = StreamBytes(Base, Len(data)) /\ BufferSize \in Nat
      /\ Base + readPos = End(ends, Len(packets)) /\ arrived \in Nat /\ data \in Seq(Nat)
  <2>1. arrived \in 0..Total(ends) /\ Total(ends) \in Nat
    BY <1>0, Types, Ends
  <2> QED
    BY BufferAssumption, <1>0, <1>1, <2>1, Types DEF AtFrame
<1>3. data' = StreamBytes(Base + readPos, Len(data) - readPos)
  <2>1. SubSeq(StreamBytes(Base, Len(data)), readPos + 1, Len(data))
          = StreamBytes(Base + readPos, Len(data) - readPos)
    BY <1>2, PieceRest
  <2>2. StreamBytes(Base, Len(data)) = data
    BY <1>2
  <2> QED
    BY <1>1, <2>1, <2>2
<1>4. data' \in Seq(Nat) /\ Len(data') = Len(data) - readPos
  <2>1. Base + readPos \in Nat /\ Len(data) - readPos \in Nat
    BY <1>2
  <2> QED
    BY <1>3, <2>1, PieceFacts
<1>5. Base' = Base + readPos
  <2>1. /\ arrived' = arrived /\ Len(data') = Len(data) - readPos
        /\ arrived \in Nat /\ Len(data) \in Nat /\ readPos \in Nat
    BY <1>1, <1>2, <1>4
  <2> QED
    BY <2>1 DEF Base
<1>6. TypeOK'
  <2>1. /\ Len(data') <= BufferSize /\ readPos' \in 0..Len(data')
        /\ room' \in 0..BufferSize
    BY <1>1, <1>2, <1>4
  <2> QED
    BY <1>0, <1>1, <1>4, <2>1 DEF TypeOK, WritePos, DataSize
<1>7. AtFrame'
  <2>1. Base' \in Nat /\ data' = StreamBytes(Base', Len(data'))
    BY <1>2, <1>3, <1>4, <1>5
  <2>2. Base' + readPos' = End(ends, Len(packets)) /\ room' = BufferSize - Len(data')
    <3>1. /\ Base' = Base + readPos /\ readPos' = 0 /\ Base \in Nat /\ readPos \in Nat
          /\ Base + readPos = End(ends, Len(packets))
      BY <1>1, <1>2, <1>5
    <3>2. /\ room' = BufferSize - (Len(data) - readPos)
          /\ Len(data') = Len(data) - readPos
      BY <1>1, <1>4
    <3> QED
      BY <3>1, <3>2
  <2> QED
    BY <1>0, <1>1, <2>1, <2>2 DEF AtFrame
<1>8. InOrder' /\ AllHandled' /\ WholeFrames' /\ DecodedAsFirst'
  BY <1>0, <1>1 DEF InOrder, AllHandled, WholeFrames, DecodedAsFirst
<1> QED
  BY <1>6, <1>7, <1>8 DEF IInv

\* OnRecvCompleted: ReceiveAsync was given the free part of the buffer, so OnWrite takes
\* all that has arrived.
LEMMA CompletedStep ==
  ASSUME IInv, NEW n \in 0..BufferSize,
         OnRecvCompleted(n)
  PROVE  IInv'
<1>0. TypeOK /\ InOrder /\ AtFrame /\ AllHandled /\ WholeFrames /\ DecodedAsFirst
  BY DEF IInv
<1>1. /\ pc = "posted" /\ n <= room /\ n <= Total(ends) - arrived
      /\ arrived' = arrived + n /\ processLen' = 0 /\ before' = Len(packets)
      /\ UNCHANGED <<ends, gone, closed, readPos, room, packets, decoded>>
  BY DEF OnRecvCompleted, Completes, network
<1>2. /\ Len(data) \in Nat /\ Len(data) <= BufferSize /\ BufferSize \in Nat
      /\ Base \in Nat /\ data = StreamBytes(Base, Len(data)) /\ arrived = Base + Len(data)
      /\ Base = End(ends, Len(packets)) /\ readPos = 0
      /\ room = BufferSize - Len(data)
      /\ arrived \in Nat /\ Total(ends) \in Nat /\ n \in Nat /\ Len(packets) \in Nat
  <2>1. /\ arrived \in 0..Total(ends) /\ Total(ends) \in Nat /\ Len(data) \in Nat
        /\ Len(packets) \in Nat
    BY <1>0, Types, Ends
  <2>2. arrived \in Nat /\ arrived = Base + Len(data) /\ Base \in Nat
    BY <1>0, <2>1 DEF Base, AtFrame
  <2>3. Base + readPos = End(ends, Len(packets)) /\ readPos = 0
    BY <1>0, <1>1 DEF AtFrame
  <2>4. Base = End(ends, Len(packets))
    BY <2>2, <2>3
  <2> QED
    BY BufferAssumption, <1>0, <1>1, <2>1, <2>2, <2>3, <2>4, Types DEF AtFrame
<1>3. arrived' \in 0..Total(ends) /\ ~(n > BufferSize - Len(data))
  <2>1. /\ n <= BufferSize - Len(data) /\ n <= Total(ends) - arrived
        /\ arrived' = arrived + n /\ Len(data) \in Nat /\ BufferSize \in Nat
        /\ arrived \in Nat /\ Total(ends) \in Nat /\ n \in Nat
    BY <1>1, <1>2
  <2> QED
    BY <2>1
<1>4. InOrder' /\ WholeFrames' /\ DecodedAsFirst'
  <2>1. ~\E k \in (Len(packets) + 1)..Len(packets) : TRUE
    BY <1>2
  <2> QED
    BY <1>0, <1>1, <2>1 DEF InOrder, WholeFrames, DecodedAsFirst
<1>5. CASE n = 0
  <2>1. pc' = "ended" /\ disconnected' = TRUE /\ data' = data /\ arrived' = arrived
    BY <1>1, <1>2, <1>5 DEF OnRecvCompleted
  <2>2. TypeOK'
    BY <1>0, <1>1, <1>2, <2>1 DEF TypeOK, WritePos, DataSize
  <2>3. AtFrame' /\ AllHandled'
    BY <1>0, <1>1, <2>1 DEF AtFrame, AllHandled, Base
  <2> QED
    BY <1>4, <2>2, <2>3 DEF IInv
<1>6. CASE n # 0
  <2>1. /\ pc' = "parse" /\ disconnected' = disconnected
        /\ data' = data \o StreamBytes(arrived, n)
    BY <1>1, <1>3, <1>6 DEF OnRecvCompleted, FreeSize, WritePos
  <2>2. data' = StreamBytes(Base, Len(data) + n)
    <3>1. StreamBytes(Base, Len(data)) \o StreamBytes(Base + Len(data), n)
            = StreamBytes(Base, Len(data) + n)
      <4>1. Base \in Nat /\ Len(data) \in Nat /\ n \in Nat
        BY <1>2
      <4> QED
        BY <4>1, PieceMore
    <3>2. StreamBytes(Base, Len(data)) = data /\ arrived = Base + Len(data)
      BY <1>2
    <3> QED
      BY <2>1, <3>1, <3>2
  <2>3. data' \in Seq(Nat) /\ Len(data') = Len(data) + n
    <3>1. Len(data) + n \in Nat /\ Base \in Nat
      BY <1>2
    <3> QED
      BY <2>2, <3>1, PieceFacts
  <2>4. Base' = Base
    <3>1. /\ arrived' = arrived + n /\ Len(data') = Len(data) + n
          /\ arrived \in Nat /\ Len(data) \in Nat /\ n \in Nat
      BY <1>1, <1>2, <2>3
    <3> QED
      BY <3>1 DEF Base
  <2>5. TypeOK'
    <3>1. /\ Len(data') <= BufferSize /\ readPos' \in 0..Len(data')
          /\ processLen' \in Nat /\ processLen' <= Len(data') - readPos'
          /\ before' \in 0..Len(packets)
      BY <1>1, <1>2, <1>3, <2>3
    <3> QED
      BY <1>0, <1>1, <1>3, <2>1, <2>3, <3>1 DEF TypeOK, WritePos, DataSize
  <2>6. AtFrame'
    <3>1. Base' \in Nat /\ data' = StreamBytes(Base', Len(data'))
      BY <1>2, <2>2, <2>3, <2>4
    <3>2. Base' = End(ends, before') /\ Base' + processLen' = End(ends, Len(packets))
      BY <1>1, <1>2, <2>4
    <3> QED
      BY <1>0, <1>1, <1>2, <2>1, <3>1, <3>2 DEF AtFrame
  <2>7. AllHandled'
    BY <2>1 DEF AllHandled
  <2> QED
    BY <1>4, <2>5, <2>6, <2>7 DEF IInv
<1> QED
  BY <1>5, <1>6

\* The loop of OnRecv goes on to the next frame.
LEMMA OnRecvPacketStep ==
  ASSUME IInv, OnRecvPacket
  PROVE  IInv'
<1>0. /\ TypeOK /\ InOrder /\ AtFrame /\ pc = "parse" /\ PacketReady
      /\ Handle
  BY DEF IInv, OnRecvPacket, Handle
<1>1. /\ processLen' = processLen + SegmentSize /\ pc' = "parse"
      /\ UNCHANGED <<ends, gone, disconnected, closed, data, readPos, room, arrived,
                     before>>
  BY <1>0 DEF OnRecvPacket, network, socket, buffer
<1>2. /\ WholeFrames' /\ DecodedAsFirst'
      /\ packets' \in Seq(Packets) /\ Len(packets') = Len(packets) + 1
      /\ decoded' \in Seq(Nat) /\ Len(decoded') = Len(packets')
      /\ Len(packets') <= Len(ends)
  BY <1>0, <1>1, HandleStep
<1>3. /\ Len(packets) < Len(ends)
      /\ SegmentSize = SizeOf(ends, Len(packets) + 1)
      /\ Base + processLen + SizeOf(ends, Len(packets) + 1) = End(ends, Len(packets) + 1)
      /\ processLen + SizeOf(ends, Len(packets) + 1) <= Len(data)
  BY <1>0, NextFrame
<1>4. /\ SizeOf(ends, Len(packets) + 1) \in Nat /\ processLen \in Nat /\ readPos = 0
      /\ Base \in Nat /\ Len(data) \in Nat /\ before \in 0..Len(packets)
      /\ Len(packets) \in Nat
  <2>1. Len(packets) + 1 \in 1..Len(ends)
    BY <1>0, <1>3, Types, Ends
  <2> QED
    BY <1>0, <2>1, Types, FrameFacts DEF InOrder, AtFrame
<1>5. /\ processLen' \in Nat /\ processLen' <= Len(data) - readPos
      /\ Base + processLen' = End(ends, Len(packets'))
  <2> DEFINE size == SizeOf(ends, Len(packets) + 1)
  <2>1. processLen' = processLen + size /\ Len(packets') = Len(packets) + 1
    BY <1>1, <1>2, <1>3
  <2>2. /\ processLen' \in Nat /\ processLen' <= Len(data) - readPos
        /\ Base + processLen' = Base + processLen + size
    <3>1. /\ size \in Nat /\ processLen \in Nat /\ readPos = 0
          /\ Base \in Nat /\ Len(data) \in Nat /\ processLen + size <= Len(data)
      BY <1>3, <1>4
    <3> HIDE DEF size
    <3> QED
      BY <2>1, <3>1
  <2> QED
    BY <1>3, <2>1, <2>2
<1>6. TypeOK'
  <2>1. before' \in 0..Len(packets')
    BY <1>1, <1>2, <1>4
  <2> QED
    BY <1>0, <1>1, <1>2, <1>5, <2>1 DEF TypeOK, WritePos, DataSize, Packets
<1>7. AtFrame' /\ AllHandled' /\ InOrder'
  BY <1>0, <1>1, <1>2, <1>5 DEF AtFrame, Base, AllHandled, InOrder
<1> QED
  BY <1>2, <1>6, <1>7 DEF IInv

\* An exception of the handler leaves the loop, and the packet counted as handled.
LEMMA ThrowsStep ==
  ASSUME IInv, HandlerThrows
  PROVE  IInv'
<1>0. TypeOK /\ InOrder /\ AtFrame /\ Handle
  BY DEF IInv, HandlerThrows
<1>1. /\ pc' = "deaf"
      /\ UNCHANGED <<ends, gone, disconnected, closed, data, readPos, room, processLen,
                     arrived, before>>
  BY DEF HandlerThrows, network, socket, buffer
<1>2. /\ WholeFrames' /\ DecodedAsFirst'
      /\ packets' \in Seq(Packets) /\ Len(packets') = Len(packets) + 1
      /\ decoded' \in Seq(Nat) /\ Len(decoded') = Len(packets')
      /\ Len(packets') <= Len(ends)
  BY <1>0, <1>1, HandleStep
<1>3. TypeOK'
  <2>1. before' \in 0..Len(packets')
    BY <1>0, <1>1, <1>2, Types
  <2> QED
    BY <1>0, <1>1, <1>2, <2>1 DEF TypeOK, WritePos, DataSize, Packets
<1>4. AtFrame' /\ AllHandled' /\ InOrder'
  BY <1>0, <1>1, <1>2 DEF AtFrame, Base, AllHandled, InOrder
<1> QED
  BY <1>2, <1>3, <1>4 DEF IInv

\* FinishRecv: the loop has not gone past the bytes, OnRead does not refuse, and the frame
\* that is next has not arrived completely.
LEMMA FinishStep ==
  ASSUME IInv, FinishRecv
  PROVE  IInv'
<1>0. /\ TypeOK /\ InOrder /\ AtFrame /\ WholeFrames
      /\ DecodedAsFirst
      /\ pc = "parse" /\ ~PacketReady
  BY DEF IInv, FinishRecv
<1>1. /\ ends \in Streams /\ Len(ends) \in Nat /\ Total(ends) \in Nat
      /\ Len(packets) \in 0..Len(ends) /\ processLen \in Nat /\ readPos = 0
      /\ data \in Seq(Nat) /\ Len(data) \in Nat /\ arrived \in Nat
      /\ Base \in Nat /\ arrived = Base + Len(data)
      /\ Base + processLen = End(ends, Len(packets)) /\ processLen <= Len(data)
  BY <1>0, Types, Ends DEF AtFrame, Base
<1>2. /\ readPos' = readPos + processLen /\ pc' = "register" /\ disconnected' = disconnected
      /\ UNCHANGED <<ends, gone, closed, data, room, processLen, arrived, before, packets,
                     decoded>>
  <2>1. ~(processLen > DataSize)
    BY <1>1 DEF DataSize, WritePos
  <2> QED
    BY <2>1 DEF FinishRecv, network, history
<1>3. TypeOK'
  <2>1. readPos' \in 0..Len(data)
    BY <1>1, <1>2
  <2> QED
    BY <1>0, <1>2, <2>1 DEF TypeOK, WritePos, DataSize
<1>4. AtFrame'
  <2>1. Base + readPos' = End(ends, Len(packets))
    BY <1>1, <1>2
  <2> QED
    BY <1>0, <1>2, <2>1 DEF AtFrame, Base
<1>5. AllHandled'
  <2> DEFINE k == Len(packets)
  <2>1. ASSUME k < Len(ends), ends[k + 1] <= arrived
        PROVE  PacketReady
    <3>1. /\ k + 1 \in 1..Len(ends) /\ End(ends, k + 1) = ends[k + 1] /\ ends[k + 1] \in Nat
          /\ End(ends, k) \in Nat /\ SizeOf(ends, k + 1) = ends[k + 1] - End(ends, k)
          /\ SizeOf(ends, k + 1) \in Nat /\ SizeOf(ends, k + 1) >= HeaderSize
      BY <1>0, <1>1, <2>1, NextSize
    <3>2. Len(data) - processLen >= SizeOf(ends, k + 1)
      <4>1. /\ arrived = Base + Len(data) /\ Base + processLen = End(ends, k)
            /\ Base \in Nat /\ Len(data) \in Nat /\ processLen \in Nat
        BY <1>1
      <4> QED
        BY <2>1, <3>1, <4>1
    <3>3. processLen + 1 \in 1..Len(data) /\ HeaderSize \in Nat
      BY <1>1, <3>1, <3>2, FrameFacts
    <3>4. data[processLen + 1] = End(ends, k) + 1
      <4>1. \A i \in 1..Len(data) : StreamBytes(Base, Len(data))[i] = Base + i
        BY <1>1, PieceFacts
      <4>2. data = StreamBytes(Base, Len(data))
        BY <1>0 DEF AtFrame
      <4> QED
        BY <1>1, <3>3, <4>1, <4>2
    <3>5. SizeAt(ends, data[processLen + 1]) = SizeOf(ends, k + 1)
      BY <1>0, <1>1, <2>1, <3>4, SizeAtStart
    <3>6. SegmentSize = SizeOf(ends, k + 1)
      BY <1>1, <3>5 DEF SegmentSize, Segment
    <3>7. DataSize = Len(data)
      BY <1>1 DEF DataSize, WritePos
    <3>8. Len(data) - processLen >= HeaderSize
      <4>1. Len(data) \in Nat /\ processLen \in Nat
        BY <1>1
      <4> QED
        BY <3>1, <3>2, <3>3, <4>1
    <3> QED
      BY <3>2, <3>6, <3>7, <3>8 DEF PacketReady
  <2>2. ASSUME NEW i \in 1..Len(ends), ends[i] <= arrived, ~(i <= k)
        PROVE  FALSE
    <3>1. k + 1 \in 1..Len(ends) /\ k < Len(ends) /\ (k + 1 < i \/ k + 1 = i)
      BY <1>1, <2>2
    <3>2. ends[k + 1] <= ends[i] /\ ends[k + 1] \in Nat /\ ends[i] \in Nat
      <4>1. i \in (k + 1)..Len(ends)
        BY <1>1, <2>2
      <4> QED
        BY <1>0, <1>1, <3>1, <4>1, NextSize
    <3>3. ends[k + 1] <= arrived
      BY <1>1, <2>2, <3>2
    <3> QED
      BY <1>0, <2>1, <3>1, <3>3
  <2> QED
    BY <1>2, <2>2 DEF AllHandled
<1>6. InOrder' /\ WholeFrames' /\ DecodedAsFirst'
  BY <1>0, <1>2 DEF InOrder, WholeFrames, DecodedAsFirst
<1> QED
  BY <1>3, <1>4, <1>5, <1>6 DEF IInv

\* Every step of the client keeps its invariant.
LEMMA NextIInv ==
  ASSUME IInv, [Next]_vars
  PROVE  IInv'
<1> USE DEF network, socket, buffer, history
<1>0. gone \in BOOLEAN /\ disconnected \in BOOLEAN /\ closed \in BOOLEAN
  BY DEF IInv, TypeOK
<1>1. ASSUME NEW n \in FrameSizes, PeerSend(n)
      PROVE  IInv'
  BY <1>1, PeerSendStep
<1>2. CASE ConnectionEnds \/ Disconnect \/ CloseSocket
  BY <1>0, <1>2, QuietStep DEF ConnectionEnds, Disconnect, CloseSocket
<1>3. CASE Start
  BY <1>0, <1>3, QuietStep DEF Start
<1>4. CASE RegisterRecv
  <2>1. CASE disconnected
    BY <1>0, <1>4, <2>1, QuietStep DEF RegisterRecv
  <2> QED
    BY <1>4, <2>1, RegisterStep
<1>5. CASE ReceiveAsync
  <2>1. pc = "recv" /\ pc' \in {"ended", "posted"}
        /\ UNCHANGED <<ends, gone, disconnected, closed, data, readPos, room, processLen,
                       arrived, before, packets, decoded>>
    BY <1>5 DEF ReceiveAsync
  <2> QED
    BY <1>0, <2>1, QuietStep
<1>6. ASSUME NEW n \in 0..BufferSize, OnRecvCompleted(n)
      PROVE  IInv'
  BY <1>6, CompletedStep
<1>7. CASE OnRecvPacket
  BY <1>7, OnRecvPacketStep
<1>8. CASE HandlerThrows
  BY <1>8, ThrowsStep
<1>9. CASE FinishRecv
  BY <1>9, FinishStep
<1>10. CASE UNCHANGED vars
  BY <1>0, <1>10, QuietStep DEF vars
<1> QED
  BY <1>1, <1>2, <1>3, <1>4, <1>5, <1>6, <1>7, <1>8, <1>9, <1>10 DEF Next, Progress

------------------------------------------------------------------------------
(* What follows of it *)

\* The invariant of any stream of frames, in the client.
THEOREM Invariance == Spec => []IInv
<1>1. Init => IInv
  BY InitIInv
<1>2. IInv /\ [Next]_vars => IInv'
  BY NextIInv
<1> QED
  BY <1>1, <1>2, PTL DEF Spec

\* Whatever way the stream is cut into receives, OnRecvPacket gets every frame once,
\* whole and in order; OnWrite and OnRead never refuse.
THEOREM StreamIntactCorrect == Spec => []StreamIntact
<1>1. IInv => StreamIntact
  BY DEF IInv, StreamIntact
<1> QED
  BY <1>1, Invariance, PTL

\* Every packet of a receive is decoded as the first one of that receive.
THEOREM DecodedAsFirstCorrect == Spec => []DecodedAsFirst
<1>1. IInv => DecodedAsFirst
  BY DEF IInv
<1> QED
  BY <1>1, Invariance, PTL

\* A client that waits for bytes has handled every frame that has arrived completely,
\* and has room for more.
THEOREM NothingHeldBackCorrect ==
  ASSUME FrameSizes # {}
  PROVE  Spec => []NothingHeldBack
<1>1. ASSUME IInv
      PROVE  NothingHeldBack
  <2>0. TypeOK /\ InOrder /\ AtFrame /\ AllHandled
    BY <1>1 DEF IInv
  <2> SUFFICES ASSUME pc \in {"register", "recv", "posted"}
               PROVE  pc # "register" => room = FreeSize /\ room > 0
    BY <2>0 DEF NothingHeldBack, AllHandled
  <2> SUFFICES ASSUME pc # "register"
               PROVE  room = FreeSize /\ room > 0
    OBVIOUS
  <2>1. /\ ends \in Streams /\ Len(ends) \in Nat /\ Total(ends) \in Nat
        /\ arrived \in 0..Total(ends) /\ Len(data) \in Nat /\ Len(packets) \in 0..Len(ends)
        /\ Base \in Nat /\ arrived = Base + Len(data) /\ readPos = 0
        /\ room = BufferSize - Len(data)
        /\ Base + readPos = End(ends, Len(packets)) /\ BufferSize \in Nat
    <3>1. /\ ends \in Streams /\ arrived \in 0..Total(ends) /\ data \in Seq(Nat)
          /\ packets \in Seq(Packets)
      BY <2>0, Types
    <3> QED
      BY BufferAssumption, <2>0, <3>1, Ends DEF AtFrame, Base
  <2>2. CASE Len(packets) = Len(ends)
    <3>1. Len(data) = 0
      BY <2>1, <2>2 DEF Total
    <3>2. BufferSize > 0
      <4>1. PICK m \in FrameSizes : TRUE
        OBVIOUS
      <4>2. m \in Nat /\ m > 0 /\ m <= BufferSize
        BY BufferAssumption, <4>1, FrameFacts
      <4> QED
        BY <2>1, <4>2
    <3> QED
      BY <2>1, <3>1, <3>2 DEF FreeSize, WritePos
  <2>3. CASE Len(packets) < Len(ends)
    <3> DEFINE k == Len(packets)
    <3>1. /\ k + 1 \in 1..Len(ends) /\ ends[k + 1] \in Nat /\ End(ends, k) \in Nat
          /\ SizeOf(ends, k + 1) = ends[k + 1] - End(ends, k)
          /\ SizeOf(ends, k + 1) \in FrameSizes
      BY <2>0, <2>1, <2>3, NextSize
    <3>2. arrived < ends[k + 1]
      <4>1. ~(k + 1 <= k)
        BY <2>1
      <4>2. ~(ends[k + 1] <= arrived)
        BY <2>0, <3>1, <4>1 DEF AllHandled
      <4> QED
        BY <2>1, <3>1, <4>2
    <3>3. SizeOf(ends, k + 1) <= BufferSize /\ SizeOf(ends, k + 1) \in Nat
      BY BufferAssumption, <3>1, FrameFacts
    <3>4. Len(data) < SizeOf(ends, k + 1)
      BY <2>1, <3>1, <3>2
    <3> QED
      BY <2>1, <3>3, <3>4 DEF FreeSize, WritePos
  <2> QED
    BY <2>1, <2>2, <2>3
<1> QED
  BY <1>1, Invariance, PTL
==============================================================================
