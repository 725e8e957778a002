-------------------------- MODULE ServerRecvProofs --------------------------
(***************************************************************************)
(* Proofs about ServerRecv, for any frames, sizes and buffer.  That the    *)
(* loop of ProcessRecv is at the start of a frame again and again rests on *)
(* the buffer holding the stream from its first byte, which Clean leaves   *)
(* alone, and on the frames' ends being in order.                          *)
(***************************************************************************)
EXTENDS ServerRecv, TLAPS

\* The frames of the stream end one after the other.
InOrder ==
  /\ \A i \in 1..Len(ends) : ends[i] > 0 /\ SizeOf(ends, i) \in FrameSizes
  /\ \A i, j \in 1..Len(ends) : i < j => ends[i] < ends[j]

\* The loop of ProcessRecv is behind the packets it has handed to OnRecv.
AtFrame ==
  /\ readPos = 0
  /\ pc = "parse" => /\ Len(dispatched) <= Len(ends)
                     /\ processLen = End(ends, Len(dispatched))

IInv == TypeOK /\ InOrder /\ NothingLost /\ AtFrame /\ WholeFrames

------------------------------------------------------------------------------
(* Sizes and ends *)

LEMMA Sizes ==
  /\ BufferSize \in Nat
  /\ HeaderSize \in Nat /\ HeaderSize > 0
  /\ \A n \in FrameSizes : n \in Nat /\ n >= HeaderSize
<1>1. \A m, n \in Nat : m * n \in Nat
  OBVIOUS
<1> QED
  BY <1>1, BufferAssumption, FrameAssumption DEF BufferSize

\* Ends are positions.
LEMMA Ends ==
  ASSUME TypeOK
  PROVE  /\ Len(ends) \in Nat
         /\ \A k \in 0..Len(ends) : End(ends, k) \in Nat
         /\ Total(ends) \in Nat
         /\ \A k \in 1..Len(ends) : SizeOf(ends, k) = ends[k] - End(ends, k - 1)
<1>1. ends \in Seq(Nat)
  BY DEF TypeOK, Streams
<1>2. \A k \in 0..Len(ends) : End(ends, k) \in Nat
  BY <1>1 DEF End
<1> QED
  BY <1>1, <1>2 DEF End, Total, SizeOf

\* A frame more leaves the others as they are.
LEMMA ExtendedFacts ==
  ASSUME TypeOK, InOrder, NEW n \in FrameSizes, ends' = Extended(ends, n)
  PROVE  /\ ends' \in Seq(Nat) /\ Len(ends') = Len(ends) + 1
         /\ \A k \in 1..Len(ends) : ends'[k] = ends[k]
         /\ ends'[Len(ends) + 1] = Total(ends) + n
         /\ Total(ends') = Total(ends) + n
         /\ \A k \in 0..Len(ends) : End(ends', k) = End(ends, k)
         /\ InOrder'
<1>1. /\ ends \in Seq(Nat) /\ Total(ends) \in Nat /\ Len(ends) \in Nat
      /\ n \in Nat /\ n > 0
  BY Ends, Sizes DEF TypeOK, Streams
<1>2. /\ ends' \in Seq(Nat) /\ Len(ends') = Len(ends) + 1
      /\ \A k \in 1..Len(ends) : ends'[k] = ends[k]
      /\ ends'[Len(ends) + 1] = Total(ends) + n
  BY <1>1 DEF Extended
<1>3. Total(ends') = Total(ends) + n
  BY <1>1, <1>2 DEF Total, End
<1>4. \A k \in 0..Len(ends) : End(ends', k) = End(ends, k)
  BY <1>1, <1>2 DEF End
<1>5. \A i \in 1..Len(ends) : ends[i] <= Total(ends)
  BY <1>1 DEF InOrder, Total, End
<1>6. \A i \in 1..Len(ends') : i \in 1..Len(ends) \/ i = Len(ends) + 1
  BY <1>1, <1>2
<1>7. \A i \in 1..Len(ends') : ends'[i] > 0
  <2>1. ends'[Len(ends) + 1] > 0
    BY <1>1, <1>2
  <2>2. \A i \in 1..Len(ends) : ends'[i] > 0
    BY <1>2 DEF InOrder
  <2> QED
    BY <1>6, <2>1, <2>2
<1>8. \A i \in 1..Len(ends') : SizeOf(ends', i) \in FrameSizes
  <2>1. \A i \in 1..Len(ends) : SizeOf(ends', i) = SizeOf(ends, i)
    BY <1>1, <1>4 DEF SizeOf
  <2>2. SizeOf(ends', Len(ends) + 1) = n
    <3>1. End(ends', Len(ends) + 1) = Total(ends) + n
      BY <1>1, <1>2 DEF End
    <3>2. End(ends', (Len(ends) + 1) - 1) = Total(ends)
      BY <1>1, <1>4 DEF Total
    <3> QED
      BY <1>1, <3>1, <3>2 DEF SizeOf
  <2> QED
    BY <1>6, <2>1, <2>2 DEF InOrder
<1>9. ASSUME NEW i \in 1..Len(ends'), NEW j \in 1..Len(ends'), i < j
      PROVE  ends'[i] < ends'[j]
  <2>1. i \in 1..Len(ends)
    BY <1>1, <1>2, <1>9
  <2>2. CASE j \in 1..Len(ends)
    BY <1>2, <1>9, <2>1, <2>2 DEF InOrder
  <2>3. CASE j = Len(ends) + 1
    <3>1. ends[i] \in Nat /\ ends[i] <= Total(ends)
      BY <1>1, <1>5, <2>1
    <3> QED
      BY <1>1, <1>2, <2>1, <2>3, <3>1
  <2> QED
    BY <1>6, <2>2, <2>3
<1>10. InOrder'
  BY <1>7, <1>8, <1>9 DEF InOrder
<1> QED
  BY <1>2, <1>3, <1>4, <1>10

\* Where a frame starts, its header gives its size; behind the last, nothing starts.
LEMMA SizeAtStart ==
  ASSUME TypeOK, InOrder, NEW k \in 0..Len(ends)
  PROVE  /\ k < Len(ends) => SizeAt(ends, End(ends, k) + 1) = SizeOf(ends, k + 1)
         /\ End(ends, k) <= Total(ends)
<1>1. ends \in Seq(Nat) /\ Len(ends) \in Nat
  BY DEF TypeOK, Streams
<1>2. \A i, j \in 0..Len(ends) : i < j => End(ends, i) < End(ends, j)
  BY <1>1 DEF InOrder, End
<1>3. End(ends, k) <= Total(ends)
  <2>1. Len(ends) \in 0..Len(ends) /\ End(ends, k) \in Nat /\ Total(ends) \in Nat
    BY <1>1, Ends
  <2>2. CASE k < Len(ends)
    BY <1>2, <2>1, <2>2 DEF Total
  <2>3. CASE k = Len(ends)
    BY <2>1, <2>3 DEF Total
  <2> QED
    BY <1>1, <2>2, <2>3
<1>4. ASSUME k < Len(ends)
      PROVE  SizeAt(ends, End(ends, k) + 1) = SizeOf(ends, k + 1)
  <2> DEFINE p == End(ends, k) + 1
             P(j) == p = End(ends, j - 1) + 1
  <2>1. k + 1 \in 1..Len(ends) /\ P(k + 1)
    BY <1>1, <1>4
  <2>2. \A j \in 1..Len(ends) : P(j) => j = k + 1
    <3> SUFFICES ASSUME NEW j \in 1..Len(ends), P(j)
                 PROVE  j = k + 1
      OBVIOUS
    <3>1. j - 1 \in 0..Len(ends) /\ End(ends, j - 1) \in Nat /\ End(ends, k) \in Nat
      BY <1>1, Ends
    <3>2. End(ends, j - 1) = End(ends, k)
      BY <3>1
    <3>3. ~(j - 1 < k) /\ ~(k < j - 1)
      BY <1>2, <3>1, <3>2
    <3> QED
      BY <3>1, <3>3
  <2>3. (CHOOSE j \in 1..Len(ends) : P(j)) = k + 1
    BY <2>1, <2>2
  <2> QED
    BY <2>1, <2>3 DEF SizeAt
<1> QED
  BY <1>3, <1>4

------------------------------------------------------------------------------
(* The buffer *)

LEMMA StreamFacts ==
  ASSUME NEW n \in Nat
  PROVE  /\ StreamBytes(0, n) \in Seq(Nat) /\ Len(StreamBytes(0, n)) = n
         /\ \A i \in 1..n : StreamBytes(0, n)[i] = i
BY DEF StreamBytes

\* Bytes are received behind those that are there.
LEMMA Received ==
  ASSUME NEW m \in Nat, NEW n \in Nat
  PROVE  StreamBytes(0, m) \o StreamBytes(m, n) = StreamBytes(0, m + n)
BY DEF StreamBytes

\* Clean leaves the buffer as it is.
LEMMA CleanKeeps ==
  ASSUME TypeOK, NothingLost, readPos = 0, Clean
  PROVE  data' = data /\ readPos' = readPos
<1>1. data \in Seq(Nat)
  BY DEF TypeOK
<1>2. Len(data) = 0 => data = <<>>
  BY <1>1
<1>3. SubSeq(data, 1, Len(data)) = data
  BY <1>1
<1>4. readPos + 1 = 1 /\ DataSize = Len(data) /\ WritePos = Len(data)
  BY <1>1 DEF DataSize, WritePos
<1>5. \/ DataSize = 0 /\ data' = <<>> /\ readPos' = 0
      \/ data' = SubSeq(data, readPos + 1, WritePos) /\ readPos' = 0
      \/ data' = data /\ readPos' = readPos
  BY DEF Clean, buffer
<1> QED
  BY <1>2, <1>3, <1>4, <1>5

------------------------------------------------------------------------------
(* The invariant *)

LEMMA InitIInv == Init => IInv
<1> SUFFICES ASSUME Init
             PROVE  IInv
  OBVIOUS
<1> USE Sizes DEF Init
<1>1. TypeOK
  <2>1. /\ ends \in Seq(Nat) /\ data \in Seq(Nat) /\ dispatched \in Seq(Packets)
        /\ Len(ends) = 0 /\ Len(data) = 0
    OBVIOUS
  <2>2. Total(ends) = 0 /\ WritePos = 0 /\ DataSize = 0
    BY <2>1 DEF Total, End, WritePos, DataSize
  <2>3. /\ WritePos <= BufferSize /\ readPos \in 0..WritePos /\ room \in 0..BufferSize
        /\ processLen \in 0..BufferSize /\ arrived \in 0..Total(ends)
    <3>1. BufferSize \in Nat /\ readPos = 0 /\ room = 0 /\ processLen = 0 /\ arrived = 0
      OBVIOUS
    <3> HIDE DEF Init
    <3> QED
      BY <2>2, <3>1
  <2>4. gone \in BOOLEAN /\ isConnect \in BOOLEAN /\ pc = "idle"
    OBVIOUS
  <2> HIDE Sizes DEF Init
  <2> QED
    BY <2>1, <2>3, <2>4 DEF TypeOK, Streams
<1>2. NothingLost
  BY DEF NothingLost, StreamBytes
<1>3. InOrder /\ AtFrame /\ WholeFrames
  BY DEF InOrder, AtFrame, WholeFrames
<1> QED
  BY <1>1, <1>2, <1>3 DEF IInv

\* A packet that the loop finds is the next frame of the stream.
LEMMA NextFrame ==
  ASSUME IInv, pc = "parse", PacketReady
  PROVE  LET k == Len(dispatched)
         IN /\ k < Len(ends)
            /\ data[Front + 1] = End(ends, k) + 1
            /\ FrontSize = SizeOf(ends, k + 1)
            /\ processLen + FrontSize = End(ends, k + 1)
<1> DEFINE k == Len(dispatched)
<1>1. /\ k \in 0..Len(ends) /\ processLen = End(ends, k) /\ readPos = 0 /\ Len(ends) \in Nat
  BY Ends DEF IInv, TypeOK, AtFrame
<1>2. /\ data = StreamBytes(0, arrived) /\ arrived \in Nat /\ arrived <= Total(ends)
      /\ Len(data) = arrived /\ Total(ends) \in Nat
  <2>1. arrived \in 0..Total(ends) /\ Total(ends) \in Nat
    BY Ends DEF IInv, TypeOK
  <2> QED
    BY <2>1, StreamFacts DEF IInv, NothingLost
<1>3. End(ends, k) \in Nat
  BY <1>1, Ends DEF IInv
<1>4. arrived - processLen >= HeaderSize
  BY <1>1, <1>2 DEF PacketReady, DataSize, WritePos
<1>5. Front + 1 = End(ends, k) + 1 /\ End(ends, k) + 1 \in 1..arrived
  BY <1>1, <1>2, <1>3, <1>4, Sizes DEF Front
<1>6. data[Front + 1] = End(ends, k) + 1
  BY <1>2, <1>5, StreamFacts
<1>7. k < Len(ends)
  <2>1. End(ends, k) < Total(ends)
    BY <1>1, <1>2, <1>3, <1>4, Sizes
  <2>2. k # Len(ends)
    BY <1>3, <2>1 DEF Total
  <2> QED
    BY <1>1, <2>2
<1>8. FrontSize = SizeOf(ends, k + 1)
  BY <1>1, <1>6, <1>7, SizeAtStart DEF FrontSize, IInv
<1>9. SizeOf(ends, k + 1) = End(ends, k + 1) - End(ends, k)
  BY <1>1 DEF SizeOf
<1>10. End(ends, k + 1) \in Nat
  BY <1>1, <1>7, Ends DEF IInv
<1> QED
  BY <1>1, <1>3, <1>6, <1>7, <1>8, <1>9, <1>10

LEMMA NextIInv == IInv /\ [Next]_vars => IInv'
<1> SUFFICES ASSUME IInv, [Next]_vars
             PROVE  IInv'
  OBVIOUS
<1> USE Sizes
<1>0. TypeOK /\ InOrder /\ NothingLost /\ AtFrame /\ WholeFrames
  BY DEF IInv
<1>a. ends \in Seq(Nat) /\ Len(ends) \in Nat /\ Total(ends) \in Nat /\ data \in Seq(Nat) /\ Len(data) \in Nat
  BY <1>0, Ends DEF TypeOK, Streams
<1>1. ASSUME NEW n \in FrameSizes, PeerSend(n)
      PROVE  IInv'
  <2>1. /\ ends' = Extended(ends, n)
        /\ UNCHANGED <<gone, isConnect, buffer, room, pc, processLen, arrived, dispatched>>
    BY <1>1 DEF PeerSend
  <2>2. /\ ends' \in Seq(Nat) /\ Len(ends') = Len(ends) + 1
        /\ Total(ends') = Total(ends) + n
        /\ \A k \in 0..Len(ends) : End(ends', k) = End(ends, k)
        /\ InOrder' /\ n \in Nat
    BY <1>0, <2>1, ExtendedFacts
  <2>3. TypeOK'
    BY <1>0, <1>a, <2>1, <2>2 DEF TypeOK, Streams, buffer, WritePos, DataSize
  <2>4. AtFrame'
    BY <1>0, <1>a, <2>1, <2>2 DEF AtFrame, buffer, TypeOK
  <2>5. NothingLost'
    BY <1>0, <2>1 DEF NothingLost, buffer, Capacity, WritePos
  <2>6. WholeFrames'
    <3> SUFFICES ASSUME NEW k \in 1..Len(dispatched)
                 PROVE  /\ k <= Len(ends')
                        /\ dispatched[k] = [at |-> End(ends', k - 1) + 1, len |-> SizeOf(ends', k)]
      BY <2>1 DEF WholeFrames
    <3>1. /\ k <= Len(ends) /\ k \in Nat /\ k > 0
          /\ dispatched[k] = [at |-> End(ends, k - 1) + 1, len |-> SizeOf(ends, k)]
      BY <1>0 DEF WholeFrames, TypeOK
    <3>2. k - 1 \in 0..Len(ends) /\ k \in 0..Len(ends)
      BY <1>a, <3>1
    <3>3. End(ends', k - 1) = End(ends, k - 1) /\ SizeOf(ends', k) = SizeOf(ends, k)
      BY <2>2, <3>2 DEF SizeOf
    <3> QED
      BY <1>a, <2>2, <3>1, <3>3
  <2> QED
    BY <2>2, <2>3, <2>4, <2>5, <2>6 DEF IInv
<1>2. CASE ConnectionEnds \/ Disconnect \/ ProcessConnect \/ RegisterRecv \/ PostFail
  <2>1. /\ UNCHANGED <<ends, buffer, room, processLen, arrived, dispatched>>
        /\ gone' \in BOOLEAN /\ isConnect' \in BOOLEAN
        /\ \/ pc' = pc
           \/ pc' \in {"register", "recv", "ended", "stuck"}
    BY <1>0, <1>2 DEF ConnectionEnds, Disconnect, ProcessConnect, RegisterRecv, PostFail,
                      network, TypeOK
  <2>2. TypeOK'
    BY <1>0, <2>1 DEF TypeOK, buffer, WritePos, DataSize
  <2>3. InOrder' /\ AtFrame' /\ WholeFrames'
    BY <1>0, <2>1 DEF InOrder, AtFrame, WholeFrames, buffer
  <2>4. NothingLost'
    BY <1>0, <2>1 DEF NothingLost, buffer, Capacity, WritePos
  <2> QED
    BY <2>2, <2>3, <2>4 DEF IInv
<1>3. CASE PostRecv
  <2>1. /\ UNCHANGED <<ends, gone, isConnect, buffer, processLen, arrived, dispatched>>
        /\ room' = Capacity /\ pc' = "posted"
    BY <1>3 DEF PostRecv, network
  <2>2. Capacity \in 0..BufferSize
    BY <1>0, <1>a DEF TypeOK, Capacity, WritePos
  <2>3. TypeOK'
    BY <1>0, <2>1, <2>2 DEF TypeOK, buffer, WritePos, DataSize
  <2>4. InOrder' /\ AtFrame' /\ WholeFrames'
    BY <1>0, <2>1 DEF InOrder, AtFrame, WholeFrames, buffer
  <2>5. NothingLost'
    BY <1>0, <2>1 DEF NothingLost, buffer, Capacity, WritePos
  <2> QED
    BY <2>3, <2>4, <2>5 DEF IInv
<1>4. ASSUME NEW n \in 0..BufferSize, ProcessRecv(n)
      PROVE  IInv'
  <2>1. /\ UNCHANGED <<ends, gone, readPos, room>> /\ pc = "posted"
        /\ arrived' = arrived + n /\ processLen' = 0 /\ dispatched' = <<>>
        /\ n <= room /\ n <= Total(ends) - arrived /\ n \in Nat
    BY <1>4 DEF ProcessRecv, Completes, network
  <2>2. room = Capacity /\ arrived \in Nat /\ readPos = 0
    BY <1>0, <1>a, <2>1 DEF NothingLost, TypeOK, AtFrame
  <2>3. /\ data' = data \o StreamBytes(arrived, n)
        /\ pc' \in {"ended", "parse"} /\ isConnect' \in BOOLEAN
    <3>1. Capacity \in Nat
      BY <1>0, <2>2 DEF TypeOK
    <3>2. ~(n > Capacity)
      BY <2>1, <2>2, <3>1
    <3> QED
      BY <1>0, <1>4, <3>2 DEF ProcessRecv, TypeOK
  <2>4. data' = StreamBytes(0, arrived')
    BY <1>0, <2>1, <2>2, <2>3, Received DEF NothingLost
  <2>5. data' \in Seq(Nat) /\ Len(data') = arrived + n /\ Len(data) = arrived
    BY <1>0, <2>1, <2>2, <2>4, StreamFacts DEF NothingLost
  <2>6. Len(data') <= BufferSize /\ arrived' \in 0..Total(ends)
    BY <1>a, <2>1, <2>2, <2>5 DEF Capacity, WritePos
  <2>7. TypeOK'
    BY <1>0, <1>a, <2>1, <2>2, <2>3, <2>5, <2>6 DEF TypeOK, WritePos, DataSize
  <2>8. InOrder' /\ AtFrame' /\ WholeFrames'
    BY <1>0, <1>a, <2>1, <2>2 DEF InOrder, AtFrame, WholeFrames, End
  <2>9. NothingLost'
    BY <2>3, <2>4 DEF NothingLost
  <2> QED
    BY <2>7, <2>8, <2>9 DEF IInv
<1>5. CASE DispatchPacket
  <2> DEFINE k == Len(dispatched)
             packet == [at |-> data[Front + 1], len |-> FrontSize]
  <2>1. /\ pc = "parse" /\ PacketReady
        /\ dispatched' = Append(dispatched, packet) /\ processLen' = processLen + FrontSize
        /\ UNCHANGED <<ends, gone, isConnect, buffer, room, pc, arrived>>
    BY <1>5 DEF DispatchPacket, network
  <2>2. /\ k < Len(ends) /\ packet = [at |-> End(ends, k) + 1, len |-> SizeOf(ends, k + 1)]
        /\ FrontSize = SizeOf(ends, k + 1) /\ processLen' = End(ends, k + 1)
    BY <2>1, NextFrame
  <2>3. k \in Nat /\ dispatched \in Seq(Packets) /\ k + 1 \in 1..Len(ends)
    BY <1>0, <1>a, <2>2 DEF TypeOK
  <2>4. End(ends, k) \in Nat /\ FrontSize \in FrameSizes
    BY <1>0, <1>a, <2>2, <2>3, Ends DEF InOrder
  <2>5. /\ dispatched' \in Seq(Packets) /\ Len(dispatched') = k + 1
        /\ \A i \in 1..k : dispatched'[i] = dispatched[i]
        /\ dispatched'[k + 1] = packet
    <3>1. packet \in Packets
      BY <2>2, <2>4 DEF Packets
    <3> QED
      BY <2>1, <2>3, <3>1
  <2>6. processLen' \in 0..BufferSize /\ processLen' <= DataSize'
    <3>1. processLen \in Nat /\ FrontSize \in Nat /\ readPos \in Nat /\ readPos <= Len(data)
      BY <1>0, <1>a, <2>4 DEF TypeOK, WritePos
    <3>2. FrontSize <= DataSize - processLen /\ DataSize <= BufferSize /\ DataSize \in Nat
      BY <1>0, <1>a, <2>1, <3>1 DEF PacketReady, TypeOK, DataSize, WritePos
    <3>3. DataSize' = DataSize
      BY <2>1 DEF DataSize, WritePos, buffer
    <3> QED
      BY <2>1, <3>1, <3>2, <3>3
  <2>7. TypeOK'
    BY <1>0, <2>1, <2>5, <2>6 DEF TypeOK, buffer, WritePos
  <2>8. InOrder' /\ NothingLost'
    BY <1>0, <2>1 DEF InOrder, NothingLost, buffer, Capacity, WritePos
  <2>9. AtFrame'
    BY <1>0, <2>1, <2>2, <2>3, <2>5 DEF AtFrame, buffer
  <2>10. WholeFrames'
    <3>1. \A i \in 1..(k + 1) : i \in 1..k \/ i = k + 1
      BY <2>3
    <3>2. (k + 1) - 1 = k
      BY <2>3
    <3>3. ends' = ends
      BY <2>1
    <3> QED
      BY <1>0, <2>2, <2>3, <2>5, <3>1, <3>2, <3>3 DEF WholeFrames
  <2> QED
    BY <2>7, <2>8, <2>9, <2>10 DEF IInv
<1>6. CASE FinishRecv
  <2>1. /\ Clean /\ pc' = "register"
        /\ UNCHANGED <<ends, gone, isConnect, room, processLen, arrived, dispatched>>
    BY <1>6 DEF FinishRecv, network
  <2>2. data' = data /\ readPos' = readPos
    BY <1>0, <2>1, CleanKeeps DEF AtFrame
  <2>3. TypeOK'
    BY <1>0, <2>1, <2>2 DEF TypeOK, WritePos
  <2>4. InOrder' /\ NothingLost' /\ AtFrame' /\ WholeFrames'
    BY <1>0, <2>1, <2>2 DEF InOrder, NothingLost, AtFrame, WholeFrames
  <2> QED
    BY <2>3, <2>4 DEF IInv
<1>7. CASE UNCHANGED vars
  BY <1>0, <1>7 DEF vars, network, buffer, IInv, TypeOK, InOrder, NothingLost, AtFrame,
                    WholeFrames, WritePos, DataSize, Capacity
<1> QED
  BY <1>1, <1>2, <1>3, <1>4, <1>5, <1>6, <1>7 DEF Next, Progress

\* The invariant of any stream of frames, cut in any way.
THEOREM Invariance == Spec => []IInv
<1>1. Init => IInv
  BY InitIInv
<1>2. IInv /\ [Next]_vars => IInv'
  BY NextIInv
<1> QED
  BY <1>1, <1>2, PTL DEF Spec

\* Whatever way the stream is cut into receives, ProcessRecv hands whole frames to
\* OnRecv, in order, from the first byte of the connection; OnWirte never refuses.
THEOREM StreamIntactCorrect == Spec => []StreamIntact
<1>1. IInv => StreamIntact
  BY DEF IInv, StreamIntact
<1> QED
  BY <1>1, Invariance, PTL
=============================================================================
