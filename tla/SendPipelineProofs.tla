-------------------------- MODULE SendPipelineProofs -------------------------
(***************************************************************************)
(* Proofs about SendPipeline, for any threads, buffers, sizes and limit.   *)
(***************************************************************************)
EXTENDS SendPipeline, SequenceTheorems, TLAPS

(* Sequences *)

\* Appending after a concatenation.
LEMMA AppendConcat ==
  ASSUME NEW S, NEW s \in Seq(S), NEW r \in Seq(S), NEW e \in S
  PROVE  s \o Append(r, e) = Append(s \o r, e)
<1>1. <<e>> \in Seq(S) /\ s \o r \in Seq(S)
  BY ConcatProperties
<1>2. (s \o r) \o <<e>> = s \o (r \o <<e>>)
  BY <1>1, ConcatAssociative
<1> QED
  BY <1>1, <1>2, AppendIsConcat

\* The two parts of a concatenation, cut apart again.
LEMMA CutConcat ==
  ASSUME NEW S, NEW a \in Seq(S), NEW b \in Seq(S)
  PROVE  /\ Len(a) \in 0..Len(a \o b)
         /\ SubSeq(a \o b, 1, Len(a)) = a
         /\ SubSeq(a \o b, Len(a) + 1, Len(a \o b)) = b
  BY SMT

------------------------------------------------------------------------------

------------------------------------------------------------------------------
(* The strengthening of the safety properties. *)

\* Before ProcessConnect nothing has happened: Send returns at once.
Untouched ==
  ~connected => /\ ~isConnect
                /\ ~sendRegistered
                /\ sendQueue = <<>>
                /\ \A t \in Threads : pc[t] = "idle"

\* The event lists buffers only between gathering and release.
EventClean ==
  sendBuffers # <<>> =>
    \/ posted # <<>>
    \/ \E t \in Threads :
         pc[t] \in {"post", "failClear", "procSend", "procSendZero"}

\* A thread that is about to call WSASend has set the owner.
OwnerSet == \A t \in Threads : pc[t] \in {"gather", "post"} => owner

\* A buffer waits under a free flag only until its sender tests the flag.
FlagFree ==
  ~sendRegistered /\ sendQueue # <<>> /\ isConnect /\ ~wsaFailed =>
    \E t \in Threads : pc[t] = "exchange"

\* On a connected session the set flag has somebody behind it.
FlagHeld ==
  sendRegistered /\ isConnect =>
    posted # <<>> \/ \E t \in Threads : pc[t] \in Holding \cup {"disconnect"}

\* A thread on the failure path has seen a WSASend refused.
FailSeen == \A t \in Threads : pc[t] \in {"failClear", "failStore"} => wsaFailed

SafeInv == /\ SingleUser
           /\ KeptAlive
           /\ Untouched
           /\ EventClean
           /\ OwnerSet
           /\ FlagFree
           /\ FlagHeld
           /\ FailSeen

IInv == TypeOK /\ SafeInv /\ InOrder

------------------------------------------------------------------------------
(* Facts about the data. *)

\* What a gathering step takes and leaves are sequences of buffers, the taken
\* part is a batch, and together they are the queue.
LEMMA GatherSplits ==
  ASSUME NEW q \in Seq(Buffers), NEW n \in 0..Len(q), GatherStops(q, n)
  PROVE  /\ SubSeq(q, 1, n) \in Batches
         /\ SubSeq(q, n + 1, Len(q)) \in Seq(Buffers)
         /\ q = SubSeq(q, 1, n) \o SubSeq(q, n + 1, Len(q))
<1>1. SubSeq(q, 1, n) \in Seq(Buffers) /\ SubSeq(q, n + 1, Len(q)) \in Seq(Buffers)
  <2>1. \A i \in 1..Len(q) : q[i] \in Buffers
    BY ElementOfSeq
  <2>2. \A i \in 1..n : q[i] \in Buffers
    BY <2>1
  <2>3. \A i \in (n + 1)..Len(q) : q[i] \in Buffers
    BY <2>1
  <2> QED
    BY <2>2, <2>3, SubSeqProperties
<1>2. q = SubSeq(q, 1, n) \o SubSeq(q, n + 1, Len(q))
  <2>1. Len(q) \in Nat
    BY LenProperties
  <2>2. SubSeq(q, 1, n) \o SubSeq(q, n + 1, Len(q)) = SubSeq(q, 1, Len(q))
    <3>1. 1 \in 1..Len(q) + 1 /\ n \in (1 - 1)..Len(q) /\ Len(q) \in n..Len(q)
      BY <2>1
    <3> QED
      BY <3>1, ConcatAdjacentSubSeq
  <2> QED
    BY <2>2, SubSeqFull
<1> QED
  BY <1>1, <1>2 DEF Batches, GatherStops

------------------------------------------------------------------------------
(* Type correctness *)

\* Every step keeps every variable in its type.
LEMMA TypeStep ==
  ASSUME TypeOK, SafeInv, [Next]_vars
  PROVE  TypeOK'
<1> USE DEF TypeOK, Holding, Outside, At, Go
<1>1. ASSUME ProcessConnect
      PROVE  TypeOK'
  BY <1>1 DEF ProcessConnect, event, history
<1>2. ASSUME Disconnect
      PROVE  TypeOK'
  BY <1>2 DEF Disconnect, event, history
<1>3. ASSUME NEW t \in Threads, NEW b \in Buffers, SendCheck(t, b)
      PROVE  TypeOK'
  BY <1>3 DEF SendCheck, event, history
<1>4. ASSUME NEW t \in Threads, SendPush(t)
      PROVE  TypeOK'
  BY <1>4 DEF SendPush, event, history
<1>5. ASSUME NEW t \in Threads, SendExchange(t)
      PROVE  TypeOK'
  <2>1. pc' \in [Threads -> Holding \cup Outside]
    BY <1>5 DEF SendExchange
  <2> QED
    BY <1>5, <2>1 DEF SendExchange, event, history
<1>6. ASSUME NEW t \in Threads, RegisterCheck(t)
      PROVE  TypeOK'
  <2>1. pc' \in [Threads -> Holding \cup Outside]
    BY <1>6 DEF RegisterCheck
  <2> QED
    BY <1>6, <2>1 DEF RegisterCheck, event, history
<1>7. ASSUME NEW t \in Threads, RegisterInit(t)
      PROVE  TypeOK'
  BY <1>7 DEF RegisterInit, event, history
<1>8. ASSUME NEW t \in Threads, RegisterGather(t)
      PROVE  TypeOK'
  <2>1. sendBuffers = <<>>
    BY <1>8 DEF RegisterGather, SafeInv, SingleUser, EventClean, Holders
  <2>2. PICK n \in 0..Len(sendQueue) :
          /\ GatherStops(sendQueue, n)
          /\ sendBuffers' = sendBuffers \o SubSeq(sendQueue, 1, n)
          /\ sendQueue' = SubSeq(sendQueue, n + 1, Len(sendQueue))
    BY <1>8 DEF RegisterGather
  <2>3. SubSeq(sendQueue, 1, n) \in Batches /\ sendQueue' \in Seq(Buffers)
    BY <2>2, GatherSplits
  <2>4. sendBuffers' = SubSeq(sendQueue, 1, n)
    BY <2>1, <2>2, <2>3, ConcatEmptySeq DEF Batches
  <2> QED
    BY <1>8, <2>3, <2>4 DEF RegisterGather, event, history
<1>9. ASSUME NEW t \in Threads, PostSend(t)
      PROVE  TypeOK'
  <2>1. sendBuffers \in Seq(Buffers)
    BY DEF Batches
  <2>2. sent' \in Seq(Buffers) /\ posted' \in Seq(Seq(Buffers))
    BY <1>9, <2>1, ConcatProperties DEF PostSend
  <2> QED
    BY <1>9, <2>2 DEF PostSend, event, history
<1>10. ASSUME NEW t \in Threads, PostFail(t)
       PROVE  TypeOK'
  BY <1>10 DEF PostFail, event, history
<1>11. <<>> \in Batches
  BY DEF Batches, Fits
<1>12. ASSUME NEW t \in Threads, FailClear(t)
       PROVE  TypeOK'
  BY <1>11, <1>12 DEF FailClear, event, history
<1>13. ASSUME NEW t \in Threads, FailStore(t)
       PROVE  TypeOK'
  BY <1>13 DEF FailStore, event, history
<1>14. ASSUME NEW t \in Threads, DequeueSend(t)
       PROVE  TypeOK'
  <2>1. posted' \in Seq(Seq(Buffers))
    <3>1. PICK i \in 1..Len(posted) :
            posted' = SubSeq(posted, 1, i - 1) \o SubSeq(posted, i + 1, Len(posted))
      BY <1>14 DEF DequeueSend
    <3>2. /\ SubSeq(posted, 1, i - 1) \in Seq(Seq(Buffers))
          /\ SubSeq(posted, i + 1, Len(posted)) \in Seq(Seq(Buffers))
      BY <3>1, SubSeqProperties, ElementOfSeq
    <3> QED
      BY <3>1, <3>2, ConcatProperties
  <2>2. pc' \in [Threads -> Holding \cup Outside]
    BY <1>14 DEF DequeueSend
  <2> QED
    BY <1>14, <2>1, <2>2 DEF DequeueSend, event, history
<1>15. ASSUME NEW t \in Threads, ProcessSend(t)
       PROVE  TypeOK'
  BY <1>11, <1>15 DEF ProcessSend, event, history
<1>16. ASSUME NEW t \in Threads, ProcessSendZero(t)
       PROVE  TypeOK'
  BY <1>16 DEF ProcessSendZero, event, history
<1>17. ASSUME NEW t \in Threads, ProcessSendCheck(t)
       PROVE  TypeOK'
  BY <1>17 DEF ProcessSendCheck, event, history
<1>18. ASSUME UNCHANGED vars
       PROVE  TypeOK'
  BY <1>18 DEF vars, event, history
<1> QED
  BY <1>1, <1>2, <1>3, <1>4, <1>5, <1>6, <1>7, <1>8, <1>9, <1>10, <1>12, <1>13,
     <1>14, <1>15, <1>16, <1>17, <1>18 DEF Next, Progress
------------------------------------------------------------------------------
(* Safety *)

\* Every step keeps the strengthened safety invariant.
LEMMA SafeStep ==
  ASSUME TypeOK, SafeInv, [Next]_vars
  PROVE  SafeInv'
<1> USE DEF SafeInv, SingleUser, KeptAlive, Untouched, EventClean, OwnerSet,
            FlagFree, FlagHeld, FailSeen, TypeOK, Holders, Holding, Outside, At, Go
<1>1. ASSUME ProcessConnect
      PROVE  SafeInv'
  BY <1>1 DEF ProcessConnect, event, history
<1>2. ASSUME Disconnect
      PROVE  SafeInv'
  BY <1>2 DEF Disconnect, event, history
<1>3. ASSUME NEW t \in Threads, NEW b \in Buffers, SendCheck(t, b)
      PROVE  SafeInv'
  BY <1>3 DEF SendCheck, event, history
<1>4. ASSUME NEW t \in Threads, SendPush(t)
      PROVE  SafeInv'
  BY <1>4 DEF SendPush, event, history
<1>5. ASSUME NEW t \in Threads, SendExchange(t)
      PROVE  SafeInv'
  BY <1>5 DEF SendExchange, event, history
<1>6. ASSUME NEW t \in Threads, RegisterCheck(t)
      PROVE  SafeInv'
  BY <1>6 DEF RegisterCheck, event, history
<1>7. ASSUME NEW t \in Threads, RegisterInit(t)
      PROVE  SafeInv'
  BY <1>7 DEF RegisterInit, event, history
<1>8. ASSUME NEW t \in Threads, RegisterGather(t)
      PROVE  SafeInv'
  BY <1>8 DEF RegisterGather, event, history
<1>9. ASSUME NEW t \in Threads, PostSend(t)
      PROVE  SafeInv'
  BY <1>9 DEF PostSend, event, history
<1>10. ASSUME NEW t \in Threads, PostFail(t)
      PROVE  SafeInv'
  BY <1>10 DEF PostFail, event, history
<1>11. ASSUME NEW t \in Threads, FailClear(t)
      PROVE  SafeInv'
  BY <1>11 DEF FailClear, event, history
<1>12. ASSUME NEW t \in Threads, FailStore(t)
      PROVE  SafeInv'
  <2>1. posted = <<>> /\ \A u \in Threads : pc'[u] \notin Holding
    BY <1>12 DEF FailStore
  <2>11. SingleUser'
    BY <1>12, <2>1 DEF FailStore, event, history
  <2>12. KeptAlive'
    BY <1>12, <2>1 DEF FailStore, event, history
  <2>13. Untouched'
    BY <1>12, <2>1 DEF FailStore, event, history
  <2>14. EventClean'
    BY <1>12, <2>1 DEF FailStore, event, history
  <2>15. OwnerSet'
    BY <1>12, <2>1 DEF FailStore, event, history
  <2>16. FlagFree'
    BY <1>12, <2>1 DEF FailStore, event, history
  <2>17. FlagHeld'
    BY <1>12, <2>1 DEF FailStore, event, history
  <2>18. FailSeen'
    BY <1>12, <2>1 DEF FailStore, event, history
  <2> QED
    BY <2>11, <2>12, <2>13, <2>14, <2>15, <2>16, <2>17, <2>18
<1>13. ASSUME NEW t \in Threads, DequeueSend(t)
      PROVE  SafeInv'
  <2>1. posted' = <<>> /\ posted # <<>>
    BY <1>13 DEF DequeueSend
  <2>2. /\ Len(posted') = 0
        /\ sendRegistered'
        /\ \A u \in Threads : pc'[u] \in Holding => u = t
    BY <1>13, <2>1 DEF DequeueSend
  <2>11. SingleUser'
    BY <2>1, <2>2
  <2>12. KeptAlive'
    BY <2>2
  <2>13. Untouched'
    BY <1>13, <2>1 DEF DequeueSend, event, history
  <2>14. EventClean'
    BY <1>13, <2>1 DEF DequeueSend, event, history
  <2>15. OwnerSet'
    BY <1>13, <2>1 DEF DequeueSend, event, history
  <2>16. FlagFree'
    BY <1>13, <2>1 DEF DequeueSend, event, history
  <2>17. FlagHeld'
    BY <1>13, <2>1 DEF DequeueSend, event, history
  <2>18. FailSeen'
    BY <1>13, <2>1 DEF DequeueSend, event, history
  <2> QED
    BY <2>11, <2>12, <2>13, <2>14, <2>15, <2>16, <2>17, <2>18
<1>14. ASSUME NEW t \in Threads, ProcessSend(t)
      PROVE  SafeInv'
  <2>1. posted = <<>> /\ \A u \in Threads : pc[u] \in Holding => u = t
    BY <1>14 DEF ProcessSend
  <2>11. SingleUser'
    BY <1>14, <2>1 DEF ProcessSend, event, history
  <2>12. KeptAlive'
    BY <1>14, <2>1 DEF ProcessSend, event, history
  <2>13. Untouched'
    BY <1>14, <2>1 DEF ProcessSend, event, history
  <2>14. EventClean'
    BY <1>14, <2>1 DEF ProcessSend, event, history
  <2>15. OwnerSet'
    BY <1>14, <2>1 DEF ProcessSend, event, history
  <2>16. FlagFree'
    BY <1>14, <2>1 DEF ProcessSend, event, history
  <2>17. FlagHeld'
    BY <1>14, <2>1 DEF ProcessSend, event, history
  <2>18. FailSeen'
    BY <1>14, <2>1 DEF ProcessSend, event, history
  <2> QED
    BY <2>11, <2>12, <2>13, <2>14, <2>15, <2>16, <2>17, <2>18
<1>15. ASSUME NEW t \in Threads, ProcessSendZero(t)
      PROVE  SafeInv'
  BY <1>15 DEF ProcessSendZero, event, history
<1>16. ASSUME NEW t \in Threads, ProcessSendCheck(t)
      PROVE  SafeInv'
  <2>1. posted = <<>> /\ \A u \in Threads : pc[u] \in Holding => u = t
    BY <1>16 DEF ProcessSendCheck
  <2>11. SingleUser'
    BY <1>16, <2>1 DEF ProcessSendCheck, event, history
  <2>12. KeptAlive'
    BY <1>16, <2>1 DEF ProcessSendCheck, event, history
  <2>13. Untouched'
    BY <1>16, <2>1 DEF ProcessSendCheck, event, history
  <2>14. EventClean'
    BY <1>16, <2>1 DEF ProcessSendCheck, event, history
  <2>15. OwnerSet'
    BY <1>16, <2>1 DEF ProcessSendCheck, event, history
  <2>16. FlagFree'
    BY <1>16, <2>1 DEF ProcessSendCheck, event, history
  <2>17. FlagHeld'
    BY <1>16, <2>1 DEF ProcessSendCheck, event, history
  <2>18. FailSeen'
    BY <1>16, <2>1 DEF ProcessSendCheck, event, history
  <2> QED
    BY <2>11, <2>12, <2>13, <2>14, <2>15, <2>16, <2>17, <2>18
<1>17. ASSUME UNCHANGED vars
      PROVE  SafeInv'
  BY <1>17 DEF vars, event, history
<1> QED
  BY <1>1, <1>2, <1>3, <1>4, <1>5, <1>6, <1>7, <1>8, <1>9, <1>10, <1>11, <1>12, <1>13, <1>14, <1>15, <1>16, <1>17 DEF Next, Progress
------------------------------------------------------------------------------
(* Order, and the abstract channel *)

LEMMA GatheredType ==
  ASSUME TypeOK
  PROVE  /\ Gathered \in Seq(Buffers)
         /\ sendQueue \in Seq(Buffers)
         /\ Pending \in Seq(Buffers)
<1>1. Gathered \in Seq(Buffers) /\ sendQueue \in Seq(Buffers)
  BY DEF TypeOK, Gathered, Batches
<1> QED
  BY <1>1, ConcatProperties DEF Pending

\* The pending buffers of the next state are the same when no buffer moves.
LEMMA PendingSame ==
  ASSUME UNCHANGED <<sendQueue, sendBuffers>>,
         \A t \in Threads : pc[t] = "post" <=> pc'[t] = "post"
  PROVE  UNCHANGED Pending
  BY DEF Pending, Gathered

\* Gathering moves buffers from the queue to the batch in hand.
LEMMA PendingGather ==
  ASSUME TypeOK, SafeInv, NEW t \in Threads, RegisterGather(t)
  PROVE  UNCHANGED Pending
<1>1. sendBuffers = <<>> /\ Gathered = <<>>
  BY DEF RegisterGather, SafeInv, SingleUser, EventClean, Holders, Holding, At,
         Gathered, TypeOK
<1>2. PICK n \in 0..Len(sendQueue) :
        /\ GatherStops(sendQueue, n)
        /\ sendBuffers' = sendBuffers \o SubSeq(sendQueue, 1, n)
        /\ sendQueue' = SubSeq(sendQueue, n + 1, Len(sendQueue))
  BY DEF RegisterGather
<1>3. sendQueue \in Seq(Buffers)
  BY DEF TypeOK
<1>4. /\ SubSeq(sendQueue, 1, n) \in Batches
      /\ sendQueue = SubSeq(sendQueue, 1, n) \o sendQueue'
  BY <1>2, <1>3, GatherSplits
<1>5. sendBuffers' = SubSeq(sendQueue, 1, n)
  BY <1>1, <1>2, <1>4, ConcatEmptySeq DEF Batches
<1>6. Gathered' = sendBuffers'
  BY DEF RegisterGather, Gathered, Go, TypeOK
<1>7. Pending = sendQueue
  BY <1>1, <1>3, ConcatEmptySeq DEF Pending
<1> QED
  BY <1>4, <1>5, <1>6, <1>7 DEF Pending

\* At WSASend the batch in hand is what the event lists.
LEMMA PendingPost ==
  ASSUME TypeOK, SafeInv, NEW t \in Threads, PostSend(t) \/ PostFail(t)
  PROVE  /\ sendBuffers \in Batches
         /\ Pending = sendBuffers \o sendQueue
         /\ Pending' = sendQueue
<1>1. Gathered = sendBuffers /\ sendBuffers \in Batches
  BY DEF PostSend, PostFail, At, Gathered, TypeOK
<1>2. \A u \in Threads : pc[u] = "post" => u = t
  BY DEF PostSend, PostFail, At, SafeInv, SingleUser, Holders, Holding
<1>3. \A u \in Threads : pc'[u] # "post"
  BY <1>2 DEF PostSend, PostFail, Go, TypeOK
<1>4. Gathered' = <<>> /\ sendQueue' = sendQueue
  BY <1>3 DEF PostSend, PostFail, Gathered
<1>5. sendQueue \in Seq(Buffers)
  BY DEF TypeOK
<1> QED
  BY <1>1, <1>4, <1>5, ConcatEmptySeq DEF Pending

\* One step, seen from the channel: a buffer is pushed, a batch goes to
\* WSASend, or nothing a caller could notice happens.
Submits == \E b \in Buffers : /\ Pending' = Append(Pending, b)
                             /\ accepted' = Append(accepted, b)
                             /\ UNCHANGED <<sent, wsaFailed>>
Posts == \E t \in Threads : PostSend(t) \/ PostFail(t)
Stutters == UNCHANGED <<Pending, accepted, sent, wsaFailed>>

LEMMA ChannelStep ==
  ASSUME TypeOK, SafeInv, [Next]_vars
  PROVE  Submits \/ Posts \/ Stutters
<1> USE DEF TypeOK, At, Go, event, history
<1>1. ASSUME ProcessConnect \/ Disconnect \/ UNCHANGED vars
      PROVE  Stutters
  BY <1>1, PendingSame DEF ProcessConnect, Disconnect, vars, Stutters
<1>2. ASSUME NEW t \in Threads, NEW b \in Buffers, SendCheck(t, b)
      PROVE  Stutters
  BY <1>2, PendingSame DEF SendCheck, Stutters
<1>3. ASSUME NEW t \in Threads, SendPush(t)
      PROVE  Submits
  <2>1. Gathered \in Seq(Buffers) /\ sendQueue \in Seq(Buffers)
    BY GatheredType
  <2>2. PICK b \in Buffers : b = buf[t]
    OBVIOUS
  <2>3. Gathered' = Gathered
    BY <1>3 DEF SendPush, Gathered
  <2>4. Gathered \o Append(sendQueue, b) = Append(Gathered \o sendQueue, b)
    BY <2>1, AppendConcat
  <2>5. /\ sendQueue' = Append(sendQueue, b)
        /\ accepted' = Append(accepted, b)
        /\ UNCHANGED <<sent, wsaFailed>>
    BY <1>3, <2>2 DEF SendPush
  <2> QED
    BY <2>3, <2>4, <2>5 DEF Submits, Pending
<1>4. ASSUME NEW t \in Threads, SendExchange(t) \/ RegisterCheck(t)
      PROVE  Stutters
  BY <1>4, PendingSame DEF SendExchange, RegisterCheck, Stutters
<1>5. ASSUME NEW t \in Threads, RegisterInit(t)
      PROVE  Stutters
  BY <1>5, PendingSame DEF RegisterInit, Stutters
<1>6. ASSUME NEW t \in Threads, RegisterGather(t)
      PROVE  Stutters
  BY <1>6, PendingGather DEF RegisterGather, Stutters
<1>7. ASSUME NEW t \in Threads, PostSend(t) \/ PostFail(t)
      PROVE  Posts
  BY <1>7 DEF Posts
<1>8. ASSUME NEW t \in Threads, FailClear(t) \/ ProcessSend(t)
      PROVE  Stutters
  <2>1. \A u \in Threads : pc[u] # "post" /\ pc'[u] # "post"
    BY <1>8 DEF FailClear, ProcessSend, SafeInv, SingleUser, Holders, Holding
  <2>2. Gathered = <<>> /\ Gathered' = <<>>
    BY <2>1 DEF Gathered
  <2> QED
    BY <1>8, <2>2 DEF FailClear, ProcessSend, Stutters, Pending
<1>9. ASSUME NEW t \in Threads, FailStore(t) \/ DequeueSend(t)
      PROVE  Stutters
  BY <1>9, PendingSame DEF FailStore, DequeueSend, Stutters
<1>10. ASSUME NEW t \in Threads, ProcessSendZero(t) \/ ProcessSendCheck(t)
       PROVE  Stutters
  BY <1>10, PendingSame DEF ProcessSendZero, ProcessSendCheck, Stutters
<1> QED
  BY <1>1, <1>2, <1>3, <1>4, <1>5, <1>6, <1>7, <1>8, <1>9, <1>10
  DEF Next, Progress

\* Every step keeps the order of delivery.
LEMMA OrderStep ==
  ASSUME TypeOK, SafeInv, [Next]_vars, InOrder
  PROVE  InOrder'
<1> USE DEF InOrder
<1>0. sent \in Seq(Buffers) /\ Pending \in Seq(Buffers)
  BY GatheredType DEF TypeOK
<1>1. CASE Submits
  <2>1. PICK b \in Buffers : /\ Pending' = Append(Pending, b)
                             /\ accepted' = Append(accepted, b)
                             /\ UNCHANGED <<sent, wsaFailed>>
    BY <1>1 DEF Submits
  <2>2. sent \o Append(Pending, b) = Append(sent \o Pending, b)
    BY <1>0, AppendConcat
  <2> QED
    BY <2>1, <2>2
<1>2. CASE Posts
  <2>1. PICK t \in Threads : PostSend(t) \/ PostFail(t)
    BY <1>2 DEF Posts
  <2>2. CASE PostFail(t)
    BY <2>2 DEF PostFail
  <2>3. CASE PostSend(t)
    <3>1. /\ sendBuffers \in Seq(Buffers) /\ sendQueue \in Seq(Buffers)
          /\ Pending = sendBuffers \o sendQueue
          /\ Pending' = sendQueue
      BY <2>3, PendingPost DEF Batches, TypeOK
    <3>2. (sent \o sendBuffers) \o sendQueue = sent \o (sendBuffers \o sendQueue)
      <4>1. sent \in Seq(Buffers)
        BY <1>0
      <4>2. sendBuffers \in Seq(Buffers) /\ sendQueue \in Seq(Buffers)
        BY <3>1
      <4> QED
        BY <4>1, <4>2, ConcatAssociative
    <3> QED
      BY <2>3, <3>1, <3>2 DEF PostSend
  <2> QED
    BY <2>1, <2>2, <2>3
<1>3. CASE Stutters
  BY <1>3 DEF Stutters
<1> QED
  BY <1>1, <1>2, <1>3, ChannelStep

------------------------------------------------------------------------------
(* Theorems *)

LEMMA InitHolds == Init => IInv
<1> SUFFICES ASSUME Init PROVE IInv
  OBVIOUS
<1> USE DEF Init
<1>1. TypeOK
  <2>1. <<>> \in Batches
    BY DEF Batches, Fits
  <2>2. pc \in [Threads -> Holding \cup Outside]
    BY DEF Outside
  <2>3. posted \in Seq(Seq(Buffers)) /\ sendQueue \in Seq(Buffers)
    OBVIOUS
  <2> QED
    BY <2>1, <2>2, <2>3 DEF TypeOK
<1>2. SafeInv
  BY DEF SafeInv, SingleUser, KeptAlive, Untouched, EventClean, OwnerSet,
         FlagFree, FlagHeld, FailSeen, Holders, Holding
<1>3. InOrder
  <2>1. Pending = <<>>
    BY ConcatEmptySeq DEF Pending, Gathered
  <2> QED
    BY <2>1, ConcatEmptySeq DEF InOrder
<1> QED
  BY <1>1, <1>2, <1>3 DEF IInv

\* The strengthened invariant holds in every behaviour.
THEOREM Invariance == Spec => []IInv
<1>1. Init => IInv
  BY InitHolds
<1>2. IInv /\ [Next]_vars => IInv'
  BY TypeStep, SafeStep, OrderStep DEF IInv
<1> QED
  BY <1>1, <1>2, PTL DEF Spec

\* Every variable of a session's sending half keeps its type, and no event
\* collects more than MAX_SEND_SIZE bytes.
THEOREM TypeCorrect == Spec => []TypeOK
<1>1. IInv => TypeOK
  BY DEF IInv
<1> QED
  BY <1>1, Invariance, PTL

\* At most one thread, or the OS, uses _sendEvent, under the set flag.
THEOREM SingleUserCorrect == Spec => []SingleUser
<1>1. IInv => SingleUser
  BY DEF IInv, SafeInv
<1> QED
  BY <1>1, Invariance, PTL

\* The session and the buffers of a send outlive it.
THEOREM KeptAliveCorrect == Spec => []KeptAlive
<1>1. IInv => KeptAlive
  BY DEF IInv, SafeInv
<1> QED
  BY <1>1, Invariance, PTL

\* A connected session never sleeps on a queue it could send, unless WSASend
\* refused a batch.
THEOREM NoLostWakeupCorrect == Spec => []NoLostWakeup
<1>1. IInv => NoLostWakeup
  <2> SUFFICES ASSUME IInv, isConnect, ~wsaFailed, sendQueue # <<>>
               PROVE  \/ posted # <<>>
                      \/ \E t \in Threads :
                           pc[t] \in Holding \cup {"exchange", "disconnect"}
    BY DEF NoLostWakeup
  <2>1. CASE sendRegistered
    BY <2>1 DEF IInv, SafeInv, FlagHeld
  <2>2. CASE ~sendRegistered
    BY <2>2 DEF IInv, SafeInv, FlagFree
  <2> QED
    BY <2>1, <2>2
<1> QED
  BY <1>1, Invariance, PTL

\* While no WSASend is refused, buffers reach the OS in the order pushed, each
\* once.
THEOREM InOrderCorrect == Spec => []InOrder
<1>1. IInv => InOrder
  BY DEF IInv
<1> QED
  BY <1>1, Invariance, PTL

\* The sending half of a session implements the outgoing channel.
THEOREM Refinement == Spec => ImplementsChannel
<1>1. Init => Channel!Init
  BY ConcatEmptySeq DEF Init, Channel!Init, Pending, Gathered
<1>2. IInv /\ [Next]_vars => [Channel!Next]_(Channel!vars)
  <2> SUFFICES ASSUME IInv, [Next]_vars
               PROVE  Channel!Next \/ UNCHANGED Channel!vars
    OBVIOUS
  <2>1. TypeOK /\ SafeInv
    BY DEF IInv
  <2>2. CASE Submits
    BY <2>2 DEF Submits, Channel!Next, Channel!Submit
  <2>3. CASE Posts
    <3>1. PICK t \in Threads : PostSend(t) \/ PostFail(t)
      BY <2>3 DEF Posts
    <3>2. /\ sendBuffers \in Batches
          /\ Pending = sendBuffers \o sendQueue
          /\ Pending' = sendQueue
      BY <2>1, <3>1, PendingPost
    <3>3. sendBuffers \in Seq(Buffers) /\ sendQueue \in Seq(Buffers)
      BY <2>1, <3>2 DEF Batches, TypeOK
    <3>4. /\ Len(sendBuffers) \in 0..Len(Pending)
          /\ SubSeq(Pending, 1, Len(sendBuffers)) = sendBuffers
          /\ SubSeq(Pending, Len(sendBuffers) + 1, Len(Pending)) = sendQueue
      BY <3>2, <3>3, CutConcat
    <3>5. CASE PostSend(t)
      <4>1. Channel!Transmit(sendBuffers, sendQueue)
        BY <3>2, <3>5 DEF PostSend, Channel!Transmit
      <4> QED
        BY <3>2, <3>4, <4>1 DEF Channel!Next
    <3>6. CASE PostFail(t)
      <4>1. Channel!Lose(sendBuffers, sendQueue)
        BY <3>2, <3>6 DEF PostFail, Channel!Lose
      <4> QED
        BY <3>2, <3>4, <4>1 DEF Channel!Next
    <3> QED
      BY <3>1, <3>5, <3>6
  <2>4. CASE Stutters
    BY <2>4 DEF Stutters, Channel!vars
  <2> QED
    BY <2>1, <2>2, <2>3, <2>4, ChannelStep
<1> QED
  BY <1>1, <1>2, Invariance, PTL DEF Spec, ImplementsChannel, Channel!Spec
==============================================================================
