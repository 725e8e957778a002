-------------------------- MODULE ClientSendProofs --------------------------
(***************************************************************************)
(* Proofs about ClientSend, for any threads, buffers and lists.            *)
(*                                                                         *)
(* What keeps _sendArgs to one user is not the list that Send tests alone: *)
(* once Clear has emptied it, it is _disconnected, which Disconnect sets   *)
(* before and RegisterSend tests in the same lock.                         *)
(***************************************************************************)
EXTENDS ClientSend, SequenceTheorems, FiniteSetTheorems, TLAPS

(* Sequences *)

\* The two parts of a concatenation, cut apart again.
LEMMA CutConcat ==
  ASSUME NEW S, NEW a \in Seq(S), NEW b \in Seq(S)
  PROVE  /\ Len(a) \in 0..Len(a \o b)
         /\ SubSeq(a \o b, 1, Len(a)) = a
         /\ SubSeq(a \o b, Len(a) + 1, Len(a \o b)) = b
  BY SMT

------------------------------------------------------------------------------

\* _sendArgs has one user, a thread or the runtime.
Exclusive ==
  /\ \A a, b \in Users : a = b
  /\ Users # {} => inFlight = <<>>

\* In a connected session the list tells that it is taken.
Taken == ~disconnected /\ (Users # {} \/ inFlight # <<>>) => pendingList # <<>>

\* Who registers a send has something to send, and an empty list to put it in.
Registering ==
  \A t \in Threads : At(t, "register") =>
    /\ pendingList = <<>> /\ sendQueue # <<>>
    /\ ~disconnected => Users = {} /\ inFlight = <<>>

\* Who calls SendAsync has not given the list away yet.
Sending == \A t \in Threads : At(t, "sendAsync") => pendingList # <<>> /\ ~handed

\* The list that a completion is about was given away, unless Clear has emptied it.
Given ==
  /\ handed => pendingList # <<>>
  /\ inFlight # <<>> \/ (\E t \in Threads : At(t, "sent"))
       => handed \/ (pendingList = <<>> /\ disconnected)

\* Past the exchange of _disconnected there is one thread, which closes the socket.
Closing ==
  /\ ~disconnected => socket = "open"
  /\ \A t \in Threads : pc[t] \in {"shutdown", "close", "clear"} => disconnected
  /\ \A a, b \in Threads :
       /\ pc[a] \in {"shutdown", "close", "clear"}
       /\ pc[b] \in {"shutdown", "close", "clear"}
       => a = b
  /\ \A t \in Threads : /\ At(t, "shutdown") => socket = "open"
                        /\ At(t, "clear") => socket = "closed"

\* The runtime sends what the list has, until the socket is closed.
SameList == inFlight # <<>> /\ socket # "closed" => pendingList = inFlight

\* Somebody will look at what waits, and at the list when it is taken.
Attended ==
  /\ inFlight # <<>> /\ stage # "attached" => early
  /\ (pendingList # <<>> \/ sendQueue # <<>>) /\ ~disconnected /\ ~early =>
       \/ inFlight # <<>> \/ Users # {}
       \/ \E t \in Threads : At(t, "register") \/ At(t, "disconnect")

IInv ==
  /\ TypeOK /\ Exclusive /\ Taken /\ Registering /\ Sending /\ Given
  /\ Closing /\ SameList /\ Attended

Places == {"idle", "register", "sendAsync", "sent", "failed",
           "disconnect", "shutdown", "close", "clear"}

\* Where everybody is after thread t has moved.
LEMMA Moves ==
  ASSUME TypeOK, NEW t \in Threads, NEW there \in Places, Go(t, there)
  PROVE  /\ \A b \in Threads : pc'[b] = IF b = t THEN there ELSE pc[b]
         /\ pc' \in [Threads -> Places]
BY DEF TypeOK, Go, Places

\* A thread that leaves the lock leaves it to nobody else's harm.
LEMMA Leaves ==
  ASSUME TypeOK, NEW t \in Threads, Leave(t)
  PROVE  /\ \A b \in Threads : pc'[b] = IF b = t THEN "idle" ELSE pc[b]
         /\ pc' \in [Threads -> Places]
         /\ lock' \in Threads \cup {None}
         /\ \A b \in Threads : b # t /\ lock = b => lock' = b
BY SendAssumption DEF TypeOK, Leave, Go, Places

\* Whoever takes the lock finds nobody else where it is held.
LEMMA Alone ==
  ASSUME TypeOK, NEW t \in Threads, lock \in {None, t}
  PROVE  \A b \in Threads : b # t => ~At(b, "register") /\ ~At(b, "sendAsync")
BY SendAssumption DEF TypeOK

LEMMA InitIInv == Init => IInv
<1> SUFFICES ASSUME Init
             PROVE  IInv
  OBVIOUS
<1>1. Users = {} /\ \A t \in Threads : pc[t] = "idle"
  BY DEF Init, Users, At
<1>2. TypeOK
  <2>1. <<>> \in Seq(Buffers) /\ 0 \in 0..MaxSends
    BY SendAssumption
  <2> QED
    BY <1>1, <2>1 DEF Init, TypeOK, At
<1>3. Exclusive /\ Taken /\ Registering /\ Sending /\ Given
  BY <1>1 DEF Init, Exclusive, Taken, Registering, Sending, Given, At
<1>4. Closing /\ SameList /\ Attended
  BY <1>1 DEF Init, Closing, SameList, Attended, At
<1> QED
  BY <1>2, <1>3, <1>4 DEF IInv

------------------------------------------------------------------------------
(* The invariant is kept *)

\* What Send is called with.
LEMMA SendFacts ==
  ASSUME TypeOK, NEW bs \in SendLists, accepted + Len(bs) <= MaxSends
  PROVE  /\ bs \in Seq(Buffers) /\ bs # <<>>
         /\ sendQueue \o bs \in Seq(Buffers) /\ sendQueue \o bs # <<>>
         /\ accepted + Len(bs) \in 0..MaxSends
<1>1. bs \in Seq(Buffers) /\ bs # <<>> /\ sendQueue \in Seq(Buffers) /\ accepted \in Nat
  BY SendAssumption DEF TypeOK
<1>2. Len(bs) \in Nat /\ Len(bs) > 0 /\ Len(sendQueue) \in Nat
  BY <1>1
<1>3. sendQueue \o bs \in Seq(Buffers) /\ Len(sendQueue \o bs) = Len(sendQueue) + Len(bs)
  BY <1>1
<1>4. sendQueue \o bs # <<>>
  BY <1>2, <1>3
<1>5. accepted + Len(bs) \in 0..MaxSends
  BY <1>1, <1>2, SendAssumption
<1> QED
  BY <1>1, <1>3, <1>4, <1>5

LEMMA SentMoves ==
  ASSUME TypeOK, NEW t \in Threads, Sent(t)
  PROVE  /\ \A b \in Threads :
              pc'[b] = IF b # t THEN pc[b] ELSE IF sendQueue # <<>> THEN "register" ELSE "idle"
         /\ pc' \in [Threads -> Places]
         /\ lock' \in Threads \cup {None}
         /\ \A b \in Threads : b # t /\ lock = b => lock' = b
         /\ sendQueue # <<>> => lock' = t
<1>1. lock \in {None, t}
  BY DEF Sent
<1>2. CASE sendQueue # <<>>
  <2>1. Go(t, "register") /\ lock' = t
    BY <1>2 DEF Sent
  <2> QED
    BY <1>1, <1>2, <2>1, Moves, SendAssumption DEF Places
<1>3. CASE sendQueue = <<>>
  <2>1. Leave(t)
    BY <1>3 DEF Sent
  <2> QED
    BY <1>3, <2>1, Leaves
<1> QED
  BY <1>2, <1>3

LEMMA EmptyFirst ==
  ASSUME NEW q \in Seq(Buffers)
  PROVE  <<>> \o q = q /\ q \o <<>> = q
BY ConcatEmptySeq

\* Start goes on.
LEMMA StartStep ==
  ASSUME IInv, Start
  PROVE  IInv'
<1>1. TypeOK /\ Exclusive /\ Taken /\ Registering
      /\ Sending /\ Given /\ Closing /\ SameList /\ Attended
  BY DEF IInv
<1>2. /\ stage # "attached" /\ stage' \in {"socket", "attached"}
      /\ UNCHANGED <<gone, disconnected, socket, lock, sendQueue, pendingList, inFlight,
                     pc,
                    accepted, handed, early, sent>>
  BY <1>1
     DEF Start, lists, history
<1>3. TypeOK'
  <2>1. pc' \in [Threads -> Places] /\ lock' \in Threads \cup {None}
    BY <1>1, <1>2 DEF TypeOK, Places
  <2>2. \A b \in Threads : pc'[b] = "register" \/ pc'[b] = "sendAsync" => lock' = b
    BY <1>1, <1>2 DEF TypeOK, At
  <2>3. /\ sendQueue' \in Seq(Buffers) /\ pendingList' \in Seq(Buffers)
        /\ inFlight' \in Seq(Buffers)
    BY <1>1, <1>2 DEF TypeOK, lists
  <2> QED
    BY <1>1, <1>2, <2>1, <2>2, <2>3 DEF TypeOK, Places, At
<1>4. Exclusive' /\ Taken'
  BY <1>1, <1>2 DEF Exclusive, Taken, Users, At
<1>5. Registering' /\ Sending' /\ Given'
  BY <1>1, <1>2 DEF Registering, Sending, Given, Users, At
<1>6. Closing' /\ SameList'
  BY <1>1, <1>2 DEF Closing, SameList, At
<1>7. Attended'
  BY <1>1, <1>2 DEF Attended, Users, At
<1> QED
  BY <1>3, <1>4, <1>5, <1>6, <1>7 DEF IInv

\* The peer goes.
LEMMA ConnectionEndsStep ==
  ASSUME IInv, ConnectionEnds
  PROVE  IInv'
<1>1. TypeOK /\ Exclusive /\ Taken /\ Registering
      /\ Sending /\ Given /\ Closing /\ SameList /\ Attended
  BY DEF IInv
<1>2. /\ gone' = TRUE
      /\ UNCHANGED <<stage, disconnected, socket, lock, sendQueue, pendingList, inFlight,
                     pc,
                    accepted, handed, early, sent>>
  BY <1>1
     DEF ConnectionEnds, lists, history
<1>3. TypeOK'
  <2>1. pc' \in [Threads -> Places] /\ lock' \in Threads \cup {None}
    BY <1>1, <1>2 DEF TypeOK, Places
  <2>2. \A b \in Threads : pc'[b] = "register" \/ pc'[b] = "sendAsync" => lock' = b
    BY <1>1, <1>2 DEF TypeOK, At
  <2>3. /\ sendQueue' \in Seq(Buffers) /\ pendingList' \in Seq(Buffers)
        /\ inFlight' \in Seq(Buffers)
    BY <1>1, <1>2 DEF TypeOK, lists
  <2> QED
    BY <1>1, <1>2, <2>1, <2>2, <2>3 DEF TypeOK, Places, At
<1>4. Exclusive' /\ Taken'
  BY <1>1, <1>2 DEF Exclusive, Taken, Users, At
<1>5. Registering' /\ Sending' /\ Given'
  BY <1>1, <1>2 DEF Registering, Sending, Given, Users, At
<1>6. Closing' /\ SameList'
  BY <1>1, <1>2 DEF Closing, SameList, At
<1>7. Attended'
  BY <1>1, <1>2 DEF Attended, Users, At
<1> QED
  BY <1>3, <1>4, <1>5, <1>6, <1>7 DEF IInv

\* What is queued is registered by this thread, unless the list is taken.
LEMMA SendStep ==
  ASSUME IInv, NEW t \in Threads, NEW bs \in SendLists, Send(t, bs)
  PROVE  IInv'
<1>1. TypeOK /\ Exclusive /\ Taken /\ Registering
      /\ Sending /\ Given /\ Closing /\ SameList /\ Attended
  BY DEF IInv
<1>2. /\ pc[t] = "idle" /\ lock = None /\ sendQueue' = sendQueue \o bs
      /\ sendQueue' \in Seq(Buffers) /\ sendQueue' # <<>> /\ accepted' \in 0..MaxSends
      /\ \A b \in Threads :
           pc'[b] = IF b # t THEN pc[b] ELSE IF pendingList = <<>> THEN "register" ELSE "idle"
      /\ pc' \in [Threads -> Places]
      /\ lock' = IF pendingList = <<>> THEN t ELSE lock
      /\ UNCHANGED <<stage, gone, disconnected, socket, pendingList, inFlight, handed,
                     early, sent>>
  BY <1>1, SendFacts, Moves DEF Send, At, connection, Places, TypeOK
<1>3. TypeOK'
  <2>1. pc' \in [Threads -> Places] /\ lock' \in Threads \cup {None}
    BY <1>1, <1>2 DEF TypeOK, Places
  <2>2. \A b \in Threads : pc'[b] = "register" \/ pc'[b] = "sendAsync" => lock' = b
    BY <1>1, <1>2, Alone DEF TypeOK, At
  <2>3. /\ sendQueue' \in Seq(Buffers) /\ pendingList' \in Seq(Buffers)
        /\ inFlight' \in Seq(Buffers)
    BY <1>1, <1>2 DEF TypeOK, lists
  <2> QED
    BY <1>1, <1>2, <2>1, <2>2, <2>3 DEF TypeOK, Places, At
<1>4. Exclusive' /\ Taken'
  BY <1>1, <1>2 DEF Exclusive, Taken, Users, At
<1>5. Registering' /\ Sending' /\ Given'
  BY <1>1, <1>2 DEF Taken, Registering, Sending, Given, Users, At
<1>6. Closing' /\ SameList'
  BY <1>1, <1>2 DEF Closing, SameList, At
<1>7. Attended'
  <2>1. CASE pendingList = <<>>
    BY <1>1, <1>2, <2>1 DEF Attended, At
  <2>2. CASE pendingList # <<>>
    <3>1. \A b \in Threads : pc'[b] = pc[b]
      BY <1>2, <2>2
    <3>2. Users' = Users
      BY <3>1 DEF Users, At
    <3> QED
      BY <1>1, <1>2, <2>2, <3>1, <3>2 DEF Attended, At
  <2> QED
    BY <2>1, <2>2
<1> QED
  BY <1>3, <1>4, <1>5, <1>6, <1>7 DEF IInv

\* The queue goes to the empty list, unless the session is disconnected.
LEMMA RegisterSendStep ==
  ASSUME IInv, NEW t \in Threads, RegisterSend(t)
  PROVE  IInv'
<1>1. TypeOK /\ Exclusive /\ Taken /\ Registering
      /\ Sending /\ Given /\ Closing /\ SameList /\ Attended
  BY DEF IInv
<1>2. /\ pc[t] = "register" /\ lock = t
      /\ \A b \in Threads :
           pc'[b] = IF b # t THEN pc[b] ELSE IF disconnected THEN "idle" ELSE "sendAsync"
      /\ pc' \in [Threads -> Places]
      /\ lock' \in Threads \cup {None}
      /\ \A b \in Threads : b # t /\ lock = b => lock' = b
      /\ ~disconnected => lock' = lock
      /\ IF disconnected THEN UNCHANGED lists
                         ELSE pendingList' = sendQueue /\ sendQueue' = <<>>
      /\ UNCHANGED <<stage, gone, disconnected, socket, inFlight, accepted, handed,
                     early, sent>>
  <2>1. pc[t] = "register" /\ lock = t /\ pendingList = <<>> /\ sendQueue \in Seq(Buffers)
    BY <1>1 DEF RegisterSend, Registering, At, TypeOK
  <2>2. UNCHANGED <<stage, gone, disconnected, socket, inFlight, accepted, handed, early,
                    sent>>
    BY DEF RegisterSend, connection, history
  <2>3. CASE disconnected
    <3>1. Leave(t) /\ UNCHANGED lists
      BY <2>3 DEF RegisterSend
    <3> QED
      BY <1>1, <2>1, <2>2, <2>3, <3>1, Leaves
  <2>4. CASE ~disconnected
    <3>1. /\ Go(t, "sendAsync") /\ lock' = lock
          /\ pendingList' = sendQueue /\ sendQueue' = <<>>
      BY <2>1, <2>4, EmptyFirst DEF RegisterSend
    <3>2. lock \in Threads \cup {None}
      BY <1>1 DEF TypeOK
    <3> QED
      BY <1>1, <2>1, <2>2, <2>4, <3>1, <3>2, Moves DEF Places
  <2> QED
    BY <2>3, <2>4
<1>3. TypeOK'
  <2>1. pc' \in [Threads -> Places] /\ lock' \in Threads \cup {None}
    BY <1>1, <1>2 DEF TypeOK, Places
  <2>2. \A b \in Threads : pc'[b] = "register" \/ pc'[b] = "sendAsync" => lock' = b
    BY <1>1, <1>2 DEF TypeOK, At
  <2>3. /\ sendQueue' \in Seq(Buffers) /\ pendingList' \in Seq(Buffers)
        /\ inFlight' \in Seq(Buffers)
    <3>1. <<>> \in Seq(Buffers)
      OBVIOUS
    <3>2. CASE disconnected
      BY <1>1, <1>2, <3>2 DEF TypeOK, lists
    <3>3. CASE ~disconnected
      BY <1>1, <1>2, <3>1, <3>3 DEF TypeOK
    <3> QED
      BY <3>2, <3>3
  <2> QED
    BY <1>1, <1>2, <2>1, <2>2, <2>3 DEF TypeOK, Places, At
<1>4. Exclusive' /\ Taken'
  BY <1>1, <1>2 DEF Exclusive, Taken, Registering, Users, At
<1>5. Registering' /\ Sending' /\ Given'
  <2>1. \A b \in Threads : b # t => ~At(b, "register") /\ ~At(b, "sendAsync")
    BY <1>1, <1>2, Alone
  <2>2. CASE disconnected
    BY <1>1, <1>2, <2>1, <2>2 DEF Registering, Sending, Given, At, lists
  <2>3. CASE ~disconnected
    <3>1. Users = {} /\ inFlight = <<>> /\ sendQueue # <<>> /\ pendingList = <<>> /\ ~handed
      BY <1>1, <1>2, <2>3 DEF Registering, Given, At
    <3>2. Registering' /\ Sending'
      BY <1>2, <2>1, <2>3, <3>1 DEF Registering, Sending, At
    <3>3. ~(\E b \in Threads : At(b, "sent"))'
      BY <1>2, <2>3, <3>1 DEF Users, At
    <3>4. Given'
      BY <1>2, <3>1, <3>3 DEF Given
    <3> QED
      BY <3>2, <3>4
  <2> QED
    BY <2>2, <2>3
<1>6. Closing' /\ SameList'
  BY <1>1, <1>2 DEF Registering, Closing, SameList, At
<1>7. Attended'
  BY <1>1, <1>2 DEF Attended, Users, At
<1> QED
  BY <1>3, <1>4, <1>5, <1>6, <1>7 DEF IInv

\* SendAsync throws only before Start is done, or on a closed socket.
LEMMA SendAsyncThrowsStep ==
  ASSUME IInv, NEW t \in Threads, SendAsyncThrows(t)
  PROVE  IInv'
<1>1. TypeOK /\ Exclusive /\ Taken /\ Registering
      /\ Sending /\ Given /\ Closing /\ SameList /\ Attended
  BY DEF IInv
<1>2. /\ pc[t] = "sendAsync" /\ lock = t /\ (stage = "null" \/ socket = "closed")
      /\ \A b \in Threads : pc'[b] = IF b = t THEN "idle" ELSE pc[b]
      /\ pc' \in [Threads -> Places]
      /\ lock' \in Threads \cup {None}
      /\ \A b \in Threads : b # t /\ lock = b => lock' = b
      /\ early' = (early \/ stage # "attached")
      /\ UNCHANGED <<stage, gone, disconnected, socket, sendQueue, pendingList, inFlight,
                     accepted, handed, sent>>
  BY <1>1, Leaves DEF SendAsyncThrows, At, connection, lists, TypeOK
<1>3. TypeOK'
  <2>1. pc' \in [Threads -> Places] /\ lock' \in Threads \cup {None}
    BY <1>1, <1>2 DEF TypeOK, Places
  <2>2. \A b \in Threads : pc'[b] = "register" \/ pc'[b] = "sendAsync" => lock' = b
    BY <1>1, <1>2 DEF TypeOK, At
  <2>3. /\ sendQueue' \in Seq(Buffers) /\ pendingList' \in Seq(Buffers)
        /\ inFlight' \in Seq(Buffers)
    BY <1>1, <1>2 DEF TypeOK, lists
  <2> QED
    BY <1>1, <1>2, <2>1, <2>2, <2>3 DEF TypeOK, Places, At
<1>4. Exclusive' /\ Taken'
  BY <1>1, <1>2 DEF Exclusive, Taken, Users, At
<1>5. Registering' /\ Sending' /\ Given'
  BY <1>1, <1>2 DEF Registering, Sending, Given, Users, At
<1>6. Closing' /\ SameList'
  BY <1>1, <1>2 DEF Closing, SameList, At
<1>7. Attended'
  BY <1>1, <1>2 DEF Closing, Attended
<1> QED
  BY <1>3, <1>4, <1>5, <1>6, <1>7 DEF IInv

\* The runtime takes over from the thread.
LEMMA SendAsyncPendingStep ==
  ASSUME IInv, NEW t \in Threads, SendAsyncPending(t)
  PROVE  IInv'
<1>1. TypeOK /\ Exclusive /\ Taken /\ Registering
      /\ Sending /\ Given /\ Closing /\ SameList /\ Attended
  BY DEF IInv
<1>2. /\ pc[t] = "sendAsync" /\ lock = t /\ socket = "open"
      /\ \A b \in Threads : pc'[b] = IF b = t THEN "idle" ELSE pc[b]
      /\ pc' \in [Threads -> Places]
      /\ lock' \in Threads \cup {None}
      /\ \A b \in Threads : b # t /\ lock = b => lock' = b
      /\ inFlight' = pendingList /\ handed' = TRUE /\ early' = (early \/ stage # "attached")
      /\ sent' \in Seq(Buffers)
      /\ UNCHANGED <<stage, gone, disconnected, socket, sendQueue, pendingList, accepted>>
  BY <1>1, Leaves DEF SendAsyncPending, HandOver, At, connection, lists, TypeOK
<1>3. TypeOK'
  <2>1. pc' \in [Threads -> Places] /\ lock' \in Threads \cup {None}
    BY <1>1, <1>2 DEF TypeOK, Places
  <2>2. \A b \in Threads : pc'[b] = "register" \/ pc'[b] = "sendAsync" => lock' = b
    BY <1>1, <1>2 DEF TypeOK, At
  <2>3. /\ sendQueue' \in Seq(Buffers) /\ pendingList' \in Seq(Buffers)
        /\ inFlight' \in Seq(Buffers)
    BY <1>1, <1>2 DEF TypeOK, lists
  <2> QED
    BY <1>1, <1>2, <2>1, <2>2, <2>3 DEF TypeOK, Places, At
<1>4. Exclusive' /\ Taken'
  <2>1. t \in Users
    BY <1>2 DEF Users, At
  <2>2. Users' = {}
    <3>1. \A b \in Threads : b \in Users => b = t
      BY <1>1, <2>1 DEF Exclusive
    <3> QED
      BY <1>2, <3>1 DEF Users, At
  <2>3. pendingList # <<>>
    BY <1>1, <1>2 DEF Sending, At
  <2> QED
    BY <1>2, <2>2, <2>3 DEF Exclusive, Taken
<1>5. Registering' /\ Sending' /\ Given'
  BY <1>1, <1>2 DEF TypeOK, Registering, Sending, Given, At
<1>6. Closing' /\ SameList'
  BY <1>1, <1>2 DEF Closing, SameList, At
<1>7. Attended'
  BY <1>1, <1>2 DEF Taken, Attended, At
<1> QED
  BY <1>3, <1>4, <1>5, <1>6, <1>7 DEF IInv

\* The thread goes on as the user.
LEMMA SendAsyncDoneStep ==
  ASSUME IInv, NEW t \in Threads, SendAsyncDone(t)
  PROVE  IInv'
<1>1. TypeOK /\ Exclusive /\ Taken /\ Registering
      /\ Sending /\ Given /\ Closing /\ SameList /\ Attended
  BY DEF IInv
<1>2. /\ pc[t] = "sendAsync" /\ lock = t
      /\ \E o \in {"sent", "failed"} :
           /\ \A b \in Threads : pc'[b] = IF b = t THEN o ELSE pc[b]
           /\ pc' \in [Threads -> Places]
      /\ handed' = TRUE /\ sent' \in Seq(Buffers)
      /\ UNCHANGED <<stage, gone, disconnected, socket, lock, sendQueue, pendingList,
                     inFlight, accepted, early>>
  BY <1>1, Moves DEF SendAsyncDone, HandOver, Outcomes, At, connection, lists, TypeOK,
     Places
<1>3. TypeOK'
  <2>1. pc' \in [Threads -> Places] /\ lock' \in Threads \cup {None}
    BY <1>1, <1>2 DEF TypeOK, Places
  <2>2. \A b \in Threads : pc'[b] = "register" \/ pc'[b] = "sendAsync" => lock' = b
    BY <1>1, <1>2 DEF TypeOK, At
  <2>3. /\ sendQueue' \in Seq(Buffers) /\ pendingList' \in Seq(Buffers)
        /\ inFlight' \in Seq(Buffers)
    BY <1>1, <1>2 DEF TypeOK, lists
  <2> QED
    BY <1>1, <1>2, <2>1, <2>2, <2>3 DEF TypeOK, Places, At
<1>4. Exclusive' /\ Taken'
  BY <1>1, <1>2 DEF Exclusive, Taken, Users, At
<1>5. Registering' /\ Sending' /\ Given'
  BY <1>1, <1>2 DEF TypeOK, Registering, Sending, Given, At
<1>6. Closing' /\ SameList'
  BY <1>1, <1>2 DEF Closing, SameList, At
<1>7. Attended'
  BY <1>1, <1>2 DEF Attended, Users, At
<1> QED
  BY <1>3, <1>4, <1>5, <1>6, <1>7 DEF IInv

\* A thread takes over from the runtime.
LEMMA CompleteStep ==
  ASSUME IInv, NEW t \in Threads, Complete(t)
  PROVE  IInv'
<1>1. TypeOK /\ Exclusive /\ Taken /\ Registering
      /\ Sending /\ Given /\ Closing /\ SameList /\ Attended
  BY DEF IInv
<1>2. /\ pc[t] = "idle" /\ inFlight # <<>> /\ inFlight' = <<>>
      /\ \E o \in {"idle", "sent", "failed"} :
           /\ stage = "attached" => o # "idle"
           /\ \A b \in Threads : pc'[b] = IF b = t THEN o ELSE pc[b]
           /\ pc' \in [Threads -> Places]
      /\ UNCHANGED <<stage, gone, disconnected, socket, lock, sendQueue, pendingList,
                     accepted, handed, early, sent>>
  BY <1>1, Moves DEF Complete, Outcomes, At, connection, lists, history, TypeOK, Places
<1>3. TypeOK'
  <2>1. pc' \in [Threads -> Places] /\ lock' \in Threads \cup {None}
    BY <1>1, <1>2 DEF TypeOK, Places
  <2>2. \A b \in Threads : pc'[b] = "register" \/ pc'[b] = "sendAsync" => lock' = b
    BY <1>1, <1>2 DEF TypeOK, At
  <2>3. /\ sendQueue' \in Seq(Buffers) /\ pendingList' \in Seq(Buffers)
        /\ inFlight' \in Seq(Buffers)
    BY <1>1, <1>2 DEF TypeOK, lists
  <2> QED
    BY <1>1, <1>2, <2>1, <2>2, <2>3 DEF TypeOK, Places, At
<1>4. Exclusive' /\ Taken'
  BY <1>1, <1>2 DEF Exclusive, Taken, Users, At
<1>5. Registering' /\ Sending' /\ Given'
  BY <1>1, <1>2 DEF Registering, Sending, Given, At
<1>6. Closing' /\ SameList'
  BY <1>1, <1>2 DEF Closing, SameList, At
<1>7. Attended'
  BY <1>1, <1>2 DEF Attended, Users, At
<1> QED
  BY <1>3, <1>4, <1>5, <1>6, <1>7 DEF IInv

\* The user has done; what was queued meanwhile is registered.
LEMMA SentStep ==
  ASSUME IInv, NEW t \in Threads, Sent(t)
  PROVE  IInv'
<1>1. TypeOK /\ Exclusive /\ Taken /\ Registering
      /\ Sending /\ Given /\ Closing /\ SameList /\ Attended
  BY DEF IInv
<1>2. /\ pc[t] = "sent" /\ lock \in {None, t} /\ pendingList' = <<>> /\ handed' = FALSE
      /\ \A b \in Threads :
           pc'[b] = IF b # t THEN pc[b] ELSE IF sendQueue # <<>> THEN "register" ELSE "idle"
      /\ pc' \in [Threads -> Places]
      /\ lock' \in Threads \cup {None}
      /\ \A b \in Threads : b # t /\ lock = b => lock' = b
      /\ sendQueue # <<>> => lock' = t
      /\ UNCHANGED <<stage, gone, disconnected, socket, sendQueue, inFlight, accepted,
                     early, sent>>
  BY <1>1, SentMoves DEF Sent, At, connection, TypeOK, Places
<1>3. TypeOK'
  <2>1. pc' \in [Threads -> Places] /\ lock' \in Threads \cup {None}
    BY <1>1, <1>2 DEF TypeOK, Places
  <2>2. \A b \in Threads : pc'[b] = "register" \/ pc'[b] = "sendAsync" => lock' = b
    BY <1>1, <1>2, Alone DEF TypeOK, At
  <2>3. /\ sendQueue' \in Seq(Buffers) /\ pendingList' \in Seq(Buffers)
        /\ inFlight' \in Seq(Buffers)
    BY <1>1, <1>2 DEF TypeOK, lists
  <2> QED
    BY <1>1, <1>2, <2>1, <2>2, <2>3 DEF TypeOK, Places, At
<1>4. Exclusive' /\ Taken'
  BY <1>1, <1>2 DEF Exclusive, Taken, Given, Closing, Users, At
<1>5. Registering' /\ Sending' /\ Given'
  BY <1>1, <1>2 DEF Exclusive, Registering, Sending, Given, Closing, Users, At
<1>6. Closing' /\ SameList'
  BY <1>1, <1>2 DEF Exclusive, Closing, SameList, Users, At
<1>7. Attended'
  BY <1>1, <1>2 DEF Attended, At
<1> QED
  BY <1>3, <1>4, <1>5, <1>6, <1>7 DEF IInv

\* The user has done, and disconnects.
LEMMA FailedStep ==
  ASSUME IInv, NEW t \in Threads, Failed(t)
  PROVE  IInv'
<1>1. TypeOK /\ Exclusive /\ Taken /\ Registering
      /\ Sending /\ Given /\ Closing /\ SameList /\ Attended
  BY DEF IInv
<1>2. /\ pc[t] = "failed" /\ lock \in {None, t} /\ lock' = t
      /\ \A b \in Threads : pc'[b] = IF b = t THEN "disconnect" ELSE pc[b]
      /\ pc' \in [Threads -> Places]
      /\ UNCHANGED <<stage, gone, disconnected, socket, sendQueue, pendingList, inFlight,
                     accepted, handed, early, sent>>
  BY <1>1, Moves DEF Failed, At, connection, lists, history, TypeOK, Places
<1>3. TypeOK'
  <2>1. pc' \in [Threads -> Places] /\ lock' \in Threads \cup {None}
    BY <1>1, <1>2 DEF TypeOK, Places
  <2>2. \A b \in Threads : pc'[b] = "register" \/ pc'[b] = "sendAsync" => lock' = b
    BY <1>1, <1>2, Alone DEF TypeOK, At
  <2>3. /\ sendQueue' \in Seq(Buffers) /\ pendingList' \in Seq(Buffers)
        /\ inFlight' \in Seq(Buffers)
    BY <1>1, <1>2 DEF TypeOK, lists
  <2> QED
    BY <1>1, <1>2, <2>1, <2>2, <2>3 DEF TypeOK, Places, At
<1>4. Exclusive' /\ Taken'
  BY <1>1, <1>2 DEF Exclusive, Taken, Users, At
<1>5. Registering' /\ Sending' /\ Given'
  BY <1>1, <1>2 DEF Registering, Sending, Given, Users, At
<1>6. Closing' /\ SameList'
  BY <1>1, <1>2 DEF Closing, SameList, At
<1>7. Attended'
  BY <1>1, <1>2 DEF Attended, At
<1> QED
  BY <1>3, <1>4, <1>5, <1>6, <1>7 DEF IInv

\* Anybody may disconnect.
LEMMA CallDisconnectStep ==
  ASSUME IInv, NEW t \in Threads, CallDisconnect(t)
  PROVE  IInv'
<1>1. TypeOK /\ Exclusive /\ Taken /\ Registering
      /\ Sending /\ Given /\ Closing /\ SameList /\ Attended
  BY DEF IInv
<1>2. /\ pc[t] = "idle"
      /\ \A b \in Threads : pc'[b] = IF b = t THEN "disconnect" ELSE pc[b]
      /\ pc' \in [Threads -> Places]
      /\ UNCHANGED <<stage, gone, disconnected, socket, lock, sendQueue, pendingList,
                     inFlight, accepted, handed, early, sent>>
  BY <1>1, Moves DEF CallDisconnect, At, connection, lists, history, TypeOK, Places
<1>3. TypeOK'
  <2>1. pc' \in [Threads -> Places] /\ lock' \in Threads \cup {None}
    BY <1>1, <1>2 DEF TypeOK, Places
  <2>2. \A b \in Threads : pc'[b] = "register" \/ pc'[b] = "sendAsync" => lock' = b
    BY <1>1, <1>2 DEF TypeOK, At
  <2>3. /\ sendQueue' \in Seq(Buffers) /\ pendingList' \in Seq(Buffers)
        /\ inFlight' \in Seq(Buffers)
    BY <1>1, <1>2 DEF TypeOK, lists
  <2> QED
    BY <1>1, <1>2, <2>1, <2>2, <2>3 DEF TypeOK, Places, At
<1>4. Exclusive' /\ Taken'
  BY <1>1, <1>2 DEF Exclusive, Taken, Users, At
<1>5. Registering' /\ Sending' /\ Given'
  BY <1>1, <1>2 DEF Registering, Sending, Given, Users, At
<1>6. Closing' /\ SameList'
  BY <1>1, <1>2 DEF Closing, SameList, At
<1>7. Attended'
  BY <1>1, <1>2 DEF Attended, At
<1> QED
  BY <1>3, <1>4, <1>5, <1>6, <1>7 DEF IInv

\* One thread gets past the exchange.
LEMMA DisconnectStep ==
  ASSUME IInv, NEW t \in Threads, Disconnect(t)
  PROVE  IInv'
<1>1. TypeOK /\ Exclusive /\ Taken /\ Registering
      /\ Sending /\ Given /\ Closing /\ SameList /\ Attended
  BY DEF IInv
<1>2. /\ pc[t] = "disconnect" /\ disconnected' = TRUE
      /\ \A b \in Threads :
           pc'[b] = IF b # t THEN pc[b]
                    ELSE IF disconnected \/ stage = "null" THEN "idle" ELSE "shutdown"
      /\ pc' \in [Threads -> Places]
      /\ lock' \in Threads \cup {None}
      /\ \A b \in Threads : b # t /\ lock = b => lock' = b
      /\ UNCHANGED <<stage, gone, socket, sendQueue, pendingList, inFlight, accepted,
                     handed, early, sent>>
  BY <1>1, Moves, Leaves DEF Disconnect, At, connection, lists, history, TypeOK, Places
<1>3. TypeOK'
  <2>1. pc' \in [Threads -> Places] /\ lock' \in Threads \cup {None}
    BY <1>1, <1>2 DEF TypeOK, Places
  <2>2. \A b \in Threads : pc'[b] = "register" \/ pc'[b] = "sendAsync" => lock' = b
    BY <1>1, <1>2 DEF TypeOK, At
  <2>3. /\ sendQueue' \in Seq(Buffers) /\ pendingList' \in Seq(Buffers)
        /\ inFlight' \in Seq(Buffers)
    BY <1>1, <1>2 DEF TypeOK, lists
  <2> QED
    BY <1>1, <1>2, <2>1, <2>2, <2>3 DEF TypeOK, Places, At
<1>4. Exclusive' /\ Taken'
  BY <1>1, <1>2 DEF Exclusive, Taken, Users, At
<1>5. Registering' /\ Sending' /\ Given'
  BY <1>1, <1>2 DEF Registering, Sending, Given, At
<1>6. Closing' /\ SameList'
  BY <1>1, <1>2 DEF Closing, SameList, At
<1>7. Attended'
  BY <1>1, <1>2 DEF Attended
<1> QED
  BY <1>3, <1>4, <1>5, <1>6, <1>7 DEF IInv

\* The socket is shut down once.
LEMMA ShutdownStep ==
  ASSUME IInv, NEW t \in Threads, Shutdown(t)
  PROVE  IInv'
<1>1. TypeOK /\ Exclusive /\ Taken /\ Registering
      /\ Sending /\ Given /\ Closing /\ SameList /\ Attended
  BY DEF IInv
<1>2. /\ pc[t] = "shutdown" /\ socket' = "shut"
      /\ \A b \in Threads : pc'[b] = IF b = t THEN "close" ELSE pc[b]
      /\ pc' \in [Threads -> Places]
      /\ UNCHANGED <<stage, gone, disconnected, lock, sendQueue, pendingList, inFlight,
                     accepted, handed, early, sent>>
  BY <1>1, Moves DEF Shutdown, At, connection, lists, history, TypeOK, Places
<1>3. TypeOK'
  <2>1. pc' \in [Threads -> Places] /\ lock' \in Threads \cup {None}
    BY <1>1, <1>2 DEF TypeOK, Places
  <2>2. \A b \in Threads : pc'[b] = "register" \/ pc'[b] = "sendAsync" => lock' = b
    BY <1>1, <1>2 DEF TypeOK, At
  <2>3. /\ sendQueue' \in Seq(Buffers) /\ pendingList' \in Seq(Buffers)
        /\ inFlight' \in Seq(Buffers)
    BY <1>1, <1>2 DEF TypeOK, lists
  <2> QED
    BY <1>1, <1>2, <2>1, <2>2, <2>3 DEF TypeOK, Places, At
<1>4. Exclusive' /\ Taken'
  BY <1>1, <1>2 DEF Exclusive, Taken, Attended, Users, At
<1>5. Registering' /\ Sending' /\ Given'
  BY <1>1, <1>2 DEF Registering, Sending, Given, Users, At
<1>6. Closing' /\ SameList'
  BY <1>1, <1>2 DEF Closing, SameList, At
<1>7. Attended'
  BY <1>1, <1>2 DEF Attended, Users, At
<1> QED
  BY <1>3, <1>4, <1>5, <1>6, <1>7 DEF IInv

\* The rest is skipped.
LEMMA ShutdownThrowsStep ==
  ASSUME IInv, NEW t \in Threads, ShutdownThrows(t)
  PROVE  IInv'
<1>1. TypeOK /\ Exclusive /\ Taken /\ Registering
      /\ Sending /\ Given /\ Closing /\ SameList /\ Attended
  BY DEF IInv
<1>2. /\ pc[t] = "shutdown"
      /\ \A b \in Threads : pc'[b] = IF b = t THEN "idle" ELSE pc[b]
      /\ pc' \in [Threads -> Places]
      /\ lock' \in Threads \cup {None}
      /\ \A b \in Threads : b # t /\ lock = b => lock' = b
      /\ UNCHANGED <<stage, gone, disconnected, socket, sendQueue, pendingList, inFlight,
                     accepted, handed, early, sent>>
  BY <1>1, Leaves DEF ShutdownThrows, At, connection, lists, history, TypeOK, Places
<1>3. TypeOK'
  <2>1. pc' \in [Threads -> Places] /\ lock' \in Threads \cup {None}
    BY <1>1, <1>2 DEF TypeOK, Places
  <2>2. \A b \in Threads : pc'[b] = "register" \/ pc'[b] = "sendAsync" => lock' = b
    BY <1>1, <1>2 DEF TypeOK, At
  <2>3. /\ sendQueue' \in Seq(Buffers) /\ pendingList' \in Seq(Buffers)
        /\ inFlight' \in Seq(Buffers)
    BY <1>1, <1>2 DEF TypeOK, lists
  <2> QED
    BY <1>1, <1>2, <2>1, <2>2, <2>3 DEF TypeOK, Places, At
<1>4. Exclusive' /\ Taken'
  BY <1>1, <1>2 DEF Exclusive, Taken, Users, At
<1>5. Registering' /\ Sending' /\ Given'
  BY <1>1, <1>2 DEF Registering, Sending, Given, Users, At
<1>6. Closing' /\ SameList'
  BY <1>1, <1>2 DEF Closing, SameList, At
<1>7. Attended'
  BY <1>1, <1>2 DEF Attended, Users, At
<1> QED
  BY <1>3, <1>4, <1>5, <1>6, <1>7 DEF IInv

\* The socket is closed before the lists are cleared.
LEMMA CloseStep ==
  ASSUME IInv, NEW t \in Threads, Close(t)
  PROVE  IInv'
<1>1. TypeOK /\ Exclusive /\ Taken /\ Registering
      /\ Sending /\ Given /\ Closing /\ SameList /\ Attended
  BY DEF IInv
<1>2. /\ pc[t] = "close" /\ socket' = "closed"
      /\ \A b \in Threads : pc'[b] = IF b = t THEN "clear" ELSE pc[b]
      /\ pc' \in [Threads -> Places]
      /\ UNCHANGED <<stage, gone, disconnected, lock, sendQueue, pendingList, inFlight,
                     accepted, handed, early, sent>>
  BY <1>1, Moves DEF Close, At, connection, lists, history, TypeOK, Places
<1>3. TypeOK'
  <2>1. pc' \in [Threads -> Places] /\ lock' \in Threads \cup {None}
    BY <1>1, <1>2 DEF TypeOK, Places
  <2>2. \A b \in Threads : pc'[b] = "register" \/ pc'[b] = "sendAsync" => lock' = b
    BY <1>1, <1>2 DEF TypeOK, At
  <2>3. /\ sendQueue' \in Seq(Buffers) /\ pendingList' \in Seq(Buffers)
        /\ inFlight' \in Seq(Buffers)
    BY <1>1, <1>2 DEF TypeOK, lists
  <2> QED
    BY <1>1, <1>2, <2>1, <2>2, <2>3 DEF TypeOK, Places, At
<1>4. Exclusive' /\ Taken'
  BY <1>1, <1>2 DEF Exclusive, Taken, Users, At
<1>5. Registering' /\ Sending' /\ Given'
  BY <1>1, <1>2 DEF Registering, Sending, Given, Users, At
<1>6. Closing' /\ SameList'
  BY <1>1, <1>2 DEF Sending, Closing, SameList, At
<1>7. Attended'
  BY <1>1, <1>2 DEF Attended, Users, At
<1> QED
  BY <1>3, <1>4, <1>5, <1>6, <1>7 DEF IInv

\* Nobody is registering or calling SendAsync, as Clear has the lock.
LEMMA ClearStep ==
  ASSUME IInv, NEW t \in Threads, Clear(t)
  PROVE  IInv'
<1>1. TypeOK /\ Exclusive /\ Taken /\ Registering
      /\ Sending /\ Given /\ Closing /\ SameList /\ Attended
  BY DEF IInv
<1>2. /\ pc[t] = "clear" /\ lock \in {None, t}
      /\ sendQueue' = <<>> /\ pendingList' = <<>> /\ handed' = FALSE
      /\ \A b \in Threads : pc'[b] = IF b = t THEN "idle" ELSE pc[b]
      /\ pc' \in [Threads -> Places]
      /\ lock' \in Threads \cup {None}
      /\ \A b \in Threads : b # t /\ lock = b => lock' = b
      /\ UNCHANGED <<stage, gone, disconnected, socket, inFlight, accepted, early, sent>>
  BY <1>1, Leaves DEF Clear, At, connection, TypeOK, Places
<1>3. TypeOK'
  <2>1. pc' \in [Threads -> Places] /\ lock' \in Threads \cup {None}
    BY <1>1, <1>2 DEF TypeOK, Places
  <2>2. \A b \in Threads : pc'[b] = "register" \/ pc'[b] = "sendAsync" => lock' = b
    BY <1>1, <1>2, Alone DEF TypeOK, At
  <2>3. /\ sendQueue' \in Seq(Buffers) /\ pendingList' \in Seq(Buffers)
        /\ inFlight' \in Seq(Buffers)
    BY <1>1, <1>2 DEF TypeOK, lists
  <2> QED
    BY <1>1, <1>2, <2>1, <2>2, <2>3 DEF TypeOK, Places, At
<1>4. Exclusive' /\ Taken'
  BY <1>1, <1>2 DEF Exclusive, Taken, Closing, SameList, Users, At
<1>5. Registering' /\ Sending' /\ Given'
  <2>1. ~(\E b \in Threads : At(b, "register") \/ At(b, "sendAsync"))'
    BY <1>1, <1>2, Alone DEF At
  <2>2. disconnected'
    BY <1>1, <1>2 DEF Closing
  <2> QED
    BY <1>2, <2>1, <2>2 DEF Registering, Sending, Given, At
<1>6. Closing' /\ SameList'
  BY <1>1, <1>2 DEF Closing, SameList, At
<1>7. Attended'
  BY <1>1, <1>2 DEF Attended
<1> QED
  BY <1>3, <1>4, <1>5, <1>6, <1>7 DEF IInv

LEMMA NextIInv == IInv /\ [Next]_vars => IInv'
<1> SUFFICES ASSUME IInv, [Next]_vars
             PROVE  IInv'
  OBVIOUS
<1>1. CASE Start \/ ConnectionEnds
  BY <1>1, StartStep, ConnectionEndsStep
<1>2. ASSUME NEW t \in Threads,
             (\E bs \in SendLists : Send(t, bs)) \/ CallDisconnect(t) \/ Progress(t)
      PROVE  IInv'
  BY <1>2, SendStep, RegisterSendStep, SendAsyncThrowsStep, SendAsyncPendingStep,
     SendAsyncDoneStep, CompleteStep, SentStep, FailedStep, CallDisconnectStep, DisconnectStep,
     ShutdownStep, ShutdownThrowsStep, CloseStep, ClearStep DEF Progress
<1>3. CASE UNCHANGED vars
  BY <1>3 DEF vars, connection, lists, history, IInv, TypeOK, Exclusive, Taken,
     Registering,
              Sending, Given, Closing, SameList, Attended, Users, At
<1> QED
  BY <1>1, <1>2, <1>3 DEF Next

\* The invariant holds in every reachable state.
THEOREM Invariance == Spec => []IInv
  BY InitIInv, NextIInv, PTL DEF Spec

------------------------------------------------------------------------------
(* What it implies *)

\* The session's one _sendArgs has one user at a time, and its list is not
\* empty and does not change under the runtime while the socket is open.
THEOREM SingleOperationCorrect == Spec => []SingleOperation
<1>1. IInv => SingleOperation
  <2> SUFFICES ASSUME IInv
               PROVE  SingleOperation
    OBVIOUS
  <2>1. CASE Users = {}
    BY <2>1, FS_EmptySet DEF IInv, Sending, SameList, SingleOperation
  <2>2. CASE Users # {}
    <3>1. PICK t \in Users : TRUE
      BY <2>2
    <3>2. Users = {t} /\ inFlight = <<>>
      BY <2>2, <3>1 DEF IInv, Exclusive
    <3>3. Cardinality(Users) = 1
      BY <3>2, FS_Singleton
    <3> QED
      BY <3>2, <3>3 DEF IInv, Sending, SameList, SingleOperation
  <2> QED
    BY <2>1, <2>2
<1> QED
  BY <1>1, Invariance, PTL

\* What waits in a connected session has somebody who will look at it, if
\* nothing was sent before Start had attached the handlers.
THEOREM NoLostWakeupCorrect == Spec => []NoLostWakeup
<1>1. IInv => NoLostWakeup
  <2> SUFFICES ASSUME IInv, Waiting # <<>>, ~disconnected, ~early
               PROVE  NoLostWakeup
    BY DEF NoLostWakeup
  <2>1. pendingList # <<>> \/ sendQueue # <<>>
    BY DEF Waiting
  <2> QED
    BY <2>1 DEF IInv, Attended, NoLostWakeup
<1> QED
  BY <1>1, Invariance, PTL

------------------------------------------------------------------------------
(* The channel *)

\* A batch that goes to the socket leaves the channel at its front.
LEMMA HandOverTransmits ==
  ASSUME IInv, NEW t \in Threads, SendAsyncPending(t) \/ SendAsyncDone(t)
  PROVE  Channel!Next
<1>1. /\ pendingList \in Seq(Buffers) /\ sendQueue \in Seq(Buffers)
      /\ ~handed
  BY DEF IInv, TypeOK, Sending, SendAsyncPending, SendAsyncDone
<1>2. /\ handed' = TRUE /\ sent' = sent \o pendingList
      /\ sendQueue' = sendQueue
  BY DEF SendAsyncPending, SendAsyncDone, HandOver, lists
<1>3. Waiting = pendingList \o sendQueue /\ Waiting' = sendQueue
  BY <1>1, <1>2, ConcatEmptySeq DEF Waiting
<1>4. Channel!Transmit(pendingList, sendQueue)
  BY <1>2, <1>3 DEF Channel!Transmit
<1>5. /\ Len(pendingList) \in 0..Len(Waiting)
      /\ SubSeq(Waiting, 1, Len(pendingList)) = pendingList
      /\ SubSeq(Waiting, Len(pendingList) + 1, Len(Waiting)) = sendQueue
  BY <1>1, <1>3, CutConcat
<1> QED
  BY <1>1, <1>4, <1>5 DEF Channel!Next

\* Clear loses all that waits, in one piece.
LEMMA ClearLoses ==
  ASSUME IInv, NEW t \in Threads, Clear(t)
  PROVE  Channel!Next
<1>1. Waiting \in Seq(Buffers) /\ <<>> \in Seq(Buffers)
  <2>1. /\ pendingList \in Seq(Buffers) /\ sendQueue \in Seq(Buffers)
        /\ <<>> \in Seq(Buffers)
    BY DEF IInv, TypeOK
  <2> QED
    BY <2>1, ConcatProperties DEF Waiting
<1>2. Waiting' = <<>> /\ sent' = sent
  BY <1>1, ConcatEmptySeq DEF Clear, Waiting
<1>3. Waiting = Waiting \o <<>>
  BY <1>1, ConcatEmptySeq
<1>4. Channel!Lose(Waiting, <<>>)
  BY <1>2, <1>3 DEF Channel!Lose
<1>5. /\ Len(Waiting) \in 0..Len(Waiting)
      /\ SubSeq(Waiting, 1, Len(Waiting)) = Waiting
      /\ SubSeq(Waiting, Len(Waiting) + 1, Len(Waiting)) = <<>>
  BY <1>1, <1>3, CutConcat
<1> QED
  BY <1>1, <1>4, <1>5 DEF Channel!Next

\* Send adds its list at the end.
LEMMA SendSubmits ==
  ASSUME IInv, NEW t \in Threads, NEW bs \in SendLists, Send(t, bs)
  PROVE  SubmitsList
<1> DEFINE given == IF handed THEN <<>> ELSE pendingList
<1>1. /\ pendingList \in Seq(Buffers) /\ sendQueue \in Seq(Buffers)
      /\ bs \in Seq(Buffers)
  BY SendAssumption DEF IInv, TypeOK
<1>2. given \in Seq(Buffers)
  BY <1>1
<1>3. given' = given /\ sendQueue' = sendQueue \o bs /\ sent' = sent
  BY DEF Send
<1>4. Waiting = given \o sendQueue /\ Waiting' = given' \o sendQueue'
  BY DEF Waiting
<1> HIDE DEF given
<1>5. (given \o sendQueue) \o bs = given \o (sendQueue \o bs)
  BY <1>1, <1>2, ConcatAssociative
<1> QED
  BY <1>3, <1>4, <1>5 DEF SubmitsList

\* RegisterSend moves what waits from the queue to the list.
LEMMA RegisterSame ==
  ASSUME IInv, NEW t \in Threads, RegisterSend(t)
  PROVE  UNCHANGED <<Waiting, sent>>
<1>1. /\ pendingList = <<>> /\ sendQueue \in Seq(Buffers) /\ ~handed
  BY DEF IInv, TypeOK, Registering, Given, RegisterSend
<1>2. handed' = handed /\ sent' = sent
  BY DEF RegisterSend, history
<1>3. CASE disconnected
  BY <1>2, <1>3 DEF RegisterSend, lists, Waiting
<1>4. CASE ~disconnected
  <2>1. pendingList' = sendQueue /\ sendQueue' = <<>>
    BY <1>1, <1>4, ConcatEmptySeq DEF RegisterSend
  <2> QED
    BY <1>1, <1>2, <2>1, ConcatEmptySeq DEF Waiting
<1> QED
  BY <1>3, <1>4

\* What Sent clears has been given to the socket, or cleared before.
LEMMA SentSame ==
  ASSUME IInv, NEW t \in Threads, Sent(t)
  PROVE  UNCHANGED <<Waiting, sent>>
<1>1. handed \/ pendingList = <<>>
  BY DEF IInv, Given, Sent
<1> QED
  BY <1>1 DEF Sent, Waiting

\* The other steps leave what waits alone.
LEMMA OthersSame ==
  ASSUME NEW t \in Threads,
         \/ SendAsyncThrows(t) \/ Complete(t) \/ Failed(t) \/ CallDisconnect(t)
         \/ Disconnect(t) \/ Shutdown(t) \/ ShutdownThrows(t) \/ Close(t)
  PROVE  UNCHANGED <<Waiting, sent>>
<1>1. UNCHANGED <<pendingList, sendQueue, handed, sent>>
  BY DEF SendAsyncThrows, Complete, Failed, CallDisconnect, Disconnect, Shutdown,
         ShutdownThrows, Close, lists, history
<1> QED
  BY <1>1 DEF Waiting

\* The sending half of the client's session implements the channel, of which a
\* call of Send makes one step for all its buffers.
THEOREM Refinement == Spec => ImplementsChannel
<1>1. Init => Channel!Init
  BY ConcatEmptySeq DEF Init, Channel!Init, Waiting
<1>2. IInv /\ [Next]_vars => [Channel!Next \/ SubmitsList]_<<Waiting, sent>>
  <2> SUFFICES ASSUME IInv, [Next]_vars
               PROVE  Channel!Next \/ SubmitsList \/ UNCHANGED <<Waiting, sent>>
    OBVIOUS
  <2>1. CASE Start \/ ConnectionEnds \/ UNCHANGED vars
    <3>1. UNCHANGED <<pendingList, sendQueue, handed, sent>>
      BY <2>1 DEF Start, ConnectionEnds, vars, lists, history
    <3> QED
      BY <3>1 DEF Waiting
  <2>2. ASSUME NEW t \in Threads,
               (\E bs \in SendLists : Send(t, bs)) \/ CallDisconnect(t) \/ Progress(t)
        PROVE  Channel!Next \/ SubmitsList \/ UNCHANGED <<Waiting, sent>>
    BY <2>2, HandOverTransmits, ClearLoses, SendSubmits, RegisterSame, SentSame,
       OthersSame DEF Progress
  <2> QED
    BY <2>1, <2>2 DEF Next
<1> QED
  BY <1>1, <1>2, Invariance, PTL DEF Spec, ImplementsChannel
==============================================================================
