----------------------------- MODULE ClientSend -----------------------------
(***************************************************************************)
(* The sending half of the Unity client's Session (NetWork/Session.cs).    *)
(*                                                                         *)
(* _lock covers the queue and the list given to SendAsync, and is kept     *)
(* over SendAsync itself and, as it is reentrant, over the handling of a   *)
(* send that completes at once: RegisterSend and OnSendCompleted then call *)
(* each other, of which only the innermost step and the outermost release  *)
(* of the lock show here.  _disconnected, the socket and Start's           *)
(* assignments are not covered by it.  A non-empty _pendingList stands for *)
(* "a send is pending".                                                    *)
(*                                                                         *)
(* Definitions commented "Variant" are no part of the model: each is an    *)
(* action with a plausible bug that a property is shown to catch.          *)
(***************************************************************************)
EXTENDS Integers, Sequences, FiniteSets

CONSTANTS Threads,    \* threads of the client: Unity's, and the runtime's
          Buffers,    \* serialized packets
          SendLists,  \* the lists of them that Send is called with
          MaxSends,   \* bound: buffers sent in a behaviour
          None        \* no thread

ASSUME SendAssumption ==
  /\ SendLists \subseteq Seq(Buffers) \ {<<>>}
  /\ MaxSends \in Nat
  /\ None \notin Threads

VARIABLES
  stage,         \* how far Start came: "null", "socket" or "attached"
  gone,          \* the peer has closed or reset the connection
  disconnected,  \* _disconnected
  socket,        \* "open", "shut" or "closed", once there is one
  lock,          \* the thread in _lock
  sendQueue,     \* _sendQueue
  pendingList,   \* _pendingList, which is _sendArgs.BufferList too
  inFlight,      \* what the runtime is sending with _sendArgs
  pc,            \* what each thread does next
  accepted,      \* history: how many buffers were queued
  handed,        \* history: _pendingList was given to the socket
  early,         \* history: SendAsync was called before Start had finished
  sent           \* history: the buffers given to the socket, in order

connection == <<stage, gone>>
lists   == <<sendQueue, pendingList>>
history == <<accepted, handed, early, sent>>
vars == <<connection, disconnected, socket, lock, lists, inFlight, pc, history>>

------------------------------------------------------------------------------
At(t, here) == pc[t] = here

Go(t, there) == pc' = [pc EXCEPT ![t] = there]

\* A thread returns from Send, OnSendCompleted or Disconnect, out of the lock.
Leave(t) ==
  /\ Go(t, "idle")
  /\ lock' = IF lock = t THEN None ELSE lock

Init ==
  /\ stage = "null"
  /\ gone = FALSE
  /\ disconnected = FALSE
  /\ socket = "open"
  /\ lock = None
  /\ sendQueue = <<>>
  /\ pendingList = <<>>
  /\ inFlight = <<>>
  /\ pc = [t \in Threads |-> "idle"]
  /\ accepted = 0
  /\ handed = FALSE
  /\ early = FALSE
  /\ sent = <<>>

------------------------------------------------------------------------------
(* The connection *)

\* Session::Start, called once connected: the socket, then the handlers.
Start ==
  /\ stage # "attached"
  /\ stage' = IF stage = "null" THEN "socket" ELSE "attached"
  /\ UNCHANGED <<gone, disconnected, socket, lock, lists, inFlight, pc, history>>

ConnectionEnds ==
  /\ stage # "null"
  /\ gone' = TRUE
  /\ UNCHANGED <<stage, disconnected, socket, lock, lists, inFlight, pc, history>>

------------------------------------------------------------------------------
(* Session::Send *)

\* Send of one buffer or of a list of them: under the lock they are queued, and
\* a send is registered if none is pending.
Send(t, bs) ==
  /\ At(t, "idle")
  /\ lock = None
  /\ accepted + Len(bs) <= MaxSends
  /\ sendQueue' = sendQueue \o bs
  /\ accepted' = accepted + Len(bs)
  /\ IF pendingList = <<>>
       THEN Go(t, "register") /\ lock' = t
       ELSE UNCHANGED <<pc, lock>>
  /\ UNCHANGED <<connection, disconnected, socket, pendingList, inFlight,
                 handed, early, sent>>

------------------------------------------------------------------------------
(* Session::RegisterSend, in the lock *)

\* The test of _disconnected, and the queue's move to _pendingList.
RegisterSend(t) ==
  /\ At(t, "register")
  /\ IF disconnected
       THEN Leave(t) /\ UNCHANGED lists
       ELSE /\ pendingList' = pendingList \o sendQueue
            /\ sendQueue' = <<>>
            /\ Go(t, "sendAsync")
            /\ UNCHANGED lock
  /\ UNCHANGED <<connection, disconnected, socket, inFlight, history>>

\* SendAsync throws, without a socket or on a closed one; the exception is
\* logged and _pendingList stays as it is.
SendAsyncThrows(t) ==
  /\ At(t, "sendAsync")
  /\ stage = "null" \/ socket = "closed"
  /\ Leave(t)
  /\ early' = (early \/ stage # "attached")
  /\ UNCHANGED <<connection, disconnected, socket, lists, inFlight, accepted,
                 handed, sent>>

\* The socket takes the batch.
HandOver ==
  /\ stage # "null" /\ socket # "closed"
  /\ handed' = TRUE
  /\ sent' = sent \o pendingList

\* SendAsync returns true: a completion will come.
SendAsyncPending(t) ==
  /\ At(t, "sendAsync")
  /\ socket = "open"
  /\ HandOver
  /\ inFlight' = pendingList
  /\ early' = (early \/ stage # "attached")
  /\ Leave(t)
  /\ UNCHANGED <<connection, disconnected, socket, lists, accepted>>

\* How a send may end: well on an open socket, badly on one that was shut down
\* here or lost its peer.
Outcomes ==
  {o \in {"sent", "failed"} :
     /\ o = "sent" => socket = "open"
     /\ o = "failed" => gone \/ socket # "open"}

\* SendAsync returns false: it has completed, OnSendCompleted is called.
SendAsyncDone(t) ==
  /\ At(t, "sendAsync")
  /\ HandOver
  /\ \E o \in Outcomes : Go(t, o)
  /\ UNCHANGED <<connection, disconnected, socket, lock, lists, inFlight,
                 accepted, early>>

------------------------------------------------------------------------------
(* Session::OnSendCompleted *)

\* A pending send completes; a thread of the runtime calls the handler, if Start
\* has attached it already.
Complete(t) ==
  /\ At(t, "idle")
  /\ inFlight # <<>>
  /\ inFlight' = <<>>
  /\ IF stage = "attached" THEN \E o \in Outcomes : Go(t, o)
                           ELSE UNCHANGED pc
  /\ UNCHANGED <<connection, disconnected, socket, lock, lists, history>>

\* Variant: the queue is not looked at again.
SentOnly(t) ==
  /\ At(t, "sent")
  /\ lock \in {None, t}
  /\ pendingList' = <<>>
  /\ handed' = FALSE
  /\ Leave(t)
  /\ UNCHANGED <<connection, disconnected, socket, sendQueue, inFlight,
                 accepted, early, sent>>

\* Variant: what was sent stays in the list when there is more.
SentKeeping(t) ==
  /\ At(t, "sent")
  /\ lock \in {None, t}
  /\ handed' = FALSE
  /\ IF sendQueue # <<>>
       THEN Go(t, "register") /\ lock' = t /\ UNCHANGED pendingList
       ELSE Leave(t) /\ pendingList' = <<>>
  /\ UNCHANGED <<connection, disconnected, socket, sendQueue, inFlight,
                 accepted, early, sent>>

\* A success, in the lock: the list is cleared, and what was queued meanwhile
\* is registered.
Sent(t) ==
  /\ At(t, "sent")
  /\ lock \in {None, t}
  /\ pendingList' = <<>>
  /\ handed' = FALSE
  /\ IF sendQueue # <<>> THEN Go(t, "register") /\ lock' = t ELSE Leave(t)
  /\ UNCHANGED <<connection, disconnected, socket, sendQueue, inFlight,
                 accepted, early, sent>>

\* A failure, in the lock: Disconnect.
Failed(t) ==
  /\ At(t, "failed")
  /\ lock \in {None, t}
  /\ lock' = t
  /\ Go(t, "disconnect")
  /\ UNCHANGED <<connection, disconnected, socket, lists, inFlight, history>>

------------------------------------------------------------------------------
(* Session::Disconnect, in the lock or not *)

\* It is called by OnDestroy, or by the receiving half.
CallDisconnect(t) ==
  /\ At(t, "idle")
  /\ ~disconnected
  /\ Go(t, "disconnect")
  /\ UNCHANGED <<connection, disconnected, socket, lock, lists, inFlight, history>>

\* The exchange; without a socket the next line throws, after it.
Disconnect(t) ==
  /\ At(t, "disconnect")
  /\ disconnected' = TRUE
  /\ IF disconnected \/ stage = "null"
       THEN Leave(t)
       ELSE Go(t, "shutdown") /\ UNCHANGED lock
  /\ UNCHANGED <<connection, socket, lists, inFlight, history>>

Shutdown(t) ==
  /\ At(t, "shutdown")
  /\ socket' = "shut"
  /\ Go(t, "close")
  /\ UNCHANGED <<connection, disconnected, lock, lists, inFlight, history>>

\* Shutdown throws if the connection is gone: Close and Clear are skipped.
ShutdownThrows(t) ==
  /\ At(t, "shutdown")
  /\ gone
  /\ Leave(t)
  /\ UNCHANGED <<connection, disconnected, socket, lists, inFlight, history>>

Close(t) ==
  /\ At(t, "close")
  /\ socket' = "closed"
  /\ Go(t, "clear")
  /\ UNCHANGED <<connection, disconnected, lock, lists, inFlight, history>>

\* Variant: Clear does not take the lock.
ClearUnlocked(t) ==
  /\ At(t, "clear")
  /\ sendQueue' = <<>>
  /\ pendingList' = <<>>
  /\ handed' = FALSE
  /\ Leave(t)
  /\ UNCHANGED <<connection, disconnected, socket, inFlight, accepted, early, sent>>

\* Session::Clear
Clear(t) ==
  /\ At(t, "clear")
  /\ lock \in {None, t}
  /\ sendQueue' = <<>>
  /\ pendingList' = <<>>
  /\ handed' = FALSE
  /\ Leave(t)
  /\ UNCHANGED <<connection, disconnected, socket, inFlight, accepted, early, sent>>

------------------------------------------------------------------------------
\* What a thread does without anybody calling it.
Progress(t) ==
  \/ RegisterSend(t)
  \/ SendAsyncThrows(t) \/ SendAsyncPending(t) \/ SendAsyncDone(t)
  \/ Complete(t) \/ Sent(t) \/ Failed(t)
  \/ Disconnect(t) \/ Shutdown(t) \/ ShutdownThrows(t) \/ Close(t) \/ Clear(t)

Next ==
  \/ Start
  \/ ConnectionEnds
  \/ \E t \in Threads :
       \/ \E bs \in SendLists : Send(t, bs)
       \/ CallDisconnect(t)
       \/ Progress(t)

Spec == Init /\ [][Next]_vars

\* The threads run, and the network takes what it is given, or fails.
FairSpec == Spec /\ \A t \in Threads : WF_vars(Progress(t))

------------------------------------------------------------------------------
(* Properties *)

\* Threads that use _sendArgs: about to give it to the socket, or called back
\* and not in the lock yet.
Users == {t \in Threads : At(t, "sendAsync") \/ At(t, "sent") \/ At(t, "failed")}

\* Every variable keeps its type, and RegisterSend runs in the lock.
TypeOK ==
  /\ stage \in {"null", "socket", "attached"}
  /\ gone \in BOOLEAN /\ disconnected \in BOOLEAN
  /\ socket \in {"open", "shut", "closed"}
  /\ lock \in Threads \cup {None}
  /\ sendQueue \in Seq(Buffers) /\ pendingList \in Seq(Buffers)
  /\ inFlight \in Seq(Buffers)
  /\ pc \in [Threads -> {"idle", "register", "sendAsync", "sent", "failed",
                         "disconnect", "shutdown", "close", "clear"}]
  /\ \A t \in Threads : At(t, "register") \/ At(t, "sendAsync") => lock = t
  /\ accepted \in 0..MaxSends
  /\ handed \in BOOLEAN /\ early \in BOOLEAN
  /\ sent \in Seq(Buffers)

\* The session's one _sendArgs has one user at a time, a thread or the runtime,
\* although what tells threads that it is taken is a list that Clear empties
\* while a send is pending.  The list is not changed between RegisterSend and the
\* completion, unless the socket is closed: SendAsync is never given an empty one,
\* and the runtime's buffers stay those it was given.
SingleOperation ==
  /\ TypeOK
  /\ Cardinality(Users) + (IF inFlight = <<>> THEN 0 ELSE 1) <= 1
  /\ \A t \in Threads : At(t, "sendAsync") => pendingList # <<>>
  /\ inFlight # <<>> /\ socket # "closed" => pendingList = inFlight

\* The buffers that the socket has not been given.
Waiting == (IF handed THEN <<>> ELSE pendingList) \o sendQueue

\* What waits in a connected session is looked at by a thread, or will be when
\* the pending send completes, unless something was sent before Start was done:
\* _pendingList then stays as it is, and nothing is ever sent again.
NoLostWakeup ==
  Waiting # <<>> /\ ~disconnected /\ ~early =>
    \/ inFlight # <<>>
    \/ Users # {}
    \/ \E t \in Threads : At(t, "register") \/ At(t, "disconnect")

\* Send is a FIFO channel: nothing is reordered or doubled, and what is lost is
\* lost in one piece, to Clear.
Channel == INSTANCE SendChannel
             WITH Batches <- Seq(Buffers), pending <- Waiting, sent <- sent

\* One call may carry a list: a step of the channel for each of its buffers.
SubmitsList ==
  \E bs \in SendLists :
    /\ Waiting' = Waiting \o bs
    /\ UNCHANGED sent

ImplementsChannel == Channel!Init /\ [][Channel!Next \/ SubmitsList]_<<Waiting, sent>>

\* Whatever is sent reaches the socket, unless the session is disconnected, or
\* something was sent before Start was done.
EventuallySent ==
  \A k \in 1..MaxSends :
    (accepted >= k) ~> (Len(sent) >= k \/ disconnected \/ early)
==============================================================================
