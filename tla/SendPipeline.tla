---------------------------- MODULE SendPipeline -----------------------------
(***************************************************************************)
(* The sending half of a ServerLib Session (Session.cpp): Send,            *)
(* RegisterSend, ProcessSend, and the dispatch of send completions by the  *)
(* worker threads that share one completion port.                          *)
(*                                                                         *)
(* A session has a single _sendEvent (an OVERLAPPED plus the buffers it    *)
(* keeps alive).  The flag _sendRegistered is meant to give one thread at  *)
(* a time, or the OS, the right to use it.  Every thread of Threads may    *)
(* call Send (packet handlers, BroadCast) and dispatch completions.  Each  *)
(* atomic load, exchange or store, each critical section under _sendLock   *)
(* and each system call is a step of its own; _sendLock is never held      *)
(* across one of them, so a critical section is one step.                  *)
(*                                                                         *)
(* Definitions commented "Variant" are no part of the model: each is an    *)
(* action with a plausible bug that a property is shown to catch.          *)
(***************************************************************************)
EXTENDS Integers, Sequences, FiniteSets, SequencesExt

CONSTANTS Threads,        \* threads of the process
          Buffers,        \* SendBuffers; one may be sent more than once
          Size,           \* SendBuffer::WriteSize of each of them
          MAX_SEND_SIZE,  \* Session::MAX_SEND_SIZE
          MaxSends        \* bound: buffers pushed in a behaviour

ASSUME SizeAssumption == Size \in [Buffers -> Nat]
ASSUME MaxAssumption == MAX_SEND_SIZE \in Nat /\ MaxSends \in Nat

VARIABLES
  isConnect,       \* _isConnect
  connected,       \* ProcessConnect has run: it runs once per session
  sendQueue,       \* _sendQueue
  sendRegistered,  \* _sendRegistered
  owner,           \* _sendEvent.owner holds a reference
  sendBuffers,     \* _sendEvent.sendBuffers
  posted,          \* batches the OS works on with _sendEvent's OVERLAPPED
  pc,              \* what each thread does next
  buf,             \* the argument of the Send a thread is in
  accepted,        \* history: buffers pushed, in order
  sent,            \* history: buffers given to the OS, in order
  wsaFailed        \* history: some WSASend was refused

event   == <<owner, sendBuffers>>
history == <<accepted, sent, wsaFailed>>
vars == <<isConnect, connected, sendQueue, sendRegistered, event, posted, pc,
          buf, history>>

------------------------------------------------------------------------------
\* Program counters of a thread that has the right to use _sendEvent.
Holding == {"regCheck", "regInit", "gather", "post", "failClear", "failStore",
            "procSend", "procSendZero", "procCheck"}

\* The other places a thread can be in.
Outside == {"idle", "push", "exchange", "disconnect"}

\* Bytes written in the buffers of a sequence.
BytesOf(s) == FoldLeft(LAMBDA bytes, b : bytes + Size[b], 0, s)

\* What one WSASend may carry.
Fits(s) == s = <<>> \/ BytesOf(s) <= MAX_SEND_SIZE
Batches == {s \in Seq(Buffers) : Fits(s)}

\* The gathering loop of RegisterSend stops after n buffers of queue q: they
\* fit, and the queue ends there or the next buffer would not fit.
GatherStops(q, n) ==
  /\ Fits(SubSeq(q, 1, n))
  /\ n < Len(q) => ~Fits(SubSeq(q, 1, n + 1))

At(t, here) == pc[t] = here

Go(t, there) == pc' = [pc EXCEPT ![t] = there]

Init ==
  /\ isConnect = FALSE
  /\ connected = FALSE
  /\ sendQueue = <<>>
  /\ sendRegistered = FALSE
  /\ owner = FALSE
  /\ sendBuffers = <<>>
  /\ posted = <<>>
  /\ pc = [t \in Threads |-> "idle"]
  /\ buf \in [Threads -> Buffers]
  /\ accepted = <<>>
  /\ sent = <<>>
  /\ wsaFailed = FALSE

------------------------------------------------------------------------------
(* Connection state, as far as the sending half sees it. *)

\* The listener, or the connector, calls ProcessConnect once.
ProcessConnect ==
  /\ ~connected
  /\ connected' = TRUE
  /\ isConnect' = TRUE
  /\ UNCHANGED <<sendQueue, sendRegistered, event, posted, pc, buf, history>>

\* Session::Disconnect called by ProcessRecv or by the application.
Disconnect ==
  /\ connected
  /\ isConnect' = FALSE
  /\ UNCHANGED <<connected, sendQueue, sendRegistered, event, posted, pc, buf,
                 history>>

------------------------------------------------------------------------------
(* Session::Send *)

\* Call of Send(b) up to the test of _isConnect: a closed session returns.
SendCheck(t, b) ==
  /\ At(t, "idle")
  /\ isConnect
  /\ Len(accepted) + Cardinality({u \in Threads : At(u, "push")}) < MaxSends
  /\ buf' = [buf EXCEPT ![t] = b]
  /\ Go(t, "push")
  /\ UNCHANGED <<isConnect, connected, sendQueue, sendRegistered, event, posted,
                 history>>

\* The push under _sendLock.
SendPush(t) ==
  /\ At(t, "push")
  /\ sendQueue' = Append(sendQueue, buf[t])
  /\ accepted' = Append(accepted, buf[t])
  /\ Go(t, "exchange")
  /\ UNCHANGED <<isConnect, connected, sendRegistered, event, posted, buf, sent,
                 wsaFailed>>

\* _sendRegistered.exchange(true): the thread that finds false registers.
SendExchange(t) ==
  /\ At(t, "exchange")
  /\ sendRegistered' = TRUE
  /\ Go(t, IF sendRegistered THEN "idle" ELSE "regCheck")
  /\ UNCHANGED <<isConnect, connected, sendQueue, event, posted, buf, history>>

------------------------------------------------------------------------------
(* Session::RegisterSend *)

\* A session closed meanwhile: return, with _sendRegistered left as it is.
RegisterCheck(t) ==
  /\ At(t, "regCheck")
  /\ Go(t, IF isConnect THEN "regInit" ELSE "idle")
  /\ UNCHANGED <<isConnect, connected, sendQueue, sendRegistered, event, posted,
                 buf, history>>

\* _sendEvent.Init() and the reference that keeps the session alive.
RegisterInit(t) ==
  /\ At(t, "regInit")
  /\ owner' = TRUE
  /\ Go(t, "gather")
  /\ UNCHANGED <<isConnect, connected, sendQueue, sendRegistered, sendBuffers,
                 posted, buf, history>>

\* Under _sendLock: the longest front of the queue that fits moves into the
\* event.  A buffer larger than MAX_SEND_SIZE at the head moves nothing.
RegisterGather(t) ==
  /\ At(t, "gather")
  /\ \E n \in 0..Len(sendQueue) :
       /\ GatherStops(sendQueue, n)
       /\ sendBuffers' = sendBuffers \o SubSeq(sendQueue, 1, n)
       /\ sendQueue' = SubSeq(sendQueue, n + 1, Len(sendQueue))
  /\ Go(t, "post")
  /\ UNCHANGED <<isConnect, connected, sendRegistered, owner, posted, buf,
                 history>>

\* Variant: a send that succeeds at once is taken for a finished one.
PostAndRelease(t) ==
  /\ At(t, "post")
  /\ posted' = Append(posted, sendBuffers)
  /\ sent' = sent \o sendBuffers
  /\ owner' = FALSE
  /\ sendBuffers' = <<>>
  /\ Go(t, "idle")
  /\ UNCHANGED <<isConnect, connected, sendQueue, sendRegistered, buf, accepted,
                 wsaFailed>>

\* WSASend succeeds, at once or pending: a completion will be queued.
PostSend(t) ==
  /\ At(t, "post")
  /\ posted' = Append(posted, sendBuffers)
  /\ sent' = sent \o sendBuffers
  /\ Go(t, "idle")
  /\ UNCHANGED <<isConnect, connected, sendQueue, sendRegistered, event, buf,
                 accepted, wsaFailed>>

\* WSASend refuses: no completion will come.
PostFail(t) ==
  /\ At(t, "post")
  /\ wsaFailed' = TRUE
  /\ Go(t, "failClear")
  /\ UNCHANGED <<isConnect, connected, sendQueue, sendRegistered, event, posted,
                 buf, accepted, sent>>

FailClear(t) ==
  /\ At(t, "failClear")
  /\ owner' = FALSE
  /\ sendBuffers' = <<>>
  /\ Go(t, "failStore")
  /\ UNCHANGED <<isConnect, connected, sendQueue, sendRegistered, posted, buf,
                 history>>

\* The flag is given back without a look at the queue.
FailStore(t) ==
  /\ At(t, "failStore")
  /\ sendRegistered' = FALSE
  /\ Go(t, "idle")
  /\ UNCHANGED <<isConnect, connected, sendQueue, event, posted, buf, history>>

------------------------------------------------------------------------------
(* IOCPCore::Dispatch and Session::ProcessSend *)

\* GetQueuedCompletionStatus returns one of the finished sends to a worker.
\* It reports zero bytes when nothing was in the batch or the send failed.
DequeueSend(t) ==
  /\ At(t, "idle")
  /\ \E i \in 1..Len(posted) :
       /\ posted' = SubSeq(posted, 1, i - 1) \o SubSeq(posted, i + 1, Len(posted))
       /\ \/ Go(t, "procSendZero")
          \/ BytesOf(posted[i]) > 0 /\ Go(t, "procSend")
  /\ UNCHANGED <<isConnect, connected, sendQueue, sendRegistered, event, buf,
                 history>>

\* Variant: the buffers of the finished send are not cleared.
ProcessSendKeeping(t) ==
  /\ \/ At(t, "procSend") /\ Go(t, "procCheck")
     \/ At(t, "procSendZero") /\ Go(t, "disconnect")
  /\ owner' = FALSE
  /\ UNCHANGED <<isConnect, connected, sendQueue, sendRegistered, sendBuffers,
                 posted, buf, history>>

\* The references are released before anything else.
ProcessSend(t) ==
  /\ \/ At(t, "procSend") /\ Go(t, "procCheck")
     \/ At(t, "procSendZero") /\ Go(t, "disconnect")
  /\ owner' = FALSE
  /\ sendBuffers' = <<>>
  /\ UNCHANGED <<isConnect, connected, sendQueue, sendRegistered, posted, buf,
                 history>>

\* Zero bytes: Disconnect, and _sendRegistered stays set.
ProcessSendZero(t) ==
  /\ At(t, "disconnect")
  /\ isConnect' = FALSE
  /\ Go(t, "idle")
  /\ UNCHANGED <<connected, sendQueue, sendRegistered, event, posted, buf,
                 history>>

\* Variant: the flag is given back first, and the queue looked at afterwards.
CheckReleasing(t) ==
  /\ At(t, "procCheck")
  /\ sendRegistered' = FALSE
  /\ Go(t, IF sendQueue = <<>> THEN "idle" ELSE "regCheck")
  /\ UNCHANGED <<isConnect, connected, sendQueue, event, posted, buf, history>>

\* Variant: the flag is given back without a look at the queue.
CheckNothing(t) ==
  /\ At(t, "procCheck")
  /\ sendRegistered' = FALSE
  /\ Go(t, "idle")
  /\ UNCHANGED <<isConnect, connected, sendQueue, event, posted, buf, history>>

\* Under _sendLock: the flag is given back only when the queue is empty.
ProcessSendCheck(t) ==
  /\ At(t, "procCheck")
  /\ IF sendQueue = <<>>
       THEN sendRegistered' = FALSE /\ Go(t, "idle")
       ELSE UNCHANGED sendRegistered /\ Go(t, "regCheck")
  /\ UNCHANGED <<isConnect, connected, sendQueue, event, posted, buf, history>>

------------------------------------------------------------------------------
\* What a thread does once it is inside Send or a dispatched completion.
Progress(t) ==
  \/ SendPush(t) \/ SendExchange(t)
  \/ RegisterCheck(t) \/ RegisterInit(t) \/ RegisterGather(t)
  \/ PostSend(t) \/ PostFail(t) \/ FailClear(t) \/ FailStore(t)
  \/ ProcessSend(t) \/ ProcessSendZero(t) \/ ProcessSendCheck(t)

Next ==
  \/ ProcessConnect
  \/ Disconnect
  \/ \E t \in Threads :
       \/ \E b \in Buffers : SendCheck(t, b)
       \/ DequeueSend(t)
       \/ Progress(t)

Spec == Init /\ [][Next]_vars

\* The OS schedules every thread, and the workers loop on Dispatch, so a
\* queued completion reaches one of them.  Nobody has to call Send.
Fairness ==
  /\ \A t \in Threads : WF_vars(Progress(t))
  /\ WF_vars(\E t \in Threads : DequeueSend(t))

FairSpec == Spec /\ Fairness

------------------------------------------------------------------------------
(* Properties *)

\* Every variable keeps its type.  In particular the event never collects more
\* than MAX_SEND_SIZE bytes, the limit RegisterSend's loop enforces.
TypeOK ==
  /\ isConnect \in BOOLEAN
  /\ connected \in BOOLEAN
  /\ sendQueue \in Seq(Buffers)
  /\ sendRegistered \in BOOLEAN
  /\ owner \in BOOLEAN
  /\ sendBuffers \in Batches
  /\ posted \in Seq(Seq(Buffers))
  /\ pc \in [Threads -> Holding \cup Outside]
  /\ buf \in [Threads -> Buffers]
  /\ accepted \in Seq(Buffers)
  /\ sent \in Seq(Buffers)
  /\ wsaFailed \in BOOLEAN

\* The thread that may use _sendEvent, if there is one.
Holders == {t \in Threads : pc[t] \in Holding}

\* _sendEvent has one user at a time, one thread or the OS, and a user only
\* while _sendRegistered is set: no thread re-initialises the OVERLAPPED, the
\* owner or the buffer list while the OS or another thread works with them,
\* however Send calls and completions interleave.
SingleUser ==
  /\ \A t, u \in Holders : t = u
  /\ Len(posted) <= 1
  /\ posted # <<>> => Holders = {}
  /\ posted # <<>> \/ Holders # {} => sendRegistered

\* While the OS may read a batch, the event still holds the session and those
\* very buffers, so their memory lives and the completion finds its owner.
KeptAlive ==
  \A i \in 1..Len(posted) : owner /\ sendBuffers = posted[i]

\* A connected session with waiting buffers always has somebody who will look
\* at the queue: a user of the event, a thread about to test the flag, or one
\* about to disconnect.  The test of an empty queue in ProcessSend and the
\* exchange in Send never both miss a buffer.  Only a refused WSASend strands.
NoLostWakeup ==
  isConnect /\ ~wsaFailed /\ sendQueue # <<>> =>
    \/ posted # <<>>
    \/ \E t \in Threads : pc[t] \in Holding \cup {"exchange", "disconnect"}

\* The batch a thread has gathered and not yet given to WSASend.
Gathered == IF \E t \in Threads : pc[t] = "post" THEN sendBuffers ELSE <<>>

\* Everything accepted that no WSASend has seen.
Pending == Gathered \o sendQueue

\* As long as no WSASend was refused, what callers pushed is what the OS got,
\* then the batch in hand, then the queue: nothing lost, doubled or reordered.
InOrder == ~wsaFailed => accepted = sent \o Pending

\* The sending half implements the outgoing channel: a gathered batch still
\* counts as pending until WSASend takes it (Transmit) or refuses it (Lose).
Channel == INSTANCE SendChannel WITH pending <- Pending
ImplementsChannel == Channel!Spec

\* Every pushed buffer reaches the OS, unless the session is disconnected or a
\* WSASend was refused.  A buffer too large to send ends in a disconnect.
EventuallySent ==
  \A n \in 1..MaxSends :
    (Len(accepted) >= n) ~> (Len(sent) >= n \/ ~isConnect \/ wsaFailed)
==============================================================================
