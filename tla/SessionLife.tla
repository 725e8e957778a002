----------------------------- MODULE SessionLife -----------------------------
(***************************************************************************)
(* How ServerLib's sessions are born, connected, disconnected and freed:   *)
(* Listener (Listener.cpp), IOCPServer's set of sessions (IOCPServer.cpp), *)
(* the connection half of Session (Session.cpp), and the completion port   *)
(* that hands finished operations to the workers (IOCPCore.cpp).           *)
(*                                                                         *)
(* The OS keeps raw pointers to a session's events; what keeps the session *)
(* alive is the shared_ptr "owner" in the event, so owners and operations  *)
(* must match.  A session is destroyed by whoever drops its last           *)
(* reference, and closes its socket handle, which ProcessDisconnect may    *)
(* have closed already; the OS reuses the numbers of closed handles.       *)
(*                                                                         *)
(* Sends and receives appear here as "an operation is pending"; their      *)
(* protocols are modules SendPipeline and ServerRecv.                      *)
(*                                                                         *)
(* Definitions commented "Variant" are no part of the model: each is an    *)
(* action with a plausible bug that a property is shown to catch.          *)
(***************************************************************************)
EXTENDS Integers, FiniteSets, Functions

CONSTANTS Sessions,   \* session objects, each created once (this bounds the run)
          Handles,    \* SOCKET values of the process
          Slots,      \* accept events of the listener
          Workers,    \* threads that run IOCPServer::Dispatch
          None        \* no session, no slot

ASSUME NoneAssumption == None \notin Sessions \cup Slots

VARIABLES
  made,          \* sessions created so far
  dead,          \* sessions destroyed
  handle,        \* Session::_socket
  openedBy,      \* the session each open handle was created for, or None
  isConnect,     \* the sessions with _isConnect set
  sessions,      \* IOCPServer::_sessions
  slot,          \* AcceptEvent::session of each accept event
  accepting,     \* accept events the OS works on, or has completed
  recvOwner,     \* sessions whose _recvEvent.owner is set
  receiving,     \* sessions with a WSARecv the OS works on, or has completed
  sending,       \* the same for WSASend; its owner is set exactly then
  discOwner,     \* sessions whose _disConnectEvent.owner is set
  disconnecting, \* number of DisconnectEx the OS works on, or has completed
  pc,            \* what each worker does next
  at,            \* the accept event it deals with, or None
  cur,           \* the session it deals with, or None
  held,          \* the sessions its local shared_ptrs hold
  calls,         \* history: calls of Disconnect on each session
  refused,       \* history: sessions a WSARecv or DisconnectEx was refused for
  foreign,       \* history: a handle was closed that is another session's
  crashed        \* "no", or the null pointer that has ended the program

sockets == <<handle, openedBy, foreign>>
objects == <<made, dead, held>>
io == <<accepting, receiving, sending, disconnecting>>
owners == <<recvOwner, discOwner>>
history == <<calls, refused>>
vars == <<sockets, objects, io, owners, history, isConnect, sessions, slot,
          pc, at, cur, crashed>>

------------------------------------------------------------------------------
Go(w, there) == pc' = [pc EXCEPT ![w] = there]

At(w, here) == crashed = "no" /\ pc[w] = here

\* Nothing but worker w, and accept event k, refers to session s.
Unreferenced(s, w, k) ==
  /\ s \notin sessions \cup recvOwner \cup discOwner \cup sending
  /\ \A j \in Slots \ {k} : slot[j] # s
  /\ \A u \in Workers \ {w} : s \notin held[u]

\* closesocket of the handle kept in session s.
Close(s) ==
  /\ openedBy' = [openedBy EXCEPT ![handle[s]] = None]
  /\ foreign' = (foreign \/ openedBy[handle[s]] \notin {s, None})
  /\ UNCHANGED handle

\* A reference to session s goes away; with the last one, ~Session runs.
Drop(s, last) ==
  IF last
    THEN dead' = dead \cup {s} /\ Close(s)
    ELSE UNCHANGED <<dead, sockets>>

\* A worker is done with an operation and its local references.
Idle(w) ==
  /\ Go(w, "idle")
  /\ at' = [at EXCEPT ![w] = None]
  /\ cur' = [cur EXCEPT ![w] = None]

\* The listener has started: each accept event has a session and is accepting.
Init ==
  /\ slot \in Injection(Slots, Sessions)
  /\ made = Range(slot)
  /\ \E h \in Injection(made, Handles) :
       /\ handle = [s \in Sessions |-> IF s \in made THEN h[s] ELSE None]
       /\ openedBy = [x \in Handles |-> IF x \in Range(h)
                                          THEN CHOOSE s \in made : h[s] = x
                                          ELSE None]
  /\ accepting = Slots
  /\ dead = {} /\ isConnect = {} /\ sessions = {}
  /\ recvOwner = {} /\ receiving = {} /\ sending = {} /\ discOwner = {}
  /\ disconnecting = [s \in Sessions |-> 0]
  /\ pc = [w \in Workers |-> "idle"]
  /\ at = [w \in Workers |-> None]
  /\ cur = [w \in Workers |-> None]
  /\ held = [w \in Workers |-> {}]
  /\ calls = [s \in Sessions |-> 0]
  /\ refused = {}
  /\ foreign = FALSE
  /\ crashed = "no"

------------------------------------------------------------------------------
(* Listener *)

\* An accept completes: ProcessAccept has its session.
DequeueAccept(w, k) ==
  /\ At(w, "idle")
  /\ k \in accepting
  /\ accepting' = accepting \ {k}
  /\ at' = [at EXCEPT ![w] = k]
  /\ cur' = [cur EXCEPT ![w] = slot[k]]
  /\ Go(w, "sockopt")
  /\ UNCHANGED <<sockets, objects, receiving, sending, disconnecting, owners,
                 history, isConnect, sessions, slot, crashed>>

\* Variant: a connection that cannot be set up ends the accepting.
AcceptAbandoned(w) ==
  /\ At(w, "sockopt")
  /\ Idle(w)
  /\ UNCHANGED <<sockets, objects, io, owners, history, isConnect, sessions,
                 slot, crashed>>

\* Variant: the socket of a connection that is gone is closed at once.
AcceptFailedClosing(w) ==
  /\ At(w, "sockopt")
  /\ Close(cur[w])
  /\ Go(w, "create")
  /\ UNCHANGED <<objects, io, owners, history, isConnect, sessions, slot, at, cur,
                 crashed>>

\* The accepted socket has no peer any more: on to a new session.
AcceptFailed(w) ==
  /\ At(w, "sockopt")
  /\ Go(w, "create")
  /\ UNCHANGED <<sockets, objects, io, owners, history, isConnect, sessions,
                 slot, at, cur, crashed>>

\* IOCPServer::AddSession
AddSession(w) ==
  /\ At(w, "sockopt")
  /\ sessions' = sessions \cup {cur[w]}
  /\ Go(w, "connect")
  /\ UNCHANGED <<sockets, objects, io, owners, history, isConnect, slot, at,
                 cur, crashed>>

\* ProcessConnect, up to RegisterRecv.
ProcessConnect(w) ==
  /\ At(w, "connect")
  /\ isConnect' = isConnect \cup {cur[w]}
  /\ Go(w, "regCheck")
  /\ UNCHANGED <<sockets, objects, io, owners, history, sessions, slot, at,
                 cur, crashed>>

\* acceptEvent->session = nullptr, which may be the last reference.
ForgetAccepted(w) ==
  /\ At(w, "forget")
  /\ slot' = [slot EXCEPT ![at[w]] = None]
  /\ Drop(cur[w], Unreferenced(cur[w], w, at[w]))
  /\ Go(w, "create")
  /\ UNCHANGED <<made, held, io, owners, history, isConnect, sessions, at, cur,
                 crashed>>

\* RegisterAccept: CreateSession makes a session with a handle that is free.
CreateSession(w, s, h) ==
  /\ At(w, "create")
  /\ s \notin made
  /\ openedBy[h] = None
  /\ made' = made \cup {s}
  /\ handle' = [handle EXCEPT ![s] = h]
  /\ openedBy' = [openedBy EXCEPT ![h] = s]
  /\ held' = [held EXCEPT ![w] = held[w] \cup {s}]
  /\ cur' = [cur EXCEPT ![w] = s]
  /\ Go(w, "assign")
  /\ UNCHANGED <<dead, foreign, io, owners, history, isConnect, sessions, slot,
                 at, crashed>>

\* A session whose socket cannot be made, or registered with the port, is freed
\* at once and CreateSession returns nullptr: RegisterAccept puts that in the event
\* and calls through it.
CreateSessionFails(w) ==
  /\ At(w, "create")
  /\ LET k == at[w] IN
       /\ slot' = [slot EXCEPT ![k] = None]
       /\ Drop(slot[k], slot[k] # None /\ Unreferenced(slot[k], w, k))
  /\ Idle(w)
  /\ crashed' = "session"
  /\ UNCHANGED <<made, held, io, owners, history, isConnect, sessions>>

\* RegisterAccept: the event gets the session, in place of one it may have.
AssignSession(w) ==
  /\ At(w, "assign")
  /\ LET k == at[w] IN
       /\ slot' = [slot EXCEPT ![k] = cur[w]]
       /\ Drop(slot[k], slot[k] # None /\ Unreferenced(slot[k], w, k))
  /\ Go(w, "accept")
  /\ UNCHANGED <<made, held, io, owners, history, isConnect, sessions, at, cur,
                 crashed>>

\* AcceptEx is accepted.
AcceptEx(w) ==
  /\ At(w, "accept")
  /\ accepting' = accepting \cup {at[w]}
  /\ at' = [at EXCEPT ![w] = None]
  /\ Go(w, "release")
  /\ UNCHANGED <<sockets, objects, receiving, sending, disconnecting, owners,
                 history, isConnect, sessions, slot, cur, crashed>>

\* AcceptEx is refused: RegisterAccept calls itself, for a new session.
AcceptExFail(w) ==
  /\ At(w, "accept")
  /\ slot' = [slot EXCEPT ![at[w]] = None]
  /\ Go(w, "create")
  /\ UNCHANGED <<sockets, objects, io, owners, history, isConnect, sessions, at,
                 cur, crashed>>

------------------------------------------------------------------------------
(* Session: RegisterRecv *)

\* Where a worker goes when RegisterRecv returns.
AfterRegister(w) == IF at[w] = None THEN "release" ELSE "forget"

RegisterCheck(w) ==
  /\ At(w, "regCheck")
  /\ Go(w, IF cur[w] \in isConnect THEN "regOwner" ELSE AfterRegister(w))
  /\ UNCHANGED <<sockets, objects, io, owners, history, isConnect, sessions,
                 slot, at, cur, crashed>>

\* Variant: the reference is forgotten.
RegisterUnowned(w) ==
  /\ At(w, "regOwner")
  /\ Go(w, "recv")
  /\ UNCHANGED <<sockets, objects, io, owners, history, isConnect, sessions,
                 slot, at, cur, crashed>>

\* _recvEvent.owner = shared_from_this()
RegisterOwner(w) ==
  /\ At(w, "regOwner")
  /\ recvOwner' = recvOwner \cup {cur[w]}
  /\ Go(w, "recv")
  /\ UNCHANGED <<sockets, objects, io, discOwner, history, isConnect, sessions,
                 slot, at, cur, crashed>>

\* Variant: a receive that succeeds at once is handled at once.
PostRecvInline(w) ==
  /\ At(w, "recv")
  /\ openedBy[handle[cur[w]]] # None
  /\ receiving' = receiving \cup {cur[w]}
  /\ Go(w, "procRecv")
  /\ UNCHANGED <<sockets, objects, accepting, sending, disconnecting, owners,
                 history, isConnect, sessions, slot, at, cur, crashed>>

\* WSARecv on an open handle is accepted.
PostRecv(w) ==
  /\ At(w, "recv")
  /\ openedBy[handle[cur[w]]] # None
  /\ receiving' = receiving \cup {cur[w]}
  /\ Go(w, AfterRegister(w))
  /\ UNCHANGED <<sockets, objects, accepting, sending, disconnecting, owners,
                 history, isConnect, sessions, slot, at, cur, crashed>>

\* WSARecv is refused: the owner stays.
PostRecvFail(w) ==
  /\ At(w, "recv")
  /\ refused' = refused \cup {cur[w]}
  /\ Go(w, AfterRegister(w))
  /\ UNCHANGED <<sockets, objects, io, owners, calls, isConnect, sessions, slot,
                 at, cur, crashed>>

------------------------------------------------------------------------------
(* Session: completions *)

\* IOCPCore::Dispatch: the owner is copied, and dispatches to the session.
TakeOwner(w, s, there) ==
  /\ held' = [held EXCEPT ![w] = {s}]
  /\ cur' = [cur EXCEPT ![w] = s]
  /\ Go(w, there)
  /\ UNCHANGED <<sockets, made, dead, accepting, owners, history, isConnect,
                 sessions, slot, at, crashed>>

DequeueRecv(w, s) ==
  /\ At(w, "idle")
  /\ s \in receiving
  /\ receiving' = receiving \ {s}
  /\ TakeOwner(w, s, "procRecv")
  /\ UNCHANGED <<sending, disconnecting>>

\* Variant: with no bytes, it just returns.
ProcessRecvQuits(w) ==
  /\ At(w, "procRecv")
  /\ recvOwner' = recvOwner \ {cur[w]}
  /\ \/ Go(w, "release")
     \/ Go(w, "regCheck")
  /\ UNCHANGED <<sockets, objects, io, discOwner, history, isConnect, sessions,
                 slot, at, cur, crashed>>

\* ProcessRecv: with no bytes a Disconnect, else the next RegisterRecv.
ProcessRecv(w) ==
  /\ At(w, "procRecv")
  /\ recvOwner' = recvOwner \ {cur[w]}
  /\ \/ Go(w, "disconnect")
     \/ Go(w, "regCheck")
  /\ UNCHANGED <<sockets, objects, io, discOwner, history, isConnect, sessions,
                 slot, at, cur, crashed>>

\* BroadCast to a connected session: one more WSASend.
Send(s) ==
  /\ crashed = "no"
  /\ s \in sessions \cap isConnect
  /\ s \notin sending
  /\ sending' = sending \cup {s}
  /\ UNCHANGED <<sockets, objects, accepting, receiving, disconnecting, owners,
                 history, isConnect, sessions, slot, pc, at, cur, crashed>>

\* ProcessSend: with no bytes a Disconnect.
DequeueSend(w, s) ==
  /\ At(w, "idle")
  /\ s \in sending
  /\ sending' = sending \ {s}
  /\ TakeOwner(w, s, "disconnect") \/ TakeOwner(w, s, "release")
  /\ UNCHANGED <<receiving, disconnecting>>

\* Disconnect's _isConnect.store(false).
Disconnect(w) ==
  /\ At(w, "disconnect")
  /\ isConnect' = isConnect \ {cur[w]}
  /\ calls' = [calls EXCEPT ![cur[w]] = calls[cur[w]] + 1]
  /\ Go(w, "discOwner")
  /\ UNCHANGED <<sockets, objects, io, owners, refused, sessions, slot, at, cur,
                 crashed>>

\* RegisterDisconnect: Init and _disConnectEvent.owner = shared_from_this().
DisconnectOwner(w) ==
  /\ At(w, "discOwner")
  /\ discOwner' = discOwner \cup {cur[w]}
  /\ Go(w, "discEx")
  /\ UNCHANGED <<sockets, objects, io, recvOwner, history, isConnect, sessions,
                 slot, at, cur, crashed>>

\* DisconnectEx on an open handle is accepted.
DisconnectEx(w) ==
  /\ At(w, "discEx")
  /\ openedBy[handle[cur[w]]] # None
  /\ disconnecting' = [disconnecting EXCEPT ![cur[w]] = disconnecting[cur[w]] + 1]
  /\ Go(w, "release")
  /\ UNCHANGED <<sockets, objects, accepting, receiving, sending, owners,
                 history, isConnect, sessions, slot, at, cur, crashed>>

\* DisconnectEx is refused: the owner is reset, whoever set it.
DisconnectExFail(w) ==
  /\ At(w, "discEx")
  /\ discOwner' = discOwner \ {cur[w]}
  /\ refused' = refused \cup {cur[w]}
  /\ Go(w, "release")
  /\ UNCHANGED <<sockets, objects, io, recvOwner, calls, isConnect, sessions,
                 slot, at, cur, crashed>>

\* The completion of a DisconnectEx; without an owner, IOCPCore::Dispatch calls
\* through a null pointer.
DequeueDisconnect(w, s) ==
  /\ At(w, "idle")
  /\ disconnecting[s] > 0
  /\ disconnecting' = [disconnecting EXCEPT ![s] = disconnecting[s] - 1]
  /\ \/ s \in discOwner /\ TakeOwner(w, s, "procDisc")
     \/ s \notin discOwner
        /\ crashed' = "owner"
        /\ UNCHANGED <<sockets, objects, accepting, owners, history, isConnect,
                       sessions, slot, pc, at, cur>>
  /\ UNCHANGED <<receiving, sending>>

\* ProcessDisconnect: shutdown and closesocket.
ProcessDisconnect(w) ==
  /\ At(w, "procDisc")
  /\ Close(cur[w])
  /\ Go(w, "discReset")
  /\ UNCHANGED <<objects, io, owners, history, isConnect, sessions, slot, at,
                 cur, crashed>>

\* ProcessDisconnect: the owner is reset, OnDisconnected is called.
ResetDisconnectOwner(w) ==
  /\ At(w, "discReset")
  /\ discOwner' = discOwner \ {cur[w]}
  /\ Go(w, "delete")
  /\ UNCHANGED <<sockets, objects, io, recvOwner, history, isConnect, sessions,
                 slot, at, cur, crashed>>

\* IOCPServer::DeleteSession
DeleteSession(w) ==
  /\ At(w, "delete")
  /\ sessions' = sessions \ {cur[w]}
  /\ Go(w, "release")
  /\ UNCHANGED <<sockets, objects, io, owners, history, isConnect, slot, at,
                 cur, crashed>>

\* A local shared_ptr of the worker goes out of scope.
Release(w, s) ==
  /\ At(w, "release")
  /\ s \in held[w]
  /\ held' = [held EXCEPT ![w] = held[w] \ {s}]
  /\ Drop(s, Unreferenced(s, w, None))
  /\ IF held[w] = {s} THEN Idle(w) ELSE UNCHANGED <<pc, at, cur>>
  /\ UNCHANGED <<made, io, owners, history, isConnect, sessions, slot, crashed>>

------------------------------------------------------------------------------
Next ==
  \/ \E s \in Sessions : Send(s)
  \/ \E w \in Workers :
       \/ \E k \in Slots : DequeueAccept(w, k)
       \/ AcceptFailed(w) \/ AddSession(w) \/ ProcessConnect(w)
       \/ ForgetAccepted(w)
       \/ \E s \in Sessions, h \in Handles : CreateSession(w, s, h)
       \/ CreateSessionFails(w)
       \/ AssignSession(w) \/ AcceptEx(w) \/ AcceptExFail(w)
       \/ RegisterCheck(w) \/ RegisterOwner(w) \/ PostRecv(w) \/ PostRecvFail(w)
       \/ \E s \in Sessions : DequeueRecv(w, s) \/ DequeueSend(w, s)
       \/ ProcessRecv(w)
       \/ Disconnect(w) \/ DisconnectOwner(w)
       \/ DisconnectEx(w) \/ DisconnectExFail(w)
       \/ \E s \in Sessions : DequeueDisconnect(w, s)
       \/ ProcessDisconnect(w) \/ ResetDisconnectOwner(w) \/ DeleteSession(w)
       \/ \E s \in Sessions : Release(w, s)

Spec == Init /\ [][Next]_vars

------------------------------------------------------------------------------
(* Properties *)

AcceptPlaces == {"sockopt", "connect", "forget", "create", "assign", "accept"}
RecvPlaces == {"regCheck", "regOwner", "recv", "procRecv"}
OtherPlaces == {"idle", "disconnect", "discOwner", "discEx", "procDisc",
                "discReset", "delete", "release"}

\* Every variable keeps its type; an accept event that is accepting has a
\* session for the connection, and so has every worker that deals with one.
TypeOK ==
  /\ \A k \in accepting : slot[k] # None
  /\ \A w \in Workers : cur[w] = None => pc[w] = "idle"
  /\ made \subseteq Sessions /\ dead \subseteq made
  /\ handle \in [Sessions -> Handles \cup {None}]
  /\ openedBy \in [Handles -> made \cup {None}]
  /\ isConnect \subseteq made /\ sessions \subseteq made
  /\ slot \in [Slots -> made \cup {None}]
  /\ accepting \subseteq Slots
  /\ recvOwner \subseteq made /\ receiving \subseteq made
  /\ sending \subseteq made /\ discOwner \subseteq made
  /\ disconnecting \in [Sessions -> Nat]
  /\ pc \in [Workers -> AcceptPlaces \cup RecvPlaces \cup OtherPlaces]
  /\ at \in [Workers -> Slots \cup {None}]
  /\ cur \in [Workers -> made \cup {None}]
  /\ held \in [Workers -> SUBSET made]
  /\ calls \in [Sessions -> Nat]
  /\ refused \subseteq made
  /\ foreign \in BOOLEAN
  /\ crashed \in {"no", "owner", "session"}

\* While an operation is pending, its event holds the session; for a disconnect
\* this needs that Disconnect was called once only.  So a completion finds an
\* owner, and not a null pointer.
PendingOwned ==
  /\ \A s \in Sessions :
       /\ s \in receiving => s \in recvOwner
       /\ calls[s] <= 1 /\ disconnecting[s] > 0 => s \in discOwner
  /\ crashed = "owner" => \E s \in Sessions : calls[s] >= 2

\* Nothing that is still in use refers to a destroyed session: no operation of
\* the OS (again but for a session disconnected twice), no accept event, and no
\* worker that is not done with it.
NoDangling ==
  \A s \in dead :
    /\ s \notin receiving
    /\ calls[s] <= 1 => disconnecting[s] = 0
    /\ \A k \in accepting : slot[k] # s
    /\ \A w \in Workers : cur[w] = s => pc[w] \in {"create", "release"}

\* References are right: the type invariant and both of the above.
References == TypeOK /\ PendingOwned /\ NoDangling

\* BroadCast reaches every connected session: it is in the server's set.
Listed == isConnect \subseteq sessions

\* A session has one chain of receives: two threads, or a thread and the OS,
\* never use its receive buffer at a time, although ProcessConnect and
\* ProcessRecv both register and Disconnect comes from anywhere.
OneChain ==
  \A s \in Sessions :
    LET users == {w \in Workers : cur[w] = s /\ pc[w] \in RecvPlaces \cup {"connect"}}
    IN Cardinality(users) + (IF s \in receiving THEN 1 ELSE 0) <= 1

\* Each accept event is either accepting or in the hands of one worker that
\* will register it again: the listener never stops accepting for good, but with
\* the whole program, when CreateSession fails.
SlotNeverLost ==
  \/ crashed = "session"
  \/ \A k \in Slots :
       LET users == {w \in Workers : at[w] = k}
       IN Cardinality(users) + (IF k \in accepting THEN 1 ELSE 0) = 1

\* A session in the server's set can still leave it: an operation is pending or
\* a worker deals with it, unless the OS refused one.  Disconnected sessions do
\* not stay behind in the set.
NoZombie ==
  \A s \in sessions \ refused :
    \/ crashed # "no"
    \/ s \in receiving
    \/ disconnecting[s] > 0
    \/ \E w \in Workers :
         cur[w] = s /\ pc[w] \in RecvPlaces \cup
           {"connect", "disconnect", "discOwner", "discEx", "procDisc",
            "discReset", "delete"}

\* The server's set is right: it has every connected session, and no other one
\* for good.
ServerSet == Listed /\ NoZombie

\* A session has its own open socket until it is disconnected, and nobody else
\* closes it, except after a session that was disconnected: its number is closed
\* by ProcessDisconnect and again by the destructor, which SocketUtil::CloseSocket's
\* comment, "if the socket is valid, close it", does not expect; the number may
\* be a new session's by then.
OwnSocket ==
  \/ foreign /\ \E s \in Sessions : calls[s] > 0
  \/ /\ ~foreign
     /\ \A s \in made \ dead : calls[s] = 0 => openedBy[handle[s]] = s
==============================================================================
