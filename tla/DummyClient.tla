----------------------------- MODULE DummyClient -----------------------------
(***************************************************************************)
(* The load generator: MainController's button, CleintService with its     *)
(* dispatch threads, and a scenario's actions on native sessions (through  *)
(* DummyClientWrapper), with ServerLib's Connector.                        *)
(*                                                                         *)
(* A click starts threads, sessions and one task per session of the list;  *)
(* when the tasks are over, the UI thread stops and joins the threads,     *)
(* then disconnects and disposes the sessions.  From then on nobody takes  *)
(* completions: what is pending waits in the port for the next test.  Its  *)
(* callbacks then ask the wrapper for the socket, and after Dispose that   *)
(* is an exception on a thread that catches none.                          *)
(*                                                                         *)
(* A session lives as long as its wrapper, which Dispose empties, or an    *)
(* event refers to it.  A closed handle leaves its number in _socket, and  *)
(* the OS may give that to another session's socket: an operation on it    *)
(* may then be accepted, and a second close may hit the other socket.      *)
(*                                                                         *)
(* The buffers are SendPipeline's and ServerRecv's: a completed send finds *)
(* the session's queue empty or not.  Creating and registering a socket do *)
(* not fail here.                                                          *)
(*                                                                         *)
(* Definitions commented "Variant" are no part of the model: each is an    *)
(* action with a plausible bug that a property is shown to catch.          *)
(***************************************************************************)
EXTENDS Integers, FiniteSets

CONSTANTS Workers,    \* numbers of the threads a test starts
          MaxTests,   \* bound: clicks of the button
          MaxListed,  \* bound: sessions in the list at a time
          Sessions,   \* sessions, each created once
          Added,      \* bound: pairs of the sessions there are and those a click adds
          Senders,    \* bound: sessions whose scenario sends
          None        \* no session

ASSUME NoneAssumption == None \notin Sessions
ASSUME ActorAssumption == Workers \cap Sessions = {}
ASSUME TestsAssumption == MaxTests \in Nat

Tests == 1 .. MaxTests
UI == <<0, None>>
Threads == Tests \X Workers
Tasks == Tests \X Sessions
Actors == {UI} \cup Threads \cup Tasks

VARIABLES
  tests,          \* tests started
  awaiting,       \* tests whose OnRunTestClicked awaits its tasks
  isRun,          \* _isRun
  threadPool,     \* _threadPool
  sessions,       \* _sessions
  made,           \* sessions created
  disposed,       \* wrappers whose _native is gone
  dead,           \* native sessions destroyed
  pc,             \* what each thread of the program does next
  cur,            \* the session it deals with, or None
  open,           \* sessions whose _socket is a socket of theirs
  isConnect,      \* sessions with _isConnect set
  registered,     \* sessions with _sendRegistered set
  connecting,     \* ConnectEx the OS works on, or has completed
  recvOwner,      \* sessions whose _recvEvent.owner is set
  receiving,      \* WSARecv the OS works on, or has completed
  sendOwner,      \* sessions whose _sendEvent.owner is set
  sending,        \* WSASend the OS works on, or has completed
  discOwner,      \* sessions whose _disConnectEvent.owner is set
  disconnecting,  \* DisconnectEx the OS works on, or has completed
  leaked,         \* sessions a connect event that nobody frees refers to
  crashed,        \* "no", or what the program ended with
  overlapped,     \* history: a test was started before the last was over
  raced,          \* history: Disconnect was called while one was under way
  refused,        \* history: sessions a WSARecv was refused for
  late            \* history: sessions disposed with an operation pending

service == <<tests, awaiting, isRun, threadPool, sessions, made>>
objects == <<disposed, dead, open>>
events  == <<connecting, receiving, sending, disconnecting>>
owners  == <<recvOwner, sendOwner, discOwner, leaked>>
flags   == <<isConnect, registered>>
history == <<overlapped, raced, refused, late>>
vars == <<service, objects, events, owners, flags, history, pc, cur, crashed>>

------------------------------------------------------------------------------
Go(a, there) == pc' = [pc EXCEPT ![a] = there]

\* Places where a task calls its session through the wrapper.
Calls == {"connect", "sleep", "disconnect"}

\* Actor a is at this place, and the session it calls is there.
At(a, here) ==
  /\ crashed = "no"
  /\ pc[a] = here
  /\ a \in Tasks => cur[a] \notin (IF here \in Calls THEN disposed ELSE dead)

\* The number in a session's _socket may be a socket's, its own or another's.
SomeSocket == open # {}

\* closesocket of that number.
Close(s) ==
  IF s \in open
    THEN open' = open \ {s}
    ELSE \E other \in SUBSET open : Cardinality(other) <= 1 /\ open' = open \ other

\* No receive or connect event, and no thread but a, refers to session s.
Unheld(s, a) ==
  /\ s \notin recvOwner \cup leaked
  /\ connecting[s] = 0
  /\ \A th \in Threads \ {a} : cur[th] # s

\* A reference goes away; with the last one, ~Session runs.
Drop(s, last) ==
  IF last THEN dead' = dead \cup {s} /\ Close(s) ELSE UNCHANGED <<dead, open>>

Init ==
  /\ tests = 0 /\ awaiting = {} /\ isRun = FALSE /\ threadPool = {}
  /\ sessions = {} /\ made = {}
  /\ disposed = {} /\ dead = {} /\ open = {}
  /\ pc = [a \in Actors |-> IF a = UI THEN "free" ELSE "none"]
  /\ cur = [a \in Actors |-> None]
  /\ isConnect = {} /\ registered = {}
  /\ recvOwner = {} /\ sendOwner = {} /\ discOwner = {} /\ leaked = {}
  /\ connecting = [s \in Sessions |-> 0]
  /\ receiving = [s \in Sessions |-> 0]
  /\ sending = [s \in Sessions |-> 0]
  /\ disconnecting = [s \in Sessions |-> 0]
  /\ crashed = "no"
  /\ overlapped = FALSE /\ raced = {} /\ refused = {} /\ late = {}

------------------------------------------------------------------------------
(* The UI thread *)

\* A click: StartTest, with new sessions, and a task for each session there is.
StartTest(new) ==
  /\ At(UI, "free")
  /\ tests < MaxTests
  /\ <<made, new>> \in Added /\ new \cap made = {}
  /\ Cardinality(sessions \cup new) <= MaxListed
  /\ LET t == tests + 1
         listed == sessions \cup new
         mine == {t} \X Workers
         jobs == {t} \X listed
     IN /\ tests' = t
        /\ awaiting' = awaiting \cup {t}
        /\ sessions' = listed
        /\ threadPool' = threadPool \cup mine
        /\ pc' = [a \in Actors |-> IF a \in mine THEN "loop"
                                   ELSE IF a \in jobs THEN "connect" ELSE pc[a]]
        /\ cur' = [a \in Actors |-> IF a \in jobs THEN a[2] ELSE cur[a]]
  /\ isRun' = TRUE
  /\ made' = made \cup new
  /\ overlapped' = (overlapped \/ awaiting # {})
  /\ UNCHANGED <<objects, events, owners, flags, raced, refused, late, crashed>>

\* Task.WhenAll: every task of the test has returned, or has thrown.
TasksDone(t) == \A s \in Sessions : pc[<<t, s>>] \in {"none", "done", "faulted"}
Threw(t) == \E s \in Sessions : pc[<<t, s>>] = "faulted"

\* Variant: the tasks are not awaited.
FinishAtOnce(t) ==
  /\ At(UI, "free")
  /\ t \in awaiting
  /\ awaiting' = awaiting \ {t}
  /\ isRun' = FALSE
  /\ Go(UI, "join")
  /\ UNCHANGED <<tests, threadPool, sessions, made, objects, events, owners, flags,
                 history, cur, crashed>>

\* The await is over, the message confirmed: DisconnectAll begins.
FinishTest(t) ==
  /\ At(UI, "free")
  /\ t \in awaiting
  /\ TasksDone(t) /\ ~Threw(t)
  /\ awaiting' = awaiting \ {t}
  /\ isRun' = FALSE
  /\ Go(UI, "join")
  /\ UNCHANGED <<tests, threadPool, sessions, made, objects, events, owners, flags,
                 history, cur, crashed>>

\* The await throws what a task has thrown, out of the async void handler: a
\* dialog of the form's shows it, and there is no DisconnectAll for this test.
FaultTest(t) ==
  /\ At(UI, "free")
  /\ t \in awaiting
  /\ TasksDone(t) /\ Threw(t)
  /\ awaiting' = awaiting \ {t}
  /\ UNCHANGED <<tests, isRun, threadPool, sessions, made, objects, events, owners, flags,
                 history, pc, cur, crashed>>

\* Variant: the threads are told to stop, and forgotten.
JoinNone ==
  /\ At(UI, "join")
  /\ threadPool' = {}
  /\ Go(UI, "each")
  /\ UNCHANGED <<tests, awaiting, isRun, sessions, made, objects, events, owners, flags,
                 history, cur, crashed>>

\* DisconnectAll has joined every thread of the pool.
Join ==
  /\ At(UI, "join")
  /\ \A th \in threadPool : pc[th] = "end"
  /\ threadPool' = {}
  /\ Go(UI, "each")
  /\ UNCHANGED <<tests, awaiting, isRun, sessions, made, objects, events, owners, flags,
                 history, cur, crashed>>

\* Variant: the session is disposed only.
DisposeOnly(s) ==
  /\ At(UI, "each")
  /\ s \in sessions \ disposed
  /\ cur' = [cur EXCEPT ![UI] = s]
  /\ Go(UI, "dispose")
  /\ UNCHANGED <<service, objects, events, owners, flags, history, crashed>>

\* DisconnectAll's loop: the next session.
NextSession(s) ==
  /\ At(UI, "each")
  /\ s \in sessions \ disposed
  /\ cur' = [cur EXCEPT ![UI] = s]
  /\ Go(UI, "disconnect")
  /\ UNCHANGED <<service, objects, events, owners, flags, history, crashed>>

\* ManagedDummySession's Dispose: the wrapper's reference goes.
Dispose ==
  /\ At(UI, "dispose")
  /\ LET s == cur[UI] IN
       /\ disposed' = disposed \cup {s}
       /\ Drop(s, s \notin discOwner \cup sendOwner /\ Unheld(s, UI))
       /\ late' = IF connecting[s] + receiving[s] + sending[s] + disconnecting[s] > 0
                    THEN late \cup {s} ELSE late
  /\ Go(UI, "each")
  /\ UNCHANGED <<service, events, owners, flags, overlapped, raced, refused, cur,
                 crashed>>

\* _sessions.Clear(), and DisconnectAll returns.
ClearSessions ==
  /\ At(UI, "each")
  /\ sessions \subseteq disposed
  /\ sessions' = {}
  /\ cur' = [cur EXCEPT ![UI] = None]
  /\ Go(UI, "free")
  /\ UNCHANGED <<tests, awaiting, isRun, threadPool, made, objects, events, owners, flags,
                 history, crashed>>

------------------------------------------------------------------------------
(* A task: TestScenario on its session *)

\* The wrapper's _native is null: the exception is the task's.
UseDisposed(a) ==
  /\ crashed = "no"
  /\ pc[a] \in Calls
  /\ cur[a] \in disposed
  /\ Go(a, "faulted")
  /\ UNCHANGED <<service, objects, events, owners, flags, history, cur, crashed>>

\* The native session was destroyed under the task, which holds no reference: the
\* program ends, or shared_from_this throws, or it goes unnoticed.
UseFreed(a) ==
  /\ crashed = "no"
  /\ pc[a] \in {"regSend", "sendClear", "discOwner", "discEx"}
  /\ cur[a] \in dead
  /\ \/ crashed' = "freed" /\ UNCHANGED pc
     \/ Go(a, "faulted") /\ UNCHANGED crashed
     \/ /\ Go(a, IF pc[a] \in {"regSend", "sendClear"} THEN "sleep" ELSE "done")
        /\ UNCHANGED crashed
  /\ UNCHANGED <<service, objects, events, owners, flags, history, cur>>

\* Session.Connect: CreateSocket, RegisterIOCP and Connector::Connect.  The event
\* is posted; or freed, when ConnectEx is refused; or neither, when the socket
\* cannot be bound.
Connect(a) ==
  /\ At(a, "connect")
  /\ open' = open \cup {cur[a]}
  /\ \/ connecting' = [connecting EXCEPT ![cur[a]] = @ + 1] /\ UNCHANGED leaked
     \/ leaked' \in {leaked, leaked \cup {cur[a]}} /\ UNCHANGED connecting
  /\ Go(a, "sleep")
  /\ UNCHANGED <<service, disposed, dead, receiving, sending, disconnecting, recvOwner,
                 sendOwner, discOwner, flags, history, cur, crashed>>

\* The scenario sends a packet, and Session::Send's exchange finds the flag clear.
\* (When it is set, or the session is not connected, Send changes nothing here.)
Send(a) ==
  /\ At(a, "sleep")
  /\ cur[a] \in (isConnect \cap Senders) \ registered
  /\ registered' = registered \cup {cur[a]}
  /\ Go(a, "regSend")
  /\ UNCHANGED <<service, objects, events, owners, history, cur, isConnect, crashed>>

\* The scenario's sends and sleeps are over.
Sleep(a) ==
  /\ crashed = "no"
  /\ pc[a] = "sleep"
  /\ Go(a, "disconnect")
  /\ UNCHANGED <<service, objects, events, owners, flags, history, cur, crashed>>

------------------------------------------------------------------------------
(* Session::RegisterSend, called by a task's Send or a thread's ProcessSend *)

\* Where the caller goes on.
Sent(a) == Go(a, IF a \in Tasks THEN "sleep" ELSE "release")

\* The test, after which the flag stays set; or the owner.
RegisterSend(a) ==
  /\ At(a, "regSend")
  /\ IF cur[a] \in isConnect
       THEN sendOwner' = sendOwner \cup {cur[a]} /\ Go(a, "postSend")
       ELSE UNCHANGED sendOwner /\ Sent(a)
  /\ UNCHANGED <<service, objects, events, recvOwner, discOwner, leaked, flags, history,
                 cur, crashed>>

\* WSASend is accepted.
PostSend(a) ==
  /\ At(a, "postSend")
  /\ SomeSocket
  /\ sending' = [sending EXCEPT ![cur[a]] = @ + 1]
  /\ Sent(a)
  /\ UNCHANGED <<service, objects, connecting, receiving, disconnecting, owners, flags,
                 history, cur, crashed>>

\* Variant: WSASend is refused, and the owner stays, as PostRecv's does.
PostSendKeep(a) ==
  /\ At(a, "postSend")
  /\ Go(a, "sendClear")
  /\ UNCHANGED <<service, objects, events, owners, flags, history, cur, crashed>>

\* WSASend is refused: the owner is reset ...
PostSendFail(a) ==
  /\ At(a, "postSend")
  /\ sendOwner' = sendOwner \ {cur[a]}
  /\ Drop(cur[a], a \in Tasks /\ cur[a] \in disposed \ discOwner /\ Unheld(cur[a], a))
  /\ Go(a, "sendClear")
  /\ UNCHANGED <<service, disposed, events, recvOwner, discOwner, leaked, flags, history,
                 cur, crashed>>

\* ... and then the flag.
ClearSend(a) ==
  /\ At(a, "sendClear")
  /\ registered' = registered \ {cur[a]}
  /\ Sent(a)
  /\ UNCHANGED <<service, objects, events, owners, history, cur, isConnect, crashed>>

------------------------------------------------------------------------------
(* Session::Disconnect, called by any of them *)

\* Where the caller goes on.
Return(a) ==
  Go(a, IF a = UI THEN "dispose" ELSE IF a \in Tasks THEN "done" ELSE "release")

\* Another thread, or the OS, is between Disconnect and the end of its completion.
UnderWay(s, a) ==
  \/ s \in discOwner \/ disconnecting[s] > 0
  \/ \E b \in Actors \ {a} :
       cur[b] = s /\ pc[b] \in {"discOwner", "discEx", "procDisc", "discReset"}

\* Disconnect's _isConnect.store(false).
Disconnect(a) ==
  /\ At(a, "disconnect")
  /\ isConnect' = isConnect \ {cur[a]}
  /\ raced' = IF UnderWay(cur[a], a) THEN raced \cup {cur[a]} ELSE raced
  /\ Go(a, "discOwner")
  /\ UNCHANGED <<service, objects, events, owners, registered, overlapped, refused, late,
                 cur, crashed>>

\* RegisterDisconnect: Init and _disConnectEvent.owner = shared_from_this().
DisconnectOwner(a) ==
  /\ At(a, "discOwner")
  /\ discOwner' = discOwner \cup {cur[a]}
  /\ Go(a, "discEx")
  /\ UNCHANGED <<service, objects, events, recvOwner, sendOwner, leaked, flags, history,
                 cur, crashed>>

\* DisconnectEx is accepted.
DisconnectEx(a) ==
  /\ At(a, "discEx")
  /\ SomeSocket
  /\ disconnecting' = [disconnecting EXCEPT ![cur[a]] = @ + 1]
  /\ Return(a)
  /\ UNCHANGED <<service, objects, connecting, receiving, sending, owners, flags, history,
                 cur, crashed>>

\* DisconnectEx is refused: the owner is reset, whoever set it.
DisconnectExFail(a) ==
  /\ At(a, "discEx")
  /\ discOwner' = discOwner \ {cur[a]}
  /\ Drop(cur[a], a \in Tasks /\ cur[a] \in disposed \ sendOwner /\ Unheld(cur[a], a))
  /\ Return(a)
  /\ UNCHANGED <<service, disposed, events, recvOwner, sendOwner, leaked, flags, history,
                 cur, crashed>>

------------------------------------------------------------------------------
(* The dispatch threads *)

\* The test of _isRun.
Loop(th) ==
  /\ At(th, "loop")
  /\ Go(th, IF isRun THEN "wait" ELSE "end")
  /\ UNCHANGED <<service, objects, events, owners, flags, history, cur, crashed>>

\* Variant: the wait has no limit.
WaitOn(th) ==
  /\ At(th, "wait")
  /\ UNCHANGED vars

\* IOCPCore::Dispatch(100): nothing came.
Timeout(th) ==
  /\ At(th, "wait")
  /\ Go(th, "loop")
  /\ UNCHANGED <<service, objects, events, owners, flags, history, cur, crashed>>

\* IOCPCore::Dispatch: the event's owner is copied and called; a null one ends
\* the program.
Take(th, s, owned, there) ==
  IF owned
    THEN /\ cur' = [cur EXCEPT ![th] = s] /\ Go(th, there)
         /\ UNCHANGED crashed
    ELSE crashed' = "null owner" /\ UNCHANGED <<pc, cur>>

DequeueConnect(th, s) ==
  /\ At(th, "wait")
  /\ connecting[s] > 0
  /\ connecting' = [connecting EXCEPT ![s] = @ - 1]
  /\ Take(th, s, TRUE, "procConnect")
  /\ UNCHANGED <<service, objects, receiving, sending, disconnecting, owners, flags,
                 history>>

\* OnConnected and OnDisConnected print the number GetSocket() has from the
\* wrapper's _native.  When that is null the exception ends the program: it is on
\* a thread of the pool, and Dispatch catches nothing.
Callback(th, there) ==
  IF cur[th] \in disposed THEN crashed' = "callback" /\ UNCHANGED pc
                          ELSE Go(th, there) /\ UNCHANGED crashed

\* ProcessConnect, whether ConnectEx succeeded or failed, up to RegisterRecv.
ProcessConnect(th) ==
  /\ At(th, "procConnect")
  /\ isConnect' = isConnect \cup {cur[th]}
  /\ Callback(th, "register")
  /\ UNCHANGED <<service, objects, events, owners, registered, history, cur>>

\* RegisterRecv: the test, and the owner.
RegisterRecv(th) ==
  /\ At(th, "register")
  /\ IF cur[th] \in isConnect
       THEN recvOwner' = recvOwner \cup {cur[th]} /\ Go(th, "recv")
       ELSE UNCHANGED recvOwner /\ Go(th, "release")
  /\ UNCHANGED <<service, objects, events, sendOwner, discOwner, leaked, flags, history,
                 cur, crashed>>

\* WSARecv is accepted; or refused, and the owner stays.
PostRecv(th) ==
  /\ At(th, "recv")
  /\ \/ /\ SomeSocket
        /\ receiving' = [receiving EXCEPT ![cur[th]] = @ + 1]
        /\ UNCHANGED refused
     \/ refused' = refused \cup {cur[th]} /\ UNCHANGED receiving
  /\ Go(th, "release")
  /\ UNCHANGED <<service, objects, connecting, sending, disconnecting, owners, flags,
                 overlapped, raced, late, cur, crashed>>

DequeueRecv(th, s) ==
  /\ At(th, "wait")
  /\ receiving[s] > 0
  /\ receiving' = [receiving EXCEPT ![s] = @ - 1]
  /\ Take(th, s, s \in recvOwner, "procRecv")
  /\ UNCHANGED <<service, objects, connecting, sending, disconnecting, owners, flags,
                 history>>

\* ProcessRecv: with no bytes a Disconnect, else the next RegisterRecv.
ProcessRecv(th) ==
  /\ At(th, "procRecv")
  /\ recvOwner' = recvOwner \ {cur[th]}
  /\ Go(th, "disconnect") \/ Go(th, "register")
  /\ UNCHANGED <<service, objects, events, sendOwner, discOwner, leaked, flags, history,
                 cur, crashed>>

DequeueSend(th, s) ==
  /\ At(th, "wait")
  /\ sending[s] > 0
  /\ sending' = [sending EXCEPT ![s] = @ - 1]
  /\ Take(th, s, s \in sendOwner, "procSend")
  /\ UNCHANGED <<service, objects, connecting, receiving, disconnecting, owners, flags,
                 history>>

\* ProcessSend: the owner is reset; with no bytes a Disconnect, the flag still
\* set; else there is more to send, or the flag is cleared.
ProcessSend(th) ==
  /\ At(th, "procSend")
  /\ sendOwner' = sendOwner \ {cur[th]}
  /\ \/ Go(th, "disconnect") /\ UNCHANGED registered
     \/ Go(th, "regSend") /\ UNCHANGED registered
     \/ Go(th, "release") /\ registered' = registered \ {cur[th]}
  /\ UNCHANGED <<service, objects, events, recvOwner, discOwner, leaked, history, cur,
                 isConnect, crashed>>

DequeueDisconnect(th, s) ==
  /\ At(th, "wait")
  /\ disconnecting[s] > 0
  /\ disconnecting' = [disconnecting EXCEPT ![s] = @ - 1]
  /\ Take(th, s, s \in discOwner, "procDisc")
  /\ UNCHANGED <<service, objects, connecting, receiving, sending, owners, flags,
                 history>>

\* ProcessDisconnect: shutdown and closesocket.
ProcessDisconnect(th) ==
  /\ At(th, "procDisc")
  /\ Close(cur[th])
  /\ Go(th, "discReset")
  /\ UNCHANGED <<service, disposed, dead, events, owners, flags, history, cur, crashed>>

\* ProcessDisconnect: the owner is reset, and OnDisconnected called.
ResetDisconnectOwner(th) ==
  /\ At(th, "discReset")
  /\ discOwner' = discOwner \ {cur[th]}
  /\ Callback(th, "release")
  /\ UNCHANGED <<service, objects, events, recvOwner, sendOwner, leaked, flags, history,
                 cur>>

\* Dispatch returns: the copied reference goes, with a connect event's.
Release(th) ==
  /\ At(th, "release")
  /\ Drop(cur[th], /\ cur[th] \in disposed \ (discOwner \cup sendOwner)
                   /\ Unheld(cur[th], th))
  /\ cur' = [cur EXCEPT ![th] = None]
  /\ Go(th, "loop")
  /\ UNCHANGED <<service, disposed, events, owners, flags, history, crashed>>

------------------------------------------------------------------------------
Calling(a) == Disconnect(a) \/ DisconnectOwner(a) \/ DisconnectEx(a) \/ DisconnectExFail(a)

Sending(a) == RegisterSend(a) \/ PostSend(a) \/ PostSendFail(a) \/ ClearSend(a)

InDisconnectAll ==
  \/ Join \/ Dispose \/ ClearSessions \/ Calling(UI)
  \/ \E s \in Sessions : NextSession(s)

TaskStep(a) ==
  \/ Connect(a) \/ Send(a) \/ Sleep(a) \/ UseDisposed(a) \/ UseFreed(a)
  \/ Sending(a) \/ Calling(a)

ThreadStep(th) ==
  \/ Loop(th) \/ Timeout(th)
  \/ \E s \in Sessions :
       \/ DequeueConnect(th, s) \/ DequeueRecv(th, s)
       \/ DequeueSend(th, s) \/ DequeueDisconnect(th, s)
  \/ ProcessConnect(th) \/ RegisterRecv(th) \/ PostRecv(th) \/ ProcessRecv(th)
  \/ ProcessSend(th) \/ Sending(th)
  \/ ProcessDisconnect(th) \/ ResetDisconnectOwner(th) \/ Release(th) \/ Calling(th)

Next ==
  \/ \E new \in SUBSET Sessions : StartTest(new)
  \/ \E t \in Tests : FinishTest(t) \/ FaultTest(t)
  \/ InDisconnectAll
  \/ \E a \in Tasks : TaskStep(a)
  \/ \E th \in Threads : ThreadStep(th)

\* The UI thread, in DisconnectAll, and the dispatch threads are scheduled.
Fairness == WF_vars(InDisconnectAll) /\ \A th \in Threads : WF_vars(ThreadStep(th))

Spec == Init /\ [][Next]_vars /\ Fairness

------------------------------------------------------------------------------
(* Properties *)

UIPlaces == {"free", "join", "each", "disconnect", "discOwner", "discEx", "dispose"}
TaskPlaces ==
  {"none", "connect", "sleep", "regSend", "postSend", "sendClear", "disconnect",
   "discOwner", "discEx", "done", "faulted"}
ThreadPlaces ==
  {"none", "loop", "wait", "procConnect", "register", "recv", "procRecv", "procSend",
   "regSend", "postSend", "sendClear", "disconnect", "discOwner", "discEx", "procDisc",
   "discReset", "release", "end"}

\* Every actor is at a place of its own; a task deals with its own session.
Places ==
  /\ pc \in [Actors -> UIPlaces \cup TaskPlaces \cup ThreadPlaces]
  /\ pc[UI] \in UIPlaces
  /\ \A a \in Tasks : pc[a] \in TaskPlaces /\ (pc[a] # "none" => cur[a] = a[2])
  /\ \A th \in Threads : pc[th] \in ThreadPlaces

\* A thread or the UI thread has a session wherever it needs one; nobody of a test
\* that is still to come has begun.
Dealing ==
  /\ cur \in [Actors -> made \cup {None}]
  /\ \A a \in Threads \cup Tasks : a[1] > tests => pc[a] = "none"
  /\ pc[UI] \in {"disconnect", "discOwner", "discEx", "dispose"} => cur[UI] \in sessions
  /\ \A th \in Threads : cur[th] = None <=> pc[th] \in {"none", "loop", "wait", "end"}

Data ==
  /\ tests \in 0 .. MaxTests /\ awaiting \subseteq 1 .. tests /\ isRun \in BOOLEAN
  /\ threadPool \subseteq Threads
  /\ made \subseteq Sessions /\ sessions \subseteq made
  /\ disposed \subseteq made /\ dead \subseteq disposed /\ open \subseteq made
  /\ isConnect \subseteq made /\ registered \subseteq made
  /\ recvOwner \subseteq made /\ sendOwner \subseteq made
  /\ discOwner \subseteq made /\ leaked \subseteq made
  /\ connecting \in [Sessions -> Nat] /\ receiving \in [Sessions -> Nat]
  /\ sending \in [Sessions -> Nat] /\ disconnecting \in [Sessions -> Nat]
  /\ \A s \in Sessions \ made :
       /\ connecting[s] = 0 /\ receiving[s] = 0
       /\ sending[s] = 0 /\ disconnecting[s] = 0
  /\ crashed \in {"no", "callback", "freed", "null owner"}
  /\ overlapped \in BOOLEAN
  /\ raced \subseteq made /\ refused \subseteq made /\ late \subseteq made

\* Every variable keeps its type.
TypeOK == Places /\ Dealing /\ Data

\* DisconnectAll stops first: while it disconnects and disposes, no dispatch
\* thread of any test is left that could use a session, also when tests overlap.
StopsFirst ==
  pc[UI] \in {"each", "disconnect", "discOwner", "discEx", "dispose"}
    => \A th \in Threads : pc[th] \in {"none", "end"}

\* A scenario never runs on a disposed session, whose calls throw, nor on a
\* destroyed one, unless the button was clicked again before the last test was
\* over; so no test is left without its DisconnectAll.
NoUseAfterDispose ==
  \/ overlapped
  \/ /\ crashed # "freed"
     /\ \A a \in Tasks : pc[a] # "faulted" /\ (cur[a] \in disposed => pc[a] = "done")

\* Disconnecting a session again, as DisconnectAll does with every session its
\* scenario has disconnected, is harmless unless the first is still under way;
\* so a completion finds its owner.
OwnedUnlessRaced ==
  /\ \A s \in Sessions \ raced : disconnecting[s] > 0 => s \in discOwner
  /\ crashed = "null owner" => raced # {} \/ overlapped

\* The threads of a test deal with no session an earlier test has disposed, unless
\* an operation of it was pending then.  The callback of such a late completion
\* is the only one that can find its wrapper empty.
LateOnly ==
  \/ overlapped
  \/ /\ \A th \in Threads : cur[th] \in disposed => cur[th] \in late
     /\ crashed = "callback" => late # {}

\* The tool does not end by an exception, and no task throws one, except: the
\* button was clicked too early; Disconnect was called into the middle of another;
\* or a session was disposed with an operation pending, and the next test takes
\* its completion.
Survives == TypeOK /\ NoUseAfterDispose /\ OwnedUnlessRaced /\ LateOnly

\* A session the service has let go is destroyed, or what keeps it is an operation
\* still pending or somebody who deals with it.  Nothing else does, the wrapper's
\* own reference and a send's included, except a refused WSARecv, a connect event
\* that is not freed, and a Disconnect into the middle of another.  (A pending
\* receive or send lets the session go when it completes; a connect or disconnect
\* calls the wrapper back and ends the program, as Survives says.)
FreedAtLast ==
  \A s \in made \ (sessions \cup dead \cup refused \cup leaked \cup raced) :
    \/ connecting[s] + receiving[s] + sending[s] + disconnecting[s] > 0
    \/ \E a \in Actors : cur[a] = s /\ pc[a] \notin {"done", "faulted"}

\* A disposed session, which no list has any more, is not connected while the
\* program runs, also when its ConnectEx was pending and completes in the next
\* test; so no thread posts a receive or a send of it again.
NoOrphan ==
  /\ crashed = "no" => isConnect \cap disposed = {}
  /\ \A th \in Threads : pc[th] \in {"recv", "postSend"} => cur[th] \notin disposed

\* DisconnectAll, called on the UI thread, always returns: the threads it joins
\* notice _isRun within one timeout, whatever they are at.
UIResponds == pc[UI] = "join" ~> (pc[UI] = "free" \/ crashed # "no")
==============================================================================
