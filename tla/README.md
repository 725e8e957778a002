# A TLA+ model of Dongle-Multi

Dongle-Multi is a two-player dongle-merging game: a C++ server over Windows
completion ports (`src/Server/ServerLib`, `src/Server/GameServer`), a Unity
client (`src/Client/Assets/Scripts`), a load generator (`src/DummyClient`) and
packet generators. This directory models the concurrent core of it in TLA+,
checks small instances with TLC, and proves the main results for every instance
with TLAPS.

## 1. Inventory

| Component | State it keeps | Operations | What is hard |
|---|---|---|---|
| Session, send half (`Session.cpp:51-147`) | `_isConnect`, `_sendQueue` under `_sendLock`, `_sendRegistered`, one `_sendEvent` (owner, buffers) | `Send`, `RegisterSend`, `ProcessSend` | one OVERLAPPED shared by all senders and completions; flag against queue; buffers alive while the OS reads; refused `WSASend`; size limit |
| Session, receive half (`Session.cpp:149-212`, `RecvBuffer.cpp`) | `_recvEvent`, buffer with read and write position | `RegisterRecv`, `ProcessRecv`, `OnWirte`, `Clean` | frames cut anywhere; buffer limit; zero-byte receives |
| Session life cycle (`Session.cpp:218-262`, `Listener.cpp`, `IOCPServer.cpp`, `IOCPCore.cpp`) | set of sessions, accept events, event owners (shared_ptr), socket handles | accept, connect, broadcast, disconnect, delete, destroy | references against pending operations; two disconnects of one session; reuse of closed handles |
| Connector (`Connector.cpp`) | a connect event per call, with a reference to the session | `Connect`, `RegisterConnect`, `Dispatch` | the two failure paths, one of which leaks the event; completions that come late |
| Job system (`JobQueue.cpp`, `JobManager.cpp`, `IOCPServer::DispatchJob`) | per queue: jobs, lock, `_isProcessing`; the manager's queue of queues | `PushJob`, `Pop`, `TryExcute` | a queue popped while it runs; order across workers |
| DoubleJobQueue and frame loop (`DoubleJobQueue.cpp`, `main.cpp`) | two queues | `InsertJob`, `ExecuteJob`, `SwapQueue` | inserting while swapping; execution without the lock |
| IDGenerator (`IDGenerator.h`) | bitset, rotating start, mutex | `GenerateID`, `ReleaseID` | 16-bit wrap, exhaustion |
| GameServer, PlayerSession, ServerPacketHandler, Map | handler table | callbacks that print | none at this commit |
| MyPacket relay (`GameServer/MyPacket`) | the server's room, which is not in the repository | enter, ready, dongles, merge; not compiled at this commit | replies in the order of the room's job queue |
| Unity client session (`NetWork/Session.cs`, `RecvBuffer.cs`) | send queue and pending list under a reentrant lock, `_sendArgs`, receive buffer, `_disconnected` | `Start`, `Send`, `RegisterSend`, `RegisterRecv`, completions, `Disconnect` | sends before `Start`; completions inside the call; exceptions that skip the re-registration; disconnect against pending operations |
| Unity client `Connector`, `NetWorkManager` | the session | `Connect`, `Send`, `OnDestroy` | callers of the session, at any time |
| Unity client, packets to jobs (`ClientPacketHandler.cs`, `GameManager.cs`) | `PlayerID`, `jobQueue` | the handlers, `CreateJob`, `Update` | network thread against frames on a queue without a lock; handlers that throw |
| Unity client room (`Room.cs`) | ids, readiness of both players | `Start`, `EnterRoom`, `PlayerReady`, `EnemyReady`, `ExitRoom`, `GameStart` | packets in any order, several visits; the id copied before it is there |
| Unity client, player's dongles (`PlayerDongleSpawner.cs`, `PlayerDongle.cs`) | map of dongles, states last sent, score | spawn, drop, merge, the coroutine that sends changes | merges between two turns; dongles of the highest level |
| Unity client, the opponent's dongles (`DongleSpawner.cs`, `DonglePool.cs`) | map, pool, reserved ids, score | `UpdateDongle`, `DeleteDongle` | merges that overtake updates; objects used again; exceptions half way |
| DummyClient (`CleintService.cs`, `MainController.cs`, wrapper) | threads, sessions, tasks; one reference per wrapper | `StartTest`, scenario, `DisconnectAll`, `Dispose` | joining before disconnecting; completions nobody takes until the next test, and their callbacks on a disposed wrapper; a second click during a test |
| Packet generators, generated code, libraries, assets | - | build time | - |

How they interact. Workers of the server loop on `IOCPServer::Dispatch`: each
takes one completion from the port, copies the owner out of the event and calls
its `Dispatch`. The listener's completions create sessions; a session's
completions drive its send and receive chains, and its disconnect, which takes
it out of the server's set. Any thread may call `Send` (handlers, `BroadCast`
under the server's lock). Jobs are pushed from handlers to job queues, which
workers run through `DispatchJob`, or to the double queue that the main thread
runs once a frame. The client has one session to the server; its handlers turn
packets into jobs that `GameManager.Update` runs, which call the room, and the
room the opponent's spawner. The player's own spawner sends through the session.
The load generator links the server library through a C++/CLI wrapper: its tasks
connect sessions, send and disconnect, its threads dispatch their completions, with
callbacks into the C# session, and the form's thread stops both.

What makes each part correct is section 4, property by property. The hazards the
properties are aimed at, each with its line, are in `PROJECT.json` ("hazards").

## 2. Modules

| Module | Models | Composes with |
|---|---|---|
| `SendChannel` | abstract: an outgoing FIFO channel | implemented by `SendPipeline` and `ClientSend` |
| `SendPipeline` | the send half of `Session` | `MCSendPipeline`, `SendPipelineProofs` |
| `SerialExecutor` | abstract: each queue runs its jobs one by one, in order | implemented by `JobDispatch` |
| `JobDispatch` | `JobQueue`, `JobManager`, `DispatchJob` | `MCJobDispatch`, `ServerProofs` |
| `FrameQueue` | `DoubleJobQueue` and the frame loop | `MCFrameQueue`, `ServerProofs` |
| `IDGenerator` | `IDGenerator` | `MCIDGenerator`, `ServerProofs` |
| `FrameStream` | the byte stream of a connection, cut into frames | extended by `ServerRecv` and `ClientRecv` |
| `ServerRecv` | the receive half of `Session` and `RecvBuffer` | `MCServerRecv`, `ServerRecvProofs` |
| `SessionLife` | listener, server set, connect and disconnect, event owners, handles | `MCSessionLife`, `SessionLifeProofs` |
| `ClientSend` | the send half of the Unity client's `Session`, with `Start` and `Disconnect` | `MCClientSend`, `ClientSendProofs` |
| `ClientRecv` | its receive half, its `RecvBuffer`, and the decoding of packets | `MCClientRecv`, `ClientRecvProofs` |
| `DongleMirror` | the player's dongles, the packets of changes and merges, the opponent's mirror | `MCDongleMirror`, `GameProofs` |
| `GameRoom` | packet handlers, `GameManager`'s queue, `Room`, with the server's replies | `MCGameRoom`, `GameProofs` |
| `DummyClient` | the load generator, its wrapper, `Connector` and the library's sessions under them | `MCDummyClient`, `DummyClientProofs` |

### How state and actions correspond to the code

`SendPipeline`. One action per atomic access, critical section and system call:
`SendCheck`, `SendPush`, `SendExchange` are `Session::Send`; `RegisterCheck`,
`RegisterInit`, `RegisterGather`, `PostSend` or `PostFail`, `FailClear`,
`FailStore` are `RegisterSend`; `DequeueSend` is the completion port,
`ProcessSend`, `ProcessSendZero`, `ProcessSendCheck` are `ProcessSend`. The loop
that fills the batch is one step under `_sendLock`, defined by where it stops
(`GatherStops`). `posted` is a sequence, so the model could have two operations
on the one OVERLAPPED; `SingleUser` says it never has.

`JobDispatch`. `PushJob` and `Notify` are the two halves of `JobQueue::PushJob`,
which holds the queue's lock while it calls the manager; `Pop`, `Exchange`,
`GiveBack`, `Drain`, `Execute`, `Release` follow `DispatchJob` and `TryExcute`.
`IOCPServer::Dispatch` has its call of `DispatchJob` commented out at this
commit (`IOCPServer.cpp:94`): the model is of the job library as `DispatchJob`
drives it.

`FrameQueue`. Jobs are numbered as inserted. `ExecuteBack` and `PopFront` are one
turn of `ExecuteJob`, `FinishExecute` its return and the wait for the frame's end.
Its specification is `FrameSpec`, as `ServerProofs` extends it beside `JobDispatch` and
`IDGenerator`, whose own is `IDSpec`.

`IDGenerator`. The bitset is a set; all arithmetic is modulo `MAX_ID + 1`, as
`uint16_t` arithmetic is in the code. `offset` is the loop's variable `i`. The loop has
no exit but a free ID: its condition is true of every `uint16_t`.

`ServerRecv` over `FrameStream`. A byte is named by its position in the stream,
so a buffer's content can be compared with what was sent. `ProcessRecv` is the
code up to its loop, `DispatchPacket` one turn of it, `FinishRecv` the end of it
with `Clean`. `OnRead` is never called in the program, so `readPos` stays 0.

`SessionLife`. Each place between two accesses to shared state is a value of a
worker's `pc`; `held` is the set of sessions in its local shared_ptrs, `recvOwner`,
`discOwner` and `slot` the references in events, `sessions` the server's. A
reference that goes away destroys the session when it is the last (`Drop`), which
closes the handle in `_socket`. `CreateSession` takes any free handle, as the OS
does. A completion whose owner is null is the state `crashed`.

`ClientSend`. The C# lock is reentrant and kept over `SendAsync`, which may
complete at once and call `OnSendCompleted` in the same thread: `lock` is the
thread that has it, taken by `Send`, `Sent`, `Failed` and `Clear`, and given back
where the outermost block ends (`Leave`). The mutual recursion of `RegisterSend`
and `OnSendCompleted` is a loop through `register`, `sendAsync` and `sent`.
Unprotected accesses are steps of their own: the test of `_disconnected`,
`SendAsync`'s use of the socket, the four stages of `Disconnect`, and `Start`'s
assignment of the socket before it attaches the handlers. The client's threads
are alike: any of them may send, disconnect or handle a completion.

`ClientRecv` over `FrameStream`. `RegisterRecv` has the test and `Clean`,
`ReceiveAsync` the call; `OnRecvCompleted`, `OnRecvPacket` and `FinishRecv` are the
handler up to, in, and after `OnRecv`'s loop; `HandlerThrows` leaves it. `decoded`
records the byte each packet's reader starts from, which is the array's first.

`DongleMirror` composes both clients. The player's half: `SpawnDongle`, `Move`,
`DropDongle`, `Merge` are the main thread's, `Physics` is the engine's choice,
`SendDonglePool` is one turn of the coroutine, with the dongles that differ from
`_previousDongleStates` (`Changed`). The mirror's half: `UpdateDongle` is one job,
whose two loops are defined by what they leave: the map and objects after the
first (`MapWith`, `ObjectsWith`), and where the second one throws (`Stop`). `packets`
is one queue from the player to the opponent's jobs, since every hop keeps order;
`ReceiveTwo` is `ClientRecv`'s result that a packet behind another in one receive
is decoded as that one. `shown` remembers the board an update was sent from. Its
specification is `MirrorSpec`, as `GameProofs` extends it beside `GameRoom`.

`GameRoom`. `Enqueue` and `Dequeue` are three steps each: the slot, the read of the
size, the write of it; that is how `Queue<T>` is built, and where two threads
without a lock lose a write. `Dispatch` is a handler up to its `CreateJob`, `Run` a
job. `deaf` is a handler's exception, which ends the chain of receives. The
server's room is external: it answers as the packets and the relay's handlers show.

`DummyClient`. `StartTest`, `FinishTest` and the steps of `DisconnectAll` (`Join`,
`NextSession`, the session's `Disconnect`, `Dispose`, `ClearSessions`) are the UI
thread; a click is possible whenever that thread is idle, also while a test is
awaited. A task connects, sends and disconnects; what it throws on a disposed wrapper
(`UseDisposed`) faults it, and the await throws it again, out of an `async void`
handler (`FaultTest`): the form's dialog shows it, and that test has no
`DisconnectAll`. That its user may then end the program is not modelled. A thread takes
completions or times out. `OnConnected` and `OnDisConnected` ask the wrapper for the
socket (`Callback`): after `Dispose` that is an exception on a thread which catches
none, and `crashed` says what the program ended with. References are as in
`SessionLife`: a session is destroyed with the last (`Drop`), be it the owner of a
receive, a send or a disconnect, a connect event's or a thread's, and a number of a
closed handle may be another's (`SomeSocket`, `Close`). Of a session's send half the
model has the flag and the event's owner; its queue and batches are `SendPipeline`'s.

Definitions commented "Variant" in the modules are not part of the models: each
is an action with a plausible bug. `PROJECT.json` ("mutants") names, for every
checked property, the variant that breaks it.

## 3. Runs

| Run | Instance | States | Question |
|---|---|---|---|
| `SendPipeline` | 3 threads, buffers of half and above the limit, 3 sends, fair | 59,000 | the send half's safety, refinement, progress |
| `JobDispatch` | 3 threads, 2 queues, 2 jobs a queue, fair | 237,000 | the job system's safety, refinement, progress |
| `FrameQueue` | 5 jobs | 324 | order and progress of the double queue |
| `FrameQueue_allrun` | the same | violation | does every job of a frame run? |
| `IDGenerator` | 4 IDs, 2 threads, up to 5 IDs wanted | 30,000 | uniqueness, rotation, termination |
| `ServerRecv` | header 2, frames of 2 and 3, buffer of 3 x 3 bytes, stream of up to 11 | 33,000 | framing, buffer, progress |
| `ClientSend` | 2 threads, 3 sends, one by one or two in a list, fair | 33,000 | the client's send half: safety, refinement, progress |
| `ClientRecv` | header 2, frames of 2 and 3, buffer of 4, stream of up to 10, fair | 19,000 | framing, buffer reuse, decoding, progress |
| `SessionLife` | 2 workers, 1 accept event, 2 sessions, 2 handles, symmetry | 259,000 | references, slots, sets, receive chain, sockets |
| `DongleMirror` | 3 dongles, levels 0 to 2, 2 positions, fair | 608,000 | mirror, score, merges, catching up |
| `GameRoom` | 2 visits of the opponent, array of 3 slots, fair | 357,000 | jobs, the room's protocol, catching up |
| `DummyClient` | 2 tests, sequential or overlapping, 1 thread each, 2 sessions, one of which sends, fair | 306,000 | shutdown order, disposal, exceptions, leaks, response |

Bounds. `MaxSends`, `MaxJobs`, `MaxInserts`, `MaxLive`, `MaxTotal`, `MaxSpawns`, `MaxMoves`,
`MaxVisits` and `MaxTests` are the guards that keep the models finite; `Sessions` bounds `SessionLife`, as each session is made once.
They leave room for the cases the properties are about: three threads give a
pusher and two more at one event or queue; three sends give two batches, one of
them filled exactly to the limit, or a batch and a buffer that waits; the stream
exceeds the receive buffer by more than one frame, the client's more than twice;
four IDs wrap around; with two sessions and two handles the second session can
get the handle the first has closed. `SessionLife` was also run with three
workers (7.6 million states) with the same result. Three dongles are a chain of two
merges, with an object of the pool used again, or two dongles of the highest level
that meet; `ReceiveTwo` happens once. Two visits are an opponent that comes back,
ready or not; the threads of `GameRoom` overlap in the queue's size once, which
already damages it for good, and the array is so small that its ends go around.
`DummyClient` has a second test that brings a new session after the first, which takes
what the first one's session, which sends, has left pending; or one that runs on the
first one's session while it is awaited (`Added`, `Senders`, `MaxListed`). What the proof modules prove does
not depend on bounds.

Deadlock checking is off where the system really stops: `JobDispatch` when the
bound on jobs is reached and all have run, `ServerRecv` and `ClientRecv` when the
connection is over, `ClientSend` when the bound on sends is reached, `DongleMirror`
and `GameRoom` when the bounds are reached and all is handled, `DummyClient` when the last
test is over or the program has ended by an exception, `SessionLife`
when there is no further session to create or the program has called through a null
pointer.

Fairness. A thread inside a function goes on (the OS schedules it), and a queued
completion, or a queue in the job manager, reaches some worker (they loop on
`Dispatch`): weak fairness of each thread's steps, and of "some worker takes one".
Nobody has to call `Send`, push a job or close a connection. `IDGenerator` has
weak fairness of each thread's steps only: a waiting thread may be passed over.
`ClientSend` assumes in addition that the network takes what it is given or
fails, as a pending send is completed by it; that a completion gets the lock at
last, for which weak fairness is enough as sends are bounded. `SessionLife` has no
fairness; its properties are safety properties. `DongleMirror` and `GameRoom`
assume that Unity runs the coroutine and `Update` every frame, that the network
thread goes on, and that the server answers; nobody has to play. `DummyClient`
assumes that the UI thread goes on inside `DisconnectAll` and that each dispatch
thread is scheduled; a completion need never come, since `Dispatch` has a timeout.

## 4. Properties

Send half. `SingleUser`: the one send event has one user, a thread or the OS.
`KeptAlive`: while the OS reads, the event holds the session and those buffers.
`NoLostWakeup`: waiting buffers of a connected session have somebody who will
look at the queue. `ImplementsChannel`: what callers pushed is what the OS gets, in
order, once (`InOrder`, which is proved, says so of the histories). `EventuallySent`: it does get it. The last three exclude
a refused `WSASend`, after which the code drops the batch and strands the queue;
`EventuallySent` and `NoLostWakeup` also exclude a disconnected session. A
buffer above `MAX_SEND_SIZE` is in the instances: it leads to an empty batch, a
completion of zero bytes, and a disconnect.

Job system. `Serial`, `NoForgottenQueue`, `ImplementsExecutor`,
`EventuallyRun`: one worker runs a queue at a time, a queue with jobs is always in
the manager or in somebody's hands, jobs run once, in order, and do run.

Frame queue. `NeverOlder`, `EveryInsertCounts`: what a counter of executions sees
is right, which is what the unit test checks; the newest job stands in for older
ones, but never an older one for a newer. `AllRun` is what the test's message says,
and fails.

IDGenerator. `OneHolder`: an ID has one holder, and the bits are the IDs held.
`InRotation`: an ID comes back only after all others. `GenerateEnds`: a search ends,
unless every ID is in use: the loop's condition `i <= MAX_ID` is true of every
`uint16_t`, so the throw behind the loop (`IDGenerator.h:28`) is not reached then, and
the mutex stays taken.

Server, receive half. `StreamIntact`: the buffer's content is the stream, `WSARecv`
gets exactly the free part, and whatever way the stream is cut, packets are whole
frames without a gap. `EventuallyDispatched`: a complete frame is dispatched.
`CutOff`: a connection that fills the buffer is ended. As `OnRead` is never called,
`_readPos` stays 0, `Clean` has nothing to move, and each receive dispatches the
packets of the earlier ones again: `StreamIntact` speaks of the packets of each.

Client, send half. `SingleOperation`: `_sendArgs` has one user at a time, and
nobody changes its list between `RegisterSend` and the completion while the socket
is open. `EventuallySent`: what waits in a connected session is sent; not if
something was sent before `Start` had finished, when `SendAsync` throws, or its
completion calls nobody, and the session is mute for good: the property names that
case as its exception. `ImplementsChannel`: the client's `Send` is the server's
abstract channel, with lists of buffers submitted at once and `Clear` as the only
loss.

Client, receive half. `StreamIntact`, `EventuallyHandled`: each frame is cut out
once, whole and in order, while the buffer is reused, and all are handled, unless a
handler threw, after which no receive is posted. `DecodedAsFirst`: what the handlers
see. `PacketReader` ignores the offset of its segment, so a packet that arrives
behind another is decoded from the first one's bytes; the property says so exactly,
and that the first is always decoded right.

Life cycle. `References`: a pending operation has its owner, and nothing in use
refers to a destroyed session; not for a session on which Disconnect was called
twice, where the shared disconnect event loses its owner: the model keeps that
outcome. `ServerSet`: connected sessions are in the server's set, and a session in
the set can still leave it unless the OS refused an operation, after which the code
does nothing more. `OneChain`: one receive at a time. `SlotNeverLost`: accept events
are never abandoned; but when a session's socket cannot be made or registered,
`RegisterAccept` calls through the null pointer (`Listener.cpp:90`), and the program ends. `OwnSocket`: who loses its socket, and how. `ProcessDisconnect`
closes the handle and leaves its number in `_socket`, which the destructor closes
again (`CloseSocket` takes the number by value), perhaps as another session's: the
property names that, and says it is the only way besides the session's own.

The mirror. `MirrorIsSnapshot`: after an update the opponent's screen has one object
for each dongle of the board the update was sent from, and no other, although updates
carry changes only, merges come on their own, and objects are used again.
`ScoreFollows`: the opponent's count of the score comes to the player's, unless a
dongle was merged away between its rise and the next turn of the coroutine; it is
never more. `NoForgottenMerge`: an object that should go will go, also after an update
that threw half way. `MirrorCatchesUp`: the screens agree at last. The exceptions are
states the model keeps and the code has no answer to: two packets in one receive
(`coalesced`), a dongle merged away before it was ever sent (`unseen`), and the
coroutine's death of two dongles of the highest level.

The room. `JobsOnce`: no job runs twice, and they run in order until an `Enqueue` and a
`Dequeue` have overlapped. `RoomFollows`: when all is handled, the opponent is shown
exactly if it is in the server's room, and no readiness outlives a visit; not when
`Room.Start` came before the player's id, when it takes the player's own entry for an
opponent's (`Room.cs:65`; the scene says 0, which the second player's id is not).
`CatchesUp`: `Update` runs every job created.

The load generator. `StopsFirst`: while `DisconnectAll` disconnects and disposes, no
dispatch thread is left, of overlapping tests neither. `Survives`: no exception ends
the program or faults a task, except in three cases, which the code has no answer to.
The button was clicked during a test; `Disconnect` was called into the middle of another, so
that a completion finds no owner; or a session was disposed with an operation pending,
as each is whose last `DisconnectEx` has not completed: the next test takes that
completion, and the callback finds the wrapper empty. The property says more than
that these are the cases: a scenario runs on no disposed session, and a thread deals with no
disposed session but one of the third kind. `FreedAtLast`: what keeps a session the
service has let go is an operation still pending or somebody who deals with it, and
nothing else, except after a refused `WSARecv`, a connect event that is not freed, or
a raced `Disconnect`. A send's owner is reset when `WSASend` is refused, a receive's is not. It
does not say that the session is freed: a pending receive or send lets it go when the next
test takes it, a pending connect or disconnect ends the program there. `NoOrphan`:
while the program runs, no session that no list has is connected again, and no thread
posts a receive or a send of it. `UIResponds`: `DisconnectAll` returns.

### Finding

`FrameQueue_allrun` ends in a violation, quoting what the repository's own test says:
`ExecuteJob` runs `back()` and pops `front()`; details are in `PROJECT.json`
("findings"). Other facts of this kind are exceptions that the properties above name.

## 5. Proofs

Eleven components have theorems, those of the server's job system, frame queue and
generator in one module, and so those of the client's room and mirror. They prove, for
every value of the constants and no bound on time, an inductive invariant (`IInv`,
`FrameInv`, `IDInv`, `MirrorInv`), the safety properties that
follow from it, and, where there is an abstract specification, that every step is a
step of it or a stutter (`Refinement`). They use only named assumptions on the
constants, which TLC evaluates in each run. One theorem has a hypothesis of its own:
that a waiting client has room to receive into (`NothingHeldBack`) needs that there
are frames at all.

| Module | Proved of `Spec` | Uses |
|---|---|---|
| `SendPipelineProofs` | types, `SingleUser`, `KeptAlive`, `NoLostWakeup`, `InOrder`, the channel | nothing |
| `ServerProofs` | of `JobDispatch`: types, `Serial`, `NoForgottenQueue`, `InOrder`, the executor | `NoneAssumption` |
| `ClientSendProofs` | types, `SingleOperation`, `NoLostWakeup`, the channel | `SendAssumption` |
| `ServerProofs` | of `FrameQueue`: `NeverOlder`, `CountsAgree` | nothing |
| `ServerRecvProofs` | `StreamIntact` | `FrameAssumption`, `BufferAssumption` |
| `ClientRecvProofs` | `StreamIntact`, `DecodedAsFirst`, `NothingHeldBack` | `FrameAssumption`, `BufferAssumption` |
| `SessionLifeProofs` | types, `References`, `OneChain`, `SlotNeverLost`, `ServerSet`, `OwnSocket` | `NoneAssumption` |
| `ServerProofs` | of `IDGenerator`: types, `OneHolder`, `InRotation` | `NobodyAssumption`, `MaxAssumption` |
| `DummyClientProofs` | types, `StopsFirst`, `Survives`, `NoOrphan`, `FreedAtLast` | `NoneAssumption`, `ActorAssumption`, `TestsAssumption` |
| `GameProofs` | of `GameRoom`: types, `JobsOnce`, `RoomFollows` | `IdAssumption`, `NoneAssumption`, `BoundAssumption` |
| `GameProofs` | of `DongleMirror`: types, `MirrorIsSnapshot`, `NoForgottenMerge`, `ScoreFollows` | `LevelAssumption`, `PositionAssumption`, `SpawnAssumption` |

**The send half.** `IInv` is `TypeOK`, `SafeInv` and `InOrder`. `SingleUser` alone is
not inductive: it needs that the flag, once set, stays so until its holder gives
it back. `NoLostWakeup` is a consequence of two facts that are inductive with it:
`FlagFree`, a buffer waits under a free flag only until its sender tests the
flag, and `FlagHeld`, on a connected session the set flag has somebody behind it.
`EventClean` and `OwnerSet` carry `KeptAlive` from gathering to release, and
`Untouched` covers the time before `ProcessConnect`. Order is proved through the
abstract channel: `ChannelStep` maps each step to `Submit`, `Transmit`, `Lose` or
a stutter, and `OrderStep` follows from it.

**The job system.** `IInv` is the conjunction of the four invariants themselves:
`TypeOK` has the lock's holder, `Serial` makes the local vector of the running
worker unique (`TakenVector`), and `ExecutorStep` maps each step to the executor's.

**The client's send half.** The list that `Send` tests does not keep `_sendArgs` to
one user: `Clear` empties it while a send is pending. `IInv` therefore splits the
question. `Exclusive` says that there is one user, `Taken` that the list tells so
while the session is connected, and `Closing` that whoever clears it has set
`_disconnected` before, which `RegisterSend` tests in the same lock
(`Registering`). `Given` and `Sending` follow the list between the two, and
`Attended` is `NoLostWakeup` with what makes it inductive: a send that is pending
without a handler was an early one. In the channel `SendAsync` transmits the list,
`Clear` loses all that waits, and one call of `Send` makes a step per buffer.

**The server's receive half.** The buffer holds the stream from its first byte, as far as it
was received (`NothingLost`): `OnWirte` never refuses, since a receive has at most
the room it was posted with, and `Clean` changes nothing, since nothing is read out.
`InOrder` says that the frames' ends follow each other at distances of a frame's
size, `AtFrame` that the loop stands at the end of the last packet it handed over.
`NextFrame` puts them together: what the loop sees next is the next frame, so the
packets are the frames (`WholeFrames`).

**The client's receive half.** Here `Clean` does move bytes, so the buffer is a piece
of the stream that begins behind the position `Base`. `AtFrame` follows that place:
between receives the first unread byte is the start of the frame after the last
packet, and in the loop the buffer begins with the first packet of this receive,
which is why `PacketReader`, at the array's front, sees that one (`DecodedAsFirst`).
`AllHandled` says that the loop stops only at a frame that has not arrived completely
(`FinishStep`); as each frame fits the buffer, the rest of that frame finds room.

**The life cycle.** `References` and `OneChain` are about counted references, so the
invariant says who has one. `Holds` gives every place of a worker the reference it
uses, and `Buried` says that a destroyed session is in no such place. A session
whose receive is posted, or whose first worker still has it (`Fresh`, `Alone`), has no
other chain. `DisconnectedOnce` is the case that Disconnect was called at most once:
then there is one worker that leaves or one disconnect event with its owner
(`Leaving`), until the session is out of the set (`ServerSet`). Where Disconnect was
called twice, the owner may be gone, and the model crashes as the code does:
`OwnerCrash` says that this is the only way. `SlotsTaken` and `SlotsDiffer` keep
each accept event in one hand (`SlotNeverLost`), and `OwnSocket` is inductive with
them.

**The frame's queue.** Both queues are intervals of consecutive job numbers, one
after the other (`Intervals`), and what was run is not newer than the newest job
that has been swapped in (`NoneNewer`); `NeverOlder` follows.

**The generator.** Only the holder of the mutex searches (`Searcher`), and all
candidates before the one it looks at are in use (`Tried`), which is `InRotation`
when the search ends and, with the bits' being exactly the IDs held, `OneHolder`.

**The load generator.** The invariant has a part per question. A thread that runs is
in the pool, which the UI thread empties before it goes on (`Joined`, so
`StopsFirst`). One test is awaited at a time, and only its tasks run (`OneTest`,
`Fresh`, so `NoUseAfterDispose`), as long as tests do not overlap. A session that
nobody raced for has one disconnect (`OneDisconnect`), every session one send, whose
flag is set meanwhile (`OneSend`), and, unless tests overlap, one chain of a connect and
receives (`OneReceive`), so the owner that a completion needs is there
(`OwnersFound`). A disposed session stays off (`StaysOff`, so `NoOrphan`): only
`ProcessConnect` connects, and of a disposed session it ends the program in the callback
before it registers. With nothing pending when it was disposed, nothing more happens to a
session (`Settled`), so a callback without a wrapper needs something that was; with
`NoUseAfterDispose` and `OwnersFound` that is `Survives`. Whatever still refers to a
disposed session is in an event or at work (`Listed`, `Held`), and an event's owner is
there as long as its operation is (`RecvOwned`, `SendOwned`, `DiscOwned`), so
`FreedAtLast`.

**The room.** `JobsOnce` needs to know where each job is. A job is in a slot, in the
hand of `Update`, or has run, and its number is nowhere else (`OnePlace`): this holds
even when the threads have overlapped and `_size` is wrong, because `Dequeue` empties the
slot it takes from and `Enqueue` stores only new jobs. In order the jobs run only until then, and `InQueue` says why: the
slots from `_head` to `_tail` hold the jobs not yet taken, and `_size` is their number,
give or take the call that is inside. `RoomFollows` is about the moment when all is handled,
so its invariant looks at what is not: the jobs still to run, in hand, in the array or
still to be created, followed by the packets on the wire, form one line
(`PendingJob`, `ExitAfter`). What shows the opponent, on the screen or in the line, has
an exit behind it in the line if the opponent has gone (`NoGhost`). An opponent that is there
is shown, or enters somewhere in the line, with no exit behind (`Shown`). And a
readiness finds the opponent's id known when it is run (`Known`): `Room.ExitRoom` compares
ids, so one that is not known would stay. `DispatchStep` moves the head of the wire to
the end of the jobs, `RunStep` takes the first job off the line. All three are stated
for `Sound`, the cases `RoomFollows` excludes, of which the property says what they are.

**The mirror.** `MirrorIsSnapshot` follows a chain of boards: the one shown, those the
updates on the way were sent from, and the player's own. From a board to the next, what
is new or changed is in the update, and what is missing has its merge between the two,
once (`Linked` for neighbours in the chain, `Current` for its end, where
`_previousDongleStates` says what was sent last). Ids are counted up and a merged one
is in no board again (`MergedAway`, `Retired`), though the opponent's map keeps it, with
an object that may by now be another's. From the two an update does not throw: each reserved id
is in the map, with an active object, and is there once (`MapOneToOne`, `NoThrow`), so
`_deleteReserveID` is cleared with it. `Faithful` says that each id shown has an object
of its own, with that id, level and place, and every active object is one of these;
`SnapshotShown` turns this into the count that `Shows` compares. Objects are used again
here: `PlaceFacts` says that the new ids of an update get as many different objects, the
pool's from the top and then new ones, and none that an id already has. `NoForgottenMerge`
must not use this chain, as it also speaks of updates that throw and of a dongle merged
away before it was sent. It needs two facts that outlast these: an active object
belongs to the id it bears (`Owned`), and an id that an update tells of is the player's
still, or its merge is behind the update (`Announced`).

`ScoreFollows` takes the chain once more, and compares sums along it. `Tallied` says
that from a board to the next the player's score rises by what the opponent will count
for the merges between the two: the points of each merged dongle at the level it has in
the earlier board (`Worth`). It never rises by less, as a level only rises after it was
sent (`Risen`), and by exactly that unless a dongle was merged away before its new level
was sent (`lagging`). An update counts just the `Worth` of the merges before it
(`UpdateWorth`), because its objects have, by `Faithful`, the levels of the board shown, and
no merged one is told of in the update. The theorems of the library about folds
take an operator as a parameter, which the provers cannot instantiate; the facts needed
of a sum over a finite set are proved from a smallest set for which one fails
(`SmallestSet`, `SumFacts`), and the sum over a list from a shortest one (`SumOfList`).

Only model-checked: liveness (`EventuallySent`, `EventuallyRun`,
`EveryInsertCounts`, `GenerateEnds`, `EventuallyDispatched`, `CutOff`,
`EventuallyHandled`, `CatchesUp`, `MirrorCatchesUp`, `UIResponds`), which needs fairness
and ENABLED, out of TLAPS's reach here. Every safety invariant and action property that
the passing runs check is proved. No proof needs the sum of sizes in a batch, a fold over
a sequence: only that `RegisterGather` stops where the limit says.

## 6. Not modelled

`StartAccept`'s set-up failures and `Stop`; data carriers (`Job`, `SendBuffer`,
`NetAddress`, packets); handlers that only print; display, input, editor, generated and vendored code. The
relay's `Room`, `RoomManager` and `GetPlayer` are not in the repository: they are
external in `GameRoom`. The pool's limit of 50 objects, the wrap of dongle ids after
65,536 dongles and the timer of 300 seconds are out of an instance's reach. Most lines
of the repository are vendored Protobuf and FlatBuffers sources, their tests and
generated code, and Unity assets: none of it is this program's logic.

## 7. Plan

1. `StartAccept`'s set-up failures and `Stop`, as the start and the end of
   `SessionLife`, with its proofs extended to them.
