------------------------------ MODULE GameRoom -------------------------------
(***************************************************************************)
(* The Unity client between its packets and its game: ClientPacketHandler, *)
(* GameManager with its jobQueue, and Room (Scripts/NetWork/Packet,        *)
(* Scripts/Game).                                                          *)
(*                                                                         *)
(* The network thread handles packets one by one and makes jobs of them;   *)
(* the main thread starts the Room, runs the jobs in Update, and is where  *)
(* the player presses the button.  The two share a Queue<Action> without a *)
(* lock.  Its Enqueue and Dequeue store or take an element and then read   *)
(* and write _size, as two steps each: a write by the other thread between *)
(* them is lost.  Slots, _head and _tail have one writer each.             *)
(*                                                                         *)
(* PlayerID is set by the network thread; Room.Start copies it, whether    *)
(* it is there or not (the scene says 0).  Handlers that name a method of  *)
(* GameManager.Room throw when there is no Room yet, which ends the chain  *)
(* of receives (see ClientRecv).                                           *)
(*                                                                         *)
(* External: Queue<T>, and the server's Room, of which the repository has  *)
(* the packets and the calls only.                                         *)
(*                                                                         *)
(* Definitions commented "Variant" are no part of the model: each is an    *)
(* action with a plausible bug that a property is shown to catch.          *)
(***************************************************************************)
EXTENDS Integers, Sequences, FiniteSets, SequencesExt

CONSTANTS None,       \* no job, an empty slot
          Me, Other,  \* the ids of the player and of the opponent
          Capacity,   \* bound: the array's length; it never has to grow
          MaxVisits   \* bound: times the opponent enters the room

ASSUME IdAssumption == Me \in Nat /\ Other \in Nat /\ Me # Other
ASSUME NoneAssumption ==
  None \notin [job : [type : {"enter", "exit", "ready", "gamestart"}, id : Nat], nr : Nat]
ASSUME BoundAssumption == Capacity \in Nat \ {0} /\ MaxVisits \in Nat

VARIABLES
  \* the server and the wire
  present,        \* the opponent is in the server's room
  visits,         \* bound: times it has entered
  otherReady,     \* the opponent has pressed its button in this visit
  entered,        \* the player is in the server's room
  begun,          \* the server has started the game
  up,             \* packets to the server
  wire,           \* packets to the client
  \* the network thread
  PlayerID,       \* GameManager.PlayerID
  todo,           \* jobs the handler has still to create
  npc,            \* where its Enqueue is
  nsize,          \* the _size it has read
  deaf,           \* a handler has thrown
  \* jobQueue
  array,          \* _array
  head, tail,     \* _head, _tail
  size,           \* _size
  \* the main thread
  mpc,            \* where it is: before Room.Start, in Update or its Dequeue
  msize,          \* the _size it has read
  action,         \* Update's local
  \* Room
  playerID,       \* _playerID
  enemyID,        \* _enemyID
  isEnemyEnter,   \* _isEnemyEnter
  isPlayerReady,  \* _isPlayerReady
  readyText,      \* the opponent's "ready" is displayed
  readyButton,    \* the button is there
  \* history
  created,        \* number of jobs stored in the queue
  ran,            \* the jobs run, by number
  overlapped      \* an Enqueue and a Dequeue have overlapped in _size

server  == <<present, visits, otherReady, entered, begun>>
handler == <<PlayerID, todo, deaf>>
enqueue == <<npc, nsize>>
slots   == <<array, head, tail>>
update  == <<mpc, msize, action>>
room    == <<playerID, enemyID, isEnemyEnter, isPlayerReady, readyText, readyButton>>
history == <<created, ran>>
vars == <<server, up, wire, handler, enqueue, slots, size, update, room, history,
          overlapped>>

Next1(i) == (i + 1) % Capacity

Init ==
  /\ present = FALSE /\ visits = 0 /\ otherReady = FALSE /\ entered = FALSE /\ begun = FALSE
  /\ up = <<>>
  /\ wire = <<[type |-> "info", id |-> Me, list |-> <<>>]>>
  /\ PlayerID = 0 /\ todo = <<>> /\ deaf = FALSE
  /\ npc = "idle" /\ nsize = 0
  /\ array = [i \in 0..(Capacity - 1) |-> None] /\ head = 0 /\ tail = 0
  /\ size = 0
  /\ mpc = "start" /\ msize = 0 /\ action = None
  /\ playerID = 0 /\ enemyID = 0
  /\ isEnemyEnter = FALSE /\ isPlayerReady = FALSE
  /\ readyText = FALSE /\ readyButton = TRUE
  /\ created = 0 /\ ran = <<>> /\ overlapped = FALSE

------------------------------------------------------------------------------
(* The server, as the packets and ServerPacketHandler show it *)

Send(type, id, list) == wire' = Append(wire, [type |-> type, id |-> id, list |-> list])

\* EnterPlayer, by Dispatch_CG_RequestEnterRoom.
EnterPlayer ==
  /\ up # <<>> /\ Head(up).type = "enter"
  /\ up' = Tail(up)
  /\ entered' = TRUE
  /\ Send("enter", Head(up).id, IF present THEN <<Other>> ELSE <<>>)
  /\ UNCHANGED <<present, visits, otherReady, begun, handler, enqueue, slots, size, update, room,
                 history, overlapped>>

\* The server's PlayerReady: everybody in the room is told.
ServerPlayerReady ==
  /\ up # <<>> /\ Head(up).type = "ready"
  /\ up' = Tail(up)
  /\ Send("ready", Head(up).id, <<>>)
  /\ UNCHANGED <<server, handler, enqueue, slots, size, update, room, history, overlapped>>

Told == UNCHANGED <<entered, up, handler, enqueue, slots, size, update, room, history,
                    overlapped>>

OtherEnters ==
  /\ ~present /\ visits < MaxVisits
  /\ present' = TRUE
  /\ visits' = visits + 1
  /\ otherReady' = FALSE
  /\ IF entered THEN Send("enter", Other, <<>>) ELSE UNCHANGED wire
  /\ UNCHANGED begun /\ Told

OtherExits ==
  /\ present /\ ~begun
  /\ present' = FALSE
  /\ IF entered THEN Send("exit", Other, <<>>) ELSE UNCHANGED wire
  /\ UNCHANGED <<visits, otherReady, begun>> /\ Told

OtherReady ==
  /\ present /\ entered /\ ~begun /\ ~otherReady
  /\ otherReady' = TRUE
  /\ Send("ready", Other, <<>>)
  /\ UNCHANGED <<present, visits, begun>> /\ Told

ServerGameStart ==
  /\ present /\ entered /\ ~begun
  /\ begun' = TRUE
  /\ Send("gamestart", Me, <<>>)
  /\ UNCHANGED <<present, visits, otherReady>> /\ Told

------------------------------------------------------------------------------
(* The network thread *)

Job(type, id) == [type |-> type, id |-> id]

\* The jobs a packet's handler creates, in order.
JobsOf(p) ==
  CASE p.type = "enter" -> [k \in 1..(1 + Len(p.list)) |->
                              Job("enter", IF k = 1 THEN p.id ELSE p.list[k - 1])]
    [] p.type = "exit" -> <<Job("exit", p.id)>>
    [] p.type = "ready" -> IF p.id # PlayerID THEN <<Job("ready", p.id)>> ELSE <<>>
    [] p.type = "gamestart" -> <<Job("gamestart", p.id)>>

\* These handlers create the delegate of a method of GameManager.Instance.Room.
NeedsRoom(p) == p.type = "gamestart" \/ (p.type = "ready" /\ p.id # PlayerID)

\* Dispatch_GC_SendPlayerInfo
DispatchPlayerInfo ==
  /\ npc = "idle" /\ todo = <<>> /\ ~deaf
  /\ wire # <<>> /\ Head(wire).type = "info"
  /\ PlayerID' = Head(wire).id
  /\ up' = Append(up, [type |-> "enter", id |-> Head(wire).id])
  /\ wire' = Tail(wire)
  /\ UNCHANGED <<server, todo, deaf, enqueue, slots, size, update, room, history,
                 overlapped>>

\* The other handlers, up to their first CreateJob.
Dispatch ==
  /\ npc = "idle" /\ todo = <<>> /\ ~deaf
  /\ wire # <<>> /\ Head(wire).type # "info"
  /\ wire' = Tail(wire)
  /\ IF NeedsRoom(Head(wire)) /\ mpc = "start"
       THEN deaf' = TRUE /\ UNCHANGED todo
       ELSE todo' = JobsOf(Head(wire)) /\ UNCHANGED deaf
  /\ UNCHANGED <<server, up, PlayerID, enqueue, slots, size, update, room, history,
                 overlapped>>

\* Enqueue stores the job.  Bound: there is room, so the array does not grow.
EnqueueStore ==
  /\ npc = "idle" /\ todo # <<>>
  /\ size < Capacity
  /\ array' = [array EXCEPT ![tail] = [job |-> Head(todo), nr |-> created + 1]]
  /\ tail' = Next1(tail)
  /\ todo' = Tail(todo)
  /\ created' = created + 1
  /\ npc' = "read"
  /\ UNCHANGED <<server, up, wire, PlayerID, deaf, nsize, head, size, update, room, ran,
                 overlapped>>

\* Bound, here and in DequeueRead: the two threads overlap once.
EnqueueRead ==
  /\ npc = "read"
  /\ ~(overlapped /\ mpc = "write")
  /\ nsize' = size
  /\ npc' = "write"
  /\ overlapped' = (overlapped \/ mpc = "write")
  /\ UNCHANGED <<server, up, wire, handler, slots, size, update, room, history>>

EnqueueWrite ==
  /\ npc = "write"
  /\ size' = nsize + 1
  /\ npc' = "idle"
  /\ UNCHANGED <<server, up, wire, handler, nsize, slots, update, room, history,
                 overlapped>>

------------------------------------------------------------------------------
(* The main thread *)

\* Room.Start
RoomStart ==
  /\ mpc = "start"
  /\ mpc' = "test"
  /\ playerID' = PlayerID
  /\ UNCHANGED <<server, up, wire, handler, enqueue, slots, size, msize, action, enemyID,
                 isEnemyEnter, isPlayerReady, readyText, readyButton, history, overlapped>>

\* Variant: Dequeue's element stays in the array.
DequeueTakeKeeping ==
  /\ mpc = "test"
  /\ size > 0
  /\ action' = array[head]
  /\ head' = Next1(head)
  /\ mpc' = "read"
  /\ UNCHANGED <<server, up, wire, handler, enqueue, array, tail, size, msize, room,
                 history, overlapped>>

\* Variant: Update stops one job early.
DequeueTakeEarly ==
  /\ size > 1
  /\ mpc = "test"
  /\ action' = array[head]
  /\ array' = [array EXCEPT ![head] = None]
  /\ head' = Next1(head)
  /\ mpc' = "read"
  /\ UNCHANGED <<server, up, wire, handler, enqueue, tail, size, msize, room, history,
                 overlapped>>

\* Update finds jobQueue.Count > 0 and Dequeue takes the element at _head, if any.
DequeueTake ==
  /\ mpc = "test"
  /\ size > 0
  /\ action' = array[head]
  /\ array' = [array EXCEPT ![head] = None]
  /\ head' = Next1(head)
  /\ mpc' = "read"
  /\ UNCHANGED <<server, up, wire, handler, enqueue, tail, size, msize, room, history,
                 overlapped>>

DequeueRead ==
  /\ mpc = "read"
  /\ ~(overlapped /\ npc = "write")
  /\ msize' = size
  /\ mpc' = "write"
  /\ overlapped' = (overlapped \/ npc = "write")
  /\ UNCHANGED <<server, up, wire, handler, enqueue, slots, size, action, room, history>>

DequeueWrite ==
  /\ mpc = "write"
  /\ size' = msize - 1
  /\ mpc' = "run"
  /\ UNCHANGED <<server, up, wire, handler, enqueue, slots, msize, action, room, history,
                 overlapped>>

\* What the job does to the Room.
EnterRoom(id) ==
  /\ IF id = playerID
       THEN UNCHANGED <<isEnemyEnter, enemyID>>
       ELSE isEnemyEnter' = TRUE /\ enemyID' = id
  /\ UNCHANGED <<isPlayerReady, readyText, readyButton>>

EnemyReady ==
  /\ readyText' = TRUE
  /\ UNCHANGED <<enemyID, isEnemyEnter, isPlayerReady, readyButton>>

\* Variant: ExitRoom leaves the player ready.
ExitRoomReady(id) ==
  /\ IF id = enemyID
       THEN isEnemyEnter' = FALSE /\ readyText' = FALSE
       ELSE UNCHANGED <<isEnemyEnter, readyText>>
  /\ UNCHANGED <<enemyID, isPlayerReady, readyButton>>

ExitRoom(id) ==
  /\ IF id = enemyID
       THEN isPlayerReady' = FALSE /\ isEnemyEnter' = FALSE /\ readyText' = FALSE
       ELSE UNCHANGED <<isPlayerReady, isEnemyEnter, readyText>>
  /\ UNCHANGED <<enemyID, readyButton>>

GameStart ==
  /\ readyText' = FALSE /\ readyButton' = FALSE
  /\ UNCHANGED <<enemyID, isEnemyEnter, isPlayerReady>>

\* Update runs the job; an element that was not there throws.
Run ==
  /\ mpc = "run"
  /\ mpc' = "test"
  /\ action' = None
  /\ \/ action = None /\ UNCHANGED <<room, ran>>
     \/ /\ action # None
        /\ ran' = Append(ran, action.nr)
        /\ UNCHANGED playerID
        /\ \/ action.job.type = "enter" /\ EnterRoom(action.job.id)
           \/ action.job.type = "exit" /\ ExitRoom(action.job.id)
           \/ action.job.type = "ready" /\ EnemyReady
           \/ action.job.type = "gamestart" /\ GameStart
  /\ UNCHANGED <<server, up, wire, handler, enqueue, slots, size, msize, created, overlapped>>

\* The button, between two frames.
PlayerReady ==
  /\ mpc = "test" /\ readyButton
  /\ ~isPlayerReady /\ isEnemyEnter
  /\ isPlayerReady' = TRUE
  /\ up' = Append(up, [type |-> "ready", id |-> playerID])
  /\ UNCHANGED <<server, wire, handler, enqueue, slots, size, update, playerID, enemyID,
                 isEnemyEnter, readyText, readyButton, created, ran, overlapped>>

------------------------------------------------------------------------------
Server == EnterPlayer \/ ServerPlayerReady

\* Bound: once the queue is damaged, only what is on its way still arrives.
Opponent ==
  /\ ~overlapped
  /\ OtherEnters \/ OtherExits \/ OtherReady \/ ServerGameStart

Network == DispatchPlayerInfo \/ Dispatch \/ EnqueueStore \/ EnqueueRead \/ EnqueueWrite

Main == RoomStart \/ DequeueTake \/ DequeueRead \/ DequeueWrite \/ Run

Next == Server \/ Opponent \/ Network \/ Main \/ PlayerReady

Spec == Init /\ [][Next]_vars

\* The client's threads and the server go on; the two players may do nothing.
FairSpec == Spec /\ WF_vars(Server) /\ WF_vars(Network) /\ WF_vars(Main)

------------------------------------------------------------------------------
(* Properties *)

\* Every variable keeps its type, _size its place between none and the capacity.
TypeOK ==
  /\ {present, otherReady, entered, begun, deaf, overlapped} \subseteq BOOLEAN
  /\ {isEnemyEnter, isPlayerReady, readyText, readyButton} \subseteq BOOLEAN
  /\ visits \in 0..MaxVisits
  /\ {PlayerID, playerID, enemyID} \subseteq {0, Me, Other}
  /\ npc \in {"idle", "read", "write"} /\ mpc \in {"start", "test", "read", "write", "run"}
  /\ {head, tail} \subseteq 0..(Capacity - 1)
  /\ size \in 0..Capacity /\ nsize \in 0..Capacity /\ msize \in 0..Capacity
  /\ \A i \in DOMAIN array : array[i] # None => array[i].nr \in 1..created

\* No job runs twice, whatever happens to the queue.  And the jobs run in the order
\* created, none skipped, for as long as no Enqueue and Dequeue have overlapped:
\* one lost write of _size moves _head past _tail for good.
JobsOnce ==
  /\ TypeOK
  /\ \A i, k \in 1..Len(ran) : i # k => ran[i] # ran[k]
  /\ ~overlapped => \A k \in 1..Len(ran) : ran[k] = k

\* The main thread catches up with the jobs created, again and again; once more
\* unless the threads have overlapped in _size, which can leave a job in a queue
\* that says it is empty.
CatchesUp == []<>(overlapped \/ Len(ran) = created)

\* All that was sent has been handled.
Settled ==
  /\ wire = <<>> /\ todo = <<>> /\ npc = "idle"
  /\ mpc = "test" /\ size = 0

\* When all is handled the Room is right about the opponent, who may have come, got
\* ready and gone several times: it is present exactly if the server has it in the
\* room, and neither player's readiness outlives its visit.  The exceptions: a
\* queue whose threads have overlapped, a chain of receives that has ended, and a
\* Room that started before the player's id had arrived, which takes the player
\* itself for the opponent.
RoomFollows ==
  (Settled /\ entered /\ ~overlapped /\ ~deaf /\ playerID = Me) =>
    /\ isEnemyEnter = present
    /\ isPlayerReady => present
    /\ readyText => present
==============================================================================
