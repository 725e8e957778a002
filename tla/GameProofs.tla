------------------------------ MODULE GameProofs ------------------------------
(***************************************************************************)
(* Proofs about the Unity client's game: GameRoom, for any two players, any*)
(* length of the array and any number of visits, and DongleMirror, for any *)
(* highest level, any positions and any number of dongles and moves.       *)
(*                                                                         *)
(* JobsOnce rests on where each job is: in a slot, in Update's hand, or    *)
(* run (OnePlace), and, until the threads overlap, on the slots from _head *)
(* to _tail and _size agreeing about their number (InQueue).  RoomFollows  *)
(* looks at the jobs still to run and the packets still on the wire as one *)
(* line: what shows the opponent, now or later, has an exit behind it if   *)
(* the opponent has gone (NoGhost), and an opponent that is there comes in *)
(* somewhere in the line with no exit behind (Shown).                      *)
(*                                                                         *)
(* MirrorIsSnapshot rests on a chain of boards: the one the mirror shows,  *)
(* those in the updates on the way, and the player's own.  From each to the*)
(* next only the merges sent in between are missing, and an update has what*)
(* is new or changed (Linked, Current).  As merged ids do not come back    *)
(* (MergedAway, Retired), no update throws, and the map has an object of   *)
(* its own for each id that is shown (Faithful).  NoForgottenMerge holds   *)
(* whether updates throw or not: it needs only that an object belongs to   *)
(* its id (Owned) and that what an update tells is the player's still or   *)
(* has its merge behind (Announced).                                       *)
(*                                                                         *)
(* ScoreFollows takes the same chain: from each board to the next the      *)
(* player's score rises by what the opponent will count for the merges in  *)
(* between, from the levels in the earlier board (Tallied).  Levels only   *)
(* rise (Risen), so that is never too much, and it is too little only if a *)
(* dongle was merged away before its level was sent.  What the opponent    *)
(* counts is a sum over the reserved ids: the facts about sums are proved  *)
(* here, from the smallest set that one of them fails for.                 *)
(***************************************************************************)
EXTENDS GameRoom, DongleMirror, SequenceTheorems, FiniteSetTheorems,
        WellFoundedInduction, TLAPS

------------------------------------------------------------------------------
(* The invariant of the Room *)

Ids == {0, Me, Other}
Jobs == [type : {"enter", "exit", "ready", "gamestart"}, id : Ids]
Entries == [job : Jobs, nr : Nat]
Requests == [type : {"enter", "ready"}, id : Ids]
Packets == [type : {"info", "enter", "exit", "ready", "gamestart"}, id : Ids,
            list : {<<>>, <<Other>>}]

\* What TypeOK leaves out.
Types ==
  /\ up \in Seq(Requests) /\ wire \in Seq(Packets) /\ todo \in Seq(Jobs)
  /\ array \in [0..(Capacity - 1) -> Entries \cup {None}]
  /\ action \in Entries \cup {None}
  /\ created \in Nat /\ ran \in Seq(Nat)

\* A thread that is about to read _size leaves the other no way to its end.
Bounds ==
  /\ npc = "read" => size < Capacity
  /\ npc = "write" => nsize < Capacity
  /\ mpc = "read" => size > 0
  /\ mpc = "write" => msize > 0

\* Every job is in one place at most: a slot, the hand of Update, or what has run.
OnePlace ==
  /\ mpc \in {"start", "test"} => action = None
  /\ action # None => action.nr \in 1..created
  /\ \A k \in 1..Len(ran) : ran[k] \in 1..created
  /\ \A i, k \in 1..Len(ran) : i # k => ran[i] # ran[k]
  /\ \A i, j \in 0..(Capacity - 1) :
       i # j /\ array[i] # None /\ array[j] # None => array[i].nr # array[j].nr
  /\ action # None => \A k \in 1..Len(ran) : ran[k] # action.nr
  /\ \A i \in 0..(Capacity - 1) : array[i] # None =>
       /\ \A k \in 1..Len(ran) : ran[k] # array[i].nr
       /\ action # None => action.nr # array[i].nr

------------------------------------------------------------------------------
InHand == IF mpc \in {"read", "write", "run"} THEN 1 ELSE 0
TakenJobs == Len(ran) + InHand
Queued == created - TakenJobs

\* The slot that is j places behind _head.
Slot(j) == IF head + j < Capacity THEN head + j ELSE head + j - Capacity

\* Until the threads have overlapped, the queue holds the jobs that have not been
\* taken, in order from _head to _tail, and _size follows their number.
InQueue ==
  ~overlapped =>
    /\ Queued \in 0..Capacity
    /\ size = Queued - (IF npc = "idle" THEN 0 ELSE 1)
                     + (IF mpc \in {"read", "write"} THEN 1 ELSE 0)
    /\ npc = "write" => nsize = size /\ mpc # "write"
    /\ mpc = "write" => msize = size
    /\ tail = Slot(Queued)
    /\ \A j \in 0..(Queued - 1) :
         array[Slot(j)] # None /\ array[Slot(j)].nr = TakenJobs + j + 1
    /\ mpc \in {"read", "write", "run"} => action # None /\ action.nr = TakenJobs
    /\ \A k \in 1..Len(ran) : ran[k] = k

------------------------------------------------------------------------------
\* The jobs that are still to run, by their numbers: in hand, in the queue, or to
\* be created.
Pending == (Len(ran) + 1)..(created + Len(todo))

PendingJob(m) ==
  IF m <= TakenJobs THEN action.job
  ELSE IF m <= created THEN array[Slot(m - TakenJobs - 1)].job
  ELSE todo[m - created]

\* The cases in which the Room follows the server.
Sound == ~overlapped /\ ~deaf /\ (mpc = "start" \/ playerID = Me)

\* Packets and jobs that bring, remove, or show ready the opponent.
Brings(p)  == p.type = "enter" /\ (p.id = Other \/ p.list # <<>>)
Brought(j) == j.type = "enter" /\ j.id = Other

ExitOnWire(w) == \E v \in (w + 1)..Len(wire) : wire[v].type = "exit"
ExitAfter(m) == \/ \E k \in Pending : k > m /\ PendingJob(k).type = "exit"
                \/ ExitOnWire(0)

\* The ids are those of the two players, and only the opponent exits or is ready.
ExpectedIds ==
  /\ \A w \in 1..Len(wire) :
       /\ wire[w].type = "exit" => wire[w].id = Other
       /\ wire[w].type # "enter" => wire[w].list = <<>>
  /\ Sound =>
       /\ \A k \in 1..Len(up) : up[k].id = Me
       /\ \A w \in 1..Len(wire) : wire[w].id \in {Me, Other}
       /\ \A m \in Pending :
            /\ PendingJob(m).id \in {Me, Other}
            /\ PendingJob(m).type \in {"exit", "ready"} => PendingJob(m).id = Other

\* Before the player has entered, nothing happens to the Room.
Before ==
  ~entered =>
    /\ created = 0 /\ todo = <<>>
    /\ ~isEnemyEnter /\ ~isPlayerReady /\ ~readyText
    /\ \/ up = <<>> /\ wire = <<[type |-> "info", id |-> Me, list |-> <<>>]>>
       \/ PlayerID = Me /\ up = <<[type |-> "enter", id |-> Me]>> /\ wire = <<>>

\* Afterwards the server gets and sends only what belongs to the game.
After ==
  entered =>
    /\ PlayerID = Me
    /\ \A k \in 1..Len(up) : up[k].type = "ready"
    /\ \A w \in 1..Len(wire) : wire[w].type # "info"

\* Whatever shows the opponent, now or later, has its exit ahead if it has gone.
NoGhost ==
  Sound =>
    /\ isEnemyEnter \/ isPlayerReady \/ readyText => present \/ ExitAfter(0)
    /\ \A m \in Pending :
         Brought(PendingJob(m)) \/ PendingJob(m).type = "ready" => present \/ ExitAfter(m)
    /\ \A w \in 1..Len(wire) :
         Brings(wire[w]) \/ (wire[w].type = "ready" /\ wire[w].id # Me) =>
           present \/ ExitOnWire(w)

\* An opponent that is there has entered the Room, or will, and no exit comes after.
Shown ==
  Sound /\ entered /\ present =>
    \/ isEnemyEnter /\ ~ExitAfter(0)
    \/ \E m \in Pending : Brought(PendingJob(m)) /\ ~ExitAfter(m)
    \/ \E w \in 1..Len(wire) : Brings(wire[w]) /\ ~ExitOnWire(w)

\* Nothing is shown of the opponent before its id is known.
Known ==
  Sound =>
    /\ isEnemyEnter \/ isPlayerReady \/ readyText => enemyID = Other
    /\ \A m \in Pending : PendingJob(m).type = "ready" =>
         \/ enemyID = Other
         \/ \E k \in Pending : k < m /\ Brought(PendingJob(k))
    /\ \A w \in 1..Len(wire) : (wire[w].type = "ready" /\ wire[w].id # Me) =>
         \/ enemyID = Other
         \/ \E k \in Pending : Brought(PendingJob(k))
         \/ \E v \in 1..(w - 1) : Brings(wire[v])

------------------------------------------------------------------------------
(* Types *)

\* The type invariant, one variable after the other.
LEMMA Flat ==
  TypeOK <=>
    /\ present \in BOOLEAN /\ otherReady \in BOOLEAN /\ entered \in BOOLEAN
    /\ begun \in BOOLEAN /\ deaf \in BOOLEAN /\ overlapped \in BOOLEAN
    /\ isEnemyEnter \in BOOLEAN /\ isPlayerReady \in BOOLEAN
    /\ readyText \in BOOLEAN /\ readyButton \in BOOLEAN
    /\ visits \in 0..MaxVisits
    /\ PlayerID \in Ids /\ playerID \in Ids /\ enemyID \in Ids
    /\ npc \in {"idle", "read", "write"} /\ mpc \in {"start", "test", "read", "write", "run"}
    /\ head \in 0..(Capacity - 1) /\ tail \in 0..(Capacity - 1)
    /\ size \in 0..Capacity /\ nsize \in 0..Capacity /\ msize \in 0..Capacity
    /\ \A i \in DOMAIN array : array[i] # None => array[i].nr \in 1..created
BY DEF TypeOK, Ids

\* Capacity is a positive number, and slots follow each other around the array.
LEMMA NextSlot ==
  /\ Capacity \in Nat /\ Capacity > 0
  /\ \A i \in 0..(Capacity - 1) :
       /\ Next1(i) = IF i + 1 = Capacity THEN 0 ELSE i + 1
       /\ Next1(i) \in 0..(Capacity - 1)
<1>1. Capacity \in Nat /\ Capacity > 0
  BY BoundAssumption
<1>2. ASSUME NEW i \in 0..(Capacity - 1)
      PROVE  Next1(i) = IF i + 1 = Capacity THEN 0 ELSE i + 1
  <2>1. CASE i + 1 = Capacity
    <3>1. Capacity % Capacity = 0
      BY <1>1
    <3> QED
      BY <2>1, <3>1 DEF Next1
  <2>2. CASE i + 1 # Capacity
    <3>1. i + 1 \in 0..(Capacity - 1)
      BY <1>1, <2>2
    <3>2. (i + 1) % Capacity = i + 1
      BY <1>1, <3>1
    <3> QED
      BY <2>2, <3>2 DEF Next1
  <2> QED
    BY <2>1, <2>2
<1> QED
  BY <1>1, <1>2

\* Ids are numbers, and no entry is None.
LEMMA Constants ==
  /\ Ids \subseteq Nat /\ Me \in Ids /\ Other \in Ids /\ 0 \in Ids /\ Me # Other
  /\ None \notin Entries
BY IdAssumption, NoneAssumption DEF Ids, Entries, Jobs

\* What Head and Tail take from a queue.
LEMMA HeadTail ==
  ASSUME NEW S, NEW s \in Seq(S), s # <<>>
  PROVE  /\ Head(s) \in S /\ Tail(s) \in Seq(S)
         /\ Len(s) \in Nat /\ Len(s) > 0 /\ Head(s) = s[1]
         /\ Len(Tail(s)) = Len(s) - 1
         /\ \A k \in 1..(Len(s) - 1) : Tail(s)[k] = s[k + 1]
<1>1. Len(s) \in Nat /\ Len(s) > 0 /\ Tail(s) \in Seq(S) /\ Head(s) = s[1]
  BY EmptySeq, HeadTailProperties
<1> QED
  BY <1>1

\* What is sent is at the end of the wire.
LEMMA Sent ==
  ASSUME wire \in Seq(Packets), NEW type \in {"enter", "exit", "ready", "gamestart"},
         NEW id \in Ids, NEW list \in {<<>>, <<Other>>}, Send(type, id, list)
  PROVE  /\ wire' \in Seq(Packets) /\ Len(wire) \in Nat /\ Len(wire') = Len(wire) + 1
         /\ \A k \in 1..Len(wire) : wire'[k] = wire[k]
         /\ wire'[Len(wire) + 1] = [type |-> type, id |-> id, list |-> list]
<1>1. [type |-> type, id |-> id, list |-> list] \in Packets
  BY DEF Packets
<1> QED
  BY <1>1 DEF Send

\* The jobs a packet becomes.
LEMMA JobsFacts ==
  ASSUME NEW p \in Packets, p.type # "info"
  PROVE  /\ JobsOf(p) \in Seq(Jobs)
         /\ p.type = "enter" =>
              /\ Len(JobsOf(p)) = IF p.list = <<>> THEN 1 ELSE 2
              /\ JobsOf(p)[1] = [type |-> "enter", id |-> p.id]
              /\ p.list # <<>> => JobsOf(p)[2] = [type |-> "enter", id |-> Other]
         /\ p.type = "ready" /\ p.id = PlayerID => Len(JobsOf(p)) = 0
         /\ p.type \in {"exit", "gamestart"} \/ (p.type = "ready" /\ p.id # PlayerID) =>
              /\ Len(JobsOf(p)) = 1
              /\ JobsOf(p)[1] = [type |-> p.type, id |-> p.id]
<1>1. p.type \in {"enter", "exit", "ready", "gamestart"} /\ p.id \in Ids
      /\ p.list \in {<<>>, <<Other>>}
  BY DEF Packets
<1>2. \A t \in {"enter", "exit", "ready", "gamestart"}, x \in Ids : Job(t, x) \in Jobs
  BY DEF Job, Jobs
<1>3. CASE p.type = "enter"
  <2> DEFINE f == [k \in 1..(1 + Len(p.list)) |->
                     Job("enter", IF k = 1 THEN p.id ELSE p.list[k - 1])]
  <2>1. JobsOf(p) = f
    BY <1>3 DEF JobsOf
  <2>2. CASE p.list = <<>>
    <3>1. Len(p.list) = 0
      BY <2>2
    <3>2. f = [k \in 1..1 |-> Job("enter", IF k = 1 THEN p.id ELSE p.list[k - 1])]
      BY <3>1
    <3>3. \A k \in 1..1 : f[k] = Job("enter", p.id)
      BY <3>2
    <3>4. f \in Seq(Jobs) /\ Len(f) = 1 /\ f[1] = Job("enter", p.id)
      BY <1>1, <1>2, <3>2, <3>3
    <3> QED
      BY <1>3, <2>1, <2>2, <3>4 DEF Job
  <2>3. CASE p.list = <<Other>>
    <3>1. Len(p.list) = 1 /\ p.list[1] = Other /\ p.list # <<>>
      BY <2>3
    <3>2. f = [k \in 1..2 |-> Job("enter", IF k = 1 THEN p.id ELSE p.list[k - 1])]
      BY <3>1
    <3>3. f[1] = Job("enter", p.id) /\ f[2] = Job("enter", Other)
      BY <3>1, <3>2
    <3>4. \A k \in 1..2 : f[k] \in Jobs
      <4>1. \A k \in 1..2 : k = 1 \/ k = 2
        OBVIOUS
      <4> QED
        BY <1>1, <1>2, <3>3, <4>1, Constants
    <3>5. f \in Seq(Jobs) /\ Len(f) = 2
      BY <3>2, <3>4
    <3> QED
      BY <1>3, <2>1, <3>1, <3>3, <3>5 DEF Job
  <2> QED
    BY <1>1, <2>2, <2>3
<1>4. CASE p.type \in {"exit", "gamestart"} \/ (p.type = "ready" /\ p.id # PlayerID)
  <2>1. JobsOf(p) = <<Job(p.type, p.id)>>
    BY <1>1, <1>4 DEF JobsOf
  <2>2. Job(p.type, p.id) \in Jobs /\ Job(p.type, p.id) = [type |-> p.type, id |-> p.id]
    BY <1>1, <1>2 DEF Job
  <2> QED
    BY <1>4, <2>1, <2>2
<1>5. CASE p.type = "ready" /\ p.id = PlayerID
  BY <1>5 DEF JobsOf
<1> QED
  BY <1>1, <1>3, <1>4, <1>5

\* Every step keeps every variable in its type.
LEMMA TypeStep ==
  ASSUME TypeOK, Types, Bounds, [Next]_vars
  PROVE  TypeOK' /\ Types'
<1> USE DEF server, handler, enqueue, slots, update, room, history, Told
<1>1. CASE Server
  <2>1. CASE EnterPlayer
    <3>1. /\ up # <<>> /\ up \in Seq(Requests) /\ wire \in Seq(Packets)
          /\ up' = Tail(up) /\ entered' = TRUE
          /\ Send("enter", Head(up).id, IF present THEN <<Other>> ELSE <<>>)
          /\ UNCHANGED <<present, visits, otherReady, begun, handler, enqueue, slots, size,
                         update, room, history, overlapped>>
      BY <2>1 DEF EnterPlayer, Types
    <3>2. Head(up).id \in Ids /\ up' \in Seq(Requests)
      <4>1. Head(up) \in Requests /\ up' \in Seq(Requests)
        BY <3>1, HeadTail
      <4> QED
        BY <4>1 DEF Requests
    <3>3. wire' \in Seq(Packets)
      BY <3>1, <3>2, Sent
    <3> QED
      BY <3>1, <3>2, <3>3, Flat DEF Types, TypeOK
  <2>2. CASE ServerPlayerReady
    <3>1. /\ up # <<>> /\ up \in Seq(Requests) /\ wire \in Seq(Packets)
          /\ up' = Tail(up)
          /\ Send("ready", Head(up).id, <<>>)
          /\ UNCHANGED <<server, handler, enqueue, slots, size, update, room, history,
                         overlapped>>
      BY <2>2 DEF ServerPlayerReady, Types
    <3>2. Head(up).id \in Ids /\ up' \in Seq(Requests)
      <4>1. Head(up) \in Requests /\ up' \in Seq(Requests)
        BY <3>1, HeadTail
      <4> QED
        BY <4>1 DEF Requests
    <3>3. wire' \in Seq(Packets)
      BY <3>1, <3>2, Sent
    <3> QED
      BY <3>1, <3>2, <3>3 DEF Types, TypeOK
  <2> QED
    BY <1>1, <2>1, <2>2 DEF Server
<1>2. CASE Opponent
  <2>1. /\ UNCHANGED <<entered, up, handler, enqueue, slots, size, update, room, history,
                       overlapped>>
        /\ visits' \in 0..MaxVisits
        /\ present' \in BOOLEAN /\ otherReady' \in BOOLEAN /\ begun' \in BOOLEAN
        /\ \/ UNCHANGED wire
           \/ \E t \in {"enter", "exit", "ready", "gamestart"}, x \in {Me, Other} :
                Send(t, x, <<>>)
    <3>1. visits \in 0..MaxVisits /\ MaxVisits \in Nat /\ present \in BOOLEAN
          /\ otherReady \in BOOLEAN /\ begun \in BOOLEAN
      BY Flat, BoundAssumption
    <3>2. CASE OtherEnters
      <4>1. visits < MaxVisits /\ visits' = visits + 1
        BY <3>2 DEF OtherEnters
      <4>2. visits' \in 0..MaxVisits
        BY <3>1, <4>1
      <4> QED
        BY <3>1, <3>2, <4>2 DEF OtherEnters
    <3>3. CASE OtherExits
      BY <3>1, <3>3 DEF OtherExits
    <3>4. CASE OtherReady
      BY <3>1, <3>4 DEF OtherReady
    <3>5. CASE ServerGameStart
      BY <3>1, <3>5 DEF ServerGameStart
    <3> QED
      BY <1>2, <3>2, <3>3, <3>4, <3>5 DEF Opponent
  <2>2. wire' \in Seq(Packets)
    BY <2>1, Sent, Constants DEF Types
  <2>3. TypeOK'
    BY <2>1, Flat DEF TypeOK
  <2> QED
    BY <2>1, <2>2, <2>3 DEF Types
<1>3. CASE DispatchPlayerInfo \/ Dispatch
  <2>1. wire # <<>> /\ wire \in Seq(Packets) /\ wire' = Tail(wire) /\ todo = <<>>
    BY <1>3 DEF DispatchPlayerInfo, Dispatch, Types
  <2>2. Head(wire) \in Packets /\ Head(wire).id \in Ids /\ wire' \in Seq(Packets)
    <3>1. Head(wire) \in Packets /\ wire' \in Seq(Packets)
      BY <2>1, HeadTail
    <3> QED
      BY <3>1 DEF Packets
  <2>3. CASE DispatchPlayerInfo
    <3>1. /\ PlayerID' = Head(wire).id
          /\ up' = Append(up, [type |-> "enter", id |-> Head(wire).id])
          /\ UNCHANGED <<server, todo, deaf, enqueue, slots, size, update, room, history,
                         overlapped>>
      BY <2>3 DEF DispatchPlayerInfo
    <3>2. up' \in Seq(Requests)
      <4>1. [type |-> "enter", id |-> Head(wire).id] \in Requests /\ up \in Seq(Requests)
        BY <2>2 DEF Requests, Types
      <4> QED
        BY <3>1, <4>1
    <3>3. TypeOK'
      BY <2>2, <3>1, Flat DEF TypeOK, Ids
    <3> QED
      BY <2>2, <3>1, <3>2, <3>3 DEF Types
  <2>4. CASE Dispatch
    <3>1. /\ Head(wire).type # "info"
          /\ todo' = todo \/ todo' = JobsOf(Head(wire))
          /\ deaf' = deaf \/ deaf' = TRUE
          /\ UNCHANGED <<server, up, PlayerID, enqueue, slots, size, update, room, history,
                         overlapped>>
      BY <2>4 DEF Dispatch
    <3>2. todo' \in Seq(Jobs)
      BY <2>2, <3>1, JobsFacts DEF Types
    <3>3. TypeOK'
      BY <3>1, Flat DEF TypeOK
    <3> QED
      BY <2>2, <3>1, <3>2, <3>3 DEF Types
  <2> QED
    BY <1>3, <2>3, <2>4
<1>4. CASE EnqueueStore
  <2> DEFINE entry == [job |-> Head(todo), nr |-> created + 1]
  <2>1. /\ todo # <<>> /\ todo \in Seq(Jobs) /\ created \in Nat
        /\ array' = [array EXCEPT ![tail] = entry]
        /\ tail' = Next1(tail) /\ todo' = Tail(todo) /\ created' = created + 1
        /\ npc' = "read"
        /\ UNCHANGED <<server, up, wire, PlayerID, deaf, nsize, head, size, update, room,
                       ran, overlapped>>
    BY <1>4 DEF EnqueueStore, Types
  <2>2. todo' \in Seq(Jobs) /\ entry \in Entries
    <3>1. todo' \in Seq(Jobs) /\ Head(todo) \in Jobs
      BY <2>1, HeadTail
    <3> QED
      BY <2>1, <3>1 DEF Entries
  <2>3. tail \in 0..(Capacity - 1) /\ tail' \in 0..(Capacity - 1)
    BY <2>1, Flat, NextSlot
  <2>4. /\ array' \in [0..(Capacity - 1) -> Entries \cup {None}]
        /\ \A i \in DOMAIN array : array'[i] = IF i = tail THEN entry ELSE array[i]
        /\ DOMAIN array' = DOMAIN array
    BY <2>1, <2>2, <2>3 DEF Types
  <2>5. \A i \in DOMAIN array' : array'[i] # None => array'[i].nr \in 1..created'
    <3>1. \A i \in DOMAIN array : array[i] # None => array[i].nr \in 1..created
      BY Flat
    <3>2. 1..created \subseteq 1..created' /\ entry.nr \in 1..created'
      BY <2>1
    <3> QED
      BY <2>4, <3>1, <3>2
  <2>6. TypeOK'
    BY <2>1, <2>3, <2>5 DEF TypeOK
  <2> QED
    BY <2>1, <2>2, <2>4, <2>6 DEF Types
<1>5. CASE EnqueueRead \/ EnqueueWrite
  <2>1. /\ nsize' \in 0..Capacity /\ size' \in 0..Capacity /\ overlapped' \in BOOLEAN
        /\ npc' \in {"idle", "read", "write"}
        /\ UNCHANGED <<server, up, wire, handler, slots, update, room, history>>
    <3>1. size \in 0..Capacity /\ nsize \in 0..Capacity /\ overlapped \in BOOLEAN
      BY Flat
    <3>2. CASE EnqueueRead
      BY <3>1, <3>2 DEF EnqueueRead
    <3>3. CASE EnqueueWrite
      <4>1. npc = "write" /\ nsize < Capacity /\ size' = nsize + 1
        BY <3>3 DEF EnqueueWrite, Bounds
      <4>2. size' \in 0..Capacity
        BY <3>1, <4>1, NextSlot
      <4> QED
        BY <3>1, <3>3, <4>2 DEF EnqueueWrite
    <3> QED
      BY <1>5, <3>2, <3>3
  <2>2. TypeOK'
    BY <2>1 DEF TypeOK
  <2> QED
    BY <2>1, <2>2 DEF Types
<1>6. CASE DequeueTake
  <2>1. /\ action' = array[head] /\ array' = [array EXCEPT ![head] = None]
        /\ head' = Next1(head) /\ mpc' = "read"
        /\ UNCHANGED <<server, up, wire, handler, enqueue, tail, size, msize, room,
                       history, overlapped>>
    BY <1>6 DEF DequeueTake
  <2>2. head \in 0..(Capacity - 1) /\ head' \in 0..(Capacity - 1)
    BY <2>1, Flat, NextSlot
  <2>3. /\ array' \in [0..(Capacity - 1) -> Entries \cup {None}]
        /\ \A i \in DOMAIN array : array'[i] = IF i = head THEN None ELSE array[i]
        /\ DOMAIN array' = DOMAIN array /\ action' \in Entries \cup {None}
    BY <2>1, <2>2 DEF Types
  <2>4. \A i \in DOMAIN array' : array'[i] # None => array'[i].nr \in 1..created'
    BY <2>1, <2>3, Flat
  <2>5. TypeOK'
    BY <2>1, <2>2, <2>4 DEF TypeOK
  <2> QED
    BY <2>1, <2>3, <2>5 DEF Types
<1>7. CASE RoomStart \/ DequeueRead \/ DequeueWrite
  <2>1. /\ msize' \in 0..Capacity /\ size' \in 0..Capacity /\ overlapped' \in BOOLEAN
        /\ mpc' \in {"start", "test", "read", "write", "run"} /\ playerID' \in Ids
        /\ UNCHANGED <<server, up, wire, handler, enqueue, slots, action, enemyID,
                       isEnemyEnter, isPlayerReady, readyText, readyButton, history>>
    <3>1. size \in 0..Capacity /\ msize \in 0..Capacity /\ overlapped \in BOOLEAN
          /\ playerID \in Ids /\ PlayerID \in Ids
      BY Flat
    <3>2. CASE RoomStart
      BY <3>1, <3>2 DEF RoomStart
    <3>3. CASE DequeueRead
      BY <3>1, <3>3 DEF DequeueRead
    <3>4. CASE DequeueWrite
      <4>1. mpc = "write" /\ msize > 0 /\ size' = msize - 1
        BY <3>4 DEF DequeueWrite, Bounds
      <4>2. size' \in 0..Capacity
        BY <3>1, <4>1, NextSlot
      <4> QED
        BY <3>1, <3>4, <4>2 DEF DequeueWrite
    <3> QED
      BY <1>7, <3>2, <3>3, <3>4
  <2>2. TypeOK'
    BY <2>1 DEF TypeOK, Ids
  <2> QED
    BY <2>1, <2>2 DEF Types
<1>8. CASE Run
  <2>1. /\ mpc' = "test" /\ action' = None
        /\ ran' = ran \/ (action # None /\ ran' = Append(ran, action.nr))
        /\ UNCHANGED <<server, up, wire, handler, enqueue, slots, size, msize, created,
                       overlapped, playerID>>
    BY <1>8 DEF Run
  <2>2. /\ isEnemyEnter' \in BOOLEAN /\ isPlayerReady' \in BOOLEAN
        /\ readyText' \in BOOLEAN /\ readyButton' \in BOOLEAN /\ enemyID' \in Ids
    <3>1. /\ isEnemyEnter \in BOOLEAN /\ isPlayerReady \in BOOLEAN
          /\ readyText \in BOOLEAN /\ readyButton \in BOOLEAN /\ enemyID \in Ids
      BY Flat
    <3>2. CASE UNCHANGED room
      BY <3>1, <3>2
    <3>3. CASE action # None /\ EnterRoom(action.job.id)
      <4>1. action.job.id \in Ids
        BY <3>3 DEF Types, Entries, Jobs
      <4> QED
        BY <3>1, <3>3, <4>1 DEF EnterRoom
    <3>4. CASE ExitRoom(action.job.id)
      BY <3>1, <3>4 DEF ExitRoom
    <3>5. CASE EnemyReady
      BY <3>1, <3>5 DEF EnemyReady
    <3>6. CASE GameStart
      BY <3>1, <3>6 DEF GameStart
    <3> QED
      BY <1>8, <3>2, <3>3, <3>4, <3>5, <3>6 DEF Run
  <2>3. ran' \in Seq(Nat)
    <3>1. ran \in Seq(Nat) /\ action \in Entries \cup {None}
      BY DEF Types
    <3>2. action # None => action.nr \in Nat
      BY <3>1 DEF Entries
    <3> QED
      BY <2>1, <3>1, <3>2
  <2>4. TypeOK'
    BY <2>1, <2>2 DEF TypeOK, Ids
  <2> QED
    BY <2>1, <2>3, <2>4 DEF Types
<1>9. CASE PlayerReady
  <2>1. /\ isPlayerReady' = TRUE
        /\ up' = Append(up, [type |-> "ready", id |-> playerID])
        /\ UNCHANGED <<server, wire, handler, enqueue, slots, size, update, playerID,
                       enemyID, isEnemyEnter, readyText, readyButton, created, ran,
                       overlapped>>
    BY <1>9 DEF PlayerReady
  <2>2. up' \in Seq(Requests)
    <3>1. [type |-> "ready", id |-> playerID] \in Requests /\ up \in Seq(Requests)
      BY Flat DEF Requests, Types
    <3> QED
      BY <2>1, <3>1
  <2>3. TypeOK'
    BY <2>1 DEF TypeOK
  <2> QED
    BY <2>1, <2>2, <2>3 DEF Types
<1>10. CASE UNCHANGED vars
  BY <1>10 DEF vars, Types, TypeOK
<1> QED
  BY <1>1, <1>2, <1>3, <1>4, <1>5, <1>6, <1>7, <1>8, <1>9, <1>10
     DEF Next, Network, Main

------------------------------------------------------------------------------
(* The queue *)

\* Steps of the server, of handlers and of the player leave the queue alone.
LEMMA QueueKept ==
  ASSUME Server \/ Opponent \/ DispatchPlayerInfo \/ Dispatch \/ PlayerReady
           \/ UNCHANGED vars
  PROVE  UNCHANGED <<npc, nsize, array, head, tail, size, mpc, msize, action, created, ran,
                     overlapped>>
BY DEF Server, EnterPlayer, ServerPlayerReady, Opponent, OtherEnters, OtherExits, OtherReady,
       ServerGameStart, Told, DispatchPlayerInfo, Dispatch, PlayerReady, vars, enqueue, slots,
       update, history

\* Every step leaves a thread its room in _size.
LEMMA BoundsStep ==
  ASSUME TypeOK, Bounds, [Next]_vars
  PROVE  Bounds'
<1>0. size \in 0..Capacity /\ nsize \in 0..Capacity /\ msize \in 0..Capacity
      /\ Capacity \in Nat
  BY Flat, NextSlot
<1>1. CASE Server \/ Opponent \/ DispatchPlayerInfo \/ Dispatch \/ PlayerReady
             \/ UNCHANGED vars
  BY <1>1, QueueKept DEF Bounds
<1>2. CASE EnqueueStore \/ EnqueueRead
  BY <1>0, <1>2 DEF EnqueueStore, EnqueueRead, Bounds, update
<1>3. CASE EnqueueWrite
  <2>1. size' > 0 /\ npc' = "idle" /\ UNCHANGED <<mpc, msize, nsize>>
    BY <1>0, <1>3 DEF EnqueueWrite, update
  <2> QED
    BY <2>1 DEF Bounds
<1>4. CASE RoomStart \/ Run
  BY <1>4 DEF RoomStart, Run, Bounds, enqueue
<1>5. CASE DequeueTake \/ DequeueRead
  BY <1>5 DEF DequeueTake, DequeueRead, Bounds, enqueue
<1>6. CASE DequeueWrite
  <2>1. size' < Capacity /\ mpc' = "run" /\ UNCHANGED <<npc, nsize, msize>>
    BY <1>0, <1>6 DEF DequeueWrite, enqueue
  <2> QED
    BY <2>1 DEF Bounds
<1> QED
  BY <1>1, <1>2, <1>3, <1>4, <1>5, <1>6 DEF Next, Network, Main

\* Every step keeps every job in one place.
LEMMA PlaceStep ==
  ASSUME TypeOK, Types, OnePlace, [Next]_vars
  PROVE  OnePlace'
<1>0. /\ created \in Nat /\ ran \in Seq(Nat) /\ Len(ran) \in Nat
      /\ array \in [0..(Capacity - 1) -> Entries \cup {None}]
      /\ action \in Entries \cup {None}
      /\ head \in 0..(Capacity - 1) /\ tail \in 0..(Capacity - 1)
      /\ \A i \in 0..(Capacity - 1) : array[i] # None => array[i].nr \in 1..created
  BY Flat DEF Types
<1>1. CASE Server \/ Opponent \/ DispatchPlayerInfo \/ Dispatch \/ PlayerReady
             \/ UNCHANGED vars
  BY <1>1, QueueKept DEF OnePlace
<1>2. CASE EnqueueStore
  <2> DEFINE entry == [job |-> Head(todo), nr |-> created + 1]
  <2>1. /\ UNCHANGED <<ran, action, mpc>> /\ created' = created + 1
        /\ array' = [array EXCEPT ![tail] = entry]
    BY <1>2 DEF EnqueueStore, update
  <2>2. /\ \A i \in 0..(Capacity - 1) : array'[i] = IF i = tail THEN entry ELSE array[i]
        /\ entry.nr = created + 1
    BY <1>0, <2>1
  <2>3. \A k \in 1..Len(ran) : ran[k] # entry.nr
    BY <1>0, <2>2 DEF OnePlace
  <2>4. action # None => action.nr # entry.nr
    BY <1>0, <2>2 DEF OnePlace
  <2>5. \A i \in 0..(Capacity - 1) : array[i] # None => array[i].nr # entry.nr
    BY <1>0, <2>2
  <2>6. 1..created \subseteq 1..created'
    BY <1>0, <2>1
  <2> HIDE DEF entry
  <2>7. \A i, j \in 0..(Capacity - 1) :
          i # j /\ array'[i] # None /\ array'[j] # None => array'[i].nr # array'[j].nr
    BY <2>2, <2>5 DEF OnePlace
  <2>8. \A i \in 0..(Capacity - 1) : array'[i] # None =>
          /\ \A k \in 1..Len(ran) : ran[k] # array'[i].nr
          /\ action # None => action.nr # array'[i].nr
    BY <2>2, <2>3, <2>4 DEF OnePlace
  <2> QED
    BY <2>1, <2>6, <2>7, <2>8 DEF OnePlace
<1>3. CASE EnqueueRead \/ EnqueueWrite \/ RoomStart \/ DequeueRead \/ DequeueWrite
  <2>1. /\ UNCHANGED <<ran, action, array, created>>
        /\ mpc' \in {"start", "test"} => mpc \in {"start", "test"}
    BY <1>3 DEF EnqueueRead, EnqueueWrite, RoomStart, DequeueRead, DequeueWrite, update,
                slots, history
  <2> QED
    BY <2>1 DEF OnePlace
<1>4. CASE DequeueTake
  <2>1. /\ UNCHANGED <<ran, created>> /\ mpc' = "read" /\ action = None
        /\ action' = array[head] /\ array' = [array EXCEPT ![head] = None]
    BY <1>4 DEF DequeueTake, history, OnePlace
  <2>2. \A i \in 0..(Capacity - 1) :
          /\ array'[i] # None => i # head /\ array'[i] = array[i] /\ array[i] # None
    BY <1>0, <2>1
  <2>3. /\ \A i, j \in 0..(Capacity - 1) :
             i # j /\ array'[i] # None /\ array'[j] # None => array'[i].nr # array'[j].nr
        /\ \A i \in 0..(Capacity - 1) : array'[i] # None =>
             /\ \A k \in 1..Len(ran) : ran[k] # array'[i].nr
             /\ action' # None => action'.nr # array'[i].nr
    BY <1>0, <2>1, <2>2 DEF OnePlace
  <2>4. action' # None => /\ action'.nr \in 1..created
                          /\ \A k \in 1..Len(ran) : ran[k] # action'.nr
    BY <1>0, <2>1 DEF OnePlace
  <2> QED
    BY <2>1, <2>3, <2>4 DEF OnePlace
<1>5. CASE Run
  <2>1. /\ UNCHANGED <<array, created>> /\ action' = None
        /\ \/ ran' = ran
           \/ action # None /\ ran' = Append(ran, action.nr)
    BY <1>5 DEF Run, slots
  <2>2. CASE ran' = ran
    BY <2>1, <2>2 DEF OnePlace
  <2>3. CASE action # None /\ ran' = Append(ran, action.nr)
    <3>1. /\ Len(ran') = Len(ran) + 1 /\ ran'[Len(ran) + 1] = action.nr
          /\ \A k \in 1..Len(ran) : ran'[k] = ran[k]
      BY <1>0, <2>3
    <3>2. \A k \in 1..Len(ran') : k \in 1..Len(ran) \/ k = Len(ran) + 1
      BY <1>0, <3>1
    <3>3. \A k \in 1..Len(ran') : ran'[k] \in 1..created
      BY <2>3, <3>1, <3>2 DEF OnePlace
    <3>4. \A i, k \in 1..Len(ran') : i # k => ran'[i] # ran'[k]
      BY <2>3, <3>1, <3>2 DEF OnePlace
    <3>5. \A i \in 0..(Capacity - 1) : array[i] # None =>
            \A k \in 1..Len(ran') : ran'[k] # array[i].nr
      BY <2>3, <3>1, <3>2 DEF OnePlace
    <3> QED
      BY <2>1, <3>3, <3>4, <3>5 DEF OnePlace
  <2> QED
    BY <2>1, <2>2, <2>3
<1> QED
  BY <1>1, <1>2, <1>3, <1>4, <1>5 DEF Next, Network, Main

\* The slots from _head on: each is followed by the next, and no two are the same.
LEMMA SlotFacts ==
  ASSUME head \in 0..(Capacity - 1)
  PROVE  /\ Slot(0) = head
         /\ \A j \in 0..Capacity : Slot(j) \in 0..(Capacity - 1)
         /\ \A j \in 0..(Capacity - 1) : Next1(Slot(j)) = Slot(j + 1)
         /\ \A i, j \in 0..(Capacity - 1) : i # j => Slot(i) # Slot(j)
         /\ head' = Next1(head) => \A j \in 0..(Capacity - 1) : Slot(j)' = Slot(j + 1)
<1>1. Capacity \in Nat /\ Capacity > 0
  BY NextSlot
<1>2. Slot(0) = head
  BY <1>1 DEF Slot
<1>3. \A j \in 0..Capacity : Slot(j) \in 0..(Capacity - 1)
  BY <1>1 DEF Slot
<1>4. \A j \in 0..(Capacity - 1) : Next1(Slot(j)) = Slot(j + 1)
  <2> SUFFICES ASSUME NEW j \in 0..(Capacity - 1)
               PROVE  Next1(Slot(j)) = Slot(j + 1)
    OBVIOUS
  <2>1. Next1(Slot(j)) = IF Slot(j) + 1 = Capacity THEN 0 ELSE Slot(j) + 1
    <3>1. j \in 0..Capacity
      BY <1>1
    <3>2. Slot(j) \in 0..(Capacity - 1)
      BY <1>3, <3>1
    <3> QED
      BY <3>2, NextSlot
  <2> QED
    BY <1>1, <2>1 DEF Slot
<1>5. \A i, j \in 0..(Capacity - 1) : i # j => Slot(i) # Slot(j)
  BY <1>1 DEF Slot
<1>6. ASSUME head' = Next1(head), NEW j \in 0..(Capacity - 1)
      PROVE  Slot(j)' = Slot(j + 1)
  <2>1. head' = IF head + 1 = Capacity THEN 0 ELSE head + 1
    BY <1>6, NextSlot
  <2> QED
    BY <1>1, <2>1 DEF Slot
<1> QED
  BY <1>2, <1>3, <1>4, <1>5, <1>6

\* Every step keeps the queue in order until the threads overlap.
LEMMA QueueStep ==
  ASSUME TypeOK, Types, Bounds, InQueue, [Next]_vars
  PROVE  InQueue'
<1> SUFFICES ASSUME ~overlapped'
             PROVE  InQueue'
  BY DEF InQueue
<1> USE DEF enqueue, slots, update, history
<1>0. /\ created \in Nat /\ ran \in Seq(Nat) /\ Len(ran) \in Nat
      /\ array \in [0..(Capacity - 1) -> Entries \cup {None}]
      /\ action \in Entries \cup {None} /\ None \notin Entries
      /\ head \in 0..(Capacity - 1) /\ tail \in 0..(Capacity - 1)
      /\ npc \in {"idle", "read", "write"} /\ mpc \in {"start", "test", "read", "write", "run"}
      /\ size \in 0..Capacity /\ Capacity \in Nat /\ Capacity > 0
      /\ overlapped \in BOOLEAN
  <2>1. ran \in Seq(Nat) /\ Len(ran) \in Nat
    BY DEF Types
  <2>2. Capacity \in Nat /\ Capacity > 0
    BY NextSlot
  <2>3. None \notin Entries
    BY Constants
  <2>4. /\ head \in 0..(Capacity - 1) /\ tail \in 0..(Capacity - 1)
        /\ npc \in {"idle", "read", "write"} /\ mpc \in {"start", "test", "read", "write", "run"}
        /\ size \in 0..Capacity /\ overlapped \in BOOLEAN
    BY Flat
  <2> QED
    BY <2>1, <2>2, <2>3, <2>4 DEF Types
<1>a. ~overlapped
  <2>1. CASE Server \/ Opponent \/ DispatchPlayerInfo \/ Dispatch \/ PlayerReady
               \/ UNCHANGED vars
    BY <2>1, QueueKept
  <2>2. CASE EnqueueStore \/ EnqueueRead \/ EnqueueWrite \/ Main
    BY <1>0, <2>2 DEF EnqueueStore, EnqueueRead, EnqueueWrite, Main, RoomStart, DequeueTake,
                      DequeueRead, DequeueWrite, Run
  <2> QED
    BY <2>1, <2>2 DEF Next, Network
<1>b. /\ Queued \in 0..Capacity
      /\ size = Queued - (IF npc = "idle" THEN 0 ELSE 1)
                       + (IF mpc \in {"read", "write"} THEN 1 ELSE 0)
      /\ npc = "write" => nsize = size /\ mpc # "write"
      /\ mpc = "write" => msize = size
      /\ tail = Slot(Queued)
      /\ \A j \in 0..(Queued - 1) :
           array[Slot(j)] # None /\ array[Slot(j)].nr = TakenJobs + j + 1
      /\ mpc \in {"read", "write", "run"} => action # None /\ action.nr = TakenJobs
      /\ \A k \in 1..Len(ran) : ran[k] = k
      /\ InHand \in {0, 1} /\ TakenJobs \in Nat /\ Queued = created - TakenJobs
  BY <1>0, <1>a DEF InQueue, InHand, TakenJobs, Queued
<1>1. CASE Server \/ Opponent \/ DispatchPlayerInfo \/ Dispatch \/ PlayerReady
             \/ UNCHANGED vars
  BY <1>1, QueueKept DEF InQueue, Queued, TakenJobs, InHand, Slot
<1>2. CASE EnqueueStore
  <2> DEFINE entry == [job |-> Head(todo), nr |-> created + 1]
  <2>1. /\ npc = "idle" /\ size < Capacity /\ npc' = "read"
        /\ array' = [array EXCEPT ![tail] = entry]
        /\ tail' = Next1(tail) /\ created' = created + 1
        /\ UNCHANGED <<nsize, head, size, mpc, msize, action, ran>>
    BY <1>2 DEF EnqueueStore
  <2>2. Queued \in 0..(Capacity - 1)
    BY <1>0, <1>b, <2>1
  <2>3. /\ TakenJobs' = TakenJobs /\ Queued' = Queued + 1
        /\ \A j : Slot(j)' = Slot(j)
    <3>1. TakenJobs' = TakenJobs /\ \A j : Slot(j)' = Slot(j)
      BY <2>1 DEF TakenJobs, InHand, Slot
    <3> QED
      BY <1>0, <1>b, <2>1, <3>1 DEF Queued
  <2>4. tail' = Slot(Queued + 1)
    BY <1>0, <1>b, <2>1, <2>2, SlotFacts
  <2>5. \A i \in 0..(Capacity - 1) : array'[i] = IF i = tail THEN entry ELSE array[i]
    BY <1>0, <2>1
  <2>6. entry \in [job : {Head(todo)}, nr : Nat] /\ entry.nr = TakenJobs + Queued + 1
    BY <1>0, <1>b
  <2>7. entry # None
    <3>1. Head(todo) \in Jobs
      BY <1>2, HeadTail DEF EnqueueStore, Types
    <3>2. entry \in Entries
      BY <1>0, <3>1 DEF Entries
    <3> QED
      BY <1>0, <3>2
  <2>8. ASSUME NEW j \in 0..Queued
        PROVE  array'[Slot(j)] # None /\ array'[Slot(j)].nr = TakenJobs + j + 1
    <3>0. j \in 0..(Capacity - 1) /\ j \in 0..Capacity
      BY <1>0, <2>2
    <3>1. Slot(j) \in 0..(Capacity - 1) /\ j \in 0..(Capacity - 1)
      BY <1>0, <3>0, SlotFacts
    <3>2. CASE j = Queued
      BY <1>b, <2>5, <2>6, <2>7, <3>1, <3>2
    <3>3. CASE j # Queued
      <4>1. Slot(j) # tail /\ j \in 0..(Queued - 1)
        BY <1>0, <1>b, <2>2, <3>1, <3>3, SlotFacts
      <4> QED
        BY <1>b, <2>5, <3>1, <4>1
    <3> QED
      BY <3>2, <3>3
  <2>9. Queued' \in 0..Capacity /\ (Queued + 1) - 1 = Queued
    BY <1>0, <2>2, <2>3
  <2>10. size' = Queued' - (IF npc' = "idle" THEN 0 ELSE 1)
                       + (IF mpc' \in {"read", "write"} THEN 1 ELSE 0)
    BY <1>0, <1>b, <2>1, <2>2, <2>3
  <2> HIDE DEF entry
  <2> QED
    BY <1>b, <2>1, <2>3, <2>4, <2>8, <2>9, <2>10 DEF InQueue
<1>3. CASE EnqueueRead \/ RoomStart \/ DequeueRead
  <2>1. /\ UNCHANGED <<array, head, tail, size, action, created, ran>>
        /\ TakenJobs' = TakenJobs /\ Queued' = Queued
        /\ \A j : Slot(j)' = Slot(j)
    <3>1. UNCHANGED <<array, head, tail, size, action, created, ran>>
      BY <1>3 DEF EnqueueRead, RoomStart, DequeueRead
    <3>2. InHand' = InHand
      BY <1>3 DEF EnqueueRead, RoomStart, DequeueRead, InHand
    <3> QED
      BY <3>1, <3>2 DEF TakenJobs, Queued, Slot
  <2>2. /\ (IF npc' = "idle" THEN 0 ELSE 1) = IF npc = "idle" THEN 0 ELSE 1
        /\ (IF mpc' \in {"read", "write"} THEN 1 ELSE 0)
             = IF mpc \in {"read", "write"} THEN 1 ELSE 0
        /\ npc' = "write" => nsize' = size' /\ mpc' # "write"
        /\ mpc' = "write" => msize' = size'
        /\ mpc' \in {"read", "write", "run"} => mpc \in {"read", "write", "run"}
    <3>1. CASE EnqueueRead
      BY <1>0, <1>b, <3>1 DEF EnqueueRead
    <3>2. CASE RoomStart
      BY <1>0, <1>b, <3>2 DEF RoomStart
    <3>3. CASE DequeueRead
      BY <1>0, <1>b, <3>3 DEF DequeueRead
    <3> QED
      BY <1>3, <3>1, <3>2, <3>3
  <2> QED
    BY <1>b, <2>1, <2>2 DEF InQueue
<1>4. CASE EnqueueWrite \/ DequeueWrite
  <2>1. /\ UNCHANGED <<array, head, tail, action, created, ran>>
        /\ TakenJobs' = TakenJobs /\ Queued' = Queued
        /\ \A j : Slot(j)' = Slot(j)
    <3>1. UNCHANGED <<array, head, tail, action, created, ran>>
      BY <1>4 DEF EnqueueWrite, DequeueWrite
    <3>2. InHand' = InHand
      BY <1>4 DEF EnqueueWrite, DequeueWrite, InHand
    <3> QED
      BY <3>1, <3>2 DEF TakenJobs, Queued, Slot
  <2>2. /\ size' = Queued - (IF npc' = "idle" THEN 0 ELSE 1)
                          + (IF mpc' \in {"read", "write"} THEN 1 ELSE 0)
        /\ ~(npc' = "write") /\ ~(mpc' = "write")
        /\ mpc' \in {"read", "write", "run"} => mpc \in {"read", "write", "run"}
    <3>1. CASE EnqueueWrite
      BY <1>0, <1>b, <3>1 DEF EnqueueWrite
    <3>2. CASE DequeueWrite
      BY <1>0, <1>b, <3>2 DEF DequeueWrite
    <3> QED
      BY <1>4, <3>1, <3>2
  <2> QED
    BY <1>b, <2>1, <2>2 DEF InQueue
<1>5. CASE DequeueTake
  <2>1. /\ mpc = "test" /\ mpc' = "read" /\ size > 0
        /\ action' = array[head] /\ array' = [array EXCEPT ![head] = None]
        /\ head' = Next1(head)
        /\ UNCHANGED <<npc, nsize, tail, size, msize, created, ran>>
    BY <1>5 DEF DequeueTake
  <2>2. /\ TakenJobs' = TakenJobs + 1 /\ Queued' = Queued - 1 /\ Queued \in 1..Capacity
    <3>1. InHand = 0 /\ InHand' = 1
      BY <2>1 DEF InHand
    <3>2. TakenJobs' = TakenJobs + 1
      BY <1>0, <2>1, <3>1 DEF TakenJobs
    <3>3. Queued \in 1..Capacity
      BY <1>0, <1>b, <2>1
    <3> QED
      BY <1>0, <1>b, <2>1, <3>2, <3>3 DEF Queued
  <2>3. \A j \in 0..(Capacity - 1) : Slot(j)' = Slot(j + 1)
    BY <1>0, <2>1, SlotFacts
  <2>4. tail' = Slot(Queued)'
    <3>1. PICK j \in 0..(Capacity - 1) : j + 1 = Queued /\ j = Queued'
      <4>1. Queued - 1 \in 0..(Capacity - 1) /\ (Queued - 1) + 1 = Queued
        BY <1>0, <2>2
      <4> QED
        BY <2>2, <4>1
    <3>2. Slot(j)' = Slot(Queued)
      BY <2>3, <3>1
    <3>3. Slot(Queued)' = Slot(j)'
      BY <3>1 DEF Slot
    <3> QED
      BY <1>b, <2>1, <3>2, <3>3
  <2>5. \A i \in 0..(Capacity - 1) : array'[i] = IF i = head THEN None ELSE array[i]
    BY <1>0, <2>1
  <2>6. ASSUME NEW j \in 0..(Queued' - 1)
        PROVE  array'[Slot(j)'] # None /\ array'[Slot(j)'].nr = TakenJobs' + j + 1
    <3>1. j \in 0..(Capacity - 1) /\ j + 1 \in 0..(Queued - 1) /\ j + 1 \in 0..(Capacity - 1)
          /\ j + 1 # 0 /\ 0 \in 0..(Capacity - 1) /\ j + 1 \in 0..Capacity /\ j \in Nat
      BY <1>0, <2>2, <2>6
    <3>2. Slot(j + 1) # head /\ Slot(j + 1) \in 0..(Capacity - 1) /\ Slot(j)' = Slot(j + 1)
      <4>1. Slot(0) = head /\ Slot(j + 1) # Slot(0) /\ Slot(j + 1) \in 0..(Capacity - 1)
        BY <1>0, <3>1, SlotFacts
      <4> QED
        BY <2>3, <3>1, <4>1
    <3>3. array[Slot(j + 1)] # None /\ array[Slot(j + 1)].nr = TakenJobs + (j + 1) + 1
      BY <1>b, <3>1
    <3>4. TakenJobs + (j + 1) + 1 = TakenJobs' + j + 1
      BY <1>b, <2>2, <3>1
    <3> QED
      BY <2>5, <3>2, <3>3, <3>4
  <2>7. action' # None /\ action'.nr = TakenJobs'
    <3>1. 0 \in 0..(Queued - 1) /\ TakenJobs + 0 + 1 = TakenJobs + 1
      BY <1>0, <1>b, <2>2
    <3>2. array[Slot(0)] # None /\ array[Slot(0)].nr = TakenJobs + 0 + 1
      BY <1>b, <3>1
    <3> QED
      BY <1>0, <2>1, <2>2, <3>1, <3>2, SlotFacts
  <2>8. Queued' \in 0..Capacity
    BY <1>0, <2>2
  <2>9. size' = Queued' - (IF npc' = "idle" THEN 0 ELSE 1)
                       + (IF mpc' \in {"read", "write"} THEN 1 ELSE 0)
    BY <1>0, <1>b, <2>1, <2>2
  <2> QED
    BY <1>b, <2>1, <2>4, <2>6, <2>7, <2>8, <2>9 DEF InQueue
<1>6. CASE Run
  <2>1. mpc = "run" /\ mpc' = "test" /\ ran' = Append(ran, action.nr)
        /\ UNCHANGED <<npc, nsize, array, head, tail, size, msize, created>>
    BY <1>6, <1>b DEF Run
  <2>2. /\ Len(ran') = Len(ran) + 1 /\ ran'[Len(ran) + 1] = action.nr
        /\ \A k \in 1..Len(ran) : ran'[k] = ran[k]
    <3>1. action.nr \in Nat
      BY <1>b, <2>1
    <3> QED
      BY <1>0, <2>1, <3>1
  <2>3. TakenJobs = Len(ran) + 1 /\ TakenJobs' = TakenJobs /\ Queued' = Queued
        /\ \A j : Slot(j)' = Slot(j)
    <3>1. TakenJobs = Len(ran) + 1 /\ TakenJobs' = Len(ran') + 0
      BY <2>1 DEF TakenJobs, InHand
    <3>2. TakenJobs' = TakenJobs
      BY <1>0, <2>2, <3>1
    <3> QED
      BY <2>1, <3>1, <3>2 DEF Queued, Slot
  <2>4. \A k \in 1..Len(ran') : ran'[k] = k
    <3>1. \A k \in 1..Len(ran') : k \in 1..Len(ran) \/ k = Len(ran) + 1
      BY <1>0, <2>2
    <3> QED
      BY <1>b, <2>1, <2>2, <2>3, <3>1
  <2>5. size' = Queued' - (IF npc' = "idle" THEN 0 ELSE 1)
                       + (IF mpc' \in {"read", "write"} THEN 1 ELSE 0)
    BY <1>0, <1>b, <2>1, <2>3
  <2> QED
    BY <1>b, <2>1, <2>3, <2>4, <2>5 DEF InQueue
<1> QED
  BY <1>1, <1>2, <1>3, <1>4, <1>5, <1>6 DEF Next, Network, Main

------------------------------------------------------------------------------
(* The jobs that are still to run *)

\* The Room does not come to follow the server once it has ceased to.
LEMMA SoundStep ==
  ASSUME TypeOK, [Next]_vars, Sound'
  PROVE  Sound
<1>0. overlapped \in BOOLEAN /\ deaf \in BOOLEAN
  BY DEF TypeOK
<1> USE DEF Sound, server, handler, enqueue, slots, update, room, history, Told
<1>1. CASE Server \/ Opponent \/ UNCHANGED vars
  BY <1>1 DEF Server, EnterPlayer, ServerPlayerReady, Opponent, OtherEnters, OtherExits,
              OtherReady, ServerGameStart, vars
<1>2. CASE Network
  BY <1>0, <1>2 DEF Network, DispatchPlayerInfo, Dispatch, EnqueueStore, EnqueueRead,
                    EnqueueWrite
<1>3. CASE Main \/ PlayerReady
  BY <1>0, <1>3 DEF Main, RoomStart, DequeueTake, DequeueRead, DequeueWrite, Run, EnterRoom,
                    ExitRoom, EnemyReady, GameStart, PlayerReady
<1> QED
  BY <1>1, <1>2, <1>3 DEF Next

\* Where the jobs are, while the threads have not overlapped.
LEMMA Places ==
  ASSUME TypeOK, Types, InQueue, ~overlapped
  PROVE  /\ created \in Nat /\ Len(ran) \in Nat /\ Len(todo) \in Nat
         /\ TakenJobs \in Nat /\ Queued = created - TakenJobs /\ Queued \in 0..Capacity
         /\ InHand \in {0, 1} /\ TakenJobs = Len(ran) + InHand
         /\ tail = Slot(Queued)
         /\ head \in 0..(Capacity - 1) /\ tail \in 0..(Capacity - 1)
         /\ Capacity \in Nat /\ Capacity > 0
         /\ Pending \subseteq Nat /\ \A m \in Pending : m > 0 /\ m > Len(ran)
<1>1. ran \in Seq(Nat) /\ created \in Nat /\ todo \in Seq(Jobs)
  BY DEF Types
<1>2. Len(ran) \in Nat /\ Len(todo) \in Nat
  BY <1>1
<1>3. InHand \in {0, 1} /\ TakenJobs = Len(ran) + InHand /\ Queued = created - TakenJobs
  BY DEF InHand, TakenJobs, Queued
<1>4. Queued \in 0..Capacity /\ tail = Slot(Queued)
  BY DEF InQueue
<1>5. TakenJobs \in Nat
  BY <1>2, <1>3
<1>6. Pending \subseteq Nat /\ \A m \in Pending : m > 0 /\ m > Len(ran)
  BY <1>1, <1>2 DEF Pending
<1> QED
  BY <1>1, <1>2, <1>3, <1>4, <1>5, <1>6, Flat, NextSlot

\* Only Dispatch and Run change what is to run: storing a job and taking it out again
\* move it.
LEMMA PendingKept ==
  ASSUME TypeOK, Types, Bounds, InQueue, ~overlapped,
         \/ Server \/ Opponent \/ DispatchPlayerInfo \/ PlayerReady \/ UNCHANGED vars
         \/ EnqueueStore \/ EnqueueRead \/ EnqueueWrite
         \/ RoomStart \/ DequeueTake \/ DequeueRead \/ DequeueWrite
  PROVE  Pending' = Pending /\ \A m \in Pending : PendingJob(m)' = PendingJob(m)
<1>0. /\ created \in Nat /\ Len(ran) \in Nat /\ Len(todo) \in Nat
      /\ TakenJobs \in Nat /\ Queued = created - TakenJobs /\ Queued \in 0..Capacity
      /\ InHand \in {0, 1} /\ TakenJobs = Len(ran) + InHand
      /\ tail = Slot(Queued)
      /\ head \in 0..(Capacity - 1) /\ tail \in 0..(Capacity - 1)
      /\ Capacity \in Nat /\ Capacity > 0
      /\ Pending \subseteq Nat /\ \A m \in Pending : m > 0 /\ m > Len(ran)
  BY Places
<1> USE <1>0
<1>1. CASE EnqueueStore
  <2> DEFINE entry == [job |-> Head(todo), nr |-> created + 1]
  <2>1. /\ todo # <<>> /\ todo \in Seq(Jobs) /\ array' = [array EXCEPT ![tail] = entry]
        /\ created' = created + 1 /\ todo' = Tail(todo) /\ size < Capacity /\ npc = "idle"
        /\ UNCHANGED <<head, mpc, action, ran>>
    BY <1>1 DEF EnqueueStore, Types, update
  <2>2. /\ Len(todo') = Len(todo) - 1 /\ Len(todo) > 0 /\ Head(todo) = todo[1]
        /\ \A k \in 1..(Len(todo) - 1) : todo'[k] = todo[k + 1]
    BY <2>1, HeadTail
  <2>3. Pending' = Pending
    BY <2>1, <2>2 DEF Pending
  <2>4. TakenJobs' = TakenJobs /\ \A j : Slot(j)' = Slot(j)
    BY <2>1 DEF TakenJobs, InHand, Slot
  <2>5. Queued \in 0..(Capacity - 1)
    <3>1. size \in 0..Capacity
      BY Flat
    <3>2. size = Queued + (IF mpc \in {"read", "write"} THEN 1 ELSE 0)
      BY <2>1 DEF InQueue
    <3> QED
      BY <2>1, <3>1, <3>2
  <2>6. \A i \in 0..(Capacity - 1) : array'[i] = IF i = tail THEN entry ELSE array[i]
    BY <2>1 DEF Types
  <2>7. ASSUME NEW m \in Pending
        PROVE  PendingJob(m)' = PendingJob(m)
    <3>0. m \in Nat /\ m <= created + Len(todo)
      BY <2>7 DEF Pending
    <3>1. CASE m <= TakenJobs
      BY <2>1, <2>4, <3>1 DEF PendingJob
    <3>2. CASE m > TakenJobs /\ m <= created
      <4>1. PICK j \in 0..(Queued - 1) : j = m - TakenJobs - 1
        <5>1. m - TakenJobs - 1 \in 0..(Queued - 1)
          BY <3>0, <3>2
        <5> QED
          BY <5>1
      <4>2. j \in 0..(Capacity - 1) /\ j \in 0..Capacity /\ Queued # j
        BY <2>5
      <4>3. Slot(j) \in 0..(Capacity - 1) /\ Slot(j) # tail
        <5>1. Slot(j) # Slot(Queued)
          BY <2>5, <4>2, SlotFacts
        <5> QED
          BY <4>2, <5>1, SlotFacts
      <4>4. PendingJob(m) = array[Slot(j)].job
        BY <3>0, <3>2, <4>1 DEF PendingJob
      <4>5. PendingJob(m)' = array'[Slot(j)].job
        <5>1. ~(m <= TakenJobs') /\ m <= created' /\ m - TakenJobs' - 1 = j
          <6>1. TakenJobs' = TakenJobs /\ created' = created + 1
            BY <2>1, <2>4
          <6> QED
            BY <3>0, <3>2, <4>1, <6>1
        <5> QED
          BY <2>4, <5>1 DEF PendingJob
      <4> QED
        BY <2>6, <4>3, <4>4, <4>5
    <3>3. CASE m = created + 1
      <4>1. PendingJob(m) = todo[1]
        BY <3>3 DEF PendingJob
      <4>2. PendingJob(m)' = array'[Slot(Queued)].job
        <5>1. ~(m <= TakenJobs') /\ m <= created' /\ m - TakenJobs' - 1 = Queued
          BY <2>1, <2>4, <3>3
        <5> QED
          BY <2>4, <5>1 DEF PendingJob
      <4> QED
        BY <2>2, <2>6, <4>1, <4>2
    <3>4. CASE m > created + 1
      <4>1. PendingJob(m) = todo[m - created]
        BY <3>0, <3>4 DEF PendingJob
      <4>2. PendingJob(m)' = todo'[m - (created + 1)]
        <5>1. ~(m <= TakenJobs') /\ ~(m <= created') /\ created' = created + 1
          BY <2>1, <2>4, <3>0, <3>4
        <5> QED
          BY <5>1 DEF PendingJob
      <4>3. m - (created + 1) \in 1..(Len(todo) - 1) /\ (m - (created + 1)) + 1 = m - created
        BY <3>0, <3>4
      <4> QED
        BY <2>2, <4>1, <4>2, <4>3
    <3> QED
      BY <3>0, <3>1, <3>2, <3>3, <3>4
  <2> QED
    BY <2>3, <2>7
<1>2. CASE DequeueTake
  <2>1. /\ mpc = "test" /\ mpc' = "read" /\ size > 0 /\ action' = array[head]
        /\ array' = [array EXCEPT ![head] = None] /\ head' = Next1(head)
        /\ UNCHANGED <<created, ran, todo>>
    BY <1>2 DEF DequeueTake, handler, history
  <2>2. InHand = 0 /\ InHand' = 1 /\ TakenJobs' = TakenJobs + 1 /\ Queued \in 1..Capacity
    <3>1. InHand = 0 /\ InHand' = 1
      BY <2>1 DEF InHand
    <3>2. TakenJobs' = TakenJobs + 1
      BY <2>1, <3>1 DEF TakenJobs
    <3>3. npc \in {"idle", "read", "write"} /\ size \in 0..Capacity
      BY Flat
    <3>4. Queued \in 1..Capacity
      BY <2>1, <3>3 DEF InQueue
    <3> QED
      BY <3>1, <3>2, <3>4
  <2>3. Pending' = Pending
    BY <2>1 DEF Pending
  <2>4. /\ \A i \in 0..(Capacity - 1) : array'[i] = IF i = head THEN None ELSE array[i]
        /\ \A j \in 0..(Capacity - 1) : Slot(j)' = Slot(j + 1)
        /\ \A j \in 1..(Capacity - 1) : Slot(j) # head /\ Slot(j) \in 0..(Capacity - 1)
        /\ Slot(0) = head
    <3>1. \A i \in 0..(Capacity - 1) : array'[i] = IF i = head THEN None ELSE array[i]
      BY <2>1 DEF Types
    <3>2. \A j \in 1..(Capacity - 1) : j # 0 /\ 0 \in 0..(Capacity - 1)
                                       /\ j \in 0..(Capacity - 1) /\ j \in 0..Capacity
      OBVIOUS
    <3> QED
      BY <2>1, <3>1, <3>2, SlotFacts
  <2>5. ASSUME NEW m \in Pending
        PROVE  PendingJob(m)' = PendingJob(m)
    <3>0. m \in Nat /\ m <= created + Len(todo) /\ m > TakenJobs
      BY <2>2, <2>5 DEF Pending
    <3>1. CASE m = TakenJobs + 1
      <4>1. PendingJob(m) = array[head].job
        <5>1. ~(m <= TakenJobs) /\ m <= created /\ m - TakenJobs - 1 = 0
          BY <2>2, <3>1
        <5> QED
          BY <2>4, <5>1 DEF PendingJob
      <4>2. PendingJob(m)' = action'.job
        BY <2>2, <3>1 DEF PendingJob
      <4> QED
        BY <2>1, <4>1, <4>2
    <3>2. CASE m > TakenJobs + 1 /\ m <= created
      <4>1. PICK j \in 0..(Queued - 2) : j = m - TakenJobs - 2
        <5>1. m - TakenJobs - 2 \in 0..(Queued - 2)
          BY <3>0, <3>2
        <5> QED
          BY <5>1
      <4>2. /\ j \in 0..(Capacity - 1) /\ j + 1 \in 1..(Capacity - 1)
            /\ m - TakenJobs - 1 = j + 1
        BY <2>2, <3>0, <4>1
      <4>3. PendingJob(m) = array[Slot(j + 1)].job
        <5>1. ~(m <= TakenJobs)
          BY <3>0
        <5> QED
          BY <3>2, <4>2, <5>1 DEF PendingJob
      <4>4. PendingJob(m)' = array'[Slot(j)'].job
        <5>1. ~(m <= TakenJobs') /\ m - TakenJobs' - 1 = j /\ m <= created'
          <6>1. TakenJobs' = TakenJobs + 1 /\ created' = created
            BY <2>1, <2>2
          <6> QED
            BY <3>0, <3>2, <4>1, <6>1
        <5> QED
          BY <5>1 DEF PendingJob, Slot
      <4> QED
        BY <2>4, <4>2, <4>3, <4>4
    <3>3. CASE m > TakenJobs + 1 /\ m > created
      <4>1. ~(m <= TakenJobs) /\ ~(m <= TakenJobs') /\ ~(m <= created)
        BY <2>2, <3>0, <3>3
      <4> QED
        BY <2>1, <4>1 DEF PendingJob
    <3> QED
      BY <3>0, <3>1, <3>2, <3>3
  <2> QED
    BY <2>3, <2>5
<1>3. CASE \/ Server \/ Opponent \/ DispatchPlayerInfo \/ PlayerReady \/ UNCHANGED vars
           \/ EnqueueRead \/ EnqueueWrite \/ RoomStart \/ DequeueRead \/ DequeueWrite
  <2>1. UNCHANGED <<created, ran, todo, array, head, action, InHand>>
    <3> USE DEF server, handler, enqueue, slots, update, room, history, Told, InHand
    <3>1. CASE Server \/ Opponent \/ UNCHANGED vars
      BY <3>1 DEF Server, EnterPlayer, ServerPlayerReady, Opponent, OtherEnters, OtherExits,
                  OtherReady, ServerGameStart, vars
    <3>2. CASE DispatchPlayerInfo \/ EnqueueRead \/ EnqueueWrite
      BY <3>2 DEF DispatchPlayerInfo, EnqueueRead, EnqueueWrite
    <3>3. CASE PlayerReady \/ RoomStart \/ DequeueRead \/ DequeueWrite
      BY <3>3 DEF PlayerReady, RoomStart, DequeueRead, DequeueWrite
    <3> QED
      BY <1>3, <3>1, <3>2, <3>3
  <2>2. TakenJobs' = TakenJobs /\ \A j : Slot(j)' = Slot(j)
    BY <2>1 DEF TakenJobs, Slot
  <2> QED
    BY <2>1, <2>2 DEF Pending, PendingJob
<1> QED
  BY <1>1, <1>2, <1>3

\* Run takes the first of them.
LEMMA PendingRun ==
  ASSUME TypeOK, Types, InQueue, ~overlapped, Run
  PROVE  /\ action # None /\ Len(ran) + 1 \in Pending
         /\ action.job = PendingJob(Len(ran) + 1)
         /\ Pending' = Pending \ {Len(ran) + 1}
         /\ \A m \in Pending' : PendingJob(m)' = PendingJob(m) /\ m > Len(ran) + 1
<1>0. /\ created \in Nat /\ Len(ran) \in Nat /\ Len(todo) \in Nat
      /\ TakenJobs \in Nat /\ Queued = created - TakenJobs /\ Queued \in 0..Capacity
      /\ InHand \in {0, 1} /\ TakenJobs = Len(ran) + InHand
      /\ tail = Slot(Queued)
      /\ head \in 0..(Capacity - 1) /\ tail \in 0..(Capacity - 1)
      /\ Capacity \in Nat /\ Capacity > 0
      /\ Pending \subseteq Nat /\ \A m \in Pending : m > 0 /\ m > Len(ran)
  BY Places
<1> USE <1>0
<1>1. /\ mpc = "run" /\ mpc' = "test"
      /\ UNCHANGED <<created, array, head, todo>>
  BY DEF Run, slots, handler
<1>2. action # None /\ action.nr = TakenJobs /\ TakenJobs = Len(ran) + 1
  BY <1>1 DEF InQueue, TakenJobs, InHand
<1>3. ran' = Append(ran, action.nr) /\ Len(ran') = Len(ran) + 1
  <2>1. ran' = Append(ran, action.nr)
    BY <1>2 DEF Run
  <2>2. action.nr \in Nat /\ ran \in Seq(Nat)
    BY <1>2 DEF Types
  <2> QED
    BY <2>1, <2>2
<1>4. TakenJobs' = TakenJobs /\ \A j : Slot(j)' = Slot(j)
  <2>1. InHand' = 0 /\ TakenJobs' = Len(ran') + InHand'
    BY <1>1 DEF TakenJobs, InHand
  <2> QED
    BY <1>1, <1>2, <1>3, <2>1 DEF Slot
<1>5. Len(ran) + 1 \in Pending /\ Pending' = Pending \ {Len(ran) + 1}
      /\ \A m \in Pending' : m > Len(ran) + 1
  BY <1>1, <1>2, <1>3 DEF Pending
<1>6. action.job = PendingJob(Len(ran) + 1)
  BY <1>2 DEF PendingJob
<1>7. \A m \in Pending' : PendingJob(m)' = PendingJob(m)
  <2> SUFFICES ASSUME NEW m \in Pending'
               PROVE  PendingJob(m)' = PendingJob(m)
    OBVIOUS
  <2>1. m \in Nat /\ m > Len(ran) + 1
    BY <1>5
  <2>2. ~(m <= TakenJobs) /\ ~(m <= TakenJobs')
    BY <1>2, <1>4, <2>1
  <2> QED
    BY <1>1, <1>4, <2>2 DEF PendingJob
<1> QED
  BY <1>2, <1>5, <1>6, <1>7

\* Two intervals that meet are one.
LEMMA Adjacent ==
  ASSUME NEW a \in Nat, NEW b \in Nat, NEW n \in Nat, a <= b
  PROVE  (a + 1)..(b + n) = ((a + 1)..b) \cup ((b + 1)..(b + n))
OBVIOUS

\* Dispatch adds a packet's jobs behind them.
LEMMA PendingDispatch ==
  ASSUME TypeOK, Types, InQueue, ~overlapped, Dispatch, ~deaf'
  PROVE  LET jobs == JobsOf(Head(wire)) IN
         /\ jobs \in Seq(Jobs)
         /\ Pending' = Pending \cup (created + 1)..(created + Len(jobs))
         /\ \A m \in Pending : PendingJob(m)' = PendingJob(m) /\ m <= created
         /\ \A k \in 1..Len(jobs) : \A m : m = created + k => PendingJob(m)' = jobs[k]
<1>0. /\ created \in Nat /\ Len(ran) \in Nat /\ Len(todo) \in Nat
      /\ TakenJobs \in Nat /\ Queued = created - TakenJobs /\ Queued \in 0..Capacity
      /\ InHand \in {0, 1} /\ TakenJobs = Len(ran) + InHand
      /\ tail = Slot(Queued)
      /\ head \in 0..(Capacity - 1) /\ tail \in 0..(Capacity - 1)
      /\ Capacity \in Nat /\ Capacity > 0
      /\ Pending \subseteq Nat /\ \A m \in Pending : m > 0 /\ m > Len(ran)
  BY Places
<1> USE <1>0
<1> DEFINE jobs == JobsOf(Head(wire))
<1>1. /\ todo = <<>> /\ wire # <<>> /\ Head(wire).type # "info"
      /\ todo' = jobs
      /\ UNCHANGED <<created, ran, mpc, action, array, head>>
  BY DEF Dispatch, slots, update, history
<1>2. jobs \in Seq(Jobs) /\ Len(jobs) \in Nat
  <2>1. Head(wire) \in Packets
    BY <1>1, HeadTail DEF Types
  <2>2. jobs \in Seq(Jobs)
    BY <1>1, <2>1, JobsFacts
  <2> QED
    BY <2>2
<1>3. TakenJobs' = TakenJobs /\ \A j : Slot(j)' = Slot(j)
  BY <1>1 DEF TakenJobs, InHand, Slot
<1> HIDE DEF jobs
<1>4. Len(todo) = 0
  BY <1>1
<1>5. TakenJobs <= created
  OBVIOUS
<1>6. Pending' = Pending \cup (created + 1)..(created + Len(jobs))
      /\ \A m \in Pending : m <= created
  <2>1. /\ Pending = (Len(ran) + 1)..created
        /\ Pending' = (Len(ran) + 1)..(created + Len(jobs))
    BY <1>1, <1>4 DEF Pending
  <2>2. Len(ran) <= created
    BY <1>5
  <2>4. created \in Nat /\ Len(ran) \in Nat
    BY DEF Types
  <2>5. (Len(ran) + 1)..(created + Len(jobs))
          = ((Len(ran) + 1)..created) \cup ((created + 1)..(created + Len(jobs)))
    BY <1>2, <2>2, <2>4, Adjacent
  <2>6. \A m \in (Len(ran) + 1)..created : m <= created
    BY <2>4
  <2> QED
    BY <2>1, <2>5, <2>6
<1>7. \A m \in Pending : PendingJob(m)' = PendingJob(m)
  BY <1>1, <1>3, <1>6 DEF PendingJob
<1>8. \A k \in 1..Len(jobs) : \A m : m = created + k => PendingJob(m)' = jobs[k]
  <2> SUFFICES ASSUME NEW k \in 1..Len(jobs), NEW m, m = created + k
               PROVE  PendingJob(m)' = jobs[k]
    OBVIOUS
  <2>1. created' = created /\ todo' = jobs /\ TakenJobs' = TakenJobs
    BY <1>1, <1>3
  <2>2. ~(m <= TakenJobs) /\ ~(m <= created) /\ m - created = k
    BY <1>2, <1>5
  <2> QED
    BY <2>1, <2>2 DEF PendingJob
<1> QED
  BY <1>2, <1>6, <1>7, <1>8 DEF jobs

------------------------------------------------------------------------------
(* The Room *)

RoomInv == ExpectedIds /\ Before /\ After /\ NoGhost /\ Shown /\ Known

IInv == TypeOK /\ Types /\ Bounds /\ OnePlace /\ InQueue /\ RoomInv

\* A packet that is sent is the last of all.
LEMMA WireSent ==
  ASSUME wire \in Seq(Packets), NEW p, wire' = Append(wire, p),
         Pending' = Pending, \A m \in Pending : PendingJob(m)' = PendingJob(m)
  PROVE  /\ \A w \in 0..Len(wire) : ExitOnWire(w)' <=> ExitOnWire(w) \/ p.type = "exit"
         /\ \A w : w = Len(wire) + 1 => ~ExitOnWire(w)'
         /\ \A m : ExitAfter(m)' <=> ExitAfter(m) \/ p.type = "exit"
<1>1. /\ Len(wire) \in Nat /\ Len(wire') = Len(wire) + 1
      /\ \A k \in 1..Len(wire) : wire'[k] = wire[k]
      /\ wire'[Len(wire) + 1] = p
  OBVIOUS
<1>2. \A w \in 0..Len(wire) : ExitOnWire(w)' <=> ExitOnWire(w) \/ p.type = "exit"
  <2> SUFFICES ASSUME NEW w \in 0..Len(wire)
               PROVE  ExitOnWire(w)' <=> ExitOnWire(w) \/ p.type = "exit"
    OBVIOUS
  <2>1. \A v : v \in (w + 1)..Len(wire') <=> v \in (w + 1)..Len(wire) \/ v = Len(wire) + 1
    BY <1>1
  <2>2. \A v \in (w + 1)..Len(wire) : wire'[v] = wire[v]
    BY <1>1
  <2> QED
    BY <1>1, <2>1, <2>2 DEF ExitOnWire
<1>3. \A w : w = Len(wire) + 1 => ~ExitOnWire(w)'
  BY <1>1 DEF ExitOnWire
<1>4. \A m : ExitAfter(m)' <=> ExitAfter(m) \/ p.type = "exit"
  <2>1. ExitOnWire(0)' <=> ExitOnWire(0) \/ p.type = "exit"
    BY <1>1, <1>2
  <2> QED
    BY <2>1 DEF ExitAfter
<1> QED
  BY <1>2, <1>3, <1>4

\* Steps of the queue move jobs and leave the Room alone.
LEMMA MovedStep ==
  ASSUME IInv, \/ EnqueueStore \/ EnqueueRead \/ EnqueueWrite
               \/ RoomStart \/ DequeueTake \/ DequeueRead \/ DequeueWrite \/ UNCHANGED vars
  PROVE  RoomInv'
<1> USE DEF IInv, RoomInv
<1>1. /\ UNCHANGED <<up, wire, present, entered, PlayerID, enemyID, isEnemyEnter, isPlayerReady,
                     readyText>>
      /\ ~entered => UNCHANGED <<created, todo>>
  BY DEF EnqueueStore, EnqueueRead, EnqueueWrite, RoomStart, DequeueTake, DequeueRead,
         DequeueWrite, vars, server, handler, room, history, Before
<1>2. Sound' => /\ Sound
                /\ Pending' = Pending
                /\ \A m \in Pending : PendingJob(m)' = PendingJob(m)
  <2>1. Next \/ UNCHANGED vars
    BY DEF Next, Network, Main
  <2> QED
    BY <2>1, SoundStep, PendingKept DEF Sound
<1>3. Sound' => \A m : ExitAfter(m)' = ExitAfter(m)
  BY <1>1, <1>2 DEF ExitAfter, ExitOnWire
<1>4. ExpectedIds'
  BY <1>1, <1>2 DEF ExpectedIds
<1>5. Before' /\ After'
  BY <1>1 DEF Before, After
<1>6. NoGhost'
  BY <1>1, <1>2, <1>3 DEF NoGhost, Brings, Brought, ExitOnWire
<1>7. Shown'
  BY <1>1, <1>2, <1>3 DEF Shown, Brings, Brought, ExitOnWire
<1>8. Known'
  BY <1>1, <1>2 DEF Known, Brings, Brought
<1> QED
  BY <1>4, <1>5, <1>6, <1>7, <1>8

\* Before the player has entered there is nothing to show, and no job.
LEMMA Unentered ==
  ASSUME IInv, ~entered
  PROVE  /\ Pending = {} /\ ~isEnemyEnter /\ ~isPlayerReady /\ ~readyText
         /\ \A w \in 1..Len(wire) : wire[w].type = "info"
<1>1. created = 0 /\ todo = <<>> /\ ~isEnemyEnter /\ ~isPlayerReady /\ ~readyText
  BY DEF IInv, RoomInv, Before
<1>2. Pending = {}
  <2>1. ran \in Seq(Nat) /\ Len(todo) = 0
    BY <1>1 DEF IInv, Types
  <2> QED
    BY <1>1, <2>1 DEF Pending
<1>3. \A w \in 1..Len(wire) : wire[w].type = "info"
  <2>1. wire = <<>> \/ wire = <<[type |-> "info", id |-> Me, list |-> <<>>]>>
    BY DEF IInv, RoomInv, Before
  <2> QED
    BY <2>1
<1> QED
  BY <1>1, <1>2, <1>3

\* Afterwards, a packet about what the opponent or the player has done.
LEMMA SentStep ==
  ASSUME IInv, entered,
         NEW type \in {"enter", "exit", "ready", "gamestart"}, NEW id \in Ids,
         Send(type, id, <<>>),
         UNCHANGED <<entered, PlayerID, enemyID, isEnemyEnter, isPlayerReady, readyText>>,
         \A k \in 1..Len(up') : \E i \in 1..Len(up) : up'[k] = up[i],
         Sound' => /\ Sound
                   /\ Pending' = Pending
                   /\ \A m \in Pending : PendingJob(m)' = PendingJob(m),
         Sound => id \in {Me, Other} /\ (type = "ready" /\ id # Me => present),
         type \in {"enter", "exit"} => id = Other,
         present' <=> type = "enter" \/ (present /\ type # "exit")
  PROVE  RoomInv'
<1> DEFINE p == [type |-> type, id |-> id, list |-> <<>>]
<1>1. /\ wire \in Seq(Packets) /\ wire' = Append(wire, p)
      /\ Len(wire) \in Nat /\ Len(wire') = Len(wire) + 1
      /\ \A w \in 1..Len(wire) : wire'[w] = wire[w]
      /\ wire'[Len(wire) + 1] = p
      /\ \A w \in 1..Len(wire') : w \in 1..Len(wire) \/ w = Len(wire) + 1
  BY DEF Send, IInv, Types
<1>2. p.type = type /\ p.id = id /\ p.list = <<>>
  OBVIOUS
<1> HIDE DEF p
<1>3. Sound' => /\ \A w \in 0..Len(wire) : ExitOnWire(w)' <=> ExitOnWire(w) \/ p.type = "exit"
                /\ \A w : w = Len(wire) + 1 => ~ExitOnWire(w)'
                /\ \A m : ExitAfter(m)' <=> ExitAfter(m) \/ p.type = "exit"
  BY <1>1, WireSent
<1> USE DEF IInv, RoomInv
<1>4. ExpectedIds'
  <2>1. \A w \in 1..Len(wire') :
          /\ wire'[w].type = "exit" => wire'[w].id = Other
          /\ wire'[w].type # "enter" => wire'[w].list = <<>>
    BY <1>1, <1>2 DEF ExpectedIds
  <2>2. Sound' => /\ \A k \in 1..Len(up') : up'[k].id = Me
                  /\ \A w \in 1..Len(wire') : wire'[w].id \in {Me, Other}
    BY <1>1, <1>2 DEF ExpectedIds
  <2> QED
    BY <2>1, <2>2 DEF ExpectedIds
<1>5. Before' /\ After'
  <2>1. \A w \in 1..Len(wire') : wire'[w].type # "info"
    BY <1>1, <1>2 DEF After
  <2> QED
    BY <2>1 DEF Before, After
<1>6. NoGhost'
  <2> SUFFICES ASSUME Sound'
               PROVE  NoGhost'
    BY DEF NoGhost
  <2>1. isEnemyEnter' \/ isPlayerReady' \/ readyText' => present' \/ ExitAfter(0)'
    BY <1>2, <1>3 DEF NoGhost
  <2>2. \A m \in Pending' :
          Brought(PendingJob(m)') \/ PendingJob(m)'.type = "ready" => present' \/ ExitAfter(m)'
    BY <1>2, <1>3 DEF NoGhost
  <2>3. ASSUME NEW w \in 1..Len(wire),
               Brings(wire[w]) \/ (wire[w].type = "ready" /\ wire[w].id # Me)
        PROVE  present' \/ ExitOnWire(w)'
    BY <1>1, <1>2, <1>3, <2>3 DEF NoGhost
  <2>4. Brings(p) \/ (p.type = "ready" /\ p.id # Me) => present'
    BY <1>2 DEF Brings
  <2> QED
    BY <1>1, <2>1, <2>2, <2>3, <2>4 DEF NoGhost, Brings, Brought
<1>7. Shown'
  <2> SUFFICES ASSUME Sound', present'
               PROVE  Shown'
    BY DEF Shown
  <2>1. CASE type = "enter"
    <3>1. PICK w \in 1..Len(wire') : w = Len(wire) + 1
      BY <1>1
    <3>2. Brings(wire'[w]) /\ ~ExitOnWire(w)'
      BY <1>1, <1>2, <1>3, <2>1, <3>1 DEF Brings
    <3> QED
      BY <3>2 DEF Shown, Brings
  <2>2. CASE type # "enter"
    <3>1. Sound /\ entered /\ present /\ type # "exit"
      BY <2>2
    <3>2. CASE isEnemyEnter /\ ~ExitAfter(0)
      BY <1>2, <1>3, <3>1, <3>2 DEF Shown
    <3>3. CASE \E m \in Pending : Brought(PendingJob(m)) /\ ~ExitAfter(m)
      BY <1>2, <1>3, <3>1, <3>3 DEF Shown, Brought
    <3>4. CASE \E w \in 1..Len(wire) : Brings(wire[w]) /\ ~ExitOnWire(w)
      <4>1. PICK w \in 1..Len(wire) : Brings(wire[w]) /\ ~ExitOnWire(w)
        BY <3>4
      <4>2. w \in 1..Len(wire') /\ w \in 0..Len(wire) /\ Brings(wire'[w])
        BY <1>1, <4>1
      <4>3. ~ExitOnWire(w)'
        BY <1>2, <1>3, <3>1, <4>1, <4>2
      <4> QED
        BY <4>2, <4>3 DEF Shown, Brings
    <3> QED
      BY <3>1, <3>2, <3>3, <3>4 DEF Shown
  <2> QED
    BY <2>1, <2>2
<1>8. Known'
  <2> SUFFICES ASSUME Sound'
               PROVE  Known'
    BY DEF Known
  <2>1. ASSUME NEW w \in 1..Len(wire'), wire'[w].type = "ready", wire'[w].id # Me
        PROVE  \/ enemyID = Other
               \/ \E k \in Pending : Brought(PendingJob(k))
               \/ \E v \in 1..(w - 1) : Brings(wire[v])
    <3>1. CASE w \in 1..Len(wire)
      BY <1>1, <2>1, <3>1 DEF Known
    <3>2. CASE w = Len(wire) + 1
      <4>1. present /\ w - 1 = Len(wire)
        BY <1>1, <1>2, <2>1, <3>2
      <4> QED
        BY <4>1 DEF Shown, Known
    <3> QED
      BY <1>1, <2>1, <3>1, <3>2
  <2>2. \A w \in 1..Len(wire') : \A v \in 1..(w - 1) : wire'[v] = wire[v]
    BY <1>1
  <2>3. isEnemyEnter' \/ isPlayerReady' \/ readyText' => enemyID' = Other
    BY DEF Known
  <2>4. \A m \in Pending' : PendingJob(m)'.type = "ready" =>
          \/ enemyID' = Other
          \/ \E k \in Pending' : k < m /\ Brought(PendingJob(k)')
    BY DEF Known
  <2>5. \A w \in 1..Len(wire') : wire'[w].type = "ready" /\ wire'[w].id # Me =>
          \/ enemyID' = Other
          \/ \E k \in Pending' : Brought(PendingJob(k)')
          \/ \E v \in 1..(w - 1) : Brings(wire'[v])
    BY <2>1, <2>2
  <2> QED
    BY <2>3, <2>4, <2>5 DEF Known, Brings, Brought
<1> QED
  BY <1>4, <1>5, <1>6, <1>7, <1>8

\* What the opponent does.
LEMMA OpponentStep ==
  ASSUME IInv, Opponent
  PROVE  RoomInv'
<1>1. /\ UNCHANGED <<entered, up, PlayerID, created, todo, enemyID, isEnemyEnter,
                     isPlayerReady, readyText>>
      /\ OtherEnters \/ OtherExits \/ OtherReady \/ ServerGameStart
  BY DEF Opponent, OtherEnters, OtherExits, OtherReady, ServerGameStart, Told, handler, room,
         history
<1>2. Sound' => /\ Sound
                /\ Pending' = Pending
                /\ \A m \in Pending : PendingJob(m)' = PendingJob(m)
  <2>1. Next
    BY DEF Next
  <2> QED
    BY <2>1, SoundStep, PendingKept DEF Sound, IInv
<1>3. CASE ~entered
  <2>1. wire' = wire
    BY <1>1, <1>3 DEF OtherEnters, OtherExits, OtherReady, ServerGameStart
  <2>2. /\ Pending = {} /\ ~isEnemyEnter /\ ~isPlayerReady /\ ~readyText
        /\ \A w \in 1..Len(wire) : wire[w].type = "info"
    BY <1>3, Unentered
  <2>3. ExpectedIds' /\ Before' /\ After'
    BY <1>1, <1>2, <1>3, <2>1 DEF IInv, RoomInv, ExpectedIds, Before, After
  <2>4. NoGhost' /\ Shown' /\ Known'
    BY <1>1, <1>2, <1>3, <2>1, <2>2 DEF NoGhost, Shown, Known, Brings
  <2> QED
    BY <2>3, <2>4 DEF RoomInv
<1>4. CASE entered
  <2>1. \A k \in 1..Len(up') : \E i \in 1..Len(up) : up'[k] = up[i]
    BY <1>1
  <2>2. Me \in Ids /\ Other \in Ids /\ Me # Other
    BY Constants
  <2>3. CASE OtherEnters
    <3>1. Send("enter", Other, <<>>) /\ present' = TRUE
      BY <1>4, <2>3 DEF OtherEnters
    <3> QED
      BY <1>1, <1>2, <1>4, <2>1, <2>2, <3>1, SentStep
  <2>4. CASE OtherExits
    <3>1. Send("exit", Other, <<>>) /\ present' = FALSE
      BY <1>4, <2>4 DEF OtherExits
    <3> QED
      BY <1>1, <1>2, <1>4, <2>1, <2>2, <3>1, SentStep
  <2>5. CASE OtherReady
    <3>1. Send("ready", Other, <<>>) /\ present' = present /\ present
      BY <1>4, <2>5 DEF OtherReady
    <3> QED
      BY <1>1, <1>2, <1>4, <2>1, <2>2, <3>1, SentStep
  <2>6. CASE ServerGameStart
    <3>1. Send("gamestart", Me, <<>>) /\ present' = present
      BY <1>4, <2>6 DEF ServerGameStart
    <3> QED
      BY <1>1, <1>2, <1>4, <2>1, <2>2, <3>1, SentStep
  <2> QED
    BY <1>1, <2>3, <2>4, <2>5, <2>6
<1> QED
  BY <1>3, <1>4

\* What the server does with the player's packets.
LEMMA ServerStep ==
  ASSUME IInv, Server
  PROVE  RoomInv'
<1> USE DEF IInv, RoomInv
<1>1. /\ up # <<>> /\ up \in Seq(Requests) /\ up' = Tail(up)
      /\ Len(up) \in Nat /\ Len(up) > 0 /\ Head(up) = up[1] /\ Head(up) \in Requests
      /\ up' \in Seq(Requests) /\ Len(up') = Len(up) - 1
      /\ \A k \in 1..(Len(up) - 1) : up'[k] = up[k + 1]
      /\ UNCHANGED <<present, PlayerID, created, todo, enemyID, isEnemyEnter, isPlayerReady,
                     readyText>>
  <2>1. /\ up # <<>> /\ up' = Tail(up) /\ up \in Seq(Requests)
        /\ UNCHANGED <<present, PlayerID, created, todo, enemyID, isEnemyEnter, isPlayerReady,
                       readyText>>
    BY DEF Server, EnterPlayer, ServerPlayerReady, server, handler, room, history, Types
  <2> QED
    BY <2>1, HeadTail
<1>2. Sound' => /\ Sound
                /\ Pending' = Pending
                /\ \A m \in Pending : PendingJob(m)' = PendingJob(m)
  <2>1. Next
    BY DEF Next
  <2> QED
    BY <2>1, SoundStep, PendingKept DEF Sound
<1>3. CASE EnterPlayer
  <2> DEFINE p == [type |-> "enter", id |-> Me, list |-> IF present THEN <<Other>> ELSE <<>>]
  <2>1. Head(up).type = "enter" /\ entered' = TRUE
        /\ Send("enter", Head(up).id, IF present THEN <<Other>> ELSE <<>>)
    BY <1>3 DEF EnterPlayer
  <2>2. ~entered
    BY <1>1, <2>1 DEF After
  <2>3. PlayerID = Me /\ up = <<[type |-> "enter", id |-> Me]>> /\ wire = <<>>
        /\ created = 0 /\ todo = <<>> /\ ~isEnemyEnter /\ ~isPlayerReady /\ ~readyText
    BY <1>1, <2>2 DEF Before
  <2>4. wire' = <<p>> /\ Len(wire') = 1 /\ wire'[1] = p /\ Len(up') = 0
    <3>1. Head(up).id = Me
      BY <1>1, <2>3
    <3>2. wire' = Append(<<>>, p)
      BY <2>1, <2>3, <3>1 DEF Send
    <3> QED
      BY <1>1, <2>3, <3>2
  <2>5. Pending = {}
    BY <2>2, Unentered
  <2>6. p.type = "enter" /\ p.id = Me /\ (p.list # <<>> <=> present) /\ Me # Other
    BY Constants
  <2>7. 1 \in 1..1 /\ \A w \in 1..1 : w = 1
    OBVIOUS
  <2> HIDE DEF p
  <2>8. ExpectedIds'
    BY <1>2, <2>4, <2>5, <2>6, <2>7 DEF ExpectedIds
  <2>9. Before' /\ After'
    BY <1>1, <2>1, <2>3, <2>4, <2>6, <2>7 DEF Before, After
  <2>10. NoGhost'
    BY <1>1, <1>2, <2>3, <2>4, <2>5, <2>6, <2>7 DEF NoGhost, Brings
  <2>11. Shown'
    <3>1. PICK w \in 1..Len(wire') : w = 1
      BY <2>4
    <3>2. ~ExitOnWire(w)'
      BY <2>4, <3>1 DEF ExitOnWire
    <3>3. present' => Brings(wire'[w])
      BY <1>1, <2>4, <2>6, <3>1 DEF Brings
    <3> QED
      BY <3>2, <3>3 DEF Shown, Brings
  <2>12. Known'
    BY <1>1, <1>2, <2>3, <2>4, <2>5, <2>6, <2>7 DEF Known
  <2> QED
    BY <2>8, <2>9, <2>10, <2>11, <2>12
<1>4. CASE ServerPlayerReady
  <2>1. Head(up).type = "ready" /\ Send("ready", Head(up).id, <<>>) /\ entered' = entered
    BY <1>4 DEF ServerPlayerReady, server
  <2>2. entered
    <3>1. CASE ~entered
      <4>1. up = <<[type |-> "enter", id |-> Me]>>
        BY <1>1, <3>1 DEF Before
      <4> QED
        BY <1>1, <2>1, <4>1
    <3> QED
      BY <3>1
  <2>3. Head(up).id \in Ids
    BY <1>1 DEF Requests
  <2>4. Sound => Head(up).id = Me
    BY <1>1 DEF ExpectedIds
  <2>5. \A k \in 1..Len(up') : \E i \in 1..Len(up) : up'[k] = up[i]
    <3>1. \A k \in 1..Len(up') : k + 1 \in 1..Len(up) /\ up'[k] = up[k + 1]
      BY <1>1
    <3> QED
      BY <3>1
  <2> QED
    BY <1>1, <1>2, <2>1, <2>2, <2>3, <2>4, <2>5, SentStep
<1> QED
  BY <1>3, <1>4 DEF Server

\* The player gets its id and asks to enter.
LEMMA PlayerInfoStep ==
  ASSUME IInv, DispatchPlayerInfo
  PROVE  RoomInv'
<1> USE DEF IInv, RoomInv
<1>1. /\ wire # <<>> /\ Head(wire).type = "info" /\ wire' = Tail(wire)
      /\ PlayerID' = Head(wire).id /\ up' = Append(up, [type |-> "enter", id |-> Head(wire).id])
      /\ UNCHANGED <<present, entered, created, todo, enemyID, isEnemyEnter, isPlayerReady,
                     readyText>>
  BY DEF DispatchPlayerInfo, server, room, history
<1>2. Sound' => /\ Sound
                /\ Pending' = Pending
                /\ \A m \in Pending : PendingJob(m)' = PendingJob(m)
  <2>1. Next
    BY DEF Next, Network
  <2> QED
    BY <2>1, SoundStep, PendingKept DEF Sound
<1>3. ~entered
  <2>1. Head(wire) = wire[1] /\ 1 \in 1..Len(wire)
    BY <1>1, HeadTail DEF Types
  <2> QED
    BY <1>1, <2>1 DEF After
<1>4. up = <<>> /\ wire = <<[type |-> "info", id |-> Me, list |-> <<>>]>>
      /\ ~isEnemyEnter /\ ~isPlayerReady /\ ~readyText /\ created = 0 /\ todo = <<>>
  BY <1>1, <1>3 DEF Before
<1>5. PlayerID' = Me /\ up' = <<[type |-> "enter", id |-> Me]>> /\ wire' = <<>>
  <2>1. Head(wire).id = Me /\ Tail(wire) = <<>>
    BY <1>4
  <2> QED
    BY <1>1, <1>4, <2>1
<1>6. Len(wire') = 0 /\ Len(up') = 1 /\ up'[1].id = Me /\ \A k \in 1..1 : k = 1
  BY <1>5
<1>7. Pending = {}
  BY <1>3, Unentered
<1>8. ExpectedIds'
  BY <1>2, <1>6, <1>7 DEF ExpectedIds
<1>9. Before' /\ After'
  BY <1>1, <1>3, <1>4, <1>5 DEF Before, After
<1>10. NoGhost' /\ Shown' /\ Known'
  BY <1>1, <1>2, <1>3, <1>4, <1>6, <1>7 DEF NoGhost, Shown, Known
<1> QED
  BY <1>8, <1>9, <1>10

\* The player presses the button.
LEMMA PlayerReadyStep ==
  ASSUME IInv, PlayerReady
  PROVE  RoomInv'
<1> USE DEF IInv, RoomInv
<1>1. /\ mpc = "test" /\ isEnemyEnter /\ isPlayerReady' = TRUE
      /\ up' = Append(up, [type |-> "ready", id |-> playerID])
      /\ UNCHANGED <<present, entered, wire, PlayerID, created, todo, enemyID, isEnemyEnter,
                     readyText>>
  BY DEF PlayerReady, server, handler
<1>2. Sound' => /\ Sound
                /\ Pending' = Pending
                /\ \A m \in Pending : PendingJob(m)' = PendingJob(m)
  <2>1. Next
    BY DEF Next
  <2> QED
    BY <2>1, SoundStep, PendingKept DEF Sound
<1>3. Sound' => \A m : ExitAfter(m)' = ExitAfter(m)
  BY <1>1, <1>2 DEF ExitAfter, ExitOnWire
<1>4. entered
  BY <1>1 DEF Before
<1>5. \A k \in 1..Len(up') :
        \/ k \in 1..Len(up) /\ up'[k] = up[k]
        \/ up'[k] = [type |-> "ready", id |-> playerID]
  BY <1>1 DEF Types
<1>6. Sound => playerID = Me
  BY <1>1 DEF Sound
<1>7. ExpectedIds'
  BY <1>1, <1>2, <1>5, <1>6 DEF ExpectedIds
<1>8. Before' /\ After'
  BY <1>1, <1>4, <1>5 DEF Before, After
<1>9. NoGhost'
  BY <1>1, <1>2, <1>3 DEF NoGhost, Brings, Brought, ExitOnWire
<1>10. Shown'
  BY <1>1, <1>2, <1>3 DEF Shown, Brings, Brought, ExitOnWire
<1>11. Known'
  BY <1>1, <1>2 DEF Known, Brings, Brought
<1> QED
  BY <1>7, <1>8, <1>9, <1>10, <1>11

\* The packet that a handler takes off the wire was the first.
LEMMA WireTaken ==
  ASSUME wire \in Seq(Packets), wire # <<>>, wire' = Tail(wire)
  PROVE  /\ Head(wire) = wire[1] /\ Head(wire) \in Packets
         /\ Len(wire) \in Nat /\ Len(wire) > 0 /\ Len(wire') = Len(wire) - 1
         /\ \A w \in 1..Len(wire') : w + 1 \in 1..Len(wire) /\ wire'[w] = wire[w + 1]
         /\ \A w \in 2..Len(wire) : w - 1 \in 1..Len(wire') /\ wire'[w - 1] = wire[w]
         /\ \A w \in Nat : ExitOnWire(w)' <=> ExitOnWire(w + 1)
         /\ ExitOnWire(0) <=> Head(wire).type = "exit" \/ ExitOnWire(1)
<1>1. /\ Head(wire) = wire[1] /\ Head(wire) \in Packets
      /\ Len(wire) \in Nat /\ Len(wire) > 0 /\ Len(wire') = Len(wire) - 1
      /\ \A k \in 1..(Len(wire) - 1) : wire'[k] = wire[k + 1]
  BY HeadTail
<1>2. /\ \A w \in 1..Len(wire') : w + 1 \in 1..Len(wire) /\ wire'[w] = wire[w + 1]
      /\ \A w \in 2..Len(wire) : w - 1 \in 1..Len(wire') /\ wire'[w - 1] = wire[w]
  <2>1. \A w \in 2..Len(wire) : w - 1 \in 1..(Len(wire) - 1) /\ (w - 1) + 1 = w
    BY <1>1
  <2> QED
    BY <1>1, <2>1
<1>3. \A w \in Nat : ExitOnWire(w)' <=> ExitOnWire(w + 1)
  <2> SUFFICES ASSUME NEW w \in Nat
               PROVE  ExitOnWire(w)' <=> ExitOnWire(w + 1)
    OBVIOUS
  <2>1. ASSUME NEW v \in (w + 1)..Len(wire'), wire'[v].type = "exit"
        PROVE  ExitOnWire(w + 1)
    <3>1. v + 1 \in (w + 2)..Len(wire) /\ wire[v + 1].type = "exit"
      BY <1>1, <1>2, <2>1
    <3> QED
      BY <3>1 DEF ExitOnWire
  <2>2. ASSUME NEW v \in (w + 2)..Len(wire), wire[v].type = "exit"
        PROVE  ExitOnWire(w)'
    <3>1. PICK u \in (w + 1)..Len(wire') : u = v - 1
      BY <1>1
    <3>2. wire'[u].type = "exit"
      BY <1>1, <1>2, <2>2, <3>1
    <3> QED
      BY <3>2 DEF ExitOnWire
  <2> QED
    BY <2>1, <2>2 DEF ExitOnWire
<1>4. ExitOnWire(0) <=> Head(wire).type = "exit" \/ ExitOnWire(1)
  <2>1. \A v : v \in 1..Len(wire) <=> v = 1 \/ v \in 2..Len(wire)
    BY <1>1
  <2> QED
    BY <1>1, <2>1 DEF ExitOnWire
<1> QED
  BY <1>1, <1>2, <1>3, <1>4

\* A handler makes jobs of its packet, and they keep the packet's place in the order.
LEMMA DispatchStep ==
  ASSUME IInv, Dispatch
  PROVE  RoomInv'
<1> USE DEF IInv, RoomInv
<1> DEFINE h == Head(wire)
           jobs == JobsOf(h)
<1>1. /\ wire # <<>> /\ wire \in Seq(Packets) /\ wire' = Tail(wire)
      /\ h.type # "info" /\ todo = <<>>
      /\ UNCHANGED <<up, present, entered, PlayerID, created, enemyID, isEnemyEnter,
                     isPlayerReady, readyText>>
  BY DEF Dispatch, server, room, history, Types
<1>2. /\ h = wire[1] /\ h \in Packets
      /\ Len(wire) \in Nat /\ Len(wire) > 0 /\ Len(wire') = Len(wire) - 1
      /\ \A w \in 1..Len(wire') : w + 1 \in 1..Len(wire) /\ wire'[w] = wire[w + 1]
      /\ \A w \in 2..Len(wire) : w - 1 \in 1..Len(wire') /\ wire'[w - 1] = wire[w]
      /\ \A w \in Nat : ExitOnWire(w)' <=> ExitOnWire(w + 1)
      /\ ExitOnWire(0) <=> h.type = "exit" \/ ExitOnWire(1)
  BY <1>1, WireTaken
<1>3. entered /\ PlayerID = Me
  <2>1. entered
    <3>1. CASE ~entered
      <4>1. \A w \in 1..Len(wire) : wire[w].type = "info"
        BY <3>1, Unentered
      <4> QED
        BY <1>1, <1>2, <4>1
    <3> QED
      BY <3>1
  <2> QED
    BY <2>1 DEF After
<1>4. h.type \in {"enter", "exit", "ready", "gamestart"}
  BY <1>1, <1>2 DEF Packets
<1>5. Sound' => /\ Sound
                /\ jobs \in Seq(Jobs)
                /\ Pending' = Pending \cup (created + 1)..(created + Len(jobs))
                /\ \A m \in Pending : PendingJob(m)' = PendingJob(m) /\ m <= created
                /\ \A k \in 1..Len(jobs) : \A m : m = created + k => PendingJob(m)' = jobs[k]
  <2>1. Sound' => Sound
    <3>1. Next
      BY DEF Next, Network
    <3> QED
      BY <3>1, SoundStep
  <2>2. Sound' => ~deaf' /\ ~overlapped
    BY <2>1 DEF Sound
  <2> QED
    BY <2>1, <2>2, PendingDispatch
\* The new jobs: their number, and what each of them is.
<1>6. /\ jobs \in Seq(Jobs) /\ Len(jobs) \in Nat
      /\ h.type = "enter" =>
           /\ Len(jobs) = IF h.list = <<>> THEN 1 ELSE 2
           /\ jobs[1] = [type |-> "enter", id |-> h.id]
           /\ h.list # <<>> => jobs[2] = [type |-> "enter", id |-> Other]
      /\ h.type = "ready" /\ h.id = Me => Len(jobs) = 0
      /\ h.type \in {"exit", "gamestart"} \/ (h.type = "ready" /\ h.id # Me) =>
           Len(jobs) = 1 /\ jobs[1] = [type |-> h.type, id |-> h.id]
  <2>1. jobs \in Seq(Jobs)
    BY <1>1, <1>2, JobsFacts
  <2>2. Len(jobs) \in Nat
    BY <2>1
  <2>3. h \in Packets /\ h.type # "info" /\ PlayerID = Me
    BY <1>1, <1>2, <1>3
  <2> HIDE DEF h
  <2> QED
    BY <2>1, <2>2, <2>3, JobsFacts
<1> HIDE DEF h, jobs
<1>7. \A k \in 1..Len(jobs) :
        /\ jobs[k].type = h.type
        /\ jobs[k].type = "exit" => k = Len(jobs) /\ k = 1
        /\ jobs[k].type = "ready" => h.id # Me
        /\ Brought(jobs[k]) => Brings(h)
        /\ jobs[k].id = h.id \/ jobs[k].id = Other
        /\ jobs[k].type # "enter" => jobs[k].id = h.id
  <2> SUFFICES ASSUME NEW k \in 1..Len(jobs)
               PROVE  /\ jobs[k].type = h.type
                      /\ jobs[k].type = "exit" => k = Len(jobs) /\ k = 1
                      /\ jobs[k].type = "ready" => h.id # Me
                      /\ Brought(jobs[k]) => Brings(h)
                      /\ jobs[k].id = h.id \/ jobs[k].id = Other
                      /\ jobs[k].type # "enter" => jobs[k].id = h.id
    OBVIOUS
  <2>1. CASE h.type = "enter"
    <3>1. /\ Len(jobs) = IF h.list = <<>> THEN 1 ELSE 2
          /\ jobs[1] = [type |-> "enter", id |-> h.id]
          /\ h.list # <<>> => jobs[2] = [type |-> "enter", id |-> Other]
      BY <1>6, <2>1
    <3>2. CASE k = 1
      BY <2>1, <3>1, <3>2 DEF Brought, Brings
    <3>3. CASE k # 1
      <4>1. k = 2 /\ h.list # <<>>
        BY <3>1, <3>3
      <4> QED
        BY <2>1, <3>1, <4>1 DEF Brought, Brings
    <3> QED
      BY <3>2, <3>3
  <2>2. CASE h.type \in {"exit", "gamestart"} \/ (h.type = "ready" /\ h.id # Me)
    <3>1. Len(jobs) = 1 /\ jobs[1] = [type |-> h.type, id |-> h.id]
      BY <1>6, <2>2
    <3>2. k = 1
      BY <3>1
    <3> QED
      BY <2>2, <3>1, <3>2 DEF Brought
  <2>3. CASE h.type = "ready" /\ h.id = Me
    BY <1>6, <2>3
  <2> QED
    BY <1>4, <2>1, <2>2, <2>3
<1>8. /\ Brings(h) => \E k \in 1..Len(jobs) : Brought(jobs[k])
      /\ h.type = "exit" => Len(jobs) = 1 /\ jobs[1].type = "exit"
  <2>1. CASE h.type = "enter" /\ h.id = Other
    <3>1. Len(jobs) \in {1, 2} /\ jobs[1] = [type |-> "enter", id |-> h.id]
      BY <1>6, <2>1
    <3>2. PICK k \in 1..Len(jobs) : k = 1
      BY <3>1
    <3>3. Brought(jobs[k])
      BY <2>1, <3>1, <3>2 DEF Brought
    <3> QED
      BY <2>1, <3>3
  <2>2. CASE h.type = "enter" /\ h.list # <<>>
    <3>1. Len(jobs) = 2 /\ jobs[2] = [type |-> "enter", id |-> Other]
      BY <1>6, <2>2
    <3>2. PICK k \in 1..Len(jobs) : k = 2
      BY <3>1
    <3>3. Brought(jobs[k])
      BY <3>1, <3>2 DEF Brought
    <3> QED
      BY <2>2, <3>3
  <2>3. h.type = "exit" => Len(jobs) = 1 /\ jobs[1].type = "exit"
    BY <1>6
  <2> QED
    BY <2>1, <2>2, <2>3 DEF Brings
\* What is to run afterwards, as one step's cases.
<1>9. Sound' => \A m \in Pending' :
                  \/ m \in Pending /\ m <= created /\ PendingJob(m)' = PendingJob(m)
                  \/ \E k \in 1..Len(jobs) : m = created + k /\ PendingJob(m)' = jobs[k]
  <2> SUFFICES ASSUME Sound', NEW m \in Pending', m \notin Pending
               PROVE  \E k \in 1..Len(jobs) : m = created + k /\ PendingJob(m)' = jobs[k]
    BY <1>5
  <2>0. created \in Nat
    BY DEF Types
  <2>1. m \in (created + 1)..(created + Len(jobs))
    BY <1>5
  <2>2. m - created \in 1..Len(jobs) /\ m = created + (m - created)
    BY <1>6, <2>0, <2>1
  <2>3. PICK k \in 1..Len(jobs) : m = created + k
    BY ONLY <2>2
  <2> QED
    BY <1>5, <2>3
<1>10. Sound' => \A k \in 1..Len(jobs) : \E m \in Pending' :
                   m \in Nat /\ m = created + k /\ m > created /\ PendingJob(m)' = jobs[k]
  <2> SUFFICES ASSUME Sound', NEW k \in 1..Len(jobs)
               PROVE  \E m \in Pending' :
                        m \in Nat /\ m = created + k /\ m > created /\ PendingJob(m)' = jobs[k]
    OBVIOUS
  <2>1. created \in Nat
    BY DEF Types
  <2>2. PICK m \in (created + 1)..(created + Len(jobs)) : m = created + k
    <3>1. created + k \in (created + 1)..(created + Len(jobs))
      BY <1>6, <2>1
    <3> QED
      BY <3>1
  <2>3. m \in Pending' /\ PendingJob(m)' = jobs[k] /\ m > created /\ m \in Nat
    BY <1>5, <2>1, <2>2
  <2> QED
    BY <2>2, <2>3
\* Whether an exit is still to come is the same as before.
<1>11. Sound' => \A m \in Pending \cup {0} : ExitAfter(m)' <=> ExitAfter(m)
  <2> SUFFICES ASSUME Sound', NEW m \in Pending \cup {0}
               PROVE  ExitAfter(m)' <=> ExitAfter(m)
    OBVIOUS
  <2>0. created \in Nat /\ m \in Int /\ m <= created /\ Pending \subseteq Nat
    <3>1. Pending \subseteq Nat /\ created \in Nat
      BY <1>5, Places DEF Sound
    <3> QED
      BY <1>5, <3>1
  <2>1. ASSUME NEW k \in Pending, k > m, PendingJob(k).type = "exit"
        PROVE  ExitAfter(m)'
    BY <1>5, <2>1 DEF ExitAfter
  <2>2. ASSUME ExitOnWire(0)
        PROVE  ExitAfter(m)'
    <3>1. CASE h.type = "exit"
      <4>0. Len(jobs) = 1 /\ jobs[1].type = "exit"
        BY <1>8, <3>1
      <4>1. 1 \in 1..Len(jobs) /\ jobs[1].type = "exit"
        BY <4>0
      <4>2. PICK k \in Pending' : k \in Nat /\ k > created /\ PendingJob(k)' = jobs[1]
        BY <1>10, <4>1
      <4>3. k > m
        BY <2>0, <4>2
      <4> QED
        BY <4>1, <4>2, <4>3 DEF ExitAfter
    <3>2. CASE ExitOnWire(1)
      <4>1. ExitOnWire(0)'
        BY <1>2, <3>2
      <4> QED
        BY <4>1 DEF ExitAfter
    <3> QED
      BY <1>2, <2>2, <3>1, <3>2
  <2>3. ASSUME NEW k \in Pending', k > m, PendingJob(k)'.type = "exit"
        PROVE  ExitAfter(m)
    <3>1. CASE k \in Pending /\ PendingJob(k)' = PendingJob(k)
      BY <2>3, <3>1 DEF ExitAfter
    <3>2. CASE \E i \in 1..Len(jobs) : PendingJob(k)' = jobs[i]
      <4>1. h.type = "exit"
        BY <1>7, <2>3, <3>2
      <4> QED
        BY <1>2, <4>1 DEF ExitAfter
    <3> QED
      BY <1>9, <3>1, <3>2
  <2>4. ASSUME ExitOnWire(0)'
        PROVE  ExitAfter(m)
    BY <1>2, <2>4 DEF ExitAfter
  <2> QED
    BY <2>1, <2>2, <2>3, <2>4 DEF ExitAfter
\* Behind a new job there is no exit but those that follow on the wire.
<1>12. Sound' => \A m \in Pending' : m > created => (ExitAfter(m)' <=> ExitOnWire(1))
  <2> SUFFICES ASSUME Sound', NEW m \in Pending', m > created
               PROVE  ExitAfter(m)' <=> ExitOnWire(1)
    OBVIOUS
  <2>0. created \in Nat /\ Pending \subseteq Nat
    BY <1>5, Places DEF Sound
  <2>1. ExitOnWire(0)' <=> ExitOnWire(1)
    BY <1>2
  <2>2. ASSUME NEW k \in Pending', k > m, PendingJob(k)'.type = "exit"
        PROVE  FALSE
    <3>0. ~(m \in Pending /\ m <= created)
      <4>1. m \in Pending => m \in Nat
        BY <2>0
      <4>2. m \in Nat => ~(m <= created)
        BY <2>0
      <4> QED
        BY <4>1, <4>2
    <3>1. PICK i \in 1..Len(jobs) : m = created + i
      BY <1>9, <3>0
    <3>2. CASE k \in Pending /\ k <= created
      BY <2>0, <2>2, <3>1, <3>2
    <3>3. CASE \E j \in 1..Len(jobs) : k = created + j /\ PendingJob(k)' = jobs[j]
      <4>1. PICK j \in 1..Len(jobs) : k = created + j /\ PendingJob(k)' = jobs[j]
        BY <3>3
      <4>2. j = 1
        BY <1>7, <2>2, <4>1
      <4> QED
        BY <1>6, <2>0, <2>2, <3>1, <4>1, <4>2
    <3> QED
      BY <1>9, <3>2, <3>3
  <2> QED
    BY <2>1, <2>2 DEF ExitAfter
<1>13. ExpectedIds'
  <2>1. \A w \in 1..Len(wire') :
          /\ wire'[w].type = "exit" => wire'[w].id = Other
          /\ wire'[w].type # "enter" => wire'[w].list = <<>>
    BY <1>2 DEF ExpectedIds
  <2>2. Sound' => /\ \A k \in 1..Len(up') : up'[k].id = Me
                  /\ \A w \in 1..Len(wire') : wire'[w].id \in {Me, Other}
    BY <1>1, <1>2, <1>5 DEF ExpectedIds
  <2>3. Sound' => \A m \in Pending' :
                    /\ PendingJob(m)'.id \in {Me, Other}
                    /\ PendingJob(m)'.type \in {"exit", "ready"} => PendingJob(m)'.id = Other
    <3> SUFFICES ASSUME Sound', NEW m \in Pending'
                 PROVE  /\ PendingJob(m)'.id \in {Me, Other}
                        /\ PendingJob(m)'.type \in {"exit", "ready"} => PendingJob(m)'.id = Other
      OBVIOUS
    <3>0. 1 \in 1..Len(wire)
      BY <1>2
    <3>1. h.id \in {Me, Other} /\ (h.type = "exit" => h.id = Other)
      BY <1>2, <1>5, <3>0 DEF ExpectedIds
    <3>2. CASE m \in Pending /\ PendingJob(m)' = PendingJob(m)
      BY <1>5, <3>2 DEF ExpectedIds
    <3>3. CASE \E k \in 1..Len(jobs) : PendingJob(m)' = jobs[k]
      BY <1>7, <3>1, <3>3
    <3> QED
      BY <1>9, <3>2, <3>3
  <2> QED
    BY <2>1, <2>2, <2>3 DEF ExpectedIds
<1>14. Before' /\ After'
  BY <1>1, <1>2, <1>3 DEF Before, After
<1>15. NoGhost'
  <2> SUFFICES ASSUME Sound'
               PROVE  NoGhost'
    BY DEF NoGhost
  <2>1. isEnemyEnter' \/ isPlayerReady' \/ readyText' => present' \/ ExitAfter(0)'
    BY <1>1, <1>5, <1>11 DEF NoGhost
  <2>2. ASSUME NEW m \in Pending', Brought(PendingJob(m)') \/ PendingJob(m)'.type = "ready"
        PROVE  present' \/ ExitAfter(m)'
    <3>1. CASE m \in Pending /\ PendingJob(m)' = PendingJob(m)
      BY <1>1, <1>5, <1>11, <2>2, <3>1 DEF NoGhost
    <3>2. CASE \E k \in 1..Len(jobs) : m = created + k /\ PendingJob(m)' = jobs[k]
      <4>1. Brings(h) \/ (h.type = "ready" /\ h.id # Me)
        BY <1>7, <2>2, <3>2
      <4>2. present \/ ExitOnWire(1)
        <5>1. 1 \in 1..Len(wire)
          BY <1>2
        <5> QED
          BY <1>2, <1>5, <4>1, <5>1 DEF NoGhost
      <4>3. m > created
        <5>1. created \in Nat
          BY DEF Types
        <5> QED
          BY <1>6, <3>2, <5>1
      <4> QED
        BY <1>1, <1>12, <4>2, <4>3
    <3> QED
      BY <1>9, <3>1, <3>2
  <2>3. ASSUME NEW w \in 1..Len(wire'),
               Brings(wire'[w]) \/ (wire'[w].type = "ready" /\ wire'[w].id # Me)
        PROVE  present' \/ ExitOnWire(w)'
    <3>1. w + 1 \in 1..Len(wire) /\ wire'[w] = wire[w + 1] /\ w \in Nat
      BY <1>2
    <3>2. present \/ ExitOnWire(w + 1)
      BY <1>5, <2>3, <3>1 DEF NoGhost
    <3> QED
      BY <1>1, <1>2, <3>1, <3>2
  <2> QED
    BY <2>1, <2>2, <2>3 DEF NoGhost, Brings, Brought
<1>16. Shown'
  <2> SUFFICES ASSUME Sound', present'
               PROVE  Shown'
    BY DEF Shown
  <2>1. CASE isEnemyEnter /\ ~ExitAfter(0)
    BY <1>1, <1>11, <2>1 DEF Shown
  <2>2. CASE \E m \in Pending : Brought(PendingJob(m)) /\ ~ExitAfter(m)
    <3>1. PICK m \in Pending : Brought(PendingJob(m)) /\ ~ExitAfter(m)
      BY <2>2
    <3>2. m \in Pending' /\ Brought(PendingJob(m)') /\ ~ExitAfter(m)'
      BY <1>5, <1>11, <3>1
    <3> QED
      BY <3>2 DEF Shown, Brought
  <2>3. CASE Brings(h) /\ ~ExitOnWire(1)
    <3>1. PICK k \in 1..Len(jobs) : Brought(jobs[k])
      BY <1>8, <2>3
    <3>2. PICK m \in Pending' : m > created /\ PendingJob(m)' = jobs[k]
      BY <1>10
    <3>3. ~ExitAfter(m)' /\ Brought(PendingJob(m)')
      BY <1>12, <2>3, <3>1, <3>2
    <3> QED
      BY <3>3 DEF Shown, Brought
  <2>4. ASSUME NEW w \in 2..Len(wire), Brings(wire[w]), ~ExitOnWire(w)
        PROVE  Shown'
    <3>1. PICK v \in 1..Len(wire') : v = w - 1
      BY <1>2
    <3>2. wire'[v] = wire[w] /\ v \in Nat /\ v + 1 = w
      BY <1>2, <3>1
    <3>3. Brings(wire'[v]) /\ ~ExitOnWire(v)'
      BY <1>2, <2>4, <3>2
    <3> QED
      BY <3>3 DEF Shown, Brings
  <2>5. \A w \in 1..Len(wire) : w = 1 \/ w \in 2..Len(wire)
    BY <1>2
  <2>6. \/ isEnemyEnter /\ ~ExitAfter(0)
        \/ \E m \in Pending : Brought(PendingJob(m)) /\ ~ExitAfter(m)
        \/ \E w \in 1..Len(wire) : Brings(wire[w]) /\ ~ExitOnWire(w)
    BY <1>1, <1>3, <1>5 DEF Shown
  <2> QED
    BY <1>2, <2>1, <2>2, <2>3, <2>4, <2>5, <2>6
<1>17. Known'
  <2> SUFFICES ASSUME Sound'
               PROVE  Known'
    BY DEF Known
  <2>0. created \in Nat /\ Pending \subseteq Nat
    BY <1>5, Places DEF Sound
  <2>1. isEnemyEnter' \/ isPlayerReady' \/ readyText' => enemyID' = Other
    BY <1>1, <1>5 DEF Known
  <2>2. ASSUME NEW m \in Pending', PendingJob(m)'.type = "ready"
        PROVE  \/ enemyID' = Other
               \/ \E k \in Pending' : k < m /\ Brought(PendingJob(k)')
    <3>1. CASE m \in Pending /\ PendingJob(m)' = PendingJob(m)
      BY <1>1, <1>5, <2>2, <3>1 DEF Known
    <3>2. CASE \E k \in 1..Len(jobs) : m = created + k /\ PendingJob(m)' = jobs[k]
      <4>1. h.type = "ready" /\ h.id # Me
        BY <1>7, <2>2, <3>2
      <4>2. \/ enemyID = Other
            \/ \E k \in Pending : Brought(PendingJob(k))
        <5>1. 1 \in 1..Len(wire) /\ \A v : v \notin 1..(1 - 1)
          BY <1>2
        <5>2. \/ enemyID = Other
              \/ \E k \in Pending : Brought(PendingJob(k))
              \/ \E v \in 1..(1 - 1) : Brings(wire[v])
          BY <1>2, <1>5, <4>1, <5>1 DEF Known
        <5> QED
          BY <5>1, <5>2
      <4>3. \A k \in Pending : k < m
        <5>1. m \in Int /\ m > created
          BY <1>6, <2>0, <3>2
        <5>2. \A k \in Pending : k <= created
          BY <1>5
        <5> QED
          BY <2>0, <5>1, <5>2
      <4> QED
        BY <1>1, <1>5, <4>2, <4>3
    <3> QED
      BY <1>9, <3>1, <3>2
  <2>3. ASSUME NEW w \in 1..Len(wire'), wire'[w].type = "ready", wire'[w].id # Me
        PROVE  \/ enemyID' = Other
               \/ \E k \in Pending' : Brought(PendingJob(k)')
               \/ \E v \in 1..(w - 1) : Brings(wire'[v])
    <3>1. w + 1 \in 1..Len(wire) /\ wire'[w] = wire[w + 1] /\ (w + 1) - 1 = w
      BY <1>2
    <3>2. \/ enemyID = Other
          \/ \E k \in Pending : Brought(PendingJob(k))
          \/ \E v \in 1..w : Brings(wire[v])
      BY <1>5, <2>3, <3>1 DEF Known
    <3>3. CASE \E k \in Pending : Brought(PendingJob(k))
      BY <1>5, <3>3
    <3>4. ASSUME NEW v \in 1..w, Brings(wire[v])
          PROVE  \/ \E k \in Pending' : Brought(PendingJob(k)')
                 \/ \E u \in 1..(w - 1) : Brings(wire'[u])
      <4>1. CASE v = 1
        <5>1. PICK k \in 1..Len(jobs) : Brought(jobs[k])
          BY <1>2, <1>8, <3>4, <4>1
        <5> QED
          BY <1>10, <5>1
      <4>2. CASE v # 1
        <5>1. v \in 2..Len(wire) /\ v - 1 \in 1..(w - 1)
          BY <1>2, <4>2
        <5> QED
          BY <1>2, <3>4, <5>1
      <4> QED
        BY <4>1, <4>2
    <3> QED
      BY <1>1, <3>2, <3>3, <3>4
  <2> QED
    BY <2>1, <2>2, <2>3 DEF Known, Brings, Brought
<1> QED
  BY <1>13, <1>14, <1>15, <1>16, <1>17

\* The job that runs was the first of those to run, and is none of them any more.
LEMMA RunStep ==
  ASSUME IInv, Run
  PROVE  RoomInv'
<1> USE DEF IInv, RoomInv
<1>1. /\ mpc = "run"
      /\ UNCHANGED <<up, wire, present, entered, PlayerID, playerID, created, todo>>
  BY DEF Run, server, handler, room
<1>2. CASE ~entered
  <2>1. created = 0
    BY <1>2 DEF Before
  <2>2. action = None
    BY <2>1 DEF OnePlace
  <2>3. UNCHANGED <<enemyID, isEnemyEnter, isPlayerReady, readyText>>
    BY <2>2 DEF Run, room
  <2>4. Pending' = {} /\ Pending = {}
    <3>1. ran' = ran
      BY <2>2 DEF Run
    <3> QED
      BY <1>1, <1>2, <3>1, Unentered DEF Pending
  <2>5. Sound' => Sound
    BY <1>1 DEF Run, Sound, handler
  <2>6. ~isEnemyEnter /\ ~isPlayerReady /\ ~readyText
        /\ \A w \in 1..Len(wire) : wire[w].type = "info"
    BY <1>2, Unentered
  <2>7. ExpectedIds' /\ Before' /\ After'
    BY <1>1, <1>2, <2>3, <2>4, <2>5 DEF ExpectedIds, Before, After
  <2>8. NoGhost' /\ Shown' /\ Known'
    BY <1>1, <1>2, <2>3, <2>4, <2>6 DEF NoGhost, Shown, Known, Brings
  <2> QED
    BY <2>7, <2>8
<1>3. CASE entered /\ ~Sound'
  BY <1>1, <1>3 DEF ExpectedIds, Before, After, NoGhost, Shown, Known
<1>4. CASE entered /\ Sound'
  <2> DEFINE first == Len(ran) + 1
             j == action.job
  <2>1. Sound /\ ~overlapped /\ playerID = Me
    BY <1>1, <1>4, SoundStep DEF Sound, Next, Main
  <2>2. /\ action # None /\ first \in Pending /\ j = PendingJob(first)
        /\ Pending' = Pending \ {first}
        /\ \A m \in Pending' : PendingJob(m)' = PendingJob(m) /\ m > first
        /\ Pending \subseteq Nat /\ \A m \in Pending : m > 0 /\ m >= first
    BY <2>1, PendingRun, Places
  <2>3. /\ j.type \in {"enter", "exit", "ready", "gamestart"}
        /\ j.id \in {Me, Other} /\ (j.type \in {"exit", "ready"} => j.id = Other)
        /\ Me # Other
    <3>1. action \in Entries
      BY <2>2 DEF Types
    <3>2. j.type \in {"enter", "exit", "ready", "gamestart"}
      BY <3>1 DEF Entries, Jobs
    <3> QED
      BY <2>1, <2>2, <3>2, Constants DEF ExpectedIds
  <2>4. /\ \/ j.type = "enter" /\ EnterRoom(j.id)
           \/ j.type = "exit" /\ ExitRoom(j.id)
           \/ j.type = "ready" /\ EnemyReady
           \/ j.type = "gamestart" /\ GameStart
    BY <2>2 DEF Run
  <2> HIDE DEF first, j
  <2>5. /\ \A m \in Pending' : ExitAfter(m)' <=> ExitAfter(m)
        /\ ExitAfter(0)' <=> ExitAfter(first)
        /\ ExitAfter(0) <=> j.type = "exit" \/ ExitAfter(first)
    <3>1. ExitOnWire(0)' <=> ExitOnWire(0)
      BY <1>1 DEF ExitOnWire
    <3>2. first \in Nat /\ \A m \in Pending' : m \in Nat /\ m > 0 /\ m > first /\ m \in Pending
      BY <2>2
    <3>3. \A m \in Pending' : ExitAfter(m)' <=> ExitAfter(m)
      <4> SUFFICES ASSUME NEW m \in Pending'
                   PROVE  ExitAfter(m)' <=> ExitAfter(m)
        OBVIOUS
      <4>1. \A k \in Pending : k > m => k \in Pending'
        BY <2>2, <3>2
      <4> QED
        BY <2>2, <3>1, <3>2, <4>1 DEF ExitAfter
    <3>4. ExitAfter(0)' <=> ExitAfter(first)
      <4>1. \A k \in Pending : k > first => k \in Pending'
        BY <2>2, <3>2
      <4> QED
        BY <2>2, <3>1, <3>2, <4>1 DEF ExitAfter
    <3>5. ExitAfter(0) <=> j.type = "exit" \/ ExitAfter(first)
      <4>1. \A k \in Pending : k > 0 /\ (k = first \/ k > first)
        BY <2>2, <3>2
      <4> QED
        BY <2>2, <4>1 DEF ExitAfter
    <3> QED
      BY <3>3, <3>4, <3>5
  <2>6. ExpectedIds'
    BY <1>1, <2>1, <2>2 DEF ExpectedIds
  <2>7. Before' /\ After'
    BY <1>1, <1>4 DEF Before, After
\* What the Room shows follows what it showed, and the job.
  <2>8. /\ isEnemyEnter' => (isEnemyEnter /\ j.type # "exit") \/ Brought(j)
        /\ isPlayerReady' => isPlayerReady /\ j.type # "exit"
        /\ readyText' => (readyText /\ j.type # "exit") \/ j.type = "ready"
        /\ (isEnemyEnter /\ j.type # "exit") \/ Brought(j) => isEnemyEnter'
        /\ enemyID' = Other \/ (enemyID' = enemyID /\ ~Brought(j))
        /\ enemyID = Other => enemyID' = Other
    <3>1. isEnemyEnter \/ isPlayerReady \/ readyText => enemyID = Other
      BY <2>1 DEF Known
    <3>2. CASE j.type = "enter" /\ EnterRoom(j.id)
      BY <2>1, <2>3, <3>2 DEF EnterRoom, Brought
    <3>3. CASE j.type = "exit" /\ ExitRoom(j.id)
      BY <2>3, <3>1, <3>3 DEF ExitRoom, Brought
    <3>4. CASE j.type = "ready" /\ EnemyReady
      BY <3>4 DEF EnemyReady, Brought
    <3>5. CASE j.type = "gamestart" /\ GameStart
      BY <3>5 DEF GameStart, Brought
    <3> QED
      BY <2>4, <3>2, <3>3, <3>4, <3>5
  <2>9. NoGhost'
    <3>1. Brought(j) \/ j.type = "ready" => present \/ ExitAfter(first)
      BY <2>1, <2>2 DEF NoGhost
    <3>2. (isEnemyEnter \/ isPlayerReady \/ readyText) /\ j.type # "exit" =>
            present \/ ExitAfter(first)
      BY <2>1, <2>5 DEF NoGhost
    <3>3. isEnemyEnter' \/ isPlayerReady' \/ readyText' => present' \/ ExitAfter(0)'
      BY <1>1, <2>5, <2>8, <3>1, <3>2
    <3>4. \A m \in Pending' :
            Brought(PendingJob(m)') \/ PendingJob(m)'.type = "ready" => present' \/ ExitAfter(m)'
      BY <1>1, <2>1, <2>2, <2>5 DEF NoGhost
    <3>5. \A w \in 1..Len(wire') :
            Brings(wire'[w]) \/ (wire'[w].type = "ready" /\ wire'[w].id # Me)
              => present' \/ ExitOnWire(w)'
      BY <1>1, <2>1 DEF NoGhost, ExitOnWire
    <3> QED
      BY <3>3, <3>4, <3>5 DEF NoGhost, Brings, Brought
  <2>10. Shown'
    <3> SUFFICES ASSUME present
                 PROVE  Shown'
      BY <1>1 DEF Shown
    <3>1. CASE isEnemyEnter /\ ~ExitAfter(0)
      <4>1. isEnemyEnter' /\ ~ExitAfter(0)'
        BY <2>5, <2>8, <3>1
      <4> QED
        BY <4>1 DEF Shown
    <3>2. CASE Brought(j) /\ ~ExitAfter(first)
      <4>1. isEnemyEnter' /\ ~ExitAfter(0)'
        BY <2>5, <2>8, <3>2
      <4> QED
        BY <4>1 DEF Shown
    <3>3. ASSUME NEW m \in Pending', Brought(PendingJob(m)), ~ExitAfter(m)
          PROVE  Shown'
      <4>1. Brought(PendingJob(m)') /\ ~ExitAfter(m)'
        BY <2>2, <2>5, <3>3
      <4> QED
        BY <4>1 DEF Shown, Brought
    <3>4. CASE \E w \in 1..Len(wire) : Brings(wire[w]) /\ ~ExitOnWire(w)
      BY <1>1, <3>4 DEF Shown, Brings, ExitOnWire
    <3>5. \/ isEnemyEnter /\ ~ExitAfter(0)
          \/ \E m \in Pending : Brought(PendingJob(m)) /\ ~ExitAfter(m)
          \/ \E w \in 1..Len(wire) : Brings(wire[w]) /\ ~ExitOnWire(w)
      BY <1>4, <2>1 DEF Shown
    <3> QED
      BY <2>2, <3>1, <3>2, <3>3, <3>4, <3>5
  <2>11. Known'
    <3>1. isEnemyEnter' \/ isPlayerReady' \/ readyText' => enemyID' = Other
      <4>1. isEnemyEnter \/ isPlayerReady \/ readyText => enemyID = Other
        BY <2>1 DEF Known
      <4>2. j.type = "ready" => enemyID = Other
        BY <2>1, <2>2 DEF Known
      <4> QED
        BY <2>8, <4>1, <4>2
    <3>2. (\E k \in Pending : Brought(PendingJob(k))) =>
            \/ enemyID' = Other
            \/ \E k \in Pending' : Brought(PendingJob(k)')
      BY <2>2, <2>8
    <3>3. ASSUME NEW m \in Pending', PendingJob(m)'.type = "ready"
          PROVE  \/ enemyID' = Other
                 \/ \E k \in Pending' : k < m /\ Brought(PendingJob(k)')
      <4>1. \/ enemyID = Other
            \/ \E k \in Pending : k < m /\ Brought(PendingJob(k))
        BY <2>1, <2>2, <3>3 DEF Known
      <4> QED
        BY <2>2, <2>8, <4>1
    <3>4. ASSUME NEW w \in 1..Len(wire'), wire'[w].type = "ready", wire'[w].id # Me
          PROVE  \/ enemyID' = Other
                 \/ \E k \in Pending' : Brought(PendingJob(k)')
                 \/ \E v \in 1..(w - 1) : Brings(wire'[v])
      <4>1. \/ enemyID = Other
            \/ \E k \in Pending : Brought(PendingJob(k))
            \/ \E v \in 1..(w - 1) : Brings(wire[v])
        BY <1>1, <2>1, <3>4 DEF Known
      <4> QED
        BY <1>1, <2>8, <3>2, <4>1
    <3> QED
      BY <3>1, <3>3, <3>4 DEF Known, Brings, Brought
  <2> QED
    BY <2>6, <2>7, <2>9, <2>10, <2>11
<1> QED
  BY <1>2, <1>3, <1>4

------------------------------------------------------------------------------
(* Theorems *)

\* The Room's invariant holds at the start, and every step keeps it.
LEMMA InitInv == Init => IInv
<1> SUFFICES ASSUME Init
             PROVE  IInv
  OBVIOUS
<1> USE DEF Init
<1>1. Capacity \in Nat /\ Capacity > 0 /\ MaxVisits \in Nat
  BY NextSlot, BoundAssumption
<1>2. TypeOK
  <2>1. \A i \in DOMAIN array : array[i] = None
    OBVIOUS
  <2>2. 0 \in Ids /\ 0 \in 0..MaxVisits /\ 0 \in 0..(Capacity - 1) /\ 0 \in 0..Capacity
    BY <1>1 DEF Ids
  <2> QED
    BY <2>1, <2>2, Flat
<1>3. Types
  <2>1. [type |-> "info", id |-> Me, list |-> <<>>] \in Packets
    BY Constants DEF Packets
  <2> QED
    BY <2>1 DEF Types
<1>4. Bounds /\ OnePlace
  <2>1. \A i \in 0..(Capacity - 1) : array[i] = None
    OBVIOUS
  <2>2. action = None /\ mpc = "start" /\ \A k : k \notin 1..Len(ran)
    OBVIOUS
  <2> QED
    BY <2>1, <2>2 DEF Bounds, OnePlace
<1>5. InHand = 0 /\ TakenJobs = 0 /\ Queued = 0 /\ Len(ran) = 0 /\ Len(todo) = 0
  <2>1. Len(ran) = 0 /\ Len(todo) = 0 /\ mpc = "start" /\ created = 0
    OBVIOUS
  <2> HIDE DEF Init
  <2>2. InHand = 0
    BY <2>1 DEF InHand
  <2>3. TakenJobs = 0
    BY <2>1, <2>2 DEF TakenJobs
  <2> QED
    BY <2>1, <2>2, <2>3 DEF Queued
<1>6. InQueue
  <2>1. tail = Slot(Queued)
    BY <1>1, <1>5 DEF Slot
  <2> QED
    BY <1>1, <1>5, <2>1 DEF InQueue
<1>7. Pending = {}
  BY <1>5 DEF Pending
<1>8. /\ Len(wire) = 1 /\ wire[1] = [type |-> "info", id |-> Me, list |-> <<>>]
      /\ wire[1].type = "info" /\ wire[1].id = Me /\ wire[1].list = <<>>
      /\ Len(up) = 0 /\ \A w \in 1..1 : w = 1
  OBVIOUS
<1>9. ExpectedIds /\ Before /\ After
  BY <1>7, <1>8 DEF ExpectedIds, Before, After
<1>10. NoGhost /\ Shown /\ Known
  BY <1>7, <1>8 DEF NoGhost, Shown, Known, Brings
<1> QED
  BY <1>2, <1>3, <1>4, <1>6, <1>9, <1>10 DEF IInv, RoomInv

\* Every step keeps it.
LEMMA NextInv == IInv /\ [Next]_vars => IInv'
<1> SUFFICES ASSUME IInv, [Next]_vars
             PROVE  IInv'
  OBVIOUS
<1>1. TypeOK' /\ Types'
  BY TypeStep DEF IInv
<1>2. Bounds'
  BY BoundsStep DEF IInv
<1>3. OnePlace'
  BY PlaceStep DEF IInv
<1>4. InQueue'
  BY QueueStep DEF IInv
<1>5. RoomInv'
  BY MovedStep, OpponentStep, ServerStep, PlayerInfoStep, PlayerReadyStep, DispatchStep, RunStep
     DEF Next, Network, Main
<1> QED
  BY <1>1, <1>2, <1>3, <1>4, <1>5 DEF IInv

\* The inductive invariant holds in every behaviour of the specification.
THEOREM Invariance == Spec => []IInv
BY InitInv, NextInv, PTL DEF Spec

\* TypeOK: every variable keeps its type, and _size stays between none and the
\* capacity, however the two threads' reads and writes of it fall.
THEOREM TypeCorrect == Spec => []TypeOK
<1>1. IInv => TypeOK
  BY DEF IInv
<1> QED
  BY <1>1, Invariance, PTL

\* JobsOnce: no job runs twice, and until an Enqueue and a Dequeue have overlapped in
\* _size the jobs run in the order in which the handlers created them.
THEOREM JobsOnceCorrect == Spec => []JobsOnce
<1>1. IInv => JobsOnce
  BY DEF IInv, JobsOnce, OnePlace, InQueue
<1> QED
  BY <1>1, Invariance, PTL

\* RoomFollows: when all is handled the Room is right about the opponent.
THEOREM RoomFollowsCorrect == Spec => []RoomFollows
<1>1. IInv => RoomFollows
  <2> SUFFICES ASSUME IInv, Settled, entered, ~overlapped, ~deaf, playerID = Me
               PROVE  /\ isEnemyEnter = present
                      /\ isPlayerReady => present
                      /\ readyText => present
    BY DEF RoomFollows
  <2>1. Sound /\ wire = <<>> /\ todo = <<>> /\ npc = "idle" /\ mpc = "test" /\ size = 0
        /\ present \in BOOLEAN /\ isEnemyEnter \in BOOLEAN
    BY Flat DEF Settled, Sound, IInv
  <2>2. Pending = {}
    <3>1. created \in Nat /\ Len(ran) \in Nat /\ Len(todo) = 0
      BY <2>1, Places DEF IInv
    <3>2. Queued = 0
      <4>1. Queued \in Nat /\ size = Queued
        BY <2>1 DEF IInv, InQueue
      <4> QED
        BY <2>1, <4>1
    <3>3. created = Len(ran)
      <4>1. InHand = 0
        BY <2>1 DEF InHand
      <4> QED
        BY <3>1, <3>2, <4>1 DEF Queued, TakenJobs
    <3> QED
      BY <3>1, <3>3 DEF Pending
  <2>3. Len(wire) = 0
    BY <2>1
  <2>4. ~ExitAfter(0)
    BY <2>2, <2>3 DEF ExitAfter, ExitOnWire
  <2>5. isEnemyEnter \/ isPlayerReady \/ readyText => present
    BY <2>1, <2>4 DEF IInv, RoomInv, NoGhost
  <2>6. present => isEnemyEnter
    BY <2>1, <2>2, <2>3 DEF IInv, RoomInv, Shown
  <2> QED
    BY <2>1, <2>5, <2>6
<1> QED
  BY <1>1, Invariance, PTL

------------------------------------------------------------------------------
(* Numbers and sets *)

\* Any set of numbers has a least one.
LEMMA LeastNumber ==
  ASSUME NEW S \in SUBSET Nat, S # {}
  PROVE  \E m \in S : \A y \in S : m <= y
<1> DEFINE R == {ss \in Nat \X Nat : ss[1] < ss[2]}
<1>1. IsWellFoundedOn(R, Nat)
  <2>1. R = OpToRel(<, Nat)
    BY Zenon DEF OpToRel
  <2> QED
    BY <2>1, NatLessThanWellFounded, Zenon
<1>2. PICK m \in S : \A y \in S : <<y, m>> \notin R
  <2> HIDE DEF R
  <2> QED
    BY <1>1, WFMin
<1>3. ASSUME NEW y \in S
      PROVE  m <= y
  <2>1. <<y, m>> \in Nat \X Nat /\ <<y, m>> \notin R
    BY <1>2
  <2> QED
    BY <2>1
<1> QED
  BY <1>3

\* Min and Max are what they say.
LEMMA MinFacts ==
  ASSUME NEW S \in SUBSET Nat, S # {}
  PROVE  Min(S) \in S /\ \A y \in S : Min(S) <= y
BY LeastNumber DEF Min

\* Max, of a set below a number, is in it.
LEMMA MaxFacts ==
  ASSUME NEW n \in Nat, NEW S \in SUBSET (0..(n - 1)), S # {}
  PROVE  Max(S) \in S
<1> DEFINE U == {u \in Nat : \A s \in S : s <= u}
<1>1. n \in U
  OBVIOUS
<1>2. PICK m \in U : \A u \in U : m <= u
  <2>1. U \in SUBSET Nat /\ U # {}
    BY <1>1
  <2> HIDE DEF U
  <2> QED
    BY <2>1, LeastNumber
<1>3. m \in S
  <2> SUFFICES ASSUME m \notin S PROVE FALSE
    OBVIOUS
  <2>1. PICK s \in S : TRUE
    OBVIOUS
  <2>2. s < m /\ m \in Nat
    BY <1>2, <2>1
  <2>3. m - 1 \in U
    BY <1>2, <2>2
  <2> QED
    BY <1>2, <2>2, <2>3
<1>4. \A y \in S : m >= y
  BY <1>2
<1> QED
  BY <1>3, <1>4 DEF Max

\* The place of an element among the smaller ones counts the set through.
Place(S, x) == Cardinality({i \in S : i <= x})

\* The places of a set's elements are 1 to its size, each taken once.
LEMMA PlaceFacts ==
  ASSUME NEW n \in Nat, NEW S \in SUBSET (0..(n - 1))
  PROVE  /\ IsFiniteSet(S) /\ Cardinality(S) \in Nat
         /\ \A x \in S : Place(S, x) \in 1..Cardinality(S)
         /\ \A x, y \in S : x # y => Place(S, x) # Place(S, y)
         /\ \A k \in 1..Cardinality(S) : \E x \in S : Place(S, x) = k
<1>1. IsFiniteSet(S) /\ Cardinality(S) \in Nat
  <2>1. IsFiniteSet(0..(n - 1))
    BY FS_Interval
  <2>2. IsFiniteSet(S)
    BY <2>1, FS_Subset
  <2> QED
    BY <2>2, FS_CardinalityType
<1>2. ASSUME NEW x \in S
      PROVE  Place(S, x) \in 1..Cardinality(S)
  <2> DEFINE T == {i \in S : i <= x}
  <2>1. T \in SUBSET S /\ x \in T
    OBVIOUS
  <2>2. IsFiniteSet(T) /\ Cardinality(T) <= Cardinality(S) /\ Cardinality(T) \in Nat
    <3> HIDE DEF T
    <3>1. IsFiniteSet(T) /\ Cardinality(T) <= Cardinality(S)
      BY <1>1, <2>1, FS_Subset
    <3> QED
      BY <3>1, FS_CardinalityType
  <2>3. Cardinality(T) # 0
    BY <2>1, <2>2, FS_EmptySet, Zenon
  <2> QED
    BY <1>1, <2>2, <2>3 DEF Place
<1>3. ASSUME NEW x \in S, NEW y \in S, x < y
      PROVE  Place(S, x) < Place(S, y)
  <2> DEFINE T == {i \in S : i <= x}
             V == {i \in S : i <= y}
  <2>1. T \in SUBSET V /\ y \in V /\ y \notin T /\ V \in SUBSET S
    <3>1. x \in Int /\ y \in Int /\ S \subseteq Int /\ x < y
      BY <1>3
    <3>2. ASSUME NEW i \in T PROVE i \in V
      <4>1. i \in S /\ i <= x
        OBVIOUS
      <4> QED
        BY <3>1, <4>1
    <3>3. y \notin T /\ y \in V
      BY <3>1
    <3> QED
      BY <3>2, <3>3
  <2>2. IsFiniteSet(V)
    BY <1>1, <2>1, FS_Subset
  <2>3. IsFiniteSet(T) /\ Cardinality(T) <= Cardinality(V)
        /\ (Cardinality(V) = Cardinality(T) => V = T)
    <3> HIDE DEF T, V
    <3> QED
      BY <2>1, <2>2, FS_Subset
  <2>4. Cardinality(T) \in Nat /\ Cardinality(V) \in Nat /\ V # T
    BY <2>1, <2>2, <2>3, FS_CardinalityType
  <2> QED
    BY <2>3, <2>4 DEF Place
<1>4. \A x, y \in S : x # y => Place(S, x) # Place(S, y)
  <2> SUFFICES ASSUME NEW x \in S, NEW y \in S, x # y
               PROVE  Place(S, x) # Place(S, y)
    OBVIOUS
  <2>1. Place(S, x) \in Nat /\ Place(S, y) \in Nat
    BY <1>1, <1>2
  <2>2. x < y \/ y < x
    OBVIOUS
  <2> QED
    BY <1>3, <2>1, <2>2
<1>5. \A k \in 1..Cardinality(S) : \E x \in S : Place(S, x) = k
  <2> DEFINE f == [x \in S |-> Place(S, x)]
             K == 1..Cardinality(S)
  <2>1. f \in Injection(S, K)
    BY <1>2, <1>4 DEF Injection, IsInjective
  <2>2. IsFiniteSet(K) /\ Cardinality(K) = Cardinality(S)
    BY <1>1, FS_Interval
  <2>3. f \in Surjection(S, K)
    BY <2>1, <2>2, FS_Injection
  <2> QED
    BY <2>3 DEF Surjection
<1> QED
  BY <1>1, <1>2, <1>4, <1>5

------------------------------------------------------------------------------
(* Sums over a finite set *)

\* A finite set without one of its elements.
LEMMA OneLess ==
  ASSUME NEW S, IsFiniteSet(S), NEW t \in SUBSET S, NEW x \in t
  PROVE  /\ t \ {x} \in SUBSET S
         /\ Cardinality(t) \in Nat /\ Cardinality(t \ {x}) \in Nat
         /\ Cardinality(t \ {x}) = Cardinality(t) - 1
<1>1. IsFiniteSet(t)
  BY FS_Subset
<1>2. IsFiniteSet(t \ {x}) /\ Cardinality(t \ {x}) = Cardinality(t) - 1
  BY <1>1, FS_RemoveElement
<1> QED
  BY <1>1, <1>2, FS_CardinalityType

\* Among subsets of a finite set there is a smallest one.
LEMMA SmallestSet ==
  ASSUME NEW S, IsFiniteSet(S), NEW Bad \in SUBSET SUBSET S, Bad # {}
  PROVE  \E m \in Bad : \A x \in m : m \ {x} \notin Bad
<1> DEFINE Sizes == {Cardinality(s) : s \in Bad}
<1>1. \A s \in Bad : Cardinality(s) \in Nat
  BY FS_Subset, FS_CardinalityType
<1>2. Sizes \in SUBSET Nat /\ Sizes # {}
  BY <1>1
<1>3. PICK n \in Sizes : \A y \in Sizes : n <= y
  <2> HIDE DEF Sizes
  <2> QED
    BY <1>2, LeastNumber
<1>4. PICK m \in Bad : Cardinality(m) = n
  OBVIOUS
<1>5. ASSUME NEW x \in m, m \ {x} \in Bad
      PROVE  FALSE
  <2>1. /\ Cardinality(m) \in Nat /\ Cardinality(m \ {x}) \in Nat
        /\ Cardinality(m \ {x}) = Cardinality(m) - 1
    BY OneLess
  <2>2. Cardinality(m) <= Cardinality(m \ {x})
    BY <1>3, <1>4, <1>5
  <2> QED
    BY <2>1, <2>2
<1> QED
  BY <1>4, <1>5

\* What a fold takes next, and the sums it makes of the subsets of S.
Chosen(t) == CHOOSE x \in t : TRUE

Sums(f, S) ==
  CHOOSE g : g = [t \in SUBSET S |-> IF t = {} THEN 0
                                     ELSE f[Chosen(t)] + g[t \ {Chosen(t)}]]

\* There are such sums.
LEMMA SumsDefined ==
  ASSUME NEW S, IsFiniteSet(S), NEW f, \A x \in S : f[x] \in Nat
  PROVE  /\ Sums(f, S) \in [SUBSET S -> Nat]
         /\ \A t \in SUBSET S :
              Sums(f, S)[t] = IF t = {} THEN 0
                              ELSE f[Chosen(t)] + Sums(f, S)[t \ {Chosen(t)}]
<1> DEFINE Small(n) == {t \in SUBSET S : Cardinality(t) <= n}
           Sum(g, t) == IF t = {} THEN 0 ELSE f[Chosen(t)] + g[t \ {Chosen(t)}]
           Good(g, n) == g \in [Small(n) -> Nat] /\ \A t \in Small(n) : g[t] = Sum(g, t)
           Bad == {n \in Nat : \A g : ~Good(g, n)}
<1>1. \A t \in SUBSET S : /\ Cardinality(t) \in Nat
                          /\ Cardinality(t) = 0 <=> t = {}
  BY FS_Subset, FS_CardinalityType, FS_EmptySet
<1>2. ASSUME NEW n \in Nat, NEW t \in Small(n + 1), t # {}
      PROVE  /\ Chosen(t) \in S /\ t \ {Chosen(t)} \in Small(n)
             /\ t \ {Chosen(t)} \in SUBSET S
  <2>1. Chosen(t) \in t
    BY <1>2 DEF Chosen
  <2>2. /\ t \ {Chosen(t)} \in SUBSET S
        /\ Cardinality(t) \in Nat /\ Cardinality(t \ {Chosen(t)}) \in Nat
        /\ Cardinality(t \ {Chosen(t)}) = Cardinality(t) - 1
    BY <2>1, OneLess
  <2>3. Cardinality(t) <= n + 1
    OBVIOUS
  <2>4. Cardinality(t \ {Chosen(t)}) <= n
    BY <2>2, <2>3
  <2> QED
    BY <2>1, <2>2, <2>4
<1>3. \E g : Good(g, 0)
  <2> DEFINE g == [t \in Small(0) |-> 0]
  <2>1. \A t \in Small(0) : t = {}
    BY <1>1
  <2>2. Good(g, 0)
    BY <2>1
  <2> QED
    BY <2>2
<1>4. ASSUME NEW n \in Nat, \E g : Good(g, n)
      PROVE  \E g : Good(g, n + 1)
  <2>1. PICK g : Good(g, n)
    BY <1>4
  <2> DEFINE h == [t \in Small(n + 1) |-> Sum(g, t)]
  <2>2. \A t \in Small(n + 1) : Sum(g, t) \in Nat
    <3> SUFFICES ASSUME NEW t \in Small(n + 1), t # {}
                 PROVE  Sum(g, t) \in Nat
      OBVIOUS
    <3>1. f[Chosen(t)] \in Nat /\ g[t \ {Chosen(t)}] \in Nat
      BY <1>2, <2>1
    <3> QED
      BY <3>1
  <2>3. h \in [Small(n + 1) -> Nat]
    <3> HIDE DEF Sum, Small
    <3> QED
      BY <2>2
  <2>4. \A t \in Small(n) : t \in Small(n + 1) /\ h[t] = g[t]
    <3> SUFFICES ASSUME NEW t \in Small(n)
                 PROVE  t \in Small(n + 1) /\ h[t] = g[t]
      OBVIOUS
    <3>1. t \in Small(n + 1)
      BY <1>1
    <3>2. h[t] = Sum(g, t) /\ g[t] = Sum(g, t)
      BY <2>1, <3>1
    <3> QED
      BY <3>1, <3>2
  <2>5. ASSUME NEW t \in Small(n + 1)
        PROVE  h[t] = Sum(h, t)
    <3>1. h[t] = Sum(g, t)
      OBVIOUS
    <3>2. CASE t = {}
      BY <3>1, <3>2
    <3>3. CASE t # {}
      <4>1. t \ {Chosen(t)} \in Small(n)
        BY <1>2, <3>3
      <4>2. h[t \ {Chosen(t)}] = g[t \ {Chosen(t)}]
        BY <2>4, <4>1
      <4> HIDE DEF h
      <4> QED
        BY <3>1, <3>3, <4>2
    <3> QED
      BY <3>2, <3>3
  <2> HIDE DEF h
  <2>6. Good(h, n + 1)
    BY <2>3, <2>5
  <2> QED
    BY <2>6
<1> HIDE DEF Small, Good
<1>5. Bad = {}
  <2> SUFFICES ASSUME Bad # {} PROVE FALSE
    OBVIOUS
  <2>1. PICK m \in Bad : \A y \in Bad : m <= y
    <3>1. Bad \in SUBSET Nat
      OBVIOUS
    <3> HIDE DEF Bad
    <3> QED
      BY <3>1, LeastNumber
  <2>2. m # 0
    BY <1>3, <2>1
  <2>3. m - 1 \in Nat /\ m - 1 \notin Bad
    BY <2>1, <2>2
  <2>4. \E g : Good(g, m - 1)
    BY <2>3
  <2>5. \E g : Good(g, (m - 1) + 1)
    BY <1>4, <2>3, <2>4
  <2>6. (m - 1) + 1 = m
    BY <2>1
  <2> QED
    BY <2>1, <2>5, <2>6
<1>6. Cardinality(S) \in Nat /\ Small(Cardinality(S)) = SUBSET S
  <2>1. Cardinality(S) \in Nat
    BY FS_CardinalityType
  <2>2. \A t \in SUBSET S : Cardinality(t) <= Cardinality(S)
    BY FS_Subset
  <2> QED
    BY <2>1, <2>2 DEF Small
<1>7. PICK g : Good(g, Cardinality(S))
  BY <1>5, <1>6
<1>8. g \in [SUBSET S -> Nat] /\ \A t \in SUBSET S : g[t] = Sum(g, t)
  BY <1>6, <1>7 DEF Good
<1>9. g = [t \in SUBSET S |-> Sum(g, t)]
  BY <1>8
<1>10. Sums(f, S) = [t \in SUBSET S |-> Sum(Sums(f, S), t)]
  BY <1>9, Zenon DEF Sums
<1>11. \A t \in SUBSET S : Sums(f, S)[t] = Sum(Sums(f, S), t)
  BY <1>10
<1>12. \A t \in SUBSET S : Sums(f, S)[t] \in Nat
  <2> DEFINE Odd == {t \in SUBSET S : Sums(f, S)[t] \notin Nat}
  <2> SUFFICES ASSUME Odd # {} PROVE FALSE
    OBVIOUS
  <2>1. PICK m \in Odd : \A x \in m : m \ {x} \notin Odd
    <3>1. Odd \in SUBSET SUBSET S
      OBVIOUS
    <3> HIDE DEF Odd
    <3> QED
      BY <3>1, SmallestSet
  <2>2. Sums(f, S)[m] = Sum(Sums(f, S), m)
    BY <1>11
  <2>3. m # {}
    BY <2>2
  <2>4. Chosen(m) \in m
    BY <2>3 DEF Chosen
  <2>5. Sums(f, S)[m \ {Chosen(m)}] \in Nat /\ f[Chosen(m)] \in Nat
    BY <2>1, <2>4
  <2> QED
    BY <2>2, <2>3, <2>5
<1>13. Sums(f, S) \in [SUBSET S -> Nat]
  <2>1. DOMAIN Sums(f, S) = SUBSET S /\ Sums(f, S) = [t \in SUBSET S |-> Sums(f, S)[t]]
    BY <1>10, <1>11
  <2> QED
    BY <1>12, <2>1
<1> QED
  BY <1>11, <1>13

\* The library's sum is the last of them.
LEMMA SumIsSums ==
  ASSUME NEW f, NEW S
  PROVE  SumFunctionOnSet(f, S) = Sums(f, S)[S]
BY DEF SumFunctionOnSet, FoldFunctionOnSet, MapThenFoldSet, Sums, Chosen

\* The sums of a set's subsets are among its own.
LEMMA SumsAgree ==
  ASSUME NEW S, IsFiniteSet(S), NEW f, \A x \in S : f[x] \in Nat, NEW T \in SUBSET S
  PROVE  SumFunctionOnSet(f, T) = Sums(f, S)[T]
<1>3. \A t \in SUBSET S :
        Sums(f, S)[t] = IF t = {} THEN 0 ELSE f[Chosen(t)] + Sums(f, S)[t \ {Chosen(t)}]
  BY SumsDefined, Zenon
<1> DEFINE Odd == {t \in SUBSET T : Sums(f, T)[t] # Sums(f, S)[t]}
<1>1. IsFiniteSet(T) /\ \A x \in T : f[x] \in Nat
  BY FS_Subset
<1>2. Odd = {}
  <2> SUFFICES ASSUME Odd # {} PROVE FALSE
    OBVIOUS
  <2>1. PICK m \in Odd : \A x \in m : m \ {x} \notin Odd
    <3>1. Odd \in SUBSET SUBSET T
      OBVIOUS
    <3> HIDE DEF Odd
    <3> QED
      BY <1>1, <3>1, SmallestSet
  <2>2. m \in SUBSET T /\ m \in SUBSET S /\ Sums(f, T)[m] # Sums(f, S)[m]
    OBVIOUS
  <2>3. Sums(f, T)[m] = IF m = {} THEN 0 ELSE f[Chosen(m)] + Sums(f, T)[m \ {Chosen(m)}]
    BY <1>1, <2>2, SumsDefined
  <2>7. Sums(f, S)[m] = IF m = {} THEN 0 ELSE f[Chosen(m)] + Sums(f, S)[m \ {Chosen(m)}]
    BY <1>3, <2>2
  <2>4. m # {}
    BY <2>2, <2>3, <2>7
  <2>5. Chosen(m) \in m
    BY <2>4 DEF Chosen
  <2>6. Sums(f, T)[m \ {Chosen(m)}] = Sums(f, S)[m \ {Chosen(m)}]
    BY <2>1, <2>2, <2>5
  <2> QED
    BY <2>2, <2>3, <2>6, <2>7
<1> QED
  BY <1>2, SumIsSums

\* A sum is a number; nothing sums up to zero; and any element may be taken first.
LEMMA SumFacts ==
  ASSUME NEW S, IsFiniteSet(S), NEW f, \A x \in S : f[x] \in Nat
  PROVE  /\ SumFunctionOnSet(f, S) \in Nat
         /\ SumFunctionOnSet(f, {}) = 0
         /\ \A x \in S :
              SumFunctionOnSet(f, S) = f[x] + SumFunctionOnSet(f, S \ {x})
<1> DEFINE sums == Sums(f, S)
           Odd == {t \in SUBSET S : \E x \in t : sums[t] # f[x] + sums[t \ {x}]}
<1>1. /\ sums \in [SUBSET S -> Nat]
      /\ \A t \in SUBSET S :
           sums[t] = IF t = {} THEN 0 ELSE f[Chosen(t)] + sums[t \ {Chosen(t)}]
  BY SumsDefined
<1>2. \A t \in SUBSET S : SumFunctionOnSet(f, t) = sums[t]
  BY SumsAgree
<1> HIDE DEF sums
<1>3. Odd = {}
  <2> SUFFICES ASSUME Odd # {} PROVE FALSE
    OBVIOUS
  <2>1. PICK m \in Odd : \A x \in m : m \ {x} \notin Odd
    <3>1. Odd \in SUBSET SUBSET S
      OBVIOUS
    <3> HIDE DEF Odd
    <3> QED
      BY <3>1, SmallestSet
  <2>2. PICK x \in m : sums[m] # f[x] + sums[m \ {x}]
    OBVIOUS
  <2> DEFINE c == Chosen(m)
  <2>3. c \in m /\ m \in SUBSET S
    BY <2>2 DEF Chosen
  <2>4. sums[m] = f[c] + sums[m \ {c}]
    BY <1>1, <2>2, <2>3
  <2>5. c # x
    BY <2>2, <2>4
  <2> HIDE DEF c
  <2>6. sums[m \ {c}] = f[x] + sums[(m \ {c}) \ {x}]
    <3>1. m \ {c} \in SUBSET S /\ m \ {c} \notin Odd /\ x \in m \ {c}
      BY <2>1, <2>3, <2>5
    <3> QED
      BY <3>1
  <2>7. sums[m \ {x}] = f[c] + sums[(m \ {c}) \ {x}]
    <3>1. m \ {x} \in SUBSET S /\ m \ {x} \notin Odd /\ c \in m \ {x}
      BY <2>1, <2>3, <2>5
    <3>2. (m \ {c}) \ {x} = (m \ {x}) \ {c}
      OBVIOUS
    <3>3. sums[m \ {x}] = f[c] + sums[(m \ {x}) \ {c}]
      BY <3>1
    <3> QED
      BY <3>2, <3>3
  <2> DEFINE rest == sums[(m \ {c}) \ {x}]
  <2>8. f[x] \in Nat /\ f[c] \in Nat /\ rest \in Nat
    BY <1>1, <2>3
  <2>9. /\ sums[m] = f[c] + (f[x] + rest) /\ f[x] + sums[m \ {x}] = f[x] + (f[c] + rest)
    BY <2>4, <2>6, <2>7
  <2> HIDE DEF rest
  <2>10. f[c] + (f[x] + rest) = f[x] + (f[c] + rest)
    BY <2>8
  <2> QED
    BY <2>2, <2>9, <2>10
<1>4. \A x \in S : sums[S] = f[x] + sums[S \ {x}]
  BY <1>3
<1>5. sums[S] \in Nat /\ sums[{}] = 0
  BY <1>1
<1>6. \A x \in S : SumFunctionOnSet(f, S) = f[x] + SumFunctionOnSet(f, S \ {x})
  <2> TAKE x \in S
  <2>1. SumFunctionOnSet(f, S \ {x}) = sums[S \ {x}] /\ SumFunctionOnSet(f, S) = sums[S]
    BY <1>2
  <2> QED
    BY <1>4, <2>1
<1>7. SumFunctionOnSet(f, S) \in Nat /\ SumFunctionOnSet(f, {}) = 0
  BY <1>2, <1>5
<1> QED
  BY <1>6, <1>7

\* s is what the list r of n elements holds, each of them once.
Lists(r, n, s) ==
  /\ \A k \in 1..n : r[k] \in s
  /\ \A x \in s : \E k \in 1..n : x = r[k]
  /\ \A j, k \in 1..n : j # k => r[j] # r[k]

\* The sum over a list without repetitions is that over what is in it.
LEMMA SumOfList ==
  ASSUME NEW n \in Nat, NEW r, NEW f, NEW h, NEW s,
         Lists(r, n, s), \A k \in 1..n : f[r[k]] \in Nat /\ h[k] = f[r[k]]
  PROVE  SumFunctionOnSet(h, 1..n) = SumFunctionOnSet(f, s)
<1> DEFINE I(m) == {r[k] : k \in 1..m}
           fine(m) == SumFunctionOnSet(h, 1..m) = SumFunctionOnSet(f, I(m))
           Odd == {m \in 0..n : ~fine(m)}
<1>1. \A m \in 0..n : IsFiniteSet(I(m)) /\ IsFiniteSet(1..m)
  <2> TAKE m \in 0..n
  <2>1. IsFiniteSet(1..m)
    BY FS_Interval
  <2>2. IsFiniteSet(I(m))
    <3> DEFINE list == [k \in 1..m |-> r[k]]
    <3>1. list \in Surjection(1..m, I(m))
      BY DEF Surjection
    <3> QED
      BY <2>1, <3>1, FS_Surjection
  <2> QED
    BY <2>1, <2>2
<1>2. Odd = {}
  <2> SUFFICES ASSUME Odd # {} PROVE FALSE
    OBVIOUS
  <2>1. PICK m \in Odd : \A y \in Odd : m <= y
    <3>1. Odd \in SUBSET Nat
      OBVIOUS
    <3> HIDE DEF Odd
    <3> QED
      BY <3>1, LeastNumber
  <2>2. m \in 0..n /\ ~fine(m)
    OBVIOUS
  <2>3. CASE m = 0
    <3>1. 1..m = {} /\ I(m) = {}
      BY <2>3
    <3>2. SumFunctionOnSet(h, {}) = 0 /\ SumFunctionOnSet(f, {}) = 0
      BY FS_EmptySet, SumFacts
    <3> QED
      BY <2>2, <3>1, <3>2
  <2>4. CASE m # 0
    <3>1. m - 1 \in 0..n /\ m \in 1..m /\ m \in 1..n
      BY <2>2, <2>4
    <3>2. fine(m - 1)
      BY <2>1, <3>1
    <3>3. (1..m) \ {m} = 1..(m - 1)
      BY <3>1
    <3>4. r[m] \in I(m) /\ I(m) \ {r[m]} = I(m - 1)
      <4>1. \A k \in 1..(m - 1) : k \in 1..m /\ r[k] # r[m]
        BY <3>1 DEF Lists
      <4>2. \A k \in 1..m : k = m \/ k \in 1..(m - 1)
        BY <3>1
      <4> QED
        BY <3>1, <4>1, <4>2
    <3>5. SumFunctionOnSet(h, 1..m) = h[m] + SumFunctionOnSet(h, (1..m) \ {m})
      <4>1. \A k \in 1..m : h[k] \in Nat
        BY <2>2
      <4> QED
        BY <1>1, <2>2, <3>1, <4>1, SumFacts
    <3>6. SumFunctionOnSet(f, I(m)) = f[r[m]] + SumFunctionOnSet(f, I(m) \ {r[m]})
      <4>1. \A x \in I(m) : f[x] \in Nat
        BY <2>2
      <4> HIDE DEF I
      <4> QED
        BY <1>1, <2>2, <3>4, <4>1, SumFacts
    <3>7. h[m] = f[r[m]]
      BY <3>1
    <3> QED
      BY <2>2, <3>2, <3>3, <3>4, <3>5, <3>6, <3>7
  <2> QED
    BY <2>3, <2>4
<1>3. n \in 0..n
  OBVIOUS
<1>4. fine(n)
  <2> HIDE DEF fine
  <2> QED
    BY <1>2, <1>3
<1>5. s = I(n)
  BY DEF Lists
<1> QED
  BY <1>4, <1>5

------------------------------------------------------------------------------
(* The invariant of the mirror *)

DongleIds == 0..(MaxSpawns - 1)
Infos == [level : 0..MAX_LEVEL, pos : Positions]
Boards == UNION {[S -> Infos] : S \in SUBSET DongleIds}

\* Packets of changes and of merges.
PoolPackets == [type : {"pool"}, infos : Boards, board : Boards, score : Nat]
MergePackets == [type : {"merge"}, id : DongleIds]

\* Dongles of the player, objects of the mirror.
Dongles == [level : 0..MAX_LEVEL, pos : Positions, destroyed : BOOLEAN]
Objects == [active : BOOLEAN, id : DongleIds, level : 0..MAX_LEVEL, pos : Positions]

\* What MirrorTypes leaves out.
MirrorData ==
  /\ board \in [DOMAIN board -> Dongles]
  /\ previous \in Boards /\ shown.board \in Boards
  /\ packets \in Seq(PoolPackets \cup MergePackets)
  /\ objects \in Seq(Objects)
  /\ pool \in Seq(Nat) /\ reserve \in Seq(DongleIds)
  /\ enemyMap \in [DOMAIN enemyMap -> Nat] /\ DOMAIN enemyMap \subseteq DongleIds

IsPool(w)  == packets[w].type = "pool"
IsMerge(w) == packets[w].type = "merge"

\* Every id that was sent has been given out.
Numbered ==
  /\ DOMAIN previous \subseteq 0..(curID - 1)
  /\ DOMAIN shown.board \subseteq 0..(curID - 1)
  /\ \A k \in 1..Len(reserve) : reserve[k] < curID
  /\ \A w \in 1..Len(packets) :
       /\ IsMerge(w) => packets[w].id < curID
       /\ IsPool(w) => /\ DOMAIN packets[w].infos \subseteq 0..(curID - 1)
                       /\ DOMAIN packets[w].board \subseteq 0..(curID - 1)

\* An object that is shown belongs to the id it has.
Owned ==
  \A o \in Active : objects[o].id \in DOMAIN enemyMap /\ enemyMap[objects[o].id] = o

\* A dongle in an update is the player's still, or its merge comes behind.
Announced ==
  ~coalesced =>
    \A w \in 1..Len(packets) : IsPool(w) =>
      \A id \in DOMAIN packets[w].infos :
        \/ id \in DOMAIN board
        \/ \E v \in (w + 1)..Len(packets) : IsMerge(v) /\ packets[v].id = id

\* A dongle is merged away once, and in no board after that.
MergedAway ==
  ~coalesced =>
    /\ \A k \in 1..Len(reserve) :
         /\ reserve[k] \notin DOMAIN board
         /\ \A w \in 1..Len(packets) : IsPool(w) => reserve[k] \notin DOMAIN packets[w].board
         /\ \A j \in 1..Len(reserve) : j # k => reserve[j] # reserve[k]
    /\ \A v \in 1..Len(packets) : IsMerge(v) =>
         /\ packets[v].id \notin DOMAIN board
         /\ \A w \in (v + 1)..Len(packets) : IsPool(w) =>
              packets[v].id \notin DOMAIN packets[w].board
         /\ \A w \in 1..Len(packets) : w # v /\ IsMerge(w) => packets[w].id # packets[v].id
         /\ \A k \in 1..Len(reserve) : reserve[k] # packets[v].id

\* The map keeps the ids of dongles that have gone; they do not come back.
Retired ==
  ~Astray =>
    \A id \in DOMAIN enemyMap \ DOMAIN shown.board :
      /\ id \notin DOMAIN board
      /\ \A w \in 1..Len(packets) : IsPool(w) => id \notin DOMAIN packets[w].board

\* The board an update was sent from; 0 is the last one applied.
Snapshot(u) == IF u = 0 THEN shown.board ELSE packets[u].board

\* The player's score then.
ScoreAt(u) == IF u = 0 THEN shown.score ELSE packets[u].score

\* Between u and w only merges were sent, and their ids.
Consecutive(u, w) ==
  /\ u # 0 => IsPool(u)
  /\ \A v \in (u + 1)..(w - 1) : IsMerge(v)

MergesBetween(u, w) ==
  {packets[v].id : v \in (u + 1)..(w - 1)}
    \cup (IF u = 0 THEN {reserve[k] : k \in 1..Len(reserve)} ELSE {})

\* From one snapshot to the next board, only what was merged away is missing.
Lost(snapshot, ids, next) ==
  /\ ids \subseteq DOMAIN snapshot
  /\ DOMAIN snapshot \subseteq DOMAIN next \cup ids

\* An update has what its board has and the one before had not.
Linked ==
  ~Astray =>
    \A w \in 1..Len(packets) : IsPool(w) =>
      /\ DOMAIN packets[w].infos \subseteq DOMAIN packets[w].board
      /\ \A id \in DOMAIN packets[w].infos : packets[w].infos[id] = packets[w].board[id]
      /\ \A u \in 0..(w - 1) : Consecutive(u, w) =>
           /\ Lost(Snapshot(u), MergesBetween(u, w), packets[w].board)
           /\ \A id \in DOMAIN packets[w].board \ DOMAIN packets[w].infos :
                id \in DOMAIN Snapshot(u) /\ Snapshot(u)[id] = packets[w].board[id]

\* The player's board goes on from the last update, of which previous tells.
Current ==
  ~Astray =>
    \A u \in 0..Len(packets) : Consecutive(u, Len(packets) + 1) =>
      /\ Lost(Snapshot(u), MergesBetween(u, Len(packets) + 1), board)
      /\ \A id \in DOMAIN Snapshot(u) : id \in DOMAIN previous /\ previous[id] = Snapshot(u)[id]
      /\ DOMAIN board \cap DOMAIN previous \subseteq DOMAIN Snapshot(u)

\* The objects shown are those of the last snapshot.
Faithful ==
  ~Astray =>
    /\ \A id \in DOMAIN shown.board :
         /\ id \in DOMAIN enemyMap
         /\ objects[enemyMap[id]] = [active |-> TRUE, id |-> id,
                                     level |-> shown.board[id].level,
                                     pos |-> shown.board[id].pos]
    /\ \A o \in Active : objects[o].id \in DOMAIN shown.board
------------------------------------------------------------------------------
\* What a board is.
LEMMA BoardFacts ==
  ASSUME NEW b \in Boards
  PROVE  /\ DOMAIN b \subseteq DongleIds
         /\ b \in [DOMAIN b -> Infos]
         /\ \A id \in DOMAIN b : b[id].level \in 0..MAX_LEVEL /\ b[id].pos \in Positions
         /\ \A id \in DOMAIN b : b[id] = [level |-> b[id].level, pos |-> b[id].pos]
<1>1. PICK S \in SUBSET DongleIds : b \in [S -> Infos]
  BY DEF Boards
<1>2. DOMAIN b = S
  BY <1>1
<1> QED
  BY <1>1, <1>2 DEF Infos

\* The objects that the first loop of an update creates.
Created(infos) == Cardinality(Unknown(infos)) - Taken(infos)

\* Each id that is new to the map gets an object of its own, from the top of the
\* pool or new, and each new object gets an id.
LEMMA MapFacts ==
  ASSUME MirrorTypes, MirrorData, NEW infos \in Boards
  PROVE  /\ Taken(infos) \in 0..Len(pool) /\ Created(infos) \in Nat
         /\ DOMAIN MapWith(infos) = DOMAIN enemyMap \cup DOMAIN infos
         /\ \A id \in DOMAIN enemyMap : MapWith(infos)[id] = enemyMap[id]
         /\ \A id \in Unknown(infos) :
              \/ \E j \in (Len(pool) - Taken(infos) + 1)..Len(pool) :
                   MapWith(infos)[id] = pool[j]
              \/ MapWith(infos)[id] \in (Len(objects) + 1)..(Len(objects) + Created(infos))
         /\ \A x, y \in Unknown(infos) : x # y => MapWith(infos)[x] # MapWith(infos)[y]
         /\ \A o \in (Len(objects) + 1)..(Len(objects) + Created(infos)) :
              \E id \in Unknown(infos) : MapWith(infos)[id] = o
<1> DEFINE U == Unknown(infos)
           N == Cardinality(U)
           Top(k) == IF k <= Len(pool) THEN pool[Len(pool) + 1 - k]
                     ELSE Len(objects) + k - Len(pool)
<1>1. /\ Len(pool) \in Nat /\ Len(objects) \in Nat /\ MaxSpawns \in Nat
      /\ \A k \in 1..Len(pool) : pool[k] \in 1..Len(objects)
      /\ \A j, k \in 1..Len(pool) : j # k => pool[j] # pool[k]
      /\ U \in SUBSET (0..(MaxSpawns - 1)) /\ U \subseteq DOMAIN infos
      /\ \A id \in DOMAIN infos : id \in U \/ id \in DOMAIN enemyMap
      /\ \A id \in U : id \notin DOMAIN enemyMap
  <2>1. DOMAIN infos \subseteq DongleIds
    BY BoardFacts
  <2>2. DOMAIN pool = 1..Len(pool) /\ DOMAIN objects = 1..Len(objects)
        /\ Len(pool) \in Nat /\ Len(objects) \in Nat
    BY DEF MirrorData
  <2> QED
    BY <2>1, <2>2, SpawnAssumption DEF MirrorTypes, Unknown, DongleIds
<1>2. /\ N \in Nat
      /\ \A x \in U : Place(U, x) \in 1..N
      /\ \A x, y \in U : x # y => Place(U, x) # Place(U, y)
      /\ \A k \in 1..N : \E x \in U : Place(U, x) = k
  <2> HIDE DEF U
  <2> QED
    BY <1>1, PlaceFacts
<1>3. /\ Taken(infos) = IF N <= Len(pool) THEN N ELSE Len(pool)
      /\ Created(infos) = N - Taken(infos)
  BY DEF Taken, Created, Min2
<1>4. /\ DOMAIN MapWith(infos) = DOMAIN enemyMap \cup DOMAIN infos
      /\ \A id \in DOMAIN enemyMap : MapWith(infos)[id] = enemyMap[id]
      /\ \A id \in U : MapWith(infos)[id] = Top(Place(U, id))
  BY <1>1 DEF MapWith, ObjectFor, Place
<1> HIDE DEF U, N
<1>5. \A k \in 1..N :
        \/ \E j \in (Len(pool) - Taken(infos) + 1)..Len(pool) : Top(k) = pool[j]
        \/ Top(k) \in (Len(objects) + 1)..(Len(objects) + Created(infos))
  <2> SUFFICES ASSUME NEW k \in 1..N
               PROVE  \/ \E j \in (Len(pool) - Taken(infos) + 1)..Len(pool) : Top(k) = pool[j]
                      \/ Top(k) \in (Len(objects) + 1)..(Len(objects) + Created(infos))
    OBVIOUS
  <2>1. CASE k <= Len(pool)
    <3>1. Len(pool) + 1 - k \in (Len(pool) - Taken(infos) + 1)..Len(pool)
      BY <1>1, <1>2, <1>3, <2>1
    <3> QED
      BY <2>1, <3>1
  <2>2. CASE k > Len(pool)
    <3>1. Top(k) = Len(objects) + k - Len(pool) /\ k \in Nat /\ k <= N /\ k > Len(pool)
      BY <1>1, <1>2, <2>2
    <3>2. Created(infos) = N - Len(pool)
      BY <1>1, <1>2, <1>3, <3>1
    <3> HIDE DEF Top
    <3> QED
      BY <1>1, <1>2, <3>1, <3>2
  <2> QED
    BY <1>1, <2>1, <2>2
<1>6. \A j, k \in 1..N : j # k => Top(j) # Top(k)
  <2> SUFFICES ASSUME NEW j \in 1..N, NEW k \in 1..N, j # k
               PROVE  Top(j) # Top(k)
    OBVIOUS
  <2>1. CASE j <= Len(pool) /\ k <= Len(pool)
    <3>1. /\ Len(pool) + 1 - j \in 1..Len(pool) /\ Len(pool) + 1 - k \in 1..Len(pool)
          /\ Len(pool) + 1 - j # Len(pool) + 1 - k
      BY <1>1, <1>2, <2>1
    <3> QED
      BY <1>1, <2>1, <3>1
  <2>2. CASE j <= Len(pool) /\ k > Len(pool)
    <3>1. Len(pool) + 1 - j \in 1..Len(pool)
      BY <1>1, <1>2, <2>2
    <3>2. Top(j) \in 1..Len(objects)
      BY <1>1, <2>2, <3>1
    <3>3. Top(k) = Len(objects) + k - Len(pool) /\ k \in Nat /\ k > Len(pool)
      BY <1>1, <1>2, <2>2
    <3> HIDE DEF Top
    <3> QED
      BY <1>1, <3>2, <3>3
  <2>3. CASE j > Len(pool) /\ k <= Len(pool)
    <3>1. Len(pool) + 1 - k \in 1..Len(pool)
      BY <1>1, <1>2, <2>3
    <3>2. Top(k) \in 1..Len(objects)
      BY <1>1, <2>3, <3>1
    <3>3. Top(j) = Len(objects) + j - Len(pool) /\ j \in Nat /\ j > Len(pool)
      BY <1>1, <1>2, <2>3
    <3> HIDE DEF Top
    <3> QED
      BY <1>1, <3>2, <3>3
  <2>4. CASE j > Len(pool) /\ k > Len(pool)
    BY <1>1, <1>2, <2>4
  <2> QED
    BY <1>1, <1>2, <2>1, <2>2, <2>3, <2>4
<1>7. \A o \in (Len(objects) + 1)..(Len(objects) + Created(infos)) :
        \E k \in 1..N : Top(k) = o
  <2> SUFFICES ASSUME NEW o \in (Len(objects) + 1)..(Len(objects) + Created(infos))
               PROVE  \E k \in 1..N : Top(k) = o
    OBVIOUS
  <2> DEFINE k == Len(pool) + o - Len(objects)
  <2>1. k \in 1..N /\ k > Len(pool) /\ Len(objects) + k - Len(pool) = o
    <3>1. /\ o \in Int /\ Len(objects) \in Nat /\ Len(pool) \in Nat /\ N \in Nat
          /\ o >= Len(objects) + 1 /\ o <= Len(objects) + Created(infos)
      <4>1. Created(infos) \in Int
        BY <1>1, <1>2, <1>3
      <4> QED
        BY <1>1, <1>2, <4>1
    <3>2. Created(infos) = N - Len(pool)
      BY <1>3, <3>1
    <3> QED
      BY <3>1, <3>2
  <2>2. ~(k <= Len(pool))
    <3>1. k \in Int /\ Len(pool) \in Int /\ k > Len(pool)
      BY <1>1, <2>1
    <3> HIDE DEF k
    <3> QED
      BY <3>1
  <2>3. Top(k) = o
    BY <2>1, <2>2
  <2> HIDE DEF k, Top
  <2> QED
    BY <2>1, <2>3
<1>8. Taken(infos) \in 0..Len(pool) /\ Created(infos) \in Nat
  BY <1>1, <1>2, <1>3
<1> HIDE DEF Top
<1>9. \A o \in (Len(objects) + 1)..(Len(objects) + Created(infos)) :
        \E id \in U : MapWith(infos)[id] = o
  BY <1>2, <1>4, <1>7
<1>10. \A x, y \in U : x # y => MapWith(infos)[x] # MapWith(infos)[y]
  BY <1>2, <1>4, <1>6
<1>11. \A id \in U :
         \/ \E j \in (Len(pool) - Taken(infos) + 1)..Len(pool) : MapWith(infos)[id] = pool[j]
         \/ MapWith(infos)[id] \in (Len(objects) + 1)..(Len(objects) + Created(infos))
  BY <1>2, <1>4, <1>5
<1> QED
  BY <1>4, <1>8, <1>9, <1>10, <1>11 DEF U

------------------------------------------------------------------------------
(* An update, loop by loop *)

\* What the first loop of an update leaves of the objects: those of its ids have
\* their infos and are active if the id is new to the map, the others are as before.
LEMMA ObjectsFacts ==
  ASSUME MirrorTypes, MirrorData, NEW infos \in Boards,
         NEW map, map = MapWith(infos), NEW objs, objs = ObjectsWith(infos, map)
  PROVE  /\ DOMAIN objs = 1..(Len(objects) + Created(infos)) /\ objs \in Seq(Objects)
         /\ \A id \in DOMAIN map : map[id] \in DOMAIN objs
         /\ \A o \in DOMAIN objs : (\A id \in DOMAIN infos : map[id] # o) =>
              o \in DOMAIN objects /\ objs[o] = objects[o]
         /\ \A o \in DOMAIN objs : (\E id \in DOMAIN infos : map[id] = o) =>
              \E id \in DOMAIN infos :
                /\ map[id] = o
                /\ objs[o].id = id
                /\ objs[o].level = infos[id].level /\ objs[o].pos = infos[id].pos
         /\ \A id \in Unknown(infos) : objs[map[id]].active
         /\ \A o \in DOMAIN objs : (\A id \in Unknown(infos) : map[id] # o) =>
              o \in DOMAIN objects /\ objs[o].active = objects[o].active
<1> DEFINE told(o) == {id \in DOMAIN infos : map[id] = o}
           spawned(o) == \E id \in Unknown(infos) : map[id] = o
           row(o) == [active |-> spawned(o) \/ objects[o].active, id |-> Max(told(o)),
                      level |-> infos[Max(told(o))].level, pos |-> infos[Max(told(o))].pos]
           L == Len(objects) + Created(infos)
<1>1. /\ Taken(infos) \in 0..Len(pool) /\ Created(infos) \in Nat
      /\ DOMAIN map = DOMAIN enemyMap \cup DOMAIN infos
      /\ \A id \in DOMAIN enemyMap : map[id] = enemyMap[id]
      /\ \A id \in Unknown(infos) :
           \/ \E j \in (Len(pool) - Taken(infos) + 1)..Len(pool) : map[id] = pool[j]
           \/ map[id] \in (Len(objects) + 1)..L
      /\ \A o \in (Len(objects) + 1)..L : \E id \in Unknown(infos) : map[id] = o
  BY MapFacts
<1>2. /\ DOMAIN infos \subseteq DongleIds /\ Unknown(infos) \subseteq DOMAIN infos
      /\ \A id \in DOMAIN infos : infos[id].level \in 0..MAX_LEVEL /\ infos[id].pos \in Positions
      /\ \A id \in DOMAIN infos : id \in Unknown(infos) \/ id \in DOMAIN enemyMap
  BY BoardFacts DEF Unknown
<1>3. /\ Len(objects) \in Nat /\ DOMAIN objects = 1..Len(objects)
      /\ \A o \in 1..Len(objects) : objects[o] \in Objects
      /\ Len(pool) \in Nat /\ \A k \in 1..Len(pool) : pool[k] \in 1..Len(objects)
      /\ \A id \in DOMAIN enemyMap : enemyMap[id] \in 1..Len(objects)
      /\ MaxSpawns \in Nat
  <2>1. /\ Len(objects) \in Nat /\ DOMAIN objects = 1..Len(objects)
        /\ \A o \in 1..Len(objects) : objects[o] \in Objects
        /\ Len(pool) \in Nat /\ DOMAIN pool = 1..Len(pool)
    BY DEF MirrorData
  <2> QED
    BY <2>1, SpawnAssumption DEF MirrorTypes
<1>4. /\ DOMAIN objs = 1..L
      /\ \A o \in 1..L : objs[o] = IF told(o) = {} THEN objects[o] ELSE row(o)
  <2>1. L = Len(objects) + Cardinality(Unknown(infos)) - Taken(infos)
    <3>1. Cardinality(Unknown(infos)) \in Nat
      <4>1. Unknown(infos) \in SUBSET (0..(MaxSpawns - 1))
        BY <1>2 DEF DongleIds
      <4> QED
        BY <1>3, <4>1, PlaceFacts
    <3> QED
      BY <1>1, <1>3, <3>1 DEF Created
  <2>2. objs = [o \in 1..L |-> IF told(o) = {} THEN objects[o] ELSE row(o)]
    BY <2>1 DEF ObjectsWith
  <2> QED
    BY <2>2
<1>5. \A id \in DOMAIN map : map[id] \in 1..L
  <2> SUFFICES ASSUME NEW id \in DOMAIN map
               PROVE  map[id] \in 1..L
    OBVIOUS
  <2>1. CASE id \in DOMAIN enemyMap
    BY <1>1, <1>3, <2>1
  <2>2. CASE id \in Unknown(infos)
    <3>1. CASE map[id] \in (Len(objects) + 1)..L
      BY <1>1, <1>3, <3>1
    <3>2. CASE \E j \in (Len(pool) - Taken(infos) + 1)..Len(pool) : map[id] = pool[j]
      <4>1. PICK j \in (Len(pool) - Taken(infos) + 1)..Len(pool) : map[id] = pool[j]
        BY <3>2
      <4>2. j \in 1..Len(pool)
        BY <1>1, <1>3
      <4> QED
        BY <1>1, <1>3, <4>1, <4>2
    <3> QED
      BY <1>1, <2>2, <3>1, <3>2
  <2> QED
    BY <1>1, <1>2, <2>1, <2>2
<1>6. \A o \in 1..L : (\A id \in Unknown(infos) : map[id] # o) => o \in 1..Len(objects)
  BY <1>1, <1>3
<1>7. \A o \in 1..L : (\A id \in DOMAIN infos : map[id] # o) =>
        o \in 1..Len(objects) /\ objs[o] = objects[o]
  <2> SUFFICES ASSUME NEW o \in 1..L, \A id \in DOMAIN infos : map[id] # o
               PROVE  o \in 1..Len(objects) /\ objs[o] = objects[o]
    OBVIOUS
  <2>1. told(o) = {}
    OBVIOUS
  <2>2. objs[o] = objects[o]
    BY <1>4, <2>1
  <2> QED
    BY <1>2, <1>6, <2>2
<1>8. \A o \in 1..L : (\E id \in DOMAIN infos : map[id] = o) =>
        \E id \in DOMAIN infos :
          /\ map[id] = o
          /\ objs[o] = [active |-> spawned(o) \/ objects[o].active, id |-> id,
                        level |-> infos[id].level, pos |-> infos[id].pos]
  <2> SUFFICES ASSUME NEW o \in 1..L, \E id \in DOMAIN infos : map[id] = o
               PROVE  \E id \in DOMAIN infos :
                        /\ map[id] = o
                        /\ objs[o] = [active |-> spawned(o) \/ objects[o].active, id |-> id,
                                      level |-> infos[id].level, pos |-> infos[id].pos]
    OBVIOUS
  <2>1. told(o) # {} /\ told(o) \in SUBSET (0..(MaxSpawns - 1))
    BY <1>2 DEF DongleIds
  <2>2. Max(told(o)) \in told(o)
    BY <1>3, <2>1, MaxFacts
  <2>3. objs[o] = row(o)
    BY <1>4, <2>1
  <2>4. Max(told(o)) \in DOMAIN infos /\ map[Max(told(o))] = o
    BY <2>2
  <2> HIDE DEF told
  <2> QED
    BY <2>3, <2>4, Zenon
<1> HIDE DEF told, row
<1>9. \A o \in 1..L : spawned(o) => objs[o].active = TRUE
  <2> SUFFICES ASSUME NEW o \in 1..L, spawned(o)
               PROVE  objs[o].active = TRUE
    OBVIOUS
  <2> DEFINE act == spawned(o) \/ objects[o].active
  <2>1. PICK id \in DOMAIN infos :
          objs[o] = [active |-> act, id |-> id,
                     level |-> infos[id].level, pos |-> infos[id].pos]
    BY <1>2, <1>8
  <2>2. act = TRUE
    <3> HIDE DEF spawned
    <3> QED
      OBVIOUS
  <2>3. objs[o].active = act
    <3> HIDE DEF act
    <3> QED
      BY <2>1
  <2> QED
    BY <2>2, <2>3, Zenon
<1>10. \A o \in 1..L : ~spawned(o) =>
         o \in 1..Len(objects) /\ objs[o].active = objects[o].active
  <2> SUFFICES ASSUME NEW o \in 1..L, ~spawned(o)
               PROVE  o \in 1..Len(objects) /\ objs[o].active = objects[o].active
    OBVIOUS
  <2>1. o \in 1..Len(objects)
    BY <1>6
  <2>2. CASE \A id \in DOMAIN infos : map[id] # o
    BY <1>7, <2>1, <2>2
  <2>3. CASE \E id \in DOMAIN infos : map[id] = o
    <3> DEFINE act == spawned(o) \/ objects[o].active
    <3>1. PICK id \in DOMAIN infos :
            objs[o] = [active |-> act, id |-> id,
                       level |-> infos[id].level, pos |-> infos[id].pos]
      BY <1>8, <2>3
    <3>2. objects[o].active \in BOOLEAN
      BY <1>3, <2>1 DEF Objects
    <3>3. act = objects[o].active
      <4> HIDE DEF spawned
      <4> QED
        BY <3>2
    <3>4. objs[o].active = act
      <4> HIDE DEF act
      <4> QED
        BY <3>1
    <3> QED
      BY <2>1, <3>3, <3>4, Zenon
  <2> QED
    BY <2>2, <2>3
<1>11. \A o \in 1..L : objs[o] \in Objects
  <2> SUFFICES ASSUME NEW o \in 1..L
               PROVE  objs[o] \in Objects
    OBVIOUS
  <2>1. CASE \A id \in DOMAIN infos : map[id] # o
    BY <1>3, <1>7, <2>1
  <2>2. CASE \E id \in DOMAIN infos : map[id] = o
    <3>1. objs[o].active \in BOOLEAN
      <4>1. CASE spawned(o)
        BY <1>9, <4>1
      <4>2. CASE ~spawned(o)
        BY <1>3, <1>10, <4>2 DEF Objects
      <4> QED
        BY <4>1, <4>2
    <3> DEFINE act == spawned(o) \/ objects[o].active
    <3>2. PICK id \in DOMAIN infos :
            objs[o] = [active |-> act, id |-> id,
                       level |-> infos[id].level, pos |-> infos[id].pos]
      BY <1>8, <2>2
    <3> HIDE DEF act
    <3>3. act \in BOOLEAN
      BY <3>1, <3>2
    <3>4. id \in DongleIds /\ infos[id].level \in 0..MAX_LEVEL /\ infos[id].pos \in Positions
      BY <1>2
    <3> QED
      BY <3>2, <3>3, <3>4 DEF Objects
  <2> QED
    BY <2>1, <2>2
<1>12. objs \in Seq(Objects)
  <2>1. objs = [o \in 1..L |-> objs[o]] /\ L \in Nat
    <3>1. objs = [o \in DOMAIN objs |-> objs[o]]
      BY DEF ObjectsWith
    <3> QED
      BY <1>1, <1>3, <1>4, <3>1
  <2> QED
    BY <1>11, <2>1, IsASeq
<1>13. \A o \in 1..L : (\E id \in DOMAIN infos : map[id] = o) =>
         \E id \in DOMAIN infos :
           /\ map[id] = o
           /\ objs[o].id = id
           /\ objs[o].level = infos[id].level /\ objs[o].pos = infos[id].pos
  <2> SUFFICES ASSUME NEW o \in 1..L, \E id \in DOMAIN infos : map[id] = o
               PROVE  \E id \in DOMAIN infos :
                        /\ map[id] = o
                        /\ objs[o].id = id
                        /\ objs[o].level = infos[id].level /\ objs[o].pos = infos[id].pos
    OBVIOUS
  <2> DEFINE act == spawned(o) \/ objects[o].active
  <2>1. PICK id \in DOMAIN infos :
          /\ map[id] = o
          /\ objs[o] = [active |-> act, id |-> id,
                        level |-> infos[id].level, pos |-> infos[id].pos]
    BY <1>8
  <2> HIDE DEF act
  <2> QED
    BY <2>1
<1>14. \A id \in Unknown(infos) : objs[map[id]].active
  <2> SUFFICES ASSUME NEW id \in Unknown(infos)
               PROVE  objs[map[id]].active
    OBVIOUS
  <2>1. map[id] \in 1..L /\ spawned(map[id])
    BY <1>1, <1>2, <1>5
  <2> HIDE DEF spawned
  <2> QED
    BY <1>9, <2>1
<1>15. \A o \in 1..L : (\A id \in Unknown(infos) : map[id] # o) => ~spawned(o)
  OBVIOUS
<1> HIDE DEF spawned
<1> QED
  BY <1>3, <1>4, <1>5, <1>7, <1>10, <1>12, <1>13, <1>14, <1>15

\* Before the place where the second loop stops, every reserved id is in the map,
\* with an active object that no other has.
LEMMA StopFacts ==
  ASSUME reserve \in Seq(DongleIds), NEW map, NEW objs
  PROVE  /\ Stop(map, objs) \in 1..(Len(reserve) + 1)
         /\ \A k \in 1..Len(reserve) : k < Stop(map, objs) => ~Throws(k, map, objs)
         /\ (\A k \in 1..Len(reserve) : ~Throws(k, map, objs)) =>
              Stop(map, objs) = Len(reserve) + 1
<1> DEFINE known(k) == \A j \in 1..(k - 1) : reserve[j] \in DOMAIN map
           S == {Len(reserve) + 1} \cup
                  {k \in 1..Len(reserve) : known(k) /\ Throws(k, map, objs)}
<1>1. Len(reserve) \in Nat /\ S \in SUBSET Nat /\ S # {} /\ S \subseteq 1..(Len(reserve) + 1)
  OBVIOUS
<1>2. Stop(map, objs) = Min(S)
  BY DEF Stop
<1>3. Min(S) \in S /\ \A y \in S : Min(S) <= y
  <2> HIDE DEF S
  <2> QED
    BY <1>1, MinFacts
<1>4. ASSUME NEW k \in 1..Len(reserve), k < Min(S)
      PROVE  known(k)
  <2> SUFFICES ASSUME ~known(k)
               PROVE  FALSE
    OBVIOUS
  <2> DEFINE J == {j \in 1..Len(reserve) : reserve[j] \notin DOMAIN map}
  <2>1. PICK i \in 1..(k - 1) : reserve[i] \notin DOMAIN map
    OBVIOUS
  <2>2. i \in J /\ i < k /\ J \in SUBSET Nat
    BY <1>1, <2>1
  <2>3. PICK m \in J : \A y \in J : m <= y
    <3> HIDE DEF J
    <3> QED
      BY <2>2, LeastNumber
  <2>4. known(m)
    <3> SUFFICES ASSUME NEW j \in 1..(m - 1), reserve[j] \notin DOMAIN map
                 PROVE  FALSE
      OBVIOUS
    <3>1. j \in J /\ j < m
      BY <1>1, <2>3
    <3> QED
      BY <2>3, <3>1
  <2>5. Throws(m, map, objs) /\ m \in 1..Len(reserve)
    BY <2>3 DEF Throws
  <2>6. m \in S
    BY <2>4, <2>5
  <2>7. m <= i /\ i < k /\ k < Min(S) /\ Min(S) <= m
    BY <1>3, <1>4, <2>2, <2>3, <2>6
  <2>8. m \in Int /\ i \in Int /\ k \in Int /\ Min(S) \in Int
    <3>1. m \in Nat
      BY <2>2, <2>3
    <3>2. Min(S) \in Nat
      <4> HIDE DEF S
      <4> QED
        BY <1>1, <1>3
    <3>3. i \in Int /\ k \in Int
      BY <1>1
    <3> QED
      BY <3>1, <3>2, <3>3
  <2> HIDE DEF S
  <2> QED
    BY <2>7, <2>8
<1>5. ASSUME NEW k \in 1..Len(reserve), k < Min(S)
      PROVE  ~Throws(k, map, objs)
  <2> SUFFICES ASSUME Throws(k, map, objs)
               PROVE  FALSE
    OBVIOUS
  <2>1. k \in S
    BY <1>4, <1>5
  <2>2. Min(S) <= k /\ k < Min(S) /\ k \in Int /\ Min(S) \in Int
    BY <1>1, <1>3, <1>5, <2>1
  <2> HIDE DEF S
  <2> QED
    BY <2>2
<1>6. ASSUME \A k \in 1..Len(reserve) : ~Throws(k, map, objs)
      PROVE  Min(S) = Len(reserve) + 1
  BY <1>3, <1>6
<1> HIDE DEF S
<1> QED
  BY <1>1, <1>2, <1>3, <1>5, <1>6

\* What is taken from the line of packets, and what is added to it.
LEMMA PacketTaken ==
  ASSUME MirrorData, packets # <<>>, packets' = Tail(packets)
  PROVE  /\ Len(packets) \in Nat /\ Len(packets) > 0 /\ Head(packets) = packets[1]
         /\ packets[1] \in PoolPackets \cup MergePackets
         /\ packets' \in Seq(PoolPackets \cup MergePackets)
         /\ Len(packets') = Len(packets) - 1
         /\ \A w \in 1..(Len(packets) - 1) : packets'[w] = packets[w + 1]
<1>1. packets \in Seq(PoolPackets \cup MergePackets)
  BY DEF MirrorData
<1>2. Len(packets) \in Nat /\ Len(packets) > 0 /\ Head(packets) = packets[1]
      /\ Tail(packets) \in Seq(PoolPackets \cup MergePackets)
  BY <1>1, EmptySeq, HeadTailProperties
<1> QED
  BY <1>1, <1>2

\* What a packet sent leaves of the line.
LEMMA PacketSent ==
  ASSUME MirrorData, NEW p \in PoolPackets \cup MergePackets, packets' = Append(packets, p)
  PROVE  /\ packets' \in Seq(PoolPackets \cup MergePackets)
         /\ Len(packets) \in Nat /\ Len(packets') = Len(packets) + 1
         /\ \A w \in 1..Len(packets) : packets'[w] = packets[w]
         /\ packets'[Len(packets) + 1] = p
BY DEF MirrorData

\* A packet is what its type says.
LEMMA PacketFacts ==
  ASSUME MirrorData, NEW w \in 1..Len(packets)
  PROVE  /\ IsPool(w) \/ IsMerge(w)
         /\ ~(IsPool(w) /\ IsMerge(w))
         /\ IsPool(w) => packets[w].infos \in Boards /\ packets[w].board \in Boards
         /\ IsMerge(w) => packets[w].id \in DongleIds
<1>1. packets[w] \in PoolPackets \cup MergePackets
  BY DEF MirrorData
<1> QED
  BY <1>1 DEF IsPool, IsMerge, PoolPackets, MergePackets

\* An update: the map and the objects after its first loop, where its second loop
\* stops, and what that has released.
AppliedMap == MapWith(packets[1].infos)
AppliedObjects == ObjectsWith(packets[1].infos, AppliedMap)
StopAt == Stop(AppliedMap, AppliedObjects)
Released(o) == \E k \in 1..Len(reserve) : k < StopAt /\ AppliedMap[reserve[k]] = o

\* What UpdateDongle does, in these terms.
LEMMA UpdateFacts ==
  ASSUME MirrorTypes, MirrorData, UpdateDongle
  PROVE  /\ Len(packets) \in Nat /\ Len(packets) > 0 /\ IsPool(1)
         /\ packets[1].infos \in Boards /\ packets[1].board \in Boards
         /\ packets' \in Seq(PoolPackets \cup MergePackets)
         /\ Len(packets') = Len(packets) - 1
         /\ \A w \in 1..(Len(packets) - 1) : packets'[w] = packets[w + 1]
         /\ shown'.board = packets[1].board /\ shown'.score = packets[1].score
         /\ enemyMap' = AppliedMap
         /\ objects' \in Seq(Objects) /\ DOMAIN objects' = DOMAIN AppliedObjects
         /\ \A o \in DOMAIN AppliedObjects :
              /\ objects'[o].active <=> AppliedObjects[o].active /\ ~Released(o)
              /\ objects'[o].id = AppliedObjects[o].id
              /\ objects'[o].level = AppliedObjects[o].level
              /\ objects'[o].pos = AppliedObjects[o].pos
         /\ StopAt \in 1..(Len(reserve) + 1)
         /\ reserve' = IF StopAt <= Len(reserve) THEN reserve ELSE <<>>
         /\ pool' = PoolWith(packets[1].infos)
                      \o [k \in 1..(StopAt - 1) |-> AppliedMap[reserve[k]]]
         /\ UNCHANGED <<player, coalesced, unseen>>
<1> DEFINE gone == [k \in 1..(StopAt - 1) |-> AppliedMap[reserve[k]]]
<1>1. /\ packets # <<>> /\ Head(packets).type = "pool" /\ packets' = Tail(packets)
      /\ UNCHANGED <<player, coalesced, unseen>>
  BY DEF UpdateDongle, merged
<1>2. /\ Len(packets) \in Nat /\ Len(packets) > 0 /\ Head(packets) = packets[1]
      /\ packets' \in Seq(PoolPackets \cup MergePackets)
      /\ Len(packets') = Len(packets) - 1
      /\ \A w \in 1..(Len(packets) - 1) : packets'[w] = packets[w + 1]
  BY <1>1, PacketTaken
<1>3. IsPool(1) /\ packets[1].infos \in Boards /\ packets[1].board \in Boards
  BY <1>1, <1>2, PacketFacts DEF IsPool
<1>4. /\ enemyMap' = AppliedMap
      /\ objects' = [o \in DOMAIN AppliedObjects |->
                       [AppliedObjects[o] EXCEPT !.active = @ /\ o \notin Range(gone)]]
      /\ pool' = PoolWith(packets[1].infos) \o gone
      /\ reserve' = Cleared(StopAt)
      /\ shown' = [board |-> packets[1].board, score |-> packets[1].score]
  BY <1>2 DEF UpdateDongle, AppliedMap, AppliedObjects, StopAt
<1>5. reserve \in Seq(DongleIds) /\ Len(reserve) \in Nat /\ StopAt \in 1..(Len(reserve) + 1)
  BY StopFacts DEF MirrorData, StopAt
<1>6. \A o : o \in Range(gone) <=> Released(o)
  <2> SUFFICES ASSUME NEW o
               PROVE  o \in Range(gone) <=> Released(o)
    OBVIOUS
  <2>1. Range(gone) = {AppliedMap[reserve[k]] : k \in 1..(StopAt - 1)}
    BY DEF Range
  <2>2. \A k : k \in 1..(StopAt - 1) <=> k \in 1..Len(reserve) /\ k < StopAt
    BY <1>5
  <2> HIDE DEF gone
  <2> QED
    BY <2>1, <2>2 DEF Released
<1>7. /\ AppliedObjects \in Seq(Objects)
      /\ DOMAIN AppliedObjects = 1..(Len(objects) + Created(packets[1].infos))
      /\ Len(objects) + Created(packets[1].infos) \in Nat
  <2>1. Created(packets[1].infos) \in Nat
    BY <1>3, MapFacts
  <2>2. Len(objects) \in Nat
    BY DEF MirrorData
  <2> QED
    BY <1>3, <2>1, <2>2, ObjectsFacts DEF AppliedObjects, AppliedMap
<1> HIDE DEF gone
<1>8. \A o \in DOMAIN AppliedObjects :
        /\ objects'[o].active <=> AppliedObjects[o].active /\ ~Released(o)
        /\ objects'[o].id = AppliedObjects[o].id
        /\ objects'[o].level = AppliedObjects[o].level
        /\ objects'[o].pos = AppliedObjects[o].pos
        /\ objects'[o] \in Objects
  <2> SUFFICES ASSUME NEW o \in DOMAIN AppliedObjects
               PROVE  /\ objects'[o].active <=> AppliedObjects[o].active /\ ~Released(o)
                      /\ objects'[o].id = AppliedObjects[o].id
                      /\ objects'[o].level = AppliedObjects[o].level
                      /\ objects'[o].pos = AppliedObjects[o].pos
                      /\ objects'[o] \in Objects
    OBVIOUS
  <2> DEFINE row == AppliedObjects[o]
             act == row.active /\ o \notin Range(gone)
  <2>1. row \in Objects
    BY <1>7
  <2>2. objects'[o] = [row EXCEPT !.active = act]
    BY <1>4
  <2>3. act \in BOOLEAN
    BY <2>1 DEF Objects
  <2>4. act <=> row.active /\ ~Released(o)
    BY <1>6
  <2> HIDE DEF act, row
  <2>5. /\ objects'[o].active = act /\ objects'[o].id = row.id
        /\ objects'[o].level = row.level /\ objects'[o].pos = row.pos
        /\ objects'[o] \in Objects
    BY <2>1, <2>2, <2>3 DEF Objects
  <2> QED
    BY <2>4, <2>5 DEF row
<1>9. objects' \in Seq(Objects) /\ DOMAIN objects' = DOMAIN AppliedObjects
  <2>1. /\ DOMAIN objects' = DOMAIN AppliedObjects
        /\ objects' = [o \in DOMAIN AppliedObjects |-> objects'[o]]
    BY <1>4
  <2> QED
    BY <1>7, <1>8, <2>1, IsASeq
<1> QED
  BY <1>1, <1>2, <1>3, <1>4, <1>5, <1>8, <1>9 DEF Cleared, gone

------------------------------------------------------------------------------
(* The player's steps *)

\* The points for a merge are a number.
LEMMA PointsType == \A level \in Nat : Points(level) \in Nat
<1> SUFFICES ASSUME NEW level \in Nat
             PROVE  Points(level) \in Nat
  OBVIOUS
<1> DEFINE product == (level + 1) * (level + 2)
<1>1. product \in Nat
  OBVIOUS
<1> HIDE DEF product
<1>2. product \div 2 \in Nat
  BY <1>1
<1> QED
  BY <1>2 DEF Points, product

\* The steps of the player that send nothing and merge nothing.
Quiet ==
  \/ StartGame \/ EndGame \/ DropDongle \/ SpawnDongleRoutine
  \/ \E p \in Positions : Move(p) \/ \E a \in DOMAIN board : Physics(a, p)

\* A dongle is added under an id that was not given out yet.
LEMMA SpawnFacts ==
  ASSUME MirrorTypes, MirrorData, NEW level \in 0..MAX_LEVEL, SpawnDongle(level)
  PROVE  /\ curID' = curID + 1 /\ curID' \in 0..MaxSpawns
         /\ cur' \in DOMAIN board'
         /\ DOMAIN board' = DOMAIN board \cup {curID}
         /\ board' \in [DOMAIN board' -> Dongles]
<1> DEFINE new == [id \in {curID} |-> [level |-> level, pos |-> hand, destroyed |-> FALSE]]
<1>1. /\ curID < MaxSpawns /\ cur' = curID /\ curID' = curID + 1
      /\ board' = With(board, new)
  BY DEF SpawnDongle
<1>2. /\ board' = [x \in DOMAIN board \cup {curID} |-> IF x = curID THEN new[x] ELSE board[x]]
      /\ new[curID] \in Dongles
  BY <1>1 DEF With, MirrorTypes, Dongles
<1>3. curID \in Nat /\ MaxSpawns \in Nat /\ \A id \in DOMAIN board : board[id] \in Dongles
  BY SpawnAssumption DEF MirrorTypes, MirrorData
<1> HIDE DEF new
<1> QED
  BY <1>1, <1>2, <1>3

\* What these steps do to the state.
LEMMA QuietFacts ==
  ASSUME MirrorTypes, MirrorData, Quiet
  PROVE  /\ UNCHANGED <<previous, packets, mirror, coalesced, unseen, shown>>
         /\ curID \in Nat /\ curID' \in Nat /\ curID <= curID' /\ curID' <= MaxSpawns
         /\ MaxSpawns \in Nat
         /\ DOMAIN board \subseteq DOMAIN board'
         /\ \A id \in DOMAIN board' : id \in DOMAIN board \/ (id = curID /\ curID' = curID + 1)
         /\ board' \in [DOMAIN board' -> Dongles]
         /\ cur' \in DOMAIN board' \cup {NoDongle}
         /\ hand' \in Positions /\ phase' \in {"before", "playing", "over"}
         /\ routine' \in {"off", "on", "dead"} /\ score' \in Nat
<1>1. /\ curID \in Nat /\ curID <= MaxSpawns /\ MaxSpawns \in Nat /\ MAX_LEVEL \in Nat
      /\ SpawnLevels \subseteq 0..MAX_LEVEL
      /\ board \in [DOMAIN board -> Dongles] /\ cur \in DOMAIN board \cup {NoDongle}
      /\ hand \in Positions /\ phase \in {"before", "playing", "over"}
      /\ routine \in {"off", "on", "dead"} /\ score \in Nat
  BY SpawnAssumption, LevelAssumption DEF MirrorTypes, MirrorData
<1>2. CASE StartGame
  <2>1. /\ SpawnDongle(0) /\ phase' = "playing" /\ routine' = "on"
        /\ UNCHANGED <<hand, previous, score, packets, mirror, coalesced, unseen, shown>>
    BY <1>2 DEF StartGame, merged
  <2>2. 0 \in 0..MAX_LEVEL
    BY <1>1
  <2> QED
    BY <1>1, <2>1, <2>2, SpawnFacts
<1>3. CASE SpawnDongleRoutine
  <2>1. PICK level \in SpawnLevels : SpawnDongle(level)
    BY <1>3 DEF SpawnDongleRoutine
  <2>2. UNCHANGED <<phase, routine, hand, previous, score, packets, mirror, coalesced,
                    unseen, shown>>
    BY <1>3 DEF SpawnDongleRoutine, merged
  <2>3. level \in 0..MAX_LEVEL
    BY <1>1
  <2> QED
    BY <1>1, <2>1, <2>2, <2>3, SpawnFacts
<1>4. CASE EndGame
  <2>1. /\ phase' = "over"
        /\ UNCHANGED <<routine, hand, cur, curID, board, score, previous, packets, mirror,
                       coalesced, unseen, shown>>
    BY <1>4 DEF EndGame, merged
  <2>2. board' \in [DOMAIN board' -> Dongles] /\ DOMAIN board' = DOMAIN board
    BY <1>1, <2>1
  <2> QED
    BY <1>1, <2>1, <2>2
<1>5. CASE DropDongle
  <2>1. /\ cur # NoDongle /\ board' = [board EXCEPT ![cur].pos = hand] /\ cur' = NoDongle
        /\ UNCHANGED <<phase, routine, hand, curID, previous, score, packets, mirror, coalesced,
                       unseen, shown>>
    BY <1>5 DEF DropDongle, merged
  <2>2. board' \in [DOMAIN board' -> Dongles] /\ DOMAIN board' = DOMAIN board
    BY <1>1, <2>1 DEF Dongles
  <2> QED
    BY <1>1, <2>1, <2>2
<1>6. ASSUME NEW p \in Positions, Move(p)
      PROVE  /\ hand' \in Positions
             /\ UNCHANGED <<phase, routine, cur, curID, board, previous, score, packets, mirror,
                            coalesced, unseen, shown>>
  BY <1>6 DEF Move, merged
<1>7. ASSUME NEW p \in Positions, NEW a \in DOMAIN board, Physics(a, p)
      PROVE  /\ board' \in [DOMAIN board -> Dongles]
             /\ UNCHANGED <<phase, routine, hand, cur, curID, previous, score, packets, mirror,
                            coalesced, unseen, shown>>
  <2>1. board' = [board EXCEPT ![a].pos = p]
        /\ UNCHANGED <<phase, routine, hand, cur, curID, previous, score, packets, mirror,
                       coalesced, unseen, shown>>
    BY <1>7 DEF Physics, merged
  <2> QED
    BY <1>1, <2>1 DEF Dongles
<1>8. CASE \E p \in Positions : Move(p)
  <2>1. /\ hand' \in Positions
        /\ UNCHANGED <<phase, routine, cur, curID, board, previous, score, packets, mirror,
                       coalesced, unseen, shown>>
    BY <1>6, <1>8
  <2>2. board' \in [DOMAIN board' -> Dongles] /\ DOMAIN board' = DOMAIN board
    BY <1>1, <2>1
  <2> QED
    BY <1>1, <2>1, <2>2
<1>9. CASE \E p \in Positions, a \in DOMAIN board : Physics(a, p)
  <2>1. PICK p \in Positions, a \in DOMAIN board : Physics(a, p)
    BY <1>9
  <2>2. /\ board' \in [DOMAIN board -> Dongles]
        /\ UNCHANGED <<phase, routine, hand, cur, curID, previous, score, packets, mirror,
                       coalesced, unseen, shown>>
    BY <1>7, <2>1
  <2>3. board' \in [DOMAIN board' -> Dongles] /\ DOMAIN board' = DOMAIN board
    BY <2>2
  <2> QED
    BY <1>1, <2>2, <2>3
<1> QED
  BY <1>2, <1>3, <1>4, <1>5, <1>8, <1>9 DEF Quiet

\* A merge: b leaves the board, and its id is sent.
LEMMA MergeFacts ==
  ASSUME MirrorTypes, MirrorData,
         NEW p \in Positions, NEW a \in DOMAIN board, NEW b \in DOMAIN board, Merge(a, b, p)
  PROVE  /\ packets' = Append(packets, [type |-> "merge", id |-> b])
         /\ [type |-> "merge", id |-> b] \in MergePackets
         /\ DOMAIN board' = DOMAIN board \ {b} /\ b \in DOMAIN board
         /\ board' \in [DOMAIN board' -> Dongles]
         /\ cur' \in DOMAIN board' \cup {NoDongle} /\ score' \in Nat
         /\ unseen' = (unseen \/ b \notin DOMAIN previous)
         /\ UNCHANGED <<phase, routine, hand, curID, previous, mirror, coalesced, shown>>
<1> DEFINE risen == [level     |-> Min2(board[a].level + 1, MAX_LEVEL),
                     pos       |-> p,
                     destroyed |-> board[a].level = MAX_LEVEL]
<1>1. /\ Dropped(a) /\ Dropped(b) /\ a # b
      /\ board' = Without([board EXCEPT ![a] = risen], b)
      /\ score' = score + Points(board[b].level)
      /\ packets' = Append(packets, [type |-> "merge", id |-> b])
      /\ unseen' = (unseen \/ b \notin DOMAIN previous)
      /\ UNCHANGED <<phase, routine, hand, cur, curID, previous, mirror, coalesced, shown>>
  BY DEF Merge, MergeInto
<1>2. /\ MAX_LEVEL \in Nat /\ curID \in Nat /\ curID <= MaxSpawns /\ MaxSpawns \in Nat
      /\ DOMAIN board \subseteq 0..(curID - 1)
      /\ \A id \in DOMAIN board : board[id] \in Dongles
      /\ cur \in DOMAIN board \cup {NoDongle} /\ score \in Nat
  <2>1. board \in [DOMAIN board -> Dongles]
    BY DEF MirrorData
  <2>2. \A id \in DOMAIN board : board[id] \in Dongles
    BY <2>1
  <2> QED
    BY <2>2, SpawnAssumption, LevelAssumption DEF MirrorTypes
<1>3. risen \in Dongles
  BY <1>2 DEF Dongles, Min2
<1> HIDE DEF risen
<1>4. /\ board' = [id \in DOMAIN board \ {b} |-> IF id = a THEN risen ELSE board[id]]
  BY <1>1 DEF Without, Restrict
<1>5. board' \in [DOMAIN board' -> Dongles] /\ DOMAIN board' = DOMAIN board \ {b}
  BY <1>2, <1>3, <1>4
<1>6. score' \in Nat
  <2>1. board[b].level \in Nat
    BY <1>2 DEF Dongles
  <2> QED
    BY <1>1, <1>2, <2>1, PointsType
<1>7. cur' \in DOMAIN board' \cup {NoDongle}
  BY <1>1, <1>2, <1>5 DEF Dropped
<1>8. [type |-> "merge", id |-> b] \in MergePackets
  BY <1>2 DEF MergePackets, DongleIds
<1> QED
  BY <1>1, <1>5, <1>6, <1>7, <1>8

\* What the coroutine sends: the board as it is, and what of it has changed.
LEMMA SendFacts ==
  ASSUME MirrorTypes, MirrorData, SendDonglePool
  PROVE  LET p == [type |-> "pool", infos |-> Restrict(Board, Changed), board |-> Board,
                   score |-> score]
         IN  /\ packets' = Append(packets, p) /\ p \in PoolPackets
             /\ DOMAIN Board = DOMAIN board /\ Board \in Boards
             /\ Changed \subseteq DOMAIN board
             /\ DOMAIN p.infos = Changed /\ \A id \in Changed : p.infos[id] = Board[id]
             /\ previous' \in Boards /\ DOMAIN previous' = DOMAIN previous \cup Changed
             /\ \A id \in DOMAIN board : previous'[id] = Board[id]
             /\ \A id \in DOMAIN board \ Changed : id \in DOMAIN previous /\ previous[id] = Board[id]
             /\ UNCHANGED <<phase, routine, hand, cur, curID, board, score, mirror,
                            coalesced, unseen, shown>>
<1> DEFINE infos == Restrict(Board, Changed)
           p == [type |-> "pool", infos |-> infos, board |-> Board, score |-> score]
<1>1. /\ packets' = Append(packets, p)
      /\ previous' = With(previous, [id \in Changed |-> Info(id)])
      /\ UNCHANGED <<phase, routine, hand, cur, curID, board, score, mirror,
                     coalesced, unseen, shown>>
  BY DEF SendDonglePool, merged
<1>2. /\ curID \in Nat /\ curID <= MaxSpawns /\ MaxSpawns \in Nat
      /\ DOMAIN board \subseteq 0..(curID - 1) /\ hand \in Positions /\ score \in Nat
      /\ \A id \in DOMAIN board : board[id].level \in 0..MAX_LEVEL /\ board[id].pos \in Positions
      /\ previous \in Boards
  BY SpawnAssumption DEF MirrorTypes, MirrorData
<1>3. \A id \in DOMAIN board : Info(id) \in Infos
  BY <1>2 DEF Info, Infos
<1>4. /\ DOMAIN Board = DOMAIN board /\ DOMAIN board \in SUBSET DongleIds
      /\ Board \in [DOMAIN board -> Infos]
      /\ \A id \in DOMAIN board : Board[id] = Info(id)
  BY <1>2, <1>3 DEF Board, DongleIds
<1>5. Board \in Boards
  BY <1>4 DEF Boards
<1>6. Changed \subseteq DOMAIN board
  BY DEF Changed
<1>7. DOMAIN infos = Changed /\ \A id \in Changed : infos[id] = Board[id]
  BY DEF Restrict
<1>8. infos \in Boards
  <2>1. infos \in [Changed -> Infos]
    BY <1>4, <1>6 DEF Restrict
  <2>2. Changed \in SUBSET DongleIds
    BY <1>4, <1>6
  <2> QED
    BY <2>1, <2>2 DEF Boards
<1>9. /\ DOMAIN previous' = DOMAIN previous \cup Changed
      /\ \A id \in Changed : previous'[id] = Info(id)
      /\ \A id \in DOMAIN previous \ Changed : previous'[id] = previous[id]
      /\ previous' = [id \in DOMAIN previous \cup Changed |-> previous'[id]]
  BY <1>1 DEF With
<1>10. previous' \in Boards
  <2>1. DOMAIN previous \subseteq DongleIds /\ \A id \in DOMAIN previous : previous[id] \in Infos
    BY <1>2, BoardFacts
  <2>2. DOMAIN previous \cup Changed \in SUBSET DongleIds
    BY <1>4, <1>6, <2>1
  <2>3. previous' \in [DOMAIN previous \cup Changed -> Infos]
    BY <1>3, <1>6, <1>9, <2>1
  <2> QED
    BY <2>2, <2>3 DEF Boards
<1>11. \A id \in DOMAIN board \ Changed : id \in DOMAIN previous /\ previous[id] = Board[id]
  <2> SUFFICES ASSUME NEW id \in DOMAIN board \ Changed
               PROVE  id \in DOMAIN previous /\ previous[id] = Board[id]
    OBVIOUS
  <2>1. id \in DOMAIN previous /\ DongleInfoEquals(previous[id], Info(id))
    BY DEF Changed
  <2>2. previous[id] = [level |-> previous[id].level, pos |-> previous[id].pos]
    BY <1>2, <2>1, BoardFacts
  <2>3. Info(id) = [level |-> Info(id).level, pos |-> Info(id).pos]
    BY DEF Info
  <2> QED
    BY <1>4, <2>1, <2>2, <2>3 DEF DongleInfoEquals
<1>12. \A id \in DOMAIN board : previous'[id] = Board[id]
  BY <1>4, <1>9, <1>11
<1>13. p \in PoolPackets
  BY <1>2, <1>5, <1>8 DEF PoolPackets
<1> QED
  BY <1>1, <1>4, <1>5, <1>6, <1>7, <1>9, <1>10, <1>11, <1>12, <1>13

\* All steps.
LEMMA MirrorSteps ==
  ASSUME [MirrorNext]_mirrorVars
  PROVE  \/ Quiet
         \/ \E p \in Positions, a, b \in DOMAIN board : Merge(a, b, p)
         \/ SendDonglePool \/ SendDonglePoolThrows
         \/ \E k \in 1..Len(packets) : ReceiveTwo(k)
         \/ UpdateDongle \/ DeleteDongle
         \/ UNCHANGED mirrorVars
BY DEF MirrorNext, Game, Coroutine, Update, Quiet

\* What the second loop has gone through: ids of the map, of active objects, each
\* with its own.
LEMMA ReleasedFacts ==
  ASSUME MirrorTypes, MirrorData, UpdateDongle
  PROVE  \A k \in 1..Len(reserve) : k < StopAt =>
           /\ reserve[k] \in DOMAIN AppliedMap
           /\ AppliedMap[reserve[k]] \in DOMAIN AppliedObjects
           /\ AppliedObjects[AppliedMap[reserve[k]]].active
           /\ \A j \in 1..(k - 1) : AppliedMap[reserve[j]] # AppliedMap[reserve[k]]
<1>1. packets[1].infos \in Boards
  BY UpdateFacts
<1>2. \A id \in DOMAIN AppliedMap : AppliedMap[id] \in DOMAIN AppliedObjects
  BY <1>1, ObjectsFacts DEF AppliedObjects, AppliedMap
<1>3. \A k \in 1..Len(reserve) : k < StopAt => ~Throws(k, AppliedMap, AppliedObjects)
  BY StopFacts DEF MirrorData, StopAt
<1> QED
  BY <1>2, <1>3 DEF Throws

\* The pool after an update.
LEMMA PoolStep ==
  ASSUME MirrorTypes, MirrorData, UpdateDongle
  PROVE  /\ pool' \in Seq(Nat)
         /\ \A k \in DOMAIN pool' :
              /\ pool'[k] \in DOMAIN objects' /\ ~objects'[pool'[k]].active
              /\ \A j \in DOMAIN pool' : pool'[j] = pool'[k] => j = k
<1> DEFINE infos == packets[1].infos
           left == Len(pool) - Taken(infos)
           gone == [k \in 1..(StopAt - 1) |-> AppliedMap[reserve[k]]]
<1>1. /\ infos \in Boards /\ DOMAIN objects' = DOMAIN AppliedObjects
      /\ StopAt \in 1..(Len(reserve) + 1) /\ Len(reserve) \in Nat
      /\ pool' = PoolWith(infos) \o gone
      /\ \A o \in DOMAIN AppliedObjects :
           objects'[o].active <=> AppliedObjects[o].active /\ ~Released(o)
  <2>1. Len(reserve) \in Nat
    BY DEF MirrorData
  <2> QED
    BY <2>1, UpdateFacts
<1>2. /\ Taken(infos) \in 0..Len(pool) /\ Created(infos) \in Nat
      /\ \A id \in Unknown(infos) :
           \/ \E j \in (Len(pool) - Taken(infos) + 1)..Len(pool) : AppliedMap[id] = pool[j]
           \/ AppliedMap[id] \in (Len(objects) + 1)..(Len(objects) + Created(infos))
  BY <1>1, MapFacts DEF AppliedMap
<1>3. /\ DOMAIN AppliedObjects = 1..(Len(objects) + Created(infos))
      /\ \A o \in DOMAIN AppliedObjects : (\A id \in Unknown(infos) : AppliedMap[id] # o) =>
           o \in DOMAIN objects /\ AppliedObjects[o].active = objects[o].active
  BY <1>1, ObjectsFacts DEF AppliedObjects, AppliedMap
<1>4. /\ pool \in Seq(Nat) /\ Len(pool) \in Nat /\ Len(objects) \in Nat
      /\ \A k \in 1..Len(pool) : pool[k] \in 1..Len(objects) /\ ~objects[pool[k]].active
      /\ \A j, k \in 1..Len(pool) : pool[j] = pool[k] => j = k
  <2>1. /\ pool \in Seq(Nat) /\ DOMAIN pool = 1..Len(pool) /\ DOMAIN objects = 1..Len(objects)
        /\ Len(pool) \in Nat /\ Len(objects) \in Nat
    BY DEF MirrorData
  <2> QED
    BY <2>1 DEF MirrorTypes
<1>5. /\ left \in 0..Len(pool) /\ StopAt - 1 \in Nat
  BY <1>1, <1>2, <1>4
<1>6. /\ PoolWith(infos) \in Seq(Nat) /\ Len(PoolWith(infos)) = left
      /\ \A k \in 1..left : PoolWith(infos)[k] = pool[k]
  BY <1>4, <1>5, SubSeqProperties DEF PoolWith
<1>7. /\ gone \in Seq(Nat) /\ Len(gone) = StopAt - 1
      /\ \A k \in 1..(StopAt - 1) :
           /\ gone[k] \in DOMAIN AppliedObjects /\ AppliedObjects[gone[k]].active
           /\ Released(gone[k])
           /\ \A j \in 1..(k - 1) : gone[j] # gone[k]
  <2>1. \A k \in 1..(StopAt - 1) : k \in 1..Len(reserve) /\ k < StopAt
    BY <1>1
  <2>2. \A k \in 1..(StopAt - 1) :
          /\ AppliedMap[reserve[k]] \in DOMAIN AppliedObjects
          /\ AppliedObjects[AppliedMap[reserve[k]]].active
          /\ Released(AppliedMap[reserve[k]])
          /\ \A j \in 1..(k - 1) : AppliedMap[reserve[j]] # AppliedMap[reserve[k]]
    BY <2>1, ReleasedFacts DEF Released
  <2>3. \A k \in 1..(StopAt - 1) : AppliedMap[reserve[k]] \in Nat
    BY <1>2, <1>3, <1>4, <2>2
  <2>4. gone \in Seq(Nat) /\ Len(gone) = StopAt - 1
    BY <1>5, <2>3
  <2>5. \A k \in 1..(StopAt - 1) : \A j \in 1..(k - 1) : j \in 1..(StopAt - 1)
    BY <1>5
  <2> QED
    BY <2>2, <2>4, <2>5
<1>8. \A k \in 1..left :
        /\ pool[k] \in DOMAIN AppliedObjects /\ ~AppliedObjects[pool[k]].active
        /\ k \in 1..Len(pool)
  <2> SUFFICES ASSUME NEW k \in 1..left
               PROVE  /\ pool[k] \in DOMAIN AppliedObjects /\ ~AppliedObjects[pool[k]].active
                      /\ k \in 1..Len(pool)
    OBVIOUS
  <2>1. k \in 1..Len(pool) /\ pool[k] \in 1..Len(objects) /\ ~objects[pool[k]].active
    BY <1>4, <1>5
  <2>2. pool[k] \in DOMAIN AppliedObjects
    BY <1>2, <1>3, <1>4, <2>1
  <2>3. ASSUME NEW id \in Unknown(infos), AppliedMap[id] = pool[k]
        PROVE  FALSE
    <3>1. PICK j \in (Len(pool) - Taken(infos) + 1)..Len(pool) : AppliedMap[id] = pool[j]
      <4>1. pool[k] \notin (Len(objects) + 1)..(Len(objects) + Created(infos))
        BY <1>4, <2>1
      <4> QED
        BY <1>2, <2>3, <4>1
    <3>2. j \in 1..Len(pool) /\ j # k
      BY <1>2, <1>4
    <3> QED
      BY <1>4, <2>1, <2>3, <3>1, <3>2
  <2>4. AppliedObjects[pool[k]].active = objects[pool[k]].active
    BY <1>3, <2>2, <2>3
  <2> QED
    BY <2>1, <2>2, <2>4
<1> HIDE DEF left, gone
<1>9. /\ pool' \in Seq(Nat) /\ Len(pool') = left + (StopAt - 1)
      /\ \A k \in 1..left : pool'[k] = pool[k]
      /\ \A k \in (left + 1)..(left + (StopAt - 1)) :
           pool'[k] = gone[k - left] /\ k - left \in 1..(StopAt - 1)
  <2>1. /\ pool' \in Seq(Nat) /\ Len(pool') = left + (StopAt - 1)
        /\ \A k \in 1..(left + (StopAt - 1)) :
             pool'[k] = IF k <= left THEN PoolWith(infos)[k] ELSE gone[k - left]
    <3> DEFINE s == PoolWith(infos)
    <3>1. pool' = s \o gone /\ s \in Seq(Nat) /\ gone \in Seq(Nat)
          /\ Len(s) = left /\ Len(gone) = StopAt - 1
      BY <1>1, <1>6, <1>7
    <3> HIDE DEF s
    <3>2. /\ s \o gone \in Seq(Nat)
          /\ Len(s \o gone) = Len(s) + Len(gone)
          /\ \A k \in 1..(Len(s) + Len(gone)) :
               (s \o gone)[k] = IF k <= Len(s) THEN s[k] ELSE gone[k - Len(s)]
      BY <3>1, ConcatProperties, Zenon
    <3> QED
      BY <3>1, <3>2 DEF s
  <2>2. left \in Nat /\ StopAt - 1 \in Nat
    BY <1>5 DEF left
  <2>3. \A k \in 1..left : pool'[k] = pool[k]
    BY <1>6, <2>1, <2>2
  <2>4. \A k \in (left + 1)..(left + (StopAt - 1)) :
          pool'[k] = gone[k - left] /\ k - left \in 1..(StopAt - 1)
    <3> SUFFICES ASSUME NEW k \in (left + 1)..(left + (StopAt - 1))
                 PROVE  pool'[k] = gone[k - left] /\ k - left \in 1..(StopAt - 1)
      OBVIOUS
    <3>1. k \in 1..(left + (StopAt - 1)) /\ ~(k <= left) /\ k - left \in 1..(StopAt - 1)
      BY <2>2
    <3> QED
      BY <2>1, <3>1
  <2> QED
    BY <2>1, <2>3, <2>4
<1>10. left \in Nat /\ StopAt - 1 \in Nat
  BY <1>5 DEF left
<1>11. DOMAIN pool' = 1..(left + (StopAt - 1))
       /\ \A k \in DOMAIN pool' : k \in 1..left \/ k \in (left + 1)..(left + (StopAt - 1))
  <2>1. DOMAIN pool' = 1..(left + (StopAt - 1))
    BY <1>9
  <2> QED
    BY <1>10, <2>1
<1>12. \A k \in DOMAIN pool' : pool'[k] \in DOMAIN objects' /\ ~objects'[pool'[k]].active
  <2> SUFFICES ASSUME NEW k \in DOMAIN pool'
               PROVE  pool'[k] \in DOMAIN objects' /\ ~objects'[pool'[k]].active
    OBVIOUS
  <2>1. CASE k \in 1..left
    <3>1. pool'[k] \in DOMAIN AppliedObjects /\ ~AppliedObjects[pool'[k]].active
      BY <1>8, <1>9, <2>1
    <3> QED
      BY <1>1, <3>1
  <2>2. CASE k \in (left + 1)..(left + (StopAt - 1))
    <3>1. pool'[k] \in DOMAIN AppliedObjects /\ Released(pool'[k])
      BY <1>7, <1>9, <2>2
    <3> QED
      BY <1>1, <3>1
  <2> QED
    BY <1>11, <2>1, <2>2
<1>13. ASSUME NEW j \in DOMAIN pool', NEW k \in DOMAIN pool', j < k, pool'[j] = pool'[k]
       PROVE  FALSE
  <2>1. CASE k \in 1..left
    <3>1. j \in 1..left
      BY <1>10, <1>11, <1>13, <2>1
    <3> QED
      BY <1>4, <1>8, <1>9, <1>13, <2>1, <3>1
  <2>2. CASE j \in 1..left /\ k \in (left + 1)..(left + (StopAt - 1))
    <3>1. ~AppliedObjects[pool'[j]].active
      BY <1>8, <1>9, <2>2
    <3>2. AppliedObjects[pool'[k]].active
      BY <1>7, <1>9, <2>2
    <3> QED
      BY <1>13, <3>1, <3>2
  <2>3. CASE j \in (left + 1)..(left + (StopAt - 1)) /\ k \in (left + 1)..(left + (StopAt - 1))
    <3>1. k - left \in 1..(StopAt - 1) /\ j - left \in 1..((k - left) - 1)
      BY <1>9, <1>10, <1>13, <2>3
    <3> QED
      BY <1>7, <1>9, <1>13, <2>3, <3>1
  <2>4. j \in 1..left \/ j \in (left + 1)..(left + (StopAt - 1))
    BY <1>11
  <2>5. k \in 1..left \/ (j \in 1..left /\ k \in (left + 1)..(left + (StopAt - 1)))
        \/ (j \in (left + 1)..(left + (StopAt - 1)) /\ k \in (left + 1)..(left + (StopAt - 1)))
    BY <1>11, <2>4
  <2> QED
    BY <2>1, <2>2, <2>3, <2>5
<1>14. \A j, k \in DOMAIN pool' : pool'[j] = pool'[k] => j = k
  <2>1. \A j, k \in DOMAIN pool' : j # k => j < k \/ k < j
    BY <1>9, <1>10, <1>11
  <2> QED
    BY <1>13, <2>1
<1> QED
  BY <1>9, <1>12, <1>14

------------------------------------------------------------------------------
(* The types *)

\* The types, in parts: of the player, of the packets on the way, of the mirror.
PlayerTyped ==
  /\ phase \in {"before", "playing", "over"} /\ routine \in {"off", "on", "dead"}
  /\ hand \in Positions /\ cur \in DOMAIN board \cup {NoDongle}
  /\ DOMAIN board \subseteq 0..(curID - 1) /\ curID \in 0..MaxSpawns
  /\ board \in [DOMAIN board -> Dongles] /\ score \in Nat
  /\ previous \in Boards /\ DOMAIN previous \subseteq 0..(curID - 1)

PacketsTyped ==
  /\ packets \in Seq(PoolPackets \cup MergePackets)
  /\ \A w \in 1..Len(packets) :
       /\ IsMerge(w) => packets[w].id < curID
       /\ IsPool(w) => /\ DOMAIN packets[w].infos \subseteq 0..(curID - 1)
                       /\ DOMAIN packets[w].board \subseteq 0..(curID - 1)

ObjectsTyped ==
  /\ objects \in Seq(Objects)
  /\ enemyMap \in [DOMAIN enemyMap -> Nat] /\ DOMAIN enemyMap \subseteq DongleIds
  /\ \A id \in DOMAIN enemyMap : id < curID /\ enemyMap[id] \in DOMAIN objects
  /\ pool \in Seq(Nat)
  /\ \A k \in DOMAIN pool : /\ pool[k] \in DOMAIN objects /\ ~objects[pool[k]].active
                            /\ \A j \in DOMAIN pool : pool[j] = pool[k] => j = k

ReserveTyped ==
  /\ reserve \in Seq(DongleIds) /\ \A k \in 1..Len(reserve) : reserve[k] < curID
  /\ shown.board \in Boards /\ DOMAIN shown.board \subseteq 0..(curID - 1)

Typed == PlayerTyped /\ PacketsTyped /\ ObjectsTyped /\ ReserveTyped

\* The parts say what MirrorTypes, MirrorData and Numbered say together.
LEMMA TypedParts == Typed <=> MirrorTypes /\ MirrorData /\ Numbered
<1>1. (board \in [DOMAIN board -> Dongles]) =>
        \A id \in DOMAIN board : board[id].level \in 0..MAX_LEVEL /\ board[id].pos \in Positions
  BY DEF Dongles
<1> QED
  BY <1>1 DEF Typed, PlayerTyped, PacketsTyped, ObjectsTyped, ReserveTyped, MirrorTypes,
              MirrorData, Numbered

\* So they do after a step.
LEMMA TypedPartsNext == Typed' <=> (MirrorTypes /\ MirrorData /\ Numbered)'
BY TypedParts, PTL

\* The types survive every step.
LEMMA QuietTyped == ASSUME Typed, Quiet PROVE Typed'
<1>1. MirrorTypes /\ MirrorData
  BY TypedParts
<1>2. /\ UNCHANGED <<previous, packets, mirror, shown>>
      /\ curID \in Nat /\ curID' \in Nat /\ curID <= curID' /\ curID' <= MaxSpawns
      /\ MaxSpawns \in Nat
      /\ \A id \in DOMAIN board' : id \in DOMAIN board \/ (id = curID /\ curID' = curID + 1)
      /\ board' \in [DOMAIN board' -> Dongles]
      /\ cur' \in DOMAIN board' \cup {NoDongle}
      /\ hand' \in Positions /\ phase' \in {"before", "playing", "over"}
      /\ routine' \in {"off", "on", "dead"} /\ score' \in Nat
  BY <1>1, QuietFacts
<1>3. /\ \A id \in Int : id < curID => id < curID'
      /\ 0..(curID - 1) \subseteq 0..(curID' - 1)
  BY <1>2
<1>4. PlayerTyped'
  <2>1. DOMAIN board \subseteq 0..(curID - 1) /\ DOMAIN previous \subseteq 0..(curID - 1)
        /\ previous \in Boards
    BY DEF Typed, PlayerTyped
  <2>2. DOMAIN board' \subseteq 0..(curID' - 1)
    <3> SUFFICES ASSUME NEW id \in DOMAIN board'
                 PROVE  id \in 0..(curID' - 1)
      OBVIOUS
    <3>1. CASE id \in DOMAIN board
      BY <1>3, <2>1, <3>1
    <3>2. CASE id = curID /\ curID' = curID + 1
      BY <1>2, <3>2
    <3> QED
      BY <1>2, <3>1, <3>2
  <2>3. previous' = previous /\ DOMAIN previous \subseteq 0..(curID' - 1)
    BY <1>2, <1>3, <2>1
  <2> QED
    BY <1>2, <2>1, <2>2, <2>3 DEF PlayerTyped
<1>5. PacketsTyped'
  <2>1. PacketsTyped /\ packets' = packets
    BY <1>2 DEF Typed
  <2>2. \A w \in 1..Len(packets) : IsMerge(w) => packets[w].id \in Int
    BY <1>1, PacketFacts DEF DongleIds
  <2> QED
    BY <1>3, <2>1, <2>2 DEF PacketsTyped, IsMerge, IsPool
<1>6. ObjectsTyped'
  <2>1. ObjectsTyped /\ UNCHANGED <<objects, enemyMap, pool>>
    BY <1>2 DEF Typed, mirror
  <2>2. \A id \in DOMAIN enemyMap : id < curID'
    <3>1. \A id \in DOMAIN enemyMap : id \in Int
      BY DEF Typed, ObjectsTyped, DongleIds
    <3> QED
      BY <1>3, <2>1, <3>1 DEF ObjectsTyped
  <2> QED
    BY <2>1, <2>2 DEF ObjectsTyped
<1>7. ReserveTyped'
  <2>1. ReserveTyped /\ UNCHANGED <<reserve, shown>>
    BY <1>2 DEF Typed, mirror
  <2>2. \A k \in 1..Len(reserve) : reserve[k] \in Int /\ reserve[k] < curID
    <3>1. \A k \in 1..Len(reserve) : reserve[k] \in DongleIds /\ reserve[k] < curID
      BY <2>1 DEF ReserveTyped
    <3> QED
      BY <3>1 DEF DongleIds
  <2>3. /\ \A k \in 1..Len(reserve) : reserve[k] < curID'
        /\ DOMAIN shown.board \subseteq 0..(curID' - 1)
    <3>1. \A k \in 1..Len(reserve) : reserve[k] < curID'
      BY <1>3, <2>2
    <3>2. DOMAIN shown.board \subseteq 0..(curID' - 1)
      BY <1>3, <2>1 DEF ReserveTyped
    <3> QED
      BY <3>1, <3>2
  <2> QED
    BY <2>1, <2>3 DEF ReserveTyped
<1> QED
  BY <1>4, <1>5, <1>6, <1>7 DEF Typed

\* A packet's ids have been given out.
PacketNumbered(p) ==
  /\ p.type = "merge" => p.id < curID
  /\ p.type = "pool" => /\ DOMAIN p.infos \subseteq 0..(curID - 1)
                        /\ DOMAIN p.board \subseteq 0..(curID - 1)

\* The line is typed if each packet is numbered.
LEMMA PacketsNumbered ==
  PacketsTyped <=> /\ packets \in Seq(PoolPackets \cup MergePackets)
                   /\ \A w \in 1..Len(packets) : PacketNumbered(packets[w])
BY DEF PacketsTyped, PacketNumbered, IsMerge, IsPool

\* So it is after a step.
LEMMA PacketsNumberedNext ==
  PacketsTyped' <=> (/\ packets \in Seq(PoolPackets \cup MergePackets)
                     /\ \A w \in 1..Len(packets) : PacketNumbered(packets[w]))'
BY PacketsNumbered, PTL

\* A numbered packet may be sent.
LEMMA SentTyped ==
  ASSUME Typed, NEW p \in PoolPackets \cup MergePackets, packets' = Append(packets, p),
         PacketNumbered(p), curID' = curID
  PROVE  PacketsTyped'
<1>1. /\ packets' \in Seq(PoolPackets \cup MergePackets)
      /\ Len(packets) \in Nat /\ Len(packets') = Len(packets) + 1
      /\ \A w \in 1..Len(packets) : packets'[w] = packets[w]
      /\ packets'[Len(packets) + 1] = p
  BY TypedParts, PacketSent
<1>2. \A w \in 1..Len(packets) : PacketNumbered(packets[w])
  BY PacketsNumbered DEF Typed
<1>3. \A w \in 1..Len(packets') : PacketNumbered(packets'[w])
  <2> SUFFICES ASSUME NEW w \in 1..Len(packets')
               PROVE  PacketNumbered(packets'[w])
    OBVIOUS
  <2>1. w \in 1..Len(packets) \/ w = Len(packets) + 1
    BY <1>1
  <2> QED
    BY <1>1, <1>2, <2>1
<1>4. \A w \in 1..Len(packets') : PacketNumbered(packets[w])'
  BY <1>3 DEF PacketNumbered
<1> QED
  BY <1>1, <1>4, PacketsNumberedNext

\* The first packet may be taken.
LEMMA TakenTyped ==
  ASSUME Typed, packets # <<>>, packets' = Tail(packets), curID' = curID
  PROVE  /\ PacketsTyped' /\ PacketNumbered(packets[1]) /\ Head(packets) = packets[1]
         /\ packets[1] \in PoolPackets \cup MergePackets
<1>1. /\ packets' \in Seq(PoolPackets \cup MergePackets)
      /\ Len(packets) \in Nat /\ Len(packets) > 0 /\ Len(packets') = Len(packets) - 1
      /\ \A w \in 1..(Len(packets) - 1) : packets'[w] = packets[w + 1]
      /\ Head(packets) = packets[1] /\ packets[1] \in PoolPackets \cup MergePackets
  BY TypedParts, PacketTaken
<1>2. \A w \in 1..Len(packets) : PacketNumbered(packets[w])
  BY PacketsNumbered DEF Typed
<1>3. \A w \in 1..Len(packets') : PacketNumbered(packets'[w])
  <2> SUFFICES ASSUME NEW w \in 1..Len(packets')
               PROVE  PacketNumbered(packets'[w])
    OBVIOUS
  <2>1. w \in 1..(Len(packets) - 1) /\ w + 1 \in 1..Len(packets)
    BY <1>1
  <2> QED
    BY <1>1, <1>2, <2>1
<1>4. \A w \in 1..Len(packets') : PacketNumbered(packets[w])'
  BY <1>3 DEF PacketNumbered
<1>5. 1 \in 1..Len(packets)
  BY <1>1
<1> QED
  BY <1>1, <1>2, <1>4, <1>5, PacketsNumberedNext

\* A merge keeps the types.
LEMMA MergeTyped ==
  ASSUME Typed, NEW p \in Positions, NEW a \in DOMAIN board, NEW b \in DOMAIN board,
         Merge(a, b, p)
  PROVE  Typed'
<1> DEFINE m == [type |-> "merge", id |-> b]
<1>1. /\ packets' = Append(packets, m) /\ m \in MergePackets
      /\ DOMAIN board' = DOMAIN board \ {b}
      /\ board' \in [DOMAIN board' -> Dongles]
      /\ cur' \in DOMAIN board' \cup {NoDongle} /\ score' \in Nat
      /\ UNCHANGED <<phase, routine, hand, curID, previous, mirror, shown>>
  BY TypedParts, MergeFacts
<1>2. PlayerTyped'
  <2>1. PlayerTyped
    BY DEF Typed
  <2> QED
    BY <1>1, <2>1 DEF PlayerTyped
<1>3. PacketsTyped'
  <2>1. b < curID
    BY DEF Typed, PlayerTyped
  <2>2. PacketNumbered(m)
    BY <2>1 DEF PacketNumbered
  <2> HIDE DEF m
  <2> QED
    BY <1>1, <2>2, SentTyped
<1>4. ObjectsTyped' /\ ReserveTyped'
  <2>1. ObjectsTyped /\ ReserveTyped /\ UNCHANGED <<objects, pool, enemyMap, reserve, curID, shown>>
    BY <1>1 DEF Typed, mirror
  <2> QED
    BY <2>1 DEF ObjectsTyped, ReserveTyped
<1> QED
  BY <1>2, <1>3, <1>4 DEF Typed

\* A turn of the coroutine keeps the types.
LEMMA SendTyped ==
  ASSUME Typed, SendDonglePool
  PROVE  Typed'
<1> DEFINE p == [type |-> "pool", infos |-> Restrict(Board, Changed), board |-> Board,
                 score |-> score]
<1>1. /\ packets' = Append(packets, p) /\ p \in PoolPackets
      /\ DOMAIN Board = DOMAIN board /\ Changed \subseteq DOMAIN board
      /\ DOMAIN p.infos = Changed
      /\ previous' \in Boards /\ DOMAIN previous' = DOMAIN previous \cup Changed
      /\ UNCHANGED <<phase, routine, hand, cur, curID, board, score, mirror, shown>>
  <2>1. MirrorTypes /\ MirrorData
    BY TypedParts
  <2> QED
    BY <2>1, SendFacts
<1>2. PlayerTyped
  BY DEF Typed
<1>3. PlayerTyped'
  BY <1>1, <1>2 DEF PlayerTyped
<1>4. PacketsTyped'
  <2>1. p.type = "pool" /\ p.board = Board
    OBVIOUS
  <2> HIDE DEF p
  <2>2. PacketNumbered(p)
    BY <1>1, <1>2, <2>1 DEF PacketNumbered, PlayerTyped
  <2> QED
    BY <1>1, <2>2, SentTyped
<1>5. ObjectsTyped' /\ ReserveTyped'
  <2>1. ObjectsTyped /\ ReserveTyped /\ UNCHANGED <<objects, pool, enemyMap, reserve, curID, shown>>
    BY <1>1 DEF Typed, mirror
  <2> QED
    BY <2>1 DEF ObjectsTyped, ReserveTyped
<1> QED
  BY <1>3, <1>4, <1>5 DEF Typed

\* Two packets in one receive keep the types.
LEMMA ReceiveTyped ==
  ASSUME Typed, NEW k \in 1..Len(packets), ReceiveTwo(k)
  PROVE  Typed'
<1>1. /\ packets' = [packets EXCEPT ![k + 1] = packets[k]]
      /\ UNCHANGED <<player, mirror, shown>>
  BY DEF ReceiveTwo
<1>2. k + 1 \in 1..Len(packets)
  <2>1. k + 1 \in 2..Len(packets)
    BY DEF ReceiveTwo
  <2> QED
    BY <2>1
<1>3. /\ packets \in Seq(PoolPackets \cup MergePackets)
      /\ \A w \in 1..Len(packets) : PacketNumbered(packets[w])
  BY PacketsNumbered DEF Typed
<1>4. /\ packets' \in Seq(PoolPackets \cup MergePackets) /\ Len(packets') = Len(packets)
      /\ \A w \in 1..Len(packets) :
           packets'[w] = IF w = k + 1 THEN packets[k] ELSE packets[w]
  BY <1>1, <1>3, <1>2
<1>5. PacketsTyped'
  <2>1. curID' = curID
    BY <1>1 DEF player
  <2>2. \A w \in 1..Len(packets') : PacketNumbered(packets'[w])
    BY <1>3, <1>4
  <2>3. \A w \in 1..Len(packets') : PacketNumbered(packets[w])'
    BY <2>1, <2>2 DEF PacketNumbered
  <2> QED
    BY <1>4, <2>3, PacketsNumberedNext
<1>6. PlayerTyped' /\ ObjectsTyped' /\ ReserveTyped'
  <2>1. /\ PlayerTyped /\ ObjectsTyped /\ ReserveTyped
        /\ UNCHANGED <<phase, routine, hand, cur, curID, board, previous, score, objects, pool,
                       enemyMap, reserve, shown>>
    BY <1>1 DEF Typed, mirror, player
  <2> QED
    BY <2>1 DEF PlayerTyped, ObjectsTyped, ReserveTyped
<1> QED
  BY <1>5, <1>6 DEF Typed

\* A merge that is received keeps the types.
LEMMA DeleteTyped == ASSUME Typed, DeleteDongle PROVE Typed'
<1>1. /\ packets # <<>> /\ packets' = Tail(packets) /\ Head(packets).type = "merge"
      /\ reserve' = Append(reserve, Head(packets).id)
      /\ UNCHANGED <<phase, routine, hand, cur, curID, board, previous, score, objects, pool,
                     enemyMap, shown>>
  BY DEF DeleteDongle, player
<1>2. /\ PacketsTyped' /\ PacketNumbered(packets[1]) /\ Head(packets) = packets[1]
      /\ packets[1] \in PoolPackets \cup MergePackets
  BY <1>1, TakenTyped
<1>3. packets[1].id \in DongleIds /\ packets[1].id < curID
  BY <1>1, <1>2 DEF PacketNumbered, PoolPackets, MergePackets
<1>4. ReserveTyped'
  <2>1. ReserveTyped
    BY DEF Typed
  <2>2. reserve' \in Seq(DongleIds) /\ \A k \in 1..Len(reserve') : reserve'[k] < curID
    <3>1. /\ reserve \in Seq(DongleIds) /\ reserve' = Append(reserve, packets[1].id)
          /\ \A k \in 1..Len(reserve) : reserve[k] < curID
      BY <1>1, <1>2, <2>1 DEF ReserveTyped
    <3>2. /\ reserve' \in Seq(DongleIds)
          /\ \A k \in 1..Len(reserve') :
               reserve'[k] = packets[1].id \/ (k \in 1..Len(reserve) /\ reserve'[k] = reserve[k])
      BY <1>3, <3>1
    <3> QED
      BY <1>3, <3>1, <3>2
  <2> QED
    BY <1>1, <2>1, <2>2 DEF ReserveTyped
<1>5. PlayerTyped' /\ ObjectsTyped'
  <2>1. PlayerTyped /\ ObjectsTyped
    BY DEF Typed
  <2> QED
    BY <1>1, <2>1 DEF PlayerTyped, ObjectsTyped
<1> QED
  BY <1>2, <1>4, <1>5 DEF Typed

\* An update keeps the types.
LEMMA UpdateTyped == ASSUME Typed, UpdateDongle PROVE Typed'
<1>1. MirrorTypes /\ MirrorData
  BY TypedParts
<1>2. /\ Len(packets) > 0 /\ Len(packets) \in Nat /\ IsPool(1)
      /\ packets[1].infos \in Boards /\ packets[1].board \in Boards
      /\ shown'.board = packets[1].board
      /\ enemyMap' = AppliedMap
      /\ objects' \in Seq(Objects) /\ DOMAIN objects' = DOMAIN AppliedObjects
      /\ reserve' = IF StopAt <= Len(reserve) THEN reserve ELSE <<>>
      /\ UNCHANGED player
  BY <1>1, UpdateFacts
<1>3. packets # <<>> /\ packets' = Tail(packets)
  BY DEF UpdateDongle
<1>4. /\ UNCHANGED <<phase, routine, hand, cur, curID, board, previous, score>>
  BY <1>2 DEF player
<1>5. PacketsTyped' /\ PacketNumbered(packets[1])
  BY <1>3, <1>4, TakenTyped
<1>6. /\ DOMAIN packets[1].infos \subseteq 0..(curID - 1)
      /\ DOMAIN packets[1].board \subseteq 0..(curID - 1)
  BY <1>2, <1>5 DEF PacketNumbered, IsPool
<1>7. PlayerTyped /\ ObjectsTyped /\ ReserveTyped
  BY DEF Typed
<1>8. PlayerTyped'
  BY <1>4, <1>7 DEF PlayerTyped
<1>9. ReserveTyped'
  <2>1. reserve' \in Seq(DongleIds) /\ \A k \in 1..Len(reserve') : reserve'[k] < curID
    <3>1. reserve \in Seq(DongleIds) /\ \A k \in 1..Len(reserve) : reserve[k] < curID
      BY <1>7 DEF ReserveTyped
    <3>2. CASE reserve' = reserve
      BY <3>1, <3>2
    <3>3. CASE reserve' = <<>>
      BY <3>3
    <3> QED
      BY <1>2, <3>2, <3>3
  <2> QED
    BY <1>2, <1>4, <1>6, <2>1 DEF ReserveTyped
<1>10. ObjectsTyped'
  <2>1. /\ DOMAIN AppliedMap = DOMAIN enemyMap \cup DOMAIN packets[1].infos
        /\ AppliedMap = [id \in DOMAIN AppliedMap |-> AppliedMap[id]]
    BY <1>1, <1>2, MapFacts DEF AppliedMap, MapWith
  <2>2. \A id \in DOMAIN AppliedMap :
          /\ id < curID /\ id \in DongleIds
          /\ AppliedMap[id] \in DOMAIN AppliedObjects
    <3>1. \A id \in DOMAIN AppliedMap : AppliedMap[id] \in DOMAIN AppliedObjects
      <4>1. packets[1].infos \in Boards
        BY <1>2
      <4> QED
        BY <1>1, <4>1, ObjectsFacts DEF AppliedObjects, AppliedMap
    <3>2. \A id \in DOMAIN enemyMap : id < curID /\ id \in DongleIds
      BY <1>7 DEF ObjectsTyped
    <3>3. \A id \in DOMAIN packets[1].infos : id < curID /\ id \in DongleIds
      <4>1. DOMAIN packets[1].infos \subseteq DongleIds
        BY <1>2, BoardFacts
      <4>2. \A id \in 0..(curID - 1) : id < curID
        BY <1>7 DEF PlayerTyped
      <4> QED
        BY <1>6, <4>1, <4>2
    <3> QED
      BY <2>1, <3>1, <3>2, <3>3
  <2>3. DOMAIN AppliedObjects \subseteq Nat
    <3>1. DOMAIN objects' = 1..Len(objects') /\ Len(objects') \in Nat
      BY <1>2
    <3> QED
      BY <1>2, <3>1
  <2>4. /\ enemyMap' \in [DOMAIN enemyMap' -> Nat] /\ DOMAIN enemyMap' \subseteq DongleIds
        /\ \A id \in DOMAIN enemyMap' : id < curID' /\ enemyMap'[id] \in DOMAIN objects'
    <3>1. \A id \in DOMAIN AppliedMap : AppliedMap[id] \in Nat
      BY <2>2, <2>3
    <3>2. AppliedMap \in [DOMAIN AppliedMap -> Nat]
      BY <2>1, <3>1
    <3> QED
      BY <1>2, <1>4, <2>2, <3>2
  <2>5. /\ pool' \in Seq(Nat)
        /\ \A k \in DOMAIN pool' :
             /\ pool'[k] \in DOMAIN objects' /\ ~objects'[pool'[k]].active
             /\ \A j \in DOMAIN pool' : pool'[j] = pool'[k] => j = k
    BY <1>1, PoolStep
  <2> QED
    BY <1>2, <2>4, <2>5 DEF ObjectsTyped
<1> QED
  BY <1>5, <1>8, <1>9, <1>10 DEF Typed

\* Every step keeps the types.
LEMMA TypedStep == ASSUME Typed, [MirrorNext]_mirrorVars PROVE Typed'
<1>1. CASE Quiet
  BY <1>1, QuietTyped
<1>2. CASE \E p \in Positions, a, b \in DOMAIN board : Merge(a, b, p)
  BY <1>2, MergeTyped
<1>3. CASE SendDonglePool
  BY <1>3, SendTyped
<1>4. CASE SendDonglePoolThrows
  <2>1. routine' = "dead"
        /\ UNCHANGED <<phase, hand, cur, curID, board, previous, score, packets, mirror, shown>>
    BY <1>4 DEF SendDonglePoolThrows
  <2> QED
    BY <2>1 DEF Typed, PlayerTyped, PacketsTyped, ObjectsTyped, ReserveTyped, mirror, IsPool,
                IsMerge
<1>5. CASE \E k \in 1..Len(packets) : ReceiveTwo(k)
  BY <1>5, ReceiveTyped
<1>6. CASE UpdateDongle
  BY <1>6, UpdateTyped
<1>7. CASE DeleteDongle
  BY <1>7, DeleteTyped
<1>8. CASE UNCHANGED mirrorVars
  BY <1>8 DEF Typed, PlayerTyped, PacketsTyped, ObjectsTyped, ReserveTyped, mirror, IsPool,
              IsMerge, mirrorVars, player
<1> QED
  BY <1>1, <1>2, <1>3, <1>4, <1>5, <1>6, <1>7, <1>8, MirrorSteps

------------------------------------------------------------------------------
(* No merge is forgotten *)

\* An object that is shown after an update is the one the map has for its id; the
\* update told of it, or it was shown before.
LEMMA ActiveAfter ==
  ASSUME Typed, Owned, UpdateDongle, NEW o \in Active'
  PROVE  /\ o \in DOMAIN AppliedObjects /\ ~Released(o)
         /\ objects'[o].id \in DOMAIN AppliedMap /\ AppliedMap[objects'[o].id] = o
         /\ \/ objects'[o].id \in DOMAIN packets[1].infos
            \/ o \in Active /\ objects'[o].id = objects[o].id
<1> DEFINE infos == packets[1].infos
<1>1. MirrorTypes /\ MirrorData
  BY TypedParts
<1>2. /\ infos \in Boards /\ DOMAIN objects' = DOMAIN AppliedObjects
      /\ \A q \in DOMAIN AppliedObjects :
           /\ objects'[q].active <=> AppliedObjects[q].active /\ ~Released(q)
           /\ objects'[q].id = AppliedObjects[q].id
  BY <1>1, UpdateFacts
<1>3. /\ o \in DOMAIN AppliedObjects /\ AppliedObjects[o].active /\ ~Released(o)
      /\ objects'[o].id = AppliedObjects[o].id
  BY <1>2 DEF Active
<1>4. /\ DOMAIN AppliedMap = DOMAIN enemyMap \cup DOMAIN infos
      /\ \A id \in DOMAIN enemyMap : AppliedMap[id] = enemyMap[id]
  BY <1>1, <1>2, MapFacts DEF AppliedMap
<1> HIDE DEF infos
<1>5. CASE \E id \in DOMAIN infos : AppliedMap[id] = o
  <2>1. PICK id \in DOMAIN infos : AppliedMap[id] = o /\ AppliedObjects[o].id = id
    BY <1>1, <1>2, <1>3, <1>5, ObjectsFacts DEF AppliedObjects, AppliedMap, infos
  <2> QED
    BY <1>3, <1>4, <2>1 DEF infos
<1>6. CASE \A id \in DOMAIN infos : AppliedMap[id] # o
  <2>1. o \in DOMAIN objects /\ AppliedObjects[o] = objects[o]
    BY <1>1, <1>2, <1>3, <1>6, ObjectsFacts DEF AppliedObjects, AppliedMap, infos
  <2>2. o \in Active
    BY <1>3, <2>1 DEF Active
  <2>3. objects[o].id \in DOMAIN enemyMap /\ enemyMap[objects[o].id] = o
    BY <2>2 DEF Owned
  <2> QED
    BY <1>3, <1>4, <2>1, <2>2, <2>3
<1> QED
  BY <1>5, <1>6

\* The steps of others leave the mirror's objects alone.
LEMMA OthersFacts ==
  ASSUME Typed, [MirrorNext]_mirrorVars
  PROVE  UpdateDongle \/ UNCHANGED <<objects, pool, enemyMap, shown>>
<1>1. MirrorTypes /\ MirrorData
  BY TypedParts
<1>2. CASE Quiet
  BY <1>1, <1>2, QuietFacts DEF mirror
<1>3. CASE \E p \in Positions, a, b \in DOMAIN board : Merge(a, b, p)
  BY <1>1, <1>3, MergeFacts DEF mirror
<1>4. CASE SendDonglePool
  BY <1>4 DEF SendDonglePool, mirror
<1>5. CASE SendDonglePoolThrows
  BY <1>5 DEF SendDonglePoolThrows, mirror
<1>6. CASE \E k \in 1..Len(packets) : ReceiveTwo(k)
  BY <1>6 DEF ReceiveTwo, mirror
<1>7. CASE DeleteDongle
  BY <1>7 DEF DeleteDongle
<1>8. CASE UNCHANGED mirrorVars
  BY <1>8 DEF mirrorVars, mirror
<1> QED
  BY <1>2, <1>3, <1>4, <1>5, <1>6, <1>7, <1>8, MirrorSteps

\* Every step leaves the objects to their ids.
LEMMA OwnedStep == ASSUME Typed, Owned, [MirrorNext]_mirrorVars PROVE Owned'
<1>1. CASE UNCHANGED <<objects, pool, enemyMap, shown>>
  BY <1>1 DEF Owned, Active
<1>2. CASE UpdateDongle
  <2>1. enemyMap' = AppliedMap
    BY <1>2, TypedParts, UpdateFacts
  <2>2. \A o \in Active' : /\ objects'[o].id \in DOMAIN AppliedMap
                           /\ AppliedMap[objects'[o].id] = o
    BY <1>2, ActiveAfter
  <2> QED
    BY <2>1, <2>2 DEF Owned
<1> QED
  BY <1>1, <1>2, OthersFacts

\* What a step does to the board and the packets: it may give out an id, merge a
\* dongle away, send what has changed, lose a packet, or take one.
Grows ==
  /\ UNCHANGED <<previous, packets, mirror, coalesced, unseen, shown>>
  /\ DOMAIN board \subseteq DOMAIN board'
  /\ \A id \in DOMAIN board' : id \in DOMAIN board \/ id = curID

Shrinks(b) ==
  /\ packets' = Append(packets, [type |-> "merge", id |-> b])
  /\ DOMAIN board' = DOMAIN board \ {b}
  /\ unseen' = (unseen \/ b \notin DOMAIN previous)
  /\ UNCHANGED <<previous, mirror, coalesced, shown>>

\* Every step is of one of these kinds.
LEMMA StepKinds ==
  ASSUME Typed, [MirrorNext]_mirrorVars
  PROVE  \/ Grows \/ (\E b \in DOMAIN board : Shrinks(b)) \/ SendDonglePool
         \/ coalesced' = TRUE \/ UpdateDongle \/ DeleteDongle
<1>1. MirrorTypes /\ MirrorData
  BY TypedParts
<1>2. CASE Quiet
  <2>1. Grows
    BY <1>1, <1>2, QuietFacts DEF Grows
  <2> QED
    BY <2>1
<1>3. CASE \E p \in Positions, a, b \in DOMAIN board : Merge(a, b, p)
  <2>1. PICK p \in Positions, a \in DOMAIN board, b \in DOMAIN board : Merge(a, b, p)
    BY <1>3
  <2>2. Shrinks(b)
    BY <1>1, <2>1, MergeFacts DEF Shrinks
  <2> QED
    BY <2>2
<1>4. CASE SendDonglePoolThrows
  <2>1. Grows
    BY <1>4 DEF SendDonglePoolThrows, Grows, merged
  <2> QED
    BY <2>1
<1>5. CASE \E k \in 1..Len(packets) : ReceiveTwo(k)
  BY <1>5 DEF ReceiveTwo
<1>6. CASE UNCHANGED mirrorVars
  <2>1. Grows
    BY <1>6 DEF mirrorVars, Grows, merged, player
  <2> QED
    BY <2>1
<1> QED
  BY <1>2, <1>3, <1>4, <1>5, <1>6, MirrorSteps

\* The line of packets, before and after.
LEMMA Lengthened ==
  ASSUME Typed, NEW p, p \in PoolPackets \cup MergePackets, packets' = Append(packets, p)
  PROVE  /\ Len(packets) \in Nat /\ Len(packets') = Len(packets) + 1
         /\ packets'[Len(packets) + 1] = p
         /\ \A w \in 1..Len(packets) : packets'[w] = packets[w]
         /\ \A w \in 1..Len(packets') : w \in 1..Len(packets) \/ w = Len(packets) + 1
<1>1. /\ Len(packets) \in Nat /\ Len(packets') = Len(packets) + 1
      /\ \A w \in 1..Len(packets) : packets'[w] = packets[w]
      /\ packets'[Len(packets) + 1] = p
  BY TypedParts, PacketSent
<1> QED
  BY <1>1

\* A merge sent goes to the end of the line.
LEMMA MergeSent ==
  ASSUME Typed, NEW b \in DOMAIN board, Shrinks(b)
  PROVE  /\ Len(packets) \in Nat /\ Len(packets') = Len(packets) + 1
         /\ packets'[Len(packets) + 1].type = "merge" /\ packets'[Len(packets) + 1].id = b
         /\ \A w \in 1..Len(packets) : packets'[w] = packets[w]
         /\ \A w \in 1..Len(packets') : w \in 1..Len(packets) \/ w = Len(packets) + 1
<1> DEFINE m == [type |-> "merge", id |-> b]
<1>1. packets' = Append(packets, m)
  BY DEF Shrinks
<1>2. m \in MergePackets
  <2>1. b \in 0..(curID - 1) /\ curID \in Nat /\ curID <= MaxSpawns /\ MaxSpawns \in Nat
    BY SpawnAssumption DEF Typed, PlayerTyped
  <2> QED
    BY <2>1 DEF MergePackets, DongleIds
<1>3. m.type = "merge" /\ m.id = b
  OBVIOUS
<1> HIDE DEF m
<1> QED
  BY <1>1, <1>2, <1>3, Lengthened

\* A packet taken moves the others up by one.
LEMMA Shortened ==
  ASSUME Typed, UpdateDongle \/ DeleteDongle
  PROVE  /\ Len(packets) \in Nat /\ Len(packets') = Len(packets) - 1 /\ 1 \in 1..Len(packets)
         /\ \A w \in 1..Len(packets') : w + 1 \in 2..Len(packets) /\ packets'[w] = packets[w + 1]
         /\ \A w \in 1..Len(packets) : w = 1 \/ (w - 1 \in 1..Len(packets')
                                                 /\ packets'[w - 1] = packets[w])
         /\ UNCHANGED <<board, previous, curID, coalesced, unseen>>
<1>1. packets # <<>> /\ packets' = Tail(packets)
      /\ UNCHANGED <<board, previous, curID, coalesced, unseen>>
  BY DEF UpdateDongle, DeleteDongle, player, merged
<1>2. /\ Len(packets) \in Nat /\ Len(packets) > 0 /\ Len(packets') = Len(packets) - 1
      /\ \A w \in 1..(Len(packets) - 1) : packets'[w] = packets[w + 1]
  BY <1>1, TypedParts, PacketTaken
<1>3. \A w \in 1..Len(packets') : w + 1 \in 2..Len(packets) /\ packets'[w] = packets[w + 1]
  BY <1>2
<1>4. ASSUME NEW w \in 1..Len(packets), w # 1
      PROVE  w - 1 \in 1..Len(packets') /\ packets'[w - 1] = packets[w]
  <2>1. w - 1 \in 1..(Len(packets) - 1) /\ (w - 1) + 1 = w
    BY <1>2, <1>4
  <2> QED
    BY <1>2, <2>1
<1>5. 1 \in 1..Len(packets)
  BY <1>2
<1> QED
  BY <1>1, <1>2, <1>3, <1>4, <1>5

\* A merge taken goes to the end of the reserved ids.
LEMMA Reserved ==
  ASSUME Typed, DeleteDongle
  PROVE  /\ IsMerge(1) /\ Len(reserve) \in Nat /\ Len(reserve') = Len(reserve) + 1
         /\ reserve'[Len(reserve) + 1] = packets[1].id
         /\ \A k \in 1..Len(reserve) : reserve'[k] = reserve[k]
         /\ \A k \in 1..Len(reserve') : k \in 1..Len(reserve) \/ k = Len(reserve) + 1
<1>1. /\ packets # <<>> /\ packets' = Tail(packets) /\ Head(packets).type = "merge"
      /\ reserve' = Append(reserve, Head(packets).id) /\ reserve \in Seq(DongleIds)
  BY DEF DeleteDongle, Typed, ReserveTyped
<1>2. Head(packets) = packets[1] /\ packets[1] \in PoolPackets \cup MergePackets
  BY <1>1, TypedParts, PacketTaken
<1>3. IsMerge(1)
  BY <1>1, <1>2 DEF IsMerge
<1>4. /\ Len(reserve) \in Nat /\ Len(reserve') = Len(reserve) + 1
      /\ reserve'[Len(reserve) + 1] = packets[1].id
      /\ \A k \in 1..Len(reserve) : reserve'[k] = reserve[k]
  BY <1>1, <1>2
<1>5. \A k \in 1..Len(reserve') : k \in 1..Len(reserve) \/ k = Len(reserve) + 1
  BY <1>4
<1> QED
  BY <1>3, <1>4, <1>5

\* Once astray, the two stay astray.
LEMMA AstrayStays ==
  ASSUME Typed, [MirrorNext]_mirrorVars
  PROVE  (~coalesced' => ~coalesced) /\ (~Astray' => ~Astray)
<1>1. CASE coalesced' = TRUE
  BY <1>1 DEF Astray
<1>2. CASE UNCHANGED <<coalesced, unseen>>
  BY <1>2, Zenon DEF Astray
<1>3. CASE \E b \in DOMAIN board : Shrinks(b)
  <2>1. PICK b \in DOMAIN board : Shrinks(b)
    BY <1>3
  <2>2. coalesced' = coalesced /\ unseen' = (unseen \/ b \notin DOMAIN previous)
    BY <2>1 DEF Shrinks
  <2> QED
    BY <2>2, Zenon DEF Astray
<1>4. Grows \/ SendDonglePool \/ UpdateDongle \/ DeleteDongle => UNCHANGED <<coalesced, unseen>>
  BY Shortened DEF Grows, SendDonglePool, merged
<1> QED
  BY <1>1, <1>2, <1>3, <1>4, StepKinds

\* A dongle of the w-th packet is the player's still, or its merge comes behind.
Accounted(id, w) ==
  \/ id \in DOMAIN board
  \/ \E v \in (w + 1)..Len(packets) : IsMerge(v) /\ packets[v].id = id

\* Every step keeps updates accounted for.
LEMMA AnnouncedStep == ASSUME Typed, Announced, [MirrorNext]_mirrorVars PROVE Announced'
<1> SUFFICES ASSUME ~coalesced'
             PROVE  Announced'
  BY DEF Announced
<1> DEFINE accounted(id, w) ==
             \/ id \in DOMAIN board'
             \/ \E v \in (w + 1)..Len(packets') : packets'[v].type = "merge" /\ packets'[v].id = id
           announced ==
             \A w \in 1..Len(packets') : packets'[w].type = "pool" =>
               \A id \in DOMAIN packets'[w].infos : accounted(id, w)
<1>1. announced => Announced'
  BY DEF Announced, IsPool, IsMerge
<1>2. \A w \in 1..Len(packets) : IsPool(w) => \A id \in DOMAIN packets[w].infos : Accounted(id, w)
  BY AstrayStays DEF Announced, Accounted
<1>3. Len(packets) \in Nat
  BY DEF Typed, PacketsTyped
<1>4. CASE Grows
  <2>1. packets' = packets /\ DOMAIN board \subseteq DOMAIN board'
    BY <1>4 DEF Grows
  <2>2. announced
    BY <1>2, <2>1 DEF Accounted, IsPool, IsMerge
  <2> QED
    BY <1>1, <2>2
<1>5. CASE \E b \in DOMAIN board : Shrinks(b)
  <2>1. PICK b \in DOMAIN board : Shrinks(b)
    BY <1>5
  <2>2. /\ Len(packets') = Len(packets) + 1
        /\ packets'[Len(packets) + 1].type = "merge" /\ packets'[Len(packets) + 1].id = b
        /\ \A w \in 1..Len(packets) : packets'[w] = packets[w]
        /\ \A w \in 1..Len(packets') : w \in 1..Len(packets) \/ w = Len(packets) + 1
        /\ DOMAIN board' = DOMAIN board \ {b}
    BY <2>1, MergeSent DEF Shrinks
  <2>3. ASSUME NEW w \in 1..Len(packets), NEW id, Accounted(id, w)
        PROVE  accounted(id, w)
    <3>1. CASE id = b
      <4>1. Len(packets) + 1 \in (w + 1)..Len(packets')
        BY <1>3, <2>2
      <4> QED
        BY <2>2, <3>1, <4>1
    <3>2. CASE id # b /\ id \in DOMAIN board
      BY <2>2, <3>2
    <3>3. CASE \E v \in (w + 1)..Len(packets) : IsMerge(v) /\ packets[v].id = id
      <4>1. PICK v \in (w + 1)..Len(packets) : IsMerge(v) /\ packets[v].id = id
        BY <3>3
      <4>2. v \in (w + 1)..Len(packets') /\ packets'[v] = packets[v]
        BY <1>3, <2>2
      <4> QED
        BY <4>1, <4>2 DEF IsMerge
    <3> QED
      BY <2>3, <3>1, <3>2, <3>3 DEF Accounted
  <2> HIDE DEF accounted
  <2>4. announced
    BY <1>2, <2>2, <2>3 DEF IsPool
  <2> QED
    BY <1>1, <2>4
<1>6. CASE SendDonglePool
  <2> DEFINE p == [type |-> "pool", infos |-> Restrict(Board, Changed), board |-> Board,
                   score |-> score]
  <2>1. /\ packets' = Append(packets, p) /\ p \in PoolPackets
        /\ DOMAIN p.infos \subseteq DOMAIN board /\ board' = board
    BY <1>6, TypedParts, SendFacts
  <2> HIDE DEF p
  <2>2. /\ Len(packets') = Len(packets) + 1 /\ packets'[Len(packets) + 1] = p
        /\ \A w \in 1..Len(packets) : packets'[w] = packets[w]
        /\ \A w \in 1..Len(packets') : w \in 1..Len(packets) \/ w = Len(packets) + 1
    BY <2>1, Lengthened
  <2>3. ASSUME NEW w \in 1..Len(packets), NEW id, Accounted(id, w)
        PROVE  accounted(id, w)
    <3>1. CASE id \in DOMAIN board
      BY <2>1, <3>1
    <3>2. CASE \E v \in (w + 1)..Len(packets) : IsMerge(v) /\ packets[v].id = id
      <4>1. PICK v \in (w + 1)..Len(packets) : IsMerge(v) /\ packets[v].id = id
        BY <3>2
      <4>2. v \in (w + 1)..Len(packets') /\ packets'[v] = packets[v]
        BY <1>3, <2>2
      <4> QED
        BY <4>1, <4>2 DEF IsMerge
    <3> QED
      BY <2>3, <3>1, <3>2 DEF Accounted
  <2>4. \A id \in DOMAIN p.infos, w \in Int : accounted(id, w)
    BY <2>1
  <2> HIDE DEF accounted
  <2>5. announced
    BY <1>2, <1>3, <2>2, <2>3, <2>4 DEF IsPool
  <2> QED
    BY <1>1, <2>5
<1>7. CASE UpdateDongle \/ DeleteDongle
  <2>1. /\ Len(packets') = Len(packets) - 1
        /\ \A w \in 1..Len(packets') : w + 1 \in 2..Len(packets) /\ packets'[w] = packets[w + 1]
        /\ \A w \in 1..Len(packets) : w = 1 \/ (w - 1 \in 1..Len(packets')
                                                /\ packets'[w - 1] = packets[w])
        /\ board' = board
    BY <1>7, Shortened
  <2>2. ASSUME NEW w \in 1..Len(packets'), NEW id, Accounted(id, w + 1)
        PROVE  accounted(id, w)
    <3>1. CASE id \in DOMAIN board
      BY <2>1, <3>1
    <3>2. CASE \E v \in ((w + 1) + 1)..Len(packets) : IsMerge(v) /\ packets[v].id = id
      <4>1. PICK v \in ((w + 1) + 1)..Len(packets) : IsMerge(v) /\ packets[v].id = id
        BY <3>2
      <4>2. v \in 1..Len(packets) /\ v # 1
        BY <1>3, <2>1
      <4>3. v - 1 \in (w + 1)..Len(packets') /\ packets'[v - 1] = packets[v]
        BY <1>3, <2>1, <4>2
      <4> QED
        BY <4>1, <4>3 DEF IsMerge
    <3> QED
      BY <2>2, <3>1, <3>2 DEF Accounted
  <2> HIDE DEF accounted
  <2>3. \A w \in 1..Len(packets') : w + 1 \in 1..Len(packets)
    BY <1>3, <2>1
  <2>4. announced
    BY <1>2, <2>1, <2>2, <2>3 DEF IsPool
  <2> QED
    BY <1>1, <2>4
<1> QED
  BY <1>4, <1>5, <1>6, <1>7, StepKinds

\* A dongle is the player's, or its id is reserved, or its merge is on the way.
Remembered(id) ==
  \/ id \in DOMAIN board
  \/ \E k \in 1..Len(reserve) : reserve[k] = id
  \/ \E k \in 1..Len(packets) : IsMerge(k) /\ packets[k].id = id

\* No step but an update forgets a dongle.
LEMMA RememberedStep ==
  ASSUME Typed, [MirrorNext]_mirrorVars, ~coalesced', ~UpdateDongle,
         NEW id, Remembered(id)
  PROVE  \/ id \in DOMAIN board'
         \/ \E k \in 1..Len(reserve') : reserve'[k] = id
         \/ \E k \in 1..Len(packets') : packets'[k].type = "merge" /\ packets'[k].id = id
<1>1. CASE Grows
  BY <1>1 DEF Grows, mirror, Remembered, IsMerge
<1>2. CASE \E b \in DOMAIN board : Shrinks(b)
  <2>1. PICK b \in DOMAIN board : Shrinks(b)
    BY <1>2
  <2>2. /\ Len(packets) \in Nat /\ Len(packets') = Len(packets) + 1
        /\ packets'[Len(packets) + 1].type = "merge" /\ packets'[Len(packets) + 1].id = b
        /\ \A w \in 1..Len(packets) : packets'[w] = packets[w]
        /\ DOMAIN board' = DOMAIN board \ {b} /\ reserve' = reserve
    BY <2>1, MergeSent DEF Shrinks, mirror
  <2>3. /\ Len(packets) + 1 \in 1..Len(packets')
        /\ \A w \in 1..Len(packets) : w \in 1..Len(packets')
    BY <2>2
  <2> QED
    BY <2>2, <2>3 DEF Remembered, IsMerge
<1>3. CASE SendDonglePool
  <2>1. /\ Len(packets) \in Nat /\ Len(packets') = Len(packets) + 1
        /\ \A w \in 1..Len(packets) : packets'[w] = packets[w]
        /\ board' = board /\ reserve' = reserve
    <3> DEFINE p == [type |-> "pool", infos |-> Restrict(Board, Changed), board |-> Board,
                     score |-> score]
    <3>1. packets' = Append(packets, p) /\ p \in PoolPackets
      BY <1>3, TypedParts, SendFacts
    <3>2. board' = board /\ reserve' = reserve
      BY <1>3 DEF SendDonglePool, mirror
    <3> HIDE DEF p
    <3> QED
      BY <3>1, <3>2, Lengthened
  <2>2. \A w \in 1..Len(packets) : w \in 1..Len(packets')
    BY <2>1
  <2> QED
    BY <2>1, <2>2 DEF Remembered, IsMerge
<1>4. CASE DeleteDongle
  <2>1. /\ IsMerge(1) /\ Len(reserve) \in Nat /\ Len(reserve') = Len(reserve) + 1
        /\ reserve'[Len(reserve) + 1] = packets[1].id
        /\ \A k \in 1..Len(reserve) : reserve'[k] = reserve[k]
    BY <1>4, Reserved
  <2>2. /\ \A w \in 1..Len(packets) : w = 1 \/ (w - 1 \in 1..Len(packets')
                                                /\ packets'[w - 1] = packets[w])
        /\ board' = board
    BY <1>4, Shortened
  <2>3. /\ Len(reserve) + 1 \in 1..Len(reserve')
        /\ \A k \in 1..Len(reserve) : k \in 1..Len(reserve')
    BY <2>1
  <2> QED
    BY <2>1, <2>2, <2>3 DEF Remembered, IsMerge
<1> QED
  BY <1>1, <1>2, <1>3, <1>4, StepKinds

\* An update forgets only what it takes away from the screen.
LEMMA NoForgottenStep ==
  ASSUME Typed, Owned, Announced, NoForgottenMerge, [MirrorNext]_mirrorVars
  PROVE  NoForgottenMerge'
<1> SUFFICES ASSUME ~coalesced', NEW o \in Active'
             PROVE  \/ objects'[o].id \in DOMAIN board'
                    \/ \E k \in 1..Len(reserve') : reserve'[k] = objects'[o].id
                    \/ \E k \in 1..Len(packets') :
                         packets'[k].type = "merge" /\ packets'[k].id = objects'[o].id
  BY DEF NoForgottenMerge
<1>1. \A q \in Active : Remembered(objects[q].id)
  BY AstrayStays DEF NoForgottenMerge, Remembered, IsMerge
<1>2. CASE ~UpdateDongle
  <2>1. objects' = objects
    BY <1>2, OthersFacts
  <2>2. o \in Active /\ objects'[o].id = objects[o].id
    BY <2>1 DEF Active
  <2> QED
    BY <1>1, <1>2, <2>2, RememberedStep
<1>3. CASE UpdateDongle
  <2> DEFINE id == objects'[o].id
  <2>1. /\ ~Released(o) /\ AppliedMap[id] = o
        /\ \/ id \in DOMAIN packets[1].infos
           \/ o \in Active /\ id = objects[o].id
    BY <1>3, ActiveAfter
  <2>2. /\ \A w \in 1..Len(packets) : w = 1 \/ (w - 1 \in 1..Len(packets')
                                                /\ packets'[w - 1] = packets[w])
        /\ 1 \in 1..Len(packets) /\ board' = board
    BY <1>3, Shortened
  <2>3. /\ reserve' = IF StopAt <= Len(reserve) THEN reserve ELSE <<>>
        /\ StopAt \in 1..(Len(reserve) + 1) /\ IsPool(1)
    BY <1>3, TypedParts, UpdateFacts
  <2> HIDE DEF id
  <2>4. \A v \in 1..Len(packets) : IsMerge(v) =>
          v - 1 \in 1..Len(packets') /\ packets'[v - 1] = packets[v]
    BY <2>2, <2>3 DEF IsMerge, IsPool
  <2>5. \/ id \in DOMAIN board
        \/ \E v \in 1..Len(packets) : IsMerge(v) /\ packets[v].id = id
        \/ \E k \in 1..Len(reserve) : reserve[k] = id
    <3>1. CASE id \in DOMAIN packets[1].infos
      <4>1. Accounted(id, 1)
        BY <2>2, <2>3, <3>1, AstrayStays DEF Announced, Accounted
      <4>2. \A v \in (1 + 1)..Len(packets) : v \in 1..Len(packets)
        OBVIOUS
      <4> QED
        BY <4>1, <4>2 DEF Accounted
    <3>2. CASE o \in Active /\ id = objects[o].id
      BY <1>1, <3>2 DEF Remembered
    <3> QED
      BY <2>1, <3>1, <3>2
  <2>6. ASSUME NEW k \in 1..Len(reserve), reserve[k] = id
        PROVE  reserve' = reserve
    <3> SUFFICES ASSUME ~(StopAt <= Len(reserve))
                 PROVE  FALSE
      BY <2>3
    <3>1. k < StopAt
      BY <2>3 DEF Typed, ReserveTyped
    <3> QED
      BY <2>1, <2>6, <3>1 DEF Released
  <2>7. CASE id \in DOMAIN board
    BY <2>2, <2>7 DEF id
  <2>8. CASE \E v \in 1..Len(packets) : IsMerge(v) /\ packets[v].id = id
    BY <2>4, <2>8 DEF id, IsMerge
  <2>9. CASE \E k \in 1..Len(reserve) : reserve[k] = id
    BY <2>6, <2>9 DEF id
  <2> QED
    BY <2>5, <2>7, <2>8, <2>9
<1> QED
  BY <1>2, <1>3

------------------------------------------------------------------------------
(* What is merged away does not come back *)

\* A dongle is gone from the w-th packet on.
GoneFrom(id, w) ==
  /\ id \notin DOMAIN board
  /\ \A u \in w..Len(packets) : IsPool(u) => id \notin DOMAIN packets[u].board

\* The ids merged away are different ones, wherever they have come to.
AllDifferent ==
  /\ \A j, k \in 1..Len(reserve) : j # k => reserve[j] # reserve[k]
  /\ \A v, w \in 1..Len(packets) : v # w /\ IsMerge(v) /\ IsMerge(w) =>
       packets[v].id # packets[w].id
  /\ \A k \in 1..Len(reserve), v \in 1..Len(packets) : IsMerge(v) => reserve[k] # packets[v].id

GoneInTime ==
  /\ \A k \in 1..Len(reserve) : GoneFrom(reserve[k], 1)
  /\ \A v \in 1..Len(packets) : IsMerge(v) => GoneFrom(packets[v].id, v + 1)

\* MergedAway in two parts.
LEMMA MergedAwayParts == MergedAway <=> (~coalesced => AllDifferent /\ GoneInTime)
BY DEF MergedAway, AllDifferent, GoneInTime, GoneFrom

\* The same after a step.
LEMMA MergedAwayNext == MergedAway' <=> (~coalesced => AllDifferent /\ GoneInTime)'
BY MergedAwayParts, PTL

\* What is gone does not come back: the board grows only by new ids.
LEMMA GoneStep ==
  ASSUME Typed, [MirrorNext]_mirrorVars, ~coalesced',
         NEW id \in Int, id < curID, NEW w \in 1..(Len(packets) + 1), GoneFrom(id, w)
  PROVE  LET d == IF (UpdateDongle \/ DeleteDongle) THEN 1 ELSE 0
         IN  /\ id \notin DOMAIN board'
             /\ \A u \in 1..Len(packets') : u >= w - d /\ packets'[u].type = "pool" =>
                  id \notin DOMAIN packets'[u].board
<1> DEFINE d == IF (UpdateDongle \/ DeleteDongle) THEN 1 ELSE 0
<1>1. /\ Len(packets) \in Nat
      /\ id \notin DOMAIN board
      /\ \A u \in 1..Len(packets) : u >= w /\ IsPool(u) => id \notin DOMAIN packets[u].board
  BY DEF Typed, PacketsTyped, GoneFrom
<1>2. curID \in Int
  BY DEF Typed, PlayerTyped
<1>3. CASE UpdateDongle \/ DeleteDongle
  <2>1. /\ Len(packets') = Len(packets) - 1 /\ board' = board
        /\ \A u \in 1..Len(packets') : u + 1 \in 2..Len(packets) /\ packets'[u] = packets[u + 1]
    BY <1>3, Shortened
  <2>2. d = 1
    BY <1>3
  <2>3. \A u \in 1..Len(packets') : u >= w - 1 => u + 1 \in 1..Len(packets) /\ u + 1 >= w
    BY <1>1, <2>1
  <2> HIDE DEF d
  <2> QED
    BY <1>1, <2>1, <2>2, <2>3 DEF IsPool, d
<1>4. CASE ~(UpdateDongle \/ DeleteDongle)
  <2>1. d = 0 /\ w - d = w
    BY <1>4
  <2> HIDE DEF d
  <2>2. CASE Grows
    <3>1. packets' = packets /\ \A i \in DOMAIN board' : i \in DOMAIN board \/ i = curID
      BY <2>2 DEF Grows
    <3> QED
      BY <1>1, <1>2, <2>1, <3>1 DEF IsPool, d
  <2>3. CASE \E b \in DOMAIN board : Shrinks(b)
    <3>1. PICK b \in DOMAIN board : Shrinks(b)
      BY <2>3
    <3>2. /\ packets'[Len(packets) + 1].type = "merge"
          /\ \A u \in 1..Len(packets) : packets'[u] = packets[u]
          /\ \A u \in 1..Len(packets') : u \in 1..Len(packets) \/ u = Len(packets) + 1
          /\ DOMAIN board' = DOMAIN board \ {b}
      BY <3>1, MergeSent DEF Shrinks
    <3> QED
      BY <1>1, <2>1, <3>2 DEF IsPool, d
  <2>4. CASE SendDonglePool
    <3> DEFINE p == [type |-> "pool", infos |-> Restrict(Board, Changed), board |-> Board,
                     score |-> score]
    <3>1. /\ packets' = Append(packets, p) /\ p \in PoolPackets
          /\ DOMAIN p.board = DOMAIN board /\ board' = board
      BY <2>4, TypedParts, SendFacts
    <3> HIDE DEF p
    <3>2. /\ packets'[Len(packets) + 1] = p
          /\ \A u \in 1..Len(packets) : packets'[u] = packets[u]
          /\ \A u \in 1..Len(packets') : u \in 1..Len(packets) \/ u = Len(packets) + 1
      BY <3>1, Lengthened
    <3> QED
      BY <1>1, <2>1, <3>1, <3>2 DEF IsPool, d
  <2> QED
    BY <1>4, <2>2, <2>3, <2>4, StepKinds
<1> QED
  BY <1>3, <1>4

\* The ids that were merged away were given out.
LEMMA GoneIds ==
  ASSUME Typed
  PROVE  /\ Len(packets) \in Nat /\ Len(reserve) \in Nat
         /\ \A k \in 1..Len(reserve) : reserve[k] \in Int /\ reserve[k] < curID
         /\ \A v \in 1..Len(packets) : IsMerge(v) =>
              packets[v].id \in Int /\ packets[v].id < curID
<1>1. \A k \in 1..Len(reserve) : reserve[k] \in DongleIds /\ reserve[k] < curID
  BY DEF Typed, ReserveTyped
<1>2. \A v \in 1..Len(packets) : IsMerge(v) =>
        packets[v].id \in DongleIds /\ packets[v].id < curID
  BY TypedParts, PacketFacts DEF Typed, PacketsTyped
<1>3. Len(packets) \in Nat /\ Len(reserve) \in Nat
  BY DEF Typed, PacketsTyped, ReserveTyped
<1> QED
  BY <1>1, <1>2, <1>3 DEF DongleIds

\* A step that takes no packet: all places stay, a merge may be added.
LEMMA NotTaken ==
  ASSUME Typed, [MirrorNext]_mirrorVars, ~coalesced', ~UpdateDongle, ~DeleteDongle
  PROVE  /\ reserve' = reserve
         /\ \A v \in 1..Len(packets) : v \in 1..Len(packets') /\ packets'[v] = packets[v]
         /\ \A v \in 1..Len(packets') : packets'[v].type = "merge" =>
              \/ v \in 1..Len(packets)
              \/ /\ v = Len(packets')
                 /\ \E b \in DOMAIN board : Shrinks(b) /\ packets'[v].id = b
<1>1. CASE Grows
  BY <1>1 DEF Grows, mirror
<1>2. CASE \E b \in DOMAIN board : Shrinks(b)
  <2>1. PICK b \in DOMAIN board : Shrinks(b)
    BY <1>2
  <2>2. /\ Len(packets) \in Nat /\ Len(packets') = Len(packets) + 1
        /\ packets'[Len(packets) + 1].id = b
        /\ \A u \in 1..Len(packets) : packets'[u] = packets[u]
        /\ \A u \in 1..Len(packets') : u \in 1..Len(packets) \/ u = Len(packets) + 1
        /\ reserve' = reserve
    BY <2>1, MergeSent DEF Shrinks, mirror
  <2>3. \A v \in 1..Len(packets) : v \in 1..Len(packets')
    BY <2>2
  <2> QED
    BY <2>1, <2>2, <2>3
<1>3. CASE SendDonglePool
  <2> DEFINE p == [type |-> "pool", infos |-> Restrict(Board, Changed), board |-> Board,
                   score |-> score]
  <2>1. packets' = Append(packets, p) /\ p \in PoolPackets /\ p.type = "pool"
    BY <1>3, TypedParts, SendFacts
  <2>2. reserve' = reserve
    BY <1>3 DEF SendDonglePool, mirror
  <2> HIDE DEF p
  <2>3. /\ Len(packets) \in Nat /\ Len(packets') = Len(packets) + 1
        /\ packets'[Len(packets) + 1] = p
        /\ \A u \in 1..Len(packets) : packets'[u] = packets[u]
        /\ \A u \in 1..Len(packets') : u \in 1..Len(packets) \/ u = Len(packets) + 1
    BY <2>1, Lengthened
  <2>4. \A v \in 1..Len(packets) : v \in 1..Len(packets')
    BY <2>3
  <2> QED
    BY <2>1, <2>2, <2>3, <2>4
<1> QED
  BY <1>1, <1>2, <1>3, StepKinds

\* Every step keeps what is gone out of the boards behind.
LEMMA GoneInTimeStep ==
  ASSUME Typed, GoneInTime, [MirrorNext]_mirrorVars, ~coalesced'
  PROVE  GoneInTime'
<1> DEFINE gone(id, w) ==
             /\ id \notin DOMAIN board'
             /\ \A u \in w..Len(packets') : packets'[u].type = "pool" =>
                  id \notin DOMAIN packets'[u].board
           inReserve == \A k \in 1..Len(reserve') : gone(reserve'[k], 1)
           onTheWay == \A v \in 1..Len(packets') : packets'[v].type = "merge" =>
                         gone(packets'[v].id, v + 1)
<1>1. inReserve /\ onTheWay => GoneInTime'
  BY DEF GoneInTime, GoneFrom, IsMerge, IsPool
<1>2. /\ Len(packets) \in Nat /\ Len(reserve) \in Nat
      /\ \A k \in 1..Len(reserve) : reserve[k] \in Int /\ reserve[k] < curID
      /\ \A v \in 1..Len(packets) : IsMerge(v) => packets[v].id \in Int /\ packets[v].id < curID
  BY GoneIds
<1>3. CASE ~UpdateDongle /\ ~DeleteDongle
  <2>1. ASSUME NEW id \in Int, id < curID, NEW w \in 1..(Len(packets) + 1), GoneFrom(id, w)
        PROVE  gone(id, w)
    <3>1. /\ id \notin DOMAIN board'
          /\ \A u \in 1..Len(packets') : u >= w - 0 /\ packets'[u].type = "pool" =>
               id \notin DOMAIN packets'[u].board
      BY <1>3, <2>1, GoneStep
    <3>2. \A u \in w..Len(packets') : u \in 1..Len(packets') /\ u >= w - 0
      BY <1>2
    <3> QED
      BY <3>1, <3>2
  <2>2. /\ reserve' = reserve
        /\ \A v \in 1..Len(packets) : packets'[v] = packets[v]
        /\ \A v \in 1..Len(packets') : packets'[v].type = "merge" =>
             \/ v \in 1..Len(packets)
             \/ /\ v = Len(packets')
                /\ \E b \in DOMAIN board : Shrinks(b) /\ packets'[v].id = b
    BY <1>3, NotTaken
  <2>3. inReserve
    <3>1. 1 \in 1..(Len(packets) + 1)
      BY <1>2
    <3> HIDE DEF gone
    <3> QED
      BY <1>2, <2>1, <2>2, <3>1 DEF GoneInTime
  <2>4. onTheWay
    <3> SUFFICES ASSUME NEW v \in 1..Len(packets'), packets'[v].type = "merge"
                 PROVE  gone(packets'[v].id, v + 1)
      OBVIOUS
    <3>1. CASE v \in 1..Len(packets)
      <4>1. IsMerge(v) /\ packets'[v] = packets[v] /\ v + 1 \in 1..(Len(packets) + 1)
        BY <1>2, <2>2, <3>1 DEF IsMerge
      <4>2. GoneFrom(packets[v].id, v + 1)
        BY <3>1, <4>1 DEF GoneInTime
      <4> HIDE DEF gone
      <4> QED
        BY <1>2, <2>1, <3>1, <4>1, <4>2
    <3>2. CASE v = Len(packets') /\ \E b \in DOMAIN board : Shrinks(b) /\ packets'[v].id = b
      BY <3>2 DEF Shrinks
    <3> QED
      BY <2>2, <3>1, <3>2
  <2> QED
    BY <1>1, <2>3, <2>4
<1>4. CASE UpdateDongle \/ DeleteDongle
  <2>1. ASSUME NEW id \in Int, id < curID, NEW w \in 1..(Len(packets) + 1), GoneFrom(id, w),
               NEW x \in Int, x >= 1, x >= w - 1
        PROVE  gone(id, x)
    <3>1. /\ id \notin DOMAIN board'
          /\ \A u \in 1..Len(packets') : u >= w - 1 /\ packets'[u].type = "pool" =>
               id \notin DOMAIN packets'[u].board
      BY <1>4, <2>1, GoneStep
    <3>2. \A u \in x..Len(packets') : u \in 1..Len(packets') /\ u >= w - 1
      BY <1>2, <2>1
    <3> QED
      BY <3>1, <3>2
  <2>2. \A v \in 1..Len(packets') : v + 1 \in 2..Len(packets) /\ packets'[v] = packets[v + 1]
    BY <1>4, Shortened
  <2>3. \A k \in 1..Len(reserve) : gone(reserve[k], 1)
    <3>1. 1 \in 1..(Len(packets) + 1) /\ 1 \in Int /\ 1 >= 1 /\ 1 >= 1 - 1
      BY <1>2
    <3> HIDE DEF gone
    <3> QED
      BY <1>2, <2>1, <3>1 DEF GoneInTime
  <2>4. onTheWay
    <3> SUFFICES ASSUME NEW v \in 1..Len(packets'), packets'[v].type = "merge"
                 PROVE  gone(packets'[v].id, v + 1)
      OBVIOUS
    <3>1. /\ v + 1 \in 1..Len(packets) /\ packets'[v] = packets[v + 1] /\ IsMerge(v + 1)
          /\ (v + 1) + 1 \in 1..(Len(packets) + 1)
          /\ v + 1 \in Int /\ v + 1 >= 1 /\ v + 1 >= ((v + 1) + 1) - 1
      BY <1>2, <2>2 DEF IsMerge
    <3>2. GoneFrom(packets[v + 1].id, (v + 1) + 1)
      BY <3>1 DEF GoneInTime
    <3> HIDE DEF gone
    <3> QED
      BY <1>2, <2>1, <3>1, <3>2
  <2>5. inReserve
    <3>1. CASE DeleteDongle
      <4>1. /\ IsMerge(1) /\ reserve'[Len(reserve) + 1] = packets[1].id
            /\ \A k \in 1..Len(reserve) : reserve'[k] = reserve[k]
            /\ \A k \in 1..Len(reserve') : k \in 1..Len(reserve) \/ k = Len(reserve) + 1
        BY <3>1, Reserved
      <4>2. gone(packets[1].id, 1)
        <5>1. 1 \in 1..Len(packets)
          BY <1>4, Shortened
        <5>2. 1 + 1 \in 1..(Len(packets) + 1) /\ 1 \in Int /\ 1 >= 1 /\ 1 >= (1 + 1) - 1
          BY <1>2, <5>1
        <5>3. GoneFrom(packets[1].id, 1 + 1)
          BY <4>1, <5>1 DEF GoneInTime
        <5> HIDE DEF gone
        <5> QED
          BY <1>2, <2>1, <4>1, <5>1, <5>2, <5>3
      <4> HIDE DEF gone
      <4> QED
        BY <2>3, <4>1, <4>2
    <3>2. CASE UpdateDongle
      <4>1. reserve' = reserve \/ reserve' = <<>>
        BY <3>2, TypedParts, UpdateFacts
      <4> HIDE DEF gone
      <4> QED
        BY <2>3, <4>1
    <3> QED
      BY <1>4, <3>1, <3>2
  <2> QED
    BY <1>1, <2>4, <2>5
<1> QED
  BY <1>3, <1>4

\* No dongle is merged away twice: what is gone is not on the board.
LEMMA DifferentStep ==
  ASSUME Typed, AllDifferent, GoneInTime, [MirrorNext]_mirrorVars, ~coalesced'
  PROVE  AllDifferent'
<1> DEFINE merge(v) == packets'[v].type = "merge"
           inReserve == \A j, k \in 1..Len(reserve') : j # k => reserve'[j] # reserve'[k]
           onTheWay == \A v, w \in 1..Len(packets') : v # w /\ merge(v) /\ merge(w) =>
                         packets'[v].id # packets'[w].id
           between == \A k \in 1..Len(reserve'), v \in 1..Len(packets') : merge(v) =>
                        reserve'[k] # packets'[v].id
<1>1. inReserve /\ onTheWay /\ between => AllDifferent'
  BY DEF AllDifferent, IsMerge
<1>2. Len(packets) \in Nat /\ Len(reserve) \in Nat
  BY GoneIds
<1>3. CASE ~UpdateDongle /\ ~DeleteDongle
  <2>1. /\ reserve' = reserve
        /\ \A v \in 1..Len(packets) : packets'[v] = packets[v]
        /\ \A v \in 1..Len(packets') : merge(v) =>
             \/ v \in 1..Len(packets)
             \/ /\ v = Len(packets')
                /\ \E b \in DOMAIN board : Shrinks(b) /\ packets'[v].id = b
    BY <1>3, NotTaken
  <2>2. \A v \in 1..Len(packets') : merge(v) =>
          \/ v \in 1..Len(packets) /\ IsMerge(v) /\ packets'[v] = packets[v]
          \/ v = Len(packets') /\ packets'[v].id \in DOMAIN board
    BY <2>1 DEF IsMerge
  <2>3. /\ \A k \in 1..Len(reserve) : reserve[k] \notin DOMAIN board
        /\ \A v \in 1..Len(packets) : IsMerge(v) => packets[v].id \notin DOMAIN board
    BY DEF GoneInTime, GoneFrom
  <2> HIDE DEF merge
  <2>4. inReserve
    BY <2>1 DEF AllDifferent
  <2>5. onTheWay
    BY <2>2, <2>3 DEF AllDifferent
  <2>6. between
    BY <2>1, <2>2, <2>3 DEF AllDifferent
  <2> QED
    BY <1>1, <2>4, <2>5, <2>6
<1>4. CASE UpdateDongle \/ DeleteDongle
  <2>1. \A v \in 1..Len(packets') : v + 1 \in 2..Len(packets) /\ packets'[v] = packets[v + 1]
    BY <1>4, Shortened
  <2>2. \A v \in 1..Len(packets') : merge(v) => v + 1 \in 1..Len(packets) /\ IsMerge(v + 1)
    BY <1>2, <2>1 DEF IsMerge
  <2>3. \A v, w \in 1..Len(packets') : v # w => v + 1 # w + 1
    OBVIOUS
  <2>4. onTheWay
    <3> SUFFICES ASSUME NEW v \in 1..Len(packets'), NEW w \in 1..Len(packets'),
                        v # w, merge(v), merge(w)
                 PROVE  packets'[v].id # packets'[w].id
      OBVIOUS
    <3>1. /\ v + 1 \in 1..Len(packets) /\ IsMerge(v + 1) /\ packets'[v] = packets[v + 1]
          /\ w + 1 \in 1..Len(packets) /\ IsMerge(w + 1) /\ packets'[w] = packets[w + 1]
          /\ v + 1 # w + 1
      BY <2>1, <2>2, <2>3
    <3>2. packets[v + 1].id # packets[w + 1].id
      BY <3>1 DEF AllDifferent
    <3> QED
      BY <3>1, <3>2
  <2>5. CASE DeleteDongle
    <3>1. /\ IsMerge(1) /\ reserve'[Len(reserve) + 1] = packets[1].id
          /\ \A k \in 1..Len(reserve) : reserve'[k] = reserve[k]
          /\ \A k \in 1..Len(reserve') : k \in 1..Len(reserve) \/ k = Len(reserve) + 1
      BY <2>5, Reserved
    <3>2. 1 \in 1..Len(packets) /\ \A v \in 1..Len(packets') : v + 1 # 1
      BY <2>5, Shortened
    <3>3. \A k \in 1..Len(reserve) : reserve[k] # packets[1].id
      BY <3>1, <3>2 DEF AllDifferent
    <3>4. inReserve
      BY <3>1, <3>3 DEF AllDifferent
    <3> HIDE DEF merge
    <3>5. between
      <4> SUFFICES ASSUME NEW k \in 1..Len(reserve'), NEW v \in 1..Len(packets'), merge(v)
                   PROVE  reserve'[k] # packets'[v].id
        OBVIOUS
      <4>1. v + 1 \in 1..Len(packets) /\ IsMerge(v + 1) /\ packets'[v] = packets[v + 1]
            /\ v + 1 # 1
        BY <2>1, <2>2, <3>2
      <4>2. packets[v + 1].id # packets[1].id
        BY <3>1, <3>2, <4>1 DEF AllDifferent
      <4>3. \A j \in 1..Len(reserve) : reserve[j] # packets[v + 1].id
        BY <4>1 DEF AllDifferent
      <4> QED
        BY <3>1, <4>1, <4>2, <4>3
    <3> QED
      BY <1>1, <2>4, <3>4, <3>5
  <2>6. CASE UpdateDongle
    <3>1. reserve' = reserve \/ reserve' = <<>>
      BY <2>6, TypedParts, UpdateFacts
    <3>2. CASE reserve' = <<>>
      <4>1. inReserve /\ between
        BY <3>2
      <4> QED
        BY <1>1, <2>4, <4>1
    <3>3. CASE reserve' = reserve
      <4>1. inReserve
        BY <3>3 DEF AllDifferent
      <4>2. between
        <5> SUFFICES ASSUME NEW k \in 1..Len(reserve), NEW v \in 1..Len(packets'), merge(v)
                     PROVE  reserve[k] # packets'[v].id
          BY <3>3
        <5>1. v + 1 \in 1..Len(packets) /\ IsMerge(v + 1) /\ packets'[v] = packets[v + 1]
          BY <2>1, <2>2
        <5>2. reserve[k] # packets[v + 1].id
          BY <5>1 DEF AllDifferent
        <5> QED
          BY <5>1, <5>2
      <4> QED
        BY <1>1, <2>4, <4>1, <4>2
    <3> QED
      BY <3>1, <3>2, <3>3
  <2> QED
    BY <1>4, <2>5, <2>6
<1> QED
  BY <1>3, <1>4

\* Both parts together.
LEMMA MergedAwayStep == ASSUME Typed, MergedAway, [MirrorNext]_mirrorVars PROVE MergedAway'
<1> SUFFICES ASSUME ~coalesced'
             PROVE  (AllDifferent /\ GoneInTime)'
  BY MergedAwayNext
<1>1. AllDifferent /\ GoneInTime
  BY AstrayStays, MergedAwayParts
<1> QED
  BY <1>1, DifferentStep, GoneInTimeStep

\* From the board the mirror shows to the next that is told.
LEMMA NextBoard ==
  ASSUME Typed, Linked, MergedAway, ~Astray, IsPool(1), 1 \in 1..Len(packets)
  PROVE  /\ DOMAIN packets[1].infos \subseteq DOMAIN packets[1].board
         /\ \A id \in DOMAIN packets[1].infos : packets[1].infos[id] = packets[1].board[id]
         /\ \A k \in 1..Len(reserve) : /\ reserve[k] \in DOMAIN shown.board
                                       /\ reserve[k] \notin DOMAIN packets[1].board
         /\ \A id \in DOMAIN shown.board :
              id \in DOMAIN packets[1].board \/ \E k \in 1..Len(reserve) : reserve[k] = id
         /\ \A id \in DOMAIN packets[1].board \ DOMAIN packets[1].infos :
              id \in DOMAIN shown.board /\ shown.board[id] = packets[1].board[id]
<1>1. /\ Snapshot(0) = shown.board /\ Consecutive(0, 1)
      /\ MergesBetween(0, 1) = {reserve[k] : k \in 1..Len(reserve)}
      /\ 0 \in 0..(1 - 1)
  BY DEF Snapshot, Consecutive, MergesBetween
<1>2. /\ Lost(shown.board, MergesBetween(0, 1), packets[1].board)
      /\ \A id \in DOMAIN packets[1].board \ DOMAIN packets[1].infos :
           id \in DOMAIN shown.board /\ shown.board[id] = packets[1].board[id]
  BY <1>1 DEF Linked
<1>3. /\ DOMAIN packets[1].infos \subseteq DOMAIN packets[1].board
      /\ \A id \in DOMAIN packets[1].infos : packets[1].infos[id] = packets[1].board[id]
  BY DEF Linked
<1>4. \A k \in 1..Len(reserve) : reserve[k] \notin DOMAIN packets[1].board
  BY DEF MergedAway, Astray
<1> QED
  BY <1>1, <1>2, <1>3, <1>4 DEF Lost

\* An id the player has merged away before is not told again.
LEMMA RetiredParts ==
  Retired <=> (~Astray => \A id \in DOMAIN enemyMap \ DOMAIN shown.board : GoneFrom(id, 1))
BY DEF Retired, GoneFrom

\* Every step keeps the ids of gone dongles retired.
LEMMA RetiredStep ==
  ASSUME Typed, Linked, MergedAway, Retired, [MirrorNext]_mirrorVars
  PROVE  Retired'
<1> SUFFICES ASSUME ~Astray', NEW id \in DOMAIN enemyMap' \ DOMAIN shown'.board
             PROVE  /\ id \notin DOMAIN board'
                    /\ \A w \in 1..Len(packets') : packets'[w].type = "pool" =>
                         id \notin DOMAIN packets'[w].board
  BY DEF Retired, IsPool
<1>1. ~Astray /\ ~coalesced' /\ ~coalesced
  BY AstrayStays DEF Astray
<1>2. Len(packets) \in Nat
  BY GoneIds
<1>3. \A i \in DOMAIN enemyMap : i \in Int /\ i < curID
  BY DEF Typed, ObjectsTyped, DongleIds
<1>4. ASSUME NEW i \in Int, i < curID, GoneFrom(i, 1)
      PROVE  /\ i \notin DOMAIN board'
             /\ \A w \in 1..Len(packets') : packets'[w].type = "pool" =>
                  i \notin DOMAIN packets'[w].board
  <2> DEFINE d == IF (UpdateDongle \/ DeleteDongle) THEN 1 ELSE 0
  <2>1. 1 \in 1..(Len(packets) + 1) /\ d \in {0, 1}
    BY <1>2
  <2>2. /\ i \notin DOMAIN board'
        /\ \A u \in 1..Len(packets') : u >= 1 - d /\ packets'[u].type = "pool" =>
             i \notin DOMAIN packets'[u].board
    BY <1>1, <1>4, <2>1, GoneStep
  <2> HIDE DEF d
  <2>3. \A u \in 1..Len(packets') : u >= 1 - d
    BY <2>1
  <2> QED
    BY <2>2, <2>3
<1>5. CASE ~UpdateDongle
  <2>1. id \in DOMAIN enemyMap \ DOMAIN shown.board
    BY <1>5, OthersFacts
  <2>2. GoneFrom(id, 1)
    BY <1>1, <2>1, RetiredParts
  <2> QED
    BY <1>3, <1>4, <2>1, <2>2
<1>6. CASE UpdateDongle
  <2>1. /\ IsPool(1) /\ enemyMap' = AppliedMap /\ shown'.board = packets[1].board
        /\ packets[1].infos \in Boards
    BY <1>6, TypedParts, UpdateFacts
  <2>2. 1 \in 1..Len(packets)
    BY <1>6, Shortened
  <2>3. DOMAIN AppliedMap = DOMAIN enemyMap \cup DOMAIN packets[1].infos
    BY <2>1, TypedParts, MapFacts DEF AppliedMap
  <2>4. /\ DOMAIN packets[1].infos \subseteq DOMAIN packets[1].board
        /\ \A i \in DOMAIN shown.board :
             i \in DOMAIN packets[1].board \/ \E k \in 1..Len(reserve) : reserve[k] = i
    BY <1>1, <2>1, <2>2, NextBoard
  <2>5. id \in DOMAIN enemyMap /\ id \notin DOMAIN packets[1].board
    BY <2>1, <2>3, <2>4
  <2>6. CASE id \notin DOMAIN shown.board
    <3>1. GoneFrom(id, 1)
      BY <1>1, <2>5, <2>6, RetiredParts
    <3> QED
      BY <1>3, <1>4, <2>5, <3>1
  <2>7. CASE id \in DOMAIN shown.board
    <3>1. PICK k \in 1..Len(reserve) : reserve[k] = id
      BY <2>4, <2>5, <2>7
    <3>2. GoneFrom(id, 1)
      BY <1>1, <3>1, MergedAwayParts DEF GoneInTime
    <3> QED
      BY <1>3, <1>4, <2>5, <3>2
  <2> QED
    BY <2>6, <2>7
<1> QED
  BY <1>5, <1>6

------------------------------------------------------------------------------
(* Snapshots follow each other *)

\* In a mirror that is not astray, the ids that matter have an object each.
LEMMA MapOneToOne ==
  ASSUME Typed, Linked, MergedAway, Retired, Faithful, ~Astray, UpdateDongle,
         NEW x \in DOMAIN packets[1].infos \cup DOMAIN shown.board,
         NEW y \in DOMAIN packets[1].infos \cup DOMAIN shown.board, x # y
  PROVE  AppliedMap[x] # AppliedMap[y]
<1> DEFINE infos == packets[1].infos
<1>1. MirrorTypes /\ MirrorData
  BY TypedParts
<1>2. IsPool(1) /\ infos \in Boards /\ 1 \in 1..Len(packets)
  BY <1>1, UpdateFacts, Shortened
<1>3. /\ DOMAIN infos \subseteq DOMAIN packets[1].board
  BY <1>2, NextBoard
<1>4. /\ \A id \in DOMAIN enemyMap : AppliedMap[id] = enemyMap[id]
      /\ \A id \in Unknown(infos) :
           \/ \E j \in (Len(pool) - Taken(infos) + 1)..Len(pool) : AppliedMap[id] = pool[j]
           \/ AppliedMap[id] \in (Len(objects) + 1)..(Len(objects) + Created(infos))
      /\ \A i, j \in Unknown(infos) : i # j => AppliedMap[i] # AppliedMap[j]
      /\ Taken(infos) \in 0..Len(pool)
  BY <1>1, <1>2, MapFacts DEF AppliedMap
<1>5. /\ Len(objects) \in Nat /\ DOMAIN objects = 1..Len(objects) /\ Len(pool) \in Nat
      /\ \A k \in 1..Len(pool) : ~objects[pool[k]].active
      /\ \A id \in DOMAIN enemyMap : enemyMap[id] \in 1..Len(objects)
  <2>1. /\ Len(objects) \in Nat /\ DOMAIN objects = 1..Len(objects) /\ Len(pool) \in Nat
        /\ DOMAIN pool = 1..Len(pool)
    BY DEF Typed, ObjectsTyped
  <2> QED
    BY <2>1 DEF Typed, ObjectsTyped
<1>6. \A id \in DOMAIN shown.board : /\ id \in DOMAIN enemyMap
                                     /\ objects[enemyMap[id]].active
                                     /\ objects[enemyMap[id]].id = id
  <2> SUFFICES ASSUME NEW id \in DOMAIN shown.board
               PROVE  /\ id \in DOMAIN enemyMap
                      /\ objects[enemyMap[id]].active
                      /\ objects[enemyMap[id]].id = id
    OBVIOUS
  <2>1. /\ id \in DOMAIN enemyMap
        /\ objects[enemyMap[id]] = [active |-> TRUE, id |-> id,
                                    level |-> shown.board[id].level,
                                    pos |-> shown.board[id].pos]
    BY DEF Faithful
  <2> QED
    BY <2>1
<1>7. \A id \in DOMAIN infos : id \in Unknown(infos) \/ id \in DOMAIN shown.board
  <2> SUFFICES ASSUME NEW id \in DOMAIN infos, id \in DOMAIN enemyMap, id \notin DOMAIN shown.board
               PROVE  FALSE
    BY DEF Unknown
  <2>1. id \notin DOMAIN packets[1].board
    BY <1>2 DEF Retired
  <2> QED
    BY <1>3, <2>1
<1>8. ASSUME NEW i \in DOMAIN shown.board, NEW j \in Unknown(infos)
      PROVE  AppliedMap[i] # AppliedMap[j]
  <2>1. /\ AppliedMap[i] = enemyMap[i] /\ enemyMap[i] \in 1..Len(objects)
        /\ objects[enemyMap[i]].active
    BY <1>4, <1>5, <1>6
  <2>2. CASE \E k \in (Len(pool) - Taken(infos) + 1)..Len(pool) : AppliedMap[j] = pool[k]
    <3>1. PICK k \in (Len(pool) - Taken(infos) + 1)..Len(pool) : AppliedMap[j] = pool[k]
      BY <2>2
    <3>2. k \in 1..Len(pool)
      BY <1>4, <1>5
    <3> QED
      BY <1>5, <2>1, <3>1, <3>2
  <2>3. CASE AppliedMap[j] \in (Len(objects) + 1)..(Len(objects) + Created(infos))
    BY <1>5, <2>1, <2>3
  <2> QED
    BY <1>4, <2>2, <2>3
<1>9. ASSUME NEW i \in DOMAIN shown.board, NEW j \in DOMAIN shown.board, i # j
      PROVE  AppliedMap[i] # AppliedMap[j]
  BY <1>4, <1>6, <1>9
<1> QED
  BY <1>4, <1>7, <1>8, <1>9

\* An update then releases all that is reserved.
LEMMA NoThrow ==
  ASSUME Typed, Linked, MergedAway, Retired, Faithful, ~Astray, UpdateDongle
  PROVE  StopAt = Len(reserve) + 1 /\ reserve' = <<>>
<1>1. MirrorTypes /\ MirrorData
  BY TypedParts
<1>2. /\ IsPool(1) /\ packets[1].infos \in Boards /\ 1 \in 1..Len(packets)
      /\ reserve' = IF StopAt <= Len(reserve) THEN reserve ELSE <<>>
  BY <1>1, UpdateFacts, Shortened
<1>3. /\ DOMAIN AppliedMap = DOMAIN enemyMap \cup DOMAIN packets[1].infos
      /\ \A id \in DOMAIN enemyMap : AppliedMap[id] = enemyMap[id]
  BY <1>1, <1>2, MapFacts DEF AppliedMap
<1>4. \A k \in 1..Len(reserve) : reserve[k] \in DOMAIN shown.board
  BY <1>2, NextBoard
<1>5. ASSUME NEW k \in 1..Len(reserve)
      PROVE  ~Throws(k, AppliedMap, AppliedObjects)
  <2> DEFINE id == reserve[k]
             o  == AppliedMap[id]
  <2>1. id \in DOMAIN shown.board
    BY <1>4
  <2>2. /\ id \in DOMAIN enemyMap
        /\ objects[enemyMap[id]] = [active |-> TRUE, id |-> id,
                                    level |-> shown.board[id].level,
                                    pos |-> shown.board[id].pos]
    BY <2>1 DEF Faithful
  <2> HIDE DEF id
  <2>3. objects[o].active = TRUE /\ id \in DOMAIN AppliedMap
    BY <1>3, <2>2
  <2>4. o \in DOMAIN AppliedObjects
    BY <1>1, <1>2, <2>3, ObjectsFacts DEF AppliedObjects, AppliedMap
  <2>5. AppliedObjects[o].active
    <3>1. CASE \E i \in Unknown(packets[1].infos) : AppliedMap[i] = o
      BY <1>1, <1>2, <3>1, ObjectsFacts DEF AppliedObjects, AppliedMap
    <3>2. CASE \A i \in Unknown(packets[1].infos) : AppliedMap[i] # o
      <4>1. AppliedObjects[o].active = objects[o].active
        BY <1>1, <1>2, <2>4, <3>2, ObjectsFacts DEF AppliedObjects, AppliedMap
      <4> QED
        BY <2>3, <4>1
    <3> QED
      BY <3>1, <3>2
  <2>6. \A j \in 1..(k - 1) : AppliedMap[reserve[j]] # o
    <3> SUFFICES ASSUME NEW j \in 1..(k - 1)
                 PROVE  AppliedMap[reserve[j]] # o
      OBVIOUS
    <3>1. j \in 1..Len(reserve) /\ j # k
      BY GoneIds
    <3>2. reserve[j] # id /\ reserve[j] \in DOMAIN shown.board
      BY <1>4, <3>1, MergedAwayParts DEF Astray, AllDifferent, id
    <3> QED
      BY <2>1, <3>2, MapOneToOne
  <2> QED
    BY <2>3, <2>5, <2>6 DEF Throws, id
<1>6. StopAt = Len(reserve) + 1
  <2>1. reserve \in Seq(DongleIds)
    BY <1>1 DEF MirrorData
  <2> QED
    BY <1>5, <2>1, StopFacts DEF StopAt
<1> QED
  BY <1>2, <1>6, GoneIds

\* The objects that no new id has, and that no id of the update has.
LEMMA UntoldObjects ==
  ASSUME Typed, UpdateDongle, NEW o \in DOMAIN AppliedObjects
  PROVE  /\ (\A id \in DOMAIN packets[1].infos : AppliedMap[id] # o) =>
              AppliedObjects[o] = objects[o]
         /\ (\A id \in Unknown(packets[1].infos) : AppliedMap[id] # o) =>
              AppliedObjects[o].active = objects[o].active
<1>1. MirrorTypes /\ MirrorData
  BY TypedParts
<1>2. packets[1].infos \in Boards
  BY <1>1, UpdateFacts
<1>3. AppliedMap = MapWith(packets[1].infos)
      /\ AppliedObjects = ObjectsWith(packets[1].infos, AppliedMap)
  BY DEF AppliedMap, AppliedObjects
<1> QED
  BY <1>1, <1>2, <1>3, ObjectsFacts

\* An update turns one snapshot into the next, object by object.
LEMMA FaithfulStep ==
  ASSUME Typed, Owned, Linked, MergedAway, Retired, Faithful, [MirrorNext]_mirrorVars
  PROVE  Faithful'
<1> SUFFICES ASSUME ~Astray'
             PROVE  /\ \A id \in DOMAIN shown'.board :
                         /\ id \in DOMAIN enemyMap'
                         /\ objects'[enemyMap'[id]] =
                              [active |-> TRUE, id |-> id,
                               level |-> shown'.board[id].level,
                               pos |-> shown'.board[id].pos]
                    /\ \A o \in Active' : objects'[o].id \in DOMAIN shown'.board
  BY DEF Faithful
<1>1. ~Astray
  BY AstrayStays
<1>2. CASE ~UpdateDongle
  <2>1. UNCHANGED <<objects, pool, enemyMap, shown>>
    BY <1>2, OthersFacts
  <2> QED
    BY <1>1, <2>1 DEF Faithful, Active
<1>3. CASE UpdateDongle
  <2> DEFINE infos == packets[1].infos
             next  == packets[1].board
             row(id) == [active |-> TRUE, id |-> id,
                         level |-> shown.board[id].level, pos |-> shown.board[id].pos]
  <2>1. MirrorTypes /\ MirrorData
    BY TypedParts
  <2>2. /\ IsPool(1) /\ infos \in Boards /\ 1 \in 1..Len(packets)
        /\ shown'.board = next /\ enemyMap' = AppliedMap
        /\ objects' \in Seq(Objects) /\ DOMAIN objects' = DOMAIN AppliedObjects
        /\ \A o \in DOMAIN AppliedObjects :
             /\ objects'[o].active <=> AppliedObjects[o].active /\ ~Released(o)
             /\ objects'[o].id = AppliedObjects[o].id
             /\ objects'[o].level = AppliedObjects[o].level
             /\ objects'[o].pos = AppliedObjects[o].pos
    BY <1>3, <2>1, UpdateFacts, Shortened
  <2>3. /\ DOMAIN AppliedMap = DOMAIN enemyMap \cup DOMAIN infos
        /\ \A id \in DOMAIN enemyMap : AppliedMap[id] = enemyMap[id]
    BY <2>1, <2>2, MapFacts DEF AppliedMap
  <2>4. /\ DOMAIN infos \subseteq DOMAIN next
        /\ \A id \in DOMAIN infos : infos[id] = next[id]
        /\ \A k \in 1..Len(reserve) : reserve[k] \in DOMAIN shown.board /\ reserve[k] \notin DOMAIN next
        /\ \A id \in DOMAIN shown.board :
             id \in DOMAIN next \/ \E k \in 1..Len(reserve) : reserve[k] = id
        /\ \A id \in DOMAIN next \ DOMAIN infos :
             id \in DOMAIN shown.board /\ shown.board[id] = next[id]
    BY <1>1, <2>2, NextBoard
  <2>5. /\ \A id \in DOMAIN shown.board : id \in DOMAIN enemyMap /\ objects[enemyMap[id]] = row(id)
        /\ \A o \in Active : objects[o].id \in DOMAIN shown.board
    BY <1>1 DEF Faithful
  <2>6. \A x, y \in DOMAIN infos \cup DOMAIN shown.board : x # y => AppliedMap[x] # AppliedMap[y]
    BY <1>1, <1>3, MapOneToOne
  <2>7. StopAt = Len(reserve) + 1 /\ Len(reserve) \in Nat
    BY <1>1, <1>3, NoThrow, GoneIds
  <2> HIDE DEF infos, next, row
  <2>8. /\ \A id \in DOMAIN next : id \in DOMAIN infos \cup DOMAIN shown.board
        /\ \A id \in DOMAIN next : id \in DOMAIN AppliedMap
    BY <2>3, <2>4, <2>5
  <2>9. \A id \in DOMAIN next : ~Released(AppliedMap[id])
    <3> SUFFICES ASSUME NEW id \in DOMAIN next,
                        NEW k \in 1..Len(reserve), AppliedMap[reserve[k]] = AppliedMap[id]
                 PROVE  FALSE
      BY DEF Released
    <3>1. /\ reserve[k] \in DOMAIN infos \cup DOMAIN shown.board
          /\ id \in DOMAIN infos \cup DOMAIN shown.board /\ reserve[k] # id
      BY <2>4, <2>8
    <3> QED
      BY <2>6, <3>1
  <2>10. ASSUME NEW id \in DOMAIN next
         PROVE  LET o == AppliedMap[id] IN
                /\ o \in DOMAIN AppliedObjects /\ AppliedObjects[o].active
                /\ AppliedObjects[o].id = id
                /\ AppliedObjects[o].level = next[id].level
                /\ AppliedObjects[o].pos = next[id].pos
    <3> DEFINE o == AppliedMap[id]
    <3>1. o \in DOMAIN AppliedObjects
      BY <2>1, <2>2, <2>8, ObjectsFacts DEF AppliedObjects, AppliedMap, infos
    <3>2. id \in DOMAIN shown.board => o \in DOMAIN objects /\ objects[o] = row(id)
      <4>1. DOMAIN enemyMap \subseteq DOMAIN enemyMap
            /\ \A i \in DOMAIN enemyMap : enemyMap[i] \in DOMAIN objects
        BY DEF Typed, ObjectsTyped
      <4> QED
        BY <2>3, <2>5, <4>1
    <3>3. row(id).active = TRUE /\ row(id).id = id
          /\ row(id).level = shown.board[id].level /\ row(id).pos = shown.board[id].pos
      BY DEF row
    <3>4. AppliedObjects[o].active
      <4>1. CASE \E i \in Unknown(infos) : AppliedMap[i] = o
        BY <2>1, <2>2, <4>1, ObjectsFacts DEF AppliedObjects, AppliedMap, infos
      <4>2. CASE \A i \in Unknown(infos) : AppliedMap[i] # o
        <5>1. AppliedObjects[o].active = objects[o].active
          BY <1>3, <3>1, <4>2, UntoldObjects DEF infos
        <5>2. id \in DOMAIN shown.board
          <6>1. id \notin Unknown(infos)
            BY <4>2
          <6>2. id \in DOMAIN infos => id \in DOMAIN enemyMap
            BY <6>1 DEF Unknown
          <6>3. id \in DOMAIN enemyMap => id \in DOMAIN shown.board
            BY <1>1, <2>2 DEF Retired, next
          <6> QED
            BY <2>8, <6>2, <6>3
        <5> QED
          BY <3>2, <3>3, <5>1, <5>2
      <4> QED
        BY <4>1, <4>2
    <3>5. CASE id \in DOMAIN infos
      <4>1. PICK i \in DOMAIN infos :
              /\ AppliedMap[i] = o
              /\ AppliedObjects[o].id = i
              /\ AppliedObjects[o].level = infos[i].level /\ AppliedObjects[o].pos = infos[i].pos
        BY <2>1, <2>2, <3>1, <3>5, ObjectsFacts DEF AppliedObjects, AppliedMap, infos
      <4>2. i = id
        BY <2>6, <3>5, <4>1
      <4> QED
        BY <2>4, <3>1, <3>4, <3>5, <4>1, <4>2
    <3>6. CASE id \notin DOMAIN infos
      <4>1. id \in DOMAIN shown.board /\ shown.board[id] = next[id]
        BY <2>4, <3>6
      <4>2. \A i \in DOMAIN infos : AppliedMap[i] # o
        BY <2>6, <3>6, <4>1
      <4>3. AppliedObjects[o] = objects[o]
        BY <1>3, <3>1, <4>2, UntoldObjects DEF infos
      <4>4. objects[o] = row(id)
        BY <3>2, <4>1
      <4> QED
        BY <3>1, <3>3, <3>4, <4>1, <4>3, <4>4
    <3> QED
      BY <3>5, <3>6
  <2>11. ASSUME NEW id \in DOMAIN next
         PROVE  objects'[AppliedMap[id]] = [active |-> TRUE, id |-> id,
                                            level |-> next[id].level, pos |-> next[id].pos]
    <3> DEFINE o == AppliedMap[id]
    <3>1. /\ o \in DOMAIN AppliedObjects /\ AppliedObjects[o].active
          /\ AppliedObjects[o].id = id /\ ~Released(o)
          /\ AppliedObjects[o].level = next[id].level /\ AppliedObjects[o].pos = next[id].pos
      BY <2>9, <2>10
    <3> HIDE DEF o
    <3>2. objects'[o] \in Objects
      BY <2>2, <3>1
    <3>3. /\ objects'[o].active /\ objects'[o].id = id
          /\ objects'[o].level = next[id].level /\ objects'[o].pos = next[id].pos
      BY <2>2, <3>1
    <3>4. objects'[o].active = TRUE
      BY <3>2, <3>3 DEF Objects
    <3>5. objects'[o] = [active |-> objects'[o].active, id |-> objects'[o].id,
                         level |-> objects'[o].level, pos |-> objects'[o].pos]
      BY <3>2 DEF Objects
    <3> QED
      BY <3>3, <3>4, <3>5 DEF o
  <2>12. ASSUME NEW o \in Active'
         PROVE  objects'[o].id \in DOMAIN next
    <3> DEFINE id == objects'[o].id
    <3>1. /\ ~Released(o) /\ AppliedMap[id] = o
          /\ id \in DOMAIN infos \/ (o \in Active /\ id = objects[o].id)
      BY <1>3, ActiveAfter DEF infos
    <3> HIDE DEF id
    <3>2. id \in DOMAIN next \/ \E k \in 1..Len(reserve) : reserve[k] = id
      BY <2>4, <2>5, <3>1
    <3>3. ASSUME NEW k \in 1..Len(reserve), reserve[k] = id
          PROVE  FALSE
      <4>1. k < StopAt
        BY <2>7
      <4> QED
        BY <3>1, <3>3, <4>1 DEF Released
    <3> QED
      BY <3>2, <3>3 DEF id
  <2> QED
    BY <2>2, <2>8, <2>11, <2>12
<1> QED
  BY <1>2, <1>3

\* What lies between two packets stays while none is taken.
LEMMA Kept ==
  ASSUME Typed, [MirrorNext]_mirrorVars, ~coalesced', ~UpdateDongle, ~DeleteDongle,
         NEW w \in 1..(Len(packets) + 1), NEW u \in 0..(w - 1)
  PROVE  /\ Consecutive(u, w)' <=> Consecutive(u, w)
         /\ MergesBetween(u, w)' = MergesBetween(u, w)
         /\ Snapshot(u)' = Snapshot(u) /\ ScoreAt(u)' = ScoreAt(u)
<1>1. /\ reserve' = reserve /\ shown' = shown
      /\ \A v \in 1..Len(packets) : packets'[v] = packets[v]
  BY NotTaken, OthersFacts
<1>2. /\ \A v \in (u + 1)..(w - 1) : v \in 1..Len(packets)
      /\ u # 0 => u \in 1..Len(packets)
  BY GoneIds
<1>3. Snapshot(u)' = Snapshot(u) /\ ScoreAt(u)' = ScoreAt(u)
  BY <1>1, <1>2 DEF Snapshot, ScoreAt
<1>4. Consecutive(u, w)' <=> Consecutive(u, w)
  BY <1>1, <1>2 DEF Consecutive, IsPool, IsMerge
<1>5. MergesBetween(u, w)' = MergesBetween(u, w)
  <2>1. {packets'[v].id : v \in (u + 1)..(w - 1)} = {packets[v].id : v \in (u + 1)..(w - 1)}
    BY <1>1, <1>2
  <2>2. {reserve'[k] : k \in 1..Len(reserve')} = {reserve[k] : k \in 1..Len(reserve)}
    BY <1>1
  <2> QED
    BY <2>1, <2>2 DEF MergesBetween
<1> QED
  BY <1>3, <1>4, <1>5

\* What lies between two packets when the first is taken: an update becomes the
\* last one applied, the id of a merge is reserved.
LEMMA Shifted ==
  ASSUME Typed, (UpdateDongle /\ reserve' = <<>>) \/ DeleteDongle,
         NEW w \in 1..(Len(packets') + 1), NEW u \in 0..(w - 1), Consecutive(u, w)'
  PROVE  \E x \in 0..w : /\ Consecutive(x, w + 1)
                         /\ MergesBetween(u, w)' = MergesBetween(x, w + 1)
                         /\ Snapshot(u)' = Snapshot(x) /\ ScoreAt(u)' = ScoreAt(x)
<1>1. /\ Len(packets) \in Nat /\ Len(packets') = Len(packets) - 1 /\ 1 \in 1..Len(packets)
      /\ \A v \in 1..Len(packets') : packets'[v] = packets[v + 1]
  BY Shortened
<1>2. /\ u # 0 => packets'[u].type = "pool"
      /\ \A v \in (u + 1)..(w - 1) : packets'[v].type = "merge"
  BY DEF Consecutive, IsPool, IsMerge
<1>3. /\ \A v \in (u + 1)..(w - 1) : v \in 1..Len(packets') /\ v + 1 \in (u + 2)..w
      /\ \A v \in (u + 2)..w : v - 1 \in (u + 1)..(w - 1) /\ (v - 1) + 1 = v
      /\ u # 0 => u \in 1..Len(packets')
  BY <1>1
<1>4. /\ \A v \in (u + 2)..w : packets[v] = packets'[v - 1] /\ packets[v].type = "merge"
      /\ u # 0 => packets[u + 1].type = "pool" /\ packets'[u] = packets[u + 1]
  BY <1>1, <1>2, <1>3
<1>5. {packets'[v].id : v \in (u + 1)..(w - 1)} = {packets[v].id : v \in (u + 2)..w}
  <2>1. ASSUME NEW v \in (u + 1)..(w - 1)
        PROVE  packets'[v].id \in {packets[i].id : i \in (u + 2)..w}
    BY <1>1, <1>3
  <2>2. ASSUME NEW v \in (u + 2)..w
        PROVE  packets[v].id \in {packets'[i].id : i \in (u + 1)..(w - 1)}
    BY <1>3, <1>4
  <2> QED
    BY <2>1, <2>2
<1>6. CASE u # 0 \/ UpdateDongle
  <2> DEFINE x == u + 1
  <2>1. /\ x \in 0..w /\ x # 0 /\ (x + 1)..((w + 1) - 1) = (u + 2)..w
    OBVIOUS
  <2>2. IsPool(x)
    <3>1. CASE u # 0
      BY <1>4, <3>1 DEF IsPool
    <3>2. CASE u = 0
      BY <1>6, <3>2, TypedParts, UpdateFacts
    <3> QED
      BY <3>1, <3>2
  <2>3. Consecutive(x, w + 1)
    BY <1>4, <2>1, <2>2 DEF Consecutive, IsMerge
  <2>4. MergesBetween(u, w)' = {packets'[v].id : v \in (u + 1)..(w - 1)}
    <3>1. CASE u # 0
      BY <3>1 DEF MergesBetween
    <3>2. CASE u = 0
      <4>1. UpdateDongle /\ reserve' = <<>>
        <5>1. ~DeleteDongle
          BY <1>6, <3>2 DEF UpdateDongle, DeleteDongle
        <5> QED
          BY <5>1
      <4>2. {reserve'[k] : k \in 1..Len(reserve')} = {}
        BY <4>1
      <4> QED
        BY <3>2, <4>2 DEF MergesBetween
    <3> QED
      BY <3>1, <3>2
  <2>5. MergesBetween(x, w + 1) = {packets[v].id : v \in (u + 2)..w}
    BY <2>1 DEF MergesBetween
  <2>6. Snapshot(u)' = Snapshot(x) /\ ScoreAt(u)' = ScoreAt(x)
    <3>1. CASE u # 0
      BY <1>4, <2>1, <3>1 DEF Snapshot, ScoreAt
    <3>2. CASE u = 0
      <4>1. shown'.board = packets[1].board /\ shown'.score = packets[1].score
        BY <1>6, <3>2, TypedParts, UpdateFacts
      <4> QED
        BY <3>2, <4>1 DEF Snapshot, ScoreAt
    <3> QED
      BY <3>1, <3>2
  <2> HIDE DEF x
  <2> QED
    BY <1>5, <2>1, <2>3, <2>4, <2>5, <2>6
<1>7. CASE u = 0 /\ DeleteDongle
  <2>1. /\ IsMerge(1) /\ Len(reserve) \in Nat /\ Len(reserve') = Len(reserve) + 1
        /\ reserve'[Len(reserve) + 1] = packets[1].id
        /\ \A k \in 1..Len(reserve) : reserve'[k] = reserve[k]
        /\ \A k \in 1..Len(reserve') : k \in 1..Len(reserve) \/ k = Len(reserve) + 1
    BY <1>7, Reserved
  <2>2. {reserve'[k] : k \in 1..Len(reserve')} =
          {reserve[k] : k \in 1..Len(reserve)} \cup {packets[1].id}
    <3>1. Len(reserve) + 1 \in 1..Len(reserve')
          /\ \A k \in 1..Len(reserve) : k \in 1..Len(reserve')
      BY <2>1
    <3> QED
      BY <2>1, <3>1
  <2>3. /\ 0 \in 0..w /\ (0 + 1)..((w + 1) - 1) = 1..w
        /\ \A v \in 1..w : v = 1 \/ v \in (u + 2)..w
        /\ \A v \in (u + 2)..w : v \in 1..w
        /\ 1 \in 1..w
    BY <1>7
  <2>4. Consecutive(0, w + 1)
    BY <1>4, <2>1, <2>3 DEF Consecutive, IsMerge
  <2>5. {packets[v].id : v \in 1..w} = {packets[v].id : v \in (u + 2)..w} \cup {packets[1].id}
    BY <2>3
  <2>6. MergesBetween(0, w + 1) =
          {packets[v].id : v \in 1..w} \cup {reserve[k] : k \in 1..Len(reserve)}
    BY <2>3 DEF MergesBetween
  <2>7. MergesBetween(u, w)' = {packets'[v].id : v \in (u + 1)..(w - 1)}
                                 \cup {reserve'[k] : k \in 1..Len(reserve')}
    BY <1>7 DEF MergesBetween
  <2>8. Snapshot(u)' = Snapshot(0) /\ ScoreAt(u)' = ScoreAt(0)
    BY <1>7 DEF Snapshot, ScoreAt, DeleteDongle
  <2>9. MergesBetween(u, w)' = MergesBetween(0, w + 1)
    BY <1>5, <2>2, <2>5, <2>6, <2>7
  <2> QED
    BY <2>3, <2>4, <2>8, <2>9
<1> QED
  BY <1>6, <1>7

\* Every step keeps the chain of boards linked.
LEMMA LinkedStep ==
  ASSUME Typed, Linked, Current, MergedAway, Retired, Faithful, [MirrorNext]_mirrorVars
  PROVE  Linked'
<1> DEFINE infos(w) == packets'[w].infos
           next(w)  == packets'[w].board
<1> SUFFICES ASSUME ~Astray', NEW w \in 1..Len(packets'), packets'[w].type = "pool"
             PROVE  /\ DOMAIN infos(w) \subseteq DOMAIN next(w)
                    /\ \A id \in DOMAIN infos(w) : infos(w)[id] = next(w)[id]
                    /\ \A u \in 0..(w - 1) : Consecutive(u, w)' =>
                         /\ Lost(Snapshot(u)', MergesBetween(u, w)', next(w))
                         /\ \A id \in DOMAIN next(w) \ DOMAIN infos(w) :
                              id \in DOMAIN Snapshot(u)' /\ Snapshot(u)'[id] = next(w)[id]
  BY DEF Linked, IsPool, Lost
<1>1. ~Astray /\ ~coalesced'
  BY AstrayStays DEF Astray
<1>2. Len(packets) \in Nat
  BY GoneIds
<1>3. CASE ~UpdateDongle /\ ~DeleteDongle /\ w \in 1..Len(packets)
  <2>1. packets'[w] = packets[w] /\ IsPool(w)
    BY <1>1, <1>3, NotTaken DEF IsPool
  <2>2. /\ DOMAIN packets[w].infos \subseteq DOMAIN packets[w].board
        /\ \A id \in DOMAIN packets[w].infos : packets[w].infos[id] = packets[w].board[id]
        /\ \A u \in 0..(w - 1) : Consecutive(u, w) =>
             /\ Lost(Snapshot(u), MergesBetween(u, w), packets[w].board)
             /\ \A id \in DOMAIN packets[w].board \ DOMAIN packets[w].infos :
                  id \in DOMAIN Snapshot(u) /\ Snapshot(u)[id] = packets[w].board[id]
    BY <1>1, <1>3, <2>1 DEF Linked
  <2>3. \A u \in 0..(w - 1) : /\ Consecutive(u, w)' <=> Consecutive(u, w)
                              /\ MergesBetween(u, w)' = MergesBetween(u, w)
                              /\ Snapshot(u)' = Snapshot(u)
    <3>1. w \in 1..(Len(packets) + 1)
      BY <1>2, <1>3
    <3> QED
      BY <1>1, <1>3, <3>1, Kept
  <2> QED
    BY <2>1, <2>2, <2>3
<1>4. CASE SendDonglePool /\ w \notin 1..Len(packets)
  <2> DEFINE p == [type |-> "pool", infos |-> Restrict(Board, Changed), board |-> Board,
                   score |-> score]
  <2>1. /\ packets' = Append(packets, p) /\ p \in PoolPackets
        /\ DOMAIN p.infos = Changed /\ \A id \in Changed : p.infos[id] = p.board[id]
        /\ Changed \subseteq DOMAIN board /\ DOMAIN p.board = DOMAIN board
        /\ \A id \in DOMAIN board \ Changed : id \in DOMAIN previous /\ previous[id] = p.board[id]
    BY <1>4, TypedParts, SendFacts
  <2> HIDE DEF p
  <2>2. w = Len(packets) + 1 /\ packets'[w] = p
    BY <1>4, <2>1, Lengthened
  <2>3. ~UpdateDongle /\ ~DeleteDongle
    <3>1. Len(packets') = Len(packets) + 1
      BY <2>1, Lengthened
    <3>2. Len(packets') # Len(packets) - 1
      BY <1>2, <3>1
    <3> QED
      BY <3>2, Shortened
  <2>4. ASSUME NEW u \in 0..(w - 1), Consecutive(u, w)'
        PROVE  /\ Lost(Snapshot(u)', MergesBetween(u, w)', next(w))
               /\ \A id \in DOMAIN next(w) \ DOMAIN infos(w) :
                    id \in DOMAIN Snapshot(u)' /\ Snapshot(u)'[id] = next(w)[id]
    <3>1. w \in 1..(Len(packets) + 1) /\ u \in 0..Len(packets)
      BY <1>2, <2>2
    <3>2. /\ Consecutive(u, w) /\ MergesBetween(u, w)' = MergesBetween(u, w)
          /\ Snapshot(u)' = Snapshot(u)
      BY <1>1, <2>3, <2>4, <3>1, Kept
    <3>3. /\ Lost(Snapshot(u), MergesBetween(u, w), board)
          /\ \A id \in DOMAIN Snapshot(u) : id \in DOMAIN previous /\ previous[id] = Snapshot(u)[id]
          /\ DOMAIN board \cap DOMAIN previous \subseteq DOMAIN Snapshot(u)
      BY <1>1, <2>2, <3>1, <3>2 DEF Current
    <3>4. Lost(Snapshot(u), MergesBetween(u, w), p.board)
      BY <2>1, <3>3 DEF Lost
    <3>5. \A id \in DOMAIN p.board \ DOMAIN p.infos :
            id \in DOMAIN Snapshot(u) /\ Snapshot(u)[id] = p.board[id]
      BY <2>1, <3>3
    <3> QED
      BY <2>2, <3>2, <3>4, <3>5
  <2> QED
    BY <2>1, <2>2, <2>4
<1>5. CASE UpdateDongle \/ DeleteDongle
  <2>1. /\ w + 1 \in 1..Len(packets) /\ packets'[w] = packets[w + 1] /\ IsPool(w + 1)
    <3>1. w + 1 \in 2..Len(packets) /\ packets'[w] = packets[w + 1]
      BY <1>5, Shortened
    <3> QED
      BY <1>2, <3>1 DEF IsPool
  <2>2. (UpdateDongle /\ reserve' = <<>>) \/ DeleteDongle
    BY <1>1, <1>5, NoThrow
  <2>3. /\ DOMAIN infos(w) \subseteq DOMAIN next(w)
        /\ \A id \in DOMAIN infos(w) : infos(w)[id] = next(w)[id]
        /\ \A x \in 0..w : Consecutive(x, w + 1) =>
             /\ Lost(Snapshot(x), MergesBetween(x, w + 1), next(w))
             /\ \A id \in DOMAIN next(w) \ DOMAIN infos(w) :
                  id \in DOMAIN Snapshot(x) /\ Snapshot(x)[id] = next(w)[id]
    <3>1. (w + 1) - 1 = w
      OBVIOUS
    <3> QED
      BY <1>1, <2>1, <3>1 DEF Linked
  <2>4. ASSUME NEW u \in 0..(w - 1), Consecutive(u, w)'
        PROVE  /\ Lost(Snapshot(u)', MergesBetween(u, w)', next(w))
               /\ \A id \in DOMAIN next(w) \ DOMAIN infos(w) :
                    id \in DOMAIN Snapshot(u)' /\ Snapshot(u)'[id] = next(w)[id]
    <3>1. w \in 1..(Len(packets') + 1)
      BY <1>2, <1>5, Shortened
    <3>2. PICK x \in 0..w : /\ Consecutive(x, w + 1)
                            /\ MergesBetween(u, w)' = MergesBetween(x, w + 1)
                            /\ Snapshot(u)' = Snapshot(x)
      BY <2>2, <2>4, <3>1, Shifted
    <3> HIDE DEF next, infos
    <3> QED
      BY <2>3, <3>2
  <2> QED
    BY <2>3, <2>4
<1>6. w \notin 1..Len(packets) => SendDonglePool \/ UpdateDongle \/ DeleteDongle
  <2>1. ASSUME Grows
        PROVE  w \in 1..Len(packets)
    BY <2>1 DEF Grows
  <2>2. ASSUME NEW b \in DOMAIN board, Shrinks(b)
        PROVE  w \in 1..Len(packets)
    BY <2>2, MergeSent
  <2> QED
    BY <1>1, <2>1, <2>2, StepKinds
<1> QED
  BY <1>3, <1>4, <1>5, <1>6

\* Every step keeps the player's board linked to the last update sent.
LEMMA CurrentStep ==
  ASSUME Typed, Linked, Current, MergedAway, Retired, Faithful, [MirrorNext]_mirrorVars
  PROVE  Current'
<1> SUFFICES ASSUME ~Astray', NEW last, last = Len(packets') + 1,
                    NEW u \in 0..Len(packets'), Consecutive(u, last)'
             PROVE  /\ Lost(Snapshot(u)', MergesBetween(u, last)', board')
                    /\ \A id \in DOMAIN Snapshot(u)' :
                         id \in DOMAIN previous' /\ previous'[id] = Snapshot(u)'[id]
                    /\ DOMAIN board' \cap DOMAIN previous' \subseteq DOMAIN Snapshot(u)'
  BY DEF Current, Lost, Consecutive, MergesBetween, Snapshot, IsPool, IsMerge
<1>1. ~Astray /\ ~coalesced'
  BY AstrayStays DEF Astray
<1>2. Len(packets) \in Nat
  BY GoneIds
<1>3. \A x \in 0..Len(packets) : Consecutive(x, Len(packets) + 1) =>
        /\ Lost(Snapshot(x), MergesBetween(x, Len(packets) + 1), board)
        /\ \A id \in DOMAIN Snapshot(x) : id \in DOMAIN previous /\ previous[id] = Snapshot(x)[id]
        /\ DOMAIN board \cap DOMAIN previous \subseteq DOMAIN Snapshot(x)
  BY <1>1 DEF Current
<1>4. CASE Grows
  <2>1. /\ UNCHANGED <<packets, previous, reserve, shown>>
        /\ DOMAIN board \subseteq DOMAIN board'
        /\ \A id \in DOMAIN board' : id \in DOMAIN board \/ id = curID
    BY <1>4 DEF Grows, mirror
  <2>2. /\ last = Len(packets) + 1 /\ Consecutive(u, last) /\ u \in 0..Len(packets)
        /\ MergesBetween(u, last)' = MergesBetween(u, last) /\ Snapshot(u)' = Snapshot(u)
    BY <2>1 DEF Consecutive, MergesBetween, Snapshot, IsPool, IsMerge
  <2>3. curID \notin DOMAIN previous
    BY DEF Typed, PlayerTyped
  <2>4. Lost(Snapshot(u), MergesBetween(u, last), board')
    BY <1>3, <2>1, <2>2 DEF Lost
  <2> QED
    BY <1>3, <2>1, <2>2, <2>3, <2>4
<1>5. CASE \E b \in DOMAIN board : Shrinks(b)
  <2>1. PICK b \in DOMAIN board : Shrinks(b)
    BY <1>5
  <2>2. /\ Len(packets') = Len(packets) + 1
        /\ packets'[Len(packets) + 1].type = "merge" /\ packets'[Len(packets) + 1].id = b
        /\ DOMAIN board' = DOMAIN board \ {b} /\ previous' = previous
        /\ unseen' = (unseen \/ b \notin DOMAIN previous)
    BY <2>1, MergeSent DEF Shrinks
  <2>3. ~UpdateDongle /\ ~DeleteDongle
    <3>1. Len(packets') # Len(packets) - 1
      BY <1>2, <2>2
    <3> QED
      BY <3>1, Shortened
  <2>4. b \in DOMAIN previous
    BY <2>2 DEF Astray
  <2>5. PICK w : w = Len(packets) + 1
    OBVIOUS
  <2>6. w \in 1..(Len(packets) + 1) /\ w \in Nat /\ last = w + 1
    BY <1>2, <2>2, <2>5
  <2>7. /\ u # 0 => packets'[u].type = "pool"
        /\ \A v \in (u + 1)..(last - 1) : packets'[v].type = "merge"
    BY DEF Consecutive, IsPool, IsMerge
  <2>8. u \in 0..(w - 1)
    <3>1. u \in 0..w
      BY <1>2, <2>2, <2>5
    <3>2. u # w
      BY <2>2, <2>5, <2>6, <2>7
    <3> QED
      BY <2>6, <3>1, <3>2
  <2>9. Consecutive(u, w)'
    <3>1. \A v \in (u + 1)..(w - 1) : v \in (u + 1)..(last - 1)
      BY <2>6, <2>8
    <3>2. \A v \in (u + 1)..(w - 1) : packets'[v].type = "merge"
      BY <2>7, <3>1
    <3> QED
      BY <2>7, <3>2 DEF Consecutive, IsPool, IsMerge
  <2>10. /\ Consecutive(u, w) /\ MergesBetween(u, w)' = MergesBetween(u, w)
         /\ Snapshot(u)' = Snapshot(u)
    BY <1>1, <2>3, <2>6, <2>8, <2>9, Kept
  <2>11. MergesBetween(u, last)' = MergesBetween(u, w) \cup {b}
    <3>1. /\ \A v \in (u + 1)..(last - 1) : v = w \/ v \in (u + 1)..(w - 1)
          /\ \A v \in (u + 1)..(w - 1) : v \in (u + 1)..(last - 1)
          /\ w \in (u + 1)..(last - 1)
      BY <2>6, <2>8
    <3>2. {packets'[v].id : v \in (u + 1)..(last - 1)} =
            {packets'[v].id : v \in (u + 1)..(w - 1)} \cup {b}
      BY <2>2, <2>5, <3>1
    <3>3. MergesBetween(u, last)' = MergesBetween(u, w)' \cup {b}
      BY <3>2 DEF MergesBetween
    <3> QED
      BY <2>10, <3>3
  <2>12. /\ Lost(Snapshot(u), MergesBetween(u, w), board)
         /\ \A id \in DOMAIN Snapshot(u) : id \in DOMAIN previous /\ previous[id] = Snapshot(u)[id]
         /\ DOMAIN board \cap DOMAIN previous \subseteq DOMAIN Snapshot(u)
    <3>1. u \in 0..Len(packets)
      BY <1>2, <2>5, <2>8
    <3> QED
      BY <1>3, <2>5, <2>10, <3>1
  <2>13. Lost(Snapshot(u), MergesBetween(u, w) \cup {b}, board')
    BY <2>2, <2>4, <2>12 DEF Lost
  <2> QED
    BY <2>2, <2>10, <2>11, <2>12, <2>13
<1>6. CASE SendDonglePool
  <2> DEFINE p == [type |-> "pool", infos |-> Restrict(Board, Changed), board |-> Board,
                   score |-> score]
  <2>1. /\ packets' = Append(packets, p) /\ p \in PoolPackets /\ p.board = Board /\ p.type = "pool"
        /\ DOMAIN Board = DOMAIN board /\ board' = board /\ Changed \subseteq DOMAIN board
        /\ DOMAIN previous' = DOMAIN previous \cup Changed
        /\ \A id \in DOMAIN board : previous'[id] = Board[id]
        /\ \A id \in DOMAIN board \ Changed : id \in DOMAIN previous
    BY <1>6, TypedParts, SendFacts
  <2> HIDE DEF p
  <2>2. Len(packets') = Len(packets) + 1 /\ packets'[Len(packets) + 1] = p
    BY <2>1, Lengthened
  <2>3. /\ u # 0 => packets'[u].type = "pool"
        /\ \A v \in (u + 1)..(last - 1) : packets'[v].type = "merge"
    BY DEF Consecutive, IsPool, IsMerge
  <2>4. u = Len(packets) + 1
    <3> SUFFICES ASSUME u # Len(packets) + 1
                 PROVE  FALSE
      OBVIOUS
    <3>1. Len(packets) + 1 \in (u + 1)..(last - 1)
      BY <1>2, <2>2
    <3> QED
      BY <2>1, <2>2, <2>3, <3>1
  <2>5. u # 0 /\ Snapshot(u)' = Board
    <3>1. u # 0
      BY <1>2, <2>4
    <3> QED
      BY <2>1, <2>2, <2>4, <3>1 DEF Snapshot
  <2>6. MergesBetween(u, last)' = {}
    <3>1. (u + 1)..(last - 1) = {}
      BY <1>2, <2>2, <2>4
    <3>2. {packets'[v].id : v \in (u + 1)..(last - 1)} = {}
      BY <3>1
    <3> QED
      BY <2>5, <3>2 DEF MergesBetween
  <2>7. Lost(Board, {}, board')
    BY <2>1 DEF Lost
  <2> QED
    BY <2>1, <2>5, <2>6, <2>7
<1>7. CASE UpdateDongle \/ DeleteDongle
  <2>1. (UpdateDongle /\ reserve' = <<>>) \/ DeleteDongle
    BY <1>1, <1>7, NoThrow
  <2>2. /\ last = Len(packets) /\ last \in 1..(Len(packets') + 1) /\ u \in 0..(last - 1)
        /\ UNCHANGED <<board, previous>>
    BY <1>2, <1>7, Shortened
  <2>3. PICK x \in 0..last : /\ Consecutive(x, last + 1)
                             /\ MergesBetween(u, last)' = MergesBetween(x, last + 1)
                             /\ Snapshot(u)' = Snapshot(x)
    BY <2>1, <2>2, Shifted
  <2> QED
    BY <1>3, <2>2, <2>3
<1> QED
  BY <1>1, <1>4, <1>5, <1>6, <1>7, StepKinds

------------------------------------------------------------------------------
(* The scores *)

\* A higher level counts more.
LEMMA PointsRise ==
  ASSUME NEW a \in Nat, NEW b \in Nat, a <= b
  PROVE  Points(a) <= Points(b)
<1> DEFINE low  == (a + 1) * (a + 2)
           high == (b + 1) * (b + 2)
<1>1. PICK d \in Nat : b = a + d
  <2>1. b - a \in Nat /\ b = a + (b - a)
    OBVIOUS
  <2> QED
    BY <2>1
<1>2. low <= high
  <2>1. high = low + (2 * (a * d) + 3 * d + d * d)
    BY <1>1
  <2>2. a * d \in Nat /\ d * d \in Nat
    BY <1>1
  <2>3. low \in Nat
    OBVIOUS
  <2> HIDE DEF low, high
  <2> QED
    BY <1>1, <2>1, <2>2, <2>3
<1>3. low \in Nat /\ high \in Nat
  OBVIOUS
<1> HIDE DEF low, high
<1>4. low \div 2 <= high \div 2
  BY <1>2, <1>3
<1> QED
  BY <1>4 DEF Points, low, high

\* What UpdateDongle counts.
Gains ==
  [k \in Counted(AppliedMap, AppliedObjects) |->
     Points(AppliedObjects[AppliedMap[reserve[k]]].level)]

\* What an update does to the scores.
LEMMA UpdateCounts ==
  ASSUME MirrorTypes, MirrorData, UpdateDongle
  PROVE  /\ packets[1].score \in Nat /\ shown'.score = packets[1].score
         /\ enemyScore' = enemyScore
              + SumFunctionOnSet(Gains, Counted(AppliedMap, AppliedObjects))
         /\ UNCHANGED <<score, lagging>>
<1>1. /\ packets # <<>> /\ Head(packets).type = "pool" /\ packets' = Tail(packets)
      /\ UNCHANGED <<player, merged>>
  BY DEF UpdateDongle
<1>2. /\ Head(packets) = packets[1] /\ packets[1] \in PoolPackets \cup MergePackets
  BY <1>1, PacketTaken
<1>3. packets[1].score \in Nat
  BY <1>1, <1>2 DEF PoolPackets, MergePackets
<1>4. DOMAIN Gains = Counted(AppliedMap, AppliedObjects)
  BY DEF Gains
<1>5. enemyScore' = enemyScore + SumFunction(Gains)
  BY <1>2 DEF UpdateDongle, AppliedMap, AppliedObjects, Gains
<1>6. shown' = [board |-> packets[1].board, score |-> packets[1].score]
  BY <1>2 DEF UpdateDongle
<1>7. UNCHANGED <<score, lagging>>
  BY <1>1 DEF player, merged
<1> QED
  BY <1>3, <1>4, <1>5, <1>6, <1>7 DEF SumFunction

\* What it counts is a number, also when it throws.
LEMMA GainsTyped ==
  ASSUME MirrorTypes, MirrorData, UpdateDongle
  PROVE  /\ Counted(AppliedMap, AppliedObjects) \subseteq 1..Len(reserve)
         /\ IsFiniteSet(Counted(AppliedMap, AppliedObjects))
         /\ \A k \in Counted(AppliedMap, AppliedObjects) : Gains[k] \in Nat
<1>1. packets[1].infos \in Boards /\ Len(reserve) \in Nat
  BY UpdateFacts DEF MirrorData
<1>2. Counted(AppliedMap, AppliedObjects) \subseteq 1..Len(reserve)
  BY DEF Counted
<1>3. IsFiniteSet(1..Len(reserve))
  BY <1>1, FS_Interval
<1>4. IsFiniteSet(Counted(AppliedMap, AppliedObjects))
  BY <1>2, <1>3, FS_Subset
<1>5. ASSUME NEW k \in Counted(AppliedMap, AppliedObjects)
      PROVE  Gains[k] \in Nat
  <2>1. reserve[k] \in DOMAIN AppliedMap
    BY DEF Counted
  <2>2. /\ AppliedMap[reserve[k]] \in DOMAIN AppliedObjects
        /\ AppliedObjects \in Seq(Objects)
    BY <1>1, <2>1, ObjectsFacts DEF AppliedObjects, AppliedMap
  <2>3. AppliedObjects[AppliedMap[reserve[k]]] \in Objects
    BY <2>2
  <2>4. AppliedObjects[AppliedMap[reserve[k]]].level \in Nat
    BY <2>3, LevelAssumption DEF Objects
  <2> QED
    BY <2>4, PointsType DEF Gains
<1> QED
  BY <1>2, <1>4, <1>5

\* The scores are numbers.
ScoresTyped == enemyScore \in Nat /\ shown.score \in Nat

\* Only an update changes the opponent's count.
LEMMA CountKept ==
  ASSUME [MirrorNext]_mirrorVars
  PROVE  UpdateDongle \/ UNCHANGED <<enemyScore, shown>>
<1>1. CASE Quiet
  BY <1>1 DEF Quiet, StartGame, EndGame, DropDongle, SpawnDongleRoutine, Move, Physics, mirror
<1>2. CASE \E p \in Positions, a, b \in DOMAIN board : Merge(a, b, p)
  BY <1>2 DEF Merge, MergeInto, mirror
<1>3. CASE SendDonglePool \/ SendDonglePoolThrows
  BY <1>3 DEF SendDonglePool, SendDonglePoolThrows, mirror
<1>4. CASE \E k \in 1..Len(packets) : ReceiveTwo(k)
  BY <1>4 DEF ReceiveTwo, mirror
<1>5. CASE DeleteDongle
  BY <1>5 DEF DeleteDongle
<1>6. CASE UNCHANGED mirrorVars
  BY <1>6 DEF mirrorVars, mirror
<1> QED
  BY <1>1, <1>2, <1>3, <1>4, <1>5, <1>6, MirrorSteps

\* Every step keeps the scores numbers.
LEMMA ScoresTypedStep ==
  ASSUME Typed, ScoresTyped, [MirrorNext]_mirrorVars
  PROVE  ScoresTyped'
<1>1. CASE UNCHANGED <<enemyScore, shown>>
  BY <1>1 DEF ScoresTyped
<1>2. CASE UpdateDongle
  <2> DEFINE counted == Counted(AppliedMap, AppliedObjects)
  <2>1. MirrorTypes /\ MirrorData
    BY TypedParts
  <2>2. /\ packets[1].score \in Nat /\ shown'.score = packets[1].score
        /\ enemyScore' = enemyScore + SumFunctionOnSet(Gains, counted)
    BY <1>2, <2>1, UpdateCounts
  <2>3. IsFiniteSet(counted) /\ \A k \in counted : Gains[k] \in Nat
    BY <1>2, <2>1, GainsTyped
  <2> HIDE DEF counted
  <2>4. SumFunctionOnSet(Gains, counted) \in Nat
    BY <2>3, SumFacts
  <2> QED
    BY <2>2, <2>4 DEF ScoresTyped
<1> QED
  BY <1>1, <1>2, CountKept

\* A dongle's level only rises; a merge counts at least what was sent of it.
Risen ==
  ~Astray => \A id \in DOMAIN board \cap DOMAIN previous : previous[id].level <= board[id].level

\* A step that leaves the levels and the score alone.
Rests ==
  /\ UNCHANGED <<score, lagging>>
  /\ \A id \in DOMAIN board : board'[id].level = board[id].level

\* One that merges b away and counts it.
Scores(b) ==
  /\ b \in DOMAIN board
  /\ score' = score + Points(board[b].level)
  /\ lagging' = (lagging \/ (b \in DOMAIN previous /\ previous[b].level # board[b].level))
  /\ \A id \in DOMAIN board' : id \in DOMAIN board /\ board'[id].level >= board[id].level

\* The steps by what they do to the levels and the score, and by kind.
LEMMA ScoreKinds ==
  ASSUME Typed, [MirrorNext]_mirrorVars
  PROVE  \/ (Grows /\ Rests) \/ SendDonglePool
         \/ \E b \in DOMAIN board : Shrinks(b) /\ Scores(b)
         \/ coalesced' = TRUE \/ UpdateDongle \/ DeleteDongle
<1>1. MirrorTypes /\ MirrorData
  BY TypedParts
<1>2. \A level : SpawnDongle(level) => \A id \in DOMAIN board : board'[id].level = board[id].level
  <2> SUFFICES ASSUME NEW level, SpawnDongle(level), NEW id \in DOMAIN board
               PROVE  board'[id].level = board[id].level
    OBVIOUS
  <2>1. id # curID
    BY <1>1 DEF MirrorTypes
  <2> QED
    BY <2>1 DEF SpawnDongle, With
<1>3. CASE Quiet
  <2>1. Grows
    BY <1>1, <1>3, QuietFacts DEF Grows
  <2>2. UNCHANGED <<score, lagging>>
    BY <1>3 DEF Quiet, StartGame, EndGame, DropDongle, SpawnDongleRoutine, Move, Physics, merged
  <2>3. \A id \in DOMAIN board : board'[id].level = board[id].level
    <3>1. CASE StartGame \/ SpawnDongleRoutine
      BY <1>2, <3>1 DEF StartGame, SpawnDongleRoutine
    <3>2. CASE EndGame \/ \E p \in Positions : Move(p)
      BY <3>2 DEF EndGame, Move
    <3>3. CASE DropDongle
      BY <1>1, <3>3 DEF DropDongle, MirrorData, Dongles
    <3>4. CASE \E p \in Positions, a \in DOMAIN board : Physics(a, p)
      BY <1>1, <3>4 DEF Physics, MirrorData, Dongles
    <3> QED
      BY <1>3, <3>1, <3>2, <3>3, <3>4 DEF Quiet
  <2> QED
    BY <2>1, <2>2, <2>3 DEF Rests
<1>4. CASE \E p \in Positions, a, b \in DOMAIN board : Merge(a, b, p)
  <2>1. PICK p \in Positions, a \in DOMAIN board, b \in DOMAIN board : Merge(a, b, p)
    BY <1>4
  <2>2. Shrinks(b)
    BY <1>1, <2>1, MergeFacts DEF Shrinks
  <2> DEFINE risen == [level     |-> Min2(board[a].level + 1, MAX_LEVEL),
                       pos       |-> p,
                       destroyed |-> board[a].level = MAX_LEVEL]
  <2>3. /\ board' = Without([board EXCEPT ![a] = risen], b)
        /\ score' = score + Points(board[b].level)
        /\ lagging' = (lagging \/ (b \in DOMAIN previous /\ previous[b].level # board[b].level))
    BY <2>1 DEF Merge, MergeInto
  <2>4. risen.level >= board[a].level
    <3>1. board[a].level \in 0..MAX_LEVEL /\ MAX_LEVEL \in Nat
      BY <1>1, LevelAssumption DEF MirrorTypes
    <3>2. Min2(board[a].level + 1, MAX_LEVEL) >= board[a].level
      BY <3>1 DEF Min2
    <3> QED
      BY <3>2
  <2> HIDE DEF risen
  <2>5. board' = [id \in DOMAIN board \ {b} |-> IF id = a THEN risen ELSE board[id]]
    BY <2>3 DEF Without, Restrict
  <2>6. \A id \in DOMAIN board : board[id].level \in Int
    BY <1>1, LevelAssumption DEF MirrorTypes
  <2>7. \A id \in DOMAIN board' : id \in DOMAIN board /\ board'[id].level >= board[id].level
    BY <2>4, <2>5, <2>6
  <2> QED
    BY <2>1, <2>2, <2>3, <2>7 DEF Scores
<1>5. CASE SendDonglePoolThrows
  BY <1>5 DEF SendDonglePoolThrows, Grows, Rests, merged
<1>6. CASE \E k \in 1..Len(packets) : ReceiveTwo(k)
  BY <1>6 DEF ReceiveTwo
<1>7. CASE UNCHANGED mirrorVars
  BY <1>7 DEF mirrorVars, Grows, Rests, merged, player
<1> QED
  BY <1>3, <1>4, <1>5, <1>6, <1>7, MirrorSteps

\* Every step keeps the levels from falling.
LEMMA RisenStep ==
  ASSUME Typed, Risen, [MirrorNext]_mirrorVars
  PROVE  Risen'
<1> SUFFICES ASSUME ~Astray', NEW id \in DOMAIN board', id \in DOMAIN previous'
             PROVE  previous'[id].level <= board'[id].level
  BY DEF Risen
<1>1. MirrorTypes /\ MirrorData
  BY TypedParts
<1>2. ~Astray /\ ~coalesced'
  BY AstrayStays DEF Astray
<1>3. \A i \in DOMAIN board \cap DOMAIN previous :
        /\ previous[i].level <= board[i].level
        /\ previous[i].level \in Nat /\ board[i].level \in Nat
  <2>1. \A i \in DOMAIN previous : previous[i].level \in Nat
    BY <1>1, LevelAssumption, BoardFacts DEF MirrorData
  <2> QED
    BY <1>1, <1>2, <2>1, LevelAssumption DEF Risen, MirrorTypes
<1>4. CASE Grows /\ Rests
  <2>1. previous' = previous /\ (id \in DOMAIN board \/ id = curID)
    BY <1>4 DEF Grows
  <2>2. id \in DOMAIN board
    BY <2>1 DEF Typed, PlayerTyped
  <2> QED
    BY <1>3, <1>4, <2>1, <2>2 DEF Rests
<1>5. CASE \E b \in DOMAIN board : Shrinks(b) /\ Scores(b)
  <2>1. PICK b \in DOMAIN board : Shrinks(b) /\ Scores(b)
    BY <1>5
  <2>2. /\ previous' = previous /\ id \in DOMAIN board
        /\ board'[id].level >= board[id].level
    BY <2>1 DEF Shrinks, Scores
  <2>3. board'[id].level \in Int
    BY TypedStep, LevelAssumption DEF Typed, PlayerTyped, Dongles
  <2> QED
    BY <1>3, <2>2, <2>3
<1>6. CASE SendDonglePool
  <2>1. /\ board' = board /\ \A i \in DOMAIN board : previous'[i] = Board[i]
    BY <1>1, <1>6, SendFacts
  <2>2. Board[id].level = board[id].level
    BY <2>1 DEF Board, Info
  <2>3. board[id].level \in Int
    BY <1>1, <2>1 DEF MirrorTypes
  <2> QED
    BY <2>1, <2>2, <2>3
<1>7. CASE UpdateDongle \/ DeleteDongle
  <2>1. board' = board /\ previous' = previous
    BY <1>7, Shortened
  <2> QED
    BY <1>3, <2>1
<1> QED
  BY <1>2, <1>4, <1>5, <1>6, <1>7, ScoreKinds

\* What each dongle of a board counts when it is merged away.
PointsOn(b) == [id \in DOMAIN b |-> Points(b[id].level)]

\* What the opponent will count for the merges between two boards.
Worth(u, w) == SumFunctionOnSet(PointsOn(Snapshot(u)), MergesBetween(u, w))

\* The sum never exceeds the total, and falls short only if a merge was too early.
Reaches(sum, total) == sum <= total /\ (~lagging => sum = total)

\* The player's score then, or now.
TotalAt(w) == IF w = Len(packets) + 1 THEN score ELSE packets[w].score

\* The score goes from one board to the next by what the opponent will count.
Tallied ==
  ~Astray =>
    \A w \in 1..(Len(packets) + 1) : (w # Len(packets) + 1 => IsPool(w)) =>
      \A u \in 0..(w - 1) : Consecutive(u, w) =>
        Reaches(ScoreAt(u) + Worth(u, w), TotalAt(w))

\* The sum is one of numbers, over dongles of the board.
LEMMA WorthTyped ==
  ASSUME Typed, ScoresTyped, Linked, Current, ~Astray,
         NEW w \in 1..(Len(packets) + 1), w # Len(packets) + 1 => IsPool(w),
         NEW u \in 0..(w - 1), Consecutive(u, w)
  PROVE  /\ Snapshot(u) \in Boards /\ IsFiniteSet(DOMAIN Snapshot(u))
         /\ \A id \in DOMAIN Snapshot(u) : PointsOn(Snapshot(u))[id] \in Nat
         /\ MergesBetween(u, w) \subseteq DOMAIN Snapshot(u)
         /\ IsFiniteSet(MergesBetween(u, w))
         /\ Worth(u, w) \in Nat /\ ScoreAt(u) \in Nat /\ TotalAt(w) \in Nat
<1>1. MirrorTypes /\ MirrorData
  BY TypedParts
<1>2. Len(packets) \in Nat
  BY GoneIds
<1>3. \A v \in 1..Len(packets) :
        IsPool(v) => packets[v].board \in Boards /\ packets[v].score \in Nat
  <2> SUFFICES ASSUME NEW v \in 1..Len(packets), IsPool(v)
               PROVE  packets[v].board \in Boards /\ packets[v].score \in Nat
    OBVIOUS
  <2>1. packets[v] \in PoolPackets \cup MergePackets
    BY <1>1 DEF MirrorData
  <2> QED
    BY <2>1 DEF PoolPackets, MergePackets, IsPool
<1>4. u # 0 => u \in 1..Len(packets) /\ IsPool(u)
  BY <1>2 DEF Consecutive
<1>5. Snapshot(u) \in Boards /\ ScoreAt(u) \in Nat
  <2>1. CASE u = 0
    BY <1>1, <2>1 DEF Snapshot, ScoreAt, ScoresTyped, MirrorData
  <2>2. CASE u # 0
    BY <1>3, <1>4, <2>2 DEF Snapshot, ScoreAt
  <2> QED
    BY <2>1, <2>2
<1>6. TotalAt(w) \in Nat
  <2>1. CASE w = Len(packets) + 1
    BY <1>1, <2>1 DEF TotalAt, MirrorTypes
  <2>2. CASE w # Len(packets) + 1
    BY <1>2, <1>3, <2>2 DEF TotalAt
  <2> QED
    BY <2>1, <2>2
<1>7. IsFiniteSet(DOMAIN Snapshot(u))
  <2>1. DOMAIN Snapshot(u) \in SUBSET DongleIds
    BY <1>5, BoardFacts
  <2>2. IsFiniteSet(DongleIds)
    BY SpawnAssumption, FS_Interval DEF DongleIds
  <2> QED
    BY <2>1, <2>2, FS_Subset
<1>8. \A id \in DOMAIN Snapshot(u) : PointsOn(Snapshot(u))[id] \in Nat
  BY <1>5, BoardFacts, PointsType, LevelAssumption DEF PointsOn
<1>9. MergesBetween(u, w) \subseteq DOMAIN Snapshot(u)
  <2>1. CASE w = Len(packets) + 1
    <3>1. u \in 0..Len(packets)
      BY <1>2, <2>1
    <3> QED
      BY <2>1, <3>1 DEF Current, Lost
  <2>2. CASE w # Len(packets) + 1
    <3>1. w \in 1..Len(packets)
      BY <1>2, <2>2
    <3> QED
      BY <2>2, <3>1 DEF Linked, Lost
  <2> QED
    BY <2>1, <2>2
<1>10. IsFiniteSet(MergesBetween(u, w))
  BY <1>7, <1>9, FS_Subset
<1>11. Worth(u, w) \in Nat
  <2>1. \A id \in MergesBetween(u, w) : PointsOn(Snapshot(u))[id] \in Nat
    BY <1>8, <1>9
  <2> QED
    BY <1>10, <2>1, SumFacts DEF Worth
<1> QED
  BY <1>5, <1>6, <1>7, <1>8, <1>9, <1>10, <1>11

\* A merge adds its points to the last sum: as many as the player counts, or fewer.
LEMMA MergeTallied ==
  ASSUME Typed, ScoresTyped, Risen, MergedAway, Linked, Current, Tallied, ~Astray,
         NEW b \in DOMAIN board, Shrinks(b), Scores(b), b \in DOMAIN previous,
         NEW u \in 0..Len(packets), Consecutive(u, Len(packets) + 1)
  PROVE  LET sum == SumFunctionOnSet(PointsOn(Snapshot(u)),
                                     MergesBetween(u, Len(packets) + 1) \cup {b})
         IN  /\ ScoreAt(u) + sum <= score'
             /\ ~lagging' => ScoreAt(u) + sum = score'
<1> DEFINE w == Len(packets) + 1
           ids == MergesBetween(u, w)
           points == PointsOn(Snapshot(u))
<1>1. MirrorTypes /\ MirrorData /\ Len(packets) \in Nat
  BY TypedParts, GoneIds
<1>2. w \in 1..w /\ w \in 1..(Len(packets) + 1) /\ u \in 0..(w - 1)
  BY <1>1
<1>3. /\ Snapshot(u) \in Boards /\ \A id \in DOMAIN Snapshot(u) : points[id] \in Nat
      /\ ids \subseteq DOMAIN Snapshot(u) /\ IsFiniteSet(ids)
      /\ Worth(u, w) \in Nat /\ ScoreAt(u) \in Nat
  BY <1>2, WorthTyped
<1>4. Reaches(ScoreAt(u) + Worth(u, w), score)
  BY <1>2 DEF Tallied, TotalAt
<1>5. b \in DOMAIN Snapshot(u) /\ Snapshot(u)[b] = previous[b]
  BY DEF Current
<1>6. b \notin ids
  <2>1. /\ \A k \in 1..Len(reserve) : reserve[k] # b
        /\ \A v \in 1..Len(packets) : IsMerge(v) => packets[v].id # b
    BY DEF MergedAway, Astray
  <2>2. \A v \in (u + 1)..(w - 1) : v \in 1..Len(packets) /\ IsMerge(v)
    BY <1>1 DEF Consecutive
  <2> QED
    BY <2>1, <2>2 DEF MergesBetween
<1>7. SumFunctionOnSet(points, ids \cup {b}) = points[b] + Worth(u, w)
  <2>1. IsFiniteSet(ids \cup {b}) /\ (ids \cup {b}) \ {b} = ids
    BY <1>3, <1>6, FS_AddElement
  <2>2. \A id \in ids \cup {b} : points[id] \in Nat
    BY <1>3, <1>5
  <2> HIDE DEF ids, points
  <2>3. SumFunctionOnSet(points, ids \cup {b}) =
          points[b] + SumFunctionOnSet(points, (ids \cup {b}) \ {b})
    BY <2>1, <2>2, SumFacts
  <2> QED
    BY <2>1, <2>3 DEF Worth, ids, points
<1>8. points[b] = Points(previous[b].level)
  BY <1>5 DEF PointsOn
<1>9. /\ previous[b].level \in Nat /\ board[b].level \in Nat
      /\ previous[b].level <= board[b].level
  <2>1. previous[b].level \in 0..MAX_LEVEL /\ board[b].level \in 0..MAX_LEVEL
    BY <1>1, BoardFacts DEF MirrorData, MirrorTypes
  <2> QED
    BY <2>1, LevelAssumption DEF Risen
<1>10. Points(previous[b].level) <= Points(board[b].level)
       /\ Points(previous[b].level) \in Nat /\ Points(board[b].level) \in Nat
  BY <1>9, PointsRise, PointsType
<1>11. /\ score' = score + Points(board[b].level)
       /\ ~lagging' => ~lagging /\ previous[b].level = board[b].level
  BY DEF Scores
<1>12. score \in Nat
  BY <1>1 DEF MirrorTypes
<1> HIDE DEF points, ids, w
<1>13. /\ ScoreAt(u) + (points[b] + Worth(u, w)) <= score'
       /\ ~lagging' => ScoreAt(u) + (points[b] + Worth(u, w)) = score'
  BY <1>3, <1>4, <1>8, <1>10, <1>11, <1>12 DEF Reaches
<1> QED
  BY <1>7, <1>13 DEF points, ids, w

\* Every step keeps the scores tallied.
LEMMA TalliedStep ==
  ASSUME Typed, ScoresTyped, Risen, Tallied,
         Linked, Current, MergedAway, Retired, Faithful, [MirrorNext]_mirrorVars
  PROVE  Tallied'
<1> DEFINE here(w) == w = Len(packets) + 1
           end     == Len(packets') + 1
<1> SUFFICES ASSUME ~Astray', NEW w \in 1..end, w # end => packets'[w].type = "pool",
                    NEW u \in 0..(w - 1), Consecutive(u, w)'
             PROVE  /\ ScoreAt(u)' + Worth(u, w)' <= TotalAt(w)'
                    /\ ~lagging' => ScoreAt(u)' + Worth(u, w)' = TotalAt(w)'
  BY DEF Tallied, Reaches, IsPool
<1>1. ~Astray /\ ~coalesced'
  BY AstrayStays DEF Astray
<1>2. Len(packets) \in Nat
  BY GoneIds
<1>3. ASSUME NEW v \in 1..(Len(packets) + 1), v # Len(packets) + 1 => IsPool(v),
             NEW x \in 0..(v - 1), Consecutive(x, v)
      PROVE  /\ ScoreAt(x) + Worth(x, v) <= TotalAt(v)
             /\ ~lagging => ScoreAt(x) + Worth(x, v) = TotalAt(v)
  BY <1>1, <1>3 DEF Tallied, Reaches
\* Between packets that were there, nothing changes.
<1>4. ASSUME ~UpdateDongle, ~DeleteDongle, w \in 1..(Len(packets) + 1),
             w # Len(packets) + 1 => packets'[w].type = "pool",
             TotalAt(w)' = TotalAt(w), ~lagging' => ~lagging
      PROVE  /\ ScoreAt(u)' + Worth(u, w)' <= TotalAt(w)'
             /\ ~lagging' => ScoreAt(u)' + Worth(u, w)' = TotalAt(w)'
  <2>1. /\ Consecutive(u, w) /\ MergesBetween(u, w)' = MergesBetween(u, w)
        /\ Snapshot(u)' = Snapshot(u) /\ ScoreAt(u)' = ScoreAt(u)
    BY <1>1, <1>4, Kept
  <2>2. w # Len(packets) + 1 => IsPool(w)
    <3>1. w # Len(packets) + 1 => w \in 1..Len(packets)
      BY <1>2, <1>4
    <3>2. \A v \in 1..Len(packets) : packets'[v] = packets[v]
      BY <1>1, <1>4, NotTaken
    <3> QED
      BY <1>4, <3>1, <3>2 DEF IsPool
  <2>3. Worth(u, w)' = Worth(u, w)
    BY <2>1 DEF Worth
  <2> QED
    BY <1>3, <1>4, <2>1, <2>2, <2>3
<1>5. CASE Grows /\ Rests
  <2>1. packets' = packets /\ score' = score /\ lagging' = lagging
    BY <1>5 DEF Grows, Rests
  <2>2. ~UpdateDongle /\ ~DeleteDongle
    <3>1. Len(packets') # Len(packets) - 1
      BY <1>2, <2>1
    <3> QED
      BY <3>1, Shortened
  <2>3. TotalAt(w)' = TotalAt(w)
    BY <2>1 DEF TotalAt
  <2> QED
    BY <1>4, <2>1, <2>2, <2>3
<1>6. CASE \E b \in DOMAIN board : Shrinks(b) /\ Scores(b)
  <2>1. PICK b \in DOMAIN board : Shrinks(b) /\ Scores(b)
    BY <1>6
  <2>2. /\ Len(packets') = Len(packets) + 1
        /\ packets'[Len(packets) + 1].type = "merge" /\ packets'[Len(packets) + 1].id = b
        /\ \A v \in 1..Len(packets) : packets'[v] = packets[v]
    BY <2>1, MergeSent
  <2>3. ~UpdateDongle /\ ~DeleteDongle
    <3>1. Len(packets') # Len(packets) - 1
      BY <1>2, <2>2
    <3> QED
      BY <3>1, Shortened
  <2>4. b \in DOMAIN previous /\ (~lagging' => ~lagging)
    BY <2>1 DEF Shrinks, Scores, Astray
  <2>5. CASE w # end
    <3>1. w \in 1..Len(packets)
      <4>1. w \in 1..(Len(packets) + 1) /\ w # Len(packets) + 1
        BY <1>2, <2>2, <2>5
      <4> QED
        BY <1>2, <4>1
    <3>2. TotalAt(w)' = TotalAt(w)
      BY <1>2, <2>2, <2>5, <3>1 DEF TotalAt
    <3> QED
      BY <1>2, <1>4, <2>3, <2>4, <2>5, <3>1, <3>2
  <2>6. CASE w = end
    <3>1. PICK v : v = Len(packets) + 1
      OBVIOUS
    <3>2. v \in Nat /\ w = v + 1 /\ v \in 1..(Len(packets) + 1)
      BY <1>2, <2>2, <2>6, <3>1
    <3>3. /\ u # 0 => packets'[u].type = "pool"
          /\ \A i \in (u + 1)..(w - 1) : packets'[i].type = "merge"
      BY DEF Consecutive, IsPool, IsMerge
    <3>4. u \in 0..(v - 1)
      <4>1. u \in 0..v
        BY <3>2
      <4>2. u # v
        BY <2>2, <3>1, <3>2, <3>3
      <4> QED
        BY <3>2, <4>1, <4>2
    <3>5. Consecutive(u, v)'
      <4>1. \A i \in (u + 1)..(v - 1) : i \in (u + 1)..(w - 1)
        BY <3>2, <3>4
      <4>2. \A i \in (u + 1)..(v - 1) : packets'[i].type = "merge"
        BY <3>3, <4>1
      <4> QED
        BY <3>3, <4>2 DEF Consecutive, IsPool, IsMerge
    <3>6. /\ Consecutive(u, v) /\ MergesBetween(u, v)' = MergesBetween(u, v)
          /\ Snapshot(u)' = Snapshot(u) /\ ScoreAt(u)' = ScoreAt(u)
      BY <1>1, <2>3, <3>2, <3>4, <3>5, Kept
    <3>7. MergesBetween(u, w)' = MergesBetween(u, v) \cup {b}
      <4>1. /\ \A i \in (u + 1)..(w - 1) : i = v \/ i \in (u + 1)..(v - 1)
            /\ \A i \in (u + 1)..(v - 1) : i \in (u + 1)..(w - 1)
            /\ v \in (u + 1)..(w - 1)
        BY <3>2, <3>4
      <4>2. {packets'[i].id : i \in (u + 1)..(w - 1)} =
              {packets'[i].id : i \in (u + 1)..(v - 1)} \cup {b}
        BY <2>2, <3>1, <4>1
      <4>3. MergesBetween(u, w)' = MergesBetween(u, v)' \cup {b}
        BY <4>2 DEF MergesBetween
      <4> QED
        BY <3>6, <4>3
    <3>8. TotalAt(w)' = score'
      BY <2>6 DEF TotalAt
    <3>9. u \in 0..Len(packets)
      BY <1>2, <3>1, <3>4
    <3>10. LET sum == SumFunctionOnSet(PointsOn(Snapshot(u)), MergesBetween(u, v) \cup {b})
           IN  /\ ScoreAt(u) + sum <= score'
               /\ ~lagging' => ScoreAt(u) + sum = score'
      BY <1>1, <2>1, <2>4, <3>1, <3>6, <3>9, MergeTallied
    <3>11. Worth(u, w)' =
             SumFunctionOnSet(PointsOn(Snapshot(u)), MergesBetween(u, v) \cup {b})
      BY <3>6, <3>7 DEF Worth
    <3> QED
      BY <3>6, <3>8, <3>10, <3>11
  <2> QED
    BY <2>5, <2>6
<1>7. CASE SendDonglePool
  <2> DEFINE p == [type |-> "pool", infos |-> Restrict(Board, Changed), board |-> Board,
                   score |-> score]
  <2>1. /\ packets' = Append(packets, p) /\ p \in PoolPackets /\ p.score = score
        /\ p.type = "pool" /\ score' = score
    BY <1>7, TypedParts, SendFacts
  <2>2. lagging' = lagging
    BY <1>7 DEF SendDonglePool, merged
  <2> HIDE DEF p
  <2>3. /\ Len(packets') = Len(packets) + 1 /\ packets'[Len(packets) + 1] = p
        /\ \A v \in 1..Len(packets) : packets'[v] = packets[v]
    BY <2>1, Lengthened
  <2>4. ~UpdateDongle /\ ~DeleteDongle
    <3>1. Len(packets') # Len(packets) - 1
      BY <1>2, <2>3
    <3> QED
      BY <3>1, Shortened
  <2>5. CASE w # end
    <3>1. w \in 1..(Len(packets) + 1)
      BY <1>2, <2>3, <2>5
    <3>2. TotalAt(w)' = TotalAt(w)
      <4>1. TotalAt(w)' = packets'[w].score
        BY <2>5 DEF TotalAt
      <4>2. CASE w = Len(packets) + 1
        BY <2>1, <2>3, <4>1, <4>2 DEF TotalAt
      <4>3. CASE w # Len(packets) + 1
        <5>1. w \in 1..Len(packets)
          BY <1>2, <3>1, <4>3
        <5> QED
          BY <2>3, <4>1, <4>3, <5>1 DEF TotalAt
      <4> QED
        BY <4>2, <4>3
    <3> QED
      BY <1>4, <2>2, <2>4, <2>5, <3>1, <3>2
  <2>6. CASE w = end
    <3>1. /\ u # 0 => packets'[u].type = "pool"
          /\ \A v \in (u + 1)..(w - 1) : packets'[v].type = "merge"
      BY DEF Consecutive, IsPool, IsMerge
    <3>2. u = Len(packets) + 1
      <4> SUFFICES ASSUME u # Len(packets) + 1
                   PROVE  FALSE
        OBVIOUS
      <4>1. Len(packets) + 1 \in (u + 1)..(w - 1)
        BY <1>2, <2>3, <2>6
      <4> QED
        BY <2>1, <2>3, <3>1, <4>1
    <3>3. u # 0 /\ u # Len(packets') + 1
      BY <1>2, <2>3, <3>2
    <3>4. ScoreAt(u)' = score /\ TotalAt(w)' = score
      BY <2>1, <2>3, <2>6, <3>2, <3>3 DEF ScoreAt, TotalAt
    <3>5. MergesBetween(u, w)' = {}
      <4>1. (u + 1)..(w - 1) = {}
        BY <1>2, <2>3, <2>6, <3>2
      <4>2. {packets'[v].id : v \in (u + 1)..(w - 1)} = {}
        BY <4>1
      <4> QED
        BY <3>3, <4>2 DEF MergesBetween
    <3>6. Worth(u, w)' = 0
      <4>1. Worth(u, w)' = SumFunctionOnSet(PointsOn(Snapshot(u)'), {})
        BY <3>5 DEF Worth
      <4> QED
        BY <4>1, FS_EmptySet, SumFacts
    <3>7. score \in Nat
      BY DEF Typed, PlayerTyped
    <3> QED
      BY <3>4, <3>6, <3>7
  <2> QED
    BY <2>5, <2>6
<1>8. CASE UpdateDongle \/ DeleteDongle
  <2>1. (UpdateDongle /\ reserve' = <<>>) \/ DeleteDongle
    BY <1>1, <1>8, NoThrow
  <2>2. score' = score /\ lagging' = lagging
    BY <1>8 DEF UpdateDongle, DeleteDongle, player, merged
  <2>3. /\ Len(packets') = Len(packets) - 1
        /\ \A v \in 1..Len(packets') : packets'[v] = packets[v + 1]
    BY <1>8, Shortened
  <2>4. PICK v : v = w + 1
    OBVIOUS
  <2>5. /\ v \in 1..(Len(packets) + 1) /\ (v = Len(packets) + 1 <=> w = end)
        /\ w # end => w \in 1..Len(packets')
    BY <1>2, <2>3, <2>4
  <2>6. TotalAt(w)' = TotalAt(v) /\ (v # Len(packets) + 1 => IsPool(v))
    <3>1. CASE w = end
      BY <2>2, <2>5, <3>1 DEF TotalAt
    <3>2. CASE w # end
      BY <2>3, <2>4, <2>5, <3>2 DEF TotalAt, IsPool
    <3> QED
      BY <3>1, <3>2
  <2>7. PICK x \in 0..w : /\ Consecutive(x, w + 1)
                          /\ MergesBetween(u, w)' = MergesBetween(x, w + 1)
                          /\ Snapshot(u)' = Snapshot(x) /\ ScoreAt(u)' = ScoreAt(x)
    BY <2>1, Shifted
  <2>8. Worth(u, w)' = Worth(x, v)
    BY <2>4, <2>7 DEF Worth
  <2>9. x \in 0..(v - 1)
    BY <2>4
  <2> QED
    BY <1>3, <2>2, <2>4, <2>5, <2>6, <2>7, <2>8, <2>9
<1> QED
  BY <1>1, <1>5, <1>6, <1>7, <1>8, ScoreKinds

\* What an update counts is what the merges before it are worth.
LEMMA UpdateWorth ==
  ASSUME Typed, ScoresTyped, Linked, Current, MergedAway, Retired, Faithful, ~Astray,
         UpdateDongle
  PROVE  SumFunctionOnSet(Gains, Counted(AppliedMap, AppliedObjects)) = Worth(0, 1)
<1> DEFINE n == Len(reserve)
           f == PointsOn(shown.board)
           infos == packets[1].infos
<1>1. MirrorTypes /\ MirrorData
  BY TypedParts
<1>2. /\ IsPool(1) /\ infos \in Boards /\ 1 \in 1..Len(packets)
      /\ Len(packets) \in Nat /\ n \in Nat
  BY <1>1, UpdateFacts, Shortened, GoneIds
<1>3. /\ \A k \in 1..n : reserve[k] \in DOMAIN shown.board
                         /\ reserve[k] \notin DOMAIN packets[1].board
      /\ DOMAIN infos \subseteq DOMAIN packets[1].board
  BY <1>2, NextBoard
<1>4. /\ DOMAIN AppliedMap = DOMAIN enemyMap \cup DOMAIN infos
      /\ \A id \in DOMAIN enemyMap : AppliedMap[id] = enemyMap[id]
  BY <1>1, <1>2, MapFacts DEF AppliedMap
<1>5. \A id \in DOMAIN shown.board :
        /\ id \in DOMAIN enemyMap /\ id \in DOMAIN AppliedMap
        /\ AppliedMap[id] = enemyMap[id]
        /\ objects[enemyMap[id]].level = shown.board[id].level
  <2> TAKE id \in DOMAIN shown.board
  <2>1. /\ id \in DOMAIN enemyMap
        /\ objects[enemyMap[id]] = [active |-> TRUE, id |-> id,
                                    level |-> shown.board[id].level,
                                    pos |-> shown.board[id].pos]
    BY DEF Faithful
  <2>2. objects[enemyMap[id]].level = shown.board[id].level
    BY <2>1
  <2> HIDE DEF infos
  <2>3. id \in DOMAIN AppliedMap /\ AppliedMap[id] = enemyMap[id]
    BY <1>4, <2>1
  <2> QED
    BY <2>1, <2>2, <2>3
<1>6. Counted(AppliedMap, AppliedObjects) = 1..n
  <2>1. StopAt = n + 1
    BY NoThrow
  <2>2. \A k \in 1..n : k <= StopAt /\ reserve[k] \in DOMAIN AppliedMap
    BY <1>2, <1>3, <1>5, <2>1
  <2> QED
    BY <2>2 DEF Counted, StopAt
<1>7. \A k \in 1..n : Gains[k] = f[reserve[k]]
  <2> SUFFICES ASSUME NEW k \in 1..n
               PROVE  Gains[k] = f[reserve[k]]
    OBVIOUS
  <2> DEFINE id == reserve[k]
             o  == AppliedMap[id]
  <2>1. id \in DOMAIN shown.board /\ id \notin DOMAIN infos
    BY <1>3
  <2>2. \A i \in DOMAIN infos : AppliedMap[i] # o
    BY <2>1, MapOneToOne
  <2>3. o \in DOMAIN AppliedObjects
    BY <1>1, <1>2, <1>5, <2>1, ObjectsFacts DEF AppliedObjects, AppliedMap
  <2>4. AppliedObjects[o] = objects[o]
    BY <2>2, <2>3, UntoldObjects
  <2>5. Gains[k] = Points(AppliedObjects[o].level)
    BY <1>6 DEF Gains
  <2> QED
    BY <1>5, <2>1, <2>4, <2>5 DEF PointsOn
<1>8. /\ Snapshot(0) = shown.board /\ Consecutive(0, 1)
      /\ MergesBetween(0, 1) = {reserve[k] : k \in 1..n}
  BY DEF Snapshot, Consecutive, MergesBetween
<1>9. \A id \in DOMAIN shown.board : f[id] \in Nat
  <2>1. 1 \in 1..(Len(packets) + 1) /\ 0 \in 0..(1 - 1)
    BY <1>2
  <2> QED
    BY <1>2, <1>8, <2>1, WorthTyped
<1>10. \A j, k \in 1..n : j # k => reserve[j] # reserve[k]
  BY MergedAwayParts DEF Astray, AllDifferent
<1>11. \A k \in 1..n : f[reserve[k]] \in Nat
  BY <1>3, <1>9
<1> DEFINE ids == MergesBetween(0, 1)
<1>12. Lists(reserve, n, ids)
  BY <1>8, <1>10 DEF Lists
<1>13. \A k \in 1..n : f[reserve[k]] \in Nat /\ Gains[k] = f[reserve[k]]
  BY <1>7, <1>11
<1>14. n \in Nat
  BY <1>2
<1>15. SumFunctionOnSet(Gains, 1..n) = SumFunctionOnSet(f, ids)
  <2> SUFFICES ASSUME NEW g, g = f, NEW s, s = ids, NEW m, m = n
               PROVE  SumFunctionOnSet(Gains, 1..m) = SumFunctionOnSet(g, s)
    OBVIOUS
  <2>1. /\ m \in Nat /\ Lists(reserve, m, s)
        /\ \A k \in 1..m : g[reserve[k]] \in Nat /\ Gains[k] = g[reserve[k]]
    BY <1>12, <1>13, <1>14
  <2> HIDE DEF f, n, ids, infos
  <2> QED
    BY <2>1, SumOfList
<1> QED
  BY <1>6, <1>8, <1>15 DEF Worth

\* The opponent's count follows.
Counts == ~Astray => Reaches(enemyScore, shown.score)

LEMMA CountsStep ==
  ASSUME Typed, ScoresTyped, Counts, Tallied,
         Linked, Current, MergedAway, Retired, Faithful, [MirrorNext]_mirrorVars
  PROVE  Counts'
<1> SUFFICES ASSUME ~Astray'
             PROVE  /\ enemyScore' <= shown'.score
                    /\ ~lagging' => enemyScore' = shown'.score
  BY DEF Counts, Reaches
<1>1. ~Astray /\ ~coalesced'
  BY AstrayStays DEF Astray
<1>2. enemyScore <= shown.score /\ (~lagging => enemyScore = shown.score)
  BY <1>1 DEF Counts, Reaches
<1>3. ~lagging' => ~lagging
  <2>1. CASE Rests \/ (\E b \in DOMAIN board : Scores(b))
    BY <2>1 DEF Rests, Scores
  <2>2. CASE SendDonglePool \/ UpdateDongle \/ DeleteDongle
    BY <2>2 DEF SendDonglePool, UpdateDongle, DeleteDongle, merged
  <2> QED
    BY <1>1, <2>1, <2>2, ScoreKinds
<1>4. CASE UNCHANGED <<enemyScore, shown>>
  BY <1>2, <1>3, <1>4
<1>5. CASE UpdateDongle
  <2>1. MirrorTypes /\ MirrorData
    BY TypedParts
  <2>2. /\ packets[1].score \in Nat /\ shown'.score = packets[1].score
        /\ enemyScore' = enemyScore + Worth(0, 1)
    BY <1>1, <1>5, <2>1, UpdateCounts, UpdateWorth
  <2>3. /\ 1 \in 1..(Len(packets) + 1) /\ 0 \in 0..(1 - 1) /\ IsPool(1)
        /\ 1 # Len(packets) + 1 /\ Consecutive(0, 1)
    <3>1. Len(packets) \in Nat /\ Len(packets) > 0 /\ IsPool(1)
      BY <1>5, <2>1, UpdateFacts
    <3> QED
      BY <3>1 DEF Consecutive
  <2>4. Worth(0, 1) \in Nat
    BY <1>1, <2>3, WorthTyped
  <2>5. /\ shown.score + Worth(0, 1) <= packets[1].score
        /\ ~lagging => shown.score + Worth(0, 1) = packets[1].score
    BY <1>1, <2>3 DEF Tallied, Reaches, ScoreAt, TotalAt
  <2>6. enemyScore \in Nat /\ shown.score \in Nat
    BY DEF ScoresTyped
  <2> QED
    BY <1>2, <1>3, <2>2, <2>4, <2>5, <2>6
<1> QED
  BY <1>4, <1>5, CountKept

------------------------------------------------------------------------------
(* The mirror's theorems *)

\* The inductive invariant of the mirror.
MirrorInv ==
  /\ Typed /\ Owned
  /\ Announced /\ NoForgottenMerge
  /\ MergedAway /\ Retired
  /\ Linked /\ Current /\ Faithful
  /\ ScoresTyped /\ Risen /\ Tallied /\ Counts

\* The mirror's invariant holds at the start.
LEMMA MirrorInitially == MirrorInit => MirrorInv
<1> SUFFICES ASSUME MirrorInit
             PROVE  MirrorInv
  OBVIOUS
<1>1. /\ phase = "before" /\ routine = "off" /\ hand = Left /\ cur = NoDongle /\ curID = 0
      /\ board = Nothing /\ previous = Nothing /\ score = 0
      /\ packets = <<>> /\ objects = <<>> /\ pool = <<>> /\ enemyMap = Nothing /\ reserve = <<>>
      /\ enemyScore = 0 /\ shown.board = Nothing /\ shown.score = 0
  BY DEF MirrorInit
<1>2. /\ DOMAIN Nothing = {} /\ Nothing \in Boards
      /\ \A S : Nothing \in [{} -> S]
  <2>1. Nothing \in [{} -> Infos]
    BY DEF Nothing
  <2> QED
    BY <2>1 DEF Nothing, Boards
<1>3. /\ Len(packets) = 0 /\ Len(objects) = 0 /\ Len(pool) = 0 /\ Len(reserve) = 0
      /\ DOMAIN objects = {} /\ DOMAIN pool = {}
  BY <1>1
<1>4. Typed
  <2>1. PlayerTyped
    BY <1>1, <1>2, PositionAssumption, SpawnAssumption DEF PlayerTyped
  <2>2. PacketsTyped
    BY <1>1, <1>3 DEF PacketsTyped
  <2>3. ObjectsTyped
    BY <1>1, <1>2, <1>3 DEF ObjectsTyped
  <2>4. ReserveTyped
    BY <1>1, <1>2, <1>3 DEF ReserveTyped
  <2> QED
    BY <2>1, <2>2, <2>3, <2>4 DEF Typed
<1>5. Active = {}
  BY <1>3 DEF Active
<1>6. Owned /\ NoForgottenMerge
  BY <1>5 DEF Owned, NoForgottenMerge
<1>7. Announced /\ MergedAway /\ Linked
  BY <1>3 DEF Announced, MergedAway, Linked
<1>8. Retired
  BY <1>1, <1>2 DEF Retired
<1>9. Current
  <2>1. \A u \in 0..Len(packets) : u = 0
    BY <1>3
  <2>2. /\ Snapshot(0) = Nothing
        /\ MergesBetween(0, Len(packets) + 1) = {}
    <3>1. {reserve[k] : k \in 1..Len(reserve)} = {}
      BY <1>3
    <3>2. {packets[v].id : v \in (0 + 1)..((Len(packets) + 1) - 1)} = {}
      BY <1>3
    <3> QED
      BY <1>1, <3>1, <3>2 DEF Snapshot, MergesBetween
  <2> QED
    BY <1>1, <1>2, <2>1, <2>2 DEF Current, Lost
<1>10. Faithful
  BY <1>1, <1>2, <1>5 DEF Faithful
<1>11. ScoresTyped /\ Risen /\ Counts
  BY <1>1, <1>2 DEF ScoresTyped, Risen, Counts, Reaches
<1>12. Tallied
  <2>1. \A w \in 1..(Len(packets) + 1) : w = Len(packets) + 1 /\ \A u \in 0..(w - 1) : u = 0
    BY <1>3
  <2>2. MergesBetween(0, Len(packets) + 1) = {}
    <3>1. {reserve[k] : k \in 1..Len(reserve)} = {}
      BY <1>3
    <3>2. {packets[v].id : v \in (0 + 1)..((Len(packets) + 1) - 1)} = {}
      BY <1>3
    <3> QED
      BY <3>1, <3>2 DEF MergesBetween
  <2>3. Worth(0, Len(packets) + 1) = 0
    <3>1. Worth(0, Len(packets) + 1) = SumFunctionOnSet(PointsOn(Snapshot(0)), {})
      BY <2>2 DEF Worth
    <3> QED
      BY <3>1, FS_EmptySet, SumFacts
  <2>4. ScoreAt(0) = 0 /\ TotalAt(Len(packets) + 1) = 0
    BY <1>1 DEF ScoreAt, TotalAt
  <2>5. Reaches(ScoreAt(0) + Worth(0, Len(packets) + 1), TotalAt(Len(packets) + 1))
    BY <2>3, <2>4 DEF Reaches
  <2> QED
    BY <2>1, <2>5 DEF Tallied
<1> QED
  BY <1>4, <1>6, <1>7, <1>8, <1>9, <1>10, <1>11, <1>12 DEF MirrorInv

\* Every step keeps it.
LEMMA MirrorStep == MirrorInv /\ [MirrorNext]_mirrorVars => MirrorInv'
<1> SUFFICES ASSUME MirrorInv, [MirrorNext]_mirrorVars
             PROVE  MirrorInv'
  OBVIOUS
<1> USE DEF MirrorInv
<1>1. Typed'
  BY TypedStep
<1>2. Owned'
  BY OwnedStep
<1>3. Announced' /\ NoForgottenMerge'
  BY AnnouncedStep, NoForgottenStep
<1>4. MergedAway' /\ Retired'
  BY MergedAwayStep, RetiredStep
<1>5. Linked' /\ Current'
  BY LinkedStep, CurrentStep
<1>6. Faithful'
  BY FaithfulStep
<1>7. ScoresTyped' /\ Risen' /\ Tallied' /\ Counts'
  BY ScoresTypedStep, RisenStep, TalliedStep, CountsStep
<1> QED
  BY <1>1, <1>2, <1>3, <1>4, <1>5, <1>6, <1>7

\* Each dongle of the last snapshot has its object, and each object shown is one's.
LEMMA SnapshotShown ==
  ASSUME Typed, Owned, Faithful, ~Astray
  PROVE  Shows(shown.board)
<1> DEFINE S == DOMAIN shown.board
           f == [id \in S |-> enemyMap[id]]
<1>1. \A id \in S : /\ enemyMap[id] \in Active
                    /\ objects[enemyMap[id]].id = id
                    /\ objects[enemyMap[id]].level = shown.board[id].level
                    /\ objects[enemyMap[id]].pos = shown.board[id].pos
  <2> SUFFICES ASSUME NEW id \in S
               PROVE  /\ enemyMap[id] \in Active
                      /\ objects[enemyMap[id]].id = id
                      /\ objects[enemyMap[id]].level = shown.board[id].level
                      /\ objects[enemyMap[id]].pos = shown.board[id].pos
    OBVIOUS
  <2>1. /\ id \in DOMAIN enemyMap
        /\ objects[enemyMap[id]] = [active |-> TRUE, id |-> id,
                                    level |-> shown.board[id].level,
                                    pos |-> shown.board[id].pos]
    BY DEF Faithful
  <2>2. enemyMap[id] \in DOMAIN objects
    BY <2>1 DEF Typed, ObjectsTyped
  <2> QED
    BY <2>1, <2>2 DEF Active
<1>2. \A o \in Active : objects[o].id \in S /\ enemyMap[objects[o].id] = o
  BY DEF Faithful, Owned
<1>3. f \in Bijection(S, Active)
  <2>1. f \in [S -> Active]
    BY <1>1
  <2>2. \A x, y \in S : f[x] = f[y] => x = y
    BY <1>1
  <2>3. \A o \in Active : \E id \in S : f[id] = o
    BY <1>2
  <2> HIDE DEF f, S
  <2> QED
    BY <2>1, <2>2, <2>3 DEF Bijection, Injection, Surjection, IsInjective
<1>4. IsFiniteSet(S)
  <2>1. S \subseteq 0..(curID - 1) /\ curID \in Nat
    BY DEF Typed, PlayerTyped, ReserveTyped
  <2>2. IsFiniteSet(0..(curID - 1))
    BY <2>1, FS_Interval
  <2> QED
    BY <2>1, <2>2, FS_Subset
<1>5. Cardinality(Active) = Cardinality(S)
  <2>1. ExistsBijection(S, Active)
    BY <1>3 DEF ExistsBijection
  <2> HIDE DEF S
  <2> QED
    BY <1>4, <2>1, FS_Bijection
<1> QED
  BY <1>1, <1>5 DEF Shows

\* The mirror's inductive invariant holds throughout.
THEOREM MirrorInvariance == MirrorSpec => []MirrorInv
<1> QED
  BY MirrorInitially, MirrorStep, PTL DEF MirrorSpec

\* Unless the two are astray, the mirror shows exactly the board the last applied
\* update was sent from, whatever was merged, sent and reserved in between
\* (PlayerDongleSpawner.SendDonglePoolRoutine, DongleSpawner.UpdateDongle).
THEOREM MirrorIsSnapshotCorrect == MirrorSpec => []MirrorIsSnapshot
<1>1. MirrorInv => MirrorIsSnapshot
  BY TypedParts, SnapshotShown DEF MirrorInv, MirrorIsSnapshot
<1> QED
  BY <1>1, MirrorInvariance, PTL

\* A dongle that is shown is the player's still, or its merge is reserved or on the
\* way, also when updates throw (DongleSpawner.UpdateDongle, DeleteDongle).
THEOREM NoForgottenMergeCorrect == MirrorSpec => []NoForgottenMerge
<1>1. MirrorInv => NoForgottenMerge
  BY DEF MirrorInv
<1> QED
  BY <1>1, MirrorInvariance, PTL

\* The opponent's own count comes to the player's score at the time of the update
\* it was shown, and less only if a dongle was merged away before its level was sent.
THEOREM ScoreFollowsCorrect == MirrorSpec => []ScoreFollows
<1>1. MirrorInv => ScoreFollows
  BY DEF MirrorInv, ScoresTyped, Counts, Reaches, ScoreFollows
<1> QED
  BY <1>1, MirrorInvariance, PTL
==============================================================================
