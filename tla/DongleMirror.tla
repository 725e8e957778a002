---------------------------- MODULE DongleMirror -----------------------------
(***************************************************************************)
(* One player's dongles and their mirror at the opponent: the Unity        *)
(* client's PlayerDongleSpawner and PlayerDongle on one side, DongleSpawner*)
(* with its DonglePool on the other (Game/Spawner, Game/Dongle), and the   *)
(* packets that connect them.                                              *)
(*                                                                         *)
(* The player's coroutine sends what has changed since it last sent; a     *)
(* merge is sent when it happens, but the mirror only reserves the id and  *)
(* takes the dongle away with the next update.  GameServer relays both in  *)
(* order (MyPacket/ServerPacketHandler.cpp, Room's job queue).  The        *)
(* opponent's network thread makes a job of each packet, which its main    *)
(* thread runs; a packet that arrives behind another in one receive is     *)
(* taken for that one (see ClientRecv.DecodedAsFirst).                     *)
(*                                                                         *)
(* The physics engine is any choice of moves and of merges between dropped *)
(* dongles of one level; positions stand for all of x, y and rotation.     *)
(* DonglePool's maxSize (50) and the wrap of _curID are out of reach.      *)
(*                                                                         *)
(* Definitions commented "Variant" are no part of the model: each is a     *)
(* definition with a plausible bug that a property is shown to catch.      *)
(***************************************************************************)
EXTENDS Integers, Sequences, FiniteSets, FiniteSetsExt, Functions

CONSTANTS NoDongle,    \* no dongle
          MAX_LEVEL,   \* DongleBase.MAX_LEVEL
          SpawnLevels, \* levels of new dongles, _random.Next(0, 3)
          Positions,   \* where a dongle may be
          Left,        \* where a spawner starts
          MaxSpawns,   \* bound: dongles spawned
          MaxMoves     \* bound: moves of dongles and of the hand

ASSUME LevelAssumption == MAX_LEVEL \in Nat /\ SpawnLevels \subseteq 0..MAX_LEVEL
ASSUME PositionAssumption == Left \in Positions
ASSUME SpawnAssumption == MaxSpawns \in Nat /\ MaxMoves \in Nat
ASSUME NoDongleAssumption == NoDongle \notin Nat

VARIABLES
  \* the player
  phase,          \* before the game, _isStart, or over
  routine,        \* the coroutine that sends: off, on, or dead of an exception
  hand,           \* the spawner's position
  cur,            \* _curDongle's id, or NoDongle
  curID,          \* _curID
  board,          \* _dongleMap: by id, level, position and whether destroyed
  previous,       \* _previousDongleStates
  score,          \* Room.PlayerScore
  \* between the two
  packets,        \* packets on the way, up to the opponent's job queue
  \* the mirror
  objects,        \* the dongle objects created so far
  pool,           \* the pool's stack of inactive ones
  enemyMap,       \* _dongleMap: by id, which object
  reserve,        \* _deleteReserveID
  enemyScore,     \* Room.EnemyScore
  \* history
  moves,          \* moves so far
  coalesced,      \* a receive has held two packets
  unseen,         \* a dongle was merged away before it was ever sent
  lagging,        \* a dongle was merged away before its level was sent
  shown           \* the player's state when the last applied update was sent

player  == <<phase, routine, hand, cur, curID, board, previous, score>>
mirror  == <<objects, pool, enemyMap, reserve, enemyScore>>
merged  == <<unseen, lagging>>
mirrorVars == <<player, packets, mirror, moves, coalesced, merged, shown>>

------------------------------------------------------------------------------
Min2(a, b) == IF a <= b THEN a ELSE b

Without(f, x) == Restrict(f, DOMAIN f \ {x})

\* A Dictionary f in which entries g were set.
With(f, g) == [x \in DOMAIN f \cup DOMAIN g |-> IF x \in DOMAIN g THEN g[x] ELSE f[x]]

\* GetDongleInfo, with the spawner's position for a dongle not yet dropped.
Info(id) == [level |-> board[id].level,
             pos   |-> IF id = cur THEN hand ELSE board[id].pos]

Board == [id \in DOMAIN board |-> Info(id)]

\* What a merge of two dongles of a level counts, for both players.
Points(level) == ((level + 1) * (level + 2)) \div 2

\* Variant: DongleInfoEquals does not compare the level.
EqualsButLevel(a, b) == a.pos = b.pos

\* DongleInfoEquals
DongleInfoEquals(a, b) == a.pos = b.pos /\ a.level = b.level

\* The dongles a turn of the coroutine puts into its packet.
Changed ==
  {id \in DOMAIN board :
     id \notin DOMAIN previous \/ ~DongleInfoEquals(previous[id], Info(id))}

Nothing == [x \in {} |-> x]

MirrorInit ==
  /\ phase = "before" /\ routine = "off"
  /\ hand = Left
  /\ cur = NoDongle /\ curID = 0
  /\ board = Nothing /\ previous = Nothing
  /\ score = 0
  /\ packets = <<>>
  /\ objects = <<>> /\ pool = <<>> /\ enemyMap = Nothing
  /\ reserve = <<>>
  /\ enemyScore = 0
  /\ moves = 0
  /\ coalesced = FALSE /\ unseen = FALSE /\ lagging = FALSE
  /\ shown = [board |-> Nothing, score |-> 0]

------------------------------------------------------------------------------
(* The player *)

\* SpawnDongle, which puts the new dongle into the hand.
SpawnDongle(level) ==
  /\ curID < MaxSpawns
  /\ cur' = curID
  /\ curID' = curID + 1
  /\ board' = With(board, [id \in {curID} |->
                            [level |-> level, pos |-> hand, destroyed |-> FALSE]])

\* StartGame
StartGame ==
  /\ phase = "before"
  /\ phase' = "playing"
  /\ SpawnDongle(0)
  /\ routine' = "on"
  /\ UNCHANGED <<hand, previous, score, packets, mirror, moves, coalesced, merged, shown>>

\* EndGame: the coroutines and the physics go on.
EndGame ==
  /\ phase = "playing"
  /\ phase' = "over"
  /\ UNCHANGED <<routine, hand, cur, curID, board, previous, score, packets, mirror,
                 moves, coalesced, merged, shown>>

\* Move
Move(p) ==
  /\ phase = "playing"
  /\ moves < MaxMoves /\ moves' = moves + 1
  /\ p # hand /\ hand' = p
  /\ UNCHANGED <<phase, routine, cur, curID, board, previous, score, packets, mirror,
                 coalesced, merged, shown>>

\* DropDongle
DropDongle ==
  /\ phase = "playing"
  /\ cur # NoDongle
  /\ board' = [board EXCEPT ![cur].pos = hand]
  /\ cur' = NoDongle
  /\ UNCHANGED <<phase, routine, hand, curID, previous, score, packets, mirror,
                 moves, coalesced, merged, shown>>

\* SpawnDongleRoutine after its second of sleep, which EndGame does not stop.
SpawnDongleRoutine ==
  /\ phase # "before"
  /\ cur = NoDongle
  /\ \E level \in SpawnLevels : SpawnDongle(level)
  /\ UNCHANGED <<phase, routine, hand, previous, score, packets, mirror,
                 moves, coalesced, merged, shown>>

Dropped(id) == id \in DOMAIN board /\ id # cur /\ ~board[id].destroyed

\* The physics engine moves a dongle.
Physics(id, p) ==
  /\ Dropped(id)
  /\ moves < MaxMoves /\ moves' = moves + 1
  /\ p # board[id].pos
  /\ board' = [board EXCEPT ![id].pos = p]
  /\ UNCHANGED <<phase, routine, hand, cur, curID, previous, score, packets, mirror,
                 coalesced, merged, shown>>

\* PlayerDongle.Merge, by dongle a of dongle b: a moves between the two (p), is
\* destroyed at the end of the frame if it has the highest level, and rises
\* otherwise; b goes to the pool and out of _dongleMap.
MergeInto(a, b, p, points, id) ==
  /\ Dropped(a) /\ Dropped(b) /\ a # b
  /\ board[a].level = board[b].level
  /\ board[a].pos = board[b].pos => p = board[a].pos
  /\ board' = Without([board EXCEPT ![a] =
                         [level     |-> Min2(@.level + 1, MAX_LEVEL),
                          pos       |-> p,
                          destroyed |-> @.level = MAX_LEVEL]], b)
  /\ score' = score + points
  /\ packets' = Append(packets, [type |-> "merge", id |-> id])
  /\ unseen' = (unseen \/ b \notin DOMAIN previous)
  /\ lagging' = (lagging \/ (b \in DOMAIN previous /\ previous[b].level # board[b].level))
  /\ UNCHANGED <<phase, routine, hand, cur, curID, previous, mirror,
                 moves, coalesced, shown>>

\* Variant: the packet names the dongle that stays.
MergeSelf(a, b, p) == MergeInto(a, b, p, Points(board[b].level), a)

\* Variant: the level rises before the score is counted.
MergeRaised(a, b, p) == MergeInto(a, b, p, Points(board[b].level + 1), b)

Merge(a, b, p) == MergeInto(a, b, p, Points(board[b].level), b)

\* A turn of SendDonglePoolRoutine that finds something changed.
SendDonglePool ==
  /\ routine = "on"
  /\ \A id \in DOMAIN board : ~board[id].destroyed
  /\ Changed # {}
  /\ previous' = With(previous, [id \in Changed |-> Info(id)])
  /\ packets' = Append(packets, [type |-> "pool", infos |-> Restrict(Board, Changed),
                           board |-> Board, score |-> score])
  /\ UNCHANGED <<phase, routine, hand, cur, curID, board, score, mirror,
                 moves, coalesced, merged, shown>>

\* A turn of it that comes to a destroyed dongle: GetDongleInfo throws, which
\* ends the coroutine before it sends anything.
SendDonglePoolThrows ==
  /\ routine = "on"
  /\ \E id \in DOMAIN board : board[id].destroyed
  /\ routine' = "dead"
  /\ UNCHANGED <<phase, hand, cur, curID, board, previous, score, packets, mirror,
                 moves, coalesced, merged, shown>>

------------------------------------------------------------------------------
(* The opponent's network thread *)

\* The packets k and k + 1 arrive in one receive: both are decoded from the bytes
\* of the first.  Bound: this happens once.
ReceiveTwo(k) ==
  /\ ~coalesced
  /\ coalesced' = TRUE
  /\ k + 1 \in 2..Len(packets)
  /\ packets' = [packets EXCEPT ![k + 1] = packets[k]]
  /\ UNCHANGED <<player, mirror, moves, merged, shown>>

------------------------------------------------------------------------------
(* The mirror, on the opponent's main thread *)

\* The dongles of an update that the map has no object for; each gets the object
\* last released to the pool, or a new one (DongleSpawnerBase.SpawnDongle).
Unknown(infos) == DOMAIN infos \ DOMAIN enemyMap

Taken(infos) == Min2(Cardinality(Unknown(infos)), Len(pool))

ObjectFor(infos, id) ==
  IF id \in DOMAIN enemyMap THEN enemyMap[id]
  ELSE LET k == Cardinality({i \in Unknown(infos) : i <= id}) IN
       IF k <= Len(pool) THEN pool[Len(pool) + 1 - k] ELSE Len(objects) + k - Len(pool)

\* The map, the pool and the objects after UpdateDongle's first loop: the object of
\* each id is set to its info, whether it is active or not.
MapWith(infos) == [id \in DOMAIN enemyMap \cup DOMAIN infos |-> ObjectFor(infos, id)]

PoolWith(infos) == SubSeq(pool, 1, Len(pool) - Taken(infos))

ObjectsWith(infos, map) ==
  [o \in 1..(Len(objects) + Cardinality(Unknown(infos)) - Taken(infos)) |->
     LET told    == {id \in DOMAIN infos : map[id] = o}
         spawned == \E id \in Unknown(infos) : map[id] = o
     IN  IF told = {} THEN objects[o]
         ELSE LET id == Max(told) IN
              [active |-> spawned \/ objects[o].active, id |-> id,
               level  |-> infos[id].level, pos |-> infos[id].pos]]

\* Where UpdateDongle's second loop, over the reserved ids, throws: at an id that is
\* not in the map, or at an object that DeInit finds without an owner, released
\* earlier or in this loop.  One past the end if it does not.
Throws(k, map, objs) ==
  \/ reserve[k] \notin DOMAIN map
  \/ ~objs[map[reserve[k]]].active
  \/ \E j \in 1..(k - 1) : map[reserve[j]] = map[reserve[k]]

Stop(map, objs) ==
  Min({Len(reserve) + 1} \cup {k \in 1..Len(reserve) :
         (\A j \in 1..(k - 1) : reserve[j] \in DOMAIN map) /\ Throws(k, map, objs)})

\* The turns of the loop that count their score: DeInit throws after it.
Counted(map, objs) ==
  {k \in 1..Len(reserve) : k <= Stop(map, objs) /\ reserve[k] \in DOMAIN map}

\* Variant: _deleteReserveID is cleared in any case.
ClearedAlways(stop) == <<>>

\* _deleteReserveID.Clear, unless an exception came before it.
Cleared(stop) == IF stop <= Len(reserve) THEN reserve ELSE <<>>

\* A job that calls UpdateDongle.  What it deletes is released to the pool but
\* stays in the map (DongleSpawner.DeSpawn).
UpdateDongle ==
  /\ packets # <<>> /\ Head(packets).type = "pool"
  /\ LET infos == Head(packets).infos
         map   == MapWith(infos)
         objs  == ObjectsWith(infos, map)
         stop  == Stop(map, objs)
         gone  == [k \in 1..(stop - 1) |-> map[reserve[k]]]
     IN  /\ enemyMap' = map
         /\ objects' = [o \in DOMAIN objs |->
                          [objs[o] EXCEPT !.active = @ /\ o \notin Range(gone)]]
         /\ pool' = PoolWith(infos) \o gone
         /\ enemyScore' = enemyScore + SumFunction(
              [k \in Counted(map, objs) |-> Points(objs[map[reserve[k]]].level)])
         /\ reserve' = Cleared(stop)
  /\ shown' = [board |-> Head(packets).board, score |-> Head(packets).score]
  /\ packets' = Tail(packets)
  /\ UNCHANGED <<player, moves, coalesced, merged>>

\* A job that calls DeleteDongle.
DeleteDongle ==
  /\ packets # <<>> /\ Head(packets).type = "merge"
  /\ reserve' = Append(reserve, Head(packets).id)
  /\ packets' = Tail(packets)
  /\ UNCHANGED <<player, objects, pool, enemyMap, enemyScore, moves,
                 coalesced, merged, shown>>

------------------------------------------------------------------------------
Game ==
  \/ StartGame \/ EndGame \/ DropDongle \/ SpawnDongleRoutine
  \/ \E p \in Positions :
       \/ Move(p)
       \/ \E a \in DOMAIN board :
            Physics(a, p) \/ \E b \in DOMAIN board : Merge(a, b, p)

Coroutine == SendDonglePool \/ SendDonglePoolThrows

\* GameManager.Update
Update == UpdateDongle \/ DeleteDongle

MirrorNext == Game \/ Coroutine \/ Update \/ \E k \in 1..Len(packets) : ReceiveTwo(k)

MirrorSpec == MirrorInit /\ [][MirrorNext]_mirrorVars

\* The engine runs the coroutine and the jobs every frame and the network
\* delivers; nobody has to play.
FairMirrorSpec == MirrorSpec /\ WF_mirrorVars(Coroutine) /\ WF_mirrorVars(Update)

------------------------------------------------------------------------------
(* Properties *)

\* Every variable keeps its type: ids are below the counter, a map names objects
\* that were created, an object of the pool is inactive and there once.
MirrorTypes ==
  /\ phase \in {"before", "playing", "over"} /\ routine \in {"off", "on", "dead"}
  /\ hand \in Positions /\ cur \in DOMAIN board \cup {NoDongle}
  /\ DOMAIN board \subseteq 0..(curID - 1) /\ curID \in 0..MaxSpawns
  /\ \A id \in DOMAIN board : board[id].level \in 0..MAX_LEVEL /\ board[id].pos \in Positions
  /\ score \in Nat
  /\ \A id \in DOMAIN enemyMap : id < curID /\ enemyMap[id] \in DOMAIN objects
  /\ \A k \in DOMAIN pool : /\ pool[k] \in DOMAIN objects /\ ~objects[pool[k]].active
                            /\ \A j \in DOMAIN pool : pool[j] = pool[k] => j = k

Active == {o \in DOMAIN objects : objects[o].active}

\* The mirror shows exactly this board: one object for each dongle of it, with its
\* level and position, and no object besides.
Shows(b) ==
  /\ Cardinality(Active) = Cardinality(DOMAIN b)
  /\ \A id \in DOMAIN b : \E o \in Active :
       objects[o].id = id /\ objects[o].level = b[id].level /\ objects[o].pos = b[id].pos

\* What the code has no answer to: two packets in one receive, and a dongle merged
\* away before the coroutine has ever sent it.
Astray == coalesced \/ unseen

\* Updates carry only what changed and merges arrive on their own, but once an
\* update was applied the mirror shows the player's whole board as it was when
\* the update was sent: no ghost of a merged dongle, none missing, no object of
\* the pool used for two.
MirrorIsSnapshot == MirrorTypes /\ (Astray \/ Shows(shown.board))

\* The opponent counts the score itself, from what it was shown.  It comes to the
\* player's score at the time of the update, unless a dongle was merged away
\* between its rise to a level and the next turn of the coroutine, as happens in a
\* chain of merges; then it counts less, never more.
ScoreFollows ==
  /\ enemyScore \in Nat
  /\ \/ Astray
     \/ /\ enemyScore <= shown.score
        /\ ~lagging => enemyScore = shown.score

\* A dongle shown at the opponent that the player no longer has is bound to go:
\* its id is reserved, or its merge is on the way.  That holds although an update
\* that throws stops before the rest of the reserved ids.
NoForgottenMerge ==
  \/ coalesced
  \/ \A o \in Active :
       \/ objects[o].id \in DOMAIN board
       \/ \E k \in 1..Len(reserve) : reserve[k] = objects[o].id
       \/ \E k \in 1..Len(packets) :
            packets[k].type = "merge" /\ packets[k].id = objects[o].id

\* When the game comes to rest, the mirror comes to show it; unless the coroutine
\* has died of two dongles of the highest level, after which nothing is sent.
MirrorCatchesUp == <>[](Astray \/ routine = "dead" \/ Shows(Board))
==============================================================================
