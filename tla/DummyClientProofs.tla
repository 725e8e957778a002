------------------------- MODULE DummyClientProofs -------------------------
(***************************************************************************)
(* Proofs about DummyClient, for any number of tests, threads and sessions.*)
(* The invariant has a part per question: who runs when DisconnectAll goes *)
(* on, whose tasks use a session, which operations of a session may be     *)
(* under way, and what refers to it.                                       *)
(***************************************************************************)
EXTENDS DummyClient, TLAPS

\* A thread that runs is in the pool, which DisconnectAll empties before it goes on.
Joined ==
  /\ \A th \in Threads : pc[th] \notin {"none", "end"} => th \in threadPool
  /\ pc[UI] \notin {"free", "join"} => threadPool = {}

\* Unless tests overlap, one test at a time is awaited, its tasks are the only ones
\* that run, and nothing is listed between two tests.
OneTest ==
  \/ overlapped
  \/ /\ awaiting \subseteq {tests}
     /\ pc[UI] # "free" => awaiting = {}
     /\ pc[UI] = "free" /\ awaiting = {} => sessions = {}
     /\ \A a \in Tasks : pc[a] \notin {"none", "done"} => a[1] \in awaiting

\* A task that has not begun has no session yet.
Fresh == \A a \in Tasks : pc[a] = "none" => cur[a] = None

\* Actor a is between RegisterDisconnect and the end of ProcessDisconnect.
InDisc(a, s) == cur[a] = s /\ pc[a] \in {"discOwner", "discEx", "procDisc", "discReset"}

\* A session nobody raced for has one disconnect at a time: an actor's or the OS's.
OneDisconnect ==
  \A s \in Sessions \ raced :
    /\ \A a, b \in Actors : InDisc(a, s) /\ InDisc(b, s) => a = b
    /\ disconnecting[s] <= 1
    /\ disconnecting[s] = 1 => s \in discOwner /\ \A a \in Actors : ~InDisc(a, s)
    /\ \A a \in Actors : InDisc(a, s) /\ pc[a] \in {"discEx", "procDisc"} => s \in discOwner

\* Actor a connects s, or deals with its receives.
InRecv(a, s) ==
  cur[a] = s /\ pc[a] \in {"connect", "procConnect", "register", "recv", "procRecv"}

\* Session s has one connect or receive at a time: an actor's or the OS's.
OneReceiveOf(s) ==
  /\ \A a, b \in Actors : InRecv(a, s) /\ InRecv(b, s) => a = b
  /\ connecting[s] + receiving[s] <= 1
  /\ connecting[s] + receiving[s] = 1 => \A a \in Actors : ~InRecv(a, s)
  /\ receiving[s] = 1 => s \in recvOwner
  /\ \A a \in Actors : InRecv(a, s) /\ pc[a] = "recv" => s \in recvOwner

\* So has every session, unless tests overlap.
OneReceive == overlapped \/ \A s \in Sessions : OneReceiveOf(s)

\* Actor a registers, posts or completes a send of s.
InSend(a, s) == cur[a] = s /\ pc[a] \in {"regSend", "postSend", "procSend", "sendClear"}

\* A session has one send at a time, an actor's or the OS's, and its flag is set then.
OneSend ==
  \A s \in Sessions :
    /\ \A a, b \in Actors : InSend(a, s) /\ InSend(b, s) => a = b
    /\ sending[s] <= 1
    /\ sending[s] = 1 => s \in registered /\ s \in sendOwner /\ \A a \in Actors : ~InSend(a, s)
    /\ \A a \in Actors : InSend(a, s) => s \in registered
    /\ \A a \in Actors : InSend(a, s) /\ pc[a] = "postSend" => s \in sendOwner

\* While the program runs a disposed session is not connected, and no thread posts for
\* it; one that is about to be disposed is not connected either.
StaysOff ==
  /\ pc[UI] \in {"discOwner", "discEx", "dispose"} => cur[UI] \notin isConnect
  /\ crashed = "no" => isConnect \cap disposed = {}
  /\ \A th \in Threads : pc[th] \in {"recv", "postSend"} => cur[th] \notin disposed

\* Nothing of session s is pending, and no thread deals with it.
SettledOf(s) ==
  /\ connecting[s] = 0 /\ receiving[s] = 0 /\ sending[s] = 0 /\ disconnecting[s] = 0
  /\ \A th \in Threads : cur[th] # s

\* Unless tests overlap, nothing happens to a session that was disposed with nothing
\* pending, and a callback that finds no session was pending then.
Settled ==
  \/ overlapped
  \/ /\ \A s \in disposed \ late : SettledOf(s)
     /\ crashed = "callback" => late # {}

\* A session that no list has was disposed; the one DisconnectAll is at was not yet.
Listed ==
  /\ made \ sessions \subseteq disposed
  /\ pc[UI] \in {"disconnect", "discOwner", "discEx", "dispose"} => cur[UI] \notin disposed

\* A session whose wrapper is gone is there as long as something refers to it.
Referred(s) ==
  \/ s \in recvOwner \cup sendOwner \cup discOwner \cup leaked \/ connecting[s] > 0
  \/ \E th \in Threads : cur[th] = s

Held == \A s \in disposed \ dead : Referred(s)

\* An event's owner is reset when the operation is over, but for a refused WSARecv and
\* a Disconnect into the middle of another.
RecvOwned ==
  \A s \in recvOwner \ refused :
    receiving[s] > 0 \/ \E th \in Threads : cur[th] = s /\ pc[th] \in {"recv", "procRecv"}

SendOwned ==
  \A s \in sendOwner :
    sending[s] > 0 \/ \E a \in Actors : cur[a] = s /\ pc[a] \in {"postSend", "procSend"}

DiscOwned ==
  \A s \in discOwner \ (raced \cup dead) :
    disconnecting[s] > 0 \/ \E a \in Actors : InDisc(a, s)

------------------------------------------------------------------------------
(* Facts about actors and references *)

\* The UI thread, the dispatch threads and the tasks are different actors.
LEMMA ActorFacts ==
  /\ UI \in Actors /\ Threads \subseteq Actors /\ Tasks \subseteq Actors
  /\ UI \notin Threads /\ UI \notin Tasks
  /\ \A a \in Actors : a = UI \/ a \in Threads \/ a \in Tasks
  /\ \A a \in Threads : a \notin Tasks /\ a[1] \in Tests
  /\ \A t \in Tests, s \in Sessions : <<t, s>> \in Tasks
  /\ \A a \in Tasks : a[1] \in Tests /\ a[2] \in Sessions /\ a = <<a[1], a[2]>>
<1>1. UI \notin Threads /\ UI \notin Tasks
  BY TestsAssumption DEF UI, Threads, Tasks, Tests
<1>2. \A a \in Threads : a \notin Tasks /\ a[1] \in Tests
  BY ActorAssumption DEF Threads, Tasks
<1> QED
  BY <1>1, <1>2 DEF Actors, Threads, Tasks

\* Closing a number closes sockets only, and a reference that goes away destroys
\* nothing else than its session.
LEMMA DropFacts ==
  ASSUME NEW s, NEW last \in BOOLEAN, Drop(s, last)
  PROVE  /\ open' \subseteq open
         /\ dead' = IF last THEN dead \cup {s} ELSE dead
BY DEF Drop, Close

------------------------------------------------------------------------------
(* Types *)

\* An actor moves on to a place of its own, and to a session.
LEMMA MovedWith ==
  ASSUME TypeOK, NEW a \in Actors, NEW there, Go(a, there),
         NEW with \in made \cup {None}, cur' = [cur EXCEPT ![a] = with],
         UNCHANGED <<tests, made>>,
         IF a = UI THEN /\ there \in UIPlaces
                        /\ there \in {"disconnect", "discOwner", "discEx", "dispose"}
                             => with \in sessions'
                   ELSE UNCHANGED sessions,
         a \in Tasks => there \in TaskPlaces /\ pc[a] # "none" /\ with = cur[a],
         a \in Threads => /\ there \in ThreadPlaces /\ pc[a] # "none"
                          /\ with = None <=> there \in {"none", "loop", "wait", "end"}
  PROVE  Places' /\ Dealing'
<1> USE ActorFacts DEF TypeOK
<1>1. pc' = [pc EXCEPT ![a] = there] /\ tests' = tests /\ made' = made
  BY DEF Go
<1>2. pc' \in [Actors -> UIPlaces \cup TaskPlaces \cup ThreadPlaces]
  BY <1>1 DEF Places
<1>3. /\ pc'[a] = there /\ \A b \in Actors : b # a => pc'[b] = pc[b]
      /\ cur'[a] = with /\ \A b \in Actors : b # a => cur'[b] = cur[b]
      /\ cur' \in [Actors -> made' \cup {None}]
  BY <1>1 DEF Places, Dealing
<1>4. Places'
  BY <1>1, <1>2, <1>3 DEF Places
<1>5. \A b \in Threads \cup Tasks : b[1] > tests' => pc'[b] = "none"
  BY <1>1, <1>3 DEF Dealing
<1>6. pc'[UI] \in {"disconnect", "discOwner", "discEx", "dispose"} => cur'[UI] \in sessions'
  BY <1>3 DEF Dealing
<1>7. \A th \in Threads : cur'[th] = None <=> pc'[th] \in {"none", "loop", "wait", "end"}
  BY <1>3 DEF Dealing
<1> QED
  BY <1>3, <1>4, <1>5, <1>6, <1>7 DEF Dealing

\* An actor moves on to a place of its own, with the session it has.
LEMMA Moved ==
  ASSUME TypeOK, NEW a \in Actors, NEW there, Go(a, there),
         UNCHANGED <<cur, tests, made, sessions>>,
         a = UI => /\ there \in UIPlaces
                   /\ there \in {"disconnect", "discOwner", "discEx", "dispose"}
                        => cur[UI] \in sessions,
         a \in Tasks => there \in TaskPlaces /\ pc[a] # "none",
         a \in Threads => /\ there \in ThreadPlaces /\ pc[a] # "none"
                          /\ cur[a] = None <=> there \in {"none", "loop", "wait", "end"}
  PROVE  Places' /\ Dealing'
<1>1. cur[a] \in made \cup {None} /\ cur' = [cur EXCEPT ![a] = cur[a]]
  BY DEF TypeOK, Dealing
<1>2. /\ UNCHANGED <<tests, made>> /\ sessions' = sessions
  OBVIOUS
<1> HIDE DEF TypeOK, Go
<1> QED
  BY <1>1, <1>2, MovedWith

\* A count changes for a session there is.
LEMMA Counted ==
  ASSUME NEW f \in [Sessions -> Nat], NEW s \in made, made \subseteq Sessions, NEW g,
         \/ g = f
         \/ g = [f EXCEPT ![s] = @ + 1]
         \/ g = [f EXCEPT ![s] = @ - 1] /\ f[s] > 0,
         \A x \in Sessions \ made : f[x] = 0
  PROVE  g \in [Sessions -> Nat] /\ \A x \in Sessions \ made : g[x] = 0
OBVIOUS

\* Nobody moves.
LEMMA Unmoved ==
  ASSUME TypeOK, UNCHANGED <<pc, cur, tests, made, sessions>>
  PROVE  Places' /\ Dealing'
BY DEF TypeOK, Places, Dealing

\* What an actor deals with was created.
LEMMA DealsWithMade ==
  ASSUME TypeOK
  PROVE  /\ made \subseteq Sessions
         /\ \A a \in Tasks : pc[a] # "none" => cur[a] \in made
         /\ \A th \in Threads : pc[th] \notin {"none", "loop", "wait", "end"}
              => cur[th] \in made
         /\ pc[UI] \in {"disconnect", "discOwner", "discEx", "dispose"} => cur[UI] \in made
<1>1. \A a \in Actors : cur[a] \in made \cup {None}
  BY DEF TypeOK, Dealing
<1>2. made \subseteq Sessions /\ sessions \subseteq made
  BY DEF TypeOK, Data
<1>3. \A a \in Tasks : pc[a] # "none" => cur[a] = a[2] /\ a[2] \in Sessions
  BY ActorFacts DEF TypeOK, Places
<1>4. \A a \in Tasks : pc[a] # "none" => cur[a] \in made
  BY <1>1, <1>3, ActorFacts, NoneAssumption
<1>5. \A th \in Threads : pc[th] \notin {"none", "loop", "wait", "end"} => cur[th] \in made
  BY <1>1, ActorFacts DEF TypeOK, Dealing
<1>6. pc[UI] \in {"disconnect", "discOwner", "discEx", "dispose"} => cur[UI] \in made
  BY <1>2 DEF TypeOK, Dealing
<1> QED
  BY <1>2, <1>4, <1>5, <1>6

\* Where an actor is in Disconnect, whoever it is, it has a session.
LEMMA CallerFacts ==
  ASSUME TypeOK, NEW a \in Actors, pc[a] \in {"disconnect", "discOwner", "discEx"}
  PROVE  /\ cur[a] \in made /\ cur[a] \in Sessions
         /\ a = UI => cur[UI] \in sessions
         /\ a \in Threads => cur[a] # None
<1>1. cur[a] \in made /\ cur[a] \in Sessions
  BY DealsWithMade, ActorFacts
<1> QED
  BY <1>1, NoneAssumption DEF TypeOK, Dealing

\* Where an actor is in RegisterSend, it is no UI thread, and has a session.
LEMMA SenderFacts ==
  ASSUME TypeOK, NEW a \in Threads \cup Tasks, pc[a] \in {"regSend", "postSend", "sendClear"}
  PROVE  /\ cur[a] \in made /\ cur[a] \in Sessions /\ a \in Actors /\ a # UI
         /\ a \in Threads => cur[a] # None
<1>1. cur[a] \in made /\ cur[a] \in Sessions
  BY DealsWithMade, ActorFacts
<1> QED
  BY <1>1, NoneAssumption, ActorFacts

\* A test begins: its threads and tasks come to their first places.
LEMMA StartFacts ==
  ASSUME TypeOK, NEW new \in SUBSET Sessions, StartTest(new)
  PROVE  /\ tests' = tests + 1 /\ tests' \in Tests /\ awaiting' = awaiting \cup {tests'}
         /\ sessions' = sessions \cup new /\ made' = made \cup new /\ new \cap made = {}
         /\ {tests'} \X Workers \subseteq Threads
         /\ {tests'} \X sessions' \subseteq Tasks
         /\ threadPool' = threadPool \cup ({tests'} \X Workers)
         /\ pc[UI] = "free" /\ pc'[UI] = "free"
         /\ DOMAIN pc' = Actors /\ DOMAIN cur' = Actors
         /\ \A a \in Threads : /\ cur'[a] = cur[a]
                               /\ pc'[a] = IF a \in {tests'} \X Workers THEN "loop" ELSE pc[a]
         /\ \A a \in Tasks :
              IF a \in {tests'} \X sessions' THEN cur'[a] = a[2] /\ pc'[a] = "connect"
                                            ELSE cur'[a] = cur[a] /\ pc'[a] = pc[a]
         /\ overlapped' = (overlapped \/ awaiting # {})
         /\ cur'[UI] = cur[UI]
         /\ UNCHANGED <<objects, events, owners, flags, raced, refused, late, crashed>>
<1> USE ActorFacts
<1>1. tests \in 0 .. MaxTests /\ made \subseteq Sessions /\ sessions \subseteq made
  BY DEF TypeOK, Data
<1>2. tests < MaxTests /\ pc[UI] = "free" /\ new \cap made = {}
  BY DEF StartTest, At
<1>3. tests' = tests + 1 /\ tests' \in Tests
  BY <1>1, <1>2, TestsAssumption DEF StartTest, Tests
<1>4. sessions' = sessions \cup new /\ sessions' \subseteq Sessions
  BY <1>1 DEF StartTest
<1>5. {tests'} \X Workers \subseteq Threads
  BY <1>3 DEF Threads
<1>6. {tests'} \X sessions' \subseteq Tasks
  BY <1>3, <1>4 DEF Tasks
<1>7. /\ pc' = [a \in Actors |-> IF a \in {tests'} \X Workers THEN "loop"
                                ELSE IF a \in {tests'} \X sessions' THEN "connect" ELSE pc[a]]
      /\ cur' = [a \in Actors |-> IF a \in {tests'} \X sessions' THEN a[2] ELSE cur[a]]
  BY DEF StartTest
<1>8. /\ awaiting' = awaiting \cup {tests'} /\ made' = made \cup new
      /\ threadPool' = threadPool \cup ({tests'} \X Workers)
      /\ overlapped' = (overlapped \/ awaiting # {})
      /\ UNCHANGED <<objects, events, owners, flags, raced, refused, late, crashed>>
  BY DEF StartTest
<1>9. \A a \in Threads : a \notin {tests'} \X sessions'
  BY <1>6
<1>10. \A a \in Tasks : a \notin {tests'} \X Workers
  BY <1>5
<1>11. UI \notin {tests'} \X sessions' /\ UI \notin {tests'} \X Workers
  BY <1>5, <1>6
<1> QED
  BY <1>2, <1>3, <1>4, <1>5, <1>6, <1>7, <1>8, <1>9, <1>10, <1>11

\* Every step keeps every variable in its type.
LEMMA TypeStep ==
  ASSUME TypeOK, [Next]_vars
  PROVE  TypeOK'
<1> USE ActorFacts DEF TypeOK
<1>1. ASSUME NEW new \in SUBSET Sessions, StartTest(new)
      PROVE  TypeOK'
  <2> USE <1>1, StartFacts
  <2>1. Places'
    <3>1. pc' \in [Actors -> UIPlaces \cup TaskPlaces \cup ThreadPlaces]
      BY DEF Places, TaskPlaces, ThreadPlaces, StartTest
    <3>2. \A a \in Tasks : pc'[a] \in TaskPlaces /\ (pc'[a] # "none" => cur'[a] = a[2])
      BY DEF Places, TaskPlaces
    <3>3. \A th \in Threads : pc'[th] \in ThreadPlaces
      BY DEF Places, ThreadPlaces
    <3> QED
      BY <3>1, <3>2, <3>3 DEF Places
  <2>2. Dealing'
    <3>1. \A a \in {tests'} \X sessions' : a[2] \in made'
      <4>1. made' = made \cup new /\ sessions' = sessions \cup new
        OBVIOUS
      <4>2. sessions' \subseteq made'
        BY <4>1 DEF Data
      <4> HIDE <1>1, StartFacts
      <4> QED
        BY <4>2
    <3>2. cur' \in [Actors -> made' \cup {None}]
      BY <3>1 DEF Dealing, StartTest
    <3>3. tests \in Nat /\ \A a \in Threads \cup Tasks : a[1] \in Nat
      <4> HIDE <1>1, StartFacts
      <4>1. tests \in Nat
        <5>1. tests \in 0 .. MaxTests /\ MaxTests \in Nat
          BY TestsAssumption DEF Data
        <5> QED
          BY <5>1
      <4>2. Tests \subseteq Nat
        BY TestsAssumption DEF Tests
      <4> QED
        BY <4>1, <4>2
    <3>4. \A a \in Threads \cup Tasks : a[1] > tests' => pc'[a] = "none"
      <4> SUFFICES ASSUME NEW a \in Threads \cup Tasks, a[1] > tests'
                   PROVE  pc'[a] = "none"
        OBVIOUS
      <4>1. a[1] # tests' /\ a[1] > tests
        BY <3>3
      <4>2. a \notin {tests'} \X Workers /\ a \notin {tests'} \X sessions'
        BY <4>1
      <4> QED
        BY <4>1, <4>2 DEF Dealing
    <3>5. \A th \in {tests'} \X Workers : cur[th] = None
      BY <3>3 DEF Dealing
    <3>6. \A th \in Threads : cur'[th] = None <=> pc'[th] \in {"none", "loop", "wait", "end"}
      BY <3>5 DEF Dealing
    <3> QED
      BY <3>2, <3>4, <3>6 DEF Dealing
  <2>3. Data'
    <3>1. /\ tests \in 0 .. MaxTests /\ awaiting \subseteq 1 .. tests
          /\ threadPool \subseteq Threads
      BY DEF Data
    <3>2. tests' = tests + 1 /\ tests' \in Tests /\ awaiting' = awaiting \cup {tests'}
      OBVIOUS
    <3>3. /\ tests' \in 0 .. MaxTests /\ awaiting' \subseteq 1 .. tests'
      <4> HIDE <1>1, StartFacts
      <4> QED
        BY <3>1, <3>2, TestsAssumption DEF Tests
    <3>4. isRun' \in BOOLEAN /\ threadPool' \subseteq Threads /\ overlapped' \in BOOLEAN
      BY <3>1 DEF StartTest, Data
    <3>5. UNCHANGED <<disposed, dead, open, connecting, receiving, sending, disconnecting,
                      isConnect, registered, recvOwner, sendOwner, discOwner, leaked, crashed,
                      raced, refused, late>>
      BY DEF objects, events, owners, flags
    <3>6. made \subseteq made' /\ made' \subseteq Sessions /\ sessions' \subseteq made'
      <4>1. made' = made \cup new /\ sessions' = sessions \cup new
        OBVIOUS
      <4> QED
        BY <4>1 DEF Data
    <3> QED
      BY <3>3, <3>4, <3>5, <3>6 DEF Data
  <2> QED
    BY <2>1, <2>2, <2>3
<1>2. ASSUME NEW t \in Tests, FinishTest(t)
      PROVE  TypeOK'
  <2>1. Places' /\ Dealing'
    BY <1>2, Moved DEF FinishTest, At, UIPlaces
  <2>2. Data'
    BY <1>2 DEF FinishTest, At, service, objects, events, owners, flags, history, Data
  <2> QED
    BY <2>1, <2>2
<1>3. ASSUME Join
      PROVE  TypeOK'
  <2>1. Places' /\ Dealing'
    BY <1>3, Moved DEF Join, At, UIPlaces
  <2>2. Data'
    BY <1>3 DEF Join, At, service, objects, events, owners, flags, history, Data
  <2> QED
    BY <2>1, <2>2
<1>4. ASSUME NEW s \in Sessions, NextSession(s)
      PROVE  TypeOK'
  <2>1. Places' /\ Dealing'
    BY <1>4, MovedWith DEF NextSession, At, service, objects, events, owners, flags, history,
       UIPlaces, Data
  <2>2. Data'
    BY <1>4 DEF NextSession, At, service, objects, events, owners, flags, history, Data
  <2> QED
    BY <2>1, <2>2
<1>5. ASSUME Dispose
      PROVE  TypeOK'
  <2>0. /\ cur[UI] \in made /\ open' \subseteq open
        /\ dead' \subseteq dead \cup {cur[UI]}
    BY <1>5, DealsWithMade, DropFacts DEF Dispose, At
  <2>1. Places' /\ Dealing'
    BY <1>5, Moved DEF Dispose, At, service, flags, UIPlaces
  <2>2. Data'
    BY <1>5, <2>0 DEF Dispose, service, objects, events, owners, flags, history, Data
  <2> QED
    BY <2>1, <2>2
<1>6. ASSUME ClearSessions
      PROVE  TypeOK'
  <2>1. Places' /\ Dealing'
    <3>1. /\ Go(UI, "free") /\ cur' = [cur EXCEPT ![UI] = None]
          /\ UNCHANGED <<tests, made>> /\ "free" \in UIPlaces
      BY <1>6 DEF ClearSessions, UIPlaces
    <3>2. /\ None \in made \cup {None}
          /\ "free" \notin {"disconnect", "discOwner", "discEx", "dispose"}
      OBVIOUS
    <3>3. UI \in Actors /\ UI \notin Tasks /\ UI \notin Threads
      OBVIOUS
    <3> HIDE ActorFacts DEF TypeOK
    <3> QED
      BY <3>1, <3>2, <3>3, MovedWith, Zenon
  <2>2. Data'
    BY <1>6 DEF ClearSessions, At, service, objects, events, owners, flags, history, Data
  <2> QED
    BY <2>1, <2>2
<1>7. ASSUME NEW a \in Tasks, Connect(a)
      PROVE  TypeOK'
  <2>0. cur[a] \in made
    BY <1>7, DealsWithMade DEF Connect, At
  <2>1. Places' /\ Dealing'
    BY <1>7, Moved DEF Connect, At, service, flags, TaskPlaces
  <2>2. connecting' \in [Sessions -> Nat] /\ \A x \in Sessions \ made : connecting'[x] = 0
    <3>1. /\ connecting \in [Sessions -> Nat] /\ \A x \in Sessions \ made : connecting[x] = 0
          /\ made \subseteq Sessions
      BY DEF Data
    <3>2. UNCHANGED connecting \/ connecting' = [connecting EXCEPT ![cur[a]] = @ + 1]
      BY <1>7, <3>1 DEF Connect, events, flags
    <3> QED
      BY <2>0, <3>1, <3>2, Counted
  <2>3. Data'
    BY <1>7, <2>0, <2>2 DEF Connect, Take, service, objects, events, owners, flags, history,
       Data
  <2> QED
    BY <2>1, <2>3
<1>8. ASSUME NEW a \in Tasks, Sleep(a)
      PROVE  TypeOK'
  <2>1. Places' /\ Dealing'
    BY <1>8, Moved DEF Sleep, At, service, flags, TaskPlaces
  <2>2. Data'
    BY <1>8 DEF Sleep, At, service, objects, events, owners, flags, history, Data
  <2> QED
    BY <2>1, <2>2
<1>9. ASSUME NEW a \in Tasks, UseDisposed(a)
      PROVE  TypeOK'
  <2>1. Places' /\ Dealing'
    BY <1>9, Moved DEF UseDisposed, Calls, service, TaskPlaces
  <2>2. Data'
    BY <1>9 DEF UseDisposed, service, objects, flags, events, owners, history, Data
  <2> QED
    BY <2>1, <2>2
<1>10. ASSUME NEW a \in Actors, Disconnect(a)
      PROVE  TypeOK'
  <2>0. cur[a] \in made /\ (a = UI => cur[UI] \in sessions) /\ (a \in Threads => cur[a] # None)
    BY <1>10, CallerFacts DEF Disconnect, At
  <2>1. Places' /\ Dealing'
    BY <1>10, <2>0, Moved DEF Disconnect, At, service, flags, UIPlaces, TaskPlaces, ThreadPlaces
  <2>2. Data'
    BY <1>10, <2>0 DEF Disconnect, service, objects, events, owners, flags, history, Data
  <2> QED
    BY <2>1, <2>2
<1>11. ASSUME NEW a \in Actors, DisconnectOwner(a)
      PROVE  TypeOK'
  <2>0. cur[a] \in made /\ (a = UI => cur[UI] \in sessions) /\ (a \in Threads => cur[a] # None)
    BY <1>11, CallerFacts DEF DisconnectOwner, At
  <2>1. Places' /\ Dealing'
    BY <1>11, <2>0, Moved DEF DisconnectOwner, At, service, flags, UIPlaces, TaskPlaces,
       ThreadPlaces
  <2>2. Data'
    BY <1>11, <2>0 DEF DisconnectOwner, service, objects, events, owners, flags, history, Data
  <2> QED
    BY <2>1, <2>2
<1>12. ASSUME NEW a \in Actors, DisconnectEx(a)
      PROVE  TypeOK'
  <2>0. cur[a] \in made /\ (a = UI => cur[UI] \in sessions) /\ (a \in Threads => cur[a] # None)
    BY <1>12, CallerFacts DEF DisconnectEx, At
  <2>1. Places' /\ Dealing'
    BY <1>12, <2>0, Moved DEF DisconnectEx, At, Return, service, flags, UIPlaces, TaskPlaces,
       ThreadPlaces
  <2>2. disconnecting' \in [Sessions -> Nat] /\ \A x \in Sessions \ made : disconnecting'[x] = 0
    <3>1. /\ disconnecting \in [Sessions -> Nat]
          /\ \A x \in Sessions \ made : disconnecting[x] = 0
          /\ made \subseteq Sessions
      BY DEF Data
    <3>2. disconnecting' = [disconnecting EXCEPT ![cur[a]] = @ + 1]
      BY <1>12, <3>1 DEF DisconnectEx, events, flags
    <3> QED
      BY <2>0, <3>1, <3>2, Counted
  <2>3. Data'
    BY <1>12, <2>0, <2>2 DEF DisconnectEx, Take, service, objects, events, owners, flags,
       history, Data
  <2> QED
    BY <2>1, <2>3
<1>13. ASSUME NEW a \in Actors, DisconnectExFail(a)
      PROVE  TypeOK'
  <2>0. cur[a] \in made /\ (a = UI => cur[UI] \in sessions) /\ (a \in Threads => cur[a] # None)
    BY <1>13, CallerFacts DEF DisconnectExFail, At
  <2>1. Places' /\ Dealing'
    BY <1>13, <2>0, Moved DEF DisconnectExFail, At, Return, service, flags, UIPlaces,
       TaskPlaces, ThreadPlaces
  <2>2. open' \subseteq open /\ dead' \subseteq dead \cup (disposed \cap {cur[a]})
    <3>1. Drop(cur[a], a \in Tasks /\ cur[a] \in disposed \ sendOwner /\ Unheld(cur[a], a))
      BY <1>13 DEF DisconnectExFail
    <3> QED
      BY <3>1 DEF Drop, Close
  <2>3. Data'
    BY <1>13, <2>0, <2>2 DEF DisconnectExFail, service, events, owners, flags, history, Data
  <2> QED
    BY <2>1, <2>3
<1>14. ASSUME NEW th \in Threads, Loop(th)
      PROVE  TypeOK'
  <2>1. Places' /\ Dealing'
    BY <1>14, Moved DEF Loop, At, service, flags, ThreadPlaces, Dealing
  <2>2. Data'
    BY <1>14 DEF Loop, At, service, objects, events, owners, flags, history, Data
  <2> QED
    BY <2>1, <2>2
<1>15. ASSUME NEW th \in Threads, Timeout(th)
      PROVE  TypeOK'
  <2>1. Places' /\ Dealing'
    BY <1>15, Moved DEF Timeout, At, service, flags, ThreadPlaces, Dealing
  <2>2. Data'
    BY <1>15 DEF Timeout, At, service, objects, events, owners, flags, history, Data
  <2> QED
    BY <2>1, <2>2
<1>16. ASSUME NEW th \in Threads, NEW s \in Sessions, DequeueConnect(th, s)
      PROVE  TypeOK'
  <2>0. s \in made /\ s # None
    BY <1>16, NoneAssumption DEF DequeueConnect, At, Data
  <2>1. Places' /\ Dealing'
    BY <1>16, <2>0, MovedWith, Unmoved DEF DequeueConnect, At, Take, service, flags,
       ThreadPlaces
  <2>2. connecting' \in [Sessions -> Nat] /\ \A x \in Sessions \ made : connecting'[x] = 0
    <3>1. /\ connecting \in [Sessions -> Nat] /\ \A x \in Sessions \ made : connecting[x] = 0
          /\ made \subseteq Sessions
      BY DEF Data
    <3>2. connecting' = [connecting EXCEPT ![s] = @ - 1] /\ connecting[s] > 0
      BY <1>16, <3>1 DEF DequeueConnect, events, flags
    <3> QED
      BY <2>0, <3>1, <3>2, Counted
  <2>3. Data'
    BY <1>16, <2>0, <2>2 DEF DequeueConnect, Take, service, objects, events, owners, flags,
       history, Data
  <2> QED
    BY <2>1, <2>3
<1>17. ASSUME NEW th \in Threads, NEW s \in Sessions, DequeueRecv(th, s)
      PROVE  TypeOK'
  <2>0. s \in made /\ s # None
    BY <1>17, NoneAssumption DEF DequeueRecv, At, Data
  <2>1. Places' /\ Dealing'
    BY <1>17, <2>0, MovedWith, Unmoved DEF DequeueRecv, At, Take, service, flags, ThreadPlaces
  <2>2. receiving' \in [Sessions -> Nat] /\ \A x \in Sessions \ made : receiving'[x] = 0
    <3>1. /\ receiving \in [Sessions -> Nat] /\ \A x \in Sessions \ made : receiving[x] = 0
          /\ made \subseteq Sessions
      BY DEF Data
    <3>2. receiving' = [receiving EXCEPT ![s] = @ - 1] /\ receiving[s] > 0
      BY <1>17, <3>1 DEF DequeueRecv, events, flags
    <3> QED
      BY <2>0, <3>1, <3>2, Counted
  <2>3. Data'
    BY <1>17, <2>0, <2>2 DEF DequeueRecv, Take, service, objects, events, owners, flags,
       history, Data
  <2> QED
    BY <2>1, <2>3
<1>18. ASSUME NEW th \in Threads, NEW s \in Sessions, DequeueDisconnect(th, s)
      PROVE  TypeOK'
  <2>0. s \in made /\ s # None
    BY <1>18, NoneAssumption DEF DequeueDisconnect, At, Data
  <2>1. Places' /\ Dealing'
    BY <1>18, <2>0, MovedWith, Unmoved DEF DequeueDisconnect, At, Take, service, flags,
       ThreadPlaces
  <2>2. disconnecting' \in [Sessions -> Nat] /\ \A x \in Sessions \ made : disconnecting'[x] = 0
    <3>1. /\ disconnecting \in [Sessions -> Nat]
          /\ \A x \in Sessions \ made : disconnecting[x] = 0
          /\ made \subseteq Sessions
      BY DEF Data
    <3>2. disconnecting' = [disconnecting EXCEPT ![s] = @ - 1] /\ disconnecting[s] > 0
      BY <1>18, <3>1 DEF DequeueDisconnect, events, flags
    <3> QED
      BY <2>0, <3>1, <3>2, Counted
  <2>3. Data'
    BY <1>18, <2>0, <2>2 DEF DequeueDisconnect, Take, service, objects, events, owners, flags,
       history, Data
  <2> QED
    BY <2>1, <2>3
<1>19. ASSUME NEW th \in Threads, ProcessConnect(th)
      PROVE  TypeOK'
  <2>0. cur[th] \in made /\ cur[th] # None
    BY <1>19, DealsWithMade, NoneAssumption DEF ProcessConnect, At
  <2>1. Places' /\ Dealing'
    BY <1>19, <2>0, Moved, Unmoved DEF ProcessConnect, Callback, At, service, flags,
       ThreadPlaces, Dealing
  <2>2. Data'
    BY <1>19, <2>0 DEF ProcessConnect, Callback, service, objects, events, owners, flags,
       history, Data
  <2> QED
    BY <2>1, <2>2
<1>20. ASSUME NEW th \in Threads, RegisterRecv(th)
      PROVE  TypeOK'
  <2>0. cur[th] \in made /\ cur[th] # None
    BY <1>20, DealsWithMade, NoneAssumption DEF RegisterRecv, At
  <2>1. Places' /\ Dealing'
    BY <1>20, <2>0, Moved DEF RegisterRecv, At, service, flags, ThreadPlaces, Dealing
  <2>2. recvOwner' \subseteq made
    <3>1. recvOwner \subseteq made
      BY DEF Data
    <3>2. recvOwner' \in {recvOwner, recvOwner \cup {cur[th]}}
      BY <1>20 DEF RegisterRecv
    <3> QED
      BY <2>0, <3>1, <3>2
  <2>3. Data'
    BY <1>20, <2>2 DEF RegisterRecv, service, objects, events, flags, history, Data
  <2> QED
    BY <2>1, <2>3
<1>21. ASSUME NEW th \in Threads, PostRecv(th)
      PROVE  TypeOK'
  <2>0. cur[th] \in made /\ cur[th] # None
    BY <1>21, DealsWithMade, NoneAssumption DEF PostRecv, At
  <2>1. Places' /\ Dealing'
    BY <1>21, <2>0, Moved DEF PostRecv, At, service, flags, ThreadPlaces, Dealing
  <2>2. receiving' \in [Sessions -> Nat] /\ \A x \in Sessions \ made : receiving'[x] = 0
    <3>1. /\ receiving \in [Sessions -> Nat] /\ \A x \in Sessions \ made : receiving[x] = 0
          /\ made \subseteq Sessions
      BY DEF Data
    <3>2. UNCHANGED receiving \/ receiving' = [receiving EXCEPT ![cur[th]] = @ + 1]
      BY <1>21, <3>1 DEF PostRecv, events, flags
    <3> QED
      BY <2>0, <3>1, <3>2, Counted
  <2>3. Data'
    BY <1>21, <2>0, <2>2 DEF PostRecv, Take, service, objects, events, owners, flags, history,
       Data
  <2> QED
    BY <2>1, <2>3
<1>22. ASSUME NEW th \in Threads, ProcessRecv(th)
      PROVE  TypeOK'
  <2>0. cur[th] \in made /\ cur[th] # None
    BY <1>22, DealsWithMade, NoneAssumption DEF ProcessRecv, At
  <2>1. Places' /\ Dealing'
    BY <1>22, <2>0, Moved DEF ProcessRecv, At, service, flags, ThreadPlaces, Dealing
  <2>2. Data'
    BY <1>22, <2>0 DEF ProcessRecv, service, objects, events, owners, flags, history, Data
  <2> QED
    BY <2>1, <2>2
<1>23. ASSUME NEW th \in Threads, ProcessDisconnect(th)
      PROVE  TypeOK'
  <2>0. cur[th] \in made /\ cur[th] # None
    BY <1>23, DealsWithMade, NoneAssumption DEF ProcessDisconnect, At
  <2>1. Places' /\ Dealing'
    BY <1>23, <2>0, Moved DEF ProcessDisconnect, At, service, flags, ThreadPlaces, Dealing
  <2>2. Data'
    BY <1>23, <2>0 DEF ProcessDisconnect, Close, service, objects, events, owners, flags,
       history, Data
  <2> QED
    BY <2>1, <2>2
<1>24. ASSUME NEW th \in Threads, ResetDisconnectOwner(th)
      PROVE  TypeOK'
  <2>0. cur[th] \in made /\ cur[th] # None
    BY <1>24, DealsWithMade, NoneAssumption DEF ResetDisconnectOwner, At
  <2>1. Places' /\ Dealing'
    BY <1>24, <2>0, Moved, Unmoved DEF ResetDisconnectOwner, Callback, At, service, flags,
       ThreadPlaces, Dealing
  <2>2. Data'
    BY <1>24, <2>0 DEF ResetDisconnectOwner, Callback, service, objects, events, owners,
       flags, history, Data
  <2> QED
    BY <2>1, <2>2
<1>25. ASSUME NEW th \in Threads, Release(th)
      PROVE  TypeOK'
  <2>0. /\ cur[th] \in made /\ open' \subseteq open
        /\ dead' = IF cur[th] \in disposed \ (discOwner \cup sendOwner) /\ Unheld(cur[th], th)
                     THEN dead \cup {cur[th]} ELSE dead
    BY <1>25, DealsWithMade, DropFacts DEF Release, At
  <2>1. Places' /\ Dealing'
    BY <1>25, MovedWith DEF Release, At, service, flags, ThreadPlaces
  <2>2. Data'
    BY <1>25, <2>0 DEF Release, service, objects, events, owners, flags, history, Data
  <2> QED
    BY <2>1, <2>2
<1>26. CASE UNCHANGED vars
  BY <1>26 DEF vars, service, objects, events, owners, flags, history, Places, Dealing, Data
<1>27. ASSUME NEW t \in Tests, FaultTest(t)
      PROVE  TypeOK'
  <2>1. Places' /\ Dealing'
    BY <1>27, Unmoved DEF FaultTest
  <2>2. Data'
    BY <1>27 DEF FaultTest, At, service, objects, flags, events, owners, history, Data
  <2> QED
    BY <2>1, <2>2
<1>28. ASSUME NEW a \in Tasks, UseFreed(a)
      PROVE  TypeOK'
  <2>1. Places' /\ Dealing'
    BY <1>28, Moved, Unmoved DEF UseFreed, service, TaskPlaces
  <2>2. Data'
    BY <1>28 DEF UseFreed, service, objects, flags, events, owners, history, Data
  <2> QED
    BY <2>1, <2>2
<1>29. ASSUME NEW a \in Tasks, Send(a)
      PROVE  TypeOK'
  <2>0. cur[a] \in made
    BY <1>29, DealsWithMade DEF Send, At
  <2>1. Places' /\ Dealing'
    BY <1>29, Moved DEF Send, At, service, TaskPlaces
  <2>2. Data'
    BY <1>29, <2>0 DEF Send, service, objects, flags, events, owners, history, Data
  <2> QED
    BY <2>1, <2>2
<1>30. ASSUME NEW a \in Threads \cup Tasks, RegisterSend(a)
      PROVE  TypeOK'
  <2>0. cur[a] \in made /\ (a \in Threads => cur[a] # None) /\ a \in Actors /\ a # UI
    BY <1>30, SenderFacts DEF RegisterSend, At
  <2>1. Places' /\ Dealing'
    BY <1>30, <2>0, Moved DEF RegisterSend, Sent, At, service, TaskPlaces, ThreadPlaces, Dealing
  <2>2. sendOwner' \subseteq made
    <3>1. sendOwner \subseteq made /\ sendOwner' \in {sendOwner, sendOwner \cup {cur[a]}}
      BY <1>30 DEF RegisterSend, Data
    <3> QED
      BY <2>0, <3>1
  <2>3. Data'
    BY <1>30, <2>2 DEF RegisterSend, service, objects, flags, events, owners, history, Data
  <2> QED
    BY <2>1, <2>3
<1>31. ASSUME NEW a \in Threads \cup Tasks, PostSend(a)
      PROVE  TypeOK'
  <2>0. cur[a] \in made /\ (a \in Threads => cur[a] # None) /\ a \in Actors /\ a # UI
    BY <1>31, SenderFacts DEF PostSend, At
  <2>1. Places' /\ Dealing'
    BY <1>31, <2>0, Moved DEF PostSend, Sent, At, service, TaskPlaces, ThreadPlaces, Dealing
  <2>2. sending' \in [Sessions -> Nat] /\ \A x \in Sessions \ made : sending'[x] = 0
    <3>1. /\ sending \in [Sessions -> Nat] /\ \A x \in Sessions \ made : sending[x] = 0
          /\ made \subseteq Sessions
      BY DEF Data
    <3>2. sending' = [sending EXCEPT ![cur[a]] = @ + 1]
      BY <1>31, <3>1 DEF PostSend, events
    <3> QED
      BY <2>0, <3>1, <3>2, Counted
  <2>3. Data'
    BY <1>31, <2>0, <2>2 DEF PostSend, Take, service, objects, flags, events, owners, history,
       Data
  <2> QED
    BY <2>1, <2>3
<1>32. ASSUME NEW a \in Threads \cup Tasks, PostSendFail(a)
      PROVE  TypeOK'
  <2>0. cur[a] \in made /\ (a \in Threads => cur[a] # None) /\ a \in Actors /\ a # UI
    BY <1>32, SenderFacts DEF PostSendFail, At
  <2>1. Places' /\ Dealing'
    BY <1>32, <2>0, Moved DEF PostSendFail, Sent, At, service, TaskPlaces, ThreadPlaces, Dealing
  <2>2. open' \subseteq open /\ dead' \subseteq dead \cup (disposed \cap {cur[a]})
    <3>1. Drop(cur[a], a \in Tasks /\ cur[a] \in disposed \ discOwner /\ Unheld(cur[a], a))
      BY <1>32 DEF PostSendFail
    <3> QED
      BY <3>1 DEF Drop, Close
  <2>3. Data'
    BY <1>32, <2>0, <2>2 DEF PostSendFail, service, events, owners, flags, history, Data
  <2> QED
    BY <2>1, <2>3
<1>33. ASSUME NEW a \in Threads \cup Tasks, ClearSend(a)
      PROVE  TypeOK'
  <2>0. cur[a] \in made /\ (a \in Threads => cur[a] # None) /\ a \in Actors /\ a # UI
    BY <1>33, SenderFacts DEF ClearSend, At
  <2>1. Places' /\ Dealing'
    BY <1>33, <2>0, Moved DEF ClearSend, Sent, At, service, TaskPlaces, ThreadPlaces, Dealing
  <2>2. Data'
    BY <1>33, <2>0 DEF ClearSend, service, objects, flags, events, owners, history, Data
  <2> QED
    BY <2>1, <2>2
<1>34. ASSUME NEW th \in Threads, NEW s \in Sessions, DequeueSend(th, s)
      PROVE  TypeOK'
  <2>0. s \in made /\ s # None
    BY <1>34, NoneAssumption DEF DequeueSend, At, Data
  <2>1. Places' /\ Dealing'
    BY <1>34, <2>0, MovedWith, Unmoved DEF DequeueSend, At, Take, service, ThreadPlaces
  <2>2. sending' \in [Sessions -> Nat] /\ \A x \in Sessions \ made : sending'[x] = 0
    <3>1. /\ sending \in [Sessions -> Nat] /\ \A x \in Sessions \ made : sending[x] = 0
          /\ made \subseteq Sessions
      BY DEF Data
    <3>2. sending' = [sending EXCEPT ![s] = @ - 1] /\ sending[s] > 0
      BY <1>34, <3>1 DEF DequeueSend, events
    <3> QED
      BY <2>0, <3>1, <3>2, Counted
  <2>3. Data'
    BY <1>34, <2>0, <2>2 DEF DequeueSend, Take, service, objects, flags, events, owners,
       history, Data
  <2> QED
    BY <2>1, <2>3
<1>35. ASSUME NEW th \in Threads, ProcessSend(th)
      PROVE  TypeOK'
  <2>0. cur[th] \in made /\ cur[th] # None
    BY <1>35, DealsWithMade, NoneAssumption DEF ProcessSend, At
  <2>1. Places' /\ Dealing'
    BY <1>35, <2>0, Moved DEF ProcessSend, At, service, ThreadPlaces, Dealing
  <2>2. Data'
    BY <1>35, <2>0 DEF ProcessSend, service, objects, flags, events, owners, history, Data
  <2> QED
    BY <2>1, <2>2
<1> QED
  BY <1>1, <1>2, <1>3, <1>4, <1>5, <1>6, <1>7, <1>8, <1>9, <1>10, <1>11, <1>12, <1>13,
     <1>14, <1>15, <1>16, <1>17, <1>18, <1>19, <1>20, <1>21, <1>22, <1>23, <1>24, <1>25,
     <1>26, <1>27, <1>28, <1>29, <1>30, <1>31, <1>32, <1>33, <1>34, <1>35
     DEF Next, InDisconnectAll, Calling, Sending, TaskStep, ThreadStep

------------------------------------------------------------------------------
(* Steps that neither begin nor end a test *)

\* The list, the pool and the tests stay; whoever moves was running, and runs on or
\* comes to its end; tasks keep their sessions.
Quiet ==
  /\ UNCHANGED <<tests, awaiting, threadPool, sessions, made, overlapped>>
  /\ \A a \in Tasks : cur'[a] = cur[a]
  /\ \A a \in Actors :
       \/ pc'[a] = pc[a]
       \/ /\ pc[a] \notin {"none", "done", "faulted", "end", "free", "join"}
          /\ pc'[a] \notin {"none", "free", "join"}

\* No task throws.
NoneThrows == \A a \in Tasks : pc'[a] = "faulted" => pc[a] = "faulted"

\* The wrappers stay, and no one uses a session that is gone.
Harmless ==
  /\ disposed' = disposed /\ crashed' \in {crashed, "null owner", "callback"}
  /\ NoneThrows

\* An actor that has begun and goes on, to where no test begins or ends, is quiet, and
\* throws only where it goes to "faulted".
LEMMA GoesQuietly ==
  ASSUME TypeOK, NEW a \in Actors, NEW there, Go(a, there),
         UNCHANGED <<tests, awaiting, threadPool, sessions, made, overlapped>>,
         NEW with, cur' = cur \/ (cur' = [cur EXCEPT ![a] = with] /\ a \notin Tasks),
         pc[a] \notin {"none", "done", "faulted", "end", "free", "join"},
         there \notin {"none", "free", "join"}
  PROVE  Quiet /\ (there # "faulted" => NoneThrows)
<1>1. \A b \in Actors : pc'[b] = IF b = a THEN there ELSE pc[b]
  BY DEF TypeOK, Places, Go
<1>2. \A b \in Tasks : cur'[b] = cur[b]
  BY ActorFacts DEF TypeOK, Dealing
<1> QED
  BY <1>1, <1>2, ActorFacts DEF Quiet, NoneThrows

\* Every step is one of those that begin or end a test, or quiet; a quiet one is
\* harmless unless it disposes a session or uses one that is gone.
LEMMA QuietStep ==
  ASSUME TypeOK, [Next]_vars
  PROVE  \/ \E new \in SUBSET Sessions : StartTest(new)
         \/ \E t \in Tests : FinishTest(t)
         \/ \E t \in Tests : FaultTest(t)
         \/ Join
         \/ ClearSessions
         \/ /\ Quiet
            /\ Dispose \/ Harmless \/ \E a \in Tasks : UseDisposed(a) \/ UseFreed(a)
<1> USE ActorFacts
<1>1. ASSUME NEW s \in Sessions, NextSession(s)
      PROVE  Quiet /\ Harmless
  <2>1. /\ Go(UI, "disconnect") /\ cur' = [cur EXCEPT ![UI] = s]
        /\ pc[UI] = "each" /\ UI \in Actors /\ UI \notin Tasks
        /\ UNCHANGED <<tests, awaiting, threadPool, sessions, made, overlapped>>
    BY <1>1 DEF NextSession, At, service, flags, history
  <2>2. Quiet
    <3>1. /\ pc[UI] \notin {"none", "done", "faulted", "end", "free", "join"}
          /\ "disconnect" \notin {"none", "free", "join"}
      BY <2>1
    <3> QED
      BY <2>1, <3>1, GoesQuietly, Zenon
  <2>3. Harmless
    <3>1. NoneThrows
      BY <1>1, ActorFacts DEF NextSession, Go, NoneThrows, TypeOK, Places
    <3> QED
      BY <1>1, <3>1 DEF NextSession, Harmless, objects
  <2> QED
    BY <2>2, <2>3
<1>2. ASSUME Dispose
      PROVE  Quiet
  BY <1>2, GoesQuietly DEF Dispose, At, Harmless, service, objects, flags, history
<1>3. ASSUME NEW a \in Tasks, UseDisposed(a)
      PROVE  Quiet
  BY <1>3, GoesQuietly DEF UseDisposed, Calls, service, history
<1>4. ASSUME NEW a \in Tasks, Connect(a)
      PROVE  Quiet /\ Harmless
  BY <1>4, GoesQuietly DEF Connect, At, Harmless, service, objects, flags, history
<1>5. ASSUME NEW a \in Tasks, Sleep(a)
      PROVE  Quiet /\ Harmless
  BY <1>5, GoesQuietly DEF Sleep, At, Harmless, service, objects, flags, history
<1>6. ASSUME NEW a \in Actors, Disconnect(a)
      PROVE  Quiet /\ Harmless
  BY <1>6, GoesQuietly DEF Disconnect, At, Harmless, service, objects, flags, history
<1>7. ASSUME NEW a \in Actors, DisconnectOwner(a)
      PROVE  Quiet /\ Harmless
  BY <1>7, GoesQuietly DEF DisconnectOwner, At, Harmless, service, objects, flags, history
<1>8. ASSUME NEW a \in Actors, DisconnectEx(a)
      PROVE  Quiet /\ Harmless
  BY <1>8, GoesQuietly DEF DisconnectEx, At, Harmless, Return, service, objects, flags, history
<1>9. ASSUME NEW a \in Actors, DisconnectExFail(a)
      PROVE  Quiet /\ Harmless
  BY <1>9, GoesQuietly DEF DisconnectExFail, At, Harmless, Return, service, objects, flags,
     history
<1>10. ASSUME NEW th \in Threads, Loop(th)
      PROVE  Quiet /\ Harmless
  BY <1>10, GoesQuietly DEF Loop, At, Harmless, service, objects, flags, history
<1>11. ASSUME NEW th \in Threads, Timeout(th)
      PROVE  Quiet /\ Harmless
  BY <1>11, GoesQuietly DEF Timeout, At, Harmless, service, objects, flags, history
<1>12. ASSUME NEW th \in Threads, NEW s \in Sessions, DequeueConnect(th, s)
      PROVE  Quiet /\ Harmless
  <2>1. UNCHANGED <<service, objects, history>> /\ pc[th] = "wait"
    BY <1>12 DEF DequeueConnect, At
  <2>2. CASE UNCHANGED <<pc, cur>> /\ crashed' = "null owner"
    BY <2>1, <2>2 DEF Quiet, Harmless, NoneThrows, service, objects, flags, history
  <2>3. CASE \E there \in {"procConnect", "procRecv", "procDisc"} :
               Go(th, there) /\ cur' = [cur EXCEPT ![th] = s] /\ crashed' = crashed
    BY <2>1, <2>3, GoesQuietly DEF Harmless, service, objects, flags, history
  <2> QED
    BY <1>12, <2>2, <2>3 DEF DequeueConnect, Take
<1>13. ASSUME NEW th \in Threads, NEW s \in Sessions, DequeueRecv(th, s)
      PROVE  Quiet /\ Harmless
  <2>1. UNCHANGED <<service, objects, history>> /\ pc[th] = "wait"
    BY <1>13 DEF DequeueRecv, At
  <2>2. CASE UNCHANGED <<pc, cur>> /\ crashed' = "null owner"
    BY <2>1, <2>2 DEF Quiet, Harmless, NoneThrows, service, objects, flags, history
  <2>3. CASE \E there \in {"procConnect", "procRecv", "procDisc"} :
               Go(th, there) /\ cur' = [cur EXCEPT ![th] = s] /\ crashed' = crashed
    BY <2>1, <2>3, GoesQuietly DEF Harmless, service, objects, flags, history
  <2> QED
    BY <1>13, <2>2, <2>3 DEF DequeueRecv, Take
<1>14. ASSUME NEW th \in Threads, NEW s \in Sessions, DequeueDisconnect(th, s)
      PROVE  Quiet /\ Harmless
  <2>1. UNCHANGED <<service, objects, history>> /\ pc[th] = "wait"
    BY <1>14 DEF DequeueDisconnect, At
  <2>2. CASE UNCHANGED <<pc, cur>> /\ crashed' = "null owner"
    BY <2>1, <2>2 DEF Quiet, Harmless, NoneThrows, service, objects, flags, history
  <2>3. CASE \E there \in {"procConnect", "procRecv", "procDisc"} :
               Go(th, there) /\ cur' = [cur EXCEPT ![th] = s] /\ crashed' = crashed
    BY <2>1, <2>3, GoesQuietly DEF Harmless, service, objects, flags, history
  <2> QED
    BY <1>14, <2>2, <2>3 DEF DequeueDisconnect, Take
<1>15. ASSUME NEW th \in Threads, ProcessConnect(th)
      PROVE  Quiet /\ Harmless
  <2>1. UNCHANGED <<service, objects, history, cur>> /\ pc[th] \in {"procConnect", "discReset"}
    BY <1>15 DEF ProcessConnect, At
  <2>2. CASE UNCHANGED pc /\ crashed' = "callback"
    BY <2>1, <2>2 DEF Quiet, Harmless, NoneThrows, service, objects, history
  <2>3. CASE crashed' = crashed /\ \E there \in {"register", "release"} : Go(th, there)
    BY <2>1, <2>3, GoesQuietly DEF Harmless, service, objects, history
  <2> QED
    BY <1>15, <2>2, <2>3 DEF ProcessConnect, Callback
<1>16. ASSUME NEW th \in Threads, RegisterRecv(th)
      PROVE  Quiet /\ Harmless
  BY <1>16, GoesQuietly DEF RegisterRecv, At, Harmless, service, objects, flags, history
<1>17. ASSUME NEW th \in Threads, PostRecv(th)
      PROVE  Quiet /\ Harmless
  BY <1>17, GoesQuietly DEF PostRecv, At, Harmless, service, objects, flags, history
<1>18. ASSUME NEW th \in Threads, ProcessRecv(th)
      PROVE  Quiet /\ Harmless
  BY <1>18, GoesQuietly DEF ProcessRecv, At, Harmless, service, objects, flags, history
<1>19. ASSUME NEW th \in Threads, ProcessDisconnect(th)
      PROVE  Quiet /\ Harmless
  BY <1>19, GoesQuietly DEF ProcessDisconnect, At, Harmless, service, objects, flags, history
<1>20. ASSUME NEW th \in Threads, ResetDisconnectOwner(th)
      PROVE  Quiet /\ Harmless
  <2>1. UNCHANGED <<service, objects, history, cur>> /\ pc[th] \in {"procConnect", "discReset"}
    BY <1>20 DEF ResetDisconnectOwner, At
  <2>2. CASE UNCHANGED pc /\ crashed' = "callback"
    BY <2>1, <2>2 DEF Quiet, Harmless, NoneThrows, service, objects, history
  <2>3. CASE crashed' = crashed /\ \E there \in {"register", "release"} : Go(th, there)
    BY <2>1, <2>3, GoesQuietly DEF Harmless, service, objects, history
  <2> QED
    BY <1>20, <2>2, <2>3 DEF ResetDisconnectOwner, Callback
<1>21. ASSUME NEW th \in Threads, Release(th)
      PROVE  Quiet /\ Harmless
  <2>1. /\ Go(th, "loop") /\ cur' = [cur EXCEPT ![th] = None]
        /\ pc[th] = "release" /\ th \in Actors /\ th \notin Tasks
        /\ UNCHANGED <<tests, awaiting, threadPool, sessions, made, overlapped>>
    BY <1>21 DEF Release, At, service, flags, history
  <2>2. Quiet
    <3>1. /\ pc[th] \notin {"none", "done", "faulted", "end", "free", "join"}
          /\ "loop" \notin {"none", "free", "join"}
      BY <2>1
    <3> QED
      BY <2>1, <3>1, GoesQuietly, Zenon
  <2>3. Harmless
    <3>1. NoneThrows
      BY <1>21, ActorFacts DEF Release, Go, NoneThrows, TypeOK, Places
    <3> QED
      BY <1>21, <3>1 DEF Release, Harmless, objects
  <2> QED
    BY <2>2, <2>3
<1>22. CASE UNCHANGED vars
  <2>1. Quiet /\ Harmless
    BY <1>22 DEF vars, service, objects, flags, history, Quiet, Harmless, NoneThrows
  <2> QED
    BY <2>1
<1>23. ASSUME NEW a \in Tasks, UseFreed(a)
      PROVE  Quiet
  <2>1. /\ UNCHANGED <<service, history, cur>>
        /\ pc[a] \in {"regSend", "sendClear", "discOwner", "discEx"}
    BY <1>23 DEF UseFreed
  <2>2. CASE UNCHANGED pc
    BY <2>1, <2>2 DEF Quiet, service, history
  <2>3. CASE \E there \in {"faulted", "sleep", "done"} : Go(a, there)
    BY <2>1, <2>3, GoesQuietly DEF service, history
  <2> QED
    BY <1>23, <2>2, <2>3 DEF UseFreed
<1>24. ASSUME NEW a \in Tasks, Send(a)
      PROVE  Quiet /\ Harmless
  BY <1>24, GoesQuietly DEF Send, At, Harmless, service, objects, history
<1>25. ASSUME NEW a \in Threads \cup Tasks, RegisterSend(a)
      PROVE  Quiet /\ Harmless
  BY <1>25, GoesQuietly DEF RegisterSend, Sent, At, Harmless, service, objects, history
<1>26. ASSUME NEW a \in Threads \cup Tasks, PostSend(a)
      PROVE  Quiet /\ Harmless
  BY <1>26, GoesQuietly DEF PostSend, Sent, At, Harmless, service, objects, history
<1>27. ASSUME NEW a \in Threads \cup Tasks, PostSendFail(a)
      PROVE  Quiet /\ Harmless
  BY <1>27, GoesQuietly DEF PostSendFail, Sent, At, Harmless, service, objects, history
<1>28. ASSUME NEW a \in Threads \cup Tasks, ClearSend(a)
      PROVE  Quiet /\ Harmless
  BY <1>28, GoesQuietly DEF ClearSend, Sent, At, Harmless, service, objects, history
<1>29. ASSUME NEW th \in Threads, NEW s \in Sessions, DequeueSend(th, s)
      PROVE  Quiet /\ Harmless
  <2>1. UNCHANGED <<service, objects, history>> /\ pc[th] = "wait"
    BY <1>29 DEF DequeueSend, At
  <2>2. CASE UNCHANGED <<pc, cur>> /\ crashed' = "null owner"
    BY <2>1, <2>2 DEF Quiet, Harmless, NoneThrows, service, objects, flags, history
  <2>3. CASE \E there \in {"procSend"} :
               Go(th, there) /\ cur' = [cur EXCEPT ![th] = s] /\ crashed' = crashed
    BY <2>1, <2>3, GoesQuietly DEF Harmless, service, objects, flags, history
  <2> QED
    BY <1>29, <2>2, <2>3 DEF DequeueSend, Take
<1>30. ASSUME NEW th \in Threads, ProcessSend(th)
      PROVE  Quiet /\ Harmless
  BY <1>30, GoesQuietly DEF ProcessSend, At, Harmless, service, objects, history
<1> QED
  BY <1>1, <1>2, <1>3, <1>4, <1>5, <1>6, <1>7, <1>8, <1>9, <1>10, <1>11, <1>12, <1>13,
     <1>14, <1>15, <1>16, <1>17, <1>18, <1>19, <1>20, <1>21, <1>22, <1>23, <1>24, <1>25,
     <1>26, <1>27, <1>28, <1>29, <1>30
     DEF Next, InDisconnectAll, Calling, Sending, TaskStep, ThreadStep

------------------------------------------------------------------------------
(* One disconnect at a time *)

\* Nobody begins a disconnect of a session, or begins to own it, and none completes.
LEMMA DiscFrame ==
  ASSUME OneDisconnect, UNCHANGED <<disconnecting, discOwner>>, raced \subseteq raced',
         \A a \in Actors, s \in Sessions :
           InDisc(a, s)' => /\ InDisc(a, s)
                            /\ pc'[a] \in {"discEx", "procDisc"} => pc[a] = pc'[a]
  PROVE  OneDisconnect'
BY DEF OneDisconnect

\* An actor goes where it is in no disconnect, perhaps with another session.
LEMMA OutOfDisc ==
  ASSUME TypeOK, OneDisconnect, UNCHANGED <<disconnecting, discOwner>>, raced' = raced,
         NEW a \in Actors, NEW there, Go(a, there),
         there \notin {"discOwner", "discEx", "procDisc", "discReset"},
         NEW with, cur' = cur \/ cur' = [cur EXCEPT ![a] = with]
  PROVE  OneDisconnect'
<1>1. /\ pc'[a] = there
      /\ \A b \in Actors \ {a} : pc'[b] = pc[b] /\ cur'[b] = cur[b]
  BY DEF Go, TypeOK, Places, Dealing
<1>2. \A b \in Actors, s \in Sessions :
        InDisc(b, s)' => InDisc(b, s) /\ pc'[b] = pc[b]
  BY <1>1 DEF InDisc
<1> QED
  BY <1>2, DiscFrame

\* Disconnect of a session that is in no other keeps to itself; the rest is for raced.
LEMMA OneDisconnectStep ==
  ASSUME TypeOK, OneDisconnect, [Next]_vars
  PROVE  OneDisconnect'
<1> USE ActorFacts
<1>1. ASSUME NEW new \in SUBSET Sessions, StartTest(new)
      PROVE  OneDisconnect'
  <2>1. \A a \in Actors, s \in Sessions : InDisc(a, s)' => pc'[a] = pc[a] /\ cur'[a] = cur[a]
    BY <1>1, StartFacts DEF InDisc
  <2> QED
    BY <1>1, <2>1, StartFacts, DiscFrame DEF InDisc, events, owners, flags
<1>2. ASSUME NEW t \in Tests, FinishTest(t)
      PROVE  OneDisconnect'
  BY <1>2, OutOfDisc DEF FinishTest, owners, flags, events, history
<1>3. ASSUME Join
      PROVE  OneDisconnect'
  BY <1>3, OutOfDisc DEF Join, owners, flags, events, history
<1>4. ASSUME NEW s \in Sessions, NextSession(s)
      PROVE  OneDisconnect'
  BY <1>4, OutOfDisc DEF NextSession, owners, flags, events, history
<1>5. ASSUME Dispose
      PROVE  OneDisconnect'
  BY <1>5, OutOfDisc DEF Dispose, owners, flags, events, history
<1>6. ASSUME ClearSessions
      PROVE  OneDisconnect'
  BY <1>6, OutOfDisc DEF ClearSessions, owners, flags, events, history
<1>7. ASSUME NEW a \in Tasks, Connect(a)
      PROVE  OneDisconnect'
  BY <1>7, OutOfDisc DEF Connect, owners, flags, events, history
<1>8. ASSUME NEW a \in Tasks, Sleep(a)
      PROVE  OneDisconnect'
  BY <1>8, OutOfDisc DEF Sleep, owners, flags, events, history
<1>9. ASSUME NEW th \in Threads, Loop(th)
      PROVE  OneDisconnect'
  BY <1>9, OutOfDisc DEF Loop, owners, flags, events, history
<1>10. ASSUME NEW th \in Threads, Timeout(th)
      PROVE  OneDisconnect'
  BY <1>10, OutOfDisc DEF Timeout, owners, flags, events, history
<1>11. ASSUME NEW th \in Threads, ProcessConnect(th)
      PROVE  OneDisconnect'
  <2>1. CASE UNCHANGED pc
    BY <1>11, <2>1, DiscFrame DEF ProcessConnect, InDisc, events, owners, history
  <2>2. CASE Go(th, "register")
    BY <1>11, <2>2, OutOfDisc DEF ProcessConnect, events, owners, history
  <2> QED
    BY <1>11, <2>1, <2>2 DEF ProcessConnect, Callback
<1>12. ASSUME NEW th \in Threads, RegisterRecv(th)
      PROVE  OneDisconnect'
  BY <1>12, OutOfDisc DEF RegisterRecv, owners, flags, events, history
<1>13. ASSUME NEW th \in Threads, PostRecv(th)
      PROVE  OneDisconnect'
  BY <1>13, OutOfDisc DEF PostRecv, owners, flags, events, history
<1>14. ASSUME NEW th \in Threads, ProcessRecv(th)
      PROVE  OneDisconnect'
  BY <1>14, OutOfDisc DEF ProcessRecv, owners, flags, events, history
<1>15. ASSUME NEW th \in Threads, Release(th)
      PROVE  OneDisconnect'
  BY <1>15, OutOfDisc DEF Release, owners, flags, events, history
<1>16. ASSUME NEW th \in Threads, NEW s \in Sessions, DequeueConnect(th, s)
      PROVE  OneDisconnect'
  <2>1. CASE UNCHANGED <<pc, cur>>
    BY <1>16, <2>1, DiscFrame DEF DequeueConnect, InDisc, owners, flags, history
  <2>2. CASE /\ \E there \in {"procConnect", "procRecv"} : Go(th, there)
             /\ cur' = [cur EXCEPT ![th] = s]
    BY <1>16, <2>2, OutOfDisc DEF DequeueConnect, owners, flags, history
  <2> QED
    BY <1>16, <2>1, <2>2 DEF DequeueConnect, Take
<1>17. ASSUME NEW th \in Threads, NEW s \in Sessions, DequeueRecv(th, s)
      PROVE  OneDisconnect'
  <2>1. CASE UNCHANGED <<pc, cur>>
    BY <1>17, <2>1, DiscFrame DEF DequeueRecv, InDisc, owners, flags, history
  <2>2. CASE /\ \E there \in {"procConnect", "procRecv"} : Go(th, there)
             /\ cur' = [cur EXCEPT ![th] = s]
    BY <1>17, <2>2, OutOfDisc DEF DequeueRecv, owners, flags, history
  <2> QED
    BY <1>17, <2>1, <2>2 DEF DequeueRecv, Take
<1>18. ASSUME NEW th \in Threads, ProcessDisconnect(th)
      PROVE  OneDisconnect'
  <2>1. pc[th] = "procDisc" /\ pc' = [pc EXCEPT ![th] = "discReset"] /\ cur' = cur
    BY <1>18 DEF ProcessDisconnect, At, Go
  <2>2. \A b \in Actors : pc'[b] = IF b = th THEN "discReset" ELSE pc[b]
    BY <2>1 DEF TypeOK, Places
  <2> QED
    BY <1>18, <2>1, <2>2, DiscFrame DEF ProcessDisconnect, InDisc, events, owners, flags,
       history
<1>19. ASSUME NEW a \in Actors, Disconnect(a)
      PROVE  OneDisconnect'
  <2>1. /\ pc[a] = "disconnect" /\ cur' = cur /\ cur[a] \in Sessions
        /\ \A b \in Actors : pc'[b] = IF b = a THEN "discOwner" ELSE pc[b]
    BY <1>19, CallerFacts DEF Disconnect, At, Go, Return, TypeOK, Places
  <2>2. /\ raced' = IF UnderWay(cur[a], a) THEN raced \cup {cur[a]} ELSE raced
        /\ UNCHANGED <<disconnecting, discOwner>>
    BY <1>19 DEF Disconnect, events, owners, flags
  <2> SUFFICES ASSUME NEW s \in Sessions \ raced'
               PROVE  /\ \A b, c \in Actors : InDisc(b, s)' /\ InDisc(c, s)' => b = c
                      /\ disconnecting[s] <= 1
                      /\ disconnecting[s] = 1
                           => s \in discOwner /\ \A b \in Actors : ~InDisc(b, s)'
                      /\ \A b \in Actors : InDisc(b, s)'
                           /\ pc'[b] \in {"discEx", "procDisc"} => s \in discOwner
    BY <2>2 DEF OneDisconnect
  <2>3. CASE s # cur[a]
    BY <2>1, <2>2, <2>3 DEF OneDisconnect, InDisc
  <2>4. CASE s = cur[a]
    <3>1. s \notin discOwner /\ ~(disconnecting[s] > 0) /\ \A b \in Actors \ {a} : ~InDisc(b, s)
      BY <2>2, <2>4 DEF UnderWay, InDisc
    <3>2. disconnecting[s] = 0
      <4>1. disconnecting[s] \in Nat
        BY DEF TypeOK, Data
      <4> QED
        BY <3>1, <4>1
    <3>3. \A b \in Actors : InDisc(b, s)' => b = a
      BY <2>1, <2>4, <3>1 DEF InDisc
    <3> QED
      BY <2>1, <3>2, <3>3
  <2> QED
    BY <2>3, <2>4
<1>20. ASSUME NEW a \in Actors, DisconnectOwner(a)
      PROVE  OneDisconnect'
  <2>1. /\ pc[a] = "discOwner" /\ cur' = cur /\ cur[a] \in Sessions
        /\ \A b \in Actors : pc'[b] = IF b = a THEN "discEx" ELSE pc[b]
    BY <1>20, CallerFacts DEF DisconnectOwner, At, Go, Return, TypeOK, Places
  <2>2. discOwner' = discOwner \cup {cur[a]} /\ UNCHANGED <<disconnecting, raced>>
    BY <1>20 DEF DisconnectOwner, events, flags, history
  <2>3. \A b \in Actors, s \in Sessions : InDisc(b, s)' <=> InDisc(b, s)
    BY <2>1 DEF InDisc
  <2>4. \A b \in Actors, s \in Sessions :
          InDisc(b, s)' /\ pc'[b] \in {"discEx", "procDisc"}
            => s = cur[a] \/ pc[b] \in {"discEx", "procDisc"}
    BY <2>1 DEF InDisc
  <2> QED
    BY <2>2, <2>3, <2>4 DEF OneDisconnect
<1>21. ASSUME NEW a \in Actors, DisconnectEx(a)
      PROVE  OneDisconnect'
  <2>1. /\ pc[a] = "discEx" /\ cur' = cur /\ cur[a] \in Sessions
        /\ \A b \in Actors : pc'[b] = IF b = a THEN IF a = UI THEN "dispose"
                                            ELSE IF a \in Tasks THEN "done" ELSE "release"
                                       ELSE pc[b]
    BY <1>21, CallerFacts DEF DisconnectEx, At, Go, Return, TypeOK, Places
  <2>2. /\ UNCHANGED <<discOwner, raced>>
        /\ disconnecting' = [disconnecting EXCEPT ![cur[a]] = @ + 1]
    BY <1>21 DEF DisconnectEx, owners, flags, history
  <2>3. \A s \in Sessions : InDisc(a, s) <=> s = cur[a]
    BY <2>1 DEF InDisc
  <2>4. \A b \in Actors, s \in Sessions : InDisc(b, s)' <=> InDisc(b, s) /\ b # a
    BY <2>1 DEF InDisc
  <2>5. cur[a] \notin raced => /\ disconnecting[cur[a]] = 0 /\ cur[a] \in discOwner
                              /\ \A b \in Actors : ~InDisc(b, cur[a])'
    <3>1. disconnecting[cur[a]] \in Nat /\ InDisc(a, cur[a]) /\ pc[a] = "discEx"
      BY <2>1, <2>3 DEF TypeOK, Data
    <3>2. SUFFICES ASSUME cur[a] \notin raced
                   PROVE  /\ disconnecting[cur[a]] = 0 /\ cur[a] \in discOwner
                          /\ \A b \in Actors : InDisc(b, cur[a]) => b = a
      BY <2>1, <2>4
    <3>3. disconnecting[cur[a]] <= 1 /\ disconnecting[cur[a]] # 1
      BY <2>1, <3>1, <3>2 DEF OneDisconnect
    <3> QED
      BY <2>1, <3>1, <3>2, <3>3 DEF OneDisconnect
  <2>6. \A s \in Sessions :
          disconnecting'[s] = IF s = cur[a] THEN disconnecting[s] + 1 ELSE disconnecting[s]
    BY <2>2 DEF TypeOK, Data
  <2>7. \A b \in Actors : b # a => pc'[b] = pc[b]
    BY <2>1
  <2> SUFFICES ASSUME NEW s \in Sessions \ raced'
               PROVE  /\ \A b, c \in Actors : InDisc(b, s)' /\ InDisc(c, s)' => b = c
                      /\ disconnecting'[s] <= 1
                      /\ disconnecting'[s] = 1 => /\ s \in discOwner'
                                                    /\ \A b \in Actors : ~InDisc(b, s)'
                      /\ \A b \in Actors : InDisc(b, s)'
                           /\ pc'[b] \in {"discEx", "procDisc"} => s \in discOwner'
    BY DEF OneDisconnect
  <2>8. CASE s = cur[a]
    BY <2>1, <2>2, <2>5, <2>6, <2>8 DEF InDisc
  <2>9. CASE s # cur[a]
    <3>1. /\ disconnecting'[s] = disconnecting[s] /\ (s \in discOwner' <=> s \in discOwner)
          /\ s \in Sessions \ raced
      BY <2>2, <2>6, <2>9
    <3>2. \A b \in Actors : InDisc(b, s)' => InDisc(b, s) /\ pc'[b] = pc[b]
      BY <2>4, <2>6, <2>7
    <3> QED
      BY <3>1, <3>2 DEF OneDisconnect
  <2> QED
    BY <2>8, <2>9
<1>22. ASSUME NEW a \in Actors, DisconnectExFail(a)
      PROVE  OneDisconnect'
  <2>1. /\ pc[a] = "discEx" /\ cur' = cur /\ cur[a] \in Sessions
        /\ \A b \in Actors : pc'[b] = IF b = a THEN IF a = UI THEN "dispose"
                                            ELSE IF a \in Tasks THEN "done" ELSE "release"
                                       ELSE pc[b]
    BY <1>22, CallerFacts DEF DisconnectExFail, At, Go, Return, TypeOK, Places
  <2>2. discOwner' = discOwner \ {cur[a]} /\ UNCHANGED <<disconnecting, raced>>
    BY <1>22 DEF DisconnectExFail, events, flags, history
  <2>3. \A s \in Sessions : InDisc(a, s) <=> s = cur[a]
    BY <2>1 DEF InDisc
  <2>4. \A b \in Actors, s \in Sessions : InDisc(b, s)' <=> InDisc(b, s) /\ b # a
    BY <2>1 DEF InDisc
  <2>5. cur[a] \notin raced => /\ disconnecting[cur[a]] = 0 /\ cur[a] \in discOwner
                              /\ \A b \in Actors : ~InDisc(b, cur[a])'
    <3>1. disconnecting[cur[a]] \in Nat /\ InDisc(a, cur[a]) /\ pc[a] = "discEx"
      BY <2>1, <2>3 DEF TypeOK, Data
    <3>2. SUFFICES ASSUME cur[a] \notin raced
                   PROVE  /\ disconnecting[cur[a]] = 0 /\ cur[a] \in discOwner
                          /\ \A b \in Actors : InDisc(b, cur[a]) => b = a
      BY <2>1, <2>4
    <3>3. disconnecting[cur[a]] <= 1 /\ disconnecting[cur[a]] # 1
      BY <2>1, <3>1, <3>2 DEF OneDisconnect
    <3> QED
      BY <2>1, <3>1, <3>2, <3>3 DEF OneDisconnect
  <2>6. \A b \in Actors : b # a => pc'[b] = pc[b]
    BY <2>1
  <2> SUFFICES ASSUME NEW s \in Sessions \ raced'
               PROVE  /\ \A b, c \in Actors : InDisc(b, s)' /\ InDisc(c, s)' => b = c
                      /\ disconnecting'[s] <= 1
                      /\ disconnecting'[s] = 1 => /\ s \in discOwner'
                                                    /\ \A b \in Actors : ~InDisc(b, s)'
                      /\ \A b \in Actors : InDisc(b, s)'
                           /\ pc'[b] \in {"discEx", "procDisc"} => s \in discOwner'
    BY DEF OneDisconnect
  <2>8. CASE s = cur[a]
    BY <2>1, <2>2, <2>5, <2>8 DEF InDisc
  <2>9. CASE s # cur[a]
    <3>1. /\ disconnecting'[s] = disconnecting[s] /\ (s \in discOwner' <=> s \in discOwner)
          /\ s \in Sessions \ raced
      BY <2>2, <2>9
    <3>2. \A b \in Actors : InDisc(b, s)' => InDisc(b, s) /\ pc'[b] = pc[b]
      BY <2>4, <2>6
    <3> QED
      BY <3>1, <3>2 DEF OneDisconnect
  <2> QED
    BY <2>8, <2>9
<1>23. ASSUME NEW th \in Threads, ResetDisconnectOwner(th)
      PROVE  OneDisconnect'
  <2>1. /\ pc[th] = "discReset" /\ cur' = cur /\ cur[th] \in Sessions
        /\ pc' = pc \/ Go(th, "release")
    BY <1>23, DealsWithMade DEF ResetDisconnectOwner, At, Callback
  <2>2. /\ pc'[th] \in {"discReset", "release"}
        /\ \A b \in Actors : b # th => pc'[b] = pc[b]
    BY <2>1 DEF Go, TypeOK, Places
  <2>3. discOwner' = discOwner \ {cur[th]} /\ UNCHANGED <<disconnecting, raced>>
    BY <1>23 DEF ResetDisconnectOwner, events, history
  <2>4. \A b \in Actors, s \in Sessions : InDisc(b, s)' => InDisc(b, s)
    BY <2>1, <2>2 DEF InDisc
  <2>5. \A b \in Actors, s \in Sessions :
          InDisc(b, s)' /\ pc'[b] \in {"discEx", "procDisc"} => pc[b] = pc'[b] /\ b # th
    BY <2>1, <2>2
  <2>6. InDisc(th, cur[th])
    BY <2>1 DEF InDisc
  <2> SUFFICES ASSUME NEW s \in Sessions \ raced'
               PROVE  /\ \A b, c \in Actors : InDisc(b, s)' /\ InDisc(c, s)' => b = c
                      /\ disconnecting'[s] <= 1
                      /\ disconnecting'[s] = 1 => /\ s \in discOwner'
                                                    /\ \A b \in Actors : ~InDisc(b, s)'
                      /\ \A b \in Actors : InDisc(b, s)' /\ pc'[b] \in {"discEx", "procDisc"}
                                             => s \in discOwner'
    BY DEF OneDisconnect
  <2>7. CASE s = cur[th]
    BY <2>3, <2>4, <2>5, <2>6, <2>7 DEF OneDisconnect
  <2>8. CASE s # cur[th]
    BY <2>3, <2>4, <2>5, <2>8 DEF OneDisconnect
  <2> QED
    BY <2>7, <2>8
<1>24. ASSUME NEW th \in Threads, NEW s \in Sessions, DequeueDisconnect(th, s)
      PROVE  OneDisconnect'
  <2>1. /\ disconnecting[s] > 0 /\ UNCHANGED <<discOwner, raced>>
        /\ \A x \in Sessions :
             disconnecting'[x] = IF x = s THEN disconnecting[s] - 1 ELSE disconnecting[x]
    BY <1>24 DEF DequeueDisconnect, owners, flags, history, TypeOK, Data
  <2>2. s \notin raced => /\ disconnecting[s] = 1 /\ s \in discOwner
                          /\ \A b \in Actors : ~InDisc(b, s)
    <3>1. disconnecting[s] \in Nat
      BY DEF TypeOK, Data
    <3> QED
      BY <2>1, <3>1 DEF OneDisconnect
  <2>3. CASE UNCHANGED <<pc, cur>> /\ s \notin discOwner
    <3>1. s \in raced /\ \A b \in Actors, x \in Sessions : InDisc(b, x)' <=> InDisc(b, x)
      BY <2>2, <2>3 DEF InDisc
    <3> QED
      BY <2>1, <2>3, <3>1 DEF OneDisconnect
  <2>4. CASE Go(th, "procDisc") /\ cur' = [cur EXCEPT ![th] = s] /\ s \in discOwner
    <3>1. \A b \in Actors : /\ pc'[b] = IF b = th THEN "procDisc" ELSE pc[b]
                            /\ cur'[b] = IF b = th THEN s ELSE cur[b]
      BY <2>4 DEF Go, TypeOK, Places, Dealing
    <3>2. \A b \in Actors, x \in Sessions :
            InDisc(b, x)' <=> IF b = th THEN x = s ELSE InDisc(b, x)
      BY <3>1 DEF InDisc
    <3> QED
      BY <2>1, <2>2, <2>4, <3>1, <3>2 DEF OneDisconnect
  <2> QED
    BY <1>24, <2>3, <2>4 DEF DequeueDisconnect, Take
<1>25. ASSUME NEW a \in Tasks, UseDisposed(a)
      PROVE  OneDisconnect'
  BY <1>25, OutOfDisc DEF UseDisposed, events, owners, history
<1>26. CASE UNCHANGED vars
  BY <1>26, DiscFrame DEF vars, InDisc, events, owners, flags, history
<1>27. ASSUME NEW t \in Tests, FaultTest(t)
      PROVE  OneDisconnect'
  BY <1>27, DiscFrame DEF FaultTest, InDisc, events, owners, history
<1>28. ASSUME NEW a \in Tasks, UseFreed(a)
      PROVE  OneDisconnect'
  <2>1. CASE UNCHANGED pc
    BY <1>28, <2>1, DiscFrame DEF UseFreed, InDisc, events, owners, history
  <2>2. CASE \E there \in {"faulted", "sleep", "done"} : Go(a, there)
    BY <1>28, <2>2, OutOfDisc DEF UseFreed, events, owners, history
  <2> QED
    BY <1>28, <2>1, <2>2 DEF UseFreed
<1>29. ASSUME NEW a \in Tasks, Send(a)
      PROVE  OneDisconnect'
  BY <1>29, OutOfDisc DEF Send, events, owners, history
<1>30. ASSUME NEW a \in Threads \cup Tasks, RegisterSend(a)
      PROVE  OneDisconnect'
  BY <1>30, OutOfDisc DEF RegisterSend, Sent, events, owners, history
<1>31. ASSUME NEW a \in Threads \cup Tasks, PostSend(a)
      PROVE  OneDisconnect'
  BY <1>31, OutOfDisc DEF PostSend, Sent, events, owners, history
<1>32. ASSUME NEW a \in Threads \cup Tasks, PostSendFail(a)
      PROVE  OneDisconnect'
  BY <1>32, OutOfDisc DEF PostSendFail, Sent, events, owners, history
<1>33. ASSUME NEW a \in Threads \cup Tasks, ClearSend(a)
      PROVE  OneDisconnect'
  BY <1>33, OutOfDisc DEF ClearSend, Sent, events, owners, history
<1>34. ASSUME NEW th \in Threads, NEW s \in Sessions, DequeueSend(th, s)
      PROVE  OneDisconnect'
  <2>1. CASE UNCHANGED <<pc, cur>>
    BY <1>34, <2>1, DiscFrame DEF DequeueSend, InDisc, owners, history
  <2>2. CASE Go(th, "procSend") /\ cur' = [cur EXCEPT ![th] = s]
    BY <1>34, <2>2, OutOfDisc DEF DequeueSend, owners, history
  <2> QED
    BY <1>34, <2>1, <2>2 DEF DequeueSend, Take
<1>35. ASSUME NEW th \in Threads, ProcessSend(th)
      PROVE  OneDisconnect'
  <2>1. PICK there \in {"disconnect", "regSend", "release"} : Go(th, there)
    BY <1>35 DEF ProcessSend
  <2> QED
    BY <1>35, <2>1, OutOfDisc DEF ProcessSend, events, history
<1> QED
  BY <1>1, <1>2, <1>3, <1>4, <1>5, <1>6, <1>7, <1>8, <1>9, <1>10, <1>11, <1>12, <1>13,
     <1>14, <1>15, <1>16, <1>17, <1>18, <1>19, <1>20, <1>21, <1>22, <1>23, <1>24, <1>25,
     <1>26, <1>27, <1>28, <1>29, <1>30, <1>31, <1>32, <1>33, <1>34, <1>35
     DEF Next, InDisconnectAll, Calling, Sending, TaskStep, ThreadStep

------------------------------------------------------------------------------
(* One connect or receive at a time *)

\* No receive is registered, posted or completed, and nobody begins one.
LEMMA RecvFrame ==
  ASSUME OneReceive, UNCHANGED <<connecting, receiving, recvOwner, overlapped>>,
         \A a \in Actors, s \in Sessions :
           InRecv(a, s)' => InRecv(a, s) /\ (pc'[a] = "recv" => pc[a] = "recv")
  PROVE  OneReceive'
BY DEF OneReceive, OneReceiveOf

\* An actor goes where it is in no receive, perhaps with another session.
LEMMA OutOfRecv ==
  ASSUME TypeOK, OneReceive, UNCHANGED <<connecting, receiving, recvOwner, overlapped>>,
         NEW a \in Actors, NEW there, Go(a, there),
         there \notin {"connect", "procConnect", "register", "recv", "procRecv"},
         NEW with, cur' = cur \/ cur' = [cur EXCEPT ![a] = with]
  PROVE  OneReceive'
<1>1. /\ pc'[a] = there
      /\ \A b \in Actors \ {a} : pc'[b] = pc[b] /\ cur'[b] = cur[b]
  BY DEF Go, TypeOK, Places, Dealing
<1>2. \A b \in Actors, s \in Sessions :
        InRecv(b, s)' => InRecv(b, s) /\ (pc'[b] = "recv" => pc[b] = "recv")
  BY <1>1 DEF InRecv
<1> QED
  BY <1>2, RecvFrame

\* What an actor that is in a receive can rely on.
LEMMA InRecvFacts ==
  ASSUME TypeOK, NEW a \in Actors, NEW s \in Sessions, InRecv(a, s), OneReceiveOf(s)
  PROVE  /\ connecting[s] = 0 /\ receiving[s] = 0
         /\ \A b \in Actors : InRecv(b, s) => b = a
<1>1. connecting[s] \in Nat /\ receiving[s] \in Nat
  BY DEF TypeOK, Data
<1> QED
  BY <1>1 DEF OneReceiveOf

\* Unless tests overlap, a session has one connect, then one receive after the other.
LEMMA OneReceiveStep ==
  ASSUME TypeOK, OneTest, OneReceive, [Next]_vars
  PROVE  OneReceive'
<1> USE ActorFacts
<1>1. ASSUME NEW new \in SUBSET Sessions, StartTest(new)
      PROVE  OneReceive'
  <2> SUFFICES ASSUME ~overlapped', NEW s \in Sessions
               PROVE  OneReceiveOf(s)'
    BY DEF OneReceive
  <2>1. /\ sessions = {} /\ ~overlapped /\ new \cap made = {} /\ sessions' = new
        /\ UNCHANGED <<connecting, receiving, recvOwner>>
    <3>1. /\ awaiting = {} /\ pc[UI] = "free" /\ ~overlapped /\ new \cap made = {}
          /\ sessions' = sessions \cup new
      BY <1>1, StartFacts
    <3>2. sessions = {}
      BY <3>1 DEF OneTest
    <3>3. UNCHANGED <<connecting, receiving, recvOwner>>
      BY <1>1, StartFacts DEF events, owners, flags
    <3> QED
      BY <3>1, <3>2, <3>3
  <2>2. OneReceiveOf(s)
    BY <2>1 DEF OneReceive
  <2>3. CASE s \in new
    <3>1. /\ connecting[s] = 0 /\ receiving[s] = 0 /\ s \notin made /\ s # None
      BY <2>1, <2>3, NoneAssumption DEF TypeOK, Data
    <3>2. \A a \in Actors : cur[a] # s
      BY <3>1 DEF TypeOK, Dealing
    <3>3. \A a \in Actors : cur'[a] = s => a = <<tests', s>> /\ pc'[a] = "connect"
      BY <1>1, <3>2, StartFacts
    <3> QED
      BY <2>1, <3>1, <3>3 DEF OneReceiveOf, InRecv
  <2>4. CASE s \notin new
    <3>1. \A a \in Actors : InRecv(a, s)' => InRecv(a, s) /\ pc'[a] = pc[a]
      BY <1>1, <2>1, <2>4, StartFacts DEF InRecv
    <3> QED
      BY <2>1, <2>2, <3>1 DEF OneReceiveOf
  <2> QED
    BY <2>3, <2>4
<1>2. ASSUME NEW t \in Tests, FinishTest(t)
      PROVE  OneReceive'
  BY <1>2, OutOfRecv DEF FinishTest, owners, flags, events, history
<1>3. ASSUME Join
      PROVE  OneReceive'
  BY <1>3, OutOfRecv DEF Join, owners, flags, events, history
<1>4. ASSUME NEW s \in Sessions, NextSession(s)
      PROVE  OneReceive'
  BY <1>4, OutOfRecv DEF NextSession, owners, flags, events, history
<1>5. ASSUME Dispose
      PROVE  OneReceive'
  BY <1>5, OutOfRecv DEF Dispose, owners, flags, events, history
<1>6. ASSUME ClearSessions
      PROVE  OneReceive'
  BY <1>6, OutOfRecv DEF ClearSessions, owners, flags, events, history
<1>7. ASSUME NEW a \in Tasks, Sleep(a)
      PROVE  OneReceive'
  BY <1>7, OutOfRecv DEF Sleep, owners, flags, events, history
<1>8. ASSUME NEW a \in Actors, Disconnect(a)
      PROVE  OneReceive'
  BY <1>8, OutOfRecv DEF Disconnect, owners, flags, events, history
<1>9. ASSUME NEW a \in Actors, DisconnectOwner(a)
      PROVE  OneReceive'
  BY <1>9, OutOfRecv DEF DisconnectOwner, owners, flags, events, history
<1>10. ASSUME NEW a \in Actors, DisconnectEx(a)
      PROVE  OneReceive'
  BY <1>10, OutOfRecv DEF DisconnectEx, owners, flags, events, history, Return
<1>11. ASSUME NEW a \in Actors, DisconnectExFail(a)
      PROVE  OneReceive'
  BY <1>11, OutOfRecv DEF DisconnectExFail, owners, flags, events, history, Return
<1>12. ASSUME NEW th \in Threads, Loop(th)
      PROVE  OneReceive'
  BY <1>12, OutOfRecv DEF Loop, owners, flags, events, history
<1>13. ASSUME NEW th \in Threads, Timeout(th)
      PROVE  OneReceive'
  BY <1>13, OutOfRecv DEF Timeout, owners, flags, events, history
<1>14. ASSUME NEW th \in Threads, ProcessDisconnect(th)
      PROVE  OneReceive'
  BY <1>14, OutOfRecv DEF ProcessDisconnect, owners, flags, events, history
<1>15. ASSUME NEW th \in Threads, ResetDisconnectOwner(th)
      PROVE  OneReceive'
  <2>1. CASE UNCHANGED pc
    BY <1>15, <2>1, RecvFrame DEF ResetDisconnectOwner, InRecv, events, history
  <2>2. CASE Go(th, "release")
    BY <1>15, <2>2, OutOfRecv DEF ResetDisconnectOwner, events, history
  <2> QED
    BY <1>15, <2>1, <2>2 DEF ResetDisconnectOwner, Callback
<1>16. ASSUME NEW th \in Threads, Release(th)
      PROVE  OneReceive'
  BY <1>16, OutOfRecv DEF Release, owners, flags, events, history
<1>17. ASSUME NEW th \in Threads, NEW s \in Sessions, DequeueDisconnect(th, s)
      PROVE  OneReceive'
  <2>1. UNCHANGED <<connecting, receiving, recvOwner, overlapped>>
    BY <1>17 DEF DequeueDisconnect, owners, flags, history
  <2>2. CASE UNCHANGED <<pc, cur>>
    BY <2>1, <2>2, RecvFrame DEF InRecv
  <2>3. CASE Go(th, "procDisc") /\ cur' = [cur EXCEPT ![th] = s]
    BY <2>1, <2>3, OutOfRecv
  <2> QED
    BY <1>17, <2>2, <2>3 DEF DequeueDisconnect, Take
<1>18. ASSUME NEW th \in Threads, ProcessConnect(th)
      PROVE  OneReceive'
  <2>1. /\ pc[th] = "procConnect" /\ cur' = cur /\ overlapped' = overlapped
        /\ UNCHANGED <<connecting, receiving, recvOwner>>
        /\ pc' = pc \/ Go(th, "register")
    BY <1>18 DEF ProcessConnect, Callback, At, events, owners, history
  <2>2. /\ pc'[th] \in {"procConnect", "register"}
        /\ \A b \in Actors : b # th => pc'[b] = pc[b]
    BY <2>1 DEF Go, TypeOK, Places
  <2> QED
    BY <2>1, <2>2, RecvFrame DEF InRecv
<1>19. ASSUME NEW a \in Tasks, Connect(a)
      PROVE  OneReceive'
  <2>1. /\ pc[a] = "connect" /\ cur' = cur /\ cur[a] \in Sessions /\ overlapped' = overlapped
        /\ \A b \in Actors : pc'[b] = IF b = a THEN "sleep" ELSE pc[b]
    BY <1>19, DealsWithMade DEF Connect, At, Go, TypeOK, Places, history, flags
  <2>2. /\ UNCHANGED <<receiving, recvOwner>>
        /\ \A x \in Sessions :
               connecting'[x] \in {connecting[x],
                                  IF x = cur[a] THEN connecting[x] + 1 ELSE connecting[x]}
    <3>1. connecting' = connecting \/ connecting' = [connecting EXCEPT ![cur[a]] = @ + 1]
      BY <1>19 DEF Connect
    <3>2. connecting \in [Sessions -> Nat]
      BY DEF TypeOK, Data
    <3>3. \A x \in Sessions :
              connecting'[x] \in {connecting[x],
                                 IF x = cur[a] THEN connecting[x] + 1 ELSE connecting[x]}
      BY <3>1, <3>2
    <3> QED
      BY <1>19, <3>3 DEF Connect, owners, flags
  <2> SUFFICES ASSUME ~overlapped, NEW s \in Sessions
               PROVE  OneReceiveOf(s)'
    BY <2>1 DEF OneReceive
  <2>3. OneReceiveOf(s)
    BY DEF OneReceive
  <2>4. InRecv(a, cur[a])
    BY <2>1 DEF InRecv
  <2>5. CASE s = cur[a]
    <3>1. /\ connecting[s] = 0 /\ receiving[s] = 0
          /\ \A b \in Actors : InRecv(b, s) => b = a
      BY <2>3, <2>4, <2>5, InRecvFacts
    <3>2. \A b \in Actors : ~InRecv(b, s)'
      BY <2>1, <3>1 DEF InRecv
    <3> QED
      BY <2>1, <2>2, <2>3, <2>4, <2>5, <3>1, <3>2 DEF OneReceiveOf
  <2>6. CASE s # cur[a]
    <3>1. \A b \in Actors : InRecv(b, s)' => InRecv(b, s) /\ pc'[b] = pc[b]
      BY <2>1, <2>6 DEF InRecv
    <3> QED
      BY <2>2, <2>3, <2>6, <3>1 DEF OneReceiveOf
  <2> QED
    BY <2>5, <2>6
<1>20. ASSUME NEW th \in Threads, PostRecv(th)
      PROVE  OneReceive'
  <2>1. /\ pc[th] = "recv" /\ cur' = cur /\ cur[th] \in Sessions /\ overlapped' = overlapped
        /\ \A b \in Actors : pc'[b] = IF b = th THEN "release" ELSE pc[b]
    BY <1>20, DealsWithMade DEF PostRecv, At, Go, TypeOK, Places, history, flags
  <2>2. /\ UNCHANGED <<connecting, recvOwner>>
        /\ \A x \in Sessions :
               receiving'[x] \in {receiving[x],
                                 IF x = cur[th] THEN receiving[x] + 1 ELSE receiving[x]}
    <3>1. receiving' = receiving \/ receiving' = [receiving EXCEPT ![cur[th]] = @ + 1]
      BY <1>20 DEF PostRecv
    <3>2. receiving \in [Sessions -> Nat]
      BY DEF TypeOK, Data
    <3>3. \A x \in Sessions :
              receiving'[x] \in {receiving[x],
                                IF x = cur[th] THEN receiving[x] + 1 ELSE receiving[x]}
      BY <3>1, <3>2
    <3> QED
      BY <1>20, <3>3 DEF PostRecv, owners, flags
  <2> SUFFICES ASSUME ~overlapped, NEW s \in Sessions
               PROVE  OneReceiveOf(s)'
    BY <2>1 DEF OneReceive
  <2>3. OneReceiveOf(s)
    BY DEF OneReceive
  <2>4. InRecv(th, cur[th])
    BY <2>1 DEF InRecv
  <2>5. CASE s = cur[th]
    <3>1. /\ connecting[s] = 0 /\ receiving[s] = 0
          /\ \A b \in Actors : InRecv(b, s) => b = th
      BY <2>3, <2>4, <2>5, InRecvFacts
    <3>2. \A b \in Actors : ~InRecv(b, s)'
      BY <2>1, <3>1 DEF InRecv
    <3> QED
      BY <2>1, <2>2, <2>3, <2>4, <2>5, <3>1, <3>2 DEF OneReceiveOf
  <2>6. CASE s # cur[th]
    <3>1. \A b \in Actors : InRecv(b, s)' => InRecv(b, s) /\ pc'[b] = pc[b]
      BY <2>1, <2>6 DEF InRecv
    <3> QED
      BY <2>2, <2>3, <2>6, <3>1 DEF OneReceiveOf
  <2> QED
    BY <2>5, <2>6
<1>21. ASSUME NEW th \in Threads, RegisterRecv(th)
      PROVE  OneReceive'
  <2>1. CASE Go(th, "release") /\ recvOwner' = recvOwner
    BY <1>21, <2>1, OutOfRecv DEF RegisterRecv, events, flags, history
  <2>2. CASE Go(th, "recv") /\ recvOwner' = recvOwner \cup {cur[th]}
    <3>1. /\ pc[th] = "register" /\ cur' = cur /\ overlapped' = overlapped
          /\ UNCHANGED <<connecting, receiving>>
          /\ \A b \in Actors : pc'[b] = IF b = th THEN "recv" ELSE pc[b]
      BY <1>21, <2>2 DEF RegisterRecv, At, Go, TypeOK, Places, history, events, flags
    <3>2. \A b \in Actors, s \in Sessions :
            InRecv(b, s)' => InRecv(b, s) /\ (pc'[b] = "recv" => pc[b] = "recv" \/ s = cur[th])
      BY <3>1 DEF InRecv
    <3> QED
      BY <2>2, <3>1, <3>2 DEF OneReceive, OneReceiveOf
  <2> QED
    BY <1>21, <2>1, <2>2 DEF RegisterRecv
<1>22. ASSUME NEW th \in Threads, ProcessRecv(th)
      PROVE  OneReceive'
  <2>1. PICK there \in {"disconnect", "register"} : Go(th, there)
    BY <1>22 DEF ProcessRecv
  <2>2. /\ pc[th] = "procRecv" /\ cur' = cur /\ cur[th] \in Sessions /\ overlapped' = overlapped
        /\ UNCHANGED <<connecting, receiving>> /\ recvOwner' = recvOwner \ {cur[th]}
        /\ \A b \in Actors : pc'[b] = IF b = th THEN there ELSE pc[b]
    BY <1>22, <2>1, DealsWithMade DEF ProcessRecv, At, Go, TypeOK, Places, history, events,
       flags
  <2> SUFFICES ASSUME ~overlapped, NEW s \in Sessions
               PROVE  OneReceiveOf(s)'
    BY <2>2 DEF OneReceive
  <2>3. OneReceiveOf(s)
    BY DEF OneReceive
  <2>4. InRecv(th, cur[th])
    BY <2>2 DEF InRecv
  <2>5. \A b \in Actors :
          InRecv(b, s)' => InRecv(b, s) /\ (pc'[b] = "recv" => pc[b] = "recv" /\ b # th)
    BY <2>2 DEF InRecv
  <2>6. CASE s = cur[th]
    <3>1. /\ connecting[s] = 0 /\ receiving[s] = 0
          /\ \A b \in Actors : InRecv(b, s) => b = th
      BY <2>3, <2>4, <2>6, InRecvFacts
    <3> QED
      BY <2>2, <2>5, <3>1 DEF OneReceiveOf
  <2>7. CASE s # cur[th]
    BY <2>2, <2>3, <2>5, <2>7 DEF OneReceiveOf
  <2> QED
    BY <2>6, <2>7
<1>23. ASSUME NEW th \in Threads, NEW s0 \in Sessions, DequeueConnect(th, s0)
      PROVE  OneReceive'
  <2>1. /\ connecting[s0] > 0 /\ UNCHANGED <<receiving, recvOwner, overlapped>>
        /\ pc[th] = "wait"
        /\ \A x \in Sessions :
             connecting'[x] = IF x = s0 THEN connecting[x] - 1 ELSE connecting[x]
    BY <1>23 DEF DequeueConnect, At, owners, flags, history, TypeOK, Data
  <2>2. connecting[s0] \in Nat /\ receiving[s0] \in Nat
    BY DEF TypeOK, Data
  <2> SUFFICES ASSUME ~overlapped, NEW s \in Sessions
               PROVE  OneReceiveOf(s)'
    BY <2>1 DEF OneReceive
  <2>3. OneReceiveOf(s) /\ OneReceiveOf(s0)
    BY DEF OneReceive
  <2>4. /\ connecting[s0] = 1 /\ receiving[s0] = 0 /\ \A b \in Actors : ~InRecv(b, s0)
    BY <2>1, <2>2, <2>3 DEF OneReceiveOf
  <2>5. Go(th, "procConnect") /\ cur' = [cur EXCEPT ![th] = s0]
    BY <1>23, <2>3, <2>4 DEF DequeueConnect, Take, OneReceiveOf
  <2>6. \A b \in Actors : /\ pc'[b] = IF b = th THEN "procConnect" ELSE pc[b]
                          /\ cur'[b] = IF b = th THEN s0 ELSE cur[b]
    BY <2>5 DEF Go, TypeOK, Places, Dealing
  <2>7. CASE s = s0
    <3>1. \A b \in Actors : InRecv(b, s)' => b = th
      BY <2>4, <2>6, <2>7 DEF InRecv
    <3> QED
      BY <2>1, <2>4, <2>6, <2>7, <3>1 DEF OneReceiveOf
  <2>8. CASE s # s0
    <3>1. \A b \in Actors : InRecv(b, s)' => InRecv(b, s) /\ pc'[b] = pc[b]
      BY <2>6, <2>8 DEF InRecv
    <3> QED
      BY <2>1, <2>3, <2>8, <3>1 DEF OneReceiveOf
  <2> QED
    BY <2>7, <2>8
<1>24. ASSUME NEW th \in Threads, NEW s0 \in Sessions, DequeueRecv(th, s0)
      PROVE  OneReceive'
  <2>1. /\ receiving[s0] > 0 /\ UNCHANGED <<connecting, recvOwner, overlapped>>
        /\ pc[th] = "wait"
        /\ \A x \in Sessions : receiving'[x] = IF x = s0 THEN receiving[x] - 1 ELSE receiving[x]
    BY <1>24 DEF DequeueRecv, At, owners, flags, history, TypeOK, Data
  <2>2. connecting[s0] \in Nat /\ receiving[s0] \in Nat
    BY DEF TypeOK, Data
  <2> SUFFICES ASSUME ~overlapped, NEW s \in Sessions
               PROVE  OneReceiveOf(s)'
    BY <2>1 DEF OneReceive
  <2>3. OneReceiveOf(s) /\ OneReceiveOf(s0)
    BY DEF OneReceive
  <2>4. /\ receiving[s0] = 1 /\ connecting[s0] = 0 /\ \A b \in Actors : ~InRecv(b, s0)
    BY <2>1, <2>2, <2>3 DEF OneReceiveOf
  <2>5. Go(th, "procRecv") /\ cur' = [cur EXCEPT ![th] = s0]
    BY <1>24, <2>3, <2>4 DEF DequeueRecv, Take, OneReceiveOf
  <2>6. \A b \in Actors : /\ pc'[b] = IF b = th THEN "procRecv" ELSE pc[b]
                          /\ cur'[b] = IF b = th THEN s0 ELSE cur[b]
    BY <2>5 DEF Go, TypeOK, Places, Dealing
  <2>7. CASE s = s0
    <3>1. \A b \in Actors : InRecv(b, s)' => b = th
      BY <2>4, <2>6, <2>7 DEF InRecv
    <3> QED
      BY <2>1, <2>4, <2>6, <2>7, <3>1 DEF OneReceiveOf
  <2>8. CASE s # s0
    <3>1. \A b \in Actors : InRecv(b, s)' => InRecv(b, s) /\ pc'[b] = pc[b]
      BY <2>6, <2>8 DEF InRecv
    <3> QED
      BY <2>1, <2>3, <2>8, <3>1 DEF OneReceiveOf
  <2> QED
    BY <2>7, <2>8
<1>25. ASSUME NEW a \in Tasks, UseDisposed(a)
      PROVE  OneReceive'
  BY <1>25, OutOfRecv DEF UseDisposed, events, owners, history
<1>26. CASE UNCHANGED vars
  BY <1>26, RecvFrame DEF vars, InRecv, events, owners, flags, history
<1>27. ASSUME NEW t \in Tests, FaultTest(t)
      PROVE  OneReceive'
  BY <1>27, RecvFrame DEF FaultTest, InRecv, events, owners, history
<1>28. ASSUME NEW a \in Tasks, UseFreed(a)
      PROVE  OneReceive'
  <2>1. CASE UNCHANGED pc
    BY <1>28, <2>1, RecvFrame DEF UseFreed, InRecv, events, owners, history
  <2>2. CASE \E there \in {"faulted", "sleep", "done"} : Go(a, there)
    BY <1>28, <2>2, OutOfRecv DEF UseFreed, events, owners, history
  <2> QED
    BY <1>28, <2>1, <2>2 DEF UseFreed
<1>29. ASSUME NEW a \in Tasks, Send(a)
      PROVE  OneReceive'
  BY <1>29, OutOfRecv DEF Send, events, owners, history
<1>30. ASSUME NEW a \in Threads \cup Tasks, RegisterSend(a)
      PROVE  OneReceive'
  BY <1>30, OutOfRecv DEF RegisterSend, Sent, events, owners, history
<1>31. ASSUME NEW a \in Threads \cup Tasks, PostSend(a)
      PROVE  OneReceive'
  BY <1>31, OutOfRecv DEF PostSend, Sent, events, owners, history
<1>32. ASSUME NEW a \in Threads \cup Tasks, PostSendFail(a)
      PROVE  OneReceive'
  BY <1>32, OutOfRecv DEF PostSendFail, Sent, events, owners, history
<1>33. ASSUME NEW a \in Threads \cup Tasks, ClearSend(a)
      PROVE  OneReceive'
  BY <1>33, OutOfRecv DEF ClearSend, Sent, events, owners, history
<1>34. ASSUME NEW th \in Threads, NEW s \in Sessions, DequeueSend(th, s)
      PROVE  OneReceive'
  <2>1. CASE UNCHANGED <<pc, cur>>
    BY <1>34, <2>1, RecvFrame DEF DequeueSend, InRecv, owners, history
  <2>2. CASE Go(th, "procSend") /\ cur' = [cur EXCEPT ![th] = s]
    BY <1>34, <2>2, OutOfRecv DEF DequeueSend, owners, history
  <2> QED
    BY <1>34, <2>1, <2>2 DEF DequeueSend, Take
<1>35. ASSUME NEW th \in Threads, ProcessSend(th)
      PROVE  OneReceive'
  <2>1. PICK there \in {"disconnect", "regSend", "release"} : Go(th, there)
    BY <1>35 DEF ProcessSend
  <2> QED
    BY <1>35, <2>1, OutOfRecv DEF ProcessSend, events, history
<1> QED
  BY <1>1, <1>2, <1>3, <1>4, <1>5, <1>6, <1>7, <1>8, <1>9, <1>10, <1>11, <1>12, <1>13,
     <1>14, <1>15, <1>16, <1>17, <1>18, <1>19, <1>20, <1>21, <1>22, <1>23, <1>24, <1>25,
     <1>26, <1>27, <1>28, <1>29, <1>30, <1>31, <1>32, <1>33, <1>34, <1>35
     DEF Next, InDisconnectAll, Calling, Sending, TaskStep, ThreadStep

------------------------------------------------------------------------------
(* Owners *)

\* A completion without an owner was raced for, or belongs to an overlapping test.
OwnersFound == crashed = "null owner" => raced # {} \/ overlapped

\* Only a completion that Disconnect raced for, or of an overlapping test, finds no owner.
LEMMA OwnersFoundStep ==
  ASSUME TypeOK, OneDisconnect, OneReceive, OneSend, OwnersFound, [Next]_vars
  PROVE  OwnersFound'
<1> USE ActorFacts
<1>1. ASSUME NEW new \in SUBSET Sessions, StartTest(new)
      PROVE  OwnersFound'
  BY <1>1, StartFacts DEF OwnersFound
<1>2. ASSUME NEW t \in Tests, FinishTest(t)
      PROVE  OwnersFound'
  BY <1>2 DEF FinishTest, history, flags, OwnersFound
<1>3. ASSUME Join
      PROVE  OwnersFound'
  BY <1>3 DEF Join, history, flags, OwnersFound
<1>4. ASSUME NEW s \in Sessions, NextSession(s)
      PROVE  OwnersFound'
  BY <1>4 DEF NextSession, history, flags, OwnersFound
<1>5. ASSUME Dispose
      PROVE  OwnersFound'
  BY <1>5 DEF Dispose, history, flags, OwnersFound
<1>6. ASSUME ClearSessions
      PROVE  OwnersFound'
  BY <1>6 DEF ClearSessions, history, flags, OwnersFound
<1>7. ASSUME NEW a \in Tasks, Connect(a)
      PROVE  OwnersFound'
  BY <1>7 DEF Connect, history, flags, OwnersFound
<1>8. ASSUME NEW a \in Tasks, Sleep(a)
      PROVE  OwnersFound'
  BY <1>8 DEF Sleep, history, flags, OwnersFound
<1>9. ASSUME NEW a \in Tasks, UseDisposed(a)
      PROVE  OwnersFound'
  BY <1>9 DEF UseDisposed, history, flags, OwnersFound
<1>10. ASSUME NEW a \in Actors, Disconnect(a)
      PROVE  OwnersFound'
  BY <1>10 DEF Disconnect, history, flags, OwnersFound
<1>11. ASSUME NEW a \in Actors, DisconnectOwner(a)
      PROVE  OwnersFound'
  BY <1>11 DEF DisconnectOwner, history, flags, OwnersFound
<1>12. ASSUME NEW a \in Actors, DisconnectEx(a)
      PROVE  OwnersFound'
  BY <1>12 DEF DisconnectEx, history, flags, OwnersFound
<1>13. ASSUME NEW a \in Actors, DisconnectExFail(a)
      PROVE  OwnersFound'
  BY <1>13 DEF DisconnectExFail, history, flags, OwnersFound
<1>14. ASSUME NEW th \in Threads, Loop(th)
      PROVE  OwnersFound'
  BY <1>14 DEF Loop, history, flags, OwnersFound
<1>15. ASSUME NEW th \in Threads, Timeout(th)
      PROVE  OwnersFound'
  BY <1>15 DEF Timeout, history, flags, OwnersFound
<1>16. ASSUME NEW th \in Threads, NEW s \in Sessions, DequeueConnect(th, s)
      PROVE  OwnersFound'
  BY <1>16 DEF DequeueConnect, Take, history, flags, OwnersFound
<1>17. ASSUME NEW th \in Threads, NEW s \in Sessions, DequeueRecv(th, s)
      PROVE  OwnersFound'
  <2>1. receiving[s] > 0 /\ receiving[s] \in Nat /\ connecting[s] \in Nat
    BY <1>17 DEF DequeueRecv, TypeOK, Data
  <2>2. overlapped \/ s \in recvOwner
    BY <2>1 DEF OneReceive, OneReceiveOf
  <2>3. UNCHANGED history /\ (crashed' = crashed \/ s \notin recvOwner)
    BY <1>17 DEF DequeueRecv, Take
  <2> QED
    BY <2>2, <2>3 DEF OwnersFound, history, flags
<1>18. ASSUME NEW th \in Threads, NEW s \in Sessions, DequeueDisconnect(th, s)
      PROVE  OwnersFound'
  <2>1. disconnecting[s] > 0 /\ disconnecting[s] \in Nat
    BY <1>18 DEF DequeueDisconnect, TypeOK, Data
  <2>2. s \in raced \/ s \in discOwner
    BY <2>1 DEF OneDisconnect
  <2>3. UNCHANGED history /\ (crashed' = crashed \/ s \notin discOwner)
    BY <1>18 DEF DequeueDisconnect, Take
  <2> QED
    BY <2>2, <2>3 DEF OwnersFound, history, flags
<1>19. ASSUME NEW th \in Threads, ProcessConnect(th)
      PROVE  OwnersFound'
  BY <1>19 DEF ProcessConnect, Callback, history, flags, OwnersFound
<1>20. ASSUME NEW th \in Threads, RegisterRecv(th)
      PROVE  OwnersFound'
  BY <1>20 DEF RegisterRecv, history, flags, OwnersFound
<1>21. ASSUME NEW th \in Threads, PostRecv(th)
      PROVE  OwnersFound'
  BY <1>21 DEF PostRecv, history, flags, OwnersFound
<1>22. ASSUME NEW th \in Threads, ProcessRecv(th)
      PROVE  OwnersFound'
  BY <1>22 DEF ProcessRecv, history, flags, OwnersFound
<1>23. ASSUME NEW th \in Threads, ProcessDisconnect(th)
      PROVE  OwnersFound'
  BY <1>23 DEF ProcessDisconnect, history, flags, OwnersFound
<1>24. ASSUME NEW th \in Threads, ResetDisconnectOwner(th)
      PROVE  OwnersFound'
  BY <1>24 DEF ResetDisconnectOwner, Callback, history, flags, OwnersFound
<1>25. ASSUME NEW th \in Threads, Release(th)
      PROVE  OwnersFound'
  BY <1>25 DEF Release, history, flags, OwnersFound
<1>26. CASE UNCHANGED vars
  BY <1>26 DEF vars, history, flags, OwnersFound
<1>27. ASSUME NEW t \in Tests, FaultTest(t)
      PROVE  OwnersFound'
  BY <1>27 DEF FaultTest, history, OwnersFound
<1>28. ASSUME NEW a \in Tasks, UseFreed(a)
      PROVE  OwnersFound'
  BY <1>28 DEF UseFreed, history, OwnersFound
<1>29. ASSUME NEW a \in Tasks, Send(a)
      PROVE  OwnersFound'
  BY <1>29 DEF Send, history, OwnersFound
<1>30. ASSUME NEW a \in Threads \cup Tasks, RegisterSend(a)
      PROVE  OwnersFound'
  BY <1>30 DEF RegisterSend, history, OwnersFound
<1>31. ASSUME NEW a \in Threads \cup Tasks, PostSend(a)
      PROVE  OwnersFound'
  BY <1>31 DEF PostSend, history, OwnersFound
<1>32. ASSUME NEW a \in Threads \cup Tasks, PostSendFail(a)
      PROVE  OwnersFound'
  BY <1>32 DEF PostSendFail, history, OwnersFound
<1>33. ASSUME NEW a \in Threads \cup Tasks, ClearSend(a)
      PROVE  OwnersFound'
  BY <1>33 DEF ClearSend, history, OwnersFound
<1>34. ASSUME NEW th \in Threads, NEW s \in Sessions, DequeueSend(th, s)
      PROVE  OwnersFound'
  <2>1. sending[s] > 0 /\ sending[s] \in Nat
    BY <1>34 DEF DequeueSend, TypeOK, Data
  <2>2. s \in sendOwner
    BY <2>1 DEF OneSend
  <2> QED
    BY <1>34, <2>2 DEF DequeueSend, Take, OwnersFound, history
<1>35. ASSUME NEW th \in Threads, ProcessSend(th)
      PROVE  OwnersFound'
  BY <1>35 DEF ProcessSend, history, OwnersFound
<1> QED
  BY <1>1, <1>2, <1>3, <1>4, <1>5, <1>6, <1>7, <1>8, <1>9, <1>10, <1>11, <1>12, <1>13,
     <1>14, <1>15, <1>16, <1>17, <1>18, <1>19, <1>20, <1>21, <1>22, <1>23, <1>24, <1>25,
     <1>26, <1>27, <1>28, <1>29, <1>30, <1>31, <1>32, <1>33, <1>34, <1>35
     DEF Next, InDisconnectAll, Calling, Sending, TaskStep, ThreadStep

------------------------------------------------------------------------------
(* Disposed sessions *)

\* Nobody connects or disposes.
LEMMA OffFrame ==
  ASSUME StaysOff, isConnect' = isConnect, disposed' = disposed,
         crashed' = "no" => crashed = "no",
         \A th \in Threads :
           pc'[th] \in {"recv", "postSend"}
             => pc[th] \in {"recv", "postSend"} /\ cur'[th] = cur[th],
         pc'[UI] \in {"discOwner", "discEx", "dispose"}
           => pc[UI] \in {"discOwner", "discEx", "dispose"} /\ cur'[UI] = cur[UI]
  PROVE  StaysOff'
BY DEF StaysOff

\* An actor moves, and neither connects nor disposes.
LEMMA OffMove ==
  ASSUME TypeOK, StaysOff, isConnect' = isConnect, disposed' = disposed,
         crashed' = "no" => crashed = "no",
         NEW a \in Actors, NEW there, Go(a, there), there # "recv",
         there = "postSend" => a \notin Threads,
         NEW with, cur' = cur \/ (cur' = [cur EXCEPT ![a] = with] /\ a # UI),
         a = UI /\ there \in {"discOwner", "discEx", "dispose"}
           => pc[a] \in {"discOwner", "discEx", "dispose"}
  PROVE  StaysOff'
<1>1. \A b \in Actors : pc'[b] = IF b = a THEN there ELSE pc[b]
  BY DEF Go, TypeOK, Places
<1>2. \A b \in Actors : b # a \/ a = UI => cur'[b] = cur[b]
  BY DEF TypeOK, Dealing
<1> QED
  BY <1>1, <1>2, ActorFacts, OffFrame

\* A thread that has found its session connected goes on to post for it.
LEMMA OffPost ==
  ASSUME TypeOK, StaysOff, UNCHANGED <<isConnect, disposed, cur>>, crashed = "no",
         NEW th \in Threads, cur[th] \in isConnect, NEW there, Go(th, there)
  PROVE  StaysOff'
<1>1. \A b \in Actors : pc'[b] = IF b = th THEN there ELSE pc[b]
  BY DEF Go, TypeOK, Places
<1>2. cur[th] \notin disposed
  BY DEF StaysOff
<1> QED
  BY <1>1, <1>2, ActorFacts DEF StaysOff

\* A dispatch thread connects a session only while DisconnectAll has not gone past the
\* join; and where it connects a disposed one, the callback ends the program.
LEMMA StaysOffStep ==
  ASSUME TypeOK, Joined, StaysOff, [Next]_vars
  PROVE  StaysOff'
<1> USE ActorFacts
<1>1. ASSUME NEW new \in SUBSET Sessions, StartTest(new)
      PROVE  StaysOff'
  <2>1. \A th \in Threads : pc'[th] \in {"recv", "postSend"}
          => pc[th] = pc'[th] /\ cur'[th] = cur[th]
    BY <1>1, StartFacts
  <2> QED
    BY <1>1, <2>1, StartFacts, OffFrame DEF objects, flags
<1>2. ASSUME NEW t \in Tests, FinishTest(t)
      PROVE  StaysOff'
  BY <1>2, OffMove DEF FinishTest, At, flags, objects
<1>3. ASSUME Join
      PROVE  StaysOff'
  BY <1>3, OffMove DEF Join, At, flags, objects
<1>4. ASSUME NEW s \in Sessions, NextSession(s)
      PROVE  StaysOff'
  <2>1. /\ Go(UI, "disconnect") /\ cur' = [cur EXCEPT ![UI] = s]
        /\ UNCHANGED <<isConnect, disposed, crashed>>
    BY <1>4 DEF NextSession, flags, objects
  <2>2. \A b \in Actors : /\ pc'[b] = IF b = UI THEN "disconnect" ELSE pc[b]
                          /\ cur'[b] = IF b = UI THEN s ELSE cur[b]
    BY <2>1 DEF Go, TypeOK, Places, Dealing
  <2> QED
    BY <2>1, <2>2, OffFrame
<1>5. ASSUME Dispose
      PROVE  StaysOff'
  <2>1. /\ pc[UI] = "dispose" /\ UNCHANGED <<isConnect, cur, crashed>> /\ crashed = "no"
        /\ disposed' = disposed \cup {cur[UI]}
        /\ \A b \in Actors : pc'[b] = IF b = UI THEN "each" ELSE pc[b]
    BY <1>5 DEF Dispose, At, Go, flags, TypeOK, Places
  <2>2. \A th \in Threads : pc[th] \in {"none", "end"}
    BY <2>1 DEF Joined
  <2> QED
    BY <2>1, <2>2 DEF StaysOff
<1>6. ASSUME ClearSessions
      PROVE  StaysOff'
  <2>1. /\ Go(UI, "free") /\ cur' = [cur EXCEPT ![UI] = None]
        /\ UNCHANGED <<isConnect, disposed, crashed>>
    BY <1>6 DEF ClearSessions, flags, objects
  <2>2. \A b \in Actors : /\ pc'[b] = IF b = UI THEN "free" ELSE pc[b]
                          /\ cur'[b] = IF b = UI THEN None ELSE cur[b]
    BY <2>1 DEF Go, TypeOK, Places, Dealing
  <2> QED
    BY <2>1, <2>2, OffFrame
<1>7. ASSUME NEW a \in Tasks, Connect(a)
      PROVE  StaysOff'
  BY <1>7, OffMove DEF Connect, At, flags
<1>8. ASSUME NEW a \in Tasks, Sleep(a)
      PROVE  StaysOff'
  BY <1>8, OffMove DEF Sleep, At, flags, objects
<1>9. ASSUME NEW a \in Tasks, UseDisposed(a)
      PROVE  StaysOff'
  BY <1>9, OffMove DEF UseDisposed, flags, objects
<1>10. ASSUME NEW a \in Actors, Disconnect(a)
      PROVE  StaysOff'
  <2>1. /\ isConnect' = isConnect \ {cur[a]} /\ UNCHANGED <<disposed, crashed, cur>>
        /\ \A b \in Actors : pc'[b] = IF b = a THEN "discOwner" ELSE pc[b]
    BY <1>10 DEF Disconnect, Go, objects, flags, TypeOK, Places
  <2> QED
    BY <2>1 DEF StaysOff
<1>11. ASSUME NEW a \in Actors, DisconnectOwner(a)
      PROVE  StaysOff'
  BY <1>11, OffMove DEF DisconnectOwner, At, flags, objects
<1>12. ASSUME NEW a \in Actors, DisconnectEx(a)
      PROVE  StaysOff'
  BY <1>12, OffMove DEF DisconnectEx, At, Return, flags, objects
<1>13. ASSUME NEW a \in Actors, DisconnectExFail(a)
      PROVE  StaysOff'
  BY <1>13, OffMove DEF DisconnectExFail, At, Return, flags, objects
<1>14. ASSUME NEW th \in Threads, Loop(th)
      PROVE  StaysOff'
  BY <1>14, OffMove DEF Loop, At, flags, objects
<1>15. ASSUME NEW th \in Threads, Timeout(th)
      PROVE  StaysOff'
  BY <1>15, OffMove DEF Timeout, At, flags, objects
<1>16. ASSUME NEW th \in Threads, NEW s \in Sessions, DequeueConnect(th, s)
      PROVE  StaysOff'
  <2>1. UNCHANGED <<isConnect, disposed>> /\ crashed' \in {crashed, "null owner"}
    BY <1>16 DEF DequeueConnect, Take, flags, objects
  <2>2. CASE UNCHANGED <<pc, cur>>
    BY <2>1, <2>2, OffFrame
  <2>3. CASE Go(th, "procConnect") /\ cur' = [cur EXCEPT ![th] = s]
    BY <2>1, <2>3, OffMove
  <2> QED
    BY <1>16, <2>2, <2>3 DEF DequeueConnect, Take
<1>17. ASSUME NEW th \in Threads, NEW s \in Sessions, DequeueRecv(th, s)
      PROVE  StaysOff'
  <2>1. UNCHANGED <<isConnect, disposed>> /\ crashed' \in {crashed, "null owner"}
    BY <1>17 DEF DequeueRecv, Take, flags, objects
  <2>2. CASE UNCHANGED <<pc, cur>>
    BY <2>1, <2>2, OffFrame
  <2>3. CASE Go(th, "procRecv") /\ cur' = [cur EXCEPT ![th] = s]
    BY <2>1, <2>3, OffMove
  <2> QED
    BY <1>17, <2>2, <2>3 DEF DequeueRecv, Take
<1>18. ASSUME NEW th \in Threads, NEW s \in Sessions, DequeueDisconnect(th, s)
      PROVE  StaysOff'
  <2>1. UNCHANGED <<isConnect, disposed>> /\ crashed' \in {crashed, "null owner"}
    BY <1>18 DEF DequeueDisconnect, Take, flags, objects
  <2>2. CASE UNCHANGED <<pc, cur>>
    BY <2>1, <2>2, OffFrame
  <2>3. CASE Go(th, "procDisc") /\ cur' = [cur EXCEPT ![th] = s]
    BY <2>1, <2>3, OffMove
  <2> QED
    BY <1>18, <2>2, <2>3 DEF DequeueDisconnect, Take
<1>19. ASSUME NEW th \in Threads, ProcessConnect(th)
      PROVE  StaysOff'
  <2>1. /\ pc[th] = "procConnect" /\ UNCHANGED <<disposed, cur>> /\ crashed = "no"
        /\ isConnect' = isConnect \cup {cur[th]}
    BY <1>19 DEF ProcessConnect, At, objects
  <2>2. pc[UI] \in {"free", "join"}
    BY <2>1 DEF Joined, TypeOK, Places
  <2>3. CASE cur[th] \in disposed /\ crashed' = "callback" /\ pc' = pc
    BY <2>1, <2>2, <2>3 DEF StaysOff
  <2>4. CASE cur[th] \notin disposed /\ crashed' = crashed /\ Go(th, "register")
    <3>1. \A b \in Actors : pc'[b] = IF b = th THEN "register" ELSE pc[b]
      BY <2>4 DEF Go, TypeOK, Places
    <3> QED
      BY <2>1, <2>2, <2>4, <3>1 DEF StaysOff
  <2> QED
    BY <1>19, <2>3, <2>4 DEF ProcessConnect, Callback
<1>20. ASSUME NEW th \in Threads, RegisterRecv(th)
      PROVE  StaysOff'
  <2>1. CASE Go(th, "release")
    BY <1>20, <2>1, OffMove DEF RegisterRecv, flags, objects
  <2>2. CASE cur[th] \in isConnect /\ Go(th, "recv")
    BY <1>20, <2>2, OffPost DEF RegisterRecv, At, flags, objects
  <2> QED
    BY <1>20, <2>1, <2>2 DEF RegisterRecv
<1>21. ASSUME NEW th \in Threads, PostRecv(th)
      PROVE  StaysOff'
  BY <1>21, OffMove DEF PostRecv, At, flags, objects
<1>22. ASSUME NEW th \in Threads, ProcessRecv(th)
      PROVE  StaysOff'
  BY <1>22, OffMove DEF ProcessRecv, At, flags, objects
<1>23. ASSUME NEW th \in Threads, ProcessDisconnect(th)
      PROVE  StaysOff'
  BY <1>23, OffMove DEF ProcessDisconnect, At, flags, objects
<1>24. ASSUME NEW th \in Threads, ResetDisconnectOwner(th)
      PROVE  StaysOff'
  <2>1. CASE UNCHANGED pc /\ crashed' = "callback"
    BY <1>24, <2>1, OffFrame DEF ResetDisconnectOwner, flags, objects
  <2>2. CASE Go(th, "release") /\ crashed' = crashed
    BY <1>24, <2>2, OffMove DEF ResetDisconnectOwner, flags, objects
  <2> QED
    BY <1>24, <2>1, <2>2 DEF ResetDisconnectOwner, Callback
<1>25. ASSUME NEW th \in Threads, Release(th)
      PROVE  StaysOff'
  BY <1>25, OffMove DEF Release, At, flags, objects
<1>26. CASE UNCHANGED vars
  BY <1>26, OffFrame DEF vars, objects, flags
<1>27. ASSUME NEW t \in Tests, FaultTest(t)
      PROVE  StaysOff'
  BY <1>27, OffFrame DEF FaultTest, flags, objects
<1>28. ASSUME NEW a \in Tasks, UseFreed(a)
      PROVE  StaysOff'
  <2>1. UNCHANGED <<isConnect, disposed, cur>> /\ crashed' \in {crashed, "freed"}
    BY <1>28 DEF UseFreed, flags, objects
  <2>2. CASE UNCHANGED pc
    BY <2>1, <2>2, OffFrame
  <2>3. CASE \E there \in {"faulted", "sleep", "done"} : Go(a, there)
    BY <2>1, <2>3, OffMove
  <2> QED
    BY <1>28, <2>2, <2>3 DEF UseFreed
<1>29. ASSUME NEW a \in Tasks, Send(a)
      PROVE  StaysOff'
  BY <1>29, OffMove DEF Send, objects
<1>30. ASSUME NEW a \in Threads \cup Tasks, RegisterSend(a)
      PROVE  StaysOff'
  <2>1. CASE Sent(a)
    BY <1>30, <2>1, OffMove DEF RegisterSend, Sent, flags, objects
  <2>2. CASE cur[a] \in isConnect /\ Go(a, "postSend") /\ a \in Threads
    BY <1>30, <2>2, OffPost DEF RegisterSend, At, flags, objects
  <2>3. CASE Go(a, "postSend") /\ a \in Tasks
    BY <1>30, <2>3, OffMove DEF RegisterSend, flags, objects
  <2> QED
    BY <1>30, <2>1, <2>2, <2>3 DEF RegisterSend
<1>31. ASSUME NEW a \in Threads \cup Tasks, PostSend(a)
      PROVE  StaysOff'
  BY <1>31, OffMove DEF PostSend, Sent, flags, objects
<1>32. ASSUME NEW a \in Threads \cup Tasks, PostSendFail(a)
      PROVE  StaysOff'
  BY <1>32, OffMove DEF PostSendFail, Sent, flags, objects
<1>33. ASSUME NEW a \in Threads \cup Tasks, ClearSend(a)
      PROVE  StaysOff'
  BY <1>33, OffMove DEF ClearSend, Sent, flags, objects
<1>34. ASSUME NEW th \in Threads, NEW s \in Sessions, DequeueSend(th, s)
      PROVE  StaysOff'
  <2>1. UNCHANGED <<isConnect, disposed>> /\ crashed' \in {crashed, "null owner"}
    BY <1>34 DEF DequeueSend, Take, flags, objects
  <2>2. CASE UNCHANGED <<pc, cur>>
    BY <2>1, <2>2, OffFrame
  <2>3. CASE Go(th, "procSend") /\ cur' = [cur EXCEPT ![th] = s]
    BY <2>1, <2>3, OffMove
  <2> QED
    BY <1>34, <2>2, <2>3 DEF DequeueSend, Take
<1>35. ASSUME NEW th \in Threads, ProcessSend(th)
      PROVE  StaysOff'
  <2>1. PICK there \in {"disconnect", "regSend", "release"} : Go(th, there)
    BY <1>35 DEF ProcessSend
  <2> QED
    BY <1>35, <2>1, OffMove DEF ProcessSend, objects
<1> QED
  BY <1>1, <1>2, <1>3, <1>4, <1>5, <1>6, <1>7, <1>8, <1>9, <1>10, <1>11, <1>12, <1>13,
     <1>14, <1>15, <1>16, <1>17, <1>18, <1>19, <1>20, <1>21, <1>22, <1>23, <1>24, <1>25,
     <1>26, <1>27, <1>28, <1>29, <1>30, <1>31, <1>32, <1>33, <1>34, <1>35
     DEF Next, InDisconnectAll, Calling, Sending, TaskStep, ThreadStep

------------------------------------------------------------------------------
(* What refers to a session *)

\* A session leaves the list only when every one in it was disposed.
LEMMA ListedStep ==
  ASSUME TypeOK, Listed, [Next]_vars
  PROVE  Listed'
<1> USE ActorFacts
<1>1. ASSUME NEW new \in SUBSET Sessions, StartTest(new)
      PROVE  Listed'
  BY <1>1, StartFacts DEF Listed, objects, flags
<1>2. ASSUME NEW t \in Tests, FinishTest(t)
      PROVE  Listed'
  BY <1>2 DEF FinishTest, At, Go, Listed, service, objects, flags, TypeOK, Places, Dealing
<1>3. ASSUME Join
      PROVE  Listed'
  BY <1>3 DEF Join, At, Go, Listed, service, objects, flags, TypeOK, Places, Dealing
<1>4. ASSUME NEW s \in Sessions, NextSession(s)
      PROVE  Listed'
  BY <1>4 DEF NextSession, At, Go, Listed, service, objects, flags, TypeOK, Places, Dealing
<1>5. ASSUME Dispose
      PROVE  Listed'
  BY <1>5 DEF Dispose, At, Go, Listed, service, objects, flags, TypeOK, Places, Dealing
<1>6. ASSUME ClearSessions
      PROVE  Listed'
  BY <1>6 DEF ClearSessions, At, Go, Listed, service, objects, flags, TypeOK, Places, Dealing
<1>7. ASSUME NEW a \in Tasks, Connect(a)
      PROVE  Listed'
  BY <1>7 DEF Connect, At, Go, Listed, service, objects, flags, TypeOK, Places, Dealing
<1>8. ASSUME NEW a \in Tasks, Sleep(a)
      PROVE  Listed'
  BY <1>8 DEF Sleep, At, Go, Listed, service, objects, flags, TypeOK, Places, Dealing
<1>9. ASSUME NEW a \in Tasks, UseDisposed(a)
      PROVE  Listed'
  BY <1>9 DEF UseDisposed, At, Go, Listed, service, objects, flags, TypeOK, Places, Dealing
<1>10. ASSUME NEW a \in Actors, Disconnect(a)
      PROVE  Listed'
  BY <1>10 DEF Disconnect, At, Go, Listed, service, objects, flags, TypeOK, Places, Dealing
<1>11. ASSUME NEW a \in Actors, DisconnectOwner(a)
      PROVE  Listed'
  BY <1>11 DEF DisconnectOwner, At, Go, Listed, service, objects, flags, TypeOK, Places, Dealing
<1>12. ASSUME NEW a \in Actors, DisconnectEx(a)
      PROVE  Listed'
  BY <1>12 DEF DisconnectEx, At, Go, Return, Listed, service, objects, flags, TypeOK, Places
<1>13. ASSUME NEW a \in Actors, DisconnectExFail(a)
      PROVE  Listed'
  BY <1>13 DEF DisconnectExFail, At, Go, Return, Listed, service, objects, flags, TypeOK, Places
<1>14. ASSUME NEW th \in Threads, Loop(th)
      PROVE  Listed'
  BY <1>14 DEF Loop, At, Go, Listed, service, objects, flags, TypeOK, Places, Dealing
<1>15. ASSUME NEW th \in Threads, Timeout(th)
      PROVE  Listed'
  BY <1>15 DEF Timeout, At, Go, Listed, service, objects, flags, TypeOK, Places, Dealing
<1>16. ASSUME NEW th \in Threads, NEW s \in Sessions, DequeueConnect(th, s)
      PROVE  Listed'
  <2>1. pc'[UI] = pc[UI] /\ cur'[UI] = cur[UI]
    <3>1. \/ UNCHANGED <<pc, cur>>
          \/ cur' = [cur EXCEPT ![th] = s] /\ \E there : pc' = [pc EXCEPT ![th] = there]
      BY <1>16 DEF DequeueConnect, Take, Go
    <3> QED
      BY <3>1 DEF TypeOK, Places, Dealing
  <2> QED
    BY <1>16, <2>1 DEF DequeueConnect, Listed, service, objects, flags
<1>17. ASSUME NEW th \in Threads, NEW s \in Sessions, DequeueRecv(th, s)
      PROVE  Listed'
  <2>1. pc'[UI] = pc[UI] /\ cur'[UI] = cur[UI]
    <3>1. \/ UNCHANGED <<pc, cur>>
          \/ cur' = [cur EXCEPT ![th] = s] /\ \E there : pc' = [pc EXCEPT ![th] = there]
      BY <1>17 DEF DequeueRecv, Take, Go
    <3> QED
      BY <3>1 DEF TypeOK, Places, Dealing
  <2> QED
    BY <1>17, <2>1 DEF DequeueRecv, Listed, service, objects, flags
<1>18. ASSUME NEW th \in Threads, NEW s \in Sessions, DequeueDisconnect(th, s)
      PROVE  Listed'
  <2>1. pc'[UI] = pc[UI] /\ cur'[UI] = cur[UI]
    <3>1. \/ UNCHANGED <<pc, cur>>
          \/ cur' = [cur EXCEPT ![th] = s] /\ \E there : pc' = [pc EXCEPT ![th] = there]
      BY <1>18 DEF DequeueDisconnect, Take, Go
    <3> QED
      BY <3>1 DEF TypeOK, Places, Dealing
  <2> QED
    BY <1>18, <2>1 DEF DequeueDisconnect, Listed, service, objects, flags
<1>19. ASSUME NEW th \in Threads, ProcessConnect(th)
      PROVE  Listed'
  BY <1>19 DEF ProcessConnect, Callback, At, Go, Listed, service, objects, flags, TypeOK,
     Places, Dealing
<1>20. ASSUME NEW th \in Threads, RegisterRecv(th)
      PROVE  Listed'
  BY <1>20 DEF RegisterRecv, At, Go, Listed, service, objects, flags, TypeOK, Places, Dealing
<1>21. ASSUME NEW th \in Threads, PostRecv(th)
      PROVE  Listed'
  BY <1>21 DEF PostRecv, At, Go, Listed, service, objects, flags, TypeOK, Places, Dealing
<1>22. ASSUME NEW th \in Threads, ProcessRecv(th)
      PROVE  Listed'
  BY <1>22 DEF ProcessRecv, At, Go, Listed, service, objects, flags, TypeOK, Places, Dealing
<1>23. ASSUME NEW th \in Threads, ProcessDisconnect(th)
      PROVE  Listed'
  BY <1>23 DEF ProcessDisconnect, At, Go, Listed, service, objects, flags, TypeOK, Places,
     Dealing
<1>24. ASSUME NEW th \in Threads, ResetDisconnectOwner(th)
      PROVE  Listed'
  BY <1>24 DEF ResetDisconnectOwner, Callback, At, Go, Listed, service, objects, flags,
     TypeOK, Places, Dealing
<1>25. ASSUME NEW th \in Threads, Release(th)
      PROVE  Listed'
  BY <1>25 DEF Release, At, Go, Listed, service, objects, flags, TypeOK, Places, Dealing
<1>26. CASE UNCHANGED vars
  BY <1>26 DEF vars, service, objects, flags, Listed
<1>27. ASSUME NEW t \in Tests, FaultTest(t)
      PROVE  Listed'
  BY <1>27 DEF FaultTest, At, Listed, objects
<1>28. ASSUME NEW a \in Tasks, UseFreed(a)
      PROVE  Listed'
  <2>1. pc'[UI] = pc[UI] /\ cur'[UI] = cur[UI]
    BY <1>28 DEF UseFreed, Go, TypeOK, Places
  <2> QED
    BY <1>28, <2>1 DEF UseFreed, Listed, service, objects
<1>29. ASSUME NEW a \in Tasks, Send(a)
      PROVE  Listed'
  BY <1>29 DEF Send, Go, Listed, service, objects, TypeOK, Places
<1>30. ASSUME NEW a \in Threads \cup Tasks, RegisterSend(a)
      PROVE  Listed'
  <2>1. pc'[UI] = pc[UI] /\ cur' = cur
    BY <1>30 DEF RegisterSend, Sent, Go, TypeOK, Places
  <2> QED
    BY <1>30, <2>1 DEF RegisterSend, Listed, service, objects
<1>31. ASSUME NEW a \in Threads \cup Tasks, PostSend(a)
      PROVE  Listed'
  <2>1. pc'[UI] = pc[UI] /\ cur' = cur
    BY <1>31 DEF PostSend, Sent, Go, TypeOK, Places
  <2> QED
    BY <1>31, <2>1 DEF PostSend, Listed, service, objects
<1>32. ASSUME NEW a \in Threads \cup Tasks, PostSendFail(a)
      PROVE  Listed'
  <2>1. pc'[UI] = pc[UI] /\ cur' = cur
    BY <1>32 DEF PostSendFail, Sent, Go, TypeOK, Places
  <2> QED
    BY <1>32, <2>1 DEF PostSendFail, Listed, service, objects
<1>33. ASSUME NEW a \in Threads \cup Tasks, ClearSend(a)
      PROVE  Listed'
  <2>1. pc'[UI] = pc[UI] /\ cur' = cur
    BY <1>33 DEF ClearSend, Sent, Go, TypeOK, Places
  <2> QED
    BY <1>33, <2>1 DEF ClearSend, Listed, service, objects
<1>34. ASSUME NEW th \in Threads, NEW s \in Sessions, DequeueSend(th, s)
      PROVE  Listed'
  <2>1. pc'[UI] = pc[UI] /\ cur'[UI] = cur[UI]
    <3>1. \/ UNCHANGED <<pc, cur>>
          \/ cur' = [cur EXCEPT ![th] = s] /\ \E there : pc' = [pc EXCEPT ![th] = there]
      BY <1>34 DEF DequeueSend, Take, Go
    <3> QED
      BY <3>1 DEF TypeOK, Places, Dealing
  <2> QED
    BY <1>34, <2>1 DEF DequeueSend, Listed, service, objects, flags
<1>35. ASSUME NEW th \in Threads, ProcessSend(th)
      PROVE  Listed'
  BY <1>35 DEF ProcessSend, Go, Listed, service, objects, TypeOK, Places
<1> QED
  BY <1>1, <1>2, <1>3, <1>4, <1>5, <1>6, <1>7, <1>8, <1>9, <1>10, <1>11, <1>12, <1>13,
     <1>14, <1>15, <1>16, <1>17, <1>18, <1>19, <1>20, <1>21, <1>22, <1>23, <1>24, <1>25,
     <1>26, <1>27, <1>28, <1>29, <1>30, <1>31, <1>32, <1>33, <1>34, <1>35
     DEF Next, InDisconnectAll, Calling, Sending, TaskStep, ThreadStep

\* Nothing that refers to a session goes away.
LEMMA HeldFrame ==
  ASSUME TypeOK, Held, disposed' = disposed, dead' = dead,
         recvOwner \subseteq recvOwner', sendOwner \subseteq sendOwner',
         discOwner \subseteq discOwner',
         UNCHANGED <<leaked, connecting>>,
         \A th \in Threads : cur'[th] = cur[th] \/ cur[th] = None
  PROVE  Held'
<1>1. None \notin disposed
  BY NoneAssumption DEF TypeOK, Data
<1> QED
  BY <1>1 DEF Held, Referred

\* The last reference that goes away destroys the session.
LEMMA HeldStep ==
  ASSUME TypeOK, Listed, Held, [Next]_vars
  PROVE  Held'
<1> USE ActorFacts
<1>1. ASSUME NEW new \in SUBSET Sessions, StartTest(new)
      PROVE  Held'
  BY <1>1, StartFacts, HeldFrame DEF objects, events, owners, flags
<1>2. ASSUME NEW t \in Tests, FinishTest(t)
      PROVE  Held'
  BY <1>2, HeldFrame DEF FinishTest, objects, events, owners, flags
<1>3. ASSUME Join
      PROVE  Held'
  BY <1>3, HeldFrame DEF Join, objects, events, owners, flags
<1>4. ASSUME NEW s \in Sessions, NextSession(s)
      PROVE  Held'
  <2>1. \A b \in Threads : cur'[b] = cur[b]
    BY <1>4 DEF NextSession, TypeOK, Dealing
  <2> QED
    BY <1>4, <2>1, HeldFrame DEF NextSession, objects, events, owners, flags
<1>5. ASSUME Dispose
      PROVE  Held'
  <2>1. /\ disposed' = disposed \cup {cur[UI]} /\ dead \subseteq dead'
        /\ cur[UI] \in dead' \/ cur[UI] \in discOwner \cup sendOwner \/ ~Unheld(cur[UI], UI)
        /\ UNCHANGED <<recvOwner, sendOwner, discOwner, leaked, connecting, cur>>
    BY <1>5 DEF Dispose, Drop, events, owners, flags
  <2>2. cur[UI] \in Sessions /\ connecting[cur[UI]] \in Nat
    BY <1>5, DealsWithMade DEF Dispose, At, TypeOK, Data
  <2>3. cur[UI] \in dead' \/ Referred(cur[UI])
    BY <2>1, <2>2 DEF Unheld, Referred
  <2> QED
    BY <2>1, <2>3 DEF Held, Referred
<1>6. ASSUME ClearSessions
      PROVE  Held'
  <2>1. \A b \in Threads : cur'[b] = cur[b]
    BY <1>6 DEF ClearSessions, TypeOK, Dealing
  <2> QED
    BY <1>6, <2>1, HeldFrame DEF ClearSessions, objects, events, owners, flags
<1>7. ASSUME NEW a \in Tasks, Connect(a)
      PROVE  Held'
  <2>1. \A x \in Sessions : connecting[x] > 0 => connecting'[x] > 0
    <3>1. connecting' = connecting \/ connecting' = [connecting EXCEPT ![cur[a]] = @ + 1]
      BY <1>7 DEF Connect
    <3>2. connecting \in [Sessions -> Nat]
      BY DEF TypeOK, Data
    <3> QED
      BY <3>1, <3>2
  <2>2. disposed \subseteq Sessions
    BY DEF TypeOK, Data
  <2> QED
    BY <1>7, <2>1, <2>2 DEF Connect, Held, Referred
<1>8. ASSUME NEW a \in Tasks, Sleep(a)
      PROVE  Held'
  BY <1>8, HeldFrame DEF Sleep, objects, events, owners, flags
<1>9. ASSUME NEW a \in Tasks, UseDisposed(a)
      PROVE  Held'
  BY <1>9, HeldFrame DEF UseDisposed, objects, events, owners, flags
<1>10. ASSUME NEW a \in Actors, Disconnect(a)
      PROVE  Held'
  BY <1>10, HeldFrame DEF Disconnect, objects, events, owners, flags
<1>11. ASSUME NEW a \in Actors, DisconnectOwner(a)
      PROVE  Held'
  BY <1>11, HeldFrame DEF DisconnectOwner, objects, events, owners, flags
<1>12. ASSUME NEW a \in Actors, DisconnectEx(a)
      PROVE  Held'
  BY <1>12, HeldFrame DEF DisconnectEx, objects, events, owners, flags
<1>13. ASSUME NEW a \in Actors, DisconnectExFail(a)
      PROVE  Held'
  <2>1. /\ UNCHANGED <<disposed, recvOwner, sendOwner, leaked, connecting, cur>>
        /\ discOwner' = discOwner \ {cur[a]} /\ dead \subseteq dead'
        /\ a \in Tasks /\ cur[a] \in disposed \ sendOwner /\ Unheld(cur[a], a)
             => cur[a] \in dead'
    BY <1>13 DEF DisconnectExFail, Drop, events, flags
  <2>2. cur[a] \in Sessions /\ connecting[cur[a]] \in Nat
    BY <1>13, CallerFacts DEF DisconnectExFail, At, TypeOK, Data
  <2>3. cur[a] \in disposed' \ dead' => Referred(cur[a])'
    <3>1. CASE a = UI
      BY <1>13, <2>1, <3>1 DEF DisconnectExFail, At, Listed
    <3>2. CASE a \in Threads
      BY <2>1, <3>2 DEF Referred
    <3>3. CASE a \in Tasks
      BY <2>1, <2>2, <3>3 DEF Unheld, Referred
    <3> QED
      BY <3>1, <3>2, <3>3
  <2>4. \A x \in disposed \ dead : x # cur[a] => Referred(x)'
    BY <2>1 DEF Held, Referred
  <2> QED
    BY <2>1, <2>3, <2>4 DEF Held
<1>14. ASSUME NEW th \in Threads, Loop(th)
      PROVE  Held'
  BY <1>14, HeldFrame DEF Loop, objects, events, owners, flags
<1>15. ASSUME NEW th \in Threads, Timeout(th)
      PROVE  Held'
  BY <1>15, HeldFrame DEF Timeout, objects, events, owners, flags
<1>16. ASSUME NEW th \in Threads, NEW s \in Sessions, DequeueConnect(th, s)
      PROVE  Held'
  <2>1. /\ UNCHANGED <<disposed, dead, recvOwner, sendOwner, discOwner, leaked>>
        /\ cur' = [cur EXCEPT ![th] = s] /\ cur[th] = None
        /\ connecting' = [connecting EXCEPT ![s] = @ - 1]
    BY <1>16 DEF DequeueConnect, At, Take, objects, owners, flags, TypeOK, Dealing
  <2>2. /\ cur'[th] = s /\ \A b \in Threads \ {th} : cur'[b] = cur[b]
        /\ \A x \in Sessions \ {s} : connecting'[x] = connecting[x]
    BY <2>1 DEF TypeOK, Dealing, Data
  <2>3. disposed \subseteq Sessions /\ None \notin Sessions
    BY NoneAssumption DEF TypeOK, Data
  <2> QED
    BY <2>1, <2>2, <2>3 DEF Held, Referred
<1>17. ASSUME NEW th \in Threads, NEW s \in Sessions, DequeueRecv(th, s)
      PROVE  Held'
  <2>1. \A b \in Threads : cur'[b] = cur[b] \/ cur[b] = None
    BY <1>17 DEF DequeueRecv, At, Take, TypeOK, Dealing
  <2> QED
    BY <1>17, <2>1, HeldFrame DEF DequeueRecv, objects, owners, flags
<1>18. ASSUME NEW th \in Threads, NEW s \in Sessions, DequeueDisconnect(th, s)
      PROVE  Held'
  <2>1. \A b \in Threads : cur'[b] = cur[b] \/ cur[b] = None
    BY <1>18 DEF DequeueDisconnect, At, Take, TypeOK, Dealing
  <2> QED
    BY <1>18, <2>1, HeldFrame DEF DequeueDisconnect, objects, owners, flags
<1>19. ASSUME NEW th \in Threads, ProcessConnect(th)
      PROVE  Held'
  BY <1>19, HeldFrame DEF ProcessConnect, objects, events, owners, flags
<1>20. ASSUME NEW th \in Threads, RegisterRecv(th)
      PROVE  Held'
  BY <1>20, HeldFrame DEF RegisterRecv, objects, events, owners, flags
<1>21. ASSUME NEW th \in Threads, PostRecv(th)
      PROVE  Held'
  BY <1>21, HeldFrame DEF PostRecv, objects, events, owners, flags
<1>22. ASSUME NEW th \in Threads, ProcessRecv(th)
      PROVE  Held'
  <2>1. /\ UNCHANGED <<disposed, dead, sendOwner, discOwner, leaked, connecting, cur>>
        /\ recvOwner' = recvOwner \ {cur[th]}
    BY <1>22 DEF ProcessRecv, objects, events, flags
  <2> QED
    BY <2>1 DEF Held, Referred
<1>23. ASSUME NEW th \in Threads, ProcessDisconnect(th)
      PROVE  Held'
  BY <1>23, HeldFrame DEF ProcessDisconnect, objects, events, owners, flags
<1>24. ASSUME NEW th \in Threads, ResetDisconnectOwner(th)
      PROVE  Held'
  <2>1. /\ UNCHANGED <<disposed, dead, recvOwner, sendOwner, leaked, connecting, cur>>
        /\ discOwner' = discOwner \ {cur[th]}
    BY <1>24 DEF ResetDisconnectOwner, objects, events, flags
  <2> QED
    BY <2>1 DEF Held, Referred
<1>25. ASSUME NEW th \in Threads, Release(th)
      PROVE  Held'
  <2>1. /\ UNCHANGED <<disposed, recvOwner, sendOwner, discOwner, leaked, connecting>>
        /\ cur' = [cur EXCEPT ![th] = None] /\ dead \subseteq dead'
        /\ (/\ cur[th] \in disposed \ (discOwner \cup sendOwner)
            /\ Unheld(cur[th], th)) => cur[th] \in dead'
    BY <1>25 DEF Release, Drop, events, owners, flags
  <2>2. /\ cur[th] \in Sessions /\ connecting[cur[th]] \in Nat
        /\ \A b \in Threads \ {th} : cur'[b] = cur[b]
    BY <1>25, <2>1, DealsWithMade DEF Release, At, TypeOK, Data, Dealing
  <2>3. cur[th] \in disposed \ dead'
                  => \/ cur[th] \in recvOwner \cup sendOwner \cup discOwner \cup leaked
                     \/ connecting[cur[th]] > 0
             \/ \E b \in Threads \ {th} : cur[b] = cur[th]
    BY <2>1, <2>2 DEF Unheld
  <2>4. \A x \in disposed \ dead : x # cur[th] =>
          \/ x \in recvOwner \cup sendOwner \cup discOwner \cup leaked \/ connecting[x] > 0
          \/ \E b \in Threads \ {th} : cur[b] = x
    BY DEF Held, Referred
  <2> QED
    BY <2>1, <2>2, <2>3, <2>4 DEF Held, Referred
<1>26. CASE UNCHANGED vars
  BY <1>26, HeldFrame DEF vars, objects, events, owners, flags
<1>27. ASSUME NEW t \in Tests, FaultTest(t)
      PROVE  Held'
  BY <1>27, HeldFrame DEF FaultTest, objects, events, owners
<1>28. ASSUME NEW a \in Tasks, UseFreed(a)
      PROVE  Held'
  BY <1>28, HeldFrame DEF UseFreed, objects, events, owners
<1>29. ASSUME NEW a \in Tasks, Send(a)
      PROVE  Held'
  BY <1>29, HeldFrame DEF Send, objects, events, owners
<1>30. ASSUME NEW a \in Threads \cup Tasks, RegisterSend(a)
      PROVE  Held'
  BY <1>30, HeldFrame DEF RegisterSend, objects, events, owners
<1>31. ASSUME NEW a \in Threads \cup Tasks, PostSend(a)
      PROVE  Held'
  BY <1>31, HeldFrame DEF PostSend, objects, events, owners
<1>32. ASSUME NEW a \in Threads \cup Tasks, PostSendFail(a)
      PROVE  Held'
  <2>1. /\ UNCHANGED <<disposed, recvOwner, discOwner, leaked, connecting, cur>>
        /\ sendOwner' = sendOwner \ {cur[a]} /\ dead \subseteq dead'
        /\ a \in Tasks /\ cur[a] \in disposed \ discOwner /\ Unheld(cur[a], a)
             => cur[a] \in dead'
    BY <1>32 DEF PostSendFail, Drop, events
  <2>2. cur[a] \in Sessions /\ connecting[cur[a]] \in Nat
    BY <1>32, SenderFacts DEF PostSendFail, At, TypeOK, Data
  <2>3. cur[a] \in disposed' \ dead' => Referred(cur[a])'
    <3>1. CASE a \in Threads
      BY <2>1, <3>1 DEF Referred
    <3>2. CASE a \in Tasks
      BY <2>1, <2>2, <3>2 DEF Unheld, Referred
    <3> QED
      BY <3>1, <3>2
  <2>4. \A x \in disposed \ dead : x # cur[a] => Referred(x)'
    BY <2>1 DEF Held, Referred
  <2> QED
    BY <2>1, <2>3, <2>4 DEF Held
<1>33. ASSUME NEW a \in Threads \cup Tasks, ClearSend(a)
      PROVE  Held'
  BY <1>33, HeldFrame DEF ClearSend, objects, events, owners
<1>34. ASSUME NEW th \in Threads, NEW s \in Sessions, DequeueSend(th, s)
      PROVE  Held'
  <2>1. \A b \in Threads : cur'[b] = cur[b] \/ cur[b] = None
    BY <1>34 DEF DequeueSend, At, Take, TypeOK, Dealing
  <2> QED
    BY <1>34, <2>1, HeldFrame DEF DequeueSend, objects, owners, flags
<1>35. ASSUME NEW th \in Threads, ProcessSend(th)
      PROVE  Held'
  <2>1. /\ UNCHANGED <<disposed, dead, recvOwner, discOwner, leaked, connecting, cur>>
        /\ sendOwner' = sendOwner \ {cur[th]}
    BY <1>35 DEF ProcessSend, objects, events
  <2> QED
    BY <2>1 DEF Held, Referred
<1> QED
  BY <1>1, <1>2, <1>3, <1>4, <1>5, <1>6, <1>7, <1>8, <1>9, <1>10, <1>11, <1>12, <1>13,
     <1>14, <1>15, <1>16, <1>17, <1>18, <1>19, <1>20, <1>21, <1>22, <1>23, <1>24, <1>25,
     <1>26, <1>27, <1>28, <1>29, <1>30, <1>31, <1>32, <1>33, <1>34, <1>35
     DEF Next, InDisconnectAll, Calling, Sending, TaskStep, ThreadStep

\* Nobody of a test that begins was there before.
LEMMA NothingBegun ==
  ASSUME TypeOK, NEW new \in SUBSET Sessions, StartTest(new)
  PROVE  \A a \in ({tests'} \X Workers) \cup ({tests'} \X sessions') : pc[a] = "none"
<1>1. /\ tests' = tests + 1 /\ {tests'} \X Workers \subseteq Threads
      /\ {tests'} \X sessions' \subseteq Tasks
  BY StartFacts
<1>2. tests \in Nat
  <2>1. tests \in 0 .. MaxTests /\ MaxTests \in Nat
    BY TestsAssumption DEF TypeOK, Data
  <2> QED
    BY <2>1
<1>3. \A a \in ({tests'} \X Workers) \cup ({tests'} \X sessions') :
        a \in Threads \cup Tasks /\ a[1] > tests
  BY <1>1, <1>2
<1> QED
  BY <1>3 DEF TypeOK, Dealing

\* Nobody registers, posts or takes a receive, or leaves one.
LEMMA RecvOwnedFrame ==
  ASSUME RecvOwned, recvOwner' = recvOwner, UNCHANGED <<receiving, refused>>,
         \A th \in Threads :
           pc[th] \in {"recv", "procRecv"} => pc'[th] = pc[th] /\ cur'[th] = cur[th]
  PROVE  RecvOwned'
BY DEF RecvOwned

\* A receive that is registered is posted or refused; one that completes is processed,
\* which resets the owner.
LEMMA RecvOwnedStep ==
  ASSUME TypeOK, RecvOwned, [Next]_vars
  PROVE  RecvOwned'
<1> USE ActorFacts
<1>1. ASSUME NEW new \in SUBSET Sessions, StartTest(new)
      PROVE  RecvOwned'
  <2>1. \A th \in Threads :
          pc[th] \in {"recv", "procRecv"} => pc'[th] = pc[th] /\ cur'[th] = cur[th]
    <3>1. \A th \in {tests'} \X Workers : pc[th] = "none"
      BY <1>1, NothingBegun, StartFacts
    <3> QED
      BY <1>1, <3>1, StartFacts
  <2> QED
    BY <1>1, <2>1, StartFacts, RecvOwnedFrame DEF events, owners, flags
<1>2. ASSUME NEW t \in Tests, FinishTest(t)
      PROVE  RecvOwned'
  <2>1. \A b \in Actors : b # UI => pc'[b] = pc[b] /\ cur'[b] = cur[b]
    BY <1>2 DEF FinishTest, Go, TypeOK, Places, Dealing
  <2> QED
    BY <1>2, <2>1, RecvOwnedFrame DEF FinishTest, At, events, owners, flags, history
<1>3. ASSUME Join
      PROVE  RecvOwned'
  <2>1. \A b \in Actors : b # UI => pc'[b] = pc[b] /\ cur'[b] = cur[b]
    BY <1>3 DEF Join, Go, TypeOK, Places, Dealing
  <2> QED
    BY <1>3, <2>1, RecvOwnedFrame DEF Join, At, events, owners, flags, history
<1>4. ASSUME NEW s \in Sessions, NextSession(s)
      PROVE  RecvOwned'
  <2>1. \A b \in Actors : b # UI => pc'[b] = pc[b] /\ cur'[b] = cur[b]
    BY <1>4 DEF NextSession, Go, TypeOK, Places, Dealing
  <2> QED
    BY <1>4, <2>1, RecvOwnedFrame DEF NextSession, At, events, owners, flags, history
<1>5. ASSUME Dispose
      PROVE  RecvOwned'
  <2>1. \A b \in Actors : b # UI => pc'[b] = pc[b] /\ cur'[b] = cur[b]
    BY <1>5 DEF Dispose, Go, TypeOK, Places, Dealing
  <2> QED
    BY <1>5, <2>1, RecvOwnedFrame DEF Dispose, At, events, owners, flags, history
<1>6. ASSUME ClearSessions
      PROVE  RecvOwned'
  <2>1. \A b \in Actors : b # UI => pc'[b] = pc[b] /\ cur'[b] = cur[b]
    BY <1>6 DEF ClearSessions, Go, TypeOK, Places, Dealing
  <2> QED
    BY <1>6, <2>1, RecvOwnedFrame DEF ClearSessions, At, events, owners, flags, history
<1>7. ASSUME NEW a \in Tasks, Connect(a)
      PROVE  RecvOwned'
  <2>1. \A b \in Actors : b # a => pc'[b] = pc[b] /\ cur'[b] = cur[b]
    BY <1>7 DEF Connect, Go, TypeOK, Places, Dealing
  <2> QED
    BY <1>7, <2>1, RecvOwnedFrame DEF Connect, At, events, owners, flags, history
<1>8. ASSUME NEW a \in Tasks, Sleep(a)
      PROVE  RecvOwned'
  <2>1. \A b \in Actors : b # a => pc'[b] = pc[b] /\ cur'[b] = cur[b]
    BY <1>8 DEF Sleep, Go, TypeOK, Places, Dealing
  <2> QED
    BY <1>8, <2>1, RecvOwnedFrame DEF Sleep, At, events, owners, flags, history
<1>9. ASSUME NEW a \in Tasks, UseDisposed(a)
      PROVE  RecvOwned'
  <2>1. \A b \in Actors : b # a => pc'[b] = pc[b] /\ cur'[b] = cur[b]
    BY <1>9 DEF UseDisposed, Go, TypeOK, Places, Dealing
  <2> QED
    BY <1>9, <2>1, RecvOwnedFrame DEF UseDisposed, events, owners, history
<1>10. ASSUME NEW a \in Actors, Disconnect(a)
      PROVE  RecvOwned'
  <2>1. \A b \in Actors : b # a => pc'[b] = pc[b] /\ cur'[b] = cur[b]
    BY <1>10 DEF Disconnect, Go, TypeOK, Places, Dealing
  <2> QED
    BY <1>10, <2>1, RecvOwnedFrame DEF Disconnect, At, events, owners, flags, history
<1>11. ASSUME NEW a \in Actors, DisconnectOwner(a)
      PROVE  RecvOwned'
  <2>1. \A b \in Actors : b # a => pc'[b] = pc[b] /\ cur'[b] = cur[b]
    BY <1>11 DEF DisconnectOwner, Go, TypeOK, Places, Dealing
  <2> QED
    BY <1>11, <2>1, RecvOwnedFrame DEF DisconnectOwner, At, events, owners, flags, history
<1>12. ASSUME NEW a \in Actors, DisconnectEx(a)
      PROVE  RecvOwned'
  <2>1. \A b \in Actors : b # a => pc'[b] = pc[b] /\ cur'[b] = cur[b]
    BY <1>12 DEF DisconnectEx, Go, Return, TypeOK, Places, Dealing
  <2> QED
    BY <1>12, <2>1, RecvOwnedFrame DEF DisconnectEx, At, events, owners, flags, history
<1>13. ASSUME NEW a \in Actors, DisconnectExFail(a)
      PROVE  RecvOwned'
  <2>1. \A b \in Actors : b # a => pc'[b] = pc[b] /\ cur'[b] = cur[b]
    BY <1>13 DEF DisconnectExFail, Go, Return, TypeOK, Places, Dealing
  <2> QED
    BY <1>13, <2>1, RecvOwnedFrame DEF DisconnectExFail, At, events, owners, flags, history
<1>14. ASSUME NEW th \in Threads, Loop(th)
      PROVE  RecvOwned'
  <2>1. \A b \in Actors : b # th => pc'[b] = pc[b] /\ cur'[b] = cur[b]
    BY <1>14 DEF Loop, Go, TypeOK, Places, Dealing
  <2> QED
    BY <1>14, <2>1, RecvOwnedFrame DEF Loop, At, events, owners, flags, history
<1>15. ASSUME NEW th \in Threads, Timeout(th)
      PROVE  RecvOwned'
  <2>1. \A b \in Actors : b # th => pc'[b] = pc[b] /\ cur'[b] = cur[b]
    BY <1>15 DEF Timeout, Go, TypeOK, Places, Dealing
  <2> QED
    BY <1>15, <2>1, RecvOwnedFrame DEF Timeout, At, events, owners, flags, history
<1>16. ASSUME NEW th \in Threads, NEW s \in Sessions, DequeueConnect(th, s)
      PROVE  RecvOwned'
  <2>1. CASE UNCHANGED <<pc, cur>>
    BY <1>16, <2>1, RecvOwnedFrame DEF DequeueConnect, events, owners, flags, history
  <2>2. CASE pc[th] = "wait" /\ \E there \in {"procConnect", "procRecv", "procDisc"} :
               Go(th, there) /\ cur' = [cur EXCEPT ![th] = s]
    <3>1. \A b \in Actors : b # th => pc'[b] = pc[b] /\ cur'[b] = cur[b]
      BY <2>2 DEF Go, TypeOK, Places, Dealing
    <3> QED
      BY <1>16, <2>2, <3>1, RecvOwnedFrame DEF DequeueConnect, events, owners, flags, history
  <2> QED
    BY <1>16, <2>1, <2>2 DEF DequeueConnect, At, Take
<1>17. ASSUME NEW th \in Threads, NEW s \in Sessions, DequeueRecv(th, s)
      PROVE  RecvOwned'
  <2>1. /\ UNCHANGED <<recvOwner, refused>> /\ pc[th] = "wait"
        /\ receiving' = [receiving EXCEPT ![s] = @ - 1]
        /\ \/ s \notin recvOwner /\ UNCHANGED <<pc, cur>>
           \/ Go(th, "procRecv") /\ cur' = [cur EXCEPT ![th] = s]
    BY <1>17 DEF DequeueRecv, At, Take, owners, flags, history
  <2>2. \A b \in Threads : b # th => pc'[b] = pc[b] /\ cur'[b] = cur[b]
    BY <2>1 DEF Go, TypeOK, Places, Dealing
  <2>3. s \in recvOwner => pc'[th] = "procRecv" /\ cur'[th] = s
    BY <2>1 DEF Go, TypeOK, Places, Dealing
  <2>4. recvOwner \subseteq Sessions /\ \A x \in Sessions \ {s} : receiving'[x] = receiving[x]
    <3>1. recvOwner \subseteq Sessions /\ receiving \in [Sessions -> Nat]
      BY DEF TypeOK, Data
    <3> QED
      BY <2>1, <3>1
  <2> QED
    BY <2>1, <2>2, <2>3, <2>4 DEF RecvOwned
<1>18. ASSUME NEW th \in Threads, NEW s \in Sessions, DequeueDisconnect(th, s)
      PROVE  RecvOwned'
  <2>1. CASE UNCHANGED <<pc, cur>>
    BY <1>18, <2>1, RecvOwnedFrame DEF DequeueDisconnect, events, owners, flags, history
  <2>2. CASE pc[th] = "wait" /\ \E there \in {"procConnect", "procRecv", "procDisc"} :
               Go(th, there) /\ cur' = [cur EXCEPT ![th] = s]
    <3>1. \A b \in Actors : b # th => pc'[b] = pc[b] /\ cur'[b] = cur[b]
      BY <2>2 DEF Go, TypeOK, Places, Dealing
    <3> QED
      BY <1>18, <2>2, <3>1, RecvOwnedFrame DEF DequeueDisconnect, events, owners, flags, history
  <2> QED
    BY <1>18, <2>1, <2>2 DEF DequeueDisconnect, At, Take
<1>19. ASSUME NEW th \in Threads, ProcessConnect(th)
      PROVE  RecvOwned'
  <2>1. \A b \in Actors : b # th => pc'[b] = pc[b] /\ cur'[b] = cur[b]
    BY <1>19 DEF ProcessConnect, Callback, Go, TypeOK, Places, Dealing
  <2> QED
    BY <1>19, <2>1, RecvOwnedFrame DEF ProcessConnect, At, events, owners, history
<1>20. ASSUME NEW th \in Threads, RegisterRecv(th)
      PROVE  RecvOwned'
  <2>1. /\ pc[th] = "register" /\ cur' = cur /\ UNCHANGED <<receiving, refused>>
        /\ \A b \in Threads : b # th => pc'[b] = pc[b]
        /\ \/ recvOwner' = recvOwner
           \/ recvOwner' = recvOwner \cup {cur[th]} /\ pc'[th] = "recv"
    <3>1. /\ pc[th] = "register" /\ cur' = cur /\ UNCHANGED <<receiving, refused>>
          /\ \/ recvOwner' = recvOwner /\ Go(th, "release")
             \/ recvOwner' = recvOwner \cup {cur[th]} /\ Go(th, "recv")
      BY <1>20 DEF RegisterRecv, At, events, flags, history
    <3>2. \A b \in Threads : b # th => pc'[b] = pc[b]
      BY <3>1 DEF Go, TypeOK, Places
    <3>3. Go(th, "recv") => pc'[th] = "recv"
      BY DEF Go, TypeOK, Places
    <3> QED
      BY <3>1, <3>2, <3>3
  <2> QED
    BY <2>1 DEF RecvOwned
<1>21. ASSUME NEW th \in Threads, PostRecv(th)
      PROVE  RecvOwned'
  <2>1. /\ pc[th] = "recv" /\ cur' = cur /\ recvOwner' = recvOwner
        /\ \A b \in Threads : b # th => pc'[b] = pc[b]
    BY <1>21 DEF PostRecv, At, Go, owners, flags, TypeOK, Places
  <2>2. cur[th] \in Sessions /\ receiving \in [Sessions -> Nat] /\ recvOwner \subseteq Sessions
    BY <2>1, DealsWithMade DEF TypeOK, Data
  <2>3. \/ receiving' = [receiving EXCEPT ![cur[th]] = @ + 1] /\ refused' = refused
        \/ refused' = refused \cup {cur[th]} /\ receiving' = receiving
    BY <1>21 DEF PostRecv
  <2>4. /\ refused \subseteq refused'
        /\ \A x \in Sessions : receiving[x] > 0 => receiving'[x] > 0
        /\ cur[th] \in refused' \/ receiving'[cur[th]] > 0
    BY <2>2, <2>3
  <2> QED
    BY <2>1, <2>2, <2>4 DEF RecvOwned
<1>22. ASSUME NEW th \in Threads, ProcessRecv(th)
      PROVE  RecvOwned'
  <2>1. /\ cur' = cur /\ recvOwner' = recvOwner \ {cur[th]} /\ UNCHANGED <<receiving, refused>>
        /\ \A b \in Threads : b # th => pc'[b] = pc[b]
    BY <1>22 DEF ProcessRecv, Go, events, flags, history, TypeOK, Places
  <2> QED
    BY <2>1 DEF RecvOwned
<1>23. ASSUME NEW th \in Threads, ProcessDisconnect(th)
      PROVE  RecvOwned'
  <2>1. \A b \in Actors : b # th => pc'[b] = pc[b] /\ cur'[b] = cur[b]
    BY <1>23 DEF ProcessDisconnect, Go, TypeOK, Places, Dealing
  <2> QED
    BY <1>23, <2>1, RecvOwnedFrame DEF ProcessDisconnect, At, events, owners, flags, history
<1>24. ASSUME NEW th \in Threads, ResetDisconnectOwner(th)
      PROVE  RecvOwned'
  <2>1. \A b \in Actors : b # th => pc'[b] = pc[b] /\ cur'[b] = cur[b]
    BY <1>24 DEF ResetDisconnectOwner, Callback, Go, TypeOK, Places, Dealing
  <2> QED
    BY <1>24, <2>1, RecvOwnedFrame DEF ResetDisconnectOwner, At, events, owners, history
<1>25. ASSUME NEW th \in Threads, Release(th)
      PROVE  RecvOwned'
  <2>1. \A b \in Actors : b # th => pc'[b] = pc[b] /\ cur'[b] = cur[b]
    BY <1>25 DEF Release, Go, TypeOK, Places, Dealing
  <2> QED
    BY <1>25, <2>1, RecvOwnedFrame DEF Release, At, events, owners, flags, history
<1>26. CASE UNCHANGED vars
  BY <1>26, RecvOwnedFrame DEF vars, events, owners, flags, history
<1>27. ASSUME NEW t \in Tests, FaultTest(t)
      PROVE  RecvOwned'
  BY <1>27, RecvOwnedFrame DEF FaultTest, events, owners, history
<1>28. ASSUME NEW a \in Tasks, UseFreed(a)
      PROVE  RecvOwned'
  <2>1. \A b \in Actors : b # a => pc'[b] = pc[b] /\ cur'[b] = cur[b]
    BY <1>28 DEF UseFreed, Go, TypeOK, Places, Dealing
  <2> QED
    BY <1>28, <2>1, RecvOwnedFrame DEF UseFreed, events, owners, history
<1>29. ASSUME NEW a \in Tasks, Send(a)
      PROVE  RecvOwned'
  <2>1. \A b \in Actors : b # a => pc'[b] = pc[b] /\ cur'[b] = cur[b]
    BY <1>29 DEF Send, Go, TypeOK, Places, Dealing
  <2> QED
    BY <1>29, <2>1, RecvOwnedFrame DEF Send, events, owners, history
<1>30. ASSUME NEW a \in Threads \cup Tasks, RegisterSend(a)
      PROVE  RecvOwned'
  <2>1. \A b \in Actors : b # a => pc'[b] = pc[b] /\ cur'[b] = cur[b]
    BY <1>30 DEF RegisterSend, Sent, Go, TypeOK, Places, Dealing
  <2> QED
    BY <1>30, <2>1, RecvOwnedFrame DEF RegisterSend, At, events, owners, history
<1>31. ASSUME NEW a \in Threads \cup Tasks, PostSend(a)
      PROVE  RecvOwned'
  <2>1. \A b \in Actors : b # a => pc'[b] = pc[b] /\ cur'[b] = cur[b]
    BY <1>31 DEF PostSend, Sent, Go, TypeOK, Places, Dealing
  <2> QED
    BY <1>31, <2>1, RecvOwnedFrame DEF PostSend, At, events, owners, history
<1>32. ASSUME NEW a \in Threads \cup Tasks, PostSendFail(a)
      PROVE  RecvOwned'
  <2>1. \A b \in Actors : b # a => pc'[b] = pc[b] /\ cur'[b] = cur[b]
    BY <1>32 DEF PostSendFail, Sent, Go, TypeOK, Places, Dealing
  <2> QED
    BY <1>32, <2>1, RecvOwnedFrame DEF PostSendFail, At, events, owners, history
<1>33. ASSUME NEW a \in Threads \cup Tasks, ClearSend(a)
      PROVE  RecvOwned'
  <2>1. \A b \in Actors : b # a => pc'[b] = pc[b] /\ cur'[b] = cur[b]
    BY <1>33 DEF ClearSend, Sent, Go, TypeOK, Places, Dealing
  <2> QED
    BY <1>33, <2>1, RecvOwnedFrame DEF ClearSend, At, events, owners, history
<1>34. ASSUME NEW th \in Threads, NEW s \in Sessions, DequeueSend(th, s)
      PROVE  RecvOwned'
  <2>1. CASE UNCHANGED <<pc, cur>>
    BY <1>34, <2>1, RecvOwnedFrame DEF DequeueSend, owners, history
  <2>2. CASE pc[th] = "wait" /\ Go(th, "procSend") /\ cur' = [cur EXCEPT ![th] = s]
    <3>1. \A b \in Actors : b # th => pc'[b] = pc[b] /\ cur'[b] = cur[b]
      BY <2>2 DEF Go, TypeOK, Places, Dealing
    <3> QED
      BY <1>34, <2>2, <3>1, RecvOwnedFrame DEF DequeueSend, owners, history
  <2> QED
    BY <1>34, <2>1, <2>2 DEF DequeueSend, At, Take
<1>35. ASSUME NEW th \in Threads, ProcessSend(th)
      PROVE  RecvOwned'
  <2>1. \A b \in Actors : b # th => pc'[b] = pc[b] /\ cur'[b] = cur[b]
    BY <1>35 DEF ProcessSend, Go, TypeOK, Places, Dealing
  <2> QED
    BY <1>35, <2>1, RecvOwnedFrame DEF ProcessSend, At, events, history
<1> QED
  BY <1>1, <1>2, <1>3, <1>4, <1>5, <1>6, <1>7, <1>8, <1>9, <1>10, <1>11, <1>12, <1>13,
     <1>14, <1>15, <1>16, <1>17, <1>18, <1>19, <1>20, <1>21, <1>22, <1>23, <1>24, <1>25,
     <1>26, <1>27, <1>28, <1>29, <1>30, <1>31, <1>32, <1>33, <1>34, <1>35
     DEF Next, InDisconnectAll, Calling, Sending, TaskStep, ThreadStep

\* A session that was destroyed stays so.
LEMMA DeadGrows ==
  ASSUME [Next]_vars
  PROVE  dead \subseteq dead'
<1>1. \A s, last : Drop(s, last) => dead \subseteq dead'
  BY DEF Drop
<1>2. CASE \/ \E new \in SUBSET Sessions : StartTest(new)
           \/ \E t \in Tests : FinishTest(t) \/ FaultTest(t)
           \/ Join \/ ClearSessions \/ \E s \in Sessions : NextSession(s)
  BY <1>2 DEF StartTest, FinishTest, FaultTest, Join, ClearSessions, NextSession, objects
<1>3. CASE \E a \in Actors : Calling(a)
  BY <1>1, <1>3 DEF Calling, Disconnect, DisconnectOwner, DisconnectEx, DisconnectExFail,
     objects
<1>4. CASE \E a \in Threads \cup Tasks : Sending(a)
  BY <1>1, <1>4 DEF Sending, RegisterSend, PostSend, PostSendFail, ClearSend, objects
<1>5. CASE \E a \in Tasks : Connect(a) \/ Send(a) \/ Sleep(a) \/ UseDisposed(a) \/ UseFreed(a)
  BY <1>5 DEF Connect, Send, Sleep, UseDisposed, UseFreed, objects
<1>6. CASE \E th \in Threads, s \in Sessions :
             \/ DequeueConnect(th, s) \/ DequeueRecv(th, s)
             \/ DequeueSend(th, s) \/ DequeueDisconnect(th, s)
  BY <1>6 DEF DequeueConnect, DequeueRecv, DequeueSend, DequeueDisconnect, objects
<1>7. CASE \E th \in Threads :
             \/ Loop(th) \/ Timeout(th) \/ ProcessConnect(th) \/ RegisterRecv(th)
             \/ PostRecv(th) \/ ProcessRecv(th) \/ ProcessSend(th)
             \/ ProcessDisconnect(th) \/ ResetDisconnectOwner(th)
  BY <1>7 DEF Loop, Timeout, ProcessConnect, RegisterRecv, PostRecv, ProcessRecv, ProcessSend,
     ProcessDisconnect, ResetDisconnectOwner, objects
<1>8. CASE Dispose \/ \E th \in Threads : Release(th)
  BY <1>1, <1>8 DEF Dispose, Release
<1>9. CASE UNCHANGED vars
  BY <1>9 DEF vars, objects
<1> QED
  BY <1>2, <1>3, <1>4, <1>5, <1>6, <1>7, <1>8, <1>9, ActorFacts
     DEF Next, InDisconnectAll, TaskStep, ThreadStep

\* Whoever is in a disconnect stays in it.
LEMMA DiscOwnedFrame ==
  ASSUME TypeOK, DiscOwned, discOwner' = discOwner, raced \subseteq raced',
         disconnecting' = disconnecting,
         dead \subseteq dead',
         \A a \in Actors :
           pc[a] \in {"discOwner", "discEx", "procDisc", "discReset"} /\ cur[a] \notin dead
             => pc'[a] \in {"discOwner", "discEx", "procDisc", "discReset"} /\ cur'[a] = cur[a]
  PROVE  DiscOwned'
<1>1. \A a \in Actors, s \in Sessions \ dead : InDisc(a, s) => InDisc(a, s)'
  BY DEF InDisc
<1> QED
  BY <1>1 DEF DiscOwned, TypeOK, Data

\* A Disconnect is accepted or refused; its completion is processed, which resets the
\* owner.
LEMMA DiscOwnedStep ==
  ASSUME TypeOK, DiscOwned, [Next]_vars
  PROVE  DiscOwned'
<1>0. dead \subseteq dead'
  BY DeadGrows
<1> USE ActorFacts, <1>0
<1>1. ASSUME NEW new \in SUBSET Sessions, StartTest(new)
      PROVE  DiscOwned'
  <2>1. \A a \in Actors :
          pc[a] \in {"discOwner", "discEx", "procDisc", "discReset"}
            => pc'[a] = pc[a] /\ cur'[a] = cur[a]
    BY <1>1, StartFacts, NothingBegun
  <2> QED
    BY <1>1, <2>1, StartFacts, DiscOwnedFrame DEF events, owners, flags
<1>2. ASSUME NEW t \in Tests, FinishTest(t)
      PROVE  DiscOwned'
  <2>1. \A b \in Actors : b # UI => pc'[b] = pc[b] /\ cur'[b] = cur[b]
    BY <1>2 DEF FinishTest, Go, TypeOK, Places, Dealing
  <2> QED
    BY <1>2, <2>1, DiscOwnedFrame DEF FinishTest, At, events, owners, flags, history
<1>3. ASSUME Join
      PROVE  DiscOwned'
  <2>1. \A b \in Actors : b # UI => pc'[b] = pc[b] /\ cur'[b] = cur[b]
    BY <1>3 DEF Join, Go, TypeOK, Places, Dealing
  <2> QED
    BY <1>3, <2>1, DiscOwnedFrame DEF Join, At, events, owners, flags, history
<1>4. ASSUME NEW s \in Sessions, NextSession(s)
      PROVE  DiscOwned'
  <2>1. \A b \in Actors : b # UI => pc'[b] = pc[b] /\ cur'[b] = cur[b]
    BY <1>4 DEF NextSession, Go, TypeOK, Places, Dealing
  <2> QED
    BY <1>4, <2>1, DiscOwnedFrame DEF NextSession, At, events, owners, flags, history
<1>5. ASSUME Dispose
      PROVE  DiscOwned'
  <2>1. \A b \in Actors : b # UI => pc'[b] = pc[b] /\ cur'[b] = cur[b]
    BY <1>5 DEF Dispose, Go, TypeOK, Places, Dealing
  <2> QED
    BY <1>5, <2>1, DiscOwnedFrame DEF Dispose, At, events, owners, flags, history
<1>6. ASSUME ClearSessions
      PROVE  DiscOwned'
  <2>1. \A b \in Actors : b # UI => pc'[b] = pc[b] /\ cur'[b] = cur[b]
    BY <1>6 DEF ClearSessions, Go, TypeOK, Places, Dealing
  <2> QED
    BY <1>6, <2>1, DiscOwnedFrame DEF ClearSessions, At, events, owners, flags, history
<1>7. ASSUME NEW a \in Tasks, Connect(a)
      PROVE  DiscOwned'
  <2>1. \A b \in Actors : b # a => pc'[b] = pc[b] /\ cur'[b] = cur[b]
    BY <1>7 DEF Connect, Go, TypeOK, Places, Dealing
  <2> QED
    BY <1>7, <2>1, DiscOwnedFrame DEF Connect, At, events, owners, flags, history
<1>8. ASSUME NEW a \in Tasks, Sleep(a)
      PROVE  DiscOwned'
  <2>1. \A b \in Actors : b # a => pc'[b] = pc[b] /\ cur'[b] = cur[b]
    BY <1>8 DEF Sleep, Go, TypeOK, Places, Dealing
  <2> QED
    BY <1>8, <2>1, DiscOwnedFrame DEF Sleep, At, events, owners, flags, history
<1>9. ASSUME NEW a \in Tasks, UseDisposed(a)
      PROVE  DiscOwned'
  <2>1. \A b \in Actors : b # a => pc'[b] = pc[b] /\ cur'[b] = cur[b]
    BY <1>9 DEF UseDisposed, Go, TypeOK, Places, Dealing
  <2> QED
    BY <1>9, <2>1, DiscOwnedFrame DEF UseDisposed, Calls, events, owners, history
<1>10. ASSUME NEW a \in Actors, Disconnect(a)
      PROVE  DiscOwned'
  <2>1. cur' = cur /\ \A b \in Actors : pc'[b] = IF b = a THEN "discOwner" ELSE pc[b]
    BY <1>10 DEF Disconnect, Go, TypeOK, Places
  <2> QED
    BY <1>10, <2>1, DiscOwnedFrame DEF Disconnect, events, owners, flags, history
<1>11. ASSUME NEW a \in Actors, DisconnectOwner(a)
      PROVE  DiscOwned'
  <2>1. /\ cur' = cur /\ UNCHANGED <<disconnecting, raced>>
        /\ discOwner' = discOwner \cup {cur[a]}
        /\ \A b \in Actors : pc'[b] = IF b = a THEN "discEx" ELSE pc[b]
    BY <1>11 DEF DisconnectOwner, Go, events, flags, history, TypeOK, Places
  <2>2. InDisc(a, cur[a])' /\ \A b \in Actors, x \in Sessions : InDisc(b, x) => InDisc(b, x)'
    BY <2>1 DEF InDisc
  <2>3. discOwner \subseteq Sessions
    BY DEF TypeOK, Data
  <2> QED
    BY <2>1, <2>2, <2>3 DEF DiscOwned, InDisc
<1>12. ASSUME NEW a \in Actors, DisconnectEx(a)
      PROVE  DiscOwned'
  <2>1. /\ cur' = cur /\ UNCHANGED <<discOwner, raced>>
        /\ disconnecting' = [disconnecting EXCEPT ![cur[a]] = @ + 1]
        /\ \A b \in Actors : b # a => pc'[b] = pc[b]
    BY <1>12 DEF DisconnectEx, Go, Return, owners, flags, history, TypeOK, Places
  <2>2. /\ cur[a] \in Sessions /\ disconnecting \in [Sessions -> Nat]
        /\ discOwner \subseteq Sessions
    BY <1>12, CallerFacts DEF DisconnectEx, At, TypeOK, Data
  <2>3. /\ disconnecting'[cur[a]] > 0
        /\ \A x \in Sessions : disconnecting[x] > 0 => disconnecting'[x] > 0
    BY <2>1, <2>2
  <2>4. \A b \in Actors, x \in Sessions : InDisc(b, x) => InDisc(b, x)' \/ x = cur[a]
    BY <2>1 DEF InDisc
  <2> QED
    BY <2>1, <2>2, <2>3, <2>4 DEF DiscOwned
<1>13. ASSUME NEW a \in Actors, DisconnectExFail(a)
      PROVE  DiscOwned'
  <2>1. /\ cur' = cur /\ UNCHANGED <<disconnecting, raced>> /\ discOwner' = discOwner \ {cur[a]}
        /\ \A b \in Actors : b # a => pc'[b] = pc[b]
    BY <1>13 DEF DisconnectExFail, Go, Return, events, flags, history, TypeOK, Places
  <2>2. \A b \in Actors, x \in Sessions : InDisc(b, x) => InDisc(b, x)' \/ x = cur[a]
    BY <2>1 DEF InDisc
  <2>3. discOwner \subseteq Sessions
    BY DEF TypeOK, Data
  <2> QED
    BY <2>1, <2>2, <2>3 DEF DiscOwned
<1>14. ASSUME NEW th \in Threads, Loop(th)
      PROVE  DiscOwned'
  <2>1. \A b \in Actors : b # th => pc'[b] = pc[b] /\ cur'[b] = cur[b]
    BY <1>14 DEF Loop, Go, TypeOK, Places, Dealing
  <2> QED
    BY <1>14, <2>1, DiscOwnedFrame DEF Loop, At, events, owners, flags, history
<1>15. ASSUME NEW th \in Threads, Timeout(th)
      PROVE  DiscOwned'
  <2>1. \A b \in Actors : b # th => pc'[b] = pc[b] /\ cur'[b] = cur[b]
    BY <1>15 DEF Timeout, Go, TypeOK, Places, Dealing
  <2> QED
    BY <1>15, <2>1, DiscOwnedFrame DEF Timeout, At, events, owners, flags, history
<1>16. ASSUME NEW th \in Threads, NEW s \in Sessions, DequeueConnect(th, s)
      PROVE  DiscOwned'
  <2>1. CASE UNCHANGED <<pc, cur>>
    BY <1>16, <2>1, DiscOwnedFrame DEF DequeueConnect, events, owners, flags, history
  <2>2. CASE pc[th] = "wait" /\ \E there \in {"procConnect", "procRecv", "procDisc"} :
               Go(th, there) /\ cur' = [cur EXCEPT ![th] = s]
    <3>1. \A b \in Actors : b # th => pc'[b] = pc[b] /\ cur'[b] = cur[b]
      BY <2>2 DEF Go, TypeOK, Places, Dealing
    <3> QED
      BY <1>16, <2>2, <3>1, DiscOwnedFrame DEF DequeueConnect, events, owners, flags, history
  <2> QED
    BY <1>16, <2>1, <2>2 DEF DequeueConnect, At, Take
<1>17. ASSUME NEW th \in Threads, NEW s \in Sessions, DequeueRecv(th, s)
      PROVE  DiscOwned'
  <2>1. CASE UNCHANGED <<pc, cur>>
    BY <1>17, <2>1, DiscOwnedFrame DEF DequeueRecv, events, owners, flags, history
  <2>2. CASE pc[th] = "wait" /\ \E there \in {"procConnect", "procRecv", "procDisc"} :
               Go(th, there) /\ cur' = [cur EXCEPT ![th] = s]
    <3>1. \A b \in Actors : b # th => pc'[b] = pc[b] /\ cur'[b] = cur[b]
      BY <2>2 DEF Go, TypeOK, Places, Dealing
    <3> QED
      BY <1>17, <2>2, <3>1, DiscOwnedFrame DEF DequeueRecv, events, owners, flags, history
  <2> QED
    BY <1>17, <2>1, <2>2 DEF DequeueRecv, At, Take
<1>18. ASSUME NEW th \in Threads, NEW s \in Sessions, DequeueDisconnect(th, s)
      PROVE  DiscOwned'
  <2>1. /\ UNCHANGED <<discOwner, raced>> /\ pc[th] = "wait"
        /\ disconnecting' = [disconnecting EXCEPT ![s] = @ - 1]
        /\ \/ s \notin discOwner /\ UNCHANGED <<pc, cur>>
           \/ Go(th, "procDisc") /\ cur' = [cur EXCEPT ![th] = s]
    BY <1>18 DEF DequeueDisconnect, At, Take, owners, flags, history
  <2>2. \A b \in Actors, x \in Sessions : InDisc(b, x) => InDisc(b, x)'
    BY <2>1 DEF Go, TypeOK, Places, Dealing, InDisc
  <2>3. s \in discOwner => InDisc(th, s)'
    BY <2>1 DEF Go, TypeOK, Places, Dealing, InDisc
  <2>4. /\ discOwner \subseteq Sessions
        /\ \A x \in Sessions \ {s} : disconnecting'[x] = disconnecting[x]
    <3>1. discOwner \subseteq Sessions /\ disconnecting \in [Sessions -> Nat]
      BY DEF TypeOK, Data
    <3> QED
      BY <2>1, <3>1
  <2> QED
    BY <2>1, <2>2, <2>3, <2>4 DEF DiscOwned
<1>19. ASSUME NEW th \in Threads, ProcessConnect(th)
      PROVE  DiscOwned'
  <2>1. \A b \in Actors : b # th => pc'[b] = pc[b] /\ cur'[b] = cur[b]
    BY <1>19 DEF ProcessConnect, Callback, Go, TypeOK, Places, Dealing
  <2> QED
    BY <1>19, <2>1, DiscOwnedFrame DEF ProcessConnect, At, events, owners, history
<1>20. ASSUME NEW th \in Threads, RegisterRecv(th)
      PROVE  DiscOwned'
  <2>1. \A b \in Actors : b # th => pc'[b] = pc[b] /\ cur'[b] = cur[b]
    BY <1>20 DEF RegisterRecv, Go, TypeOK, Places, Dealing
  <2> QED
    BY <1>20, <2>1, DiscOwnedFrame DEF RegisterRecv, At, events, owners, flags, history
<1>21. ASSUME NEW th \in Threads, PostRecv(th)
      PROVE  DiscOwned'
  <2>1. \A b \in Actors : b # th => pc'[b] = pc[b] /\ cur'[b] = cur[b]
    BY <1>21 DEF PostRecv, Go, TypeOK, Places, Dealing
  <2> QED
    BY <1>21, <2>1, DiscOwnedFrame DEF PostRecv, At, events, owners, flags, history
<1>22. ASSUME NEW th \in Threads, ProcessRecv(th)
      PROVE  DiscOwned'
  <2>1. \A b \in Actors : b # th => pc'[b] = pc[b] /\ cur'[b] = cur[b]
    BY <1>22 DEF ProcessRecv, Go, TypeOK, Places, Dealing
  <2> QED
    BY <1>22, <2>1, DiscOwnedFrame DEF ProcessRecv, At, events, owners, flags, history
<1>23. ASSUME NEW th \in Threads, ProcessDisconnect(th)
      PROVE  DiscOwned'
  <2>1. cur' = cur /\ \A b \in Actors : pc'[b] = IF b = th THEN "discReset" ELSE pc[b]
    BY <1>23 DEF ProcessDisconnect, Go, TypeOK, Places
  <2> QED
    BY <1>23, <2>1, DiscOwnedFrame DEF ProcessDisconnect, events, owners, flags, history
<1>24. ASSUME NEW th \in Threads, ResetDisconnectOwner(th)
      PROVE  DiscOwned'
  <2>1. /\ cur' = cur /\ UNCHANGED <<disconnecting, raced>>
        /\ discOwner' = discOwner \ {cur[th]}
        /\ \A b \in Actors : b # th => pc'[b] = pc[b]
    BY <1>24 DEF ResetDisconnectOwner, Callback, Go, events, flags, history, TypeOK, Places
  <2>2. \A b \in Actors, x \in Sessions : InDisc(b, x) => InDisc(b, x)' \/ x = cur[th]
    BY <2>1 DEF InDisc
  <2>3. discOwner \subseteq Sessions
    BY DEF TypeOK, Data
  <2> QED
    BY <2>1, <2>2, <2>3 DEF DiscOwned
<1>25. ASSUME NEW th \in Threads, Release(th)
      PROVE  DiscOwned'
  <2>1. \A b \in Actors : b # th => pc'[b] = pc[b] /\ cur'[b] = cur[b]
    BY <1>25 DEF Release, Go, TypeOK, Places, Dealing
  <2> QED
    BY <1>25, <2>1, DiscOwnedFrame DEF Release, At, events, owners, flags, history
<1>26. CASE UNCHANGED vars
  BY <1>26, DiscOwnedFrame DEF vars, events, owners, flags, history
<1>27. ASSUME NEW t \in Tests, FaultTest(t)
      PROVE  DiscOwned'
  BY <1>27, DiscOwnedFrame DEF FaultTest, events, owners, history
<1>28. ASSUME NEW a \in Tasks, UseFreed(a)
      PROVE  DiscOwned'
  <2>1. \A b \in Actors : b # a => pc'[b] = pc[b] /\ cur'[b] = cur[b]
    BY <1>28 DEF UseFreed, Go, TypeOK, Places, Dealing
  <2> QED
    BY <1>28, <2>1, DiscOwnedFrame DEF UseFreed, events, owners, history
<1>29. ASSUME NEW a \in Tasks, Send(a)
      PROVE  DiscOwned'
  <2>1. \A b \in Actors : b # a => pc'[b] = pc[b] /\ cur'[b] = cur[b]
    BY <1>29 DEF Send, Go, TypeOK, Places, Dealing
  <2> QED
    BY <1>29, <2>1, DiscOwnedFrame DEF Send, At, events, owners, history
<1>30. ASSUME NEW a \in Threads \cup Tasks, RegisterSend(a)
      PROVE  DiscOwned'
  <2>1. \A b \in Actors : b # a => pc'[b] = pc[b] /\ cur'[b] = cur[b]
    BY <1>30 DEF RegisterSend, Sent, Go, TypeOK, Places, Dealing
  <2> QED
    BY <1>30, <2>1, DiscOwnedFrame DEF RegisterSend, At, events, owners, history
<1>31. ASSUME NEW a \in Threads \cup Tasks, PostSend(a)
      PROVE  DiscOwned'
  <2>1. \A b \in Actors : b # a => pc'[b] = pc[b] /\ cur'[b] = cur[b]
    BY <1>31 DEF PostSend, Sent, Go, TypeOK, Places, Dealing
  <2> QED
    BY <1>31, <2>1, DiscOwnedFrame DEF PostSend, At, events, owners, history
<1>32. ASSUME NEW a \in Threads \cup Tasks, PostSendFail(a)
      PROVE  DiscOwned'
  <2>1. \A b \in Actors : b # a => pc'[b] = pc[b] /\ cur'[b] = cur[b]
    BY <1>32 DEF PostSendFail, Sent, Go, TypeOK, Places, Dealing
  <2> QED
    BY <1>32, <2>1, DiscOwnedFrame DEF PostSendFail, At, events, owners, history
<1>33. ASSUME NEW a \in Threads \cup Tasks, ClearSend(a)
      PROVE  DiscOwned'
  <2>1. \A b \in Actors : b # a => pc'[b] = pc[b] /\ cur'[b] = cur[b]
    BY <1>33 DEF ClearSend, Sent, Go, TypeOK, Places, Dealing
  <2> QED
    BY <1>33, <2>1, DiscOwnedFrame DEF ClearSend, At, events, owners, history
<1>34. ASSUME NEW th \in Threads, NEW s \in Sessions, DequeueSend(th, s)
      PROVE  DiscOwned'
  <2>1. CASE UNCHANGED <<pc, cur>>
    BY <1>34, <2>1, DiscOwnedFrame DEF DequeueSend, owners, history
  <2>2. CASE pc[th] = "wait" /\ Go(th, "procSend") /\ cur' = [cur EXCEPT ![th] = s]
    <3>1. \A b \in Actors : b # th => pc'[b] = pc[b] /\ cur'[b] = cur[b]
      BY <2>2 DEF Go, TypeOK, Places, Dealing
    <3> QED
      BY <1>34, <2>2, <3>1, DiscOwnedFrame DEF DequeueSend, owners, history
  <2> QED
    BY <1>34, <2>1, <2>2 DEF DequeueSend, At, Take
<1>35. ASSUME NEW th \in Threads, ProcessSend(th)
      PROVE  DiscOwned'
  <2>1. \A b \in Actors : b # th => pc'[b] = pc[b] /\ cur'[b] = cur[b]
    BY <1>35 DEF ProcessSend, Go, TypeOK, Places, Dealing
  <2> QED
    BY <1>35, <2>1, DiscOwnedFrame DEF ProcessSend, At, events, history
<1> QED
  BY <1>1, <1>2, <1>3, <1>4, <1>5, <1>6, <1>7, <1>8, <1>9, <1>10, <1>11, <1>12, <1>13,
     <1>14, <1>15, <1>16, <1>17, <1>18, <1>19, <1>20, <1>21, <1>22, <1>23, <1>24, <1>25,
     <1>26, <1>27, <1>28, <1>29, <1>30, <1>31, <1>32, <1>33, <1>34, <1>35
     DEF Next, InDisconnectAll, Calling, Sending, TaskStep, ThreadStep

------------------------------------------------------------------------------
(* One send at a time *)

\* Actors leave a send at most, and not one whose event has its owner.
SendLess ==
  /\ UNCHANGED <<registered, sendOwner, sending>>
  /\ \A a \in Actors :
       /\ pc'[a] \in {"regSend", "postSend", "procSend", "sendClear"}
            => pc'[a] = pc[a] /\ cur'[a] = cur[a]
       /\ pc[a] \in {"postSend", "procSend"} => pc'[a] = pc[a] /\ cur'[a] = cur[a]

\* An actor goes where it is in no send, perhaps with another session.
LEMMA OutOfSend ==
  ASSUME TypeOK, UNCHANGED <<registered, sendOwner, sending>>,
         NEW a \in Actors, NEW there, Go(a, there) \/ UNCHANGED pc,
         there \notin {"regSend", "postSend", "procSend", "sendClear"},
         pc[a] \notin {"postSend", "procSend"},
         NEW with, \/ cur' = cur
                   \/ cur' = [cur EXCEPT ![a] = with] /\ Go(a, there)
  PROVE  SendLess
<1>1. \A b \in Actors \ {a} : pc'[b] = pc[b] /\ cur'[b] = cur[b]
  BY DEF Go, TypeOK, Places, Dealing
<1>2. (Go(a, there) /\ pc'[a] = there) \/ (pc' = pc /\ cur' = cur)
  BY DEF Go, TypeOK, Places
<1> QED
  BY <1>1, <1>2 DEF SendLess

\* Every step leaves the sends alone but the steps of Session's Send and ProcessSend.
LEMMA SendStep ==
  ASSUME TypeOK, [Next]_vars
  PROVE  \/ SendLess
         \/ \E a \in Tasks : Send(a)
         \/ \E a \in Threads \cup Tasks : Sending(a)
         \/ \E th \in Threads : ProcessSend(th) \/ \E s \in Sessions : DequeueSend(th, s)
<1> USE ActorFacts
<1>1. ASSUME NEW new \in SUBSET Sessions, StartTest(new)
      PROVE  SendLess
  <2>1. \A a \in Actors :
          pc[a] # "none" \/ pc'[a] \in {"regSend", "postSend", "procSend", "sendClear"}
            => pc'[a] = pc[a] /\ cur'[a] = cur[a]
    BY <1>1, StartFacts, NothingBegun
  <2> QED
    BY <1>1, <2>1, StartFacts DEF SendLess, events, owners, flags
<1>2. ASSUME NEW t \in Tests, FinishTest(t) \/ FaultTest(t)
      PROVE  SendLess
  BY <1>2, OutOfSend DEF FinishTest, FaultTest, At, events, owners, flags
<1>3. CASE Join
  BY <1>3, OutOfSend DEF Join, At, events, owners, flags
<1>4. ASSUME NEW s \in Sessions, NextSession(s)
      PROVE  SendLess
  BY <1>4, OutOfSend DEF NextSession, At, events, owners, flags
<1>5. CASE Dispose
  BY <1>5, OutOfSend DEF Dispose, At, events, owners, flags
<1>6. CASE ClearSessions
  BY <1>6, OutOfSend DEF ClearSessions, At, events, owners, flags
<1>7. ASSUME NEW a \in Tasks, Connect(a)
      PROVE  SendLess
  BY <1>7, OutOfSend DEF Connect, At, flags
<1>8. ASSUME NEW a \in Tasks, Sleep(a) \/ UseDisposed(a)
      PROVE  SendLess
  BY <1>8, OutOfSend DEF Sleep, UseDisposed, Calls, At, events, owners, flags
<1>9. ASSUME NEW a \in Tasks, UseFreed(a)
      PROVE  SendLess
  <2>1. /\ UNCHANGED <<registered, sendOwner, sending, cur>>
        /\ pc[a] \notin {"postSend", "procSend"}
        /\ UNCHANGED pc \/ \E there \in {"faulted", "sleep", "done"} : Go(a, there)
    BY <1>9 DEF UseFreed, events, owners, flags
  <2> QED
    BY <2>1, OutOfSend
<1>10. ASSUME NEW a \in Actors, Calling(a)
       PROVE  SendLess
  <2>1. /\ UNCHANGED <<registered, sendOwner, sending, cur>>
        /\ pc[a] \notin {"postSend", "procSend"}
        /\ \E there \in {"discOwner", "discEx", "dispose", "done", "release"} : Go(a, there)
    BY <1>10 DEF Calling, Disconnect, DisconnectOwner, DisconnectEx, DisconnectExFail, Return,
       At, events, owners, flags
  <2> QED
    BY <2>1, OutOfSend
<1>11. ASSUME NEW th \in Threads, NEW s \in Sessions,
              DequeueConnect(th, s) \/ DequeueRecv(th, s) \/ DequeueDisconnect(th, s)
       PROVE  SendLess
  <2>1. /\ UNCHANGED <<registered, sendOwner, sending>> /\ pc[th] = "wait"
        /\ \/ UNCHANGED <<pc, cur>>
           \/ \E there \in {"procConnect", "procRecv", "procDisc"} :
                Go(th, there) /\ cur' = [cur EXCEPT ![th] = s]
    BY <1>11 DEF DequeueConnect, DequeueRecv, DequeueDisconnect, Take, At, owners, flags
  <2> QED
    BY <2>1, OutOfSend
<1>12. ASSUME NEW th \in Threads, Loop(th) \/ Timeout(th) \/ RegisterRecv(th) \/ PostRecv(th)
       PROVE  SendLess
  <2>1. /\ UNCHANGED <<registered, sendOwner, sending, cur>>
        /\ pc[th] \notin {"postSend", "procSend"}
        /\ \E there \in {"wait", "end", "loop", "recv", "release"} : Go(th, there)
    BY <1>12 DEF Loop, Timeout, RegisterRecv, PostRecv, At, events, owners, flags
  <2> QED
    BY <2>1, OutOfSend
<1>13. ASSUME NEW th \in Threads, ProcessConnect(th) \/ ResetDisconnectOwner(th)
       PROVE  SendLess
  <2>1. /\ UNCHANGED <<registered, sendOwner, sending, cur>>
        /\ pc[th] \notin {"postSend", "procSend"}
        /\ UNCHANGED pc \/ \E there \in {"register", "release"} : Go(th, there)
    BY <1>13 DEF ProcessConnect, ResetDisconnectOwner, Callback, At, events, owners, flags
  <2> QED
    BY <2>1, OutOfSend
<1>14. ASSUME NEW th \in Threads, ProcessRecv(th) \/ ProcessDisconnect(th)
       PROVE  SendLess
  <2>1. /\ UNCHANGED <<registered, sendOwner, sending, cur>>
        /\ pc[th] \notin {"postSend", "procSend"}
        /\ \E there \in {"disconnect", "register", "discReset"} : Go(th, there)
    BY <1>14 DEF ProcessRecv, ProcessDisconnect, At, events, owners, flags
  <2> QED
    BY <2>1, OutOfSend
<1>15. ASSUME NEW th \in Threads, Release(th)
       PROVE  SendLess
  BY <1>15, OutOfSend DEF Release, At, events, owners, flags
<1>16. CASE UNCHANGED vars
  BY <1>16 DEF vars, events, owners, flags, SendLess
<1> QED
  BY <1>1, <1>2, <1>3, <1>4, <1>5, <1>6, <1>7, <1>8, <1>9, <1>10, <1>11, <1>12, <1>13,
     <1>14, <1>15, <1>16
     DEF Next, InDisconnectAll, TaskStep, ThreadStep

\* What an actor that is in a send can rely on.
LEMMA InSendFacts ==
  ASSUME TypeOK, OneSend, NEW a \in Actors, NEW s \in Sessions, InSend(a, s)
  PROVE  /\ sending[s] = 0 /\ s \in registered
         /\ \A b \in Actors : InSend(b, s) => b = a
         /\ pc[a] = "postSend" => s \in sendOwner
<1>1. sending[s] \in Nat
  BY DEF TypeOK, Data
<1> QED
  BY <1>1 DEF OneSend

\* An actor in RegisterSend goes on: the others' sends are what they were.
LEMMA SenderMoves ==
  ASSUME TypeOK, NEW a \in Threads \cup Tasks, NEW there, Go(a, there), cur' = cur,
         pc[a] \in {"regSend", "postSend", "procSend", "sendClear"}
  PROVE  /\ pc'[a] = there /\ \A b \in Actors : b # a => pc'[b] = pc[b]
         /\ InSend(a, cur[a]) /\ cur[a] \in Sessions
         /\ \A b \in Actors, s \in Sessions :
              InSend(b, s)' <=> /\ InSend(b, s)
                                /\ b = a
                                     => there \in {"regSend", "postSend", "procSend", "sendClear"}
<1>1. pc'[a] = there /\ \A b \in Actors : b # a => pc'[b] = pc[b]
  BY ActorFacts DEF Go, TypeOK, Places
<1>2. InSend(a, cur[a]) /\ cur[a] \in Sessions
  BY DealsWithMade, ActorFacts DEF InSend
<1> QED
  BY <1>1, <1>2 DEF InSend

\* Send's exchange lets one caller in; whoever is in a send holds the flag until it has
\* posted, and the completion's thread holds it from then on.
LEMMA OneSendStep ==
  ASSUME TypeOK, OneSend, SendOwned, [Next]_vars
  PROVE  OneSend' /\ SendOwned'
<1> USE ActorFacts
<1>0. sendOwner \subseteq Sessions /\ sending \in [Sessions -> Nat]
  BY DEF TypeOK, Data
<1>1. CASE SendLess
  <2>1. \A a \in Actors, s \in Sessions : InSend(a, s)' => InSend(a, s) /\ pc'[a] = pc[a]
    BY <1>1 DEF SendLess, InSend
  <2> QED
    BY <1>0, <1>1, <2>1 DEF OneSend, SendOwned, SendLess
<1>2. ASSUME NEW a \in Tasks, Send(a)
      PROVE  OneSend' /\ SendOwned'
  <2>1. /\ pc[a] = "sleep" /\ cur' = cur /\ cur[a] \notin registered
        /\ registered' = registered \cup {cur[a]} /\ UNCHANGED <<sendOwner, sending>>
        /\ \A b \in Actors : pc'[b] = IF b = a THEN "regSend" ELSE pc[b]
    BY <1>2 DEF Send, At, Go, events, owners, TypeOK, Places
  <2>2. cur[a] \in Sessions
    BY <2>1, DealsWithMade
  <2>3. /\ \A b \in Actors : ~InSend(b, cur[a])
        /\ sending[cur[a]] # 1
    BY <2>1, <2>2 DEF OneSend
  <2>4. \A b \in Actors, s \in Sessions : InSend(b, s)'
          <=> InSend(b, s) \/ (b = a /\ s = cur[a])
    BY <2>1 DEF InSend
  <2>5. OneSend'
    BY <2>1, <2>3, <2>4 DEF OneSend
  <2>6. SendOwned'
    BY <1>0, <2>1 DEF SendOwned
  <2> QED
    BY <2>5, <2>6
<1>3. ASSUME NEW a \in Threads \cup Tasks, RegisterSend(a)
      PROVE  OneSend' /\ SendOwned'
  <2>1. pc[a] = "regSend" /\ cur' = cur /\ UNCHANGED <<registered, sending>>
    BY <1>3 DEF RegisterSend, At, events, flags
  <2>2. CASE sendOwner' = sendOwner /\ Sent(a)
    <3>1. PICK there \in {"sleep", "release"} : Go(a, there)
      BY <2>2 DEF Sent
    <3>2. SendLess
      BY <2>1, <2>2, <3>1, OutOfSend
    <3>3. \A b \in Actors, s \in Sessions : InSend(b, s)' => InSend(b, s) /\ pc'[b] = pc[b]
      BY <3>2 DEF SendLess, InSend
    <3> QED
      BY <1>0, <3>2, <3>3 DEF OneSend, SendOwned, SendLess
  <2>3. CASE sendOwner' = sendOwner \cup {cur[a]} /\ Go(a, "postSend")
    <3>1. /\ pc'[a] = "postSend" /\ \A b \in Actors : b # a => pc'[b] = pc[b]
          /\ InSend(a, cur[a]) /\ cur[a] \in Sessions
          /\ \A b \in Actors, s \in Sessions : InSend(b, s)' <=> InSend(b, s)
      BY <2>1, <2>3, SenderMoves
    <3>2. \A s \in Sessions : InSend(a, s) => s = cur[a]
      BY DEF InSend
    <3>3. OneSend'
      BY <2>1, <2>3, <3>1, <3>2 DEF OneSend
    <3>4. SendOwned'
      BY <1>0, <2>1, <2>3, <3>1 DEF SendOwned
    <3> QED
      BY <3>3, <3>4
  <2> QED
    BY <1>3, <2>2, <2>3 DEF RegisterSend
<1>4. ASSUME NEW a \in Threads \cup Tasks, PostSend(a)
      PROVE  OneSend' /\ SendOwned'
  <2>1. /\ pc[a] = "postSend" /\ cur' = cur /\ UNCHANGED <<registered, sendOwner>>
        /\ sending' = [sending EXCEPT ![cur[a]] = @ + 1]
        /\ \E there \in {"sleep", "release"} : Go(a, there)
    BY <1>4 DEF PostSend, Sent, At, owners, flags
  <2>2. /\ \A b \in Actors : b # a => pc'[b] = pc[b]
        /\ InSend(a, cur[a]) /\ cur[a] \in Sessions
        /\ \A b \in Actors, s \in Sessions : InSend(b, s)' <=> InSend(b, s) /\ b # a
    BY <2>1, SenderMoves
  <2>3. /\ sending[cur[a]] = 0 /\ cur[a] \in registered /\ cur[a] \in sendOwner
        /\ \A b \in Actors : InSend(b, cur[a]) => b = a
    BY <2>1, <2>2, InSendFacts
  <2>4. \A s \in Sessions : sending'[s] = IF s = cur[a] THEN 1 ELSE sending[s]
    BY <1>0, <2>1, <2>2, <2>3
  <2>5. OneSend'
    BY <2>1, <2>2, <2>3, <2>4 DEF OneSend
  <2>6. SendOwned'
    BY <1>0, <2>1, <2>2, <2>4 DEF SendOwned
  <2> QED
    BY <2>5, <2>6
<1>5. ASSUME NEW a \in Threads \cup Tasks, PostSendFail(a)
      PROVE  OneSend' /\ SendOwned'
  <2>1. /\ pc[a] = "postSend" /\ cur' = cur /\ UNCHANGED <<registered, sending>>
        /\ sendOwner' = sendOwner \ {cur[a]} /\ Go(a, "sendClear")
    BY <1>5 DEF PostSendFail, At, events, flags
  <2>2. /\ pc'[a] = "sendClear" /\ \A b \in Actors : b # a => pc'[b] = pc[b]
        /\ InSend(a, cur[a]) /\ cur[a] \in Sessions
        /\ \A b \in Actors, s \in Sessions : InSend(b, s)' <=> InSend(b, s)
    BY <2>1, SenderMoves
  <2>3. /\ sending[cur[a]] = 0
        /\ \A b \in Actors : InSend(b, cur[a]) => b = a
    BY <2>1, <2>2, InSendFacts
  <2>4. OneSend'
    BY <2>1, <2>2, <2>3 DEF OneSend
  <2>5. SendOwned'
    BY <1>0, <2>1, <2>2 DEF SendOwned
  <2> QED
    BY <2>4, <2>5
<1>6. ASSUME NEW a \in Threads \cup Tasks, ClearSend(a)
      PROVE  OneSend' /\ SendOwned'
  <2>1. /\ pc[a] = "sendClear" /\ cur' = cur /\ UNCHANGED <<sendOwner, sending>>
        /\ registered' = registered \ {cur[a]}
        /\ \E there \in {"sleep", "release"} : Go(a, there)
    BY <1>6 DEF ClearSend, Sent, At, owners, events
  <2>2. /\ \A b \in Actors : b # a => pc'[b] = pc[b]
        /\ InSend(a, cur[a]) /\ cur[a] \in Sessions
        /\ \A b \in Actors, s \in Sessions : InSend(b, s)' <=> InSend(b, s) /\ b # a
    BY <2>1, SenderMoves
  <2>3. /\ sending[cur[a]] = 0
        /\ \A b \in Actors : InSend(b, cur[a]) => b = a
    BY <2>1, <2>2, InSendFacts
  <2>4. OneSend'
    BY <2>1, <2>2, <2>3 DEF OneSend
  <2>5. SendOwned'
    BY <1>0, <2>1, <2>2 DEF SendOwned
  <2> QED
    BY <2>4, <2>5
<1>7. ASSUME NEW th \in Threads, NEW s0 \in Sessions, DequeueSend(th, s0)
      PROVE  OneSend' /\ SendOwned'
  <2>1. /\ sending[s0] > 0 /\ UNCHANGED <<registered, sendOwner>> /\ pc[th] = "wait"
        /\ sending' = [sending EXCEPT ![s0] = @ - 1]
    BY <1>7 DEF DequeueSend, At, owners, flags
  <2>2. /\ sending[s0] = 1 /\ s0 \in registered /\ s0 \in sendOwner
        /\ \A b \in Actors : ~InSend(b, s0)
    BY <1>0, <2>1 DEF OneSend
  <2>3. Go(th, "procSend") /\ cur' = [cur EXCEPT ![th] = s0]
    BY <1>7, <2>2 DEF DequeueSend, Take
  <2>4. \A b \in Actors : /\ pc'[b] = IF b = th THEN "procSend" ELSE pc[b]
                          /\ cur'[b] = IF b = th THEN s0 ELSE cur[b]
    BY <2>3 DEF Go, TypeOK, Places, Dealing
  <2>5. \A b \in Actors, s \in Sessions : InSend(b, s)' <=> InSend(b, s) \/ (b = th /\ s = s0)
    BY <2>1, <2>4 DEF InSend
  <2>6. \A s \in Sessions : sending'[s] = IF s = s0 THEN 0 ELSE sending[s]
    BY <1>0, <2>1, <2>2
  <2>7. OneSend'
    BY <2>1, <2>2, <2>4, <2>5, <2>6 DEF OneSend
  <2>8. SendOwned'
    BY <1>0, <2>1, <2>4, <2>6 DEF SendOwned
  <2> QED
    BY <2>7, <2>8
<1>8. ASSUME NEW th \in Threads, ProcessSend(th)
      PROVE  OneSend' /\ SendOwned'
  <2>1. /\ pc[th] = "procSend" /\ cur' = cur /\ sending' = sending
        /\ sendOwner' = sendOwner \ {cur[th]}
        /\ \/ (Go(th, "disconnect") \/ Go(th, "regSend")) /\ registered' = registered
           \/ Go(th, "release") /\ registered' = registered \ {cur[th]}
    BY <1>8 DEF ProcessSend, At, events
  <2>2. PICK there \in {"disconnect", "regSend", "release"} :
          Go(th, there) /\ registered' = IF there = "release" THEN registered \ {cur[th]}
                                                              ELSE registered
    BY <2>1
  <2>3. /\ pc'[th] = there /\ \A b \in Actors : b # th => pc'[b] = pc[b]
        /\ InSend(th, cur[th]) /\ cur[th] \in Sessions
        /\ \A b \in Actors, s \in Sessions :
             InSend(b, s)' <=> InSend(b, s) /\ (b = th => there = "regSend")
    BY <2>1, <2>2, SenderMoves
  <2>4. /\ sending[cur[th]] = 0
        /\ \A b \in Actors : InSend(b, cur[th]) => b = th
    BY <2>1, <2>3, InSendFacts
  <2>5. OneSend'
    <3> SUFFICES ASSUME NEW s \in Sessions
                 PROVE  /\ \A a, b \in Actors : InSend(a, s)' /\ InSend(b, s)' => a = b
                        /\ sending[s] <= 1
                        /\ sending[s] = 1 => /\ s \in registered' /\ s \in sendOwner'
                                             /\ \A a \in Actors : ~InSend(a, s)'
                        /\ \A a \in Actors : InSend(a, s)' => s \in registered'
                        /\ \A a \in Actors :
                             InSend(a, s)' /\ pc'[a] = "postSend" => s \in sendOwner'
      BY <2>1 DEF OneSend
    <3>1. CASE s = cur[th]
      <4>1. \A a \in Actors : InSend(a, s)' => a = th /\ there = "regSend"
        BY <2>3, <2>4, <3>1
      <4>2. InSend(th, s) => s \in registered
        BY DEF OneSend
      <4> QED
        BY <2>2, <2>3, <2>4, <3>1, <4>1, <4>2
    <3>2. CASE s # cur[th]
      <4>1. /\ s \in registered' <=> s \in registered
            /\ s \in sendOwner' <=> s \in sendOwner
        BY <2>1, <2>2, <3>2
      <4>2. \A a \in Actors : InSend(a, s)' => InSend(a, s) /\ pc'[a] = pc[a]
        BY <2>3, <3>2 DEF InSend
      <4> QED
        BY <4>1, <4>2 DEF OneSend
    <3> QED
      BY <3>1, <3>2
  <2>6. SendOwned'
    BY <1>0, <2>1, <2>3 DEF SendOwned
  <2> QED
    BY <2>5, <2>6
<1> QED
  BY <1>1, <1>2, <1>3, <1>4, <1>5, <1>6, <1>7, <1>8, SendStep DEF Sending

------------------------------------------------------------------------------
(* Sessions disposed with nothing pending *)

\* Only operations of session x, not one of those, begin or complete; a thread that gets
\* a session gets x.
LEMMA SettledFrame ==
  ASSUME TypeOK, Settled, NEW x, overlapped \/ x \notin disposed \ late,
         UNCHANGED <<overlapped, disposed, late>>,
         crashed' \in {crashed, "freed", "null owner"},
         \A y \in Sessions \ {x} :
           /\ connecting'[y] = connecting[y] /\ receiving'[y] = receiving[y]
           /\ sending'[y] = sending[y] /\ disconnecting'[y] = disconnecting[y],
         \A th \in Threads : cur'[th] \in {cur[th], x, None}
  PROVE  Settled'
<1>1. disposed \subseteq Sessions /\ None \notin Sessions
  BY NoneAssumption DEF TypeOK, Data
<1>2. CASE overlapped
  BY <1>2 DEF Settled
<1>3. CASE ~overlapped
  <2>1. \A y \in disposed \ late : SettledOf(y)'
    <3> SUFFICES ASSUME NEW y \in disposed \ late
                 PROVE  SettledOf(y)'
      OBVIOUS
    <3>1. y \in Sessions \ {x} /\ y # None /\ SettledOf(y)
      BY <1>1, <1>3 DEF Settled
    <3>2. /\ connecting'[y] = 0 /\ receiving'[y] = 0
          /\ sending'[y] = 0 /\ disconnecting'[y] = 0
      BY <3>1 DEF SettledOf
    <3>3. \A th \in Threads : cur'[th] # y
      BY <3>1 DEF SettledOf
    <3> QED
      BY <3>2, <3>3 DEF SettledOf
  <2>2. crashed' = "callback" => late' # {}
    BY <1>3 DEF Settled
  <2> QED
    BY <2>1, <2>2 DEF Settled
<1> QED
  BY <1>2, <1>3

\* Nothing begins or completes, and no thread gets another session.
LEMMA SettledQuiet ==
  ASSUME TypeOK, Settled, UNCHANGED <<overlapped, disposed, late, events>>,
         crashed' \in {crashed, "freed", "null owner"},
         \A th \in Threads : cur'[th] \in {cur[th], None}
  PROVE  Settled'
<1>1. None \notin disposed
  BY NoneAssumption DEF TypeOK, Data
<1> QED
  BY <1>1, SettledFrame DEF events

\* Who runs deals with no session that was disposed with nothing pending.
LEMMA RunsElsewhere ==
  ASSUME TypeOK, NoUseAfterDispose, Listed, Settled, NEW a \in Actors,
         a = UI => pc[a] \in {"disconnect", "discOwner", "discEx", "dispose"},
         a \in Tasks => pc[a] # "done"
  PROVE  overlapped \/ cur[a] \notin disposed \ late
<1> SUFFICES ASSUME ~overlapped, cur[a] \in disposed \ late
             PROVE  FALSE
  OBVIOUS
<1>1. CASE a = UI
  BY <1>1 DEF Listed
<1>2. CASE a \in Tasks
  BY <1>2 DEF NoUseAfterDispose
<1>3. CASE a \in Threads
  BY <1>3 DEF Settled, SettledOf
<1> QED
  BY <1>1, <1>2, <1>3, ActorFacts

\* Nothing pending at Dispose, nothing later: the next test's threads take completions
\* of other sessions only, and its tasks and DisconnectAll deal with others.
LEMMA SettledStep ==
  ASSUME TypeOK, Joined, NoUseAfterDispose, Listed, Settled, [Next]_vars
  PROVE  Settled'
<1> USE ActorFacts
<1>0. /\ connecting \in [Sessions -> Nat] /\ receiving \in [Sessions -> Nat]
      /\ sending \in [Sessions -> Nat] /\ disconnecting \in [Sessions -> Nat]
  BY DEF TypeOK, Data
<1>1. ASSUME NEW new \in SUBSET Sessions, StartTest(new)
      PROVE  Settled'
  <2>1. CASE overlapped'
    BY <2>1 DEF Settled
  <2>2. CASE overlapped' = overlapped
    BY <1>1, <2>2, StartFacts, SettledQuiet DEF objects
  <2> QED
    BY <1>1, <2>1, <2>2, StartFacts DEF TypeOK, Data
<1>2. ASSUME NEW t \in Tests, FinishTest(t) \/ FaultTest(t)
      PROVE  Settled'
  BY <1>2, SettledQuiet DEF FinishTest, FaultTest, objects, history
<1>3. CASE Join
  BY <1>3, SettledQuiet DEF Join, objects, history
<1>4. ASSUME NEW s \in Sessions, NextSession(s)
      PROVE  Settled'
  <2>1. \A th \in Threads : cur'[th] = cur[th]
    BY <1>4 DEF NextSession, TypeOK, Dealing
  <2> QED
    BY <1>4, <2>1, SettledQuiet DEF NextSession, objects, history
<1>5. CASE Dispose
  <2>1. /\ pc[UI] = "dispose" /\ disposed' = disposed \cup {cur[UI]}
        /\ UNCHANGED <<events, cur, crashed, overlapped>>
        /\ late' = IF connecting[cur[UI]] + receiving[cur[UI]] + sending[cur[UI]]
                        + disconnecting[cur[UI]] > 0
                     THEN late \cup {cur[UI]} ELSE late
    BY <1>5 DEF Dispose, At
  <2>2. cur[UI] \in Sessions /\ cur[UI] # None
    BY <2>1, DealsWithMade, NoneAssumption
  <2>3. \A th \in Threads : cur[th] = None
    BY <2>1 DEF Joined, TypeOK, Dealing
  <2>4. cur[UI] \notin late' => SettledOf(cur[UI])
    <3> SUFFICES ASSUME cur[UI] \notin late'
                 PROVE  SettledOf(cur[UI])
      OBVIOUS
    <3>1. ~(connecting[cur[UI]] + receiving[cur[UI]] + sending[cur[UI]]
              + disconnecting[cur[UI]] > 0)
      BY <2>1
    <3>2. /\ connecting[cur[UI]] = 0 /\ receiving[cur[UI]] = 0
          /\ sending[cur[UI]] = 0 /\ disconnecting[cur[UI]] = 0
      <4> DEFINE c == connecting[cur[UI]]
                 r == receiving[cur[UI]]
                 f == sending[cur[UI]]
                 d == disconnecting[cur[UI]]
      <4>1. c \in Nat /\ r \in Nat /\ f \in Nat /\ d \in Nat
        BY <1>0, <2>2
      <4>2. ~(c + r + f + d > 0)
        BY <3>1
      <4> HIDE DEF c, r, f, d
      <4>3. c = 0 /\ r = 0 /\ f = 0 /\ d = 0
        BY <4>1, <4>2
      <4> QED
        BY <4>3 DEF c, r, f, d
    <3> QED
      BY <2>2, <2>3, <3>2 DEF SettledOf
  <2>5. \A s : SettledOf(s)' <=> SettledOf(s)
    BY <2>1 DEF SettledOf, events
  <2>6. late \subseteq late'
    BY <2>1
  <2> QED
    BY <2>1, <2>4, <2>5, <2>6 DEF Settled
<1>6. CASE ClearSessions
  <2>1. \A th \in Threads : cur'[th] = cur[th]
    BY <1>6 DEF ClearSessions, TypeOK, Dealing
  <2> QED
    BY <1>6, <2>1, SettledQuiet DEF ClearSessions, objects, history
<1>7. ASSUME NEW a \in Tasks, Connect(a)
      PROVE  Settled'
  <2>1. /\ pc[a] = "connect" /\ UNCHANGED <<receiving, sending, disconnecting, cur, crashed>>
        /\ UNCHANGED <<overlapped, disposed, late>>
        /\ connecting' \in {connecting, [connecting EXCEPT ![cur[a]] = @ + 1]}
    BY <1>7 DEF Connect, At, history
  <2>2. overlapped \/ cur[a] \notin disposed \ late
    BY <2>1, RunsElsewhere
  <2>3. \A y \in Sessions \ {cur[a]} : connecting'[y] = connecting[y]
    BY <1>0, <2>1
  <2> QED
    BY <2>1, <2>2, <2>3, SettledFrame
<1>8. ASSUME NEW a \in Tasks, Send(a) \/ Sleep(a) \/ UseDisposed(a) \/ UseFreed(a)
      PROVE  Settled'
  BY <1>8, SettledQuiet DEF Send, Sleep, UseDisposed, UseFreed, objects, history
<1>9. ASSUME NEW a \in Threads \cup Tasks, RegisterSend(a) \/ PostSendFail(a) \/ ClearSend(a)
      PROVE  Settled'
  BY <1>9, SettledQuiet DEF RegisterSend, PostSendFail, ClearSend, objects, history
<1>10. ASSUME NEW a \in Threads \cup Tasks, PostSend(a)
       PROVE  Settled'
  <2>1. /\ pc[a] = "postSend"
        /\ UNCHANGED <<connecting, receiving, disconnecting, cur, crashed>>
        /\ UNCHANGED <<overlapped, disposed, late>>
        /\ sending' = [sending EXCEPT ![cur[a]] = @ + 1]
    BY <1>10 DEF PostSend, At, history, objects
  <2>2. overlapped \/ cur[a] \notin disposed \ late
    BY <2>1, RunsElsewhere
  <2>3. \A y \in Sessions \ {cur[a]} : sending'[y] = sending[y]
    BY <1>0, <2>1
  <2> QED
    BY <2>1, <2>2, <2>3, SettledFrame
<1>11. ASSUME NEW a \in Actors, Disconnect(a) \/ DisconnectOwner(a) \/ DisconnectExFail(a)
       PROVE  Settled'
  BY <1>11, SettledQuiet DEF Disconnect, DisconnectOwner, DisconnectExFail, objects, history
<1>12. ASSUME NEW a \in Actors, DisconnectEx(a)
       PROVE  Settled'
  <2>1. /\ pc[a] = "discEx" /\ UNCHANGED <<connecting, receiving, sending, cur, crashed>>
        /\ UNCHANGED <<overlapped, disposed, late>>
        /\ disconnecting' = [disconnecting EXCEPT ![cur[a]] = @ + 1]
    BY <1>12 DEF DisconnectEx, At, history, objects
  <2>2. overlapped \/ cur[a] \notin disposed \ late
    BY <2>1, RunsElsewhere
  <2>3. \A y \in Sessions \ {cur[a]} : disconnecting'[y] = disconnecting[y]
    BY <1>0, <2>1
  <2> QED
    BY <2>1, <2>2, <2>3, SettledFrame
<1>13. ASSUME NEW th \in Threads,
              \/ Loop(th) \/ Timeout(th) \/ RegisterRecv(th) \/ ProcessRecv(th)
              \/ ProcessSend(th) \/ ProcessDisconnect(th)
       PROVE  Settled'
  BY <1>13, SettledQuiet DEF Loop, Timeout, RegisterRecv, ProcessRecv, ProcessSend,
     ProcessDisconnect, objects, history
<1>14. ASSUME NEW th \in Threads, PostRecv(th)
       PROVE  Settled'
  <2>1. /\ pc[th] = "recv" /\ UNCHANGED <<connecting, sending, disconnecting, cur, crashed>>
        /\ UNCHANGED <<overlapped, disposed, late>>
        /\ receiving' \in {receiving, [receiving EXCEPT ![cur[th]] = @ + 1]}
    BY <1>14 DEF PostRecv, At, objects
  <2>2. overlapped \/ cur[th] \notin disposed \ late
    BY <2>1, RunsElsewhere
  <2>3. \A y \in Sessions \ {cur[th]} : receiving'[y] = receiving[y]
    BY <1>0, <2>1
  <2> QED
    BY <2>1, <2>2, <2>3, SettledFrame
<1>15. ASSUME NEW th \in Threads, NEW s \in Sessions,
              \/ DequeueConnect(th, s) \/ DequeueRecv(th, s)
              \/ DequeueSend(th, s) \/ DequeueDisconnect(th, s)
       PROVE  Settled'
  <2>1. /\ UNCHANGED <<overlapped, disposed, late>> /\ crashed' \in {crashed, "null owner"}
        /\ cur' \in {cur, [cur EXCEPT ![th] = s]}
    BY <1>15 DEF DequeueConnect, DequeueRecv, DequeueSend, DequeueDisconnect, Take, objects,
       history
  <2>2. \/ /\ connecting[s] > 0 /\ connecting' = [connecting EXCEPT ![s] = @ - 1]
           /\ UNCHANGED <<receiving, sending, disconnecting>>
        \/ /\ receiving[s] > 0 /\ receiving' = [receiving EXCEPT ![s] = @ - 1]
           /\ UNCHANGED <<connecting, sending, disconnecting>>
        \/ /\ sending[s] > 0 /\ sending' = [sending EXCEPT ![s] = @ - 1]
           /\ UNCHANGED <<connecting, receiving, disconnecting>>
        \/ /\ disconnecting[s] > 0 /\ disconnecting' = [disconnecting EXCEPT ![s] = @ - 1]
           /\ UNCHANGED <<connecting, receiving, sending>>
    BY <1>15 DEF DequeueConnect, DequeueRecv, DequeueSend, DequeueDisconnect
  <2>3. overlapped \/ s \notin disposed \ late
    BY <2>2 DEF Settled, SettledOf
  <2>4. \A y \in Sessions \ {s} :
          /\ connecting'[y] = connecting[y] /\ receiving'[y] = receiving[y]
          /\ sending'[y] = sending[y] /\ disconnecting'[y] = disconnecting[y]
    BY <1>0, <2>2
  <2>5. \A b \in Threads : cur'[b] \in {cur[b], s, None}
    BY <2>1 DEF TypeOK, Dealing
  <2> QED
    BY <2>1, <2>3, <2>4, <2>5, SettledFrame
<1>16. ASSUME NEW th \in Threads, ProcessConnect(th) \/ ResetDisconnectOwner(th)
       PROVE  Settled'
  <2>1. /\ UNCHANGED <<events, overlapped, disposed, late, cur>>
        /\ \/ crashed' = crashed
           \/ cur[th] \in disposed /\ crashed' = "callback"
    BY <1>16 DEF ProcessConnect, ResetDisconnectOwner, Callback, objects, history
  <2>2. CASE crashed' = crashed
    BY <2>1, <2>2, SettledQuiet
  <2>3. CASE cur[th] \in disposed
    <3>1. overlapped \/ late # {}
      BY <2>3 DEF Settled, SettledOf
    <3>2. \A s : SettledOf(s)' <=> SettledOf(s)
      BY <2>1 DEF SettledOf, events
    <3> QED
      BY <2>1, <3>1, <3>2 DEF Settled
  <2> QED
    BY <2>1, <2>2, <2>3
<1>17. ASSUME NEW th \in Threads, Release(th)
       PROVE  Settled'
  <2>1. \A b \in Threads : cur'[b] \in {cur[b], None}
    BY <1>17 DEF Release, TypeOK, Dealing
  <2> QED
    BY <1>17, <2>1, SettledQuiet DEF Release, history
<1>18. CASE UNCHANGED vars
  BY <1>18, SettledQuiet DEF vars, objects, history
<1> QED
  BY <1>1, <1>2, <1>3, <1>4, <1>5, <1>6, <1>7, <1>8, <1>9, <1>10, <1>11, <1>12, <1>13,
     <1>14, <1>15, <1>16, <1>17, <1>18
     DEF Next, InDisconnectAll, Calling, Sending, TaskStep, ThreadStep

------------------------------------------------------------------------------
(* The invariant *)

\* All of it: a step of any actor keeps every part, given the others.
IInv ==
  /\ TypeOK /\ Joined /\ OneTest /\ Fresh /\ NoUseAfterDispose
  /\ OneDisconnect /\ OneReceive /\ OneSend /\ OwnersFound /\ StaysOff
  /\ Listed /\ Held /\ RecvOwned /\ SendOwned /\ DiscOwned /\ Settled

\* It holds before the first click.
LEMMA InitIInv == Init => IInv
<1> SUFFICES ASSUME Init
             PROVE  IInv
  OBVIOUS
<1> USE ActorFacts DEF Init
<1>1. \A a \in Actors : cur[a] = None /\ pc[a] = IF a = UI THEN "free" ELSE "none"
  OBVIOUS
<1>2. Places /\ Dealing
  BY <1>1 DEF Places, Dealing, UIPlaces, TaskPlaces, ThreadPlaces
<1>3. Data
  <2>1. 0 \in 0 .. MaxTests
    BY TestsAssumption
  <2>2. /\ connecting = [x \in Sessions |-> 0] /\ receiving = [x \in Sessions |-> 0]
        /\ sending = [x \in Sessions |-> 0] /\ disconnecting = [x \in Sessions |-> 0]
    OBVIOUS
  <2>3. \A x \in Sessions : /\ connecting[x] = 0 /\ receiving[x] = 0
                            /\ sending[x] = 0 /\ disconnecting[x] = 0
    BY <2>2
  <2>4. /\ connecting \in [Sessions -> Nat] /\ receiving \in [Sessions -> Nat]
        /\ sending \in [Sessions -> Nat] /\ disconnecting \in [Sessions -> Nat]
    BY <2>2
  <2>5. tests \in 0 .. MaxTests /\ awaiting \subseteq 1 .. tests /\ isRun \in BOOLEAN
    BY <2>1
  <2> QED
    BY <2>3, <2>4, <2>5 DEF Data
<1>4. Joined /\ OneTest /\ Fresh /\ NoUseAfterDispose
  BY <1>1 DEF Joined, OneTest, Fresh, NoUseAfterDispose
<1>5. OneDisconnect
  <2>1. \A s \in Sessions : disconnecting[s] = 0 /\ \A a \in Actors : ~InDisc(a, s)
    BY <1>1 DEF InDisc
  <2> QED
    BY <2>1 DEF OneDisconnect
<1>6. OwnersFound /\ StaysOff
  BY <1>1 DEF OwnersFound, StaysOff
<1>7. \A s \in Sessions : OneReceiveOf(s)
  <2>1. \A s \in Sessions : /\ connecting[s] = 0 /\ receiving[s] = 0
                            /\ \A a \in Actors : ~InRecv(a, s)
    BY <1>1 DEF InRecv
  <2> QED
    BY <2>1 DEF OneReceiveOf
<1>8. Listed /\ Held /\ RecvOwned /\ SendOwned /\ DiscOwned /\ Settled
  BY <1>1 DEF Listed, Held, RecvOwned, SendOwned, DiscOwned, Settled
<1>9. OneSend
  <2>1. \A s \in Sessions : sending[s] = 0 /\ \A a \in Actors : ~InSend(a, s)
    BY <1>1 DEF InSend
  <2> QED
    BY <2>1 DEF OneSend
<1> QED
  BY <1>2, <1>3, <1>4, <1>5, <1>6, <1>7, <1>8, <1>9 DEF IInv, TypeOK, OneReceive

\* The pool has the threads of the test that begins, until all have come to their end.
LEMMA JoinedStep ==
  ASSUME TypeOK, Joined, [Next]_vars
  PROVE  Joined'
<1> USE ActorFacts
<1>1. CASE \E new \in SUBSET Sessions : StartTest(new)
  BY <1>1, StartFacts DEF Joined
<1>2. CASE \E t \in Tests : FinishTest(t)
  BY <1>2 DEF FinishTest, At, Go, Joined, TypeOK, Places
<1>3. CASE Join
  BY <1>3 DEF Join, At, Go, Joined, TypeOK, Places
<1>4. CASE ClearSessions
  BY <1>4 DEF ClearSessions, At, Go, Joined, TypeOK, Places
<1>5. CASE Quiet
  BY <1>5 DEF Quiet, Joined
<1>6. ASSUME NEW t \in Tests, FaultTest(t)
      PROVE  Joined'
  BY <1>6 DEF FaultTest, Joined
<1> QED
  BY <1>1, <1>2, <1>3, <1>4, <1>5, <1>6, QuietStep

\* A test that begins while none is awaited is the only one; its tasks are over when
\* it is finished, and its sessions are let go before the next click.
LEMMA OneTestStep ==
  ASSUME TypeOK, OneTest, NoUseAfterDispose, [Next]_vars
  PROVE  OneTest'
<1> USE ActorFacts
<1>1. ASSUME NEW new \in SUBSET Sessions, StartTest(new)
      PROVE  OneTest'
  <2>1. CASE overlapped'
    BY <2>1 DEF OneTest
  <2>2. CASE ~overlapped'
    <3>1. /\ awaiting = {} /\ awaiting' = {tests'} /\ pc'[UI] = "free"
          /\ \A a \in Tasks : pc[a] \in {"none", "done"}
      BY <1>1, <2>2, StartFacts DEF OneTest
    <3>2. \A a \in Tasks : pc'[a] \notin {"none", "done"} => a[1] = tests'
      BY <1>1, <3>1, StartFacts
    <3> QED
      BY <3>1, <3>2 DEF OneTest
  <2> QED
    BY <2>1, <2>2
<1>2. ASSUME NEW t \in Tests, FinishTest(t)
      PROVE  OneTest'
  <2>1. /\ t \in awaiting /\ awaiting' = awaiting \ {t} /\ pc'[UI] = "join"
        /\ \A a \in Tasks : pc'[a] = pc[a]
        /\ UNCHANGED <<tests, overlapped>>
    BY <1>2 DEF FinishTest, At, Go, TypeOK, Places, history, flags
  <2>2. \A a \in Tasks : a[1] = t => pc[a] \in {"none", "done"}
    BY <1>2 DEF FinishTest, TasksDone, Threw
  <2> QED
    BY <2>1, <2>2 DEF OneTest
<1>3. CASE Join
  BY <1>3 DEF Join, At, Go, OneTest, TypeOK, Places, history, flags
<1>4. CASE ClearSessions
  BY <1>4 DEF ClearSessions, At, Go, OneTest, TypeOK, Places, history, flags
<1>5. CASE Quiet
  <2>1. pc'[UI] # "free" => pc[UI] # "free"
    BY <1>5 DEF Quiet
  <2>2. pc'[UI] = "free" => pc[UI] = "free"
    BY <1>5 DEF Quiet
  <2>3. \A a \in Tasks : pc'[a] \notin {"none", "done"} => pc[a] \notin {"none", "done"}
    BY <1>5 DEF Quiet
  <2> QED
    BY <1>5, <2>1, <2>2, <2>3 DEF Quiet, OneTest
<1>6. ASSUME NEW t \in Tests, FaultTest(t)
      PROVE  OneTest'
  <2>1. /\ pc[UI] = "free" /\ t \in awaiting /\ awaiting' = awaiting \ {t} /\ pc' = pc
        /\ UNCHANGED <<tests, sessions, overlapped>> /\ Threw(t)
    BY <1>6 DEF FaultTest, At, history
  <2>2. overlapped
    BY <2>1, ActorFacts DEF Threw, NoUseAfterDispose
  <2> QED
    BY <2>1, <2>2 DEF OneTest
<1> QED
  BY <1>1, <1>2, <1>3, <1>4, <1>5, <1>6, QuietStep

\* A task gets its session when it begins.
LEMMA FreshStep ==
  ASSUME TypeOK, Fresh, [Next]_vars
  PROVE  Fresh'
<1> USE ActorFacts
<1>1. CASE \E new \in SUBSET Sessions : StartTest(new)
  BY <1>1, StartFacts DEF Fresh
<1>2. CASE \E t \in Tests : FinishTest(t)
  BY <1>2 DEF FinishTest, Go, Fresh, TypeOK, Places
<1>3. CASE Join
  BY <1>3 DEF Join, Go, Fresh, TypeOK, Places
<1>4. CASE ClearSessions
  BY <1>4 DEF ClearSessions, Go, Fresh, TypeOK, Places, Dealing
<1>5. CASE Quiet
  BY <1>5 DEF Quiet, Fresh
<1>6. ASSUME NEW t \in Tests, FaultTest(t)
      PROVE  Fresh'
  BY <1>6 DEF FaultTest, Fresh
<1> QED
  BY <1>1, <1>2, <1>3, <1>4, <1>5, <1>6, QuietStep

\* What a test that does not overlap another uses is new; what DisconnectAll disposes,
\* every task has done with.
LEMMA NoUseStep ==
  ASSUME TypeOK, OneTest, Fresh, NoUseAfterDispose, [Next]_vars
  PROVE  NoUseAfterDispose'
<1> USE ActorFacts
<1>1. ASSUME NEW new \in SUBSET Sessions, StartTest(new)
      PROVE  NoUseAfterDispose'
  <2>1. CASE overlapped'
    BY <2>1 DEF NoUseAfterDispose
  <2>2. CASE ~overlapped'
    <3>1. /\ awaiting = {} /\ pc[UI] = "free" /\ ~overlapped /\ new \cap made = {}
          /\ sessions' = sessions \cup new
      BY <1>1, <2>2, StartFacts
    <3>2. sessions' = new
      BY <3>1 DEF OneTest
    <3>3. disposed' = disposed /\ crashed' = crashed /\ disposed \subseteq made
      BY <1>1, StartFacts DEF objects, flags, TypeOK, Data
    <3>4. \A a \in {tests'} \X sessions' : a[2] \notin disposed
      BY <3>1, <3>2, <3>3
    <3>5. \A a \in Tasks : cur'[a] \in disposed => cur'[a] = cur[a] /\ pc'[a] = pc[a]
      BY <1>1, <3>4, StartFacts
    <3>6. \A a \in Tasks : pc'[a] \in {pc[a], "connect"}
      BY <1>1, StartFacts
    <3> QED
      BY <3>1, <3>3, <3>5, <3>6 DEF NoUseAfterDispose
  <2> QED
    BY <2>1, <2>2
<1>2. CASE \E t \in Tests : FinishTest(t)
  BY <1>2 DEF FinishTest, Go, NoUseAfterDispose, TypeOK, Places, objects, flags, history
<1>3. CASE Join
  BY <1>3 DEF Join, Go, NoUseAfterDispose, TypeOK, Places, objects, flags, history
<1>4. CASE ClearSessions
  BY <1>4 DEF ClearSessions, Go, NoUseAfterDispose, TypeOK, Places, Dealing, objects, flags,
     history
<1>5. CASE Quiet /\ Harmless
  BY <1>5 DEF Quiet, Harmless, NoneThrows, NoUseAfterDispose
<1>6. CASE Quiet /\ Dispose
  <2>1. CASE overlapped
    BY <1>6, <2>1 DEF Quiet, NoUseAfterDispose
  <2>2. CASE ~overlapped
    <3>1. \A a \in Tasks : pc[a] \in {"none", "done"}
      BY <1>6, <2>2 DEF Dispose, At, OneTest
    <3>2. /\ disposed' = disposed \cup {cur[UI]} /\ cur[UI] # None /\ crashed' = crashed
      BY <1>6, DealsWithMade, NoneAssumption DEF Dispose, At
    <3>3. \A a \in Tasks : pc[a] = "none" => cur'[a] \notin disposed'
      <4>1. None \notin disposed
        BY NoneAssumption DEF TypeOK, Data
      <4>2. \A a \in Tasks : pc[a] = "none" => cur'[a] = None
        BY <1>6 DEF Quiet, Fresh
      <4> QED
        BY <3>2, <4>1, <4>2
    <3>4. \A a \in Tasks : pc'[a] = pc[a]
      BY <1>6, <3>1 DEF Quiet
    <3> QED
      BY <2>2, <3>1, <3>2, <3>3, <3>4 DEF NoUseAfterDispose
  <2> QED
    BY <2>1, <2>2
<1>7. CASE Quiet /\ \E a \in Tasks : UseDisposed(a) \/ UseFreed(a)
  <2>1. PICK a \in Tasks : UseDisposed(a) \/ UseFreed(a)
    BY <1>7
  <2>2. cur[a] \in disposed /\ pc[a] # "done"
    BY <2>1 DEF UseDisposed, UseFreed, Calls, TypeOK, Data
  <2>3. overlapped
    BY <2>2 DEF NoUseAfterDispose
  <2> QED
    BY <1>7, <2>3 DEF Quiet, NoUseAfterDispose
<1>8. ASSUME NEW t \in Tests, FaultTest(t)
      PROVE  NoUseAfterDispose'
  BY <1>8 DEF FaultTest, NoUseAfterDispose, objects, history
<1> QED
  BY <1>1, <1>2, <1>3, <1>4, <1>5, <1>6, <1>7, <1>8, QuietStep

\* Every step keeps it.
LEMMA NextIInv == IInv /\ [Next]_vars => IInv'
BY TypeStep, JoinedStep, OneTestStep, FreshStep, NoUseStep, OneDisconnectStep,
   OneReceiveStep, OwnersFoundStep, StaysOffStep, ListedStep, HeldStep, RecvOwnedStep,
   DiscOwnedStep, OneSendStep, SettledStep DEF IInv

\* The invariant of every number of threads and tests, and of every set of sessions.
THEOREM Invariance == Spec => []IInv
<1>1. Init => IInv
  BY InitIInv
<1>2. IInv /\ [Next]_vars => IInv'
  BY NextIInv
<1> QED
  BY <1>1, <1>2, PTL DEF Spec

\* Every variable keeps its type, however many tests run and overlap.
THEOREM TypeCorrect == Spec => []TypeOK
<1>1. IInv => TypeOK
  BY DEF IInv
<1> QED
  BY <1>1, Invariance, PTL

\* DisconnectAll goes on to disconnect and dispose only when no dispatch thread of any
\* test is left, however many there are and however tests overlap.
THEOREM StopsFirstCorrect == Spec => []StopsFirst
<1>1. IInv => StopsFirst
  BY ActorFacts DEF IInv, Joined, StopsFirst, TypeOK
<1> QED
  BY <1>1, Invariance, PTL

\* No scenario uses a session that was disposed, unless tests overlap.
THEOREM NoUseAfterDisposeCorrect == Spec => []NoUseAfterDispose
<1>1. IInv => NoUseAfterDispose
  BY DEF IInv
<1> QED
  BY <1>1, Invariance, PTL

\* No exception ends the tool or a task, but where tests overlap, Disconnect is called
\* into the middle of another, or a session was disposed with an operation pending.
THEOREM SurvivesCorrect == Spec => []Survives
<1>1. ASSUME IInv
      PROVE  Survives
  <2>1. ASSUME NEW s \in Sessions \ raced, disconnecting[s] > 0
        PROVE  s \in discOwner
    <3>1. disconnecting[s] \in Nat
      BY <1>1 DEF IInv, TypeOK, Data
    <3> QED
      BY <1>1, <2>1, <3>1 DEF IInv, OneDisconnect
  <2>2. OwnedUnlessRaced
    BY <1>1, <2>1 DEF IInv, OwnedUnlessRaced, OwnersFound
  <2>3. LateOnly
    <3>1. CASE overlapped
      BY <3>1 DEF LateOnly
    <3>2. CASE ~overlapped
      BY <1>1, <3>2 DEF IInv, Settled, SettledOf, LateOnly
    <3> QED
      BY <3>1, <3>2
  <2> QED
    BY <1>1, <2>2, <2>3 DEF IInv, Survives
<1> QED
  BY <1>1, Invariance, PTL

\* While the program runs no session that was disposed is connected, whatever the order
\* in which sockets are closed and completions taken, and no thread posts for it.
THEOREM NoOrphanCorrect == Spec => []NoOrphan
<1>1. IInv => NoOrphan
  BY DEF IInv, StaysOff, NoOrphan
<1> QED
  BY <1>1, Invariance, PTL

\* A session that no list has any more is destroyed, or what keeps it is pending or
\* somebody who deals with it, but for the three cases in which a reference stays for
\* good.
THEOREM FreedAtLastCorrect == Spec => []FreedAtLast
<1>1. ASSUME IInv
      PROVE  FreedAtLast
  <2> SUFFICES ASSUME NEW s \in made \ (sessions \cup dead \cup refused \cup leaked \cup raced)
               PROVE  \/ connecting[s] + receiving[s] + sending[s] + disconnecting[s] > 0
                      \/ \E a \in Actors : cur[a] = s /\ pc[a] \notin {"done", "faulted"}
    BY DEF FreedAtLast
  <2> DEFINE c == connecting[s]
             r == receiving[s]
             f == sending[s]
             d == disconnecting[s]
  <2>1. c \in Nat /\ r \in Nat /\ f \in Nat /\ d \in Nat
    BY <1>1 DEF IInv, TypeOK, Data
  <2>2. c > 0 \/ r > 0 \/ f > 0 \/ d > 0 => c + r + f + d > 0
    <3> HIDE DEF c, r, f, d
    <3> QED
      BY <2>1
  <2>3. Referred(s)
    BY <1>1 DEF IInv, Listed, Held
  <2>4. CASE s \in recvOwner
    <3>1. receiving[s] > 0 \/ \E th \in Threads : cur[th] = s /\ pc[th] \in {"recv", "procRecv"}
      BY <1>1, <2>4 DEF IInv, RecvOwned
    <3> QED
      BY <2>2, <3>1, ActorFacts
  <2>5. CASE s \in sendOwner
    <3>1. \/ sending[s] > 0
          \/ \E a \in Actors : cur[a] = s /\ pc[a] \in {"postSend", "procSend"}
      BY <1>1, <2>5 DEF IInv, SendOwned
    <3> QED
      BY <2>2, <3>1
  <2>6. CASE s \in discOwner
    <3>1. disconnecting[s] > 0 \/ \E a \in Actors : InDisc(a, s)
      BY <1>1, <2>6 DEF IInv, DiscOwned
    <3> QED
      BY <2>2, <3>1 DEF InDisc
  <2>7. CASE connecting[s] > 0
    BY <2>2, <2>7
  <2>8. CASE \E th \in Threads : cur[th] = s
    BY <1>1, <2>8, ActorFacts DEF IInv, TypeOK, Places, ThreadPlaces
  <2> QED
    BY <2>3, <2>4, <2>5, <2>6, <2>7, <2>8 DEF Referred
<1> QED
  BY <1>1, Invariance, PTL
==============================================================================
