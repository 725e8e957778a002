-------------------------- MODULE SessionLifeProofs --------------------------
(***************************************************************************)
(* Proofs about SessionLife, for any sessions, handles, accept events and  *)
(* workers.                                                                *)
(*                                                                         *)
(* The properties say what the OS, the events and the set of sessions      *)
(* refer to.  None of them is inductive: they rest on what each worker     *)
(* holds at its place in the code (Holds), on a session being in the hands *)
(* of one worker from its creation to its first receive (Fresh, Alone),    *)
(* and on what a first call of Disconnect leaves behind until DeleteSession *)
(* (DisconnectedOnce, Leaving).                                            *)
(***************************************************************************)
EXTENDS SessionLife, FiniteSetTheorems, TLAPS

\* From Disconnect to DeleteSession.
DisconnectPlaces == {"discOwner", "discEx", "procDisc", "discReset", "delete"}

\* Where a worker has a session that ProcessConnect has not seen yet.
NewPlaces == {"sockopt", "connect", "assign", "accept"}

\* Where a worker may use the session's receive buffer.
UserPlaces == RecvPlaces \cup {"connect"}

\* A session has a socket handle, and nothing happens to it, once it is created.
CreatedFirst ==
  /\ \A s \in made : handle[s] \in Handles
  /\ \A s \in Sessions : s \notin made => calls[s] = 0 /\ disconnecting[s] = 0

\* A worker has an accept event in ProcessAccept and RegisterAccept, not in the
\* dispatch of another event; an idle one has nothing.
Places ==
  \A w \in Workers :
    /\ pc[w] \in AcceptPlaces => at[w] # None
    /\ pc[w] \in {"idle", "procRecv", "disconnect", "release"} \cup DisconnectPlaces
         => at[w] = None
    /\ pc[w] = "idle" => cur[w] = None
    /\ pc[w] = "idle" /\ crashed = "no" => held[w] = {}

\* An accept event is accepting, or one worker has it.
SlotsTaken ==
  /\ crashed # "session" =>
       \A k \in Slots : k \in accepting \/ \E w \in Workers : at[w] = k
  /\ \A u, w \in Workers : at[u] = at[w] /\ at[w] # None => u = w
  /\ \A w \in Workers : at[w] \notin accepting

\* No two accept events have the same session, nor will they.
SlotsDiffer ==
  /\ \A j, k \in Slots : slot[j] = slot[k] /\ slot[k] # None => j = k
  /\ \A w \in Workers : pc[w] = "assign" => \A k \in Slots : slot[k] # cur[w]

\* What keeps the session a worker deals with alive: the accept event before
\* RegisterAccept, a local shared_ptr everywhere else.
Holds ==
  \A w \in Workers :
    /\ pc[w] \in {"sockopt", "connect", "forget"} \cup RecvPlaces /\ at[w] # None =>
         slot[at[w]] = cur[w] /\ held[w] = {}
    /\ pc[w] \in RecvPlaces \cup DisconnectPlaces \cup {"disconnect"} /\ at[w] = None =>
         cur[w] \in held[w]
    /\ pc[w] \in {"assign", "accept"} => cur[w] \in held[w]
    /\ pc[w] = "accept" => slot[at[w]] = cur[w]
    /\ pc[w] \in {"create", "assign"} => slot[at[w]] \notin held[w]

\* A destroyed session is nowhere: only a worker that is done with it knows it.
Buried ==
  \A s \in dead :
    /\ s \notin sessions \cup recvOwner \cup discOwner \cup sending
    /\ \A k \in Slots : slot[k] # s
    /\ \A w \in Workers : s \notin held[w]
    /\ \A w \in Workers : cur[w] = s => pc[w] \in {"create", "release"}

\* A session nobody has connected, or used, yet.
New(s) == s \notin isConnect \cup receiving \cup sending /\ calls[s] = 0

\* The session of an accept is new until ProcessConnect, and no other worker
\* deals with it.
Fresh ==
  /\ \A k \in accepting : New(slot[k])
  /\ \A w \in Workers : pc[w] \in NewPlaces => New(cur[w])
  /\ \A w \in Workers, k \in accepting :
       cur[w] = slot[k] => pc[w] \in {"create", "release"}
  /\ \A u, w \in Workers :
       pc[w] \in NewPlaces /\ cur[u] = cur[w] /\ u # w => pc[u] \in {"create", "release"}

\* One worker, or the OS, uses a session's receive buffer.
Alone ==
  /\ \A w \in Workers : pc[w] \in UserPlaces => cur[w] \notin receiving
  /\ \A u, w \in Workers :
       pc[u] \in UserPlaces /\ pc[w] \in UserPlaces /\ cur[u] = cur[w] => u = w

\* The receive event has its owner before the OS gets it, and until it is done.
Owned ==
  /\ receiving \subseteq recvOwner
  /\ \A w \in Workers : pc[w] = "recv" => cur[w] \in recvOwner

\* Before Disconnect is called, nothing of it has happened.
Undisturbed ==
  \A s \in Sessions : calls[s] = 0 =>
    /\ disconnecting[s] = 0 /\ s \notin discOwner
    /\ \A w \in Workers : cur[w] = s => pc[w] \notin DisconnectPlaces

\* After one call there is one DisconnectEx, or one worker on its way to it or
\* from it, and the owner is set from DisconnectOwner to the completion.
DisconnectedOnce ==
  /\ \A s \in Sessions : calls[s] <= 1 =>
       disconnecting[s] <= 1 /\ (disconnecting[s] > 0 => s \in discOwner)
  /\ \A w \in Workers : pc[w] \in DisconnectPlaces /\ calls[cur[w]] <= 1 =>
       disconnecting[cur[w]] = 0
  /\ \A w \in Workers : pc[w] = "discEx" /\ calls[cur[w]] <= 1 => cur[w] \in discOwner
  /\ \A u, w \in Workers :
       /\ pc[u] \in DisconnectPlaces /\ pc[w] \in DisconnectPlaces
       /\ cur[u] = cur[w] /\ calls[cur[w]] <= 1
       => u = w

\* A connected session is in the server's set and was never disconnected; one in
\* its chain of receives was connected.
Connected ==
  /\ isConnect \subseteq sessions
  /\ \A s \in isConnect : calls[s] = 0
  /\ \A w \in Workers : pc[w] = "connect" => cur[w] \in sessions
  /\ \A w \in Workers : pc[w] \in RecvPlaces => cur[w] \in isConnect \/ calls[cur[w]] > 0
  /\ \A s \in receiving : s \in isConnect \/ calls[s] > 0

\* A disconnected session of the server's set is on its way to DeleteSession.
Leaving ==
  \A s \in sessions \ refused :
    calls[s] > 0 /\ crashed = "no" =>
      disconnecting[s] > 0 \/ \E w \in Workers : cur[w] = s /\ pc[w] \in DisconnectPlaces

\* The null owner needs a session that was disconnected twice.
OwnerCrash == crashed = "owner" => \E s \in Sessions : calls[s] >= 2

\* The inductive invariant.
IInv ==
  /\ TypeOK /\ CreatedFirst /\ Places /\ SlotsTaken /\ SlotsDiffer /\ Holds
  /\ Buried /\ Fresh /\ Alone /\ Owned /\ Undisturbed /\ DisconnectedOnce
  /\ Connected /\ Leaving /\ NoZombie /\ OwnerCrash /\ OwnSocket

------------------------------------------------------------------------------
(* What one reference less can do *)

\* Closing the socket of a session that is gone, or was disconnected, leaves every
\* other session its own.
LEMMA CloseFacts ==
  ASSUME TypeOK, CreatedFirst, OwnSocket, NEW s \in made, s \notin dead, Close(s),
         UNCHANGED <<made, calls>>, dead \subseteq dead', s \in dead' \/ calls[s] > 0
  PROVE  /\ handle' = handle /\ openedBy' \in [Handles -> made \cup {None}]
         /\ foreign' \in BOOLEAN
         /\ OwnSocket'
<1>1. /\ handle' = handle /\ handle[s] \in Handles
      /\ \A x \in Handles : openedBy'[x] = IF x = handle[s] THEN None ELSE openedBy[x]
      /\ openedBy' \in [Handles -> made \cup {None}]
  BY DEF Close, TypeOK, CreatedFirst
<1>2. foreign' \in BOOLEAN
  BY DEF Close, TypeOK
<1>3. CASE openedBy[handle[s]] \notin {s, None} \/ foreign
  <2>1. foreign'
    BY <1>3 DEF Close, TypeOK
  <2>2. \E u \in Sessions : calls[u] > 0
    BY <1>3 DEF TypeOK, OwnSocket
  <2> QED
    BY <1>1, <1>2, <2>1, <2>2 DEF OwnSocket
<1>4. CASE openedBy[handle[s]] \in {s, None} /\ ~foreign
  <2>1. ~foreign'
    BY <1>4 DEF Close, TypeOK
  <2>2. ASSUME NEW u \in made' \ dead', calls'[u] = 0
        PROVE  openedBy'[handle'[u]] = u
    <3>1. /\ u \in made /\ u \notin dead /\ u # s
          /\ openedBy[handle[u]] = u /\ handle[u] \in Handles
      BY <1>4, <2>2 DEF OwnSocket, CreatedFirst
    <3>2. u # None
      BY <3>1, NoneAssumption DEF TypeOK
    <3> QED
      BY <1>1, <1>4, <3>1, <3>2
  <2> QED
    BY <1>1, <1>2, <2>1, <2>2 DEF OwnSocket
<1> QED
  BY <1>3, <1>4

\* Dropping a reference destroys the session if it is the last one, and leaves every
\* other session its own socket.
LEMMA DropFacts ==
  ASSUME TypeOK, CreatedFirst, OwnSocket, NEW s, NEW last, Drop(s, last),
         last => s \in made /\ s \notin dead,
         UNCHANGED <<made, calls>>
  PROVE  /\ handle' = handle /\ openedBy' \in [Handles -> made \cup {None}]
         /\ foreign' \in BOOLEAN
         /\ OwnSocket'
         /\ dead' = dead \/ (last /\ dead' = dead \cup {s})
         /\ dead' \subseteq made
<1>1. CASE last
  BY <1>1, CloseFacts DEF Drop, TypeOK
<1>2. CASE ~last
  BY <1>2 DEF Drop, TypeOK, OwnSocket, sockets
<1> QED
  BY <1>1, <1>2

\* When only worker w and its accept event refer to a session, no other worker deals
\* with it.
LEMMA OthersDone ==
  ASSUME IInv, NEW w \in Workers, NEW s \in made, Unreferenced(s, w, at[w])
  PROVE  /\ s \notin sessions \cup recvOwner \cup discOwner \cup sending
         /\ \A k \in Slots : k # at[w] => slot[k] # s
         /\ \A u \in Workers : u # w => s \notin held[u]
         /\ \A u \in Workers : u # w /\ cur[u] = s => pc[u] \in {"create", "release"}
<1>1. TypeOK /\ Places /\ Holds /\ SlotsTaken
  BY DEF IInv
<1>2. /\ s \notin sessions \cup recvOwner \cup discOwner \cup sending
      /\ \A k \in Slots : k # at[w] => slot[k] # s
      /\ \A u \in Workers : u # w => s \notin held[u]
  BY DEF Unreferenced
<1>3. ASSUME NEW u \in Workers, u # w, cur[u] = s
      PROVE  pc[u] \in {"create", "release"}
  <2>1. /\ pc[u] \in AcceptPlaces \cup RecvPlaces \cup OtherPlaces
        /\ s # None /\ at[u] \in Slots \cup {None}
    BY <1>1, <1>3, NoneAssumption DEF TypeOK
  <2>2. at[u] # None => at[u] # at[w] /\ slot[at[u]] # s
    BY <1>1, <1>2, <1>3, <2>1 DEF SlotsTaken
  <2> QED
    BY <1>1, <1>2, <1>3, <2>1, <2>2
       DEF Places, Holds, AcceptPlaces, RecvPlaces, OtherPlaces, DisconnectPlaces
<1> QED
  BY <1>2, <1>3

------------------------------------------------------------------------------
(* One lemma per action: it keeps the inductive invariant. *)

\* One more WSASend for a session that is connected, so not destroyed.
LEMMA SendStep ==
  ASSUME IInv, NEW s \in Sessions, Send(s)
  PROVE  IInv'
<1>1. /\ crashed = "no" /\ TypeOK
      /\ s \in sessions /\ s \in isConnect
      /\ sending' = sending \cup {s}
      /\ UNCHANGED <<made, dead, handle, openedBy, isConnect, sessions, slot, accepting,
                     recvOwner, receiving, discOwner, disconnecting, pc, at, cur, held,
                     calls, refused, foreign, crashed>>
  BY DEF IInv, TypeOK, Send, sockets, objects, owners, history
<1>2. TypeOK'
  BY <1>1 DEF IInv, Send, TypeOK
<1>3. CreatedFirst' /\ OwnSocket' /\ OwnerCrash'
  BY <1>1 DEF IInv, CreatedFirst, OwnSocket, OwnerCrash
<1>4. Places' /\ SlotsTaken' /\ SlotsDiffer' /\ Holds'
  BY <1>1 DEF IInv, Places, SlotsTaken, SlotsDiffer, Holds
<1>5. Buried'
  BY <1>1 DEF IInv, Buried
<1>6. Fresh' /\ Alone'
  BY <1>1 DEF IInv, Fresh, New, Alone
<1>7. Owned' /\ Undisturbed' /\ DisconnectedOnce'
  BY <1>1 DEF IInv, Owned, Undisturbed, DisconnectedOnce
<1>8. Connected' /\ Leaving' /\ NoZombie'
  BY <1>1 DEF IInv, Connected, Leaving, NoZombie
<1> QED
  BY <1>2, <1>3, <1>4, <1>5, <1>6, <1>7, <1>8 DEF IInv

\* The accept event changes from the OS to the worker, with its new session.
LEMMA DequeueAcceptStep ==
  ASSUME IInv, NEW w \in Workers, NEW k \in Slots, DequeueAccept(w, k)
  PROVE  IInv'
<1>1. /\ crashed = "no" /\ TypeOK
      /\ pc[w] = "idle"
      /\ k \in accepting
      /\ accepting' = accepting \ {k}
      /\ \A u \in Workers : at'[u] = IF u = w THEN k ELSE at[u]
      /\ \A u \in Workers : cur'[u] = IF u = w THEN slot[k] ELSE cur[u]
      /\ \A u \in Workers : pc'[u] = IF u = w THEN "sockopt" ELSE pc[u]
      /\ UNCHANGED <<made, dead, handle, openedBy, isConnect, sessions, slot, recvOwner,
                     receiving, sending, discOwner, disconnecting, held, calls, refused,
                     foreign, crashed>>
  BY DEF IInv, TypeOK, DequeueAccept, sockets, objects, owners, history, Go, At
<1>2. TypeOK'
  BY <1>1 DEF IInv, DequeueAccept, Go, TypeOK, AcceptPlaces
<1>3. CreatedFirst' /\ OwnSocket' /\ OwnerCrash'
  BY <1>1 DEF IInv, CreatedFirst, OwnSocket, OwnerCrash
<1>4. Places' /\ SlotsTaken' /\ SlotsDiffer' /\ Holds'
  BY <1>1, NoneAssumption
     DEF IInv, Places, SlotsTaken, SlotsDiffer, Holds, DisconnectPlaces
<1>5. Buried'
  BY <1>1 DEF IInv, Buried
<1>6. Fresh' /\ Alone'
  BY <1>1
     DEF IInv, TypeOK, Fresh, New, SlotsDiffer, Alone, RecvPlaces, DisconnectPlaces,
         NewPlaces, UserPlaces
<1>7. Owned' /\ Undisturbed' /\ DisconnectedOnce'
  BY <1>1 DEF IInv, Owned, Undisturbed, DisconnectedOnce, DisconnectPlaces
<1>8. Connected' /\ Leaving' /\ NoZombie'
  BY <1>1 DEF IInv, Connected, Leaving, NoZombie, RecvPlaces, DisconnectPlaces
<1> QED
  BY <1>2, <1>3, <1>4, <1>5, <1>6, <1>7, <1>8 DEF IInv

\* The accepted session stays in the event, new as it is.
LEMMA AcceptFailedStep ==
  ASSUME IInv, NEW w \in Workers, AcceptFailed(w)
  PROVE  IInv'
<1>1. /\ crashed = "no" /\ TypeOK
      /\ pc[w] = "sockopt"
      /\ \A u \in Workers : pc'[u] = IF u = w THEN "create" ELSE pc[u]
      /\ UNCHANGED <<made, dead, handle, openedBy, isConnect, sessions, slot, accepting,
                     recvOwner, receiving, sending, discOwner, disconnecting, at, cur,
                     held, calls, refused, foreign, crashed>>
  BY DEF IInv, TypeOK, AcceptFailed, sockets, objects, io, owners, history, Go, At
<1>2. TypeOK'
  BY <1>1 DEF IInv, AcceptFailed, Go, TypeOK, AcceptPlaces
<1>3. CreatedFirst' /\ OwnSocket' /\ OwnerCrash'
  BY <1>1 DEF IInv, CreatedFirst, OwnSocket, OwnerCrash
<1>4. Places' /\ SlotsTaken' /\ SlotsDiffer' /\ Holds'
  BY <1>1
     DEF IInv, Places, SlotsTaken, SlotsDiffer, Holds, AcceptPlaces, DisconnectPlaces
<1>5. Buried'
  BY <1>1 DEF IInv, Buried
<1>6. Fresh' /\ Alone'
  BY <1>1 DEF IInv, Fresh, New, Alone, RecvPlaces, NewPlaces, UserPlaces
<1>7. Owned' /\ Undisturbed' /\ DisconnectedOnce'
  BY <1>1 DEF IInv, Owned, Undisturbed, DisconnectedOnce, DisconnectPlaces
<1>8. Connected' /\ Leaving' /\ NoZombie'
  BY <1>1 DEF IInv, Connected, Fresh, New, Leaving, NoZombie, RecvPlaces, NewPlaces
<1> QED
  BY <1>2, <1>3, <1>4, <1>5, <1>6, <1>7, <1>8 DEF IInv

\* The new session joins the server's set.
LEMMA AddSessionStep ==
  ASSUME IInv, NEW w \in Workers, AddSession(w)
  PROVE  IInv'
<1>1. /\ crashed = "no" /\ TypeOK
      /\ pc[w] = "sockopt"
      /\ sessions' = sessions \cup {cur[w]}
      /\ \A u \in Workers : pc'[u] = IF u = w THEN "connect" ELSE pc[u]
      /\ UNCHANGED <<made, dead, handle, openedBy, isConnect, slot, accepting,
                     recvOwner, receiving, sending, discOwner, disconnecting, at, cur,
                     held, calls, refused, foreign, crashed>>
  BY DEF IInv, TypeOK, AddSession, sockets, objects, io, owners, history, Go, At
<1>2. TypeOK'
  BY <1>1 DEF IInv, AddSession, Go, TypeOK, AcceptPlaces
<1>3. CreatedFirst' /\ OwnSocket' /\ OwnerCrash'
  BY <1>1 DEF IInv, CreatedFirst, OwnSocket, OwnerCrash
<1>4. Places' /\ SlotsTaken' /\ SlotsDiffer' /\ Holds'
  BY <1>1
     DEF IInv, Places, SlotsTaken, SlotsDiffer, Holds, AcceptPlaces, DisconnectPlaces
<1>5. Buried'
  BY <1>1 DEF IInv, Buried
<1>6. Fresh' /\ Alone'
  BY <1>1 DEF IInv, Fresh, New, Alone, RecvPlaces, NewPlaces, UserPlaces
<1>7. Owned' /\ Undisturbed' /\ DisconnectedOnce'
  BY <1>1 DEF IInv, Owned, Undisturbed, DisconnectedOnce, DisconnectPlaces
<1>8. Connected' /\ Leaving' /\ NoZombie'
  BY <1>1 DEF IInv, Connected, Fresh, New, Leaving, NoZombie, RecvPlaces, NewPlaces
<1> QED
  BY <1>2, <1>3, <1>4, <1>5, <1>6, <1>7, <1>8 DEF IInv

\* Only this worker knows the session it connects.
LEMMA ProcessConnectStep ==
  ASSUME IInv, NEW w \in Workers, ProcessConnect(w)
  PROVE  IInv'
<1>1. /\ crashed = "no" /\ TypeOK
      /\ pc[w] = "connect"
      /\ isConnect' = isConnect \cup {cur[w]}
      /\ \A u \in Workers : pc'[u] = IF u = w THEN "regCheck" ELSE pc[u]
      /\ UNCHANGED <<made, dead, handle, openedBy, sessions, slot, accepting, recvOwner,
                     receiving, sending, discOwner, disconnecting, at, cur, held, calls,
                     refused, foreign, crashed>>
  BY DEF IInv, TypeOK, ProcessConnect, sockets, objects, io, owners, history, Go, At
<1>2. TypeOK'
  BY <1>1 DEF IInv, ProcessConnect, Go, TypeOK, RecvPlaces
<1>3. CreatedFirst' /\ OwnSocket' /\ OwnerCrash'
  BY <1>1 DEF IInv, CreatedFirst, OwnSocket, OwnerCrash
<1>4. Places' /\ SlotsTaken' /\ SlotsDiffer' /\ Holds'
  BY <1>1
     DEF IInv, Places, SlotsTaken, SlotsDiffer, Holds, AcceptPlaces, DisconnectPlaces
<1>5. Buried'
  BY <1>1 DEF IInv, Buried
<1>6. Fresh' /\ Alone'
  BY <1>1 DEF IInv, Fresh, New, Alone, NewPlaces, UserPlaces
<1>7. Owned' /\ Undisturbed' /\ DisconnectedOnce'
  BY <1>1 DEF IInv, Owned, Undisturbed, DisconnectedOnce, DisconnectPlaces
<1>8. Connected' /\ Leaving' /\ NoZombie'
  BY <1>1 DEF IInv, Connected, Fresh, New, Leaving, NoZombie, RecvPlaces, NewPlaces
<1> QED
  BY <1>2, <1>3, <1>4, <1>5, <1>6, <1>7, <1>8 DEF IInv

\* The accept event lets go of a session that lives on in the set, or of its last
\* reference.
LEMMA ForgetAcceptedStep ==
  ASSUME IInv, NEW w \in Workers, ForgetAccepted(w)
  PROVE  IInv'
<1>1. /\ crashed = "no" /\ TypeOK
      /\ pc[w] = "forget"
      /\ \A k \in Slots : slot'[k] = IF k = at[w] THEN None ELSE slot[k]
      /\ \A u \in Workers : pc'[u] = IF u = w THEN "create" ELSE pc[u]
      /\ Drop(cur[w], Unreferenced(cur[w], w, at[w]))
      /\ UNCHANGED <<made, isConnect, sessions, accepting, recvOwner, receiving,
                     sending, discOwner, disconnecting, at, cur, held, calls, refused,
                     crashed>>
  BY DEF IInv, TypeOK, ForgetAccepted, io, owners, history, Go, At
<1>2. Unreferenced(cur[w], w, at[w]) => cur[w] \in made /\ cur[w] \notin dead
  BY <1>1 DEF IInv, Buried, TypeOK
<1>3. /\ handle' = handle /\ openedBy' \in [Handles -> made \cup {None}]
      /\ foreign' \in BOOLEAN
      /\ dead' = dead \/ (Unreferenced(cur[w], w, at[w]) /\ dead' = dead \cup {cur[w]})
      /\ dead' \subseteq made
  BY <1>1, <1>2, DropFacts DEF IInv
<1>4. OwnSocket'
  BY <1>1, <1>2, DropFacts DEF IInv
<1>5. ASSUME Unreferenced(cur[w], w, at[w])
      PROVE  /\ cur[w] \notin sessions \cup recvOwner \cup discOwner \cup sending
             /\ \A k \in Slots : k # at[w] => slot[k] # cur[w]
             /\ \A u \in Workers : u # w => cur[w] \notin held[u]
             /\ \A u \in Workers :
                  u # w /\ cur[u] = cur[w] => pc[u] \in {"create", "release"}
  BY <1>1, <1>2, <1>5, OthersDone DEF IInv, Places
<1>6. TypeOK'
  BY <1>1, <1>3 DEF IInv, ForgetAccepted, Go, TypeOK, Places, SlotsTaken, AcceptPlaces
<1>7. CreatedFirst' /\ OwnerCrash'
  BY <1>1, <1>3 DEF IInv, CreatedFirst, OwnerCrash
<1>8. Places' /\ SlotsTaken' /\ SlotsDiffer' /\ Holds'
  BY <1>1, <1>3
     DEF IInv, TypeOK, Places, SlotsTaken, SlotsDiffer, Holds, RecvPlaces, OtherPlaces,
         DisconnectPlaces
<1>9. Buried'
  BY <1>1, <1>2, <1>3, <1>5, NoneAssumption
     DEF IInv, TypeOK, Buried, Places, Holds, RecvPlaces, OtherPlaces
<1>10. Fresh' /\ Alone'
  BY <1>1, <1>3
     DEF IInv, TypeOK, Fresh, New, SlotsTaken, Undisturbed, Alone, AcceptPlaces,
         RecvPlaces, NewPlaces, UserPlaces
<1>11. Owned' /\ Undisturbed' /\ DisconnectedOnce'
  BY <1>1, <1>3 DEF IInv, Owned, Undisturbed, DisconnectedOnce, DisconnectPlaces
<1>12. Connected' /\ Leaving' /\ NoZombie'
  BY <1>1, <1>3 DEF IInv, Connected, Leaving, NoZombie, RecvPlaces, DisconnectPlaces
<1> QED
  BY <1>4, <1>6, <1>7, <1>8, <1>9, <1>10, <1>11, <1>12 DEF IInv

\* A session that did not exist before is new, and its handle was free.
LEMMA CreateSessionStep ==
  ASSUME IInv, NEW w \in Workers, NEW s \in Sessions, NEW h \in Handles,
         CreateSession(w, s, h)
  PROVE  IInv'
<1>1. /\ crashed = "no" /\ TypeOK
      /\ pc[w] = "create"
      /\ s \notin made
      /\ openedBy[h] = None
      /\ made' = made \cup {s}
      /\ \A u \in Sessions : handle'[u] = IF u = s THEN h ELSE handle[u]
      /\ \A u \in Handles : openedBy'[u] = IF u = h THEN s ELSE openedBy[u]
      /\ \A u \in Workers : held'[u] = IF u = w THEN held[w] \cup {s} ELSE held[u]
      /\ \A u \in Workers : cur'[u] = IF u = w THEN s ELSE cur[u]
      /\ \A u \in Workers : pc'[u] = IF u = w THEN "assign" ELSE pc[u]
      /\ UNCHANGED <<dead, isConnect, sessions, slot, accepting, recvOwner, receiving,
                     sending, discOwner, disconnecting, at, calls, refused, foreign,
                     crashed>>
  BY DEF IInv, TypeOK, CreateSession, io, owners, history, Go, At
<1>2. TypeOK'
  BY <1>1, NoneAssumption DEF IInv, CreateSession, Go, TypeOK, AcceptPlaces
<1>3. CreatedFirst' /\ OwnerCrash'
  BY <1>1 DEF IInv, TypeOK, CreatedFirst, OwnerCrash
<1>4. OwnSocket'
  <2>1. ASSUME NEW u \in made' \ dead', calls'[u] = 0, ~foreign
        PROVE  openedBy'[handle'[u]] = u
    <3>1. CASE u = s
      BY <1>1, <3>1 DEF TypeOK
    <3>2. CASE u # s
      <4>1. u \in made \ dead /\ calls[u] = 0 /\ u # None
        BY <1>1, <2>1, <3>2, NoneAssumption DEF TypeOK
      <4>2. openedBy[handle[u]] = u /\ handle[u] \in Handles /\ handle[u] # h
        BY <1>1, <2>1, <4>1 DEF IInv, OwnSocket, CreatedFirst
      <4> QED
        BY <1>1, <3>2, <4>1, <4>2 DEF TypeOK
    <3> QED
      BY <3>1, <3>2
  <2> QED
    BY <1>1, <2>1 DEF IInv, OwnSocket
<1>5. Places' /\ SlotsTaken' /\ SlotsDiffer' /\ Holds'
  BY <1>1, NoneAssumption
     DEF IInv, TypeOK, Places, SlotsTaken, SlotsDiffer, Holds, RecvPlaces, OtherPlaces,
         DisconnectPlaces
<1>6. Buried'
  BY <1>1 DEF IInv, TypeOK, Buried
<1>7. Fresh' /\ Alone'
  BY <1>1, NoneAssumption DEF IInv, TypeOK, Fresh, New, CreatedFirst, Alone, RecvPlaces
<1>8. Owned' /\ Undisturbed' /\ DisconnectedOnce'
  BY <1>1 DEF IInv, Owned, Undisturbed, DisconnectedOnce, DisconnectPlaces
<1>9. Connected' /\ Leaving' /\ NoZombie'
  BY <1>1 DEF IInv, Connected, Leaving, NoZombie, RecvPlaces, DisconnectPlaces
<1> QED
  BY <1>2, <1>3, <1>4, <1>5, <1>6, <1>7, <1>8, <1>9 DEF IInv

\* The accept event is empty, and the program ends.
LEMMA CreateSessionFailsStep ==
  ASSUME IInv, NEW w \in Workers, CreateSessionFails(w)
  PROVE  IInv'
<1>1. /\ crashed = "no" /\ TypeOK
      /\ pc[w] = "create"
      /\ \A k \in Slots : slot'[k] = IF k = at[w] THEN None ELSE slot[k]
      /\ \A u \in Workers : pc'[u] = IF u = w THEN "idle" ELSE pc[u]
      /\ \A u \in Workers : at'[u] = IF u = w THEN None ELSE at[u]
      /\ \A u \in Workers : cur'[u] = IF u = w THEN None ELSE cur[u]
      /\ crashed' = "session"
      /\ Drop(slot[at[w]], slot[at[w]] # None /\ Unreferenced(slot[at[w]], w, at[w]))
      /\ UNCHANGED <<made, isConnect, sessions, accepting, recvOwner, receiving,
                     sending, discOwner, disconnecting, held, calls, refused>>
  BY DEF IInv, TypeOK, CreateSessionFails, io, owners, history, At, Idle, Go
<1>2. slot[at[w]] # None /\ Unreferenced(slot[at[w]], w, at[w]) =>
        slot[at[w]] \in made /\ slot[at[w]] \notin dead
  BY <1>1 DEF IInv, Buried, Places, TypeOK, RecvPlaces, OtherPlaces
<1>3. /\ handle' = handle /\ openedBy' \in [Handles -> made \cup {None}]
      /\ foreign' \in BOOLEAN
      /\ \/ dead' = dead
         \/ /\ slot[at[w]] # None /\ Unreferenced(slot[at[w]], w, at[w])
            /\ dead' = dead \cup {slot[at[w]]}
      /\ dead' \subseteq made
  BY <1>1, <1>2, DropFacts DEF IInv
<1>4. OwnSocket'
  BY <1>1, <1>2, DropFacts DEF IInv
<1>5. ASSUME slot[at[w]] # None /\ Unreferenced(slot[at[w]], w, at[w])
      PROVE  /\ slot[at[w]] \notin sessions \cup recvOwner \cup discOwner \cup sending
             /\ \A k \in Slots : k # at[w] => slot[k] # slot[at[w]]
             /\ \A u \in Workers : u # w => slot[at[w]] \notin held[u]
             /\ \A u \in Workers :
                  u # w /\ cur[u] = slot[at[w]] => pc[u] \in {"create", "release"}
  BY <1>1, <1>2, <1>5, OthersDone DEF IInv, Places
<1>6. TypeOK'
  BY <1>1, <1>3
     DEF IInv, CreateSessionFails, Go, Idle, TypeOK, Places, SlotsTaken, RecvPlaces,
         OtherPlaces
<1>7. CreatedFirst' /\ OwnerCrash'
  BY <1>1, <1>3 DEF IInv, CreatedFirst, OwnerCrash
<1>8. Places' /\ SlotsTaken' /\ SlotsDiffer' /\ Holds'
  BY <1>1, <1>3, NoneAssumption
     DEF IInv, TypeOK, Places, SlotsTaken, SlotsDiffer, Holds, AcceptPlaces, RecvPlaces,
         DisconnectPlaces
<1>9. Buried'
  BY <1>1, <1>2, <1>3, <1>5, NoneAssumption DEF IInv, TypeOK, Buried, Holds
<1>10. Fresh' /\ Alone'
  BY <1>1, <1>3
     DEF IInv, TypeOK, Fresh, New, SlotsTaken, Alone, RecvPlaces, NewPlaces, UserPlaces
<1>11. Owned' /\ Undisturbed' /\ DisconnectedOnce'
  BY <1>1, <1>3 DEF IInv, Owned, Undisturbed, DisconnectedOnce, DisconnectPlaces
<1>12. Connected' /\ Leaving' /\ NoZombie'
  BY <1>1, <1>3 DEF IInv, Connected, Leaving, NoZombie, RecvPlaces
<1> QED
  BY <1>4, <1>6, <1>7, <1>8, <1>9, <1>10, <1>11, <1>12 DEF IInv

\* The event changes hands from an old session to the new one the worker holds.
LEMMA AssignSessionStep ==
  ASSUME IInv, NEW w \in Workers, AssignSession(w)
  PROVE  IInv'
<1>1. /\ crashed = "no" /\ TypeOK
      /\ pc[w] = "assign"
      /\ \A k \in Slots : slot'[k] = IF k = at[w] THEN cur[w] ELSE slot[k]
      /\ \A u \in Workers : pc'[u] = IF u = w THEN "accept" ELSE pc[u]
      /\ Drop(slot[at[w]], slot[at[w]] # None /\ Unreferenced(slot[at[w]], w, at[w]))
      /\ UNCHANGED <<made, isConnect, sessions, accepting, recvOwner, receiving,
                     sending, discOwner, disconnecting, at, cur, held, calls, refused,
                     crashed>>
  BY DEF IInv, TypeOK, AssignSession, io, owners, history, Go, At
<1>2. slot[at[w]] # None /\ Unreferenced(slot[at[w]], w, at[w]) =>
        slot[at[w]] \in made /\ slot[at[w]] \notin dead
  BY <1>1 DEF IInv, Buried, Places, TypeOK, RecvPlaces, OtherPlaces
<1>3. /\ handle' = handle /\ openedBy' \in [Handles -> made \cup {None}]
      /\ foreign' \in BOOLEAN
      /\ \/ dead' = dead
         \/ /\ slot[at[w]] # None /\ Unreferenced(slot[at[w]], w, at[w])
            /\ dead' = dead \cup {slot[at[w]]}
      /\ dead' \subseteq made
  BY <1>1, <1>2, DropFacts DEF IInv
<1>4. OwnSocket'
  BY <1>1, <1>2, DropFacts DEF IInv
<1>5. ASSUME slot[at[w]] # None /\ Unreferenced(slot[at[w]], w, at[w])
      PROVE  /\ slot[at[w]] \notin sessions \cup recvOwner \cup discOwner \cup sending
             /\ \A k \in Slots : k # at[w] => slot[k] # slot[at[w]]
             /\ \A u \in Workers : u # w => slot[at[w]] \notin held[u]
             /\ \A u \in Workers :
                  u # w /\ cur[u] = slot[at[w]] => pc[u] \in {"create", "release"}
  BY <1>1, <1>2, <1>5, OthersDone DEF IInv, Places
<1>6. TypeOK'
  BY <1>1, <1>3 DEF IInv, AssignSession, Go, TypeOK, Places, AcceptPlaces
<1>7. CreatedFirst' /\ OwnerCrash'
  BY <1>1, <1>3 DEF IInv, CreatedFirst, OwnerCrash
<1>8. Places' /\ SlotsTaken' /\ SlotsDiffer' /\ Holds'
  BY <1>1, <1>3
     DEF IInv, TypeOK, Places, SlotsTaken, SlotsDiffer, Fresh, Holds, RecvPlaces,
         OtherPlaces, DisconnectPlaces, NewPlaces
<1>9. Buried'
  BY <1>1, <1>2, <1>3, <1>5, NoneAssumption DEF IInv, Buried, Holds
<1>10. Fresh' /\ Alone'
  BY <1>1, <1>3
     DEF IInv, TypeOK, Fresh, New, SlotsTaken, Alone, RecvPlaces, NewPlaces, UserPlaces
<1>11. Owned' /\ Undisturbed' /\ DisconnectedOnce'
  BY <1>1, <1>3 DEF IInv, Owned, Undisturbed, DisconnectedOnce, DisconnectPlaces
<1>12. Connected' /\ Leaving' /\ NoZombie'
  BY <1>1, <1>3
     DEF IInv, Connected, Fresh, New, Leaving, NoZombie, RecvPlaces, NewPlaces
<1> QED
  BY <1>4, <1>6, <1>7, <1>8, <1>9, <1>10, <1>11, <1>12 DEF IInv

\* The accept event changes from the worker to the OS, with its new session.
LEMMA AcceptExStep ==
  ASSUME IInv, NEW w \in Workers, AcceptEx(w)
  PROVE  IInv'
<1>1. /\ crashed = "no" /\ TypeOK
      /\ pc[w] = "accept"
      /\ accepting' = accepting \cup {at[w]}
      /\ \A u \in Workers : at'[u] = IF u = w THEN None ELSE at[u]
      /\ \A u \in Workers : pc'[u] = IF u = w THEN "release" ELSE pc[u]
      /\ UNCHANGED <<made, dead, handle, openedBy, isConnect, sessions, slot, recvOwner,
                     receiving, sending, discOwner, disconnecting, cur, held, calls,
                     refused, foreign, crashed>>
  BY DEF IInv, TypeOK, AcceptEx, sockets, objects, owners, history, Go, At
<1>2. TypeOK'
  BY <1>1 DEF IInv, AcceptEx, Go, TypeOK, Holds, Places, RecvPlaces, OtherPlaces
<1>3. CreatedFirst' /\ OwnSocket' /\ OwnerCrash'
  BY <1>1 DEF IInv, CreatedFirst, OwnSocket, OwnerCrash
<1>4. Places'
  BY <1>1 DEF IInv, Places, AcceptPlaces
<1>5. SlotsTaken'
  BY <1>1, NoneAssumption DEF IInv, TypeOK, SlotsTaken, Places, RecvPlaces, OtherPlaces
<1>6. SlotsDiffer'
  BY <1>1 DEF IInv, SlotsDiffer
<1>7. Holds'
  BY <1>1 DEF IInv, Holds
<1>8. Buried'
  BY <1>1 DEF IInv, Buried
<1>9. Fresh' /\ Alone'
  BY <1>1 DEF IInv, Fresh, New, Holds, Alone, RecvPlaces, NewPlaces, UserPlaces
<1>10. Owned' /\ Undisturbed' /\ DisconnectedOnce'
  BY <1>1 DEF IInv, Owned, Undisturbed, DisconnectedOnce, DisconnectPlaces
<1>11. Connected' /\ Leaving' /\ NoZombie'
  BY <1>1 DEF IInv, Connected, Fresh, New, Leaving, NoZombie, RecvPlaces, NewPlaces
<1> QED
  BY <1>2, <1>3, <1>4, <1>5, <1>6, <1>7, <1>8, <1>9, <1>10, <1>11 DEF IInv

\* The event loses the session, which the worker still holds.
LEMMA AcceptExFailStep ==
  ASSUME IInv, NEW w \in Workers, AcceptExFail(w)
  PROVE  IInv'
<1>1. /\ crashed = "no" /\ TypeOK
      /\ pc[w] = "accept"
      /\ \A k \in Slots : slot'[k] = IF k = at[w] THEN None ELSE slot[k]
      /\ \A u \in Workers : pc'[u] = IF u = w THEN "create" ELSE pc[u]
      /\ UNCHANGED <<made, dead, handle, openedBy, isConnect, sessions, accepting,
                     recvOwner, receiving, sending, discOwner, disconnecting, at, cur,
                     held, calls, refused, foreign, crashed>>
  BY DEF IInv, TypeOK, AcceptExFail, sockets, objects, io, owners, history, Go, At
<1>2. TypeOK'
  BY <1>1 DEF IInv, AcceptExFail, Go, TypeOK, Places, SlotsTaken, AcceptPlaces
<1>3. CreatedFirst' /\ OwnSocket' /\ OwnerCrash'
  BY <1>1 DEF IInv, CreatedFirst, OwnSocket, OwnerCrash
<1>4. Places' /\ SlotsTaken' /\ SlotsDiffer' /\ Holds'
  BY <1>1, NoneAssumption
     DEF IInv, TypeOK, Places, SlotsTaken, SlotsDiffer, Holds, AcceptPlaces, RecvPlaces,
         DisconnectPlaces
<1>5. Buried'
  BY <1>1, NoneAssumption DEF IInv, TypeOK, Buried
<1>6. Fresh' /\ Alone'
  BY <1>1
     DEF IInv, TypeOK, Fresh, New, SlotsTaken, Alone, RecvPlaces, DisconnectPlaces,
         NewPlaces, UserPlaces
<1>7. Owned' /\ Undisturbed' /\ DisconnectedOnce'
  BY <1>1 DEF IInv, Owned, Undisturbed, DisconnectedOnce, DisconnectPlaces
<1>8. Connected' /\ Leaving' /\ NoZombie'
  BY <1>1 DEF IInv, Connected, Fresh, New, Leaving, NoZombie, RecvPlaces, NewPlaces
<1> QED
  BY <1>2, <1>3, <1>4, <1>5, <1>6, <1>7, <1>8 DEF IInv

\* Where a worker goes from RegisterRecv's check.
LEMMA RegisterCheckStep ==
  ASSUME IInv, NEW w \in Workers, RegisterCheck(w)
  PROVE  IInv'
<1>1. /\ crashed = "no" /\ TypeOK
      /\ pc[w] = "regCheck"
      /\ \A u \in Workers :
           pc'[u] = IF u # w THEN pc[u]
                    ELSE IF cur[w] \in isConnect THEN "regOwner" ELSE AfterRegister(w)
      /\ UNCHANGED <<made, dead, handle, openedBy, isConnect, sessions, slot, accepting,
                     recvOwner, receiving, sending, discOwner, disconnecting, at, cur,
                     held, calls, refused, foreign, crashed>>
  BY DEF IInv, TypeOK, RegisterCheck, sockets, objects, io, owners, history, Go, At
<1>2. TypeOK'
  BY <1>1
     DEF IInv, RegisterCheck, AfterRegister, Go, TypeOK, AcceptPlaces, RecvPlaces,
         OtherPlaces
<1>3. CreatedFirst' /\ OwnSocket' /\ OwnerCrash'
  BY <1>1 DEF IInv, CreatedFirst, OwnSocket, OwnerCrash
<1>4. Places' /\ SlotsTaken' /\ SlotsDiffer' /\ Holds'
  BY <1>1
     DEF IInv, AfterRegister, Places, SlotsTaken, SlotsDiffer, Holds, AcceptPlaces,
         RecvPlaces, DisconnectPlaces
<1>5. Buried'
  BY <1>1 DEF IInv, Buried
<1>6. Fresh' /\ Alone'
  BY <1>1 DEF IInv, AfterRegister, Fresh, New, Alone, RecvPlaces, NewPlaces, UserPlaces
<1>7. Owned' /\ Undisturbed' /\ DisconnectedOnce'
  BY <1>1
     DEF IInv, AfterRegister, Owned, Undisturbed, DisconnectedOnce, DisconnectPlaces
<1>8. Connected' /\ Leaving' /\ NoZombie'
  BY <1>1
     DEF IInv, AfterRegister, Connected, Leaving, NoZombie, RecvPlaces, DisconnectPlaces
<1> QED
  BY <1>2, <1>3, <1>4, <1>5, <1>6, <1>7, <1>8 DEF IInv

\* The receive event gets its owner before the receive is posted.
LEMMA RegisterOwnerStep ==
  ASSUME IInv, NEW w \in Workers, RegisterOwner(w)
  PROVE  IInv'
<1>1. /\ crashed = "no" /\ TypeOK
      /\ pc[w] = "regOwner"
      /\ recvOwner' = recvOwner \cup {cur[w]}
      /\ \A u \in Workers : pc'[u] = IF u = w THEN "recv" ELSE pc[u]
      /\ UNCHANGED <<made, dead, handle, openedBy, isConnect, sessions, slot, accepting,
                     receiving, sending, discOwner, disconnecting, at, cur, held, calls,
                     refused, foreign, crashed>>
  BY DEF IInv, TypeOK, RegisterOwner, sockets, objects, io, history, Go, At
<1>2. TypeOK'
  BY <1>1 DEF IInv, RegisterOwner, Go, TypeOK, RecvPlaces
<1>3. CreatedFirst' /\ OwnSocket' /\ OwnerCrash'
  BY <1>1 DEF IInv, CreatedFirst, OwnSocket, OwnerCrash
<1>4. Places' /\ SlotsTaken' /\ SlotsDiffer' /\ Holds'
  BY <1>1
     DEF IInv, Places, SlotsTaken, SlotsDiffer, Holds, AcceptPlaces, RecvPlaces,
         DisconnectPlaces
<1>5. Buried'
  BY <1>1 DEF IInv, Buried
<1>6. Fresh' /\ Alone'
  BY <1>1 DEF IInv, Fresh, New, Alone, RecvPlaces, NewPlaces, UserPlaces
<1>7. Owned' /\ Undisturbed' /\ DisconnectedOnce'
  BY <1>1 DEF IInv, Owned, Undisturbed, DisconnectedOnce, DisconnectPlaces
<1>8. Connected' /\ Leaving' /\ NoZombie'
  BY <1>1 DEF IInv, Connected, Leaving, NoZombie, RecvPlaces, DisconnectPlaces
<1> QED
  BY <1>2, <1>3, <1>4, <1>5, <1>6, <1>7, <1>8 DEF IInv

\* The receive buffer changes from its one worker to the OS.
LEMMA PostRecvStep ==
  ASSUME IInv, NEW w \in Workers, PostRecv(w)
  PROVE  IInv'
<1>1. /\ crashed = "no" /\ TypeOK
      /\ pc[w] = "recv"
      /\ receiving' = receiving \cup {cur[w]}
      /\ \A u \in Workers : pc'[u] = IF u = w THEN AfterRegister(w) ELSE pc[u]
      /\ UNCHANGED <<made, dead, handle, openedBy, isConnect, sessions, slot, accepting,
                     recvOwner, sending, discOwner, disconnecting, at, cur, held, calls,
                     refused, foreign, crashed>>
  BY DEF IInv, TypeOK, PostRecv, sockets, objects, owners, history, Go, At
<1>2. TypeOK'
  BY <1>1 DEF IInv, PostRecv, AfterRegister, Go, TypeOK, AcceptPlaces, OtherPlaces
<1>3. CreatedFirst' /\ OwnSocket' /\ OwnerCrash'
  BY <1>1 DEF IInv, CreatedFirst, OwnSocket, OwnerCrash
<1>4. Places' /\ SlotsTaken' /\ SlotsDiffer' /\ Holds'
  BY <1>1
     DEF IInv, AfterRegister, Places, SlotsTaken, SlotsDiffer, Holds, AcceptPlaces,
         RecvPlaces, DisconnectPlaces
<1>5. Buried'
  BY <1>1 DEF IInv, Buried
<1>6. Fresh' /\ Alone'
  BY <1>1 DEF IInv, AfterRegister, Fresh, New, Alone, RecvPlaces, NewPlaces, UserPlaces
<1>7. Owned' /\ Undisturbed' /\ DisconnectedOnce'
  BY <1>1
     DEF IInv, AfterRegister, Owned, Undisturbed, DisconnectedOnce, DisconnectPlaces
<1>8. Connected' /\ Leaving' /\ NoZombie'
  BY <1>1
     DEF IInv, AfterRegister, Connected, Leaving, NoZombie, RecvPlaces, DisconnectPlaces
<1> QED
  BY <1>2, <1>3, <1>4, <1>5, <1>6, <1>7, <1>8 DEF IInv

\* A refused receive leaves its owner, and is remembered.
LEMMA PostRecvFailStep ==
  ASSUME IInv, NEW w \in Workers, PostRecvFail(w)
  PROVE  IInv'
<1>1. /\ crashed = "no" /\ TypeOK
      /\ pc[w] = "recv"
      /\ refused' = refused \cup {cur[w]}
      /\ \A u \in Workers : pc'[u] = IF u = w THEN AfterRegister(w) ELSE pc[u]
      /\ UNCHANGED <<made, dead, handle, openedBy, isConnect, sessions, slot, accepting,
                     recvOwner, receiving, sending, discOwner, disconnecting, at, cur,
                     held, calls, foreign, crashed>>
  BY DEF IInv, TypeOK, PostRecvFail, sockets, objects, io, owners, Go, At
<1>2. TypeOK'
  BY <1>1 DEF IInv, PostRecvFail, AfterRegister, Go, TypeOK, AcceptPlaces, OtherPlaces
<1>3. CreatedFirst' /\ OwnSocket' /\ OwnerCrash'
  BY <1>1 DEF IInv, CreatedFirst, OwnSocket, OwnerCrash
<1>4. Places' /\ SlotsTaken' /\ SlotsDiffer' /\ Holds'
  BY <1>1
     DEF IInv, AfterRegister, Places, SlotsTaken, SlotsDiffer, Holds, AcceptPlaces,
         RecvPlaces, DisconnectPlaces
<1>5. Buried'
  BY <1>1 DEF IInv, Buried
<1>6. Fresh' /\ Alone'
  BY <1>1 DEF IInv, AfterRegister, Fresh, New, Alone, RecvPlaces, NewPlaces, UserPlaces
<1>7. Owned' /\ Undisturbed' /\ DisconnectedOnce'
  BY <1>1
     DEF IInv, AfterRegister, Owned, Undisturbed, DisconnectedOnce, DisconnectPlaces
<1>8. Connected' /\ Leaving' /\ NoZombie'
  BY <1>1 DEF IInv, AfterRegister, Connected, Leaving, NoZombie, RecvPlaces
<1> QED
  BY <1>2, <1>3, <1>4, <1>5, <1>6, <1>7, <1>8 DEF IInv

\* The receive buffer changes from the OS to the worker, which copies the owner.
LEMMA DequeueRecvStep ==
  ASSUME IInv, NEW w \in Workers, NEW s \in Sessions, DequeueRecv(w, s)
  PROVE  IInv'
<1>1. /\ crashed = "no" /\ TypeOK
      /\ pc[w] = "idle"
      /\ s \in receiving
      /\ receiving' = receiving \ {s}
      /\ \A u \in Workers : held'[u] = IF u = w THEN {s} ELSE held[u]
      /\ \A u \in Workers : cur'[u] = IF u = w THEN s ELSE cur[u]
      /\ \A u \in Workers : pc'[u] = IF u = w THEN "procRecv" ELSE pc[u]
      /\ UNCHANGED <<made, dead, handle, openedBy, isConnect, sessions, slot, accepting,
                     recvOwner, sending, discOwner, disconnecting, at, calls, refused,
                     foreign, crashed>>
  BY DEF IInv, TypeOK, DequeueRecv, At, TakeOwner, sockets, owners, history, Go
<1>2. TypeOK'
  BY <1>1, NoneAssumption DEF IInv, DequeueRecv, TakeOwner, Go, TypeOK, RecvPlaces
<1>3. CreatedFirst' /\ OwnSocket' /\ OwnerCrash'
  BY <1>1 DEF IInv, CreatedFirst, OwnSocket, OwnerCrash
<1>4. Places' /\ SlotsTaken' /\ SlotsDiffer' /\ Holds'
  BY <1>1 DEF IInv, Places, SlotsTaken, SlotsDiffer, Holds, AcceptPlaces
<1>5. Buried'
  BY <1>1 DEF IInv, Buried, Owned
<1>6. Fresh' /\ Alone'
  BY <1>1 DEF IInv, Fresh, New, Alone, NewPlaces
<1>7. Owned' /\ Undisturbed' /\ DisconnectedOnce'
  BY <1>1 DEF IInv, Owned, Undisturbed, DisconnectedOnce, DisconnectPlaces
<1>8. Connected' /\ Leaving' /\ NoZombie'
  BY <1>1 DEF IInv, Connected, Leaving, NoZombie, RecvPlaces, DisconnectPlaces
<1> QED
  BY <1>2, <1>3, <1>4, <1>5, <1>6, <1>7, <1>8 DEF IInv

\* The receive event loses its owner when no receive is pending.
LEMMA ProcessRecvStep ==
  ASSUME IInv, NEW w \in Workers, ProcessRecv(w)
  PROVE  IInv'
<1>1. /\ crashed = "no" /\ TypeOK
      /\ pc[w] = "procRecv"
      /\ recvOwner' = recvOwner \ {cur[w]}
      /\ \E there \in {"disconnect", "regCheck"} :
         \A u \in Workers : pc'[u] = IF u = w THEN there ELSE pc[u]
      /\ UNCHANGED <<made, dead, handle, openedBy, isConnect, sessions, slot, accepting,
                     receiving, sending, discOwner, disconnecting, at, cur, held, calls,
                     refused, foreign, crashed>>
  BY DEF IInv, TypeOK, ProcessRecv, sockets, objects, io, history, Go, At
<1>2. TypeOK'
  BY <1>1 DEF IInv, ProcessRecv, Go, TypeOK, RecvPlaces, OtherPlaces
<1>3. CreatedFirst' /\ OwnSocket' /\ OwnerCrash'
  BY <1>1 DEF IInv, CreatedFirst, OwnSocket, OwnerCrash
<1>4. Places' /\ SlotsTaken' /\ SlotsDiffer' /\ Holds'
  BY <1>1 DEF IInv, Places, SlotsTaken, SlotsDiffer, Holds, AcceptPlaces, RecvPlaces
<1>5. Buried'
  BY <1>1 DEF IInv, Buried
<1>6. Fresh' /\ Alone'
  BY <1>1 DEF IInv, Fresh, New, Alone, RecvPlaces, NewPlaces, UserPlaces
<1>7. Owned' /\ Undisturbed' /\ DisconnectedOnce'
  BY <1>1
     DEF IInv, Owned, Alone, Undisturbed, DisconnectedOnce, RecvPlaces,
         DisconnectPlaces, UserPlaces
<1>8. Connected' /\ Leaving' /\ NoZombie'
  BY <1>1 DEF IInv, Connected, Leaving, NoZombie, RecvPlaces, DisconnectPlaces
<1> QED
  BY <1>2, <1>3, <1>4, <1>5, <1>6, <1>7, <1>8 DEF IInv

\* A send ends, and the worker copies its owner.
LEMMA DequeueSendStep ==
  ASSUME IInv, NEW w \in Workers, NEW s \in Sessions, DequeueSend(w, s)
  PROVE  IInv'
<1>1. /\ crashed = "no" /\ TypeOK
      /\ pc[w] = "idle"
      /\ s \in sending
      /\ sending' = sending \ {s}
      /\ \A u \in Workers : held'[u] = IF u = w THEN {s} ELSE held[u]
      /\ \A u \in Workers : cur'[u] = IF u = w THEN s ELSE cur[u]
      /\ \E there \in {"disconnect", "release"} :
         \A u \in Workers : pc'[u] = IF u = w THEN there ELSE pc[u]
      /\ UNCHANGED <<made, dead, handle, openedBy, isConnect, sessions, slot, accepting,
                     recvOwner, receiving, discOwner, disconnecting, at, calls, refused,
                     foreign, crashed>>
  BY DEF IInv, TypeOK, DequeueSend, At, TakeOwner, sockets, owners, history, Go
<1>2. TypeOK'
  BY <1>1, NoneAssumption DEF IInv, DequeueSend, TakeOwner, Go, TypeOK, OtherPlaces
<1>3. CreatedFirst' /\ OwnSocket' /\ OwnerCrash'
  BY <1>1 DEF IInv, CreatedFirst, OwnSocket, OwnerCrash
<1>4. Places' /\ SlotsTaken' /\ SlotsDiffer' /\ Holds'
  BY <1>1 DEF IInv, Places, SlotsTaken, SlotsDiffer, Holds, AcceptPlaces
<1>5. Buried'
  BY <1>1 DEF IInv, Buried
<1>6. Fresh' /\ Alone'
  BY <1>1 DEF IInv, Fresh, New, Alone, RecvPlaces, NewPlaces, UserPlaces
<1>7. Owned' /\ Undisturbed' /\ DisconnectedOnce'
  BY <1>1 DEF IInv, Owned, Undisturbed, DisconnectedOnce, DisconnectPlaces
<1>8. Connected' /\ Leaving' /\ NoZombie'
  BY <1>1 DEF IInv, Connected, Leaving, NoZombie, RecvPlaces, DisconnectPlaces
<1> QED
  BY <1>2, <1>3, <1>4, <1>5, <1>6, <1>7, <1>8 DEF IInv

\* A first call finds nothing of a disconnect; the session is on its way out.
LEMMA DisconnectStep ==
  ASSUME IInv, NEW w \in Workers, Disconnect(w)
  PROVE  IInv'
<1>1. /\ crashed = "no" /\ TypeOK
      /\ pc[w] = "disconnect"
      /\ isConnect' = isConnect \ {cur[w]}
      /\ \A s \in Sessions : calls'[s] = IF s = cur[w] THEN calls[s] + 1 ELSE calls[s]
      /\ \A u \in Workers : pc'[u] = IF u = w THEN "discOwner" ELSE pc[u]
      /\ UNCHANGED <<made, dead, handle, openedBy, sessions, slot, accepting, recvOwner,
                     receiving, sending, discOwner, disconnecting, at, cur, held,
                     refused, foreign, crashed>>
  BY DEF IInv, TypeOK, Disconnect, sockets, objects, io, owners, Go, At
<1>2. TypeOK'
  BY <1>1 DEF IInv, Disconnect, Go, TypeOK, OtherPlaces
<1>3. CreatedFirst' /\ OwnSocket' /\ OwnerCrash'
  BY <1>1 DEF IInv, TypeOK, CreatedFirst, OwnSocket, OwnerCrash
<1>4. Places' /\ SlotsTaken' /\ SlotsDiffer' /\ Holds'
  BY <1>1 DEF IInv, Places, SlotsTaken, SlotsDiffer, Holds, AcceptPlaces
<1>5. Buried'
  BY <1>1 DEF IInv, Buried
<1>6. Fresh' /\ Alone'
  BY <1>1 DEF IInv, TypeOK, Fresh, New, Alone, RecvPlaces, NewPlaces, UserPlaces
<1>7. Owned' /\ Undisturbed'
  BY <1>1 DEF IInv, TypeOK, Owned, Undisturbed
<1>8. DisconnectedOnce'
  <2>1. /\ cur[w] \in made /\ calls[cur[w]] \in Nat /\ calls'[cur[w]] = calls[cur[w]] + 1
        /\ \A s \in Sessions :
             calls'[s] <= 1 => calls[s] <= 1 /\ (s = cur[w] => calls[s] = 0)
    BY <1>1 DEF TypeOK
  <2>2. calls'[cur[w]] <= 1 =>
          /\ disconnecting[cur[w]] = 0
          /\ \A u \in Workers : cur[u] = cur[w] => pc[u] \notin DisconnectPlaces
    BY <1>1, <2>1 DEF IInv, Undisturbed, TypeOK
  <2> QED
    BY <1>1, <2>1, <2>2 DEF IInv, DisconnectedOnce, TypeOK, DisconnectPlaces
<1>9. Connected' /\ Leaving' /\ NoZombie'
  BY <1>1 DEF IInv, TypeOK, Connected, Leaving, NoZombie, RecvPlaces, DisconnectPlaces
<1> QED
  BY <1>2, <1>3, <1>4, <1>5, <1>6, <1>7, <1>8, <1>9 DEF IInv

\* The disconnect event gets its owner.
LEMMA DisconnectOwnerStep ==
  ASSUME IInv, NEW w \in Workers, DisconnectOwner(w)
  PROVE  IInv'
<1>1. /\ crashed = "no" /\ TypeOK
      /\ pc[w] = "discOwner"
      /\ discOwner' = discOwner \cup {cur[w]}
      /\ \A u \in Workers : pc'[u] = IF u = w THEN "discEx" ELSE pc[u]
      /\ UNCHANGED <<made, dead, handle, openedBy, isConnect, sessions, slot, accepting,
                     recvOwner, receiving, sending, disconnecting, at, cur, held, calls,
                     refused, foreign, crashed>>
  BY DEF IInv, TypeOK, DisconnectOwner, sockets, objects, io, history, Go, At
<1>2. TypeOK'
  BY <1>1 DEF IInv, DisconnectOwner, Go, TypeOK, OtherPlaces
<1>3. CreatedFirst' /\ OwnSocket' /\ OwnerCrash'
  BY <1>1 DEF IInv, CreatedFirst, OwnSocket, OwnerCrash
<1>4. Places' /\ SlotsTaken' /\ SlotsDiffer' /\ Holds'
  BY <1>1
     DEF IInv, Places, SlotsTaken, SlotsDiffer, Holds, AcceptPlaces, DisconnectPlaces
<1>5. Buried'
  BY <1>1 DEF IInv, Buried
<1>6. Fresh' /\ Alone'
  BY <1>1 DEF IInv, Fresh, New, Alone, RecvPlaces, NewPlaces, UserPlaces
<1>7. Owned' /\ Undisturbed' /\ DisconnectedOnce'
  BY <1>1 DEF IInv, Owned, Undisturbed, DisconnectedOnce, DisconnectPlaces
<1>8. Connected' /\ Leaving' /\ NoZombie'
  BY <1>1 DEF IInv, Connected, Leaving, NoZombie, RecvPlaces, DisconnectPlaces
<1> QED
  BY <1>2, <1>3, <1>4, <1>5, <1>6, <1>7, <1>8 DEF IInv

\* The operation takes the worker's place on the way out.
LEMMA DisconnectExStep ==
  ASSUME IInv, NEW w \in Workers, DisconnectEx(w)
  PROVE  IInv'
<1>1. /\ crashed = "no" /\ TypeOK
      /\ pc[w] = "discEx"
      /\ \A s \in Sessions :
           disconnecting'[s] = IF s = cur[w] THEN disconnecting[s] + 1
                                 ELSE disconnecting[s]
      /\ \A u \in Workers : pc'[u] = IF u = w THEN "release" ELSE pc[u]
      /\ UNCHANGED <<made, dead, handle, openedBy, isConnect, sessions, slot, accepting,
                     recvOwner, receiving, sending, discOwner, at, cur, held, calls,
                     refused, foreign, crashed>>
  BY DEF IInv, TypeOK, DisconnectEx, sockets, objects, owners, history, Go, At
<1>2. TypeOK'
  BY <1>1 DEF IInv, DisconnectEx, Go, TypeOK, OtherPlaces
<1>3. CreatedFirst' /\ OwnSocket' /\ OwnerCrash'
  BY <1>1 DEF IInv, TypeOK, CreatedFirst, OwnSocket, OwnerCrash
<1>4. Places' /\ SlotsTaken' /\ SlotsDiffer' /\ Holds'
  BY <1>1
     DEF IInv, Places, SlotsTaken, SlotsDiffer, Holds, AcceptPlaces, DisconnectPlaces
<1>5. Buried'
  BY <1>1 DEF IInv, Buried
<1>6. Fresh' /\ Alone'
  BY <1>1 DEF IInv, Fresh, New, Alone, RecvPlaces, NewPlaces, UserPlaces
<1>7. Owned' /\ Undisturbed' /\ DisconnectedOnce'
  BY <1>1 DEF IInv, TypeOK, Owned, Undisturbed, DisconnectedOnce, DisconnectPlaces
<1>8. Connected' /\ Leaving' /\ NoZombie'
  BY <1>1
     DEF IInv, TypeOK, Connected, Fresh, Undisturbed, Leaving, NoZombie, OtherPlaces,
         DisconnectPlaces, UserPlaces
<1> QED
  BY <1>2, <1>3, <1>4, <1>5, <1>6, <1>7, <1>8 DEF IInv

\* A refused DisconnectEx resets the owner, and is remembered.
LEMMA DisconnectExFailStep ==
  ASSUME IInv, NEW w \in Workers, DisconnectExFail(w)
  PROVE  IInv'
<1>1. /\ crashed = "no" /\ TypeOK
      /\ pc[w] = "discEx"
      /\ discOwner' = discOwner \ {cur[w]}
      /\ refused' = refused \cup {cur[w]}
      /\ \A u \in Workers : pc'[u] = IF u = w THEN "release" ELSE pc[u]
      /\ UNCHANGED <<made, dead, handle, openedBy, isConnect, sessions, slot, accepting,
                     recvOwner, receiving, sending, disconnecting, at, cur, held, calls,
                     foreign, crashed>>
  BY DEF IInv, TypeOK, DisconnectExFail, sockets, objects, io, Go, At
<1>2. TypeOK'
  BY <1>1 DEF IInv, DisconnectExFail, Go, TypeOK, OtherPlaces
<1>3. CreatedFirst' /\ OwnSocket' /\ OwnerCrash'
  BY <1>1 DEF IInv, CreatedFirst, OwnSocket, OwnerCrash
<1>4. Places' /\ SlotsTaken' /\ SlotsDiffer' /\ Holds'
  BY <1>1
     DEF IInv, Places, SlotsTaken, SlotsDiffer, Holds, AcceptPlaces, DisconnectPlaces
<1>5. Buried'
  BY <1>1 DEF IInv, Buried
<1>6. Fresh' /\ Alone'
  BY <1>1 DEF IInv, Fresh, New, Alone, RecvPlaces, NewPlaces, UserPlaces
<1>7. Owned' /\ Undisturbed' /\ DisconnectedOnce'
  BY <1>1 DEF IInv, Owned, Undisturbed, DisconnectedOnce, DisconnectPlaces
<1>8. Connected' /\ Leaving' /\ NoZombie'
  BY <1>1 DEF IInv, Connected, Leaving, NoZombie, RecvPlaces
<1> QED
  BY <1>2, <1>3, <1>4, <1>5, <1>6, <1>7, <1>8 DEF IInv

\* A completion that finds the owner: the worker takes the operation's place.
LEMMA DequeueDisconnectStep ==
  ASSUME IInv, NEW w \in Workers, NEW s \in Sessions, s \in discOwner,
         DequeueDisconnect(w, s)
  PROVE  IInv'
<1>1. /\ crashed = "no" /\ TypeOK
      /\ pc[w] = "idle"
      /\ disconnecting[s] > 0
      /\ \A u \in Sessions :
           disconnecting'[u] = IF u = s THEN disconnecting[u] - 1
                                 ELSE disconnecting[u]
      /\ \A u \in Workers : held'[u] = IF u = w THEN {s} ELSE held[u]
      /\ \A u \in Workers : cur'[u] = IF u = w THEN s ELSE cur[u]
      /\ \A u \in Workers : pc'[u] = IF u = w THEN "procDisc" ELSE pc[u]
      /\ UNCHANGED <<made, dead, handle, openedBy, isConnect, sessions, slot, accepting,
                     recvOwner, receiving, sending, discOwner, at, calls, refused,
                     foreign, crashed>>
  BY DEF IInv, TypeOK, DequeueDisconnect, sockets, objects, owners, history, At,
         TakeOwner, Go
<1>2. TypeOK'
  BY <1>1, NoneAssumption
     DEF IInv, DequeueDisconnect, TakeOwner, Go, TypeOK, OtherPlaces
<1>3. CreatedFirst' /\ OwnSocket' /\ OwnerCrash'
  BY <1>1 DEF IInv, CreatedFirst, OwnSocket, OwnerCrash
<1>4. Places' /\ SlotsTaken' /\ SlotsDiffer' /\ Holds'
  BY <1>1 DEF IInv, Places, SlotsTaken, SlotsDiffer, Holds, AcceptPlaces
<1>5. Buried'
  BY <1>1 DEF IInv, Buried
<1>6. Fresh'
  BY <1>1 DEF IInv, Fresh, New, Undisturbed, NewPlaces
<1>7. Alone'
  BY <1>1 DEF IInv, Alone, RecvPlaces, UserPlaces
<1>8. Owned' /\ Undisturbed' /\ DisconnectedOnce'
  BY <1>1 DEF IInv, TypeOK, Owned, Undisturbed, DisconnectedOnce, DisconnectPlaces
<1>9. Connected'
  BY <1>1 DEF IInv, Connected, RecvPlaces
<1>10. Leaving'
  BY <1>1 DEF IInv, TypeOK, Leaving, DisconnectPlaces
<1>11. NoZombie'
  BY <1>1 DEF IInv, TypeOK, NoZombie, RecvPlaces
<1> QED
  BY <1>2, <1>3, <1>4, <1>5, <1>6, <1>7, <1>8, <1>9, <1>10, <1>11 DEF IInv

\* A completion without an owner belongs to a session disconnected twice.
LEMMA CompletionUnownedStep ==
  ASSUME IInv, NEW w \in Workers, NEW s \in Sessions, s \notin discOwner,
         DequeueDisconnect(w, s)
  PROVE  IInv'
<1>1. /\ crashed = "no" /\ TypeOK
      /\ pc[w] = "idle"
      /\ disconnecting[s] > 0
      /\ \A u \in Sessions :
           disconnecting'[u] = IF u = s THEN disconnecting[u] - 1
                                 ELSE disconnecting[u]
      /\ crashed' = "owner"
      /\ UNCHANGED <<made, dead, handle, openedBy, isConnect, sessions, slot, accepting,
                     recvOwner, receiving, sending, discOwner, pc, at, cur, held, calls,
                     refused, foreign>>
  BY DEF IInv, TypeOK, DequeueDisconnect, sockets, objects, owners, history, At,
         TakeOwner, Go
<1>2. TypeOK'
  BY <1>1 DEF IInv, DequeueDisconnect, TakeOwner, TypeOK
<1>3. CreatedFirst' /\ OwnSocket' /\ OwnerCrash'
  BY <1>1 DEF IInv, TypeOK, CreatedFirst, OwnSocket, OwnerCrash, DisconnectedOnce
<1>4. Places' /\ SlotsTaken' /\ SlotsDiffer' /\ Holds'
  BY <1>1 DEF IInv, Places, SlotsTaken, SlotsDiffer, Holds
<1>5. Buried'
  BY <1>1 DEF IInv, Buried
<1>6. Fresh' /\ Alone'
  BY <1>1 DEF IInv, Fresh, New, Alone
<1>7. Owned' /\ Undisturbed' /\ DisconnectedOnce'
  BY <1>1 DEF IInv, TypeOK, Owned, Undisturbed, DisconnectedOnce, DisconnectPlaces
<1>8. Connected' /\ Leaving' /\ NoZombie'
  BY <1>1 DEF IInv, Connected, Leaving, NoZombie
<1> QED
  BY <1>2, <1>3, <1>4, <1>5, <1>6, <1>7, <1>8 DEF IInv

\* The socket that is closed is that of a disconnected session.
LEMMA ProcessDisconnectStep ==
  ASSUME IInv, NEW w \in Workers, ProcessDisconnect(w)
  PROVE  IInv'
<1>1. /\ crashed = "no" /\ TypeOK
      /\ pc[w] = "procDisc"
      /\ \A u \in Workers : pc'[u] = IF u = w THEN "discReset" ELSE pc[u]
      /\ Close(cur[w])
      /\ UNCHANGED <<made, dead, isConnect, sessions, slot, accepting, recvOwner,
                     receiving, sending, discOwner, disconnecting, at, cur, held, calls,
                     refused, crashed>>
  BY DEF IInv, TypeOK, ProcessDisconnect, objects, io, owners, history, Go, At
<1>2. cur[w] \in made /\ cur[w] \notin dead /\ calls[cur[w]] > 0
  BY <1>1
     DEF IInv, Buried, Undisturbed, TypeOK, AcceptPlaces, RecvPlaces, OtherPlaces,
         DisconnectPlaces, NewPlaces, UserPlaces
<1>3. /\ handle' = handle /\ openedBy' \in [Handles -> made \cup {None}]
      /\ foreign' \in BOOLEAN
  BY <1>1, <1>2, CloseFacts DEF IInv
<1>4. OwnSocket'
  BY <1>1, <1>2, CloseFacts DEF IInv
<1>5. TypeOK'
  BY <1>1, <1>3 DEF IInv, ProcessDisconnect, Go, TypeOK, OtherPlaces
<1>6. CreatedFirst' /\ OwnerCrash'
  BY <1>1, <1>3 DEF IInv, CreatedFirst, OwnerCrash
<1>7. Places' /\ SlotsTaken' /\ SlotsDiffer' /\ Holds'
  BY <1>1, <1>3
     DEF IInv, Places, SlotsTaken, SlotsDiffer, Holds, AcceptPlaces, DisconnectPlaces
<1>8. Buried'
  BY <1>1, <1>3 DEF IInv, Buried
<1>9. Fresh' /\ Alone'
  BY <1>1, <1>3 DEF IInv, Fresh, New, Alone, RecvPlaces, NewPlaces, UserPlaces
<1>10. Owned' /\ Undisturbed' /\ DisconnectedOnce'
  BY <1>1, <1>3 DEF IInv, Owned, Undisturbed, DisconnectedOnce, DisconnectPlaces
<1>11. Connected' /\ Leaving' /\ NoZombie'
  BY <1>1, <1>3 DEF IInv, Connected, Leaving, NoZombie, RecvPlaces, DisconnectPlaces
<1> QED
  BY <1>4, <1>5, <1>6, <1>7, <1>8, <1>9, <1>10, <1>11 DEF IInv

\* The disconnect event loses its owner when nothing is pending, or was called twice.
LEMMA ResetDisconnectOwnerStep ==
  ASSUME IInv, NEW w \in Workers, ResetDisconnectOwner(w)
  PROVE  IInv'
<1>1. /\ crashed = "no" /\ TypeOK
      /\ pc[w] = "discReset"
      /\ discOwner' = discOwner \ {cur[w]}
      /\ \A u \in Workers : pc'[u] = IF u = w THEN "delete" ELSE pc[u]
      /\ UNCHANGED <<made, dead, handle, openedBy, isConnect, sessions, slot, accepting,
                     recvOwner, receiving, sending, disconnecting, at, cur, held, calls,
                     refused, foreign, crashed>>
  BY DEF IInv, TypeOK, ResetDisconnectOwner, sockets, objects, io, history, Go, At
<1>2. TypeOK'
  BY <1>1 DEF IInv, ResetDisconnectOwner, Go, TypeOK, OtherPlaces
<1>3. CreatedFirst' /\ OwnSocket' /\ OwnerCrash'
  BY <1>1 DEF IInv, CreatedFirst, OwnSocket, OwnerCrash
<1>4. Places' /\ SlotsTaken' /\ SlotsDiffer' /\ Holds'
  BY <1>1
     DEF IInv, Places, SlotsTaken, SlotsDiffer, Holds, AcceptPlaces, DisconnectPlaces
<1>5. Buried'
  BY <1>1 DEF IInv, Buried
<1>6. Fresh' /\ Alone'
  BY <1>1 DEF IInv, Fresh, New, Alone, RecvPlaces, NewPlaces, UserPlaces
<1>7. Owned' /\ Undisturbed' /\ DisconnectedOnce'
  BY <1>1 DEF IInv, Owned, Undisturbed, DisconnectedOnce, DisconnectPlaces
<1>8. Connected' /\ Leaving' /\ NoZombie'
  BY <1>1 DEF IInv, Connected, Leaving, NoZombie, RecvPlaces, DisconnectPlaces
<1> QED
  BY <1>2, <1>3, <1>4, <1>5, <1>6, <1>7, <1>8 DEF IInv

\* The session is out of the set.
LEMMA DeleteSessionStep ==
  ASSUME IInv, NEW w \in Workers, DeleteSession(w)
  PROVE  IInv'
<1>1. /\ crashed = "no" /\ TypeOK
      /\ pc[w] = "delete"
      /\ sessions' = sessions \ {cur[w]}
      /\ \A u \in Workers : pc'[u] = IF u = w THEN "release" ELSE pc[u]
      /\ UNCHANGED <<made, dead, handle, openedBy, isConnect, slot, accepting,
                     recvOwner, receiving, sending, discOwner, disconnecting, at, cur,
                     held, calls, refused, foreign, crashed>>
  BY DEF IInv, TypeOK, DeleteSession, sockets, objects, io, owners, history, Go, At
<1>2. TypeOK'
  BY <1>1 DEF IInv, DeleteSession, Go, TypeOK, OtherPlaces
<1>3. CreatedFirst' /\ OwnSocket' /\ OwnerCrash'
  BY <1>1 DEF IInv, CreatedFirst, OwnSocket, OwnerCrash
<1>4. Places' /\ SlotsTaken' /\ SlotsDiffer' /\ Holds'
  BY <1>1
     DEF IInv, Places, SlotsTaken, SlotsDiffer, Holds, AcceptPlaces, DisconnectPlaces
<1>5. Buried'
  BY <1>1 DEF IInv, Buried
<1>6. Fresh' /\ Alone'
  BY <1>1 DEF IInv, Fresh, New, Alone, RecvPlaces, NewPlaces, UserPlaces
<1>7. Owned' /\ Undisturbed' /\ DisconnectedOnce'
  BY <1>1 DEF IInv, Owned, Undisturbed, DisconnectedOnce, DisconnectPlaces
<1>8. Connected' /\ Leaving' /\ NoZombie'
  BY <1>1
     DEF IInv, TypeOK, Connected, Fresh, Undisturbed, Leaving, NoZombie,
         DisconnectPlaces, NewPlaces
<1> QED
  BY <1>2, <1>3, <1>4, <1>5, <1>6, <1>7, <1>8 DEF IInv

\* The worker's last shared_ptr goes away: with the last reference, the session too.
LEMMA ReleaseLastStep ==
  ASSUME IInv, NEW w \in Workers, NEW s \in Sessions, held[w] = {s}, Release(w, s)
  PROVE  IInv'
<1>1. /\ crashed = "no" /\ TypeOK
      /\ pc[w] = "release"
      /\ s \in held[w]
      /\ \A u \in Workers : held'[u] = IF u = w THEN {} ELSE held[u]
      /\ \A u \in Workers : pc'[u] = IF u = w THEN "idle" ELSE pc[u]
      /\ \A u \in Workers : at'[u] = IF u = w THEN None ELSE at[u]
      /\ \A u \in Workers : cur'[u] = IF u = w THEN None ELSE cur[u]
      /\ Drop(s, Unreferenced(s, w, None))
      /\ UNCHANGED <<made, isConnect, sessions, slot, accepting, recvOwner, receiving,
                     sending, discOwner, disconnecting, calls, refused, crashed>>
  BY DEF IInv, TypeOK, Release, io, owners, history, At, Idle, Go
<1>2. Unreferenced(s, w, None) => s \in made /\ s \notin dead
  BY <1>1 DEF IInv, Buried, TypeOK
<1>3. /\ handle' = handle /\ openedBy' \in [Handles -> made \cup {None}]
      /\ foreign' \in BOOLEAN
      /\ dead' = dead \/ (Unreferenced(s, w, None) /\ dead' = dead \cup {s})
      /\ dead' \subseteq made
  BY <1>1, <1>2, DropFacts DEF IInv
<1>4. OwnSocket'
  BY <1>1, <1>2, DropFacts DEF IInv
<1>5. ASSUME Unreferenced(s, w, None)
      PROVE  /\ s \notin sessions \cup recvOwner \cup discOwner \cup sending
             /\ \A k \in Slots : k # at[w] => slot[k] # s
             /\ \A u \in Workers : u # w => s \notin held[u]
             /\ \A u \in Workers : u # w /\ cur[u] = s => pc[u] \in {"create", "release"}
  BY <1>1, <1>2, <1>5, OthersDone DEF IInv, Places, DisconnectPlaces
<1>6. TypeOK'
  BY <1>1, <1>3 DEF IInv, Release, Go, Idle, TypeOK, OtherPlaces
<1>7. CreatedFirst' /\ OwnerCrash'
  BY <1>1, <1>3 DEF IInv, CreatedFirst, OwnerCrash
<1>8. Places' /\ SlotsTaken' /\ SlotsDiffer' /\ Holds'
  BY <1>1, <1>3
     DEF IInv, Places, SlotsTaken, SlotsDiffer, Holds, AcceptPlaces, RecvPlaces,
         DisconnectPlaces
<1>9. Buried'
  BY <1>1, <1>2, <1>3, <1>5, NoneAssumption DEF IInv, TypeOK, Buried, Places
<1>10. Fresh' /\ Alone'
  BY <1>1, <1>3 DEF IInv, TypeOK, Fresh, New, Alone, RecvPlaces, NewPlaces, UserPlaces
<1>11. Owned' /\ Undisturbed' /\ DisconnectedOnce'
  BY <1>1, <1>3 DEF IInv, Owned, Undisturbed, DisconnectedOnce, DisconnectPlaces
<1>12. Connected' /\ Leaving' /\ NoZombie'
  BY <1>1, <1>3 DEF IInv, Connected, Leaving, NoZombie, RecvPlaces, DisconnectPlaces
<1> QED
  BY <1>4, <1>6, <1>7, <1>8, <1>9, <1>10, <1>11, <1>12 DEF IInv

\* One of several shared_ptrs of the worker goes away.
LEMMA ReleaseOneStep ==
  ASSUME IInv, NEW w \in Workers, NEW s \in Sessions, held[w] # {s}, Release(w, s)
  PROVE  IInv'
<1>1. /\ crashed = "no" /\ TypeOK
      /\ pc[w] = "release"
      /\ s \in held[w]
      /\ \A u \in Workers : held'[u] = IF u = w THEN held[w] \ {s} ELSE held[u]
      /\ Drop(s, Unreferenced(s, w, None))
      /\ UNCHANGED <<made, isConnect, sessions, slot, accepting, recvOwner, receiving,
                     sending, discOwner, disconnecting, pc, at, cur, calls, refused,
                     crashed>>
  BY DEF IInv, TypeOK, Release, io, owners, history, At, Idle, Go
<1>2. Unreferenced(s, w, None) => s \in made /\ s \notin dead
  BY <1>1 DEF IInv, Buried, TypeOK
<1>3. /\ handle' = handle /\ openedBy' \in [Handles -> made \cup {None}]
      /\ foreign' \in BOOLEAN
      /\ dead' = dead \/ (Unreferenced(s, w, None) /\ dead' = dead \cup {s})
      /\ dead' \subseteq made
  BY <1>1, <1>2, DropFacts DEF IInv
<1>4. OwnSocket'
  BY <1>1, <1>2, DropFacts DEF IInv
<1>5. ASSUME Unreferenced(s, w, None)
      PROVE  /\ s \notin sessions \cup recvOwner \cup discOwner \cup sending
             /\ \A k \in Slots : k # at[w] => slot[k] # s
             /\ \A u \in Workers : u # w => s \notin held[u]
             /\ \A u \in Workers : u # w /\ cur[u] = s => pc[u] \in {"create", "release"}
  BY <1>1, <1>2, <1>5, OthersDone DEF IInv, Places, DisconnectPlaces
<1>6. TypeOK'
  BY <1>1, <1>3 DEF IInv, Release, TypeOK
<1>7. CreatedFirst' /\ OwnerCrash'
  BY <1>1, <1>3 DEF IInv, CreatedFirst, OwnerCrash
<1>8. Places' /\ SlotsTaken' /\ SlotsDiffer' /\ Holds'
  BY <1>1, <1>3
     DEF IInv, Places, SlotsTaken, SlotsDiffer, Holds, RecvPlaces, DisconnectPlaces
<1>9. Buried'
  BY <1>1, <1>2, <1>3, <1>5, NoneAssumption DEF IInv, Buried, Places
<1>10. Fresh' /\ Alone'
  BY <1>1, <1>3 DEF IInv, Fresh, New, Alone
<1>11. Owned' /\ Undisturbed' /\ DisconnectedOnce'
  BY <1>1, <1>3 DEF IInv, Owned, Undisturbed, DisconnectedOnce
<1>12. Connected' /\ Leaving' /\ NoZombie'
  BY <1>1, <1>3 DEF IInv, Connected, Leaving, NoZombie
<1> QED
  BY <1>4, <1>6, <1>7, <1>8, <1>9, <1>10, <1>11, <1>12 DEF IInv

------------------------------------------------------------------------------
(* The properties *)

\* The listener has just started.
LEMMA InitIInv == Init => IInv
<1> SUFFICES ASSUME Init
             PROVE  IInv
  OBVIOUS
<1>1. /\ slot \in [Slots -> made] /\ made \subseteq Sessions
      /\ \A j, k \in Slots : slot[j] = slot[k] => j = k
      /\ \A s \in made : \E k \in Slots : slot[k] = s
      /\ None \notin made
  BY NoneAssumption DEF Init, Injection, IsInjective, Range
<1>2. PICK h \in Injection(made, Handles) :
        /\ handle = [s \in Sessions |-> IF s \in made THEN h[s] ELSE None]
        /\ openedBy = [x \in Handles |-> IF x \in Range(h)
                                           THEN CHOOSE s \in made : h[s] = x
                                           ELSE None]
  BY DEF Init
<1>3. /\ h \in [made -> Handles]
      /\ \A s, t \in made : h[s] = h[t] => s = t
  BY <1>2 DEF Injection, IsInjective
<1>4. ASSUME NEW s \in made
      PROVE  handle[s] = h[s] /\ h[s] \in Handles /\ openedBy[h[s]] = s
  <2>1. handle[s] = h[s] /\ h[s] \in Handles /\ h[s] \in Range(h)
    BY <1>1, <1>2, <1>3, <1>4 DEF Range
  <2>2. openedBy[h[s]] = CHOOSE t \in made : h[t] = h[s]
    BY <1>2, <2>1
  <2>3. (CHOOSE t \in made : h[t] = h[s]) = s
    BY <1>3, <1>4
  <2> QED
    BY <2>1, <2>2, <2>3
<1>5. openedBy \in [Handles -> made \cup {None}]
  <2>1. ASSUME NEW x \in Range(h)
        PROVE  (CHOOSE s \in made : h[s] = x) \in made
    BY <1>3, <2>1 DEF Range
  <2> QED
    BY <1>2, <2>1
<1>6. TypeOK
  <2>1. handle \in [Sessions -> Handles \cup {None}]
    BY <1>2, <1>3
  <2>2. slot \in [Slots -> made \cup {None}] /\ \A k \in Slots : slot[k] # None
    BY <1>1
  <2>3. held \in [Workers -> SUBSET made]
    BY DEF Init
  <2> QED
    BY <1>1, <1>5, <2>1, <2>2, <2>3 DEF Init, TypeOK, OtherPlaces
<1>7. CreatedFirst /\ OwnSocket /\ OwnerCrash
  BY <1>1, <1>4 DEF Init, CreatedFirst, OwnSocket, OwnerCrash
<1>8. Places /\ SlotsTaken /\ SlotsDiffer /\ Holds
  BY <1>1, NoneAssumption
     DEF Init, Places, SlotsTaken, SlotsDiffer, Holds, AcceptPlaces, RecvPlaces, DisconnectPlaces
<1>9. Buried /\ Fresh /\ Alone
  BY <1>1 DEF Init, Buried, Fresh, New, NewPlaces, Alone, UserPlaces, RecvPlaces
<1>10. Owned /\ Undisturbed /\ DisconnectedOnce
  BY <1>1 DEF Init, Owned, Undisturbed, DisconnectedOnce, DisconnectPlaces
<1>11. Connected /\ Leaving /\ NoZombie
  BY <1>1 DEF Init, Connected, Leaving, NoZombie, RecvPlaces
<1> QED
  BY <1>6, <1>7, <1>8, <1>9, <1>10, <1>11 DEF IInv

\* Every step keeps the inductive invariant, by the lemma of its action.
LEMMA NextIInv ==
  ASSUME IInv, [Next]_vars
  PROVE  IInv'
<1>1. ASSUME NEW s \in Sessions, Send(s)
      PROVE  IInv'
  BY <1>1, SendStep
<1>2. ASSUME NEW w \in Workers, NEW k \in Slots, DequeueAccept(w, k)
      PROVE  IInv'
  BY <1>2, DequeueAcceptStep
<1>3. ASSUME NEW w \in Workers, AcceptFailed(w)
      PROVE  IInv'
  BY <1>3, AcceptFailedStep
<1>4. ASSUME NEW w \in Workers, AddSession(w)
      PROVE  IInv'
  BY <1>4, AddSessionStep
<1>5. ASSUME NEW w \in Workers, ProcessConnect(w)
      PROVE  IInv'
  BY <1>5, ProcessConnectStep
<1>6. ASSUME NEW w \in Workers, ForgetAccepted(w)
      PROVE  IInv'
  BY <1>6, ForgetAcceptedStep
<1>7. ASSUME NEW w \in Workers, NEW s \in Sessions, NEW h \in Handles,
             CreateSession(w, s, h)
      PROVE  IInv'
  BY <1>7, CreateSessionStep
<1>8. ASSUME NEW w \in Workers, CreateSessionFails(w)
      PROVE  IInv'
  BY <1>8, CreateSessionFailsStep
<1>9. ASSUME NEW w \in Workers, AssignSession(w)
      PROVE  IInv'
  BY <1>9, AssignSessionStep
<1>10. ASSUME NEW w \in Workers, AcceptEx(w)
      PROVE  IInv'
  BY <1>10, AcceptExStep
<1>11. ASSUME NEW w \in Workers, AcceptExFail(w)
      PROVE  IInv'
  BY <1>11, AcceptExFailStep
<1>12. ASSUME NEW w \in Workers, RegisterCheck(w)
      PROVE  IInv'
  BY <1>12, RegisterCheckStep
<1>13. ASSUME NEW w \in Workers, RegisterOwner(w)
      PROVE  IInv'
  BY <1>13, RegisterOwnerStep
<1>14. ASSUME NEW w \in Workers, PostRecv(w)
      PROVE  IInv'
  BY <1>14, PostRecvStep
<1>15. ASSUME NEW w \in Workers, PostRecvFail(w)
      PROVE  IInv'
  BY <1>15, PostRecvFailStep
<1>16. ASSUME NEW w \in Workers, NEW s \in Sessions, DequeueRecv(w, s)
      PROVE  IInv'
  BY <1>16, DequeueRecvStep
<1>17. ASSUME NEW w \in Workers, ProcessRecv(w)
      PROVE  IInv'
  BY <1>17, ProcessRecvStep
<1>18. ASSUME NEW w \in Workers, NEW s \in Sessions, DequeueSend(w, s)
      PROVE  IInv'
  BY <1>18, DequeueSendStep
<1>19. ASSUME NEW w \in Workers, Disconnect(w)
      PROVE  IInv'
  BY <1>19, DisconnectStep
<1>20. ASSUME NEW w \in Workers, DisconnectOwner(w)
      PROVE  IInv'
  BY <1>20, DisconnectOwnerStep
<1>21. ASSUME NEW w \in Workers, DisconnectEx(w)
      PROVE  IInv'
  BY <1>21, DisconnectExStep
<1>22. ASSUME NEW w \in Workers, DisconnectExFail(w)
      PROVE  IInv'
  BY <1>22, DisconnectExFailStep
<1>23. ASSUME NEW w \in Workers, NEW s \in Sessions, DequeueDisconnect(w, s)
      PROVE  IInv'
  BY <1>23, DequeueDisconnectStep, CompletionUnownedStep
<1>24. ASSUME NEW w \in Workers, ProcessDisconnect(w)
      PROVE  IInv'
  BY <1>24, ProcessDisconnectStep
<1>25. ASSUME NEW w \in Workers, ResetDisconnectOwner(w)
      PROVE  IInv'
  BY <1>25, ResetDisconnectOwnerStep
<1>26. ASSUME NEW w \in Workers, DeleteSession(w)
      PROVE  IInv'
  BY <1>26, DeleteSessionStep
<1>27. ASSUME NEW w \in Workers, NEW s \in Sessions, Release(w, s)
      PROVE  IInv'
  BY <1>27, ReleaseLastStep, ReleaseOneStep
<1>28. CASE UNCHANGED vars
  BY <1>28
     DEF vars, sockets, objects, io, owners, history, IInv, TypeOK, CreatedFirst,
         Places, SlotsTaken, SlotsDiffer, Holds, Buried, Fresh, New, Alone, Owned,
         Undisturbed, DisconnectedOnce, Connected, Leaving, NoZombie, OwnerCrash,
         OwnSocket
<1> QED
  BY <1>1, <1>2, <1>3, <1>4, <1>5, <1>6, <1>7, <1>8, <1>9, <1>10, <1>11, <1>12, <1>13,
     <1>14, <1>15, <1>16, <1>17, <1>18, <1>19, <1>20, <1>21, <1>22, <1>23, <1>24, <1>25,
     <1>26, <1>27, <1>28
     DEF Next

\* Each state of Listener, IOCPServer and Session satisfies the inductive invariant.
THEOREM Invariance == Spec => []IInv
<1>1. Init => IInv
  BY InitIInv
<1>2. IInv /\ [Next]_vars => IInv'
  BY NextIInv
<1> QED
  BY <1>1, <1>2, PTL DEF Spec

\* The events of the OS hold what they point to: while an operation is pending its
\* owner is set, its completion calls through no null pointer, and nothing in use
\* refers to a session that ~Session has run for; for disconnects, as long as
\* Session::Disconnect was called once.
THEOREM ReferencesRight == Spec => []References
<1>1. IInv => References
  <2> SUFFICES ASSUME IInv
               PROVE  References
    OBVIOUS
  <2>1. PendingOwned
    BY DEF IInv, TypeOK, Owned, DisconnectedOnce, OwnerCrash, PendingOwned
  <2>2. NoDangling
    BY DEF IInv, TypeOK, Owned, DisconnectedOnce, Buried, NoDangling
  <2> QED
    BY <2>1, <2>2 DEF IInv, References
<1> QED
  BY <1>1, Invariance, PTL

\* How many members a set has whose members are all the same.
LEMMA AtMostOne ==
  ASSUME NEW S, \A a, b \in S : a = b
  PROVE  /\ Cardinality(S) \in {0, 1}
         /\ S # {} => Cardinality(S) = 1
         /\ S = {} => Cardinality(S) = 0
<1>1. CASE S = {}
  BY <1>1, FS_EmptySet
<1>2. CASE S # {}
  <2>1. PICK a \in S : TRUE
    BY <1>2
  <2>2. S = {a}
    BY <2>1
  <2> QED
    BY <1>2, <2>2, FS_Singleton
<1> QED
  BY <1>1, <1>2

\* Two threads, or a thread and the OS, never use a session's receive buffer at a
\* time: RegisterRecv's WSARecvs make one chain.
THEOREM ReceivesInOneChain == Spec => []OneChain
<1>1. IInv => OneChain
  <2> SUFFICES ASSUME IInv, NEW s \in Sessions
               PROVE  LET users == {w \in Workers :
                                    cur[w] = s /\ pc[w] \in RecvPlaces \cup {"connect"}}
                      IN  Cardinality(users) + (IF s \in receiving THEN 1 ELSE 0) <= 1
    BY DEF OneChain
  <2> DEFINE users == {w \in Workers : cur[w] = s /\ pc[w] \in RecvPlaces \cup {"connect"}}
  <2>1. /\ \A a, b \in users : a = b
        /\ s \in receiving => users = {}
    BY DEF IInv, Alone, UserPlaces
  <2> HIDE DEF users
  <2>2. /\ Cardinality(users) \in {0, 1}
        /\ users = {} => Cardinality(users) = 0
    BY <2>1, AtMostOne
  <2>3. Cardinality(users) + (IF s \in receiving THEN 1 ELSE 0) <= 1
    BY <2>1, <2>2
  <2> QED
    BY <2>3 DEF users
<1> QED
  BY <1>1, Invariance, PTL

\* Every accept event is accepting, or in the hands of exactly one worker of
\* ProcessAccept and RegisterAccept, as long as CreateSession does not fail.
THEOREM NoSlotLost == Spec => []SlotNeverLost
<1>1. IInv => SlotNeverLost
  <2> SUFFICES ASSUME IInv, crashed # "session", NEW k \in Slots
               PROVE  LET users == {w \in Workers : at[w] = k}
                      IN  Cardinality(users) + (IF k \in accepting THEN 1 ELSE 0) = 1
    BY DEF SlotNeverLost
  <2> DEFINE users == {w \in Workers : at[w] = k}
  <2>1. /\ \A a, b \in users : a = b
        /\ k \in accepting <=> users = {}
    BY NoneAssumption DEF IInv, SlotsTaken
  <2> HIDE DEF users
  <2>2. /\ users # {} => Cardinality(users) = 1
        /\ users = {} => Cardinality(users) = 0
    BY <2>1, AtMostOne
  <2>3. Cardinality(users) + (IF k \in accepting THEN 1 ELSE 0) = 1
    BY <2>1, <2>2
  <2> QED
    BY <2>3 DEF users
<1> QED
  BY <1>1, Invariance, PTL

\* IOCPServer's set has every session that is connected, and any other of its
\* sessions is on its way out unless the OS has refused an operation.
THEOREM ServerSetRight == Spec => []ServerSet
<1>1. IInv => ServerSet
  BY DEF IInv, ServerSet, Listed, Connected
<1> QED
  BY <1>1, Invariance, PTL

\* Nobody but a session itself closes its socket before it is disconnected, unless
\* another session was disconnected, and so closed its handle twice.
THEOREM SocketsOwned == Spec => []OwnSocket
<1>1. IInv => OwnSocket
  BY DEF IInv
<1> QED
  BY <1>1, Invariance, PTL
==============================================================================
