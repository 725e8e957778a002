----------------------------- MODULE ServerProofs -----------------------------
(***************************************************************************)
(* Proofs about three parts of the server that stand alone: JobDispatch,   *)
(* for any threads, queues and jobs, FrameQueue, for any number of jobs,   *)
(* and IDGenerator, for any threads and any number of IDs.                 *)
(***************************************************************************)
EXTENDS JobDispatch, FrameQueue, IDGenerator, SequenceTheorems, TLAPS

------------------------------------------------------------------------------
(* Sequences *)

\* Appending after a concatenation.
LEMMA AppendConcat ==
  ASSUME NEW S, NEW s \in Seq(S), NEW r \in Seq(S), NEW e \in S
  PROVE  s \o Append(r, e) = Append(s \o r, e)
<1>1. <<e>> \in Seq(S) /\ s \o r \in Seq(S)
  BY ConcatProperties
<1>2. (s \o r) \o <<e>> = s \o (r \o <<e>>)
  BY <1>1, ConcatAssociative
<1> QED
  BY <1>1, <1>2, AppendIsConcat

\* Head and tail of a concatenation come from its non-empty first part.
LEMMA HeadTailConcat ==
  ASSUME NEW S, NEW s \in Seq(S), NEW r \in Seq(S), s # <<>>
  PROVE  /\ s \o r # <<>>
         /\ Head(s \o r) = Head(s)
         /\ Tail(s \o r) = Tail(s) \o r
  BY SMT

\* The head of the second part can move to the end of the first.
LEMMA MoveHead ==
  ASSUME NEW S, NEW s \in Seq(S), NEW r \in Seq(S), r # <<>>
  PROVE  s \o r = Append(s, Head(r)) \o Tail(r)
<1>1. Head(r) \in S /\ Tail(r) \in Seq(S) /\ <<Head(r)>> \in Seq(S)
  BY HeadTailProperties
<1>2. r = <<Head(r)>> \o Tail(r)
  BY SMT
<1>3. s \o (<<Head(r)>> \o Tail(r)) = (s \o <<Head(r)>>) \o Tail(r)
  BY <1>1, ConcatAssociative
<1> QED
  BY <1>1, <1>2, <1>3, AppendIsConcat

\* Appending keeps the elements of a sequence and adds one.
LEMMA AppendHolds ==
  ASSUME NEW S, NEW s \in Seq(S), NEW e \in S
  PROVE  /\ \A x : (\E i \in 1..Len(s) : s[i] = x) =>
                   \E i \in 1..Len(Append(s, e)) : Append(s, e)[i] = x
         /\ \E i \in 1..Len(Append(s, e)) : Append(s, e)[i] = e
  BY AppendProperties

------------------------------------------------------------------------------

\* The four safety properties together are inductive.
IInv == TypeOK /\ Serial /\ NoForgottenQueue /\ InOrder

------------------------------------------------------------------------------
(* Type correctness *)

\* Every step keeps every variable in its type and every lock with its holder.
LEMMA TypeStep ==
  ASSUME TypeOK, [Next]_vars
  PROVE  TypeOK'
<1> USE DEF TypeOK, Places, In, Go
<1>1. ASSUME NEW t \in Threads, NEW q \in Queues, NEW j \in Jobs, PushJob(t, q, j)
      PROVE  TypeOK'
  <2>1. /\ queue' \in [Queues -> Seq(Jobs)]
        /\ submitted' \in [Queues -> Seq(Jobs)]
        /\ lock' \in [Queues -> Threads \cup {None}]
        /\ pc' \in [Threads -> Places]
        /\ at' \in [Threads -> Queues]
    BY <1>1 DEF PushJob
  <2>2. \A u \in Threads, r \in Queues : lock'[r] = u <=> pc'[u] = "notify" /\ at'[u] = r
    <3>1. /\ lock[q] = None /\ pc[t] = "idle"
          /\ lock' = [lock EXCEPT ![q] = t] /\ at' = [at EXCEPT ![t] = q]
          /\ pc' = [pc EXCEPT ![t] = "notify"]
      BY <1>1 DEF PushJob
    <3> QED
      BY <3>1, NoneAssumption
  <2> QED
    BY <1>1, <2>1, <2>2 DEF PushJob
<1>2. ASSUME NEW t \in Threads, Notify(t)
      PROVE  TypeOK'
  <2>1. \A u \in Threads, r \in Queues : lock'[r] = u <=> pc'[u] = "notify" /\ at'[u] = r
    BY <1>2, NoneAssumption DEF Notify
  <2>2. lock' \in [Queues -> Threads \cup {None}]
    BY <1>2 DEF Notify
  <2> QED
    BY <1>2, <2>1, <2>2 DEF Notify
<1>3. ASSUME NEW t \in Threads, Pop(t)
      PROVE  TypeOK'
  <2>1. Head(manager) \in Queues /\ manager' \in Seq(Queues)
    BY <1>3, HeadTailProperties DEF Pop
  <2>2. /\ at' = [at EXCEPT ![t] = Head(manager)]
        /\ pc' = [pc EXCEPT ![t] = "exchange"]
        /\ UNCHANGED <<queue, isProcessing, lock, jobs, submitted, done>>
    BY <1>3 DEF Pop
  <2>3. pc' \in [Threads -> Places] /\ at' \in [Threads -> Queues]
    BY <2>1, <2>2
  <2>4. \A u \in Threads, r \in Queues : lock'[r] = u <=> pc'[u] = "notify" /\ at'[u] = r
    <3>1. pc[t] = "idle"
      BY <1>3 DEF Pop
    <3> QED
      BY <2>2, <3>1
  <2> QED
    BY <2>1, <2>2, <2>3, <2>4
<1>4. ASSUME NEW t \in Threads, Exchange(t)
      PROVE  TypeOK'
  BY <1>4 DEF Exchange
<1>5. ASSUME NEW t \in Threads, GiveBack(t)
      PROVE  TypeOK'
  <2>1. manager' \in Seq(Queues)
    BY <1>5, AppendProperties DEF GiveBack
  <2> QED
    BY <1>5, <2>1 DEF GiveBack
<1>6. ASSUME NEW t \in Threads, Drain(t)
      PROVE  TypeOK'
  BY <1>6 DEF Drain
<1>7. ASSUME NEW t \in Threads, Execute(t)
      PROVE  TypeOK'
  BY <1>7 DEF Execute
<1>8. ASSUME NEW t \in Threads, Release(t)
      PROVE  TypeOK'
  BY <1>8 DEF Release
<1>9. ASSUME UNCHANGED vars
      PROVE  TypeOK'
  BY <1>9 DEF vars
<1> QED
  BY <1>1, <1>2, <1>3, <1>4, <1>5, <1>6, <1>7, <1>8, <1>9 DEF Next, Progress

------------------------------------------------------------------------------
(* One worker per queue *)

\* Every step keeps the workers of a queue apart.
LEMMA SerialStep ==
  ASSUME TypeOK, Serial, [Next]_vars
  PROVE  Serial'
<1>1. ASSUME NEW t \in Threads, NEW q \in Queues, NEW j \in Jobs, PushJob(t, q, j)
      PROVE  Serial'
  <2>1. \A r \in Queues : Running(r)' = Running(r)
    BY <1>1 DEF PushJob, Running, TypeOK, Places, In, Go
  <2> QED
    BY <1>1, <2>1 DEF PushJob, Serial
<1>2. ASSUME NEW t \in Threads, Notify(t)
      PROVE  Serial'
  <2>1. \A r \in Queues : Running(r)' = Running(r)
    BY <1>2 DEF Notify, Running, TypeOK, Places, In, Go
  <2> QED
    BY <1>2, <2>1 DEF Notify, Serial
<1>3. ASSUME NEW t \in Threads, Pop(t)
      PROVE  Serial'
  <2>1. \A r \in Queues : Running(r)' = Running(r)
    BY <1>3 DEF Pop, Running, TypeOK, Places, In, Go
  <2> QED
    BY <1>3, <2>1 DEF Pop, Serial
<1>4. ASSUME NEW t \in Threads, Exchange(t)
      PROVE  Serial'
  <2>0. PICK q \in Queues : q = at[t]
    BY DEF TypeOK
  <2>1. /\ q \in Queues
        /\ \A r \in Queues : isProcessing'[r] = IF r = q THEN TRUE ELSE isProcessing[r]
    BY <1>4, <2>0 DEF Exchange, TypeOK
  <2>2. CASE isProcessing[q]
    <3>1. \A r \in Queues : Running(r)' = Running(r)
      BY <1>4, <2>0, <2>2 DEF Exchange, Running, TypeOK, Places, In, Go
    <3>2. \A r \in Queues : isProcessing'[r] <=> isProcessing[r]
      BY <2>1, <2>2
    <3> QED
      BY <3>1, <3>2 DEF Serial
  <2>3. CASE ~isProcessing[q]
    <3>1. Running(q)' = {t}
      BY <1>4, <2>0, <2>1, <2>3 DEF Exchange, Serial, Running, TypeOK, Places, In, Go
    <3>2. \A r \in Queues \ {q} : Running(r)' = Running(r)
      BY <1>4, <2>0, <2>3 DEF Exchange, Running, TypeOK, Places, In, Go
    <3>3. isProcessing'[q] /\ \A r \in Queues \ {q} : isProcessing'[r] <=> isProcessing[r]
      BY <2>1
    <3> SUFFICES ASSUME NEW r \in Queues
                 PROVE  /\ \A u, v \in Running(r)' : u = v
                        /\ isProcessing'[r] <=> Running(r)' # {}
      BY DEF Serial
    <3>4. CASE r = q
      BY <3>1, <3>3, <3>4
    <3>5. CASE r # q
      BY <3>2, <3>3, <3>5 DEF Serial
    <3> QED
      BY <3>4, <3>5
  <2> QED
    BY <2>2, <2>3
<1>5. ASSUME NEW t \in Threads, GiveBack(t)
      PROVE  Serial'
  <2>1. \A r \in Queues : Running(r)' = Running(r)
    BY <1>5 DEF GiveBack, Running, TypeOK, Places, In, Go
  <2> QED
    BY <1>5, <2>1 DEF GiveBack, Serial
<1>6. ASSUME NEW t \in Threads, Drain(t)
      PROVE  Serial'
  <2>1. \A r \in Queues : Running(r)' = Running(r)
    BY <1>6 DEF Drain, Running, TypeOK, Places, In, Go
  <2> QED
    BY <1>6, <2>1 DEF Drain, Serial
<1>7. ASSUME NEW t \in Threads, Execute(t)
      PROVE  Serial'
  <2>1. \A r \in Queues : Running(r)' = Running(r)
    BY <1>7 DEF Execute, Running, TypeOK, Places, In, Go
  <2> QED
    BY <1>7, <2>1 DEF Execute, Serial
<1>8. ASSUME NEW t \in Threads, Release(t)
      PROVE  Serial'
  <2>0. PICK q \in Queues : q = at[t]
    BY DEF TypeOK
  <2>1. /\ q \in Queues
        /\ \A r \in Queues : isProcessing'[r] = IF r = q THEN FALSE ELSE isProcessing[r]
    BY <1>8, <2>0 DEF Release, TypeOK
  <2>2. Running(q)' = {}
    BY <1>8, <2>0, <2>1 DEF Release, Serial, Running, TypeOK, Places, In, Go
  <2>3. \A r \in Queues \ {q} : Running(r)' = Running(r)
    BY <1>8, <2>0 DEF Release, Running, TypeOK, Places, In, Go
  <2>4. ~isProcessing'[q] /\ \A r \in Queues \ {q} : isProcessing'[r] <=> isProcessing[r]
    BY <2>1
  <2> SUFFICES ASSUME NEW r \in Queues
               PROVE  /\ \A u, v \in Running(r)' : u = v
                      /\ isProcessing'[r] <=> Running(r)' # {}
    BY DEF Serial
  <2>5. CASE r = q
    BY <2>2, <2>4, <2>5
  <2>6. CASE r # q
    BY <2>3, <2>4, <2>6 DEF Serial
  <2> QED
    BY <2>5, <2>6
<1>9. ASSUME UNCHANGED vars
      PROVE  Serial'
  BY <1>9 DEF vars, Serial, Running
<1> QED
  BY <1>1, <1>2, <1>3, <1>4, <1>5, <1>6, <1>7, <1>8, <1>9 DEF Next, Progress

------------------------------------------------------------------------------
(* No queue forgotten *)

\* Queue q has an entry in the manager.
InManager(q) == \E i \in 1..Len(manager) : manager[i] = q

\* Every step keeps a non-empty queue announced.
LEMMA AnnounceStep ==
  ASSUME TypeOK, Serial, NoForgottenQueue, [Next]_vars
  PROVE  NoForgottenQueue'
<1>1. ASSUME NEW t \in Threads, NEW q \in Queues, NEW j \in Jobs, PushJob(t, q, j)
      PROVE  NoForgottenQueue'
  <2>1. at'[t] = q /\ pc'[t] = "notify"
    BY <1>1 DEF PushJob, TypeOK, Go
  <2>2. \A r \in Queues \ {q} : queue'[r] = queue[r]
    BY <1>1 DEF PushJob, TypeOK
  <2>3. \A r \in Queues : Announced(r) => Announced(r)'
    BY <1>1 DEF PushJob, TypeOK, Announced, In, Go
  <2>4. Announced(q)'
    BY <2>1 DEF Announced
  <2> QED
    BY <2>2, <2>3, <2>4 DEF NoForgottenQueue
<1>2. ASSUME NEW t \in Threads, Notify(t)
      PROVE  NoForgottenQueue'
  <2>1. manager \in Seq(Queues) /\ at[t] \in Queues /\ manager' = Append(manager, at[t])
    BY <1>2 DEF Notify, TypeOK
  <2>2. /\ \A r \in Queues : InManager(r) => InManager(r)'
        /\ InManager(at[t])'
    <3>1. /\ \A x : (\E i \in 1..Len(manager) : manager[i] = x) =>
                   \E i \in 1..Len(manager') : manager'[i] = x
          /\ \E i \in 1..Len(manager') : manager'[i] = at[t]
      BY <2>1, AppendHolds
    <3>2. at'[t] = at[t]
      BY <1>2 DEF Notify
    <3> QED
      BY <3>1, <3>2, Zenon DEF InManager
  <2>3. ASSUME NEW r \in Queues, Announced(r)
        PROVE  Announced(r)'
    <3>1. CASE InManager(r)
      BY <2>2, <3>1 DEF Announced, InManager
    <3>2. CASE r = at[t]
      <4>1. at'[t] = r
        BY <1>2, <3>2 DEF Notify
      <4> QED
        BY <2>2, <4>1 DEF Announced, InManager
    <3>3. ASSUME NEW u \in Threads \ {t}, at[u] = r,
                 pc[u] \in {"notify", "exchange", "giveBack", "drain"}
          PROVE  Announced(r)'
      <4>1. at'[u] = at[u] /\ pc'[u] = pc[u]
        BY <1>2 DEF Notify, TypeOK, Go
      <4> QED
        BY <3>3, <4>1 DEF Announced
    <3> QED
      BY <2>3, <3>1, <3>2, <3>3 DEF Announced, InManager
  <2> QED
    BY <1>2, <2>3 DEF Notify, NoForgottenQueue
<1>3. ASSUME NEW t \in Threads, Pop(t)
      PROVE  NoForgottenQueue'
  <2>1. \A r \in Queues : InManager(r) => InManager(r)' \/ r = Head(manager)
    <3> SUFFICES ASSUME NEW i \in 1..Len(manager), manager[i] # Head(manager)
                 PROVE  \E k \in 1..Len(manager') : manager'[k] = manager[i]
      BY DEF InManager
    <3>1. /\ manager \in Seq(Queues) /\ manager # <<>>
          /\ manager' = Tail(manager)
      BY <1>3 DEF Pop, TypeOK
    <3>2. i - 1 \in 1..Len(manager') /\ manager'[i - 1] = manager[i]
      BY <3>1, HeadTailProperties
    <3> QED
      BY <3>2
  <2>2. Head(manager) \in Queues
    BY <1>3 DEF Pop, TypeOK
  <2>3. \A r \in Queues : Announced(r) => Announced(r)'
    <3> SUFFICES ASSUME NEW r \in Queues, Announced(r) PROVE Announced(r)'
      OBVIOUS
    <3>1. CASE r = Head(manager)
      BY <1>3, <3>1 DEF Pop, TypeOK, Announced, Go
    <3>2. CASE r # Head(manager) /\ InManager(r)
      BY <2>1, <3>2 DEF Announced, InManager
    <3>3. CASE ~InManager(r)
      BY <1>3, <3>3 DEF Pop, TypeOK, Announced, InManager, In, Go
    <3> QED
      BY <3>1, <3>2, <3>3
  <2> QED
    BY <1>3, <2>3 DEF Pop, NoForgottenQueue
<1>4. ASSUME NEW t \in Threads, Exchange(t)
      PROVE  NoForgottenQueue'
  BY <1>4 DEF Exchange, TypeOK, NoForgottenQueue, Announced, In, Go
<1>5. ASSUME NEW t \in Threads, GiveBack(t)
      PROVE  NoForgottenQueue'
  <2>1. manager \in Seq(Queues) /\ at[t] \in Queues /\ manager' = Append(manager, at[t])
    BY <1>5 DEF GiveBack, TypeOK
  <2>2. /\ \A r \in Queues : InManager(r) => InManager(r)'
        /\ InManager(at[t])'
    <3>1. /\ \A x : (\E i \in 1..Len(manager) : manager[i] = x) =>
                   \E i \in 1..Len(manager') : manager'[i] = x
          /\ \E i \in 1..Len(manager') : manager'[i] = at[t]
      BY <2>1, AppendHolds
    <3>2. at'[t] = at[t]
      BY <1>5 DEF GiveBack
    <3> QED
      BY <3>1, <3>2, Zenon DEF InManager
  <2>3. ASSUME NEW r \in Queues, Announced(r)
        PROVE  Announced(r)'
    <3>1. CASE InManager(r)
      BY <2>2, <3>1 DEF Announced, InManager
    <3>2. CASE r = at[t]
      <4>1. at'[t] = r
        BY <1>5, <3>2 DEF GiveBack
      <4> QED
        BY <2>2, <4>1 DEF Announced, InManager
    <3>3. ASSUME NEW u \in Threads \ {t}, at[u] = r,
                 pc[u] \in {"notify", "exchange", "giveBack", "drain"}
          PROVE  Announced(r)'
      <4>1. at'[u] = at[u] /\ pc'[u] = pc[u]
        BY <1>5 DEF GiveBack, TypeOK, Go
      <4> QED
        BY <3>3, <4>1 DEF Announced
    <3> QED
      BY <2>3, <3>1, <3>2, <3>3 DEF Announced, InManager
  <2> QED
    BY <1>5, <2>3 DEF GiveBack, NoForgottenQueue
<1>6. ASSUME NEW t \in Threads, Drain(t)
      PROVE  NoForgottenQueue'
  <2>0. PICK q \in Queues : q = at[t]
    BY DEF TypeOK
  <2>1. \A r \in Queues : queue'[r] = IF r = q THEN <<>> ELSE queue[r]
    BY <1>6, <2>0 DEF Drain, TypeOK
  <2>2. \A r \in Queues \ {q} : Announced(r) => Announced(r)'
    BY <1>6, <2>0 DEF Drain, TypeOK, Announced, In, Go
  <2> QED
    BY <2>1, <2>2 DEF NoForgottenQueue
<1>7. ASSUME NEW t \in Threads, Execute(t)
      PROVE  NoForgottenQueue'
  BY <1>7 DEF Execute, TypeOK, NoForgottenQueue, Announced, In, Go
<1>8. ASSUME NEW t \in Threads, Release(t)
      PROVE  NoForgottenQueue'
  BY <1>8 DEF Release, TypeOK, NoForgottenQueue, Announced, In, Go
<1>9. ASSUME UNCHANGED vars
      PROVE  NoForgottenQueue'
  BY <1>9 DEF vars, NoForgottenQueue, Announced
<1> QED
  BY <1>1, <1>2, <1>3, <1>4, <1>5, <1>6, <1>7, <1>8, <1>9 DEF Next, Progress
------------------------------------------------------------------------------
(* Order, and the abstract executor *)

\* What is taken from a queue is the vector of the worker that runs it.
LEMMA TakenVector ==
  ASSUME TypeOK, Serial, NEW t \in Threads, pc[t] = "execute"
  PROVE  Taken(at[t]) = jobs[t]
<1>1. at[t] \in Queues
  BY DEF TypeOK
<1>2. \A u \in Threads : pc[u] = "execute" /\ at[u] = at[t] => u = t
  BY <1>1 DEF Serial, Running
<1>3. t = CHOOSE u \in Threads : pc[u] = "execute" /\ at[u] = at[t]
  BY <1>2
<1> QED
  BY <1>3 DEF Taken

\* Nothing is taken from a queue that nobody runs.
LEMMA TakenNothing ==
  ASSUME NEW q \in Queues, \A t \in Threads : ~(pc[t] = "execute" /\ at[t] = q)
  PROVE  Taken(q) = <<>>
  BY DEF Taken

LEMMA TakenType ==
  ASSUME TypeOK, NEW q \in Queues
  PROVE  Taken(q) \in Seq(Jobs)
<1>1. CASE \E t \in Threads : pc[t] = "execute" /\ at[t] = q
  BY <1>1 DEF Taken, TypeOK
<1>2. CASE ~\E t \in Threads : pc[t] = "execute" /\ at[t] = q
  BY <1>2 DEF Taken
<1> QED
  BY <1>1, <1>2

\* A step that moves no job and starts or ends no run leaves Taken alone.
LEMMA TakenSame ==
  ASSUME NEW q \in Queues, UNCHANGED jobs,
         \A t \in Threads : (pc[t] = "execute" /\ at[t] = q)
                           <=> (pc'[t] = "execute" /\ at'[t] = q)
  PROVE  UNCHANGED Taken(q)
<1>1. (CHOOSE t \in Threads : pc[t] = "execute" /\ at[t] = q)
    = (CHOOSE t \in Threads : pc'[t] = "execute" /\ at'[t] = q)
  OBVIOUS
<1> QED
  BY <1>1 DEF Taken

\* One step, seen from the executor.
Submits == \E q \in Queues, j \in Jobs :
  /\ Waiting' = [Waiting EXCEPT ![q] = Append(Waiting[q], j)]
  /\ submitted' = [submitted EXCEPT ![q] = Append(submitted[q], j)]
  /\ UNCHANGED done
Runs == \E q \in Queues :
  /\ Waiting[q] # <<>>
  /\ Waiting' = [Waiting EXCEPT ![q] = Tail(Waiting[q])]
  /\ done' = [done EXCEPT ![q] = Append(done[q], Head(Waiting[q]))]
  /\ UNCHANGED submitted
Stutters == UNCHANGED <<Waiting, submitted, done>>

LEMMA ExecutorStep ==
  ASSUME TypeOK, TypeOK', Serial, Serial', [Next]_vars
  PROVE  Submits \/ Runs \/ Stutters
<1> USE DEF Places, In, Go
<1>1. ASSUME NEW t \in Threads, NEW q \in Queues, NEW j \in Jobs, PushJob(t, q, j)
      PROVE  Submits
  <2>1. \A r \in Queues : UNCHANGED Taken(r)
    BY <1>1, TakenSame DEF PushJob, TypeOK
  <2>2. \A r \in Queues : queue'[r] = IF r = q THEN Append(queue[q], j) ELSE queue[r]
    BY <1>1 DEF PushJob, TypeOK
  <2>3. Taken(q) \o Append(queue[q], j) = Append(Taken(q) \o queue[q], j)
    <3>1. Taken(q) \in Seq(Jobs) /\ queue[q] \in Seq(Jobs)
      BY TakenType DEF TypeOK
    <3> QED
      BY <3>1, AppendConcat
  <2>4. Waiting' = [Waiting EXCEPT ![q] = Append(Waiting[q], j)]
    BY <2>1, <2>2, <2>3 DEF Waiting
  <2> QED
    BY <1>1, <2>4 DEF PushJob, Submits
<1>2. ASSUME NEW t \in Threads, Notify(t)
      PROVE  Stutters
  <2>1. \A r \in Queues : UNCHANGED Taken(r)
    BY <1>2, TakenSame DEF Notify, TypeOK
  <2> QED
    BY <1>2, <2>1 DEF Notify, Stutters, Waiting
<1>3. ASSUME NEW t \in Threads, Pop(t)
      PROVE  Stutters
  <2>1. \A r \in Queues : UNCHANGED Taken(r)
    BY <1>3, TakenSame DEF Pop, TypeOK
  <2> QED
    BY <1>3, <2>1 DEF Pop, Stutters, Waiting
<1>4. ASSUME NEW t \in Threads, Exchange(t)
      PROVE  Stutters
  <2>1. \A r \in Queues : UNCHANGED Taken(r)
    BY <1>4, TakenSame DEF Exchange, TypeOK
  <2> QED
    BY <1>4, <2>1 DEF Exchange, Stutters, Waiting
<1>5. ASSUME NEW t \in Threads, GiveBack(t)
      PROVE  Stutters
  <2>1. \A r \in Queues : UNCHANGED Taken(r)
    BY <1>5, TakenSame DEF GiveBack, TypeOK
  <2> QED
    BY <1>5, <2>1 DEF GiveBack, Stutters, Waiting
<1>6. ASSUME NEW t \in Threads, Drain(t)
      PROVE  Stutters
  <2>0. PICK q \in Queues : q = at[t]
    BY DEF TypeOK
  <2>1. \A r \in Queues \ {q} : Taken(r)' = Taken(r)
    <3> SUFFICES ASSUME NEW r \in Queues \ {q} PROVE Taken(r)' = Taken(r)
      OBVIOUS
    <3>1. \A u \in Threads : (pc[u] = "execute" /\ at[u] = r)
                           <=> (pc'[u] = "execute" /\ at'[u] = r)
      BY <1>6, <2>0 DEF Drain, TypeOK
    <3>2. (CHOOSE u \in Threads : pc[u] = "execute" /\ at[u] = r)
        = (CHOOSE u \in Threads : pc'[u] = "execute" /\ at'[u] = r)
      BY <3>1
    <3>3. (\E u \in Threads : pc[u] = "execute" /\ at[u] = r) =>
            jobs'[CHOOSE u \in Threads : pc[u] = "execute" /\ at[u] = r]
          = jobs[CHOOSE u \in Threads : pc[u] = "execute" /\ at[u] = r]
      BY <1>6 DEF Drain, TypeOK
    <3> QED
      BY <3>1, <3>2, <3>3 DEF Taken
  <2>2. Taken(q) = <<>>
    BY <1>6, <2>0, TakenNothing DEF Drain, Serial, Running
  <2>3. Taken(q)' = queue[q]
    <3>1. pc'[t] = "execute" /\ at'[t] = q /\ jobs'[t] = queue[q]
      BY <1>6, <2>0 DEF Drain, TypeOK
    <3>2. \A u \in Threads : pc'[u] = "execute" /\ at'[u] = q => u = t
      BY <3>1 DEF Serial, Running
    <3>3. t = CHOOSE u \in Threads : pc'[u] = "execute" /\ at'[u] = q
      BY <3>1, <3>2
    <3> QED
      BY <3>1, <3>3 DEF Taken
  <2>4. \A r \in Queues : queue'[r] = IF r = q THEN <<>> ELSE queue[r]
    BY <1>6, <2>0 DEF Drain, TypeOK
  <2>5. queue[q] \in Seq(Jobs)
    BY DEF TypeOK
  <2>6. Waiting' = Waiting
    <3>1. Taken(q)' \o queue'[q] = Taken(q) \o queue[q]
      BY <2>2, <2>3, <2>4, <2>5, ConcatEmptySeq
    <3>2. \A r \in Queues : Taken(r)' \o queue'[r] = Taken(r) \o queue[r]
      BY <2>1, <2>4, <3>1
    <3> QED
      BY <3>2 DEF Waiting
  <2> QED
    BY <1>6, <2>6 DEF Drain, Stutters<1>7. ASSUME NEW t \in Threads, Execute(t)
      PROVE  Runs
  <2>0. PICK q \in Queues : q = at[t]
    BY DEF TypeOK
  <2>1. Taken(q) = jobs[t] /\ jobs[t] \in Seq(Jobs) /\ jobs[t] # <<>>
    BY <1>7, <2>0, TakenVector DEF Execute, TypeOK
  <2>2. Taken(q)' = Tail(jobs[t])
    <3>1. pc'[t] = "execute" /\ at'[t] = q /\ jobs'[t] = Tail(jobs[t])
      BY <1>7, <2>0 DEF Execute, TypeOK
    <3>2. \A u \in Threads : pc'[u] = "execute" /\ at'[u] = q => u = t
      BY <3>1 DEF Serial, Running
    <3>3. t = CHOOSE u \in Threads : pc'[u] = "execute" /\ at'[u] = q
      BY <3>1, <3>2
    <3> QED
      BY <3>1, <3>3 DEF Taken
  <2>3. \A r \in Queues \ {q} : Taken(r)' = Taken(r)
    <3> SUFFICES ASSUME NEW r \in Queues \ {q} PROVE Taken(r)' = Taken(r)
      OBVIOUS
    <3>1. (CHOOSE u \in Threads : pc[u] = "execute" /\ at[u] = r)
        = (CHOOSE u \in Threads : pc'[u] = "execute" /\ at'[u] = r)
      BY <1>7 DEF Execute
    <3>2. (\E u \in Threads : pc[u] = "execute" /\ at[u] = r) =>
            jobs'[CHOOSE u \in Threads : pc[u] = "execute" /\ at[u] = r]
          = jobs[CHOOSE u \in Threads : pc[u] = "execute" /\ at[u] = r]
      BY <1>7, <2>0 DEF Execute, TypeOK
    <3> QED
      BY <1>7, <3>1, <3>2 DEF Execute, Taken
  <2>4. queue[q] \in Seq(Jobs)
    BY DEF TypeOK
  <2>5. /\ Waiting[q] # <<>>
        /\ Head(Waiting[q]) = Head(jobs[t])
        /\ Tail(Waiting[q]) = Tail(jobs[t]) \o queue[q]
    <3>1. Waiting[q] = jobs[t] \o queue[q]
      BY <2>1 DEF Waiting
    <3>2. /\ jobs[t] \o queue[q] # <<>>
          /\ Head(jobs[t] \o queue[q]) = Head(jobs[t])
          /\ Tail(jobs[t] \o queue[q]) = Tail(jobs[t]) \o queue[q]
      BY <2>1, <2>4, HeadTailConcat
    <3> QED
      BY <3>1, <3>2
  <2>6. Waiting' = [Waiting EXCEPT ![q] = Tail(Waiting[q])]
    BY <1>7, <2>2, <2>3, <2>5 DEF Execute, Waiting
  <2> QED
    BY <1>7, <2>0, <2>5, <2>6 DEF Execute, Runs
<1>8. ASSUME NEW t \in Threads, Release(t)
      PROVE  Stutters
  <2>0. PICK q \in Queues : q = at[t]
    BY DEF TypeOK
  <2>1. \A r \in Queues \ {q} : Taken(r)' = Taken(r)
    BY <1>8, <2>0, TakenSame DEF Release, TypeOK
  <2>2. Taken(q) = <<>>
    BY <1>8, <2>0, TakenVector DEF Release
  <2>3. Taken(q)' = <<>>
    <3>1. \A u \in Threads : ~(pc'[u] = "execute" /\ at'[u] = q)
      BY <1>8, <2>0 DEF Release, Serial, Running, TypeOK
    <3> QED
      BY <3>1 DEF Taken
  <2>4. Waiting' = Waiting
    BY <1>8, <2>1, <2>2, <2>3 DEF Release, Waiting
  <2> QED
    BY <1>8, <2>4 DEF Release, Stutters
<1>9. ASSUME UNCHANGED vars
      PROVE  Stutters
  BY <1>9 DEF vars, Stutters, Waiting, Taken
<1> QED
  BY <1>1, <1>2, <1>3, <1>4, <1>5, <1>6, <1>7, <1>8, <1>9 DEF Next, Progress

\* Every step keeps each queue's order.
LEMMA OrderStep ==
  ASSUME TypeOK, TypeOK', Serial, Serial', InOrder, [Next]_vars
  PROVE  InOrder'
<1>0. \A q \in Queues : /\ done[q] \in Seq(Jobs)
                         /\ Waiting[q] \in Seq(Jobs)
  BY TakenType, ConcatProperties DEF TypeOK, Waiting
<1>4. /\ submitted \in [Queues -> Seq(Jobs)]
       /\ done \in [Queues -> Seq(Jobs)]
       /\ Waiting = [q \in Queues |-> Waiting[q]]
  BY DEF TypeOK, Waiting
<1>1. CASE Submits
  <2>1. PICK q \in Queues, j \in Jobs :
          /\ Waiting' = [Waiting EXCEPT ![q] = Append(Waiting[q], j)]
          /\ submitted' = [submitted EXCEPT ![q] = Append(submitted[q], j)]
          /\ UNCHANGED done
    BY <1>1 DEF Submits
  <2>2. done[q] \o Append(Waiting[q], j) = Append(done[q] \o Waiting[q], j)
    <3>1. PICK d \in Seq(Jobs), w \in Seq(Jobs) : d = done[q] /\ w = Waiting[q]
      BY <1>0
    <3>2. d \o Append(w, j) = Append(d \o w, j)
      BY AppendConcat
    <3> QED
      BY <3>1, <3>2
  <2> SUFFICES ASSUME NEW r \in Queues
               PROVE  submitted'[r] = done'[r] \o Waiting'[r]
    BY DEF InOrder
  <2>3. CASE r = q
    BY <1>4, <2>1, <2>2, <2>3 DEF InOrder
  <2>4. CASE r # q
    BY <1>4, <2>1, <2>4 DEF InOrder
  <2> QED
    BY <2>3, <2>4
<1>2. CASE Runs
  <2>1. PICK q \in Queues :
          /\ Waiting[q] # <<>>
          /\ Waiting' = [Waiting EXCEPT ![q] = Tail(Waiting[q])]
          /\ done' = [done EXCEPT ![q] = Append(done[q], Head(Waiting[q]))]
          /\ UNCHANGED submitted
    BY <1>2 DEF Runs
  <2>2. done[q] \o Waiting[q] = Append(done[q], Head(Waiting[q])) \o Tail(Waiting[q])
    BY <1>0, <2>1, MoveHead
  <2> SUFFICES ASSUME NEW r \in Queues
               PROVE  submitted'[r] = done'[r] \o Waiting'[r]
    BY DEF InOrder
  <2>3. CASE r = q
    BY <1>4, <2>1, <2>2, <2>3 DEF InOrder
  <2>4. CASE r # q
    BY <1>4, <2>1, <2>4 DEF InOrder
  <2> QED
    BY <2>3, <2>4
<1>3. CASE Stutters
  BY <1>3 DEF Stutters, InOrder
<1> QED
  BY <1>1, <1>2, <1>3, ExecutorStep

------------------------------------------------------------------------------
(* Theorems *)

\* The invariant holds in every behaviour.
THEOREM Invariance == Spec => []IInv
<1>1. Init => IInv
  <2> SUFFICES ASSUME Init PROVE IInv
    OBVIOUS
  <2>1. TypeOK
    BY NoneAssumption DEF Init, TypeOK, Places
  <2>2. Serial
    BY DEF Init, Serial, Running
  <2>3. NoForgottenQueue
    BY DEF Init, NoForgottenQueue
  <2>4. InOrder
    <3>1. \A q \in Queues : Taken(q) = <<>>
      BY DEF Init, Taken
    <3> QED
      BY <3>1, ConcatEmptySeq DEF Init, InOrder, Waiting
  <2> QED
    BY <2>1, <2>2, <2>3, <2>4 DEF IInv
<1>2. IInv /\ [Next]_vars => IInv'
  BY TypeStep, SerialStep, AnnounceStep, OrderStep DEF IInv
<1> QED
  BY <1>1, <1>2, PTL DEF Spec

\* Every variable keeps its type; a queue's lock is held by its pusher.
THEOREM TypeCorrect == Spec => []TypeOK
<1>1. IInv => TypeOK
  BY DEF IInv
<1> QED
  BY <1>1, Invariance, PTL

\* The jobs of one queue are run by one worker at a time, and the flag that
\* says so is never left behind.
THEOREM SerialCorrect == Spec => []Serial
<1>1. IInv => Serial
  BY DEF IInv
<1> QED
  BY <1>1, Invariance, PTL

\* A queue with jobs always has somebody on the way to it.
THEOREM NoForgottenQueueCorrect == Spec => []NoForgottenQueue
<1>1. IInv => NoForgottenQueue
  BY DEF IInv
<1> QED
  BY <1>1, Invariance, PTL

\* Each queue runs its jobs in the order pushed, each once.
THEOREM InOrderCorrect == Spec => []InOrder
<1>1. IInv => InOrder
  BY DEF IInv
<1> QED
  BY <1>1, Invariance, PTL

\* The job system implements one serial executor per queue.
THEOREM Refinement == Spec => ImplementsExecutor
<1>1. Init => Executor!Init
  <2> SUFFICES ASSUME Init PROVE Executor!Init
    OBVIOUS
  <2>1. \A q \in Queues : Taken(q) = <<>>
    BY DEF Init, Taken
  <2>2. Waiting = [q \in Queues |-> <<>>]
    BY <2>1, ConcatEmptySeq DEF Init, Waiting
  <2> QED
    BY <2>2 DEF Init, Executor!Init
<1>2. IInv /\ IInv' /\ [Next]_vars => [Executor!Next]_(Executor!vars)
  <2> SUFFICES ASSUME IInv, IInv', [Next]_vars
               PROVE  Executor!Next \/ UNCHANGED Executor!vars
    OBVIOUS
  <2>1. Submits \/ Runs \/ Stutters
    BY ExecutorStep DEF IInv
  <2>2. CASE Submits
    BY <2>2 DEF Submits, Executor!Next, Executor!Submit
  <2>3. CASE Runs
    BY <2>3 DEF Runs, Executor!Next, Executor!Run
  <2>4. CASE Stutters
    BY <2>4 DEF Stutters, Executor!vars
  <2> QED
    BY <2>1, <2>2, <2>3, <2>4
<1> QED
  BY <1>1, <1>2, Invariance, PTL DEF Spec, ImplementsExecutor, Executor!Spec

------------------------------------------------------------------------------
(* The frame's queue *)

\* The newest job that has come to the execute queue.
Newest == inserted - Len(insertQueue)

\* Every variable keeps its type.
FrameTypes ==
  /\ insertQueue \in Seq(Int) /\ executeQueue \in Seq(Int) /\ executed \in Seq(Int)
  /\ inserted \in Nat
  /\ loop \in {"test", "pop", "frame"}
  /\ loop = "pop" => executeQueue # <<>>
  /\ loop = "frame" => executeQueue = <<>>

\* Each queue is an interval of numbers: the execute queue ends with the newest job
\* that has come to it, the insert queue goes on from there.
Intervals ==
  /\ \A k \in 1..Len(insertQueue) : insertQueue[k] = Newest + k
  /\ \A k \in 1..Len(executeQueue) : executeQueue[k] = Newest - Len(executeQueue) + k

\* Nothing newer than that has run.
NoneNewer == \A k \in 1..Len(executed) : executed[k] <= Newest

FrameInv == FrameTypes /\ Intervals /\ NoneNewer /\ CountsAgree /\ NeverOlder

------------------------------------------------------------------------------
\* InsertJob gives the new job the next number behind the insert queue.
LEMMA InsertStep ==
  ASSUME FrameInv, InsertJob
  PROVE  FrameInv'
<1> USE DEF FrameInv, FrameTypes
<1>1. /\ inserted' = inserted + 1
      /\ insertQueue' = Append(insertQueue, inserted + 1)
      /\ UNCHANGED <<executeQueue, loop, executed>>
  BY DEF InsertJob
<1>2. /\ Len(insertQueue') = Len(insertQueue) + 1
      /\ insertQueue' \in Seq(Int)
      /\ \A k \in 1..Len(insertQueue) : insertQueue'[k] = insertQueue[k]
      /\ insertQueue'[Len(insertQueue) + 1] = inserted + 1
  BY <1>1
<1>3. Newest' = Newest
  BY <1>1, <1>2 DEF Newest
<1>4. ASSUME NEW k \in 1..Len(insertQueue')
      PROVE  insertQueue'[k] = Newest' + k
  <2>1. CASE k \in 1..Len(insertQueue)
    BY <1>2, <1>3, <2>1 DEF Intervals
  <2>2. CASE k = Len(insertQueue) + 1
    BY <1>2, <1>3, <2>2 DEF Newest
  <2> QED
    BY <1>2, <2>1, <2>2
<1>5. FrameTypes'
  BY <1>1, <1>2
<1>6. Intervals' /\ NoneNewer'
  BY <1>1, <1>3, <1>4 DEF Intervals, NoneNewer
<1>7. CountsAgree' /\ NeverOlder'
  BY <1>1 DEF CountsAgree, NeverOlder
<1> QED
  BY <1>5, <1>6, <1>7

\* The job at the back is the newest that has come, so none that ran is newer.
LEMMA ExecuteStep ==
  ASSUME FrameInv, ExecuteBack
  PROVE  FrameInv'
<1> USE DEF FrameInv, FrameTypes
<1>1. /\ loop = "test" /\ loop' = "pop" /\ executeQueue # <<>>
      /\ executed' = Append(executed, Last(executeQueue))
      /\ UNCHANGED <<insertQueue, executeQueue, inserted>>
  BY DEF ExecuteBack
<1>2. Last(executeQueue) = Newest
  BY <1>1 DEF Last, Intervals, Newest
<1>3. /\ executed' \in Seq(Int)
      /\ Len(executed') = Len(executed) + 1
      /\ \A k \in 1..Len(executed) : executed'[k] = executed[k]
      /\ executed'[Len(executed) + 1] = Newest
  BY <1>1, <1>2 DEF Newest
<1>4. Newest' = Newest
  BY <1>1 DEF Newest
<1>5. Newest \in Int
  BY DEF Newest
<1>6. Len(executed) \in Nat /\ \A k \in 1..Len(executed) : executed[k] \in Int
  OBVIOUS
<1>7. ASSUME NEW k \in 1..Len(executed')
      PROVE  executed'[k] <= Newest
  <2>1. CASE k \in 1..Len(executed)
    BY <1>3, <2>1 DEF NoneNewer
  <2>2. CASE k = Len(executed) + 1
    BY <1>3, <1>5, <2>2
  <2> QED
    BY <1>3, <1>6, <2>1, <2>2
<1>8. NoneNewer'
  BY <1>4, <1>7 DEF NoneNewer
<1>9. ASSUME NEW n \in 1..Len(executed'), NEW k \in 1..Len(executed'), n < k
      PROVE  executed'[n] <= executed'[k]
  <2>1. CASE k \in 1..Len(executed)
    <3>1. n \in 1..Len(executed)
      BY <1>6, <1>9, <2>1
    <3> QED
      BY <1>3, <1>9, <2>1, <3>1 DEF NeverOlder
  <2>2. CASE k = Len(executed) + 1
    BY <1>3, <1>7, <2>2
  <2> QED
    BY <1>3, <1>6, <2>1, <2>2
<1>10. NeverOlder'
  BY <1>9 DEF NeverOlder
<1>11. Intervals'
  BY <1>1, <1>4 DEF Intervals
<1>12. CountsAgree'
  <2>1. Len(executed') + Len(executeQueue') + Len(insertQueue')
          = Len(executed) + Len(executeQueue) + Len(insertQueue) + 1
    BY <1>1, <1>3
  <2>2. Len(executed) + Len(executeQueue) + Len(insertQueue) = inserted
    BY <1>1 DEF CountsAgree
  <2> QED
    BY <1>1, <2>1, <2>2 DEF CountsAgree
<1> QED
  BY <1>1, <1>3, <1>8, <1>10, <1>11, <1>12

\* Popping the front leaves the interval's end where it was.
LEMMA PopStep ==
  ASSUME FrameInv, PopFront
  PROVE  FrameInv'
<1> USE DEF FrameInv, FrameTypes
<1>1. /\ loop = "pop" /\ loop' = "test" /\ executeQueue # <<>>
      /\ executeQueue' = Tail(executeQueue)
      /\ UNCHANGED <<insertQueue, inserted, executed>>
  BY DEF PopFront
<1>2. /\ executeQueue' \in Seq(Int)
      /\ Len(executeQueue') = Len(executeQueue) - 1
      /\ \A k \in 1..Len(executeQueue') : executeQueue'[k] = executeQueue[k + 1]
  BY <1>1
<1>3. Newest' = Newest
  BY <1>1 DEF Newest
<1>4. Intervals'
  BY <1>1, <1>2, <1>3 DEF Intervals, Newest
<1> QED
  BY <1>1, <1>2, <1>3, <1>4 DEF NoneNewer, CountsAgree, NeverOlder

\* Swapping hands over the whole insert queue; the other one is empty then.
LEMMA SwapStep ==
  ASSUME FrameInv, SwapQueue
  PROVE  FrameInv'
<1> USE DEF FrameInv, FrameTypes
<1>1. /\ loop = "frame" /\ loop' = "test" /\ executeQueue = <<>>
      /\ insertQueue' = <<>> /\ executeQueue' = insertQueue
      /\ UNCHANGED <<inserted, executed>>
  BY DEF SwapQueue
<1>2. Newest' = Newest + Len(insertQueue) /\ Len(insertQueue) \in Nat
  BY <1>1 DEF Newest
<1>3. Intervals'
  BY <1>1, <1>2 DEF Intervals, Newest
<1>4. NoneNewer'
  BY <1>1, <1>2 DEF NoneNewer, Newest
<1> QED
  BY <1>1, <1>3, <1>4 DEF CountsAgree, NeverOlder

------------------------------------------------------------------------------
\* The conjunction is inductive: the queues are intervals that follow each other.
THEOREM FrameInvariance == FrameSpec => []FrameInv
<1>1. FrameInit => FrameInv
  BY DEF FrameInit, FrameInv, FrameTypes, Intervals, NoneNewer, CountsAgree, NeverOlder
<1>2. ASSUME FrameInv, FinishExecute
      PROVE  FrameInv'
  BY <1>2 DEF FinishExecute, FrameInv, FrameTypes, Intervals, Newest, NoneNewer,
              CountsAgree, NeverOlder
<1>3. ASSUME FrameInv, UNCHANGED frameVars
      PROVE  FrameInv'
  BY <1>3 DEF frameVars, FrameInv, FrameTypes, Intervals, Newest, NoneNewer,
              CountsAgree, NeverOlder
<1>4. FrameInv /\ [FrameNext]_frameVars => FrameInv'
  BY <1>2, <1>3, InsertStep, ExecuteStep, PopStep, SwapStep DEF FrameNext, Main
<1> QED
  BY <1>1, <1>4, PTL DEF FrameSpec

\* A job never runs after a newer one, however insertions and frames alternate.
THEOREM NeverOlderCorrect == FrameSpec => []NeverOlder
<1>1. FrameInv => NeverOlder
  BY DEF FrameInv
<1> QED
  BY <1>1, FrameInvariance, PTL

\* There are as many executions as the counter of the unit test expects.
THEOREM CountsAgreeCorrect == FrameSpec => []CountsAgree
<1>1. FrameInv => CountsAgree
  BY DEF FrameInv
<1> QED
  BY <1>1, FrameInvariance, PTL

------------------------------------------------------------------------------
(* IDGenerator *)

\* Only the thread that has the mutex searches.
Searcher == \A t \in Callers : stage[t] = "search" <=> mutex = t

\* It has found every candidate before its present one in use.
Tried ==
  \A t \in Callers : stage[t] = "search" =>
    \A n \in 0..MAX_ID : n < offset[t] => Candidate(n) \in usedIDs

IDInv == IDTypes /\ OneHolder /\ Searcher /\ Tried

------------------------------------------------------------------------------
\* uint16_t arithmetic stays in the IDs.
LEMMA ModInID ==
  ASSUME NEW k \in Nat
  PROVE  k % (MAX_ID + 1) \in ID
BY MaxAssumption DEF ID

\* Every candidate is an ID.
LEMMA CandidateInID ==
  ASSUME IDTypes, NEW k \in ID
  PROVE  Candidate(k) \in ID
<1>1. currentID + k \in Nat
  BY MaxAssumption DEF IDTypes, ID
<1> QED
  BY <1>1, ModInID DEF Candidate

\* Every step keeps every variable in its type.
LEMMA IDTypeStep ==
  ASSUME IDTypes, [IDNext]_idVars
  PROVE  IDTypes'
<1> USE DEF IDTypes
<1>1. ASSUME NEW t \in Callers, Call(t)
      PROVE  IDTypes'
  BY <1>1 DEF Call
<1>2. ASSUME NEW t \in Callers, Lock(t)
      PROVE  IDTypes'
  <2>1. 0 \in ID
    BY MaxAssumption DEF ID
  <2> QED
    BY <1>2, <2>1 DEF Lock
<1>3. ASSUME NEW t \in Callers, Skip(t)
      PROVE  IDTypes'
  <2>1. offset[t] + 1 \in Nat
    BY MaxAssumption DEF ID
  <2>2. (offset[t] + 1) % (MAX_ID + 1) \in ID
    BY <2>1, ModInID
  <2> QED
    BY <1>3, <2>2 DEF Skip
<1>4. ASSUME NEW t \in Callers, Issue(t)
      PROVE  IDTypes'
  <2> DEFINE id == Candidate(offset[t])
  <2>1. id \in ID
    BY CandidateInID
  <2>2. id + 1 \in Nat
    BY <2>1, MaxAssumption DEF ID
  <2>3. (id + 1) % (MAX_ID + 1) \in ID
    BY <2>2, ModInID
  <2> QED
    BY <1>4, <2>1, <2>3 DEF Issue
<1>5. ASSUME NEW t \in Callers, NEW id \in ID, ReleaseID(t, id)
      PROVE  IDTypes'
  BY <1>5 DEF ReleaseID
<1>6. ASSUME UNCHANGED idVars
      PROVE  IDTypes'
  BY <1>6 DEF idVars
<1> QED
  BY <1>1, <1>2, <1>3, <1>4, <1>5, <1>6 DEF IDNext, Search

\* Every step keeps the bits and the holders together, and no ID gets a second.
LEMMA HolderStep ==
  ASSUME IDTypes, OneHolder, [IDNext]_idVars
  PROVE  OneHolder'
<1>1. ASSUME NEW t \in Callers, Issue(t)
      PROVE  OneHolder'
  <2> DEFINE id == Candidate(offset[t])
  <2>1. id \notin usedIDs
    BY <1>1 DEF Issue
  <2>2. \A u \in Callers : id \notin held[u]
    BY <2>1 DEF OneHolder
  <2>3. /\ usedIDs' = usedIDs \cup {id}
        /\ \A u \in Callers : held'[u] = IF u = t THEN held[t] \cup {id} ELSE held[u]
    BY <1>1 DEF Issue, IDTypes
  <2>4. ASSUME NEW u \in Callers, NEW w \in Callers, u # w
        PROVE  held'[u] \cap held'[w] = {}
    BY <2>2, <2>3, <2>4 DEF OneHolder
  <2>5. usedIDs' = UNION {held'[u] : u \in Callers}
    BY <2>3 DEF OneHolder
  <2> QED
    BY <2>4, <2>5 DEF OneHolder
<1>2. ASSUME NEW t \in Callers, NEW id \in ID, ReleaseID(t, id)
      PROVE  OneHolder'
  <2>1. /\ usedIDs' = usedIDs \ {id}
        /\ \A u \in Callers : held'[u] = IF u = t THEN held[t] \ {id} ELSE held[u]
    BY <1>2 DEF ReleaseID, IDTypes
  <2>2. \A u \in Callers : u # t => id \notin held[u]
    BY <1>2 DEF ReleaseID, OneHolder
  <2>3. ASSUME NEW u \in Callers, NEW w \in Callers, u # w
        PROVE  held'[u] \cap held'[w] = {}
    BY <2>1, <2>3 DEF OneHolder
  <2>4. usedIDs' = UNION {held'[u] : u \in Callers}
    BY <2>1, <2>2 DEF OneHolder
  <2> QED
    BY <2>3, <2>4 DEF OneHolder
<1>3. ASSUME UNCHANGED <<usedIDs, held>>
      PROVE  OneHolder'
  BY <1>3 DEF OneHolder
<1> QED
  BY <1>1, <1>2, <1>3 DEF IDNext, Search, Call, Lock, Skip, idVars

\* Every step keeps one searcher, and what it has tried stays in use: nobody else
\* can release an ID or move the start meanwhile.
LEMMA SearchStep ==
  ASSUME IDTypes, Searcher, Tried, [IDNext]_idVars
  PROVE  Searcher' /\ Tried'
<1> USE DEF IDTypes, Searcher
<1>1. ASSUME NEW t \in Callers, Call(t)
      PROVE  Searcher' /\ Tried'
  BY <1>1 DEF Call, Tried, Candidate
<1>2. ASSUME NEW t \in Callers, Lock(t)
      PROVE  Searcher' /\ Tried'
  <2>1. Searcher'
    BY <1>2, NobodyAssumption DEF Lock
  <2>2. offset' = [offset EXCEPT ![t] = 0] /\ UNCHANGED <<usedIDs, currentID>>
    BY <1>2 DEF Lock
  <2>3. \A u \in Callers : stage'[u] = "search" => u = t
    BY <1>2, NobodyAssumption DEF Lock
  <2>4. \A n \in 0..MAX_ID : ~(n < offset'[t])
    BY <2>2
  <2> QED
    BY <2>1, <2>3, <2>4 DEF Tried
<1>3. ASSUME NEW t \in Callers, Skip(t)
      PROVE  Searcher' /\ Tried'
  <2>1. Searcher'
    BY <1>3 DEF Skip
  <2>2. UNCHANGED <<usedIDs, currentID, stage>> /\ Candidate(offset[t]) \in usedIDs
        /\ stage[t] = "search" /\ offset' = [offset EXCEPT ![t] = (offset[t] + 1) % (MAX_ID + 1)]
    BY <1>3 DEF Skip
  <2>3. offset[t] \in 0..MAX_ID /\ MAX_ID \in Nat
    BY MaxAssumption DEF ID
  <2>4. (offset[t] + 1) % (MAX_ID + 1) = offset[t] + 1 \/ (offset[t] + 1) % (MAX_ID + 1) = 0
    <3>1. CASE offset[t] = MAX_ID
      BY <2>3, <3>1
    <3>2. CASE offset[t] < MAX_ID
      BY <2>3, <3>2
    <3> QED
      BY <2>3, <3>1, <3>2
  <2>5. \A n \in 0..MAX_ID : n < offset'[t] => Candidate(n) \in usedIDs
    <3> TAKE n \in 0..MAX_ID
    <3>1. offset'[t] = offset[t] + 1 \/ offset'[t] = 0
      BY <2>2, <2>4
    <3>2. n < offset[t] => Candidate(n) \in usedIDs
      BY <2>2 DEF Tried
    <3>3. n < offset'[t] => n < offset[t] \/ n = offset[t]
      BY <2>3, <3>1
    <3> QED
      BY <2>2, <3>2, <3>3
  <2>6. \A n : Candidate(n)' = Candidate(n)
    BY <2>2 DEF Candidate
  <2>7. \A u \in Callers : stage'[u] = "search" => u = t
    BY <2>2, NobodyAssumption
  <2> QED
    BY <2>1, <2>2, <2>5, <2>6, <2>7 DEF Tried
<1>4. ASSUME NEW t \in Callers, Issue(t)
      PROVE  Searcher' /\ Tried'
  <2>1. \A u \in Callers : stage'[u] # "search"
    BY <1>4, NobodyAssumption DEF Issue
  <2>2. mutex' = Nobody
    BY <1>4 DEF Issue
  <2> QED
    BY <2>1, <2>2, NobodyAssumption DEF Tried
<1>5. ASSUME NEW t \in Callers, NEW id \in ID, ReleaseID(t, id)
      PROVE  Searcher' /\ Tried'
  <2>1. \A u \in Callers : stage'[u] # "search"
    BY <1>5, NobodyAssumption DEF ReleaseID
  <2>2. mutex' = Nobody
    BY <1>5 DEF ReleaseID
  <2> QED
    BY <2>1, <2>2, NobodyAssumption DEF Tried
<1>6. ASSUME UNCHANGED idVars
      PROVE  Searcher' /\ Tried'
  BY <1>6 DEF idVars, Tried, Candidate
<1> QED
  BY <1>1, <1>2, <1>3, <1>4, <1>5, <1>6 DEF IDNext, Search

------------------------------------------------------------------------------
\* The conjunction is inductive: types, holders, and what the search has tried.
THEOREM IDInvariance == IDSpec => []IDInv
<1>1. IDInit => IDInv
  <2> SUFFICES ASSUME IDInit PROVE IDInv
    OBVIOUS
  <2>1. 0 \in ID
    BY MaxAssumption DEF ID
  <2>2. IDTypes
    BY <2>1 DEF IDInit, IDTypes
  <2>3. OneHolder
    BY DEF IDInit, OneHolder
  <2>4. Searcher /\ Tried
    BY NobodyAssumption DEF IDInit, Searcher, Tried
  <2> QED
    BY <2>2, <2>3, <2>4 DEF IDInv
<1>2. IDInv /\ [IDNext]_idVars => IDInv'
  BY IDTypeStep, HolderStep, SearchStep DEF IDInv
<1> QED
  BY <1>1, <1>2, PTL DEF IDSpec

\* Every variable keeps its type, whatever wraps around.
THEOREM IDTypeCorrect == IDSpec => []IDTypes
<1>1. IDInv => IDTypes
  BY DEF IDInv
<1> QED
  BY <1>1, IDInvariance, PTL

\* No two threads ever hold one ID, and the bits are exactly the IDs held.
THEOREM OneHolderCorrect == IDSpec => []OneHolder
<1>1. IDInv => OneHolder
  BY DEF IDInv
<1> QED
  BY <1>1, IDInvariance, PTL

\* An ID is handed out only when every ID from the rotating start to it is in use.
THEOREM InRotationCorrect == IDSpec => InRotation
<1> DEFINE Rotates ==
      \A t \in Callers : held[t] \subseteq held'[t] =>
        \A id \in held'[t] \ held[t] :
          \A k \in 0..MAX_ID :
            (\A n \in 0..k : Candidate(n) # id) => Candidate(k) \in usedIDs
<1>1. ASSUME IDInv, [IDNext]_idVars
      PROVE  [Rotates]_idVars
  <2>1. ASSUME NEW t \in Callers, Issue(t)
        PROVE  Rotates
    <3>1. offset[t] \in 0..MAX_ID /\ MAX_ID \in Nat
      BY <1>1, MaxAssumption DEF IDInv, IDTypes, ID
    <3>2. \A u \in Callers : held'[u] \ held[u] \subseteq {Candidate(offset[t])}
      BY <1>1, <2>1 DEF Issue, IDInv, IDTypes
    <3>3. ASSUME NEW k \in 0..MAX_ID, \A n \in 0..k : Candidate(n) # Candidate(offset[t])
          PROVE  Candidate(k) \in usedIDs
      <4>1. k < offset[t]
        BY <3>1, <3>3
      <4> QED
        BY <1>1, <2>1, <4>1 DEF IDInv, Tried, Issue
    <3> QED
      BY <3>2, <3>3
  <2>2. ASSUME NEW t \in Callers, NEW id \in ID, ReleaseID(t, id)
        PROVE  Rotates
    BY <1>1, <2>2 DEF ReleaseID, IDInv, IDTypes
  <2>3. ASSUME UNCHANGED held
        PROVE  Rotates
    BY <2>3
  <2> QED
    BY <1>1, <2>1, <2>2, <2>3 DEF IDNext, Search, Call, Lock, Skip, idVars
<1> QED
  BY <1>1, IDInvariance, PTL DEF IDSpec, InRotation
==============================================================================
