----------------------------- MODULE JobDispatch -----------------------------
(***************************************************************************)
(* ServerLib's job system: JobQueue (JobQueue.cpp), the global JobManager  *)
(* (JobManager.cpp) and the worker loop IOCPServer::DispatchJob.           *)
(*                                                                         *)
(* PushJob puts a job in a queue and, still holding the queue's lock, puts *)
(* the queue in the manager.  A worker pops a queue and tries to run it;   *)
(* when another worker is running it, the queue goes back to the manager.  *)
(* _isProcessing is tested without the lock, jobs run without it.          *)
(* The manager's own lock covers single pushes and pops, each one step.    *)
(* Any thread may push and may work; a job that pushes while it runs holds *)
(* no lock and counts as one more thread.                                  *)
(*                                                                         *)
(* Definitions commented "Variant" are no part of the model: each is an    *)
(* action with a plausible bug that a property is shown to catch.          *)
(***************************************************************************)
EXTENDS Integers, Sequences, SequencesExt

CONSTANTS Threads,   \* threads of the process
          Queues,    \* JobQueue objects
          Jobs,      \* Job objects
          None,      \* no thread
          MaxJobs    \* bound: jobs pushed to one queue in a behaviour

ASSUME NoneAssumption == None \notin Threads
ASSUME MaxJobsAssumption == MaxJobs \in Nat

VARIABLES
  queue,          \* JobQueue::_queue
  isProcessing,   \* JobQueue::_isProcessing
  lock,           \* the thread that holds JobQueue::_lock, or None
  manager,        \* JobManager::_queue
  pc,             \* what each thread does next
  at,             \* the queue a thread is dealing with
  jobs,           \* TryExcute's local vector, what is left of it to run
  submitted,      \* history: jobs pushed to each queue, in order
  done            \* history: jobs of each queue that were run, in order

vars == <<queue, isProcessing, lock, manager, pc, at, jobs, submitted, done>>

Places == {"idle", "notify", "exchange", "giveBack", "drain", "execute"}

In(t, here) == pc[t] = here

Go(t, there) == pc' = [pc EXCEPT ![t] = there]

Init ==
  /\ queue = [q \in Queues |-> <<>>]
  /\ isProcessing = [q \in Queues |-> FALSE]
  /\ lock = [q \in Queues |-> None]
  /\ manager = <<>>
  /\ pc = [t \in Threads |-> "idle"]
  /\ at \in {[t \in Threads |-> q] : q \in Queues}
  /\ jobs = [t \in Threads |-> <<>>]
  /\ submitted = [q \in Queues |-> <<>>]
  /\ done = [q \in Queues |-> <<>>]

------------------------------------------------------------------------------
(* JobQueue::PushJob *)

\* Take the queue's lock and push the job.
PushJob(t, q, j) ==
  /\ In(t, "idle")
  /\ lock[q] = None
  /\ Len(submitted[q]) < MaxJobs
  /\ lock' = [lock EXCEPT ![q] = t]
  /\ queue' = [queue EXCEPT ![q] = Append(queue[q], j)]
  /\ submitted' = [submitted EXCEPT ![q] = Append(submitted[q], j)]
  /\ at' = [at EXCEPT ![t] = q]
  /\ Go(t, "notify")
  /\ UNCHANGED <<isProcessing, manager, jobs, done>>

\* JobManager::Push under the queue's lock, and its release.
Notify(t) ==
  /\ In(t, "notify")
  /\ manager' = Append(manager, at[t])
  /\ lock' = [lock EXCEPT ![at[t]] = None]
  /\ Go(t, "idle")
  /\ UNCHANGED <<queue, isProcessing, at, jobs, submitted, done>>

------------------------------------------------------------------------------
(* IOCPServer::DispatchJob and JobQueue::TryExcute *)

\* JobManager::Pop.  An empty manager ends DispatchJob: nothing changes.
Pop(t) ==
  /\ In(t, "idle")
  /\ manager # <<>>
  /\ at' = [at EXCEPT ![t] = Head(manager)]
  /\ manager' = Tail(manager)
  /\ Go(t, "exchange")
  /\ UNCHANGED <<queue, isProcessing, lock, jobs, submitted, done>>

\* Variant: the flag is set and what it was before ignored.
ExchangeBlindly(t) ==
  /\ In(t, "exchange")
  /\ isProcessing' = [isProcessing EXCEPT ![at[t]] = TRUE]
  /\ Go(t, "drain")
  /\ UNCHANGED <<queue, lock, manager, at, jobs, submitted, done>>

\* _isProcessing.exchange(true).
Exchange(t) ==
  /\ In(t, "exchange")
  /\ isProcessing' = [isProcessing EXCEPT ![at[t]] = TRUE]
  /\ Go(t, IF isProcessing[at[t]] THEN "giveBack" ELSE "drain")
  /\ UNCHANGED <<queue, lock, manager, at, jobs, submitted, done>>

\* Variant: a queue that is being run is left to the worker that runs it.
GiveUp(t) ==
  /\ In(t, "giveBack")
  /\ Go(t, "idle")
  /\ UNCHANGED <<queue, isProcessing, lock, manager, at, jobs, submitted, done>>

\* Another worker runs this queue: back to the manager with it.  Whether
\* DispatchJob then loops or its time is over, the thread is free again.
GiveBack(t) ==
  /\ In(t, "giveBack")
  /\ manager' = Append(manager, at[t])
  /\ Go(t, "idle")
  /\ UNCHANGED <<queue, isProcessing, lock, at, jobs, submitted, done>>

\* Under the queue's lock, everything in the queue moves to the local vector.
Drain(t) ==
  /\ In(t, "drain")
  /\ lock[at[t]] = None
  /\ jobs' = [jobs EXCEPT ![t] = queue[at[t]]]
  /\ queue' = [queue EXCEPT ![at[t]] = <<>>]
  /\ Go(t, "execute")
  /\ UNCHANGED <<isProcessing, lock, manager, at, submitted, done>>

\* Variant: the newest job first.
ExecuteNewest(t) ==
  /\ In(t, "execute")
  /\ jobs[t] # <<>>
  /\ done' = [done EXCEPT ![at[t]] = Append(done[at[t]], Last(jobs[t]))]
  /\ jobs' = [jobs EXCEPT ![t] = Front(jobs[t])]
  /\ UNCHANGED <<queue, isProcessing, lock, manager, pc, at, submitted>>

\* Run the next job of the local vector.
Execute(t) ==
  /\ In(t, "execute")
  /\ jobs[t] # <<>>
  /\ done' = [done EXCEPT ![at[t]] = Append(done[at[t]], Head(jobs[t]))]
  /\ jobs' = [jobs EXCEPT ![t] = Tail(jobs[t])]
  /\ UNCHANGED <<queue, isProcessing, lock, manager, pc, at, submitted>>

\* Variant: the flag is not reset.
ReleaseNothing(t) ==
  /\ In(t, "execute")
  /\ jobs[t] = <<>>
  /\ Go(t, "idle")
  /\ UNCHANGED <<queue, isProcessing, lock, manager, at, jobs, submitted, done>>

\* All run: _isProcessing.store(false), without a look at the queue.
Release(t) ==
  /\ In(t, "execute")
  /\ jobs[t] = <<>>
  /\ isProcessing' = [isProcessing EXCEPT ![at[t]] = FALSE]
  /\ Go(t, "idle")
  /\ UNCHANGED <<queue, lock, manager, at, jobs, submitted, done>>

------------------------------------------------------------------------------
\* What a thread does once it is inside PushJob or TryExcute.
Progress(t) ==
  \/ Notify(t)
  \/ Exchange(t) \/ GiveBack(t) \/ Drain(t) \/ Execute(t) \/ Release(t)

Next ==
  \E t \in Threads :
    \/ \E q \in Queues, j \in Jobs : PushJob(t, q, j)
    \/ Pop(t)
    \/ Progress(t)

Spec == Init /\ [][Next]_vars

\* The OS schedules every thread; some worker keeps calling DispatchJob.
\* Nobody has to push.
Fairness ==
  /\ \A t \in Threads : WF_vars(Progress(t))
  /\ WF_vars(\E t \in Threads : Pop(t))

FairSpec == Spec /\ Fairness

------------------------------------------------------------------------------
(* Properties *)

\* Every variable keeps its type, and a queue's lock is held exactly by the
\* thread that is between its push and its notification of the manager.
TypeOK ==
  /\ queue \in [Queues -> Seq(Jobs)]
  /\ isProcessing \in [Queues -> BOOLEAN]
  /\ lock \in [Queues -> Threads \cup {None}]
  /\ manager \in Seq(Queues)
  /\ pc \in [Threads -> Places]
  /\ at \in [Threads -> Queues]
  /\ jobs \in [Threads -> Seq(Jobs)]
  /\ submitted \in [Queues -> Seq(Jobs)]
  /\ done \in [Queues -> Seq(Jobs)]
  /\ \A t \in Threads, q \in Queues : lock[q] = t <=> pc[t] = "notify" /\ at[t] = q

\* The threads inside TryExcute for queue q, past the exchange.
Running(q) == {t \in Threads : pc[t] \in {"drain", "execute"} /\ at[t] = q}

\* No two workers run jobs of one queue at a time, and the flag that keeps them
\* apart is set exactly while one does: it never stays behind and blocks the
\* queue for ever.
Serial ==
  \A q \in Queues :
    /\ \A t, u \in Running(q) : t = u
    /\ isProcessing[q] <=> Running(q) # {}

\* Somebody will still look at queue q: it is in the manager, or with a thread
\* that will put it there, try it, or drain it.
Announced(q) ==
  \/ \E i \in 1..Len(manager) : manager[i] = q
  \/ \E t \in Threads :
       at[t] = q /\ pc[t] \in {"notify", "exchange", "giveBack", "drain"}

\* A queue with jobs is never forgotten, although a worker may pop it before
\* the flag is free, and although the flag is reset without a look at the
\* queue: a job pushed during the run has its own entry in the manager.
NoForgottenQueue == \A q \in Queues : queue[q] # <<>> => Announced(q)

\* The jobs a worker has taken from queue q and not yet run.
Taken(q) == IF \E t \in Threads : pc[t] = "execute" /\ at[t] = q
              THEN jobs[CHOOSE t \in Threads : pc[t] = "execute" /\ at[t] = q]
              ELSE <<>>

\* Jobs of each queue that have not run.
Waiting == [q \in Queues |-> Taken(q) \o queue[q]]

\* Each queue runs its jobs in the order pushed, each once, none lost.
InOrder == \A q \in Queues : submitted[q] = done[q] \o Waiting[q]

\* The job system implements a serial executor per queue.
Executor == INSTANCE SerialExecutor WITH waiting <- Waiting
ImplementsExecutor == Executor!Spec

\* Every pushed job is run.
EventuallyRun ==
  \A q \in Queues : \A n \in 1..MaxJobs :
    (Len(submitted[q]) >= n) ~> (Len(done[q]) >= n)
==============================================================================
