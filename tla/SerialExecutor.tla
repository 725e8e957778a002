---------------------------- MODULE SerialExecutor ---------------------------
(***************************************************************************)
(* What a JobQueue promises: the jobs pushed to one queue run one after    *)
(* another, in the order pushed, each once; queues do not affect each      *)
(* other.                                                                  *)
(***************************************************************************)
EXTENDS Sequences

CONSTANTS Queues, Jobs

VARIABLES waiting,   \* jobs of each queue that have not run
          done       \* jobs of each queue that have run, in order

vars == <<waiting, done>>

Init ==
  /\ waiting = [q \in Queues |-> <<>>]
  /\ done = [q \in Queues |-> <<>>]

Submit(q, j) ==
  /\ waiting' = [waiting EXCEPT ![q] = Append(waiting[q], j)]
  /\ UNCHANGED done

Run(q) ==
  /\ waiting[q] # <<>>
  /\ done' = [done EXCEPT ![q] = Append(done[q], Head(waiting[q]))]
  /\ waiting' = [waiting EXCEPT ![q] = Tail(waiting[q])]

Next == \E q \in Queues : Run(q) \/ \E j \in Jobs : Submit(q, j)

Spec == Init /\ [][Next]_vars
==============================================================================
