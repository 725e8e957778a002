----------------------------- MODULE FrameQueue ------------------------------
(***************************************************************************)
(* ServerLib's DoubleJobQueue (DoubleJobQueue.cpp) and the frame loop of   *)
(* GameServer's main that drives it (main.cpp).                            *)
(*                                                                         *)
(* Threads insert into one queue while the main thread executes the other, *)
(* and once a frame the main thread swaps the two.  Inserting and swapping *)
(* hold _lock; executing does not, since only the main thread touches the  *)
(* execute queue between two swaps.  A job may insert jobs itself.         *)
(*                                                                         *)
(* The code runs the job at the back of the execute queue and then pops    *)
(* the front: std::queue's pop removes the oldest element.                 *)
(*                                                                         *)
(* Definitions commented "Variant" are no part of the model: each is an    *)
(* action with a plausible bug that a property is shown to catch.          *)
(***************************************************************************)
EXTENDS Integers, Sequences, SequencesExt

CONSTANT MaxInserts   \* bound: jobs inserted in a behaviour

ASSUME InsertsAssumption == MaxInserts \in Nat

VARIABLES
  insertQueue,        \* _insertJobQueue; jobs are numbered as inserted
  executeQueue,       \* _executeJobQueue
  loop,               \* main: at the loop's test, after a job, or at frame end
  inserted,           \* history: number of jobs inserted
  executed            \* history: the jobs run, in order

frameVars == <<insertQueue, executeQueue, loop, inserted, executed>>

FrameInit ==
  /\ insertQueue = <<>>
  /\ executeQueue = <<>>
  /\ loop = "test"
  /\ inserted = 0
  /\ executed = <<>>

------------------------------------------------------------------------------
\* DoubleJobQueue::InsertJob
InsertJob ==
  /\ inserted < MaxInserts
  /\ inserted' = inserted + 1
  /\ insertQueue' = Append(insertQueue, inserted + 1)
  /\ UNCHANGED <<executeQueue, loop, executed>>

\* ExecuteJob's loop: run the job at the back.
ExecuteBack ==
  /\ loop = "test"
  /\ executeQueue # <<>>
  /\ executed' = Append(executed, Last(executeQueue))
  /\ loop' = "pop"
  /\ UNCHANGED <<insertQueue, executeQueue, inserted>>

\* ExecuteJob's loop: pop the front.
PopFront ==
  /\ loop = "pop"
  /\ executeQueue' = Tail(executeQueue)
  /\ loop' = "test"
  /\ UNCHANGED <<insertQueue, inserted, executed>>

\* Variant: when its time is over, ExecuteJob leaves the rest for later.
FinishEarly ==
  /\ loop = "test"
  /\ loop' = "frame"
  /\ UNCHANGED <<insertQueue, executeQueue, inserted, executed>>

\* ExecuteJob returns when the queue is empty, however long that took; main
\* waits for what is left of the frame.
FinishExecute ==
  /\ loop = "test"
  /\ executeQueue = <<>>
  /\ loop' = "frame"
  /\ UNCHANGED <<insertQueue, executeQueue, inserted, executed>>

\* Variant: copies of the pointers are swapped.
SwapCopies ==
  /\ loop = "frame"
  /\ loop' = "test"
  /\ UNCHANGED <<insertQueue, executeQueue, inserted, executed>>

\* DoubleJobQueue::SwapQueue, and main's next frame.
SwapQueue ==
  /\ loop = "frame"
  /\ insertQueue' = executeQueue
  /\ executeQueue' = insertQueue
  /\ loop' = "test"
  /\ UNCHANGED <<inserted, executed>>

Main == ExecuteBack \/ PopFront \/ FinishExecute \/ SwapQueue

FrameNext == InsertJob \/ Main

FrameSpec == FrameInit /\ [][FrameNext]_frameVars

\* The main thread never stops; nobody has to insert.
FairFrameSpec == FrameSpec /\ WF_frameVars(Main)

------------------------------------------------------------------------------
(* Properties *)

\* Every inserted job is in one of the queues or stands for one execution:
\* the number of executions main's counter and the unit test see is right.
CountsAgree ==
  Len(executed) + Len(executeQueue) + Len(insertQueue)
    = inserted + (IF loop = "pop" THEN 1 ELSE 0)

\* A job never runs after a newer one, in one frame or across frames: swapping
\* does not bring old jobs back.
NeverOlder ==
  \A i, k \in 1..Len(executed) : i < k => executed[i] <= executed[k]

\* Each insertion leads to one more execution.
EveryInsertCounts ==
  \A n \in 1..MaxInserts : (inserted >= n) ~> (Len(executed) >= n)

\* UnitTest1.cpp's last assertion, "not all jobs were executed" if it fails: at
\* the end of a frame every job of that frame and of the ones before has run.
AllRun ==
  loop = "frame" =>
    \A j \in 1..(inserted - Len(insertQueue)) :
      \E i \in 1..Len(executed) : executed[i] = j
==============================================================================
