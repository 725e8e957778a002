---------------------------- MODULE MCJobDispatch ----------------------------
(***************************************************************************)
(* An instance of JobDispatch: two queues and three threads, enough for a  *)
(* pusher and two workers that meet at one queue.                          *)
(***************************************************************************)
EXTENDS JobDispatch

CONSTANTS t1, t2, t3, q1, q2, j1, j2

MCThreads == {t1, t2, t3}
MCQueues == {q1, q2}
MCJobs == {j1, j2}
==============================================================================
