---------------------------- MODULE MCIDGenerator ----------------------------
(***************************************************************************)
(* IDGenerator with four IDs instead of 65536 and two threads.             *)
(***************************************************************************)
EXTENDS IDGenerator

CONSTANTS t1, t2

MCCallers == {t1, t2}
==============================================================================
