---------------------------- MODULE MCClientSend -----------------------------
(***************************************************************************)
(* A model of ClientSend for TLC: two threads (Unity's and one of the      *)
(* runtime's), and three buffers, one by one or two in a list.             *)
(***************************************************************************)
EXTENDS ClientSend

CONSTANTS t1, t2, b1, b2

MCThreads == {t1, t2}
MCBuffers == {b1, b2}
MCSendLists == {<<b1>>, <<b2>>, <<b1, b2>>}
==============================================================================
