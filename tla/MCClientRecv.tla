---------------------------- MODULE MCClientRecv -----------------------------
(***************************************************************************)
(* A model of ClientRecv for TLC: frames of two and of three bytes, a      *)
(* buffer of four, so that frames are cut and what is left of one moves to *)
(* the front, and a stream of more than twice the buffer.                  *)
(***************************************************************************)
EXTENDS ClientRecv

MCFrameSizes == {2, 3}
MCMaxTotal == 10
==============================================================================
