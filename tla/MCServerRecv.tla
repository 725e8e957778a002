---------------------------- MODULE MCServerRecv -----------------------------
(***************************************************************************)
(* A model of ServerRecv for TLC: frames of two and of three bytes, and a  *)
(* buffer of three times three bytes that the stream exceeds by a frame.   *)
(***************************************************************************)
EXTENDS ServerRecv

MCFrameSizes == {2, 3}
MCMaxTotal == 11
==============================================================================
