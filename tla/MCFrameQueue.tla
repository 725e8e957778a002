---------------------------- MODULE MCFrameQueue -----------------------------
(***************************************************************************)
(* FrameQueue with a few jobs, enough for frames of none, one and several. *)
(***************************************************************************)
EXTENDS FrameQueue

MCMaxInserts == 5
==============================================================================
