--------------------------- MODULE MCSendPipeline ----------------------------
(***************************************************************************)
(* An instance of SendPipeline: three threads, and buffers that are half   *)
(* the limit, so that two of them fill a batch exactly, and above it (the  *)
(* C++ code does not forbid that).                                         *)
(***************************************************************************)
EXTENDS SendPipeline, TLC

CONSTANTS t1, t2, t3, half, large

MCThreads == {t1, t2, t3}
MCBuffers == {half, large}
MCSize == (half :> 1) @@ (large :> 3)
==============================================================================
