----------------------------- MODULE SendChannel -----------------------------
(***************************************************************************)
(* What Session::Send promises its callers: an outgoing FIFO channel.      *)
(* Accepted buffers wait in order; the transport takes them from the       *)
(* front, one batch per call; a refused call loses exactly the batch it    *)
(* was given.  Nothing is reordered, duplicated or invented.               *)
(***************************************************************************)
EXTENDS Integers, Sequences

CONSTANTS Buffers,   \* the SendBuffers a caller may submit
          Batches    \* the sequences of buffers one call may carry

VARIABLES pending,   \* accepted, not yet handed to the transport
          sent       \* handed to the transport, in order

vars == <<pending, sent>>

Init == pending = <<>> /\ sent = <<>>

Submit(b) ==
  /\ pending' = Append(pending, b)
  /\ UNCHANGED sent

\* The transport accepts a batch.
Transmit(batch, rest) ==
  /\ pending = batch \o rest
  /\ pending' = rest
  /\ sent' = sent \o batch

\* The transport refuses a batch: its buffers are gone.
Lose(batch, rest) ==
  /\ pending = batch \o rest
  /\ pending' = rest
  /\ UNCHANGED sent

Next ==
  \/ \E b \in Buffers : Submit(b)
  \/ \E n \in 0..Len(pending) :
       LET batch == SubSeq(pending, 1, n)
           rest  == SubSeq(pending, n + 1, Len(pending))
       IN /\ batch \in Batches
          /\ Transmit(batch, rest) \/ Lose(batch, rest)

Spec == Init /\ [][Next]_vars
==============================================================================
