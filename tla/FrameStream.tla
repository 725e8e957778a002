----------------------------- MODULE FrameStream -----------------------------
(***************************************************************************)
(* The byte stream of a connection, cut into frames (a PacketHeader with   *)
(* the size of the whole, then the body).  A byte is named by its position *)
(* in the stream, counted from 1, so a buffer holds a sequence of          *)
(* positions and what is in it can be compared with what was sent.  The    *)
(* stream is given by the positions its frames end at.                     *)
(***************************************************************************)
EXTENDS Integers, Sequences

CONSTANTS HeaderSize,   \* sizeof(PacketHeader)
          FrameSizes    \* sizes a frame may have, header included

ASSUME FrameAssumption ==
  /\ HeaderSize \in Nat \ {0}
  /\ FrameSizes \subseteq {n \in Nat : n >= HeaderSize}

Streams == Seq(Nat)

\* The last position of the first k frames.
End(ends, k) == IF k = 0 THEN 0 ELSE ends[k]

Total(ends) == End(ends, Len(ends))

\* One more frame of n bytes.
Extended(ends, n) == Append(ends, Total(ends) + n)

SizeOf(ends, k) == End(ends, k) - End(ends, k - 1)

\* The size that a header read at position p gives: away from the start of a
\* frame it is not a header, and any number would do.
SizeAt(ends, p) ==
  IF \E k \in 1..Len(ends) : p = End(ends, k - 1) + 1
    THEN SizeOf(ends, CHOOSE k \in 1..Len(ends) : p = End(ends, k - 1) + 1)
    ELSE HeaderSize
==============================================================================
