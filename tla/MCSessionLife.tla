---------------------------- MODULE MCSessionLife ----------------------------
(***************************************************************************)
(* A model of SessionLife for TLC: two workers, one accept event, two      *)
(* sessions in turn.  Two handles make the OS reuse a closed one.          *)
(***************************************************************************)
EXTENDS SessionLife, TLC

CONSTANTS s1, s2, h1, h2, k1, w1, w2

MCSessions == {s1, s2}
MCHandles == {h1, h2}
MCSlots == {k1}
MCWorkers == {w1, w2}

MCSymmetry == Permutations(MCSessions) \cup Permutations(MCHandles)
                \cup Permutations(MCWorkers)
==============================================================================
