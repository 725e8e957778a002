--------------------------- MODULE MCDongleMirror ----------------------------
(***************************************************************************)
(* DongleMirror with three dongles of the levels 0 to 2, where 2 is the    *)
(* highest: enough for a chain of merges, for an object of the mirror's    *)
(* pool used again, and for two dongles of the highest level to meet.      *)
(***************************************************************************)
EXTENDS DongleMirror

CONSTANTS p0, p1

MCPositions == {p0, p1}
==============================================================================
