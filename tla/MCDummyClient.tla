---------------------------- MODULE MCDummyClient ----------------------------
(***************************************************************************)
(* A model of DummyClient for TLC: two tests of one dispatch thread each.  *)
(* Either the first has a session that sends, and the second a new one; or *)
(* both have the same session, which does not, so that tests overlap.      *)
(***************************************************************************)
EXTENDS DummyClient

CONSTANTS s1, s2, w1

MCSessions == {s1, s2}
MCWorkers == {w1}
MCAdded == {<<{}, {s1}>>, <<{s1}, {s2}>>, <<{}, {s2}>>, <<{s2}, {}>>}
MCSenders == {s1}
==============================================================================
