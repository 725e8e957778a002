----------------------------- MODULE MCGameRoom ------------------------------
(***************************************************************************)
(* GameRoom for the player who comes second (id 1; the first one's is 0,   *)
(* which is also what Room copies when it starts before the id arrives).   *)
(* The opponent may come twice; the array is small, so that _head and      *)
(* _tail go around it.                                                     *)
(***************************************************************************)
EXTENDS GameRoom

MCMe == 1
MCOther == 0
==============================================================================
