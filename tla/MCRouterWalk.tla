---------------------------- MODULE MCRouterWalk ----------------------------
(***************************************************************************)
(* Small instances of the walk.                                            *)
(***************************************************************************)
EXTENDS RouterWalk
=============================================================================
