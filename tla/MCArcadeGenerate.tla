-------------------------- MODULE MCArcadeGenerate --------------------------
(***************************************************************************)
(* Two systems and two processes, alike among themselves.                  *)
(***************************************************************************)
EXTENDS ArcadeGenerate, TLC

Alike == Permutations(Systems) \cup Permutations(Games) \cup Permutations(Lives)
=============================================================================
