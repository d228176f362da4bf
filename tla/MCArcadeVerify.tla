--------------------------- MODULE MCArcadeVerify ---------------------------
(***************************************************************************)
(* The first, the mutated and the damaged bytes of the DAT claim the staged *)
(* file, the second generation does not.                                   *)
(***************************************************************************)
EXTENDS ArcadeVerify

MCMatches == {1, Mutated, Damaged} \X {d \in Stamps : d % 2 = 0}
=============================================================================
