------------------------- MODULE MCArcadeDownloads -------------------------
(* Two operators, four requests, one system with a torrent and one without. *)
EXTENDS ArcadeDownloads, TLC

CONSTANTS snes, exo, o1, o2
AllSystems == {snes, exo}
Downloadable == {snes}
TwoOperators == {o1, o2}
Symmetry == Permutations(TwoOperators)
=============================================================================
