------------------------- MODULE MCRouterMembership -------------------------
(***************************************************************************)
(* Two providers that share a family; the second family only one serves.   *)
(***************************************************************************)
EXTENDS RouterMembership

CONSTANTS p1, p2, f1, f2, h1, h2

MCProviders == {p1, p2}
MCFamilies  == {f1, f2}
MCSeed      == {<<f1, p1>>, <<f1, p2>>, <<f2, p1>>}
MCPaid      == {<<f2, p1>>}
MCEnvKeys   == {p1}
MCOpenList  == {p2}
MCHandlers  == {h1, h2}
=============================================================================
