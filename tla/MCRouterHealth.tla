--------------------------- MODULE MCRouterHealth ---------------------------
(***************************************************************************)
(* Small instances of the health machine.                                  *)
(***************************************************************************)
EXTENDS RouterHealth
=============================================================================
