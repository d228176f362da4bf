--------------------------- MODULE MCRouterLedger ---------------------------
(***************************************************************************)
(* Small instances of the quota ledger.                                    *)
(***************************************************************************)
EXTENDS RouterLedger, TLC

LeaseSymmetry == Permutations(Leases)
=============================================================================
