-------------------------- MODULE MCArcadeLibrary --------------------------
(***************************************************************************)
(* A catalogued system with two games, of which one comes later, and an eXo *)
(* system with one.                                                        *)
(***************************************************************************)
EXTENDS ArcadeLibrary

CONSTANTS nes, dos

MCSystemOf == <<dos, nes, nes>>
=============================================================================
