---------------------------- MODULE MCSunoBackup ----------------------------
(***************************************************************************)
(* Two tracks, the second generated while the daemon runs; one to a page.  *)
(***************************************************************************)
EXTENDS SunoBackup

CONSTANTS c1, c2

MCTracks == {c1, c2}
MCOld == <<c1>>
=============================================================================
