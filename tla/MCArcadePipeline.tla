-------------------------- MODULE MCArcadePipeline --------------------------
(***************************************************************************)
(* Two goroutines per runner, so that a runner's own guard is contended as *)
(* well as the slot.                                                      *)
(***************************************************************************)
EXTENDS ArcadePipeline
=============================================================================
