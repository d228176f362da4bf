--------------------------- MODULE MCArcadeRegen ----------------------------
(***************************************************************************)
(* The regeneration coordinator in six scenarios: edits against clicks and *)
(* a failed read; edits against a click and a kill; an edit against a      *)
(* verify and a click, and against a verify and a scan; two verifies       *)
(* against a scan and a failing one; two verifies against a click and a    *)
(* kill.  And the two smallest ones that show a disagreement.              *)
(***************************************************************************)
EXTENDS ArcadeRegen

MCScenarios == {
  [edits |-> 2, verifies |-> 0, scans |-> 0, clicks |-> 2, faults |-> 1, kills |-> 0],
  [edits |-> 2, verifies |-> 0, scans |-> 0, clicks |-> 1, faults |-> 0, kills |-> 1],
  [edits |-> 1, verifies |-> 1, scans |-> 0, clicks |-> 1, faults |-> 0, kills |-> 0],
  [edits |-> 1, verifies |-> 1, scans |-> 1, clicks |-> 0, faults |-> 0, kills |-> 0],
  [edits |-> 0, verifies |-> 2, scans |-> 1, clicks |-> 0, faults |-> 1, kills |-> 0],
  [edits |-> 0, verifies |-> 2, scans |-> 0, clicks |-> 1, faults |-> 0, kills |-> 1]}

EditAndClick == {
  [edits |-> 1, verifies |-> 0, scans |-> 0, clicks |-> 1, faults |-> 0, kills |-> 0]}

VerifyAndScan == {
  [edits |-> 0, verifies |-> 1, scans |-> 1, clicks |-> 0, faults |-> 0, kills |-> 0]}
=============================================================================
