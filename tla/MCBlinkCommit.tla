---------------------------- MODULE MCBlinkCommit ----------------------------
(* Values for TLC: three rules over at most three files.                   *)
EXTENDS BlinkCommit
CONSTANTS f1, f2, new
=============================================================================
