----------------------------- MODULE MCLineDiff -----------------------------
(* Values for TLC: all files of up to five lines of two kinds.             *)
EXTENDS LineDiff
UpToFiveLines == UNION {[1 .. n -> {"x", "y"}] : n \in 0 .. 5}
=============================================================================
