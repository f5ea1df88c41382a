--------------------------- MODULE MCParallelPool ---------------------------
(* ParallelPool with its properties, for TLC.                              *)
EXTENDS ParallelPoolProps

CONSTANTS p1, p2
TwoProcesses == {p1, p2}
OneProcess == {p1}       \* what a single chunk gets
=============================================================================
