--------------------------- MODULE MCBlinkRunner ---------------------------
(* Values for TLC.                                                         *)
EXTENDS BlinkRunner

CONSTANTS w1, w2, w3

ThreeWorkers == {w1, w2, w3}

(* Four files found out of name order: 1 is left alone, 2 is changed, 3    *)
(* has errors only, 4 is both.                                             *)
Four == <<3, 1, 4, 2>>
FourFixable == {2, 4}
FourErroneous == {3, 4}
Own == [f \in 1 .. 4 |-> f]
=============================================================================
