-------------------------- MODULE MCFileProcessing --------------------------
(* Values for TLC: every way one pass can turn three or four contents, and *)
(* two fixers, which may undo each other.                                  *)
EXTENDS FileProcessing
CONSTANTS c1, c2, c3, s1, s2
Identity == [c \in Content |-> c]
Always(d) == [c \in Content |-> d]
Swapped == [Identity EXCEPT ![c1] = c2, ![c2] = c1]
TwoFixers == {<<Identity, Swapped>>, <<Swapped, Swapped>>, <<Always(c3), Swapped>>,
              <<Swapped, Always(c1)>>}
AnyRules ==
    {[finds |-> [s \in Sniff |-> IF s = s1 THEN found ELSE {c1, c2}],
      turn |-> turn, offending |-> offending, fixers |-> fixers] :
        found \in {{}, {c2}, Content}, turn \in [Content -> Content],
        offending \in SUBSET Content, fixers \in TwoFixers}
=============================================================================
