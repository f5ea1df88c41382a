----------------------------- MODULE MCFixFile -----------------------------
(* Values for TLC: three rules, the first two instances of one fixer, the  *)
(* second looking for "b"; the third is skipped for the file.              *)
EXTENDS FixFile

Chars2 == {<<>>, <<"a">>, <<"b">>, <<"a", "b">>}
Slices1 == {<<>>, <<<<>>>>, <<<<"b">>>>, <<<<"a">>, <<>>>>}
SourcesAB == {<<<<"a">>, <<"b">>>>, <<<<"a">>, <<"a">>>>}
ThreeNames == <<"twin", "twin", "other">>
WordsAB == <<None, "b", "a">>
OneReporter == {2}
LastSkipped == {3}
============================================================================
