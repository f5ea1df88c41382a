---------------------------- MODULE LineDiffProofs ----------------------------
(***************************************************************************)
(* For any two files and any context: the operations and the hunks tell    *)
(* the two files, and no diff is shorter.                                  *)
(*                                                                         *)
(* The properties speak of the end; at every step before it the hunk that  *)
(* is being collected and the line the cut is at must fit as well, which   *)
(* is what WalkInv and CutInv say.  ShortInv says that the walk has kept   *)
(* what the table promised, and the table that no more can be kept.        *)
(***************************************************************************)
EXTENDS LineDiff, SequenceTheorems, WellFoundedInduction, TLAPS

Op == [kind : {"equal", "del", "add"}, text : Line]
Hunk == [fromLine : Nat, ops : Seq(Op)]
-----------------------------------------------------------------------------
(* Induction and recursion over 0 .. m, from the order of the naturals.    *)

LEMMA LeastNatural ==
    ASSUME NEW S \in SUBSET Nat, S # {}
    PROVE  \E n \in S : \A m \in S : n <= m
<1>1. \E n \in S : \A m \in S : ~ (<<m, n>> \in OpToRel(<, Nat))
  BY NatLessThanWellFounded, WFMin
<1>2. PICK n \in S : \A m \in S : ~ (<<m, n>> \in OpToRel(<, Nat))
  BY <1>1
<1>3. \A m \in S : ~ (m < n)
  BY <1>2 DEF OpToRel
<1> QED BY <1>3

LEMMA Induction ==
    ASSUME NEW S, NEW m \in Nat, 0 \in S, \A n \in 0 .. m - 1 : n \in S => n + 1 \in S
    PROVE  0 .. m \subseteq S
<1> SUFFICES ASSUME (0 .. m) \ S # {} PROVE FALSE
  OBVIOUS
<1>0. (0 .. m) \ S \in SUBSET Nat
  OBVIOUS
<1>1. PICK n \in (0 .. m) \ S : \A x \in (0 .. m) \ S : n <= x
  BY <1>0, LeastNatural
<1>2. n - 1 \in 0 .. m - 1 /\ n - 1 \in S /\ (n - 1) + 1 = n
  BY <1>1
<1> QED BY <1>1, <1>2

Follows(f, X, m, base, step) ==
    /\ f \in [0 .. m -> X]
    /\ f[0] = base /\ \A n \in 1 .. m : f[n] = step[n][f[n - 1]]

LEMMA Recursion ==
    ASSUME NEW X, NEW m \in Nat, NEW base \in X, NEW step \in [1 .. m -> [X -> X]]
    PROVE  \E f : Follows(f, X, m, base, step)
<1> DEFINE Upto(n) == \E f \in [0 .. n -> X] :
               f = [e \in 0 .. n |-> IF e = 0 THEN base ELSE step[e][f[e - 1]]]
           S == {n \in 0 .. m : Upto(n)}
<1>1. 0 \in S
  <2>1. [e \in 0 .. 0 |-> base] \in [0 .. 0 -> X]
    OBVIOUS
  <2>2. [e \in 0 .. 0 |-> base] = [e \in 0 .. 0 |-> IF e = 0 THEN base ELSE step[e][[x \in 0 .. 0 |-> base][e - 1]]]
    OBVIOUS
  <2>3. Upto(0)
    BY <2>1, <2>2
  <2> QED BY <2>3
<1>2. ASSUME NEW n \in 0 .. m - 1, n \in S PROVE n + 1 \in S
  <2>1. PICK f \in [0 .. n -> X] :
               f = [e \in 0 .. n |-> IF e = 0 THEN base ELSE step[e][f[e - 1]]]
    BY <1>2
  <2> DEFINE g == [e \in 0 .. n + 1 |-> IF e <= n THEN f[e] ELSE step[n + 1][f[n]]]
  <2>2. step[n + 1][f[n]] \in X
    OBVIOUS
  <2>3. g \in [0 .. n + 1 -> X]
    BY <2>2
  <2>4. ASSUME NEW e \in 0 .. n + 1 PROVE g[e] = IF e = 0 THEN base ELSE step[e][g[e - 1]]
    <3>1. CASE e = 0
      <4>1. f[0] = base
        BY <2>1
      <4> QED BY <3>1, <4>1
    <3>2. CASE e # 0 /\ e <= n
      <4>1. f[e] = step[e][f[e - 1]]
        BY <2>1, <3>2
      <4>2. g[e] = f[e] /\ g[e - 1] = f[e - 1]
        BY <3>2
      <4> QED BY <3>2, <4>1, <4>2
    <3>3. CASE e = n + 1
      BY <3>3
    <3> QED BY <3>1, <3>2, <3>3
  <2>5. g = [e \in 0 .. n + 1 |-> IF e = 0 THEN base ELSE step[e][g[e - 1]]]
    <3> HIDE DEF g
    <3> QED BY <2>3, <2>4
  <2>6. Upto(n + 1)
    <3> HIDE DEF g
    <3> QED BY <2>3, <2>5
  <2>7. n + 1 \in 0 .. m
    OBVIOUS
  <2> HIDE DEF Upto
  <2> QED BY <2>6, <2>7
<1>3. 0 .. m \subseteq S
  <2> HIDE DEF S
  <2> QED BY <1>1, <1>2, Induction
<1>4. Upto(m)
  BY <1>3
<1>5. PICK f \in [0 .. m -> X] :
               f = [e \in 0 .. m |-> IF e = 0 THEN base ELSE step[e][f[e - 1]]]
  BY <1>4
<1> QED BY <1>5 DEF Follows
-----------------------------------------------------------------------------
(* The lines of a sequence of operations.                                  *)

LEMMA OpFields == \A o \in Op : o.kind \in {"equal", "del", "add"} /\ o.text \in Line
BY DEF Op

LEMMA LinesScan ==
    ASSUME NEW os \in Seq(Op), NEW kinds
    PROVE  \E f \in [0 .. Len(os) -> Seq(Line)] :
               /\ f[0] = <<>>
               /\ \A n \in 1 .. Len(os) :
                      f[n] = IF os[n].kind \in kinds THEN Append(f[n - 1], os[n].text)
                             ELSE f[n - 1]
               /\ Lines(os, kinds) = f[Len(os)]
<1> DEFINE X == Seq(Line)
           m == Len(os)
           step == [n \in 1 .. m |-> [x \in X |->
                       IF os[n].kind \in kinds THEN Append(x, os[n].text) ELSE x]]
           Is(f) == f = [n \in 0 .. m |->
                            IF n = 0 THEN <<>>
                            ELSE IF os[n].kind \in kinds THEN Append(f[n - 1], os[n].text)
                            ELSE f[n - 1]]
           g == CHOOSE f : Is(f)
<1>1. m \in Nat /\ <<>> \in X /\ \A n \in 1 .. m : os[n].text \in Line
  <2>1. \A n \in 1 .. m : os[n] \in Op
    OBVIOUS
  <2> QED BY <2>1, OpFields
<1>2. ASSUME NEW n \in 1 .. m, NEW x \in X
      PROVE  /\ step[n][x] = IF os[n].kind \in kinds THEN Append(x, os[n].text) ELSE x
             /\ step[n][x] \in X
  <2>1. Append(x, os[n].text) \in X
    BY <1>1
  <2> QED BY <2>1
<1>3. step \in [1 .. m -> [X -> X]]
  <2>1. ASSUME NEW n \in 1 .. m PROVE step[n] \in [X -> X]
    <3>1. step[n] = [x \in X |-> IF os[n].kind \in kinds THEN Append(x, os[n].text) ELSE x]
      OBVIOUS
    <3>2. \A x \in X : (IF os[n].kind \in kinds THEN Append(x, os[n].text) ELSE x) \in X
      BY <1>2
    <3> HIDE DEF X, step
    <3> QED BY <3>1, <3>2
  <2> QED BY <2>1
<1>4. PICK f : Follows(f, X, m, <<>>, step)
  <2> HIDE DEF X, m, step
  <2> QED BY <1>1, <1>3, Recursion
<1>5. ASSUME NEW n \in 1 .. m
      PROVE  f[n] = IF os[n].kind \in kinds THEN Append(f[n - 1], os[n].text) ELSE f[n - 1]
  <2>1. n - 1 \in 0 .. m
    OBVIOUS
  <2>2. f[n] = step[n][f[n - 1]] /\ f[n - 1] \in X
    <3> HIDE DEF X, m, step
    <3> QED BY <1>4, <2>1 DEF Follows
  <2> HIDE DEF X, m, step
  <2> QED BY <1>2, <2>2
<1>6. Is(f)
  <2>1. f[0] = <<>> /\ f = [n \in 0 .. m |-> f[n]]
    BY <1>4 DEF Follows
  <2>2. ASSUME NEW n \in 0 .. m
        PROVE  f[n] = IF n = 0 THEN <<>>
                      ELSE IF os[n].kind \in kinds THEN Append(f[n - 1], os[n].text)
                      ELSE f[n - 1]
    <3>1. n = 0 \/ n \in 1 .. m
      OBVIOUS
    <3> HIDE DEF m
    <3> QED BY <3>1, <2>1, <1>5
  <2> HIDE DEF X, m, step
  <2> QED BY <2>1, <2>2
<1>7. Lines(os, kinds) = g[m]
  BY DEF Lines
<1>8. Is(g)
  BY <1>6
<1> HIDE DEF g
<1>9. ASSUME NEW n \in 1 .. m
      PROVE  g[n] = IF os[n].kind \in kinds THEN Append(g[n - 1], os[n].text) ELSE g[n - 1]
  <2>1. n \in 0 .. m /\ n # 0
    OBVIOUS
  <2> HIDE DEF m, X
  <2> QED BY <1>8, <2>1
<1>10. g[0] = <<>> /\ g = [n \in 0 .. m |-> g[n]]
  <2> HIDE DEF m
  <2> QED BY <1>1, <1>8
<1> DEFINE S == {n \in 0 .. m : g[n] \in X}
<1>11. 0 .. m \subseteq S
  <2>1. 0 \in S
    <3> HIDE DEF X, m
    <3> QED BY <1>1, <1>10
  <2>2. ASSUME NEW n \in 0 .. m - 1, n \in S PROVE n + 1 \in S
    <3>1. n + 1 \in 1 .. m /\ n + 1 \in 0 .. m /\ (n + 1) - 1 = n
      OBVIOUS
    <3>2. g[n + 1] = IF os[n + 1].kind \in kinds THEN Append(g[n], os[n + 1].text) ELSE g[n]
      BY <1>9, <3>1
    <3>3. g[n] \in X
      BY <2>2
    <3>4. g[n + 1] = step[n + 1][g[n]] /\ step[n + 1][g[n]] \in X
      <4> HIDE DEF X, m, step
      <4> QED BY <1>2, <3>1, <3>2, <3>3
    <3> QED BY <3>1, <3>4
  <2> HIDE DEF S, m, X
  <2> QED BY <1>1, <2>1, <2>2, Induction
<1>12. g \in [0 .. m -> X]
  <2>1. \A n \in 0 .. m : g[n] \in X
    BY <1>11
  <2> HIDE DEF X, m
  <2> QED BY <1>10, <2>1
<1> QED BY <1>7, <1>9, <1>10, <1>12

LEMMA LinesType ==
    ASSUME NEW os \in Seq(Op), NEW kinds
    PROVE  Lines(os, kinds) \in Seq(Line) /\ (Len(os) = 0 => Lines(os, kinds) = <<>>)
<1>1. PICK f \in [0 .. Len(os) -> Seq(Line)] :
          f[0] = <<>> /\ Lines(os, kinds) = f[Len(os)]
  BY LinesScan
<1>2. Len(os) \in 0 .. Len(os)
  OBVIOUS
<1> QED BY <1>1, <1>2

LEMMA LinesEmpty == ASSUME NEW kinds PROVE Lines(<<>>, kinds) = <<>>
<1>1. <<>> \in Seq(Op) /\ Len(<<>>) = 0
  OBVIOUS
<1> QED BY <1>1, LinesType

LEMMA LinesAppend ==
    ASSUME NEW os \in Seq(Op), NEW o \in Op, NEW kinds
    PROVE  /\ Lines(os, kinds) \in Seq(Line)
           /\ Lines(Append(os, o), kinds) =
                  IF o.kind \in kinds THEN Append(Lines(os, kinds), o.text)
                  ELSE Lines(os, kinds)
<1> DEFINE m == Len(os)
           us == Append(os, o)
<1>1. /\ m \in Nat /\ us \in Seq(Op) /\ Len(us) = m + 1
      /\ us[m + 1] = o /\ \A n \in 1 .. m : us[n] = os[n]
  BY AppendProperties
<1> HIDE DEF us
<1>2. PICK f \in [0 .. m -> Seq(Line)] :
               /\ f[0] = <<>>
               /\ \A n \in 1 .. m :
                      f[n] = IF os[n].kind \in kinds THEN Append(f[n - 1], os[n].text)
                             ELSE f[n - 1]
               /\ Lines(os, kinds) = f[m]
  BY LinesScan
<1>3. PICK g \in [0 .. Len(us) -> Seq(Line)] :
               /\ g[0] = <<>>
               /\ \A n \in 1 .. Len(us) :
                      g[n] = IF us[n].kind \in kinds THEN Append(g[n - 1], us[n].text)
                             ELSE g[n - 1]
               /\ Lines(us, kinds) = g[Len(us)]
  BY <1>1, LinesScan
<1> DEFINE S == {n \in 0 .. m : g[n] = f[n]}
<1>4. 0 .. m \subseteq S
  <2>1. 0 \in S
    BY <1>1, <1>2, <1>3
  <2>2. ASSUME NEW n \in 0 .. m - 1, n \in S PROVE n + 1 \in S
    <3>1. /\ n + 1 \in 0 .. m /\ n + 1 \in 1 .. m /\ (n + 1) - 1 = n /\ g[n] = f[n]
          /\ n + 1 \in 1 .. Len(us) /\ us[n + 1] = os[n + 1]
      BY <1>1, <2>2
    <3>2. g[n + 1] = IF us[n + 1].kind \in kinds THEN Append(g[n], us[n + 1].text) ELSE g[n]
      <4> HIDE DEF m
      <4> QED BY <1>3, <3>1
    <3>3. f[n + 1] = IF os[n + 1].kind \in kinds THEN Append(f[n], os[n + 1].text) ELSE f[n]
      <4> HIDE DEF m
      <4> QED BY <1>2, <3>1
    <3>4. g[n + 1] = f[n + 1]
      BY <3>1, <3>2, <3>3
    <3> QED BY <3>1, <3>4
  <2> HIDE DEF S, m
  <2> QED BY <1>1, <2>1, <2>2, Induction
<1>5. m \in 0 .. m /\ m + 1 \in 1 .. Len(us) /\ (m + 1) - 1 = m
  BY <1>1
<1>6. g[m] = f[m] /\ f[m] \in Seq(Line)
  <2>1. m \in S
    <3> HIDE DEF S, m
    <3> QED BY <1>4, <1>5
  <2> QED BY <2>1
<1>7. g[m + 1] = IF us[m + 1].kind \in kinds THEN Append(g[m], us[m + 1].text) ELSE g[m]
  <2> HIDE DEF m
  <2> QED BY <1>3, <1>5
<1> QED BY <1>1, <1>2, <1>3, <1>6, <1>7 DEF us

LEMMA PrefixGrows ==
    ASSUME NEW T, NEW s \in Seq(T), NEW m \in 1 .. Len(s) + 1, NEW n \in m - 1 .. Len(s) - 1
    PROVE  /\ SubSeq(s, m, n) \in Seq(T) /\ s[n + 1] \in T
           /\ SubSeq(s, m, n + 1) = Append(SubSeq(s, m, n), s[n + 1])
<1>1. /\ m \in 1 .. Len(s) /\ n + 1 \in m .. Len(s) /\ (n + 1) - 1 = n
      /\ \A i0 \in m .. n : s[i0] \in T
      /\ s[n + 1] \in T
  OBVIOUS
<1>2. SubSeq(s, m, n + 1) = SubSeq(s, m, n) \o <<s[n + 1]>>
  BY <1>1, SubSeqRecursiveSecond
<1>3. SubSeq(s, m, n) \in Seq(T)
  BY <1>1, SubSeqProperties
<1> QED BY <1>1, <1>2, <1>3, AppendIsConcat

LEMMA LinesConcatStep ==
    ASSUME NEW os \in Seq(Op), NEW us \in Seq(Op), NEW o \in Op, NEW kinds,
           Lines(os \o us, kinds) = Lines(os, kinds) \o Lines(us, kinds)
    PROVE  Lines(os \o Append(us, o), kinds) = Lines(os, kinds) \o Lines(Append(us, o), kinds)
<1> DEFINE x == Lines(os, kinds)
           y == Lines(us, kinds)
<1>1. x \in Seq(Line) /\ y \in Seq(Line) /\ o.text \in Line
  BY LinesType, OpFields
<1>2. os \o us \in Seq(Op) /\ x \o y \in Seq(Line)
  BY <1>1, ConcatProperties
<1>3. os \o Append(us, o) = Append(os \o us, o)
  <2>1. <<o>> \in Seq(Op) /\ Append(us, o) = us \o <<o>>
    BY AppendIsConcat
  <2>2. os \o (us \o <<o>>) = (os \o us) \o <<o>>
    BY <2>1, ConcatAssociative
  <2>3. Append(os \o us, o) = (os \o us) \o <<o>>
    BY <1>2, AppendIsConcat
  <2> QED BY <2>1, <2>2, <2>3
<1>4. Append(x \o y, o.text) = x \o Append(y, o.text)
  <2> DEFINE t == o.text
  <2>1. t \in Line
    BY <1>1
  <2> HIDE DEF t, x, y
  <2>2. <<t>> \in Seq(Line) /\ Append(y, t) = y \o <<t>>
    BY <1>1, <2>1, AppendIsConcat
  <2>3. x \o (y \o <<t>>) = (x \o y) \o <<t>>
    BY <1>1, <2>2, ConcatAssociative
  <2>4. Append(x \o y, t) = (x \o y) \o <<t>>
    BY <1>2, <2>1, AppendIsConcat
  <2>5. Append(x \o y, t) = x \o Append(y, t)
    BY <2>2, <2>3, <2>4
  <2> QED BY <2>5 DEF t
<1>5. Lines(Append(us, o), kinds) = IF o.kind \in kinds THEN Append(y, o.text) ELSE y
  BY LinesAppend
<1>6. Lines(Append(os \o us, o), kinds) =
          IF o.kind \in kinds THEN Append(x \o y, o.text) ELSE x \o y
  BY <1>2, LinesAppend
<1> QED BY <1>3, <1>4, <1>5, <1>6

LEMMA LinesConcatNext ==
    ASSUME NEW os \in Seq(Op), NEW us \in Seq(Op), NEW kinds, NEW n \in 0 .. Len(us) - 1,
           Lines(os \o SubSeq(us, 1, n), kinds) = Lines(os, kinds) \o Lines(SubSeq(us, 1, n), kinds)
    PROVE  Lines(os \o SubSeq(us, 1, n + 1), kinds) =
               Lines(os, kinds) \o Lines(SubSeq(us, 1, n + 1), kinds)
<1> DEFINE p == SubSeq(us, 1, n)
           o == us[n + 1]
<1>1. p \in Seq(Op) /\ o \in Op /\ SubSeq(us, 1, n + 1) = Append(p, o)
  <2>1. 1 \in 1 .. Len(us) + 1 /\ n \in 1 - 1 .. Len(us) - 1
    OBVIOUS
  <2> QED BY <2>1, PrefixGrows
<1>2. Lines(os \o p, kinds) = Lines(os, kinds) \o Lines(p, kinds)
  OBVIOUS
<1> HIDE DEF p, o
<1>3. Lines(os \o Append(p, o), kinds) = Lines(os, kinds) \o Lines(Append(p, o), kinds)
  BY <1>1, <1>2, LinesConcatStep
<1> QED BY <1>1, <1>3

LEMMA LinesConcat ==
    ASSUME NEW os \in Seq(Op), NEW us \in Seq(Op), NEW kinds
    PROVE  Lines(os \o us, kinds) = Lines(os, kinds) \o Lines(us, kinds)
<1> DEFINE m == Len(us)
           S == {n \in 0 .. m : Lines(os \o SubSeq(us, 1, n), kinds) =
                                    Lines(os, kinds) \o Lines(SubSeq(us, 1, n), kinds)}
<1>1. m \in Nat /\ SubSeq(us, 1, 0) = <<>> /\ SubSeq(us, 1, m) = us
  BY SubSeqFull, SubSeqEmpty
<1>2. 0 .. m \subseteq S
  <2>1. 0 \in S
    <3>1. os \o <<>> = os
      BY ConcatEmptySeq
    <3>2. Lines(os, kinds) \in Seq(Line)
      BY LinesType
    <3>3. Lines(os, kinds) \o <<>> = Lines(os, kinds)
      BY <3>2, ConcatEmptySeq
    <3>4. Lines(<<>>, kinds) = <<>>
      BY LinesEmpty
    <3>5. 0 \in 0 .. m
      BY <1>1
    <3> QED BY <1>1, <3>1, <3>3, <3>4, <3>5
  <2>2. ASSUME NEW n \in 0 .. m - 1, n \in S PROVE n + 1 \in S
    <3>1. n + 1 \in 0 .. m
      OBVIOUS
    <3> QED BY <2>2, <3>1, LinesConcatNext
  <2> HIDE DEF S, m
  <2> QED BY <1>1, <2>1, <2>2, Induction
<1>3. m \in S
  <2>1. m \in 0 .. m
    BY <1>1
  <2> HIDE DEF S, m
  <2> QED BY <1>2, <2>1
<1> QED BY <1>1, <1>3
-----------------------------------------------------------------------------
(* diffLines.                                                              *)

WalkInv ==
    /\ a \in Seq(Line) /\ b \in Seq(Line) /\ ops \in Seq(Op)
    /\ i \in 0 .. Len(a) /\ j \in 0 .. Len(b)
    /\ at \in {"walk", "hunks", "done"}
    /\ at = "walk" => k = 0 /\ cur = <<>> /\ origLine = 1 /\ result = <<>>
    /\ at # "walk" => i = Len(a) /\ j = Len(b)
    /\ Rebuilds

LEMMA WalkInit == Init => WalkInv
<1> SUFFICES ASSUME Init PROVE WalkInv
  OBVIOUS
<1>1. a \in Seq(Line) /\ b \in Seq(Line) /\ ops \in Seq(Op)
  BY DiffAssumption DEF Init
<1>2. SubSeq(a, 1, 0) = <<>> /\ SubSeq(b, 1, 0) = <<>>
  BY <1>1, SubSeqEmpty
<1>3. Rebuilds
  BY <1>2, LinesEmpty DEF Init, Rebuilds, OldLines, NewLines
<1> QED BY <1>1, <1>3 DEF Init, WalkInv

\* One more operation: a side that it tells a line of has passed one more line, and
\* the other stays where it is.
LEMMA SideGrows ==
    ASSUME NEW os \in Seq(Op), NEW o \in Op, NEW kinds, o.kind \in kinds,
           NEW s \in Seq(Line), NEW n \in 0 .. Len(s) - 1,
           Lines(os, kinds) = SubSeq(s, 1, n), o.text = s[n + 1]
    PROVE  Lines(Append(os, o), kinds) = SubSeq(s, 1, n + 1)
<1>1. Lines(Append(os, o), kinds) = Append(Lines(os, kinds), o.text)
  BY LinesAppend
<1>2. 1 \in 1 .. Len(s) + 1 /\ n \in 1 - 1 .. Len(s) - 1
  OBVIOUS
<1>3. SubSeq(s, 1, n + 1) = Append(SubSeq(s, 1, n), s[n + 1])
  BY <1>2, PrefixGrows
<1> QED BY <1>1, <1>3

LEMMA SideStays ==
    ASSUME NEW os \in Seq(Op), NEW o \in Op, NEW kinds, o.kind \notin kinds
    PROVE  Lines(Append(os, o), kinds) = Lines(os, kinds)
BY LinesAppend

LEMMA WalkNext == WalkInv /\ [Next]_vars => WalkInv'
<1> SUFFICES ASSUME WalkInv, [Next]_vars PROVE WalkInv'
  OBVIOUS
<1> USE DEF WalkInv
<1> DEFINE o(kind, text) == [kind |-> kind, text |-> text]
<1>1. CASE Equal
  <2>1. /\ i < Len(a) /\ j < Len(b) /\ a[i + 1] = b[j + 1] /\ a[i + 1] \in Line
        /\ o("equal", a[i + 1]) \in Op /\ ops' = Append(ops, o("equal", a[i + 1]))
        /\ i' = i + 1 /\ j' = j + 1 /\ UNCHANGED <<a, b, cutting, at>> /\ at = "walk"
    BY <1>1 DEF Equal, SameLine, BothLeft, Emit, Op
  <2>2. ops' \in Seq(Op)
    BY <2>1, AppendProperties
  <2>3. i \in 0 .. Len(a) - 1 /\ j \in 0 .. Len(b) - 1 /\ b[j + 1] = a[i + 1]
    BY <2>1
  <2>4. Rebuilds'
    <3> DEFINE x == o("equal", a[i + 1])
    <3>1. /\ x \in Op /\ x.text = a[i + 1]
          /\ x.kind \in Old
          /\ x.kind \in New
      BY <2>1 DEF Old, New
    <3>2. Lines(ops, Old) = SubSeq(a, 1, i) /\ Lines(ops, New) = SubSeq(b, 1, j)
      BY DEF Rebuilds, OldLines, NewLines
    <3>3. ops' = Append(ops, x)
      BY <2>1
    <3> HIDE DEF x
    <3>4. Lines(Append(ops, x), Old) = SubSeq(a, 1, i + 1)
      BY <2>3, <3>1, <3>2, SideGrows
    <3>5. Lines(Append(ops, x), New) = SubSeq(b, 1, j + 1)
      <4>1. x.text = b[j + 1]
        BY <2>3, <3>1
      <4> QED BY <4>1, <2>3, <3>1, <3>2, SideGrows
    <3> QED BY <2>1, <3>3, <3>4, <3>5 DEF Rebuilds, OldLines, NewLines
  <2> QED BY <2>1, <2>2, <2>4 DEF cutting
<1>2. CASE Del
  <2>1. /\ i < Len(a) /\ a[i + 1] \in Line
        /\ o("del", a[i + 1]) \in Op /\ ops' = Append(ops, o("del", a[i + 1]))
        /\ i' = i + 1 /\ UNCHANGED <<a, b, j, cutting, at>> /\ at = "walk"
    BY <1>2 DEF Del, Emit, Op
  <2>2. ops' \in Seq(Op)
    BY <2>1, AppendProperties
  <2>3. i \in 0 .. Len(a) - 1
    BY <2>1
  <2>4. Rebuilds'
    <3> DEFINE x == o("del", a[i + 1])
    <3>1. /\ x \in Op /\ x.text = a[i + 1]
          /\ x.kind \in Old
          /\ x.kind \notin New
      BY <2>1 DEF Old, New
    <3>2. Lines(ops, Old) = SubSeq(a, 1, i) /\ Lines(ops, New) = SubSeq(b, 1, j)
      BY DEF Rebuilds, OldLines, NewLines
    <3>3. ops' = Append(ops, x)
      BY <2>1
    <3> HIDE DEF x
    <3>4. Lines(Append(ops, x), Old) = SubSeq(a, 1, i + 1)
      BY <2>3, <3>1, <3>2, SideGrows
    <3>5. Lines(Append(ops, x), New) = SubSeq(b, 1, j)
      BY <3>1, <3>2, SideStays
    <3> QED BY <2>1, <3>3, <3>4, <3>5 DEF Rebuilds, OldLines, NewLines
  <2> QED BY <2>1, <2>2, <2>4 DEF cutting
<1>3. CASE Add
  <2>1. /\ j < Len(b) /\ b[j + 1] \in Line
        /\ o("add", b[j + 1]) \in Op /\ ops' = Append(ops, o("add", b[j + 1]))
        /\ j' = j + 1 /\ UNCHANGED <<a, b, i, cutting, at>> /\ at = "walk"
    BY <1>3 DEF Add, Emit, Op
  <2>2. ops' \in Seq(Op)
    BY <2>1, AppendProperties
  <2>3. j \in 0 .. Len(b) - 1
    BY <2>1
  <2>4. Rebuilds'
    <3> DEFINE x == o("add", b[j + 1])
    <3>1. /\ x \in Op /\ x.text = b[j + 1]
          /\ x.kind \notin Old
          /\ x.kind \in New
      BY <2>1 DEF Old, New
    <3>2. Lines(ops, Old) = SubSeq(a, 1, i) /\ Lines(ops, New) = SubSeq(b, 1, j)
      BY DEF Rebuilds, OldLines, NewLines
    <3>3. ops' = Append(ops, x)
      BY <2>1
    <3> HIDE DEF x
    <3>4. Lines(Append(ops, x), Old) = SubSeq(a, 1, i)
      BY <3>1, <3>2, SideStays
    <3>5. Lines(Append(ops, x), New) = SubSeq(b, 1, j + 1)
      BY <2>3, <3>1, <3>2, SideGrows
    <3> QED BY <2>1, <3>3, <3>4, <3>5 DEF Rebuilds, OldLines, NewLines
  <2> QED BY <2>1, <2>2, <2>4 DEF cutting
<1>4. CASE WalkEnds
  BY <1>4 DEF WalkEnds, walk, cutting, Rebuilds
<1>5. CASE KeepOp
  BY <1>5 DEF KeepOp, walk, Rebuilds
<1>6. CASE DropOp
  BY <1>6 DEF DropOp, walk, Rebuilds
<1>7. CASE HunksEnd
  BY <1>7 DEF HunksEnd, walk, Rebuilds
<1>8. CASE UNCHANGED vars
  BY <1>8 DEF vars, Rebuilds
<1> QED BY <1>1, <1>2, <1>3, <1>4, <1>5, <1>6, <1>7, <1>8 DEF Next, Done

LEMMA Walked == Spec => []WalkInv
<1>1. Init => WalkInv
  BY WalkInit
<1>2. WalkInv /\ [Next]_vars => WalkInv'
  BY WalkNext
<1> QED BY <1>1, <1>2, PTL DEF Spec

\* diffLines: at every step the operations tell what was passed of both files, and in
\* the end both files, whatever the table of common subsequences holds.
THEOREM OpsTellBothFiles == Spec => []Rebuilds
<1>1. WalkInv => Rebuilds
  BY DEF WalkInv
<1> QED BY <1>1, Walked, PTL
-----------------------------------------------------------------------------
(* The table: there is one, with natural numbers, and one line more of     *)
(* either file makes at most one more in common.                           *)

Cell(s, t, l, p, q) ==
    IF p = Len(s) \/ q = Len(t) THEN 0
    ELSE IF s[p + 1] = t[q + 1] THEN l[<<p + 1, q + 1>>] + 1
    ELSE Larger(l[<<p + 1, q>>], l[<<p, q + 1>>])

Cells(s, t) == (0 .. Len(s)) \X (0 .. Len(t))

IsRow(x, t, below, row) ==
    /\ row[Len(t)] = 0
    /\ \A q \in 0 .. Len(t) - 1 :
           row[q] = IF x = t[q + 1] THEN below[q + 1] + 1 ELSE Larger(below[q], row[q + 1])

LEMMA LargerType ==
    ASSUME NEW x \in Nat, NEW y \in Nat
    PROVE  Larger(x, y) \in Nat /\ Larger(x, y) >= x /\ Larger(x, y) >= y
           /\ (Larger(x, y) = x \/ Larger(x, y) = y)
BY DEF Larger

LEMMA RowExists ==
    ASSUME NEW t, Len(t) \in Nat, NEW x, NEW below \in [0 .. Len(t) -> Nat]
    PROVE  \E row \in [0 .. Len(t) -> Nat] : IsRow(x, t, below, row)
<1> DEFINE n == Len(t)
           step == [e \in 1 .. n |-> [y \in Nat |->
                       IF x = t[(n - e) + 1] THEN below[(n - e) + 1] + 1
                       ELSE Larger(below[n - e], y)]]
<1>1. ASSUME NEW e \in 1 .. n, NEW y \in Nat
      PROVE  /\ step[e][y] = IF x = t[(n - e) + 1] THEN below[(n - e) + 1] + 1
                             ELSE Larger(below[n - e], y)
             /\ step[e][y] \in Nat
  <2>1. below[(n - e) + 1] \in Nat /\ below[n - e] \in Nat
    OBVIOUS
  <2>2. Larger(below[n - e], y) \in Nat
    BY <2>1, LargerType
  <2> QED BY <2>1, <2>2
<1>2. step \in [1 .. n -> [Nat -> Nat]]
  <2>1. ASSUME NEW e \in 1 .. n PROVE step[e] \in [Nat -> Nat]
    <3>1. step[e] = [y \in Nat |-> step[e][y]]
      OBVIOUS
    <3> HIDE DEF step, n
    <3> QED BY <3>1, <1>1
  <2> QED BY <2>1
<1>3. PICK f : Follows(f, Nat, n, 0, step)
  <2> HIDE DEF step
  <2> QED BY <1>2, Recursion
<1>4. f \in [0 .. n -> Nat] /\ f[0] = 0 /\ \A e \in 1 .. n : f[e] = step[e][f[e - 1]]
  BY <1>3 DEF Follows
<1> DEFINE row == [q \in 0 .. n |-> f[n - q]]
<1>5. row \in [0 .. n -> Nat] /\ row[n] = 0
  BY <1>4
<1>6. ASSUME NEW q \in 0 .. n - 1
      PROVE  row[q] = IF x = t[q + 1] THEN below[q + 1] + 1 ELSE Larger(below[q], row[q + 1])
  <2>1. /\ n - q \in 1 .. n /\ n - (n - q) = q /\ (n - q) - 1 = n - (q + 1)
        /\ q \in 0 .. n /\ q + 1 \in 0 .. n
    OBVIOUS
  <2>2. row[q] = f[n - q] /\ row[q + 1] = f[(n - q) - 1] /\ row[q + 1] \in Nat
    BY <2>1, <1>5
  <2>3. f[n - q] = step[n - q][f[(n - q) - 1]]
    BY <2>1, <1>4
  <2> HIDE DEF step, row, n
  <2> QED BY <1>1, <2>1, <2>2, <2>3
<1> QED BY <1>5, <1>6 DEF IsRow

LEMMA TableExists ==
    ASSUME NEW s, NEW t, Len(s) \in Nat, Len(t) \in Nat
    PROVE  \E l : l = [c \in Cells(s, t) |-> Cell(s, t, l, c[1], c[2])]
<1> DEFINE m == Len(s)
           n == Len(t)
           X == [0 .. n -> Nat]
           none == [q \in 0 .. n |-> 0]
           Chosen(x, below) == CHOOSE row \in X : IsRow(x, t, below, row)
           step == [e \in 1 .. m |-> [below \in X |-> Chosen(s[(m - e) + 1], below)]]
<1>1. ASSUME NEW x, NEW below \in X
      PROVE  Chosen(x, below) \in X /\ IsRow(x, t, below, Chosen(x, below))
  BY RowExists
<1>2. ASSUME NEW e \in 1 .. m, NEW below \in X
      PROVE  step[e][below] = Chosen(s[(m - e) + 1], below)
  OBVIOUS
<1>3. step \in [1 .. m -> [X -> X]]
  <2>1. ASSUME NEW e \in 1 .. m PROVE step[e] \in [X -> X]
    <3>1. step[e] = [below \in X |-> Chosen(s[(m - e) + 1], below)]
      OBVIOUS
    <3> HIDE DEF step, X, Chosen
    <3> QED BY <3>1, <1>1
  <2> HIDE DEF X, Chosen
  <2> QED BY <2>1
<1>4. none \in X
  OBVIOUS
<1>5. PICK f : Follows(f, X, m, none, step)
  <2> HIDE DEF step, X, none
  <2> QED BY <1>3, <1>4, Recursion
<1>6. f \in [0 .. m -> X] /\ f[0] = none /\ \A e \in 1 .. m : f[e] = step[e][f[e - 1]]
  BY <1>5 DEF Follows
<1>7. ASSUME NEW p \in 0 .. m - 1
      PROVE  IsRow(s[p + 1], t, f[m - (p + 1)], f[m - p])
  <2>1. m - p \in 1 .. m /\ (m - (m - p)) + 1 = p + 1 /\ (m - p) - 1 = m - (p + 1)
        /\ m - (p + 1) \in 0 .. m
    OBVIOUS
  <2>2. f[m - p] = step[m - p][f[m - (p + 1)]] /\ f[m - (p + 1)] \in X
    <3> HIDE DEF step, X, none, m
    <3> QED BY <2>1, <1>6
  <2> HIDE DEF step, X, Chosen, m
  <2> QED BY <2>1, <2>2, <1>1, <1>2
<1> DEFINE l == [c \in Cells(s, t) |-> f[m - c[1]][c[2]]]
<1>8. ASSUME NEW p \in 0 .. m, NEW q \in 0 .. n PROVE l[<<p, q>>] = f[m - p][q]
  BY DEF Cells
<1>9. ASSUME NEW p \in 0 .. m, NEW q \in 0 .. n
      PROVE  l[<<p, q>>] = Cell(s, t, l, p, q)
  <2>1. CASE p = m
    <3>1. f[m - p] = none /\ none[q] = 0
      BY <2>1, <1>6
    <3>2. l[<<p, q>>] = 0
      <4> HIDE DEF l, none, step, X, m
      <4> QED BY <3>1, <1>8
    <3> QED BY <2>1, <3>2 DEF Cell
  <2>2. CASE p # m /\ q = n
    <3>1. p \in 0 .. m - 1
      BY <2>2
    <3>2. f[m - p][n] = 0
      BY <3>1, <1>7 DEF IsRow
    <3> QED BY <2>2, <3>2, <1>8 DEF Cell
  <2>3. CASE p # m /\ q # n
    <3>1. p \in 0 .. m - 1 /\ q \in 0 .. n - 1 /\ p + 1 \in 0 .. m /\ q + 1 \in 0 .. n
      BY <2>3
    <3>2. f[m - p][q] = IF s[p + 1] = t[q + 1] THEN f[m - (p + 1)][q + 1] + 1
                        ELSE Larger(f[m - (p + 1)][q], f[m - p][q + 1])
      BY <3>1, <1>7 DEF IsRow
    <3>3. /\ l[<<p + 1, q + 1>>] = f[m - (p + 1)][q + 1]
          /\ l[<<p + 1, q>>] = f[m - (p + 1)][q]
          /\ l[<<p, q + 1>>] = f[m - p][q + 1]
          /\ l[<<p, q>>] = f[m - p][q]
      <4> HIDE DEF l, m, n
      <4> QED BY <3>1, <1>8
    <3> HIDE DEF l
    <3> QED BY <2>3, <3>2, <3>3 DEF Cell
  <2> QED BY <2>1, <2>2, <2>3
<1>10. l = [c \in Cells(s, t) |-> l[c]]
  OBVIOUS
<1>11. \A c \in Cells(s, t) : l[c] = Cell(s, t, l, c[1], c[2])
  <2>1. ASSUME NEW c \in Cells(s, t) PROVE c[1] \in 0 .. m /\ c[2] \in 0 .. n /\ c = <<c[1], c[2]>>
    BY DEF Cells
  <2> HIDE DEF l, m, n
  <2> QED BY <2>1, <1>9
<1> HIDE DEF l
<1> QED BY <1>10, <1>11

LEMMA Table ==
    ASSUME NEW s, NEW t, Len(s) \in Nat, Len(t) \in Nat,
           NEW p \in 0 .. Len(s), NEW q \in 0 .. Len(t)
    PROVE  LCS(s, t)[<<p, q>>] = Cell(s, t, LCS(s, t), p, q)
<1> DEFINE Is(l) == l = [c \in Cells(s, t) |-> Cell(s, t, l, c[1], c[2])]
           g == CHOOSE l : Is(l)
<1>1. Is(g)
  BY TableExists
<1>2. LCS(s, t) = g
  BY DEF LCS, Cells, Cell
<1>3. <<p, q>> \in Cells(s, t)
  BY DEF Cells
<1> HIDE DEF g
<1> QED BY <1>1, <1>2, <1>3

LEMMA TableEdge ==
    ASSUME NEW s, NEW t, Len(s) \in Nat, Len(t) \in Nat,
           NEW p \in 0 .. Len(s), NEW q \in 0 .. Len(t), p = Len(s) \/ q = Len(t)
    PROVE  LCS(s, t)[<<p, q>>] = 0
<1>1. LCS(s, t)[<<p, q>>] = Cell(s, t, LCS(s, t), p, q)
  BY Table
<1> QED BY <1>1 DEF Cell

LEMMA TableSame ==
    ASSUME NEW s, NEW t, Len(s) \in Nat, Len(t) \in Nat,
           NEW p \in 0 .. Len(s) - 1, NEW q \in 0 .. Len(t) - 1, s[p + 1] = t[q + 1]
    PROVE  LCS(s, t)[<<p, q>>] = LCS(s, t)[<<p + 1, q + 1>>] + 1
<1>1. LCS(s, t)[<<p, q>>] = Cell(s, t, LCS(s, t), p, q)
  BY Table
<1> QED BY <1>1 DEF Cell

LEMMA TableOther ==
    ASSUME NEW s, NEW t, Len(s) \in Nat, Len(t) \in Nat,
           NEW p \in 0 .. Len(s) - 1, NEW q \in 0 .. Len(t) - 1, s[p + 1] # t[q + 1]
    PROVE  LCS(s, t)[<<p, q>>] = Larger(LCS(s, t)[<<p + 1, q>>], LCS(s, t)[<<p, q + 1>>])
<1>1. LCS(s, t)[<<p, q>>] = Cell(s, t, LCS(s, t), p, q)
  BY Table
<1> QED BY <1>1 DEF Cell

(* What is known of the cells that have no more than d lines after them.   *)
Gentle(s, t, d) ==
    \A p \in 0 .. Len(s), q \in 0 .. Len(t) :
        (Len(s) - p) + (Len(t) - q) <= d =>
            LET l == LCS(s, t)
            IN  /\ l[<<p, q>>] \in Nat
                /\ p < Len(s) => /\ l[<<p + 1, q>>] <= l[<<p, q>>]
                                 /\ l[<<p, q>>] <= l[<<p + 1, q>>] + 1
                /\ q < Len(t) => /\ l[<<p, q + 1>>] <= l[<<p, q>>]
                                 /\ l[<<p, q>>] <= l[<<p, q + 1>>] + 1

LEMMA GentleNext ==
    ASSUME NEW s, NEW t, Len(s) \in Nat, Len(t) \in Nat, NEW d \in Nat, Gentle(s, t, d)
    PROVE  Gentle(s, t, d + 1)
<1> DEFINE m == Len(s)
           n == Len(t)
           l == LCS(s, t)
           Fine(p, q) == /\ l[<<p, q>>] \in Nat
                         /\ p < m => /\ l[<<p + 1, q>>] <= l[<<p, q>>]
                                     /\ l[<<p, q>>] <= l[<<p + 1, q>>] + 1
                         /\ q < n => /\ l[<<p, q + 1>>] <= l[<<p, q>>]
                                     /\ l[<<p, q>>] <= l[<<p, q + 1>>] + 1
<1>1. \A p \in 0 .. m, q \in 0 .. n : (m - p) + (n - q) <= d => Fine(p, q)
  BY DEF Gentle
<1>2. ASSUME NEW p \in 0 .. m, NEW q \in 0 .. n, (m - p) + (n - q) <= d + 1
      PROVE  Fine(p, q)
  <2>1. /\ p = m \/ q = n => l[<<p, q>>] = 0
        /\ p < m /\ q < n => \/ l[<<p, q>>] = l[<<p + 1, q + 1>>] + 1
                             \/ l[<<p, q>>] = Larger(l[<<p + 1, q>>], l[<<p, q + 1>>])
    <3>1. CASE p = m \/ q = n
      BY <3>1, TableEdge
    <3>2. CASE p \in 0 .. m - 1 /\ q \in 0 .. n - 1 /\ s[p + 1] = t[q + 1]
      BY <3>2, TableSame
    <3>3. CASE p \in 0 .. m - 1 /\ q \in 0 .. n - 1 /\ s[p + 1] # t[q + 1]
      BY <3>3, TableOther
    <3> HIDE DEF l
    <3> QED BY <3>1, <3>2, <3>3
  <2>2. p < m => p + 1 \in 0 .. m /\ Fine(p + 1, q)
    <3> HIDE DEF l, m, n, Fine
    <3> SUFFICES ASSUME p < m PROVE p + 1 \in 0 .. m /\ Fine(p + 1, q)
      OBVIOUS
    <3>1. p + 1 \in 0 .. m /\ (m - (p + 1)) + (n - q) <= d
      BY <1>2 DEF m, n
    <3> QED BY <3>1, <1>1
  <2>3. q < n => q + 1 \in 0 .. n /\ Fine(p, q + 1)
    <3> HIDE DEF l, m, n, Fine
    <3> SUFFICES ASSUME q < n PROVE q + 1 \in 0 .. n /\ Fine(p, q + 1)
      OBVIOUS
    <3>1. q + 1 \in 0 .. n /\ (m - p) + (n - (q + 1)) <= d
      BY <1>2 DEF m, n
    <3> QED BY <3>1, <1>1
  <2>4. /\ p < m => (q = n => l[<<p + 1, q>>] = 0)
        /\ q < n => (p = m => l[<<p, q + 1>>] = 0)
    <3>1. ASSUME NEW x \in 0 .. m, NEW y \in 0 .. n, x = m \/ y = n PROVE l[<<x, y>>] = 0
      BY <3>1, TableEdge
    <3> HIDE DEF l, m, n
    <3> QED BY <2>2, <2>3, <3>1
  <2>5. p < m /\ q < n => l[<<p + 1, q + 1>>] \in Nat
    <3>1. p < m /\ q < n => (m - (p + 1)) + (n - (q + 1)) <= d /\ p + 1 \in 0 .. m /\ q + 1 \in 0 .. n
      BY <1>2
    <3> HIDE DEF l, m, n
    <3> QED BY <3>1, <1>1
  <2> HIDE DEF l
  <2>6. CASE p = m \/ q = n
    BY <2>1, <2>4, <2>6
  <2>7. CASE p < m /\ q < n
    <3> DEFINE x == l[<<p + 1, q>>]
               y == l[<<p, q + 1>>]
               z == l[<<p + 1, q + 1>>]
    <3>1. /\ x \in Nat /\ z <= x /\ x <= z + 1
          /\ y \in Nat /\ z <= y /\ y <= z + 1 /\ z \in Nat
      BY <2>2, <2>3, <2>5, <2>7
    <3>2. /\ Larger(x, y) \in Nat /\ Larger(x, y) >= x /\ Larger(x, y) >= y
          /\ (Larger(x, y) = x \/ Larger(x, y) = y)
      <4> HIDE DEF x, y, z
      <4> QED BY <3>1, LargerType
    <3>3. l[<<p, q>>] = z + 1 \/ l[<<p, q>>] = Larger(x, y)
      BY <2>1, <2>7
    <3> HIDE DEF x, y, z
    <3>4. /\ l[<<p, q>>] \in Nat /\ x <= l[<<p, q>>] /\ l[<<p, q>>] <= x + 1
          /\ y <= l[<<p, q>>] /\ l[<<p, q>>] <= y + 1
      BY <3>1, <3>2, <3>3
    <3> QED BY <3>4 DEF x, y
  <2> QED BY <2>6, <2>7
<1> QED BY <1>2 DEF Gentle

LEMMA GentleTable ==
    ASSUME NEW s, NEW t, Len(s) \in Nat, Len(t) \in Nat,
           NEW p \in 0 .. Len(s), NEW q \in 0 .. Len(t)
    PROVE  /\ LCS(s, t)[<<p, q>>] \in Nat
           /\ p < Len(s) => /\ LCS(s, t)[<<p + 1, q>>] \in Nat
                            /\ LCS(s, t)[<<p + 1, q>>] <= LCS(s, t)[<<p, q>>]
                            /\ LCS(s, t)[<<p, q>>] <= LCS(s, t)[<<p + 1, q>>] + 1
           /\ q < Len(t) => /\ LCS(s, t)[<<p, q + 1>>] \in Nat
                            /\ LCS(s, t)[<<p, q + 1>>] <= LCS(s, t)[<<p, q>>]
                            /\ LCS(s, t)[<<p, q>>] <= LCS(s, t)[<<p, q + 1>>] + 1
<1> DEFINE d == Len(s) + Len(t)
           S == {e \in 0 .. d : Gentle(s, t, e)}
<1>1. 0 \in S
  <2>1. ASSUME NEW p0 \in 0 .. Len(s), NEW q0 \in 0 .. Len(t),
               (Len(s) - p0) + (Len(t) - q0) <= 0
        PROVE  p0 = Len(s) /\ q0 = Len(t) /\ LCS(s, t)[<<p0, q0>>] = 0
    <3>1. p0 = Len(s) /\ q0 = Len(t)
      BY <2>1
    <3> QED BY <3>1, TableEdge
  <2>2. ASSUME NEW p0 \in 0 .. Len(s), NEW q0 \in 0 .. Len(t),
               (Len(s) - p0) + (Len(t) - q0) <= 0
        PROVE  LET l == LCS(s, t)
               IN  /\ l[<<p0, q0>>] \in Nat
                   /\ p0 < Len(s) => /\ l[<<p0 + 1, q0>>] <= l[<<p0, q0>>]
                                     /\ l[<<p0, q0>>] <= l[<<p0 + 1, q0>>] + 1
                   /\ q0 < Len(t) => /\ l[<<p0, q0 + 1>>] <= l[<<p0, q0>>]
                                     /\ l[<<p0, q0>>] <= l[<<p0, q0 + 1>>] + 1
    <3>1. p0 = Len(s) /\ q0 = Len(t) /\ LCS(s, t)[<<p0, q0>>] = 0
      BY <2>1, <2>2
    <3> QED BY <3>1
  <2>3. Gentle(s, t, 0)
    BY <2>2 DEF Gentle
  <2> QED BY <2>3
<1>2. ASSUME NEW e \in 0 .. d - 1, e \in S PROVE e + 1 \in S
  <2>1. e \in Nat /\ e + 1 \in 0 .. d /\ Gentle(s, t, e)
    BY <1>2
  <2> QED BY <2>1, GentleNext
<1>3. 0 .. d \subseteq S
  <2>1. d \in Nat
    OBVIOUS
  <2> HIDE DEF S, d
  <2> QED BY <1>1, <1>2, <2>1, Induction
<1>4. Gentle(s, t, d)
  <2>1. d \in 0 .. d
    OBVIOUS
  <2> QED BY <1>3, <2>1
<1>5. (Len(s) - p) + (Len(t) - q) <= d
  OBVIOUS
<1>6. p < Len(s) => (Len(s) - (p + 1)) + (Len(t) - q) <= d /\ p + 1 \in 0 .. Len(s)
  OBVIOUS
<1>7. q < Len(t) => (Len(s) - p) + (Len(t) - (q + 1)) <= d /\ q + 1 \in 0 .. Len(t)
  OBVIOUS
<1> HIDE DEF d
<1> QED BY <1>4, <1>5, <1>6, <1>7 DEF Gentle

LEMMA TableType ==
    ASSUME NEW s, NEW t, Len(s) \in Nat, Len(t) \in Nat,
           NEW p \in 0 .. Len(s), NEW q \in 0 .. Len(t)
    PROVE  LCS(s, t)[<<p, q>>] \in Nat
BY GentleTable

LEMMA TableFalls ==
    ASSUME NEW s, NEW t, Len(s) \in Nat, Len(t) \in Nat
    PROVE  /\ \A p \in 0 .. Len(s) - 1, q \in 0 .. Len(t) :
                  LCS(s, t)[<<p + 1, q>>] <= LCS(s, t)[<<p, q>>]
           /\ \A p \in 0 .. Len(s), q \in 0 .. Len(t) - 1 :
                  LCS(s, t)[<<p, q + 1>>] <= LCS(s, t)[<<p, q>>]
<1>1. ASSUME NEW p \in 0 .. Len(s) - 1, NEW q \in 0 .. Len(t)
      PROVE  LCS(s, t)[<<p + 1, q>>] <= LCS(s, t)[<<p, q>>]
  <2>1. p \in 0 .. Len(s) /\ p < Len(s)
    OBVIOUS
  <2> QED BY <2>1, GentleTable
<1>2. ASSUME NEW p \in 0 .. Len(s), NEW q \in 0 .. Len(t) - 1
      PROVE  LCS(s, t)[<<p, q + 1>>] <= LCS(s, t)[<<p, q>>]
  <2>1. q \in 0 .. Len(t) /\ q < Len(t)
    OBVIOUS
  <2> QED BY <2>1, GentleTable
<1> QED BY <1>1, <1>2
-----------------------------------------------------------------------------
(* The subsequences of a file, one line after the other.                   *)

Longer(S, x) == S \cup {Append(t, x) : t \in S}

LEMMA LongerType ==
    ASSUME NEW S \in SUBSET Seq(Line), NEW x \in Line
    PROVE  Longer(S, x) \in SUBSET Seq(Line)
BY DEF Longer

LEMMA SubsequencesScan ==
    ASSUME NEW s \in Seq(Line)
    PROVE  \E f \in [0 .. Len(s) -> SUBSET Seq(Line)] :
               /\ f[0] = {<<>>}
               /\ \A n \in 1 .. Len(s) : f[n] = Longer(f[n - 1], s[n])
               /\ Subsequences(s) = f[Len(s)]
<1> DEFINE X == SUBSET Seq(Line)
           m == Len(s)
           one == {<<>>}
           step == [n \in 1 .. m |-> [x \in X |-> Longer(x, s[n])]]
           Is(f) == f = [n \in 0 .. m |-> IF n = 0 THEN one ELSE Longer(f[n - 1], s[n])]
           g == CHOOSE f : Is(f)
<1>1. m \in Nat /\ one \in X /\ \A n \in 1 .. m : s[n] \in Line
  OBVIOUS
<1>2. ASSUME NEW n \in 1 .. m, NEW x \in X
      PROVE  step[n][x] = Longer(x, s[n]) /\ step[n][x] \in X
  BY <1>1, LongerType
<1>3. step \in [1 .. m -> [X -> X]]
  <2>1. ASSUME NEW n \in 1 .. m PROVE step[n] \in [X -> X]
    <3>1. step[n] = [x \in X |-> Longer(x, s[n])]
      OBVIOUS
    <3>2. \A x \in X : Longer(x, s[n]) \in X
      BY <1>2
    <3> HIDE DEF X, step
    <3> QED BY <3>1, <3>2
  <2> QED BY <2>1
<1>4. PICK f : Follows(f, X, m, one, step)
  <2> HIDE DEF X, m, step, one
  <2> QED BY <1>1, <1>3, Recursion
<1>5. ASSUME NEW n \in 1 .. m PROVE f[n] = Longer(f[n - 1], s[n])
  <2>1. n - 1 \in 0 .. m
    OBVIOUS
  <2>2. f[n] = step[n][f[n - 1]] /\ f[n - 1] \in X
    <3> HIDE DEF X, m, step, one
    <3> QED BY <1>4, <2>1 DEF Follows
  <2> HIDE DEF X, m, step
  <2> QED BY <1>2, <2>2
<1>6. Is(f)
  <2>1. f[0] = one /\ f = [n \in 0 .. m |-> f[n]]
    BY <1>4 DEF Follows
  <2>2. ASSUME NEW n \in 0 .. m
        PROVE  f[n] = IF n = 0 THEN one ELSE Longer(f[n - 1], s[n])
    <3>1. n = 0 \/ n \in 1 .. m
      OBVIOUS
    <3> HIDE DEF m, one
    <3> QED BY <3>1, <2>1, <1>5
  <2> HIDE DEF X, m, step, one
  <2> QED BY <2>1, <2>2
<1>7. Subsequences(s) = g[m]
  BY DEF Subsequences, Longer
<1>8. Is(g)
  BY <1>6
<1> HIDE DEF g
<1>9. ASSUME NEW n \in 1 .. m PROVE g[n] = Longer(g[n - 1], s[n])
  <2>1. n \in 0 .. m /\ n # 0
    OBVIOUS
  <2> HIDE DEF m, X, one
  <2> QED BY <1>8, <2>1
<1>10. g[0] = one /\ g = [n \in 0 .. m |-> g[n]]
  <2> HIDE DEF m, one
  <2> QED BY <1>1, <1>8
<1> DEFINE S == {n \in 0 .. m : g[n] \in X}
<1>11. 0 .. m \subseteq S
  <2>1. 0 \in S
    <3> HIDE DEF X, m, one
    <3> QED BY <1>1, <1>10
  <2>2. ASSUME NEW n \in 0 .. m - 1, n \in S PROVE n + 1 \in S
    <3>1. n + 1 \in 1 .. m /\ n + 1 \in 0 .. m /\ (n + 1) - 1 = n
      OBVIOUS
    <3>2. g[n + 1] = Longer(g[n], s[n + 1])
      BY <1>9, <3>1
    <3>3. g[n] \in X
      BY <2>2
    <3>4. g[n + 1] \in X
      BY <1>1, <3>1, <3>2, <3>3, LongerType
    <3> QED BY <3>1, <3>4
  <2> HIDE DEF S, m, X
  <2> QED BY <1>1, <2>1, <2>2, Induction
<1>12. g \in [0 .. m -> X]
  <2>1. \A n \in 0 .. m : g[n] \in X
    BY <1>11
  <2> HIDE DEF X, m
  <2> QED BY <1>10, <2>1
<1> QED BY <1>7, <1>9, <1>10, <1>12

LEMMA SubsequencesEmpty ==
    ASSUME NEW s \in Seq(Line)
    PROVE  /\ Subsequences(s) \in SUBSET Seq(Line)
           /\ Len(s) = 0 => Subsequences(s) = {<<>>}
<1>1. PICK f \in [0 .. Len(s) -> SUBSET Seq(Line)] :
          f[0] = {<<>>} /\ Subsequences(s) = f[Len(s)]
  BY SubsequencesScan
<1>2. Len(s) \in 0 .. Len(s)
  OBVIOUS
<1> QED BY <1>1, <1>2

LEMMA SubsequencesAppend ==
    ASSUME NEW s \in Seq(Line), NEW x \in Line
    PROVE  Subsequences(Append(s, x)) = Longer(Subsequences(s), x)
<1> DEFINE m == Len(s)
           u == Append(s, x)
<1>1. /\ m \in Nat /\ u \in Seq(Line) /\ Len(u) = m + 1
      /\ u[m + 1] = x /\ \A n \in 1 .. m : u[n] = s[n]
  BY AppendProperties
<1> HIDE DEF u
<1>2. PICK f \in [0 .. m -> SUBSET Seq(Line)] :
               /\ f[0] = {<<>>}
               /\ \A n \in 1 .. m : f[n] = Longer(f[n - 1], s[n])
               /\ Subsequences(s) = f[m]
  BY SubsequencesScan
<1>3. PICK g \in [0 .. Len(u) -> SUBSET Seq(Line)] :
               /\ g[0] = {<<>>}
               /\ \A n \in 1 .. Len(u) : g[n] = Longer(g[n - 1], u[n])
               /\ Subsequences(u) = g[Len(u)]
  BY <1>1, SubsequencesScan
<1> DEFINE S == {n \in 0 .. m : g[n] = f[n]}
<1>4. 0 .. m \subseteq S
  <2>1. 0 \in S
    BY <1>1, <1>2, <1>3
  <2>2. ASSUME NEW n \in 0 .. m - 1, n \in S PROVE n + 1 \in S
    <3>1. /\ n + 1 \in 0 .. m /\ n + 1 \in 1 .. m /\ (n + 1) - 1 = n /\ g[n] = f[n]
          /\ n + 1 \in 1 .. Len(u) /\ u[n + 1] = s[n + 1]
      BY <1>1, <2>2
    <3>2. g[n + 1] = Longer(g[n], u[n + 1]) /\ f[n + 1] = Longer(f[n], s[n + 1])
      <4> HIDE DEF m
      <4> QED BY <1>2, <1>3, <3>1
    <3> QED BY <3>1, <3>2
  <2> HIDE DEF S, m
  <2> QED BY <1>1, <2>1, <2>2, Induction
<1>5. m \in S /\ m + 1 \in 1 .. Len(u) /\ (m + 1) - 1 = m
  <2> m \in 0 .. m
    BY <1>1
  <2> HIDE DEF S, m
  <2> QED BY <1>1, <1>4
<1>6. g[m + 1] = Longer(g[m], u[m + 1])
  <2> HIDE DEF m
  <2> QED BY <1>3, <1>5
<1> QED BY <1>1, <1>2, <1>3, <1>5, <1>6 DEF u

(* Of the first p lines of s.                                              *)
Within(s, p) == Subsequences(SubSeq(s, 1, p))

LEMMA WithinNone ==
    ASSUME NEW s \in Seq(Line)
    PROVE  Within(s, 0) = {<<>>} /\ Within(s, Len(s)) = Subsequences(s)
<1>1. SubSeq(s, 1, 0) = <<>> /\ SubSeq(s, 1, Len(s)) = s
  BY SubSeqEmpty, SubSeqFull
<1>2. <<>> \in Seq(Line) /\ Len(<<>>) = 0
  OBVIOUS
<1> QED BY <1>1, <1>2, SubsequencesEmpty DEF Within

LEMMA WithinNext ==
    ASSUME NEW s \in Seq(Line), NEW p \in 0 .. Len(s) - 1
    PROVE  /\ Within(s, p) \in SUBSET Seq(Line) /\ s[p + 1] \in Line
           /\ Within(s, p + 1) = Longer(Within(s, p), s[p + 1])
<1>1. 1 \in 1 .. Len(s) + 1 /\ p \in 1 - 1 .. Len(s) - 1
  OBVIOUS
<1>2. /\ SubSeq(s, 1, p) \in Seq(Line) /\ s[p + 1] \in Line
      /\ SubSeq(s, 1, p + 1) = Append(SubSeq(s, 1, p), s[p + 1])
  BY <1>1, PrefixGrows
<1>3. Within(s, p) \in SUBSET Seq(Line)
  BY <1>2, SubsequencesEmpty DEF Within
<1> QED BY <1>2, <1>3, SubsequencesAppend DEF Within

LEMMA WithinType ==
    ASSUME NEW s \in Seq(Line), NEW p \in 0 .. Len(s)
    PROVE  Within(s, p) \in SUBSET Seq(Line) /\ <<>> \in Within(s, p)
<1> DEFINE S == {n \in 0 .. p : <<>> \in Within(s, n)}
<1>1. 0 \in S
  BY WithinNone
<1>2. ASSUME NEW n \in 0 .. p - 1, n \in S PROVE n + 1 \in S
  <2>1. n \in 0 .. Len(s) - 1 /\ n + 1 \in 0 .. p /\ <<>> \in Within(s, n)
    BY <1>2
  <2>2. Within(s, n + 1) = Longer(Within(s, n), s[n + 1])
    BY <2>1, WithinNext
  <2> QED BY <2>1, <2>2 DEF Longer
<1>3. 0 .. p \subseteq S
  <2> HIDE DEF S
  <2> QED BY <1>1, <1>2, Induction
<1>4. p \in S
  <2> HIDE DEF S
  <2> p \in 0 .. p
    OBVIOUS
  <2> QED BY <1>3
<1>5. \A e \in 1 .. p : s[e] \in Line
  OBVIOUS
<1>6. SubSeq(s, 1, p) \in Seq(Line)
  BY <1>5, SubSeqProperties
<1>7. Within(s, p) \in SUBSET Seq(Line)
  BY <1>6, SubsequencesEmpty DEF Within
<1> QED BY <1>4, <1>7
-----------------------------------------------------------------------------
(* No common subsequence is longer than the first cell of the table says.  *)

Bounded(s, t, d) ==
    \A p \in 0 .. Len(s), q \in 0 .. Len(t) :
        p + q <= d =>
            \A u \in Within(s, p) \cap Within(t, q) :
                Len(u) + LCS(s, t)[<<p, q>>] <= LCS(s, t)[<<0, 0>>]

\* A common subsequence leaves out a last line, or ends with it in both files.
LEMMA LastLine ==
    ASSUME NEW s \in Seq(Line), NEW t \in Seq(Line),
           NEW p \in 0 .. Len(s) - 1, NEW q \in 0 .. Len(t) - 1,
           NEW u \in Within(s, p + 1) \cap Within(t, q + 1),
           u \notin Within(s, p), u \notin Within(t, q)
    PROVE  /\ s[p + 1] = t[q + 1]
           /\ \E v \in Within(s, p) \cap Within(t, q) : Len(u) = Len(v) + 1
<1>1. PICK v \in Within(s, p) : u = Append(v, s[p + 1])
  BY WithinNext DEF Longer
<1>2. PICK w \in Within(t, q) : u = Append(w, t[q + 1])
  BY WithinNext DEF Longer
<1>3. v \in Seq(Line) /\ w \in Seq(Line) /\ s[p + 1] \in Line /\ t[q + 1] \in Line
  BY WithinNext
<1> DEFINE x == s[p + 1]
           y == t[q + 1]
<1>4. v = w /\ x = y
  <2>1. Append(v, x) = Append(w, y) /\ x \in Line /\ y \in Line
    BY <1>1, <1>2, <1>3
  <2> HIDE DEF x, y
  <2> QED BY <2>1, <1>3, AppendInjective
<1>5. Len(u) = Len(v) + 1
  BY <1>1, <1>3, AppendProperties
<1> QED BY <1>4, <1>5

LEMMA BoundedAt ==
    ASSUME NEW s \in Seq(Line), NEW t \in Seq(Line), NEW d \in Nat, Bounded(s, t, d),
           NEW p \in 0 .. Len(s), NEW q \in 0 .. Len(t), p + q <= d,
           NEW u \in Within(s, p) \cap Within(t, q)
    PROVE  Len(u) + LCS(s, t)[<<p, q>>] <= LCS(s, t)[<<0, 0>>]
BY DEF Bounded

LEMMA BoundedNext ==
    ASSUME NEW s \in Seq(Line), NEW t \in Seq(Line), NEW d \in Nat, Bounded(s, t, d)
    PROVE  Bounded(s, t, d + 1)
<1> DEFINE l == LCS(s, t)
<1>1. ASSUME NEW p \in 0 .. Len(s), NEW q \in 0 .. Len(t), p + q <= d + 1,
             NEW u \in Within(s, p) \cap Within(t, q)
      PROVE  Len(u) + l[<<p, q>>] <= l[<<0, 0>>]
  <2>1. Len(s) \in Nat /\ Len(t) \in Nat /\ u \in Seq(Line) /\ Len(u) \in Nat
    <3>1. u \in Seq(Line)
      BY WithinType
    <3> QED BY <3>1, LenProperties
  <2>2. l[<<p, q>>] \in Nat /\ l[<<0, 0>>] \in Nat
    <3>1. 0 \in 0 .. Len(s) /\ 0 \in 0 .. Len(t)
      BY <2>1
    <3> QED BY <2>1, <3>1, TableType
  <2>3. CASE p > 0 /\ u \in Within(s, p - 1)
    <3> DEFINE p1 == p - 1
    <3>1. /\ p1 \in 0 .. Len(s) - 1 /\ p1 \in 0 .. Len(s) /\ p1 + q <= d
          /\ p1 + 1 = p /\ u \in Within(s, p1)
      BY <1>1, <2>1, <2>3
    <3> HIDE DEF p1
    <3>2. Len(u) + l[<<p1, q>>] <= l[<<0, 0>>]
      BY <3>1, BoundedAt
    <3>3. l[<<p1 + 1, q>>] <= l[<<p1, q>>] /\ l[<<p1, q>>] \in Nat
      BY <2>1, <3>1, TableFalls, TableType
    <3>4. l[<<p, q>>] <= l[<<p1, q>>]
      BY <3>1, <3>3
    <3> HIDE DEF l
    <3> QED BY <2>1, <2>2, <3>2, <3>3, <3>4
  <2>4. CASE q > 0 /\ u \in Within(t, q - 1)
    <3> DEFINE q1 == q - 1
    <3>1. /\ q1 \in 0 .. Len(t) - 1 /\ q1 \in 0 .. Len(t) /\ p + q1 <= d
          /\ q1 + 1 = q /\ u \in Within(t, q1)
      BY <1>1, <2>1, <2>4
    <3> HIDE DEF q1
    <3>2. Len(u) + l[<<p, q1>>] <= l[<<0, 0>>]
      BY <3>1, BoundedAt
    <3>3. l[<<p, q1 + 1>>] <= l[<<p, q1>>] /\ l[<<p, q1>>] \in Nat
      BY <2>1, <3>1, TableFalls, TableType
    <3>4. l[<<p, q>>] <= l[<<p, q1>>]
      BY <3>1, <3>3
    <3> HIDE DEF l
    <3> QED BY <2>1, <2>2, <3>2, <3>3, <3>4
  <2>5. CASE p > 0 /\ q > 0 /\ u \notin Within(s, p - 1) /\ u \notin Within(t, q - 1)
    <3>1. /\ p - 1 \in 0 .. Len(s) - 1 /\ q - 1 \in 0 .. Len(t) - 1
          /\ p - 1 \in 0 .. Len(s) /\ q - 1 \in 0 .. Len(t)
          /\ (p - 1) + (q - 1) <= d /\ (p - 1) + 1 = p /\ (q - 1) + 1 = q
      BY <1>1, <2>1, <2>5
    <3> DEFINE p1 == p - 1
               q1 == q - 1
    <3>2. /\ p1 \in 0 .. Len(s) - 1 /\ q1 \in 0 .. Len(t) - 1 /\ p1 + 1 = p /\ q1 + 1 = q
          /\ u \in Within(s, p1 + 1) \cap Within(t, q1 + 1)
          /\ u \notin Within(s, p1) /\ u \notin Within(t, q1)
          /\ p1 \in 0 .. Len(s) /\ q1 \in 0 .. Len(t) /\ p1 + q1 <= d
      BY <1>1, <2>5, <3>1
    <3> HIDE DEF p1, q1
    <3>3. s[p1 + 1] = t[q1 + 1]
          /\ \E v \in Within(s, p1) \cap Within(t, q1) : Len(u) = Len(v) + 1
      BY <3>2, LastLine
    <3>4. PICK v \in Within(s, p1) \cap Within(t, q1) : Len(u) = Len(v) + 1
      BY <3>3
    <3>5. l[<<p1, q1>>] = l[<<p1 + 1, q1 + 1>>] + 1
      BY <2>1, <3>2, <3>3, TableSame
    <3>6. Len(v) + l[<<p1, q1>>] <= l[<<0, 0>>]
      BY <3>2, BoundedAt
    <3>7. v \in Seq(Line) /\ Len(v) \in Nat
      <4>1. v \in Seq(Line)
        BY <3>2, WithinType
      <4> QED BY <4>1, LenProperties
    <3>8. l[<<p1, q1>>] = l[<<p, q>>] + 1
      BY <3>2, <3>5
    <3> HIDE DEF l
    <3> QED BY <2>1, <2>2, <3>4, <3>6, <3>7, <3>8
  <2>6. CASE p = 0 /\ q = 0
    <3>1. u = <<>>
      BY <1>1, <2>6, WithinNone
    <3>2. Len(u) = 0
      BY <3>1
    <3> HIDE DEF l
    <3> QED BY <2>2, <2>6, <3>2
  <2>7. CASE p = 0 /\ q > 0
    <3>1. u = <<>> /\ q - 1 \in 0 .. Len(t)
      BY <1>1, <2>1, <2>7, WithinNone
    <3>2. u \in Within(t, q - 1)
      BY <3>1, WithinType
    <3> QED BY <2>4, <2>7, <3>2
  <2>8. CASE p > 0 /\ q = 0
    <3>1. u = <<>> /\ p - 1 \in 0 .. Len(s)
      BY <1>1, <2>1, <2>8, WithinNone
    <3>2. u \in Within(s, p - 1)
      BY <3>1, WithinType
    <3> QED BY <2>3, <2>8, <3>2
  <2> QED BY <2>3, <2>4, <2>5, <2>6, <2>7, <2>8
<1> QED BY <1>1 DEF Bounded

LEMMA BoundedTable ==
    ASSUME NEW s \in Seq(Line), NEW t \in Seq(Line),
           NEW u \in Subsequences(s) \cap Subsequences(t)
    PROVE  Len(u) <= LCS(s, t)[<<0, 0>>]
<1> DEFINE d == Len(s) + Len(t)
           S == {e \in 0 .. d : Bounded(s, t, e)}
<1>1. Len(s) \in Nat /\ Len(t) \in Nat /\ d \in Nat /\ d \in 0 .. d
  OBVIOUS
<1>2. 0 \in S
  <2>1. ASSUME NEW p \in 0 .. Len(s), NEW q \in 0 .. Len(t), p + q <= 0,
               NEW v \in Within(s, p) \cap Within(t, q)
        PROVE  Len(v) + LCS(s, t)[<<p, q>>] <= LCS(s, t)[<<0, 0>>]
    <3>1. p = 0 /\ q = 0
      BY <2>1
    <3>2. v = <<>> /\ Len(v) = 0
      BY <3>1, <2>1, WithinNone
    <3>3. LCS(s, t)[<<0, 0>>] \in Nat
      <4>1. 0 \in 0 .. Len(s) /\ 0 \in 0 .. Len(t)
        BY <1>1
      <4> QED BY <1>1, <4>1, TableType
    <3> QED BY <3>1, <3>2, <3>3
  <2>2. Bounded(s, t, 0)
    BY <2>1 DEF Bounded
  <2> QED BY <2>2, <1>1
<1>3. ASSUME NEW e \in 0 .. d - 1, e \in S PROVE e + 1 \in S
  <2>1. e \in Nat /\ e + 1 \in 0 .. d /\ Bounded(s, t, e)
    BY <1>3
  <2> QED BY <2>1, BoundedNext
<1>4. 0 .. d \subseteq S
  <2> HIDE DEF S, d
  <2> QED BY <1>1, <1>2, <1>3, Induction
<1>5. Bounded(s, t, d)
  BY <1>1, <1>4
<1> DEFINE m == Len(s)
           n == Len(t)
<1>6. u \in Within(s, m) \cap Within(t, n)
  BY WithinNone
<1>7. LCS(s, t)[<<m, n>>] = 0
  BY <1>1, TableEdge
<1>8. m \in 0 .. Len(s) /\ n \in 0 .. Len(t) /\ m + n <= d
  BY <1>1
<1>9. Len(u) \in Nat
  <2>1. u \in Seq(Line)
    BY SubsequencesEmpty
  <2> QED BY <2>1, LenProperties
<1>10. Len(u) + LCS(s, t)[<<m, n>>] <= LCS(s, t)[<<0, 0>>]
  <2> HIDE DEF m, n, d
  <2> QED BY <1>1, <1>5, <1>6, <1>8, BoundedAt
<1> QED BY <1>7, <1>9, <1>10
-----------------------------------------------------------------------------
(* The walk follows the table: what it kept and what the table promises    *)
(* from here on are together as long as any common subsequence.            *)

ShortInv ==
    /\ Lines(ops, Both) \in Within(a, i) \cap Within(b, j)
    /\ Len(Lines(ops, Both)) + LCS(a, b)[<<i, j>>] = LCS(a, b)[<<0, 0>>]

LEMMA ShortInit == Init => ShortInv
<1> SUFFICES ASSUME Init PROVE ShortInv
  OBVIOUS
<1>1. a \in Seq(Line) /\ b \in Seq(Line) /\ ops = <<>> /\ i = 0 /\ j = 0
  BY DiffAssumption DEF Init
<1>2. Lines(<<>>, Both) = <<>> /\ Len(<<>>) = 0
  BY LinesEmpty
<1>3. Within(a, 0) = {<<>>} /\ Within(b, 0) = {<<>>}
  BY <1>1, WithinNone
<1>4. LCS(a, b)[<<0, 0>>] \in Nat
  <2>1. Len(a) \in Nat /\ Len(b) \in Nat /\ 0 \in 0 .. Len(a) /\ 0 \in 0 .. Len(b)
    BY <1>1
  <2> QED BY <2>1, TableType
<1> QED BY <1>1, <1>2, <1>3, <1>4 DEF ShortInv

LEMMA ShortNext == WalkInv /\ ShortInv /\ [Next]_vars => ShortInv'
<1> SUFFICES ASSUME WalkInv, ShortInv, [Next]_vars PROVE ShortInv'
  OBVIOUS
<1> DEFINE kept == Lines(ops, Both)
           l == LCS(a, b)
           o(kind, text) == [kind |-> kind, text |-> text]
<1>1. /\ a \in Seq(Line) /\ b \in Seq(Line) /\ ops \in Seq(Op)
      /\ i \in 0 .. Len(a) /\ j \in 0 .. Len(b)
      /\ Len(a) \in Nat /\ Len(b) \in Nat
  BY DEF WalkInv
<1>2. /\ kept \in Within(a, i) /\ kept \in Within(b, j)
      /\ Len(kept) + l[<<i, j>>] = l[<<0, 0>>]
  BY DEF ShortInv
<1>3. kept \in Seq(Line) /\ Len(kept) \in Nat
  <2>1. kept \in Seq(Line)
    BY <1>1, LinesType
  <2> QED BY <2>1, LenProperties
<1>4. l[<<i, j>>] \in Nat
  BY <1>1, TableType
<1>5. CASE Equal
  <2>1. /\ i \in 0 .. Len(a) - 1 /\ j \in 0 .. Len(b) - 1 /\ a[i + 1] = b[j + 1]
        /\ ops' = Append(ops, o("equal", a[i + 1]))
        /\ i' = i + 1 /\ j' = j + 1 /\ a' = a /\ b' = b
    BY <1>1, <1>5 DEF Equal, SameLine, BothLeft, Emit
  <2> DEFINE x == o("equal", a[i + 1])
  <2>2. x \in Op /\ x.text = a[i + 1] /\ x.kind \in Both /\ a[i + 1] \in Line
    BY <1>1, <2>1 DEF Op, Both
  <2>3. Lines(ops', Both) = Append(kept, a[i + 1])
    <3> HIDE DEF x
    <3>1. Lines(Append(ops, x), Both) = Append(Lines(ops, Both), x.text)
      BY <1>1, <2>2, LinesAppend
    <3> QED BY <2>1, <2>2, <3>1 DEF x
  <2>4. /\ Within(a, i + 1) = Longer(Within(a, i), a[i + 1])
        /\ Within(b, j + 1) = Longer(Within(b, j), b[j + 1])
    BY <1>1, <2>1, WithinNext
  <2>5. Append(kept, a[i + 1]) \in Within(a, i + 1) \cap Within(b, j + 1)
    BY <1>2, <2>1, <2>4 DEF Longer
  <2>6. Len(Append(kept, a[i + 1])) = Len(kept) + 1
    BY <1>3, <2>2, AppendProperties
  <2>7. l[<<i, j>>] = l[<<i + 1, j + 1>>] + 1
    BY <1>1, <2>1, TableSame
  <2>8. l[<<i + 1, j + 1>>] \in Nat
    <3>1. i + 1 \in 0 .. Len(a) /\ j + 1 \in 0 .. Len(b)
      BY <1>1, <2>1
    <3> QED BY <1>1, <3>1, TableType
  <2>9. Len(Append(kept, a[i + 1])) + l[<<i + 1, j + 1>>] = l[<<0, 0>>]
    <3> DEFINE x0 == l[<<0, 0>>]
               x1 == l[<<i, j>>]
               x2 == l[<<i + 1, j + 1>>]
               n1 == Len(kept)
               n2 == Len(Append(kept, a[i + 1]))
    <3>1. /\ n1 + x1 = x0 /\ n1 \in Nat /\ x1 \in Nat /\ n2 = n1 + 1 /\ x1 = x2 + 1
          /\ x2 \in Nat
      <4> HIDE DEF l, kept
      <4> QED BY <1>2, <1>3, <1>4, <2>6, <2>7, <2>8
    <3>2. n2 + x2 = x0
      <4> HIDE DEF x0, x1, x2, n1, n2
      <4> QED BY <3>1
    <3> QED BY <3>2
  <2> QED BY <2>1, <2>3, <2>5, <2>9 DEF ShortInv
<1>6. CASE Del
  <2>1. /\ i \in 0 .. Len(a) - 1
        /\ ops' = Append(ops, o("del", a[i + 1]))
        /\ i' = i + 1 /\ j' = j /\ a' = a /\ b' = b
        /\ j = Len(b) \/ /\ j \in 0 .. Len(b) - 1 /\ a[i + 1] # b[j + 1]
                         /\ l[<<i + 1, j>>] >= l[<<i, j + 1>>]
    BY <1>1, <1>6 DEF Del, SameLine, DelFirst, BothLeft, Emit
  <2> DEFINE x == o("del", a[i + 1])
  <2>2. x \in Op /\ x.kind \notin Both
    BY <1>1, <2>1 DEF Op, Both
  <2>3. Lines(ops', Both) = kept
    <3> HIDE DEF x
    <3>1. Lines(Append(ops, x), Both) = Lines(ops, Both)
      BY <1>1, <2>2, LinesAppend
    <3> QED BY <2>1, <3>1 DEF x
  <2>4. Within(a, i + 1) = Longer(Within(a, i), a[i + 1])
    BY <1>1, <2>1, WithinNext
  <2>5. kept \in Within(a, i + 1) \cap Within(b, j)
    BY <1>2, <2>4 DEF Longer
  <2>6. i + 1 \in 0 .. Len(a)
    BY <1>1, <2>1
  <2>7. l[<<i + 1, j>>] = l[<<i, j>>]
    <3>1. CASE j = Len(b)
      <4>1. l[<<i + 1, j>>] = 0 /\ l[<<i, j>>] = 0
        BY <1>1, <2>6, <3>1, TableEdge
      <4> QED BY <4>1
    <3>2. CASE j \in 0 .. Len(b) - 1 /\ a[i + 1] # b[j + 1] /\ l[<<i + 1, j>>] >= l[<<i, j + 1>>]
      <4>1. l[<<i, j>>] = Larger(l[<<i + 1, j>>], l[<<i, j + 1>>])
        BY <1>1, <2>1, <3>2, TableOther
      <4> HIDE DEF l
      <4> QED BY <3>2, <4>1 DEF Larger
    <3> QED BY <2>1, <3>1, <3>2
  <2>8. Len(kept) + l[<<i + 1, j>>] = l[<<0, 0>>]
    <3> HIDE DEF l, kept
    <3> QED BY <1>2, <2>7
  <2> QED BY <2>1, <2>3, <2>5, <2>8 DEF ShortInv
<1>7. CASE Add
  <2>1. /\ j \in 0 .. Len(b) - 1
        /\ ops' = Append(ops, o("add", b[j + 1]))
        /\ j' = j + 1 /\ i' = i /\ a' = a /\ b' = b
        /\ i = Len(a) \/ /\ i \in 0 .. Len(a) - 1 /\ a[i + 1] # b[j + 1]
                         /\ ~ (l[<<i + 1, j>>] >= l[<<i, j + 1>>])
    BY <1>1, <1>7 DEF Add, SameLine, DelFirst, BothLeft, Emit
  <2> DEFINE x == o("add", b[j + 1])
  <2>2. x \in Op /\ x.kind \notin Both
    BY <1>1, <2>1 DEF Op, Both
  <2>3. Lines(ops', Both) = kept
    <3> HIDE DEF x
    <3>1. Lines(Append(ops, x), Both) = Lines(ops, Both)
      BY <1>1, <2>2, LinesAppend
    <3> QED BY <2>1, <3>1 DEF x
  <2>4. Within(b, j + 1) = Longer(Within(b, j), b[j + 1])
    BY <1>1, <2>1, WithinNext
  <2>5. kept \in Within(a, i) \cap Within(b, j + 1)
    BY <1>2, <2>4 DEF Longer
  <2>6. j + 1 \in 0 .. Len(b)
    BY <1>1, <2>1
  <2>7. l[<<i, j + 1>>] = l[<<i, j>>]
    <3>1. CASE i = Len(a)
      <4>1. l[<<i, j + 1>>] = 0 /\ l[<<i, j>>] = 0
        BY <1>1, <2>6, <3>1, TableEdge
      <4> QED BY <4>1
    <3>2. CASE i \in 0 .. Len(a) - 1 /\ a[i + 1] # b[j + 1] /\ ~ (l[<<i + 1, j>>] >= l[<<i, j + 1>>])
      <4>1. l[<<i, j>>] = Larger(l[<<i + 1, j>>], l[<<i, j + 1>>])
        BY <1>1, <2>1, <3>2, TableOther
      <4> HIDE DEF l
      <4> QED BY <3>2, <4>1 DEF Larger
    <3> QED BY <2>1, <3>1, <3>2
  <2>8. Len(kept) + l[<<i, j + 1>>] = l[<<0, 0>>]
    <3> HIDE DEF l, kept
    <3> QED BY <1>2, <2>7
  <2> QED BY <2>1, <2>3, <2>5, <2>8 DEF ShortInv
<1>8. CASE UNCHANGED walk
  BY <1>8 DEF walk, ShortInv
<1>9. CASE WalkEnds \/ KeepOp \/ DropOp \/ HunksEnd \/ UNCHANGED vars
  BY <1>8, <1>9 DEF WalkEnds, KeepOp, DropOp, HunksEnd, vars, walk
<1> QED BY <1>5, <1>6, <1>7, <1>9 DEF Next, Done

LEMMA WalkedShort == Spec => []ShortInv
<1>1. Init => ShortInv
  BY ShortInit
<1>2. WalkInv /\ ShortInv /\ [Next]_vars => ShortInv'
  BY ShortNext
<1> QED BY <1>1, <1>2, Walked, PTL DEF Spec

LEMMA MaxIs ==
    ASSUME NEW S \in SUBSET Nat, NEW n \in S, \A x \in S : x <= n
    PROVE  Max(S) = n
<1> DEFINE m == Max(S)
<1>1. m \in S /\ \A x \in S : m >= x
  <2>1. \E x \in S : \A y \in S : x >= y
    OBVIOUS
  <2> QED BY <2>1 DEF Max
<1> HIDE DEF m
<1>2. m \in Nat /\ n \in Nat /\ m >= n /\ m <= n
  BY <1>1
<1>3. m = n
  BY <1>2
<1> QED BY <1>3 DEF m

\* diffLines: no diff keeps more lines of the old file, so none is shorter. The walk
\* never goes where the table promises less than it did.
THEOREM NoDiffIsShorter == Spec => []Shortest
<1>1. WalkInv /\ ShortInv => Shortest
  <2> SUFFICES ASSUME WalkInv, ShortInv, at = "done" PROVE Shortest
    BY DEF Shortest
  <2> DEFINE kept == Lines(ops, Both)
             common == Subsequences(a) \cap Subsequences(b)
             lengths == {Len(s) : s \in common}
  <2>1. /\ a \in Seq(Line) /\ b \in Seq(Line) /\ i = Len(a) /\ j = Len(b)
        /\ Len(a) \in Nat /\ Len(b) \in Nat /\ ops \in Seq(Op)
    BY DEF WalkInv
  <2>2. kept \in common
    BY <2>1, WithinNone DEF ShortInv
  <2>3. Len(kept) \in Nat
    <3>1. kept \in Seq(Line)
      BY <2>1, LinesType
    <3> QED BY <3>1, LenProperties
  <2>4. LCS(a, b)[<<i, j>>] = 0
    BY <2>1, TableEdge
  <2>5. Len(kept) = LCS(a, b)[<<0, 0>>]
    <3> HIDE DEF kept
    <3>1. Len(kept) + LCS(a, b)[<<i, j>>] = LCS(a, b)[<<0, 0>>]
      BY DEF ShortInv, kept
    <3> QED BY <3>1, <2>3, <2>4
  <2>6. \A x \in lengths : x \in Nat /\ x <= Len(kept)
    <3>1. ASSUME NEW s \in common PROVE Len(s) \in Nat /\ Len(s) <= Len(kept)
      <4>1. s \in Seq(Line)
        BY <2>1, SubsequencesEmpty
      <4>2. Len(s) <= LCS(a, b)[<<0, 0>>]
        BY <2>1, BoundedTable
      <4> QED BY <4>1, <4>2, <2>5, LenProperties
    <3> HIDE DEF common
    <3> QED BY <3>1
  <2>7. Len(kept) \in lengths
    BY <2>2
  <2>8. Max(lengths) = Len(kept)
    <3> HIDE DEF kept, lengths
    <3>1. lengths \in SUBSET Nat
      BY <2>6
    <3> QED BY <2>6, <2>7, <3>1, MaxIs
  <2> QED BY <2>8 DEF Shortest
<1> QED BY <1>1, Walked, WalkedShort, PTL
-----------------------------------------------------------------------------
(* What the hunks make of the old file. A hunk could begin anywhere, so    *)
(* until the cut is known to be right a patched file may hold what lies    *)
(* outside of it: Held.                                                    *)

Held(s) == Line \cup {s[n] : n \in Int}

LEMMA HeldLines == \A s : Seq(Line) \subseteq Seq(Held(s))
<1>1. \A s : Line \subseteq Held(s)
  BY DEF Held
<1> QED BY <1>1, SeqMonotonic

LEMMA SubSeqHeld ==
    ASSUME NEW s, NEW m \in Int, NEW n \in Int
    PROVE  SubSeq(s, m, n) \in Seq(Held(s))
<1>1. \A e \in m .. n : s[e] \in Held(s)
  BY DEF Held
<1> QED BY <1>1, SubSeqProperties

LEMMA HunkFields == \A h \in Hunk : h.fromLine \in Nat /\ h.ops \in Seq(Op)
BY DEF Hunk

LEMMA NextLineType ==
    ASSUME NEW hs \in Seq(Hunk)
    PROVE  NextLine(hs) \in Nat
<1>1. CASE hs = <<>>
  BY <1>1 DEF NextLine
<1>2. CASE hs # <<>>
  <2>1. hs[Len(hs)] \in Hunk
    BY <1>2
  <2> DEFINE h == hs[Len(hs)]
  <2>2. h.fromLine \in Nat /\ Len(OldLines(h.ops)) \in Nat
    <3>1. h.fromLine \in Nat /\ h.ops \in Seq(Op)
      BY <2>1, HunkFields
    <3>2. OldLines(h.ops) \in Seq(Line)
      BY <3>1, LinesType DEF OldLines
    <3> QED BY <3>1, <3>2
  <2>3. NextLine(hs) = h.fromLine + Len(OldLines(h.ops))
    BY <1>2 DEF NextLine
  <2> HIDE DEF h
  <2> QED BY <2>2, <2>3
<1> QED BY <1>1, <1>2

LEMMA PatchType ==
    ASSUME NEW s, NEW hs \in Seq(Hunk), NEW h \in Hunk
    PROVE  Patch(s, hs, h) \in Seq(Held(s))
<1>1. NextLine(hs) \in Int /\ h.fromLine - 1 \in Int /\ h.ops \in Seq(Op)
  BY NextLineType, HunkFields
<1>2. SubSeq(s, NextLine(hs), h.fromLine - 1) \in Seq(Held(s))
  BY <1>1, SubSeqHeld
<1>3. NewLines(h.ops) \in Seq(Held(s))
  BY <1>1, LinesType, HeldLines DEF NewLines
<1> QED BY <1>2, <1>3, ConcatProperties DEF Patch

LEMMA PatchedScan ==
    ASSUME NEW s, NEW hs \in Seq(Hunk)
    PROVE  \E f \in [0 .. Len(hs) -> Seq(Held(s))] :
               /\ f[0] = <<>>
               /\ \A n \in 1 .. Len(hs) :
                      f[n] = f[n - 1] \o Patch(s, SubSeq(hs, 1, n - 1), hs[n])
               /\ Patched(s, hs) = f[Len(hs)]
<1> DEFINE X == Seq(Held(s))
           m == Len(hs)
           d(n) == Patch(s, SubSeq(hs, 1, n - 1), hs[n])
           step == [n \in 1 .. m |-> [x \in X |-> x \o d(n)]]
           Is(f) == f = [n \in 0 .. m |->
                            IF n = 0 THEN <<>>
                            ELSE f[n - 1] \o Patch(s, SubSeq(hs, 1, n - 1), hs[n])]
           g == CHOOSE f : Is(f)
<1>1. m \in Nat /\ <<>> \in X
  OBVIOUS
<1>2. ASSUME NEW n \in 1 .. m PROVE d(n) \in X
  <2>1. SubSeq(hs, 1, n - 1) \in Seq(Hunk)
    <3>1. \A e \in 1 .. n - 1 : hs[e] \in Hunk
      OBVIOUS
    <3> QED BY <3>1, SubSeqProperties
  <2>2. hs[n] \in Hunk
    OBVIOUS
  <2> QED BY <2>1, <2>2, PatchType
<1> HIDE DEF d
<1>3. ASSUME NEW n \in 1 .. m, NEW x \in X
      PROVE  step[n][x] = x \o d(n) /\ step[n][x] \in X
  <2>1. x \o d(n) \in X
    BY <1>2, ConcatProperties
  <2> QED BY <2>1
<1>4. step \in [1 .. m -> [X -> X]]
  <2>1. ASSUME NEW n \in 1 .. m PROVE step[n] \in [X -> X]
    <3>1. step[n] = [x \in X |-> x \o d(n)]
      OBVIOUS
    <3>2. \A x \in X : x \o d(n) \in X
      BY <1>2, ConcatProperties
    <3> HIDE DEF X, step
    <3> QED BY <3>1, <3>2
  <2> QED BY <2>1
<1>5. PICK f : Follows(f, X, m, <<>>, step)
  <2> HIDE DEF X, m, step
  <2> QED BY <1>1, <1>4, Recursion
<1>6. ASSUME NEW n \in 1 .. m PROVE f[n] = f[n - 1] \o d(n)
  <2>1. n - 1 \in 0 .. m
    OBVIOUS
  <2>2. f[n] = step[n][f[n - 1]] /\ f[n - 1] \in X
    <3> HIDE DEF X, m, step
    <3> QED BY <1>5, <2>1 DEF Follows
  <2> HIDE DEF X, m, step
  <2> QED BY <1>3, <2>2
<1>7. Is(f)
  <2>1. f[0] = <<>> /\ f = [n \in 0 .. m |-> f[n]]
    BY <1>5 DEF Follows
  <2>2. ASSUME NEW n \in 0 .. m
        PROVE  f[n] = IF n = 0 THEN <<>>
                      ELSE f[n - 1] \o Patch(s, SubSeq(hs, 1, n - 1), hs[n])
    <3>1. n = 0 \/ n \in 1 .. m
      OBVIOUS
    <3>2. CASE n = 0
      BY <2>1, <3>2
    <3>3. CASE n \in 1 .. m
      <4>1. n # 0
        BY <3>3
      <4> QED BY <3>3, <4>1, <1>6 DEF d
    <3> QED BY <3>1, <3>2, <3>3
  <2> HIDE DEF X, m, step
  <2> QED BY <2>1, <2>2
<1>8. Patched(s, hs) = g[m]
  BY DEF Patched
<1>9. Is(g)
  BY <1>7
<1> HIDE DEF g
<1>10. ASSUME NEW n \in 1 .. m
       PROVE  g[n] = g[n - 1] \o Patch(s, SubSeq(hs, 1, n - 1), hs[n])
  <2>1. n \in 0 .. m /\ n # 0
    OBVIOUS
  <2> HIDE DEF m, X
  <2> QED BY <1>9, <2>1
<1>11. g[0] = <<>> /\ g = [n \in 0 .. m |-> g[n]]
  <2> HIDE DEF m
  <2> QED BY <1>1, <1>9
<1> DEFINE S == {n \in 0 .. m : g[n] \in X}
<1>12. 0 .. m \subseteq S
  <2>1. 0 \in S
    <3> HIDE DEF X, m
    <3> QED BY <1>1, <1>11
  <2>2. ASSUME NEW n \in 0 .. m - 1, n \in S PROVE n + 1 \in S
    <3>1. n + 1 \in 1 .. m /\ n + 1 \in 0 .. m /\ (n + 1) - 1 = n
      OBVIOUS
    <3>2. g[n + 1] = g[n] \o d(n + 1)
      <4>1. g[n + 1] = g[(n + 1) - 1] \o d(n + 1)
        BY <1>10, <3>1 DEF d
      <4> QED BY <3>1, <4>1
    <3>3. g[n] \in X /\ d(n + 1) \in X
      BY <1>2, <2>2, <3>1
    <3>4. g[n + 1] \in X
      BY <3>2, <3>3, ConcatProperties
    <3> QED BY <3>1, <3>4
  <2> HIDE DEF S, m, X
  <2> QED BY <1>1, <2>1, <2>2, Induction
<1>13. g \in [0 .. m -> X]
  <2>1. \A n \in 0 .. m : g[n] \in X
    BY <1>12
  <2> HIDE DEF X, m
  <2> QED BY <1>11, <2>1
<1> QED BY <1>8, <1>10, <1>11, <1>13

LEMMA PatchedType ==
    ASSUME NEW s, NEW hs \in Seq(Hunk)
    PROVE  Patched(s, hs) \in Seq(Held(s))
<1>1. PICK f \in [0 .. Len(hs) -> Seq(Held(s))] : Patched(s, hs) = f[Len(hs)]
  BY PatchedScan
<1>2. Len(hs) \in 0 .. Len(hs)
  OBVIOUS
<1> QED BY <1>1, <1>2

\* One more hunk only adds to what the hunks before it made.
LEMMA PatchedAppend ==
    ASSUME NEW s, NEW hs \in Seq(Hunk), NEW h \in Hunk
    PROVE  /\ Patched(s, hs) \in Seq(Held(s))
           /\ Patched(s, Append(hs, h)) = Patched(s, hs) \o Patch(s, hs, h)
<1> DEFINE m == Len(hs)
           us == Append(hs, h)
<1>1. /\ m \in Nat /\ us \in Seq(Hunk) /\ Len(us) = m + 1
      /\ us[m + 1] = h /\ \A n \in 1 .. m : us[n] = hs[n]
  BY AppendProperties
<1>2. \A n \in 0 .. m : SubSeq(us, 1, n) = SubSeq(hs, 1, n)
  BY <1>1
<1>3. SubSeq(hs, 1, m) = hs
  BY SubSeqFull
<1> HIDE DEF us
<1>4. PICK f \in [0 .. m -> Seq(Held(s))] :
               /\ f[0] = <<>>
               /\ \A n \in 1 .. m : f[n] = f[n - 1] \o Patch(s, SubSeq(hs, 1, n - 1), hs[n])
               /\ Patched(s, hs) = f[m]
  BY PatchedScan
<1>5. PICK g \in [0 .. Len(us) -> Seq(Held(s))] :
               /\ g[0] = <<>>
               /\ \A n \in 1 .. Len(us) :
                      g[n] = g[n - 1] \o Patch(s, SubSeq(us, 1, n - 1), us[n])
               /\ Patched(s, us) = g[Len(us)]
  BY <1>1, PatchedScan
<1> DEFINE S == {n \in 0 .. m : g[n] = f[n]}
<1>6. 0 .. m \subseteq S
  <2>1. 0 \in S
    BY <1>1, <1>4, <1>5
  <2>2. ASSUME NEW n \in 0 .. m - 1, n \in S PROVE n + 1 \in S
    <3>1. /\ n + 1 \in 0 .. m /\ n + 1 \in 1 .. m /\ (n + 1) - 1 = n /\ g[n] = f[n]
          /\ n + 1 \in 1 .. Len(us) /\ us[n + 1] = hs[n + 1]
          /\ SubSeq(us, 1, n) = SubSeq(hs, 1, n)
      BY <1>1, <1>2, <2>2
    <3>2. g[n + 1] = g[n] \o Patch(s, SubSeq(us, 1, n), us[n + 1])
      <4> HIDE DEF m
      <4> QED BY <1>5, <3>1
    <3>3. f[n + 1] = f[n] \o Patch(s, SubSeq(hs, 1, n), hs[n + 1])
      <4> HIDE DEF m
      <4> QED BY <1>4, <3>1
    <3>4. g[n + 1] = f[n + 1]
      BY <3>1, <3>2, <3>3
    <3> QED BY <3>1, <3>4
  <2> HIDE DEF S, m
  <2> QED BY <1>1, <2>1, <2>2, Induction
<1>7. m \in 0 .. m /\ m + 1 \in 1 .. Len(us) /\ (m + 1) - 1 = m
  BY <1>1
<1>8. g[m] = f[m] /\ f[m] \in Seq(Held(s))
  <2>1. m \in S
    <3> HIDE DEF S, m
    <3> QED BY <1>6, <1>7
  <2> QED BY <2>1
<1>9. g[m + 1] = g[m] \o Patch(s, SubSeq(us, 1, m), us[m + 1])
  <2> HIDE DEF m
  <2> QED BY <1>5, <1>7
<1>10. SubSeq(us, 1, m) = hs
  <2> HIDE DEF m
  <2> QED BY <1>2, <1>3, <1>7
<1> QED BY <1>1, <1>4, <1>5, <1>8, <1>9, <1>10 DEF us
-----------------------------------------------------------------------------
(* hunks.                                                                  *)

LEMMA PatchedEmpty == \A s : Patched(s, <<>>) = <<>>
<1> SUFFICES ASSUME NEW s PROVE Patched(s, <<>>) = <<>>
  OBVIOUS
<1> DEFINE hs == <<>>
<1>1. hs \in Seq(Hunk) /\ Len(hs) = 0
  OBVIOUS
<1> HIDE DEF hs
<1>2. PICK f \in [0 .. Len(hs) -> Seq(Held(s))] : f[0] = <<>> /\ Patched(s, hs) = f[Len(hs)]
  BY <1>1, PatchedScan
<1> QED BY <1>1, <1>2 DEF hs

LEMMA CutInTwo ==
    ASSUME NEW T, NEW s \in Seq(T), NEW n \in 0 .. Len(s)
    PROVE  /\ SubSeq(s, 1, n) \in Seq(T) /\ SubSeq(s, n + 1, Len(s)) \in Seq(T)
           /\ SubSeq(s, 1, n) \o SubSeq(s, n + 1, Len(s)) = s
<1>1. /\ (\A e \in 1 .. n : s[e] \in T) /\ (\A e \in n + 1 .. Len(s) : s[e] \in T)
      /\ 1 \in 1 .. Len(s) + 1 /\ n \in 1 - 1 .. Len(s) /\ Len(s) \in n .. Len(s)
  OBVIOUS
<1>2. SubSeq(s, 1, n) \in Seq(T) /\ SubSeq(s, n + 1, Len(s)) \in Seq(T)
  BY <1>1, SubSeqProperties
<1> QED BY <1>1, <1>2, ConcatAdjacentSubSeq, SubSeqFull

LEMMA ConcatAppend ==
    ASSUME NEW T, NEW x \in Seq(T), NEW y \in Seq(T), NEW t \in T
    PROVE  x \o Append(y, t) = Append(x \o y, t)
<1>1. <<t>> \in Seq(T) /\ Append(y, t) = y \o <<t>> /\ x \o y \in Seq(T)
  BY AppendIsConcat, ConcatProperties
<1>2. x \o (y \o <<t>>) = (x \o y) \o <<t>>
  BY <1>1, ConcatAssociative
<1>3. Append(x \o y, t) = (x \o y) \o <<t>>
  BY <1>1, AppendIsConcat
<1> QED BY <1>1, <1>2, <1>3

Passed == SubSeq(ops, 1, k)
Start == IF cur = <<>> THEN origLine ELSE curFrom
Made == Patched(a, result) \o SubSeq(a, NextLine(result), Start - 1)

CutInv ==
    /\ k \in 0 .. Len(ops) /\ cur \in Seq(Op) /\ curFrom \in Nat /\ result \in Seq(Hunk)
    /\ at = "hunks" =>
           /\ origLine = Len(OldLines(Passed)) + 1
           /\ NextLine(result) \in 1 .. Start
           /\ cur # <<>> => curFrom + Len(OldLines(cur)) = origLine
           /\ Made \o NewLines(cur) = NewLines(Passed)
    /\ HunksApply

LEMMA PassedType ==
    ASSUME NEW os \in Seq(Op), NEW n \in 0 .. Len(os)
    PROVE  /\ SubSeq(os, 1, n) \in Seq(Op)
           /\ OldLines(SubSeq(os, 1, n)) \in Seq(Line)
           /\ NewLines(SubSeq(os, 1, n)) \in Seq(Line)
<1>1. \A e \in 1 .. n : os[e] \in Op
  OBVIOUS
<1>2. SubSeq(os, 1, n) \in Seq(Op)
  BY <1>1, SubSeqProperties
<1> QED BY <1>2, LinesType DEF OldLines, NewLines

\* The next operation, what it tells of either file, and the line of a it is at.
LEMMA NextOp ==
    ASSUME WalkInv, CutInv, at = "hunks", k < Len(ops)
    PROVE  /\ ops[k + 1] \in Op /\ ops[k + 1].kind \in {"equal", "del", "add"}
           /\ ops[k + 1].text \in Line
           /\ SubSeq(ops, 1, k + 1) = Append(Passed, ops[k + 1])
           /\ Passed \in Seq(Op) /\ OldLines(Passed) \in Seq(Line) /\ NewLines(Passed) \in Seq(Line)
           /\ OldLines(SubSeq(ops, 1, k + 1)) =
                  IF ops[k + 1].kind # "add" THEN Append(OldLines(Passed), ops[k + 1].text)
                  ELSE OldLines(Passed)
           /\ NewLines(SubSeq(ops, 1, k + 1)) =
                  IF ops[k + 1].kind # "del" THEN Append(NewLines(Passed), ops[k + 1].text)
                  ELSE NewLines(Passed)
           /\ OrigLine(k + 1) = Len(OldLines(SubSeq(ops, 1, k + 1))) + 1
<1>1. 1 \in 1 .. Len(ops) + 1 /\ k \in 1 - 1 .. Len(ops) - 1 /\ ops \in Seq(Op)
  BY DEF WalkInv, CutInv
<1>2. /\ ops[k + 1] \in Op /\ SubSeq(ops, 1, k + 1) = Append(Passed, ops[k + 1])
      /\ Passed \in Seq(Op)
  BY <1>1, PrefixGrows DEF Passed
<1> DEFINE o == ops[k + 1]
<1>3. o.kind \in {"equal", "del", "add"} /\ o.text \in Line
  BY <1>2, OpFields
<1>4. OldLines(Passed) \in Seq(Line) /\ NewLines(Passed) \in Seq(Line)
  BY <1>2, LinesType DEF OldLines, NewLines
<1>5. OldLines(Append(Passed, o)) = IF o.kind \in Old THEN Append(OldLines(Passed), o.text)
                                    ELSE OldLines(Passed)
  BY <1>2, LinesAppend DEF OldLines
<1>6. NewLines(Append(Passed, o)) = IF o.kind \in New THEN Append(NewLines(Passed), o.text)
                                    ELSE NewLines(Passed)
  BY <1>2, LinesAppend DEF NewLines
<1>7. o.kind \in Old <=> o.kind # "add"
  BY <1>3 DEF Old
<1>8. o.kind \in New <=> o.kind # "del"
  BY <1>3 DEF New
<1>9. origLine = Len(OldLines(Passed)) + 1
  BY DEF CutInv
<1>10. OrigLine(k + 1) = IF o.kind # "add" THEN origLine + 1 ELSE origLine
  BY DEF OrigLine
<1> HIDE DEF o
<1>11. OrigLine(k + 1) = Len(OldLines(Append(Passed, o))) + 1
  BY <1>3, <1>4, <1>5, <1>7, <1>9, <1>10
<1> QED BY <1>2, <1>3, <1>4, <1>5, <1>6, <1>7, <1>8, <1>11 DEF o

\* What an unchanged line tells is the line of a the cut is at.
LEMMA EqualLine ==
    ASSUME WalkInv, CutInv, at = "hunks", k < Len(ops), ops[k + 1].kind = "equal"
    PROVE  origLine \in 1 .. Len(a) /\ ops[k + 1].text = a[origLine]
<1> DEFINE x == SubSeq(ops, 1, k + 1)
           y == SubSeq(ops, k + 2, Len(ops))
<1>1. ops \in Seq(Op) /\ a \in Seq(Line) /\ k \in 0 .. Len(ops) - 1
  BY DEF WalkInv, CutInv
<1>2. x \in Seq(Op) /\ y \in Seq(Op) /\ x \o y = ops
  <2>1. k + 1 \in 0 .. Len(ops) /\ (k + 1) + 1 = k + 2
    BY <1>1
  <2> QED BY <1>1, <2>1, CutInTwo
<1>3. OldLines(x) = Append(OldLines(Passed), ops[k + 1].text) /\ OldLines(Passed) \in Seq(Line)
  BY NextOp
<1>4. OldLines(ops) = a
  <2>1. OldLines(ops) = SubSeq(a, 1, Len(a))
    BY DEF WalkInv, Rebuilds
  <2> QED BY <1>1, <2>1, SubSeqFull
<1> HIDE DEF x, y
<1>5. OldLines(ops) = OldLines(x) \o OldLines(y) /\ OldLines(y) \in Seq(Line)
      /\ OldLines(x) \in Seq(Line)
  <2>1. Lines(x \o y, Old) = Lines(x, Old) \o Lines(y, Old)
    BY <1>2, LinesConcat
  <2> QED BY <1>2, <2>1, LinesType DEF OldLines
<1> DEFINE u == OldLines(Passed)
           v == OldLines(y)
           w == OldLines(x)
           t == ops[k + 1].text
<1>6. a = w \o v /\ w = Append(u, t) /\ u \in Seq(Line) /\ v \in Seq(Line) /\ w \in Seq(Line)
  BY <1>3, <1>4, <1>5
<1>7. origLine = Len(u) + 1
  BY DEF CutInv
<1> HIDE DEF u, v, w, t
<1>8. Len(w) = Len(u) + 1 /\ w[Len(u) + 1] = t
  BY <1>6
<1>9. Len(a) = Len(w) + Len(v) /\ \A e \in 1 .. Len(w) : a[e] = w[e]
  BY <1>6, ConcatProperties
<1>10. Len(u) \in Nat /\ Len(v) \in Nat
  BY <1>6
<1>11. Len(u) + 1 \in 1 .. Len(w)
  BY <1>8, <1>10
<1> QED BY <1>7, <1>8, <1>9, <1>10, <1>11 DEF t

\* With the collected hunk added, the hunks and the lines of a up to origLine are
\* what was passed of b.
LEMMA FlushedFits ==
    ASSUME WalkInv, CutInv, at = "hunks"
    PROVE  /\ Flushed \in Seq(Hunk)
           /\ NextLine(Flushed) \in 1 .. origLine /\ origLine \in Nat
           /\ Patched(a, Flushed) \o SubSeq(a, NextLine(Flushed), origLine - 1) = NewLines(Passed)
           /\ Patched(a, Flushed) \in Seq(Held(a))
<1>1. /\ ops \in Seq(Op) /\ k \in 0 .. Len(ops) /\ cur \in Seq(Op) /\ curFrom \in Nat
      /\ result \in Seq(Hunk) /\ origLine = Len(OldLines(Passed)) + 1
      /\ NextLine(result) \in 1 .. Start
      /\ Made \o NewLines(cur) = NewLines(Passed)
      /\ cur # <<>> => curFrom + Len(OldLines(cur)) = origLine
  BY DEF WalkInv, CutInv
<1>2. origLine \in Nat
  <2>1. OldLines(Passed) \in Seq(Line)
    BY <1>1, PassedType DEF Passed
  <2> QED BY <1>1, <2>1
<1>3. CASE cur = <<>>
  <2>1. Flushed = result /\ Start = origLine
    BY <1>3 DEF Flushed, Start
  <2>2. NewLines(cur) = <<>>
    BY <1>3, LinesEmpty DEF NewLines
  <2>3. Patched(a, result) \in Seq(Held(a)) /\ Made \in Seq(Held(a))
    <3>0. NextLine(result) \in Int /\ Start - 1 \in Int
      BY <1>1, <1>2, <2>1
    <3>1. SubSeq(a, NextLine(result), Start - 1) \in Seq(Held(a))
      BY <3>0, SubSeqHeld
    <3>2. Patched(a, result) \in Seq(Held(a))
      BY <1>1, PatchedType
    <3> QED BY <3>1, <3>2, ConcatProperties DEF Made
  <2>4. Made \o <<>> = Made
    BY <2>3, ConcatEmptySeq
  <2> QED BY <1>1, <1>2, <2>1, <2>2, <2>3, <2>4 DEF Made
<1>4. CASE cur # <<>>
  <2> DEFINE h == [fromLine |-> curFrom, ops |-> cur]
             x == Patched(a, result)
             y == SubSeq(a, NextLine(result), curFrom - 1)
             z == NewLines(cur)
  <2>1. Flushed = Append(result, h) /\ Start = curFrom
    BY <1>4 DEF Flushed, Start
  <2>2. h \in Hunk /\ h.fromLine = curFrom /\ h.ops = cur
    BY <1>1 DEF Hunk
  <2>3. Patch(a, result, h) = y \o z
    BY <2>2 DEF Patch
  <2>4. Made = x \o y
    BY <2>1 DEF Made
  <2> HIDE DEF h
  <2>5. x \in Seq(Held(a)) /\ Patched(a, Append(result, h)) = x \o Patch(a, result, h)
    BY <1>1, <2>2, PatchedAppend
  <2>6. y \in Seq(Held(a)) /\ z \in Seq(Held(a))
    <3>1. NextLine(result) \in Int /\ curFrom - 1 \in Int
      BY <1>1, NextLineType
    <3>2. y \in Seq(Held(a))
      BY <3>1, SubSeqHeld
    <3>3. z \in Seq(Held(a))
      BY <1>1, LinesType, HeldLines DEF NewLines
    <3> QED BY <3>2, <3>3
  <2> HIDE DEF x, y, z
  <2>7. Patched(a, Flushed) = NewLines(Passed)
    <3>1. x \o (y \o z) = (x \o y) \o z
      BY <2>5, <2>6, ConcatAssociative
    <3> QED BY <1>1, <2>1, <2>3, <2>4, <2>5, <3>1 DEF z
  <2>8. Patched(a, Flushed) \in Seq(Held(a))
    <3>1. y \o z \in Seq(Held(a))
      BY <2>6, ConcatProperties
    <3>2. x \o (y \o z) \in Seq(Held(a))
      BY <2>5, <3>1, ConcatProperties
    <3> QED BY <2>1, <2>3, <2>5, <3>2
  <2>9. Flushed \in Seq(Hunk) /\ Flushed # <<>> /\ Flushed[Len(Flushed)] = h
    <3>1. Append(result, h) \in Seq(Hunk) /\ Len(Append(result, h)) = Len(result) + 1
          /\ Append(result, h)[Len(result) + 1] = h /\ Append(result, h) # <<>>
      BY <1>1, <2>2, AppendProperties
    <3> QED BY <2>1, <3>1
  <2>10. NextLine(Flushed) = origLine
    BY <1>1, <1>4, <2>2, <2>9 DEF NextLine
  <2>11. SubSeq(a, origLine, origLine - 1) = <<>>
    <3>1. origLine \in Int /\ origLine - 1 \in Int /\ origLine - 1 < origLine
      BY <1>2
    <3> QED BY <3>1, SubSeqEmpty
  <2>12. Patched(a, Flushed) \o <<>> = Patched(a, Flushed)
    BY <2>8, ConcatEmptySeq
  <2>13. origLine \in 1 .. origLine
    <3>1. Len(OldLines(Passed)) \in Nat
      <4>1. OldLines(Passed) \in Seq(Line)
        BY <1>1, PassedType DEF Passed
      <4> QED BY <4>1
    <3> QED BY <1>1, <3>1
  <2> QED BY <1>2, <2>7, <2>8, <2>9, <2>10, <2>11, <2>12, <2>13
<1> QED BY <1>3, <1>4

LEMMA CutInit == Init => CutInv
BY DEF Init, CutInv, HunksApply

LEMMA CutBegins == WalkInv /\ CutInv /\ WalkEnds => CutInv'
<1> SUFFICES ASSUME WalkInv, CutInv, WalkEnds PROVE CutInv'
  OBVIOUS
<1>1. /\ k = 0 /\ cur = <<>> /\ origLine = 1 /\ result = <<>> /\ at' = "hunks"
      /\ UNCHANGED <<a, b, i, j, ops, k, cur, curFrom, origLine, result>>
  BY DEF WalkInv, WalkEnds, walk, cutting
<1>2. SubSeq(ops, 1, 0) = <<>> /\ SubSeq(a, 1, 0) = <<>>
  BY SubSeqEmpty
<1>3. Passed' = <<>> /\ OldLines(Passed)' = <<>> /\ NewLines(Passed)' = <<>> /\ NewLines(cur)' = <<>>
  BY <1>1, <1>2, LinesEmpty DEF Passed, OldLines, NewLines
<1>4. Start' = 1 /\ NextLine(result)' = 1
  BY <1>1 DEF Start, NextLine
<1>5. Patched(a, result)' = <<>> /\ SubSeq(a, NextLine(result), Start - 1)' = <<>>
  BY <1>1, <1>2, <1>4, PatchedEmpty
<1>6. Made' = <<>> /\ (Made \o NewLines(cur))' = <<>>
  <2>1. <<>> \o <<>> = <<>>
    OBVIOUS
  <2> QED BY <1>3, <1>5, <2>1 DEF Made
<1> QED BY <1>1, <1>3, <1>4, <1>6 DEF CutInv, HunksApply

LEMMA CutKeeps == WalkInv /\ CutInv /\ KeepOp => CutInv'
<1> SUFFICES ASSUME WalkInv, CutInv, KeepOp PROVE CutInv'
  OBVIOUS
<1> DEFINE o == ops[k + 1]
<1>1. /\ at = "hunks" /\ k < Len(ops) /\ k' = k + 1 /\ cur' = Append(cur, o)
      /\ curFrom' = IF cur = <<>> THEN origLine ELSE curFrom
      /\ origLine' = OrigLine(k + 1)
      /\ UNCHANGED <<a, b, i, j, ops, result, at>>
  BY DEF KeepOp, walk
<1>2. /\ k \in 0 .. Len(ops) /\ cur \in Seq(Op) /\ curFrom \in Nat /\ result \in Seq(Hunk)
      /\ origLine = Len(OldLines(Passed)) + 1 /\ NextLine(result) \in 1 .. Start
      /\ cur # <<>> => curFrom + Len(OldLines(cur)) = origLine
      /\ Made \o NewLines(cur) = NewLines(Passed) /\ ops \in Seq(Op)
  BY <1>1 DEF CutInv, WalkInv
<1>3. /\ o \in Op /\ o.kind \in {"equal", "del", "add"} /\ o.text \in Line
      /\ OldLines(Passed) \in Seq(Line) /\ NewLines(Passed) \in Seq(Line)
      /\ OldLines(SubSeq(ops, 1, k + 1)) =
             IF o.kind # "add" THEN Append(OldLines(Passed), o.text) ELSE OldLines(Passed)
      /\ NewLines(SubSeq(ops, 1, k + 1)) =
             IF o.kind # "del" THEN Append(NewLines(Passed), o.text) ELSE NewLines(Passed)
      /\ OrigLine(k + 1) = Len(OldLines(SubSeq(ops, 1, k + 1))) + 1
  BY <1>1, NextOp
<1> HIDE DEF o
<1>4. Passed' = SubSeq(ops, 1, k + 1) /\ OldLines(Passed)' = OldLines(SubSeq(ops, 1, k + 1))
      /\ NewLines(Passed)' = NewLines(SubSeq(ops, 1, k + 1))
  BY <1>1 DEF Passed
<1>5. /\ OldLines(cur) \in Seq(Line) /\ NewLines(cur) \in Seq(Line)
      /\ OldLines(cur)' = IF o.kind # "add" THEN Append(OldLines(cur), o.text) ELSE OldLines(cur)
      /\ NewLines(cur)' = IF o.kind # "del" THEN Append(NewLines(cur), o.text) ELSE NewLines(cur)
  <2>1. o.kind \in Old <=> o.kind # "add"
    BY <1>3 DEF Old
  <2>2. o.kind \in New <=> o.kind # "del"
    BY <1>3 DEF New
  <2>3. /\ Lines(cur, Old) \in Seq(Line) /\ Lines(cur, New) \in Seq(Line)
        /\ Lines(Append(cur, o), Old) = IF o.kind \in Old THEN Append(Lines(cur, Old), o.text)
                                        ELSE Lines(cur, Old)
        /\ Lines(Append(cur, o), New) = IF o.kind \in New THEN Append(Lines(cur, New), o.text)
                                        ELSE Lines(cur, New)
    BY <1>2, <1>3, LinesAppend
  <2> QED BY <1>1, <2>1, <2>2, <2>3 DEF OldLines, NewLines
<1>6. cur' \in Seq(Op) /\ cur' # <<>>
  BY <1>1, <1>2, <1>3, AppendProperties
<1>7. origLine \in Nat /\ k' \in 0 .. Len(ops)' /\ curFrom' \in Nat
  BY <1>1, <1>2, <1>3
<1>8. Start' = Start
  BY <1>1, <1>6 DEF Start
<1>9. Made' = Made /\ NextLine(result)' = NextLine(result)
  BY <1>1, <1>8 DEF Made
<1>10. (curFrom + Len(OldLines(cur)) = origLine)'
  <2>1. curFrom' + Len(OldLines(cur)) = origLine
    <3>1. CASE cur = <<>>
      <4>1. OldLines(cur) = <<>>
        BY <3>1, LinesEmpty DEF OldLines
      <4> QED BY <1>1, <1>7, <3>1, <4>1
    <3>2. CASE cur # <<>>
      BY <1>1, <1>2, <3>2
    <3> QED BY <3>1, <3>2
  <2>2. CASE o.kind # "add"
    <3>1. Len(OldLines(cur)') = Len(OldLines(cur)) + 1
      BY <1>3, <1>5, <2>2
    <3>2. origLine' = origLine + 1
      BY <1>1, <1>2, <1>3, <2>2
    <3>3. Len(OldLines(cur)) \in Nat
      BY <1>5
    <3> QED BY <1>7, <2>1, <3>1, <3>2, <3>3
  <2>3. CASE o.kind = "add"
    BY <1>1, <1>2, <1>3, <1>5, <2>1, <2>3
  <2> QED BY <2>2, <2>3
<1>11. (Made \o NewLines(cur) = NewLines(Passed))'
  <2>1. Made \in Seq(Held(a)) /\ NewLines(cur) \in Seq(Held(a)) /\ o.text \in Held(a)
    <3>1. NextLine(result) \in Int /\ Start - 1 \in Int
      BY <1>2, <1>7, NextLineType DEF Start
    <3>2. SubSeq(a, NextLine(result), Start - 1) \in Seq(Held(a))
      BY <3>1, SubSeqHeld
    <3>3. Patched(a, result) \in Seq(Held(a))
      BY <1>2, PatchedType
    <3>4. NewLines(cur) \in Seq(Held(a)) /\ o.text \in Held(a)
      BY <1>3, <1>5, HeldLines DEF Held
    <3> QED BY <3>2, <3>3, <3>4, ConcatProperties DEF Made
  <2>2. Made \o Append(NewLines(cur), o.text) = Append(Made \o NewLines(cur), o.text)
    BY <2>1, ConcatAppend
  <2> QED BY <1>2, <1>3, <1>4, <1>5, <1>9, <2>2
<1> QED BY <1>1, <1>2, <1>3, <1>4, <1>6, <1>7, <1>8, <1>9, <1>10, <1>11 DEF CutInv, HunksApply

LEMMA CutDrops == WalkInv /\ CutInv /\ DropOp => CutInv'
<1> SUFFICES ASSUME WalkInv, CutInv, DropOp PROVE CutInv'
  OBVIOUS
<1> DEFINE o == ops[k + 1]
<1>1. /\ at = "hunks" /\ k < Len(ops) /\ k' = k + 1 /\ cur' = <<>> /\ ~Keep(k + 1)
      /\ origLine' = OrigLine(k + 1) /\ result' = Flushed
      /\ UNCHANGED <<a, b, i, j, ops, curFrom, at>>
  BY DEF DropOp, walk
<1>2. /\ k \in 0 .. Len(ops) /\ curFrom \in Nat /\ ops \in Seq(Op) /\ a \in Seq(Line)
      /\ origLine = Len(OldLines(Passed)) + 1
  BY <1>1 DEF CutInv, WalkInv
<1>3. o.kind = "equal"
  <2>1. k + 1 \in DOMAIN ops /\ Context \in Nat
    BY <1>1, <1>2, DiffAssumption
  <2>2. k + 1 \in (k + 1) - Context .. (k + 1) + Context
    BY <1>2, <2>1
  <2> QED BY <1>1, <2>1, <2>2 DEF Keep, IsChange
<1>4. origLine \in 1 .. Len(a) /\ o.text = a[origLine]
  BY <1>1, <1>3, EqualLine
<1>5. /\ o \in Op /\ o.text \in Line
      /\ OldLines(Passed) \in Seq(Line) /\ NewLines(Passed) \in Seq(Line)
      /\ OldLines(SubSeq(ops, 1, k + 1)) = Append(OldLines(Passed), o.text)
      /\ NewLines(SubSeq(ops, 1, k + 1)) = Append(NewLines(Passed), o.text)
      /\ OrigLine(k + 1) = Len(OldLines(SubSeq(ops, 1, k + 1))) + 1
  BY <1>1, <1>3, NextOp
<1>6. /\ Flushed \in Seq(Hunk) /\ NextLine(Flushed) \in 1 .. origLine
      /\ Patched(a, Flushed) \o SubSeq(a, NextLine(Flushed), origLine - 1) = NewLines(Passed)
      /\ Patched(a, Flushed) \in Seq(Held(a))
  BY <1>1, FlushedFits
<1> HIDE DEF o
<1>7. Passed' = SubSeq(ops, 1, k + 1) /\ OldLines(Passed)' = OldLines(SubSeq(ops, 1, k + 1))
      /\ NewLines(Passed)' = NewLines(SubSeq(ops, 1, k + 1))
  BY <1>1 DEF Passed
<1>8. origLine' = origLine + 1 /\ Start' = origLine + 1
  <2>1. origLine' = origLine + 1
    BY <1>1, <1>2, <1>5
  <2> QED BY <1>1, <2>1 DEF Start
<1>9. Made' = NewLines(Passed)'
  <2> DEFINE x == Patched(a, Flushed)
             n == NextLine(Flushed)
             y == SubSeq(a, n, origLine - 1)
             t == a[origLine]
  <2>1. n \in 1 .. Len(a) + 1 /\ origLine - 1 \in n - 1 .. Len(a) - 1 /\ (origLine - 1) + 1 = origLine
    BY <1>4, <1>6
  <2>2. y \in Seq(Line) /\ t \in Line /\ SubSeq(a, n, origLine) = Append(y, t)
    <3> HIDE DEF n
    <3> QED BY <1>2, <2>1, PrefixGrows
  <2>3. Made' = x \o SubSeq(a, n, origLine)
    <3>1. Start' - 1 = origLine
      BY <1>4, <1>8
    <3> QED BY <1>1, <3>1 DEF Made
  <2>4. x \o y = NewLines(Passed)
    BY <1>6
  <2>5. x \in Seq(Held(a))
    BY <1>6
  <2> HIDE DEF x, y, t, n
  <2>6. y \in Seq(Held(a)) /\ t \in Held(a)
    BY <2>2, HeldLines DEF Held
  <2>7. x \o Append(y, t) = Append(x \o y, t)
    BY <2>5, <2>6, ConcatAppend
  <2> QED BY <1>4, <1>5, <1>7, <2>2, <2>3, <2>4, <2>7 DEF t
<1>10. (Made \o NewLines(cur) = NewLines(Passed))'
  <2>1. NewLines(cur)' = <<>>
    BY <1>1, LinesEmpty DEF NewLines
  <2>2. NewLines(Passed)' \in Seq(Line)
    <3> DEFINE x == NewLines(Passed)
               t == o.text
    <3>1. x \in Seq(Line) /\ t \in Line /\ NewLines(Passed)' = Append(x, t)
      BY <1>5, <1>7
    <3> HIDE DEF x, t
    <3> QED BY <3>1, AppendProperties
  <2>3. NewLines(Passed)' \o <<>> = NewLines(Passed)'
    BY <2>2, ConcatEmptySeq
  <2> QED BY <1>9, <2>1, <2>3
<1>11. cur' \in Seq(Op) /\ k' \in 0 .. Len(ops)' /\ result' \in Seq(Hunk)
       /\ NextLine(result)' \in 1 .. Start'
  BY <1>1, <1>2, <1>4, <1>6, <1>8
<1> QED BY <1>1, <1>2, <1>5, <1>7, <1>8, <1>10, <1>11 DEF CutInv, HunksApply

LEMMA CutEnds == WalkInv /\ CutInv /\ HunksEnd => CutInv'
<1> SUFFICES ASSUME WalkInv, CutInv, HunksEnd PROVE CutInv'
  OBVIOUS
<1>1. /\ at = "hunks" /\ at' = "done" /\ k = Len(ops) /\ result' = Flushed
      /\ UNCHANGED <<a, b, i, j, ops, k, cur, curFrom, origLine>>
  BY DEF HunksEnd, walk
<1>2. /\ a \in Seq(Line) /\ b \in Seq(Line) /\ ops \in Seq(Op) /\ i = Len(a) /\ j = Len(b)
      /\ origLine = Len(OldLines(Passed)) + 1
  BY <1>1 DEF CutInv, WalkInv
<1>3. OldLines(Passed) = a /\ NewLines(Passed) = b
  <2>1. Passed = ops
    BY <1>1, <1>2, SubSeqFull DEF Passed
  <2>2. OldLines(ops) = SubSeq(a, 1, Len(a)) /\ NewLines(ops) = SubSeq(b, 1, Len(b))
    BY <1>2 DEF WalkInv, Rebuilds
  <2> QED BY <1>2, <2>1, <2>2, SubSeqFull
<1>4. origLine - 1 = Len(a)
  BY <1>2, <1>3
<1>5. /\ Flushed \in Seq(Hunk)
      /\ Patched(a, Flushed) \o SubSeq(a, NextLine(Flushed), origLine - 1) = NewLines(Passed)
  BY <1>1, FlushedFits
<1>6. HunksApply'
  BY <1>1, <1>3, <1>4, <1>5 DEF HunksApply
<1> QED BY <1>1, <1>5, <1>6 DEF CutInv

LEMMA CutNext == WalkInv /\ CutInv /\ [Next]_vars => CutInv'
<1> SUFFICES ASSUME WalkInv, CutInv, [Next]_vars PROVE CutInv'
  OBVIOUS
<1>1. ASSUME at = "walk", at' = "walk", UNCHANGED cutting, k \in 0 .. Len(ops')
      PROVE  CutInv'
  BY <1>1 DEF CutInv, HunksApply, cutting
<1>2. CASE Equal \/ Del \/ Add
  <2>1. at = "walk" /\ at' = "walk" /\ UNCHANGED cutting /\ \E kind, text : Emit(kind, text)
    BY <1>2 DEF Equal, Del, Add
  <2>2. k = 0 /\ ops \in Seq(Op)
    BY <2>1 DEF WalkInv
  <2>3. Len(ops') \in Nat
    BY <2>1, <2>2 DEF Emit
  <2> QED BY <1>1, <2>1, <2>2, <2>3
<1>3. CASE WalkEnds
  BY <1>3, CutBegins
<1>4. CASE KeepOp
  BY <1>4, CutKeeps
<1>5. CASE DropOp
  BY <1>5, CutDrops
<1>6. CASE HunksEnd
  BY <1>6, CutEnds
<1>7. CASE UNCHANGED vars
  BY <1>7 DEF vars, CutInv, HunksApply, Passed, Start, Made
<1> QED BY <1>2, <1>3, <1>4, <1>5, <1>6, <1>7 DEF Next, Done

LEMMA Cut == Spec => []CutInv
<1>1. Init => CutInv
  BY CutInit
<1>2. WalkInv /\ CutInv /\ [Next]_vars => CutInv'
  BY CutNext
<1> QED BY <1>1, <1>2, Walked, PTL DEF Spec

\* hunks: whatever was kept, the hunks with their line numbers make the new file of the
\* old one.
THEOREM HunksMakeTheNewFile == Spec => []HunksApply
<1>1. CutInv => HunksApply
  BY DEF CutInv
<1> QED BY <1>1, Cut, PTL
-----------------------------------------------------------------------------
(* Every hunk is a run of kept operations, as long as it can be.           *)

Run(s, e, from, os) ==
    /\ s \in 1 .. Len(ops) /\ e \in s .. Len(ops) /\ os = SubSeq(ops, s, e)
    /\ \A o \in s .. e : Keep(o)
    /\ s = 1 \/ ~Keep(s - 1)
    /\ from = Len(OldLines(SubSeq(ops, 1, s - 1))) + 1

WholeRun(from, os) ==
    \E s, e \in Nat : Run(s, e, from, os) /\ (e = Len(ops) \/ ~Keep(e + 1))

RunInv ==
    at # "walk" =>
    /\ \A h \in DOMAIN result : WholeRun(result[h].fromLine, result[h].ops)
    /\ at = "hunks" /\ cur = <<>> => k = 0 \/ ~Keep(k)
    /\ at = "hunks" /\ cur # <<>> => \E s \in Nat : Run(s, k, curFrom, cur)

LEMMA SameOps ==
    ASSUME ops' = ops
    PROVE  /\ \A o : Keep(o)' <=> Keep(o)
           /\ \A s, e, from, os : Run(s, e, from, os)' <=> Run(s, e, from, os)
           /\ \A from, os : WholeRun(from, os)' <=> WholeRun(from, os)
<1>1. \A o : Keep(o)' <=> Keep(o)
  BY DEF Keep, IsChange
<1>2. \A s, e, from, os : Run(s, e, from, os)' <=> Run(s, e, from, os)
  BY <1>1 DEF Run
<1>3. \A from, os : WholeRun(from, os)' <=> WholeRun(from, os)
  BY <1>1, <1>2 DEF WholeRun
<1> QED BY <1>1, <1>2, <1>3

\* The operation that is kept next begins a run, or makes the one collected longer.
LEMMA RunGrows ==
    ASSUME WalkInv, CutInv, RunInv, at = "hunks", k < Len(ops), Keep(k + 1)
    PROVE  \E s \in Nat : Run(s, k + 1, IF cur = <<>> THEN origLine ELSE curFrom,
                              Append(cur, ops[k + 1]))
<1>1. k \in 0 .. Len(ops) - 1 /\ ops \in Seq(Op) /\ origLine = Len(OldLines(Passed)) + 1
  BY DEF WalkInv, CutInv
<1>2. CASE cur = <<>>
  <2>1. SubSeq(ops, k + 1, k + 1) = Append(cur, ops[k + 1])
    <3>1. k + 1 \in 1 .. Len(ops) + 1 /\ k \in (k + 1) - 1 .. Len(ops) - 1 /\ k + 1 \in Int
          /\ k \in Int /\ k < k + 1
      BY <1>1
    <3>2. SubSeq(ops, k + 1, k + 1) = Append(SubSeq(ops, k + 1, k), ops[k + 1])
      BY <1>1, <3>1, PrefixGrows
    <3>3. SubSeq(ops, k + 1, k) = <<>>
      BY <3>1, SubSeqEmpty
    <3> QED BY <1>2, <3>2, <3>3
  <2>2. k + 1 = 1 \/ ~Keep(k)
    BY <1>1, <1>2 DEF RunInv
  <2>3. /\ k + 1 \in 1 .. Len(ops) /\ k + 1 \in k + 1 .. Len(ops) /\ (k + 1) - 1 = k
        /\ k + 1 \in Nat /\ \A o \in k + 1 .. k + 1 : o = k + 1
    BY <1>1
  <2>4. Run(k + 1, k + 1, origLine, Append(cur, ops[k + 1]))
    BY <1>1, <2>1, <2>2, <2>3 DEF Run, Passed
  <2> QED BY <1>2, <2>3, <2>4
<1>3. CASE cur # <<>>
  <2>1. PICK s \in Nat : Run(s, k, curFrom, cur)
    BY <1>3 DEF RunInv
  <2>2. /\ s \in 1 .. Len(ops) /\ k \in s .. Len(ops) /\ cur = SubSeq(ops, s, k)
        /\ \A o \in s .. k : Keep(o)
        /\ s = 1 \/ ~Keep(s - 1)
        /\ curFrom = Len(OldLines(SubSeq(ops, 1, s - 1))) + 1
    BY <2>1 DEF Run
  <2>3. SubSeq(ops, s, k + 1) = Append(cur, ops[k + 1])
    <3>1. s \in 1 .. Len(ops) + 1 /\ k \in s - 1 .. Len(ops) - 1
      BY <1>1, <2>2
    <3> QED BY <1>1, <2>2, <3>1, PrefixGrows
  <2>4. k + 1 \in s .. Len(ops) /\ \A o \in s .. k + 1 : o \in s .. k \/ o = k + 1
    BY <1>1, <2>2
  <2>5. Run(s, k + 1, curFrom, Append(cur, ops[k + 1]))
    BY <2>2, <2>3, <2>4 DEF Run
  <2> QED BY <1>3, <2>5
<1> QED BY <1>2, <1>3

\* A hunk is complete where the next operation is not kept, and at the end.
LEMMA FlushedRuns ==
    ASSUME CutInv, RunInv, at = "hunks", k = Len(ops) \/ ~Keep(k + 1)
    PROVE  \A h \in DOMAIN Flushed : WholeRun(Flushed[h].fromLine, Flushed[h].ops)
<1>1. \A h \in DOMAIN result : WholeRun(result[h].fromLine, result[h].ops)
  BY DEF RunInv
<1>2. CASE cur = <<>>
  BY <1>1, <1>2 DEF Flushed
<1>3. CASE cur # <<>>
  <2> DEFINE new == [fromLine |-> curFrom, ops |-> cur]
  <2>1. Flushed = Append(result, new)
    BY <1>3 DEF Flushed
  <2>2. WholeRun(new.fromLine, new.ops)
    <3>1. PICK s \in Nat : Run(s, k, curFrom, cur)
      BY <1>3 DEF RunInv
    <3>2. k \in Nat
      BY DEF CutInv
    <3>3. WholeRun(curFrom, cur)
      BY <3>1, <3>2 DEF WholeRun
    <3> QED BY <3>3
  <2>3. result \in Seq(Hunk) /\ new \in Hunk
    BY DEF CutInv, Hunk
  <2> HIDE DEF new
  <2>4. /\ DOMAIN Flushed = 1 .. Len(result) + 1 /\ DOMAIN result = 1 .. Len(result)
        /\ Len(result) \in Nat /\ Flushed[Len(result) + 1] = new
        /\ \A h \in 1 .. Len(result) : Flushed[h] = result[h]
    BY <2>1, <2>3, AppendProperties
  <2> SUFFICES ASSUME NEW h \in DOMAIN Flushed
               PROVE  WholeRun(Flushed[h].fromLine, Flushed[h].ops)
    OBVIOUS
  <2>5. CASE h \in 1 .. Len(result)
    BY <1>1, <2>4, <2>5
  <2>6. CASE h = Len(result) + 1
    BY <2>2, <2>4, <2>6
  <2> QED BY <2>4, <2>5, <2>6
<1> QED BY <1>2, <1>3

LEMMA RunNext == WalkInv /\ CutInv /\ RunInv /\ [Next]_vars => RunInv'
<1> SUFFICES ASSUME WalkInv, CutInv, RunInv, [Next]_vars PROVE RunInv'
  OBVIOUS
<1>1. CASE Equal \/ Del \/ Add
  BY <1>1 DEF Equal, Del, Add, RunInv
<1>2. CASE WalkEnds
  BY <1>2 DEF WalkEnds, WalkInv, RunInv, cutting
<1>3. CASE KeepOp
  <2>1. /\ at = "hunks" /\ k < Len(ops) /\ k' = k + 1 /\ cur' = Append(cur, ops[k + 1])
        /\ curFrom' = IF cur = <<>> THEN origLine ELSE curFrom
        /\ Keep(k + 1) /\ ops' = ops /\ result' = result /\ at' = at
    BY <1>3 DEF KeepOp, walk
  <2>2. \E s \in Nat : Run(s, k', curFrom', cur')
    BY <2>1, RunGrows
  <2>3. cur' # <<>>
    <3>1. cur \in Seq(Op) /\ ops[k + 1] \in Op
      BY <2>1, NextOp DEF CutInv
    <3> QED BY <2>1, <3>1, AppendProperties
  <2>4. \A h \in DOMAIN result' : WholeRun(result'[h].fromLine, result'[h].ops)
    BY <2>1 DEF RunInv
  <2> QED BY <2>1, <2>2, <2>3, <2>4, SameOps DEF RunInv
<1>4. CASE DropOp
  <2>1. /\ at = "hunks" /\ k' = k + 1 /\ cur' = <<>> /\ result' = Flushed /\ ~Keep(k + 1)
        /\ ops' = ops /\ at' = at
    BY <1>4 DEF DropOp, walk
  <2>2. \A h \in DOMAIN result' : WholeRun(result'[h].fromLine, result'[h].ops)
    BY <2>1, FlushedRuns
  <2> QED BY <2>1, <2>2, SameOps DEF RunInv
<1>5. CASE HunksEnd
  <2>1. at = "hunks" /\ at' = "done" /\ k = Len(ops) /\ result' = Flushed /\ ops' = ops
    BY <1>5 DEF HunksEnd, walk
  <2>2. \A h \in DOMAIN result' : WholeRun(result'[h].fromLine, result'[h].ops)
    BY <2>1, FlushedRuns
  <2> QED BY <2>1, <2>2, SameOps DEF RunInv
<1>6. CASE UNCHANGED vars
  BY <1>6, SameOps DEF vars, RunInv
<1> QED BY <1>1, <1>2, <1>3, <1>4, <1>5, <1>6 DEF Next, Done

LEMMA RunsKept == Spec => []RunInv
<1>1. Init => RunInv
  BY DEF Init, RunInv
<1>2. WalkInv /\ CutInv /\ RunInv /\ [Next]_vars => RunInv'
  BY RunNext
<1> QED BY <1>1, <1>2, Walked, Cut, PTL DEF Spec

LEMMA MinMax ==
    ASSUME NEW m \in Nat, NEW S \in SUBSET (1 .. m), S # {}
    PROVE  /\ Min(S) \in S /\ \A x \in S : Min(S) <= x
           /\ Max(S) \in S /\ \A x \in S : Max(S) >= x
<1>1. \E x \in S : \A y \in S : x <= y
  <2>1. S \in SUBSET Nat
    OBVIOUS
  <2> QED BY <2>1, LeastNatural
<1>2. \E x \in S : \A y \in S : x >= y
  <2> DEFINE D == {m - y : y \in S}
  <2>1. D \in SUBSET Nat /\ D # {}
    <3>1. \A y \in S : m - y \in Nat
      OBVIOUS
    <3>2. PICK y \in S : TRUE
      OBVIOUS
    <3>3. m - y \in D
      OBVIOUS
    <3> QED BY <3>1, <3>3
  <2>2. PICK n \in D : \A d \in D : n <= d
    BY <2>1, LeastNatural
  <2>3. PICK x \in S : n = m - x
    BY <2>2
  <2>4. \A y \in S : n <= m - y
    BY <2>2
  <2>5. \A y \in S : x >= y
    BY <2>3, <2>4
  <2> QED BY <2>5
<1> QED BY <1>1, <1>2 DEF Min, Max

\* A kept operation of a whole run is near a change of the run.
LEMMA ChangeInRun ==
    ASSUME ops \in Seq(Op), NEW s \in 1 .. Len(ops), NEW e \in s .. Len(ops),
           s = 1 \/ ~Keep(s - 1), e = Len(ops) \/ ~Keep(e + 1),
           NEW o \in s .. e, Keep(o)
    PROVE  \E c \in s .. e : IsChange(c) /\ o \in c - Context .. c + Context
<1>0. Context \in Nat
  BY DiffAssumption
<1>1. PICK c \in 1 .. Len(ops) : IsChange(c) /\ o \in c - Context .. c + Context
  BY DEF Keep
<1>2. c >= s
  <2> SUFFICES ASSUME c < s PROVE FALSE
    BY <1>1
  <2>1. s - 1 \in c - Context .. c + Context /\ s # 1
    BY <1>0, <1>1
  <2>2. Keep(s - 1)
    BY <1>1, <2>1 DEF Keep
  <2> QED BY <2>1, <2>2
<1>3. c <= e
  <2> SUFFICES ASSUME c > e PROVE FALSE
    BY <1>1
  <2>1. e + 1 \in c - Context .. c + Context /\ e # Len(ops)
    BY <1>0, <1>1
  <2>2. Keep(e + 1)
    BY <1>1, <2>1 DEF Keep
  <2> QED BY <2>1, <2>2
<1> QED BY <1>1, <1>2, <1>3

\* What a run tells of the old file stands in it from the run's line on, and a
\* run up to the last operation tells it to its end.
LEMMA RunQuotes ==
    ASSUME WalkInv, at # "walk", NEW s, NEW e, NEW from, NEW os, Run(s, e, from, os)
    PROVE  /\ OldLines(os) = SubSeq(a, from, from + Len(OldLines(os)) - 1)
           /\ e = Len(ops) => from + Len(OldLines(os)) - 1 = Len(a)
<1>1. /\ s \in 1 .. Len(ops) /\ e \in s .. Len(ops) /\ os = SubSeq(ops, s, e)
      /\ from = Len(OldLines(SubSeq(ops, 1, s - 1))) + 1
      /\ ops \in Seq(Op) /\ a \in Seq(Line) /\ OldLines(ops) = SubSeq(a, 1, Len(a))
  BY DEF Run, WalkInv, Rebuilds
<1> DEFINE p == SubSeq(ops, 1, s - 1)
           q == SubSeq(ops, e + 1, Len(ops))
           x == OldLines(p)
           y == OldLines(os)
           z == OldLines(q)
<1>2. p \in Seq(Op) /\ os \in Seq(Op) /\ q \in Seq(Op) /\ p \o (os \o q) = ops
  <2>1. s - 1 \in 0 .. Len(ops) /\ (s - 1) + 1 = s /\ e \in s - 1 .. Len(ops)
        /\ s \in 1 .. Len(ops) + 1 /\ Len(ops) \in e .. Len(ops) /\ e \in 0 .. Len(ops)
    BY <1>1
  <2>2. p \in Seq(Op) /\ p \o SubSeq(ops, s, Len(ops)) = ops
    BY <1>1, <2>1, CutInTwo
  <2>3. q \in Seq(Op)
    BY <1>1, <2>1, CutInTwo
  <2>4. os \o q = SubSeq(ops, s, Len(ops))
    BY <1>1, <2>1, ConcatAdjacentSubSeq
  <2>5. os \in Seq(Op)
    <3>1. \A n \in s .. e : ops[n] \in Op
      BY <1>1
    <3> QED BY <1>1, <3>1, SubSeqProperties
  <2> QED BY <2>2, <2>3, <2>4, <2>5
<1> HIDE DEF p, q
<1>3. a = x \o (y \o z)
  <2>1. os \o q \in Seq(Op)
    BY <1>2, ConcatProperties
  <2> DEFINE u == os \o q
  <2>2. Lines(p \o u, Old) = Lines(p, Old) \o Lines(u, Old)
    <3>1. u \in Seq(Op)
      BY <2>1
    <3> HIDE DEF u
    <3> QED BY <1>2, <3>1, LinesConcat
  <2>3. Lines(os \o q, Old) = Lines(os, Old) \o Lines(q, Old)
    BY <1>2, LinesConcat
  <2>4. OldLines(ops) = a
    BY <1>1, SubSeqFull
  <2> QED BY <1>2, <2>2, <2>3, <2>4 DEF OldLines
<1>4. x \in Seq(Line) /\ y \in Seq(Line) /\ z \in Seq(Line)
  BY <1>2, LinesType DEF OldLines
<1>5. from = Len(x) + 1
  BY <1>1 DEF p
<1>6. e = Len(ops) => z = <<>>
  <2> SUFFICES ASSUME e = Len(ops) PROVE z = <<>>
    OBVIOUS
  <2>1. q = <<>>
    BY <1>1 DEF q
  <2> QED BY <2>1, LinesEmpty DEF OldLines
<1> HIDE DEF x, y, z
<1>7. y = SubSeq(a, Len(x) + 1, Len(x) + Len(y))
  <2>1. /\ Len(x) \in Nat /\ Len(y) \in Nat /\ y \o z \in Seq(Line)
        /\ Len(y \o z) = Len(y) + Len(z) /\ Len(z) \in Nat
        /\ \A n \in 1 .. Len(y) : (y \o z)[n] = y[n]
    BY <1>4, ConcatProperties
  <2>2. \A n \in Len(x) + 1 .. Len(x) + Len(y) : a[n] = y[n - Len(x)]
    <3> SUFFICES ASSUME NEW n \in Len(x) + 1 .. Len(x) + Len(y) PROVE a[n] = y[n - Len(x)]
      OBVIOUS
    <3>1. n \in 1 .. Len(x) + Len(y \o z) /\ ~(n <= Len(x)) /\ n - Len(x) \in 1 .. Len(y)
      BY <2>1
    <3>2. a[n] = (y \o z)[n - Len(x)]
      BY <1>3, <1>4, <2>1, <3>1, ConcatProperties
    <3> QED BY <2>1, <3>1, <3>2
  <2> DEFINE w == SubSeq(a, Len(x) + 1, Len(x) + Len(y))
  <2>3. \A n \in Len(x) + 1 .. Len(x) + Len(y) : a[n] \in Line
    <3>1. \A n \in Len(x) + 1 .. Len(x) + Len(y) : n - Len(x) \in 1 .. Len(y)
      BY <2>1
    <3>2. \A n \in 1 .. Len(y) : y[n] \in Line
      BY <1>4
    <3> QED BY <2>2, <3>1, <3>2
  <2>4. /\ w \in Seq(Line) /\ Len(w) = Len(y)
        /\ \A n \in 1 .. Len(y) : w[n] = a[Len(x) + n]
    <3>1. /\ Len(x) + 1 \in Int /\ Len(x) + Len(y) \in Int
          /\ (Len(x) + Len(y)) - (Len(x) + 1) + 1 = Len(y)
          /\ Len(x) + 1 <= Len(x) + Len(y) <=> Len(y) # 0
          /\ \A n \in 1 .. Len(y) : (Len(x) + 1) + n - 1 = Len(x) + n
      BY <2>1
    <3>2. /\ w \in Seq(Line)
          /\ Len(w) = IF Len(x) + 1 <= Len(x) + Len(y)
                      THEN (Len(x) + Len(y)) - (Len(x) + 1) + 1 ELSE 0
          /\ \A n \in 1 .. (Len(x) + Len(y)) - (Len(x) + 1) + 1 : w[n] = a[(Len(x) + 1) + n - 1]
      BY <2>3, <3>1, SubSeqProperties
    <3> HIDE DEF w
    <3> QED BY <2>1, <3>1, <3>2
  <2> HIDE DEF w
  <2>5. \A n \in 1 .. Len(y) : w[n] = y[n]
    <3>1. \A n \in 1 .. Len(y) : Len(x) + n \in Len(x) + 1 .. Len(x) + Len(y)
                                 /\ (Len(x) + n) - Len(x) = n
      BY <2>1
    <3> QED BY <2>2, <2>4, <3>1
  <2>6. w = y
    BY <1>4, <2>4, <2>5, SeqEqual
  <2> QED BY <2>6 DEF w
<1>8. from + Len(y) - 1 = Len(x) + Len(y)
  BY <1>4, <1>5
<1>9. e = Len(ops) => Len(a) = Len(x) + Len(y)
  <2> SUFFICES ASSUME e = Len(ops) PROVE Len(a) = Len(x) + Len(y)
    OBVIOUS
  <2>1. y \o z \in Seq(Line) /\ Len(y \o z) = Len(y) + Len(z) /\ Len(z) = 0
        /\ Len(y) \in Nat
    BY <1>4, <1>6, ConcatProperties
  <2>2. Len(x \o (y \o z)) = Len(x) + Len(y \o z)
    BY <1>4, <2>1, ConcatProperties
  <2> QED BY <1>3, <2>1, <2>2
<1> QED BY <1>5, <1>7, <1>8, <1>9 DEF y

LEMMA RunReads ==
    ASSUME WalkInv, at # "walk", NEW from, NEW os, WholeRun(from, os)
    PROVE  LET changes == {o \in DOMAIN os : os[o].kind # "equal"}
           IN  /\ OldLines(os) = SubSeq(a, from, from + Len(OldLines(os)) - 1)
               /\ changes # {}
               /\ Min(changes) - 1 = Context \/ (from = 1 /\ Min(changes) - 1 < Context)
               /\ \/ Len(os) - Max(changes) = Context
                  \/ /\ Len(os) - Max(changes) < Context
                     /\ from + Len(OldLines(os)) - 1 = Len(a)
<1> DEFINE changes == {o \in DOMAIN os : os[o].kind # "equal"}
<1>1. PICK s \in Nat, e \in Nat : Run(s, e, from, os) /\ (e = Len(ops) \/ ~Keep(e + 1))
  BY DEF WholeRun
<1>2. /\ s \in 1 .. Len(ops) /\ e \in s .. Len(ops) /\ os = SubSeq(ops, s, e)
      /\ \A o \in s .. e : Keep(o)
      /\ s = 1 \/ ~Keep(s - 1)
      /\ from = Len(OldLines(SubSeq(ops, 1, s - 1))) + 1
      /\ ops \in Seq(Op) /\ Context \in Nat
  BY <1>1, DiffAssumption DEF Run, WalkInv
<1>3. /\ os \in Seq(Op) /\ Len(os) = e - s + 1 /\ DOMAIN os = 1 .. e - s + 1
      /\ \A n \in 1 .. e - s + 1 : os[n] = ops[s + n - 1]
  <2>1. \A n \in s .. e : ops[n] \in Op
    BY <1>2
  <2>2. s \in Int /\ e \in Int /\ s <= e
    BY <1>2
  <2> QED BY <1>2, <2>1, <2>2, SubSeqProperties
<1>4. \A c \in s .. e : IsChange(c) <=> c - s + 1 \in changes
  <2> SUFFICES ASSUME NEW c \in s .. e PROVE IsChange(c) <=> c - s + 1 \in changes
    OBVIOUS
  <2>1. c - s + 1 \in 1 .. e - s + 1 /\ s + (c - s + 1) - 1 = c
    BY <1>2
  <2> QED BY <1>3, <2>1 DEF IsChange
<1>5. \A o \in s .. e : \E c \in s .. e : IsChange(c) /\ o \in c - Context .. c + Context
  BY <1>1, <1>2, ChangeInRun
<1>6. s \in s .. e /\ e \in s .. e
  BY <1>2
<1>7. PICK first \in s .. e : IsChange(first) /\ s \in first - Context .. first + Context
  BY <1>5, <1>6
<1>8. PICK last \in s .. e : IsChange(last) /\ e \in last - Context .. last + Context
  BY <1>5, <1>6
<1>9. first - s + 1 \in changes /\ last - s + 1 \in changes
  BY <1>4, <1>7, <1>8
<1>10. /\ Min(changes) \in changes /\ \A n \in changes : Min(changes) <= n
       /\ Max(changes) \in changes /\ \A n \in changes : Max(changes) >= n
  <2>1. changes \in SUBSET (1 .. e - s + 1)
    BY <1>3
  <2>2. e - s + 1 \in Nat
    BY <1>2
  <2>3. changes # {}
    <3> HIDE DEF changes
    <3> QED BY <1>9
  <2> HIDE DEF changes
  <2> QED BY <2>1, <2>2, <2>3, MinMax
<1>11. changes \subseteq 1 .. e - s + 1
  BY <1>3
<1> HIDE DEF changes
<1> DEFINE low == Min(changes)
           high == Max(changes)
<1>12. /\ low \in changes /\ low <= first - s + 1 /\ low \in 1 .. e - s + 1
       /\ high \in changes /\ high >= last - s + 1 /\ high \in 1 .. e - s + 1
  BY <1>9, <1>10, <1>11
<1> HIDE DEF low, high
<1>13. low - 1 <= Context
  BY <1>2, <1>7, <1>12
<1>14. /\ OldLines(os) = SubSeq(a, from, from + Len(OldLines(os)) - 1)
       /\ e = Len(ops) => from + Len(OldLines(os)) - 1 = Len(a)
  BY <1>1, RunQuotes
<1>15. \/ Len(os) - high = Context
       \/ Len(os) - high < Context /\ from + Len(OldLines(os)) - 1 = Len(a)
  <2>1. Len(os) - high <= Context
    BY <1>2, <1>3, <1>8, <1>12
  <2>0. Len(os) - high \in Int /\ Context \in Int
    BY <1>2, <1>3, <1>12
  <2>2. CASE e = Len(ops)
    <3>1. from + Len(OldLines(os)) - 1 = Len(a)
      BY <1>14, <2>2
    <3>2. Len(os) - high = Context \/ Len(os) - high < Context
      BY <2>0, <2>1
    <3> QED BY <3>1, <3>2
  <2>3. CASE e # Len(ops)
    <3>1. s + high - 1 \in s .. e /\ (s + high - 1) - s + 1 = high
      BY <1>2, <1>12
    <3>2. IsChange(s + high - 1) /\ s + high - 1 \in DOMAIN ops
      BY <1>2, <1>4, <1>12, <3>1
    <3>3. Len(os) - high >= Context
      <4> SUFFICES ASSUME Len(os) - high < Context PROVE FALSE
        BY <2>0
      <4>1. /\ e \in Int /\ s \in Int /\ high \in Int /\ Context \in Nat
            /\ Len(os) = e - s + 1 /\ high <= e - s + 1
        BY <1>2, <1>3, <1>12
      <4>2. e + 1 \in (s + high - 1) - Context .. (s + high - 1) + Context
        BY <4>1
      <4>3. Keep(e + 1)
        BY <3>2, <4>2 DEF Keep
      <4> QED BY <1>1, <2>3, <4>3
    <3> QED BY <2>0, <2>1, <3>3
  <2> QED BY <2>2, <2>3
<1>16. CASE s = 1
  <2>1. SubSeq(ops, 1, 0) = <<>>
    BY SubSeqEmpty
  <2>2. from = 1
    <3>1. SubSeq(ops, 1, s - 1) = <<>>
      BY <1>16, <2>1
    <3>2. OldLines(<<>>) = <<>>
      BY LinesEmpty DEF OldLines
    <3>3. from = Len(OldLines(SubSeq(ops, 1, s - 1))) + 1
      BY <1>2
    <3>4. from = Len(<<>>) + 1
      BY <3>1, <3>2, <3>3
    <3> QED BY <3>4
  <2>3. low - 1 = Context \/ (from = 1 /\ low - 1 < Context)
    BY <1>2, <1>12, <1>13, <2>2
  <2> QED BY <1>9, <1>14, <1>15, <2>3 DEF low, high, changes
<1>17. CASE s # 1
  <2>1. s + low - 1 \in s .. e /\ (s + low - 1) - s + 1 = low
    BY <1>2, <1>12
  <2>2. IsChange(s + low - 1)
    BY <1>4, <1>12, <2>1
  <2>3. low - 1 >= Context
    <3> SUFFICES ASSUME low - 1 < Context PROVE FALSE
      BY <1>2, <1>12
    <3>1. s - 1 \in (s + low - 1) - Context .. (s + low - 1) + Context
      BY <1>2, <1>12
    <3>2. s + low - 1 \in DOMAIN ops
      BY <1>2, <2>1
    <3>3. Keep(s - 1)
      BY <2>2, <3>1, <3>2 DEF Keep
    <3> QED BY <1>2, <1>17, <3>3
  <2>4. low - 1 = Context
    BY <1>2, <1>12, <1>13, <2>3
  <2> QED BY <1>9, <1>14, <1>15, <2>4 DEF low, high, changes
<1> QED BY <1>16, <1>17

\* hunks: every hunk stands where its line number says and shows exactly Context
\* lines before its first and after its last change, less only where the old file
\* begins or ends.
THEOREM HunksShowContext == Spec => []HunksInContext
<1>1. WalkInv /\ RunInv => HunksInContext
  <2> SUFFICES ASSUME WalkInv, RunInv, at = "done", NEW h \in DOMAIN result
               PROVE  LET os == result[h].ops
                          from == result[h].fromLine
                          changes == {o \in DOMAIN os : os[o].kind # "equal"}
                      IN  /\ OldLines(os) = SubSeq(a, from, from + Len(OldLines(os)) - 1)
                          /\ changes # {}
                          /\ Min(changes) - 1 = Context
                              \/ (from = 1 /\ Min(changes) - 1 < Context)
                          /\ \/ Len(os) - Max(changes) = Context
                             \/ /\ Len(os) - Max(changes) < Context
                                /\ from + Len(OldLines(os)) - 1 = Len(a)
    BY DEF HunksInContext
  <2>1. WholeRun(result[h].fromLine, result[h].ops)
    BY DEF RunInv
  <2> QED BY <2>1, RunReads
<1> QED BY <1>1, Walked, RunsKept, PTL
=============================================================================
