---------------------------- MODULE FixFileProofs ----------------------------
(***************************************************************************)
(* For any rules, sources and writes: Memo never hands out a stale         *)
(* analysis, no rule meets an empty token, and a file is reported as       *)
(* changed exactly if its text is, but for a change that its rule denies.  *)
(*                                                                         *)
(* MemoFresh is not inductive: an entry of a later version would become    *)
(* stale by the version catching up with it.  Versions says there is none. *)
(* RulesSeeNoEmpty needs EmptiesFlagged, that of the stream alone, and     *)
(* ReportedIffChanged needs TextInv, what is known at each stage of a file *)
(* to which nothing was applied yet; both need the types.                  *)
(***************************************************************************)
EXTENDS FixFile, SequenceTheorems, WellFoundedInduction, TLAPS

Versions ==
    /\ version \in Nat
    /\ memo = [k \in Key |-> memo[k]]
    /\ \A k \in Key : memo[k].version \in Int /\ memo[k].version <= version

MemoInv == Versions /\ MemoFresh

LEMMA MemoInvInit == ASSUME Init PROVE MemoInv
BY DEF Init, NewStream, Unbuilt, MemoInv, Versions, MemoFresh

(* A write leaves every entry behind the version.                          *)
LEMMA WriteKeepsMemoInv ==
    ASSUME MemoInv, version' = version + 1, UNCHANGED memo
    PROVE  MemoInv'
BY DEF MemoInv, Versions, MemoFresh

LEMMA AnyWriteKeepsMemoInv == ASSUME MemoInv, Write PROVE MemoInv'
<1>1. version' = version + 1 /\ UNCHANGED memo
  BY DEF Write, Set, RemoveAt, InsertSliceAt, ReplaceRange
<1>. QED  BY <1>1, WriteKeepsMemoInv

LEMMA ClearKeepsMemoInv == ASSUME MemoInv, ClearEmptyTokens PROVE MemoInv'
<1>1. CASE version' = version + 1 /\ UNCHANGED memo
  BY <1>1, WriteKeepsMemoInv
<1>2. CASE UNCHANGED <<toks, version, memo>>
  BY <1>2 DEF MemoInv, Versions, MemoFresh
<1>. QED  BY <1>1, <1>2 DEF ClearEmptyTokens

LEMMA MemoKeepsMemoInv ==
    ASSUME MemoInv, NEW k \in Key, Memo(k)
    PROVE  MemoInv'
<1>1. version' = version /\ toks' = toks
  BY DEF Memo
<1>2. memo' = [memo EXCEPT ![k] = [version |-> version, tokens |-> Analysed(k)]]
  BY DEF Memo
<1>3. Analysed(k) = toks
  BY DEF Analysed, MemoInv, MemoFresh
<1>4. /\ memo' = [j \in Key |-> memo'[j]]
      /\ memo'[k] = [version |-> version, tokens |-> toks]
      /\ \A j \in Key : j # k => memo'[j] = memo[j]
  BY <1>2, <1>3 DEF MemoInv, Versions
<1>. QED  BY <1>1, <1>4 DEF MemoInv, Versions, MemoFresh

LEMMA ConsultsKeepsMemoInv == ASSUME MemoInv, Consults PROVE MemoInv'
<1>1. CASE UNCHANGED stream
  BY <1>1 DEF stream, MemoInv, Versions, MemoFresh
<1>2. CASE Memo(Indexed)
  BY <1>2, MemoKeepsMemoInv, FixFileAssumption DEF FixFileAssumption
<1>. QED  BY <1>1, <1>2 DEF Consults

LEMMA MemoInvNext == ASSUME MemoInv, [Next]_vars PROVE MemoInv'
<1>1. CASE UNCHANGED stream
  BY <1>1 DEF stream, MemoInv, Versions, MemoFresh
<1>2. CASE ErrorsRuledOut \/ Errors \/ RuledOut \/ FixBegins
  BY <1>2, ConsultsKeepsMemoInv DEF ErrorsRuledOut, Errors, RuledOut, FixBegins
<1>3. CASE FixWrites
  BY <1>3, AnyWriteKeepsMemoInv DEF FixWrites
<1>4. CASE FixLooks
  BY <1>4, MemoKeepsMemoInv DEF FixLooks
<1>5. CASE Clears
  BY <1>5, ClearKeepsMemoInv DEF Clears
<1>6. CASE ErrorsSkipped \/ RuleSkipped \/ Finishes \/ WriteFails \/ Done
           \/ (\E reports \in BOOLEAN : FixEnds(reports))
  <2>1. UNCHANGED stream
    BY <1>6 DEF ErrorsSkipped, RuleSkipped, Finishes, WriteFails, Done, FixEnds,
                stream, vars
  <2>. QED  BY <2>1, <1>1
<1>7. CASE UNCHANGED vars
  BY <1>7, <1>1 DEF vars, stream
<1>. QED  BY <1>2, <1>3, <1>4, <1>5, <1>6, <1>7 DEF Next

LEMMA MemoInvAlways == Spec => []MemoInv
<1>1. Init => MemoInv
  BY MemoInvInit
<1>2. MemoInv /\ [Next]_vars => MemoInv'
  BY MemoInvNext
<1>. QED  BY <1>1, <1>2, PTL DEF Spec

\* In every run, over any rules, an analysis Memo would hand out without
\* building it is one of the present tokens (Stream.Memo, Stream.Version).
THEOREM MemoIsFresh == Spec => []MemoFresh
<1>1. MemoInv => MemoFresh
  BY DEF MemoInv
<1>. QED  BY <1>1, MemoInvAlways, PTL

\* In every run a rule is ruled out by isCandidate only on tokens that do not
\* hold its word: what the Index said before a write is never used after it.
THEOREM OnlyRuledOutRightly == Spec => RuledOutRightly
<1>1. ASSUME MemoInv, [Next]_vars
      PROVE  [(ErrorsRuledOut \/ RuledOut) => Word[rule] \notin CharsOf(toks)]_vars
  <2>1. ASSUME MayRuleOut PROVE Word[rule] \notin CharsOf(toks)
    <3>1. Analysed(Indexed) = toks
      BY <1>1, FixFileAssumption DEF FixFileAssumption, Analysed, MemoInv, MemoFresh
    <3>. QED  BY <2>1, <3>1 DEF MayRuleOut
  <2>. QED  BY <2>1 DEF ErrorsRuledOut, RuledOut
<1>2. MemoInv /\ [Next]_vars
        => [(ErrorsRuledOut \/ RuledOut) => Word[rule] \notin CharsOf(toks)]_vars
  BY <1>1
<1>. QED  BY <1>2, MemoInvAlways, PTL DEF Spec, RuledOutRightly
-----------------------------------------------------------------------------
(* Induction and recursion over 0 .. m, from the order of the naturals.    *)

LEMMA LeastNatural ==
    ASSUME NEW S \in SUBSET Nat, S # {}
    PROVE  \E n \in S : \A m \in S : n <= m
<1>1. \E n \in S : \A m \in S : ~ (<<m, n>> \in OpToRel(<, Nat))
  BY NatLessThanWellFounded, WFMin
<1>2. PICK n \in S : \A m \in S : ~ (<<m, n>> \in OpToRel(<, Nat))
  BY <1>1
<1>3. \A m \in S : ~ (m < n)
  BY <1>2 DEF OpToRel
<1> QED BY <1>3

LEMMA Induction ==
    ASSUME NEW S, NEW m \in Nat, 0 \in S, \A n \in 0 .. m - 1 : n \in S => n + 1 \in S
    PROVE  0 .. m \subseteq S
<1> SUFFICES ASSUME (0 .. m) \ S # {} PROVE FALSE
  OBVIOUS
<1>0. (0 .. m) \ S \in SUBSET Nat
  OBVIOUS
<1>1. PICK n \in (0 .. m) \ S : \A k \in (0 .. m) \ S : n <= k
  BY <1>0, LeastNatural
<1>2. n - 1 \in 0 .. m - 1 /\ n - 1 \in S /\ (n - 1) + 1 = n
  BY <1>1
<1> QED BY <1>1, <1>2

Follows(f, X, m, base, step) ==
    /\ f \in [0 .. m -> X]
    /\ f[0] = base /\ \A n \in 1 .. m : f[n] = step[n][f[n - 1]]

LEMMA Recursion ==
    ASSUME NEW X, NEW m \in Nat, NEW base \in X, NEW step \in [1 .. m -> [X -> X]]
    PROVE  \E f : Follows(f, X, m, base, step)
<1> DEFINE Upto(n) == \E f \in [0 .. n -> X] :
               f = [i \in 0 .. n |-> IF i = 0 THEN base ELSE step[i][f[i - 1]]]
           S == {n \in 0 .. m : Upto(n)}
<1>1. 0 \in S
  <2>1. [i \in 0 .. 0 |-> base] \in [0 .. 0 -> X]
    OBVIOUS
  <2>2. [i \in 0 .. 0 |-> base] = [i \in 0 .. 0 |-> IF i = 0 THEN base ELSE step[i][[k \in 0 .. 0 |-> base][i - 1]]]
    OBVIOUS
  <2>3. Upto(0)
    BY <2>1, <2>2
  <2> QED BY <2>3
<1>2. ASSUME NEW n \in 0 .. m - 1, n \in S PROVE n + 1 \in S
  <2>1. PICK f \in [0 .. n -> X] :
               f = [i \in 0 .. n |-> IF i = 0 THEN base ELSE step[i][f[i - 1]]]
    BY <1>2
  <2> DEFINE g == [i \in 0 .. n + 1 |-> IF i <= n THEN f[i] ELSE step[n + 1][f[n]]]
  <2>2. step[n + 1][f[n]] \in X
    OBVIOUS
  <2>3. g \in [0 .. n + 1 -> X]
    BY <2>2
  <2>4. ASSUME NEW i \in 0 .. n + 1 PROVE g[i] = IF i = 0 THEN base ELSE step[i][g[i - 1]]
    <3>1. CASE i = 0
      <4>1. f[0] = base
        BY <2>1
      <4> QED BY <3>1, <4>1
    <3>2. CASE i # 0 /\ i <= n
      <4>1. f[i] = step[i][f[i - 1]]
        BY <2>1, <3>2
      <4>2. g[i] = f[i] /\ g[i - 1] = f[i - 1]
        BY <3>2
      <4> QED BY <3>2, <4>1, <4>2
    <3>3. CASE i = n + 1
      BY <3>3
    <3> QED BY <3>1, <3>2, <3>3
  <2>5. g = [i \in 0 .. n + 1 |-> IF i = 0 THEN base ELSE step[i][g[i - 1]]]
    <3> HIDE DEF g
    <3> QED BY <2>3, <2>4
  <2>6. Upto(n + 1)
    <3> HIDE DEF g
    <3> QED BY <2>3, <2>5
  <2>7. n + 1 \in 0 .. m
    OBVIOUS
  <2> HIDE DEF Upto
  <2> QED BY <2>6, <2>7
<1>3. 0 .. m \subseteq S
  <2> HIDE DEF S
  <2> QED BY <1>1, <1>2, Induction
<1>4. Upto(m)
  BY <1>3
<1>5. PICK f \in [0 .. m -> X] :
               f = [i \in 0 .. m |-> IF i = 0 THEN base ELSE step[i][f[i - 1]]]
  BY <1>4
<1> QED BY <1>5 DEF Follows
-----------------------------------------------------------------------------
(* The scan of ClearEmptyTokens and the text of the stream.                *)

LEMMA Scan ==
    ASSUME NEW V, NEW ts \in Seq(V)
    PROVE  \E kept \in [0 .. Len(ts) -> Seq(V \ {Empty})] :
               /\ kept[0] = <<>>
               /\ \A n \in 1 .. Len(ts) :
                      kept[n] = IF ts[n] = Empty THEN kept[n - 1]
                                ELSE Append(kept[n - 1], ts[n])
               /\ WithoutEmpty(ts) = kept[Len(ts)]
<1> DEFINE X == Seq(V \ {Empty})
           m == Len(ts)
           step == [n \in 1 .. m |-> [x \in X |->
                       IF ts[n] = Empty THEN x ELSE Append(x, ts[n])]]
           Is(f) == f = [n \in 0 .. m |->
                            IF n = 0 THEN <<>>
                            ELSE IF ts[n] = Empty THEN f[n - 1] ELSE Append(f[n - 1], ts[n])]
           g == CHOOSE f : Is(f)
<1>1. m \in Nat /\ <<>> \in X
  OBVIOUS
<1>2. ASSUME NEW n \in 1 .. m, NEW x \in X
      PROVE  /\ step[n][x] = IF ts[n] = Empty THEN x ELSE Append(x, ts[n])
             /\ step[n][x] \in X
  <2>1. ts[n] \in V
    OBVIOUS
  <2>2. CASE ts[n] = Empty
    BY <2>2
  <2>3. CASE ts[n] # Empty
    <3>1. Append(x, ts[n]) \in X
      BY <2>1, <2>3
    <3> QED BY <2>3, <3>1
  <2> QED BY <2>2, <2>3
<1>3. step \in [1 .. m -> [X -> X]]
  <2>1. ASSUME NEW n \in 1 .. m PROVE step[n] \in [X -> X]
    <3>1. step[n] = [x \in X |-> IF ts[n] = Empty THEN x ELSE Append(x, ts[n])]
      OBVIOUS
    <3>2. \A x \in X : (IF ts[n] = Empty THEN x ELSE Append(x, ts[n])) \in X
      BY <1>2
    <3> HIDE DEF X, step
    <3> QED BY <3>1, <3>2
  <2> QED BY <2>1
<1>4. PICK f : Follows(f, X, m, <<>>, step)
  <2> HIDE DEF X, m, step
  <2> QED BY <1>1, <1>3, Recursion
<1>5. ASSUME NEW n \in 1 .. m
      PROVE  f[n] = IF ts[n] = Empty THEN f[n - 1] ELSE Append(f[n - 1], ts[n])
  <2>1. n - 1 \in 0 .. m /\ n \in 0 .. m /\ n # 0
    OBVIOUS
  <2>2. f[n] = step[n][f[n - 1]] /\ f[n - 1] \in X
    <3> HIDE DEF X, m, step
    <3> QED BY <1>4, <2>1 DEF Follows
  <2> HIDE DEF X, m, step
  <2> QED BY <1>2, <2>2
<1>6. Is(f)
  <2>1. f[0] = <<>> /\ 0 \in 0 .. m
    BY <1>1, <1>4 DEF Follows
  <2>2. f = [n \in 0 .. m |-> f[n]]
    BY <1>4 DEF Follows
  <2>3. ASSUME NEW n \in 0 .. m
        PROVE  f[n] = IF n = 0 THEN <<>>
                      ELSE IF ts[n] = Empty THEN f[n - 1] ELSE Append(f[n - 1], ts[n])
    <3>1. n = 0 \/ n \in 1 .. m
      OBVIOUS
    <3> HIDE DEF m
    <3> QED BY <3>1, <2>1, <1>5
  <2> HIDE DEF X, m, step
  <2> QED BY <2>2, <2>3
<1>7. WithoutEmpty(ts) = g[m]
  BY DEF WithoutEmpty
<1>8. Is(g)
  BY <1>6
<1> HIDE DEF g
<1>9. ASSUME NEW n \in 1 .. m
      PROVE  g[n] = IF ts[n] = Empty THEN g[n - 1] ELSE Append(g[n - 1], ts[n])
  <2>1. n \in 0 .. m /\ n # 0
    OBVIOUS
  <2> HIDE DEF m, X
  <2> QED BY <1>8, <2>1
<1>10. g[0] = <<>> /\ g = [n \in 0 .. m |-> g[n]]
  <2> HIDE DEF m
  <2> QED BY <1>1, <1>8
<1> DEFINE S == {n \in 0 .. m : g[n] \in X}
<1>11. 0 .. m \subseteq S
  <2>1. 0 \in S
    <3> HIDE DEF X, m
    <3> QED BY <1>1, <1>10
  <2>2. ASSUME NEW n \in 0 .. m - 1, n \in S PROVE n + 1 \in S
    <3>1. n + 1 \in 1 .. m /\ n + 1 \in 0 .. m /\ (n + 1) - 1 = n
      OBVIOUS
    <3>2. g[n + 1] = IF ts[n + 1] = Empty THEN g[n] ELSE Append(g[n], ts[n + 1])
      BY <1>9, <3>1
    <3>3. g[n] \in X
      BY <2>2
    <3>4. g[n + 1] \in X
      <4> HIDE DEF X, m, step
      <4> QED BY <1>2, <3>1, <3>2, <3>3
    <3> QED BY <3>1, <3>4
  <2> HIDE DEF S, m, X
  <2> QED BY <1>1, <2>1, <2>2, Induction
<1>12. g \in [0 .. m -> X]
  <2>1. \A n \in 0 .. m : g[n] \in X
    BY <1>11
  <2> HIDE DEF X, m
  <2> QED BY <1>10, <2>1
<1> QED BY <1>7, <1>9, <1>10, <1>12
-----------------------------------------------------------------------------
(* The text of a stream is built from its tokens one after the other.      *)

LEMMA FlattenScan ==
    ASSUME NEW C, NEW ts \in Seq(Seq(C))
    PROVE  \E text \in [0 .. Len(ts) -> Seq(C)] :
               /\ text[0] = <<>>
               /\ \A n \in 1 .. Len(ts) : text[n] = text[n - 1] \o ts[n]
               /\ Seqs!FlattenSeq(ts) = text[Len(ts)]
<1> DEFINE X == Seq(C)
           m == Len(ts)
           step == [n \in 1 .. m |-> [x \in X |-> x \o ts[n]]]
           Is(f) == f = [n \in 1 .. m |-> IF n = 1 THEN ts[n] ELSE f[n - 1] \o ts[n]]
           g == CHOOSE f : Is(f)
           text == [n \in 0 .. m |-> IF n = 0 THEN <<>> ELSE g[n]]
<1>1. /\ m \in Nat /\ <<>> \in X
      /\ \A n \in 1 .. m : ts[n] \in X
      /\ \A x, y \in X : x \o y \in X
      /\ \A x \in X : <<>> \o x = x
  BY ConcatProperties, ConcatEmptySeq
<1> HIDE DEF X
<1>2. step \in [1 .. m -> [X -> X]]
  BY <1>1
<1>3. PICK f : Follows(f, X, m, <<>>, step)
  <2> HIDE DEF m, step
  <2> QED BY <1>1, <1>2, Recursion
<1>4. ASSUME NEW n \in 1 .. m PROVE f[n] = f[n - 1] \o ts[n] /\ f[n] \in X
  <2>1. n - 1 \in 0 .. m /\ n \in 0 .. m
    OBVIOUS
  <2>2. f[n] = step[n][f[n - 1]] /\ f[n - 1] \in X
    <3> HIDE DEF m, step
    <3> QED BY <1>3, <2>1 DEF Follows
  <2> QED BY <1>1, <2>2
<1>5. f[0] = <<>>
  BY <1>3 DEF Follows
<1> DEFINE h == [n \in 1 .. m |-> f[n]]
<1>6. Is(h)
  <2>1. ASSUME NEW n \in 1 .. m
        PROVE  h[n] = IF n = 1 THEN ts[n] ELSE h[n - 1] \o ts[n]
    <3>1. CASE n = 1
      <4>1. f[n] = f[n - 1] \o ts[n] /\ ts[n] \in X /\ h[n] = f[n]
        BY <1>1, <1>4
      <4>2. f[n - 1] = <<>>
        BY <3>1, <1>5
      <4> HIDE DEF h, m
      <4> QED BY <3>1, <4>1, <4>2, <1>1
    <3>2. CASE n # 1
      <4>1. n - 1 \in 1 .. m
        BY <3>2
      <4> QED BY <3>2, <4>1, <1>4
    <3> QED BY <3>1, <3>2
  <2>2. h = [n \in 1 .. m |-> h[n]]
    OBVIOUS
  <2> HIDE DEF h, m
  <2> QED BY <2>1, <2>2
<1>7. Is(g)
  <2> HIDE DEF h
  <2> QED BY <1>6
<1>8. CASE m = 0
  <2>1. Seqs!FlattenSeq(ts) = <<>>
    BY <1>8 DEF Seqs!FlattenSeq
  <2> HIDE DEF Is, g
  <2>2. text \in [0 .. m -> X] /\ text[0] = <<>> /\ text[m] = <<>>
    BY <1>1, <1>8
  <2>3. \A n \in 1 .. m : text[n] = text[n - 1] \o ts[n]
    BY <1>8
  <2> HIDE DEF text
  <2> QED BY <2>1, <2>2, <2>3 DEF X
<1>9. CASE m # 0
  <2>1. Seqs!FlattenSeq(ts) = g[m]
    BY <1>9 DEF Seqs!FlattenSeq
  <2> HIDE DEF g
  <2>2. ASSUME NEW n \in 1 .. m PROVE g[n] = IF n = 1 THEN ts[n] ELSE g[n - 1] \o ts[n]
    <3> HIDE DEF m
    <3> QED BY <1>7
  <2> DEFINE S == {n \in 0 .. m : n = 0 \/ g[n] \in X}
  <2>3. 0 .. m \subseteq S
    <3>1. 0 \in S
      BY <1>1
    <3>2. ASSUME NEW n \in 0 .. m - 1, n \in S PROVE n + 1 \in S
      <4>1. n + 1 \in 1 .. m /\ n + 1 \in 0 .. m /\ (n + 1) - 1 = n
        OBVIOUS
      <4>2. g[n + 1] = IF n + 1 = 1 THEN ts[n + 1] ELSE g[n] \o ts[n + 1]
        BY <2>2, <4>1
      <4>3. ts[n + 1] \in X /\ (n = 0 \/ g[n] \in X)
        BY <1>1, <3>2, <4>1
      <4>4. g[n + 1] \in X
        <5> HIDE DEF m
        <5> QED BY <4>2, <4>3, <1>1
      <4> QED BY <4>1, <4>4
    <3> HIDE DEF S, m
    <3> QED BY <1>1, <3>1, <3>2, Induction
  <2>4. ASSUME NEW n \in 0 .. m PROVE text[n] \in X
    BY <1>1, <2>3
  <2>5. ASSUME NEW n \in 1 .. m PROVE text[n] = text[n - 1] \o ts[n]
    <3>1. n \in 0 .. m /\ n - 1 \in 0 .. m /\ n # 0
      OBVIOUS
    <3>2. CASE n = 1
      BY <3>1, <3>2, <1>1, <2>2
    <3>3. CASE n # 1
      <4>1. n - 1 # 0 /\ text[n - 1] = g[n - 1] /\ text[n] = g[n]
        BY <3>1, <3>3
      <4> HIDE DEF text, m
      <4> QED BY <3>3, <4>1, <2>2
    <3> QED BY <3>2, <3>3
  <2>6. text[0] = <<>> /\ text[m] = g[m]
    BY <1>1, <1>9
  <2>7. text \in [0 .. m -> X]
    <3>1. text = [n \in 0 .. m |-> text[n]]
      OBVIOUS
    <3> HIDE DEF text, m
    <3> QED BY <2>4, <3>1
  <2> HIDE DEF text
  <2> QED BY <2>1, <2>5, <2>6, <2>7 DEF X
<1> QED BY <1>8, <1>9

LEMMA FlattenAppend ==
    ASSUME NEW C, NEW ts \in Seq(Seq(C)), NEW t \in Seq(C)
    PROVE  Seqs!FlattenSeq(Append(ts, t)) = Seqs!FlattenSeq(ts) \o t
<1> DEFINE m == Len(ts)
           us == Append(ts, t)
<1>1. /\ m \in Nat /\ us \in Seq(Seq(C)) /\ Len(us) = m + 1
      /\ us[m + 1] = t /\ \A n \in 1 .. m : us[n] = ts[n]
  BY AppendProperties
<1> HIDE DEF us
<1>2. PICK text \in [0 .. m -> Seq(C)] :
               /\ text[0] = <<>>
               /\ \A n \in 1 .. m : text[n] = text[n - 1] \o ts[n]
               /\ Seqs!FlattenSeq(ts) = text[m]
  BY FlattenScan
<1>3. PICK more \in [0 .. Len(us) -> Seq(C)] :
               /\ more[0] = <<>>
               /\ \A n \in 1 .. Len(us) : more[n] = more[n - 1] \o us[n]
               /\ Seqs!FlattenSeq(us) = more[Len(us)]
  BY <1>1, FlattenScan
<1> DEFINE S == {n \in 0 .. m : more[n] = text[n]}
<1>4. 0 .. m \subseteq S
  <2>1. 0 \in S
    BY <1>2, <1>3
  <2>2. ASSUME NEW n \in 0 .. m - 1, n \in S PROVE n + 1 \in S
    <3>1. n + 1 \in 0 .. m /\ n + 1 \in 1 .. m /\ (n + 1) - 1 = n /\ more[n] = text[n]
      BY <2>2
    <3>2. more[n + 1] = more[n] \o us[n + 1]
      <4>1. n + 1 \in 1 .. Len(us)
        BY <1>1
      <4> HIDE DEF m
      <4> QED BY <1>3, <3>1, <4>1
    <3>3. text[n + 1] = text[n] \o ts[n + 1]
      <4> HIDE DEF m
      <4> QED BY <1>2, <3>1
    <3>4. us[n + 1] = ts[n + 1]
      BY <1>1, <3>1
    <3>5. more[n + 1] = text[n + 1]
      BY <3>1, <3>2, <3>3, <3>4
    <3> QED BY <3>1, <3>5
  <2> HIDE DEF S, m
  <2> QED BY <1>1, <2>1, <2>2, Induction
<1>5. more[m] = text[m]
  <2>1. m \in 0 .. m
    BY <1>1
  <2>2. m \in S
    <3> HIDE DEF S, m
    <3> QED BY <2>1, <1>4
  <2> QED BY <2>2
<1>6. more[m + 1] = more[m] \o us[m + 1]
  <2>1. m + 1 \in 1 .. Len(us) /\ (m + 1) - 1 = m
    BY <1>1
  <2> HIDE DEF m
  <2> QED BY <1>3, <2>1
<1> QED BY <1>1, <1>2, <1>3, <1>5, <1>6 DEF us

(* ClearEmptyTokens leaves the text and no empty token.                    *)
LEMMA ScanKeepsText ==
    ASSUME NEW C, NEW ts \in Seq(Seq(C))
    PROVE  /\ WithoutEmpty(ts) \in Seq(Seq(C) \ {Empty})
           /\ Seqs!FlattenSeq(WithoutEmpty(ts)) = Seqs!FlattenSeq(ts)
<1> DEFINE m == Len(ts)
           W == Seq(Seq(C) \ {Empty})
<1>1. /\ m \in Nat
      /\ \A n \in 1 .. m : ts[n] \in Seq(C)
      /\ W \subseteq Seq(Seq(C))
  BY SeqMonotonic
<1>2. PICK kept \in [0 .. m -> W] :
               /\ kept[0] = <<>>
               /\ \A n \in 1 .. m :
                      kept[n] = IF ts[n] = Empty THEN kept[n - 1]
                                ELSE Append(kept[n - 1], ts[n])
               /\ WithoutEmpty(ts) = kept[m]
  BY Scan
<1>3. PICK text \in [0 .. m -> Seq(C)] :
               /\ text[0] = <<>>
               /\ \A n \in 1 .. m : text[n] = text[n - 1] \o ts[n]
               /\ Seqs!FlattenSeq(ts) = text[m]
  BY FlattenScan
<1> DEFINE S == {n \in 0 .. m : Seqs!FlattenSeq(kept[n]) = text[n]}
<1>4. 0 .. m \subseteq S
  <2>1. 0 \in S
    <3>1. Seqs!FlattenSeq(<<>>) = <<>>
      BY DEF Seqs!FlattenSeq
    <3> QED BY <1>1, <1>2, <1>3, <3>1
  <2>2. ASSUME NEW n \in 0 .. m - 1, n \in S PROVE n + 1 \in S
    <3>1. n + 1 \in 1 .. m /\ n + 1 \in 0 .. m /\ (n + 1) - 1 = n /\ n \in 0 .. m
      OBVIOUS
    <3>2. kept[n] \in Seq(Seq(C)) /\ text[n] \in Seq(C) /\ ts[n + 1] \in Seq(C)
      <4> HIDE DEF m, W
      <4> QED BY <1>1, <1>2, <1>3, <3>1
    <3>3. text[n + 1] = text[n] \o ts[n + 1]
      <4> HIDE DEF m, W
      <4> QED BY <1>3, <3>1
    <3>4. Seqs!FlattenSeq(kept[n]) = text[n]
      BY <2>2
    <3>5. CASE ts[n + 1] = Empty
      <4>1. kept[n + 1] = kept[n]
        <5> HIDE DEF m, W
        <5> QED BY <1>2, <3>1, <3>5
      <4>2. text[n + 1] = text[n]
        BY <3>2, <3>3, <3>5, ConcatEmptySeq DEF Empty
      <4> QED BY <3>1, <3>4, <4>1, <4>2
    <3>6. CASE ts[n + 1] # Empty
      <4>1. kept[n + 1] = Append(kept[n], ts[n + 1])
        <5> HIDE DEF m, W
        <5> QED BY <1>2, <3>1, <3>6
      <4>2. Seqs!FlattenSeq(kept[n + 1]) = Seqs!FlattenSeq(kept[n]) \o ts[n + 1]
        BY <3>2, <4>1, FlattenAppend
      <4> QED BY <3>1, <3>3, <3>4, <4>2
    <3> QED BY <3>5, <3>6
  <2> HIDE DEF S, m
  <2> QED BY <1>1, <2>1, <2>2, Induction
<1>5. m \in 0 .. m
  BY <1>1
<1>6. Seqs!FlattenSeq(kept[m]) = text[m] /\ kept[m] \in W
  BY <1>4, <1>5
<1> QED BY <1>2, <1>3, <1>6
-----------------------------------------------------------------------------
(* Types.  A rule clears the stream once, so rule bounds the version.      *)

VersionBound ==
    /\ at = "errors" => version = 0
    /\ at \in {"rules", "fixing", "clearing"} => version <= MaxVersion + rule - 1

TypeInv == TypeOK /\ VersionBound

LEMMA SpliceType ==
    ASSUME toks \in Seq(Value), NEW from \in 1 .. Len(toks) + 1,
           NEW to \in from - 1 .. Len(toks), NEW ts \in Seq(Value),
           Splice(from, to, ts)
    PROVE  /\ toks' \in Seq(Value)
           /\ HasEmpty(toks') => HasEmpty(toks) \/ HasEmpty(ts)
<1> DEFINE l == SubSeq(toks, 1, from - 1)
           r == SubSeq(toks, to + 1, Len(toks))
<1>1. /\ l \in Seq(Value) /\ Len(l) = from - 1
      /\ \A i \in 1 .. Len(l) : l[i] = toks[i]
  <2>1. \A i \in 1 .. from - 1 : toks[i] \in Value
    OBVIOUS
  <2>2. /\ l \in Seq(Value)
        /\ Len(l) = IF 1 <= from - 1 THEN (from - 1) - 1 + 1 ELSE 0
        /\ \A i \in 1 .. (from - 1) - 1 + 1 : l[i] = toks[1 + i - 1]
    BY <2>1, SubSeqProperties
  <2> HIDE DEF l
  <2> QED BY <2>2
<1>2. /\ r \in Seq(Value)
      /\ \A i \in 1 .. Len(r) : i + to \in 1 .. Len(toks) /\ r[i] = toks[i + to]
  <2>1. \A i \in to + 1 .. Len(toks) : toks[i] \in Value
    OBVIOUS
  <2>2. /\ r \in Seq(Value)
        /\ Len(r) = IF to + 1 <= Len(toks) THEN Len(toks) - (to + 1) + 1 ELSE 0
        /\ \A i \in 1 .. Len(toks) - (to + 1) + 1 : r[i] = toks[(to + 1) + i - 1]
    BY <2>1, SubSeqProperties
  <2> HIDE DEF r
  <2> QED BY <2>2
<1>3. toks' = (l \o ts) \o r
  BY DEF Splice
<1> HIDE DEF l, r
<1>4. l \o ts \in Seq(Value) /\ toks' \in Seq(Value)
  BY <1>1, <1>2, <1>3, ConcatProperties
<1>5. ASSUME NEW i \in 1 .. Len(toks'), toks'[i] = Empty
      PROVE  HasEmpty(toks) \/ HasEmpty(ts)
  <2>1. CASE i <= Len(l)
    <3>1. toks'[i] = toks[i] /\ i \in 1 .. Len(toks)
      BY <1>1, <1>2, <1>3, <1>4, <2>1, ConcatProperties
    <3> QED BY <1>5, <3>1 DEF HasEmpty
  <2>2. CASE Len(l) < i /\ i <= Len(l) + Len(ts)
    <3>1. toks'[i] = ts[i - Len(l)] /\ i - Len(l) \in 1 .. Len(ts)
      BY <1>1, <1>2, <1>3, <1>4, <2>2, ConcatProperties
    <3> QED BY <1>5, <3>1 DEF HasEmpty
  <2>3. CASE Len(l) + Len(ts) < i
    <3> DEFINE p == i - Len(l \o ts)
    <3>1. toks'[i] = r[p] /\ p \in 1 .. Len(r)
      BY <1>1, <1>2, <1>3, <1>4, <2>3, ConcatProperties
    <3> HIDE DEF p
    <3>2. toks'[i] = toks[p + to] /\ p + to \in 1 .. Len(toks)
      BY <1>2, <3>1
    <3> QED BY <1>5, <3>2 DEF HasEmpty
  <2> QED BY <1>1, <2>1, <2>2, <2>3
<1> QED BY <1>4, <1>5 DEF HasEmpty

LEMMA WriteType ==
    ASSUME toks \in Seq(Value), mayHaveEmpty \in BOOLEAN, version \in Nat, Write
    PROVE  /\ toks' \in Seq(Value) /\ mayHaveEmpty' \in BOOLEAN
           /\ version' = version + 1 /\ version < MaxVersion /\ UNCHANGED memo
           /\ EmptiesFlagged => EmptiesFlagged'
<1>1. version < MaxVersion
  BY DEF Write
<1>2. ASSUME NEW i \in 1 .. Len(toks), NEW t \in Value, Set(i, t)
      PROVE  /\ toks' \in Seq(Value) /\ mayHaveEmpty' \in BOOLEAN
             /\ version' = version + 1 /\ UNCHANGED memo
             /\ EmptiesFlagged => EmptiesFlagged'
  <2>1. /\ toks' \in Seq(Value) /\ Len(toks') = Len(toks)
        /\ \A n \in 1 .. Len(toks) : toks'[n] = IF n = i THEN t ELSE toks[n]
    BY <1>2, ExceptSeq DEF Set
  <2>2. HasEmpty(toks') => HasEmpty(toks) \/ HasEmpty(<<t>>)
    <3>1. Len(<<t>>) = 1 /\ <<t>>[1] = t
      OBVIOUS
    <3> QED BY <2>1, <3>1 DEF HasEmpty
  <2> QED BY <1>2, <2>1, <2>2 DEF Set, NoteEmpty, EmptiesFlagged
<1>3. ASSUME NEW i \in 1 .. Len(toks), RemoveAt(i)
      PROVE  /\ toks' \in Seq(Value) /\ mayHaveEmpty' \in BOOLEAN
             /\ version' = version + 1 /\ UNCHANGED memo
             /\ EmptiesFlagged => EmptiesFlagged'
  <2>1. i \in 1 .. Len(toks) + 1 /\ i \in i - 1 .. Len(toks) /\ <<>> \in Seq(Value)
    OBVIOUS
  <2>2. Splice(i, i, <<>>)
    BY <1>3 DEF RemoveAt
  <2>3. ~HasEmpty(<<>>)
    BY DEF HasEmpty
  <2>4. toks' \in Seq(Value) /\ (HasEmpty(toks') => HasEmpty(toks))
    BY <2>1, <2>2, <2>3, SpliceType
  <2> QED BY <1>3, <2>4 DEF RemoveAt, EmptiesFlagged
<1>4. ASSUME NEW ts \in Slice, NEW i \in 1 .. Len(toks) + 1, InsertSliceAt(i, ts)
      PROVE  /\ toks' \in Seq(Value) /\ mayHaveEmpty' \in BOOLEAN
             /\ version' = version + 1 /\ UNCHANGED memo
             /\ EmptiesFlagged => EmptiesFlagged'
  <2>1. i - 1 \in i - 1 .. Len(toks) /\ ts \in Seq(Value)
    BY StreamAssumption DEF StreamAssumption
  <2>2. toks' \in Seq(Value) /\ (HasEmpty(toks') => HasEmpty(toks) \/ HasEmpty(ts))
    BY <1>4, <2>1, SpliceType DEF InsertSliceAt
  <2> QED BY <1>4, <2>2 DEF InsertSliceAt, NoteEmpty, EmptiesFlagged
<1>5. ASSUME NEW ts \in Slice, NEW i \in 1 .. Len(toks), NEW j \in i .. Len(toks),
             ReplaceRange(i, j, ts)
      PROVE  /\ toks' \in Seq(Value) /\ mayHaveEmpty' \in BOOLEAN
             /\ version' = version + 1 /\ UNCHANGED memo
             /\ EmptiesFlagged => EmptiesFlagged'
  <2>1. /\ i \in 1 .. Len(toks) + 1 /\ j \in i - 1 .. Len(toks) /\ ts \in Seq(Value)
    BY StreamAssumption DEF StreamAssumption
  <2>2. toks' \in Seq(Value) /\ (HasEmpty(toks') => HasEmpty(toks) \/ HasEmpty(ts))
    BY <1>5, <2>1, SpliceType DEF ReplaceRange
  <2> QED BY <1>5, <2>2 DEF ReplaceRange, NoteEmpty, EmptiesFlagged
<1> QED BY <1>1, <1>2, <1>3, <1>4, <1>5 DEF Write

(* The characters of the tokens, so that a stream has a text.              *)
Characters == UNION {Elements(v) : v \in Value}

LEMMA ValuesAreText == Value \subseteq Seq(Characters) /\ Seq(Value) \subseteq Seq(Seq(Characters))
<1>1. ASSUME NEW v \in Value PROVE v \in Seq(Characters)
  <2>1. Elements(v) \subseteq Characters /\ v \in Seq(Elements(v))
    BY StreamAssumption DEF StreamAssumption, Characters
  <2> QED BY <2>1, SeqMonotonic
<1>2. Value \subseteq Seq(Characters)
  BY <1>1
<1> QED BY <1>2, SeqMonotonic

(* A cleared stream has no empty token, and the text it had.               *)
LEMMA ClearType ==
    ASSUME toks \in Seq(Value), mayHaveEmpty \in BOOLEAN, EmptiesFlagged,
           version \in Nat, ClearEmptyTokens
    PROVE  /\ toks' \in Seq(Value) /\ mayHaveEmpty' \in BOOLEAN
           /\ version' \in {version, version + 1} /\ UNCHANGED memo
           /\ ~HasEmpty(toks') /\ EmptiesFlagged'
           /\ Render' = Render
<1>1. CASE mayHaveEmpty /\ HasEmpty(toks)
  <2>1. toks' = WithoutEmpty(toks) /\ version' = version + 1 /\ mayHaveEmpty' = FALSE
    BY <1>1 DEF ClearEmptyTokens
  <2>2. WithoutEmpty(toks) \in Seq(Value \ {Empty})
    <3>1. PICK kept \in [0 .. Len(toks) -> Seq(Value \ {Empty})] :
                    WithoutEmpty(toks) = kept[Len(toks)]
      BY Scan
    <3>2. Len(toks) \in 0 .. Len(toks)
      OBVIOUS
    <3> QED BY <3>1, <3>2
  <2>3. toks' \in Seq(Value \ {Empty}) /\ toks' \in Seq(Value)
    BY <2>1, <2>2, SeqMonotonic
  <2>4. ~HasEmpty(toks')
    BY <2>3, ElementOfSeq DEF HasEmpty
  <2>5. Seqs!FlattenSeq(WithoutEmpty(toks)) = Seqs!FlattenSeq(toks)
    BY ValuesAreText, ScanKeepsText
  <2>6. Render' = Render
    BY <2>1, <2>5 DEF Render
  <2> QED BY <2>1, <2>3, <2>4, <2>6 DEF EmptiesFlagged, ClearEmptyTokens
<1>2. CASE ~(mayHaveEmpty /\ HasEmpty(toks))
  <2>1. UNCHANGED <<toks, version, memo>> /\ mayHaveEmpty' \in BOOLEAN
    BY <1>2 DEF ClearEmptyTokens
  <2>2. ~HasEmpty(toks)
    BY <1>2 DEF EmptiesFlagged
  <2> QED BY <2>1, <2>2 DEF Render, EmptiesFlagged
<1> QED BY <1>1, <1>2
-----------------------------------------------------------------------------
(* What a step does to the stream, at each stage of fixFile.               *)

LEMMA MemoType ==
    ASSUME TypeInv, NEW k \in Key, Memo(k)
    PROVE  UNCHANGED <<toks, mayHaveEmpty, version>> /\ memo' \in [Key -> Entry]
<1>1. /\ UNCHANGED <<toks, mayHaveEmpty, version>>
      /\ memo' = [memo EXCEPT ![k] = [version |-> version, tokens |-> Analysed(k)]]
  BY DEF Memo
<1>2. version \in -1 .. MaxVersion + NumRules
  BY StreamAssumption, FixFileAssumption
     DEF TypeInv, TypeOK, StreamAssumption, FixFileAssumption
<1>3. Analysed(k) \in Seq(Value)
  BY DEF TypeInv, TypeOK, Entry, Analysed
<1>4. [version |-> version, tokens |-> Analysed(k)] \in Entry
  BY <1>2, <1>3 DEF Entry
<1> QED BY <1>1, <1>4 DEF TypeInv, TypeOK

LEMMA ConsultsType ==
    ASSUME TypeInv, Consults
    PROVE  UNCHANGED <<toks, mayHaveEmpty, version>> /\ memo' \in [Key -> Entry]
<1>1. CASE UNCHANGED stream
  BY <1>1 DEF stream, TypeInv, TypeOK
<1>2. CASE Memo(Indexed)
  BY <1>2, MemoType, FixFileAssumption DEF FixFileAssumption
<1> QED BY <1>1, <1>2 DEF Consults

StreamStep ==
    /\ toks' \in Seq(Value) /\ mayHaveEmpty' \in BOOLEAN /\ memo' \in [Key -> Entry]
    /\ EmptiesFlagged'
    /\ \/ UNCHANGED <<toks, version>>
       \/ FixWrites /\ version < MaxVersion /\ version' = version + 1
       \/ Clears /\ version' \in {version, version + 1} /\ ~HasEmpty(toks') /\ Render' = Render

LEMMA StreamNext ==
    ASSUME TypeInv, EmptiesFlagged, [Next]_vars
    PROVE  StreamStep
<1> USE DEF StreamStep, EmptiesFlagged
<1>0. /\ toks \in Seq(Value) /\ mayHaveEmpty \in BOOLEAN /\ memo \in [Key -> Entry]
      /\ version \in Nat
  BY DEF TypeInv, TypeOK
<1>1. CASE UNCHANGED stream
  BY <1>0, <1>1 DEF stream
<1>2. CASE ErrorsRuledOut \/ Errors \/ RuledOut \/ FixBegins
  BY <1>0, <1>2, ConsultsType DEF ErrorsRuledOut, Errors, RuledOut, FixBegins
<1>3. CASE FixWrites
  <2>1. Write
    BY <1>3 DEF FixWrites
  <2> QED BY <1>0, <1>3, <2>1, WriteType
<1>4. CASE FixLooks
  BY <1>0, <1>4, MemoType DEF FixLooks
<1>5. CASE Clears
  <2>1. ClearEmptyTokens
    BY <1>5 DEF Clears
  <2> QED BY <1>0, <1>5, <2>1, ClearType
<1>6. CASE ErrorsSkipped \/ RuleSkipped \/ Finishes \/ WriteFails \/ Done
           \/ (\E reports \in BOOLEAN : FixEnds(reports))
  <2>1. UNCHANGED stream
    BY <1>6 DEF ErrorsSkipped, RuleSkipped, Finishes, WriteFails, Done, FixEnds,
                stream, vars
  <2>. QED  BY <2>1, <1>1
<1>7. CASE UNCHANGED vars
  BY <1>7, <1>1 DEF vars, stream
<1>. QED  BY <1>2, <1>3, <1>4, <1>5, <1>6, <1>7 DEF Next

LEMMA TypeInit == ASSUME Init PROVE TypeInv /\ EmptiesFlagged /\ RulesSeeNoEmpty
<1>1. PICK ts \in Sources : NewStream(ts)
  BY DEF Init
<1>2. ts \in Seq(Value \ {Empty}) /\ ts \in Seq(Value)
  BY FixFileAssumption, SeqMonotonic DEF FixFileAssumption
<1>3. ~HasEmpty(ts)
  BY <1>2, ElementOfSeq DEF HasEmpty
<1>4. Unbuilt \in Entry
  BY StreamAssumption, FixFileAssumption
     DEF Unbuilt, Entry, StreamAssumption, FixFileAssumption
<1>5. TypeOK
  <2>1. /\ toks \in Seq(Value) /\ mayHaveEmpty \in BOOLEAN
        /\ memo \in [Key -> Entry] /\ version \in 0 .. MaxVersion + NumRules
    BY <1>1, <1>2, <1>4, StreamAssumption, FixFileAssumption
       DEF NewStream, StreamAssumption, FixFileAssumption
  <2>2. /\ at = "errors" /\ rule \in 1 .. NumRules /\ result = "none"
        /\ write \in BOOLEAN /\ errors \subseteq Reporter
    BY FixFileAssumption DEF Init, FixFileAssumption
  <2>3. applied \in Seq(Elements(Name)) /\ DOMAIN applied = {}
    BY DEF Init
  <2>4. silent \in BOOLEAN
    BY DEF Init
  <2> QED BY <2>1, <2>2, <2>3, <2>4 DEF TypeOK
<1>6. VersionBound
  BY <1>1 DEF VersionBound, Init, NewStream
<1>7. EmptiesFlagged /\ RulesSeeNoEmpty
  BY <1>1, <1>3 DEF NewStream, EmptiesFlagged, RulesSeeNoEmpty
<1> QED BY <1>5, <1>6, <1>7 DEF TypeInv

(* A rule is added to applied unless it is in there.                       *)
LEMMA AppliedType ==
    ASSUME TypeInv, NEW reports \in BOOLEAN, FixEnds(reports)
    PROVE  /\ applied' \in Seq(Elements(Name))
           /\ \A i, j \in DOMAIN applied' : applied'[i] = applied'[j] => i = j
           /\ reports => applied' # <<>>
           /\ applied' = applied \/ applied' # <<>>
<1>1. /\ applied \in Seq(Elements(Name))
      /\ \A i, j \in DOMAIN applied : applied[i] = applied[j] => i = j
      /\ Name[rule] \in Elements(Name)
  BY FixFileAssumption DEF TypeInv, TypeOK, FixFileAssumption, Elements
<1>2. CASE reports /\ Name[rule] \notin Elements(applied)
  <2>1. applied' = Append(applied, Name[rule])
    BY <1>2 DEF FixEnds
  <2>2. /\ applied' \in Seq(Elements(Name)) /\ applied' # <<>>
        /\ Len(applied') = Len(applied) + 1
        /\ \A i \in 1 .. Len(applied) : applied'[i] = applied[i]
        /\ applied'[Len(applied) + 1] = Name[rule]
    BY <1>1, <2>1, AppendProperties
  <2>3. /\ DOMAIN applied = 1 .. Len(applied) /\ Len(applied) \in Nat
        /\ DOMAIN applied' = 1 .. Len(applied) + 1
    BY <1>1, <2>2, LenProperties
  <2>4. \A i \in 1 .. Len(applied) : applied[i] # Name[rule]
    BY <1>2, <2>3 DEF Elements
  <2>5. ASSUME NEW i \in DOMAIN applied', NEW j \in DOMAIN applied',
               applied'[i] = applied'[j]
        PROVE  i = j
    BY <1>1, <2>2, <2>3, <2>4, <2>5
  <2> QED BY <2>2, <2>5
<1>3. CASE ~(reports /\ Name[rule] \notin Elements(applied))
  <2>1. applied' = applied
    BY <1>3 DEF FixEnds
  <2>2. reports => applied # <<>>
    BY <1>3 DEF Elements
  <2> QED BY <1>1, <2>1, <2>2
<1> QED BY <1>2, <1>3

LEMMA TypeNext ==
    ASSUME TypeInv, EmptiesFlagged, RulesSeeNoEmpty, [Next]_vars
    PROVE  TypeInv' /\ EmptiesFlagged' /\ RulesSeeNoEmpty'
<1>0. StreamStep
  BY StreamNext
<1> USE StreamAssumption, FixFileAssumption
<1> USE DEF TypeInv, TypeOK, VersionBound, RulesSeeNoEmpty, StreamStep, runner,
            StreamAssumption, FixFileAssumption
<1>1. CASE ErrorsSkipped
  BY <1>0, <1>1 DEF ErrorsSkipped, Advance, FixWrites, Clears
<1>2. CASE ErrorsRuledOut
  BY <1>0, <1>2 DEF ErrorsRuledOut, Advance, FixWrites, Clears
<1>3. CASE Errors
  BY <1>0, <1>3 DEF Errors, Advance, FixWrites, Clears
<1>4. CASE RuleSkipped
  BY <1>0, <1>4 DEF RuleSkipped, Advance, FixWrites, Clears
<1>5. CASE RuledOut
  BY <1>0, <1>5 DEF RuledOut, FixWrites, Clears
<1>6. CASE FixBegins
  BY <1>0, <1>6 DEF FixBegins, FixWrites, Clears
<1>7. CASE FixWrites
  BY <1>0, <1>7 DEF FixWrites, Clears
<1>8. CASE FixLooks
  BY <1>0, <1>8 DEF FixLooks, FixWrites, Clears
<1>9. ASSUME NEW reports \in BOOLEAN, FixEnds(reports)
      PROVE  TypeInv' /\ EmptiesFlagged' /\ RulesSeeNoEmpty'
  <2>1. /\ applied' \in Seq(Elements(Name))
        /\ \A i, j \in DOMAIN applied' : applied'[i] = applied'[j] => i = j
    BY <1>9, AppliedType
  <2> QED BY <1>0, <1>9, <2>1 DEF FixEnds, FixWrites, Clears
<1>10. CASE Clears
  <2>1. ~HasEmpty(toks') /\ version' \in {version, version + 1}
    BY <1>0, <1>10, ClearType DEF Clears
  <2>2. CASE rule < NumRules
    BY <1>0, <1>10, <2>1, <2>2 DEF Clears
  <2>3. CASE ~(rule < NumRules)
    BY <1>0, <1>10, <2>1, <2>3 DEF Clears
  <2> QED BY <2>2, <2>3
<1>11. CASE Finishes
  <2>1. applied' \in {<<>>, applied}
    BY <1>11 DEF Finishes, AppliedInTheEnd
  <2>2. /\ applied' \in Seq(Elements(Name))
        /\ \A i, j \in DOMAIN applied' : applied'[i] = applied'[j] => i = j
    <3>1. <<>> \in Seq(Elements(Name)) /\ DOMAIN <<>> = {}
      OBVIOUS
    <3> QED BY <2>1, <3>1
  <2> QED BY <1>0, <1>11, <2>2 DEF Finishes, FixWrites, Clears
<1>12. CASE WriteFails
  <2>1. applied' = <<>> /\ applied' \in Seq(Elements(Name)) /\ DOMAIN applied' = {}
    BY <1>12 DEF WriteFails
  <2> QED BY <1>0, <1>12, <2>1 DEF WriteFails, FixWrites, Clears
<1>13. CASE Done \/ UNCHANGED vars
  BY <1>0, <1>13 DEF Done, vars, FixWrites, Clears
<1> QED
  BY <1>1, <1>2, <1>3, <1>4, <1>5, <1>6, <1>7, <1>8, <1>9, <1>10, <1>11, <1>12, <1>13
     DEF Next

LEMMA TypeAlways == Spec => [](TypeInv /\ EmptiesFlagged /\ RulesSeeNoEmpty)
<1> DEFINE Inv == TypeInv /\ EmptiesFlagged /\ RulesSeeNoEmpty
<1>1. Init => Inv
  BY TypeInit
<1>2. Inv /\ [Next]_vars => Inv'
  BY TypeNext
<1> HIDE DEF Inv
<1>3. Spec => []Inv
  BY <1>1, <1>2, PTL DEF Spec
<1> QED BY <1>3 DEF Inv

\* Every variable of fixFile and of its stream has its type, and no rule is
\* listed twice in res.AppliedRules, whatever writes the rules make.
THEOREM FixFileTypes == Spec => []TypeOK
<1>1. TypeInv => TypeOK
  BY DEF TypeInv
<1> QED BY <1>1, TypeAlways, PTL

\* No rule is asked about, or run on, a stream in which a rule before it left
\* an empty token: mayHaveEmpty never hides one from ClearEmptyTokens.
THEOREM NoEmptySeen == Spec => []RulesSeeNoEmpty
BY TypeAlways, PTL
-----------------------------------------------------------------------------
(* As long as nothing is applied, and no rule denied a change it made, the *)
(* text is the original: ClearEmptyTokens leaves it alone.                 *)

TextInv ==
    /\ at = "errors" => applied = <<>> /\ ~silent /\ Render = original
    /\ at \in {"rules", "clearing", "finishing"} /\ applied = <<>> /\ ~silent
           => Render = original
    /\ at = "fixing" /\ applied = <<>> /\ ~silent => before = original
    /\ silent \in BOOLEAN
    /\ at # "done" => onDisk = original
    /\ ReportedIffChanged

LEMMA TextInit == ASSUME Init PROVE TextInv
BY DEF Init, TextInv, ReportedIffChanged

LEMMA TextNext ==
    ASSUME TypeInv, EmptiesFlagged, TextInv, [Next]_vars
    PROVE  TextInv'
<1>0. StreamStep
  BY StreamNext
<1>1. UNCHANGED toks => Render' = Render
  BY DEF Render
<1> USE DEF TextInv, ReportedIffChanged, StreamStep, runner
<1>2. CASE ErrorsSkipped
  BY <1>0, <1>1, <1>2 DEF ErrorsSkipped, Advance, FixWrites, Clears
<1>3. CASE ErrorsRuledOut
  BY <1>0, <1>1, <1>3 DEF ErrorsRuledOut, Advance, FixWrites, Clears
<1>4. CASE Errors
  BY <1>0, <1>1, <1>4 DEF Errors, Advance, FixWrites, Clears
<1>5. CASE RuleSkipped
  BY <1>0, <1>1, <1>5 DEF RuleSkipped, Advance, FixWrites, Clears
<1>6. CASE RuledOut
  BY <1>0, <1>1, <1>6 DEF RuledOut, FixWrites, Clears
<1>7. CASE FixBegins
  BY <1>0, <1>1, <1>7 DEF FixBegins, FixWrites, Clears
<1>8. CASE FixWrites
  BY <1>8 DEF FixWrites
<1>9. CASE FixLooks
  BY <1>9 DEF FixLooks
<1>10. ASSUME NEW reports \in BOOLEAN, FixEnds(reports)
       PROVE  TextInv'
  <2>1. /\ reports => applied' # <<>>
        /\ applied' = applied \/ applied' # <<>>
    BY <1>10, AppliedType
  <2>2. Render' = Render
    BY <1>10, <1>1 DEF FixEnds, stream
  <2> QED BY <1>10, <2>1, <2>2 DEF FixEnds
<1>11. CASE Clears
  <2>1. Render' = Render
    BY <1>0, <1>1, <1>11 DEF Clears, FixWrites
  <2> QED BY <1>11, <2>1 DEF Clears
<1>12. CASE Finishes
  <2>1. Render' = Render
    BY <1>12, <1>1 DEF Finishes, stream
  <2>2. /\ at = "finishing" /\ at' = "done" /\ onDisk = original
        /\ UNCHANGED <<write, original, silent>>
        /\ applied' = IF Render = original THEN <<>> ELSE applied
        /\ applied = <<>> /\ ~silent => Render = original
    BY <1>12 DEF Finishes, AppliedInTheEnd
  <2>3. /\ applied' # <<>> => Render # original
        /\ ~silent /\ Render # original => applied' # <<>>
    BY <2>2
  <2>4. \/ applied' = <<>> /\ result' = "same" /\ onDisk' = onDisk
        \/ applied' # <<>> /\ ~write /\ result' = "changed" /\ onDisk' = onDisk
        \/ applied' # <<>> /\ write /\ result' = "changed" /\ onDisk' = Render
    BY <1>12 DEF Finishes
  <2> QED BY <2>1, <2>2, <2>3, <2>4
<1>13. CASE WriteFails
  BY <1>13 DEF WriteFails
<1>14. CASE Done \/ UNCHANGED vars
  BY <1>1, <1>14 DEF Done, vars
<1> QED
  BY <1>2, <1>3, <1>4, <1>5, <1>6, <1>7, <1>8, <1>9, <1>10, <1>11, <1>12, <1>13, <1>14
     DEF Next

\* A file is reported as changed, with a rule's name, only if its text is
\* another one in the end, whatever the rules did on the way and undid again;
\* --fix has written it exactly then.  A changed text that is not reported is
\* one that a rule changed while it answered that it changed nothing.
THEOREM ReportsAreRight == Spec => []ReportedIffChanged
<1>1. Init => TextInv
  BY TextInit
<1>2. TypeInv /\ EmptiesFlagged /\ RulesSeeNoEmpty /\ TextInv /\ [Next]_vars => TextInv'
  BY TextNext
<1>3. TextInv => ReportedIffChanged
  BY DEF TextInv
<1> QED BY <1>1, <1>2, <1>3, TypeAlways, PTL DEF Spec
=============================================================================
