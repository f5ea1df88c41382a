--------------------------- MODULE SkippingProofs ---------------------------
(***************************************************************************)
(* From any ecs.php to the fixers that run on a file: fnmatch is right,    *)
(* what is asked for is kept, and both engines agree.                      *)
(*                                                                         *)
(* LoopInv is what the loop of fnmatch knows.  Reached: the consumed part  *)
(* of the pattern matches the consumed part of the name, the last "*"      *)
(* ending at starNx.  Ahead: a matching that ends that "*" no earlier than *)
(* starNx has consumed no less of the name at px, and one that ends it     *)
(* there has consumed just as much.  Possible: if anything matches, some   *)
(* matching ends it no earlier than starNx; this is why the loop need not  *)
(* go back to the "*" before the last.                                     *)
(*                                                                         *)
(* ConfigInv is what builder and ECSConfig hold of the calls made, DumpInv *)
(* what dump and blink are of that, MatchInv what the file was compared    *)
(* with so far.  Once it was compared with everything (Settled), the skips *)
(* kept by fixer in blink and by class in PHP come to the same.            *)
(***************************************************************************)
EXTENDS Skipping, SequenceTheorems, WellFoundedInduction, TLAPS

Reached ==
    \E cut \in Cuts :
        /\ cut[0] = 0 /\ cut[px] = nx
        /\ \A i \in 1 .. px : Fits(cut, i)
        /\ starPx >= 0 => cut[starPx + 1] = starNx

Ahead ==
    \A cut \in Cuts : Matching(cut) =>
        IF starPx = -1 THEN cut[px] = nx
        ELSE /\ cut[starPx + 1] >= starNx => cut[px] >= nx
             /\ cut[starPx + 1] = starNx => cut[px] = nx

Possible ==
    (\E cut \in Cuts : Matching(cut)) =>
        \E cut \in Cuts : Matching(cut) /\ (starPx >= 0 => cut[starPx + 1] >= starNx)

Arguments == pattern \in Seq(Atom \cup {Star}) /\ name \in Seq(Char)

LoopInv ==
    /\ Arguments /\ TypeOK
    /\ Reached /\ Ahead /\ Possible
    /\ Decides

LEMMA CutBounds ==
    ASSUME Arguments, NEW cut \in Cuts, NEW i \in 0 .. Len(pattern)
    PROVE  /\ cut[i] \in Nat /\ cut[i] <= Len(name)
           /\ Len(pattern) \in Nat /\ Len(name) \in Nat
BY DEF Arguments, Cuts

(* Where neither a "*" nor a byte can be taken, no matching has consumed   *)
(* exactly nx at px.                                                       *)
LEMMA StuckIsNoMatch ==
    ASSUME Arguments, TypeOK, Looping, ~AtStar, ~AtMatch,
           NEW cut \in Cuts, Matching(cut)
    PROVE  cut[px] # nx
<1>. SUFFICES ASSUME cut[px] = nx PROVE FALSE
  OBVIOUS
<1>0. /\ Len(pattern) \in Nat /\ Len(name) \in Nat
      /\ px \in Nat /\ px <= Len(pattern) /\ nx \in Nat /\ nx <= Len(name)
  BY DEF Arguments, TypeOK
<1>1. CASE px = Len(pattern)
  BY <1>0, <1>1 DEF Matching, Looping
<1>2. CASE px < Len(pattern)
  <2>1. px + 1 \in 1 .. Len(pattern) /\ (px + 1) - 1 = px
    BY <1>0, <1>2
  <2>2. pattern[px + 1] # Star
    BY <1>2 DEF AtStar
  <2>3. Fits(cut, px + 1)
    BY <2>1 DEF Matching
  <2>4. cut[px + 1] = nx + 1 /\ name[nx + 1] \in pattern[px + 1]
    BY <2>1, <2>2, <2>3 DEF Fits
  <2>5. nx + 1 <= Len(name)
    BY <2>1, <2>4, CutBounds
  <2>. QED  BY <1>0, <1>2, <2>2, <2>4, <2>5 DEF AtMatch
<1>. QED  BY <1>0, <1>1, <1>2

(* Before a call has done anything.                                        *)
Begun ==
    /\ Arguments
    /\ px = 0 /\ nx = 0 /\ starPx = -1 /\ starNx = -1 /\ result = "none"

LEMMA BegunLoopInv == Begun => LoopInv
<1>. SUFFICES ASSUME Begun PROVE LoopInv
  OBVIOUS
<1>1. Arguments
  BY DEF Begun
<1>2. TypeOK
  BY <1>1 DEF Begun, TypeOK, Arguments
<1>3. Reached
  <2>1. [i \in 0 .. Len(pattern) |-> 0] \in Cuts
    BY <1>1 DEF Cuts, Arguments
  <2>2. [i \in 0 .. Len(pattern) |-> 0][0] = 0
    BY <1>1 DEF Arguments
  <2>. QED  BY <2>1, <2>2 DEF Begun, Reached
<1>4. Ahead
  BY DEF Begun, Ahead, Matching
<1>5. Possible
  BY DEF Begun, Possible
<1>6. Decides
  BY DEF Begun, Decides
<1>. QED  BY <1>1, <1>2, <1>3, <1>4, <1>5, <1>6 DEF LoopInv

LEMMA InitLoopInv == ASSUME Init PROVE LoopInv
BY FnmatchAssumption, BegunLoopInv DEF Init, Begun, FnmatchAssumption, Arguments

LEMMA BegunLoopInvNext == Begun' => LoopInv'
BY BegunLoopInv, PTL
-----------------------------------------------------------------------------
LEMMA TakeStarLoopInv == ASSUME LoopInv, TakeStar PROVE LoopInv'
<1>0. /\ UNCHANGED <<pattern, name, nx, result>>
      /\ starPx' = px /\ starNx' = nx /\ px' = px + 1
      /\ px < Len(pattern) /\ pattern[px + 1] = Star
      /\ Arguments /\ TypeOK /\ Reached /\ Ahead /\ Possible /\ Decides
  BY DEF LoopInv, TakeStar, AtStar
<1>1. /\ Len(pattern) \in Nat /\ Len(name) \in Nat
      /\ px \in Nat /\ nx \in Nat /\ nx <= Len(name)
      /\ starPx \in -1 .. px - 1
  BY <1>0 DEF Arguments, TypeOK
<1>2. Arguments' /\ Cuts' = Cuts
  BY <1>0 DEF Arguments, Cuts
<1>3. TypeOK'
  BY <1>0, <1>1 DEF TypeOK
<1>4. \A cut : (Matching(cut))' <=> Matching(cut)
  BY <1>0 DEF Matching, Fits
<1>5. Reached'
  <2>1. PICK cut \in Cuts : /\ cut[0] = 0 /\ cut[px] = nx
                            /\ \A i \in 1 .. px : Fits(cut, i)
    BY <1>0 DEF Reached
  <2>2. PICK new \in Cuts : /\ new[px + 1] = nx
                            /\ \A i \in 0 .. px : new[i] = cut[i]
    <3>. DEFINE longer == [cut EXCEPT ![px + 1] = nx]
    <3>1. longer \in Cuts
      BY <1>0, <1>1 DEF Cuts
    <3>2. longer[px + 1] = nx
      BY <1>0, <1>1 DEF Cuts
    <3>3. \A i \in 0 .. px : longer[i] = cut[i]
      BY <1>0, <1>1 DEF Cuts
    <3>. HIDE DEF longer
    <3>. QED  BY <3>1, <3>2, <3>3
  <2>3. new[0] = 0 /\ new[px] = nx
    BY <1>1, <2>1, <2>2
  <2>4. \A i \in 1 .. px : Fits(new, i)
    BY <1>1, <2>1, <2>2 DEF Fits
  <2>5. Fits(new, px + 1)
    BY <1>0, <1>1, <2>2, <2>3 DEF Fits
  <2>6. \A i \in 1 .. px + 1 : (Fits(new, i))'
    BY <1>0, <1>1, <2>4, <2>5 DEF Fits
  <2>. QED  BY <1>0, <1>2, <2>2, <2>3, <2>6 DEF Reached
<1>6. \A cut \in Cuts : Matching(cut) => cut[px] <= cut[px + 1]
  <2>. SUFFICES ASSUME NEW cut \in Cuts, Matching(cut)
                PROVE  cut[px] <= cut[px + 1]
    OBVIOUS
  <2>1. Fits(cut, px + 1) /\ (px + 1) - 1 = px
    BY <1>0, <1>1 DEF Matching
  <2>. QED  BY <1>0, <2>1 DEF Fits
<1>7. Ahead'
  BY <1>0, <1>1, <1>2, <1>4 DEF Ahead
<1>8. Possible'
  <2>. SUFFICES ASSUME NEW any \in Cuts, Matching(any)
                PROVE  \E cut \in Cuts : Matching(cut) /\ cut[px + 1] >= nx
    BY <1>0, <1>2, <1>4 DEF Possible
  <2>1. PICK cut \in Cuts : /\ Matching(cut)
                            /\ starPx >= 0 => cut[starPx + 1] >= starNx
    BY <1>0 DEF Possible
  <2>2. cut[px] >= nx
    BY <1>0, <1>1, <2>1, CutBounds DEF Ahead
  <2>3. cut[px] \in Nat /\ cut[px + 1] \in Nat
    BY <1>0, <1>1, CutBounds
  <2>4. cut[px + 1] >= nx
    BY <1>1, <1>6, <2>1, <2>2, <2>3
  <2>. QED  BY <2>1, <2>4
<1>9. Decides'
  BY <1>0, <1>2, <1>4 DEF Decides
<1>. QED  BY <1>2, <1>3, <1>5, <1>7, <1>8, <1>9 DEF LoopInv

LEMMA TakeByteLoopInv == ASSUME LoopInv, TakeByte PROVE LoopInv'
<1>0. /\ UNCHANGED <<pattern, name, starPx, starNx, result>>
      /\ px' = px + 1 /\ nx' = nx + 1
      /\ px < Len(pattern) /\ nx < Len(name)
      /\ pattern[px + 1] # Star /\ name[nx + 1] \in pattern[px + 1]
      /\ Arguments /\ TypeOK /\ Reached /\ Ahead /\ Possible /\ Decides
  BY DEF LoopInv, TakeByte, AtMatch
<1>1. /\ Len(pattern) \in Nat /\ Len(name) \in Nat
      /\ px \in Nat /\ nx \in Nat
      /\ starPx \in -1 .. px - 1
  BY <1>0 DEF Arguments, TypeOK
<1>2. Arguments' /\ Cuts' = Cuts
  BY <1>0 DEF Arguments, Cuts
<1>3. TypeOK'
  BY <1>0, <1>1 DEF TypeOK
<1>4. \A cut : (Matching(cut))' <=> Matching(cut)
  BY <1>0 DEF Matching, Fits
<1>5. Reached'
  <2>1. PICK cut \in Cuts : /\ cut[0] = 0 /\ cut[px] = nx
                            /\ \A i \in 1 .. px : Fits(cut, i)
                            /\ starPx >= 0 => cut[starPx + 1] = starNx
    BY <1>0 DEF Reached
  <2>2. PICK new \in Cuts : /\ new[px + 1] = nx + 1
                            /\ \A i \in 0 .. px : new[i] = cut[i]
    <3>. DEFINE longer == [cut EXCEPT ![px + 1] = nx + 1]
    <3>1. longer \in Cuts
      BY <1>0, <1>1 DEF Cuts
    <3>2. longer[px + 1] = nx + 1
      BY <1>0, <1>1 DEF Cuts
    <3>3. \A i \in 0 .. px : longer[i] = cut[i]
      BY <1>0, <1>1 DEF Cuts
    <3>. HIDE DEF longer
    <3>. QED  BY <3>1, <3>2, <3>3
  <2>3. new[0] = 0 /\ new[px] = nx
    BY <1>1, <2>1, <2>2
  <2>4. \A i \in 1 .. px : Fits(new, i)
    BY <1>1, <2>1, <2>2 DEF Fits
  <2>5. Fits(new, px + 1)
    BY <1>0, <1>1, <2>2, <2>3 DEF Fits
  <2>6. \A i \in 1 .. px + 1 : (Fits(new, i))'
    BY <1>0, <1>1, <2>4, <2>5 DEF Fits
  <2>7. starPx >= 0 => new[starPx + 1] = starNx
    BY <1>1, <2>1, <2>2
  <2>. QED  BY <1>0, <1>2, <2>2, <2>3, <2>6, <2>7 DEF Reached
<1>6. \A cut \in Cuts : Matching(cut) => cut[px + 1] = cut[px] + 1
  <2>. SUFFICES ASSUME NEW cut \in Cuts, Matching(cut)
                PROVE  cut[px + 1] = cut[px] + 1
    OBVIOUS
  <2>1. Fits(cut, px + 1) /\ (px + 1) - 1 = px
    BY <1>0, <1>1 DEF Matching
  <2>. QED  BY <1>0, <2>1 DEF Fits
<1>7. Ahead'
  <2>1. \A cut \in Cuts : cut[px] \in Nat
    BY <1>0, <1>1, CutBounds
  <2>. QED  BY <1>0, <1>1, <1>2, <1>4, <1>6, <2>1 DEF Ahead
<1>8. Possible'
  BY <1>0, <1>2, <1>4 DEF Possible
<1>9. Decides'
  BY <1>0, <1>2, <1>4 DEF Decides
<1>. QED  BY <1>2, <1>3, <1>5, <1>7, <1>8, <1>9 DEF LoopInv
-----------------------------------------------------------------------------
LEMMA BacktrackLoopInv == ASSUME LoopInv, Backtrack PROVE LoopInv'
<1>0. /\ UNCHANGED <<pattern, name, starPx, result>>
      /\ starNx' = starNx + 1 /\ px' = starPx + 1 /\ nx' = starNx + 1
      /\ Looping /\ ~AtStar /\ ~AtMatch
      /\ starPx >= 0 /\ starNx < Len(name)
      /\ Arguments /\ TypeOK /\ Reached /\ Ahead /\ Possible /\ Decides
  BY DEF LoopInv, Backtrack, MaySwallow
<1>1. /\ Len(pattern) \in Nat /\ Len(name) \in Nat
      /\ px \in Nat /\ px <= Len(pattern) /\ nx \in Nat
      /\ starPx \in Nat /\ starPx + 1 <= px /\ starNx \in Nat
      /\ pattern[starPx + 1] = Star
  BY <1>0 DEF Arguments, TypeOK
<1>2. Arguments' /\ Cuts' = Cuts
  BY <1>0 DEF Arguments, Cuts
<1>3. TypeOK'
  BY <1>0, <1>1 DEF TypeOK
<1>4. \A cut : (Matching(cut))' <=> Matching(cut)
  BY <1>0 DEF Matching, Fits
<1>5. Reached'
  <2>1. PICK cut \in Cuts : /\ cut[0] = 0 /\ cut[px] = nx
                            /\ \A i \in 1 .. px : Fits(cut, i)
                            /\ cut[starPx + 1] = starNx
    BY <1>0 DEF Reached
  <2>2. PICK new \in Cuts : /\ new[starPx + 1] = starNx + 1
                            /\ \A i \in 0 .. starPx : new[i] = cut[i]
    <3>. DEFINE longer == [cut EXCEPT ![starPx + 1] = starNx + 1]
    <3>1. longer \in Cuts
      BY <1>0, <1>1 DEF Cuts
    <3>2. longer[starPx + 1] = starNx + 1
      BY <1>0, <1>1 DEF Cuts
    <3>3. \A i \in 0 .. starPx : longer[i] = cut[i]
      BY <1>0, <1>1 DEF Cuts
    <3>. HIDE DEF longer
    <3>. QED  BY <3>1, <3>2, <3>3
  <2>3. new[0] = 0
    BY <1>1, <2>1, <2>2
  <2>4. \A i \in 1 .. starPx : Fits(new, i)
    BY <1>1, <2>1, <2>2 DEF Fits
  <2>5. Fits(new, starPx + 1)
    <3>1. Fits(cut, starPx + 1) /\ (starPx + 1) - 1 = starPx
      BY <1>1, <2>1
    <3>2. cut[starPx] <= starNx /\ cut[starPx] \in Nat
      BY <1>0, <1>1, <2>1, <3>1, CutBounds DEF Fits
    <3>. QED  BY <1>1, <2>2, <3>1, <3>2 DEF Fits
  <2>6. \A i \in 1 .. starPx + 1 : (Fits(new, i))'
    BY <1>0, <1>1, <2>4, <2>5 DEF Fits
  <2>. QED  BY <1>0, <1>2, <2>2, <2>3, <2>6 DEF Reached
<1>6. Ahead'
  BY <1>0, <1>1, <1>2, <1>4 DEF Ahead
<1>7. Possible'
  <2>. SUFFICES ASSUME NEW any \in Cuts, Matching(any)
                PROVE  \E cut \in Cuts :
                           Matching(cut) /\ cut[starPx + 1] >= starNx + 1
    BY <1>0, <1>2, <1>4 DEF Possible
  <2>1. PICK cut \in Cuts : Matching(cut) /\ cut[starPx + 1] >= starNx
    BY <1>0 DEF Possible
  <2>2. cut[px] # nx
    BY <1>0, <2>1, StuckIsNoMatch
  <2>3. cut[starPx + 1] # starNx
    BY <1>1, <1>0, <2>1, <2>2 DEF Ahead
  <2>4. cut[starPx + 1] \in Nat
    BY <1>0, <1>1, CutBounds
  <2>. QED  BY <1>1, <2>1, <2>3, <2>4
<1>8. Decides'
  BY <1>0, <1>2, <1>4 DEF Decides
<1>. QED  BY <1>2, <1>3, <1>5, <1>6, <1>7, <1>8 DEF LoopInv

LEMMA FailLoopInv == ASSUME LoopInv, Fail PROVE LoopInv'
<1>0. /\ UNCHANGED <<pattern, name, px, nx, starPx, starNx>>
      /\ result' = "mismatch"
      /\ Looping /\ ~AtStar /\ ~AtMatch
      /\ ~(starPx >= 0 /\ starNx < Len(name))
      /\ Arguments /\ TypeOK /\ Reached /\ Ahead /\ Possible
  BY DEF LoopInv, Fail, MaySwallow
<1>1. /\ Len(pattern) \in Nat /\ Len(name) \in Nat
      /\ px \in Nat /\ px <= Len(pattern) /\ nx \in Nat
      /\ starPx \in Int /\ -1 <= starPx /\ starPx + 1 <= px
      /\ starNx \in Int /\ starNx <= Len(name)
  BY <1>0 DEF Arguments, TypeOK
<1>2. ~\E cut \in Cuts : Matching(cut)
  <2>. SUFFICES ASSUME NEW any \in Cuts, Matching(any) PROVE FALSE
    OBVIOUS
  <2>1. PICK cut \in Cuts : /\ Matching(cut)
                            /\ starPx >= 0 => cut[starPx + 1] >= starNx
    BY <1>0 DEF Possible
  <2>2. cut[px] # nx
    BY <1>0, <2>1, StuckIsNoMatch
  <2>3. CASE starPx = -1
    BY <1>0, <2>1, <2>2, <2>3 DEF Ahead
  <2>4. CASE starPx >= 0
    <3>1. starNx = Len(name)
      BY <1>0, <1>1, <2>4
    <3>2. cut[starPx + 1] \in Nat /\ cut[starPx + 1] <= Len(name)
      BY <1>0, <1>1, <2>4, CutBounds
    <3>3. cut[starPx + 1] = starNx
      BY <1>1, <2>1, <2>4, <3>1, <3>2
    <3>. QED  BY <1>0, <1>1, <2>1, <2>2, <2>4, <3>3 DEF Ahead
  <2>. QED  BY <1>1, <2>3, <2>4
<1>3. Decides'
  BY <1>0, <1>2 DEF Decides, Cuts, Matching, Fits
<1>4. /\ Arguments' /\ TypeOK'
      /\ Reached' /\ Ahead' /\ Possible'
  BY <1>0 DEF Arguments, TypeOK, Reached, Ahead, Possible, Cuts, Matching, Fits
<1>. QED  BY <1>3, <1>4 DEF LoopInv

LEMMA SucceedLoopInv == ASSUME LoopInv, Succeed PROVE LoopInv'
<1>0. /\ UNCHANGED <<pattern, name, px, nx, starPx, starNx>>
      /\ result' = "match"
      /\ px = Len(pattern) /\ nx = Len(name)
      /\ Arguments /\ TypeOK /\ Reached /\ Ahead /\ Possible
  BY DEF LoopInv, Succeed
<1>1. \E cut \in Cuts : Matching(cut)
  BY <1>0 DEF Reached, Matching
<1>2. Decides'
  BY <1>0, <1>1 DEF Decides, Cuts, Matching, Fits
<1>3. /\ Arguments' /\ TypeOK'
      /\ Reached' /\ Ahead' /\ Possible'
  BY <1>0 DEF Arguments, TypeOK, Reached, Ahead, Possible, Cuts, Matching, Fits
<1>. QED  BY <1>2, <1>3 DEF LoopInv
-----------------------------------------------------------------------------
LEMMA NextLoopInv == ASSUME LoopInv, [Next]_vars PROVE LoopInv'
<1>1. CASE UNCHANGED vars
  <2>1. /\ UNCHANGED <<pattern, name, px, nx, starPx, starNx, result>>
        /\ Arguments /\ TypeOK /\ Reached /\ Ahead /\ Possible /\ Decides
    BY <1>1 DEF vars, LoopInv
  <2>2. Arguments' /\ TypeOK'
    BY <2>1 DEF Arguments, TypeOK
  <2>3. Reached' /\ Ahead' /\ Possible'
    BY <2>1 DEF Reached, Ahead, Possible, Cuts, Matching, Fits
  <2>4. Decides'
    BY <2>1 DEF Decides, Cuts, Matching, Fits
  <2>. QED  BY <2>2, <2>3, <2>4 DEF LoopInv
<1>. QED
  BY <1>1, TakeStarLoopInv, TakeByteLoopInv, BacktrackLoopInv, FailLoopInv,
     SucceedLoopInv DEF Next, Step, Returned

\* For every pattern and name of the assumption, fnmatch never answers
\* "match" for a name that cannot be cut up along the pattern, and never
\* "mismatch" for one that can, and its positions stay within the strings.
THEOREM FnmatchIsRight == Spec => [](TypeOK /\ Decides)
<1>1. Init => LoopInv
  BY InitLoopInv
<1>2. LoopInv /\ [Next]_vars => LoopInv'
  BY NextLoopInv
<1>3. LoopInv => TypeOK /\ Decides
  BY DEF LoopInv
<1>. QED  BY <1>1, <1>2, <1>3, PTL DEF Spec

-----------------------------------------------------------------------------
(* Induction and recursion over 0 .. m, from the order of the naturals.    *)

LEMMA LeastNatural ==
    ASSUME NEW S \in SUBSET Nat, S # {}
    PROVE  \E n \in S : \A m \in S : n <= m
<1>1. \E n \in S : \A m \in S : ~ (<<m, n>> \in OpToRel(<, Nat))
  BY NatLessThanWellFounded, WFMin
<1>2. PICK n \in S : \A m \in S : ~ (<<m, n>> \in OpToRel(<, Nat))
  BY <1>1
<1>3. \A m \in S : ~ (m < n)
  BY <1>2 DEF OpToRel
<1> QED BY <1>3

LEMMA Induction ==
    ASSUME NEW S, NEW m \in Nat, 0 \in S, \A n \in 0 .. m - 1 : n \in S => n + 1 \in S
    PROVE  0 .. m \subseteq S
<1> SUFFICES ASSUME (0 .. m) \ S # {} PROVE FALSE
  OBVIOUS
<1>0. (0 .. m) \ S \in SUBSET Nat
  OBVIOUS
<1>1. PICK n \in (0 .. m) \ S : \A x \in (0 .. m) \ S : n <= x
  BY <1>0, LeastNatural
<1>2. n - 1 \in 0 .. m - 1 /\ n - 1 \in S /\ (n - 1) + 1 = n
  BY <1>1
<1> QED BY <1>1, <1>2

Follows(f, X, m, base, step) ==
    /\ f \in [0 .. m -> X]
    /\ f[0] = base /\ \A n \in 1 .. m : f[n] = step[n][f[n - 1]]

LEMMA Recursion ==
    ASSUME NEW X, NEW m \in Nat, NEW base \in X, NEW step \in [1 .. m -> [X -> X]]
    PROVE  \E f : Follows(f, X, m, base, step)
<1> DEFINE Upto(n) == \E f \in [0 .. n -> X] :
               f = [e \in 0 .. n |-> IF e = 0 THEN base ELSE step[e][f[e - 1]]]
           S == {n \in 0 .. m : Upto(n)}
<1>1. 0 \in S
  <2>1. [e \in 0 .. 0 |-> base] \in [0 .. 0 -> X]
    OBVIOUS
  <2>2. [e \in 0 .. 0 |-> base] = [e \in 0 .. 0 |-> IF e = 0 THEN base ELSE step[e][[x \in 0 .. 0 |-> base][e - 1]]]
    OBVIOUS
  <2>3. Upto(0)
    BY <2>1, <2>2
  <2> QED BY <2>3
<1>2. ASSUME NEW n \in 0 .. m - 1, n \in S PROVE n + 1 \in S
  <2>1. PICK f \in [0 .. n -> X] :
               f = [e \in 0 .. n |-> IF e = 0 THEN base ELSE step[e][f[e - 1]]]
    BY <1>2
  <2> DEFINE g == [e \in 0 .. n + 1 |-> IF e <= n THEN f[e] ELSE step[n + 1][f[n]]]
  <2>2. step[n + 1][f[n]] \in X
    OBVIOUS
  <2>3. g \in [0 .. n + 1 -> X]
    BY <2>2
  <2>4. ASSUME NEW e \in 0 .. n + 1 PROVE g[e] = IF e = 0 THEN base ELSE step[e][g[e - 1]]
    <3>1. CASE e = 0
      <4>1. f[0] = base
        BY <2>1
      <4> QED BY <3>1, <4>1
    <3>2. CASE e # 0 /\ e <= n
      <4>1. f[e] = step[e][f[e - 1]]
        BY <2>1, <3>2
      <4>2. g[e] = f[e] /\ g[e - 1] = f[e - 1]
        BY <3>2
      <4> QED BY <3>2, <4>1, <4>2
    <3>3. CASE e = n + 1
      BY <3>3
    <3> QED BY <3>1, <3>2, <3>3
  <2>5. g = [e \in 0 .. n + 1 |-> IF e = 0 THEN base ELSE step[e][g[e - 1]]]
    <3> HIDE DEF g
    <3> QED BY <2>3, <2>4
  <2>6. Upto(n + 1)
    <3> HIDE DEF g
    <3> QED BY <2>3, <2>5
  <2>7. n + 1 \in 0 .. m
    OBVIOUS
  <2> HIDE DEF Upto
  <2> QED BY <2>6, <2>7
<1>3. 0 .. m \subseteq S
  <2> HIDE DEF S
  <2> QED BY <1>1, <1>2, Induction
<1>4. Upto(m)
  BY <1>3
<1>5. PICK f \in [0 .. m -> X] :
               f = [e \in 0 .. m |-> IF e = 0 THEN base ELSE step[e][f[e - 1]]]
  BY <1>4
<1> QED BY <1>5 DEF Follows
-----------------------------------------------------------------------------
(* The builder: whatever the calls, a class is configured at most once.    *)

Unique(es) == \A m, n \in DOMAIN es : es[m].class = es[n].class => m = n

Builders ==
    [sets : Seq(DOMAIN SetRules), rules : Seq(Checker), configured : Seq(Entries),
     skip : SkipLists \cup {<<>>}, levelUsed : BOOLEAN]
Good == {b \in Builders : Unique(b.configured)}

InSets(sets) == UNION {Classes(SetRules[set]) : set \in ToSet(sets)}
Sought(b) == InSets(b.sets) \cup ToSet(b.rules) \cup Classes(b.configured)

LEMMA EntryFields == \A e \in Entries : e.class \in Checker /\ e.config \in Config
BY DEF Entries

LEMMA EntryType ==
    \A c \in Checker, config \in Config :
        /\ Entry(c, config) \in Entries
        /\ Entry(c, config).class = c /\ Entry(c, config).config = config
BY DEF Entries, Entry

LEMMA ClassesAppend ==
    ASSUME NEW es \in Seq(Entries), NEW e \in Entries
    PROVE  Classes(Append(es, e)) = Classes(es) \cup {e.class}
<1> DEFINE us == Append(es, e)
<1>1. /\ DOMAIN es = 1 .. Len(es) /\ DOMAIN us = 1 .. Len(es) + 1 /\ Len(es) \in Nat
      /\ us[Len(es) + 1] = e /\ \A n \in 1 .. Len(es) : us[n] = es[n]
  BY AppendProperties
<1> HIDE DEF us
<1>2. DOMAIN us = DOMAIN es \cup {Len(es) + 1}
  BY <1>1
<1>3. Classes(us) = Classes(es) \cup {e.class}
  BY <1>1, <1>2 DEF Classes
<1> QED BY <1>3 DEF us

LEMMA PutReplaces ==
    ASSUME NEW es \in Seq(Entries), Unique(es), NEW e \in Entries, e.class \in Classes(es)
    PROVE  /\ Put(es, e) \in Seq(Entries) /\ Unique(Put(es, e))
           /\ Classes(Put(es, e)) = Classes(es) \cup {e.class}
<1> DEFINE us == [i \in DOMAIN es |-> IF es[i].class = e.class THEN e ELSE es[i]]
<1>1. Put(es, e) = us
  BY DEF Put
<1>2. DOMAIN es = 1 .. Len(es) /\ Len(es) \in Nat /\ \A n \in DOMAIN es : es[n] \in Entries
  BY LenProperties
<1>3. us \in Seq(Entries)
  <2>1. us \in [1 .. Len(es) -> Entries]
    BY <1>2
  <2> HIDE DEF us
  <2> QED BY <1>2, <2>1, SeqDef
<1>4. DOMAIN us = DOMAIN es /\ \A n \in DOMAIN es : us[n].class = es[n].class
  OBVIOUS
<1> HIDE DEF us
<1>5. Unique(us)
  BY <1>4 DEF Unique
<1>6. Classes(us) = Classes(es)
  BY <1>4 DEF Classes
<1> QED BY <1>1, <1>3, <1>5, <1>6

LEMMA PutAdds ==
    ASSUME NEW es \in Seq(Entries), Unique(es), NEW e \in Entries, e.class \notin Classes(es)
    PROVE  /\ Put(es, e) \in Seq(Entries) /\ Unique(Put(es, e))
           /\ Classes(Put(es, e)) = Classes(es) \cup {e.class}
<1> DEFINE us == Append(es, e)
<1>1. Put(es, e) = us
  BY DEF Put
<1>2. /\ DOMAIN es = 1 .. Len(es) /\ DOMAIN us = 1 .. Len(es) + 1 /\ Len(es) \in Nat
      /\ us[Len(es) + 1] = e /\ \A n \in 1 .. Len(es) : us[n] = es[n]
      /\ us \in Seq(Entries)
  BY AppendProperties
<1>3. Classes(us) = Classes(es) \cup {e.class}
  BY ClassesAppend
<1> HIDE DEF us
<1>4. Unique(us)
  <2> SUFFICES ASSUME NEW m \in DOMAIN us, NEW n \in DOMAIN us, us[m].class = us[n].class
               PROVE  m = n
    BY DEF Unique
  <2>1. \A x \in 1 .. Len(es) : us[x].class \in Classes(es)
    BY <1>2 DEF Classes
  <2>2. CASE m \in 1 .. Len(es) /\ n \in 1 .. Len(es)
    BY <1>2, <2>2 DEF Unique
  <2>3. CASE m = Len(es) + 1 \/ n = Len(es) + 1
    BY <1>2, <2>1, <2>3
  <2> QED BY <1>2, <2>2, <2>3
<1> QED BY <1>1, <1>2, <1>3, <1>4

LEMMA PutType ==
    ASSUME NEW es \in Seq(Entries), Unique(es), NEW e \in Entries
    PROVE  /\ Put(es, e) \in Seq(Entries) /\ Unique(Put(es, e))
           /\ Classes(Put(es, e)) = Classes(es) \cup {e.class}
BY PutReplaces, PutAdds

LEMMA BuilderFields ==
    \A b \in Good :
        /\ b.sets \in Seq(DOMAIN SetRules) /\ b.rules \in Seq(Checker)
        /\ b.configured \in Seq(Entries) /\ Unique(b.configured)
        /\ b.skip \in SkipLists \cup {<<>>} /\ b.levelUsed \in BOOLEAN
BY DEF Good, Builders

LEMMA ConfigurePut ==
    ASSUME NEW b \in Good, NEW e \in Entries
    PROVE  /\ [b EXCEPT !.configured = Put(@, e)] \in Good
           /\ Sought([b EXCEPT !.configured = Put(@, e)]) = Sought(b) \cup {e.class}
<1> DEFINE es == Put(b.configured, e)
           d == [b EXCEPT !.configured = es]
<1>1. es \in Seq(Entries) /\ Unique(es) /\ Classes(es) = Classes(b.configured) \cup {e.class}
  BY BuilderFields, PutType
<1> HIDE DEF es
<1>2. d \in Good
  BY <1>1 DEF Good, Builders
<1>3. d.sets = b.sets /\ d.rules = b.rules /\ d.configured = es
  BY DEF Good, Builders
<1> HIDE DEF d
<1>4. Sought(d) = Sought(b) \cup {e.class}
  BY <1>1, <1>3 DEF Sought
<1> QED BY <1>2, <1>4 DEF d, es

LEMMA ToSetAppend ==
    ASSUME NEW T, NEW s \in Seq(T), NEW x \in T
    PROVE  ToSet(Append(s, x)) = ToSet(s) \cup {x}
<1> DEFINE us == Append(s, x)
<1>1. /\ DOMAIN s = 1 .. Len(s) /\ DOMAIN us = 1 .. Len(s) + 1 /\ Len(s) \in Nat
      /\ us[Len(s) + 1] = x /\ \A n \in 1 .. Len(s) : us[n] = s[n]
  BY AppendProperties
<1> HIDE DEF us
<1>2. DOMAIN us = DOMAIN s \cup {Len(s) + 1}
  BY <1>1
<1>3. ToSet(us) = ToSet(s) \cup {x}
  BY <1>1, <1>2 DEF ToSet
<1> QED BY <1>3 DEF us

LEMMA RulesAppend ==
    ASSUME NEW b \in Good, NEW c \in Checker
    PROVE  /\ [b EXCEPT !.rules = Append(@, c)] \in Good
           /\ Sought([b EXCEPT !.rules = Append(@, c)]) = Sought(b) \cup {c}
<1> DEFINE rs == Append(b.rules, c)
           d == [b EXCEPT !.rules = rs]
<1>1. rs \in Seq(Checker) /\ ToSet(rs) = ToSet(b.rules) \cup {c}
  BY BuilderFields, ToSetAppend, AppendProperties
<1> HIDE DEF rs
<1>2. d \in Good
  BY <1>1 DEF Good, Builders
<1>3. d.sets = b.sets /\ d.rules = rs /\ d.configured = b.configured
  BY DEF Good, Builders
<1> HIDE DEF d
<1>4. Sought(d) = Sought(b) \cup {c}
  BY <1>1, <1>3 DEF Sought
<1> QED BY <1>2, <1>4 DEF d, rs

LEMMA AtLevelGood ==
    ASSUME NEW b \in Good, NEW c \in Checker
    PROVE  AtLevel(b, c) \in Good /\ Sought(AtLevel(b, c)) = Sought(b) \cup {c}
<1>1. CASE c \in DOMAIN LevelConfigs
  <2> DEFINE e == Entry(c, LevelConfigs[c])
  <2>1. e \in Entries /\ e.class = c
    BY <1>1, CallsAssumption, EntryType DEF CallsAssumption
  <2>2. AtLevel(b, c) = [b EXCEPT !.configured = Put(@, e)]
    BY <1>1 DEF AtLevel
  <2> HIDE DEF e
  <2> QED BY <2>1, <2>2, ConfigurePut
<1>2. CASE c \notin DOMAIN LevelConfigs
  BY <1>2, RulesAppend DEF AtLevel
<1> QED BY <1>1, <1>2

LEMMA LevelScan ==
    ASSUME NEW b \in Good, NEW rules \in Seq(Checker)
    PROVE  \E f : /\ f[0] = b
                  /\ \A n \in 1 .. Len(rules) : f[n] = AtLevel(f[n - 1], rules[n])
                  /\ AllAtLevel(b, rules) = f[Len(rules)]
<1> DEFINE m == Len(rules)
           step == [n \in 1 .. m |-> [x \in Good |-> AtLevel(x, rules[n])]]
           Is(f) == f = [n \in 0 .. m |-> IF n = 0 THEN b ELSE AtLevel(f[n - 1], rules[n])]
           g == CHOOSE f : Is(f)
<1>1. m \in Nat /\ \A n \in 1 .. m : rules[n] \in Checker
  OBVIOUS
<1>2. \A n \in 1 .. m, x \in Good : step[n][x] = AtLevel(x, rules[n]) /\ step[n][x] \in Good
  BY <1>1, AtLevelGood
<1>3. step \in [1 .. m -> [Good -> Good]]
  BY <1>1, AtLevelGood
<1> HIDE DEF step, m
<1>4. PICK f : Follows(f, Good, m, b, step)
  BY <1>1, <1>3, Recursion
<1>5. ASSUME NEW n \in 1 .. m PROVE f[n] = AtLevel(f[n - 1], rules[n])
  <2>1. n - 1 \in 0 .. m
    BY <1>1
  <2>2. f[n] = step[n][f[n - 1]] /\ f[n - 1] \in Good
    BY <1>4, <2>1 DEF Follows
  <2> QED BY <1>2, <2>2
<1>6. Is(f)
  <2>1. f[0] = b /\ f = [n \in 0 .. m |-> f[n]]
    BY <1>4 DEF Follows
  <2>2. ASSUME NEW n \in 0 .. m
        PROVE  f[n] = IF n = 0 THEN b ELSE AtLevel(f[n - 1], rules[n])
    <3>1. n = 0 \/ n \in 1 .. m
      BY <1>1
    <3> QED BY <3>1, <2>1, <1>5
  <2> QED BY <2>1, <2>2
<1>7. AllAtLevel(b, rules) = g[m]
  BY DEF AllAtLevel, m
<1>8. Is(g)
  BY <1>6
<1> HIDE DEF g
<1>9. ASSUME NEW n \in 1 .. m PROVE g[n] = AtLevel(g[n - 1], rules[n])
  <2>1. n \in 0 .. m /\ n # 0
    BY <1>1
  <2> QED BY <1>8, <2>1
<1>10. g[0] = b
  <2>1. 0 \in 0 .. m
    BY <1>1
  <2> QED BY <1>8, <2>1
<1> QED BY <1>7, <1>9, <1>10 DEF m

(* A level asks for its rules and takes nothing back.                      *)
LEMMA AllAtLevelGood ==
    ASSUME NEW b \in Good, NEW rules \in Seq(Checker)
    PROVE  /\ AllAtLevel(b, rules) \in Good
           /\ Sought(AllAtLevel(b, rules)) = Sought(b) \cup ToSet(rules)
<1> DEFINE m == Len(rules)
           So(n) == {rules[x] : x \in 1 .. n}
<1>1. PICK f : /\ f[0] = b
               /\ \A n \in 1 .. m : f[n] = AtLevel(f[n - 1], rules[n])
               /\ AllAtLevel(b, rules) = f[m]
  BY LevelScan
<1>2. m \in Nat /\ \A n \in 1 .. m : rules[n] \in Checker
  OBVIOUS
<1> HIDE DEF m
<1> DEFINE S == {n \in 0 .. m : f[n] \in Good /\ Sought(f[n]) = Sought(b) \cup So(n)}
<1>3. 0 \in S
  <2>1. So(0) = {} /\ 0 \in 0 .. m
    BY <1>2
  <2> QED BY <1>1, <2>1
<1>4. ASSUME NEW n \in 0 .. m - 1, n \in S PROVE n + 1 \in S
  <2>1. n + 1 \in 1 .. m /\ n + 1 \in 0 .. m /\ (n + 1) - 1 = n /\ n \in Nat
    BY <1>2
  <2>2. So(n + 1) = So(n) \cup {rules[n + 1]}
    <3>1. 1 .. n + 1 = (1 .. n) \cup {n + 1}
      BY <2>1
    <3> QED BY <3>1
  <2> HIDE DEF So
  <2>3. f[n] \in Good /\ Sought(f[n]) = Sought(b) \cup So(n)
    BY <1>4
  <2>4. f[n + 1] = AtLevel(f[n], rules[n + 1]) /\ rules[n + 1] \in Checker
    BY <1>1, <1>2, <2>1
  <2>5. f[n + 1] \in Good /\ Sought(f[n + 1]) = Sought(f[n]) \cup {rules[n + 1]}
    BY <2>3, <2>4, AtLevelGood
  <2> QED BY <2>1, <2>2, <2>3, <2>5
<1>5. m \in S
  <2> HIDE DEF S
  <2>1. 0 .. m \subseteq S
    BY <1>2, <1>3, <1>4, Induction
  <2> QED BY <1>2, <2>1
<1>6. So(m) = ToSet(rules)
  BY DEF ToSet, m
<1> HIDE DEF So
<1> QED BY <1>1, <1>5, <1>6
-----------------------------------------------------------------------------
(* What the builder is registered as.                                      *)

LEMMA FlattenScan ==
    ASSUME NEW C, NEW ts \in Seq(Seq(C))
    PROVE  \E text \in [0 .. Len(ts) -> Seq(C)] :
               /\ text[0] = <<>>
               /\ \A n \in 1 .. Len(ts) : text[n] = text[n - 1] \o ts[n]
               /\ FlattenSeq(ts) = text[Len(ts)]
<1> DEFINE X == Seq(C)
           m == Len(ts)
           step == [n \in 1 .. m |-> [x \in X |-> x \o ts[n]]]
           Is(f) == f = [n \in 1 .. m |-> IF n = 1 THEN ts[n] ELSE f[n - 1] \o ts[n]]
           g == CHOOSE f : Is(f)
           text == [n \in 0 .. m |-> IF n = 0 THEN <<>> ELSE g[n]]
<1>1. /\ m \in Nat /\ <<>> \in X
      /\ \A n \in 1 .. m : ts[n] \in X
      /\ \A x, y \in X : x \o y \in X
      /\ \A x \in X : <<>> \o x = x
  BY ConcatProperties, ConcatEmptySeq
<1> HIDE DEF X
<1>2. step \in [1 .. m -> [X -> X]]
  BY <1>1
<1>3. PICK f : Follows(f, X, m, <<>>, step)
  <2> HIDE DEF m, step
  <2> QED BY <1>1, <1>2, Recursion
<1>4. ASSUME NEW n \in 1 .. m PROVE f[n] = f[n - 1] \o ts[n] /\ f[n] \in X
  <2>1. n - 1 \in 0 .. m /\ n \in 0 .. m
    OBVIOUS
  <2>2. f[n] = step[n][f[n - 1]] /\ f[n - 1] \in X
    <3> HIDE DEF m, step
    <3> QED BY <1>3, <2>1 DEF Follows
  <2> QED BY <1>1, <2>2
<1>5. f[0] = <<>>
  BY <1>3 DEF Follows
<1> DEFINE h == [n \in 1 .. m |-> f[n]]
<1>6. Is(h)
  <2>1. ASSUME NEW n \in 1 .. m
        PROVE  h[n] = IF n = 1 THEN ts[n] ELSE h[n - 1] \o ts[n]
    <3>1. CASE n = 1
      <4>1. f[n] = f[n - 1] \o ts[n] /\ ts[n] \in X /\ h[n] = f[n]
        BY <1>1, <1>4
      <4>2. f[n - 1] = <<>>
        BY <3>1, <1>5
      <4> HIDE DEF h, m
      <4> QED BY <3>1, <4>1, <4>2, <1>1
    <3>2. CASE n # 1
      <4>1. n - 1 \in 1 .. m
        BY <3>2
      <4> QED BY <3>2, <4>1, <1>4
    <3> QED BY <3>1, <3>2
  <2>2. h = [n \in 1 .. m |-> h[n]]
    OBVIOUS
  <2> HIDE DEF h, m
  <2> QED BY <2>1, <2>2
<1>7. Is(g)
  <2> HIDE DEF h
  <2> QED BY <1>6
<1>8. CASE m = 0
  <2>1. FlattenSeq(ts) = <<>>
    BY <1>8 DEF FlattenSeq
  <2> HIDE DEF Is, g
  <2>2. text \in [0 .. m -> X] /\ text[0] = <<>> /\ text[m] = <<>>
    BY <1>1, <1>8
  <2>3. \A n \in 1 .. m : text[n] = text[n - 1] \o ts[n]
    BY <1>8
  <2> HIDE DEF text
  <2> QED BY <2>1, <2>2, <2>3 DEF X
<1>9. CASE m # 0
  <2>1. FlattenSeq(ts) = g[m]
    BY <1>9 DEF FlattenSeq
  <2> HIDE DEF g
  <2>2. ASSUME NEW n \in 1 .. m PROVE g[n] = IF n = 1 THEN ts[n] ELSE g[n - 1] \o ts[n]
    <3> HIDE DEF m
    <3> QED BY <1>7
  <2> DEFINE S == {n \in 0 .. m : n = 0 \/ g[n] \in X}
  <2>3. 0 .. m \subseteq S
    <3>1. 0 \in S
      BY <1>1
    <3>2. ASSUME NEW n \in 0 .. m - 1, n \in S PROVE n + 1 \in S
      <4>1. n + 1 \in 1 .. m /\ n + 1 \in 0 .. m /\ (n + 1) - 1 = n
        OBVIOUS
      <4>2. g[n + 1] = IF n + 1 = 1 THEN ts[n + 1] ELSE g[n] \o ts[n + 1]
        BY <2>2, <4>1
      <4>3. ts[n + 1] \in X /\ (n = 0 \/ g[n] \in X)
        BY <1>1, <3>2, <4>1
      <4>4. g[n + 1] \in X
        <5> HIDE DEF m
        <5> QED BY <4>2, <4>3, <1>1
      <4> QED BY <4>1, <4>4
    <3> HIDE DEF S, m
    <3> QED BY <1>1, <3>1, <3>2, Induction
  <2>4. ASSUME NEW n \in 0 .. m PROVE text[n] \in X
    BY <1>1, <2>3
  <2>5. ASSUME NEW n \in 1 .. m PROVE text[n] = text[n - 1] \o ts[n]
    <3>1. n \in 0 .. m /\ n - 1 \in 0 .. m /\ n # 0
      OBVIOUS
    <3>2. CASE n = 1
      BY <3>1, <3>2, <1>1, <2>2
    <3>3. CASE n # 1
      <4>1. n - 1 # 0 /\ text[n - 1] = g[n - 1] /\ text[n] = g[n]
        BY <3>1, <3>3
      <4> HIDE DEF text, m
      <4> QED BY <3>3, <4>1, <2>2
    <3> QED BY <3>2, <3>3
  <2>6. text[0] = <<>> /\ text[m] = g[m]
    BY <1>1, <1>9
  <2>7. text \in [0 .. m -> X]
    <3>1. text = [n \in 0 .. m |-> text[n]]
      OBVIOUS
    <3> HIDE DEF text, m
    <3> QED BY <2>4, <3>1
  <2> HIDE DEF text
  <2> QED BY <2>1, <2>5, <2>6, <2>7 DEF X
<1> QED BY <1>8, <1>9


LEMMA ToSetConcat ==
    ASSUME NEW T, NEW s \in Seq(T), NEW t \in Seq(T)
    PROVE  ToSet(s \o t) = ToSet(s) \cup ToSet(t)
<1> DEFINE us == s \o t
<1>1. /\ Len(s) \in Nat /\ Len(t) \in Nat
      /\ DOMAIN s = 1 .. Len(s) /\ DOMAIN t = 1 .. Len(t)
      /\ DOMAIN us = 1 .. Len(s) + Len(t)
      /\ \A n \in 1 .. Len(s) : us[n] = s[n]
      /\ \A n \in 1 .. Len(t) : us[Len(s) + n] = t[n]
  BY ConcatProperties
<1> HIDE DEF us
<1>2. ASSUME NEW n \in DOMAIN us PROVE us[n] \in ToSet(s) \cup ToSet(t)
  <2>1. CASE n <= Len(s)
    <3>1. n \in DOMAIN s /\ us[n] = s[n]
      BY <1>1, <2>1
    <3> QED BY <3>1 DEF ToSet
  <2>2. CASE n > Len(s)
    <3>1. n - Len(s) \in DOMAIN t /\ Len(s) + (n - Len(s)) = n
      BY <1>1, <2>2
    <3>2. us[n] = t[n - Len(s)]
      BY <1>1, <3>1
    <3> QED BY <3>1, <3>2 DEF ToSet
  <2> QED BY <1>1, <2>1, <2>2
<1>3. ASSUME NEW n \in DOMAIN s PROVE s[n] \in ToSet(us)
  <2>1. n \in DOMAIN us /\ us[n] = s[n]
    BY <1>1
  <2> QED BY <2>1 DEF ToSet
<1>4. ASSUME NEW n \in DOMAIN t PROVE t[n] \in ToSet(us)
  <2>1. Len(s) + n \in DOMAIN us /\ us[Len(s) + n] = t[n]
    BY <1>1
  <2> QED BY <2>1 DEF ToSet
<1>5. ToSet(us) = ToSet(s) \cup ToSet(t)
  BY <1>2, <1>3, <1>4 DEF ToSet
<1> QED BY <1>5 DEF us

LEMMA FlattenElements ==
    ASSUME NEW C, NEW ts \in Seq(Seq(C))
    PROVE  /\ FlattenSeq(ts) \in Seq(C)
           /\ ToSet(FlattenSeq(ts)) = UNION {ToSet(ts[x]) : x \in DOMAIN ts}
<1> DEFINE m == Len(ts)
           Of(n) == UNION {ToSet(ts[x]) : x \in 1 .. n}
<1>1. PICK text \in [0 .. m -> Seq(C)] :
               /\ text[0] = <<>>
               /\ \A n \in 1 .. m : text[n] = text[n - 1] \o ts[n]
               /\ FlattenSeq(ts) = text[m]
  BY FlattenScan
<1>2. m \in Nat /\ DOMAIN ts = 1 .. m /\ \A n \in 1 .. m : ts[n] \in Seq(C)
  OBVIOUS
<1> HIDE DEF m
<1> DEFINE S == {n \in 0 .. m : ToSet(text[n]) = Of(n)}
<1>3. 0 \in S
  <2>1. Of(0) = {} /\ ToSet(<<>>) = {} /\ 0 \in 0 .. m
    BY <1>2 DEF ToSet
  <2> QED BY <1>1, <2>1
<1>4. ASSUME NEW n \in 0 .. m - 1, n \in S PROVE n + 1 \in S
  <2>1. n + 1 \in 1 .. m /\ n + 1 \in 0 .. m /\ (n + 1) - 1 = n /\ n \in Nat /\ n \in 0 .. m
    BY <1>2
  <2>2. Of(n + 1) = Of(n) \cup ToSet(ts[n + 1])
    <3>1. 1 .. n + 1 = (1 .. n) \cup {n + 1}
      BY <2>1
    <3> QED BY <3>1
  <2> HIDE DEF Of
  <2>3. text[n + 1] = text[n] \o ts[n + 1] /\ text[n] \in Seq(C) /\ ts[n + 1] \in Seq(C)
    BY <1>1, <1>2, <2>1
  <2>4. ToSet(text[n + 1]) = ToSet(text[n]) \cup ToSet(ts[n + 1])
    BY <2>3, ToSetConcat
  <2> QED BY <1>4, <2>1, <2>2, <2>4
<1>5. m \in S /\ text[m] \in Seq(C)
  <2> HIDE DEF S
  <2>1. 0 .. m \subseteq S
    BY <1>2, <1>3, <1>4, Induction
  <2> QED BY <1>1, <1>2, <2>1
<1> QED BY <1>1, <1>2, <1>5

LEMMA ClassesOf ==
    ASSUME NEW T, NEW es \in Seq(T)
    PROVE  Classes(es) = {e.class : e \in ToSet(es)}
BY DEF Classes, ToSet

LEMMA OfSetsElements ==
    ASSUME NEW C, NEW f, builder.sets \in Seq(DOMAIN SetRules),
           \A set \in DOMAIN SetRules : f[set] \in Seq(C)
    PROVE  /\ OfSets(f) \in Seq(C)
           /\ ToSet(OfSets(f)) = UNION {ToSet(f[set]) : set \in ToSet(builder.sets)}
<1> DEFINE sets == builder.sets
           ts == [i \in DOMAIN sets |-> f[sets[i]]]
<1>1. /\ DOMAIN sets = 1 .. Len(sets) /\ Len(sets) \in Nat
      /\ \A n \in DOMAIN sets : sets[n] \in DOMAIN SetRules
  BY LenProperties
<1> HIDE DEF sets
<1>2. DOMAIN ts = DOMAIN sets /\ \A n \in DOMAIN sets : ts[n] = f[sets[n]] /\ ts[n] \in Seq(C)
  BY <1>1
<1>3. ts \in Seq(Seq(C))
  <2>1. ts \in [1 .. Len(sets) -> Seq(C)]
    BY <1>1
  <2> HIDE DEF ts
  <2> QED BY <1>1, <2>1, SeqDef
<1> HIDE DEF ts
<1>4. /\ FlattenSeq(ts) \in Seq(C)
      /\ ToSet(FlattenSeq(ts)) = UNION {ToSet(ts[x]) : x \in DOMAIN ts}
  BY <1>3, FlattenElements
<1>5. UNION {ToSet(ts[x]) : x \in DOMAIN ts} = UNION {ToSet(f[set]) : set \in ToSet(sets)}
  BY <1>2 DEF ToSet
<1> QED BY <1>4, <1>5 DEF OfSets, ts, sets

LEMMA MaxIs ==
    ASSUME NEW S \in SUBSET Nat, NEW n \in S, \A x \in S : x <= n
    PROVE  Max(S) = n
<1> DEFINE m == Max(S)
<1>1. m \in S /\ \A x \in S : m >= x
  <2>1. \E x \in S : \A y \in S : x >= y
    OBVIOUS
  <2> QED BY <2>1 DEF Max
<1> HIDE DEF m
<1>2. m \in Nat /\ n \in Nat /\ m >= n /\ m <= n
  BY <1>1
<1>3. m = n
  BY <1>2
<1> QED BY <1>3 DEF m

(* The entry that counts for a class is the last one.                      *)
LEMMA LastIs ==
    ASSUME NEW T, NEW es \in Seq(T), NEW n \in DOMAIN es, NEW c, es[n].class = c,
           \A m \in DOMAIN es : es[m].class = c => m <= n
    PROVE  LastOf(es, c) = es[n]
<1> DEFINE S == {i \in 1 .. Len(es) : es[i].class = c}
<1>1. /\ DOMAIN es = 1 .. Len(es) /\ Len(es) \in Nat
      /\ n \in S /\ S \in SUBSET Nat /\ \A x \in S : x <= n
  BY LenProperties
<1>2. Max(S) = n
  <2> HIDE DEF S
  <2> QED BY <1>1, MaxIs
<1> QED BY <1>1, <1>2 DEF LastOf, SelectLastInSeq

LEMMA GreatestNatural ==
    ASSUME NEW m \in Nat, NEW S \in SUBSET (0 .. m), S # {}
    PROVE  \E n \in S : \A x \in S : x <= n
<1> DEFINE T == {x \in 0 .. m : m - x \in S}
<1>1. PICK y \in S : TRUE
  OBVIOUS
<1>2. m - y \in T /\ T \in SUBSET Nat
  BY <1>1
<1>3. PICK n \in T : \A x \in T : n <= x
  <2> HIDE DEF T
  <2> QED BY <1>2, LeastNatural
<1>4. m - n \in S
  BY <1>3
<1>5. \A x \in S : m - x \in T
  OBVIOUS
<1>6. \A x \in S : x <= m - n
  BY <1>3, <1>5
<1> QED BY <1>4, <1>6

LEMMA LastExists ==
    ASSUME NEW T, NEW es \in Seq(T), NEW c \in Classes(es)
    PROVE  LastOf(es, c) \in ToSet(es) /\ LastOf(es, c).class = c
<1> DEFINE S == {n \in DOMAIN es : es[n].class = c}
<1>1. DOMAIN es = 1 .. Len(es) /\ Len(es) \in Nat /\ S # {}
  BY LenProperties DEF Classes
<1>2. S \in SUBSET (0 .. Len(es))
  BY <1>1
<1>3. PICK n \in S : \A x \in S : x <= n
  <2> HIDE DEF S
  <2> QED BY <1>1, <1>2, GreatestNatural
<1>4. n \in DOMAIN es /\ es[n].class = c /\ \A x \in DOMAIN es : es[x].class = c => x <= n
  BY <1>3
<1>5. LastOf(es, c) = es[n]
  BY <1>4, LastIs
<1> QED BY <1>4, <1>5 DEF ToSet

OfRules == [i \in DOMAIN builder.rules |-> Entry(builder.rules[i], Default)]
BeforeConfigured == OfSets(SetRules) \o OfRules

LEMMA BeforeConfiguredIs ==
    ASSUME builder \in Good
    PROVE  /\ BeforeConfigured \in Seq(Entries)
           /\ Classes(BeforeConfigured) = InSets(builder.sets) \cup ToSet(builder.rules)
<1> DEFINE rs == builder.rules
<1>1. rs \in Seq(Checker) /\ builder.sets \in Seq(DOMAIN SetRules)
  BY BuilderFields
<1>2. \A set \in DOMAIN SetRules : SetRules[set] \in Seq(Entries)
  BY CallsAssumption DEF CallsAssumption
<1>3. /\ OfSets(SetRules) \in Seq(Entries)
      /\ ToSet(OfSets(SetRules)) = UNION {ToSet(SetRules[set]) : set \in ToSet(builder.sets)}
  BY <1>1, <1>2, OfSetsElements
<1>4. Classes(OfSets(SetRules)) = InSets(builder.sets)
  <2>1. \A set \in ToSet(builder.sets) : set \in DOMAIN SetRules
    BY <1>1 DEF ToSet
  <2>2. \A set \in ToSet(builder.sets) : Classes(SetRules[set]) = {e.class : e \in ToSet(SetRules[set])}
    BY <1>2, <2>1, ClassesOf
  <2>3. Classes(OfSets(SetRules)) = {e.class : e \in ToSet(OfSets(SetRules))}
    BY <1>3, ClassesOf
  <2>4. ASSUME NEW c \in Classes(OfSets(SetRules)) PROVE c \in InSets(builder.sets)
    <3>1. PICK set \in ToSet(builder.sets) : \E e \in ToSet(SetRules[set]) : e.class = c
      BY <1>3, <2>3
    <3>2. c \in Classes(SetRules[set])
      BY <2>2, <3>1
    <3> QED BY <3>2 DEF InSets
  <2>5. ASSUME NEW c \in InSets(builder.sets) PROVE c \in Classes(OfSets(SetRules))
    <3>1. PICK set \in ToSet(builder.sets) : c \in Classes(SetRules[set])
      BY DEF InSets
    <3>2. PICK e \in ToSet(SetRules[set]) : e.class = c
      BY <2>2, <3>1
    <3>3. e \in ToSet(OfSets(SetRules))
      BY <1>3, <3>2
    <3> QED BY <2>3, <3>2, <3>3
  <2> QED BY <2>4, <2>5
<1>5. /\ DOMAIN rs = 1 .. Len(rs) /\ Len(rs) \in Nat
      /\ \A n \in DOMAIN rs : rs[n] \in Checker
  BY <1>1, LenProperties
<1> HIDE DEF rs
<1>6. /\ DOMAIN OfRules = DOMAIN rs
      /\ \A n \in DOMAIN rs : OfRules[n] \in Entries /\ OfRules[n].class = rs[n]
  <2>1. Default \in Config
    BY CallsAssumption DEF CallsAssumption
  <2> QED BY <1>5, <2>1, EntryType DEF OfRules, rs
<1>7. OfRules \in Seq(Entries)
  <2>1. OfRules = [n \in DOMAIN rs |-> OfRules[n]]
    BY DEF OfRules, rs
  <2>2. OfRules \in [1 .. Len(rs) -> Entries]
    BY <1>5, <1>6, <2>1
  <2> QED BY <1>5, <2>2, SeqDef
<1>8. Classes(OfRules) = ToSet(rs)
  BY <1>6 DEF Classes, ToSet
<1>9. /\ BeforeConfigured \in Seq(Entries)
      /\ ToSet(BeforeConfigured) = ToSet(OfSets(SetRules)) \cup ToSet(OfRules)
  BY <1>3, <1>7, ToSetConcat, ConcatProperties DEF BeforeConfigured
<1>10. Classes(BeforeConfigured) = Classes(OfSets(SetRules)) \cup Classes(OfRules)
  BY <1>3, <1>7, <1>9, ClassesOf
<1> QED BY <1>4, <1>8, <1>9, <1>10 DEF rs

LEMMA RegisteredIs ==
    ASSUME builder \in Good
    PROVE  Registered \in Seq(Entries) /\ Classes(Registered) = Sought(builder)
<1>1. Registered = BeforeConfigured \o builder.configured
  BY DEF Registered, BeforeConfigured, OfRules
<1>2. BeforeConfigured \in Seq(Entries) /\ builder.configured \in Seq(Entries)
  BY BeforeConfiguredIs, BuilderFields
<1>3. /\ Registered \in Seq(Entries)
      /\ ToSet(Registered) = ToSet(BeforeConfigured) \cup ToSet(builder.configured)
  BY <1>1, <1>2, ToSetConcat, ConcatProperties
<1>4. Classes(Registered) = Classes(BeforeConfigured) \cup Classes(builder.configured)
  BY <1>2, <1>3, ClassesOf
<1> QED BY <1>3, <1>4, BeforeConfiguredIs DEF Sought

(* What withConfiguredRule says is registered last.                        *)
LEMMA ConfiguredIsLast ==
    ASSUME builder \in Good, NEW x \in DOMAIN builder.configured
    PROVE  LastOf(Registered, builder.configured[x].class) = builder.configured[x]
<1> DEFINE us == BeforeConfigured
           es == builder.configured
           c == es[x].class
           n == Len(us) + x
<1>1. Registered = us \o es
  BY DEF Registered, BeforeConfigured, OfRules
<1>2. us \in Seq(Entries) /\ es \in Seq(Entries) /\ Unique(es) /\ Registered \in Seq(Entries)
  BY BeforeConfiguredIs, RegisteredIs, BuilderFields
<1> HIDE DEF us, es
<1>3. /\ Len(us) \in Nat /\ Len(es) \in Nat /\ DOMAIN es = 1 .. Len(es)
      /\ DOMAIN Registered = 1 .. Len(us) + Len(es)
      /\ \A m \in 1 .. Len(es) : Registered[Len(us) + m] = es[m]
  BY <1>1, <1>2, ConcatProperties
<1>4. x \in 1 .. Len(es)
  BY <1>3 DEF es
<1>5. n \in DOMAIN Registered /\ Registered[n] = es[x] /\ Registered[n].class = c
  BY <1>3, <1>4
<1>6. ASSUME NEW m \in DOMAIN Registered, Registered[m].class = c PROVE m <= n
  <2> SUFFICES ASSUME m > n PROVE FALSE
    BY <1>3, <1>4
  <2>1. m - Len(us) \in 1 .. Len(es) /\ Len(us) + (m - Len(us)) = m /\ m - Len(us) # x
    BY <1>3, <1>4
  <2>2. Registered[m] = es[m - Len(us)]
    BY <1>3, <2>1
  <2> QED BY <1>2, <1>3, <1>4, <1>6, <2>1, <2>2 DEF Unique
<1>7. LastOf(Registered, c) = Registered[n]
  BY <1>2, <1>5, <1>6, LastIs
<1> QED BY <1>5, <1>7 DEF c, es
-----------------------------------------------------------------------------
(* From ecs.php to the checkers that are kept.                             *)

Ecses ==
    [order : Seq(Checker), conf : UNION {[S -> Config] : S \in SUBSET Checker},
     removed : SUBSET Checker, skip : Seq(SkipEntries)]

Configured ==
    /\ ecs \in Ecses
    /\ ToSet(ecs.order) = DOMAIN ecs.conf /\ DOMAIN ecs.conf = Sought(builder)
    /\ \A n \in DOMAIN builder.configured :
           ecs.conf[builder.configured[n].class] = builder.configured[n].config

Stands(c) ==
    \/ c \in Kept(ecs) \cup Excluded
    \/ \E d \in Duplicated : d[2] = c /\ d[1] \in Kept(ecs)

ConfigInv ==
    /\ builder \in Good
    /\ stage \in {"config", "invoked", "booted", "dumped", "resolved", "rejected", "file"}
    /\ asked \subseteq overwritten \cup Sought(builder)
    /\ stage \notin {"config", "rejected"} => Configured
    /\ stage = "invoked" => ecs.removed = {}
    /\ stage \notin {"config", "rejected", "invoked"} =>
           /\ \A c \in Sought(builder) : Stands(c)
           /\ ~Conflict(Kept(ecs))

LEMMA EcsFields ==
    \A e \in Ecses :
        /\ e.order \in Seq(Checker) /\ e.conf \in [DOMAIN e.conf -> Config]
        /\ DOMAIN e.conf \subseteq Checker /\ e.removed \subseteq Checker
        /\ e.skip \in Seq(SkipEntries)
BY DEF Ecses

NoCall ==
    [sets |-> <<>>, rules |-> <<>>, configured |-> <<>>, skip |-> <<>>, levelUsed |-> FALSE]

LEMMA NoCallIs == NoCall \in Good /\ Sought(NoCall) = {}
<1>1. NoCall \in Good
  BY DEF NoCall, Good, Builders, Unique
<1>2. Sought(NoCall) = {}
  <2>1. ToSet(<<>>) = {} /\ Classes(<<>>) = {}
    BY DEF ToSet, Classes
  <2> QED BY <2>1 DEF NoCall, Sought, InSets
<1> QED BY <1>1, <1>2

LEMMA InitEcsInv == ASSUME InitEcs PROVE ConfigInv
<1>1. builder = NoCall /\ stage = "config" /\ asked = {}
  BY DEF InitEcs, ConfigInit, NoCall
<1> QED BY <1>1, NoCallIs DEF ConfigInv

LEMMA InitLoadedInv == ASSUME InitLoaded PROVE ConfigInv
<1>1. builder = NoCall /\ stage = "resolved" /\ asked = {}
  BY DEF InitLoaded, NoCall
<1>2. PICK p \in SkipPaths :
          ecs = [order |-> <<>>, conf |-> <<>>, removed |-> {},
                 skip |-> <<SkipClass(NoClass, FALSE, {p})>>]
  BY DEF InitLoaded
<1>3. SkipClass(NoClass, FALSE, {p}) \in SkipEntries
  <2>1. {p} \in SUBSET Path
    BY SkipAssumption DEF SkipAssumption
  <2> QED BY <2>1 DEF SkipClass, SkipEntries
<1>4. ecs \in Ecses /\ DOMAIN ecs.conf = {} /\ ToSet(ecs.order) = {}
  <2>1. <<>> \in [{} -> Config] /\ {} \in SUBSET Checker
    OBVIOUS
  <2>2. <<>> \in UNION {[S -> Config] : S \in SUBSET Checker}
    BY <2>1
  <2> DEFINE e == SkipClass(NoClass, FALSE, {p})
  <2>3. ecs = [order |-> <<>>, conf |-> <<>>, removed |-> {}, skip |-> <<e>>] /\ e \in SkipEntries
    BY <1>2, <1>3
  <2> HIDE DEF e
  <2>4. <<e>> \in Seq(SkipEntries) /\ <<>> \in Seq(Checker)
    BY <2>3
  <2>5. ecs \in Ecses
    BY <2>2, <2>3, <2>4 DEF Ecses
  <2> QED BY <2>3, <2>5 DEF ToSet
<1>5. Configured
  BY <1>1, <1>4, NoCallIs DEF Configured, NoCall
<1>6. ~Conflict(Kept(ecs))
  BY <1>4 DEF Conflict, Kept
<1> QED BY <1>1, <1>5, <1>6, NoCallIs DEF ConfigInv

LEMMA ConfigInvStays ==
    ASSUME ConfigInv, UNCHANGED <<stage, builder, ecs, asked, overwritten>>
    PROVE  ConfigInv'
BY DEF ConfigInv, Configured, Stands, Conflict, Kept, Excluded, NamesClass

LEMMA CallsInv == ASSUME ConfigInv, Calls PROVE ConfigInv'
<1>1. /\ stage = "config" /\ stage' = "config"
      /\ builder \in Good /\ asked \subseteq overwritten \cup Sought(builder)
  BY DEF ConfigInv, Calls, WithRules, WithConfiguredRule, WithSets, WithSkip, WithLevel, Call
<1> SUFFICES builder' \in Good /\ asked' \subseteq overwritten' \cup Sought(builder')
  BY <1>1 DEF ConfigInv
<1>2. ASSUME NEW rules \in RuleLists, WithRules(rules)
      PROVE  builder' \in Good /\ asked' \subseteq overwritten' \cup Sought(builder')
  <2>1. /\ rules \in Seq(Checker) /\ builder' = [builder EXCEPT !.rules = rules]
        /\ asked' = asked \cup ToSet(rules)
        /\ overwritten' = (overwritten \cup ToSet(builder.rules)) \ ToSet(rules)
    BY <1>2, CallsAssumption DEF CallsAssumption, WithRules, Call
  <2>2. /\ builder' \in Good /\ builder'.sets = builder.sets
        /\ builder'.rules = rules /\ builder'.configured = builder.configured
    BY <1>1, <2>1 DEF Good, Builders
  <2> QED BY <1>1, <2>1, <2>2 DEF Sought
<1>3. ASSUME NEW e \in ConfiguredRules, WithConfiguredRule(e)
      PROVE  builder' \in Good /\ asked' \subseteq overwritten' \cup Sought(builder')
  <2>1. /\ e \in Entries /\ builder' = [builder EXCEPT !.configured = Put(@, e)]
        /\ asked' = asked \cup {e.class} /\ overwritten' = overwritten
    BY <1>3, CallsAssumption DEF CallsAssumption, WithConfiguredRule, Call
  <2>2. builder' \in Good /\ Sought(builder') = Sought(builder) \cup {e.class}
    BY <1>1, <2>1, ConfigurePut
  <2> QED BY <1>1, <2>1, <2>2
<1>4. ASSUME NEW set \in DOMAIN SetRules, WithSets(set)
      PROVE  builder' \in Good /\ asked' \subseteq overwritten' \cup Sought(builder')
  <2> DEFINE sets == Append(builder.sets, set)
  <2>1. /\ builder' = [builder EXCEPT !.sets = sets]
        /\ asked' = asked \cup Classes(SetRules[set]) /\ overwritten' = overwritten
    BY <1>4 DEF WithSets, Call
  <2>2. sets \in Seq(DOMAIN SetRules) /\ ToSet(sets) = ToSet(builder.sets) \cup {set}
    BY <1>1, BuilderFields, ToSetAppend, AppendProperties
  <2> HIDE DEF sets
  <2>3. /\ builder' \in Good /\ builder'.sets = sets
        /\ builder'.rules = builder.rules /\ builder'.configured = builder.configured
    BY <1>1, <2>1, <2>2 DEF Good, Builders
  <2>4. InSets(sets) = InSets(builder.sets) \cup Classes(SetRules[set])
    BY <2>2 DEF InSets
  <2> QED BY <1>1, <2>1, <2>3, <2>4 DEF Sought
<1>5. ASSUME NEW skip \in SkipLists, WithSkip(skip)
      PROVE  builder' \in Good /\ asked' \subseteq overwritten' \cup Sought(builder')
  <2>1. /\ builder' = [builder EXCEPT !.skip = skip]
        /\ asked' = asked /\ overwritten' = overwritten
    BY <1>5 DEF WithSkip, Call
  <2>2. /\ builder' \in Good /\ builder'.sets = builder.sets
        /\ builder'.rules = builder.rules /\ builder'.configured = builder.configured
    BY <1>1, <2>1 DEF Good, Builders
  <2> QED BY <1>1, <2>1, <2>2 DEF Sought
<1>6. ASSUME NEW level \in Levels, WithLevel(level)
      PROVE  builder' \in Good /\ asked' \subseteq overwritten' \cup Sought(builder')
  <2> DEFINE upTo == IF level < Len(Level) THEN level + 1 ELSE Len(Level)
             rules == SubSeq(Level, 1, upTo)
             b == AllAtLevel(builder, rules)
  <2>1. rules \in Seq(Checker)
    <3>1. Level \in Seq(Checker) /\ level \in Nat
      BY CallsAssumption DEF CallsAssumption
    <3>2. Len(Level) \in Nat /\ upTo \in 0 .. Len(Level) /\ \A n \in 1 .. upTo : Level[n] \in Checker
      BY <3>1
    <3> HIDE DEF upTo
    <3> QED BY <3>1, <3>2, SubSeqProperties
  <2>2. /\ builder' = [b EXCEPT !.levelUsed = TRUE]
        /\ asked' = asked \cup ToSet(rules)
        /\ overwritten' = overwritten \ ToSet(rules)
    BY <1>6 DEF WithLevel, Call
  <2> HIDE DEF rules
  <2>3. b \in Good /\ Sought(b) = Sought(builder) \cup ToSet(rules)
    BY <1>1, <2>1, AllAtLevelGood
  <2> HIDE DEF b
  <2>4. /\ builder' \in Good /\ builder'.sets = b.sets
        /\ builder'.rules = b.rules /\ builder'.configured = b.configured
    BY <2>2, <2>3 DEF Good, Builders
  <2> QED BY <1>1, <2>2, <2>3, <2>4 DEF Sought
<1> QED BY <1>2, <1>3, <1>4, <1>5, <1>6 DEF Calls

LEMMA RejectInv == ASSUME ConfigInv, Reject PROVE ConfigInv'
BY DEF ConfigInv, Reject

LEMMA InvokeInv == ASSUME ConfigInv, Invoke PROVE ConfigInv'
<1>1. /\ stage' = "invoked" /\ builder' = builder /\ asked' = asked /\ overwritten' = overwritten
      /\ builder \in Good /\ asked \subseteq overwritten \cup Sought(builder)
      /\ ecs' = [order |-> [i \in DOMAIN Registered |-> Registered[i].class],
                 conf |-> [c \in Classes(Registered) |-> LastOf(Registered, c).config],
                 removed |-> {},
                 skip |-> OfSets(SetSkips) \o builder.skip]
  BY DEF ConfigInv, Invoke
<1> DEFINE reg == Registered
           order == [i \in DOMAIN reg |-> reg[i].class]
           conf == [c \in Classes(reg) |-> LastOf(reg, c).config]
           skip == OfSets(SetSkips) \o builder.skip
<1>2. reg \in Seq(Entries) /\ Classes(reg) = Sought(builder)
  BY <1>1, RegisteredIs
<1>3. \A n \in DOMAIN builder.configured :
          LastOf(reg, builder.configured[n].class) = builder.configured[n]
  BY <1>1, ConfiguredIsLast
<1> HIDE DEF reg
<1>4. Classes(reg) \subseteq Checker
  <2>1. \A n \in DOMAIN reg : reg[n] \in Entries
    BY <1>2
  <2> QED BY <2>1, EntryFields DEF Classes
<1>5. conf \in [Classes(reg) -> Config]
  <2>1. ASSUME NEW c \in Classes(reg) PROVE LastOf(reg, c).config \in Config
    <3>1. LastOf(reg, c) \in ToSet(reg)
      BY <1>2, LastExists
    <3>2. LastOf(reg, c) \in Entries
      BY <1>2, <3>1 DEF ToSet
    <3> QED BY <3>2, EntryFields
  <2> QED BY <2>1
<1>6. order \in Seq(Checker) /\ ToSet(order) = Classes(reg)
  <2>1. DOMAIN reg = 1 .. Len(reg) /\ Len(reg) \in Nat /\ \A n \in DOMAIN reg : reg[n] \in Entries
    BY <1>2, LenProperties
  <2>2. order \in [1 .. Len(reg) -> Checker]
    BY <2>1, EntryFields
  <2>3. ToSet(order) = Classes(reg)
    BY DEF ToSet, Classes
  <2> HIDE DEF order
  <2> QED BY <2>1, <2>2, <2>3, SeqDef
<1>7. skip \in Seq(SkipEntries)
  <2>1. \A set \in DOMAIN SetRules : SetSkips[set] \in Seq(SkipEntries)
    BY SkipAssumption DEF SkipAssumption
  <2>2. OfSets(SetSkips) \in Seq(SkipEntries)
    BY <1>1, <2>1, BuilderFields, OfSetsElements
  <2>3. builder.skip \in Seq(SkipEntries)
    <3>1. SkipLists \subseteq Seq(SkipEntries) /\ <<>> \in Seq(SkipEntries)
      BY SkipAssumption DEF SkipAssumption
    <3> QED BY <1>1, <3>1, BuilderFields
  <2> QED BY <2>2, <2>3, ConcatProperties
<1>8. ecs' = [order |-> order, conf |-> conf, removed |-> {}, skip |-> skip]
  BY <1>1 DEF reg
<1>9. ASSUME NEW n \in DOMAIN builder.configured
      PROVE  conf[builder.configured[n].class] = builder.configured[n].config
  <2>1. builder.configured[n].class \in Classes(reg)
    BY <1>2 DEF Sought, Classes
  <2> QED BY <1>3, <2>1
<1>10. DOMAIN conf = Classes(reg)
  OBVIOUS
<1> HIDE DEF order, conf, skip
<1>11. conf \in UNION {[S -> Config] : S \in SUBSET Checker}
  BY <1>4, <1>5
<1>12. ecs' \in Ecses
  BY <1>6, <1>7, <1>8, <1>11 DEF Ecses
<1>13. ecs'.order = order /\ ecs'.conf = conf /\ ecs'.removed = {}
  BY <1>8
<1>14. Configured'
  BY <1>1, <1>2, <1>6, <1>9, <1>10, <1>12, <1>13 DEF Configured
<1> QED BY <1>1, <1>13, <1>14 DEF ConfigInv

(* Of two checkers that do the same one is kept: the best of those that    *)
(* replace it is replaced by none.                                         *)
LEMMA BootedKeeps ==
    ASSUME ecs \in Ecses, ecs.removed = {}, NEW c \in DOMAIN ecs.conf
    PROVE  \/ c \in Kept(Booted(ecs)) \cup Excluded
           \/ \E d \in Duplicated : d[2] = c /\ d[1] \in Kept(Booted(ecs))
<1> DEFINE e1 == RemoveExcluded(ecs)
           K == DOMAIN ecs.conf \ Excluded
<1>1. e1 \in Ecses /\ e1.conf = ecs.conf /\ e1.removed = Excluded \cap DOMAIN ecs.conf
  BY EcsFields DEF RemoveExcluded, Ecses, Kept
<1>2. Kept(e1) = K
  BY <1>1 DEF Kept
<1> HIDE DEF e1
<1> DEFINE Lost == {d[2] : d \in {d \in Duplicated : d[1] \in K /\ d[2] \in K}}
<1>3. Booted(ecs).conf = ecs.conf /\ Booted(ecs).removed = e1.removed \cup Lost
  <2>1. Booted(ecs) = [e1 EXCEPT !.removed = @ \cup Lost]
    BY <1>2 DEF Booted, RemoveMutual, e1
  <2> HIDE DEF Lost
  <2> QED BY <1>1, <2>1 DEF Ecses
<1>4. Kept(Booted(ecs)) = K \ Lost
  <2> HIDE DEF Lost
  <2> QED BY <1>1, <1>3 DEF Kept
<1>5. K \subseteq Checker /\ Duplicated \subseteq Checker \X Checker
  BY EcsFields, DuplicatedAssumption DEF DuplicatedAssumption
<1> SUFFICES ASSUME c \in Lost
             PROVE  \E d \in Duplicated : d[2] = c /\ d[1] \in K \ Lost
  BY <1>4
<1> HIDE DEF K
<1> DEFINE S == {x \in K : <<x, c>> \in Duplicated}
<1>6. S # {} /\ S \in SUBSET Checker
  <2>1. PICK d \in Duplicated : d[1] \in K /\ d[2] = c
    OBVIOUS
  <2>2. d = <<d[1], d[2]>>
    BY <1>5
  <2> QED BY <1>5, <2>1, <2>2
<1>7. PICK m \in S : \A d \in Duplicated : d[2] = m => d[1] \notin S
  <2> HIDE DEF S
  <2> QED BY <1>6, DuplicatedAssumption DEF DuplicatedAssumption
<1>8. m \notin Lost
  <2> SUFFICES ASSUME m \in Lost PROVE FALSE
    OBVIOUS
  <2>1. PICK d \in Duplicated : d[1] \in K /\ d[2] = m
    OBVIOUS
  <2>2. <<m, c>> \in Duplicated /\ <<m, c>>[1] = m /\ <<m, c>>[2] = c
    BY <1>7
  <2>3. <<d[1], c>> \in Duplicated
    BY <2>1, <2>2, DuplicatedAssumption DEF DuplicatedAssumption
  <2>4. d[1] \in S
    BY <2>1, <2>3
  <2> QED BY <1>7, <2>1, <2>4
<1>9. <<m, c>> \in Duplicated /\ <<m, c>>[2] = c /\ <<m, c>>[1] \in K \ Lost
  BY <1>7, <1>8
<1> QED BY <1>9

LEMMA BootInv == ASSUME ConfigInv, Boot PROVE ConfigInv'
<1>1. /\ stage = "invoked" /\ stage' = "booted" /\ ecs' = Booted(ecs)
      /\ UNCHANGED <<builder, asked, overwritten>>
      /\ ~Conflict(Kept(Booted(ecs)))
      /\ builder \in Good /\ asked \subseteq overwritten \cup Sought(builder)
      /\ Configured /\ ecs.removed = {}
  BY DEF ConfigInv, Boot
<1>2. ecs \in Ecses
  BY <1>1 DEF Configured
<1>3. /\ Booted(ecs) \in Ecses /\ Booted(ecs).conf = ecs.conf
      /\ Booted(ecs).order = ecs.order /\ Booted(ecs).skip = ecs.skip
  <2> DEFINE e1 == RemoveExcluded(ecs)
  <2>1. e1 \in Ecses /\ e1.conf = ecs.conf /\ e1.order = ecs.order /\ e1.skip = ecs.skip
    BY <1>2, EcsFields DEF RemoveExcluded, Ecses, Kept
  <2> HIDE DEF e1
  <2> DEFINE Lost == {d[2] : d \in {d \in Duplicated : d[1] \in Kept(e1) /\ d[2] \in Kept(e1)}}
  <2>2. Booted(ecs) = [e1 EXCEPT !.removed = @ \cup Lost]
    BY DEF Booted, RemoveMutual, e1
  <2>3. Lost \subseteq Checker
    BY <2>1, EcsFields DEF Kept
  <2> HIDE DEF Lost
  <2> QED BY <2>1, <2>2, <2>3 DEF Ecses
<1>4. Configured'
  BY <1>1, <1>3 DEF Configured
<1>5. Excluded' = Excluded
  BY <1>1, <1>3 DEF Excluded, NamesClass
<1>6. \A c \in Sought(builder) : (Stands(c))'
  <2> TAKE c \in Sought(builder)
  <2>1. c \in DOMAIN ecs.conf
    BY <1>1 DEF Configured
  <2>2. \/ c \in Kept(Booted(ecs)) \cup Excluded
        \/ \E d \in Duplicated : d[2] = c /\ d[1] \in Kept(Booted(ecs))
    BY <1>1, <1>2, <2>1, BootedKeeps
  <2> QED BY <1>1, <1>5, <2>2 DEF Stands, Kept
<1>7. ~Conflict(Kept(ecs'))
  BY <1>1
<1> QED BY <1>1, <1>4, <1>6, <1>7 DEF ConfigInv, Conflict, Kept

LEMMA SkipNextConfigInv == ASSUME ConfigInv, [SkipNext]_skipVars PROVE ConfigInv'
<1>1. CASE Calls
  BY <1>1, CallsInv
<1>2. CASE InvokeFails \/ BootFails
  BY <1>2, RejectInv DEF InvokeFails, BootFails
<1>3. CASE Invoke
  BY <1>3, InvokeInv
<1>4. CASE Boot
  BY <1>4, BootInv
<1>5. CASE Dump \/ (stage = "dumped" /\ Resolved)
  <2>1. /\ UNCHANGED <<builder, ecs, asked, overwritten>>
        /\ stage \in {"booted", "dumped"} /\ stage' \in {"dumped", "resolved"}
    BY <1>5 DEF Dump, Resolved
  <2> QED BY <2>1 DEF ConfigInv, Configured, Stands, Conflict, Kept, Excluded, NamesClass
<1>6. CASE Resolve
  BY <1>5, <1>6, RejectInv DEF Resolve
<1>7. ASSUME NEW n \in Names, Start(n) PROVE ConfigInv'
  <2>1. /\ UNCHANGED <<builder, ecs, asked, overwritten>>
        /\ stage = "resolved" /\ stage' = "file"
    BY <1>7 DEF Start
  <2> QED BY <2>1 DEF ConfigInv, Configured, Stands, Conflict, Kept, Excluded, NamesClass
<1>8. CASE OneFile \/ Over \/ UNCHANGED skipVars
  <2>1. UNCHANGED configVars
    BY <1>8 DEF OneFile, Compare, CallGlob, Match, CallRelative, Answer, Over, skipVars
  <2> QED BY <2>1, ConfigInvStays DEF configVars
<1> QED BY <1>1, <1>2, <1>3, <1>4, <1>5, <1>6, <1>7, <1>8 DEF SkipNext, ConfigNext

LEMMA ConfigInvHolds == SkipSpec => []ConfigInv
<1>1. InitEcs \/ InitLoaded => ConfigInv
  BY InitEcsInv, InitLoadedInv
<1> QED BY <1>1, SkipNextConfigInv, PTL DEF SkipSpec

\* Whatever is called in ecs.php, for every table of duplicates without cycles
\* and in which what is better than the better one is better: a checker it asks
\* for is kept, with the configuration of withConfiguredRule, unless a skip
\* excludes it, one that does the same is kept, or a later withRules replaced
\* it (ECSConfigBuilder, ECSConfig.boot).
THEOREM AskedForIsKept == SkipSpec => []AskedForRuns
<1>1. ConfigInv => AskedForRuns
  <2> SUFFICES ASSUME ConfigInv, stage \in {"booted", "dumped", "resolved", "file"}
               PROVE  /\ \A c \in asked : \/ c \in Kept(ecs) \cup Excluded \cup overwritten
                                          \/ \E d \in Duplicated : d[2] = c /\ d[1] \in Kept(ecs)
                      /\ \A e \in ToSet(builder.configured) :
                             e.class \in Kept(ecs) => ecs.conf[e.class] = e.config
    BY DEF AskedForRuns
  <2>1. /\ asked \subseteq overwritten \cup Sought(builder)
        /\ \A c \in Sought(builder) : Stands(c)
        /\ Configured
    BY DEF ConfigInv
  <2>2. \A c \in asked : \/ c \in Kept(ecs) \cup Excluded \cup overwritten
                         \/ \E d \in Duplicated : d[2] = c /\ d[1] \in Kept(ecs)
    BY <2>1 DEF Stands
  <2>3. \A e \in ToSet(builder.configured) : ecs.conf[e.class] = e.config
    BY <2>1 DEF Configured, ToSet
  <2> QED BY <2>2, <2>3
<1> QED BY <1>1, ConfigInvHolds, PTL
-----------------------------------------------------------------------------
(* What PathNormalizer, normalizeForFnmatch and the dump make of a path.   *)

LEMMA NormalPathType == ASSUME NEW p \in Path PROVE NormalPath(p) \in Path
<1> DEFINE m == Len(p)
           Doubled(n) == n > 1 /\ p[n - 1] = Slash /\ p[n] = Slash
           step == [n \in 1 .. m |-> [x \in Path |-> IF Doubled(n) THEN x ELSE Append(x, p[n])]]
           Is(f) == f = [n \in 0 .. m |->
                            IF n = 0 THEN <<>>
                            ELSE IF Doubled(n) THEN f[n - 1] ELSE Append(f[n - 1], p[n])]
           g == CHOOSE f : Is(f)
<1>1. m \in Nat /\ <<>> \in Path /\ \A x \in Path, n \in 1 .. m : Append(x, p[n]) \in Path
  BY AppendProperties DEF Path
<1> DEFINE single == g[m]
<1>2. NormalPath(p) = IF Len(single) > 1 /\ Last(single) = Slash THEN Front(single) ELSE single
  BY DEF NormalPath
<1> HIDE DEF m, Doubled
<1>3. \A n \in 1 .. m, x \in Path : /\ step[n][x] = IF Doubled(n) THEN x ELSE Append(x, p[n])
                                    /\ step[n][x] \in Path
  BY <1>1
<1>4. step \in [1 .. m -> [Path -> Path]]
  BY <1>1
<1> HIDE DEF step
<1>5. PICK f : Follows(f, Path, m, <<>>, step)
  BY <1>1, <1>4, Recursion
<1>6. ASSUME NEW n \in 1 .. m
      PROVE  f[n] = IF Doubled(n) THEN f[n - 1] ELSE Append(f[n - 1], p[n])
  <2>1. n - 1 \in 0 .. m
    BY <1>1
  <2>2. f[n] = step[n][f[n - 1]] /\ f[n - 1] \in Path
    BY <1>5, <2>1 DEF Follows
  <2> QED BY <1>3, <2>2
<1>7. Is(f)
  <2>1. f[0] = <<>> /\ f = [n \in 0 .. m |-> f[n]]
    BY <1>5 DEF Follows
  <2>2. ASSUME NEW n \in 0 .. m
        PROVE  f[n] = IF n = 0 THEN <<>>
                      ELSE IF Doubled(n) THEN f[n - 1] ELSE Append(f[n - 1], p[n])
    <3>1. n = 0 \/ n \in 1 .. m
      BY <1>1
    <3> QED BY <3>1, <2>1, <1>6
  <2> QED BY <2>1, <2>2
<1>8. Is(g)
  BY <1>7
<1> HIDE DEF g
<1> DEFINE S == {n \in 0 .. m : g[n] \in Path}
<1>9. 0 \in S
  <2>1. 0 \in 0 .. m
    BY <1>1
  <2>2. g[0] = <<>>
    BY <1>8, <2>1
  <2> QED BY <1>1, <2>1, <2>2
<1>10. ASSUME NEW n \in 0 .. m - 1, n \in S PROVE n + 1 \in S
  <2>1. n + 1 \in 1 .. m /\ n + 1 \in 0 .. m /\ (n + 1) - 1 = n /\ n + 1 # 0
    BY <1>1
  <2>2. g[n + 1] = IF Doubled(n + 1) THEN g[n] ELSE Append(g[n], p[n + 1])
    BY <1>8, <2>1
  <2> QED BY <1>1, <1>10, <2>1, <2>2
<1>11. single \in Path
  <2> HIDE DEF S
  <2>1. 0 .. m \subseteq S
    BY <1>1, <1>9, <1>10, Induction
  <2> QED BY <1>1, <2>1 DEF S
<1> HIDE DEF single
<1>12. CASE Len(single) > 1
  <2>1. Len(single) \in Nat /\ \A n \in 1 .. Len(single) - 1 : single[n] \in Atom \cup {Star}
    BY <1>11 DEF Path
  <2>2. Front(single) \in Path
    BY <1>11, <1>12, <2>1, SubSeqProperties DEF Front, Path
  <2> QED BY <1>2, <1>11, <2>2
<1> QED BY <1>2, <1>11, <1>12

LEMMA NormalizeType == ASSUME NEW p \in Path PROVE Normalize(p) \in Path
<1>1. CASE p = <<>> \/ (Head(p) # Star /\ Last(p) # Star)
  BY <1>1 DEF Normalize
<1>2. CASE ~(p = <<>> \/ (Head(p) # Star /\ Last(p) # Star))
  <2> DEFINE inner == {i \in DOMAIN p : p[i] # Star}
             first == CHOOSE i \in inner : \A j \in inner : i <= j
             last == CHOOSE i \in inner : \A j \in inner : i >= j
             middle == IF inner = {} THEN <<>> ELSE SubSeq(p, first, last)
  <2>1. Normalize(p) = <<Star>> \o middle \o <<Star>>
    BY <1>2 DEF Normalize
  <2>2. DOMAIN p = 1 .. Len(p) /\ Len(p) \in Nat /\ \A n \in DOMAIN p : p[n] \in Atom \cup {Star}
    BY LenProperties DEF Path
  <2>3. inner \subseteq DOMAIN p
    OBVIOUS
  <2> HIDE DEF inner
  <2>4. ASSUME inner # {} PROVE first \in 1 .. Len(p) /\ last \in 1 .. Len(p)
    <3>1. inner \in SUBSET Nat /\ inner \in SUBSET (0 .. Len(p))
      BY <2>2, <2>3
    <3>2. \E i \in inner : \A j \in inner : i <= j
      BY <2>4, <3>1, LeastNatural
    <3>3. \E i \in inner : \A j \in inner : i >= j
      <4>1. PICK i \in inner : \A j \in inner : j <= i
        BY <2>2, <2>4, <3>1, GreatestNatural
      <4> QED BY <3>1, <4>1
    <3>4. first \in inner /\ last \in inner
      BY <3>2, <3>3
    <3> HIDE DEF first, last
    <3> QED BY <2>2, <2>3, <3>4
  <2> HIDE DEF first, last
  <2>5. middle \in Path
    <3>1. CASE inner = {}
      BY <3>1 DEF Path
    <3>2. CASE inner # {}
      <4>1. first \in 1 .. Len(p) /\ last \in 1 .. Len(p)
        BY <2>4, <3>2
      <4>2. \A n \in first .. last : p[n] \in Atom \cup {Star}
        BY <2>2, <4>1
      <4>3. SubSeq(p, first, last) \in Path
        BY <4>1, <4>2, SubSeqProperties DEF Path
      <4> QED BY <3>2, <4>3
    <3> QED BY <3>1, <3>2
  <2> HIDE DEF middle
  <2>6. <<Star>> \in Path
    BY DEF Path
  <2> QED BY <2>1, <2>5, <2>6, ConcatProperties DEF Path
<1> QED BY <1>1, <1>2

LEMMA RelativeType == ASSUME NEW p \in Path PROVE <<Star, Slash>> \o p \in Path
<1>1. <<Star, Slash>> \in Path
  BY SkipAssumption DEF SkipAssumption, Path
<1> QED BY <1>1, ConcatProperties DEF Path

LEMMA OnlyIs ==
    ASSUME NEW T, NEW s \in Seq(T), NEW S
    PROVE  Only(s, S) \in Seq(T) /\ ToSet(Only(s, S)) = ToSet(s) \cap S
<1> DEFINE m == Len(s)
           X == Seq(T)
           step == [n \in 1 .. m |-> [x \in X |-> IF s[n] \in S THEN Append(x, s[n]) ELSE x]]
           Is(f) == f = [n \in 0 .. m |->
                            IF n = 0 THEN <<>>
                            ELSE IF s[n] \in S THEN Append(f[n - 1], s[n]) ELSE f[n - 1]]
           g == CHOOSE f : Is(f)
           So(n) == {s[x] : x \in 1 .. n} \cap S
<1>1. m \in Nat /\ <<>> \in X /\ \A x \in X, n \in 1 .. m : s[n] \in T /\ Append(x, s[n]) \in X
  BY AppendProperties
<1>2. Only(s, S) = g[m]
  BY DEF Only
<1>0. So(m) = ToSet(s) \cap S
  BY DEF ToSet
<1> HIDE DEF m, X
<1>3. \A n \in 1 .. m, x \in X : /\ step[n][x] = IF s[n] \in S THEN Append(x, s[n]) ELSE x
                                 /\ step[n][x] \in X
  BY <1>1
<1>4. step \in [1 .. m -> [X -> X]]
  BY <1>1
<1> HIDE DEF step
<1>5. PICK f : Follows(f, X, m, <<>>, step)
  BY <1>1, <1>4, Recursion
<1>6. ASSUME NEW n \in 1 .. m
      PROVE  f[n] = IF s[n] \in S THEN Append(f[n - 1], s[n]) ELSE f[n - 1]
  <2>1. n - 1 \in 0 .. m
    BY <1>1
  <2>2. f[n] = step[n][f[n - 1]] /\ f[n - 1] \in X
    BY <1>5, <2>1 DEF Follows
  <2> QED BY <1>3, <2>2
<1>7. Is(f)
  <2>1. f[0] = <<>> /\ f = [n \in 0 .. m |-> f[n]]
    BY <1>5 DEF Follows
  <2>2. ASSUME NEW n \in 0 .. m
        PROVE  f[n] = IF n = 0 THEN <<>>
                      ELSE IF s[n] \in S THEN Append(f[n - 1], s[n]) ELSE f[n - 1]
    <3>1. n = 0 \/ n \in 1 .. m
      BY <1>1
    <3> QED BY <3>1, <2>1, <1>6
  <2> QED BY <2>1, <2>2
<1>8. Is(g)
  BY <1>7
<1> HIDE DEF g
<1> DEFINE R == {n \in 0 .. m : g[n] \in X /\ ToSet(g[n]) = So(n)}
<1>9. 0 \in R
  <2>1. 0 \in 0 .. m
    BY <1>1
  <2>2. g[0] = <<>>
    BY <1>8, <2>1
  <2>3. So(0) = {} /\ ToSet(<<>>) = {}
    BY DEF ToSet
  <2> QED BY <1>1, <2>1, <2>2, <2>3
<1>10. ASSUME NEW n \in 0 .. m - 1, n \in R PROVE n + 1 \in R
  <2>1. n + 1 \in 1 .. m /\ n + 1 \in 0 .. m /\ (n + 1) - 1 = n /\ n + 1 # 0 /\ n \in Nat
    BY <1>1
  <2>2. g[n + 1] = IF s[n + 1] \in S THEN Append(g[n], s[n + 1]) ELSE g[n]
    BY <1>8, <2>1
  <2>3. So(n + 1) = IF s[n + 1] \in S THEN So(n) \cup {s[n + 1]} ELSE So(n)
    <3>1. 1 .. n + 1 = (1 .. n) \cup {n + 1}
      BY <2>1
    <3> QED BY <3>1
  <2> HIDE DEF So
  <2>4. g[n] \in X /\ ToSet(g[n]) = So(n) /\ s[n + 1] \in T
    BY <1>1, <1>10, <2>1
  <2>5. ToSet(Append(g[n], s[n + 1])) = ToSet(g[n]) \cup {s[n + 1]} /\ Append(g[n], s[n + 1]) \in X
    BY <2>4, ToSetAppend, AppendProperties DEF X
  <2> QED BY <2>1, <2>2, <2>3, <2>4, <2>5
<1>11. m \in R
  <2> HIDE DEF R
  <2>1. 0 .. m \subseteq R
    BY <1>1, <1>9, <1>10, Induction
  <2> QED BY <1>1, <2>1
<1> HIDE DEF So
<1> QED BY <1>0, <1>2, <1>11 DEF X

(* The fixers by priority, then the sniffs: nothing else is kept.          *)
LEMMA InOrderIs ==
    ASSUME Configured
    PROVE  LET fixers == FlattenSeq([p \in DOMAIN ByPriority |->
                             Only(ecs.order, Kept(ecs) \cap ByPriority[p])])
               checkers == fixers \o Only(ecs.order, Kept(ecs) \ Fixer)
           IN  checkers \in Seq(Checker) /\ ToSet(checkers) = Kept(ecs)
<1> DEFINE ts == [p \in DOMAIN ByPriority |-> Only(ecs.order, Kept(ecs) \cap ByPriority[p])]
           sniffs == Only(ecs.order, Kept(ecs) \ Fixer)
<1>1. /\ ecs.order \in Seq(Checker) /\ ToSet(ecs.order) = DOMAIN ecs.conf
      /\ Kept(ecs) \subseteq DOMAIN ecs.conf
  BY EcsFields DEF Configured, Kept
<1>2. /\ DOMAIN ByPriority = 1 .. Len(ByPriority) /\ Len(ByPriority) \in Nat
      /\ UNION {ByPriority[p] : p \in DOMAIN ByPriority} = Fixer
  <2>1. ByPriority \in Seq(SUBSET Fixer) /\ UNION ToSet(ByPriority) = Fixer
    BY FixersAssumption DEF FixersAssumption
  <2> QED BY <2>1, LenProperties DEF ToSet
<1>3. /\ DOMAIN ts = DOMAIN ByPriority
      /\ \A p \in DOMAIN ByPriority : /\ ts[p] \in Seq(Checker)
                                     /\ ToSet(ts[p]) = Kept(ecs) \cap ByPriority[p]
  <2>1. \A p \in DOMAIN ByPriority : ts[p] = Only(ecs.order, Kept(ecs) \cap ByPriority[p])
    OBVIOUS
  <2>2. DOMAIN ts = DOMAIN ByPriority
    OBVIOUS
  <2> HIDE DEF ts
  <2>3. ASSUME NEW p \in DOMAIN ByPriority
        PROVE  ts[p] \in Seq(Checker) /\ ToSet(ts[p]) = Kept(ecs) \cap ByPriority[p]
    <3> DEFINE S == Kept(ecs) \cap ByPriority[p]
    <3>1. ts[p] = Only(ecs.order, S) /\ S \subseteq DOMAIN ecs.conf
      BY <1>1, <2>1
    <3> HIDE DEF S
    <3>2. /\ Only(ecs.order, S) \in Seq(Checker)
          /\ ToSet(Only(ecs.order, S)) = ToSet(ecs.order) \cap S
      BY <1>1, OnlyIs
    <3>3. ToSet(ecs.order) \cap S = S
      BY <1>1, <3>1
    <3> QED BY <3>1, <3>2, <3>3 DEF S
  <2> QED BY <2>2, <2>3
<1>4. sniffs \in Seq(Checker) /\ ToSet(sniffs) = Kept(ecs) \ Fixer
  BY <1>1, OnlyIs
<1>5. ts \in Seq(Seq(Checker))
  <2>1. ts = [p \in 1 .. Len(ByPriority) |-> ts[p]]
    BY <1>2
  <2> HIDE DEF ts
  <2>2. ts \in [1 .. Len(ByPriority) -> Seq(Checker)]
    BY <1>2, <1>3, <2>1
  <2> QED BY <1>2, <2>2, SeqDef
<1> HIDE DEF ts, sniffs
<1>6. /\ FlattenSeq(ts) \in Seq(Checker)
      /\ ToSet(FlattenSeq(ts)) = UNION {ToSet(ts[p]) : p \in DOMAIN ts}
  BY <1>5, FlattenElements
<1>7. UNION {ToSet(ts[p]) : p \in DOMAIN ts} = Kept(ecs) \cap Fixer
  BY <1>2, <1>3
<1>8. /\ FlattenSeq(ts) \o sniffs \in Seq(Checker)
      /\ ToSet(FlattenSeq(ts) \o sniffs) = Kept(ecs)
  <2>1. FlattenSeq(ts) \o sniffs \in Seq(Checker)
    BY <1>4, <1>6, ConcatProperties
  <2>2. ToSet(FlattenSeq(ts) \o sniffs) = ToSet(FlattenSeq(ts)) \cup ToSet(sniffs)
    BY <1>4, <1>6, ToSetConcat
  <2>3. (Kept(ecs) \cap Fixer) \cup (Kept(ecs) \ Fixer) = Kept(ecs)
    OBVIOUS
  <2> QED BY <1>4, <1>6, <1>7, <2>1, <2>2, <2>3
<1> QED BY <1>8 DEF ts, sniffs

(* Each kept checker is dumped, with options if they can be read.          *)
LEMMA DumpedRulesAre ==
    ASSUME Configured
    PROVE  /\ DumpedRules \in Seq(Entries)
           /\ ToSet(DumpedRules) = {DumpedEntry(c) : c \in Kept(ecs)}
           /\ Classes(DumpedRules) = Kept(ecs)
<1> DEFINE fixers == FlattenSeq([p \in DOMAIN ByPriority |->
                         Only(ecs.order, Kept(ecs) \cap ByPriority[p])])
           checkers == fixers \o Only(ecs.order, Kept(ecs) \ Fixer)
           es == [n \in DOMAIN checkers |-> DumpedEntry(checkers[n])]
<1>1. DumpedRules = es
  BY DEF DumpedRules
<1>2. checkers \in Seq(Checker) /\ ToSet(checkers) = Kept(ecs)
  BY InOrderIs
<1> HIDE DEF fixers, checkers
<1>3. \A c \in Kept(ecs) : DumpedEntry(c) \in Entries /\ DumpedEntry(c).class = c
  <2> TAKE c \in Kept(ecs)
  <2>1. c \in Checker /\ ecs.conf[c] \in Config /\ Default \in Config
    BY EcsFields, CallsAssumption DEF Configured, CallsAssumption, Kept
  <2> QED BY <2>1, EntryType DEF DumpedEntry
<1>4. DOMAIN checkers = 1 .. Len(checkers) /\ Len(checkers) \in Nat
  BY <1>2, LenProperties
<1>5. \A n \in DOMAIN checkers : checkers[n] \in Kept(ecs)
  BY <1>2 DEF ToSet
<1>6. DOMAIN es = DOMAIN checkers /\ \A n \in DOMAIN checkers : es[n] = DumpedEntry(checkers[n])
  OBVIOUS
<1>7. es \in [1 .. Len(checkers) -> Entries]
  <2>1. es = [n \in DOMAIN checkers |-> es[n]]
    OBVIOUS
  <2> HIDE DEF es
  <2> QED BY <1>3, <1>4, <1>5, <1>6, <2>1
<1> HIDE DEF es
<1>8. ToSet(es) = {DumpedEntry(c) : c \in Kept(ecs)}
  BY <1>2, <1>6 DEF ToSet
<1>9. es \in Seq(Entries)
  BY <1>4, <1>7, SeqDef
<1>10. Classes(es) = Kept(ecs)
  <2>1. Classes(es) = {e.class : e \in ToSet(es)}
    BY <1>9, ClassesOf
  <2> QED BY <1>3, <1>8, <2>1
<1> QED BY <1>1, <1>8, <1>9, <1>10

SkippedEntry(c) == SkippedClasses[c]

LEMMA SkippedClassesAre ==
    ASSUME Configured
    PROVE  /\ DOMAIN SkippedClasses \subseteq Class
           /\ \A c \in DOMAIN SkippedClasses :
                  SkippedEntry(c) \in SkipEntries /\ SkippedEntry(c).class = c
<1>1. ecs.skip \in Seq(SkipEntries)
  BY EcsFields DEF Configured
<1>2. \A n \in DOMAIN ecs.skip : ecs.skip[n] \in SkipEntries
  BY <1>1
<1>3. ASSUME NEW c \in DOMAIN SkippedClasses
      PROVE  c \in Class /\ SkippedEntry(c) \in SkipEntries /\ SkippedEntry(c).class = c
  <2>1. c \in Classes(ecs.skip) /\ c # NoClass /\ SkippedEntry(c) = LastOf(ecs.skip, c)
    BY <1>3 DEF SkippedClasses, SkippedEntry
  <2>2. LastOf(ecs.skip, c) \in ToSet(ecs.skip) /\ LastOf(ecs.skip, c).class = c
    BY <1>1, <2>1, LastExists
  <2>3. SkippedEntry(c) \in SkipEntries
    BY <1>2, <2>1, <2>2 DEF ToSet
  <2>4. c \in Class \cup {NoClass}
    BY <2>1, <2>2, <2>3 DEF SkipEntries
  <2> QED BY <2>1, <2>2, <2>3, <2>4
<1> QED BY <1>3

LEMMA SkippedPathsAre == ASSUME Configured PROVE SkippedPaths \subseteq Path
<1>1. ecs.skip \in Seq(SkipEntries)
  BY EcsFields DEF Configured
<1>2. \A e \in ToSet(ecs.skip) : e.paths \subseteq Path
  <2>1. \A n \in DOMAIN ecs.skip : ecs.skip[n] \in SkipEntries
    BY <1>1
  <2>2. \A e \in SkipEntries : e.paths \subseteq Path
    BY DEF SkipEntries
  <2> QED BY <2>1, <2>2 DEF ToSet
<1>3. \A p \in UNION {e.paths : e \in {s \in ToSet(ecs.skip) : ~NamesClass(s)}} : p \in Path
  BY <1>2
<1> QED BY <1>3, NormalPathType DEF SkippedPaths

(* A dumped skip of a kept checker is one of its own class, or of one it   *)
(* is: PHP decides by the same entries.                                    *)
Behind(c) == DOMAIN SkippedClasses \cap (IsA[c] \cup {c})
As(c, d) == [SkippedEntry(d) EXCEPT !.class = c]

LEMMA AsFields ==
    ASSUME Configured, NEW c, NEW d \in DOMAIN SkippedClasses
    PROVE  /\ As(c, d).class = c /\ As(c, d).everywhere = SkippedEntry(d).everywhere
           /\ As(c, d).paths = SkippedEntry(d).paths /\ As(c, d).paths \subseteq Path
           /\ As(c, d).everywhere \in BOOLEAN
<1> DEFINE e == SkippedEntry(d)
<1>1. e \in SkipEntries
  BY SkippedClassesAre
<1>2. As(c, d) = [e EXCEPT !.class = c]
  BY DEF As
<1> HIDE DEF e
<1>3. e.everywhere \in BOOLEAN /\ e.paths \subseteq Path
  BY <1>1 DEF SkipEntries
<1>4. As(c, d).class = c /\ As(c, d).everywhere = e.everywhere /\ As(c, d).paths = e.paths
  BY <1>1, <1>2 DEF SkipEntries
<1> QED BY <1>3, <1>4 DEF e

LEMMA DumpedSkipsAre ==
    ASSUME Configured
    PROVE  /\ {s \in DumpedSkips : s.class = NoClass} =
                  {SkipClass(NoClass, FALSE, {p}) : p \in SkippedPaths}
           /\ \A c \in Kept(ecs) : {s \in DumpedSkips : s.class = c} = {As(c, d) : d \in Behind(c)}
<1> DEFINE OfPaths == {SkipClass(NoClass, FALSE, {p}) : p \in SkippedPaths}
           OfClass(d) == {As(c, d) : c \in Covered(d)}
           OfClasses == UNION {OfClass(d) : d \in DOMAIN SkippedClasses}
<1>1. DumpedSkips = OfPaths \cup OfClasses
  BY DEF DumpedSkips, As, SkippedEntry
<1>2. \A s \in OfPaths : s.class = NoClass
  BY DEF SkipClass
<1>3. \A d \in DOMAIN SkippedClasses : \A c \in Covered(d) : c \in Class /\ As(c, d).class = c
  <2>1. Kept(ecs) \subseteq Class
    BY EcsFields, CallsAssumption DEF Configured, CallsAssumption, Kept
  <2>2. \A d \in DOMAIN SkippedClasses : \A c \in Covered(d) : c \in Class
    BY <2>1, SkippedClassesAre DEF Covered
  <2> QED BY <2>2, AsFields
<1>4. NoClass \notin Class
  BY SkipAssumption DEF SkipAssumption
<1>5. \A s \in OfClasses : s.class # NoClass
  BY <1>3, <1>4
<1>6. {s \in DumpedSkips : s.class = NoClass} = OfPaths
  <2> HIDE DEF OfPaths, OfClasses
  <2> QED BY <1>1, <1>2, <1>5
<1>7. ASSUME NEW c \in Kept(ecs)
      PROVE  {s \in DumpedSkips : s.class = c} = {As(c, d) : d \in Behind(c)}
  <2>1. c \in Class /\ c # NoClass
    BY <1>4, EcsFields, CallsAssumption DEF Configured, CallsAssumption, Kept
  <2>2. \A d \in DOMAIN SkippedClasses : c \in Covered(d) <=> d \in Behind(c)
    BY DEF Covered, Behind
  <2>3. {s \in DumpedSkips : s.class = c} = {s \in OfClasses : s.class = c}
    <3> HIDE DEF OfPaths, OfClasses
    <3> QED BY <1>1, <1>2, <2>1
  <2>4. {s \in OfClasses : s.class = c} \subseteq {As(c, d) : d \in Behind(c)}
    <3> SUFFICES ASSUME NEW s \in OfClasses, s.class = c
                 PROVE  s \in {As(c, d) : d \in Behind(c)}
      OBVIOUS
    <3>1. PICK d \in DOMAIN SkippedClasses : s \in OfClass(d)
      OBVIOUS
    <3>2. PICK x \in Covered(d) : s = As(x, d)
      BY <3>1
    <3>3. x = c
      BY <1>3, <3>2
    <3> QED BY <2>2, <3>2, <3>3
  <2>5. {As(c, d) : d \in Behind(c)} \subseteq {s \in OfClasses : s.class = c}
    <3> SUFFICES ASSUME NEW d \in Behind(c) PROVE As(c, d) \in OfClasses /\ As(c, d).class = c
      OBVIOUS
    <3>1. d \in DOMAIN SkippedClasses /\ c \in Covered(d)
      BY <2>2 DEF Behind
    <3> QED BY <1>3, <3>1
  <2> QED BY <2>3, <2>4, <2>5
<1> QED BY <1>6, <1>7
-----------------------------------------------------------------------------
(* What blink is given, and what resolveECS makes of it: no rejection after *)
(* the dump.                                                               *)

FullDump == [rules |-> DumpedRules, skips |-> DumpedSkips]
FullBlink ==
    [skip |-> UNION {s.paths : s \in SkippedOn(NoClass)},
     runs |-> Runs,
     groups |-> [f \in Known |-> Groups(f)],
     unsupported |-> {c \in Active : ~Supported(c)},
     ignored |-> ConfigIgnored]

Loaded == DOMAIN ecs.conf = {} /\ blink = ConfigOfPaths(SkippedPaths)

DumpInv ==
    /\ stage \in {"config", "invoked", "booted", "rejected"} => dump = NoDump
    /\ stage = "dumped" => dump = FullDump
    /\ stage \in {"resolved", "file"} =>
           Loaded \/ (dump = FullDump /\ blink = FullBlink)

LEMMA DumpStays ==
    ASSUME UNCHANGED <<ecs, dump>>
    PROVE  /\ FullDump' = FullDump /\ FullBlink' = FullBlink /\ SkippedPaths' = SkippedPaths
<1>1. SkippedPaths' = SkippedPaths
  BY DEF SkippedPaths, NamesClass
<1>2. FullDump' = FullDump
  BY <1>1 DEF FullDump, DumpedRules, DumpedEntry, DumpedSkips, Kept, Covered, SkippedClasses
<1>3. Active' = Active /\ \A c : SkippedOn(c)' = SkippedOn(c) /\ Off(c)' = Off(c)
  BY DEF Active, SkippedOn, Off
<1>4. Runs' = Runs /\ ConfigIgnored' = ConfigIgnored
  <2>1. Usable' = Usable
    BY <1>3 DEF Usable
  <2>2. \A i : First(i)' = First(i)
    BY <2>1 DEF First
  <2> QED BY <2>1, <2>2 DEF Runs, ConfigIgnored
<1>5. \A f : Groups(f)' = Groups(f)
  BY <1>3 DEF Groups
<1>6. FullBlink' = FullBlink
  BY <1>3, <1>4, <1>5 DEF FullBlink
<1> QED BY <1>1, <1>2, <1>6

LEMMA ActiveKept ==
    ASSUME Configured, dump = FullDump
    PROVE  Classes(dump.rules) = Kept(ecs) /\ Active \subseteq Kept(ecs)
BY DumpedRulesAre DEF FullDump, Active

LEMMA InitDumpInv == ASSUME InitEcs \/ InitLoaded PROVE DumpInv
<1>1. CASE InitEcs
  BY <1>1 DEF InitEcs, ConfigInit, DumpInv
<1>2. CASE InitLoaded
  <2>1. PICK p \in SkipPaths :
            /\ blink = ConfigOfPaths({NormalPath(p)})
            /\ ecs = [order |-> <<>>, conf |-> <<>>, removed |-> {},
                      skip |-> <<SkipClass(NoClass, FALSE, {p})>>]
    BY <1>2 DEF InitLoaded
  <2> DEFINE e == SkipClass(NoClass, FALSE, {p})
  <2>2. ~NamesClass(e) /\ e.paths = {p} /\ ecs.skip = <<e>>
    BY <2>1 DEF SkipClass, NamesClass
  <2> HIDE DEF e
  <2>3. ToSet(ecs.skip) = {e}
    BY <2>2 DEF ToSet
  <2>4. SkippedPaths = {NormalPath(p)}
    BY <2>2, <2>3 DEF SkippedPaths
  <2>5. DOMAIN ecs.conf = {}
    BY <2>1
  <2>6. stage = "resolved"
    BY <1>2 DEF InitLoaded
  <2> QED BY <2>1, <2>4, <2>5, <2>6 DEF DumpInv, Loaded
<1> QED BY <1>1, <1>2

LEMMA DumpInvNext == ASSUME ConfigInv, DumpInv, [SkipNext]_skipVars PROVE DumpInv'
<1>1. CASE Calls
  <2>1. stage = "config" /\ stage' = "config" /\ dump' = dump
    BY <1>1 DEF Calls, WithRules, WithConfiguredRule, WithSets, WithSkip, WithLevel, Call
  <2> QED BY <2>1 DEF DumpInv, NoDump
<1>2. CASE InvokeFails \/ Invoke \/ BootFails \/ Boot
  <2>1. /\ stage \in {"config", "invoked"} /\ stage' \in {"invoked", "booted", "rejected"}
        /\ dump' = dump
    BY <1>2 DEF InvokeFails, Invoke, BootFails, Boot, Reject
  <2> QED BY <2>1 DEF DumpInv, NoDump
<1>3. CASE Dump
  <2>1. stage' = "dumped" /\ ecs' = ecs /\ dump' = FullDump
    BY <1>3 DEF Dump, FullDump
  <2>2. FullDump' = FullDump
    BY <2>1 DEF FullDump, DumpedRules, DumpedEntry, DumpedSkips, Kept, Covered, SkippedClasses, SkippedPaths, NamesClass
  <2> QED BY <2>1, <2>2 DEF DumpInv
<1>4. CASE Resolve
  <2>1. stage = "dumped" /\ dump = FullDump /\ Configured /\ ~Conflict(Kept(ecs))
    BY <1>4 DEF Resolve, DumpInv, ConfigInv
  <2>2. ~Conflict(Active)
    BY <2>1, ActiveKept DEF Conflict
  <2>3. stage' = "resolved" /\ UNCHANGED <<ecs, dump>> /\ blink' = FullBlink
    BY <1>4, <2>2 DEF Resolve, Resolved, FullBlink
  <2>4. dump' = FullDump' /\ blink' = FullBlink'
    BY <2>1, <2>3, DumpStays
  <2> QED BY <2>3, <2>4 DEF DumpInv
<1>5. CASE (\E n \in Names : Start(n)) \/ OneFile \/ Over \/ UNCHANGED skipVars
  <2>1. /\ UNCHANGED <<ecs, dump, blink>>
        /\ stage' = stage \/ (stage = "resolved" /\ stage' = "file")
    BY <1>5 DEF Start, OneFile, Compare, CallGlob, Match, CallRelative, Answer, Over, skipVars, configVars
  <2>2. FullDump' = FullDump /\ FullBlink' = FullBlink /\ SkippedPaths' = SkippedPaths
    BY <2>1, DumpStays
  <2>3. Loaded' <=> Loaded
    BY <2>1, <2>2 DEF Loaded
  <2> QED BY <2>1, <2>2, <2>3 DEF DumpInv, NoDump
<1> QED BY <1>1, <1>2, <1>3, <1>4, <1>5 DEF SkipNext, ConfigNext
-----------------------------------------------------------------------------
(* The patterns a file is compared with.                                   *)

PathsOf(c) == UNION {s.paths : s \in SkippedOn(c)}
AllPatterns == blink.skip \cup UNION UNION {blink.groups[f] : f \in DOMAIN blink.groups}

LEMMA SkipsOfClass ==
    ASSUME Configured, dump = FullDump, NEW c \in Kept(ecs)
    PROVE  /\ Off(c) <=> \E d \in Behind(c) : SkippedEntry(d).everywhere
           /\ SkippedOn(c) = {As(c, d) : d \in {d \in Behind(c) : ~SkippedEntry(d).everywhere}}
           /\ PathsOf(c) \subseteq Path
<1>1. {s \in dump.skips : s.class = c} = {As(c, d) : d \in Behind(c)}
  BY DumpedSkipsAre DEF FullDump
<1>2. \A d \in Behind(c) : /\ As(c, d).everywhere = SkippedEntry(d).everywhere
                           /\ As(c, d).paths \subseteq Path
  BY AsFields DEF Behind
<1>3. Off(c) <=> \E s \in {s \in dump.skips : s.class = c} : s.everywhere
  BY DEF Off
<1>4. SkippedOn(c) = {s \in {s \in dump.skips : s.class = c} : ~s.everywhere}
  BY DEF SkippedOn
<1> HIDE DEF Off, SkippedOn
<1>5. Off(c) <=> \E d \in Behind(c) : SkippedEntry(d).everywhere
  BY <1>1, <1>2, <1>3
<1>6. SkippedOn(c) = {As(c, d) : d \in {d \in Behind(c) : ~SkippedEntry(d).everywhere}}
  BY <1>1, <1>2, <1>4
<1>7. PathsOf(c) \subseteq Path
  BY <1>2, <1>6 DEF PathsOf
<1> QED BY <1>5, <1>6, <1>7

LEMMA SkipOfPaths ==
    ASSUME Configured, dump = FullDump
    PROVE  PathsOf(NoClass) = SkippedPaths
<1> DEFINE One(p) == SkipClass(NoClass, FALSE, {p})
           Ones == {s \in dump.skips : s.class = NoClass}
<1>1. Ones = {One(p) : p \in SkippedPaths}
  BY DumpedSkipsAre DEF FullDump
<1>2. \A p : One(p).everywhere = FALSE /\ One(p).paths = {p}
  BY DEF SkipClass
<1>3. SkippedOn(NoClass) = {s \in Ones : ~s.everywhere}
  BY DEF SkippedOn
<1> HIDE DEF One, Ones
<1>4. SkippedOn(NoClass) = Ones
  <2>1. \A s \in Ones : ~s.everywhere
    BY <1>1, <1>2
  <2> QED BY <1>3, <2>1
<1>5. PathsOf(NoClass) = UNION {One(p).paths : p \in SkippedPaths}
  BY <1>1, <1>4 DEF PathsOf
<1> QED BY <1>2, <1>5

BehindFixer(f) == {c \in Active : Supported(c) /\ Successor[c] = f}

LEMMA GroupsAre ==
    ASSUME NEW f
    PROVE  Groups(f) = IF \E c \in BehindFixer(f) : SkippedOn(c) = {} THEN {}
                       ELSE {PathsOf(c) : c \in BehindFixer(f)}
BY DEF Groups, BehindFixer, PathsOf

LEMMA PatternsAre ==
    ASSUME ConfigInv, DumpInv, stage \in {"resolved", "file"}
    PROVE  AllPatterns \subseteq Path
<1>0. Configured
  BY DEF ConfigInv
<1>1. CASE Loaded
  <2>1. blink.skip = SkippedPaths /\ blink.groups = <<>>
    BY <1>1 DEF Loaded, ConfigOfPaths
  <2>2. AllPatterns = SkippedPaths
    BY <2>1 DEF AllPatterns
  <2> QED BY <1>0, <2>2, SkippedPathsAre
<1>2. CASE dump = FullDump /\ blink = FullBlink
  <2>1. blink.skip = PathsOf(NoClass) /\ blink.groups = [f \in Known |-> Groups(f)]
    BY <1>2 DEF FullBlink, PathsOf
  <2>2. blink.skip \subseteq Path
    BY <1>0, <1>2, <2>1, SkipOfPaths, SkippedPathsAre
  <2>3. ASSUME NEW f \in Known, NEW paths \in Groups(f) PROVE paths \subseteq Path
    <3>1. PICK c \in BehindFixer(f) : paths = PathsOf(c)
      BY <2>3, GroupsAre
    <3>2. c \in Kept(ecs)
      BY <1>0, <1>2, ActiveKept DEF BehindFixer
    <3> QED BY <1>0, <1>2, <3>1, <3>2, SkipsOfClass
  <2> QED BY <2>1, <2>2, <2>3 DEF AllPatterns
<1> QED BY <1>1, <1>2 DEF DumpInv

LEMMA GlobIs == GlobMatches(pattern, name) <=> \E cut \in Cuts : Matching(cut)
BY DEF GlobMatches, LibC!Cuts, LibC!Matching, LibC!Fits, Cuts, Matching, Fits
-----------------------------------------------------------------------------
(* The file: what it was compared with so far is in hits exactly if PHP    *)
(* says it matches, and the running call is of a pattern that is not.      *)

Comparing ==
    /\ todo # {} /\ Current \in todo /\ ~TextMatches(name, Current)
    /\ \/ call = "glob" /\ pattern = Normalize(Current)
       \/ /\ call = "relative" /\ pattern = <<Star, Slash>> \o Normalize(Current)
          /\ ~GlobMatches(Normalize(Current), name)

MatchInv ==
    /\ LoopInv
    /\ stage # "file" => Begun /\ call = "none" /\ todo = {} /\ hits = {}
    /\ todo \subseteq AllPatterns /\ hits \cap todo = {}
    /\ stage = "file" =>
           /\ AllPatterns \subseteq Path
           /\ \A p \in AllPatterns \ todo : p \in hits <=> PhpMatches(name, p)
    /\ call # "none" => stage = "file" /\ Comparing

LEMMA InitMatchInv == ASSUME InitEcs \/ InitLoaded PROVE MatchInv
<1>1. InitFile /\ stage # "file"
  BY DEF InitEcs, InitLoaded, ConfigInit
<1>2. Begun
  BY <1>1 DEF InitFile, Begun, Arguments
<1>3. LoopInv
  BY <1>2, BegunLoopInv
<1> QED BY <1>1, <1>2, <1>3 DEF MatchInv, InitFile

LEMMA CurrentIs == todo # {} => Current \in todo
BY DEF Current

LEMMA StartMatchInv ==
    ASSUME ConfigInv, DumpInv, MatchInv, NEW n \in Names, Start(n)
    PROVE  MatchInv'
<1>1. /\ stage = "resolved" /\ stage' = "file" /\ name' = n /\ todo' = AllPatterns
      /\ UNCHANGED <<blink, pattern, px, nx, starPx, starNx, result, call, hits>>
      /\ Begun /\ call = "none" /\ hits = {}
  BY DEF MatchInv, Start, AllPatterns
<1>2. n \in Seq(Char)
  BY FnmatchAssumption DEF FnmatchAssumption
<1>3. Begun'
  BY <1>1, <1>2 DEF Begun, Arguments
<1>4. LoopInv'
  BY <1>3, BegunLoopInvNext
<1>5. AllPatterns' = AllPatterns /\ AllPatterns \subseteq Path
  BY <1>1, PatternsAre DEF AllPatterns
<1> QED BY <1>1, <1>4, <1>5 DEF MatchInv

(* An answer settles one pattern.                                          *)
LEMMA AnsweredInv ==
    ASSUME MatchInv, stage = "file", todo # {}, NEW hit \in BOOLEAN,
           hit <=> PhpMatches(name, Current),
           Answered(Current, hit), UNCHANGED <<configVars, matchVars>>
    PROVE  MatchInv'
<1>1. /\ todo' = todo \ {Current} /\ hits' = IF hit THEN hits \cup {Current} ELSE hits
      /\ call' = "none" /\ stage' = "file" /\ blink' = blink /\ name' = name
      /\ UNCHANGED vars
      /\ LoopInv /\ todo \subseteq AllPatterns /\ hits \cap todo = {} /\ AllPatterns \subseteq Path
      /\ \A p \in AllPatterns \ todo : p \in hits <=> PhpMatches(name, p)
      /\ Current \in todo
  BY CurrentIs DEF MatchInv, Answered, configVars, matchVars, vars
<1>2. LoopInv'
  BY <1>1, NextLoopInv
<1>3. AllPatterns' = AllPatterns
  BY <1>1 DEF AllPatterns
<1>4. \A p : (PhpMatches(name, p))' <=> PhpMatches(name, p)
  BY <1>1
<1>5. \A p \in AllPatterns \ todo' : p \in hits' <=> PhpMatches(name, p)
  <2> DEFINE x == Current
  <2>1. /\ todo' = todo \ {x} /\ hits' = IF hit THEN hits \cup {x} ELSE hits
        /\ hit <=> PhpMatches(name, x)
        /\ x \in todo /\ hits \cap todo = {}
        /\ \A p \in AllPatterns \ todo : p \in hits <=> PhpMatches(name, p)
    BY <1>1
  <2> HIDE DEF x
  <2>2. x \in hits' <=> PhpMatches(name, x)
    BY <2>1
  <2>3. \A p \in AllPatterns \ todo : p \in hits' <=> PhpMatches(name, p)
    BY <2>1
  <2> QED BY <2>1, <2>2, <2>3
<1>6. todo' \subseteq AllPatterns /\ hits' \cap todo' = {}
  BY <1>1
<1> QED BY <1>1, <1>2, <1>3, <1>4, <1>5, <1>6 DEF MatchInv

LEMMA CompareMatchInv == ASSUME MatchInv, Compare PROVE MatchInv'
<1>1. PhpMatches(name, Current)
  BY DEF Compare, PhpMatches
<1> QED BY <1>1, AnsweredInv DEF Compare

LEMMA CallMatchInv ==
    ASSUME MatchInv, stage = "file", Fresh, pattern' \in Path, Comparing',
           UNCHANGED <<configVars, name, todo, hits>>
    PROVE  MatchInv'
<1>1. /\ stage' = "file" /\ blink' = blink /\ UNCHANGED <<name, todo, hits>>
      /\ px' = 0 /\ nx' = 0 /\ starPx' = -1 /\ starNx' = -1 /\ result' = "none"
      /\ Arguments /\ todo \subseteq AllPatterns /\ hits \cap todo = {} /\ AllPatterns \subseteq Path
      /\ \A p \in AllPatterns \ todo : p \in hits <=> PhpMatches(name, p)
  BY DEF MatchInv, LoopInv, Fresh, configVars
<1>2. Begun'
  BY <1>1 DEF Begun, Arguments, Path
<1>3. LoopInv'
  BY <1>2, BegunLoopInvNext
<1>4. AllPatterns' = AllPatterns
  BY <1>1 DEF AllPatterns
<1>5. \A p : (PhpMatches(name, p))' <=> PhpMatches(name, p)
  BY <1>1
<1> QED BY <1>1, <1>3, <1>4, <1>5 DEF MatchInv

LEMMA CallGlobMatchInv == ASSUME MatchInv, CallGlob PROVE MatchInv'
<1>1. /\ stage = "file" /\ todo # {} /\ Current \in todo /\ ~TextMatches(name, Current)
      /\ pattern' = Normalize(Current) /\ call' = "glob" /\ Fresh
      /\ UNCHANGED <<configVars, name, todo, hits>>
  BY CurrentIs DEF CallGlob
<1>2. Current \in Path
  BY <1>1 DEF MatchInv
<1>3. Current' = Current
  BY <1>1 DEF Current
<1>4. Comparing'
  BY <1>1, <1>3 DEF Comparing
<1>5. pattern' \in Path
  BY <1>1, <1>2, NormalizeType
<1> QED BY <1>1, <1>4, <1>5, CallMatchInv

LEMMA CallRelativeMatchInv == ASSUME MatchInv, CallRelative PROVE MatchInv'
<1>1. /\ call = "glob" /\ result = "mismatch" /\ call' = "relative"
      /\ pattern' = <<Star, Slash>> \o pattern /\ Fresh
      /\ UNCHANGED <<configVars, name, todo, hits>>
      /\ stage = "file" /\ Comparing /\ pattern = Normalize(Current) /\ Decides
  BY DEF CallRelative, MatchInv, Comparing, LoopInv
<1>2. Current \in Path
  BY <1>1 DEF MatchInv, Comparing
<1>3. Current' = Current
  BY <1>1 DEF Current
<1>4. ~GlobMatches(pattern, name)
  BY <1>1, GlobIs DEF Decides
<1>5. Comparing'
  BY <1>1, <1>3, <1>4 DEF Comparing
<1>6. pattern' \in Path
  BY <1>1, <1>2, NormalizeType, RelativeType
<1> QED BY <1>1, <1>5, <1>6, CallMatchInv

LEMMA MatchMatchInv == ASSUME MatchInv, Match PROVE MatchInv'
<1>1. /\ call # "none" /\ Step /\ UNCHANGED <<configVars, call, todo, hits>>
      /\ LoopInv /\ stage = "file" /\ Comparing
  BY DEF Match, MatchInv
<1>2. LoopInv'
  BY <1>1, NextLoopInv DEF Next
<1>3. UNCHANGED <<pattern, name>>
  BY <1>1 DEF Step, TakeStar, TakeByte, Backtrack, Fail, Succeed
<1>4. /\ stage' = stage /\ blink' = blink /\ AllPatterns' = AllPatterns
      /\ Current' = Current
  BY <1>1 DEF configVars, AllPatterns, Current
<1>5. Comparing'
  BY <1>1, <1>3, <1>4 DEF Comparing
<1>6. \A p : (PhpMatches(name, p))' <=> PhpMatches(name, p)
  BY <1>3
<1> QED BY <1>1, <1>2, <1>4, <1>5, <1>6 DEF MatchInv

LEMMA AnswerMatchInv == ASSUME MatchInv, Answer PROVE MatchInv'
<1> DEFINE hit == result = "match" \/ UnderRealpath(name, Current)
<1>1. /\ call # "none" /\ stage = "file" /\ Comparing /\ Decides /\ todo # {}
      /\ result = "match" \/ (call = "relative" /\ result = "mismatch")
      /\ Answered(Current, hit) /\ UNCHANGED <<configVars, matchVars>>
  BY DEF Answer, MatchInv, LoopInv, Comparing
<1>2. hit <=> PhpMatches(name, Current)
  <2>1. CASE result = "match"
    <3>1. GlobMatches(pattern, name)
      BY <1>1, <2>1, GlobIs DEF Decides
    <3>2. GlobMatches(Normalize(Current), name) \/ GlobMatches(<<Star, Slash>> \o Normalize(Current), name)
      BY <1>1, <3>1 DEF Comparing
    <3> QED BY <2>1, <3>2 DEF PhpMatches
  <2>2. CASE result = "mismatch" /\ call = "relative"
    <3>1. ~GlobMatches(pattern, name)
      BY <1>1, <2>2, GlobIs DEF Decides
    <3>2. /\ ~GlobMatches(Normalize(Current), name) /\ ~TextMatches(name, Current)
          /\ ~GlobMatches(<<Star, Slash>> \o Normalize(Current), name)
      BY <1>1, <2>2, <3>1 DEF Comparing
    <3> QED BY <2>2, <3>2 DEF PhpMatches
  <2> QED BY <1>1, <2>1, <2>2
<1> HIDE DEF hit
<1>3. hit \in BOOLEAN
  BY DEF hit
<1> QED BY <1>1, <1>2, <1>3, AnsweredInv

LEMMA MatchInvNext ==
    ASSUME ConfigInv, DumpInv, MatchInv, [SkipNext]_skipVars
    PROVE  MatchInv'
<1>1. CASE ConfigNext /\ UNCHANGED <<matchVars, call, todo, hits>>
  <2>1. stage # "file" /\ stage' # "file" /\ UNCHANGED <<vars, call, todo, hits>>
    BY <1>1 DEF ConfigNext, Calls, WithRules, WithConfiguredRule, WithSets, WithSkip, WithLevel,
                Call, InvokeFails, Invoke, BootFails, Boot, Dump, Resolve, Resolved, Reject,
                matchVars, vars
  <2>2. Begun /\ call = "none" /\ todo = {} /\ hits = {}
    BY <2>1 DEF MatchInv
  <2>3. Begun'
    BY <2>1, <2>2 DEF Begun, Arguments, vars
  <2>4. LoopInv'
    BY <2>3, BegunLoopInvNext
  <2> QED BY <2>1, <2>2, <2>3, <2>4 DEF MatchInv
<1>2. CASE \E n \in Names : Start(n)
  BY <1>2, StartMatchInv
<1>3. CASE OneFile
  BY <1>3, CompareMatchInv, CallGlobMatchInv, MatchMatchInv, CallRelativeMatchInv,
     AnswerMatchInv DEF OneFile
<1>4. CASE Over \/ UNCHANGED skipVars
  <2>1. UNCHANGED <<stage, blink, call, todo, hits, vars>>
    BY <1>4 DEF Over, skipVars, configVars, matchVars, vars
  <2>2. LoopInv'
    BY <2>1, NextLoopInv DEF MatchInv
  <2>3. /\ AllPatterns' = AllPatterns /\ Current' = Current
        /\ UNCHANGED <<pattern, name, px, nx, starPx, starNx, result>>
    BY <2>1 DEF AllPatterns, Current, vars
  <2>4. \A p : (PhpMatches(name, p))' <=> PhpMatches(name, p)
    BY <2>3
  <2>5. (Begun' <=> Begun) /\ (Comparing' <=> Comparing)
    BY <2>1, <2>3 DEF Begun, Arguments, Comparing
  <2> QED BY <2>1, <2>2, <2>3, <2>4, <2>5 DEF MatchInv
<1> QED BY <1>1, <1>2, <1>3, <1>4 DEF SkipNext
-----------------------------------------------------------------------------
(* A file that was compared with every pattern: PHP skips a checker for it *)
(* exactly if the patterns of its class in blink match.                    *)

Settled ==
    /\ Configured /\ dump = FullDump /\ blink = FullBlink
    /\ \A p \in AllPatterns : p \in hits <=> PhpMatches(name, p)

LEMMA PhpSkipsIs ==
    ASSUME NEW c, NEW n
    PROVE  PhpSkips(c, n) <=>
               \E d \in Behind(c) : \/ SkippedEntry(d).everywhere
                                    \/ \E p \in SkippedEntry(d).paths : PhpMatches(n, p)
BY DEF PhpSkips, Behind, SkippedEntry

LEMMA OffIsSkipped ==
    ASSUME Settled, NEW c \in Kept(ecs), Off(c)
    PROVE  PhpSkips(c, name)
BY SkipsOfClass, PhpSkipsIs DEF Settled

LEMMA ActiveSkips ==
    ASSUME Settled, NEW c \in Active
    PROVE  /\ c \in Kept(ecs)
           /\ PhpSkips(c, name) <=> \E p \in PathsOf(c) : PhpMatches(name, p)
<1>1. c \in Kept(ecs) /\ ~Off(c) /\ Configured /\ dump = FullDump
  BY ActiveKept DEF Settled, Active
<1>2. \A d \in Behind(c) : ~SkippedEntry(d).everywhere
  BY <1>1, SkipsOfClass
<1>3. {d \in Behind(c) : ~SkippedEntry(d).everywhere} = Behind(c)
  BY <1>2
<1>4. SkippedOn(c) = {As(c, d) : d \in Behind(c)}
  <2>1. SkippedOn(c) = {As(c, d) : d \in {d \in Behind(c) : ~SkippedEntry(d).everywhere}}
    BY <1>1, SkipsOfClass
  <2> QED BY <1>3, <2>1
<1>5. \A d \in Behind(c) : As(c, d).paths = SkippedEntry(d).paths
  BY <1>1, AsFields DEF Behind
<1>6. PathsOf(c) = UNION {SkippedEntry(d).paths : d \in Behind(c)}
  BY <1>4, <1>5 DEF PathsOf
<1> QED BY <1>1, <1>2, <1>6, PhpSkipsIs

LEMMA SkippedForIs ==
    ASSUME Settled, NEW f \in Known, BehindFixer(f) # {}
    PROVE  SkippedFor(f) <=> \A c \in BehindFixer(f) : PhpSkips(c, name)
<1>1. DOMAIN blink.groups = Known /\ blink.groups[f] = Groups(f)
  BY DEF Settled, FullBlink
<1>2. SkippedFor(f) <=> Groups(f) # {} /\ \A paths \in Groups(f) : Hit(paths)
  BY <1>1 DEF SkippedFor
<1>3. \A c \in BehindFixer(f) : c \in Active
  BY DEF BehindFixer
<1>4. CASE \E c \in BehindFixer(f) : SkippedOn(c) = {}
  <2>1. PICK c \in BehindFixer(f) : SkippedOn(c) = {}
    BY <1>4
  <2>2. PathsOf(c) = {}
    BY <2>1 DEF PathsOf
  <2>3. ~PhpSkips(c, name)
    BY <1>3, <2>2, ActiveSkips
  <2>4. Groups(f) = {}
    BY <1>4, GroupsAre
  <2> QED BY <1>2, <2>3, <2>4
<1>5. CASE ~\E c \in BehindFixer(f) : SkippedOn(c) = {}
  <2>1. Groups(f) = {PathsOf(c) : c \in BehindFixer(f)}
    BY <1>5, GroupsAre
  <2>2. ASSUME NEW c \in BehindFixer(f) PROVE Hit(PathsOf(c)) <=> PhpSkips(c, name)
    <3>1. PathsOf(c) \subseteq AllPatterns
      BY <1>1, <2>1 DEF AllPatterns
    <3>2. Hit(PathsOf(c)) <=> \E p \in PathsOf(c) : p \in hits
      BY DEF Hit
    <3>3. Hit(PathsOf(c)) <=> \E p \in PathsOf(c) : PhpMatches(name, p)
      BY <3>1, <3>2 DEF Settled
    <3> QED BY <1>3, <3>3, ActiveSkips
  <2> QED BY <1>2, <2>1, <2>2
<1> QED BY <1>4, <1>5
-----------------------------------------------------------------------------
(* Of the rules with one key the first is run; they are of one fixer.      *)

LEMMA RulesOf ==
    ASSUME Settled
    PROVE  /\ DOMAIN dump.rules \in SUBSET Nat
           /\ \A i \in DOMAIN dump.rules :
                  \E c \in Kept(ecs) : dump.rules[i] = DumpedEntry(c) /\ dump.rules[i].class = c
           /\ \A c \in Kept(ecs) :
                  \E i \in DOMAIN dump.rules : dump.rules[i] = DumpedEntry(c) /\ dump.rules[i].class = c
<1>1. dump.rules = DumpedRules /\ Configured
  BY DEF Settled, FullDump
<1>2. DumpedRules \in Seq(Entries) /\ ToSet(DumpedRules) = {DumpedEntry(c) : c \in Kept(ecs)}
  BY <1>1, DumpedRulesAre
<1>3. \A c \in Kept(ecs) : DumpedEntry(c).class = c
  BY DEF DumpedEntry, Entry
<1>4. DOMAIN DumpedRules \in SUBSET Nat
  BY <1>2, LenProperties
<1>5. ToSet(DumpedRules) = {DumpedRules[i] : i \in DOMAIN DumpedRules}
  BY DEF ToSet
<1>6. ASSUME NEW i \in DOMAIN DumpedRules
      PROVE  \E c \in Kept(ecs) : DumpedRules[i] = DumpedEntry(c) /\ DumpedRules[i].class = c
  <2>1. DumpedRules[i] \in {DumpedEntry(c) : c \in Kept(ecs)}
    BY <1>2, <1>5
  <2>2. PICK c \in Kept(ecs) : DumpedRules[i] = DumpedEntry(c)
    BY <2>1
  <2> QED BY <1>3, <2>2
<1>7. ASSUME NEW c \in Kept(ecs)
      PROVE  \E i \in DOMAIN DumpedRules : DumpedRules[i] = DumpedEntry(c) /\ DumpedRules[i].class = c
  <2>1. DumpedEntry(c) \in {DumpedRules[i] : i \in DOMAIN DumpedRules}
    BY <1>2, <1>5
  <2>2. PICK i \in DOMAIN DumpedRules : DumpedEntry(c) = DumpedRules[i]
    BY <2>1
  <2> QED BY <1>3, <2>2
<1>8. /\ \A i \in DOMAIN DumpedRules :
            \E c \in Kept(ecs) : DumpedRules[i] = DumpedEntry(c) /\ DumpedRules[i].class = c
      /\ \A c \in Kept(ecs) :
            \E i \in DOMAIN DumpedRules : DumpedRules[i] = DumpedEntry(c) /\ DumpedRules[i].class = c
  BY <1>6, <1>7
<1> QED BY <1>1, <1>4, <1>8

LEMMA OneFixerPerKey ==
    ASSUME NEW e \in Entries, NEW x \in Entries, KeyOf(e) = KeyOf(x)
    PROVE  Successor[e.class] = Successor[x.class]
<1>1. e.class \in Checker /\ x.class \in Checker
  BY EntryFields
<1>2. \A c \in Checker : Successor[Successor[c]] = Successor[c]
  BY SuccessorAssumption DEF SuccessorAssumption
<1>3. KeyOf(e) = e.class \/ KeyOf(e) = Successor[e.class]
  BY DEF KeyOf
<1>4. KeyOf(x) = x.class \/ KeyOf(x) = Successor[x.class]
  BY DEF KeyOf
<1> QED BY <1>1, <1>2, <1>3, <1>4

LEMMA FirstExists ==
    ASSUME Settled, NEW j \in Usable
    PROVE  \E i \in Usable : First(i) /\ KeyOf(dump.rules[i]) = KeyOf(dump.rules[j])
<1> DEFINE S == {i \in Usable : KeyOf(dump.rules[i]) = KeyOf(dump.rules[j])}
<1>1. S \in SUBSET Nat /\ S # {}
  BY RulesOf DEF Usable
<1>2. PICK i \in S : \A x \in S : i <= x
  <2> HIDE DEF S
  <2> QED BY <1>1, LeastNatural
<1>3. First(i)
  <2> SUFFICES ASSUME NEW x \in Usable, x < i, KeyOf(dump.rules[x]) = KeyOf(dump.rules[i])
               PROVE  FALSE
    BY DEF First
  <2>1. x \in S /\ x \in Nat /\ i \in Nat
    BY <1>1, <1>2
  <2> QED BY <1>2, <2>1
<1> QED BY <1>2, <1>3

(* PHP's own options reach blink, which may take none.                     *)
PhpEntry(c) == Entry(c, ecs.conf[c])

LEMMA DumpedAsConfigured ==
    ASSUME NEW c \in Kept(ecs), ~Undumped(Successor[c])
    PROVE  DumpedEntry(c) = PhpEntry(c)
BY DEF Undumped, DumpedEntry, PhpEntry

LEMMA RunsAsConfigured ==
    ASSUME NEW c \in Kept(ecs), ~Undumped(Successor[c]), ~Ignores(PhpEntry(c))
    PROVE  RunOf(DumpedEntry(c)) = PhpRun(c)
<1>1. RunOf(PhpEntry(c)) = <<Successor[PhpEntry(c).class], OptionsOf(PhpEntry(c))>>
  BY DEF RunOf
<1>2. PhpEntry(c).class = c
  BY DEF PhpEntry, Entry
<1> QED BY <1>1, <1>2, DumpedAsConfigured DEF PhpRun, PhpEntry

(* Of the classes of one fixer that are alike blink ignores all or none.   *)
LEMMA OneOption ==
    ASSUME NEW c \in Kept(ecs), NEW d \in Kept(ecs), Successor[c] = Successor[d],
           ~TwoOptions(Successor[c])
    PROVE  PhpRun(c) = PhpRun(d) /\ (Ignores(PhpEntry(c)) <=> Ignores(PhpEntry(d)))
<1>1. PhpRun(c) = PhpRun(d)
  BY DEF TwoOptions
<1>2. OptionsOf(PhpEntry(c)) = OptionsOf(PhpEntry(d))
  BY <1>1 DEF PhpRun, PhpEntry
<1>3. PhpEntry(c).class = c /\ PhpEntry(d).class = d
  BY DEF PhpEntry, Entry
<1> QED BY <1>1, <1>2, <1>3 DEF Ignores

LEMMA ComparedIs ==
    ASSUME NEW c \in Kept(ecs), Successor[c] \in Compared
    PROVE  /\ Successor[c] \in Known /\ ~TwoOptions(Successor[c])
           /\ ~Undumped(Successor[c]) /\ ~Ignores(PhpEntry(c))
BY DEF Compared, SameOptions, Ignored, PhpEntry

(* Whatever blink runs is the fixer of a checker PHP runs.                 *)
LEMMA WhatRunsMust ==
    ASSUME Settled, NEW run \in RunsOnFile
    PROVE  /\ \E d \in PhpRunning : Successor[d] = run[1]
           /\ run[1] \in Compared =>
                  run \in {PhpRun(c) : c \in {d \in PhpRunning : Successor[d] \in Compared}}
<1>1. run \in Runs /\ ~SkippedFor(run[1])
  BY DEF RunsOnFile, Settled, FullBlink
<1>2. PICK i \in Usable : run = RunOf(dump.rules[i])
  BY <1>1 DEF Runs
<1>3. PICK c \in Kept(ecs) : dump.rules[i] = DumpedEntry(c) /\ dump.rules[i].class = c
  BY RulesOf DEF Usable
<1> DEFINE f == Successor[c]
<1>4. run[1] = f /\ f \in Known
  <2>1. Supported(c)
    BY <1>2, <1>3 DEF Usable
  <2> QED BY <1>2, <1>3, <2>1 DEF RunOf, Supported
<1>5. c \in BehindFixer(f)
  <2>1. c \in Classes(dump.rules)
    BY <1>2, <1>3 DEF Usable, Classes
  <2> QED BY <1>2, <1>3, <2>1 DEF Usable, BehindFixer, Active
<1>6. PICK d \in BehindFixer(f) : ~PhpSkips(d, name)
  BY <1>1, <1>4, <1>5, SkippedForIs
<1>7. d \in Kept(ecs) /\ Successor[d] = f
  BY <1>6, ActiveSkips DEF BehindFixer
<1>8. d \in PhpRunning
  BY <1>4, <1>6, <1>7 DEF PhpRunning
<1>9. ASSUME f \in Compared PROVE PhpRun(d) = run
  <2>1. RunOf(DumpedEntry(c)) = PhpRun(c)
    BY <1>9, ComparedIs, RunsAsConfigured
  <2>2. PhpRun(c) = PhpRun(d)
    BY <1>7, <1>9, ComparedIs, OneOption
  <2> QED BY <1>2, <1>3, <2>1, <2>2
<1> QED BY <1>4, <1>7, <1>8, <1>9

(* For what PHP runs blink runs the fixer, with the options of one of its  *)
(* classes that is configured alike, unless these are ignored.             *)
LEMMA WhatMustRuns ==
    ASSUME Settled, NEW c \in PhpRunning
    PROVE  /\ \E run \in RunsOnFile : run[1] = Successor[c]
           /\ SameOptions(Successor[c]) /\ ~Ignores(PhpEntry(c)) => PhpRun(c) \in RunsOnFile
           /\ SameOptions(Successor[c]) /\ c \notin blink.ignored => ~Ignores(PhpEntry(c))
<1> DEFINE f == Successor[c]
<1>1. c \in Kept(ecs) /\ f \in Known /\ ~PhpSkips(c, name)
  BY DEF PhpRunning
<1>2. PICK j \in DOMAIN dump.rules : dump.rules[j] = DumpedEntry(c) /\ dump.rules[j].class = c
  BY <1>1, RulesOf
<1>3. ~Off(c) /\ Supported(c)
  BY <1>1, OffIsSkipped DEF Supported
<1>4. j \in Usable /\ c \in BehindFixer(f)
  <2>1. c \in Classes(dump.rules)
    BY <1>2 DEF Classes
  <2> QED BY <1>2, <1>3, <2>1 DEF Usable, BehindFixer, Active
<1>5. PICK i \in Usable : First(i) /\ KeyOf(dump.rules[i]) = KeyOf(dump.rules[j])
  BY <1>4, FirstExists
<1>6. PICK d \in Kept(ecs) : dump.rules[i] = DumpedEntry(d) /\ dump.rules[i].class = d
  BY <1>5, RulesOf DEF Usable
<1>7. dump.rules[i] \in Entries /\ dump.rules[j] \in Entries
  <2>1. dump.rules \in Seq(Entries)
    BY DumpedRulesAre DEF Settled, FullDump
  <2> QED BY <1>2, <1>5, <2>1 DEF Usable
<1>8. Successor[d] = f
  BY <1>2, <1>5, <1>6, <1>7, OneFixerPerKey
<1>9. ~SkippedFor(f)
  BY <1>1, <1>4, SkippedForIs
<1>10. RunOf(dump.rules[i]) \in blink.runs
  BY <1>5 DEF Runs, Settled, FullBlink
<1>11. RunOf(dump.rules[i])[1] = f
  BY <1>6, <1>8 DEF RunOf
<1>12. RunOf(dump.rules[i]) \in RunsOnFile
  BY <1>9, <1>10, <1>11 DEF RunsOnFile
<1>13. ASSUME SameOptions(f), ~Ignores(PhpEntry(c)) PROVE PhpRun(c) \in RunsOnFile
  <2>1. ~TwoOptions(f) /\ ~Undumped(f)
    BY <1>13 DEF SameOptions
  <2>2. PhpRun(d) = PhpRun(c) /\ ~Ignores(PhpEntry(d))
    BY <1>1, <1>8, <1>13, <2>1, OneOption
  <2>3. RunOf(DumpedEntry(d)) = PhpRun(d)
    BY <1>8, <2>1, <2>2, RunsAsConfigured
  <2> QED BY <1>6, <1>12, <2>2, <2>3
<1>14. ASSUME SameOptions(f), Ignores(PhpEntry(c)) PROVE c \in blink.ignored
  <2>1. dump.rules[j] = PhpEntry(c)
    BY <1>1, <1>2, <1>14, DumpedAsConfigured DEF SameOptions
  <2>2. blink.ignored = ConfigIgnored
    BY DEF Settled, FullBlink
  <2> QED BY <1>2, <1>4, <1>14, <2>1, <2>2 DEF ConfigIgnored
<1> QED BY <1>11, <1>12, <1>13, <1>14

Verdict ==
    /\ SkippedFile <=> \E p \in SkippedPaths : PhpMatches(name, p)
    /\ SameFixers
    /\ NothingHidden

LEMMA SettledVerdict == ASSUME Settled PROVE Verdict
<1>1. SkippedFile <=> \E p \in SkippedPaths : PhpMatches(name, p)
  <2>1. blink.skip = SkippedPaths
    BY SkipOfPaths DEF Settled, FullBlink, PathsOf
  <2>2. SkippedPaths \subseteq AllPatterns
    BY <2>1 DEF AllPatterns
  <2> QED BY <2>1, <2>2 DEF SkippedFile, Hit, Settled
<1>2. SameFixers
  <2>1. \A c \in PhpRunning : Successor[c] \in Compared =>
            PhpRun(c) \in RunsOnFile /\ PhpRun(c)[1] = Successor[c]
    <3> TAKE c \in PhpRunning
    <3>1. c \in Kept(ecs) /\ PhpRun(c)[1] = Successor[c]
      BY DEF PhpRunning, PhpRun
    <3>2. Successor[c] \in Compared => SameOptions(Successor[c])
      BY DEF Compared
    <3> QED BY <3>1, <3>2, ComparedIs, WhatMustRuns
  <2>2. {run[1] : run \in RunsOnFile} = {Successor[c] : c \in PhpRunning}
    BY WhatRunsMust, WhatMustRuns
  <2>3. {run \in RunsOnFile : run[1] \in Compared} =
        {PhpRun(c) : c \in {d \in PhpRunning : Successor[d] \in Compared}}
    BY <2>1, WhatRunsMust
  <2> QED BY <2>2, <2>3 DEF SameFixers
<1>3. Active \subseteq Kept(ecs) /\ Classes(dump.rules) = Kept(ecs)
  BY ActiveKept DEF Settled
<1>4. blink.unsupported = {c \in Active : ~Supported(c)}
  BY DEF Settled, FullBlink
<1>5. blink.unsupported \subseteq {c \in Kept(ecs) : Successor[c] \notin Known}
  BY <1>3, <1>4 DEF Supported
<1>6. ASSUME NEW c \in Kept(ecs) \ blink.unsupported
      PROVE  Successor[c] \in Known \/ PhpSkips(c, name)
  <2>1. CASE c \in Active
    BY <1>4, <2>1 DEF Supported
  <2>2. CASE c \notin Active
    <3>1. Off(c)
      BY <1>3, <2>2 DEF Active
    <3> QED BY <3>1, OffIsSkipped
  <2> QED BY <2>1, <2>2
<1>7. \A c \in PhpRunning \ blink.ignored :
          SameOptions(Successor[c]) => PhpRun(c) \in RunsOnFile
  BY WhatMustRuns
<1> QED BY <1>1, <1>2, <1>5, <1>6, <1>7 DEF Verdict, NothingHidden

LEMMA LoadedVerdict ==
    ASSUME Loaded, \A p \in AllPatterns : p \in hits <=> PhpMatches(name, p)
    PROVE  Verdict
<1>1. blink.skip = SkippedPaths /\ blink.runs = {} /\ blink.unsupported = {} /\ Kept(ecs) = {}
  BY DEF Loaded, ConfigOfPaths, Kept
<1>2. SkippedPaths \subseteq AllPatterns
  BY <1>1 DEF AllPatterns
<1>3. SkippedFile <=> \E p \in SkippedPaths : PhpMatches(name, p)
  BY <1>1, <1>2 DEF SkippedFile, Hit
<1>4. RunsOnFile = {} /\ PhpRunning = {}
  BY <1>1 DEF RunsOnFile, PhpRunning
<1> QED BY <1>1, <1>3, <1>4 DEF Verdict, SameFixers, NothingHidden

LEMMA Invariants == SkipSpec => [](ConfigInv /\ DumpInv /\ MatchInv)
<1>1. InitEcs \/ InitLoaded => ConfigInv /\ DumpInv /\ MatchInv
  BY InitEcsInv, InitLoadedInv, InitDumpInv, InitMatchInv
<1>2. ConfigInv /\ DumpInv /\ MatchInv /\ [SkipNext]_skipVars => (ConfigInv /\ DumpInv /\ MatchInv)'
  BY SkipNextConfigInv, DumpInvNext, MatchInvNext
<1> QED BY <1>1, <1>2, PTL DEF SkipSpec

\* In every call of fnmatch the finder makes, "match" and "mismatch" are right
\* (skip.go, fnmatch).
THEOREM FnmatchOfTheFinder == SkipSpec => []Decides
<1>1. MatchInv => Decides
  BY DEF MatchInv, LoopInv
<1> QED BY <1>1, Invariants, PTL

\* For every ecs.php, every skip and every file, both engines skip the same
\* files and run the same fixers on the others, with the same options but for
\* the differences TwoOptions, Undumped and Ignored name, of which the last is
\* reported; and PHP accepts nothing that blink rejects.
THEOREM BothEnginesAgree == SkipSpec => []SameVerdict
<1>1. ConfigInv /\ DumpInv /\ MatchInv => SameVerdict
  <2> SUFFICES ASSUME ConfigInv, DumpInv, MatchInv PROVE SameVerdict
    OBVIOUS
  <2>1. stage = "rejected" => dump = NoDump
    BY DEF DumpInv
  <2>2. ASSUME stage = "file", todo = {} PROVE Verdict
    <3>1. \A p \in AllPatterns : p \in hits <=> PhpMatches(name, p)
      BY <2>2 DEF MatchInv
    <3>2. Configured /\ (Loaded \/ (dump = FullDump /\ blink = FullBlink))
      BY <2>2 DEF ConfigInv, DumpInv
    <3>3. CASE Loaded
      BY <3>1, <3>3, LoadedVerdict
    <3>4. CASE dump = FullDump /\ blink = FullBlink
      <4>1. Settled
        BY <3>1, <3>2, <3>4 DEF Settled
      <4> QED BY <4>1, SettledVerdict
    <3> QED BY <3>2, <3>3, <3>4
  <2> QED BY <2>1, <2>2 DEF SameVerdict, Verdict
<1> QED BY <1>1, Invariants, PTL
=============================================================================
