------------------------------- MODULE Fnmatch -------------------------------
(***************************************************************************)
(* fnmatch of the blink engine's finder, the loop behind every skip path:  *)
(* one pass over pattern and name that, when stuck, lets the last "*"      *)
(* swallow one byte more, and never goes back to a "*" before it.          *)
(*                                                                         *)
(* A pattern is a sequence of Star and of sets of characters: a literal is *)
(* the set of itself, "?" the set of all, a bracket expression the set     *)
(* matchBracket accepts, an unterminated one the literal "[".              *)
(***************************************************************************)
EXTENDS Integers, Sequences

CONSTANTS
    Char,
    Star,
    Patterns, Names   \* the arguments fnmatch is called with

Atom == SUBSET Char

ASSUME FnmatchAssumption ==
    /\ Star \notin Atom
    /\ \A p \in Patterns : p \in Seq(Atom \cup {Star})
    /\ \A n \in Names : n \in Seq(Char)

VARIABLES
    pattern, name,
    px, nx,           \* how much of each is consumed
    starPx, starNx,   \* where the last "*" is, and where it ends; -1 for none
    result            \* "none", "match", "mismatch"

vars == <<pattern, name, px, nx, starPx, starNx, result>>

Init ==
    /\ pattern \in Patterns /\ name \in Names
    /\ px = 0 /\ nx = 0
    /\ starPx = -1 /\ starNx = -1
    /\ result = "none"
-----------------------------------------------------------------------------
Looping == result = "none" /\ (px < Len(pattern) \/ nx < Len(name))
AtStar == px < Len(pattern) /\ pattern[px + 1] = Star
AtMatch == /\ px < Len(pattern) /\ nx < Len(name)
           /\ pattern[px + 1] # Star /\ name[nx + 1] \in pattern[px + 1]

TakeStar ==
    /\ Looping /\ AtStar
    /\ starPx' = px /\ starNx' = nx
    /\ px' = px + 1
    /\ UNCHANGED <<pattern, name, nx, result>>

TakeByte ==
    /\ Looping /\ AtMatch
    /\ px' = px + 1 /\ nx' = nx + 1
    /\ UNCHANGED <<pattern, name, starPx, starNx, result>>

MaySwallowLess == starPx >= 0 /\ starNx + 1 < Len(name)  \* mutant: off by one
MaySwallow == starPx >= 0 /\ starNx < Len(name)

BacktrackInPlace ==                             \* mutant: no starNx++
    /\ Looping /\ ~AtStar /\ ~AtMatch /\ MaySwallow
    /\ px' = starPx + 1 /\ nx' = starNx
    /\ UNCHANGED <<pattern, name, starPx, starNx, result>>
Backtrack ==
    /\ Looping /\ ~AtStar /\ ~AtMatch /\ MaySwallow
    /\ starNx' = starNx + 1
    /\ px' = starPx + 1 /\ nx' = starNx + 1
    /\ UNCHANGED <<pattern, name, starPx, result>>

Fail ==
    /\ Looping /\ ~AtStar /\ ~AtMatch /\ ~MaySwallow
    /\ result' = "mismatch"
    /\ UNCHANGED <<pattern, name, px, nx, starPx, starNx>>

Succeed ==
    /\ result = "none" /\ px = Len(pattern) /\ nx = Len(name)
    /\ result' = "match"
    /\ UNCHANGED <<pattern, name, px, nx, starPx, starNx>>

Returned == result # "none" /\ UNCHANGED vars
-----------------------------------------------------------------------------
Step == TakeStar \/ TakeByte \/ Backtrack \/ Fail \/ Succeed
Next == Step \/ Returned

Spec == Init /\ [][Next]_vars
-----------------------------------------------------------------------------
(* What it means for a name to match a pattern, and that fnmatch decides   *)
(* it: cut[i] is how much of the name the first i atoms take.              *)

Cuts == [0 .. Len(pattern) -> 0 .. Len(name)]

Fits(cut, i) ==
    IF pattern[i] = Star THEN cut[i - 1] <= cut[i]
    ELSE cut[i] = cut[i - 1] + 1 /\ name[cut[i]] \in pattern[i]

Matching(cut) ==
    /\ cut[0] = 0 /\ cut[Len(pattern)] = Len(name)
    /\ \A i \in 1 .. Len(pattern) : Fits(cut, i)

\* The positions are within the strings, and the last "*" is where it was seen.
TypeOK ==
    /\ px \in 0 .. Len(pattern) /\ nx \in 0 .. Len(name)
    /\ starPx \in -1 .. px - 1
    /\ starNx \in -1 .. Len(name)
    /\ result \in {"none", "match", "mismatch"}
    /\ starPx = -1 <=> starNx = -1
    /\ starPx >= 0 => pattern[starPx + 1] = Star

\* Going back to the last "*" only is enough: fnmatch answers "match" exactly
\* for the names that can be cut up along the pattern (skip.go, fnmatch).
Decides ==
    /\ result = "match" => \E cut \in Cuts : Matching(cut)
    /\ result = "mismatch" => ~\E cut \in Cuts : Matching(cut)
=============================================================================
