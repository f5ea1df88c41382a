------------------------------ MODULE LineDiff ------------------------------
(***************************************************************************)
(* The diff package of the blink engine: the walk along the table of       *)
(* longest common subsequences, and the cut of its operations into hunks.  *)
(* A file is the sequence of its lines, as splitLines leaves them: without *)
(* their line ends, and without the empty one a final newline would add.   *)
(***************************************************************************)
EXTENDS Integers, Sequences, FiniteSets, FiniteSetsExt

CONSTANTS
    Line,     \* what a line may hold
    Files,    \* the contents that are compared
    Context   \* equal lines kept around a change

ASSUME DiffAssumption == Files \subseteq Seq(Line) /\ Context \in Nat

VARIABLES
    a, b,      \* before and after
    i, j,      \* how many lines of each the walk has passed
    ops,       \* [kind, text]: "equal", "del", "add"
    k,         \* how many operations hunks has passed
    cur, curFrom,  \* the hunk being collected and its first line in a
    origLine,  \* the line of a the next operation is at
    result,    \* the hunks
    at         \* "walk", "hunks", "done"

walk == <<a, b, i, j, ops>>
cutting == <<k, cur, curFrom, origLine, result>>
vars == <<a, b, i, j, ops, k, cur, curFrom, origLine, result, at>>

Init ==
    /\ a \in Files /\ b \in Files
    /\ i = 0 /\ j = 0 /\ ops = <<>>
    /\ k = 0 /\ cur = <<>> /\ curFrom = 0 /\ origLine = 1 /\ result = <<>>
    /\ at = "walk"
-----------------------------------------------------------------------------
(* diffLines.                                                              *)

Larger(x, y) == IF x >= y THEN x ELSE y

(* lcs[<<p, q>>]: of what follows the first p lines of s and q lines of t. *)
LCS(s, t) ==
    LET lcs[c \in (0 .. Len(s)) \X (0 .. Len(t))] ==
            LET p == c[1]
                q == c[2]
            IN  IF p = Len(s) \/ q = Len(t) THEN 0
                ELSE IF s[p + 1] = t[q + 1] THEN lcs[<<p + 1, q + 1>>] + 1
                ELSE Larger(lcs[<<p + 1, q>>], lcs[<<p, q + 1>>])
    IN  lcs

Emit(kind, text) == ops' = Append(ops, [kind |-> kind, text |-> text])

BothLeft == i < Len(a) /\ j < Len(b)
SameLineLoose == BothLeft                       \* mutant: lines not compared
SameLine == BothLeft /\ a[i + 1] = b[j + 1]

DelFirstAlways == BothLeft                      \* mutant: the table is not asked
DelFirst == BothLeft /\ LCS(a, b)[<<i + 1, j>>] >= LCS(a, b)[<<i, j + 1>>]

Equal ==
    /\ at = "walk" /\ SameLine
    /\ Emit("equal", a[i + 1])
    /\ i' = i + 1 /\ j' = j + 1
    /\ UNCHANGED <<a, b, cutting, at>>

Del ==
    /\ at = "walk" /\ i < Len(a) /\ ~SameLine
    /\ DelFirst \/ j = Len(b)
    /\ Emit("del", a[i + 1])
    /\ i' = i + 1
    /\ UNCHANGED <<a, b, j, cutting, at>>

Add ==
    /\ at = "walk" /\ j < Len(b) /\ ~SameLine
    /\ ~DelFirst
    /\ Emit("add", b[j + 1])
    /\ j' = j + 1
    /\ UNCHANGED <<a, b, i, cutting, at>>

WalkEnds ==
    /\ at = "walk" /\ i = Len(a) /\ j = Len(b)
    /\ at' = "hunks"
    /\ UNCHANGED <<walk, cutting>>
-----------------------------------------------------------------------------
(* hunks.                                                                  *)

IsChange(o) == ops[o].kind # "equal"
KeepShort(o) ==                       \* mutant: the trailing context is one short
    \E c \in DOMAIN ops : IsChange(c) /\ o >= c - Context /\ o < c + Context
Keep(o) == \E c \in DOMAIN ops : IsChange(c) /\ o \in c - Context .. c + Context

OrigLineAll(o) == origLine + 1                  \* mutant: counts added lines
OrigLine(o) == IF ops[o].kind # "add" THEN origLine + 1 ELSE origLine

KeepOp ==
    /\ at = "hunks" /\ k < Len(ops) /\ Keep(k + 1)
    /\ curFrom' = IF cur = <<>> THEN origLine ELSE curFrom
    /\ cur' = Append(cur, ops[k + 1])
    /\ origLine' = OrigLine(k + 1)
    /\ k' = k + 1
    /\ UNCHANGED <<walk, result, at>>

Flushed == IF cur = <<>> THEN result
           ELSE Append(result, [fromLine |-> curFrom, ops |-> cur])

DropOp ==
    /\ at = "hunks" /\ k < Len(ops) /\ ~Keep(k + 1)
    /\ result' = Flushed
    /\ cur' = <<>>
    /\ origLine' = OrigLine(k + 1)
    /\ k' = k + 1
    /\ UNCHANGED <<walk, curFrom, at>>

HunksEnd ==
    /\ at = "hunks" /\ k = Len(ops)
    /\ result' = Flushed
    /\ at' = "done"
    /\ UNCHANGED <<walk, k, cur, curFrom, origLine>>

Done == at = "done" /\ UNCHANGED vars
-----------------------------------------------------------------------------
Next == Equal \/ Del \/ Add \/ WalkEnds \/ KeepOp \/ DropOp \/ HunksEnd \/ Done

Spec == Init /\ [][Next]_vars
-----------------------------------------------------------------------------
(* What a reader of the diff relies on, in terms of the two files alone.   *)

Lines(os, kinds) ==
    LET upTo[n \in 0 .. Len(os)] ==
            IF n = 0 THEN <<>>
            ELSE IF os[n].kind \in kinds THEN Append(upTo[n - 1], os[n].text)
            ELSE upTo[n - 1]
    IN  upTo[Len(os)]
Old == {"equal", "del"}
New == {"equal", "add"}
Both == {"equal"}
OldLines(os) == Lines(os, Old)
NewLines(os) == Lines(os, New)

\* At every step the operations tell the part of both files that was passed, so
\* in the end the "-" and " " lines are the old file and the "+" and " " lines the
\* new one (diffLines).
Rebuilds == OldLines(ops) = SubSeq(a, 1, i) /\ NewLines(ops) = SubSeq(b, 1, j)

Subsequences(s) ==
    LET upTo[n \in 0 .. Len(s)] ==
            IF n = 0 THEN {<<>>}
            ELSE upTo[n - 1] \cup {Append(t, s[n]) : t \in upTo[n - 1]}
    IN  upTo[Len(s)]

\* No diff of the two files keeps more lines: no longer sequence is a subsequence
\* of both (diffLines, the LCS table).
Shortest ==
    at = "done" =>
    Len(Lines(ops, Both)) = Max({Len(s) : s \in Subsequences(a) \cap Subsequences(b)})

(* The new file as a reader makes it from the old one and the hunks: lines *)
(* up to the hunk, the new side of the hunk, and so on.                    *)
NextLine(hs) == IF hs = <<>> THEN 1
                ELSE LET h == hs[Len(hs)] IN h.fromLine + Len(OldLines(h.ops))
Patch(s, hs, h) == SubSeq(s, NextLine(hs), h.fromLine - 1) \o NewLines(h.ops)
Patched(s, hs) ==
    LET upTo[n \in 0 .. Len(hs)] ==
            IF n = 0 THEN <<>>
            ELSE upTo[n - 1] \o Patch(s, SubSeq(hs, 1, n - 1), hs[n])
    IN  upTo[Len(hs)]

\* The hunks alone, with their line numbers, turn the old file into the new.
HunksApply ==
    at = "done" => Patched(a, result) \o SubSeq(a, NextLine(result), Len(a)) = b

\* Each hunk quotes the old file from its line on, and shows Context lines
\* before its first and after its last change, less only where the file begins
\* or ends (hunks).
HunksInContext ==
    at = "done" =>
    \A h \in DOMAIN result :
        LET os == result[h].ops
            from == result[h].fromLine
            changes == {o \in DOMAIN os : os[o].kind # "equal"}
        IN  /\ OldLines(os) = SubSeq(a, from, from + Len(OldLines(os)) - 1)
            /\ changes # {}
            /\ Min(changes) - 1 = Context \/ (from = 1 /\ Min(changes) - 1 < Context)
            /\ \/ Len(os) - Max(changes) = Context
               \/ /\ Len(os) - Max(changes) < Context
                  /\ from + Len(OldLines(os)) - 1 = Len(a)
=============================================================================
