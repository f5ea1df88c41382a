----------------------------- MODULE TokenStream -----------------------------
(***************************************************************************)
(* tokens.Stream of the blink engine: a flat sequence of tokens edited in  *)
(* place, with a flag that lets ClearEmptyTokens skip its scan and a       *)
(* version that lets Memo keep an analysis of the tokens.                  *)
(*                                                                         *)
(* A token is its value, a sequence of characters, so that an empty token  *)
(* is <<>>; kinds and positions are left out.  Positions count from 1.     *)
(***************************************************************************)
EXTENDS Integers, Sequences

CONSTANTS
    Value,      \* the values of tokens
    Slice,      \* the sequences of tokens that are inserted in one splice
    Key,        \* the analyses kept by Memo
    MaxLen,     \* bound on the length of the stream
    MaxVersion  \* bound on the number of writes

Elements(s) == {s[i] : i \in DOMAIN s}

ASSUME StreamAssumption ==
    /\ <<>> \in Value
    /\ \A v \in Value : v \in Seq(Elements(v))
    /\ \A ts \in Slice : ts \in Seq(Value)
    /\ MaxLen \in Nat /\ MaxVersion \in Nat

VARIABLES
    toks,
    mayHaveEmpty,
    version,
    memo  \* for each key the version it was built at, and from which tokens

stream == <<toks, mayHaveEmpty, version, memo>>

Empty == <<>>
HasEmpty(ts) == \E i \in 1 .. Len(ts) : ts[i] = Empty
Unbuilt == [version |-> -1, tokens |-> <<>>]

(* New.                                                                    *)
NewStream(ts) ==
    /\ toks = ts
    /\ mayHaveEmpty = TRUE
    /\ version = 0
    /\ memo = [k \in Key |-> Unbuilt]
-----------------------------------------------------------------------------
(* noteEmpty and noteEmptyIn.                                              *)
NoteEmptyNever(ts) == UNCHANGED mayHaveEmpty            \* mutant
NoteEmpty(ts) == mayHaveEmpty' = (mayHaveEmpty \/ HasEmpty(ts))

(* Positions from .. to make way for ts.                                   *)
Splice(from, to, ts) ==
    toks' = SubSeq(toks, 1, from - 1) \o ts \o SubSeq(toks, to + 1, Len(toks))

(* Set and SetValue: a write of what is there already is none.             *)
Set(i, t) ==
    /\ toks[i] # t
    /\ toks' = [toks EXCEPT ![i] = t]
    /\ NoteEmpty(<<t>>)
    /\ version' = version + 1
    /\ UNCHANGED memo

RemoveAtUnversioned(i) ==                       \* mutant: no version++
    /\ Splice(i, i, <<>>)
    /\ UNCHANGED <<mayHaveEmpty, version, memo>>
RemoveAt(i) ==
    /\ Splice(i, i, <<>>)
    /\ version' = version + 1
    /\ UNCHANGED <<mayHaveEmpty, memo>>

InsertSliceAtUnversioned(i, ts) ==              \* mutant: no version++
    /\ Splice(i, i - 1, ts)
    /\ NoteEmpty(ts)
    /\ UNCHANGED <<version, memo>>
(* InsertSliceAt, and InsertAt for a slice of one.                         *)
InsertSliceAt(i, ts) ==
    /\ Splice(i, i - 1, ts)
    /\ NoteEmpty(ts)
    /\ version' = version + 1
    /\ UNCHANGED memo

ReplaceRange(start, end, repl) ==
    /\ Splice(start, end, repl)
    /\ NoteEmpty(repl)
    /\ version' = version + 1
    /\ UNCHANGED memo

(* slices.DeleteFunc, on a prefix after the other.                         *)
WithoutEmpty(ts) ==
    LET kept[n \in 0 .. Len(ts)] ==
            IF n = 0 THEN <<>>
            ELSE IF ts[n] = Empty THEN kept[n - 1] ELSE Append(kept[n - 1], ts[n])
    IN  kept[Len(ts)]

(* The length differs after the scan exactly if there was an empty token.  *)
ClearEmptyTokens ==
    /\ \/ /\ mayHaveEmpty /\ HasEmpty(toks)
          /\ toks' = WithoutEmpty(toks)
          /\ version' = version + 1
          /\ mayHaveEmpty' = FALSE
       \/ /\ mayHaveEmpty /\ ~HasEmpty(toks)
          /\ mayHaveEmpty' = FALSE
          /\ UNCHANGED <<toks, version>>
       \/ /\ ~mayHaveEmpty
          /\ UNCHANGED <<toks, version, mayHaveEmpty>>
    /\ UNCHANGED memo

(* Memo: the analysis of key k is one of the tokens Analysed(k).           *)
Analysed(k) == IF memo[k].version = version THEN memo[k].tokens ELSE toks
Memo(k) ==
    /\ memo' = [memo EXCEPT ![k] = [version |-> version, tokens |-> Analysed(k)]]
    /\ UNCHANGED <<toks, mayHaveEmpty, version>>
-----------------------------------------------------------------------------
(* Any write a rule may make, within the bounds.                           *)
Write ==
    /\ version < MaxVersion
    /\ \/ \E i \in 1 .. Len(toks) : \/ \E t \in Value : Set(i, t)
                                    \/ RemoveAt(i)
       \/ \E ts \in Slice :
             /\ Len(toks) + Len(ts) <= MaxLen
             /\ \/ \E i \in 1 .. Len(toks) + 1 : InsertSliceAt(i, ts)
                \/ \E i \in 1 .. Len(toks) : \E j \in i .. Len(toks) :
                      ReplaceRange(i, j, ts)

-----------------------------------------------------------------------------
\* A clear flag means a clear stream: ClearEmptyTokens never skips a scan it
\* should make, whatever writes came in whatever order since the last one.
EmptiesFlagged == mayHaveEmpty \/ ~HasEmpty(toks)

\* An analysis Memo would hand out without building it again is one of the
\* tokens as they are now, after any number of writes, clears and other memos.
MemoFresh == \A k \in Key : memo[k].version = version => memo[k].tokens = toks
=============================================================================
