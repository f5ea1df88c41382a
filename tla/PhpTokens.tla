------------------------------ MODULE PhpTokens ------------------------------
(***************************************************************************)
(* What the blink rules share: the tokens of a file and the questions they *)
(* all ask of them.                                                        *)
(*                                                                         *)
(* A token has a kind k and a spelling v.  The text of a whitespace token  *)
(* is w, the widths of its lines: <<1>> is one blank, <<0, 4>> a line      *)
(* break and four blanks, <<0, 0, 0>> an empty line.  Tabs and carriage    *)
(* returns are left out.  Positions count from 1 and 0 is the "none" that  *)
(* the code writes -1.                                                     *)
(***************************************************************************)
EXTENDS Integers, Sequences, FiniteSets, TLC

LOCAL Seqs == INSTANCE SequencesExt

Tok(k, v) == [k |-> k, v |-> v, w |-> <<>>]
WS(w) == [k |-> "Whitespace", v |-> "", w |-> w]
Sp == WS(<<1>>)
Nl(indent) == WS(<<0, indent>>)
P(v) == Tok("Punct", v)
Cleared == WS(<<0>>)

(* strings.ToLower and EqualFold, on the spellings that occur.             *)
Folded == ("IF" :> "if") @@ ("ELSE" :> "else") @@ ("True" :> "true") @@ ("TRUE" :> "true") @@
          ("NULL" :> "null") @@ ("INT" :> "int") @@ ("Integer" :> "integer") @@
          ("STRLEN" :> "strlen") @@ ("SELF" :> "self") @@ ("AND" :> "and") @@
          ("OR" :> "or") @@ ("__dir__" :> "__DIR__") @@ ("RETURN" :> "return") @@
          ("__CONSTRUCT" :> "__construct") @@ ("VOID" :> "void") @@ ("Array" :> "array")
Lower(v) == IF v \in DOMAIN Folded THEN Folded[v] ELSE v
-----------------------------------------------------------------------------
Has(s, i) == i \in 1 .. Len(s)
Kind(s, i, k) == Has(s, i) /\ s[i].k = k
Ws(s, i) == Kind(s, i, "Whitespace")
Comment(s, i) == Has(s, i) /\ s[i].k \in {"Comment", "DocComment"}
Trivia(s, i) == Ws(s, i) \/ Comment(s, i)
Punct(s, i, v) == Kind(s, i, "Punct") /\ s[i].v = v
PunctIn(s, i, vs) == Kind(s, i, "Punct") /\ s[i].v \in vs
Kw(s, i, v) == Kind(s, i, "Keyword") /\ Lower(s[i].v) = v
KwIn(s, i, vs) == Kind(s, i, "Keyword") /\ Lower(s[i].v) \in vs
IsLineComment(s, i) == Kind(s, i, "Comment") /\ s[i].v \in {"//c", "#c", "//nb"}

HasNewline(s, i) == Len(s[i].w) > 1
Breaks(s, i) == Len(s[i].w) - 1
Inline(s, i) == Ws(s, i) /\ ~HasNewline(s, i)
Broken(s, i) == Ws(s, i) /\ HasNewline(s, i)
LastLine(w) == w[Len(w)]

(* The text of two whitespaces next to each other.                         *)
JoinWs(a, b) == SubSeq(a, 1, Len(a) - 1) \o <<LastLine(a) + b[1]>> \o Tail(b)
-----------------------------------------------------------------------------
RECURSIVE NextNonWs(_, _), PrevNonWs(_, _), SigNext(_, _), SigPrev(_, _)
NextNonWs(s, i) ==
    IF i >= Len(s) THEN 0 ELSE IF Ws(s, i + 1) THEN NextNonWs(s, i + 1) ELSE i + 1
PrevNonWs(s, i) == IF i <= 1 THEN 0 ELSE IF Ws(s, i - 1) THEN PrevNonWs(s, i - 1) ELSE i - 1
SigNext(s, i) == IF i >= Len(s) THEN 0 ELSE IF Trivia(s, i + 1) THEN SigNext(s, i + 1) ELSE i + 1
SigPrev(s, i) == IF i <= 1 THEN 0 ELSE IF Trivia(s, i - 1) THEN SigPrev(s, i - 1) ELSE i - 1

(* The first position from i on, or the last up to i, that is in a set.    *)
FirstIn(S) == IF S = {} THEN 0 ELSE CHOOSE x \in S : \A y \in S : x <= y
LastIn(S) == IF S = {} THEN 0 ELSE CHOOSE x \in S : \A y \in S : y <= x
Min2(a, b) == IF a < b THEN a ELSE b
Max2(a, b) == IF a > b THEN a ELSE b
NextPunct(s, i, vs) == FirstIn({j \in i + 1 .. Len(s) : PunctIn(s, j, vs)})
PrevPunct(s, i, vs) == LastIn({j \in 1 .. i - 1 : PunctIn(s, j, vs)})

(* skipWhitespace: i itself, or the end, past which nothing is.            *)
SkipWs(s, i) == IF Ws(s, i) THEN (IF NextNonWs(s, i) = 0 THEN Len(s) + 1 ELSE NextNonWs(s, i)) ELSE i

CloserOf == [x \in {"(", "[", "{"} |-> CASE x = "(" -> ")" [] x = "[" -> "]" [] x = "{" -> "}"]
OpenerOf == [x \in {")", "]", "}"} |-> CASE x = ")" -> "(" [] x = "]" -> "[" [] x = "}" -> "{"]
Openers == {"(", "[", "{"}
Closers == {")", "]", "}"}

RECURSIVE Balance(_, _, _, _, _, _)
(* From j in steps of d, where the count of in and out comes back to 0.    *)
Balance(s, j, d, in, out, depth) ==
    IF ~Has(s, j) THEN 0
    ELSE LET now == depth + (IF Punct(s, j, in) THEN 1 ELSE IF Punct(s, j, out) THEN -1 ELSE 0)
         IN  IF Punct(s, j, out) /\ now = 0 THEN j ELSE Balance(s, j + d, d, in, out, now)
Match(s, i) == IF PunctIn(s, i, Openers) THEN Balance(s, i, 1, s[i].v, CloserOf[s[i].v], 0) ELSE 0
MatchBack(s, i) == IF PunctIn(s, i, Closers) THEN Balance(s, i, -1, s[i].v, OpenerOf[s[i].v], 0) ELSE 0
AttributeEnd(s, i) == FirstIn({j \in i + 1 .. Len(s) : Kind(s, j, "AttributeEnd")})
AttributeStartOf(s, i) == LastIn({j \in 1 .. i - 1 : Kind(s, j, "AttributeStart")})

RECURSIVE Enclosing(_, _, _, _, _)
(* Backwards from j, the opener that encloses it, 0 past a stop on its own *)
(* level: the scans for "(" and "{" that count one kind of bracket.        *)
Enclosing(s, j, in, out, stop) ==
    IF j < 1 THEN 0
    ELSE IF Punct(s, j, in) THEN j
    ELSE IF Punct(s, j, out)
         THEN LET o == MatchBack(s, j) IN IF o = 0 THEN 0 ELSE Enclosing(s, o - 1, in, out, stop)
    ELSE IF PunctIn(s, j, stop) THEN 0
    ELSE Enclosing(s, j - 1, in, out, stop)
EnclosingParen(s, i) == Enclosing(s, i - 1, "(", ")", {})
EnclosingBrace(s, i) == Enclosing(s, i - 1, "{", "}", {})
Count(s, i, vs) == Cardinality({j \in 1 .. i : PunctIn(s, j, vs)})
-----------------------------------------------------------------------------
(* Edits.  A rule's result is the tokens and the flag it returns.          *)
Result(toks, changed) == [toks |-> toks, changed |-> changed]
Unchanged(s) == Result(s, FALSE)

(* Each position of at becomes the tokens New(i): the way Set, InsertAt,   *)
(* RemoveAt and ReplaceRange are used where no edit decides another.       *)
Splices(s, at, New(_)) == Seqs!FlattenSeq([i \in DOMAIN s |-> IF i \in at THEN New(i) ELSE <<s[i]>>])
Rewrite(s, at, New(_)) == IF at = {} THEN Unchanged(s) ELSE Result(Splices(s, at, New), TRUE)
DropClaims(s, at) == LET Gone(i) == <<>> IN Result(Splices(s, at, Gone), TRUE)     \* mutant
Drop(s, at) == LET Gone(i) == <<>> IN Rewrite(s, at, Gone)
SetAt(s, i, t) == [s EXCEPT ![i] = t]
InsertAt(s, i, ts) == SubSeq(s, 1, i - 1) \o ts \o SubSeq(s, i, Len(s))
ReplaceRangeGreedy(s, i, j, ts) == SubSeq(s, 1, i - 1) \o ts \o SubSeq(s, j + 2, Len(s))   \* mutant
ReplaceRange(s, i, j, ts) == SubSeq(s, 1, i - 1) \o ts \o SubSeq(s, j + 1, Len(s))
Then(r, Fix(_)) == LET n == Fix(r.toks) IN Result(n.toks, r.changed \/ n.changed)

NonEmpty(t) == t # Cleared
ClearEmptyTokens(s) == SelectSeq(s, NonEmpty)

(* clearTokenAndMergeWS: the whitespace after the cleared token joins the  *)
(* one before it, or takes the token's place.                              *)
ClearAndMerge(s, i) ==
    LET c == SetAt(s, i, Cleared)
        n == FirstIn({j \in i + 1 .. Len(s) : s[j] # Cleared})
        p == LastIn({j \in 1 .. i - 1 : s[j] # Cleared})
    IN  IF n = 0 \/ ~Ws(s, n) THEN c
        ELSE LET moved == IF Ws(s, p) THEN SetAt(c, p, WS(JoinWs(s[p].w, s[n].w)))
                          ELSE SetAt(c, p + 1, s[n])
             IN  IF ~Ws(s, p) /\ n = p + 1 THEN c ELSE SetAt(moved, n, Cleared)
-----------------------------------------------------------------------------
(* What the lexer makes of the text of tokens: whitespaces are one.        *)
RECURSIVE Relex(_)
Relex(s) ==
    LET gap == FirstIn({i \in 1 .. Len(s) - 1 : Ws(s, i) /\ Ws(s, i + 1)})
    IN  IF gap = 0 THEN s
        ELSE Relex(ReplaceRange(s, gap, gap + 1, <<WS(JoinWs(s[gap].w, s[gap + 1].w))>>))
-----------------------------------------------------------------------------
CastTypes == {"int", "integer", "bool", "boolean", "float", "double", "real", "string",
              "array", "object", "unset", "binary"}
IsCastType(s, i) == Has(s, i) /\ s[i].k \in {"Ident", "Keyword"} /\ Lower(s[i].v) \in CastTypes
MemberOps == {"->", "?->", "::"}
MemberPrev(s, i) == LET p == PrevNonWs(s, i) IN p # 0 /\ s[p].v \in MemberOps

(* "(" type ")", whatever came before it; and castAt, which asks that too. *)
IsCastParen(s, i) ==
    LET n == NextNonWs(s, i) IN n # 0 /\ IsCastType(s, n) /\ Punct(s, NextNonWs(s, n), ")")
ValueEnds(s, p) == p # 0 /\ (s[p].k \in {"Ident", "Variable"} \/ s[p].v \in {")", "]"})
CastClose(s, i) ==
    IF Punct(s, i, "(") /\ IsCastParen(s, i) /\ ~ValueEnds(s, PrevNonWs(s, i))
    THEN NextNonWs(s, NextNonWs(s, i)) ELSE 0
IsOffsetOpen(s, i) ==
    LET p == PrevNonWs(s, i)
    IN  /\ p # 0
        /\ \/ s[p].k \in {"Variable", "Ident", "String"}
           \/ s[p].v = ")" /\ (MatchBack(s, p) = 0 \/ ~IsCastParen(s, MatchBack(s, p)))
           \/ s[p].v = "]"
IsArrayLiteralOpen(s, i) ==
    LET p == SigPrev(s, i)
    IN  \/ p = 0
        \/ /\ s[p].k \notin {"Variable", "Ident", "String", "Number"}
           /\ ~PunctIn(s, p, {"]", "}"})
           /\ Punct(s, p, ")") => MatchBack(s, p) # 0 /\ IsCastParen(s, MatchBack(s, p))
-----------------------------------------------------------------------------
ControlKeywords == {"if", "elseif", "else", "for", "foreach", "while", "do", "switch", "try",
                    "catch", "finally", "match"}
ClassLikeKeywords == {"class", "interface", "trait", "enum"}
MemberModifiers == {"public", "protected", "private", "static", "abstract", "final", "readonly"}
SetModifiers == {"public(set)", "protected(set)", "private(set)"}
PropertyModifiers == MemberModifiers \cup {"var"} \cup SetModifiers

(* functionBraceKind: a closure has no name.                               *)
FunctionBraceKind(s, fn) ==
    LET k == SkipWs(s, fn + 1)
        n == IF Punct(s, k, "&") THEN SkipWs(s, k + 1) ELSE k
    IN  IF Punct(s, n, "(") THEN "closure" ELSE "function"

RECURSIVE BraceHeader(_, _)
BraceHeader(s, j) ==
    IF j < 1 \/ PunctIn(s, j, {";", "{", "}"}) THEN <<"other", 0>>
    ELSE IF Punct(s, j, ")")
         THEN IF MatchBack(s, j) = 0 THEN <<"other", 0>> ELSE BraceHeader(s, MatchBack(s, j) - 1)
    ELSE IF KwIn(s, j, ClassLikeKeywords) THEN <<"class", j>>
    ELSE IF Kw(s, j, "function") THEN <<FunctionBraceKind(s, j), j>>
    ELSE IF KwIn(s, j, ControlKeywords) THEN <<"control", j>>
    ELSE BraceHeader(s, j - 1)
(* classifyBrace: what the "{" opens, and the keyword that says so.        *)
ClassifyBrace(s, b) ==
    LET p == SigPrev(s, b)
    IN  IF PunctIn(s, p, MemberOps) THEN <<"other", 0>> ELSE BraceHeader(s, b - 1)

RECURSIVE MemberStartsFrom(_, _, _, _)
MemberStartsFrom(s, k, close, expect) ==
    IF k >= close THEN {}
    ELSE IF Trivia(s, k) THEN MemberStartsFrom(s, k + 1, close, expect)
    ELSE IF Kind(s, k, "AttributeStart")
         THEN MemberStartsFrom(s, (IF AttributeEnd(s, k) > k THEN AttributeEnd(s, k) ELSE k) + 1, close, expect)
    ELSE LET m == Match(s, k)
             next == IF m > 0 THEN m + 1 ELSE k + 1
         IN  (IF expect THEN {k} ELSE {}) \cup
             MemberStartsFrom(s, next, close, (m > 0 /\ Punct(s, k, "{")) \/ Punct(s, k, ";"))
(* classMemberStarts: the first token of each member of the body.          *)
ClassMemberStarts(s, open) ==
    IF Match(s, open) = 0 THEN {} ELSE MemberStartsFrom(s, open + 1, Match(s, open), TRUE)

(* splitTagWhitespace: "<?php" owns the blank or the break right after it. *)
TagOwns(s, j) == Kind(s, j - 1, "OpenTag") /\ s[j - 1].v = "<?php"
RestAfterTag(s, j) ==
    LET w == s[j].w
    IN  IF ~TagOwns(s, j) THEN w
        ELSE IF w[1] > 0 THEN <<w[1] - 1>> \o Tail(w)
        ELSE IF Len(w) > 1 THEN Tail(w) ELSE w
(* lineIndent: the blanks after the last break before i.                   *)
LineIndent(s, i) ==
    LET at == {j \in 1 .. i - 1 : Broken(s, j) /\ RestAfterTag(s, j) # <<0>>}
    IN  IF at = {} THEN 0 ELSE LastLine(s[LastIn(at)].w)
-----------------------------------------------------------------------------
(* Colons, question marks and types.                                       *)
IsReturnRef(s, i) == Punct(s, i, "&") /\ KwIn(s, SigPrev(s, i), {"function", "fn"})
IsFunctionName(s, i) == Kw(s, SigPrev(s, i), "function") \/ IsReturnRef(s, SigPrev(s, i))
IsTypeColon(s, i) ==
    /\ Punct(s, i, ":")
    /\ LET e == SigPrev(s, i)
           open == MatchBack(s, e)
           b == SigPrev(s, open)
           p == IF Kind(s, b, "Ident") \/ (Kind(s, b, "Keyword") /\ IsFunctionName(s, b)) THEN SigPrev(s, b) ELSE b
       IN  \/ Kw(s, SigPrev(s, e), "enum")
           \/ Punct(s, e, ")") /\ open # 0 /\ (KwIn(s, p, {"function", "fn", "use"}) \/ IsReturnRef(s, p))
IsNamedArgumentColon(s, i) ==
    LET n == SigPrev(s, i) IN /\ Punct(s, i, ":") /\ n # 0 /\ s[n].k \in {"Ident", "Keyword"}
                              /\ PunctIn(s, SigPrev(s, n), {",", "("})
IsNullableType(s, i) ==
    LET p == SigPrev(s, i)
    IN  /\ Punct(s, i, "?")
        /\ \/ PunctIn(s, p, {"(", ","}) \/ IsTypeColon(s, p) \/ Kind(s, p, "AttributeEnd")
           \/ KwIn(s, p, MemberModifiers \cup {"var", "const"} \cup SetModifiers)
        /\ ~(Kw(s, p, "static") /\ Kw(s, SigPrev(s, p), "instanceof"))
BelongsToGotoLabel(s, i) ==
    LET p == SigPrev(s, i)
        q == SigPrev(s, p)
    IN  Punct(s, i, ":") /\ Kind(s, p, "Ident") /\ (PunctIn(s, q, {":", ";", "{", "}"}) \/ Kind(s, q, "OpenTag"))
BelongsToAlternativeSyntax(s, i) ==
    LET p == SigPrev(s, i)
    IN  /\ Punct(s, i, ":")
        /\ \/ Kw(s, p, "else")
           \/ Punct(s, p, ")") /\ KwIn(s, SigPrev(s, MatchBack(s, p)),
                                   {"declare", "elseif", "for", "foreach", "if", "switch", "while"})

(* caseColonAfter: past brackets, and past the ":" of as many "?".         *)
RECURSIVE CaseColonFrom(_, _, _)
CaseColonFrom(s, j, ternaries) ==
    IF ~Has(s, j) THEN 0
    ELSE IF PunctIn(s, j, {"(", "{"}) /\ Match(s, j) > j THEN CaseColonFrom(s, Match(s, j) + 1, ternaries)
    ELSE IF Punct(s, j, "?") THEN CaseColonFrom(s, j + 1, ternaries + 1)
    ELSE IF ~PunctIn(s, j, {":", ";"}) THEN CaseColonFrom(s, j + 1, ternaries)
    ELSE IF ternaries > 0 THEN CaseColonFrom(s, j + 1, ternaries - 1)
    ELSE IF Punct(s, j, ":") THEN j ELSE 0
(* switchCaseColons: the enclosing construct says whose case it is.        *)
CaseStructure(s, i) == KwIn(s, i, {"switch", "match"}) \/ (Kw(s, i, "enum") /\ Kind(s, SigNext(s, i), "Ident"))
SwitchBody(s, i) == LET c == Match(s, SigNext(s, i)) IN IF c = 0 THEN 0 ELSE SigNext(s, c)
StructureEnd(s, i) ==
    LET body == SwitchBody(s, i)
    IN  IF Kw(s, i, "switch") /\ Punct(s, body, ":")
        THEN FirstIn({j \in body .. Len(s) : Kw(s, j, "endswitch")})
        ELSE Match(s, NextPunct(s, i, {"{"}))
SwitchCaseColons(s) ==
    LET Structures == {i \in DOMAIN s : CaseStructure(s, i)}
        Of(c) == LastIn({i \in Structures : i < c /\ (c < StructureEnd(s, i) \/ StructureEnd(s, i) = 0)})
        InSwitch(c) == Of(c) # 0 /\ Kw(s, Of(c), "switch")
    IN  {SwitchBody(s, i) : i \in {i \in Structures : Kw(s, i, "switch") /\ Punct(s, SwitchBody(s, i), ":")}}
        \cup ({CaseColonFrom(s, i + 1, 0) : i \in {i \in DOMAIN s : Kw(s, i, "case") /\ InSwitch(i)}} \ {0})
        \cup {c \in {NextPunct(s, i, {":", ";"}) : i \in {i \in DOMAIN s : Kw(s, i, "default") /\ InSwitch(i)}} :
                 Punct(s, c, ":")}

(* isFunctionParamOpen and the type scans of "|" and "&".                  *)
IsFunctionParamOpen(s, o) ==
    LET p == PrevNonWs(s, o)
        q == PrevNonWs(s, p)
        f == IF Punct(s, q, "&") THEN PrevNonWs(s, q) ELSE q
    IN  /\ Punct(s, o, "(")
        /\ KwIn(s, p, {"function", "fn"}) \/ (Kind(s, p, "Ident") /\ Kw(s, f, "function"))
IsReturnTypeColon(s, i) ==
    LET c == PrevNonWs(s, i) IN Punct(s, c, ")") /\ MatchBack(s, c) # 0 /\ IsFunctionParamOpen(s, MatchBack(s, c))
EnclosingFuncParamOpen(s, i) ==
    LET o == Enclosing(s, i - 1, "(", ")", {"{", "}", ";"}) IN IF o # 0 /\ IsFunctionParamOpen(s, o) THEN o ELSE 0
TypeSkip(s, j) ==
    Trivia(s, j) \/ Kind(s, j, "Ident") \/ PunctIn(s, j, {"|", "&", "(", ")", "\\"})
    \/ KwIn(s, j, {"callable", "static", "array"})
IsTypeEnd(s, i) ==
    PunctIn(s, i, {")", "\\"}) \/ Kind(s, i, "Ident") \/ KwIn(s, i, {"callable", "static", "array"})
IsPartOfType(s, i) ==
    LET before == LastIn({j \in 1 .. i - 1 : ~TypeSkip(s, j)})
        after == FirstIn({j \in i + 1 .. Len(s) : ~TypeSkip(s, j)})
        bv == SigPrev(s, after)
        stop == LastIn({j \in 1 .. i - 1 : PunctIn(s, j, {"{", "}", ";"}) \/ Kind(s, j, "CloseTag")
                                           \/ KwIn(s, j, {"fn", "function"})})
    IN  /\ PunctIn(s, i, {"|", "&"})
        /\ \/ KwIn(s, before, {"catch", "const"}) \/ IsTypeColon(s, before)
           \/ Punct(s, after, "...")
           \/ /\ Kind(s, after, "Variable")
              /\ IF Punct(s, bv, "&") THEN KwIn(s, stop, {"fn", "function"}) ELSE bv # 0 /\ IsTypeEnd(s, bv)

(* isPropertyHookBrace: "{ get ...", past attributes; propertyHookBraceAt   *)
(* also steps over the modifiers of a hook.                                *)
HookAt(s, j) ==
    LET n == SigNext(s, j)
    IN  /\ Kind(s, j, "Ident") /\ Lower(s[j].v) \in {"get", "set"}
        /\ \/ PunctIn(s, n, {"{", ";", "=>"})
           \/ Punct(s, n, "(") /\ Match(s, n) # 0 /\ PunctIn(s, SigNext(s, Match(s, n)), {"{", "=>"})
RECURSIVE SkipAttributes(_, _, _)
SkipAttributes(s, j, modifiers) ==
    IF Kind(s, j, "AttributeStart") THEN SkipAttributes(s, SigNext(s, AttributeEnd(s, j)), modifiers)
    ELSE IF modifiers /\ (Kw(s, j, "final") \/ Punct(s, j, "&")) THEN SkipAttributes(s, SigNext(s, j), modifiers)
    ELSE j
PropertyHookBraceAt(s, i, modifiers) == HookAt(s, SkipAttributes(s, SigNext(s, i), modifiers))
IsPropertyHookBrace(s, i) == PropertyHookBraceAt(s, i, FALSE)

(* What a class keyword declares, and whether "new" is before it, past     *)
(* attributes and a "readonly".                                            *)
RECURSIVE SigPrevPastAttributes(_, _)
SigPrevPastAttributes(s, i) ==
    LET p == SigPrev(s, i)
    IN  IF Kind(s, p, "AttributeEnd") THEN SigPrevPastAttributes(s, AttributeStartOf(s, p)) ELSE p
IsAnonymousClass(s, kw) ==
    LET first == IF Kw(s, SigPrev(s, kw), "readonly") THEN SigPrev(s, kw) ELSE kw
    IN  Kw(s, kw, "class") /\ Kw(s, SigPrevPastAttributes(s, first), "new")
IsClassy(s, i) ==
    KwIn(s, i, {"class", "interface", "trait"}) \/ (Kw(s, i, "enum") /\ Kind(s, SigNext(s, i), "Ident"))
IsLambda(s, i) ==
    LET n == SigNext(s, i) IN Punct(s, IF Punct(s, n, "&") THEN SigNext(s, n) ELSE n, "(")
InNamePosition(s, i) ==
    LET p == SigPrev(s, i)
    IN  Punct(s, i + 1, "\\") \/ PunctIn(s, p, MemberOps \cup {"\\"}) \/ KwIn(s, p, {"function", "const"})
IsConstruct(s, i, names) ==
    Has(s, i) /\ s[i].k \in {"Ident", "Keyword"} /\ Lower(s[i].v) \in names /\ ~InNamePosition(s, i)

IsNamedArgument(s, i) == Punct(s, SigNext(s, i), ":") /\ PunctIn(s, SigPrev(s, i), {"(", ","})

(* A rule that compares what it renders before and after.                  *)
Compared(before, after) == Result(after, Relex(ClearEmptyTokens(before)) # Relex(ClearEmptyTokens(after)))

(* The Index: words of names and keywords, whatever their case.            *)
HasKind(s, k) == \E i \in DOMAIN s : s[i].k = k
HasAnyWord(s, ws) == \E i \in DOMAIN s : s[i].k \in {"Ident", "Keyword"} /\ Lower(s[i].v) \in ws
-----------------------------------------------------------------------------
(* The lexer, from the words of a source on: how runs of characters are    *)
(* cut into words is left out, and so is what follows __halt_compiler().   *)
VariableWords == {"$a", "$b", "$c", "$d", "$this"}
StringWords == {"'s'", "'t'", "''", "'b'"}
CommentWords == {"//c", "#c", "/*c*/", "//nb"}
DocWords == {"/**d*/"}
Operators == {"<=>", "===", "!==", "**=", "...", "<<=", ">>=", "??=", "?->", "->", "=>", "==", "!=",
              "<>", "<=", ">=", "&&", "||", "++", "--", "+=", "-=", "*=", "/=", ".=", "%=", "&=",
              "|=", "^=", "::", "??", "**", "<<", ">>", "|>"}
SingleOperators == {"+", "-", "*", "/", "%", "=", "<", ">", "!", ".", ",", ";", ":", "?", "(", ")",
                    "[", "]", "{", "}", "&", "|", "^", "~", "@", "$", "\\"}
Keywords == {"abstract", "and", "array", "as", "break", "callable", "case", "catch", "class", "clone",
             "const", "continue", "declare", "default", "do", "echo", "else", "elseif", "empty",
             "enddeclare", "endfor", "endforeach", "endif", "endswitch", "endwhile", "enum",
             "extends", "final", "finally", "fn", "for", "foreach", "function", "global", "goto",
             "if", "implements", "include", "include_once", "instanceof", "insteadof",
             "interface", "isset", "list", "match", "namespace", "new", "or", "print", "private",
             "protected", "public", "readonly", "require", "require_once", "return", "static",
             "switch", "throw", "trait", "try", "unset", "use", "var", "while", "xor", "yield"}

(* lexHTML and lexPHP: the kind a word's first characters give it.         *)
Scanned(v) ==
    CASE v \in {"<?php", "<?="} -> "OpenTag" [] v = "?>" -> "CloseTag" [] v = "html" -> "InlineHTML"
      [] v \in VariableWords -> "Variable" [] v \in StringWords -> "String"
      [] v \in CommentWords -> "Comment" [] v \in DocWords -> "DocComment"
      [] v \in {"0", "1", "2"} -> "Number" [] v = "#[" -> "AttributeStart"
      [] v \in Operators \cup SingleOperators -> "Punct"
      [] OTHER -> "Ident"
Spelled(s, i) == IF Has(s, i) THEN s[i].v ELSE ""

(* wordInValue: the word again, before the "," or ";" that ends the value. *)
WordInValue(s, i, v) ==
    LET end == FirstIn({j \in i .. Len(s) : /\ PunctIn(s, j, {",", ";"} \cup Closers)
                                            /\ \A b \in i .. j - 1 : PunctIn(s, b, Openers) => Match(s, b) < j})
    IN  \E j \in i .. (IF end = 0 THEN Len(s) ELSE end - 1) : s[j].k = "Ident" /\ s[j].v = v
(* dnfTypeAt: names, "\\" and "&" up to ")", then "|".                      *)
DnfTypeAt(s, i) ==
    LET close == NextPunct(s, i, {")"})
    IN  /\ close # 0 /\ Punct(s, SigNext(s, close), "|")
        /\ \A j \in i + 1 .. close - 1 : Kind(s, j, "Ident") \/ Ws(s, j) \/ PunctIn(s, j, {"\\", "&"})

(* identKind: a reserved word where PHP only accepts a name is a name.     *)
IdentKind(s, i) ==
    LET w == Lower(s[i].v)
        p == SigPrev(s, i)
        prev == Spelled(s, p)
        lp == Lower(prev)
        before == Lower(Spelled(s, SigPrev(s, p)))
        n == SigNext(s, i)
        next == Spelled(s, n)
        isName ==
            \/ prev \in MemberOps \cup {"\\"}
            \/ lp = "function" \/ (lp = "&" /\ before = "function")
            \/ Spelled(s, i + 1) = "\\"
            \/ lp = "const" /\ (n = 0 \/ s[n].k # "Ident") /\ next \notin {"|", "&", "="}
            \/ prev \in {"(", ","} /\ next = ":"
            \/ lp = "case" /\ next = ";"
            \/ next = ";" /\ lp = "as" /\ w \notin MemberModifiers
            \/ next = ";" /\ lp \in MemberModifiers /\ before = "as"
            \/ prev \in {"{", ";"} /\ Lower(next) = "as"
            \/ w = "readonly" /\ next = "(" /\ ~DnfTypeAt(s, n)
            \/ w = "enum" /\ ~(n > i + 1 /\ s[n].k = "Ident" /\ Lower(next) \notin {"extends", "implements"})
    IN  IF w = "yield from" \/ w \in SetModifiers THEN "Keyword"
        ELSE IF w \notin Keywords THEN "Ident"
        ELSE IF next = "=" /\ prev \notin MemberOps \cup {"\\"} /\ lp # "function" /\ before # "function"
             THEN IF lp # "case" /\ WordInValue(s, n + 1, s[i].v) THEN "Keyword" ELSE "Ident"
        ELSE IF isName THEN "Ident" ELSE "Keyword"

(* markAttributeCloses.                                                    *)
ClosesAttribute(s, j) ==
    /\ Punct(s, j, "]")
    /\ LET Opens(a) == Kind(s, a, "AttributeStart") \/ Punct(s, a, "[")
           Net(a) == Cardinality({b \in a .. j : Opens(b)}) - Cardinality({b \in a .. j : Punct(s, b, "]")})
           a == LastIn({a \in 1 .. j : Opens(a) /\ Net(a) = 0})
       IN  a # 0 /\ s[a].k = "AttributeStart"

(* Lex: the tokens of a source given as words and whitespaces.             *)
Lex(words) ==
    LET raw == Relex(<<>> \o [i \in DOMAIN words |->
                   IF words[i].k = "Whitespace" THEN words[i] ELSE Tok(Scanned(words[i].v), words[i].v)])
        named == <<>> \o [i \in DOMAIN raw |->
                   IF raw[i].k = "Ident" THEN [raw[i] EXCEPT !.k = IdentKind(raw, i)] ELSE raw[i]]
    IN  <<>> \o [i \in DOMAIN named |-> IF ClosesAttribute(named, i) THEN [named[i] EXCEPT !.k = "AttributeEnd"] ELSE named[i]]
=============================================================================
