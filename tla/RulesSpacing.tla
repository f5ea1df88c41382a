---------------------------- MODULE RulesSpacing ----------------------------
(***************************************************************************)
(* The blink rules that set the blanks between two tokens of a line.       *)
(* A rule is an operator from the tokens of a file, and its options, to    *)
(* the tokens after its Fix and the flag Fix returns.                      *)
(***************************************************************************)
EXTENDS PhpTokens

NotSp(s, i) == Inline(s, i) /\ s[i].w # <<1>>
GlueBefore(s, i) == Has(s, i) /\ i > 1 /\ ~Ws(s, i) /\ ~Ws(s, i - 1)   \* nothing between i - 1 and i

(* A blank at each boundary j, where token j and the one before it meet,   *)
(* and a single one for the whitespaces of squeeze.                        *)
SetBlanks(s, boundary, squeeze) ==
    LET New(i) == IF i \in squeeze THEN <<Sp>> ELSE <<Sp, s[i]>> IN Rewrite(s, boundary \cup squeeze, New)

(* normalizeSpaceAround                                                    *)
SpaceAround(s, at) ==
    SetBlanks(s, {i \in DOMAIN s : GlueBefore(s, i) /\ (i \in at \/ i - 1 \in at)},
                 {i \in DOMAIN s : NotSp(s, i) /\ (i - 1 \in at \/ i + 1 \in at)})
-----------------------------------------------------------------------------
ConcatKeepsSpace(s, i) == Has(s, i) /\ s[i].k \in {"Number", "Comment", "DocComment"}
ConcatSpace(none, s) ==
    LET at == {i \in DOMAIN s : Punct(s, i, ".")}
    IN  IF ~none THEN SpaceAround(s, at)
        ELSE Drop(s, {i \in DOMAIN s : /\ Inline(s, i)
                                       /\ \/ i - 1 \in at /\ ~ConcatKeepsSpace(s, NextNonWs(s, i))
                                          \/ i + 1 \in at /\ ~ConcatKeepsSpace(s, PrevNonWs(s, i))})

ObjectOperatorWithoutWhitespace(s) ==
    Drop(s, {i \in DOMAIN s : Inline(s, i) /\ (PunctIn(s, i - 1, {"->", "?->"}) \/ PunctIn(s, i + 1, {"->", "?->"}))})

NoSpacesAroundOffset(outside, noInside, s) ==
    LET opens == {i \in DOMAIN s : Punct(s, i, "[") /\ IsOffsetOpen(s, i) /\ Match(s, i) # 0}
        inside == {i \in DOMAIN s : Inline(s, i) /\ (i - 1 \in opens \/ \E o \in opens : Match(s, o) = i + 1)}
    IN  Drop(s, (IF noInside THEN {} ELSE inside)
                \cup (IF outside THEN {i \in DOMAIN s : Ws(s, i) /\ i + 1 \in opens} ELSE {}))

CastSpaces(none, s) ==
    LET opens == {i \in DOMAIN s : CastClose(s, i) # 0}
        closes == {CastClose(s, i) : i \in opens}
        inner == {i \in DOMAIN s : Ws(s, i) /\ (i - 1 \in opens \/ i + 1 \in closes)}
        after == {c + 1 : c \in closes}
        New(i) == IF i \in inner THEN <<>> ELSE IF Ws(s, i) THEN <<Sp>> ELSE <<Sp, s[i]>>
    IN  IF none THEN Drop(s, inner \cup {i \in after : Ws(s, i)})
        ELSE Rewrite(s, inner \cup {i \in after : NotSp(s, i) \/ GlueBefore(s, i)}, New)

DeclareParentheses(s) ==
    LET opens == {o \in {NextNonWs(s, i) : i \in {i \in DOMAIN s : Kw(s, i, "declare")}} :
                    Punct(s, o, "(") /\ Match(s, o) # 0}
    IN  Drop(s, {i \in DOMAIN s : Ws(s, i) /\ (i + 1 \in opens \/ i - 1 \in opens
                                               \/ \E o \in opens : Match(s, o) = i + 1)})

(* insideDeclareArgs: the "(" around is the one of declare.                *)
InsideDeclareArgs(s, i) ==
    LET o == Enclosing(s, i - 1, "(", ")", {";"}) IN o # 0 /\ Kw(s, PrevNonWs(s, o), "declare")
DeclareEqualNormalize(single, s) ==
    LET at == {i \in DOMAIN s : Punct(s, i, "=") /\ InsideDeclareArgs(s, i)}
        near == {i \in DOMAIN s : Ws(s, i) /\ (i - 1 \in at \/ i + 1 \in at)}
    IN  IF ~single THEN Drop(s, near)
        ELSE SetBlanks(s, {i \in DOMAIN s : GlueBefore(s, i) /\ (i \in at \/ i - 1 \in at)},
                          {i \in near : s[i].w # <<1>>})
-----------------------------------------------------------------------------
(* Semicolons                                                              *)
Depth(s, i) == Count(s, i, {"(", "["}) - Count(s, i, {")", "]"})
InHookBraces(s, i) == \E b \in 1 .. i - 1 : Punct(s, b, "{") /\ IsPropertyHookBrace(s, b) /\ Match(s, b) > i

NoEmptyStatement(s) ==
    Drop(s, {i \in DOMAIN s : /\ Punct(s, i, ";") /\ Depth(s, i) = 0
                              /\ PrevNonWs(s, i) # 0 /\ s[PrevNonWs(s, i)].v = ";"})

(* The indentation is that of the line the statement will start on after   *)
(* the breaks put in before it, which is that of the line it is on.        *)
NoMultipleStatementsPerLine(s) ==
    LET next(i) == IF Ws(s, i + 1) THEN i + 2 ELSE i + 1
        at == {i \in DOMAIN s : /\ Punct(s, i, ";") /\ Depth(s, i) = 0 /\ ~InHookBraces(s, i)
                                /\ ~Broken(s, i + 1) /\ next(i) < Len(s)
                                /\ ~PunctIn(s, next(i), {"}", ";"}) /\ ~Kind(s, next(i), "CloseTag")
                                /\ ~Comment(s, next(i))}
        New(i) == IF Ws(s, i) THEN <<Nl(LineIndent(s, i - 1))>> ELSE <<Nl(LineIndent(s, i - 1)), s[i]>>
    IN  Rewrite(s, {i + 1 : i \in at}, New)

NoSinglelineWhitespaceBeforeSemicolons(s) ==
    Drop(s, {i \in DOMAIN s : Inline(s, i) /\ Punct(s, i + 1, ";") /\ ~Punct(s, PrevNonWs(s, i), ";")})

(* SpaceAfterSemicolon, without its option for empty for expressions.      *)
SpaceAfterSemicolon(s) ==
    LET after == {i \in 2 .. Len(s) : Punct(s, i - 1, ";")}
    IN  SetBlanks(s, {i \in after : ~Ws(s, i) /\ ~Punct(s, i, ")") /\ ~Kind(s, i, "InlineHTML")},
                     {i \in after : NotSp(s, i) /\ Has(s, i + 1) /\ ~Comment(s, i + 1) /\ ~Punct(s, i + 1, ")")})
-----------------------------------------------------------------------------
(* "?" and ":"                                                             *)
TernaryTokens(s) ==
    {i \in DOMAIN s : \/ Punct(s, i, "?") /\ ~IsNullableType(s, i)
                      \/ /\ Punct(s, i, ":") /\ ~IsTypeColon(s, i) /\ ~IsNamedArgumentColon(s, i)
                         /\ ~BelongsToGotoLabel(s, i) /\ ~BelongsToAlternativeSyntax(s, i)
                         /\ i \notin SwitchCaseColons(s)}
TernaryOperatorSpaces(s) ==
    LET ops == TernaryTokens(s)
        Elvis(i) == Punct(s, i, "?") /\ Punct(s, NextNonWs(s, i), ":")
        After(j) == j - 1 \in ops /\ ~Elvis(j - 1)
        Before(j) == j \in ops /\ ~(Punct(s, j, ":") /\ Punct(s, PrevNonWs(s, j), "?"))
        gone == {j \in DOMAIN s : Ws(s, j) /\ j - 1 \in ops /\ Elvis(j - 1)}
        squeeze == {j \in DOMAIN s \ gone : NotSp(s, j) /\ ~Comment(s, j - 1) /\ (After(j) \/ Before(j + 1))}
        insert == {j \in DOMAIN s : GlueBefore(s, j) /\ (After(j) \/ Before(j))}
        New(j) == IF j \in gone THEN <<>> ELSE IF j \in squeeze THEN <<Sp>> ELSE <<Sp, s[j]>>
    IN  Rewrite(s, gone \cup squeeze \cup insert, New)

ReturnTypeDeclaration(spaceBeforeOne, s) ==
    LET at == {i \in DOMAIN s : Punct(s, i, ":") /\ IsReturnTypeColon(s, i)}
        after == {i + 1 : i \in {i \in at : Has(s, i + 1)}}
        before == {i - 1 : i \in at}
        gone == IF spaceBeforeOne THEN {} ELSE {i \in before : Inline(s, i)}
        squeeze == {i \in after \cup (IF spaceBeforeOne THEN before ELSE {}) : NotSp(s, i)}
        insert == {i \in after \cup (IF spaceBeforeOne THEN at ELSE {}) : GlueBefore(s, i)}
        New(i) == IF i \in gone THEN <<>> ELSE IF i \in squeeze THEN <<Sp>> ELSE <<Sp, s[i]>>
    IN  Rewrite(s, gone \cup squeeze \cup insert, New)

NotOperatorWithSpace(s) ==
    LET at == {i \in DOMAIN s : Punct(s, i, "!")}
    IN  SetBlanks(s, {i \in DOMAIN s : GlueBefore(s, i) /\ (i \in at \/ i - 1 \in at)}, {})

(* langConstructSpaceAfter; the gap inside "yield from" is one blank here. *)
LanguageConstructs == {"echo", "print", "return", "include", "include_once", "require", "require_once",
                       "new", "yield", "throw", "namespace", "use", "goto", "yield from"}
LanguageConstructSpacing(s) ==
    LET after == {i + 1 : i \in {i \in DOMAIN s : KwIn(s, i, LanguageConstructs)}}
    IN  SetBlanks(s, {i \in after : Has(s, i) /\ ~Ws(s, i) /\ ~PunctIn(s, i, {"(", ";"})},
                     {i \in after : Ws(s, i) /\ s[i].w # <<1>>})
-----------------------------------------------------------------------------
NoSpaceAroundDoubleColon(s) ==
    Drop(s, {i \in DOMAIN s : Inline(s, i) /\ (Punct(s, i - 1, "::") \/ Punct(s, i + 1, "::"))})

(* trimAttributeEdgeSpace: the blanks of the line the bracket is on.       *)
AttributeBlockNoSpaces(s) ==
    LET opens == {i \in DOMAIN s : Kind(s, i, "AttributeStart") /\ AttributeEnd(s, i) # 0}
        trailing == {i \in DOMAIN s : Ws(s, i) /\ LastLine(s[i].w) > 0 /\ i > 1
                                      /\ \E o \in opens : AttributeEnd(s, o) = i + 1}
        leading == {i \in DOMAIN s : Ws(s, i) /\ s[i].w[1] > 0 /\ i - 1 \in opens}
        Trimmed(i) == LET w == IF i \in trailing THEN [s[i].w EXCEPT ![Len(s[i].w)] = 0] ELSE s[i].w
                      IN  IF i \in leading THEN [w EXCEPT ![1] = 0] ELSE w
        New(i) == IF Trimmed(i) = <<0>> THEN <<>> ELSE <<WS(Trimmed(i))>>
    IN  Rewrite(s, trailing \cup leading, New)

ParenOpensArray(s, i) == Kw(s, SigPrev(s, i), "array")
(* trimArrayClearsAfterOpen: the blank stays before a line comment that    *)
(* more code follows.                                                      *)
TrimArraySpaces(s) ==
    LET opens == {i \in DOMAIN s : /\ Match(s, i) # 0
                                   /\ \/ Punct(s, i, "[") /\ ~IsOffsetOpen(s, i)
                                      \/ Punct(s, i, "(") /\ ParenOpensArray(s, i)}
        last == {Match(s, o) - 1 : o \in opens}
        beforeClose == {i \in last : Inline(s, i) /\ ~Punct(s, i - 1, ",")}
        LastBefore(o) == LET c == Match(s, o) - 1 IN IF c \in beforeClose \/ Ws(s, c) THEN c - 1 ELSE c
        afterOpen == {o + 1 : o \in {o \in opens : /\ Inline(s, o + 1) /\ o + 1 \notin beforeClose
                                                   /\ \/ ~IsLineComment(s, o + 2)
                                                      \/ o + 2 = LastBefore(o) \/ Inline(s, o + 3)}}
    IN  Drop(s, beforeClose \cup afterOpen)
=============================================================================
