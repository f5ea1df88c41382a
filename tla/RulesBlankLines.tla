-------------------------- MODULE RulesBlankLines --------------------------
(***************************************************************************)
(* The blink rules that set the line breaks between statements, members    *)
(* and the parts of a file.  All of them edit whitespaces only.            *)
(***************************************************************************)
EXTENDS PhpTokens

(* Each whitespace i of at takes the widths New(i); a rule reports what it *)
(* really changes.                                                         *)
SetWidths(s, at, New(_)) ==
    LET differ == {i \in at : Ws(s, i) /\ s[i].w # New(i)}
    IN  IF differ = {} THEN Unchanged(s)
        ELSE Result([i \in DOMAIN s |-> IF i \in differ THEN WS(New(i)) ELSE s[i]], TRUE)

Blank(n) == [k \in 1 .. n |-> 0]
LinesThen(n, w) == Blank(n) \o <<LastLine(w)>>       \* n breaks, then the indentation w ends with
BlankLine == <<0, 0, 0>>
Pick(w, keep) == SelectSeq([k \in DOMAIN w |-> IF k \in keep THEN w[k] ELSE -1], LAMBDA x : x >= 0)
-----------------------------------------------------------------------------
(* Blanks at the end of lines                                              *)
Trimmed(w, all) == [k \in DOMAIN w |-> IF k < Len(w) \/ all THEN 0 ELSE w[k]]
NoTrailingWhitespace(s) ==
    LET New(i) == Trimmed(s[i].w, i = Len(s)) IN SetWidths(s, DOMAIN s, New)
NoWhitespaceInBlankLine(s) ==
    LET New(i) == [k \in DOMAIN s[i].w |-> IF k \in {1, Len(s[i].w)} THEN s[i].w[k] ELSE 0]
    IN  SetWidths(s, DOMAIN s, New)

(* superfluousInFunctionNotAnon: out of the braces around, to a function.  *)
IsAnonClass(s, kw) == Kw(s, kw, "class") /\ Kw(s, SigPrev(s, kw), "new")
RECURSIVE InFunctionBody(_, _)
InFunctionBody(s, i) ==
    LET b == EnclosingBrace(s, i)
    IN  b # 0 /\ (ClassifyBrace(s, b)[1] \in {"function", "closure"} \/ InFunctionBody(s, b))
InFunctionNotAnon(s, i) ==
    LET inner == ClassifyBrace(s, EnclosingBrace(s, i))
    IN  InFunctionBody(s, i) /\ ~(inner[1] = "class" /\ IsAnonClass(s, inner[2]))
(* The blank inline HTML and the ends of comments are left out.            *)
SuperfluousWhitespace(s) ==
    LET EndOfLines(i) == IF i = Len(s) /\ LastLine(s[i].w) > 0 THEN Trimmed(s[i].w, TRUE) \o <<0>>
                         ELSE Trimmed(s[i].w, FALSE)
        r == SetWidths(s, DOMAIN s, EndOfLines)
        long == {i \in DOMAIN r.toks : Ws(r.toks, i) /\ Breaks(r.toks, i) >= 3 /\ InFunctionNotAnon(r.toks, i)}
        OneBlankLine(i) == LinesThen(2, r.toks[i].w)
        c == SetWidths(r.toks, long, OneBlankLine)
    IN  Result(ClearEmptyTokens(c.toks), r.changed \/ c.changed)

(* no_extra_blank_lines, its keywords, imports and "extra" options.        *)
CollapsedRuns(w) ==
    Pick(w, {k \in DOMAIN w : ~(k \in 3 .. Len(w) - 1 /\ w[k] = 0 /\ w[k - 1] = 0)})
ExtraBlankLines(s) ==
    LET one == Relex(s)
        New(i) == CollapsedRuns(one[i].w)
    IN  SetWidths(one, DOMAIN one, New)

LineStartBefore(s, i) == LastIn({j \in 2 .. i - 1 : Broken(s, j)})
OpensBeforeOnLine(s, i) ==
    \E j \in (IF LineStartBefore(s, i) = 0 THEN 2 ELSE LineStartBefore(s, i)) .. i - 1 :
        \/ Kw(s, j, "function") /\ FunctionBraceKind(s, j) = "closure"
        \/ Kw(s, j, "class") /\ Kw(s, PrevNonWs(s, j), "new")
        \/ Punct(s, j, "[") /\ ~IsOffsetOpen(s, j)
(* noExtraBlankLinesRemoveAfter: the whitespaces that end the line of i.   *)
RECURSIVE EndOfLineFrom(_, _, _)
EndOfLineFrom(s, i, depth) ==
    IF ~Has(s, i) THEN {}
    ELSE IF Punct(s, i, "(") THEN EndOfLineFrom(s, i + 1, depth + 1)
    ELSE IF Punct(s, i, ")") THEN IF depth = 0 THEN {} ELSE EndOfLineFrom(s, i + 1, depth - 1)
    ELSE IF Punct(s, i, "}") THEN {}
    ELSE IF ~Broken(s, i) THEN EndOfLineFrom(s, i + 1, depth)
    ELSE {j \in i .. Len(s) : Broken(s, j) /\ \A k \in i .. j : Ws(s, k)}
OneBreakAt(s, at) == LET New(i) == LinesThen(1, s[i].w) IN SetWidths(s, at, New)

StatementStarts(s, p) == p = 0 \/ Kind(s, p, "OpenTag") \/ PunctIn(s, p, {";", "{", "}", ":"})
BlankLinesAfterKeywords(kws, s) ==
    LET at == {i \in DOMAIN s : /\ KwIn(s, i, kws) /\ ~OpensBeforeOnLine(s, i)
                                /\ Kw(s, i, "throw") => StatementStarts(s, PrevNonWs(s, i))}
    IN  OneBreakAt(s, UNION {EndOfLineFrom(s, i, 0) : i \in at})

InClassBody(s, i) == LET b == EnclosingBrace(s, i) IN b # 0 /\ ClassifyBrace(s, b)[1] = "class"
BlankLinesBetweenUses(trait, s) ==
    LET Use(i) == Kw(s, i, "use") /\ ~Punct(s, NextNonWs(s, i), "(") /\ InClassBody(s, i) = trait
        Semi(i) == LET e == FirstIn({j \in i + 1 .. Len(s) : Punct(s, j, ";") \/ Kind(s, j, "CloseTag")})
                   IN  IF Punct(s, e, ";") THEN e ELSE 0
        Next(i) == NextNonWs(s, Semi(i))
        at == {i \in DOMAIN s : /\ Use(i) /\ Semi(i) # 0 /\ Use(Next(i))
                                /\ \E j \in i + 1 .. Next(i) - 1 : Broken(s, j)}
    IN  OneBreakAt(s, UNION {EndOfLineFrom(s, Semi(i), 0) : i \in at})
NoExtraBlankLines(options, s) ==
    LET Statements(t) == BlankLinesAfterKeywords(options \cap {"throw", "return", "break", "continue", "switch"}, t)
        Uses(t) == IF "use" \in options THEN BlankLinesBetweenUses(FALSE, t) ELSE Unchanged(t)
        Traits(t) == IF "use_trait" \in options THEN BlankLinesBetweenUses(TRUE, t) ELSE Unchanged(t)
        Extra(t) == IF "extra" \in options THEN ExtraBlankLines(t) ELSE Unchanged(t)
    IN  Then(Then(Then(Statements(s), Uses), Traits), Extra)
-----------------------------------------------------------------------------
(* Around the opening tag, declare, namespace and the imports              *)
NamespaceKw(s) == {i \in DOMAIN s : Kw(s, i, "namespace") /\ ~MemberPrev(s, i)}
Clamp(n, lo, hi) == IF n < lo THEN lo ELSE IF n > hi THEN hi ELSE n
BreaksBeforeNamespace(lo, hi, s) ==
    LET at == {i - 1 : i \in {i \in NamespaceKw(s) : i > 1 /\ Broken(s, i - 1)}}
        New(i) == LinesThen(Clamp(Breaks(s, i), lo, hi), s[i].w)
    IN  SetWidths(s, at, New)
BlankLinesBeforeNamespace(lo, hi, s) == BreaksBeforeNamespace(lo, hi, s)
NoBlankLinesBeforeNamespace(s) == BreaksBeforeNamespace(0, 1, s)
SingleBlankLineBeforeNamespace(s) ==
    LET at == {i - 1 : i \in {i \in NamespaceKw(s) : i > 1 /\ Broken(s, i - 1)}}
        New(i) == BlankLine
    IN  SetWidths(s, at, New)
NoLeadingNamespaceWhitespace(s) ==
    LET at == {i \in DOMAIN s : Broken(s, i) /\ Kind(s, i + 1, "Keyword") /\ s[i + 1].v = "namespace"}
        New(i) == [s[i].w EXCEPT ![Len(s[i].w)] = 0]
    IN  SetWidths(s, at, New)

BlankLineAfterNamespace(s) ==
    LET ends == {e \in {NextPunct(s, i, {"{", ";"}) : i \in NamespaceKw(s)} : Punct(s, e, ";")}
        at == {e + 1 : e \in {e \in ends : NextNonWs(s, e) # 0}}
        New(i) == IF Ws(s, i) THEN <<WS(BlankLine)>> ELSE <<WS(BlankLine), s[i]>>
    IN  Rewrite(s, {i \in at : ~Ws(s, i) \/ (HasNewline(s, i) /\ s[i].w # BlankLine)}, New)

IsMonolithic(s) == Cardinality({i \in DOMAIN s : s[i].k = "OpenTag"}) = 1 /\ ~HasKind(s, "InlineHTML")
(* openTagSplit: the tag's own part of the whitespace, and the rest.       *)
BlankLineAfterOpeningTag(s) ==
    LET w == IF Ws(s, 2) THEN s[2].w ELSE <<0>>
        next == IF Ws(s, 2) THEN 3 ELSE 2
        rest == IF w[1] > 0 THEN <<w[1] - 1>> \o Tail(w) ELSE IF Len(w) > 1 THEN Tail(w) ELSE w
        below == IF Len(rest) = 1 /\ (rest # <<0>> \/ Has(s, next)) THEN <<0>> \o rest ELSE rest
        want == WS(<<0>> \o below)
    IN  IF /\ IsMonolithic(s) /\ (\A i \in DOMAIN s : Kind(s, i, "OpenTag") => s[i].v # "<?=")
           /\ (\E i \in DOMAIN s : Broken(s, i)) /\ Kind(s, 1, "OpenTag") /\ s[2] # want
        THEN Result(IF Ws(s, 2) THEN SetAt(s, 2, want) ELSE InsertAt(s, 2, <<want>>), TRUE)
        ELSE Unchanged(s)
LinebreakAfterOpeningTag(s) ==
    IF Len(s) >= 3 /\ Kind(s, 1, "OpenTag") /\ s[1].v = "<?php" /\ IsMonolithic(s) /\ Inline(s, 2) /\ ~Kind(s, 3, "CloseTag")
    THEN Result(SetAt(s, 2, Nl(0)), TRUE) ELSE Unchanged(s)

SingleBlankLineAtEndOfFile(s) ==
    LET n == Len(s)
    IN  IF n = 0 \/ s[n].k \in {"InlineHTML", "CloseTag", "OpenTag"} \/ s[n] = Nl(0) THEN Unchanged(s)
        ELSE Result(IF Ws(s, n) THEN SetAt(s, n, Nl(0)) ELSE Append(s, Nl(0)), TRUE)

(* Only the first declare that sets strict_types.                          *)
BlankLineAfterStrictTypes(s) ==
    LET Open(i) == NextNonWs(s, i)
        Semi(i) == NextNonWs(s, Match(s, Open(i)))
        first == FirstIn({i \in DOMAIN s : /\ Kw(s, i, "declare") /\ Punct(s, Open(i), "(") /\ Match(s, Open(i)) # 0
                                           /\ \E k \in Open(i) .. Match(s, Open(i)) : Kind(s, k, "Ident") /\ s[k].v = "strict_types"
                                           /\ Punct(s, Semi(i), ";")})
        at == Semi(first) + 1
        New(i) == LinesThen(2, s[i].w)
    IN  IF first # 0 /\ Broken(s, at) /\ Has(s, at + 1) /\ ~Kind(s, at + 1, "CloseTag")
        THEN SetWidths(s, {at}, New) ELSE Unchanged(s)

ImportType(s, u) == LET v == Lower(Spelled(s, SkipWs(s, u + 1))) IN IF v \in {"function", "const"} THEN v ELSE "class"
RECURSIVE OpensClassLike(_, _)
OpensClassLike(s, j) == \* braceOpensClassLike: a class keyword in the header, whatever is in it
    j >= 1 /\ ~PunctIn(s, j, {";", "{", "}"}) /\ (KwIn(s, j, ClassLikeKeywords) \/ OpensClassLike(s, j - 1))
InClassLikeBody(s, i) == EnclosingBrace(s, i) # 0 /\ OpensClassLike(s, EnclosingBrace(s, i) - 1)
NoBlankLineBetweenImports(s) ==
    LET uses == {i \in DOMAIN s : Kw(s, i, "use") /\ ~InClassLikeBody(s, i) /\ ~Punct(s, SkipWs(s, i + 1), "(")}
        Before(u) == LastIn({v \in uses : v < u})
        at == {u - 1 : u \in {u \in uses : /\ Before(u) # 0 /\ Punct(s, SigPrev(s, u), ";")
                                           /\ ImportType(s, u) = ImportType(s, Before(u))
                                           /\ Ws(s, u - 1) /\ Breaks(s, u - 1) >= 2}}
        New(i) == <<0, 0>>
    IN  SetWidths(s, at, New)
-----------------------------------------------------------------------------
(* Inside classes                                                          *)
NoBlankLinesAfterClassOpening(s) ==
    LET heads == {i \in DOMAIN s : KwIn(s, i, ClassLikeKeywords) /\ ~MemberPrev(s, i)}
        at == {b + 1 : b \in {b \in {NextPunct(s, i, {"{", ";"}) : i \in heads} : Punct(s, b, "{")}}
        New(i) == LinesThen(1, s[i].w)
    IN  SetWidths(s, {i \in at : Ws(s, i) /\ Breaks(s, i) > 1}, New)

(* memberSpanEnd: the ";" or the "}" that ends the member, 0 if none.      *)
RECURSIVE MemberEndFrom(_, _)
MemberEndFrom(s, j) ==
    IF ~Has(s, j) \/ Punct(s, j, "}") THEN 0
    ELSE IF Punct(s, j, ";") THEN j
    ELSE IF Punct(s, j, "{") THEN Match(s, j)
    ELSE IF PunctIn(s, j, {"(", "["}) THEN IF Match(s, j) = 0 THEN 0 ELSE MemberEndFrom(s, Match(s, j) + 1)
    ELSE MemberEndFrom(s, j + 1)
RECURSIVE PastModifiers(_, _), VariableFrom(_, _, _)
PastModifiers(s, k) == IF KwIn(s, k, PropertyModifiers) THEN PastModifiers(s, SkipWs(s, k + 1)) ELSE k
VariableFrom(s, x, end) ==
    IF x > end THEN FALSE
    ELSE IF PunctIn(s, x, Openers) /\ Match(s, x) # 0 THEN VariableFrom(s, Match(s, x) + 1, end)
    ELSE Kind(s, x, "Variable") \/ VariableFrom(s, x + 1, end)
MemberType(s, m) ==
    LET end == MemberEndFrom(s, m)
        k == PastModifiers(s, m)
        named == [v \in {"use", "const", "function", "case"} |->
                     CASE v = "use" -> "trait_import" [] v = "function" -> "method" [] OTHER -> v]
    IN  IF end = 0 \/ k > end THEN "unknown"
        ELSE IF KwIn(s, k, DOMAIN named) THEN named[Lower(s[k].v)]
        ELSE IF VariableFrom(s, k, end) THEN "property" ELSE "unknown"

(* The gap above a member, or above the comments and attributes that lead  *)
(* it when each is on the line after the other.                            *)
ClassAttributesSeparation(elements, s) ==
    LET opens == {b \in DOMAIN s : Punct(s, b, "{") /\ ClassifyBrace(s, b)[1] = "class"}
        Starts(b) == ClassMemberStarts(s, b)
        NextStart(b, m) == FirstIn({n \in Starts(b) : n > m})
        MetaAbove(m) == LET p == PrevNonWs(s, m) IN Kind(s, p, "DocComment") \/ Kind(s, p, "AttributeEnd")
        InAttribute(j) == \E a \in 1 .. j : Kind(s, a, "AttributeStart") /\ j < AttributeEnd(s, a) /\ a < j
        Gap(e, n) == {j \in e + 1 .. n - 1 : ~InAttribute(j)}
        Leads(j) == Comment(s, j) \/ Kind(s, j, "AttributeStart")
        Breaks_(m, n) ==
            LET t == MemberType(s, n)
            IN  CASE elements[t] = "one" -> 2
                  [] elements[t] = "only_if_meta" -> 1
                  [] OTHER -> IF MemberType(s, m) = t /\ ~MetaAbove(m) THEN 1 ELSE 2
        Wanted == UNION {{<<MemberEndFrom(s, m) + 1,
                            IF \E j \in Gap(MemberEndFrom(s, m), NextStart(b, m)) : Leads(j)
                            THEN 2 ELSE Breaks_(m, NextStart(b, m))>> :
                          m \in {m \in Starts(b) :
                                    LET e == MemberEndFrom(s, m)
                                        n == NextStart(b, m)
                                        lead == FirstIn({j \in Gap(e, n) : Leads(j)})
                                    IN  /\ n # 0 /\ e # 0 /\ e < n /\ MemberType(s, n) \in DOMAIN elements
                                        /\ \A j \in Gap(e, n) : Trivia(s, j) \/ Kind(s, j, "AttributeStart") \/ Kind(s, j, "AttributeEnd")
                                        /\ Broken(s, e + 1)
                                        /\ IF lead = 0 THEN n = e + 2
                                           ELSE lead = e + 2 /\ \A j \in Gap(lead, n) : Ws(s, j) => Breaks(s, j) = 1}} :
                         b \in opens}
        New(i) == LET x == CHOOSE x \in Wanted : x[1] = i IN LinesThen(x[2], s[i].w)
    IN  SetWidths(s, {x[1] : x \in Wanted}, New)
ClassSeparationDefault == [t \in {"const", "method", "property", "trait_import", "case"} |->
                              IF t \in {"trait_import", "case"} THEN "none" ELSE "one"]
-----------------------------------------------------------------------------
(* blank_line_before_statement                                             *)
IsWhileOfDo(s, i) == LET e == SigPrev(s, i) IN Punct(s, e, "}") /\ Kw(s, SigPrev(s, MatchBack(s, e)), "do")
RECURSIVE IsEnumCase(_, _)
IsEnumCase(s, c) ==
    LET p == LastIn({j \in 1 .. c - 1 : Punct(s, j, "}") \/ KwIn(s, j, {"enum", "switch"})})
    IN  IF p = 0 THEN FALSE
        ELSE IF Punct(s, p, "}") THEN MatchBack(s, p) # 0 /\ IsEnumCase(s, MatchBack(s, p))
        ELSE Kw(s, p, "enum")
StatementKeywords == {"break", "case", "continue", "declare", "default", "do", "for", "foreach", "goto", "if",
                      "include", "include_once", "require", "require_once", "return", "switch", "throw", "try",
                      "while", "yield", "yield from"}
IsStatement(s, i, options) ==
    \/ Kind(s, i, "DocComment") /\ "phpdoc" \in options
    \/ Kind(s, i, "Ident") /\ Lower(s[i].v) \in {"exit", "die"} /\ ~PunctIn(s, SigPrev(s, i), MemberOps) /\ "exit" \in options
    \/ /\ KwIn(s, i, StatementKeywords \cap options)
       /\ ~(Kw(s, i, "while") /\ IsWhileOfDo(s, i)) /\ ~(Kw(s, i, "case") /\ IsEnumCase(s, i))
RECURSIVE StatementTop(_, _), StatementTops(_, _, _)
(* blbsInsertIndex: above the comments on the lines right before.          *)
StatementTop(s, i) ==
    LET p == PrevNonWs(s, i)
    IN  IF i > 1 /\ ~(Ws(s, i - 1) /\ Breaks(s, i - 1) > 1) /\ Comment(s, p) /\ Ws(s, p - 1) /\ Breaks(s, p - 1) = 1
        THEN StatementTop(s, p) ELSE i
Ends(s, i) == PunctIn(s, i, {";", "}"})
EndsBefore(s, p) == \* blbsShouldAdd, past a comment on the same line
    IF ~Comment(s, p) THEN Ends(s, p)
    ELSE LET q == LastIn({j \in 1 .. p - 1 : ~Trivia(s, j)})
         IN  Ends(s, q) /\ \A j \in q .. p - 1 : ~Broken(s, j)
StatementTops(s, i, options) ==
    IF i <= 1 THEN {}
    ELSE IF ~IsStatement(s, i, options) THEN StatementTops(s, i - 1, options)
    ELSE LET t == StatementTop(s, i)
             p == PrevNonWs(s, t)
         IN  (IF EndsBefore(s, p) THEN {t} ELSE {}) \cup StatementTops(s, p - 1, options)
BlankLineBeforeStatement(options, s) ==
    LET tops == StatementTops(s, Len(s), options)
        edited == {i \in DOMAIN s : IF Ws(s, i) THEN i + 1 \in tops /\ Breaks(s, i) < 2 ELSE i \in tops /\ ~Ws(s, i - 1)}
        New(i) == IF ~Ws(s, i) THEN <<WS(BlankLine), s[i]>>
                  ELSE IF HasNewline(s, i) THEN <<WS(<<0>> \o s[i].w)>> ELSE <<WS(BlankLine)>>
    IN  Rewrite(s, edited, New)
=============================================================================
