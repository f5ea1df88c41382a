---------------------------- MODULE RulesArrays ----------------------------
(***************************************************************************)
(* The blink rules about array literals, and what they share with those    *)
(* about argument lists: the items of a bracket and the gaps around them.  *)
(* Heredocs are left out, and with them the after_heredoc options.         *)
(***************************************************************************)
EXTENDS RulesOperators

(* The gap after each token of at becomes Gap(i), put in where there is    *)
(* none: editSlotAfter.  GapBefore names the token before a gap.           *)
SetGaps(s, at, Gap(_)) ==
    LET insert == {i \in at : ~Ws(s, i + 1)}
        set == {i + 1 : i \in {i \in at : Ws(s, i + 1) /\ s[i + 1].w # Gap(i)}}
        New(i) == IF i \in insert THEN <<s[i], WS(Gap(i))>> ELSE <<WS(Gap(i - 1))>>
    IN  Rewrite(s, insert \cup set, New)
GapBefore(s, i) == IF Ws(s, i - 1) THEN i - 2 ELSE i - 1
SetGap(s, i, w) == LET Gap(j) == w IN SetGaps(s, {i}, Gap)

(* A rule that goes from one token to the next and edits what follows it,  *)
(* or backwards and edits what follows it.                                 *)
ForEach(s, At(_, _), Step(_, _)) ==
    LET RECURSIVE Go(_, _)
        Go(r, i) == IF i > Len(r.toks) THEN r
                    ELSE IF ~At(r.toks, i) THEN Go(r, i + 1)
                    ELSE LET n == Step(r.toks, i) IN Go(Result(n.toks, r.changed \/ n.changed), i + 1)
    IN  Go(Unchanged(s), 1)
ForEachBack(s, At(_, _), Step(_, _)) ==
    LET RECURSIVE Go(_, _)
        Go(r, i) == IF i < 1 THEN r
                    ELSE IF ~At(r.toks, i) THEN Go(r, i - 1)
                    ELSE LET n == Step(r.toks, i) IN Go(Result(n.toks, r.changed \/ n.changed), i - 1)
    IN  Go(Unchanged(s), Len(s))

(* What is right inside the bracket at open, and the commas that part two  *)
(* of its items: no trailing one, and none of an attribute.                *)
InAttribute(s, j) == \E a \in 1 .. j : Kind(s, a, "AttributeStart") /\ j <= AttributeEnd(s, a)
Inside(s, open) == {j \in open + 1 .. Match(s, open) - 1 : EnclosingOpener(s, j - 1) = open}
Separators(s, open) ==
    {j \in Inside(s, open) : Punct(s, j, ",") /\ SigNext(s, j) # Match(s, open) /\ ~InAttribute(s, j)}
RangeHasNewline(s, i, j) == \E k \in i .. j : Broken(s, k)
LineIndentBefore(s, i) ==
    LET at == LastIn({j \in 1 .. i - 1 : Broken(s, j)}) IN IF at = 0 THEN 0 ELSE LastLine(s[at].w)

CommentLastLine(s, i) == Comment(s, i) /\ Ws(s, i + 1) /\ s[i + 1].w[1] = 0 /\ HasNewline(s, i + 1)
(* reflowAfterComma: the break goes after a comment on the comma's line.   *)
NoteAfter(s, c) == IF Inline(s, c + 1) THEN c + 2 ELSE c + 1
ArgNLAfterComma(s, c, base, collapse) ==
    LET kept == Broken(s, c + 1) /\ Breaks(s, c + 1) >= 2 /\ (collapse => Comment(s, NextNonWs(s, c)))
    IN  Append([k \in 1 .. (IF kept THEN Breaks(s, c + 1) ELSE 1) |-> 0], base + 4)
(* reflowBreakAfterComments: up to an end that is not moved along with the *)
(* breaks put in before.                                                   *)
BreakAfterComments(s, open, end, base) ==
    LET Level(j) == Count(s, end - 1, Openers) - Count(s, j, Openers) = Count(s, end - 1, Closers) - Count(s, j, Closers)
        next(j) == IF Ws(s, j + 1) THEN j + 2 ELSE j + 1
        at == {j \in open + 1 .. end - 1 :
                  /\ Comment(s, j) /\ ~IsLineComment(s, j) /\ Level(j) /\ Broken(s, j - 1) /\ ~Broken(s, j + 1)
                  /\ next(j) < end /\ ~Comment(s, next(j)) /\ ~PunctIn(s, next(j), {","} \cup Closers)}
        Gap(j) == <<0, base + 4>>
    IN  SetGaps(s, at, Gap)
ReflowParen(s, open, collapse) ==
    LET close == Match(s, open)
        base == LineIndentBefore(s, open)
        commas == Separators(s, open)
        notes == {c \in commas : Comment(s, NoteAfter(s, c))}
        spaced == IF collapse THEN {c \in notes : ~CommentLastLine(s, NoteAfter(s, c))} ELSE {}
        last == GapBefore(s, close)
        Gap(i) == IF i = last /\ i \notin {NoteAfter(s, c) : c \in notes} THEN <<0, base>>
                  ELSE IF i \in spaced THEN <<1>>
                  ELSE IF i \in commas THEN ArgNLAfterComma(s, i, base, collapse) ELSE <<0, base + 4>>
        broken == SetGaps(s, {last} \cup (commas \ notes) \cup spaced \cup {NoteAfter(s, c) : c \in notes}, Gap)
        Comments(t) == BreakAfterComments(t, open, close, base)
        Opening(t) == SetGap(t, open, <<0, base + 4>>)
    IN  Then(Then(broken, Comments), Opening)
-----------------------------------------------------------------------------
NoWhitespaceInEmptyArray(s) ==
    Drop(s, {i \in DOMAIN s : Ws(s, i) /\ Punct(s, i - 1, "[") /\ Punct(s, i + 1, "]")})

(* "$a{0}{1}": the second brace follows what the first has become.         *)
RECURSIVE IndexBrace(_, _)
IndexBrace(s, i) ==
    LET p == PrevNonWs(s, i)
    IN  /\ Punct(s, i, "{") /\ ~PropertyHookBraceAt(s, i, TRUE) /\ Match(s, i) # 0
        /\ \/ Kind(s, p, "Variable") /\ s[p].v # "$"
           \/ Kind(s, p, "String") \/ Punct(s, p, "]")
           \/ Punct(s, p, "}") /\ MatchBack(s, p) # 0 /\ IndexBrace(s, MatchBack(s, p))
NormalizeIndexBrace(s) ==
    LET opens == {i \in DOMAIN s : IndexBrace(s, i)}
        New(i) == <<P(IF i \in opens THEN "[" ELSE "]")>>
    IN  Rewrite(s, opens \cup {Match(s, i) : i \in opens}, New)

NoMultilineWhitespaceAroundDoubleArrow(s) ==
    SetBlanks(s, {}, {i \in DOMAIN s : /\ Broken(s, i)
                                       /\ \/ Punct(s, i + 1, "=>") /\ ~IsLineComment(s, i - 1)
                                          \/ Punct(s, i - 1, "=>") /\ ~Comment(s, i + 1)})

(* convertLongArray and arrayNotationToLong.                               *)
ConvertLongArray(s, name) ==
    LET opener(i) == NextNonWs(s, i)
        at == {i \in DOMAIN s : Kw(s, i, name) /\ Punct(s, opener(i), "(") /\ Match(s, opener(i)) # 0}
        opens == {opener(i) : i \in at}
        gone == at \cup {i + 1 : i \in {i \in at : Ws(s, i + 1)}}
        New(i) == IF i \in gone THEN <<>> ELSE <<P(IF i \in opens THEN "[" ELSE "]")>>
    IN  Rewrite(s, gone \cup opens \cup {Match(s, o) : o \in opens}, New)
ArrayNotationToLong(s, destructuring) ==
    LET opens == {i \in DOMAIN s : /\ Punct(s, i, "[") /\ ~IsOffsetOpen(s, i) /\ Match(s, i) # 0
                                   /\ Destructuring(s, i) = destructuring}
        New(i) == IF i \in opens THEN <<Tok("Keyword", IF destructuring THEN "list" ELSE "array"), P("(")>>
                  ELSE <<P(")")>>
    IN  Rewrite(s, opens \cup {Match(s, o) : o \in opens}, New)
ArraySyntax(long, s) == IF long THEN ArrayNotationToLong(s, FALSE) ELSE ConvertLongArray(s, "array")
ListSyntax(long, s) == IF long THEN ArrayNotationToLong(s, TRUE) ELSE ConvertLongArray(s, "list")
ListSyntaxCandidate(long, s) == long \/ HasAnyWord(s, {"list"})
-----------------------------------------------------------------------------
(* Commas                                                                  *)
IsDestructuringAssignOpen(s, o) ==
    Match(s, o) # 0 /\ (Punct(s, NextNonWs(s, Match(s, o)), "=") \/ InForeachHead(s, o))
RECURSIVE InDestructuring(_, _)
InDestructuring(s, o) ==
    LET enc == EnclosingOpener(s, o - 1)
    IN  Punct(s, o, "[") /\ (IsDestructuringAssignOpen(s, o) \/ (enc # 0 /\ InDestructuring(s, enc)))

NoWhitespaceBeforeCommaInArray(s) ==
    Drop(s, {i \in DOMAIN s : /\ Inline(s, i) /\ Punct(s, i + 1, ",") /\ ~Punct(s, i - 1, ",")
                              /\ Punct(s, EnclosingOpener(s, i - 1), "[")})
WhitespaceAfterCommaInArray(single, s) ==
    LET after == {i + 1 : i \in {i \in DOMAIN s : LET enc == EnclosingOpener(s, i - 1)
                                                  IN  /\ Punct(s, i, ",") /\ Punct(s, enc, "[")
                                                      /\ ~InDestructuring(s, enc)}}
    IN  SetBlanks(s, {i \in after : Has(s, i) /\ ~Ws(s, i) /\ ~Punct(s, i, "]")},
                     {i \in after : single /\ NotSp(s, i) /\ (Comment(s, i + 1) => Inline(s, i + 2))})

QualifiedNameStart(s, end) ==
    LET RECURSIVE Go(_)
        Go(start) ==
            LET p == PrevNonWs(s, start)
                pp == PrevNonWs(s, p)
            IN  IF ~Punct(s, p, "\\") THEN start ELSE IF Kind(s, pp, "Ident") THEN Go(pp) ELSE p
    IN  Go(end)
(* isAttributeName: after "#[", or a comma of its top level.               *)
IsAttributeName(s, end) ==
    LET q == SigPrev(s, QualifiedNameStart(s, end))
        a == LastIn({j \in 1 .. q - 1 : Kind(s, j, "AttributeStart")})
    IN  \/ Kind(s, q, "AttributeStart")
        \/ /\ Punct(s, q, ",") /\ a # 0 /\ EnclosingOpener(s, q - 1) < a
           /\ ~\E j \in a .. q : Kind(s, j, "AttributeEnd") \/ Punct(s, j, ";")

TrailingCommaCategory(s, open) ==
    LET p == SigPrev(s, open)
        Word(ws) == Has(s, p) /\ s[p].k \in {"Keyword", "Ident"} /\ Lower(s[p].v) \in ws
    IN  CASE Punct(s, open, "[") -> IF IsOffsetOpen(s, open) THEN "none"
                                    ELSE IF Destructuring(s, open) THEN "array_destructuring" ELSE "arrays"
          [] Punct(s, open, "{") -> IF Punct(s, p, "\\") THEN "group_import"
                                    ELSE IF Punct(s, p, ")") /\ MatchBack(s, p) # 0
                                            /\ Lower(Spelled(s, SigPrev(s, MatchBack(s, p)))) = "match" THEN "match"
                                    ELSE "none"
          [] p = 0 -> "none"
          [] Word({"array"}) -> "arrays"
          [] Word({"list"}) -> "array_destructuring"
          [] KwIn(s, p, {"function", "fn"}) -> "parameters"
          [] Kind(s, p, "Ident") -> IF Lower(Spelled(s, SigPrev(s, p))) = "function" THEN "parameters" ELSE "arguments"
          [] OTHER -> IF Kind(s, p, "Variable") \/ KwIn(s, p, {"class", "static", "isset", "unset"})
                         \/ Punct(s, p, "]") THEN "arguments" ELSE "none"

(* The default only asks for "]" and the certain forms of destructuring.   *)
DefaultElements == {"default"}
IsPlainDestructuring(s, open) ==
    LET p == SigPrev(s, open)
        key == SigPrev(s, p)
        IsAs(i) == i # 0 /\ s[i].k \in {"Ident", "Keyword"} /\ Lower(s[i].v) = "as"
    IN  IsAs(p) \/ (IF Punct(s, p, "=>") THEN Kind(s, key, "Variable") /\ IsAs(SigPrev(s, key))
                    ELSE Punct(s, SigNext(s, Match(s, open)), "="))
TrailingCommaIncluded(elements, s, open, close) ==
    IF elements = DefaultElements
    THEN Punct(s, close, "]") /\ ~IsOffsetOpen(s, open) /\ ~IsPlainDestructuring(s, open)
    ELSE LET c == TrailingCommaCategory(s, open)
         IN  (c # "group_import" /\ c \in elements)
             \/ (c = "array_destructuring" /\ Punct(s, close, ")") /\ "arguments" \in elements)
TrailingCommaInMultiline(elements, s) ==
    LET last(i) == SigPrev(s, i)
        at == {last(i) + 1 : i \in {i \in DOMAIN s :
                  /\ PunctIn(s, i, Closers) /\ MatchBack(s, i) # 0 /\ last(i) > MatchBack(s, i)
                  /\ TrailingCommaIncluded(elements, s, MatchBack(s, i), i)
                  /\ s[last(i)].v \notin {",", "..."} /\ RangeHasNewline(s, last(i) + 1, i - 1)}}
        New(i) == <<P(","), s[i]>>
    IN  Rewrite(s, at, New)

ClearsTrailingComma(elements, s, open) ==
    LET p == SigPrev(s, open)
        c == TrailingCommaCategory(s, open)
    IN  CASE c = "arrays" -> "array" \in elements
          [] c \in {"array_destructuring", "group_import"} -> c \in elements
          [] c \in {"arguments", "parameters"} ->
                /\ Punct(s, open, "(") /\ "arguments" \in elements /\ ~KwIn(s, p, {"function", "fn"})
                /\ ~(Kind(s, p, "Ident") /\ IsAttributeName(s, p))
          [] OTHER -> Punct(s, open, "(") /\ Punct(s, p, ")") /\ "arguments" \in elements
NoTrailingCommaInSingleline(elements, s) ==
    LET kept(i) == LastIn({j \in 1 .. i - 1 : ~Trivia(s, j) /\ ~Punct(s, j, ",")})
        at == {i \in DOMAIN s : /\ PunctIn(s, i, Closers) /\ Punct(s, SigPrev(s, i), ",") /\ MatchBack(s, i) # 0
                                /\ ~RangeHasNewline(s, MatchBack(s, i), i) /\ ClearsTrailingComma(elements, s, MatchBack(s, i))}
        Gone(i) == {j \in kept(i) + 1 .. i - 1 :
                       Punct(s, j, ",") \/ \A k \in kept(i) + 1 .. j : Ws(s, k) \/ Punct(s, k, ",")}
    IN  IF elements = DefaultElements
        THEN Drop(s, {i \in DOMAIN s : LET n == NextNonWs(s, i)
                                       IN  Punct(s, i, ",") /\ PunctIn(s, n, Closers) /\ ~RangeHasNewline(s, i, n)})
        ELSE Drop(s, UNION {Gone(i) : i \in at})
-----------------------------------------------------------------------------
(* ArrayIndentation: a line of an array is one level deeper than the line  *)
(* that opened it; the lines of an item move with its first one.           *)
AiArrayOpen(s, i) ==
    IF Punct(s, i, "[") THEN (IF IsArrayLiteralOpen(s, i) THEN Match(s, i) ELSE 0)
    ELSE IF Punct(s, i, "(") /\ KwIn(s, SigPrev(s, i), {"array", "list"}) THEN Match(s, i) ELSE 0
AiExpressionEnd(s, i, end) ==
    LET c == FirstIn({j \in i + 1 .. end - 1 : Punct(s, j, ",") /\ EnclosingOpener(s, j - 1) <= i})
    IN  SigPrev(s, IF c = 0 THEN end ELSE c)
AiScope(kind, end, was, now) == [kind |-> kind, end |-> end, was |-> was, now |-> now]
Indented(s, i, n) == SetAt(s, i, WS([s[i].w EXCEPT ![Len(s[i].w)] = n]))
RECURSIVE AiFrom(_, _, _, _, _)
(* last is the indent of the line, line what it was and what it became.    *)
AiFrom(s, i, scopes, last, line) ==
    LET sc == Head(scopes)
        Holds(k) == ~Trivia(s, k) \/ Broken(s, k)
        raw == LastLine(s[i].w)
        indent == IF sc.kind = "array"
                  THEN sc.was + (IF \E k \in i + 1 .. sc.end - 1 : Holds(k) THEN 4 ELSE 0)
                  ELSE IF raw >= sc.was THEN raw - sc.was + sc.now ELSE raw
        Closed(scope) == scope.end # i
        end == AiExpressionEnd(s, i, sc.end)
        Next(more) == AiFrom(s, i + 1, more, last, line)
    IN  IF i > Len(s) THEN s
        ELSE IF Comment(s, i) THEN Next(scopes)
        ELSE IF AiArrayOpen(s, i) # 0 THEN Next(<<AiScope("array", AiArrayOpen(s, i), last, 0)>> \o scopes)
        ELSE IF scopes = <<>> THEN AiFrom(s, i + 1, scopes, IF Broken(s, i) THEN raw ELSE last, line)
        ELSE IF Broken(s, i)
             THEN AiFrom(Indented(s, i, indent), i + 1, scopes, indent, IF sc.kind = "array" THEN <<raw, indent>> ELSE line)
        ELSE IF Ws(s, i) THEN Next(scopes)
        ELSE IF i = sc.end THEN Next(SelectSeq(scopes, Closed))
        ELSE IF ~Punct(s, i, ",") /\ sc.kind = "array" /\ end # i
             THEN Next(<<AiScope("expression", end, line[1], line[2])>> \o scopes)
        ELSE Next(scopes)
ArrayIndentation(s) == LET after == AiFrom(s, 1, <<>>, 0, <<0, 0>>) IN Result(after, after # s)

(* The "[" of a literal that has items.                                    *)
FilledArray(s, i) ==
    /\ Punct(s, i, "[") /\ IsArrayLiteralOpen(s, i) /\ Match(s, i) # 0 /\ ~IsDestructuringAssignOpen(s, i)
    /\ SigNext(s, i) # Match(s, i)
OpensLiteral(s, i) == Punct(s, i, "[") /\ IsArrayLiteralOpen(s, i)
ArrayHasTopLevelArrow(s, open) == \E j \in Inside(s, open) : Punct(s, j, "=>")
ArrayTopLevelMultiline(s, open) == \E j \in Inside(s, open) : Broken(s, j)
ArraySingleTopLevelItem(s, open) ==
    ~\E j \in Inside(s, open) : Punct(s, j, ",") /\ SigNext(s, j) < Match(s, open)
LineBreak(i) == <<0, 0>>
SplitTopLevelCommas(s, open) ==
    LET Shares(i) == LET n == NextNonWs(s, i) IN n < Match(s, open) /\ ~Comment(s, n) /\ ~Punct(s, n, "{")
    IN  SetGaps(s, {i \in Inside(s, open) : Punct(s, i, ",") /\ ~Broken(s, i + 1) /\ Shares(i)}, LineBreak)
(* Outwards while the inner bracket is the last content of the outer one.  *)
RECURSIVE EnclosingListsForExpandedAssoc(_, _)
EnclosingListsForExpandedAssoc(s, inner) ==
    LET enc == EnclosingOpener(s, inner - 1)
        close == Match(s, enc)
        n == SigNext(s, Match(s, inner))
        last == n = close \/ (Punct(s, n, ",") /\ SigNext(s, n) = close)
        list == OpensLiteral(s, enc) /\ ~IsDestructuringAssignOpen(s, enc) /\ ~ArrayHasTopLevelArrow(s, enc)
        nested == OpensLiteral(s, SigNext(s, enc))
    IN  IF \/ enc = 0 \/ close = 0 \/ ~last \/ Punct(s, enc, "{")
           \/ list /\ nested /\ RangeHasNewline(s, enc, close) /\ ArraySingleTopLevelItem(s, enc) THEN {}
        ELSE (IF list /\ ~nested /\ ~Broken(s, enc + 1) THEN {enc} ELSE {}) \cup EnclosingListsForExpandedAssoc(s, enc)
ExpandAssoc(s, open) ==
    LET last == SigPrev(s, Match(s, open))
        comma == IF s[last].v = "," THEN Unchanged(s) ELSE Result(InsertAt(s, last + 1, <<P(",")>>), TRUE)
        Reflow(t) == ReflowParen(t, open, FALSE)
    IN  Then(comma, Reflow)
ArrayListItemNewline(s) ==
    LET RECURSIVE Go(_, _, _)
        Go(r, i, outer) ==
            IF i > Len(r.toks) THEN LET Break(t) == SetGaps(t, outer, LineBreak) IN Then(r, Break)
            ELSE IF ~FilledArray(r.toks, i) \/ ~ArrayHasTopLevelArrow(r.toks, i) THEN Go(r, i + 1, outer)
            ELSE LET split == ArrayTopLevelMultiline(r.toks, i)
                     Fix(t) == IF split THEN SplitTopLevelCommas(t, i) ELSE ExpandAssoc(t, i)
                 IN  Go(Then(r, Fix), i + 1,
                        IF split THEN outer ELSE outer \cup EnclosingListsForExpandedAssoc(r.toks, i))
    IN  Go(Unchanged(s), 1, {})

ArrayOpenerAndCloserNewline(s) ==
    LET At(t, i) == FilledArray(t, i) /\ ~OpensLiteral(t, SigNext(t, i)) /\ ArrayHasTopLevelArrow(t, i)
        Step(t, i) == SetGaps(t, {g \in {i, GapBefore(t, Match(t, i))} : ~Broken(t, g + 1)}, LineBreak)
    IN  ForEachBack(s, At, Step)

StandaloneArrayShouldSkip(s, open) ==
    LET arrow == FirstIn({j \in Inside(s, open) : Punct(s, j, "=>")})
    IN  \/ arrow = 0
        \/ Separators(s, open) = {} /\ ~Punct(s, SigNext(s, arrow), "[") /\ SigPrev(s, open) # 0
           /\ s[SigPrev(s, open)].v # "=>"
StandaloneLineInMultilineArray(s) ==
    LET RECURSIVE Go(_, _)
        Go(r, i) ==
            LET open == FirstIn({j \in i .. Len(r.toks) : FilledArray(r.toks, j)})
                Reflow(t) == ReflowParen(t, open, FALSE)
            IN  IF open = 0 \/ StandaloneArrayShouldSkip(r.toks, open) THEN r ELSE Go(Then(r, Reflow), open + 1)
    IN  Go(Unchanged(s), 1)
=============================================================================
