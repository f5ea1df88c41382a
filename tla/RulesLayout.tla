---------------------------- MODULE RulesLayout ----------------------------
(***************************************************************************)
(* The blink rules that lay out lines: argument and parameter lists, long  *)
(* lines, chained calls, statements.  As for arrays heredocs are left out; *)
(* a quoted literal is on one line.                                        *)
(***************************************************************************)
EXTENDS RulesArrays

LOCAL Sets == INSTANCE FiniteSetsExt

(* Argument lists, of calls and of declarations.                           *)
IsLanguageConstructBareword(s, p) ==
    Lower(s[p].v) \in {"eval", "exit", "die"} /\ ~PunctIn(s, SigPrev(s, p), MemberOps)
IsCallOrDeclParen(s, open) ==
    LET p == SigPrev(s, open)
    IN  \/ Kind(s, p, "Variable") \/ PunctIn(s, p, Closers) \/ KwIn(s, p, {"function", "fn", "class", "use"})
        \/ Kind(s, p, "Ident") /\ ~IsLanguageConstructBareword(s, p)
IsCommaSpacedParen(s, open) == IsCallOrDeclParen(s, open) \/ Kw(s, SigPrev(s, open), "list")
IsGroupingReflowParen(s, open) == PunctIn(s, SigPrev(s, open), {"!", "&&", "||"})
AttributesIn(s, open) == {a \in Inside(s, open) : Kind(s, a, "AttributeStart")}
ArgListIsMultiline(s, open) ==
    \/ Broken(s, open + 1) \/ Broken(s, Match(s, open) - 1)
    \/ \E a \in AttributesIn(s, open) : RangeHasNewline(s, a, AttributeEnd(s, a))
    \/ \E c \in Inside(s, open) : Punct(s, c, ",") /\ ~InAttribute(s, c) /\ Broken(s, c + 1)
MultilineParen(s, open) == Punct(s, open, "(") /\ Match(s, open) # 0 /\ ArgListIsMultiline(s, open)
ParenHasTopLevelLineComment(s, open) == \E j \in Inside(s, open) : IsLineComment(s, j)

MethodArgSpaceCollapse(keepMultiple, s) ==
    LET At(t, i) == MultilineParen(t, i) /\ IsCallOrDeclParen(t, i) /\ ~ParenHasTopLevelLineComment(t, i)
        Step(t, i) ==
            LET New(j) == IF PrevNonWs(t, j) = i \/ NextNonWs(t, j) = Match(t, i) THEN <<>>
                          ELSE IF keepMultiple /\ Punct(t, j - 1, ",") THEN <<WS(<<LastLine(t[j].w)>>)>> ELSE <<Sp>>
            IN  Rewrite(t, {j \in Inside(t, i) : Broken(t, j)}, New)
    IN  ForEach(s, At, Step)
(* A bracket that is the argument itself is looked into, the others not.   *)
ArgumentContentIsMultiline(s, open) ==
    \E j \in open + 1 .. Match(s, open) - 1 :
        /\ EnclosingOpener(s, j - 1) \in {open, open + 1}
        /\ Comment(s, j) \/ (Broken(s, j) /\ j \notin {open + 1, Match(s, open) - 1})
EnsureSingleLineForParen(s, open) ==
    LET New(j) == <<WS(<<s[j].w[1]>>)>>
    IN  IF ArgumentContentIsMultiline(s, open) THEN Unchanged(s)
        ELSE Rewrite(s, {j \in Inside(s, open) : Broken(s, j) /\ ~IsLineComment(s, j - 1)}, New)
ReflowMultilineArgs(Takes(_, _), Step(_, _), s) ==
    LET At(t, i) == MultilineParen(t, i) /\ Takes(t, i) /\ SigNext(t, i) # Match(t, i) IN ForEach(s, At, Step)
ReflowSingleArgOrMultiline(s) ==
    LET Step(t, i) == IF Separators(t, i) = {} THEN EnsureSingleLineForParen(t, i) ELSE ReflowParen(t, i, TRUE)
    IN  ReflowMultilineArgs(IsCallOrDeclParen, Step, s)
ReflowAllMultiline(s) ==
    LET Takes(t, i) == IsCallOrDeclParen(t, i) \/ IsGroupingReflowParen(t, i)
        Step(t, i) == ReflowParen(t, i, TRUE)
    IN  ReflowMultilineArgs(Takes, Step, s)

(* The arguments of the first "(" of an attribute, trimmed and joined.     *)
CollapseAttributeText(s, a, single) ==
    LET open == FirstIn({j \in a .. AttributeEnd(s, a) : Punct(s, j, "(")})
        parted == {c \in Inside(s, open) : Punct(s, c, ",") /\ SigNext(s, c) # Match(s, open)}
        OneBlank(i) == <<1>>
        spaced == SetGaps(s, parted, OneBlank).toks
        gone == {j \in Inside(spaced, open) : Ws(spaced, j) /\ (j - 1 = open \/ PunctIn(spaced, j + 1, {",", ")"}))}
        joined == Drop(spaced, gone).toks
    IN  IF open = 0 \/ Match(s, open) = 0 \/ SigNext(s, open) = Match(s, open) \/ (single /\ parted # {})
        THEN Unchanged(s) ELSE Result(joined, joined # s)
CollapseAttributeArgs(s, single) ==
    LET At(t, i) == Kind(t, i, "AttributeStart") /\ AttributeEnd(t, i) # 0 /\ RangeHasNewline(t, i, AttributeEnd(t, i))
        Step(t, i) == CollapseAttributeText(t, i, single)
    IN  ForEach(s, At, Step)
ApplyAttributePlacement(s, placement) ==
    LET At(t, i) == placement # "ignore" /\ MultilineParen(t, i) /\ IsCallOrDeclParen(t, i)
        Step(t, i) ==
            LET Gap(e) == IF placement = "same_line" THEN <<1>> ELSE <<0, LineIndentBefore(t, AttributeStartOf(t, e))>>
            IN  SetGaps(t, {AttributeEnd(t, a) : a \in AttributesIn(t, i)}, Gap)
    IN  ForEach(s, At, Step)

SpaceCommas(keepMultiple, s) ==
    LET commas == {i \in DOMAIN s : /\ Punct(s, i, ",") /\ Punct(s, EnclosingOpener(s, i - 1), "(")
                                    /\ IsCommaSpacedParen(s, EnclosingOpener(s, i - 1))}
        before == {i - 1 : i \in {i \in commas : /\ Inline(s, i - 1) /\ ~Comment(s, PrevNonWs(s, i))
                                                 /\ ~Punct(s, PrevNonWs(s, i), ",")}}
        squeeze == {i + 1 : i \in {i \in commas : NotSp(s, i + 1) /\ ~keepMultiple /\ ~CommentLastLine(s, i + 2)}}
        insert == {i + 1 : i \in {i \in commas : Has(s, i + 1) /\ ~Ws(s, i + 1) /\ ~CommentLastLine(s, i + 1)}}
        New(i) == IF i \in squeeze THEN <<Sp>> ELSE (IF i \in insert THEN <<Sp>> ELSE <<>>) \o
                  (IF i \in before THEN <<>> ELSE <<s[i]>>)
    IN  Rewrite(s, before \cup squeeze \cup insert, New)
MethodArgumentSpace(mode, keepMultiple, placement, s) ==
    LET Place(t) == ApplyAttributePlacement(t, placement)
        Collapse(t) == CollapseAttributeArgs(t, FALSE)
        CollapseSingle(t) == CollapseAttributeArgs(t, TRUE)
        Commas(t) == SpaceCommas(keepMultiple, t)
        laid == CASE mode = "ignore" -> Unchanged(s)
                  [] mode = "ensure_single_line" -> Then(MethodArgSpaceCollapse(keepMultiple, s), Collapse)
                  [] mode = "ensure_single_line_for_single_argument" ->
                        Then(Then(ReflowSingleArgOrMultiline(s), CollapseSingle), Place)
                  [] OTHER -> Then(ReflowAllMultiline(s), Place)
    IN  Then(laid, Commas)
-----------------------------------------------------------------------------
(* Lines, counted in characters.                                           *)
WsChars(w) == LET D(i) == w[i] IN Sets!MapThenSumSet(D, DOMAIN w) + Len(w) - 1
Chars(s, i) == IF Ws(s, i) THEN WsChars(s[i].w) ELSE Len(s[i].v)
CharsIn(s, S) == LET D(i) == Chars(s, i) IN Sets!MapThenSumSet(D, S)
StartsBreak(s, i) == Broken(s, i) /\ s[i].w[1] = 0
LlIsNewlineOrOpenTag(s, i) == StartsBreak(s, i) \/ Kind(s, i, "OpenTag")
(* firstLineLength: a line that ends in blanks counts the token before.    *)
FirstLineLength(s, open) ==
    LET stop == LastIn({j \in 1 .. open : LlIsNewlineOrOpenTag(s, j) \/ Broken(s, j)})
        trailing == stop # 0 /\ ~LlIsNewlineOrOpenTag(s, stop)
        start == IF trailing THEN stop - 1 ELSE stop
        end == FirstIn({j \in open + 1 .. Len(s) : Broken(s, j) \/ Kw(s, j, "use")})
    IN  CharsIn(s, stop + 1 .. open) + (IF trailing THEN LastLine(s[stop].w) ELSE 0)
        + (IF start = 0 THEN 0 ELSE Chars(s, start) - (IF Ws(s, start) THEN Breaks(s, start) ELSE 0))
        + CharsIn(s, open + 1 .. (IF end = 0 THEN Len(s) ELSE end - 1))
        + (IF Broken(s, end) THEN s[end].w[1] ELSE 0)
LlLineStartLength(s, p) ==
    LET w == s[p].w
        rest == IF w[1] = 0 /\ Len(w) > 1 THEN Tail(w) ELSE w
    IN  IF ~Ws(s, p) \/ ~TagOwns(s, p) THEN Chars(s, p)
        ELSE IF Len(rest) > 1 THEN WsChars(rest) ELSE Chars(s, p - 1) + Chars(s, p)
FullLineLength(s, open) ==
    LET close == Match(s, open)
        start == LastIn({j \in 1 .. open : LlIsNewlineOrOpenTag(s, j)})
        end == FirstIn({j \in close .. Len(s) : StartsBreak(s, j)})
        Inlined(j) == IF Ws(s, j) THEN 1 ELSE Chars(s, j)
    IN  CharsIn(s, start + 1 .. open) + (IF start = 0 THEN 0 ELSE LlLineStartLength(s, start))
        + Sets!MapThenSumSet(Inlined, open .. close - 1)
        + CharsIn(s, close .. (IF end = 0 THEN Len(s) ELSE end - 1))

LlIndentLevel(s, i) ==
    LET at == LastIn({j \in 2 .. i : Broken(s, j)}) IN IF at = 0 THEN 0 ELSE LastLine(s[at].w) \div 4
LlIsMethodCall(s, open) == PunctIn(s, SigPrev(s, SigPrev(s, open)), {"->", "?->"})
LlClosesFilledArray(s, i) ==
    Punct(s, i, "]") /\ MatchBack(s, i) # 0 /\ IsArrayLiteralOpen(s, MatchBack(s, i)) /\ SigNext(s, MatchBack(s, i)) # i
(* ensureWhitespaceAtIndex only looks at one side of where it puts a break.*)
BreakCloser(s, open, level) ==
    LET close == Match(s, open)
        pp == close - 3
    IN  IF /\ ~LlIsMethodCall(s, open) /\ LlClosesFilledArray(s, close - 1)
           /\ pp > open /\ ~PunctIn(s, pp, {"[", "]"}) /\ ~Ws(s, pp)
        THEN Result(InsertAt(s, close - 1, <<Nl(4 * level + 4)>>), TRUE)
        ELSE SetGap(s, GapBefore(s, close), <<0, 4 * level>>)
BreakOpener(s, open, level) ==
    IF OpensLiteral(s, open + 1) /\ ~LlIsMethodCall(s, open)
    THEN Result(InsertAt(s, open + 2, <<Nl(4 * level + 4)>>), TRUE)
    ELSE SetGap(s, open, <<0, 4 * level + 4>>)
BreakItems(s, open) ==
    LET level == LlIndentLevel(s, open)
        Top(t, j) == ~\E o \in open + 1 .. j - 1 : PunctIn(t, o, {"(", "["}) /\ Match(t, o) > j
        Item(i) == <<0, 4 * level + 4>>
        Commas(t) == SetGaps(t, {j \in open + 1 .. Match(s, open) - 1 :
                                    /\ Punct(t, j, ",") /\ Top(t, j) /\ ~Broken(t, j + 1) /\ ~Comment(t, j + 2)}, Item)
        Opener(t) == BreakOpener(t, open, level)
    IN  Then(Then(BreakCloser(s, open, level), Commas), Opener)
InlineItems(s, open) ==
    LET close == Match(s, open)
        Kept(b) == IF Punct(s, b, "{") \/ OpensLiteral(s, b) THEN Match(s, b)
                   ELSE IF Kw(s, b, "array") THEN Match(s, SigNext(s, b)) ELSE 0
        Edge(i) == PunctIn(s, i - 1, {"(", "["}) \/ PunctIn(s, i + 1, {")", "]"})
        New(i) == IF Edge(i) THEN <<Cleared>> ELSE <<Sp>>
    IN  Rewrite(s, {i \in open + 1 .. close - 1 :
                       /\ Ws(s, i) /\ (Edge(i) \/ s[i].w # <<1>>)
                       /\ ~\E b \in open + 1 .. i - 1 : Kept(b) > i}, New)
-----------------------------------------------------------------------------
LowerLetters == {"a", "b", "c", "d", "e", "f", "g", "h", "i", "j", "k", "l", "m", "n", "o", "p", "q", "r", "s",
                 "t", "u", "v", "w", "x", "y", "z"}
LlIsCallName(s, i) ==
    Kind(s, i, "Ident") /\ SubSeq(s[i].v, 1, 1) \in LowerLetters /\ s[i].v \notin {"eval", "exit", "die"}
LlShouldSkip(s, open) ==
    LET close == Match(s, open)
    IN  close - open <= 1 \/ \E j \in open + 1 .. close - 1 : Punct(s, j, "=>") \/ Kind(s, j, "Comment")
Constructs(s, fn, open) ==
    LET n == SigPrev(s, open) IN Kw(s, fn, "function") /\ n > fn /\ Kind(s, n, "Ident") /\ Lower(s[n].v) = "__construct"
(* The "(" or "[" that is laid out when pos is reached, 0 for none;        *)
(* inserted is where the last tokens came in.                              *)
LlBlock(s, pos, inserted) ==
    LET back == MatchBack(s, pos)
        ahead == NextPunct(s, pos, {"(", ";"})
        inner == FirstIn({j \in pos + 1 .. AttributeEnd(s, pos) - 1 : Punct(s, j, "(")})
        opens == KwIn(s, pos, {"new", "function"}) \/ (Kw(s, pos, "use") /\ Punct(s, SigNext(s, pos), "("))
    IN  IF Punct(s, pos, ")")
        THEN IF LlIsCallName(s, back - 1) /\ ~Punct(s, back + 1, ")") /\ ~\E j \in back .. pos : Kind(s, j, "Comment")
             THEN back ELSE 0
        ELSE IF Kind(s, pos, "AttributeStart")
        THEN IF \/ inner = 0 \/ Match(s, inner) = 0 \/ (inner <= inserted /\ inserted <= Match(s, inner))
                \/ LlShouldSkip(s, inner) THEN 0 ELSE inner
        ELSE IF opens
        THEN IF \/ ~Punct(s, ahead, "(") \/ Match(s, ahead) = 0 \/ SigNext(s, ahead) = Match(s, ahead)
                \/ Constructs(s, pos, ahead) \/ LlShouldSkip(s, ahead) THEN 0 ELSE ahead
        ELSE IF Punct(s, pos, "]") /\ back # 0 /\ IsArrayLiteralOpen(s, back) /\ ~LlShouldSkip(s, back) THEN back ELSE 0
LlTransform(limit, breakLong, inlineShort, s, open) ==
    IF \E j \in open + 1 .. Match(s, open) - 1 : KwIn(s, j, {"public", "protected", "private", "readonly"}) THEN Unchanged(s)
    ELSE IF FirstLineLength(s, open) > limit THEN (IF breakLong THEN BreakItems(s, open) ELSE Unchanged(s))
    ELSE IF FullLineLength(s, open) > limit \/ ~inlineShort THEN Unchanged(s)
    ELSE InlineItems(s, open)
LineLength(limit, breakLong, inlineShort, s) ==
    LET RECURSIVE Go(_, _, _)
        Go(r, pos, inserted) ==
            LET t == r.toks
                block == LlBlock(t, pos, inserted)
                n == LlTransform(limit, breakLong, inlineShort, t, block)
            IN  IF pos < 1 THEN r
                ELSE IF block = 0 THEN Go(r, pos - 1, inserted)
                ELSE Go(Result(n.toks, r.changed \/ n.changed), pos - 1, IF Len(n.toks) > Len(t) THEN pos ELSE inserted)
    IN  Go(Unchanged(s), Len(s), 0)
-----------------------------------------------------------------------------
(* Parameters on lines of their own                                        *)
RequiredDocs == {"/**@required*/"}
RequiredIn(s, i, j) ==
    \E k \in i .. j : \/ Kind(s, k, "DocComment") /\ s[k].v \in RequiredDocs
                      \/ Kind(s, k, "Ident") /\ s[k].v = "Required" /\ ~IsNamedArgument(s, k)
(* What precedes a method: its modifiers, doc blocks and attributes.       *)
RECURSIVE HeadStart(_, _)
HeadStart(s, j) ==
    IF Kind(s, j, "AttributeEnd") THEN HeadStart(s, AttributeStartOf(s, j) - 1)
    ELSE IF Trivia(s, j) \/ KwIn(s, j, MemberModifiers) THEN HeadStart(s, j - 1) ELSE j + 1
IsPublicRequiredMethod(s, fn) ==
    LET head == HeadStart(s, fn - 1)
    IN  /\ \E j \in head .. fn - 1 : Kw(s, j, "public") /\ ~InAttribute(s, j)
        /\ RequiredIn(s, head, fn - 1)
(* The "(" of the declaration whose name is at i, if it has parameters.    *)
ParamOpen(s, i) ==
    LET open == SigNext(s, i) IN IF Punct(s, open, "(") /\ Match(s, open) # 0 /\ SigNext(s, open) # Match(s, open) THEN open ELSE 0
StandaloneLineRequiredParam(s) ==
    LET At(t, i) == Kw(t, i, "function") /\ IsPublicRequiredMethod(t, i) /\ ParamOpen(t, SigNext(t, i)) # 0
        Step(t, i) == ReflowParen(t, ParamOpen(t, SigNext(t, i)), FALSE)
    IN  ForEach(s, At, Step)

ConstructorName(s, i) == Kind(s, i, "Ident") /\ Lower(s[i].v) = "__construct" /\ Kw(s, SigPrev(s, i), "function")
ConstructorParamOpen(s, i) == IF ConstructorName(s, i) /\ Punct(s, SigNext(s, i), "(") THEN SigNext(s, i) ELSE 0
CountParams(s, open) == Cardinality({j \in Inside(s, open) : Kind(s, j, "Variable")})
HasPromotedParam(s, open) == \E j \in Inside(s, open) : KwIn(s, j, {"public", "protected", "private", "readonly"})
StandaloneLinePlainConstructorParam(s) ==
    LET At(t, i) == ConstructorName(t, i) /\ ParamOpen(t, i) # 0 /\ CountParams(t, ParamOpen(t, i)) >= 4
                    /\ ~HasPromotedParam(t, ParamOpen(t, i))
        Step(t, i) == ReflowParen(t, ParamOpen(t, i), FALSE)
    IN  ForEach(s, At, Step)
FileHasPromotedConstructor(s) ==
    \E i \in DOMAIN s : ConstructorParamOpen(s, i) # 0 /\ HasPromotedParam(s, ConstructorParamOpen(s, i))
StandaloneLinePromotedProperty(s) ==
    LET At(t, i) == ConstructorName(t, i) /\ ParamOpen(t, i) # 0
        Step(t, i) == ReflowParen(t, ParamOpen(t, i), FALSE)
    IN  IF FileHasPromotedConstructor(s) THEN ForEach(s, At, Step) ELSE Unchanged(s)
StandaloneLineConstructorParam(s) ==
    LET Open(t, i) == NextPunct(t, i, {"(", ";"})
        At(t, i) == /\ Kw(t, i, "function") /\ Spelled(t, SigNext(t, i)) = "__construct" /\ Punct(t, Open(t, i), "(")
                    /\ Match(t, Open(t, i)) # 0 /\ SigNext(t, Open(t, i)) # Match(t, Open(t, i))
        Step(t, i) == BreakItems(t, Open(t, i))
    IN  ForEachBack(s, At, Step)

IsPromotedVisibility(s, i) ==
    LET o == EnclosingFuncParamOpen(s, i)
    IN  /\ KwIn(s, i, {"public", "protected", "private"}) /\ ~Punct(s, SigNext(s, i), "(")
        /\ o # 0 /\ ConstructorParamOpen(s, SigPrev(s, o)) = o
MultilinePromotedProperties(min, keepBlank, s) ==
    LET At(t, i) == /\ ConstructorParamOpen(t, i) # 0 /\ Match(t, ConstructorParamOpen(t, i)) # 0
                    /\ \E j \in ConstructorParamOpen(t, i) .. Match(t, ConstructorParamOpen(t, i)) : IsPromotedVisibility(t, j)
        Step(t, i) ==
            LET open == ConstructorParamOpen(t, i)
                close == Match(t, open)
                within == open + 1 .. close - 1
                enough == Cardinality({j \in within : Kind(t, j, "Variable")}) >= min
                last == GapBefore(t, close)
                indent == LineIndent(t, open)
                Gap(j) == IF j = last THEN <<0, indent>> ELSE <<0, indent + 4>>
                New(j) == IF j \in {open + 1, close - 1} THEN <<Cleared>> ELSE <<Sp>>
            IN  IF enough
                THEN SetGaps(t, {last} \cup {j \in {open} \cup Separators(t, open) : ~(keepBlank /\ Broken(t, j + 1))}, Gap)
                ELSE IF \E j \in within : Comment(t, j) \/ Kind(t, j, "AttributeStart") THEN Unchanged(t)
                ELSE Rewrite(t, {j \in within : Broken(t, j)}, New)
    IN  ForEach(s, At, Step)
-----------------------------------------------------------------------------
SymfonyAttributeShortNames ==
    {"AsCommand", "Route", "Autowire", "AutowireIterator", "AutowireLocator", "AsAlias", "AsDecorator", "AsTaggedItem",
     "When", "AsEventListener", "AsMessageHandler", "AsController", "MapRequestPayload", "MapQueryParameter",
     "MapQueryString", "MapEntity", "IsGranted"}
ReflowSymfonyAttribute(s, a) ==
    LET open == FirstIn({j \in a .. AttributeEnd(s, a) : Punct(s, j, "(")})
        base == LineIndentBefore(s, a)
        trimmed == Drop(s, {j \in Inside(s, open) : Ws(s, j) /\ Punct(s, j + 1, ",")}).toks
        parted == {c \in Inside(trimmed, open) : Punct(trimmed, c, ",") /\ SigNext(trimmed, c) # Match(trimmed, open)}
        last == GapBefore(trimmed, Match(trimmed, open))
        Gap(i) == IF i = last THEN <<0, base>> ELSE <<0, base + 4>>
        after == SetGaps(trimmed, {open, last} \cup parted, Gap).toks
    IN  IF \/ open = 0 \/ Match(s, open) = 0 \/ Spelled(s, open - 1) \notin SymfonyAttributeShortNames
           \/ SigNext(s, open) = Match(s, open) \/ (s[open - 1].v # "AsCommand" /\ parted = {})
        THEN Unchanged(s) ELSE Result(after, after # s)
StandaloneLineSymfonyAttributeParam(s) ==
    LET At(t, i) == Kind(t, i, "AttributeStart") /\ AttributeEnd(t, i) # 0 IN ForEach(s, At, ReflowSymfonyAttribute)

(* SingleLineThrow                                                         *)
ThrowIsDynamicBrace(s, i) == LET p == SigPrev(s, i) IN PunctIn(s, p, {"->", "?->"}) \/ (Kind(s, p, "Variable") /\ s[p].v = "$")
RECURSIVE ThrowEnd(_, _)
ThrowEnd(s, j) ==
    IF j = 0 \/ Kind(s, j, "CloseTag") \/ PunctIn(s, j, Closers \cup {",", ";"}) THEN j
    ELSE IF Kind(s, j, "AttributeStart") THEN ThrowEnd(s, SigNext(s, AttributeEnd(s, j)))
    ELSE IF Punct(s, j, "{") /\ ~ThrowIsDynamicBrace(s, j) THEN j
    ELSE IF PunctIn(s, j, Openers) THEN (IF Match(s, j) = 0 THEN 0 ELSE ThrowEnd(s, SigNext(s, Match(s, j))))
    ELSE ThrowEnd(s, SigNext(s, j))
ThrowTrimNewLines(s, start, end) ==
    LET range == start .. end - 1
        noted == {j \in range : IsLineComment(s, j)}
        blocks == {j \in range : Kind(s, j, "Comment") /\ s[j].v = "/*m*/"}
        breaks == {j \in range : Broken(s, j) /\ j - 1 \notin noted}
        Clears(j) == \/ PunctIn(s, j - 1, {"[", "("} \cup MemberOps)
                     \/ PunctIn(s, j + 1, {"(", ")", "]", ",", ";"} \cup MemberOps) /\ ~Kw(s, j - 1, "function")
        New(j) == IF j \in noted \cup blocks THEN <<Tok("Comment", "/*c*/")>>
                  ELSE IF j - 1 \in noted \/ Clears(j) THEN <<Cleared>> ELSE <<Sp>>
    IN  Rewrite(s, noted \cup blocks \cup breaks \cup {j + 1 : j \in noted}, New)
SingleLineThrow(s) ==
    LET At(t, i) == Kw(t, i, "throw") /\ ThrowEnd(t, SigNext(t, i)) # 0
        Step(t, i) == ThrowTrimNewLines(t, i, SigPrev(t, ThrowEnd(t, SigNext(t, i))))
    IN  ForEach(s, At, Step)
-----------------------------------------------------------------------------
(* Chains of calls.  A cast is one token there.                            *)
InCast(s, j) == \E o \in 1 .. j : Punct(s, o, "(") /\ IsCastParen(s, o) /\ j <= Match(s, o)
CastRest(s, j) == InCast(s, j) /\ InCast(s, j - 1)
Spans(s, i, j) == \E k \in i .. j : Broken(s, k) \/ Spelled(s, k) \in {"/*m*/", "/**m*/"}
ChainIsComparison(s, i) ==
    PunctIn(s, i, {"<", ">", "&&", "||", "==", "!=", "<>", "===", "!==", "<=", ">=", "<=>"}) \/ KwIn(s, i, {"and", "or", "xor"})
RECURSIVE ChainHasOperator(_, _, _)
ChainHasOperator(s, i, d) ==
    LET into == IF d > 0 THEN {"(", "["} ELSE {")", "]"}
        other == IF d > 0 THEN Match(s, i) ELSE MatchBack(s, i)
    IN  /\ Has(s, i) /\ ~PunctIn(s, i, {";", "{", "}"} \cup ({"(", "[", ")", "]"} \ into))
        /\ IF PunctIn(s, i, into) THEN other # 0 /\ ChainHasOperator(s, other + d, d)
           ELSE ChainIsComparison(s, i) \/ ChainHasOperator(s, i + d, d)
RECURSIVE ChainOpener(_, _)
ChainOpener(s, i) ==
    IF i < 1 \/ PunctIn(s, i, {";", "{", "}"}) THEN 0
    ELSE IF PunctIn(s, i, {"(", "["}) THEN i
    ELSE ChainOpener(s, IF PunctIn(s, i, {")", "]"}) /\ MatchBack(s, i) # 0 THEN MatchBack(s, i) - 1 ELSE i - 1)
ChainInControlCondition(s, op) ==
    LET o == ChainOpener(s, op) IN Punct(s, o, "(") /\ KwIn(s, SigPrev(s, o), {"if", "elseif", "while", "switch"})
ChainShortNoArgMethod(s, op) ==
    LET name == SigNext(s, op)
        open == SigNext(s, name)
    IN  Kind(s, name, "Ident") /\ Len(s[name].v) <= 5 /\ Punct(s, open, "(") /\ Punct(s, SigNext(s, open), ")")
ChainPartOfCallOrArray(s, close) ==
    \E j \in LastIn({k \in 1 .. close : Broken(s, k)}) + 1 .. close :
        \/ PunctIn(s, j, {"[", ".", "::"}) \/ (Kw(s, j, "array") /\ ~InCast(s, j) /\ Punct(s, SigNext(s, j), "("))
        \/ Punct(s, j, "(") /\ (Match(s, j) > close \/ Match(s, j) = 0)
ChainIsTString(s, i) ==
    Kind(s, i, "Ident") /\ (Lower(s[i].v) \in {"exit", "die", "eval"} => PunctIn(s, SigPrev(s, i), MemberOps))
ChainCallNeedsNewline(s, open) ==
    LET name == PrevNonWs(s, open)
        p == PrevNonWs(s, name)
    IN  ChainIsTString(s, name) /\ (PunctIn(s, p, {"{", "::"}) \/ Kw(s, p, "return"))
ChainPrecededByFuncCall(s, close) ==
    LET stop == LastIn({j \in 1 .. close : Spelled(s, j) = "clone" \/ Broken(s, j) \/ (Punct(s, j, "(") /\ ~InCast(s, j))})
    IN  Spelled(s, stop) = "clone" \/ (Punct(s, stop, "(") /\ ChainCallNeedsNewline(s, stop))
ChainShouldPrefixNewline(s, op) ==
    LET Closes(j) == Punct(s, j, ")") /\ ~InCast(s, j) /\ ~(MatchBack(s, j) # 0 /\ ClassInstantiationParen(s, MatchBack(s, j)))
        close == LastIn({j \in 1 .. op : Closes(j) \/ Kind(s, j, "Variable") \/ Kw(s, j, "new")
                                         \/ (Punct(s, j, "(") /\ ~InCast(s, j))})
    IN  /\ Has(s, close) /\ Closes(close)
        /\ ~ChainHasOperator(s, op - 1, -1) /\ ~ChainHasOperator(s, op + 1, 1)
        /\ ~ChainInControlCondition(s, op) /\ ~ChainShortNoArgMethod(s, op)
        /\ ~ChainPartOfCallOrArray(s, close) /\ ~ChainPrecededByFuncCall(s, close)
        /\ ~Spans(s, IF MatchBack(s, close) = 0 THEN close ELSE MatchBack(s, close), op)
(* The loop ends at the count of before its inserts: n of the last tokens  *)
(* are out of reach after n of them.                                       *)
MethodChainingNewline(s) ==
    LET RECURSIVE Go(_, _, _)
        Go(t, i, n) ==
            LET rest == Cardinality({j \in i .. Len(t) : ~CastRest(t, j)})
            IN  IF i > Len(t) \/ rest <= n THEN Result(t, n > 0)
                ELSE IF ~Punct(t, i, "->") \/ InCast(t, i) \/ ~ChainShouldPrefixNewline(t, i) THEN Go(t, i + 1, n)
                ELSE IF Ws(t, i - 1) THEN Go(SetAt(t, i - 1, WS(JoinWs(t[i - 1].w, <<0, 0>>))), i + 1, n + 1)
                ELSE Go(InsertAt(t, i, <<Nl(0)>>), i + 2, n + 1)
    IN  Go(s, 2, 0)

RECURSIVE ChainLineStart(_, _)
ChainLineStart(s, i) ==
    IF i < 1 \/ Broken(s, i) THEN i
    ELSE ChainLineStart(s, IF Punct(s, i, ")") /\ MatchBack(s, i) # 0 THEN MatchBack(s, i) - 1 ELSE i - 1)
ChainRequiresExtraIndent(s, start, end) ==
    LET first == SigNext(s, start)
        third == SigNext(s, SigNext(s, first))
    IN  IF PunctIn(s, first, {"->", "?->"}) THEN Punct(s, third, "(") /\ Match(s, third) > end
        ELSE Punct(s, end, ")") => MatchBack(s, end) >= start
ChainExpectedIndent(s, op) ==
    LET end == SigPrev(s, op)
        start == ChainLineStart(s, end)
    IN  IF start < 1 THEN 4 ELSE LastLine(s[start].w) + (IF ChainRequiresExtraIndent(s, start, end) THEN 4 ELSE 0)
MethodChainingIndentation(s) ==
    LET At(t, i) == PunctIn(t, i, {"->", "?->"}) /\ Broken(t, i - 1) /\ LastLine(t[i - 1].w) # ChainExpectedIndent(t, i)
        Step(t, i) ==
            LET got == LastLine(t[i - 1].w)
                open == NextNonWs(t, NextNonWs(t, i))
                nested == IF Punct(t, open, "(") THEN open + 1 .. Match(t, open) - 1 ELSE {}
                Moved(j) == Broken(t, j) /\ LastLine(t[j].w) >= got
                New(j) == <<Indented(t, j, LastLine(t[j].w) - got + ChainExpectedIndent(t, i))[j]>>
            IN  Rewrite(t, {i - 1} \cup {j \in nested : Moved(j)}, New)
    IN  ForEach(s, At, Step)
-----------------------------------------------------------------------------
(* MultilineWhitespaceBeforeSemicolons                                     *)
RECURSIVE SemicolonChain(_, _, _)
(* findWhitespaceBeforeFirstCall: the start of the statement, and whether  *)
(* a line ends before one of its calls; 0 is no such line.                 *)
SemicolonChain(s, i, multiline) ==
    LET p == SigPrev(s, i)
        call == PunctIn(s, p, MemberOps)
        q == SigPrev(s, p)
        skip == IF PunctIn(s, p, {")", "]"}) THEN MatchBack(s, p) ELSE IF Kind(s, p, "AttributeEnd") THEN AttributeStartOf(s, p) ELSE 0
        stop == p = 0 \/ Kind(s, p, "OpenTag") \/ PunctIn(s, p, {";", ":", "{", "}"}) \/ Kw(s, p, "else")
    IN  IF stop THEN (IF multiline THEN i ELSE 0)
        ELSE IF skip # 0 THEN SemicolonChain(s, skip + 1, multiline)
        ELSE SemicolonChain(s, p, multiline \/ (call /\ q # 0 /\ Spans(s, q, p)))
PrevValueTokenIndex(s, i) ==
    LET at == LastIn({j \in 2 .. i - 1 : s[j].k \in {"Number", "Ident", "Variable", "String"} \/ Punct(s, j, ")")})
    IN  IF at = 0 THEN i ELSE at
(* InsertAt panics there: two tokens have gone and nothing owns the ";".   *)
SemicolonOutOfRange(s, i) == PrevValueTokenIndex(s, i) = i /\ Len(s) < i + 2
ConstEnd(s, i) == LET e == NextPunct(s, i, {";"}) IN IF e = 0 THEN i ELSE e
MultilineWhitespaceBeforeSemicolons(chained, s) ==
    LET RECURSIVE Go(_, _, _)
        Go(r, i, cleared) ==
            LET t == r.toks
                start == SemicolonChain(t, i, FALSE)
                gone == IF Ws(t, i - 1) THEN 2 ELSE 1
                indent == LineIndent(t, start)
                cut == SubSeq(t, 1, i - gone) \o SubSeq(t, i + 1, Len(t))
                line == FirstIn({j \in i + 1 - gone .. Len(cut) : ~Trivia(cut, j) \/ Spans(cut, j, j)})
                at == IF line = 0 THEN Len(cut) + 1 ELSE line
                value == PrevValueTokenIndex(t, i)
                noted == ReplaceRange(t, i - 1, i, <<>>)
            IN  IF i > Len(t) \/ i + cleared > Len(s) THEN r
                ELSE IF Kw(t, i, "const") THEN Go(r, ConstEnd(t, i) + 1, cleared)
                ELSE IF ~Punct(t, i, ";") \/ i = 1 THEN Go(r, i + 1, cleared)
                ELSE IF chained /\ start # 0
                THEN IF Ws(t, i - 1) /\ t[i - 1].w = <<0, indent>> THEN Go(r, i + 1, cleared)
                     ELSE Go(Result(InsertAt(cut, at, <<Nl(indent), P(";")>>), TRUE), at + 2, cleared + gone)
                ELSE IF ~Broken(t, i - 1) THEN Go(r, i + 1, cleared)
                ELSE IF Comment(t, i - 2) /\ StartsBreak(t, i - 1) /\ ~SemicolonOutOfRange(t, i)
                THEN Go(Result(InsertAt(noted, value + 1, <<P(";")>>), TRUE), i, cleared + 2)
                ELSE Go(Result(ReplaceRange(t, i - 1, i - 1, <<>>), TRUE), i, cleared + 1)
    IN  Go(Unchanged(s), 1, 0)
=============================================================================
