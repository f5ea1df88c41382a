--------------------------- MODULE RulesStatements ---------------------------
(***************************************************************************)
(* The blink rules that walk over whole statements.                        *)
(***************************************************************************)
EXTENDS RulesNames

LOCAL Seqs == INSTANCE SequencesExt
-----------------------------------------------------------------------------
(* statement_indentation: one walk with a stack of scopes.  It edits only  *)
(* the width of the last line of a whitespace, which no question it asks   *)
(* depends on, so the questions are asked of the tokens as they were.  The *)
(* lines inside a comment are left out.                                    *)
DynamicMemberBrace(s, i) == PunctIn(s, SigPrev(s, i), MemberOps)
ArrayKeywordOpen(s, i) == Punct(s, i, "(") /\ Kw(s, SigPrev(s, i), "array")
StmtIsBlockFirst(s, i) ==
    \/ Kind(s, i, "AttributeStart")
    \/ Punct(s, i, "{") /\ ~DynamicMemberBrace(s, i)
    \/ Punct(s, i, "[") /\ IsDestructuringAssignOpen(s, i)
    \/ Punct(s, i, "(") /\ ~ArrayKeywordOpen(s, i)
StmtIsArrayOpen(s, i) ==
    \/ ArrayKeywordOpen(s, i)
    \/ Punct(s, i, "[") /\ IsArrayLiteralOpen(s, i) /\ ~IsDestructuringAssignOpen(s, i)
StmtKeywordIsIdentifierUse(s, i) ==
    LET p == SigPrev(s, i)
        n == SigNext(s, i)
    IN  \/ KwIn(s, p, {"new", "function", "const", "instanceof"}) \/ PunctIn(s, p, MemberOps \cup {"\\"})
        \/ PunctIn(s, p, {"(", ","}) /\ Punct(s, n, ":")
        \/ Punct(s, n, "::")
StmtIsBlockSignatureFirst(s, i) ==
    /\ KwIn(s, i, {"use", "if", "else", "elseif", "for", "foreach", "while", "do", "switch", "case", "default", "try",
                   "class", "interface", "trait", "extends", "implements", "const", "match", "enum"})
    /\ ~StmtKeywordIsIdentifierUse(s, i)
ControlWithoutBraces(s, i) == KwIn(s, i, {"if", "else", "elseif", "for", "foreach", "while", "do"})
StmtPropertyKeywords == {"var", "public", "protected", "private", "static", "readonly"}

(* The first modifier of the run that ends at i, and what is before it.    *)
RECURSIVE ModifierChainStart(_, _), BeforePromotion(_, _)
ModifierChainStart(s, i) ==
    IF KwIn(s, SigPrev(s, i), StmtPropertyKeywords) THEN ModifierChainStart(s, SigPrev(s, i)) ELSE i
BeforePromotion(s, i) ==
    LET p == SigPrevPastAttributes(s, i) IN IF Kw(s, p, "final") THEN BeforePromotion(s, p) ELSE p
StmtIsPropertyStart(s, i) ==
    LET n == SigNext(s, i)
        first == ModifierChainStart(s, i)
    IN  /\ n # 0 /\ ~KwIn(s, n, StmtPropertyKeywords \cup {"const", "function"})
        /\ KwIn(s, i, StmtPropertyKeywords)
        /\ \E j \in first .. i : KwIn(s, j, {"var", "public", "protected", "private"})
        /\ ~PunctIn(s, BeforePromotion(s, first), {"(", ","})

(* The last token of the statement at i, in a scope that ends at parent.   *)
RECURSIVE StatementEndFrom(_, _, _, _, _)
StatementEndFrom(s, i, parent, ifs, dos) ==
    LET c == IF PunctIn(s, i, {"(", "{"}) \/ (Punct(s, i, "[") /\ IsArrayLiteralOpen(s, i)) THEN Match(s, i) ELSE 0
        at == IF c # 0 THEN c ELSE i
        cont == SigNext(s, at)
        closesIf == Kw(s, cont, "else") /\ ~Kw(s, SigNext(s, cont), "if")
    IN  IF i > parent \/ i > Len(s) THEN SigPrev(s, parent)
        ELSE IF Kw(s, i, "if") /\ ~Kw(s, SigPrev(s, i), "else") THEN StatementEndFrom(s, i + 1, parent, ifs + 1, dos)
        ELSE IF Kw(s, i, "do") THEN StatementEndFrom(s, i + 1, parent, ifs, dos + 1)
        ELSE IF (c # 0 /\ Punct(s, i, "{") /\ DynamicMemberBrace(s, i))
                \/ ~(PunctIn(s, at, {";", ",", "}"}) \/ Kind(s, at, "CloseTag"))
             THEN StatementEndFrom(s, at + 1, parent, ifs, dos)
        ELSE IF ifs > 0 /\ KwIn(s, cont, {"else", "elseif"})
             THEN StatementEndFrom(s, cont + 1, parent, IF closesIf THEN ifs - 1 ELSE ifs, dos)
        ELSE IF dos > 0 /\ Kw(s, cont, "while") THEN StatementEndFrom(s, cont + 1, parent, ifs, dos - 1)
        ELSE PrevNonWs(s, at)
StmtFindStatementEndIndex(s, i, parent) == StatementEndFrom(s, i, parent, 0, 0)

(* The comments above a case that are about it: after an empty line, or    *)
(* right below another label.                                              *)
RECURSIVE LeadingComments(_, _, _, _)
LeadingComments(s, j, start, i) ==
    IF j <= 1 THEN i
    ELSE IF Ws(s, j) THEN LeadingComments(s, j - 1, start, i)
    ELSE IF ~Comment(s, j) THEN (IF Punct(s, j, ":") THEN start ELSE i)
    ELSE IF s[j].v = "//nb" \/ ~Broken(s, j - 1) THEN i
    ELSE IF Breaks(s, j - 1) >= 2 THEN j ELSE LeadingComments(s, j - 1, j, i)
StmtLeadingCommentsStart(s, i) == LeadingComments(s, i - 1, i, i)
RECURSIVE FindCaseBlockEnd(_, _)
FindCaseBlockEnd(s, i) ==
    LET brace == SigNext(s, Match(s, SigNext(s, i)))
        skip == IF Punct(s, i, "{") THEN Match(s, i)
                ELSE IF Kw(s, i, "switch") /\ Punct(s, SigNext(s, i), "(") /\ Match(s, SigNext(s, i)) # 0
                        /\ Punct(s, brace, "{") THEN Match(s, brace) ELSE 0
    IN  IF ~Has(s, i) THEN [end |-> Len(s), inclusive |-> FALSE]
        ELSE IF KwIn(s, i, {"case", "default"}) THEN [end |-> StmtLeadingCommentsStart(s, i), inclusive |-> TRUE]
        ELSE IF Punct(s, i, "}") THEN [end |-> PrevNonWs(s, i), inclusive |-> FALSE]
        ELSE FindCaseBlockEnd(s, (IF skip # 0 THEN skip ELSE i) + 1)

(* The head of a declaration or control structure at i, read from e on: up *)
(* to where, and where a body without braces or that of a case starts.     *)
RECURSIVE SignatureFrom(_, _, _, _)
SignatureFrom(s, i, e, a) ==
    LET c == IF Match(s, e) # 0 THEN Match(s, e) ELSE e
        Go(j, b) == SignatureFrom(s, i, j, b)
    IN  IF ~Has(s, e) THEN a
        ELSE IF Punct(s, e, "(") THEN Go(c + 1, [a EXCEPT !.end = c, !.closing = c])
        ELSE IF Punct(s, e, "[") /\ IsArrayLiteralOpen(s, e) THEN Go(c + 1, [a EXCEPT !.end = c])
        ELSE IF PunctIn(s, e, {"{", ";", "=>"}) \/ Kw(s, e, "implements") THEN [a EXCEPT !.end = e]
        ELSE IF Punct(s, e, "?") THEN Go(e + 1, [a EXCEPT !.end = e, !.ternaries = @ + 1])
        ELSE IF Punct(s, e, ":")
             THEN IF a.ternaries > 0 THEN Go(e + 1, [a EXCEPT !.end = e, !.ternaries = @ - 1])
                  ELSE [a EXCEPT !.end = e, !.colon = IF KwIn(s, i, {"case", "default"}) THEN e ELSE 0]
        ELSE IF ~ControlWithoutBraces(s, i) \/ Comment(s, e) THEN Go(e + 1, [a EXCEPT !.end = e])
        ELSE IF Ws(s, e) THEN Go(e + 1, [a EXCEPT !.blank = e])
        ELSE [a EXCEPT !.end = IF a.closing # 0 THEN a.closing ELSE i, !.body = IF a.blank # 0 THEN a.blank ELSE e]
Signature(s, i) == SignatureFrom(s, i, i + 1, [end |-> i, closing |-> 0, ternaries |-> 0, blank |-> 0, body |-> 0, colon |-> 0])
RECURSIVE FunctionHeadEnd(_, _)
FunctionHeadEnd(s, e) ==
    IF ~Has(s, e) \/ PunctIn(s, e, {"{", ";"}) THEN e
    ELSE FunctionHeadEnd(s, (IF Punct(s, e, "(") /\ Match(s, e) # 0 THEN Match(s, e) ELSE e) + 1)

(* indentDecision: whether the line after i is one level deeper.           *)
IndentDecision(stickComment, s, i, scope) ==
    LET newline == FirstIn({j \in i + 1 .. Len(s) : Broken(s, j)})
        first == FirstIn({j \in i + 1 .. (IF newline = 0 THEN Len(s) ELSE newline - 1) : ~Ws(s, j)})
        end == IF scope.inclusive THEN scope.end ELSE scope.end + 1
        brace == SigNext(s, first)
    IN  /\ (first # 0 /\ first < end) \/ (newline # 0 /\ newline < end)
        /\ ~(/\ stickComment /\ Kind(s, first, "Comment") /\ Punct(s, brace, "}")
             /\ ~Punct(s, SigPrev(s, first), "{") /\ KwIn(s, SigNext(s, brace), {"else", "elseif"}))

Scope(kind, end, inclusive, init, new, block) ==
    [kind |-> kind, end |-> end, inclusive |-> inclusive, init |-> init, new |-> new, block |-> block]
RECURSIVE PopScopes(_, _)
PopScopes(scopes, i) == IF scopes # <<>> /\ i >= Seqs!Last(scopes).end THEN PopScopes(Seqs!Front(scopes), i) ELSE scopes
Push(st, scope) == [st EXCEPT !.scopes = Append(@, scope)]

(* The scope that a bracket, a heritage list, an attribute or a case opens. *)
OpenBlock(s, i, st) ==
    LET case == i \in st.cases
        found == IF case THEN FindCaseBlockEnd(s, i)
                 ELSE [end |-> IF Kind(s, i, "AttributeStart") THEN AttributeEnd(s, i) ELSE Match(s, i), inclusive |-> TRUE]
        top == Seqs!Last(st.scopes)
        pushed == Push(st, Scope("block", IF found.end = 0 THEN st.end ELSE found.end, found.inclusive,
                                 IF top.kind = "block_signature" THEN top.init ELSE st.lastIndent, 0, TRUE))
    IN  [pushed EXCEPT !.scopes = PopScopes(@, i)]
OpenSignature(s, i, st, isProp) ==
    LET sig == Signature(s, i)
        scope == Scope("block_signature", sig.end, TRUE, st.lastIndent, 0,
                       isProp \/ KwIn(s, i, {"extends", "implements", "const", "case"}))
    IN  [Push(st, scope) EXCEPT !.bodies = @ \cup ({sig.body} \ {0}), !.cases = @ \cup ({sig.colon} \ {0})]

(* A line break takes the indent of the scope it is in.                    *)
StmtExtractIndent(w) == IF Len(w) > 1 THEN LastLine(w) ELSE 0
StmtReplaceBlockIndent(w, width) == [w EXCEPT ![Len(w)] = width]
StmtReplaceStatementIndent(w, init, new) == IF LastLine(w) >= init THEN [w EXCEPT ![Len(w)] = @ - init + new] ELSE w
IndentLine(stickComment, s, i, st) ==
    LET scope == Seqs!Last(st.scopes)
        deeper == scope.block /\ IndentDecision(stickComment, s, i, scope)
        block == scope.kind \in {"block", "block_signature"}
        wanted == IF block THEN StmtReplaceBlockIndent(s[i].w, scope.init + (IF deeper THEN 4 ELSE 0))
                  ELSE StmtReplaceStatementIndent(s[i].w, scope.init, scope.new)
        new == IF st.template THEN s[i].w ELSE wanted
        lined == [st EXCEPT !.toks = SetAt(@, i, WS(new)), !.lastIndent = StmtExtractIndent(new),
                            !.lineInit = IF block THEN StmtExtractIndent(s[i].w) ELSE @]
    IN  [lined EXCEPT !.lineNew = IF st.template THEN lined.lineInit ELSE IF block THEN StmtExtractIndent(new) ELSE @]
OpenStatement(s, i, st) ==
    LET top == Seqs!Last(st.scopes)
        end == StmtFindStatementEndIndex(s, i, top.end)
    IN  IF top.kind \in {"statement", "block_signature"} \/ end = i THEN st
        ELSE Push(st, Scope("statement", end, FALSE, st.lineInit, st.lineNew, TRUE))

(* What the walk does at token i, where a body without braces may start.   *)
IndentStep(stickComment, s, i, before) ==
    LET html == [before EXCEPT !.template = @ \/ s[i].k = "InlineHTML"]
        body == Scope("block", StmtFindStatementEndIndex(s, i, Len(s)) + 1, TRUE, html.lastIndent, 0, TRUE)
        st == IF i \in html.bodies THEN Push(html, body) ELSE html
        isProp == StmtIsPropertyStart(s, i)
        popped == [st EXCEPT !.scopes = PopScopes(@, i)]
    IN  IF i \in st.cases \/ StmtIsBlockFirst(s, i) THEN OpenBlock(s, i, st)
        ELSE IF StmtIsArrayOpen(s, i)
             THEN Push(st, Scope("statement", Match(s, i), TRUE, st.lineInit, st.lineNew, FALSE))
        ELSE IF isProp \/ StmtIsBlockSignatureFirst(s, i) THEN OpenSignature(s, i, st, isProp)
        ELSE IF Kw(s, i, "function")
             THEN Push(st, Scope("block_signature", FunctionHeadEnd(s, i + 1), TRUE, st.lastIndent, 0, FALSE))
        ELSE IF Ws(s, i) THEN (IF HasNewline(s, i) THEN IndentLine(stickComment, s, i, st) ELSE st)
        ELSE IF \/ popped.scopes = <<>> \/ Comment(s, i) \/ PunctIn(s, i, {";", ",", "}"})
                \/ s[i].k \in {"OpenTag", "CloseTag", "AttributeEnd"} THEN popped
        ELSE OpenStatement(s, i, popped)
StatementIndentation(stickComment, s) ==
    LET end == IF Ws(s, Len(s)) THEN Len(s) - 1 ELSE Len(s)
        start == [toks |-> s, end |-> end, scopes |-> <<Scope("block", end, TRUE, 0, 0, FALSE)>>, lastIndent |-> 0,
                  lineInit |-> 0, lineNew |-> 0, bodies |-> {}, cases |-> {}, template |-> FALSE]
        RECURSIVE Walk(_, _)
        Walk(st, i) == IF i > Len(s) \/ st.scopes = <<>> THEN st.toks ELSE Walk(IndentStep(stickComment, s, i, st), i + 1)
        toks == Walk(start, 1)
    IN  Result(toks, toks # s)
-----------------------------------------------------------------------------
(* static_lambda: backward; the strings of the model interpolate nothing.  *)
RefersToThis(s, i) ==
    \/ Kind(s, i, "Variable") /\ Lower(s[i].v) = "$this"
    \/ Kind(s, i, "Variable") /\ s[i].v = "$" /\ (Kind(s, SigNext(s, i), "Variable") \/ Punct(s, SigNext(s, i), "{"))
    \/ KwIn(s, i, IncludeKeywords)
    \/ IsConstruct(s, i, {"eval"}) \/ (Kind(s, i, "Ident") /\ Lower(s[i].v) = "parent")
RECURSIVE HasPossibleReferenceToThis(_, _, _)
HasPossibleReferenceToThis(s, i, end) ==
    IF i > end \/ i > Len(s) THEN FALSE
    ELSE IF RefersToThis(s, i) THEN TRUE
    ELSE IF ~IsClassy(s, i) THEN HasPossibleReferenceToThis(s, i + 1, end)
    ELSE LET open == NextPunct(s, i, {"{"})
             n == SigNext(s, i)
         IN  /\ open # 0
             /\ \/ n # 0 /\ n <= open /\ HasPossibleReferenceToThis(s, n, open)
                \/ Match(s, open) # 0 /\ HasPossibleReferenceToThis(s, Match(s, open) + 1, end)
ClosesIndex(s, i) == Punct(s, i, "]") /\ MatchBack(s, i) # 0 /\ ~IsArrayLiteralOpen(s, MatchBack(s, i))
IsDirectSubjectOfBinding(s, lambda, end) ==
    LET close == SigNext(s, end)
        wrap == MatchBack(s, close)
        before == SigPrev(s, wrap)
        op == SigNext(s, close)
        method == SigNext(s, op)
    IN  /\ Punct(s, close, ")") /\ wrap # 0 /\ SigNext(s, wrap) = lambda
        /\ ~(Punct(s, before, ")") \/ ClosesIndex(s, before) \/ TString(s, before)
             \/ (Kind(s, before, "Variable") /\ s[before].v # "$"))
        /\ PunctIn(s, op, {"->", "?->"}) /\ TString(s, method) /\ Lower(s[method].v) \in {"bindto", "call"}
MayBeStatic(s, i) ==
    LET args == Match(s, NextPunct(s, i, {"("}))
        open == NextPunct(s, args, IF Kw(s, i, "fn") THEN {"=>"} ELSE {"{"})
        end == IF Kw(s, i, "fn") THEN ArrowBodyEnd(s, i) ELSE Match(s, open)
    IN  /\ KwIn(s, i, {"function", "fn"}) /\ IsLambda(s, i) /\ ~Kw(s, SigPrev(s, i), "static")
        /\ args # 0 /\ open # 0 /\ end # 0
        /\ ~HasPossibleReferenceToThis(s, open, end) /\ ~IsDirectSubjectOfBinding(s, i, end)
StaticLambda(s) ==
    LET RECURSIVE Go(_, _)
        Go(r, i) == IF i < 2 THEN r
                    ELSE IF ~MayBeStatic(r.toks, i) THEN Go(r, i - 1)
                    ELSE Go(Result(InsertAt(r.toks, i, <<Tok("Keyword", "static"), Sp>>), TRUE), i - 5)
    IN  Go(Unchanged(s), Len(s) - 3)
-----------------------------------------------------------------------------
(* combine_consecutive: what is merged is cleared where it was.  An isset  *)
(* whose "&&" ends the file makes the code scan for ever; no file that     *)
(* parses has one, and the model stops there.                              *)
ClearAll(s, at) == Seqs!FoldLeft(ClearAndMerge, s, at)
IssetInfo(s, i) == SignificantIn(s, SigNext(s, i), Match(s, SigNext(s, i)))
IssetPrevAllowed(s, i) == Kind(s, i, "OpenTag") \/ PunctIn(s, i, {"(", "{", ";", "=", "&&", "||"})
IssetNextAllowed(s, i) == Kind(s, i, "CloseTag") \/ PunctIn(s, i, {")", "}", ";", "&&", "||"})
CombineConsecutiveIssets(s) ==
    LET RECURSIVE Scan(_, _), Absorb(_, _, _)
        Absorb(t, close, insert) ==
            LET and == SigNext(t, close)
                next == SigNext(t, and)
                info == IssetInfo(t, next)
                after == SigNext(t, info[Len(info)])
                clones == <<P(","), Sp>> \o [k \in 1 .. Len(info) - 2 |-> t[info[k + 1]]]
                cleared == ClearAndMerge(ClearAndMerge(ClearAll(t, info), next), and)
            IN  IF ~Punct(t, and, "&&") THEN [toks |-> t, at |-> 0]
                ELSE IF ~Kw(t, next, "isset") THEN [toks |-> t, at |-> IF next = 0 THEN Len(t) ELSE next]
                ELSE IF ~IssetNextAllowed(t, after) THEN [toks |-> t, at |-> IF after = 0 THEN Len(t) ELSE after]
                ELSE Absorb(InsertAt(cleared, insert, clones), close + Len(clones), insert + Len(clones))
        Scan(t, i) ==
            LET info == IssetInfo(t, i)
                r == Absorb(t, info[Len(info)], info[Len(info) - 1] + 1)
            IN  IF i > Len(t) THEN t
                ELSE IF ~(Kw(t, i, "isset") /\ IssetPrevAllowed(t, SigPrev(t, i))) THEN Scan(t, i + 1)
                ELSE Scan(r.toks, IF r.at = 0 THEN i + 1 ELSE r.at + 1)
    IN  LET after == Scan(s, 2) IN Result(ClearEmptyTokens(after), Compared(s, after).changed)

(* PreviousCall: the unset before the one at i, or how far back the scan   *)
(* goes.  The semicolon is looked for from the place the ")" had before    *)
(* the arguments moved.                                                    *)
PreviousUnsetCall(s, i) ==
    LET semi == SigPrev(s, i)
        close == SigPrev(s, semi)
        call == SigPrev(s, MatchBack(s, close))
        Back(to) == [found |-> FALSE, close |-> 0, at |-> to]
    IN  IF semi = 0 THEN Back(i) ELSE IF ~Punct(s, semi, ";") THEN Back(semi)
        ELSE IF close = 0 THEN Back(i) ELSE IF ~Punct(s, close, ")") THEN Back(close)
        ELSE IF call = 0 THEN Back(i) ELSE [found |-> Kw(s, call, "unset"), close |-> close, at |-> call]
MoveTokens(s, open, end, to) ==
    InsertAt([j \in DOMAIN s |-> IF j > open /\ j < end THEN Cleared ELSE s[j]], to, SubSeq(s, open + 1, end - 1))
MergeUnset(s, i, close) ==
    LET open == NextPunct(s, i, {"("})
        end == Match(s, open)
        moved == MoveTokens(s, open, end, close)
        spaced == IF Ws(moved, close) THEN moved ELSE InsertAt(moved, close, <<Sp>>)
        before == SigPrev(spaced, close)
        listed == IF ~Punct(spaced, before, ",") THEN InsertAt(spaced, close, <<P(",")>>)
                  ELSE IF Ws(spaced, before + 1) THEN ClearAndMerge(spaced, before + 1) ELSE spaced
        added == Len(listed) - Len(s)
        bare == ClearAll(listed, <<i + added, open + added, end + added>>)
        semi == SigNext(bare, end)
    IN  IF Punct(bare, semi, ";") THEN ClearAndMerge(bare, semi) ELSE bare
CombineConsecutiveUnsets(s) ==
    LET RECURSIVE Go(_, _)
        Go(t, i) == LET p == PreviousUnsetCall(t, i)
                    IN  IF i < 1 THEN t
                        ELSE IF ~Kw(t, i, "unset") THEN Go(t, i - 1)
                        ELSE IF p.found THEN Go(MergeUnset(t, i, p.close), p.at) ELSE Go(t, p.at - 1)
    IN  LET after == Go(s, Len(s)) IN Result(ClearEmptyTokens(after), Compared(s, after).changed)
-----------------------------------------------------------------------------
(* void_return: DocReturns says of a doc comment whether it has a @return, *)
(* of "void" or of another type.                                           *)
NonVoidMagic == {"__clone", "__construct", "__debuginfo", "__destruct", "__isset", "__serialize", "__set_state", "__sleep",
                 "__tostring"}
DocReturns == ("/**@return void*/" :> "void") @@ ("/**@return int*/" :> "other")
RECURSIVE BeforeModifiers(_, _), HasVoidReturn(_, _, _)
BeforeModifiers(s, i) ==
    LET p == PrevNonWs(s, i)
        q == IF Kind(s, p, "AttributeEnd") THEN AttributeStartOf(s, p) ELSE p
    IN  IF Kind(s, q, "AttributeStart") \/ KwIn(s, q, {"public", "protected", "private", "final", "abstract", "static"})
        THEN BeforeModifiers(s, q) ELSE q
HasReturnAnnotation(s, i, types) ==
    LET d == BeforeModifiers(s, i) IN Kind(s, d, "DocComment") /\ s[d].v \in DOMAIN DocReturns /\ DocReturns[s[d].v] = types
SignatureClose(s, i, start) ==
    LET close == Match(s, NextPunct(s, i, {"("}))
        use == SigNext(s, close)
        useClose == Match(s, SigNext(s, use))
    IN  IF close = 0 \/ close > start THEN 0
        ELSE IF Kw(s, use, "use") /\ Punct(s, SigNext(s, use), "(") /\ useClose # 0 /\ useClose < start THEN useClose
        ELSE close
HasVoidReturn(s, i, end) ==
    LET body == NextPunct(s, i, {"{"})
        nested == (Kw(s, i, "class") /\ ~IsNamedArgument(s, i) /\ IsAnonymousClass(s, i)) \/ (Kw(s, i, "function") /\ IsLambda(s, i))
    IN  CASE i >= end -> TRUE
          [] i < end /\ nested -> Match(s, body) = 0 \/ HasVoidReturn(s, Match(s, body) + 1, end)
          [] i < end /\ ~nested -> /\ ~KwIn(s, i, {"yield", "yield from"})
                                   /\ Kw(s, i, "return") => Punct(s, SigNext(s, i), ";")
                                   /\ HasVoidReturn(s, IF Kw(s, i, "return") THEN SigNext(s, i) + 1 ELSE i + 1, end)
VoidReturn(skipLambda, s) ==
    LET Start(t, i) == NextPunct(t, i, {"{", ";"})
        At(t, i) ==
            LET name == SigNext(t, i)
                end == SignatureClose(t, i, Start(t, i))
            IN  /\ Kw(t, i, "function") /\ ~(skipLambda /\ IsLambda(t, i))
                /\ ~(TString(t, name) /\ Lower(t[name].v) \in NonVoidMagic)
                /\ Start(t, i) # 0 /\ end # 0 /\ ~Punct(t, SigNext(t, end), ":")
                /\ IF Punct(t, Start(t, i), ";") THEN HasReturnAnnotation(t, i, "void")
                   ELSE /\ ~HasReturnAnnotation(t, i, "other") /\ Match(t, Start(t, i)) # 0
                        /\ HasVoidReturn(t, Start(t, i), Match(t, Start(t, i)))
        AddVoid(t, i) == Result(InsertAt(t, SignatureClose(t, i, Start(t, i)) + 1, <<P(":"), Sp, Tok("Ident", "void")>>), TRUE)
    IN  ForEachBack(s, At, AddVoid)
-----------------------------------------------------------------------------
(* return_assignment, over docs that name no variable.                     *)
LetsScopeChange(s, i) ==
    \/ Punct(s, i, "&") \/ KwIn(s, i, IncludeKeywords \cup {"global"})
    \/ Kw(s, i, "static") /\ ~Kw(s, SigNext(s, i), "function")
    \/ Kind(s, i, "Ident") /\ Lower(s[i].v) = "eval"
    \/ Kind(s, i, "Variable") /\ s[i].v \in SuperGlobalNames \cup {"$"}
VariableWithin(s, name, open, close) == \E j \in open + 1 .. close - 1 : Kind(s, j, "Variable") /\ s[j].v = name
RECURSIVE UsedByHandlers(_, _, _, _), BeforeGroups(_, _)
UsedByHandlers(s, i, name, end) ==
    LET open == NextPunct(s, i, {"{"})
        close == Match(s, open)
    IN  CASE Kw(s, i, "catch") -> close # 0 /\ close < end
                                  /\ (VariableWithin(s, name, open, close) \/ UsedByHandlers(s, SigNext(s, close), name, end))
          [] Kw(s, i, "finally") -> i < end /\ close # 0 /\ VariableWithin(s, name, open, close)
          [] OTHER -> FALSE
IsUsedInCatchOrFinally(s, v, open, end) ==
    LET try == LastIn({j \in 1 .. v - 1 : Kw(s, j, "try")})
        close == Match(s, NextPunct(s, try, {"{"}))
    IN  try > open /\ close # 0 /\ UsedByHandlers(s, SigNext(s, close), s[v].v, end)
(* Over the "(...)" groups an assigned value ends with; 0 on one unopened. *)
BeforeGroups(s, i) ==
    LET p == SigPrev(s, i) IN IF ~Punct(s, p, ")") THEN i ELSE IF MatchBack(s, p) = 0 THEN 0 ELSE BeforeGroups(s, MatchBack(s, p))
ClearIfSave(s, i) == IF Comment(s, i) \/ (Ws(s, i) /\ Comment(s, PrevNonWs(s, i))) THEN s ELSE ClearAndMerge(s, i)
ClearEach(s, from, to) == Seqs!FoldLeft(ClearIfSave, s, [k \in 1 .. to - from + 1 |-> from + k - 1])
SimplifyReturnStatement(s, var, eq, ret, end) ==
    LET ended == ClearEach(IF Punct(s, end, ";") THEN ClearAndMerge(s, end) ELSE s, ret, end - 1)
        LastBreak(w) == WS(IF Len(w) = 1 THEN <<1>> ELSE <<0, LastLine(w)>>)
        dented == IF Ws(ended, ret - 1) THEN SetAt(ended, ret - 1, LastBreak(ended[ret - 1].w)) ELSE ended
        returned == InsertAt(ClearEach(dented, var, eq), var, <<Tok("Keyword", "return")>>)
        kept == IF Ws(s, var - 1) /\ Ws(returned, var - 1) THEN SetAt(returned, var - 1, s[var - 1]) ELSE returned
        n == FirstIn({j \in var + 1 .. Len(kept) : NonEmpty(kept[j])})
    IN  IF n # 0 /\ ~Ws(kept, n) THEN InsertAt(kept, n, <<Sp>>) ELSE kept
PrevStatementOrAssign(s, i) == LastIn({j \in 1 .. i - 1 : Kind(s, j, "OpenTag") \/ PunctIn(s, j, {"=", ";", "{", "}"})})
SameVariable(s, i, j) == Kind(s, i, "Variable") /\ Kind(s, j, "Variable") /\ Lower(s[i].v) = Lower(s[j].v)
SimplifyCandidate(s, ret, open, close) ==
    LET v == SigNext(s, ret)
        end == SigNext(s, v)
        semi == SigPrev(s, ret)
        value == BeforeGroups(s, semi)
        eq == PrevStatementOrAssign(s, value)
        var == SigPrev(s, eq)
    IN  IF /\ Kind(s, v, "Variable") /\ EndsStatement(s, end) /\ Punct(s, semi, ";") /\ value # 0 /\ Punct(s, eq, "=")
           /\ SameVariable(s, var, v) /\ PunctIn(s, SigPrev(s, var), {";", "{", "}"})
           /\ ~IsUsedInCatchOrFinally(s, v, open, close)
        THEN SimplifyReturnStatement(s, var, eq, ret, end) ELSE s

(* One function body: the nested ones first, then, when nothing lets the   *)
(* scope change, its returns from the last on.  The end of the body is not *)
(* moved while they are simplified.                                        *)
RECURSIVE ScanBody(_, _), FixFunction(_, _, _, _)
ScanBody(b, i) ==
    LET s == b.toks
        open == NextPunct(s, i, {"{", ";"})
        close == Match(s, open)
        inner == FixFunction(s, i, open, close)
        added == Len(inner) - Len(s)
        nested == Kw(s, i, "function")
    IN  IF i >= b.end \/ (nested /\ (open = 0 \/ (Punct(s, open, "{") /\ close = 0))) THEN b
        ELSE IF nested /\ Punct(s, open, ";") THEN ScanBody(b, open)
        ELSE IF nested THEN ScanBody([b EXCEPT !.toks = inner, !.end = b.end + added], close + added + 1)
        ELSE ScanBody([b EXCEPT !.risky = b.risky \/ LetsScopeChange(s, i),
                                !.returns = IF Kw(s, i, "return") THEN <<i>> \o b.returns ELSE b.returns], i + 1)
FixFunction(s, fn, open, close) ==
    LET byRef == \E j \in fn + 1 .. open - 1 : Punct(s, j, "&")
        b == ScanBody([toks |-> s, end |-> close, risky |-> byRef, returns |-> <<>>], open + 1)
        Simplify(t, ret) == SimplifyCandidate(t, ret, open, b.end)
    IN  IF b.risky THEN b.toks ELSE Seqs!FoldLeft(Simplify, b.toks, b.returns)
ReturnAssignment(s) ==
    LET RECURSIVE Settle(_, _, _, _), Go(_, _)
        Settle(t, fn, open, close) ==
            LET n == FixFunction(t, fn, open, close)
            IN  IF Len(n) = Len(t) THEN [toks |-> t, end |-> close] ELSE Settle(n, fn, open, close + Len(n) - Len(t))
        Go(t, i) ==
            LET open == NextPunct(t, i, {"{", ";"})
                r == Settle(t, i, open, Match(t, open))
            IN  IF i > Len(t) THEN t
                ELSE IF ~Kw(t, i, "function") \/ Punct(t, SigNext(t, i), "&") \/ open = 0 THEN Go(t, i + 1)
                ELSE IF Punct(t, open, ";") THEN Go(t, open)
                ELSE IF Match(t, open) = 0 THEN Go(t, i + 1) ELSE Go(r.toks, r.end + 1)
        after == Go(s, 2)
    IN  Result(ClearEmptyTokens(after), Len(after) > Len(s))
ReturnAssignmentCandidate(s) == HasKind(s, "Variable") /\ \A w \in {"function", "return"} : \E i \in DOMAIN s : Kw(s, i, w)
-----------------------------------------------------------------------------
(* self_static_accessor: the nearest class-like brace around decides.      *)
IsFinalClassLike(s, kw) ==
    LET last == LastIn({j \in 1 .. kw - 1 : ~Trivia(s, j) /\ ~KwIn(s, j, {"abstract", "readonly"})})
    IN  Kw(s, kw, "enum") \/ (kw # 0 /\ Kw(s, last, "final"))
RECURSIVE EnclosingFinalClassLike(_, _)
EnclosingFinalClassLike(s, i) ==
    LET b == EnclosingBrace(s, i)
        c == ClassifyBrace(s, b)
    IN  b # 0 /\ IF c[1] = "class" THEN IsFinalClassLike(s, c[2]) ELSE EnclosingFinalClassLike(s, b)
IsStaticAccessor(s, i) == Punct(s, SigNext(s, i), "::") \/ Kw(s, SigPrev(s, i), "new")
SelfStaticAccessor(s) ==
    LET at == {i \in DOMAIN s : Kw(s, i, "static") /\ IsStaticAccessor(s, i) /\ EnclosingFinalClassLike(s, i)}
        Self(i) == <<[s[i] EXCEPT !.v = "self"]>>
    IN  Rewrite(s, at, Self)
-----------------------------------------------------------------------------
(* no_unset_on_property: the arguments from the last to the first.  The    *)
(* keyword before a first property is looked for in small letters only.    *)
UnsetArguments(s, open) ==
    LET close == Match(s, open)
        seps == SelectSeq([j \in DOMAIN s |-> j], LAMBDA j : j \in Separators(s, open))
        last == IF Punct(s, SigPrev(s, close), ",") THEN SigPrev(s, close) ELSE close
        bounds == <<open>> \o seps \o <<last>>
    IN  IF open = 0 \/ close = 0 \/ SigNext(s, open) = close THEN <<>>
        ELSE [k \in 1 .. Len(bounds) - 1 |-> [from |-> SigNext(s, bounds[k]), to |-> SigPrev(s, bounds[k + 1])]]
AfterClassName(s, i) ==
    FirstIn({j \in i + 1 .. Len(s) : ~Trivia(s, j) /\ ~Kind(s, j, "Ident") /\ ~PunctIn(s, j, {"::", "\\"})})
IsUnsetProperty(s, a) ==
    LET arrow == SigNext(s, a.from)
        object == Kind(s, a.from, "Variable") /\ s[a.from].v # "$"
        class == Kind(s, a.from, "Ident") \/ Punct(s, a.from, "\\")
        name == IF object THEN SigNext(s, arrow) ELSE AfterClassName(s, a.from)
        ends == name # 0 /\ (SigNext(s, name) = 0 \/ SigNext(s, name) >= a.to)
    IN  \/ object /\ Punct(s, arrow, "->") /\ ends /\ Kind(s, name, "Ident")
        \/ ~object /\ class /\ ends /\ Kind(s, name, "Variable") /\ s[name].v # "$"
UpdateUnset(s, a, first, last) ==
    LET property == IsUnsetProperty(s, a)
        open == PrevPunct(s, a.from, {"("})
        call == LastIn({j \in 1 .. open - 1 : s[j] = Tok("Keyword", "unset")})
        close == NextPunct(s, a.to, {")"})
        comma == NextPunct(s, a.to, {","})
        opened == IF first /\ property THEN ClearAll(s, SelectSeq(<<open, call>>, LAMBDA j : j # 0)) ELSE s
        trailing == IF Punct(opened, SigPrev(opened, close), ",") THEN <<SigPrev(opened, close)>> ELSE <<>>
        closed == IF last /\ property THEN ClearAll(opened, Append(trailing, close)) ELSE opened
        parted == IF ~last /\ comma # 0 THEN SetAt(closed, comma, P(";")) ELSE closed
        ended == IF property \/ last THEN parted ELSE InsertAt(parted, a.to + 1, <<P(")")>>)
    IN  IF property THEN InsertAt(ended, a.to + 1, <<Sp, P("="), Sp, Tok("Ident", "null")>>)
        ELSE IF first THEN ended ELSE InsertAt(ended, a.from, <<Tok("Keyword", "unset"), P("(")>>)
NoUnsetOnProperty(s) ==
    LET Split(t, i) ==
            LET args == UnsetArguments(t, NextPunct(t, i, {"("}))
                Update(u, k) == UpdateUnset(u, args[k], k = 1, k = Len(args))
                FromLast == [k \in DOMAIN args |-> Len(args) + 1 - k]
            IN  IF \E k \in DOMAIN args : IsUnsetProperty(t, args[k])
                THEN Result(Seqs!FoldLeft(Update, t, FromLast), TRUE) ELSE Unchanged(t)
        Unset(t, i) == Kw(t, i, "unset")
        after == ForEachBack(s, Unset, Split).toks
    IN  Result(ClearEmptyTokens(after), Compared(s, after).changed)
-----------------------------------------------------------------------------
(* ordered_interfaces.                                                     *)
InterfaceGroups(ts) ==
    LET commas == SelectSeq([j \in DOMAIN ts |-> j], LAMBDA j : Punct(ts, j, ","))
        bounds == <<0>> \o commas \o <<Len(ts) + 1>>
    IN  [k \in 1 .. Len(bounds) - 1 |-> SubSeq(ts, bounds[k] + 1, bounds[k + 1] - 1)]
InterfaceSortKey(g) ==
    LET from == FirstIn({j \in DOMAIN g : ~Trivia(g, j)})
        end == FirstIn({j \in DOMAIN g : j > from /\ Trivia(g, j)} \cup {Len(g) + 1})
        Spaced(t) == IF t = P("\\") THEN Sp ELSE t
    IN  IF from = 0 THEN "" ELSE TextOf([k \in 1 .. end - from |-> Spaced(g[from + k - 1])])
OrderedInterfaces(length, descend, caseSensitive, s) ==
    LET At(t, i) == \/ Kw(t, i, "implements")
                    \/ Kw(t, i, "extends") /\ Kw(t, SigPrev(t, SigPrev(t, i)), "interface")
        Sorted(t, i) ==
            LET end == SigPrev(t, NextPunct(t, i + 1, {"{"}))
                groups == InterfaceGroups(SubSeq(t, i + 1, end))
                Key(k) == InterfaceSortKey(groups[k])
                Less(a, b) == IF length THEN Len(Key(a)) < Len(Key(b)) ELSE SpelledBefore(Key(a), Key(b), ~caseSensitive)
                Before(a, b) == IF descend THEN Less(b, a) ELSE Less(a, b)
                order == SortSeq([k \in DOMAIN groups |-> k], LAMBDA a, b : Before(a, b) \/ (~Before(b, a) /\ a < b))
                Slot(k) == IF k = 1 THEN groups[order[k]] ELSE <<P(",")>> \o groups[order[k]]
                list == Seqs!FlattenSeq([k \in DOMAIN groups |-> Slot(k)])
            IN  IF end < i + 1 \/ \A k \in DOMAIN order : order[k] = k THEN Unchanged(t)
                ELSE Result(ReplaceRange(t, i + 1, end, list), TRUE)
    IN  ForEach(s, At, Sorted)
-----------------------------------------------------------------------------
(* static_private_method: until no class changes.  A method's own calls of *)
(* itself are known by its name in small letters only.                     *)
NextAfterAnonymous(s, i) == LET c == Match(s, NextPunct(s, i, {"{"})) IN IF c = 0 THEN i + 1 ELSE c + 1
IsAnonymousClassKw(s, i) == Kw(s, i, "class") /\ ~IsNamedArgument(s, i) /\ IsAnonymousClass(s, i)
RECURSIVE MethodModifiers(_, _), MethodsBack(_, _, _), TouchesInstance(_, _, _, _), ThisCalls(_, _, _, _)
MethodModifiers(s, i) ==
    LET p == SigPrev(s, i)
    IN  IF KwIn(s, p, {"public", "protected", "private", "final", "abstract", "static"}) THEN {p} \cup MethodModifiers(s, p) ELSE {}
MethodsBack(s, i, open) ==
    LET body == NextPunct(s, i, {"{"})
        method == [fn |-> i, open |-> body, close |-> Match(s, body)]
    IN  IF i <= open + 1 THEN <<>>
        ELSE IF Punct(s, i, "}") THEN MethodsBack(s, (IF MatchBack(s, i) > open THEN MatchBack(s, i) ELSE i) - 1, open)
        ELSE (IF Kw(s, i, "function") /\ Match(s, body) # 0 /\ ~\E m \in MethodModifiers(s, i) : Kw(s, m, "abstract")
              THEN <<method>> ELSE <<>>) \o MethodsBack(s, i - 1, open)
ThisCall(s, i) == Kind(s, i, "Variable") /\ s[i].v = "$this" /\ Punct(s, SigNext(s, i), "->")
                  /\ Punct(s, SigNext(s, SigNext(s, SigNext(s, i))), "(")
CalledName(s, i) == s[SigNext(s, SigNext(s, i))].v
TouchesInstance(s, i, end, name) ==
    CASE i >= end -> FALSE
      [] i < end /\ IsAnonymousClassKw(s, i) -> TouchesInstance(s, NextAfterAnonymous(s, i), end, name)
      [] i < end /\ ~IsAnonymousClassKw(s, i) ->
            \/ Kw(s, i, "function") \/ (Kind(s, i, "Ident") /\ s[i].v = "debug_backtrace")
            \/ Kind(s, i, "Variable") /\ s[i].v = "$this" /\ ~(ThisCall(s, i) /\ CalledName(s, i) = name)
            \/ TouchesInstance(s, i + 1, end, name)
SkipMethod(s, m) ==
    LET name == Lower(s[SigNext(s, m.fn)].v)
        before == SigPrev(s, m.fn)
        private == IF Kw(s, before, "final") THEN SigPrev(s, before) ELSE before
    IN  \/ name \in {"__clone", "__construct", "__destruct", "__wakeup"}
        \/ ~Kw(s, private, "private") \/ Kw(s, SigPrev(s, private), "static")
        \/ TouchesInstance(s, m.open + 1, m.close - 1, name)
ThisCalls(s, i, end, names) ==
    LET open == NextPunct(s, i, {"{"})
    IN  CASE i >= end -> {}
          [] i < end /\ Kw(s, i, "function") /\ Match(s, open) # 0 ->
                (IF Kw(s, SigPrev(s, i), "static") THEN {} ELSE ThisCalls(s, open + 1, Match(s, open) - 1, names))
                \cup ThisCalls(s, Match(s, open) + 1, end, names)
          [] i < end /\ IsAnonymousClassKw(s, i) -> ThisCalls(s, NextAfterAnonymous(s, i), end, names)
          [] OTHER -> {j \in {i} : ThisCall(s, j) /\ CalledName(s, j) \in names} \cup ThisCalls(s, i + 1, end, names)
FixClass(s, open) ==
    LET Methods(t) == MethodsBack(t, Match(t, open) - 1, open)
        Make(a, m) == IF SkipMethod(a.toks, m) THEN a
                      ELSE [toks |-> InsertAt(a.toks, m.fn, <<Tok("Keyword", "static"), Sp>>),
                            names |-> a.names \cup {s[SigNext(s, m.fn)].v}]
        made == Seqs!FoldLeft(Make, [toks |-> s, names |-> {}], Methods(s))
        t == made.toks
        again == Methods(t)
        calls == UNION {ThisCalls(t, again[k].open + 1, again[k].close - 1, made.names) : k \in DOMAIN again}
        operators == {SigNext(t, i) : i \in calls}
    IN  IF made.names = {} THEN s
        ELSE [j \in DOMAIN t |-> IF j \in calls THEN Tok("Ident", "self") ELSE IF j \in operators THEN P("::") ELSE t[j]]
RECURSIVE StaticPrivateMethod(_)
StaticPrivateMethod(s) ==
    LET At(t, i) == i > 1 /\ i < Len(t) - 1 /\ Kw(t, i, "class") /\ ~IsNamedArgument(t, i) /\ Match(t, NextPunct(t, i, {"{"})) # 0
        Fix(t, i) == LET u == FixClass(t, NextPunct(t, i, {"{"})) IN Result(u, u # t)
        sweep == ForEachBack(s, At, Fix)
    IN  IF sweep.changed THEN Result(StaticPrivateMethod(sweep.toks).toks, TRUE) ELSE sweep
-----------------------------------------------------------------------------
(* no_unneeded_final_method: taClassyMethods gives the functions right in  *)
(* the body of a class.                                                    *)
OwningClass(s, fn) == LET c == ClassifyBrace(s, EnclosingBrace(s, fn)) IN IF c[1] = "class" THEN c[2] ELSE 0
FinalOf(s, fn) == FirstIn({m \in MethodModifiers(s, fn) : Kw(s, m, "final")})
ClassyIsFinal(s, c) == Kw(s, LastIn({j \in 1 .. c - 1 : ~Trivia(s, j) /\ ~KwIn(s, j, {"abstract", "readonly"})}), "final")
FinalMethodCandidate(s) ==
    /\ \A w \in {"final", "function"} : \E i \in DOMAIN s : Kw(s, i, w)
    /\ \E i \in DOMAIN s : KwIn(s, i, {"class", "enum"}) /\ IsClassy(s, i)
NoUnneededFinalMethod(keepPrivate, s) ==
    LET methods == {i \in DOMAIN s : Kw(s, i, "function") /\ ~Punct(s, SigNext(s, i), "(") /\ EnclosingBrace(s, i) # 0 /\ OwningClass(s, i) # 0}
        Private(i) == /\ ~keepPrivate /\ \E m \in MethodModifiers(s, i) : Kw(s, m, "private")
                      /\ Lower(s[SigNext(s, i)].v) # "__construct"
        Useless(i) == Kw(s, OwningClass(s, i), "enum") \/ ClassyIsFinal(s, OwningClass(s, i)) \/ Private(i)
        finals == {FinalOf(s, i) : i \in {i \in methods : FinalOf(s, i) # 0 /\ Useless(i)}}
    IN  IF FinalMethodCandidate(s) THEN Drop(s, finals \cup {f + 1 : f \in {f \in finals : Ws(s, f + 1)}}) ELSE Unchanged(s)
-----------------------------------------------------------------------------
(* no_unreachable_default_argument_value: backward over the functions; the *)
(* arguments are read before any default goes.                             *)
LevelWith(s, j, open) == Count(s, j, Openers) - Count(s, j, Closers) = Count(s, open, Openers) - Count(s, open, Closers)
AnalyzeArg(s, from, to, open) ==
    LET name == FirstIn({j \in from .. to : Kind(s, j, "Variable") /\ LevelWith(s, j, open)})
        eq == FirstIn({j \in name + 1 .. to : Punct(s, j, "=") /\ LevelWith(s, j, open)})
        type == {j \in from .. name - 1 : ~Trivia(s, j) /\ ~PunctIn(s, j, {"&", "..."})}
        value == {j \in eq + 1 .. to : ~Trivia(s, j)}
    IN  [name |-> name, eq |-> IF name = 0 THEN 0 ELSE eq, end |-> LastIn(value \cup {eq}),
         variadic |-> SigPrev(s, name) >= from /\ Punct(s, SigPrev(s, name), "..."),
         nullDefault |-> Cardinality(value) = 1 /\ \A j \in value : s[j].k \in {"Ident", "Keyword"} /\ Lower(s[j].v) = "null",
         notNullable |-> type # {} /\ ~\E j \in type : Punct(s, j, "?") \/ (Kind(s, j, "Ident") /\ Lower(s[j].v) = "null")]
ParseArgs(s, open) ==
    LET commas == SelectSeq([j \in DOMAIN s |-> j],
                            LAMBDA j : j > open /\ j < Match(s, open) /\ Punct(s, j, ",") /\ LevelWith(s, j, open))
        bounds == <<open>> \o commas \o <<Match(s, open)>>
        all == [k \in 1 .. Len(bounds) - 1 |-> AnalyzeArg(s, bounds[k] + 1, bounds[k + 1] - 1, open)]
    IN  SelectSeq(all, LAMBDA a : a.name # 0 /\ ~a.variadic)
NoUnreachableDefaultArgumentValue(s) ==
    LET At(t, i) == KwIn(t, i, {"function", "fn"}) /\ Match(t, NextPunct(t, i, {"("})) # 0
        FixDefaults(t, i) ==
            LET args == ParseArgs(t, NextPunct(t, i, {"("}))
                gone == {k \in DOMAIN args : /\ args[k].eq # 0 /\ \E n \in k + 1 .. Len(args) : args[n].eq = 0
                                             /\ ~(args[k].nullDefault /\ args[k].notNullable)}
                Before(k) == {j \in {args[k].eq - 1} : Ws(t, j) /\ PrevNonWs(t, j) # 0 /\ ~Kind(t, PrevNonWs(t, j), "Comment")}
            IN  Drop(t, UNION {(args[k].eq .. args[k].end) \cup Before(k) : k \in gone})
    IN  ForEachBack(s, At, FixDefaults)
=============================================================================
