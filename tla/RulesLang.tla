------------------------------ MODULE RulesLang ------------------------------
(***************************************************************************)
(* The blink rules about statements, expressions and how words are spelled.*)
(***************************************************************************)
EXTENDS RulesTypes

LOCAL Seqs == INSTANCE SequencesExt
-----------------------------------------------------------------------------
(* no_unneeded_control_parentheses                                         *)
NucpStatementKey(w) ==
    CASE w \in {"echo", "print"} -> "echo_print" [] w = "case" -> "switch_case" [] OTHER -> w
ParenStatements == {"return", "echo_print", "yield", "break", "continue", "switch_case", "clone"}

(* removeParenthesis: a blank instead, where nothing else parts the tokens. *)
RemoveParenthesis(s, i, needsSpace) ==
    IF needsSpace /\ ~Trivia(s, i - 1) /\ ~Trivia(s, i + 1) THEN SetAt(s, i, Sp)
    ELSE IF Ws(s, i - 1) /\ Ws(s, i + 1)
         THEN ReplaceRange(s, i - 1, i + 1, <<WS(JoinWs(s[i - 1].w, s[i + 1].w))>>)
         ELSE ReplaceRange(s, i, i, <<>>)
EndsStatement(s, i) == Punct(s, i, ";") \/ Kind(s, i, "CloseTag")
NeedsSpaceAfterClone(s, i) == ~EndsStatement(s, i) /\ ~PunctIn(s, i, {",", ")", "]", "}", "->", "?->", "["})

CloneOperandIsVariable(s, open, closing) ==
    LET inner == {j \in open + 1 .. closing - 1 : ~Trivia(s, j)}
        v == FirstIn({j \in inner : ~Punct(s, j, "(")})
    IN  Kind(s, v, "Variable") /\ \A j \in inner : j > v => Punct(s, j, ")")
ClosesDynamicElement(s, closing) ==
    LET open == MatchBack(s, closing)
        colon == SigPrev(s, open)
        decides == LastIn({j \in 1 .. colon - 1 : Punct(s, j, "?") \/ Kw(s, j, "case")})
    IN  open # 0 /\ Punct(s, colon, ":") /\ ~Kw(s, decides, "case")
IsCloneStatementStart(s, before) ==
    \/ Kind(s, before, "OpenTag") \/ PunctIn(s, before, {";", "{"})
    \/ Punct(s, before, "}") /\ ~ClosesDynamicElement(s, before)
    \/ KwIn(s, before, {"yield", "yield from", "echo", "print", "return", "throw", "break", "continue", "require",
                        "require_once", "include", "include_once"})
(* The "=>" of an arrow function, past a plain return type.                *)
IsFnBodyStart(s, i) ==
    LET e == SigPrev(s, i)
        InType(j) == Kind(s, j, "Ident") \/ PunctIn(s, j, {"|", "&"})
        colon == LastIn({j \in 1 .. e : ~Trivia(s, j) /\ ~InType(j)})
        close == IF Kind(s, e, "Ident") THEN SigPrev(s, colon) ELSE e
        head == SigPrev(s, MatchBack(s, close))
    IN  /\ Punct(s, i, "=>") /\ (Kind(s, e, "Ident") => Punct(s, colon, ":"))
        /\ Punct(s, close, ")") /\ MatchBack(s, close) # 0
        /\ Kw(s, IF Punct(s, head, "&") THEN SigPrev(s, head) ELSE head, "fn")
IsForElement(s, before, after) ==
    \/ Punct(s, before, "(") /\ Punct(s, after, ";") /\ Kw(s, SigPrev(s, before), "for")
    \/ Punct(s, before, ";") /\ Punct(s, after, ")") /\ Kw(s, SigPrev(s, MatchBack(s, after)), "for")
IsSequenceElement(s, before, after) ==
    PunctIn(s, before, {","} \cup Openers) /\ PunctIn(s, after, {","} \cup Closers)
CloneStandsAlone(s, open, closing, before, after) ==
    IF Punct(s, before, "?") THEN Punct(s, after, ":") \/ CloneOperandIsVariable(s, open, closing)
    ELSE \/ (Punct(s, before, "=") \/ IsCloneStatementStart(s, before)) /\ EndsStatement(s, after)
         \/ Kw(s, before, "case") /\ PunctIn(s, after, {":", ";"})
         \/ IsFnBodyStart(s, before) /\ (EndsStatement(s, after) \/ Punct(s, after, ","))
         \/ IsForElement(s, before, after)
         \/ IsSequenceElement(s, before, after)

(* Words that are constructs of the language, unless a member or qualified. *)
IsCloneOperandName(s, i) ==
    \/ PunctIn(s, SigPrev(s, i), MemberOps \cup {"\\"})
    \/ IF Punct(s, SigNext(s, i), "\\") THEN Lower(s[i].v) # "namespace"
       ELSE Lower(s[i].v) \notin {"eval", "exit", "die", "__property__"}
(* isCloneOperandToken, without the strings that hold code.                *)
IsCloneOperandToken(s, i) ==
    s[i].k \in {"Variable", "Number", "String"} \/ PunctIn(s, i, {"$", "::", "\\", "->", "?->"}) \/ Kw(s, i, "static")
RECURSIVE HasOperationFrom(_, _, _)
HasOperationFrom(s, j, closing) ==
    IF j \in {0, closing} THEN FALSE
    ELSE IF CastClose(s, j) # 0 \/ (Lower(s[j].v) = "class" /\ Punct(s, SigPrev(s, j), "::")) THEN TRUE
    ELSE IF Kind(s, j, "Ident") THEN ~IsCloneOperandName(s, j) \/ HasOperationFrom(s, SigNext(s, j), closing)
    ELSE IF PunctIn(s, j, Openers)
         THEN Match(s, j) = 0 \/ HasOperationFrom(s, SigNext(s, Match(s, j)), closing)
    ELSE ~IsCloneOperandToken(s, j) \/ HasOperationFrom(s, SigNext(s, j), closing)
CloneOperandHasOperation(s, open, closing) ==
    LET first == SigNext(s, open)
    IN  HasOperationFrom(s, IF Kw(s, first, "new") THEN SigNext(s, first) ELSE first, closing)

RECURSIVE UnwrapClone(_, _), UnwrapStatement(_, _, _)
UnwrapClone(s, i) ==
    LET open == SigNext(s, i)
        closing == Match(s, open)
        before == SigPrev(s, i)
        after == SigNext(s, closing)
        inner == RemoveParenthesis(s, closing, NeedsSpaceAfterClone(s, after))
        Again(t) == UnwrapClone(t, i)
    IN  IF /\ Punct(s, open, "(") /\ closing # 0 /\ SigNext(s, open) # closing /\ before # 0 /\ after # 0
           /\ CloneStandsAlone(s, open, closing, before, after) /\ ~CloneOperandHasOperation(s, open, closing)
        THEN Then(Result(RemoveParenthesis(inner, open, TRUE), TRUE), Again) ELSE Unchanged(s)
(* The pairs between the keyword at i and the end of its statement.        *)
UnwrapStatement(s, i, term) ==
    LET j == NextNonWs(s, i)
        k == Match(s, j)
        New(x) == IF x = i + 1 THEN <<Sp>> ELSE <<>>
        Again(t) == UnwrapStatement(t, i, term)
    IN  IF Punct(s, j, "(") /\ k # 0 /\ Punct(s, NextNonWs(s, k), term) /\ NextNonWs(s, j) < k
        THEN Then(Rewrite(s, {j, k}, New), Again) ELSE Unchanged(s)
NoUnneededControlParentheses(statements, s) ==
    LET At(t, i) == /\ KwIn(t, i, {"return", "echo", "print", "yield", "break", "continue", "case", "clone"})
                    /\ NucpStatementKey(Lower(t[i].v)) \in statements
                    /\ Kw(t, i, "clone") \/ ~MemberPrev(t, i)
        Step(t, i) == IF Kw(t, i, "clone") THEN UnwrapClone(t, i)
                      ELSE UnwrapStatement(t, i, IF Kw(t, i, "case") THEN ":" ELSE ";")
    IN  ForEach(s, At, Step)
-----------------------------------------------------------------------------
(* ternary_to_null_coalescing                                              *)
HigherPrecedenceBeforeIsset ==
    {"&&", "||", "??", "--", "++", "==", ">=", "===", "!=", "<>", "!==", "<=", "**", "<<", ">>", "<=>",
     "!", "%", "&", "*", "+", "-", "/", ":", "^", "|", "~", "."}
(* The ":" of the "?" before j, past brackets and the ternaries in it.     *)
RECURSIVE TernaryColon(_, _, _)
TernaryColon(s, j, ternaries) ==
    IF ~Has(s, j) \/ PunctIn(s, j, Closers \cup {";"}) THEN 0
    ELSE IF PunctIn(s, j, Openers) THEN (IF Match(s, j) = 0 THEN 0 ELSE TernaryColon(s, Match(s, j) + 1, ternaries))
    ELSE IF Punct(s, j, "?") THEN TernaryColon(s, j + 1, ternaries + 1)
    ELSE IF Punct(s, j, ":") THEN (IF ternaries = 0 THEN j ELSE TernaryColon(s, j + 1, ternaries - 1))
    ELSE TernaryColon(s, j + 1, ternaries)
TernaryToNullCoalescing(s) ==
    LET Open(t, i) == SigNext(t, i)
        Close(t, i) == Match(t, Open(t, i))
        Question(t, i) == SigNext(t, Close(t, i))
        Colon(t, i) == TernaryColon(t, Question(t, i) + 1, 0)
        Given(t, i) == Significant(t, Open(t, i) + 1, Close(t, i) - 1)
        At(t, i) ==
            /\ Kw(t, i, "isset") /\ ~PunctIn(t, SigPrev(t, i), HigherPrecedenceBeforeIsset)
            /\ Punct(t, Open(t, i), "(") /\ Close(t, i) # 0 /\ Punct(t, Question(t, i), "?")
            /\ Colon(t, i) # 0 /\ SigNext(t, Colon(t, i)) # 0 /\ SpanClean(t, i, Colon(t, i))
            /\ ~\E j \in Inside(t, Open(t, i)) : Punct(t, j, ",")
            /\ Given(t, i) # <<>> /\ Given(t, i) = Significant(t, Question(t, i) + 1, Colon(t, i) - 1)
        Step(t, i) ==
            LET kept == SubSeq(t, NextNonWs(t, Open(t, i)), PrevNonWs(t, Close(t, i)))
                end == IF Ws(t, Colon(t, i) + 1) THEN Colon(t, i) + 1 ELSE Colon(t, i)
            IN  Result(ReplaceRange(t, i, end, kept \o <<Sp, P("??"), Sp>>), TRUE)
    IN  ForEach(s, At, Step)
-----------------------------------------------------------------------------
(* Include, and loops without a body or a condition                        *)
IncludeKeywords == {"include", "include_once", "require", "require_once"}
IsMemberAccessPrev(s, i) == PunctIn(s, SigPrev(s, i), MemberOps)
Include(s) ==
    LET at == {i \in DOMAIN s : KwIn(s, i, IncludeKeywords) /\ ~IsMemberAccessPrev(s, i)}
        Abuts(i) == Has(s, i) /\ (s[i].k \in {"Variable", "String"} \/ Punct(s, i, "\\"))
    IN  SetBlanks(s, {i + 1 : i \in {i \in at : Abuts(i + 1)}},
                     {i + 1 : i \in {i \in at : /\ NotSp(s, i + 1) /\ SigNext(s, i) # 0
                                                /\ ~Punct(s, SigNext(s, i), "(")}})
EmptyLoopBody(braces, s) ==
    LET Body(t, i) == SigNext(t, Match(t, SigNext(t, i)))
        At(t, i) ==
            /\ KwIn(t, i, {"for", "foreach", "while"}) /\ ~IsMemberAccessPrev(t, i)
            /\ Punct(t, SigNext(t, i), "(") /\ Match(t, SigNext(t, i)) # 0
            /\ IF braces THEN Punct(t, Body(t, i), ";") /\ (Kw(t, i, "while") => ~IsWhileOfDo(t, i))
               ELSE Punct(t, Body(t, i), "{") /\ Punct(t, NextNonWs(t, Body(t, i)), "}")
        Step(t, i) ==
            LET b == Body(t, i)
                e == NextNonWs(t, b)
                gap == IF e > b + 1 THEN <<t[b + 1]>> ELSE <<>>
                joins == gap # <<>> /\ Ws(t, e + 1)
            IN  Result(IF braces THEN ReplaceRange(t, b, b, <<P("{"), P("}")>>)
                       ELSE IF joins THEN ReplaceRange(t, b, e + 1, <<P(";"), WS(JoinWs(t[b + 1].w, t[e + 1].w))>>)
                       ELSE ReplaceRange(t, b, e, <<P(";")>> \o gap), TRUE)
    IN  ForEach(s, At, Step)

RECURSIVE ClearNotComments(_, _, _)
ClearNotComments(s, j, to) ==
    IF j > to THEN s ELSE ClearNotComments(IF Comment(s, j) THEN s ELSE ClearAndMerge(s, j), j + 1, to)
DoOfWhile(s, i) == IF IsWhileOfDo(s, i) THEN SigPrev(s, MatchBack(s, SigPrev(s, i))) ELSE 0
EmptyForHeader(s, open) ==
    LET a == SigNext(s, open) IN Punct(s, a, ";") /\ Punct(s, SigNext(s, a), ";") /\ SigNext(s, SigNext(s, a)) = Match(s, open)
WhileTrueHeader(s, open) ==
    LET a == SigNext(s, open) IN Kind(s, a, "Ident") /\ s[a].v = "true" /\ SigNext(s, a) = Match(s, open)
(* The last token that goes with the loop keyword at i, or 0.              *)
LoopEnd(asFor, s, i) ==
    LET open == NextPunct(s, i, {"("})
        close == Match(s, open)
        while == Kw(s, i, "while") /\ WhileTrueHeader(s, open)
    IN  IF ~KwIn(s, i, {"for", "while"}) \/ IsMemberAccessPrev(s, i) \/ close = 0 THEN 0
        ELSE IF Kw(s, i, "for") /\ ~asFor /\ EmptyForHeader(s, open) THEN close
        ELSE IF while /\ DoOfWhile(s, i) # 0 THEN SigNext(s, close)
        ELSE IF while /\ asFor THEN close ELSE 0
EmptyLoopCondition(asFor, s) ==
    LET head == IF asFor THEN <<Tok("Keyword", "for"), P("("), P(";"), P(";"), P(")")>>
                ELSE <<Tok("Keyword", "while"), Sp, P("("), Tok("Ident", "true"), P(")")>>
        At(t, i) == i > 1 /\ LoopEnd(asFor, t, i) # 0
        Step(t, i) ==
            LET do == DoOfWhile(t, i)
                cleared == ClearNotComments(t, i, LoopEnd(asFor, t, i))
            IN  Result(IF Kw(t, i, "while") /\ do # 0 THEN InsertAt(SetAt(cleared, do, Cleared), do, head)
                       ELSE InsertAt(cleared, i, head), TRUE)
    IN  IF ~\E i \in DOMAIN s : At(s, i) THEN Unchanged(s)
        ELSE LET r == ForEachBack(ClearableTokens(s), At, Step) IN Result(WriteBack(r.toks), r.changed)
-----------------------------------------------------------------------------
(* SingleLineCommentStyle, for the comments whose text is on one line.     *)
SingleLineCommentStyle(hash, asterisk, s) ==
    LET block == {i \in DOMAIN s : asterisk /\ s[i].v = "/*c*/" /\ (i = Len(s) \/ Broken(s, i + 1))}
        at == block \cup {i \in DOMAIN s : hash /\ s[i].v = "#c"}
        indents == {i + 1 : i \in {i \in block : Ws(s, i + 1) /\ s[i + 1].w[1] > 0}}
        New(i) == IF i \in at THEN <<[s[i] EXCEPT !.v = "//c"]>> ELSE <<[s[i] EXCEPT !.w[1] = 0]>>
    IN  Rewrite(s, at \cup indents, New)

(* NoNullPropertyInitialization                                            *)
NullPropertyModifiers == MemberModifiers \cup {"var"}
RECURSIVE NullDefaultsFrom(_, _), NullDefaultsInProperty(_, _)
NullDefaultsFrom(s, v) ==
    LET eq == SigNext(s, v)
        value == IF Punct(s, SigNext(s, eq), "\\") THEN SigNext(s, SigNext(s, eq)) ELSE SigNext(s, eq)
        comma == SigNext(s, value)
    IN  IF ~Punct(s, eq, "=") \/ Lower(Spelled(s, value)) # "null" THEN {}
        ELSE {j \in v + 1 .. value : ~Comment(s, j) /\ ~Broken(s, j)}
             \cup (IF Punct(s, comma, ",") /\ Kind(s, SigNext(s, comma), "Variable")
                   THEN NullDefaultsFrom(s, SigNext(s, comma)) ELSE {})
NullDefaultsInProperty(s, i) ==
    IF Has(s, i) /\ s[i].k \in {"Keyword", "Ident"} /\ Lower(s[i].v) \in NullPropertyModifiers
    THEN NullDefaultsInProperty(s, SigNext(s, i))
    ELSE IF Kind(s, i, "Variable") THEN NullDefaultsFrom(s, i) ELSE {}
NoNullPropertyInitialization(s) ==
    Drop(s, UNION {UNION {NullDefaultsInProperty(s, m) : m \in ClassMemberStarts(s, FindBodyBrace(s, i))} :
                       i \in {i \in DOMAIN s : KwIn(s, i, {"class", "trait"}) /\ FindBodyBrace(s, i) # 0}})
NoNullPropertyCandidate(s) == HasAnyWord(s, {"null"}) /\ HasAnyWord(s, {"class", "trait"})
-----------------------------------------------------------------------------
(* function_declaration                                                    *)
FnEnsureSingleSpaceAfter(s, i) ==
    IF i = Len(s) \/ Broken(s, i + 1) THEN Unchanged(s) ELSE SetSlotAfter(s, i, Sp)
FnEnsureSingleSpaceBefore(s, i) ==
    IF Broken(s, i - 1) THEN Unchanged(s)
    ELSE IF Ws(s, i - 1) THEN Result(SetAt(s, i - 1, Sp), s[i - 1] # Sp)
    ELSE Result(InsertAt(s, i, <<Sp>>), TRUE)
FnGlueAfter(s, i) == Drop(s, {j \in {i + 1} : Inline(s, j)})
FnIsArrowFn(s, i) == FunctionBraceKind(s, i) = "closure"
FnRemoveTrailingComma(s, kw, open) ==
    LET close == Match(s, open)
        p == SigPrev(s, close)
        between == Ws(s, p - 1) /\ Ws(s, p + 1) /\ p + 1 < close
        Gone(i) == IF i = p - 1 THEN <<WS(JoinWs(s[i].w, s[p + 1].w))>> ELSE <<>>
        t == Splices(s, IF between THEN {p - 1, p, p + 1} ELSE {p}, Gone)
        e == Match(t, open)
    IN  IF close = 0 \/ (\E j \in kw .. close : HoldsLine(s, j)) \/ p <= open \/ ~Punct(s, p, ",") THEN Unchanged(s)
        ELSE Result(IF Ws(t, e - 1) THEN ReplaceRange(t, e - 1, e - 1, <<>>) ELSE t, TRUE)
FnFixParenInnerEdge(s, open) == Drop(s, {j \in {open + 1, Match(s, open) - 1} : Inline(s, j)})
FindFunctionParamOpen(s, fi) ==
    LET j == FirstIn({j \in fi + 1 .. Len(s) : ~Ws(s, j) /\ ~Kind(s, j, "Ident") /\ ~Punct(s, j, "&")})
    IN  IF Punct(s, j, "(") THEN j ELSE 0

(* The two edits of a parameter or use list.                               *)
FnFixList(o, s, kw, open) ==
    LET Edge(t) == FnFixParenInnerEdge(t, open)
    IN  Then(IF o.keepTrailingComma THEN Unchanged(s) ELSE FnRemoveTrailingComma(s, kw, open), Edge)
FnFixUse(o, s, fi, open) ==
    LET u == NextNonWs(s, Match(s, open))
        After(t) == FnEnsureSingleSpaceAfter(t, u)
        Before(t) == FnEnsureSingleSpaceBefore(t, u)
        list == IF Punct(s, NextNonWs(s, u), "(") THEN FnFixList(o, s, fi, NextNonWs(s, u)) ELSE Unchanged(s)
    IN  IF Match(s, open) # 0 /\ Kw(s, u, "use") THEN Then(Then(list, After), Before) ELSE Unchanged(s)
FixFunctionDeclaration(o, s, fi) ==
    LET open == FindFunctionParamOpen(s, fi)
        first == NextNonWs(s, fi)
        amp == IF Punct(s, first, "&") THEN first ELSE 0
        name == IF amp # 0 THEN NextNonWs(s, amp) ELSE first
        named == name < open
        list == FnFixList(o, s, fi, open)
        Use(t) == IF named THEN Unchanged(t) ELSE FnFixUse(o, t, fi, open)
        Name(t) == IF named THEN FnGlueAfter(t, name) ELSE Unchanged(t)
        Amp(t) == IF named /\ amp # 0 THEN FnGlueAfter(t, amp) ELSE Unchanged(t)
        Keyword(t) == IF ~named /\ ~o.closureSpace THEN FnGlueAfter(t, fi) ELSE FnEnsureSingleSpaceAfter(t, fi)
        Static(t) == IF ~named /\ Kw(t, PrevNonWs(t, fi), "static") /\ NotSp(t, fi - 1)
                     THEN Result(SetAt(t, fi - 1, Sp), TRUE) ELSE Unchanged(t)
    IN  IF open = 0 THEN Unchanged(s)
        ELSE IF named /\ ~(Kind(s, name, "Ident") /\ NextNonWs(s, name) = open) THEN Result(list.toks, FALSE)
        ELSE Then(Then(Then(Then(Then(list, Use), Name), Amp), Keyword), Static)
FunctionDeclaration(o, s) ==
    LET At(t, i) == Kw(t, i, "function") \/ (Kw(t, i, "fn") /\ FnIsArrowFn(t, i))
        Fn(t, i) ==
            LET open == NextPunct(t, i, {"("})
                Comma(u) == IF o.keepTrailingComma THEN Unchanged(u) ELSE FnRemoveTrailingComma(u, i, open)
                Keyword(u) == IF o.fnSpace THEN FnEnsureSingleSpaceAfter(u, i) ELSE FnGlueAfter(u, i)
            IN  Then(Then(FnFixParenInnerEdge(t, open), Comma), Keyword)
        Step(t, i) == IF Kw(t, i, "fn") THEN Fn(t, i) ELSE FixFunctionDeclaration(o, t, i)
    IN  ForEach(s, At, Step)
FunctionDeclarationDefault == [closureSpace |-> TRUE, fnSpace |-> TRUE, keepTrailingComma |-> TRUE]
=============================================================================
