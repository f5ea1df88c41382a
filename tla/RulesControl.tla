---------------------------- MODULE RulesControl ----------------------------
(***************************************************************************)
(* The blink rules of braces, branches, switches and returns.              *)
(***************************************************************************)
EXTENDS RulesBlankLines

(* braces_position: moving a brace past comments.                          *)
Unindented(w) == IF Len(w) > 1 THEN <<0>> \o SubSeq(w, 3, Len(w)) ELSE <<0>>
MoveBrace(s, open, target) ==
    LET d == IF open > target THEN -1 ELSE 1
        range == Min2(open - 1, target) .. Max2(open + 1, target)
        gap == IF ~Ws(s, open + d) THEN s
               ELSE IF d = -1 /\ HasNewline(s, open - 1)
                    THEN IF Ws(s, open + 1) THEN SetAt(s, open + 1, WS(Unindented(s[open + 1].w))) ELSE s
               ELSE IF Ws(s, open - 1) THEN SetAt(s, open - 1, Cleared) ELSE s
        shifted == [i \in DOMAIN gap |->
                       IF i = target THEN gap[open]
                       ELSE IF i \in Min2(open, target) .. Max2(open, target) THEN gap[i + d] ELSE gap[i]]
        work == IF Ws(shifted, open) /\ Ws(shifted, open + 1)
                THEN [shifted EXCEPT ![open] = WS(JoinWs(@.w, shifted[open + 1].w)), ![open + 1] = Cleared]
                ELSE shifted
        gone == {i \in range : work[i] = Cleared}
    IN  [toks |-> Drop(work, gone).toks, at |-> target - Cardinality({i \in gone : i < target})]

(* bpBraceTarget: before the comments on the same line, or after a line    *)
(* comment on the next.                                                    *)
SameLineTarget(s, open) ==
    LET p == SigPrev(s, open)
        Spot(c) == IF Ws(s, c - 1) THEN c - 1 ELSE IF c - 1 = p THEN p + 1 ELSE 0
        spots == {Spot(c) : c \in {c \in p + 1 .. open - 1 : Comment(s, c)}} \ {0}
        t == FirstIn(spots)
    IN  IF t = 0 \/ IsLineComment(s, t - 1) \/ Match(s, open) = 0 THEN 0 ELSE t
NextLineTarget(s, open) ==
    LET stop == FirstIn({j \in open + 1 .. Match(s, open) : Broken(s, j) \/ ~Trivia(s, j)})
    IN  IF Broken(s, open - 1) \/ Match(s, open) = 0 THEN 0
        ELSE LastIn({j + 1 : j \in {j \in open + 1 .. stop - 1 : IsLineComment(s, j) /\ Ws(s, j + 1)}})
FollowsLineComment(s, open) == IsLineComment(s, IF Ws(s, open - 1) THEN open - 2 ELSE open - 1)

IsDNFParens(s, open, close) ==
    open # 0 /\ close # 0 /\ (Punct(s, SigPrev(s, open), "|") \/ Punct(s, SigNext(s, close), "|"))
IsSignatureEndToken(s, i) ==
    \/ Kind(s, i, "Ident") \/ KwIn(s, i, {"static", "array", "callable"})
    \/ PunctIn(s, i, {":", "?", "\\", "|", "&"})
    \/ Punct(s, i, "(") /\ IsDNFParens(s, i, Match(s, i))
    \/ Punct(s, i, ")") /\ IsDNFParens(s, MatchBack(s, i), i)
RECURSIVE SignatureEnd(_, _)
SignatureEnd(s, p) == IF IsSignatureEndToken(s, p) THEN SignatureEnd(s, SigPrev(s, p)) ELSE p
FuncSignatureMultiline(s, brace) ==
    LET p == SignatureEnd(s, SigPrev(s, brace))
        q == IF Comment(s, p - 1) /\ p > 2 THEN p - 2 ELSE p - 1
    IN  p > 1 /\ Punct(s, p, ")") /\ Broken(s, q)

(* The body of a closure or an anonymous class goes on lines of its own.   *)
HoldsBreak(s, open) == \E j \in open + 1 .. Match(s, open) - 1 : Broken(s, j)
AnonClassBodyNeedsNewlines(o, s, open, single) ==
    IF ~o.emptyAnon /\ ~(single # 0 /\ open < Match(s, single)) THEN TRUE
    ELSE HoldsBreak(s, open) \/ (o.emptyAnon /\ \E j \in open + 1 .. Match(s, open) - 1 : ~Trivia(s, j))
OpenBraceNeedsNewline(s, open) ==
    LET j == FirstIn({j \in open + 1 .. Len(s) - 1 : ~Comment(s, j)})
        c == IF Inline(s, open + 1) THEN open + 2 ELSE open + 1
    IN  ~Broken(s, j) /\ ~Comment(s, c) /\ ~Kind(s, SigNext(s, open), "CloseTag")
CloseBraceOnOwnLine(s, open) ==
    LET close == Match(s, open)
        line == Nl(LineIndent(s, open))
    IN  IF close = 0 \/ Kind(s, SigPrev(s, close), "OpenTag") \/ Broken(s, close - 1) THEN Unchanged(s)
        ELSE Result(IF Ws(s, close - 1) THEN SetAt(s, close - 1, line) ELSE InsertAt(s, close, <<line>>), TRUE)
SetSlotAfter(s, i, ws) ==
    IF ~Ws(s, i + 1) THEN Result(InsertAt(s, i + 1, <<ws>>), TRUE) ELSE Result(SetAt(s, i + 1, ws), s[i + 1] # ws)

BraceCategory(s, i) ==
    LET c == ClassifyBrace(s, i)
    IN  CASE c[1] = "class" -> IF IsAnonymousClass(s, c[2]) THEN "anonClasses" ELSE "classes"
          [] c[1] = "function" -> "functions"
          [] c[1] = "closure" -> "anonFunctions"
          [] OTHER -> c[1]
(* A brace set on its line: its tokens, its position, whether it changed.  *)
PlaceBrace(o, s, i) ==
    LET category == BraceCategory(s, i)
        kw == ClassifyBrace(s, i)[2]
        next == o[category] = "next" /\ ~FuncSignatureMultiline(s, i)
        target == IF next THEN NextLineTarget(s, i) ELSE SameLineTarget(s, i)
        m == IF target = 0 THEN [toks |-> s, at |-> i] ELSE MoveBrace(s, i, target)
        want == IF next THEN Nl(LineIndent(m.toks, kw)) ELSE Sp
    IN  IF o[category] = "" THEN [toks |-> s, at |-> i, changed |-> FALSE]
        ELSE IF ~next /\ FollowsLineComment(m.toks, m.at)
             THEN [toks |-> m.toks, at |-> m.at, changed |-> target # 0]
        ELSE IF Ws(m.toks, m.at - 1)
             THEN [toks |-> SetAt(m.toks, m.at - 1, want), at |-> m.at,
                   changed |-> target # 0 \/ m.toks[m.at - 1] # want]
        ELSE [toks |-> InsertAt(m.toks, m.at, <<want>>), at |-> m.at + 1, changed |-> TRUE]
RECURSIVE BracesFrom(_, _, _, _, _)
BracesFrom(o, s, i, single, changed) ==
    IF i > Len(s) THEN Result(s, changed)
    ELSE IF ~Punct(s, i, "{") \/ IsPropertyHookBrace(s, i) \/ BraceCategory(s, i) = "other"
            \/ (BraceCategory(s, i) \in {"classes", "functions"} /\ Match(s, i) = i + 1)
         THEN BracesFrom(o, s, i + 1, single, changed)
    ELSE LET category == BraceCategory(s, i)
             inside == CASE category = "anonFunctions" -> ~o.singleLineFns \/ HoldsBreak(s, i)
                         [] category = "anonClasses" -> AnonClassBodyNeedsNewlines(o, s, i, single)
                         [] OTHER -> FALSE
             stays == category \in {"anonFunctions", "anonClasses"} /\ ~inside /\ single = 0
             a == IF inside /\ OpenBraceNeedsNewline(s, i) THEN SetSlotAfter(s, i, Nl(LineIndent(s, i))) ELSE Unchanged(s)
             b == PlaceBrace(o, a.toks, i)
             c == IF inside THEN CloseBraceOnOwnLine(b.toks, b.at) ELSE Unchanged(b.toks)
         IN  BracesFrom(o, c.toks, b.at + 1, IF stays THEN b.at ELSE single,
                        changed \/ a.changed \/ b.changed \/ c.changed)
BracesPosition(o, s) == BracesFrom(o, s, 1, 0, FALSE)
BracesDefault == [classes |-> "next", functions |-> "next", anonClasses |-> "same", control |-> "same",
                  anonFunctions |-> "", singleLineFns |-> TRUE, emptyAnon |-> TRUE]
-----------------------------------------------------------------------------
(* control_structure_braces: a body that is a statement gets its braces.   *)
BracedKeywords == {"declare", "do", "else", "elseif", "finally", "for", "foreach", "if", "while", "try",
                   "catch", "switch"}
AltTerminators == {"endif", "endwhile", "endfor", "endforeach", "endswitch", "enddeclare"}
RECURSIVE NamedByConst(_, _)
NamedByConst(s, i) ==
    LET p == PrevNonWs(s, i)
    IN  \/ Kw(s, p, "const")
        \/ /\ p # 0 /\ (s[p].k \in {"Ident", "Keyword"} \/ PunctIn(s, p, {"?", "|", "\\"}))
           /\ NamedByConst(s, p)
ParenthesisEnd(s, c) ==
    LET n == SigNext(s, c) IN IF Punct(s, n, "(") /\ Match(s, n) # 0 THEN Match(s, n) ELSE c
IsAltSyntax(s, c) == Punct(s, SigNext(s, ParenthesisEnd(s, c)), ":")
Continuations(v) == CASE v = "if" -> {"else", "elseif"} [] v = "do" -> {"while"}
                      [] v = "try" -> {"catch", "finally"} [] OTHER -> {}
FinalContinuations(v) == CASE v = "if" -> {"else"} [] v = "try" -> {"finally"} [] OTHER -> {}
RECURSIVE StatementEnd(_, _), ChainEnd(_, _, _), PlainEnd(_, _)
StatementEnd(s, pe) ==
    LET n == SigNext(s, pe)
    IN  IF n = 0 THEN 0
        ELSE IF Punct(s, n, "{") THEN Match(s, n)
        ELSE IF KwIn(s, n, BracedKeywords)
             THEN ChainEnd(s, Lower(s[n].v), StatementEnd(s, ParenthesisEnd(s, n)))
        ELSE PlainEnd(s, pe + 1)
ChainEnd(s, word, end) ==
    LET n == SigNext(s, end)
        e == StatementEnd(s, ParenthesisEnd(s, n))
    IN  IF end = 0 \/ ~KwIn(s, n, Continuations(word)) THEN end
        ELSE IF e = 0 \/ KwIn(s, n, FinalContinuations(word)) THEN e
        ELSE ChainEnd(s, word, e)
PlainEnd(s, i) ==
    IF ~Has(s, i) \/ KwIn(s, i, AltTerminators) THEN 0
    ELSE IF Punct(s, i, "{") THEN IF Match(s, i) = 0 THEN 0 ELSE PlainEnd(s, Match(s, i) + 1)
    ELSE IF Punct(s, i, ";") THEN i
    ELSE IF Kind(s, i, "CloseTag") THEN PrevNonWs(s, i)
    ELSE PlainEnd(s, i + 1)
RECURSIVE BracedBodies(_, _, _)
BracedBodies(s, i, changed) ==
    IF i < 1 THEN Result(s, changed)
    ELSE LET pe == ParenthesisEnd(s, i)
             n == SigNext(s, pe)
             end == StatementEnd(s, pe)
             close == (IF PunctIn(s, end, {";", "}"}) THEN <<>> ELSE <<P(";")>>) \o <<Sp, P("}")>>
         IN  IF /\ KwIn(s, i, BracedKeywords) /\ ~NamedByConst(s, i)
                /\ ~(Kw(s, i, "else") /\ Kw(s, SigNext(s, i), "if"))
                /\ n # 0 /\ ~PunctIn(s, n, {";", "{", ":"}) /\ ~Kind(s, n, "CloseTag")
                /\ ~(KwIn(s, n, BracedKeywords) /\ IsAltSyntax(s, n))
                /\ end # 0
             THEN BracedBodies(InsertAt(InsertAt(s, end + 1, close), pe + 1, <<Sp, P("{")>>), i - 1, TRUE)
             ELSE BracedBodies(s, i - 1, changed)
ControlStructureBraces(s) == BracedBodies(s, Len(s), FALSE)

ClosesDoBlock(s, e) ==
    LET c == ClassifyBrace(s, MatchBack(s, e)) IN MatchBack(s, e) # 0 /\ c[1] = "control" /\ Kw(s, c[2], "do")
ControlStructureContinuationPosition(nextLine, s) ==
    LET at == {i - 1 : i \in {i \in DOMAIN s : /\ KwIn(s, i, {"else", "elseif", "catch", "finally", "while"})
                                               /\ Ws(s, i - 1) /\ Punct(s, i - 2, "}")
                                               /\ Kw(s, i, "while") => ClosesDoBlock(s, i - 2)}}
        New(i) == IF nextLine THEN <<0, LineIndent(s, i + 1)>> ELSE <<1>>
    IN  SetWidths(s, {i \in at : HasNewline(s, i) # nextLine}, New)

(* no_unneeded_braces: free blocks and group imports of one element.       *)
OverCompleteBlock(s, i) ==
    LET p == SigPrev(s, i)
    IN  \/ Kind(s, p, "OpenTag") \/ PunctIn(s, p, {"{", "}", ":", ";"})
        \/ Punct(s, p, "\\") /\ \A j \in i + 1 .. Match(s, i) - 1 : ~Punct(s, j, ",") /\ ~Broken(s, j)
NamespaceBlock(s) ==
    LET words == {i \in DOMAIN s : s[i].k \in {"Keyword", "Ident"} /\ Lower(s[i].v) = "namespace"}
        ns == FirstIn(words)
        open == FirstIn({j \in ns + 1 .. Len(s) : ~Trivia(s, j) /\ ~Kind(s, j, "Ident") /\ ~Punct(s, j, "\\")})
        close == Match(s, open)
        after == SigNext(s, close)
        closed == IF Ws(s, close - 1) /\ Ws(s, close + 1)
                  THEN ReplaceRange(s, close - 1, close + 1, <<WS(JoinWs(s[close - 1].w, s[close + 1].w))>>)
                  ELSE ReplaceRange(s, close, close, <<>>)
        ended == SetAt(closed, open, P(";"))
    IN  IF Cardinality(words) # 1 \/ ~Punct(s, open, "{") \/ SigNext(s, ns) = open \/ close = 0
           \/ (after # 0 /\ ~(Kind(s, after, "CloseTag") /\ SigNext(s, after) = 0))
        THEN Unchanged(s)
        ELSE Result(IF open > 2 /\ Inline(s, open - 1) /\ ~Comment(s, open - 2)
                    THEN ReplaceRange(ended, open - 1, open - 1, <<>>) ELSE ended, TRUE)
NoUnneededBraces(namespaces, s) ==
    LET at == {i \in 2 .. Len(s) : Punct(s, i, "{") /\ Match(s, i) # 0 /\ OverCompleteBlock(s, i)}
        Blocks(t) == IF namespaces THEN NamespaceBlock(t) ELSE Unchanged(t)
    IN  Then(Drop(s, at \cup {Match(s, i) : i \in at}), Blocks)

ElseifGapOnly(s) ==     \* mutant: the "if" stays, without its blank
    LET at == {i \in DOMAIN s : Kw(s, i, "else") /\ Inline(s, i + 1) /\ Kw(s, i + 2, "if")}
    IN  Drop(s, {i + 1 : i \in at})
Elseif(s) ==
    LET at == {i \in DOMAIN s : Kw(s, i, "else") /\ Inline(s, i + 1) /\ Kw(s, i + 2, "if")}
        New(i) == IF i \in at THEN <<[s[i] EXCEPT !.v = "elseif"]>> ELSE <<>>
    IN  Rewrite(s, at \cup {i + 1 : i \in at} \cup {i + 2 : i \in at}, New)

(* A body of blanks only is "{}", one blank after its declaration.         *)
SingleLineEmptyBody(s) ==
    LET heads == {i \in 2 .. Len(s) : IsClassy(s, i) \/ (Kw(s, i, "function") /\ ~Kw(s, SigPrev(s, i), "use"))}
        opens == {o \in {NextPunct(s, i, {"{", ";"}) : i \in heads} : Punct(s, o, "{") /\ Punct(s, NextNonWs(s, o), "}")}
        gone == {o + 1 : o \in {o \in opens : NextNonWs(s, o) = o + 2}}
        spaced == {o \in opens : ~Comment(s, PrevNonWs(s, o))}
        at == gone \cup {IF Ws(s, o - 1) THEN o - 1 ELSE o : o \in spaced}
        New(i) == IF i \in gone THEN <<>> ELSE IF Ws(s, i) THEN <<Sp>> ELSE <<Sp, s[i]>>
    IN  Compared(s, Splices(s, at, New))
-----------------------------------------------------------------------------
(* Branches that always leave (AbstractNoUselessElseFixer).                *)
PrevOf(s, i, Is(_)) == LastIn({j \in 1 .. i - 1 : Is(j)})
PreviousBlock(s, i) ==
    LET close == SigPrev(s, i)
        from == IF Punct(s, close, "}") THEN MatchBack(s, close) ELSE close
        Branch(j) == KwIn(s, j, {"if", "else", "elseif"})
        kw == PrevOf(s, from, Branch)
        open == IF Kw(s, kw, "if") /\ Kw(s, SigPrev(s, kw), "else") THEN SigPrev(s, kw) ELSE kw
    IN  [start |-> open, end |-> close]
IsInConditional(s, i, limit) ==
    LET Stop(j) == PunctIn(s, j, {")", ";", ":"})
        c == PrevOf(s, i, Stop)
    IN  \/ Punct(s, c, ":")
        \/ Punct(s, c, ")") /\ MatchBack(s, c) # 0 /\ SigPrev(s, MatchBack(s, c)) > limit
RECURSIVE IsInConditionWithoutBraces(_, _, _)
IsInConditionWithoutBraces(s, from, limit) ==
    LET i == IF Trivia(s, from) THEN SigPrev(s, from) ELSE from
        b == SigPrev(s, i)                            \* before a "{"
        c == SigPrev(s, MatchBack(s, b))
    IN  /\ from > limit /\ i # 0
        /\ \/ KwIn(s, i, {"if", "elseif", "else"})
           \/ Punct(s, i, "{") /\ Kw(s, b, "do") /\ IsInConditionWithoutBraces(s, b - 1, limit)
           \/ /\ Punct(s, i, "{") /\ Punct(s, b, ")") /\ MatchBack(s, b) # 0 /\ ~KwIn(s, c, {"if", "elseif"})
              /\ IsInConditionWithoutBraces(s, c, limit)
           \/ Punct(s, i, ")") /\ MatchBack(s, i) # 0 /\ IsInConditionWithoutBraces(s, SigPrev(s, MatchBack(s, i)), limit)
           \/ ~PunctIn(s, i, {";", "{", ")"}) /\ IsInConditionWithoutBraces(s, i - 1, limit)
BranchExits(s, b) ==
    LET last == IF Punct(s, b.end, "}") THEN SigPrev(s, b.end) ELSE b.end
        Leaves(j) == \/ Punct(s, j, ";") \/ Kind(s, j, "CloseTag") \/ (IsConstruct(s, j, {"exit", "die"}) /\ ~IsNamedArgument(s, j))
                     \/ KwIn(s, j, {"break", "continue", "goto", "if", "return", "throw"})
        c == PrevOf(s, last, Leaves)
    IN  /\ Punct(s, last, ";") /\ ~Punct(s, SigPrev(s, last), "{")
        /\ c # 0 /\ ~Punct(s, c, ";") /\ ~Kind(s, c, "CloseTag") /\ ~Kw(s, c, "if")
        /\ Kw(s, c, "throw") => PunctIn(s, SigPrev(s, c), {";", "{"})
        /\ ~IsInConditional(s, c, b.start) /\ ~IsInConditionWithoutBraces(s, c, b.start)
RECURSIVE IsSuperfluousElse(_, _)
IsSuperfluousElse(s, i) ==
    LET b == PreviousBlock(s, i)
    IN  b.start # 0 /\ b.end # 0 /\ BranchExits(s, b) /\ (Kw(s, b.start, "if") \/ IsSuperfluousElse(s, b.start))

(* An "else" that goes takes its braces along.                             *)
ClearElse(s, i) ==
    LET c == ClearAndMerge(s, i)
        open == SigNext(c, i)
        d == IF Match(c, open) # 0 THEN ClearAndMerge(c, Match(c, open)) ELSE c
    IN  IF Punct(c, open, "{") THEN ClearAndMerge(d, open) ELSE c
EmptyElse(s, i) ==
    LET n == SigNext(s, i)
        end == FirstIn({j \in i + 1 .. Len(s) : Punct(s, j, ";") \/ Kind(s, j, "CloseTag")})
    IN  IF Punct(s, n, "{") THEN Match(s, n) # 0 /\ SigNext(s, n) = Match(s, n) ELSE n = end
DeclaresSymbol(s, i) ==
    LET n == SigNext(s, i)
    IN  Punct(s, n, "{") /\ \E j \in n + 1 .. Match(s, n) - 1 :
                                  \/ Kw(s, j, "function") /\ ~IsLambda(s, j)
                                  \/ IsClassy(s, j) /\ ~IsAnonymousClass(s, j)
RECURSIVE UselessElse(_, _, _)
UselessElse(s, i, changed) ==
    LET n == SigNext(s, i)
    IN  IF i > Len(s) THEN Result(ClearEmptyTokens(s), changed)
        ELSE IF /\ Kw(s, i, "else") /\ n # 0 /\ ~Punct(s, n, ":") /\ ~Kw(s, n, "if")
                /\ EmptyElse(s, i) \/ (IsSuperfluousElse(s, i) /\ ~DeclaresSymbol(s, i))
             THEN UselessElse(ClearElse(s, i), i + 1, TRUE)
        ELSE UselessElse(s, i + 1, changed)
NoUselessElse(s) == UselessElse(s, 1, FALSE)

(* "elseif" after branches that leave is an "if" on a line of its own.     *)
ElseifToIf(s, i) ==
    LET both == Ws(s, i - 1) /\ Ws(s, i + 1)
        t == IF ~Kw(s, i, "else") THEN SetAt(s, i, Tok("Keyword", "if"))
             ELSE IF both THEN ReplaceRange(s, i - 1, i + 1, <<WS(JoinWs(s[i - 1].w, s[i + 1].w))>>)
             ELSE ReplaceRange(s, i, i, <<>>)
        line == LastIn({j \in 2 .. i - 1 : Broken(t, j)})
        ws == Nl(LastLine(t[line].w))
    IN  IF line = 0 \/ Broken(t, i - 1) THEN t
        ELSE IF Ws(t, i - 1) THEN SetAt(t, i - 1, ws) ELSE InsertAt(t, i, <<ws>>)
RECURSIVE SuperfluousElseif(_, _, _)
SuperfluousElseif(s, i, changed) ==
    IF i > Len(s) THEN Result(s, changed)
    ELSE IF (Kw(s, i, "elseif") \/ (Kw(s, i, "else") /\ Kw(s, SigNext(s, i), "if"))) /\ IsSuperfluousElse(s, i)
         THEN SuperfluousElseif(ElseifToIf(s, i), i + 1, TRUE)
    ELSE SuperfluousElseif(s, i + 1, changed)
NoSuperfluousElseif(s) == SuperfluousElseif(s, 1, FALSE)
-----------------------------------------------------------------------------
(* Switches                                                                *)
RECURSIVE CaseTerminator(_, _, _), SwitchLabelEnd(_, _, _), SwitchEnd(_, _), AlternativeEnd(_, _, _)
CaseTerminator(s, k, ternaries) ==
    IF ~Has(s, k) \/ PunctIn(s, k, {"{", "}"}) THEN 0
    ELSE IF PunctIn(s, k, {":", ";"}) /\ ternaries = 0 THEN k
    ELSE CaseTerminator(s, k + 1, ternaries + (IF Punct(s, k, "?") THEN 1 ELSE IF Punct(s, k, ":") THEN -1 ELSE 0))
SwitchCaseSemicolonToColon(s) ==
    LET at == {CaseTerminator(s, i + 1, 0) : i \in {i \in DOMAIN s : KwIn(s, i, {"case", "default"}) /\ ~InClassLikeBody(s, i)}}
        Colon(i) == <<P(":")>>
    IN  Rewrite(s, {i \in at : Punct(s, i, ";")}, Colon)

SwitchOpen(s, sw) == IF Punct(s, SigNext(s, sw), "(") THEN SwitchBody(s, sw) ELSE 0
SwitchEnd(s, sw) ==
    LET o == SwitchOpen(s, sw)
    IN  IF Punct(s, o, "{") THEN Match(s, o) ELSE IF Punct(s, o, ":") THEN AlternativeEnd(s, o + 1, 0) ELSE 0
AlternativeEnd(s, k, depth) ==
    IF ~Has(s, k) THEN 0
    ELSE IF Kw(s, k, "switch")
         THEN IF Punct(s, SwitchEnd(s, k), "}") THEN AlternativeEnd(s, SwitchEnd(s, k) + 1, depth)
              ELSE AlternativeEnd(s, k + 1, depth + 1)
    ELSE IF ~Kw(s, k, "endswitch") THEN AlternativeEnd(s, k + 1, depth)
    ELSE IF depth = 0 THEN k ELSE AlternativeEnd(s, k + 1, depth - 1)
SwitchLabelEnd(s, k, ternaries) ==
    IF ~Has(s, k) THEN 0
    ELSE IF PunctIn(s, k, {"(", "{"}) THEN IF Match(s, k) = 0 THEN 0 ELSE SwitchLabelEnd(s, Match(s, k) + 1, ternaries)
    ELSE IF Punct(s, k, "?") THEN SwitchLabelEnd(s, k + 1, ternaries + 1)
    ELSE IF ~PunctIn(s, k, {":", ";"}) THEN SwitchLabelEnd(s, k + 1, ternaries)
    ELSE IF ternaries = 0 THEN k ELSE SwitchLabelEnd(s, k + 1, ternaries - 1)
(* switchLabels: the switch's own, not those of a switch or match in it.   *)
SwitchLabels(s, sw, word) ==
    LET MatchEnd(m) == LET b == SwitchOpen(s, m) IN IF Punct(s, b, "{") THEN Match(s, b) ELSE 0
        inside == SwitchOpen(s, sw) + 1 .. SwitchEnd(s, sw) - 1
        Nested(k) == \E n \in inside : /\ n < k
                                        /\ \/ Kw(s, n, "switch") /\ SwitchEnd(s, n) > k
                                           \/ Kw(s, n, "match") /\ MatchEnd(n) > k
    IN  {k \in inside : Kw(s, k, word) /\ ~Nested(k)}
SwitchCaseSpace(s) ==
    LET Default(sw) == FirstIn(SwitchLabels(s, sw, "default"))
        Loose(d) == Ws(s, d + 1) /\ PunctIn(s, d + 2, {":", ";"})
        switches == {sw \in DOMAIN s : /\ Kw(s, sw, "switch") /\ SwitchEnd(s, sw) # 0
                                       /\ Default(sw) # 0 => Loose(Default(sw))}
        Gap(c) == LET e == SwitchLabelEnd(s, c, 0)
                  IN  IF e # 0 /\ Ws(s, e - 1) /\ ~Comment(s, PrevNonWs(s, e)) THEN {PrevNonWs(s, e) + 1} ELSE {}
        gaps == UNION {UNION {Gap(c) : c \in SwitchLabels(s, sw, "case")} \cup
                       (IF Default(sw) # 0 THEN {Default(sw) + 1} ELSE {}) : sw \in switches}
    IN  Drop(s, gaps)

(* The loops and switches around i, innermost first.                       *)
RECURSIVE EnclosingLoopsAndSwitches(_, _)
EnclosingLoopsAndSwitches(s, i) ==
    LET b == EnclosingBrace(s, i)
        c == ClassifyBrace(s, b)
        this == IF c[1] # "control" THEN <<>>
                ELSE IF Kw(s, c[2], "switch") THEN <<"switch">>
                ELSE IF KwIn(s, c[2], {"for", "foreach", "while", "do"}) THEN <<"loop">> ELSE <<>>
    IN  IF b = 0 \/ c[1] \in {"function", "closure", "class"} THEN <<>>
        ELSE this \o EnclosingLoopsAndSwitches(s, b)
ContinueLevel(s, i) ==
    LET j == SigNext(s, i)
    IN  IF Punct(s, j, ";") THEN 1
        ELSE IF Kind(s, j, "Number") /\ Punct(s, SigNext(s, j), ";")
             THEN IF s[j].v = "2" THEN 2 ELSE 1         \* "continue 0" is "continue 1"
        ELSE 0
SwitchContinueToBreak(s) ==
    LET Targets(i) == EnclosingLoopsAndSwitches(s, i)
        at == {i \in DOMAIN s : /\ Kw(s, i, "continue") /\ ContinueLevel(s, i) \in 1 .. Len(Targets(i))
                                /\ Targets(i)[ContinueLevel(s, i)] = "switch"}
        Break(i) == <<Tok("Keyword", "break")>>
    IN  Rewrite(s, at, Break)
-----------------------------------------------------------------------------
(* Returns                                                                 *)
NoUselessReturn(s) ==
    LET Semi(i) == NextNonWs(s, i)
        After(i) == NextNonWs(s, Semi(i))
        at == {i \in DOMAIN s : /\ Kw(s, i, "return") /\ ~PunctIn(s, PrevNonWs(s, i), MemberOps)
                                /\ Punct(s, Semi(i), ";") /\ Punct(s, After(i), "}") /\ MatchBack(s, After(i)) # 0
                                /\ ClassifyBrace(s, MatchBack(s, After(i)))[1] \in {"function", "closure"}}
    IN  Drop(s, UNION {i .. Semi(i) : i \in at})

IsNullName(s, x) == Has(s, x) /\ s[x].k \in {"Ident", "Keyword"} /\ Lower(s[x].v) \in {"null", "mixed"}
(* funcReturnTypeNullable: ?T, or a union with null or mixed.              *)
FuncReturnTypeNullable(s, kw, brace) ==
    LET open == FirstIn({x \in kw + 1 .. brace - 1 : Punct(s, x, "(")})
        after == NextNonWs(s, Match(s, open))
        uses == NextNonWs(s, after)
        c == IF Kw(s, after, "use") THEN (IF Punct(s, uses, "(") THEN NextNonWs(s, Match(s, uses)) ELSE 0) ELSE after
    IN  /\ open # 0 /\ Match(s, open) \in 1 .. brace - 1 /\ Punct(s, c, ":")
        /\ \/ Punct(s, SigNext(s, c), "?")
           \/ \E x \in c + 1 .. brace - 1 : IsNullName(s, x) /\ ~Punct(s, SigPrev(s, x), "\\")
RECURSIVE EnclosingReturnTypeNullable(_, _)
EnclosingReturnTypeNullable(s, i) ==
    LET b == EnclosingBrace(s, i)
        c == ClassifyBrace(s, b)
    IN  /\ b # 0 /\ c[1] # "class"
        /\ IF c[1] \in {"function", "closure"} THEN FuncReturnTypeNullable(s, c[2], b) ELSE EnclosingReturnTypeNullable(s, b)
SimplifiedNullReturn(s) ==
    LET Null(i) == NextNonWs(s, i)
        Semi(i) == NextNonWs(s, Null(i))
        at == {i \in DOMAIN s : /\ Kw(s, i, "return") /\ ~MemberPrev(s, i)
                                /\ Has(s, Null(i)) /\ s[Null(i)].k \in {"Ident", "Keyword"} /\ Lower(s[Null(i)].v) = "null"
                                /\ Punct(s, Semi(i), ";") /\ ~EnclosingReturnTypeNullable(s, i)}
    IN  Drop(s, UNION {i + 1 .. Semi(i) - 1 : i \in at})
-----------------------------------------------------------------------------
(* no_break_comment                                                        *)
NoBreak == Tok("Comment", "//nb")
StructureKinds == {"for", "foreach", "while", "if", "elseif", "switch", "function", "match"}
NoBreakStructureEnd(s, p) ==
    LET v == Lower(s[p].v)
        open == IF v = "class" THEN SigNext(s, p) ELSE NextPunct(s, p, {"("})
        head == IF (v \in StructureKinds \/ v = "class") /\ Punct(s, open, "(") THEN Match(s, open) ELSE p
        body == IF v = "function" THEN NextPunct(s, head, {"{"}) ELSE SigNext(s, head)
        cond == NextPunct(s, Match(s, body), {"("})
    IN  IF body = 0 THEN Len(s)
        ELSE IF ~Punct(s, body, "{") THEN NextPunct(s, body, {";"})
        ELSE IF v = "do" THEN NextPunct(s, IF cond # 0 THEN Match(s, cond) ELSE Match(s, body), {";"})
        ELSE Match(s, body)
RECURSIVE CaseScan(_, _, _, _)
(* The scan of a case's statements from i on.  The structure end may be    *)
(* 0, "none": the scan then starts over at the first token, and one that   *)
(* starts over a third time never ends.                                    *)
CaseScan(s, colon, i, c) ==
    LET structure == KwIn(s, i, StructureKinds \cup {"else", "do", "class"})
        end == NoBreakStructureEnd(s, i)
        p == SigPrev(s, i)
        leaves == \/ KwIn(s, i, {"break", "continue", "return", "exit", "die", "goto"})
                  \/ Kw(s, i, "throw") /\ (p = colon \/ Kind(s, p, "OpenTag") \/ PunctIn(s, p, {"{", ";", "}"}))
    IN  IF ~Has(s, i) THEN [c EXCEPT !.stop = "end"]
        ELSE IF structure
             THEN IF end = 0 /\ c.restarts = 3 THEN [c EXCEPT !.stop = "never"]
                  ELSE CaseScan(s, colon, end + 1, [c EXCEPT !.empty = FALSE, !.restarts = IF end = 0 THEN @ + 1 ELSE @])
        ELSE IF leaves \/ Kw(s, i, "throw")
             THEN CaseScan(s, colon, i + 1, [c EXCEPT !.falls = @ /\ ~leaves])
        ELSE IF Kw(s, i, "endswitch") \/ Punct(s, i, "}") THEN [c EXCEPT !.stop = "close"]
        ELSE IF KwIn(s, i, {"case", "default"}) THEN [c EXCEPT !.stop = "case", !.at = i]
        ELSE IF s[i] = NoBreak THEN CaseScan(s, colon, i + 1, [c EXCEPT !.comment = i])
        ELSE CaseScan(s, colon, i + 1, [c EXCEPT !.empty = @ /\ Trivia(s, i)])
NoBreakScan(s, i) ==
    LET colon == NextPunct(s, i, {":", ";"})
    IN  IF colon = 0 THEN [stop |-> "end"]
        ELSE CaseScan(s, colon, colon + 1,
                      [stop |-> "", empty |-> TRUE, falls |-> TRUE, comment |-> 0, at |-> 0, restarts |-> 0])

EnsureNewLine(s, p) ==
    LET indent == LineIndent(s, p)
    IN  IF Ws(s, p - 1)
        THEN [toks |-> IF HasNewline(s, p - 1) THEN s ELSE SetAt(s, p - 1, Nl(indent)), at |-> p - 1]
        ELSE IF ~Kind(s, p - 1, "OpenTag") THEN [toks |-> InsertAt(s, p, <<Nl(indent)>>), at |-> p]
        ELSE IF indent = 0 THEN [toks |-> s, at |-> p - 1]
        ELSE [toks |-> InsertAt(s, p, <<WS(<<indent>>)>>), at |-> p]
InsertNoBreak(s, case) ==
    LET e == EnsureNewLine(s, case)
        w == e.toks[e.at].w
        above == WS(SubSeq(w, 1, Len(w) - 1) \o <<LineIndent(e.toks, e.at - 1)>>)
    IN  IF Len(w) > 2 THEN EnsureNewLine(ReplaceRange(e.toks, e.at, e.at, <<above, NoBreak, Nl(LastLine(w))>>), e.at + 1).toks
        ELSE EnsureNewLine(InsertAt(e.toks, e.at, <<NoBreak>>), e.at).toks
WithoutLastLine(w) ==
    IF Len(w) = 1 THEN w ELSE SubSeq(w, 1, LastIn({1} \cup {k \in 1 .. Len(w) - 1 : w[k] # 0}))
WithoutFirstLine(w) ==
    IF Len(w) = 1 \/ w[1] # 0 THEN w
    ELSE <<0>> \o SubSeq(w, FirstIn({Len(w)} \cup {k \in 2 .. Len(w) : w[k] # 0}) + 1, Len(w))
RemoveNoBreak(s, c) ==
    LET tag == Kind(s, PrevNonWs(s, c), "OpenTag")
        at == IF tag THEN c + 1 ELSE c - 1
        w == IF tag THEN WithoutFirstLine(s[at].w) ELSE WithoutLastLine(s[at].w)
        New(i) == IF i = at /\ w # <<0>> THEN <<WS(w)>> ELSE <<>>
    IN  Splices(s, {c} \cup (IF Ws(s, at) THEN {at} ELSE {}), New)
FixNoBreakCase(s, i) ==
    LET c == NoBreakScan(s, i)
        early == c.comment # 0 /\ PrevNonWs(s, c.at) # c.comment
    IN  IF c.stop \notin {"case", "close"} THEN s
        ELSE IF c.stop = "close" \/ c.empty \/ ~c.falls THEN IF c.comment # 0 THEN RemoveNoBreak(s, c.comment) ELSE s
        ELSE IF c.comment # 0 /\ ~early THEN EnsureNewLine(s, c.comment).toks
        ELSE LET r == IF early THEN RemoveNoBreak(s, c.comment) ELSE s IN InsertNoBreak(r, c.at)
IsSwitchLabel(s, i) ==
    \/ Kw(s, i, "default") /\ ~Punct(s, SigNext(s, i), "=>")
    \/ Kw(s, i, "case") /\ ~IsEnumCase(s, i)
RECURSIVE NoBreakFrom(_, _)
NoBreakFrom(s, i) ==
    IF i < 1 THEN s ELSE IF IsSwitchLabel(s, i) THEN NoBreakFrom(FixNoBreakCase(s, i), i - 1) ELSE NoBreakFrom(s, i - 1)
NoBreakComment(s) ==
    IF \E i \in DOMAIN s : Kw(s, i, "switch") THEN Compared(s, NoBreakFrom(s, Len(s))) ELSE Unchanged(s)
NoBreakNeverEnds(s) ==
    /\ \E i \in DOMAIN s : Kw(s, i, "switch")
    /\ \E i \in DOMAIN s : IsSwitchLabel(s, i) /\ NoBreakScan(s, i).stop = "never"
-----------------------------------------------------------------------------
(* new_with_parentheses                                                    *)
StaticRef(s, k) == Kind(s, k, "Ident") \/ Punct(s, k, "\\") \/ KwIn(s, k, {"static"})
RECURSIVE NameEnd(_, _), ReferenceEnd(_, _, _)
NameEnd(s, k) == IF StaticRef(s, k) THEN NameEnd(s, k + 1) ELSE k
ReferenceEnd(s, k, ops) ==
    LET m == SkipWs(s, k + 1)
    IN  IF PunctIn(s, k, ops) /\ (Kind(s, m, "Ident") \/ Kind(s, m, "Variable")) THEN ReferenceEnd(s, m + 1, ops)
        ELSE IF Punct(s, k, "[") /\ Match(s, k) # 0 THEN ReferenceEnd(s, Match(s, k) + 1, ops)
        ELSE k
NewWithParentheses(named, anonymous, s) ==
    LET News == {i \in DOMAIN s : Kw(s, i, "new")}
        Class(i) == SkipWs(s, i + 1)
        Last(i) == LET j == Class(i)
                   IN  IF Kw(s, j, "class") THEN IF anonymous THEN j ELSE 0
                       ELSE IF ~named THEN 0
                       ELSE IF Kind(s, j, "Variable") THEN ReferenceEnd(s, j + 1, MemberOps) - 1
                       ELSE IF StaticRef(s, j) THEN ReferenceEnd(s, NameEnd(s, j), {"::"}) - 1
                       ELSE 0
        Call(i) == <<s[i], P("("), P(")")>>
    IN  Rewrite(s, {e \in {Last(i) : i \in News} \ {0} : ~Punct(s, NextNonWs(s, e), "(")}, Call)
=============================================================================
