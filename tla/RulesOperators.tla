--------------------------- MODULE RulesOperators ---------------------------
(***************************************************************************)
(* The blink rules about operators and the constructs that surround them.  *)
(***************************************************************************)
EXTENDS RulesSpacing, RulesBlankLines

ConstructIdents == {"exit", "die", "eval", "__CLASS__", "__DIR__", "__FILE__", "__FUNCTION__", "__LINE__",
                    "__METHOD__", "__NAMESPACE__", "__TRAIT__"}
TString(s, i) == Kind(s, i, "Ident") /\ ~IsConstruct(s, i, ConstructIdents)   \* taIsTString

(* dynamicBraceOpen and the wider test of the unary operators.             *)
DynamicBraceOpen(s, o) ==
    LET p == SigPrev(s, o)
    IN  Has(s, o) /\ ((Kind(s, p, "Variable") /\ s[p].v = "$") \/ PunctIn(s, p, {"->", "?->"}))
RECURSIVE EndsDynamicBrace(_, _)
EndsDynamicBrace(s, i) ==
    LET o == MatchBack(s, i)
        p == SigPrev(s, o)
    IN  /\ o # 0 /\ p # 0
        /\ \/ s[p].k = "Variable"
           \/ s[p].k = "Ident" /\ PunctIn(s, SigPrev(s, p), {"->", "?->"})
           \/ PunctIn(s, p, {"->", "?->", "::", "$", "]"})
           \/ Punct(s, p, "}") /\ EndsDynamicBrace(s, p)
IsSuccessor(s, i) ==
    LET p == SigPrev(s, i)
    IN  /\ PunctIn(s, i, {"++", "--"}) /\ p # 0
        /\ s[p].k \in {"Variable", "Ident"} \/ Punct(s, p, "]") \/ (Punct(s, p, "}") /\ EndsDynamicBrace(s, p))
OperandEnd(s, p) ==
    /\ p # 0
    /\ \/ s[p].k \in {"Variable", "Ident", "Number", "String"} \/ PunctIn(s, p, {"]", "}", "++", "--"})
       \/ Punct(s, p, ")") /\ (MatchBack(s, p) = 0 \/ ~IsCastParen(s, MatchBack(s, p)))
IsPredecessor(s, i) ==
    LET p == SigPrev(s, i)
        stop == LastIn({j \in 1 .. i - 1 : Kind(s, j, "OpenTag") \/ PunctIn(s, j, {";", "{", "}", "=>"})
                                           \/ KwIn(s, j, {"fn", "function"})})
    IN  \/ PunctIn(s, i, {"++", "--"}) /\ ~IsSuccessor(s, i)
        \/ PunctIn(s, i, {"!", "~", "@", "..."})
        \/ PunctIn(s, i, {"+", "-", "&"}) /\ ~OperandEnd(s, p)
        \/ Punct(s, i, "&") /\ Kind(s, p, "Ident") /\ KwIn(s, stop, {"fn", "function"})
UnaryOperatorSpaces(full, s) ==
    LET at == {i \in DOMAIN s : Has(s, i) /\ s[i].k = "Punct" /\ (full \/ s[i].v \in {"++", "--"})}
    IN  Drop(s, {j \in DOMAIN s : /\ Ws(s, j)
                                  /\ \/ j + 1 \in at /\ IsSuccessor(s, j + 1) /\ ~Comment(s, j - 1)
                                     \/ j - 1 \in at /\ IsPredecessor(s, j - 1)})

(* "(new Foo)", whose parentheses are tokens of their own.                 *)
NoNewParenAfter == {"array", "class", "elseif", "for", "foreach", "if", "static", "switch", "while"}
NewParen(s, i, notAfter) ==
    LET p == SigPrev(s, i)
    IN  /\ Punct(s, i, "(") /\ Kw(s, SigNext(s, i), "new")
        /\ ~PunctIn(s, p, notAfter) /\ ~Kind(s, p, "Variable") /\ ~TString(s, p) /\ ~KwIn(s, p, NoNewParenAfter)
ClassInstantiationParen(s, i) == NewParen(s, i, {")", "]"})
-----------------------------------------------------------------------------
(* BinaryOperatorSpaces                                                    *)
BinaryOperators == {"=", "*", "/", "%", "<", ">", "^", ".", "&=", "&&", "||", ".=", "/=", "=>", "==", ">=", "===",
                    "!=", "<>", "!==", "<=", "-=", "%=", "*=", "|=", "+=", "**", "**=", "<<", "<<=", ">>", ">>=",
                    "^=", "<=>", "??", "??="}
IsTypeOperator(s, i) ==
    /\ Punct(s, i, "&") => ~Kind(s, SigNext(s, i), "Variable") /\ ~Punct(s, SigNext(s, i), "...")
    /\ IsPartOfType(s, i)
IsBinaryOperator(s, i) ==
    \/ KwIn(s, i, {"and", "or", "xor"}) /\ ~IsNamedArgument(s, i)
    \/ PunctIn(s, i, BinaryOperators) \/ (PunctIn(s, i, {"+", "-"}) /\ ~IsPredecessor(s, i))
    \/ Punct(s, i, "&") /\ ~IsTypeOperator(s, i) /\ ~IsPredecessor(s, i)
    \/ Punct(s, i, "|") /\ ~IsTypeOperator(s, i)
EqualsOfDeclare(s, i) ==
    LET p == SigPrev(s, i) IN TString(s, p) /\ Punct(s, SigPrev(s, p), "(") /\ Kw(s, SigPrev(s, SigPrev(s, p)), "declare")

EndsIndexable(s, p) ==
    LET o == MatchBack(s, p)
    IN  \/ Kind(s, p, "Variable") \/ TString(s, p) \/ Kind(s, p, "String") \/ Punct(s, p, "]")
        \/ Punct(s, p, ")") /\ (o = 0 \/ (~IsCastParen(s, o) /\ ~ClassInstantiationParen(s, o)))
OpensDestructuring(s, i) ==
    LET p == SigPrev(s, i)
        v == SigPrev(s, p)
    IN  /\ ~EndsIndexable(s, p) /\ ~(Punct(s, p, "}") /\ DynamicBraceOpen(s, MatchBack(s, p)))
        /\ Punct(s, p, "=>") => Kind(s, v, "Variable")
        /\ \/ Kw(s, p, "as") \/ (Punct(s, p, "=>") /\ Kw(s, SigPrev(s, v), "as"))
           \/ Match(s, i) # 0 /\ Punct(s, SigNext(s, Match(s, i)), "=")
(* bosSquareKinds: "[" of an array literal, neither of an index nor of a   *)
(* destructuring.                                                          *)
OpensArray(s, i) ==
    LET p == SigPrev(s, i)
    IN  /\ Punct(s, i, "[") /\ ~OpensDestructuring(s, i) /\ ~Punct(s, p, "}") /\ ~EndsIndexable(s, p)
        /\ ~\E d \in 1 .. i - 1 : /\ Punct(s, d, "[") /\ OpensDestructuring(s, d) /\ i < Match(s, d)
                                  /\ PunctIn(s, p, {",", "["})
IsPlainBrace(s, i) ==
    LET p == SigPrev(s, i)
        n == SigNext(s, Match(s, i))
    IN  /\ Punct(s, i, "{") /\ ~DynamicBraceOpen(s, i) /\ ~Punct(s, p, "\\") /\ ~IsPropertyHookBrace(s, i)
        /\ ~(Punct(s, p, "::") /\ Match(s, i) # 0 /\ (PunctIn(s, n, {";", "::"}) \/ Kind(s, n, "CloseTag")))
IsArrayKeyword(s, i) == Kw(s, i, "array") /\ Punct(s, SigNext(s, i), "(")
Multiline(s, i, j) == \E b \in i .. j : Broken(s, b)

RECURSIVE ArrowEndFrom(_, _)
ArrowEndFrom(s, i) ==
    IF i = 0 THEN SigPrev(s, Len(s) + 1)
    ELSE IF s[i].k \in {"CloseTag", "AttributeEnd"} \/ PunctIn(s, i, {")", "]", "}", ",", ";"}) THEN SigPrev(s, i)
    ELSE LET e == IF Kind(s, i, "AttributeStart") THEN AttributeEnd(s, i)
                  ELSE IF PunctIn(s, i, Openers) THEN Match(s, i) ELSE i
         IN  ArrowEndFrom(s, IF e = 0 THEN 0 ELSE SigNext(s, e))
(* taArrowFunctionEnd                                                      *)
ArrowFunctionEnd(s, i) ==
    LET a == NextPunct(s, i, {"=>"}) IN IF a = 0 THEN 0 ELSE ArrowEndFrom(s, SigNext(s, a))

(* The alignment: st holds the level of the scan, the deepest one so far   *)
(* and the placeholders, positions of operators with their level.          *)
RECURSIVE InjectDefault(_, _, _, _, _, _)
InjectDefault(s, i, end, op, fresh, st) ==
    LET new == fresh \/ Broken(s, i)
        Go(j) == InjectDefault(s, j, end, op, new, st)
        Nested(a, b) ==
            IF ~Multiline(s, a, b) THEN st
            ELSE [InjectDefault(s, a, b, op, TRUE, [st EXCEPT !.level = st.deep + 1, !.deep = @ + 1])
                    EXCEPT !.level = st.level]
        After(j, to) == InjectDefault(s, j, end, op, new, to)
        Block(b) ==
            IF Match(s, b) = 0 THEN Go(b + 1)
            ELSE IF IsPlainBrace(s, b) \/ (Punct(s, b, "(") /\ ~ClassInstantiationParen(s, b)) \/ OpensArray(s, b)
            THEN After(Match(s, b) + 1, Nested(b + 1, Match(s, b) - 1))
            ELSE IF Punct(s, b, "[") /\ ~OpensDestructuring(s, b) THEN Go(Match(s, b) + 1) ELSE Go(b + 1)
        until == ArrowFunctionEnd(s, i)
        header == FirstIn({j \in i + 1 .. Len(s) : \/ Punct(s, j, ";") \/ IsPlainBrace(s, j)
                                                   \/ Punct(s, j, "(") /\ ~ClassInstantiationParen(s, j)})
    IN  IF i >= end THEN st
        ELSE IF new /\ Has(s, i) /\ Lower(s[i].v) = op /\ IsBinaryOperator(s, i) /\ ~(op = "=" /\ EqualsOfDeclare(s, i))
             THEN InjectDefault(s, i + 1, end, op, FALSE, [st EXCEPT !.at = @ @@ (i :> st.level)])
        ELSE IF Kw(s, i, "fn")
             THEN IF until = 0 \/ SigNext(s, i) = 0 THEN Go(i + 1) ELSE After(until + 1, Nested(SigNext(s, i) + 1, until - 1))
        ELSE IF Kw(s, i, "function") \/ (Kw(s, i, "class") /\ ~IsNamedArgument(s, i))
             THEN IF header = 0 THEN st
                  ELSE IF Punct(s, header, "(") THEN Go((IF Match(s, header) > 0 THEN Match(s, header) ELSE header) + 1)
                  ELSE IF Punct(s, header, ";") THEN Go(header + 1) ELSE Block(header)
        ELSE IF PunctIn(s, i, Openers) THEN Block(i) ELSE Go(i + 1)

(* After "," the scan skips to the next arrow, multi-line array or line.   *)
SkippedTo(s, i, end) ==
    LET Open(j) == IF IsArrayKeyword(s, j) THEN SigNext(s, j) ELSE j
        stop == FirstIn({j \in i .. end - 2 :
                    \/ Broken(s, j) \/ Punct(s, j + 1, "=>")
                    \/ /\ IsArrayKeyword(s, j + 1) \/ OpensArray(s, j + 1)
                       /\ Match(s, Open(j + 1)) > 0 /\ Multiline(s, Open(j + 1), Match(s, Open(j + 1)))})
    IN  IF stop = 0 THEN Max2(i, end - 1) ELSE stop
RECURSIVE InjectArrow(_, _, _, _, _, _)
InjectArrow(s, i, end, fresh, yielded, st) ==
    LET new == fresh \/ Broken(s, i)
        yield == yielded \/ Kw(s, i, "yield")
        Go(j) == InjectArrow(s, j, end, new, yield, st)
        Nested(a, b) ==
            IF ~Multiline(s, a, b) THEN st
            ELSE [InjectArrow(s, a, b, TRUE, FALSE, [st EXCEPT !.level = st.deep + 1, !.deep = @ + 1])
                    EXCEPT !.level = st.level]
        Past(from, until, y) == InjectArrow(s, until + 1, end, new, y, Nested(from + 1, until - 1))
        until == ArrowFunctionEnd(s, i)
        open == IF Kw(s, i, "array") THEN SigNext(s, i) ELSE i
        deeper == IF yield THEN [st EXCEPT !.deep = @ + 1, !.level = st.deep + 1] ELSE st
        to == SkippedTo(s, i, end)
    IN  IF i >= end THEN st
        ELSE IF Kw(s, i, "fn")
             THEN IF until = 0 \/ SigNext(s, i) = 0 THEN InjectArrow(s, i + 1, end, new, FALSE, st)
                  ELSE Past(SigNext(s, i), until, FALSE)
        ELSE IF IsArrayKeyword(s, i) \/ OpensArray(s, i)
             THEN IF Match(s, open) = 0 THEN InjectArrow(s, i + 1, end, new, FALSE, st) ELSE Past(open, Match(s, open), FALSE)
        ELSE IF Punct(s, i, "=>") /\ new
             THEN InjectArrow(s, i + 1, end, FALSE, FALSE, [deeper EXCEPT !.at = @ @@ (i :> deeper.level)])
        ELSE IF Punct(s, i, ";")
             THEN InjectArrow(s, i + 1, end, new, yield, [st EXCEPT !.deep = @ + 1, !.level = @ + 1])
        ELSE IF Punct(s, i, ",") THEN InjectArrow(s, to + 1, end, new \/ \E j \in {to} : Broken(s, j), yield, st)
        ELSE IF IsPlainBrace(s, i) \/ (Punct(s, i, "(") /\ ~ClassInstantiationParen(s, i))
             THEN IF Match(s, i) = 0 THEN Go(i + 1) ELSE Past(i, Match(s, i), yield)
        ELSE Go(i + 1)

(* bosReplacePlaceholders: the placeholders of a level, padded into the    *)
(* column of the rightmost one of their group.                             *)
Placeholder(level) == [k |-> "Placeholder", v |-> "", w |-> <<level>>]
IsMinimal(how) == how \in {"align_single_space_minimal", "align_single_space_minimal_by_scope"}
ByScope(how) == how \in {"align_by_scope", "align_single_space_by_scope", "align_single_space_minimal_by_scope"}
AlignsSingleSpace(how) == IsMinimal(how) \/ how \in {"align_single_space", "align_single_space_by_scope"}
TextWidth(t) == IF t.k = "Whitespace" THEN LastLine(t.w) ELSE IF t.k = "Placeholder" THEN 14 ELSE Len(t.v)
LineNumber(s, i) == LET Upto[j \in 0 .. i] == IF j = 0 THEN 0 ELSE Upto[j - 1] + (IF Ws(s, j) THEN Breaks(s, j) ELSE 0)
                    IN  Upto[i]
Column(s, i) == LET Upto[j \in 0 .. i] == IF j = 0 THEN 0 ELSE TextWidth(s[j]) + (IF Broken(s, j) THEN 0 ELSE Upto[j - 1])
                IN  Upto[i - 1]
PlaceholdersMoved(s, at, how) ==
    LET Gap(i) == IF ~Ws(s, i) THEN <<Sp, s[i]>>
                  ELSE IF LastLine(s[i].w) = 0 THEN <<WS([s[i].w EXCEPT ![Len(s[i].w)] = 1])>>
                  ELSE IF IsMinimal(how) /\ ~HasNewline(s, i) THEN <<Sp>> ELSE <<s[i]>>
    IN  IF how = "align" THEN s ELSE Splices(s, {IF Ws(s, i - 1) THEN i - 1 ELSE i : i \in at}, Gap)
PaddedLevel(s0, level, how) ==
    LET At(s) == {i \in DOMAIN s : s[i] = Placeholder(level)}
        s == PlaceholdersMoved(s0, At(s0), how)
        lines == {LineNumber(s, i) : i \in At(s)}
        First(l) == FirstIn({i \in At(s) : LineNumber(s, i) = l})
        Group(l) == IF ByScope(how) THEN lines
                    ELSE {m \in lines : \A b \in Min2(l, m) .. Max2(l, m) : b \in lines}
        Pad(i) == LET cols == {Column(s, First(m)) : m \in Group(LineNumber(s, i))}
                  IN  LastIn(cols) - Column(s, First(LineNumber(s, i)))
        New(i) == IF Pad(i) > 0 THEN <<WS(<<Pad(i)>>)>> ELSE <<>>
    IN  IF At(s0) = {} THEN s0 ELSE Splices(s, At(s), New)
RECURSIVE PaddedLevels(_, _, _, _)
PaddedLevels(s, level, deep, how) ==
    IF level > deep THEN Relex(s) ELSE PaddedLevels(PaddedLevel(s, level, how), level + 1, deep, how)
(* One turn of fixAlignment: the tokens of s with op in columns.           *)
AlignedOperator(s, op, how, st) ==
    LET ops == {i \in 2 .. Len(s) - 1 : /\ Lower(s[i].v) = op /\ ~Trivia(s, i) /\ s[i].k # "String"
                                        /\ op = "=>" \/ IsBinaryOperator(s, i)
                                        /\ ~(op = "=" /\ EqualsOfDeclare(s, i))}
        spaced == IF AlignsSingleSpace(how) THEN ops ELSE {}
        put == IF op = "=>" THEN {i \in DOMAIN st.at : Has(s, i)} ELSE {}
        Before(i) == IF i \in spaced /\ ~Ws(s, i - 1) THEN <<Sp>> ELSE <<>>
        Hold(i) == IF i \in DOMAIN st.at THEN <<Placeholder(st.at[i])>> ELSE <<>>
        Squeezed(i) == \/ i - 1 \in put /\ Inline(s, i)
                       \/ i + 1 \in spaced /\ IsMinimal(how) /\ NotSp(s, i) /\ ~Comment(s, PrevNonWs(s, i))
        After(i) == IF i \in put /\ ~Ws(s, i + 1) THEN <<Sp>> ELSE <<>>
        New(i) == Before(i) \o Hold(i) \o <<IF Squeezed(i) THEN Sp ELSE s[i]>> \o After(i)
    IN  PaddedLevels(Splices(s, DOMAIN s, New), 0, st.deep, how)
RECURSIVE Alignment(_, _, _, _)
Alignment(s, how, last, st) ==
    LET op == CHOOSE o \in DOMAIN last : \A p \in DOMAIN last : last[p] <= last[o]
        start == [st EXCEPT !.at = <<>>]
        to == IF op = "=>" THEN InjectArrow(s, 1, Len(s) + 1, TRUE, FALSE, start)
              ELSE InjectDefault(s, 1, Len(s) + 1, op, TRUE, start)
    IN  IF last = <<>> THEN s
        ELSE Alignment(AlignedOperator(s, op, how[op], to), how, [o \in DOMAIN last \ {op} |-> last[o]], to)

(* how gives the handled operators their strategy, right to left.          *)
BinaryOperatorSpaces(how, s) ==
    LET Op(i) == Lower(s[i].v)
        ops == {i \in 2 .. Len(s) - 1 : IsBinaryOperator(s, i) /\ ~(Punct(s, i, "=") /\ EqualsOfDeclare(s, i))
                                        /\ Op(i) \in DOMAIN how}
        Of(hows) == {i \in ops : how[Op(i)] \in hows}
        single == Of({"single_space"})
        atLeast == Of({"single_space", "at_least_single_space"})
        minimal == {i \in ops : IsMinimal(how[Op(i)])}
        aligned == ops \ Of({"single_space", "at_least_single_space", "no_space"})
        Near(j, at) == NotSp(s, j) /\ \/ j - 1 \in at /\ ~Comment(s, NextNonWs(s, j))
                                      \/ j + 1 \in at /\ ~Comment(s, PrevNonWs(s, j))
        squeeze == {j \in DOMAIN s : Near(j, single) \/ (Ws(s, j) /\ s[j].w # <<1>> /\ j - 1 \in minimal)}
        gone == {j \in DOMAIN s : Inline(s, j) /\ \/ j - 1 \in Of({"no_space"}) /\ ~Comment(s, NextNonWs(s, j))
                                                  \/ j + 1 \in Of({"no_space"}) /\ ~Comment(s, PrevNonWs(s, j))}
        insert == {j \in DOMAIN s : GlueBefore(s, j) /\ \/ j \in atLeast \/ j - 1 \in atLeast
                                                        \/ j - 1 \in aligned /\ AlignsSingleSpace(how[Op(j - 1)])}
        New(j) == IF j \in gone THEN <<>> ELSE IF j \in squeeze THEN <<Sp>> ELSE <<Sp, s[j]>>
        r == Rewrite(s, squeeze \cup gone \cup insert, New)
        last == [o \in {Op(i) : i \in aligned} |-> LastIn({i \in aligned : Op(i) = o})]
        columns == Alignment(r.toks, how, last, [level |-> 0, deep |-> 0, at |-> <<>>])
    IN  Result(columns, r.changed \/ columns # r.toks)
SupportedOperators == (BinaryOperators \ {"."}) \cup {"|", "+", "-", "&", "and", "or", "xor"}
EveryOperator(how) == [o \in SupportedOperators |-> how]
-----------------------------------------------------------------------------
(* arrayNotationDestructuring: "[" of a destructuring.                     *)
RECURSIVE EnclosingOpener(_, _)
EnclosingOpener(s, j) ==
    IF j < 1 THEN 0 ELSE IF PunctIn(s, j, Openers) THEN j
    ELSE EnclosingOpener(s, IF PunctIn(s, j, Closers) /\ MatchBack(s, j) > 0 THEN MatchBack(s, j) - 1 ELSE j - 1)
SeesAs(s, i, enc) ==
    \E a \in enc + 1 .. i - 1 : Has(s, a) /\ Lower(s[a].v) = "as" /\ EnclosingOpener(s, a - 1) = enc
InForeachHead(s, i) ==
    LET enc == EnclosingOpener(s, i - 1)
    IN  enc # 0 /\ Punct(s, enc, "(") /\ SeesAs(s, i, enc) /\ Kw(s, SigPrev(s, enc), "foreach")
RECURSIVE Destructuring(_, _)
Destructuring(s, open) ==
    LET p == SigPrev(s, open)
        enc == EnclosingOpener(s, open - 1)
    IN  \/ Match(s, open) # 0 /\ Punct(s, SigNext(s, Match(s, open)), "=")
        \/ p # 0 /\ Lower(s[p].v) = "as"
        \/ Punct(s, p, "=>") /\ InForeachHead(s, open)
        \/ Punct(s, enc, "[") /\ ~IsOffsetOpen(s, enc) /\ Destructuring(s, enc)
        \/ Punct(s, enc, "(") /\ SigPrev(s, enc) # 0 /\ Lower(s[SigPrev(s, enc)].v) = "list"
-----------------------------------------------------------------------------
(* YodaStyle: the group of an operator is normalized to "yoda" or "nonYoda" *)
(* or left alone.                                                          *)
YodaGroup == [o \in {"==", "!=", "<>", "===", "!==", "<", ">", "<=", ">="} |->
                 IF o \in {"==", "!=", "<>"} THEN "equal" ELSE IF o \in {"===", "!=="} THEN "identical" ELSE "lessGreater"]
YodaMirror == ("<" :> ">") @@ (">" :> "<") @@ ("<=" :> ">=") @@ (">=" :> "<=")
YodaGroupParen(s, i) == Punct(s, i, "(") /\ ~IsCastParen(s, i) /\ ~NewParen(s, i, {")", "]", "}"})
IsGroupBracket(s, i) ==
    LET o == IF PunctIn(s, i, Closers) THEN MatchBack(s, i) ELSE i
    IN  PunctIn(s, i, Openers \cup Closers) /\ ~(Punct(s, o, "(") /\ IsCastParen(s, o))
YodaOpens(s, i) == Kind(s, i, "AttributeStart") \/ (PunctIn(s, i, Openers) /\ IsGroupBracket(s, i))
YodaCloses(s, i) == Kind(s, i, "AttributeEnd") \/ (PunctIn(s, i, Closers) /\ IsGroupBracket(s, i))
AssignmentOperators == {"=", "&=", ".=", "/=", "-=", "%=", "*=", "|=", "+=", "**=", "<<=", ">>=", "^=", "??="}
YodaLowerPrecedence(s, i) ==
    \/ PunctIn(s, i, AssignmentOperators \cup {"&&", "||", "=>", "??", "&", "|", "^", "?", ":", ",", ";"})
    \/ Kind(s, i, "OpenTag")
    \/ KwIn(s, i, {"case", "echo", "goto", "and", "or", "xor", "print", "return", "throw", "yield", "yield from",
                   "require", "require_once", "include", "include_once"})
RECURSIVE YodaEndFrom(_, _), YodaStartFrom(_, _, _)
(* yodaComparisonEnd and yodaComparisonStart, 0 past an unclosed block.    *)
YodaEndFrom(s, i) ==
    LET p == SigPrev(s, i)
        e == IF Kind(s, i, "AttributeStart") THEN AttributeEnd(s, i) ELSE Match(s, i)
    IN  IF Has(s, i) /\ ~YodaLowerPrecedence(s, i) /\ ~YodaCloses(s, i)
        THEN IF ~YodaOpens(s, i) THEN YodaEndFrom(s, i + 1) ELSE IF e = 0 THEN 0 ELSE YodaEndFrom(s, e + 1)
        ELSE IF Kind(s, p, "CloseTag") THEN SigPrev(s, p) ELSE p
YodaStartFrom(s, i, sawOperand) ==
    LET b == IF Kind(s, i, "AttributeEnd") THEN AttributeStartOf(s, i) ELSE MatchBack(s, i)
        statement == sawOperand /\ Punct(s, i, "}") /\ ~EndsDynamicBrace(s, i)
    IN  IF i < 1 \/ YodaLowerPrecedence(s, i) \/ YodaOpens(s, i) \/ (YodaCloses(s, i) /\ statement) THEN SigNext(s, Max2(i, 0))
        ELSE IF ~YodaCloses(s, i) THEN YodaStartFrom(s, i - 1, sawOperand \/ ~Trivia(s, i))
        ELSE IF b = 0 THEN 0 ELSE YodaStartFrom(s, b - 1, sawOperand)
IsDestructuringBracket(s, i) ==
    LET o == IF Punct(s, i, "]") THEN MatchBack(s, i) ELSE i
    IN  Punct(s, o, "[") /\ ~IsOffsetOpen(s, o) /\ Destructuring(s, o)
YodaIsListStatement(s, from, to) == \E i \in from .. to : Kw(s, i, "list") \/ IsDestructuringBracket(s, i)

(* yodaIsConstant: an array of nothing but brackets, "-" and a number, or  *)
(* one literal.                                                            *)
YodaIsConstant(s, from, to) ==
    LET part == SelectSeq([i \in 1 .. to - from + 1 |-> from + i - 1], LAMBDA i : ~Trivia(s, i))
        ArrayOpen(i) == Kw(s, i, "array") \/ (Punct(s, i, "[") /\ ~IsOffsetOpen(s, i))
        Minuses == {k \in DOMAIN part : Punct(s, part[k], "-")}
        Literal(i) == s[i].k \in {"Number", "String"} \/ (Kind(s, i, "Ident") /\ s[i].v \in {"true", "false", "null"})
    IN  \/ part = <<>>
        \/ ArrayOpen(part[1]) /\ \A k \in 2 .. Len(part) : PunctIn(s, part[k], {"(", ")", "]"})
        \/ Minuses # {1} /\ Len(part) = 1 /\ Literal(part[1])
        \/ 1 \in Minuses /\ (Len(part) = 1 \/ (Len(part) = 2 /\ Kind(s, part[2], "Number")))

(* yodaIsVariable: a walk over a chain of names, "->", indexes and braces; *)
(* member says that a property name is expected next.                      *)
RECURSIVE YodaChain(_, _, _, _, _), YodaUnwrapped(_, _, _)
YodaUnwrapped(s, from, to) ==
    IF YodaGroupParen(s, from) /\ Match(s, from) = to THEN YodaUnwrapped(s, SigNext(s, from), SigPrev(s, to)) ELSE <<from, to>>
YodaChain(s, i, end, member, strict) ==
    LET n == SigNext(s, i)
        Name(j) == Kind(s, j, IF member THEN "Ident" ELSE "Variable")
        Indexes(j) == PunctIn(s, j, {"[", "{"})
        Arrow(j) == PunctIn(s, j, {"->", "?->"})
        Go(j, m) == IF j = 0 THEN "other" ELSE YodaChain(s, j, end, m, strict)
        c == Match(s, n)
        d == Match(s, i)
        Bool(b) == IF b THEN "yes" ELSE "no"
    IN  IF i > end THEN "other"
        ELSE IF Trivia(s, i) THEN YodaChain(s, i + 1, end, member, strict)
        ELSE IF i = end THEN Bool(Name(i))
        ELSE IF Kw(s, i, "list") \/ IsDestructuringBracket(s, i) THEN "no"
        ELSE IF n = 0 THEN "other"
        ELSE IF Kind(s, i, "Ident") /\ Punct(s, n, "::") THEN Go(SigNext(s, n), member)
        ELSE IF (Punct(s, i, "\\") /\ Kind(s, n, "Ident")) \/ (Kind(s, i, "Ident") /\ Punct(s, n, "\\"))
             THEN Go(n, member)
        ELSE IF s[i].k \in {"Ident", "Variable"} /\ Arrow(n) THEN Go(SigNext(s, n), TRUE)
        ELSE IF Name(i) /\ Indexes(n)
             THEN IF c = 0 THEN "no" ELSE IF c = end THEN "yes"
                  ELSE IF ~Indexes(SigNext(s, c)) /\ ~Arrow(SigNext(s, c)) THEN "no"
                  ELSE IF SigNext(s, SigNext(s, c)) = 0 THEN "no" ELSE Go(SigNext(s, SigNext(s, c)), TRUE)
        ELSE IF strict /\ s[i].k \in {"Ident", "Variable"} /\ Punct(s, n, "(") THEN "no"
        ELSE IF member /\ Punct(s, i, "{")
             THEN IF d = 0 THEN "no" ELSE IF d = end THEN "yes"
                  ELSE IF ~Arrow(SigNext(s, d)) \/ SigNext(s, SigNext(s, d)) = 0 THEN "no"
                  ELSE Go(SigNext(s, SigNext(s, d)), TRUE)
        ELSE "other"
YodaIsBinaryOperator(s, i) ==
    \/ KwIn(s, i, {"and", "or", "xor"}) \/ (PunctIn(s, i, {"+", "-", "&"}) /\ ~IsPredecessor(s, i))
    \/ PunctIn(s, i, (BinaryOperators \ {"=>"}) \cup {"|"})
YodaIsVariable(s, from, to, strict) ==
    LET inner == YodaUnwrapped(s, from, to)
        walk == YodaChain(s, inner[1], inner[2], FALSE, strict)
        operates == \E i \in from .. to : \/ Punct(s, i, "(") /\ IsCastParen(s, i)
                                          \/ Kw(s, i, "instanceof") \/ Punct(s, i, "!") \/ YodaIsBinaryOperator(s, i)
    IN  IF from = to THEN Kind(s, from, "Variable")
        ELSE \/ YodaGroupParen(s, from)
             \/ /\ ~(strict /\ operates)
                /\ walk = "yes" \/ (walk = "other" /\ ~YodaIsConstant(s, from, inner[2]))

(* compareFixableInfo: the sides that trade places, <<>> when they stay.   *)
YodaSides(s, op, yoda, strict) ==
    LET rs == SigNext(s, op)
        re == YodaEndFrom(s, op + 1)
        ls == YodaStartFrom(s, op - 1, FALSE)
        le == SigPrev(s, op)
        left == YodaIsVariable(s, ls, le, strict)
        right == YodaIsVariable(s, rs, re, strict)
        Moves(var, at) == var /\ (strict \/ ~YodaGroupParen(s, at))
    IN  IF /\ rs # 0 /\ re >= rs /\ ls # 0 /\ le >= ls
           /\ yoda \/ ~PunctIn(s, SigNext(s, re), AssignmentOperators)
           /\ ~YodaIsListStatement(s, ls, le) /\ ~YodaIsListStatement(s, rs, re)
           /\ left # right /\ IF yoda THEN Moves(left, ls) ELSE Moves(right, rs)
        THEN <<ls, le, rs, re>> ELSE <<>>
(* Right to left; after a swap the scan resumes left of the left side.     *)
(* Each side is first fixed as a source of its own.                        *)
RECURSIVE YodaFrom(_, _, _, _)
YodaFrom(modes, strict, s, i) ==
    LET mode == modes[YodaGroup[s[i].v]]
        at == IF s[i].k # "Punct" \/ s[i].v \notin DOMAIN YodaGroup \/ mode = "leave" THEN <<>>
              ELSE YodaSides(s, i, mode = "yoda", strict)
        Part(a, b) == LET t == YodaFrom(modes, strict, <<Tok("OpenTag", "<?php"), Sp>> \o SubSeq(s, a, b) \o <<P(";")>>, b - a + 4)
                      IN  SubSeq(t, 3, Len(t) - 1)
        op == IF s[i].v \in DOMAIN YodaMirror THEN P(YodaMirror[s[i].v]) ELSE s[i]
        swapped == Part(at[3], at[4]) \o SubSeq(s, at[2] + 1, i - 1) \o <<op>>
                   \o SubSeq(s, i + 1, at[3] - 1) \o Part(at[1], at[2])
    IN  IF i <= 2 THEN s
        ELSE IF at = <<>> THEN YodaFrom(modes, strict, s, i - 1)
        ELSE YodaFrom(modes, strict, ReplaceRange(s, at[1], at[4], swapped), at[1] - 1)
YodaStyle(modes, alwaysMoveVariable, s) == Compared(s, YodaFrom(modes, alwaysMoveVariable, s, Len(s)))
YodaModes(equal, identical, lessGreater) == [equal |-> equal, identical |-> identical, lessGreater |-> lessGreater]
-----------------------------------------------------------------------------
(* TernaryToElvisOperator.  Brackets have the classes of PHP-CS-Fixer's    *)
(* blocks; a cast is one unit, named by its "(".                           *)
ElvisCastEnd(s, i) ==
    LET t == IF Inline(s, i + 1) THEN i + 2 ELSE i + 1
        c == IF Inline(s, t + 1) THEN t + 2 ELSE t + 1
    IN  IF /\ Punct(s, i, "(") /\ Has(s, t) /\ s[t].k \in {"Ident", "Keyword"} /\ Punct(s, c, ")")
           /\ Lower(s[t].v) \in (CastTypes \ {"real"}) \cup {"void"} THEN c ELSE 0
ElvisCastStart(s, i) == FirstIn({o \in Max2(1, i - 4) .. i : ElvisCastEnd(s, o) = i})
RECURSIVE FetchesConstant(_, _), ElvisClass(_, _)
FetchesConstant(s, p) ==
    LET b == SigPrev(s, MatchBack(s, p))
    IN  \/ Punct(s, p, "::")
        \/ /\ Punct(s, p, ")") /\ MatchBack(s, p) # 0 /\ Punct(s, b, "}") /\ MatchBack(s, b) # 0
           /\ FetchesConstant(s, SigPrev(s, MatchBack(s, b)))
ElvisBrace(s, i) ==
    LET p == SigPrev(s, i)
        n == SigNext(s, Match(s, i))
    IN  IF \/ PunctIn(s, i - 1, {"->", "?->"}) \/ (Kind(s, p, "Variable") /\ s[p].v = "$") \/ Punct(s, p, "\\")
           \/ /\ FetchesConstant(s, p) /\ Match(s, i) # 0
              /\ Kind(s, n, "CloseTag") \/ PunctIn(s, n, {";", "::"})
        THEN "dynamicBrace" ELSE "brace"
ElvisValue(s, p, anyBrace) ==
    \/ PunctIn(s, p, {")", "]"}) \/ Kind(s, p, "String") \/ TString(s, p) \/ (Kind(s, p, "Variable") /\ s[p].v # "$")
    \/ Punct(s, p, "}") /\ (anyBrace \/ ElvisClass(s, p) = "dynamicBrace")
ElvisDestructures(s, i) ==
    LET p == SigPrev(s, i)
        v == SigPrev(s, p)
    IN  /\ ~ElvisValue(s, p, FALSE)
        /\ \/ Kw(s, p, "as") \/ (Punct(s, p, "=>") /\ Kind(s, v, "Variable") /\ Kw(s, SigPrev(s, v), "as"))
           \/ /\ Punct(s, p, "=>") => Kind(s, v, "Variable")
              /\ Match(s, i) # 0 /\ Punct(s, SigNext(s, Match(s, i)), "=")
ElvisSquare(s, i) ==
    IF \/ ElvisDestructures(s, i)
       \/ \E d \in 1 .. i - 1 : Punct(s, d, "[") /\ ElvisDestructures(s, d) /\ i < Match(s, d) /\ PunctIn(s, SigPrev(s, i), {",", "["})
    THEN "destructuring" ELSE IF ElvisValue(s, SigPrev(s, i), TRUE) THEN "index" ELSE "array"
ElvisParen(s, i) ==
    LET p == SigPrev(s, i)
    IN  IF /\ Kw(s, SigNext(s, i), "new") /\ ~PunctIn(s, p, {")", "]"}) /\ ~KwIn(s, p, NoNewParenAfter) /\ ~TString(s, p)
           /\ ~(Kind(s, p, "Variable") /\ s[p].v # "$") THEN "newParen" ELSE "paren"
ElvisClass(s, i) ==
    LET o == IF PunctIn(s, i, Closers) THEN MatchBack(s, i) ELSE i
    IN  IF Has(s, i) /\ s[i].k \in {"AttributeStart", "AttributeEnd"} THEN "attribute"
        ELSE IF ElvisCastEnd(s, o) # 0 THEN "none"
        ELSE IF Punct(s, o, "(") THEN ElvisParen(s, o) ELSE IF Punct(s, o, "[") THEN ElvisSquare(s, o)
        ELSE IF Punct(s, o, "{") THEN ElvisBrace(s, o) ELSE "none"
ElvisOpens(s, i) == Kind(s, i, "AttributeStart") \/ PunctIn(s, i, Openers)
ElvisUnitEnd(s, i) == IF ElvisCastEnd(s, i) # 0 THEN ElvisCastEnd(s, i) ELSE i
ElvisPrev(s, i) == LET p == SigPrev(s, i) IN IF ElvisCastStart(s, p) # 0 THEN ElvisCastStart(s, p) ELSE p
ElvisNext(s, i) == SigNext(s, ElvisUnitEnd(s, i))
ElvisMatch(s, i) == IF Kind(s, i, "AttributeStart") THEN AttributeEnd(s, i) ELSE Match(s, i)
ElvisMatchBack(s, i) == IF Kind(s, i, "AttributeEnd") THEN AttributeStartOf(s, i) ELSE MatchBack(s, i)

(* The tokens of PHP: a cast is one, and "<?php" owns a blank or a break.  *)
PhpTokens(s, i) ==
    Cardinality({j \in 1 .. i : /\ ~\E c \in 1 .. j - 1 : j <= ElvisCastEnd(s, c)
                                /\ ~(Ws(s, j) /\ TagOwns(s, j) /\ s[j].w \in {<<1>>, <<0, 0>>})})
ElvisValidBefore(s, i) ==
    LET c == ElvisClass(s, i)
    IN  \/ Kind(s, i, "OpenTag") \/ PunctIn(s, i, (AssignmentOperators \ {"??="}) \cup {",", ";"})
        \/ (Punct(s, i, "(") /\ c = "paren") \/ (Punct(s, i, "[") /\ c = "index") \/ (PunctIn(s, i, {"{", "}"}) /\ c = "brace")
ElvisNullable(s, i) ==
    LET p == SigPrev(s, i)
    IN  PunctIn(s, p, {"(", ",", ":", "|"}) \/ Kind(s, p, "AttributeEnd") \/ KwIn(s, p, MemberModifiers \cup {"var", "const"})
ElvisElseColon(s, i) ==
    LET p == SigPrev(s, i)
        b == SigPrev(s, MatchBack(s, p))
        c == IF TString(s, b) THEN SigPrev(s, b) ELSE b
        d == IF Punct(s, c, "&") THEN SigPrev(s, c) ELSE c
    IN  /\ Punct(s, i, ":")
        /\ ~(Punct(s, p, ")") /\ MatchBack(s, p) # 0 /\ KwIn(s, d, {"fn", "function", "use"}))
        /\ ~(p # 0 /\ s[p].k \in {"Ident", "Keyword"} /\ PunctIn(s, SigPrev(s, p), {"(", ","}))
RECURSIVE ElvisBefore(_, _, _), ElvisAfter(_, _)
(* Where the condition that ends before i starts, 0 when it holds "++".    *)
ElvisBefore(s, i, start) ==
    LET o == ElvisMatchBack(s, i)
        closes == ElvisClass(s, i) # "none" /\ ~ElvisOpens(s, i)
    IN  IF i = 0 \/ ElvisValidBefore(s, i) THEN start
        ELSE IF PunctIn(s, i, {"++", "--"}) THEN 0
        ELSE IF ~closes THEN ElvisBefore(s, ElvisPrev(s, i), i)
        ELSE IF o = 0 \/ \E j \in o .. i : PunctIn(s, j, {"++", "--"}) THEN 0 ELSE ElvisBefore(s, ElvisPrev(s, o), o)
(* The last unit of the operand that starts at i and ends before ":".      *)
ElvisAfter(s, i) ==
    LET block == ElvisClass(s, i) # "none"
        e == IF block THEN ElvisMatch(s, i) ELSE i
        n == ElvisNext(s, e)
    IN  IF i = 0 \/ e = 0 \/ n = 0 THEN 0 ELSE IF ElvisElseColon(s, n) THEN e ELSE ElvisAfter(s, n)
ElvisUnitEquals(s, a, b) ==
    LET Text(i) == SubSeq(s, i, ElvisUnitEnd(s, i))
    IN  Text(a) = Text(b) /\ ElvisClass(s, a) = ElvisClass(s, b)
RECURSIVE ElvisStripped(_, _, _), ElvisSame(_, _, _, _, _)
ElvisStripped(s, a, b) ==
    IF a # 0 /\ b # 0 /\ Punct(s, a, "(") /\ Punct(s, b, ")") /\ ElvisClass(s, a) = "paren" /\ ElvisClass(s, b) = "paren"
    THEN ElvisStripped(s, ElvisNext(s, a), ElvisPrev(s, b)) ELSE <<a, b>>
ElvisSame(s, a, aEnd, b, bEnd) ==
    LET na == ElvisNext(s, a)
        nb == ElvisNext(s, b)
        doneA == na = 0 \/ na > aEnd
        doneB == nb = 0 \/ nb > bEnd
    IN  /\ ElvisUnitEquals(s, a, b)
        /\ IF doneA \/ doneB THEN doneA /\ doneB ELSE ElvisSame(s, na, aEnd, nb, bEnd)
ElvisRangeEquals(s, a, b) ==
    LET l == ElvisStripped(s, a[1], a[2])
        r == ElvisStripped(s, b[1], b[2])
    IN  l[1] # 0 /\ r[1] # 0 /\ ElvisSame(s, l[1], l[2], r[1], r[2])
RECURSIVE ElvisClear(_, _, _), ElvisFrom(_, _, _)
ElvisClear(s, i, first) ==
    LET inner == [j \in DOMAIN s |-> IF j \in i + 1 .. ElvisUnitEnd(s, i) THEN Cleared ELSE s[j]]
    IN  IF i < first \/ i = 0 THEN s ELSE ElvisClear(ClearAndMerge(inner, i), ElvisPrev(s, i), first)
ElvisFrom(s, given, i) ==
    LET pos == PhpTokens(given, i) - 1
        from == ElvisBefore(s, ElvisPrev(s, i), 0)
        n == ElvisNext(s, i)
        to == ElvisAfter(s, n)
        same == /\ Punct(s, i, "?") /\ pos > 1 /\ pos <= PhpTokens(given, Len(given)) - 5 /\ ~ElvisNullable(s, i)
                /\ ~Punct(s, n, ":") /\ from # 0 /\ to # 0 /\ ElvisRangeEquals(s, <<from, ElvisPrev(s, i)>>, <<n, to>>)
    IN  IF i <= 2 THEN s ELSE IF same THEN ElvisFrom(ElvisClear(s, to, n), given, i - 1) ELSE ElvisFrom(s, given, i - 1)
TernaryToElvisOperator(s) ==
    LET given == ClearEmptyTokens(s)
        to == ElvisFrom(given, given, Len(given))
    IN  IF to = given THEN Unchanged(given) ELSE Result(ClearEmptyTokens(to), TRUE)
-----------------------------------------------------------------------------
(* Increments and compound assignments.                                    *)
RECURSIVE LvChainForward(_, _), LvRoot(_, _, _)
LvChainForward(s, k) ==
    LET n == SigNext(s, k)
        m == SigNext(s, n)
    IN  IF PunctIn(s, n, {"->", "?->"})
        THEN IF m # 0 /\ s[m].k \in {"Ident", "Variable"} THEN LvChainForward(s, m) ELSE 0
        ELSE IF Punct(s, n, "[") THEN IF Match(s, n) = 0 THEN 0 ELSE LvChainForward(s, Match(s, n))
        ELSE k
OpAssignBoundary(s, i) ==
    Kind(s, i, "OpenTag") \/ Kw(s, i, "return") \/ PunctIn(s, i, {";", "{", "}", "(", ")", "[", ",", ":"})
LvRoot(s, k, last) ==
    IF k < 1 \/ OpAssignBoundary(s, k) THEN (IF Kind(s, last, "Variable") THEN last ELSE 0)
    ELSE IF Trivia(s, k) THEN LvRoot(s, k - 1, last)
    ELSE IF Punct(s, k, "]") THEN IF MatchBack(s, k) = 0 THEN 0 ELSE LvRoot(s, MatchBack(s, k) - 1, MatchBack(s, k))
    ELSE LvRoot(s, k - 1, k)
LvChainRootBack(s, end) == LvRoot(s, end, end)
(* The start of the assigned variable before the operator at i, or 0.      *)
LvBefore(s, i) ==
    LET lv == SigPrev(s, i)
        start == LvChainRootBack(s, lv)
    IN  IF lv # 0 /\ start # 0 /\ LvChainForward(s, start) = lv THEN start ELSE 0
SpanClean(s, a, b) == \A j \in a .. b : ~Comment(s, j)
Significant(s, a, b) == SelectSeq(SubSeq(s, a, b), LAMBDA t : t.k \notin {"Whitespace", "Comment", "DocComment"})

StandardizeIncrement(s) ==
    LET One(i) == SigNext(s, i)
        at == {i \in DOMAIN s : /\ PunctIn(s, i, {"+=", "-="}) /\ LvBefore(s, i) # 0
                                /\ Kind(s, One(i), "Number") /\ s[One(i)].v = "1"
                                /\ PunctIn(s, SigNext(s, One(i)), {";", ")", "]", ",", ":"})
                                /\ SpanClean(s, LvBefore(s, i), One(i))}
        Gap(i) == IF Ws(s, i - 1) THEN i - 1 ELSE One(i) + 1
        Op(i) == P(IF Punct(s, i, "-=") THEN "--" ELSE "++")
        gone == UNION {(i .. One(i)) \cup (IF Inline(s, Gap(i)) THEN {Gap(i)} ELSE {}) : i \in at}
        New(j) == IF j \in gone THEN <<>> ELSE <<Op(CHOOSE i \in at : LvBefore(s, i) = j), s[j]>>
    IN  Rewrite(s, gone \cup {LvBefore(s, i) : i \in at}, New)

ClassNamePart(s, i) == Kind(s, i, "Ident") \/ (Kind(s, i, "Keyword") /\ s[i].v = "static")
StatementBoundary(s, p) == Kind(s, p, "OpenTag") \/ PunctIn(s, p, {";", "{", "}", ")"})
IncIsSuccessor(s, i) ==
    LET p == SigPrev(s, i)
    IN  /\ p # 0
        /\ s[p].k \in {"Ident", "Variable"} \/ Punct(s, p, "]") \/ (Punct(s, p, "}") /\ DynamicBraceOpen(s, MatchBack(s, p)))
RECURSIVE IncVariable(_, _), IncFindStart(_, _), IncFindEnd(_, _)
IncVariable(s, i) ==      \* the variable before i, past brackets
    LET p == SigPrev(s, i)
        o == IF PunctIn(s, p, Closers) THEN MatchBack(s, p) ELSE p
    IN  IF o = 0 \/ Kind(s, o, "Variable") THEN o ELSE IncVariable(s, o)
IncFindStart(s, i) ==
    LET v == IncVariable(s, i)
        p == SigPrev(s, v)
        name == LastIn({j \in 1 .. p - 1 : ~ClassNamePart(s, j) /\ ~Punct(s, j, "\\")})
    IN  IF v = 0 THEN 0
        ELSE IF Kind(s, p, "Variable") /\ s[p].v = "$" THEN IncFindStart(s, v)
        ELSE IF PunctIn(s, p, {"->", "?->"}) THEN IncFindStart(s, p)
        ELSE IF ~Punct(s, p, "::") THEN v
        ELSE IF ClassNamePart(s, SigPrev(s, p)) THEN SigNext(s, name) ELSE IncFindStart(s, p)
IncFindEnd(s, i) ==
    LET n == SigNext(s, i)
        block == PunctIn(s, n, {"(", "["}) \/ (Punct(s, n, "{") /\ DynamicBraceOpen(s, n))
    IN  IF block THEN (IF Match(s, n) = 0 THEN 0 ELSE IncFindEnd(s, Match(s, n)))
        ELSE IF Kind(s, n, "Variable") \/ ClassNamePart(s, n) \/ Punct(s, n, "\\") THEN IncFindEnd(s, n)
        ELSE IF PunctIn(s, n, {"->", "?->"}) THEN IncFindEnd(s, n)
        ELSE IF Punct(s, n, "::") THEN IncFindEnd(s, SigNext(s, n)) ELSE i
IncrementStyle(post, s) ==
    LET Closed(i) == PunctIn(s, SigNext(s, i), {";", ")"})
        ops == {i \in DOMAIN s : PunctIn(s, i, {"++", "--"}) /\ IncIsSuccessor(s, i) # post}
        Target(i) == IF ~post THEN IncFindStart(s, i)
                     ELSE LET e == IncFindEnd(s, i) IN FirstIn({j \in e + 1 .. Len(s) : ~Ws(s, j)})
        moved == IF post THEN {i \in ops : /\ StatementBoundary(s, SigPrev(s, i)) /\ IncFindEnd(s, i) # 0
                                           /\ Closed(IncFindEnd(s, i)) /\ Target(i) # i + 1}
                 ELSE {i \in ops : Closed(i) /\ Target(i) # 0 /\ StatementBoundary(s, SigPrev(s, Target(i)))}
        joined == {i \in moved : Ws(s, i - 1) /\ Ws(s, i + 1)}
        Own(j) == IF j \in moved \/ j - 1 \in joined THEN <<>>
                  ELSE IF j + 1 \in joined THEN <<WS(JoinWs(s[j].w, s[j + 2].w))>> ELSE <<s[j]>>
        New(j) == (IF \E i \in moved : Target(i) = j THEN <<s[CHOOSE i \in moved : Target(i) = j]>> ELSE <<>>) \o Own(j)
    IN  IF moved = {} THEN Unchanged(s) ELSE Rewrite(s, DOMAIN s, New)

LongToShorthandOperator(s) ==
    LET Again(i) == SigNext(s, i)
        Op(i) == SigNext(s, LvChainForward(s, Again(i)))
        at == {i \in DOMAIN s :
                 /\ Punct(s, i, "=") /\ LvBefore(s, i) # 0 /\ Kind(s, Again(i), "Variable") /\ LvChainForward(s, Again(i)) # 0
                 /\ Significant(s, LvBefore(s, i), i - 1) = Significant(s, i + 1, LvChainForward(s, Again(i)))
                 /\ PunctIn(s, Op(i), {"+", "-", "*", "/", ".", "%", "&", "|", "^"})
                 /\ SigNext(s, Op(i)) # 0 /\ s[SigNext(s, Op(i))].k \in {"Variable", "Number", "String", "Ident"}
                 /\ Punct(s, SigNext(s, SigNext(s, Op(i))), ";") /\ SpanClean(s, i, Op(i))}
        New(j) == IF j \in at THEN <<P(s[Op(j)].v \o "=")>> ELSE <<>>
    IN  Rewrite(s, UNION {i .. Op(i) : i \in at}, New)
-----------------------------------------------------------------------------
(* OperatorLinebreak: a moved operator leaves an empty token until the end. *)
LinebreakOperators == (BinaryOperators \ {"&&", "||"}) \cup {"+", "-", "|", "&", ":", "?", "->", "?->", "::", "|>"}
IsReferenceAmp(s, i) ==
    LET p == SigPrev(s, i)
        q == IF Kind(s, p, "Ident") THEN SigPrev(s, p) ELSE p
    IN  /\ Punct(s, i, "&")
        /\ \/ PunctIn(s, p, {"=", "=>"}) \/ KwIn(s, p, {"as", "callable", "array"})
           \/ PunctIn(s, q, {"(", ",", "\\"}) \/ (Punct(s, q, "?") /\ IsNullableType(s, q))
IsLinebreakOperator(onlyBooleans, s, i) ==
    \/ KwIn(s, i, {"and", "or", "xor"}) \/ PunctIn(s, i, {"&&", "||"})
    \/ ~onlyBooleans /\ PunctIn(s, i, LinebreakOperators)
LinebreakExcluded(s, i, colons) ==
    \/ Punct(s, i, ":") /\ \/ IsTypeColon(s, i) \/ IsNamedArgumentColon(s, i) \/ BelongsToGotoLabel(s, i)
                           \/ BelongsToAlternativeSyntax(s, i) \/ i \in colons
    \/ IsNullableType(s, i) \/ IsPartOfType(s, i) \/ IsReturnRef(s, i) \/ IsReferenceAmp(s, i)
Blanked(s, at) == [j \in DOMAIN s |-> IF j \in at THEN [s[j] EXCEPT !.v = "", !.w = <<0>>] ELSE s[j]]
MovedOperators(s, ops) == IF Cardinality(ops) = 1 THEN <<s[FirstIn(ops)]>> ELSE <<s[FirstIn(ops)], s[LastIn(ops)]>>
MoveToLineStart(s, ops, next) ==
    LET gone == ops \cup {i - 1 : i \in {i \in ops : Ws(s, i - 1)}}
    IN  InsertAt(Blanked(s, gone), next, MovedOperators(s, ops) \o (IF Ws(s, FirstIn(ops) - 1) THEN <<Sp>> ELSE <<>>))
MoveToLineEnd(s, ops, prev) ==
    LET gone == ops \cup {i + 1 : i \in {i \in ops : Ws(s, i + 1)}}
    IN  InsertAt(Blanked(s, gone), prev + 1, (IF Ws(s, LastIn(ops) + 1) THEN <<Sp>> ELSE <<>>) \o MovedOperators(s, ops))
RECURSIVE LinebreakFrom(_, _, _, _, _)
LinebreakFrom(onlyBooleans, atEnd, s, colons, i) ==
    LET ops == IF Punct(s, i, ":") /\ Punct(s, SigPrev(s, i), "?") THEN {SigPrev(s, i), i} ELSE {i}
        lo == FirstIn(ops)
        p == SigPrev(s, lo)
        n == SigNext(s, i)
        moves == /\ IsLinebreakOperator(onlyBooleans, s, i) /\ ~LinebreakExcluded(s, i, colons)
                 /\ p # 0 /\ n # 0 /\ IF atEnd THEN Multiline(s, p + 1, lo) ELSE Multiline(s, i, n - 1)
    IN  IF i <= 1 THEN s
        ELSE IF ~moves THEN LinebreakFrom(onlyBooleans, atEnd, s, colons, i - 1)
        ELSE LinebreakFrom(onlyBooleans, atEnd, IF atEnd THEN MoveToLineEnd(s, ops, p) ELSE MoveToLineStart(s, ops, n), colons, lo - 1)
OperatorLinebreak(onlyBooleans, atEnd, s) ==
    LET to == LinebreakFrom(onlyBooleans, atEnd, s, SwitchCaseColons(s), Len(s))
    IN  IF to = s THEN Unchanged(s) ELSE Result(SelectSeq(to, LAMBDA t : t.v # "" \/ t.w \notin {<<>>, <<0>>}), TRUE)
-----------------------------------------------------------------------------
(* SingleSpaceAroundConstruct                                              *)
ConstructKeywords ==
    {"abstract", "as", "break", "case", "catch", "class", "clone", "const", "continue", "do", "echo", "else", "elseif",
     "enum", "extends", "final", "finally", "for", "foreach", "function", "global", "goto", "if", "implements", "include",
     "include_once", "instanceof", "insteadof", "interface", "match", "namespace", "new", "print", "private",
     "protected", "public", "readonly", "require", "require_once", "return", "static", "switch", "throw", "trait",
     "try", "use", "var", "while", "yield"}
FollowedByDefault ==
    {"abstract", "as", "case", "catch", "class", "do", "else", "elseif", "final", "finally", "for", "foreach",
     "function", "if", "insteadof", "interface", "namespace", "new", "private", "protected", "public", "readonly",
     "static", "switch", "trait", "try", "use", "while", "private_set", "protected_set", "public_set"}
IsImportOf(s, i) ==
    LET stop == FirstIn({j \in i + 1 .. Len(s) : PunctIn(s, j, {"=", "(", "}"}) \/ IsReturnRef(s, j)})
    IN  \/ Kw(s, SigPrev(s, i), "use")
        \/ Punct(s, stop, "}") /\ Punct(s, SigPrev(s, MatchBack(s, stop)), "\\")
KeywordConstruct(s, i) ==
    LET v == Lower(s[i].v)
    IN  IF v \in SetModifiers THEN CASE v = "public(set)" -> "public_set" [] v = "private(set)" -> "private_set"
                                     [] OTHER -> "protected_set"
        ELSE IF \/ v \notin ConstructKeywords \/ MemberPrev(s, i) \/ IsNamedArgument(s, i) \/ IsReturnRef(s, SigPrev(s, i))
                \/ v = "enum" /\ ~IsClassy(s, i)
                \/ v = "readonly" /\ Punct(s, SigNext(s, i), "(") THEN ""
        ELSE IF v = "use" THEN IF Punct(s, SigNext(s, i), "(") THEN "use_lambda"
                               ELSE IF InClassLikeBody(s, i) THEN "use_trait" ELSE "use"
        ELSE IF v = "const" /\ IsImportOf(s, i) THEN "const_import"
        ELSE IF v = "function" /\ IsImportOf(s, i) THEN "function_import" ELSE v
Construct(s, i) ==
    LET k == s[i].k
        p == SigPrev(s, i)
    IN  CASE k = "AttributeEnd" -> "attribute" [] k = "Comment" -> "comment" [] k = "DocComment" -> "php_doc"
          [] k = "OpenTag" -> IF s[i].v = "<?=" THEN "open_tag_with_echo" ELSE "php_open"
          [] k = "Punct" -> IF IsTypeColon(s, i) THEN "type_colon" ELSE IF IsNamedArgumentColon(s, i) THEN "named_argument" ELSE ""
          [] k = "Ident" -> IF /\ Lower(s[i].v) = "clone" /\ ~MemberPrev(s, i)
                               /\ ~KwIn(s, p, {"function", "const"}) /\ ~IsReturnRef(s, p) THEN "clone" ELSE ""
          [] k = "Keyword" -> IF s[i].v = "yield from" THEN "yield_from" ELSE KeywordConstruct(s, i)
          [] OTHER -> ""
SpacesPreceded(preceded, s) ==
    LET at == {i \in 2 .. Len(s) : /\ \/ KwIn(s, i, {"as", "else", "elseif"} \cap preceded) /\ ~MemberPrev(s, i)
                                      \/ Kw(s, i, "use") /\ Construct(s, i) = "use_lambda" /\ "use_lambda" \in preceded
                                   /\ ~IsLineComment(s, PrevNonWs(s, i))}
    IN  SetBlanks(s, {i \in at : ~Ws(s, i - 1)}, {i - 1 : i \in {i \in at : Ws(s, i - 1)}}).toks

(* The lines a construct is spread over, and what keeps it there.          *)
MultiLineReturn(s, i) ==
    LET Nest(j) == Count(s, j, {"{"}) - Count(s, j, {"}"}) - Count(s, i, {"{"}) + Count(s, i, {"}"})
        line == FirstIn({j \in i + 2 .. Len(s) - 1 : Broken(s, j)})
        end == FirstIn({j \in i + 2 .. Len(s) - 1 : Nest(j) = 0 /\ (Punct(s, j, ";") \/ Kind(s, j, "CloseTag"))})
    IN  Broken(s, i + 1) /\ line # 0 /\ (end = 0 \/ line < end)
ManyAncestors(s, i) ==
    LET comma == NextPunct(s, i, {","})
        line == FirstIn({j \in comma + 1 .. Len(s) : Broken(s, j)})
        body == NextPunct(s, i, {"{"})
    IN  comma # 0 /\ line # 0 /\ (body = 0 \/ line < body)
RECURSIVE ConstantLines(_, _, _, _)
ConstantLines(s, i, lines, more) ==
    LET e == IF Kind(s, i, "AttributeStart") THEN AttributeEnd(s, i) ELSE Match(s, i)
        n == IF YodaOpens(s, i) THEN e ELSE i
    IN  IF ~Has(s, i) \/ n = 0 \/ Punct(s, n, ";") \/ Kind(s, n, "CloseTag") THEN (lines \/ Broken(s, i)) /\ (more \/ Punct(s, i, ","))
        ELSE ConstantLines(s, n + 1, lines \/ Broken(s, i), more \/ Punct(s, i, ","))
KeepsAfter(s, i, name) ==      \* what follows the construct at i stays
    LET n == SigNext(s, i)
        next == i + 1
        line == Broken(s, next)
    IN  \/ PunctIn(s, next, {",", ":", ";", ")", "]"})
        \/ name = "static" /\ ~(KwIn(s, n, {"fn", "function", "array"}) \/ PunctIn(s, n, {"\\", "?"})
                                 \/ Kind(s, n, "Ident") \/ Kind(s, n, "Variable"))
        \/ name = "class" /\ Punct(s, n, "(")
        \/ name \in {"extends", "implements"} /\ ManyAncestors(s, i)
        \/ name = "return" /\ MultiLineReturn(s, i)
        \/ name = "const" /\ ConstantLines(s, i + 1, FALSE, FALSE)
        \/ name \in {"comment", "php_doc", "attribute"} /\ line
        \/ line /\ Has(s, next + 1) /\ s[next + 1].k \in {"AttributeStart", "DocComment"}
RECURSIVE SpacesFollowed(_, _, _)
SpacesFollowed(followed, s, i) ==
    LET name == Construct(s, i)
        Go(u) == SpacesFollowed(followed, u, i - 1)
    IN  IF i < 1 THEN s
        ELSE IF name \notin followed \/ (name # "php_open" /\ KeepsAfter(s, i, name)) THEN Go(s)
        ELSE IF name = "php_open" THEN (IF NotSp(s, i + 1) THEN Go(SetAt(s, i + 1, Sp)) ELSE Go(s))
        ELSE IF Ws(s, i + 1) THEN Go(SetAt(s, i + 1, Sp)) ELSE Go(InsertAt(s, i + 1, <<Sp>>))
SingleSpaceAroundConstruct(followed, preceded, s) ==
    LET p == SpacesPreceded(preceded, s) IN Compared(s, SpacesFollowed(followed, p, Len(p) - 1))
-----------------------------------------------------------------------------
(* Spaces of parentheses                                                   *)
CallConstructs == {"array", "echo", "empty", "include", "include_once", "isset", "list", "print", "require",
                   "require_once", "unset"}
GroupingConstructs == {"echo", "print", "include", "include_once", "require", "require_once"}
CastCloseParen(s, c) ==
    LET t == IF Inline(s, c - 1) THEN c - 2 ELSE c - 1
        o == IF Inline(s, t - 1) THEN t - 2 ELSE t - 1
    IN  Punct(s, c, ")") /\ IsCastType(s, t) /\ Punct(s, o, "(")
NewCloseParen(s, c) ==
    LET o == MatchBack(s, c)
    IN  /\ NewParen(s, o, {"]"})
        /\ Punct(s, SigPrev(s, o), ")") => CastCloseParen(s, SigPrev(s, o))
IsCallOpen(s, i) ==
    LET last == PrevNonWs(s, i)
        p == SigPrev(s, last)
        o == MatchBack(s, last)
        after == SigNext(s, Match(s, i))
    IN  /\ Punct(s, i, "(") /\ last # 0
        /\ KwIn(s, last, GroupingConstructs) /\ Match(s, i) # 0 /\ after # 0 => Punct(s, after, ";")
        /\ \/ Kind(s, last, "Variable") \/ KwIn(s, last, CallConstructs)
           \/ Kind(s, last, "Ident") /\ ~Kw(s, p, "function")
           \/ Punct(s, last, ")") /\ ~CastCloseParen(s, last) /\ ~NewCloseParen(s, last)
           \/ Punct(s, last, "]") /\ o # 0 /\ ~IsArrayLiteralOpen(s, o)
           \/ Punct(s, last, "}") /\ Kind(s, o - 1, "Variable") /\ s[o - 1].v = "$"
NoSpacesAfterFunctionName(s) == Drop(s, {i \in DOMAIN s : Ws(s, i) /\ IsCallOpen(s, i + 1)})

SpacesInsideParentheses(s) ==      \* space: single
    LET Casts(o) == CastClose(s, o) # 0
        opens == {i \in DOMAIN s : Punct(s, i, "(") /\ ~Casts(i) /\ NextNonWs(s, i) # 0 /\ ~Punct(s, NextNonWs(s, i), ")")}
        closes == {i \in DOMAIN s : Punct(s, i, ")") /\ PrevNonWs(s, i) # 0 /\ ~\E o \in 1 .. i : CastClose(s, o) = i}
        empty == {i - 1 : i \in {i \in closes : Punct(s, PrevNonWs(s, i), "(") /\ Inline(s, i - 1)}}
        full == {i \in closes : ~Punct(s, PrevNonWs(s, i), "(")}
        glue == {i \in full : ~Ws(s, i - 1)} \cup {i + 1 : i \in {i \in opens : ~Ws(s, i + 1)}}
        squeeze == {i - 1 : i \in {i \in full : NotSp(s, i - 1) /\ ~Comment(s, PrevNonWs(s, i))}}
                   \cup {i + 1 : i \in {i \in opens : NotSp(s, i + 1) /\ ~Comment(s, NextNonWs(s, i))}}
        New(i) == IF i \in empty THEN <<>> ELSE IF i \in squeeze THEN <<Sp>> ELSE <<Sp, s[i]>>
    IN  Rewrite(s, empty \cup glue \cup squeeze, New)
NoSpacesInsideParenthesis(single, s) ==
    IF single THEN SpacesInsideParentheses(s)
    ELSE Drop(s, {i \in DOMAIN s :
            /\ Inline(s, i)
            /\ \/ Punct(s, i - 1, "(") /\ ~ParenOpensArray(s, i - 1) /\ ~Comment(s, i + 1)
               \/ Punct(s, i + 1, ")") /\ ~ParenOpensArray(s, MatchBack(s, i + 1)) /\ ~Punct(s, SigPrev(s, i + 1), ",")})
=============================================================================
