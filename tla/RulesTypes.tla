----------------------------- MODULE RulesTypes -----------------------------
(***************************************************************************)
(* The blink rules about type declarations: parameters, properties and     *)
(* what functions return.                                                  *)
(***************************************************************************)
EXTENDS RulesClasses

LOCAL Seqs == INSTANCE SequencesExt

TypeModifiers == VisibilityModifiers \cup SetModifiers \cup {"readonly", "static", "var"}
NativeTypeNames == {"int", "string", "bool", "float", "void", "array", "iterable", "object", "mixed", "null", "false", "true",
                    "never", "callable", "self", "parent", "static"}
IsTypeName(s, i) == Kind(s, i, "Ident") \/ KwIn(s, i, NativeTypeNames)
AfterTypeBoundary(s, i, puncts) == PunctIn(s, PrevNonWs(s, i), puncts) \/ KwIn(s, PrevNonWs(s, i), TypeModifiers)
CompactNullableTypeDeclaration(s) ==
    LET at == {i \in DOMAIN s : /\ Punct(s, i, "?") /\ IsTypeName(s, NextNonWs(s, i))
                                /\ AfterTypeBoundary(s, i, {":", "(", ",", "|"})}
    IN  Drop(s, {j \in DOMAIN s : Inline(s, j) /\ PrevNonWs(s, j) \in at})

RECURSIVE InReturnType(_, _)
InReturnType(s, i) ==
    LET p == PrevNonWs(s, i)
    IN  IF Punct(s, p, ":") THEN IsReturnTypeColon(s, p)
        ELSE (Kind(s, p, "Ident") \/ PunctIn(s, p, {"?", "|", "&", "\\"})) /\ InReturnType(s, p)
TypeContextNext(s, i) == LET n == NextNonWs(s, i) IN Kind(s, n, "Variable") \/ PunctIn(s, n, {"|", "&", "{", ";"})
IsFunctionSignatureType(s, i) ==
    \/ EnclosingFuncParamOpen(s, i) # 0 /\ AfterTypeBoundary(s, i, {":", "(", ",", "|", "?", "&"}) /\ TypeContextNext(s, i)
    \/ InReturnType(s, i)
NativeFunctionTypeDeclarationCasing(s) ==
    LET at == {i \in DOMAIN s : /\ s[i].k \in {"Ident", "Keyword"} /\ s[i].v # Lower(s[i].v)
                                /\ Lower(s[i].v) \in NativeTypeNames /\ IsFunctionSignatureType(s, i)}
        New(i) == <<[s[i] EXCEPT !.v = Lower(@)]>>
    IN  Rewrite(s, at, New)

(* A "|" or "&" that joins type names, and what is around the whole type.   *)
IsTypeUnionPart(s, i) == IsTypeName(s, i) \/ PunctIn(s, i, {"?", "\\", "|", "&"})
TypeRunBoundaryPrev(s, i) == LastIn({j \in 1 .. i - 1 : ~Ws(s, j) /\ ~IsTypeUnionPart(s, j)})
TypeRunBoundaryNext(s, i) == FirstIn({j \in i + 1 .. Len(s) : ~Ws(s, j) /\ ~IsTypeUnionPart(s, j)})
IsTypeUnionOperator(s, i) ==
    LET n == NextNonWs(s, i)
        start == TypeRunBoundaryPrev(s, i)
    IN  /\ PunctIn(s, i, {"|", "&"}) /\ IsTypeName(s, PrevNonWs(s, i))
        /\ IsTypeName(s, n) \/ PunctIn(s, n, {"?", "\\"})
        /\ \/ InReturnType(s, i)
           \/ /\ Kind(s, TypeRunBoundaryNext(s, i), "Variable")
              /\ \/ KwIn(s, start, TypeModifiers)
                 \/ EnclosingFuncParamOpen(s, i) # 0 /\ PunctIn(s, start, {"(", ","})
CatchTypes(s, i) == NextPunct(s, NextNonWs(s, i), {")"})
(* typesSpacesFix.                                                         *)
SpaceUnions(s, single, ops) ==
    IF single THEN SpaceAround(s, ops) ELSE Drop(s, {j \in DOMAIN s : Inline(s, j) /\ (j - 1 \in ops \/ j + 1 \in ops)})
TypesSpaces(single, catches, catchSingle, s) ==
    LET Caught(t, j) == \E i \in 1 .. j : Kw(t, i, "catch") /\ Punct(t, NextNonWs(t, i), "(") /\ i < j /\ j < CatchTypes(t, i)
        Catches(t) == SpaceUnions(t, catchSingle, {j \in DOMAIN t : catches /\ Punct(t, j, "|") /\ Caught(t, j)})
    IN  Then(SpaceUnions(s, single, {i \in DOMAIN s : IsTypeUnionOperator(s, i) /\ ~(catches /\ Caught(s, i))}), Catches)

IsTypeDeclarationVariable(s, v) == EnclosingFuncParamOpen(s, v) # 0 \/ KwIn(s, TypeRunBoundaryPrev(s, PrevNonWs(s, v)), TypeModifiers)
TypedConstant(s, i) ==
    LET eq == NextPunct(s, i, {"=", ";"})
        name == PrevNonWs(s, eq)
    IN  IF Kw(s, i, "const") /\ Punct(s, eq, "=") /\ Kind(s, name, "Ident") /\ PrevNonWs(s, name) # i THEN name ELSE 0
TypeDeclarationSpaces(elements, s) ==
    LET Element(v) == IF EnclosingFuncParamOpen(s, v) # 0 THEN "function" ELSE "property"
        variables == {v \in DOMAIN s : Kind(s, v, "Variable") /\ IsTypeDeclarationVariable(s, v) /\ Element(v) \in elements}
        constants == IF "constant" \in elements THEN {TypedConstant(s, i) : i \in DOMAIN s} ELSE {}
        at == {v \in variables \cup constants : IsTypeName(s, PrevNonWs(s, v))}
    IN  SetBlanks(s, {v \in at : ~Ws(s, v - 1)}, {v - 1 : v \in {v \in at : NotSp(s, v - 1) /\ ~Ws(s, v - 2)}})
-----------------------------------------------------------------------------
(* nullable_type_declaration_for_default_null_value                        *)
HasNullDefault(s, v) ==
    LET eq == NextNonWs(s, v)
        null == NextNonWs(s, eq)
    IN  Punct(s, eq, "=") /\ Kind(s, null, "Ident") /\ Lower(s[null].v) = "null" /\ PunctIn(s, NextNonWs(s, null), {",", ")"})
DnfGroupOpen(s, close) ==
    LET open == MatchBack(s, close)
        group == open + 1 .. close - 1
    IN  IF /\ open # 0 /\ \E k \in group : Punct(s, k, "&")
           /\ \A k \in group : Ws(s, k) \/ IsTypeName(s, k) \/ PunctIn(s, k, {"&", "\\"})
        THEN open ELSE 0
RECURSIVE TypeStartFrom(_, _)
TypeStartFrom(s, cur) ==
    LET p == PrevNonWs(s, cur)
        prev == IF Punct(s, p, ")") THEN DnfGroupOpen(s, p) ELSE IF IsTypeUnionPart(s, p) THEN p ELSE 0
    IN  IF prev = 0 THEN cur ELSE TypeStartFrom(s, prev)
ParamTypeStart(s, end) ==
    LET last == IF Punct(s, end, ")") THEN DnfGroupOpen(s, end) ELSE IF IsTypeName(s, end) THEN end ELSE 0
    IN  IF last = 0 THEN 0 ELSE TypeStartFrom(s, last)
SignificantIn(s, from, to) == SelectSeq([j \in DOMAIN s |-> j], LAMBDA j : from <= j /\ j <= to /\ ~Trivia(s, j))
TypeWords(s, from, to) == [k \in DOMAIN SignificantIn(s, from, to) |-> Lower(s[SignificantIn(s, from, to)[k]].v)]
HasNullMember(words) ==
    \E k \in DOMAIN words : words[k] = "null" /\ (k = 1 \/ words[k - 1] = "|") /\ (k = Len(words) \/ words[k + 1] = "|")
Occurs(words, v) == Cardinality({k \in DOMAIN words : words[k] = v})
(* ntdRemoveNull: the "null" with its "|", and then parentheses that were   *)
(* only needed for it.                                                     *)
RemoveNull(s, start, end, words) ==
    LET null == FirstIn({j \in start .. end : Kind(s, j, "Ident") /\ Lower(s[j].v) = "null"})
        PastBlank(j) == IF Ws(s, j + 1) THEN j + 1 ELSE j
        OverBlank(j) == IF j > start /\ Ws(s, j - 1) THEN j - 1 ELSE j
        n == NextNonWs(s, null)
        p == PrevNonWs(s, null)
        lo == IF null = start THEN null ELSE OverBlank(IF p >= start /\ Punct(s, p, "|") THEN p ELSE null)
        hi == IF null # start THEN null ELSE PastBlank(IF n <= end /\ Punct(s, n, "|") THEN n ELSE null)
        t == ReplaceRange(s, lo, hi, <<>>)
        close == LastIn({j \in start .. end - (hi - lo + 1) : Punct(t, j, ")")})
        u == IF close = 0 THEN t ELSE ReplaceRange(t, IF close > start /\ Ws(t, close - 1) THEN close - 1 ELSE close, close, <<>>)
        open == FirstIn({j \in start .. Len(u) : Punct(u, j, "(") /\ j <= end})
    IN  IF null = 0 THEN s
        ELSE IF Occurs(words, "&") = 0 \/ Occurs(words, "|") # 1 THEN t
        ELSE IF open = 0 THEN u ELSE ReplaceRange(u, open, IF Ws(u, open + 1) THEN open + 1 ELSE open, <<>>)
AddNull(s, start, end, words) ==
    LET union == Occurs(words, "|") + Occurs(words, "&") > 0
        group == Occurs(words, "|") = 0
        or == <<P("|"), Tok("Ident", "null")>>
    IN  IF ~union THEN InsertAt(s, start, <<P("?")>>)
        ELSE IF ~group THEN InsertAt(s, end + 1, or)
        ELSE InsertAt(InsertAt(s, end + 1, <<P(")")>> \o or), start, <<P("(")>>)
NullableTypeDeclarationForDefaultNullValue(mode, s) ==
    LET RECURSIVE Go(_, _)
        Go(r, i) ==
            LET t == r.toks
                end == IF Punct(t, PrevNonWs(t, i), "&") THEN PrevNonWs(t, PrevNonWs(t, i)) ELSE PrevNonWs(t, i)
                start == ParamTypeStart(t, end)
                words == TypeWords(t, start, end)
                bare == IF words[1] = "?" THEN Tail(words) ELSE words
                nullable == words[1] = "?" \/ HasNullMember(words)
                union == Occurs(words, "|") + Occurs(words, "&") > 0
                applies == IF mode = "remove" THEN nullable /\ ~KwIn(t, PrevNonWs(t, start), TypeModifiers)
                           ELSE ~nullable /\ (union => mode = "union")
                fixed == IF mode # "remove" THEN AddNull(t, start, end, words)
                         ELSE IF union THEN RemoveNull(t, start, end, words)
                         ELSE ReplaceRange(t, start, IF Ws(t, start + 1) THEN start + 1 ELSE start, <<>>)
            IN  IF i < 1 THEN r
                ELSE IF Kind(t, i, "Variable") /\ EnclosingFuncParamOpen(t, i) # 0 /\ HasNullDefault(t, i) /\ end # 0 /\ start # 0
                        /\ bare \notin {<<"mixed">>, <<"null">>} /\ applies
                     THEN Go(Result(fixed, TRUE), start - 1)
                ELSE Go(r, i - 1)
    IN  Go(Unchanged(s), Len(s))
-----------------------------------------------------------------------------
(* nullable_type_declaration: a type is the positions of its tokens.       *)
FunctionParamsOpen(s, fn) ==
    LET j == IF Punct(s, SigNext(s, fn), "&") THEN SigNext(s, SigNext(s, fn)) ELSE SigNext(s, fn)
        open == IF Has(s, j) /\ s[j].k \in {"Ident", "Keyword"} THEN SigNext(s, j) ELSE j
    IN  IF Punct(s, open, "(") THEN open ELSE 0
ReturnTypeAt(s, close) ==
    LET after == SigNext(s, close)
        colon == IF Kw(s, after, "use") THEN SigNext(s, Match(s, NextPunct(s, after, {"("}))) ELSE after
        end == NextPunct(s, colon, {"{", ";", "=>"})
    IN  IF Punct(s, colon, ":") THEN SignificantIn(s, colon + 1, IF end = 0 THEN Len(s) ELSE end - 1) ELSE <<>>
ArgumentTypeAt(s, from, to) ==
    LET v == FirstIn({j \in from .. to : Kind(s, j, "Variable") /\ ~InAttribute(s, j)})
        NotType(j) ==
            \/ InAttribute(s, j) \/ Punct(s, j, "...")
            \/ Punct(s, j, "&") /\ (Kind(s, SigNext(s, j), "Variable") \/ Punct(s, SigNext(s, j), "..."))
            \/ KwIn(s, j, VisibilityModifiers \cup SetModifiers \cup {"final", "readonly"})
    IN  SelectSeq(SignificantIn(s, from, v - 1), LAMBDA j : ~NotType(j))
PropertyTypeAt(s, v) ==
    LET mod == LastIn({j \in 1 .. v - 1 : KwIn(s, j, PropertyModifiers) \/ PunctIn(s, j, {"{", "}", ";"})})
    IN  IF mod = 0 \/ Kind(s, mod, "Punct") THEN <<>> ELSE SignificantIn(s, mod + 1, v - 1)
NormalizeNullable(s, at, union) ==
    LET type == [k \in DOMAIN at |-> s[at[k]]]
        words == [k \in DOMAIN at |-> Lower(type[k].v)]
        question == words[1] = "?"
        name == IF question THEN Tail(words) ELSE words
        pipe == FirstIn({k \in DOMAIN words : words[k] = "|"})
        nullLast == pipe # 0 /\ pipe = Len(words) - 1 /\ words[Len(words)] = "null"
        nullFirst == Len(name) > 1 /\ name[1] = "null" /\ name[2] = "|"
        kept == IF nullLast THEN SubSeq(type, 1, pipe - 1) ELSE SubSeq(type, pipe + 1, Len(type))
        new == IF union THEN <<Tok("Ident", "null"), P("|")>> \o Tail(type) ELSE <<P("?")>> \o kept
        t == ReplaceRange(s, at[1], at[Len(at)], new)
    IN  IF \/ at = <<>> \/ ~(question \/ HasNullMember(words)) \/ name = <<"null">> \/ Occurs(words, "&") > 0
           \/ IF union THEN pipe # 0 ELSE Occurs(words, "|") # 1 \/ ~(nullLast \/ nullFirst)
        THEN Unchanged(s)
        ELSE Result(IF at[1] > 1 /\ ~Ws(t, at[1] - 1) /\ ~Punct(t, at[1] - 1, "(") THEN InsertAt(t, at[1], <<Sp>>) ELSE t, TRUE)
NullableTypeDeclaration(union, s) ==
    LET Normalize(t, at) == NormalizeNullable(t, at, union)
        Properties(t) == {v \in ClassyElements(t) : Kind(t, v, "Variable") /\ ~IsPromoted(t, v)}
        RECURSIVE Arguments(_, _, _)
        Arguments(t, open, ends) ==                       \* the last one first
            LET end == LastIn(ends)
                rest == ends \ {end}
                Rest(u) == Arguments(u, open, rest)
            IN  IF ends = {} THEN Unchanged(t)
                ELSE Then(Normalize(t, ArgumentTypeAt(t, (IF rest = {} THEN open ELSE LastIn(rest)) + 1, end - 1)), Rest)
        Function(t, open) ==
            LET close == Match(t, open)
                Params(u) == Arguments(u, open, IF SigNext(u, open) = close THEN {} ELSE Separators(u, open) \cup {close})
            IN  IF close = 0 THEN Unchanged(t) ELSE Then(Normalize(t, ReturnTypeAt(t, close)), Params)
        properties == Properties(s)
        At(t, i) == i \in properties \/ KwIn(t, i, {"function", "fn"})
        Fix(t, i) == IF i \in properties THEN Normalize(t, PropertyTypeAt(t, i)) ELSE Function(t, FunctionParamsOpen(t, i))
    IN  ForEachBack(s, At, Fix)
NullableTypeDeclarationCandidate(union, s) == union \/ HasAnyWord(s, {"null"})
-----------------------------------------------------------------------------
(* ordered_types: a run of names and one operator, on one line.            *)
TypeMembers(ts, op) ==
    LET words == SelectSeq(ts, LAMBDA t : t.k # "Whitespace")
        bounds == <<0>> \o SelectSeq([k \in DOMAIN words |-> k], LAMBDA k : words[k] = op) \o <<Len(words) + 1>>
    IN  [k \in 1 .. Len(bounds) - 1 |-> SubSeq(words, bounds[k] + 1, bounds[k + 1] - 1)]
Sortable(ts, op) ==
    /\ \A k \in DOMAIN ts : ~Broken(ts, k) /\ ~Comment(ts, k) /\ (Kind(ts, k, "Punct") => ts[k] \in {op, P("\\")})
    /\ <<>> \notin {TypeMembers(ts, op)[k] : k \in DOMAIN TypeMembers(ts, op)}
SortedTypes(keepOrder, nulls, caseSensitive, members) ==
    LET Name(k) == TextOf(members[k])
        IsNull(k) == Len(members[k]) = 1 /\ Lower(members[k][1].v) = "null"
        given == <<>> \o [k \in DOMAIN members |-> k]
        sorted == IF keepOrder THEN given
                  ELSE SortSeq(given, LAMBDA a, b : PhpNameBefore(WithoutSlash(Name(a)), WithoutSlash(Name(b)), a, b, caseSensitive))
        Nulls == SelectSeq(sorted, IsNull)
        Others == SelectSeq(sorted, LAMBDA k : ~IsNull(k))
    IN  CASE nulls = "first" -> Nulls \o Others [] nulls = "last" -> Others \o Nulls [] OTHER -> sorted
OrderedTypes(keepOrder, nulls, caseSensitive, s) ==
    LET From(t, i) == SkipWs(t, TypeRunBoundaryPrev(t, i) + 1)
        To(t, i) == PrevNonWs(t, TypeRunBoundaryNext(t, i))
        At(t, i) == IsTypeUnionOperator(t, i) /\ TypeRunBoundaryNext(t, i) # 0 /\ ~\E j \in From(t, i) .. i - 1 : PunctIn(t, j, {"|", "&"})
        Sort(t, i) ==
            LET run == SubSeq(t, From(t, i), To(t, i))
                members == TypeMembers(run, t[i])
                order == SortedTypes(keepOrder, nulls, caseSensitive, members)
                Slot(k) == (IF k > 1 THEN <<t[i]>> ELSE <<>>) \o members[order[k]]
            IN  IF ~Sortable(run, t[i]) \/ [k \in DOMAIN order |-> members[order[k]]] = members THEN Unchanged(t)
                ELSE Result(ReplaceRange(t, From(t, i), To(t, i), Seqs!FlattenSeq([k \in DOMAIN order |-> Slot(k)])), TRUE)
    IN  ForEach(s, At, Sort)
=============================================================================
