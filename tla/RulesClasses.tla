---------------------------- MODULE RulesClasses ---------------------------
(***************************************************************************)
(* The blink rules about classes: their headers, the order and modifiers   *)
(* of their members, and the names a class has for itself.                 *)
(***************************************************************************)
EXTENDS RulesImports, RulesControl

LOCAL Seqs == INSTANCE SequencesExt

HoldsLine(s, i) == Broken(s, i) \/ Spelled(s, i) \in {"/*m*/", "/**m*/"}
CdIsClassy(s, i) ==
    /\ KwIn(s, i, {"class", "interface", "trait"}) \/ (Kw(s, i, "enum") /\ Kind(s, NextNonWs(s, i), "Ident"))
    /\ ~MemberPrev(s, i) /\ ~IsNamedArgumentColon(s, SigNext(s, i))
(* makeClassyDefinitionSingleLine: no gap looks at another.                *)
MakeSingleLine(o, s, start, end) ==
    LET at(i) == i \in start .. end
        Kept(i) ==
            \/ Broken(s, i) /\ (Kind(s, i - 1, "AttributeEnd") \/ Kind(s, i + 1, "AttributeStart")
                                \/ Kind(s, i - 1, "DocComment") \/ Kind(s, i + 1, "DocComment"))
            \/ IsLineComment(s, i - 1)
            \/ ~Comment(s, i - 1) /\ Spelled(s, i + 1) \in {"//c", "//nb"}
        Tight(i) ==
            /\ ~Comment(s, i - 1) /\ ~Comment(s, i + 1)
            /\ IF Kw(s, i - 1, "class") /\ Punct(s, i + 1, "(") THEN ~o.spaceBeforeParenthesis
               ELSE Punct(s, i - 1, "(") \/ (PunctIn(s, i + 1, {",", ")"}) /\ ~Punct(s, i - 1, ","))
        Opens(i) ==                                  \* between i - 1 and i
            /\ ~Ws(s, i - 1) /\ ~Ws(s, i)
            /\ \/ at(i) /\ Comment(s, i) /\ ~Comment(s, i - 1)
               \/ at(i - 1) /\ Comment(s, i - 1) /\ ~Comment(s, i) /\ ~HoldsLine(s, i - 1)
               \/ at(i - 1) /\ (Punct(s, i - 1, ",") \/ (Kw(s, i - 1, "class") /\ o.spaceBeforeParenthesis))
        New(i) == IF ~Ws(s, i) THEN <<Sp, s[i]>> ELSE IF Tight(i) THEN <<Cleared>> ELSE <<Sp>>
    IN  Splices(s, {i \in start .. end + 1 : Has(s, i) /\ IF Ws(s, i) THEN at(i) /\ ~Kept(i) ELSE Opens(i)}, New)
Heritage == {"implements", "extends"}
(* makeClassyInheritancePartMultiLine: from the last name back.            *)
RECURSIVE InheritanceLines(_, _, _, _)
InheritanceLines(o, s, start, i) ==
    LET prev == LastIn({j \in 1 .. i - 1 : Punct(s, j, ",") \/ KwIn(s, j, Heritage)})
        first == SigNext(s, prev)
        t == MakeSingleLine(o, s, first, i)
        line == Nl(4)
        u == IF \E j \in prev + 1 .. first : HoldsLine(t, j) THEN t
             ELSE IF Ws(t, first - 1) THEN SetAt(t, first - 1, line) ELSE InsertAt(t, first, <<line>>)
    IN  IF i <= start \/ prev = 0 THEN s ELSE InheritanceLines(o, u, start, prev)
CdFindKeyword(s, word, from, to) == FirstIn({j \in from .. to : Kw(s, j, word)})
(* The extends or implements part at start; at 0 there is none.            *)
InheritanceInfo(s, start) ==
    LET stop == FirstIn({j \in start + 1 .. Len(s) : Punct(s, j, "{") \/ KwIn(s, j, Heritage)})
        names == start + 1 .. (IF Punct(s, stop, "{") THEN PrevNonWs(s, stop) ELSE stop) - 1
    IN  [start |-> start, count |-> 1 + Cardinality({j \in names : Punct(s, j, ",")}),
         multiLine |-> start # 0 /\ \E j \in names : HoldsLine(s, j)]
(* fixInheritance: the tokens, and whether the part has several lines now. *)
FixInheritance(o, s, open, part, implements) ==
    LET end == PrevNonWs(s, open)
    IN  IF o.singleLine \/ ~part.multiLine \/ (o.singleItemSingleLine /\ part.count = 1)
        THEN [toks |-> MakeSingleLine(o, s, part.start, end), multiLine |-> FALSE]
        ELSE [toks |-> IF implements \/ o.extendsEachSingleLine THEN InheritanceLines(o, s, part.start, end) ELSE s,
              multiLine |-> TRUE]
FixOpenSpacing(s, classy, anonymous, multiLine) ==
    LET open == NextPunct(s, classy, {"{"})
        gap == IF anonymous /\ ~multiLine THEN Sp ELSE Nl(0)
    IN  IF gap # Sp /\ HoldsLine(s, open - 1) THEN s
        ELSE IF ~Ws(s, open - 1) THEN InsertAt(s, open, <<gap>>)
        ELSE IF gap # Sp \/ ~Comment(s, PrevNonWs(s, open - 1)) THEN SetAt(s, open - 1, gap) ELSE s
(* Past what an anonymous class is given, back to its arguments' "(".      *)
RECURSIVE AnonymousEnd(_, _, _)
AnonymousEnd(o, s, end) ==
    IF end = 0 \/ Kw(s, end, "class") THEN Result(s, end)
    ELSE IF Punct(s, end, ")") THEN Result(s, MatchBack(s, end))
    ELSE AnonymousEnd(o, MakeSingleLine(o, s, SigPrev(s, end), end), SigPrev(s, end))
RECURSIVE ModifiersStart(_, _, _)
ModifiersStart(s, i, words) == IF KwIn(s, SigPrev(s, i), words) THEN ModifiersStart(s, SigPrev(s, i), words) ELSE i
(* "readonly" goes behind "final" and "abstract".                          *)
CdSortModifiers(s, start, classy) ==
    LET At(word) == LastIn({j \in start .. classy - 1 : Kw(s, j, word)})
        m == IF At("final") >= At("readonly") THEN At("final") ELSE At("abstract")
        ro == At("readonly")
    IN  [from |-> ro, to |-> IF ro # 0 /\ m > ro THEN m ELSE ro]
FixClassyDefinition(o, s, classy) ==
    LET open == NextPunct(s, classy, {"{"})
        word == Lower(s[classy].v)
        Part(w) == InheritanceInfo(s, CdFindKeyword(s, w, classy, open))
        NoPart == InheritanceInfo(s, 0)
        extends == IF word = "trait" THEN NoPart ELSE Part("extends")
        implements == IF word \in {"trait", "interface"} THEN NoPart ELSE Part("implements")
        anonymous == IsAnonymousClass(s, classy)
        start == IF anonymous THEN LastIn({j \in 1 .. classy : Kw(s, j, "new")})
                 ELSE ModifiersStart(s, classy, {"final", "abstract", "readonly"})
        swap == CdSortModifiers(s, start, classy)
        i == IF implements.start = 0 THEN [toks |-> s, multiLine |-> FALSE] ELSE FixInheritance(o, s, open, implements, TRUE)
        e == IF extends.start = 0 THEN [toks |-> i.toks, multiLine |-> FALSE]
             ELSE FixInheritance(o, i.toks, IF implements.start = 0 THEN open ELSE implements.start, extends, FALSE)
        t == FixOpenSpacing(e.toks, classy, anonymous, IF implements.start = 0 THEN e.multiLine ELSE i.multiLine)
        end == IF implements.start # 0 THEN implements.start ELSE IF extends.start # 0 THEN extends.start
               ELSE PrevNonWs(t, NextPunct(t, classy, {"{"}))
        a == IF anonymous /\ ~o.inlineConstructorArguments THEN AnonymousEnd(o, t, end) ELSE Result(t, end)
        u == MakeSingleLine(o, a.toks, start, a.changed)
    IN  IF open = 0 THEN s
        ELSE IF anonymous \/ swap.from = swap.to THEN u
        ELSE [u EXCEPT ![swap.from] = u[swap.to], ![swap.to] = u[swap.from]]
ClassDefinition(o, s) ==
    LET RECURSIVE Back(_, _)
        Back(t, i) == IF i < 2 THEN t ELSE IF CdIsClassy(t, i) THEN Back(FixClassyDefinition(o, t, i), i - 1) ELSE Back(t, i - 1)
    IN  Compared(s, ClearEmptyTokens(Back(s, Len(s) - 3)))
ClassDefinitionDefault ==
    [singleLine |-> FALSE, singleItemSingleLine |-> FALSE, extendsEachSingleLine |-> FALSE,
     spaceBeforeParenthesis |-> FALSE, inlineConstructorArguments |-> FALSE]
-----------------------------------------------------------------------------
(* The members of a class body by the token that names them: a variable,   *)
(* "function", "const", "use" or "case".                                   *)
VisibilityModifiers == {"public", "protected", "private"}
RECURSIVE ClassyOpenFrom(_, _)
ClassyOpenFrom(s, j) ==
    IF ~Has(s, j) \/ PunctIn(s, j, {";", ")", "}"}) THEN 0
    ELSE IF Punct(s, j, "{") THEN j
    ELSE ClassyOpenFrom(s, (IF Punct(s, j, "(") /\ Match(s, j) # 0 THEN Match(s, j) ELSE j) + 1)
ClassyBodyOpen(s, kw) == ClassyOpenFrom(s, kw + 1)
PromotedProperties(s, open) ==
    {FirstIn({v \in k + 1 .. Len(s) : Kind(s, v, "Variable")}) :
        k \in {k \in open + 1 .. Match(s, open) - 1 :
                  Punct(s, open, "(") /\ KwIn(s, k, VisibilityModifiers \cup SetModifiers \cup {"readonly", "final"})}} \ {0}
ClassBodyElements(s, open) ==
    LET body == {k \in open + 1 .. Match(s, open) - 1 : EnclosingBrace(s, k) = open /\ ~InAttribute(s, k)}
        methods == {k \in body : Kw(s, k, "function") /\ SigNext(s, k) # 0 /\ ~Punct(s, SigNext(s, k), "(")}
        Name(k) == IF Punct(s, SigNext(s, k), "&") THEN SigNext(s, SigNext(s, k)) ELSE SigNext(s, k)
    IN  {k \in body : (Kind(s, k, "Variable") /\ EnclosingParen(s, k) < open) \/ KwIn(s, k, {"const", "use", "case"})}
        \cup methods
        \cup UNION {PromotedProperties(s, SigNext(s, Name(k))) : k \in {k \in methods : Lower(Spelled(s, Name(k))) = "__construct"}}
ClassyElements(s) ==
    UNION {ClassBodyElements(s, ClassyBodyOpen(s, i)) : i \in {i \in DOMAIN s : KwIn(s, i, ClassLikeKeywords) /\ ClassyBodyOpen(s, i) # 0}}
IsPromoted(s, i) == EnclosingParen(s, i) > EnclosingBrace(s, i)

(* isDNFTypeParen and modifierRole, walking back from a member.            *)
DnfTypeParen(s, i) ==
    LET open == IF Punct(s, i, "(") THEN i ELSE MatchBack(s, i)
        close == IF Punct(s, i, "(") THEN Match(s, i) ELSE i
    IN  /\ IsDNFParens(s, open, close)
        /\ \A k \in open + 1 .. close - 1 : Kind(s, k, "Ident") \/ Ws(s, k) \/ PunctIn(s, k, {"&", "\\"})
ModifierRole(s, j, property) ==
    LET n == SigNext(s, j)
    IN  CASE KwIn(s, j, {"abstract", "final"}) -> "absfinal"
          [] KwIn(s, j, {"static", "readonly"}) -> Lower(s[j].v)
          [] KwIn(s, j, SetModifiers) -> "set"
          [] KwIn(s, j, VisibilityModifiers \cup {"var"}) -> "visibility"
          [] property /\ (Kw(s, j, "array") \/ Kind(s, j, "Ident") \/ PunctIn(s, j, {"\\", "?", "|"})) -> "type"
          [] Punct(s, j, "&") -> IF property /\ n # 0 /\ ~Kind(s, n, "Variable") /\ ~Punct(s, n, "...") THEN "type" ELSE "ref"
          [] property /\ PunctIn(s, j, {"(", ")"}) /\ DnfTypeParen(s, j) -> "type"
          [] OTHER -> ""
RECURSIVE ModifierRun(_, _, _)
ModifierRun(s, i, property) ==
    LET p == SigPrev(s, i)
    IN  IF p = 0 \/ ModifierRole(s, p, property) = "" THEN {} ELSE {p} \cup ModifierRun(s, p, property)
ModifierPlacedProperly(s, kw, compared) ==
    Has(s, kw + 1) /\ s[kw + 1] = Sp /\ (kw + 2 = compared \/ (kw + 3 = compared /\ Punct(s, kw + 2, "&")))
MoveModifierBefore(s, from, to) ==
    LET t == [InsertAt(s, to, <<s[from], Sp>>) EXCEPT ![from] = Cleared]
    IN  IF Ws(t, from + 1) THEN SetAt(t, from + 1, Cleared) ELSE t
(* fixElement: r.at is what the next modifier has to stand before.         *)
PlaceModifier(r, kw) ==
    IF kw = 0 THEN r
    ELSE IF ModifierPlacedProperly(r.toks, kw, r.at) THEN [r EXCEPT !.at = kw]
    ELSE [r EXCEPT !.toks = MoveModifierBefore(r.toks, kw, r.at), !.changed = TRUE]
FixModifiers(s, i) ==
    LET property == Kind(s, i, "Variable")
        run == ModifierRun(s, i, property)
        Role(x) == FirstIn({j \in run : ModifierRole(s, j, property) = x})
        before == SigPrev(s, IF run = {} THEN i ELSE FirstIn(run))
        start == [toks |-> s, changed |-> FALSE, at |-> IF Role("type") = 0 THEN i ELSE Role("type")]
        r == PlaceModifier(PlaceModifier(start, IF Role("static") # 0 THEN Role("static") ELSE Role("readonly")), Role("set"))
        vis == Role("visibility")
        public == Tok("Keyword", "public")
        v == IF vis = 0 THEN [r EXCEPT !.toks = InsertAt(@, r.at, <<public, Sp>>), !.changed = TRUE]
             ELSE PlaceModifier(IF Kw(s, vis, "var") THEN [r EXCEPT !.toks[vis] = public, !.changed = TRUE] ELSE r, vis)
    IN  IF property /\ ~IsPromoted(s, i) /\ Punct(s, before, ",") THEN Unchanged(s)
        ELSE LET f == PlaceModifier(v, Role("absfinal")) IN Result(f.toks, f.changed)
ModifierKeywords(elements, s) ==
    LET at == ClassyElements(s)
        Kinds(i) == IF Kind(s, i, "Variable") THEN "property" ELSE IF Kw(s, i, "function") THEN "method" ELSE Lower(s[i].v)
        At(t, i) == i \in at /\ Kinds(i) \in elements
        r == ForEachBack(s, At, FixModifiers)
    IN  Result(ClearEmptyTokens(r.toks), r.changed)
AllElements == {"const", "method", "property"}
VisibilityRequired(elements, s) == ModifierKeywords(elements, s)

(* memberEndSemi: past every bracket, so past the hooks of a property too.  *)
RECURSIVE MemberEndSemi(_, _)
MemberEndSemi(s, k) ==
    IF ~Has(s, k) \/ Punct(s, k, "}") THEN 0
    ELSE IF Punct(s, k, ";") THEN k
    ELSE MemberEndSemi(s, (IF PunctIn(s, k, Openers) /\ Match(s, k) # 0 THEN Match(s, k) ELSE k) + 1)
(* splitClassElement: the member's head, and then each of its elements.    *)
SplitClassElement(elements, s, m) ==
    LET k == PastModifiers(s, m)
        semi == MemberEndSemi(s, m)
        Flat(x, from) == Cardinality({y \in from .. x : PunctIn(s, y, {"(", "["})}) = Cardinality({y \in from .. x : PunctIn(s, y, {")", "]"})})
        first == IF Kw(s, k, "const") THEN SkipWs(s, k + 1)
                 ELSE FirstIn({x \in m .. semi - 1 : Kind(s, x, "Variable") /\ Flat(x, m)})
        commas == SelectSeq([x \in DOMAIN s |-> x], LAMBDA x : x \in first .. semi - 1 /\ Punct(s, x, ",") /\ Flat(x, first))
        bounds == <<first - 1>> \o commas \o <<semi>>
        head == SubSeq(s, m, first - 1)
        Part(b) == (IF b > 1 THEN <<Nl(LineIndent(s, m))>> ELSE <<>>) \o head
                   \o TrimmedTokens(SubSeq(s, bounds[b] + 1, bounds[b + 1] - 1)) \o <<P(";")>>
    IN  IF ~Has(s, k) \/ (Kind(s, k, "Keyword") /\ ~Kw(s, k, "const")) \/ semi = 0 \/ first = 0 \/ first >= semi \/ commas = <<>>
           \/ (IF Kw(s, k, "const") THEN "const" ELSE "property") \notin elements
        THEN Unchanged(s)
        ELSE Result(ReplaceRange(s, m, semi, Seqs!FlattenSeq([b \in 1 .. Len(bounds) - 1 |-> Part(b)])), TRUE)
SingleClassElementPerStatement(elements, s) ==
    LET Bodies(t, i) == Punct(t, i, "{") /\ ClassifyBrace(t, i)[1] = "class"
        Split(t, m) == SplitClassElement(elements, t, m)
        Body(t, i) == LET members == ClassMemberStarts(t, i)
                          Starts(u, m) == m \in members
                      IN  ForEachBack(t, Starts, Split)
    IN  ForEach(s, Bodies, Body)
-----------------------------------------------------------------------------
FindBodyBrace(s, n) == LET p == NextPunct(s, n, {"{", ";"}) IN IF Punct(s, p, "{") THEN p ELSE 0
(* isConstNamePosition: "const" is before, past a type and other names.    *)
RECURSIVE NamedByConstBefore(_, _)
NamedByConstBefore(s, k) ==
    LET j == PrevNonWs(s, k)
    IN  \/ Kw(s, j, "const")
        \/ /\ Has(s, j) /\ (s[j].k \in {"Ident", "Keyword"} \/ PunctIn(s, j, {"?", "\\"}))
           /\ ~KwIn(s, j, MemberModifiers \cup {"var"})
           /\ NamedByConstBefore(s, j)
ProtectedToPrivate(s) ==
    LET OpenOf(i) == FindBodyBrace(s, NextNonWs(s, i))
        finals == {i \in DOMAIN s :
            /\ Kw(s, i, "class") /\ Kw(s, PrevNonWs(s, i), "final") /\ Kind(s, NextNonWs(s, i), "Ident")
            /\ OpenOf(i) # 0 /\ Match(s, OpenOf(i)) # 0
            /\ ~\E k \in i .. OpenOf(i) : Kw(s, k, "extends")
            /\ ~\E k \in OpenOf(i) .. Match(s, OpenOf(i)) : Kw(s, k, "use") /\ EnclosingBrace(s, k) = OpenOf(i)}
        private == [v \in {"protected", "protected(set)"} |-> IF v = "protected" THEN "private" ELSE "private(set)"]
        New(k) == <<[s[k] EXCEPT !.v = private[Lower(s[k].v)]]>>
    IN  Rewrite(s, {k \in DOMAIN s : /\ KwIn(s, k, DOMAIN private) /\ ~NamedByConstBefore(s, k)
                                     /\ EnclosingBrace(s, k) \in {OpenOf(i) : i \in finals}}, New)
-----------------------------------------------------------------------------
(* self_accessor: the class's own name, maybe qualified by the namespace.  *)
NamespaceNameEnd(s, j) == FirstIn({k \in j + 1 .. Len(s) : ~Trivia(s, k) /\ ~Kind(s, k, "Ident") /\ ~Punct(s, k, "\\")})
NamespaceBefore(s, i) ==
    LET j == LastIn({j \in 1 .. i - 1 : Kw(s, j, "namespace") /\ PunctIn(s, NamespaceNameEnd(s, j), {";", "{"})})
    IN  IF j = 0 THEN <<>> ELSE SelectSeq(SubSeq(s, j + 1, NamespaceNameEnd(s, j)), LAMBDA t : t.k = "Ident")
RECURSIVE QualifiedStart(_, _, _)
QualifiedStart(s, k, ns) ==
    LET p == SigPrev(s, k)
        q == SigPrev(s, p)
    IN  IF ~Punct(s, p, "\\") THEN 0
        ELSE IF ns = <<>> THEN p
        ELSE IF Kind(s, q, "Ident") /\ Lower(s[q].v) = Lower(ns[Len(ns)].v) THEN QualifiedStart(s, q, SubSeq(ns, 1, Len(ns) - 1))
        ELSE 0
IsDnfOpen(s, i) ==
    LET p == SigPrev(s, i)
    IN  \/ Kind(s, p, "AttributeEnd") \/ PunctIn(s, p, {"(", ",", "|", "?"})
        \/ Punct(s, p, ":") /\ IsReturnTypeColon(s, p)
        \/ KwIn(s, p, VisibilityModifiers \cup {"readonly"})
(* selfAccessorRef: where the reference to the class at k starts, or 0.    *)
SelfReference(s, k, ns, inSignature) ==
    LET n == SigNext(s, k)
        start == IF Punct(s, SigPrev(s, k), "\\") THEN QualifiedStart(s, k, ns) ELSE k
        p == SigPrev(s, start)
        isType == \/ PunctIn(s, p, {",", "?", "|"})
                  \/ Punct(s, p, "(") /\ ~IsDnfOpen(s, p)
                  \/ Punct(s, p, ":") /\ IsReturnTypeColon(s, p)
    IN  IF Punct(s, n, "\\") \/ start = 0 \/ Kind(s, p, "Ident") \/ PunctIn(s, p, MemberOps) THEN 0
        ELSE IF KwIn(s, p, {"new", "instanceof"}) \/ Punct(s, n, "::") \/ (inSignature /\ isType) THEN start ELSE 0
(* arrowFunctionEnd.                                                       *)
ArrowBodyEnd(s, i) ==
    LET n == NextNonWs(s, i)
        close == Match(s, IF Punct(s, n, "&") THEN NextNonWs(s, n) ELSE n)
        arrow == NextPunct(s, close, {"=>", ";", "{"})
        end == FirstIn({j \in arrow + 1 .. Len(s) : PunctIn(s, j, Closers \cup {",", ";"}) /\ EnclosingOpener(s, j - 1) < arrow})
    IN  IF close = 0 \/ ~Punct(s, arrow, "=>") THEN i ELSE IF end = 0 THEN Len(s) ELSE end - 1
(* replaceNameOccurrences from k on; a signature's end is after its paren. *)
RECURSIVE SelfFrom(_, _, _, _, _, _)
SelfFrom(s, class, ns, open, k, paren) ==
    LET close == Match(s, open)
        Go(j) == SelfFrom(s, class, ns, open, j, paren)
        skipped == Match(s, FindBodyBrace(s, k))
        end == ArrowBodyEnd(s, k)
        after == SigNext(s, end)
        p == NextPunct(s, k, {"("})
        start == SelfReference(s, k, ns, paren # 0 /\ k < NextPunct(s, paren, {"{", ";"}))
    IN  IF k >= close THEN s
        ELSE IF Kw(s, k, "class") /\ IsAnonymousClass(s, k) /\ skipped # 0 THEN Go(skipped + 1)
        ELSE IF Kw(s, k, "fn") /\ end > k THEN Go((IF after # 0 /\ after < close THEN after ELSE end) + 1)
        ELSE IF Kw(s, k, "function") /\ FunctionBraceKind(s, k) = "closure" THEN Go((IF skipped # 0 THEN skipped ELSE k) + 1)
        ELSE IF Kw(s, k, "function") /\ p # 0 /\ p < close THEN SelfFrom(s, class, ns, open, p + 1, p)
        ELSE IF Kind(s, k, "Ident") /\ Lower(s[k].v) = class /\ start # 0
             THEN SelfFrom(ReplaceRange(s, start, k, <<Tok("Ident", "self")>>), class, ns, open, start + 1, paren)
        ELSE Go(k + 1)
SelfAccessor(s) ==
    LET RECURSIVE Go(_, _)
        Visited(t, i) == /\ KwIn(t, i, {"class", "interface"}) /\ ~IsAnonymousClass(t, i) /\ ~MemberPrev(t, i)
                         /\ Kind(t, NextNonWs(t, i), "Ident") /\ Match(t, FindBodyBrace(t, NextNonWs(t, i))) # 0
        Go(t, i) ==
            LET name == NextNonWs(t, i)
                open == FindBodyBrace(t, name)
                u == SelfFrom(t, Lower(t[name].v), NamespaceBefore(t, i), open, open + 1, 0)
            IN  IF i > Len(t) THEN t ELSE IF ~Visited(t, i) THEN Go(t, i + 1) ELSE Go(u, Match(u, open) + 1)
        done == Go(s, 1)
    IN  Result(done, done # s)
-----------------------------------------------------------------------------
(* ordered_class_elements                                                  *)
StartsWith(v, prefix) == Len(v) >= Len(prefix) /\ SubSeq(v, 1, Len(prefix)) = prefix
PhpunitMethods == <<"setupbeforeclass", "dosetupbeforeclass", "teardownafterclass", "doteardownafterclass", "setup", "dosetup",
                    "assertpreconditions", "assertpostconditions", "teardown", "doteardown">>
DefaultOrder == <<"use_trait", "case", "constant_public", "constant_protected", "constant_private", "property_public",
                  "property_protected", "property_private", "construct", "destruct", "magic", "phpunit", "method_public",
                  "method_protected", "method_private">>
(* TYPE_HIERARCHY: the types a type takes the place of.                    *)
TypeParents ==
    LET Visible(what) == [v \in {what \o "_" \o x : x \in VisibilityModifiers} |->
                             <<what, SubSeq(v, Len(what) + 2, Len(v))>>]
        With(what, how, vs) == [v \in {what \o "_" \o x \o "_" \o how : x \in vs} |->
                                   <<what \o "_" \o how, SubSeq(v, 1, Len(v) - Len(how) - 1)>>]
        abstractStatic == [v \in {"method_" \o x \o "_abstract_static" : x \in VisibilityModifiers} |->
                              <<"method_abstract", "method_static", SubSeq(v, 1, Len(v) - 16)>>]
    IN  [t \in {"use_trait", "constant", "property", "method"} \cup VisibilityModifiers |-> <<>>]
        @@ ("case" :> <<"public">>) @@ ("property_static" :> <<"property">>)
        @@ ("method_abstract" :> <<"method">>) @@ ("method_static" :> <<"method">>)
        @@ Visible("constant") @@ Visible("property") @@ Visible("method")
        @@ With("property", "abstract", {"public", "protected"}) @@ With("property", "readonly", VisibilityModifiers)
        @@ With("property", "static", VisibilityModifiers) @@ With("method", "abstract", VisibilityModifiers)
        @@ With("method", "static", VisibilityModifiers) @@ abstractStatic
RECURSIVE TypePosition(_, _)
(* typePositions: a type nobody lists comes last; one nobody knows, first.  *)
TypePosition(order, t) ==
    LET at == LastIn({i \in DOMAIN order : order[i] = t})
        listed == SelectSeq(TypeParents[t], LAMBDA p : p \in DOMAIN TypeParents /\ TypePosition(order, p) # Len(order))
    IN  IF at # 0 THEN at - 1
        ELSE IF t \notin DOMAIN TypeParents THEN 0
        ELSE IF listed = <<>> THEN Len(order) ELSE TypePosition(order, listed[1])
ElementType(s, i) ==
    LET name == Spelled(s, SigNext(s, i))
        given == [v \in {"use", "case", "const"} |-> CASE v = "use" -> "use_trait" [] v = "case" -> "case" [] OTHER -> "constant"]
    IN  IF Kind(s, i, "Variable") THEN "property"
        ELSE IF KwIn(s, i, DOMAIN given) THEN given[Lower(s[i].v)]
        ELSE IF Lower(name) \in {"__construct", "__destruct"} THEN SubSeq(Lower(name), 3, Len(name))
        ELSE IF \E p \in DOMAIN PhpunitMethods : PhpunitMethods[p] = Lower(name) THEN "phpunit"
        ELSE IF StartsWith(name, "__") THEN "magic" ELSE "method"
ElementEnd(s, i) ==
    LET first == NextPunct(s, i, {"(", "{", ";"})
        p == IF Punct(s, first, "(") THEN (IF Match(s, first) = 0 THEN 0 ELSE NextPunct(s, Match(s, first), {"{", ";"})) ELSE first
        end == IF Punct(s, p, "{") THEN Match(s, p) ELSE p
        after == FirstIn({j \in end + 1 .. Len(s) : ~Inline(s, j) /\ ~Comment(s, j)})
        last == (IF after = 0 THEN Len(s) + 1 ELSE after) - 1
    IN  IF end = 0 THEN 0 ELSE IF Ws(s, last) THEN last - 1 ELSE last
(* getElements: an element starts where the one before it ends.            *)
RECURSIVE ElementsFrom(_, _)
ElementsFrom(s, start) ==
    LET i == FirstIn({j \in start .. Len(s) : /\ KwIn(s, j, {"use", "case", "const", "function"}) \/ Kind(s, j, "Variable") \/ Punct(s, j, "}")
                                              /\ ~InAttribute(s, j)})
        head == {j \in start .. i - 1 : ~InAttribute(s, j)}
        visibility == LastIn({j \in head : KwIn(s, j, {"protected", "private"})})
        Is(w) == \E j \in head : Kw(s, j, w)
        kind == ElementType(s, i)
        equals == NextPunct(s, i, {"="})
        type == kind \o "_" \o (IF visibility = 0 THEN "public" ELSE Lower(s[visibility].v))
                \o (IF Is("abstract") THEN "_abstract" ELSE "") \o (IF Is("static") THEN "_static" ELSE "")
                \o (IF Is("readonly") THEN "_readonly" ELSE "")
        name == CASE kind = "phpunit" -> Lower(Spelled(s, SigNext(s, i))) [] kind = "property" -> s[i].v
                  [] kind = "constant" -> IF equals = 0 THEN "" ELSE s[SigPrev(s, equals)].v
                  [] OTHER -> Spelled(s, SigNext(s, i))
    IN  IF i = 0 \/ Punct(s, i, "}") \/ ElementEnd(s, i) = 0 THEN <<>>
        ELSE <<[start |-> start, end |-> ElementEnd(s, i), kind |-> kind, name |-> name,
                type |-> IF kind \in {"constant", "property", "method"} THEN type ELSE IF kind \in {"use_trait", "case"} THEN kind
                         ELSE "method" \o SubSeq(type, Len(kind) + 1, Len(type))]>> \o ElementsFrom(s, ElementEnd(s, i) + 1)
ElementPosition(order, e) ==
    LET Listed(t) == \E i \in DOMAIN order : order[i] = t
        own == "method:" \o e.name
    IN  IF e.kind \in {"method", "magic", "phpunit"} /\ Listed(own) THEN 10 * TypePosition(order, own)
        ELSE IF e.kind \in {"construct", "destruct", "magic", "phpunit"} /\ Listed(e.kind)
             THEN 10 * TypePosition(order, e.kind)
                  + (IF e.kind = "phpunit" THEN CHOOSE p \in DOMAIN PhpunitMethods : PhpunitMethods[p] = e.name ELSE 0)
        ELSE 10 * TypePosition(order, e.type)
OrderedClassElements(order, alpha, caseSensitive, s) ==
    LET Before(a, b) ==
            LET pa == ElementPosition(order, a) pb == ElementPosition(order, b)
                byName == alpha /\ a.name # b.name
            IN  pa < pb \/ (pa = pb /\ IF byName /\ SpelledBefore(a.name, b.name, ~caseSensitive) THEN TRUE
                                       ELSE (byName => ~SpelledBefore(b.name, a.name, ~caseSensitive)) /\ a.start < b.start)
        RECURSIVE Go(_, _)
        Go(t, i) ==
            LET open == NextPunct(t, i, {"{"})
                elements == ElementsFrom(t, open + 1)
                sorted == SortSeq(elements, Before)
                end == elements[Len(elements)].end
                u == ReplaceRange(t, open + 1, end, Seqs!FlattenSeq([k \in DOMAIN sorted |-> SubSeq(t, sorted[k].start, sorted[k].end)]))
            IN  IF i > Len(t) THEN t
                ELSE IF ~CdIsClassy(t, i) THEN Go(t, i + 1)
                ELSE IF open = 0 THEN t
                ELSE IF elements = <<>> THEN Go(t, open + 1) ELSE Go(u, end + 1)
        done == Go(s, 2)
    IN  Result(done, done # s)
-----------------------------------------------------------------------------
(* ordered_traits                                                          *)
BraceIsClassy(s, brace) ==
    LET j == LastIn({j \in 1 .. brace - 1 : ~Trivia(s, j) /\ ~Kind(s, j, "Ident") /\ ~PunctIn(s, j, {",", "\\"})
                                            /\ ~KwIn(s, j, {"extends", "implements", "abstract", "final", "readonly"})})
    IN  KwIn(s, j, {"class", "trait", "enum"})
TraitEnd(s, i) == LET e == NextPunct(s, i, {";", "{"}) IN IF Punct(s, e, "{") THEN Match(s, e) ELSE e
IsTraitUse(s, i) ==
    LET n == SigNext(s, i)
    IN  /\ Kw(s, i, "use") /\ (Kind(s, n, "Ident") \/ Punct(s, n, "\\")) /\ TraitEnd(s, i) # 0
        /\ EnclosingBrace(s, i) # 0 /\ BraceIsClassy(s, EnclosingBrace(s, i))
RECURSIVE TraitRun(_, _)
TraitRun(s, i) ==
    LET n == SigNext(s, TraitEnd(s, i)) IN <<i>> \o (IF IsTraitUse(s, n) THEN TraitRun(s, n) ELSE <<>>)
StartsTraitRun(s, i) == IsTraitUse(s, i) /\ ~\E u \in 1 .. i - 1 : IsTraitUse(s, u) /\ SigNext(s, TraitEnd(s, u)) = i
WithoutSlash(v) == IF StartsWith(v, "\\") THEN SubSeq(v, 2, Len(v)) ELSE v
PhpNameBefore(a, b, x, y, caseSensitive) ==
    SpelledBefore(a, b, ~caseSensitive) \/ (~SpelledBefore(b, a, ~caseSensitive) /\ x < y)
TraitNameAt(ts, j) == Kind(ts, j, "Ident") \/ Punct(ts, j, "\\")
SortTraitsInStatement(caseSensitive, ts) ==
    LET stop == FirstIn({j \in DOMAIN ts : Punct(ts, j, "{")})
        seps == {j \in DOMAIN ts : PunctIn(ts, j, {",", ";", "{"}) /\ (stop = 0 \/ j <= stop)}
        First(j) == FirstIn({k \in LastIn({0} \cup {x \in seps : x < j}) + 1 .. j - 1 : TraitNameAt(ts, k)})
        ends == SelectSeq([j \in DOMAIN ts |-> j], LAMBDA j : j \in seps /\ First(j) # 0)
        runs == [k \in DOMAIN ends |-> [from |-> First(ends[k]), to |-> ends[k] - 1]]
        Name(r) == WithoutSlash(TextOf(SubSeq(ts, r.from, r.to)))
        sorted == SortSeq(runs, LAMBDA a, b : PhpNameBefore(Name(a), Name(b), a.from, b.from, caseSensitive))
        Slot(k) == SubSeq(ts, (IF k = 1 THEN 0 ELSE runs[k - 1].to) + 1, runs[k].from - 1) \o SubSeq(ts, sorted[k].from, sorted[k].to)
    IN  IF Len(runs) <= 1 THEN ts
        ELSE Seqs!FlattenSeq([k \in DOMAIN runs |-> Slot(k)]) \o SubSeq(ts, runs[Len(runs)].to + 1, Len(ts))
TraitName(ts) ==
    LET end == FirstIn({j \in DOMAIN ts : PunctIn(ts, j, {";", "{"})})
    IN  WithoutSlash(TextOf(SelectSeq(SubSeq(ts, 1, end), LAMBDA t : t.k = "Ident" \/ t = P("\\"))))
OrderedTraits(caseSensitive, s) ==
    LET Sorted(t, i) ==
            LET run == TraitRun(t, i)
                Start(k) == SkipWs(t, SigPrev(t, run[k]) + 1)
                End(k) == TraitEnd(t, run[k])
                statements == [k \in DOMAIN run |-> SortTraitsInStatement(caseSensitive, SubSeq(t, Start(k), End(k)))]
                order == SortSeq([k \in DOMAIN run |-> k],
                                 LAMBDA a, b : PhpNameBefore(TraitName(statements[a]), TraitName(statements[b]), a, b, caseSensitive))
                Slot(k) == (IF k = 1 THEN <<>> ELSE SubSeq(t, End(k - 1) + 1, Start(k) - 1)) \o statements[order[k]]
                u == ReplaceRange(t, Start(1), End(Len(run)), Seqs!FlattenSeq([k \in DOMAIN run |-> Slot(k)]))
            IN  Result(u, u # t)
    IN  ForEachBack(s, StartsTraitRun, Sorted)
=============================================================================
