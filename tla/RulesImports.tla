---------------------------- MODULE RulesImports ----------------------------
(***************************************************************************)
(* The blink rules about names: the use statements of a file, and the      *)
(* names that are written in full where an import would do.                *)
(***************************************************************************)
EXTENDS RulesArrays

LOCAL Seqs == INSTANCE SequencesExt

(* The bytes of names in their order; folded letters are lower case.       *)
NameBytes == "0123456789ABCDEFGHIJKLMNOPQRSTUVWXYZ\\_abcdefghijklmnopqrstuvwxyz"
ByteOf == [c \in {SubSeq(NameBytes, i, i) : i \in 1 .. Len(NameBytes)} |->
              CHOOSE i \in 1 .. Len(NameBytes) : SubSeq(NameBytes, i, i) = c]
ByteAt(v, i, fold) ==
    LET c == SubSeq(v, i, i)
        b == IF c \in DOMAIN ByteOf THEN ByteOf[c] ELSE 0
    IN  IF fold /\ b \in 11 .. 36 THEN b + 28 ELSE b
SpelledBefore(a, b, fold) ==
    LET both == 1 .. (IF Len(a) < Len(b) THEN Len(a) ELSE Len(b))
        d == FirstIn({i \in both : ByteAt(a, i, fold) # ByteAt(b, i, fold)})
    IN  IF d = 0 THEN Len(a) < Len(b) ELSE ByteAt(a, d, fold) < ByteAt(b, d, fold)
(* The text of tokens, a run of blanks counting as one.                    *)
TextOf(ts) == LET Join(v, t) == v \o (IF t.k = "Whitespace" THEN " " ELSE t.v) IN Seqs!FoldLeft(Join, "", ts)
TrimmedTokens(ts) ==
    LET held == {i \in DOMAIN ts : ts[i].k # "Whitespace"}
    IN  IF held = {} THEN <<>> ELSE SubSeq(ts, FirstIn(held), LastIn(held))
-----------------------------------------------------------------------------
(* use statements                                                          *)
ImportUse(s, i) == Kw(s, i, "use") /\ ~InClassLikeBody(s, i)
ImportModified(s, i) == KwIn(s, SkipWs(s, i + 1), {"function", "const"})
ImportModifier(s, i) == IF ImportModified(s, i) THEN <<s[SkipWs(s, i + 1)], Sp>> ELSE <<>>
ImportStart(s, i) == IF ImportModified(s, i) THEN SkipWs(s, SkipWs(s, i + 1) + 1) ELSE SkipWs(s, i + 1)
ClosureUse(s, i) == Punct(s, SkipWs(s, i + 1), "(")
IndentBefore(s, i) == IF Broken(s, i - 1) THEN LastLine(s[i - 1].w) ELSE 0

NoLeadingImportSlash(s) ==
    Drop(s, {j \in {ImportStart(s, i) : i \in {i \in DOMAIN s : ImportUse(s, i) /\ ~ClosureUse(s, i)}} : Punct(s, j, "\\")})

(* The statements "use A, B;" or "use A\{B, C};" become.                   *)
UseStatements(s, i, prefix, items) ==
    LET Modified(ts) == ts # <<>> /\ ts[1].k = "Keyword" /\ Lower(ts[1].v) \in {"function", "const"}
        One(ts) == <<Tok("Keyword", "use"), Sp>>
                   \o (IF Modified(ts) THEN <<ts[1], Sp>> ELSE ImportModifier(s, i)) \o prefix
                   \o (IF Modified(ts) THEN TrimmedTokens(Tail(ts)) ELSE ts) \o <<P(";")>>
        Each(p) == IF p = 1 THEN One(items[p]) ELSE <<Nl(IndentBefore(s, i))>> \o One(items[p])
    IN  Seqs!FlattenSeq([p \in DOMAIN items |-> Each(p)])
SplitItems(s, from, to, commas) ==
    LET ends == SelectSeq([k \in 1 .. Len(s) |-> k], LAMBDA k : k \in commas \cup {to})
    IN  [p \in DOMAIN ends |-> TrimmedTokens(SubSeq(s, IF p = 1 THEN from ELSE ends[p - 1] + 1, ends[p] - 1))]
ExpandGroupImport(s, i, open) ==
    LET close == Match(s, open)
        semi == SigNext(s, close)
        prefix == TrimmedTokens(SubSeq(s, ImportStart(s, i), open - 1))
        items == SelectSeq(SplitItems(s, open + 1, close, {c \in Inside(s, open) : Punct(s, c, ",")}), LAMBDA ts : ts # <<>>)
    IN  IF close = 0 \/ ~Punct(s, semi, ";") \/ items = <<>> THEN Unchanged(s)
        ELSE Result(ReplaceRange(s, i, semi, UseStatements(s, i, prefix, items)), TRUE)
SplitUseAt(s, i, expandGroups) ==
    LET j == ImportStart(s, i)
        stop == NextPunct(s, j - 1, {"{", ";"})
        commas == {k \in j .. stop : Punct(s, k, ",")}
    IN  IF Punct(s, stop, "{") THEN (IF expandGroups THEN ExpandGroupImport(s, i, stop) ELSE Unchanged(s))
        ELSE IF stop = 0 \/ commas = {} THEN Unchanged(s)
        ELSE Result(ReplaceRange(s, i, stop, UseStatements(s, i, <<>>, SplitItems(s, j, stop, commas))), TRUE)
SplitUseStatements(s, inClass, expandGroups) ==
    LET At(t, i) == Kw(t, i, "use") /\ InClassLikeBody(t, i) = inClass /\ ~Punct(t, ImportStart(t, i), "(")
        Step(t, i) == SplitUseAt(t, i, expandGroups)
    IN  ForEach(s, At, Step)
SingleImportPerStatement(keepGroups, s) == SplitUseStatements(s, FALSE, ~keepGroups)
SingleTraitInsertPerStatement(s) == SplitUseStatements(s, TRUE, FALSE)

SingleLineAfterImports(s) ==
    LET Semi(i) == NextPunct(s, i, {";"})
        last == {i \in DOMAIN s : /\ ImportUse(s, i) /\ ~ClosureUse(s, i) /\ Semi(i) # 0
                                  /\ Has(s, SkipWs(s, Semi(i) + 1)) /\ ~Kw(s, SkipWs(s, Semi(i) + 1), "use")
                                  /\ ~Punct(s, SkipWs(s, Semi(i) + 1), "}")}
        at == {i \in last : Broken(s, Semi(i) + 1) /\ Breaks(s, Semi(i) + 1) # 2}
        New(k) == <<WS(<<0, 0, IndentBefore(s, LastIn({i \in at : i < k}))>>)>>
    IN  Rewrite(s, {Semi(i) + 1 : i \in at}, New)
-----------------------------------------------------------------------------
(* Runs of imports, and their order                                        *)
ImportSemi(s, i) == LET k == NextPunct(s, i, {";", "{"}) IN IF Punct(s, k, ";") THEN k ELSE 0
Importable(s, i) == ImportUse(s, i) /\ ~ClosureUse(s, i) /\ ImportSemi(s, i) # 0
NextImport(s, i) == SkipWs(s, ImportSemi(s, i) + 1)
RECURSIVE ImportRun(_, _)
ImportRun(s, i) == IF Importable(s, i) THEN <<i>> \o ImportRun(s, NextImport(s, i)) ELSE <<>>
UseKind(s, i) == IF ImportModified(s, i) THEN Lower(s[SkipWs(s, i + 1)].v) ELSE "class"
(* The "\" sorts as a blank does.                                         *)
ImportNamespaceText(s, i) ==
    LET IsText(t) == ~(t.k \in {"Comment", "DocComment"} /\ SubSeq(t.v, 1, 2) = "/*")
        Split(t) == IF t = P("\\") THEN Sp ELSE t
        text == TrimmedTokens(SelectSeq(SubSeq(s, ImportStart(s, i), ImportSemi(s, i) - 1), IsText))
    IN  TextOf([k \in DOMAIN text |-> Split(text[k])])
ImportLength(s, i) ==
    Len(ImportNamespaceText(s, i)) + (IF ImportModified(s, i) THEN Len(UseKind(s, i)) + 1 ELSE 0)
KindRank(kinds, kind) ==
    IF kind \in Seqs!ToSet(kinds) THEN CHOOSE n \in DOMAIN kinds : kinds[n] = kind ELSE Len(kinds) + 1
(* kinds <<>> is imports_order: null; the sort is stable.                  *)
ImportBefore(algorithm, kinds, caseSensitive, s, a, b) ==
    LET rank == [x \in {a, b} |-> KindRank(kinds, UseKind(s, x))]
        Alpha(x, y) == SpelledBefore(ImportNamespaceText(s, x), ImportNamespaceText(s, y), ~caseSensitive)
        Earlier(x, y) ==
            CASE algorithm = "none" -> FALSE
              [] algorithm = "length" /\ ImportLength(s, x) # ImportLength(s, y) -> ImportLength(s, x) < ImportLength(s, y)
              [] OTHER -> Alpha(x, y)
    IN  IF kinds # <<>> /\ rank[a] # rank[b] THEN rank[a] < rank[b]
        ELSE Earlier(a, b) \/ (~Earlier(b, a) /\ a < b)
OrderedImports(algorithm, kinds, caseSensitive, s) ==
    LET At(t, i) == Len(ImportRun(t, i)) >= 2
        Step(t, i) ==
            LET run == ImportRun(t, i)
                ordered == SortSeq(run, LAMBDA a, b : ImportBefore(algorithm, kinds, caseSensitive, t, a, b))
                Slot(p) == (IF p = 1 THEN <<>> ELSE SubSeq(t, ImportSemi(t, run[p - 1]) + 1, run[p] - 1))
                           \o SubSeq(t, ordered[p], ImportSemi(t, ordered[p]))
                new == ReplaceRange(t, i, ImportSemi(t, run[Len(run)]), Seqs!FlattenSeq([p \in DOMAIN run |-> Slot(p)]))
            IN  Result(new, new # t)
    IN  ForEach(s, At, Step)
BlankLineBetweenImportGroups(s) ==
    LET first == {i \in DOMAIN s : Importable(s, i) /\ Importable(s, NextImport(s, i)) /\ UseKind(s, i) # UseKind(s, NextImport(s, i))}
        New(k) == <<WS(<<0, 0, 0>>)>>
    IN  Rewrite(s, {k \in {NextImport(s, i) - 1 : i \in first} : Broken(s, k) /\ s[k].w # <<0, 0, 0>>}, New)
-----------------------------------------------------------------------------
NoUnneededImportAlias(s) ==
    LET RECURSIVE Go(_, _)
        PathStart(t, i) == LastIn({j \in 1 .. i : ~(Trivia(t, j) \/ Kind(t, j, "Ident") \/ Kw(t, j, "as") \/ PunctIn(t, j, {"\\", ","}))})
        Imports(t, i) ==
            LET p == PathStart(t, i)
                j == IF KwIn(t, p, {"function", "const"}) THEN SigPrev(t, p) ELSE p
            IN  Kw(t, j, "use") \/ (Punct(t, j, "{") /\ Punct(t, SigPrev(t, j), "\\"))
        Unneeded(t, i) ==
            /\ Kw(t, i, "as") /\ Kind(t, SigNext(t, i), "Ident") /\ Kind(t, SigPrev(t, i), "Ident")
            /\ t[SigPrev(t, i)].v = t[SigNext(t, i)].v /\ Imports(t, SigPrev(t, SigPrev(t, i)))
        Go(t, i) == IF i < 1 THEN t
                    ELSE IF Unneeded(t, i) THEN Go(ClearAndMerge(ClearAndMerge(t, SigNext(t, i)), i), i - 1) ELSE Go(t, i - 1)
        after == Go(s, Len(s))
    IN  Result(ClearEmptyTokens(after), after # s)

CleanNamespace(s) ==
    LET heads == {i \in DOMAIN s : Kw(s, i, "namespace") \/ (Kw(s, i, "use") /\ ~ClosureUse(s, i))}
        End(i) == LET e == NextPunct(s, i, {";", "{"}) IN IF e = 0 THEN Len(s) + 1 ELSE e
        Path(j) == Kind(s, j, "Ident") \/ Punct(s, j, "\\")
    IN  Drop(s, {k \in DOMAIN s : /\ Trivia(s, k) /\ Path(SigPrev(s, k)) /\ Path(SigNext(s, k))
                                  /\ \E i \in heads : i < SigPrev(s, k) /\ SigNext(s, k) < End(i)})
-----------------------------------------------------------------------------
(* GroupImport                                                             *)
GroupImportCandidate(s) == HasAnyWord(s, {"use"})
GroupImportDecl(s, i) ==
    LET n == SigNext(s, i)
        j == IF KwIn(s, n, {"function", "const"}) THEN SigNext(s, n) ELSE n
        semi == NextPunct(s, j - 1, {";", "{", ","})
        as == FirstIn({k \in j .. semi : Kw(s, k, "as")})
        alias == LastIn({k \in as + 1 .. semi : as # 0 /\ Kind(s, k, "Ident")})
        path == SelectSeq(SubSeq(s, j, (IF as = 0 THEN semi ELSE as) - 1), LAMBDA t : t.k = "Ident" \/ t = P("\\"))
        slash == LastIn({k \in DOMAIN path : path[k] = P("\\")})
    IN  [single |-> Punct(s, semi, ";"), end |-> IF Ws(s, semi + 1) THEN semi + 1 ELSE semi,
         typ |-> IF j = n THEN "classy" ELSE IF Kw(s, n, "const") THEN "constants" ELSE "functions",
         path |-> path, namespace |-> IF slash <= 1 THEN path ELSE SubSeq(path, 1, slash),
         last |-> SubSeq(path, slash + 1, Len(path)), alias |-> IF alias = 0 THEN <<>> ELSE <<s[alias]>>]
GroupImportLine(d, at) ==
    LET typ == CASE d[at[1]].typ = "classy" -> <<>>
                 [] d[at[1]].typ = "functions" -> <<Tok("Keyword", "function"), Sp>>
                 [] OTHER -> <<Tok("Keyword", "const"), Sp>>
        namespace == d[at[1]].namespace
        slash == IF Seqs!IsSuffix(<<P("\\")>>, namespace) THEN <<>> ELSE <<P("\\")>>
        Member(i) == d[i].last \o (IF d[i].alias = <<>> THEN <<>> ELSE <<Sp, Tok("Keyword", "as"), Sp>> \o d[i].alias)
        members == Seqs!FlattenSeq([n \in DOMAIN at |-> (IF n = 1 THEN <<>> ELSE <<P(","), Sp>>) \o Member(at[n])])
    IN  <<Tok("Keyword", "use"), Sp>> \o typ \o namespace \o slash \o <<P("{")>> \o members \o <<P("}"), P(";"), Nl(0)>>
RECURSIVE GroupImportBlock(_, _)
GroupImportBlock(d, list) ==
    IF list = <<>> THEN <<>>
    ELSE LET Same(i) == d[i].namespace = d[list[1]].namespace
             Other(i) == ~Same(i)
         IN  GroupImportLine(d, SelectSeq(list, Same)) \o GroupImportBlock(d, SelectSeq(list, Other))
GroupImport(types, s) ==
    LET uses == {i \in DOMAIN s : ImportUse(s, i) /\ SigNext(s, i) # 0 /\ ~Punct(s, SigNext(s, i), "(")}
        d == [i \in uses |-> GroupImportDecl(s, i)]
        single == {i \in uses : d[i].single}
        grouped == {i \in single : /\ d[i].typ \in types
                                   /\ \E j \in single \ {i} : d[j].typ = d[i].typ /\ d[j].namespace = d[i].namespace}
        Before(i, j) ==
            LET a == TextOf(d[i].namespace)
                b == TextOf(d[j].namespace)
                p == TextOf(d[i].path)
                q == TextOf(d[j].path)
            IN  IF Len(a) # Len(b) THEN Len(a) < Len(b) ELSE SpelledBefore(p, q, FALSE) \/ (p = q /\ i < j)
        ListOf(typ) == SortSeq(SelectSeq([i \in DOMAIN s |-> i], LAMBDA i : i \in grouped /\ d[i].typ = typ), Before)
        New(k) == IF k \in grouped /\ ListOf(d[k].typ)[1] = k THEN GroupImportBlock(d, ListOf(d[k].typ)) ELSE <<>>
    IN  Rewrite(s, UNION {i .. d[i].end : i \in grouped}, New)
-----------------------------------------------------------------------------
(* LambdaNotUsedImport.  A string holds no variables here.                 *)
IsGlobalFunctionCall(s, i) ==
    LET p == PrevNonWs(s, i)
    IN  ~(\/ PunctIn(s, p, MemberOps) \/ KwIn(s, p, {"function", "const", "new", "goto"})
          \/ Punct(s, p, "\\") /\ Kind(s, PrevNonWs(s, p), "Ident"))
GlobalCall(s, i, names) ==
    Kind(s, i, "Ident") /\ Lower(s[i].v) \in names /\ Punct(s, SigNext(s, i), "(") /\ IsGlobalFunctionCall(s, i)
LambdaUseIndex(s, i) ==
    LET n == SigNext(s, i)
        open == IF Punct(s, n, "&") THEN SigNext(s, n) ELSE n
        use == SigNext(s, Match(s, open))
    IN  IF Kw(s, i, "function") /\ Punct(s, open, "(") /\ Match(s, open) # 0 /\ Kw(s, use, "use") THEN use ELSE 0
(* docArgumentSpans: first and last token of each argument.                *)
ArgumentSpans(s, open) ==
    LET bounds == {open, Match(s, open)} \cup {c \in Inside(s, open) : Punct(s, c, ",")}
        Next(b) == FirstIn({c \in bounds : c > b})
    IN  {<<SigNext(s, b), SigPrev(s, Next(b))>> : b \in {b \in bounds \ {Match(s, open)} : SigNext(s, b) < Next(b)}}
SpanVariables(s, sp) == {j \in sp[1] .. sp[2] : Kind(s, j, "Variable")}
SuperGlobalNames == {"$GLOBALS", "$_SERVER", "$_GET", "$_POST", "$_REQUEST", "$_SESSION", "$_ENV", "$_COOKIE", "$_FILES"}
LambdaImports(s, open) ==
    {v \in {FirstIn(SpanVariables(s, sp)) : sp \in ArgumentSpans(s, open)} :
        v # 0 /\ ~Punct(s, SigPrev(s, v), "&") /\ s[v].v \notin SuperGlobalNames \cup {"$this"}}
(* The names passed as they are.                                           *)
PassedNames(s, open) ==
    {s[FirstIn(SpanVariables(s, sp))].v : sp \in {sp \in ArgumentSpans(s, open) :
        LET v == FirstIn(SpanVariables(s, sp))
        IN  Cardinality(SpanVariables(s, sp)) = 1 /\ (SigNext(s, v) > sp[2] \/ SigNext(s, v) = 0 \/ Punct(s, SigNext(s, v), "="))}}
RECURSIVE LambdaUnused(_, _, _, _)
LambdaUnused(s, i, level, left) ==
    LET open == NextPunct(s, i, {"("})
        ends == Punct(s, i, "}") /\ level = 1
        use == FirstIn({j \in i + 1 .. Len(s) : Kw(s, j, "use") \/ Punct(s, j, "{")})
        useOpen == NextPunct(s, use, {"("})
        classOpen == NextPunct(s, i, {"(", "{"})
        Past(brace, seen) ==
            IF Match(s, brace) = 0 THEN left \ seen ELSE LambdaUnused(s, Match(s, brace) + 1, level, left \ seen)
    IN  IF i > Len(s) \/ ends THEN left
        ELSE IF GlobalCall(s, i, {"compact"}) \/ KwIn(s, i, {"eval", "include", "include_once", "require", "require_once"}) THEN {}
        ELSE IF KwIn(s, i, ClassLikeKeywords)
        THEN IF Punct(s, classOpen, "(") /\ Match(s, classOpen) # 0
             THEN Past(NextPunct(s, Match(s, classOpen), {"{"}), PassedNames(s, classOpen)) ELSE Past(classOpen, {})
        ELSE IF Kw(s, i, "function") /\ Match(s, open) # 0
        THEN IF Kw(s, use, "use") /\ Match(s, useOpen) # 0
             THEN Past(NextPunct(s, Match(s, useOpen), {"{"}), PassedNames(s, open) \cup PassedNames(s, useOpen))
             ELSE Past(use, PassedNames(s, open))
        ELSE LambdaUnused(s, i + 1, level + (IF Punct(s, i, "{") THEN 1 ELSE IF Punct(s, i, "}") THEN -1 ELSE 0),
                          IF Kind(s, i, "Variable") THEN left \ {s[i].v} ELSE left)
ClearLambdaImport(s, v) ==
    LET t == ClearAndMerge(s, v)
        p == SigPrev(t, v)
    IN  IF Punct(t, p, ",") THEN ClearAndMerge(t, p)
        ELSE IF Punct(t, p, "(") /\ SigNext(t, v) # 0 THEN ClearAndMerge(t, SigNext(t, v)) ELSE t
FixLambdaImports(s, use) ==
    LET RECURSIVE ClearAll(_, _), ClearEach(_, _)
        open == NextPunct(s, use, {"("})
        close == Match(s, open)
        imports == LambdaImports(s, open)
        body == NextPunct(s, close, {"{"})
        left == LambdaUnused(s, body, 0, {s[v].v : v \in imports})
        unused == {v \in imports : s[v].v \in left}
        ClearAll(t, i) ==
            IF i < use THEN t
            ELSE IF Comment(t, i) \/ (Ws(t, i) /\ Comment(t, PrevNonWs(t, i))) THEN ClearAll(t, i - 1)
            ELSE ClearAll(ClearAndMerge(t, i), i - 1)
        ClearEach(t, S) == IF S = {} THEN t ELSE ClearEach(ClearLambdaImport(t, LastIn(S)), S \ {LastIn(S)})
    IN  IF close = 0 \/ body = 0 \/ unused = {} THEN s
        ELSE IF Cardinality(unused) = Cardinality(ArgumentSpans(s, open)) THEN ClearAll(s, close)
        ELSE ClearEach(s, unused)
LambdaNotUsedImport(s) ==
    LET RECURSIVE Go(_, _)
        Go(t, i) == IF i < 2 THEN t
                    ELSE IF LambdaUseIndex(t, i) = 0 THEN Go(t, i - 1) ELSE Go(FixLambdaImports(t, LambdaUseIndex(t, i)), i - 1)
        after == ClearEmptyTokens(Go(s, Len(s) - 3))
    IN  Compared(s, after)
GlobalKeyword(s) == Unchanged(s)
-----------------------------------------------------------------------------
(* NoUnusedImports.  clearableTokens: positions stay, a removed token is   *)
(* Cleared, and "<?php" has the first of the whitespace after it.          *)
TagHead(w) == IF w[1] > 0 THEN <<1>> ELSE <<0, 0>>
TagRest(w) == IF w[1] > 0 THEN <<w[1] - 1>> \o Tail(w) ELSE Tail(w)
ClearableTokens(s) ==
    LET New(i) == IF Ws(s, i) THEN (IF TagRest(s[i].w) = <<0>> THEN <<>> ELSE <<WS(TagRest(s[i].w))>>)
                  ELSE <<[s[i] EXCEPT !.w = TagHead(s[i + 1].w)]>>
    IN  Splices(s, {i \in DOMAIN s : \E j \in {i, i + 1} : TagOwns(s, j) /\ Ws(s, j)}, New)
WriteBack(t) ==
    LET New(i) == <<[t[i] EXCEPT !.w = <<>>], WS(t[i].w)>>
    IN  Relex(ClearEmptyTokens(Splices(t, {i \in DOMAIN t : t[i].k = "OpenTag" /\ t[i].w # <<>>}, New)))
UseEnd(s, i) == FirstIn({j \in i + 1 .. Len(s) : Punct(s, j, ";") \/ Kind(s, j, "CloseTag")})
(* What is told once, before anything is cleared.                          *)
UseMarks(s) ==
    LET uses == {i \in DOMAIN s : ImportUse(s, i) /\ ~Punct(s, SigNext(s, i), "(")}
        opens == {j \in DOMAIN s : Punct(s, j, "{") /\ Match(s, j) # 0 /\ \E i \in uses : i < j /\ j < UseEnd(s, i)}
    IN  [uses |-> uses, opens |-> opens, closes |-> {Match(s, j) : j \in opens},
         traits |-> {i \in DOMAIN s : Kw(s, i, "use") /\ InClassLikeBody(s, i)},
         attribute |-> HasKind(s, "AttributeStart"), enum |-> \E i \in DOMAIN s : Kw(s, i, "enum")]
ImportUseAt(m, s, i) == i \in m.uses /\ Kw(s, i, "use")
GroupOpenAt(m, s, i) == i \in m.opens /\ Punct(s, i, "{")
GroupCloseAt(m, s, i) == i \in m.closes /\ Punct(s, i, "}")
NameToken(s, i) ==
    /\ Kind(s, i, "Ident") /\ ~IsNamedArgument(s, i)
    /\ ~(Lower(s[i].v) = "namespace" /\ Punct(s, SigNext(s, i), "\\"))
    /\ ~(Lower(s[i].v) = "class" /\ Punct(s, SigPrev(s, i), "::"))
NamespaceOperator(s, i) ==
    Has(s, i) /\ s[i].k \in {"Ident", "Keyword"} /\ Lower(s[i].v) = "namespace" /\ Punct(s, SigNext(s, i), "\\")
NamespaceKeyword(s, i) == Kw(s, i, "namespace") /\ ~NamespaceOperator(s, i) /\ ~PunctIn(s, SigPrev(s, i), MemberOps)

RECURSIVE QualifiedName(_, _, _, _), ImportMembers(_, _, _, _, _), ParsedImports(_, _, _, _)
QualifiedName(m, s, i, q) ==
    IF i = 0 THEN [q EXCEPT !.after = 0]
    ELSE IF PunctIn(s, i, {",", ";"}) \/ GroupOpenAt(m, s, i) \/ GroupCloseAt(m, s, i) \/ Kind(s, i, "CloseTag")
         THEN [q EXCEPT !.after = i]
    ELSE QualifiedName(m, s, SigNext(s, i),
             IF NameToken(s, i) THEN [q EXCEPT !.short = s[i].v, !.full = IF q.aliased THEN @ ELSE @ \o s[i].v]
             ELSE IF Punct(s, i, "\\") THEN [q EXCEPT !.full = @ \o "\\"]
             ELSE [q EXCEPT !.aliased = @ \/ Kw(s, i, "as")])
NameFrom(m, s, i) == QualifiedName(m, s, i, [full |-> "", short |-> "", aliased |-> FALSE, after |-> 0])
ImportOf(s, use, q, prefix, multi, from, to) ==
    IF q.short = "" THEN <<>>
    ELSE <<[kind |-> IF KwIn(s, SigNext(s, use), {"function", "const"}) THEN Lower(s[SigNext(s, use)].v) ELSE "class",
            full |-> prefix \o q.full, short |-> q.short, aliased |-> q.aliased,
            multi |-> multi, start |-> use, end |-> UseEnd(s, use), from |-> from, to |-> to]>>
(* The names between the braces; where they end.                           *)
ImportMembers(m, s, use, at, prefix) ==
    LET from == SigNext(s, at.index)
        q == NameFrom(m, s, from)
        found == at.found \o ImportOf(s, use, q, prefix, TRUE, from, SigPrev(s, q.after))
    IN  IF at.index >= at.end \/ from = 0 \/ GroupCloseAt(m, s, from) THEN at
        ELSE IF q.after = 0 THEN [at EXCEPT !.found = found]
        ELSE ImportMembers(m, s, use, [at EXCEPT !.index = q.after, !.found = found], prefix)
ParsedImports(m, s, use, i) ==
    LET end == UseEnd(s, use)
        q == NameFrom(m, s, i)
        p == SigPrev(s, q.after)
        multi == \E j \in use .. end - 1 : Punct(s, j, ",") \/ GroupOpenAt(m, s, j)
        group == ImportMembers(m, s, use, [index |-> q.after, end |-> Match(s, q.after), found |-> <<>>], q.full)
        single == PunctIn(s, q.after, {",", ";"}) \/ Kind(s, q.after, "CloseTag")
    IN  IF i = 0 \/ i > end THEN <<>>
        ELSE IF GroupOpenAt(m, s, q.after) THEN group.found \o ParsedImports(m, s, use, SigNext(s, group.index))
        ELSE IF ~single THEN ParsedImports(m, s, use, SigNext(s, i))
        ELSE (IF GroupCloseAt(m, s, p) THEN <<>> ELSE ImportOf(s, use, q, "", multi, i, p))
             \o ParsedImports(m, s, use, SigNext(s, q.after))
UseDeclarations(m, s) ==
    LET First(i) == FirstIn({j \in i + 1 .. Len(s) : NameToken(s, j) \/ Punct(s, j, "\\")})
    IN  Seqs!FlattenSeq([i \in DOMAIN s |-> IF i \in m.uses /\ UseEnd(s, i) # 0 THEN ParsedImports(m, s, i, First(i)) ELSE <<>>])

RECURSIVE NamespacesFrom(_, _)
NamespacesFrom(s, i) ==
    LET k == FirstIn({j \in i .. Len(s) : NamespaceKeyword(s, j)})
        end == NextPunct(s, k, {";", "{"})
        after == FirstIn({j \in end + 1 .. Len(s) : NamespaceKeyword(s, j)})
        last == IF Punct(s, end, "{") THEN (IF Match(s, end) = 0 THEN Len(s) ELSE Match(s, end))
                ELSE IF after = 0 THEN Len(s) ELSE after - 1
    IN  IF k = 0 \/ end = 0 THEN <<>>
        ELSE <<[name |-> TextOf(TrimmedTokens(SubSeq(s, k + 1, end - 1))), start |-> k, end |-> last]>> \o NamespacesFrom(s, last + 1)
NamespaceDeclarations(s) ==
    LET found == NamespacesFrom(s, 2)
    IN  IF found # <<>> \/ ~\E i \in DOMAIN s : Kind(s, i, "OpenTag") /\ s[i].v = "<?php" THEN found
        ELSE <<[name |-> "", start |-> IF Kind(s, 1, "InlineHTML") THEN 2 ELSE 1, end |-> Len(s)]>>

(* isConstantInvocation                                                    *)
TypeSeparator(s, i) ==
    /\ PunctIn(s, i, {"|", "&"}) /\ IsPartOfType(s, i)
    /\ Punct(s, i, "&") => ~IsReturnRef(s, i) /\ ~Kind(s, SigNext(s, i), "Variable") /\ ~Punct(s, SigNext(s, i), "...")
ArrayTypehint(s, i) == Kw(s, i, "array") /\ ~Punct(s, SigNext(s, i), "(")
NullableBefore(s, i) ==
    LET p == SigPrev(s, i)
        set == SigPrev(s, p)
    IN  IsNullableType(s, i) \/ (/\ Punct(s, i, "?") /\ Punct(s, p, ")") /\ Kind(s, set, "Ident") /\ Lower(s[set].v) = "set"
                                 /\ Punct(s, SigPrev(s, set), "(") /\ KwIn(s, SigPrev(s, SigPrev(s, set)), {"private", "protected", "public"}))
DnfClose(s, i) ==
    LET Alternation(j) == Punct(s, j, "|") /\ IsPartOfType(s, j)
    IN  Punct(s, i, ")") /\ (Alternation(SigNext(s, i)) \/ (MatchBack(s, i) # 0 /\ Alternation(SigPrev(s, MatchBack(s, i)))))
AttributeName(m, s, i) ==
    LET start == LastIn({j \in 1 .. i - 1 : \/ PunctIn(s, j, {";", "{"}) \/ s[j].k \in {"AttributeStart", "AttributeEnd", "OpenTag", "Variable"}
                                            \/ KwIn(s, j, {"function", "private", "protected", "public", "return"})})
        Between(v) == Cardinality({j \in start + 1 .. i - 1 : Punct(s, j, v)})
    IN  m.attribute /\ NameToken(s, i) /\ Kind(s, start, "AttributeStart") /\ Between("(") = Between(")")
BackWhile(s, i, Is(_)) ==
    LET RECURSIVE Go(_)
        Go(j) == IF j # 0 /\ Is(j) THEN Go(SigPrev(s, j)) ELSE j
    IN  Go(i)
IsConstantInvocation(m, s, i) ==
    LET next == SigNext(s, i)
        prev == SigPrev(s, i)
        InName(j) == NamespaceOperator(s, j) \/ Punct(s, j, "\\") \/ NameToken(s, j)
        NameOrArray(j) == InName(j) \/ ArrayTypehint(s, j)
        ListPart(j) == InName(j) \/ Punct(s, j, ",") \/ Kw(s, j, "as")
        CatchPart(j) == InName(j) \/ (Punct(s, j, "|") /\ TypeSeparator(s, j))
        head == BackWhile(s, prev, NameOrArray)
        list == BackWhile(s, head, ListPart)
        catch == BackWhile(s, head, CatchPart)
        structure == LastIn({j \in 1 .. i - 1 : KwIn(s, j, {"switch", "enum"})})
        statement == LastIn({j \in 1 .. head - 1 : PunctIn(s, j, {";", "{", "}"}) \/ Kw(s, j, "function") \/ Kind(s, j, "OpenTag")})
        after == SigNext(s, next)
        IsListHead(j) == j \in m.traits \/ ImportUseAt(m, s, j)
    IN  ~(\/ PunctIn(s, next, {"(", "{", "::", "...", "\\"}) \/ IsReturnRef(s, next) \/ TypeSeparator(s, next) \/ Kind(s, next, "Variable")
          \/ Kw(s, next, "as") /\ ~Punct(s, prev, "(")
          \/ KwIn(s, prev, ClassLikeKeywords \cup {"as", "const", "function", "goto"}) \/ PunctIn(s, prev, MemberOps)
          \/ GroupOpenAt(m, s, prev) \/ IsTypeColon(s, prev) \/ TypeSeparator(s, prev)
          \/ Kw(s, prev, "case") /\ m.enum /\ ~Kw(s, structure, "switch")
          \/ KwIn(s, head, {"extends", "implements", "instanceof", "insteadof", "namespace", "new", "const"}) \/ IsListHead(head)
          \/ NullableBefore(s, head) \/ IsTypeColon(s, head) \/ TypeSeparator(s, head) \/ DnfClose(s, head)
          \/ Punct(s, next, "&") /\ Kind(s, after, "Variable") /\ Kw(s, statement, "function")
          \/ Punct(s, head, ",") /\ (KwIn(s, list, {"extends", "implements"}) \/ GroupOpenAt(m, s, list) \/ IsListHead(list))
          \/ Punct(s, head, "[") /\ Punct(s, next, "]") /\ Has(s, after) /\ s[after].k \in {"Variable", "String"}
          \/ AttributeName(m, s, i) \/ BelongsToGotoLabel(s, next)
          \/ Punct(s, catch, "(") /\ Kw(s, SigPrev(s, catch), "catch"))

(* commentReferences: the name as a word of its own.                       *)
IdentByte(v, i) == i \in 1 .. Len(v) /\ ByteAt(v, i, FALSE) # 0 /\ SubSeq(v, i, i) # "\\"
CommentReferences(v, short) ==
    \E p \in 0 .. Len(v) - Len(short) :
        /\ \A k \in 1 .. Len(short) : ByteAt(v, p + k, TRUE) = ByteAt(short, k, TRUE)
        /\ ~IdentByte(v, p) /\ ~IdentByte(v, p + Len(short) + 1)
        /\ p > 0 => SubSeq(v, p, p) \notin {"$", "\\"}
KeywordIsClassRef(s, i) ==
    LET p == PrevNonWs(s, i)
        n == NextNonWs(s, i)
    IN  \/ KwIn(s, p, {"extends", "implements", "new", "instanceof"}) \/ PunctIn(s, p, {"(", ",", ":", "|", "&", "?"})
        \/ Punct(s, n, "::") \/ Kind(s, n, "Variable")
NameUses(m, s, d, i) ==
    LET p == SigPrev(s, i)
        n == SigNext(s, i)
        inAttribute == LastIn({j \in 1 .. i - 1 : Kind(s, j, "AttributeStart")}) > LastIn({j \in 1 .. i - 1 : Kind(s, j, "AttributeEnd")})
        kind == IF IsConstantInvocation(m, s, i) THEN "const"
                ELSE IF Punct(s, n, "(") /\ ~Kw(s, p, "new") /\ ~Kind(s, p, "AttributeStart") THEN "function" ELSE "class"
    IN  /\ ~PunctIn(s, p, MemberOps \cup {"\\"}) /\ ~Kw(s, p, "function") /\ ~(Kw(s, p, "const") /\ Punct(s, n, "="))
        /\ inAttribute \/ (~BelongsToGotoLabel(s, n) /\ kind = d.kind)
IsImportUsed(m, s, ns, d, ignored) ==
    LET Named(i) == Lower(s[i].v) = Lower(d.short)
        InHeader(i) == \E h \in ns.start .. i : /\ NameToken(s, h) /\ Named(h) /\ NamespaceKeyword(s, SigPrev(s, h))
                                                /\ ~\E j \in h + 1 .. i - 1 : PunctIn(s, j, {";", "{"}) \/ Kind(s, j, "CloseTag")
    IN  \E i \in ns.start .. ns.end :
            /\ ~\E span \in ignored : i \in span[1] .. span[2]
            /\ ~InHeader(i)
            /\ \/ NameToken(s, i) /\ Named(i) /\ NameUses(m, s, d, i)
               \/ d.kind = "class" /\ Kind(s, i, "Keyword") /\ Named(i) /\ KeywordIsClassRef(s, i)
               \/ Comment(s, i) /\ CommentReferences(s[i].v, d.short)

(* removeUseDeclaration and what it cleans up around it.                   *)
Emptied(w) == IF w = <<0>> THEN Cleared ELSE WS(w)
ClearUse(s, i) ==
    IF Comment(s, i) THEN s
    ELSE IF ~Broken(s, i) THEN SetAt(s, i, Cleared)
    ELSE IF Comment(s, PrevNonWs(s, i)) THEN SetAt(s, i, Nl(LastLine(s[i].w)))
    ELSE ClearAndMerge(s, i)
CleanUpSurroundingNewLines(s, d) ==
    LET p == d.start - 1
        n == FirstIn({j \in d.end + 1 .. Len(s) : s[j] # Cleared})
        t == IF Ws(s, p) THEN SetAt(s, p, Emptied([s[p].w EXCEPT ![Len(s[p].w)] = 0])) ELSE s
        w == IF Broken(t, n) THEN Tail(t[n].w) ELSE <<0>>
        u == IF Ws(t, n) THEN SetAt(t, n, Emptied(w)) ELSE t
    IN  IF n = 0 THEN t
        ELSE IF Ws(u, p) /\ Ws(u, n) THEN SetAt(SetAt(u, n, Emptied(JoinWs(u[p].w, u[n].w))), p, Cleared) ELSE u
HasId(m, s, i) ==
    s[i] # Cleared /\ (s[i].k # "Punct" \/ Len(s[i].v) > 1 \/ s[i].v = "\\" \/ i \in m.opens \cup m.closes)
ScanUntilNewLine(m, s, i, d) ==
    LET Far == IF d = 1 THEN i + 1 .. Len(s) ELSE 1 .. i - 1
        stops == {j \in Far : Broken(s, j) /\ s[j].w[1] = 0}
        at == IF d = 1 THEN FirstIn(stops) ELSE LastIn(stops)
    IN  [at |-> at, has |-> i # 0 /\ \E j \in Far : /\ ~Ws(s, j) /\ HasId(m, s, j)
                                                    /\ at # 0 => (IF d = 1 THEN j < at ELSE j > at)]
RemoveLineIfEmpty(m, s, d) ==
    LET b == ScanUntilNewLine(m, s, d.from, -1)
        a == ScanUntilNewLine(m, s, d.to, 1)
    IN  IF b.at = 0 \/ b.has \/ a.at = 0 \/ a.has THEN s
        ELSE [i \in DOMAIN s |-> IF i \in b.at .. a.at - 1 THEN Cleared ELSE s[i]]
RemoveWholeUse(s, d, from) ==
    LET RECURSIVE Down(_, _)
        Down(t, i) == IF i < d.start THEN t ELSE Down(ClearUse(t, i), i - 1)
        t == Down(s, from)
    IN  CleanUpSurroundingNewLines(IF Punct(t, d.end, ";") THEN SetAt(t, d.end, Cleared) ELSE t, d)
RemoveImportStatementIfEmpty(m, s, d) ==
    LET brace == LastIn({j \in 1 .. d.end - 1 : GroupCloseAt(m, s, j)})
        t == IF brace > d.start /\ GroupOpenAt(m, s, SigPrev(s, brace)) THEN RemoveWholeUse(s, d, d.end) ELSE s
        b == SigPrev(t, d.end)
    IN  IF ImportUseAt(m, t, b) \/ (b # 0 /\ t[b].v \in {"function", "const"}) THEN RemoveWholeUse(t, d, d.end) ELSE t
CleanUpAfterImportChunkRemoval(m, s, d) ==
    LET b == SigPrev(s, d.from)
        a == SigNext(s, d.to)
        safe == ScanUntilNewLine(m, s, a, -1).has \/ ScanUntilNewLine(m, s, a, 1).has
        comma == IF Punct(s, a, ",") THEN a ELSE IF Punct(s, b, ",") THEN b ELSE 0
        t == IF comma = 0 THEN s ELSE IF safe THEN ClearAndMerge(s, comma) ELSE SetAt(s, comma, Cleared)
        Closing(i) == LET n == SigNext(t, i) IN PunctIn(t, n, {",", ";"}) \/ GroupCloseAt(m, t, n)
        u == [i \in DOMAIN t |-> IF b # 0 /\ i \in b .. a /\ Inline(t, i) /\ t[i] # Cleared
                                 THEN IF Closing(i) \/ GroupOpenAt(m, t, SigPrev(t, i)) THEN Cleared ELSE Sp
                                 ELSE t[i]]
    IN  RemoveImportStatementIfEmpty(m, RemoveLineIfEmpty(m, u, d), d)
RemoveUseDeclaration(m, s, d) ==
    LET RECURSIVE Down(_, _)
        Down(t, i) == IF i < d.from THEN t ELSE Down(ClearUse(t, i), i - 1)
    IN  IF d.multi THEN CleanUpAfterImportChunkRemoval(m, Down(s, d.to), d) ELSE RemoveWholeUse(s, d, d.end - 1)
OfNamespace(ns, d) ==
    LET full == IF SubSeq(d.full, 1, 1) = "\\" THEN SubSeq(d.full, 2, Len(d.full)) ELSE d.full
        n == Len(ns.name)
    IN  /\ ~d.aliased /\ Len(full) > n + 1 /\ SubSeq(full, 1, n + 1) = ns.name \o "\\"
        /\ \A i \in n + 2 .. Len(full) : SubSeq(full, i, i) # "\\"
NoUnusedImports(s) ==
    LET c == ClearableTokens(s)
        m == UseMarks(c)
        decls == UseDeclarations(m, c)
        InNamespace(r, ns) ==
            LET current == SelectSeq(decls, LAMBDA d : d.start >= ns.start /\ d.end <= ns.end)
                ignored == {<<d.start, d.end>> : d \in Seqs!ToSet(current)}
                Removed(q, d) == Result(RemoveUseDeclaration(m, q.toks, d), TRUE)
                Unused(q, d) == IF IsImportUsed(m, q.toks, ns, d, ignored) THEN q ELSE Removed(q, d)
                Same(q, d) == IF OfNamespace(ns, d) THEN Removed(q, d) ELSE q
            IN  Seqs!FoldLeft(Same, Seqs!FoldLeft(Unused, r, current), current)
        r == Seqs!FoldLeft(InNamespace, Unchanged(c), NamespaceDeclarations(c))
    IN  IF r.changed THEN Result(WriteBack(r.toks), TRUE) ELSE Unchanged(s)
=============================================================================
