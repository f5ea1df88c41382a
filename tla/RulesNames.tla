----------------------------- MODULE RulesNames ------------------------------
(***************************************************************************)
(* The blink rules about how words are spelled, alternative syntax, casts  *)
(* and calls that a shorter expression replaces.                           *)
(***************************************************************************)
EXTENDS RulesLang

LOCAL Seqs == INSTANCE SequencesExt
-----------------------------------------------------------------------------
(* no_alternative_syntax: backwards, so that what ends a control structure *)
(* is a brace before its head is looked at.                                *)
NasOpenControls == {"if", "foreach", "while", "for", "switch", "declare"}
NasEndControls == {"endif", "endforeach", "endwhile", "endfor", "endswitch", "enddeclare"}
NasBrace(s, i) == <<P("{")>> \o (IF Has(s, i + 1) /\ ~Ws(s, i + 1) THEN <<Sp>> ELSE <<>>)
NasFixOpen(s, i) ==
    LET after == SigNext(s, Match(s, NextPunct(s, i, {"("})))
        gap == IF Ws(s, after - 1) THEN <<>> ELSE <<Sp>>
    IN  IF Match(s, NextPunct(s, i, {"("})) = 0 \/ ~Punct(s, after, ":") THEN Unchanged(s)
        ELSE Result(ReplaceRange(s, after, after, gap \o NasBrace(s, after)), TRUE)
NasFixEnd(s, i) ==
    LET n == SigNext(s, i)
        closed == SetAt(s, i, P("}"))
    IN  Result(IF Punct(s, n, ";") THEN ReplaceRange(closed, n, n, <<>>) ELSE closed, TRUE)
NasParenthesisEnd(s, i) == LET m == Match(s, SigNext(s, i)) IN IF Punct(s, SigNext(s, i), "(") /\ m # 0 THEN m ELSE i
NasAddBraces(s, i, colon) ==
    LET head == <<P("}"), Sp, Tok("Keyword", Lower(s[i].v))>> \o (IF Ws(s, i + 1) THEN <<>> ELSE <<Sp>>)
    IN  ReplaceRange(ReplaceRange(s, colon, colon, NasBrace(s, colon)), i, i, head)
NasFixElse(s, i) ==
    LET colon == SigNext(s, IF Kw(s, i, "elseif") THEN NasParenthesisEnd(s, i) ELSE i)
    IN  IF Punct(s, colon, ":") THEN Result(NasAddBraces(s, i, colon), TRUE) ELSE Unchanged(s)
NoAlternativeSyntax(monolithicOnly, s) ==
    LET At(t, i) == KwIn(t, i, {"else", "elseif"} \cup NasOpenControls \cup NasEndControls)
        Step(t, i) == IF KwIn(t, i, {"else", "elseif"}) THEN NasFixElse(t, i)
                      ELSE IF KwIn(t, i, NasOpenControls) THEN NasFixOpen(t, i) ELSE NasFixEnd(t, i)
    IN  IF monolithicOnly /\ ~IsMonolithic(s) THEN Unchanged(s) ELSE ForEachBack(s, At, Step)
-----------------------------------------------------------------------------
(* casing, magic_casing, cast_casing, gen2_casing, casing2                 *)
Recase(s, at, Spelling(_)) ==
    LET New(i) == <<[s[i] EXCEPT !.v = Spelling(@)]>> IN Rewrite(s, {i \in at : Spelling(s[i].v) # s[i].v}, New)
Names(s, k, words) == {i \in DOMAIN s : s[i].k \in k /\ Lower(s[i].v) \in {Lower(w) : w \in words}}
Canonical(words, v) == CHOOSE w \in words : Lower(w) = Lower(v)

LowercaseKeywords(s) == Recase(s, {i \in DOMAIN s : s[i].k = "Keyword"}, Lower)

IsConstantCaseFixable(s, i) ==
    LET p == SigPrev(s, i)
        n == SigNext(s, i)
    IN  /\ ~KwIn(s, p, {"extends", "implements", "instanceof", "namespace", "new"})
        /\ ~PunctIn(s, p, MemberOps \cup {"\\"})
        /\ ~(Kw(s, p, "case") /\ Punct(s, n, ";"))
        /\ ~IsNamedArgument(s, i)
        /\ ~PunctIn(s, n, {"::", "\\", "="})
ConstantCase(upper, s) ==
    LET Wanted(v) == IF ~upper THEN Lower(v)
                     ELSE CASE Lower(v) = "true" -> "TRUE" [] Lower(v) = "false" -> "FALSE" [] Lower(v) = "null" -> "NULL"
    IN  Recase(s, {i \in Names(s, {"Ident"}, {"true", "false", "null"}) : IsConstantCaseFixable(s, i)}, Wanted)
LowercaseStaticReference(s) ==
    Recase(s, {i \in Names(s, {"Ident", "Keyword"}, {"self", "static", "parent"}) :
                  ~MemberPrev(s, i) /\ Spelled(s, NextNonWs(s, i)) # "="}, Lower)

MagicConstants == {"__LINE__", "__FILE__", "__DIR__", "__FUNCTION__", "__CLASS__", "__TRAIT__", "__METHOD__",
                   "__NAMESPACE__", "__COMPILER_HALT_OFFSET__"}
MagicConstantCasing(s) ==
    LET Known(v) == Canonical(MagicConstants, v) IN Recase(s, Names(s, {"Ident"}, MagicConstants), Known)
MagicMethods == {"__construct", "__destruct", "__call", "__callStatic", "__get", "__set", "__isset", "__unset",
                 "__sleep", "__wakeup", "__serialize", "__unserialize", "__toString", "__invoke", "__set_state",
                 "__clone", "__debugInfo"}
MagicMethodCasing(s) ==
    LET Known(v) == Canonical(MagicMethods, v)
    IN  Recase(s, {i \in Names(s, {"Ident"}, MagicMethods) : Spelled(s, NextNonWs(s, i)) = "("}, Known)

CastTypeAt(s) == {NextNonWs(s, i) : i \in {i \in DOMAIN s : CastClose(s, i) # 0}}
LowercaseCast(s) == Recase(s, CastTypeAt(s), Lower)
ShortScalar(v) ==
    CASE Lower(v) = "integer" -> "int" [] Lower(v) = "boolean" -> "bool" [] Lower(v) \in {"double", "real"} -> "float"
      [] Lower(v) = "binary" -> "string" [] OTHER -> v
ShortScalarCast(s) == Recase(s, CastTypeAt(s), ShortScalar)

(* The names of classes that PHP has: of a name "\\Name" that is not part  *)
(* of a longer one, where it cannot be a call, a constant or a target.     *)
BuiltinClassNames ==
    {"stdClass", "Closure", "Generator", "Fiber", "WeakMap", "WeakReference", "Stringable", "Throwable",
     "Traversable", "Iterator", "IteratorAggregate", "ArrayAccess", "Countable", "JsonSerializable",
     "UnitEnum", "BackedEnum", "Attribute", "Exception", "ErrorException", "Error", "TypeError",
     "ValueError", "ArgumentCountError", "ArithmeticError", "DivisionByZeroError", "UnhandledMatchError",
     "JsonException", "LogicException", "BadFunctionCallException", "BadMethodCallException",
     "DomainException", "InvalidArgumentException", "LengthException", "OutOfRangeException",
     "RuntimeException", "OutOfBoundsException", "OverflowException", "RangeException",
     "UnderflowException", "UnexpectedValueException", "ArrayObject", "ArrayIterator", "SplStack",
     "SplQueue", "SplDoublyLinkedList", "SplFixedArray", "SplHeap", "SplMinHeap", "SplMaxHeap",
     "SplPriorityQueue", "SplObjectStorage", "SplFileInfo", "SplFileObject", "SplTempFileObject",
     "DateTime", "DateTimeImmutable", "DateTimeInterface", "DateInterval", "DatePeriod", "DateTimeZone",
     "ReflectionClass", "ReflectionMethod", "ReflectionProperty", "ReflectionFunction",
     "ReflectionParameter", "ReflectionNamedType", "ReflectionException", "ReflectionEnum"}
IsClassReferencePosition(s, before, i) ==
    LET n == NextNonWs(s, i)
    IN  /\ ~(PunctIn(s, before, {",", "(", "[", "{"}) /\ PunctIn(s, n, {",", ")", "]", "}"}))
        /\ Kw(s, before, "new") \/ (~Kind(s, n, "CloseTag") /\ Spelled(s, n) \notin {"(", ";", "="})
ClassReferenceNameCasing(s) ==
    LET Known(v) == Canonical(BuiltinClassNames, v)
        Slash(i) == PrevNonWs(s, i)
        at == {i \in Names(s, {"Ident"}, BuiltinClassNames) :
                  /\ Punct(s, Slash(i), "\\") /\ ~Punct(s, NextNonWs(s, i), "\\")
                  /\ ~Kind(s, PrevNonWs(s, Slash(i)), "Ident")
                  /\ IsClassReferencePosition(s, PrevNonWs(s, Slash(i)), i)}
    IN  Recase(s, at, Known)

NativeFunctions ==
    {"strlen", "count", "sizeof", "is_array", "is_string", "is_int", "is_integer", "is_bool", "is_null",
     "is_object", "is_callable", "is_numeric", "is_float", "is_a", "is_iterable", "array_map", "array_filter",
     "array_merge", "array_keys", "array_values", "array_key_exists", "in_array", "implode", "explode",
     "str_replace", "str_repeat", "substr", "strpos", "stripos", "strrpos", "strtolower", "strtoupper", "ucfirst",
     "lcfirst", "ucwords", "trim", "ltrim", "rtrim", "sprintf", "printf", "vsprintf", "number_format",
     "json_encode", "json_decode", "preg_match", "preg_replace", "preg_split", "preg_match_all", "preg_quote",
     "sort", "rsort", "usort", "uasort", "uksort", "ksort", "krsort", "asort", "arsort", "array_push",
     "array_pop", "array_shift", "array_unshift", "array_slice", "array_splice", "array_reverse", "array_unique",
     "array_flip", "array_combine", "array_column", "array_sum", "array_product", "array_reduce", "array_search",
     "array_fill", "array_diff", "array_intersect", "array_pad", "array_chunk", "array_key_first",
     "array_key_last", "max", "min", "abs", "ceil", "floor", "round", "intval", "floatval", "strval", "boolval",
     "gettype", "settype", "function_exists", "method_exists", "class_exists", "interface_exists",
     "property_exists", "defined", "define", "constant", "call_user_func", "call_user_func_array",
     "func_get_args", "func_num_args", "compact", "extract", "print_r", "var_dump", "var_export", "serialize",
     "unserialize", "base64_encode", "base64_decode", "md5", "sha1", "hash", "dechex", "hexdec", "date", "time",
     "mktime", "strtotime", "microtime", "str_pad", "str_split", "str_contains", "str_starts_with",
     "str_ends_with", "wordwrap", "nl2br", "htmlspecialchars", "htmlentities", "strip_tags", "addslashes",
     "stripslashes", "ord", "chr", "intdiv", "fmod", "pow", "sqrt", "rand", "mt_rand", "random_int",
     "array_is_list"}
IsFirstClassCallable(s, i) ==
    LET open == SigNext(s, i)
        dots == SigNext(s, open)
    IN  Spelled(s, open) = "(" /\ Punct(s, dots, "...") /\ Spelled(s, SigNext(s, dots)) = ")"
(* Backwards from j to the "#[" that the "," before parts the names of.    *)
RECURSIVE InAttributeGroup(_, _, _)
InAttributeGroup(s, j, depth) ==
    IF j < 1 \/ Kind(s, j, "AttributeEnd") \/ (PunctIn(s, j, Openers) /\ depth = 0) THEN FALSE
    ELSE IF Kind(s, j, "AttributeStart") /\ depth = 0 THEN TRUE
    ELSE InAttributeGroup(s, j - 1, depth + (IF PunctIn(s, j, Closers) THEN 1 ELSE IF PunctIn(s, j, Openers) THEN -1 ELSE 0))
AttributeNameAt(s, i) ==
    LET p == PrevNonWs(s, i)
    IN  Kind(s, p, "AttributeStart") \/ (Punct(s, p, ",") /\ InAttributeGroup(s, p - 1, 0))
IsGlobalFunctionCallAt(s, i) ==
    LET qualified == Punct(s, SigPrev(s, i), "\\")
        p == IF qualified THEN SigPrev(s, SigPrev(s, i)) ELSE SigPrev(s, i)
    IN  /\ Spelled(s, NextNonWs(s, i)) = "("
        /\ ~Kind(s, p, "Ident") /\ ~Kind(s, p, "AttributeStart") /\ ~PunctIn(s, p, MemberOps)
        /\ ~(Punct(s, p, "&") /\ Kw(s, SigPrev(s, p), "function"))
        /\ ~KwIn(s, p, {"function", "new"} \cup (IF qualified THEN {"namespace"} ELSE {}))
        /\ ~IsFirstClassCallable(s, i)
        /\ qualified \/ ~AttributeNameAt(s, i)
NativeFunctionCasing(s) ==
    Recase(s, {i \in Names(s, {"Ident"}, NativeFunctions) : IsGlobalFunctionCallAt(s, i)}, Lower)

TypeContextPrev(s, i) ==
    LET p == PrevNonWs(s, i)
    IN  PunctIn(s, p, {"(", ",", "|", "?", "&", ":"})
        \/ KwIn(s, p, {"public", "private", "protected", "static", "readonly", "var"} \cup SetModifiers)
NativeTypeDeclarationCasing(s) ==
    Recase(s, {i \in Names(s, {"Ident", "Keyword"}, NativeTypeNames) : TypeContextPrev(s, i) /\ TypeContextNext(s, i)}, Lower)
-----------------------------------------------------------------------------
(* gen_ops_cast, gen2_ops, no_useless_concat_operator                      *)
NoShortBoolCast(s) ==
    LET At(t, i) == i > 1 /\ Punct(t, i, "!") /\ Punct(t, PrevNonWs(t, i), "!")
        Step(t, i) == Result(ReplaceRange(t, PrevNonWs(t, i), i, <<P("("), Tok("Ident", "bool"), P(")")>>
                                          \o (IF Has(t, i + 1) /\ ~Ws(t, i + 1) THEN <<Sp>> ELSE <<>>)), TRUE)
    IN  ForEachBack(s, At, Step)
NoUnsetCast(s) ==
    LET Assign(t, i) == PrevNonWs(t, i)
        Var(t, i) == NextNonWs(t, CastClose(t, i))
        At(t, i) ==
            /\ CastClose(t, i) # 0 /\ Lower(t[NextNonWs(t, i)].v) = "unset"
            /\ Punct(t, Assign(t, i), "=") /\ Kind(t, Var(t, i), "Variable")
            /\ EndsStatement(t, NextNonWs(t, Var(t, i)))
        Null(t, i) == (IF Ws(t, Assign(t, i) + 1) THEN <<>> ELSE <<Sp>>) \o <<Tok("Ident", "null")>>
        Step(t, i) == Result(ReplaceRange(t, i, Var(t, i), Null(t, i)), TRUE)
    IN  ForEach(s, At, Step)

AssignNullCoalescingToCoalesceEqual(s) ==
    LET Operator(i) == SigNext(s, SigNext(s, i))
        Operand(i) == SigNext(s, Operator(i))
        lv(i) == SigPrev(s, i)
        at == {i \in DOMAIN s :
                  /\ Punct(s, i, "=") /\ Kind(s, lv(i), "Variable")
                  /\ Spelled(s, SigPrev(s, lv(i))) \notin MemberOps \cup {"$", "&"}
                  /\ Kind(s, SigNext(s, i), "Variable") /\ s[SigNext(s, i)].v = s[lv(i)].v
                  /\ Punct(s, Operator(i), "??")
                  /\ Operand(i) # 0 /\ s[Operand(i)].k \in {"Variable", "Number", "String", "Ident"}
                  /\ Spelled(s, SigNext(s, Operand(i))) = ";"
                  /\ SpanClean(s, i, Operator(i))}
        New(j) == IF j \in at THEN <<P("??=")>> ELSE <<>>
    IN  Rewrite(s, UNION {i .. Operator(i) : i \in at}, New)

(* Literals of one quote style; the merged literal meets the next one.     *)
RECURSIVE MergeLiterals(_, _)
MergeLiterals(s, i) ==
    LET dot == NextNonWs(s, i)
        k == NextNonWs(s, dot)
        a == s[i].v
        b == s[k].v
    IN  IF Punct(s, dot, ".") /\ Kind(s, k, "String") /\ ~RangeHasNewline(s, i, k)
        THEN MergeLiterals(ReplaceRange(s, i, k, <<Tok("String", SubSeq(a, 1, Len(a) - 1) \o SubSeq(b, 2, Len(b)))>>), i)
        ELSE s
NoUselessConcatOperator(s) ==
    LET At(t, i) == Kind(t, i, "String")
        Step(t, i) == Result(MergeLiterals(t, i), MergeLiterals(t, i) # t)
    IN  ForEach(s, At, Step)
-----------------------------------------------------------------------------
(* is_null: the calls are found first and replaced from the last on, by    *)
(* the positions they had; a call inside an argument moves its end.        *)
IsNullCalls(s) ==
    {i \in DOMAIN s :
        /\ Kind(s, i, "Ident") /\ Lower(s[i].v) = "is_null"
        /\ ~PunctIn(s, PrevNonWs(s, i), MemberOps \cup {"\\"}) /\ ~Kw(s, PrevNonWs(s, i), "function")
        /\ Punct(s, NextNonWs(s, i), "(") /\ Match(s, NextNonWs(s, i)) # 0}
ArgHasDepth0Operator(arg) ==
    LET At0(j) == Cardinality({b \in 1 .. j : PunctIn(arg, b, Openers)}) - Cardinality({b \in 1 .. j : PunctIn(arg, b, Closers)})
    IN  \E j \in DOMAIN arg :
           /\ At0(j) = 0
           /\ \/ arg[j].k = "Punct" /\ arg[j].v \notin MemberOps \cup {"\\", "..."} \cup Openers \cup Closers
              \/ KwIn(arg, j, {"and", "or", "xor", "instanceof"})
ReplaceIsNull(s, start, open, close) ==
    LET In(S) == {j \in S : ~Ws(s, j)}
        first == FirstIn(In(open + 1 .. close - 1))
        arg == IF first = 0 THEN <<>> ELSE SubSeq(s, first, LastIn(In(open + 1 .. close - 1)))
        same == IF Punct(s, start, "!") THEN "!==" ELSE "==="
    IN  ReplaceRange(s, start, close, <<Tok("Ident", "null"), Sp, P(same), Sp>>
                     \o (IF ArgHasDepth0Operator(arg) THEN <<P("(")>> \o arg \o <<P(")")>> ELSE arg))
IsNull(s) ==
    LET sites == IsNullCalls(s)
        Start(i) == IF Punct(s, PrevNonWs(s, i), "!") THEN PrevNonWs(s, i) ELSE i
        Site(t, i) == ReplaceIsNull(t, Start(i), NextNonWs(s, i), Match(s, NextNonWs(s, i)))
        RECURSIVE Go(_, _)
        Go(t, todo) == IF todo = {} THEN t ELSE Go(Site(t, LastIn(todo)), todo \ {LastIn(todo)})
    IN  Result(Go(s, sites), sites # {})
-----------------------------------------------------------------------------
(* function_to_constant: forwards, each call where the last one ended.     *)
FunctionConstants == {"pi", "phpversion", "php_sapi_name", "get_called_class", "get_class_this"}
NoArgConstant(name) ==
    CASE name = "pi" -> "M_PI" [] name = "phpversion" -> "PHP_VERSION" [] name = "php_sapi_name" -> "PHP_SAPI"
ClassConstant(name) == <<Tok("Keyword", name), P("::"), Tok("Ident", "class")>>
FunctionConstant(functions, s, i, open) ==
    LET name == Lower(s[i].v)
        arg == NextNonWs(s, open)
        close == Match(s, open)
        this == Kind(s, arg, "Variable") /\ s[arg].v = "$this" /\ NextNonWs(s, arg) = close
    IN  CASE name \in {"pi", "phpversion", "php_sapi_name"} /\ arg = close /\ name \in functions ->
                <<Tok("Ident", NoArgConstant(name))>>
          [] name = "get_called_class" /\ arg = close /\ name \in functions -> ClassConstant("static")
          [] name = "get_class" /\ arg = close /\ name \in functions -> ClassConstant("self")
          [] name = "get_class" /\ this /\ "get_class_this" \in functions -> ClassConstant("static")
          [] OTHER -> <<>>
FunctionToConstant(functions, s) ==
    LET Name(t, i) == Kind(t, i, "Ident") /\ Lower(t[i].v) \in {"pi", "phpversion", "php_sapi_name", "get_called_class", "get_class"}
        At(t, i) ==
            LET p == PrevNonWs(t, i)
                before == PrevNonWs(t, p)
            IN  /\ Name(t, i) /\ ~PunctIn(t, p, MemberOps) /\ ~Kw(t, p, "function")
                /\ ~(Punct(t, p, "\\") /\ (Kind(t, before, "Ident") \/ Spelled(t, before) = "\\"))
                /\ Match(t, NextNonWs(t, i)) # 0 /\ Punct(t, NextNonWs(t, i), "(")
                /\ FunctionConstant(functions, t, i, NextNonWs(t, i)) # <<>>
        Step(t, i) ==
            LET start == IF Punct(t, PrevNonWs(t, i), "\\") THEN PrevNonWs(t, i) ELSE i
            IN  Result(ReplaceRange(t, start, Match(t, NextNonWs(t, i)), FunctionConstant(functions, t, i, NextNonWs(t, i))), TRUE)
    IN  ForEach(s, At, Step)
-----------------------------------------------------------------------------
(* declare_strict_types: the first declare() whose parentheses hold        *)
(* "strict_types = <int>".                                                 *)
StrictTypesSequence(s, open) ==
    LET Value(i) == SigNext(s, SigNext(s, i))
        starts == {i \in open .. Match(s, open) : /\ TString(s, i) /\ Lower(s[i].v) = "strict_types"
                                                  /\ Punct(s, SigNext(s, i), "=") /\ Kind(s, Value(i), "Number")
                                                  /\ Value(i) <= Match(s, open)}
    IN  IF starts = {} THEN <<>> ELSE <<FirstIn(starts), Value(FirstIn(starts))>>
StrictTypesDeclaration(s) ==
    FirstIn({i \in DOMAIN s : /\ Kw(s, i, "declare") /\ Punct(s, SigNext(s, i), "(") /\ Match(s, SigNext(s, i)) # 0
                              /\ StrictTypesSequence(s, SigNext(s, i)) # <<>>})
(* "<?php" keeps the first blank or break that followed it.                *)
InsertStrictTypes(s) ==
    LET rest == IF ~Ws(s, 2) THEN <<0>>
                ELSE IF s[2].w[1] > 0 THEN <<s[2].w[1] - 1>> \o Tail(s[2].w) ELSE Tail(s[2].w)
        end == IF Ws(s, 2) THEN 2 ELSE 1
        more == end < Len(s) \/ rest # <<0>>
        declare == <<Sp, Tok("Keyword", "declare"), P("("), Tok("Ident", "strict_types"), P("="), Tok("Number", "1"), P(")"), P(";")>>
    IN  ReplaceRange(s, 2, end, declare \o (IF more THEN <<WS(<<0, 0>> \o Tail(rest))>> ELSE <<>>))

RECURSIVE ClearBack(_, _, _)
ClearBack(s, i, to) == IF i < to THEN s ELSE IF NonEmpty(s[i]) THEN ClearBack(ClearAndMerge(s, i), i - 1, to) ELSE ClearBack(s, i - 1, to)
RemoveLeadingBlanks(s, i) ==
    LET w == LastIn({j \in 1 .. i - 1 : NonEmpty(s[j])})
    IN  IF ~Ws(s, w) THEN s
        ELSE IF IsLineComment(s, w - 1)
             THEN IF Len(s[w].w) = 2 /\ s[w].w[1] = 0 /\ s[w].w # <<0, 0>> THEN SetAt(s, w, Nl(0)) ELSE s
        ELSE IF Inline(s, w) THEN SetAt(s, w, Cleared) ELSE s
RemoveStrictTypes(s, declare) ==
    LET open == SigNext(s, declare)
        seq == StrictTypesSequence(s, open)
        semicolon == SigNext(s, Match(s, open))
        t == ClearBack(s, seq[2], seq[1])
        before == SigPrev(t, seq[1])
        after == SigNext(t, seq[2])
        Comma(c, side) == LET u == ClearAndMerge(t, c) IN IF SigNext(u, side) = 0 THEN u ELSE RemoveLeadingBlanks(u, SigNext(u, side))
    IN  IF ~\E i \in open .. Match(s, open) : TString(s, i) /\ i \notin {seq[1], seq[2]}
        THEN IF semicolon = 0 THEN s ELSE ClearBack(s, semicolon, declare)
        ELSE IF Punct(t, before, ",") THEN Comma(before, seq[2])
        ELSE IF Punct(t, after, ",") THEN Comma(after, after) ELSE t
DeclareStrictTypes(strategy, s) ==
    LET declare == StrictTypesDeclaration(s)
        seq == StrictTypesSequence(s, SigNext(s, declare))
        named == SetAt(s, seq[1], Tok("Ident", "strict_types"))
        after == CASE strategy = "remove" -> IF declare = 0 THEN s ELSE ClearEmptyTokens(RemoveStrictTypes(s, declare))
                   [] strategy # "remove" /\ declare = 0 -> InsertStrictTypes(s)
                   [] strategy = "enforce" /\ declare # 0 -> SetAt(named, seq[2], Tok("Number", "1"))
                   [] OTHER -> named
    IN  IF IsMonolithic(s) /\ s[1].v # "<?=" THEN Compared(s, after) ELSE Unchanged(s)
=============================================================================
