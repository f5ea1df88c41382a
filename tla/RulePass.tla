------------------------------ MODULE RulePass ------------------------------
(***************************************************************************)
(* The rules of a set over one file: what fixFile does with the rules as   *)
(* they are, where FixFile takes any rules.                                *)
(*                                                                         *)
(* A run applies the rules of a set once each, in their canonical order,   *)
(* to the tokens the lexer made of the file.  With --fix the file then is  *)
(* what was rendered, and the next run lexes that.                         *)
(***************************************************************************)
EXTENDS PhpTokens, RuleSets

CONSTANTS
    Files,               \* token sequences: the files, as lexed
    Fixed(_, _, _),      \* what a rule, as a set configures it, makes of tokens
    Candidate(_, _),     \* IsCandidate, TRUE for a rule that has none
    Hangs(_, _),         \* Fix does not return
    Runs                 \* how often the file is fixed

ASSUME RunsAssumption == Runs \in Nat \ {0}

(* The rules of each set, in the order they run.                           *)
Chain == LET order(s) == CanonicalOrder(byName[s])
         IN  [spaces |-> order("spaces"), casing |-> order("casing"), psr12 |-> order("psr12"),
              common |-> order("common"), percs |-> order("percs"), default |-> order("default")]

VARIABLES
    set,       \* the set of rules of this file's runs
    run,       \* how many runs were made before
    next,      \* the next rule of the set
    source,    \* the file, as lexed
    toks,      \* the stream
    applied    \* res.AppliedRules, of this run

vars == <<set, run, next, source, toks, applied>>
-----------------------------------------------------------------------------
Init ==
    /\ set \in DOMAIN Chain
    /\ source \in Files /\ toks = source
    /\ run = 0 /\ next = 1 /\ applied = {}

Rule == Chain[set][next]
Pending == next <= Len(Chain[set])

(* IsCandidate says no: the rule is not run.                               *)
RuleOut ==
    /\ Pending /\ ~Candidate(Rule, toks)
    /\ next' = next + 1
    /\ UNCHANGED <<set, run, source, toks, applied>>

(* Fix, and the ClearEmptyTokens after it.                                 *)
ApplyRule ==
    /\ Pending /\ Candidate(Rule, toks) /\ ~Hangs(Rule, toks)
    /\ \E r \in {Fixed(set, Rule, toks)} :
           /\ toks' = ClearEmptyTokens(r.toks)
           /\ applied' = IF r.changed THEN applied \cup {Rule} ELSE applied
    /\ next' = next + 1
    /\ UNCHANGED <<set, run, source>>

(* The file is written and read again by the next run.                     *)
RunAgain ==
    /\ ~Pending /\ run + 1 < Runs
    /\ source' = Lex(toks) /\ toks' = source'
    /\ run' = run + 1 /\ next' = 1 /\ applied' = {}
    /\ UNCHANGED set

Next == RuleOut \/ ApplyRule \/ RunAgain

Spec == Init /\ [][Next]_vars /\ WF_vars(Next)
-----------------------------------------------------------------------------
Code(s) == SelectSeq(s, LAMBDA t : t.k \notin {"Whitespace", "Comment", "DocComment"})
Text(s) == Relex(ClearEmptyTokens(s))

LineComments == {"//c", "#c", "//nb"}
Wordy(t) == t.k \in {"Ident", "Keyword", "Number", "Variable"}
(* Two tokens that would be read as one, or as something else.             *)
Glued(a, b) ==
    \/ Wordy(a) /\ b.k \in {"Ident", "Keyword", "Number"}
    \/ a.k = "Punct" /\ b.k = "Punct" /\ a.v \o b.v \in Operators
    \/ a.v \in LineComments /\ (IF b.k = "Whitespace" THEN Len(b.w) = 1 ELSE b.k # "CloseTag")
    \/ a.v = "?" /\ b.v = ">"
    \/ a.v = "<" /\ b.v = "?"

(* The tokens are those the lexer would make of their text, and brackets   *)
(* are in pairs.                                                           *)
Faithful(s) ==
    /\ Lex(s) = Text(s)
    /\ \A i \in 1 .. Len(s) - 1 : ~Glued(s[i], s[i + 1])
    /\ \A o \in Openers : Count(s, Len(s), {o}) = Count(s, Len(s), {CloserOf[o]})

(* Where the code is known to fail: a blank taken out between two signs,   *)
(* and a line break taken out after a line comment.                        *)
Fragile(rule, s) ==
    \/ /\ rule \in {"UnaryOperatorSpaces", "OperatorLinebreak"}
       /\ \E i \in 2 .. Len(s) - 1 : Ws(s, i) /\ Glued(s[i - 1], s[i + 1])
    \/ /\ rule \in {"MultilineWhitespaceBeforeSemicolons", "DeclareEqualNormalize", "DeclareParentheses"}
       /\ \E i \in DOMAIN s : s[i].v \in LineComments

(* A ";" behind a comment goes to the last value or ")", even if that is   *)
(* not the end of its statement.                                           *)
Misplaces(rule, s) ==
    /\ rule = "MultilineWhitespaceBeforeSemicolons"
    /\ \E i \in 2 .. Len(s) :
           /\ Punct(s, i, ";") /\ Comment(s, PrevNonWs(s, i))
           /\ PunctIn(s, SigPrev(s, i), {"]", "}", "++", "--"})

(* The parameters of a "function" with two names before its bracket, as in *)
(* a half-written declaration, are edited before the rule returns false.   *)
Unreported(rule, s) ==
    /\ rule = "FunctionDeclaration"
    /\ \E i \in DOMAIN s : /\ Kw(s, i, "function") /\ Kind(s, NextNonWs(s, i), "Ident")
                           /\ Kind(s, NextNonWs(s, NextNonWs(s, i)), "Ident")

(* The rules that find in a second run what later rules made in the first. *)
NeedTwoRuns == {"Elseif", "FunctionDeclaration", "OperatorLinebreak"}

(* The rules that are there to write other code.                           *)
Rewriters ==
    {"ArrayListItemNewline", "ArraySyntax",
     "AssignNullCoalescingToCoalesceEqual", "ClassDefinition",
     "ClassReferenceNameCasing", "ConstantCase", "ControlStructureBraces",
     "Elseif", "FunctionDeclaration", "FunctionToConstant", "GroupImport",
     "Include", "IncrementStyle", "IsNull", "LambdaNotUsedImport",
     "ListSyntax", "LongToShorthandOperator", "LowercaseCast",
     "LowercaseKeywords", "LowercaseStaticReference", "MagicConstantCasing",
     "MagicMethodCasing", "ModifierKeywords", "NativeFunctionCasing",
     "NativeFunctionTypeDeclarationCasing", "NativeTypeDeclarationCasing",
     "NewWithParentheses", "NoAlternativeSyntax", "NoEmptyStatement",
     "NoLeadingImportSlash", "NoNullPropertyInitialization",
     "NoShortBoolCast", "NoSuperfluousElseif", "NoTrailingCommaInSingleline",
     "NoUnneededBraces", "NoUnneededControlParentheses",
     "NoUnneededImportAlias", "NoUnusedImports", "NoUselessConcatOperator",
     "NoUselessElse", "NoUselessReturn", "NormalizeIndexBrace",
     "NullableTypeDeclaration", "NullableTypeDeclarationForDefaultNullValue",
     "OrderedClassElements", "OrderedImports", "OrderedTypes",
     "ProtectedToPrivate", "SelfAccessor", "ShortScalarCast",
     "SimplifiedNullReturn", "SingleClassElementPerStatement",
     "SingleImportPerStatement", "SingleTraitInsertPerStatement",
     "StandardizeIncrement", "SwitchCaseSemicolonToColon",
     "SwitchContinueToBreak", "TernaryToElvisOperator",
     "TernaryToNullCoalescing", "TrailingCommaInMultiline",
     "VisibilityRequired", "YodaStyle"}

\* The stream a rule leaves is the one the lexer would make of its text: the
\* next rule sees no two tokens run together, none cut or of another kind, no
\* bracket without its other half, whatever rules came before; except after the
\* rules and in the places Fragile names.
Lexed == [][ApplyRule /\ Faithful(toks) => Faithful(toks') \/ Fragile(Rule, toks)]_vars

\* A rule is listed as applied only if it changed the file, and if it changed it,
\* but for the edits Unreported is about; one that IsCandidate ruled out would
\* have changed nothing.
Reported == [][/\ ApplyRule =>
                      /\ Rule \in applied' => Text(toks') # Text(toks)
                      /\ Text(toks') # Text(toks) => Rule \in applied' \/ Unreported(Rule, toks)
               /\ RuleOut => Text(Fixed(set, Rule, toks).toks) = Text(toks)]_vars

\* The rules that lay out code keep every token of it and their order, whatever
\* shape it is in when their turn comes, but for the ";" Misplaces is about.
CodeKept == [][ApplyRule /\ Rule \notin Rewriters =>
                   Code(toks') = Code(toks) \/ Misplaces(Rule, toks)]_vars

\* Fixing what was fixed changes nothing: when the second run of a set is through,
\* the file is as it began, whatever its rules did and undid on the way, so
\* that after --fix the check finds nothing to do; but for what three rules find.
Settles == run > 0 /\ ~Pending => Text(toks) = Text(source) \/ applied \subseteq NeedTwoRuns
=============================================================================
