------------------------------ MODULE RuleSets ------------------------------
(***************************************************************************)
(* The rule sets of blink and the order in which the rules of a run are    *)
(* applied: set.go, registry.go and priorities.go, for the rules that have *)
(* a model.  A rule has the short name of its class, without "Fixer".      *)
(***************************************************************************)
EXTENDS Integers, Sequences, TLC

LOCAL Seqs == INSTANCE SequencesExt

(* getPriority: rules run in descending priority.                          *)
fixerPriority(rule) ==
    CASE rule \in {"ProtectedToPrivate"} -> 66
      [] rule \in {"OrderedClassElements"} -> 65
      [] rule \in {"ModifierKeywords", "SingleClassElementPerStatement", "VisibilityRequired"} -> 56
      [] rule \in {"ClassAttributesSeparation"} -> 55
      [] rule \in {"NoAlternativeSyntax"} -> 42
      [] rule \in {"ArrayListItemNewline", "Elseif", "NoEmptyStatement", "NoUnneededBraces",
             "StandaloneLineConstructorParam", "StandaloneLinePromotedProperty",
             "StandaloneLineRequiredParam", "StandaloneLineSymfonyAttributeParam"} -> 40
      [] rule \in {"EmptyLoopBody", "MethodChainingNewline", "NoSuperfluousElseif",
             "NoUselessElse"} -> 39
      [] rule \in {"NewWithParentheses"} -> 38
      [] rule \in {"ArraySyntax"} -> 37
      [] rule \in {"ClassDefinition", "SingleLineThrow", "SingleSpaceAroundConstruct",
             "SingleTraitInsertPerStatement"} -> 36
      [] rule \in {"ArrayOpenerAndCloserNewline"} -> 34
      [] rule \in {"FunctionDeclaration", "LambdaNotUsedImport",
             "NoMultilineWhitespaceAroundDoubleArrow"} -> 31
      [] rule \in {"MethodArgumentSpace", "NoUnneededControlParentheses"} -> 30
      [] rule \in {"ArrayIndentation"} -> 29
      [] rule \in {"NoUnsetOnProperty"} -> 25
      [] rule \in {"CombineConsecutiveUnsets"} -> 24
      [] rule \in {"LongToShorthandOperator"} -> 17
      [] rule \in {"SimplifiedNullReturn", "StandardizeIncrement"} -> 16
      [] rule \in {"IncrementStyle"} -> 15
      [] rule \in {"CleanNamespace"} -> 10
      [] rule \in {"LineLength", "NoUselessConcatOperator", "StandaloneLineInMultilineArray",
             "VoidReturn"} -> 5
      [] rule \in {"CombineConsecutiveIssets"} -> 4
      [] rule \in {"NoSpacesAfterFunctionName", "NullableTypeDeclarationForDefaultNullValue",
             "SpacesInsideParentheses"} -> 3
      [] rule \in {"DeclareStrictTypes", "FunctionToConstant", "LinebreakAfterOpeningTag",
             "ListSyntax", "NullableTypeDeclaration", "TernaryToElvisOperator"} -> 2
      [] rule \in {"BlankLineAfterOpeningTag", "ControlStructureBraces", "EmptyLoopCondition",
             "IsNull", "MultilinePromotedProperties", "NoSpaceAroundDoubleColon",
             "NoUnneededImportAlias", "SingleImportPerStatement", "StaticPrivateMethod",
             "TernaryOperatorSpaces"} -> 1
      [] rule \in {"AssignNullCoalescingToCoalesceEqual", "NoMultipleStatementsPerLine",
             "SpaceAfterSemicolon", "TypesSpaces"} -> -1
      [] rule \in {"BracesPosition"} -> -2
      [] rule \in {"StatementIndentation"} -> -3
      [] rule \in {"NoShortBoolCast"} -> -9
      [] rule \in {"CastSpaces", "NoUnusedImports", "NotOperatorWithSpace", "SelfStaticAccessor"} -> -10
      [] rule \in {"SelfAccessor", "SingleLineAfterImports"} -> -11
      [] rule \in {"ReturnAssignment"} -> -15
      [] rule \in {"ReturnTypeDeclaration"} -> -17
      [] rule \in {"NoUselessReturn"} -> -18
      [] rule \in {"SingleLineEmptyBody"} -> -19
      [] rule \in {"BlankLineAfterNamespace", "NoExtraBlankLines", "NoLeadingImportSlash"} -> -20
      [] rule \in {"BlankLineBeforeStatement"} -> -21
      [] rule \in {"OrderedImports"} -> -30
      [] rule \in {"BlankLinesBeforeNamespace", "SingleLineCommentStyle"} -> -31
      [] rule \in {"BinaryOperatorSpaces"} -> -32
      [] rule \in {"NoBlankLineBetweenImports"} -> -35
      [] rule \in {"BlankLineBetweenImportGroups"} -> -40
      [] rule \in {"NoWhitespaceInBlankLine"} -> -99
      [] rule \in {"SingleBlankLineAtEof"} -> -100
      [] OTHER -> 0
(* The names in the order of fixerSortName, which breaks ties.             *)
fixerSortName == <<
  "LanguageConstructSpacingSniff", "GlobalKeywordSniff", "SuperfluousWhitespaceSniff",
  "ArrayListItemNewline", "ArrayOpenerAndCloserNewline", "StandaloneLineInMultilineArray",
  "LineLength", "MethodChainingNewline", "NoBlankLineBetweenImports",
  "StandaloneLineConstructorParam", "StandaloneLinePlainConstructorParam",
  "StandaloneLinePromotedProperty", "StandaloneLineRequiredParam",
  "StandaloneLineSymfonyAttributeParam", "BlankLineAfterStrictTypes", "ArrayIndentation",
  "ArraySyntax", "AssignNullCoalescingToCoalesceEqual", "AttributeBlockNoSpaces",
  "BinaryOperatorSpaces", "BlankLineAfterNamespace", "BlankLineAfterOpeningTag",
  "BlankLineBeforeStatement", "BlankLineBetweenImportGroups", "BlankLinesBeforeNamespace",
  "BracesPosition", "CastSpaces", "ClassAttributesSeparation", "ClassDefinition",
  "ClassReferenceNameCasing", "CleanNamespace", "CombineConsecutiveIssets",
  "CombineConsecutiveUnsets", "CompactNullableTypeDeclaration", "ConcatSpace", "ConstantCase",
  "ControlStructureBraces", "ControlStructureContinuationPosition", "DeclareEqualNormalize",
  "DeclareParentheses", "DeclareStrictTypes", "Elseif", "EmptyLoopBody", "EmptyLoopCondition",
  "FunctionDeclaration", "FunctionToConstant", "GroupImport", "Include", "IncrementStyle",
  "IsNull", "LambdaNotUsedImport", "LinebreakAfterOpeningTag", "ListSyntax",
  "LongToShorthandOperator", "LowercaseCast", "LowercaseKeywords", "LowercaseStaticReference",
  "MagicConstantCasing", "MagicMethodCasing", "MethodArgumentSpace",
  "MethodChainingIndentation", "ModifierKeywords", "MultilinePromotedProperties",
  "MultilineWhitespaceBeforeSemicolons", "NativeFunctionCasing",
  "NativeFunctionTypeDeclarationCasing", "NativeTypeDeclarationCasing", "NewWithParentheses",
  "NoAlternativeSyntax", "NoBlankLinesAfterClassOpening", "NoBlankLinesBeforeNamespace",
  "NoBreakComment", "NoEmptyStatement", "NoExtraBlankLines", "NoLeadingImportSlash",
  "NoLeadingNamespaceWhitespace", "NoMultilineWhitespaceAroundDoubleArrow",
  "NoMultipleStatementsPerLine", "NoNullPropertyInitialization", "NoShortBoolCast",
  "NoSinglelineWhitespaceBeforeSemicolons", "NoSpaceAroundDoubleColon",
  "NoSpacesAfterFunctionName", "NoSpacesAroundOffset", "NoSuperfluousElseif",
  "NoTrailingCommaInSingleline", "NoTrailingWhitespace", "NoUnneededBraces",
  "NoUnneededControlParentheses", "NoUnneededFinalMethod", "NoUnneededImportAlias",
  "NoUnreachableDefaultArgumentValue", "NoUnsetCast", "NoUnsetOnProperty", "NoUnusedImports",
  "NoUselessConcatOperator", "NoUselessElse", "NoUselessReturn",
  "NoWhitespaceBeforeCommaInArray", "NoWhitespaceInBlankLine", "NoWhitespaceInEmptyArray",
  "NormalizeIndexBrace", "NotOperatorWithSpace", "NullableTypeDeclaration",
  "NullableTypeDeclarationForDefaultNullValue", "ObjectOperatorWithoutWhitespace",
  "OperatorLinebreak", "OrderedClassElements", "OrderedImports", "OrderedInterfaces",
  "OrderedTraits", "OrderedTypes", "ProtectedToPrivate", "ReturnAssignment",
  "ReturnTypeDeclaration", "SelfAccessor", "SelfStaticAccessor", "ShortScalarCast",
  "SimplifiedNullReturn", "SingleBlankLineAtEof", "SingleBlankLineBeforeNamespace",
  "SingleClassElementPerStatement", "SingleImportPerStatement", "SingleLineAfterImports",
  "SingleLineCommentStyle", "SingleLineEmptyBody", "SingleLineThrow",
  "SingleSpaceAroundConstruct", "SingleTraitInsertPerStatement", "SpaceAfterSemicolon",
  "SpacesInsideParentheses", "StandardizeIncrement", "StatementIndentation", "StaticLambda",
  "StaticPrivateMethod", "SwitchCaseSemicolonToColon", "SwitchCaseSpace",
  "SwitchContinueToBreak", "TernaryOperatorSpaces", "TernaryToElvisOperator",
  "TernaryToNullCoalescing", "TrailingCommaInMultiline", "TrimArraySpaces",
  "TypeDeclarationSpaces", "TypesSpaces", "UnaryOperatorSpaces", "VisibilityRequired",
  "VoidReturn", "WhitespaceAfterCommaInArray", "YodaStyle">>

(* CanonicalOrder: by priority, then by name.                              *)
Position == [r \in Seqs!ToSet(fixerSortName) |-> CHOOSE i \in DOMAIN fixerSortName : fixerSortName[i] = r]
RunsBeforeLowFirst(r, q) ==                              \* mutant: the lowest priority first
    \/ fixerPriority(r) < fixerPriority(q)
    \/ fixerPriority(r) = fixerPriority(q) /\ Position[r] < Position[q]
RunsBefore(r, q) ==
    \/ fixerPriority(r) > fixerPriority(q)
    \/ fixerPriority(r) = fixerPriority(q) /\ Position[r] < Position[q]
CanonicalOrder(rules) == SortSeq(SelectSeq(fixerSortName, LAMBDA r : r \in rules), RunsBefore)
-----------------------------------------------------------------------------
(* The set "spaces".                                                       *)
SpacingFixers == {
  "BinaryOperatorSpaces", "BlankLineAfterOpeningTag", "BlankLineAfterStrictTypes",
  "BlankLineBeforeStatement", "CastSpaces", "ConcatSpace", "LinebreakAfterOpeningTag",
  "MultilineWhitespaceBeforeSemicolons", "NoLeadingNamespaceWhitespace",
  "NoSinglelineWhitespaceBeforeSemicolons", "NoTrailingWhitespace",
  "NoTrailingWhitespaceInComment", "NoWhitespaceInBlankLine", "SingleBlankLineAtEof",
  "SpaceAfterSemicolon", "SuperfluousWhitespaceSniff", "TernaryOperatorSpaces"}
(* The set "casing".                                                       *)
CasingFixers == {
  "ClassReferenceNameCasing", "ConstantCase", "IntegerLiteralCase", "LowercaseCast",
  "LowercaseKeywords", "LowercaseStaticReference", "MagicConstantCasing", "MagicMethodCasing",
  "NativeFunctionCasing", "NativeFunctionTypeDeclarationCasing", "NativeTypeDeclarationCasing",
  "ShortScalarCast"}
(* The set "psr12".                                                        *)
psr12Members == {
  "BinaryOperatorSpaces", "BlankLineAfterNamespace", "BlankLineAfterOpeningTag",
  "BracesPosition", "ClassDefinition", "ConcatSpace", "ConstantCase", "ControlStructureBraces",
  "ControlStructureContinuationPosition", "DeclareEqualNormalize", "DeclareParentheses",
  "Elseif", "Encoding", "FullOpeningTag", "FunctionDeclaration", "IndentationType",
  "LineEnding", "LowercaseCast", "LowercaseKeywords", "MethodArgumentSpace",
  "NewWithParentheses", "NoBlankLinesAfterClassOpening", "NoBreakComment", "NoClosingTag",
  "NoExtraBlankLines", "NoLeadingImportSlash", "NoMultipleStatementsPerLine",
  "NoSinglelineWhitespaceBeforeSemicolons", "NoSpacesAfterFunctionName",
  "NoTrailingWhitespace", "NoTrailingWhitespaceInComment", "NoWhitespaceBeforeCommaInArray",
  "OrderedImports", "ReturnTypeDeclaration", "ShortScalarCast", "SingleBlankLineAtEof",
  "SingleClassElementPerStatement", "SingleImportPerStatement", "SingleLineAfterImports",
  "SingleSpaceAroundConstruct", "SpacesInsideParentheses", "StatementIndentation",
  "SwitchCaseSemicolonToColon", "SwitchCaseSpace", "TernaryOperatorSpaces",
  "UnaryOperatorSpaces", "VisibilityRequired", "WhitespaceAfterCommaInArray"}
(* The set "common".                                                       *)
commonMembers == {
  "AddMissingParamName", "AddMissingVarName", "AlignMultilineComment", "ArrayIndentation",
  "ArrayListItemNewline", "ArrayOpenerAndCloserNewline", "ArraySyntax",
  "AssignNullCoalescingToCoalesceEqual", "BinaryOperatorSpaces", "BlankLineAfterOpeningTag",
  "BlankLineAfterStrictTypes", "CastSpaces", "ClassAttributesSeparation", "ClassDefinition",
  "ClassReferenceNameCasing", "ConcatSpace", "DoubleAsteriskInlineVar",
  "ExplicitIndirectVariable", "ExplicitStringVariable", "FixParamNameTypo", "FixTagTypo",
  "FunctionToConstant", "GeneralPhpdocAnnotationRemove", "Include", "IntegerLiteralCase",
  "IsNull", "LambdaNotUsedImport", "ListSyntax", "LongToShorthandOperator",
  "MagicConstantCasing", "MagicMethodCasing", "MergeDocBlockStart", "MethodArgumentSpace",
  "MethodChainingIndentation", "MultilineCommentOpeningClosing", "NativeFunctionCasing",
  "NativeTypeDeclarationCasing", "NewWithParentheses", "NoAlternativeSyntax",
  "NoBlankLineBetweenImports", "NoBlankLinesAfterClassOpening", "NoBlankLinesAfterPhpdoc",
  "NoEmptyComment", "NoEmptyPhpdoc", "NoEmptyStatement", "NoExtraBlankLines",
  "NoLeadingNamespaceWhitespace", "NoMultilineWhitespaceAroundDoubleArrow",
  "NoNullPropertyInitialization", "NoShortBoolCast", "NoSinglelineWhitespaceBeforeSemicolons",
  "NoSpacesAroundOffset", "NoSuperfluousElseif", "NoSuperfluousPhpdocTags",
  "NoTrailingCommaInSingleline", "NoTrailingWhitespaceInComment", "NoUnneededBraces",
  "NoUnneededControlParentheses", "NoUnneededImportAlias", "NoUnusedImports",
  "NoUselessConcatOperator", "NoUselessNullsafeOperator", "NoUselessReturn",
  "NoWhitespaceBeforeCommaInArray", "NoWhitespaceInBlankLine", "NoWhitespaceInEmptyArray",
  "NotOperatorWithSuccessorSpace", "NullableTypeDeclarationForDefaultNullValue",
  "ObjectOperatorWithoutWhitespace", "OrderedImports", "ParamReturnAndVarTagMalforms",
  "PhpdocIndent", "PhpdocInlineTagNormalizer", "PhpdocLineSpan", "PhpdocNoAccess",
  "PhpdocNoAliasTag", "PhpdocNoDuplicateTypes", "PhpdocNoEmptyReturn", "PhpdocNoPackage",
  "PhpdocOrderByValue", "PhpdocReturnSelfReference", "PhpdocScalar",
  "PhpdocSingleLineVarSpacing", "PhpdocTagCasing", "PhpdocTrim",
  "PhpdocTrimConsecutiveBlankLineSeparation", "PhpdocTypes", "PhpdocVarWithoutName",
  "ProtectedToPrivate", "RemoveDeadParam", "RemoveDeadVarThis",
  "RemoveEventSubscriberDescription", "RemoveMethodNameDuplicateDescription",
  "RemovePHPStormAnnotation", "RemoveParamDescriptionDuplicateName",
  "RemoveParamNameReference", "RemovePropertyVariableNameDescription",
  "RemoveSuperfluousReturnName", "RemoveSuperfluousVarName", "RemoveUselessDefaultComment",
  "ReturnTypeDeclaration", "SelfAccessor", "SingleBlankLineBeforeNamespace",
  "SingleClassElementPerStatement", "SingleLineCommentSpacing", "SingleLineInlineVarDocBlock",
  "SingleQuote", "SingleTraitInsertPerStatement", "SpaceAfterCommaHereNowDoc",
  "SpaceAfterSemicolon", "StandaloneLinePromotedProperty", "StandaloneLineRequiredParam",
  "StandardizeIncrement", "StandardizeNotEquals", "SwitchContinueToBreak",
  "SwitchedTypeAndName", "TernaryOperatorSpaces", "TernaryToNullCoalescing",
  "TrailingCommaInMultiline", "TrimArraySpaces", "TypeDeclarationSpaces", "TypeToVarTag",
  "TypesSpaces", "WhitespaceAfterCommaInArray", "YodaStyle"}
(* The set "per-cs".                                                       *)
perCSRules == {
  "ArrayIndentation", "ArraySyntax", "AttributeBlockNoSpaces", "BinaryOperatorSpaces",
  "BlankLineAfterNamespace", "BlankLineAfterOpeningTag", "BlankLineBetweenImportGroups",
  "BlankLinesBeforeNamespace", "BracesPosition", "CastSpaces", "ClassDefinition",
  "CompactNullableTypeDeclaration", "ConcatSpace", "ConstantCase", "ControlStructureBraces",
  "ControlStructureContinuationPosition", "DeclareEqualNormalize", "Elseif", "Encoding",
  "FullOpeningTag", "FunctionDeclaration", "IndentationType", "LineEnding", "LowercaseCast",
  "LowercaseKeywords", "LowercaseStaticReference", "MethodArgumentSpace", "ModifierKeywords",
  "NewWithParentheses", "NoBlankLinesAfterClassOpening", "NoBreakComment", "NoClosingTag",
  "NoExtraBlankLines", "NoLeadingImportSlash", "NoMultipleStatementsPerLine",
  "NoSpaceAroundDoubleColon", "NoSpacesAfterFunctionName", "NoTrailingWhitespace",
  "NoTrailingWhitespaceInComment", "NoWhitespaceInBlankLine", "NullableTypeDeclaration",
  "OperatorLinebreak", "OrderedClassElements", "OrderedImports", "OrderedTypes",
  "ReturnTypeDeclaration", "ShortScalarCast", "SingleBlankLineAtEof",
  "SingleClassElementPerStatement", "SingleImportPerStatement", "SingleLineAfterImports",
  "SingleLineEmptyBody", "SingleSpaceAroundConstruct", "SingleTraitInsertPerStatement",
  "SpacesInsideParentheses", "StatementIndentation", "SwitchCaseSemicolonToColon",
  "SwitchCaseSpace", "TernaryOperatorSpaces", "TrailingCommaInMultiline", "TypesSpaces",
  "UnaryOperatorSpaces"}
(* byName, and Default, which is what a run without a config takes.        *)
byName == [spaces |-> SpacingFixers, casing |-> CasingFixers, psr12 |-> psr12Members,
           common |-> commonMembers, percs |-> perCSRules, default |-> psr12Members \cup commonMembers]
=============================================================================
