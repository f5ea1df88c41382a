----------------------------- MODULE RuleFixers -----------------------------
(***************************************************************************)
(* ByName and the options of the sets: which rewriting a rule of a set is, *)
(* and what its IsCandidate says.                                          *)
(***************************************************************************)
EXTENDS RulesLayout, RulesStatements

(* perCSRules, the options of SingleSpaceAroundConstruct.                  *)
PerCsConstructs == {"abstract", "as", "case", "catch", "class", "const", "const_import", "do", "else", "elseif",
                    "enum", "final", "finally", "for", "foreach", "function", "function_import", "if",
                    "insteadof", "interface", "match", "named_argument", "namespace", "new", "private",
                    "protected", "public", "readonly", "static", "switch", "trait", "try", "type_colon",
                    "use", "use_lambda", "while"}

(* IsCandidate, of the rules that have one.                                *)
IsCandidate(rule, s) ==
    CASE rule = "SwitchCaseSemicolonToColon" -> HasAnyWord(s, {"case", "default"})
      [] rule \in {"SwitchCaseSpace", "NoBreakComment"} -> HasAnyWord(s, {"switch"})
      [] rule = "SwitchContinueToBreak" -> HasAnyWord(s, {"continue"}) /\ HasAnyWord(s, {"switch"})
      [] rule = "ListSyntax" -> ListSyntaxCandidate(FALSE, s)
      [] rule = "GroupImport" -> GroupImportCandidate(s)
      [] rule = "NullableTypeDeclaration" -> NullableTypeDeclarationCandidate(FALSE, s)
      [] rule = "NullableTypeDeclarationForDefaultNullValue" -> HasAnyWord(s, {"null"})
      [] rule = "NoNullPropertyInitialization" -> NoNullPropertyCandidate(s)
      [] rule = "LowercaseStaticReference" -> HasAnyWord(s, {"self", "static", "parent"})
      [] rule = "MagicConstantCasing" -> HasAnyWord(s, MagicConstants)
      [] rule = "MagicMethodCasing" -> HasAnyWord(s, MagicMethods)
      [] rule = "FunctionToConstant" -> HasAnyWord(s, FunctionConstants \cup {"get_class"})
      [] rule = "IsNull" -> HasAnyWord(s, {"is_null"})
      [] OTHER -> TRUE

(* configure: the rule with the options its set gives it.                  *)
Configured(set, rule, s) ==
    CASE rule = "ArrayIndentation" -> ArrayIndentation(s)
      [] rule = "ArrayListItemNewline" -> ArrayListItemNewline(s)
      [] rule = "ArrayOpenerAndCloserNewline" -> ArrayOpenerAndCloserNewline(s)
      [] rule = "ArraySyntax" -> ArraySyntax(FALSE, s)
      [] rule = "AssignNullCoalescingToCoalesceEqual" -> AssignNullCoalescingToCoalesceEqual(s)
      [] rule = "AttributeBlockNoSpaces" -> AttributeBlockNoSpaces(s)
      [] rule = "BinaryOperatorSpaces" -> BinaryOperatorSpaces(EveryOperator(IF set = "percs" THEN "at_least_single_space" ELSE "single_space"), s)
      [] rule = "BlankLineAfterNamespace" -> BlankLineAfterNamespace(s)
      [] rule = "BlankLineAfterOpeningTag" -> BlankLineAfterOpeningTag(s)
      [] rule = "BlankLineAfterStrictTypes" -> BlankLineAfterStrictTypes(s)
      [] rule = "BlankLineBeforeStatement" -> BlankLineBeforeStatement({"break", "continue", "declare", "return", "throw", "try"}, s)
      [] rule = "BlankLineBetweenImportGroups" -> BlankLineBetweenImportGroups(s)
      [] rule = "BlankLinesBeforeNamespace" -> BlankLinesBeforeNamespace(2, 2, s)
      [] rule = "BracesPosition" -> BracesPosition(IF set = "percs" THEN [BracesDefault EXCEPT !.singleLineFns = FALSE, !.emptyAnon = TRUE]
                                           ELSE BracesDefault, s)
      [] rule = "CastSpaces" -> CastSpaces(FALSE, s)
      [] rule = "ClassAttributesSeparation" -> ClassAttributesSeparation(ClassSeparationDefault, s)
      [] rule = "ClassDefinition" -> ClassDefinition([ClassDefinitionDefault EXCEPT !.singleLine = set \in {"common", "default"},
                                      !.spaceBeforeParenthesis = set = "percs", !.inlineConstructorArguments = set # "percs"], s)
      [] rule = "ClassReferenceNameCasing" -> ClassReferenceNameCasing(s)
      [] rule = "CleanNamespace" -> CleanNamespace(s)
      [] rule = "CombineConsecutiveIssets" -> CombineConsecutiveIssets(s)
      [] rule = "CombineConsecutiveUnsets" -> CombineConsecutiveUnsets(s)
      [] rule = "CompactNullableTypeDeclaration" -> CompactNullableTypeDeclaration(s)
      [] rule = "ConcatSpace" -> ConcatSpace(FALSE, s)
      [] rule = "ConstantCase" -> ConstantCase(FALSE, s)
      [] rule = "ControlStructureBraces" -> ControlStructureBraces(s)
      [] rule = "ControlStructureContinuationPosition" -> ControlStructureContinuationPosition(FALSE, s)
      [] rule = "DeclareEqualNormalize" -> DeclareEqualNormalize(FALSE, s)
      [] rule = "DeclareParentheses" -> DeclareParentheses(s)
      [] rule = "DeclareStrictTypes" -> DeclareStrictTypes("enforce", s)
      [] rule = "Elseif" -> Elseif(s)
      [] rule = "EmptyLoopBody" -> EmptyLoopBody(FALSE, s)
      [] rule = "EmptyLoopCondition" -> EmptyLoopCondition(FALSE, s)
      [] rule = "FunctionDeclaration" -> FunctionDeclaration([FunctionDeclarationDefault EXCEPT !.fnSpace = set # "percs", !.keepTrailingComma = FALSE], s)
      [] rule = "FunctionToConstant" -> FunctionToConstant(FunctionConstants, s)
      [] rule = "GlobalKeywordSniff" -> GlobalKeyword(s)
      [] rule = "GroupImport" -> GroupImport({"classy", "functions", "constants"}, s)
      [] rule = "Include" -> Include(s)
      [] rule = "IncrementStyle" -> IncrementStyle(FALSE, s)
      [] rule = "IsNull" -> IsNull(s)
      [] rule = "LambdaNotUsedImport" -> LambdaNotUsedImport(s)
      [] rule = "LanguageConstructSpacingSniff" -> LanguageConstructSpacing(s)
      [] rule = "LineLength" -> LineLength(120, TRUE, TRUE, s)
      [] rule = "LinebreakAfterOpeningTag" -> LinebreakAfterOpeningTag(s)
      [] rule = "ListSyntax" -> ListSyntax(FALSE, s)
      [] rule = "LongToShorthandOperator" -> LongToShorthandOperator(s)
      [] rule = "LowercaseCast" -> LowercaseCast(s)
      [] rule = "LowercaseKeywords" -> LowercaseKeywords(s)
      [] rule = "LowercaseStaticReference" -> LowercaseStaticReference(s)
      [] rule = "MagicConstantCasing" -> MagicConstantCasing(s)
      [] rule = "MagicMethodCasing" -> MagicMethodCasing(s)
      [] rule = "MethodArgumentSpace" -> MethodArgumentSpace("", FALSE, "standalone", s)
      [] rule = "MethodChainingIndentation" -> MethodChainingIndentation(s)
      [] rule = "MethodChainingNewline" -> MethodChainingNewline(s)
      [] rule = "ModifierKeywords" -> ModifierKeywords(AllElements, s)
      [] rule = "MultilinePromotedProperties" -> MultilinePromotedProperties(1, FALSE, s)
      [] rule = "MultilineWhitespaceBeforeSemicolons" -> MultilineWhitespaceBeforeSemicolons(FALSE, s)
      [] rule = "NativeFunctionCasing" -> NativeFunctionCasing(s)
      [] rule = "NativeFunctionTypeDeclarationCasing" -> NativeFunctionTypeDeclarationCasing(s)
      [] rule = "NativeTypeDeclarationCasing" -> NativeTypeDeclarationCasing(s)
      [] rule = "NewWithParentheses" -> NewWithParentheses(TRUE, set # "percs", s)
      [] rule = "NoAlternativeSyntax" -> NoAlternativeSyntax(FALSE, s)
      [] rule = "NoBlankLineBetweenImports" -> NoBlankLineBetweenImports(s)
      [] rule = "NoBlankLinesAfterClassOpening" -> NoBlankLinesAfterClassOpening(s)
      [] rule = "NoBlankLinesBeforeNamespace" -> NoBlankLinesBeforeNamespace(s)
      [] rule = "NoBreakComment" -> NoBreakComment(s)
      [] rule = "NoEmptyStatement" -> NoEmptyStatement(s)
      [] rule = "NoExtraBlankLines" -> NoExtraBlankLines(IF set = "percs" THEN {"use"} ELSE {"extra"}, s)
      [] rule = "NoLeadingImportSlash" -> NoLeadingImportSlash(s)
      [] rule = "NoLeadingNamespaceWhitespace" -> NoLeadingNamespaceWhitespace(s)
      [] rule = "NoMultilineWhitespaceAroundDoubleArrow" -> NoMultilineWhitespaceAroundDoubleArrow(s)
      [] rule = "NoMultipleStatementsPerLine" -> NoMultipleStatementsPerLine(s)
      [] rule = "NoNullPropertyInitialization" -> NoNullPropertyInitialization(s)
      [] rule = "NoShortBoolCast" -> NoShortBoolCast(s)
      [] rule = "NoSinglelineWhitespaceBeforeSemicolons" -> NoSinglelineWhitespaceBeforeSemicolons(s)
      [] rule = "NoSpaceAroundDoubleColon" -> NoSpaceAroundDoubleColon(s)
      [] rule = "NoSpacesAfterFunctionName" -> NoSpacesAfterFunctionName(s)
      [] rule = "NoSpacesAroundOffset" -> NoSpacesAroundOffset(TRUE, FALSE, s)
      [] rule = "NoSuperfluousElseif" -> NoSuperfluousElseif(s)
      [] rule = "NoTrailingCommaInSingleline" -> NoTrailingCommaInSingleline(DefaultElements, s)
      [] rule = "NoTrailingWhitespace" -> NoTrailingWhitespace(s)
      [] rule = "NoUnneededBraces" -> NoUnneededBraces(FALSE, s)
      [] rule = "NoUnneededControlParentheses" -> NoUnneededControlParentheses(ParenStatements, s)
      [] rule = "NoUnneededFinalMethod" -> NoUnneededFinalMethod(FALSE, s)
      [] rule = "NoUnneededImportAlias" -> NoUnneededImportAlias(s)
      [] rule = "NoUnreachableDefaultArgumentValue" -> NoUnreachableDefaultArgumentValue(s)
      [] rule = "NoUnsetCast" -> NoUnsetCast(s)
      [] rule = "NoUnsetOnProperty" -> NoUnsetOnProperty(s)
      [] rule = "NoUnusedImports" -> NoUnusedImports(s)
      [] rule = "NoUselessConcatOperator" -> NoUselessConcatOperator(s)
      [] rule = "NoUselessElse" -> NoUselessElse(s)
      [] rule = "NoUselessReturn" -> NoUselessReturn(s)
      [] rule = "NoWhitespaceBeforeCommaInArray" -> NoWhitespaceBeforeCommaInArray(s)
      [] rule = "NoWhitespaceInBlankLine" -> NoWhitespaceInBlankLine(s)
      [] rule = "NoWhitespaceInEmptyArray" -> NoWhitespaceInEmptyArray(s)
      [] rule = "NormalizeIndexBrace" -> NormalizeIndexBrace(s)
      [] rule = "NotOperatorWithSpace" -> NotOperatorWithSpace(s)
      [] rule = "NullableTypeDeclaration" -> NullableTypeDeclaration(FALSE, s)
      [] rule = "NullableTypeDeclarationForDefaultNullValue" -> NullableTypeDeclarationForDefaultNullValue("", s)
      [] rule = "ObjectOperatorWithoutWhitespace" -> ObjectOperatorWithoutWhitespace(s)
      [] rule = "OperatorLinebreak" -> OperatorLinebreak(FALSE, FALSE, s)
      [] rule = "OrderedClassElements" -> OrderedClassElements(<<"use_trait">>, FALSE, FALSE, s)
      [] rule = "OrderedImports" -> OrderedImports(IF set = "percs" THEN "none" ELSE "alpha", <<"class", "function", "const">>, FALSE, s)
      [] rule = "OrderedInterfaces" -> OrderedInterfaces(FALSE, FALSE, FALSE, s)
      [] rule = "OrderedTraits" -> OrderedTraits(FALSE, s)
      [] rule = "OrderedTypes" -> OrderedTypes(TRUE, "last", FALSE, s)
      [] rule = "ProtectedToPrivate" -> ProtectedToPrivate(s)
      [] rule = "ReturnAssignment" -> ReturnAssignment(s)
      [] rule = "ReturnTypeDeclaration" -> ReturnTypeDeclaration(FALSE, s)
      [] rule = "SelfAccessor" -> SelfAccessor(s)
      [] rule = "SelfStaticAccessor" -> SelfStaticAccessor(s)
      [] rule = "ShortScalarCast" -> ShortScalarCast(s)
      [] rule = "SimplifiedNullReturn" -> SimplifiedNullReturn(s)
      [] rule = "SingleBlankLineAtEof" -> SingleBlankLineAtEndOfFile(s)
      [] rule = "SingleBlankLineBeforeNamespace" -> SingleBlankLineBeforeNamespace(s)
      [] rule = "SingleClassElementPerStatement" -> SingleClassElementPerStatement(AllElements, s)
      [] rule = "SingleImportPerStatement" -> SingleImportPerStatement(FALSE, s)
      [] rule = "SingleLineAfterImports" -> SingleLineAfterImports(s)
      [] rule = "SingleLineCommentStyle" -> SingleLineCommentStyle(TRUE, TRUE, s)
      [] rule = "SingleLineEmptyBody" -> SingleLineEmptyBody(s)
      [] rule = "SingleLineThrow" -> SingleLineThrow(s)
      [] rule = "SingleSpaceAroundConstruct" -> SingleSpaceAroundConstruct(IF set = "percs" THEN PerCsConstructs ELSE FollowedByDefault, IF set = "percs" THEN {"as", "else", "elseif", "use_lambda"} ELSE {}, s)
      [] rule = "SingleTraitInsertPerStatement" -> SingleTraitInsertPerStatement(s)
      [] rule = "SpaceAfterSemicolon" -> SpaceAfterSemicolon(s)
      [] rule = "SpacesInsideParentheses" -> NoSpacesInsideParenthesis(FALSE, s)
      [] rule = "StandaloneLineConstructorParam" -> StandaloneLineConstructorParam(s)
      [] rule = "StandaloneLineInMultilineArray" -> StandaloneLineInMultilineArray(s)
      [] rule = "StandaloneLinePlainConstructorParam" -> StandaloneLinePlainConstructorParam(s)
      [] rule = "StandaloneLinePromotedProperty" -> StandaloneLinePromotedProperty(s)
      [] rule = "StandaloneLineRequiredParam" -> StandaloneLineRequiredParam(s)
      [] rule = "StandaloneLineSymfonyAttributeParam" -> StandaloneLineSymfonyAttributeParam(s)
      [] rule = "StandardizeIncrement" -> StandardizeIncrement(s)
      [] rule = "StatementIndentation" -> StatementIndentation(FALSE, s)
      [] rule = "StaticLambda" -> StaticLambda(s)
      [] rule = "StaticPrivateMethod" -> StaticPrivateMethod(s)
      [] rule = "SuperfluousWhitespaceSniff" -> SuperfluousWhitespace(s)
      [] rule = "SwitchCaseSemicolonToColon" -> SwitchCaseSemicolonToColon(s)
      [] rule = "SwitchCaseSpace" -> SwitchCaseSpace(s)
      [] rule = "SwitchContinueToBreak" -> SwitchContinueToBreak(s)
      [] rule = "TernaryOperatorSpaces" -> TernaryOperatorSpaces(s)
      [] rule = "TernaryToElvisOperator" -> TernaryToElvisOperator(s)
      [] rule = "TernaryToNullCoalescing" -> TernaryToNullCoalescing(s)
      [] rule = "TrailingCommaInMultiline" -> TrailingCommaInMultiline(IF set = "percs" THEN {"arguments", "array_destructuring", "arrays", "match", "parameters"}
                                                     ELSE DefaultElements, s)
      [] rule = "TrimArraySpaces" -> TrimArraySpaces(s)
      [] rule = "TypeDeclarationSpaces" -> TypeDeclarationSpaces({"function", "property"}, s)
      [] rule = "TypesSpaces" -> TypesSpaces(FALSE, TRUE, FALSE, s)
      [] rule = "UnaryOperatorSpaces" -> UnaryOperatorSpaces(set # "percs", s)
      [] rule = "VisibilityRequired" -> VisibilityRequired(AllElements, s)
      [] rule = "VoidReturn" -> VoidReturn(FALSE, s)
      [] rule = "WhitespaceAfterCommaInArray" -> WhitespaceAfterCommaInArray(FALSE, s)
      [] rule = "YodaStyle" -> YodaStyle(IF set \in {"common", "default"} THEN YodaModes("nonYoda", "nonYoda", "nonYoda")
                                       ELSE YodaModes("yoda", "yoda", "leave"), FALSE, s)
=============================================================================
