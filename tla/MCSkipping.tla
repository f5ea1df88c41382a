----------------------------- MODULE MCSkipping -----------------------------
(* Values for TLC.  Classes of the code: slices of the psr12 and the       *)
(* spaces set and of SpacesLevel, two deprecated fixers, and the checkers  *)
(* of three groups of duplicates.  Files "/b", "/ab", "/bab" and two in    *)
(* "/a"; the paths of a blink.json are all patterns of up to four atoms   *)
(* that have a "*", and the paths that exist.                              *)
EXTENDS Skipping
CONSTANTS a, b, slash, star

TheStar == {star}
TheSlash == {slash}
AnyByte == {a, b, slash}

UpTo(n, S) == UNION {[1 .. m -> S] : m \in 1 .. n}
Files == {<<slash, b>>, <<slash, a, b>>, <<slash, b, a, b>>,
          <<slash, a, slash, a>>, <<slash, a, slash, b>>}

SomeSkipPaths ==
    {p \in UpTo(4, {Star, {a}, {b}, Slash, AnyByte}) : \E i \in DOMAIN p : p[i] = Star}
    \cup {TextOf(n) : n \in Files} \cup {Tail(TextOf(n)) : n \in Files}
    \cup {<<Slash, {a}, Slash>>, <<{a}>>, <<{a}, Slash, Slash>>}

TheFixers == {"SingleBlankLineAtEofFixer", "SingleImportPerStatementFixer",
              "NoExtraBlankLinesFixer", "FunctionTypehintSpaceFixer",
              "TypeDeclarationSpacesFixer", "NewWithBracesFixer",
              "NewWithParenthesesFixer", "PhpUnitExpectationFixer", "LineLengthFixer"}
TheSniffs == {"EndFileNewlineSniff", "GenericEndFileNewlineSniff",
              "EndFileNoNewlineSniff", "SuperfluousWhitespaceSniff",
              "LanguageConstructSpacingSniff", "FunctionDeclarationArgumentSpacingSniff"}
TheCheckers == TheFixers \cup TheSniffs
ThePriorities ==
    <<{"NewWithBracesFixer", "NewWithParenthesesFixer"}, {"LineLengthFixer"},
      {"SingleImportPerStatementFixer"},
      {"FunctionTypehintSpaceFixer", "TypeDeclarationSpacesFixer", "PhpUnitExpectationFixer"},
      {"NoExtraBlankLinesFixer"}, {"SingleBlankLineAtEofFixer"}>>
WithConfiguration == TheFixers \ {"LineLengthFixer"}
TheParents ==
    [c \in TheCheckers |->
        IF c \in {"FunctionTypehintSpaceFixer", "NewWithBracesFixer"}
        THEN {"FixerInterface", "DeprecatedFixerInterface"}
        ELSE IF c \in TheFixers THEN {"FixerInterface"} ELSE {"Sniff"}]
TheClasses == TheCheckers \cup UNION {TheParents[c] : c \in TheCheckers}
TheSuccessors ==
    [c \in TheCheckers |->
        CASE c = "FunctionTypehintSpaceFixer" -> "TypeDeclarationSpacesFixer"
          [] c = "NewWithBracesFixer" -> "NewWithParenthesesFixer"
          [] OTHER -> c]
TheProxied == <<"FunctionTypehintSpaceFixer", "default">> :> "elements: function"
KnownToBlink == {"SingleBlankLineAtEofFixer", "SingleImportPerStatementFixer",
                 "NoExtraBlankLinesFixer", "TypeDeclarationSpacesFixer",
                 "NewWithParenthesesFixer", "SuperfluousWhitespaceSniff",
                 "LanguageConstructSpacingSniff", "PhpUnitExpectationFixer", "LineLengthFixer"}
TakeOptions == {"SingleImportPerStatementFixer", "NoExtraBlankLinesFixer", "LineLengthFixer",
                "TypeDeclarationSpacesFixer", "NewWithParenthesesFixer"}
TheDuplicates ==
    {<<"SingleBlankLineAtEofFixer", "EndFileNewlineSniff">>,
     <<"SingleBlankLineAtEofFixer", "GenericEndFileNewlineSniff">>,
     <<"EndFileNewlineSniff", "GenericEndFileNewlineSniff">>,
     <<"NoExtraBlankLinesFixer", "SuperfluousWhitespaceSniff">>,
     <<"FunctionTypehintSpaceFixer", "FunctionDeclarationArgumentSpacingSniff">>}
TheConflicts == {<<"EndFileNewlineSniff", "EndFileNoNewlineSniff">>,
                 <<"GenericEndFileNewlineSniff", "EndFileNoNewlineSniff">>}

Configs == {"default", "elements: function", "anonymous_class: false", "tokens: extra",
            "tokens: extra, throw, use", "tokens: curly_brace_block",
            "target: 5.6", "line_length: 80"}
TheLevel == <<"LanguageConstructSpacingSniff", "TypeDeclarationSpacesFixer">>
SpacesConfigs == "SuperfluousWhitespaceSniff" :> "default"
                 @@ "NoExtraBlankLinesFixer" :> "tokens: extra, throw, use"
TheSets ==
    [psr12 |-> <<Entry("SingleBlankLineAtEofFixer", "default"),
                 Entry("SingleImportPerStatementFixer", "default"),
                 Entry("NewWithParenthesesFixer", "default"),
                 Entry("NoExtraBlankLinesFixer", "tokens: curly_brace_block")>>,
     spaces |-> <<Entry("LanguageConstructSpacingSniff", "default"),
                  Entry("TypeDeclarationSpacesFixer", "default"),
                  Entry("NoExtraBlankLinesFixer", "tokens: extra, throw, use"),
                  Entry("SuperfluousWhitespaceSniff", "default")>>]
TheSetSkips ==
    [psr12 |-> <<SkipClass("SingleImportPerStatementFixer", TRUE, {})>>,
     spaces |-> <<>>]
SpacesSets == {"spaces"}

SomeRuleLists ==
    {<<"SingleBlankLineAtEofFixer", "EndFileNewlineSniff", "GenericEndFileNewlineSniff">>,
     <<"GenericEndFileNewlineSniff", "EndFileNoNewlineSniff">>,
     <<"FunctionTypehintSpaceFixer", "FunctionDeclarationArgumentSpacingSniff">>,
     <<"NewWithBracesFixer", "NewWithParenthesesFixer">>,
     <<"NoExtraBlankLinesFixer", "NoExtraBlankLinesFixer">>}
SomeConfigured ==
    {Entry("NewWithBracesFixer", "anonymous_class: false"),
     Entry("NoExtraBlankLinesFixer", "tokens: extra"),
     Entry("PhpUnitExpectationFixer", "target: 5.6"),
     Entry("LineLengthFixer", "line_length: 80")}

OnPaths(c, paths) == SkipClass(c, FALSE, paths)
APath(p) == SkipClass(NoClass, FALSE, {p})
SomeSkips ==
    {<<SkipClass("SingleBlankLineAtEofFixer", TRUE, {}),
       OnPaths("NewWithBracesFixer", {<<{a}, Star>>})>>,
     <<OnPaths("NewWithBracesFixer", {<<Star, {a}, Slash>>}),
       OnPaths("NewWithParenthesesFixer", {<<Slash, {a}>>, <<AnyByte, {b}>>})>>,
     <<OnPaths("DeprecatedFixerInterface", {<<{a}>>}), APath(<<Slash, {b}>>)>>,
     <<SkipClass("FixerInterface", TRUE, {}), OnPaths("Sniff", {<<Star, {b}>>})>>,
     <<APath(<<Slash, {a}, Slash>>), SkipClass("NoExtraBlankLinesFixer", TRUE, {}),
       OnPaths("LanguageConstructSpacingSniff", {})>>}
SomeLevels == {0, 5}
=============================================================================
