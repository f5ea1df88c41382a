CONSTANTS
    Value <- Chars2
    Slice <- Slices1
    Key = {index, other}
    Indexed = index
    MaxLen = 3
    MaxVersion = 3
    Sources <- SourcesAB
    NumRules = 3
    Name <- ThreeNames
    Word <- WordsAB
    Reporter <- OneReporter
    SkippedRules <- LastSkipped
    Modes = {TRUE, FALSE}
    None = None
SPECIFICATION Spec
INVARIANTS MemoFresh RulesSeeNoEmpty ReportedIffChanged
PROPERTIES RuledOutRightly
