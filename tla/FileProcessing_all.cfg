CONSTANTS
    c1 = c1  c2 = c2  c3 = c3  s1 = s1  s2 = s2
    Content = {c1, c2, c3}
    Sniff = {s1, s2}
    SkippedCodes = {s2}
    Rules <- AnyRules
    MaxLoops = 3
    Modes = {TRUE, FALSE}
SPECIFICATION FairSpec
INVARIANTS NothingHalfFixed FailureKeepsWhole ErrorsAreCurrent CleanMeansClean
PROPERTY Finishes
