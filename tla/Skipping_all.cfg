CONSTANTS
    a = a  b = b  slash = slash
    Char = {a, b, slash}
    star = star
    Star <- TheStar
    Slash <- TheSlash
    Patterns <- SomeSkipPaths
    SkipPaths <- SomeSkipPaths
    Names <- Files
    Checker <- TheCheckers
    Fixer <- TheFixers
    Class <- TheClasses
    IsA <- TheParents
    Successor <- TheSuccessors
    Config <- Configs
    Proxied <- TheProxied
    ByPriority <- ThePriorities
    Readable <- WithConfiguration
    Known <- KnownToBlink
    Configurable <- TakeOptions
    Duplicated <- TheDuplicates
    Conflicting <- TheConflicts
    SetRules <- TheSets
    SetSkips <- TheSetSkips
    Level <- TheLevel
    LevelConfigs <- SpacesConfigs
    LevelSets <- SpacesSets
    Default = "default"
    RuleLists <- SomeRuleLists
    ConfiguredRules <- SomeConfigured
    SkipLists <- SomeSkips
    Levels <- SomeLevels
    MaxCalls = 3
SPECIFICATION SkipSpec
INVARIANTS Decides SameVerdict AskedForRuns
PROPERTY Answers
