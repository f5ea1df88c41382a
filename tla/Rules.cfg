SPECIFICATION Spec
CONSTANTS
    Files <- AllFiles
    Fixed <- ApplyOf
    Candidate <- CandidateOf
    Hangs <- HangsOf
    Runs = 2
INVARIANT Settles
PROPERTIES Lexed Reported CodeKept
CHECK_DEADLOCK FALSE
