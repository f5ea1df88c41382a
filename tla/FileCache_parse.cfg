CONSTANTS
    f1 = f1  f2 = f2  c1 = c1  c2 = c2  w1 = w1  w2 = w2
    File = {f1}
    Config = {c1, c2}
    Worker = {w1}
    Main = Main
    None = None
    MaxVersion = 2
    Excluded <- NoneExcluded
    RunOptions <- ParallelCheck
    Faults <- WorkerParseErrors
SPECIFICATION Spec
INVARIANT NoStaleSkip
