CONSTANTS
    f1 = f1  f2 = f2  c1 = c1  c2 = c2  w1 = w1  w2 = w2
    File = {f1}
    Config = {c1, c2}
    Worker = {w1, w2}
    Main = Main
    None = None
    MaxVersion = 3
    Excluded <- OneFileExcluded
    RunOptions <- SerialAndParallel
    Faults <- AllFaults
SYMMETRY WorkerSymmetry
SPECIFICATION Spec
INVARIANTS StaleSkipsExplained
