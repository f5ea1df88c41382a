CONSTANTS
    Line = {"x", "y"}
    Files <- UpToFiveLines
    Context = 1
SPECIFICATION Spec
INVARIANTS Rebuilds Shortest HunksApply HunksInContext
