CONSTANTS
    f1 = f1  f2 = f2  new = new
    RuleCount = 3
    Tracked = {f1, f2}
    MayBeUntracked = {new}
    MayBeDirty = {f1}
    Faults = {"start", "status", "commit"}
SPECIFICATION Spec
INVARIANTS OneRuleOneCommit CountIsTrue NeverSplit
PROPERTY NothingDropped
