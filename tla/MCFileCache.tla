---------------------------- MODULE MCFileCache ----------------------------
(* Values for TLC: which options runs are started with and what befalls    *)
(* them.                                                                   *)
EXTENDS FileCache, TLC
CONSTANTS f1, f2, c1, c2, w1, w2

OneFileExcluded == {<<f1, c2>>}
NoneExcluded == {}

SerialAndParallel == {{}, {"fix"}, {"clear"}, {"parallel"}, {"parallel", "clear"},
                      {"parallel", "fix"}}
ParallelCheck == {{"parallel"}}

AllFaults == {"parse", "throw", "kill"} \X {"serial", "parallel"}
WorkerParseErrors == {<<"parse", "parallel">>}

WorkerSymmetry == Permutations({w1, w2})
============================================================================
