\* --fix over four files, three workers; reading or writing two of them may fail.
SPECIFICATION FairSpec
CONSTANTS
  w1 = w1
  w2 = w2
  w3 = w3
  Worker <- ThreeWorkers
  Found <- Four
  Fixable <- FourFixable
  Erroneous <- FourErroneous
  OnDisk <- Own
  Write = TRUE
  MayFail = {2, 3}
INVARIANTS OnceEach NothingAfterClose CompleteAndSorted Accounted WholeFiles
PROPERTIES Returns DispatchSpec
