\* One chunk, so one process, which a signal may kill while it works.
SPECIFICATION Spec
CONSTANTS
  p1 = p1
  p2 = p2
  Worker <- OneProcess
  NumJobs = 1
  Limit = 3
  MaxErrors = 0
  Faults = {"kill at work"}
INVARIANTS NoSilentLoss
