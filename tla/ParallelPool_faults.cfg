SPECIFICATION FairSpec
CONSTANTS
  p1 = p1
  p2 = p2
  Worker <- TwoProcesses
  NumJobs = 3
  Limit = 2
  MaxErrors = 1
  Faults = {"crash", "broken", "kill", "name", "long"}
INVARIANTS OneHolder Watched ServerOpenForPool LossesAreReported
PROPERTIES NoJobAfterGivingUp Terminates DispatchSpec
