CONSTANTS
  v1 = v1
  Video <- MCVideo
  Job <- MCJob
  NoJob = NoJob
  Worker = {w1, w2}
  MaxAttempts = 2
  MaxAsks = 1
  MaxFaults = 1
SPECIFICATION FairSpec
INVARIANTS
  Typing
  ExclusiveUnlessTakenBack
  AttemptsWithinBudget
  NothingStalled
PROPERTIES
  Settles
CHECK_DEADLOCK FALSE
