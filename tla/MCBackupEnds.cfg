CONSTANTS
  Library = {p}
  Shared = {s}
  None = None
  Run = {1}
  MaxAttempts = 2
  CheckBatch = 2
  HashBatch = 1
  UploadConcurrency = 1
  MaxVersion = 1
  MaxOutages = 1
  MaxFaults = 1
  MaxWishes = 1
  MaxUpheavals = 1
SPECIFICATION FairSpec
PROPERTIES RunEnds
CHECK_DEADLOCK FALSE
