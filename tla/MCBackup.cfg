CONSTANTS
  Library = {p}
  Shared = {s}
  None = None
  Run = {1, 2}
  MaxAttempts = 2
  CheckBatch = 2
  HashBatch = 1
  UploadConcurrency = 2
  MaxVersion = 1
  MaxOutages = 1
  MaxFaults = 1
  MaxWishes = 1
  MaxUpheavals = 1
SPECIFICATION Spec
PROPERTIES ClaimsOnlyKept 
INVARIANTS TypeOK DoneWasArchived DoneIsTrue OutageCostsNothing OnlyTickedIsFetched NoStaleRow
CHECK_DEADLOCK FALSE
