CONSTANTS
  Session = {s1}
  Request = {r1, r2}
  Size = 3
  Chunk = 2
  NoFile = NoFile
  MaxFaults = 2
SPECIFICATION FairSpec
INVARIANTS
  TypeOK
  DoneIsWhole
  PromisesKept
PROPERTIES
  Archived
CHECK_DEADLOCK FALSE
