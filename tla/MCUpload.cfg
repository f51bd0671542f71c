CONSTANTS
  f1 = f1
  f2 = f2
  f3 = f3
  f4 = f4
  f5 = f5
  c1 = c1
  c2 = c2
  None = None
  File <- MCFile
  Content <- MCContent
  Bytes <- MCBytes
  Intake <- MCIntake
  Dropped <- MCDropped
  Refused <- MCRefused
  Worker = {w1, w2}
  CheckBatch = 1
  MaxFaults = 1
  MaxPresses = 2
SPECIFICATION FairSpec
INVARIANTS
  TypeOK
  TransferPerRow
  NothingLeftQueued
  ShownIsTrue
PROPERTIES
  RunEnds
CHECK_DEADLOCK FALSE
