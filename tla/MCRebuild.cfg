CONSTANTS
  still = still
  video = video
  None = None
  Content <- TwoHalves
  PartOf <- Pairing
  Request = {r1}
  Purger = {p1}
  MaxStimuli = 4
  Tools = {"reindex", "verify"}
SPECIFICATION RebuildSpec
INVARIANTS
  RebuildTypeOK
  RowHasBlobOrTombstone
PROPERTIES
  RebuildRestores
  RebuildKeepsPurged
  VerifyClosesGap
