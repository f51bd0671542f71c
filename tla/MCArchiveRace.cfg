CONSTANTS
  still = still
  video = video
  None = None
  Content <- TwoHalves
  PartOf <- Pairing
  Request = {r1, r2}
  Purger = {p1}
  MaxStimuli = 4
SPECIFICATION Spec
INVARIANT RowHasBlob
