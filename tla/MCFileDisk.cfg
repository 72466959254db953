SPECIFICATION Spec
CONSTANTS
  Line = {a}
  Options = {o1}
  Broken = {broken}
  Lossy <- MCLossy
  Blobs = {blob}
  Gone = Gone
  NoHash = NoHash
  None = None
  MayExceedLimits = FALSE
  AsksEncoding = FALSE
  WriterRaces = FALSE
  MaxGeneration = 2
  MaxExternal = 2
CHECK_DEADLOCK FALSE
INVARIANTS
  UnmodifiedShowsClean
  FingerprintIsOfClean
  LossyTextIsReadOnly
