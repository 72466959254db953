SPECIFICATION Spec
CONSTANTS
  Line = {a}
  Options = {o1}
  Broken = {}
  Lossy <- MCLossy
  Blobs = {}
  Gone = Gone
  NoHash = NoHash
  None = None
  MayExceedLimits = FALSE
  AsksEncoding = FALSE
  WriterRaces = TRUE
  MaxGeneration = 1
  MaxExternal = 1
CHECK_DEADLOCK FALSE
PROPERTIES
  UnaskedSaveFindsKnownBytes
