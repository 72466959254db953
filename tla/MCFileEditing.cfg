SPECIFICATION FairSpec
CONSTANTS
  Line = {a}
  Options = {o1, o2}
  Broken = {}
  Lossy <- MCLossy
  Blobs = {}
  Gone = Gone
  NoHash = NoHash
  None = None
  MayExceedLimits = TRUE
  AsksEncoding = TRUE
  WriterRaces = FALSE
  MaxGeneration = 2
  MaxExternal = 0
CHECK_DEADLOCK FALSE
INVARIANTS
  PendingIsScheduled
  SupersededIsCancelled
  ModelIsCurrent
  ModifiedIsEditedInPlace
PROPERTIES
  EditsSurvive
  BlocksComeBack
