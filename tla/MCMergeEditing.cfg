SPECIFICATION Spec
CONSTANTS
  c1 = c1
  c2 = c2
  CRLF = CRLF
  LF = LF
  None = None
  Ending = {LF, CRLF}
  Text <- MCText
  Writable <- MCWritable
  InitialText <- MCInitialText
  InitialMetadata <- MCInitialMetadata
  Fragment <- MCFragment
  MaxLength = 3
  Conflict = {c1, c2}
  UndoLimit = 2
  Typist = 2
  Reviewer = 3
  MaxCommands <- MCMaxCommands
CONSTRAINT ShortReviews
CHECK_DEADLOCK FALSE
INVARIANTS
  HistoryFollowsStack
  UnmappedNeedsReview
  MetadataFitsText
PROPERTIES
  ResolvedTextStays
  CleanIsWhatWasStored
  UndoRestoresMetadata
