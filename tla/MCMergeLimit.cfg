SPECIFICATION Spec
CONSTANTS
  c1 = c1
  c2 = c2
  CRLF = CRLF
  LF = LF
  None = None
  Ending = {LF, CRLF}
  Text <- MCText
  Writable <- MCWritable
  InitialText <- MCInitialText
  InitialMetadata <- MCInitialMetadata
  Fragment <- MCFragment
  MaxLength = 2
  Conflict = {c1}
  UndoLimit = 2
  Typist = 3
  Reviewer = 0
  MaxCommands <- MCMaxCommands
CHECK_DEADLOCK FALSE
PROPERTIES
  UndoRestoresMetadata
