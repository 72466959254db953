SPECIFICATION Spec
CONSTANTS
  plain = plain
  other = other
  inner = inner
  blank = blank
  hash = hash
  comment = comment
  doc = doc
  docEnd = docEnd
  open = open
  close = close
  mark = mark
  Alphabets <- MCMarked
  MaxLength = 3
  MaxTrace = 20
  MaxDistances = {0, 1, 3}
  Indent <- MCIndent
  Label <- MCLabel
CHECK_DEADLOCK FALSE
INVARIANTS
  SlidBlocksExplainTheFiles
