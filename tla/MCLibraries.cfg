SPECIFICATION SpecAll
CONSTANTS
  None = None
  plain = plain
  other = other
  inner = inner
  blank = blank
  hash = hash
  comment = comment
  doc = doc
  docEnd = docEnd
  open = open
  close = close
  mark = mark
  Alphabets <- MCAlphabets
  MaxLength = 5
  MaxTrace = 30
  MaxDistances = {0, 1, 3}
  Indent <- MCIndent
  Label <- MCLabel
  Counted = {plain, other}
  Scripts <- MCScripts
  Contexts = {0, 1}
  Targets <- MCTargets
  ResultLines <- MCLines
  MarkerSize = 2
  ExportOptions <- MCExports
  Sources <- MCSources
  MaxLines = 6
  InputFiles <- MCInputs
  Newline = 0
  Reviewed <- MCReviewed
  Adaptation <- Four
  Budget <- MCBudget
  InputPath = "in"
  Path <- MCPath
  Stdout = "-"
  NoPath = "none"
  FileOf <- MCFileOf
  Existing = {"in", "a"}
  Irregular = {"symlink"}
CHECK_DEADLOCK FALSE
INVARIANTS
  ScriptIsSound
  DistanceIsExact
  SlidBlocksAreTheSameEdit
  ExportsAreSound
  CommandIsTruthful
  ViewIsFaithful
PROPERTIES
  ResolutionIsSound
