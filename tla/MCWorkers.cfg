SPECIFICATION SpecAll
CONSTANTS
  r1 = r1
  r2 = r2
  plain = plain
  loose = loose
  a = a
  b = b
  None = None
  Root = {r1, r2}
  Path <- MCPath
  Dirs <- MCDirs
  Content = {a, b}
  Options = {plain, loose}
  Alike <- MCAlike
  InitialTree <- MCInitialTree
  MaxScans = 2
  conflicted = conflicted
  merged = merged
  Document <- MCDocument
  Resolved <- MCResolved
  Original = conflicted
  Foreign <- MCDocument
  WriterRaces = FALSE
  MaxFileChanges = 3
  n1 = n1
  n2 = n2
  Editor = {e1, e2}
  FileName = {n1, n2}
  Candidates <- MCCandidates
  Unusable <- MCUnusable
  Unknown = Unknown
  MaxClears = 1
  MaxRequests = 2
  MaxRevisions = 3
  ScanTree <- MCTrees
  ScanPath <- MCNames
  ScanOptions <- MCOptions
  ScanContent <- MCBytes
  White = 0
  MaxEntries = 3
  MaxDepth = 2
  MaxRewrites = 1
  exact = exact
  Conflict = {1, 2}
  Policy <- MCPolicy
  TooLarge = {2}
  Markers = Markers
  Candidate = {exact}
  Edited = Edited
  Touched = {1}
  SaveRaces = FALSE
  MaxCommands = 2
  MaxAnalyses = 2
CHECK_DEADLOCK FALSE
INVARIANTS
  LiveScanIsCurrent
  ScanningAwaitsOneResult
  TableIsTrue
  ResultsAreCurrent
  VerifiedIsTrue
  ScanIsComplete
  DecisionsFollowText
PROPERTIES
  InstallsOnlyCurrent
  SavesAreSafe
  DialogIsHonest
  ResolverStepsAreSound
  EverythingSettles
