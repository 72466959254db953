SPECIFICATION Spec
CONSTANTS
  r1 = r1
  r2 = r2
  plain = plain
  loose = loose
  a = a
  b = b
  None = None
  Root = {r1, r2}
  Path <- MCPath
  Dirs <- MCDirs
  Content = {a, b}
  Options = {plain, loose}
  Alike <- MCAlike
  InitialTree <- MCInitialTree
  MaxScans = 2
CHECK_DEADLOCK FALSE
INVARIANTS
  OfShownRoots
