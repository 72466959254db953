SPECIFICATION Spec
CONSTANTS
  File = {f1, f2}
  Blank = blank
  Content = {blank, a}
  Missing = Missing
  NoFile = NoFile
  Nobody = Nobody
  MaxWrites = 2
SYMMETRY Interchangeable
CHECK_DEADLOCK FALSE
INVARIANTS
  ShowsTheDisk
  WatchIsSound
  QuestionsStayTrue
