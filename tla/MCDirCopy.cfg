SPECIFICATION Spec
CONSTANTS
  Nothing = Nothing
  Walk <- MCWalk
  InitialSources <- MCSources
  InitialDestinations <- MCDestinations
  MaxClock = 3
CHECK_DEADLOCK FALSE
INVARIANTS
  CopyIsSound
PROPERTIES
  CopiesTheConfirmedFile
  ReplacesOnlyMarkedFiles
