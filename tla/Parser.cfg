SPECIFICATION FormatterSpec
CONSTANTS
  Sources <- MCSources
  Class <- MCClass
  Slices <- MCSlices
INVARIANTS
  TypeOK
  NothingLost
  NoSilentFailure
  FaultsReported
  EndsClean
  JumpsLinked
  ScopesMatchTree
  NamesKept
  ReadsBack
  AcceptsPrograms
PROPERTY Terminates
CHECK_DEADLOCK FALSE
