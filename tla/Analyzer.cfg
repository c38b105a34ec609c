\* Programs of up to three files.
CONSTANTS
  NoNode = 0
  MaxNesting = 3
  Sources <- AnalyzerSources
SPECIFICATION Spec
INVARIANTS
  TypeOK
  ModulesLoaded
  AcceptsRight
  LinksMean
  SlotsOfFrame
  TableComplete
PROPERTY Decides
