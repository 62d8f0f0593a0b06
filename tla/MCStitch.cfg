CONSTANTS
  N = 3
  CatchAll = 1
  Names <- MCNames
  Settings <- MCSettings
  Default = 0
  MaxRounds = 20
  Designs <- MCDesigns
SPECIFICATION Spec
INVARIANTS
  TypeOK
  SourcesWin
  TreeIsComplete
  MissingIsExact
  FetchedIsUsed
  RootsAreJustified
  ConvergesInTime
