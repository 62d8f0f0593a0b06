CONSTANTS
  N = 2
  CatchAll = 1
  Names <- MCNames
  Settings <- MCSettings
  Default = 0
  MaxRounds = 2
  Designs <- MCDesignsToCut
SPECIFICATION FairSpec
INVARIANTS
  MissingIsExact
PROPERTIES
  Terminates
