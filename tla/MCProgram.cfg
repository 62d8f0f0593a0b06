CONSTANTS
  Names <- MCNames
  Designs <- MCDesigns
  MaxPulls = 2
  MaxCalls = 2
  Invocations <- MCInvocations
  Modules <- MCModules
  ParamSettings <- MCSettings
  NoSetting = NoSetting
  Hierarchies <- MCHierarchies
  Cases <- MCCases
SPECIFICATION ProgramSpec
INVARIANTS
  TypeOK
  RootsAreAnswered
  NothingUnasked
  PulledToTheEnd
  EveryFileHasAReader
  FilelistCompiles
  OutputsAreWhole
  TreeTypeOK
  ExpandingIsTheStack
  LinesAreTheTree
PROPERTIES
  CallsReturn
  TreeEnds
