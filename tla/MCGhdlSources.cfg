CONSTANTS
  Names <- MCNames
  Designs <- MCDesigns
  MaxCalls = 1
SPECIFICATION Spec
INVARIANTS
  SourcesAlwaysWin
