CONSTANTS
  Names <- MCNames
  Designs <- MCDesigns
  MaxPulls = 2
  MaxCalls = 2
  Invocations <- MCInvocations
  Modules <- MCModules
  ParamSettings <- MCSettings
  NoSetting = NoSetting
  Hierarchies <- MCHierarchies
  Cases <- TwoUsesCases
SPECIFICATION ProgramSpec
INVARIANTS
  EveryEntryIsFound
