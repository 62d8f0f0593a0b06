CONSTANTS
  Names <- MCNames
  Designs <- PluginDesigns
  MaxCalls = 3
  NPaths = 4
  LibNames <- MCLibNames
  UnitNames <- MCUnitNames
  Dirs <- MCDirs
  Work = "work"
  Default = "default"
  Scans <- PluginScans
  Items <- MCItems
  Listings <- MCListings
  Cases <- MCCases
SPECIFICATION PluginSpec
INVARIANTS
  TypeOK
  CacheIsFresh
  FragmentIsWhole
  NothingIsLost
  NoFalseComplaint
  ComponentsYield
  LibrariesAgree
  DefsAreTheDesign
PROPERTIES
  CallsReturn
