CONSTANTS
  Sources = {"s", "t"}
  NoSources = NoSources
  Loads <- OneHangs
  Size <- Small
  Capacity = 1
  Behaviours = {"answers"}
  MaxRuns = 1
  MaxServers = 1
  Faults = {"kill"}
SPECIFICATION FairSpec
PROPERTIES
  KilledLeavesNothing
