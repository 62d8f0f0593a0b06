CONSTANTS
  Sources = {"s", "t"}
  NoSources = NoSources
  Loads <- OneDies
  Size <- Small
  Capacity = 1
  Behaviours = {"answers", "hangs"}
  MaxRuns = 2
  MaxServers = 2
  Faults = {"stop", "spawn", "kill"}
SPECIFICATION FairSpec
PROPERTIES
  EveryRunReturns
  KilledLeavesNoRunningServer
