CONSTANTS
  Sources = {"s", "t"}
  NoSources = NoSources
  Loads <- BothLoad
  Size <- OneLarge
  Capacity = 1
  Behaviours = {"answers"}
  MaxRuns = 1
  MaxServers = 1
  Faults = {"stop"}
SPECIFICATION FairSpec
PROPERTIES
  EveryRunReturns
CHECK_DEADLOCK FALSE
