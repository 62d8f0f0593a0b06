CONSTANTS
  Sources = {"s", "t"}
  NoSources = NoSources
  Loads <- OneDies
  Size <- OneLarge
  Capacity = 1
  Behaviours = {"answers", "garbles", "hangs"}
  MaxRuns = 2
  MaxServers = 2
  Faults = {"crash", "stop", "spawn", "interrupt", "kill"}
SPECIFICATION Spec
INVARIANTS
  TypeOK
  AnswersLineUp
  OneServerAtATime
  ChildReapedOnReturn
  NoLostWakeup
  NothingLeftOnExit
  ServersDiffer
PROPERTIES
  GivesOnceAnswers
