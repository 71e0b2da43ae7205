CONSTANTS
  cpu = cpu
  io = io
  git = git
  none = none
  Tasks <- MCTasks
  Graphs <- MCGraphs
  Classes <- MCClasses
  Class <- MCClass
  Groups = {git}
  Group <- MCGroup
  NoGroup = none
  Weight <- MCWeight
  WorkerLimit = 3
  ResourceLimits <- MCResourceLimits
  GroupLimits <- MCGroupLimits
  MaxMemoryWeight = 3
SPECIFICATION FairSpec
INVARIANTS WithinLimits NeverStuck ResultsFollowTheGraph
PROPERTIES ResultsAreFinal RunEnds
CHECK_DEADLOCK FALSE
