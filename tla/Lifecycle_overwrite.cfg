SPECIFICATION Spec
CONSTANTS
  s1 = s1
  s2 = s2
  bad = bad
  w1 = w1
  w2 = w2
  None = None
  Scenarios <- OneScenario
  Undecodable <- NoForeign
  Workers <- OneWorker
  Queues <- BoundQueues
  TargetQueue <- AllHigh
  QueueOf <- AllOnHigh
  MaxStops = 1
  MaxFaults = 0
  MaxDrops = 0
  MaxCrashes = 0
PROPERTIES
  OutcomeSparesStop
CHECK_DEADLOCK FALSE
