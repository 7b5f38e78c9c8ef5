SPECIFICATION PagesSpec
CONSTANTS
  s1 = s1
  w1 = w1
  None = None
  Scenarios <- OneScenario
  Undecodable <- NoForeign
  Workers <- OneWorker
  Queues <- BoundQueues
  TargetQueue <- AllHigh
  QueueOf <- AllOnHigh
  Shown <- s1
  MaxStops = 1
  MaxFaults = 0
  MaxDrops = 0
  MaxCrashes = 0
  MaxVisits = 2
  MaxUIFaults = 1
INVARIANTS
  FinalTableShowsFate
  BannerIsTrue
PROPERTIES
  NeverGoesBack
  PageCatchesUp
CHECK_DEADLOCK FALSE
