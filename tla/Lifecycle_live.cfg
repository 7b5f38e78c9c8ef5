SPECIFICATION LongRunSpec
CONSTANTS
  s1 = s1
  s2 = s2
  bad = bad
  w1 = w1
  w2 = w2
  None = None
  Scenarios <- WithForeign
  Undecodable <- Foreign
  Workers <- TwoWorkers
  Queues <- BoundQueues
  TargetQueue <- AllHigh
  QueueOf <- AllOnHigh
  MaxStops = 1
  MaxFaults = 1
  MaxDrops = 1
  MaxCrashes = 0
PROPERTIES
  EventuallySettled
  StopEndsExecution
CHECK_DEADLOCK FALSE
