SPECIFICATION Spec
CONSTANTS
  s1 = s1
  s2 = s2
  bad = bad
  w1 = w1
  w2 = w2
  None = None
  Scenarios <- TwoScenarios
  Undecodable <- NoForeign
  Workers <- TwoWorkers
  Queues <- BoundQueues
  TargetQueue <- OneUnroutable
  QueueOf <- AllOnHigh
  MaxStops = 1
  MaxFaults = 1
  MaxDrops = 1
  MaxCrashes = 1
INVARIANTS
  OutcomeBeforeAck
  CounterOrder
  OutcomesAreCounted
  RerunsAreCaused
  SettledIsTerminal
SYMMETRY Interchangeable
PROPERTIES
  StopHolds
  ImplementsContract
CHECK_DEADLOCK FALSE
