SPECIFICATION FairSpec
CONSTANTS
  Services = {"worker", "api", "ui"}
  Self = "self"
  Procs = {"self", "peer1", "peer2"}
  StatusRows = {"status"}
  LoadRows = {"sample"}
  Requests = {1}
  WorkerCount = 2
  MaxTries = 2
  MaxFaults = 3
  MaxPeerFaults = 1
INVARIANTS
  DrainBeforeClose
  ReadyServesQueues
  FailureIsReported
  StatusesAreCarriedOver
  CopiedOnce
PROPERTIES
  ShutdownExits
  EveryoneServes
CHECK_DEADLOCK FALSE
