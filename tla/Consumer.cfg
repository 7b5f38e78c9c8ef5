SPECIFICATION FairSpec
CONSTANTS
  m1 = m1
  m2 = m2
  None = None
  Messages <- TwoMessages
  Conns <- SixConns
  MaxAttempts = 2
  MaxFailures = 1
  MaxRetries = 1
INVARIANTS
  NoLeakedConnection
  RedeliveriesAreCaused
  UnackedIsHeld
PROPERTIES
  KeepsContract
  Resubscribes
  EventuallyHandled
  ShutdownEnds
CHECK_DEADLOCK FALSE
