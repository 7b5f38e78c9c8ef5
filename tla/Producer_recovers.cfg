SPECIFICATION FairSpec
CONSTANTS
  scenario = scenario
  stop = stop
  None = None
  Messages <- BothMessages
  Key <- BothKeys
  QueueSeq <- OneQueue
  Conns <- SevenConns
  MaxAttempts = 2
  StartupAttempts = 2
  MaxFailures = 2
INVARIANTS
  OneConnection
  DeadLettersHaveAQueue
  TroubleIsCaused
PROPERTIES
  Reconnects
CHECK_DEADLOCK FALSE
