SPECIFICATION FairSpec
CONSTANTS
  scenario = scenario
  stop = stop
  None = None
  Messages <- OneMessage
  Key <- OneKey
  QueueSeq <- OneQueue
  Conns <- SevenConns
  MaxAttempts = 2
  StartupAttempts = 2
  MaxFailures = 1
PROPERTIES
  PublishesAgain
CHECK_DEADLOCK FALSE
