SPECIFICATION Spec
CONSTANTS
  m1 = m1
  m2 = m2
  None = None
  Messages <- OneMessage
  Conns <- SixConns
  MaxAttempts = 2
  MaxFailures = 1
  MaxRetries = 1
INVARIANTS
  SurvivesFailures
CHECK_DEADLOCK FALSE
