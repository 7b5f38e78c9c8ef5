SPECIFICATION FairExecSpec
CONSTANTS
  Totals <- SomeTotals
  Percentages <- SomePercentages
  Types <- AllTypes
  Batch = 2
  MaxPasses = 2
INVARIANTS
  SplitIsExact
  RefusalIsJustified
  SharesAreFair
  WorkIsReported
  OneAfterCancel
PROPERTIES
  CancelEnds
  DeadlineEnds
CHECK_DEADLOCK FALSE
