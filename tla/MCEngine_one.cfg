SPECIFICATION HSpec
CONSTANTS
  t1 = t1
  t2 = t2
  monitor = monitor
  operator = operator
  StepBudget = 1
  MaxSteps = 2
  Threads <- OneThread
  Procs <- OneThreadAndMonitor
  Operators <- Console
  ReportKinds <- MonitorKinds
  Severity <- DefaultSeverities
  Threshold <- SmallThresholds
INVARIANT TypeOK
INVARIANT QuietGovernorIsFree
INVARIANT PipelineFollowsMatrix
INVARIANT ReadOnlyTaskHasNoSideEffect
INVARIANT EscalationIsNotLost
PROPERTY GovSpec
