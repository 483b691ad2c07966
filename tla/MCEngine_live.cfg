SPECIFICATION HFairSpec
CONSTANTS
  t1 = t1
  t2 = t2
  monitor = monitor
  operator = operator
  StepBudget = 1
  MaxSteps = 0
  Threads <- OneThread
  Procs <- OneThreadAndMonitor
  Operators <- Console
  ReportKinds <- PauseKinds
  Severity <- HaltingSeverities
  Threshold <- OneStrike
PROPERTY TaskReturns
PROPERTY LatchTakesHold
PROPERTY FbSpec
