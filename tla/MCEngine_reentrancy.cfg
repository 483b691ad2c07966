SPECIFICATION HSpec
CONSTANTS
  t1 = t1
  t2 = t2
  monitor = monitor
  operator = operator
  StepBudget = 1
  MaxSteps = 0
  Threads <- TwoThreads
  Procs <- TwoThreads
  Operators <- NoConsole
  ReportKinds <- NoKinds
  Severity <- DefaultSeverities
  Threshold <- OneStrike
INVARIANT OneTaskAtATime
