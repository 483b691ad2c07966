SPECIFICATION FairSpec
CONSTANTS
  phone = phone
  hub = hub
  t1 = t1
  t2 = t2
  Nodes <- Hive
  Nobody = nobody
  None = none
  Turns <- TwoTurns
  Origin <- TakenAtPhone
  MaxFaults = 1
  MaxSends = 2
INVARIANT ResultsAreCollected
INVARIANT SecondMouthHasACause
INVARIANT AnswerIsHeard
PROPERTY TurnEnds
CHECK_DEADLOCK FALSE
