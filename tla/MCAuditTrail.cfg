SPECIFICATION FairTrailSpec
CONSTANTS
  a1 = a1
  a2 = a2
  node = node
  engine = engine
  Nobody = nobody
  Appenders <- TwoThreads
  Chains <- EngineOnly
  ChainOf <- SharedChain
  MaxEntries = 4
  MaxFaults = 1
  MaxRestarts = 1
  QueueCap = 1
  BatchMax = 2
  MaxRetries = 1
INVARIANT VerifyFailsForAReason
INVARIANT LossIsBounded
INVARIANT LossesAreCounted
INVARIANT MirrorFollowsChain
PROPERTY ImplementsLog
PROPERTY SinkSettles
CHECK_DEADLOCK FALSE
