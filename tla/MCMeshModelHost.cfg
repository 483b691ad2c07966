SPECIFICATION Spec
CONSTANTS
  Devices = {1, 2}
  Room = 2
  Budget = 2
  Hot = Hot
  StableRuns = 2
  MaxRestarts = 3
  Flaws <- OneFlaw
  NoSplit = NoSplit
  MaxFaults = 2
INVARIANT ReleasedIsTold
INVARIANT LocalIsTriedLast
PROPERTY VerifiedIsOurs
PROPERTY Recovers
PROPERTY HotIsRelieved
