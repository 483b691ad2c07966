SPECIFICATION FairSpec
CONSTANTS
  Nodes <- Pair
  Priority <- EqualPriority
  Followers <- NoFollowers
  SeqMod = 2
  LinkRoom = 1
  MaxFaults = 1
PROPERTY Converges
INVARIANT NoMutualLeaders
