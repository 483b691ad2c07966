SPECIFICATION MemSpec
CONSTANTS
  worker = worker
  caller = caller
  decision = decision
  failure = failure
  Capacity = 2
  MaxEvents = 3
  EventTypes <- TwoTypes
  Consolidators <- OneConsolidator
  Faults <- NoFaults
INVARIANT NoEventIsLost
