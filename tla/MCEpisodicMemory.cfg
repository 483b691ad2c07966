SPECIFICATION MemSpec
CONSTANTS
  worker = worker
  caller = caller
  decision = decision
  failure = failure
  Capacity = 2
  MaxEvents = 3
  EventTypes <- TwoTypes
  Consolidators <- TwoConsolidators
  Faults <- AllFaults
SYMMETRY Symmetry
INVARIANT RingIsJournaled
INVARIANT OnlyExposedEventsAreLost
INVARIANT ReplayDropsNothing
