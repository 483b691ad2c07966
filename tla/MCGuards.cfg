SPECIFICATION GuardsSpec
CONSTANTS
  Requests = {r1, r2}
  Callers = {c1, c2, c3}
  FailureThreshold = 3
INVARIANT FirstResolutionWins
INVARIANT NoRecordOutlivesItsWaiter
INVARIANT OpenIffExhausted
PROPERTY RequestReturns
PROPERTY OpenCircuitCloses
