--------------------------- MODULE CircuitBreaker ---------------------------
(***************************************************************************)
(* The guarded egress of execution_layer.py for one host: several threads  *)
(* in _guarded_request share the host's CircuitBreaker (security.py).  The *)
(* breaker is consulted before the rate limiter and the request, and told  *)
(* of the outcome only when the request is over, so outcomes of requests   *)
(* admitted earlier arrive in any state of the breaker.                    *)
(***************************************************************************)
EXTENDS Naturals

CONSTANTS
    Callers,            \* threads that send requests to the host
    FailureThreshold    \* failure_threshold

ASSUME FailureThresholdAssumption == FailureThreshold \in Nat \ {0}

VARIABLES
    failures,  \* _failures, saturating at the threshold
    circuit,   \* _opened_at: none, or set less or more than reset_timeout ago
    pc         \* per caller: where it is in _guarded_request

breakerVars == <<failures, circuit, pc>>

BreakerTypeOK ==
    /\ failures \in 0..FailureThreshold
    /\ circuit \in {"closed", "open", "cooled"}
    /\ pc \in [Callers -> {"idle", "limit", "request"}]

BreakerInit ==
    /\ failures = 0
    /\ circuit = "closed"
    /\ pc = [c \in Callers |-> "idle"]

-----------------------------------------------------------------------------
(* Faulty: the half-open circuit closes with its failures still used up,   *)
(* or is not closed at all.                                                *)
AllowKeepingFailures(c) ==
    /\ pc[c] = "idle" /\ circuit \in {"closed", "cooled"}
    /\ circuit' = "closed"
    /\ pc' = [pc EXCEPT ![c] = "limit"]
    /\ UNCHANGED failures

AllowWhileOpen(c) ==
    /\ pc[c] = "idle" /\ circuit \in {"closed", "cooled"}
    /\ pc' = [pc EXCEPT ![c] = "limit"]
    /\ UNCHANGED <<failures, circuit>>

(* allow(): a closed circuit admits; one that has cooled closes again with *)
(* one failure left; an open one refuses, which changes nothing.           *)
Allow(c) ==
    /\ pc[c] = "idle"
    /\ \/ circuit = "closed" /\ UNCHANGED <<failures, circuit>>
       \/ /\ circuit = "cooled"
          /\ circuit' = "closed"
          /\ failures' = FailureThreshold - 1
    /\ pc' = [pc EXCEPT ![c] = "limit"]

(* The rate limiter admits or refuses; a refusal records no outcome. *)
RateLimit(c) ==
    /\ pc[c] = "limit"
    /\ \E admitted \in BOOLEAN :
         pc' = [pc EXCEPT ![c] = IF admitted THEN "request" ELSE "idle"]
    /\ UNCHANGED <<failures, circuit>>

RecordSuccess ==
    /\ failures' = 0
    /\ circuit' = "closed"

RecordFailure ==
    /\ failures' = IF failures < FailureThreshold THEN failures + 1 ELSE failures
    /\ circuit' = IF failures' >= FailureThreshold THEN "open" ELSE circuit

(* _do_request: an answer below 400, an error answer or network failure,   *)
(* or an exception of another kind, which records nothing.                 *)
Outcome(c) ==
    /\ pc[c] = "request"
    /\ pc' = [pc EXCEPT ![c] = "idle"]
    /\ RecordSuccess \/ RecordFailure \/ UNCHANGED <<failures, circuit>>

(* reset_timeout passes. *)
Cool ==
    /\ circuit = "open"
    /\ circuit' = "cooled"
    /\ UNCHANGED <<failures, pc>>

BreakerNext ==
    \/ \E c \in Callers : Allow(c) \/ RateLimit(c) \/ Outcome(c)
    \/ Cool

BreakerSpec == BreakerInit /\ [][BreakerNext]_breakerVars

(* Callers keep sending, requests time out, the clock runs. *)
CallersAreFair ==
    /\ WF_breakerVars(Cool)
    /\ \A c \in Callers : WF_breakerVars(Allow(c)) /\ WF_breakerVars(RateLimit(c))
                            /\ WF_breakerVars(Outcome(c))

-----------------------------------------------------------------------------
(* The circuit is open exactly when its failures are used up: no order of  *)
(* late outcomes leaves it closed with none left, where it would hammer a  *)
(* failing host, or open with some left.                                   *)
OpenIffExhausted == circuit # "closed" <=> failures = FailureThreshold

(* A circuit that has opened admits requests again: it never shuts a       *)
(* recovered host out for ever, even if every probe is rate limited.       *)
OpenCircuitCloses == circuit = "open" ~> circuit = "closed"
=============================================================================
