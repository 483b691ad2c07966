---------------------------- MODULE GuardProofs -----------------------------
(***************************************************************************)
(* The guards that stand between a decision and its effect, each for any   *)
(* number of callers: the approval broker answers with the first           *)
(* resolution and leaves no record behind, the circuit breaker is open     *)
(* exactly when its failures are used up, and the Android lifecycle holds  *)
(* the governor while the app is paused and lets it go in the foreground.  *)
(* The three share nothing but the governor's proofs.                      *)
(***************************************************************************)
EXTENDS ApprovalBroker, CircuitBreaker, AndroidRuntime, GovernorProofs

-----------------------------------------------------------------------------
(* The approval broker. *)

(* The record of a request says the first resolution while it is resolved, *)
(* and exists exactly while the request waits for its verdict.             *)
RecordOK(r) ==
    /\ pending[r] \in Resolutions => first[r] = pending[r]
    /\ waiter[r] = "woken" => pending[r] \in Resolutions
    /\ waiter[r] \in {"new"} \cup Returned => pending[r] = "absent"

BrokerInv ==
    /\ TypeOK
    /\ \A r \in Requests : RecordOK(r)
    /\ FirstResolutionWins

(* Resolving an open record, by whichever party, keeps the invariant. *)
LEMMA Resolving ==
    ASSUME BrokerInv, NEW r \in Requests, NEW v \in BOOLEAN, ResolveIfOpen(r, v),
           UNCHANGED waiter
    PROVE  /\ pending' \in [Requests -> {"absent", "open"} \cup Resolutions]
           /\ first' \in [Requests -> {"none"} \cup Resolutions]
           /\ \A q \in Requests : RecordOK(q)'
           /\ FirstResolutionWins'
<1> USE DEF BrokerInv, TypeOK, RecordOK, FirstResolutionWins, Resolutions, Returned,
        Verdict
<1>1. CASE pending[r] = "open"
  <2>1. /\ pending' = [pending EXCEPT ![r] = Verdict(v)]
        /\ first' = [first EXCEPT ![r] = Verdict(v)]
    BY <1>1 DEF ResolveIfOpen
  <2>2. Verdict(v) \in {"yes", "no"}
    OBVIOUS
  <2>3. waiter[r] \notin {"new", "woken"} \cup Returned
    BY <1>1
  <2> QED BY <2>1, <2>2, <2>3
<1>2. CASE pending[r] # "open"
  <2>1. UNCHANGED <<pending, first>>
    BY <1>2 DEF ResolveIfOpen
  <2> QED BY <2>1
<1> QED BY <1>1, <1>2

(* Every lock region of the broker keeps the invariant. *)
THEOREM BrokerInvariant == Spec => []BrokerInv
<1>1. Init => BrokerInv
  BY DEF Init, BrokerInv, TypeOK, RecordOK, FirstResolutionWins, Resolutions, Returned
<1>2. BrokerInv /\ [Next]_vars => BrokerInv'
  <2> SUFFICES ASSUME BrokerInv, [Next]_vars PROVE BrokerInv'
    OBVIOUS
  <2> USE DEF BrokerInv, TypeOK, RecordOK, FirstResolutionWins, Resolutions, Returned
  <2>1. CASE UNCHANGED vars
    BY <2>1 DEF vars
  <2>2. CASE AttachOperator
    BY <2>2 DEF AttachOperator
  <2>3. ASSUME NEW r \in Requests, RequestApproval(r) PROVE BrokerInv'
    BY <2>3 DEF RequestApproval
  <2>4. ASSUME NEW r \in Requests, AskOperator(r) PROVE BrokerInv'
    BY <2>4 DEF AskOperator
  <2>5. ASSUME NEW r \in Requests, Wake(r) PROVE BrokerInv'
    BY <2>5 DEF Wake
  <2>6. ASSUME NEW r \in Requests, TimeOut(r) PROVE BrokerInv'
    BY <2>6 DEF TimeOut
  <2>7. ASSUME NEW r \in Requests, ReturnVerdict(r) PROVE BrokerInv'
    BY <2>7 DEF ReturnVerdict
  <2>8. ASSUME NEW r \in Requests, NEW v \in BOOLEAN, Resolve(r, v) PROVE BrokerInv'
    <3>1. ResolveIfOpen(r, v) /\ UNCHANGED <<attached, waiter, worker>>
      BY <2>8 DEF Resolve
    <3> QED BY <3>1, Resolving
  <2>9. ASSUME NEW r \in Requests, NEW v \in BOOLEAN, OperatorAnswers(r, v)
        PROVE  BrokerInv'
    <3>1. /\ ResolveIfOpen(r, v)
          /\ worker' = [worker EXCEPT ![r] = "done"]
          /\ UNCHANGED <<attached, waiter>>
      BY <2>9 DEF OperatorAnswers
    <3> QED BY <3>1, Resolving
  <2> QED
    BY <2>1, <2>2, <2>3, <2>4, <2>5, <2>6, <2>7, <2>8, <2>9 DEF Next, Wait
<1> QED BY <1>1, <1>2, PTL DEF Spec

(* Records, verdicts and waiters keep their types for any requests. *)
THEOREM BrokerTypes == Spec => []TypeOK
<1>1. BrokerInv => TypeOK
  BY DEF BrokerInv
<1> QED BY <1>1, BrokerInvariant, PTL

(* request_approval returns the first resolution of its request: neither a *)
(* late answer nor a second console call overturns it.                     *)
THEOREM VerdictIsTheFirst == Spec => []FirstResolutionWins
<1>1. BrokerInv => FirstResolutionWins
  BY DEF BrokerInv
<1> QED BY <1>1, BrokerInvariant, PTL

(* A request that has returned has no record left to resolve. *)
THEOREM RecordsAreRemoved == Spec => []NoRecordOutlivesItsWaiter
<1>1. BrokerInv => NoRecordOutlivesItsWaiter
  BY DEF BrokerInv, RecordOK, NoRecordOutlivesItsWaiter
<1> QED BY <1>1, BrokerInvariant, PTL

-----------------------------------------------------------------------------
(* The circuit breaker. *)

(* The types are all the strengthening OpenIffExhausted needs. *)
BreakerInv == BreakerTypeOK /\ OpenIffExhausted

(* Every call of the breaker keeps the invariant. *)
THEOREM BreakerInvariant == BreakerSpec => []BreakerInv
<1>0. /\ FailureThreshold \in Nat /\ FailureThreshold >= 1
      /\ 0 \in 0..FailureThreshold /\ FailureThreshold \in 0..FailureThreshold
      /\ FailureThreshold - 1 \in 0..FailureThreshold
      /\ 0 # FailureThreshold /\ FailureThreshold - 1 # FailureThreshold
  BY FailureThresholdAssumption
<1>1. BreakerInit => BreakerInv
  BY <1>0 DEF BreakerInit, BreakerInv, BreakerTypeOK, OpenIffExhausted
<1>2. BreakerInv /\ [BreakerNext]_breakerVars => BreakerInv'
  <2> SUFFICES ASSUME BreakerInv, [BreakerNext]_breakerVars PROVE BreakerInv'
    OBVIOUS
  <2> USE DEF BreakerInv, BreakerTypeOK, OpenIffExhausted
  <2>1. CASE UNCHANGED breakerVars
    BY <2>1 DEF breakerVars
  <2>2. ASSUME NEW c \in Callers, Allow(c) PROVE BreakerInv'
    <3>1. pc' \in [Callers -> {"idle", "limit", "request"}]
      BY <2>2 DEF Allow
    <3>2. CASE circuit = "closed"
      BY <2>2, <3>1, <3>2 DEF Allow
    <3>3. CASE circuit = "cooled"
      <4>1. /\ circuit' = "closed" /\ failures' = FailureThreshold - 1
        BY <2>2, <3>3 DEF Allow
      <4> QED BY <1>0, <3>1, <4>1
    <3> QED BY <2>2, <3>2, <3>3 DEF Allow
  <2>3. ASSUME NEW c \in Callers, RateLimit(c) PROVE BreakerInv'
    BY <2>3 DEF RateLimit
  <2>4. ASSUME NEW c \in Callers, Outcome(c) PROVE BreakerInv'
    <3>1. CASE RecordSuccess
      <4>1. pc' \in [Callers -> {"idle", "limit", "request"}]
        BY <2>4 DEF Outcome
      <4>2. failures' = 0 /\ circuit' = "closed"
        BY <3>1 DEF RecordSuccess
      <4> QED BY <1>0, <4>1, <4>2
    <3>2. CASE RecordFailure
      <4>1. pc' \in [Callers -> {"idle", "limit", "request"}]
        BY <2>4 DEF Outcome
      <4>2. CASE failures < FailureThreshold
        <5>1. failures' = failures + 1 /\ failures' \in 0..FailureThreshold
          BY <1>0, <3>2, <4>2 DEF RecordFailure
        <5>2. CASE failures' = FailureThreshold
          BY <1>0, <3>2, <4>1, <5>1, <5>2 DEF RecordFailure
        <5>3. CASE failures' < FailureThreshold
          BY <1>0, <3>2, <4>1, <4>2, <5>1, <5>3 DEF RecordFailure
        <5> QED BY <1>0, <5>1, <5>2, <5>3
      <4>3. CASE failures = FailureThreshold
        BY <1>0, <3>2, <4>1, <4>3 DEF RecordFailure
      <4> QED BY <1>0, <4>2, <4>3
    <3>3. CASE UNCHANGED <<failures, circuit>>
      BY <2>4, <3>3 DEF Outcome
    <3> QED BY <2>4, <3>1, <3>2, <3>3 DEF Outcome
  <2>5. CASE Cool
    BY <2>5 DEF Cool
  <2> QED BY <2>1, <2>2, <2>3, <2>4, <2>5 DEF BreakerNext
<1> QED BY <1>1, <1>2, PTL DEF BreakerSpec

(* The failure count never passes the threshold, whatever arrives late. *)
THEOREM BreakerTypes == BreakerSpec => []BreakerTypeOK
<1>1. BreakerInv => BreakerTypeOK
  BY DEF BreakerInv
<1> QED BY <1>1, BreakerInvariant, PTL

(* No late, concurrent or missing outcome separates _opened_at from the    *)
(* failure count.                                                          *)
THEOREM BreakerIsConsistent == BreakerSpec => []OpenIffExhausted
<1>1. BreakerInv => OpenIffExhausted
  BY DEF BreakerInv
<1> QED BY <1>1, BreakerInvariant, PTL

-----------------------------------------------------------------------------
(* The Android runtime. *)

(* A report of the runtime latches one of the governor's modes. *)
LEMMA RuntimeLatchMode == \A k \in RuntimeKinds : Severity[k] \in LatchModes
BY RuntimeSeverityAssumption

(* Every step of the runtime is a call of the governor or leaves it alone. *)
LEMMA RtStepIsGovStep == [RtNext]_rtVars => [GovNext]_govVars
<1> SUFFICES ASSUME [RtNext]_rtVars PROVE [GovNext]_govVars
    OBVIOUS
<1>1. ASSUME NEW k \in RuntimeKinds, Latch(Severity[k]) PROVE GovNext
      BY <1>1, RuntimeLatchMode DEF GovNext
<1>2. CASE Lifecycle
  <2>1. CASE PauseLatch
        BY <1>1, <2>1 DEF PauseLatch, RuntimeKinds
  <2>2. CASE OnResume
        BY <2>2 DEF OnResume, GovNext
  <2>3. CASE OnCreate \/ OnPause \/ ResumeRefused \/ Resumed \/ OnDestroy
        BY <2>3 DEF OnCreate, OnPause, ResumeRefused, Resumed, OnDestroy, rtVars
  <2> QED
      BY <1>2, <2>1, <2>2, <2>3 DEF Lifecycle
<1>3. CASE MonitorNext
  <2>1. ASSUME NEW r \in Readings, CheckPower(r) PROVE [GovNext]_govVars
        BY <1>1, <2>1 DEF CheckPower, Report, RuntimeKinds
  <2>2. ASSUME NEW r \in Readings, CheckThermal(r) PROVE [GovNext]_govVars
        BY <1>1, <2>2 DEF CheckThermal, Report, RuntimeKinds
  <2>3. CASE MonitorWakes
        BY <2>3 DEF MonitorWakes
  <2> QED
      BY <1>3, <2>1, <2>2, <2>3 DEF MonitorNext
<1>4. CASE Environment
      BY <1>4 DEF Environment
<1>5. CASE UNCHANGED rtVars
      BY <1>5 DEF rtVars
<1> QED
    BY <1>2, <1>3, <1>4, <1>5 DEF RtNext

(* The runtime does nothing to the governor that its methods do not allow: *)
(* whatever the shell and the device report, only a resume releases a      *)
(* latch.                                                                  *)
THEOREM RuntimeImplementsGovernor == RtSpec => GovSpec
<1>1. RtInit => GovInit
      BY DEF RtInit
<1> QED
    BY <1>1, RtStepIsGovStep, PTL DEF RtSpec, GovSpec

(* Whatever the lifecycle callbacks and the device monitor do, a halted    *)
(* governor stays halted and only a resume releases a latch.               *)
THEOREM RuntimeKeepsLatches ==
    RtSpec => HaltedIsTerminal /\ LatchIsReleasedByResumeOnly
BY RuntimeImplementsGovernor, HaltedGovernorStaysHalted, LatchSurvivesTasks, PTL

(* With the two properties, what is known of a callback between its two    *)
(* steps: the runtime is paused and its own latch not, or no longer, there.*)
RtInv ==
    /\ GovInv
    /\ runtime \in {"new", "started", "paused", "destroyed"}
    /\ callback \in {"none", "pausing", "resuming"}
    /\ ownLatch \in BOOLEAN /\ overridden \in BOOLEAN
    /\ callback # "none" => runtime = "paused" /\ ~ownLatch
    /\ runtime = "new" => ~ownLatch
    /\ PauseHolds
    /\ ForegroundIsNotHeld

(* A latched governor stays so under a report, and a report latches it. *)
LEMMA ReportLatches ==
    ASSUME GovInv, NEW k \in RuntimeKinds, Latch(Severity[k])
    PROVE  latched' # NoLatch
<1>1. Severity[k] # NoLatch /\ "HALTED" # NoLatch
      BY RuntimeLatchMode DEF LatchModes, NoLatch
<1>2. CASE state = "HALTED"
      BY <1>1, <1>2 DEF Latch, govVars, GovInv, LatchShown, LatchModes
<1>3. CASE state # "HALTED"
      BY <1>1, <1>3 DEF Latch
<1> QED
    BY <1>2, <1>3

(* The monitor's steps leave a latch in place and claim none. *)
LEMMA MonitorKeepsLatch ==
    ASSUME RtInv, MonitorNext
    PROVE  /\ latched # NoLatch => latched' # NoLatch
           /\ ownLatch' \in BOOLEAN /\ (ownLatch' => ownLatch)
           /\ UNCHANGED <<runtime, callback, overridden>>
<1>1. ASSUME NEW k \in RuntimeKinds, Report(k)
      PROVE  latched' # NoLatch /\ ownLatch' \in BOOLEAN /\ (ownLatch' => ownLatch)
      BY <1>1, ReportLatches DEF Report, Others, RtInv
<1>2. ASSUME UNCHANGED <<govVars, ownLatch>>
      PROVE  /\ latched # NoLatch => latched' # NoLatch
             /\ ownLatch' \in BOOLEAN /\ (ownLatch' => ownLatch)
      BY <1>2 DEF govVars, RtInv
<1>3. ASSUME NEW r \in Readings, CheckPower(r)
      PROVE  /\ latched # NoLatch => latched' # NoLatch
             /\ ownLatch' \in BOOLEAN /\ (ownLatch' => ownLatch)
             /\ UNCHANGED <<runtime, callback, overridden>>
      BY <1>1, <1>2, <1>3 DEF CheckPower, RuntimeKinds, lifeVars
<1>4. ASSUME NEW r \in Readings, CheckThermal(r)
      PROVE  /\ latched # NoLatch => latched' # NoLatch
             /\ ownLatch' \in BOOLEAN /\ (ownLatch' => ownLatch)
             /\ UNCHANGED <<runtime, callback, overridden>>
      BY <1>1, <1>2, <1>4 DEF CheckThermal, RuntimeKinds, lifeVars
<1>5. CASE MonitorWakes
      BY <1>2, <1>5 DEF MonitorWakes, lifeVars, histVars
<1> QED
    BY <1>3, <1>4, <1>5 DEF MonitorNext

(* Every callback, report and foreign call keeps the invariant. *)
LEMMA RtNextInv == RtInv /\ [RtNext]_rtVars => RtInv'
<1> SUFFICES ASSUME RtInv, [RtNext]_rtVars PROVE RtInv'
    OBVIOUS
<1>1. GovInv'
      BY RtStepIsGovStep, GovNextInv DEF RtInv
<1> USE DEF RtInv, PauseHolds, ForegroundIsNotHeld
<1>2. CASE Lifecycle
  <2>1. CASE OnCreate \/ OnDestroy \/ Resumed
        BY <1>1, <2>1 DEF OnCreate, Resumed, OnDestroy, histVars, govVars
  <2>2. CASE PauseLatch
    <3>1. latched' # NoLatch
          BY <2>2, ReportLatches DEF PauseLatch, RuntimeKinds
    <3> QED
        BY <1>1, <2>2, <3>1 DEF PauseLatch
  <2>3. CASE OnResume
        BY <1>1, <2>3 DEF OnResume
  <2>4. CASE ResumeRefused
        BY <1>1, <2>4 DEF ResumeRefused, rtVars, govVars, lifeVars, histVars
  <2>5. CASE OnPause
        BY <1>1, <2>5 DEF OnPause
  <2> QED
      BY <1>2, <2>1, <2>2, <2>3, <2>4, <2>5 DEF Lifecycle
<1>3. CASE MonitorNext
      BY <1>1, <1>3, MonitorKeepsLatch
<1>4. CASE Environment
  <2>1. /\ ownLatch' = (ownLatch /\ latched' = latched)
        /\ overridden' = (overridden \/ (latched # NoLatch /\ latched' = NoLatch))
        /\ UNCHANGED <<runtime, callback>>
        BY <1>4 DEF Environment, Others, lifeVars
  <2> QED
      BY <1>1, <2>1
<1>5. CASE UNCHANGED rtVars
      BY <1>1, <1>5 DEF rtVars, govVars, lifeVars, histVars
<1> QED
    BY <1>2, <1>3, <1>4, <1>5 DEF RtNext

(* The invariant of the runtime, for every streak, budget and severities   *)
(* short of a halt.                                                        *)
THEOREM RuntimeInvariant == RtSpec => []RtInv
<1>1. RtInit => RtInv
      BY GovInitInv DEF RtInit, RtInv, PauseHolds, ForegroundIsNotHeld
<1> QED
    BY <1>1, RtNextInv, PTL DEF RtSpec

(* A paused app's governor is latched until on_resume or somebody else's   *)
(* resume, whatever tasks and monitors do meanwhile.                       *)
THEOREM PausedAppIsLatched == RtSpec => []PauseHolds
<1>1. RtInv => PauseHolds
      BY DEF RtInv
<1> QED
    BY <1>1, RuntimeInvariant, PTL

(* An app in the foreground is not held by its own pause, although the     *)
(* governor may refuse a resume.                                           *)
THEOREM ForegroundAppIsFree == RtSpec => []ForegroundIsNotHeld
<1>1. RtInv => ForegroundIsNotHeld
      BY DEF RtInv
<1> QED
    BY <1>1, RuntimeInvariant, PTL
=============================================================================
