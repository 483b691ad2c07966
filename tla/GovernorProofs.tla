--------------------------- MODULE GovernorProofs ---------------------------
(***************************************************************************)
(* What the governor guarantees to any number of callers, for every step   *)
(* budget.                                                                 *)
(***************************************************************************)
EXTENDS Governor, TLAPS

(* The inductive invariant: typing, and that a mode visible in the state   *)
(* is the latched one.                                                     *)
GovInv == GovTypeOK /\ LatchShown

(* The transition matrix stays within the loop states: a step never enters *)
(* a latched mode.                                                         *)
LEMMA AllowedIsTransient ==
    ASSUME NEW s \in AgentState
    PROVE  Allowed(s) \subseteq AgentState \ LatchModes
BY DEF Allowed, AgentState, LatchModes

(* An unused budget is within its range. *)
LEMMA ZeroSteps == 0 \in 0..(StepBudget + 1)
BY StepBudgetAssumption

(* The invariant holds initially. *)
LEMMA GovInitInv == GovInit => GovInv
BY ZeroSteps
   DEF GovInit, GovInv, GovTypeOK, LatchShown, AgentState, LatchModes, NoLatch

(* Every method of the governor preserves the invariant. *)
LEMMA GovNextInv == GovInv /\ [GovNext]_govVars => GovInv'
<1> SUFFICES ASSUME GovInv, [GovNext]_govVars PROVE GovInv'
    OBVIOUS
<1> USE DEF GovInv, GovTypeOK, LatchShown, LatchModes, NoLatch
<1>1. CASE BeginTask
      BY <1>1, ZeroSteps DEF BeginTask, MayBegin, AgentState
<1>2. ASSUME NEW s \in AgentState, Step(s) PROVE GovInv'
  <2>1. s \in AgentState \ LatchModes
        BY <1>2, AllowedIsTransient DEF Step, MayStep
  <2>2. QED BY <1>2, <2>1 DEF Step
<1>3. CASE ConsumeStep
      BY <1>3, StepBudgetAssumption DEF ConsumeStep, Charged
<1>4. CASE EndTask
      BY <1>4, ZeroSteps DEF EndTask, AgentState
<1>5. ASSUME NEW m \in LatchModes, Latch(m) PROVE GovInv'
  <2>1. CASE state = "HALTED" BY <1>5, <2>1 DEF Latch, govVars
  <2>2. CASE state # "HALTED" BY <1>5, <2>2 DEF Latch, AgentState
  <2>3. QED BY <2>1, <2>2
<1>6. CASE Resume
      BY <1>6 DEF Resume, MayResume, AgentState
<1>7. CASE DeadlinePasses
      BY <1>7 DEF DeadlinePasses
<1>8. CASE StallPasses
      BY <1>8 DEF StallPasses
<1>9. CASE UNCHANGED govVars
      BY <1>9 DEF govVars
<1>10. QED
       BY <1>1, <1>2, <1>3, <1>4, <1>5, <1>6, <1>7, <1>8, <1>9
          DEF GovNext, TaskCall, Time

(* The governor's variables keep their types, and a latched mode visible   *)
(* in its state is the mode latched, with no task in flight.               *)
THEOREM GovernorInvariant == GovSpec => []GovInv
<1>1. GovInit => GovInv BY GovInitInv
<1>2. GovInv /\ [GovNext]_govVars => GovInv' BY GovNextInv
<1>3. QED BY <1>1, <1>2, PTL DEF GovSpec

(* resume and _latch, which read the state, never act on a stale mode.     *)
THEOREM GovernorShowsItsLatch == GovSpec => []LatchShown
<1>1. GovInv => LatchShown BY DEF GovInv
<1>2. QED BY <1>1, GovernorInvariant, PTL

(* No call takes a governor out of the state HALTED. *)
LEMMA HaltedStep ==
    GovInv /\ [GovNext]_govVars =>
        (state = "HALTED" => state' = "HALTED" /\ latched' = "HALTED")
<1> SUFFICES ASSUME GovInv, [GovNext]_govVars, state = "HALTED"
             PROVE  state' = "HALTED" /\ latched' = "HALTED"
    OBVIOUS
<1>1. latched = "HALTED" /\ ~started
      BY DEF GovInv, LatchShown, LatchModes
<1>2. CASE TaskCall
  <2>1. Allowed(state) = {} BY DEF Allowed
  <2>2. QED BY <1>1, <1>2, <2>1
            DEF TaskCall, BeginTask, MayBegin, Step, MayStep, ConsumeStep,
                EndTask, NoLatch
<1>3. CASE \E m \in LatchModes : Latch(m)
      BY <1>1, <1>3 DEF Latch, govVars
<1>4. CASE Resume \/ Time
      BY <1>1, <1>4 DEF Resume, MayResume, Time, DeadlinePasses, StallPasses
<1>5. CASE UNCHANGED govVars BY <1>1, <1>5 DEF govVars
<1>6. QED BY <1>2, <1>3, <1>4, <1>5 DEF GovNext

(* A governor that shows HALTED is halted until the process restarts. *)
THEOREM HaltedGovernorStaysHalted == GovSpec => HaltedIsTerminal
BY GovernorInvariant, HaltedStep, PTL DEF GovSpec, HaltedIsTerminal

(* Only resume releases a latch, and it releases the one it sees. *)
LEMMA ReleaseStep ==
    GovInv /\ [GovNext]_govVars =>
        (latched # NoLatch /\ latched' = NoLatch =>
            /\ latched \in {"PAUSED", "SAFE_STATE"}
            /\ state = latched
            /\ state' = "IDLE")
<1> SUFFICES ASSUME GovInv, [GovNext]_govVars,
                    latched # NoLatch, latched' = NoLatch
             PROVE  /\ latched \in {"PAUSED", "SAFE_STATE"}
                    /\ state = latched
                    /\ state' = "IDLE"
    OBVIOUS
<1>1. CASE TaskCall \/ Time
      BY <1>1 DEF TaskCall, BeginTask, Step, ConsumeStep, EndTask, Time,
                  DeadlinePasses, StallPasses
<1>2. CASE \E m \in LatchModes : Latch(m)
      BY <1>2 DEF Latch, LatchModes, NoLatch, govVars
<1>3. CASE Resume
      BY <1>3 DEF Resume, MayResume, GovInv, LatchShown, LatchModes
<1>4. CASE UNCHANGED govVars BY <1>4 DEF govVars
<1>5. QED BY <1>1, <1>2, <1>3, <1>4 DEF GovNext

(* No begin, step or end of a task loses a mode that was latched while it  *)
(* ran, and HALTED is never released.                                      *)
THEOREM LatchSurvivesTasks == GovSpec => LatchIsReleasedByResumeOnly
BY GovernorInvariant, ReleaseStep, PTL DEF GovSpec, LatchIsReleasedByResumeOnly
=============================================================================
