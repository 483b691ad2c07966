---------------------------- MODULE EngineProofs ----------------------------
(***************************************************************************)
(* The fallback controller implements the governor's specification and     *)
(* loses no escalation, for any reporting threads, operators, severities   *)
(* and thresholds.  The execution pipeline, for every set of threads,      *)
(* implements the fallback controller's specification in turn, it always   *)
(* gives the governor back, and a task that runs under SAFE_STATE has no   *)
(* side effect.                                                            *)
(***************************************************************************)
EXTENDS EngineHistory, GovernorProofs

-----------------------------------------------------------------------------
(* The fallback controller. *)

(* The latch a trigger asks for is one of the governor's modes. *)
LEMMA LatchOfMode == \A sev : LatchOf(sev) \in LatchModes
BY DEF LatchOf, LatchModes

(* Every step of the controller is a call of the governor or leaves it     *)
(* alone.                                                                  *)
LEMMA FbStepIsGovStep == [FbNext]_fbAll => [GovNext]_govVars
<1> SUFFICES ASSUME [FbNext]_fbAll PROVE [GovNext]_govVars
    OBVIOUS
<1>1. ASSUME NEW p \in Procs, NotifyGovernor(p) PROVE [GovNext]_govVars
  <2>1. PICK m \in LatchModes : Latch(m)
        BY <1>1, LatchOfMode DEF NotifyGovernor
  <2>2. QED BY <2>1 DEF GovNext
<1>2. ASSUME NEW o \in Operators, OperatorNext(o) PROVE [GovNext]_govVars
      BY <1>2 DEF OperatorNext, ResumeGovernor, GovNext
<1>3. CASE TaskCall \/ Time
      BY <1>3 DEF GovNext
<1>4. CASE UNCHANGED govVars
      BY <1>4
<1>5. CASE UNCHANGED fbAll
      BY <1>5 DEF fbAll
<1>6. QED BY <1>1, <1>2, <1>3, <1>4, <1>5 DEF FbNext

(* The controller never does to the governor what a caller of its methods  *)
(* could not: it implements GovSpec and inherits what is proved of it.     *)
THEOREM FallbacksImplementGovernor == FbSpec => GovSpec
<1>1. FbInit => GovInit BY DEF FbInit
<1>2. QED BY <1>1, FbStepIsGovStep, PTL DEF FbSpec, GovSpec

-----------------------------------------------------------------------------
(* Typing of the controller's own variables. *)
CtlTypeOK ==
    /\ fmode \in {"normal", "paused", "safe_state", "halted"}
    /\ violations \in [Thresholded -> Nat]
    /\ \A k \in Thresholded : violations[k] <= Threshold[k]
    /\ fire \in [Procs -> Seq(Kinds)]
    /\ notified \in [Procs -> BOOLEAN]
    /\ \A p \in Procs : notified[p] => fire[p] # << >>
    /\ op \in [Operators -> {"ready", "clear", "normal"}]

FbInv == GovInv /\ CtlTypeOK /\ EscalationIsNotLost

(* The triggers of evaluate are trigger kinds. *)
LEMMA TriggersType ==
    ASSUME NEW b, NEW l PROVE Triggers(b, l) \in Seq(Kinds)
<1> DEFINE A == IF b THEN <<"circuit_breakers_open">> ELSE << >>
           B == IF l THEN <<"episodic_backlog">> ELSE << >>
           C == IF progress = "stalled" THEN <<"task_stalled">> ELSE << >>
<1>1. /\ "circuit_breakers_open" \in Kinds
      /\ "episodic_backlog" \in Kinds
      /\ "task_stalled" \in Kinds
      BY DEF Kinds, EvaluateKinds
<1>2. A \in Seq(Kinds) /\ B \in Seq(Kinds) /\ C \in Seq(Kinds)
      BY <1>1
<1>3. Triggers(b, l) = (A \o B) \o C BY DEF Triggers
<1>4. A \o B \in Seq(Kinds) BY <1>2
<1>5. (A \o B) \o C \in Seq(Kinds) BY <1>2, <1>4
<1>6. QED BY <1>3, <1>5

(* A thread with one trigger to fire is not one with none. *)
LEMMA OneIsNotNone == \A j : <<j>> # << >>
OBVIOUS

(* Counting saturates at the threshold. *)
LEMMA CountType ==
    ASSUME CtlTypeOK, NEW k \in Thresholded
    PROVE  Count(k) \in Nat /\ Count(k) <= Threshold[k]
BY ThresholdAssumption DEF CtlTypeOK, Count

(* A report keeps the types, and one that reaches the threshold leaves the *)
(* thread about to notify the governor.                                    *)
LEMMA ReportInv ==
    ASSUME FbInv, NEW p \in Procs, NEW k \in Kinds, ReportViolation(p, k),
           UNCHANGED govVars
    PROVE  CtlTypeOK' /\ EscalationIsNotLost'
<1> USE DEF ReportViolation
<1>1. CtlTypeOK'
  <2>1. /\ violations' \in [Thresholded -> Nat]
        /\ \A j \in Thresholded : violations'[j] <= Threshold[j]
        BY CountType DEF FbInv, CtlTypeOK
  <2>2. fire' \in [Procs -> Seq(Kinds)]
        BY DEF FbInv, CtlTypeOK
  <2>3. \A q \in Procs : notified'[q] => fire'[q] # << >>
        BY DEF FbInv, CtlTypeOK
  <2>4. QED BY <2>1, <2>2, <2>3 DEF FbInv, CtlTypeOK
<1>2. EscalationIsNotLost'
  <2> SUFFICES ASSUME NEW j \in Thresholded, violations'[j] >= Threshold[j]
               PROVE  \/ latched' # NoLatch
                      \/ \E q \in Procs : ~notified'[q] /\ fire'[q] = <<j>>
                      \/ \E o \in Operators : op'[o] = "clear"
      BY DEF EscalationIsNotLost
  <2>1. CASE j = k
    <3>1. Escalates(k) BY <2>1 DEF Escalates, FbInv, CtlTypeOK
    <3>2. fire'[p] = <<j>> /\ ~notified'[p]
          BY <2>1, <3>1 DEF FbInv, CtlTypeOK
    <3>3. QED BY <3>2
  <2>2. CASE j # k
    <3>1. violations[j] >= Threshold[j] BY <2>2 DEF FbInv, CtlTypeOK
    <3>2. ASSUME NEW q \in Procs, ~notified[q], fire[q] = <<j>>
          PROVE  ~notified'[q] /\ fire'[q] = <<j>>
          BY <3>2, OneIsNotNone DEF FbInv, CtlTypeOK
    <3>3. QED BY <3>1, <3>2 DEF FbInv, EscalationIsNotLost, govVars
  <2>3. QED BY <2>1, <2>2
<1>3. QED BY <1>1, <1>2

(* evaluate only pushes triggers on a thread with none to fire. *)
LEMMA EvaluateInv ==
    ASSUME FbInv, NEW p \in Procs, NEW b, NEW l, Evaluate(p, b, l),
           UNCHANGED govVars
    PROVE  CtlTypeOK' /\ EscalationIsNotLost'
<1> USE DEF Evaluate
<1>1. CtlTypeOK' BY TriggersType DEF FbInv, CtlTypeOK
<1>2. ASSUME NEW q \in Procs, NEW j, ~notified[q], fire[q] = <<j>>
      PROVE  ~notified'[q] /\ fire'[q] = <<j>>
      BY <1>2, OneIsNotNone DEF FbInv, CtlTypeOK
<1>3. EscalationIsNotLost'
      BY <1>2 DEF FbInv, EscalationIsNotLost, govVars
<1>4. QED BY <1>1, <1>3

(* Once the governor is notified it is latched. *)
LEMMA NotifyInv ==
    ASSUME FbInv, NEW p \in Procs, NotifyGovernor(p)
    PROVE  CtlTypeOK' /\ EscalationIsNotLost'
<1>1. CtlTypeOK' BY DEF NotifyGovernor, FbInv, CtlTypeOK
<1>2. latched' # NoLatch
      BY LatchOfMode DEF NotifyGovernor, Latch, govVars, FbInv, GovInv,
                         LatchShown, LatchModes, NoLatch
<1>3. QED BY <1>1, <1>2 DEF EscalationIsNotLost

(* Assigning the mode concerns a trigger the governor already knows. *)
LEMMA AssignInv ==
    ASSUME FbInv, NEW p \in Procs, AssignMode(p), UNCHANGED govVars
    PROVE  CtlTypeOK' /\ EscalationIsNotLost'
<1> USE DEF AssignMode
<1>1. fire[p] # << >> /\ fire[p] \in Seq(Kinds) BY DEF FbInv, CtlTypeOK
<1>2. Tail(fire[p]) \in Seq(Kinds) BY <1>1
<1>3. fire' \in [Procs -> Seq(Kinds)] BY <1>2 DEF FbInv, CtlTypeOK
<1>4. \A q \in Procs : notified'[q] => fire'[q] # << >>
      BY DEF FbInv, CtlTypeOK
<1>5. fmode' \in {"normal", "paused", "safe_state", "halted"}
      BY DEF ModeOf
<1>6. CtlTypeOK' BY <1>3, <1>4, <1>5 DEF FbInv, CtlTypeOK
<1>7. ASSUME NEW q \in Procs, NEW j, ~notified[q], fire[q] = <<j>>
      PROVE  ~notified'[q] /\ fire'[q] = <<j>>
      BY <1>7 DEF FbInv, CtlTypeOK
<1>8. EscalationIsNotLost'
      BY <1>7 DEF FbInv, EscalationIsNotLost, govVars
<1>9. QED BY <1>6, <1>8

(* A resume that releases the latch is bound to clear the counts. *)
LEMMA OperatorInv ==
    ASSUME FbInv, NEW o \in Operators, OperatorNext(o)
    PROVE  CtlTypeOK' /\ EscalationIsNotLost'
<1>1. CASE ResumeGovernor(o)
  <2>1. CtlTypeOK' BY <1>1 DEF ResumeGovernor, FbInv, CtlTypeOK
  <2>2. op'[o] = "clear" BY <1>1 DEF ResumeGovernor, FbInv, CtlTypeOK
  <2>3. QED BY <2>1, <2>2 DEF EscalationIsNotLost
<1>2. CASE ClearViolations(o)
  <2>1. CtlTypeOK'
        BY <1>2, ThresholdAssumption DEF ClearViolations, FbInv, CtlTypeOK
  <2>2. \A k \in Thresholded : ~(violations'[k] >= Threshold[k])
        BY <1>2, ThresholdAssumption DEF ClearViolations
  <2>3. QED BY <2>1, <2>2 DEF EscalationIsNotLost
<1>3. CASE ResumeMode(o) /\ UNCHANGED govVars
  <2>1. CtlTypeOK' BY <1>3 DEF ResumeMode, FbInv, CtlTypeOK
  <2>2. ASSUME NEW u \in Operators, op[u] = "clear" PROVE op'[u] = "clear"
        BY <1>3, <2>2 DEF ResumeMode, FbInv, CtlTypeOK
  <2>3. QED BY <1>3, <2>1, <2>2
            DEF FbInv, EscalationIsNotLost, ResumeMode, govVars
<1>4. QED BY <1>1, <1>2, <1>3 DEF OperatorNext

(* Task calls and the clock leave the latch and the controller alone. *)
LEMMA TaskInv ==
    ASSUME FbInv, TaskCall \/ Time, UNCHANGED fbVars
    PROVE  CtlTypeOK' /\ EscalationIsNotLost'
<1>1. latched' = latched
      BY DEF TaskCall, BeginTask, Step, ConsumeStep, EndTask, Time,
             DeadlinePasses, StallPasses
<1>2. QED BY <1>1 DEF FbInv, CtlTypeOK, EscalationIsNotLost, fbVars

(* The invariant is inductive. *)
LEMMA FbNextInv == FbInv /\ [FbNext]_fbAll => FbInv'
<1> SUFFICES ASSUME FbInv, [FbNext]_fbAll PROVE FbInv'
    OBVIOUS
<1>1. GovInv' BY FbStepIsGovStep, GovNextInv DEF FbInv
<1>2. CtlTypeOK' /\ EscalationIsNotLost'
  <2>1. CASE UNCHANGED fbAll
        BY <2>1 DEF fbAll, fbVars, govVars, FbInv, CtlTypeOK,
                    EscalationIsNotLost
  <2>2. CASE FbNext
        BY <2>2, ReportInv, EvaluateInv, NotifyInv, AssignInv, OperatorInv,
           TaskInv DEF FbNext
  <2>3. QED BY <2>1, <2>2
<1>3. QED BY <1>1, <1>2 DEF FbInv

(* The invariant holds initially. *)
LEMMA FbInitInv == FbInit => FbInv
<1> SUFFICES ASSUME FbInit PROVE FbInv
    OBVIOUS
<1>1. GovInv BY GovInitInv DEF FbInit
<1>2. CtlTypeOK BY ThresholdAssumption DEF FbInit, CtlTypeOK
<1>3. \A k \in Thresholded : ~(violations[k] >= Threshold[k])
      BY ThresholdAssumption DEF FbInit
<1>4. QED BY <1>1, <1>2, <1>3 DEF FbInv, EscalationIsNotLost

(* Types, the governor's invariant and the escalation property, for every  *)
(* number of threads and operators.                                        *)
THEOREM FallbackInvariant == FbSpec => []FbInv
BY FbInitInv, FbNextInv, PTL DEF FbSpec

(* The controller's variables keep their types. *)
THEOREM FallbackTypes == FbSpec => []FbTypeOK
<1>1. FbInv => FbTypeOK BY DEF FbInv, GovInv, CtlTypeOK, FbTypeOK
<1>2. QED BY <1>1, FallbackInvariant, PTL

(* Once a kind has been reported as often as its threshold, the governor   *)
(* is latched, or is about to be, or an operator resumed after it was.     *)
THEOREM EscalationsReachTheGovernor == FbSpec => []EscalationIsNotLost
<1>1. FbInv => EscalationIsNotLost BY DEF FbInv
<1>2. QED BY <1>1, FallbackInvariant, PTL

-----------------------------------------------------------------------------
(* The pipeline. *)

(* Typing of the pipeline's own variables. *)
PipeTypeOK ==
    /\ pc \in [Threads -> InFlightPcs \cup OutsidePcs]
    /\ checked \in [Threads -> BOOLEAN]
    /\ task \in [Threads -> Tasks]
    /\ plan \in [Threads -> Seq(Actions)]
    /\ multi \in [Threads -> BOOLEAN]
    /\ exc \in [Threads -> Exceptions]
    /\ consent \in BOOLEAN

(* While an action is at the gate or on its way to its handler it is the   *)
(* head of the plan.                                                       *)
GatePcs == {"gate", "gateMode", "gateConsent", "approval", "toExecuting",
            "charge", "dispatch"}

PlannedAction == \A t \in Threads : pc[t] \in GatePcs => plan[t] # << >>

(* Only a GovernorError is escalated. *)
EscalatesGovernorErrors ==
    \A t \in Threads : pc[t] = "escalate" => GovernorRaised(t)

EngInv == PipeTypeOK /\ PlannedAction /\ EscalatesGovernorErrors

(* Sequences the pipeline builds. *)
LEMMA PlanTail ==
    ASSUME NEW s \in Seq(Actions), s # << >>
    PROVE  Tail(s) \in Seq(Actions)
OBVIOUS

(* The plan of a single action is a non-empty sequence of actions. *)
LEMMA PlanOne ==
    ASSUME NEW a \in Actions
    PROVE  <<a>> \in Seq(Actions) /\ <<a>> # << >>
OBVIOUS

(* A multi-step proposal is a sequence of actions. *)
LEMMA PlanMany ==
    ASSUME NEW n \in 0..MaxSteps, NEW s \in [1..n -> Actions]
    PROVE  s \in Seq(Actions)
BY MaxStepsAssumption

(* Plans stay plans when the head is taken off. *)
LEMMA PlanAdvances ==
    ASSUME plan \in [Threads -> Seq(Actions)], NEW t \in Threads,
           plan[t] # << >>, plan' = [plan EXCEPT ![t] = Tail(plan[t])]
    PROVE  plan' \in [Threads -> Seq(Actions)]
<1>1. Tail(plan[t]) \in Seq(Actions) BY PlanTail
<1>2. QED BY <1>1

(* The empty task is a task. *)
LEMMA NoTaskType == NoTask \in Tasks
BY DEF NoTask, Tasks

(* The invariant holds initially. *)
LEMMA EngInitInv == Init => EngInv
<1>1. << >> \in Seq(Actions) OBVIOUS
<1>2. QED
   BY <1>1, NoTaskType
      DEF Init, EngInv, PipeTypeOK, PlannedAction, EscalatesGovernorErrors,
          InFlightPcs, StepPcs, OutsidePcs, Exceptions, GatePcs

(* Every step of the threads keeps it. *)
LEMMA EngNextInv == EngInv /\ [Next]_vars => EngInv'
<1> SUFFICES ASSUME EngInv, [Next]_vars PROVE EngInv'
    OBVIOUS
<1> USE DEF EngInv, PipeTypeOK, PlannedAction, EscalatesGovernorErrors,
            GovernorRaised, GatePcs, InFlightPcs, StepPcs, OutsidePcs,
            Exceptions
<1>1. ASSUME NEW t \in Threads, Submit(t) PROVE EngInv'
      BY <1>1 DEF Submit, Goto
<1>2. ASSUME NEW t \in Threads, EvaluateFallbacks(t) PROVE EngInv'
      BY <1>2 DEF EvaluateFallbacks
<1>3. ASSUME NEW t \in Threads, FireGovernor(t) PROVE EngInv'
      BY <1>3 DEF FireGovernor, engVars
<1>4. ASSUME NEW t \in Threads, FireMode(t) PROVE EngInv'
      BY <1>4, NoTaskType DEF FireMode, AfterFire, AfterHalt, FirePcs
<1>5. ASSUME NEW t \in Threads, Begin(t) PROVE EngInv'
  <2>1. CASE pc' = [pc EXCEPT ![t] = "toGating"] /\ UNCHANGED task
        BY <1>5, <2>1 DEF Begin
  <2>2. CASE pc' = [pc EXCEPT ![t] = "idle"] /\ task' = [task EXCEPT ![t] = NoTask]
        BY <1>5, <2>2, NoTaskType DEF Begin
  <2> QED BY <1>5, <2>1, <2>2 DEF Begin
<1>6. ASSUME NEW t \in Threads, CheckDeadline(t) PROVE EngInv'
      BY <1>6 DEF CheckDeadline, Raise
<1>7. ASSUME NEW t \in Threads, GovernorStep(t) PROVE EngInv'
  <2>1. CASE /\ pc' = [pc EXCEPT ![t] = AfterStep(t)]
             /\ checked' = [checked EXCEPT ![t] = FALSE]
             /\ UNCHANGED <<task, plan, multi, exc, consent>>
    <3>1. AfterStep(t) \in {"policy", "decide", "nextStep", "charge", "end"}
          BY DEF AfterStep
    <3>2. AfterStep(t) = "charge" => pc[t] = "toExecuting"
          BY DEF AfterStep
    <3>3. pc[t] \in StepPcs
          BY <1>7 DEF GovernorStep
    <3> QED BY <2>1, <3>1, <3>2, <3>3
  <2>2. CASE Raise(t, "runaway_loop")
        BY <1>7, <2>2 DEF GovernorStep, Raise
  <2> QED BY <1>7, <2>1, <2>2 DEF GovernorStep
<1>8. ASSUME NEW t \in Threads, Charge(t) PROVE EngInv'
      BY <1>8 DEF Charge, Raise
<1>9. ASSUME NEW t \in Threads, EvaluatePolicy(t) PROVE EngInv'
      BY <1>9 DEF EvaluatePolicy
<1>10. ASSUME NEW t \in Threads, ReportBlock(t) PROVE EngInv'
       BY <1>10 DEF ReportBlock
<1>11. ASSUME NEW t \in Threads, Decide(t) PROVE EngInv'
  <2>1. CASE UNCHANGED <<plan, multi>> /\ pc' = [pc EXCEPT ![t] = "nothingToIdle"]
        BY <1>11, <2>1 DEF Decide
  <2>2. ASSUME NEW a \in ProposedActions, plan' = [plan EXCEPT ![t] = <<a>>],
               multi' = [multi EXCEPT ![t] = FALSE],
               pc' = [pc EXCEPT ![t] = "gate"]
        PROVE  EngInv'
    <3>1. <<a>> \in Seq(Actions) /\ <<a>> # << >> BY PlanOne DEF Actions, ProposedActions
    <3>2. QED BY <1>11, <2>2, <3>1 DEF Decide
  <2>3. ASSUME NEW n \in 0..MaxSteps, NEW s \in [1..n -> Actions],
               plan' = [plan EXCEPT ![t] = s],
               multi' = [multi EXCEPT ![t] = TRUE],
               pc' = [pc EXCEPT ![t] = "toMulti"]
        PROVE  EngInv'
    <3>1. s \in Seq(Actions) BY PlanMany
    <3>2. QED BY <1>11, <2>3, <3>1 DEF Decide
  <2>4. QED BY <1>11, <2>1, <2>2, <2>3 DEF Decide
<1>12. ASSUME NEW t \in Threads, NextPlanned(t) PROVE EngInv'
  <2>1. plan' \in [Threads -> Seq(Actions)]
        BY <1>12, PlanAdvances DEF NextPlanned
  <2>2. QED BY <1>12, <2>1 DEF NextPlanned
<1>13. ASSUME NEW t \in Threads, pc[t] \in GatePcs, Refuse(t) \/ Pass(t),
              GateUnchanged
       PROVE  EngInv'
  <2>1. plan' \in [Threads -> Seq(Actions)]
        BY <1>13, PlanAdvances DEF Refuse, Pass
  <2>2. QED BY <1>13, <2>1 DEF Refuse, Pass, GateUnchanged
<1>14. ASSUME NEW t \in Threads, GateInvariants(t) PROVE EngInv'
  <2>1. CASE Refuse(t) \/ Pass(t)
        BY <1>13, <1>14, <2>1 DEF GateInvariants
  <2>2. CASE ~(Refuse(t) \/ Pass(t))
        BY <1>14, <2>2 DEF GateInvariants, GateUnchanged
  <2>3. QED BY <2>1, <2>2
<1>15. ASSUME NEW t \in Threads, GateMode(t) PROVE EngInv'
  <2>1. CASE Refuse(t)
        BY <1>13, <1>15, <2>1 DEF GateMode
  <2>2. CASE ~Refuse(t)
        BY <1>15, <2>2 DEF GateMode, GateUnchanged
  <2>3. QED BY <2>1, <2>2
<1>16. ASSUME NEW t \in Threads, GateConsent(t) PROVE EngInv'
  <2>1. CASE Refuse(t)
        BY <1>13, <1>16, <2>1 DEF GateConsent
  <2>2. CASE ~Refuse(t)
        BY <1>16, <2>2 DEF GateConsent, GateUnchanged
  <2>3. QED BY <2>1, <2>2
<1>17. ASSUME NEW t \in Threads, Approval(t) PROVE EngInv'
       BY <1>13, <1>17 DEF Approval
<1>18. ASSUME NEW t \in Threads, Dispatch(t) PROVE EngInv'
  <2>1. plan' \in [Threads -> Seq(Actions)]
        BY <1>18, PlanAdvances DEF Dispatch
  <2>2. QED BY <1>18, <2>1 DEF Dispatch, GateUnchanged
<1>19. ASSUME NEW t \in Threads, Fail(t) PROVE EngInv'
       BY <1>19 DEF Fail, Raise
<1>20. ASSUME NEW t \in Threads, End(t) PROVE EngInv'
       BY <1>20, NoTaskType DEF End
<1>21. ASSUME NEW t \in Threads, Escalate(t) PROVE EngInv'
       BY <1>21 DEF Escalate
<1>22. CASE UNCHANGED engVars
       BY <1>22 DEF engVars
<1>23. CASE ConsentChanges
       BY <1>23 DEF ConsentChanges
<1>24. CASE UNCHANGED vars
       BY <1>22, <1>24 DEF vars
<1>25. ASSUME NEW t \in Threads, Work(t) PROVE EngInv'
       BY <1>2, <1>3, <1>4, <1>5, <1>6, <1>7, <1>8, <1>9, <1>10, <1>11,
          <1>12, <1>14, <1>15, <1>16, <1>17, <1>18, <1>19, <1>20, <1>21,
          <1>25, Zenon DEF Work
<1>26. QED
       BY <1>1, <1>22, <1>23, <1>24, <1>25
          DEF Next, MonitorReports, OperatorResumes, ClockAdvances
(* The pipeline's own variables keep their types. *)
THEOREM PipelineTypes == Spec => []EngInv
BY EngInitInv, EngNextInv, PTL DEF Spec

-----------------------------------------------------------------------------
(* Each step of a thread, a monitor or an operator is a step of the        *)
(* fallback controller's specification or leaves it alone.                 *)
LEMMA EngStepIsFbStep == EngInv /\ [Next]_vars => [FbNext]_fbAll
<1> SUFFICES ASSUME EngInv, [Next]_vars PROVE [FbNext]_fbAll
    OBVIOUS
<1> USE ThreadsAssumption
<1>1. CASE UNCHANGED fbVars /\ UNCHANGED govVars
      BY <1>1 DEF fbAll
<1>2. CASE UNCHANGED fbVars /\ (TaskCall \/ Time)
      BY <1>2 DEF FbNext
<1>3. ASSUME NEW p \in Procs, NotifyGovernor(p) PROVE FbNext
      BY <1>3 DEF FbNext
<1>4. ASSUME NEW p \in Procs, NEW k \in Kinds, ReportViolation(p, k),
             UNCHANGED govVars
      PROVE  FbNext
      BY <1>4 DEF FbNext
<1>5. ASSUME NEW p \in Procs, AssignMode(p), UNCHANGED govVars PROVE FbNext
      BY <1>5 DEF FbNext
<1>6. ASSUME NEW t \in Threads, Begin(t) \/ GovernorStep(t) \/ Charge(t) \/ End(t)
      PROVE  [FbNext]_fbAll
  <2>1. StepTarget(t) \in AgentState BY DEF StepTarget, AgentState
  <2>2. UNCHANGED fbVars /\ (UNCHANGED govVars \/ TaskCall)
        BY <1>6, <2>1 DEF Begin, GovernorStep, Charge, End, TaskCall
  <2>3. QED BY <1>1, <1>2, <2>2
<1>7. ASSUME NEW t \in Threads, EvaluateFallbacks(t) PROVE FbNext
  <2>1. PICK b \in BOOLEAN, l \in BOOLEAN : Evaluate(t, b, l)
        BY <1>7 DEF EvaluateFallbacks
  <2>2. UNCHANGED govVars BY <1>7 DEF EvaluateFallbacks
  <2>3. QED BY <2>1, <2>2 DEF FbNext
<1>8. ASSUME NEW t \in Threads, ReportBlock(t) PROVE FbNext
      BY <1>4, <1>8 DEF ReportBlock, Kinds, EngineKinds
<1>9. ASSUME NEW t \in Threads, Escalate(t) PROVE FbNext
  <2>1. exc[t] \in Kinds
        BY <1>9 DEF Escalate, EngInv, EscalatesGovernorErrors, GovernorRaised,
                    Kinds, EngineKinds
  <2>2. QED BY <1>4, <1>9, <2>1 DEF Escalate
<1>10. ASSUME NEW t \in Threads, FireGovernor(t) \/ FireMode(t) PROVE FbNext
       BY <1>3, <1>5, <1>10 DEF FireGovernor, FireMode
<1>11. ASSUME NEW t \in Threads,
              Submit(t) \/ CheckDeadline(t) \/ EvaluatePolicy(t) \/ Decide(t)
              \/ NextPlanned(t) \/ GateInvariants(t) \/ GateMode(t)
              \/ GateConsent(t) \/ Approval(t) \/ Dispatch(t) \/ Fail(t)
       PROVE  [FbNext]_fbAll
  <2>1. UNCHANGED fbVars /\ UNCHANGED govVars
        BY <1>11 DEF Submit, CheckDeadline, EvaluatePolicy, Decide,
           NextPlanned, GateInvariants, GateMode, GateConsent, Approval,
           Dispatch, Fail, GateUnchanged
  <2>2. QED BY <1>1, <2>1
<1>12. ASSUME NEW p \in Procs, MonitorReports(p) PROVE FbNext
       BY <1>3, <1>4, <1>5, <1>12 DEF MonitorReports, Kinds
<1>13. ASSUME NEW o \in Operators, OperatorResumes(o) PROVE FbNext
       BY <1>13 DEF OperatorResumes, FbNext
<1>14. CASE ConsentChanges \/ ClockAdvances
       BY <1>1, <1>2, <1>14 DEF ConsentChanges, ClockAdvances
<1>15. CASE UNCHANGED vars
       BY <1>1, <1>15 DEF vars
<1>16. ASSUME NEW t \in Threads, Work(t) PROVE [FbNext]_fbAll
       BY <1>6, <1>7, <1>8, <1>9, <1>10, <1>11, <1>16 DEF Work
<1>17. QED
       BY <1>11, <1>12, <1>13, <1>14, <1>15, <1>16 DEF Next

(* The threads use the controller and the governor only as their           *)
(* specifications allow, so the pipeline implements both and inherits what *)
(* is proved of them.                                                      *)
THEOREM EngineImplementsFallbacks == Spec => FbSpec
<1>1. Init => FbInit BY DEF Init
<1>2. QED BY <1>1, PipelineTypes, EngStepIsFbStep, PTL DEF Spec, FbSpec

(* The same, down to the governor. *)
THEOREM EngineImplementsGovernor == Spec => GovSpec
BY EngineImplementsFallbacks, FallbacksImplementGovernor, PTL

(* Typing of the whole state. *)
THEOREM EngineTypes == Spec => []TypeOK
<1>1. EngInv /\ FbTypeOK => TypeOK BY DEF EngInv, PipeTypeOK, TypeOK
<1>2. QED BY <1>1, PipelineTypes, EngineImplementsFallbacks, FallbackTypes, PTL

(* What is proved of the governor and of the controller by themselves      *)
(* therefore holds of the engine: no report is lost on its way to the      *)
(* governor, a latch shows only when no task runs, a halted governor stays *)
(* so and only a resume releases a latch, with any number of threads.      *)
THEOREM EngineKeepsTheGuarantees ==
    Spec => /\ []EscalationIsNotLost /\ []LatchShown
            /\ HaltedIsTerminal /\ LatchIsReleasedByResumeOnly
BY EngineImplementsFallbacks, EngineImplementsGovernor,
   EscalationsReachTheGovernor, GovernorShowsItsLatch,
   HaltedGovernorStaysHalted, LatchSurvivesTasks, PTL

-----------------------------------------------------------------------------
(* The governor is free of any task. *)
GovFree ==
    /\ ~started /\ stepsUsed = 0
    /\ state = IF latched # NoLatch THEN latched ELSE "IDLE"

(* A latch or a resume leaves a free governor free. *)
LEMMA FreeStaysFree ==
    ASSUME GovFree,
           \/ \E m \in LatchModes : Latch(m)
           \/ Resume \/ Time
           \/ UNCHANGED govVars
    PROVE  GovFree'
<1>1. CASE \E m \in LatchModes : Latch(m)
      BY <1>1 DEF GovFree, Latch, LatchModes, NoLatch, govVars
<1>2. CASE Resume
      BY <1>2 DEF GovFree, Resume, NoLatch
<1>3. CASE Time
      BY <1>3 DEF GovFree, Time, DeadlinePasses, StallPasses
<1>4. CASE UNCHANGED govVars
      BY <1>4 DEF GovFree, govVars
<1>5. QED BY <1>1, <1>2, <1>3, <1>4

(* end_task frees the governor. *)
LEMMA EndFrees == EndTask => GovFree'
BY DEF EndTask, GovFree, NoLatch

(* Which steps can change the governor while no task is in flight: none of *)
(* a task's own, except that of a task that begins.                        *)
LEMMA QuietStep ==
    EngInv /\ QuietGovernorIsFree /\ [Next]_vars => QuietGovernorIsFree'
<1> SUFFICES ASSUME EngInv, QuietGovernorIsFree, [Next]_vars,
                    \A t \in Threads : ~InFlight(t)'
             PROVE  GovFree'
    BY DEF QuietGovernorIsFree, GovFree
<1> USE DEF InFlight, InFlightPcs, StepPcs
<1> DEFINE Frame == \/ \E m \in LatchModes : Latch(m)
                    \/ Resume \/ Time
                    \/ UNCHANGED govVars
<1>1. ASSUME UNCHANGED pc, Frame PROVE GovFree'
  <2>1. GovFree BY <1>1 DEF QuietGovernorIsFree, GovFree
  <2>2. QED BY <1>1, <2>1, FreeStaysFree
<1>2. ASSUME NEW t \in Threads, Frame, ~InFlight(t),
             pc' = [pc EXCEPT ![t] = pc'[t]]
      PROVE  GovFree'
  <2>1. \A u \in Threads : u # t => pc'[u] = pc[u]
        BY <1>2 DEF EngInv, PipeTypeOK
  <2>2. \A u \in Threads : ~InFlight(u)
        BY <1>2, <2>1
  <2>3. GovFree BY <2>2 DEF QuietGovernorIsFree, GovFree
  <2>4. QED BY <1>2, <2>3, FreeStaysFree
<1>3. ASSUME NEW t \in Threads, Submit(t) PROVE GovFree'
  <2>1. UNCHANGED govVars /\ ~InFlight(t) /\ pc' = [pc EXCEPT ![t] = pc'[t]]
        BY <1>3 DEF Submit, Goto, EngInv, PipeTypeOK
  <2>2. QED BY <1>2, <2>1
<1>4. ASSUME NEW t \in Threads, EvaluateFallbacks(t) \/ Escalate(t) PROVE GovFree'
  <2>1. UNCHANGED govVars /\ ~InFlight(t) /\ pc' = [pc EXCEPT ![t] = pc'[t]]
        BY <1>4 DEF EvaluateFallbacks, Escalate, EngInv, PipeTypeOK
  <2>2. QED BY <1>2, <2>1
<1>5. ASSUME NEW t \in Threads, FireGovernor(t) PROVE GovFree'
  <2>1. UNCHANGED pc BY <1>5 DEF FireGovernor, engVars
  <2>2. Frame BY <1>5, LatchOfMode DEF FireGovernor, NotifyGovernor
  <2>3. QED BY <1>1, <2>1, <2>2
<1>6. ASSUME NEW t \in Threads, FireMode(t) PROVE GovFree'
  <2>1. UNCHANGED govVars /\ pc' = [pc EXCEPT ![t] = pc'[t]]
        BY <1>6 DEF FireMode, EngInv, PipeTypeOK
  <2>2. ~InFlight(t)
        BY <1>6 DEF FireMode, FirePcs, AfterFire, AfterHalt, EngInv, PipeTypeOK
  <2>3. QED BY <1>2, <2>1, <2>2
<1>7. ASSUME NEW t \in Threads, Begin(t) PROVE GovFree'
  <2>1. /\ pc[t] = "begin" /\ pc' = [pc EXCEPT ![t] = "idle"]
        /\ UNCHANGED govVars
        BY <1>7 DEF Begin, EngInv, PipeTypeOK
  <2>2. ~InFlight(t) /\ pc' = [pc EXCEPT ![t] = pc'[t]]
        BY <2>1 DEF EngInv, PipeTypeOK
  <2>3. QED BY <1>2, <2>1, <2>2
<1>8. ASSUME NEW t \in Threads, End(t) PROVE GovFree'
      BY <1>8, EndFrees DEF End
<1>9. ASSUME NEW t \in Threads,
             \/ CheckDeadline(t) \/ GovernorStep(t) \/ Charge(t)
             \/ EvaluatePolicy(t) \/ ReportBlock(t) \/ Decide(t)
             \/ NextPlanned(t) \/ GateInvariants(t) \/ GateMode(t)
             \/ GateConsent(t) \/ Approval(t) \/ Dispatch(t) \/ Fail(t)
      PROVE  FALSE
  <2>1. pc'[t] \in InFlightPcs
    <3> USE DEF EngInv, PipeTypeOK
    <3>1. CASE CheckDeadline(t) \/ Charge(t) \/ Fail(t)
          BY <3>1 DEF CheckDeadline, Charge, Fail, Raise
    <3>2. CASE GovernorStep(t)
          BY <3>2 DEF GovernorStep, AfterStep, Raise
    <3>3. CASE EvaluatePolicy(t) \/ ReportBlock(t) \/ Decide(t) \/ NextPlanned(t)
          BY <3>3 DEF EvaluatePolicy, ReportBlock, Decide, NextPlanned
    <3>4. CASE GateInvariants(t) \/ GateMode(t) \/ GateConsent(t) \/ Approval(t)
          BY <3>4 DEF GateInvariants, GateMode, GateConsent, Approval, Refuse, Pass
    <3>5. CASE Dispatch(t) BY <3>5 DEF Dispatch
    <3>6. QED BY <1>9, <3>1, <3>2, <3>3, <3>4, <3>5
  <2>2. QED BY <2>1
<1>10. ASSUME NEW p \in Procs, MonitorReports(p) PROVE GovFree'
  <2>1. UNCHANGED pc BY <1>10 DEF MonitorReports, engVars
  <2>2. Frame BY <1>10, LatchOfMode DEF MonitorReports, NotifyGovernor
  <2>3. QED BY <1>1, <2>1, <2>2
<1>11. ASSUME NEW o \in Operators, OperatorResumes(o) PROVE GovFree'
  <2>1. UNCHANGED pc BY <1>11 DEF OperatorResumes, engVars
  <2>2. Frame BY <1>11 DEF OperatorResumes, OperatorNext, ResumeGovernor
  <2>3. QED BY <1>1, <2>1, <2>2
<1>12. CASE ConsentChanges \/ ClockAdvances \/ UNCHANGED vars
  <2>1. UNCHANGED pc /\ Frame
        BY <1>12 DEF ConsentChanges, ClockAdvances, engVars, vars
  <2>2. QED BY <1>1, <2>1
<1>13. ASSUME NEW t \in Threads, Work(t) PROVE GovFree'
       BY <1>4, <1>5, <1>6, <1>7, <1>8, <1>9, <1>13 DEF Work
<1>14. QED
       BY <1>3, <1>10, <1>11, <1>12, <1>13 DEF Next

(* However many threads overlap in execute_task and however they unwind,   *)
(* the governor is free once the last one has returned.                    *)
THEOREM GovernorIsGivenBack == Spec => []QuietGovernorIsFree
<1>1. Init => QuietGovernorIsFree
      BY DEF Init, FbInit, GovInit, QuietGovernorIsFree, NoLatch
<1>2. QED BY <1>1, QuietStep, PipelineTypes, PTL DEF Spec
-----------------------------------------------------------------------------
(* Where the governor stands while a task is at a given pc: the pipeline's *)
(* own calls put it there, and the latches, resumes and clocks of others   *)
(* leave the state of a started task alone.                                *)
AtStage(t) ==
    /\ pc[t] = "toGating" => state = "OBSERVING"
    /\ pc[t] \in {"policy", "policyReport", "policyFire", "blockToIdle",
                  "toDeciding"} => state = "GATING"
    /\ pc[t] \in {"decide", "nothingToIdle", "toMulti", "gateToIdle",
                  "toExecuting"} => state = "DECIDING"
    /\ pc[t] \in {"gate", "gateMode", "gateConsent", "approval"} =>
         state = IF multi[t] THEN "EXECUTING" ELSE "DECIDING"
    /\ pc[t] \in {"nextStep", "charge", "dispatch", "toEvaluating"} =>
         state = "EXECUTING"
    /\ pc[t] \in {"toMulti", "nextStep"} => multi[t]

StageInv ==
    \A t \in Threads : /\ InFlight(t) => started /\ AtStage(t)
                       /\ exc[t] # "runaway_loop"

(* A latch, a resume or the clock leaves the governor where a task in      *)
(* flight has put it.                                                      *)
LEMMA StageIsKept ==
    ASSUME StageInv, UNCHANGED <<pc, multi, exc>>,
           \/ \E m \in LatchModes : Latch(m)
           \/ Resume \/ Time
           \/ UNCHANGED govVars
    PROVE  StageInv'
<1> SUFFICES ASSUME NEW t \in Threads
             PROVE  /\ InFlight(t)' => started' /\ AtStage(t)'
                    /\ exc'[t] # "runaway_loop"
    BY Zenon DEF StageInv
<1>1. InFlight(t)' = InFlight(t) /\ exc'[t] = exc[t] BY DEF InFlight
<1>2. exc[t] # "runaway_loop" /\ (InFlight(t) => started /\ AtStage(t))
      BY DEF StageInv
<1>3. SUFFICES ASSUME InFlight(t) PROVE started' /\ AtStage(t)'
      BY <1>1, <1>2
<1>4. started /\ AtStage(t) BY <1>2, <1>3
<1>5. CASE UNCHANGED <<state, started>>
      BY <1>4, <1>5 DEF AtStage
<1>6. CASE Resume
  <2>1. pc[t] = "end" BY <1>3, <1>4, <1>6
        DEF Resume, MayResume, AtStage, InFlight, InFlightPcs, StepPcs
  <2>2. QED BY <1>4, <1>6, <2>1 DEF Resume, AtStage
<1>7. CASE \E m \in LatchModes : Latch(m)
      BY <1>4, <1>5, <1>7 DEF Latch, govVars
<1>8. CASE Time \/ UNCHANGED govVars
      BY <1>5, <1>8 DEF Time, DeadlinePasses, StallPasses, govVars
<1>9. QED BY <1>6, <1>7, <1>8

(* With tasks that do not overlap, a step of one thread needs to be looked *)
(* at for that thread only: while another one is in flight it leaves the   *)
(* governor alone.                                                         *)
LEMMA StageOfOthers ==
    ASSUME EngInv, StageInv, OneTaskAtATime, OneTaskAtATime',
           NEW t \in Threads,
           pc' = [pc EXCEPT ![t] = pc'[t]],
           \A u \in Threads : u # t => multi'[u] = multi[u] /\ exc'[u] = exc[u],
           InFlight(t) \/ InFlight(t)' \/ UNCHANGED <<state, started>>,
           InFlight(t)' => started' /\ AtStage(t)',
           exc'[t] # "runaway_loop"
    PROVE  StageInv'
<1> SUFFICES ASSUME NEW u \in Threads, u # t
             PROVE  /\ InFlight(u)' => started' /\ AtStage(u)'
                    /\ exc'[u] # "runaway_loop"
    BY Zenon DEF StageInv
<1>1. pc'[u] = pc[u] BY DEF EngInv, PipeTypeOK
<1>2. exc'[u] # "runaway_loop" BY DEF StageInv
<1>3. SUFFICES ASSUME InFlight(u)' PROVE started' /\ AtStage(u)'
      BY <1>2
<1>4. InFlight(u) BY <1>1, <1>3 DEF InFlight
<1>5. ~InFlight(t) BY <1>4 DEF OneTaskAtATime
<1>6. ~InFlight(t)' BY <1>3 DEF OneTaskAtATime
<1>7. UNCHANGED <<state, started>> BY <1>5, <1>6
<1>8. started /\ AtStage(u) BY <1>4 DEF StageInv
<1>9. QED BY <1>1, <1>7, <1>8 DEF AtStage

(* Every step of a serialized task finds the governor where it expects it. *)
LEMMA StageStep ==
    EngInv /\ StageInv /\ OneTaskAtATime /\ OneTaskAtATime' /\ [Next]_vars
        => StageInv'
<1> SUFFICES ASSUME EngInv, StageInv, OneTaskAtATime, OneTaskAtATime',
                    [Next]_vars
             PROVE  StageInv'
    OBVIOUS
<1> DEFINE Frame == \/ \E m \in LatchModes : Latch(m)
                    \/ Resume \/ Time
                    \/ UNCHANGED govVars
           Own(t) == /\ pc' = [pc EXCEPT ![t] = pc'[t]]
                     /\ \A u \in Threads : u # t =>
                          multi'[u] = multi[u] /\ exc'[u] = exc[u]
                     /\ \/ InFlight(t) \/ InFlight(t)'
                        \/ UNCHANGED <<state, started>>
                     /\ InFlight(t)' => started' /\ AtStage(t)'
                     /\ exc'[t] # "runaway_loop"
<1>1. ASSUME NEW t \in Threads, Own(t) PROVE StageInv'
      BY <1>1, StageOfOthers
<1>2. ASSUME UNCHANGED <<pc, multi, exc>>, Frame PROVE StageInv'
      BY <1>2, StageIsKept
<1> HIDE DEF Frame
<1>3. ASSUME NEW t \in Threads
      PROVE  /\ exc[t] # "runaway_loop"
             /\ InFlight(t) => started /\ AtStage(t)
      BY DEF StageInv
<1> USE DEF InFlight, InFlightPcs, StepPcs, OutsidePcs, govVars
<1>4. ASSUME NEW t \in Threads, Submit(t) \/ EvaluateFallbacks(t) \/ Escalate(t)
      PROVE  Own(t)
  <2>1. exc[t] # "runaway_loop" BY <1>3
  <2>2. QED BY <1>4, <2>1 DEF Submit, Goto, EvaluateFallbacks, Escalate, EngInv,
            PipeTypeOK
<1>5. ASSUME NEW t \in Threads, FireGovernor(t) PROVE StageInv'
  <2>1. UNCHANGED <<pc, multi, exc>> BY <1>5 DEF FireGovernor, engVars
  <2>2. Frame BY <1>5, LatchOfMode DEF FireGovernor, NotifyGovernor, Frame
  <2>3. QED BY <1>2, <2>1, <2>2
<1>6. ASSUME NEW t \in Threads, FireMode(t) PROVE Own(t)
  <2>1. pc[t] \in FirePcs /\ UNCHANGED <<state, started, multi>>
        BY <1>6 DEF FireMode
  <2>2. /\ pc' = [pc EXCEPT ![t] = pc'[t]]
        /\ \A u \in Threads : u # t => multi'[u] = multi[u] /\ exc'[u] = exc[u]
        BY <1>6 DEF FireMode, EngInv, PipeTypeOK
  <2>3. exc'[t] \in {"halt", "none", exc[t]}
        BY <1>6 DEF FireMode, EngInv, PipeTypeOK
  <2>4. pc'[t] \in {pc[t], AfterHalt(t), AfterFire(t)}
        BY <1>6 DEF FireMode, EngInv, PipeTypeOK
  <2>5. InFlight(t)' => pc[t] = "policyFire"
                        /\ pc'[t] \in {"policyFire", "blockToIdle", "end"}
        BY <2>1, <2>4 DEF FirePcs, AfterHalt, AfterFire
  <2>6. InFlight(t)' => started' /\ AtStage(t)'
    <3>1. SUFFICES ASSUME InFlight(t)' PROVE started' /\ AtStage(t)'
          OBVIOUS
    <3>2. started /\ state = "GATING" BY <1>3, <2>5, <3>1 DEF AtStage
    <3>3. QED BY <2>1, <2>5, <3>1, <3>2 DEF AtStage
  <2>7. QED BY <1>3, <2>1, <2>2, <2>3, <2>6
<1>7. ASSUME NEW t \in Threads, Begin(t) PROVE Own(t)
      BY <1>3, <1>7 DEF Begin, BeginTask, EngInv, PipeTypeOK, AtStage
<1>8. ASSUME NEW t \in Threads, CheckDeadline(t) PROVE Own(t)
  <2>1. InFlight(t) /\ started /\ AtStage(t) BY <1>3, <1>8 DEF CheckDeadline
  <2>2. QED BY <1>3, <1>8, <2>1
            DEF CheckDeadline, Raise, EngInv, PipeTypeOK, AtStage
<1>9. ASSUME NEW t \in Threads, GovernorStep(t) PROVE Own(t)
  <2>1. pc[t] \in StepPcs /\ started /\ AtStage(t) BY <1>3, <1>9 DEF GovernorStep
  <2>2. MayStep(StepTarget(t))
        BY <2>1 DEF MayStep, StepTarget, Allowed, AtStage
  <2>3. /\ state' = StepTarget(t) /\ UNCHANGED <<started, multi, exc>>
        /\ pc' = [pc EXCEPT ![t] = AfterStep(t)]
        BY <1>9, <2>2 DEF GovernorStep, Step
  <2>4. pc'[t] = AfterStep(t) BY <2>3 DEF EngInv, PipeTypeOK
  <2>5. AtStage(t)' BY <2>1, <2>3, <2>4 DEF StepTarget, AfterStep, AtStage
  <2>6. QED BY <1>3, <2>1, <2>3, <2>4, <2>5
<1>10. ASSUME NEW t \in Threads, Charge(t) PROVE Own(t)
  <2>1. InFlight(t) /\ started /\ AtStage(t) BY <1>3, <1>10 DEF Charge
  <2>2. QED BY <1>3, <1>10, <2>1
            DEF Charge, ConsumeStep, Raise, EngInv, PipeTypeOK, AtStage
<1>11. ASSUME NEW t \in Threads, InFlight(t), UNCHANGED <<govVars, exc>>,
              pc' = [pc EXCEPT ![t] = pc'[t]],
              \A u \in Threads : u # t => multi'[u] = multi[u],
              InFlight(t)', AtStage(t) => AtStage(t)'
       PROVE  Own(t)
       BY <1>3, <1>11
<1>12. ASSUME NEW t \in Threads, EvaluatePolicy(t) \/ ReportBlock(t)
       PROVE  Own(t)
  <2>1. InFlight(t) /\ AtStage(t)
        BY <1>3, <1>12 DEF EvaluatePolicy, ReportBlock
  <2>2. /\ UNCHANGED <<govVars, exc, multi>>
        /\ pc' = [pc EXCEPT ![t] = pc'[t]]
        /\ state = "GATING"
        /\ pc'[t] \in {"policyReport", "policyFire", "blockToIdle", "toDeciding"}
        BY <1>12, <2>1 DEF EvaluatePolicy, ReportBlock, EngInv, PipeTypeOK, AtStage
  <2>3. AtStage(t)' BY <2>2 DEF AtStage
  <2>4. QED BY <1>11, <2>1, <2>2, <2>3
<1>13. ASSUME NEW t \in Threads, Decide(t) PROVE Own(t)
  <2>1. InFlight(t) /\ AtStage(t) BY <1>3, <1>13 DEF Decide
  <2>2. /\ UNCHANGED <<govVars, exc>>
        /\ pc' = [pc EXCEPT ![t] = pc'[t]]
        /\ \A u \in Threads : u # t => multi'[u] = multi[u]
        /\ state = "DECIDING"
        /\ \/ pc'[t] = "nothingToIdle"
           \/ pc'[t] = "gate" /\ ~multi'[t]
           \/ pc'[t] = "toMulti" /\ multi'[t]
        BY <1>13, <2>1 DEF Decide, EngInv, PipeTypeOK, AtStage
  <2>3. AtStage(t)' BY <2>2 DEF AtStage
  <2>4. QED BY <1>11, <2>1, <2>2, <2>3
<1>14. ASSUME NEW t \in Threads, NextPlanned(t) \/ Dispatch(t) PROVE Own(t)
  <2>1. InFlight(t) /\ AtStage(t) BY <1>3, <1>14 DEF NextPlanned, Dispatch
  <2>2. /\ UNCHANGED <<govVars, exc, multi>>
        /\ pc' = [pc EXCEPT ![t] = pc'[t]]
        /\ state = "EXECUTING"
        /\ \/ pc'[t] \in {"nextStep", "gate"} /\ multi[t]
           \/ pc'[t] = "toEvaluating"
        BY <1>14, <2>1 DEF NextPlanned, Dispatch, GateUnchanged, EngInv,
                           PipeTypeOK, AtStage
  <2>3. AtStage(t)' BY <2>2 DEF AtStage
  <2>4. QED BY <1>11, <2>1, <2>2, <2>3
<1>15. ASSUME NEW t \in Threads, GateInvariants(t) \/ GateMode(t)
                                 \/ GateConsent(t) \/ Approval(t)
       PROVE  Own(t)
  <2>1. InFlight(t) /\ AtStage(t)
        BY <1>3, <1>15 DEF GateInvariants, GateMode, GateConsent, Approval
  <2>2. /\ UNCHANGED <<govVars, exc, multi>>
        /\ state = IF multi[t] THEN "EXECUTING" ELSE "DECIDING"
        BY <1>15, <2>1 DEF GateInvariants, GateMode, GateConsent, Approval,
                           GateUnchanged, AtStage
  <2>3. /\ pc' = [pc EXCEPT ![t] = pc'[t]]
        /\ \/ pc'[t] \in {"gateMode", "gateConsent", "approval"}
           \/ pc'[t] = IF multi[t] THEN "nextStep" ELSE "gateToIdle"
           \/ pc'[t] = IF multi[t] THEN "charge" ELSE "toExecuting"
        BY <1>15 DEF GateInvariants, GateMode, GateConsent, Approval, Refuse,
                     Pass, EngInv, PipeTypeOK
  <2>4. AtStage(t)' BY <2>2, <2>3 DEF AtStage
  <2>5. QED BY <1>11, <2>1, <2>2, <2>3, <2>4
<1>16. ASSUME NEW t \in Threads, Fail(t) PROVE Own(t)
  <2>1. InFlight(t) /\ started BY <1>3, <1>16 DEF Fail
  <2>2. /\ pc'[t] = "end" /\ exc'[t] = "error"
        /\ UNCHANGED <<govVars, multi>>
        /\ pc' = [pc EXCEPT ![t] = pc'[t]]
        /\ \A u \in Threads : u # t => exc'[u] = exc[u]
        BY <1>16 DEF Fail, Raise, EngInv, PipeTypeOK
  <2>3. QED BY <2>1, <2>2 DEF AtStage
<1>17. ASSUME NEW t \in Threads, End(t) PROVE Own(t)
  <2>1. InFlight(t) BY <1>17 DEF End
  <2>2. /\ pc'[t] \in {"escalate", "idle"} /\ exc'[t] \in {exc[t], "none"}
        /\ pc' = [pc EXCEPT ![t] = pc'[t]]
        /\ \A u \in Threads : u # t => multi'[u] = multi[u] /\ exc'[u] = exc[u]
        BY <1>17 DEF End, EngInv, PipeTypeOK
  <2>3. QED BY <1>3, <2>1, <2>2
<1> HIDE DEF Own
<1>18. ASSUME NEW t \in Threads, Submit(t) \/ Work(t) PROVE StageInv'
       BY <1>1, <1>4, <1>5, <1>6, <1>7, <1>8, <1>9, <1>10, <1>12, <1>13,
          <1>14, <1>15, <1>16, <1>17, <1>18, Zenon DEF Work
<1>19. ASSUME NEW p \in Procs, MonitorReports(p) PROVE StageInv'
  <2>1. UNCHANGED <<pc, multi, exc>> BY <1>19 DEF MonitorReports, engVars
  <2>2. Frame BY <1>19, LatchOfMode DEF MonitorReports, NotifyGovernor, Frame
  <2>3. QED BY <1>2, <2>1, <2>2
<1>20. ASSUME NEW o \in Operators, OperatorResumes(o) PROVE StageInv'
  <2>1. UNCHANGED <<pc, multi, exc>> BY <1>20 DEF OperatorResumes, engVars
  <2>2. Frame
        BY <1>20 DEF OperatorResumes, OperatorNext, ResumeGovernor, Frame
  <2>3. QED BY <1>2, <2>1, <2>2
<1>21. CASE ConsentChanges \/ ClockAdvances \/ UNCHANGED vars
  <2>1. UNCHANGED <<pc, multi, exc>> /\ Frame
        BY <1>21 DEF ConsentChanges, ClockAdvances, engVars, vars, Frame
  <2>2. QED BY <1>2, <2>1
<1>22. QED
       BY <1>18, <1>19, <1>20, <1>21 DEF Next

(* Tasks that do not overlap ask the governor only for transitions of its  *)
(* matrix, with any number of callers, whatever monitors and operators     *)
(* latch and resume meanwhile: the runaway-loop refusal of step can only   *)
(* come from overlapping tasks.                                            *)
THEOREM SerializedTasksFollowMatrix ==
    Spec /\ []OneTaskAtATime => []PipelineFollowsMatrix
<1>1. Init => StageInv
      BY DEF Init, StageInv, InFlight, InFlightPcs, StepPcs
<1>2. StageInv => PipelineFollowsMatrix
      BY DEF StageInv, PipelineFollowsMatrix
<1>3. QED BY <1>1, <1>2, StageStep, PipelineTypes, PTL DEF Spec

(* With a single caller tasks cannot overlap, and the hypothesis is void.  *)
THEOREM OneCallerFollowsMatrix ==
    ASSUME \A t, u \in Threads : t = u
    PROVE  Spec => []PipelineFollowsMatrix
<1>1. OneTaskAtATime BY DEF OneTaskAtATime
<1>2. []OneTaskAtATime BY <1>1, PTL
<1>3. QED BY <1>2, SerializedTasksFollowMatrix, PTL
-----------------------------------------------------------------------------
(* A side-effecting action beyond the gate's mode check. *)
Committed(t) ==
    /\ pc[t] \in {"gateConsent", "approval", "toExecuting", "charge", "dispatch"}
    /\ Head(plan[t]) = "gated"

(* It got there through the mode check, which SAFE_STATE does not pass. *)
LEMMA CommitStep ==
    ASSUME EngInv, [Next]_vars, NEW t \in Threads, Committed(t)'
    PROVE  Committed(t) \/ latched # "SAFE_STATE"
<1> USE DEF EngInv, PipeTypeOK, Committed
<1>1. ASSUME UNCHANGED <<pc, plan>> PROVE Committed(t)
      BY <1>1
<1>2. ASSUME NEW u \in Threads, u # t, Submit(u) \/ Work(u) PROVE Committed(t)
  <2>1. pc'[t] = pc[t]
        BY <1>2 DEF Work, Submit, Goto, EvaluateFallbacks, FireGovernor,
           FireMode, Begin, CheckDeadline, GovernorStep, Charge,
           EvaluatePolicy, ReportBlock, Decide, NextPlanned, GateInvariants,
           GateMode, GateConsent, Approval, Dispatch, Fail, End, Escalate,
           Refuse, Pass, Raise, engVars
  <2>2. plan'[t] = plan[t]
        BY <1>2 DEF Work, Submit, EvaluateFallbacks, FireGovernor,
           FireMode, Begin, CheckDeadline, GovernorStep, Charge,
           EvaluatePolicy, ReportBlock, Decide, NextPlanned, GateInvariants,
           GateMode, GateConsent, Approval, Dispatch, Fail, End, Escalate,
           Refuse, Pass, Raise, engVars
  <2>3. QED BY <2>1, <2>2
<1>3. CASE GateMode(t)
  <2>1. CASE Refuse(t) BY <2>1 DEF Refuse
  <2>2. CASE ~Refuse(t)
        BY <1>3, <2>2 DEF GateMode, Mode, NoLatch
  <2>3. QED BY <2>1, <2>2
<1>4. CASE GateInvariants(t)
      BY <1>4 DEF GateInvariants, Refuse, Pass
<1>5. CASE GateConsent(t) \/ Approval(t)
      BY <1>5 DEF GateConsent, Approval, Refuse, Pass
<1>6. CASE CheckDeadline(t) \/ Charge(t) \/ Fail(t)
      BY <1>6 DEF CheckDeadline, Charge, Fail, Raise
<1>7. CASE GovernorStep(t)
      BY <1>7 DEF GovernorStep, AfterStep, Raise, StepPcs
<1>8. CASE FireGovernor(t)
      BY <1>1, <1>8 DEF FireGovernor, engVars
<1>9. CASE \/ Submit(t) \/ EvaluateFallbacks(t) \/ Begin(t)
           \/ EvaluatePolicy(t) \/ ReportBlock(t) \/ Decide(t)
           \/ NextPlanned(t) \/ Dispatch(t) \/ End(t) \/ Escalate(t)
      BY <1>9 DEF Submit, Goto, EvaluateFallbacks, Begin, EvaluatePolicy,
         ReportBlock, Decide, NextPlanned, Dispatch, End, Escalate
<1>10. CASE FireMode(t)
       BY <1>10 DEF FireMode, FirePcs, AfterFire, AfterHalt
<1>11. CASE \/ \E p \in Procs \ Threads : MonitorReports(p)
            \/ \E o \in Operators : OperatorResumes(o)
            \/ ConsentChanges \/ ClockAdvances \/ UNCHANGED vars
       BY <1>1, <1>11 DEF MonitorReports, OperatorResumes, ConsentChanges,
          ClockAdvances, engVars, vars
<1>12. CASE Submit(t) \/ Work(t)
       BY <1>3, <1>4, <1>5, <1>6, <1>7, <1>8, <1>9, <1>10, <1>12 DEF Work
<1>13. QED BY <1>2, <1>11, <1>12 DEF Next

(* What SAFE_STATE has forbidden a task since it began. *)
ReadOnlyInv ==
    /\ readonly \in [Threads -> BOOLEAN]
    /\ \A t \in Threads : readonly[t] => latched = "SAFE_STATE" /\ ~Committed(t)

(* Every step keeps it. *)
LEMMA ReadOnlyStep ==
    EngInv /\ ReadOnlyInv /\ [HNext]_hvars => ReadOnlyInv'
<1> SUFFICES ASSUME EngInv, ReadOnlyInv, [HNext]_hvars PROVE ReadOnlyInv'
    OBVIOUS
<1>1. CASE UNCHANGED hvars
      BY <1>1 DEF hvars, vars, govVars, engVars, ReadOnlyInv, Committed
<1>2. CASE HNext
  <2>1. readonly' \in [Threads -> BOOLEAN] BY <1>2 DEF HNext
  <2>2. ASSUME NEW t \in Threads, readonly'[t] PROVE latched' = "SAFE_STATE"
        BY <1>2, <2>2 DEF HNext
  <2>3. ASSUME NEW t \in Threads, readonly'[t], Committed(t)' PROVE FALSE
    <3>1. ~Begins(t) BY <2>3 DEF Begins, Committed
    <3>2. readonly[t] BY <1>2, <2>3, <3>1 DEF HNext
    <3>3. Committed(t) \/ latched # "SAFE_STATE"
          BY <1>2, <2>3, CommitStep DEF HNext
    <3>4. QED BY <3>2, <3>3 DEF ReadOnlyInv
  <2>4. QED BY <2>1, <2>2, <2>3 DEF ReadOnlyInv
<1>3. QED BY <1>1, <1>2

(* A task begun under SAFE_STATE dispatches no side-effecting action while *)
(* that mode stays latched, however many threads run and whatever they     *)
(* propose.                                                                *)
THEOREM SafeStateTasksAreReadOnly == HSpec => []ReadOnlyTaskHasNoSideEffect
<1>1. HInit => EngInv /\ ReadOnlyInv
  <2>1. HInit => EngInv BY EngInitInv DEF HInit
  <2>2. HInit => ReadOnlyInv BY DEF HInit, ReadOnlyInv
  <2>3. QED BY <2>1, <2>2
<1>2. EngInv /\ [HNext]_hvars => EngInv'
  <2>1. [HNext]_hvars => [Next]_vars BY DEF HNext, hvars
  <2>2. QED BY <2>1, EngNextInv
<1>3. ReadOnlyInv => ReadOnlyTaskHasNoSideEffect
      BY DEF ReadOnlyInv, Committed, ReadOnlyTaskHasNoSideEffect
<1>4. QED BY <1>1, <1>2, <1>3, ReadOnlyStep, PTL DEF HSpec
=============================================================================
