------------------------------- MODULE Engine -------------------------------
(***************************************************************************)
(* DecisionEngine.execute_task of decision_engine.py run by several        *)
(* threads at once (each HTTP request of shugocore_server.py is a thread   *)
(* of its own, the task worker and the autonomy loops are others), over    *)
(* the shared governor and fallback controller.  A thread's pc names the   *)
(* next call it makes on shared state; whatever it computes between two    *)
(* such calls is part of the first.  What the models propose, what the     *)
(* policy invariants say of a task and whether a human approves are inputs.*)
(***************************************************************************)
EXTENDS Fallbacks

CONSTANTS
    Threads,      \* callers of execute_task
    MaxSteps      \* bound on the steps of a multi-step proposal

ASSUME ThreadsAssumption == Threads \subseteq Procs

ASSUME MaxStepsAssumption == MaxSteps \in Nat

VARIABLES
    pc,           \* per thread: the next call
    checked,      \* per thread: _check_deadline passed, lock released
    task,         \* per thread: the task's type and attention state
    plan,         \* per thread: actions of the decision still to be gated
    multi,        \* per thread: decision is a multi_step_process
    exc,          \* per thread: the exception unwinding execute_task
    consent       \* ConsentRegistry.has_grant of the gated action types

engVars == <<pc, checked, task, plan, multi, exc, consent>>
vars == <<govVars, fbVars, engVars>>

(* Actions outside and inside _CONSENT_GATED_ACTION_TYPES; "invalid" is a  *)
(* step of a multi-step proposal that is not an object.                    *)
Actions == {"plain", "gated", "invalid"}

Tasks == [gated: BOOLEAN, away: BOOLEAN]

NoTask == [gated |-> FALSE, away |-> FALSE]

Exceptions == {"none", "step_budget_exhausted", "task_deadline_exceeded",
               "runaway_loop", "halt", "error"}

(* The pcs of _run_gated_task: begin_task has returned, end_task has not.  *)
StepPcs == {"toGating", "blockToIdle", "toDeciding", "nothingToIdle",
            "toMulti", "gateToIdle", "toExecuting", "toEvaluating"}

InFlightPcs == StepPcs \cup
    {"policy", "policyReport", "policyFire", "decide", "nextStep", "gate",
     "gateMode", "gateConsent", "approval", "charge", "dispatch", "end"}

OutsidePcs == {"idle", "evaluate", "evaluateFire", "begin", "escalate",
               "escalateFire"}

InFlight(t) == pc[t] \in InFlightPcs

TypeOK ==
    /\ FbTypeOK
    /\ pc \in [Threads -> InFlightPcs \cup OutsidePcs]
    /\ checked \in [Threads -> BOOLEAN]
    /\ task \in [Threads -> Tasks]
    /\ plan \in [Threads -> Seq(Actions)]
    /\ multi \in [Threads -> BOOLEAN]
    /\ exc \in [Threads -> Exceptions]
    /\ consent \in BOOLEAN

Init ==
    /\ FbInit
    /\ pc = [t \in Threads |-> "idle"]
    /\ checked = [t \in Threads |-> FALSE]
    /\ task = [t \in Threads |-> NoTask]
    /\ plan = [t \in Threads |-> << >>]
    /\ multi = [t \in Threads |-> FALSE]
    /\ exc = [t \in Threads |-> "none"]
    /\ consent = FALSE

-----------------------------------------------------------------------------
Goto(t, from, to) ==
    /\ pc[t] = from
    /\ pc' = [pc EXCEPT ![t] = to]

(* An exception leaves _run_gated_task for the finally clause. *)
Raise(t, e) ==
    /\ pc' = [pc EXCEPT ![t] = "end"]
    /\ exc' = [exc EXCEPT ![t] = e]
    /\ checked' = [checked EXCEPT ![t] = FALSE]
    /\ UNCHANGED <<task, plan, multi, consent>>

Submit(t) ==
    /\ Goto(t, "idle", "evaluate")
    /\ \E k \in Tasks : task' = [task EXCEPT ![t] = k]
    /\ UNCHANGED <<checked, plan, multi, exc, consent>>
    /\ UNCHANGED govVars /\ UNCHANGED fbVars

EvaluateFallbacks(t) ==
    /\ pc[t] = "evaluate"
    /\ \E b, l \in BOOLEAN : Evaluate(t, b, l)
    /\ pc' = [pc EXCEPT ![t] = IF fire'[t] = << >> THEN "begin"
                                                   ELSE "evaluateFire"]
    /\ UNCHANGED <<checked, task, plan, multi, exc, consent>>
    /\ UNCHANGED govVars

(* Where execute_task goes on once _fire has returned, and where           *)
(* FallbackHalt takes it.  Raised while a GovernorError is escalated it    *)
(* escapes execute_task, which otherwise catches it: either way the thread *)
(* is back at its caller, with the governor given back.                    *)
AfterFire(t) ==
    CASE pc[t] = "evaluateFire" -> "begin"
      [] pc[t] = "policyFire"   -> "blockToIdle"
      [] OTHER                  -> "idle"

AfterHalt(t) == IF pc[t] = "policyFire" THEN "end" ELSE "idle"

FirePcs == {"evaluateFire", "policyFire", "escalateFire"}

FireGovernor(t) ==
    /\ pc[t] \in FirePcs
    /\ NotifyGovernor(t)
    /\ UNCHANGED engVars

(* Faulty: the mode is assigned before the governor is notified. *)
FireModeFirst(t) ==
    /\ pc[t] \in FirePcs
    /\ fmode' = ModeOf(Severity[Head(fire[t])])
    /\ fire' = [fire EXCEPT ![t] = << >>]
    /\ notified' = [notified EXCEPT ![t] = FALSE]
    /\ pc' = [pc EXCEPT ![t] = AfterFire(t)]
    /\ UNCHANGED <<checked, task, plan, multi, exc, consent, violations, op>>
    /\ UNCHANGED govVars

FireMode(t) ==
    /\ pc[t] \in FirePcs
    /\ AssignMode(t)
    /\ pc' = [pc EXCEPT ![t] = IF Halts(t) THEN AfterHalt(t)
                               ELSE IF fire'[t] # << >> THEN pc[t]
                               ELSE AfterFire(t)]
    /\ exc' = [exc EXCEPT ![t] =
                 IF Halts(t) /\ pc[t] = "policyFire" THEN "halt"
                 ELSE IF pc'[t] = "idle" THEN "none" ELSE exc[t]]
    /\ task' = [task EXCEPT ![t] = IF pc'[t] = "idle" THEN NoTask ELSE task[t]]
    /\ UNCHANGED <<checked, plan, multi, consent>>
    /\ UNCHANGED govVars

(* Faulty: the task goes on although begin_task has refused it. *)
BeginUnrefused(t) ==
    /\ pc[t] = "begin"
    /\ state' = "OBSERVING" /\ started' = TRUE /\ overdue' = FALSE
    /\ stepsUsed' = 0 /\ progress' = "recent"
    /\ pc' = [pc EXCEPT ![t] = "toGating"]
    /\ UNCHANGED <<latched, task, checked, plan, multi, exc, consent>>
    /\ UNCHANGED fbVars

(* governor.begin_task; a refusal is recorded and returned. *)
Begin(t) ==
    /\ pc[t] = "begin"
    /\ \/ /\ BeginTask
          /\ pc' = [pc EXCEPT ![t] = "toGating"]
          /\ UNCHANGED task
       \/ /\ ~MayBegin
          /\ pc' = [pc EXCEPT ![t] = "idle"]
          /\ task' = [task EXCEPT ![t] = NoTask]
          /\ UNCHANGED govVars
    /\ UNCHANGED <<checked, plan, multi, exc, consent>>
    /\ UNCHANGED fbVars

-----------------------------------------------------------------------------
(* governor.step and consume_step: _check_deadline under the lock, then    *)
(* the transition or the charge under the lock again.                      *)
CheckDeadline(t) ==
    /\ pc[t] \in StepPcs \cup {"charge"}
    /\ ~checked[t]
    /\ \/ /\ ~overdue
          /\ checked' = [checked EXCEPT ![t] = TRUE]
          /\ UNCHANGED <<pc, task, plan, multi, exc, consent>>
       \/ overdue /\ Raise(t, "task_deadline_exceeded")
    /\ UNCHANGED govVars /\ UNCHANGED fbVars

StepTarget(t) ==
    CASE pc[t] = "toGating"                   -> "GATING"
      [] pc[t] = "toDeciding"                 -> "DECIDING"
      [] pc[t] \in {"toMulti", "toExecuting"} -> "EXECUTING"
      [] pc[t] = "toEvaluating"               -> "EVALUATING"
      [] OTHER                                -> "IDLE"

AfterStep(t) ==
    CASE pc[t] = "toGating"    -> "policy"
      [] pc[t] = "toDeciding"  -> "decide"
      [] pc[t] = "toMulti"     -> "nextStep"
      [] pc[t] = "toExecuting" -> "charge"
      [] OTHER                 -> "end"

GovernorStep(t) ==
    /\ pc[t] \in StepPcs
    /\ checked[t]
    /\ \/ /\ Step(StepTarget(t))
          /\ pc' = [pc EXCEPT ![t] = AfterStep(t)]
          /\ checked' = [checked EXCEPT ![t] = FALSE]
          /\ UNCHANGED <<task, plan, multi, exc, consent>>
       \/ /\ ~MayStep(StepTarget(t))
          /\ Raise(t, "runaway_loop")
          /\ UNCHANGED govVars
    /\ UNCHANGED fbVars

Charge(t) ==
    /\ pc[t] = "charge"
    /\ checked[t]
    /\ ConsumeStep
    /\ \/ /\ ~OverBudget
          /\ pc' = [pc EXCEPT ![t] = "dispatch"]
          /\ checked' = [checked EXCEPT ![t] = FALSE]
          /\ UNCHANGED <<task, plan, multi, exc, consent>>
       \/ OverBudget /\ Raise(t, "step_budget_exhausted")
    /\ UNCHANGED fbVars

-----------------------------------------------------------------------------
(* _evaluate_policy: what the checks on the task's content say (invariants,*)
(* explanation, bias, privacy, audit) is an input; a gated task type is    *)
(* refused in SAFE_STATE and without a grant.                              *)
EvaluatePolicy(t) ==
    /\ pc[t] = "policy"
    /\ \E invariantsHold \in BOOLEAN :
         pc' = [pc EXCEPT ![t] =
                  IF /\ invariantsHold
                     /\ task[t].gated => Mode # "SAFE_STATE" /\ consent
                  THEN "toDeciding" ELSE "policyReport"]
    /\ UNCHANGED <<checked, task, plan, multi, exc, consent>>
    /\ UNCHANGED govVars /\ UNCHANGED fbVars

ReportBlock(t) ==
    /\ pc[t] = "policyReport"
    /\ ReportViolation(t, "invariant_violations")
    /\ pc' = [pc EXCEPT ![t] = IF fire'[t] = << >> THEN "blockToIdle"
                                                   ELSE "policyFire"]
    /\ UNCHANGED <<checked, task, plan, multi, exc, consent>>
    /\ UNCHANGED govVars

(* What make_decision may return as a single action: whichever proposal    *)
(* wins, or the rule it falls back on, the gate only tells whether the     *)
(* action needs consent. No proposal and a plan are the other two outcomes.*)
ProposedActions == {"plain", "gated"}

(* make_decision returns: nothing executable, one action, or a plan. *)
Decide(t) ==
    /\ pc[t] = "decide"
    /\ \/ /\ pc' = [pc EXCEPT ![t] = "nothingToIdle"]
          /\ UNCHANGED <<plan, multi>>
       \/ /\ \E a \in ProposedActions : plan' = [plan EXCEPT ![t] = <<a>>]
          /\ multi' = [multi EXCEPT ![t] = FALSE]
          /\ pc' = [pc EXCEPT ![t] = "gate"]
       \/ /\ \E n \in 0..MaxSteps : \E s \in [1..n -> Actions] :
               plan' = [plan EXCEPT ![t] = s]
          /\ multi' = [multi EXCEPT ![t] = TRUE]
          /\ pc' = [pc EXCEPT ![t] = "toMulti"]
    /\ UNCHANGED <<checked, task, exc, consent>>
    /\ UNCHANGED govVars /\ UNCHANGED fbVars

(* _execute_multi_step: the next step of the plan, skipping invalid ones. *)
NextPlanned(t) ==
    /\ pc[t] = "nextStep"
    /\ \/ /\ plan[t] = << >>
          /\ pc' = [pc EXCEPT ![t] = "toEvaluating"]
          /\ UNCHANGED plan
       \/ /\ plan[t] # << >> /\ Head(plan[t]) = "invalid"
          /\ plan' = [plan EXCEPT ![t] = Tail(plan[t])]
          /\ UNCHANGED pc
       \/ /\ plan[t] # << >> /\ Head(plan[t]) # "invalid"
          /\ pc' = [pc EXCEPT ![t] = "gate"]
          /\ UNCHANGED plan
    /\ UNCHANGED <<checked, task, multi, exc, consent>>
    /\ UNCHANGED govVars /\ UNCHANGED fbVars

-----------------------------------------------------------------------------
(* Faulty: a refused single action is evaluated as if it had executed. *)
RefuseToEvaluate(t) ==
    /\ pc' = [pc EXCEPT ![t] = IF multi[t] THEN "nextStep" ELSE "toEvaluating"]
    /\ plan' = [plan EXCEPT ![t] = Tail(plan[t])]

(* _gate_decision.  A refusal ends a single action's task and skips a      *)
(* multi-step plan's step; a passed gate goes on to the governor.          *)
Refuse(t) ==
    /\ pc' = [pc EXCEPT ![t] = IF multi[t] THEN "nextStep" ELSE "gateToIdle"]
    /\ plan' = [plan EXCEPT ![t] = Tail(plan[t])]

Pass(t) ==
    /\ pc' = [pc EXCEPT ![t] = IF multi[t] THEN "charge" ELSE "toExecuting"]
    /\ UNCHANGED plan

GateUnchanged ==
    /\ UNCHANGED <<checked, task, multi, exc, consent>>
    /\ UNCHANGED govVars /\ UNCHANGED fbVars

(* The Tier 3 invariants on the decision are an input. *)
GateInvariants(t) ==
    /\ pc[t] = "gate"
    /\ \/ Refuse(t)
       \/ Head(plan[t]) # "gated" /\ Pass(t)
       \/ /\ Head(plan[t]) = "gated"
          /\ pc' = [pc EXCEPT ![t] = "gateMode"]
          /\ UNCHANGED plan
    /\ GateUnchanged

GateMode(t) ==
    /\ pc[t] = "gateMode"
    /\ \/ Mode = "SAFE_STATE" /\ Refuse(t)
       \/ /\ Mode # "SAFE_STATE"
          /\ pc' = [pc EXCEPT ![t] = "gateConsent"]
          /\ UNCHANGED plan
    /\ GateUnchanged

(* The attention state of the task reaches the gate of a single action;    *)
(* _execute_multi_step calls the gate without it.                          *)
AttentionRefuses(t) == task[t].away /\ ~multi[t]

GateConsent(t) ==
    /\ pc[t] = "gateConsent"
    /\ \/ (~consent \/ AttentionRefuses(t)) /\ Refuse(t)
       \/ /\ consent /\ ~AttentionRefuses(t)
          /\ pc' = [pc EXCEPT ![t] = "approval"]
          /\ UNCHANGED plan
    /\ GateUnchanged

(* request_approval returns after at most its time-to-live: module         *)
(* ApprovalBroker.                                                         *)
Approval(t) ==
    /\ pc[t] = "approval"
    /\ Refuse(t) \/ Pass(t)
    /\ GateUnchanged

(* _execute_gated, then execute and _dispatch: the verdict's hash matches  *)
(* by construction and the action reaches its handler, whose own errors    *)
(* come back as results.                                                   *)
Dispatch(t) ==
    /\ pc[t] = "dispatch"
    /\ plan' = [plan EXCEPT ![t] = Tail(plan[t])]
    /\ pc' = [pc EXCEPT ![t] = IF multi[t] THEN "nextStep" ELSE "toEvaluating"]
    /\ GateUnchanged

(* An exception other than the governor's out of a policy check, a model   *)
(* call, the memory, or the bookkeeping around a handler.                  *)
Fail(t) ==
    /\ \/ pc[t] \in {"policy", "policyReport", "decide", "gate", "nextStep",
                     "approval", "dispatch"}
       \/ /\ pc[t] \in {"nothingToIdle", "gateToIdle", "toEvaluating"}
          /\ ~checked[t]
    /\ Raise(t, "error")
    /\ UNCHANGED govVars /\ UNCHANGED fbVars

(* finally: governor.end_task(), then the except clauses: a GovernorError  *)
(* goes on to report_violation, everything else returns to the caller.     *)
GovernorRaised(t) ==
    exc[t] \in {"step_budget_exhausted", "task_deadline_exceeded",
                "runaway_loop"}

(* Faulty: end_task is not in the finally clause; a refused task is tried  *)
(* again instead of reported.                                              *)
EndOnSuccessOnly(t) ==
    /\ pc[t] = "end"
    /\ IF exc[t] = "none" THEN EndTask ELSE UNCHANGED govVars
    /\ pc' = [pc EXCEPT ![t] = "idle"]
    /\ exc' = [exc EXCEPT ![t] = "none"]
    /\ UNCHANGED <<checked, task, plan, multi, consent>>
    /\ UNCHANGED fbVars

EndAndRetry(t) ==
    /\ pc[t] = "end"
    /\ EndTask
    /\ pc' = [pc EXCEPT ![t] = IF GovernorRaised(t) THEN "begin" ELSE "idle"]
    /\ UNCHANGED <<checked, task, plan, multi, exc, consent>>
    /\ UNCHANGED fbVars

End(t) ==
    /\ pc[t] = "end"
    /\ EndTask
    /\ pc' = [pc EXCEPT ![t] = IF GovernorRaised(t) THEN "escalate" ELSE "idle"]
    /\ exc' = [exc EXCEPT ![t] = IF GovernorRaised(t) THEN exc[t] ELSE "none"]
    /\ plan' = [plan EXCEPT ![t] = << >>]
    /\ task' = [task EXCEPT ![t] = NoTask]
    /\ multi' = [multi EXCEPT ![t] = FALSE]
    /\ UNCHANGED <<checked, consent>>
    /\ UNCHANGED fbVars

Escalate(t) ==
    /\ pc[t] = "escalate"
    /\ ReportViolation(t, exc[t])
    /\ pc' = [pc EXCEPT ![t] = "escalateFire"]
    /\ UNCHANGED <<checked, task, plan, multi, exc, consent>>
    /\ UNCHANGED govVars

-----------------------------------------------------------------------------
(* The other threads: monitors that report violations, the operator, the   *)
(* console that grants and revokes consent (or a grant that expires).      *)
MonitorReports(p) ==
    /\ \/ /\ \/ \E k \in ReportKinds : ReportViolation(p, k)
             \/ AssignMode(p)
          /\ UNCHANGED govVars
       \/ NotifyGovernor(p)
    /\ UNCHANGED engVars

OperatorResumes(o) == OperatorNext(o) /\ UNCHANGED engVars

ConsentChanges ==
    /\ consent' = ~consent
    /\ UNCHANGED <<pc, checked, task, plan, multi, exc>>
    /\ UNCHANGED govVars /\ UNCHANGED fbVars

ClockAdvances == Time /\ UNCHANGED fbVars /\ UNCHANGED engVars

Work(t) ==
    \/ EvaluateFallbacks(t) \/ FireGovernor(t) \/ FireMode(t) \/ Begin(t)
    \/ CheckDeadline(t) \/ GovernorStep(t) \/ Charge(t)
    \/ EvaluatePolicy(t) \/ ReportBlock(t) \/ Decide(t) \/ NextPlanned(t)
    \/ GateInvariants(t) \/ GateMode(t) \/ GateConsent(t) \/ Approval(t)
    \/ Dispatch(t) \/ Fail(t) \/ End(t) \/ Escalate(t)

Next ==
    \/ \E t \in Threads : Submit(t) \/ Work(t)
    \/ \E p \in Procs \ Threads : MonitorReports(p)
    \/ \E o \in Operators : OperatorResumes(o)
    \/ ConsentChanges
    \/ ClockAdvances

Spec == Init /\ [][Next]_vars

(* A thread inside execute_task keeps running: nothing it calls blocks     *)
(* for ever (an approval waits for its time-to-live at most), and a        *)
(* monitor that has begun to report completes.                             *)
Fairness ==
    /\ \A t \in Threads : WF_vars(Work(t))
    /\ \A p \in Procs \ Threads : WF_vars(MonitorReports(p) /\ fire[p] # << >>)

FairSpec == Spec /\ Fairness

-----------------------------------------------------------------------------
(* However the threads overlapped, once every execute_task has unwound the *)
(* governor is free again: no budget or deadline of a finished task is     *)
(* left, and the state is the latched mode or IDLE.  A governor stuck in   *)
(* any other state would refuse every later task as re-entrant.            *)
QuietGovernorIsFree ==
    (\A t \in Threads : ~InFlight(t)) =>
        /\ ~started /\ stepsUsed = 0
        /\ state = IF latched # NoLatch THEN latched ELSE "IDLE"

(* Re-entrancy is "structurally impossible" (state_machine.py), and tasks  *)
(* "are serialized by the governor's re-entrancy guard"                    *)
(* (decision_engine.py).                                                   *)
OneTaskAtATime ==
    \A t, u \in Threads : InFlight(t) /\ InFlight(u) => t = u

(* The pipeline of one task, whatever is latched, resumed or refused while *)
(* it runs, asks the governor only for transitions of the matrix: no       *)
(* serialized caller is ever paused as a runaway loop.                     *)
PipelineFollowsMatrix == \A t \in Threads : exc[t] # "runaway_loop"

(* In SAFE_STATE "the decision engine refuses all side-effecting actions"  *)
(* (state_machine.py): none is dispatched while that mode is in force.     *)
NoSideEffectInSafeState ==
    [][\A t \in Threads : pc[t] = "dispatch" /\ Head(plan[t]) = "gated"
          /\ plan'[t] # plan[t] => Mode # "SAFE_STATE"]_vars

(* Every call of execute_task returns. *)
TaskReturns == \A t \in Threads : pc[t] # "idle" ~> pc[t] = "idle"

(* A mode latched under a task takes hold once the task is over: the       *)
(* state shows it, unless it was released or replaced before.              *)
LatchTakesHold ==
    \A m \in LatchModes : latched = m ~> (state = m \/ latched # m)
=============================================================================
