----------------------------- MODULE Fallbacks ------------------------------
(***************************************************************************)
(* The FallbackController of fallbacks.py over the governor it latches.    *)
(* Procs are the threads that report violations or evaluate the triggers:  *)
(* engine threads, the memory worker, the robot, phone and network         *)
(* monitors.  _fire is not atomic: the governor is notified under its own  *)
(* lock first and the controller's mode is assigned afterwards, so a       *)
(* firing is a frame on the thread's stack: the triggers still to fire,    *)
(* and whether the governor has been notified of the first one.  resume    *)
(* is likewise three steps of an operator.                                 *)
(***************************************************************************)
EXTENDS Governor, Sequences

CONSTANTS
    Procs,        \* threads that may fire triggers
    Operators,    \* callers of resume (console, lifecycle hooks)
    ReportKinds,  \* trigger kinds the collaborators report
    Severity,     \* severities: kind -> pause | safe_state | halt
    Threshold     \* thresholds of the kinds that need repeated reports

VARIABLES
    fmode,        \* FallbackController.mode
    violations,   \* _violations of the thresholded kinds, saturating
    fire,         \* per thread: triggers still to _fire
    notified,     \* per thread: governor notified of Head(fire)
    op            \* per operator: how far its resume has come

fbVars == <<fmode, violations, fire, notified, op>>
fbAll  == <<govVars, fbVars>>

EvaluateKinds == {"circuit_breakers_open", "episodic_backlog", "task_stalled"}

EngineKinds == {"invariant_violations", "step_budget_exhausted",
                "task_deadline_exceeded", "runaway_loop"}

Kinds == EvaluateKinds \cup EngineKinds \cup ReportKinds

Thresholded == {"invariant_violations", "maintenance_worker_failure"}

Severities == {"pause", "safe_state", "halt"}

(* DEFAULT_SEVERITIES; a kind it does not list defaults to pause. *)
DefaultSeverity(k) ==
    IF k \in {"memory_failure", "audit_failure", "collision_detected",
              "emergency_stop_activated", "audit_chain_broken"}
    THEN "halt"
    ELSE IF k \in {"task_stalled", "step_budget_exhausted",
                   "task_deadline_exceeded", "invariant_violations",
                   "joint_limit_approached", "velocity_exceeded",
                   "acceleration_exceeded", "workspace_boundary_violated",
                   "human_presence_detected", "ros2_connection_lost",
                   "memory_sync_conflict_storm"}
    THEN "safe_state"
    ELSE "pause"

ASSUME SeverityAssumption == Severity \in [Kinds -> Severities]

ASSUME ThresholdAssumption == Threshold \in [Thresholded -> Nat \ {0}]

LatchOf(sev) == CASE sev = "halt" -> "HALTED"
                  [] sev = "safe_state" -> "SAFE_STATE"
                  [] OTHER -> "PAUSED"

(* Faulty: the severity is assigned as the mode. *)
SeverityAsMode(sev) == sev

ModeOf(sev) == CASE sev = "halt" -> "halted"
                 [] sev = "safe_state" -> "safe_state"
                 [] OTHER -> "paused"

FbTypeOK ==
    /\ GovTypeOK
    /\ fmode \in {"normal", "paused", "safe_state", "halted"}
    /\ violations \in [Thresholded -> Nat]
    /\ \A k \in Thresholded : violations[k] <= Threshold[k]
    /\ fire \in [Procs -> Seq(Kinds)]
    /\ notified \in [Procs -> BOOLEAN]
    /\ \A p \in Procs : notified[p] => fire[p] # << >>
    /\ op \in [Operators -> {"ready", "clear", "normal"}]

FbInit ==
    /\ GovInit
    /\ fmode = "normal"
    /\ violations = [k \in Thresholded |-> 0]
    /\ fire = [p \in Procs |-> << >>]
    /\ notified = [p \in Procs |-> FALSE]
    /\ op = [o \in Operators |-> "ready"]

-----------------------------------------------------------------------------
(* report_violation: count under the controller's lock, then fire at the   *)
(* threshold (thresholded kinds) or at once (all others).                  *)
Count(k) == IF violations[k] < Threshold[k] THEN violations[k] + 1
                                            ELSE violations[k]

(* Faulty: the threshold has to be exceeded. *)
EscalatesAbove(k) == k \in Thresholded => Count(k) > Threshold[k]

Escalates(k) == k \in Thresholded => Count(k) >= Threshold[k]

ReportViolation(p, k) ==
    /\ fire[p] = << >>
    /\ violations' = IF k \in Thresholded
                     THEN [violations EXCEPT ![k] = Count(k)]
                     ELSE violations
    /\ fire' = [fire EXCEPT ![p] = IF Escalates(k) THEN <<k>> ELSE << >>]
    /\ UNCHANGED <<fmode, notified, op>>

(* evaluate: nothing unless the mode is normal; otherwise the triggers     *)
(* that hold fire in this order.  Open breakers and the episodic backlog   *)
(* are inputs from the execution layer and the memory.                     *)
Triggers(breakersOpen, backlog) ==
    (IF breakersOpen THEN <<"circuit_breakers_open">> ELSE << >>)
      \o (IF backlog THEN <<"episodic_backlog">> ELSE << >>)
      \o (IF progress = "stalled" THEN <<"task_stalled">> ELSE << >>)

Evaluate(p, breakersOpen, backlog) ==
    /\ fire[p] = << >>
    /\ fire' = [fire EXCEPT ![p] =
                  IF fmode = "normal" THEN Triggers(breakersOpen, backlog)
                                      ELSE << >>]
    /\ UNCHANGED <<fmode, violations, notified, op>>

(* _fire, first half: governor.halt / safe_state / pause. *)
NotifyGovernor(p) ==
    /\ fire[p] # << >>
    /\ ~notified[p]
    /\ Latch(LatchOf(Severity[Head(fire[p])]))
    /\ notified' = [notified EXCEPT ![p] = TRUE]
    /\ UNCHANGED <<fmode, violations, fire, op>>

(* _fire, second half: the mode, and FallbackHalt for a halt, which drops  *)
(* the triggers evaluate had still to fire.                                *)
Halts(p) == Severity[Head(fire[p])] = "halt"

AssignMode(p) ==
    /\ notified[p]
    /\ fmode' = ModeOf(Severity[Head(fire[p])])
    /\ fire' = [fire EXCEPT ![p] = IF Halts(p) THEN << >> ELSE Tail(fire[p])]
    /\ notified' = [notified EXCEPT ![p] = FALSE]
    /\ UNCHANGED <<violations, op>>

(* resume by an attributed operator: the governor (which may refuse), then *)
(* the violation counts, then the mode.                                    *)
ResumeGovernor(o) ==
    /\ op[o] = "ready"
    /\ Resume
    /\ op' = [op EXCEPT ![o] = "clear"]
    /\ UNCHANGED <<fmode, violations, fire, notified>>

ClearViolations(o) ==
    /\ op[o] = "clear"
    /\ violations' = [k \in Thresholded |-> 0]
    /\ op' = [op EXCEPT ![o] = "normal"]
    /\ UNCHANGED <<fmode, fire, notified>>

ResumeMode(o) ==
    /\ op[o] = "normal"
    /\ fmode' = "normal"
    /\ op' = [op EXCEPT ![o] = "ready"]
    /\ UNCHANGED <<violations, fire, notified>>

OperatorNext(o) ==
    \/ ResumeGovernor(o)
    \/ (ClearViolations(o) \/ ResumeMode(o)) /\ UNCHANGED govVars

FbNext ==
    \/ \E p \in Procs :
         \/ NotifyGovernor(p)
         \/ /\ \/ \E k \in Kinds : ReportViolation(p, k)
               \/ \E b, l \in BOOLEAN : Evaluate(p, b, l)
               \/ AssignMode(p)
            /\ UNCHANGED govVars
    \/ \E o \in Operators : OperatorNext(o)
    \/ (TaskCall \/ Time) /\ UNCHANGED fbVars

FbSpec == FbInit /\ [][FbNext]_fbAll

-----------------------------------------------------------------------------
(* An escalation is never lost to a concurrent resume: once a thresholded  *)
(* kind has reached its threshold, a thread is still about to notify the   *)
(* governor of it, or the governor is latched, or an operator who resumed  *)
(* after the escalation is still about to clear the counts.                *)
EscalationIsNotLost ==
    \A k \in Thresholded :
        violations[k] >= Threshold[k] =>
            \/ latched # NoLatch
            \/ \E p \in Procs : ~notified[p] /\ fire[p] = <<k>>
            \/ \E o \in Operators : op[o] = "clear"

(* What fallbacks.py and state_machine.py say of halt ("terminal until     *)
(* process restart"): a HALTED latch is never replaced or released.        *)
HaltLatchIsTerminal ==
    [][latched = "HALTED" => latched' = "HALTED"]_govVars
=============================================================================
