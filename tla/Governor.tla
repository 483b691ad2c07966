------------------------------ MODULE Governor ------------------------------
(***************************************************************************)
(* The ExecutionGovernor of state_machine.py: the state of the agent loop, *)
(* the latched safe mode, the task in flight and its step budget.  Every   *)
(* public method holds the governor's lock, so each is one atomic action;  *)
(* the specification GovSpec lets any caller invoke any method at any time *)
(* (HTTP handlers, the task worker, the autonomy loops and the fallback    *)
(* controller all do).  A call that raises GovernorError and changes       *)
(* nothing is a stuttering step here; its callers test the guards below.   *)
(***************************************************************************)
EXTENDS Naturals

CONSTANT StepBudget       \* step_budget: tool dispatches charged per task

ASSUME StepBudgetAssumption == StepBudget \in Nat \ {0}

VARIABLES
    state,        \* _state
    latched,      \* _latched, NoLatch for None
    started,      \* _task_started_at is not None
    overdue,      \* the task in flight is older than task_deadline_seconds
    stepsUsed,    \* _steps_used, saturating one above the budget
    progress      \* _last_progress_at: never set, recent, or a stall ago

govVars == <<state, latched, started, overdue, stepsUsed, progress>>

NoLatch == "none"

LatchModes == {"PAUSED", "SAFE_STATE", "HALTED"}

AgentState == LatchModes \cup
    {"IDLE", "OBSERVING", "GATING", "DECIDING", "PLANNING", "EXECUTING",
     "PHYSICAL_EXECUTING", "EVALUATING", "CONSOLIDATING", "EMERGENCY_STOP"}

(* The transition matrix _ALLOWED. *)
Allowed(s) ==
    CASE s = "IDLE"       -> {"OBSERVING"}
      [] s = "OBSERVING"  -> {"GATING", "IDLE"}
      [] s = "GATING"     -> {"DECIDING", "IDLE"}
      [] s = "DECIDING"   -> {"EXECUTING", "PLANNING", "IDLE"}
      [] s = "PLANNING"   -> {"PHYSICAL_EXECUTING", "IDLE", "EMERGENCY_STOP"}
      [] s = "SAFE_STATE" -> {"OBSERVING"}
      [] s \in {"PHYSICAL_EXECUTING", "EXECUTING"}
                          -> {"EVALUATING", "IDLE", "EMERGENCY_STOP"}
      [] s \in {"EVALUATING", "CONSOLIDATING", "EMERGENCY_STOP"} -> {"IDLE"}
      [] OTHER            -> {}

GovTypeOK ==
    /\ state \in AgentState
    /\ latched \in LatchModes \cup {NoLatch}
    /\ started \in BOOLEAN
    /\ overdue \in BOOLEAN
    /\ stepsUsed \in 0..(StepBudget + 1)
    /\ progress \in {"never", "recent", "stalled"}

GovInit ==
    /\ state = "IDLE"
    /\ latched = NoLatch
    /\ started = FALSE
    /\ overdue = FALSE
    /\ stepsUsed = 0
    /\ progress = "never"

-----------------------------------------------------------------------------
(* Faulty variants, here and below, are used only to confirm that the      *)
(* properties notice them.  This one forgets the latch.                    *)
ModeIgnoringLatch == state

(* The effective mode: a latched mode takes precedence over the state. *)
Mode == IF latched # NoLatch THEN latched ELSE state

(* begin_task refuses PAUSED, HALTED and re-entrancy by looking at the     *)
(* state, not at the latch.                                                *)
MayBegin == state \in {"IDLE", "SAFE_STATE"}

BeginTask ==
    /\ MayBegin
    /\ state' = "OBSERVING"
    /\ started' = TRUE
    /\ overdue' = FALSE
    /\ stepsUsed' = 0
    /\ progress' = "recent"
    /\ UNCHANGED latched

(* step and consume_step first call _check_deadline, which takes and       *)
(* releases the lock by itself: see CheckDeadline in module Engine.        *)
MayStep(s) == s \in Allowed(state)

Step(s) ==
    /\ MayStep(s)
    /\ state' = s
    /\ progress' = "recent"
    /\ UNCHANGED <<latched, started, overdue, stepsUsed>>

(* consume_step charges first and raises afterwards: OverBudget tells the  *)
(* caller which.  Without a task in flight nothing is charged.             *)
Charged == IF started /\ stepsUsed <= StepBudget THEN stepsUsed + 1
                                                 ELSE stepsUsed

OverBudget == started /\ Charged > StepBudget

ConsumeStep ==
    /\ stepsUsed' = Charged
    /\ UNCHANGED <<state, latched, started, overdue, progress>>

(* Faulty: end_task forgets the latch, or clears it although no operator   *)
(* resumed.                                                                *)
EndTaskToIdle ==
    /\ state' = "IDLE"
    /\ started' = FALSE /\ overdue' = FALSE /\ stepsUsed' = 0
    /\ progress' = "recent" /\ UNCHANGED latched

EndTaskReleasing ==
    /\ state' = IF latched # NoLatch /\ ~started THEN latched ELSE "IDLE"
    /\ latched' = IF started THEN NoLatch ELSE latched
    /\ started' = FALSE /\ overdue' = FALSE /\ stepsUsed' = 0
    /\ progress' = "recent"

EndTask ==
    /\ state' = IF latched # NoLatch THEN latched ELSE "IDLE"
    /\ started' = FALSE
    /\ overdue' = FALSE
    /\ stepsUsed' = 0
    /\ progress' = "recent"
    /\ UNCHANGED latched

(* _latch, reached through pause, safe_state and halt: a governor whose    *)
(* state is HALTED ignores it; a task in flight finishes first.            *)
Latch(m) ==
    IF state = "HALTED" THEN UNCHANGED govVars
    ELSE /\ latched' = m
         /\ state' = IF started THEN state ELSE m
         /\ UNCHANGED <<started, overdue, stepsUsed, progress>>

MayResume == state \in {"PAUSED", "SAFE_STATE"}

Resume ==
    /\ MayResume
    /\ latched' = NoLatch
    /\ state' = "IDLE"
    /\ progress' = "recent"
    /\ UNCHANGED <<started, overdue, stepsUsed>>

(* The clock: the task in flight outlives its deadline, or the last        *)
(* progress becomes older than stall_seconds.                              *)
DeadlinePasses ==
    /\ started /\ ~overdue
    /\ overdue' = TRUE
    /\ UNCHANGED <<state, latched, started, stepsUsed, progress>>

StallPasses ==
    /\ progress = "recent"
    /\ progress' = "stalled"
    /\ UNCHANGED <<state, latched, started, overdue, stepsUsed>>

Time == DeadlinePasses \/ StallPasses

TaskCall ==
    \/ BeginTask
    \/ \E s \in AgentState : Step(s)
    \/ ConsumeStep
    \/ EndTask

GovNext ==
    \/ TaskCall
    \/ \E m \in LatchModes : Latch(m)
    \/ Resume
    \/ Time

GovSpec == GovInit /\ [][GovNext]_govVars

-----------------------------------------------------------------------------
(* A latched mode is visible in the state only as that very latch and only *)
(* with no task in flight: resume, which looks at the state, can therefore *)
(* never clear a latch other than the one it sees, and begin_task and      *)
(* _latch, which look at the state too, never mistake a stale one for it.  *)
LatchShown ==
    state \in LatchModes => latched = state /\ ~started

(* A governor whose state is HALTED stays there, whatever is called: no    *)
(* task begins, no latch replaces it, no resume clears it                  *)
(* (state_machine.py, "terminal until process restart").                   *)
HaltedIsTerminal ==
    [][state = "HALTED" => state' = "HALTED" /\ latched' = "HALTED"]_govVars

(* Only an operator's resume releases a latch, and never a HALTED one: no  *)
(* begin, step or end of a task loses a mode latched while it ran.         *)
LatchIsReleasedByResumeOnly ==
    [][latched # NoLatch /\ latched' = NoLatch =>
         /\ latched \in {"PAUSED", "SAFE_STATE"}
         /\ state = latched
         /\ state' = "IDLE"]_govVars
=============================================================================
