--------------------------- MODULE AndroidRuntime ---------------------------
(***************************************************************************)
(* AndroidRuntime (android_runtime.py) over the governor: the app shell's  *)
(* lifecycle callbacks, which latch and release it, and the device         *)
(* monitor, which latches it on a low battery or a hot device.  They call  *)
(* the fallback controller, whose calls on the governor come first (module *)
(* Fallbacks); its own mode plays no part here.  The callbacks are         *)
(* serialised by _state_lock.  Everyone else (tasks, triggers, operators)  *)
(* is GovNext: any call of the governor at any time.                       *)
(***************************************************************************)
EXTENDS Governor

CONSTANTS Streak,    \* thermal_pause_streak
          Severity   \* severities of the three kinds the runtime reports

RuntimeKinds ==
    {"android_lifecycle_paused", "device_power_low", "device_thermal_high"}

ASSUME StreakAssumption == Streak \in Nat \ {0}

ASSUME RuntimeSeverityAssumption ==
    Severity \in [RuntimeKinds -> LatchModes \ {"HALTED"}]

VARIABLES
    runtime,      \* state: new, started, paused or destroyed
    callback,     \* the lifecycle callback that has changed half its state
    poll,         \* where the monitor's loop stands
    lowReported,  \* _power_low_reported
    hot,          \* _thermal_streak
    ownLatch,     \* history: on_pause latched last
    overridden    \* history: somebody else resumed since on_pause

monVars  == <<poll, lowReported, hot>>
lifeVars == <<runtime, callback>>
histVars == <<ownLatch, overridden>>
rtVars   == <<govVars, monVars, lifeVars, histVars>>

RtInit ==
    /\ GovInit
    /\ runtime = "new" /\ callback = "none"
    /\ poll = "waiting" /\ lowReported = FALSE /\ hot = 0
    /\ ownLatch = FALSE /\ overridden = FALSE

-----------------------------------------------------------------------------
OnCreate ==
    /\ callback = "none" /\ runtime = "new"
    /\ runtime' = "started"
    /\ UNCHANGED <<govVars, callback, monVars, histVars>>

OnPause ==
    /\ callback = "none" /\ runtime = "started"
    /\ runtime' = "paused"
    /\ callback' = "pausing"
    /\ overridden' = FALSE
    /\ UNCHANGED <<govVars, monVars, ownLatch>>

(* Faulty: a governor that is latched or busy is left alone. *)
PauseLatchIfIdle ==
    /\ callback = "pausing"
    /\ IF state = "IDLE" THEN Latch(Severity["android_lifecycle_paused"])
                         ELSE UNCHANGED govVars
    /\ callback' = "none"
    /\ ownLatch' = (latched' # NoLatch)
    /\ UNCHANGED <<runtime, monVars, overridden>>

(* report_violation of a kind that is not thresholded always latches. *)
PauseLatch ==
    /\ callback = "pausing"
    /\ Latch(Severity["android_lifecycle_paused"])
    /\ callback' = "none"
    /\ ownLatch' = (state # "HALTED")
    /\ UNCHANGED <<runtime, monVars, overridden>>

(* on_resume: fallbacks.resume, then the state; a refusal by the governor  *)
(* (task in flight, halted, or resumed by somebody else) leaves it paused. *)
OnResume ==
    /\ callback = "none" /\ runtime = "paused"
    /\ Resume
    /\ callback' = "resuming"
    /\ ownLatch' = FALSE
    /\ UNCHANGED <<runtime, monVars, overridden>>

(* Faulty: the runtime counts as started although the governor refused. *)
RefusedAnyway ==
    /\ callback = "none" /\ runtime = "paused" /\ ~MayResume
    /\ runtime' = "started"
    /\ UNCHANGED <<govVars, callback, monVars, histVars>>

ResumeRefused ==
    /\ callback = "none" /\ runtime = "paused" /\ ~MayResume
    /\ UNCHANGED rtVars

Resumed ==
    /\ callback = "resuming"
    /\ runtime' = "started"
    /\ callback' = "none"
    /\ UNCHANGED <<govVars, monVars, histVars>>

OnDestroy ==
    /\ callback = "none" /\ runtime # "destroyed"
    /\ runtime' = "destroyed"
    /\ UNCHANGED <<govVars, callback, monVars, histVars>>

Lifecycle ==
    \/ OnCreate \/ OnPause \/ PauseLatch
    \/ OnResume \/ ResumeRefused \/ Resumed
    \/ OnDestroy

-----------------------------------------------------------------------------
(* _monitor_loop: wait, _check_power, _check_thermal.  A reading is none   *)
(* when the bridge lacks the method or it fails.  A low battery is         *)
(* reported once per drop, heat once per streak of hot readings.           *)
Readings == {"none", "good", "bad"}

Others == ownLatch' = (ownLatch /\ latched' = latched)

Report(kind) == Latch(Severity[kind]) /\ Others

MonitorWakes ==
    /\ poll = "waiting" /\ runtime \in {"started", "paused"}
    /\ poll' = "power"
    /\ UNCHANGED <<govVars, lifeVars, lowReported, hot, histVars>>

CheckPower(reading) ==
    /\ poll = "power"
    /\ poll' = "thermal"
    /\ lowReported' = IF reading = "none" THEN lowReported ELSE reading = "bad"
    /\ IF lowReported' /\ ~lowReported
       THEN Report("device_power_low")
       ELSE UNCHANGED <<govVars, ownLatch>>
    /\ UNCHANGED <<lifeVars, hot, overridden>>

CheckThermal(reading) ==
    /\ poll = "thermal"
    /\ poll' = "waiting"
    /\ hot' = CASE reading = "none" -> hot
                [] reading = "good" -> 0
                [] reading = "bad"  -> (hot + 1) % Streak
    /\ IF reading = "bad" /\ hot + 1 = Streak
       THEN Report("device_thermal_high")
       ELSE UNCHANGED <<govVars, ownLatch>>
    /\ UNCHANGED <<lifeVars, lowReported, overridden>>

MonitorNext ==
    MonitorWakes \/ \E r \in Readings : CheckPower(r) \/ CheckThermal(r)

-----------------------------------------------------------------------------
Environment ==
    /\ GovNext
    /\ Others
    /\ overridden' = (overridden \/ (latched # NoLatch /\ latched' = NoLatch))
    /\ UNCHANGED <<lifeVars, monVars>>

RtNext == Lifecycle \/ MonitorNext \/ Environment

RtSpec == RtInit /\ [][RtNext]_rtVars

(* What on_pause promises ("engine pauses"): when the callback is over the *)
(* governor is latched, whatever it was doing and whoever else latched it, *)
(* and it stays so until on_resume or somebody else's resume, although     *)
(* tasks begin and end and the monitor reports in the meantime.            *)
PauseHolds ==
    runtime = "paused" /\ callback = "none" => latched # NoLatch \/ overridden

(* An app in the foreground is never held by its own pause: a resume the   *)
(* governor refused (task in flight, halted) leaves the runtime paused, so *)
(* that the next on_resume tries again (android_runtime.py 169-173).       *)
ForegroundIsNotHeld ==
    runtime = "started" /\ callback = "none" => ~ownLatch
=============================================================================
