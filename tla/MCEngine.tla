------------------------------ MODULE MCEngine ------------------------------
(***************************************************************************)
(* Instances of the execution pipeline for TLC.                            *)
(***************************************************************************)
EXTENDS EngineHistory

CONSTANTS t1, t2, monitor, operator

OneThread  == {t1}
TwoThreads == {t1, t2}

OneThreadAndMonitor == {t1, monitor}

Console   == {operator}
NoConsole == {}

(* A monitor that pauses (a low battery) and one that halts (a collision). *)
MonitorKinds == {"device_power_low", "collision_detected"}

PauseKinds == {"device_power_low"}
NoKinds == {}

DefaultSeverities == [k \in Kinds |-> DefaultSeverity(k)]

(* A configuration that escalates policy violations and stalls to halt. *)
HaltingSeverities ==
    [k \in Kinds |-> IF k \in {"invariant_violations", "task_stalled",
                               "runaway_loop"}
                     THEN "halt" ELSE DefaultSeverity(k)]

SmallThresholds == [k \in Thresholded |-> 2]
OneStrike == [k \in Thresholded |-> 1]
=============================================================================
