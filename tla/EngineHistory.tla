--------------------------- MODULE EngineHistory ----------------------------
(***************************************************************************)
(* Module Engine with a history variable: readonly[t] says that SAFE_STATE *)
(* was latched when thread t began its task and has been latched ever      *)
(* since.                                                                  *)
(***************************************************************************)
EXTENDS Engine

VARIABLE readonly

hvars == <<vars, readonly>>

HInit == Init /\ readonly = [t \in Threads |-> FALSE]

Begins(t) == pc[t] = "begin" /\ pc'[t] = "toGating"

HNext ==
    /\ Next
    /\ readonly' = [t \in Threads |->
                      latched' = "SAFE_STATE" /\ (Begins(t) \/ readonly[t])]

HSpec == HInit /\ [][HNext]_hvars

HFairSpec == HSpec /\ Fairness

(* A task that runs under SAFE_STATE from its first step on dispatches no  *)
(* side-effecting action, as a single decision or as a step of a plan:     *)
(* the gate reads the latched mode, which the task's own begin_task does   *)
(* not hide.                                                               *)
ReadOnlyTaskHasNoSideEffect ==
    \A t \in Threads :
        pc[t] = "dispatch" /\ readonly[t] => Head(plan[t]) # "gated"
=============================================================================
