------------------------------ MODULE MCGuards ------------------------------
(***************************************************************************)
(* The two guards that stand between a decision and its effect, checked    *)
(* side by side: the approval of an action and the breaker its request     *)
(* then meets.  Their threads share nothing, so a step is one of either.   *)
(***************************************************************************)
EXTENDS ApprovalBroker, CircuitBreaker

GuardsInit == Init /\ BreakerInit

GuardsNext ==
    \/ Next /\ UNCHANGED breakerVars
    \/ BreakerNext /\ UNCHANGED vars

GuardsSpec ==
    /\ GuardsInit /\ [][GuardsNext]_<<vars, breakerVars>>
    /\ WaitersAreFair /\ CallersAreFair
=============================================================================
