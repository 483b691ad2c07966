---------------------------- MODULE MCAuditTrail ----------------------------
(***************************************************************************)
(* Instances of the audit trail for TLC.                                   *)
(***************************************************************************)
EXTENDS AuditTrail

CONSTANTS a1, a2, node, engine

TwoThreads == {a1, a2}

(* The agent: all threads share the engine's chain. *)
EngineOnly == {engine}
SharedChain == [a \in TwoThreads |-> engine]

(* The full_agent node: its own threads and its engine's each have one. *)
NodeAndEngine == {node, engine}
TwoChains == [a \in TwoThreads |-> IF a = a1 THEN node ELSE engine]
=============================================================================
