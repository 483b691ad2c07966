-------------------------- MODULE MCEpisodicMemory --------------------------
(***************************************************************************)
(* Instances of the episodic memory for TLC.                               *)
(***************************************************************************)
EXTENDS EpisodicMemory

CONSTANTS worker, caller, decision, failure

OneConsolidator == {worker}
TwoConsolidators == {worker, caller}
TwoTypes == {decision, failure}

AllFaults == {"append", "compact", "store", "replay"}
NoFaults == {}

Symmetry == Permutations(TwoConsolidators) \cup Permutations(TwoTypes)
=============================================================================
