--------------------------- MODULE MCMeshElection ---------------------------
(***************************************************************************)
(* Small fleets for TLC.                                                   *)
(***************************************************************************)
EXTENDS MeshElection

Pair == {1, 2}

NoFollowers == {}

(* Equal priorities: the identifier decides. *)
EqualPriority == [n \in Nodes |-> 10]
=============================================================================
