-------------------------- MODULE MCMeshModelHost ---------------------------
(***************************************************************************)
(* An instance of the model host for TLC: two devices, of which one keeps  *)
(* a split from answering /health or the other one from completing.        *)
(***************************************************************************)
EXTENDS MeshModelHost

OneFlaw == {[d \in Devices |-> IF d = 2 THEN "health" ELSE "none"],
            [d \in Devices |-> IF d = 1 THEN "probe" ELSE "none"]}
=============================================================================
