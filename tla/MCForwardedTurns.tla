-------------------------- MODULE MCForwardedTurns --------------------------
(***************************************************************************)
(* A phone that takes the turns and a hub that may hold the lease.         *)
(***************************************************************************)
EXTENDS ForwardedTurns

CONSTANTS phone, hub, t1, t2

Hive     == {phone, hub}
TwoTurns == {t1, t2}
TakenAtPhone == [t \in Turns |-> phone]
=============================================================================
