-------------------------- MODULE MCAndroidRuntime --------------------------
(***************************************************************************)
(* The Android lifecycle with the default severities: all three kinds      *)
(* pause.                                                                  *)
(***************************************************************************)
EXTENDS AndroidRuntime

AllPause == [k \in RuntimeKinds |-> "PAUSED"]
=============================================================================
