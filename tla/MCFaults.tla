------------------------------ MODULE MCFaults -------------------------------
(***************************************************************************)
(* Constants of ClusterFaults for the model checker.                       *)
(***************************************************************************)
EXTENDS ClusterFaults

Interrupts == {"reply", "data", "request", "results"}
Crashes == {"controller", "worker"}
Everything == Interrupts \cup Crashes
NotGiven == -1
=============================================================================
