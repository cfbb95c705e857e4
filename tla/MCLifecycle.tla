---------------------------- MODULE MCLifecycle ----------------------------
(* Instances of Lifecycle for TLC: the control mode decides which of the   *)
(* phase tasks' callers exist, so the runs take one or both.               *)
EXTENDS Lifecycle

Managed == {"managed_control"}
External == {"external_controller"}
Both == Managed \cup External
=============================================================================
