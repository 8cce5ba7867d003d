-------------------------- MODULE MCDaemonLifecycle --------------------------
(* A finite instance of DaemonLifecycle. *)
EXTENDS DaemonLifecycle
=============================================================================
