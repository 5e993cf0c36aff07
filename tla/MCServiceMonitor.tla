-------------------------- MODULE MCServiceMonitor --------------------------
(* Instances of ServiceMonitor for TLC. *)
EXTENDS ServiceMonitor
=============================================================================
