-------------------------- MODULE MCTholosMonitor --------------------------
(* Small instances of the monitor. *)
EXTENDS TholosMonitor

BothDeployments == <<"tholos", "tholos-v2">>
=============================================================================
