---------------------------- MODULE MCGateMonitor ---------------------------
(***************************************************************************)
(* GateMonitor for TLC: hours of two minutes.                              *)
(***************************************************************************)
EXTENDS GateMonitor
=============================================================================
