----------------------------- MODULE MCWakeGate -----------------------------
(***************************************************************************)
(* WakeGate for TLC: the evidence shifts by its verdict.                   *)
(***************************************************************************)
EXTENDS WakeGate

MCEvidences == [verdict : Verdicts, cap : {FALSE}]
=============================================================================
