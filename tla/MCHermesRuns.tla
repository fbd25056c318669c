---------------------------- MODULE MCHermesRuns ----------------------------
(* Two gateways; TLC only.                                                 *)
EXTENDS HermesRuns
=============================================================================
