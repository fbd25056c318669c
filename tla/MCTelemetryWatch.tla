--------------------------- MODULE MCTelemetryWatch ---------------------------
(* A sample every second window and a freeze of five; in the code 25, 225. *)
EXTENDS TelemetryWatch
=============================================================================
