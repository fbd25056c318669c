---------------------------- MODULE MCAiTelemetry ----------------------------
(* Three traces of which two may be active, a span, three events: enough   *)
(* for the cap to find a run older than another, and for an event behind   *)
(* the message that a client missed.                                       *)
EXTENDS AiTelemetry
=============================================================================
