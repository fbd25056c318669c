---------------------------- MODULE MCEventStream -----------------------------
(* Two clients, a queue of three slots and batches one longer than it.     *)
EXTENDS EventStreamLoop
=============================================================================
