---------------------------- MODULE MCInfraFeed ----------------------------
(* Two items of one platform: enough for a frame with an event behind      *)
(* another one's edge that throws.                                         *)
EXTENDS InfraFeed
=============================================================================
