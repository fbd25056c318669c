------------------------------ MODULE MCLiveFeed ------------------------------
(* Small instances of the live feed: see the configurations.               *)
EXTENDS LiveFeed
=============================================================================
