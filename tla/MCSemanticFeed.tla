---------------------------- MODULE MCSemanticFeed ----------------------------
(* A Hermes gateway, an MCP server it launches that is of its family, LM   *)
(* Studio with an API; TLC only.                                           *)
EXTENDS SemanticFeed, TLC
CONSTANTS gateway, server, studio

MCMarks  == gateway :> {"gateway", "launcher"} @@ server :> {"token", "kin"} @@ studio :> {"studio"}
MCParent == gateway :> NoProc @@ server :> gateway @@ studio :> NoProc
=============================================================================
