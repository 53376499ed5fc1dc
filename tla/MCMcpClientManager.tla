------------------------- MODULE MCMcpClientManager -------------------------
(* McpClientManager for TLC; MCMcpClientManager.cfg gives the calls.       *)
EXTENDS McpClientManager
=============================================================================
