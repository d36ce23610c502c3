---------------------------- MODULE MCMcpClients ----------------------------
(***************************************************************************)
(* Three servers, one of them disabled, and two tool calls of one.    *)
(***************************************************************************)
EXTENDS McpClients, TLC

CONSTANTS n1, n2, n3, c1, c2

BothOfOne == (c1 :> n1) @@ (c2 :> n1)
=============================================================================
