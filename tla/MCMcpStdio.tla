----------------------------- MODULE MCMcpStdio -----------------------------
(* Instances of McpStdio for TLC: two tool calls on one pipe.             *)
EXTENDS McpStdio

CONSTANTS pipe, nobody
=============================================================================
