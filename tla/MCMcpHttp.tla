----------------------------- MODULE MCMcpHttp -----------------------------
(* Instances of McpHttp for TLC: two tool calls, three sessions of which   *)
(* two fit in the registry, and two streams.                               *)
EXTENDS McpHttp, TLC

CONSTANTS c1, c2, s1, s2, s3, g1, g2, nobody

\* Calls, sessions and streams are only compared.
Symmetry == Permutations({c1, c2}) \cup Permutations(Conns) \cup Permutations({g1, g2})
=============================================================================
