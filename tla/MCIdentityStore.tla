--------------------------- MODULE MCIdentityStore ---------------------------
(* An instance of IdentityStore for TLC: one agent, whose skill file and   *)
(* MCP config an older build gave one key, with no path recorded.          *)
EXTENDS IdentityStore, TLC

CONSTANTS skill, mcp, k0, k1, k2

OneAgent == [path \in Paths |-> "claude"]
SharedKey == [path \in Paths |-> k0]
LegacyRow == <<newIdentity(k0, "claude", "detected", NoPath)>>
Alike == Permutations(Procs) \cup Permutations({k1, k2})
================================================================================
