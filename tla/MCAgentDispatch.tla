-------------------------- MODULE MCAgentDispatch --------------------------
(* Instances of AgentDispatch for TLC. *)
EXTENDS AgentDispatch, TLC

A(action, level, rule, preview) ==
  [action |-> action, level |-> level, rule |-> rule, preview |-> preview]

\* One statement per way the policy can answer.
Statements ==
  {A("allow", "low", "builtin", "none"),              \* plain read
   A("warn", "medium", "builtin", "ok"),              \* write below the preview threshold
   A("warn", "medium", "builtin", "elevated"),        \* write touching too many rows
   A("require_approval", "high", "user", "unavailable"),
   A("block", "high", "builtin", "none")}
OneStatement == {A("allow", "low", "builtin", "none")}

SchemaTools == {"schema", "list"}
GatedTools  == {"exec", "rule", "create", "update"}
AllScopes   == {"inherit", "listed", "unlisted"}
TwoScopes   == {"inherit", "unlisted"}
TwoGrants   == {"risk_rule", "datasource"}
AllTrusts   == TrustLevels
BothConsents == BOOLEAN
AllTools    == SchemaTools \cup GatedTools
AllExpiries == {"never", "ahead", "past"}
NoEdits     == {}

CallSymmetry == Permutations(Calls)

\* Two questions of one run: "calls" overlaps two calls of the schema tools with
\* every edit that bears on them, "gates" sends one call through every gate
\* while grants, scope and trust change.
VARIABLE focus
focusVars == <<vars, focus>>

InFocus ==
  \/ /\ focus = "calls"
     /\ \A c \in Calls : req[c].tool \in SchemaTools /\ risk[c] \in OneStatement
     /\ \A k \in Keys : identity[k].grants = {}
     /\ ds.trust = "cautious"
  \/ /\ focus = "gates"
     /\ \A c \in Calls : req[c].tool \in GatedTools
     /\ \A c \in Calls : req[c].tool # "exec" => risk[c] \in OneStatement   \* read for "exec" only
     /\ \A c, d \in Calls : /\ req[c] = req[d] /\ risk[c] = risk[d]
                            /\ pc[c] = "idle" \/ pc[d] = "idle" \/ c = d
     /\ \A k \in Keys : identity[k].scope \in TwoScopes /\ identity[k].expiry = "never"
     /\ ~ds.consent

FocusInit == Init /\ focus \in {"calls", "gates"} /\ InFocus
FocusNext == Next /\ UNCHANGED focus /\ InFocus'
FocusSpec == FocusInit /\ [][FocusNext]_focusVars
=============================================================================
