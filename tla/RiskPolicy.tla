----------------------------- MODULE RiskPolicy -----------------------------
(***************************************************************************)
(* The pure policy of the tool path: how a datasource's trust level and    *)
(* the risk engine's assessment of one statement become "run", "ask" or    *)
(* "block" (internal/riskengine/gate.go, internal/toolreg/policy.go).      *)
(***************************************************************************)
EXTENDS Naturals

TrustLevels == {"approval", "cautious", "trusted", "danger"}
Actions     == {"allow", "warn", "require_approval", "block"}
Levels      == {"low", "medium", "high"}

(***************************************************************************)
(* Where the winning rule came from: "user" and "builtin" rules carry an   *)
(* id, "probe" is one of the four builtin probe-failure rules, "none" is   *)
(* the engine's fallback without a rule id.                                *)
(***************************************************************************)
RuleOrigins == {"none", "user", "builtin", "probe"}

(***************************************************************************)
(* The write preview: "none" is an unsupported statement or service, "ok"  *)
(* a counted write below the threshold, "elevated" one above it, and       *)
(* "unavailable" a count query that failed.                                *)
(***************************************************************************)
Previews == {"none", "ok", "elevated", "unavailable"}

Assessment == [action : Actions, level : Levels, rule : RuleOrigins,
               preview : Previews]

\* An assessment forces the approval path below trust level "danger".
ForcesApproval(a) == a.action # "allow" /\ a.rule \in {"user", "probe"}

\* riskengine.DecideGate: TRUE for GateRequireApproval.
GateRequiresApproval(trust, a) ==
  /\ trust # "danger"
  /\ \/ ForcesApproval(a)
     \/ trust = "trusted"  /\ a.level = "high"
     \/ trust = "cautious" /\ a.level # "low"
     \/ trust \notin {"trusted", "cautious"}

\* A hard block, which no approval prompt may turn into a question.
Blocks(trust, a) == trust # "danger" /\ a.action = "block"

\* The preview is only computed for statements that are not hard blocks.
PreviewForcesApproval(a) ==
  a.action # "block" /\ a.preview \in {"elevated", "unavailable"}

\* ApprovalDecision.NeedsApproval of AssessStatementApproval.
NeedsApproval(trust, a) ==
  GateRequiresApproval(trust, a) \/ PreviewForcesApproval(a)

\* What the policy lets run unattended at one trust level.
MayAutoRun(trust, a) == ~Blocks(trust, a) /\ ~NeedsApproval(trust, a)
=============================================================================
