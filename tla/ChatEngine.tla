----------------------------- MODULE ChatEngine -----------------------------
(* The chat's approvals, its loop of model answers and tools, its streamed *)
(* turns and the scan that has a model classify fields, together.  They    *)
(* share no state: the engine is the conjunction of their specifications.  *)
EXTENDS ChatApprovals, ChatLoop, ChatStreams, SensitivityScan

EngineSpec == ApprovalsSpec /\ LoopSpec /\ StreamsSpec /\ SensitivityScanSpec

(* Every component keeps its types.                                        *)
ChatTypeOK == ApprovalsTypeOK /\ LoopTypeOK /\ StreamsTypeOK

(* What a model says makes no turn go round or save on (runTurn's          *)
(* recoveries), and what it says of fields and is shown of them stays      *)
(* within what users, agents and consent leave to it (scanLocked).         *)
ModelsSafe == LoopSafe /\ ScanSafe
=============================================================================
