---------------------------- MODULE DesktopStores ----------------------------
(* The stores the desktop app edits: its datasources and the rules about   *)
(* risk.  They share no state: together they are the conjunction of their  *)
(* specifications.                                                         *)
EXTENDS DatasourceRecords, RiskRules

StoresSpec == RecordsSpec /\ RiskRulesSpec

(* Edits that cross lose no secret and pass no limit (UpdateDatasource),   *)
(* and the engine judges by the rules the store holds (ReloadFromStore).   *)
StoresSafe == RecordsSafe /\ RiskRulesSafe
=============================================================================
