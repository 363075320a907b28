----------------------------- MODULE ExplainPlans -----------------------------
(* What a database answers when it is asked for a statement's plan and what  *)
(* the adapters and the risk engine read off it (internal/console/           *)
(* sql_explain.go, mongo_explain.go and d1_adapter.go;                       *)
(* internal/riskengine/probe.go and probe_assess.go).                        *)
(*                                                                           *)
(* Row counts are 0 (not told), 1 (within the examined limit), 2 (within the *)
(* limit for a scan of a small table) and 3 (beyond both).                   *)
EXTENDS Naturals, Sequences, FiniteSetsExt

Rows == 0..3

\* One row of MySQL's table, one node of PostgreSQL's tree (its root first),
\* a MongoDB plan's stages and totals, one line of SQLite's plan.
MysqlRows == [type : {"ALL", "ref"}, rows : Rows, note : {"", "temporary", "filesort", "subquery", "dependent"}]
PgPlanNodes == [node : {"seq scan", "index scan", "join", "sort", "aggregate"}, rows : Rows, sub : BOOLEAN]
MongoPlans == [stages : UNION {[1..n -> {"COLLSCAN", "IXSCAN", "SORT", "LOOKUP"}] : n \in 1..3}, keys : Rows, docs : Rows]
D1Lines == [line : {"SEARCH", "SCAN"}, entity : {"a", "b", "v"}, index : BOOLEAN]
             \cup [line : {"MATERIALIZE", "CO-ROUTINE"}, entity : {"v"}, index : {FALSE}]
             \cup [line : {"GROUP", "ORDER"}, entity : {""}, index : {FALSE}]

ProbePolicies == [maxExamined : 1..2, maxJoin : {1}, maxFull : 1..2, maxJoinRows : {4},
                  seqRows : 1..2, cost : {2}, safeScan : BOOLEAN]
DefaultPolicy == [maxExamined |-> 1, maxJoin |-> 1, maxFull |-> 1, maxJoinRows |-> 4,
                  seqRows |-> 2, cost |-> 2, safeScan |-> TRUE]

Lower(m, n) == IF n < m THEN n ELSE m
StricterPolicy(p, q) ==
  [f \in DOMAIN p |-> IF f = "safeScan" THEN p[f] /\ q[f] ELSE Lower(p[f], q[f])]

HowMany(s, P(_)) == Cardinality({i \in DOMAIN s : P(s[i])})
RowsOf(s, P(_)) == {0} \cup {s[i].rows : i \in {j \in DOMAIN s : P(s[j])}}

-----------------------------------------------------------------------------
(* The adapters: whether an index serves the statement, how many rows it     *)
(* examines, the largest table it scans and the plan's cost.                 *)

MysqlFull(row) == row.type = "ALL"
MysqlExplain(plan) ==
  [index |-> plan # <<>> /\ HowMany(plan, MysqlFull) = 0,
   examined |-> Max(RowsOf(plan, LAMBDA r : TRUE)),
   seq |-> Max(RowsOf(plan, MysqlFull)), cost |-> 0, told |-> FALSE]

PgSeq(node) == node.node = "seq scan"
PostgresExplain(plan) ==
  [index |-> HowMany(plan, PgSeq) = 0 /\ HowMany(plan, LAMBDA n : n.node = "index scan") > 0,
   examined |-> IF plan = <<>> THEN 0 ELSE plan[1].rows,
   seq |-> Max(RowsOf(plan, PgSeq)), cost |-> Len(plan) - 1, told |-> FALSE]

MongoExplain(plan) ==
  [index |-> HowMany(plan.stages, LAMBDA s : s = "IXSCAN") > 0 \/ plan.keys > 0,
   examined |-> Max({plan.keys, plan.docs}), seq |-> 0, cost |-> 0, told |-> FALSE]

\* SQLite tells no row counts: a plan that only searches is evidence enough.
D1Mixes(plan) == {"SEARCH", "SCAN"} \subseteq {plan[i].line : i \in DOMAIN plan}
D1Explain(plan) ==
  [index |-> HowMany(plan, LAMBDA l : l.index) > 0, examined |-> 0, seq |-> 0, cost |-> 0,
   told |-> ~D1Mixes(plan)]

ExplainResult(ds, plan) ==
  CASE ds = "mysql" -> MysqlExplain(plan)
    [] ds = "postgresql" -> PostgresExplain(plan)
    [] ds = "mongodb" -> MongoExplain(plan)
    [] ds = "d1" -> D1Explain(plan)

-----------------------------------------------------------------------------
(* AnalyzeExplainDetail: what else in a plan is a reason to warn.            *)

Product(plan) ==
  LET f[i \in 0..Len(plan)] == IF i = 0 THEN 1 ELSE f[i - 1] * (IF plan[i].rows = 0 THEN 1 ELSE plan[i].rows)
  IN f[Len(plan)]

MysqlRisky(plan, policy) ==
  \/ Len(plan) > policy.maxJoin + 1
  \/ HowMany(plan, MysqlFull) > policy.maxFull
  \/ HowMany(plan, LAMBDA r : r.note # "") > 0
  \/ Len(plan) > 1 /\ Product(plan) > policy.maxJoinRows

\* A sort's rows come as JSON numbers, which this reading does not take: a
\* large sort is no reason.
PostgresRisky(plan, policy) ==
  \/ HowMany(plan, LAMBDA n : n.node = "join") > policy.maxJoin
  \/ HowMany(plan, PgSeq) > policy.maxFull
  \/ HowMany(plan, LAMBDA n : n.sub) > 0

MongoRisky(plan, policy) ==
  LET scans == HowMany(plan.stages, LAMBDA s : s = "COLLSCAN") IN
  \/ scans > policy.maxFull
  \/ /\ plan.docs > policy.maxExamined
     /\ scans > 0 \/ HowMany(plan.stages, LAMBDA s : s \in {"SORT", "LOOKUP"}) > 0

Risky(ds, plan, policy) ==
  CASE ds = "mysql" -> MysqlRisky(plan, policy)
    [] ds = "postgresql" -> PostgresRisky(plan, policy)
    [] ds = "mongodb" -> MongoRisky(plan, policy)
    [] ds = "d1" -> FALSE

\* A scan of a table known to be small, in a plan known to be cheap.
SeqScanIsSafe(result, policy) ==
  /\ result.seq > 0 /\ result.seq <= policy.seqRows
  /\ result.cost > 0 => result.cost < policy.cost

-----------------------------------------------------------------------------
(* A D1 view.  The plan names the tables the view's definition reads, as     *)
(* EntityNameMap resolves them.                                              *)

ViewScanned(plan, bases) ==
  \E i \in DOMAIN plan : \/ plan[i].line = "SCAN" /\ plan[i].entity \in bases
                         \/ plan[i].line \in {"GROUP", "ORDER", "MATERIALIZE"}

ContainsViewNode(plan, entity) ==
  \E i \in DOMAIN plan : plan[i].line \in {"CO-ROUTINE", "MATERIALIZE"} /\ plan[i].entity = entity

ReferencesTarget(plan, entity) == \E i \in DOMAIN plan : plan[i].entity = entity
=============================================================================
