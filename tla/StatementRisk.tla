---------------------------- MODULE StatementRisk ----------------------------
(* The verdict on a statement before it runs: the shipped rules and a user's *)
(* rule are matched against its facts, a statement they allow or warn about  *)
(* is probed (its entity described, its plan explained), and the probe can   *)
(* only make the verdict stricter (internal/riskengine/guard.go, engine.go,  *)
(* condition_match.go, scope_match.go, builtin_*.go, probe_assess.go).       *)
(*                                                                           *)
(* The engine's lock is held for one question at a time, so the rules may be *)
(* changed between the rules' verdict, the probe's policy, and the same two  *)
(* questions about the tables below a view.                                  *)
EXTENDS StatementFacts, ExplainPlans, Integers

CONSTANTS UserRules, \* the rules a user may have set
          NoUserRule,
          RuleSwaps  \* bound on the changes of the rules while a call is under way

ASSUME StatementRiskAssumption ==
  /\ RuleSwaps \in Nat /\ NoUserRule \notin UserRules
  /\ \A r \in UserRules : /\ r.prio \in Int /\ r.action \in {"allow", "warn", "require_approval", "block"}
                          /\ r.by = "user" /\ r.scope \in {"type", "entity", "key"} /\ r.strict \in BOOLEAN

VARIABLES
  srSt,      \* the statement
  srWorld,   \* the database: the plan it gives, what the entity is
  srRules,   \* the user's rule, whether insert was opted in, the thresholds
  srPc,      \* the next step of the assessment
  srVerdict, \* the assessment
  srPolicy,  \* the probe's thresholds
  srProbe,   \* what the probe saw
  srFloor,   \* the rules' first verdict
  srSwaps,   \* changes left
  srSwapped  \* whether the rules were changed on the way

srvars == <<srSt, srWorld, srRules, srPc, srVerdict, srPolicy, srProbe, srFloor, srSwaps, srSwapped>>

Actions == <<"allow", "warn", "require_approval", "block">>
Severity(action) == CHOOSE i \in DOMAIN Actions : Actions[i] = action

\* The later of two verdicts, and the stricter.
LaterAssessment(v, w) == w
StricterAssessment(v, w) == IF Severity(w.action) > Severity(v.action) THEN w ELSE v

-----------------------------------------------------------------------------
(* Rules.  A condition holds of a statement when each of its parts does; a   *)
(* rule has one condition or any of several.                                 *)

Anything == [cmds |-> {}, classes |-> {}, methods |-> {}, where |-> BOOLEAN, multi |-> BOOLEAN,
             failed |-> BOOLEAN, marks |-> {}, unless |-> {}]
Named(cmds) == [Anything EXCEPT !.cmds = cmds]
Marked(marks) == [Anything EXCEPT !.marks = marks]
Request(methods, paths) == [Anything EXCEPT !.methods = methods, !.marks = paths]

ConditionMatches(c, ps) ==
  /\ c.cmds = {} \/ c.cmds \cap ps.cmds # {}
  /\ c.classes \subseteq ps.classes
  /\ c.methods = {} \/ ps.method \in c.methods
  /\ ps.where \in c.where /\ ps.multi \in c.multi /\ ps.failed \in c.failed
  /\ c.marks = {} \/ c.marks \cap ps.marks # {}
  /\ c.unless \cap ps.marks = {}

BuiltinRule(prio, action, any) ==
  [prio |-> prio, action |-> action, any |-> any, by |-> "builtin", scope |-> "type", entity |-> ""]

BuiltinSqlRules(optIn) ==
  { BuiltinRule(130, "block", {[Anything EXCEPT !.multi = {TRUE}]}),
    BuiltinRule(115, "require_approval", {Named({"call", "exec", "execute", "do"})}),
    BuiltinRule(100, "block", {Named({"drop", "truncate"}), Named({"grant", "revoke"})}),
    BuiltinRule(90, "block", {[Named({"delete", "update"}) EXCEPT !.where = {FALSE}]}),
    BuiltinRule(80, "require_approval", {[Named({"select", "insert", "update", "delete", "replace", "alter", "create",
                                             "drop", "truncate", "grant", "revoke", "explain"}) EXCEPT !.failed = {TRUE}]}),
    BuiltinRule(50, "warn", {[Named({"delete", "update"}) EXCEPT !.where = {TRUE}]}),
    BuiltinRule(40, "warn", {Named({"insert", "replace"}), Named({"alter", "create"})}),
    BuiltinRule(10, "allow", {Named({"select", "show", "describe", "explain"})}) }
  \cup IF optIn THEN {BuiltinRule(60, "allow", {[Named({"insert"}) EXCEPT !.marks = {"values"}]})} ELSE {}

BuiltinMongoRules(optIn) ==
  { BuiltinRule(100, "block", {Named({"drop", "dropdatabase", "createuser"}), Marked({"shelldrop"})}),
    BuiltinRule(70, "require_approval", {[Named({"aggregate"}) EXCEPT !.marks = {"out"}]}),
    BuiltinRule(60, "warn", {[Named({"aggregate"}) EXCEPT !.marks = {"join"}]}),
    BuiltinRule(60, "require_approval", {Named({"renamecollection", "collmod", "dropindexes", "reindex"})}),
    BuiltinRule(50, "warn", {Named({"deletemany", "updatemany", "insertone"})}),
    BuiltinRule(45, "warn", {Named({"serverstatus"})}),
    BuiltinRule(40, "warn", {Marked({"shellwrite"})}),
    BuiltinRule(10, "allow", {Named({"find", "aggregate", "getusers", "count"})}) }
  \cup IF optIn THEN {BuiltinRule(60, "allow", {Named({"insertone"})})} ELSE {}

BuiltinRedisRules ==
  { BuiltinRule(100, "block", {Named({"flushall", "debug"}), Marked({"config set"})}),
    BuiltinRule(70, "require_approval", {[Anything EXCEPT !.classes = {"script", "write"}]}),
    BuiltinRule(50, "warn", {Named({"set"}), Named({"keys"}), Named({"eval", "evalsha", "eval_ro", "fcall"}), Named({"config"})}),
    BuiltinRule(45, "warn", {Named({"hkeys"})}),
    BuiltinRule(10, "allow", {Named({"get", "mget", "debug"})}) }

BuiltinElasticsearchRules ==
  { BuiltinRule(110, "block", {Request({"POST"}, {"_delete_by_query"})}),
    BuiltinRule(100, "block", {Request({"DELETE"}, {})}),
    BuiltinRule(80, "require_approval", {Request({"POST"}, {"_bulk"}), Request({"POST", "PUT"}, {"_close"})}),
    BuiltinRule(75, "require_approval", {Request({"PUT", "POST", "PATCH"}, {"_settings"})}),
    BuiltinRule(55, "warn", {Request({"POST"}, {"_refresh"})}),
    BuiltinRule(50, "warn", {Request({"PUT", "PATCH"}, {}), [Request({"POST"}, {}) EXCEPT !.unless = {"_search", "_count"}]}),
    BuiltinRule(10, "allow", {Request({"POST"}, {"_search", "_count"}), Request({"GET", "HEAD"}, {})}) }

BuiltinDynamoRules(optIn) ==
  { BuiltinRule(90, "block", {[Named({"delete", "update"}) EXCEPT !.where = {FALSE}]}),
    BuiltinRule(50, "warn", {[Named({"delete", "update"}) EXCEPT !.where = {TRUE}]}),
    BuiltinRule(40, "warn", {Named({"insert"})}),
    BuiltinRule(10, "allow", {Named({"select"})}) }
  \cup IF optIn THEN {BuiltinRule(60, "allow", {Named({"insert"})})} ELSE {}

BuiltinRules(ds, optIn) ==
  CASE ds \in SqlSources -> BuiltinSqlRules(optIn)
    [] ds = "mongodb" -> BuiltinMongoRules(optIn)
    [] ds = "redis" -> BuiltinRedisRules
    [] ds = "elasticsearch" -> BuiltinElasticsearchRules
    [] ds = "dynamodb" -> BuiltinDynamoRules(optIn)

\* A rule for an entity or a key outranks one for a kind of datasource.
ScopePriority(r) == IF r.scope = "type" THEN 2 ELSE IF r.scope = "entity" THEN 4 ELSE 3
ScopeMatches(r, ps) ==
  CASE r.scope = "type" -> TRUE
    [] r.scope = "entity" -> r.entity \in ps.entities
    [] r.scope = "key" -> r.entity \in ps.keys

MatchingRules(rules, ps) ==
  {r \in BuiltinRules(ps.ds, rules.optIn) \cup ({rules.user} \ {NoUserRule}) :
     ScopeMatches(r, ps) /\ \E c \in r.any : ConditionMatches(c, ps)}

Outranks(r, q) ==
  \/ ScopePriority(r) > ScopePriority(q)
  \/ ScopePriority(r) = ScopePriority(q) /\ r.prio > q.prio
  \/ ScopePriority(r) = ScopePriority(q) /\ r.prio = q.prio /\ r.by = "user"

AssessParsed(rules, ps) ==
  LET matches == MatchingRules(rules, ps) IN
  IF matches # {}
  THEN LET winner == CHOOSE r \in matches : \A q \in matches \ {r} : Outranks(r, q) \/ ~Outranks(q, r)
       IN [action |-> winner.action, by |-> winner.by]
  ELSE IF ps.query THEN [action |-> "allow", by |-> "none"]
  ELSE IF ps.ds \in SqlSources THEN [action |-> "require_approval", by |-> "builtin"]
  ELSE [action |-> "warn", by |-> "none"]

-----------------------------------------------------------------------------
(* The probe's part of the verdict.                                          *)

\* A warning keeps the rule that gave it; an allowance takes the probe's.
EscalateToWarn(v) ==
  [action |-> "warn", by |-> IF v.action = "allow" \/ v.by = "none" THEN "probe" ELSE v.by]

SupportsExplain(ps) ==
  \/ ps.ds \in SqlSources /\ ps.cmds \cap {"select", "insert", "update", "delete", "replace"} # {}
  \/ ps.ds = "mongodb" /\ ps.cmds \cap {"find", "aggregate", "updatemany", "deletemany"} # {}

\* The view could not be read and the plan does not show a table either.
ViewUnverified(ps, probe) ==
  /\ ps.ds = "d1" /\ ps.entity # ""
  /\ \/ probe.view = "unparsed"
     \/ /\ probe.view = "undescribed" /\ probe.explain = "plan"
        /\ ContainsViewNode(srWorld.plan, ps.entity) \/ ~ReferencesTarget(srWorld.plan, ps.entity)

PlanReasons(ps, probe, policy) ==
  LET result == ExplainResult(ps.ds, srWorld.plan)
      safe == policy.safeScan /\ SeqScanIsSafe(result, policy) IN
  \/ IF probe.view = "resolved" /\ ViewScanned(srWorld.plan, srWorld.bases) THEN TRUE ELSE ~result.index /\ ~safe
  \/ result.examined = 0 /\ result.index /\ ~result.told
  \/ result.examined > IF safe THEN policy.seqRows ELSE policy.maxExamined
  \/ Risky(ps.ds, srWorld.plan, policy)

AssessSqlMongoProbe(v, ps, probe, policy) ==
  IF probe.explain = "skipped" THEN IF ViewUnverified(ps, probe) THEN EscalateToWarn(v) ELSE v
  ELSE IF probe.explain = "error" \/ ViewUnverified(ps, probe) \/ PlanReasons(ps, probe, policy)
  THEN EscalateToWarn(v) ELSE v

EsBodyRisks(body) == \E b \in body : b.query \in {"none", "broad"} \/ b.size = "over" \/ b.from = "deep"

AssessEsProbe(v, st) ==
  IF st.method \in {"POST", "GET", "HEAD"} /\ ~(st.method \in {"GET", "HEAD"} /\ st.path = "_doc") /\ EsBodyRisks(st.body)
  THEN EscalateToWarn(v) ELSE v

\* The partition key the statement must name: its table's or its index's.
PartitionKey(st) == IF st.index = "known" THEN "i" ELSE "p"
KeyedAccess(st) ==
  /\ st.where /\ ~st.not /\ st.index # "unknown"
  /\ PartitionKey(st) \in st.fields
  /\ st.or => st.fields = {PartitionKey(st)}

AssessDynamoProbe(v, st, probe) ==
  IF probe.view = "undescribed" \/ st.top = "exists" \/ ~KeyedAccess(st) THEN EscalateToWarn(v) ELSE v

AssessWithProbe(v, ps, probe, policy) ==
  CASE ps.ds \in SqlSources \cup {"mongodb"} -> AssessSqlMongoProbe(v, ps, probe, policy)
    [] ps.ds = "elasticsearch" -> AssessEsProbe(v, ps.st)
    [] ps.ds = "dynamodb" -> AssessDynamoProbe(v, ps.st, probe)
    [] OTHER -> v

-----------------------------------------------------------------------------
NoProbe == [view |-> "none", explain |-> "none"]
Unassessed == [action |-> "allow", by |-> "none"]

Statements == SqlStatements \cup MongoStatements \cup RedisStatements \cup EsStatements \cup DynamoStatements

\* The plans of a kind of datasource, with how its entity "v" is defined.
Plans(ds) ==
  CASE ds = "mysql" -> {<<r>> : r \in MysqlRows} \cup {<<r, q>> : r, q \in MysqlRows}
    [] ds = "postgresql" -> {<<n>> : n \in PgPlanNodes} \cup {<<n, m>> : n, m \in PgPlanNodes}
    [] ds = "mongodb" -> MongoPlans
    [] ds = "d1" -> {<<>>} \cup {<<l>> : l \in D1Lines} \cup {<<l, m>> : l, m \in D1Lines}
    [] OTHER -> {<<>>}

\* "v" is a table, or a view of the bases whose definition is given and can
\* be read, or cannot, or is not given.
Worlds(ds) == [plan : Plans(ds), kind : IF ds = "d1" THEN {"table", "view", "unreadable", "blank"} ELSE {"table"}, bases : {{"b"}}]

\* An assessment that has not begun.
AssessmentStart ==
  /\ srPc = "assess" /\ srVerdict = Unassessed /\ srPolicy = DefaultPolicy
  /\ srProbe = NoProbe /\ srFloor = Unassessed /\ srSwaps \in 0..RuleSwaps /\ srSwapped = FALSE

AssessmentInit ==
  /\ srSt \in Statements /\ srWorld \in Worlds(srSt.ds)
  /\ srRules \in [user : UserRules \cup {NoUserRule}, optIn : BOOLEAN, policy : ProbePolicies]
  /\ AssessmentStart

Ps == ParseStatement(srSt)

\* The statement as it names its entities.
PsAsNamed == Ps

\* The statement's own entity with the tables below the view it reads.
PsOfView == [Ps EXCEPT !.entities = {Ps.entity} \cup srWorld.bases]

\* A user's rule may carry thresholds of its own.
ProbePolicyFor(rules, ps) ==
  IF rules.user # NoUserRule /\ rules.user \in MatchingRules(rules, ps) /\ rules.user.strict
  THEN [rules.policy EXCEPT !.maxExamined = 1, !.safeScan = FALSE] ELSE rules.policy

Assess ==
  /\ srPc = "assess" /\ srPc' = "policy"
  /\ srVerdict' = AssessParsed(srRules, Ps)
  /\ srFloor' = srVerdict'
  /\ UNCHANGED <<srSt, srWorld, srRules, srPolicy, srProbe, srSwaps, srSwapped>>

ReadPolicy ==
  /\ srPc = "policy"
  /\ srPolicy' = ProbePolicyFor(srRules, Ps)
  /\ srPc' = IF srVerdict.action \in {"allow", "warn"} THEN "describe" ELSE "done"
  /\ UNCHANGED <<srSt, srWorld, srRules, srVerdict, srProbe, srFloor, srSwaps, srSwapped>>

\* Only D1 and DynamoDB entities are described; the call may fail.  A view
\* described without its definition is taken for a table.
Describe ==
  /\ srPc = "describe" /\ srPc' = "explain"
  /\ \/ Ps.ds \in {"d1", "dynamodb"} /\ Ps.entity # "" /\ srProbe' = [srProbe EXCEPT !.view = "undescribed"]
     \/ srProbe' = [srProbe EXCEPT !.view = IF Ps.ds # "d1" \/ Ps.entity # "v" \/ srWorld.kind \in {"table", "blank"} THEN "table"
                                            ELSE IF srWorld.kind = "view" THEN "resolved" ELSE "unparsed"]
  /\ UNCHANGED <<srSt, srWorld, srRules, srVerdict, srPolicy, srFloor, srSwaps, srSwapped>>

Explain ==
  /\ srPc = "explain"
  /\ IF SupportsExplain(Ps) THEN \E x \in {"plan", "error"} : srProbe' = [srProbe EXCEPT !.explain = x]
     ELSE srProbe' = [srProbe EXCEPT !.explain = "skipped"]
  /\ srPc' = IF srProbe.view = "resolved" THEN "reassess" ELSE "conclude"
  /\ UNCHANGED <<srSt, srWorld, srRules, srVerdict, srPolicy, srFloor, srSwaps, srSwapped>>

\* A statement on a view is judged again as one on the tables below it.
ReassessView ==
  /\ srPc = "reassess" /\ srPc' = "repolicy"
  /\ srVerdict' = StricterAssessment(srVerdict, AssessParsed(srRules, PsOfView))
  /\ UNCHANGED <<srSt, srWorld, srRules, srPolicy, srProbe, srFloor, srSwaps, srSwapped>>

ReadViewPolicy ==
  /\ srPc = "repolicy" /\ srPc' = "conclude"
  /\ srPolicy' = StricterPolicy(srPolicy, ProbePolicyFor(srRules, PsOfView))
  /\ UNCHANGED <<srSt, srWorld, srRules, srVerdict, srProbe, srFloor, srSwaps, srSwapped>>

Conclude ==
  /\ srPc = "conclude" /\ srPc' = "done"
  /\ srVerdict' = IF srVerdict.action \in {"allow", "warn"} THEN AssessWithProbe(srVerdict, Ps, srProbe, srPolicy)
                  ELSE srVerdict
  /\ UNCHANGED <<srSt, srWorld, srRules, srPolicy, srProbe, srFloor, srSwaps, srSwapped>>

\* The user's rule or the opt-in changes while the call is under way.
RulesReloaded ==
  /\ srPc # "done" /\ srSwaps > 0 /\ srSwaps' = srSwaps - 1 /\ srSwapped' = TRUE
  /\ \E u \in UserRules \cup {NoUserRule} : u # srRules.user /\ srRules' = [srRules EXCEPT !.user = u]
  /\ UNCHANGED <<srSt, srWorld, srPc, srVerdict, srPolicy, srProbe, srFloor>>

AssessmentNext == \/ Assess \/ ReadPolicy \/ Describe \/ Explain
                  \/ ReassessView \/ ReadViewPolicy \/ Conclude \/ RulesReloaded

AssessmentSpec == AssessmentInit /\ [][AssessmentNext]_srvars
-----------------------------------------------------------------------------
\* What a statement may change, whatever is read off its text.  A batch's
\* second statement and a function's or a cached script's body are not known.
MayWrite(st) ==
  CASE st.ds \in SqlSources -> \/ st.top \notin SqlReads \/ st.count > 1
                               \/ \E i \in DOMAIN st.ctes : st.ctes[i].verb # "select"
    [] st.ds = "mongodb" -> st.action \notin MongoReads \/ "out" \in st.stages \/ st.marks # {}
    [] st.ds = "redis" -> \/ st.cmd \in {"set", "flushall", "debug", "evalsha", "fcall"} \/ (st.cmd = "config" /\ st.sub = "set")
                          \/ st.cmd = "eval" /\ st.script \cap RedisWrites # {}
    [] st.ds = "elasticsearch" -> st.method \notin {"GET", "HEAD"} /\ ~(st.method = "POST" /\ st.path \in {"_search", "_count"})
    [] st.ds = "dynamodb" -> st.top # "select"

\* A statement that may write does not run unasked, unless a rule the user
\* made or turned on allows it ("Allow SELECT, SHOW, DESCRIBE, EXPLAIN").
WritesAsk == srPc = "done" /\ MayWrite(srSt) /\ srVerdict.action = "allow"
               => srFloor.by = "user" \/ (srRules.optIn /\ Ps.cmds \cap {"insert", "insertone"} # {})

\* The changes a SQL statement makes, its own and its CTEs'.
Change(verb, where) == [verb |-> verb, where |-> where]
Changes(st) == (IF st.top \in {"insert", "update", "delete"} THEN {Change(st.top, st.where)} ELSE {})
                 \cup {Change(st.ctes[i].verb, st.ctes[i].where) : i \in {j \in DOMAIN st.ctes : st.ctes[j].verb # "select"}}

\* One that deletes or updates every row of a table, and changes nothing
\* else, is blocked ("Block DELETE without WHERE - affects all rows").
EveryRowBlocked ==
  /\ srPc = "done" /\ srSt.ds \in SqlSources /\ srSt.parses /\ ~srSt.where
  /\ \E verb \in {"delete", "update"} : Changes(srSt) = {Change(verb, FALSE)}
  => srVerdict.action = "block" \/ srFloor.by = "user"

\* Neither the probe nor a change of the rules on the way makes a verdict
\* laxer than the rules' first one.
NeverLaxer == srPc \notin {"assess"} => Severity(srVerdict.action) >= Severity(srFloor.action)

\* What the rules say of a table they also say of a D1 view that reads it,
\* when its definition can be read.
ViewsSeenThrough ==
  LET base == [Ps EXCEPT !.entity = "b", !.entities = {"b"}] IN
  srPc = "done" /\ srProbe.view = "resolved" /\ ~srSwapped /\ srRules.user # NoUserRule /\ srRules.user.action # "allow"
    => Severity(srVerdict.action) >= Severity(AssessParsed(srRules, base).action)
       \/ srRules.user \notin MatchingRules(srRules, base)

\* A statement runs unasked only on a plan that was seen, which scans no
\* large table; a DynamoDB one only by the key it is stored under.  MySQL may
\* not tell how large: a user who allows two full scans lets such a one pass
\* beside a small one.
LargeScan(ds, plan, fulls) ==
  CASE ds = "mysql" -> \E i \in DOMAIN plan : plan[i].type = "ALL" /\ (plan[i].rows = 3 \/ (plan[i].rows = 0 /\ fulls = 1))
    [] ds = "postgresql" -> \E i \in DOMAIN plan : plan[i].node = "seq scan" /\ plan[i].rows = 3
    [] ds = "mongodb" -> \E i \in DOMAIN plan.stages : plan.stages[i] = "COLLSCAN" /\ plan.docs = 3
    [] ds = "d1" -> \A i \in DOMAIN plan : ~plan[i].index
    [] OTHER -> FALSE

ScansAsk ==
  srPc = "done" /\ srVerdict.action = "allow" =>
    /\ srProbe.explain # "error"
    /\ srProbe.explain = "plan" => ~LargeScan(srSt.ds, srWorld.plan, srPolicy.maxFull)
    /\ srSt.ds = "dynamodb" => srProbe.view = "table" /\ PartitionKey(srSt) \in srSt.fields

AssessSafe == WritesAsk /\ EveryRowBlocked /\ NeverLaxer /\ ViewsSeenThrough /\ ScansAsk
=============================================================================
