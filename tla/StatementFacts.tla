---------------------------- MODULE StatementFacts ----------------------------
(* What the risk engine is told of a statement: the shapes of statements of  *)
(* each kind of datasource and the facts ParseStatement reads off them       *)
(* (internal/riskengine/parser.go, helpers.go, redis_intent.go;              *)
(* internal/console/sql_risk_facts.go, sql_statement.go, sql_analysis.go and *)
(* mongo_risk_facts.go).                                                     *)
(*                                                                           *)
(* A statement's text is the set of marks the rules' patterns look for; a    *)
(* table, collection or key is one of three entities, of which "v" is the    *)
(* one a D1 database may define as a view.                                   *)
EXTENDS Naturals, Sequences

Entities == {"a", "b", "v"}
SqlSources == {"mysql", "postgresql", "d1"}

\* Data-modifying CTEs, as the SQL parser sees them.
Ctes == [verb : {"select", "insert"}, where : {FALSE}, table : {"b"}]
          \cup [verb : {"update", "delete"}, where : BOOLEAN, table : {"b"}]

SqlVerbs == {"select", "insert", "update", "delete", "replace", "drop", "create",
             "grant", "call", "show", "explain", "vacuum"}

\* Verbs the parser of either dialect takes, and those it has a case for.
SqlAnalyzed == {"select", "insert", "update", "delete", "explain"}
SqlParsed == SqlAnalyzed \cup {"drop", "create", "grant", "show"}

SqlStatements ==
  [ds : SqlSources, top : {"select", "insert", "update", "delete"}, where : BOOLEAN, table : {"a", "v"},
   ctes : {<<>>} \cup {<<c>> : c \in Ctes}, count : {1, 2}, parses : BOOLEAN, marks : {{"values"}, {}}]
  \cup [ds : SqlSources, top : SqlVerbs, where : {FALSE}, table : {"a"},
        ctes : {<<>>}, count : {1}, parses : {TRUE}, marks : {{}}]

\* A mongo statement is JSON or shell text that parses, or shell text that
\* does not and is read by its prefix ("db.a.find(...).forEach(... remove)").
MongoActions == {"find", "aggregate", "insertone", "updatemany", "deletemany", "drop",
                 "createuser", "renamecollection", "serverstatus", "watch"}
MongoStatements ==
  [ds : {"mongodb"}, action : MongoActions \ {"aggregate"}, stages : {{}}, parses : BOOLEAN, marks : {{}, {"shellwrite"}, {"shelldrop"}}]
  \cup [ds : {"mongodb"}, action : {"aggregate"}, stages : {{}, {"join"}, {"out"}, {"join", "out"}},
        parses : BOOLEAN, marks : {{}}]

RedisCommands == {"set", "get", "mget", "keys", "hkeys", "flushall", "debug", "config",
                  "eval", "eval_ro", "evalsha", "fcall", "touch"}
RedisStatements == [ds : {"redis"}, cmd : RedisCommands, sub : {"", "set", "get"},
                    script : SUBSET {"set", "get", "keys", "flushall"}, key : {"a", "b"}]

EsMethods == {"GET", "POST", "PUT", "DELETE", "PATCH"}
EsPaths == {"_search", "_count", "_doc", "_delete_by_query", "_bulk", "_close", "_settings", "_refresh", "other"}
EsBodies == [query : {"none", "term", "broad"}, aggs : BOOLEAN, size : {"none", "small", "over"}, from : {"small", "deep"}]
EsStatements == [ds : {"elasticsearch"}, method : EsMethods, path : EsPaths, body : {{}} \cup {{b} : b \in EsBodies}]

\* The fields a DynamoDB WHERE clause names, p the partition key and s the
\* sort key of the table, i the partition key of its index.
DynamoStatements ==
  {st \in [ds : {"dynamodb"}, top : {"select", "insert", "update", "delete", "exists"}, where : BOOLEAN,
           fields : SUBSET {"p", "s", "i"}, or : BOOLEAN, not : BOOLEAN, index : {"", "known", "unknown"}] :
     /\ st.index # "" => st.top = "select"
     /\ ~st.where => st.fields = {} /\ ~st.or /\ ~st.not
     /\ st.top = "insert" => ~st.where}

-----------------------------------------------------------------------------
(* SQL *)

CteWrites(st, verb) == {i \in DOMAIN st.ctes : st.ctes[i].verb = verb}

\* The verb the analysis gives: the top statement's if it writes, else the
\* gravest of the CTEs'.
SqlVerbFromAnalysis(st) ==
  IF st.top \in {"delete", "update", "insert", "explain"} THEN st.top
  ELSE IF st.top # "select" THEN ""
  ELSE IF CteWrites(st, "delete") # {} THEN "delete"
  ELSE IF CteWrites(st, "update") # {} THEN "update"
  ELSE IF CteWrites(st, "insert") # {} THEN "insert" ELSE "select"

SqlHasWhereFromAnalysis(st, verb) ==
  IF st.top # verb /\ verb \in {"delete", "update"} /\ CteWrites(st, verb) # {}
  THEN \A i \in CteWrites(st, verb) : st.ctes[i].where
  ELSE st.where

SqlReads == {"select", "show", "describe", "explain", "pragma"}

CteTargets(st) == {st.ctes[i].table : i \in {j \in DOMAIN st.ctes : st.ctes[j].verb # "select"}}

SqlWriteEntities(st, verb) == (IF st.top = verb THEN {st.table} ELSE {}) \cup CteTargets(st)

\* The entity described: the statement's own, else the last CTE target of
\* the verb.
PrimarySqlEntity(st, verb) ==
  IF st.top = verb \/ verb \notin {"insert", "update", "delete"} THEN st.table
  ELSE st.ctes[CHOOSE i \in CteWrites(st, verb) : \A j \in CteWrites(st, verb) : j <= i].table

NoFacts == [verb |-> "", where |-> FALSE, query |-> FALSE, entity |-> "", entities |-> {}]

SqlRiskFactsFromAnalysis(st) ==
  LET verb == SqlVerbFromAnalysis(st) IN
  [verb |-> verb, where |-> SqlHasWhereFromAnalysis(st, verb),
   query |-> st.top = "select" /\ verb \in SqlReads,
   entity |-> PrimarySqlEntity(st, verb),
   entities |-> IF verb \in {"insert", "update", "delete"} THEN SqlWriteEntities(st, verb) ELSE {st.table}]

\* What the top level's words alone tell.
FallbackSqlRiskFacts(st) ==
  [verb |-> st.top, where |-> st.where, query |-> st.top \in SqlReads,
   entity |-> st.table, entities |-> {st.table}]

MergeFallback(facts, fallback) ==
  [verb |-> IF facts.verb = "" THEN fallback.verb ELSE facts.verb,
   where |-> facts.where \/ fallback.where,
   query |-> facts.query \/ (facts.verb \in {"", fallback.verb} /\ fallback.query),
   entity |-> IF facts.entity = "" THEN fallback.entity ELSE facts.entity,
   entities |-> IF facts.entities = {} THEN fallback.entities ELSE facts.entities]

SqlParses(st) == st.parses /\ st.top \in SqlParsed

\* The facts of the text alone, as they would be without an analysis.
TextualFacts(st) == FallbackSqlRiskFacts(st)

SqlRiskFacts(st) ==
  IF SqlParses(st) THEN MergeFallback(SqlRiskFactsFromAnalysis(st), FallbackSqlRiskFacts(st))
  ELSE FallbackSqlRiskFacts(st)

-----------------------------------------------------------------------------
(* Redis *)

RedisWrites == {"set", "flushall"}
RedisScripts == {"eval", "evalsha", "eval_ro", "fcall"}
RedisAdmin == {"flushall", "debug", "config"}
RedisLowRisk == {"get"}

RedisCommandClasses(cmd) ==
  (IF cmd \in RedisWrites THEN {"write"} ELSE {}) \cup (IF cmd \in RedisAdmin THEN {"admin"} ELSE {})
  \cup (IF cmd = "keys" THEN {"scan"} ELSE {}) \cup (IF cmd \in RedisScripts THEN {"script"} ELSE {})
  \cup (IF cmd \in RedisLowRisk THEN {"read"} ELSE {})

\* Only EVAL carries its source; a read-only script does not run its writes.
RedisScriptSource(st) == IF st.cmd \in {"eval", "eval_ro"} THEN st.script ELSE {}
ScriptAllowsWrites(st) == st.cmd # "eval_ro"
RunsInner(st) == {c \in RedisScriptSource(st) : ScriptAllowsWrites(st) \/ c \notin RedisWrites}

RedisClasses(st) ==
  LET inner == UNION {RedisCommandClasses(c) : c \in RedisScriptSource(st)} IN
  RedisCommandClasses(st.cmd)
    \cup IF st.cmd \notin RedisScripts THEN {}
         ELSE IF ScriptAllowsWrites(st) THEN inner ELSE inner \ {"write"}

-----------------------------------------------------------------------------
(* Facts of every kind *)

\* The command words a rule may name, the statement's classes and what the
\* patterns find in it.
Parsed(st) == [ds |-> st.ds, st |-> st, cmds |-> {}, classes |-> {}, method |-> "", marks |-> {}, where |-> FALSE,
               multi |-> FALSE, failed |-> FALSE, query |-> FALSE, entity |-> "", entities |-> {}, keys |-> {}]

ParseSql(st) ==
  LET facts == SqlRiskFacts(st) IN
  [Parsed(st) EXCEPT !.cmds = {facts.verb}, !.marks = st.marks, !.where = facts.where, !.multi = st.count > 1,
                     !.failed = ~SqlParses(st), !.query = facts.query,
                     !.entity = facts.entity, !.entities = facts.entities]

MongoReads == {"find", "aggregate", "getusers", "count", "serverstatus"}

\* Shell text that does not parse is a query when it reads like one.
MongoShellIsLowRisk(st) == st.action \in {"find", "aggregate"}

ParseMongo(st) ==
  [Parsed(st) EXCEPT !.cmds = {st.action}, !.marks = st.marks \cup st.stages,
                     !.query = IF st.parses THEN st.action \in MongoReads /\ "out" \notin st.stages
                               ELSE MongoShellIsLowRisk(st),
                     !.entity = "a",
                     !.entities = IF st.parses /\ st.stages # {} THEN {"a", "b"} ELSE {"a"}]

ParseRedis(st) ==
  [Parsed(st) EXCEPT !.cmds = {st.cmd} \cup RunsInner(st), !.classes = RedisClasses(st),
                     !.marks = IF st.cmd = "config" /\ st.sub = "set" THEN {"config set"} ELSE {},
                     !.query = st.cmd \in RedisLowRisk /\ RedisClasses(st) \subseteq {"read"},
                     !.keys = {st.key}]

ParseElasticsearch(st) ==
  [Parsed(st) EXCEPT !.cmds = {st.method}, !.method = st.method, !.marks = {st.path},
                     !.query = st.method \in {"GET", "HEAD"} \/ (st.method = "POST" /\ st.path = "_search"),
                     !.entity = "a", !.entities = {"a"}]

ParseDynamo(st) ==
  [Parsed(st) EXCEPT !.cmds = {st.top}, !.where = st.where, !.query = st.top = "select",
                     !.entity = IF st.top = "exists" THEN "" ELSE "a",
                     !.entities = IF st.top = "exists" THEN {} ELSE {"a"}]

ParseStatement(st) ==
  CASE st.ds \in SqlSources -> ParseSql(st)
    [] st.ds = "mongodb" -> ParseMongo(st)
    [] st.ds = "redis" -> ParseRedis(st)
    [] st.ds = "elasticsearch" -> ParseElasticsearch(st)
    [] st.ds = "dynamodb" -> ParseDynamo(st)
=============================================================================
