------------------------------ MODULE QueryMasking ------------------------------
(* How the values that an agent may not see are replaced in the result of a   *)
(* query: a SQL statement's columns are traced to the tables they come from   *)
(* (internal/console: sql_projection.go, sql_result_plan.go), a document's    *)
(* fields to the entities it was asked of, and what the classification        *)
(* restricts there is hashed (internal/sensitivity: masking.go,               *)
(* query_result.go).                                                          *)
(*                                                                            *)
(* A name is the tuple of its parts.  One row stands for all the rows of a    *)
(* SQL result, and no value is null.  The database itself is the reference:   *)
(* Sources says which tables' columns it computes each output from.           *)
EXTENDS Naturals, Sequences, FiniteSets, SequencesExt

CONSTANTS MkColumns, \* what columns the tables have
          MkFroms,   \* the FROM clauses: sequences of [schema, table, alias]
          MkLists,   \* the SELECT lists: sequences of [kind, refs]
          MkReports, \* the classifications: sets of [entity, field, level]
          MkConfigs, \* the levels: [ids, from, to]
          MkResults, \* the documents: [rows, of, asked, stages]
          MkDefault, \* the schema of an unqualified table
          MkExtra,   \* the column a table gains
          NoAlias

\* A table has columns, a statement reads tables that exist, of the schema of
\* an unqualified table, and T.* names T.  Documents asked of entities by
\* names that are classified are of those, unless a stage of an aggregation
\* (of MongoDB's) reads other collections.
ASSUME MaskingAssumption ==
  /\ MkDefault \in STRING /\ MkExtra \in STRING
  /\ \A c \in MkColumns : IsFiniteSet(DOMAIN c) /\ \A t \in DOMAIN c : c[t] \in Seq(STRING) /\ c[t] # <<>>
  /\ \A f \in MkFroms :
       /\ f \in Seq([schema : {"", MkDefault}, table : STRING, alias : STRING]) /\ f # <<>>
       /\ \A i \in DOMAIN f : f[i].table # NoAlias /\ \A c \in MkColumns : f[i].table \in DOMAIN c
  /\ \A l \in MkLists :
       /\ l # <<>> /\ l \in Seq([kind : {"star", "all", "expr"}, refs : SUBSET [table : Seq(STRING), column : STRING]])
       /\ \A i \in DOMAIN l : l[i].kind = "all" => \E r \in l[i].refs : l[i].refs = {r} /\ r.table # <<>>
  /\ \A c \in MkConfigs : c.from \in Nat /\ c.to \in Nat /\ \A l \in DOMAIN c.ids : c.ids[l] \in Nat
  /\ \A r \in MkResults : \A report \in MkReports :
       r.stages = {} /\ r.asked # {} /\ r.asked \subseteq {c.entity : c \in report} => r.of \subseteq r.asked

VARIABLES
  mkPc,       \* "executed", "planned" or "masked"
  mkAsk,      \* the statement, and what the database has
  mkReport,   \* the datasource's classification
  mkConfig,   \* the levels that agents may see
  mkPlan,     \* per column of a SQL result, where it comes from
  mkMasked,   \* the columns or fields that the result says were replaced
  mkHashed    \* of documents, the values that were

mkvars == <<mkPc, mkAsk, mkReport, mkConfig, mkPlan, mkMasked, mkHashed>>

NoName == <<>>
Reference(table, column) == [table |-> table, column |-> column]
Unit(x) == <<x>>
-----------------------------------------------------------------------------
(* What the database computes.                                                *)

Shown(ref) == IF ref.alias # NoAlias THEN {<<ref.alias>>}
              ELSE {<<ref.table>>} \cup (IF ref.schema = "" THEN {} ELSE {<<ref.schema, ref.table>>})
ColumnsOf(ask, ref) == ask.columns[ref.table]
Has(ask, ref, column) == column \in ToSet(ColumnsOf(ask, ref))
Listed(ask) == ToSet(ask.from)
Common(ask) == {c \in UNION {ToSet(ColumnsOf(ask, r)) : r \in Listed(ask)} : \A r \in Listed(ask) : Has(ask, r, c)}
FromColumn(ask, column) == {<<r.table, column>> : r \in {s \in Listed(ask) : Has(ask, s, column)}}
OfTable(ask, ref) == [i \in DOMAIN ColumnsOf(ask, ref) |-> {<<ref.table, ColumnsOf(ask, ref)[i]>>}]

RefSource(ask, r) ==
  IF r.table = NoName THEN FromColumn(ask, r.column)
  ELSE {<<t.table, r.column>> : t \in {s \in Listed(ask) : r.table \in Shown(s)}}

\* JOIN ... USING gives the common columns once, and first.
CommonFirst(ask) == [i \in 1..Cardinality(Common(ask)) |-> FromColumn(ask, SetToSeq(Common(ask))[i])]
NotCommon(ask, ref) ==
  LET kept == {i \in DOMAIN ColumnsOf(ask, ref) : ColumnsOf(ask, ref)[i] \notin Common(ask)}
      inOrder == CHOOSE f \in [1..Cardinality(kept) -> kept] : \A i, j \in DOMAIN f : i < j => f[i] < f[j] IN
  [i \in 1..Cardinality(kept) |-> OfTable(ask, ref)[inOrder[i]]]

ExprSources(ask, e) ==
  CASE e.kind = "star" /\ ~ask.using -> FlattenSeq([i \in DOMAIN ask.from |-> OfTable(ask, ask.from[i])])
    [] e.kind = "star" /\ ask.using ->
         FlattenSeq(<<CommonFirst(ask)>> \o [i \in DOMAIN ask.from |-> NotCommon(ask, ask.from[i])])
    [] e.kind = "all" ->
         LET r == CHOOSE r \in e.refs : TRUE
         IN OfTable(ask, CHOOSE t \in Listed(ask) : r.table \in Shown(t))
    [] OTHER -> Unit(UNION {RefSource(ask, r) : r \in e.refs})

Sources(ask) == FlattenSeq([i \in DOMAIN ask.list |-> ExprSources(ask, ask.list[i])])

\* The database takes the statement: every name means one thing to it.  An
\* alias that is also the name of another table of the statement is left out.
Accepted(ask) ==
  /\ \A i, j \in DOMAIN ask.from : i # j =>
       Shown(ask.from[i]) \cap Shown(ask.from[j]) = {} /\ ask.from[i].alias # ask.from[j].table
  /\ ask.using => Len(ask.from) = 2 /\ Common(ask) # {}
  /\ \A i \in DOMAIN ask.list : \A r \in ask.list[i].refs :
       IF r.table = NoName
       THEN Cardinality({t \in Listed(ask) : Has(ask, t, r.column)}) = 1 \/ (ask.using /\ r.column \in Common(ask))
       ELSE \E t \in Listed(ask) : r.table \in Shown(t) /\ (ask.list[i].kind = "all" \/ Has(ask, t, r.column))
-----------------------------------------------------------------------------
(* What the columns are traced to.  A table is described when the result has  *)
(* arrived: in vain, with no columns (it is not the datasource's own          *)
(* database), or with one more than the query saw.                            *)

DescribeOutcomes == {"told", "error", "empty", "grown"}
Told(ask, ref) == CASE ask.describe[ref.table] = "told" -> ColumnsOf(ask, ref)
                    [] ask.describe[ref.table] = "grown" -> Append(ColumnsOf(ask, ref), MkExtra)
                    [] OTHER -> <<>>

\* newSQLProjectionResolver: an alias or a full name before a bare one.
FullName(ref) == IF ref.schema = "" THEN <<ref.table>> ELSE <<ref.schema, ref.table>>
ResolveTable(ask, name) ==
  LET strong == {i \in DOMAIN ask.from : <<ask.from[i].alias>> = name \/ FullName(ask.from[i]) = name}
      bare == {i \in DOMAIN ask.from : <<ask.from[i].table>> = name} IN
  {ask.from[i] : i \in IF strong # {} THEN {CHOOSE i \in strong : \A j \in strong : j <= i}
                       ELSE {i \in bare : \A j \in bare : i <= j}}

Origin(ref, column) == [schema |-> ref.schema, table |-> ref.table, column |-> column]

\* resolveColumnRef: no origin, or one.
SoleTable(ask) == {t \in Listed(ask) : Len(ask.from) = 1}
ResolveUnqualified(ask, column) ==
  LET having == {i \in DOMAIN ask.from : column \in ToSet(Told(ask, ask.from[i]))} IN
  IF \E t \in Listed(ask) : ask.describe[t.table] = "error" THEN {}
  ELSE CASE Cardinality(having) = 1 -> {Origin(ask.from[i], column) : i \in having}
         [] having = {} -> {Origin(t, column) : t \in SoleTable(ask)}
         [] OTHER -> {}
ResolveColumnRef(ask, r) == IF r.table = NoName THEN ResolveUnqualified(ask, r.column)
                            ELSE {Origin(t, r.column) : t \in ResolveTable(ask, r.table)}

Column(origins, conservative) == [origins |-> origins, conservative |-> conservative]
Conservative(n) == [i \in 1..n |-> Column({}, TRUE)]
ExpandTable(ask, ref) == [i \in DOMAIN Told(ask, ref) |-> Column({Origin(ref, Told(ask, ref)[i])}, FALSE)]

\* A column that reads something nobody can place is masked whatever it is.
AllUnplaced(ask, e) == \A r \in e.refs : ResolveColumnRef(ask, r) = {}
Unplaced(ask, e) == \E r \in e.refs : ResolveColumnRef(ask, r) = {}
BuildExprColumn(ask, e) == Column(UNION {ResolveColumnRef(ask, r) : r \in e.refs}, e.refs # {} /\ Unplaced(ask, e))

StarTables(ask, e) == IF e.kind = "star" THEN ask.from
                      ELSE SetToSeq(UNION {ResolveTable(ask, r.table) : r \in e.refs})
PlanExpr(ask, e) ==
  IF e.kind = "expr" THEN Unit(BuildExprColumn(ask, e))
  ELSE FlattenSeq([i \in DOMAIN StarTables(ask, e) |-> ExpandTable(ask, StarTables(ask, e)[i])])
Expands(ask, e) ==
  e.kind = "expr" \/ (StarTables(ask, e) # <<>> /\ \A t \in ToSet(StarTables(ask, e)) : Told(ask, t) # <<>>)

\* buildSQLResultColumns: a plan that does not fit the result is no plan.
FitsOrLonger(planned, n) == Len(planned) >= n
Fits(planned, n) == Len(planned) = n
BuildSQLResultColumns(ask) ==
  LET n == Len(Sources(ask))
      planned == FlattenSeq([i \in DOMAIN ask.list |-> PlanExpr(ask, ask.list[i])]) IN
  IF ask.plain /\ (\A i \in DOMAIN ask.list : Expands(ask, ask.list[i])) /\ Fits(planned, n)
  THEN SubSeq(planned, 1, n) ELSE Conservative(n)
-----------------------------------------------------------------------------
(* What is replaced.                                                          *)

\* buildMaskSet, for one level: 0 to 0 opens every level that exists.
MustMask(config, level) ==
  level \in DOMAIN config.ids =>
    ~(config.from = 0 /\ config.to = 0) /\ (config.ids[level] < config.from \/ config.ids[level] > config.to)

BuildMaskSet(entities) ==
  {c.field : c \in {x \in mkReport : x.entity \in entities /\ MustMask(mkConfig, x.level)}}
Entities == {c.entity : c \in mkReport}

\* A table is classified under its own name, or with a schema: the one it is
\* read from, any if the statement names none.
SameNameOnly(origin) == {e \in Entities : e = <<origin.table>> \/ e = <<origin.schema, origin.table>>}
MatchingSQLOriginEntities(origin) ==
  {e \in Entities : e = <<origin.table>> \/ (Len(e) = 2 /\ e[2] = origin.table /\ origin.schema \in {"", e[1]})}

MaskSQLQueryResult(plan) ==
  IF mkReport = {} THEN {} ELSE
  {i \in DOMAIN plan : plan[i].conservative
     \/ \E o \in plan[i].origins : <<o.column>> \in BuildMaskSet(MatchingSQLOriginEntities(o))}

\* A hint is the entities asked of, but for an aggregation with a stage that is
\* known to join others: $graphLookup is not.
JoinStages == {"$lookup", "$unionWith", "$merge", "$out"}
AlwaysHints(result) == result.asked
SourceEntity(result) == IF result.stages \cap JoinStages = {} THEN result.asked ELSE {}

\* No hint, or a name nobody classified (an alias, a wildcard): every entity.
NamedEntities(hint) == Entities \cap hint
MaskedEntities(hint) == IF hint = {} \/ ~(hint \subseteq Entities) THEN Entities ELSE hint

NormalizeColumnName(path) == IF Len(path) > 1 /\ path[1] \in {"_source", "fields"} THEN Tail(path) ELSE path

\* inferColumnsFromRows: over all the rows; a key that has a dot in it is one.
RowColumns(row) == UNION {IF leaf.literal THEN {leaf.path} ELSE Prefixes(leaf.path) : leaf \in row}
OfFirstRow(rows) == RowColumns(CHOOSE row \in rows : TRUE)
InferColumns(rows) == UNION {RowColumns(row) : row \in rows}
ToMask(columns, hint) == {c \in columns : NormalizeColumnName(c) \in BuildMaskSet(MaskedEntities(hint))}

\* A column is a key of its own, or else a path into the row.
HashedLeaves(row, masked) ==
  {leaf \in row : \E m \in masked :
     IF leaf.literal THEN leaf.path = m
     ELSE m \in Prefixes(leaf.path) /\ ~\E other \in row : other.literal /\ other.path = m}
-----------------------------------------------------------------------------
(* ApplyQueryResultMasking.                                                   *)

SqlAsk(from, list, columns, describe, using, plain) ==
  [sql |-> TRUE, from |-> from, list |-> list, columns |-> columns, describe |-> describe,
   using |-> using, plain |-> plain]

\* At most one of the tables is not told as it was.
Describes(tables) == {d \in [tables -> DescribeOutcomes] : Cardinality({t \in tables : d[t] # "told"}) <= 1}

SqlAsks == {a \in UNION {{SqlAsk(f, l, c, d, u, p) : f \in MkFroms, l \in MkLists, d \in Describes(DOMAIN c),
                                                   u \in BOOLEAN, p \in BOOLEAN} : c \in MkColumns} : Accepted(a)}
DocumentAsks == {[sql |-> FALSE, rows |-> r.rows, of |-> r.of, asked |-> r.asked, stages |-> r.stages] : r \in MkResults}

QueryMaskingInit ==
  /\ mkPc = "executed" /\ mkAsk \in SqlAsks \cup DocumentAsks
  /\ mkReport \in MkReports /\ mkConfig \in MkConfigs
  /\ mkPlan = <<>> /\ mkMasked = {} /\ mkHashed = {}

PlanColumns ==
  /\ mkPc = "executed" /\ mkAsk.sql
  /\ mkPc' = "planned" /\ mkPlan' = BuildSQLResultColumns(mkAsk)
  /\ UNCHANGED <<mkAsk, mkReport, mkConfig, mkMasked, mkHashed>>

\* The fields and the levels are edited while the query runs.
Reclassifies ==
  /\ mkPc = "planned" /\ mkReport' \in MkReports /\ mkConfig' \in MkConfigs
  /\ UNCHANGED <<mkPc, mkAsk, mkPlan, mkMasked, mkHashed>>

\* The columns that nothing is known of are masked by their names, if any is
\* that of a restricted field; a row is then rebuilt from the other.
FallsBack(plan) == \A i \in DOMAIN plan : plan[i].origins = {} /\ ~plan[i].conservative
MasksSql ==
  /\ mkPc = "planned" /\ mkPc' = "masked"
  /\ LET known == MaskSQLQueryResult(mkPlan)
         hint == {FullName(t) : t \in Listed(mkAsk)}
         restricted == BuildMaskSet(MaskedEntities(hint)) # {} IN
     \E named \in IF known = {} /\ FallsBack(mkPlan) /\ restricted THEN SUBSET DOMAIN mkPlan ELSE {{}} :
       mkMasked' = known \cup named
  /\ UNCHANGED <<mkAsk, mkReport, mkConfig, mkPlan, mkHashed>>

MasksDocuments ==
  /\ mkPc = "executed" /\ ~mkAsk.sql /\ mkPc' = "masked"
  /\ mkMasked' = ToMask(InferColumns(mkAsk.rows), SourceEntity(mkAsk))
  /\ mkHashed' = {<<row, HashedLeaves(row, mkMasked')>> : row \in mkAsk.rows}
  /\ UNCHANGED <<mkAsk, mkReport, mkConfig, mkPlan>>

QueryMaskingNext == PlanColumns \/ Reclassifies \/ MasksSql \/ MasksDocuments
QueryMaskingSpec == QueryMaskingInit /\ [][QueryMaskingNext]_mkvars
-----------------------------------------------------------------------------
MaskedNow == mkPc = "masked"

\* A level that nobody knows, and "unconfirmed" is one, is not for agents.
Denied(level) ==
  \/ level \notin DOMAIN mkConfig.ids
  \/ ~(mkConfig.from = 0 /\ mkConfig.to = 0) /\ mkConfig.ids[level] \notin mkConfig.from..mkConfig.to
DeniedIn(entities) == {c.field : c \in {x \in mkReport : x.entity \in entities /\ Denied(x.level)}}

\* Nothing that the classification denies at the moment of masking is shown:
\* an output that the database computes from a denied column of a table, by
\* whichever of its names it is classified, is replaced, whatever the aliases,
\* the stars, USING, the expressions, the failures to describe a table and
\* the columns it gained since.  USING with a table told to have no columns is
\* left out: a common column is then traced to the other table alone.
DeniedColumnsMasked == MaskedNow /\ mkAsk.sql /\ ~(mkAsk.using /\ \E t \in Listed(mkAsk) : mkAsk.describe[t.table] = "empty") =>
  \A i \in DOMAIN Sources(mkAsk) :
    (\E s \in Sources(mkAsk)[i] : <<s[2]>> \in DeniedIn({<<s[1]>>, <<MkDefault, s[1]>>})) => i \in mkMasked

\* What nobody denies is shown, if the statement is one plain SELECT without
\* USING over tables told as they were.
OpenColumnsShown == MaskedNow /\ mkAsk.sql /\ mkAsk.plain /\ ~mkAsk.using /\ (\A t \in DOMAIN mkAsk.describe : mkAsk.describe[t] = "told") =>
  \A i \in DOMAIN Sources(mkAsk) :
    Sources(mkAsk)[i] # {} /\ i \in mkMasked =>
      \E s \in Sources(mkAsk)[i] : <<s[2]>> \in DeniedIn({e \in Entities : e[Len(e)] = s[1]})

\* The columns by which a value of a row may be classified: a path is left out
\* of a row that has a key which spells it.
FieldsOver(row, leaf) ==
  IF leaf.literal THEN {leaf.path}
  ELSE {m \in Prefixes(leaf.path) : ~\E other \in row : other.literal /\ other.path = m}

\* A denied field of a document is replaced wherever it lies: under an object,
\* in Elasticsearch's wrapper, as a key with dots in one row and as a path in
\* another, whether or not the hint names the entity it is of.  The fields of
\* a collection that only $graphLookup reads are excepted.
Covered(ask) == IF ask.stages = {} \/ ask.stages \cap JoinStages # {} THEN ask.of ELSE ask.of \cap ask.asked
DeniedFieldsMasked == MaskedNow /\ ~mkAsk.sql =>
  \A h \in mkHashed : \A leaf \in h[1] :
    (\E m \in FieldsOver(h[1], leaf) : NormalizeColumnName(m) \in DeniedIn(Covered(mkAsk))) => leaf \in h[2]

MaskingSafe == DeniedColumnsMasked /\ OpenColumnsShown /\ DeniedFieldsMasked
=============================================================================
