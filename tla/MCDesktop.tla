------------------------------ MODULE MCDesktop ------------------------------
(* Instances of the desktop app's components for TLC: its processes, its   *)
(* datasources, the console's pages, the sign-ins to the clouds, the risk  *)
(* rules, what they make of a statement, and the encrypted files.  They    *)
(* share nothing here: a behaviour exercises one of them, chosen at its    *)
(* start, and the others rest in their initial states.                     *)
EXTENDS DaemonLifecycle, Paging, DesktopStores, CloudSignIn, StatementRisk,
        LocalEncryption, TLC

CONSTANTS n1, n2, d1, d2, c1, c2, s1, s2, w1, w2, a1, b1, p1

Slots12 == n1 :> 2 @@ n2 :> 3
PortalListings == {<<>>, <<"a">>, <<"a", "b">>, <<"", "a">>}
CloudflareUsers == "p" :> {"a"} @@ "q" :> {"b", "c"}

\* The clients, the D1 datasources and the calls that edit rules are alike.
Alike == Permutations({c1, c2}) \cup Permutations({s1, s2})
           \cup Permutations({w1, w2})

\* The second rule is in a file of its own name; one written by hand is the
\* first rule's.
FewFiles ==
    /\ rrFiles[ByHand] # NoRule => rrFiles[ByHand].id = 1
    /\ \A n \in FileNames : rrFiles[n] # NoRule /\ rrFiles[n].id = 2 => n = <<2, "yaml">> /\ rrFiles[n].rule.code = 2

\* A user's rules for a table, a key and a kind of datasource.
Rule(action, scope, entity, cmds, strict) ==
  [prio |-> 70, action |-> action, any |-> {Named(cmds)}, by |-> "user",
   scope |-> scope, entity |-> entity, strict |-> strict]
RiskUserRules ==
  {Rule("block", "entity", "b", {}, FALSE), Rule("allow", "entity", "a", {}, FALSE),
   Rule("allow", "entity", "b", {}, FALSE), Rule("require_approval", "key", "b", {}, FALSE),
   Rule("allow", "type", "", {"select"}, TRUE)}

PlainSql(ds) == [ds |-> ds, top |-> "select", where |-> TRUE, table |-> IF ds = "d1" THEN "v" ELSE "a",
                 ctes |-> <<>>, count |-> 1, parses |-> TRUE, marks |-> {}]
PlainMongo == [ds |-> "mongodb", action |-> "find", stages |-> {}, parses |-> TRUE, marks |-> {}]
Plain(ds) == IF ds = "mongodb" THEN PlainMongo ELSE PlainSql(ds)
FirstStatement == PlainMongo

\* A plan no one would warn about.
GoodPlan(ds) ==
  CASE ds = "mysql" -> <<[type |-> "ref", rows |-> 1, note |-> ""]>>
    [] ds = "postgresql" -> <<[node |-> "index scan", rows |-> 1, sub |-> FALSE]>>
    [] ds = "mongodb" -> [stages |-> <<"IXSCAN">>, keys |-> 1, docs |-> 1]
    [] ds = "d1" -> <<[line |-> "SEARCH", entity |-> "a", index |-> TRUE]>>
    [] OTHER -> <<>>
GoodWorlds(st) ==
  [plan : {GoodPlan(st.ds)}, bases : {{"b"}},
   kind : IF st.ds = "d1" /\ st.table = "v" THEN {"table", "view"} ELSE {"table"}]

\* Every statement on one plan under every rule, and one statement of a
\* kind on every plan.  The rules change only under a statement on a view.
EveryStatement ==
  /\ srSt \in Statements /\ srWorld \in GoodWorlds(srSt)
  /\ srRules \in [user : {NoUserRule} \cup {r \in UserRules : r.action = "allow" /\ r.entity = "b" => srSt.ds = "d1"},
                   optIn : BOOLEAN, policy : {DefaultPolicy}]
  /\ srRules.optIn => Ps.cmds \cap {"insert", "insertone"} # {}
EveryPlan == \E ds \in SqlSources \cup {"mongodb"} :
  /\ srSt = Plain(ds) /\ srWorld \in Worlds(ds)
  /\ srRules \in [user : {NoUserRule} \cup {r \in UserRules : r.strict}, optIn : {FALSE}, policy : {DefaultPolicy}]
FirstRules == [user |-> NoUserRule, optIn |-> FALSE, policy |-> DefaultPolicy]
NoStatement == srSt = FirstStatement /\ srWorld \in GoodWorlds(srSt) /\ srRules = FirstRules
SwapsWhere == srSt \in {PlainSql("d1"), [PlainSql("d1") EXCEPT !.top = "delete"]} /\ srWorld.kind = "view"

\* Two processes over files of which one is there: the app and a daemon, or
\* the app and the command line.
KeyProcesses == a1 :> "app" @@ b1 :> "daemon" @@ p1 :> "cli"
OneFile ==
  /\ leDisk["datasources"].form # "newer" /\ leDisk["history"].form \in {"none", "plain"}
  /\ leDisk["session"].form # "v1"
  /\ Cardinality({f \in LeNames : leDisk[f].form # "none"}) = 1
  /\ leKeychain.legacy # NoKey <=> leDisk["datasources"].form = "v1"
NoFiles == /\ \A f \in LeNames : leDisk[f].form = "none"
           /\ leKeychain = [root |-> NoKey, legacy |-> NoKey, up |-> TRUE]

\* What a part rests in while another runs.
FirstQuery == CHOOSE x \in PgQueries : TRUE
NoRuleFiles == [n \in FileNames |-> NoRule]
FirstProfile == CHOOSE p \in CsProfiles : TRUE
FirstStore == CHOOSE s \in [CsSources -> SourceRecords] : TRUE

VARIABLE part

\* The datasources created in a behaviour are of one type.
OneType == \A c \in DsClients : dsOp'[c].pc = "create" => dsOp'[c].to.type = part

desktopVars == <<part, vars, pgvars, dsvars, csvars, rrvars, srvars, levars>>

DesktopInit ==
    /\ part \in {"lifecycle", "paging", "sql", "redis", "d1", "sso", "d1cloud", "rules", "assess", "keys_daemon", "keys_cli"}
    /\ Init
    /\ PgInit /\ (part = "paging" \/ (pgTable = PgRows /\ pgQuery = FirstQuery))
    /\ RecordsInit /\ \A i \in DsIds : dsItems[i].type \in {None, part}
    /\ CloudInit /\ (part = "sso" \/ csProfile = FirstProfile)
                 /\ (part = "d1cloud" \/ csStore = FirstStore)
    /\ RiskRulesInit /\ IF part = "rules" THEN FewFiles ELSE rrFiles = NoRuleFiles
    /\ LocalEncryptionInit /\ IF part \in {"keys_daemon", "keys_cli"} THEN OneFile ELSE NoFiles
    /\ \/ part = "assess" /\ (EveryStatement \/ EveryPlan)
       \/ part # "assess" /\ NoStatement
    /\ AssessmentStart
    /\ srSwaps > 0 => part = "assess" /\ SwapsWhere

DesktopNext ==
    /\ UNCHANGED part
    /\ \/ part = "lifecycle" /\ Next /\ UNCHANGED <<pgvars, dsvars, csvars, rrvars, srvars, levars>>
       \/ part = "paging" /\ PgNext /\ UNCHANGED <<vars, dsvars, csvars, rrvars, srvars, levars>>
       \/ part \in {"sql", "redis", "d1"} /\ RecordsNext /\ OneType /\ UNCHANGED <<vars, pgvars, csvars, rrvars, srvars, levars>>
       \/ part = "sso" /\ SsoNext /\ UNCHANGED <<vars, pgvars, dsvars, rrvars, srvars, levars>>
       \/ part = "d1cloud" /\ D1CloudNext /\ UNCHANGED <<vars, pgvars, dsvars, rrvars, srvars, levars>>
       \/ part = "rules" /\ RiskRulesNext /\ UNCHANGED <<vars, pgvars, dsvars, csvars, srvars, levars>>
       \/ part = "assess" /\ AssessmentNext /\ UNCHANGED <<vars, pgvars, dsvars, csvars, rrvars, levars>>
       \/ /\ LocalEncryptionNext /\ UNCHANGED <<vars, pgvars, dsvars, csvars, rrvars, srvars>>
          /\ \/ part = "keys_daemon" /\ leProc'[p1].pc = "off"
             \/ part = "keys_cli" /\ leProc'[b1].pc = "off"

DesktopSpec == DesktopInit /\ [][DesktopNext]_desktopVars
=============================================================================
