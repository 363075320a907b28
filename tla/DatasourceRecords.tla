-------------------------- MODULE DatasourceRecords --------------------------
(***************************************************************************)
(* The datasource store and those who edit it.  A client reads a record    *)
(* with its secrets masked, edits what it read and sends it back; the      *)
(* masked secrets are put back from the record as it is then, external     *)
(* references displace inline secrets, and the record is stored after more *)
(* work that takes time: of a Redis record the nodes are asked for, with   *)
(* its reference resolved.  Creations reserve their place under the plan's *)
(* limit first.  A form is tested only towards the target its reference is *)
(* saved with.  A sign-in to Cloudflare writes the new token into the      *)
(* records of D1 that use one, whatever they delegate.                     *)
(* Source: src/internal/datasource/{store,redaction,secretrefs}.go,        *)
(* src/app_datasource.go, src/internal/datasourceops/{service,helpers,     *)
(* provider_special}.go, src/internal/datasourcesecrets/manager.go,        *)
(* src/internal/planlimits.                                                *)
(***************************************************************************)
EXTENDS Naturals, FiniteSets

CONSTANTS
    DsIds,       \* datasources
    DsClients,   \* windows and agents
    DsLimit      \* datasources the plan allows; a plan without a limit is not checked

ASSUME RecordsAssumption == DsLimit \in Nat \ {0} /\ IsFiniteSet(DsIds)

VARIABLES
    dsItems,     \* [DsIds -> record]: the store's memory
    dsForm,      \* [DsClients -> what the client is editing]
    dsOp,        \* [DsClients -> the request under way]
    dsStray,     \* history: who resolved a reference towards a target not its own
    dsLost       \* history: an update lost a secret or left no address
dsvars == <<dsItems, dsForm, dsOp, dsStray, dsLost>>

None == "none"
Marker == "[REDACTED]"
NewToken == "t2"       \* the token of a sign-in
NoUri == [at |-> None, secret |-> None]
NoRecord == [type |-> None, host |-> None, pw |-> None, ref |-> None, uri |-> NoUri]
NoForm == [id |-> None]
NoOp == [pc |-> "idle"]

(* A record of a SQL server may have a connection URI in its place; one of
   D1 has a database for a host, and for a password an API token, which is
   an option: its reference is the option's. *)
Stored == {i \in DsIds : dsItems[i] # NoRecord}
Addressed(r) == r.host # None \/ r.uri # NoUri
HasToken(r) == r.type = "d1" => r.pw # None \/ r.ref # None
Target(r) == <<r.host, r.uri.at>>
Bindings == {<<dsItems[i].ref, Target(dsItems[i])>> : i \in {j \in Stored : dsItems[j].ref # None}}

-----------------------------------------------------------------------------

(* RedactDatasource: secrets are masked, references are shown.  A password
   is masked for its reference too, an option is not. *)
RedactDatasource(r) ==
    [r EXCEPT !.pw = IF r.pw # None \/ (r.ref # None /\ r.type # "d1") THEN Marker ELSE None,
              !.uri.secret = IF @ = None THEN None ELSE Marker]

\* Mutant: the reference behind a masked password is not put back.
RestoreInlineOnly(next, existing) ==
    [next EXCEPT !.pw = IF next.pw = Marker THEN existing.pw ELSE next.pw,
                 !.uri.secret = IF @ = Marker /\ existing.uri # NoUri THEN existing.uri.secret ELSE @]
RestoreOption(next, existing) ==
    [next EXCEPT !.pw = IF @ = Marker /\ existing.pw # None THEN existing.pw ELSE @]
RestorePassword(next, existing) ==
    LET ref == IF next.pw = Marker /\ next.ref = None THEN existing.ref ELSE next.ref
    IN  [next EXCEPT
           !.ref = ref,
           !.pw = CASE next.ref # None -> None
                    [] next.ref = None /\ @ = Marker /\ existing.pw # None -> existing.pw
                    [] next.ref = None /\ @ = Marker /\ existing.pw = None -> (IF ref # None THEN None ELSE Marker)
                    [] OTHER -> @]

RestoreRedactedDatasource(next, existing) ==
    LET restored == IF next.type = "d1" THEN RestoreOption(next, existing) ELSE RestorePassword(next, existing)
    IN  [restored EXCEPT !.uri.secret = IF @ = Marker /\ existing.uri # NoUri THEN existing.uri.secret ELSE @]

\* Mutant: only the field the reference names is cleared.
ClearPasswordOnly(r) == IF r.ref = None THEN r ELSE [r EXCEPT !.pw = None]
ClearInlineSecretsForRefs(r) == IF r.ref = None THEN r ELSE [r EXCEPT !.pw = None, !.uri = NoUri]

(* An inline URI counts only if no reference will displace it. *)
ValidateDataSourcePayload(p) == HasToken(p) /\ (p.host # None \/ (p.uri # NoUri /\ p.ref = None))

(* What a client makes of what it read: nothing, or one change.  A partial
   update leaves the references out. *)
UriEdits(v) ==
    {[v EXCEPT !.host = None, !.uri = [at |-> "h2", secret |-> "s2"]],
     [v EXCEPT !.host = None, !.ref = None, !.uri = [at |-> "h2", secret |-> "s2"]]}
    \cup (IF v.uri = NoUri THEN {} ELSE {[v EXCEPT !.uri.at = "h2"]})
Edits(v) ==
    {v, [v EXCEPT !.host = "h2"], [v EXCEPT !.pw = "s2", !.ref = None], [v EXCEPT !.ref = None],
     [v EXCEPT !.pw = None, !.ref = "r2"]}
    \cup (IF v.type = "sql" THEN UriEdits(v) ELSE {})

Payload(type, host, pw, ref, uri) == [type |-> type, host |-> host, pw |-> pw, ref |-> ref, uri |-> uri]
Fresh ==
    LET uri == [at |-> "h1", secret |-> "s1"]
    IN  {Payload("sql", "h1", "s1", None, NoUri), Payload("sql", None, None, None, uri),
         Payload("sql", "h1", "s1", "r1", uri), Payload("sql", None, None, "r1", uri)}
        \cup {Payload(type, "h1", "s1", ref, NoUri) : type \in {"redis", "d1"}, ref \in {None, "r1"}}

-----------------------------------------------------------------------------

(* The store changes its memory and saves it; when the save fails the client
   is told, but the memory has changed.  A form of a record that changes is
   no longer fresh. *)
Stale(items, forms) ==
    [c \in DsClients |-> IF forms[c] # NoForm /\ items[forms[c].id] # dsItems[forms[c].id]
                           THEN [forms[c] EXCEPT !.fresh = FALSE] ELSE forms[c]]
Save(items) ==
    /\ dsItems' = items
    /\ dsForm' = Stale(items, dsForm)

Idle(c) == dsOp[c] = NoOp
Begins(c, op) == dsOp' = [dsOp EXCEPT ![c] = op]
Returns(c) == dsOp' = [dsOp EXCEPT ![c] = NoOp]

OpenForm(c, i) ==
    /\ Idle(c) /\ dsForm[c] = NoForm /\ i \in Stored
    /\ \E p \in Edits(RedactDatasource(dsItems[i])) :
         dsForm' = [dsForm EXCEPT ![c] = [id |-> i, fresh |-> TRUE, sent |-> p]]
    /\ UNCHANGED <<dsItems, dsOp, dsStray, dsLost>>

(* What an update owes to a form opened on the record it read. *)
Keeps(base, sent, result) ==
    /\ result.pw = Marker => base.pw = Marker
    /\ result.uri.secret = Marker => base.uri.secret = Marker
    /\ sent.ref # None => result.ref = sent.ref /\ result.pw = None
    /\ sent.ref = None /\ sent.pw # Marker => result.pw = sent.pw /\ result.ref = None
    /\ sent.ref = None /\ sent.pw = Marker
         => result.pw = base.pw /\ result.ref = IF sent.type = "d1" THEN None ELSE base.ref
    /\ sent.uri.secret = Marker /\ result.ref = None => result.uri = [sent.uri EXCEPT !.secret = base.uri.secret]
    /\ sent.ref = base.ref \/ sent.pw # Marker => Addressed(result)
    /\ HasToken(result)

(* ResolveDatasource. *)
ResolveDatasource(r) == IF r.ref = None THEN {} ELSE {<<r.ref, Target(r)>>}

(* withRedisClusterNodesDiscovered: the server is asked for its nodes unless
   the record lists some, with the record as it would be stored. *)
Strays(r, who) == {who : binding \in ResolveDatasource(r) \ Bindings}
RedisClusterNodesDiscovered(r, who) ==
    IF r.type = "redis" THEN dsStray' \in {dsStray, dsStray \cup Strays(r, who)} ELSE UNCHANGED dsStray
\* A request that names another target or reference than the record has now.
Moves(sent, existing) == Target(sent) # Target(existing) \/ sent.ref \notin {None, existing.ref}

(* UpdateDatasource of the window and of the service: both read the record,
   then work on what they will store (Redis nodes, D1 metadata), which may
   fail, and store it whatever came between. *)
UpdateBegins(c) ==
    /\ Idle(c) /\ dsForm[c] # NoForm
    /\ LET f == dsForm[c]
           existing == dsItems[f.id]
           restored == RestoreRedactedDatasource(f.sent, existing)
           result == ClearInlineSecretsForRefs(restored)
       IN  IF ValidateDataSourcePayload(f.sent) /\ f.id \in Stored
             THEN /\ Begins(c, [pc |-> "update", id |-> f.id, to |-> result,
                                lost |-> f.fresh /\ ~Keeps(existing, f.sent, result)])
                  /\ RedisClusterNodesDiscovered(restored, IF Moves(f.sent, existing) THEN "move" ELSE "update")
             ELSE UNCHANGED <<dsOp, dsStray>>
    /\ dsForm' = [dsForm EXCEPT ![c] = NoForm]
    /\ UNCHANGED <<dsItems, dsLost>>
UpdateStores(c) ==
    /\ dsOp[c].pc = "update"
    /\ LET o == dsOp[c] IN
         IF o.id \in Stored THEN Save([dsItems EXCEPT ![o.id] = o.to]) /\ dsLost' = (dsLost \/ o.lost)
         ELSE UNCHANGED <<dsItems, dsForm, dsLost>>
    /\ Returns(c)
    /\ UNCHANGED dsStray
UpdateFails(c) ==
    /\ dsOp[c].pc \in {"update", "create"}
    /\ Returns(c)
    /\ UNCHANGED <<dsItems, dsForm, dsStray, dsLost>>

(* SetDatasourceTrustLevel stores the record it read, whatever came between. *)
SetTrustLevelReads(c, i) ==
    /\ Idle(c) /\ dsForm[c] = NoForm /\ i \in Stored
    /\ Begins(c, [pc |-> "trust", id |-> i, to |-> dsItems[i]])
    /\ UNCHANGED <<dsItems, dsForm, dsStray, dsLost>>
SetTrustLevelStores(c) ==
    /\ dsOp[c].pc = "trust"
    /\ IF dsOp[c].id \in Stored THEN Save([dsItems EXCEPT ![dsOp[c].id] = dsOp[c].to])
       ELSE UNCHANGED <<dsItems, dsForm>>
    /\ Returns(c)
    /\ UNCHANGED <<dsStray, dsLost>>

(* d1RefreshStoredTokens: the records of D1 as they were listed, those of
   the account that signed in, are stored one by one with the new token. *)
RenewalReads(c) ==
    /\ Idle(c) /\ dsForm[c] = NoForm
    /\ \E ids \in SUBSET {i \in Stored : dsItems[i].type = "d1"} :
         ids # {} /\ Begins(c, [pc |-> "renew", todo |-> ids, of |-> dsItems])
    /\ UNCHANGED <<dsItems, dsForm, dsStray, dsLost>>
RenewalStores(c) ==
    /\ dsOp[c].pc = "renew"
    /\ \E i \in dsOp[c].todo :
         /\ IF i \in Stored THEN Save([dsItems EXCEPT ![i] = [dsOp[c].of[i] EXCEPT !.pw = NewToken]])
            ELSE UNCHANGED <<dsItems, dsForm>>
         /\ IF dsOp[c].todo = {i} THEN Returns(c)
            ELSE Begins(c, [pc |-> "renew", todo |-> dsOp[c].todo \ {i}, of |-> dsOp[c].of])
    /\ UNCHANGED <<dsStray, dsLost>>

(* CreateChecked: the place is reserved and counted in one step; a save that
   fails here is undone in memory, see UpdateFails. *)
Pending == {c \in DsClients : dsOp[c].pc = "create"}
\* Mutant: the creations under way are not counted.
CountStored == Cardinality(Stored)
Count == Cardinality(Stored) + Cardinality(Pending)
GrantedToAgents(p) == p.ref = None

CreateReserves(c, i) ==
    /\ Idle(c) /\ dsForm[c] = NoForm /\ i \notin Stored /\ \A d \in Pending : dsOp[d].id # i
    /\ Count < DsLimit
    /\ \E p \in Fresh, granted \in BOOLEAN :
         /\ ValidateDataSourcePayload(p) /\ (granted => GrantedToAgents(p))
         /\ Begins(c, [pc |-> "create", id |-> i, to |-> ClearInlineSecretsForRefs(p)])
         /\ RedisClusterNodesDiscovered(p, "create")
    /\ UNCHANGED <<dsItems, dsForm, dsLost>>
CreateStores(c) ==
    /\ dsOp[c].pc = "create"
    /\ Save([dsItems EXCEPT ![dsOp[c].id] = dsOp[c].to])
    /\ Returns(c)
    /\ UNCHANGED <<dsStray, dsLost>>

DeleteDatasource(i) ==
    /\ i \in Stored
    /\ Save([dsItems EXCEPT ![i] = NoRecord])
    /\ UNCHANGED <<dsOp, dsStray, dsLost>>

(* A form is tested only as a record that is stored as it is, its options,
   and so the token of D1, included. *)
\* Mutant: any form of a stored record is tested as it stands.
MatchesByReference(r, stored) == r.ref = stored.ref
SecretBackedConnectionMatchesStored(r, stored) ==
    [r EXCEPT !.pw = None] = [stored EXCEPT !.pw = None] /\ (r.type = "d1" => r.pw = stored.pw)
TestDatasourcePayload(c) ==
    /\ dsForm[c] # NoForm /\ ValidateDataSourcePayload(dsForm[c].sent)
    /\ LET f == dsForm[c]
           r == RestoreRedactedDatasource(f.sent, dsItems[f.id])
       IN  /\ r.ref # None => f.id \in Stored /\ SecretBackedConnectionMatchesStored(r, dsItems[f.id])
           /\ dsStray' = dsStray \cup Strays(r, "test")
    /\ UNCHANGED <<dsItems, dsForm, dsOp, dsLost>>

RecordsInit ==
    /\ \E r \in {NoRecord} \cup {ClearInlineSecretsForRefs(p) : p \in {q \in Fresh : ValidateDataSourcePayload(q)}} :
         dsItems = [i \in DsIds |-> IF i = CHOOSE j \in DsIds : TRUE THEN r ELSE NoRecord]
    /\ dsForm = [c \in DsClients |-> NoForm]
    /\ dsOp = [c \in DsClients |-> NoOp]
    /\ dsStray = {} /\ dsLost = FALSE

RecordsNext ==
    \/ \E c \in DsClients, i \in DsIds : OpenForm(c, i) \/ SetTrustLevelReads(c, i) \/ CreateReserves(c, i)
    \/ \E c \in DsClients :
         \/ UpdateBegins(c) \/ UpdateStores(c) \/ UpdateFails(c) \/ SetTrustLevelStores(c)
         \/ CreateStores(c) \/ TestDatasourcePayload(c) \/ RenewalReads(c) \/ RenewalStores(c)
    \/ \E i \in DsIds : DeleteDatasource(i)

RecordsSpec == RecordsInit /\ [][RecordsNext]_dsvars

-----------------------------------------------------------------------------

(* However edits, creations, renewals and deletions interleave:
   an update keeps every secret its form left masked and never stores the
   mask (of a record nobody else changed since the form was opened); no
   stored record has a secret beside the reference that replaces it, but for
   the token a sign-in wrote into a record of D1; a reference is resolved
   towards a target it is not stored with, as the request reads the store,
   only to ask a Redis server for its nodes, ahead of a creation or of an
   update that names another target or reference than the record has by
   then, and never for a test; and creations that run together do not pass
   the plan's limit. *)
UpdatesKeepSecrets == ~dsLost
ReferencesStandAlone ==
    \A i \in DsIds : LET r == dsItems[i] IN
      r.ref # None => r.uri = NoUri /\ (r.pw = None \/ (r.type = "d1" /\ r.pw = NewToken))
ReferencesStayBound == dsStray \subseteq {"create", "move"}
LimitKept == Cardinality(Stored) + Cardinality(Pending) <= DsLimit
RecordsSafe == UpdatesKeepSecrets /\ ReferencesStandAlone /\ ReferencesStayBound /\ LimitKept
=============================================================================
