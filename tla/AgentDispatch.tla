--------------------------- MODULE AgentDispatch ---------------------------
(***************************************************************************)
(* One agent tool call from the daemon's auth gate through Dispatch to its *)
(* reply, run by any number of concurrent calls while the desktop user     *)
(* edits the identity store (revoke, expiry, scope, grants) and the        *)
(* datasource (trust level, schema consent, deletion).                     *)
(*                                                                         *)
(* Each action reads one shared store once: the identity store is read     *)
(* under its lock (CheckAccess), the datasource by one GetDatasource.      *)
(* Everything Dispatch decides between two reads belongs to the action of  *)
(* the first one.                                                          *)
(***************************************************************************)
EXTENDS RiskPolicy, Sequences, FiniteSets

CONSTANTS
  Calls,        \* concurrent tool.call requests
  Keys,         \* agent access keys
  Tools,        \* the kinds of tools agents call, a subset of ToolKinds
  Assessments,  \* the risk assessments statements can receive
  Scopes,       \* the datasource scopes a user gives a key
  GrantKinds,   \* the grants a user gives a key
  Trusts,       \* the trust levels a user gives the datasource
  Consents,     \* the schema consents a user gives the datasource
  Expiries,     \* the expiry settings a user gives a key
  StoreFaults   \* whether the identity store can fail to be read

(***************************************************************************)
(* One kind per path through Dispatch: "list" needs the whole inventory,   *)
(* "schema" is in schemaEgressTriggers, "exec" has AssessApproval, "rule", *)
(* "sensitivity" and "create" are the three grant tables, "update" is      *)
(* approval-gated without any bypass.                                      *)
(***************************************************************************)
ToolKinds == {"list", "schema", "exec", "rule", "sensitivity", "create", "update"}

ASSUME CallsAssumption == Calls # {} /\ Keys # {}
ASSUME PolicyAssumption ==
  /\ Tools \subseteq ToolKinds
  /\ Assessments \subseteq Assessment /\ Assessments # {}
  /\ Scopes \subseteq {"inherit", "listed", "unlisted"}
  /\ GrantKinds \subseteq {"sensitivity", "risk_rule", "datasource"}
  /\ Trusts \subseteq TrustLevels
  /\ Consents \subseteq BOOLEAN
  /\ Expiries \subseteq {"never", "ahead", "past"}
  /\ StoreFaults \in BOOLEAN

VARIABLES
  identity,  \* the identity store: one record per key
  ds,        \* the datasource the calls target
  logged,    \* keys inside the revoked-attempt throttle window
  pc,        \* where each call is in Dispatch
  req,       \* the tool, key and payload validity of each call
  bypass,    \* calls whose grant skips the approval prompt
  needs,     \* calls whose approval evaluation asked for a user
  risk,      \* the assessment each call received
  outcome,   \* how each call ended
  rows,      \* the audit rows each call appended
  egress,    \* the schema-privacy record each call left
  executed,  \* calls whose tool ran
  seen       \* observer: what was in force at some instant of each call

store == <<identity, ds>>
call  == <<pc, req, bypass, needs, risk, outcome, rows, egress, executed, logged>>
vars  == <<store, call, seen>>

Statuses == {"success", "error", "lost"}
Outcomes == {"none", "delivered", "tool_error", "unknown", "revoked", "expired",
             "signed_out", "forbidden", "blocked", "rejected"}
Stages   == {"idle", "access", "preflight", "assess", "gate", "execute",
             "recheck", "postflight", "reply", "done"}

Identity == [known : BOOLEAN, revoked : BOOLEAN, expiry : {"never", "ahead", "past"},
             scope : {"inherit", "listed", "unlisted"},
             grants : SUBSET {"sensitivity", "risk_rule", "datasource"}]
Datasource == [exists : BOOLEAN, trust : TrustLevels, consent : BOOLEAN]
Request == [key : Keys, tool : ToolKinds, valid : BOOLEAN]

----------------------------------------------------------------------------
\* Tables of dispatch.go and of the tool registry.
TargetsDatasource(tool) == tool \in {"schema", "exec", "update"}
ApprovalRequired(tool)  == tool \in {"exec", "rule", "create", "update"}
DangerousScopable(tool) == tool \in {"schema", "exec"}
\* Mutant: a rule-writing tool registered without its entry in riskRuleGrantTools.
RequiredGrantMissingEntry(tool) == IF tool = "sensitivity" THEN {"sensitivity"} ELSE {}
RequiredGrant(tool) ==
  CASE tool = "sensitivity" -> {"sensitivity"}
    [] tool = "rule"        -> {"risk_rule"}
    [] OTHER                -> {}

RequiresSignedInUser(tool) == RequiredGrant(tool) # {}

Live(id) == id.known /\ ~id.revoked /\ id.expiry # "past"

\* CheckDatasourceInventoryScope and CheckDatasourceScope.
InScope(id, tool) ==
  /\ tool = "list" => id.scope = "inherit"
  /\ TargetsDatasource(tool) => id.scope # "unlisted"

UsesManagementGrant(id, tool) == tool = "create" /\ "datasource" \in id.grants

\* The identity gates of Dispatch, steps 1 to 1.6, on one snapshot.
Permits(id, r) ==
  /\ InScope(id, r.tool)
  /\ RequiredGrant(r.tool) \subseteq id.grants
  /\ UsesManagementGrant(id, r.tool) => id.scope = "inherit" /\ r.valid

GrantBypass(id, tool) == tool = "rule" \/ UsesManagementGrant(id, tool)

(***************************************************************************)
(* What a request needs of its key, stated apart from the gates: the       *)
(* observer's reference for the gates above.                               *)
(***************************************************************************)
Entitled(id, r) ==
  /\ id.known /\ ~id.revoked /\ id.expiry \in {"never", "ahead"}
  /\ r.tool \in {"schema", "exec", "update"} => id.scope \in {"inherit", "listed"}
  /\ r.tool = "list" => id.scope = "inherit"
  /\ r.tool = "sensitivity" => "sensitivity" \in id.grants
  /\ r.tool = "rule" => "risk_rule" \in id.grants
  /\ r.tool = "create" => "datasource" \in id.grants /\ id.scope = "inherit" /\ r.valid

----------------------------------------------------------------------------
\* AppendToolCall: the row, or nothing when the store fails underneath it.
Audit(c, status) ==
  \E s \in IF StoreFaults THEN {status, "lost"} ELSE {status} :
    rows' = [rows EXCEPT ![c] = Append(@, s)]

Finish(c, how) == /\ pc' = [pc EXCEPT ![c] = "done"]
                  /\ outcome' = [outcome EXCEPT ![c] = how]

Goto(c, stage) == pc' = [pc EXCEPT ![c] = stage] /\ UNCHANGED outcome

\* Mutant: the post-execution recheck forgets to log.
LogRevokedBeforeRunOnly(c) ==
  LET k == req[c].key IN
  IF k \in logged \/ pc[c] = "recheck" THEN UNCHANGED <<rows, logged>>
  ELSE logged' = logged \cup {k} /\ Audit(c, "error")
\* Mutant: the throttle is keyed by the call.
LogRevokedPerCall(c) ==
  IF c \in logged THEN UNCHANGED <<rows, logged>>
  ELSE logged' = logged \cup {c} /\ Audit(c, "error")
\* LogRevokedAccess: one row per key and throttle window.
LogRevoked(c) ==
  LET k == req[c].key IN
  IF k \in logged THEN UNCHANGED <<rows, logged>>
                  ELSE logged' = logged \cup {k} /\ Audit(c, "error")

Refuse(c, how) == Audit(c, "error") /\ Finish(c, how)

----------------------------------------------------------------------------
Init ==
  /\ identity \in [Keys -> {id \in Identity : /\ ~id.revoked
                                             /\ id.expiry = "never"
                                             /\ id.scope = "inherit"
                                             /\ id.grants = {}}]
  /\ ds \in {d \in Datasource : d.exists /\ d.trust = "cautious" /\ ~d.consent}
  /\ logged = {} /\ bypass = {} /\ needs = {} /\ executed = {}
  /\ pc = [c \in Calls |-> "idle"]
  /\ req \in [Calls -> {r \in Request : r.tool \in Tools /\ (r.tool # "create" => r.valid)}]
  /\ risk \in [Calls -> Assessments]
  /\ outcome = [c \in Calls |-> "none"]
  /\ rows = [c \in Calls |-> <<>>]
  /\ egress = [c \in Calls |-> "none"]
  /\ seen = [permitted |-> {}, active |-> {}, consented |-> {},
             trusts |-> [c \in Calls |-> {}]]

\* CheckAccess fails: how the auth gate and Dispatch refuse the key.
RefuseKey(c) ==
  LET id == identity[req[c].key] IN
  \/ (~id.known \/ StoreFaults) /\ Finish(c, "unknown") /\ UNCHANGED <<rows, logged>>
  \/ id.known /\ id.revoked /\ Finish(c, "revoked") /\ LogRevoked(c)
  \/ id.known /\ ~id.revoked /\ id.expiry = "past"
     /\ Refuse(c, "expired") /\ UNCHANGED logged

\* The daemon's auth gate, before Dispatch: the key, and for the tools that
\* change policy a signed-in user, who may be missing at any time.
AuthGate(c) ==
  LET id == identity[req[c].key] IN
  /\ pc[c] = "idle"
  /\ \/ RefuseKey(c)
     \/ Live(id) /\ RequiresSignedInUser(req[c].tool)
        /\ Refuse(c, "signed_out") /\ UNCHANGED logged
     \/ Live(id) /\ Goto(c, "access") /\ UNCHANGED <<rows, logged>>
  /\ UNCHANGED <<store, req, bypass, needs, risk, egress, executed>>

\* Steps 1 to 1.6: CheckAccess again, then every gate that reads only its snapshot.
AccessCheck(c) ==
  LET r == req[c]  id == identity[r.key] IN
  /\ pc[c] = "access"
  /\ \/ RefuseKey(c) /\ UNCHANGED bypass
     \/ Live(id) /\ ~Permits(id, r)
        /\ Refuse(c, "forbidden") /\ UNCHANGED <<logged, bypass>>
     \/ /\ Live(id) /\ Permits(id, r) /\ Goto(c, "preflight")
        /\ bypass' = IF GrantBypass(id, r.tool) THEN bypass \cup {c} ELSE bypass
        /\ UNCHANGED <<rows, logged>>
  /\ UNCHANGED <<store, req, needs, risk, egress, executed>>

\* Mutant: the preflight already records the call as allowed.
PreflightRecordsAllow(c) ==
  /\ pc[c] = "preflight"
  /\ \/ /\ req[c].tool = "schema" => ds.exists /\ ds.consent
        /\ egress' = [egress EXCEPT ![c] = IF req[c].tool = "schema" THEN "allowed" ELSE @]
        /\ Goto(c, "assess") /\ UNCHANGED rows
     \/ /\ req[c].tool = "schema" /\ ~(ds.exists /\ ds.consent)
        /\ egress' = [egress EXCEPT ![c] = IF ds.exists THEN "denied" ELSE @]
        /\ Refuse(c, "forbidden")
  /\ UNCHANGED <<store, req, bypass, needs, risk, executed, logged>>
\* Step 1.7, SchemaEgressPreflight: deny-only, and closed on a lookup error.
Preflight(c) ==
  /\ pc[c] = "preflight"
  /\ \/ /\ req[c].tool = "schema" => ds.exists /\ ds.consent
        /\ Goto(c, "assess") /\ UNCHANGED <<rows, egress>>
     \/ /\ req[c].tool = "schema" /\ ~(ds.exists /\ ds.consent)
        /\ egress' = [egress EXCEPT ![c] = IF ds.exists THEN "denied" ELSE @]
        /\ Refuse(c, "forbidden")
  /\ UNCHANGED <<store, req, bypass, needs, risk, executed, logged>>

\* Step 2: AssessStatementApproval reads the datasource's trust level.
Assess(c) ==
  LET exec == req[c].tool = "exec" IN
  /\ pc[c] = "assess"
  /\ \/ exec /\ ~ds.exists /\ Finish(c, "tool_error") /\ UNCHANGED <<rows, needs>>
     \/ exec /\ ds.exists /\ Blocks(ds.trust, risk[c])
        /\ Refuse(c, "blocked") /\ UNCHANGED needs
     \/ /\ exec => ds.exists /\ ~Blocks(ds.trust, risk[c])
        /\ needs' = IF IF exec THEN NeedsApproval(ds.trust, risk[c])
                               ELSE ApprovalRequired(req[c].tool)
                    THEN needs \cup {c} ELSE needs
        /\ Goto(c, "gate") /\ UNCHANGED rows
  /\ UNCHANGED <<store, req, bypass, risk, egress, executed, logged>>

\* Mutant: danger mode overrides the write preview.
DangerBypassIgnoresPreview(c) ==
  DangerousScopable(req[c].tool) /\ ds.exists /\ ds.trust = "danger"
\* Step 3: IsDatasourceDangerous is a second, later read of the trust level.
DangerBypass(c) ==
  /\ DangerousScopable(req[c].tool)
  /\ ds.exists /\ ds.trust = "danger"
  /\ ~PreviewForcesApproval(risk[c])

\* Steps 3 and 3.5: what still needs approval is rejected, agents cannot approve.
Gate(c) ==
  LET run == c \notin needs \/ DangerBypass(c) \/ c \in bypass IN
  /\ pc[c] = "gate"
  /\ \/ run /\ Goto(c, "execute") /\ UNCHANGED rows
     \/ ~run /\ Refuse(c, "rejected")
  /\ UNCHANGED <<store, req, bypass, needs, risk, egress, executed, logged>>

\* Mutant: a failed tool returns without its audit row.
ExecuteErrorUnlogged(c) ==
  /\ pc[c] = "execute"
  /\ executed' = executed \cup {c}
  /\ \/ Finish(c, "tool_error") /\ UNCHANGED rows
     \/ /\ TargetsDatasource(req[c].tool) => ds.exists
        /\ Goto(c, "recheck") /\ UNCHANGED rows
  /\ UNCHANGED <<store, req, bypass, needs, risk, egress, logged>>
\* Step 4: the tool runs. A tool bound to a deleted datasource fails, and any
\* tool may fail on its own.
Execute(c) ==
  /\ pc[c] = "execute"
  /\ executed' = executed \cup {c}
  /\ \/ Refuse(c, "tool_error")
     \/ /\ TargetsDatasource(req[c].tool) => ds.exists
        /\ Goto(c, "recheck") /\ UNCHANGED rows
  /\ UNCHANGED <<store, req, bypass, needs, risk, egress, logged>>

\* Mutant: the recheck only looks at revocation.
RecheckRevokedOnly(c) ==
  /\ pc[c] = "recheck"
  /\ \/ identity[req[c].key].revoked /\ Finish(c, "revoked") /\ LogRevoked(c)
     \/ ~identity[req[c].key].revoked /\ Goto(c, "postflight") /\ UNCHANGED <<rows, logged>>
  /\ UNCHANGED <<store, req, bypass, needs, risk, egress, executed>>
\* Step 5: the key is looked up again. Only "revoked" and "expired" withhold the
\* result: any other error, a store that cannot be read, falls through.
Recheck(c) ==
  LET id == identity[req[c].key] IN
  /\ pc[c] = "recheck"
  /\ \/ id.revoked /\ Finish(c, "revoked") /\ LogRevoked(c)
     \/ ~id.revoked /\ id.expiry = "past" /\ Refuse(c, "expired") /\ UNCHANGED logged
     \/ (Live(id) \/ StoreFaults) /\ Goto(c, "postflight") /\ UNCHANGED <<rows, logged>>
  /\ UNCHANGED <<store, req, bypass, needs, risk, egress, executed>>

\* Mutant: the preflight's verdict is reused for the reply.
PostflightReusesPreflight(c) ==
  /\ pc[c] = "postflight"
  /\ egress' = [egress EXCEPT ![c] = IF req[c].tool = "schema" THEN "allowed" ELSE @]
  /\ Goto(c, "reply") /\ UNCHANGED rows
  /\ UNCHANGED <<store, req, bypass, needs, risk, executed, logged>>
\* Step 6, SchemaEgressPostflight: a fresh datasource read decides, and is recorded.
Postflight(c) ==
  LET schema == req[c].tool = "schema"  granted == ds.exists /\ ds.consent IN
  /\ pc[c] = "postflight"
  /\ egress' = [egress EXCEPT ![c] =
                 IF schema /\ ds.exists THEN IF granted THEN "allowed" ELSE "denied" ELSE @]
  /\ \/ (schema => granted) /\ Goto(c, "reply") /\ UNCHANGED rows
     \/ schema /\ ~granted /\ Refuse(c, "forbidden")
  /\ UNCHANGED <<store, req, bypass, needs, risk, executed, logged>>

Reply(c) ==
  /\ pc[c] = "reply"
  /\ Audit(c, "success") /\ Finish(c, "delivered")
  /\ UNCHANGED <<store, req, bypass, needs, risk, egress, executed, logged>>

CallStep(c) == \/ AuthGate(c) \/ AccessCheck(c) \/ Preflight(c) \/ Assess(c) \/ Gate(c)
               \/ Execute(c) \/ Recheck(c) \/ Postflight(c) \/ Reply(c)

----------------------------------------------------------------------------
(***************************************************************************)
(* The desktop user: each edit is one locked load-modify-save of a store.  *)
(***************************************************************************)
Edit(k, id) == /\ identity' = [identity EXCEPT ![k] = id]
               /\ UNCHANGED <<ds, call>>

Mint(k)      == ~identity[k].known /\ Edit(k, [identity[k] EXCEPT !.known = TRUE])
Revoke(k)    == identity[k].known /\ Edit(k, [identity[k] EXCEPT !.revoked = TRUE])
Unrevoke(k)  == identity[k].known /\ Edit(k, [identity[k] EXCEPT !.revoked = FALSE])

SetExpiresAt(k) == \E e \in Expiries :
  identity[k].known /\ Edit(k, [identity[k] EXCEPT !.expiry = e])

SetDatasourceScope(k) == \E s \in Scopes :
  identity[k].known /\ Edit(k, [identity[k] EXCEPT !.scope = s])

SetGrant(k) == \E g \in GrantKinds :
  /\ identity[k].known
  /\ \/ Edit(k, [identity[k] EXCEPT !.grants = @ \cup {g}])
     \/ Edit(k, [identity[k] EXCEPT !.grants = @ \ {g}])

\* The clock passes a key's expiry.
ExpiryPasses(k) == /\ identity[k].expiry = "ahead"
                   /\ Edit(k, [identity[k] EXCEPT !.expiry = "past"])

EditDatasource(d) == ds.exists /\ ds' = d /\ UNCHANGED <<identity, call>>

SetTrust         == \E t \in Trusts : EditDatasource([ds EXCEPT !.trust = t])
SetConsent       == \E b \in Consents : EditDatasource([ds EXCEPT !.consent = b])
DeleteDatasource == EditDatasource([ds EXCEPT !.exists = FALSE])

\* revokedAuditThrottle elapses for a key.
ThrottleElapses(k) ==
  /\ k \in logged /\ logged' = logged \ {k}
  /\ UNCHANGED <<store, pc, req, bypass, needs, risk, outcome, rows, egress, executed>>

Environment ==
  \/ \E k \in Keys : \/ Mint(k) \/ Revoke(k) \/ Unrevoke(k) \/ SetExpiresAt(k)
                     \/ SetDatasourceScope(k) \/ SetGrant(k) \/ ExpiryPasses(k)
                     \/ ThrottleElapses(k)
  \/ SetTrust \/ SetConsent \/ DeleteDatasource

(***************************************************************************)
(* The observer sees every state. For each call it collects, before the    *)
(* tool runs, whether the key permitted the request (permitted) and the    *)
(* trust levels in force (trusts); after it ran, whether the key was live  *)
(* (active) and the schema consent given (consented).                      *)
(***************************************************************************)
Before(stage) == stage \in {"access", "preflight", "assess", "gate", "execute"}
After(stage)  == stage \in {"recheck", "postflight", "reply"}

Observe(stage, ids, d) ==
  LET before == {c \in Calls : Before(stage[c])}
      after  == {c \in Calls : After(stage[c])}
      held(c) == ids[req[c].key] IN
  seen' =
    [permitted |-> seen.permitted \cup {c \in before : Entitled(held(c), req[c])},
     active    |-> seen.active \cup {c \in after : Live(held(c))},
     consented |-> seen.consented \cup {c \in after : d.exists /\ d.consent},
     trusts    |-> [c \in Calls |-> seen.trusts[c] \cup
                     {t \in TrustLevels : c \in before /\ d.exists /\ t = d.trust}]]

Next ==
  /\ (\E c \in Calls : CallStep(c)) \/ Environment
  /\ Observe(pc', identity', ds')

Spec == Init /\ [][Next]_vars

----------------------------------------------------------------------------
TypeOK ==
  /\ identity \in [Keys -> Identity] /\ ds \in Datasource
  /\ logged \subseteq Keys
  /\ pc \in [Calls -> Stages]
  /\ req \in [Calls -> Request]
  /\ bypass \subseteq Calls /\ needs \subseteq Calls /\ executed \subseteq Calls
  /\ risk \in [Calls -> Assessment]
  /\ outcome \in [Calls -> Outcomes]
  /\ rows \in [Calls -> Seq(Statuses)]
  /\ egress \in [Calls -> {"none", "allowed", "denied"}]
  /\ seen \in [permitted : SUBSET Calls, active : SUBSET Calls,
               consented : SUBSET Calls, trusts : [Calls -> SUBSET TrustLevels]]

(***************************************************************************)
(* A tool runs only for a call whose key, at one single instant of the     *)
(* call, was live and held every grant and scope the tool needs: the gates *)
(* of Dispatch judge one snapshot, never a mixture of two.                 *)
(***************************************************************************)
ExecutedWasPermitted == executed \subseteq seen.permitted

(***************************************************************************)
(* A statement runs only if the policy let it run unattended at a trust    *)
(* level that was in force at some instant of the call: the two reads of   *)
(* the trust level (assessment, danger bypass) never add up to a           *)
(* permission no single level gives, and a write whose preview is elevated *)
(* or unavailable never runs at any level.                                 *)
(***************************************************************************)
ExecutedWasAllowed ==
  \A c \in executed : req[c].tool = "exec" =>
    \E t \in seen.trusts[c] : MayAutoRun(t, risk[c])

\* No tool runs but by permission, no statement but by the policy: the two
\* parts above, over every call Dispatch executes.
ExecutionGated == ExecutedWasPermitted /\ ExecutedWasAllowed

(***************************************************************************)
(* A result reaches an agent only if its key was live at some instant      *)
(* after the tool ran: a revocation or expiry during the run withholds the *)
(* result, as long as the identity store can be read.                      *)
(***************************************************************************)
DeliveredKeyWasLive ==
  \A c \in Calls : outcome[c] = "delivered" => c \in seen.active \/ StoreFaults

(***************************************************************************)
(* A schema result reaches an agent only if the datasource still existed   *)
(* and consented at some instant after the tool read it.                   *)
(***************************************************************************)
DeliveredSchemaConsented ==
  \A c \in Calls : outcome[c] = "delivered" /\ req[c].tool = "schema" => c \in seen.consented

(***************************************************************************)
(* The schema-privacy log says "allowed" for exactly the schema results    *)
(* that shipped: a call withheld for any reason is never recorded as sent. *)
(***************************************************************************)
EgressRecordTruthful ==
  \A c \in Calls : pc[c] = "done" =>
    (egress[c] = "allowed" <=> outcome[c] = "delivered" /\ req[c].tool = "schema")

\* Steps 5 and 6 of Dispatch: what leaves was withheld neither by the key
\* nor by the consent, and is logged as sent exactly if it was.
ResultsGated == DeliveredKeyWasLive /\ DeliveredSchemaConsented /\ EgressRecordTruthful

(***************************************************************************)
(* The agent audit log agrees with the reply: one row at most per call, a  *)
(* "success" row only for a delivered result, and a row for every call     *)
(* whose tool ran, except the ones the revocation throttle silenced.       *)
(***************************************************************************)
AuditMatchesReply ==
  \A c \in Calls : pc[c] = "done" =>
    /\ Len(rows[c]) <= 1
    /\ rows[c] = <<"success">> => outcome[c] = "delivered"
    /\ c \in executed /\ outcome[c] # "revoked" => rows[c] # <<>>

(***************************************************************************)
(* "The first attempt always writes": whenever calls of a key ended as     *)
(* revoked, one of them appended a row, however they overlapped.           *)
(***************************************************************************)
RevocationLeavesTrail ==
  \A c \in Calls : outcome[c] = "revoked" =>
    \E d \in Calls : /\ req[d].key = req[c].key /\ outcome[d] = "revoked"
                     /\ rows[d] # <<>>

\* The audit rows of Dispatch tell what happened to every call, and of every
\* revoked key that it was used.
TrailKept == AuditMatchesReply /\ RevocationLeavesTrail

(***************************************************************************)
(* What audit_gate.go and step 5 of Dispatch promise: a revocation during  *)
(* the run leaves an audit row for that call. The throttle breaks it.      *)
(***************************************************************************)
MidflightRevokeAudited ==
  \A c \in executed : outcome[c] = "revoked" => rows[c] # <<>>
=============================================================================
