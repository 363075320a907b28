------------------------ MODULE AgentDispatch_proofs ------------------------
(***************************************************************************)
(* The safety of AgentDispatch for any number of calls and keys, any tools *)
(* and any statements. The invariants of the runs are not inductive: they  *)
(* speak of finished calls. IInv adds what is known of a call at each      *)
(* stage, and that the observer is up to date with the present state.      *)
(***************************************************************************)
EXTENDS AgentDispatch, TLAPS

\* Stages a call reaches only through the identity gates, or through the tool.
PastAccess == {"preflight", "assess", "gate", "execute", "recheck", "postflight", "reply"}
PastGate   == {"execute", "recheck", "postflight", "reply"}
PastRecheck == {"postflight", "reply"}

\* The observer holds what the present state shows.
SeenIsCurrent ==
  \A c \in Calls :
    /\ Before(pc[c]) /\ Entitled(identity[req[c].key], req[c]) => c \in seen.permitted
    /\ Before(pc[c]) /\ ds.exists => ds.trust \in seen.trusts[c]
    /\ After(pc[c]) /\ Live(identity[req[c].key]) => c \in seen.active
    /\ After(pc[c]) /\ ds.exists /\ ds.consent => c \in seen.consented

\* Why a call that passed a gate was entitled to.
GateInv ==
  \A c \in Calls :
    /\ c \in bypass => req[c].tool \in {"rule", "create"} /\ pc[c] \notin {"idle", "access"}
    /\ pc[c] \in PastAccess =>
         c \in seen.permitted \/ (req[c].tool = "create" /\ c \notin bypass)
    /\ pc[c] = "gate" /\ req[c].tool = "create" => c \in needs
    /\ pc[c] \in PastGate \/ c \in executed => c \in seen.permitted

\* Why a statement that passed the approval gate may run.
PolicyInv ==
  \A c \in Calls : req[c].tool = "exec" =>
    /\ pc[c] = "gate" /\ c \notin needs => \E t \in seen.trusts[c] : MayAutoRun(t, risk[c])
    /\ pc[c] \in PastGate \/ c \in executed =>
         \E t \in seen.trusts[c] : MayAutoRun(t, risk[c])

\* What the recheck and the postflight leave behind.
DeliveryInv ==
  \A c \in Calls :
    /\ pc[c] \in PastRecheck => c \in seen.active \/ StoreFaults
    /\ pc[c] = "reply" /\ req[c].tool = "schema" => c \in seen.consented
    /\ egress[c] = "allowed" => req[c].tool = "schema"
    /\ pc[c] \notin {"reply", "done"} => egress[c] # "allowed"
    /\ pc[c] = "reply" /\ req[c].tool = "schema" => egress[c] = "allowed"
    /\ pc[c] # "done" => outcome[c] = "none"

\* One row, written by the step that ends the call.
RowsInv ==
  /\ \A c \in Calls : pc[c] # "done" => rows[c] = <<>>
  /\ \A c \in executed : pc[c] \in {"recheck", "postflight", "reply", "done"}
  /\ \A k \in logged : \E d \in Calls :
       req[d].key = k /\ outcome[d] = "revoked" /\ rows[d] # <<>>

----------------------------------------------------------------------------
\* Appending an audit row touches one call's rows and keeps their type.
LEMMA AuditRow ==
  ASSUME TypeOK, NEW c \in Calls, NEW status \in Statuses, Audit(c, status)
  PROVE  /\ rows' \in [Calls -> Seq(Statuses)]
         /\ \E s \in Statuses : rows'[c] = Append(rows[c], s)
         /\ \A d \in Calls \ {c} : rows'[d] = rows[d]
<1>1. PICK s \in Statuses : rows' = [rows EXCEPT ![c] = Append(@, s)]
  BY DEF Audit, Statuses
<1>2. rows[c] \in Seq(Statuses) /\ rows \in [Calls -> Seq(Statuses)]
  BY DEF TypeOK
<1>3. Append(rows[c], s) \in Seq(Statuses)
  BY <1>2
<1> QED BY <1>1, <1>2, <1>3

\* Logging a revoked attempt is either silent, inside the window, or one row.
LEMMA LogRevokedEffect ==
  ASSUME TypeOK, NEW c \in Calls, LogRevoked(c)
  PROVE  \/ req[c].key \in logged /\ rows' = rows /\ logged' = logged
         \/ /\ logged' = logged \cup {req[c].key}
            /\ rows' \in [Calls -> Seq(Statuses)]
            /\ \E s \in Statuses : rows'[c] = Append(rows[c], s)
            /\ \A d \in Calls \ {c} : rows'[d] = rows[d]
<1>1. CASE req[c].key \in logged
  BY <1>1 DEF LogRevoked
<1>2. CASE req[c].key \notin logged
  <2>1. Audit(c, "error") /\ logged' = logged \cup {req[c].key}
    BY <1>2 DEF LogRevoked
  <2> QED BY <2>1, AuditRow DEF Statuses
<1> QED BY <1>1, <1>2

\* Rows change in one of two ways, and only for the call that steps.
LEMMA RowsFrame ==
  ASSUME TypeOK, NEW c \in Calls, CallStep(c)
  PROVE  /\ rows' \in [Calls -> Seq(Statuses)]
         /\ \A d \in Calls \ {c} : rows'[d] = rows[d]
         /\ rows'[c] = rows[c] \/ \E s \in Statuses : rows'[c] = Append(rows[c], s)
<1>1. \/ UNCHANGED rows \/ Audit(c, "error") \/ Audit(c, "success") \/ LogRevoked(c)
  BY DEF CallStep, AuthGate, RefuseKey, AccessCheck, Preflight, Assess, Gate, Execute, Recheck,
         Postflight, Reply, Refuse
<1>2. CASE UNCHANGED rows
  BY <1>2 DEF TypeOK
<1>3. CASE Audit(c, "error") \/ Audit(c, "success")
  BY <1>3, AuditRow DEF Statuses
<1>4. CASE LogRevoked(c)
  BY <1>4, LogRevokedEffect DEF TypeOK
<1> QED BY <1>1, <1>2, <1>3, <1>4

\* The throttle window only grows in a call's step, by the call's key.
LEMMA LoggedFrame ==
  ASSUME TypeOK, NEW c \in Calls, CallStep(c)
  PROVE  logged' = logged \/ (LogRevoked(c) /\ logged' = logged \cup {req[c].key})
<1>1. UNCHANGED logged \/ LogRevoked(c)
  BY DEF CallStep, AuthGate, RefuseKey, AccessCheck, Preflight, Assess, Gate, Execute, Recheck,
         Postflight, Reply
<1> QED BY <1>1, LogRevokedEffect

\* A step of one call keeps the types and leaves every other call alone.
LEMMA CallStepFrame ==
  ASSUME TypeOK, NEW c \in Calls, CallStep(c)
  PROVE  /\ identity' = identity /\ ds' = ds /\ req' = req /\ risk' = risk
         /\ pc' \in [Calls -> Stages] /\ outcome' \in [Calls -> Outcomes]
         /\ egress' \in [Calls -> {"none", "allowed", "denied"}]
         /\ bypass' \subseteq Calls
         /\ needs' \subseteq Calls /\ executed' \subseteq Calls
         /\ \A d \in Calls \ {c} :
              /\ pc'[d] = pc[d] /\ outcome'[d] = outcome[d] /\ egress'[d] = egress[d]
              /\ d \in executed' <=> d \in executed
              /\ d \in bypass' <=> d \in bypass
              /\ d \in needs' <=> d \in needs
<1>0. /\ pc \in [Calls -> Stages] /\ outcome \in [Calls -> Outcomes]
      /\ egress \in [Calls -> {"none", "allowed", "denied"}]
      /\ bypass \subseteq Calls /\ needs \subseteq Calls /\ executed \subseteq Calls
  BY DEF TypeOK
<1>1. CASE AuthGate(c)
  BY <1>0, <1>1 DEF AuthGate, RefuseKey, Goto, Finish, Refuse, Stages, Outcomes, store
<1>2. CASE AccessCheck(c)
  BY <1>0, <1>2 DEF AccessCheck, RefuseKey, Goto, Finish, Refuse, Stages, Outcomes, store
<1>3. CASE Preflight(c)
  BY <1>0, <1>3 DEF Preflight, Goto, Finish, Refuse, Stages, Outcomes, store
<1>4. CASE Assess(c)
  BY <1>0, <1>4 DEF Assess, Goto, Finish, Refuse, Stages, Outcomes, store
<1>5. CASE Gate(c)
  BY <1>0, <1>5 DEF Gate, Goto, Finish, Refuse, Stages, Outcomes, store
<1>6. CASE Execute(c)
  BY <1>0, <1>6 DEF Execute, Goto, Finish, Refuse, Stages, Outcomes, store
<1>7. CASE Recheck(c)
  BY <1>0, <1>7 DEF Recheck, Goto, Finish, Refuse, Stages, Outcomes, store
<1>8. CASE Postflight(c)
  BY <1>0, <1>8 DEF Postflight, Goto, Finish, Refuse, Stages, Outcomes, store
<1>9. CASE Reply(c)
  BY <1>0, <1>9 DEF Reply, Goto, Finish, Refuse, Stages, Outcomes, store
<1> QED BY <1>1, <1>2, <1>3, <1>4, <1>5, <1>6, <1>7, <1>8, <1>9 DEF CallStep

\* The user's edits and the clock touch no call, and shrink the window at most.
LEMMA EnvironmentFrame ==
  ASSUME TypeOK, Environment
  PROVE  /\ identity' \in [Keys -> Identity] /\ ds' \in Datasource
         /\ UNCHANGED <<pc, req, bypass, needs, risk, outcome, rows, egress, executed>>
         /\ logged' \subseteq logged
<1>0. identity \in [Keys -> Identity] /\ ds \in Datasource
  BY DEF TypeOK
<1>1. ASSUME NEW k \in Keys, NEW id \in Identity, Edit(k, id)
      PROVE  /\ identity' \in [Keys -> Identity] /\ ds' = ds /\ UNCHANGED call
  BY <1>0, <1>1 DEF Edit
<1>2. ASSUME NEW k \in Keys,
             Mint(k) \/ Revoke(k) \/ Unrevoke(k) \/ SetExpiresAt(k)
               \/ SetDatasourceScope(k) \/ SetGrant(k) \/ ExpiryPasses(k)
      PROVE  \E id \in Identity : Edit(k, id)
  <2>1. identity[k] \in Identity
    BY <1>0
  <2>2. /\ [identity[k] EXCEPT !.known = TRUE] \in Identity
        /\ [identity[k] EXCEPT !.revoked = TRUE] \in Identity
        /\ [identity[k] EXCEPT !.revoked = FALSE] \in Identity
        /\ [identity[k] EXCEPT !.expiry = "past"] \in Identity
    BY <2>1 DEF Identity
  <2>3. \A e \in Expiries : [identity[k] EXCEPT !.expiry = e] \in Identity
    BY <2>1, PolicyAssumption DEF Identity
  <2>4. \A sc \in Scopes : [identity[k] EXCEPT !.scope = sc] \in Identity
    BY <2>1, PolicyAssumption DEF Identity
  <2>5. \A g \in GrantKinds : /\ [identity[k] EXCEPT !.grants = @ \cup {g}] \in Identity
                              /\ [identity[k] EXCEPT !.grants = @ \ {g}] \in Identity
    BY <2>1, PolicyAssumption DEF Identity
  <2>6. CASE Mint(k) \/ Revoke(k) \/ Unrevoke(k) \/ ExpiryPasses(k)
    BY <2>6, <2>2, Zenon DEF Mint, Revoke, Unrevoke, ExpiryPasses
  <2>7. CASE SetExpiresAt(k)
    <3>1. PICK e \in Expiries : Edit(k, [identity[k] EXCEPT !.expiry = e])
      BY <2>7, Zenon DEF SetExpiresAt
    <3> QED BY <3>1, <2>3, Zenon
  <2>8. CASE SetDatasourceScope(k)
    <3>1. PICK sc \in Scopes : Edit(k, [identity[k] EXCEPT !.scope = sc])
      BY <2>8, Zenon DEF SetDatasourceScope
    <3> QED BY <3>1, <2>4, Zenon
  <2>9. CASE SetGrant(k)
    <3>1. PICK g \in GrantKinds : \/ Edit(k, [identity[k] EXCEPT !.grants = @ \cup {g}])
                                  \/ Edit(k, [identity[k] EXCEPT !.grants = @ \ {g}])
      BY <2>9, Zenon DEF SetGrant
    <3> QED BY <3>1, <2>5, Zenon
  <2> QED BY <1>2, <2>6, <2>7, <2>8, <2>9
<1>3. CASE SetTrust \/ SetConsent \/ DeleteDatasource
  BY <1>0, <1>3, PolicyAssumption
     DEF SetTrust, SetConsent, DeleteDatasource, EditDatasource, Datasource, call
<1>4. CASE \E k \in Keys : ThrottleElapses(k)
  BY <1>0, <1>4 DEF ThrottleElapses, store
<1>5. CASE \E k \in Keys : \/ Mint(k) \/ Revoke(k) \/ Unrevoke(k) \/ SetExpiresAt(k)
                            \/ SetDatasourceScope(k) \/ SetGrant(k) \/ ExpiryPasses(k)
  <2>1. \E k \in Keys, id \in Identity : Edit(k, id)
    BY <1>5, <1>2
  <2>2. identity' \in [Keys -> Identity] /\ ds' = ds /\ UNCHANGED call
    BY <2>1, <1>1
  <2> QED BY <1>0, <2>2 DEF call
<1> QED BY <1>3, <1>4, <1>5 DEF Environment

----------------------------------------------------------------------------
LEMMA TypeStep ==
  ASSUME TypeOK, Next
  PROVE  TypeOK'
<1>1. /\ seen'.permitted \subseteq Calls /\ seen'.active \subseteq Calls
      /\ seen'.consented \subseteq Calls
      /\ seen'.trusts \in [Calls -> SUBSET TrustLevels]
      /\ seen' = [permitted |-> seen'.permitted, active |-> seen'.active,
                  consented |-> seen'.consented, trusts |-> seen'.trusts]
  BY DEF Next, Observe, TypeOK
<1>2. seen' \in [permitted : SUBSET Calls, active : SUBSET Calls,
                 consented : SUBSET Calls, trusts : [Calls -> SUBSET TrustLevels]]
  BY <1>1
<1>3. CASE \E c \in Calls : CallStep(c)
  <2>1. PICK c \in Calls : CallStep(c)
    BY <1>3
  <2>2. req[c].key \in Keys
    BY DEF TypeOK, Request
  <2> QED BY <1>2, <2>1, <2>2, CallStepFrame, RowsFrame, LoggedFrame DEF TypeOK
<1>4. CASE Environment
  BY <1>2, <1>4, EnvironmentFrame DEF TypeOK
<1> QED BY <1>3, <1>4 DEF Next

\* The observer forgets nothing, and after a step it holds what the state shows.
LEMMA ObserverStep ==
  ASSUME TypeOK, Next
  PROVE  /\ SeenIsCurrent'
         /\ seen.permitted \subseteq seen'.permitted
         /\ seen.active \subseteq seen'.active
         /\ seen.consented \subseteq seen'.consented
         /\ \A c \in Calls : seen.trusts[c] \subseteq seen'.trusts[c]
         /\ req' = req /\ risk' = risk
<1>1. req' = req /\ risk' = risk
  BY CallStepFrame, EnvironmentFrame DEF Next
<1>2. ds' \in Datasource
  BY TypeStep DEF TypeOK
<1>3. /\ seen.permitted \subseteq seen'.permitted
      /\ seen.active \subseteq seen'.active
      /\ seen.consented \subseteq seen'.consented
      /\ \A c \in Calls : seen.trusts[c] \subseteq seen'.trusts[c]
  BY DEF Next, Observe
<1>4. ASSUME NEW c \in Calls
      PROVE  /\ Before(pc'[c]) /\ Entitled(identity'[req[c].key], req[c])
                  => c \in seen'.permitted
             /\ After(pc'[c]) /\ Live(identity'[req[c].key]) => c \in seen'.active
             /\ After(pc'[c]) /\ ds'.exists /\ ds'.consent => c \in seen'.consented
  BY DEF Next, Observe
<1>5. ASSUME NEW c \in Calls, Before(pc'[c]), ds'.exists
      PROVE  ds'.trust \in seen'.trusts[c]
  BY <1>2, <1>5 DEF Next, Observe, Datasource
<1> QED BY <1>1, <1>3, <1>4, <1>5 DEF SeenIsCurrent

----------------------------------------------------------------------------
\* The request of a call that the gates let through unaided is entitled.
LEMMA PermitsMeansEntitled ==
  ASSUME NEW id \in Identity, NEW r \in Request, Live(id), Permits(id, r)
  PROVE  \/ Entitled(id, r)
         \/ r.tool = "create" /\ ~GrantBypass(id, r.tool)
  BY DEF Identity, Request, ToolKinds, Live, Permits, Entitled, GrantBypass, InScope,
         RequiredGrant, UsesManagementGrant, TargetsDatasource

LEMMA GateStep ==
  ASSUME TypeOK, SeenIsCurrent, GateInv, Next
  PROVE  GateInv'
<1>0. /\ req' = req /\ seen.permitted \subseteq seen'.permitted
  BY ObserverStep
<1>1. CASE Environment
  BY <1>0, <1>1, EnvironmentFrame DEF GateInv
<1>2. CASE \E c \in Calls : CallStep(c)
  <2>1. PICK c \in Calls : CallStep(c)
    BY <1>2
  <2> DEFINE Holds(d) ==
        /\ d \in bypass' =>
             req[d].tool \in {"rule", "create"} /\ pc'[d] \notin {"idle", "access"}
        /\ pc'[d] \in PastAccess =>
             d \in seen'.permitted \/ (req[d].tool = "create" /\ d \notin bypass')
        /\ pc'[d] = "gate" /\ req[d].tool = "create" => d \in needs'
        /\ pc'[d] \in PastGate \/ d \in executed' => d \in seen'.permitted
  <2>2. ASSUME NEW d \in Calls \ {c}
        PROVE  Holds(d)
    BY <1>0, <2>1, <2>2, CallStepFrame DEF GateInv
  <2>t. /\ pc \in [Calls -> Stages] /\ req[c] \in Request
        /\ identity[req[c].key] \in Identity
    BY DEF TypeOK, Request
  <2>3. Holds(c)
    <3>1. CASE AuthGate(c)
      BY <1>0, <2>t, <3>1 DEF AuthGate, RefuseKey, Goto, Finish, Refuse, GateInv,
                              PastAccess, PastGate
    <3>2. CASE AccessCheck(c)
      <4>1. /\ \/ bypass' = bypass
               \/ bypass' = bypass \cup {c} /\ GrantBypass(identity[req[c].key], req[c].tool)
            /\ executed' = executed /\ needs' = needs
            /\ pc[c] = "access"
        BY <3>2 DEF AccessCheck, RefuseKey
      <4>2. CASE pc'[c] = "preflight"
        <5>1. /\ Live(identity[req[c].key]) /\ Permits(identity[req[c].key], req[c])
              /\ GrantBypass(identity[req[c].key], req[c].tool) => c \in bypass'
              /\ ~GrantBypass(identity[req[c].key], req[c].tool) => bypass' = bypass
          BY <3>2, <4>2, <2>t DEF AccessCheck, RefuseKey, Finish, Refuse
        <5>2. Entitled(identity[req[c].key], req[c]) => c \in seen'.permitted
          BY <1>0, <4>1 DEF SeenIsCurrent, Before
        <5>3. c \in seen'.permitted \/ (req[c].tool = "create" /\ c \notin bypass')
          <6>1. CASE Entitled(identity[req[c].key], req[c])
            BY <5>2, <6>1
          <6>2. CASE req[c].tool = "create" /\ ~GrantBypass(identity[req[c].key], req[c].tool)
            <7>1. c \notin bypass
              BY <4>1 DEF GateInv
            <7> QED BY <5>1, <6>2, <7>1
          <6> QED BY <2>t, <5>1, <6>1, <6>2, PermitsMeansEntitled
        <5> QED BY <1>0, <4>1, <4>2, <5>3 DEF GateInv, PastGate, GrantBypass, UsesManagementGrant
      <4>3. CASE pc'[c] = "done"
        BY <1>0, <4>1, <4>3 DEF GateInv, PastAccess, PastGate, GrantBypass, UsesManagementGrant
      <4> QED BY <3>2, <2>t, <4>2, <4>3 DEF AccessCheck, RefuseKey, Finish, Refuse, Goto
    <3>3. CASE Preflight(c)
      BY <1>0, <2>t, <3>3 DEF Preflight, Goto, Finish, Refuse, GateInv, PastAccess, PastGate
    <3>4. CASE Assess(c)
      BY <1>0, <2>t, <3>4 DEF Assess, Goto, Finish, Refuse, GateInv, PastAccess, PastGate,
                              ApprovalRequired
    <3>5. CASE Gate(c)
      BY <1>0, <2>t, <3>5 DEF Gate, Goto, Finish, Refuse, GateInv, PastAccess, PastGate,
                              DangerBypass, DangerousScopable
    <3>6. CASE Execute(c)
      BY <1>0, <2>t, <3>6 DEF Execute, Goto, Finish, Refuse, GateInv, PastAccess, PastGate
    <3>7. CASE Recheck(c)
      BY <1>0, <2>t, <3>7 DEF Recheck, Goto, Finish, Refuse, GateInv, PastAccess, PastGate
    <3>8. CASE Postflight(c)
      BY <1>0, <2>t, <3>8 DEF Postflight, Goto, Finish, Refuse, GateInv, PastAccess, PastGate
    <3>9. CASE Reply(c)
      BY <1>0, <2>t, <3>9 DEF Reply, Finish, GateInv, PastAccess, PastGate
    <3> QED BY <2>1, <3>1, <3>2, <3>3, <3>4, <3>5, <3>6, <3>7, <3>8, <3>9 DEF CallStep
  <2> QED BY <1>0, <2>2, <2>3 DEF GateInv
<1> QED BY <1>1, <1>2 DEF Next

----------------------------------------------------------------------------
\* Danger mode lets every statement run whose write preview is in order.
LEMMA DangerRuns ==
  ASSUME NEW a \in Assessment, ~PreviewForcesApproval(a)
  PROVE  MayAutoRun("danger", a)
  BY DEF MayAutoRun, Blocks, NeedsApproval, GateRequiresApproval

LEMMA PolicyStep ==
  ASSUME TypeOK, SeenIsCurrent, GateInv, PolicyInv, Next
  PROVE  PolicyInv'
<1>0. /\ req' = req /\ risk' = risk
      /\ \A c \in Calls : seen.trusts[c] \subseteq seen'.trusts[c]
  BY ObserverStep
<1>1. CASE Environment
  BY <1>0, <1>1, EnvironmentFrame DEF PolicyInv
<1>2. CASE \E c \in Calls : CallStep(c)
  <2>1. PICK c \in Calls : CallStep(c)
    BY <1>2
  <2> DEFINE MayRun(d) == \E t \in seen'.trusts[d] : MayAutoRun(t, risk[d])
             Holds(d) == req[d].tool = "exec" =>
               /\ pc'[d] = "gate" /\ d \notin needs' => MayRun(d)
               /\ pc'[d] \in PastGate \/ d \in executed' => MayRun(d)
  <2>2. ASSUME NEW d \in Calls \ {c}
        PROVE  Holds(d)
    BY <1>0, <2>1, <2>2, CallStepFrame DEF PolicyInv
  <2>t. pc \in [Calls -> Stages] /\ risk[c] \in Assessment
    BY DEF TypeOK
  <2>m. (\E t \in seen.trusts[c] : MayAutoRun(t, risk[c])) => MayRun(c)
    BY <1>0
  <2>e. req[c].tool = "exec" /\ c \in executed => MayRun(c)
    BY <2>m DEF PolicyInv
  <2>3. ASSUME req[c].tool = "exec"
        PROVE  Holds(c)
    <3> HIDE DEF MayRun
    <3>1. CASE AuthGate(c)
      BY <2>t, <2>e, <2>3, <3>1 DEF AuthGate, RefuseKey, Goto, Finish, Refuse, PastGate
    <3>2. CASE AccessCheck(c)
      BY <2>t, <2>e, <2>3, <3>2 DEF AccessCheck, RefuseKey, Goto, Finish, Refuse, PastGate
    <3>3. CASE Preflight(c)
      BY <2>t, <2>e, <2>3, <3>3 DEF Preflight, Goto, Finish, Refuse, PastGate
    <3>4. CASE Assess(c)
      <4>1. CASE pc'[c] = "gate" /\ c \notin needs'
        <5>1. ds.exists /\ MayAutoRun(ds.trust, risk[c])
          BY <2>3, <2>t, <3>4, <4>1 DEF Assess, Goto, Finish, Refuse, MayAutoRun
        <5>2. ds.trust \in seen.trusts[c]
          BY <3>4, <5>1 DEF Assess, SeenIsCurrent, Before
        <5> QED BY <2>e, <2>m, <4>1, <5>1, <5>2 DEF PastGate
      <4>2. CASE ~(pc'[c] = "gate" /\ c \notin needs')
        BY <2>3, <2>e, <2>t, <3>4, <4>2 DEF Assess, Goto, Finish, Refuse, PastGate
      <4> QED BY <4>1, <4>2
    <3>5. CASE Gate(c)
      <4>1. CASE pc'[c] = "execute"
        <5>1. c \notin bypass
          BY <2>3 DEF GateInv
        <5>2. CASE c \notin needs
          BY <2>3, <2>m, <2>t, <3>5, <4>1, <5>2 DEF Gate, PolicyInv
        <5>3. CASE DangerBypass(c)
          <6>1. ds.exists /\ ds.trust = "danger" /\ ~PreviewForcesApproval(risk[c])
            BY <5>3 DEF DangerBypass
          <6>2. ds.trust \in seen.trusts[c]
            BY <3>5, <6>1 DEF Gate, SeenIsCurrent, Before
          <6>3. MayRun(c)
            BY <2>m, <2>t, <6>1, <6>2, DangerRuns
          <6> QED BY <4>1, <6>3
        <5> QED BY <2>t, <3>5, <4>1, <5>1, <5>2, <5>3 DEF Gate, Finish, Refuse
      <4>2. CASE pc'[c] = "done"
        BY <2>e, <2>3, <3>5, <4>2 DEF Gate, PastGate
      <4> QED BY <2>t, <3>5, <4>1, <4>2 DEF Gate, Goto, Finish, Refuse
    <3>6. CASE Execute(c)
      BY <2>t, <2>m, <2>3, <3>6 DEF Execute, Goto, Finish, Refuse, PastGate, PolicyInv
    <3>7. CASE Recheck(c)
      BY <2>t, <2>m, <2>3, <3>7 DEF Recheck, Goto, Finish, Refuse, PastGate, PolicyInv
    <3>8. CASE Postflight(c)
      BY <2>t, <2>m, <2>3, <3>8 DEF Postflight, Goto, Finish, Refuse, PastGate, PolicyInv
    <3>9. CASE Reply(c)
      BY <2>t, <2>m, <2>3, <3>9 DEF Reply, Finish, PastGate, PolicyInv
    <3> QED BY <2>1, <3>1, <3>2, <3>3, <3>4, <3>5, <3>6, <3>7, <3>8, <3>9 DEF CallStep
  <2> QED BY <1>0, <2>2, <2>3 DEF PolicyInv
<1> QED BY <1>1, <1>2 DEF Next

----------------------------------------------------------------------------
Delivery == DeliveredKeyWasLive /\ DeliveredSchemaConsented /\ EgressRecordTruthful

LEMMA DeliveryStep ==
  ASSUME TypeOK, SeenIsCurrent, DeliveryInv, Delivery, Next
  PROVE  DeliveryInv' /\ Delivery'
<1> DEFINE Stage(d) ==
             /\ pc[d] \in PastRecheck => d \in seen.active \/ StoreFaults
             /\ pc[d] = "reply" /\ req[d].tool = "schema" => d \in seen.consented
             /\ egress[d] = "allowed" => req[d].tool = "schema"
             /\ pc[d] \notin {"reply", "done"} => egress[d] # "allowed"
             /\ pc[d] = "reply" /\ req[d].tool = "schema" => egress[d] = "allowed"
             /\ pc[d] # "done" => outcome[d] = "none"
           End(d) ==
             /\ outcome[d] = "delivered" => d \in seen.active \/ StoreFaults
             /\ outcome[d] = "delivered" /\ req[d].tool = "schema" => d \in seen.consented
             /\ pc[d] = "done" =>
                  (egress[d] = "allowed" <=> outcome[d] = "delivered" /\ req[d].tool = "schema")
<1>0. /\ req' = req
      /\ seen.active \subseteq seen'.active /\ seen.consented \subseteq seen'.consented
  BY ObserverStep
<1>i. \A d \in Calls : Stage(d) /\ End(d)
  BY DEF DeliveryInv, Delivery, DeliveredKeyWasLive, DeliveredSchemaConsented,
         EgressRecordTruthful
<1>1. CASE Environment
  <2>1. ASSUME NEW d \in Calls
        PROVE  Stage(d)' /\ End(d)'
    BY <1>0, <1>i, <1>1, EnvironmentFrame
  <2> QED BY <2>1 DEF DeliveryInv, Delivery, DeliveredKeyWasLive, DeliveredSchemaConsented,
                      EgressRecordTruthful
<1>2. CASE \E c \in Calls : CallStep(c)
  <2>1. PICK c \in Calls : CallStep(c)
    BY <1>2
  <2>2. ASSUME NEW d \in Calls \ {c}
        PROVE  Stage(d)' /\ End(d)'
    BY <1>0, <1>i, <2>1, <2>2, CallStepFrame
  <2>t. /\ pc \in [Calls -> Stages] /\ outcome \in [Calls -> Outcomes]
        /\ egress \in [Calls -> {"none", "allowed", "denied"}]
    BY DEF TypeOK
  <2>c. Stage(c) /\ End(c)
    BY <1>i
  <2>3. Stage(c)' /\ End(c)'
    <3>1. CASE AuthGate(c)
      BY <1>0, <2>t, <2>c, <3>1 DEF AuthGate, RefuseKey, Goto, Finish, Refuse, PastRecheck
    <3>2. CASE AccessCheck(c)
      BY <1>0, <2>t, <2>c, <3>2 DEF AccessCheck, RefuseKey, Goto, Finish, Refuse, PastRecheck
    <3>3. CASE Preflight(c)
      BY <1>0, <2>t, <2>c, <3>3 DEF Preflight, Goto, Finish, Refuse, PastRecheck
    <3>4. CASE Assess(c)
      BY <1>0, <2>t, <2>c, <3>4 DEF Assess, Goto, Finish, Refuse, PastRecheck
    <3>5. CASE Gate(c)
      BY <1>0, <2>t, <2>c, <3>5 DEF Gate, Goto, Finish, Refuse, PastRecheck
    <3>6. CASE Execute(c)
      BY <1>0, <2>t, <2>c, <3>6 DEF Execute, Goto, Finish, Refuse, PastRecheck
    <3>7. CASE Recheck(c)
      <4>1. pc[c] = "recheck" /\ (Live(identity[req[c].key]) => c \in seen.active)
        BY <3>7 DEF Recheck, SeenIsCurrent, After
      <4>2. CASE pc'[c] = "postflight"
        <5>1. /\ Live(identity[req[c].key]) \/ StoreFaults
              /\ egress' = egress /\ outcome' = outcome
          BY <2>t, <3>7, <4>2 DEF Recheck, Goto, Finish, Refuse
        <5> QED BY <1>0, <2>t, <2>c, <4>1, <4>2, <5>1 DEF PastRecheck
      <4>3. CASE pc'[c] = "done"
        <5>1. egress' = egress /\ outcome'[c] \in {"revoked", "expired"}
          BY <2>t, <3>7, <4>3 DEF Recheck, Goto, Finish, Refuse
        <5> QED BY <1>0, <2>t, <2>c, <4>1, <4>3, <5>1 DEF PastRecheck
      <4> QED BY <2>t, <3>7, <4>2, <4>3 DEF Recheck, Goto, Finish, Refuse
    <3>8. CASE Postflight(c)
      <4>1. pc[c] = "postflight" /\ (ds.exists /\ ds.consent => c \in seen.consented)
        BY <3>8 DEF Postflight, SeenIsCurrent, After
      <4> QED BY <1>0, <2>t, <2>c, <3>8, <4>1 DEF Postflight, Goto, Finish, Refuse, PastRecheck
    <3>9. CASE Reply(c)
      BY <1>0, <2>t, <2>c, <3>9 DEF Reply, Finish, PastRecheck
    <3> QED BY <2>1, <3>1, <3>2, <3>3, <3>4, <3>5, <3>6, <3>7, <3>8, <3>9 DEF CallStep
  <2> HIDE DEF Stage, End
  <2>4. \A d \in Calls : Stage(d)' /\ End(d)'
    BY <2>2, <2>3
  <2> QED BY <2>4 DEF Stage, End, DeliveryInv, Delivery, DeliveredKeyWasLive,
                      DeliveredSchemaConsented, EgressRecordTruthful
<1> QED BY <1>1, <1>2 DEF Next

----------------------------------------------------------------------------
Trail == AuditMatchesReply /\ RevocationLeavesTrail

\* How a step of a call moves on or ends it.
Continues(c) == /\ pc'[c] # "done" /\ UNCHANGED <<rows, logged, outcome>>
                /\ executed' = executed \/ (executed' = executed \cup {c} /\ pc'[c] = "recheck")
EndsRevoked(c) == /\ pc'[c] = "done" /\ outcome'[c] = "revoked"
                  /\ LogRevoked(c) /\ executed' = executed
EndsRefused(c) == /\ pc'[c] = "done" /\ outcome'[c] \notin {"revoked", "delivered", "none"}
                  /\ Audit(c, "error") /\ logged' = logged
                  /\ executed' = executed \/ executed' = executed \cup {c}
EndsDelivered(c) == /\ pc'[c] = "done" /\ outcome'[c] = "delivered"
                    /\ Audit(c, "success") /\ logged' = logged /\ executed' = executed
EndsUnlogged(c) == /\ pc'[c] = "done" /\ outcome'[c] \notin {"revoked", "delivered", "none"}
                   /\ UNCHANGED <<rows, logged, executed>> /\ c \notin executed

LEMMA CallStepEnds ==
  ASSUME TypeOK, RowsInv, NEW c \in Calls, CallStep(c)
  PROVE  /\ pc[c] # "done"
         /\ \/ Continues(c) \/ EndsRevoked(c) \/ EndsRefused(c)
            \/ EndsDelivered(c) \/ EndsUnlogged(c)
<1>t. pc \in [Calls -> Stages] /\ outcome \in [Calls -> Outcomes]
  BY DEF TypeOK
<1> USE <1>t DEF Goto, Finish, Refuse, Continues, EndsRevoked, EndsRefused, EndsDelivered,
                 EndsUnlogged
<1>1. CASE AuthGate(c)
  BY <1>1 DEF AuthGate, RefuseKey, RowsInv
<1>2. CASE AccessCheck(c)
  BY <1>2 DEF AccessCheck, RefuseKey, RowsInv
<1>3. CASE Preflight(c)
  BY <1>3 DEF Preflight
<1>4. CASE Assess(c)
  BY <1>4 DEF Assess, RowsInv
<1>5. CASE Gate(c)
  BY <1>5 DEF Gate
<1>6. CASE Execute(c)
  BY <1>6 DEF Execute
<1>7. CASE Recheck(c)
  BY <1>7 DEF Recheck
<1>8. CASE Postflight(c)
  BY <1>8 DEF Postflight
<1>9. CASE Reply(c)
  BY <1>9 DEF Reply
<1> QED BY <1>1, <1>2, <1>3, <1>4, <1>5, <1>6, <1>7, <1>8, <1>9 DEF CallStep

\* What the rows and the window tell of a call that just stepped.
LEMMA RowsOfStep ==
  ASSUME TypeOK, RowsInv, NEW c \in Calls, CallStep(c)
  PROVE  /\ pc'[c] # "done" => rows'[c] = <<>> /\ outcome'[c] = outcome[c]
         /\ Len(rows'[c]) <= 1
         /\ rows'[c] = <<"success">> => outcome'[c] = "delivered"
         /\ c \in executed' => pc'[c] \in {"recheck", "postflight", "reply", "done"}
         /\ pc'[c] = "done" /\ c \in executed' /\ outcome'[c] # "revoked" => rows'[c] # <<>>
         /\ outcome'[c] = "revoked" /\ pc'[c] = "done" =>
              req[c].key \in logged \/ rows'[c] # <<>>
         /\ \/ logged' = logged
            \/ /\ logged' = logged \cup {req[c].key}
               /\ outcome'[c] = "revoked" /\ rows'[c] # <<>>
<1>t. rows \in [Calls -> Seq(Statuses)] /\ pc \in [Calls -> Stages] /\ pc' \in [Calls -> Stages]
  BY CallStepFrame DEF TypeOK
<1>0. pc[c] # "done" /\ rows[c] = <<>>
  BY CallStepEnds DEF RowsInv
<1>1. /\ Len(<<>>) = 0
      /\ \A s \in Statuses : Append(<<>>, s) = <<s>> /\ Len(<<s>>) = 1 /\ <<s>> # <<>>
  OBVIOUS
<1>2. /\ Audit(c, "error") => rows'[c] \in {<<"error">>, <<"lost">>}
      /\ Audit(c, "success") => rows'[c] \in {<<"success">>, <<"lost">>}
  BY <1>0, <1>t DEF Audit
<1>3. ASSUME NEW st \in Statuses
      PROVE  /\ Len(<<st>>) <= 1 /\ <<st>> # <<>>
             /\ <<st>> = <<"success">> => st = "success"
  OBVIOUS
<1> DEFINE Short == Len(rows'[c]) <= 1
           Empty == rows'[c] = <<>>
           Success == rows'[c] = <<"success">>
<1>e. Empty => Short /\ ~Success
  BY <1>1, <1>3
<1>f. Audit(c, "error") => Short /\ ~Success /\ ~Empty
  <2>1. Audit(c, "error") => \E st \in {"error", "lost"} : rows'[c] = <<st>>
    BY <1>2
  <2> QED BY <2>1, <1>3, Zenon DEF Statuses
<1>s. Audit(c, "success") => Short /\ ~Empty
  <2>1. Audit(c, "success") => \E st \in Statuses : rows'[c] = <<st>>
    BY <1>2 DEF Statuses
  <2> QED BY <2>1, <1>3, Zenon
<1>u. UNCHANGED rows => Empty
  BY <1>0
<1> HIDE DEF Short, Empty, Success
<1> SUFFICES /\ pc'[c] # "done" => Empty /\ outcome'[c] = outcome[c]
             /\ Short
             /\ Success => outcome'[c] = "delivered"
             /\ c \in executed' => pc'[c] \in {"recheck", "postflight", "reply", "done"}
             /\ pc'[c] = "done" /\ c \in executed' /\ outcome'[c] # "revoked" => ~Empty
             /\ outcome'[c] = "revoked" /\ pc'[c] = "done" =>
                  req[c].key \in logged \/ ~Empty
             /\ \/ logged' = logged
                \/ /\ logged' = logged \cup {req[c].key}
                   /\ outcome'[c] = "revoked" /\ ~Empty
  BY DEF Short, Empty, Success
<1>4. CASE Continues(c)
  <2>1. c \in executed => pc'[c] \in {"recheck", "postflight", "reply", "done"}
    <3>1. ASSUME c \in executed
          PROVE  Recheck(c) \/ Postflight(c) \/ Reply(c)
      BY <1>0, <3>1 DEF RowsInv, CallStep, AuthGate, RefuseKey, AccessCheck, Preflight, Assess,
                        Gate, Execute
    <3> QED BY <1>t, <3>1 DEF Recheck, Postflight, Reply, Goto, Finish, Refuse, TypeOK
  <2> QED BY <1>4, <1>e, <1>u, <2>1 DEF Continues
<1>5. CASE EndsRevoked(c)
  BY <1>5, <1>e, <1>f, <1>u DEF EndsRevoked, LogRevoked
<1>6. CASE EndsRefused(c)
  BY <1>6, <1>f DEF EndsRefused
<1>7. CASE EndsDelivered(c)
  BY <1>7, <1>s DEF EndsDelivered
<1>8. CASE EndsUnlogged(c)
  BY <1>8, <1>e, <1>u DEF EndsUnlogged
<1> QED BY <1>4, <1>5, <1>6, <1>7, <1>8, CallStepEnds

LEMMA RowsStep ==
  ASSUME TypeOK, RowsInv, Trail, Next
  PROVE  RowsInv' /\ Trail'
<1>0. req' = req
  BY ObserverStep
<1>1. CASE Environment
  BY <1>0, <1>1, EnvironmentFrame DEF RowsInv, Trail, AuditMatchesReply, RevocationLeavesTrail
<1>2. CASE \E c \in Calls : CallStep(c)
  <2>1. PICK c \in Calls : CallStep(c)
    BY <1>2
  <2>2. /\ \A d \in Calls \ {c} :
             /\ pc'[d] = pc[d] /\ outcome'[d] = outcome[d] /\ rows'[d] = rows[d]
             /\ d \in executed' <=> d \in executed
        /\ executed' \subseteq Calls
    BY <2>1, CallStepFrame, RowsFrame
  <2>3. pc[c] # "done" /\ rows[c] = <<>>
    BY <2>1, CallStepEnds DEF RowsInv
  <2>4. \A d \in Calls : pc'[d] # "done" => rows'[d] = <<>>
    BY <2>1, <2>2, RowsOfStep DEF RowsInv
  <2>5. \A d \in executed' : pc'[d] \in {"recheck", "postflight", "reply", "done"}
    BY <2>1, <2>2, RowsOfStep DEF RowsInv
  \* A witness of the old state is not the stepping call: its rows were empty.
  <2>6. ASSUME NEW k \in logged
        PROVE  \E d \in Calls : req[d].key = k /\ outcome'[d] = "revoked" /\ rows'[d] # <<>>
    BY <2>2, <2>3 DEF RowsInv
  <2>7. \A k \in logged' :
          \E d \in Calls : req[d].key = k /\ outcome'[d] = "revoked" /\ rows'[d] # <<>>
    BY <2>1, <2>6, RowsOfStep
  <2>8. AuditMatchesReply'
    BY <2>1, <2>2, RowsOfStep DEF Trail, AuditMatchesReply
  <2>9. ASSUME NEW d \in Calls, outcome'[d] = "revoked"
        PROVE  \E e \in Calls : /\ req[e].key = req[d].key /\ outcome'[e] = "revoked"
                                /\ rows'[e] # <<>>
    <3>1. CASE d # c
      <4>1. PICK e \in Calls : /\ req[e].key = req[d].key /\ outcome[e] = "revoked"
                               /\ rows[e] # <<>>
        BY <2>2, <2>9, <3>1 DEF Trail, RevocationLeavesTrail
      <4> QED BY <2>2, <2>3, <4>1
    <3>2. CASE d = c /\ pc'[c] = "done"
      BY <2>1, <2>6, <2>9, <3>2, RowsOfStep
    <3>3. CASE d = c /\ pc'[c] # "done"
      <4>1. outcome[c] = "revoked"
        BY <2>1, <2>9, <3>3, RowsOfStep
      <4>2. PICK e \in Calls : /\ req[e].key = req[c].key /\ outcome[e] = "revoked"
                               /\ rows[e] # <<>>
        BY <4>1 DEF Trail, RevocationLeavesTrail
      <4> QED BY <2>2, <2>3, <3>3, <4>2
    <3> QED BY <3>1, <3>2, <3>3
  <2> QED BY <1>0, <2>4, <2>5, <2>7, <2>8, <2>9 DEF RowsInv, Trail, RevocationLeavesTrail
<1> QED BY <1>1, <1>2 DEF Next

----------------------------------------------------------------------------
IInv == TypeOK /\ SeenIsCurrent /\ GateInv /\ PolicyInv /\ DeliveryInv /\ Delivery
        /\ RowsInv /\ Trail

LEMMA InitIInv == Init => IInv
<1> SUFFICES ASSUME Init PROVE IInv
  OBVIOUS
<1> USE DEF Init
<1>1. TypeOK
  BY PolicyAssumption DEF TypeOK, Stages, Outcomes, Statuses, Identity
<1>2. SeenIsCurrent
  BY DEF SeenIsCurrent, Before, After
<1>3. GateInv /\ PolicyInv /\ DeliveryInv
  BY DEF GateInv, PolicyInv, DeliveryInv, PastAccess, PastGate, PastRecheck
<1>4. Delivery
  BY DEF Delivery, DeliveredKeyWasLive, DeliveredSchemaConsented, EgressRecordTruthful
<1>5. RowsInv /\ Trail
  BY DEF RowsInv, Trail, AuditMatchesReply, RevocationLeavesTrail
<1> QED BY <1>1, <1>2, <1>3, <1>4, <1>5 DEF IInv

LEMMA StepIInv == IInv /\ [Next]_vars => IInv'
<1>1. CASE Next
  BY <1>1, TypeStep, ObserverStep, GateStep, PolicyStep, DeliveryStep, RowsStep DEF IInv
<1>2. CASE UNCHANGED vars
  BY <1>2 DEF IInv, vars, call, store, TypeOK, SeenIsCurrent, GateInv, PolicyInv, DeliveryInv,
     Delivery, DeliveredKeyWasLive, DeliveredSchemaConsented, EgressRecordTruthful, RowsInv,
     Trail, AuditMatchesReply, RevocationLeavesTrail
<1> QED BY <1>1, <1>2

\* The inductive invariant holds in every reachable state.
THEOREM Invariance == Spec => []IInv
  BY InitIInv, StepIInv, PTL DEF Spec

\* The state keeps its types, whatever the calls and the user do.
THEOREM TypeCorrect == Spec => []TypeOK
<1>1. IInv => TypeOK
  BY DEF IInv
<1> QED BY <1>1, Invariance, PTL

\* Dispatch runs a tool only on behalf of a key that, at one instant of the
\* call, was live and held every scope and grant the tool needs; and the two
\* reads of the trust level never let a statement run that no trust level in
\* force during the call would have let run.
THEOREM ExecutionSafe == Spec => []ExecutionGated
<1>1. IInv => ExecutedWasPermitted
  BY DEF IInv, TypeOK, GateInv, ExecutedWasPermitted
<1>2. IInv => ExecutedWasAllowed
  BY DEF IInv, TypeOK, PolicyInv, ExecutedWasAllowed
<1>3. IInv => ExecutionGated
  BY <1>1, <1>2 DEF ExecutionGated
<1> QED BY <1>3, Invariance, PTL

\* What reaches the agent passed the key recheck and the schema postflight, and
\* the schema-privacy log says "allowed" for exactly what shipped.
THEOREM DeliverySafe == Spec => []ResultsGated
<1>1. IInv => ResultsGated
  BY DEF IInv, Delivery, ResultsGated
<1> QED BY <1>1, Invariance, PTL

\* The audit log agrees with the replies, and a revocation always leaves a trail.
THEOREM AuditSafe == Spec => []TrailKept
<1>1. IInv => TrailKept
  BY DEF IInv, Trail, TrailKept
<1> QED BY <1>1, Invariance, PTL
=============================================================================
