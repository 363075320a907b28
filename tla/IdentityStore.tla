----------------------------- MODULE IdentityStore -----------------------------
(***************************************************************************)
(* The agent identities: one file of access keys, rewritten whole by each  *)
(* operation of an IdentityStore under the path lock of PathLock, and the  *)
(* skill files and MCP configs the keys are deployed to.                   *)
(* internal/agentaudit/identity_store.go, internal/skill/skill.go and      *)
(* mcp.go (refresh and install), app_skill.go, internal/cli.               *)
(*                                                                         *)
(* A process of PathLock is a caller with a store of its own: a CLI, or a  *)
(* goroutine of the desktop app (every binding opens a new store, so only  *)
(* the path lock keeps two of them apart).  The lock is flock: PathLock    *)
(* tells how far the lock file of the other build excludes.                *)
(***************************************************************************)
EXTENDS PathLock, Naturals, Sequences, FiniteSets

CONSTANTS
    Keys,        \* the access keys that may be generated
    AgentTypes,  \* the supported agents
    Paths,       \* normalized install paths of skill files and MCP configs
    TypeOf,      \* the agent each path belongs to
    NoPath,      \* the empty install path
    NoKey,       \* no access key
    FirstRows,   \* the identity file at the start
    FirstConfig, \* the key in each install at the start
    MaxCalls     \* how many calls are made

ASSUME IdentityConstants ==
    /\ Portable = FALSE
    /\ NoPath \notin Paths /\ NoKey \notin Keys
    /\ TypeOf \in [Paths -> AgentTypes]
    /\ "manual" \notin AgentTypes
    /\ FirstConfig \in [Paths -> Keys \cup {NoKey}]
    /\ MaxCalls \in Nat

VARIABLES
    items,    \* the rows on disk
    torn,     \* what is on disk cannot be read
    call,     \* what each process runs
    config,   \* the key in each skill file or MCP config
    minted,   \* history: the keys generated so far
    banned,   \* history: the keys revoked, by a Revoke that returned, for good
    rebound,  \* history: the keys bound to a path that another row had
    begun,    \* history: how many calls were made
    damaged   \* history: a save stopped short

idVars == <<items, torn, call, config, minted, banned, rebound, begun, damaged>>
vars == <<lockVars, idVars>>

(* AgentIdentity.  "grant" stands for each setting that is edited alone:   *)
(* the three grants, the datasource scope, the expiry and the name.        *)
Rows == [key : Keys, type : AgentTypes \cup {"manual"}, source : {"manual", "detected"},
         path : Paths \cup {NoPath}, revoked : BOOLEAN, grant : BOOLEAN]

ASSUME FirstRowsOK ==
    /\ FirstRows \in Seq(Rows)
    /\ \A i, j \in 1..Len(FirstRows) :
          i # j => /\ FirstRows[i].key # FirstRows[j].key
                   /\ FirstRows[i].path # FirstRows[j].path \/ FirstRows[i].path = NoPath

newIdentity(k, type, source, path) ==
    [key |-> k, type |-> type, source |-> source, path |-> path, revoked |-> FALSE, grant |-> FALSE]

KeysOf(rows) == {rows[i].key : i \in 1..Len(rows)}

At(rows, k) == {i \in 1..Len(rows) : rows[i].key = k}

(* The first of some positions, if there is one.                           *)
First(S) == {i \in S : \A j \in S : i <= j}

(***************************************************************************)
(* What each operation makes of the rows it loaded: the rows to save and   *)
(* the key to return, one outcome per key generateAccessKey may give, none *)
(* when the operation fails.                                               *)
(***************************************************************************)
Outcome(rows, k) == [rows |-> rows, key |-> k]

Unused == Keys \ minted

Minted(rows, type, source, path) ==
    {Outcome(Append(rows, newIdentity(k, type, source, path)), k) : k \in Unused}

CreateManual(rows) == Minted(rows, "manual", "manual", NoPath)

EnsureManual(rows) ==
    LET live == {i \in 1..Len(rows) : rows[i].source = "manual" /\ ~rows[i].revoked}
    IN  IF live # {} THEN {Outcome(rows, rows[i].key) : i \in First(live)} ELSE CreateManual(rows)

EnsureBound(rows, k, type) ==
    IF At(rows, k) # {} THEN {Outcome(rows, k)}
    ELSE {Outcome(Append(rows, newIdentity(k, type, "detected", NoPath)), k)}

\* Mutant: a revoked identity is passed over, as EnsureManual does.
InstalledLive(rows, path) ==
    {i \in 1..Len(rows) : rows[i].type = TypeOf[path] /\ rows[i].path = path /\ ~rows[i].revoked}

(* The rows of an install, and those an older build made for its agent.    *)
Installed(rows, path) ==
    {i \in 1..Len(rows) : rows[i].type = TypeOf[path] /\ rows[i].path = path}

Legacy(rows, path) ==
    {i \in 1..Len(rows) :
        rows[i].source = "detected" /\ rows[i].type = TypeOf[path] /\ rows[i].path = NoPath}

EnsureForInstall(rows, path) ==
    LET here == Installed(rows, path)
        legacy == Legacy(rows, path)
    IN  IF here # {} THEN {Outcome(rows, rows[i].key) : i \in First(here)}
        ELSE IF legacy # {} THEN
             {Outcome([rows EXCEPT ![i].path = path], rows[i].key) : i \in First(legacy)}
        ELSE Minted(rows, TypeOf[path], "detected", path)

(* An edit takes the first row of its key, and fails without one.          *)
\* Mutant: binding a key writes a fresh record over its row.
BindResets(rows, k, path) ==
    {Outcome([rows EXCEPT ![i] = newIdentity(k, rows[i].type, rows[i].source, path)], k) :
        i \in First(At(rows, k))}

BindInstallPath(rows, k, path) ==
    {Outcome([rows EXCEPT ![i].path = path], k) : i \in First(At(rows, k))}

setRevocation(rows, k, value) ==
    {Outcome([rows EXCEPT ![i].revoked = value], k) : i \in First(At(rows, k))}

SetGrant(rows, k, value) ==
    {Outcome([rows EXCEPT ![i].grant = value], k) : i \in First(At(rows, k))}

Apply(o, rows) ==
    CASE o.name = "create" -> CreateManual(rows)
      [] o.name = "manual" -> EnsureManual(rows)
      [] o.name = "install" -> EnsureForInstall(rows, o.path)
      [] o.name = "ensure" -> EnsureBound(rows, o.key, TypeOf[o.path])
      [] o.name = "bind" -> BindInstallPath(rows, o.key, o.path)
      [] o.name = "revocation" -> setRevocation(rows, o.key, o.value)
      [] o.name = "grant" -> SetGrant(rows, o.key, o.value)

Operation(name, path, k, value) == [name |-> name, path |-> path, key |-> k, value |-> value]

Plain(name) == Operation(name, NoPath, NoKey, FALSE)
AtPath(name, path, k) == Operation(name, path, k, FALSE)

Operations ==
    {Plain("create"), Plain("manual")}
      \cup {AtPath("install", path, NoKey) : path \in Paths}
      \cup {AtPath(name, path, k) : name \in {"ensure", "bind"}, path \in Paths, k \in Keys}
      \cup {Operation(name, NoPath, k, value) :
              name \in {"revocation", "grant"}, k \in Keys, value \in BOOLEAN}

Revokes(o) == o.name = "revocation" /\ o.value
Unrevokes(o) == o.name = "revocation" /\ ~o.value

Steps == {"idle", "lock", "read", "write", "writing", "written", "between", "deploy"}

(* A call: its step, its operation, the rows it will save and the key it   *)
(* will return.                                                            *)
Run(s, o, rows, k) == [step |-> s, op |-> o, rows |-> rows, key |-> k]

Idle == Run("idle", Plain("create"), <<>>, NoKey)

Runs(p, s) == call[p].step = s
Now(p, r) == call' = [call EXCEPT ![p] = r]
Go(p, s) == Now(p, [call[p] EXCEPT !.step = s])

InLock == {"read", "write", "writing", "written"}

TypeOK ==
    /\ LockTypeOK
    /\ items \in Seq(Rows) /\ torn \in BOOLEAN
    /\ call \in [Procs -> [step : Steps, op : Operations, rows : Seq(Rows), key : Keys \cup {NoKey}]]
    /\ config \in [Paths -> Keys \cup {NoKey}]
    /\ minted \subseteq Keys /\ banned \subseteq Keys /\ rebound \subseteq Keys
    /\ begun \in 0..MaxCalls /\ damaged \in BOOLEAN
    /\ \A p \in Procs : /\ call[p].step \in InLock <=> at[p] = "in"
                        /\ Runs(p, "lock") <=> at[p] = "try"

Init ==
    /\ LockInit
    /\ items = FirstRows /\ torn = FALSE
    /\ call = [p \in Procs |-> Idle]
    /\ config = FirstConfig
    /\ minted = (KeysOf(FirstRows) \cup {FirstConfig[path] : path \in Paths}) \ {NoKey}
    /\ banned = {} /\ rebound = {}
    /\ begun = 0 /\ damaged = FALSE

(***************************************************************************)
(* The calls: a binding of the desktop or a CLI command starts one.        *)
(***************************************************************************)
Call(p, o) ==
    /\ Enter(p)
    /\ Now(p, Run("lock", o, <<>>, NoKey))
    /\ banned' = IF Unrevokes(o) THEN banned \ {o.key} ELSE banned
    /\ UNCHANGED <<items, torn, config, minted, rebound, damaged>>

Begin(p, o) ==
    /\ Runs(p, "idle")
    /\ begun < MaxCalls /\ begun' = begun + 1
    /\ Call(p, o)

(* CreateManualAgent, GetManualInstallInfo and the edits of an identity.   *)
BeginCall(p, o) ==
    /\ o.name \in {"create", "manual", "revocation", "grant"}
    /\ o.name \in {"revocation", "grant"} => o.key \in minted
    /\ Begin(p, o)

(* InstallSkill, InstallMCP and `skill install`; also the refresh of an    *)
(* installed skill that carries no key.                                    *)
BeginInstall(p, path) ==
    /\ Begin(p, AtPath("install", path, NoKey))

(* refreshedAccessKey, at the desktop's start: the key is read from the    *)
(* installed file here, without a lock.                                    *)
BeginRefresh(p, path) ==
    /\ config[path] # NoKey
    /\ Begin(p, AtPath("ensure", path, config[path]))

(* Its second call, under a second lock.                                   *)
RefreshBinds(p) ==
    /\ Runs(p, "between")
    /\ Call(p, AtPath("bind", call[p].op.path, call[p].op.key))
    /\ UNCHANGED begun

Uninstall(p, path) ==
    /\ Runs(p, "idle") /\ at[p] = "out"
    /\ config[path] # NoKey
    /\ config' = [config EXCEPT ![path] = NoKey]
    /\ UNCHANGED <<lockVars, items, torn, call, minted, banned, rebound, begun, damaged>>

(***************************************************************************)
(* withWrite: load, apply, save, under the path lock.                      *)
(***************************************************************************)
Locked(p) ==
    /\ Runs(p, "lock")
    /\ Take(p)
    /\ Go(p, "read")
    /\ UNCHANGED <<items, torn, config, minted, banned, rebound, begun, damaged>>

\* Mutant: an error return leaves the lock taken.
CallFailsLocked(p) ==
    /\ Runs(p, "read")
    /\ torn \/ Apply(call[p].op, items) = {}
    /\ Now(p, Idle)
    /\ UNCHANGED <<lockVars, items, torn, config, minted, banned, rebound, begun, damaged>>

(* The file cannot be read, or has no row of the key.                      *)
CallFails(p) ==
    /\ Runs(p, "read")
    /\ torn \/ Apply(call[p].op, items) = {}
    /\ Release(p)
    /\ Now(p, Idle)
    /\ UNCHANGED <<items, torn, config, minted, banned, rebound, begun, damaged>>

Load(p) ==
    /\ Runs(p, "read")
    /\ ~torn
    /\ \E o \in Apply(call[p].op, items) :
          /\ Now(p, Run("write", call[p].op, o.rows, o.key))
          /\ minted' = minted \cup {o.key}
    /\ UNCHANGED <<lockVars, items, torn, config, banned, rebound, begun, damaged>>

\* Mutant: the error of the save is dropped and the install goes on.
SaveErrorDropped(p) ==
    /\ Runs(p, "write")
    /\ Release(p)
    /\ IF call[p].op.name = "install" THEN Go(p, "deploy") ELSE Now(p, Idle)
    /\ UNCHANGED <<items, torn, config, minted, banned, rebound, begun, damaged>>

(* WriteFile has no key, or cannot open the file.                          *)
CannotSave(p) ==
    /\ Runs(p, "write")
    /\ Release(p)
    /\ Now(p, Idle)
    /\ UNCHANGED <<items, torn, config, minted, banned, rebound, begun, damaged>>

SameInstall(r, s) == r.type = s.type /\ r.path = s.path /\ r.path # NoPath

Shares(rows, k) ==
    \E i, j \in 1..Len(rows) : rows[i].key = k /\ i # j /\ SameInstall(rows[i], rows[j])

(* The rows are saved even when the operation changed none.                *)
Truncate(p) ==
    /\ Runs(p, "write")
    /\ items' = <<>>
    /\ Go(p, "writing")
    /\ LET o == call[p].op
       IN  rebound' = IF o.name # "bind" THEN rebound
                      ELSE IF Shares(call[p].rows, o.key) THEN rebound \cup {o.key}
                      ELSE rebound \ {o.key}
    /\ UNCHANGED <<lockVars, torn, config, minted, banned, begun, damaged>>

Save(p) ==
    /\ Runs(p, "writing")
    /\ items' = call[p].rows
    /\ Go(p, "written")
    /\ UNCHANGED <<lockVars, torn, config, minted, banned, rebound, begun, damaged>>

(* A save that stops short leaves an empty file, which loads as no rows,   *)
(* or a cut one, which neither decrypts nor parses.                        *)
PartlyWritten ==
    /\ torn' \in BOOLEAN
    /\ damaged' = TRUE

SaveFails(p) ==
    /\ Runs(p, "writing")
    /\ PartlyWritten
    /\ Release(p)
    /\ Now(p, Idle)
    /\ UNCHANGED <<items, config, minted, banned, rebound, begun>>

(* What the caller goes on with.                                           *)
After(r) ==
    CASE r.op.name = "ensure" -> Run("between", r.op, <<>>, r.key)
      [] r.op.name \in {"install", "bind"} -> Run("deploy", r.op, <<>>, r.key)
      [] OTHER -> Idle

(* A revocation is for good unless some Unrevoke of the key is under way.  *)
EndCall(p) ==
    /\ Runs(p, "written")
    /\ Release(p)
    /\ Now(p, After(call[p]))
    /\ LET k == call[p].op.key
       IN  banned' = IF /\ Revokes(call[p].op)
                      /\ \A q \in Procs : ~ (Unrevokes(call[q].op) /\ call[q].op.key = k)
                   THEN banned \cup {k} ELSE banned
    /\ UNCHANGED <<items, torn, config, minted, rebound, begun, damaged>>

(* installOne and installMCP write the key into the agent's file.          *)
Deploy(p) ==
    /\ Runs(p, "deploy")
    /\ config' = [config EXCEPT ![call[p].op.path] = call[p].key]
    /\ Now(p, Idle)
    /\ UNCHANGED <<lockVars, items, torn, minted, banned, rebound, begun, damaged>>

(* The file cannot be written, or a refresh finds it up to date.           *)
NoDeploy(p) ==
    /\ Runs(p, "deploy")
    /\ Now(p, Idle)
    /\ UNCHANGED <<lockVars, items, torn, config, minted, banned, rebound, begun, damaged>>

CallerDies(p) ==
    /\ Die(p)
    /\ Now(p, Idle)
    /\ IF Runs(p, "writing") THEN PartlyWritten ELSE UNCHANGED <<torn, damaged>>
    /\ UNCHANGED <<items, config, minted, banned, rebound, begun>>

CallerRestarts(p) ==
    /\ Restart(p)
    /\ UNCHANGED idVars

withWrite(p) ==
    \/ Locked(p) \/ CallFails(p) \/ Load(p) \/ CannotSave(p) \/ Truncate(p)
    \/ Save(p) \/ SaveFails(p) \/ EndCall(p)

Step(p) ==
    \/ \E o \in Operations : BeginCall(p, o)
    \/ \E path \in Paths : BeginInstall(p, path) \/ BeginRefresh(p, path) \/ Uninstall(p, path)
    \/ RefreshBinds(p) \/ withWrite(p) \/ Deploy(p) \/ NoDeploy(p)
    \/ CallerDies(p) \/ CallerRestarts(p)

Next == \E p \in Procs : Step(p)

Spec == Init /\ [][Next]_vars

(***************************************************************************)
(* Properties.                                                             *)
(***************************************************************************)
Writing == {p \in Procs : Runs(p, "writing")}

(* The rows, a save in progress counted as done.                           *)
TableNow ==
    IF Writing # {} THEN call[CHOOSE p \in Writing : TRUE].rows
    ELSE IF torn THEN <<>> ELSE items

(* Each operation, of however many callers, changes the table as one whole *)
(* step: keys stay unique, no row is dropped, and no edit is overwritten   *)
(* by an older copy of its row (withWrite under WithPathLock).             *)
Table == INSTANCE IdentityTable WITH table <- TableNow, Initial <- FirstRows
TableSpec == Table!Spec

(* A key whose Revoke returned, and that nobody unrevokes, stays revoked   *)
(* whatever installs, refreshes and edits follow, unless a save stopped    *)
(* short: EnsureBound would take the key of an installed file for a new    *)
(* one (Revoke, EnsureBound).                                              *)
RevocationSticks ==
    ~damaged => \A k \in banned : \E i \in 1..Len(TableNow) :
                    TableNow[i].key = k /\ TableNow[i].revoked

(* One install, one identity, "one revoke": two rows of one agent type and *)
(* path come from BindInstallPath alone, which does not look whether the   *)
(* path is taken; no two installs mint two (normalizeInstallPath,          *)
(* EnsureForInstall, BindInstallPath).                                     *)
OneRowPerInstall ==
    \A i, j \in 1..Len(TableNow) :
        i # j /\ SameInstall(TableNow[i], TableNow[j])
          => TableNow[i].key \in rebound \/ TableNow[j].key \in rebound

(* A key in an agent's file is one the store knows, so that the agent is   *)
(* not refused for ever, unless a save stopped short: the row is on disk   *)
(* before the file is written (InstallSkill, InstallMCP, refresh).         *)
DeployedKnown ==
    ~damaged => \A path \in Paths :
        config[path] \in KeysOf(TableNow) \cup {FirstConfig[path], NoKey}

(* Installs and identities correspond: one identity each, and none unknown *)
(* to the store, through installs, refreshes and failed saves.             *)
InstallsKnown == OneRowPerInstall /\ DeployedKnown

================================================================================
