# FutrixData: TLA+ models, checks and proofs

FutrixData is a desktop client for databases. Besides its own window it lets
third-party agents (MCP servers, editor skills, the command line) call its tools
through a local daemon, each agent with an access key the user can scope, expire
and revoke. The program's own hard logic is in that path: who may call what, at
which moment that is decided, what is recorded about it, which of several
processes owns the local socket and files, and what a lost connection does to a
call. Around it stand the chat, whose model proposes statements that the user
approves; the rules that judge a statement; the classification and masking of
values; and stores that windows, agents and processes edit at once. This
directory models these parts, checks them with TLC and proves with TLAPS, for any
number of agents, calls and files, every safety property that the runs check.

Contents:

1. [The system](#1-the-system)
2. [Components and what makes them correct](#2-components-and-what-makes-them-correct)
3. [Modules and the code they model](#3-modules-and-the-code-they-model)
4. [Runs](#4-runs)
5. [Fairness](#5-fairness)
6. [Proofs](#6-proofs)
7. [What the code does and its documentation does not say](#7-what-the-code-does-and-its-documentation-does-not-say)
8. [What is not modelled](#8-what-is-not-modelled)
9. [Plan](#9-plan)
10. [Running the checks](#10-running-the-checks)

## 1. The system

Four kinds of processes share one data directory:

| process | code | what it does |
|---|---|---|
| desktop app | `main.go`, `app*.go`, `frontend/` | the window, the chat, and an embedded daemon |
| headless daemon | `main.go --headless`, `internal/daemon` | the same services without a window |
| CLI | `cmd/futrixdata-cli`, `internal/cli` | one command, one process; calls the daemon |
| MCP server | `internal/mcp` (a mode of the CLI) | long-lived, concurrent calls over one connection to the daemon |

They meet in three places.

* **The IPC address** (a unix socket or a Windows pipe) and
  `cli-handshake.json`, which names the pid, version and address of the daemon
  that serves. A start removes a stale socket, binds, publishes the handshake and
  serves; the desktop app first asks a headless daemon to leave.
* **The local files**: identities, the audit trail and schema-privacy records are
  read and rewritten whole, under `securefile.WithPathLock`, from any of the
  processes. Datasources, the session, risk rules, classifications and settings
  are loaded at a start and kept in each process's memory; a change goes to the
  memory and the file.
* **`tool.call`**: one frame from a front end to the daemon and one frame back,
  over a connection that all calls of a front end share.

A tool call goes through these parts:

```
agent -> mcp/cli -> ipc.Client -> [socket] -> ipc.Server -> auth gate -> toolexec.Dispatch
         spawn and retry                                    (daemon)     access, scope, grants
                                                                         schema consent
                                                                         risk assessment, trust level
                                                                         tool runs
                                                                         access again, consent again
                                                                         audit row -> reply
```

What is hard about it:

* *stale decisions*: the key, its scope and grants, the datasource's trust level
  and consent are each read several times in one call, while the user edits them;
* *concurrent calls of one key* share the audit throttle;
* *start, stop, crash and takeover of daemons* work on two files that any of
  them may remove, with a pid that may belong to somebody else by now;
* *answers from outside*: a model, a cloud's sign-in, a database that is asked for a
  plan or a description take seconds to minutes, and what is written afterwards was
  decided on what was read before;
* *several files for one fact*: a session and its trial, a rule and its setting, a
  memory and its archive, a statement and its migration, an uploaded document with its
  record, its text and its copies for the search;
* *retry*: a front end cannot tell a daemon that died from one that drained;
* *whole-file rewrites* by several processes, cut short by a crash or a full disk;
* *a lock file* whose staleness is judged by its age;
* *no request id* is compared on the connection.

## 2. Components and what makes them correct

`PROJECT.json` lists every component with its source files; this table names the
ones with state of their own.

| component | state | operations | correct when | hard because |
|---|---|---|---|---|
| agent dispatch (`internal/toolexec`) | none beyond the call: it reads the stores | `Dispatch`, schema egress pre- and postflight | a tool runs only for a key entitled to it; a result leaves only if the key and the consent still hold; the records agree with what happened | several reads of three stores that change meanwhile |
| approval policy (`toolreg/policy.go`, `riskengine/gate.go`) | trust level per datasource | `AssessStatementApproval`, `DecideGate`, danger bypass | nothing runs unattended that no trust level in force allows | the level is read twice |
| identity store (`agentaudit`) | identities with key, revocation, expiry, scope, grants, install path | mint, revoke, expire, scope, grant, bind | edits are atomic; a revoked key stays out; one install is one identity | one file rewritten by app and CLI while daemon calls read it |
| agent installation (`internal/skill`, `app_skill.go`) | the key in each agent's file | install, refresh, uninstall | the key is known; a refresh revives nothing | the key is read without a lock; two locked calls |
| audit trail (`agentaudit/audit_store.go`, `hash_chain.go`) | a file of hash-chained rows | append, verify | readable files verify; acknowledged rows stay; tampering shows | rewritten by several processes, non-atomically |
| path lock (`securefile_lock_*.go`) | a flock or a lock file | `WithPathLock` | one process in the critical section | age of a file stands for the life of its holder |
| transport and handshake (`internal/ipc`) | socket, handshake file | listen, close, read, write, remove | one listener; nothing left behind | stat, dial, unlink and bind are separate steps |
| daemon life (`internal/daemon`, `main.go`, `app_recovery.go`) | stage of each process | run, shutdown, handoff, retry | a stop ends; a handoff is decided; no two services | draining daemons look dead; pids are reused |
| client and server (`internal/ipc/client.go`, `server.go`) | one connection, one mutex; one loop per connection | `Roundtrip`, `handleConn`, spawn and retry | every call gets its own answer or an error; runs once unless its connection was lost | cancellation drops a shared connection |
| chat engine (`internal/aichat`) | approvals, checkpoints, the turn, the memory of the messages | turn, approve, reject, resume, repair | an approval runs its statement once, the one shown; a turn ends and does not go round | approvals are looked up and removed in separate steps; the model answers anything |
| thread and memory files (`internal/aichat`) | event file and summaries; patterns, archives, index | append, compact; save, archive, snapshot | nothing told is lost or told twice; the index resolves | files read and replaced in separate steps |
| chat stream (`app_aichat*.go`, `useAiSidebar.ts`) | streams, the turn in flight | start, cancel, events | events reach the turn they belong to; no stream runs unwatched | a stream's id is learnt late |
| local encryption (`localcrypto`, `keyring`, `securefile`, `startuprecovery`) | the keychain, the form of each file, each process's memory | start, rewrite, retry, save, move aside | what was saved is in a file or a copy of it | the key is installed before the files are rewritten and loaded |
| datasource records (`internal/datasource`, `app_datasource.go`) | records, forms, requests under way | create, edit, delete, resolve a reference | a masked secret survives an edit; a reference goes to no other target; the limit holds | forms are old when they come back |
| cloud sign-in (`provider_special.go`, `app_datasource.go`) | profile, device code, stored tokens | sign in, poll, renew, use | credentials are those of the account and role asked for | token and account come from separate commands and pages |
| app sign-in (`internal/auth`, `planlimits`) | session, login, trial, marker | login, refresh, logout, trial | the trial is not renewed; memory and file hold the session the last call left | a refresh is decided before the server answers |
| risk rules (`riskengine/store.go`, `engine.go`) | files, the store's memory, the engine's copy | set, delete, switch, load, reload | the engine applies what the store holds; a restart finds the same | three reads per reload |
| statement assessment (`riskengine`) | none beyond the call | parse, assess, probe, combine | no write and no large scan runs unasked; a probe never relaxes | rules, plans and facts of five kinds of database |
| paging (`internal/console`) | the token | first, next, previous page | each row once; a walk covers the rows | the table changes between pages |
| schema cache (`app_console.go`, `app_schema_knowledge.go`) | cache entries, queue, knowledge files | list, describe, refresh, sync | what leaves leaves by consent, newest last | workers cross in one file |
| user's knowledge base (`internal/userkb`, `app_userkb.go`, `aichat/knowledge_search.go`) | the records in memory and in `store.json`, each document's text, the tree of copies and indexes that the search walks | create, change and delete a category; upload, delete a document; start; search | the tree says what the records say; a record stays until it is deleted and then stays away; a search opens what is published for its datasource | files are removed before the records are saved; the tree is a copy; a search takes no lock |
| D1 projects (`app_datasource.go`, `d1_adapter.go`) | `wrangler.toml`, migration files | save, run a statement, deploy | one block for each database; statements in order | names made of a second and a label |
| classification (`internal/sensitivity`) | report, progress, audit | scan, confirm, save, delete | a confirmed level stays; nothing is sent without consent | a scan works from an old copy |
| masking (`sensitivity/masking.go`, `console/sql_projection.go`) | none beyond the call | trace, mask | nothing denied is shown | SQL's ways to name a column |

The hazards in `PROJECT.json` are these reasons, line by line, with the property
that looks at each.

## 3. Modules and the code they model

`PROJECT.json` maps each definition to its lines. In outline:

### RiskPolicy and AgentDispatch: one tool call

`RiskPolicy` has no state. An *assessment* is what the risk engine says of a
statement: action, level, where the deciding rule came from, and the outcome of
the write preview. `GateRequiresApproval` is `DecideGate`, `Blocks`,
`PreviewForcesApproval` and `NeedsApproval` are `AssessStatementApproval`, and
`MayAutoRun` states what one trust level permits.

`AgentDispatch` takes calls through the daemon's auth gate and `Dispatch`. One
action stands for one read of a shared store and everything decided from it
until the next read:

| action | code | reads |
|---|---|---|
| `AuthGate` | `makeAuthGate` | identity, sign-in |
| `AccessCheck` | `Dispatch` steps 1 to 1.6 | identity |
| `Preflight` | step 1.7, `SchemaEgressPreflight` | datasource |
| `Assess` | step 2, `AssessStatementApproval` | datasource |
| `Gate` | steps 3 and 3.5 | datasource (danger bypass) |
| `Execute` | step 4 | datasource (the tool) |
| `Recheck` | step 5 | identity |
| `Postflight` | step 6, `SchemaEgressPostflight` | datasource |
| `Reply` | the success row | |

The user's side is `Mint`, `Revoke`, `Unrevoke`, `SetExpiresAt`,
`SetDatasourceScope`, `SetGrant`, `SetTrust`, `SetConsent`, `DeleteDatasource`;
time passes in `ExpiryPasses` and `ThrottleElapses`. An edit is one action
because the code holds the path lock over its load, change and save; that the
lock excludes is the subject of `PathLock`.

Tools are grouped by the path they take through `Dispatch` (`ToolKinds`): the
inventory, schema reading, statement execution, the three tables of grants, and
approval-gated configuration. A datasource is one record, an identity one
record, a statement one assessment that the call receives at the start:
`Assessments` limits which of them a run tries.

`seen` is an observer, not program state: `Observe` collects for each call,
state by state, whether the request was entitled (`Entitled`, written apart from
the gates), which trust levels were in force, and after execution whether the key
was live and the consent given. It is what lets an invariant say "at one single
instant of this call". Store failures are the constant `StoreFaults`: when TRUE
an identity lookup may fail and an audit append may be lost. The run has it FALSE, for
the sake of its size; the proofs cover both.

### DaemonLifecycle and SocketLease: who serves

A process is its pid. The address and the handshake are cells that hold the
process that wrote them. `StatSocket`, `DialSocket`, `UnlinkStale`, `Bind`,
`Listen`, `ChmodSocket`, `PublishHandshake` are the steps of
`removeStaleSocket`, `listen` and `Run`; on a pipe (`Unix = FALSE`) bind is one
step. `ReadPeer` to `PollPeer` are `tryDaemonHandoff`, with the second reading of
the handshake inside `Client.Connect`, both ways of stopping the peer (the
shutdown request, the signal for another version) and the deadline.
`StopServing`, `Drain` and `RemoveHandshake` are the end of `Serve` and `Run`.
`Crash` may hit at any step a process in `Crashable`; `PidReused` gives a dead
process's pid to a stranger. `CloseListener` unlinks the path whatever is there,
as Go's unix listener does; `robbed` remembers whose live socket was unlinked.

`SocketLease` is the abstraction: one holder at a time, taken only when free.

### PathLock, AuditLog and AppendOnlyLog: the audit file

`PathLock` is `WithPathLock` in both builds: `flock` (`Portable = FALSE`) and
the lock file, where `SeeOld` and `Clear` are the two steps of
`clearStalePathLock`, `LockAges` says that a file is thirty seconds old only when
nobody touches it (the heartbeat runs every five), and `TimeOut` is the five
second limit. The heartbeat's promise is taken at its word: a holder that is
suspended for thirty seconds is outside the model.

`AuditLog` extends it: `Append` is lock, `ReadChain` (scan and verify) or
`Refuse`, then `Truncate` and `WriteRows`, the two effects of `os.WriteFile`,
and `EndAppend`. `ProcessDies` and `WriteFails` leave some prefix of the rows
and perhaps half a row (`torn`). A hash is the tuple of what it digests, so that
equal hashes mean equal contents. `LegacyRows` are the rows of a build without a
chain.

`AppendOnlyLog` is what the trail promises: it grows at its end by one entry or
loses its last entries. The refinement counts a rewrite in progress as done.

### ToolCallExchange: the connection

`Call` to `MarkDisconnected` are `dispatchViaDaemon` around
`Client.Roundtrip`: connect, take the mutex, write, read; on a lost connection
wait for a handshake and try once more. `GivesUp` is the deadline or the
cancelled context, `TornAnswer` a frame cut in the middle (no retry).
`ReadRequest`, `RunTool`, `WriteResponse`, `ReplyTooLarge` are `handleConn`;
`Stop`, `Crash` and `Start` change the daemon. The CLI is the case of one
caller. A daemon that stops closes every connection at once and lets its handlers
run on, as `handleConn`'s goroutine on the context does.

### IdentityStore and IdentityTable: access keys across processes

`IdentityStore` extends `PathLock`, taken as `flock`. A process is a caller with
a store of its own: a CLI, or a goroutine of the desktop app, whose every binding
opens a new store. `items` are the rows on disk, `call[p]` what a caller runs and
the rows it is about to save, `config` the key in each skill file or MCP entry.
`CreateManual` to `SetGrant` say what each operation makes of the rows it loaded:
a set of outcomes, one for each key `generateAccessKey` might give, empty when the
operation fails. `SetGrant` is the six edits of one setting each. `Locked` to
`EndCall` are `withWrite`, in which `Truncate` and `Save` are the two effects of
`os.WriteFile`, and `SaveFails` and `CallerDies` leave a file that is empty or
cannot be read.

| actions | code |
|---|---|
| `BeginCall` | the bindings and commands that edit identities, the manual install panel |
| `BeginInstall`, `Deploy`, `NoDeploy` | `InstallSkill`, `InstallMCP`, `skill install`, the Codex bridge: `EnsureForInstall`, then the agent's file |
| `BeginRefresh`, `RefreshBinds` | the start-up refresh: the key in the file is read without a lock, then `EnsureBound` and `BindInstallPath`, two locked calls |
| `Uninstall` | the agent's file is removed; the identity stays |

An install of several agents is as many calls. Paths are normalized ones.
`mcp.go` follows the same steps as `skill.go`. A file of another program is
written at once, since its reader is not modelled.

`IdentityTable` is what the store promises: a table that changes by one whole
operation at a time. `minted`, `banned`, `rebound` and `damaged` are history.

### ChatApprovals, ChatLoop, ChatStreams, ChatEngine: the desktop chat

`ChatApprovals` is one conversation's cards. `TurnStep` runs a turn of the model to
a card, to its end or to a statement that needs no approval; `Begin` and
`AnswerStep` are `Approve` and the resumed run: look the card up, load the
checkpoint, run the statement, let the model go on (which may ask for the next
card), remove the card, reply; a statement that failed may come back once as a
corrected card. `Restart` empties the memory. `ran` and `settled` are history.

`ChatLoop` is one run of `runTurn`'s loop: an answer of the model is recovered
from searching in circles, replanned to the page's datasource, or answered from an
earlier result, and then its calls run together; `Resume` starts a second run with
fresh counters, as the code does. `Said` limits what the model may answer, one
sample for each way the code tells answers apart.

`ChatStreams` is a streamed turn between `app_aichat.go`, the stream registry and
`useAiSidebar.ts`: the start call's reply, the events and a cancel may cross.

`ChatEngine` puts these three and `SensitivityScan` side by side. They share no state,
so it is the conjunction of their specifications, for what is said of all of them.

### ChatThread, ChatMemory: what the chat keeps

`ChatThread` is the event file and the summaries: `ThreadStep` reads both, runs,
appends, and compacts in the code's separate steps (reread, truncate, rewrite, save
the summary), while `AnswerRecorded` appends for an approval and `Crash` may hit between.
`ChatMemory` is `SavePattern` with its merge, the archive of what no longer fits and
the index, each a write that may be cut short, and the snapshot a thread takes. A
pattern has a size in tokens and an id; the text holds no ids, so that reading it makes
one of the pattern's problem (`ParsedId`), while what replaces a pattern takes over the
id it has. The budget counts tokens, and the last pattern stays whatever its size.

### StatementFacts, ExplainPlans, StatementRisk, RiskRules: judging a statement

`StatementFacts` gives the shapes of statements of each kind of datasource and what
`ParseStatement` reads off them; `ExplainPlans` gives what a database may answer
when asked for a plan, and what the adapters and the probe read off it. Both are
operators without state. `StatementRisk` is `Guard.Assess`: the rules' verdict
(`Assess`), the probe's policy, the description of a D1 view, the plan, the same two
questions about the tables below a view, and the conclusion; `RulesReloaded` may
come between any two. The shipped rules are a table of records, one for each rule of
`builtin_*.go`. `WritesAsk` and `ScansAsk` compare the verdict with what the
statement and the plan *are*, which is defined apart from the parsers.

`RiskRules` is the store and its files: a call changes a file, then the memory, and
then has the engine reload in its three reads (`ReadsBuiltin`, `ReadsProbe`,
`ReadsList`, `Installs`). `Load` is a restart. A caller may give a rule a code
(`CodeOr`), which is taken as it is: `rrGiven` remembers which those are. A second file
of a rule's id that cannot be removed makes a change or a deletion fail half done
(`CleanupFails`, `DeletionFails`).

### SensitivityScan, QueryMasking: classified values

`SensitivityScan` is a scan from the window's call to the end of its progress:
describe, the second reading of the consent, the model's answers entity by entity
with a save after each, the final merge, while users confirm fields, agents save
reports and the settings change. `ssLocks` is history: what a user or agent said
last, unless a scan was already running on an older copy.

`QueryMasking` traces each column of a SQL result to its tables (`PlanColumns`,
with aliases, stars, `USING`, tables that could not be described or have changed
since) and masks by the classification at that moment; for documents it masks by
path. `Sources` is the reference: which tables' columns the database computes each
output from, written apart from the tracing. `MaskingAssumption` says what statements,
classifications and documents may be: a table has columns, a statement reads a table and
selects something, `T.*` names one table, and documents are of the entities they were
asked of unless an aggregation has a stage that reads others. `SourceEntity` is the hint
of the Mongo adapter: the collection asked of, or none if a stage is in its list of
joining ones, which lacks `$graphLookup`.

### DatasourceRecords, D1Project, D1Migrations, CloudSignIn: datasources

`DatasourceRecords`: a client opens a form (`OpenForm`, the redacted record), and
sends it back in two steps (`UpdateBegins` restores what was masked, `UpdateStores`
writes), beside creations that reserve a place under the plan's limit, changes of the
trust level, deletions, and tests of a form that may resolve a stored reference. A record
is of a SQL server, of Redis or of D1. Before a Redis record is stored its server is
asked for the cluster's nodes, with the reference resolved
(`RedisClusterNodesDiscovered`); a D1 token is an option, which is masked and restored in
its own way, and a sign-in writes a new one into the records listed
(`RenewalReads`, `RenewalStores`). `dsStray` remembers who resolved a reference towards
a target it was not stored with.
`DesktopStores` is this store beside that of `RiskRules`, the two without shared state.

`D1Project` is what `SaveD1` makes of `wrangler.toml`; `D1Migrations` is a schema
statement in dev mode, its migration file, and the deploy. Running the statement, finding
a name that is free (`NameFile`) and writing the file are three steps of a call, which
two calls may interleave; statements that get no file (a datasource without a
migrations directory, an index or a view) are among them.

`CloudSignIn` is the authorization of DynamoDB (profile, cached token or device code
with its polls, account and role over pages, credentials) and of D1 (wrangler's two
commands, stored tokens renewed from them, requests that use them), with a clock.

### SchemaCache, UserKnowledge, Paging: what the console and the chat's search read

`SchemaCache`: lists and descriptions fetched beside a cache that a refresh also
writes; each write is queued for a worker that copies it to the knowledge files
through one temporary file (`SyncReads`, `WriteJSONFileTmp`, `WriteJSONFileRename`)
and may send the schema to a model for a diagram (`MaybeGenerateER`, `SendER`).

`UserKnowledge` is the manager of the uploaded documents, which holds its mutex from an
operation's start to its end, and a search, which takes none. `CreateCategory`,
`UpdateCategory`, `DeleteCategory`, `DeleteFile` and `UploadEnds` change the memory;
`Save` writes `store.json`; `RemoveTree`, `PublishAgain` and `WriteIndexes` derive
`parsed/scopes` again; `UploadFile` writes one document of an upload and publishes it, as
yet unrecorded. `UkFault` lets a write or a removal fail, which the code passes over
except in `Save`; `ProcessEnds` may come between any two writes and `NewManager` is the
next start. `SearchLists`, `SearchReads` and `SearchReturns` are `search_knowledge`,
which stops listing at `maxFiles`: `UkRooms` are the places that the built-in files,
listed first, may leave.
A document's text and its summary are marks: there, missing, failed. `ukFresh` and
`ukFate` are history. It extends `SchemaCache`, with which it shares nothing but the
module of the proofs; `KnowledgeSpec` is the conjunction of the two.

`Paging`: a first page, the page a token names, and the page back, for SQL and Mongo
by sort keys, for D1 by offset, for DynamoDB within a budget, for Redis with a cursor
per node; `PgChange` inserts and deletes rows between pages. `Exact` limits the
promises to statements whose sort keys tell rows apart, hold no NULL, and for SQL
have no `OR` at the top of their condition (section 7).

### SignIn, LocalEncryption: sessions and keys

`SignIn`: calls read the stored state, ask the server and save what they made of what
they read; the session and the trial's marker are two files, of which either may be
lost; `AppStops` and `LoadState` are a restart; `auCrossed` remembers that calls
overlapped or a save failed.

`LocalEncryption`: three files stand for all. `EnsureLocalRootKey` and `SetKeys` are
the keychain, `MigrateReads`, `MigrateBacksUp`, `MigrateRenames` the rewriting of an
older file, `Loads` the strict load of the app and the best-effort load of daemon and
CLI, `RetriesOnRequest` the daemon's retry while requests run, `SavesFile` any later save,
and `StartupRecoveryRetry` and `MoveAsideAndRestart` the choices of the recovery
screen. A file's content is the number of the save that made it.

### How the modules fit together

`AgentDispatch` is what `RunTool` of `ToolCallExchange` abstracts to one step.
The rows `AgentDispatch` appends are entries of `AuditLog`, appended under
`PathLock`; a lost append there is `StoreFaults` here. The atomic edits of
identities in `AgentDispatch` are the operations of `IdentityStore`, which is shown
to implement such edits (`TableSpec`). `Stop`, `Crash` and
`Start` of `ToolCallExchange` are what `DaemonLifecycle` shows step by step. An
assessment, the input of `AgentDispatch` and of a card of `ChatApprovals`, is what
`StatementRisk` computes over the rules `RiskRules` keeps; the datasource's record
`AgentDispatch` reads is one of `DatasourceRecords`; the report `QueryMasking` masks
by is the one `SensitivityScan` writes; the stores' loads and saves in all of them
are the ones `LocalEncryption` orders.

Three MC modules put several components into one run. `MCChat`, `MCDesktop` and
`MCFiles` have a variable `part`: a behaviour exercises one component, chosen at its
start, while the others rest in their initial states. It is a way to check components
that share no state in one run; it says nothing about their interleaving.

## 4. Runs

Passing runs. All are exhaustive.

| run | question | bounds |
|---|---|---|
| `dispatch` | do overlapping calls of one key deliver only what is still allowed and leave a trail, and can any order of edits let a tool run that no single moment permitted? | `focus` chooses: 2 calls (symmetric) of the schema tools with all scopes, expiries and consents; or 1 call of the gated tools, 5 statements (one for each way the policy answers), edits without limit; 1 key, no store faults; 639,928 states |
| `lifecycle_socket` | on unix: one listener, nothing left behind, stops and handoffs that end? | 2 headless (one of an older build), 1 desktop, one headless may crash, pids reused; 399,177 states |
| `desktop` | on Windows: are listeners a lease? and each of: pages, datasource forms, cloud sign-ins, risk rules, assessment, encrypted files | 2 headless and a desktop; 4 rows, pages of up to 3, 1 change; 2 datasources of one type, 2 clients, a limit of 1; 2 portals, 4 listings, 4 seconds, 2 Cloudflare users, 1 renewal; 2 rules, 2 shipped settings, 2 calls, 1 given code, 2 changes; every statement on one plan under every rule and one statement of a kind on every plan, 1 reload; the app and a daemon or the app and the CLI, 1 save, 1 fault; 1,452,337 states |
| `files` | are the audit file, the chat's files, the schema cache, the uploaded documents, the D1 project and the session kept? | 2 processes, 3 entries, 2 legacy rows; 2 turns, 5 events, compaction at 2; 3 problems, patterns of 1 or 3 tokens, budget 2, 4 saves; 2 databases, 1 call, 2 workers, 2 writes; 2 categories, 2 documents, 2 datasources, 3 operations, 1 fault or death, room for 1 or 4 files; 2 datasources of a project, 3 databases; 2 calls, 3 statements; 2 calls, 2 sessions, 1 login, 2 days; 1,738,600 states |
| `audit_lockfile` | what is left of the audit file under the lock file, and does an abandoned lock clear? | 2 processes, 3 entries; 116,309 states |
| `identity_store` | are identities edited atomically, do revocations stick, is an install one identity? | 2 callers that may die (symmetric), 4 calls, 3 keys, a skill file and an MCP entry of one agent that share a key of an older build; 1,119,285 states |
| `ipc_calls` | own answers, quiet connections, one run, every call returns? | 2 callers, 3 connections, 2 daemons; 206,767 states |
| `chat` | do cards run once what they show, do turns converge and end, do streams reach their turn, and do classifications and masking hold what users said? | 2 answers, 2 turns, 3 cards; 10 model answers, 7 steps, 2 runs; 2 streamed turns, 1 piece each; 3 fields of 2 entities, 2 edits; 2 tables, 5 FROM clauses, sampled lists, reports and documents; 444,144 states |

Why these bounds are enough to be interesting. A stale decision needs one call
and one editor; the throttle needs two calls of one key and no more, because it
is keyed by the key. Two headless daemons and a desktop are the smallest set in
which one leaves, one starts and one takes over. A chain that forks needs two
writers, and the third entry is the one that links to what they left. Two callers
suffice for one to drop the connection the other holds; a call uses at most two
connections, so the third is the one made after a loss of a shared one. Two
stores suffice to lose an update; four calls allow an install, a revocation and a
refresh to overlap with an edit, or to follow each other; two installs of one agent
with one key between them are what the migration of `EnsureForInstall` is for. Two
answers are what a double click sends; the third card is the repair of a repair that
must not come. Seven model and tool steps allow the three recoveries to follow each
other and the step limit to be reached. Four rows and pages of one or two give a
middle page with a neighbour on each side. Two forms, two refreshes, two reloads or
two workers are what a lost update needs. Three operations allow a category and a document to be
made and the one to be changed or either deleted, with one fault at any write between; a limit of one listed file is the one that
cuts a listing of two, four is beyond every listing here; two datasources are what
a category can be rebound from and to. Two days cover a trial of one day and the
day after. A listing of AWS is empty, of one, of two, or has an entry without id,
which is all that the choice of account and role tells apart. One reload of the
rules may fall at each of the points where an assessment reads them.

The counters bounded by a guard are `MaxCalls`, `MaxConns`, `MaxDaemons` (a dial
beyond the bound fails like an absent daemon), `MaxCards`, `MaxSteps` (the code's
own limit), `MaxRuns`, `MaxTurns`, `MaxDeltas`, `MaxEvents`, `MaxSaves`, `PgChanges`,
`CsEnd`, `CsTokens`, `RuleChanges`, `RuleSwaps`, `LeSaves`, `LeFaults`, `ScChanges`,
`ScWrites`, `UkFaults`, `UkOps`, `MgRuns`, `AuTokens`, `AuLogins`, `AuDays` and `SsEdits`; a process of
`DaemonLifecycle` starts once, so a restart is another process; each audit entry is
appended at most once. The proofs drop all of these bounds, except that an exchange
has some `MaxConns` and `MaxDaemons`, the store some `MaxCalls` and the chat some
`MaxCards`.

What the properties say. Where one name joins several, the parts are named too.

* `ExecutionGated` (`ExecutedWasPermitted`, `ExecutedWasAllowed`): a tool runs only
  for a key that at one instant of the call was live and had every scope and grant
  the tool needs, though the gates judge different snapshots; and the two reads of
  the trust level never add up to a permission neither level gives. A write whose
  preview is elevated or unavailable runs at no level.
* `ResultsGated` (`DeliveredKeyWasLive`, `DeliveredSchemaConsented`,
  `EgressRecordTruthful`): what is returned to the agent was still allowed at an
  instant after the tool ran, and "allowed" is recorded exactly for schema that
  shipped. The first excepts a store that cannot be read (section 7).
* `TrailKept` (`AuditMatchesReply`, `RevocationLeavesTrail`): at most one row a call,
  "success" only for a delivered result, and at least one row when calls of a key
  were refused as revoked.
* `StartsClean` (`OneListenerUnlessUnlinked`, `LeavesNothingBehind`): two processes
  accept only after one of them had its socket file unlinked, which a start that dials
  just before a peer listens can do; a daemon that ended in order is named by neither
  the address nor the handshake.
* `LeaseSpec`, `ShutdownCompletes`, `HandoffSettles`: on a pipe the listeners are
  a lease; a cancelled daemon leaves although a silent client stays connected;
  every handoff is decided although the peer may hang.
* `ExclusiveUntilCrash`, `AbandonedLockCleared`: the lock excludes, under the
  lock file until a process dies; a dead process's lock file does not keep
  waiters out.
* `ChainSound` (`ChainVerifies`, `TamperDetected`), `AcknowledgedKept`, `LogSpec`: a
  readable file verifies whatever crashed; changing, removing, inserting or swapping
  rows before the last chained row fails verification; an acknowledged row stays
  unless a write was cut short; the file is an append-only log. Not covered, because
  no hash covers it: editing legacy rows in place, and cutting off the tail.
* `TableSpec`: the load-modify-saves of any callers are whole operations, one at a
  time: no edit is overwritten by an older copy, no key occurs twice, no row is
  dropped, except all of them by a save that stopped short.
* `RevocationSticks`: a key whose revocation returned, and that nobody reinstates,
  stays revoked through installs, refreshes and edits, unless a save stopped short
  (`damaged`; section 7 says what happens then).
* `InstallsKnown` (`OneRowPerInstall`, `DeployedKnown`): no two rows claim one
  install, except by `BindInstallPath` (`rebound`; section 7); and a key in an agent's
  file is in the identity file, unless that was damaged.
* `AnswersOwned` (`AnswerIsOwn`, `FreeMeansQuiet`), `RunsOnceUnlessLost`,
  `CallsReturn`: no call gets another's answer although ids are not compared, because
  a connection that is free carries nothing; a tool runs twice only when a daemon
  closed the connection under the request; every call returns.
* `ApprovalsSafe` (`RunsMatchApprovals`, `SettledStaysSettled`, `RepairedOnce`,
  `PendingCanResume`): a held statement runs only for a card that showed it and not
  more often than that card was approved; a card replied to is spent; a repair is
  offered once; a waiting card that is not answered twice can be resumed where its
  turn stopped.
* `ModelsSafe` joins two:
  `LoopSafe` (`SearchesConverge`, `NoRepeatedStatement`, `SavesOfOneAnswer`): no more
  than two rounds of searching follow each other; a statement whose rows the model
  already has is not run again by an answer that asks for nothing else; a run saves no
  more patterns than one answer asked for.
  `ScanSafe` (`LocksKept`, `AskedWithConsent`, `StampHonest`, `ProgressTrue`): what a
  user or agent said of a field stays, unless a scan was running (section 7); the model
  is asked only in a scan recorded as allowed; a report that bears the present rules
  was made under them, but for fields a model left out; progress and slot agree.
* `MaskingSafe` (`DeniedColumnsMasked`, `OpenColumnsShown`, `DeniedFieldsMasked`): an
  output computed from a denied column is replaced, through every way a statement can
  name it that is sampled (section 7 lists the ways left out); what nobody denies is
  shown; a denied field of a document is replaced wherever it lies, but for the fields of
  a collection that only a `$graphLookup` reads (section 7).
* `StreamsSafe` (`ForeignTextExplained`, `NoOrphanStream`), `ChatSettles`
  (`AnswersEnd`, `RunEnds`, `TurnsSettle`): a message shows another turn's text only
  when that turn left before the window knew its stream; a stream nobody listens to is
  about to be cancelled; answers, runs and turns come to an end, whichever of a stream's
  last event and its start call's reply comes first. The exceptions (`early`) are turns
  cancelled before their start call replied, and a turn sent when more than `MaxIgnored`
  cancelled streams are still talking (the code remembers 32; section 7).
* `ThreadSafe` (`EventsKept`, `FileInOrder`, `ToldOnce`): while turns follow one
  another and nothing fails, every event is in the file or in a summary, except one
  appended between a compaction's reread and its replacement, and what left with the
  oldest summary; the file never holds an event twice, nor do file and summaries. This
  and `MemorySafe` state their module's types as well.
* `MemorySafe` (`PatternsKept`, `IndexResolves`, `SnapshotFits`): an acknowledged
  pattern is in the memory or in an archive file, unless a save was cut short or a hint
  replaced it, and the index names that file unless a hint ever was involved (section 7);
  the index never names a file that lacks the pattern; a snapshot is within the budget
  or is a single pattern.
* `KnowledgeSafe` joins two:
  `SchemaSafe` (`DiagramConsented`, `KnowledgeForward`): a schema goes to a model only
  if consent stood at some instant after the work was taken up (of a deleted datasource
  the queue's record counts); a snapshot on disk is the newest ever written of its key.
  `UploadsSafe` (`TreeFollows`, `RecordsKept`, `SearchSound`): after an operation or a start
  without a fault the tree and its indexes are those of the records that `store.json`
  holds; a document whose upload was reported stays until it is deleted, one whose
  deletion was reported does not come back at a start, and a record keeps its text unless
  its deletion was asked for; a search that no operation crosses
  opens only what is published for its datasource and for all, and all of it if it fits
  `maxFiles`.
* `ProjectsSafe` (`DevDatabaseResolves`, `MigrationsKept`): a datasource in dev mode
  finds exactly one block of its database, as long as no two share a database or a
  binding; a table statement that ran with a migrations directory has a file, is being
  recorded or was reported, unless it crossed another in a second with two names; and
  while no second has two, a deploy applies the files in the order the statements ran,
  but for one that ran before the file of the other was written.
* `SignInSafe` (`TrialKept`, `SessionFollows`): the trial lasts its days from the first
  start, whichever of the two files is lost; the session that the last call left is the
  one in memory and on disk, unless calls crossed or a save failed.
* `PagingSafe` (`WalkCovers`, `BudgetsKept`): a walk of next pages shows every row that
  was there all along, once and in order, up to the LIMIT, and a page back shows the
  first again; a bounded call stays in its budget; a cluster scan that says it is
  through has seen every node.
* `StoresSafe` joins two:
  `RecordsSafe` (`UpdatesKeepSecrets`, `ReferencesStandAlone`, `ReferencesStayBound`,
  `LimitKept`): an update keeps every secret its form left masked, if nobody else
  changed the record since the form was opened; a reference has no inline secret beside
  it but a token of D1 that a sign-in wrote there; it is resolved only towards its own
  target, never otherwise for a test, and otherwise only to ask a Redis server for its
  nodes, ahead of a creation or of an update that names another target or reference than
  the record has; creations that overlap stay within the limit.
  `RiskRulesSafe` (`EngineFollows`, `RestartFinds`, `CodesDistinct`): with no call under
  way, and if calls did not overlap (`rrAlone`), the engine has the store's rules; a
  restart finds what memory holds, except for ids whose save or deletion failed; two
  rules have one code only if a caller gave it to one of them, or a failed deletion left
  it in an older file.
* `KeysSafe` (`DataKept`, `AppReadsFirst`, `NothingOld`): what was saved of a file is in
  it or in a copy, except where a process that started without a file saves over it; the
  app never does that, and leaves no file as an older version wrote it.
* `CloudSafe` (`CredentialsOwn`, `TokensFit`): credentials are of the account and role
  the profile names, or of the only ones listed; a stored token is of a user who has the
  account, unless wrangler's user changed between its two commands or tokens were
  renewed without an account.
* `AssessSafe` (`WritesAsk`, `EveryRowBlocked`, `NeverLaxer`, `ViewsSeenThrough`,
  `ScansAsk`): a statement that may write does not run unasked unless a user's rule
  allows it; one that changes every row of a table and nothing else is blocked; no probe
  and no reload makes a verdict laxer; a rule on a table reaches the D1 view over it,
  if its definition can be read; a
  statement runs unasked only on a plan that was seen and scans no large table (MySQL may
  not tell how large one is: where the user's thresholds allow two full scans, such a one
  passes).
* `TypeOK`, `ChatTypeOK`: type invariants.

Some properties except an outcome that does happen in the code, and hold what is around
it to the rest: `StartsClean` a process whose live socket was unlinked, `ThreadSafe` the
event that a compaction overtakes, `SignInSafe` calls that cross, `CloudSafe` a login in
which wrangler's user changed, `ModelsSafe` what is said of a field during a scan,
`StreamsSafe` the text of a turn cancelled before its start call replied,
`RevocationSticks` a save that stopped short, `KeysSafe` saves over files that were not
loaded, `StoresSafe` reloads of the rules that overlap, and `ProjectsSafe` names chosen
by two calls in one second. So these outcomes are not excluded by any run, only
described (section 7); the hazards in `PROJECT.json` say so where they are listed.

Each property has a mutant for each of its parts: a changed form of one modelled
definition, kept next to it and marked, under which TLC finds the property violated.

Runs that are expected to fail are in section 7.

Deadlock is not checked where the system may stop: calls end, daemons exit,
entries and bounds run out. In `pathlock_race` it is checked, since processes there go
on for ever.

## 5. Fairness

* `lifecycle_socket`: weak fairness of a desktop's handoff, of a process's start and
  shutdown steps, and of the end of a running handler. These are straight-line
  code in a live goroutine with bounded waits; a handler whose context is
  cancelled returns. Users, clients, crashes and signals promise nothing. A
  desktop waiting for its peer is fair through its deadline (`WaitTimesOut`), not
  through the peer.
* `audit_lockfile`: weak fairness of a waiter's polling (every ten milliseconds
  in the code) and of the holder's steps.
* `ipc_calls`: weak fairness of a call's steps and of a connection's loop. The
  only lock is a `sync.Mutex`, which hands itself to a waiter after a millisecond
  of starvation. Contexts need not end and daemons need not come back: the
  wait for a handshake has its own deadline (`NotReady`).
* `chat`: weak fairness of an answer that has begun, of a run's steps, and of a stream:
  its start call, its goroutine and the delivery of its events. Each runs on a
  goroutine of its own; model calls and statements have deadlines, so each ends, if
  only in an error; Wails delivers events and replies in some order of the two. The
  user is not fair: a card may wait for ever, and a run that waits for the user counts
  as ended (`RunEnds`). Fairness of the model's choices is not assumed: it may search,
  or repeat itself, as long as the code lets it.

The other runs state safety only and use no fairness.

## 6. Proofs

Eight modules hold proofs. For each component there is an inductive invariant (`IInv`,
for `PathLock` `Mutex`; in the modules that hold several components `ApprovalsInv`,
`LoopInv` and so on), lemmas that `Init` establishes it and that each action preserves
it, with one case for an action under a part of the invariant, or, where an action
disturbs most parts, one lemma for an action, and the theorems that follow from it.
They assume only the `ASSUME`s of the components: non-empty sets, distinct special
values, subsets of the known kinds, a user's rules that are rules, and for the masking
that statements, classifications and documents are such (`MaskingAssumption`, section 3).

**AgentDispatch_proofs** (`TypeCorrect`, `ExecutionSafe`, `DeliverySafe`,
`AuditSafe`): any calls, keys, tools,
statements and edits. The run's invariants speak of finished calls, so they are
not inductive. Added are `SeenIsCurrent` (the observer has recorded what the
present state shows), `GateInv` (past the access check a call was permitted, or
is a `create` that will be held at the gate), `PolicyInv` (at the gate a statement
without need of approval, or past the gate any statement, was allowed by an observed level),
`DeliveryInv` (past the recheck the key was live, past the postflight the consent
was given and recorded) and `RowsInv` (no row before the end; every key in the
throttle window has a refused call with a row). `DangerRuns` is the policy fact
under it: at trust level "danger" everything with a clean preview may run.

**PathLock_proofs** (`LockExcludes`): `Mutex` says that the lock names the
process inside (`Held`) and, for the lock file before the first death, that no
file is old, its owner is inside, and nobody is clearing it (`NothingAbandoned`).

**AuditLog_proofs** (`TypeCorrect`, `ChainTrusted`, `FileIsLog`, `Acknowledged`):
any processes, entries and legacy rows. `FilesVerify` says that the rows on disk,
and those in every process's buffer, are a file that verifies. Two lemmas carry it:
appending `NextRow` to a verified file verifies, and so does any prefix. They hold
without the lock, which is why `ChainTrusted` needs no assumption about it. `FileIsLog`
needs `~Portable`: then one process writes at a time (`OneWriter`), its buffer
extends the file, and each step maps to a write, a cut or a stutter.
That no change passes has a lemma for each kind of change (`AlteredFound` to
`InsertedFound`). `Acknowledged` needs to follow an entry from its append to its
acknowledgement: `Trail` says that an entry is in the log once, only after an append was
called with it, and from the moment that append opened the file; `OwnEntries` that no two
appends under way have the same one.

**ToolCallExchange_proofs** (`TypeCorrect`, `ExchangeSafe`, `RetryBounded`): any callers,
connections and daemons. `WireSound` says that a connection nobody dialed is blank, that a connection has one frame or one running
handler at a time, and that what was run or answered was run for its call;
`ConnSound` that the present connection carries only the frames of the one call
that holds the mutex, and nothing when nobody does; `ReadingSound` that a call
waiting for its answer has its request or its answer still on the connection,
unless the daemon closed it (`lost`).
`RunsBounded` gives each call a budget (`Sent`) of requests written and proves
that runs, plus those still due on some connection, stay within it; `RetriesOnce`
bounds the budget by two.

**IdentityStore_proofs** (`TypeCorrect`, `ImplementsTable`, `Revoked`, `InstallsFound`): any
callers, keys, agents and installs, from any first file without duplicate keys.
`ApplyChange` is the lemma about the operations: each makes of a table the same
table, one with a new row of an unused key, or one with a single field of a single
row edited. The invariant adds to `PathLock`'s `Mutex` that every key in the file
or in a caller's buffer was minted (`KeysMinted`, so that a new key is new), that
a refresh goes on only after its first half (`FlowOK`), and that the one caller
about to write holds one change of what is on disk, and while it writes the disk
is empty (`OneSaver`). Truncation is then the step that changes the table, the
write a stutter, and a write cut short loses it. `Revoked` has an invariant of its
own (`RevocationInv`): no pending operation reinstates a banned key, and every
banned key is revoked in the file and in the buffer of whoever is about to save.
`ApplyKeepsRevoked` carries it. `InstallsFound` has another (`OneEachInv` and what is
deployed): two rows of one install have a key among them that was bound by hand, or is
being bound; a key that is deployed, or about to be, is in the table on disk and in
every table about to be saved.

**Chat_proofs** holds the chat's components, each with any turns, cards, answers,
streams, fields and files.

* `ApprovalsTypeCorrect`, `ApprovalsCorrect`, across restarts. `RunsMatchApprovals`
  counts approvals, so the invariant counts which of them have had their run (`Spent`),
  and says that an answer about to run holds its own card's statement.
  `SettledStaysSettled` follows from where a card under way can be: the two stores are
  disjoint, and an answer that is about to reply (`Took`) has its card in neither.
  `RepairedOnce` needs that a card with a checkpoint is no repair. `PendingCanResume` is
  the delicate one: unless some card is answered twice (`Twice`), every answer that will
  use or drop the checkpoint of its turn (`Needs`) still finds its own card's interrupt
  there, so that nobody drops another's.
* `LoopTypeCorrect`, `LoopCorrect`. `SilentRounds` ties the rounds of searching counted
  by the property to the run's own streak; `SavesUnderWay` bounds the run's saves by
  those calls of the answer under way that have been made.
* `StreamsTypeCorrect`, `StreamsCorrect`. Of every turn that has left the window it is
  known how (`TurnsAccounted`): before its start call replied, ended by another's text,
  with a stream that is ignored or has said its last, or after the window forgot one.
  `EventsInOrder` says that an end is a stream's last event, `Cancelled` that a stream
  told to stop is ignored. That `Evicted` is possible only after more than `MaxIgnored`
  turns is the pigeonhole lemma `Injects`.
* `ScanCorrect`. A scan works from an old report; `ScanKnows` says that this report has
  every lock that anyone set outside a scan, and that each field of it not stamped with
  the present rules was left out by a model, answered meanwhile or will be asked.
  `SlotHeld` and `Audited` tie the scan to its slot and its record.
* `ChatTypeCorrect`, `ModelsCorrect`: these together, for `EngineSpec`.
* `MemoryCorrect`. A save under way keeps or archives every pattern of the text it read
  (`SaveCarries`), the text on disk has every acknowledged pattern that no archive has
  (`TextIsKept`), and the archive's last entry is the one about to be indexed
  (`ArchiveIsSaves`).
* `ThreadCorrect`. `Found` says where an event can be: in the file, in a summary, in the
  excused ones, or carried by the turn that is rewriting the file. What a turn that has
  read the file knows of it depends on whether turns overlapped (`RunApart`) and whether
  anything failed (`RunCalm`).

**Desktop_proofs** holds the daemons' life with any processes of either kind, the
desktop's stores, each with any keys, callers and copies, and the judgement of statements.

* `TypeCorrect`, `CleanStarts`, `PipeIsLease`. `Ownership` ties the two files to stages:
  who is named by the address has bound it and not closed it, or crashed
  (`AddressOwned`); who is named by the handshake has published it and not removed it,
  or crashed (`HandshakeOwned`); listeners are in the stages between (`ListenerRuns`);
  who listens holds the address or was robbed of it (`KeptUnlessRobbed`); on a pipe
  nobody is (`PipeNeverRobbed`). The refinement of `SocketLease` follows: a second bind
  finds the address taken.
* `SignInCorrect`. `TrialFound`: whatever is left of marker and file repairs to the first
  trial. `ReadsTrue`: while calls did not cross, each has read the session that is the
  app's.
* `CloudCorrect`. `SsoInv`: the ids collected so far are those on the pages read
  (`IdsRead`), what was chosen is the one named or the only one. `D1CloudInv`: what a
  login holds is of one user, unless wrangler's was changed between.
* `RecordsCorrect`, `RulesCorrect`, and `StoresCorrect` for both. A fresh form is an edit
  of what the store holds (`FreshForms`); records and creations under way are within the
  limit (`WithinLimit`); a renewal under way carries records of D1 (`Renewals`), and a
  request that does not move its record resolves a pair that is stored (`StaysBound`). The rules' store knows each rule's path as a restart would find
  it, and a rule's text says what memory says (`MemoryText`); a call that is alone has
  read what the store holds (`ReadsFollow`), and while none crossed the engine has it
  (`EngineFresh`). The codes that a load hands out are distinct because it numbers the
  rules without one in the order of their ids and the elements of a finite set of
  naturals can be counted in their order (`NthIs`).
* `KeysCorrect`. An app under way has rewritten the files before the one it works on, and
  serves only with all of them read (`AppsInOrder`).
* `ProjectsCorrect`. No two blocks of `wrangler.toml` have one database (`BlocksDiffer`),
  since an entry takes the place of the block of its database (`UpsertIs`); migration
  files are in the order of their statements, and what is not deployed ran after what is,
  unless two were named in one second or crossed (`FilesInOrder`, `DeployedInOrder`).
* `AssessCorrect`: any rules of the user's, any changes of them on the way, every
  statement, plan and threshold of `StatementFacts` and `ExplainPlans`. Every shipped rule
  that allows comes last or is the opt-in for inserts (`BuiltinRulesAre`), and of the rules
  that match a statement one comes first (`FirstOf`), so a write is not allowed by a
  shipped rule if another one sees it: a lemma for each kind of datasource follows the
  statement through its parser (`SqlWriteSeen` to `DynamoWriteSeen`), and `EveryRow` finds
  the statement's verb and clause there. After the rules the verdict is only combined with
  a stricter one or raised to a warning (`NeverLaxer`); a resolved view was judged with its
  base tables among its entities (`ViewInv`, `SameMatches`); a plan with a large scan gives
  the probe a reason (`ScanIsReason`).

**Console_proofs** holds what the console and the chat's search read: any databases,
copies, documents, faults, pages and rows, statements and classifications.

* `SchemaCorrect`. At most one copy works for a key (`OneCopyPerKey`), the temporary file
  is that of a copy which waits to rename (`TmpIsCopys`), what a copy carries is at least
  as new as what is on disk (`CopiesNew`), and a copy past the reading of the entry while
  consent stood has noticed it (`ConsentNoticed`).
* `UploadsCorrect`, and `KnowledgeCorrect` for both. `TreeFresh` says how far each step of
  the rebuilding has brought the tree and the indexes if nothing failed since the last
  change, and that while no operation is under way they are those of the records.
  `Drafted` says of the documents of an upload under way that they are not reported yet
  and that everything else in the draft is what memory has; it is what keeps a
  reported document when the upload's records take the place of the memory's.
  `SearchListed` is what a search has listed if nothing crossed it.
* `PagingCorrect`, whatever is inserted and deleted between pages. A walk of next pages has
  shown, in order, every row that stood all along up to the one its token goes on from
  (`WalkForward`, with `SeenTo`), within the LIMIT (`WalkLimited`). While the table stands
  still a page is a stretch of the ordered rows at an offset (`Placed`), which its tokens
  carry on from; that is why the page back is the page before (`WentBack`). A call of
  several requests has seen what it took from the service (`CallSeen`) and keeps to its
  budget of rows, requests and items between any two of them (`CallBounded`); of each node
  of a cluster the keys up to its cursor were seen, or all (`ScanSeen`).
* `MaskingCorrect`. The invariant is short (`MaskInv`: the plan, whenever it was made, is
  the one of the statement, and what is masked by name comes on top of what is masked by
  origin); the work is in what the tracing computes. Both the reference `Sources` and the
  plan are lists of columns flattened from lists for each item of the SELECT list and each
  table of the FROM clause, and `FlatPaired` pairs the two column by column: if each item's
  lists are as long as each other and related place by place (`Covers`: every table and
  column an output is computed from is among its origins, under a name that classifies it;
  or the column is unknown), so are the flattened lists. A plan whose length differs from
  the result's is not used (`Fits`); with `USING` a star is always longer, since a common
  column stands in each table, which is why such a plan never misplaces an origin.
  `MustMask` of an origin is then denial under one of the table's names.

Some of these proofs need an induction over data. The library's theorems for it take an
operator and cannot be used, but that every set of naturals has a least element
(`LeastNatural`, from the well-foundedness of `<`) can: the recursive functions `Compact`
of `ChatMemory` and `AppendedSince` of `ChatThread` exist, `NthIs` holds, and what
`FlattenSeq` makes of two lists of lists is paired place by place, because the least
argument for which they would not is a contradiction.

What the proofs found wrong in the models, each corrected against the source: the history
`omitted` of `SensitivityScan` did not outlive its scan, so that `StampHonest` held only
for the bounds of the run; `DatasourceRecords` allowed a limit of zero, which means no
limit in the code; the codes of `RiskRules` were bounded by the number of rules; two arms
of `InitFails` overlapped, as did those of `SqlVerbFromAnalysis`; `D1Project` took two
datasources without a saved database for sharing one; `ScansAsk` denied that a user's
thresholds may let through a second full scan whose size MySQL does not tell; the rules a
user may have set (`StatementRiskAssumption`) were not said to be rules, nor the statements
and classifications of `QueryMasking` to be such.

Only model-checked: the five liveness properties (`ShutdownCompletes`,
`HandoffSettles`, `AbandonedLockCleared`, `CallsReturn`, `ChatSettles`), since the
proof system does not handle fairness. They hold for the bounds of section 4. Every other
property of the passing runs is proved. The runs with findings
are counterexamples and need no proof.

## 7. What the code does and its documentation does not say

Each is a run in which TLC finds a statement of the repository violated.

* **A revocation during the run may leave no row** (`dispatch_throttled_revoke`,
  `MidflightRevokeAudited`). The throttle of `LogRevokedAccess` is keyed by the
  access key; a refused call of the same key silences the row of the call that
  ran. `dispatch.go` and `audit_gate.go` say that such a call is audited.
* **A serving daemon may lose its handshake** (`lifecycle_lost_handshake`,
  `ServingIsPublished`). A leaving daemon removes the handshake after it closed
  its listener, whoever wrote it: a successor that bound and published in between
  is then invisible to clients, and every daemon they spawn fails to bind.
* **Two waiters may clear one abandoned lock file** (`pathlock_race`,
  `OneHolder`). Both see the old file; the second removes the lock the first has
  just created. It takes a dead holder and three processes.
* **A call runs twice when its daemon drains** (`ipc_drain`,
  `RunsOnceUnlessFaulted`). Cancelling the server closes the connection under a
  running handler; the client takes that for a dead daemon and sends the call to
  the next.

Consequences of the code that no document denies, and that the models make visible or
exclude. Where a property excludes one, its comment says so.

*Agents, daemons and files*

* `Dispatch`'s recheck lets the result through when the identity store cannot be
  read (`StoreFaults`).
* A draining daemon has closed its listener, so the probe of a starting desktop
  fails, the handoff takes it for crashed, and both serve until its last request
  ends.
* After a save of the identity file that stopped short, the file may be empty.
  It then loads as "no identities", and the next refresh of an installed skill
  registers its key again, live, even if it had been revoked.
* `BindInstallPath` gives a path to a key although another row has that path: two
  rows for one install, of which a revoke touches one. It takes an install whose
  file could not be written, or a key that an older build shared between the
  skill and the MCP entry of one agent.
* A start on unix can unlink a live socket between its dial and its unlink, and a
  start that gives up can unlink the socket of the one that won.
* After a short write the audit file is refused by every later append, or starts
  again from empty; callers ignore the error. An empty file verifies. A row longer
  than the scanner's 8 MiB is appended and then fails every later scan (rows have no
  length in the model).

*Local encryption*

* `daemon.go:402-420` installs the key before the old files are rewritten and the
  stores loaded: a request in between finds empty stores and may save them over unread
  files (`DataKept` excepts it); if the rewriting of the datasources fails, the retry,
  which looks only for a missing key, never runs again.
* An error of the keychain for the legacy key is ignored; a load that failed in a
  best-effort start is followed by saves that overwrite, without a copy; a store's own
  save takes no path lock while a rewriting does; the history is written in place, and
  a torn one stops the strict start of the app; the copies made by the rewriting keep
  what was plaintext; files can be moved aside while a daemon has them loaded.

*The chat*

* `memory_save` may save more than one pattern in a turn, though the tool tells the
  model that it is limited to one: calls of one answer run together, and each checks the
  counter before any has raised it; a resumed run starts a new counter
  (`ChatLoop.OneSavePerTurn` states the limit; no run checks it).
* A card answered twice may resume its turn twice; what runs is bounded by the number of
  approvals, not by one.
* A turn that does not know its stream yet shows the text of a cancelled one before it; so
  it does when that one's stream is no longer among the 32 the window remembers to ignore.
* Compaction rereads the events and replaces the file without the mutex in between: an
  event appended there is lost.
* The last pattern of the memory is kept whatever its size, so that a single one may pass
  the budget, and a snapshot with it (`SnapshotFits` excepts it).
* The text of the memory holds no ids: a pattern that replaced another on a hint has the
  other's id, and an index that has an archive of that id already does not take the new
  one: the pattern is in its archive file, but nothing names it (`PatternsKept` excepts
  problems that a hint ever joined).

*The user's knowledge base*

* A search finds nothing in an uploaded document (`UserKnowledge.UploadsSearched` states that
  it should; no run checks it). The text is written through `securefile`, which encrypts it
  as soon as the local key is installed, at every start; `readTextLinesLimited`
  (`knowledge_search.go:560`) opens the published copy with `os.Open` and matches the query
  against the envelope. For the same reason no `.docx` or `.pdf` is ever parsed: the
  extractors open the upload as it lies on disk. The system prompt tells the model that
  `search_knowledge` includes the user's uploads, and the window that they are indexed
  (`frontend/src/modules/i18n/appI18n.ts:1818`).
* A search lists at most `maxFiles` files (40, if the model asks for no other number), the
  built-in ones first, and says nothing of the rest: uploads beyond it are never opened,
  and none is where the built-in files fill the list (`SearchSound` promises what is
  opened, and all only where it fits).
* An operation whose save failed is reported, but stays in memory, and the next operation
  that succeeds saves it too; a deletion has removed the text before, so that the record
  comes back at a start without its text.
* A crash between the removal of a document's text and the save leaves such a record as
  well; an upload that fails on a later document leaves the text of the earlier ones, which
  nothing removes, and their copies until the next rebuilding; an error of the
  rebuilding is passed over, so that the search keeps an older tree.

*Judging statements* (`StatementRisk`, `RiskRules`)

* The opt-in rule `dynamodb-allow-insert` never allows, since the probe asks; the opt-in
  `sql-allow-insert` lets an INSERT's CTE delete or update unasked; the WHERE of the outer
  statement hides an unconditional DELETE in a CTE; EXPLAIN ANALYZE of a DELETE counts as a
  read; FCALL and EVALSHA are a warning.
* The rule about large sorts never fires for PostgreSQL, whose examined rows are those of
  the plan's root; a D1 scan of a covering index counts as indexed, as does a MongoDB plan
  with any index stage; the rules see the first table of a SELECT; a warning keeps its
  rule's id when its probe failed.
* A D1 view that is described without a definition is taken for a table and not raised to
  a warning, though one whose definition cannot be read is.
* A caller of `set_risk_rule` may give the code of another rule; the store compares none.
  A deletion that cannot remove a second file of the rule's id is reported as failed, but
  the rule's own file is gone, and a restart finds the older one with its code.
* Two overlapping changes of rules may leave the engine with the older list; a second
  file of one id brings a deleted rule back; creating "x" writes over `x.yaml` of another
  id; a clean-up that fails leaves file and memory apart; the app and a daemon each keep
  rules of their own; `SetRiskRule`'s lookup and change are two steps.

*Classification and masking* (`SensitivityScan`, `QueryMasking`)

* What is confirmed, reported or deleted while a scan asks its models is written over by
  the scan, which works from the report it read at its start (`manager.go:145`), although
  a scan is to preserve confirmed fields; an agent's report replaces confirmations too.
* `mongoJoinStageKeys` lists `$lookup`, `$unionWith`, `$merge` and `$out`, so that the
  result of a `$graphLookup` has the hint of the collection asked of: a denied field of the
  other is shown unless a field of that name is denied in the first. A view of MongoDB is
  an entity of its own here.
* The rules' stamp is set although a model left fields out of its answer; "allowed" is
  recorded although every field was locked and nothing was sent, and counts all entities;
  consent is not read again between the model's batches; a failed save changes the memory.
* `USING` with a table described as empty traces the common column to the other table
  alone; a derived table or CTE, and an alias that is the name of another listed table, may
  be resolved to the sole table; a dotted key inside a nested document is reported masked
  but shown, and a dotted literal key is not covered by the classification of its parent;
  of a key and the path it spells in one row only the key is replaced (`FieldsOver` excepts
  the path);
  results of Redis and Chroma with columns of their own are not masked inside; without a
  report nothing is masked. Scalar subqueries and case variants are not sampled.

*Datasources and clouds*

* An update that leaves out fields beside a redacted URI loses the address; a form opened
  before another edit may store the mask itself; an update or deletion whose save fails is
  not rolled back; overlapping changes of the trust level may lose one.
* Before a Redis datasource is created or updated its server is asked for the cluster's
  nodes, with the reference resolved towards the address in the request: also when the
  plan, or the store, refuses the record afterwards, and though a mere test of that form
  would be refused (`ReferencesStayBound` excepts it).
* A sign-in to Cloudflare writes the new token into every D1 record of the account in
  token mode, beside a reference that delegates the token too, and over what was changed
  since the records were listed. While the reference stands it is the one that is used.
* Two datasources that share a database or a binding overwrite each other's block of
  `wrangler.toml`, which is read and rewritten without a lock; a statement that ran but
  could not be filed is reported as failed; two in one second are deployed by label.
* No lock covers running a schema statement, choosing its file's name and writing it: two
  calls in one second may choose one name, and the later write replaces the earlier file;
  two that cross may be filed against the order they ran in. A statement on an index or a
  view is not recorded, nor is any of a datasource without a migrations directory, and
  nobody is told. (A write cut short, which leaves an empty file, is not followed.)
* wrangler's token and account are two commands; with no account id a renewal writes one
  token to every datasource; DynamoDB's static credentials print a missing session token
  as "<nil>".

*Sessions and caches*

* A refresh decided before a logout saves the session again; a refusal clears a newer
  login; a second login writes over the pending one; a crash between the server's rotation
  and the save loses the session; the memory changes although the save failed; every
  process has a copy of `auth-session.json` of its own.
* The schema cache's databases share one directory of knowledge files and one temporary
  file; a description refreshes the age of the list beside it; a list of one page may be
  kept as the whole; the kinds of entities are merged into a list that may be older than the
  one stored meanwhile; the diagram of a deleted datasource is sent under the consent of
  the queue.
* Pages skip or repeat rows when sort values tie or are NULL, and a top-level OR escapes
  the keyset's condition (`Exact` excludes these).

## 8. What is not modelled

* *Text*: cutting SQL, shell and JSON into tokens, prompts, messages, rendering and logs.
  `StatementFacts` starts from a statement's shape and the marks its patterns look for.
* *External systems*: databases, model providers, the sign-in service, AWS, Cloudflare,
  vaults and the operating system's keychain are nondeterministic answers. A database's own
  isolation between two pages is `PgChange`.
* *Ciphers and hashes*: an encrypted file opens or does not; equal hashes mean equal
  contents; a masked value is a mark.
* *Spawning*: `SpawnDaemon` is the start of some daemon; how the executable is
  found is left out.
* *The CLI's own gate* (`auditedCall`): a shorter path of the same checks.
* *Redis pipelines* in `toolreg`: the decision of a statement, once for each command.
* *The text of documents and their summaries*: what the search matches and how it scores
  it; that a file's name is free and its type allowed.
* *Some statements*: one without a FROM clause or with an empty SELECT list,
  which the tracing passes by.
* *The metrics, the history, Redis protocol schemas, settings of the AI
  models, vault clients, views, updater and diagnostics*: files written whole under a mutex
  or requests without state; no order of events to get wrong.
* *Some of a record's fields*: in `DatasourceRecords` a record keeps its type, D1 is in
  token mode only, and a Redis record's list of nodes is not kept; in `CloudSignIn` a token
  is inline (one that a reference delegates is in `DatasourceRecords`). In `ChatMemory`
  problems are not blank, since all blank ones share the id made of them.
* *Several processes over one store of datasources, rules, classifications or sessions*:
  each keeps its own memory and the last save wins; `LocalEncryption` alone has two
  processes.
* *Data races of Go*: `AssignAIConfigIfUnset` changes a map shared with readers; the
  models take the map as consistent.

`PROJECT.json` gives each component's status and what of it is left out. Within a
modelled component the models aim to keep the state changes, guards and error paths of the
operations they map, and their order, as far as the properties can tell them apart; what
is left out on purpose is in this section, in the modules' comments and in the notes of
`PROJECT.json`. Values are the few that the properties tell apart.

## 9. Plan

Written, most important first: `RiskPolicy`, `AgentDispatch`, `DaemonLifecycle` with
`SocketLease`, `PathLock`, `AuditLog` with `AppendOnlyLog`, `ToolCallExchange`,
`IdentityStore` with `IdentityTable`; then the
chat (`ChatApprovals`, `ChatLoop`, `ChatStreams`, `ChatThread`, `ChatMemory`), the console
(`Paging`, `SchemaCache`, `UserKnowledge`), datasources (`DatasourceRecords`, `D1Project`, `D1Migrations`,
`CloudSignIn`), rules (`RiskRules`, `StatementFacts`, `ExplainPlans`, `StatementRisk`),
keys and sessions (`LocalEncryption`, `SignIn`), classification (`SensitivityScan`,
`QueryMasking`), and the proofs of all of them.

Left, extending: the CLI's gate and Redis pipelines as further paths of `AgentDispatch`;
a second process over the stores that each process loads; an abstract `ApprovalOnce` for
`ChatApprovals` to refine.

Left, proving: nothing that the runs check but liveness, which needs a prover that handles
fairness.

## 10. Running the checks

With `tlc`, `tlasany` and `tlapm` on the path, in this directory:

```
tlasany AgentDispatch.tla
tlc -config dispatch.cfg MCAgentDispatch.tla
tlc -config dispatch_throttled_revoke.cfg MCAgentDispatch.tla
tlc -config lifecycle_socket.cfg DaemonLifecycle.tla
tlc -config desktop.cfg MCDesktop.tla
tlc -config lifecycle_lost_handshake.cfg DaemonLifecycle.tla
tlc -config pathlock_race.cfg PathLock.tla
tlc -config files.cfg MCFiles.tla
tlc -config audit_lockfile.cfg MCAuditLog.tla
tlc -config ipc_calls.cfg ToolCallExchange.tla
tlc -config ipc_drain.cfg ToolCallExchange.tla
tlc -config identity_store.cfg MCIdentityStore.tla
tlc -config chat.cfg MCChat.tla
tlapm AgentDispatch_proofs.tla
tlapm PathLock_proofs.tla
tlapm AuditLog_proofs.tla
tlapm ToolCallExchange_proofs.tla
tlapm IdentityStore_proofs.tla
tlapm Chat_proofs.tla
tlapm Desktop_proofs.tla
tlapm Console_proofs.tla
```

The slowest runs take three to four minutes with two workers; the proofs take about
forty minutes from nothing, most of it `Chat_proofs`, `Desktop_proofs` and
`Console_proofs`.
