---------------------------- MODULE LocalEncryption ----------------------------
(* How a process gets at the encrypted local files: the root key of the      *)
(* keychain and the key older versions used, the rewriting of older files    *)
(* under the root key, the loading of the stores, the daemon's retry when    *)
(* the keychain answers late, and what the window offers when it cannot      *)
(* start (internal/keyring, internal/localcrypto, internal/securefile,       *)
(* internal/startuprecovery, internal/bootstrap/runtime.go,                  *)
(* internal/daemon/daemon.go, app_recovery.go).                              *)
(*                                                                           *)
(* Three files stand for all: the datasources, the session (and the          *)
(* sensitivity store, loaded like it) and the history, which alone is        *)
(* written in place.  A file's content is the number of the save that made   *)
(* it.                                                                       *)
EXTENDS Naturals, Sequences

CONSTANTS LeProcs,  \* the processes
          LeKind,   \* what each is: "app", "daemon" or "cli"
          LeSaves,  \* bound on the saves made
          LeFaults, \* bound on the faults: crashes, a silent keychain, a lost key
          NoKey, Unlocked

ASSUME LocalEncryptionAssumption ==
  LeKind \in [LeProcs -> {"app", "daemon", "cli"}] /\ LeSaves \in Nat /\ LeFaults \in Nat

VARIABLES
  leKeychain, \* the root key, the older key, and whether the keychain answers
  leDisk,     \* the files
  leBackups,  \* the copies a rewriting keeps beside a file
  leAside,    \* what was moved aside with the data folder
  leLock,     \* who holds each file's lock
  leProc,     \* the processes
  leLatest,   \* the content of each file that a reader should find
  leOverwritten, \* what was written over: by a kind of process that had not read
                 \* it, by a rewriting that a save overtook, or by a crash
  leSavesLeft, leFaultsLeft

levars == <<leKeychain, leDisk, leBackups, leAside, leLock, leProc, leLatest, leOverwritten, leSavesLeft, leFaultsLeft>>

LeFiles == <<"datasources", "session", "history">>
LeNames == {LeFiles[i] : i \in DOMAIN LeFiles}
RootKeys == <<"k1", "k2">>

\* Plain, encrypted by an older version, encrypted, encrypted by a newer
\* version, or torn by a crash.
Absent == [form |-> "none", key |-> NoKey, text |-> 0]
Torn == [form |-> "torn", key |-> NoKey, text |-> 0]
EncryptWithMetadata(key, text) == [form |-> "v2", key |-> key, text |-> text]

NotRunning == [pc |-> "off", serving |-> FALSE, key |-> NoKey, fallbacks |-> {}, todo |-> 1, raw |-> Absent,
               reason |-> "", read |-> {}, retry |-> FALSE]

LocalEncryptionInit ==
  /\ leKeychain \in [root : {NoKey, "k1"}, legacy : {NoKey, "old"}, up : BOOLEAN]
  /\ leDisk \in [LeNames -> {Absent} \cup [form : {"plain"}, key : {NoKey}, text : {1}]
                              \cup [form : {"v1"}, key : {"old"}, text : {1}]
                              \cup [form : {"v2", "newer"}, key : {"k1"}, text : {1}]]
  /\ \A f \in LeNames : leDisk[f].key \in {NoKey, leKeychain.root, leKeychain.legacy}
  /\ leBackups = [f \in LeNames |-> {}] /\ leAside = {} /\ leLock = [f \in LeNames |-> Unlocked]
  /\ leProc = [p \in LeProcs |-> NotRunning]
  /\ leLatest = [f \in LeNames |-> leDisk[f].text] /\ leOverwritten = {}
  /\ leSavesLeft = LeSaves /\ leFaultsLeft = LeFaults

-----------------------------------------------------------------------------
(* Reading and what a failure is called.                                     *)

\* The keys are tried in turn: the root key, then the older ones.
OpenedBy(proc, c) == c.key = proc.key \/ c.key \in proc.fallbacks
WrittenByNewer(c) == c.form = "newer"

\* ReadFile: a plain file as it is; an encrypted one by the first key that
\* opens it, unless a newer version wrote it.
ReadOutcome(proc, c) ==
  CASE c.form \in {"none", "plain"} -> "text"
    [] c.form = "torn" -> "corrupt_file"
    [] WrittenByNewer(c) -> "app_too_old"
    [] OTHER -> IF proc.key = NoKey /\ proc.fallbacks = {} THEN "keychain_unavailable"
                ELSE IF OpenedBy(proc, c) THEN "text" ELSE "key_mismatch"

OffersMoveAside(reason) == reason \in {"key_mismatch", "corrupt_file"}

\* A caller that goes on without what it cannot read.
LoadMayFail(p, f, outcome) == FALSE

\* What a process cannot do without.  The app needs every file, the others
\* the rewritten datasources; of what they load, the command line needs the
\* datasources and the session, and the daemon does but for the key.
MigrateMustSucceed(p, f) == LeKind[p] = "app" \/ f = "datasources"
CliNeeds(f) == f # "history"
DaemonNeeds(f, outcome) == f # "history" /\ outcome # "keychain_unavailable"
LoadMustSucceed(p, f, outcome) ==
  CASE LeKind[p] = "app" -> TRUE
    [] LeKind[p] = "cli" -> CliNeeds(f)
    [] LeKind[p] = "daemon" -> DaemonNeeds(f, outcome)

Becomes(p, proc) == leProc' = [leProc EXCEPT ![p] = proc]

\* Initialization fails: the window shows why, the command line ends, and a
\* daemon goes on without it, to try again when asked.
InitFails(p, proc, reason) ==
  Becomes(p, CASE LeKind[p] = "app" -> [proc EXCEPT !.pc = "failed", !.reason = reason]
               [] LeKind[p] = "cli" -> NotRunning
               [] LeKind[p] = "daemon" /\ proc.serving -> [proc EXCEPT !.pc = "ready"]
               [] OTHER -> [proc EXCEPT !.pc = "load", !.todo = 1, !.retry = TRUE])

\* The next file, or what follows the last.
NextFile(proc, then) == IF proc.todo < Len(LeFiles) THEN [proc EXCEPT !.todo = @ + 1]
                        ELSE [proc EXCEPT !.todo = 1, !.pc = then]

File(p) == LeFiles[leProc[p].todo]
-----------------------------------------------------------------------------
Start(p) ==
  /\ leProc[p].pc = "off"
  /\ Becomes(p, [NotRunning EXCEPT !.pc = "root"])
  /\ UNCHANGED <<leKeychain, leDisk, leBackups, leAside, leLock, leLatest, leOverwritten, leSavesLeft, leFaultsLeft>>

UsedKeys == {leKeychain.root} \cup {leDisk[f].key : f \in LeNames} \cup {leProc[p].key : p \in LeProcs}
              \cup {a[2].key : a \in leAside}
FreshKeys == {RootKeys[i] : i \in DOMAIN RootKeys} \ UsedKeys

\* EnsureLocalRootKey: read or created under the account's lock.
EnsureLocalRootKey(p) ==
  /\ leProc[p].pc = "root"
  /\ \/ /\ leKeychain.up /\ leKeychain.root # NoKey
        /\ Becomes(p, [leProc[p] EXCEPT !.pc = "legacy", !.raw = [Absent EXCEPT !.key = leKeychain.root]])
        /\ UNCHANGED leKeychain
     \/ /\ leKeychain.up /\ leKeychain.root = NoKey
        /\ \E k \in FreshKeys :
             /\ leKeychain' = [leKeychain EXCEPT !.root = k]
             /\ Becomes(p, [leProc[p] EXCEPT !.pc = "legacy", !.raw = [Absent EXCEPT !.key = k]])
     \/ /\ ~leKeychain.up
        /\ InitFails(p, [leProc[p] EXCEPT !.key = NoKey, !.fallbacks = {}], "keychain_unavailable")
        /\ UNCHANGED leKeychain
  /\ UNCHANGED <<leDisk, leBackups, leAside, leLock, leLatest, leOverwritten, leSavesLeft, leFaultsLeft>>

\* The older key opens what older versions wrote.
OlderKeys == IF leKeychain.legacy = NoKey THEN {} ELSE {leKeychain.legacy}

\* An error here is passed over: the older key is then not used.
SetKeys(p) ==
  /\ leProc[p].pc = "legacy"
  /\ Becomes(p, [leProc[p] EXCEPT !.pc = "migrate", !.todo = 1, !.key = leProc[p].raw.key, !.raw = Absent,
                                  !.fallbacks = IF leKeychain.up THEN OlderKeys ELSE {}])
  /\ UNCHANGED <<leKeychain, leDisk, leBackups, leAside, leLock, leLatest, leOverwritten, leSavesLeft, leFaultsLeft>>

\* A file that is not there or is encrypted under the root key is left alone
\* by a rewriting; the other form leaves alone whatever is encrypted.
AnyEncryption(proc, c) == c.form \in {"none", "v1", "v2"}
UpToDate(proc, c) == c.form = "none" \/ (c.form = "v2" /\ c.key = proc.key)

\* MigrateFile, under the file's lock.
MigrateReads(p) ==
  LET proc == leProc[p] c == leDisk[File(p)] outcome == ReadOutcome(proc, c) IN
  /\ proc.pc = "migrate" /\ leLock[File(p)] = Unlocked
  /\ \/ /\ UpToDate(proc, c)
        /\ Becomes(p, NextFile(proc, "load")) /\ UNCHANGED leLock
     \/ /\ ~UpToDate(proc, c)
        /\ IF outcome = "text" THEN Becomes(p, [proc EXCEPT !.pc = "backup", !.raw = c]) /\ leLock' = [leLock EXCEPT ![File(p)] = p]
           ELSE /\ UNCHANGED leLock
                /\ IF MigrateMustSucceed(p, File(p)) THEN InitFails(p, proc, outcome) ELSE Becomes(p, NextFile(proc, "load"))
  /\ UNCHANGED <<leKeychain, leDisk, leBackups, leAside, leLatest, leOverwritten, leSavesLeft, leFaultsLeft>>

MigrateBacksUp(p) ==
  /\ leProc[p].pc = "backup"
  /\ leBackups' = [leBackups EXCEPT ![File(p)] = @ \cup {leProc[p].raw}]
  /\ Becomes(p, [leProc[p] EXCEPT !.pc = "rename"])
  /\ UNCHANGED <<leKeychain, leDisk, leAside, leLock, leLatest, leOverwritten, leSavesLeft, leFaultsLeft>>

\* The rewritten text replaces whatever the file is by now: the stores save
\* without the file's lock.
MigrateRenames(p) ==
  LET proc == leProc[p] IN
  /\ proc.pc = "rename"
  /\ leOverwritten' = leOverwritten \cup (IF leDisk[File(p)] \in {proc.raw, Absent} THEN {} ELSE {<<File(p), "rewriting">>})
  /\ leDisk' = [leDisk EXCEPT ![File(p)] = EncryptWithMetadata(proc.key, proc.raw.text)]
  /\ leLock' = [leLock EXCEPT ![File(p)] = Unlocked]
  /\ Becomes(p, NextFile([proc EXCEPT !.pc = "migrate", !.raw = Absent], "load"))
  /\ UNCHANGED <<leKeychain, leBackups, leAside, leLatest, leSavesLeft, leFaultsLeft>>

\* The stores are loaded.  A store that may fail starts empty; when the
\* daemon loads them again it keeps what it has.
Loads(p) ==
  LET proc == leProc[p] outcome == ReadOutcome(proc, leDisk[File(p)])
      after == NextFile(proc, "ready")
      loaded == [after EXCEPT !.serving = proc.serving \/ after.pc = "ready"] IN
  /\ proc.pc = "load"
  /\ Becomes(p, IF outcome = "text" THEN [loaded EXCEPT !.read = @ \cup {File(p)}]
                ELSE IF proc.serving \/ ~LoadMustSucceed(p, File(p), outcome) THEN loaded
                ELSE IF LeKind[p] = "app" THEN [proc EXCEPT !.pc = "failed", !.reason = outcome] ELSE NotRunning)
  /\ UNCHANGED <<leKeychain, leDisk, leBackups, leAside, leLock, leLatest, leOverwritten, leSavesLeft, leFaultsLeft>>

\* A request reaches a daemon that started without a key.  Requests that come
\* meanwhile are served.
RetriesOnRequest(p) ==
  /\ leProc[p].pc = "ready" /\ leProc[p].retry /\ leProc[p].key = NoKey
  /\ Becomes(p, [leProc[p] EXCEPT !.pc = "root"])
  /\ UNCHANGED <<leKeychain, leDisk, leBackups, leAside, leLock, leLatest, leOverwritten, leSavesLeft, leFaultsLeft>>

\* A store is saved with the root key; without one the write is refused.
SavesFile(p) == \E f \in LeNames :
  LET proc == leProc[p] text == 2 + LeSaves - leSavesLeft
      blind == f \notin proc.read /\ leDisk[f].form # "none" IN
  /\ proc.serving /\ proc.key # NoKey /\ leSavesLeft > 0 /\ leSavesLeft' = leSavesLeft - 1
  /\ leDisk' = [leDisk EXCEPT ![f] = EncryptWithMetadata(proc.key, text)]
  /\ leOverwritten' = IF blind THEN leOverwritten \cup {<<f, LeKind[p]>>} ELSE leOverwritten
  /\ leLatest' = IF blind THEN leLatest ELSE [leLatest EXCEPT ![f] = text]
  /\ Becomes(p, [proc EXCEPT !.read = @ \cup {f}])
  /\ UNCHANGED <<leKeychain, leBackups, leAside, leLock, leFaultsLeft>>

-----------------------------------------------------------------------------
(* The window's recovery.                                                    *)

StartupRecoveryRetry(p) ==
  /\ leProc[p].pc = "failed"
  /\ Becomes(p, [NotRunning EXCEPT !.pc = "root"])
  /\ UNCHANGED <<leKeychain, leDisk, leBackups, leAside, leLock, leLatest, leOverwritten, leSavesLeft, leFaultsLeft>>

\* Only the files that cannot be read.
FilesOnly == {<<f, leDisk[f]>> : f \in {g \in LeNames : ReadOutcome([key |-> leKeychain.root, fallbacks |-> OlderKeys], leDisk[g]) # "text"}}

DataFolder == {<<f, leDisk[f]>> : f \in LeNames} \cup UNION {{<<f, c>> : c \in leBackups[f]} : f \in LeNames}

\* The folder is renamed, the user having confirmed, and the start repeated.
\* Locks lie in the folder: they are those of files no longer there.
MoveAsideAndRestart(p) ==
  /\ leProc[p].pc = "failed" /\ OffersMoveAside(leProc[p].reason)
  /\ \A f \in LeNames : leLock[f] = Unlocked
  /\ leAside' = leAside \cup {a \in DataFolder : a[2].form # "none"}
  /\ leDisk' = [f \in LeNames |-> Absent] /\ leBackups' = [f \in LeNames |-> {}]
  /\ Becomes(p, [NotRunning EXCEPT !.pc = "root"])
  /\ UNCHANGED <<leKeychain, leLock, leLatest, leOverwritten, leSavesLeft, leFaultsLeft>>

-----------------------------------------------------------------------------
(* Faults.                                                                   *)

Fault == leFaultsLeft > 0 /\ leFaultsLeft' = leFaultsLeft - 1

\* A process ends, perhaps while it writes the history in place.
ProcessDies(p) ==
  /\ leProc[p].pc # "off" /\ Fault
  /\ Becomes(p, NotRunning)
  /\ leLock' = [f \in LeNames |-> IF leLock[f] = p THEN Unlocked ELSE leLock[f]]
  /\ \/ UNCHANGED <<leDisk, leOverwritten>>
     \/ /\ leProc[p].serving /\ leProc[p].key # NoKey
        /\ leDisk' = [leDisk EXCEPT !["history"] = Torn]
        /\ leOverwritten' = leOverwritten \cup {<<"history", "torn">>}
  /\ UNCHANGED <<leKeychain, leBackups, leAside, leLatest, leSavesLeft>>

KeychainChanges ==
  /\ \/ ~leKeychain.up /\ leKeychain' = [leKeychain EXCEPT !.up = TRUE] /\ UNCHANGED leFaultsLeft
     \/ leKeychain.up /\ Fault /\ leKeychain' = [leKeychain EXCEPT !.up = FALSE]
     \/ leKeychain.root # NoKey /\ Fault /\ leKeychain' = [leKeychain EXCEPT !.root = NoKey]
  /\ UNCHANGED <<leDisk, leBackups, leAside, leLock, leProc, leLatest, leOverwritten, leSavesLeft>>

LocalEncryptionNext ==
  \/ KeychainChanges
  \/ \E p \in LeProcs : \/ Start(p) \/ EnsureLocalRootKey(p) \/ SetKeys(p)
                        \/ MigrateReads(p) \/ MigrateBacksUp(p) \/ MigrateRenames(p) \/ Loads(p)
                        \/ RetriesOnRequest(p) \/ SavesFile(p)
                        \/ (LeKind[p] = "app" /\ (StartupRecoveryRetry(p) \/ MoveAsideAndRestart(p)))
                        \/ ProcessDies(p)

LocalEncryptionSpec == LocalEncryptionInit /\ [][LocalEncryptionNext]_levars
-----------------------------------------------------------------------------
\* What was last saved of a file is in the file, in a copy kept beside it or
\* in the folder moved aside, through rewriting, crashes, retries and
\* recovery ("Reads try the primary key first, then fallback keys so old
\* encrypted files can be migrated without data loss").  It is lost only
\* where a daemon or the command line started without a file and then saved
\* over it, a save overtook the rewriting of a file in a process whose key
\* came late, or a crash tore the history.
DataKept == \A f \in LeNames :
  \/ leLatest[f] \in {0, leDisk[f].text} \cup {c.text : c \in leBackups[f]} \cup {a[2].text : a \in {b \in leAside : b[1] = f}}
  \/ \E x \in leOverwritten : x[1] = f

\* The app never saves over a file it has not read.
AppReadsFirst == \A x \in leOverwritten : x[2] # "app"

\* Once the app serves, no file is left as an older version wrote it
\* ("migrates known sensitive local files away from plaintext or legacy
\* encrypted storage").
NothingOld == \A p \in LeProcs : LeKind[p] = "app" /\ leProc[p].serving
                => \A f \in LeNames : leDisk[f].form \notin {"plain", "v1"}

KeysSafe == DataKept /\ AppReadsFirst /\ NothingOld
=============================================================================
