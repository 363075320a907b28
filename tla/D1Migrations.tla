----------------------------- MODULE D1Migrations -----------------------------
(***************************************************************************)
(* Schema statements run in a D1 datasource's dev mode are recorded as     *)
(* migration files, and a deploy applies the files, in the order of their  *)
(* names, to the remote database.                                          *)
(* Source: src/internal/console/d1_adapter.go.                             *)
(***************************************************************************)
EXTENDS D1Project

CONSTANTS
    MgCalls,     \* calls that run a statement
    MgRuns       \* bound: statements run in dev mode

ASSUME MigrationsAssumption == MgRuns \in Nat

VARIABLES
    mgDev,       \* the datasource has a project; one with a migrations directory
    mgCall,      \* a call: its step, and the migration file it is to write
    mgRan,       \* statements run in dev mode, in order
    mgUnfiled,   \* statements that ran and were reported as not recorded
    mgFiles,     \* migration files: second, label, number, statement
    mgSecond,    \* the clock
    mgCrossed,   \* history: a statement and a later one, run before its file was written
    mgBurst,     \* history: two files were named in one second
    mgRemote     \* files applied to the remote database, in order
mgvars == <<mgDev, mgCall, mgRan, mgUnfiled, mgFiles, mgSecond, mgCrossed, mgBurst, mgRemote>>

\* Of the statements that write, those of tables are told apart; no other is
\* recorded (an index, a view, a row).
Labels == <<"alter", "create">>
Kinds == {"alter", "create", "other"}
Migrates(ran) == ran.kind # "other" /\ ran.dir

Unnamed(label, stmt) == [at |-> 0, label |-> label, n |-> 0, stmt |-> stmt]
Resting == [pc |-> "idle", file |-> Unnamed("alter", 0)]
InFlight == {c \in MgCalls : mgCall[c].pc # "idle"}
Choosing == {c \in MgCalls : mgCall[c].pc = "named"}

-----------------------------------------------------------------------------

(* A statement asked for in dev mode runs remotely when the datasource has no
   project.  Nothing keeps two calls apart. *)
Ran(kind) == [kind |-> kind, dir |-> mgDev = "project"]
NextStmt == Len(mgRan) + 1
ExecuteDev(c) ==
    /\ mgDev # "none" /\ mgCall[c].pc = "idle" /\ Len(mgRan) < MgRuns
    /\ \E kind \in Kinds :
         /\ mgRan' = Append(mgRan, Ran(kind))
         /\ \/ /\ Migrates(Ran(kind))
               /\ mgCall' = [mgCall EXCEPT ![c] = [pc |-> "ran", file |-> Unnamed(kind, NextStmt)]]
               /\ mgCrossed' = mgCrossed \cup {<<mgCall[d].file.stmt, NextStmt>> : d \in InFlight}
            \/ ~Migrates(Ran(kind)) /\ UNCHANGED <<mgCall, mgCrossed>>
    /\ UNCHANGED <<mgDev, mgUnfiled, mgFiles, mgSecond, mgBurst, mgRemote>>

(* A file of the same second and label gets a number. *)
\* Mutant: no number, an older file of the name is written over.
UnnumberedName(label) == [at |-> mgSecond, label |-> label, n |-> 1]
MigrationFilename(label) ==
    LET taken == {f.n : f \in {g \in mgFiles : g.at = mgSecond /\ g.label = label}}
    IN  [at |-> mgSecond, label |-> label, n |-> IF taken = {} THEN 1 ELSE Max(taken) + 1]
SameFile(f, name) == f.at = name.at /\ f.label = name.label /\ f.n = name.n

\* Either step may fail, and the call reports that the statement ran and was
\* not recorded.
Unfiled(c) ==
    /\ mgCall[c].pc # "idle"
    /\ mgUnfiled' = mgUnfiled \cup {mgCall[c].file.stmt}
    /\ mgCall' = [mgCall EXCEPT ![c] = Resting]
    /\ UNCHANGED <<mgDev, mgRan, mgFiles, mgSecond, mgCrossed, mgBurst, mgRemote>>

(* The first name no file has. *)
NameFile(c) ==
    /\ mgCall[c].pc = "ran"
    /\ LET name == MigrationFilename(mgCall[c].file.label)
           file == [at |-> name.at, label |-> name.label, n |-> name.n, stmt |-> mgCall[c].file.stmt]
       IN  mgCall' = [mgCall EXCEPT ![c] = [pc |-> "named", file |-> file]]
    /\ mgBurst' = (\/ mgBurst
                   \/ \E f \in mgFiles : f.at = mgSecond
                   \/ \E d \in Choosing : mgCall[d].file.at = mgSecond)
    /\ UNCHANGED <<mgDev, mgRan, mgUnfiled, mgFiles, mgSecond, mgCrossed, mgRemote>>

(* os.WriteFile replaces a file that has got the name since. *)
WriteFile(c) ==
    /\ mgCall[c].pc = "named"
    /\ mgFiles' = {f \in mgFiles : ~SameFile(f, mgCall[c].file)} \cup {mgCall[c].file}
    /\ mgCall' = [mgCall EXCEPT ![c] = Resting]
    /\ UNCHANGED <<mgDev, mgRan, mgUnfiled, mgSecond, mgCrossed, mgBurst, mgRemote>>

(* DeployMigrations runs wrangler, which applies the files it has not applied
   yet by name; it may fail. *)
Before(f, g) ==
    \/ f.at < g.at
    \/ f.at = g.at /\ \E i, j \in DOMAIN Labels : i < j /\ Labels[i] = f.label /\ Labels[j] = g.label
    \/ f.at = g.at /\ f.label = g.label /\ f.n < g.n
Unapplied == {f \in mgFiles : \A i \in DOMAIN mgRemote : ~SameFile(f, mgRemote[i])}
DeployMigrations ==
    /\ mgDev = "project"
    /\ \E order \in [1 .. Cardinality(Unapplied) -> Unapplied] :
         /\ ToSet(order) = Unapplied
         /\ \A i, j \in DOMAIN order : i < j => Before(order[i], order[j])
         /\ mgRemote' = mgRemote \o order
    /\ UNCHANGED <<mgDev, mgCall, mgRan, mgUnfiled, mgFiles, mgSecond, mgCrossed, mgBurst>>

SecondPasses ==
    /\ (\E f \in mgFiles : f.at = mgSecond) \/ (\E c \in Choosing : mgCall[c].file.at = mgSecond)
    /\ mgSecond' = mgSecond + 1
    /\ UNCHANGED <<mgDev, mgCall, mgRan, mgUnfiled, mgFiles, mgCrossed, mgBurst, mgRemote>>

(* The datasource is saved with or without its project or its migrations
   directory; a call goes on with the options it began with. *)
ChangeProject ==
    /\ mgDev' \in {"none", "project", "nodir"} \ {mgDev}
    /\ UNCHANGED <<mgCall, mgRan, mgUnfiled, mgFiles, mgSecond, mgCrossed, mgBurst, mgRemote>>

MigrationsInit ==
    /\ mgDev \in {"none", "project", "nodir"}
    /\ mgCall = [c \in MgCalls |-> Resting]
    /\ mgRan = <<>> /\ mgUnfiled = {} /\ mgFiles = {} /\ mgSecond = 0 /\ mgRemote = <<>>
    /\ mgCrossed = {} /\ mgBurst = FALSE

CallStep(c) == ExecuteDev(c) \/ NameFile(c) \/ WriteFile(c) \/ Unfiled(c)
MigrationsNext == (\E c \in MgCalls : CallStep(c)) \/ DeployMigrations \/ SecondPasses \/ ChangeProject

MigrationsSpec == MigrationsInit /\ [][MigrationsNext]_mgvars

-----------------------------------------------------------------------------

\* No lock keeps two statements apart: in one second they may choose one name.
Overwritten(s) == mgBurst /\ \E p \in mgCrossed : s = p[1] \/ s = p[2]

(* A table statement that ran in dev mode has a file, is still being recorded
   or was reported, unless it crossed another in a second with two names.  While
   no second has two, a deploy applies them in the order they ran, but for one
   that ran before the other's file was written. *)
MigrationsKept ==
    /\ \A s \in DOMAIN mgRan :
         Migrates(mgRan[s]) =>
           \/ \E f \in mgFiles : f.stmt = s
           \/ \E c \in InFlight : mgCall[c].file.stmt = s
           \/ s \in mgUnfiled \/ Overwritten(s)
    /\ ~mgBurst => \A i, j \in DOMAIN mgRemote :
                     i < j => \/ mgRemote[i].stmt < mgRemote[j].stmt
                              \/ <<mgRemote[j].stmt, mgRemote[i].stmt>> \in mgCrossed

\* What a D1 datasource's project holds: its databases' blocks, and the
\* migrations of the statements run on them.
ProjectsSpec == D1Spec /\ MigrationsSpec
ProjectsSafe == DevDatabaseResolves /\ MigrationsKept
=============================================================================
