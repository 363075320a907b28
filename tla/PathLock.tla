-------------------------------- MODULE PathLock --------------------------------
(***************************************************************************)
(* The lock that securefile.WithPathLock takes around every read-modify-   *)
(* write of a local file, between the desktop app, the daemon and the CLI. *)
(* On unix it is flock(2) (internal/securefile/securefile_lock_unix.go);   *)
(* elsewhere it is a lock file created exclusively, kept young by its      *)
(* holder's heartbeat and removed by others once it looks abandoned        *)
(* (internal/securefile/securefile_lock_other.go).                         *)
(*                                                                         *)
(* AuditLog extends this module: it runs its critical section between      *)
(* Take and Release.                                                       *)
(***************************************************************************)
CONSTANTS
    Procs,      \* processes that use the file
    Portable,   \* TRUE: lock file; FALSE: flock
    Crashable,  \* the processes that may die
    Nobody

ASSUME LockConstants ==
    /\ Nobody \notin Procs
    /\ Portable \in BOOLEAN
    /\ Crashable \subseteq Procs

VARIABLES
    lock,    \* flock's owner, or the process that created the lock file
    old,     \* the lock file's mtime is 30 seconds behind
    at,      \* where each process is
    killed   \* history: a process has died

lockVars == <<lock, old, at, killed>>

Places == {"out", "try", "clear", "in", "dead"}

LockTypeOK ==
    /\ lock \in Procs \cup {Nobody}
    /\ old \in BOOLEAN
    /\ at \in [Procs -> Places]
    /\ killed \in BOOLEAN
    /\ \A p \in Procs : at[p] = "clear" => Portable

LockInit ==
    /\ lock = Nobody
    /\ old = FALSE
    /\ at = [p \in Procs |-> "out"]
    /\ killed = FALSE

Move(p, place) == at' = [at EXCEPT ![p] = place]

Enter(p) ==
    /\ at[p] = "out"
    /\ Move(p, "try")
    /\ UNCHANGED <<lock, old, killed>>

\* Mutant: the lock is taken whoever holds it.
TakeAnyway(p) ==
    /\ at[p] = "try"
    /\ lock' = p
    /\ old' = FALSE
    /\ Move(p, "in")
    /\ UNCHANGED killed

(* flock grants the lock, or O_CREATE|O_EXCL creates the file.             *)
Take(p) ==
    /\ at[p] = "try"
    /\ lock = Nobody
    /\ lock' = p
    /\ old' = FALSE
    /\ Move(p, "in")
    /\ UNCHANGED killed

(* clearStalePathLock: the mtime is read here, the file removed by Clear.  *)
SeeOld(p) ==
    /\ Portable
    /\ at[p] = "try" /\ lock # Nobody /\ old
    /\ Move(p, "clear")
    /\ UNCHANGED <<lock, old, killed>>

\* Mutant: the abandoned file is reported as cleared and left there.
ClearKeepsFile(p) ==
    /\ at[p] = "clear"
    /\ Move(p, "try")
    /\ UNCHANGED <<lock, old, killed>>

Clear(p) ==
    /\ at[p] = "clear"
    /\ lock' = Nobody
    /\ old' = FALSE
    /\ Move(p, "try")
    /\ UNCHANGED killed

(* Five seconds pass while the file looks alive; flock waits without end.  *)
TimeOut(p) ==
    /\ Portable
    /\ at[p] = "try" /\ lock # Nobody /\ ~old
    /\ Move(p, "out")
    /\ UNCHANGED <<lock, old, killed>>

(* LOCK_UN, or the deferred Remove of whatever lock file is there.         *)
Release(p) ==
    /\ at[p] = "in"
    /\ lock' = IF Portable \/ lock = p THEN Nobody ELSE lock
    /\ old' = FALSE
    /\ Move(p, "out")
    /\ UNCHANGED killed

\* Mutant: no heartbeat, the lock of a long operation ages under its holder.
AgesUnderHolder ==
    /\ Portable
    /\ lock # Nobody /\ ~old
    /\ old' = TRUE
    /\ UNCHANGED <<lock, at, killed>>

(* maintainPathLockHeartbeat: a live holder touches the file every five    *)
(* seconds, so it turns thirty seconds old only without one.               *)
LockAges ==
    /\ Portable
    /\ lock # Nobody /\ ~old
    /\ \A p \in Procs : at[p] # "in"
    /\ old' = TRUE
    /\ UNCHANGED <<lock, at, killed>>

(* The kernel drops a dead process's flock; its lock file stays.           *)
Die(p) ==
    /\ p \in Crashable
    /\ at[p] # "dead"
    /\ lock' = IF ~Portable /\ lock = p THEN Nobody ELSE lock
    /\ killed' = TRUE
    /\ Move(p, "dead")
    /\ UNCHANGED old

Restart(p) ==
    /\ at[p] = "dead"
    /\ Move(p, "out")
    /\ UNCHANGED <<lock, old, killed>>

LockStep(p) == Enter(p) \/ Take(p) \/ SeeOld(p) \/ Clear(p) \/ TimeOut(p) \/ Release(p) \/ Die(p) \/ Restart(p)

LockNext == LockAges \/ \E p \in Procs : LockStep(p)

LockSpec == LockInit /\ [][LockNext]_lockVars

(***************************************************************************)
(* Properties.                                                             *)
(***************************************************************************)
(* WithPathLock runs fn while holding the lock: two processes are never in *)
(* the critical section of one path.                                       *)
OneHolder == \A p, q \in Procs : at[p] = "in" /\ at[q] = "in" => p = q

(* The lock file excludes too as long as no process has died: a file that  *)
(* ages was abandoned (securefile_lock_other.go withPathLock).             *)
ExclusiveUntilCrash == (Portable /\ killed) \/ OneHolder

(* A lock file left by a dead process does not keep out those who wait for *)
(* it (clearStalePathLock).                                                *)
AbandonedLockCleared ==
    \A p \in Procs : (at[p] = "try" /\ old) ~> (~old \/ at[p] = "dead")

================================================================================
