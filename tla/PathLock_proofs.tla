----------------------------- MODULE PathLock_proofs -----------------------------
(***************************************************************************)
(* The path lock excludes: flock always, the lock file as long as no       *)
(* process has died.  The inductive part is that a process in the critical *)
(* section owns the lock; for the lock file it also needs that the owner   *)
(* is alive and inside, so that nothing looks abandoned.                   *)
(***************************************************************************)
EXTENDS PathLock, TLAPS

Held == \A p \in Procs : at[p] = "in" => lock = p

NothingAbandoned ==
    /\ ~old
    /\ lock # Nobody => at[lock] = "in"
    /\ \A p \in Procs : at[p] # "clear"

Mutex ==
    /\ ~Portable => Held
    /\ Portable /\ ~killed => Held /\ NothingAbandoned

LEMMA LockTypeStep ==
  ASSUME LockTypeOK, [LockNext]_lockVars
  PROVE  LockTypeOK'
<1> USE LockConstants DEF LockTypeOK, Places, Move
<1>1. CASE UNCHANGED lockVars
  BY <1>1 DEF lockVars
<1>2. CASE LockAges
  BY <1>2 DEF LockAges
<1>3. ASSUME NEW p \in Procs, LockStep(p)
      PROVE  LockTypeOK'
  BY <1>3 DEF LockStep, Enter, Take, SeeOld, Clear, TimeOut, Release, Die, Restart
<1>4. QED  BY <1>1, <1>2, <1>3 DEF LockNext

LEMMA MutexStep ==
  ASSUME LockTypeOK, Mutex, [LockNext]_lockVars
  PROVE  Mutex'
<1> USE LockConstants DEF LockTypeOK, Places, Move, Mutex, Held, NothingAbandoned
<1>1. CASE UNCHANGED lockVars
  BY <1>1 DEF lockVars
<1>2. CASE LockAges
  BY <1>2 DEF LockAges
<1>3. ASSUME NEW p \in Procs, LockStep(p)
      PROVE  Mutex'
  <2>1. CASE Enter(p)
    BY <2>1 DEF Enter
  <2>2. CASE Take(p)
    BY <2>2 DEF Take
  <2>3. CASE SeeOld(p)
    BY <2>3 DEF SeeOld
  <2>4. CASE Clear(p)
    BY <2>4 DEF Clear
  <2>5. CASE TimeOut(p)
    BY <2>5 DEF TimeOut
  <2>6. CASE Release(p)
    BY <2>6 DEF Release
  <2>7. CASE Die(p)
    BY <2>7 DEF Die
  <2>8. CASE Restart(p)
    BY <2>8 DEF Restart
  <2>9. QED
    BY <1>3, <2>1, <2>2, <2>3, <2>4, <2>5, <2>6, <2>7, <2>8 DEF LockStep
<1>4. QED  BY <1>1, <1>2, <1>3 DEF LockNext

LEMMA LockInitially == LockInit => LockTypeOK /\ Mutex
  BY LockConstants DEF LockInit, LockTypeOK, Places, Mutex, Held, NothingAbandoned

LEMMA MutexExcludes == Mutex => ExclusiveUntilCrash
  BY DEF Mutex, Held, ExclusiveUntilCrash, OneHolder

(* Two processes are never inside WithPathLock of one path: not under      *)
(* flock, and not under the lock file unless a process has died.           *)
THEOREM LockExcludes == LockSpec => []ExclusiveUntilCrash
<1>1. LockTypeOK /\ Mutex /\ [LockNext]_lockVars => (LockTypeOK /\ Mutex)'
  BY LockTypeStep, MutexStep
<1>2. QED  BY <1>1, LockInitially, MutexExcludes, PTL DEF LockSpec

================================================================================
