-------------------------- MODULE IdentityStore_proofs --------------------------
(***************************************************************************)
(* The identity file for any callers, keys, agents and installs.  Type     *)
(* correctness; that it implements the table that changes by one whole     *)
(* operation at a time; that a revocation sticks; and that an install has  *)
(* one row, which is in the file.                                          *)
(*                                                                         *)
(* The inductive invariant adds to the type invariant the exclusion of     *)
(* PathLock_proofs, and says of the one caller inside the lock what its    *)
(* buffer is to the rows on disk and what the disk holds while it saves.   *)
(***************************************************************************)
EXTENDS IdentityStore, PathLock_proofs, SequenceTheorems

(***************************************************************************)
(* What an operation makes of a table.                                     *)
(***************************************************************************)
(* The ways an outcome of key k differs from the rows it was made of.      *)
Registered(rows, new, k) ==
    k \notin KeysOf(rows) /\ \E r \in Rows : r.key = k /\ new = Append(rows, r)

EditedAt(rows, new, i) ==
    \/ \E path \in Paths \cup {NoPath} : new = [rows EXCEPT ![i].path = path]
    \/ \E b \in BOOLEAN : new = [rows EXCEPT ![i].revoked = b]
    \/ \E b \in BOOLEAN : new = [rows EXCEPT ![i].grant = b]

OneChange(rows, new, k) ==
    \/ new = rows
    \/ Registered(rows, new, k)
    \/ \E i \in 1..Len(rows) : EditedAt(rows, new, i)

LEMMA NewIdentityIsRow ==
  ASSUME NEW k \in Keys, NEW type \in AgentTypes \cup {"manual"},
         NEW source \in {"manual", "detected"}, NEW path \in Paths \cup {NoPath}
  PROVE  newIdentity(k, type, source, path) \in Rows
  BY DEF newIdentity, Rows

LEMMA MintedChange ==
  ASSUME NEW rows \in Seq(Rows), KeysOf(rows) \subseteq minted,
         NEW type \in AgentTypes \cup {"manual"}, NEW source \in {"manual", "detected"},
         NEW path \in Paths \cup {NoPath}, NEW r \in Minted(rows, type, source, path)
  PROVE  OneChange(rows, r.rows, r.key) /\ r.key \in Keys
<1>1. PICK k \in Unused : r = Outcome(Append(rows, newIdentity(k, type, source, path)), k)
  BY DEF Minted
<1>2. k \in Keys \ KeysOf(rows)
  BY <1>1 DEF Unused
<1>3. newIdentity(k, type, source, path) \in Rows /\ newIdentity(k, type, source, path).key = k
  BY <1>2, NewIdentityIsRow DEF newIdentity
<1>4. QED
  BY <1>1, <1>2, <1>3 DEF Outcome, OneChange, Registered

LEMMA ApplyChange ==
  ASSUME NEW rows \in Seq(Rows), KeysOf(rows) \subseteq minted,
         NEW o \in Operations, NEW r \in Apply(o, rows)
  PROVE  OneChange(rows, r.rows, r.key) /\ r.key \in Keys
<1>1. \A i \in 1..Len(rows) : rows[i].key \in Keys
  <2>1. \A i \in 1..Len(rows) : rows[i] \in Rows
    OBVIOUS
  <2>2. QED  BY <2>1 DEF Rows
<1>2. CASE o.name = "create"
  BY <1>2, MintedChange, IdentityConstants DEF Apply, CreateManual
<1>3. CASE o.name = "manual"
  <2>1. r \in EnsureManual(rows)
    BY <1>3 DEF Apply
  <2>2. CASE r \in CreateManual(rows)
    BY <2>2, MintedChange DEF CreateManual
  <2>3. CASE \E i \in 1..Len(rows) : r = Outcome(rows, rows[i].key)
    BY <1>1, <2>3 DEF Outcome, OneChange
  <2>4. QED  BY <2>1, <2>2, <2>3 DEF EnsureManual, First
<1>4. CASE o.name = "install"
  <2>1. r \in EnsureForInstall(rows, o.path) /\ o.path \in Paths /\ TypeOf[o.path] \in AgentTypes
    BY <1>4, IdentityConstants DEF Apply, Operations, AtPath, Plain, Operation
  <2>2. CASE r \in Minted(rows, TypeOf[o.path], "detected", o.path)
    BY <2>1, <2>2, MintedChange
  <2>3. CASE \E i \in 1..Len(rows) : r = Outcome(rows, rows[i].key)
    BY <1>1, <2>3 DEF Outcome, OneChange
  <2>4. CASE \E i \in 1..Len(rows) : r = Outcome([rows EXCEPT ![i].path = o.path], rows[i].key)
    <3>1. PICK i \in 1..Len(rows) : r = Outcome([rows EXCEPT ![i].path = o.path], rows[i].key)
      BY <2>4
    <3>2. r.rows = [rows EXCEPT ![i].path = o.path] /\ r.key \in Keys
      BY <1>1, <3>1 DEF Outcome
    <3>3. EditedAt(rows, r.rows, i)
      BY <2>1, <3>2 DEF EditedAt
    <3>4. QED  BY <3>2, <3>3 DEF OneChange
  <2>5. /\ First(Installed(rows, o.path)) \subseteq 1..Len(rows)
        /\ First(Legacy(rows, o.path)) \subseteq 1..Len(rows)
    BY DEF First, Installed, Legacy
  <2>6. \/ r \in {Outcome(rows, rows[i].key) : i \in First(Installed(rows, o.path))}
        \/ r \in {Outcome([rows EXCEPT ![i].path = o.path], rows[i].key) :
                     i \in First(Legacy(rows, o.path))}
        \/ r \in Minted(rows, TypeOf[o.path], "detected", o.path)
    BY <2>1 DEF EnsureForInstall
  <2>7. QED  BY <2>2, <2>3, <2>4, <2>5, <2>6
<1>5. CASE o.name = "ensure"
  <2>1. /\ r \in EnsureBound(rows, o.key, TypeOf[o.path])
        /\ o.key \in Keys /\ TypeOf[o.path] \in AgentTypes
    BY <1>5, IdentityConstants DEF Apply, Operations, AtPath, Plain, Operation
  <2>2. CASE At(rows, o.key) # {}
    BY <2>1, <2>2 DEF EnsureBound, Outcome, OneChange
  <2>3. CASE At(rows, o.key) = {}
    <3> DEFINE n == newIdentity(o.key, TypeOf[o.path], "detected", NoPath)
    <3>1. n \in Rows /\ n.key = o.key
      BY <2>1, NewIdentityIsRow DEF newIdentity
    <3>2. o.key \notin KeysOf(rows)
      BY <2>3 DEF At, KeysOf
    <3>3. r = Outcome(Append(rows, n), o.key)
      BY <2>1, <2>3 DEF EnsureBound
    <3>4. QED  BY <2>1, <3>1, <3>2, <3>3 DEF Outcome, OneChange, Registered
  <2>4. QED  BY <2>2, <2>3
<1>6. CASE o.name = "bind"
  <2>1. r \in BindInstallPath(rows, o.key, o.path) /\ o.key \in Keys /\ o.path \in Paths
    BY <1>6 DEF Apply, Operations, AtPath, Plain, Operation
  <2>2. PICK i \in 1..Len(rows) : r = Outcome([rows EXCEPT ![i].path = o.path], o.key)
    BY <2>1 DEF BindInstallPath, First, At
  <2>3. QED  BY <2>1, <2>2 DEF Outcome, OneChange, EditedAt
<1>7. CASE o.name = "revocation"
  <2>1. r \in setRevocation(rows, o.key, o.value) /\ o.key \in Keys /\ o.value \in BOOLEAN
    BY <1>7 DEF Apply, Operations, AtPath, Plain, Operation
  <2>2. PICK i \in 1..Len(rows) : r = Outcome([rows EXCEPT ![i].revoked = o.value], o.key)
    BY <2>1 DEF setRevocation, First, At
  <2>3. QED  BY <2>1, <2>2 DEF Outcome, OneChange, EditedAt
<1>8. CASE o.name = "grant"
  <2>1. r \in SetGrant(rows, o.key, o.value) /\ o.key \in Keys /\ o.value \in BOOLEAN
    BY <1>8 DEF Apply, Operations, AtPath, Plain, Operation
  <2>2. PICK i \in 1..Len(rows) : r = Outcome([rows EXCEPT ![i].grant = o.value], o.key)
    BY <2>1 DEF SetGrant, First, At
  <2>3. QED  BY <2>1, <2>2 DEF Outcome, OneChange, EditedAt
<1>9. QED
  BY <1>2, <1>3, <1>4, <1>5, <1>6, <1>7, <1>8 DEF Operations, AtPath, Plain, Operation

(* Rows with one change are rows, of no key but k and the old ones.        *)
LEMMA ChangeType ==
  ASSUME NEW rows \in Seq(Rows), NEW new, NEW k \in Keys, OneChange(rows, new, k)
  PROVE  new \in Seq(Rows) /\ KeysOf(new) \subseteq KeysOf(rows) \cup {k}
<1>1. ASSUME NEW i \in 1..Len(rows), EditedAt(rows, new, i)
      PROVE  new \in Seq(Rows) /\ KeysOf(new) = KeysOf(rows)
  <2>1. rows[i] \in Rows
    OBVIOUS
  <2>2. PICK r \in Rows : new = [rows EXCEPT ![i] = r] /\ r.key = rows[i].key
    <3>1. /\ \A path \in Paths \cup {NoPath} : [rows[i] EXCEPT !.path = path] \in Rows
          /\ \A b \in BOOLEAN : [rows[i] EXCEPT !.revoked = b] \in Rows
          /\ \A b \in BOOLEAN : [rows[i] EXCEPT !.grant = b] \in Rows
      BY <2>1 DEF Rows
    <3>2. /\ \A path : [rows[i] EXCEPT !.path = path].key = rows[i].key
          /\ \A b : [rows[i] EXCEPT !.revoked = b].key = rows[i].key
          /\ \A b : [rows[i] EXCEPT !.grant = b].key = rows[i].key
      BY <2>1 DEF Rows
    <3>3. QED  BY <1>1, <3>1, <3>2 DEF EditedAt
  <2>3. /\ new \in Seq(Rows) /\ Len(new) = Len(rows)
        /\ \A j \in 1..Len(rows) : new[j].key = rows[j].key
    BY <2>2
  <2>4. QED  BY <2>3 DEF KeysOf
<1>2. ASSUME Registered(rows, new, k)
      PROVE  new \in Seq(Rows) /\ KeysOf(new) \subseteq KeysOf(rows) \cup {k}
  <2>1. PICK r \in Rows : r.key = k /\ new = Append(rows, r)
    BY <1>2 DEF Registered
  <2>2. /\ new \in Seq(Rows) /\ Len(new) = Len(rows) + 1
        /\ \A j \in 1..Len(rows) : new[j] = rows[j]
        /\ new[Len(rows) + 1] = r
    BY <2>1
  <2>3. QED  BY <2>1, <2>2 DEF KeysOf
<1>3. QED  BY <1>1, <1>2 DEF OneChange

(***************************************************************************)
(* The invariant.                                                          *)
(***************************************************************************)
KeysMinted ==
    KeysOf(items) \subseteq minted /\ \A p \in Procs : KeysOf(call[p].rows) \subseteq minted

OneSaver ==
    \A p \in Procs :
        /\ Runs(p, "write") => ~torn /\ call[p].key \in Keys
                               /\ OneChange(items, call[p].rows, call[p].key)
        /\ Runs(p, "writing") => ~torn /\ items = <<>>

(* The second half of a refresh and the deployment follow their calls.     *)
FlowOK ==
    \A p \in Procs :
        /\ Runs(p, "between") => call[p].op.name = "ensure"
        /\ Runs(p, "deploy") => call[p].op.name \in {"install", "bind"}

IInv == TypeOK /\ Mutex /\ KeysMinted /\ FlowOK /\ OneSaver

LEMMA LockMoves ==
  ASSUME [Next]_vars
  PROVE  [LockNext]_lockVars
<1>1. ASSUME NEW p \in Procs, Step(p)
      PROVE  [LockNext]_lockVars
  BY <1>1 DEF Step, withWrite, LockNext, LockStep, lockVars, BeginCall, BeginInstall, BeginRefresh, Begin, Call,
     RefreshBinds, Uninstall, Locked, CallFails, Load, CannotSave, Truncate, Save, SaveFails, EndCall, Deploy,
     NoDeploy, CallerDies, CallerRestarts
<1>2. CASE UNCHANGED vars
  BY <1>2 DEF vars
<1>3. QED  BY <1>1, <1>2 DEF Next

CallType == [step : Steps, op : Operations, rows : Seq(Rows), key : Keys \cup {NoKey}]

LEMMA RunType ==
  /\ Idle \in CallType /\ Idle.step = "idle" /\ Idle.rows = <<>>
  /\ \A s \in Steps, o \in Operations, rows \in Seq(Rows), k \in Keys \cup {NoKey} :
        /\ Run(s, o, rows, k) \in CallType
        /\ Run(s, o, rows, k) = [step |-> s, op |-> o, rows |-> rows, key |-> k]
  BY DEF Idle, Run, CallType, Operations, Steps

LEMMA GoType ==
  ASSUME NEW r \in CallType, NEW s \in Steps
  PROVE  [r EXCEPT !.step = s] \in CallType /\ [r EXCEPT !.step = s].step = s
  BY DEF CallType

(* What Load gives the caller.                                             *)
LEMMA LoadGives ==
  ASSUME TypeOK, KeysMinted, NEW p \in Procs, NEW o \in Apply(call[p].op, items)
  PROVE  /\ OneChange(items, o.rows, o.key)
         /\ o.key \in Keys /\ o.rows \in Seq(Rows)
         /\ KeysOf(o.rows) \subseteq minted \cup {o.key}
<1>1. items \in Seq(Rows) /\ call[p].op \in Operations /\ KeysOf(items) \subseteq minted
  BY DEF TypeOK, KeysMinted
<1>2. OneChange(items, o.rows, o.key) /\ o.key \in Keys
  BY <1>1, ApplyChange
<1>3. QED  BY <1>1, <1>2, ChangeType

(* A call's step agrees with its place in the lock.                        *)
Agree(r, place) == (r.step \in InLock <=> place = "in") /\ (r.step = "lock" <=> place = "try")

CallsOK ==
    /\ call \in [Procs -> CallType]
    /\ at \in [Procs -> Places]
    /\ \A p \in Procs : Agree(call[p], at[p])

LEMMA CallsTyped == TypeOK => CallsOK
  BY DEF TypeOK, CallsOK, CallType, LockTypeOK, Agree, Runs

LEMMA CallsStep ==
  ASSUME CallsOK, NEW p \in Procs, NEW r \in CallType, NEW place \in Places,
         Now(p, r), at' = [at EXCEPT ![p] = place], Agree(r, place)
  PROVE  CallsOK'
  BY DEF CallsOK, Now, Agree

(* What each step of a caller makes of its call and of its place.          *)
LEMMA CallMoves ==
  ASSUME TypeOK, KeysMinted, FlowOK, NEW p \in Procs, Step(p)
  PROVE  CallsOK'
<1> USE DEF Agree, InLock, Places, Runs, Move, Go
<1> USE CallsTyped, RunType
<1>1. call[p] \in CallType /\ Agree(call[p], at[p]) /\ at[p] \in Places
  BY DEF CallsOK
<1>2. \A s \in Steps : [call[p] EXCEPT !.step = s] \in CallType /\ [call[p] EXCEPT !.step = s].step = s
  BY ONLY <1>1, GoType
<1>3. at = [at EXCEPT ![p] = at[p]]
  BY DEF CallsOK
<1>4. ASSUME NEW o \in Operations, Call(p, o)
      PROVE  CallsOK'
  <2>1. Run("lock", o, <<>>, NoKey) \in CallType /\ Run("lock", o, <<>>, NoKey).step = "lock"
    BY DEF Run, CallType, Steps
  <2>2. QED  BY <1>4, <2>1, CallsStep DEF Call, Enter
<1>5. ASSUME NEW o \in Operations, BeginCall(p, o)
      PROVE  CallsOK'
  BY <1>4, <1>5 DEF BeginCall, Begin
<1>6. ASSUME NEW path \in Paths, BeginInstall(p, path)
      PROVE  CallsOK'
  BY <1>4, <1>6 DEF BeginInstall, Begin, Operations
<1>7. ASSUME NEW path \in Paths, BeginRefresh(p, path)
      PROVE  CallsOK'
  <2>1. AtPath("ensure", path, config[path]) \in Operations
    BY <1>7 DEF BeginRefresh, Operations, TypeOK
  <2>2. QED  BY <1>4, <1>7, <2>1 DEF BeginRefresh, Begin
<1>8. ASSUME NEW path \in Paths, Uninstall(p, path)
      PROVE  CallsOK'
  BY <1>8 DEF Uninstall, CallsOK, lockVars
<1>9. CASE RefreshBinds(p)
  <2>1. call[p].op \in Operations /\ call[p].op.name = "ensure"
    BY <1>1, <1>9 DEF RefreshBinds, FlowOK, CallType
  <2>2. call[p].op.path \in Paths /\ call[p].op.key \in Keys
    BY <2>1 DEF Operations, AtPath, Plain, Operation
  <2>3. AtPath("bind", call[p].op.path, call[p].op.key) \in Operations
    BY <2>2 DEF Operations
  <2>4. QED  BY <1>4, <1>9, <2>3 DEF RefreshBinds
<1>10. CASE Locked(p)
  BY <1>2, <1>10, CallsStep DEF Locked, Take, Steps
<1>11. CASE Load(p)
  <2>1. PICK o \in Apply(call[p].op, items) : Now(p, Run("write", call[p].op, o.rows, o.key))
    BY <1>11 DEF Load
  <2>2. Run("write", call[p].op, o.rows, o.key) \in CallType
    BY <1>1, LoadGives DEF CallType, Steps
  <2>3. Run("write", call[p].op, o.rows, o.key).step = "write"
    BY DEF Run
  <2>4. at' = [at EXCEPT ![p] = "in"]
    BY <1>1, <1>3, <1>11 DEF Load, lockVars
  <2>5. QED  BY <2>1, <2>2, <2>3, <2>4, CallsStep
<1>12. CASE Truncate(p) \/ Save(p)
  <2>1. at' = [at EXCEPT ![p] = "in"]
    BY <1>1, <1>3, <1>12 DEF Truncate, Save, lockVars
  <2>2. QED  BY <1>2, <1>12, <2>1, CallsStep DEF Truncate, Save, Steps
<1>13. CASE CallFails(p) \/ CannotSave(p) \/ SaveFails(p)
  BY <1>13, CallsStep DEF CallFails, CannotSave, SaveFails, Release
<1>14. CASE EndCall(p)
  <2>1. After(call[p]) \in CallType /\ After(call[p]).step \in {"between", "deploy", "idle"}
    BY <1>1 DEF After, CallType, Steps
  <2>2. QED  BY <1>14, <2>1, CallsStep DEF EndCall, Release
<1>15. CASE Deploy(p) \/ NoDeploy(p)
  <2>1. at' = [at EXCEPT ![p] = at[p]] /\ at[p] \notin {"in", "try"}
    BY <1>1, <1>3, <1>15 DEF Deploy, NoDeploy, lockVars
  <2>2. QED  BY <1>1, <1>15, <2>1, CallsStep DEF Deploy, NoDeploy
<1>16. CASE CallerDies(p)
  BY <1>16, CallsStep DEF CallerDies, Die
<1>17. CASE CallerRestarts(p)
  <2>1. Now(p, call[p])
    BY <1>17 DEF CallerRestarts, idVars, Now, CallsOK
  <2>2. at[p] = "dead" /\ at' = [at EXCEPT ![p] = "out"]
    BY <1>17 DEF CallerRestarts, Restart
  <2>3. QED  BY <1>1, <2>1, <2>2, CallsStep
<1>18. QED
  BY <1>5, <1>6, <1>7, <1>8, <1>9, <1>10, <1>11, <1>12, <1>13, <1>14, <1>15, <1>16, <1>17 DEF Step, withWrite

LEMMA TypeStep ==
  ASSUME TypeOK, KeysMinted, FlowOK, [Next]_vars
  PROVE  TypeOK'
<1>1. LockTypeOK'
  BY LockMoves, LockTypeStep DEF TypeOK
<1>2. CASE UNCHANGED vars
  BY <1>1, <1>2 DEF vars, idVars, lockVars, TypeOK, Runs
<1>3. ASSUME NEW p \in Procs, Step(p)
      PROVE  TypeOK'
  <2>1. CallsOK'
    BY <1>3, CallMoves
  <2>2. /\ call' \in [Procs -> CallType]
        /\ \A q \in Procs : call'[q].step \in InLock <=> at'[q] = "in"
        /\ \A q \in Procs : call'[q].step = "lock" <=> at'[q] = "try"
    BY <2>1 DEF CallsOK, Agree
  <2>3. call[p].rows \in Seq(Rows) /\ call[p].key \in Keys \cup {NoKey}
        /\ call[p].op \in Operations
    BY DEF TypeOK
  <2>4. <<>> \in Seq(Rows)
    OBVIOUS
  <2>5. items' \in Seq(Rows) /\ torn' \in BOOLEAN
    BY <1>3, <2>3, <2>4 DEF TypeOK, Step, withWrite, BeginCall, BeginInstall, BeginRefresh, Begin, Call, RefreshBinds,
       Uninstall, Locked, CallFails, Load, CannotSave, Truncate, Save, SaveFails, PartlyWritten, EndCall, Deploy,
       NoDeploy, CallerDies, CallerRestarts, idVars
  <2>6. damaged' \in BOOLEAN /\ begun' \in 0..MaxCalls
    <3>1. CASE \E o \in Operations : Begin(p, o)
      BY <3>1, IdentityConstants DEF Begin, Call, TypeOK
    <3>2. CASE ~ \E o \in Operations : Begin(p, o)
      <4>1. \A path \in Paths : /\ AtPath("install", path, NoKey) \in Operations
                                /\ config[path] # NoKey => AtPath("ensure", path, config[path]) \in Operations
        BY DEF TypeOK, Operations
      <4>2. QED
        BY <1>3, <3>2, <4>1 DEF TypeOK, Step, withWrite, BeginCall, BeginInstall, BeginRefresh, Call, RefreshBinds,
           Uninstall, Locked, CallFails, Load, CannotSave, Truncate, Save, SaveFails, PartlyWritten, EndCall,
           Deploy, NoDeploy, CallerDies, CallerRestarts, idVars
    <3>3. QED  BY <3>1, <3>2
  <2>7. config' \in [Paths -> Keys \cup {NoKey}]
    <3>1. CASE Deploy(p)
      BY <2>3, <3>1 DEF Deploy, TypeOK
    <3>2. CASE \E path \in Paths : Uninstall(p, path)
      BY <3>2 DEF Uninstall, TypeOK
    <3>3. CASE ~Deploy(p) /\ ~ \E path \in Paths : Uninstall(p, path)
      BY <1>3, <3>3 DEF TypeOK, Step, withWrite, BeginCall, BeginInstall, BeginRefresh, Begin, Call, RefreshBinds,
         Locked, CallFails, Load, CannotSave, Truncate, Save, SaveFails, EndCall, NoDeploy, CallerDies,
         CallerRestarts, idVars
    <3>4. QED  BY <3>1, <3>2, <3>3
  <2>8. minted' \subseteq Keys
    <3>1. CASE Load(p)
      BY <3>1, LoadGives DEF Load, TypeOK
    <3>2. CASE ~Load(p)
      BY <1>3, <3>2 DEF TypeOK, Step, withWrite, BeginCall, BeginInstall, BeginRefresh, Begin, Call, RefreshBinds,
         Uninstall, Locked, CallFails, CannotSave, Truncate, Save, SaveFails, EndCall, Deploy, NoDeploy,
         CallerDies, CallerRestarts, idVars
    <3>3. QED  BY <3>1, <3>2
  <2>9. banned' \subseteq Keys
    <3>1. CASE EndCall(p)
      <4>1. Revokes(call[p].op) => call[p].op.key \in Keys
        BY <2>3 DEF Revokes, Operations, Plain, AtPath, Operation
      <4>2. QED  BY <3>1, <4>1 DEF EndCall, TypeOK
    <3>2. CASE ~EndCall(p)
      BY <1>3, <3>2 DEF TypeOK, Step, withWrite, BeginCall, BeginInstall, BeginRefresh, Begin, Call, RefreshBinds,
         Uninstall, Locked, CallFails, Load, CannotSave, Truncate, Save, SaveFails, Deploy, NoDeploy,
         CallerDies, CallerRestarts, idVars
    <3>3. QED  BY <3>1, <3>2
  <2>10. rebound' \subseteq Keys
    <3>1. CASE Truncate(p)
      <4>1. call[p].op.name = "bind" => call[p].op.key \in Keys
        BY <2>3 DEF Operations, Plain, AtPath, Operation
      <4>2. QED  BY <3>1, <4>1 DEF Truncate, TypeOK
    <3>2. CASE ~Truncate(p)
      BY <1>3, <3>2 DEF TypeOK, Step, withWrite, BeginCall, BeginInstall, BeginRefresh, Begin, Call, RefreshBinds,
         Uninstall, Locked, CallFails, Load, CannotSave, Save, SaveFails, EndCall, Deploy, NoDeploy,
         CallerDies, CallerRestarts, idVars
    <3>3. QED  BY <3>1, <3>2
  <2>11. QED
    BY <1>1, <2>2, <2>5, <2>6, <2>7, <2>8, <2>9, <2>10 DEF TypeOK, CallType, Runs
<1>4. QED  BY <1>2, <1>3 DEF Next

(* A step of one caller leaves the calls of the others alone, and only the *)
(* caller inside the lock changes the file.                                *)
LEMMA OthersKeep ==
  ASSUME TypeOK, NEW p \in Procs, Step(p)
  PROVE  /\ \A q \in Procs : q # p => call'[q] = call[q]
         /\ call[p].step \notin InLock => UNCHANGED <<items, torn, minted, damaged>>
<1> USE DEF Now, Go, Runs, InLock, TypeOK
<1>1. \A q \in Procs : q # p => call'[q] = call[q]
  BY DEF Step, withWrite, BeginCall, BeginInstall, BeginRefresh, Begin, Call, RefreshBinds, Uninstall, Locked,
     CallFails, Load, CannotSave, Truncate, Save, SaveFails, EndCall, Deploy, NoDeploy, CallerDies,
     CallerRestarts, idVars
<1>2. call[p].step \notin InLock => UNCHANGED <<items, torn, minted, damaged>>
  BY DEF Step, withWrite, BeginCall, BeginInstall, BeginRefresh, Begin, Call, RefreshBinds, Uninstall, Locked,
     CallFails, Load, CannotSave, Truncate, Save, SaveFails, EndCall, Deploy, NoDeploy, CallerDies,
     CallerRestarts, idVars
<1>3. QED  BY <1>1, <1>2

LEMMA FlowStep ==
  ASSUME TypeOK, FlowOK, [Next]_vars
  PROVE  FlowOK'
<1> USE DEF FlowOK, Runs
<1>1. CASE UNCHANGED vars
  BY <1>1 DEF vars, idVars
<1>2. ASSUME NEW p \in Procs, Step(p)
      PROVE  FlowOK'
  <2>1. /\ call'[p].step = "between" => call'[p].op.name = "ensure"
        /\ call'[p].step = "deploy" => call'[p].op.name \in {"install", "bind"}
    <3>1. CASE EndCall(p)
      <4>1. call'[p] = After(call[p])
        BY <3>1 DEF EndCall, Now, TypeOK
      <4>2. QED  BY <4>1 DEF After, Run, Idle
    <3>2. CASE call'[p] = call[p]
      BY <3>2
    <3>3. CASE ~EndCall(p) /\ call'[p] # call[p]
      <4>1. call'[p].step \notin {"between", "deploy"}
        BY <1>2, <3>3 DEF TypeOK, Now, Go, Run, Idle, Step, withWrite, BeginCall, BeginInstall, BeginRefresh, Begin,
           Call, RefreshBinds, Uninstall, Locked, CallFails, Load, CannotSave, Truncate, Save, SaveFails, Deploy,
           NoDeploy, CallerDies, CallerRestarts, idVars
      <4>2. QED  BY <4>1
    <3>4. QED  BY <3>1, <3>2, <3>3
  <2>2. QED  BY <1>2, <2>1, OthersKeep
<1>3. QED  BY <1>1, <1>2 DEF Next

LEMMA KeysStep ==
  ASSUME TypeOK, KeysMinted, [Next]_vars
  PROVE  KeysMinted'
<1> USE DEF KeysMinted
<1>1. KeysOf(<<>>) = {}
  BY DEF KeysOf
<1>2. CASE UNCHANGED vars
  BY <1>2 DEF vars, idVars
<1>3. ASSUME NEW p \in Procs, Step(p)
      PROVE  KeysMinted'
  <2>1. CASE Load(p)
    <3>1. PICK o \in Apply(call[p].op, items) :
             /\ Now(p, Run("write", call[p].op, o.rows, o.key))
             /\ minted' = minted \cup {o.key}
      BY <2>1 DEF Load
    <3>2. KeysOf(o.rows) \subseteq minted'
      BY <3>1, LoadGives
    <3>3. call'[p].rows = o.rows
      BY <3>1 DEF Now, Run, TypeOK
    <3>4. QED  BY <1>3, <2>1, <3>1, <3>2, <3>3, OthersKeep DEF Load
  <2>2. CASE ~Load(p)
    <3>1. minted' = minted
      BY <1>3, <2>2 DEF Step, withWrite, BeginCall, BeginInstall, BeginRefresh, Begin, Call, RefreshBinds, Uninstall,
         Locked, CallFails, CannotSave, Truncate, Save, SaveFails, EndCall, Deploy, NoDeploy, CallerDies,
         CallerRestarts, idVars
    <3>2. items' \in {items, <<>>, call[p].rows}
      BY <1>3, <2>2 DEF Step, withWrite, BeginCall, BeginInstall, BeginRefresh, Begin, Call, RefreshBinds, Uninstall,
         Locked, CallFails, CannotSave, Truncate, Save, SaveFails, EndCall, Deploy, NoDeploy, CallerDies,
         CallerRestarts, idVars
    <3>3. call'[p].rows \in {call[p].rows, <<>>}
      BY <1>3, <2>2 DEF TypeOK, Now, Go, Run, Idle, After, Step, withWrite, BeginCall, BeginInstall, BeginRefresh,
         Begin, Call, RefreshBinds, Uninstall, Locked, CallFails, CannotSave, Truncate, Save, SaveFails, EndCall,
         Deploy, NoDeploy, CallerDies, CallerRestarts, idVars
    <3>4. QED  BY <1>1, <1>3, <3>1, <3>2, <3>3, OthersKeep
  <2>3. QED  BY <2>1, <2>2
<1>4. QED  BY <1>2, <1>3 DEF Next

(* One caller is inside the lock.                                          *)
LEMMA OneInLock ==
  ASSUME TypeOK, Mutex, NEW p \in Procs, NEW q \in Procs,
         call[p].step \in InLock, call[q].step \in InLock
  PROVE  p = q
  BY IdentityConstants DEF Mutex, Held, TypeOK

LEMMA SaverStep ==
  ASSUME TypeOK, Mutex, KeysMinted, OneSaver, [Next]_vars
  PROVE  OneSaver'
<1> USE DEF OneSaver, Runs
<1>1. CASE UNCHANGED vars
  BY <1>1 DEF vars, idVars
<1>2. ASSUME NEW p \in Procs, Step(p)
      PROVE  OneSaver'
  <2>1. ASSUME NEW q \in Procs, q # p, call[q].step \in {"write", "writing"}
        PROVE  UNCHANGED <<items, torn>>
    <3>1. call[p].step \notin InLock
      BY <2>1, OneInLock DEF InLock
    <3>2. QED  BY <1>2, <3>1, OthersKeep
  <2>2. /\ call'[p].step = "write" => ~torn' /\ call'[p].key \in Keys
                                        /\ OneChange(items', call'[p].rows, call'[p].key)
        /\ call'[p].step = "writing" => ~torn' /\ items' = <<>>
    <3>1. CASE Load(p)
      <4>1. PICK o \in Apply(call[p].op, items) : Now(p, Run("write", call[p].op, o.rows, o.key))
        BY <3>1 DEF Load
      <4>2. call'[p] = Run("write", call[p].op, o.rows, o.key)
        BY <4>1 DEF Now, TypeOK
      <4>3. /\ call'[p].step = "write" /\ call'[p].rows = o.rows /\ call'[p].key = o.key
        BY <4>2 DEF Run
      <4>4. OneChange(items, o.rows, o.key) /\ o.key \in Keys
        BY LoadGives
      <4>5. QED  BY <3>1, <4>3, <4>4 DEF Load
    <3>2. CASE Truncate(p)
      <4>1. call'[p].step = "writing"
        BY <3>2 DEF Truncate, Go, Now, TypeOK
      <4>2. QED  BY <3>2, <4>1 DEF Truncate
    <3>3. CASE call'[p] = call[p] /\ UNCHANGED <<items, torn>>
      BY <3>3
    <3>4. CASE call'[p].step \notin {"write", "writing"}
      BY <3>4
    <3>5. QED
      BY <1>2, <3>1, <3>2, <3>3, <3>4 DEF TypeOK, Now, Go, Run, Idle, After, Step, withWrite, BeginCall, BeginInstall,
         BeginRefresh, Begin, Call, RefreshBinds, Uninstall, Locked, CallFails, CannotSave, Save, SaveFails,
         EndCall, Deploy, NoDeploy, CallerDies, CallerRestarts, idVars
  <2>3. QED  BY <1>2, <2>1, <2>2, OthersKeep
<1>3. QED  BY <1>1, <1>2 DEF Next

LEMMA Initially == Init => IInv
<1> SUFFICES ASSUME Init PROVE IInv
  OBVIOUS
<1> USE IdentityConstants, FirstRowsOK DEF Init, Runs
<1>1. LockTypeOK /\ Mutex
  BY LockInitially
<1>2. call \in [Procs -> CallType] /\ \A p \in Procs : call[p] = Idle
  BY RunType
<1>3. \A p \in Procs : call[p].step = "idle" /\ call[p].rows = <<>>
  BY <1>2, RunType
<1>4. KeysOf(FirstRows) \subseteq Keys /\ NoKey \notin KeysOf(FirstRows) /\ KeysOf(<<>>) = {}
  <2>1. \A i \in 1..Len(FirstRows) : FirstRows[i] \in Rows
    OBVIOUS
  <2>2. KeysOf(FirstRows) \subseteq Keys
    BY <2>1 DEF KeysOf, Rows
  <2>3. QED  BY <2>2 DEF KeysOf
<1>5. \A p \in Procs : at[p] = "out"
  BY DEF LockInit
<1>6. TypeOK
  <2>1. minted \subseteq Keys /\ begun \in 0..MaxCalls
    BY <1>4
  <2>2. \A p \in Procs : (call[p].step \in InLock <=> at[p] = "in") /\ (Runs(p, "lock") <=> at[p] = "try")
    BY <1>3, <1>5 DEF InLock
  <2>3. QED  BY <1>1, <1>2, <2>1, <2>2 DEF TypeOK, CallType
<1>7. KeysMinted /\ FlowOK /\ OneSaver
  BY <1>3, <1>4 DEF KeysMinted, FlowOK, OneSaver
<1>8. QED  BY <1>1, <1>6, <1>7 DEF IInv

LEMMA InvStep == IInv /\ [Next]_vars => IInv'
<1> SUFFICES ASSUME IInv, [Next]_vars
             PROVE  IInv'
  OBVIOUS
<1>1. TypeOK /\ Mutex /\ KeysMinted /\ FlowOK /\ OneSaver /\ LockTypeOK
  BY DEF IInv, TypeOK
<1>2. Mutex'
  BY <1>1, LockMoves, MutexStep
<1>3. TypeOK' /\ FlowOK'
  BY <1>1, TypeStep, FlowStep
<1>4. KeysMinted' /\ OneSaver'
  BY <1>1, KeysStep, SaverStep
<1>5. QED  BY <1>2, <1>3, <1>4 DEF IInv

LEMMA Inductive == Spec => []IInv
  BY Initially, InvStep, PTL DEF Spec

(* Type correctness, for any callers, keys, agents and installs.           *)
THEOREM TypeCorrect == Spec => []TypeOK
<1>1. IInv => TypeOK
  BY DEF IInv
<1>2. QED  BY <1>1, Inductive, PTL

(***************************************************************************)
(* The file implements the table.                                          *)
(***************************************************************************)
LEMMA TableIs ==
  ASSUME TypeOK, Mutex
  PROVE  /\ \A p \in Procs : call[p].step = "writing" => TableNow = call[p].rows
         /\ (\A p \in Procs : call[p].step # "writing") => TableNow = IF torn THEN <<>> ELSE items
<1>1. ASSUME NEW p \in Procs, call[p].step = "writing"
      PROVE  TableNow = call[p].rows
  <2>1. Writing = {p}
    BY <1>1, OneInLock DEF Writing, Runs, InLock
  <2>2. QED  BY <2>1 DEF TableNow
<1>2. QED  BY <1>1 DEF TableNow, Writing, Runs

LEMMA TableIsNext ==
  ASSUME TypeOK', Mutex'
  PROVE  /\ \A p \in Procs : call'[p].step = "writing" => TableNow' = call'[p].rows
         /\ (\A p \in Procs : call'[p].step # "writing") => TableNow' = IF torn' THEN <<>> ELSE items'
<1>1. ASSUME NEW p \in Procs, call'[p].step = "writing"
      PROVE  TableNow' = call'[p].rows
  <2>1. Writing' = {p}
    BY <1>1, IdentityConstants DEF Writing, Runs, InLock, Mutex, Held, TypeOK
  <2>2. QED  BY <2>1 DEF TableNow
<1>2. QED  BY <1>1 DEF TableNow, Writing, Runs

(* One change is a step of the table.                                      *)
LEMMA ChangeIsStep ==
  ASSUME NEW k \in Keys, TableNow \in Seq(Rows), OneChange(TableNow, TableNow', k)
  PROVE  [Table!Next]_TableNow
<1> DEFINE t == TableNow
           u == TableNow'
<1>1. t \in Seq(Rows) /\ OneChange(t, u, k)
  OBVIOUS
<1> HIDE DEF t, u
<1>2. ASSUME Registered(t, u, k)
      PROVE  /\ Len(u) = Len(t) + 1 /\ SubSeq(u, 1, Len(t)) = t
             /\ u[Len(u)].key \notin KeysOf(t)
  <2>1. PICK r \in Rows : r.key = k /\ u = Append(t, r)
    BY <1>2 DEF Registered
  <2>2. /\ u \in Seq(Rows) /\ Len(u) = Len(t) + 1 /\ Len(t) \in Nat
        /\ \A j \in 1..Len(t) : u[j] = t[j]
        /\ u[Len(u)] = r
    BY <1>1, <2>1
  <2>3. /\ SubSeq(u, 1, Len(t)) \in Seq(Rows) /\ Len(SubSeq(u, 1, Len(t))) = Len(t)
        /\ \A j \in 1..Len(t) : SubSeq(u, 1, Len(t))[j] = u[j]
    BY <2>2
  <2>4. SubSeq(u, 1, Len(t)) = t
    BY <1>1, <2>2, <2>3, SeqEqual
  <2>5. QED  BY <1>2, <2>1, <2>2, <2>4 DEF Registered
<1>3. ASSUME NEW i \in 1..Len(t), EditedAt(t, u, i)
      PROVE  /\ Len(u) = Len(t)
             /\ \/ u = [t EXCEPT ![i].path = u[i].path]
                \/ u = [t EXCEPT ![i].revoked = u[i].revoked]
                \/ u = [t EXCEPT ![i].grant = u[i].grant]
  <2>1. t[i] \in Rows
    BY <1>1
  <2>2. CASE \E path \in Paths \cup {NoPath} : u = [t EXCEPT ![i].path = path]
    <3>1. PICK path \in Paths \cup {NoPath} : u = [t EXCEPT ![i].path = path]
      BY <2>2
    <3>2. u = [t EXCEPT ![i] = [t[i] EXCEPT !.path = path]] /\ [t[i] EXCEPT !.path = path].path = path
      BY <2>1, <3>1 DEF Rows
    <3>3. Len(u) = Len(t) /\ u[i].path = path
      BY <1>1, <3>2
    <3>4. QED  BY <3>1, <3>3
  <2>3. CASE \E b \in BOOLEAN : u = [t EXCEPT ![i].revoked = b]
    <3>1. PICK b \in BOOLEAN : u = [t EXCEPT ![i].revoked = b]
      BY <2>3
    <3>2. u = [t EXCEPT ![i] = [t[i] EXCEPT !.revoked = b]] /\ [t[i] EXCEPT !.revoked = b].revoked = b
      BY <2>1, <3>1 DEF Rows
    <3>3. Len(u) = Len(t) /\ u[i].revoked = b
      BY <1>1, <3>2
    <3>4. QED  BY <3>1, <3>3
  <2>4. CASE \E b \in BOOLEAN : u = [t EXCEPT ![i].grant = b]
    <3>1. PICK b \in BOOLEAN : u = [t EXCEPT ![i].grant = b]
      BY <2>4
    <3>2. u = [t EXCEPT ![i] = [t[i] EXCEPT !.grant = b]] /\ [t[i] EXCEPT !.grant = b].grant = b
      BY <2>1, <3>1 DEF Rows
    <3>3. Len(u) = Len(t) /\ u[i].grant = b
      BY <1>1, <3>2
    <3>4. QED  BY <3>1, <3>3
  <2>5. QED  BY <1>3, <2>2, <2>3, <2>4 DEF EditedAt
<1>4. CASE u = t
  BY <1>4 DEF t, u
<1>5. CASE Registered(t, u, k)
  <2>1. Table!KeysOf(t) = KeysOf(t)
    BY DEF Table!KeysOf, KeysOf
  <2>2. Table!Register
    BY <1>2, <1>5, <2>1 DEF Table!Register, t, u
  <2>3. QED  BY <2>2 DEF Table!Next
<1>6. CASE \E i \in 1..Len(t) : EditedAt(t, u, i)
  <2>1. Table!Edit
    BY <1>3, <1>6 DEF Table!Edit, t, u
  <2>2. QED  BY <2>1 DEF Table!Next
<1>7. QED  BY <1>1, <1>4, <1>5, <1>6 DEF OneChange

LEMMA TableStep ==
  ASSUME IInv, IInv', [Next]_vars
  PROVE  [Table!Next]_TableNow
<1> USE DEF Runs
<1>1. /\ TypeOK /\ Mutex /\ KeysMinted /\ OneSaver
      /\ TypeOK' /\ Mutex'
  BY DEF IInv
<1>2. /\ \A q \in Procs : call[q].step = "writing" => TableNow = call[q].rows
      /\ (\A q \in Procs : call[q].step # "writing") => TableNow = IF torn THEN <<>> ELSE items
  BY <1>1, TableIs
<1>3. /\ \A q \in Procs : call'[q].step = "writing" => TableNow' = call'[q].rows
      /\ (\A q \in Procs : call'[q].step # "writing") => TableNow' = IF torn' THEN <<>> ELSE items'
  BY <1>1, TableIsNext
<1>4. CASE UNCHANGED vars
  BY <1>4 DEF vars, idVars, TableNow, Writing
<1>5. ASSUME NEW p \in Procs, Step(p)
      PROVE  [Table!Next]_TableNow
  <2>1. \A q \in Procs : q # p => call'[q] = call[q]
    BY <1>1, <1>5, OthersKeep
  <2>2. \A q \in Procs : q # p /\ call[p].step \in InLock => call[q].step # "writing"
    BY <1>1, OneInLock DEF InLock
  <2>3. CASE Truncate(p)
    <3>1. call[p].step = "write" /\ call'[p].step = "writing" /\ call'[p].rows = call[p].rows
      BY <1>1, <2>3 DEF Truncate, Go, Now, TypeOK
    <3>2. /\ ~torn /\ OneChange(items, call[p].rows, call[p].key)
          /\ call[p].key \in Keys /\ items \in Seq(Rows)
      BY <1>1, <3>1 DEF OneSaver, TypeOK
    <3>3. TableNow = items /\ TableNow' = call[p].rows
      BY <1>2, <1>3, <2>2, <3>1, <3>2 DEF InLock
    <3>4. QED  BY <3>2, <3>3, ChangeIsStep
  <2>4. CASE Save(p)
    <3>1. /\ call[p].step = "writing" /\ call'[p].step = "written"
          /\ items' = call[p].rows /\ torn' = torn /\ ~torn
      BY <1>1, <2>4 DEF Save, Go, Now, TypeOK, OneSaver
    <3>2. TableNow' = items'
      BY <1>3, <2>1, <2>2, <3>1 DEF InLock
    <3>3. QED  BY <1>2, <3>1, <3>2
  <2>5. CASE SaveFails(p) \/ (CallerDies(p) /\ call[p].step = "writing")
    <3>1. /\ call[p].step = "writing" /\ call'[p].step = "idle"
          /\ items' = <<>>
      BY <1>1, <2>5, RunType DEF SaveFails, CallerDies, Now, TypeOK, OneSaver
    <3>2. TableNow' = <<>>
      BY <1>3, <2>1, <2>2, <3>1 DEF InLock
    <3>3. QED  BY <3>2 DEF Table!Next, Table!Lose
  <2>6. CASE ~Truncate(p) /\ ~Save(p) /\ ~SaveFails(p) /\ ~(CallerDies(p) /\ call[p].step = "writing")
    <3>1. /\ items' = items /\ torn' = torn
      BY <1>5, <2>6 DEF Step, withWrite, BeginCall, BeginInstall, BeginRefresh, Begin, Call, RefreshBinds,
         Uninstall, Locked, CallFails, Load, CannotSave, EndCall, Deploy, NoDeploy, CallerDies, CallerRestarts,
         idVars
    <3>2. call'[p] = call[p] \/ (call[p].step # "writing" /\ call'[p].step # "writing")
      <4> DEFINE changed == call'[p] # call[p]
      <4>1. ASSUME changed
            PROVE  call[p].step # "writing"
        BY <1>1, <1>5, <2>6, <4>1 DEF TypeOK, Step, withWrite, BeginCall, BeginInstall, BeginRefresh, Begin, Call,
           RefreshBinds, Uninstall, Locked, CallFails, Load, CannotSave, EndCall, Deploy, NoDeploy, CallerDies,
           CallerRestarts, idVars
      <4>2. ASSUME changed
            PROVE  call'[p].step # "writing"
        BY <1>1, <1>5, <2>6, <4>2 DEF TypeOK, Now, Go, Run, Idle, After, Step, withWrite, BeginCall, BeginInstall,
           BeginRefresh, Begin, Call, RefreshBinds, Uninstall, Locked, CallFails, Load, CannotSave, EndCall,
           Deploy, NoDeploy, CallerDies, CallerRestarts, idVars
      <4>3. QED  BY <4>1, <4>2
    <3>3. TableNow' = TableNow
      <4>1. CASE \E q \in Procs : call[q].step = "writing" /\ call'[q] = call[q]
        BY <1>2, <1>3, <4>1
      <4>2. CASE \A q \in Procs : call[q].step # "writing" /\ call'[q].step # "writing"
        BY <1>2, <1>3, <3>1, <4>2
      <4>3. QED  BY <2>1, <3>2, <4>1, <4>2
    <3>4. QED  BY <3>3
  <2>7. QED  BY <2>3, <2>4, <2>5, <2>6
<1>6. QED  BY <1>4, <1>5 DEF Next

LEMMA TableInitially == Init => TableNow = FirstRows
<1> SUFFICES ASSUME Init PROVE TableNow = FirstRows
  OBVIOUS
<1>1. \A p \in Procs : call[p].step # "writing"
  BY DEF Init, Idle, Run
<1>2. TypeOK /\ Mutex
  BY Initially DEF IInv
<1>3. QED  BY <1>1, <1>2, TableIs DEF Init

(* However many callers read, change and rewrite the identity file, with   *)
(* deaths and failed saves, each changes the table by one whole operation  *)
(* or loses it: no lost update, no duplicate key, no dropped row.          *)
THEOREM ImplementsTable == Spec => TableSpec
<1>1. IInv /\ IInv' /\ [Next]_vars => [Table!Next]_TableNow
  BY TableStep
<1>2. QED
  BY <1>1, Inductive, TableInitially, PTL DEF Spec, TableSpec, Table!Spec

(***************************************************************************)
(* A revocation sticks.  Every table a caller saves is made of one that    *)
(* has the banned keys revoked, and no pending operation unrevokes one.    *)
(***************************************************************************)
RevokedIn(rows, k) == \E i \in 1..Len(rows) : rows[i].key = k /\ rows[i].revoked

LEMMA ApplyKeepsRevoked ==
  ASSUME NEW rows \in Seq(Rows), NEW o \in Operations, NEW r \in Apply(o, rows),
         NEW k \in Keys, RevokedIn(rows, k), ~(Unrevokes(o) /\ o.key = k)
  PROVE  RevokedIn(r.rows, k)
<1>1. PICK i \in 1..Len(rows) : rows[i].key = k /\ rows[i].revoked
  BY DEF RevokedIn
<1>2. \A j \in 1..Len(rows) : rows[j] \in Rows
  OBVIOUS
<1>3. ASSUME NEW type, NEW source, NEW path, r \in Minted(rows, type, source, path)
      PROVE  RevokedIn(r.rows, k)
  <2>1. PICK n : r.rows = Append(rows, n)
    BY <1>3 DEF Minted, Outcome
  <2>2. Len(r.rows) = Len(rows) + 1 /\ r.rows[i] = rows[i]
    BY <2>1
  <2>3. QED  BY <1>1, <2>2 DEF RevokedIn
<1>4. ASSUME NEW j \in 1..Len(rows), NEW path, r.rows = [rows EXCEPT ![j].path = path]
      PROVE  RevokedIn(r.rows, k)
  <2>1. Len(r.rows) = Len(rows) /\ r.rows[i].key = k /\ r.rows[i].revoked
    BY <1>1, <1>2, <1>4 DEF Rows
  <2>2. QED  BY <2>1 DEF RevokedIn
<1>5. ASSUME NEW j \in 1..Len(rows), NEW value, r.rows = [rows EXCEPT ![j].grant = value]
      PROVE  RevokedIn(r.rows, k)
  <2>1. Len(r.rows) = Len(rows) /\ r.rows[i].key = k /\ r.rows[i].revoked
    BY <1>1, <1>2, <1>5 DEF Rows
  <2>2. QED  BY <2>1 DEF RevokedIn
<1>6. ASSUME r.rows = rows
      PROVE  RevokedIn(r.rows, k)
  BY <1>6
<1>7. CASE o.name = "create"
  BY <1>3, <1>7 DEF Apply, CreateManual
<1>8. CASE o.name = "manual"
  <2>1. r \in EnsureManual(rows)
    BY <1>8 DEF Apply
  <2>2. r \in CreateManual(rows) \/ \E j \in 1..Len(rows) : r = Outcome(rows, rows[j].key)
    BY <2>1 DEF EnsureManual, First
  <2>3. r \in CreateManual(rows) \/ r.rows = rows
    BY <2>2 DEF Outcome
  <2>4. QED  BY <1>3, <1>6, <2>3 DEF CreateManual
<1>9. CASE o.name = "install"
  <2>1. First(Legacy(rows, o.path)) \subseteq 1..Len(rows)
    BY DEF First, Legacy
  <2>2. \/ r \in {Outcome(rows, rows[j].key) : j \in First(Installed(rows, o.path))}
        \/ r \in {Outcome([rows EXCEPT ![j].path = o.path], rows[j].key) :
                     j \in First(Legacy(rows, o.path))}
        \/ r \in Minted(rows, TypeOf[o.path], "detected", o.path)
    BY <1>9 DEF Apply, EnsureForInstall
  <2>3. \/ r.rows = rows
        \/ \E j \in 1..Len(rows) : r.rows = [rows EXCEPT ![j].path = o.path]
        \/ r \in Minted(rows, TypeOf[o.path], "detected", o.path)
    <3>1. CASE \E j \in First(Installed(rows, o.path)) : r = Outcome(rows, rows[j].key)
      BY <3>1 DEF Outcome
    <3>2. CASE \E j \in 1..Len(rows) : r = Outcome([rows EXCEPT ![j].path = o.path], rows[j].key)
      <4>1. PICK j \in 1..Len(rows) : r = Outcome([rows EXCEPT ![j].path = o.path], rows[j].key)
        BY <3>2
      <4>2. r.rows = [rows EXCEPT ![j].path = o.path]
        BY <4>1 DEF Outcome
      <4>3. QED  BY <4>2
    <3>3. QED  BY <2>1, <2>2, <3>1, <3>2
  <2>4. QED  BY <1>3, <1>4, <1>6, <2>3
<1>10. CASE o.name = "ensure"
  <2>1. r \in EnsureBound(rows, o.key, TypeOf[o.path])
    BY <1>10 DEF Apply
  <2>2. r.rows = rows \/ \E n : r.rows = Append(rows, n)
    BY <2>1 DEF EnsureBound, Outcome
  <2>3. ASSUME NEW n, r.rows = Append(rows, n)
        PROVE  RevokedIn(r.rows, k)
    <3>1. Len(r.rows) = Len(rows) + 1 /\ r.rows[i] = rows[i]
      BY <2>3
    <3>2. QED  BY <1>1, <3>1 DEF RevokedIn
  <2>4. QED  BY <1>6, <2>2, <2>3
<1>11. CASE o.name = "bind"
  BY <1>4, <1>11 DEF Apply, BindInstallPath, First, At, Outcome
<1>12. CASE o.name = "revocation"
  <2>1. PICK j \in 1..Len(rows) : rows[j].key = o.key /\ r.rows = [rows EXCEPT ![j].revoked = o.value]
    <3>1. r \in setRevocation(rows, o.key, o.value)
      BY <1>12 DEF Apply
    <3>2. PICK j \in 1..Len(rows) :
             rows[j].key = o.key /\ r = Outcome([rows EXCEPT ![j].revoked = o.value], o.key)
      BY <3>1 DEF setRevocation, First, At
    <3>3. r.rows = [rows EXCEPT ![j].revoked = o.value]
      BY <3>2 DEF Outcome
    <3>4. QED  BY <3>2, <3>3
  <2>2. o.value \in BOOLEAN
    BY <1>12 DEF Operations, Plain, AtPath, Operation
  <2>3. j = i => o.value
    BY <1>1, <1>12, <2>1, <2>2 DEF Unrevokes
  <2>4. Len(r.rows) = Len(rows) /\ r.rows[i].key = k /\ r.rows[i].revoked
    BY <1>1, <1>2, <2>1, <2>3 DEF Rows
  <2>5. QED  BY <2>4 DEF RevokedIn
<1>13. CASE o.name = "grant"
  BY <1>5, <1>13 DEF Apply, SetGrant, First, At, Outcome
<1>14. QED
  BY <1>7, <1>8, <1>9, <1>10, <1>11, <1>12, <1>13 DEF Operations, AtPath, Plain, Operation

LEMMA ApplyRevokes ==
  ASSUME NEW rows \in Seq(Rows), NEW o \in Operations, NEW r \in Apply(o, rows), Revokes(o)
  PROVE  RevokedIn(r.rows, o.key)
<1>1. PICK j \in 1..Len(rows) : rows[j].key = o.key /\ r.rows = [rows EXCEPT ![j].revoked = o.value]
  <2>1. r \in setRevocation(rows, o.key, o.value)
    BY DEF Revokes, Apply
  <2>2. PICK j \in 1..Len(rows) :
           rows[j].key = o.key /\ r = Outcome([rows EXCEPT ![j].revoked = o.value], o.key)
    BY <2>1 DEF setRevocation, First, At
  <2>3. r.rows = [rows EXCEPT ![j].revoked = o.value]
    BY <2>2 DEF Outcome
  <2>4. QED  BY <2>2, <2>3
<1>2. rows[j] \in Rows /\ o.value
  BY DEF Revokes
<1>3. Len(r.rows) = Len(rows) /\ r.rows[j].key = o.key /\ r.rows[j].revoked
  BY <1>1, <1>2 DEF Rows
<1>4. QED  BY <1>3 DEF RevokedIn

KeepsBans(rows) == \A k \in banned : RevokedIn(rows, k)

RevocationInv ==
    /\ \A q \in Procs : Unrevokes(call[q].op) => call[q].op.key \notin banned
    /\ ~damaged => ~torn /\ ((\A q \in Procs : call[q].step # "writing") => KeepsBans(items))
    /\ ~damaged => \A q \in Procs : call[q].step \in {"write", "writing"} => KeepsBans(call[q].rows)
    /\ \A q \in Procs : Revokes(call[q].op) =>
          /\ call[q].step \in {"write", "writing"} => RevokedIn(call[q].rows, call[q].op.key)
          /\ call[q].step = "written" => RevokedIn(items, call[q].op.key)

(* A step of p that neither saves nor is about to.                         *)
LEMMA QuietStep ==
  ASSUME TypeOK, RevocationInv, NEW p \in Procs, NEW r, Now(p, r),
         UNCHANGED <<items, torn, damaged>>, banned' \subseteq banned,
         call[p].step # "writing", r.step \notin {"write", "writing", "written"},
         Unrevokes(r.op) => r.op.key \notin banned'
  PROVE  RevocationInv'
<1>1. call'[p] = r /\ \A q \in Procs : q # p => call'[q] = call[q]
  BY DEF TypeOK, Now
<1>2. \A q \in Procs : Unrevokes(call'[q].op) => call'[q].op.key \notin banned'
  BY <1>1 DEF RevocationInv
<1>3. \A rows : KeepsBans(rows) => \A k \in banned' : RevokedIn(rows, k)
  BY DEF KeepsBans
<1>4. (\A q \in Procs : call'[q].step # "writing") => \A q \in Procs : call[q].step # "writing"
  BY <1>1
<1>5. ~damaged' => ~torn' /\ ((\A q \in Procs : call'[q].step # "writing") => KeepsBans(items)')
  <2>1. ~damaged => ~torn /\ ((\A q \in Procs : call'[q].step # "writing") => KeepsBans(items))
    BY <1>4 DEF RevocationInv
  <2>2. KeepsBans(items) => KeepsBans(items)'
    BY DEF KeepsBans, RevokedIn
  <2>3. QED  BY <2>1, <2>2
<1>6. ~damaged' => \A q \in Procs : call'[q].step \in {"write", "writing"} =>
        \A k \in banned' : RevokedIn(call'[q].rows, k)
  <2>1. ASSUME NEW q \in Procs, ~damaged, call'[q].step \in {"write", "writing"}
        PROVE  \A k \in banned' : RevokedIn(call'[q].rows, k)
    <3>1. q # p /\ call'[q] = call[q] /\ KeepsBans(call[q].rows)
      BY <1>1, <2>1 DEF RevocationInv
    <3>2. QED  BY <3>1 DEF KeepsBans
  <2>2. QED  BY <2>1
<1>7. \A q \in Procs : Revokes(call'[q].op) =>
          /\ call'[q].step \in {"write", "writing"} => RevokedIn(call'[q].rows, call'[q].op.key)
          /\ call'[q].step = "written" => RevokedIn(items, call'[q].op.key)
  BY <1>1 DEF RevocationInv
<1>8. QED
  BY <1>2, <1>5, <1>6, <1>7 DEF RevocationInv, KeepsBans, RevokedIn, Revokes, Unrevokes

LEMMA RevocationStep ==
  ASSUME IInv, RevocationInv, [Next]_vars
  PROVE  RevocationInv'
<1>1. TypeOK /\ Mutex
  BY DEF IInv
<1>2. CASE UNCHANGED vars
  BY <1>2 DEF vars, idVars, RevocationInv, KeepsBans, RevokedIn, Revokes, Unrevokes
<1>3. ASSUME NEW p \in Procs, Step(p)
      PROVE  RevocationInv'
  <2> USE DEF Runs
  <2>1. ASSUME NEW o, Call(p, o), call[p].step # "writing"
        PROVE  RevocationInv'
    <3> DEFINE r == Run("lock", o, <<>>, NoKey)
    <3>1. r.step = "lock" /\ r.op = o
      BY DEF Run
    <3>2. Now(p, r) /\ UNCHANGED <<items, torn, damaged>>
      BY <2>1 DEF Call
    <3>3. banned' \subseteq banned /\ (Unrevokes(o) => o.key \notin banned')
      BY <2>1 DEF Call
    <3> HIDE DEF r
    <3>4. QED  BY <1>1, <2>1, <3>1, <3>2, <3>3, QuietStep
  <2>2. CASE \/ \E o \in Operations : BeginCall(p, o)
             \/ \E path \in Paths : BeginInstall(p, path) \/ BeginRefresh(p, path)
             \/ RefreshBinds(p)
    <3>1. PICK o : Call(p, o)
      BY <2>2 DEF BeginCall, BeginInstall, BeginRefresh, Begin, RefreshBinds
    <3>2. call[p].step # "writing"
      BY <2>2 DEF BeginCall, BeginInstall, BeginRefresh, Begin, RefreshBinds
    <3>3. QED  BY <2>1, <3>1, <3>2
  <2>3. CASE \/ \E path \in Paths : Uninstall(p, path)
             \/ CallerRestarts(p)
    <3>1. UNCHANGED <<items, torn, call, banned, damaged>>
      BY <2>3 DEF Uninstall, CallerRestarts, idVars
    <3>2. QED  BY <3>1 DEF RevocationInv, KeepsBans, RevokedIn, Revokes, Unrevokes
  <2>4. CASE \/ CallFails(p) \/ CannotSave(p) \/ Deploy(p) \/ NoDeploy(p)
             \/ (CallerDies(p) /\ call[p].step # "writing")
    <3>1. /\ Now(p, Idle) /\ call[p].step # "writing"
          /\ UNCHANGED <<items, torn, damaged>> /\ banned' = banned
      BY <2>4 DEF CallFails, CannotSave, Deploy, NoDeploy, CallerDies
    <3>2. Idle.step = "idle" /\ ~Unrevokes(Idle.op)
      BY DEF Idle, Run, Plain, Operation, Unrevokes
    <3>3. QED  BY <1>1, <3>1, <3>2, QuietStep
  <2>5. CASE Locked(p)
    <3> DEFINE r == [call[p] EXCEPT !.step = "read"]
    <3>1. r.step = "read" /\ r.op = call[p].op
      BY <1>1 DEF TypeOK
    <3>2. /\ Now(p, r) /\ call[p].step # "writing"
          /\ UNCHANGED <<items, torn, damaged>> /\ banned' = banned
      BY <2>5 DEF Locked, Go
    <3>3. Unrevokes(r.op) => r.op.key \notin banned
      BY <3>1 DEF RevocationInv
    <3> HIDE DEF r
    <3>4. QED  BY <1>1, <3>1, <3>2, <3>3, QuietStep
  <2>6. CASE SaveFails(p) \/ (CallerDies(p) /\ call[p].step = "writing")
    <3>1. Now(p, Idle) /\ items' = items /\ banned' = banned /\ damaged'
      BY <2>6 DEF SaveFails, CallerDies, PartlyWritten
    <3>2. call'[p] = Idle /\ \A q \in Procs : q # p => call'[q] = call[q]
      BY <1>1, <3>1 DEF TypeOK, Now
    <3>3. Idle.step = "idle" /\ ~Unrevokes(Idle.op) /\ ~Revokes(Idle.op)
      BY DEF Idle, Run, Plain, Operation, Unrevokes, Revokes
    <3>4. QED  BY <3>1, <3>2, <3>3 DEF RevocationInv, RevokedIn, Revokes, Unrevokes
  <2>7. CASE Load(p) \/ Truncate(p) \/ Save(p) \/ EndCall(p)
    <3>1. \A q \in Procs : q # p => call'[q] = call[q] /\ call'[q].step \notin InLock
      BY <1>1, <1>3, <2>7, OneInLock, OthersKeep DEF Load, Truncate, Save, EndCall, InLock
    <3>2. damaged' = damaged /\ torn' = torn
      BY <2>7 DEF Load, Truncate, Save, EndCall
    <3>3. /\ Unrevokes(call'[p].op) => call'[p].op.key \notin banned'
          /\ \A q \in Procs : q # p /\ Unrevokes(call[q].op) => call[q].op.key \notin banned'
          /\ ~damaged /\ call'[p].step # "writing" => \A k \in banned' : RevokedIn(items', k)
          /\ ~damaged /\ call'[p].step \in {"write", "writing"} => \A k \in banned' : RevokedIn(call'[p].rows, k)
          /\ Revokes(call'[p].op) =>
                /\ call'[p].step \in {"write", "writing"} => RevokedIn(call'[p].rows, call'[p].op.key)
                /\ call'[p].step = "written" => RevokedIn(items', call'[p].op.key)
      <4>1. CASE Load(p)
        <5>1. PICK o \in Apply(call[p].op, items) : Now(p, Run("write", call[p].op, o.rows, o.key))
          BY <4>1 DEF Load
        <5>2. /\ call'[p].step = "write" /\ call'[p].op = call[p].op /\ call'[p].rows = o.rows
          BY <1>1, <5>1 DEF Now, Run, TypeOK
        <5>3. items' = items /\ banned' = banned /\ call[p].step = "read"
          BY <4>1 DEF Load
        <5>4. items \in Seq(Rows) /\ call[p].op \in Operations /\ banned \subseteq Keys
          BY <1>1 DEF TypeOK
        <5>5. ~damaged => KeepsBans(items)
          BY <3>1, <5>3 DEF RevocationInv, InLock
        <5>6. \A k \in banned : ~(Unrevokes(call[p].op) /\ call[p].op.key = k)
          BY DEF RevocationInv
        <5>7. ~damaged => \A k \in banned : RevokedIn(o.rows, k)
          BY <5>4, <5>5, <5>6, ApplyKeepsRevoked DEF KeepsBans
        <5>8. Revokes(call[p].op) => RevokedIn(o.rows, call[p].op.key)
          BY <5>4, ApplyRevokes
        <5>9. QED  BY <5>2, <5>3, <5>5, <5>7, <5>8 DEF RevocationInv, KeepsBans
      <4>2. CASE Truncate(p)
        <5>1. /\ call[p].step = "write" /\ call'[p].step = "writing"
              /\ call'[p].op = call[p].op /\ call'[p].rows = call[p].rows /\ banned' = banned
          BY <1>1, <4>2 DEF Truncate, Go, Now, TypeOK
        <5>2. QED  BY <5>1 DEF RevocationInv, KeepsBans
      <4>3. CASE Save(p)
        <5>1. /\ call[p].step = "writing" /\ call'[p].step = "written" /\ items' = call[p].rows
              /\ call'[p].op = call[p].op /\ call'[p].rows = call[p].rows /\ banned' = banned
          BY <1>1, <4>3 DEF Save, Go, Now, TypeOK
        <5>2. QED  BY <5>1 DEF RevocationInv, KeepsBans
      <4>4. CASE EndCall(p)
        <5>1. /\ call[p].step = "written" /\ call'[p] = After(call[p]) /\ items' = items
          BY <1>1, <4>4 DEF EndCall, Now, TypeOK
        <5>2. /\ call'[p].step \in {"between", "deploy", "idle"} /\ ~Unrevokes(call'[p].op)
          BY <5>1 DEF After, Run, Idle, Plain, Operation, Unrevokes
        <5>3. \A k \in banned' : k \in banned \/ (Revokes(call[p].op) /\ k = call[p].op.key)
          BY <4>4 DEF EndCall
        <5>4. Revokes(call[p].op) => RevokedIn(items, call[p].op.key)
          BY <5>1 DEF RevocationInv
        <5>5. ~damaged => KeepsBans(items)
          BY <3>1, <5>1 DEF RevocationInv, InLock
        <5>6. ~damaged => \A k \in banned' : RevokedIn(items', k)
          BY <5>1, <5>3, <5>4, <5>5 DEF KeepsBans
        <5>7. \A q \in Procs : Unrevokes(call[q].op) => call[q].op.key \notin banned'
          BY <4>4 DEF EndCall, RevocationInv
        <5>8. QED  BY <5>2, <5>6, <5>7
      <4>5. QED  BY <2>7, <4>1, <4>2, <4>3, <4>4
    <3>4. \A q \in Procs : q # p => call'[q].step \notin {"write", "writing", "written"}
      BY <3>1 DEF InLock
    <3>5. \A q \in Procs : Unrevokes(call'[q].op) => call'[q].op.key \notin banned'
      BY <3>1, <3>3
    <3>6. ~damaged' => ~torn'
      BY <3>2 DEF RevocationInv
    <3>7. QED
      BY <3>2, <3>3, <3>4, <3>5, <3>6 DEF RevocationInv, KeepsBans, RevokedIn, Revokes, Unrevokes
  <2>8. QED
    BY <1>3, <2>2, <2>3, <2>4, <2>5, <2>6, <2>7 DEF Step, withWrite
<1>4. QED  BY <1>2, <1>3 DEF Next

(* A key that was revoked, and that nobody unrevokes, is revoked in the    *)
(* table whatever is installed, refreshed, edited or killed, for any       *)
(* callers, keys and installs, as long as no save stopped short.           *)
THEOREM Revoked == Spec => []RevocationSticks
<1>1. Init => RevocationInv
  <2> SUFFICES ASSUME Init PROVE RevocationInv
    OBVIOUS
  <2>1. \A q \in Procs : call[q].step = "idle" /\ ~Unrevokes(call[q].op) /\ ~Revokes(call[q].op)
    BY DEF Init, Idle, Run, Plain, Operation, Unrevokes, Revokes
  <2>2. QED  BY <2>1 DEF Init, RevocationInv, KeepsBans
<1>2. IInv /\ RevocationInv /\ [Next]_vars => RevocationInv'
  BY RevocationStep
<1>3. IInv /\ RevocationInv => RevocationSticks
  <2> SUFFICES ASSUME IInv, RevocationInv, ~damaged, NEW k \in banned
               PROVE  RevokedIn(TableNow, k)
    BY DEF RevocationSticks, RevokedIn
  <2>1. TypeOK /\ Mutex
    BY DEF IInv
  <2>2. CASE \E p \in Procs : call[p].step = "writing"
    <3>1. PICK p \in Procs : call[p].step = "writing"
      BY <2>2
    <3>2. TableNow = call[p].rows /\ RevokedIn(call[p].rows, k)
      BY <2>1, <3>1, TableIs DEF RevocationInv, KeepsBans
    <3>3. QED  BY <3>2
  <2>3. CASE \A p \in Procs : call[p].step # "writing"
    <3>1. TableNow = items /\ RevokedIn(items, k)
      BY <2>1, <2>3, TableIs DEF RevocationInv, KeepsBans
    <3>2. QED  BY <3>1
  <2>4. QED  BY <2>2, <2>3
<1>4. QED  BY <1>1, <1>2, <1>3, Inductive, PTL DEF Spec

(***************************************************************************)
(* Installs.  Two rows of one install have a key that was bound to it by   *)
(* hand among them; a key that is deployed, or about to be, is in the      *)
(* table and in every table about to be saved.                             *)
(***************************************************************************)
OneEach(rows, keys) ==
    \A i, j \in 1..Len(rows) :
        i # j /\ SameInstall(rows[i], rows[j]) => rows[i].key \in keys \/ rows[j].key \in keys

BoundBy(o) == IF o.name = "bind" THEN {o.key} ELSE {}

OneEachInv ==
    /\ OneEach(items, rebound)
    /\ \A p \in Procs :
          /\ Runs(p, "write") => OneEach(call[p].rows, rebound \cup BoundBy(call[p].op))
          /\ Runs(p, "writing") => OneEach(call[p].rows, rebound)

LEMMA OneEachWider ==
  ASSUME NEW rows, NEW keys, NEW more, OneEach(rows, keys)
  PROVE  OneEach(rows, keys \cup more)
  BY DEF OneEach

LEMMA OneEachAlike ==
  ASSUME NEW rows, NEW new, NEW keys, OneEach(rows, keys), Len(new) = Len(rows),
         \A i \in 1..Len(rows) : /\ new[i].key = rows[i].key /\ new[i].type = rows[i].type
                                 /\ new[i].path = rows[i].path
  PROVE  OneEach(new, keys)
  BY DEF OneEach, SameInstall

LEMMA OneEachAppend ==
  ASSUME NEW rows \in Seq(Rows), NEW n \in Rows, NEW keys, OneEach(rows, keys),
         \A i \in 1..Len(rows) : ~SameInstall(rows[i], n)
  PROVE  OneEach(Append(rows, n), keys)
<1> DEFINE new == Append(rows, n)
<1>1. /\ Len(new) = Len(rows) + 1 /\ Len(rows) \in Nat
      /\ \A i \in 1..Len(rows) : new[i] = rows[i]
      /\ new[Len(rows) + 1] = n
  OBVIOUS
<1> HIDE DEF new
<1>2. \A i \in 1..Len(rows) : ~SameInstall(n, rows[i])
  BY DEF SameInstall
<1>3. OneEach(new, keys)
  BY <1>1, <1>2 DEF OneEach
<1>4. QED  BY <1>3 DEF new

(* A row that is given a path: the pairs it is not in stay as they were.   *)
LEMMA OneEachMoved ==
  ASSUME NEW rows \in Seq(Rows), NEW i \in 1..Len(rows), NEW path \in Paths, NEW keys, OneEach(rows, keys),
         NEW new, new = [rows EXCEPT ![i].path = path],
         \/ rows[i].key \in keys
         \/ \A j \in 1..Len(rows) : ~(rows[j].type = rows[i].type /\ rows[j].path = path)
  PROVE  OneEach(new, keys)
<1>1. rows[i] \in Rows
  OBVIOUS
<1>2. [rows[i] EXCEPT !.path = path] \in Rows
  BY <1>1 DEF Rows
<1>3. new = [rows EXCEPT ![i] = [rows[i] EXCEPT !.path = path]]
  OBVIOUS
<1>4. /\ Len(new) = Len(rows) /\ \A j \in 1..Len(rows) : j # i => new[j] = rows[j]
      /\ new[i] = [rows[i] EXCEPT !.path = path]
  BY <1>2, <1>3
<1>5. new[i].key = rows[i].key /\ new[i].type = rows[i].type /\ new[i].path = path
  BY <1>1, <1>4 DEF Rows
<1>6. QED  BY <1>4, <1>5 DEF OneEach, SameInstall

LEMMA OneEachMinted ==
  ASSUME NEW rows \in Seq(Rows), OneEach(rows, rebound), NEW type \in AgentTypes \cup {"manual"},
         NEW source \in {"manual", "detected"}, NEW path \in Paths \cup {NoPath},
         path = NoPath \/ \A j \in 1..Len(rows) : ~(rows[j].type = type /\ rows[j].path = path),
         NEW r \in Minted(rows, type, source, path)
  PROVE  OneEach(r.rows, rebound)
<1>1. PICK k \in Unused : r = Outcome(Append(rows, newIdentity(k, type, source, path)), k)
  BY DEF Minted
<1>2. k \in Keys
  BY DEF Unused
<1>3. newIdentity(k, type, source, path) \in Rows
  BY <1>2, NewIdentityIsRow
<1>4. \A j \in 1..Len(rows) : ~SameInstall(rows[j], newIdentity(k, type, source, path))
  BY DEF SameInstall, newIdentity
<1>5. r.rows = Append(rows, newIdentity(k, type, source, path))
  BY <1>1 DEF Outcome
<1>6. QED  BY <1>3, <1>4, <1>5, OneEachAppend

(* No operation but the binding of a key makes two rows of one install.    *)
LEMMA ApplyOneEach ==
  ASSUME NEW rows \in Seq(Rows), OneEach(rows, rebound), NEW o \in Operations, NEW r \in Apply(o, rows)
  PROVE  OneEach(r.rows, rebound \cup BoundBy(o))
<1> DEFINE keys == rebound \cup BoundBy(o)
<1>0. SUFFICES OneEach(r.rows, rebound) \/ OneEach(r.rows, keys)
  BY OneEachWider
<1>1. ASSUME NEW i \in 1..Len(rows), NEW b \in BOOLEAN,
             r.rows = [rows EXCEPT ![i].revoked = b] \/ r.rows = [rows EXCEPT ![i].grant = b]
      PROVE  OneEach(r.rows, rebound)
  <2>1. rows[i] \in Rows
    OBVIOUS
  <2>2. PICK n \in Rows : /\ r.rows = [rows EXCEPT ![i] = n] /\ n.key = rows[i].key /\ n.type = rows[i].type
                          /\ n.path = rows[i].path
    <3>1. [rows[i] EXCEPT !.revoked = b] \in Rows /\ [rows[i] EXCEPT !.grant = b] \in Rows
      BY <2>1 DEF Rows
    <3>2. /\ [rows[i] EXCEPT !.revoked = b].key = rows[i].key /\ [rows[i] EXCEPT !.grant = b].key = rows[i].key
          /\ [rows[i] EXCEPT !.revoked = b].type = rows[i].type /\ [rows[i] EXCEPT !.grant = b].type = rows[i].type
          /\ [rows[i] EXCEPT !.revoked = b].path = rows[i].path /\ [rows[i] EXCEPT !.grant = b].path = rows[i].path
      BY <2>1 DEF Rows
    <3>3. QED  BY <1>1, <3>1, <3>2
  <2>3. /\ Len(r.rows) = Len(rows)
        /\ \A j \in 1..Len(rows) : /\ r.rows[j].key = rows[j].key /\ r.rows[j].type = rows[j].type
                                   /\ r.rows[j].path = rows[j].path
    BY <2>2
  <2>4. QED  BY <2>3, OneEachAlike
<1>2. CASE o.name = "create"
  BY <1>2, OneEachMinted, IdentityConstants DEF Apply, CreateManual
<1>3. CASE o.name = "manual"
  <2>1. r \in EnsureManual(rows)
    BY <1>3 DEF Apply
  <2>2. CASE r \in CreateManual(rows)
    BY <2>2, OneEachMinted DEF CreateManual
  <2>3. CASE \E i \in 1..Len(rows) : r = Outcome(rows, rows[i].key)
    BY <2>3 DEF Outcome
  <2>4. QED  BY <2>1, <2>2, <2>3 DEF EnsureManual, First
<1>4. CASE o.name = "install"
  <2>1. r \in EnsureForInstall(rows, o.path) /\ o.path \in Paths /\ TypeOf[o.path] \in AgentTypes
    BY <1>4, IdentityConstants DEF Apply, Operations, AtPath, Plain, Operation
  <2>2. CASE Installed(rows, o.path) # {}
    BY <2>1, <2>2 DEF EnsureForInstall, Outcome
  <2>3. CASE Installed(rows, o.path) = {}
    <3>1. \A j \in 1..Len(rows) : ~(rows[j].type = TypeOf[o.path] /\ rows[j].path = o.path)
      BY <2>3 DEF Installed
    <3>2. CASE r \in Minted(rows, TypeOf[o.path], "detected", o.path)
      BY <2>1, <3>1, <3>2, OneEachMinted
    <3>3. CASE \E i \in First(Legacy(rows, o.path)) : r = Outcome([rows EXCEPT ![i].path = o.path], rows[i].key)
      <4>1. PICK i \in 1..Len(rows) : /\ rows[i].type = TypeOf[o.path]
                                      /\ r = Outcome([rows EXCEPT ![i].path = o.path], rows[i].key)
        BY <3>3 DEF First, Legacy
      <4>2. r.rows = [rows EXCEPT ![i].path = o.path]
        BY <4>1 DEF Outcome
      <4>3. OneEach(r.rows, rebound)
        BY <2>1, <3>1, <4>1, <4>2, OneEachMoved
      <4>4. QED  BY <4>3
    <3>4. \/ r \in Minted(rows, TypeOf[o.path], "detected", o.path)
          \/ \E i \in First(Legacy(rows, o.path)) : r = Outcome([rows EXCEPT ![i].path = o.path], rows[i].key)
      BY <2>1, <2>3 DEF EnsureForInstall
    <3>5. QED  BY <3>2, <3>3, <3>4
  <2>4. QED  BY <2>2, <2>3
<1>5. CASE o.name = "ensure"
  <2>1. /\ r \in EnsureBound(rows, o.key, TypeOf[o.path])
        /\ o.key \in Keys /\ TypeOf[o.path] \in AgentTypes
    BY <1>5, IdentityConstants DEF Apply, Operations, AtPath, Plain, Operation
  <2> DEFINE n == newIdentity(o.key, TypeOf[o.path], "detected", NoPath)
  <2>2. n \in Rows
    BY <2>1, NewIdentityIsRow
  <2>3. \A j \in 1..Len(rows) : ~SameInstall(rows[j], n)
    BY DEF SameInstall, newIdentity
  <2>4. r.rows = rows \/ r.rows = Append(rows, n)
    BY <2>1 DEF EnsureBound, Outcome
  <2> HIDE DEF n
  <2>5. QED  BY <2>2, <2>3, <2>4, OneEachAppend
<1>6. CASE o.name = "bind"
  <2>1. r \in BindInstallPath(rows, o.key, o.path) /\ o.path \in Paths
    BY <1>6 DEF Apply, Operations, AtPath, Plain, Operation
  <2>2. PICK i \in 1..Len(rows) : rows[i].key = o.key /\ r = Outcome([rows EXCEPT ![i].path = o.path], o.key)
    BY <2>1 DEF BindInstallPath, First, At
  <2>3. r.rows = [rows EXCEPT ![i].path = o.path] /\ rows[i].key \in keys
    BY <1>6, <2>2 DEF Outcome, BoundBy
  <2>4. OneEach(rows, keys)
    BY OneEachWider
  <2> HIDE DEF keys
  <2>5. OneEach(r.rows, keys)
    BY <2>1, <2>2, <2>3, <2>4, OneEachMoved
  <2>6. QED  BY <2>5
<1>7. CASE o.name = "revocation"
  <2>1. r \in setRevocation(rows, o.key, o.value) /\ o.value \in BOOLEAN
    BY <1>7 DEF Apply, Operations, AtPath, Plain, Operation
  <2>2. PICK i \in 1..Len(rows) : r = Outcome([rows EXCEPT ![i].revoked = o.value], o.key)
    BY <2>1 DEF setRevocation, First, At
  <2>3. r.rows = [rows EXCEPT ![i].revoked = o.value]
    BY <2>2 DEF Outcome
  <2>4. QED  BY <1>1, <2>1, <2>3
<1>8. CASE o.name = "grant"
  <2>1. r \in SetGrant(rows, o.key, o.value) /\ o.value \in BOOLEAN
    BY <1>8 DEF Apply, Operations, AtPath, Plain, Operation
  <2>2. PICK i \in 1..Len(rows) : r = Outcome([rows EXCEPT ![i].grant = o.value], o.key)
    BY <2>1 DEF SetGrant, First, At
  <2>3. r.rows = [rows EXCEPT ![i].grant = o.value]
    BY <2>2 DEF Outcome
  <2>4. QED  BY <1>1, <2>1, <2>3
<1>9. QED
  BY <1>2, <1>3, <1>4, <1>5, <1>6, <1>7, <1>8 DEF Operations, AtPath, Plain, Operation

LEMMA OneEachStep ==
  ASSUME IInv, OneEachInv, [Next]_vars
  PROVE  OneEachInv'
<1> USE DEF Runs
<1>1. /\ TypeOK /\ Mutex /\ OneSaver
  BY DEF IInv
<1>2. CASE UNCHANGED vars
  BY <1>2 DEF vars, idVars, OneEachInv
<1>3. OneEach(<<>>, rebound')
  BY DEF OneEach
<1>4. ASSUME NEW p \in Procs, Step(p)
      PROVE  OneEachInv'
  <2>1. \A q \in Procs : q # p => call'[q] = call[q]
    BY <1>1, <1>4, OthersKeep
  <2>2. ASSUME call[p].step \in InLock, NEW q \in Procs, q # p
        PROVE  call'[q].step \notin InLock
    BY <1>1, <2>1, <2>2, OneInLock
  <2>3. CASE Truncate(p)
    <3> DEFINE o == call[p].op
    <3>1. /\ call[p].step = "write" /\ call'[p].step = "writing" /\ call'[p].rows = call[p].rows
          /\ items' = <<>>
          /\ rebound' = IF o.name # "bind" THEN rebound
                        ELSE IF Shares(call[p].rows, o.key) THEN rebound \cup {o.key} ELSE rebound \ {o.key}
      BY <1>1, <2>3 DEF Truncate, Go, Now, TypeOK
    <3>2. OneEach(call[p].rows, rebound \cup BoundBy(o))
      BY <3>1 DEF OneEachInv
    <3>3. OneEach(call[p].rows, rebound')
      <4>1. CASE o.name # "bind"
        BY <3>1, <3>2, <4>1 DEF BoundBy, OneEach
      <4>2. CASE o.name = "bind" /\ Shares(call[p].rows, o.key)
        BY <3>1, <3>2, <4>2 DEF BoundBy
      <4>3. CASE o.name = "bind" /\ ~Shares(call[p].rows, o.key)
        BY <3>1, <3>2, <4>3 DEF BoundBy, OneEach, Shares, SameInstall
      <4>4. QED  BY <4>1, <4>2, <4>3
    <3>4. QED  BY <1>3, <2>2, <3>1, <3>3 DEF OneEachInv, InLock
  <2>4. CASE Save(p)
    <3>1. /\ call[p].step = "writing" /\ call'[p].step = "written"
          /\ items' = call[p].rows /\ rebound' = rebound
      BY <1>1, <2>4 DEF Save, Go, Now, TypeOK
    <3>2. QED  BY <2>2, <3>1 DEF OneEachInv, InLock
  <2>5. CASE Load(p)
    <3>1. PICK r \in Apply(call[p].op, items) : Now(p, Run("write", call[p].op, r.rows, r.key))
      BY <2>5 DEF Load
    <3>2. call'[p].step = "write" /\ call'[p].rows = r.rows /\ call'[p].op = call[p].op
      BY <1>1, <3>1 DEF Now, Run, TypeOK
    <3>3. UNCHANGED <<items, rebound>> /\ call[p].step = "read"
      BY <2>5 DEF Load
    <3>4. OneEach(r.rows, rebound \cup BoundBy(call[p].op))
      BY <1>1, ApplyOneEach DEF OneEachInv, TypeOK
    <3>5. QED  BY <2>2, <3>2, <3>3, <3>4 DEF OneEachInv, InLock
  <2>6. CASE ~Truncate(p) /\ ~Save(p) /\ ~Load(p)
    <3>1. items' = items /\ rebound' = rebound
      BY <1>4, <2>6 DEF Step, withWrite, BeginCall, BeginInstall, BeginRefresh, Begin, Call, RefreshBinds,
         Uninstall, Locked, CallFails, CannotSave, SaveFails, EndCall, Deploy, NoDeploy, CallerDies, CallerRestarts,
         idVars
    <3>2. call'[p] = call[p] \/ call'[p].step \notin {"write", "writing"}
      BY <1>1, <1>4, <2>6 DEF TypeOK, Now, Go, Run, Idle, After, Step, withWrite, BeginCall, BeginInstall,
         BeginRefresh, Begin, Call, RefreshBinds, Uninstall, Locked, CallFails, CannotSave, SaveFails, EndCall,
         Deploy, NoDeploy, CallerDies, CallerRestarts, idVars
    <3>3. QED  BY <2>1, <3>1, <3>2 DEF OneEachInv
  <2>7. QED  BY <2>3, <2>4, <2>5, <2>6
<1>5. QED  BY <1>2, <1>4 DEF Next

(* Deployed keys.                                                          *)
Known(rows) ==
    /\ \A path \in Paths : config[path] \in KeysOf(rows) \cup {FirstConfig[path], NoKey}
    /\ \A q \in Procs : Runs(q, "deploy") => call[q].key \in KeysOf(rows)

Deploys(o) == o.name \in {"install", "bind"}

KnownInv ==
    /\ ~torn
    /\ (\A q \in Procs : ~Runs(q, "writing")) => Known(items)
    /\ \A p \in Procs :
          /\ call[p].step \in {"write", "writing"} =>
               Known(call[p].rows) /\ (Deploys(call[p].op) => call[p].key \in KeysOf(call[p].rows))
          /\ Runs(p, "written") /\ Deploys(call[p].op) => call[p].key \in KeysOf(items)

(* No operation drops a key, and what is to be deployed is in its table.   *)
LEMMA KeysGrow ==
  ASSUME NEW rows \in Seq(Rows), NEW new, NEW k, OneChange(rows, new, k)
  PROVE  KeysOf(rows) \subseteq KeysOf(new)
<1>1. ASSUME NEW i \in 1..Len(rows), EditedAt(rows, new, i)
      PROVE  KeysOf(rows) \subseteq KeysOf(new)
  <2>1. rows[i] \in Rows
    OBVIOUS
  <2>2. PICK r \in Rows : new = [rows EXCEPT ![i] = r] /\ r.key = rows[i].key
    <3>1. /\ \A path \in Paths \cup {NoPath} : [rows[i] EXCEPT !.path = path] \in Rows
          /\ \A b \in BOOLEAN : [rows[i] EXCEPT !.revoked = b] \in Rows
          /\ \A b \in BOOLEAN : [rows[i] EXCEPT !.grant = b] \in Rows
      BY <2>1 DEF Rows
    <3>2. /\ \A path : [rows[i] EXCEPT !.path = path].key = rows[i].key
          /\ \A b : [rows[i] EXCEPT !.revoked = b].key = rows[i].key
          /\ \A b : [rows[i] EXCEPT !.grant = b].key = rows[i].key
      BY <2>1 DEF Rows
    <3>3. QED  BY <1>1, <3>1, <3>2 DEF EditedAt
  <2>3. Len(new) = Len(rows) /\ \A j \in 1..Len(rows) : new[j].key = rows[j].key
    BY <2>2
  <2>4. QED  BY <2>3 DEF KeysOf
<1>2. ASSUME Registered(rows, new, k)
      PROVE  KeysOf(rows) \subseteq KeysOf(new)
  <2>1. PICK r \in Rows : new = Append(rows, r)
    BY <1>2 DEF Registered
  <2>2. Len(new) = Len(rows) + 1 /\ \A j \in 1..Len(rows) : new[j] = rows[j]
    BY <2>1
  <2>3. QED  BY <2>2 DEF KeysOf
<1>3. QED  BY <1>1, <1>2 DEF OneChange

LEMMA DeploysKnown ==
  ASSUME NEW rows \in Seq(Rows), NEW o \in Operations, Deploys(o), NEW r \in Apply(o, rows)
  PROVE  r.key \in KeysOf(r.rows)
<1>1. ASSUME NEW i \in 1..Len(rows), NEW path \in Paths, r.rows = [rows EXCEPT ![i].path = path], r.key = rows[i].key
      PROVE  r.key \in KeysOf(r.rows)
  <2>1. rows[i] \in Rows
    OBVIOUS
  <2>2. [rows[i] EXCEPT !.path = path].key = rows[i].key
    BY <2>1 DEF Rows
  <2>3. Len(r.rows) = Len(rows) /\ r.rows[i].key = rows[i].key
    BY <1>1, <2>2
  <2>4. QED  BY <1>1, <2>3 DEF KeysOf
<1>2. CASE o.name = "install"
  <2>1. r \in EnsureForInstall(rows, o.path) /\ o.path \in Paths
    BY <1>2 DEF Apply, Operations, AtPath, Plain, Operation
  <2>2. CASE \E i \in 1..Len(rows) : r = Outcome(rows, rows[i].key)
    BY <2>2 DEF Outcome, KeysOf
  <2>3. CASE \E i \in 1..Len(rows) : r = Outcome([rows EXCEPT ![i].path = o.path], rows[i].key)
    <3>1. PICK i \in 1..Len(rows) : r = Outcome([rows EXCEPT ![i].path = o.path], rows[i].key)
      BY <2>3
    <3>2. r.rows = [rows EXCEPT ![i].path = o.path] /\ r.key = rows[i].key
      BY <3>1 DEF Outcome
    <3>3. QED  BY <1>1, <2>1, <3>2
  <2>4. CASE r \in Minted(rows, TypeOf[o.path], "detected", o.path)
    <3>1. PICK k \in Unused : r = Outcome(Append(rows, newIdentity(k, TypeOf[o.path], "detected", o.path)), k)
      BY <2>4 DEF Minted
    <3> DEFINE n == newIdentity(k, TypeOf[o.path], "detected", o.path)
    <3>2. n.key = k
      BY DEF newIdentity
    <3>3. r.rows = Append(rows, n) /\ r.key = k
      BY <3>1 DEF Outcome
    <3> HIDE DEF n
    <3>4. Len(r.rows) = Len(rows) + 1 /\ r.rows[Len(rows) + 1] = n /\ Len(rows) \in Nat
      BY <3>3
    <3>5. QED  BY <3>2, <3>3, <3>4 DEF KeysOf
  <2>5. /\ First(Installed(rows, o.path)) \subseteq 1..Len(rows)
        /\ First(Legacy(rows, o.path)) \subseteq 1..Len(rows)
    BY DEF First, Installed, Legacy
  <2>6. \/ r \in {Outcome(rows, rows[i].key) : i \in First(Installed(rows, o.path))}
        \/ r \in {Outcome([rows EXCEPT ![i].path = o.path], rows[i].key) :
                     i \in First(Legacy(rows, o.path))}
        \/ r \in Minted(rows, TypeOf[o.path], "detected", o.path)
    BY <2>1 DEF EnsureForInstall
  <2>7. QED  BY <2>2, <2>3, <2>4, <2>5, <2>6
<1>3. CASE o.name = "bind"
  <2>1. r \in BindInstallPath(rows, o.key, o.path) /\ o.path \in Paths
    BY <1>3 DEF Apply, Operations, AtPath, Plain, Operation
  <2>2. PICK i \in 1..Len(rows) : rows[i].key = o.key /\ r = Outcome([rows EXCEPT ![i].path = o.path], o.key)
    BY <2>1 DEF BindInstallPath, First, At
  <2>3. r.rows = [rows EXCEPT ![i].path = o.path] /\ r.key = rows[i].key
    BY <2>2 DEF Outcome
  <2>4. QED  BY <1>1, <2>1, <2>3
<1>4. QED  BY <1>2, <1>3 DEF Deploys

(* A step that changes no table and leaves p outside of a save.            *)
LEMMA KnownStays ==
  ASSUME TypeOK, Mutex, KnownInv, NEW p \in Procs, Step(p), UNCHANGED <<items, torn>>,
         call[p].step # "writing", call'[p].step \notin {"write", "writing", "written"},
         call'[p].step = "deploy" => \/ call[p].step = "deploy" /\ call'[p].key = call[p].key
                                     \/ call[p].step = "written" /\ Deploys(call[p].op) /\ call'[p].key = call[p].key,
         \A path \in Paths : \/ config'[path] \in {config[path], NoKey}
                             \/ call[p].step = "deploy" /\ config'[path] = call[p].key
  PROVE  KnownInv'
<1> USE DEF Runs
<1>1. \A q \in Procs : q # p => call'[q] = call[q]
  BY OthersKeep
<1>2. ASSUME NEW rows, Known(rows),
             call[p].step = "written" /\ Deploys(call[p].op) => call[p].key \in KeysOf(rows)
      PROVE  Known(rows)'
  BY <1>1, <1>2 DEF Known, KeysOf
<1>3. ASSUME \A q \in Procs : call'[q].step # "writing" PROVE Known(items)'
  <2>1. Known(items) /\ (call[p].step = "written" /\ Deploys(call[p].op) => call[p].key \in KeysOf(items))
    BY <1>1, <1>3 DEF KnownInv
  <2>2. PICK rows : rows = items
    OBVIOUS
  <2>3. Known(rows)'
    BY <1>2, <2>1, <2>2
  <2>4. QED  BY <2>2, <2>3 DEF Known
<1>4. ASSUME NEW q \in Procs, call'[q].step \in {"write", "writing"}
      PROVE  Known(call[q].rows)' /\ (Deploys(call[q].op) => call[q].key \in KeysOf(call[q].rows))'
  <2>1. q # p /\ call'[q] = call[q] /\ call[p].step # "written"
    BY <1>1, <1>4, OneInLock DEF InLock
  <2>2. Known(call[q].rows) /\ (Deploys(call[q].op) => call[q].key \in KeysOf(call[q].rows))
    BY <1>4, <2>1 DEF KnownInv
  <2>3. PICK rows : rows = call[q].rows
    OBVIOUS
  <2>4. Known(rows)'
    BY <1>2, <2>1, <2>2, <2>3
  <2>5. QED  BY <2>1, <2>2, <2>3, <2>4 DEF Known, Deploys
<1>5. ASSUME NEW q \in Procs, call'[q].step = "written", Deploys(call'[q].op)
      PROVE  call'[q].key \in KeysOf(items)'
  <2>1. q # p /\ call'[q] = call[q]
    BY <1>1, <1>5
  <2>2. QED  BY <1>5, <2>1 DEF KnownInv, KeysOf
<1>6. QED  BY <1>3, <1>4, <1>5 DEF KnownInv, Deploys

LEMMA KnownStep ==
  ASSUME IInv, KnownInv, [Next]_vars, ~damaged'
  PROVE  KnownInv'
<1> USE DEF Runs
<1>1. TypeOK /\ Mutex /\ OneSaver /\ KeysMinted /\ FlowOK
  BY DEF IInv
<1>2. CASE UNCHANGED vars
  BY <1>2 DEF vars, idVars, KnownInv, Known
<1>3. ASSUME NEW p \in Procs, Step(p)
      PROVE  KnownInv'
  <2>1. \A q \in Procs : q # p => call'[q] = call[q]
    BY <1>1, <1>3, OthersKeep
  <2>2. ASSUME call[p].step \in InLock, NEW q \in Procs, q # p
        PROVE  call[q].step \notin InLock /\ call'[q].step \notin InLock
    BY <1>1, <2>1, <2>2, OneInLock
  <2>3. ASSUME NEW rows, Known(rows), UNCHANGED config, call'[p].step # "deploy"
        PROVE  Known(rows)'
    BY <2>1, <2>3 DEF Known
  <2>4. CASE Load(p)
    <3>1. PICK r \in Apply(call[p].op, items) : Now(p, Run("write", call[p].op, r.rows, r.key))
      BY <2>4 DEF Load
    <3>2. call'[p].step = "write" /\ call'[p].rows = r.rows /\ call'[p].op = call[p].op /\ call'[p].key = r.key
      BY <1>1, <3>1 DEF Now, Run, TypeOK
    <3>3. UNCHANGED <<items, torn, config>> /\ call[p].step = "read"
      BY <2>4 DEF Load
    <3>4. items \in Seq(Rows) /\ call[p].op \in Operations
      BY <1>1 DEF TypeOK
    <3>5. KeysOf(items) \subseteq KeysOf(r.rows)
      BY <1>1, <3>4, LoadGives, KeysGrow
    <3>6. Known(items)
      BY <2>2, <3>3 DEF KnownInv, InLock
    <3>7. Known(r.rows)
      BY <3>5, <3>6 DEF Known
    <3>8. PICK was, new : was = items /\ new = r.rows
      OBVIOUS
    <3>9. Known(was)' /\ Known(new)'
      BY <2>3, <3>2, <3>3, <3>6, <3>7, <3>8
    <3>10. Known(items)' /\ Known(call[p].rows)'
      BY <3>2, <3>3, <3>8, <3>9 DEF Known
    <3>11. Deploys(call'[p].op) => call'[p].key \in KeysOf(call'[p].rows)
      BY <3>2, <3>4, DeploysKnown
    <3>12. \A q \in Procs : q # p => call'[q].step \notin {"write", "writing", "written"}
      BY <2>2, <3>3 DEF InLock
    <3>13. QED  BY <3>2, <3>3, <3>10, <3>11, <3>12 DEF KnownInv, KeysOf, Deploys
  <2>5. CASE Truncate(p)
    <3>1. /\ call[p].step = "write" /\ call'[p].step = "writing" /\ call'[p].rows = call[p].rows
          /\ call'[p].op = call[p].op /\ call'[p].key = call[p].key /\ ~torn /\ torn' = torn /\ config' = config
      BY <1>1, <2>5 DEF Truncate, Go, Now, TypeOK, OneSaver
    <3>2. PICK rows : rows = call[p].rows
      OBVIOUS
    <3>3. Known(rows)'
      BY <2>3, <3>1, <3>2 DEF KnownInv
    <3>4. Known(call[p].rows)'
      BY <3>1, <3>2, <3>3 DEF Known
    <3>5. \A q \in Procs : q # p => call'[q].step \notin {"write", "writing", "written"}
      BY <2>2, <3>1 DEF InLock
    <3>6. QED  BY <3>1, <3>4, <3>5 DEF KnownInv, KeysOf, Deploys
  <2>6. CASE Save(p)
    <3>1. /\ call[p].step = "writing" /\ call'[p].step = "written" /\ items' = call[p].rows
          /\ call'[p].op = call[p].op /\ call'[p].key = call[p].key /\ torn' = torn /\ config' = config
      BY <1>1, <2>6 DEF Save, Go, Now, TypeOK
    <3>2. PICK rows : rows = call[p].rows
      OBVIOUS
    <3>3. Known(rows)'
      BY <2>3, <3>1, <3>2 DEF KnownInv
    <3>4. Known(items)'
      BY <3>1, <3>2, <3>3 DEF Known
    <3>5. \A q \in Procs : q # p => call'[q].step \notin {"write", "writing", "written"}
      BY <2>2, <3>1 DEF InLock
    <3>6. Deploys(call'[p].op) => call'[p].key \in KeysOf(items')
      BY <3>1 DEF KnownInv
    <3>7. QED  BY <3>1, <3>4, <3>5, <3>6 DEF KnownInv, KeysOf, Deploys
  <2>7. CASE EndCall(p)
    <3>1. call[p].step = "written" /\ call'[p] = After(call[p]) /\ UNCHANGED <<items, torn, config>>
      BY <1>1, <2>7 DEF EndCall, Now, TypeOK
    <3>2. /\ call'[p].step \in {"idle", "between", "deploy"}
          /\ call'[p].step = "deploy" => Deploys(call[p].op) /\ call'[p].key = call[p].key
      BY <3>1 DEF After, Run, Idle, Deploys
    <3>3. QED  BY <1>1, <1>3, <3>1, <3>2, KnownStays
  <2>8. CASE Deploy(p)
    <3>1. /\ call[p].step = "deploy" /\ call'[p] = Idle /\ UNCHANGED <<items, torn>>
          /\ config' = [config EXCEPT ![call[p].op.path] = call[p].key]
      BY <1>1, <2>8 DEF Deploy, Now, TypeOK
    <3>2. call'[p].step = "idle"
      BY <3>1, RunType
    <3>3. \A path \in Paths : config'[path] \in {config[path], call[p].key}
      BY <1>1, <3>1 DEF TypeOK
    <3>4. QED  BY <1>1, <1>3, <3>1, <3>2, <3>3, KnownStays
  <2>9. CASE \E path \in Paths : Uninstall(p, path)
    <3>1. PICK path \in Paths : Uninstall(p, path)
      BY <2>9
    <3>2. /\ call[p].step = "idle" /\ call' = call /\ UNCHANGED <<items, torn>>
          /\ config' = [config EXCEPT ![path] = NoKey]
      BY <3>1 DEF Uninstall
    <3>3. \A x \in Paths : config'[x] \in {config[x], NoKey}
      BY <1>1, <3>2 DEF TypeOK
    <3>4. QED  BY <1>1, <1>3, <3>2, <3>3, KnownStays
  <2>10. CASE CallerRestarts(p)
    BY <2>10 DEF CallerRestarts, idVars, KnownInv, Known
  <2>11. CASE ~Load(p) /\ ~Truncate(p) /\ ~Save(p) /\ ~EndCall(p) /\ ~Deploy(p) /\ ~CallerRestarts(p)
              /\ ~ \E path \in Paths : Uninstall(p, path)
    <3>1. UNCHANGED <<items, torn, config>> /\ call[p].step # "writing"
      BY <1>3, <2>11 DEF Step, withWrite, BeginCall, BeginInstall, BeginRefresh, Begin, Call, RefreshBinds,
         Locked, CallFails, CannotSave, SaveFails, PartlyWritten, NoDeploy, CallerDies
    <3>2. call'[p].step \in {"idle", "lock", "read"}
      BY <1>1, <1>3, <2>11 DEF TypeOK, Now, Go, Run, Idle, Step, withWrite, BeginCall, BeginInstall,
         BeginRefresh, Begin, Call, RefreshBinds, Locked, CallFails, CannotSave, SaveFails,
         PartlyWritten, NoDeploy, CallerDies
    <3>3. QED  BY <1>1, <1>3, <3>1, <3>2, KnownStays
  <2>12. QED  BY <2>4, <2>5, <2>6, <2>7, <2>8, <2>9, <2>10, <2>11
<1>4. QED  BY <1>2, <1>3 DEF Next

LEMMA DamageStays ==
  ASSUME TypeOK, [Next]_vars
  PROVE  damaged => damaged'
<1>1. ASSUME NEW p \in Procs, Step(p)
      PROVE  damaged => damaged'
  BY <1>1 DEF Step, withWrite, BeginCall, BeginInstall, BeginRefresh, Begin, Call, RefreshBinds, Uninstall,
     Locked, CallFails, Load, CannotSave, Truncate, Save, SaveFails, PartlyWritten, EndCall, Deploy,
     NoDeploy, CallerDies, CallerRestarts, idVars
<1>2. QED  BY <1>1 DEF Next, vars, idVars

InstallsInv == OneEachInv /\ (~damaged => KnownInv)

LEMMA InstallsInitially == Init => InstallsInv
<1> SUFFICES ASSUME Init PROVE InstallsInv
  OBVIOUS
<1>1. \A p \in Procs : call[p].step = "idle"
  BY DEF Init, Idle, Run
<1>2. /\ items = FirstRows /\ ~torn /\ config = FirstConfig
  BY DEF Init
<1>3. OneEach(items, rebound)
  BY <1>2, FirstRowsOK DEF OneEach, SameInstall
<1>4. Known(items)
  BY <1>1, <1>2 DEF Known, Runs
<1>5. QED  BY <1>1, <1>2, <1>3, <1>4 DEF InstallsInv, OneEachInv, KnownInv, Runs

(* One install has one identity, unless a key was bound to it by hand, and *)
(* the key in an agent's file is one the table has, whoever installs,      *)
(* refreshes, uninstalls and dies, for any callers, keys and installs.     *)
THEOREM InstallsFound == Spec => []InstallsKnown
<1>1. IInv /\ InstallsInv /\ [Next]_vars => InstallsInv'
  BY OneEachStep, KnownStep, DamageStays DEF InstallsInv, IInv
<1>2. IInv /\ InstallsInv => InstallsKnown
  <2> SUFFICES ASSUME IInv, InstallsInv PROVE InstallsKnown
    OBVIOUS
  <2>1. TypeOK /\ Mutex /\ OneEachInv
    BY DEF IInv, InstallsInv
  <2>2. OneEach(TableNow, rebound)
    <3>1. CASE \E p \in Procs : call[p].step = "writing"
      BY <2>1, <3>1, TableIs DEF OneEachInv, Runs
    <3>2. CASE \A p \in Procs : call[p].step # "writing"
      <4>1. OneEach(<<>>, rebound)
        BY DEF OneEach
      <4>2. QED  BY <2>1, <3>2, <4>1, TableIs DEF OneEachInv
    <3>3. QED  BY <3>1, <3>2
  <2>3. OneRowPerInstall
    BY <2>2 DEF OneRowPerInstall, OneEach
  <2>4. ASSUME ~damaged PROVE Known(TableNow)
    <3>1. KnownInv
      BY <2>4 DEF InstallsInv
    <3>2. CASE \E p \in Procs : call[p].step = "writing"
      BY <2>1, <3>1, <3>2, TableIs DEF KnownInv
    <3>3. CASE \A p \in Procs : call[p].step # "writing"
      BY <2>1, <3>1, <3>3, TableIs DEF KnownInv, Runs
    <3>4. QED  BY <3>2, <3>3
  <2>5. DeployedKnown
    BY <2>4 DEF DeployedKnown, Known
  <2>6. QED  BY <2>3, <2>5 DEF InstallsKnown
<1>3. QED  BY <1>1, <1>2, InstallsInitially, Inductive, PTL DEF Spec

================================================================================
