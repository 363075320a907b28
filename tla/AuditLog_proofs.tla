----------------------------- MODULE AuditLog_proofs -----------------------------
(***************************************************************************)
(* The audit trail for any processes, entries and legacy rows: the file    *)
(* always verifies, the verifier finds tampering, over flock the file      *)
(* implements the append-only log, and what was acknowledged stays.        *)
(*                                                                         *)
(* The inductive invariant adds to the type invariant the exclusion of     *)
(* PathLock_proofs, that the rows on disk and in every buffer verify, and, *)
(* over flock, what the buffer of the one writer is to the rows on disk.   *)
(***************************************************************************)
EXTENDS AuditLog, PathLock_proofs, SequenceTheorems

IsFile(f) == \E S : f \in Seq(S)

FilesVerify ==
    /\ IsFile(rows) /\ Verifies(rows)
    /\ buf = [p \in Procs |-> buf[p]]
    /\ \A p \in Procs : IsFile(buf[p]) /\ Verifies(buf[p])

OneWriter ==
    \A p \in Procs :
        /\ step[p] = "write" => ~torn /\ buf[p] = Append(rows, NextRow(rows, entry[p]))
        /\ step[p] = "writing" => ~torn /\ rows = <<>>

IInv == TypeOK /\ Mutex /\ FilesVerify

(* The lock excludes, by PathLock_proofs.                                  *)
Excluding == ~(Portable /\ killed)

(***************************************************************************)
(* Lemmas about the chain.                                                 *)
(***************************************************************************)
LEMMA AppendIsFile ==
  ASSUME NEW f, NEW r, IsFile(f)
  PROVE  /\ IsFile(Append(f, r))
         /\ Len(f) \in Nat
         /\ Len(Append(f, r)) = Len(f) + 1
         /\ \A i \in 1..Len(f) : Append(f, r)[i] = f[i]
         /\ Append(f, r)[Len(f) + 1] = r
<1>1. PICK S : f \in Seq(S)
  BY DEF IsFile
<1>2. f \in Seq(S \cup {r})
  BY <1>1
<1>3. Append(f, r) \in Seq(S \cup {r})
  BY <1>2
<1>4. QED
  BY <1>1, <1>2, <1>3 DEF IsFile

LEMMA PrefixIsFile ==
  ASSUME NEW f, IsFile(f), NEW n \in 0..Len(f)
  PROVE  /\ IsFile(SubSeq(f, 1, n))
         /\ Len(SubSeq(f, 1, n)) = n
         /\ \A i \in 1..n : SubSeq(f, 1, n)[i] = f[i]
<1>1. PICK S : f \in Seq(S)
  BY DEF IsFile
<1>2. SubSeq(f, 1, n) \in Seq(S)
  BY <1>1
<1>3. QED
  BY <1>1, <1>2 DEF IsFile

(* An append to a verified file verifies: no sequence number is skipped or *)
(* repeated and the new row links to the last.                             *)
LEMMA AppendVerifies ==
  ASSUME NEW f, NEW e, IsFile(f), Verifies(f)
  PROVE  Verifies(Append(f, NextRow(f, e)))
<1> DEFINE r == NextRow(f, e)
           g == Append(f, r)
<1>1. /\ Len(f) \in Nat
      /\ Len(g) = Len(f) + 1
      /\ \A i \in 1..Len(f) : g[i] = f[i]
      /\ g[Len(f) + 1] = r
  BY AppendIsFile
<1>2. /\ r.chained = TRUE
      /\ r.seq = Len(f) + 1
      /\ r.prev = ChainHead(f, Len(f))
      /\ r.payload = PayloadHash(r.entry)
      /\ r.chain = ChainHash(r.seq, r.prev, r.payload)
  BY DEF NextRow, Chained
<1>3. \A i \in 0..Len(f) : ChainHead(g, i) = ChainHead(f, i)
  BY <1>1 DEF ChainHead
<1> HIDE DEF r, g
<1>4. Verifies(g)
  <2> SUFFICES ASSUME NEW i \in 1..Len(g)
               PROVE  /\ ~g[i].chained => \A j \in 1..i : ~g[j].chained
                      /\ g[i].chained =>
                           /\ g[i].seq = i
                           /\ g[i].prev = ChainHead(g, i - 1)
                           /\ g[i].payload = PayloadHash(g[i].entry)
                           /\ g[i].chain = ChainHash(i, g[i].prev, g[i].payload)
    BY DEF Verifies
  <2>1. CASE i = Len(f) + 1
    BY <1>1, <1>2, <1>3, <2>1
  <2>2. CASE i \in 1..Len(f)
    <3>1. g[i] = f[i] /\ ChainHead(g, i - 1) = ChainHead(f, i - 1)
      BY <1>1, <1>3, <2>2
    <3>2. \A j \in 1..i : g[j] = f[j]
      BY <1>1, <2>2
    <3>3. QED  BY <2>2, <3>1, <3>2 DEF Verifies
  <2>3. QED  BY <1>1, <2>1, <2>2
<1>5. QED  BY <1>4 DEF r, g

(* What a write that stopped short leaves of a verified file verifies.     *)
LEMMA PrefixVerifies ==
  ASSUME NEW f, IsFile(f), Verifies(f), NEW n \in 0..Len(f)
  PROVE  Verifies(SubSeq(f, 1, n))
<1> DEFINE g == SubSeq(f, 1, n)
<1>1. Len(g) = n /\ \A i \in 1..n : g[i] = f[i]
  BY PrefixIsFile
<1>2. Len(f) \in Nat
  BY AppendIsFile
<1>3. \A i \in 0..n : ChainHead(g, i) = ChainHead(f, i)
  BY <1>1, <1>2 DEF ChainHead
<1> HIDE DEF g
<1>4. ASSUME NEW i \in 1..n
      PROVE  /\ ~g[i].chained => \A j \in 1..i : ~g[j].chained
             /\ g[i].chained =>
                  /\ g[i].seq = i
                  /\ g[i].prev = ChainHead(g, i - 1)
                  /\ g[i].payload = PayloadHash(g[i].entry)
                  /\ g[i].chain = ChainHash(i, g[i].prev, g[i].payload)
  <2>1. i \in 1..Len(f) /\ g[i] = f[i] /\ ChainHead(g, i - 1) = ChainHead(f, i - 1)
    BY <1>1, <1>2, <1>3
  <2>2. \A j \in 1..i : g[j] = f[j]
    BY <1>1
  <2>3. QED  BY <2>1, <2>2 DEF Verifies
<1>5. Verifies(g)
  BY <1>1, <1>4 DEF Verifies
<1>6. QED  BY <1>5 DEF g

(***************************************************************************)
(* The invariant.                                                          *)
(***************************************************************************)
LEMMA LockMoves ==
  ASSUME [Next]_vars
  PROVE  [LockNext]_lockVars
<1>1. ASSUME NEW p \in Procs, AppendStep(p)
      PROVE  [LockNext]_lockVars
  BY <1>1 DEF AppendStep, Holding, LockNext, LockStep, lockVars, BeginAppend, WaitForLock, LockTimesOut, Locked, Refuse,
     ReadChain, CannotWrite, Truncate, WriteRows, WriteFails, EndAppend, ProcessDies, ProcessRestarts
<1>2. CASE LockFileAges
  BY <1>2 DEF LockFileAges, LockNext
<1>3. CASE UNCHANGED vars
  BY <1>3 DEF vars
<1>4. QED  BY <1>1, <1>2, <1>3 DEF Next

LEMMA TypeStep ==
  ASSUME TypeOK, [Next]_vars
  PROVE  TypeOK'
<1> USE LockConstants DEF TypeOK, Steps, auditVars, lockVars
<1>1. LockTypeOK'
  BY LockMoves, LockTypeStep
<1>2. CASE UNCHANGED vars
  BY <1>1, <1>2 DEF vars, LockTypeOK
<1>3. CASE LockFileAges
  BY <1>1, <1>3 DEF LockFileAges, LockAges, LockTypeOK
<1>4. ASSUME NEW p \in Procs, AppendStep(p)
      PROVE  TypeOK'
  <2> USE DEF LockTypeOK, Places, Move
  <2>1. ASSUME NEW e \in Entries, BeginAppend(p, e)
        PROVE  TypeOK'
    BY <1>1, <2>1 DEF BeginAppend, Enter
  <2>2. CASE WaitForLock(p)
    BY <1>1, <2>2 DEF WaitForLock, SeeOld, Clear
  <2>3. CASE LockTimesOut(p)
    BY <1>1, <2>3 DEF LockTimesOut, TimeOut
  <2>4. CASE Locked(p)
    BY <1>1, <2>4 DEF Locked, Take
  <2>5. CASE Refuse(p)
    BY <1>1, <2>5 DEF Refuse, Release
  <2>6. CASE ReadChain(p)
    BY <1>1, <2>6 DEF ReadChain
  <2>7. CASE CannotWrite(p)
    BY <1>1, <2>7 DEF CannotWrite, Release
  <2>8. CASE Truncate(p)
    BY <1>1, <2>8 DEF Truncate
  <2>9. CASE WriteRows(p)
    BY <1>1, <2>9 DEF WriteRows
  <2>10. CASE WriteFails(p)
    BY <1>1, <2>10 DEF WriteFails, Release, PartlyWritten
  <2>11. CASE EndAppend(p)
    BY <1>1, <2>11 DEF EndAppend, Release
  <2>12. CASE ProcessDies(p)
    BY <1>1, <2>12 DEF ProcessDies, Die, PartlyWritten
  <2>13. CASE ProcessRestarts(p)
    BY <1>1, <2>13 DEF ProcessRestarts, Restart
  <2>14. QED
    BY <1>4, <2>1, <2>2, <2>3, <2>4, <2>5, <2>6, <2>7, <2>8, <2>9, <2>10, <2>11, <2>12, <2>13 DEF AppendStep, Holding
<1>5. QED  BY <1>2, <1>3, <1>4 DEF Next

LEMMA FilesStep ==
  ASSUME TypeOK, FilesVerify, [Next]_vars
  PROVE  FilesVerify'
<1> USE DEF FilesVerify, auditVars
<1>1. CASE UNCHANGED vars
  BY <1>1 DEF vars, IsFile, Verifies, ChainHead
<1>2. CASE LockFileAges
  BY <1>2 DEF LockFileAges
<1>3. \A p \in Procs : PartlyWritten(p) => IsFile(rows') /\ Verifies(rows')
  BY PrefixIsFile, PrefixVerifies DEF PartlyWritten
<1>4. ASSUME NEW p \in Procs, AppendStep(p)
      PROVE  FilesVerify'
  <2>1. CASE ReadChain(p)
    <3>1. IsFile(Append(rows, NextRow(rows, entry[p]))) /\ Verifies(Append(rows, NextRow(rows, entry[p])))
      BY AppendIsFile, AppendVerifies
    <3>2. QED  BY <2>1, <3>1 DEF ReadChain
  <2>2. CASE Truncate(p)
    <3>1. <<>> \in Seq({}) /\ Len(<<>>) = 0
      OBVIOUS
    <3>2. IsFile(<<>>) /\ Verifies(<<>>)
      BY <3>1 DEF IsFile, Verifies
    <3>3. QED  BY <2>2, <3>2 DEF Truncate
  <2>3. CASE WriteRows(p)
    BY <2>3 DEF WriteRows
  <2>4. CASE WriteFails(p)
    BY <2>4, <1>3 DEF WriteFails
  <2>5. CASE ProcessDies(p)
    BY <2>5, <1>3 DEF ProcessDies
  <2>6. QED
    BY <1>4, <2>1, <2>2, <2>3, <2>4, <2>5 DEF AppendStep, Holding, BeginAppend, WaitForLock, LockTimesOut, Locked,
       Refuse, CannotWrite, EndAppend, ProcessRestarts
<1>5. QED  BY <1>1, <1>2, <1>4 DEF Next

LEMMA Initially == Init => IInv
<1> SUFFICES ASSUME Init PROVE IInv
  OBVIOUS
<1> USE DEF Init
<1>1. LockTypeOK /\ Mutex
  BY LockInitially
<1>2. TypeOK
  BY <1>1 DEF TypeOK, Steps, LockInit
<1>3. IsFile(rows) /\ Verifies(rows)
  <2>1. /\ LegacyFile \in Seq({Legacy(LegacyRows[i]) : i \in 1..Len(LegacyRows)})
        /\ Len(LegacyFile) = Len(LegacyRows)
        /\ \A i \in 1..Len(LegacyRows) : LegacyFile[i] = Legacy(LegacyRows[i])
    BY AuditConstants DEF LegacyFile
  <2>2. \A i \in 1..Len(LegacyFile) : LegacyFile[i].chained = FALSE
    BY <2>1 DEF Legacy
  <2>3. QED  BY <2>1, <2>2 DEF IsFile, Verifies
<1>4. FilesVerify
  <2>1. <<>> \in Seq({}) /\ Len(<<>>) = 0
    OBVIOUS
  <2>2. IsFile(<<>>) /\ Verifies(<<>>)
    BY <2>1 DEF IsFile, Verifies
  <2>3. QED  BY <1>3, <2>2 DEF FilesVerify
<1>5. QED  BY <1>1, <1>2, <1>4 DEF IInv

THEOREM Invariance == Spec => []IInv
<1>1. IInv /\ [Next]_vars => IInv'
  BY TypeStep, FilesStep, MutexStep, LockMoves DEF IInv, TypeOK
<1>2. QED  BY <1>1, Initially, PTL DEF Spec

(* Type correctness of the appends, for any processes and entries.         *)
THEOREM TypeCorrect == Spec => []TypeOK
  BY Invariance, PTL DEF IInv

(* Whatever the lock, the crashes and the short writes, a readable audit   *)
(* file verifies.                                                          *)
THEOREM ChainSafe == Spec => []ChainVerifies
<1>1. IInv => ChainVerifies
  BY DEF IInv, FilesVerify, ChainVerifies
<1>2. QED  BY <1>1, Invariance, PTL

(***************************************************************************)
(* Tampering: a row is held to its own position by its sequence number and *)
(* to its entry by the payload hash.                                       *)
(***************************************************************************)
LEMMA AlteredFound ==
  ASSUME NEW f, IsFile(f), Verifies(f), NEW i \in 1..Len(f), f[i].chained, NEW e, f[i].entry # e
  PROVE  ~Verifies(Altered(f, i, e))
<1> DEFINE r == [chained |-> TRUE, entry |-> e, seq |-> f[i].seq, prev |-> f[i].prev,
                 payload |-> f[i].payload, chain |-> f[i].chain]
           g == [f EXCEPT ![i] = r]
<1>1. PICK S : f \in Seq(S)
  BY DEF IsFile
<1>2. Len(g) = Len(f) /\ g[i] = r
  <2> HIDE DEF r
  <2>1. f \in Seq(S \cup {r})
    BY <1>1
  <2>2. QED  BY <2>1
<1>3. r.chained /\ r.payload # PayloadHash(r.entry)
  BY DEF Verifies, PayloadHash
<1>4. ~Verifies(g)
  <2> HIDE DEF r, g
  <2>1. QED  BY <1>2, <1>3 DEF Verifies
<1>5. QED  BY <1>4 DEF Altered

LEMMA MovedFound ==
  ASSUME NEW f, Verifies(f), NEW i \in 1..Len(f), f[i].chained,
         NEW g, NEW k \in 1..Len(g), k # i, g[k] = f[i]
  PROVE  ~Verifies(g)
  BY DEF Verifies

LEMMA DeletedFound ==
  ASSUME NEW f, IsFile(f), Verifies(f), NEW i \in 1..Len(f), f[i].chained, NEW j \in 1..(i - 1)
  PROVE  ~Verifies(Deleted(f, j))
<1> DEFINE g == Deleted(f, j)
<1>1. PICK S : f \in Seq(S)
  BY DEF IsFile
<1>2. g \in Seq(S) /\ Len(g) = Len(f) - 1
  BY <1>1 DEF Deleted
<1>3. i - 1 \in 1..Len(g) /\ g[i - 1] = f[i]
  BY <1>1, <1>2 DEF Deleted
<1> HIDE DEF g
<1>4. ~Verifies(g)
  BY <1>1, <1>3, MovedFound
<1>5. QED  BY <1>4 DEF g

LEMMA SwappedFound ==
  ASSUME NEW f, IsFile(f), Verifies(f), NEW i \in 1..Len(f), f[i].chained, i > 1
  PROVE  ~Verifies(Swapped(f, i - 1))
<1> DEFINE g == Swapped(f, i - 1)
<1>1. PICK S : f \in Seq(S)
  BY DEF IsFile
<1>2. Len(g) = Len(f) /\ i - 1 \in 1..Len(g) /\ g[i - 1] = f[i]
  BY <1>1 DEF Swapped
<1> HIDE DEF g
<1>3. ~Verifies(g)
  BY <1>1, <1>2, MovedFound
<1>4. QED  BY <1>3 DEF g

LEMMA InsertedFound ==
  ASSUME NEW f, IsFile(f), Verifies(f), NEW i \in 1..Len(f), f[i].chained, NEW j \in 1..i, NEW r
  PROVE  ~Verifies(Inserted(f, j, r))
<1> DEFINE g == Inserted(f, j, r)
<1>1. PICK S : f \in Seq(S)
  BY DEF IsFile
<1>2. g \in Seq(S \cup {r}) /\ Len(g) = Len(f) + 1
  BY <1>1 DEF Inserted
<1>3. i + 1 \in 1..Len(g) /\ g[i + 1] = f[i]
  BY <1>1, <1>2 DEF Inserted
<1> HIDE DEF g
<1>4. ~Verifies(g)
  BY <1>1, <1>3, MovedFound
<1>5. QED  BY <1>4 DEF g

(* In every file the program can have written, an edit of a chained row,   *)
(* or a row deleted, inserted or reordered before one, fails verification. *)
THEOREM TamperSafe == Spec => []TamperDetected
<1>1. IInv => TamperDetected
  BY AlteredFound, DeletedFound, SwappedFound, InsertedFound DEF IInv, FilesVerify, TamperDetected
<1>2. QED  BY <1>1, Invariance, PTL

(* Both together: what the program wrote passes, and tampering does not.   *)
THEOREM ChainTrusted == Spec => []ChainSound
<1>1. ChainVerifies /\ TamperDetected => ChainSound
  BY DEF ChainSound
<1>2. QED  BY <1>1, ChainSafe, TamperSafe, PTL

(***************************************************************************)
(* Refinement, over flock.                                                 *)
(***************************************************************************)
LEMMA EntriesOfAppend ==
  ASSUME NEW f, IsFile(f), NEW e
  PROVE  EntriesOf(Append(f, NextRow(f, e))) = Append(EntriesOf(f), e)
<1> DEFINE g == Append(f, NextRow(f, e))
<1>1. /\ Len(f) \in Nat
      /\ Len(g) = Len(f) + 1
      /\ \A i \in 1..Len(f) : g[i] = f[i]
      /\ g[Len(f) + 1] = NextRow(f, e)
  BY AppendIsFile
<1>2. g[Len(f) + 1].entry = e
  BY <1>1 DEF NextRow, Chained
<1> HIDE DEF g
<1> DEFINE S == {f[i].entry : i \in 1..Len(f)} \cup {e}
           F == [i \in 1..Len(f) |-> f[i].entry]
           G == [i \in 1..(Len(f) + 1) |-> g[i].entry]
<1>3. F \in Seq(S) /\ Len(F) = Len(f) /\ \A i \in 1..Len(f) : F[i] = f[i].entry
  BY <1>1
<1>4. Append(F, e) \in Seq(S) /\ Len(Append(F, e)) = Len(f) + 1
  BY <1>3
<1>5. \A i \in 1..(Len(f) + 1) : g[i].entry \in S /\ g[i].entry = Append(F, e)[i]
  BY <1>1, <1>2, <1>3
<1>6. G \in Seq(S) /\ Len(G) = Len(f) + 1 /\ \A i \in 1..(Len(f) + 1) : G[i] = g[i].entry
  BY <1>1, <1>5
<1> HIDE DEF S, F, G
<1>7. G = Append(F, e)
  BY <1>1, <1>4, <1>5, <1>6, SeqEqual
<1>8. QED  BY <1>1, <1>7 DEF EntriesOf, F, G, g

LEMMA EntriesOfPrefix ==
  ASSUME NEW f, IsFile(f), NEW n \in 0..Len(f)
  PROVE  /\ EntriesOf(SubSeq(f, 1, n)) = SubSeq(EntriesOf(f), 1, n)
         /\ Len(EntriesOf(f)) = Len(f)
         /\ Len(f) \in Nat
<1> DEFINE g == SubSeq(f, 1, n)
<1>1. Len(f) \in Nat /\ Len(g) = n /\ \A i \in 1..n : g[i] = f[i]
  BY AppendIsFile, PrefixIsFile
<1> HIDE DEF g
<1> DEFINE S == {f[i].entry : i \in 1..Len(f)}
           F == [i \in 1..Len(f) |-> f[i].entry]
           G == [i \in 1..n |-> g[i].entry]
<1>2. F \in Seq(S) /\ Len(F) = Len(f) /\ \A i \in 1..Len(f) : F[i] = f[i].entry
  BY <1>1
<1>3. /\ SubSeq(F, 1, n) \in Seq(S)
      /\ Len(SubSeq(F, 1, n)) = n
      /\ \A i \in 1..n : SubSeq(F, 1, n)[i] = f[i].entry
  BY <1>1, <1>2
<1>4. G \in Seq(S) /\ Len(G) = n /\ \A i \in 1..n : G[i] = f[i].entry
  BY <1>1
<1> HIDE DEF S, F, G
<1>5. G = SubSeq(F, 1, n)
  BY <1>3, <1>4, SeqEqual
<1>6. QED  BY <1>1, <1>2, <1>5 DEF EntriesOf, F, G, g

LEMMA TheWriter ==
  ASSUME Excluding, IInv, NEW p \in Procs, at[p] = "in"
  PROVE  Writing = {q \in {p} : step[q] = "writing"}
  BY DEF Excluding, IInv, Mutex, Held, TypeOK, LockTypeOK, Writing

LEMMA OneWriterStep ==
  ASSUME Excluding, IInv, OneWriter, [Next]_vars
  PROVE  OneWriter'
<1> USE DEF OneWriter, auditVars
<1>1. /\ \A p, q \in Procs : at[p] = "in" /\ at[q] = "in" => p = q
      /\ \A p \in Procs : step[p] \in {"read", "write", "writing", "written"} <=> at[p] = "in"
      /\ step \in [Procs -> Steps] /\ entry \in [Procs -> Entries \cup {Nobody}]
      /\ buf = [p \in Procs |-> buf[p]]
  BY DEF Excluding, IInv, Mutex, Held, TypeOK, LockTypeOK, FilesVerify
<1>2. CASE UNCHANGED vars
  BY <1>2 DEF vars, NextRow, ChainHead
<1>3. CASE LockFileAges
  BY <1>3 DEF LockFileAges, NextRow, ChainHead
<1>4. ASSUME NEW p \in Procs, AppendStep(p)
      PROVE  OneWriter'
  <2> USE <1>1
  <2>1. ASSUME NEW e \in Entries, BeginAppend(p, e)
        PROVE  OneWriter'
    BY <2>1 DEF BeginAppend, Enter
  <2>2. CASE WaitForLock(p)
    BY <2>2 DEF WaitForLock
  <2>3. CASE LockTimesOut(p)
    BY <2>3 DEF LockTimesOut, TimeOut
  <2>4. CASE Locked(p)
    BY <2>4 DEF Locked
  <2>5. CASE Refuse(p)
    BY <2>5 DEF Refuse
  <2>6. CASE ReadChain(p)
    BY <2>6 DEF ReadChain
  <2>7. CASE CannotWrite(p)
    BY <2>7 DEF CannotWrite
  <2>8. CASE Truncate(p)
    BY <2>8 DEF Truncate
  <2>9. CASE WriteRows(p)
    BY <2>9 DEF WriteRows
  <2>10. CASE WriteFails(p)
    BY <2>10 DEF WriteFails
  <2>11. CASE EndAppend(p)
    BY <2>11 DEF EndAppend
  <2>12. CASE ProcessDies(p)
    BY <2>12 DEF ProcessDies, Die
  <2>13. CASE ProcessRestarts(p)
    BY <2>13 DEF ProcessRestarts
  <2>14. QED
    BY <1>4, <2>1, <2>2, <2>3, <2>4, <2>5, <2>6, <2>7, <2>8, <2>9, <2>10, <2>11, <2>12, <2>13 DEF AppendStep, Holding
<1>5. QED  BY <1>2, <1>3, <1>4 DEF Next

(* The log while p is in the critical section.                             *)
LEMMA LogOfHolder ==
  ASSUME Excluding, IInv, NEW p \in Procs, at[p] = "in"
  PROVE  LogNow = IF step[p] = "writing" THEN EntriesOf(buf[p])
                  ELSE IF torn THEN <<>> ELSE EntriesOf(rows)
<1>1. Writing = {q \in {p} : step[q] = "writing"}
  BY TheWriter
<1>2. CASE step[p] = "writing"
  <2>1. Writing = {p}
    BY <1>1, <1>2
  <2>2. (CHOOSE q \in Writing : TRUE) = p
    BY <2>1
  <2>3. QED  BY <1>2, <2>1, <2>2 DEF LogNow
<1>3. CASE step[p] # "writing"
  <2>1. Writing = {}
    BY <1>1, <1>3
  <2>2. QED  BY <1>3, <2>1 DEF LogNow
<1>4. QED  BY <1>2, <1>3

(* The log when p is the last writer, or is none, and has just left.       *)
LEMMA LogAfterHolder ==
  ASSUME Excluding, IInv, NEW p \in Procs, at[p] = "in",
         step' = [step EXCEPT ![p] = "idle"]
  PROVE  LogNow' = IF torn' THEN <<>> ELSE EntriesOf(rows')
<1>1. Writing' = {}
  BY TheWriter DEF Writing, IInv, TypeOK
<1>2. QED  BY <1>1 DEF LogNow

(* What a step does to the log: an append puts its entry at the end when   *)
(* it opens the file, a write that stops short cuts it.                    *)
LEMMA LogMoves ==
  ASSUME Excluding, IInv, OneWriter, [Next]_vars
  PROVE  \/ \E p \in Procs : Truncate(p) /\ entry[p] \in Entries /\ LogNow' = Append(LogNow, entry[p])
         \/ damaged' /\ Log!Cut
         \/ (\A p \in Procs : ~Truncate(p)) /\ UNCHANGED LogNow
<1>1. /\ step \in [Procs -> Steps] /\ buf = [p \in Procs |-> buf[p]]
      /\ \A p \in Procs : /\ step[p] \in {"read", "write", "writing", "written"} <=> at[p] = "in"
                          /\ step[p] # "idle" => entry[p] \in Entries
                          /\ IsFile(buf[p])
      /\ IsFile(rows)
  BY DEF IInv, TypeOK, FilesVerify
<1>2. ASSUME UNCHANGED <<rows, torn, buf>>, Writing' = Writing
      PROVE  UNCHANGED LogNow
  BY <1>2 DEF LogNow, EntriesOf
<1>3. ASSUME NEW q \in Procs, NEW place \in Steps \ {"writing"}, step[q] # "writing",
             step' = [step EXCEPT ![q] = place]
      PROVE  Writing' = Writing
  BY <1>1, <1>3 DEF Writing
<1>4. ASSUME NEW f, IsFile(f), NEW n \in 0..Len(f), LogNow = EntriesOf(f),
             LogNow' = IF torn' THEN <<>> ELSE EntriesOf(SubSeq(f, 1, n))
      PROVE  Log!Cut
  <2> DEFINE F == EntriesOf(f)
  <2>1. Len(F) = Len(f) /\ Len(f) \in Nat /\ EntriesOf(SubSeq(f, 1, n)) = SubSeq(F, 1, n)
    BY <1>4, EntriesOfPrefix
  <2>2. <<>> = SubSeq(F, 1, 0)
    BY <1>4, SubSeqEmpty
  <2> HIDE DEF F
  <2>3. CASE torn'
    BY <1>4, <2>1, <2>2, <2>3 DEF Log!Cut, F
  <2>4. CASE ~torn'
    BY <1>4, <2>1, <2>4 DEF Log!Cut, F
  <2>5. QED  BY <2>3, <2>4
<1>5. ASSUME NEW p \in Procs, Truncate(p)
      PROVE  entry[p] \in Entries /\ LogNow' = Append(LogNow, entry[p])
  <2>1. at[p] = "in" /\ step[p] = "write"
    BY <1>1, <1>5 DEF Truncate
  <2>2. LogNow = EntriesOf(rows) /\ entry[p] \in Entries
    BY <1>1, <2>1, LogOfHolder DEF OneWriter
  <2>3. Writing' = {p}
    BY <1>1, <1>5, <2>1, TheWriter DEF Truncate, Writing
  <2>4. (CHOOSE q \in Writing' : TRUE) = p
    BY <2>3
  <2>5. LogNow' = EntriesOf(buf[p])
    BY <1>5, <2>3, <2>4 DEF LogNow, EntriesOf, Truncate
  <2>6. buf[p] = Append(rows, NextRow(rows, entry[p]))
    BY <2>1 DEF OneWriter
  <2>7. QED  BY <1>1, <2>2, <2>5, <2>6, EntriesOfAppend
<1>6. ASSUME NEW p \in Procs, AppendStep(p), ~Truncate(p)
      PROVE  (damaged' /\ Log!Cut) \/ UNCHANGED LogNow
  <2>1. CASE ReadChain(p)
    <3>1. Writing = {} /\ Writing' = {}
      BY <1>1, <2>1, TheWriter DEF ReadChain, Writing, Steps
    <3>2. QED  BY <2>1, <3>1 DEF ReadChain, LogNow, EntriesOf
  <2>3. CASE WriteRows(p)
    <3>1. at[p] = "in" /\ step[p] = "writing"
      BY <1>1, <2>3 DEF WriteRows
    <3>2. LogNow = EntriesOf(buf[p])
      BY <3>1, LogOfHolder
    <3>3. Writing' = {}
      BY <1>1, <2>3, <3>1, TheWriter DEF WriteRows, Writing
    <3>4. rows' = buf[p] /\ ~torn'
      BY <2>3, <3>1 DEF WriteRows, OneWriter
    <3>5. QED  BY <3>2, <3>3, <3>4 DEF LogNow, EntriesOf
  <2>4. ASSUME step[p] = "writing", PartlyWritten(p), step' = [step EXCEPT ![p] = "idle"]
        PROVE  damaged' /\ Log!Cut
    <3>1. at[p] = "in"
      BY <1>1, <2>4
    <3>2. LogNow = EntriesOf(buf[p])
      BY <2>4, <3>1, LogOfHolder
    <3>3. damaged' /\ \E n \in 0..Len(buf[p]) : rows' = SubSeq(buf[p], 1, n)
      BY <2>4 DEF PartlyWritten
    <3>4. PICK n \in 0..Len(buf[p]) : rows' = SubSeq(buf[p], 1, n)
      BY <3>3
    <3>5. LogNow' = IF torn' THEN <<>> ELSE EntriesOf(SubSeq(buf[p], 1, n))
      BY <2>4, <3>1, <3>4, LogAfterHolder DEF EntriesOf
    <3>6. QED  BY <1>1, <1>4, <3>2, <3>3, <3>5
  <2>5. CASE WriteFails(p)
    BY <2>4, <2>5 DEF WriteFails
  <2>6. CASE ProcessDies(p)
    <3>1. CASE step[p] = "writing"
      BY <2>4, <2>6, <3>1 DEF ProcessDies
    <3>2. CASE step[p] # "writing"
      BY <1>2, <1>3, <2>6, <3>2 DEF ProcessDies, Steps
    <3>3. QED  BY <3>1, <3>2
  <2>7. ASSUME NEW e \in Entries, BeginAppend(p, e)
        PROVE  UNCHANGED LogNow
    BY <1>2, <1>3, <2>7 DEF BeginAppend, Steps
  <2>8. CASE WaitForLock(p) \/ ProcessRestarts(p)
    BY <1>2, <2>8 DEF WaitForLock, ProcessRestarts, auditVars, Writing
  <2>9. CASE LockTimesOut(p) \/ Locked(p) \/ Refuse(p) \/ CannotWrite(p) \/ EndAppend(p)
    BY <1>2, <1>3, <2>9 DEF LockTimesOut, Locked, Refuse, CannotWrite, EndAppend, Steps
  <2>10. QED
    BY <1>6, <2>1, <2>3, <2>5, <2>6, <2>7, <2>8, <2>9 DEF AppendStep, Holding
<1>7. ASSUME LockFileAges PROVE UNCHANGED LogNow
  BY <1>2, <1>7 DEF LockFileAges, auditVars, Writing
<1>8. ASSUME UNCHANGED vars PROVE UNCHANGED LogNow
  BY <1>2, <1>8 DEF vars, auditVars, Writing
<1>9. CASE \E p \in Procs : Truncate(p)
  <2>1. PICK p \in Procs : Truncate(p)
    BY <1>9
  <2>2. entry[p] \in Entries /\ LogNow' = Append(LogNow, entry[p])
    BY <1>5, <2>1
  <2>3. QED  BY <2>1, <2>2
<1>10. CASE \A p \in Procs : ~Truncate(p)
  <2>1. (damaged' /\ Log!Cut) \/ UNCHANGED LogNow
    BY <1>6, <1>7, <1>8, <1>10 DEF Next
  <2>2. QED  BY <1>10, <2>1
<1>11. QED  BY <1>9, <1>10

LEMMA LogStep ==
  ASSUME Excluding, IInv, OneWriter, [Next]_vars
  PROVE  [Log!Next]_LogNow
  BY LogMoves DEF Log!Next, Log!Write

LEMMA LogInitially == Init => OneWriter /\ LogNow = LegacyRows
<1> SUFFICES ASSUME Init PROVE OneWriter /\ LogNow = LegacyRows
  OBVIOUS
<1>1. OneWriter /\ Writing = {} /\ ~torn /\ rows = LegacyFile
  BY DEF Init, OneWriter, Writing
<1>2. /\ Len(LegacyFile) = Len(LegacyRows)
      /\ \A i \in 1..Len(LegacyRows) : LegacyFile[i].entry = LegacyRows[i]
  BY AuditConstants DEF LegacyFile, Legacy
<1>3. [i \in 1..Len(LegacyRows) |-> LegacyRows[i]] = LegacyRows
  BY AuditConstants
<1>4. EntriesOf(LegacyFile) = LegacyRows
  BY <1>2, <1>3 DEF EntriesOf
<1>5. QED  BY <1>1, <1>4 DEF LogNow

(* Over flock the audit file is an append-only log: whatever the appends,  *)
(* deaths and short writes, it grows by one entry at its end or is cut.    *)
THEOREM FileIsLog ==
  ASSUME ~Portable
  PROVE  Spec => LogSpec
<1>1. Init => Log!Init
  BY LogInitially DEF Log!Init
<1>2. IInv /\ OneWriter /\ [Next]_vars => OneWriter'
  BY OneWriterStep DEF Excluding
<1>3. IInv /\ OneWriter /\ [Next]_vars => [Log!Next]_LogNow
  BY LogStep DEF Excluding
<1>4. QED  BY <1>1, <1>2, <1>3, LogInitially, Invariance, PTL DEF Spec, LogSpec, Log!Spec

(***************************************************************************)
(* What was acknowledged.                                                  *)
(***************************************************************************)
In(e) == \E i \in 1..Len(LogNow) : LogNow[i] = e

(* While no write stopped short: an entry is in the log once, only if some *)
(* append was called with it; an append has its entry there from when it   *)
(* opens the file, and no two have the same one.                           *)
Trail ==
    /\ ~torn /\ IsFile(LogNow)
    /\ \A i \in 1..Len(LogNow) : LogNow[i] \in Entries => LogNow[i] \in used
    /\ \A i, j \in 1..Len(LogNow) : LogNow[i] \in Entries /\ LogNow[i] = LogNow[j] => i = j
    /\ \A p \in Procs : step[p] \in {"lock", "read", "write"} => ~In(entry[p])
    /\ \A p \in Procs : step[p] \in {"writing", "written"} => In(entry[p])
    /\ \A e \in acked : In(e)

OwnEntries == \A p, q \in Procs : step[p] # "idle" /\ step[q] # "idle" /\ entry[p] = entry[q] => p = q

TrailInv ==
    /\ OwnEntries
    /\ Excluding => OneWriter
    /\ Excluding /\ ~damaged => Trail

(* What a step does to the appends.                                        *)
LEMMA AppendsMove ==
  ASSUME TypeOK, [Next]_vars
  PROVE  /\ killed => killed'
         /\ damaged => damaged'
         /\ \/ UNCHANGED <<step, entry, used, acked>>
            \/ \E p \in Procs : /\ \E e \in Entries \ used : /\ step' = [step EXCEPT ![p] = "lock"]
                                                             /\ entry' = [entry EXCEPT ![p] = e]
                                                             /\ used' = used \cup {e}
                                /\ step[p] = "idle" /\ UNCHANGED acked
            \/ \E p \in Procs : /\ \A q \in Procs : q # p => step'[q] = step[q]
                                /\ step'[p] # "lock" /\ (step'[p] # "idle" => step[p] # "idle")
                                /\ step'[p] \in {"read", "write"} => step[p] \in {"lock", "read"}
                                /\ step'[p] = "writing" => Truncate(p)
                                /\ step'[p] = "written" => step[p] = "writing"
                                /\ acked' = acked \/ (step[p] = "written" /\ acked' = acked \cup {entry[p]})
                                /\ UNCHANGED <<entry, used>>
<1> USE DEF TypeOK, LockTypeOK
<1>1. CASE UNCHANGED vars
  BY <1>1 DEF vars, lockVars, auditVars
<1>2. CASE LockFileAges
  BY <1>2 DEF LockFileAges, LockAges, auditVars
<1>3. ASSUME NEW p \in Procs, AppendStep(p)
      PROVE  killed => killed'
  BY <1>3 DEF AppendStep, Holding, BeginAppend, WaitForLock, LockTimesOut, Locked, Refuse, ReadChain, CannotWrite, Truncate,
     WriteRows, WriteFails, EndAppend, ProcessDies, ProcessRestarts, lockVars,
     Enter, SeeOld, Clear, TimeOut, Take, Release, Die, Restart
<1>4. ASSUME NEW p \in Procs, AppendStep(p)
      PROVE  damaged => damaged'
  BY <1>4 DEF AppendStep, Holding, BeginAppend, WaitForLock, LockTimesOut, Locked, Refuse, ReadChain, CannotWrite, Truncate,
     WriteRows, WriteFails, EndAppend, ProcessDies, ProcessRestarts, auditVars, PartlyWritten
<1>5. ASSUME NEW p \in Procs, NEW e \in Entries, BeginAppend(p, e)
      PROVE  /\ step' = [step EXCEPT ![p] = "lock"] /\ entry' = [entry EXCEPT ![p] = e] /\ used' = used \cup {e}
             /\ e \notin used /\ step[p] = "idle" /\ UNCHANGED acked
  BY <1>5 DEF BeginAppend
<1>6. ASSUME NEW p \in Procs, WaitForLock(p) \/ ProcessRestarts(p)
      PROVE  UNCHANGED <<step, entry, used, acked>>
  BY <1>6 DEF WaitForLock, ProcessRestarts, auditVars
<1>7. ASSUME NEW p \in Procs, LockTimesOut(p) \/ Locked(p) \/ Holding(p) \/ ProcessDies(p)
      PROVE  /\ \A q \in Procs : q # p => step'[q] = step[q]
             /\ step'[p] # "lock" /\ (step'[p] # "idle" => step[p] # "idle")
             /\ step'[p] \in {"read", "write"} => step[p] \in {"lock", "read"}
             /\ step'[p] = "writing" => Truncate(p)
             /\ step'[p] = "written" => step[p] = "writing"
             /\ acked' = acked \/ (step[p] = "written" /\ acked' = acked \cup {entry[p]})
             /\ UNCHANGED <<entry, used>>
  <2> USE DEF Steps
  <2>1. CASE LockTimesOut(p) \/ Refuse(p) \/ CannotWrite(p) \/ WriteFails(p) \/ EndAppend(p)
    BY <2>1 DEF LockTimesOut, Refuse, CannotWrite, WriteFails, EndAppend
  <2>2. CASE ProcessDies(p)
    BY <2>2 DEF ProcessDies
  <2>3. CASE Locked(p)
    BY <2>3 DEF Locked
  <2>4. CASE ReadChain(p)
    BY <2>4 DEF ReadChain
  <2>5. CASE Truncate(p)
    BY <2>5 DEF Truncate
  <2>6. CASE WriteRows(p)
    BY <2>6 DEF WriteRows
  <2>7. QED  BY <1>7, <2>1, <2>2, <2>3, <2>4, <2>5, <2>6 DEF Holding
<1>8. QED
  BY <1>1, <1>2, <1>3, <1>4, <1>5, <1>6, <1>7 DEF Next, AppendStep

LEMMA OwnEntriesStep ==
  ASSUME TypeOK, OwnEntries, [Next]_vars
  PROVE  OwnEntries'
<1> USE DEF OwnEntries, TypeOK
<1>1. CASE UNCHANGED <<step, entry, used, acked>>
  BY <1>1
<1>2. ASSUME NEW p \in Procs, NEW e \in Entries \ used, step' = [step EXCEPT ![p] = "lock"],
             entry' = [entry EXCEPT ![p] = e]
      PROVE  OwnEntries'
  BY <1>2
<1>3. ASSUME NEW p \in Procs, \A q \in Procs : q # p => step'[q] = step[q], step'[p] # "idle" => step[p] # "idle",
             UNCHANGED entry
      PROVE  OwnEntries'
  BY <1>3
<1>4. QED  BY <1>1, <1>2, <1>3, AppendsMove

(* A step that leaves the log alone: an append that ends is of an entry    *)
(* that is there, one that begins of an entry nobody had.                  *)
LEMMA TrailStays ==
  ASSUME IInv, OwnEntries, Trail, [Next]_vars, \A p \in Procs : ~Truncate(p), UNCHANGED LogNow, ~torn'
  PROVE  Trail'
<1> USE DEF Trail, In
<1>1. /\ step \in [Procs -> Steps] /\ acked \subseteq used /\ used \subseteq Entries
      /\ entry \in [Procs -> Entries \cup {Nobody}] /\ \A p \in Procs : step[p] # "idle" => entry[p] \in used
  BY DEF IInv, TypeOK
<1>2. CASE UNCHANGED <<step, entry, used, acked>>
  BY <1>2
<1>3. ASSUME NEW p \in Procs, NEW e \in Entries \ used, step' = [step EXCEPT ![p] = "lock"],
             entry' = [entry EXCEPT ![p] = e], used' = used \cup {e}, UNCHANGED acked, step[p] = "idle"
      PROVE  Trail'
  <2>1. ~In(e)
    BY <1>3
  <2>2. \A q \in Procs : q # p => step'[q] = step[q] /\ entry'[q] = entry[q]
    BY <1>1, <1>3
  <2>3. step'[p] = "lock" /\ entry'[p] = e
    BY <1>1, <1>3
  <2>4. QED  BY <1>3, <2>1, <2>2, <2>3
<1>4. ASSUME NEW p \in Procs, \A q \in Procs : q # p => step'[q] = step[q],
             step'[p] # "lock", step'[p] # "writing",
             step'[p] \in {"read", "write"} => step[p] \in {"lock", "read"}, step'[p] = "written" => step[p] = "writing",
             acked' = acked \/ (step[p] = "written" /\ acked' = acked \cup {entry[p]}), UNCHANGED <<entry, used>>
      PROVE  Trail'
  <2>1. \A q \in Procs : step'[q] \in {"lock", "read", "write"} => ~In(entry[q])'
    BY <1>4
  <2>2. \A q \in Procs : step'[q] \in {"writing", "written"} => In(entry[q])'
    BY <1>4
  <2>3. \A e \in acked' : In(e)'
    BY <1>1, <1>4
  <2>4. QED  BY <1>4, <2>1, <2>2, <2>3
<1>5. TypeOK
  BY DEF IInv
<1>6. QED  BY <1>2, <1>3, <1>4, <1>5, AppendsMove

LEMMA TrailGrows ==
  ASSUME IInv, OwnEntries, Trail, NEW p \in Procs, Truncate(p), LogNow' = Append(LogNow, entry[p])
  PROVE  Trail'
<1>1. /\ step \in [Procs -> Steps] /\ acked \subseteq used /\ used \subseteq Entries
      /\ \A q \in Procs : step[q] # "idle" => entry[q] \in used
  BY DEF IInv, TypeOK
<1>2. /\ step[p] = "write" /\ step' = [step EXCEPT ![p] = "writing"] /\ ~torn'
      /\ UNCHANGED <<entry, used, acked>>
  BY DEF Truncate
<1>3. entry[p] \in Entries /\ entry[p] \in used /\ ~In(entry[p])
  BY <1>1, <1>2 DEF Trail
<1>4. /\ IsFile(LogNow) /\ Len(LogNow) \in Nat /\ IsFile(LogNow') /\ Len(LogNow') = Len(LogNow) + 1
      /\ \A i \in 1..Len(LogNow) : LogNow'[i] = LogNow[i]
      /\ LogNow'[Len(LogNow) + 1] = entry[p]
  BY AppendIsFile DEF Trail
<1>5. \A e : In(e)' <=> In(e) \/ e = entry[p]
  BY <1>4 DEF In
<1>6. step'[p] = "writing" /\ \A q \in Procs : q # p => step'[q] = step[q]
  BY <1>1, <1>2
<1>7. \A i \in 1..Len(LogNow') : LogNow'[i] \in Entries => LogNow'[i] \in used'
  BY <1>2, <1>3, <1>4 DEF Trail
<1>8. \A i, j \in 1..Len(LogNow') : LogNow'[i] \in Entries /\ LogNow'[i] = LogNow'[j] => i = j
  BY <1>3, <1>4 DEF Trail, In
<1>9. \A q \in Procs : step'[q] \in {"lock", "read", "write"} => ~In(entry[q])'
  BY <1>2, <1>5, <1>6 DEF Trail, OwnEntries
<1>10. \A q \in Procs : step'[q] \in {"writing", "written"} => In(entry[q])'
  BY <1>2, <1>5, <1>6 DEF Trail
<1>11. \A e \in acked' : In(e)'
  BY <1>2, <1>5 DEF Trail
<1>12. IsFile(LogNow)'
  BY <1>4 DEF IsFile
<1>13. QED  BY <1>2, <1>7, <1>8, <1>9, <1>10, <1>11, <1>12 DEF Trail

LEMMA TornOnlyWhenDamaged ==
  ASSUME OneWriter, ~torn, [Next]_vars, ~damaged'
  PROVE  ~torn'
<1>1. ASSUME NEW p \in Procs, AppendStep(p)
      PROVE  ~torn'
  BY <1>1 DEF AppendStep, Holding, BeginAppend, WaitForLock, LockTimesOut, Locked, Refuse, ReadChain, CannotWrite, Truncate,
     WriteRows, WriteFails, EndAppend, ProcessDies, ProcessRestarts, auditVars, PartlyWritten, OneWriter
<1>2. QED  BY <1>1 DEF Next, LockFileAges, vars, auditVars

LEMMA TrailStep ==
  ASSUME IInv, TrailInv, [Next]_vars
  PROVE  TrailInv'
<1>1. TypeOK /\ OwnEntries
  BY DEF IInv, TrailInv
<1>2. OwnEntries'
  BY <1>1, OwnEntriesStep
<1>3. Excluding' => Excluding
  BY <1>1, AppendsMove DEF Excluding, TypeOK, LockTypeOK
<1>4. Excluding' => OneWriter'
  BY <1>3, OneWriterStep DEF TrailInv
<1>5. ASSUME Excluding', ~damaged' PROVE Trail'
  <2>1. Excluding /\ ~damaged /\ Trail /\ OneWriter
    BY <1>1, <1>3, <1>5, AppendsMove DEF TrailInv, TypeOK
  <2>2. ~torn'
    BY <1>5, <2>1, TornOnlyWhenDamaged DEF Trail
  <2>3. CASE \E p \in Procs : Truncate(p) /\ entry[p] \in Entries /\ LogNow' = Append(LogNow, entry[p])
    BY <1>1, <2>1, <2>3, TrailGrows
  <2>4. CASE (\A p \in Procs : ~Truncate(p)) /\ UNCHANGED LogNow
    BY <1>1, <2>1, <2>2, <2>4, TrailStays
  <2>5. QED  BY <1>5, <2>1, <2>3, <2>4, LogMoves
<1>6. QED  BY <1>2, <1>4, <1>5 DEF TrailInv

LEMMA TrailInitially == Init => TrailInv
<1> SUFFICES ASSUME Init PROVE TrailInv
  OBVIOUS
<1>1. OneWriter /\ LogNow = LegacyRows
  BY LogInitially
<1>2. /\ ~torn /\ used = {} /\ acked = {} /\ \A p \in Procs : step[p] = "idle"
  BY DEF Init
<1>3. IsFile(LogNow) /\ \A i \in 1..Len(LogNow) : LogNow[i] \notin Entries
  BY <1>1, AuditConstants DEF IsFile
<1>4. Trail
  BY <1>2, <1>3 DEF Trail
<1>5. QED  BY <1>1, <1>2, <1>4 DEF TrailInv, OwnEntries

(* An entry whose append returned nil is in the file, once, for any number *)
(* of processes that append, time out and die, until a write stops short.  *)
THEOREM Acknowledged == Spec => []AcknowledgedKept
<1>1. IInv /\ TrailInv => AcknowledgedKept
  <2> SUFFICES ASSUME IInv, TrailInv, ~damaged, Excluding, NEW e \in acked
               PROVE  \E i \in 1..Len(LogNow) : \A j \in 1..Len(LogNow) : LogNow[j] = e <=> j = i
    BY DEF AcknowledgedKept, Excluding
  <2>1. Trail /\ e \in Entries
    BY DEF TrailInv, IInv, TypeOK
  <2>2. PICK i \in 1..Len(LogNow) : LogNow[i] = e
    BY <2>1 DEF Trail, In
  <2>3. QED  BY <2>1, <2>2 DEF Trail
<1>2. IInv /\ TrailInv /\ [Next]_vars => TrailInv'
  BY TrailStep
<1>3. QED  BY <1>1, <1>2, TrailInitially, Invariance, PTL DEF Spec

================================================================================
