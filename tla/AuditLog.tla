-------------------------------- MODULE AuditLog --------------------------------
(***************************************************************************)
(* The agent audit file and its hash chain: AuditStore.Append of several   *)
(* processes over one file, under the path lock of PathLock, and the       *)
(* verifier of `futrixdata-cli audit verify`.                              *)
(* internal/agentaudit/audit_store.go, internal/agentaudit/hash_chain.go,  *)
(* internal/securefile/securefile.go (ReadFile, WriteFile).                *)
(*                                                                         *)
(* A hash is the tuple of what it digests: equal hashes, equal contents.   *)
(* The append re-reads and rewrites the whole file, in two steps on disk   *)
(* (truncate, then write), between which a process can die.                *)
(***************************************************************************)
EXTENDS PathLock, Naturals, Sequences

CONSTANTS
    Entries,    \* audit entries, each appended at most once
    LegacyRows  \* entries an older build wrote before there was a chain

(* No append is of an entry that an older build wrote.                     *)
ASSUME AuditConstants ==
    /\ LegacyRows \in Seq(STRING)
    /\ \A i \in 1..Len(LegacyRows) : LegacyRows[i] \notin Entries

VARIABLES
    rows,    \* the rows on disk
    torn,    \* what is on disk is not a whole file
    step,    \* where the append of each process is
    entry,   \* the entry it appends
    buf,     \* the file it read, with its row added
    used,    \* the entries some append was called with
    acked,   \* history: the entries whose append returned nil
    damaged  \* history: a write was cut short

auditVars == <<rows, torn, step, entry, buf, used, acked, damaged>>
vars == <<lockVars, auditVars>>

(***************************************************************************)
(* hash_chain.go.                                                          *)
(***************************************************************************)
Genesis == <<>>

PayloadHash(e) == <<"payload", e>>

ChainHash(seq, prev, payload) == <<seq, prev, payload>>

(* A row of an older build has none of the five chain fields.              *)
Legacy(e) == [chained |-> FALSE, entry |-> e]

Chained(e, seq, prev) ==
    [chained |-> TRUE, entry |-> e, seq |-> seq, prev |-> prev, payload |-> PayloadHash(e),
     chain |-> ChainHash(seq, prev, PayloadHash(e))]

(* The hash the row after position i must carry as prev_hash.              *)
ChainHead(file, i) == IF i > 0 /\ file[i].chained THEN file[i].chain ELSE Genesis

\* Mutant: the payload hash is compared with itself.
VerifiesChainOnly(file) ==
    \A i \in 1..Len(file) :
        /\ ~file[i].chained => \A j \in 1..i : ~file[j].chained
        /\ file[i].chained =>
             /\ file[i].seq = i
             /\ file[i].prev = ChainHead(file, i - 1)
             /\ file[i].chain = ChainHash(i, file[i].prev, file[i].payload)

(* verifyAuditData.                                                        *)
Verifies(file) ==
    \A i \in 1..Len(file) :
        /\ ~file[i].chained => \A j \in 1..i : ~file[j].chained
        /\ file[i].chained =>
             /\ file[i].seq = i
             /\ file[i].prev = ChainHead(file, i - 1)
             /\ file[i].payload = PayloadHash(file[i].entry)
             /\ file[i].chain = ChainHash(i, file[i].prev, file[i].payload)

\* Mutant: the sequence counts the chained rows only.
NextRowAfterChain(file, e) ==
    Chained(e, Len(SelectSeq(file, LAMBDA r : r.chained)) + 1, ChainHead(file, Len(file)))

\* Mutant: the new row links to what the last row links to.
NextRowCopiesPrev(file, e) ==
    Chained(e, Len(file) + 1, IF file # <<>> /\ file[Len(file)].chained THEN file[Len(file)].prev ELSE Genesis)

(* addHashChain over the state scanAuditChainForAppend returned.           *)
NextRow(file, e) == Chained(e, Len(file) + 1, ChainHead(file, Len(file)))

EntriesOf(file) == [i \in 1..Len(file) |-> file[i].entry]

LegacyFile == [i \in 1..Len(LegacyRows) |-> Legacy(LegacyRows[i])]

Steps == {"idle", "lock", "read", "write", "writing", "written"}

TypeOK ==
    /\ LockTypeOK
    /\ torn \in BOOLEAN
    /\ step \in [Procs -> Steps]
    /\ entry \in [Procs -> Entries \cup {Nobody}]
    /\ used \in SUBSET Entries
    /\ acked \in SUBSET used
    /\ damaged \in BOOLEAN
    /\ \A p \in Procs : /\ step[p] \in {"read", "write", "writing", "written"} <=> at[p] = "in"
                        /\ step[p] = "lock" <=> at[p] \in {"try", "clear"}
                        /\ step[p] # "idle" => entry[p] \in used

Init ==
    /\ LockInit
    /\ rows = LegacyFile
    /\ torn = FALSE
    /\ step = [p \in Procs |-> "idle"]
    /\ entry = [p \in Procs |-> Nobody]
    /\ buf = [p \in Procs |-> <<>>]
    /\ used = {}
    /\ acked = {}
    /\ damaged = FALSE

(***************************************************************************)
(* AuditStore.Append.  The store's own mutex is inside the path lock's     *)
(* exclusion: a process runs one append at a time.                         *)
(***************************************************************************)
BeginAppend(p, e) ==
    /\ step[p] = "idle"
    /\ e \notin used
    /\ Enter(p)
    /\ step' = [step EXCEPT ![p] = "lock"]
    /\ entry' = [entry EXCEPT ![p] = e]
    /\ used' = used \cup {e}
    /\ UNCHANGED <<rows, torn, buf, acked, damaged>>

WaitForLock(p) ==
    /\ step[p] = "lock"
    /\ SeeOld(p) \/ Clear(p)
    /\ UNCHANGED auditVars

LockTimesOut(p) ==
    /\ step[p] = "lock"
    /\ TimeOut(p)
    /\ step' = [step EXCEPT ![p] = "idle"]
    /\ UNCHANGED <<rows, torn, entry, buf, used, acked, damaged>>

Locked(p) ==
    /\ step[p] = "lock"
    /\ Take(p)
    /\ step' = [step EXCEPT ![p] = "read"]
    /\ UNCHANGED <<rows, torn, entry, buf, used, acked, damaged>>

\* Mutant: the error return leaves the lock taken.
RefuseKeepsLock(p) ==
    /\ step[p] = "read"
    /\ torn \/ ~Verifies(rows)
    /\ step' = [step EXCEPT ![p] = "idle"]
    /\ UNCHANGED <<lockVars, rows, torn, entry, buf, used, acked, damaged>>

(* A file that cannot be read, or whose chain does not verify, is refused. *)
Refuse(p) ==
    /\ step[p] = "read"
    /\ torn \/ ~Verifies(rows)
    /\ Release(p)
    /\ step' = [step EXCEPT ![p] = "idle"]
    /\ UNCHANGED <<rows, torn, entry, buf, used, acked, damaged>>

\* Mutant: an unreadable file is taken for an empty one.
ReadsTornAsEmpty(p) ==
    /\ step[p] = "read"
    /\ buf' = [buf EXCEPT ![p] = IF torn THEN <<NextRow(<<>>, entry[p])>> ELSE Append(rows, NextRow(rows, entry[p]))]
    /\ torn' = FALSE
    /\ step' = [step EXCEPT ![p] = "write"]
    /\ UNCHANGED <<lockVars, rows, entry, used, acked, damaged>>

ReadChain(p) ==
    /\ step[p] = "read"
    /\ ~torn /\ Verifies(rows)
    /\ buf' = [buf EXCEPT ![p] = Append(rows, NextRow(rows, entry[p]))]
    /\ step' = [step EXCEPT ![p] = "write"]
    /\ UNCHANGED <<lockVars, rows, torn, entry, used, acked, damaged>>

(* No key, no memory or no permission: WriteFile fails before it opens.    *)
CannotWrite(p) ==
    /\ step[p] = "write"
    /\ Release(p)
    /\ step' = [step EXCEPT ![p] = "idle"]
    /\ UNCHANGED <<rows, torn, entry, buf, used, acked, damaged>>

(* os.WriteFile: open with O_TRUNC, then write.                            *)
Truncate(p) ==
    /\ step[p] = "write"
    /\ rows' = <<>>
    /\ torn' = FALSE
    /\ step' = [step EXCEPT ![p] = "writing"]
    /\ UNCHANGED <<lockVars, entry, buf, used, acked, damaged>>

(* Over a file another process has written meanwhile, the end of the       *)
(* longer of the two may be left behind.                                   *)
WriteRows(p) ==
    /\ step[p] = "writing"
    /\ rows' = buf[p]
    /\ torn' \in IF rows = <<>> /\ ~torn THEN {FALSE} ELSE BOOLEAN
    /\ step' = [step EXCEPT ![p] = "written"]
    /\ UNCHANGED <<lockVars, entry, buf, used, acked, damaged>>

(* What is on disk when a write stops short: some rows of a plain file,    *)
(* perhaps cut inside a row.  An encrypted file, one AES-GCM envelope, is  *)
(* the case of no rows: empty, or not to be decrypted.                     *)
PartlyWritten(p) ==
    /\ \E n \in 0..Len(buf[p]) : rows' = SubSeq(buf[p], 1, n)
    /\ torn' \in BOOLEAN
    /\ damaged' = TRUE

WriteFails(p) ==
    /\ step[p] = "writing"
    /\ PartlyWritten(p)
    /\ Release(p)
    /\ step' = [step EXCEPT ![p] = "idle"]
    /\ UNCHANGED <<entry, buf, used, acked>>

EndAppend(p) ==
    /\ step[p] = "written"
    /\ Release(p)
    /\ acked' = acked \cup {entry[p]}
    /\ step' = [step EXCEPT ![p] = "idle"]
    /\ UNCHANGED <<rows, torn, entry, buf, used, damaged>>

ProcessDies(p) ==
    /\ Die(p)
    /\ step' = [step EXCEPT ![p] = "idle"]
    /\ IF step[p] = "writing" THEN PartlyWritten(p) ELSE UNCHANGED <<rows, torn, damaged>>
    /\ UNCHANGED <<entry, buf, used, acked>>

ProcessRestarts(p) ==
    /\ Restart(p)
    /\ UNCHANGED auditVars

LockFileAges ==
    /\ LockAges
    /\ UNCHANGED auditVars

Holding(p) ==
    \/ Refuse(p) \/ ReadChain(p) \/ CannotWrite(p) \/ Truncate(p)
    \/ WriteRows(p) \/ WriteFails(p) \/ EndAppend(p)

AppendStep(p) ==
    \/ \E e \in Entries : BeginAppend(p, e)
    \/ WaitForLock(p) \/ LockTimesOut(p) \/ Locked(p) \/ Holding(p)
    \/ ProcessDies(p) \/ ProcessRestarts(p)

Next == LockFileAges \/ \E p \in Procs : AppendStep(p)

(* A waiter retries every ten milliseconds, a holder goes on to its end;   *)
(* nothing makes a process append, die or restart.                         *)
Fairness ==
    \A p \in Procs : WF_vars(WaitForLock(p) \/ Locked(p)) /\ WF_vars(Holding(p))

Spec == Init /\ [][Next]_vars
FairSpec == Spec /\ Fairness

(***************************************************************************)
(* Properties.                                                             *)
(***************************************************************************)
(* No append, crash or failed write leaves a readable file that the        *)
(* program's own verifier rejects: the chain never forks, skips or repeats *)
(* a sequence number (Append, scanAuditChainForAppend).                    *)
ChainVerifies == ~torn => Verifies(rows)

Writing == {p \in Procs : step[p] = "writing"}

(* What the file holds, a write in progress counted as done.               *)
LogNow ==
    IF Writing # {} THEN EntriesOf(buf[CHOOSE p \in Writing : TRUE])
    ELSE IF torn THEN <<>> ELSE EntriesOf(rows)

(* The trail only grows at its end, or is cut to a prefix by a write that  *)
(* stopped short: entries are never reordered, repeated or overwritten,    *)
(* whichever processes append (Append's rewrite under WithPathLock).       *)
Log == INSTANCE AppendOnlyLog WITH log <- LogNow, Initial <- LegacyRows
LogSpec == Log!Spec

(* An entry whose append returned nil is in the file, once, as long as no  *)
(* write stopped short and the lock excludes (Append returns nil after     *)
(* WriteFile did).                                                         *)
AcknowledgedKept ==
    ~damaged /\ ~(Portable /\ killed) =>
        \A e \in acked : \E i \in 1..Len(LogNow) :
            \A j \in 1..Len(LogNow) : LogNow[j] = e <=> j = i

(* A verified file with one chained row altered, one row before a chained  *)
(* one deleted or inserted, or a chained row swapped with the one before.  *)
(* (Legacy rows may be altered or swapped among themselves: no hash covers *)
(* them, only their number is fixed by the sequence of the chain.)         *)
Altered(file, i, e) ==
    [file EXCEPT ![i] = [chained |-> TRUE, entry |-> e, seq |-> file[i].seq, prev |-> file[i].prev,
                         payload |-> file[i].payload, chain |-> file[i].chain]]
Deleted(file, i) == [j \in 1..(Len(file) - 1) |-> IF j < i THEN file[j] ELSE file[j + 1]]
Inserted(file, i, r) == [j \in 1..(Len(file) + 1) |-> IF j < i THEN file[j] ELSE IF j = i THEN r ELSE file[j - 1]]
Swapped(file, i) == [file EXCEPT ![i] = file[i + 1], ![i + 1] = file[i]]

(* What `audit verify` promises (TestAuditStoreVerifyDetects...): each of  *)
(* those is found, in every file the program can have written.             *)
TamperDetected ==
    ~torn =>
      \A i \in 1..Len(rows), e \in Entries : rows[i].chained =>
          /\ rows[i].entry # e => ~Verifies(Altered(rows, i, e))
          /\ i > 1 => ~Verifies(Swapped(rows, i - 1))
          /\ \A j \in 1..(i - 1) : ~Verifies(Deleted(rows, j))
          /\ \A j \in 1..i : ~Verifies(Inserted(rows, j, Legacy(e)))

(* The chain is worth having: the file the program wrote passes, and what  *)
(* anyone made of it since does not (VerifyChain).                         *)
ChainSound == ChainVerifies /\ TamperDetected

================================================================================
