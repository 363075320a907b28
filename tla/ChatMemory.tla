------------------------------ MODULE ChatMemory ------------------------------
(***************************************************************************)
(* The chat's long-term memory: patterns in MEMORY.md, the ones that no    *)
(* longer fit in archive files, an index of the archives.  A save merges a *)
(* pattern under the store's mutex and writes the files one after another; *)
(* threads take a snapshot of the memory without the mutex.                *)
(* Source: src/internal/aichat/memory_store.go.                            *)
(***************************************************************************)
EXTENDS Naturals, Sequences, SequencesExt, FiniteSets

CONSTANTS
    Problems,    \* what patterns are about: normalizePatternKey of the problem
    Sizes,       \* tokens a rendered pattern may take
    Budget,      \* tokens of patterns that fit the budget
    MaxSaves     \* bound

ASSUME MemoryAssumption == Sizes \subseteq Nat /\ Budget \in Nat /\ MaxSaves \in Nat

VARIABLES
    md,          \* MEMORY.md: patterns; <<>> also when a write was cut short
    archive,     \* the archive files: sequences of problems
    index,       \* memory-index.json: patterns archived, each with its file
    saving,      \* the save under way
    saves,       \* saves so far
    snap,        \* a thread's snapshot: sizes of the patterns read, then of the text
    known,       \* history: problems saved and acknowledged
    dropped,     \* history: problems replaced on a hint and not saved since
    hinted,      \* history: problems that replaced another or were replaced
    whole        \* history: no write was ever cut short or failed
mvars == <<md, archive, index, saving, saves, snap, known, dropped, hinted, whole>>

NoSave == [pc |-> "idle", keep |-> <<>>, arch |-> <<>>, problem |-> "none"]
ProblemsOf(ps) == {ps[i].problem : i \in DOMAIN ps}

(* The text holds no ids: reading it gives each pattern one made of its
   problem.  A pattern not read from the text has one of its own. *)
ParsedId(p) == <<p, 0>>
FreshId(p) == <<p, saves + 1>>
MemoryPattern(p, size) ==
    [id |-> FreshId(p), problem |-> p, size |-> size, uses |-> 1, at |-> saves + 1]
FromText(ps) == [i \in DOMAIN ps |-> [ps[i] EXCEPT !.id = ParsedId(ps[i].problem)]]

(* mergeMemoryPattern: the first pattern about the problem, or about a hinted
   one, is replaced; what replaces it takes over its id and its count. *)
Hit(ps, p, hints) == {i \in DOMAIN ps : ps[i].problem \in {p} \cup hints}
FirstOf(is) == CHOOSE i \in is : \A j \in is : i <= j
Replaced(ps, i, new) == [ps EXCEPT ![i] = [new EXCEPT !.id = ps[i].id, !.uses = ps[i].uses + 1]]
\* Mutant: an empty key matches every pattern.
MergeIntoFirst(ps, new, hints) == IF ps = <<>> THEN <<new>> ELSE Replaced(ps, 1, new)
MergePattern(ps, new, hints) ==
    IF Hit(ps, new.problem, hints) = {} THEN Append(ps, new)
    ELSE Replaced(ps, FirstOf(Hit(ps, new.problem, hints)), new)

\* Every list of patterns a save can hold, their sizes and what these add up to.
PatternIds == Problems \X Nat
Patterns == [id : PatternIds, problem : Problems, size : Nat, uses : Nat, at : Nat]
PatternSeqs == Seq(Patterns)
SizesOf(ps) == [i \in DOMAIN ps |-> ps[i].size]
Tokens[ns \in Seq(Nat)] == IF ns = <<>> THEN 0 ELSE Head(ns) + Tokens[Tail(ns)]

(* compactKnownPatterns: while they take more than the budget and are more
   than one, the least used goes, the least recently used of those first; of
   several with its id the first in the list. *)
Colder(a, b) == a.uses < b.uses \/ (a.uses = b.uses /\ a.at <= b.at)
Coldest(ps) == CHOOSE i \in DOMAIN ps : \A j \in DOMAIN ps : Colder(ps[i], ps[j])
ToArchive(ps) == FirstOf({i \in DOMAIN ps : ps[i].id = ps[Coldest(ps)].id})
\* Mutant: one token more than the budget is let through.
FitsLoosely(ps) == Len(ps) <= 1 \/ Tokens[SizesOf(ps)] <= Budget + 1
Fits(ps) == Len(ps) <= 1 \/ Tokens[SizesOf(ps)] <= Budget
Compact[ps \in PatternSeqs] ==
    IF Fits(ps) THEN [keep |-> ps, arch |-> <<>>]
    ELSE LET i == ToArchive(ps)
             rest == Compact[RemoveAt(ps, i)]
         IN [keep |-> rest.keep, arch |-> <<ps[i]>> \o rest.arch]

-----------------------------------------------------------------------------
(* SavePattern takes the mutex, loads, merges and compacts. *)
SavePattern(p, size, hints) ==
    /\ saving.pc = "idle" /\ saves < MaxSaves
    /\ saves' = saves + 1
    /\ LET hit == Hit(md, p, hints)
           gone == (IF hit = {} THEN {} ELSE {md[FirstOf(hit)].problem}) \ {p}
           done == Compact[MergePattern(md, MemoryPattern(p, size), hints)]
       IN /\ saving' = [pc |-> "md", keep |-> done.keep, arch |-> done.arch, problem |-> p]
          /\ dropped' = (dropped \ {p}) \cup gone
          /\ hinted' = hinted \cup (IF gone = {} THEN {} ELSE gone \cup {p})
    /\ UNCHANGED <<md, archive, index, snap, known, whole>>

(* persist: MEMORY.md is truncated, then written; then the archive of what
   left it; then the index. *)
TruncateText ==
    /\ saving.pc = "md"
    /\ md' = <<>>
    /\ saving' = [saving EXCEPT !.pc = "text"]
    /\ UNCHANGED <<archive, index, saves, snap, known, dropped, hinted, whole>>

WriteText ==
    /\ saving.pc = "text"
    /\ md' = FromText(saving.keep)
    /\ saving' = [saving EXCEPT !.pc = IF saving.arch = <<>> THEN "index" ELSE "archive"]
    /\ UNCHANGED <<archive, index, saves, snap, known, dropped, hinted, whole>>

WriteArchive ==
    /\ saving.pc = "archive"
    /\ archive' = Append(archive, [i \in DOMAIN saving.arch |-> saving.arch[i].problem])
    /\ saving' = [saving EXCEPT !.pc = "index"]
    /\ UNCHANGED <<md, index, saves, snap, known, dropped, hinted, whole>>

MemoryArchiveRef(x, file) == [id |-> x.id, problem |-> x.problem, file |-> file]
\* Mutant: the reference names the first archive file.
NewRefsFirstFile == {MemoryArchiveRef(saving.arch[i], 1) : i \in DOMAIN saving.arch}
\* Mutant: it names the file after the one written.
NewRefsNextFile == {MemoryArchiveRef(saving.arch[i], Len(archive) + 1) : i \in DOMAIN saving.arch}
(* A pattern whose id is already in the index gets no reference. *)
NewRefs ==
    {MemoryArchiveRef(saving.arch[i], Len(archive)) :
        i \in {j \in DOMAIN saving.arch : \A r \in index : r.id # saving.arch[j].id}}
WriteIndex ==
    /\ saving.pc = "index"
    /\ index' = index \cup NewRefs
    /\ known' = known \cup {saving.problem}
    /\ saving' = NoSave
    /\ UNCHANGED <<md, archive, saves, snap, dropped, hinted, whole>>

(* A write fails, or the process ends: what was written stays. *)
SaveCut ==
    /\ saving.pc \in {"text", "archive", "index"}
    /\ whole' = FALSE
    /\ saving' = NoSave
    /\ UNCHANGED <<md, archive, index, saves, snap, known, dropped, hinted>>

-----------------------------------------------------------------------------
(* BuildThreadSnapshot, without the mutex: the patterns, then the text (or,
   when it cannot be read any more, the patterns rendered again).  A thread
   pins what it got, unless that was nothing. *)
SnapshotPatterns ==
    /\ snap.pc = "none"
    /\ snap' = IF md = <<>> THEN snap ELSE [pc |-> "text", patterns |-> SizesOf(md), text |-> <<>>]
    /\ UNCHANGED <<md, archive, index, saving, saves, known, dropped, hinted, whole>>

SnapshotText ==
    /\ snap.pc = "text"
    /\ snap' = [snap EXCEPT !.pc = "pinned", !.text = IF md = <<>> THEN snap.patterns ELSE SizesOf(md)]
    /\ UNCHANGED <<md, archive, index, saving, saves, known, dropped, hinted, whole>>

-----------------------------------------------------------------------------
MemoryInit ==
    /\ md = <<>> /\ archive = <<>> /\ index = {} /\ saving = NoSave /\ saves = 0
    /\ snap = [pc |-> "none", patterns |-> <<>>, text |-> <<>>]
    /\ known = {} /\ dropped = {} /\ hinted = {} /\ whole = TRUE

MemoryNext ==
    \/ \E p \in Problems, size \in Sizes, hints \in {{}} \cup {{h} : h \in Problems} :
          SavePattern(p, size, hints)
    \/ TruncateText \/ WriteText \/ WriteArchive \/ WriteIndex \/ SaveCut
    \/ SnapshotPatterns \/ SnapshotText

MemorySpec == MemoryInit /\ [][MemoryNext]_mvars

-----------------------------------------------------------------------------
MemoryTypeOK ==
    /\ ProblemsOf(md) \subseteq Problems /\ known \subseteq Problems
    /\ saving.pc \in {"idle", "md", "text", "archive", "index"}
    /\ \A r \in index : r.problem \in Problems /\ r.file \in 1 .. Len(archive)
    /\ snap.pc \in {"none", "text", "pinned"}

(* As long as every save ran to its end, a pattern that was acknowledged is
   in the memory or in some archive file, unless a hint replaced it since;
   and the index names an archive that holds it, unless a hint ever put it in
   another's place or another in its own (persist, mergeMemoryPattern). *)
Archived == {r.problem : r \in index}
InArchives == UNION {ToSet(archive[f]) : f \in DOMAIN archive}
PatternsKept ==
    whole /\ saving.pc = "idle" =>
        /\ known \subseteq ProblemsOf(md) \cup InArchives \cup dropped
        /\ known \subseteq ProblemsOf(md) \cup Archived \cup hinted

(* Whatever was cut short, the index never names a file that does not hold
   the pattern. *)
IndexResolves == \A r \in index : r.problem \in ToSet(archive[r.file])

(* What a thread is told of the memory is within the token budget or is a
   single pattern, whatever writes its reading fell between. *)
SnapshotFits ==
    \A told \in {snap.text, snap.patterns} : Len(told) <= 1 \/ Tokens[told] <= Budget

(* What the long-term memory promises a user who let it save (SavePattern,
   archive, snapshot): the types and the three above together. *)
MemorySafe == MemoryTypeOK /\ PatternsKept /\ IndexResolves /\ SnapshotFits
=============================================================================
