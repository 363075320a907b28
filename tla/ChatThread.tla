------------------------------ MODULE ChatThread ------------------------------
(***************************************************************************)
(* The event file of one chat thread and its summaries.  A turn reads both *)
(* at its start, runs, and, when the events had grown too many, replaces   *)
(* the file by the recent ones and adds a summary of the others.  Turns    *)
(* and answers to approvals append while that goes on; the store's mutex   *)
(* covers one write at a time.                                             *)
(* Source: src/internal/aichat thread_context.go, thread_store.go,         *)
(* thread_compactor.go, thread_working_set.go, thread_runtime.go.          *)
(***************************************************************************)
EXTENDS Naturals, Sequences, SequencesExt

CONSTANTS
    ThreadTurns,   \* turns of the thread; they may overlap
    Recent,        \* MaxRecentEvents
    Limit,         \* MaxEventsBeforeCompact
    MaxBlocks,     \* MaxThreadSummaries
    MaxEvents      \* bound: events ever written

ASSUME ThreadAssumption ==
    /\ Recent \in Nat \ {0} /\ Limit \in Nat /\ Limit > Recent
    /\ MaxBlocks \in Nat \ {0} /\ MaxEvents \in Nat

VARIABLES
    events,        \* events.jsonl: event numbers
    blocks,        \* the summaries: sets of events
    cut,          \* events.jsonl: "no", "writing" (truncated, not yet rewritten),
                   \* or "broken" (a crash left half of an encrypted file)
    written,       \* events ever appended
    seeded,        \* the thread has a memory snapshot
    turn,          \* the turns
    excused,       \* history: events whose loss the design accepts, see EventsKept
    calm,          \* history: no crash, failed read or write, or overlap of turns so far
    apart          \* history: no overlap of turns and no failed write so far
tvars == <<events, blocks, cut, written, seeded, turn, excused, calm, apart>>

Fresh == [pc |-> "idle", events |-> <<>>, blocks |-> <<>>, kept |-> <<>>, compacted |-> FALSE, left |-> 0]
Active(t) == turn[t].pc \notin {"idle", "over"}
ThreadGo(t, pc) == turn' = [turn EXCEPT ![t].pc = pc]

(* compactThreadEvents, when it compacts. *)
TooMany(es) == Len(es) > Limit
Cutoff(es) == Len(es) - Recent
Retained(es) == IF TooMany(es) THEN SubSeq(es, Cutoff(es) + 1, Len(es)) ELSE es
\* Mutant: the first event that stays is summarised too.
SummaryTooLong(es) == ToSet(SubSeq(es, 1, Cutoff(es) + 1))
Summary(es) == ToSet(SubSeq(es, 1, Cutoff(es)))

\* Mutant: the summaries are not limited.
MergeAllBlocks(old, new) == IF Contains(old, new) THEN old ELSE Append(old, new)
(* mergeThreadSummaryBlocks: a summary of the same events is the same block;
   the oldest blocks go when there are too many. *)
MergeBlocks(old, new) ==
    LET all == IF Contains(old, new) THEN old ELSE Append(old, new) IN
    SubSeq(all, IF Len(all) > MaxBlocks THEN Len(all) - MaxBlocks + 1 ELSE 1, Len(all))

(* eventsAppendedAfterWorkingSetLoad *)
\* Mutant: what was appended since is forgotten.
AppendedForgotten(loaded) == <<>>
\* Mutant: the loaded events are not left out.
AppendedAll(loaded) == events
AppendedSince(loaded) ==
    LET After[n \in 0 .. Len(events)] ==
          IF n = 0 THEN <<>>
          ELSE IF events[n] \in ToSet(loaded) THEN After[n - 1] ELSE Append(After[n - 1], events[n])
    IN After[Len(events)]

(* AppendEvent: one line, under the store's mutex; the file is read, and
   written back whole, so a broken one refuses it (the error is logged).  An
   event that arrives while a turn has reread the file and not yet replaced
   it is overwritten. *)
Replacing == \E t \in ThreadTurns : turn[t].pc \in {"replace", "rewrite"}
AppendEvent ==
    /\ cut # "writing"
    /\ IF cut = "broken" THEN UNCHANGED <<written, events, excused>>
       ELSE /\ written < MaxEvents
            /\ written' = written + 1
            /\ events' = Append(events, written + 1)
            /\ excused' = IF Replacing THEN excused \cup {written + 1} ELSE excused

-----------------------------------------------------------------------------
(* loadThreadWorkingSet: the events (none if the file cannot be read, or is
   being rewritten), then the summaries, then the thread's memory snapshot,
   whose creation is itself an event. *)
Load(t, readable) ==
    /\ turn[t].pc = "idle"
    /\ turn' = [turn EXCEPT ![t].pc = "blocks", ![t].events = IF readable /\ cut = "no" THEN events ELSE <<>>]
    /\ calm' = (calm /\ readable /\ \A u \in ThreadTurns : ~Active(u))
    /\ apart' = (apart /\ \A u \in ThreadTurns : ~Active(u))
    /\ UNCHANGED <<events, blocks, cut, written, seeded, excused>>

LoadBlocks(t) ==
    /\ turn[t].pc = "blocks"
    /\ turn' = [turn EXCEPT ![t].pc = "seed", ![t].blocks = blocks, ![t].compacted = TooMany(turn[t].events),
                            ![t].kept = Retained(turn[t].events)]
    /\ UNCHANGED <<events, blocks, cut, written, seeded, excused, calm, apart>>

Seed(t) ==
    /\ turn[t].pc = "seed" /\ ~seeded
    /\ seeded' = TRUE /\ AppendEvent
    /\ ThreadGo(t, "run")
    /\ UNCHANGED <<blocks, cut, calm, apart>>

NoSeed(t) ==
    /\ turn[t].pc = "seed"
    /\ ThreadGo(t, "run")
    /\ UNCHANGED <<events, blocks, cut, written, seeded, excused, calm, apart>>

(* The turn runs.  Its tools may leave events; if it fails, nothing else is
   persisted; if not, its message and its answer will be. *)
RunEvent(t) ==
    /\ turn[t].pc = "run" /\ AppendEvent
    /\ UNCHANGED <<blocks, cut, seeded, turn, calm, apart>>

RunFails(t) ==
    /\ turn[t].pc = "run"
    /\ ThreadGo(t, "over")
    /\ UNCHANGED <<events, blocks, cut, written, seeded, excused, calm, apart>>

RunSucceeds(t) ==
    /\ turn[t].pc = "run"
    /\ turn' = [turn EXCEPT ![t].pc = IF turn[t].compacted THEN "merge" ELSE "save", ![t].left = 2]
    /\ UNCHANGED <<events, blocks, cut, written, seeded, excused, calm, apart>>

(* persistThreadWorkingSet.  What was appended since the load is kept too,
   unless it cannot be read. *)
Merge(t, readable) ==
    /\ turn[t].pc = "merge"
    /\ turn' = [turn EXCEPT ![t].pc = "replace", ![t].kept = IF readable /\ cut = "no" THEN @ \o AppendedSince(turn[t].events) ELSE @]
    /\ calm' = (calm /\ readable)
    /\ UNCHANGED <<events, blocks, cut, written, seeded, excused, apart>>

(* SaveEvents: the file is truncated, then written. *)
TruncateEvents(t) ==
    /\ turn[t].pc = "replace" /\ cut # "writing"
    /\ cut' = "writing" /\ events' = <<>>
    /\ ThreadGo(t, "rewrite")
    /\ UNCHANGED <<blocks, written, seeded, excused, calm, apart>>

Rewrite(t) ==
    /\ turn[t].pc = "rewrite"
    /\ cut' = "no" /\ events' = turn[t].kept
    /\ ThreadGo(t, "save")
    /\ UNCHANGED <<blocks, written, seeded, excused, calm, apart>>

(* The write fails: logged, and the summaries are saved all the same. *)
ReplaceFails(t) ==
    /\ turn[t].pc = "replace" /\ cut # "writing"
    /\ calm' = FALSE /\ apart' = FALSE
    /\ ThreadGo(t, "save")
    /\ UNCHANGED <<events, blocks, cut, written, seeded, excused>>

(* SaveSummaryBlocks *)
SaveBlocks(t) ==
    /\ turn[t].pc = "save"
    /\ blocks' = IF turn[t].compacted THEN MergeBlocks(turn[t].blocks, Summary(turn[t].events))
                 ELSE IF turn[t].blocks = <<>> THEN blocks ELSE turn[t].blocks
    /\ excused' = excused \cup UNION (ToSet(turn[t].blocks) \ ToSet(blocks'))
    /\ ThreadGo(t, "tell")
    /\ UNCHANGED <<events, cut, written, seeded, calm, apart>>

(* The user's message, then the answer's events. *)
Tell(t) ==
    /\ turn[t].pc = "tell" /\ AppendEvent
    /\ turn' = [turn EXCEPT ![t].left = @ - 1, ![t].pc = IF turn[t].left = 1 THEN "over" ELSE "tell"]
    /\ UNCHANGED <<blocks, cut, seeded, calm, apart>>

(* The next turn of the window reuses the slot. *)
Again(t) ==
    /\ turn[t].pc = "over"
    /\ turn' = [turn EXCEPT ![t] = Fresh]
    /\ UNCHANGED <<events, blocks, cut, written, seeded, excused, calm, apart>>

(* An answer to an approval: its decision, or the events of its response. *)
AnswerRecorded ==
    /\ AppendEvent
    /\ UNCHANGED <<blocks, cut, seeded, turn, calm, apart>>

(* A crash; one in the middle of a write leaves an empty file, or half of one
   that cannot be decrypted. *)
Crash ==
    /\ turn' = [t \in ThreadTurns |-> Fresh]
    /\ \/ cut # "writing" /\ UNCHANGED <<cut, events>>
          /\ calm' = (calm /\ \A t \in ThreadTurns : ~Active(t))
       \/ cut' \in {"no", "broken"} /\ events' = <<>> /\ calm' = FALSE
    /\ UNCHANGED <<blocks, written, seeded, excused, apart>>

-----------------------------------------------------------------------------
ThreadInit ==
    /\ events = <<>> /\ blocks = <<>> /\ cut = "no" /\ written = 0 /\ seeded \in BOOLEAN
    /\ turn = [t \in ThreadTurns |-> Fresh]
    /\ excused = {} /\ calm = TRUE /\ apart = TRUE

ThreadStep(t) ==
    \/ \E readable \in BOOLEAN : Load(t, readable) \/ Merge(t, readable)
    \/ LoadBlocks(t) \/ Seed(t) \/ NoSeed(t) \/ RunEvent(t) \/ RunFails(t) \/ RunSucceeds(t)
    \/ TruncateEvents(t) \/ Rewrite(t) \/ ReplaceFails(t) \/ SaveBlocks(t) \/ Tell(t) \/ Again(t)

ThreadNext == AnswerRecorded \/ Crash \/ \E t \in ThreadTurns : ThreadStep(t)

ThreadSpec == ThreadInit /\ [][ThreadNext]_tvars

-----------------------------------------------------------------------------
ThreadTypeOK ==
    /\ events \in Seq(1 .. written) /\ written \in 0 .. MaxEvents
    /\ Len(blocks) <= MaxBlocks /\ \A i \in DOMAIN blocks : blocks[i] \subseteq 1 .. written
    /\ cut \in {"no", "writing", "broken"} /\ seeded \in BOOLEAN /\ calm \in BOOLEAN /\ apart \in BOOLEAN
    /\ \A t \in ThreadTurns :
         /\ turn[t].pc \in {"idle", "blocks", "seed", "run", "merge", "replace", "rewrite", "save", "tell", "over"}
         /\ turn[t].events \in Seq(1 .. written) /\ turn[t].kept \in Seq(1 .. written)

(* While turns follow one another and nothing fails, an event is in the file,
   in a summary, or on its way into one; except what was appended between
   the reread and the replacement, and what left with the oldest summary. *)
OnItsWay(t) == IF turn[t].pc \in {"rewrite", "save"} /\ turn[t].compacted
                 THEN Summary(turn[t].events) \cup (IF cut = "writing" THEN ToSet(turn[t].kept) ELSE {}) ELSE {}
EventsKept ==
    calm => (1 .. written) \ excused
              \subseteq ToSet(events) \cup (UNION ToSet(blocks)) \cup (UNION {OnItsWay(t) : t \in ThreadTurns})

(* Even when turns overlap, fail or crash, the file never holds an event
   twice; while they do not overlap it stays in the order of the events. *)
FileInOrder ==
    \A i, j \in DOMAIN events :
      i < j => events[i] # events[j] /\ (apart => events[i] < events[j])

(* While turns do not overlap, no event is told twice: the file is replaced
   before the summary is saved, so a crash between the two loses events but
   never repeats them. *)
ToldOnce ==
    apart => /\ \A i, j \in DOMAIN blocks : i # j => blocks[i] \cap blocks[j] = {}
             /\ \A i \in DOMAIN blocks : blocks[i] \cap ToSet(events) = {}

(* What the thread remembers of a conversation (AppendEvent, CompactThread):
   the types and the three promises above together. *)
ThreadSafe == ThreadTypeOK /\ EventsKept /\ FileInOrder /\ ToldOnce
=============================================================================
