------------------------------- MODULE ChatLoop -------------------------------
(***************************************************************************)
(* One turn of the desktop chat: the model answers with text or with tool  *)
(* calls, the calls run together, their results go back to the model.      *)
(* Three recoveries stand between an answer and its calls: a loop of web   *)
(* searches is cut short, a statement on the page's datasource after much  *)
(* discovery is replanned, a statement that already returned rows is not   *)
(* run again.  A statement that needs the user ends the run; the answer    *)
(* resumes it in a new runtime, with fresh counters.                       *)
(* Source: src/internal/aichat/runtime_eino.go.                            *)
(***************************************************************************)
EXTENDS Naturals, FiniteSets

CONSTANTS
    LoopStmts,       \* statements the model may ask for
    MaxSteps,        \* runtimeMaxSteps: model and tool steps of one run
    MaxRuns,         \* bound: the first run and its resumes
    Said             \* answers the model may give, as below

(* An answer: its calls, whether it also carries a message, and the focus
   intent it declares.  A call: its tool, the datasource it aims at (the
   page's, "focus", or another) and a statement; n tells equal calls apart. *)
Tools == {"web_search", "discover", "memory_save", "execute"}
Call == [tool : Tools, at : {"focus", "other"}, stmt : LoopStmts, n : 1 .. 2]
Answer == [calls : SUBSET Call, talks : BOOLEAN, intent : {"none", "prefer", "avoid"}]

ASSUME LoopAssumption ==
    /\ Said \subseteq Answer /\ \A a \in Said : IsFiniteSet(a.calls)
    /\ MaxSteps \in Nat /\ MaxRuns \in Nat \ {0}

VARIABLES
    phase,       \* "ask", "search", "replan", "dup", "tools", "waiting", "ended"
    said,        \* the answer being recovered or carried out
    todo,        \* calls of it that have not finished
    counting,    \* memory_save calls past their check of the counter
    memo,        \* what the messages show: searches, discovery and statement results
    working,     \* the working context: "none", or where discovery found the target
    intent,      \* the focus intent remembered for the turn
    run,         \* the runtime: its step, search streak, misses and saves
    runs,        \* runs of this turn so far
    silent,      \* history: consecutive rounds of first answers that only search
    saved        \* history: patterns this turn has saved
lvars == <<phase, said, todo, counting, memo, working, intent, run, runs, silent, saved>>

NoAnswer == [calls |-> {}, talks |-> TRUE, intent |-> "none"]
FreshRun == [step |-> 0, streak |-> 0, misses |-> 0, saves |-> 0]

Only(a, tool) == a.calls # {} /\ \A c \in a.calls : c.tool = tool
StmtsOf(a) == {c.stmt : c \in a.calls}

(* shouldForceWebSearchFinalization: a streak of silent answers that only
   search, once a search result is in the messages. *)
SearchesAgain(a) == ~a.talks /\ Only(a, "web_search") /\ memo.searched
Streak(a) == IF SearchesAgain(a) THEN run.streak + 1 ELSE 0

\* Mutant: one search too many.
ConvergesLate(a) == Streak(a) <= 2
Converges(a) == Streak(a) < 2

(* shouldForceDiscoveryReplanBeforeFocusExecute *)
NeedsReplan(a) ==
    /\ Only(a, "execute") /\ ~memo.executed /\ memo.looks >= 3
    /\ a.intent # "prefer" /\ working # "other"
    /\ \A c \in a.calls : c.at = "focus"

(* shouldBlockDuplicateExecuteStatement *)
Repeats(a) == Only(a, "execute") /\ StmtsOf(a) \subseteq memo.done

(* shouldReplanFocusExecute, asked by the tool itself. *)
FocusRefused(c) ==
    /\ c.at = "focus"
    /\ \/ intent = "avoid"
       \/ intent # "prefer" /\ (working = "other" \/ run.misses >= 1)

-----------------------------------------------------------------------------
\* Mutant: only tool steps are counted, and they are not.
NoStep == run.step
NextStep == run.step + 1
(* The model is asked (a step); a call error ends the run, and so does an
   answer that cannot be read, after one protocol repair. *)
Ask(a) ==
    /\ phase = "ask" /\ run.step < MaxSteps
    /\ said' = a
    /\ run' = [run EXCEPT !.step = NextStep]
    /\ phase' = "search"
    /\ UNCHANGED <<todo, counting, memo, working, intent, runs, silent, saved>>

AskFails ==
    /\ phase = "ask"
    /\ phase' = "ended"
    /\ UNCHANGED <<said, todo, counting, memo, working, intent, run, runs, silent, saved>>

(* At the second silent search in a row the model must answer; if it does
   not, a list of the links found is the answer. *)
SearchPass ==
    /\ phase = "search" /\ Converges(said)
    /\ run' = [run EXCEPT !.streak = Streak(said)]
    /\ silent' = IF ~said.talks /\ Only(said, "web_search") THEN silent + 1 ELSE 0
    /\ phase' = "replan"
    /\ UNCHANGED <<said, todo, counting, memo, working, intent, runs, saved>>

SearchForced ==
    /\ phase = "search" /\ ~Converges(said)
    /\ said' = NoAnswer
    /\ run' = [run EXCEPT !.streak = 0]
    /\ phase' = "replan"
    /\ UNCHANGED <<todo, counting, memo, working, intent, runs, silent, saved>>

(* The forced answer is accepted if it would not be forced again. *)
Replan(a) ==
    /\ phase = "replan"
    /\ said' = IF ~NeedsReplan(said) THEN said ELSE IF NeedsReplan(a) THEN NoAnswer ELSE a
    /\ phase' = "dup"
    /\ UNCHANGED <<todo, counting, memo, working, intent, run, runs, silent, saved>>

\* Mutant: the forced answer is taken as it is.
DedupTrusts(a) ==
    /\ phase = "dup"
    /\ said' = IF ~Repeats(said) THEN said ELSE a
    /\ phase' = "tools"
    /\ UNCHANGED <<todo, counting, memo, working, intent, run, runs, silent, saved>>
Dedup(a) ==
    /\ phase = "dup"
    /\ said' = IF ~Repeats(said) THEN said ELSE IF Repeats(a) THEN NoAnswer ELSE a
    /\ phase' = "tools"
    /\ UNCHANGED <<todo, counting, memo, working, intent, run, runs, silent, saved>>

(* An answer without calls is the turn's; its calls start together, and take
   a step of the run. *)
Final ==
    /\ phase = "tools" /\ todo = {} /\ said.calls = {}
    /\ phase' = "ended"
    /\ UNCHANGED <<said, todo, counting, memo, working, intent, run, runs, silent, saved>>

\* Mutant: calls may start after the last step.
LaunchLate ==
    /\ phase = "tools" /\ todo = {} /\ said.calls # {}
    /\ todo' = said.calls
    /\ run' = [run EXCEPT !.step = NextStep]
    /\ UNCHANGED <<phase, said, counting, memo, working, intent, runs, silent, saved>>
Launch ==
    /\ phase = "tools" /\ todo = {} /\ said.calls # {} /\ run.step < MaxSteps
    /\ todo' = said.calls
    /\ run' = [run EXCEPT !.step = NextStep]
    /\ UNCHANGED <<phase, said, counting, memo, working, intent, runs, silent, saved>>

(* The run is over its steps: graph execution fails. *)
TooLong ==
    /\ phase \in {"ask", "tools"} /\ todo = {} /\ run.step >= MaxSteps
    /\ phase = "tools" => said.calls # {}
    /\ phase' = "ended"
    /\ UNCHANGED <<said, todo, counting, memo, working, intent, run, runs, silent, saved>>

(* A call that returns its result to the model; with the last one the model
   is asked again. *)
CallDone(c) ==
    /\ todo' = todo \ {c}
    /\ intent' = IF said.intent = "none" THEN intent ELSE said.intent
    /\ phase' = IF todo = {c} THEN "ask" ELSE phase
    /\ said' = IF todo = {c} THEN NoAnswer ELSE said

WebSearch(c) ==
    /\ c \in todo /\ c.tool = "web_search"
    /\ memo' = [memo EXCEPT !.searched = TRUE]
    /\ CallDone(c)
    /\ UNCHANGED <<counting, working, run, runs, silent, saved>>

(* A discovery tool: its result counts; on the page's datasource an empty
   listing is a miss, and a hit clears the misses; one target found becomes
   the working context. *)
Failed == 3
Discover(c, hits) ==
    /\ c \in todo /\ c.tool = "discover"
    /\ memo' = [memo EXCEPT !.looks = IF @ < 3 THEN @ + 1 ELSE @]
    /\ run' = IF c.at = "focus" /\ hits # Failed
                THEN [run EXCEPT !.misses = IF hits = 0 THEN 1 ELSE 0] ELSE run
    /\ working' = IF hits = 1 THEN c.at ELSE working
    /\ CallDone(c)
    /\ UNCHANGED <<counting, runs, silent, saved>>

(* memory_save reads the counter, saves, and only then counts. *)
\* Mutant: the counter is not looked at.
AlwaysMaySave == TRUE
MaySave == run.saves = 0
SaveCheck(c) ==
    /\ c \in todo \ counting /\ c.tool = "memory_save" /\ MaySave
    /\ counting' = counting \cup {c}
    /\ UNCHANGED <<phase, said, todo, memo, working, intent, run, runs, silent, saved>>

SaveRefused(c) ==
    /\ c \in todo \ counting /\ c.tool = "memory_save" /\ ~MaySave
    /\ CallDone(c)
    /\ UNCHANGED <<counting, memo, working, run, runs, silent, saved>>

SaveDone(c) ==
    /\ c \in counting
    /\ counting' = counting \ {c}
    /\ run' = [run EXCEPT !.saves = @ + 1]
    /\ saved' = saved + 1
    /\ CallDone(c)
    /\ UNCHANGED <<memo, working, runs, silent>>

(* execute_statement: refused on the page's datasource, or failed: an error
   the model sees (and a statement result all the same). *)
ExecuteError(c) ==
    /\ c \in todo /\ c.tool = "execute"
    /\ memo' = [memo EXCEPT !.executed = TRUE]
    /\ CallDone(c)
    /\ UNCHANGED <<counting, working, run, runs, silent, saved>>

(* Run at once: its rows end the turn, whatever else the answer called. *)
ExecuteReturns(c) ==
    /\ c \in todo /\ c.tool = "execute" /\ ~FocusRefused(c)
    /\ working' = c.at
    /\ phase' = "ended"
    /\ UNCHANGED <<said, todo, counting, memo, intent, run, runs, silent, saved>>

(* It needs the user: the run stops, keeping its messages. *)
ExecuteAsks(c) ==
    /\ todo = {c} /\ c.tool = "execute" /\ ~FocusRefused(c) /\ runs < MaxRuns
    /\ phase' = "waiting"
    /\ UNCHANGED <<said, todo, counting, memo, working, intent, run, runs, silent, saved>>

(* The user approves: a new runtime, where the approved statement has run
   and its rows, or its failure, go back to the model. *)
Resume(c, ok) ==
    /\ phase = "waiting" /\ c \in todo
    /\ runs' = runs + 1
    /\ run' = [FreshRun EXCEPT !.step = 1]
    /\ memo' = [memo EXCEPT !.executed = TRUE, !.done = IF ok THEN @ \cup {c.stmt} ELSE @]
    /\ working' = c.at
    /\ todo' = {} /\ phase' = "ask" /\ said' = NoAnswer /\ silent' = 0
    /\ UNCHANGED <<counting, intent, saved>>

-----------------------------------------------------------------------------
LoopInit ==
    /\ phase = "ask" /\ said = NoAnswer /\ todo = {} /\ counting = {}
    /\ memo = [searched |-> FALSE, looks |-> 0, executed |-> FALSE, done |-> {}]
    /\ working = "none" /\ intent = "none"
    /\ run = FreshRun /\ runs = 1 /\ silent = 0 /\ saved = 0

(* What the run does by itself; Resume is the user's. *)
LoopStep ==
    \/ \E a \in Said : Ask(a) \/ Replan(a) \/ Dedup(a)
    \/ AskFails \/ SearchPass \/ SearchForced \/ Final \/ Launch \/ TooLong
    \/ /\ phase = "tools"
       /\ \E c \in todo :
            \/ WebSearch(c) \/ \E hits \in 0 .. Failed : Discover(c, hits)
            \/ SaveCheck(c) \/ SaveRefused(c) \/ SaveDone(c)
            \/ ExecuteError(c) \/ ExecuteReturns(c) \/ ExecuteAsks(c)

LoopNext == LoopStep \/ \E c \in todo, ok \in BOOLEAN : Resume(c, ok)

(* The run is one goroutine, and model calls and statements have deadlines. *)
LoopSpec == LoopInit /\ [][LoopNext]_lvars /\ WF_lvars(LoopStep)

-----------------------------------------------------------------------------
LoopTypeOK ==
    /\ phase \in {"ask", "search", "replan", "dup", "tools", "waiting", "ended"}
    /\ said \in Answer /\ todo \subseteq said.calls /\ counting \subseteq todo
    /\ memo \in [searched : BOOLEAN, looks : 0 .. 3, executed : BOOLEAN, done : SUBSET LoopStmts]
    /\ working \in {"none", "focus", "other"} /\ intent \in {"none", "prefer", "avoid"}
    /\ run \in [step : 0 .. MaxSteps, streak : 0 .. 1, misses : 0 .. 1, saves : Nat]
    /\ runs \in 1 .. MaxRuns /\ silent \in Nat /\ saved \in Nat

(* The model cannot keep a turn searching: at most two rounds in a row are
   carried out whose first answer only searches and says nothing (the first
   search, and one more after its result). *)
SearchesConverge == silent <= 2

(* A statement whose rows the model already has is not run again by an answer
   that asks for nothing else, not even by the answer it was forced to give. *)
NoRepeatedStatement == phase = "tools" => ~Repeats(said)

(* Every run ends or waits for the user, whatever the model answers. *)
RunEnds == []<>(phase \in {"waiting", "ended"})

(* What the tool's message says of memory_save: at most once per turn. *)
OneSavePerTurn == saved <= 1

(* What the counter that is read before the save and raised after it does
   achieve: a run saves no more patterns than one answer asked for at once. *)
SaveCalls(a) == {c \in a.calls : c.tool = "memory_save"}
SavesOfOneAnswer == \E a \in Said \cup {NoAnswer} : run.saves <= Cardinality(SaveCalls(a))

(* No turn goes round searching or repeating (runTurn's recoveries), or goes
   on saving. *)
LoopSafe == SearchesConverge /\ NoRepeatedStatement /\ SavesOfOneAnswer
=============================================================================
