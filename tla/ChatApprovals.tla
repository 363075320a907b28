---------------------------- MODULE ChatApprovals ----------------------------
(***************************************************************************)
(* The desktop chat's approvals: a turn of the model stops at a statement  *)
(* that needs the user, saves a checkpoint and shows a card; the answer to *)
(* the card resumes the turn, runs the statement and lets the model go on. *)
(* One conversation, several answers in flight (the window may send an     *)
(* answer twice).  Source: src/internal/aichat/service.go (Approve, the    *)
(* repair of a failed statement, the legacy store) and runtime_eino.go     *)
(* (the turn, its interrupts and the checkpointed resume).                 *)
(***************************************************************************)
EXTENDS Naturals, Sequences, FiniteSets

CONSTANTS
    Answers,     \* answers the user's window sends
    Guarded,     \* statements DecideGate wants an approval for
    Free,        \* statements it runs at once
    Direct,      \* approved tools that end the turn: an analysis or a chart of the
                 \* stored result, a datasource created or deleted
    Slots,       \* turns, each with its checkpoint id
    MaxCards     \* bound: approvals ever shown

ASSUME ApprovalsAssumption ==
    /\ MaxCards \in Nat /\ IsFiniteSet(Answers)
    /\ Guarded \cap (Free \cup Direct) = {} /\ Free \cap Direct = {}
    /\ Guarded # {}

VARIABLES
    cards,       \* every approval ever created, in order; its index is its id
    eino,        \* ids in einoApprovals
    legacy,      \* ids in approvals
    check,       \* checkpoint of a turn: the id of its interrupt, 0 when none
    turns,       \* turns that have started
    result,      \* is a query result stored for analysis?
    ans,         \* answers in flight
    ran,         \* history: what ran for each card, in order
    settled      \* history: cards with an answer that has been replied to
avars == <<cards, eino, legacy, check, turns, result, ans, ran, settled>>

Stmts == Guarded \cup Free \cup Direct
AnyStmt == CHOOSE x \in Stmts : TRUE

Idle == [pc |-> "idle", id |-> 0, decision |-> "none", late |-> FALSE,
         stmt |-> AnyStmt, asks |-> FALSE, loaded |-> FALSE]

Over == {"missed", "failed", "done"}

(* The bound on cards leaves one for each answer in flight. *)
Room == Len(cards) + Cardinality({a \in Answers : ans[a].pc \notin Over \cup {"idle"}}) < MaxCards

(* newApprovalID and the put into one of the two stores. *)
ShowCard(stmt, slot, parent) ==
    /\ cards' = Append(cards, [stmt |-> stmt, slot |-> slot, parent |-> parent])
    /\ ran' = Append(ran, <<>>)
\* Mutant: the id is minted twice, once for the card and once for the store.
NewIdTwice == Len(cards) + 2
NewId == Len(cards) + 1

At(a, pc) == ans[a].pc = pc
Goto(a, pc) == ans' = [ans EXCEPT ![a].pc = pc]

-----------------------------------------------------------------------------
(* A turn of the conversation. *)

(* The turn answers with text, or its model call fails: nothing is left. *)
TurnText(s) ==
    /\ s \notin turns
    /\ turns' = turns \cup {s}
    /\ UNCHANGED <<cards, eino, legacy, check, result, ans, ran, settled>>

(* The user asks to analyse or chart the last result: a card in the legacy
   store, before any model call. *)
TurnAnalyze(s, act) ==
    /\ s \notin turns /\ result /\ act \in Direct /\ Room
    /\ turns' = turns \cup {s}
    /\ ShowCard(act, s, 0)
    /\ legacy' = legacy \cup {NewId}
    /\ UNCHANGED <<eino, check, result, ans, settled>>

(* The model asks for a statement the gate lets run: run, stored, returned. *)
TurnAutoRun(s, stmt) ==
    /\ s \notin turns /\ stmt \in Free
    /\ turns' = turns \cup {s}
    /\ result' = TRUE
    /\ UNCHANGED <<cards, eino, legacy, check, ans, ran, settled>>

(* ... or for one that needs the user: the run is interrupted, its
   checkpoint kept under the turn's checkpoint id, and a card shown. *)
Interrupt(s, stmt) ==
    /\ ShowCard(stmt, s, 0)
    /\ eino' = eino \cup {NewId}
    /\ check' = [check EXCEPT ![s] = NewId]

TurnInterrupt(s, stmt) ==
    /\ s \notin turns /\ stmt \in Guarded \cup Direct /\ Room
    /\ turns' = turns \cup {s}
    /\ Interrupt(s, stmt)
    /\ UNCHANGED <<legacy, result, ans, settled>>

-----------------------------------------------------------------------------
(* Answers. *)

(* Approve: the checkpointed store is asked first, then the legacy store,
   whose entry is taken in one step; anything else is "approval not found". *)
Answering(a, id, decision, pc) ==
    ans' = [ans EXCEPT ![a] = [pc |-> pc, id |-> id, decision |-> decision,
              late |-> id \in settled, stmt |-> cards[id].stmt, asks |-> FALSE, loaded |-> FALSE]]

FindEino(a, id, decision) ==
    /\ id \in eino
    /\ eino' = IF decision = "reject" THEN eino \ {id} ELSE eino
    /\ Answering(a, id, decision, IF decision = "reject" THEN "drop" ELSE "resume")
    /\ UNCHANGED legacy

\* Mutant: the legacy approval is read and not taken.
GetLegacy(a, id, decision) ==
    /\ id \notin eino /\ id \in legacy
    /\ Answering(a, id, decision, IF decision = "reject" THEN "reply" ELSE "run")
    /\ UNCHANGED <<eino, legacy>>
TakeLegacy(a, id, decision) ==
    /\ id \notin eino /\ id \in legacy
    /\ legacy' = legacy \ {id}
    /\ Answering(a, id, decision, IF decision = "reject" THEN "reply" ELSE "run")
    /\ UNCHANGED eino

NotFound(a, id, decision) ==
    /\ id \notin eino \cup legacy
    /\ Answering(a, id, decision, "missed")
    /\ UNCHANGED <<eino, legacy>>

Begin(a, id, decision) ==
    /\ At(a, "idle") /\ Room
    /\ \/ FindEino(a, id, decision)
       \/ TakeLegacy(a, id, decision)
       \/ NotFound(a, id, decision)
    /\ UNCHANGED <<cards, check, turns, result, ran, settled>>

\* Mutant: the tool that resumes does not compare the interrupt's id.
ResumeTargetAny(a) ==
    /\ At(a, "resume") /\ check[cards[ans[a].id].slot] # 0
    /\ ans' = [ans EXCEPT ![a].pc = "run",
                          ![a].loaded = TRUE, ![a].stmt = cards[check[cards[ans[a].id].slot]].stmt]
    /\ UNCHANGED <<cards, eino, legacy, check, turns, result, ran, settled>>
(* resumeEinoFromApproval loads the checkpoint.  Its interrupt is the one
   answered: the tool gets its stored arguments and runs them. *)
ResumeTarget(a) ==
    /\ At(a, "resume") /\ check[cards[ans[a].id].slot] = ans[a].id
    /\ ans' = [ans EXCEPT ![a].pc = "run",
                          ![a].loaded = TRUE, ![a].stmt = cards[check[cards[ans[a].id].slot]].stmt]
    /\ UNCHANGED <<cards, eino, legacy, check, turns, result, ran, settled>>

(* It is another interrupt (the turn went on since): the tool is not the
   resume target and asks again. *)
ResumeOther(a) ==
    LET s == cards[ans[a].id].slot IN
    /\ At(a, "resume") /\ check[s] \notin {0, ans[a].id}
    /\ Interrupt(s, cards[check[s]].stmt)
    /\ ans' = [ans EXCEPT ![a].pc = "settle", ![a].asks = TRUE]
    /\ UNCHANGED <<legacy, turns, result, settled>>

\* Mutant: a missing checkpoint is waited for.
ResumeFreshNever(a) == FALSE /\ UNCHANGED avars
(* It is gone: the turn starts over with the same messages. *)
ResumeFresh(a) ==
    /\ At(a, "resume") /\ check[cards[ans[a].id].slot] = 0
    /\ Goto(a, "model")
    /\ UNCHANGED <<cards, eino, legacy, check, turns, result, ran, settled>>

(* The approved statement runs with the arguments the checkpoint, or the
   legacy call, kept for it; its rows become the last result. *)
Running(a, stmts) ==
    /\ At(a, "run") /\ ans[a].stmt \in stmts
    /\ ran' = [ran EXCEPT ![ans[a].id] = Append(@, ans[a].stmt)]

RunOk(a) ==
    /\ Running(a, Guarded \cup Free)
    /\ result' = TRUE
    /\ Goto(a, IF ans[a].loaded THEN "model" ELSE "reply")
    /\ UNCHANGED <<cards, eino, legacy, check, turns, settled>>

(* It fails: repairAttempt < 1 allows one repair. *)
\* Mutant: the attempt is not counted in the repaired approval.
AlwaysRepairs(id) == TRUE
Repairs(id) == cards[id].parent = 0
RunFail(a) ==
    /\ Running(a, Guarded \cup Free)
    /\ Goto(a, IF Repairs(ans[a].id) THEN "repair" ELSE "reply")
    /\ UNCHANGED <<cards, eino, legacy, check, turns, result, settled>>

(* A direct tool runs and its answer is the turn's. *)
RunDirect(a) ==
    /\ Running(a, Direct)
    /\ Goto(a, IF ans[a].loaded THEN "settle" ELSE "reply")
    /\ UNCHANGED <<cards, eino, legacy, check, turns, result, settled>>

(* tryRepairApprovedExecuteStatement: the model may propose a corrected
   statement, shown as a new card in the legacy store; the resumed turn then
   returns it.  Otherwise the failure goes back to the model. *)
RepairAsks(a, stmt) ==
    /\ At(a, "repair") /\ stmt \notin Direct
    /\ ShowCard(stmt, cards[ans[a].id].slot, ans[a].id)
    /\ legacy' = legacy \cup {NewId}
    /\ ans' = [ans EXCEPT ![a].pc = "settle", ![a].asks = TRUE]
    /\ UNCHANGED <<eino, check, turns, result, settled>>

RepairNone(a) ==
    /\ At(a, "repair")
    /\ Goto(a, IF ans[a].loaded THEN "model" ELSE "reply")
    /\ UNCHANGED <<cards, eino, legacy, check, turns, result, ran, settled>>

(* The model goes on with the result: text, a call error (Approve fails and
   the card stays), a free statement, or the next guarded one. *)
ModelText(a) ==
    /\ At(a, "model")
    /\ Goto(a, "settle")
    /\ UNCHANGED <<cards, eino, legacy, check, turns, result, ran, settled>>

ModelFails(a) ==
    /\ At(a, "model")
    /\ Goto(a, "failed")
    /\ UNCHANGED <<cards, eino, legacy, check, turns, result, ran, settled>>

ModelAutoRun(a, stmt) ==
    /\ At(a, "model") /\ stmt \in Free
    /\ result' = TRUE
    /\ Goto(a, "settle")
    /\ UNCHANGED <<cards, eino, legacy, check, turns, ran, settled>>

ModelInterrupt(a, stmt) ==
    /\ At(a, "model") /\ stmt \in Guarded \cup Direct
    /\ Interrupt(cards[ans[a].id].slot, stmt)
    /\ ans' = [ans EXCEPT ![a].pc = "settle", ![a].asks = TRUE]
    /\ UNCHANGED <<legacy, turns, result, settled>>

\* Mutant: the checkpoint goes with the card, whatever the reply asks.
AlwaysDrops(a) == TRUE
Drops(a) == ~ans[a].asks
(* approveWithEinoCheckpoint after the resume: the card goes, and the
   checkpoint too unless the reply asks again. *)
Settle(a) ==
    /\ At(a, "settle")
    /\ eino' = eino \ {ans[a].id}
    /\ Goto(a, IF Drops(a) THEN "drop" ELSE "reply")
    /\ UNCHANGED <<cards, legacy, check, turns, result, ran, settled>>

DropCheckpoint(a) ==
    /\ At(a, "drop")
    /\ check' = [check EXCEPT ![cards[ans[a].id].slot] = 0]
    /\ Goto(a, "reply")
    /\ UNCHANGED <<cards, eino, legacy, turns, result, ran, settled>>

Reply(a) ==
    /\ At(a, "reply")
    /\ settled' = settled \cup {ans[a].id}
    /\ Goto(a, "done")
    /\ UNCHANGED <<cards, eino, legacy, check, turns, result, ran>>

(* The application restarts: both stores, the checkpoints and the stored
   result are in memory only, and answers in flight are lost with it. *)
Restart ==
    /\ eino' = {} /\ legacy' = {} /\ result' = FALSE
    /\ check' = [s \in Slots |-> 0]
    /\ ans' = [a \in Answers |-> IF At(a, "idle") THEN ans[a] ELSE [ans[a] EXCEPT !.pc = "done"]]
    /\ UNCHANGED <<cards, turns, ran, settled>>

-----------------------------------------------------------------------------
ApprovalsInit ==
    /\ cards = <<>> /\ eino = {} /\ legacy = {}
    /\ check = [s \in Slots |-> 0] /\ turns = {} /\ result = FALSE
    /\ ans = [a \in Answers |-> Idle]
    /\ ran = <<>> /\ settled = {}

TurnStep(s) ==
    \/ TurnText(s)
    \/ \E stmt \in Stmts : TurnAnalyze(s, stmt) \/ TurnAutoRun(s, stmt) \/ TurnInterrupt(s, stmt)

(* The steps of an answer once it has begun. *)
AnswerStep(a) ==
    \/ ResumeTarget(a) \/ ResumeOther(a) \/ ResumeFresh(a)
    \/ RunOk(a) \/ RunFail(a) \/ RunDirect(a)
    \/ RepairNone(a) \/ ModelText(a) \/ ModelFails(a)
    \/ \E stmt \in Stmts : RepairAsks(a, stmt) \/ ModelAutoRun(a, stmt) \/ ModelInterrupt(a, stmt)
    \/ Settle(a) \/ DropCheckpoint(a) \/ Reply(a)

ApprovalsNext ==
    \/ \E s \in Slots : TurnStep(s)
    \/ \E a \in Answers, id \in DOMAIN cards, d \in {"approve", "reject"} : Begin(a, id, d)
    \/ \E a \in Answers : AnswerStep(a)
    \/ Restart

(* Every answer runs on a goroutine of its own, and each model call and
   statement has a deadline: an answer that has begun keeps going. *)
ApprovalsSpec ==
    /\ ApprovalsInit /\ [][ApprovalsNext]_avars
    /\ \A a \in Answers : WF_avars(AnswerStep(a))

-----------------------------------------------------------------------------
Card == [stmt : Stmts, slot : Slots, parent : Nat]
Pcs == {"idle", "resume", "run", "repair", "model", "settle", "drop", "reply"} \cup Over
AnswerRecord == [pc : Pcs, id : Nat, decision : {"none", "approve", "reject"}, late : BOOLEAN,
                 stmt : Stmts, asks : BOOLEAN, loaded : BOOLEAN]

CardsOK ==
    /\ cards \in Seq(Card) /\ \A i \in DOMAIN cards : cards[i].parent < i
    /\ ran \in Seq(Seq(Stmts)) /\ Len(ran) = Len(cards)
StoresOK ==
    /\ eino \subseteq DOMAIN cards /\ legacy \subseteq DOMAIN cards /\ settled \subseteq DOMAIN cards
    /\ check \in [Slots -> {0} \cup DOMAIN cards]
AnswersOK ==
    /\ ans \in [Answers -> AnswerRecord]
    /\ \A a \in Answers : IF At(a, "idle") THEN ans[a].id = 0 ELSE ans[a].id \in DOMAIN cards

ApprovalsTypeOK == CardsOK /\ StoresOK /\ AnswersOK /\ turns \subseteq Slots /\ result \in BOOLEAN

Approvals(id) == {a \in Answers : ans[a].id = id /\ ans[a].decision = "approve"}

(* A statement the gate holds back runs only for a card that showed that very
   statement, and never more often than the card was approved: a resumed turn
   that has moved on does not run its new statement under an old approval. *)
RunsMatchApprovals ==
    \A id \in DOMAIN cards :
      /\ \A k \in DOMAIN ran[id] : ran[id][k] = cards[id].stmt
      /\ Len(ran[id]) <= Cardinality(Approvals(id))

(* Once an answer has been replied to, its card is spent: an answer that
   begins later finds nothing and runs nothing. *)
SettledStaysSettled ==
    \A a \in Answers : ans[a].late => ans[a].pc \in Over

(* A corrected statement is offered once: the card of a repair never leads to
   another repair, however often it fails. *)
RepairedOnce ==
    \A i \in DOMAIN cards : cards[i].parent # 0 => cards[cards[i].parent].parent = 0

(* As long as no card of the turn is answered twice, a card that still waits
   can be resumed where its turn stopped. *)
PendingCanResume ==
    \A id \in eino :
      \/ \E a, b \in Answers : /\ a # b /\ ans[a].id # 0 /\ ans[a].id = ans[b].id
      \/ check[cards[id].slot] = id
      \/ \E a \in Answers : ans[a].id = id /\ ans[a].pc \in {"settle", "drop", "reply"}

(* What the user decides is what happens, once (Approve, Reject, resume): the
   four above together. *)
ApprovalsSafe == RunsMatchApprovals /\ SettledStaysSettled /\ RepairedOnce /\ PendingCanResume

(* Every answer comes to an end. *)
AnswersEnd ==
    \A a \in Answers : ans[a].pc # "idle" ~> ans[a].pc \in Over
=============================================================================
