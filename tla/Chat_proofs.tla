----------------------------- MODULE Chat_proofs -----------------------------
(***************************************************************************)
(* The chat engine for any answers, turns, cards, streams and fields, a    *)
(* component at a time: the approvals across restarts, the loop of model   *)
(* answers and tools, the streamed turns of the window, the scan that has  *)
(* a model classify the fields, the long-term memory and the file of a     *)
(* thread's events.                                                        *)
(*                                                                         *)
(* The approvals' inductive invariant says of an answer under way where    *)
(* its card is: which answers have taken it out of both stores (so that a  *)
(* spent card is never found again), which count on the checkpoint of      *)
(* their own card (so that a turn that has moved on is not resumed under   *)
(* an old approval, unless a card is answered twice), and how many of the  *)
(* approvals of a card have run its statement.  The others' stand before   *)
(* their lemmas.                                                           *)
(***************************************************************************)
EXTENDS ChatEngine, ChatMemory, ChatThread, FiniteSetTheorems, SequenceTheorems,
        WellFoundedInduction, TLAPS

(* A card is shown: the old ids keep their cards and their runs.           *)
Shown(stmt, slot, parent) ==
    /\ DOMAIN cards' = DOMAIN cards \cup {NewId} /\ NewId \notin DOMAIN cards
    /\ NewId \in Nat \ {0}
    /\ \A id \in DOMAIN cards : cards'[id] = cards[id] /\ ran'[id] = ran[id]
    /\ cards'[NewId] = [stmt |-> stmt, slot |-> slot, parent |-> parent]
    /\ ran'[NewId] = <<>>

LEMMA ShowCardShows ==
  ASSUME CardsOK, NEW stmt \in Stmts, NEW slot \in Slots, NEW parent \in Nat,
         parent < NewId, ShowCard(stmt, slot, parent)
  PROVE  CardsOK' /\ Shown(stmt, slot, parent)
<1> DEFINE c == [stmt |-> stmt, slot |-> slot, parent |-> parent]
<1>1. c \in Card /\ c.parent = parent
  BY DEF Card
<1>2. cards' = Append(cards, c) /\ ran' = Append(ran, <<>>) /\ <<>> \in Seq(Stmts)
  BY DEF ShowCard
<1>3. cards \in Seq(Card) /\ ran \in Seq(Seq(Stmts)) /\ Len(ran) = Len(cards)
  BY DEF CardsOK
<1> HIDE DEF c
<1>4. /\ cards' \in Seq(Card) /\ Len(cards') = Len(cards) + 1 /\ cards'[Len(cards) + 1] = c
      /\ \A id \in 1..Len(cards) : cards'[id] = cards[id]
  BY <1>1, <1>2, <1>3
<1>5. /\ ran' \in Seq(Seq(Stmts)) /\ Len(ran') = Len(ran) + 1 /\ ran'[Len(ran) + 1] = <<>>
      /\ \A id \in 1..Len(ran) : ran'[id] = ran[id]
  BY <1>2, <1>3
<1>6. /\ DOMAIN cards = 1..Len(cards) /\ DOMAIN cards' = 1..Len(cards) + 1 /\ Len(cards) \in Nat
  BY <1>3, <1>4
<1>7. CardsOK'
  <2>1. \A i \in DOMAIN cards' : cards'[i].parent < i
    BY <1>1, <1>4, <1>6 DEF CardsOK, NewId
  <2>2. QED  BY <1>3, <1>4, <1>5, <2>1 DEF CardsOK
<1>8. QED
  <2>1. cards'[NewId] = [stmt |-> stmt, slot |-> slot, parent |-> parent]
    BY <1>4 DEF NewId, c
  <2>2. DOMAIN cards' = DOMAIN cards \cup {NewId} /\ NewId \notin DOMAIN cards /\ NewId \in Nat \ {0}
    BY <1>6 DEF NewId
  <2>3. ran'[NewId] = <<>> /\ \A id \in DOMAIN cards : cards'[id] = cards[id] /\ ran'[id] = ran[id]
    BY <1>3, <1>4, <1>5, <1>6 DEF NewId
  <2>4. QED  BY <1>7, <2>1, <2>2, <2>3 DEF Shown

(* An answer moves: who it answers, how and when stay, the others stay. *)
Moved(a, pc, asks, loaded) ==
    /\ \A b \in Answers \ {a} : ans'[b] = ans[b]
    /\ ans'[a].pc = pc /\ ans'[a].asks = asks /\ ans'[a].loaded = loaded
    /\ ans'[a].id = ans[a].id /\ ans'[a].decision = ans[a].decision /\ ans'[a].late = ans[a].late

(* One answer's record is replaced by one about a card that was shown.     *)
LEMMA AnswerReplaced ==
  ASSUME AnswersOK, NEW a \in Answers, NEW r \in AnswerRecord, r.pc # "idle", r.id \in DOMAIN cards',
         ans' = [ans EXCEPT ![a] = r], DOMAIN cards \subseteq DOMAIN cards'
  PROVE  AnswersOK' /\ ans'[a] = r /\ \A b \in Answers \ {a} : ans'[b] = ans[b]
<1>1. ans' \in [Answers -> AnswerRecord] /\ ans'[a] = r /\ \A b \in Answers \ {a} : ans'[b] = ans[b]
  BY DEF AnswersOK
<1>2. ASSUME NEW b \in Answers
      PROVE  IF ans'[b].pc = "idle" THEN ans'[b].id = 0 ELSE ans'[b].id \in DOMAIN cards'
  BY <1>1 DEF AnswersOK, At
<1>3. QED
  BY <1>1, <1>2 DEF AnswersOK, At

(* ... by a step that only goes on,                                        *)
LEMMA GotoMoves ==
  ASSUME AnswersOK, NEW a \in Answers, ans[a].pc # "idle", NEW pc \in Pcs, pc # "idle",
         Goto(a, pc), DOMAIN cards \subseteq DOMAIN cards'
  PROVE  AnswersOK' /\ Moved(a, pc, ans[a].asks, ans[a].loaded)
<1> DEFINE r == [ans[a] EXCEPT !.pc = pc]
<1>1. ans \in [Answers -> AnswerRecord] /\ ans[a] \in AnswerRecord /\ ans[a].id \in DOMAIN cards
  BY DEF AnswersOK, At
<1>2. /\ r \in AnswerRecord /\ r.pc = pc /\ r.asks = ans[a].asks /\ r.loaded = ans[a].loaded
      /\ r.id = ans[a].id /\ r.decision = ans[a].decision /\ r.late = ans[a].late
  BY <1>1 DEF AnswerRecord
<1>3. ans' = [ans EXCEPT ![a] = r]
  BY DEF Goto
<1> HIDE DEF r
<1>4. AnswersOK' /\ ans'[a] = r /\ \A b \in Answers \ {a} : ans'[b] = ans[b]
  BY <1>1, <1>2, <1>3, AnswerReplaced
<1>5. QED
  BY <1>2, <1>4 DEF Moved

(* ... by one that asks again,                                             *)
LEMMA AsksMoves ==
  ASSUME AnswersOK, NEW a \in Answers, ans[a].pc # "idle",
         ans' = [ans EXCEPT ![a].pc = "settle", ![a].asks = TRUE], DOMAIN cards \subseteq DOMAIN cards'
  PROVE  AnswersOK' /\ Moved(a, "settle", TRUE, ans[a].loaded)
<1> DEFINE r == [ans[a] EXCEPT !.pc = "settle", !.asks = TRUE]
<1>1. ans \in [Answers -> AnswerRecord] /\ ans[a] \in AnswerRecord /\ ans[a].id \in DOMAIN cards
  BY DEF AnswersOK, At
<1>2. /\ r \in AnswerRecord /\ r.pc = "settle" /\ r.asks = TRUE /\ r.loaded = ans[a].loaded
      /\ r.id = ans[a].id /\ r.decision = ans[a].decision /\ r.late = ans[a].late
  BY <1>1 DEF AnswerRecord, Pcs
<1>3. ans' = [ans EXCEPT ![a] = r]
  BY <1>1
<1> HIDE DEF r
<1>4. AnswersOK' /\ ans'[a] = r /\ \A b \in Answers \ {a} : ans'[b] = ans[b]
  BY <1>1, <1>2, <1>3, AnswerReplaced
<1>5. QED
  BY <1>2, <1>4 DEF Moved

(* The checkpoint of the answer's turn is loaded.                          *)
LEMMA LoadMoves ==
  ASSUME AnswersOK, CardsOK, NEW a \in Answers, ans[a].pc # "idle", NEW stmt \in Stmts,
         ans' = [ans EXCEPT ![a].pc = "run", ![a].loaded = TRUE, ![a].stmt = stmt], UNCHANGED cards
  PROVE  AnswersOK' /\ Moved(a, "run", ans[a].asks, TRUE) /\ ans'[a].stmt = stmt
<1> DEFINE r == [ans[a] EXCEPT !.pc = "run", !.loaded = TRUE, !.stmt = stmt]
<1>1. ans \in [Answers -> AnswerRecord] /\ ans[a] \in AnswerRecord /\ ans[a].id \in DOMAIN cards
  BY DEF AnswersOK, At
<1>2. /\ r \in AnswerRecord /\ r.pc = "run" /\ r.asks = ans[a].asks /\ r.loaded = TRUE /\ r.stmt = stmt
      /\ r.id = ans[a].id /\ r.decision = ans[a].decision /\ r.late = ans[a].late
  BY <1>1 DEF AnswerRecord, Pcs
<1>3. ans' = [ans EXCEPT ![a] = r]
  BY <1>1
<1> HIDE DEF r
<1>4. /\ AnswersOK'
      /\ ans'[a] = r /\ \A b \in Answers \ {a} : ans'[b] = ans[b]
  <2>1. r.id \in DOMAIN cards' /\ DOMAIN cards \subseteq DOMAIN cards' /\ r.pc # "idle"
    BY <1>1, <1>2
  <2>2. QED  BY <1>2, <1>3, <2>1, AnswerReplaced
<1>5. QED
  BY <1>2, <1>4 DEF Moved

(* The answer begins (Approve).                                            *)
LEMMA BegunMoves ==
  ASSUME AnswersOK, CardsOK, NEW a \in Answers, NEW id \in DOMAIN cards, NEW d \in {"approve", "reject"},
         NEW pc \in Pcs, pc # "idle", Answering(a, id, d, pc), UNCHANGED cards
  PROVE  /\ AnswersOK'
         /\ \A b \in Answers \ {a} : ans'[b] = ans[b]
         /\ ans'[a] = [pc |-> pc, id |-> id, decision |-> d, late |-> id \in settled,
                       stmt |-> cards[id].stmt, asks |-> FALSE, loaded |-> FALSE]
<1> DEFINE r == [pc |-> pc, id |-> id, decision |-> d, late |-> id \in settled,
                       stmt |-> cards[id].stmt, asks |-> FALSE, loaded |-> FALSE]
<1>1. cards[id] \in Card /\ id \in Nat
  BY DEF CardsOK
<1>2. r \in AnswerRecord /\ r.pc = pc /\ r.id = id
  BY <1>1 DEF AnswerRecord, Card
<1>3. ans' = [ans EXCEPT ![a] = r]
  BY DEF Answering
<1> HIDE DEF r
<1>4. AnswersOK' /\ ans'[a] = r /\ \A b \in Answers \ {a} : ans'[b] = ans[b]
  BY <1>2, <1>3, AnswerReplaced
<1>5. QED
  BY <1>4 DEF r

(***************************************************************************)
(* The inductive invariant.                                                *)
(***************************************************************************)
(* The answers that have run their card's statement, or will not any more. *)
Spent(id) ==
    {a \in Answers : /\ ans[a].id = id /\ ans[a].decision = "approve"
                     /\ ans[a].pc \notin {"resume", "run"}}

RunsInv ==
    /\ \A a \in Answers : ans[a].pc \in {"resume", "run", "repair", "model"} => ans[a].decision = "approve"
    /\ \A a \in Answers : At(a, "run") => ans[a].stmt = cards[ans[a].id].stmt
    /\ \A id \in DOMAIN cards :
         /\ \A k \in DOMAIN ran[id] : ran[id][k] = cards[id].stmt
         /\ Len(ran[id]) <= Cardinality(Spent(id))

(* The answers whose card is in neither store any more.                    *)
Took(a) ==
    \/ ans[a].pc \in {"drop", "reply"}
    \/ ans[a].pc \in {"run", "repair"} /\ ~ans[a].loaded

SettledInv ==
    /\ eino \cap legacy = {} /\ settled \cap (eino \cup legacy) = {}
    /\ \A a \in Answers : ans[a].pc \notin Over \cup {"idle"} => ans[a].id \notin legacy
    /\ \A a \in Answers : Took(a) => ans[a].id \notin eino
    /\ SettledStaysSettled

RepairInv ==
    /\ \A id \in eino : cards[id].parent = 0
    /\ \A a \in Answers : At(a, "repair") \/ At(a, "resume") \/ (~At(a, "idle") /\ ans[a].loaded)
                          => cards[ans[a].id].parent = 0
    /\ RepairedOnce

SlotsInv == \A id \in DOMAIN cards : cards[id].slot \in turns

(* Some card is answered twice.                                            *)
Twice == \E a, b \in Answers : a # b /\ ans[a].id # 0 /\ ans[a].id = ans[b].id

(* The answers that count on the checkpoint of their own card.             *)
Needs(a) ==
    \/ ans[a].pc \in {"resume", "model", "drop"}
    \/ ans[a].pc \in {"run", "repair"} /\ ans[a].loaded
    \/ At(a, "settle") /\ ~ans[a].asks

Resumable(id) == check[cards[id].slot] = id
ResumeInv ==
    \/ Twice
    \/ /\ \A id \in eino : Resumable(id) \/ \E a \in Answers : At(a, "settle") /\ ans[a].id = id
       /\ \A a \in Answers : Needs(a) => Resumable(ans[a].id)

ApprovalsInv == ApprovalsTypeOK /\ RunsInv /\ SettledInv /\ RepairInv /\ SlotsInv /\ ResumeInv

(* The invariant is strong enough ...                                      *)
THEOREM ApprovalsInvSafe == ApprovalsInv => ApprovalsSafe
<1> SUFFICES ASSUME ApprovalsInv PROVE ApprovalsSafe
  OBVIOUS
<1>1. RunsMatchApprovals
  <2> SUFFICES ASSUME NEW id \in DOMAIN cards PROVE Len(ran[id]) <= Cardinality(Approvals(id))
    BY DEF ApprovalsInv, RunsInv, RunsMatchApprovals
  <2>1. Spent(id) \subseteq Approvals(id) /\ Approvals(id) \subseteq Answers
    BY DEF Spent, Approvals
  <2>2. /\ Cardinality(Spent(id)) <= Cardinality(Approvals(id))
        /\ Cardinality(Spent(id)) \in Nat /\ Cardinality(Approvals(id)) \in Nat
    BY <2>1, ApprovalsAssumption, FS_Subset, FS_CardinalityType
  <2>3. Len(ran[id]) \in Nat
    BY DEF ApprovalsInv, ApprovalsTypeOK, CardsOK
  <2>4. QED  BY <2>2, <2>3 DEF ApprovalsInv, RunsInv
<1>2. PendingCanResume
  BY DEF ApprovalsInv, ResumeInv, Twice, Resumable, At, PendingCanResume
<1>3. QED
  BY <1>1, <1>2 DEF ApprovalsInv, SettledInv, RepairInv, ApprovalsSafe

(* ... holds of a chat that has just started ...                           *)
THEOREM ApprovalsInvInit == ApprovalsInit => ApprovalsInv
<1> SUFFICES ASSUME ApprovalsInit PROVE ApprovalsInv
  OBVIOUS
<1>1. AnyStmt \in Stmts
  BY ApprovalsAssumption DEF AnyStmt, Stmts
<1>2. Idle \in AnswerRecord
  BY <1>1 DEF Idle, AnswerRecord, Pcs
<1>3. ApprovalsTypeOK
  <2>1. AnswersOK
    BY <1>2 DEF ApprovalsInit, AnswersOK, At, Idle
  <2>2. CardsOK
    BY DEF ApprovalsInit, CardsOK
  <2>3. QED  BY <2>1, <2>2 DEF ApprovalsInit, ApprovalsTypeOK, StoresOK
<1>4. cards = <<>> /\ eino = {} /\ legacy = {} /\ settled = {} /\ \A a \in Answers : ans[a] = Idle
  BY DEF ApprovalsInit
<1>5. QED
  BY <1>3, <1>4 DEF ApprovalsInv, RunsInv, SettledInv, RepairInv, SlotsInv, ResumeInv,
       Took, Needs, At, Idle, Over, SettledStaysSettled, RepairedOnce

(***************************************************************************)
(* What a step that moves one answer keeps.                                *)
(***************************************************************************)
CardsKept ==
    /\ DOMAIN cards \subseteq DOMAIN cards'
    /\ \A id \in DOMAIN cards : cards'[id] = cards[id]
RanKept ==
    /\ \A id \in DOMAIN cards : ran'[id] = ran[id]
    /\ \A id \in DOMAIN cards' \ DOMAIN cards : ran'[id] = <<>>

(* Runs and spent answers keep pace when no new run is recorded.           *)
LEMMA KeptRuns ==
  ASSUME CardsOK, RunsInv, CardsKept, RanKept, \A id \in DOMAIN cards : Spent(id) \subseteq Spent(id)',
         NEW id \in DOMAIN cards'
  PROVE  /\ \A k \in DOMAIN ran'[id] : ran'[id][k] = cards'[id].stmt
         /\ Len(ran'[id]) <= Cardinality(Spent(id)')
<1>1. Spent(id)' \subseteq Answers
  BY DEF Spent
<1>2. IsFiniteSet(Spent(id)') /\ Cardinality(Spent(id)') \in Nat
  BY <1>1, ApprovalsAssumption, FS_Subset, FS_CardinalityType
<1>3. CASE id \notin DOMAIN cards
  BY <1>2, <1>3 DEF RanKept
<1>4. CASE id \in DOMAIN cards
  <2>1. Cardinality(Spent(id)) <= Cardinality(Spent(id)') /\ Cardinality(Spent(id)) \in Nat
    BY <1>2, <1>4, FS_Subset, FS_CardinalityType
  <2>2. Len(ran[id]) \in Nat
    BY <1>4 DEF CardsOK
  <2>3. QED  BY <1>2, <1>4, <2>1, <2>2 DEF CardsKept, RanKept, RunsInv
<1>5. QED
  BY <1>3, <1>4

LEMMA MoveRuns ==
  ASSUME CardsOK, AnswersOK, RunsInv, CardsKept, RanKept, NEW a \in Answers, NEW pc, NEW asks, NEW loaded,
         Moved(a, pc, asks, loaded), pc \notin {"resume", "run"},
         pc \in {"repair", "model"} => ans[a].decision = "approve"
  PROVE  RunsInv'
<1>1. \A id \in DOMAIN cards : Spent(id) \subseteq Spent(id)'
  BY DEF Spent, Moved
<1>2. \A b \in Answers : ans'[b].pc \in {"resume", "run", "repair", "model"} => ans'[b].decision = "approve"
  BY DEF Moved, RunsInv
<1>3. \A b \in Answers : ans'[b].pc = "run" => ans'[b].stmt = cards'[ans'[b].id].stmt
  <2> SUFFICES ASSUME NEW b \in Answers, ans'[b].pc = "run"
               PROVE  ans'[b].stmt = cards'[ans'[b].id].stmt
    OBVIOUS
  <2>1. b # a /\ ans'[b] = ans[b]
    BY DEF Moved
  <2>2. ans[b].stmt = cards[ans[b].id].stmt /\ ans[b].id \in DOMAIN cards
    BY <2>1 DEF RunsInv, AnswersOK, At
  <2>3. QED  BY <2>1, <2>2 DEF CardsKept
<1>4. QED
  BY <1>1, <1>2, <1>3, KeptRuns DEF RunsInv, At

LEMMA MoveSettled ==
  ASSUME AnswersOK, SettledInv, NEW a \in Answers, NEW pc, NEW asks, NEW loaded,
         Moved(a, pc, asks, loaded), ans[a].pc \notin Over \cup {"idle"}, pc # "idle",
         Took(a)' => ans[a].id \notin eino',
         eino' \cap DOMAIN cards \subseteq eino, legacy' \cap DOMAIN cards \subseteq legacy,
         eino' \cap legacy' = {}, settled' = settled, settled \subseteq DOMAIN cards
  PROVE  SettledInv'
<1>1. settled' \cap (eino' \cup legacy') = {}
  BY DEF SettledInv
<1>2. \A b \in Answers : ans'[b].pc \notin Over \cup {"idle"} => ans'[b].id \notin legacy'
  BY DEF SettledInv, Moved, AnswersOK, At
<1>3. \A b \in Answers : Took(b)' => ans'[b].id \notin eino'
  <2> SUFFICES ASSUME NEW b \in Answers, b # a, Took(b)' PROVE ans'[b].id \notin eino'
    BY DEF Moved
  <2>1. ans'[b] = ans[b]
    BY DEF Moved
  <2>2. Took(b) /\ ans[b].pc # "idle"
    BY <2>1 DEF Took
  <2>3. ans[b].id \notin eino /\ ans[b].id \in DOMAIN cards
    BY <2>2 DEF SettledInv, AnswersOK, At
  <2>4. QED  BY <2>1, <2>3
<1>4. SettledStaysSettled'
  <2>1. ~ans[a].late
    BY DEF SettledInv, SettledStaysSettled
  <2>2. QED  BY <2>1 DEF SettledInv, SettledStaysSettled, Moved
<1>5. QED
  BY <1>1, <1>2, <1>3, <1>4 DEF SettledInv

(* Cards, and the parents of repairs.                                      *)
LEMMA CardShown ==
  ASSUME CardsOK, NEW i \in DOMAIN cards
  PROVE  cards[i] \in Card
  BY DEF CardsOK

LEMMA ParentShown ==
  ASSUME CardsOK, NEW i \in DOMAIN cards, cards[i].parent # 0
  PROVE  cards[i].parent \in DOMAIN cards
<1>1. cards \in Seq(Card) /\ cards[i].parent < i
  BY DEF CardsOK
<1>2. cards[i].parent \in Nat
  BY CardShown DEF Card
<1>3. QED
  BY <1>1, <1>2

LEMMA MoveRepair ==
  ASSUME CardsOK, AnswersOK, StoresOK, RepairInv, CardsKept, DOMAIN cards' = DOMAIN cards, eino' \subseteq eino,
         NEW a \in Answers, NEW pc, NEW asks, NEW loaded, Moved(a, pc, asks, loaded),
         ans[a].pc # "idle", pc # "resume", pc = "repair" \/ loaded => cards[ans[a].id].parent = 0
  PROVE  RepairInv'
<1>1. \A b \in Answers : ans'[b].pc \in {"repair", "resume"} \/ (ans'[b].pc # "idle" /\ ans'[b].loaded)
                          => cards'[ans'[b].id].parent = 0
  <2> SUFFICES ASSUME NEW b \in Answers,
                      ans'[b].pc \in {"repair", "resume"} \/ (ans'[b].pc # "idle" /\ ans'[b].loaded)
               PROVE  cards'[ans'[b].id].parent = 0
    OBVIOUS
  <2>1. cards[ans[b].id].parent = 0 /\ ans'[b].id = ans[b].id /\ ans[b].pc # "idle"
    <3>1. CASE b = a
      BY <3>1 DEF Moved
    <3>2. CASE b # a
      BY <3>2 DEF Moved, RepairInv, At
    <3>3. QED  BY <3>1, <3>2
  <2>2. ans[b].id \in DOMAIN cards
    BY <2>1 DEF AnswersOK, At
  <2>3. QED  BY <2>1, <2>2 DEF CardsKept
<1>2. RepairedOnce' /\ \A id \in eino' : cards'[id].parent = 0
  BY ParentShown DEF RepairInv, RepairedOnce, CardsKept, StoresOK
<1>3. QED
  BY <1>1, <1>2 DEF RepairInv, At

LEMMA MoveResume ==
  ASSUME AnswersOK, StoresOK, ResumeInv, CardsKept, check' = check, eino' \subseteq eino,
         NEW a \in Answers, NEW pc, NEW asks, NEW loaded, Moved(a, pc, asks, loaded), ans[a].pc # "idle",
         At(a, "settle") => ans[a].id \notin eino',
         ~Twice /\ Needs(a)' => Resumable(ans[a].id)
  PROVE  ResumeInv'
<1>1. CASE Twice
  <2>1. PICK b, c \in Answers : b # c /\ ans[b].id # 0 /\ ans[b].id = ans[c].id
    BY <1>1 DEF Twice
  <2>2. ans'[b].id = ans[b].id /\ ans'[c].id = ans[c].id
    BY DEF Moved
  <2>3. QED  BY <2>1, <2>2 DEF ResumeInv, Twice
<1>2. CASE ~Twice
  <2>1. \A id \in DOMAIN cards : Resumable(id) => Resumable(id)'
    BY DEF CardsKept, Resumable
  <2>2. \A id \in eino' : Resumable(id)' \/ \E b \in Answers : ans'[b].pc = "settle" /\ ans'[b].id = id
    <3> SUFFICES ASSUME NEW id \in eino', ~Resumable(id)
                 PROVE  \E b \in Answers : ans'[b].pc = "settle" /\ ans'[b].id = id
      BY <2>1 DEF StoresOK
    <3>1. PICK b \in Answers : At(b, "settle") /\ ans[b].id = id
      BY <1>2 DEF ResumeInv
    <3>2. b # a
      BY <3>1
    <3>3. QED  BY <3>1, <3>2 DEF Moved, At
  <2>3. \A b \in Answers : Needs(b)' => Resumable(ans[b].id)' /\ ans'[b].id = ans[b].id
    <3> SUFFICES ASSUME NEW b \in Answers, Needs(b)' PROVE Resumable(ans[b].id)' /\ ans'[b].id = ans[b].id
      OBVIOUS
    <3>1. CASE b = a
      <4>1. ans[a].id \in DOMAIN cards
        BY DEF AnswersOK, At
      <4>2. QED  BY <1>2, <2>1, <3>1, <4>1 DEF Moved
    <3>2. CASE b # a
      <4>1. ans'[b] = ans[b]
        BY <3>2 DEF Moved
      <4>2. Needs(b) /\ ans[b].id \in DOMAIN cards
        BY <4>1 DEF Needs, At, AnswersOK
      <4>3. QED  BY <1>2, <2>1, <4>1, <4>2 DEF ResumeInv
    <3>3. QED  BY <3>1, <3>2
  <2>4. (\A id \in eino : Resumable(id) \/ \E b \in Answers : At(b, "settle") /\ ans[b].id = id)'
    BY <2>2 DEF At
  <2>5. (\A b \in Answers : Needs(b) => Resumable(ans[b].id))'
    BY <2>3
  <2>6. QED  BY <2>4, <2>5 DEF ResumeInv
<1>3. QED
  BY <1>1, <1>2

(***************************************************************************)
(* Steps of a turn.                                                        *)
(***************************************************************************)
LEMMA TurnsKeep ==
  ASSUME ApprovalsInv, NEW s \in Slots, TurnStep(s)
  PROVE  ApprovalsInv'
<1>1. \/ TurnText(s) \/ \E stmt \in Stmts : TurnAutoRun(s, stmt)
      \/ \E stmt \in Stmts : TurnAnalyze(s, stmt) \/ TurnInterrupt(s, stmt)
  BY DEF TurnStep
<1>2. CASE TurnText(s) \/ \E stmt \in Stmts : TurnAutoRun(s, stmt)
  <2>1. /\ UNCHANGED <<cards, eino, legacy, check, ans, ran, settled>>
        /\ turns' = turns \cup {s} /\ result' \in BOOLEAN
    BY <1>2 DEF TurnText, TurnAutoRun, ApprovalsInv, ApprovalsTypeOK
  <2>2. ApprovalsTypeOK'
    BY <2>1 DEF ApprovalsInv, ApprovalsTypeOK, CardsOK, StoresOK, AnswersOK, At
  <2>3. RunsInv' /\ SettledInv' /\ RepairInv' /\ SlotsInv' /\ ResumeInv'
    BY <2>1 DEF ApprovalsInv, RunsInv, Spent, SettledInv, SettledStaysSettled, Took, RepairInv, RepairedOnce,
         SlotsInv, ResumeInv, Twice, Resumable, Needs, At
  <2>4. QED  BY <2>2, <2>3 DEF ApprovalsInv
<1>3. ASSUME NEW stmt \in Stmts, TurnAnalyze(s, stmt) \/ TurnInterrupt(s, stmt)
      PROVE  ApprovalsInv'
  <2>1. /\ ShowCard(stmt, s, 0) /\ s \notin turns /\ turns' = turns \cup {s}
        /\ UNCHANGED <<result, ans, settled>>
        /\ \/ eino' = eino \cup {NewId} /\ legacy' = legacy /\ check' = [check EXCEPT ![s] = NewId]
           \/ eino' = eino /\ legacy' = legacy \cup {NewId} /\ check' = check
    BY <1>3 DEF TurnAnalyze, TurnInterrupt, Interrupt
  <2>2. CardsOK /\ StoresOK /\ AnswersOK /\ 0 < NewId
    BY DEF ApprovalsInv, ApprovalsTypeOK, CardsOK, NewId
  <2>3. CardsOK' /\ Shown(stmt, s, 0)
    BY <2>1, <2>2, ShowCardShows
  <2>4. CardsKept /\ RanKept
    BY <2>3 DEF Shown, CardsKept, RanKept
  <2>5. StoresOK' /\ check' \in [Slots -> {0} \cup DOMAIN cards']
    BY <2>1, <2>2, <2>3 DEF StoresOK, Shown
  <2>6. ApprovalsTypeOK'
    <3>1. AnswersOK'
      BY <2>1, <2>2, <2>3 DEF AnswersOK, At, Shown
    <3>2. QED  BY <2>1, <2>3, <2>5, <3>1 DEF ApprovalsInv, ApprovalsTypeOK
  <2>7. RunsInv'
    <3>1. \A id \in DOMAIN cards : Spent(id) \subseteq Spent(id)'
      BY <2>1 DEF Spent
    <3>2. \A a \in Answers : ans[a].pc = "run" => ans[a].id \in DOMAIN cards
      BY <2>2 DEF AnswersOK, At
    <3>3. \A a \in Answers : ans[a].pc = "run" => ans[a].stmt = cards'[ans[a].id].stmt
      BY <2>4, <3>2 DEF ApprovalsInv, RunsInv, CardsKept, At
    <3>4. QED  BY <2>1, <2>2, <2>4, <3>1, <3>3, KeptRuns DEF ApprovalsInv, RunsInv, At
  <2>8. SettledInv'
    BY <2>1, <2>2, <2>3 DEF ApprovalsInv, SettledInv, SettledStaysSettled, Took, Shown, StoresOK, AnswersOK, At, Over
  <2>9. RepairInv'
    <3>1. \A a \in Answers : ans[a].pc # "idle" => ans[a].id \in DOMAIN cards
      BY <2>2 DEF AnswersOK, At
    <3>2. \A i \in DOMAIN cards : cards[i].parent # 0 => cards[i].parent \in DOMAIN cards
      BY <2>2, ParentShown
    <3>3. \A a \in Answers : ans[a].pc # "idle" => cards'[ans[a].id].parent = cards[ans[a].id].parent
      BY <2>3, <3>1 DEF Shown
    <3>4. \A a \in Answers : ans'[a].pc \in {"repair", "resume"} \/ (ans'[a].pc # "idle" /\ ans'[a].loaded)
                             => cards'[ans'[a].id].parent = 0
      BY <2>1, <3>3 DEF ApprovalsInv, RepairInv, At
    <3>5. RepairedOnce' /\ \A id \in eino' : cards'[id].parent = 0
      BY <2>1, <2>2, <2>3, <3>2 DEF ApprovalsInv, RepairInv, RepairedOnce, Shown, StoresOK
    <3>6. QED  BY <3>4, <3>5 DEF RepairInv, At
  <2>10. SlotsInv'
    BY <2>1, <2>3 DEF ApprovalsInv, SlotsInv, Shown
  <2>11. ResumeInv'
    <3>1. \A id \in DOMAIN cards : cards[id].slot \in turns /\ cards[id].slot \in Slots
      BY <2>2, CardShown DEF ApprovalsInv, SlotsInv, Card
    <3>2. \A id \in DOMAIN cards : Resumable(id)' <=> Resumable(id)
      <4>1. \A r \in turns \cap Slots : check'[r] = check[r]
        BY <2>1, <2>2 DEF StoresOK
      <4>2. \A id \in DOMAIN cards : cards'[id].slot = cards[id].slot
        BY <2>4 DEF CardsKept
      <4>3. QED  BY <3>1, <4>1, <4>2 DEF Resumable
    <3>3. eino' # eino => check'[cards'[NewId].slot] = NewId
      <4>1. cards'[NewId].slot = s
        BY <2>3 DEF Shown
      <4>2. eino' # eino => check'[s] = NewId
        BY <2>1, <2>2 DEF StoresOK
      <4>3. QED  BY <4>1, <4>2
    <3>4. CASE Twice
      BY <2>1, <3>4 DEF ResumeInv, Twice
    <3>5. CASE ~Twice
      <4>1. (\A id \in eino : Resumable(id) \/ \E b \in Answers : At(b, "settle") /\ ans[b].id = id)'
        <5> SUFFICES ASSUME NEW id \in eino'
                     PROVE  check'[cards'[id].slot] = id \/ \E b \in Answers : At(b, "settle") /\ ans[b].id = id
          BY <2>1 DEF At, Resumable
        <5>1. CASE id \in eino
          BY <2>2, <3>2, <3>5, <5>1 DEF ApprovalsInv, ResumeInv, StoresOK, Resumable
        <5>2. CASE id \notin eino
          BY <2>1, <3>3, <5>2
        <5>3. QED  BY <5>1, <5>2
      <4>2. \A b \in Answers : Needs(b) => ans[b].id \in DOMAIN cards
        BY <2>2 DEF Needs, AnswersOK, At
      <4>3. (\A b \in Answers : Needs(b) => Resumable(ans[b].id))'
        BY <2>1, <3>2, <3>5, <4>2 DEF ApprovalsInv, ResumeInv, Needs, At
      <4>4. QED  BY <4>1, <4>3 DEF ResumeInv
    <3>6. QED  BY <3>4, <3>5
  <2>12. QED  BY <2>6, <2>7, <2>8, <2>9, <2>10, <2>11 DEF ApprovalsInv
<1>4. QED
  BY <1>1, <1>2, <1>3

(***************************************************************************)
(* An answer begins.                                                       *)
(***************************************************************************)
LEMMA BeginKeeps ==
  ASSUME ApprovalsInv, NEW a \in Answers, NEW id \in DOMAIN cards, NEW d \in {"approve", "reject"},
         Begin(a, id, d)
  PROVE  ApprovalsInv'
<1>1. /\ CardsOK /\ StoresOK /\ AnswersOK /\ RunsInv /\ SettledInv /\ RepairInv /\ SlotsInv /\ ResumeInv
      /\ turns \subseteq Slots /\ result \in BOOLEAN
  BY DEF ApprovalsInv, ApprovalsTypeOK
<1>2. /\ ans[a].pc = "idle" /\ ans[a].id = 0 /\ id # 0
      /\ UNCHANGED <<cards, check, turns, result, ran, settled>>
  <2>1. id # 0
    BY <1>1 DEF CardsOK
  <2>2. QED  BY <1>1, <2>1 DEF Begin, At, AnswersOK
<1>3. PICK pc \in {"resume", "run", "drop", "reply", "missed"} :
        /\ Answering(a, id, d, pc)
        /\ eino' \subseteq eino /\ legacy' \subseteq legacy /\ id \notin legacy'
        /\ pc # "resume" => id \notin eino'
        /\ pc \in {"resume", "drop"} => id \in eino
        /\ pc # "missed" => id \in eino \cup legacy
        /\ pc \in {"resume", "run"} => d = "approve"
  <2>1. CASE FindEino(a, id, d)
    BY <1>1, <2>1 DEF FindEino, SettledInv
  <2>2. CASE TakeLegacy(a, id, d)
    BY <2>2 DEF TakeLegacy
  <2>3. CASE NotFound(a, id, d)
    BY <2>3 DEF NotFound
  <2>4. QED  BY <2>1, <2>2, <2>3 DEF Begin
<1>4. /\ AnswersOK' /\ \A b \in Answers \ {a} : ans'[b] = ans[b]
      /\ ans'[a].pc = pc /\ ans'[a].id = id /\ ans'[a].decision = d /\ ans'[a].late = (id \in settled)
      /\ ans'[a].stmt = cards[id].stmt /\ ans'[a].loaded = FALSE
  <2>1. pc \in Pcs /\ pc # "idle"
    BY DEF Pcs, Over
  <2>2. /\ AnswersOK' /\ \A b \in Answers \ {a} : ans'[b] = ans[b]
        /\ ans'[a] = [pc |-> pc, id |-> id, decision |-> d, late |-> id \in settled,
                      stmt |-> cards[id].stmt, asks |-> FALSE, loaded |-> FALSE]
    BY <1>1, <1>2, <1>3, <2>1, BegunMoves
  <2>3. QED  BY <2>2
<1>5. ApprovalsTypeOK'
  BY <1>1, <1>2, <1>3, <1>4 DEF ApprovalsTypeOK, CardsOK, StoresOK
<1>6. RunsInv'
  <2>1. CardsKept /\ RanKept
    BY <1>2 DEF CardsKept, RanKept
  <2>2. \A i \in DOMAIN cards : Spent(i) \subseteq Spent(i)'
    <3>1. \A i \in DOMAIN cards : i # 0
      BY <1>1 DEF CardsOK
    <3>2. QED  BY <1>2, <1>4, <3>1 DEF Spent
  <2>3. \A b \in Answers : ans'[b].pc \in {"resume", "run", "repair", "model"} => ans'[b].decision = "approve"
    BY <1>1, <1>3, <1>4 DEF RunsInv
  <2>4. \A b \in Answers : ans'[b].pc = "run" => ans'[b].stmt = cards'[ans'[b].id].stmt
    BY <1>1, <1>2, <1>4 DEF RunsInv, At
  <2>5. QED  BY <1>1, <2>1, <2>2, <2>3, <2>4, KeptRuns DEF RunsInv, At
<1>7. SettledInv'
  <2>1. eino' \cap legacy' = {} /\ settled' \cap (eino' \cup legacy') = {}
    BY <1>1, <1>2, <1>3 DEF SettledInv
  <2>2. \A b \in Answers : ans'[b].pc \notin Over \cup {"idle"} => ans'[b].id \notin legacy'
    BY <1>1, <1>3, <1>4 DEF SettledInv
  <2>3. \A b \in Answers : Took(b)' => ans'[b].id \notin eino'
    BY <1>1, <1>3, <1>4 DEF SettledInv, Took
  <2>4. SettledStaysSettled'
    BY <1>1, <1>3, <1>4 DEF SettledInv, SettledStaysSettled, Over
  <2>5. QED  BY <2>1, <2>2, <2>3, <2>4 DEF SettledInv
<1>8. RepairInv' /\ SlotsInv'
  <2>1. RepairedOnce' /\ SlotsInv' /\ \A i \in eino' : cards'[i].parent = 0
    BY <1>1, <1>2, <1>3 DEF RepairInv, RepairedOnce, SlotsInv
  <2>2. \A b \in Answers : ans'[b].pc \in {"repair", "resume"} \/ (ans'[b].pc # "idle" /\ ans'[b].loaded)
                           => cards'[ans'[b].id].parent = 0
    BY <1>1, <1>2, <1>3, <1>4 DEF RepairInv, At
  <2>3. QED  BY <2>1, <2>2 DEF RepairInv, At
<1>9. ResumeInv'
  <2>1. CASE Twice
    <3>1. PICK b, c \in Answers : b # c /\ ans[b].id # 0 /\ ans[b].id = ans[c].id
      BY <2>1 DEF Twice
    <3>2. b # a /\ c # a
      BY <1>2, <3>1
    <3>3. QED  BY <1>4, <3>1, <3>2 DEF ResumeInv, Twice
  <2>2. CASE Twice'
    BY <2>2 DEF ResumeInv
  <2>3. CASE ~Twice /\ ~Twice'
    <3>1. \A b \in Answers \ {a} : ans[b].id # id
      BY <1>2, <1>4, <2>3 DEF Twice
    <3>2. /\ \A i \in eino : Resumable(i) \/ \E b \in Answers : At(b, "settle") /\ ans[b].id = i
          /\ \A b \in Answers : Needs(b) => Resumable(ans[b].id)
      BY <1>1, <2>3 DEF ResumeInv
    <3>3. id \in eino => Resumable(id)
      BY <1>2, <3>1, <3>2
    <3>4. (\A i \in eino : Resumable(i) \/ \E b \in Answers : At(b, "settle") /\ ans[b].id = i)'
      <4> SUFFICES ASSUME NEW i \in eino', ~Resumable(i)
                   PROVE  \E b \in Answers : ans'[b].pc = "settle" /\ ans'[b].id = i
        BY <1>2 DEF Resumable, At
      <4>1. PICK b \in Answers : At(b, "settle") /\ ans[b].id = i
        BY <1>3, <3>2
      <4>2. QED  BY <1>2, <1>4, <4>1 DEF At
    <3>5. (\A b \in Answers : Needs(b) => Resumable(ans[b].id))'
      <4> SUFFICES ASSUME NEW b \in Answers, Needs(b)' PROVE Resumable(ans'[b].id)
        BY <1>2 DEF Resumable
      <4>1. CASE b = a
        BY <1>3, <1>4, <3>3, <4>1 DEF Needs, At
      <4>2. CASE b # a
        BY <1>4, <3>2, <4>2 DEF Needs, At
      <4>3. QED  BY <4>1, <4>2
    <3>6. QED  BY <3>4, <3>5 DEF ResumeInv
  <2>4. QED  BY <2>1, <2>2, <2>3
<1>10. QED
  BY <1>5, <1>6, <1>7, <1>8, <1>9 DEF ApprovalsInv

(***************************************************************************)
(* An answer goes on.                                                      *)
(***************************************************************************)
(* Steps that neither run, nor ask, nor drop a checkpoint, nor reply.      *)
LEMMA MoveKeeps ==
  ASSUME ApprovalsInv, NEW a \in Answers, NEW pc \in Pcs, pc \notin {"idle", "resume", "run"},
         ans[a].pc \notin Over \cup {"idle"}, Goto(a, pc),
         UNCHANGED <<cards, ran, check, turns, legacy, settled>>, eino' \subseteq eino, result' \in BOOLEAN,
         pc \in {"repair", "model"} => ans[a].decision = "approve",
         pc = "repair" => cards[ans[a].id].parent = 0,
         Took(a)' => ans[a].id \notin eino', At(a, "settle") => ans[a].id \notin eino',
         ~Twice /\ Needs(a)' => Resumable(ans[a].id)
  PROVE  ApprovalsInv'
<1>1. /\ CardsOK /\ StoresOK /\ AnswersOK /\ RunsInv /\ SettledInv /\ RepairInv /\ SlotsInv /\ ResumeInv
      /\ turns \subseteq Slots /\ result \in BOOLEAN
  BY DEF ApprovalsInv, ApprovalsTypeOK
<1>2. AnswersOK' /\ Moved(a, pc, ans[a].asks, ans[a].loaded)
  BY <1>1, GotoMoves
<1>3. CardsKept /\ RanKept
  BY DEF CardsKept, RanKept
<1>4. ApprovalsTypeOK'
  BY <1>1, <1>2 DEF ApprovalsTypeOK, CardsOK, StoresOK
<1>5. RunsInv'
  BY <1>1, <1>2, <1>3, MoveRuns
<1>6. SettledInv'
  <2>1. eino' \cap legacy' = {}
    BY <1>1 DEF SettledInv
  <2>2. QED  BY <1>1, <1>2, <2>1, MoveSettled DEF StoresOK
<1>7. RepairInv'
  <2>1. ans[a].loaded => cards[ans[a].id].parent = 0
    BY <1>1 DEF RepairInv, At
  <2>2. QED  BY <1>1, <1>2, <1>3, <2>1, MoveRepair
<1>8. SlotsInv'
  BY <1>1 DEF SlotsInv
<1>9. ResumeInv'
  BY <1>1, <1>2, <1>3, MoveResume
<1>10. QED
  BY <1>4, <1>5, <1>6, <1>7, <1>8, <1>9 DEF ApprovalsInv

(* The checkpoint of the answered card itself is loaded.                   *)
LEMMA LoadKeeps ==
  ASSUME ApprovalsInv, NEW a \in Answers, ResumeTarget(a)
  PROVE  ApprovalsInv'
<1> DEFINE id == ans[a].id
<1>1. /\ CardsOK /\ StoresOK /\ AnswersOK /\ RunsInv /\ SettledInv /\ RepairInv /\ SlotsInv /\ ResumeInv
      /\ turns \subseteq Slots /\ result \in BOOLEAN
  BY DEF ApprovalsInv, ApprovalsTypeOK
<1>2. /\ ans[a].pc = "resume" /\ UNCHANGED <<cards, eino, legacy, check, turns, result, ran, settled>>
      /\ check[cards[id].slot] = id
      /\ ans' = [ans EXCEPT ![a].pc = "run", ![a].loaded = TRUE, ![a].stmt = cards[id].stmt]
  BY DEF ResumeTarget, At
<1>3. id \in DOMAIN cards /\ cards[id].stmt \in Stmts
  <2>1. id \in DOMAIN cards
    BY <1>1, <1>2 DEF AnswersOK, At
  <2>2. QED  BY <1>1, <2>1, CardShown DEF Card
<1>4. AnswersOK' /\ Moved(a, "run", ans[a].asks, TRUE) /\ ans'[a].stmt = cards[id].stmt
  BY <1>1, <1>2, <1>3, LoadMoves
<1>5. CardsKept /\ RanKept
  BY <1>2 DEF CardsKept, RanKept
<1>6. ApprovalsTypeOK'
  BY <1>1, <1>2, <1>4 DEF ApprovalsTypeOK, CardsOK, StoresOK
<1>7. RunsInv'
  <2>1. \A i \in DOMAIN cards : Spent(i) \subseteq Spent(i)'
    BY <1>2, <1>4 DEF Spent, Moved
  <2>2. ASSUME NEW b \in Answers, ans'[b].pc \in {"resume", "run", "repair", "model"} PROVE ans'[b].decision = "approve"
    <3>1. ans[b].pc \in {"resume", "run", "repair", "model"} /\ ans'[b].decision = ans[b].decision
      BY <1>2, <1>4, <2>2 DEF Moved
    <3>2. QED  BY <1>1, <3>1 DEF RunsInv
  <2>3. \A b \in Answers : ans'[b].pc = "run" => ans'[b].stmt = cards'[ans'[b].id].stmt
    <3>1. ans'[a].stmt = cards'[ans'[a].id].stmt
      <4>1. ans'[a].id = id /\ cards' = cards
        BY <1>2, <1>4 DEF Moved
      <4>2. QED  BY <1>4, <4>1
    <3>2. ASSUME NEW b \in Answers \ {a}, ans'[b].pc = "run" PROVE ans'[b].stmt = cards'[ans'[b].id].stmt
      <4>1. ans'[b] = ans[b] /\ cards' = cards
        BY <1>2, <1>4 DEF Moved
      <4>2. ans[b].pc = "run" => ans[b].stmt = cards[ans[b].id].stmt
        BY <1>1 DEF RunsInv, At
      <4>3. QED  BY <3>2, <4>1, <4>2
    <3>3. QED  BY <3>1, <3>2
  <2>4. QED  BY <1>1, <1>5, <2>1, <2>2, <2>3, KeptRuns DEF RunsInv, At
<1>8. SettledInv'
  <2>1. ~(Took(a)') /\ ans[a].pc \notin Over \cup {"idle"}
    BY <1>2, <1>4 DEF Took, Moved, Over
  <2>2. eino' \cap legacy' = {}
    BY <1>1, <1>2 DEF SettledInv
  <2>3. QED  BY <1>1, <1>2, <1>4, <2>1, <2>2, MoveSettled DEF StoresOK
<1>9. RepairInv' /\ SlotsInv'
  <2>1. RepairInv'
    <3>1. cards[id].parent = 0 /\ ans[a].pc # "idle"
      BY <1>1, <1>2 DEF RepairInv, At
    <3>2. QED  BY <1>1, <1>2, <1>4, <1>5, <3>1, MoveRepair
  <2>2. QED  BY <1>1, <1>2, <2>1 DEF SlotsInv
<1>10. ResumeInv'
  BY <1>1, <1>2, <1>4, <1>5, MoveResume DEF Resumable, At
<1>11. QED
  BY <1>6, <1>7, <1>8, <1>9, <1>10 DEF ApprovalsInv

(* A statement runs: one more run of the card, one more answer spent.      *)
LEMMA RunKeeps ==
  ASSUME ApprovalsInv, NEW a \in Answers, RunOk(a) \/ RunFail(a) \/ RunDirect(a)
  PROVE  ApprovalsInv'
<1> DEFINE id == ans[a].id
<1>1. /\ CardsOK /\ StoresOK /\ AnswersOK /\ RunsInv /\ SettledInv /\ RepairInv /\ SlotsInv /\ ResumeInv
      /\ turns \subseteq Slots /\ result \in BOOLEAN
  BY DEF ApprovalsInv, ApprovalsTypeOK
<1>2. /\ ans[a].pc = "run" /\ ans[a].decision = "approve" /\ id \in DOMAIN cards
      /\ ans[a].stmt = cards[id].stmt /\ ran' = [ran EXCEPT ![id] = Append(@, ans[a].stmt)]
      /\ UNCHANGED <<cards, eino, legacy, check, turns, settled>> /\ result' \in BOOLEAN
  <2>1. ans[a].pc = "run"
    BY DEF RunOk, RunFail, RunDirect, Running, At
  <2>2. ans[a].decision = "approve" /\ id \in DOMAIN cards /\ ans[a].stmt = cards[id].stmt
    BY <1>1, <2>1 DEF RunsInv, AnswersOK, At
  <2>3. QED  BY <1>1, <2>1, <2>2 DEF RunOk, RunFail, RunDirect, Running
<1>3. ans[a].loaded => cards[id].parent = 0
  BY <1>1, <1>2 DEF RepairInv, At
<1>4. PICK pc \in {"model", "reply", "repair", "settle"} :
        /\ Goto(a, pc)
        /\ pc = "repair" => cards[id].parent = 0
        /\ pc = "reply" => ~ans[a].loaded
        /\ pc \in {"model", "settle"} => ans[a].loaded
  <2>1. CASE RunOk(a)
    BY <2>1 DEF RunOk
  <2>2. CASE RunFail(a)
    BY <1>3, <2>2 DEF RunFail, Repairs
  <2>3. CASE RunDirect(a)
    BY <2>3 DEF RunDirect
  <2>4. QED  BY <2>1, <2>2, <2>3
<1>5. AnswersOK' /\ Moved(a, pc, ans[a].asks, ans[a].loaded)
  <2>1. pc \in Pcs /\ pc # "idle" /\ ans[a].pc # "idle"
    BY <1>2 DEF Pcs
  <2>2. QED  BY <1>1, <1>2, <1>4, <2>1, GotoMoves
<1>6. CardsKept
  BY <1>2 DEF CardsKept
<1>7. /\ ran' \in Seq(Seq(Stmts)) /\ Len(ran') = Len(ran)
      /\ Len(ran'[id]) = Len(ran[id]) + 1 /\ Len(ran[id]) \in Nat
      /\ \A k \in DOMAIN ran'[id] : ran'[id][k] = cards[id].stmt
      /\ \A i \in DOMAIN cards \ {id} : ran'[i] = ran[i]
  <2>1. ran \in Seq(Seq(Stmts)) /\ Len(ran) = Len(cards) /\ cards \in Seq(Card) /\ id \in DOMAIN ran
    BY <1>1, <1>2 DEF CardsOK
  <2>2. ran[id] \in Seq(Stmts) /\ cards[id].stmt \in Stmts
    BY <1>1, <1>2, <2>1, CardShown DEF Card
  <2> DEFINE more == Append(ran[id], cards[id].stmt)
  <2>3. more \in Seq(Stmts) /\ Len(more) = Len(ran[id]) + 1 /\ Len(ran[id]) \in Nat
    BY <2>2
  <2>4. \A k \in DOMAIN more : more[k] = cards[id].stmt
    <3> SUFFICES ASSUME NEW k \in DOMAIN more PROVE more[k] = cards[id].stmt
      OBVIOUS
    <3>1. k \in 1..(Len(ran[id]) + 1)
      BY <2>3
    <3>2. CASE k \in 1..Len(ran[id])
      BY <1>1, <1>2, <2>2, <3>2 DEF RunsInv
    <3>3. CASE k = Len(ran[id]) + 1
      BY <2>2, <3>3
    <3>4. QED  BY <2>3, <3>1, <3>2, <3>3
  <2>5. ran' = [ran EXCEPT ![id] = more]
    BY <1>2
  <2> HIDE DEF more
  <2>6. ran' \in Seq(Seq(Stmts)) /\ Len(ran') = Len(ran) /\ ran'[id] = more
        /\ \A i \in DOMAIN ran \ {id} : ran'[i] = ran[i]
    BY <2>1, <2>3, <2>5
  <2>7. DOMAIN ran = DOMAIN cards
    BY <2>1
  <2>8. QED  BY <2>3, <2>4, <2>6, <2>7
<1>8. ApprovalsTypeOK'
  BY <1>1, <1>2, <1>5, <1>7 DEF ApprovalsTypeOK, CardsOK, StoresOK
<1>9. RunsInv'
  <2>1. \A b \in Answers : ans'[b].pc \in {"resume", "run", "repair", "model"} => ans'[b].decision = "approve"
    BY <1>1, <1>2, <1>5 DEF RunsInv, Moved
  <2>2. \A b \in Answers : ans'[b].pc = "run" => ans'[b].stmt = cards'[ans'[b].id].stmt
    BY <1>1, <1>2, <1>4, <1>5 DEF RunsInv, Moved, At
  <2>3. \A i \in DOMAIN cards : Spent(i)' = IF i = id THEN Spent(i) \cup {a} ELSE Spent(i)
    BY <1>2, <1>4, <1>5 DEF Spent, Moved
  <2>4. a \notin Spent(id) /\ \A i \in DOMAIN cards : IsFiniteSet(Spent(i)) /\ Cardinality(Spent(i)) \in Nat
    <3>1. \A i \in DOMAIN cards : Spent(i) \subseteq Answers
      BY DEF Spent
    <3>2. QED  BY <1>2, <3>1, ApprovalsAssumption, FS_Subset, FS_CardinalityType DEF Spent
  <2>5. Cardinality(Spent(id) \cup {a}) = Cardinality(Spent(id)) + 1
    BY <1>2, <2>4, FS_AddElement
  <2>6. ASSUME NEW i \in DOMAIN cards
        PROVE  /\ \A k \in DOMAIN ran'[i] : ran'[i][k] = cards[i].stmt
               /\ Len(ran'[i]) <= Cardinality(Spent(i)')
    <3>1. Len(ran[i]) <= Cardinality(Spent(i))
      BY <1>1 DEF RunsInv
    <3>2. CASE i = id
      <4>1. Cardinality(Spent(i)') = Cardinality(Spent(i)) + 1
        BY <2>3, <2>5, <3>2
      <4>2. Len(ran'[i]) = Len(ran[i]) + 1 /\ Len(ran[i]) \in Nat /\ Cardinality(Spent(i)) \in Nat
        BY <1>7, <2>4, <3>2
      <4>3. Len(ran'[i]) <= Cardinality(Spent(i)')
        BY <3>1, <4>1, <4>2
      <4>4. QED  BY <1>7, <3>2, <4>3
    <3>3. CASE i # id
      BY <1>1, <1>7, <2>3, <3>1, <3>3 DEF RunsInv
    <3>4. QED  BY <3>2, <3>3
  <2>7. QED  BY <1>2, <2>1, <2>2, <2>6 DEF RunsInv, At
<1>10. SettledInv'
  <2>1. Took(a)' => ans[a].id \notin eino'
    BY <1>1, <1>2, <1>4, <1>5 DEF Took, Moved, SettledInv
  <2>2. ans[a].pc \notin Over \cup {"idle"} /\ pc # "idle" /\ eino' \cap legacy' = {}
    BY <1>1, <1>2 DEF Over, SettledInv
  <2>3. QED  BY <1>1, <1>2, <1>5, <2>1, <2>2, MoveSettled DEF StoresOK
<1>11. RepairInv' /\ SlotsInv'
  <2>1. RepairInv'
    BY <1>1, <1>2, <1>3, <1>4, <1>5, <1>6, MoveRepair
  <2>2. QED  BY <1>1, <1>2, <2>1 DEF SlotsInv
<1>12. ResumeInv'
  <2>1. ~Twice /\ Needs(a)' => Resumable(ans[a].id)
    BY <1>1, <1>2, <1>4, <1>5 DEF Needs, Moved, At, ResumeInv
  <2>2. QED  BY <1>1, <1>2, <1>5, <1>6, <2>1, MoveResume DEF At
<1>13. QED
  BY <1>8, <1>9, <1>10, <1>11, <1>12 DEF ApprovalsInv

(* An answer ends in a new question: of the model, of the tool that finds  *)
(* the turn elsewhere, or of the repair.                                   *)
LEMMA AskKeeps ==
  ASSUME ApprovalsInv, NEW a \in Answers, NEW stmt \in Stmts, NEW parent \in {0, ans[a].id},
         ans[a].pc \in {"resume", "repair", "model"},
         parent # 0 => cards[ans[a].id].parent = 0,
         ShowCard(stmt, cards[ans[a].id].slot, parent),
         ans' = [ans EXCEPT ![a].pc = "settle", ![a].asks = TRUE],
         UNCHANGED <<turns, result, settled>>,
         \/ /\ eino' = eino \cup {NewId} /\ legacy' = legacy
            /\ check' = [check EXCEPT ![cards[ans[a].id].slot] = NewId]
            /\ parent = 0
            /\ ~Twice => Resumable(ans[a].id)
         \/ eino' = eino /\ legacy' = legacy \cup {NewId} /\ check' = check
  PROVE  ApprovalsInv'
<1> DEFINE id == ans[a].id
           s == cards[id].slot
<1>1. /\ CardsOK /\ StoresOK /\ AnswersOK /\ RunsInv /\ SettledInv /\ RepairInv /\ SlotsInv /\ ResumeInv
      /\ turns \subseteq Slots /\ result \in BOOLEAN
  BY DEF ApprovalsInv, ApprovalsTypeOK
<1>2. id \in DOMAIN cards /\ s \in Slots /\ s \in turns
  <2>1. id \in DOMAIN cards
    BY <1>1 DEF AnswersOK, At
  <2>2. QED  BY <1>1, <2>1, CardShown DEF Card, SlotsInv
<1>3. CardsOK' /\ Shown(stmt, s, parent)
  <2>1. parent \in Nat /\ parent < NewId
    BY <1>1, <1>2 DEF CardsOK, NewId
  <2>2. QED  BY <1>1, <1>2, <2>1, ShowCardShows
<1>4. CardsKept /\ RanKept
  BY <1>3 DEF Shown, CardsKept, RanKept
<1>5. AnswersOK' /\ Moved(a, "settle", TRUE, ans[a].loaded)
  <2>1. ans[a].pc # "idle"
    OBVIOUS
  <2>2. QED  BY <1>1, <1>4, <2>1, AsksMoves DEF CardsKept
<1>6. ApprovalsTypeOK'
  <2>1. StoresOK'
    BY <1>1, <1>3 DEF StoresOK, Shown
  <2>2. QED  BY <1>1, <1>3, <1>5, <2>1 DEF ApprovalsTypeOK
<1>7. RunsInv'
  <2>1. "settle" \notin {"resume", "run"} /\ "settle" \notin {"repair", "model"}
    OBVIOUS
  <2>2. QED  BY <1>1, <1>4, <1>5, <2>1, MoveRuns
<1>8. SettledInv'
  <2>1. ~(Took(a)')
    BY <1>5 DEF Took, Moved
  <2>2. ans[a].pc \notin Over \cup {"idle"}
    BY DEF Over
  <2>3. /\ eino' \cap legacy' = {}
        /\ eino' \cap DOMAIN cards \subseteq eino /\ legacy' \cap DOMAIN cards \subseteq legacy
    BY <1>1, <1>3 DEF SettledInv, StoresOK, Shown
  <2>4. QED  BY <1>1, <1>5, <2>1, <2>2, <2>3, MoveSettled DEF StoresOK
<1>9. RepairInv'
  <2>1. \A b \in Answers : ans'[b].pc \in {"repair", "resume"} \/ (ans'[b].pc # "idle" /\ ans'[b].loaded)
                           => cards'[ans'[b].id].parent = 0
    <3> SUFFICES ASSUME NEW b \in Answers,
                        ans'[b].pc \in {"repair", "resume"} \/ (ans'[b].pc # "idle" /\ ans'[b].loaded)
                 PROVE  cards'[ans'[b].id].parent = 0
      OBVIOUS
    <3>1. ans'[b].id = ans[b].id /\ cards[ans[b].id].parent = 0 /\ ans[b].pc # "idle"
      <4>1. CASE b = a
        BY <1>1, <1>5, <4>1 DEF Moved, RepairInv, At
      <4>2. CASE b # a
        BY <1>1, <1>5, <4>2 DEF Moved, RepairInv, At
      <4>3. QED  BY <4>1, <4>2
    <3>2. ans[b].id \in DOMAIN cards
      BY <1>1, <3>1 DEF AnswersOK, At
    <3>3. QED  BY <1>4, <3>1, <3>2 DEF CardsKept
  <2>2. \A i \in eino' : cards'[i].parent = 0
    BY <1>1, <1>3 DEF RepairInv, StoresOK, Shown
  <2>3. RepairedOnce'
    BY <1>1, <1>2, <1>3, ParentShown DEF RepairInv, RepairedOnce, Shown
  <2>4. QED  BY <2>1, <2>2, <2>3 DEF RepairInv, At
<1>10. SlotsInv'
  BY <1>1, <1>2, <1>3 DEF SlotsInv, Shown
<1>11. ResumeInv'
  <2>1. ~(Needs(a)')
    BY <1>5 DEF Needs, Moved, At
  <2>2. CASE eino' = eino /\ check' = check
    BY <1>1, <1>4, <1>5, <2>1, <2>2, MoveResume DEF At
  <2>3. CASE Twice
    <3>1. PICK b, c \in Answers : b # c /\ ans[b].id # 0 /\ ans[b].id = ans[c].id
      BY <2>3 DEF Twice
    <3>2. ans'[b].id = ans[b].id /\ ans'[c].id = ans[c].id
      BY <1>5 DEF Moved
    <3>3. QED  BY <3>1, <3>2 DEF ResumeInv, Twice
  <2>4. CASE ~Twice /\ eino' = eino \cup {NewId} /\ check' = [check EXCEPT ![s] = NewId] /\ Resumable(id)
    <3>1. check[s] = id /\ check' \in [Slots -> {0} \cup DOMAIN cards'] /\ check'[s] = NewId
          /\ \A r \in Slots \ {s} : check'[r] = check[r]
      BY <1>1, <1>2, <1>3, <2>4 DEF Resumable, StoresOK, Shown
    <3>2. \A i \in DOMAIN cards : Resumable(i) /\ i # id => check'[cards'[i].slot] = i
      <4> SUFFICES ASSUME NEW i \in DOMAIN cards, Resumable(i), i # id PROVE check'[cards'[i].slot] = i
        OBVIOUS
      <4>1. cards[i].slot \in Slots /\ cards'[i] = cards[i]
        BY <1>1, <1>4, CardShown DEF Card, CardsKept
      <4>2. QED  BY <3>1, <4>1 DEF Resumable
    <3>3. check'[cards'[NewId].slot] = NewId
      BY <1>3, <3>1 DEF Shown
    <3>4. /\ \A i \in eino : Resumable(i) \/ \E b \in Answers : At(b, "settle") /\ ans[b].id = i
          /\ \A b \in Answers : Needs(b) => Resumable(ans[b].id)
      BY <1>1, <2>4 DEF ResumeInv
    <3>5. (\A i \in eino : Resumable(i) \/ \E b \in Answers : At(b, "settle") /\ ans[b].id = i)'
      <4> SUFFICES ASSUME NEW i \in eino'
                   PROVE  \/ check'[cards'[i].slot] = i
                          \/ \E b \in Answers : ans'[b].pc = "settle" /\ ans'[b].id = i
        BY DEF Resumable, At
      <4>1. CASE i = NewId
        BY <3>3, <4>1
      <4>2. CASE i = id
        BY <1>5, <4>2 DEF Moved
      <4>3. CASE i \in eino /\ i # id
        <5>1. CASE Resumable(i)
          BY <1>1, <3>2, <4>3, <5>1 DEF StoresOK
        <5>2. CASE ~Resumable(i)
          <6>1. PICK b \in Answers : At(b, "settle") /\ ans[b].id = i
            BY <3>4, <4>3, <5>2
          <6>2. b # a
            BY <4>3, <6>1
          <6>3. QED  BY <1>5, <6>1, <6>2 DEF Moved, At
        <5>3. QED  BY <5>1, <5>2
      <4>4. QED  BY <2>4, <4>1, <4>2, <4>3
    <3>6. \A b \in Answers : Needs(b)' => check'[cards'[ans'[b].id].slot] = ans'[b].id
      <4> SUFFICES ASSUME NEW b \in Answers, Needs(b)'
                   PROVE  check'[cards'[ans'[b].id].slot] = ans'[b].id
        OBVIOUS
      <4>1. b # a /\ ans'[b] = ans[b]
        BY <1>5, <2>1 DEF Moved
      <4>2. Needs(b) /\ ans[b].id \in DOMAIN cards
        BY <1>1, <4>1 DEF Needs, At, AnswersOK
      <4>3. ans[b].id # id
        <5>1. ans[b].id # 0
          BY <1>1, <4>2 DEF CardsOK
        <5>2. QED  BY <2>4, <4>1, <5>1 DEF Twice
      <4>4. QED  BY <3>2, <3>4, <4>1, <4>2, <4>3
    <3>7. (\A b \in Answers : Needs(b) => Resumable(ans[b].id))'
      BY <3>6 DEF Resumable
    <3>8. QED  BY <3>5, <3>7 DEF ResumeInv
  <2>5. QED  BY <2>2, <2>3, <2>4
<1>12. QED
  BY <1>6, <1>7, <1>8, <1>9, <1>10, <1>11 DEF ApprovalsInv

(* The last steps of an answer: its checkpoint goes, then it is told.      *)
LEMMA DropKeeps ==
  ASSUME ApprovalsInv, NEW a \in Answers, DropCheckpoint(a)
  PROVE  ApprovalsInv'
<1> DEFINE id == ans[a].id
           s == cards[id].slot
<1>1. /\ CardsOK /\ StoresOK /\ AnswersOK /\ RunsInv /\ SettledInv /\ RepairInv /\ SlotsInv /\ ResumeInv
      /\ turns \subseteq Slots /\ result \in BOOLEAN
  BY DEF ApprovalsInv, ApprovalsTypeOK
<1>2. /\ ans[a].pc = "drop" /\ check' = [check EXCEPT ![s] = 0] /\ Goto(a, "reply")
      /\ UNCHANGED <<cards, eino, legacy, turns, result, ran, settled>>
  BY DEF DropCheckpoint, At
<1>3. id \in DOMAIN cards /\ s \in Slots
  <2>1. id \in DOMAIN cards
    BY <1>1, <1>2 DEF AnswersOK, At
  <2>2. QED  BY <1>1, <2>1, CardShown DEF Card
<1>4. AnswersOK' /\ Moved(a, "reply", ans[a].asks, ans[a].loaded)
  <2>1. "reply" \in Pcs /\ ans[a].pc # "idle"
    BY <1>2 DEF Pcs
  <2>2. QED  BY <1>1, <1>2, <2>1, GotoMoves
<1>5. CardsKept /\ RanKept
  BY <1>2 DEF CardsKept, RanKept
<1>6. ApprovalsTypeOK'
  BY <1>1, <1>2, <1>4 DEF ApprovalsTypeOK, CardsOK, StoresOK
<1>7. RunsInv'
  <2>1. "reply" \notin {"resume", "run"} /\ "reply" \notin {"repair", "model"}
    OBVIOUS
  <2>2. QED  BY <1>1, <1>4, <1>5, <2>1, MoveRuns
<1>8. id \notin eino
  BY <1>1, <1>2 DEF SettledInv, Took
<1>9. SettledInv'
  <2>1. ans[a].pc \notin Over \cup {"idle"} /\ eino' \cap legacy' = {}
    BY <1>1, <1>2 DEF SettledInv, Over
  <2>2. QED  BY <1>1, <1>2, <1>4, <1>8, <2>1, MoveSettled DEF StoresOK
<1>10. RepairInv' /\ SlotsInv'
  <2>1. ans[a].pc # "idle" /\ (ans[a].loaded => cards[ans[a].id].parent = 0)
    BY <1>1, <1>2 DEF RepairInv, At
  <2>2. RepairInv'
    BY <1>1, <1>2, <1>4, <1>5, <2>1, MoveRepair
  <2>3. QED  BY <1>1, <1>2, <2>2 DEF SlotsInv
<1>11. ResumeInv'
  <2>1. CASE Twice
    <3>1. PICK b, c \in Answers : b # c /\ ans[b].id # 0 /\ ans[b].id = ans[c].id
      BY <2>1 DEF Twice
    <3>2. ans'[b].id = ans[b].id /\ ans'[c].id = ans[c].id
      BY <1>4 DEF Moved
    <3>3. QED  BY <3>1, <3>2 DEF ResumeInv, Twice
  <2>2. CASE ~Twice
    <3>1. /\ \A i \in eino : Resumable(i) \/ \E b \in Answers : At(b, "settle") /\ ans[b].id = i
          /\ \A b \in Answers : Needs(b) => Resumable(ans[b].id)
      BY <1>1, <2>2 DEF ResumeInv
    <3>2. check[s] = id
      BY <1>2, <3>1 DEF Needs, Resumable
    <3>3. \A i \in DOMAIN cards : Resumable(i) /\ i # id => check'[cards[i].slot] = i
      <4> SUFFICES ASSUME NEW i \in DOMAIN cards, Resumable(i), i # id PROVE check'[cards[i].slot] = i
        OBVIOUS
      <4>1. cards[i].slot \in Slots \ {s}
        BY <1>1, <3>2, CardShown DEF Card, Resumable
      <4>2. QED  BY <1>1, <1>2, <4>1 DEF Resumable, StoresOK
    <3>4. (\A i \in eino : Resumable(i) \/ \E b \in Answers : At(b, "settle") /\ ans[b].id = i)'
      <4> SUFFICES ASSUME NEW i \in eino
                   PROVE  \/ check'[cards[i].slot] = i
                          \/ \E b \in Answers : ans'[b].pc = "settle" /\ ans'[b].id = i
        BY <1>2 DEF Resumable, At
      <4>1. i # id /\ i \in DOMAIN cards
        BY <1>1, <1>8 DEF StoresOK
      <4>2. CASE Resumable(i)
        BY <3>3, <4>1, <4>2
      <4>3. CASE ~Resumable(i)
        <5>1. PICK b \in Answers : At(b, "settle") /\ ans[b].id = i
          BY <3>1, <4>3
        <5>2. b # a
          BY <4>1, <5>1
        <5>3. QED  BY <1>4, <5>1, <5>2 DEF Moved, At
      <4>4. QED  BY <4>2, <4>3
    <3>5. \A b \in Answers : Needs(b)' => check'[cards[ans'[b].id].slot] = ans'[b].id
      <4> SUFFICES ASSUME NEW b \in Answers, Needs(b)' PROVE check'[cards[ans'[b].id].slot] = ans'[b].id
        OBVIOUS
      <4>1. b # a /\ ans'[b] = ans[b]
        BY <1>4 DEF Moved, Needs, At
      <4>2. Needs(b) /\ ans[b].id \in DOMAIN cards
        BY <1>1, <4>1 DEF Needs, At, AnswersOK
      <4>3. ans[b].id # id
        <5>1. ans[b].id # 0
          BY <1>1, <4>2 DEF CardsOK
        <5>2. QED  BY <2>2, <4>1, <5>1 DEF Twice
      <4>4. QED  BY <3>1, <3>3, <4>1, <4>2, <4>3
    <3>6. (\A b \in Answers : Needs(b) => Resumable(ans[b].id))'
      BY <1>2, <3>5 DEF Resumable
    <3>7. QED  BY <3>4, <3>6 DEF ResumeInv
  <2>3. QED  BY <2>1, <2>2
<1>12. QED
  BY <1>6, <1>7, <1>9, <1>10, <1>11 DEF ApprovalsInv

LEMMA ReplyKeeps ==
  ASSUME ApprovalsInv, NEW a \in Answers, Reply(a)
  PROVE  ApprovalsInv'
<1> DEFINE id == ans[a].id
<1>1. /\ CardsOK /\ StoresOK /\ AnswersOK /\ RunsInv /\ SettledInv /\ RepairInv /\ SlotsInv /\ ResumeInv
      /\ turns \subseteq Slots /\ result \in BOOLEAN
  BY DEF ApprovalsInv, ApprovalsTypeOK
<1>2. /\ ans[a].pc = "reply" /\ settled' = settled \cup {id} /\ Goto(a, "done")
      /\ UNCHANGED <<cards, eino, legacy, check, turns, result, ran>>
  BY DEF Reply, At
<1>3. id \in DOMAIN cards /\ id \notin eino /\ id \notin legacy
  BY <1>1, <1>2 DEF AnswersOK, SettledInv, Took, At, Over
<1>4. AnswersOK' /\ Moved(a, "done", ans[a].asks, ans[a].loaded)
  <2>1. "done" \in Pcs /\ ans[a].pc # "idle"
    BY <1>2 DEF Pcs, Over
  <2>2. QED  BY <1>1, <1>2, <2>1, GotoMoves
<1>5. CardsKept /\ RanKept
  BY <1>2 DEF CardsKept, RanKept
<1>6. ApprovalsTypeOK'
  BY <1>1, <1>2, <1>3, <1>4 DEF ApprovalsTypeOK, CardsOK, StoresOK
<1>7. RunsInv'
  <2>1. "done" \notin {"resume", "run"} /\ "done" \notin {"repair", "model"}
    OBVIOUS
  <2>2. QED  BY <1>1, <1>4, <1>5, <2>1, MoveRuns
<1>8. SettledInv'
  <2>1. \A b \in Answers : ans'[b].pc \notin Over \cup {"idle"} => ans'[b].id \notin legacy'
    BY <1>1, <1>2, <1>4 DEF SettledInv, Moved, Over
  <2>2. \A b \in Answers : Took(b)' => ans'[b].id \notin eino'
    BY <1>1, <1>2, <1>4 DEF SettledInv, Moved, Took
  <2>3. SettledStaysSettled'
    BY <1>1, <1>2, <1>4 DEF SettledInv, SettledStaysSettled, Moved, Over
  <2>4. QED  BY <1>1, <1>2, <1>3, <2>1, <2>2, <2>3 DEF SettledInv
<1>9. RepairInv' /\ SlotsInv'
  <2>1. ans[a].pc # "idle" /\ (ans[a].loaded => cards[ans[a].id].parent = 0)
    BY <1>1, <1>2 DEF RepairInv, At
  <2>2. RepairInv'
    BY <1>1, <1>2, <1>4, <1>5, <2>1, MoveRepair
  <2>3. QED  BY <1>1, <1>2, <2>2 DEF SlotsInv
<1>10. ResumeInv'
  <2>1. ~(Needs(a)') /\ ans[a].pc # "idle" /\ ~At(a, "settle")
    BY <1>2, <1>4 DEF Needs, Moved, At
  <2>2. QED  BY <1>1, <1>2, <1>4, <1>5, <2>1, MoveResume
<1>11. QED
  BY <1>6, <1>7, <1>8, <1>9, <1>10 DEF ApprovalsInv

(* The stores are lost, and the answers with them.                         *)
LEMMA RestartKeeps ==
  ASSUME ApprovalsInv, Restart
  PROVE  ApprovalsInv'
<1>1. /\ CardsOK /\ StoresOK /\ AnswersOK /\ RunsInv /\ SettledInv /\ RepairInv /\ SlotsInv /\ ResumeInv
      /\ turns \subseteq Slots /\ result \in BOOLEAN
  BY DEF ApprovalsInv, ApprovalsTypeOK
<1>2. /\ eino' = {} /\ legacy' = {} /\ result' = FALSE /\ check' = [s \in Slots |-> 0]
      /\ UNCHANGED <<cards, turns, ran, settled>>
  BY DEF Restart
<1>3. ASSUME NEW a \in Answers
      PROVE  /\ ans'[a] \in AnswerRecord /\ ans'[a].id = ans[a].id /\ ans'[a].decision = ans[a].decision
             /\ ans'[a].loaded = ans[a].loaded /\ ans'[a].late = ans[a].late
             /\ ans'[a].pc = IF ans[a].pc = "idle" THEN "idle" ELSE "done"
  <2>1. ans[a] \in AnswerRecord
    BY <1>1 DEF AnswersOK
  <2>2. ans'[a] = IF ans[a].pc = "idle" THEN ans[a] ELSE [ans[a] EXCEPT !.pc = "done"]
    BY DEF Restart, At
  <2>3. CASE ans[a].pc = "idle"
    BY <2>1, <2>2, <2>3
  <2>4. CASE ans[a].pc # "idle"
    BY <2>1, <2>2, <2>4 DEF AnswerRecord, Pcs, Over
  <2>5. QED  BY <2>3, <2>4
<1>4. AnswersOK'
  <2>1. ans' = [a \in Answers |-> ans'[a]]
    BY DEF Restart
  <2>2. ans' \in [Answers -> AnswerRecord]
    BY <1>3, <2>1
  <2>3. QED  BY <1>1, <1>2, <1>3, <2>2 DEF AnswersOK, At
<1>5. ApprovalsTypeOK'
  BY <1>1, <1>2, <1>4 DEF ApprovalsTypeOK, CardsOK, StoresOK
<1>6. RunsInv'
  <2>1. \A i \in DOMAIN cards : Spent(i) \subseteq Spent(i)'
    BY <1>3 DEF Spent
  <2>2. CardsKept /\ RanKept
    BY <1>2 DEF CardsKept, RanKept
  <2>3. \A a \in Answers : ans'[a].pc \notin {"resume", "run", "repair", "model"}
    BY <1>3
  <2>4. QED  BY <1>1, <2>1, <2>2, <2>3, KeptRuns DEF RunsInv, At
<1>7. SettledInv'
  <2>1. SettledStaysSettled'
    BY <1>1, <1>3 DEF SettledInv, SettledStaysSettled, Over
  <2>2. \A a \in Answers : ~(Took(a)') /\ ans'[a].pc \in Over \cup {"idle"}
    BY <1>3 DEF Took, Over
  <2>3. QED  BY <1>2, <2>1, <2>2 DEF SettledInv
<1>8. RepairInv' /\ SlotsInv'
  <2>1. \A a \in Answers : ans'[a].pc \in {"repair", "resume"} \/ (ans'[a].pc # "idle" /\ ans'[a].loaded)
                           => cards'[ans'[a].id].parent = 0
    BY <1>1, <1>2, <1>3 DEF RepairInv, At
  <2>2. QED  BY <1>1, <1>2, <2>1 DEF RepairInv, RepairedOnce, SlotsInv, At
<1>9. ResumeInv'
  <2>1. \A a \in Answers : ~(Needs(a)')
    BY <1>3 DEF Needs, At
  <2>2. QED  BY <1>2, <2>1 DEF ResumeInv
<1>10. QED
  BY <1>5, <1>6, <1>7, <1>8, <1>9 DEF ApprovalsInv

(* Each step of an answer is one of the above.                             *)
LEMMA AnswersKeep ==
  ASSUME ApprovalsInv, NEW a \in Answers, AnswerStep(a)
  PROVE  ApprovalsInv'
<1> USE DEF At
<1>1. /\ CardsOK /\ StoresOK /\ AnswersOK /\ RunsInv /\ SettledInv /\ RepairInv /\ ResumeInv
      /\ result \in BOOLEAN
  BY DEF ApprovalsInv, ApprovalsTypeOK
<1>2. ~Twice /\ Needs(a) => Resumable(ans[a].id)
  BY <1>1 DEF ResumeInv
<1>3. ans[a].pc # "idle" => ans[a].id \in DOMAIN cards /\ cards[ans[a].id] \in Card /\ ans[a].id # 0
  <2>1. ans[a].pc # "idle" => ans[a].id \in DOMAIN cards
    BY <1>1 DEF AnswersOK
  <2>2. QED  BY <1>1, <2>1, CardShown DEF CardsOK
<1>4. CASE ResumeTarget(a)
  BY <1>4, LoadKeeps
<1>5. CASE ResumeOther(a)
  <2>1. check[cards[ans[a].id].slot] \in DOMAIN cards /\ check[cards[ans[a].id].slot] # ans[a].id
    BY <1>1, <1>3, <1>5 DEF ResumeOther, StoresOK, Card
  <2>2. Twice
    BY <1>2, <1>5, <2>1 DEF ResumeOther, Needs, Resumable
  <2>3. cards[check[cards[ans[a].id].slot]].stmt \in Stmts
    BY <1>1, <2>1, CardShown DEF Card
  <2>4. QED  BY <1>5, <2>2, <2>3, AskKeeps DEF ResumeOther, Interrupt
<1>6. CASE ResumeFresh(a)
  <2>1. "model" \in Pcs /\ ~(Took(a)') /\ Needs(a) /\ ans[a].pc = "resume"
    <3>1. ans[a].pc = "resume"
      BY <1>6 DEF ResumeFresh
    <3>2. Moved(a, "model", ans[a].asks, ans[a].loaded)
      BY <1>1, <1>6, <3>1, GotoMoves DEF ResumeFresh, Pcs
    <3>3. QED  BY <3>1, <3>2 DEF Pcs, Took, Moved, Needs
  <2>2. ans[a].decision = "approve" /\ ans[a].pc \notin Over \cup {"idle"}
    BY <1>1, <2>1 DEF RunsInv, Over
  <2>3. QED  BY <1>1, <1>2, <1>6, <2>1, <2>2, MoveKeeps DEF ResumeFresh
<1>7. CASE RunOk(a) \/ RunFail(a) \/ RunDirect(a)
  BY <1>7, RunKeeps
<1>8. ASSUME NEW stmt \in Stmts, RepairAsks(a, stmt)
      PROVE  ApprovalsInv'
  <2>1. cards[ans[a].id].parent = 0 /\ ans[a].pc = "repair"
    BY <1>1, <1>8 DEF RepairAsks, RepairInv
  <2>2. QED  BY <1>8, <2>1, AskKeeps DEF RepairAsks
<1>9. CASE RepairNone(a)
  <2>1. PICK pc \in {"model", "reply"} : Goto(a, pc) /\ pc = (IF ans[a].loaded THEN "model" ELSE "reply")
    BY <1>9 DEF RepairNone
  <2>2. /\ ans[a].pc = "repair" /\ ans[a].decision = "approve" /\ pc \in Pcs /\ pc # "idle"
        /\ ans[a].pc \notin Over \cup {"idle"}
    BY <1>1, <1>9 DEF RepairNone, RunsInv, Pcs, Over
  <2>3. Moved(a, pc, ans[a].asks, ans[a].loaded)
    BY <1>1, <1>9, <2>1, <2>2, GotoMoves DEF RepairNone
  <2>4. Took(a)' => ans[a].id \notin eino
    BY <1>1, <2>1, <2>2, <2>3 DEF Took, Moved, SettledInv
  <2>5. Needs(a)' => Needs(a)
    BY <2>1, <2>2, <2>3 DEF Needs, Moved
  <2>6. QED  BY <1>1, <1>2, <1>9, <2>1, <2>2, <2>4, <2>5, MoveKeeps DEF RepairNone
<1>10. CASE ModelText(a) \/ ModelFails(a) \/ \E stmt \in Stmts : ModelAutoRun(a, stmt)
  <2>1. PICK pc \in {"settle", "failed"} : Goto(a, pc)
    BY <1>10 DEF ModelText, ModelFails, ModelAutoRun
  <2>2. /\ ans[a].pc = "model" /\ UNCHANGED <<cards, eino, legacy, check, turns, ran, settled>>
        /\ result' \in BOOLEAN
    BY <1>1, <1>10 DEF ModelText, ModelFails, ModelAutoRun
  <2>3. pc \in Pcs /\ pc # "idle" /\ ans[a].pc \notin Over \cup {"idle"}
    BY <2>2 DEF Pcs, Over
  <2>4. Moved(a, pc, ans[a].asks, ans[a].loaded)
    BY <1>1, <2>1, <2>2, <2>3, GotoMoves
  <2>5. ~(Took(a)') /\ (Needs(a)' => Needs(a))
    BY <2>2, <2>4 DEF Took, Moved, Needs
  <2>6. QED  BY <1>2, <2>1, <2>2, <2>3, <2>5, MoveKeeps
<1>11. ASSUME NEW stmt \in Stmts, ModelInterrupt(a, stmt)
       PROVE  ApprovalsInv'
  <2>1. ans[a].pc = "model" /\ (~Twice => Resumable(ans[a].id))
    BY <1>2, <1>11 DEF ModelInterrupt, Needs
  <2>2. QED  BY <1>11, <2>1, AskKeeps DEF ModelInterrupt, Interrupt
<1>12. CASE Settle(a)
  <2>1. PICK pc \in {"drop", "reply"} : Goto(a, pc) /\ pc = (IF Drops(a) THEN "drop" ELSE "reply")
    BY <1>12 DEF Settle
  <2>2. /\ ans[a].pc = "settle" /\ UNCHANGED <<cards, legacy, check, turns, result, ran, settled>>
        /\ eino' \subseteq eino /\ ans[a].id \notin eino'
    BY <1>12 DEF Settle
  <2>3. pc \in Pcs /\ pc # "idle" /\ ans[a].pc \notin Over \cup {"idle"}
    BY <2>2 DEF Pcs, Over
  <2>4. Moved(a, pc, ans[a].asks, ans[a].loaded)
    BY <1>1, <2>1, <2>2, <2>3, GotoMoves
  <2>5. Needs(a)' => Needs(a)
    BY <2>1, <2>2, <2>4 DEF Drops, Moved, Needs
  <2>6. QED  BY <1>1, <1>2, <2>1, <2>2, <2>3, <2>5, MoveKeeps
<1>13. CASE DropCheckpoint(a)
  BY <1>13, DropKeeps
<1>14. CASE Reply(a)
  BY <1>14, ReplyKeeps
<1>15. QED
  BY <1>4, <1>5, <1>6, <1>7, <1>8, <1>9, <1>10, <1>11, <1>12, <1>13, <1>14 DEF AnswerStep

(* ... and is kept by every step of the turns, of the answers and of a     *)
(* restart.                                                                *)
THEOREM ApprovalsInvStep == ApprovalsInv /\ [ApprovalsNext]_avars => ApprovalsInv'
<1> SUFFICES ASSUME ApprovalsInv, [ApprovalsNext]_avars PROVE ApprovalsInv'
  OBVIOUS
<1>1. CASE UNCHANGED avars
  <2>1. ApprovalsTypeOK'
    BY <1>1 DEF avars, ApprovalsInv, ApprovalsTypeOK, CardsOK, StoresOK, AnswersOK, At
  <2>2. RunsInv'
    BY <1>1 DEF avars, ApprovalsInv, RunsInv, Spent, At
  <2>3. SettledInv' /\ RepairInv' /\ SlotsInv'
    BY <1>1 DEF avars, ApprovalsInv, SettledInv, SettledStaysSettled, Took, RepairInv, RepairedOnce, SlotsInv, At
  <2>4. ResumeInv'
    BY <1>1 DEF avars, ApprovalsInv, ResumeInv, Twice, Resumable, Needs, At
  <2>5. QED  BY <2>1, <2>2, <2>3, <2>4 DEF ApprovalsInv
<1>2. CASE ApprovalsNext
  BY <1>2, TurnsKeep, BeginKeeps, AnswersKeep, RestartKeeps DEF ApprovalsNext
<1>3. QED
  BY <1>1, <1>2

(* For any number of turns, cards and answers, whichever the restarts: the *)
(* types hold.                                                             *)
THEOREM ApprovalsTypeCorrect == ApprovalsSpec => []ApprovalsTypeOK
<1>1. ApprovalsInv => ApprovalsTypeOK
  BY DEF ApprovalsInv
<1>2. QED
  BY <1>1, ApprovalsInvInit, ApprovalsInvStep, PTL DEF ApprovalsSpec

(* ... and what the user decides is what happens, once (Approve, Reject    *)
(* and the checkpointed resume).                                           *)
THEOREM ApprovalsCorrect == ApprovalsSpec => []ApprovalsSafe
  BY ApprovalsInvSafe, ApprovalsInvInit, ApprovalsInvStep, PTL DEF ApprovalsSpec

-----------------------------------------------------------------------------

(* The loop of one turn.  While an answer's calls run, what its rounds and *)
(* its statements have come to is known.                                   *)
TurnPhases ==
    /\ phase \in {"ask", "search", "replan", "dup"} => todo = {}
    /\ phase \notin {"ask", "ended"} => run.step >= 1
    /\ phase = "waiting" => runs < MaxRuns /\ counting = {}
    /\ said \in Said \cup {NoAnswer}
    /\ counting \subseteq SaveCalls(said)
SilentRounds ==
    /\ phase \in {"ask", "search"} => silent <= run.streak + 1 /\ (silent > 0 => memo.searched)
    /\ phase \in {"replan", "dup", "tools"} =>
         \/ said = NoAnswer
         \/ silent <= run.streak + 1 /\ (silent > 0 => memo.searched \/ Only(said, "web_search"))
SavesUnderWay == counting # {} => run.saves <= Cardinality(SaveCalls(said) \ todo)
LoopInv == LoopTypeOK /\ TurnPhases /\ SilentRounds /\ SavesUnderWay /\ LoopSafe

LEMMA AnswersTyped == Said \cup {NoAnswer} \subseteq Answer /\ SaveCalls(NoAnswer) = {} /\ NoAnswer.calls = {}
<1>1. {} \in SUBSET Call /\ TRUE \in BOOLEAN /\ "none" \in {"none", "prefer", "avoid"}
  OBVIOUS
<1>2. NoAnswer \in Answer
  BY <1>1 DEF Answer, NoAnswer
<1>3. NoAnswer.calls = {}
  BY DEF NoAnswer
<1>4. QED  BY <1>2, <1>3, LoopAssumption DEF SaveCalls

LEMMA SaveCallsFinite == ASSUME NEW a \in Said \cup {NoAnswer}
                         PROVE  IsFiniteSet(SaveCalls(a)) /\ Cardinality(SaveCalls(a)) \in Nat
<1>1. IsFiniteSet(a.calls)
  BY LoopAssumption, FS_EmptySet DEF NoAnswer
<1>2. IsFiniteSet(SaveCalls(a))
  BY <1>1, FS_Subset DEF SaveCalls
<1>3. QED  BY <1>2, FS_CardinalityType

(* The fields of the runtime change one by one.                            *)
RunRecord == [step : 0 .. MaxSteps, streak : 0 .. 1, misses : 0 .. 1, saves : Nat]
LEMMA RunFields ==
  ASSUME run \in RunRecord, NEW f \in {"step", "streak", "misses", "saves"}
  PROVE  /\ run.step \in Nat /\ run.step <= MaxSteps /\ run.streak \in 0 .. 1 /\ run.misses \in 0 .. 1 /\ run.saves \in Nat
  BY LoopAssumption DEF RunRecord

LEMMA RunSteps ==
  ASSUME run \in RunRecord, run.step < MaxSteps, run' = [run EXCEPT !.step = NextStep]
  PROVE  /\ run' \in RunRecord /\ run'.step >= 1
         /\ run'.streak = run.streak /\ run'.misses = run.misses /\ run'.saves = run.saves
<1>1. run.step + 1 \in 0 .. MaxSteps /\ run.step + 1 >= 1
  BY LoopAssumption DEF RunRecord
<1>2. QED  BY <1>1 DEF RunRecord, NextStep

LEMMA RunStreaks ==
  ASSUME run \in RunRecord, NEW n \in 0 .. 1, run' = [run EXCEPT !.streak = n]
  PROVE  /\ run' \in RunRecord /\ run'.step = run.step
         /\ run'.streak = n /\ run'.misses = run.misses /\ run'.saves = run.saves
  BY DEF RunRecord

LEMMA RunMisses ==
  ASSUME run \in RunRecord, NEW n \in 0 .. 1, run' = [run EXCEPT !.misses = n]
  PROVE  /\ run' \in RunRecord /\ run'.step = run.step
         /\ run'.streak = run.streak /\ run'.misses = n /\ run'.saves = run.saves
  BY DEF RunRecord

LEMMA RunSaves ==
  ASSUME run \in RunRecord, run' = [run EXCEPT !.saves = @ + 1]
  PROVE  /\ run' \in RunRecord /\ run'.step = run.step
         /\ run'.streak = run.streak /\ run'.misses = run.misses /\ run'.saves = run.saves + 1
<1>1. run.saves + 1 \in Nat
  BY DEF RunRecord
<1>2. QED  BY <1>1 DEF RunRecord

LoopRest ==
    /\ phase \in {"ask", "search", "replan", "dup", "tools", "waiting", "ended"}
    /\ said \in Answer /\ todo \subseteq said.calls /\ counting \subseteq todo
    /\ memo \in [searched : BOOLEAN, looks : 0 .. 3, executed : BOOLEAN, done : SUBSET LoopStmts]
    /\ working \in {"none", "focus", "other"} /\ intent \in {"none", "prefer", "avoid"}
    /\ runs \in 1 .. MaxRuns /\ silent \in Nat /\ saved \in Nat
LEMMA LoopTyped == LoopTypeOK <=> LoopRest /\ run \in RunRecord
  BY DEF LoopTypeOK, LoopRest, RunRecord

(* Between the calls: the model is asked and its answer goes through the   *)
(* recoveries.                                                             *)
LEMMA LoopAskKeeps ==
  ASSUME LoopInv, NEW a \in Said, Ask(a)
  PROVE  LoopInv'
<1>1. LoopRest /\ run \in RunRecord
  BY LoopTyped DEF LoopInv
<1>2. /\ run' \in RunRecord /\ run'.step >= 1
      /\ run'.streak = run.streak /\ run'.misses = run.misses /\ run'.saves = run.saves
  BY <1>1, RunSteps DEF Ask
<1>3. a \in Answer /\ todo = {} /\ counting = {}
  BY <1>1, AnswersTyped DEF LoopInv, TurnPhases, Ask, LoopRest
<1>4. LoopRest'
  BY <1>1, <1>3 DEF LoopRest, Ask
<1>5. LoopTypeOK'
  BY <1>2, <1>4, LoopTyped DEF LoopTypeOK, LoopRest, RunRecord
<1>6. TurnPhases' /\ SavesUnderWay'
  BY <1>2, <1>3 DEF TurnPhases, SavesUnderWay, Ask
<1>7. SilentRounds'
  BY <1>2 DEF LoopInv, SilentRounds, Ask
<1>8. LoopSafe'
  BY <1>2 DEF LoopInv, LoopSafe, SearchesConverge, NoRepeatedStatement, SavesOfOneAnswer, Ask
<1>9. QED  BY <1>5, <1>6, <1>7, <1>8 DEF LoopInv

LEMMA SearchKeeps ==
  ASSUME LoopInv, SearchPass \/ SearchForced
  PROVE  LoopInv'
<1> DEFINE n == IF SearchPass THEN Streak(said) ELSE 0
<1>1. LoopRest /\ run \in RunRecord
  BY LoopTyped DEF LoopInv
<1>2. run.streak \in 0 .. 1 /\ run.saves \in Nat /\ phase = "search" /\ phase' = "replan" /\ todo = {} /\ counting = {}
  BY <1>1 DEF SearchPass, SearchForced, LoopInv, TurnPhases, RunRecord, LoopRest
<1>3. SearchPass => Streak(said) \in 0 .. 1
  BY <1>2 DEF SearchPass, Converges, Streak
<1>4. n \in 0 .. 1 /\ run' = [run EXCEPT !.streak = n]
  BY <1>3 DEF SearchPass, SearchForced
<1>5. /\ run' \in RunRecord /\ run'.step = run.step
      /\ run'.streak = n /\ run'.misses = run.misses /\ run'.saves = run.saves
  BY <1>1, <1>4, RunStreaks
<1>6. NoAnswer \in Answer
  BY AnswersTyped
<1>7. silent' \in Nat /\ said' \in {said, NoAnswer}
  BY <1>1 DEF SearchPass, SearchForced, LoopRest
<1>8. LoopRest'
  BY <1>1, <1>2, <1>6, <1>7 DEF LoopRest, SearchPass, SearchForced
<1>9. LoopTypeOK'
  BY <1>5, <1>8 DEF LoopTypeOK, LoopRest, RunRecord
<1>10. UNCHANGED <<todo, counting, memo, runs>>
  BY DEF SearchPass, SearchForced
<1>11. TurnPhases' /\ SavesUnderWay'
  BY <1>2, <1>5, <1>7, <1>10 DEF TurnPhases, SavesUnderWay, LoopInv
<1>12. CASE SearchPass
  <2>1. /\ run'.streak = Streak(said) /\ Streak(said) <= 1 /\ said' = said
        /\ silent' = IF ~said.talks /\ Only(said, "web_search") THEN silent + 1 ELSE 0
    BY <1>3, <1>5, <1>12 DEF SearchPass
  <2>2. silent <= run.streak + 1 /\ (silent > 0 => memo.searched) /\ silent \in Nat
    BY <1>1, <1>2 DEF LoopInv, SilentRounds, LoopRest
  <2>3. silent' <= run'.streak + 1
    BY <1>2, <2>1, <2>2 DEF Streak, SearchesAgain
  <2>4. silent' > 0 => Only(said, "web_search")
    BY <2>1
  <2>5. SilentRounds' /\ SearchesConverge'
    <3>1. silent' <= run'.streak + 1 /\ (silent' > 0 => memo'.searched \/ Only(said', "web_search"))
      BY <2>1, <2>3, <2>4 DEF Only
    <3>2. silent' <= 2
      BY <1>3, <1>7, <1>12, <2>1, <2>3
    <3>3. QED  BY <1>2, <3>1, <3>2 DEF SilentRounds, SearchesConverge
  <2>6. NoRepeatedStatement' /\ SavesOfOneAnswer'
    BY <1>2, <1>5 DEF LoopInv, LoopSafe, NoRepeatedStatement, SavesOfOneAnswer
  <2>7. QED  BY <1>9, <1>11, <2>5, <2>6 DEF LoopInv, LoopSafe
<1>13. CASE SearchForced
  <2>1. said' = NoAnswer /\ silent' = silent
    BY <1>13 DEF SearchForced
  <2>2. SilentRounds' /\ SearchesConverge'
    BY <1>2, <2>1 DEF SilentRounds, SearchesConverge, LoopInv, LoopSafe
  <2>3. NoRepeatedStatement' /\ SavesOfOneAnswer'
    BY <1>2, <1>5 DEF LoopInv, LoopSafe, NoRepeatedStatement, SavesOfOneAnswer
  <2>4. QED  BY <1>9, <1>11, <2>2, <2>3 DEF LoopInv, LoopSafe
<1>14. QED  BY <1>12, <1>13

LEMMA NoAnswerRepeatsNothing == ~Repeats(NoAnswer) /\ ~NeedsReplan(NoAnswer)
  BY DEF Repeats, NeedsReplan, Only, NoAnswer

LEMMA RecoveryKeeps ==
  ASSUME LoopInv, NEW a \in Said, Replan(a) \/ Dedup(a)
  PROVE  LoopInv'
<1>1. LoopRest /\ run \in RunRecord
  BY LoopTyped DEF LoopInv
<1>2. /\ phase \in {"replan", "dup"} /\ phase' \in {"dup", "tools"} /\ todo = {} /\ counting = {}
      /\ run.step >= 1 /\ run.step \in Nat
  BY <1>1 DEF Replan, Dedup, LoopInv, TurnPhases, LoopRest, RunRecord
<1>3. UNCHANGED <<todo, counting, memo, working, intent, run, runs, silent, saved>>
  BY DEF Replan, Dedup
<1>4. /\ said' \in Said \cup {NoAnswer} /\ said' \in Answer
      /\ said' = said \/ said' = NoAnswer \/ Only(said, "execute")
  BY AnswersTyped DEF Replan, Dedup, LoopInv, TurnPhases, NeedsReplan, Repeats
<1>5. LoopTypeOK'
  BY <1>1, <1>2, <1>3, <1>4 DEF LoopTypeOK, LoopRest, RunRecord
<1>6. TurnPhases' /\ SavesUnderWay'
  BY <1>2, <1>3, <1>4 DEF TurnPhases, SavesUnderWay
<1>7. Only(said, "execute") => ~Only(said, "web_search") /\ said # NoAnswer
  BY DEF Only, NoAnswer
<1>8. SilentRounds'
  BY <1>2, <1>3, <1>4, <1>7 DEF LoopInv, SilentRounds, Only
<1>9. SearchesConverge' /\ SavesOfOneAnswer'
  BY <1>3 DEF LoopInv, LoopSafe, SearchesConverge, SavesOfOneAnswer
<1>10. NoRepeatedStatement'
  BY <1>3, NoAnswerRepeatsNothing DEF NoRepeatedStatement, Replan, Dedup, Repeats, Only, StmtsOf
<1>11. QED  BY <1>5, <1>6, <1>8, <1>9, <1>10 DEF LoopInv, LoopSafe

LEMMA RunStops ==
  ASSUME LoopInv, AskFails \/ Final \/ TooLong
  PROVE  LoopInv'
<1>1. UNCHANGED <<said, todo, counting, memo, working, intent, run, runs, silent, saved>> /\ phase' = "ended"
  BY DEF AskFails, Final, TooLong
<1>2. QED
  BY <1>1 DEF LoopInv, LoopTypeOK, TurnPhases, SilentRounds, SavesUnderWay, LoopSafe, SearchesConverge,
              NoRepeatedStatement, SavesOfOneAnswer

LEMMA LaunchKeeps ==
  ASSUME LoopInv, Launch
  PROVE  LoopInv'
<1>1. LoopRest /\ run \in RunRecord
  BY LoopTyped DEF LoopInv
<1>2. /\ run' \in RunRecord /\ run'.step >= 1
      /\ run'.streak = run.streak /\ run'.misses = run.misses /\ run'.saves = run.saves
  BY <1>1, RunSteps DEF Launch
<1>3. phase = "tools" /\ counting = {} /\ said.calls # {} /\ todo' = said.calls
      /\ UNCHANGED <<phase, said, counting, memo, working, intent, runs, silent, saved>>
  BY <1>1 DEF Launch, LoopRest
<1>4. LoopTypeOK'
  BY <1>1, <1>2, <1>3 DEF LoopTypeOK, LoopRest, RunRecord
<1>5. TurnPhases' /\ SavesUnderWay'
  BY <1>2, <1>3 DEF LoopInv, TurnPhases, SavesUnderWay
<1>6. SilentRounds'
  BY <1>2, <1>3 DEF LoopInv, SilentRounds, Only
<1>7. LoopSafe'
  BY <1>2, <1>3 DEF LoopInv, LoopSafe, SearchesConverge, NoRepeatedStatement, SavesOfOneAnswer, Repeats, Only, StmtsOf
<1>8. QED  BY <1>4, <1>5, <1>6, <1>7 DEF LoopInv

(* A call that returns: what is left to run is less, or the model is asked *)
(* again with the answer forgotten.                                        *)
LEMMA CallDoneKeeps ==
  ASSUME LoopInv, phase = "tools", NEW c \in todo, CallDone(c),
         memo' \in [searched : BOOLEAN, looks : 0 .. 3, executed : BOOLEAN, done : SUBSET LoopStmts],
         memo'.done = memo.done, memo.searched => memo'.searched,
         c.tool = "web_search" => memo'.searched,
         working' \in {"none", "focus", "other"},
         run' \in RunRecord, run'.step = run.step, run'.streak = run.streak,
         \/ run'.saves = run.saves /\ counting' = counting /\ c \notin counting
         \/ run'.saves = run.saves + 1 /\ c \in counting /\ counting' = counting \ {c},
         saved' \in Nat, UNCHANGED <<runs, silent>>
  PROVE  LoopInv'
<1>1. LoopRest /\ run \in RunRecord
  BY LoopTyped DEF LoopInv
<1>2. /\ todo' = todo \ {c} /\ (said' = said \/ said' = NoAnswer)
      /\ IF todo = {c} THEN phase' = "ask" /\ said' = NoAnswer ELSE phase' = "tools" /\ said' = said
      /\ intent' \in {"none", "prefer", "avoid"}
  BY <1>1 DEF CallDone, LoopRest, Answer
<1>3. todo' \subseteq said'.calls /\ counting' \subseteq todo' /\ counting' \subseteq counting
  BY <1>1, <1>2, AnswersTyped DEF LoopRest
<1>4. said' \in Answer /\ said' \in Said \cup {NoAnswer} /\ said # NoAnswer /\ c \in said.calls
  BY <1>1, <1>2, AnswersTyped DEF LoopRest, LoopInv, TurnPhases
<1>5. LoopTypeOK'
  BY <1>1, <1>2, <1>3, <1>4 DEF LoopTypeOK, LoopRest, RunRecord
<1>6. TurnPhases'
  BY <1>1, <1>2, <1>3, <1>4, AnswersTyped DEF LoopInv, TurnPhases, LoopRest
<1>7. run.saves \in Nat /\ run.streak \in 0 .. 1
  BY <1>1 DEF RunRecord
<1>8. SilentRounds'
  <2>1. silent <= run'.streak + 1 /\ (silent > 0 => memo.searched \/ Only(said, "web_search"))
    BY <1>4 DEF LoopInv, SilentRounds
  <2>2. CASE todo = {c}
    BY <1>2, <1>4, <2>1, <2>2 DEF SilentRounds, Only
  <2>3. CASE todo # {c}
    BY <1>2, <2>1, <2>3 DEF SilentRounds, Only
  <2>4. QED  BY <2>2, <2>3
<1>9. IsFiniteSet(SaveCalls(said)) /\ Cardinality(SaveCalls(said)) \in Nat /\ said \in Said
  BY <1>4, SaveCallsFinite DEF LoopInv, TurnPhases
<1>10. ASSUME NEW S \in SUBSET SaveCalls(said)
       PROVE  IsFiniteSet(S) /\ Cardinality(S) \in Nat /\ Cardinality(S) <= Cardinality(SaveCalls(said))
  BY <1>9, FS_Subset, FS_CardinalityType
<1>11. SavesUnderWay' /\ SavesOfOneAnswer'
  <2> DEFINE S == SaveCalls(said) \ todo
  <2>1. CASE run'.saves = run.saves /\ counting' = counting /\ c \notin counting
    <3>1. SavesOfOneAnswer'
      BY <2>1 DEF LoopInv, LoopSafe, SavesOfOneAnswer
    <3>2. SavesUnderWay'
      <4>1. SUFFICES ASSUME counting # {} PROVE run.saves <= Cardinality(SaveCalls(said) \ todo')
        BY <1>2, <1>3, <2>1, AnswersTyped DEF SavesUnderWay
      <4>2. run.saves <= Cardinality(S)
        BY <4>1 DEF LoopInv, SavesUnderWay
      <4>3. S \subseteq SaveCalls(said) \ todo' /\ IsFiniteSet(SaveCalls(said) \ todo')
        BY <1>2, <1>10
      <4>4. Cardinality(S) <= Cardinality(SaveCalls(said) \ todo')
        BY <4>3, FS_Subset
      <4>5. QED  BY <1>7, <1>10, <4>2, <4>4
    <3>3. QED  BY <3>1, <3>2
  <2>2. CASE run'.saves = run.saves + 1 /\ c \in counting /\ counting' = counting \ {c}
    <3>1. c \in SaveCalls(said) /\ c \notin S /\ run.saves <= Cardinality(S)
      BY <2>2 DEF LoopInv, TurnPhases, SavesUnderWay
    <3>2. SaveCalls(said) \ todo' = S \cup {c}
      BY <1>2, <3>1
    <3>3. IsFiniteSet(S) /\ Cardinality(S) \in Nat
      BY <1>10
    <3>4. Cardinality(S \cup {c}) = Cardinality(S) + 1
      BY <3>1, <3>3, FS_AddElement
    <3>5. run'.saves <= Cardinality(SaveCalls(said) \ todo')
      <4>1. Cardinality(SaveCalls(said) \ todo') = Cardinality(S) + 1
        BY <3>2, <3>4
      <4> HIDE DEF S
      <4>2. run.saves + 1 <= Cardinality(S) + 1
        BY <1>7, <3>1, <3>3
      <4>3. QED  BY <2>2, <4>1, <4>2
    <3>6. SavesOfOneAnswer'
      <4>1. Cardinality(SaveCalls(said) \ todo') <= Cardinality(SaveCalls(said))
        BY <1>10
      <4>2. run'.saves <= Cardinality(SaveCalls(said))
        <5>1. Cardinality(SaveCalls(said) \ todo') \in Nat
          BY <1>10
        <5>2. run'.saves \in Nat
          BY <1>7, <2>2
        <5>3. QED  BY <1>9, <3>5, <4>1, <5>1, <5>2
      <4>3. QED  BY <1>9, <4>2 DEF SavesOfOneAnswer
    <3>7. SavesUnderWay'
      BY <1>2, <1>3, <3>5, AnswersTyped DEF SavesUnderWay
    <3>8. QED  BY <3>6, <3>7
  <2>3. QED  BY <2>1, <2>2
<1>12. SearchesConverge' /\ NoRepeatedStatement'
  <2>1. NoRepeatedStatement'
    BY <1>2 DEF LoopInv, LoopSafe, NoRepeatedStatement, Repeats, Only, StmtsOf
  <2>2. QED  BY <2>1 DEF LoopInv, LoopSafe, SearchesConverge
<1>13. QED  BY <1>5, <1>6, <1>8, <1>11, <1>12 DEF LoopInv, LoopSafe

LEMMA SaveCheckKeeps ==
  ASSUME LoopInv, NEW c \in todo, phase = "tools", SaveCheck(c)
  PROVE  LoopInv'
<1>1. LoopRest /\ run \in RunRecord
  BY LoopTyped DEF LoopInv
<1>2. UNCHANGED <<phase, said, todo, memo, working, intent, run, runs, silent, saved>>
      /\ counting' = counting \cup {c} /\ c.tool = "memory_save" /\ run.saves = 0
  BY DEF SaveCheck, MaySave
<1>3. c \in SaveCalls(said)
  BY <1>1, <1>2 DEF LoopRest, SaveCalls
<1>4. LoopTypeOK' /\ TurnPhases'
  BY <1>1, <1>2, <1>3 DEF LoopInv, LoopTypeOK, LoopRest, RunRecord, TurnPhases
<1>5. SavesUnderWay'
  <2>1. said \in Said
    BY <1>3, AnswersTyped DEF LoopInv, TurnPhases
  <2>2. IsFiniteSet(SaveCalls(said) \ todo)
    BY <2>1, SaveCallsFinite, FS_Subset
  <2>3. 0 <= Cardinality(SaveCalls(said) \ todo)
    BY <2>2, FS_CardinalityType
  <2>4. QED  BY <1>2, <2>3 DEF SavesUnderWay
<1>6. SilentRounds' /\ LoopSafe'
  BY <1>2 DEF LoopInv, SilentRounds, LoopSafe, SearchesConverge, NoRepeatedStatement, SavesOfOneAnswer, Only, Repeats, StmtsOf
<1>7. QED  BY <1>4, <1>5, <1>6 DEF LoopInv

LEMMA ExecuteStops ==
  ASSUME LoopInv, NEW c \in todo, phase = "tools", ExecuteReturns(c) \/ ExecuteAsks(c)
  PROVE  LoopInv'
<1>1. LoopRest /\ run \in RunRecord
  BY LoopTyped DEF LoopInv
<1>2. UNCHANGED <<said, todo, counting, memo, intent, run, runs, silent, saved>> /\ phase' \in {"ended", "waiting"}
  BY DEF ExecuteReturns, ExecuteAsks
<1>3. c \in Call /\ c.at \in {"focus", "other"}
  BY <1>1 DEF LoopRest, Answer, Call
<1>4. working' \in {"none", "focus", "other"}
  BY <1>1, <1>3 DEF ExecuteReturns, ExecuteAsks, LoopRest
<1>5. phase' = "waiting" => runs < MaxRuns /\ counting = {}
  <2>1. ASSUME ExecuteAsks(c) PROVE runs < MaxRuns /\ counting = {}
    BY <1>1, <2>1 DEF ExecuteAsks, LoopRest, LoopInv, TurnPhases, SaveCalls
  <2>2. ExecuteReturns(c) => phase' # "waiting"
    BY DEF ExecuteReturns
  <2>3. QED  BY <2>1, <2>2
<1>6. LoopTypeOK' /\ TurnPhases'
  BY <1>1, <1>2, <1>4, <1>5 DEF LoopInv, LoopTypeOK, LoopRest, RunRecord, TurnPhases
<1>7. SilentRounds' /\ SavesUnderWay' /\ LoopSafe'
  BY <1>2 DEF LoopInv, SilentRounds, SavesUnderWay, LoopSafe, SearchesConverge, NoRepeatedStatement, SavesOfOneAnswer
<1>8. QED  BY <1>6, <1>7 DEF LoopInv

LEMMA ToolStepKeeps ==
  ASSUME LoopInv, phase = "tools", NEW c \in todo,
         \/ WebSearch(c) \/ \E hits \in 0 .. Failed : Discover(c, hits)
         \/ SaveCheck(c) \/ SaveRefused(c) \/ SaveDone(c)
         \/ ExecuteError(c) \/ ExecuteReturns(c) \/ ExecuteAsks(c)
  PROVE  LoopInv'
<1> DEFINE Memo == [searched : BOOLEAN, looks : 0 .. 3, executed : BOOLEAN, done : SUBSET LoopStmts]
<1>1. LoopRest /\ run \in RunRecord
  BY LoopTyped DEF LoopInv
<1>2. memo \in Memo /\ working \in {"none", "focus", "other"} /\ saved \in Nat
  BY <1>1 DEF LoopRest
<1>3. c \in Call /\ c.at \in {"focus", "other"}
  BY <1>1 DEF LoopRest, Answer, Call
<1>4. counting \subseteq SaveCalls(said) /\ \A d \in counting : d.tool = "memory_save"
  BY DEF LoopInv, TurnPhases, SaveCalls
<1>5. CASE WebSearch(c)
  <2>1. memo' \in Memo /\ memo'.done = memo.done /\ memo'.searched
    BY <1>2, <1>5 DEF WebSearch
  <2>2. QED  BY <1>1, <1>2, <1>4, <1>5, <2>1, CallDoneKeeps DEF WebSearch
<1>6. ASSUME NEW hits \in 0 .. Failed, Discover(c, hits) PROVE LoopInv'
  <2>1. memo.looks \in 0 .. 3 /\ (IF memo.looks < 3 THEN memo.looks + 1 ELSE memo.looks) \in 0 .. 3
    BY <1>2
  <2>2. memo' \in Memo /\ memo'.done = memo.done /\ memo'.searched = memo.searched
    BY <1>2, <1>6, <2>1 DEF Discover
  <2>3. run' \in RunRecord /\ run'.step = run.step /\ run'.streak = run.streak /\ run'.saves = run.saves
    BY <1>1, <1>6, RunMisses DEF Discover
  <2>4. QED  BY <1>2, <1>3, <1>4, <1>6, <2>2, <2>3, CallDoneKeeps DEF Discover
<1>7. CASE SaveRefused(c)
  BY <1>1, <1>2, <1>7, CallDoneKeeps DEF SaveRefused
<1>8. CASE SaveDone(c)
  <2>1. run' \in RunRecord /\ run'.step = run.step /\ run'.streak = run.streak /\ run'.saves = run.saves + 1
    BY <1>1, <1>8, RunSaves DEF SaveDone
  <2>2. saved' \in Nat /\ c.tool # "web_search"
    BY <1>2, <1>4, <1>8 DEF SaveDone
  <2>3. QED  BY <1>2, <1>8, <2>1, <2>2, CallDoneKeeps DEF SaveDone
<1>9. CASE ExecuteError(c)
  <2>1. memo' \in Memo /\ memo'.done = memo.done /\ memo'.searched = memo.searched
    BY <1>2, <1>9 DEF ExecuteError
  <2>2. QED  BY <1>1, <1>2, <1>4, <1>9, <2>1, CallDoneKeeps DEF ExecuteError
<1>10. QED  BY <1>5, <1>6, <1>7, <1>8, <1>9, SaveCheckKeeps, ExecuteStops

LEMMA ResumeKeeps ==
  ASSUME LoopInv, NEW c \in todo, NEW ok \in BOOLEAN, Resume(c, ok)
  PROVE  LoopInv'
<1>1. LoopRest /\ run \in RunRecord
  BY LoopTyped DEF LoopInv
<1>2. runs < MaxRuns /\ counting = {} /\ run.step >= 1 /\ MaxSteps \in Nat /\ MaxRuns \in Nat
  BY LoopAssumption DEF LoopInv, TurnPhases, Resume
<1>3. MaxSteps >= 1 /\ runs + 1 \in 1 .. MaxRuns
  BY <1>1, <1>2 DEF RunRecord, LoopRest
<1>4. run' = [step |-> 1, streak |-> 0, misses |-> 0, saves |-> 0]
  BY DEF Resume, FreshRun
<1>5. run' \in RunRecord /\ run'.saves = 0
  <2>1. 1 \in 0 .. MaxSteps /\ 0 \in 0 .. 1 /\ 0 \in Nat
    BY <1>2, <1>3
  <2>2. QED  BY <1>4, <2>1 DEF RunRecord
<1>6. c \in Call /\ c.at \in {"focus", "other"} /\ c.stmt \in LoopStmts
  BY <1>1 DEF LoopRest, Answer, Call
<1>7. memo' \in [searched : BOOLEAN, looks : 0 .. 3, executed : BOOLEAN, done : SUBSET LoopStmts]
  BY <1>1, <1>6 DEF LoopRest, Resume
<1>8. todo' = {} /\ phase' = "ask" /\ said' = NoAnswer /\ silent' = 0 /\ counting' = {} /\ runs' = runs + 1
      /\ working' = c.at /\ UNCHANGED <<intent, saved>>
  BY <1>2 DEF Resume
<1>9. LoopTypeOK'
  BY <1>1, <1>3, <1>5, <1>6, <1>7, <1>8, AnswersTyped DEF LoopTypeOK, LoopRest, RunRecord
<1>10. TurnPhases' /\ SavesUnderWay'
  BY <1>8, AnswersTyped DEF TurnPhases, SavesUnderWay
<1>11. SilentRounds' /\ SearchesConverge' /\ NoRepeatedStatement'
  BY <1>4, <1>8 DEF SilentRounds, SearchesConverge, NoRepeatedStatement
<1>12. SavesOfOneAnswer'
  BY <1>5, SaveCallsFinite DEF SavesOfOneAnswer
<1>13. QED  BY <1>9, <1>10, <1>11, <1>12 DEF LoopInv, LoopSafe

LEMMA LoopInitially == LoopInit => LoopInv
<1> SUFFICES ASSUME LoopInit PROVE LoopInv
  OBVIOUS
<1>1. run = [step |-> 0, streak |-> 0, misses |-> 0, saves |-> 0] /\ 0 \in 0 .. MaxSteps /\ 1 \in 1 .. MaxRuns
  BY LoopAssumption DEF LoopInit, FreshRun
<1>2. run \in RunRecord
  BY <1>1 DEF RunRecord
<1>3. memo \in [searched : BOOLEAN, looks : 0 .. 3, executed : BOOLEAN, done : SUBSET LoopStmts]
  <2>1. FALSE \in BOOLEAN /\ 0 \in 0 .. 3 /\ {} \in SUBSET LoopStmts
    OBVIOUS
  <2>2. QED  BY <2>1 DEF LoopInit
<1>4. LoopTypeOK
  BY <1>1, <1>2, <1>3, AnswersTyped DEF LoopInit, LoopTypeOK, RunRecord
<1>5. TurnPhases /\ SavesUnderWay
  BY AnswersTyped DEF LoopInit, TurnPhases, SavesUnderWay
<1>6. SilentRounds /\ SearchesConverge /\ NoRepeatedStatement
  BY <1>1 DEF LoopInit, SilentRounds, SearchesConverge, NoRepeatedStatement
<1>7. SavesOfOneAnswer
  BY <1>1, SaveCallsFinite DEF SavesOfOneAnswer
<1>8. QED  BY <1>4, <1>5, <1>6, <1>7 DEF LoopInv, LoopSafe

LEMMA LoopKeeps == LoopInv /\ [LoopNext]_lvars => LoopInv'
<1> SUFFICES ASSUME LoopInv, [LoopNext]_lvars PROVE LoopInv'
  OBVIOUS
<1>1. CASE UNCHANGED lvars
  BY <1>1 DEF lvars, LoopInv, LoopTypeOK, TurnPhases, SilentRounds, SavesUnderWay, LoopSafe, SearchesConverge,
              NoRepeatedStatement, SavesOfOneAnswer, Repeats, Only, StmtsOf
<1>2. CASE LoopStep
  BY <1>2, LoopAskKeeps, RecoveryKeeps, RunStops, SearchKeeps, LaunchKeeps, ToolStepKeeps DEF LoopStep
<1>3. QED  BY <1>1, <1>2, ResumeKeeps DEF LoopNext

(* Type correctness of the loop for any statements, answers and steps.     *)
THEOREM LoopTypeCorrect == LoopSpec => []LoopTypeOK
<1>1. LoopInv => LoopTypeOK
  BY DEF LoopInv
<1>2. QED  BY <1>1, LoopInitially, LoopKeeps, PTL DEF LoopSpec

(* Whatever the model answers: no more than two rounds of silent searches  *)
(* are carried out in a row, no answer only repeats statements whose rows  *)
(* the model has, and a run saves no more patterns than one answer asked   *)
(* for at once (LoopSafe, of runTurn's recoveries).                        *)
THEOREM LoopCorrect == LoopSpec => []LoopSafe
<1>1. LoopInv => LoopSafe
  BY DEF LoopInv
<1>2. QED  BY <1>1, LoopInitially, LoopKeeps, PTL DEF LoopSpec

-----------------------------------------------------------------------------

(* The streamed turns.  The turn in flight is the last one sent; of every  *)
(* turn that has left it is known how: it left before its start call       *)
(* replied, it was ended by a text that was not its own, its stream is     *)
(* ignored or will say no more, or the window has forgotten a stream.      *)
Events == {"delta", "done", "error", "cancelled"}
Ignored(s) == \E i \in 1 .. Len(ignored) : ignored[i] = s
Evicted == sent >= MaxIgnored + 1 /\ (inFlight.turn # 0 => sent > MaxIgnored + 1)
ForeignEnd(s) == \E q \in shown : q[1] = s /\ q[1] # q[2]
Quiet(s) == emitted[s] = <<>> /\ (stream[s] = "ended" \/ (stream[s] = "none" /\ start[s] = "over"))
Accounted(s) == s \in early \/ ForeignEnd(s) \/ Evicted \/ Ignored(s) \/ Quiet(s)

StreamsTyped ==
    /\ sent \in 0 .. MaxTurns
    /\ inFlight \in [turn : {0, sent}, stream : 0 .. sent]
    /\ inFlight.turn = 0 => inFlight = NoTurn
    /\ pending \in 0 .. sent /\ (pending # 0 => pending # inFlight.turn)
    /\ start \in [Streams -> {"none", "called", "started", "over"}]
    /\ stream \in [Streams -> {"none", "running", "stopping", "ended"}]
    /\ cancelling \subseteq Streams /\ registry \subseteq Streams
    /\ emitted \in [Streams -> Seq(Events)]
    /\ deltas \in [Streams -> Nat]
    /\ shown \subseteq Streams \X Streams /\ early \subseteq Streams
IgnoredTyped ==
    /\ ignored \in Seq(Streams) /\ Len(ignored) <= MaxIgnored
    /\ \A i \in 1 .. Len(ignored) : ignored[i] <= sent /\ ignored[i] # inFlight.turn
    /\ \A i, j \in 1 .. Len(ignored) : ignored[i] = ignored[j] => i = j
StartsInOrder == \A s \in Streams :
    /\ start[s] = "none" <=> s > sent
    /\ start[s] \in {"none", "called"} => stream[s] = "none"
    /\ start[s] = "started" => stream[s] # "none"
    /\ inFlight.turn = s /\ start[s] = "over" => inFlight.stream = s
EventsInOrder == \A s \in Streams :
    /\ stream[s] = "none" => emitted[s] = <<>>
    /\ \A i \in 1 .. Len(emitted[s]) : emitted[s][i] # "delta" => i = Len(emitted[s]) /\ stream[s] = "ended"
Cancelled == \A s \in Streams :
    (s \in cancelling \/ stream[s] = "stopping" \/ \E i \in 1 .. Len(emitted[s]) : emitted[s][i] = "cancelled")
      => Ignored(s) \/ Evicted
TurnsAccounted == \A s \in Streams : s <= sent /\ inFlight.turn # s => Accounted(s)
Registered == \A s \in Streams : stream[s] = "running" => s \in registry

StreamsInv ==
    /\ StreamsTyped /\ IgnoredTyped /\ StartsInOrder /\ EventsInOrder /\ Cancelled /\ TurnsAccounted
    /\ Registered /\ StreamsSafe

LEMMA RemoveAbsent == ASSUME NEW t, ~Ignored(t) PROVE RemoveFirst(ignored, t) = ignored
  BY Zenon DEF RemoveFirst, Ignored

LEMMA Injects ==
  ASSUME NEW n \in Nat, NEW m \in Nat, NEW f \in [1 .. n -> 1 .. m],
         \A i, j \in 1 .. n : f[i] = f[j] => i = j
  PROVE  n <= m
<1>1. IsFiniteSet(1 .. n) /\ IsFiniteSet(1 .. m) /\ Cardinality(1 .. n) = n /\ Cardinality(1 .. m) = m
  BY FS_Interval
<1>2. CASE n > m
  BY <1>1, <1>2, FS_PigeonHole
<1>3. QED  BY <1>2

(* ignoreStream: the stream is remembered last, and if the memory was full *)
(* of others, the oldest is forgotten.                                     *)
LEMMA IgnoreEffect ==
  ASSUME IgnoredTyped, NEW x \in Streams, Ignore(x)
  PROVE  /\ ignored' \in Seq(Streams) /\ Len(ignored') <= MaxIgnored
         /\ \A i \in 1 .. Len(ignored') : ignored'[i] = x \/ \E j \in 1 .. Len(ignored) : ignored'[i] = ignored[j]
         /\ \A i, j \in 1 .. Len(ignored') : ignored'[i] = ignored'[j] => i = j
         /\ \E i \in 1 .. Len(ignored') : ignored'[i] = x
         /\ \/ \A i \in 1 .. Len(ignored) : \E j \in 1 .. Len(ignored') : ignored'[j] = ignored[i]
            \/ Len(ignored) = MaxIgnored /\ ~Ignored(x)
<1>0. ignored \in Seq(Streams) /\ Len(ignored) \in Nat /\ MaxIgnored \in Nat \ {0}
  BY StreamsAssumption DEF IgnoredTyped
<1>1. CASE Ignored(x)
  <2>1. ignored' = ignored
    BY <1>0, <1>1 DEF Ignore, Contains, Ignored, IgnoredTyped
  <2>2. QED  BY <1>1, <2>1 DEF IgnoredTyped, Ignored
<1>2. CASE ~Ignored(x)
  <2> DEFINE all == Append(ignored, x)
  <2>1. /\ all \in Seq(Streams) /\ Len(all) = Len(ignored) + 1 /\ all[Len(ignored) + 1] = x
        /\ \A i \in 1 .. Len(ignored) : all[i] = ignored[i]
    BY <1>0
  <2>2. ignored' = IF Len(all) > MaxIgnored THEN Tail(all) ELSE all
    BY <1>2 DEF Ignore, Contains, Ignored
  <2> HIDE DEF all
  <2>3. \A i, j \in 1 .. Len(all) : all[i] = all[j] => i = j
    BY <1>0, <1>2, <2>1 DEF Ignored, IgnoredTyped
  <2>4. CASE Len(all) <= MaxIgnored
    <3>1. ignored' = all
      BY <1>0, <2>1, <2>2, <2>4
    <3>2. QED  BY <1>0, <2>1, <2>3, <2>4, <3>1
  <2>5. CASE Len(all) > MaxIgnored
    <3>1. Len(ignored) = MaxIgnored
      BY <1>0, <2>1, <2>5 DEF IgnoredTyped
    <3>2. /\ ignored' = Tail(all) /\ ignored' \in Seq(Streams) /\ Len(ignored') = MaxIgnored
          /\ \A i \in 1 .. Len(ignored') : ignored'[i] = all[i + 1]
      BY <1>0, <2>1, <2>2, <2>5, <3>1
    <3>3. \A i \in 1 .. MaxIgnored : i + 1 \in 1 .. Len(all)
      BY <1>0, <2>1, <3>1
    <3>4. \A i, j \in 1 .. Len(ignored') : ignored'[i] = ignored'[j] => i = j
      BY <1>0, <2>3, <3>2, <3>3
    <3>5. ignored'[MaxIgnored] = x /\ MaxIgnored \in 1 .. Len(ignored')
      BY <1>0, <2>1, <3>1, <3>2
    <3>6. \A i \in 1 .. Len(ignored') : ignored'[i] = x \/ \E j \in 1 .. Len(ignored) : ignored'[i] = ignored[j]
      BY <1>0, <2>1, <3>1, <3>2, <3>3
    <3>7. QED  BY <1>0, <1>2, <3>1, <3>2, <3>4, <3>5, <3>6
  <2>6. QED  BY <1>0, <2>1, <2>4, <2>5
<1>3. QED  BY <1>1, <1>2

LEMMA IgnoredAreTurns ==
  ASSUME IgnoredTyped
  PROVE  \A i \in 1 .. Len(ignored) :
           /\ ignored[i] \in Streams /\ ignored[i] \in Nat /\ ignored[i] >= 1
           /\ ignored[i] <= sent /\ ignored[i] # inFlight.turn
<1>1. \A i \in 1 .. Len(ignored) : ignored[i] \in Streams
  BY DEF IgnoredTyped
<1>2. \A s \in Streams : s \in Nat /\ s >= 1
  BY DEF Streams
<1>3. QED  BY <1>1, <1>2 DEF IgnoredTyped

(* A memory full of other streams means that many turns have left.         *)
LEMMA FullMemory ==
  ASSUME IgnoredTyped, sent \in Nat, NEW x \in Streams, x <= sent,
         Len(ignored) = MaxIgnored, ~Ignored(x)
  PROVE  sent >= MaxIgnored + 1 /\ (inFlight.turn = sent /\ x # sent => sent > MaxIgnored + 1)
<1> DEFINE f == [i \in 1 .. MaxIgnored + 1 |-> IF i <= Len(ignored) THEN ignored[i] ELSE x]
<1>0. ignored \in Seq(Streams) /\ MaxIgnored \in Nat \ {0} /\ x \in Nat /\ x >= 1
  BY StreamsAssumption DEF IgnoredTyped, Streams
<1>1. \A i \in 1 .. Len(ignored) : ignored[i] \in Nat /\ ignored[i] >= 1 /\ ignored[i] <= sent /\ ignored[i] # inFlight.turn
  BY IgnoredAreTurns
<1>2. \A i \in 1 .. MaxIgnored + 1 : i <= Len(ignored) => i \in 1 .. Len(ignored)
  BY <1>0
<1>3. \A i, j \in 1 .. MaxIgnored + 1 : f[i] = f[j] => i = j
  <2> TAKE i, j \in 1 .. MaxIgnored + 1
  <2> HAVE f[i] = f[j]
  <2>1. CASE i <= Len(ignored) /\ j <= Len(ignored)
    BY <1>2, <2>1 DEF IgnoredTyped
  <2>2. CASE i <= Len(ignored) /\ ~(j <= Len(ignored))
    BY <1>2, <2>2 DEF Ignored
  <2>3. CASE ~(i <= Len(ignored)) /\ j <= Len(ignored)
    BY <1>2, <2>3 DEF Ignored
  <2>4. CASE ~(i <= Len(ignored)) /\ ~(j <= Len(ignored))
    BY <1>0, <2>4
  <2>5. QED  BY <2>1, <2>2, <2>3, <2>4
<1>4. f \in [1 .. MaxIgnored + 1 -> 1 .. sent]
  BY <1>0, <1>1, <1>2
<1>5. MaxIgnored + 1 <= sent
  <2>1. MaxIgnored + 1 \in Nat
    BY <1>0
  <2> HIDE DEF f
  <2>2. QED  BY <1>3, <1>4, <2>1, Injects
<1>6. ASSUME inFlight.turn = sent, x # sent PROVE MaxIgnored + 1 <= sent - 1
  <2>1. sent - 1 \in Nat
    BY <1>0, <1>5
  <2>2. f \in [1 .. MaxIgnored + 1 -> 1 .. sent - 1]
    BY <1>0, <1>1, <1>2, <1>6
  <2>3. MaxIgnored + 1 \in Nat
    BY <1>0
  <2> HIDE DEF f
  <2>4. QED  BY <1>3, <2>1, <2>2, <2>3, Injects
<1>7. QED  BY <1>0, <1>5, <1>6

LEMMA AccountedKept ==
  ASSUME NEW s, Accounted(s), early \subseteq early', shown \subseteq shown', Evicted => Evicted',
         Ignored(s) => Ignored(s)' \/ Evicted', Quiet(s) => Quiet(s)'
  PROVE  Accounted(s)'
  BY DEF Accounted, ForeignEnd

(* What was shown stays explained.                                         *)
Explained(p) ==
    /\ p[2] < p[1]
    /\ p[2] \in early \/ ForeignEnd(p[2]) \/ p[1] > MaxIgnored + 1
LEMMA ExplainedIs == ForeignTextExplained <=> \A p \in shown : p[1] # p[2] => Explained(p)
  BY DEF ForeignTextExplained, Explained, ForeignEnd
LEMMA ExplainedKept ==
  ASSUME ForeignTextExplained, early \subseteq early', shown' = shown
  PROVE  ForeignTextExplained'
  BY DEF ForeignTextExplained

LEMMA SentTyped == StreamsTyped => sent \in Nat /\ MaxTurns \in Nat /\ MaxIgnored \in Nat \ {0} /\ Streams \subseteq Nat
  BY StreamsAssumption DEF StreamsTyped, Streams

LEMMA SendKeeps ==
  ASSUME StreamsInv, Send
  PROVE  StreamsInv'
<1> USE DEF StreamsInv
<1>0. sent \in Nat /\ MaxTurns \in Nat /\ MaxIgnored \in Nat \ {0} /\ Streams \subseteq Nat
  BY SentTyped
<1>1. /\ inFlight.turn = 0 /\ sent' = sent + 1 /\ inFlight'.turn = sent + 1 /\ inFlight'.stream = 0
      /\ inFlight' = [turn |-> sent + 1, stream |-> 0] /\ sent + 1 \in Streams
  BY <1>0 DEF Send, NoTurn, Streams
<1>2. UNCHANGED <<pending, ignored, cancelling, stream, registry, emitted, deltas, shown, early>>
  BY DEF Send
<1>3. start' = [start EXCEPT ![sent + 1] = "called"] /\ start \in [Streams -> {"none", "called", "started", "over"}]
  BY DEF Send, StreamsTyped
<1>4. start'[sent + 1] = "called" /\ \A s \in Streams : s # sent + 1 => start'[s] = start[s]
  BY <1>1, <1>3
<1>5. StreamsTyped'
  <2>1. sent' \in 0 .. MaxTurns /\ pending' \in 0 .. sent' /\ (pending' # 0 => pending' # inFlight'.turn)
    BY <1>0, <1>1, <1>2 DEF StreamsTyped, Streams
  <2>2. sent' \in {0, sent'} /\ 0 \in 0 .. sent'
    BY <1>0, <1>1
  <2>3. inFlight' \in [turn : {0, sent'}, stream : 0 .. sent'] /\ inFlight'.turn # 0
    BY <1>0, <1>1, <2>2
  <2>4. start' \in [Streams -> {"none", "called", "started", "over"}]
    BY <1>3
  <2>5. QED  BY <1>2, <2>1, <2>3, <2>4 DEF StreamsTyped
<1>6. IgnoredTyped'
  <2>1. \A i \in 1 .. Len(ignored) : ignored[i] \in Nat /\ ignored[i] <= sent
    BY IgnoredAreTurns
  <2>2. \A i \in 1 .. Len(ignored) : ignored[i] <= sent' /\ ignored[i] # inFlight'.turn
    BY <1>0, <1>1, <2>1
  <2>3. QED  BY <1>2, <2>2 DEF IgnoredTyped
<1>7. StartsInOrder'
  BY <1>0, <1>1, <1>2, <1>4 DEF StartsInOrder
<1>8. EventsInOrder' /\ Registered'
  BY <1>2 DEF EventsInOrder, Registered
<1>9. Evicted => Evicted'
  BY <1>0, <1>1 DEF Evicted
<1>10. Cancelled'
  BY <1>2, <1>9 DEF Cancelled, Ignored
<1>11. TurnsAccounted'
  <2> SUFFICES ASSUME NEW s \in Streams, s <= sent', inFlight'.turn # s PROVE Accounted(s)'
    BY DEF TurnsAccounted
  <2>1. s <= sent /\ s # 0 /\ start'[s] = start[s]
    BY <1>0, <1>1, <1>4 DEF Streams
  <2>2. Accounted(s)
    BY <1>1, <2>1 DEF TurnsAccounted
  <2>3. Quiet(s) => Quiet(s)'
    BY <1>2, <2>1 DEF Quiet
  <2>4. QED  BY <1>2, <1>9, <2>2, <2>3, AccountedKept DEF Ignored
<1>12. ForeignTextExplained'
  BY <1>2, ExplainedKept DEF StreamsSafe
<1>13. NoOrphanStream'
  BY <1>0, <1>1, <1>2, <1>4 DEF StreamsSafe, NoOrphanStream, StartsInOrder, Streams
<1>14. QED  BY <1>5, <1>6, <1>7, <1>8, <1>10, <1>11, <1>12, <1>13 DEF StreamsSafe

LEMMA StartFailedKeeps ==
  ASSUME StreamsInv, NEW t \in Streams, StartFailed(t)
  PROVE  StreamsInv'
<1> USE DEF StreamsInv
<1>0. sent \in Nat /\ MaxTurns \in Nat /\ MaxIgnored \in Nat \ {0} /\ Streams \subseteq Nat
  BY SentTyped
<1>1. start[t] = "called" /\ stream[t] = "none" /\ emitted[t] = <<>>
  BY DEF StartFailed, StartsInOrder, EventsInOrder
<1>2. UNCHANGED <<pending, ignored, sent, cancelling, stream, registry, emitted, deltas, shown, early>>
  BY DEF StartFailed
<1>3. start' = [start EXCEPT ![t] = "over"] /\ start \in [Streams -> {"none", "called", "started", "over"}]
  BY DEF StartFailed, StreamsTyped
<1>4. start'[t] = "over" /\ \A s \in Streams : s # t => start'[s] = start[s]
  BY <1>3
<1>5. inFlight' = IF inFlight.turn = t THEN NoTurn ELSE inFlight
  BY DEF StartFailed
<1>6. NoTurn \in [turn : {0, sent}, stream : 0 .. sent] /\ NoTurn.turn = 0
  BY <1>0 DEF NoTurn
<1>7. 0 \notin Streams
  BY DEF Streams
<1>8. StreamsTyped'
  <2>1. start' \in [Streams -> {"none", "called", "started", "over"}]
    BY <1>3
  <2>2. inFlight' \in [turn : {0, sent}, stream : 0 .. sent] /\ (inFlight'.turn = 0 => inFlight' = NoTurn)
    BY <1>5, <1>6 DEF StreamsTyped
  <2>3. pending # 0 => pending # inFlight'.turn
    BY <1>5, <1>6 DEF StreamsTyped
  <2>4. QED  BY <1>2, <2>1, <2>2, <2>3 DEF StreamsTyped
<1>9. IgnoredTyped'
  <2>1. \A i \in 1 .. Len(ignored) : ignored[i] # inFlight'.turn
    BY <1>0, <1>5, <1>6, <1>7, IgnoredAreTurns
  <2>2. QED  BY <1>2, <2>1 DEF IgnoredTyped
<1>10. StartsInOrder'
  BY <1>0, <1>1, <1>2, <1>4, <1>5, <1>6, <1>7 DEF StartsInOrder
<1>11. EventsInOrder' /\ Registered'
  BY <1>2 DEF EventsInOrder, Registered
<1>12. Evicted => Evicted'
  BY <1>2, <1>5, <1>6 DEF Evicted
<1>13. Cancelled'
  BY <1>2, <1>12 DEF Cancelled, Ignored
<1>14. TurnsAccounted'
  <2> SUFFICES ASSUME NEW s \in Streams, s <= sent', inFlight'.turn # s PROVE Accounted(s)'
    BY DEF TurnsAccounted
  <2>1. CASE s = t
    BY <1>1, <1>2, <1>4, <2>1 DEF Accounted, Quiet
  <2>2. CASE s # t
    <3>1. Accounted(s)
      BY <1>2, <1>5, <2>2 DEF TurnsAccounted
    <3>2. Quiet(s) => Quiet(s)'
      BY <1>2, <1>4, <2>2 DEF Quiet
    <3>3. QED  BY <1>2, <1>12, <3>1, <3>2, AccountedKept DEF Ignored
  <2>3. QED  BY <2>1, <2>2
<1>15. ForeignTextExplained'
  BY <1>2, ExplainedKept DEF StreamsSafe
<1>16. NoOrphanStream'
  BY <1>1, <1>2, <1>4, <1>5 DEF StreamsSafe, NoOrphanStream
<1>17. QED  BY <1>8, <1>9, <1>10, <1>11, <1>13, <1>14, <1>15, <1>16 DEF StreamsSafe

(* The start call replies: the turn is gone and its stream is ignored and  *)
(* cancelled, or the turn adopts it.                                       *)
LEMMA StartGoneKeeps ==
  ASSUME StreamsInv, NEW t \in Streams, StartReturned(t), Gone(t)
  PROVE  StreamsInv'
<1> USE DEF StreamsInv
<1>0. sent \in Nat /\ MaxTurns \in Nat /\ MaxIgnored \in Nat \ {0} /\ Streams \subseteq Nat /\ 0 \notin Streams
  BY SentTyped DEF Streams
<1>1. start[t] = "started" /\ stream[t] # "none" /\ t <= sent /\ t # inFlight.turn
  BY <1>0 DEF StartReturned, StartsInOrder, Gone, StreamsTyped
<1>2. /\ UNCHANGED <<inFlight, sent, stream, registry, emitted, deltas, shown, early>>
      /\ pending' = 0 /\ Ignore(t) /\ cancelling' = cancelling \cup {t}
  BY DEF StartReturned
<1>3. start' = [start EXCEPT ![t] = "over"] /\ start \in [Streams -> {"none", "called", "started", "over"}]
  BY DEF StartReturned, StreamsTyped
<1>4. start'[t] = "over" /\ \A s \in Streams : s # t => start'[s] = start[s]
  BY <1>3
<1>5. StreamsTyped'
  <2>1. start' \in [Streams -> {"none", "called", "started", "over"}]
    BY <1>3
  <2>2. QED  BY <1>0, <1>2, <2>1 DEF StreamsTyped
<1>6. /\ ignored' \in Seq(Streams) /\ Len(ignored') <= MaxIgnored
      /\ \A i \in 1 .. Len(ignored') : ignored'[i] = t \/ \E j \in 1 .. Len(ignored) : ignored'[i] = ignored[j]
      /\ \A i, j \in 1 .. Len(ignored') : ignored'[i] = ignored'[j] => i = j
      /\ \E i \in 1 .. Len(ignored') : ignored'[i] = t
      /\ \/ \A i \in 1 .. Len(ignored) : \E j \in 1 .. Len(ignored') : ignored'[j] = ignored[i]
         \/ Len(ignored) = MaxIgnored /\ ~Ignored(t)
  BY <1>2, IgnoreEffect
<1>7. IgnoredTyped'
  <2>1. \A i \in 1 .. Len(ignored') : ignored'[i] <= sent /\ ignored'[i] # inFlight.turn
    BY <1>1, <1>6, IgnoredAreTurns
  <2>2. QED  BY <1>2, <1>6, <2>1 DEF IgnoredTyped
<1>8. Ignored(t)' /\ (Evicted' <=> Evicted)
  BY <1>2, <1>6 DEF Ignored, Evicted
<1>9. Evicted' \/ \A s \in Streams : Ignored(s) => Ignored(s)'
  <2>1. CASE Len(ignored) = MaxIgnored /\ ~Ignored(t)
    <3>1. sent >= MaxIgnored + 1 /\ (inFlight.turn = sent /\ t # sent => sent > MaxIgnored + 1)
      BY <1>0, <1>1, <2>1, FullMemory
    <3>2. QED  BY <1>1, <1>2, <3>1 DEF Evicted, StreamsTyped
  <2>2. CASE \A i \in 1 .. Len(ignored) : \E j \in 1 .. Len(ignored') : ignored'[j] = ignored[i]
    BY <2>2 DEF Ignored
  <2>3. QED  BY <1>6, <2>1, <2>2
<1>10. StartsInOrder'
  BY <1>0, <1>1, <1>2, <1>4 DEF StartsInOrder
<1>11. EventsInOrder' /\ Registered'
  BY <1>2 DEF EventsInOrder, Registered
<1>12. Cancelled'
  BY <1>2, <1>8, <1>9 DEF Cancelled
<1>13. TurnsAccounted'
  <2> SUFFICES ASSUME NEW s \in Streams, s <= sent', inFlight'.turn # s PROVE Accounted(s)'
    BY DEF TurnsAccounted
  <2>1. Accounted(s)
    BY <1>2 DEF TurnsAccounted
  <2>2. Quiet(s) => Quiet(s)'
    BY <1>1, <1>2, <1>4 DEF Quiet
  <2>3. QED  BY <1>2, <1>8, <1>9, <2>1, <2>2, AccountedKept
<1>14. ForeignTextExplained'
  BY <1>2, ExplainedKept DEF StreamsSafe
<1>15. NoOrphanStream'
  BY <1>1, <1>2, <1>4 DEF StreamsSafe, NoOrphanStream
<1>16. QED  BY <1>5, <1>7, <1>10, <1>11, <1>12, <1>13, <1>14, <1>15 DEF StreamsSafe

LEMMA StartAdoptedKeeps ==
  ASSUME StreamsInv, NEW t \in Streams, StartReturned(t), ~Gone(t)
  PROVE  StreamsInv'
<1> USE DEF StreamsInv
<1>0. sent \in Nat /\ MaxTurns \in Nat /\ MaxIgnored \in Nat \ {0} /\ Streams \subseteq Nat /\ 0 \notin Streams
  BY SentTyped DEF Streams
<1>1. start[t] = "started" /\ stream[t] # "none" /\ t <= sent /\ t = inFlight.turn
  BY <1>0 DEF StartReturned, StartsInOrder, Gone, StreamsTyped
<1>2. /\ UNCHANGED <<pending, sent, cancelling, stream, registry, emitted, deltas, shown, early>>
      /\ ignored' = RemoveFirst(ignored, t) /\ inFlight' = [inFlight EXCEPT !.stream = t]
  BY DEF StartReturned
<1>3. start' = [start EXCEPT ![t] = "over"] /\ start \in [Streams -> {"none", "called", "started", "over"}]
  BY DEF StartReturned, StreamsTyped
<1>4. start'[t] = "over" /\ \A s \in Streams : s # t => start'[s] = start[s]
  BY <1>3
<1>5. ~Ignored(t)
  BY <1>1, IgnoredAreTurns DEF Ignored
<1>6. ignored' = ignored
  BY <1>2, <1>5, RemoveAbsent
<1>7. inFlight' \in [turn : {0, sent}, stream : 0 .. sent] /\ inFlight'.turn = t /\ inFlight'.stream = t
  BY <1>0, <1>1, <1>2 DEF StreamsTyped
<1>8. StreamsTyped'
  <2>1. start' \in [Streams -> {"none", "called", "started", "over"}]
    BY <1>3
  <2>2. inFlight'.turn # 0
    BY <1>0, <1>7
  <2>3. QED  BY <1>1, <1>2, <1>7, <2>1, <2>2 DEF StreamsTyped
<1>9. IgnoredTyped' /\ (Evicted' <=> Evicted)
  BY <1>1, <1>2, <1>6, <1>7 DEF IgnoredTyped, Evicted
<1>10. StartsInOrder'
  BY <1>0, <1>1, <1>2, <1>4, <1>7 DEF StartsInOrder
<1>11. EventsInOrder' /\ Registered'
  BY <1>2 DEF EventsInOrder, Registered
<1>12. Cancelled'
  BY <1>2, <1>6, <1>9 DEF Cancelled, Ignored
<1>13. TurnsAccounted'
  <2> SUFFICES ASSUME NEW s \in Streams, s <= sent', inFlight'.turn # s PROVE Accounted(s)'
    BY DEF TurnsAccounted
  <2>1. Accounted(s)
    BY <1>1, <1>2, <1>7 DEF TurnsAccounted
  <2>2. Quiet(s) => Quiet(s)'
    BY <1>1, <1>2, <1>4 DEF Quiet
  <2>3. QED  BY <1>2, <1>6, <1>9, <2>1, <2>2, AccountedKept DEF Ignored
<1>14. ForeignTextExplained'
  BY <1>2, ExplainedKept DEF StreamsSafe
<1>15. NoOrphanStream'
  BY <1>1, <1>2, <1>4, <1>7 DEF StreamsSafe, NoOrphanStream
<1>16. QED  BY <1>8, <1>9, <1>10, <1>11, <1>12, <1>13, <1>14, <1>15 DEF StreamsSafe

(* The user cancels: if the window knows a stream, that is ignored and     *)
(* cancelled; otherwise the turn waits for its start call to reply.        *)
LEMMA CancelKeeps ==
  ASSUME StreamsInv, CancelInFlight
  PROVE  StreamsInv'
<1> USE DEF StreamsInv
<1> DEFINE t == inFlight.turn
<1> DEFINE x == inFlight.stream
<1>0. sent \in Nat /\ MaxTurns \in Nat /\ MaxIgnored \in Nat \ {0} /\ Streams \subseteq Nat /\ 0 \notin Streams
  BY SentTyped DEF Streams
<1>1. t = sent /\ t \in Streams /\ x \in 0 .. sent /\ inFlight' = NoTurn /\ inFlight'.turn = 0
  BY <1>0 DEF CancelInFlight, StreamsTyped, NoTurn, Streams
<1>2. UNCHANGED <<sent, start, stream, registry, emitted, deltas, shown>>
  BY DEF CancelInFlight
<1>3. early' = IF start[t] = "over" THEN early ELSE early \cup {t}
  BY DEF CancelInFlight
<1>4. start[t] = "over" => x = t
  BY <1>1 DEF StartsInOrder
<1>5. NoTurn \in [turn : {0, sent}, stream : 0 .. sent]
  BY <1>0 DEF NoTurn
<1>6. Evicted => Evicted'
  BY <1>1, <1>2 DEF Evicted
<1>7. EventsInOrder' /\ Registered' /\ StartsInOrder'
  <2>1. EventsInOrder'
    BY <1>2 DEF EventsInOrder
  <2>2. Registered'
    BY <1>2 DEF Registered
  <2>3. StartsInOrder'
    BY <1>0, <1>1, <1>2 DEF StartsInOrder
  <2>4. QED  BY <2>1, <2>2, <2>3
<1>8. ForeignTextExplained'
  BY <1>2, <1>3, ExplainedKept DEF StreamsSafe
<1>9. early' \subseteq Streams /\ early \subseteq early'
  BY <1>1, <1>3 DEF StreamsTyped
<1>10. CASE x # 0
  <2>1. Ignore(x) /\ cancelling' = cancelling \cup {x} /\ pending' = pending /\ x \in Streams /\ x <= sent
    BY <1>0, <1>1, <1>10 DEF CancelInFlight, StreamsTyped, Streams
  <2>2. StreamsTyped'
    BY <1>0, <1>1, <1>2, <1>5, <1>9, <2>1 DEF StreamsTyped
  <2>3. /\ ignored' \in Seq(Streams) /\ Len(ignored') <= MaxIgnored
        /\ \A i \in 1 .. Len(ignored') : ignored'[i] = x \/ \E j \in 1 .. Len(ignored) : ignored'[i] = ignored[j]
        /\ \A i, j \in 1 .. Len(ignored') : ignored'[i] = ignored'[j] => i = j
        /\ \E i \in 1 .. Len(ignored') : ignored'[i] = x
        /\ \/ \A i \in 1 .. Len(ignored) : \E j \in 1 .. Len(ignored') : ignored'[j] = ignored[i]
           \/ Len(ignored) = MaxIgnored /\ ~Ignored(x)
    BY <2>1, IgnoreEffect
  <2>4. IgnoredTyped'
    <3>1. ASSUME NEW i \in 1 .. Len(ignored') PROVE ignored'[i] <= sent /\ ignored'[i] # 0
      <4>1. CASE ignored'[i] = x
        BY <1>10, <2>1, <4>1
      <4>2. CASE \E j \in 1 .. Len(ignored) : ignored'[i] = ignored[j]
        BY <4>2, IgnoredAreTurns
      <4>3. QED  BY <2>3, <4>1, <4>2
    <3>2. \A i \in 1 .. Len(ignored') : ignored'[i] <= sent' /\ ignored'[i] # inFlight'.turn
      BY <1>1, <1>2, <3>1
    <3>3. QED  BY <2>3, <3>2 DEF IgnoredTyped
  <2>5. Evicted' \/ \A s \in Streams : Ignored(s) => Ignored(s)'
    <3>1. CASE Len(ignored) = MaxIgnored /\ ~Ignored(x)
      <4>1. sent >= MaxIgnored + 1
        BY <1>0, <2>1, <3>1, FullMemory
      <4>2. QED  BY <1>1, <1>2, <4>1 DEF Evicted
    <3>2. CASE \A i \in 1 .. Len(ignored) : \E j \in 1 .. Len(ignored') : ignored'[j] = ignored[i]
      BY <3>2 DEF Ignored
    <3>3. QED  BY <2>3, <3>1, <3>2
  <2>6. \E i \in 1 .. Len(ignored') : ignored'[i] = x
    BY <2>3
  <2>7. ASSUME NEW s \in Streams, s = x PROVE Ignored(s)'
    BY <2>6, <2>7 DEF Ignored
  <2>8. Cancelled'
    <3> SUFFICES ASSUME NEW s \in Streams,
                        s \in cancelling' \/ stream'[s] = "stopping" \/ \E i \in 1 .. Len(emitted'[s]) : emitted'[s][i] = "cancelled"
                 PROVE  Ignored(s)' \/ Evicted'
      BY DEF Cancelled
    <3>1. CASE s = x
      BY <2>7, <3>1
    <3>2. CASE s # x
      BY <1>2, <1>6, <2>1, <2>5, <3>2 DEF Cancelled
    <3>3. QED  BY <3>1, <3>2
  <2>9. TurnsAccounted'
    <3> SUFFICES ASSUME NEW s \in Streams, s <= sent', inFlight'.turn # s PROVE Accounted(s)'
      BY DEF TurnsAccounted
    <3>1. CASE s = t
      <4>1. CASE start[t] = "over"
        BY <1>4, <2>7, <3>1, <4>1 DEF Accounted
      <4>2. CASE start[t] # "over"
        BY <1>3, <3>1, <4>2 DEF Accounted
      <4>3. QED  BY <4>1, <4>2
    <3>2. CASE s # t
      <4>1. Accounted(s)
        BY <1>2, <3>2 DEF TurnsAccounted
      <4>2. Quiet(s) => Quiet(s)'
        BY <1>2 DEF Quiet
      <4>3. QED  BY <1>2, <1>6, <1>9, <2>5, <4>1, <4>2, AccountedKept
    <3>3. QED  BY <3>1, <3>2
  <2>10. NoOrphanStream'
    <3> SUFFICES ASSUME NEW s \in Streams, stream[s] = "running"
                 PROVE  start[s] = "started" \/ s \in cancelling'
      BY <1>2 DEF NoOrphanStream
    <3>1. CASE s = t
      BY <1>4, <2>1, <3>1 DEF StartsInOrder, StreamsTyped
    <3>2. CASE s # t
      BY <2>1, <3>2 DEF StreamsSafe, NoOrphanStream
    <3>3. QED  BY <3>1, <3>2
  <2>11. QED  BY <1>7, <1>8, <2>2, <2>4, <2>8, <2>9, <2>10 DEF StreamsSafe
<1>11. CASE x = 0
  <2>1. pending' = t /\ UNCHANGED <<ignored, cancelling>>
    BY <1>11 DEF CancelInFlight
  <2>2. start[t] # "over" /\ early' = early \cup {t}
    BY <1>0, <1>1, <1>3, <1>4, <1>11
  <2>3. StreamsTyped'
    BY <1>0, <1>1, <1>2, <1>5, <1>9, <2>1 DEF StreamsTyped
  <2>4. IgnoredTyped'
    <3>1. \A i \in 1 .. Len(ignored) : ignored[i] # 0
      BY <1>0, IgnoredAreTurns
    <3>2. QED  BY <1>1, <1>2, <2>1, <3>1 DEF IgnoredTyped
  <2>5. Cancelled'
    BY <1>2, <1>6, <2>1 DEF Cancelled, Ignored
  <2>6. TurnsAccounted'
    <3> SUFFICES ASSUME NEW s \in Streams, s <= sent', inFlight'.turn # s PROVE Accounted(s)'
      BY DEF TurnsAccounted
    <3>1. CASE s = t
      BY <2>2, <3>1 DEF Accounted
    <3>2. CASE s # t
      <4>1. Accounted(s)
        BY <1>2, <3>2 DEF TurnsAccounted
      <4>2. Quiet(s) => Quiet(s)'
        BY <1>2 DEF Quiet
      <4>3. QED  BY <1>2, <1>6, <1>9, <2>1, <4>1, <4>2, AccountedKept DEF Ignored
    <3>3. QED  BY <3>1, <3>2
  <2>7. NoOrphanStream'
    <3> SUFFICES ASSUME NEW s \in Streams, stream[s] = "running"
                 PROVE  start[s] = "started" \/ s \in cancelling
      BY <1>2, <2>1 DEF NoOrphanStream
    <3>1. CASE s = t
      BY <2>2, <3>1 DEF StartsInOrder, StreamsTyped
    <3>2. CASE s # t
      BY <3>2 DEF StreamsSafe, NoOrphanStream
    <3>3. QED  BY <3>1, <3>2
  <2>8. QED  BY <1>7, <1>8, <2>3, <2>4, <2>5, <2>6, <2>7 DEF StreamsSafe
<1>12. QED  BY <1>10, <1>11

(* The application registers the stream.                                   *)
LEMMA TurnStreamKeeps ==
  ASSUME StreamsInv, NEW t \in Streams, TurnStream(t)
  PROVE  StreamsInv'
<1> USE DEF StreamsInv
<1>1. start[t] = "called" /\ stream[t] = "none"
  BY DEF TurnStream, StartsInOrder
<1>2. /\ UNCHANGED <<inFlight, pending, ignored, sent, cancelling, emitted, deltas, shown, early>>
      /\ registry' = registry \cup {t}
  BY DEF TurnStream
<1>3. /\ start' = [start EXCEPT ![t] = "started"] /\ stream' = [stream EXCEPT ![t] = "running"]
      /\ start \in [Streams -> {"none", "called", "started", "over"}]
      /\ stream \in [Streams -> {"none", "running", "stopping", "ended"}]
  BY DEF TurnStream, StreamsTyped
<1>4. /\ start'[t] = "started" /\ \A s \in Streams : s # t => start'[s] = start[s]
      /\ stream'[t] = "running" /\ \A s \in Streams : s # t => stream'[s] = stream[s]
  BY <1>3
<1>5. StreamsTyped'
  <2>1. /\ start' \in [Streams -> {"none", "called", "started", "over"}]
        /\ stream' \in [Streams -> {"none", "running", "stopping", "ended"}]
    BY <1>3
  <2>2. QED  BY <1>2, <2>1 DEF StreamsTyped
<1>6. IgnoredTyped' /\ (Evicted' <=> Evicted)
  BY <1>2 DEF IgnoredTyped, Evicted
<1>7. StartsInOrder'
  BY <1>1, <1>2, <1>4 DEF StartsInOrder
<1>8. EventsInOrder'
  BY <1>1, <1>2, <1>4 DEF EventsInOrder
<1>9. Cancelled'
  BY <1>2, <1>4, <1>6 DEF Cancelled, Ignored
<1>10. TurnsAccounted'
  <2> SUFFICES ASSUME NEW s \in Streams, s <= sent', inFlight'.turn # s PROVE Accounted(s)'
    BY DEF TurnsAccounted
  <2>1. Accounted(s)
    BY <1>2 DEF TurnsAccounted
  <2>2. Quiet(s) => Quiet(s)'
    BY <1>1, <1>2, <1>4 DEF Quiet
  <2>3. QED  BY <1>2, <1>6, <2>1, <2>2, AccountedKept DEF Ignored
<1>11. Registered'
  BY <1>2, <1>4 DEF Registered
<1>12. ForeignTextExplained'
  BY <1>2, ExplainedKept DEF StreamsSafe
<1>13. NoOrphanStream'
  BY <1>2, <1>4 DEF StreamsSafe, NoOrphanStream
<1>14. QED  BY <1>5, <1>6, <1>7, <1>8, <1>9, <1>10, <1>11, <1>12, <1>13 DEF StreamsSafe

(* A running stream says something, its end or a piece of text.            *)
LEMMA AppendSays ==
  ASSUME NEW q \in Seq(Events), NEW e \in Events
  PROVE  /\ Append(q, e) \in Seq(Events) /\ Append(q, e) # <<>> /\ Len(Append(q, e)) = Len(q) + 1
         /\ \A i \in 1 .. Len(Append(q, e)) :
              (i \in 1 .. Len(q) /\ Append(q, e)[i] = q[i]) \/ (i = Len(q) + 1 /\ Append(q, e)[i] = e)
  OBVIOUS

LEMMA SaysKeeps ==
  ASSUME StreamsInv, NEW x \in Streams, NEW event \in Events, Emit(x, event),
         stream[x] \in {"running", "stopping"}, stream[x] = "running" => event # "cancelled",
         UNCHANGED <<inFlight, pending, ignored, sent, start, cancelling, registry, shown, early>>,
         deltas' \in [Streams -> Nat],
         stream' = IF event = "delta" THEN stream ELSE [stream EXCEPT ![x] = "ended"]
  PROVE  StreamsInv'
<1> USE DEF StreamsInv
<1>1. /\ emitted \in [Streams -> Seq(Events)] /\ emitted' = [emitted EXCEPT ![x] = Append(@, event)]
      /\ stream \in [Streams -> {"none", "running", "stopping", "ended"}]
  BY DEF StreamsTyped, Emit
<1>2. /\ emitted'[x] = Append(emitted[x], event) /\ emitted[x] \in Seq(Events)
      /\ \A s \in Streams : s # x => emitted'[s] = emitted[s] /\ stream'[s] = stream[s]
      /\ stream'[x] = IF event = "delta" THEN stream[x] ELSE "ended"
  BY <1>1
<1> DEFINE q == emitted[x]
<1>3. /\ emitted'[x] \in Seq(Events) /\ emitted'[x] # <<>> /\ Len(emitted'[x]) = Len(q) + 1 /\ Len(q) \in Nat
      /\ \A i \in 1 .. Len(emitted'[x]) :
           (i \in 1 .. Len(q) /\ emitted'[x][i] = q[i]) \/ (i = Len(q) + 1 /\ emitted'[x][i] = event)
  BY <1>2, AppendSays
<1>4. \A i \in 1 .. Len(q) : q[i] = "delta"
  BY DEF EventsInOrder
<1>5. StreamsTyped'
  <2>1. emitted' \in [Streams -> Seq(Events)] /\ stream' \in [Streams -> {"none", "running", "stopping", "ended"}]
    BY <1>1, <1>3
  <2>2. QED  BY <2>1 DEF StreamsTyped
<1>6. IgnoredTyped' /\ (Evicted' <=> Evicted)
  BY DEF IgnoredTyped, Evicted
<1>7. StartsInOrder'
  BY <1>2 DEF StartsInOrder
<1>8. EventsInOrder'
  <2> SUFFICES ASSUME NEW s \in Streams
               PROVE  /\ stream'[s] = "none" => emitted'[s] = <<>>
                      /\ \A i \in 1 .. Len(emitted'[s]) :
                           emitted'[s][i] # "delta" => i = Len(emitted'[s]) /\ stream'[s] = "ended"
    BY DEF EventsInOrder
  <2>1. CASE s = x
    <3>1. stream'[x] = "none" => emitted'[x] = <<>>
      BY <1>2
    <3>2. ASSUME NEW i \in 1 .. Len(emitted'[x]), emitted'[x][i] # "delta"
          PROVE  i = Len(emitted'[x]) /\ stream'[x] = "ended"
      <4>1. i = Len(q) + 1 /\ emitted'[x][i] = event
        BY <1>3, <1>4, <3>2
      <4>2. QED  BY <1>2, <1>3, <3>2, <4>1
    <3>3. QED  BY <2>1, <3>1, <3>2
  <2>2. CASE s # x
    BY <1>2, <2>2 DEF EventsInOrder
  <2>3. QED  BY <2>1, <2>2
<1>9. Cancelled'
  <2> SUFFICES ASSUME NEW s \in Streams,
                      s \in cancelling \/ stream'[s] = "stopping" \/ \E i \in 1 .. Len(emitted'[s]) : emitted'[s][i] = "cancelled"
               PROVE  Ignored(s) \/ Evicted
    BY <1>6 DEF Cancelled, Ignored
  <2>1. CASE s = x
    <3>1. CASE s \in cancelling \/ stream'[x] = "stopping"
      BY <1>2, <2>1, <3>1 DEF Cancelled
    <3>2. ASSUME NEW i \in 1 .. Len(emitted'[x]), emitted'[x][i] = "cancelled" PROVE stream[x] = "stopping"
      <4>1. event = "cancelled"
        BY <1>3, <1>4, <3>2
      <4>2. QED  BY <4>1
    <3>3. QED  BY <2>1, <3>1, <3>2 DEF Cancelled
  <2>2. CASE s # x
    BY <1>2, <2>2 DEF Cancelled
  <2>3. QED  BY <2>1, <2>2
<1>10. TurnsAccounted'
  <2> SUFFICES ASSUME NEW s \in Streams, s <= sent', inFlight'.turn # s PROVE Accounted(s)'
    BY DEF TurnsAccounted
  <2>1. Accounted(s)
    BY DEF TurnsAccounted
  <2>2. Quiet(s) => Quiet(s)'
    BY <1>2 DEF Quiet
  <2>3. QED  BY <1>6, <2>1, <2>2, AccountedKept DEF Ignored
<1>11. Registered'
  BY <1>2 DEF Registered
<1>12. ForeignTextExplained'
  BY ExplainedKept DEF StreamsSafe
<1>13. NoOrphanStream'
  BY <1>2 DEF StreamsSafe, NoOrphanStream
<1>14. QED  BY <1>5, <1>6, <1>7, <1>8, <1>9, <1>10, <1>11, <1>12, <1>13 DEF StreamsSafe

LEMMA EmitDeltaKeeps ==
  ASSUME StreamsInv, NEW s \in Streams, EmitDelta(s)
  PROVE  StreamsInv'
<1>1. deltas \in [Streams -> Nat]
  BY DEF StreamsInv, StreamsTyped
<1>2. deltas' = [deltas EXCEPT ![s] = deltas[s] + 1]
  BY DEF EmitDelta
<1>3. deltas' \in [Streams -> Nat]
  BY <1>1, <1>2
<1>4. "delta" \in Events
  BY DEF Events
<1>5. QED  BY <1>3, <1>4, SaysKeeps DEF EmitDelta

LEMMA EndStreamKeeps ==
  ASSUME StreamsInv, NEW s \in Streams, NEW event \in {"done", "error", "cancelled"}, EndStream(s, event)
  PROVE  StreamsInv'
<1>1. deltas' \in [Streams -> Nat]
  BY DEF StreamsInv, StreamsTyped, EndStream
<1>2. event \in Events /\ event # "delta"
  BY DEF Events
<1>3. QED  BY <1>1, <1>2, SaysKeeps DEF EndStream

LEMMA UnregisterKeeps ==
  ASSUME StreamsInv, NEW s \in Streams, Unregister(s)
  PROVE  StreamsInv'
<1> USE DEF StreamsInv, Unregister
<1>1. StreamsTyped' /\ IgnoredTyped' /\ StartsInOrder' /\ EventsInOrder' /\ (Evicted' <=> Evicted)
  BY DEF StreamsTyped, IgnoredTyped, StartsInOrder, EventsInOrder, Evicted
<1>2. Cancelled'
  BY <1>1 DEF Cancelled, Ignored
<1>3. TurnsAccounted'
  BY <1>1 DEF TurnsAccounted, Accounted, Ignored, ForeignEnd, Quiet
<1>4. Registered'
  BY DEF Registered
<1>5. StreamsSafe'
  BY DEF StreamsSafe, ForeignTextExplained, NoOrphanStream
<1>6. QED  BY <1>1, <1>2, <1>3, <1>4, <1>5

(* The cancel call arrives: a registered stream is told to stop.           *)
LEMMA CancelStreamKeeps ==
  ASSUME StreamsInv, NEW x \in Streams, CancelStream(x)
  PROVE  StreamsInv'
<1> USE DEF StreamsInv
<1>1. /\ x \in cancelling /\ cancelling' = cancelling \ {x} /\ registry' = registry \ {x}
      /\ UNCHANGED <<inFlight, pending, ignored, sent, start, emitted, deltas, shown, early>>
  BY DEF CancelStream
<1>2. /\ stream \in [Streams -> {"none", "running", "stopping", "ended"}]
      /\ stream' = IF x \in registry /\ stream[x] = "running" THEN [stream EXCEPT ![x] = "stopping"] ELSE stream
  BY DEF StreamsTyped, CancelStream
<1>3. stream[x] = "running" => x \in registry
  BY DEF Registered
<1>4. /\ stream'[x] = IF stream[x] = "running" THEN "stopping" ELSE stream[x]
      /\ \A s \in Streams : s # x => stream'[s] = stream[s]
  BY <1>2, <1>3
<1>5. StreamsTyped'
  <2>1. stream' \in [Streams -> {"none", "running", "stopping", "ended"}]
    BY <1>2
  <2>2. QED  BY <1>1, <2>1 DEF StreamsTyped
<1>6. IgnoredTyped' /\ (Evicted' <=> Evicted)
  BY <1>1 DEF IgnoredTyped, Evicted
<1>7. StartsInOrder'
  BY <1>1, <1>4 DEF StartsInOrder
<1>8. EventsInOrder'
  BY <1>1, <1>4 DEF EventsInOrder
<1>9. Cancelled'
  <2>1. \A s \in Streams : s \in cancelling' \/ stream'[s] = "stopping" => s \in cancelling \/ stream[s] = "stopping"
    BY <1>1, <1>4
  <2>2. QED  BY <1>1, <1>6, <2>1 DEF Cancelled, Ignored
<1>10. TurnsAccounted'
  <2> SUFFICES ASSUME NEW s \in Streams, s <= sent', inFlight'.turn # s PROVE Accounted(s)'
    BY DEF TurnsAccounted
  <2>1. Accounted(s)
    BY <1>1 DEF TurnsAccounted
  <2>2. Quiet(s) => Quiet(s)'
    BY <1>1, <1>4 DEF Quiet
  <2>3. QED  BY <1>1, <1>6, <2>1, <2>2, AccountedKept DEF Ignored
<1>11. Registered'
  BY <1>1, <1>4 DEF Registered
<1>12. ForeignTextExplained'
  BY <1>1, ExplainedKept DEF StreamsSafe
<1>13. NoOrphanStream'
  BY <1>1, <1>4 DEF StreamsSafe, NoOrphanStream
<1>14. QED  BY <1>5, <1>6, <1>7, <1>8, <1>9, <1>10, <1>11, <1>12, <1>13 DEF StreamsSafe

(* The window sees an event.  One that is not its turn's is bound only if  *)
(* its own turn left without the window knowing, or the window forgot it.  *)
LEMMA BoundIsExplained ==
  ASSUME StreamsInv, NEW x \in Streams, emitted[x] # <<>>, Binds(x), inFlight.turn # x
  PROVE  x < inFlight.turn /\ (x \in early \/ ForeignEnd(x) \/ Evicted)
<1> USE DEF StreamsInv
<1>0. sent \in Nat /\ Streams \subseteq Nat /\ 0 \notin Streams
  BY SentTyped DEF Streams
<1>1. stream[x] # "none" /\ start[x] # "none" /\ x <= sent
  BY <1>0 DEF EventsInOrder, StartsInOrder
<1>2. inFlight.turn = sent
  BY DEF Binds, StreamsTyped
<1>3. ~Ignored(x) /\ ~Quiet(x)
  BY DEF Binds, Ignored, Contains, Quiet
<1>4. Accounted(x)
  BY <1>1 DEF TurnsAccounted
<1>5. QED  BY <1>0, <1>1, <1>2, <1>3, <1>4 DEF Accounted

LEMMA TailSays ==
  ASSUME NEW q \in Seq(Events), q # <<>>
  PROVE  /\ Tail(q) \in Seq(Events) /\ Head(q) \in Events /\ Head(q) = q[1] /\ 1 \in 1 .. Len(q) /\ Len(q) \in Nat
         /\ Len(Tail(q)) = Len(q) - 1 /\ (Len(q) = 1 => Tail(q) = <<>>)
         /\ \A i \in 1 .. Len(Tail(q)) : i + 1 \in 1 .. Len(q) /\ Tail(q)[i] = q[i + 1]
<1>1. Len(q) \in Nat /\ Len(q) >= 1
  OBVIOUS
<1>2. Head(q) = q[1] /\ 1 \in 1 .. Len(q) /\ q[1] \in Events
  BY <1>1
<1>3. Tail(q) \in Seq(Events) /\ Len(Tail(q)) = Len(q) - 1
  BY <1>1
<1>4. \A i \in 1 .. Len(Tail(q)) : i + 1 \in 1 .. Len(q) /\ Tail(q)[i] = q[i + 1]
  BY <1>1, <1>3
<1>5. Len(q) = 1 => Tail(q) = <<>>
  <2>1. \A r \in Seq(Events) : Len(r) = 0 => r = <<>>
    BY EmptySeq
  <2>2. Len(q) = 1 => Len(Tail(q)) = 0
    BY <1>3
  <2>3. QED  BY ONLY <1>3, <2>1, <2>2, Zenon
<1>6. QED  BY <1>1, <1>2, <1>3, <1>4, <1>5

LEMMA DeliverKeeps ==
  ASSUME StreamsInv, NEW x \in Streams, Deliver(x)
  PROVE  StreamsInv'
<1> USE DEF StreamsInv
<1> DEFINE t == inFlight.turn
<1> DEFINE q == emitted[x]
<1>0. sent \in Nat /\ MaxTurns \in Nat /\ MaxIgnored \in Nat \ {0} /\ Streams \subseteq Nat /\ 0 \notin Streams
  BY SentTyped DEF Streams
<1>1. /\ q # <<>> /\ UNCHANGED <<pending, ignored, sent, start, cancelling, stream, registry, deltas, early>>
      /\ emitted \in [Streams -> Seq(Events)] /\ emitted' = [emitted EXCEPT ![x] = Tail(@)]
  BY DEF Deliver, StreamsTyped
<1>2. /\ q \in Seq(Events) /\ emitted'[x] = Tail(q) /\ \A s \in Streams : s # x => emitted'[s] = emitted[s]
  BY <1>1
<1>3. /\ Tail(q) \in Seq(Events) /\ Head(q) \in Events /\ Head(q) = q[1] /\ 1 \in 1 .. Len(q) /\ Len(q) \in Nat
      /\ Len(Tail(q)) = Len(q) - 1 /\ (Len(q) = 1 => Tail(q) = <<>>)
      /\ \A i \in 1 .. Len(Tail(q)) : i + 1 \in 1 .. Len(q) /\ Tail(q)[i] = q[i + 1]
  BY <1>1, <1>2, TailSays
<1>4. emitted' \in [Streams -> Seq(Events)]
  BY <1>1, <1>3
<1>5. EventsInOrder'
  <2> SUFFICES ASSUME NEW s \in Streams
               PROVE  /\ stream[s] = "none" => emitted'[s] = <<>>
                      /\ \A i \in 1 .. Len(emitted'[s]) :
                           emitted'[s][i] # "delta" => i = Len(emitted'[s]) /\ stream[s] = "ended"
    BY <1>1 DEF EventsInOrder
  <2>1. CASE s = x
    <3>1. stream[x] # "none"
      BY <1>1 DEF EventsInOrder
    <3>2. \A i \in 1 .. Len(Tail(q)) : Tail(q)[i] # "delta" => i + 1 = Len(q) /\ stream[x] = "ended"
      BY <1>3 DEF EventsInOrder
    <3>3. ASSUME NEW i \in 1 .. Len(emitted'[x]), emitted'[x][i] # "delta"
          PROVE  i = Len(emitted'[x]) /\ stream[x] = "ended"
      BY <1>2, <1>3, <3>2, <3>3
    <3>4. QED  BY <2>1, <3>1, <3>3
  <2>2. CASE s # x
    BY <1>2, <2>2 DEF EventsInOrder
  <2>3. QED  BY <2>1, <2>2
<1>6. Registered'
  BY <1>1 DEF Registered
<1>7. ASSUME Evicted => Evicted' PROVE Cancelled'
  <2>1. \A s \in Streams : (\E i \in 1 .. Len(emitted'[s]) : emitted'[s][i] = "cancelled")
                             => \E i \in 1 .. Len(emitted[s]) : emitted[s][i] = "cancelled"
    <3>1. ASSUME NEW i \in 1 .. Len(emitted'[x]), emitted'[x][i] = "cancelled"
          PROVE  \E j \in 1 .. Len(emitted[x]) : emitted[x][j] = "cancelled"
      <4>1. i + 1 \in 1 .. Len(q) /\ q[i + 1] = "cancelled"
        BY <1>2, <1>3, <3>1
      <4>2. QED  BY <4>1
    <3>2. QED  BY <1>2, <3>1
  <2>2. QED  BY <1>1, <1>7, <2>1 DEF Cancelled, Ignored
<1>8. \A s \in Streams : Quiet(s) => Quiet(s)'
  BY <1>1, <1>2 DEF Quiet
<1>9. CASE ~Binds(x)
  <2>1. UNCHANGED <<inFlight, shown>>
    BY <1>9 DEF Deliver
  <2>2. StreamsTyped' /\ IgnoredTyped' /\ StartsInOrder' /\ (Evicted' <=> Evicted)
    BY <1>1, <1>4, <2>1 DEF StreamsTyped, IgnoredTyped, StartsInOrder, Evicted
  <2>3. TurnsAccounted'
    <3> SUFFICES ASSUME NEW s \in Streams, s <= sent, t # s PROVE Accounted(s)'
      BY <1>1, <2>1 DEF TurnsAccounted
    <3>1. Accounted(s)
      BY DEF TurnsAccounted
    <3>2. QED  BY <1>1, <1>8, <2>1, <2>2, <3>1, AccountedKept DEF Ignored
  <2>4. ForeignTextExplained'
    BY <1>1, <2>1, ExplainedKept DEF StreamsSafe
  <2>5. NoOrphanStream'
    BY <1>1, <2>1 DEF StreamsSafe, NoOrphanStream
  <2>6. QED  BY <1>5, <1>6, <1>7, <2>2, <2>3, <2>4, <2>5 DEF StreamsSafe
<1>10. CASE Binds(x)
  <2>1. t = sent /\ t \in Streams /\ inFlight.stream \in {0, x} /\ ~Ignored(x) /\ x <= sent
    <3>1. stream[x] # "none" /\ start[x] # "none"
      BY <1>1 DEF EventsInOrder, StartsInOrder
    <3>2. QED  BY <1>0, <1>10, <3>1 DEF Binds, StreamsTyped, NoTurn, Ignored, Contains, StartsInOrder, Streams
  <2>2. shown' = IF Head(q) = "cancelled" THEN shown ELSE shown \cup {<<t, x>>}
    BY <1>10 DEF Deliver
  <2>3. shown' \subseteq Streams \X Streams /\ shown \subseteq shown'
    BY <2>1, <2>2 DEF StreamsTyped
  <2>4. ForeignTextExplained'
    <3>1. CASE Head(q) = "cancelled" \/ t = x
      <4>1. \A p \in shown' : p[1] # p[2] => p \in shown
        BY <2>2, <3>1
      <4>2. QED  BY <1>1, <2>3, <4>1 DEF StreamsSafe, ForeignTextExplained
    <3>2. CASE Head(q) # "cancelled" /\ t # x
      <4>1. x < t /\ (x \in early \/ ForeignEnd(x) \/ Evicted)
        BY <1>1, <1>10, <3>2, BoundIsExplained
      <4>2. Evicted => t > MaxIgnored + 1
        BY <1>0, <2>1 DEF Evicted
      <4>3. \A p \in shown' : p \in shown \/ (p[1] = t /\ p[2] = x)
        BY <2>2
      <4>4. ASSUME NEW p \in shown', p[1] # p[2]
            PROVE  p[2] < p[1] /\ (p[2] \in early \/ (\E r \in shown : r[1] = p[2] /\ r[1] # r[2]) \/ p[1] > MaxIgnored + 1)
        BY <4>1, <4>2, <4>3, <4>4 DEF StreamsSafe, ForeignTextExplained, ForeignEnd
      <4>5. QED  BY <1>1, <2>3, <4>4 DEF ForeignTextExplained
    <3>3. QED  BY <3>1, <3>2
  <2>5. CASE Head(q) = "delta"
    <3>1. inFlight' = [inFlight EXCEPT !.stream = x]
      BY <1>10, <2>5 DEF Deliver, Ends
    <3>2. inFlight' \in [turn : {0, sent}, stream : 0 .. sent] /\ inFlight'.turn = t /\ inFlight'.stream = x
      <4>1. x \in 0 .. sent /\ inFlight \in [turn : {0, sent}, stream : 0 .. sent]
        BY <1>0, <2>1 DEF StreamsTyped, Streams
      <4>2. QED  BY <3>1, <4>1
    <3>3. StreamsTyped' /\ IgnoredTyped' /\ (Evicted' <=> Evicted)
      BY <1>0, <1>1, <1>4, <2>1, <2>3, <3>2 DEF StreamsTyped, IgnoredTyped, Evicted
    <3>4. StartsInOrder'
      BY <1>0, <1>1, <2>1, <3>2 DEF StartsInOrder
    <3>5. TurnsAccounted'
      <4> SUFFICES ASSUME NEW s \in Streams, s <= sent, t # s PROVE Accounted(s)'
        BY <1>1, <3>2 DEF TurnsAccounted
      <4>1. Accounted(s)
        BY DEF TurnsAccounted
      <4>2. QED  BY <1>1, <1>8, <2>3, <3>3, <4>1, AccountedKept DEF Ignored
    <3>6. NoOrphanStream'
      BY <1>1, <3>2 DEF StreamsSafe, NoOrphanStream
    <3>7. QED  BY <1>5, <1>6, <1>7, <2>4, <3>3, <3>4, <3>5, <3>6 DEF StreamsSafe
  <2>6. CASE Head(q) # "delta"
    <3>1. inFlight' = NoTurn /\ inFlight'.turn = 0
      BY <1>10, <2>6 DEF Deliver, Ends, NoTurn
    <3>2. Len(q) = 1 /\ stream[x] = "ended"
      BY <1>3, <2>6 DEF EventsInOrder
    <3>3. NoTurn \in [turn : {0, sent}, stream : 0 .. sent]
      BY <1>0 DEF NoTurn
    <3>4. StreamsTyped'
      BY <1>0, <1>1, <1>4, <2>3, <3>1, <3>3 DEF StreamsTyped
    <3>5. IgnoredTyped' /\ StartsInOrder' /\ (Evicted => Evicted')
      <4>1. \A i \in 1 .. Len(ignored) : ignored[i] # 0
        BY <1>0, IgnoredAreTurns
      <4>2. QED  BY <1>0, <1>1, <3>1, <4>1 DEF IgnoredTyped, StartsInOrder, Evicted
    <3>6. TurnsAccounted'
      <4> SUFFICES ASSUME NEW s \in Streams, s <= sent PROVE Accounted(s)'
        BY <1>1 DEF TurnsAccounted
      <4>1. CASE s # t
        <5>1. Accounted(s)
          BY <4>1 DEF TurnsAccounted
        <5>2. QED  BY <1>1, <1>8, <2>3, <3>5, <5>1, AccountedKept DEF Ignored
      <4>2. CASE s = t /\ x = t
        <5>1. emitted'[x] = <<>> /\ stream'[x] = "ended"
          BY <1>1, <1>2, <1>3, <3>2
        <5>2. QED  BY <4>2, <5>1 DEF Accounted, Quiet
      <4>3. CASE s = t /\ x # t /\ Head(q) # "cancelled"
        <5>1. <<t, x>> \in shown' /\ <<t, x>>[1] = t /\ <<t, x>>[2] = x
          BY <2>2, <4>3
        <5>2. QED  BY <4>3, <5>1 DEF Accounted, ForeignEnd
      <4>4. CASE s = t /\ x # t /\ Head(q) = "cancelled"
        <5>1. Evicted
          BY <1>3, <2>1, <4>4 DEF Cancelled
        <5>2. QED  BY <3>5, <5>1 DEF Accounted
      <4>5. QED  BY <4>1, <4>2, <4>3, <4>4
    <3>7. NoOrphanStream'
      <4> SUFFICES ASSUME NEW s \in Streams, stream[s] = "running" PROVE start[s] = "started" \/ s \in cancelling
        BY <1>1 DEF NoOrphanStream
      <4>1. CASE s # t
        BY <4>1 DEF StreamsSafe, NoOrphanStream
      <4>2. CASE s = t
        <5>1. x # t
          BY <3>2, <4>2
        <5>2. start[t] # "over"
          BY <1>0, <2>1, <5>1 DEF StartsInOrder
        <5>3. start[t] \notin {"none", "called"}
          BY <2>1, <4>2 DEF StartsInOrder
        <5>4. start[t] \in {"none", "called", "started", "over"}
          BY <2>1 DEF StreamsTyped
        <5>5. QED  BY <4>2, <5>2, <5>3, <5>4
      <4>3. QED  BY <4>1, <4>2
    <3>8. QED  BY <1>5, <1>6, <1>7, <2>4, <3>4, <3>5, <3>6, <3>7 DEF StreamsSafe
  <2>7. QED  BY <2>5, <2>6
<1>11. QED  BY <1>9, <1>10

LEMMA StreamsInitially == StreamsInit => StreamsInv
<1> SUFFICES ASSUME StreamsInit PROVE StreamsInv
  OBVIOUS
<1> USE DEF StreamsInit
<1>0. MaxTurns \in Nat /\ MaxIgnored \in Nat /\ Streams \subseteq Nat /\ 0 \notin Streams /\ \A s \in Streams : s > 0
  BY StreamsAssumption DEF Streams
<1>1. NoTurn \in [turn : {0, sent}, stream : 0 .. sent] /\ NoTurn.turn = 0
  BY DEF NoTurn
<1>2. <<>> \in Seq(Events) /\ <<>> \in Seq(Streams) /\ Len(<<>>) = 0
  OBVIOUS
<1>3. StreamsTyped
  BY <1>0, <1>1, <1>2 DEF StreamsTyped
<1>4. IgnoredTyped
  BY <1>0, <1>2 DEF IgnoredTyped
<1>5. StartsInOrder /\ EventsInOrder /\ Cancelled /\ Registered
  BY <1>0, <1>1 DEF StartsInOrder, EventsInOrder, Cancelled, Registered
<1>6. TurnsAccounted
  BY <1>0 DEF TurnsAccounted
<1>7. StreamsSafe
  BY DEF StreamsSafe, ForeignTextExplained, NoOrphanStream
<1>8. QED  BY <1>3, <1>4, <1>5, <1>6, <1>7 DEF StreamsInv

LEMMA StreamsStep == StreamsInv /\ [StreamsNext]_svars => StreamsInv'
<1> SUFFICES ASSUME StreamsInv, [StreamsNext]_svars PROVE StreamsInv'
  OBVIOUS
<1>1. CASE Send
  BY <1>1, SendKeeps
<1>2. CASE CancelInFlight
  BY <1>2, CancelKeeps
<1>3. ASSUME NEW s \in Streams, StartReturned(s) PROVE StreamsInv'
  BY <1>3, StartGoneKeeps, StartAdoptedKeeps
<1>4. ASSUME NEW s \in Streams, StartFailed(s) PROVE StreamsInv'
  BY <1>4, StartFailedKeeps
<1>5. ASSUME NEW s \in Streams, TurnStream(s) PROVE StreamsInv'
  BY <1>5, TurnStreamKeeps
<1>6. ASSUME NEW s \in Streams, Deliver(s) PROVE StreamsInv'
  BY <1>6, DeliverKeeps
<1>7. ASSUME NEW s \in Streams, Unregister(s) PROVE StreamsInv'
  BY <1>7, UnregisterKeeps
<1>8. ASSUME NEW s \in Streams, CancelStream(s) PROVE StreamsInv'
  BY <1>8, CancelStreamKeeps
<1>9. ASSUME NEW s \in Streams, NEW event \in {"done", "error", "cancelled"}, EndStream(s, event) PROVE StreamsInv'
  BY <1>9, EndStreamKeeps
<1>10. ASSUME NEW s \in Streams, EmitDelta(s) PROVE StreamsInv'
  BY <1>10, EmitDeltaKeeps
<1>11. CASE UNCHANGED svars
  <2>1. UNCHANGED <<inFlight, pending, ignored, sent, start, cancelling, stream, registry, emitted, deltas, shown, early>>
    BY <1>11 DEF svars
  <2>2. StreamsTyped' /\ IgnoredTyped' /\ StartsInOrder' /\ EventsInOrder' /\ Registered'
    BY <2>1 DEF StreamsInv, StreamsTyped, IgnoredTyped, StartsInOrder, EventsInOrder, Registered
  <2>3. Cancelled' /\ TurnsAccounted'
    BY <2>1 DEF StreamsInv, Cancelled, TurnsAccounted, Accounted, Evicted, Ignored, ForeignEnd, Quiet
  <2>4. StreamsSafe'
    BY <2>1 DEF StreamsInv, StreamsSafe, ForeignTextExplained, NoOrphanStream
  <2>5. QED  BY <2>2, <2>3, <2>4 DEF StreamsInv
<1>12. QED
  BY <1>1, <1>2, <1>3, <1>4, <1>5, <1>6, <1>7, <1>8, <1>9, <1>10, <1>11 DEF StreamsNext, Moves

(* The text of another turn gets into a turn's message only as explained,  *)
(* and no stream runs that nobody will listen to or cancel.                *)
THEOREM StreamsCorrect == StreamsSpec => []StreamsSafe
<1>1. StreamsInv => StreamsSafe
  BY DEF StreamsInv
<1>2. QED  BY <1>1, StreamsInitially, StreamsStep, PTL DEF StreamsSpec

(* What the window remembers are turns it has sent, no more of them to     *)
(* ignore than its limit.                                                  *)
THEOREM StreamsTypeCorrect == StreamsSpec => []StreamsTypeOK
<1>1. StreamsInv => StreamsTypeOK
  <2> SUFFICES ASSUME StreamsInv PROVE StreamsTypeOK
    OBVIOUS
  <2>1. \A i \in 1 .. Len(ignored) : ignored[i] \in 1 .. sent
    <3>1. sent \in Nat
      BY SentTyped DEF StreamsInv
    <3>2. QED  BY <3>1, IgnoredAreTurns DEF StreamsInv
  <2>2. ToSet(ignored) \subseteq 1 .. sent
    <3>1. ignored \in Seq(Streams)
      BY DEF StreamsInv, IgnoredTyped
    <3>2. ToSet(ignored) = {ignored[i] : i \in DOMAIN ignored} /\ DOMAIN ignored = 1 .. Len(ignored)
      BY <3>1 DEF ToSet
    <3>3. QED  BY <2>1, <3>2
  <2>3. inFlight.turn \in 0 .. sent
    BY SentTyped DEF StreamsInv, StreamsTyped
  <2>4. QED  BY <2>2, <2>3 DEF StreamsInv, StreamsTyped, IgnoredTyped, StreamsTypeOK
<1>2. QED  BY <1>1, StreamsInitially, StreamsStep, PTL DEF StreamsSpec

-----------------------------------------------------------------------------

(* The scan that has a model classify the fields.  While it asks, the      *)
(* report it began with holds every lock, and whatever of it is older than *)
(* its stamp was left out by a model, was answered meanwhile or will be    *)
(* asked.                                                                  *)
ScanRecords ==
  [number : Nat, pc : {"ended", "describe", "gate", "rules", "existing", "asking"}, entities : SUBSET SsEntities,
   partial : BOOLEAN, rules : Nat, existing : Reports \cup {NoReport}, levels : SUBSET SsLevels,
   ask : SUBSET SsEntities, asked : SUBSET SsEntities,
   results : SUBSET [field : SsFields, level : SsLevels \cup {"unconfirmed"}],
   failed : BOOLEAN, consented : BOOLEAN, shares : BOOLEAN, omitted : SUBSET SsFields]
RulesOf(report) == IF report = NoReport THEN 0 ELSE report.rules
LocksIn(report) == \A x \in SsFields : ssLocks[x] # NoLock =>
  x \in FieldsOf(report) /\ report.fields[x].level = ssLocks[x] /\ Locked(report.fields[x])
Honest(report, spared) == RulesOf(report) = ssRules =>
  \A x \in FieldsOf(report) : Locked(report.fields[x]) \/ report.fields[x].rules = ssRules \/ x \in spared
LockedIn(report, x) == x \in FieldsOf(report) /\ Locked(report.fields[x])

ScanKnows(scan) ==
  /\ scan \in ScanRecords
  /\ scan.partial <=> scan.entities # SsEntities
  /\ scan.ask \cup scan.asked \subseteq scan.entities
  /\ \A r \in scan.results : r.field[1] \in scan.entities
  /\ RulesOf(scan.existing) <= scan.rules /\ scan.rules <= ssRules
  /\ LocksIn(scan.existing) /\ Honest(scan.existing, scan.omitted \cup AnsweredFields(scan))
  /\ ~scan.failed => \A x \in SsFields : x[1] \in scan.entities =>
       LockedIn(scan.existing, x) \/ x[1] \in scan.ask \cup scan.asked \/ x \in AnsweredFields(scan) \cup scan.omitted

ScanTyped ==
  /\ ssReport \in Reports \cup {NoReport} /\ ssRules \in Nat /\ ssLevels \subseteq SsLevels
  /\ ssConsent \in BOOLEAN /\ ssDescribed \subseteq SsEntities /\ ssRunning \in BOOLEAN
  /\ ssScan \in ScanRecords /\ ssCleanups \subseteq Nat
  /\ ssProgress \in [number : Nat, status : {"none", "running", "failed", "completed"}]
  /\ ssAudit \subseteq [scan : Nat, allowed : BOOLEAN]
  /\ ssLocks \in [SsFields -> SsLevels \cup {NoLock}]
SlotHeld ==
  /\ ssRunning <=> ssScan.pc # "ended"
  /\ ssRunning <=> ssProgress.status = "running"
  /\ ssRunning => ssScan.number > 0 /\ ssProgress.number = ssScan.number /\ ssScan.number \notin ssCleanups
  /\ \A n \in ssCleanups : n > 0 /\ n <= ssScan.number
  /\ ssScan.number \in ssCleanups => ssProgress.number = ssScan.number
Audited ==
  /\ \A row \in ssAudit : row.scan <= ssScan.number /\ (ssScan.pc \in {"describe", "gate"} => row.scan # ssScan.number)
  /\ ssScan.pc \in {"rules", "existing", "asking"} =>
       ssScan.consented /\ [scan |-> ssScan.number, allowed |-> TRUE] \in ssAudit
  /\ \A row, other \in ssAudit : row.scan > 0 /\ other.scan = row.scan => other = row
ScanInHand ==
  /\ ssScan.pc # "asking" => ssScan.asked = {}
  /\ ssScan.pc \in {"describe", "gate", "rules", "existing"} => ssScan.results = {} /\ ~ssScan.failed
  /\ ssScan.pc \in {"gate", "rules", "existing"} => (ssScan.partial <=> ssScan.entities # SsEntities)
  /\ ssScan.pc = "existing" => RulesOf(ssReport) <= ssScan.rules /\ ssScan.rules <= ssRules
  /\ ssScan.pc = "asking" => ScanKnows(ssScan)
ReportTrue == LocksIn(ssReport) /\ RulesOf(ssReport) <= ssRules /\ Honest(ssReport, ssScan.omitted)

ScanInv == ScanTyped /\ SlotHeld /\ Audited /\ ScanInHand /\ ReportTrue

LEMMA ReportIs ==
  ASSUME NEW report \in Reports \cup {NoReport}
  PROVE  /\ RulesOf(report) \in Nat /\ FieldsOf(report) \subseteq SsFields
         /\ \A x \in FieldsOf(report) : report.fields[x] \in Classifications
<1>1. CASE report = NoReport
  BY <1>1 DEF FieldsOf, RulesOf
<1>2. CASE report # NoReport
  <2>1. report.rules \in Nat /\ report.fields \in UNION {[S -> Classifications] : S \in SUBSET SsFields}
    BY <1>2 DEF Reports
  <2>2. PICK S \in SUBSET SsFields : report.fields \in [S -> Classifications]
    BY <2>1
  <2>3. QED  BY <1>2, <2>1, <2>2 DEF FieldsOf, RulesOf
<1>3. QED  BY <1>1, <1>2

LEMMA ReportMade ==
  ASSUME NEW S \in SUBSET SsFields, NEW f \in [S -> Classifications], NEW n \in Nat
  PROVE  LET report == [fields |-> f, rules |-> n] IN
         report \in Reports /\ report # NoReport /\ FieldsOf(report) = S /\ RulesOf(report) = n
<1> DEFINE report == [fields |-> f, rules |-> n]
<1>1. f \in UNION {[T -> Classifications] : T \in SUBSET SsFields}
  OBVIOUS
<1>2. report \in Reports
  BY <1>1 DEF Reports
<1>3. report # NoReport
  BY <1>2, SensitivityScanAssumption
<1>4. QED  BY <1>2, <1>3 DEF FieldsOf, RulesOf

(* mergeResults: every lock is kept, and a field is as the model said, as  *)
(* the report had it, or left out.                                         *)
LEMMA MergeIs ==
  ASSUME NEW scan \in ScanRecords
  PROVE  LET fields == MergeResults(scan)
             S == {x \in SsFields : IF x[1] \in scan.entities THEN x \in FieldsOf(scan.existing) \cup AnsweredFields(scan)
                                    ELSE x \in Spared(scan)}
         IN /\ fields \in [S -> Classifications]
            /\ \A x \in S : \/ /\ x \in FieldsOf(scan.existing) /\ fields[x] = scan.existing.fields[x]
                               /\ x[1] \notin scan.entities \/ Kept(scan, x) \/ x \notin AnsweredFields(scan)
                            \/ /\ x[1] \in scan.entities /\ ~Kept(scan, x) /\ x \in AnsweredFields(scan)
                               /\ fields[x].by = "ai" /\ fields[x].rules = scan.rules
<1> DEFINE fields == MergeResults(scan)
<1> DEFINE S == {x \in SsFields : IF x[1] \in scan.entities THEN x \in FieldsOf(scan.existing) \cup AnsweredFields(scan)
                                  ELSE x \in Spared(scan)}
<1>1. /\ scan.existing \in Reports \cup {NoReport} /\ scan.rules \in Nat
      /\ scan.results \subseteq [field : SsFields, level : SsLevels \cup {"unconfirmed"}]
  BY DEF ScanRecords
<1>2. /\ FieldsOf(scan.existing) \subseteq SsFields
      /\ \A x \in FieldsOf(scan.existing) : scan.existing.fields[x] \in Classifications
  BY <1>1, ReportIs
<1>3. \A x : ModelSaid(scan, x) # {} <=> x \in AnsweredFields(scan)
  BY DEF ModelSaid, AnsweredFields
<1>4. AnsweredFields(scan) \subseteq SsFields /\ \A x \in Spared(scan) : x \in FieldsOf(scan.existing) /\ x[1] \notin scan.entities
  BY <1>1 DEF AnsweredFields, Spared
<1> DEFINE new(x) == IF x \notin {y \in SsFields : y[1] \in scan.entities} \/ Kept(scan, x) \/ ModelSaid(scan, x) = {}
                     THEN scan.existing.fields[x]
                     ELSE Classified((CHOOSE r \in ModelSaid(scan, x) : TRUE).level, "ai", scan.rules)
<1>5. fields = [x \in S |-> new(x)]
  <2> DEFINE there == {x \in SsFields : x[1] \in scan.entities}
  <2> DEFINE named == {x \in there : x \in FieldsOf(scan.existing) \/ ModelSaid(scan, x) # {}}
  <2>1. fields = [x \in named \cup Spared(scan) |-> new(x)]
    BY DEF MergeResults
  <2>2. named \cup Spared(scan) = S
    BY <1>2, <1>3, <1>4
  <2> HIDE DEF named, there, S, new, fields
  <2>3. QED  BY <2>1, <2>2
<1>6. ASSUME NEW x \in S
      PROVE  /\ new(x) \in Classifications
             /\ \/ /\ x \in FieldsOf(scan.existing) /\ new(x) = scan.existing.fields[x]
                   /\ x[1] \notin scan.entities \/ Kept(scan, x) \/ x \notin AnsweredFields(scan)
                \/ /\ x[1] \in scan.entities /\ ~Kept(scan, x) /\ x \in AnsweredFields(scan)
                   /\ new(x).by = "ai" /\ new(x).rules = scan.rules
  <2>1. CASE x[1] \notin scan.entities \/ Kept(scan, x) \/ ModelSaid(scan, x) = {}
    <3>1. x \in FieldsOf(scan.existing)
      BY <1>3, <1>4, <2>1 DEF Kept
    <3>2. new(x) = scan.existing.fields[x]
      BY <2>1
    <3>3. QED  BY <1>2, <1>3, <2>1, <3>1, <3>2
  <2>2. CASE ~(x[1] \notin scan.entities \/ Kept(scan, x) \/ ModelSaid(scan, x) = {})
    <3> DEFINE r == CHOOSE r \in ModelSaid(scan, x) : TRUE
    <3>1. r \in ModelSaid(scan, x)
      BY <2>2
    <3>2. r.level \in SsLevels \cup {"unconfirmed"}
      BY <1>1, <3>1 DEF ModelSaid
    <3>3. new(x) = [level |-> r.level, by |-> "ai", rules |-> scan.rules]
      BY <2>2 DEF Classified
    <3> HIDE DEF r, new
    <3>4. new(x) \in Classifications
      BY <1>1, <3>2, <3>3 DEF Classifications
    <3>5. QED  BY <1>3, <2>2, <3>3, <3>4
  <2>3. QED  BY <2>1, <2>2
<1> HIDE DEF new, S
<1>7. fields \in [S -> Classifications] /\ \A x \in S : fields[x] = new(x)
  BY <1>5, <1>6
<1> HIDE DEF fields
<1>8. \A x \in S : \/ /\ x \in FieldsOf(scan.existing) /\ fields[x] = scan.existing.fields[x]
                      /\ x[1] \notin scan.entities \/ Kept(scan, x) \/ x \notin AnsweredFields(scan)
                   \/ /\ x[1] \in scan.entities /\ ~Kept(scan, x) /\ x \in AnsweredFields(scan)
                      /\ fields[x].by = "ai" /\ fields[x].rules = scan.rules
  BY <1>6, <1>7
<1>9. QED  BY <1>7, <1>8 DEF fields, S

(* The report that a scan saves, while it asks or at its end: it has every *)
(* lock, and if it bears the present rules, what is older was left out.    *)
LEMMA SavedReport ==
  ASSUME NEW scan, ScanKnows(scan), ssRules \in Nat, NEW n \in Nat,
         \/ n = RulesOf(scan.existing)
         \/ n = scan.rules /\ ~scan.failed /\ ~scan.partial /\ scan.ask = {} /\ scan.asked = {},
         ssReport' = [fields |-> MergeResults(scan), rules |-> n], UNCHANGED <<ssRules, ssLocks>>
  PROVE  /\ ssReport' \in Reports \cup {NoReport} /\ RulesOf(ssReport') = n /\ n <= scan.rules
         /\ LocksIn(ssReport)' /\ Honest(ssReport, scan.omitted \ AnsweredFields(scan))'
<1> DEFINE fields == MergeResults(scan)
<1> DEFINE S == {x \in SsFields : IF x[1] \in scan.entities THEN x \in FieldsOf(scan.existing) \cup AnsweredFields(scan)
                                  ELSE x \in Spared(scan)}
<1> DEFINE old == scan.existing.fields
<1>1. scan \in ScanRecords
  BY DEF ScanKnows
<1>2. /\ fields \in [S -> Classifications]
      /\ \A x \in S : \/ /\ x \in FieldsOf(scan.existing) /\ fields[x] = old[x]
                         /\ x[1] \notin scan.entities \/ Kept(scan, x) \/ x \notin AnsweredFields(scan)
                      \/ /\ x[1] \in scan.entities /\ ~Kept(scan, x) /\ x \in AnsweredFields(scan)
                         /\ fields[x].by = "ai" /\ fields[x].rules = scan.rules
  BY <1>1, MergeIs
<1>3. scan.existing \in Reports \cup {NoReport} /\ scan.rules \in Nat /\ scan.entities \subseteq SsEntities
  BY <1>1 DEF ScanRecords
<1>4. RulesOf(scan.existing) \in Nat /\ RulesOf(scan.existing) <= scan.rules /\ scan.rules <= ssRules
  BY <1>3, ReportIs DEF ScanKnows
<1>5. \A x \in SsFields : x[1] \in SsEntities
  BY DEF SsEntities
<1>6. \A x \in AnsweredFields(scan) : x[1] \in scan.entities
  BY DEF AnsweredFields, ScanKnows
<1>7. S \in SUBSET SsFields
  OBVIOUS
<1>8. \A x \in SsFields : x \in FieldsOf(scan.existing) => x \in S
  <2> SUFFICES ASSUME NEW x \in SsFields, x \in FieldsOf(scan.existing), x[1] \notin scan.entities PROVE x \in Spared(scan)
    OBVIOUS
  <2>1. scan.partial
    BY <1>5 DEF ScanKnows
  <2>2. QED  BY <2>1 DEF Spared
<1> HIDE DEF S, fields
<1>9. ssReport' \in Reports /\ ssReport' # NoReport /\ FieldsOf(ssReport') = S /\ RulesOf(ssReport') = n /\ ssReport'.fields = fields
  <2>1. ssReport' = [fields |-> fields, rules |-> n]
    BY DEF fields
  <2>2. QED  BY <1>2, <1>7, <2>1, ReportMade
<1>10. n <= scan.rules
  BY <1>3, <1>4
<1>11. LocksIn(ssReport)'
  <2> SUFFICES ASSUME NEW x \in SsFields, ssLocks[x] # NoLock
               PROVE  x \in S /\ fields[x].level = ssLocks[x] /\ Locked(fields[x])
    BY <1>9 DEF LocksIn, FieldsOf
  <2>1. x \in FieldsOf(scan.existing) /\ old[x].level = ssLocks[x] /\ Locked(old[x])
    BY DEF ScanKnows, LocksIn
  <2>2. Kept(scan, x) /\ x \in S
    BY <1>8, <2>1 DEF Kept
  <2>3. QED  BY <1>2, <2>1, <2>2
<1>12. Honest(ssReport, scan.omitted \ AnsweredFields(scan))'
  <2> SUFFICES ASSUME n = ssRules, NEW x \in S
               PROVE  Locked(fields[x]) \/ fields[x].rules = ssRules \/ x \in scan.omitted \ AnsweredFields(scan)
    BY <1>9 DEF Honest, FieldsOf, RulesOf, Locked
  <2>1. scan.rules = ssRules
    BY <1>3, <1>4
  <2>2. CASE x \in FieldsOf(scan.existing) /\ fields[x] = old[x]
             /\ (x[1] \notin scan.entities \/ Kept(scan, x) \/ x \notin AnsweredFields(scan))
    <3>1. CASE Kept(scan, x)
      BY <2>2, <3>1 DEF Kept
    <3>2. CASE ~Kept(scan, x)
      <4>1. x \notin AnsweredFields(scan)
        BY <1>6, <2>2, <3>2
      <4>2. CASE n = RulesOf(scan.existing)
        BY <2>2, <4>1, <4>2 DEF ScanKnows, Honest
      <4>3. CASE ~scan.failed /\ ~scan.partial /\ scan.ask = {} /\ scan.asked = {}
        <5>1. x[1] \in scan.entities /\ x \in SsFields
          BY <1>5, <1>7, <4>3 DEF ScanKnows
        <5>2. LockedIn(scan.existing, x) \/ x \in scan.omitted
          BY <4>1, <4>3, <5>1 DEF ScanKnows
        <5>3. QED  BY <3>2, <4>1, <5>2 DEF LockedIn, Kept
      <4>4. QED  BY <4>2, <4>3
    <3>3. QED  BY <3>1, <3>2
  <2>3. CASE fields[x].rules = scan.rules
    BY <2>1, <2>3
  <2>4. QED  BY <1>2, <2>2, <2>3
<1>13. QED  BY <1>9, <1>10, <1>11, <1>12

(* The slot and the audit, while a scan goes on and when it ends.          *)
LEMMA GoesOn ==
  ASSUME SlotHeld, ssRunning, ssScan'.pc # "ended", ssScan'.number = ssScan.number,
         UNCHANGED <<ssRunning, ssProgress, ssCleanups>>
  PROVE  SlotHeld'
  BY DEF SlotHeld

LEMMA EndKeeps ==
  ASSUME ScanTyped, SlotHeld, ssRunning, NEW scan, scan.number = ssScan.number, scan \in ScanRecords,
         NEW status \in {"failed", "completed"}, EndScan(scan, status)
  PROVE  /\ SlotHeld' /\ ssScan' \in ScanRecords /\ ssRunning' = FALSE /\ ssCleanups' \subseteq Nat
         /\ ssProgress' \in [number : Nat, status : {"none", "running", "failed", "completed"}]
         /\ ssScan'.pc = "ended" /\ ssScan'.number = ssScan.number /\ ssScan'.omitted = scan.omitted
         /\ ssScan'.asked = scan.asked
<1>1. /\ ssScan' = [scan EXCEPT !.pc = "ended"] /\ ssRunning' = FALSE
      /\ ssProgress' = [ssProgress EXCEPT !.status = status]
      /\ ssCleanups' = ssCleanups \cup {ssProgress.number}
  BY DEF EndScan
<1>2. /\ ssScan' \in ScanRecords /\ ssScan'.pc = "ended" /\ ssScan'.number = ssScan.number
      /\ ssScan'.omitted = scan.omitted /\ ssScan'.asked = scan.asked
  BY <1>1 DEF ScanRecords
<1>3. ssProgress \in [number : Nat, status : {"none", "running", "failed", "completed"}]
  BY DEF ScanTyped
<1>4. /\ ssProgress' \in [number : Nat, status : {"none", "running", "failed", "completed"}]
      /\ ssProgress'.number = ssProgress.number /\ ssProgress'.status = status
  BY <1>1, <1>3
<1>5. ssScan.number \in Nat
  BY DEF ScanTyped, ScanRecords
<1>6. SlotHeld'
  BY <1>1, <1>2, <1>4, <1>5 DEF SlotHeld
<1>7. ssCleanups' \subseteq Nat
  BY <1>1, <1>3 DEF ScanTyped
<1>8. QED  BY <1>1, <1>2, <1>4, <1>6, <1>7

(* A scan that is not asking yet knows nothing that an edit could change.  *)
LEMMA StartsKeeps ==
  ASSUME ScanInv, SensitivityScanStarts
  PROVE  ScanInv'
<1> USE DEF ScanInv
<1>1. UNCHANGED <<ssReport, ssRules, ssLevels, ssConsent, ssDescribed, ssCleanups, ssLocks>>
  BY DEF SensitivityScanStarts
<1>2. ssScan \in ScanRecords /\ ssScan.number \in Nat
  BY DEF ScanTyped, ScanRecords
<1>3. CASE Row(0, FALSE) /\ UNCHANGED <<ssRunning, ssScan, ssProgress>>
  <2>1. ssAudit' = ssAudit \cup {[scan |-> 0, allowed |-> FALSE]}
    BY <1>3 DEF Row
  <2>2. [scan |-> 0, allowed |-> FALSE] \in [scan : Nat, allowed : BOOLEAN]
    OBVIOUS
  <2>3. ScanTyped' /\ SlotHeld'
    BY <1>1, <1>3, <2>1, <2>2 DEF ScanTyped, SlotHeld
  <2>4. Audited'
    <3>1. ssScan.pc \in {"describe", "gate"} => ssScan.number > 0
      BY DEF SlotHeld
    <3>2. \A row \in ssAudit' : row \in ssAudit \/ (row.scan = 0 /\ row.allowed = FALSE)
      BY <2>1
    <3>3. \A row \in ssAudit' : row.scan <= ssScan.number /\ (ssScan.pc \in {"describe", "gate"} => row.scan # ssScan.number)
      BY <1>2, <3>1, <3>2 DEF Audited
    <3>4. \A row, other \in ssAudit' : row.scan > 0 /\ other.scan = row.scan => other = row
      BY <3>2 DEF Audited
    <3>5. ssAudit \subseteq ssAudit'
      BY <2>1
    <3>6. QED  BY <1>3, <3>3, <3>4, <3>5 DEF Audited
  <2>5. ScanInHand' /\ ReportTrue'
    BY <1>1, <1>3 DEF ScanInHand, ScanKnows, ReportTrue, LocksIn, Honest
  <2>6. QED  BY <2>3, <2>4, <2>5
<1>4. CASE /\ ssConsent /\ SlotFree /\ ssRunning' = TRUE /\ UNCHANGED ssAudit
           /\ ssScan' = [NoScan EXCEPT !.number = ssScan.number + 1, !.pc = "describe", !.consented = ssConsent,
                                       !.omitted = ssScan.omitted]
           /\ ssProgress' = [number |-> ssScan.number + 1, status |-> "running"]
  <2>1. /\ ssScan'.number = ssScan.number + 1 /\ ssScan'.pc = "describe" /\ ssScan'.omitted = ssScan.omitted
        /\ ssScan'.results = {} /\ ssScan'.asked = {} /\ ~ssScan'.failed
    BY <1>4 DEF NoScan
  <2>2. ssScan' \in ScanRecords
    <3>1. ssScan.omitted \in SUBSET SsFields /\ ssConsent \in BOOLEAN /\ ssScan.number + 1 \in Nat
      BY <1>2 DEF ScanRecords, ScanTyped
    <3>2. NoScan \in ScanRecords
      BY DEF ScanRecords, NoScan
    <3>3. QED  BY <1>4, <3>1, <3>2 DEF ScanRecords
  <2>3. ssProgress' \in [number : Nat, status : {"none", "running", "failed", "completed"}]
    BY <1>2, <1>4
  <2>4. ScanTyped'
    BY <1>1, <1>4, <2>2, <2>3 DEF ScanTyped
  <2>5. \A n \in ssCleanups : n \in Nat
    BY DEF ScanTyped
  <2>6. SlotHeld'
    BY <1>1, <1>2, <1>4, <2>1, <2>5 DEF SlotHeld
  <2>7. \A row \in ssAudit : row.scan \in Nat
    BY DEF ScanTyped
  <2>8. Audited'
    BY <1>2, <1>4, <2>1, <2>7 DEF Audited
  <2>9. ScanInHand' /\ ReportTrue'
    BY <1>1, <2>1 DEF ScanInHand, ReportTrue, LocksIn, Honest
  <2>10. QED  BY <2>4, <2>6, <2>8, <2>9
<1>5. QED  BY <1>3, <1>4 DEF SensitivityScanStarts

(* A scan whose record alone changes, to a next phase.                     *)
LEMMA PhaseKeeps ==
  ASSUME ScanInv, ssRunning, ssScan' \in ScanRecords, ssScan'.pc # "ended", ssScan'.number = ssScan.number,
         ssScan.omitted \subseteq ssScan'.omitted,
         ssScan'.pc \in {"describe", "gate"} => ssScan.pc \in {"describe", "gate"},
         ssScan'.pc \in {"rules", "existing", "asking"} =>
           ssScan'.consented /\ [scan |-> ssScan.number, allowed |-> TRUE] \in ssAudit,
         UNCHANGED <<ssReport, ssRules, ssLevels, ssConsent, ssRunning, ssProgress, ssCleanups, ssAudit, ssLocks>>,
         ssDescribed' \subseteq SsEntities, ScanInHand'
  PROVE  ScanInv'
<1> USE DEF ScanInv
<1>1. ScanTyped'
  BY DEF ScanTyped
<1>2. SlotHeld'
  BY GoesOn
<1>3. Audited'
  BY DEF Audited
<1>4. ReportTrue'
  BY DEF ReportTrue, LocksIn, Honest
<1>5. QED  BY <1>1, <1>2, <1>3, <1>4

(* A scan that ends without a word to the report.                          *)
LEMMA GivesUpKeeps ==
  ASSUME ScanInv, ssRunning, NEW scan \in ScanRecords, scan.number = ssScan.number, scan.omitted = ssScan.omitted,
         scan.asked = {}, EndScan(scan, "failed"), \A row \in ssAudit' : row.scan <= ssScan.number,
         ssAudit' \subseteq [scan : Nat, allowed : BOOLEAN],
         \A row, other \in ssAudit' : row.scan > 0 /\ other.scan = row.scan => other = row,
         ssDescribed' \subseteq SsEntities,
         UNCHANGED <<ssReport, ssRules, ssLevels, ssConsent, ssLocks>>
  PROVE  ScanInv'
<1> USE DEF ScanInv
<1>1. /\ SlotHeld' /\ ssScan' \in ScanRecords /\ ssRunning' = FALSE /\ ssCleanups' \subseteq Nat
      /\ ssProgress' \in [number : Nat, status : {"none", "running", "failed", "completed"}]
      /\ ssScan'.pc = "ended" /\ ssScan'.number = ssScan.number /\ ssScan'.omitted = scan.omitted
      /\ ssScan'.asked = {}
  BY EndKeeps
<1>2. ScanTyped'
  BY <1>1 DEF ScanTyped
<1>3. Audited' /\ ScanInHand'
  BY <1>1 DEF Audited, ScanInHand
<1>4. ReportTrue'
  BY <1>1 DEF ReportTrue, LocksIn, Honest
<1>5. QED  BY <1>1, <1>2, <1>3, <1>4

LEMMA DescribeKeeps ==
  ASSUME ScanInv, DescribeUncachedEntities
  PROVE  ScanInv'
<1>1. /\ ssScan.pc = "describe" /\ UNCHANGED <<ssReport, ssRules, ssLevels, ssConsent, ssAudit, ssLocks>>
      /\ ssDescribed' \subseteq SsEntities
  BY DEF DescribeUncachedEntities, ScanInv, ScanTyped
<1>2. ssRunning /\ ssScan \in ScanRecords
  BY <1>1 DEF ScanInv, SlotHeld, ScanTyped
<1>3. CASE EndScan(ssScan, "failed")
  BY <1>1, <1>2, <1>3, GivesUpKeeps DEF ScanInv, Audited, ScanTyped, ScanInHand
<1>4. CASE /\ ssScan' = [ssScan EXCEPT !.pc = "gate", !.entities = ssDescribed', !.partial = ssDescribed' # SsEntities]
           /\ UNCHANGED <<ssRunning, ssProgress, ssCleanups>>
  <2>1. (ssDescribed' # SsEntities) \in BOOLEAN
    OBVIOUS
  <2>2. ssScan' \in ScanRecords
    BY <1>1, <1>2, <1>4, <2>1 DEF ScanRecords
  <2>3. /\ ssScan'.pc = "gate" /\ ssScan'.number = ssScan.number /\ ssScan'.omitted = ssScan.omitted
        /\ ssScan'.results = ssScan.results /\ ssScan'.asked = ssScan.asked /\ ssScan'.failed = ssScan.failed
        /\ ssScan'.entities = ssDescribed' /\ (ssScan'.partial <=> ssScan'.entities # SsEntities)
    BY <1>2, <1>4 DEF ScanRecords
  <2>4. ScanInHand'
    BY <1>1, <2>3 DEF ScanInv, ScanInHand
  <2>5. QED  BY <1>1, <1>2, <1>4, <2>2, <2>3, <2>4, PhaseKeeps
<1>5. QED  BY <1>1, <1>3, <1>4 DEF DescribeUncachedEntities

LEMMA GateKeeps ==
  ASSUME ScanInv, GateAgain
  PROVE  ScanInv'
<1>1. /\ ssScan.pc = "gate" /\ UNCHANGED <<ssReport, ssRules, ssLevels, ssConsent, ssDescribed, ssLocks>>
  BY DEF GateAgain
<1>2. ssRunning /\ ssScan \in ScanRecords /\ ssScan.number \in Nat /\ ssScan.number > 0 /\ ssDescribed \subseteq SsEntities
  BY <1>1 DEF ScanInv, SlotHeld, ScanTyped, ScanRecords
<1>3. ASSUME NEW allowed \in BOOLEAN, Row(ssScan.number, allowed)
      PROVE  /\ ssAudit' \subseteq [scan : Nat, allowed : BOOLEAN] /\ ssAudit \subseteq ssAudit'
             /\ \A row \in ssAudit' : row.scan <= ssScan.number
             /\ \A row, other \in ssAudit' : row.scan > 0 /\ other.scan = row.scan => other = row
             /\ [scan |-> ssScan.number, allowed |-> allowed] \in ssAudit'
  <2> DEFINE new == [scan |-> ssScan.number, allowed |-> allowed]
  <2>1. ssAudit' = ssAudit \cup {new} /\ new.scan = ssScan.number /\ new \in [scan : Nat, allowed : BOOLEAN]
    BY <1>2, <1>3 DEF Row
  <2> HIDE DEF new
  <2>2. \A row \in ssAudit : row.scan # new.scan /\ row.scan <= ssScan.number
    BY <1>1, <2>1 DEF ScanInv, Audited
  <2>3. \A row, other \in ssAudit' : row.scan > 0 /\ other.scan = row.scan => other = row
    BY <2>1, <2>2 DEF ScanInv, Audited
  <2>4. ssAudit \subseteq [scan : Nat, allowed : BOOLEAN]
    BY DEF ScanInv, ScanTyped
  <2>5. \A row \in ssAudit' : row.scan <= ssScan.number
    BY <1>2, <2>1, <2>2
  <2>6. QED  BY <2>1, <2>3, <2>4, <2>5 DEF new
<1>4. CASE Row(ssScan.number, FALSE) /\ EndScan(ssScan, "failed")
  <2>1. /\ ssAudit' \subseteq [scan : Nat, allowed : BOOLEAN]
        /\ \A row \in ssAudit' : row.scan <= ssScan.number
        /\ \A row, other \in ssAudit' : row.scan > 0 /\ other.scan = row.scan => other = row
    BY <1>3, <1>4
  <2>2. ssScan.asked = {}
    BY <1>1 DEF ScanInv, ScanInHand
  <2>3. QED  BY <1>1, <1>2, <1>4, <2>1, <2>2, GivesUpKeeps
<1>5. CASE EndScan(ssScan, "failed") /\ UNCHANGED ssAudit
  BY <1>1, <1>2, <1>5, GivesUpKeeps DEF ScanInv, Audited, ScanTyped, ScanInHand
<1>6. CASE /\ GateConsent /\ Row(ssScan.number, TRUE) /\ UNCHANGED <<ssRunning, ssProgress, ssCleanups>>
           /\ ssScan' = [ssScan EXCEPT !.pc = "rules", !.consented = ssConsent]
  <2>1. /\ ssAudit' \subseteq [scan : Nat, allowed : BOOLEAN]
        /\ \A row \in ssAudit' : row.scan <= ssScan.number
        /\ \A row, other \in ssAudit' : row.scan > 0 /\ other.scan = row.scan => other = row
        /\ [scan |-> ssScan.number, allowed |-> TRUE] \in ssAudit'
    BY <1>3, <1>6
  <2>2. ssConsent \in BOOLEAN /\ ssConsent
    BY <1>6 DEF ScanInv, ScanTyped, GateConsent
  <2>3. /\ ssScan' \in ScanRecords /\ ssScan'.pc = "rules" /\ ssScan'.number = ssScan.number /\ ssScan'.consented
        /\ ssScan'.omitted = ssScan.omitted
        /\ ssScan'.results = ssScan.results /\ ssScan'.asked = ssScan.asked /\ ssScan'.failed = ssScan.failed
        /\ ssScan'.entities = ssScan.entities /\ ssScan'.partial = ssScan.partial
    BY <1>2, <1>6, <2>2 DEF ScanRecords
  <2>4. ScanTyped'
    BY <1>1, <1>6, <2>1, <2>3 DEF ScanInv, ScanTyped
  <2>5. SlotHeld'
    BY <1>2, <1>6, <2>3, GoesOn DEF ScanInv
  <2>6. Audited'
    BY <2>1, <2>3 DEF Audited
  <2>7. ScanInHand'
    BY <1>1, <2>3 DEF ScanInv, ScanInHand
  <2>8. ReportTrue'
    BY <1>1, <2>3 DEF ScanInv, ReportTrue, LocksIn, Honest
  <2>9. QED  BY <2>4, <2>5, <2>6, <2>7, <2>8 DEF ScanInv
<1>7. QED  BY <1>4, <1>5, <1>6 DEF GateAgain

LEMMA ReadsRulesKeeps ==
  ASSUME ScanInv, ReadsCustomRules
  PROVE  ScanInv'
<1>1. /\ ssScan.pc = "rules" /\ ssScan' = [ssScan EXCEPT !.pc = "existing", !.rules = ssRules]
      /\ UNCHANGED <<ssReport, ssRules, ssLevels, ssConsent, ssDescribed, ssRunning, ssProgress, ssCleanups, ssAudit, ssLocks>>
  BY DEF ReadsCustomRules
<1>2. ssRunning /\ ssScan \in ScanRecords /\ ssRules \in Nat /\ ssDescribed \subseteq SsEntities
  BY <1>1 DEF ScanInv, SlotHeld, ScanTyped
<1>3. /\ ssScan' \in ScanRecords /\ ssScan'.pc = "existing" /\ ssScan'.number = ssScan.number
      /\ ssScan'.consented = ssScan.consented /\ ssScan'.omitted = ssScan.omitted /\ ssScan'.rules = ssRules
      /\ ssScan'.results = ssScan.results /\ ssScan'.asked = ssScan.asked /\ ssScan'.failed = ssScan.failed
      /\ ssScan'.entities = ssScan.entities /\ ssScan'.partial = ssScan.partial
  BY <1>1, <1>2 DEF ScanRecords
<1>4. ScanInHand'
  BY <1>1, <1>2, <1>3 DEF ScanInv, ScanInHand, ReportTrue
<1>5. ssScan.consented /\ [scan |-> ssScan.number, allowed |-> TRUE] \in ssAudit
  BY <1>1 DEF ScanInv, Audited
<1>6. QED  BY <1>1, <1>2, <1>3, <1>4, <1>5, PhaseKeeps

(* A scan that ends with a report saved.                                   *)
LEMMA CompletesKeeps ==
  ASSUME ScanInv, ssRunning, NEW scan, ScanKnows(scan), scan.number = ssScan.number,
         scan.ask = {}, scan.asked = {}, SetDatasource(scan, Stamp(scan)),
         NEW status \in {"failed", "completed"},
         EndScan([scan EXCEPT !.omitted = @ \ AnsweredFields(scan)], status),
         UNCHANGED <<ssRules, ssLevels, ssConsent, ssDescribed, ssAudit, ssLocks>>
  PROVE  ScanInv'
<1> USE DEF ScanInv
<1> DEFINE last == [scan EXCEPT !.omitted = @ \ AnsweredFields(scan)]
<1>1. scan \in ScanRecords
  BY DEF ScanKnows
<1>2. last \in ScanRecords /\ last.number = ssScan.number /\ last.omitted = scan.omitted \ AnsweredFields(scan) /\ last.asked = {}
  BY <1>1 DEF ScanRecords
<1> HIDE DEF last
<1>3. /\ SlotHeld' /\ ssScan' \in ScanRecords /\ ssRunning' = FALSE /\ ssCleanups' \subseteq Nat
      /\ ssProgress' \in [number : Nat, status : {"none", "running", "failed", "completed"}]
      /\ ssScan'.pc = "ended" /\ ssScan'.number = ssScan.number /\ ssScan'.omitted = last.omitted /\ ssScan'.asked = {}
  BY <1>2, EndKeeps DEF last
<1>4. Stamp(scan) \in Nat /\ (\/ Stamp(scan) = RulesOf(scan.existing)
                              \/ Stamp(scan) = scan.rules /\ ~scan.failed /\ ~scan.partial)
  <2>1. scan.rules \in Nat /\ scan.existing \in Reports \cup {NoReport}
    BY <1>1 DEF ScanRecords
  <2>2. RulesOf(scan.existing) \in Nat
    BY <2>1, ReportIs
  <2>3. QED  BY <2>1, <2>2 DEF Stamp, OldRules, RulesOf
<1>5. ssRules \in Nat /\ scan.rules <= ssRules /\ scan.rules \in Nat
  BY <1>1 DEF ScanTyped, ScanKnows, ScanRecords
<1>6. /\ ssReport' \in Reports \cup {NoReport} /\ RulesOf(ssReport') = Stamp(scan) /\ Stamp(scan) <= scan.rules
      /\ LocksIn(ssReport)' /\ Honest(ssReport, scan.omitted \ AnsweredFields(scan))'
  BY <1>4, <1>5, SavedReport DEF SetDatasource
<1>7. ScanTyped'
  BY <1>3, <1>6 DEF ScanTyped
<1>8. Audited' /\ ScanInHand'
  BY <1>3 DEF Audited, ScanInHand
<1>9. ReportTrue'
  <2>1. Honest(ssReport, ssScan.omitted)'
    BY <1>2, <1>3, <1>6 DEF Honest
  <2>2. (RulesOf(ssReport) <= ssRules)'
    BY <1>4, <1>5, <1>6 DEF RulesOf
  <2>3. QED  BY <1>6, <2>1, <2>2 DEF ReportTrue
<1>10. QED  BY <1>3, <1>7, <1>8, <1>9

LEMMA BeginsKeeps ==
  ASSUME ScanInv, BeginsScan
  PROVE  ScanInv'
<1> USE DEF ScanInv
<1> DEFINE ask == FilterNonManualEntities(ssScan, ssReport)
<1> DEFINE scan == [ssScan EXCEPT !.existing = ssReport, !.levels = ssLevels, !.ask = ask, !.pc = "asking"]
<1>1. ssScan.pc = "existing" /\ UNCHANGED <<ssRules, ssLevels, ssConsent, ssDescribed, ssAudit, ssLocks>>
  BY DEF BeginsScan
<1>2. /\ ssRunning /\ ssScan \in ScanRecords /\ ssReport \in Reports \cup {NoReport} /\ ssLevels \subseteq SsLevels
      /\ ssDescribed \subseteq SsEntities
  BY <1>1 DEF SlotHeld, ScanTyped
<1>3. ask \subseteq ssScan.entities /\ ssScan.entities \subseteq SsEntities
  BY <1>2 DEF FilterNonManualEntities, ScanRecords
<1>4. \A x \in SsFields : x[1] \in ssScan.entities => LockedIn(ssReport, x) \/ x[1] \in ask
  BY DEF FilterNonManualEntities, LockedIn
<1> HIDE DEF ask
<1>5. /\ scan \in ScanRecords /\ scan.pc = "asking" /\ scan.number = ssScan.number /\ scan.consented = ssScan.consented
      /\ scan.omitted = ssScan.omitted /\ scan.results = {} /\ scan.asked = {} /\ ~scan.failed
      /\ scan.entities = ssScan.entities /\ (scan.partial <=> scan.entities # SsEntities)
      /\ scan.existing = ssReport /\ scan.ask = ask /\ scan.rules = ssScan.rules
  <2>1. scan \in ScanRecords
    BY <1>2, <1>3 DEF ScanRecords
  <2>2. ssScan.results = {} /\ ssScan.asked = {} /\ ~ssScan.failed /\ (ssScan.partial <=> ssScan.entities # SsEntities)
    BY <1>1 DEF ScanInHand
  <2>3. QED  BY <1>2, <2>1, <2>2 DEF ScanRecords
<1>6. [scan EXCEPT !.omitted = @ \ AnsweredFields(scan)] = scan
  <2>1. scan.omitted \ AnsweredFields(scan) = scan.omitted
    BY <1>5 DEF AnsweredFields
  <2>2. QED  BY <1>5, <2>1 DEF ScanRecords
<1>7. IF ask = {} THEN SetDatasource(scan, Stamp(scan)) /\ EndScan(scan, "completed")
      ELSE ssScan' = scan /\ UNCHANGED <<ssReport, ssRunning, ssProgress, ssCleanups>>
  BY Zenon DEF BeginsScan, ask
<1> HIDE DEF scan
<1>8. ScanKnows(scan)
  <2>1. RulesOf(ssReport) <= scan.rules /\ scan.rules <= ssRules
    BY <1>1, <1>5 DEF ScanInHand
  <2>2. LocksIn(ssReport) /\ Honest(ssReport, ssScan.omitted)
    BY DEF ReportTrue
  <2>3. Honest(ssReport, ssScan.omitted \cup AnsweredFields(scan))
    BY <2>2 DEF Honest
  <2>4. QED  BY <1>3, <1>4, <1>5, <2>1, <2>2, <2>3 DEF ScanKnows
<1>9. CASE SetDatasource(scan, Stamp(scan)) /\ EndScan(scan, "completed") /\ ask = {}
  BY <1>1, <1>2, <1>5, <1>6, <1>8, <1>9, CompletesKeeps
<1>10. CASE ssScan' = scan /\ UNCHANGED <<ssReport, ssRunning, ssProgress, ssCleanups>>
  <2>1. ScanKnows(ssScan)'
    BY <1>1, <1>8, <1>10 DEF ScanKnows, LocksIn, Honest
  <2>2. ScanInHand'
    BY <1>5, <1>10, <2>1 DEF ScanInHand
  <2>3. ssScan.consented /\ [scan |-> ssScan.number, allowed |-> TRUE] \in ssAudit
    BY <1>1 DEF Audited
  <2>4. QED  BY <1>1, <1>2, <1>5, <1>10, <2>2, <2>3, PhaseKeeps
<1>11. QED  BY <1>7, <1>9, <1>10

LEMMA AsksKeeps ==
  ASSUME ScanInv, NEW e \in SsEntities, AsksModel(e)
  PROVE  ScanInv'
<1> USE DEF ScanInv
<1>1. /\ ssScan.pc = "asking" /\ e \in ssScan.ask
      /\ ssScan' = [ssScan EXCEPT !.ask = @ \ {e}, !.asked = @ \cup {e}]
      /\ UNCHANGED <<ssReport, ssRules, ssLevels, ssConsent, ssDescribed, ssRunning, ssProgress, ssCleanups, ssAudit, ssLocks>>
  BY DEF AsksModel
<1>2. ssRunning /\ ssScan \in ScanRecords /\ ssDescribed \subseteq SsEntities /\ ScanKnows(ssScan)
  BY <1>1 DEF SlotHeld, ScanTyped, ScanInHand
<1>3. /\ ssScan' \in ScanRecords /\ ssScan'.pc = "asking" /\ ssScan'.number = ssScan.number
      /\ ssScan'.consented = ssScan.consented /\ ssScan'.omitted = ssScan.omitted /\ ssScan'.rules = ssScan.rules
      /\ ssScan'.results = ssScan.results /\ ssScan'.failed = ssScan.failed /\ ssScan'.existing = ssScan.existing
      /\ ssScan'.entities = ssScan.entities /\ ssScan'.partial = ssScan.partial
      /\ ssScan'.ask \cup ssScan'.asked = ssScan.ask \cup ssScan.asked
  BY <1>1, <1>2 DEF ScanRecords
<1>4. ScanKnows(ssScan)'
  <2>1. AnsweredFields(ssScan)' = AnsweredFields(ssScan)
    BY <1>3 DEF AnsweredFields
  <2>2. LocksIn(ssScan.existing)' /\ Honest(ssScan.existing, ssScan.omitted \cup AnsweredFields(ssScan))'
    BY <1>1, <1>2, <1>3, <2>1 DEF ScanKnows, LocksIn, Honest
  <2>3. ASSUME ~ssScan'.failed, NEW x \in SsFields, x[1] \in ssScan'.entities
        PROVE  \/ LockedIn(ssScan.existing, x) \/ x[1] \in ssScan'.ask \cup ssScan'.asked
               \/ x \in AnsweredFields(ssScan) \cup ssScan.omitted
    BY <1>2, <1>3, <2>3 DEF ScanKnows
  <2>4. QED  BY <1>1, <1>2, <1>3, <2>1, <2>2, <2>3 DEF ScanKnows, LockedIn
<1>5. ScanInHand'
  BY <1>3, <1>4 DEF ScanInHand
<1>6. ssScan.consented /\ [scan |-> ssScan.number, allowed |-> TRUE] \in ssAudit
  BY <1>1 DEF Audited
<1>7. QED  BY <1>1, <1>2, <1>3, <1>5, <1>6, PhaseKeeps

(* The model's answers about an entity, all of them or a part.             *)
Heard(scan, e, new) == [scan EXCEPT !.asked = @ \ {e}, !.results = @ \cup new]
Missed(scan) == [scan EXCEPT !.failed = TRUE]
Shared(scan, unsaid) == [scan EXCEPT !.shares = TRUE, !.omitted = (@ \ AnsweredFields(scan)) \cup unsaid]

LEMMA AnsweredKnows ==
  ASSUME NEW scan, ScanKnows(scan), NEW e \in SsEntities, e \in scan.asked,
         NEW new \in SUBSET [field : SsFields, level : SsLevels \cup {"unconfirmed"}], NEW unsaid \in SUBSET SsFields,
         \A r \in new : r.field[1] = e, \A x \in SsFields : x[1] = e => x \in unsaid \/ \E r \in new : r.field = x,
         NEW next, next = Heard(scan, e, new), NEW lost, lost = Missed(next), NEW kept, kept = Shared(next, unsaid)
  PROVE  ScanKnows(lost) /\ ScanKnows(kept) /\ scan.omitted \ AnsweredFields(next) \subseteq kept.omitted
<1> DEFINE more == {r.field : r \in new}
<1> DEFINE left == (scan.omitted \ AnsweredFields(next)) \cup unsaid
<1>1. scan \in ScanRecords /\ e \in scan.entities
  BY DEF ScanKnows
<1>2. \A x \in SsFields : x[1] = e => x \in unsaid \cup more
  OBVIOUS
<1>5. /\ next \in ScanRecords /\ next.number = scan.number /\ next.entities = scan.entities
      /\ next.partial = scan.partial /\ next.rules = scan.rules /\ next.existing = scan.existing /\ next.ask = scan.ask
      /\ next.asked = scan.asked \ {e} /\ next.results = scan.results \cup new /\ next.failed = scan.failed
      /\ next.omitted = scan.omitted
  <2>1. scan.asked \ {e} \subseteq SsEntities /\ scan.results \cup new \subseteq [field : SsFields, level : SsLevels \cup {"unconfirmed"}]
    BY <1>1 DEF ScanRecords
  <2>2. QED  BY <1>1, <2>1 DEF ScanRecords, Heard
<1>6. AnsweredFields(next) = AnsweredFields(scan) \cup more
  BY <1>5 DEF AnsweredFields
<1> HIDE DEF more
<1>7. left \subseteq SsFields
  BY <1>1 DEF ScanRecords
<1>8. /\ \A r \in next.results : r.field[1] \in next.entities
      /\ next.ask \cup next.asked \subseteq next.entities
  BY <1>1, <1>5 DEF ScanKnows
<1>0. kept = [next EXCEPT !.shares = TRUE, !.omitted = left] /\ lost = [next EXCEPT !.failed = TRUE]
  BY <1>5 DEF Shared, Missed
<1> HIDE DEF left
<1>9. /\ lost \in ScanRecords /\ lost.entities = scan.entities /\ lost.partial = scan.partial /\ lost.rules = scan.rules
      /\ lost.existing = scan.existing /\ lost.ask = next.ask /\ lost.asked = next.asked /\ lost.results = next.results
      /\ lost.failed /\ lost.omitted = scan.omitted
  BY <1>0, <1>5 DEF ScanRecords
<1>10. /\ kept \in ScanRecords /\ kept.entities = scan.entities /\ kept.partial = scan.partial /\ kept.rules = scan.rules
       /\ kept.existing = scan.existing /\ kept.ask = next.ask /\ kept.asked = next.asked /\ kept.results = next.results
       /\ kept.failed = scan.failed /\ kept.omitted = left
  BY ONLY <1>0, <1>5, <1>7 DEF ScanRecords
<1>11. ScanKnows(lost)
  <2>1. AnsweredFields(lost) = AnsweredFields(scan) \cup more
    BY <1>6, <1>9 DEF AnsweredFields
  <2>2. Honest(lost.existing, lost.omitted \cup AnsweredFields(lost))
    BY <1>9, <2>1 DEF ScanKnows, Honest
  <2>3. QED  BY <1>5, <1>8, <1>9, <2>2 DEF ScanKnows
<1>12. ScanKnows(kept)
  <2>1. AnsweredFields(kept) = AnsweredFields(scan) \cup more
    BY <1>6, <1>10 DEF AnsweredFields
  <2>2. scan.omitted \cup AnsweredFields(scan) \subseteq kept.omitted \cup AnsweredFields(kept)
    BY <1>6, <1>10, <2>1 DEF left
  <2>3. Honest(kept.existing, kept.omitted \cup AnsweredFields(kept))
    BY <1>10, <2>2 DEF ScanKnows, Honest
  <2>4. ASSUME ~kept.failed, NEW x \in SsFields, x[1] \in kept.entities
        PROVE  LockedIn(kept.existing, x) \/ x[1] \in kept.ask \cup kept.asked \/ x \in AnsweredFields(kept) \cup kept.omitted
    <3>1. CASE x[1] = e
      BY <1>2, <1>10, <2>1, <3>1 DEF left
    <3>2. CASE x[1] # e
      BY <1>5, <1>10, <2>2, <2>4, <3>2 DEF ScanKnows
    <3>3. QED  BY <3>1, <3>2
  <2>5. QED  BY <1>5, <1>8, <1>10, <2>3, <2>4 DEF ScanKnows
<1>13. scan.omitted \ AnsweredFields(next) \subseteq kept.omitted
  BY <1>10 DEF left
<1>14. QED  BY <1>11, <1>12, <1>13

LEMMA ModelAnswersKeep ==
  ASSUME ScanInv, NEW e \in SsEntities, ModelAnswers(e)
  PROVE  ScanInv'
<1> USE DEF ScanInv
<1>1. /\ e \in ssScan.asked
      /\ UNCHANGED <<ssRules, ssLevels, ssConsent, ssDescribed, ssRunning, ssProgress, ssCleanups, ssAudit, ssLocks>>
  BY DEF ModelAnswers
<1>2. PICK level \in SsGuesses, more \in SUBSET {x \in SsFields : x[1] = e} :
        LET scan == [ssScan EXCEPT !.asked = @ \ {e}, !.results = @ \cup Answered(e, level, more)] IN
        \/ /\ ssScan' = [scan EXCEPT !.shares = TRUE,
                           !.omitted = (@ \ AnsweredFields(scan)) \cup {x \in SsFields : x[1] = e /\ x \notin more}]
           /\ SetDatasource(scan, OldRules(scan))
        \/ ssScan' = [scan EXCEPT !.failed = TRUE] /\ UNCHANGED ssReport
  BY DEF ModelAnswers
<1> DEFINE given == IF level \in ssScan.levels THEN level ELSE "unconfirmed"
<1> DEFINE scan == [ssScan EXCEPT !.asked = @ \ {e}, !.results = @ \cup Answered(e, level, more)]
<1>3. ssScan \in ScanRecords /\ ssRules \in Nat /\ ssDescribed \subseteq SsEntities
  BY DEF ScanTyped
<1>4. ssScan.pc = "asking"
  <2>1. ssScan.pc \in {"ended", "describe", "gate", "rules", "existing", "asking"}
    BY <1>3 DEF ScanRecords
  <2>2. QED  BY <1>1, <2>1 DEF ScanInHand
<1>5. ssRunning /\ ScanKnows(ssScan)
  BY <1>4 DEF SlotHeld, ScanInHand
<1>6. given \in SsLevels \cup {"unconfirmed"} /\ more \subseteq {x \in SsFields : x[1] = e}
  <2>1. SsGuesses \subseteq SsLevels
    BY SensitivityScanAssumption
  <2>2. QED  BY <2>1
<1>7. Answered(e, level, more) = {[field |-> x, level |-> given] : x \in more}
  BY DEF Answered
<1> HIDE DEF given
<1> DEFINE kept == [scan EXCEPT !.shares = TRUE,
                      !.omitted = (@ \ AnsweredFields(scan)) \cup {x \in SsFields : x[1] = e /\ x \notin more}]
<1> DEFINE lost == [scan EXCEPT !.failed = TRUE]
<1>8. (ssScan' = kept /\ SetDatasource(scan, OldRules(scan))) \/ (ssScan' = lost /\ UNCHANGED ssReport)
  BY <1>2
<1>9. ScanKnows(kept) /\ ScanKnows(lost) /\ ssScan.omitted \ AnsweredFields(scan) \subseteq kept.omitted
  <2> DEFINE answers == {[field |-> x, level |-> given] : x \in more}
  <2> DEFINE mute == {x \in SsFields : x[1] = e /\ x \notin more}
  <2>1. scan = [ssScan EXCEPT !.asked = @ \ {e}, !.results = @ \cup answers]
    BY <1>7
  <2>2. ASSUME NEW r \in answers PROVE r \in [field : SsFields, level : SsLevels \cup {"unconfirmed"}] /\ r.field[1] = e
    <3>1. PICK x \in more : r = [field |-> x, level |-> given]
      OBVIOUS
    <3>2. x \in SsFields /\ x[1] = e
      OBVIOUS
    <3>3. QED  BY <1>6, <3>1, <3>2
  <2>3. ASSUME NEW x \in SsFields, x[1] = e PROVE x \in mute \/ \E r \in answers : r.field = x
    <3>1. CASE x \in more
      <4>1. [field |-> x, level |-> given] \in answers /\ [field |-> x, level |-> given].field = x
        BY <3>1
      <4> HIDE DEF answers
      <4>2. QED  BY <4>1
    <3>2. CASE x \notin more
      BY <2>3, <3>2
    <3>3. QED  BY <3>1, <3>2
  <2>4. mute \subseteq SsFields
    OBVIOUS
  <2>5. kept = [scan EXCEPT !.shares = TRUE, !.omitted = (@ \ AnsweredFields(scan)) \cup mute]
    OBVIOUS
  <2>6. lost = [scan EXCEPT !.failed = TRUE]
    OBVIOUS
  <2> HIDE DEF answers, mute, scan, kept, lost
  <2>7. PICK was, next, one, all, new, unsaid :
          was = ssScan /\ next = scan /\ one = lost /\ all = kept /\ new = answers /\ unsaid = mute
    OBVIOUS
  <2>8. next = Heard(was, e, new) /\ one = Missed(next) /\ all = Shared(next, unsaid)
    BY <2>1, <2>5, <2>6, <2>7 DEF Heard, Missed, Shared
  <2>9. /\ ScanKnows(was) /\ e \in SsEntities /\ e \in was.asked /\ new \in SUBSET [field : SsFields, level : SsLevels \cup {"unconfirmed"}]
        /\ unsaid \in SUBSET SsFields /\ \A r \in new : r.field[1] = e
        /\ \A x \in SsFields : x[1] = e => x \in unsaid \/ \E r \in new : r.field = x
    BY <1>1, <1>5, <2>2, <2>3, <2>4, <2>7
  <2>10. ScanKnows(one) /\ ScanKnows(all) /\ was.omitted \ AnsweredFields(next) \subseteq all.omitted
    BY ONLY <2>8, <2>9, AnsweredKnows
  <2>11. QED  BY <2>7, <2>10
<1>10. /\ scan.number = ssScan.number /\ scan.pc = "asking" /\ scan.consented = ssScan.consented
       /\ scan.omitted = ssScan.omitted /\ scan.existing = ssScan.existing /\ scan.rules = ssScan.rules
       /\ kept.number = ssScan.number /\ kept.pc = "asking" /\ kept.consented = ssScan.consented /\ kept.rules = ssScan.rules
       /\ lost.number = ssScan.number /\ lost.pc = "asking" /\ lost.consented = ssScan.consented
       /\ lost.omitted = ssScan.omitted
  BY <1>3, <1>4 DEF ScanRecords
<1>11. kept \in ScanRecords /\ lost \in ScanRecords
  BY <1>9 DEF ScanKnows
<1>12. ssScan.consented /\ [scan |-> ssScan.number, allowed |-> TRUE] \in ssAudit
  BY <1>4 DEF Audited
<1>13. CASE ssScan' = lost /\ UNCHANGED ssReport
  <2> HIDE DEF lost, kept
  <2>1. ScanKnows(ssScan)'
    BY <1>1, <1>9, <1>13 DEF ScanKnows, LocksIn, Honest
  <2>2. ScanInHand'
    BY <1>10, <1>13, <2>1 DEF ScanInHand
  <2>3. QED  BY <1>1, <1>3, <1>5, <1>10, <1>11, <1>12, <1>13, <2>2, PhaseKeeps
<1>14. CASE ssScan' = kept /\ SetDatasource(scan, OldRules(scan))
  <2>1. /\ lost.entities = scan.entities /\ lost.existing = scan.existing /\ lost.results = scan.results
        /\ lost.partial = scan.partial /\ lost.rules = scan.rules
    BY <1>3 DEF ScanRecords
  <2>0. PICK full : full = lost
    OBVIOUS
  <2> HIDE DEF lost, kept, scan
  <2>2. MergeResults(full) = MergeResults(scan) /\ AnsweredFields(full) = AnsweredFields(scan)
    BY <2>0, <2>1 DEF MergeResults, Spared, ModelSaid, Kept, AnsweredFields
  <2>3. OldRules(scan) = RulesOf(full.existing) /\ OldRules(scan) \in Nat
    <3>1. full.existing \in Reports \cup {NoReport}
      BY <1>11, <2>0 DEF ScanRecords
    <3>2. RulesOf(full.existing) \in Nat
      BY <3>1, ReportIs
    <3>3. QED  BY <2>0, <2>1, <3>2 DEF OldRules, RulesOf
  <2>4. ssReport' = [fields |-> MergeResults(full), rules |-> OldRules(scan)]
    BY <1>14, <2>2 DEF SetDatasource
  <2>5. /\ ssReport' \in Reports \cup {NoReport} /\ RulesOf(ssReport') = OldRules(scan) /\ OldRules(scan) <= full.rules
        /\ LocksIn(ssReport)' /\ Honest(ssReport, full.omitted \ AnsweredFields(full))'
    BY <1>1, <1>3, <1>9, <2>0, <2>3, <2>4, SavedReport
  <2>6. full.omitted \ AnsweredFields(full) \subseteq ssScan'.omitted
    BY <1>9, <1>10, <1>14, <2>0, <2>2
  <2>7. ReportTrue'
    <3>1. Honest(ssReport, ssScan.omitted)'
      BY <2>5, <2>6 DEF Honest
    <3>2. full.rules <= ssRules /\ full.rules \in Nat
      BY <1>9, <1>11, <2>0 DEF ScanKnows, ScanRecords
    <3>3. (RulesOf(ssReport) <= ssRules)'
      BY <1>1, <1>3, <2>3, <2>5, <3>2 DEF RulesOf
    <3>4. QED  BY <2>5, <3>1, <3>3 DEF ReportTrue
  <2>8. ScanKnows(ssScan)'
    BY <1>1, <1>9, <1>14 DEF ScanKnows, LocksIn, Honest
  <2>9. ScanInHand'
    BY <1>10, <1>14, <2>8 DEF ScanInHand
  <2>10. ScanTyped'
    BY <1>1, <1>11, <1>14, <2>5 DEF ScanTyped
  <2>11. SlotHeld'
    BY <1>1, <1>5, <1>10, <1>14, GoesOn
  <2>12. Audited'
    BY <1>1, <1>10, <1>12, <1>14 DEF Audited
  <2>13. QED  BY <2>7, <2>9, <2>10, <2>11, <2>12
<1>15. QED  BY <1>8, <1>13, <1>14

LEMMA ScanEndsKeeps ==
  ASSUME ScanInv, ScanEnds
  PROVE  ScanInv'
<1>1. ssScan.pc = "asking" /\ ssScan.ask = {} /\ ssScan.asked = {}
  BY DEF ScanEnds
<1>2. ssRunning /\ ScanKnows(ssScan)
  BY <1>1 DEF ScanInv, SlotHeld, ScanInHand
<1>3. (IF ssScan.failed THEN "failed" ELSE "completed") \in {"failed", "completed"}
  OBVIOUS
<1>4. QED  BY <1>1, <1>2, <1>3, CompletesKeeps DEF ScanEnds

LEMMA ForgetsKeeps ==
  ASSUME ScanInv, NEW n \in ssCleanups, ForgetsProgress(n)
  PROVE  ScanInv'
<1> USE DEF ScanInv
<1>1. /\ ssCleanups' = ssCleanups \ {n} /\ ssProgress' = IF OwnProgress(n) THEN NoProgress ELSE ssProgress
      /\ UNCHANGED <<ssReport, ssRules, ssLevels, ssConsent, ssDescribed, ssRunning, ssScan, ssAudit, ssLocks>>
  BY DEF ForgetsProgress
<1>2. NoProgress \in [number : Nat, status : {"none", "running", "failed", "completed"}] /\ NoProgress.status # "running"
  BY DEF NoProgress
<1>3. ScanTyped'
  BY <1>1, <1>2 DEF ScanTyped
<1>4. SlotHeld'
  BY <1>1, <1>2 DEF SlotHeld, OwnProgress
<1>5. Audited'
  BY <1>1 DEF Audited
<1>6. ScanInHand'
  BY <1>1 DEF ScanInHand, ScanKnows, LocksIn, Honest
<1>7. ReportTrue'
  BY <1>1 DEF ReportTrue, LocksIn, Honest
<1>8. QED  BY <1>3, <1>4, <1>5, <1>6, <1>7

(* A user's or an agent's word in a report: the field is locked.           *)
Confirming(report, x, class) == [report EXCEPT !.fields[x] = class]

LEMMA Confirmed ==
  ASSUME NEW report \in Reports, NEW x \in FieldsOf(report), NEW class \in Classifications, Locked(class),
         NEW next, next = Confirming(report, x, class)
  PROVE  /\ next \in Reports /\ next # NoReport /\ FieldsOf(next) = FieldsOf(report) /\ RulesOf(next) = RulesOf(report)
         /\ \A y \in FieldsOf(report) : next.fields[y] = IF y = x THEN class ELSE report.fields[y]
<1>1. report # NoReport
  BY SensitivityScanAssumption
<1>2. PICK S \in SUBSET SsFields : report.fields \in [S -> Classifications]
  BY DEF Reports
<1>3. report.rules \in Nat /\ report = [fields |-> report.fields, rules |-> report.rules] /\ x \in S /\ FieldsOf(report) = S
  BY <1>1, <1>2 DEF Reports, FieldsOf
<1> DEFINE f == [report.fields EXCEPT ![x] = class]
<1>4. f \in [S -> Classifications] /\ \A y \in S : f[y] = IF y = x THEN class ELSE report.fields[y]
  BY <1>2, <1>3
<1>5. next = [fields |-> f, rules |-> report.rules]
  BY <1>3 DEF Confirming
<1> HIDE DEF f
<1>6. next \in Reports /\ next # NoReport /\ FieldsOf(next) = S /\ RulesOf(next) = report.rules
  BY <1>3, <1>4, <1>5, ReportMade
<1>7. next.fields = f
  BY <1>5
<1>8. QED  BY <1>1, <1>3, <1>4, <1>6, <1>7 DEF RulesOf

LEMMA ConfirmedTrue ==
  ASSUME NEW report \in Reports, NEW x \in FieldsOf(report), NEW class \in Classifications, Locked(class),
         NEW next, next = Confirming(report, x, class), NEW spared,
         LocksIn(report), Honest(report, spared), UNCHANGED ssRules,
         ssLocks' = [ssLocks EXCEPT ![x] = ssLocks'[x]], ssLocks \in [SsFields -> SsLevels \cup {NoLock}],
         ssLocks'[x] \in {NoLock, class.level}
  PROVE  LocksIn(next)' /\ Honest(next, spared)'
<1>1. /\ FieldsOf(next) = FieldsOf(report) /\ RulesOf(next) = RulesOf(report)
      /\ \A y \in FieldsOf(report) : next.fields[y] = IF y = x THEN class ELSE report.fields[y]
  BY Confirmed
<1>2. FieldsOf(report) \subseteq SsFields
  BY ReportIs
<1>3. \A y \in SsFields : y # x => ssLocks'[y] = ssLocks[y]
  OBVIOUS
<1>4. LocksIn(next)'
  BY <1>1, <1>2, <1>3 DEF LocksIn
<1>5. Honest(next, spared)'
  BY <1>1 DEF Honest
<1>6. QED  BY <1>4, <1>5

LEMMA ConfirmKeeps ==
  ASSUME ScanInv, NEW x \in SsFields, NEW level \in SsSaid, ConfirmField(x, level)
  PROVE  ScanInv'
<1> USE DEF ScanInv
<1> DEFINE class == Classified(level, "manual", 0)
<1> DEFINE shared == ScanAsks /\ ssScan.shares /\ x \in Spared(ssScan)
<1>1. /\ x \in FieldsOf(ssReport) /\ level \in ssLevels /\ ssReport' = [ssReport EXCEPT !.fields[x] = class]
      /\ ssScan' = IF shared THEN [ssScan EXCEPT !.existing.fields[x] = class] ELSE ssScan
      /\ ssLocks' = [ssLocks EXCEPT ![x] = IF ScanAsks /\ ~shared THEN NoLock ELSE level]
      /\ UNCHANGED <<ssRules, ssLevels, ssConsent, ssDescribed, ssRunning, ssProgress, ssCleanups, ssAudit>>
  BY DEF ConfirmField
<1>2. /\ ssReport \in Reports /\ ssReport # NoReport /\ ssScan \in ScanRecords /\ ssRules \in Nat
      /\ ssLocks \in [SsFields -> SsLevels \cup {NoLock}] /\ level \in SsLevels
  BY <1>1 DEF ScanTyped, FieldsOf
<1>3. class \in Classifications /\ Locked(class) /\ class.level = level
  BY <1>2 DEF Classified, Classifications, Locked
<1>4. /\ ssLocks' = [ssLocks EXCEPT ![x] = ssLocks'[x]] /\ ssLocks' \in [SsFields -> SsLevels \cup {NoLock}]
      /\ ssLocks'[x] \in {NoLock, class.level} /\ (ScanAsks /\ ~shared => ssLocks'[x] = NoLock)
      /\ \A y \in SsFields : y # x => ssLocks'[y] = ssLocks[y]
  BY <1>1, <1>2, <1>3
<1> HIDE DEF class
<1>5. ssReport' \in Reports /\ RulesOf(ssReport') = RulesOf(ssReport)
  <2>1. PICK report, next : report = ssReport /\ next = ssReport'
    OBVIOUS
  <2>2. next = Confirming(report, x, class)
    BY <1>1, <2>1 DEF Confirming
  <2>3. QED  BY <1>1, <1>2, <1>3, <2>1, <2>2, Confirmed
<1>6. ReportTrue'
  <2>1. PICK report, next, spared : report = ssReport /\ next = ssReport' /\ spared = ssScan.omitted
    OBVIOUS
  <2>0. next = Confirming(report, x, class)
    BY <1>1, <2>1 DEF Confirming
  <2>2. LocksIn(next)' /\ Honest(next, spared)'
    BY <1>1, <1>2, <1>3, <1>4, <2>0, <2>1, ConfirmedTrue DEF ReportTrue
  <2>3. ssScan'.omitted = ssScan.omitted
    BY <1>1, <1>2 DEF ScanRecords
  <2>4. LocksIn(ssReport)' /\ Honest(ssReport, ssScan.omitted)'
    BY <2>1, <2>2, <2>3 DEF LocksIn, Honest
  <2>5. QED  BY <1>1, <1>5, <2>4 DEF ReportTrue
<1>7. CASE ~shared
  <2>1. ssScan' = ssScan
    BY <1>1, <1>7
  <2>2. ASSUME ssScan.pc = "asking" PROVE ScanKnows(ssScan)'
    <3>1. \A y \in SsFields : ssLocks'[y] # NoLock => ssLocks[y] # NoLock /\ ssLocks'[y] = ssLocks[y]
      BY <1>4, <1>7, <2>2 DEF ScanAsks
    <3>2. ScanKnows(ssScan)
      BY <2>2 DEF ScanInHand
    <3>3. QED  BY <1>1, <2>1, <3>1, <3>2 DEF ScanKnows, LocksIn, Honest
  <2>3. ScanInHand'
    BY <1>1, <1>5, <2>1, <2>2 DEF ScanInHand
  <2>4. ScanTyped'
    BY <1>1, <1>2, <1>4, <1>5, <2>1 DEF ScanTyped
  <2>5. SlotHeld' /\ Audited'
    BY <1>1, <2>1 DEF SlotHeld, Audited
  <2>6. QED  BY <1>6, <2>3, <2>4, <2>5
<1>8. CASE shared
  <2>1. /\ ssScan.pc = "asking" /\ ssScan' = [ssScan EXCEPT !.existing.fields[x] = class] /\ x \in FieldsOf(ssScan.existing)
        /\ ScanKnows(ssScan)
    BY <1>1, <1>8 DEF ScanAsks, Spared, ScanInHand
  <2>2. ssScan.existing \in Reports /\ ssScan.existing # NoReport
    BY <1>2, <2>1 DEF FieldsOf, ScanRecords
  <2>3. PICK report, next : report = ssScan.existing /\ next = [ssScan.existing EXCEPT !.fields[x] = class]
    OBVIOUS
  <2>4. next = Confirming(report, x, class)
    BY <2>3 DEF Confirming
  <2>5. /\ next \in Reports /\ FieldsOf(next) = FieldsOf(report) /\ RulesOf(next) = RulesOf(report)
        /\ \A y \in FieldsOf(report) : next.fields[y] = IF y = x THEN class ELSE report.fields[y]
    <3>1. report \in Reports /\ x \in FieldsOf(report) /\ class \in Classifications /\ Locked(class)
      BY <1>3, <2>1, <2>2, <2>3
    <3>2. QED  BY ONLY <2>4, <3>1, Confirmed
  <2>6. ssScan' = [ssScan EXCEPT !.existing = next]
    BY <1>2, <2>1, <2>3 DEF ScanRecords
  <2>7. /\ ssScan' \in ScanRecords /\ ssScan'.pc = "asking" /\ ssScan'.number = ssScan.number
        /\ ssScan'.consented = ssScan.consented /\ ssScan'.omitted = ssScan.omitted /\ ssScan'.rules = ssScan.rules
        /\ ssScan'.results = ssScan.results /\ ssScan'.failed = ssScan.failed /\ ssScan'.existing = next
        /\ ssScan'.entities = ssScan.entities /\ ssScan'.partial = ssScan.partial
        /\ ssScan'.ask = ssScan.ask /\ ssScan'.asked = ssScan.asked
    BY <1>2, <2>1, <2>5, <2>6 DEF ScanRecords
  <2>8. PICK answered, spared : answered = AnsweredFields(ssScan) /\ spared = ssScan.omitted \cup AnsweredFields(ssScan)
    OBVIOUS
  <2>9. LocksIn(next)' /\ Honest(next, spared)'
    BY <1>1, <1>2, <1>3, <1>4, <2>1, <2>2, <2>3, <2>4, <2>8, ConfirmedTrue DEF ScanKnows
  <2>10. AnsweredFields(ssScan)' = answered
    BY <2>7, <2>8 DEF AnsweredFields
  <2>11. LocksIn(ssScan.existing)' /\ Honest(ssScan.existing, ssScan.omitted \cup AnsweredFields(ssScan))'
    BY <2>7, <2>8, <2>9, <2>10 DEF LocksIn, Honest
  <2>12. ASSUME ~ssScan.failed, NEW y \in SsFields, y[1] \in ssScan.entities
         PROVE  LockedIn(next, y) \/ y[1] \in ssScan.ask \cup ssScan.asked \/ y \in answered \cup ssScan.omitted
    <3>1. LockedIn(report, y) => LockedIn(next, y)
      BY <1>3, <2>5 DEF LockedIn
    <3>2. QED  BY <2>1, <2>3, <2>8, <2>12, <3>1 DEF ScanKnows
  <2>13. ScanKnows(ssScan)'
    <3>1. RulesOf(next) <= ssScan.rules
      BY <2>1, <2>3, <2>5 DEF ScanKnows
    <3>2. QED  BY <1>1, <2>1, <2>7, <2>8, <2>10, <2>11, <2>12, <3>1 DEF ScanKnows, LockedIn
  <2>14. ScanInHand'
    BY <2>7, <2>13 DEF ScanInHand
  <2>15. ScanTyped'
    BY <1>1, <1>4, <1>5, <2>7 DEF ScanTyped
  <2>16. SlotHeld' /\ Audited'
    BY <1>1, <2>1, <2>7 DEF SlotHeld, Audited
  <2>17. QED  BY <1>6, <2>14, <2>15, <2>16
<1>9. QED  BY <1>7, <1>8

(* A report that is replaced or forgotten takes the locks of it along; a   *)
(* scan under way then shares nothing with it.                             *)
LEMMA ReplacedKeeps ==
  ASSUME ScanInv, ssReport' \in Reports \cup {NoReport}, RulesOf(ssReport') = 0,
         \A x \in FieldsOf(ssReport') : Locked(ssReport'.fields[x]),
         ssScan' = [ssScan EXCEPT !.shares = FALSE],
         ssLocks' \in [SsFields -> SsLevels \cup {NoLock}], LocksIn(ssReport)',
         ScanAsks => \A x \in SsFields : ssLocks'[x] = NoLock,
         UNCHANGED <<ssRules, ssLevels, ssConsent, ssDescribed, ssRunning, ssProgress, ssCleanups, ssAudit>>
  PROVE  ScanInv'
<1> USE DEF ScanInv
<1>1. ssScan \in ScanRecords /\ ssRules \in Nat
  BY DEF ScanTyped
<1>2. /\ ssScan' \in ScanRecords /\ ssScan'.pc = ssScan.pc /\ ssScan'.number = ssScan.number
      /\ ssScan'.consented = ssScan.consented /\ ssScan'.omitted = ssScan.omitted /\ ssScan'.rules = ssScan.rules
      /\ ssScan'.results = ssScan.results /\ ssScan'.failed = ssScan.failed /\ ssScan'.existing = ssScan.existing
      /\ ssScan'.entities = ssScan.entities /\ ssScan'.partial = ssScan.partial
      /\ ssScan'.ask = ssScan.ask /\ ssScan'.asked = ssScan.asked
  BY <1>1 DEF ScanRecords
<1>3. ScanTyped'
  BY <1>2 DEF ScanTyped
<1>4. SlotHeld' /\ Audited'
  BY <1>2 DEF SlotHeld, Audited
<1>5. ASSUME ssScan.pc = "asking" PROVE ScanKnows(ssScan)'
  <2>1. ScanKnows(ssScan)
    BY <1>5 DEF ScanInHand
  <2>2. AnsweredFields(ssScan)' = AnsweredFields(ssScan)
    BY <1>2 DEF AnsweredFields
  <2>3. LocksIn(ssScan.existing)' /\ Honest(ssScan.existing, ssScan.omitted \cup AnsweredFields(ssScan))'
    BY <1>2, <1>5, <2>1, <2>2 DEF ScanAsks, LocksIn, Honest, ScanKnows
  <2>4. QED  BY <1>2, <2>1, <2>2, <2>3 DEF ScanKnows, LockedIn
<1>6. ScanInHand'
  <2>1. ssScan.pc = "existing" => RulesOf(ssReport)' <= ssScan.rules
    BY <1>1 DEF ScanRecords, RulesOf
  <2>2. QED  BY <1>2, <1>5, <2>1 DEF ScanInHand
<1>7. ReportTrue'
  <2>1. (RulesOf(ssReport) <= ssRules)'
    BY <1>1 DEF RulesOf
  <2>2. Honest(ssReport, ssScan.omitted)'
    BY DEF Honest
  <2>3. QED  BY <2>1, <2>2 DEF ReportTrue
<1>8. QED  BY <1>3, <1>4, <1>6, <1>7

LEMMA AgentReportKeeps ==
  ASSUME ScanInv, NEW e \in SsEntities, NEW level \in SsSaid, SaveAgentReport(e, level)
  PROVE  ScanInv'
<1> DEFINE fields == {x \in SsFields : x[1] = e}
<1> DEFINE class == Classified(level, "agent", 0)
<1>1. /\ level \in ssLevels /\ ssReport' = [fields |-> [x \in fields |-> class], rules |-> 0]
      /\ ssLocks' = [x \in SsFields |-> IF x \in fields /\ ~ScanAsks THEN level ELSE NoLock]
      /\ ssScan' = [ssScan EXCEPT !.shares = FALSE]
      /\ UNCHANGED <<ssRules, ssLevels, ssConsent, ssDescribed, ssRunning, ssProgress, ssCleanups, ssAudit>>
  BY DEF SaveAgentReport
<1>2. level \in SsLevels
  BY <1>1 DEF ScanInv, ScanTyped
<1>3. class \in Classifications /\ Locked(class) /\ class.level = level
  BY <1>2 DEF Classified, Classifications, Locked
<1>4. fields \subseteq SsFields
  OBVIOUS
<1> HIDE DEF fields, class
<1>5. [x \in fields |-> class] \in [fields -> Classifications] /\ \A x \in fields : [y \in fields |-> class][x] = class
  BY <1>3
<1>6. /\ ssReport' \in Reports /\ ssReport' # NoReport /\ FieldsOf(ssReport') = fields /\ RulesOf(ssReport') = 0
      /\ \A x \in fields : ssReport'.fields[x] = class
  BY <1>1, <1>4, <1>5, ReportMade
<1>7. \A x \in SsFields : ssLocks'[x] = IF x \in fields /\ ~ScanAsks THEN level ELSE NoLock
  BY <1>1
<1>8. ssLocks' \in [SsFields -> SsLevels \cup {NoLock}]
  BY <1>1, <1>2
<1>9. LocksIn(ssReport)'
  BY <1>3, <1>6, <1>7 DEF LocksIn
<1>10. QED  BY <1>1, <1>3, <1>6, <1>7, <1>8, <1>9, ReplacedKeeps

LEMMA DeleteKeeps ==
  ASSUME ScanInv, DeleteDatasource
  PROVE  ScanInv'
<1>1. /\ ssReport' = NoReport /\ ssLocks' = [x \in SsFields |-> NoLock] /\ ssScan' = [ssScan EXCEPT !.shares = FALSE]
      /\ UNCHANGED <<ssRules, ssLevels, ssConsent, ssDescribed, ssRunning, ssProgress, ssCleanups, ssAudit>>
  BY DEF DeleteDatasource
<1>2. RulesOf(ssReport') = 0 /\ FieldsOf(ssReport') = {}
  BY <1>1 DEF RulesOf, FieldsOf
<1>3. LocksIn(ssReport)'
  BY <1>1 DEF LocksIn
<1>4. ssLocks' \in [SsFields -> SsLevels \cup {NoLock}] /\ \A x \in SsFields : ssLocks'[x] = NoLock
  BY <1>1
<1>5. QED  BY <1>1, <1>2, <1>3, <1>4, ReplacedKeeps

LEMMA SettingsKeep ==
  ASSUME ScanInv, ChangesSettings
  PROVE  ScanInv'
<1> USE DEF ScanInv
<1>1. UNCHANGED <<ssReport, ssRunning, ssScan, ssProgress, ssCleanups, ssAudit, ssLocks>>
  BY DEF ChangesSettings
<1>2. /\ ssRules' = ssRules \/ ssRules' = ssRules + 1
      /\ ssLevels' \subseteq SsLevels /\ ssConsent' \in BOOLEAN /\ ssDescribed' \subseteq SsEntities
  <2>1. ssLevels \subseteq SsLevels /\ ssConsent \in BOOLEAN /\ ssDescribed \subseteq SsEntities
    BY DEF ScanTyped
  <2>2. CASE ssRules' = ssRules + 1 /\ UNCHANGED <<ssLevels, ssConsent, ssDescribed>>
    BY <2>1, <2>2
  <2>3. CASE ssConsent' = ~ssConsent /\ UNCHANGED <<ssRules, ssLevels, ssDescribed>>
    <3>1. (~ssConsent) \in BOOLEAN
      OBVIOUS
    <3>2. QED  BY <2>1, <2>3, <3>1
  <2>4. CASE (\E l \in ssLevels : ssLevels # {l} /\ ssLevels' = ssLevels \ {l}) /\ UNCHANGED <<ssRules, ssConsent, ssDescribed>>
    BY <2>1, <2>4
  <2>5. CASE (\E e \in ssDescribed : ssDescribed' = ssDescribed \ {e}) /\ UNCHANGED <<ssRules, ssConsent, ssLevels>>
    BY <2>1, <2>5
  <2>6. QED  BY <2>2, <2>3, <2>4, <2>5 DEF ChangesSettings
<1>3. ssScan \in ScanRecords /\ ssRules \in Nat /\ ssReport \in Reports \cup {NoReport} /\ ssScan.rules \in Nat
  BY DEF ScanTyped, ScanRecords
<1>4. ScanTyped'
  BY <1>1, <1>2, <1>3 DEF ScanTyped
<1>5. SlotHeld' /\ Audited'
  BY <1>1 DEF SlotHeld, Audited
<1>6. RulesOf(ssReport) \in Nat
  BY <1>3, ReportIs
<1>7. Honest(ssReport, ssScan.omitted)' /\ (RulesOf(ssReport) <= ssRules)' /\ LocksIn(ssReport)'
  BY <1>1, <1>2, <1>3, <1>6 DEF ReportTrue, Honest, LocksIn, RulesOf
<1>8. ReportTrue'
  BY <1>7 DEF ReportTrue
<1>9. ASSUME ssScan.pc = "asking" PROVE ScanKnows(ssScan)'
  <2>1. ScanKnows(ssScan)
    BY <1>9 DEF ScanInHand
  <2>2. RulesOf(ssScan.existing) \in Nat
    BY <1>3, ReportIs DEF ScanRecords
  <2>3. Honest(ssScan.existing, ssScan.omitted \cup AnsweredFields(ssScan))'
    BY <1>1, <1>2, <1>3, <2>1, <2>2 DEF ScanKnows, Honest
  <2>4. ssScan.rules <= ssRules'
    BY <1>2, <1>3, <2>1 DEF ScanKnows
  <2>5. QED  BY <1>1, <2>1, <2>3, <2>4 DEF ScanKnows, LocksIn
<1>10. ScanInHand'
  BY <1>1, <1>2, <1>3, <1>9 DEF ScanInHand
<1>11. QED  BY <1>4, <1>5, <1>8, <1>10

LEMMA ScanInitially ==
  ASSUME SensitivityScanInit
  PROVE  ScanInv
<1> USE DEF SensitivityScanInit
<1>1. NoScan \in ScanRecords
  BY DEF ScanRecords, NoScan
<1>2. ScanTyped
  BY <1>1 DEF ScanTyped, NoProgress
<1>3. SlotHeld
  BY DEF SlotHeld, NoScan, NoProgress
<1>4. Audited
  BY DEF Audited, NoScan
<1>5. ScanInHand
  BY DEF ScanInHand, NoScan
<1>6. ReportTrue
  BY DEF ReportTrue, LocksIn, Honest, RulesOf, FieldsOf
<1>7. QED  BY <1>2, <1>3, <1>4, <1>5, <1>6 DEF ScanInv

LEMMA ScanStep ==
  ASSUME ScanInv, [SensitivityScanNext]_ssvars
  PROVE  ScanInv'
<1>1. CASE SensitivityScanStarts
  BY <1>1, StartsKeeps
<1>2. CASE DescribeUncachedEntities
  BY <1>2, DescribeKeeps
<1>3. CASE GateAgain
  BY <1>3, GateKeeps
<1>4. CASE ReadsCustomRules
  BY <1>4, ReadsRulesKeeps
<1>5. CASE BeginsScan
  BY <1>5, BeginsKeeps
<1>6. CASE ScanEnds
  BY <1>6, ScanEndsKeeps
<1>7. ASSUME NEW e \in SsEntities, AsksModel(e) PROVE ScanInv'
  BY <1>7, AsksKeeps
<1>8. ASSUME NEW e \in SsEntities, ModelAnswers(e) PROVE ScanInv'
  BY <1>8, ModelAnswersKeep
<1>9. ASSUME NEW n \in ssCleanups, ForgetsProgress(n) PROVE ScanInv'
  BY <1>9, ForgetsKeeps
<1>10. ASSUME NEW x \in SsFields, NEW level \in SsSaid, ConfirmField(x, level) PROVE ScanInv'
  BY <1>10, ConfirmKeeps
<1>11. ASSUME NEW e \in SsEntities, NEW level \in SsSaid, SaveAgentReport(e, level) PROVE ScanInv'
  BY <1>11, AgentReportKeeps
<1>12. CASE DeleteDatasource
  BY <1>12, DeleteKeeps
<1>13. CASE ChangesSettings
  BY <1>13, SettingsKeep
<1>14. CASE UNCHANGED ssvars
  BY <1>14 DEF ssvars, ScanInv, ScanTyped, SlotHeld, Audited, ScanInHand, ScanKnows, ReportTrue, LocksIn, Honest
<1>15. QED
  BY <1>1, <1>2, <1>3, <1>4, <1>5, <1>6, <1>7, <1>8, <1>9, <1>10, <1>11, <1>12, <1>13, <1>14 DEF SensitivityScanNext

LEMMA ScanInvSafe == ScanInv => ScanSafe
<1> SUFFICES ASSUME ScanInv PROVE ScanSafe
  OBVIOUS
<1> USE DEF ScanInv
<1>1. LocksKept
  BY DEF LocksKept, ReportTrue, LocksIn
<1>2. AskedWithConsent
  <2>1. ASSUME NEW row \in ssAudit, row.scan > 0, ~row.allowed PROVE [row EXCEPT !.allowed = TRUE] \notin ssAudit
    <3>1. row \in [scan : Nat, allowed : BOOLEAN]
      BY DEF ScanTyped
    <3>2. [row EXCEPT !.allowed = TRUE].scan = row.scan /\ [row EXCEPT !.allowed = TRUE] # row
      BY <2>1, <3>1
    <3>3. QED  BY <2>1, <3>2 DEF Audited
  <2>2. QED  BY <2>1 DEF AskedWithConsent, Audited
<1>3. StampHonest
  BY DEF StampHonest, ReportTrue, Honest, RulesOf
<1>4. ProgressTrue
  BY DEF ProgressTrue, SlotHeld, ScanTyped
<1>5. QED  BY <1>1, <1>2, <1>3, <1>4 DEF ScanSafe

\* Whatever is confirmed stays confirmed, the model is asked with consent
\* only, and a report's stamp and the window's progress are true, in every
\* run of a scan, of edits meanwhile and of changed settings.
THEOREM ScanCorrect == SensitivityScanSpec => []ScanSafe
<1>1. SensitivityScanInit => ScanInv
  BY ScanInitially
<1>2. ScanInv /\ [SensitivityScanNext]_ssvars => ScanInv'
  BY ScanStep
<1>3. ScanInv => ScanSafe
  BY ScanInvSafe
<1>4. QED  BY <1>1, <1>2, <1>3, PTL DEF SensitivityScanSpec

-----------------------------------------------------------------------------

(* Together: every component of the engine keeps its types, for any        *)
(* answers, turns, streams and fields.                                     *)
THEOREM ChatTypeCorrect == EngineSpec => []ChatTypeOK
<1>1. ApprovalsTypeOK /\ LoopTypeOK /\ StreamsTypeOK => ChatTypeOK
  BY DEF ChatTypeOK
<1>2. QED  BY <1>1, ApprovalsTypeCorrect, LoopTypeCorrect, StreamsTypeCorrect, PTL DEF EngineSpec

(* Whatever the models answer, a turn does not go round or save on, and    *)
(* what they say of fields and are shown of them stays within what users,  *)
(* agents and consent leave to them.                                       *)
THEOREM ModelsCorrect == EngineSpec => []ModelsSafe
<1>1. LoopSafe /\ ScanSafe => ModelsSafe
  BY DEF ModelsSafe
<1>2. QED  BY <1>1, LoopCorrect, ScanCorrect, PTL DEF EngineSpec

(* Every set of naturals has a least one.                                  *)
LEMMA LeastNatural ==
  ASSUME NEW T, T \subseteq Nat, T # {}
  PROVE  \E n \in T : \A m \in T : n <= m
<1>1. \E R : IsWellFoundedOn(R, Nat) /\ \A i, j \in Nat : i < j => <<i, j>> \in R
  BY NatLessThanWellFounded DEF OpToRel
<1>2. PICK R : IsWellFoundedOn(R, Nat) /\ \A i, j \in Nat : i < j => <<i, j>> \in R
  BY <1>1
<1>3. \E n \in T : \A m \in T : ~ (<<m, n>> \in R)
  <2>1. IsWellFoundedOn(R, Nat)
    BY <1>2
  <2>2. QED  BY <2>1, WFMin, Zenon
<1>4. PICK n \in T : \A m \in T : ~ (<<m, n>> \in R)
  BY <1>3
<1>5. \A m \in T : ~ (m < n)
  BY <1>2, <1>4
<1>6. n \in Nat /\ \A m \in T : m \in Nat
  OBVIOUS
<1>7. QED  BY <1>4, <1>5, <1>6

(* The chat's memory.  Lists of patterns: what removing one leaves.        *)
LEMMA PatternsIs == PatternSeqs = Seq(Patterns)
  BY DEF PatternSeqs

LEMMA PatternsAre ==
  ASSUME NEW ps \in PatternSeqs
  PROVE  /\ Len(ps) \in Nat /\ DOMAIN ps = 1 .. Len(ps)
         /\ \A i \in DOMAIN ps : ps[i] \in Patterns
  BY PatternsIs, LenProperties, ElementOfSeq

LEMMA Removed ==
  ASSUME NEW ps \in PatternSeqs, NEW i \in DOMAIN ps
  PROVE  /\ RemoveAt(ps, i) \in PatternSeqs /\ Len(RemoveAt(ps, i)) = Len(ps) - 1
         /\ \A j \in DOMAIN ps : j = i \/ \E k \in DOMAIN RemoveAt(ps, i) : RemoveAt(ps, i)[k] = ps[j]
         /\ \A k \in DOMAIN RemoveAt(ps, i) : \E j \in DOMAIN ps : RemoveAt(ps, i)[k] = ps[j]
<1>1. i \in Nat /\ 1 <= i /\ i <= Len(ps) /\ Len(ps) \in Nat /\ DOMAIN ps = 1 .. Len(ps)
  BY PatternsAre
<1> DEFINE a == SubSeq(ps, 1, i - 1)
           b == SubSeq(ps, i + 1, Len(ps))
<1>2. a \in Seq(Patterns) /\ Len(a) = i - 1 /\ \A j \in 1 .. i - 1 : a[j] = ps[j]
  <2>1. \A j \in 1 .. i - 1 : ps[j] \in Patterns
    BY <1>1, PatternsAre
  <2>2. /\ a \in Seq(Patterns) /\ Len(a) = IF 1 <= i - 1 THEN i - 1 - 1 + 1 ELSE 0
        /\ \A j \in 1 .. i - 1 - 1 + 1 : a[j] = ps[1 + j - 1]
    BY <1>1, <2>1, SubSeqProperties
  <2> HIDE DEF a
  <2>3. QED  BY <1>1, <2>2
<1>3. b \in Seq(Patterns) /\ Len(b) = Len(ps) - i /\ \A j \in 1 .. Len(ps) - i : b[j] = ps[i + j]
  <2>1. \A j \in i + 1 .. Len(ps) : ps[j] \in Patterns
    BY <1>1, PatternsAre
  <2>2. /\ b \in Seq(Patterns) /\ Len(b) = IF i + 1 <= Len(ps) THEN Len(ps) - (i + 1) + 1 ELSE 0
        /\ \A j \in 1 .. Len(ps) - (i + 1) + 1 : b[j] = ps[i + 1 + j - 1]
    BY <1>1, <2>1, SubSeqProperties
  <2> HIDE DEF b
  <2>3. Len(ps) - (i + 1) + 1 = Len(ps) - i /\ \A j \in 1 .. Len(ps) - i : i + 1 + j - 1 = i + j
    BY <1>1
  <2>4. Len(b) = Len(ps) - i
    BY <1>1, <2>2, <2>3
  <2>5. \A j \in 1 .. Len(ps) - i : b[j] = ps[i + j]
    BY <2>2, <2>3
  <2>6. QED  BY <2>2, <2>4, <2>5
<1> HIDE DEF a, b
<1>4. RemoveAt(ps, i) = a \o b
  BY DEF RemoveAt, a, b
<1>5. /\ a \o b \in Seq(Patterns) /\ Len(a \o b) = Len(a) + Len(b)
      /\ \A k \in 1 .. Len(a) + Len(b) : (a \o b)[k] = IF k <= Len(a) THEN a[k] ELSE b[k - Len(a)]
  BY <1>2, <1>3, ConcatProperties
<1>6. RemoveAt(ps, i) \in PatternSeqs /\ Len(RemoveAt(ps, i)) = Len(ps) - 1
  BY <1>1, <1>2, <1>3, <1>4, <1>5, PatternsIs
<1>7. DOMAIN RemoveAt(ps, i) = 1 .. Len(ps) - 1
  BY <1>6, PatternsAre
<1>8. ASSUME NEW j \in DOMAIN ps, j # i
      PROVE  \E k \in DOMAIN RemoveAt(ps, i) : RemoveAt(ps, i)[k] = ps[j]
  <2>1. CASE j < i
    <3>1. j \in 1 .. Len(a) + Len(b) /\ j <= Len(a) /\ j \in 1 .. Len(ps) - 1 /\ j \in 1 .. i - 1
      BY <1>1, <1>2, <1>3, <2>1
    <3>2. RemoveAt(ps, i)[j] = ps[j]
      BY <1>2, <1>4, <1>5, <3>1
    <3>3. QED  BY <1>7, <3>1, <3>2
  <2>2. CASE j > i
    <3> DEFINE k == j - 1
    <3>1. /\ j \in Nat /\ j <= Len(ps) /\ i < j /\ i \in Nat /\ 1 <= i /\ Len(ps) \in Nat
          /\ Len(a) = i - 1 /\ Len(b) = Len(ps) - i
      BY <1>1, <1>2, <1>3, <2>2
    <3> DEFINE l == Len(ps)
               la == Len(a)
               lb == Len(b)
    <3> HIDE DEF l, la, lb
    <3>2. j \in Nat /\ j <= l /\ i < j /\ i \in Nat /\ 1 <= i /\ l \in Nat /\ la = i - 1 /\ lb = l - i
      BY <3>1 DEF l, la, lb
    <3>3. k \in 1 .. la + lb /\ ~(k <= la) /\ k \in 1 .. l - 1
          /\ k - la \in 1 .. l - i /\ i + (k - la) = j
      BY <3>2
    <3>4. k \in 1 .. Len(a) + Len(b) /\ ~(k <= Len(a)) /\ k \in 1 .. Len(ps) - 1
          /\ k - Len(a) \in 1 .. Len(ps) - i /\ i + (k - Len(a)) = j
      BY <3>3 DEF l, la, lb
    <3> HIDE DEF k
    <3>5. RemoveAt(ps, i)[k] = b[k - Len(a)]
      BY <1>4, <1>5, <3>4
    <3>6. b[k - Len(a)] = ps[j]
      BY <1>3, <3>4
    <3>7. QED  BY <1>7, <3>4, <3>5, <3>6
  <2>3. QED  BY <1>1, <1>8, <2>1, <2>2
<1>9. ASSUME NEW k \in DOMAIN RemoveAt(ps, i)
      PROVE  \E j \in DOMAIN ps : RemoveAt(ps, i)[k] = ps[j]
  <2> DEFINE l == Len(ps)
  <2> HIDE DEF l
  <2>1. /\ i \in Nat /\ 1 <= i /\ i <= l /\ l \in Nat /\ DOMAIN ps = 1 .. l
        /\ Len(a) = i - 1 /\ Len(b) = l - i /\ k \in 1 .. l - 1
    BY <1>1, <1>2, <1>3, <1>7, <1>9 DEF l
  <2>2. CASE k <= i - 1
    <3>1. k \in 1 .. i - 1 /\ k \in DOMAIN ps /\ k \in 1 .. Len(a) + Len(b) /\ k <= Len(a)
      BY <2>1, <2>2
    <3>2. QED  BY <1>2, <1>4, <1>5, <3>1
  <2>3. CASE ~(k <= i - 1)
    <3>1. /\ k - (i - 1) \in 1 .. l - i /\ i + (k - (i - 1)) = k + 1 /\ k + 1 \in DOMAIN ps
          /\ k \in 1 .. (i - 1) + (l - i)
      <4>1. i \in Nat /\ 1 <= i /\ i <= l /\ l \in Nat /\ k \in 1 .. l - 1 /\ ~(k <= i - 1)
        BY <2>1, <2>3
      <4>2. /\ k - (i - 1) \in 1 .. l - i /\ i + (k - (i - 1)) = k + 1 /\ k + 1 \in 1 .. l
            /\ k \in 1 .. (i - 1) + (l - i)
        BY <4>1
      <4>3. QED  BY <2>1, <4>2
    <3>2. RemoveAt(ps, i)[k] = b[k - (i - 1)]
      BY <1>4, <1>5, <2>1, <2>3, <3>1
    <3>3. b[k - (i - 1)] = ps[k + 1]
      BY <1>3, <3>1 DEF l
    <3>4. QED  BY <3>1, <3>2, <3>3
  <2>4. QED  BY <2>2, <2>3
<1>10. QED  BY <1>6, <1>8, <1>9

(* compactKnownPatterns: the pattern that goes is one of the list.         *)
LEMMA FirstIs ==
  ASSUME NEW is, is \subseteq Nat, is # {}
  PROVE  FirstOf(is) \in is
<1>1. \E i \in is : \A j \in is : i <= j
  BY LeastNatural
<1>2. QED  BY <1>1 DEF FirstOf

LEMMA ColdestIs ==
  ASSUME NEW ps \in PatternSeqs, Len(ps) # 0
  PROVE  Coldest(ps) \in DOMAIN ps
<1>1. DOMAIN ps # {} /\ \A i \in DOMAIN ps : ps[i].uses \in Nat /\ ps[i].at \in Nat
  BY PatternsAre DEF Patterns
<1> DEFINE Uses == {ps[i].uses : i \in DOMAIN ps}
<1>2. Uses \subseteq Nat /\ Uses # {}
  BY <1>1
<1>3. PICK u \in Uses : \A v \in Uses : u <= v
  BY <1>2, LeastNatural
<1> DEFINE Ats == {ps[i].at : i \in {j \in DOMAIN ps : ps[j].uses = u}}
<1>4. Ats \subseteq Nat /\ Ats # {}
  BY <1>1, <1>3
<1>5. PICK t \in Ats : \A v \in Ats : t <= v
  BY <1>4, LeastNatural
<1>6. PICK i \in DOMAIN ps : ps[i].uses = u /\ ps[i].at = t
  BY <1>5
<1>7. ASSUME NEW j \in DOMAIN ps PROVE Colder(ps[i], ps[j])
  <2>1. u <= ps[j].uses /\ u \in Nat /\ ps[j].uses \in Nat
    BY <1>1, <1>2, <1>3
  <2>2. ps[j].uses = u => t <= ps[j].at
    BY <1>5
  <2>3. QED  BY <1>6, <2>1, <2>2 DEF Colder
<1>8. QED  BY <1>6, <1>7 DEF Coldest

LEMMA ToArchiveIs ==
  ASSUME NEW ps \in PatternSeqs, ~Fits(ps)
  PROVE  ToArchive(ps) \in DOMAIN ps
<1>1. Len(ps) # 0
  BY PatternsAre DEF Fits
<1>2. Coldest(ps) \in DOMAIN ps /\ DOMAIN ps \subseteq Nat
  BY <1>1, ColdestIs, PatternsAre
<1>3. QED  BY <1>2, FirstIs DEF ToArchive

(* It is a function of the list: one that solves its equation for the      *)
(* lists up to a length is extended to the next, and two agree.            *)
Compacted(F, ps) ==
  IF Fits(ps) THEN [keep |-> ps, arch |-> <<>>]
  ELSE [keep |-> F[RemoveAt(ps, ToArchive(ps))].keep,
        arch |-> <<ps[ToArchive(ps)]>> \o F[RemoveAt(ps, ToArchive(ps))].arch]
Short(n) == {ps \in PatternSeqs : Len(ps) <= n}
Solves(F, n) == F = [ps \in Short(n) |-> Compacted(F, ps)]

LEMMA Rests ==
  ASSUME NEW ps \in PatternSeqs, ~Fits(ps)
  PROVE  /\ RemoveAt(ps, ToArchive(ps)) \in PatternSeqs
         /\ Len(ps) \in Nat /\ Len(RemoveAt(ps, ToArchive(ps))) \in Nat
         /\ Len(RemoveAt(ps, ToArchive(ps))) = Len(ps) - 1
  BY ToArchiveIs, Removed, PatternsAre

LEMMA Solvable == ASSUME NEW n \in Nat PROVE \E F : Solves(F, n)
<1> DEFINE Bad == {m \in Nat : ~ \E F : Solves(F, m)}
<1>1. SUFFICES ASSUME Bad # {} PROVE FALSE
  OBVIOUS
<1>2. PICK m \in Bad : \A k \in Bad : m <= k
  BY <1>1, LeastNatural
<1>3. m \in Nat /\ ~ \E F : Solves(F, m)
  OBVIOUS
<1>4. \E F : \A ps \in Short(m) : ~Fits(ps) =>
         LET r == RemoveAt(ps, ToArchive(ps)) IN r \in Short(m) /\ F[r] = Compacted(F, r)
  <2>1. CASE m = 0
    <3>1. \A ps \in Short(m) : Fits(ps)
      BY <2>1, PatternsAre DEF Short, Fits
    <3>2. QED  BY <3>1
  <2>2. CASE m # 0
    <3>1. m - 1 \in Nat /\ m - 1 \notin Bad
      BY <1>2, <1>3, <2>2
    <3>2. PICK F : Solves(F, m - 1)
      BY <3>1
    <3>3. ASSUME NEW ps \in Short(m), ~Fits(ps), NEW r, r = RemoveAt(ps, ToArchive(ps))
          PROVE  r \in Short(m) /\ F[r] = Compacted(F, r)
      <4>1. r \in Short(m) /\ r \in Short(m - 1)
        BY <1>3, <3>3, Rests DEF Short
      <4>2. F[r] = Compacted(F, r)
        BY <3>2, <4>1 DEF Solves
      <4>3. QED  BY <4>1, <4>2
    <3>4. QED  BY <3>3
  <2>3. QED  BY <2>1, <2>2
<1>5. PICK F : \A ps \in Short(m) : ~Fits(ps) =>
         LET r == RemoveAt(ps, ToArchive(ps)) IN r \in Short(m) /\ F[r] = Compacted(F, r)
  BY <1>4
<1> DEFINE G == [ps \in Short(m) |-> Compacted(F, ps)]
<1>6. ASSUME NEW ps \in Short(m) PROVE G[ps] = Compacted(G, ps)
  <2>1. CASE Fits(ps)
    BY <2>1 DEF Compacted
  <2>2. CASE ~Fits(ps)
    <3>1. G[RemoveAt(ps, ToArchive(ps))] = F[RemoveAt(ps, ToArchive(ps))]
      BY <1>5, <2>2
    <3> DEFINE g == G[RemoveAt(ps, ToArchive(ps))]
               f == F[RemoveAt(ps, ToArchive(ps))]
    <3>2. G[ps] = [keep |-> f.keep, arch |-> <<ps[ToArchive(ps)]>> \o f.arch]
      BY <2>2 DEF Compacted
    <3>3. Compacted(G, ps) = [keep |-> g.keep, arch |-> <<ps[ToArchive(ps)]>> \o g.arch]
      BY <2>2 DEF Compacted
    <3> HIDE DEF G
    <3>4. QED  BY <3>1, <3>2, <3>3
  <2>3. QED  BY <2>1, <2>2
<1>7. G = [ps \in Short(m) |-> Compacted(G, ps)]
  <2>1. G = [ps \in Short(m) |-> G[ps]]
    OBVIOUS
  <2> HIDE DEF G
  <2>2. QED  BY <1>6, <2>1
<1>8. QED  BY <1>3, <1>7 DEF Solves

LEMMA SolutionsAgree ==
  ASSUME NEW F, NEW G, NEW n \in Nat, NEW m \in Nat, Solves(F, n), Solves(G, m),
         NEW ps \in PatternSeqs, Len(ps) <= n, Len(ps) <= m
  PROVE  F[ps] = G[ps]
<1> DEFINE Bad == {k \in Nat : \E q \in PatternSeqs : Len(q) = k /\ Len(q) <= n /\ Len(q) <= m /\ F[q] # G[q]}
<1>1. SUFFICES ASSUME Bad # {} PROVE FALSE
  BY PatternsAre
<1>2. PICK k \in Bad : \A l \in Bad : k <= l
  BY <1>1, LeastNatural
<1>3. PICK q \in PatternSeqs : Len(q) = k /\ Len(q) <= n /\ Len(q) <= m /\ F[q] # G[q]
  BY <1>2
<1>4. q \in Short(n) /\ q \in Short(m)
  BY <1>3 DEF Short
<1>5. F[q] = Compacted(F, q) /\ G[q] = Compacted(G, q)
  BY <1>4 DEF Solves
<1>6. ~Fits(q)
  BY <1>3, <1>5 DEF Compacted
<1> DEFINE r == RemoveAt(q, ToArchive(q))
<1>7. r \in PatternSeqs /\ Len(r) \in Nat /\ Len(r) = Len(q) - 1 /\ Len(q) \in Nat
  BY <1>6, Rests
<1> HIDE DEF r
<1>8. F[r] = G[r]
  <2>1. Len(r) \notin Bad
    BY <1>2, <1>3, <1>7
  <2>2. Len(r) <= n /\ Len(r) <= m
    BY <1>3, <1>7
  <2>3. QED  BY <1>7, <2>1, <2>2
<1>9. F[q] = G[q]
  BY <1>5, <1>6, <1>8 DEF Compacted, r
<1>10. QED  BY <1>3, <1>9

LEMMA Fixpoint == \E F : F = [ps \in PatternSeqs |-> Compacted(F, ps)]
<1> DEFINE S(n) == CHOOSE F : Solves(F, n)
           T == [ps \in PatternSeqs |-> S(Len(ps))[ps]]
<1>1. ASSUME NEW n \in Nat PROVE Solves(S(n), n)
  BY Solvable
<1> HIDE DEF S
<1>2. ASSUME NEW ps \in PatternSeqs PROVE T[ps] = Compacted(T, ps)
  <2>1. Len(ps) \in Nat /\ ps \in Short(Len(ps)) /\ Solves(S(Len(ps)), Len(ps))
    BY <1>1, PatternsAre DEF Short
  <2>2. T[ps] = Compacted(S(Len(ps)), ps)
    BY <2>1 DEF Solves
  <2>3. CASE Fits(ps)
    BY <2>2, <2>3 DEF Compacted
  <2>4. CASE ~Fits(ps)
    <3> DEFINE r == RemoveAt(ps, ToArchive(ps))
    <3>1. r \in PatternSeqs /\ Len(r) \in Nat /\ Len(r) = Len(ps) - 1
      BY <2>4, Rests
    <3>2. Solves(S(Len(r)), Len(r))
      BY <1>1, <3>1
    <3>3. S(Len(ps))[r] = S(Len(r))[r]
      <4> HIDE DEF r
      <4>1. Len(r) <= Len(r) /\ Len(r) <= Len(ps)
        BY <2>1, <3>1
      <4>2. QED  BY <2>1, <3>1, <3>2, <4>1, SolutionsAgree
    <3>4. T[r] = S(Len(ps))[r]
      <4> HIDE DEF r
      <4>1. QED  BY <3>1, <3>3
    <3> DEFINE f == S(Len(ps))[r]
               t == T[r]
    <3>5. Compacted(S(Len(ps)), ps) = [keep |-> f.keep, arch |-> <<ps[ToArchive(ps)]>> \o f.arch]
      BY <2>4 DEF Compacted
    <3>6. Compacted(T, ps) = [keep |-> t.keep, arch |-> <<ps[ToArchive(ps)]>> \o t.arch]
      BY <2>4 DEF Compacted
    <3>7. f = t
      BY <3>4
    <3> HIDE DEF f, t, T
    <3>8. QED  BY <2>2, <3>5, <3>6, <3>7
  <2>5. QED  BY <2>3, <2>4
<1>3. T = [ps \in PatternSeqs |-> Compacted(T, ps)]
  <2>1. T = [ps \in PatternSeqs |-> T[ps]]
    OBVIOUS
  <2> HIDE DEF T
  <2>2. QED  BY <1>2, <2>1
<1>4. QED  BY <1>3

LEMMA CompactIs ==
  ASSUME NEW ps \in PatternSeqs
  PROVE  Compact[ps] = Compacted(Compact, ps)
<1> DEFINE Is(F) == F = [q \in PatternSeqs |-> Compacted(F, q)]
<1>1. Compact = CHOOSE F : Is(F)
  BY DEF Compact, Compacted
<1>2. \E F : Is(F)
  BY Fixpoint
<1>3. Is(Compact)
  <2> HIDE DEF Is
  <2>1. Is(CHOOSE F : Is(F))
    BY <1>2
  <2>2. QED  BY <1>1, <2>1
<1>4. QED  BY <1>3

(* What it returns fits the budget, and every pattern is in one list or    *)
(* the other.                                                              *)
PatternsIn(ps) == {ps[i] : i \in DOMAIN ps}
Splits(ps, done) ==
  /\ done.keep \in PatternSeqs /\ done.arch \in PatternSeqs /\ Fits(done.keep)
  /\ PatternsIn(ps) = PatternsIn(done.keep) \cup PatternsIn(done.arch)

LEMMA ProblemsIn == ASSUME NEW ps PROVE ProblemsOf(ps) = {x.problem : x \in PatternsIn(ps)}
  BY DEF ProblemsOf, PatternsIn

LEMMA OneMore ==
  ASSUME NEW p \in Patterns, NEW ps \in PatternSeqs
  PROVE  <<p>> \o ps \in PatternSeqs /\ PatternsIn(<<p>> \o ps) = {p} \cup PatternsIn(ps)
<1>1. Len(ps) \in Nat /\ DOMAIN ps = 1 .. Len(ps) /\ ps \in Seq(Patterns)
  BY PatternsAre, PatternsIs
<1>2. <<p>> \in Seq(Patterns) /\ Len(<<p>>) = 1 /\ <<p>>[1] = p
  OBVIOUS
<1> DEFINE a == <<p>>
           l == Len(ps)
<1> HIDE DEF a, l
<1>3. a \in Seq(Patterns) /\ Len(a) = 1 /\ a[1] = p
  BY <1>2 DEF a
<1>4. /\ a \o ps \in Seq(Patterns) /\ Len(a \o ps) = 1 + l
      /\ \A i \in 1 .. 1 + l : (a \o ps)[i] = IF i <= 1 THEN a[i] ELSE ps[i - 1]
  <2>1. /\ a \o ps \in Seq(Patterns) /\ Len(a \o ps) = Len(a) + Len(ps)
        /\ \A i \in 1 .. Len(a) + Len(ps) : (a \o ps)[i] = IF i <= Len(a) THEN a[i] ELSE ps[i - Len(a)]
    BY <1>1, <1>3, ConcatProperties
  <2>2. Len(a) = 1 /\ Len(ps) = l
    BY <1>3 DEF l
  <2>3. QED  BY <2>1, <2>2, Zenon
<1>5. DOMAIN (a \o ps) = 1 .. 1 + l
  BY <1>4, PatternsIs, PatternsAre
<1>6. l \in Nat /\ DOMAIN ps = 1 .. l
  BY <1>1 DEF l
<1>7. 1 \in DOMAIN (a \o ps) /\ (a \o ps)[1] = p
  BY <1>3, <1>4, <1>5, <1>6
<1>8. ASSUME NEW i \in DOMAIN ps PROVE i + 1 \in DOMAIN (a \o ps) /\ (a \o ps)[i + 1] = ps[i]
  <2>1. i + 1 \in 1 .. 1 + l /\ ~(i + 1 <= 1) /\ i + 1 - 1 = i
    BY <1>6
  <2>2. QED  BY <1>4, <1>5, <2>1
<1>9. ASSUME NEW i \in DOMAIN (a \o ps)
      PROVE  (a \o ps)[i] = p \/ \E j \in DOMAIN ps : (a \o ps)[i] = ps[j]
  <2>1. CASE i = 1
    BY <1>7, <2>1
  <2>2. CASE i # 1
    <3>1. i \in 1 .. 1 + l /\ ~(i <= 1) /\ i - 1 \in 1 .. l
      BY <1>5, <1>6, <2>2
    <3>2. QED  BY <1>4, <1>6, <3>1
  <2>3. QED  BY <2>1, <2>2
<1>10. PatternsIn(a \o ps) = {p} \cup PatternsIn(ps)
  <2> DEFINE c == a \o ps
  <2>1. /\ 1 \in DOMAIN c /\ c[1] = p
        /\ \A i \in DOMAIN ps : \E j \in DOMAIN c : c[j] = ps[i]
        /\ \A i \in DOMAIN c : c[i] = p \/ \E j \in DOMAIN ps : c[i] = ps[j]
    BY <1>7, <1>8, <1>9
  <2> HIDE DEF c
  <2>2. PatternsIn(c) \subseteq {p} \cup PatternsIn(ps)
    BY <2>1 DEF PatternsIn
  <2>3. {p} \cup PatternsIn(ps) \subseteq PatternsIn(c)
    BY <2>1 DEF PatternsIn
  <2>4. PatternsIn(c) = {p} \cup PatternsIn(ps)
    BY <2>2, <2>3
  <2>5. QED  BY <2>4 DEF c
<1>11. a \o ps \in PatternSeqs
  BY <1>4, PatternsIs
<1>12. QED  BY <1>10, <1>11 DEF a

LEMMA NoPatterns ==
  /\ <<>> \in PatternSeqs /\ Len(<<>>) = 0 /\ PatternsIn(<<>>) = {} /\ ProblemsOf(<<>>) = {} /\ Fits(<<>>)
<1>1. <<>> \in PatternSeqs /\ Len(<<>>) = 0 /\ DOMAIN <<>> = {}
  BY PatternsIs, EmptySeq
<1>2. QED  BY <1>1 DEF ProblemsOf, PatternsIn, Fits

(* What a list takes is a matter of its sizes; reading a list back from    *)
(* the text changes neither these nor what the patterns are about.         *)
Fitting(ns) == Len(ns) <= 1 \/ Tokens[ns] <= Budget

LEMMA SizesAre ==
  ASSUME NEW ps \in PatternSeqs
  PROVE  SizesOf(ps) \in Seq(Nat) /\ Len(SizesOf(ps)) = Len(ps) /\ (Fits(ps) => Fitting(SizesOf(ps)))
<1> DEFINE n == Len(ps)
           f == [i \in 1 .. n |-> ps[i].size]
<1>1. n \in Nat /\ DOMAIN ps = 1 .. n /\ \A i \in 1 .. n : ps[i].size \in Nat
  BY PatternsAre DEF Patterns
<1>2. f = SizesOf(ps)
  BY <1>1 DEF SizesOf
<1>3. f \in [1 .. n -> Nat] /\ DOMAIN f = 1 .. n
  BY <1>1
<1>4. f \in Seq(Nat) /\ Len(f) = n
  <2> HIDE DEF f
  <2>1. f \in Seq(Nat)
    <3>1. [1 .. n -> Nat] \subseteq Seq(Nat)
      BY <1>1, SeqDef
    <3>2. QED  BY <1>3, <3>1
  <2>2. DOMAIN f = 1 .. Len(f) /\ Len(f) \in Nat
    BY <2>1, LenProperties
  <2> HIDE DEF n
  <2>3. QED  BY <1>1, <1>3, <2>1, <2>2
<1> HIDE DEF f
<1>5. QED  BY <1>2, <1>4 DEF Fits, Fitting

LEMMA FromTextIs ==
  ASSUME NEW ps \in PatternSeqs
  PROVE  /\ FromText(ps) \in PatternSeqs /\ ProblemsOf(FromText(ps)) = ProblemsOf(ps)
         /\ Fits(ps) => Fits(FromText(ps))
         /\ \A i \in DOMAIN FromText(ps) : FromText(ps)[i].id = ParsedId(FromText(ps)[i].problem)
<1> DEFINE n == Len(ps)
           x(i) == [ps[i] EXCEPT !.id = ParsedId(ps[i].problem)]
           f == [i \in 1 .. n |-> x(i)]
<1>1. n \in Nat /\ DOMAIN ps = 1 .. n /\ \A i \in 1 .. n : ps[i] \in Patterns
  BY PatternsAre
<1>2. ASSUME NEW i \in 1 .. n
      PROVE  /\ x(i) \in Patterns /\ x(i).id = ParsedId(x(i).problem)
             /\ x(i).problem = ps[i].problem /\ x(i).size = ps[i].size
  BY <1>1 DEF Patterns, PatternIds, ParsedId
<1>3. f = FromText(ps)
  BY <1>1 DEF FromText
<1>4. f \in [1 .. n -> Patterns] /\ DOMAIN f = 1 .. n
  BY <1>2
<1>5. \A i \in 1 .. n : f[i].id = ParsedId(f[i].problem) /\ f[i].problem = ps[i].problem /\ f[i].size = ps[i].size
  BY <1>2
<1> HIDE DEF f, x
<1>6. f \in Seq(Patterns) /\ Len(f) = n
  <2>1. [1 .. n -> Patterns] \subseteq Seq(Patterns)
    BY <1>1, SeqDef
  <2>2. f \in Seq(Patterns)
    BY <1>4, <2>1
  <2>3. DOMAIN f = 1 .. Len(f) /\ Len(f) \in Nat
    BY <2>2, LenProperties
  <2> HIDE DEF n
  <2>4. QED  BY <1>1, <1>4, <2>2, <2>3
<1>7. SizesOf(f) = SizesOf(ps)
  BY <1>1, <1>4, <1>5 DEF SizesOf
<1>8. ProblemsOf(f) = ProblemsOf(ps)
  BY <1>1, <1>4, <1>5 DEF ProblemsOf
<1>9. Fits(ps) => Fits(f)
  BY <1>6, <1>7 DEF Fits
<1>10. QED  BY <1>3, <1>4, <1>5, <1>6, <1>8, <1>9, PatternsIs

LEMMA CompactSplits == ASSUME NEW ps \in PatternSeqs PROVE Splits(ps, Compact[ps])
<1> DEFINE Bad == {n \in Nat : \E q \in PatternSeqs : Len(q) = n /\ ~Splits(q, Compact[q])}
<1>1. SUFFICES ASSUME Bad # {} PROVE FALSE
  BY PatternsAre
<1>2. PICK n \in Bad : \A m \in Bad : n <= m
  BY <1>1, LeastNatural
<1>3. PICK q \in PatternSeqs : Len(q) = n /\ ~Splits(q, Compact[q])
  BY <1>2
<1>4. CASE Fits(q)
  <2>1. Compact[q] = [keep |-> q, arch |-> <<>>]
    BY <1>4, CompactIs DEF Compacted
  <2>2. QED  BY <1>3, <1>4, <2>1, NoPatterns DEF Splits
<1>5. CASE ~Fits(q)
  <2> DEFINE i == ToArchive(q)
             r == RemoveAt(q, i)
             rest == Compact[r]
  <2>1. Compact[q] = [keep |-> rest.keep, arch |-> <<q[i]>> \o rest.arch]
    BY <1>5, CompactIs DEF Compacted
  <2>2. r \in PatternSeqs /\ Len(r) \in Nat /\ Len(r) = Len(q) - 1 /\ Len(q) \in Nat
    BY <1>5, Rests
  <2>3. i \in DOMAIN q /\ q[i] \in Patterns
    BY <1>5, ToArchiveIs, PatternsAre
  <2>4. PatternsIn(q) = {q[i]} \cup PatternsIn(r)
    <3>1. /\ \A j \in DOMAIN q : j = i \/ \E k \in DOMAIN r : r[k] = q[j]
          /\ \A k \in DOMAIN r : \E j \in DOMAIN q : r[k] = q[j]
      BY <2>3, Removed
    <3> HIDE DEF r, i
    <3>2. PatternsIn(q) \subseteq {q[i]} \cup PatternsIn(r)
      BY <3>1 DEF PatternsIn
    <3>3. {q[i]} \cup PatternsIn(r) \subseteq PatternsIn(q)
      BY <2>3, <3>1 DEF PatternsIn
    <3>4. QED  BY <3>2, <3>3
  <2> HIDE DEF i, r
  <2>5. Splits(r, Compact[r])
    BY <1>2, <1>3, <2>2
  <2>6. /\ <<q[i]>> \o rest.arch \in PatternSeqs
        /\ PatternsIn(<<q[i]>> \o rest.arch) = {q[i]} \cup PatternsIn(rest.arch)
    BY <2>3, <2>5, OneMore DEF Splits
  <2>7. Compact[q].keep = rest.keep /\ Compact[q].arch = <<q[i]>> \o rest.arch
    <3> DEFINE arch == <<q[i]>> \o rest.arch
               keep == rest.keep
    <3> HIDE DEF arch, keep
    <3>1. Compact[q] = [keep |-> keep, arch |-> arch]
      BY <2>1 DEF arch, keep
    <3>2. QED  BY <3>1 DEF arch, keep
  <2>8. Splits(q, Compact[q])
    <3>1. PatternsIn(r) = PatternsIn(rest.keep) \cup PatternsIn(rest.arch)
      BY <2>5 DEF Splits
    <3>2. PatternsIn(q) = PatternsIn(Compact[q].keep) \cup PatternsIn(Compact[q].arch)
      BY <2>4, <2>6, <2>7, <3>1
    <3>3. QED  BY <2>5, <2>6, <2>7, <3>2 DEF Splits
  <2>9. QED  BY <1>3, <2>8
<1>6. QED  BY <1>4, <1>5

(* mergeMemoryPattern keeps every problem but the one it replaces on a     *)
(* hint, and its own; only what it replaced passes its id on.              *)
Displaced(ps, p, hints) == (IF Hit(ps, p, hints) = {} THEN {} ELSE {ps[FirstOf(Hit(ps, p, hints))].problem}) \ {p}
Stems(x, ps, new, hints) ==
  \/ x \in PatternsIn(ps)
  \/ x.problem = new.problem /\ x.id = new.id
  \/ /\ x.problem = new.problem
     /\ \E y \in PatternsIn(ps) : x.id = y.id /\ y.problem \in {new.problem} \cup Displaced(ps, new.problem, hints)

LEMMA Merged ==
  ASSUME NEW ps \in PatternSeqs, NEW new \in Patterns, NEW hints
  PROVE  /\ MergePattern(ps, new, hints) \in PatternSeqs
         /\ new.problem \in ProblemsOf(MergePattern(ps, new, hints))
         /\ ProblemsOf(ps) \subseteq ProblemsOf(MergePattern(ps, new, hints)) \cup Displaced(ps, new.problem, hints)
         /\ \A x \in PatternsIn(MergePattern(ps, new, hints)) : Stems(x, ps, new, hints)
<1> DEFINE p == new.problem
<1>1. /\ Len(ps) \in Nat /\ DOMAIN ps = 1 .. Len(ps) /\ ps \in Seq(Patterns)
      /\ \A i \in DOMAIN ps : ps[i] \in Patterns
  BY PatternsAre, PatternsIs
<1>2. CASE Hit(ps, p, hints) = {}
  <2> DEFINE m == Append(ps, new)
  <2>1. MergePattern(ps, new, hints) = m
    BY <1>2 DEF MergePattern
  <2>2. /\ m \in Seq(Patterns) /\ Len(m) = Len(ps) + 1 /\ m[Len(ps) + 1] = new
        /\ \A i \in 1 .. Len(ps) : m[i] = ps[i]
    BY <1>1, AppendProperties
  <2>3. DOMAIN m = 1 .. Len(m)
    BY <2>2, PatternsIs, PatternsAre
  <2> HIDE DEF m
  <2>4. \A i \in DOMAIN ps : i \in DOMAIN m /\ m[i] = ps[i]
    BY <1>1, <2>2, <2>3
  <2>5. Len(ps) + 1 \in DOMAIN m
    BY <1>1, <2>2, <2>3
  <2>6. ASSUME NEW i \in DOMAIN m PROVE m[i] = new \/ i \in DOMAIN ps
    BY <1>1, <2>2, <2>3, <2>6
  <2>7. p \in ProblemsOf(m) /\ ProblemsOf(ps) \subseteq ProblemsOf(m)
    BY <2>2, <2>4, <2>5 DEF ProblemsOf
  <2>8. \A x \in PatternsIn(m) : x = new \/ x \in PatternsIn(ps)
    BY <2>4, <2>6 DEF PatternsIn
  <2>9. m \in PatternSeqs
    BY <2>2, PatternsIs
  <2>10. QED  BY <2>1, <2>7, <2>8, <2>9 DEF Stems
<1>3. CASE Hit(ps, p, hints) # {}
  <2> DEFINE i == FirstOf(Hit(ps, p, hints))
             x == [new EXCEPT !.id = ps[i].id, !.uses = ps[i].uses + 1]
             m == [ps EXCEPT ![i] = x]
  <2>1. i \in DOMAIN ps
    <3>1. Hit(ps, p, hints) \subseteq Nat /\ Hit(ps, p, hints) \subseteq DOMAIN ps
      BY <1>1 DEF Hit
    <3>2. QED  BY <1>3, <3>1, FirstIs
  <2>2. Displaced(ps, p, hints) = {ps[i].problem} \ {p}
    BY <1>3 DEF Displaced
  <2>3. MergePattern(ps, new, hints) = m
    BY <1>3 DEF MergePattern, Replaced
  <2> HIDE DEF i
  <2>4. x \in Patterns /\ x.problem = p /\ x.id = ps[i].id
    <3> DEFINE id == ps[i].id
               uses == ps[i].uses
    <3>1. ps[i] \in Patterns
      BY <1>1, <2>1
    <3>2. id \in PatternIds /\ uses \in Nat
      BY <3>1 DEF Patterns
    <3> HIDE DEF id, uses
    <3>3. uses + 1 \in Nat
      BY <3>2
    <3> DEFINE y == [new EXCEPT !.id = id, !.uses = uses + 1]
    <3>4. y \in Patterns /\ y.problem = p /\ y.id = id
      BY <3>2, <3>3 DEF Patterns
    <3>5. QED  BY <3>4 DEF id, uses
  <2> HIDE DEF x
  <2>5. m \in Seq(Patterns)
    BY <1>1, <2>1, <2>4, ExceptSeq
  <2>6. DOMAIN m = DOMAIN ps /\ m[i] = x /\ \A j \in DOMAIN ps : j # i => m[j] = ps[j]
    BY <1>1, <2>1
  <2> HIDE DEF m
  <2>7. \A j \in DOMAIN ps : ps[j].problem \in ProblemsOf(m) \cup {ps[i].problem}
    BY <2>6 DEF ProblemsOf
  <2>8. p \in ProblemsOf(m)
    BY <2>1, <2>4, <2>6 DEF ProblemsOf
  <2>9. ProblemsOf(ps) \subseteq ProblemsOf(m) \cup {ps[i].problem}
    BY <2>7 DEF ProblemsOf
  <2>10. \A y \in PatternsIn(m) : y = x \/ y \in PatternsIn(ps)
    BY <2>6 DEF PatternsIn
  <2>11. ps[i] \in PatternsIn(ps) /\ ps[i].problem \in {p} \cup Displaced(ps, p, hints)
    BY <2>1, <2>2 DEF PatternsIn
  <2>12. Stems(x, ps, new, hints)
    BY <2>4, <2>11 DEF Stems
  <2>13. \A y \in PatternsIn(m) : Stems(y, ps, new, hints)
    BY <2>10, <2>12 DEF Stems
  <2>14. QED  BY <2>2, <2>3, <2>5, <2>8, <2>9, <2>13, PatternsIs
<1>4. QED  BY <1>2, <1>3

(* The memory.  What a save has merged it still carries until it is in the *)
(* files; the memory is what the save keeps before any archive is written, *)
(* and the newest archive is the save's while the index waits for it.  An  *)
(* id made of one problem stands for another only where a hint put it.     *)
SavePcs == {"idle", "md", "text", "archive", "index"}
Saving == [pc : SavePcs, keep : PatternSeqs, arch : PatternSeqs, problem : Problems \cup {"none"}]
Archives == Seq(Seq(Problems))
Snapshots == [pc : {"none", "text", "pinned"}, patterns : Seq(Nat), text : Seq(Nat)]
Holds(file, ps) == \A i \in DOMAIN ps : ps[i].problem \in ToSet(file)
Owns(x) == x.id[1] = x.problem \/ {x.id[1], x.problem} \subseteq hinted

ListsTyped ==
  /\ md \in PatternSeqs /\ Fits(md)
  /\ saving \in Saving /\ Fits(saving.keep)
  /\ saving.pc # "idle" => saving.problem \in Problems
  /\ archive \in Archives /\ saves \in Nat /\ known \subseteq Problems
SnapshotTyped == snap \in Snapshots /\ Fitting(snap.text) /\ Fitting(snap.patterns)
IndexTyped == \A r \in index : r.problem \in Problems /\ r.file \in 1 .. Len(archive)
IdsOwned ==
  /\ \A i \in DOMAIN md : md[i].id = ParsedId(md[i].problem)
  /\ \A x \in PatternsIn(saving.arch) : Owns(x)
  /\ \A r \in index : Owns(r)
SaveCarries == whole /\ saving.pc # "idle" =>
  LET carried == ProblemsOf(saving.keep) \cup ProblemsOf(saving.arch)
  IN /\ known \cup {saving.problem} \subseteq carried \cup InArchives \cup dropped
     /\ known \cup {saving.problem} \subseteq carried \cup Archived \cup hinted
TextIsKept ==
  /\ PatternsKept
  /\ saving.pc \in {"archive", "index"} => md = FromText(saving.keep)
ArchiveIsSaves == saving.pc = "index" /\ saving.arch # <<>> =>
  Len(archive) # 0 /\ Holds(archive[Len(archive)], saving.arch)
MemoryInv ==
  /\ ListsTyped /\ SnapshotTyped /\ IndexTyped /\ IndexResolves /\ IdsOwned
  /\ SaveCarries /\ TextIsKept /\ ArchiveIsSaves

LEMMA NoSaveIs ==
  NoSave \in Saving /\ NoSave.pc = "idle" /\ Fits(NoSave.keep) /\ PatternsIn(NoSave.arch) = {}
<1> DEFINE e == <<>>
<1>1. e \in PatternSeqs /\ Fits(e) /\ PatternsIn(e) = {}
  BY NoPatterns
<1> HIDE DEF e
<1>2. [pc |-> "idle", keep |-> e, arch |-> e, problem |-> "none"] \in Saving
  BY <1>1 DEF Saving, SavePcs
<1>3. NoSave = [pc |-> "idle", keep |-> e, arch |-> e, problem |-> "none"]
  BY DEF NoSave, e
<1>4. NoSave.pc = "idle" /\ NoSave.keep = e /\ NoSave.arch = e
  BY <1>3
<1>5. QED  BY <1>1, <1>2, <1>3, <1>4

LEMMA MemoryInitially == MemoryInit => MemoryInv
<1> SUFFICES ASSUME MemoryInit PROVE MemoryInv
  OBVIOUS
<1>1. /\ archive = <<>> /\ index = {} /\ saving = NoSave /\ saves = 0 /\ known = {}
      /\ md = <<>> /\ snap = [pc |-> "none", patterns |-> <<>>, text |-> <<>>]
  BY DEF MemoryInit
<1>2. md \in PatternSeqs /\ Fits(md) /\ PatternsIn(md) = {}
  BY <1>1, NoPatterns
<1>3. archive \in Archives
  BY <1>1, EmptySeq DEF Archives
<1>4. saving \in Saving /\ Fits(saving.keep) /\ saving.pc = "idle" /\ PatternsIn(saving.arch) = {}
  BY <1>1, NoSaveIs
<1>5. ListsTyped
  BY <1>1, <1>2, <1>3, <1>4 DEF ListsTyped
<1>6. SnapshotTyped
  <2> DEFINE e == <<>>
  <2>1. e \in Seq(Nat) /\ Fitting(e) /\ snap = [pc |-> "none", patterns |-> e, text |-> e]
    BY <1>1, EmptySeq DEF Fitting
  <2> HIDE DEF e
  <2>2. snap \in Snapshots /\ snap.text = e /\ snap.patterns = e
    BY <2>1 DEF Snapshots
  <2>3. QED  BY <2>1, <2>2 DEF SnapshotTyped
<1>7. IdsOwned
  <2>1. \A i \in DOMAIN md : md[i] \in PatternsIn(md)
    BY DEF PatternsIn
  <2>2. QED  BY <1>1, <1>2, <1>4, <2>1 DEF IdsOwned
<1>8. QED  BY <1>1, <1>4, <1>5, <1>6, <1>7 DEF MemoryInv, IndexTyped, IndexResolves, SaveCarries, TextIsKept, PatternsKept,
                                               ArchiveIsSaves

LEMMA SavePatternKeeps ==
  ASSUME MemoryInv, NEW p \in Problems, NEW size \in Sizes, NEW hints, SavePattern(p, size, hints)
  PROVE  MemoryInv'
<1> DEFINE new == MemoryPattern(p, size)
           m == MergePattern(md, new, hints)
           done == Compact[m]
           gone == Displaced(md, p, hints)
<1>1. /\ saving.pc = "idle" /\ saves' = saves + 1
      /\ saving' = [pc |-> "md", keep |-> done.keep, arch |-> done.arch, problem |-> p]
      /\ dropped' = (dropped \ {p}) \cup gone
      /\ hinted' = hinted \cup (IF gone = {} THEN {} ELSE gone \cup {p})
      /\ UNCHANGED <<md, archive, index, snap, known, whole>>
  BY DEF SavePattern, Displaced
<1>2. md \in PatternSeqs /\ saves \in Nat /\ size \in Nat
  BY MemoryAssumption DEF MemoryInv, ListsTyped
<1>3. new \in Patterns /\ new.problem = p /\ new.id = <<p, saves + 1>>
  BY <1>2 DEF MemoryPattern, FreshId, Patterns, PatternIds
<1>4. new.id[1] = p
  BY <1>3
<1> HIDE DEF new
<1>5. /\ m \in PatternSeqs /\ p \in ProblemsOf(m) /\ ProblemsOf(md) \subseteq ProblemsOf(m) \cup gone
      /\ \A x \in PatternsIn(m) : Stems(x, md, new, hints)
  BY <1>2, <1>3, Merged
<1> HIDE DEF m
<1>6. Splits(m, done)
  BY <1>5, CompactSplits
<1> DEFINE k == done.keep
           a == done.arch
<1>7. /\ k \in PatternSeqs /\ a \in PatternSeqs /\ Fits(k)
      /\ PatternsIn(m) = PatternsIn(k) \cup PatternsIn(a)
  BY <1>6 DEF Splits
<1>8. saving' = [pc |-> "md", keep |-> k, arch |-> a, problem |-> p]
  BY <1>1
<1> HIDE DEF k, a, done
<1>9. ProblemsOf(m) \subseteq ProblemsOf(k) \cup ProblemsOf(a)
  BY <1>7, ProblemsIn
<1>10. /\ saving' \in Saving /\ saving'.pc = "md" /\ saving'.keep = k /\ saving'.arch = a /\ saving'.problem = p
  BY <1>7, <1>8 DEF Saving, SavePcs
<1>11. ListsTyped'
  <2>1. Fits(md)' /\ Fits(saving'.keep) /\ saves' \in Nat
    BY <1>1, <1>2, <1>7, <1>10 DEF MemoryInv, ListsTyped, Fits
  <2>2. QED  BY <1>1, <1>10, <2>1 DEF MemoryInv, ListsTyped
<1>12. Archived' = Archived /\ InArchives' = InArchives
  BY <1>1 DEF Archived, InArchives
<1>13. SaveCarries'
  <2>1. whole => /\ known \subseteq ProblemsOf(md) \cup InArchives \cup dropped
                 /\ known \subseteq ProblemsOf(md) \cup Archived \cup hinted
    BY <1>1 DEF MemoryInv, TextIsKept, PatternsKept
  <2> DEFINE carried == ProblemsOf(k) \cup ProblemsOf(a)
  <2>2. p \in carried /\ ProblemsOf(md) \subseteq carried \cup gone
    BY <1>5, <1>9
  <2> HIDE DEF carried
  <2>3. gone \subseteq dropped' /\ dropped \subseteq dropped' \cup {p} /\ gone \subseteq hinted' /\ hinted \subseteq hinted'
    BY <1>1
  <2> HIDE DEF gone
  <2>4. whole => /\ known \cup {p} \subseteq carried \cup InArchives \cup dropped'
                 /\ known \cup {p} \subseteq carried \cup Archived \cup hinted'
    BY <2>1, <2>2, <2>3
  <2>5. QED  BY <1>1, <1>10, <1>12, <2>4 DEF SaveCarries, carried
<1>14. TextIsKept'
  BY <1>10 DEF TextIsKept, PatternsKept
<1>15. IdsOwned'
  <2>1. hinted \subseteq hinted' /\ (gone # {} => gone \cup {p} \subseteq hinted')
    BY <1>1
  <2>2. ASSUME NEW x \in PatternsIn(m) PROVE Owns(x)'
    <3> HIDE DEF gone
    <3>1. \A y \in PatternsIn(md) : y.id[1] = y.problem
      BY DEF MemoryInv, IdsOwned, PatternsIn, ParsedId
    <3>2. CASE x \in PatternsIn(md)
      BY <3>1, <3>2 DEF Owns
    <3>3. CASE x.problem = new.problem /\ x.id = new.id
      BY <1>3, <1>4, <3>3 DEF Owns
    <3>4. CASE /\ x.problem = new.problem
               /\ \E y \in PatternsIn(md) : x.id = y.id /\ y.problem \in {new.problem} \cup gone
      <4>1. x.problem = p /\ x.id[1] \in {p} \cup gone
        BY <1>3, <3>1, <3>4
      <4>2. QED  BY <2>1, <4>1 DEF Owns
    <3>5. QED  BY <1>3, <1>5, <3>2, <3>3, <3>4 DEF Stems, gone
  <2>3. \A r \in index : Owns(r)'
    BY <2>1 DEF MemoryInv, IdsOwned, Owns
  <2>4. \A i \in DOMAIN md : md[i].id = ParsedId(md[i].problem)
    BY DEF MemoryInv, IdsOwned
  <2>5. \A x \in PatternsIn(saving'.arch) : Owns(x)'
    BY <1>7, <1>10, <2>2
  <2>6. QED  BY <1>1, <2>3, <2>4, <2>5 DEF IdsOwned, PatternsIn, ParsedId
<1>16. SnapshotTyped' /\ IndexTyped' /\ IndexResolves' /\ ArchiveIsSaves'
  BY <1>1, <1>10 DEF MemoryInv, SnapshotTyped, Fitting, IndexTyped, IndexResolves, ArchiveIsSaves
<1>17. QED  BY <1>11, <1>13, <1>14, <1>15, <1>16 DEF MemoryInv

(* A step of persist goes on with the same save.                           *)
LEMMA SaveGoesOn ==
  ASSUME ListsTyped, saving.pc # "idle", NEW pc \in SavePcs \ {"idle"}, saving' = [saving EXCEPT !.pc = pc]
  PROVE  /\ saving' \in Saving /\ saving'.pc = pc /\ saving'.keep = saving.keep /\ saving'.arch = saving.arch
         /\ saving'.problem = saving.problem /\ saving.problem \in Problems /\ Fits(saving.keep)
         /\ saving.keep \in PatternSeqs /\ saving.arch \in PatternSeqs
  BY DEF ListsTyped, Saving

(* Parts that a step leaves alone when it leaves their variables alone.    *)
LEMMA ArchivesStay ==
  ASSUME MemoryInv, UNCHANGED <<archive, index, hinted, dropped>>
  PROVE  IndexTyped' /\ IndexResolves' /\ Archived' = Archived /\ InArchives' = InArchives
  BY DEF MemoryInv, IndexTyped, IndexResolves, Archived, InArchives

LEMMA SnapshotStays == ASSUME MemoryInv, UNCHANGED snap PROVE SnapshotTyped'
  BY DEF MemoryInv, SnapshotTyped, Fitting

LEMMA IdsStay ==
  ASSUME MemoryInv, UNCHANGED <<index, hinted>>, saving'.arch = saving.arch \/ PatternsIn(saving'.arch) = {},
         \A i \in DOMAIN md' : md'[i].id = ParsedId(md'[i].problem)
  PROVE  IdsOwned'
<1>1. \A x \in PatternsIn(saving'.arch) : Owns(x)
  BY DEF MemoryInv, IdsOwned
<1>2. QED  BY <1>1 DEF MemoryInv, IdsOwned, Owns, PatternsIn, ParsedId

LEMMA TruncateKeeps == ASSUME MemoryInv, TruncateText PROVE MemoryInv'
<1>1. /\ saving.pc = "md" /\ saving' = [saving EXCEPT !.pc = "text"] /\ md' = <<>>
      /\ UNCHANGED <<archive, index, saves, snap, known, dropped, hinted, whole>>
  BY DEF TruncateText
<1>2. "text" \in SavePcs \ {"idle"} /\ ListsTyped
  BY DEF SavePcs, MemoryInv
<1>3. /\ saving' \in Saving /\ saving'.pc = "text" /\ saving'.keep = saving.keep /\ saving'.arch = saving.arch
      /\ saving'.problem = saving.problem /\ saving.problem \in Problems /\ Fits(saving.keep)
  BY <1>1, <1>2, SaveGoesOn
<1>4. md' \in PatternSeqs /\ Fits(md)' /\ DOMAIN md' = {}
  BY <1>1, NoPatterns DEF Fits
<1>5. ListsTyped'
  <2>1. Fits(saving'.keep)
    BY <1>3
  <2>2. QED  BY <1>1, <1>2, <1>3, <1>4, <2>1 DEF ListsTyped, Fits
<1>6. IndexTyped' /\ IndexResolves' /\ Archived' = Archived /\ InArchives' = InArchives /\ SnapshotTyped' /\ IdsOwned'
  BY <1>1, <1>3, <1>4, ArchivesStay, SnapshotStays, IdsStay
<1>7. SaveCarries' /\ TextIsKept' /\ ArchiveIsSaves'
  BY <1>1, <1>3, <1>6 DEF MemoryInv, SaveCarries, TextIsKept, PatternsKept, ArchiveIsSaves, ProblemsOf
<1>8. QED  BY <1>5, <1>6, <1>7 DEF MemoryInv

LEMMA WriteTextKeeps == ASSUME MemoryInv, WriteText PROVE MemoryInv'
<1> DEFINE pc == IF saving.arch = <<>> THEN "index" ELSE "archive"
<1>1. /\ saving.pc = "text" /\ saving' = [saving EXCEPT !.pc = pc] /\ md' = FromText(saving.keep)
      /\ UNCHANGED <<archive, index, saves, snap, known, dropped, hinted, whole>>
  BY DEF WriteText
<1>2. pc \in SavePcs \ {"idle"} /\ ListsTyped
  BY DEF SavePcs, MemoryInv
<1>3. pc = "index" => saving.arch = <<>>
  OBVIOUS
<1>4. pc \in {"archive", "index"}
  OBVIOUS
<1> HIDE DEF pc
<1>5. /\ saving' \in Saving /\ saving'.pc = pc /\ saving'.keep = saving.keep /\ saving'.arch = saving.arch
      /\ saving'.problem = saving.problem /\ saving.problem \in Problems /\ Fits(saving.keep)
      /\ saving.keep \in PatternSeqs
  BY <1>1, <1>2, SaveGoesOn
<1>6. /\ md' \in PatternSeqs /\ Fits(md)'
      /\ \A i \in DOMAIN md' : md'[i].id = ParsedId(md'[i].problem)
  <2>1. Fits(FromText(saving.keep))
    BY <1>5, FromTextIs
  <2>2. QED  BY <1>1, <1>5, <2>1, FromTextIs DEF Fits
<1>7. ListsTyped'
  BY <1>1, <1>2, <1>5, <1>6 DEF ListsTyped, Fits
<1>8. IndexTyped' /\ IndexResolves' /\ Archived' = Archived /\ InArchives' = InArchives /\ SnapshotTyped' /\ IdsOwned'
  BY <1>1, <1>5, <1>6, ArchivesStay, SnapshotStays, IdsStay
<1>9. TextIsKept' /\ ArchiveIsSaves'
  <2>1. FromText(saving.keep)' = FromText(saving.keep)
    BY <1>5 DEF FromText, ParsedId
  <2>2. QED  BY <1>1, <1>3, <1>4, <1>5, <2>1 DEF TextIsKept, PatternsKept, ArchiveIsSaves
<1>10. SaveCarries'
  BY <1>1, <1>5, <1>8 DEF MemoryInv, SaveCarries, ProblemsOf
<1>11. QED  BY <1>7, <1>8, <1>9, <1>10 DEF MemoryInv

LEMMA Appended ==
  ASSUME archive \in Archives, NEW file \in Seq(Problems)
  PROVE  /\ Append(archive, file) \in Archives /\ Len(Append(archive, file)) = Len(archive) + 1
         /\ Len(archive) \in Nat /\ Append(archive, file)[Len(archive) + 1] = file
         /\ \A i \in 1 .. Len(archive) : Append(archive, file)[i] = archive[i]
<1> DEFINE S == Seq(Problems)
<1>1. archive \in Seq(S) /\ file \in S
  BY DEF Archives
<1> HIDE DEF S
<1>2. /\ Append(archive, file) \in Seq(S) /\ Len(Append(archive, file)) = Len(archive) + 1
      /\ Append(archive, file)[Len(archive) + 1] = file
      /\ \A i \in 1 .. Len(archive) : Append(archive, file)[i] = archive[i]
  BY <1>1, AppendProperties
<1>3. Len(archive) \in Nat
  BY <1>1, LenProperties
<1>4. QED  BY <1>2, <1>3 DEF Archives, S

LEMMA ArchivesAre == ASSUME NEW as \in Archives PROVE Len(as) \in Nat /\ DOMAIN as = 1 .. Len(as)
<1> DEFINE S == Seq(Problems)
<1>1. as \in Seq(S)
  BY DEF Archives
<1> HIDE DEF S
<1>2. QED  BY <1>1, LenProperties

LEMMA WriteArchiveKeeps == ASSUME MemoryInv, WriteArchive PROVE MemoryInv'
<1> DEFINE file == [i \in DOMAIN saving.arch |-> saving.arch[i].problem]
<1>1. /\ saving.pc = "archive" /\ saving' = [saving EXCEPT !.pc = "index"] /\ archive' = Append(archive, file)
      /\ UNCHANGED <<md, index, saves, snap, known, dropped, hinted, whole>>
  BY DEF WriteArchive
<1>2. "index" \in SavePcs \ {"idle"} /\ ListsTyped
  BY DEF SavePcs, MemoryInv
<1>3. /\ saving' \in Saving /\ saving'.pc = "index" /\ saving'.keep = saving.keep /\ saving'.arch = saving.arch
      /\ saving'.problem = saving.problem /\ saving.problem \in Problems /\ Fits(saving.keep)
      /\ saving.arch \in PatternSeqs
  BY <1>1, <1>2, SaveGoesOn
<1>4. file \in Seq(Problems) /\ Holds(file, saving.arch)
  <2> DEFINE ps == saving.arch
  <2>1. ps \in PatternSeqs
    BY <1>3
  <2> HIDE DEF ps
  <2>2. Len(ps) \in Nat /\ DOMAIN ps = 1 .. Len(ps) /\ \A i \in DOMAIN ps : ps[i].problem \in Problems
    BY <2>1, PatternsAre DEF Patterns
  <2> DEFINE f == [i \in DOMAIN ps |-> ps[i].problem]
             n == Len(ps)
  <2>3. f \in [1 .. n -> Problems] /\ n \in Nat
    BY <2>2
  <2>4. f \in Seq(Problems)
    <3> HIDE DEF f, n
    <3>1. [1 .. n -> Problems] \subseteq Seq(Problems)
      BY <2>3, SeqDef
    <3>2. QED  BY <2>3, <3>1
  <2>5. Holds(f, ps)
    BY DEF Holds, ToSet
  <2>6. QED  BY <2>4, <2>5 DEF ps
<1> HIDE DEF file
<1>5. /\ archive' \in Archives /\ Len(archive') = Len(archive) + 1 /\ Len(archive) \in Nat
      /\ archive'[Len(archive) + 1] = file /\ \A i \in 1 .. Len(archive) : archive'[i] = archive[i]
  BY <1>1, <1>2, <1>4, Appended DEF ListsTyped
<1>6. ListsTyped'
  BY <1>1, <1>2, <1>3, <1>5 DEF ListsTyped, Fits
<1>7. Archived' = Archived
  BY <1>1 DEF Archived
<1>8. IndexTyped'
  BY <1>1, <1>5 DEF MemoryInv, IndexTyped
<1>9. IndexResolves'
  BY <1>1, <1>5 DEF MemoryInv, IndexTyped, IndexResolves
<1>10. ArchiveIsSaves'
  BY <1>3, <1>4, <1>5 DEF ArchiveIsSaves
<1>11. InArchives \subseteq InArchives'
  <2>1. DOMAIN archive = 1 .. Len(archive) /\ DOMAIN archive' = 1 .. Len(archive')
    BY <1>2, <1>5, ArchivesAre DEF ListsTyped
  <2>2. \A f \in DOMAIN archive : f \in DOMAIN archive' /\ archive'[f] = archive[f]
    BY <1>5, <2>1
  <2>3. QED  BY <2>2 DEF InArchives
<1>12. SaveCarries'
  BY <1>1, <1>3, <1>7, <1>11 DEF MemoryInv, SaveCarries, ProblemsOf
<1>13. TextIsKept'
  <2>1. FromText(saving.keep)' = FromText(saving.keep) /\ md = FromText(saving.keep)
    BY <1>1, <1>3 DEF FromText, ParsedId, MemoryInv, TextIsKept
  <2>2. QED  BY <1>1, <1>3, <2>1 DEF TextIsKept, PatternsKept
<1>14. SnapshotTyped' /\ IdsOwned'
  <2>1. \A i \in DOMAIN md' : md'[i].id = ParsedId(md'[i].problem)
    BY <1>1 DEF MemoryInv, IdsOwned
  <2>2. QED  BY <1>1, <1>3, <2>1, SnapshotStays, IdsStay
<1>15. QED  BY <1>6, <1>8, <1>9, <1>10, <1>12, <1>13, <1>14 DEF MemoryInv

LEMMA WriteIndexKeeps == ASSUME MemoryInv, WriteIndex PROVE MemoryInv'
<1>1. /\ saving.pc = "index" /\ index' = index \cup NewRefs /\ known' = known \cup {saving.problem} /\ saving' = NoSave
      /\ UNCHANGED <<md, archive, saves, snap, dropped, hinted, whole>>
  BY DEF WriteIndex
<1>2. ListsTyped /\ saving.arch \in PatternSeqs /\ saving.keep \in PatternSeqs /\ saving.problem \in Problems
  BY <1>1 DEF MemoryInv, ListsTyped, Saving
<1>3. saving' \in Saving /\ saving'.pc = "idle" /\ Fits(saving'.keep) /\ PatternsIn(saving'.arch) = {}
  BY <1>1, NoSaveIs
<1>4. ListsTyped'
  BY <1>1, <1>2, <1>3 DEF ListsTyped, Fits
<1> DEFINE ps == saving.arch
           last == Len(archive)
<1>5. \A i \in DOMAIN ps : ps[i].problem \in Problems
  BY <1>2, PatternsAre DEF Patterns
<1>6. \A r \in NewRefs : /\ r.file = last
                         /\ \E i \in DOMAIN ps : r.problem = ps[i].problem /\ r.id = ps[i].id
  BY DEF NewRefs, MemoryArchiveRef
<1>7. DOMAIN ps # {} => last # 0 /\ Holds(archive[last], ps)
  <2>1. ps = <<>> => DOMAIN ps = {}
    OBVIOUS
  <2>2. QED  BY <1>1, <2>1 DEF MemoryInv, ArchiveIsSaves
<1>8. last \in Nat /\ DOMAIN archive = 1 .. last
  BY <1>2, ArchivesAre DEF ListsTyped
<1> HIDE DEF ps, last
<1>9. \A r \in NewRefs : r.problem \in Problems /\ r.file \in 1 .. last
  BY <1>5, <1>6, <1>7, <1>8
<1>10. IndexTyped'
  BY <1>1, <1>9 DEF MemoryInv, IndexTyped, last
<1>11. \A r \in NewRefs : r.problem \in ToSet(archive[r.file])
  BY <1>6, <1>7 DEF Holds
<1>12. IndexResolves'
  BY <1>1, <1>11 DEF MemoryInv, IndexResolves
<1>13. \A i \in DOMAIN ps : Owns(ps[i])
  BY DEF MemoryInv, IdsOwned, PatternsIn, ps
<1>14. ProblemsOf(ps) \subseteq Archived' \cup hinted
  <2> SUFFICES ASSUME NEW i \in DOMAIN ps PROVE ps[i].problem \in Archived' \cup hinted
    BY DEF ProblemsOf
  <2>1. CASE \E r \in index : r.id = ps[i].id
    <3>1. PICK r \in index : r.id = ps[i].id
      BY <2>1
    <3>2. Owns(r) /\ Owns(ps[i])
      BY <1>13 DEF MemoryInv, IdsOwned
    <3>3. r.problem = ps[i].problem \/ ps[i].problem \in hinted
      BY <3>1, <3>2 DEF Owns
    <3>4. r.problem \in Archived'
      BY <1>1 DEF Archived
    <3>5. QED  BY <3>3, <3>4
  <2>2. CASE \A r \in index : r.id # ps[i].id
    <3> DEFINE ref == MemoryArchiveRef(ps[i], last)
    <3>1. NewRefs = {MemoryArchiveRef(ps[j], last) :
                       j \in {k \in DOMAIN ps : \A r \in index : r.id # ps[k].id}}
      BY DEF NewRefs, ps, last
    <3>2. ref \in NewRefs
      BY <2>2, <3>1
    <3>3. ref \in index' /\ ref.problem = ps[i].problem
      BY <1>1, <3>2 DEF MemoryArchiveRef
    <3> HIDE DEF ref
    <3>4. QED  BY <3>3 DEF Archived
  <2>3. QED  BY <2>1, <2>2
<1>15. ProblemsOf(ps) \subseteq InArchives
  <2> SUFFICES ASSUME NEW i \in DOMAIN ps PROVE ps[i].problem \in InArchives
    BY DEF ProblemsOf
  <2>1. last \in DOMAIN archive /\ ps[i].problem \in ToSet(archive[last])
    BY <1>7, <1>8 DEF Holds
  <2>2. QED  BY <2>1 DEF InArchives
<1>16. Archived \subseteq Archived' /\ InArchives' = InArchives
  BY <1>1 DEF Archived, InArchives
<1>17. whole => /\ known' \subseteq ProblemsOf(md) \cup InArchives \cup dropped
                /\ known' \subseteq ProblemsOf(md) \cup Archived' \cup hinted
  <2>1. whole => /\ known' \subseteq ProblemsOf(saving.keep) \cup ProblemsOf(ps) \cup InArchives \cup dropped
                 /\ known' \subseteq ProblemsOf(saving.keep) \cup ProblemsOf(ps) \cup Archived \cup hinted
    BY <1>1 DEF MemoryInv, SaveCarries, ps
  <2>2. ProblemsOf(md) = ProblemsOf(saving.keep)
    BY <1>1, <1>2, FromTextIs DEF MemoryInv, TextIsKept
  <2>3. QED  BY <1>14, <1>15, <1>16, <2>1, <2>2
<1>18. TextIsKept' /\ SaveCarries' /\ ArchiveIsSaves'
  <2>1. PatternsKept'
    BY <1>1, <1>16, <1>17 DEF PatternsKept, ProblemsOf
  <2>2. QED  BY <1>3, <2>1 DEF TextIsKept, SaveCarries, ArchiveIsSaves
<1>19. IdsOwned'
  <2>1. \A r \in NewRefs : Owns(r)
    BY <1>6, <1>13 DEF Owns
  <2>2. \A r \in index' : Owns(r)
    BY <1>1, <2>1 DEF MemoryInv, IdsOwned
  <2>3. \A i \in DOMAIN md : md[i].id = ParsedId(md[i].problem)
    BY DEF MemoryInv, IdsOwned
  <2>4. QED  BY <1>1, <1>3, <2>2, <2>3 DEF IdsOwned, Owns, ParsedId, PatternsIn
<1>20. SnapshotTyped'
  BY <1>1, SnapshotStays
<1>21. QED  BY <1>4, <1>10, <1>12, <1>18, <1>19, <1>20 DEF MemoryInv

LEMMA SaveCutKeeps == ASSUME MemoryInv, SaveCut PROVE MemoryInv'
<1>1. /\ whole' = FALSE /\ saving' = NoSave
      /\ UNCHANGED <<md, archive, index, saves, snap, known, dropped, hinted>>
  BY DEF SaveCut
<1>2. saving' \in Saving /\ saving'.pc = "idle" /\ Fits(saving'.keep) /\ PatternsIn(saving'.arch) = {}
  BY <1>1, NoSaveIs
<1>3. ListsTyped'
  BY <1>1, <1>2 DEF MemoryInv, ListsTyped, Fits
<1>4. TextIsKept' /\ SaveCarries' /\ ArchiveIsSaves'
  BY <1>1, <1>2 DEF TextIsKept, PatternsKept, SaveCarries, ArchiveIsSaves
<1>5. \A i \in DOMAIN md' : md'[i].id = ParsedId(md'[i].problem)
  BY <1>1 DEF MemoryInv, IdsOwned
<1>6. IndexTyped' /\ IndexResolves' /\ SnapshotTyped' /\ IdsOwned'
  BY <1>1, <1>2, <1>5, ArchivesStay, SnapshotStays, IdsStay
<1>7. QED  BY <1>3, <1>4, <1>6 DEF MemoryInv

LEMMA SnapshotKeeps == ASSUME MemoryInv, SnapshotPatterns \/ SnapshotText PROVE MemoryInv'
<1>1. UNCHANGED <<md, archive, index, saving, saves, known, dropped, hinted, whole>>
  BY DEF SnapshotPatterns, SnapshotText
<1>2. SnapshotTyped'
  <2> DEFINE sizes == SizesOf(md)
  <2>1. sizes \in Seq(Nat) /\ Fitting(sizes) /\ snap \in Snapshots /\ Fitting(snap.text) /\ Fitting(snap.patterns)
    BY SizesAre DEF MemoryInv, ListsTyped, SnapshotTyped
  <2>2. CASE SnapshotPatterns /\ md # <<>>
    <3> DEFINE e == <<>>
    <3>1. e \in Seq(Nat) /\ Fitting(e) /\ snap' = [pc |-> "text", patterns |-> sizes, text |-> e]
      BY <2>2, EmptySeq DEF SnapshotPatterns, Fitting
    <3> HIDE DEF e, sizes
    <3>2. snap' \in Snapshots /\ snap'.text = e /\ snap'.patterns = sizes
      BY <2>1, <3>1 DEF Snapshots
    <3>3. QED  BY <2>1, <3>1, <3>2 DEF SnapshotTyped, Fitting
  <2>3. CASE SnapshotPatterns /\ md = <<>>
    BY <2>1, <2>3 DEF SnapshotPatterns, SnapshotTyped, Fitting
  <2>4. CASE SnapshotText
    <3> DEFINE text == IF md = <<>> THEN snap.patterns ELSE sizes
    <3>1. snap' = [[snap EXCEPT !.pc = "pinned"] EXCEPT !.text = text]
      BY <2>1, <2>4 DEF SnapshotText, Snapshots
    <3> HIDE DEF sizes
    <3>2. text \in Seq(Nat) /\ Fitting(text)
      BY <2>1 DEF Snapshots
    <3> HIDE DEF text
    <3>3. snap' \in Snapshots /\ snap'.text = text /\ snap'.patterns = snap.patterns
      BY <2>1, <3>1, <3>2 DEF Snapshots
    <3>4. QED  BY <2>1, <3>2, <3>3 DEF SnapshotTyped, Fitting
  <2>5. QED  BY <2>2, <2>3, <2>4
<1>3. IndexTyped' /\ IndexResolves' /\ Archived' = Archived /\ InArchives' = InArchives
  BY <1>1, ArchivesStay
<1>4. IdsOwned'
  <2>1. \A i \in DOMAIN md' : md'[i].id = ParsedId(md'[i].problem)
    BY <1>1 DEF MemoryInv, IdsOwned
  <2>2. QED  BY <1>1, <2>1, IdsStay
<1>5. ListsTyped'
  BY <1>1 DEF MemoryInv, ListsTyped, Fits
<1>6. SaveCarries' /\ TextIsKept' /\ ArchiveIsSaves'
  BY <1>1, <1>3 DEF MemoryInv, SaveCarries, TextIsKept, PatternsKept, ArchiveIsSaves, ProblemsOf, FromText, ParsedId
<1>7. QED  BY <1>2, <1>3, <1>4, <1>5, <1>6 DEF MemoryInv

LEMMA MemoryStep == MemoryInv /\ [MemoryNext]_mvars => MemoryInv'
<1> SUFFICES ASSUME MemoryInv, [MemoryNext]_mvars PROVE MemoryInv'
  OBVIOUS
<1>1. CASE UNCHANGED mvars
  <2>1. UNCHANGED <<md, archive, index, saving, saves, snap, known, dropped, hinted, whole>>
    BY <1>1 DEF mvars
  <2>2. \A i \in DOMAIN md' : md'[i].id = ParsedId(md'[i].problem)
    BY <2>1 DEF MemoryInv, IdsOwned
  <2>3. /\ IndexTyped' /\ IndexResolves' /\ Archived' = Archived /\ InArchives' = InArchives
        /\ SnapshotTyped' /\ IdsOwned'
    BY <2>1, <2>2, ArchivesStay, SnapshotStays, IdsStay
  <2>4. ListsTyped'
    BY <2>1 DEF MemoryInv, ListsTyped, Fits
  <2>5. SaveCarries' /\ TextIsKept' /\ ArchiveIsSaves'
    BY <2>1, <2>3 DEF MemoryInv, SaveCarries, TextIsKept, PatternsKept, ArchiveIsSaves, ProblemsOf, FromText, ParsedId
  <2>6. QED  BY <2>3, <2>4, <2>5 DEF MemoryInv
<1>2. ASSUME NEW p \in Problems, NEW size \in Sizes, NEW hints, SavePattern(p, size, hints) PROVE MemoryInv'
  BY <1>2, SavePatternKeeps
<1>3. CASE TruncateText \/ WriteText \/ WriteArchive \/ WriteIndex \/ SaveCut \/ SnapshotPatterns \/ SnapshotText
  BY <1>3, TruncateKeeps, WriteTextKeeps, WriteArchiveKeeps, WriteIndexKeeps, SaveCutKeeps, SnapshotKeeps
<1>4. QED  BY <1>1, <1>2, <1>3 DEF MemoryNext

(* For any problems, sizes, budget, hints and saves, each of which may be  *)
(* cut short after any write: the index names only files that hold what it *)
(* says, a thread is told no more than the budget or a single pattern, and *)
(* as long as no save was cut short what was acknowledged is in the memory *)
(* or in an archive file unless a hint replaced it since, and is where the *)
(* index says unless a hint ever moved it.                                 *)
THEOREM MemoryCorrect == MemorySpec => []MemorySafe
<1>1. MemoryInv => MemorySafe
  <2> SUFFICES ASSUME MemoryInv PROVE MemorySafe
    OBVIOUS
  <2>1. ProblemsOf(md) \subseteq Problems
    BY PatternsAre DEF MemoryInv, ListsTyped, ProblemsOf, Patterns
  <2>2. saving.pc \in SavePcs
    BY DEF MemoryInv, ListsTyped, Saving
  <2>3. snap.pc \in {"none", "text", "pinned"}
    BY DEF MemoryInv, SnapshotTyped, Snapshots
  <2>4. MemoryTypeOK
    BY <2>1, <2>2, <2>3 DEF MemoryInv, ListsTyped, IndexTyped, SavePcs, MemoryTypeOK
  <2>5. SnapshotFits
    BY DEF MemoryInv, SnapshotTyped, Fitting, SnapshotFits
  <2>6. QED  BY <2>4, <2>5 DEF MemoryInv, MemorySafe, TextIsKept
<1>2. QED  BY <1>1, MemoryInitially, MemoryStep, PTL DEF MemorySpec

(* The event file.  Lists of event numbers, and what the thread's          *)
(* operators make of them.                                                 *)
Numbers == Seq(Nat)
Distinct(s) == \A i, j \in DOMAIN s : i < j => s[i] # s[j]
Ordered(s) == \A i, j \in DOMAIN s : i < j => s[i] < s[j]

LEMMA NumbersAre ==
  ASSUME NEW s \in Numbers
  PROVE  /\ Len(s) \in Nat /\ DOMAIN s = 1 .. Len(s)
         /\ \A i \in DOMAIN s : s[i] \in Nat
         /\ ToSet(s) \subseteq Nat
<1>1. /\ Len(s) \in Nat /\ DOMAIN s = 1 .. Len(s)
      /\ \A i \in DOMAIN s : s[i] \in Nat
  BY LenProperties, ElementOfSeq DEF Numbers
<1>2. QED  BY <1>1 DEF ToSet

LEMMA NoNumbers == <<>> \in Numbers /\ Len(<<>>) = 0 /\ ToSet(<<>>) = {} /\ Distinct(<<>>) /\ Ordered(<<>>)
  BY EmptySeq DEF Numbers, ToSet, Distinct, Ordered

LEMMA AddedIs ==
  ASSUME NEW s \in Numbers, NEW x \in Nat
  PROVE  /\ Append(s, x) \in Numbers /\ ToSet(Append(s, x)) = ToSet(s) \cup {x}
         /\ Distinct(s) /\ x \notin ToSet(s) => Distinct(Append(s, x))
         /\ Ordered(s) /\ (\A y \in ToSet(s) : y < x) => Ordered(Append(s, x))
<1> DEFINE a == Append(s, x)
           n == Len(s)
<1>1. /\ a \in Seq(Nat) /\ Len(a) = n + 1 /\ a[n + 1] = x
      /\ \A i \in 1 .. n : a[i] = s[i]
  BY AppendProperties DEF Numbers
<1>2. n \in Nat /\ DOMAIN s = 1 .. n
  BY NumbersAre
<1>3. a \in Numbers /\ DOMAIN a = 1 .. n + 1
  <2>1. a \in Numbers
    BY <1>1 DEF Numbers
  <2>2. DOMAIN a = 1 .. Len(a)
    BY <2>1, NumbersAre
  <2>3. QED  BY <1>1, <2>1, <2>2
<1> HIDE DEF a, n
<1>4. /\ n + 1 \in DOMAIN a /\ a[n + 1] = x
      /\ \A i \in DOMAIN s : i \in DOMAIN a /\ a[i] = s[i]
      /\ \A i \in DOMAIN a : i = n + 1 \/ (i \in DOMAIN s /\ a[i] = s[i])
  BY <1>1, <1>2, <1>3
<1>5. ToSet(s) \cup {x} \subseteq ToSet(a)
  BY <1>4 DEF ToSet
<1>6. ToSet(a) \subseteq ToSet(s) \cup {x}
  BY <1>4 DEF ToSet
<1>7. ASSUME NEW i \in DOMAIN a, NEW j \in DOMAIN a, i < j
      PROVE  /\ i \in DOMAIN s /\ a[i] = s[i]
             /\ j = n + 1 \/ (j \in DOMAIN s /\ a[j] = s[j])
  BY <1>2, <1>3, <1>4, <1>7
<1>8. ASSUME Distinct(s), x \notin ToSet(s) PROVE Distinct(a)
  BY <1>4, <1>7, <1>8 DEF Distinct, ToSet
<1>9. ASSUME Ordered(s), \A y \in ToSet(s) : y < x PROVE Ordered(a)
  BY <1>4, <1>7, <1>9 DEF Ordered, ToSet
<1>10. QED  BY <1>3, <1>5, <1>6, <1>8, <1>9 DEF a

LEMMA JoinedIs ==
  ASSUME NEW s \in Numbers, NEW t \in Numbers
  PROVE  /\ s \o t \in Numbers /\ ToSet(s \o t) = ToSet(s) \cup ToSet(t)
         /\ Distinct(s) /\ Distinct(t) /\ ToSet(s) \cap ToSet(t) = {} => Distinct(s \o t)
         /\ Ordered(s) /\ Ordered(t) /\ (\A x \in ToSet(s), y \in ToSet(t) : x < y) => Ordered(s \o t)
<1> DEFINE c == s \o t
           m == Len(s)
           n == Len(t)
<1>1. /\ c \in Seq(Nat) /\ Len(c) = m + n
      /\ \A i \in 1 .. m + n : c[i] = IF i <= m THEN s[i] ELSE t[i - m]
  BY ConcatProperties DEF Numbers
<1>2. m \in Nat /\ n \in Nat /\ DOMAIN s = 1 .. m /\ DOMAIN t = 1 .. n
  BY NumbersAre
<1>3. c \in Numbers /\ DOMAIN c = 1 .. m + n
  <2>1. c \in Numbers
    BY <1>1 DEF Numbers
  <2>2. DOMAIN c = 1 .. Len(c)
    BY <2>1, NumbersAre
  <2>3. QED  BY <1>1, <2>1, <2>2
<1> HIDE DEF c, m, n
<1>4. \A i \in DOMAIN s : i \in DOMAIN c /\ c[i] = s[i]
  BY <1>1, <1>2, <1>3
<1>5. ASSUME NEW i \in DOMAIN t PROVE m + i \in DOMAIN c /\ c[m + i] = t[i]
  <2>1. m + i \in 1 .. m + n /\ ~(m + i <= m) /\ (m + i) - m = i
    BY <1>2
  <2>2. QED  BY <1>1, <1>3, <2>1
<1>6. ASSUME NEW i \in DOMAIN c
      PROVE  (i <= m /\ i \in DOMAIN s /\ c[i] = s[i]) \/ (i > m /\ i - m \in DOMAIN t /\ c[i] = t[i - m])
  BY <1>1, <1>2, <1>3
<1>7. ToSet(s) \cup ToSet(t) \subseteq ToSet(c)
  BY <1>4, <1>5 DEF ToSet
<1>8. ToSet(c) \subseteq ToSet(s) \cup ToSet(t)
  BY <1>6 DEF ToSet
<1>9. ASSUME NEW i \in DOMAIN c, NEW j \in DOMAIN c, i < j
      PROVE  \/ i \in DOMAIN s /\ c[i] = s[i] /\ j \in DOMAIN s /\ c[j] = s[j]
             \/ c[i] \in ToSet(s) /\ c[j] \in ToSet(t)
             \/ i - m \in DOMAIN t /\ c[i] = t[i - m] /\ j - m \in DOMAIN t /\ c[j] = t[j - m] /\ i - m < j - m
  <2>1. i \in Nat /\ j \in Nat
    BY <1>2, <1>3
  <2>2. CASE j <= m
    BY <1>2, <1>6, <1>9, <2>1, <2>2
  <2>3. CASE i <= m /\ j > m
    <3>1. i \in DOMAIN s /\ c[i] = s[i] /\ j - m \in DOMAIN t /\ c[j] = t[j - m]
      BY <1>2, <1>6, <2>1, <2>3
    <3>2. QED  BY <3>1 DEF ToSet
  <2>4. CASE i > m /\ j > m
    <3>1. i - m \in DOMAIN t /\ c[i] = t[i - m] /\ j - m \in DOMAIN t /\ c[j] = t[j - m]
      BY <1>2, <1>6, <2>1, <2>4
    <3>2. i - m < j - m
      BY <1>2, <1>9, <2>1
    <3>3. QED  BY <3>1, <3>2
  <2>5. QED  BY <1>2, <1>9, <2>1, <2>2, <2>3, <2>4
<1>10. ASSUME Distinct(s), Distinct(t), ToSet(s) \cap ToSet(t) = {} PROVE Distinct(c)
  BY <1>9, <1>10 DEF Distinct
<1>11. ASSUME Ordered(s), Ordered(t), \A x \in ToSet(s), y \in ToSet(t) : x < y PROVE Ordered(c)
  BY <1>9, <1>11 DEF Ordered
<1>12. QED  BY <1>3, <1>7, <1>8, <1>10, <1>11 DEF c

\* A part of a list.
LEMMA PartIs ==
  ASSUME NEW s \in Numbers, NEW m \in Nat \ {0}, NEW n \in Nat, n <= Len(s), m <= n + 1
  PROVE  /\ SubSeq(s, m, n) \in Numbers /\ DOMAIN SubSeq(s, m, n) = 1 .. n - m + 1
         /\ \A i \in DOMAIN SubSeq(s, m, n) : m + i - 1 \in DOMAIN s /\ SubSeq(s, m, n)[i] = s[m + i - 1]
         /\ ToSet(SubSeq(s, m, n)) = {s[i] : i \in m .. n}
<1> DEFINE p == SubSeq(s, m, n)
           l == Len(s)
<1>1. l \in Nat /\ DOMAIN s = 1 .. l /\ \A i \in DOMAIN s : s[i] \in Nat
  BY NumbersAre
<1>2. \A i \in m .. n : s[i] \in Nat
  BY <1>1
<1>3. /\ p \in Seq(Nat) /\ Len(p) = IF m <= n THEN n - m + 1 ELSE 0
      /\ \A i \in 1 .. n - m + 1 : p[i] = s[m + i - 1]
  BY <1>2, SubSeqProperties
<1>4. p \in Numbers
  BY <1>3 DEF Numbers
<1> HIDE DEF p, l
<1>5. Len(p) = n - m + 1
  BY <1>3
<1>6. DOMAIN p = 1 .. n - m + 1
  BY <1>4, <1>5, NumbersAre
<1>7. ASSUME NEW i \in DOMAIN p PROVE m + i - 1 \in DOMAIN s /\ p[i] = s[m + i - 1] /\ m + i - 1 \in m .. n
  <2>1. i \in 1 .. n - m + 1
    BY <1>6
  <2>2. m + i - 1 \in 1 .. l /\ m + i - 1 \in m .. n
    BY <1>1, <2>1 DEF l
  <2>3. QED  BY <1>1, <1>3, <2>1, <2>2
<1>8. ASSUME NEW i \in m .. n PROVE \E j \in DOMAIN p : p[j] = s[i]
  <2>1. i - m + 1 \in 1 .. n - m + 1 /\ m + (i - m + 1) - 1 = i
    OBVIOUS
  <2>2. QED  BY <1>3, <1>6, <2>1
<1>9. ToSet(p) \subseteq {s[i] : i \in m .. n}
  BY <1>7 DEF ToSet
<1>10. {s[i] : i \in m .. n} \subseteq ToSet(p)
  BY <1>8 DEF ToSet
<1>11. QED  BY <1>4, <1>6, <1>7, <1>9, <1>10 DEF p

LEMMA TailIs ==
  ASSUME NEW s \in Numbers, TooMany(s)
  PROVE  /\ Retained(s) \in Numbers
         /\ ToSet(s) = Summary(s) \cup ToSet(Retained(s))
         /\ Distinct(s) => Distinct(Retained(s)) /\ Summary(s) \cap ToSet(Retained(s)) = {}
         /\ Ordered(s) => Ordered(Retained(s))
<1> DEFINE n == Len(s)
           k == Cutoff(s)
           r == SubSeq(s, k + 1, n)
           q == SubSeq(s, 1, k)
<1>1. n \in Nat /\ DOMAIN s = 1 .. n
  BY NumbersAre
<1>2. k \in Nat /\ k <= n /\ k + 1 <= n + 1
  BY <1>1, ThreadAssumption DEF Cutoff, TooMany
<1>3. Retained(s) = r /\ Summary(s) = ToSet(q)
  BY DEF Retained, Summary
<1> HIDE DEF k
<1>4. /\ r \in Numbers /\ DOMAIN r = 1 .. n - (k + 1) + 1
      /\ \A i \in DOMAIN r : k + 1 + i - 1 \in DOMAIN s /\ r[i] = s[k + 1 + i - 1]
      /\ ToSet(r) = {s[i] : i \in k + 1 .. n}
  <2> DEFINE m == k + 1
  <2>1. m \in Nat \ {0} /\ n \in Nat /\ n <= Len(s) /\ m <= n + 1
    BY <1>1, <1>2
  <2> HIDE DEF m, n
  <2>2. /\ SubSeq(s, m, n) \in Numbers /\ DOMAIN SubSeq(s, m, n) = 1 .. n - m + 1
        /\ \A i \in DOMAIN SubSeq(s, m, n) : m + i - 1 \in DOMAIN s /\ SubSeq(s, m, n)[i] = s[m + i - 1]
        /\ ToSet(SubSeq(s, m, n)) = {s[i] : i \in m .. n}
    BY <2>1, PartIs
  <2>3. QED  BY <2>2 DEF m
<1>5. ToSet(q) = {s[i] : i \in 1 .. k}
  <2> DEFINE m == 1
  <2>1. m \in Nat \ {0} /\ k \in Nat /\ k <= Len(s) /\ m <= k + 1
    BY <1>1, <1>2
  <2> HIDE DEF m, n
  <2>2. ToSet(SubSeq(s, m, k)) = {s[i] : i \in m .. k}
    BY <2>1, PartIs
  <2>3. QED  BY <2>2 DEF m
<1> HIDE DEF q, r, n
<1>6. ASSUME NEW i \in DOMAIN r, NEW j \in DOMAIN r, i < j
      PROVE  /\ k + i \in DOMAIN s /\ k + j \in DOMAIN s /\ k + i < k + j
             /\ r[i] = s[k + i] /\ r[j] = s[k + j]
  <2>1. i \in Nat /\ j \in Nat
    BY <1>4
  <2>2. k + 1 + i - 1 = k + i /\ k + 1 + j - 1 = k + j /\ k + i < k + j
    BY <1>2, <1>6, <2>1
  <2>3. QED  BY <1>4, <2>2
<1>7. 1 .. n = 1 .. k \cup k + 1 .. n
  BY <1>1, <1>2
<1>8. ToSet(s) = ToSet(q) \cup ToSet(r)
  <2>1. ToSet(s) = {s[i] : i \in 1 .. n}
    BY <1>1 DEF ToSet
  <2>2. QED  BY <1>4, <1>5, <1>7, <2>1
<1>9. Distinct(s) => Distinct(r)
  BY <1>6 DEF Distinct
<1>10. Ordered(s) => Ordered(r)
  BY <1>6 DEF Ordered
<1>11. ASSUME Distinct(s) PROVE ToSet(q) \cap ToSet(r) = {}
  <2>1. ASSUME NEW i \in 1 .. k, NEW j \in k + 1 .. n PROVE s[i] # s[j]
    <3>1. i \in DOMAIN s /\ j \in DOMAIN s /\ i < j
      BY <1>1, <1>2
    <3>2. QED  BY <1>11, <3>1 DEF Distinct
  <2>2. QED  BY <1>4, <1>5, <2>1
<1>12. QED  BY <1>3, <1>4, <1>8, <1>9, <1>10, <1>11

LEMMA RetainedIs ==
  ASSUME NEW s \in Numbers
  PROVE  /\ Retained(s) \in Numbers /\ ToSet(Retained(s)) \subseteq ToSet(s)
         /\ Distinct(s) => Distinct(Retained(s))
         /\ Ordered(s) => Ordered(Retained(s))
<1>1. CASE TooMany(s)
  BY <1>1, TailIs
<1>2. CASE ~TooMany(s)
  BY <1>2 DEF Retained
<1>3. QED  BY <1>1, <1>2

(* eventsAppendedAfterWorkingSetLoad: the events that were not loaded.     *)
Rest(loaded, F, n) == IF n = 0 THEN <<>>
                      ELSE IF events[n] \in ToSet(loaded) THEN F[n - 1] ELSE Append(F[n - 1], events[n])
RestOf(loaded, F, n) == F = [i \in 0 .. n |-> Rest(loaded, F, i)]

LEMMA RestExists == ASSUME NEW loaded, NEW n \in Nat PROVE \E F : RestOf(loaded, F, n)
<1> DEFINE Bad == {m \in Nat : ~ \E F : RestOf(loaded, F, m)}
<1>1. SUFFICES ASSUME Bad # {} PROVE FALSE
  OBVIOUS
<1>2. PICK m \in Bad : \A k \in Bad : m <= k
  BY <1>1, LeastNatural
<1>3. m \in Nat /\ ~ \E F : RestOf(loaded, F, m)
  OBVIOUS
<1>4. \E F : \A i \in 0 .. m : i # 0 => F[i - 1] = Rest(loaded, F, i - 1)
  <2>1. CASE m = 0
    BY <2>1
  <2>2. CASE m # 0
    <3>1. m - 1 \in Nat /\ m - 1 \notin Bad
      BY <1>2, <1>3, <2>2
    <3>2. PICK F : RestOf(loaded, F, m - 1)
      BY <3>1
    <3>3. \A i \in 0 .. m : i # 0 => i - 1 \in 0 .. m - 1
      BY <1>3
    <3>4. \A i \in 0 .. m - 1 : F[i] = Rest(loaded, F, i)
      BY <3>2 DEF RestOf
    <3>5. QED  BY <3>3, <3>4
  <2>3. QED  BY <2>1, <2>2
<1>5. PICK F : \A i \in 0 .. m : i # 0 => F[i - 1] = Rest(loaded, F, i - 1)
  BY <1>4
<1> DEFINE G == [i \in 0 .. m |-> Rest(loaded, F, i)]
<1>6. ASSUME NEW i \in 0 .. m PROVE G[i] = Rest(loaded, G, i)
  <2>1. CASE i = 0
    BY <2>1 DEF Rest
  <2>2. CASE i # 0
    <3>1. i - 1 \in 0 .. m
      BY <1>3, <2>2
    <3>2. G[i - 1] = F[i - 1]
      BY <1>5, <2>2, <3>1
    <3>3. G[i] = Rest(loaded, F, i)
      OBVIOUS
    <3> HIDE DEF G
    <3>4. QED  BY <3>2, <3>3 DEF Rest
  <2>3. QED  BY <2>1, <2>2
<1>7. G = [i \in 0 .. m |-> Rest(loaded, G, i)]
  <2>1. G = [i \in 0 .. m |-> G[i]]
    OBVIOUS
  <2> HIDE DEF G
  <2>2. QED  BY <1>6, <2>1
<1>8. QED  BY <1>3, <1>7 DEF RestOf

LEMMA RestIs ==
  ASSUME events \in Numbers, NEW loaded
  PROVE  \E F : AppendedSince(loaded) = F[Len(events)] /\ \A n \in 0 .. Len(events) : F[n] = Rest(loaded, F, n)
<1> DEFINE Is(F) == F = [n \in 0 .. Len(events) |-> Rest(loaded, F, n)]
           A == CHOOSE F : Is(F)
<1>1. AppendedSince(loaded) = A[Len(events)]
  BY DEF AppendedSince, Rest
<1>2. Is(A)
  <2>1. \E F : Is(F)
    BY RestExists, NumbersAre DEF RestOf
  <2> HIDE DEF Is
  <2>2. QED  BY <2>1
<1>3. \A n \in 0 .. Len(events) : A[n] = Rest(loaded, A, n)
  <2> HIDE DEF A
  <2>1. QED  BY <1>2
<1> HIDE DEF A
<1>4. QED  BY <1>1, <1>3

LEMMA SinceIs ==
  ASSUME events \in Numbers, NEW loaded
  PROVE  /\ AppendedSince(loaded) \in Numbers
         /\ ToSet(AppendedSince(loaded)) = ToSet(events) \ ToSet(loaded)
         /\ Distinct(events) => Distinct(AppendedSince(loaded))
         /\ Ordered(events) => Ordered(AppendedSince(loaded))
<1> DEFINE N == Len(events)
<1>1. N \in Nat /\ DOMAIN events = 1 .. N /\ \A i \in DOMAIN events : events[i] \in Nat
  BY NumbersAre
<1>2. PICK F : AppendedSince(loaded) = F[N] /\ \A n \in 0 .. N : F[n] = Rest(loaded, F, n)
  BY RestIs
<1> HIDE DEF N
<1> DEFINE Upto(n) == {events[i] : i \in 1 .. n} \ ToSet(loaded)
           Good(n) == /\ F[n] \in Numbers /\ ToSet(F[n]) = Upto(n)
                      /\ Distinct(events) => Distinct(F[n])
                      /\ Ordered(events) => Ordered(F[n])
           Bad == {n \in 0 .. N : ~Good(n)}
<1>3. ASSUME NEW n \in 0 .. N, n # 0 => n - 1 \in 0 .. N /\ Good(n - 1) PROVE Good(n)
  <2>1. CASE n = 0
    <3>1. F[n] = <<>>
      BY <1>2, <2>1 DEF Rest
    <3>2. Upto(n) = {}
      BY <2>1
    <3> HIDE DEF Upto
    <3>3. QED  BY <3>1, <3>2, NoNumbers
  <2>2. CASE n # 0
    <3> DEFINE f == F[n - 1]
               e == events[n]
    <3>1. /\ f \in Numbers /\ ToSet(f) = Upto(n - 1)
          /\ Distinct(events) => Distinct(f)
          /\ Ordered(events) => Ordered(f)
      BY <1>3, <2>2
    <3>2. n \in 1 .. N /\ n - 1 \in Nat /\ 1 .. n = (1 .. n - 1) \cup {n}
      BY <1>1, <2>2
    <3>3. Upto(n) = Upto(n - 1) \cup ({e} \ ToSet(loaded)) /\ e \in Nat
      BY <1>1, <3>2
    <3>4. F[n] = IF e \in ToSet(loaded) THEN f ELSE Append(f, e)
      BY <1>2, <2>2 DEF Rest
    <3>5. \A y \in Upto(n - 1) : \E i \in DOMAIN events : y = events[i] /\ i < n
      BY <1>1, <3>2
    <3>6. n \in DOMAIN events
      BY <1>1, <3>2
    <3>7. Distinct(events) => e \notin Upto(n - 1)
      BY <3>5, <3>6 DEF Distinct
    <3>8. Ordered(events) => \A y \in Upto(n - 1) : y < e
      BY <3>5, <3>6 DEF Ordered
    <3> HIDE DEF Upto, f, e
    <3>9. CASE e \in ToSet(loaded)
      BY <3>1, <3>3, <3>4, <3>9
    <3>10. CASE e \notin ToSet(loaded)
      <4>1. /\ Append(f, e) \in Numbers /\ ToSet(Append(f, e)) = ToSet(f) \cup {e}
            /\ Distinct(f) /\ e \notin ToSet(f) => Distinct(Append(f, e))
            /\ Ordered(f) /\ (\A y \in ToSet(f) : y < e) => Ordered(Append(f, e))
        BY <3>1, <3>3, AddedIs
      <4>2. QED  BY <3>1, <3>3, <3>4, <3>7, <3>8, <3>10, <4>1
    <3>11. QED  BY <3>9, <3>10
  <2>3. QED  BY <2>1, <2>2
<1> HIDE DEF Good
<1>4. Bad = {}
  <2> SUFFICES ASSUME Bad # {} PROVE FALSE
    OBVIOUS
  <2>1. Bad \subseteq Nat /\ \A n \in Bad : n \in 0 .. N /\ ~Good(n)
    BY <1>1
  <2> HIDE DEF Bad
  <2>2. PICK n \in Bad : \A m \in Bad : n <= m
    BY <2>1, LeastNatural
  <2>3. n \in 0 .. N /\ ~Good(n)
    BY <2>1
  <2>4. n # 0 => n - 1 \in 0 .. N /\ n - 1 \notin Bad
    BY <1>1, <2>2, <2>3
  <2>5. n # 0 => Good(n - 1)
    BY <2>4 DEF Bad
  <2>6. QED  BY <1>3, <2>3, <2>4, <2>5
<1>5. Good(N)
  <2>1. N \in 0 .. N
    BY <1>1
  <2>2. QED  BY <1>4, <2>1
<1>6. Upto(N) = ToSet(events) \ ToSet(loaded)
  BY <1>1 DEF ToSet
<1> HIDE DEF Upto
<1>7. QED  BY <1>2, <1>5, <1>6 DEF Good

(* Lists of summaries.                                                     *)
BlockLists == Seq(SUBSET Nat)
Apart(bs) == \A i, j \in DOMAIN bs : i # j => bs[i] \cap bs[j] = {}

LEMMA BlocksAre ==
  ASSUME NEW bs \in BlockLists
  PROVE  /\ Len(bs) \in Nat /\ DOMAIN bs = 1 .. Len(bs)
         /\ \A i \in DOMAIN bs : bs[i] \in SUBSET Nat
<1>1. QED  BY LenProperties, ElementOfSeq DEF BlockLists

(* mergeThreadSummaryBlocks: some of the old ones and the new one, each    *)
(* once.                                                                   *)
LEMMA MergedBlocks ==
  ASSUME NEW old \in BlockLists, NEW new \in SUBSET Nat
  PROVE  /\ MergeBlocks(old, new) \in BlockLists /\ Len(MergeBlocks(old, new)) <= MaxBlocks
         /\ ToSet(MergeBlocks(old, new)) \subseteq ToSet(old) \cup {new}
         /\ new \in ToSet(old) \cup ToSet(MergeBlocks(old, new))
         /\ Apart(old) /\ (\A b \in ToSet(old) : b \cap new = {}) => Apart(MergeBlocks(old, new))
<1> DEFINE all == IF Contains(old, new) THEN old ELSE Append(old, new)
           n == Len(old)
           l == Len(all)
           m == IF l > MaxBlocks THEN l - MaxBlocks + 1 ELSE 1
           r == SubSeq(all, m, l)
<1>1. n \in Nat /\ DOMAIN old = 1 .. n /\ \A i \in DOMAIN old : old[i] \in SUBSET Nat
  BY BlocksAre
<1>2. MergeBlocks(old, new) = r
  BY DEF MergeBlocks
<1>3. /\ all \in BlockLists /\ l \in Nat
      /\ \A i \in DOMAIN all : (i \in DOMAIN old /\ all[i] = old[i]) \/ (i = n + 1 /\ all[i] = new)
      /\ ~Contains(old, new) => l = n + 1 /\ all[l] = new
  <2>1. CASE Contains(old, new)
    BY <1>1, <2>1
  <2>2. CASE ~Contains(old, new)
    <3> DEFINE a == Append(old, new)
    <3>1. /\ a \in Seq(SUBSET Nat) /\ Len(a) = n + 1 /\ a[n + 1] = new
          /\ \A i \in 1 .. n : a[i] = old[i]
      BY AppendProperties DEF BlockLists
    <3>2. a \in BlockLists /\ all = a
      BY <2>2, <3>1 DEF BlockLists
    <3>3. DOMAIN a = 1 .. n + 1
      BY <3>1, <3>2, BlocksAre
    <3> HIDE DEF a, n
    <3>4. \A i \in DOMAIN a : (i \in DOMAIN old /\ a[i] = old[i]) \/ (i = n + 1 /\ a[i] = new)
      BY <1>1, <3>1, <3>3
    <3>5. a[Len(a)] = new /\ Len(a) \in Nat /\ Len(a) = n + 1
      BY <1>1, <3>1
    <3> HIDE DEF all
    <3>6. QED  BY <3>2, <3>4, <3>5
  <2>3. QED  BY <2>1, <2>2
<1> HIDE DEF all, n
<1>4. l \in Nat /\ DOMAIN all = 1 .. l /\ \A i \in DOMAIN all : all[i] \in SUBSET Nat
  BY <1>3, BlocksAre
<1> HIDE DEF l
<1>5. /\ m \in Nat /\ 1 <= m /\ m <= l + 1 /\ l - m + 1 <= MaxBlocks
      /\ l # 0 => m <= l
  BY <1>4, ThreadAssumption
<1> HIDE DEF m
<1>6. r \in BlockLists /\ DOMAIN r = 1 .. l - m + 1 /\ Len(r) = l - m + 1 /\ \A i \in DOMAIN r : r[i] = all[m + i - 1]
  <2>1. \A i \in m .. l : all[i] \in SUBSET Nat
    BY <1>4, <1>5
  <2>2. /\ r \in Seq(SUBSET Nat) /\ Len(r) = IF m <= l THEN l - m + 1 ELSE 0
        /\ \A i \in 1 .. l - m + 1 : r[i] = all[m + i - 1]
    BY <1>4, <1>5, <2>1, SubSeqProperties
  <2>3. r \in BlockLists
    BY <2>2 DEF BlockLists
  <2> HIDE DEF r
  <2>4. Len(r) = l - m + 1
    BY <1>4, <1>5, <2>2
  <2>5. DOMAIN r = 1 .. l - m + 1
    BY <2>3, <2>4, BlocksAre
  <2>6. QED  BY <2>2, <2>3, <2>4, <2>5
<1> HIDE DEF r
<1>7. ASSUME NEW i \in DOMAIN r
      PROVE  /\ m + i - 1 \in DOMAIN all /\ r[i] = all[m + i - 1]
             /\ \/ m + i - 1 \in DOMAIN old /\ r[i] = old[m + i - 1]
                \/ m + i - 1 = n + 1 /\ r[i] = new
  <2>1. m + i - 1 \in 1 .. l
    BY <1>4, <1>5, <1>6
  <2>2. QED  BY <1>3, <1>4, <1>6, <2>1
<1>8. ToSet(r) \subseteq ToSet(old) \cup {new}
  BY <1>7 DEF ToSet
<1>9. new \in ToSet(old) \cup ToSet(r)
  <2>1. CASE Contains(old, new)
    BY <1>1, <2>1 DEF Contains, ToSet, n
  <2>2. CASE ~Contains(old, new)
    <3>1. l # 0 /\ all[l] = new
      BY <1>1, <1>3, <2>2 DEF l
    <3>2. l - m + 1 \in 1 .. l - m + 1 /\ m + (l - m + 1) - 1 = l
      BY <1>4, <1>5, <3>1
    <3>3. r[l - m + 1] = new /\ l - m + 1 \in DOMAIN r
      BY <1>6, <3>1, <3>2
    <3>4. QED  BY <3>3 DEF ToSet
  <2>3. QED  BY <2>1, <2>2
<1>10. ASSUME Apart(old), \A b \in ToSet(old) : b \cap new = {} PROVE Apart(r)
  <2> SUFFICES ASSUME NEW i \in DOMAIN r, NEW j \in DOMAIN r, i # j PROVE r[i] \cap r[j] = {}
    BY DEF Apart
  <2> DEFINE u == m + i - 1
             v == m + j - 1
  <2>1. u # v
    BY <1>4, <1>5, <1>6
  <2>2. /\ (u \in DOMAIN old /\ r[i] = old[u]) \/ (u = n + 1 /\ r[i] = new)
        /\ (v \in DOMAIN old /\ r[j] = old[v]) \/ (v = n + 1 /\ r[j] = new)
    BY <1>7
  <2> HIDE DEF u, v
  <2>3. QED  BY <1>10, <2>1, <2>2 DEF Apart, ToSet
<1>11. QED  BY <1>2, <1>5, <1>6, <1>8, <1>9, <1>10

(* The event file and the turns.  What a turn has loaded and keeps is apart *)
(* from the summaries; while turns do not overlap, what is in the file and  *)
(* was not loaded is newer; while nothing fails, what was loaded is still   *)
(* in the file until it is replaced by what is kept.                        *)
ThreadPcs == {"idle", "blocks", "seed", "run", "merge", "replace", "rewrite", "save", "tell", "over"}
Lefts == Int
ThreadRuns == [pc : ThreadPcs, events : Numbers, blocks : BlockLists, kept : Numbers, compacted : BOOLEAN, left : Lefts]
Runs(r) == r.pc \notin {"idle", "over"}
Avoid(bs, s) == \A b \in ToSet(bs) : b \cap ToSet(s) = {}

FileTyped ==
  /\ events \in Numbers /\ blocks \in BlockLists /\ Len(blocks) <= MaxBlocks
  /\ cut \in {"no", "writing", "broken"} /\ written \in Nat /\ written <= MaxEvents
  /\ seeded \in BOOLEAN /\ calm \in BOOLEAN /\ apart \in BOOLEAN
  /\ ToSet(events) \subseteq 1 .. written /\ \A b \in ToSet(blocks) : b \subseteq 1 .. written
TurnsTyped == turn \in [ThreadTurns -> ThreadRuns]

FileSound ==
  /\ Distinct(events) /\ (apart => Ordered(events))
  /\ cut # "no" => events = <<>>
  /\ apart => Apart(blocks) /\ Avoid(blocks, events)
  /\ calm => apart /\ cut # "broken"
OneWriter ==
  /\ \A t \in ThreadTurns : turn[t].pc = "rewrite" => cut = "writing"
  /\ \A t, u \in ThreadTurns : turn[t].pc = "rewrite" /\ turn[u].pc = "rewrite" => t = u
  /\ cut = "writing" => \E t \in ThreadTurns : turn[t].pc = "rewrite"
OneTurn == apart => \A t, u \in ThreadTurns : Runs(turn[t]) /\ Runs(turn[u]) => t = u

\* Of a turn's own lists, whatever happens to the file.
RunSound(r, w) ==
  /\ ToSet(r.events) \subseteq 1 .. w /\ ToSet(r.kept) \subseteq 1 .. w
  /\ \A b \in ToSet(r.blocks) : b \subseteq 1 .. w
  /\ Distinct(r.events) /\ Distinct(r.kept) /\ Len(r.blocks) <= MaxBlocks
  /\ r.pc \in {"idle", "blocks"} => ~r.compacted
  /\ r.compacted => TooMany(r.events)
  /\ r.pc \in {"seed", "run", "merge"} => r.kept = Retained(r.events)
  /\ r.pc \in {"merge", "replace", "rewrite"} => r.compacted /\ Summary(r.events) \cap ToSet(r.kept) = {}
\* While turns do not overlap.
RunApart(r, es, bs) ==
  /\ Ordered(r.events) /\ (r.pc \in {"seed", "run", "merge", "replace", "rewrite"} => Ordered(r.kept) /\ Avoid(bs, r.kept))
  /\ r.pc \in {"blocks", "seed", "run", "merge"} =>
       \A e \in ToSet(es) \ ToSet(r.events), l \in ToSet(r.events) : l < e
  /\ r.pc # "tell" => Avoid(bs, r.events)
  /\ r.pc \notin {"blocks", "tell"} => r.blocks = bs
  /\ r.pc = "save" /\ r.compacted => Summary(r.events) \cap ToSet(es) = {}
\* While nothing fails.
RunCalm(r, es, exc) ==
  /\ r.pc \in {"blocks", "seed", "run", "merge"} => ToSet(r.events) \subseteq ToSet(es)
  /\ r.pc = "replace" => ToSet(es) \subseteq ToSet(r.kept) \cup Summary(r.events) \cup exc
RunOK(r, w, es, bs, exc, a, c) ==
  /\ RunSound(r, w)
  /\ a /\ Runs(r) => RunApart(r, es, bs)
  /\ c /\ Runs(r) => RunCalm(r, es, exc)
TurnsSound == \A t \in ThreadTurns : RunOK(turn[t], written, events, blocks, excused, apart, calm)

Carried(r, c) == IF r.pc \in {"rewrite", "save"} /\ r.compacted
                 THEN Summary(r.events) \cup (IF c = "writing" THEN ToSet(r.kept) ELSE {}) ELSE {}
Found(e) == \/ e \in excused \/ e \in ToSet(events) \/ \E b \in ToSet(blocks) : e \in b
            \/ \E t \in ThreadTurns : e \in Carried(turn[t], cut)
AllFound == calm => \A e \in 1 .. written : Found(e)

ThreadInv == FileTyped /\ TurnsTyped /\ FileSound /\ OneWriter /\ OneTurn /\ TurnsSound /\ AllFound

LEMMA FreshIs ==
  /\ Fresh \in ThreadRuns /\ Fresh.pc = "idle"
  /\ \A w \in Nat : \A es, bs, exc, a, c, f : RunOK(Fresh, w, es, bs, exc, a, c) /\ Carried(Fresh, f) = {}
<1> DEFINE e == <<>>
<1>1. e \in Numbers /\ Distinct(e) /\ ToSet(e) = {} /\ e \in BlockLists /\ Len(e) <= MaxBlocks
  BY NoNumbers, EmptySeq, ThreadAssumption DEF BlockLists
<1>2. Fresh = [pc |-> "idle", events |-> e, blocks |-> e, kept |-> e, compacted |-> FALSE, left |-> 0]
  BY DEF Fresh
<1> HIDE DEF e
<1>3. Fresh \in ThreadRuns
  BY <1>1, <1>2 DEF ThreadRuns, ThreadPcs, Lefts
<1>4. Fresh.pc = "idle" /\ Fresh.events = e /\ Fresh.blocks = e /\ Fresh.kept = e /\ Fresh.compacted = FALSE
  BY <1>2
<1>5. \A w \in Nat : \A es, bs, exc, a, c : RunOK(Fresh, w, es, bs, exc, a, c)
  BY <1>1, <1>4 DEF RunOK, RunSound, Runs
<1>6. \A f : Carried(Fresh, f) = {}
  BY <1>4 DEF Carried
<1>7. QED  BY <1>3, <1>4, <1>5, <1>6

LEMMA TurnMoves ==
  ASSUME TurnsTyped, NEW t \in ThreadTurns, NEW r \in ThreadRuns, turn' = [turn EXCEPT ![t] = r]
  PROVE  TurnsTyped' /\ turn'[t] = r /\ \A u \in ThreadTurns : u # t => turn'[u] = turn[u]
  BY DEF TurnsTyped

(* What a turn knows is enough while its own flags only fall.              *)
LEMMA RunWeaker ==
  ASSUME NEW r, NEW w, NEW es, NEW bs, NEW exc, NEW a, NEW c, NEW aa, NEW cc,
         RunOK(r, w, es, bs, exc, a, c), aa => a, cc => c
  PROVE  RunOK(r, w, es, bs, exc, aa, cc)
  BY DEF RunOK

(* A step of one turn that leaves the files alone.                         *)
LEMMA TurnMoveKeeps ==
  ASSUME ThreadInv, NEW t \in ThreadTurns, NEW r \in ThreadRuns, turn' = [turn EXCEPT ![t] = r],
         turn[t].pc \notin {"rewrite", "save"}, r.pc # "rewrite",
         UNCHANGED <<events, blocks, cut, written, seeded, excused>>,
         calm' \in BOOLEAN, apart' \in BOOLEAN, calm' => calm /\ apart', apart' => apart,
         apart' /\ Runs(r) => \A u \in ThreadTurns : u # t => ~Runs(turn[u]),
         RunOK(r, written, events, blocks, excused, apart', calm')
  PROVE  ThreadInv'
<1>1. TurnsTyped' /\ turn'[t] = r /\ \A u \in ThreadTurns : u # t => turn'[u] = turn[u]
  BY TurnMoves DEF ThreadInv
<1>2. FileTyped' /\ FileSound'
  BY DEF ThreadInv, FileTyped, FileSound
<1>3. OneWriter'
  BY <1>1 DEF ThreadInv, OneWriter
<1>4. OneTurn'
  BY <1>1 DEF ThreadInv, OneTurn
<1>5. \A u \in ThreadTurns : RunOK(turn'[u], written, events, blocks, excused, apart', calm')
  <2>1. \A u \in ThreadTurns : u # t => RunOK(turn[u], written, events, blocks, excused, apart', calm')
    BY RunWeaker DEF ThreadInv, TurnsSound
  <2>2. QED  BY <1>1, <2>1
<1>6. TurnsSound'
  BY <1>5 DEF TurnsSound
<1>7. AllFound'
  <2>1. Carried(turn[t], cut) = {}
    BY DEF Carried
  <2>2. \A e : Found(e) => Found(e)'
    BY <1>1, <2>1 DEF Found
  <2>3. QED  BY <2>2 DEF ThreadInv, AllFound
<1>8. QED  BY <1>1, <1>2, <1>3, <1>4, <1>6, <1>7 DEF ThreadInv

(* AppendEvent: the new event is newer than any other.                     *)
LEMMA AppendKeeps ==
  ASSUME ThreadInv, AppendEvent, UNCHANGED <<blocks, cut, calm, apart>>, seeded' \in BOOLEAN
  PROVE  /\ FileTyped' /\ FileSound'
         /\ \A t \in ThreadTurns : RunOK(turn[t], written', events', blocks, excused', apart, calm)
         /\ calm => \A e \in 1 .. written' :
              \/ e \in excused' \/ e \in ToSet(events') \/ \E b \in ToSet(blocks) : e \in b
              \/ \E t \in ThreadTurns : e \in Carried(turn[t], cut)
<1>1. CASE cut = "broken"
  BY <1>1 DEF AppendEvent, ThreadInv, FileTyped, FileSound, TurnsSound, AllFound, Found
<1>2. CASE cut # "broken"
  <2> DEFINE x == written + 1
  <2>1. /\ cut # "writing" /\ cut # "broken" /\ written < MaxEvents /\ written' = x /\ events' = Append(events, x)
        /\ excused' = IF Replacing THEN excused \cup {x} ELSE excused
    BY <1>2 DEF AppendEvent
  <2>2. /\ events \in Numbers /\ written \in Nat /\ x \in Nat /\ 1 .. x = (1 .. written) \cup {x}
        /\ ToSet(events) \subseteq 1 .. written /\ \A b \in ToSet(blocks) : b \subseteq 1 .. written
        /\ x \notin 1 .. written /\ \A y \in 1 .. written : y < x
    BY DEF ThreadInv, FileTyped
  <2> HIDE DEF x
  <2>3. /\ events' \in Numbers /\ ToSet(events') = ToSet(events) \cup {x}
        /\ Distinct(events) => Distinct(events')
        /\ Ordered(events) => Ordered(events')
    <3>1. x \notin ToSet(events) /\ \A y \in ToSet(events) : y < x
      BY <2>2
    <3>2. QED  BY <2>1, <2>2, <3>1, AddedIs
  <2>4. x <= MaxEvents
    <3>1. written \in Nat /\ MaxEvents \in Nat /\ x = written + 1
      BY ThreadAssumption DEF ThreadInv, FileTyped, x
    <3>2. QED  BY <2>1, <3>1
  <2>5. FileTyped'
    BY <2>1, <2>2, <2>3, <2>4 DEF ThreadInv, FileTyped
  <2>6. FileSound'
    <3>1. cut = "no"
      BY <2>1 DEF ThreadInv, FileTyped
    <3>2. \A b \in ToSet(blocks) : x \notin b
      BY <2>2
    <3>3. apart => Avoid(blocks, events')
      BY <2>3, <3>2 DEF ThreadInv, FileSound, Avoid
    <3>4. QED  BY <2>3, <3>1, <3>3 DEF ThreadInv, FileSound
  <2>7. ASSUME NEW t \in ThreadTurns PROVE RunOK(turn[t], written', events', blocks, excused', apart, calm)
    <3> DEFINE r == turn[t]
    <3>1. RunOK(r, written, events, blocks, excused, apart, calm) /\ r \in ThreadRuns
      BY DEF ThreadInv, TurnsSound, TurnsTyped
    <3>2. r.pc = "replace" => x \in excused'
      BY <2>1 DEF Replacing
    <3>3. excused \subseteq excused'
      BY <2>1
    <3>4. Summary(r.events) \subseteq ToSet(r.events) \/ ~r.compacted
      BY <3>1, TailIs DEF RunOK, RunSound, ThreadRuns
    <3> HIDE DEF r
    <3>5. RunSound(r, written')
      BY <2>1, <2>2, <3>1 DEF RunOK, RunSound
    <3>6. ASSUME apart, Runs(r) PROVE RunApart(r, events', blocks)
      <4>1. RunApart(r, events, blocks) /\ RunSound(r, written)
        BY <3>1, <3>6 DEF RunOK
      <4>2. \A l \in ToSet(r.events) : l < x
        BY <2>2, <4>1 DEF RunSound
      <4>3. r.pc \in {"blocks", "seed", "run", "merge"} =>
              \A e \in ToSet(events') \ ToSet(r.events), l \in ToSet(r.events) : l < e
        BY <2>3, <4>1, <4>2 DEF RunApart
      <4>4. r.pc = "save" /\ r.compacted => Summary(r.events) \cap ToSet(events') = {}
        <5>1. x \notin ToSet(r.events)
          BY <2>2, <4>1 DEF RunSound
        <5>2. QED  BY <2>3, <3>4, <4>1, <5>1 DEF RunApart
      <4>5. QED  BY <4>1, <4>3, <4>4 DEF RunApart
    <3>7. ASSUME calm, Runs(r) PROVE RunCalm(r, events', excused')
      BY <2>3, <3>1, <3>2, <3>3, <3>7 DEF RunOK, RunCalm
    <3>8. RunOK(r, written', events', blocks, excused', apart, calm)
      BY <3>5, <3>6, <3>7 DEF RunOK
    <3>9. QED  BY <3>8 DEF r
  <2>8. ASSUME calm, NEW e \in 1 .. written'
        PROVE  \/ e \in excused' \/ e \in ToSet(events') \/ \E b \in ToSet(blocks) : e \in b
               \/ \E t \in ThreadTurns : e \in Carried(turn[t], cut)
    <3>1. excused \subseteq excused'
      BY <2>1
    <3>2. e = x \/ e \in 1 .. written
      BY <2>1, <2>2
    <3>3. CASE e = x
      BY <2>3, <3>3
    <3>4. CASE e \in 1 .. written
      BY <2>3, <2>8, <3>1, <3>4 DEF ThreadInv, AllFound, Found
    <3>5. QED  BY <3>2, <3>3, <3>4
  <2>9. QED  BY <2>5, <2>6, <2>7, <2>8
<1>3. QED  BY <1>1, <1>2

LEMMA AppendMoveKeeps ==
  ASSUME ThreadInv, AppendEvent, UNCHANGED <<blocks, cut, calm, apart>>, seeded' \in BOOLEAN,
         NEW t \in ThreadTurns, NEW r \in ThreadRuns, turn' = [turn EXCEPT ![t] = r],
         turn[t].pc \notin {"rewrite", "save"}, r.pc # "rewrite", Runs(r) => Runs(turn[t]),
         \A w, es, bs, exc, a, c : RunOK(turn[t], w, es, bs, exc, a, c) => RunOK(r, w, es, bs, exc, a, c)
  PROVE  ThreadInv'
<1>1. TurnsTyped' /\ turn'[t] = r /\ \A u \in ThreadTurns : u # t => turn'[u] = turn[u]
  BY TurnMoves DEF ThreadInv
<1>2. /\ FileTyped' /\ FileSound'
      /\ \A u \in ThreadTurns : RunOK(turn[u], written', events', blocks, excused', apart, calm)
      /\ calm => \A e \in 1 .. written' :
           \/ e \in excused' \/ e \in ToSet(events') \/ \E b \in ToSet(blocks) : e \in b
           \/ \E u \in ThreadTurns : e \in Carried(turn[u], cut)
  BY AppendKeeps
<1>3. OneWriter' /\ OneTurn'
  BY <1>1 DEF ThreadInv, OneWriter, OneTurn
<1>4. \A u \in ThreadTurns : RunOK(turn'[u], written', events', blocks, excused', apart, calm)
  BY <1>1, <1>2
<1>5. TurnsSound'
  BY <1>4 DEF TurnsSound
<1>6. AllFound'
  <2>1. Carried(turn[t], cut) = {}
    BY DEF Carried
  <2>2. \A e : \A u \in ThreadTurns : e \in Carried(turn[u], cut) => e \in Carried(turn'[u], cut)
    BY <1>1, <2>1
  <2>3. calm => \A e \in 1 .. written' :
           \/ e \in excused' \/ e \in ToSet(events') \/ \E b \in ToSet(blocks) : e \in b
           \/ \E u \in ThreadTurns : e \in Carried(turn'[u], cut)
    BY <1>2, <2>2
  <2>4. QED  BY <2>3 DEF AllFound, Found
<1>7. QED  BY <1>1, <1>2, <1>3, <1>5, <1>6 DEF ThreadInv

LEMMA AppendAloneKeeps ==
  ASSUME ThreadInv, AppendEvent, UNCHANGED <<blocks, cut, calm, apart, seeded, turn>>
  PROVE  ThreadInv'
<1>1. /\ FileTyped' /\ FileSound'
      /\ \A u \in ThreadTurns : RunOK(turn[u], written', events', blocks, excused', apart, calm)
      /\ calm => \A e \in 1 .. written' :
           \/ e \in excused' \/ e \in ToSet(events') \/ \E b \in ToSet(blocks) : e \in b
           \/ \E u \in ThreadTurns : e \in Carried(turn[u], cut)
  BY AppendKeeps DEF ThreadInv, FileTyped
<1>2. TurnsSound' /\ AllFound'
  BY <1>1 DEF TurnsSound, AllFound, Found
<1>3. QED  BY <1>1, <1>2 DEF ThreadInv, TurnsTyped, OneWriter, OneTurn

LEMMA TurnIs ==
  ASSUME ThreadInv, NEW t \in ThreadTurns
  PROVE  /\ turn[t] \in ThreadRuns /\ RunOK(turn[t], written, events, blocks, excused, apart, calm)
         /\ calm \in BOOLEAN /\ apart \in BOOLEAN /\ seeded \in BOOLEAN /\ written \in Nat
         /\ events \in Numbers /\ blocks \in BlockLists /\ Len(blocks) <= MaxBlocks
         /\ calm => apart
         /\ Runs(turn[t]) /\ apart => \A u \in ThreadTurns : u # t => ~Runs(turn[u])
         /\ Runs(turn[t]) /\ calm /\ turn[t].pc # "rewrite" => cut = "no"
<1>1. Runs(turn[t]) /\ apart => \A u \in ThreadTurns : u # t => ~Runs(turn[u])
  BY DEF ThreadInv, OneTurn
<1>2. ASSUME cut = "writing", Runs(turn[t]), apart, turn[t].pc # "rewrite" PROVE FALSE
  BY <1>1, <1>2 DEF ThreadInv, OneWriter, Runs
<1>3. QED  BY <1>1, <1>2 DEF ThreadInv, FileTyped, FileSound, TurnsTyped, TurnsSound

LEMMA LoadThreadKeeps ==
  ASSUME ThreadInv, NEW t \in ThreadTurns, NEW readable \in BOOLEAN, Load(t, readable)
  PROVE  ThreadInv'
<1> DEFINE x == IF readable /\ cut = "no" THEN events ELSE <<>>
           r == [[turn[t] EXCEPT !.pc = "blocks"] EXCEPT !.events = x]
<1>1. /\ turn[t].pc = "idle" /\ turn' = [turn EXCEPT ![t].pc = "blocks", ![t].events = x]
      /\ calm' = (calm /\ readable /\ \A u \in ThreadTurns : ~Active(u))
      /\ apart' = (apart /\ \A u \in ThreadTurns : ~Active(u))
      /\ UNCHANGED <<events, blocks, cut, written, seeded, excused>>
  BY DEF Load
<1>2. /\ turn[t] \in ThreadRuns /\ RunSound(turn[t], written) /\ events \in Numbers /\ calm \in BOOLEAN /\ apart \in BOOLEAN
      /\ calm => apart
  BY TurnIs DEF RunOK
<1>3. \A u \in ThreadTurns : Active(u) <=> Runs(turn[u])
  BY DEF Active, Runs
<1>4. x \in Numbers /\ Distinct(x) /\ ToSet(x) \subseteq 1 .. written /\ (x = events \/ x = <<>>)
  BY <1>2, NoNumbers DEF ThreadInv, FileTyped, FileSound
<1>5. calm' => x = events
  BY <1>1, <1>3 DEF ThreadInv, FileTyped, FileSound, OneWriter, Runs
<1>6. apart' => Ordered(x) /\ Avoid(blocks, x) /\ \A e \in ToSet(events) \ ToSet(x), l \in ToSet(x) : l < e
  BY <1>1, <1>4, NoNumbers DEF ThreadInv, FileSound, Avoid
<1> HIDE DEF x
<1>7. turn' = [turn EXCEPT ![t] = r]
  BY <1>1, <1>2 DEF ThreadInv, TurnsTyped, ThreadRuns
<1>8. /\ r \in ThreadRuns /\ r.pc = "blocks" /\ r.events = x /\ r.blocks = turn[t].blocks /\ r.kept = turn[t].kept
      /\ r.compacted = turn[t].compacted
  BY <1>2, <1>4 DEF ThreadRuns, ThreadPcs
<1> HIDE DEF r
<1>9. RunSound(r, written)
  BY <1>1, <1>2, <1>4, <1>8 DEF RunSound
<1>10. apart' => RunApart(r, events, blocks)
  BY <1>6, <1>8 DEF RunApart
<1>11. calm' => RunCalm(r, events, excused)
  BY <1>5, <1>8 DEF RunCalm
<1>12. RunOK(r, written, events, blocks, excused, apart', calm')
  BY <1>9, <1>10, <1>11 DEF RunOK
<1>13. calm' \in BOOLEAN /\ apart' \in BOOLEAN /\ (calm' => calm /\ apart') /\ (apart' => apart)
       /\ (apart' => \A u \in ThreadTurns : u # t => ~Runs(turn[u]))
  BY <1>1, <1>2, <1>3
<1>14. QED  BY <1>1, <1>7, <1>8, <1>12, <1>13, TurnMoveKeeps

LEMMA LoadBlocksKeeps == ASSUME ThreadInv, NEW t \in ThreadTurns, LoadBlocks(t) PROVE ThreadInv'
<1> DEFINE es == turn[t].events
           kept == Retained(es)
           many == TooMany(es)
           r == [[[[turn[t] EXCEPT !.pc = "seed"] EXCEPT !.blocks = blocks] EXCEPT !.compacted = many] EXCEPT !.kept = kept]
<1>1. /\ turn[t].pc = "blocks"
      /\ turn' = [turn EXCEPT ![t].pc = "seed", ![t].blocks = blocks, ![t].compacted = many, ![t].kept = kept]
      /\ UNCHANGED <<events, blocks, cut, written, seeded, excused, calm, apart>>
  BY DEF LoadBlocks
<1>2. /\ turn[t] \in ThreadRuns /\ RunOK(turn[t], written, events, blocks, excused, apart, calm)
      /\ blocks \in BlockLists /\ Len(blocks) <= MaxBlocks /\ calm \in BOOLEAN /\ apart \in BOOLEAN
      /\ calm => apart
      /\ Runs(turn[t]) /\ apart => \A u \in ThreadTurns : u # t => ~Runs(turn[u])
  BY TurnIs
<1>3. es \in Numbers /\ many \in BOOLEAN
  BY <1>2 DEF ThreadRuns, TooMany
<1>4. /\ kept \in Numbers /\ ToSet(kept) \subseteq ToSet(es)
      /\ Distinct(es) => Distinct(kept)
      /\ Ordered(es) => Ordered(kept)
  BY <1>3, RetainedIs
<1>5. \A b \in ToSet(blocks) : b \subseteq 1 .. written
  BY DEF ThreadInv, FileTyped
<1> HIDE DEF kept, many
<1>6. turn' = [turn EXCEPT ![t] = r]
  BY <1>1, <1>2 DEF ThreadInv, TurnsTyped, ThreadRuns
<1>7. /\ r \in ThreadRuns /\ r.pc = "seed" /\ r.events = es /\ r.blocks = blocks /\ r.kept = kept /\ r.compacted = many
  BY <1>2, <1>3, <1>4 DEF ThreadRuns, ThreadPcs
<1> HIDE DEF r
<1>8. RunSound(turn[t], written) /\ Runs(turn[t])
  BY <1>1, <1>2 DEF RunOK, Runs
<1>9. RunSound(r, written)
  BY <1>2, <1>4, <1>5, <1>7, <1>8 DEF RunSound, kept, many
<1>10. apart => RunApart(r, events, blocks)
  <2>1. apart => RunApart(turn[t], events, blocks)
    BY <1>2, <1>8 DEF RunOK
  <2>2. apart => Avoid(blocks, es) /\ Avoid(blocks, kept)
    BY <1>1, <1>4, <2>1 DEF RunApart, Avoid
  <2>3. QED  BY <1>1, <1>4, <1>7, <2>1, <2>2 DEF RunApart
<1>11. calm => RunCalm(r, events, excused)
  BY <1>1, <1>2, <1>7, <1>8 DEF RunOK, RunCalm
<1>12. RunOK(r, written, events, blocks, excused, apart', calm')
  BY <1>1, <1>9, <1>10, <1>11 DEF RunOK
<1>13. QED  BY <1>1, <1>2, <1>6, <1>7, <1>8, <1>12, TurnMoveKeeps

(* The steps that only go on.                                              *)
LEMMA GoTo ==
  ASSUME ThreadInv, NEW t \in ThreadTurns, NEW pc \in ThreadPcs, ThreadGo(t, pc)
  PROVE  \E r \in ThreadRuns :
           /\ turn' = [turn EXCEPT ![t] = r]
           /\ r.pc = pc /\ r.events = turn[t].events /\ r.blocks = turn[t].blocks /\ r.kept = turn[t].kept
           /\ r.compacted = turn[t].compacted
<1> DEFINE r == [turn[t] EXCEPT !.pc = pc]
<1>1. turn[t] \in ThreadRuns
  BY TurnIs
<1>2. turn' = [turn EXCEPT ![t] = r]
  BY DEF ThreadGo
<1>3. /\ r \in ThreadRuns /\ r.pc = pc /\ r.events = turn[t].events /\ r.blocks = turn[t].blocks /\ r.kept = turn[t].kept
      /\ r.compacted = turn[t].compacted
  BY <1>1 DEF ThreadRuns
<1>4. QED  BY <1>2, <1>3

\* From the seed into the run, or out of the run.
LEMMA GoesOnSound ==
  ASSUME NEW q, NEW r, r.events = q.events, r.blocks = q.blocks, r.kept = q.kept, r.compacted = q.compacted,
         \/ q.pc = "seed" /\ r.pc = "run"
         \/ q.pc \in {"run", "tell"} /\ r.pc = "over"
         \/ q.pc = "tell" /\ r.pc = "tell"
  PROVE  \A w, es, bs, exc, a, c : RunOK(q, w, es, bs, exc, a, c) => RunOK(r, w, es, bs, exc, a, c)
<1> SUFFICES ASSUME NEW w, NEW es, NEW bs, NEW exc, NEW a, NEW c, RunOK(q, w, es, bs, exc, a, c)
             PROVE  RunOK(r, w, es, bs, exc, a, c)
  OBVIOUS
<1>1. RunSound(r, w)
  BY DEF RunOK, RunSound
<1>2. ASSUME a, Runs(r) PROVE RunApart(r, es, bs)
  BY <1>2 DEF RunOK, RunApart, Runs
<1>3. ASSUME c, Runs(r) PROVE RunCalm(r, es, exc)
  BY <1>3 DEF RunOK, RunCalm, Runs
<1>4. QED  BY <1>1, <1>2, <1>3 DEF RunOK

LEMMA SeedKeeps ==
  ASSUME ThreadInv, NEW t \in ThreadTurns, Seed(t) \/ NoSeed(t) \/ RunFails(t) PROVE ThreadInv'
<1>1. PICK pc \in {"run", "over"} :
        ThreadGo(t, pc) /\ ((turn[t].pc = "seed" /\ pc = "run") \/ (turn[t].pc = "run" /\ pc = "over"))
  <2>1. CASE Seed(t) \/ NoSeed(t)
    <3>1. turn[t].pc = "seed" /\ ThreadGo(t, "run")
      BY <2>1 DEF Seed, NoSeed
    <3>2. QED  BY <3>1
  <2>2. CASE RunFails(t)
    <3>1. turn[t].pc = "run" /\ ThreadGo(t, "over")
      BY <2>2 DEF RunFails
    <3>2. QED  BY <3>1
  <2>3. QED  BY <2>1, <2>2
<1>2. PICK r \in ThreadRuns :
        /\ turn' = [turn EXCEPT ![t] = r]
        /\ r.pc = pc /\ r.events = turn[t].events /\ r.blocks = turn[t].blocks /\ r.kept = turn[t].kept
        /\ r.compacted = turn[t].compacted
  <2>1. pc \in ThreadPcs
    BY DEF ThreadPcs
  <2>2. QED  BY <1>1, <2>1, GoTo
<1>3. \A w, es, bs, exc, a, c : RunOK(turn[t], w, es, bs, exc, a, c) => RunOK(r, w, es, bs, exc, a, c)
  BY <1>1, <1>2, GoesOnSound
<1>4. Runs(turn[t]) /\ turn[t].pc \notin {"rewrite", "save"} /\ r.pc # "rewrite"
  BY <1>1, <1>2 DEF Runs
<1>5. CASE Seed(t)
  BY <1>2, <1>3, <1>4, <1>5, AppendMoveKeeps DEF Seed
<1>6. CASE NoSeed(t) \/ RunFails(t)
  <2>1. UNCHANGED <<events, blocks, cut, written, seeded, excused, calm, apart>>
    BY <1>6 DEF NoSeed, RunFails
  <2>2. /\ RunOK(turn[t], written, events, blocks, excused, apart, calm) /\ calm \in BOOLEAN /\ apart \in BOOLEAN
        /\ calm => apart
        /\ apart => \A u \in ThreadTurns : u # t => ~Runs(turn[u])
    BY <1>4, TurnIs
  <2>3. QED  BY <1>2, <1>3, <1>4, <2>1, <2>2, TurnMoveKeeps
<1>7. QED  BY <1>5, <1>6

LEMMA RunSucceedsKeeps == ASSUME ThreadInv, NEW t \in ThreadTurns, RunSucceeds(t) PROVE ThreadInv'
<1> DEFINE pc == IF turn[t].compacted THEN "merge" ELSE "save"
           two == 2
           r == [[turn[t] EXCEPT !.pc = pc] EXCEPT !.left = two]
<1>1. /\ turn[t].pc = "run" /\ turn' = [turn EXCEPT ![t].pc = pc, ![t].left = two]
      /\ UNCHANGED <<events, blocks, cut, written, seeded, excused, calm, apart>>
  BY DEF RunSucceeds
<1>2. /\ turn[t] \in ThreadRuns /\ RunOK(turn[t], written, events, blocks, excused, apart, calm)
      /\ calm \in BOOLEAN /\ apart \in BOOLEAN
      /\ calm => apart
      /\ Runs(turn[t]) /\ apart => \A u \in ThreadTurns : u # t => ~Runs(turn[u])
  BY TurnIs
<1>3. Runs(turn[t]) /\ pc \in ThreadPcs /\ pc \in {"merge", "save"} /\ (pc = "merge" <=> turn[t].compacted = TRUE)
  BY <1>1, <1>2 DEF Runs, ThreadPcs, ThreadRuns
<1> two \in Lefts
  BY DEF Lefts
<1> HIDE DEF pc, two
<1>4. turn' = [turn EXCEPT ![t] = r]
  BY <1>1, <1>2 DEF ThreadInv, TurnsTyped, ThreadRuns
<1>5. /\ r \in ThreadRuns /\ r.pc = pc /\ r.events = turn[t].events /\ r.blocks = turn[t].blocks /\ r.kept = turn[t].kept
      /\ r.compacted = turn[t].compacted
  BY <1>2, <1>3 DEF ThreadRuns
<1> HIDE DEF r
<1>6. RunSound(turn[t], written) /\ turn[t].events \in Numbers /\ turn[t].compacted \in BOOLEAN
  BY <1>2 DEF RunOK, ThreadRuns
<1>7. pc = "merge" => Summary(turn[t].events) \cap ToSet(turn[t].kept) = {}
  <2> SUFFICES ASSUME pc = "merge" PROVE Summary(turn[t].events) \cap ToSet(turn[t].kept) = {}
    OBVIOUS
  <2>1. TooMany(turn[t].events) /\ Distinct(turn[t].events) /\ turn[t].kept = Retained(turn[t].events)
    BY <1>1, <1>3, <1>6 DEF RunSound
  <2>2. QED  BY <1>6, <2>1, TailIs
<1>8. RunSound(r, written)
  BY <1>1, <1>3, <1>5, <1>6, <1>7 DEF RunSound
<1>9. apart => RunApart(r, events, blocks)
  BY <1>1, <1>2, <1>3, <1>5, <1>6 DEF RunOK, RunApart
<1>10. calm => RunCalm(r, events, excused)
  BY <1>1, <1>2, <1>3, <1>5 DEF RunOK, RunCalm
<1>11. RunOK(r, written, events, blocks, excused, apart', calm')
  BY <1>1, <1>8, <1>9, <1>10 DEF RunOK
<1>12. turn[t].pc \notin {"rewrite", "save"} /\ r.pc # "rewrite"
  BY <1>1, <1>3, <1>5
<1>13. QED  BY <1>1, <1>2, <1>3, <1>4, <1>5, <1>11, <1>12, TurnMoveKeeps

LEMMA MergeKeeps ==
  ASSUME ThreadInv, NEW t \in ThreadTurns, NEW readable \in BOOLEAN, Merge(t, readable)
  PROVE  ThreadInv'
<1> DEFINE q == turn[t]
           since == AppendedSince(q.events)
           kept == IF readable /\ cut = "no" THEN q.kept \o since ELSE q.kept
           r == [[turn[t] EXCEPT !.pc = "replace"] EXCEPT !.kept = kept]
<1>1. /\ turn[t].pc = "merge" /\ turn' = [turn EXCEPT ![t].pc = "replace", ![t].kept = kept]
      /\ calm' = (calm /\ readable)
      /\ UNCHANGED <<events, blocks, cut, written, seeded, excused, apart>>
  BY DEF Merge
<1>2. /\ turn[t] \in ThreadRuns /\ RunOK(q, written, events, blocks, excused, apart, calm)
      /\ calm \in BOOLEAN /\ apart \in BOOLEAN /\ events \in Numbers
      /\ calm => apart
      /\ Runs(q) /\ apart => \A u \in ThreadTurns : u # t => ~Runs(turn[u])
      /\ Runs(q) /\ calm /\ q.pc # "rewrite" => cut = "no"
  BY TurnIs
<1>3. Runs(q) /\ q.pc = "merge"
  BY <1>1 DEF Runs
<1>4. /\ RunSound(q, written) /\ q.kept = Retained(q.events) /\ q.compacted /\ TooMany(q.events)
      /\ Distinct(q.events) /\ Distinct(q.kept) /\ q.events \in Numbers /\ q.kept \in Numbers
      /\ Summary(q.events) \cap ToSet(q.kept) = {}
      /\ ToSet(q.kept) \subseteq 1 .. written
  BY <1>2, <1>3 DEF RunOK, RunSound, ThreadRuns
<1>5. ToSet(q.events) = Summary(q.events) \cup ToSet(q.kept)
  BY <1>4, TailIs
<1>6. /\ since \in Numbers /\ ToSet(since) = ToSet(events) \ ToSet(q.events)
      /\ Distinct(events) => Distinct(since)
      /\ Ordered(events) => Ordered(since)
  BY <1>2, SinceIs
<1>7. Distinct(events) /\ (apart => Ordered(events) /\ Avoid(blocks, events)) /\ ToSet(events) \subseteq 1 .. written
  BY DEF ThreadInv, FileSound, FileTyped
<1>8. apart => RunApart(q, events, blocks)
  BY <1>2, <1>3 DEF RunOK
<1>9. calm => RunCalm(q, events, excused)
  BY <1>2, <1>3 DEF RunOK
<1>10. turn[t] = q /\ q \in ThreadRuns
  BY <1>2
<1> HIDE DEF q, since
<1> DEFINE both == q.kept \o since
<1>11. /\ both \in Numbers /\ ToSet(both) = ToSet(q.kept) \cup ToSet(since)
       /\ Distinct(q.kept) /\ Distinct(since) /\ ToSet(q.kept) \cap ToSet(since) = {} => Distinct(both)
       /\ Ordered(q.kept) /\ Ordered(since) /\ (\A x \in ToSet(q.kept), y \in ToSet(since) : x < y) => Ordered(both)
  BY <1>4, <1>6, JoinedIs
<1>12. kept = both \/ kept = q.kept
  OBVIOUS
<1>13. calm' => kept = both
  BY <1>1, <1>2, <1>3
<1> HIDE DEF both, kept
<1>14. kept \in Numbers /\ Distinct(kept) /\ ToSet(kept) \subseteq ToSet(q.kept) \cup ToSet(since)
  BY <1>4, <1>5, <1>6, <1>7, <1>11, <1>12
<1>15. apart => Ordered(kept) /\ Avoid(blocks, kept)
  <2> SUFFICES ASSUME apart PROVE Ordered(kept) /\ Avoid(blocks, kept)
    OBVIOUS
  <2>1. /\ Ordered(q.kept) /\ Avoid(blocks, q.kept)
        /\ \A e \in ToSet(events) \ ToSet(q.events), l \in ToSet(q.events) : l < e
    BY <1>3, <1>8 DEF RunApart
  <2>2. \A x \in ToSet(q.kept), y \in ToSet(since) : x < y
    BY <1>5, <1>6, <2>1
  <2>3. Ordered(kept)
    BY <1>6, <1>7, <1>11, <1>12, <2>1, <2>2
  <2>4. Avoid(blocks, kept)
    BY <1>6, <1>7, <1>14, <2>1 DEF Avoid
  <2>5. QED  BY <2>3, <2>4
<1>16. turn' = [turn EXCEPT ![t] = r]
  BY <1>1, <1>10 DEF ThreadInv, TurnsTyped, ThreadRuns
<1>17. /\ r \in ThreadRuns /\ r.pc = "replace" /\ r.events = q.events /\ r.blocks = q.blocks /\ r.kept = kept
       /\ r.compacted = q.compacted
  BY <1>10, <1>14 DEF ThreadRuns, ThreadPcs
<1> HIDE DEF r
<1>18. RunSound(r, written)
  <2>1. ToSet(kept) \subseteq 1 .. written
    BY <1>4, <1>6, <1>7, <1>14
  <2>2. Summary(r.events) \cap ToSet(r.kept) = {}
    BY <1>4, <1>5, <1>6, <1>14, <1>17
  <2>3. QED  BY <1>4, <1>14, <1>17, <2>1, <2>2 DEF RunSound
<1>19. apart => RunApart(r, events, blocks)
  BY <1>3, <1>8, <1>15, <1>17 DEF RunApart
<1>20. calm' => RunCalm(r, events, excused)
  <2>1. calm' => ToSet(events) \subseteq ToSet(r.kept) \cup Summary(r.events) \cup excused
    BY <1>5, <1>6, <1>11, <1>13, <1>17
  <2>2. QED  BY <1>17, <2>1 DEF RunCalm
<1>21. RunOK(r, written, events, blocks, excused, apart', calm')
  BY <1>1, <1>18, <1>19, <1>20 DEF RunOK
<1>22. turn[t].pc \notin {"rewrite", "save"} /\ r.pc # "rewrite"
  BY <1>1, <1>17
<1>23. calm' \in BOOLEAN /\ (calm' => calm /\ apart')
  BY <1>1, <1>2
<1>24. QED  BY <1>1, <1>2, <1>3, <1>16, <1>17, <1>21, <1>22, <1>23, TurnMoveKeeps

(* The steps that change the files.  While turns do not overlap, the other *)
(* turns are not in theirs.                                                *)
LEMMA OthersKeep ==
  ASSUME ThreadInv, NEW t \in ThreadTurns, Runs(turn[t]), NEW es, NEW bs, NEW exc
  PROVE  \A u \in ThreadTurns : u # t => RunOK(turn[u], written, es, bs, exc, apart, calm)
<1>1. apart => \A u \in ThreadTurns : u # t => ~Runs(turn[u])
  BY TurnIs
<1>2. calm => apart
  BY TurnIs
<1>3. \A u \in ThreadTurns : RunSound(turn[u], written)
  BY DEF ThreadInv, TurnsSound, RunOK
<1>4. QED  BY <1>1, <1>2, <1>3 DEF RunOK

LEMMA TruncateEventsKeeps == ASSUME ThreadInv, NEW t \in ThreadTurns, TruncateEvents(t) PROVE ThreadInv'
<1>1. /\ turn[t].pc = "replace" /\ cut # "writing" /\ cut' = "writing" /\ events' = <<>> /\ ThreadGo(t, "rewrite")
      /\ UNCHANGED <<blocks, written, seeded, excused, calm, apart>>
  BY DEF TruncateEvents
<1>2. PICK r \in ThreadRuns :
        /\ turn' = [turn EXCEPT ![t] = r]
        /\ r.pc = "rewrite" /\ r.events = turn[t].events /\ r.blocks = turn[t].blocks /\ r.kept = turn[t].kept
        /\ r.compacted = turn[t].compacted
  BY <1>1, GoTo DEF ThreadPcs
<1>3. TurnsTyped' /\ turn'[t] = r /\ \A u \in ThreadTurns : u # t => turn'[u] = turn[u]
  BY <1>2, TurnMoves DEF ThreadInv
<1>4. /\ RunOK(turn[t], written, events, blocks, excused, apart, calm) /\ Runs(turn[t]) /\ calm \in BOOLEAN
      /\ calm => apart /\ cut = "no"
      /\ apart => \A u \in ThreadTurns : u # t => ~Runs(turn[u])
  BY <1>1, TurnIs DEF Runs
<1>5. events' \in Numbers /\ ToSet(events') = {} /\ Distinct(events') /\ Ordered(events')
  BY <1>1, NoNumbers
<1>6. FileTyped'
  BY <1>1, <1>5 DEF ThreadInv, FileTyped
<1>7. FileSound'
  BY <1>1, <1>4, <1>5 DEF ThreadInv, FileSound, Avoid
<1>8. OneWriter' /\ OneTurn'
  BY <1>1, <1>2, <1>3, <1>4 DEF ThreadInv, OneWriter, OneTurn
<1>9. RunOK(r, written, events', blocks, excused, apart, calm)
  <2>1. RunSound(r, written)
    BY <1>1, <1>2, <1>4 DEF RunOK, RunSound
  <2>2. apart => RunApart(r, events', blocks)
    BY <1>1, <1>2, <1>4 DEF RunOK, RunApart
  <2>3. RunCalm(r, events', excused)
    BY <1>2 DEF RunCalm
  <2>4. QED  BY <2>1, <2>2, <2>3 DEF RunOK
<1>10. TurnsSound'
  <2>1. \A u \in ThreadTurns : u # t => RunOK(turn[u], written, events', blocks, excused, apart, calm)
    BY <1>4, OthersKeep
  <2>2. \A u \in ThreadTurns : RunOK(turn'[u], written, events', blocks, excused, apart, calm)
    BY <1>3, <1>9, <2>1
  <2>3. QED  BY <1>1, <2>2 DEF TurnsSound
<1>11. AllFound'
  <2> SUFFICES ASSUME calm, NEW e \in 1 .. written PROVE Found(e)'
    BY <1>1 DEF AllFound
  <2>1. Found(e)
    BY DEF ThreadInv, AllFound
  <2>2. Carried(r, "writing") = Summary(r.events) \cup ToSet(r.kept)
    BY <1>1, <1>2, <1>4 DEF Carried, RunOK, RunSound
  <2>3. e \in ToSet(events) => e \in excused \/ e \in Carried(r, "writing")
    BY <1>1, <1>2, <1>4, <2>2 DEF RunOK, RunCalm
  <2>4. \A u \in ThreadTurns : Carried(turn[u], cut) = {}
    BY <1>1, <1>4 DEF Carried, Runs
  <2>5. QED  BY <1>1, <1>3, <2>1, <2>3, <2>4 DEF Found
<1>12. QED  BY <1>3, <1>6, <1>7, <1>8, <1>10, <1>11 DEF ThreadInv

LEMMA RewriteKeeps == ASSUME ThreadInv, NEW t \in ThreadTurns, Rewrite(t) PROVE ThreadInv'
<1>1. /\ turn[t].pc = "rewrite" /\ cut' = "no" /\ events' = turn[t].kept /\ ThreadGo(t, "save")
      /\ UNCHANGED <<blocks, written, seeded, excused, calm, apart>>
  BY DEF Rewrite
<1>2. PICK r \in ThreadRuns :
        /\ turn' = [turn EXCEPT ![t] = r]
        /\ r.pc = "save" /\ r.events = turn[t].events /\ r.blocks = turn[t].blocks /\ r.kept = turn[t].kept
        /\ r.compacted = turn[t].compacted
  BY <1>1, GoTo DEF ThreadPcs
<1>3. TurnsTyped' /\ turn'[t] = r /\ \A u \in ThreadTurns : u # t => turn'[u] = turn[u]
  BY <1>2, TurnMoves DEF ThreadInv
<1>4. /\ RunOK(turn[t], written, events, blocks, excused, apart, calm) /\ Runs(turn[t]) /\ calm \in BOOLEAN
      /\ turn[t] \in ThreadRuns
      /\ calm => apart
      /\ apart => \A u \in ThreadTurns : u # t => ~Runs(turn[u])
  BY <1>1, TurnIs DEF Runs
<1>5. RunSound(turn[t], written) /\ turn[t].kept \in Numbers /\ (apart => RunApart(turn[t], events, blocks))
  BY <1>4 DEF RunOK, ThreadRuns
<1>6. cut = "writing" /\ events = <<>>
  BY <1>1 DEF ThreadInv, OneWriter, FileSound
<1>7. FileTyped'
  BY <1>1, <1>5 DEF ThreadInv, FileTyped, RunSound
<1>8. FileSound'
  BY <1>1, <1>5 DEF ThreadInv, FileSound, RunSound, RunApart
<1>9. OneWriter' /\ OneTurn'
  BY <1>1, <1>2, <1>3, <1>4 DEF ThreadInv, OneWriter, OneTurn
<1>10. RunOK(r, written, events', blocks, excused, apart, calm)
  <2>1. RunSound(r, written)
    BY <1>1, <1>2, <1>5 DEF RunSound
  <2>2. apart => RunApart(r, events', blocks)
    BY <1>1, <1>2, <1>5 DEF RunSound, RunApart
  <2>3. RunCalm(r, events', excused)
    BY <1>2 DEF RunCalm
  <2>4. QED  BY <2>1, <2>2, <2>3 DEF RunOK
<1>11. TurnsSound'
  <2>1. \A u \in ThreadTurns : u # t => RunOK(turn[u], written, events', blocks, excused, apart, calm)
    BY <1>4, OthersKeep
  <2>2. \A u \in ThreadTurns : RunOK(turn'[u], written, events', blocks, excused, apart, calm)
    BY <1>3, <1>10, <2>1
  <2>3. QED  BY <1>1, <2>2 DEF TurnsSound
<1>12. AllFound'
  <2> SUFFICES ASSUME calm, NEW e \in 1 .. written PROVE Found(e)'
    BY <1>1 DEF AllFound
  <2>1. Found(e) /\ e \notin ToSet(events)
    BY <1>6, NoNumbers DEF ThreadInv, AllFound
  <2>2. Carried(r, "no") = Summary(r.events)
    BY <1>1, <1>2, <1>5 DEF Carried, RunSound
  <2>3. Carried(turn[t], cut) = Summary(r.events) \cup ToSet(events')
    BY <1>1, <1>2, <1>5, <1>6 DEF Carried, RunSound
  <2>4. \A u \in ThreadTurns : u # t => Carried(turn[u], cut) = {}
    BY <1>4 DEF Carried, Runs
  <2>5. QED  BY <1>1, <1>3, <2>1, <2>2, <2>3, <2>4 DEF Found
<1>13. QED  BY <1>3, <1>7, <1>8, <1>9, <1>11, <1>12 DEF ThreadInv

LEMMA ReplaceFailsKeeps == ASSUME ThreadInv, NEW t \in ThreadTurns, ReplaceFails(t) PROVE ThreadInv'
<1>1. /\ turn[t].pc = "replace" /\ calm' = FALSE /\ apart' = FALSE /\ ThreadGo(t, "save")
      /\ UNCHANGED <<events, blocks, cut, written, seeded, excused>>
  BY DEF ReplaceFails
<1>2. PICK r \in ThreadRuns :
        /\ turn' = [turn EXCEPT ![t] = r]
        /\ r.pc = "save" /\ r.events = turn[t].events /\ r.blocks = turn[t].blocks /\ r.kept = turn[t].kept
        /\ r.compacted = turn[t].compacted
  BY <1>1, GoTo DEF ThreadPcs
<1>3. RunSound(turn[t], written)
  BY TurnIs DEF RunOK
<1>4. RunOK(r, written, events, blocks, excused, FALSE, FALSE)
  BY <1>1, <1>2, <1>3 DEF RunOK, RunSound
<1>5. RunOK(r, written, events, blocks, excused, apart', calm')
  BY <1>1, <1>4
<1>6. turn[t].pc \notin {"rewrite", "save"} /\ r.pc # "rewrite"
  BY <1>1, <1>2
<1>7. QED  BY <1>1, <1>2, <1>5, <1>6, TurnMoveKeeps

LEMMA SaveBlocksKeeps == ASSUME ThreadInv, NEW t \in ThreadTurns, SaveBlocks(t) PROVE ThreadInv'
<1> DEFINE q == turn[t]
           new == Summary(q.events)
<1>1. /\ q.pc = "save"
      /\ blocks' = IF q.compacted THEN MergeBlocks(q.blocks, new) ELSE IF q.blocks = <<>> THEN blocks ELSE q.blocks
      /\ excused' = excused \cup UNION (ToSet(q.blocks) \ ToSet(blocks'))
      /\ ThreadGo(t, "tell")
      /\ UNCHANGED <<events, cut, written, seeded, calm, apart>>
  BY DEF SaveBlocks
<1>2. PICK r \in ThreadRuns :
        /\ turn' = [turn EXCEPT ![t] = r]
        /\ r.pc = "tell" /\ r.events = q.events /\ r.blocks = q.blocks /\ r.kept = q.kept /\ r.compacted = q.compacted
  BY <1>1, GoTo DEF ThreadPcs
<1>3. TurnsTyped' /\ turn'[t] = r /\ \A u \in ThreadTurns : u # t => turn'[u] = turn[u]
  BY <1>2, TurnMoves DEF ThreadInv
<1>4. /\ RunOK(q, written, events, blocks, excused, apart, calm) /\ Runs(q) /\ q \in ThreadRuns
      /\ calm => apart /\ cut = "no"
      /\ apart => \A u \in ThreadTurns : u # t => ~Runs(turn[u])
      /\ blocks \in BlockLists /\ Len(blocks) <= MaxBlocks
  BY <1>1, TurnIs DEF Runs
<1>5. /\ RunSound(q, written) /\ q.events \in Numbers /\ q.blocks \in BlockLists /\ Len(q.blocks) <= MaxBlocks
      /\ q.compacted \in BOOLEAN
      /\ \A b \in ToSet(q.blocks) : b \subseteq 1 .. written
      /\ apart => RunApart(q, events, blocks)
  BY <1>4 DEF RunOK, RunSound, ThreadRuns
<1>6. /\ \A b \in ToSet(blocks) : b \subseteq 1 .. written
      /\ apart => Apart(blocks) /\ Avoid(blocks, events)
      /\ written \in Nat
  BY DEF ThreadInv, FileTyped, FileSound
<1>7. q.compacted => new \subseteq ToSet(q.events) /\ new \in SUBSET Nat /\ new \subseteq 1 .. written
  <2> SUFFICES ASSUME q.compacted PROVE new \subseteq ToSet(q.events) /\ new \in SUBSET Nat /\ new \subseteq 1 .. written
    OBVIOUS
  <2>1. TooMany(q.events) /\ ToSet(q.events) \subseteq 1 .. written
    BY <1>5 DEF RunSound
  <2>2. new \subseteq ToSet(q.events) /\ ToSet(q.events) \subseteq Nat
    BY <1>5, <2>1, TailIs, NumbersAre
  <2>3. QED  BY <2>1, <2>2
<1>8. apart => q.blocks = blocks /\ Avoid(blocks, q.events) /\ (q.compacted => new \cap ToSet(events) = {})
  BY <1>1, <1>5 DEF RunApart
<1>9. \A u \in ThreadTurns : u # t => RunOK(turn[u], written, events, blocks', excused', apart, calm)
  BY <1>4, OthersKeep
<1>10. turn[t] = q
  OBVIOUS
<1> HIDE DEF q, new
<1>11. /\ blocks' \in BlockLists /\ Len(blocks') <= MaxBlocks
       /\ \A b \in ToSet(blocks') : b \subseteq 1 .. written
       /\ apart => Apart(blocks') /\ Avoid(blocks', events)
       /\ apart => \A b \in ToSet(blocks) : b \in ToSet(blocks') \/ b \subseteq excused'
       /\ apart /\ q.compacted => new \in ToSet(blocks') \/ new \subseteq excused'
  <2>1. CASE q.compacted
    <3>1. blocks' = MergeBlocks(q.blocks, new)
      BY <1>1, <2>1
    <3>2. /\ blocks' \in BlockLists /\ Len(blocks') <= MaxBlocks
          /\ ToSet(blocks') \subseteq ToSet(q.blocks) \cup {new}
          /\ new \in ToSet(q.blocks) \cup ToSet(blocks')
          /\ Apart(q.blocks) /\ (\A b \in ToSet(q.blocks) : b \cap new = {}) => Apart(blocks')
      BY <1>5, <1>7, <2>1, <3>1, MergedBlocks
    <3>3. \A b \in ToSet(blocks') : b \subseteq 1 .. written
      BY <1>5, <1>7, <2>1, <3>2
    <3>4. \A b \in ToSet(q.blocks) : b \in ToSet(blocks') \/ b \subseteq excused'
      BY <1>1
    <3>5. apart => Apart(blocks')
      BY <1>6, <1>7, <1>8, <2>1, <3>2 DEF Avoid
    <3>6. apart => Avoid(blocks', events)
      BY <1>6, <1>8, <2>1, <3>2 DEF Avoid
    <3>7. new \in ToSet(blocks') \/ new \subseteq excused'
      BY <3>2, <3>4
    <3>8. QED  BY <1>8, <3>2, <3>3, <3>4, <3>5, <3>6, <3>7
  <2>2. CASE ~q.compacted
    <3>1. blocks' = blocks \/ blocks' = q.blocks
      BY <1>1, <2>2
    <3>2. apart => blocks' = blocks
      BY <1>8, <3>1
    <3>3. QED  BY <1>4, <1>5, <1>6, <2>2, <3>1, <3>2
  <2>3. QED  BY <1>5, <2>1, <2>2
<1>12. FileTyped' /\ FileSound'
  BY <1>1, <1>11 DEF ThreadInv, FileTyped, FileSound
<1>13. OneWriter' /\ OneTurn'
  BY <1>1, <1>2, <1>3, <1>4, <1>10 DEF ThreadInv, OneWriter, OneTurn
<1>14. RunOK(r, written, events, blocks', excused', apart, calm)
  <2>1. RunSound(r, written)
    BY <1>1, <1>2, <1>5 DEF RunSound
  <2>2. apart => RunApart(r, events, blocks')
    BY <1>1, <1>2, <1>5 DEF RunApart
  <2>3. RunCalm(r, events, excused')
    BY <1>2 DEF RunCalm
  <2>4. QED  BY <2>1, <2>2, <2>3 DEF RunOK
<1>15. TurnsSound'
  <2>1. \A u \in ThreadTurns : RunOK(turn'[u], written, events, blocks', excused', apart, calm)
    BY <1>3, <1>9, <1>14
  <2>2. QED  BY <1>1, <2>1 DEF TurnsSound
<1>16. AllFound'
  <2> SUFFICES ASSUME calm, NEW e \in 1 .. written PROVE Found(e)'
    BY <1>1 DEF AllFound
  <2>1. Found(e) /\ apart /\ cut = "no"
    BY <1>4 DEF ThreadInv, AllFound
  <2>2. e \in excused => e \in excused'
    BY <1>1
  <2>3. \A b \in ToSet(blocks) : e \in b => e \in excused' \/ \E c \in ToSet(blocks') : e \in c
    BY <1>11, <2>1
  <2>4. e \in Carried(q, cut) => q.compacted /\ e \in new
    BY <2>1 DEF Carried, new
  <2>5. e \in Carried(q, cut) => e \in excused' \/ \E c \in ToSet(blocks') : e \in c
    BY <1>11, <2>1, <2>4
  <2>6. \A u \in ThreadTurns : u # t => Carried(turn[u], cut) = {}
    BY <1>4, <2>1 DEF Carried, Runs
  <2>7. e \in excused' \/ e \in ToSet(events') \/ \E c \in ToSet(blocks') : e \in c
    BY <1>1, <1>10, <2>1, <2>2, <2>3, <2>5, <2>6 DEF Found
  <2>8. QED  BY <2>7 DEF Found
<1>17. QED  BY <1>3, <1>12, <1>13, <1>15, <1>16 DEF ThreadInv

LEMMA TellKeeps == ASSUME ThreadInv, NEW t \in ThreadTurns, Tell(t) PROVE ThreadInv'
<1> DEFINE pc == IF turn[t].left = 1 THEN "over" ELSE "tell"
           left == turn[t].left - 1
           r == [[turn[t] EXCEPT !.left = left] EXCEPT !.pc = pc]
<1>1. /\ turn[t].pc = "tell" /\ AppendEvent /\ turn' = [turn EXCEPT ![t].left = left, ![t].pc = pc]
      /\ UNCHANGED <<blocks, cut, seeded, calm, apart>>
  BY DEF Tell
<1>2. turn[t] \in ThreadRuns /\ seeded \in BOOLEAN
  BY TurnIs
<1>3. left \in Lefts /\ pc \in {"over", "tell"} /\ pc \in ThreadPcs
  BY <1>2 DEF ThreadRuns, Lefts, ThreadPcs
<1> HIDE DEF pc, left
<1>4. turn' = [turn EXCEPT ![t] = r]
  BY <1>1, <1>2 DEF ThreadInv, TurnsTyped, ThreadRuns
<1>5. /\ r \in ThreadRuns /\ r.pc = pc /\ r.events = turn[t].events /\ r.blocks = turn[t].blocks /\ r.kept = turn[t].kept
      /\ r.compacted = turn[t].compacted
  BY <1>2, <1>3 DEF ThreadRuns
<1> HIDE DEF r
<1>6. \A w, es, bs, exc, a, c : RunOK(turn[t], w, es, bs, exc, a, c) => RunOK(r, w, es, bs, exc, a, c)
  BY <1>1, <1>3, <1>5, GoesOnSound
<1>7. Runs(turn[t]) /\ turn[t].pc \notin {"rewrite", "save"} /\ r.pc # "rewrite"
  BY <1>1, <1>3, <1>5 DEF Runs
<1>8. QED  BY <1>1, <1>2, <1>4, <1>5, <1>6, <1>7, AppendMoveKeeps

LEMMA AgainKeeps == ASSUME ThreadInv, NEW t \in ThreadTurns, Again(t) PROVE ThreadInv'
<1>1. /\ turn[t].pc = "over" /\ turn' = [turn EXCEPT ![t] = Fresh]
      /\ UNCHANGED <<events, blocks, cut, written, seeded, excused, calm, apart>>
  BY DEF Again
<1>2. /\ written \in Nat /\ calm \in BOOLEAN /\ apart \in BOOLEAN
      /\ calm => apart
  BY TurnIs
<1>3. Fresh \in ThreadRuns /\ Fresh.pc = "idle" /\ RunOK(Fresh, written, events, blocks, excused, apart, calm)
  BY <1>2, FreshIs
<1>4. turn[t].pc \notin {"rewrite", "save"} /\ Fresh.pc # "rewrite" /\ ~Runs(Fresh)
  BY <1>1, <1>3 DEF Runs
<1> HIDE DEF Fresh
<1>5. QED  BY <1>1, <1>2, <1>3, <1>4, TurnMoveKeeps

LEMMA CrashKeeps == ASSUME ThreadInv, Crash PROVE ThreadInv'
<1>1. turn' = [t \in ThreadTurns |-> Fresh] /\ UNCHANGED <<blocks, written, seeded, excused, apart>>
  BY DEF Crash
<1>2. Fresh \in ThreadRuns /\ Fresh.pc = "idle"
  BY FreshIs
<1>3. \A t \in ThreadTurns : turn'[t] = Fresh
  BY <1>1
<1>4. TurnsTyped'
  BY <1>1, <1>2 DEF TurnsTyped
<1>5. \/ /\ cut # "writing" /\ UNCHANGED <<cut, events>>
         /\ calm' = (calm /\ \A t \in ThreadTurns : ~Active(t))
      \/ cut' \in {"no", "broken"} /\ events' = <<>> /\ calm' = FALSE
  BY DEF Crash
<1>6. FileTyped' /\ FileSound' /\ cut' # "writing"
  <2>1. CASE /\ cut # "writing" /\ UNCHANGED <<cut, events>>
             /\ calm' = (calm /\ \A t \in ThreadTurns : ~Active(t))
    BY <1>1, <2>1 DEF ThreadInv, FileTyped, FileSound
  <2>2. CASE cut' \in {"no", "broken"} /\ events' = <<>> /\ calm' = FALSE
    <3>1. events' \in Numbers /\ ToSet(events') = {} /\ Distinct(events') /\ Ordered(events')
      BY <2>2, NoNumbers
    <3>2. QED  BY <1>1, <2>2, <3>1 DEF ThreadInv, FileTyped, FileSound, Avoid
  <2>3. QED  BY <1>5, <2>1, <2>2
<1>7. OneWriter' /\ OneTurn'
  BY <1>2, <1>3, <1>6 DEF OneWriter, OneTurn, Runs
<1>8. TurnsSound'
  <2>1. written' \in Nat
    BY <1>6 DEF FileTyped
  <2>2. \A t \in ThreadTurns : RunOK(turn'[t], written', events', blocks', excused', apart', calm')
    BY <1>3, <2>1, FreshIs
  <2>3. QED  BY <2>2 DEF TurnsSound
<1>9. AllFound'
  <2> SUFFICES ASSUME calm' PROVE \A e \in 1 .. written' : Found(e)'
    BY DEF AllFound
  <2>1. calm /\ UNCHANGED <<cut, events>> /\ \A t \in ThreadTurns : ~Active(t)
    BY <1>5
  <2>2. \A t \in ThreadTurns : Carried(turn[t], cut) = {}
    BY <2>1 DEF Carried, Active
  <2>3. \A e \in 1 .. written : Found(e)
    BY <2>1 DEF ThreadInv, AllFound
  <2>4. QED  BY <1>1, <2>1, <2>2, <2>3 DEF Found
<1>10. QED  BY <1>4, <1>6, <1>7, <1>8, <1>9 DEF ThreadInv

LEMMA ThreadInitially == ThreadInit => ThreadInv
<1> SUFFICES ASSUME ThreadInit PROVE ThreadInv
  OBVIOUS
<1>1. /\ events = <<>> /\ blocks = <<>> /\ cut = "no" /\ written = 0 /\ seeded \in BOOLEAN
      /\ turn = [t \in ThreadTurns |-> Fresh]
      /\ excused = {} /\ calm = TRUE /\ apart = TRUE
  BY DEF ThreadInit
<1>2. Fresh \in ThreadRuns /\ Fresh.pc = "idle" /\ \A t \in ThreadTurns : turn[t] = Fresh
  BY <1>1, FreshIs
<1>3. events \in Numbers /\ ToSet(events) = {} /\ Distinct(events) /\ Ordered(events)
  BY <1>1, NoNumbers
<1>4. blocks \in BlockLists /\ Len(blocks) <= MaxBlocks /\ ToSet(blocks) = {} /\ Apart(blocks)
  BY <1>1, EmptySeq, ThreadAssumption DEF BlockLists, ToSet, Apart
<1>5. written \in Nat /\ written <= MaxEvents
  BY <1>1, ThreadAssumption
<1>6. FileTyped /\ FileSound
  BY <1>1, <1>3, <1>4, <1>5 DEF FileTyped, FileSound, Avoid
<1>7. TurnsTyped
  BY <1>1, <1>2 DEF TurnsTyped
<1>8. OneWriter /\ OneTurn
  BY <1>1, <1>2 DEF OneWriter, OneTurn, Runs
<1>9. TurnsSound
  BY <1>2, <1>5, FreshIs DEF TurnsSound
<1>10. AllFound
  BY <1>1 DEF AllFound
<1>11. QED  BY <1>6, <1>7, <1>8, <1>9, <1>10 DEF ThreadInv

LEMMA ThreadKept == ThreadInv /\ [ThreadNext]_tvars => ThreadInv'
<1> SUFFICES ASSUME ThreadInv, [ThreadNext]_tvars PROVE ThreadInv'
  OBVIOUS
<1>1. CASE UNCHANGED tvars
  BY <1>1 DEF tvars, ThreadInv, FileTyped, TurnsTyped, FileSound, OneWriter, OneTurn, TurnsSound, AllFound, Found,
              RunOK, Carried
<1>2. CASE AnswerRecorded
  BY <1>2, AppendAloneKeeps DEF AnswerRecorded
<1>3. CASE Crash
  BY <1>3, CrashKeeps
<1>4. ASSUME NEW t \in ThreadTurns, NEW readable \in BOOLEAN, Load(t, readable) \/ Merge(t, readable) PROVE ThreadInv'
  BY <1>4, LoadThreadKeeps, MergeKeeps
<1>5. ASSUME NEW t \in ThreadTurns, RunEvent(t) PROVE ThreadInv'
  BY <1>5, AppendAloneKeeps DEF RunEvent
<1>6. ASSUME NEW t \in ThreadTurns,
             \/ LoadBlocks(t) \/ Seed(t) \/ NoSeed(t) \/ RunFails(t) \/ RunSucceeds(t)
             \/ TruncateEvents(t) \/ Rewrite(t) \/ ReplaceFails(t) \/ SaveBlocks(t) \/ Tell(t) \/ Again(t)
      PROVE  ThreadInv'
  BY <1>6, LoadBlocksKeeps, SeedKeeps, RunSucceedsKeeps, TruncateEventsKeeps, RewriteKeeps, ReplaceFailsKeeps,
     SaveBlocksKeeps, TellKeeps, AgainKeeps
<1>7. QED  BY <1>1, <1>2, <1>3, <1>4, <1>5, <1>6 DEF ThreadNext, ThreadStep

LEMMA NumbersWithin ==
  ASSUME NEW s \in Numbers, NEW w, ToSet(s) \subseteq 1 .. w
  PROVE  s \in Seq(1 .. w)
<1>1. Len(s) \in Nat /\ DOMAIN s = 1 .. Len(s)
  BY NumbersAre
<1>2. \A i \in 1 .. Len(s) : s[i] \in 1 .. w
  BY <1>1 DEF ToSet
<1>3. PICK r : r = 1 .. w
  OBVIOUS
<1>4. s \in [1 .. Len(s) -> Nat]
  BY LenProperties DEF Numbers
<1>5. s \in [1 .. Len(s) -> r]
  BY <1>2, <1>3, <1>4
<1>6. s \in UNION {[1 .. n -> r] : n \in Nat}
  BY <1>1, <1>5
<1>7. s \in Seq(r)
  BY <1>6, SeqDef
<1>8. QED  BY <1>3, <1>7

LEMMA ThreadTyped == ThreadInv => ThreadTypeOK
<1> SUFFICES ASSUME ThreadInv PROVE ThreadTypeOK
  OBVIOUS
<1>1. /\ events \in Numbers /\ ToSet(events) \subseteq 1 .. written
      /\ written \in 0 .. MaxEvents
  BY ThreadAssumption DEF ThreadInv, FileTyped
<1>2. Len(blocks) <= MaxBlocks /\ \A i \in DOMAIN blocks : blocks[i] \subseteq 1 .. written
  BY DEF ThreadInv, FileTyped, ToSet
<1>3. cut \in {"no", "writing", "broken"} /\ seeded \in BOOLEAN /\ calm \in BOOLEAN /\ apart \in BOOLEAN
  BY DEF ThreadInv, FileTyped
<1>4. ASSUME NEW t \in ThreadTurns
      PROVE  /\ turn[t].pc \in {"idle", "blocks", "seed", "run", "merge", "replace", "rewrite", "save", "tell", "over"}
             /\ turn[t].events \in Seq(1 .. written) /\ turn[t].kept \in Seq(1 .. written)
  <2>1. turn[t] \in ThreadRuns
    BY DEF ThreadInv, TurnsTyped
  <2>2. turn[t].events \in Numbers /\ turn[t].kept \in Numbers /\ turn[t].pc \in ThreadPcs
    BY <2>1 DEF ThreadRuns
  <2>3. ToSet(turn[t].events) \subseteq 1 .. written /\ ToSet(turn[t].kept) \subseteq 1 .. written
    BY DEF ThreadInv, TurnsSound, RunOK, RunSound
  <2>4. turn[t].events \in Seq(1 .. written) /\ turn[t].kept \in Seq(1 .. written)
    BY <2>2, <2>3, NumbersWithin
  <2>5. QED  BY <2>2, <2>4 DEF ThreadPcs
<1>5. events \in Seq(1 .. written)
  BY <1>1, NumbersWithin
<1>6. QED  BY <1>1, <1>2, <1>3, <1>4, <1>5 DEF ThreadTypeOK

LEMMA ThreadPromises == ThreadInv => ThreadSafe
<1> SUFFICES ASSUME ThreadInv PROVE ThreadSafe
  OBVIOUS
<1>1. DOMAIN blocks = 1 .. Len(blocks) /\ events \in Numbers
  BY BlocksAre DEF ThreadInv, FileTyped
<1>2. EventsKept
  <2> SUFFICES ASSUME calm, NEW e \in (1 .. written) \ excused
               PROVE  e \in ToSet(events) \cup (UNION ToSet(blocks)) \cup (UNION {OnItsWay(t) : t \in ThreadTurns})
    BY DEF EventsKept
  <2>1. \A t \in ThreadTurns : Carried(turn[t], cut) = OnItsWay(t)
    BY DEF Carried, OnItsWay
  <2>2. Found(e)
    BY DEF ThreadInv, AllFound
  <2>3. QED  BY <2>1, <2>2 DEF Found
<1>3. FileInOrder
  BY DEF ThreadInv, FileSound, Distinct, Ordered, FileInOrder
<1>4. ToldOnce
  BY DEF ThreadInv, FileSound, Apart, Avoid, ToSet, ToldOnce
<1>5. QED  BY <1>2, <1>3, <1>4, ThreadTyped DEF ThreadSafe

(* For any turns, limits and events, with turns that overlap, reads and    *)
(* writes that fail and crashes: the file never holds an event twice; it   *)
(* keeps their order and nothing is told twice while turns do not overlap  *)
(* and no write fails; and while nothing else fails either, every event is *)
(* in the file, in a summary, or on its way into one, unless its loss is   *)
(* one the design accepts.                                                 *)
THEOREM ThreadCorrect == ThreadSpec => []ThreadSafe
<1>1. QED  BY ThreadInitially, ThreadKept, ThreadPromises, PTL DEF ThreadSpec
=============================================================================
