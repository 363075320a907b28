----------------------- MODULE ToolCallExchange_proofs -----------------------
(***************************************************************************)
(* For any number of concurrent calls, connections and daemons: the typing *)
(* of ToolCallExchange, AnswerIsOwn, FreeMeansQuiet and RunsOnceUnlessLost.*)
(***************************************************************************)
EXTENDS ToolCallExchange, TLAPS

(***************************************************************************)
(* The inductive strengthening.                                            *)
(***************************************************************************)
Blank(k) == inbox[k] = Nobody /\ task[k] = Nobody /\ outbox[k] = Nobody

(* The call whose request or answer is on connection k.                    *)
Carries(k, c) == inbox[k] = c \/ task[k] = c \/ outbox[k] = c

(* Connections not dialed yet are blank; one frame or handler at a time; a *)
(* handler that has run has run for the call it is handling, and what it   *)
(* answers has run.                                                        *)
WireSound ==
    /\ \A k \in Conns : k > made => Blank(k) /\ k \notin cut
    /\ \A k \in ran : task[k] # Nobody
    /\ \A k \in Conns :
        /\ inbox[k] # Nobody => task[k] = Nobody
        /\ outbox[k] # Nobody => inbox[k] = Nobody /\ task[k] = Nobody
    /\ \A k \in Conns, c \in Callers :
        (k \in ran /\ task[k] = c) \/ outbox[k] = c => runs[c] > 0

(* The client's connection carries only the call that holds the mutex,     *)
(* once it has written its request.                                        *)
ConnSound ==
    /\ mutex # Nobody => conn # 0
    /\ conn # 0 => \A c \in Callers : Carries(conn, c) => mutex = c /\ pc[c] = "read"

(* A request still to be run on connection k.                              *)
Due(k, c) == inbox[k] = c \/ (task[k] = c /\ k \notin ran)

(* At most n runs of c's tool, counting those still due.                   *)
Within(c, n) ==
    \/ n = 0 /\ runs[c] = 0 /\ \A k \in Conns : ~Due(k, c)
    \/ /\ n = 1
       /\ runs[c] <= 1
       /\ runs[c] = 1 => \A k \in Conns : ~Due(k, c)
       /\ \A k, l \in Conns : Due(k, c) /\ Due(l, c) => k = l
    \/ /\ n = 2
       /\ runs[c] <= 2
       /\ runs[c] = 2 => \A k \in Conns : ~Due(k, c)
       /\ runs[c] = 1 => \A k, l \in Conns : Due(k, c) /\ Due(l, c) => k = l
       /\ \A k, l, m \in Conns : Due(k, c) /\ Due(l, c) /\ Due(m, c) => k = l \/ k = m \/ l = m

(* How often c's request may have been sent: in the round it is in, and in *)
(* a round before that, which was retried.                                 *)
Asked(c) == IF pc[c] \in {"read", "done"} THEN 1 ELSE 0
Retried(c) == IF c \in lost /\ (round[c] = 2 \/ pc[c] \in {"wait", "mark"}) THEN 1 ELSE 0
Sent(c) == Asked(c) + Retried(c)

(* A waiting call whose daemon closed the connection is among the lost     *)
(* unless its answer was written before.                                   *)
ReadingSound ==
    \A c \in Callers : pc[c] = "read" =>
        \/ outbox[conn] = c
        \/ c \in lost
        \/ conn \notin cut /\ (inbox[conn] = c \/ task[conn] = c)

RetriesOnce == \A c \in Callers : round[c] = 2 => pc[c] \notin {"idle", "wait", "mark"}

RunsBounded == \A c \in Callers : Within(c, Sent(c))

Exchanged == WireSound /\ ConnSound /\ AnswerIsOwn
Reading == ReadingSound /\ RetriesOnce
IInv == TypeOK /\ Exchanged /\ Reading /\ RunsBounded

LEMMA TypeInit == Init => TypeOK
<1> SUFFICES ASSUME Init PROVE TypeOK
  OBVIOUS
<1>1. daemon \in 0..started /\ started \in 0..MaxDaemons /\ conn \in 0..made /\ made \in 0..MaxConns
  BY ExchangeConstants DEF Init
<1>2. server \in [Conns -> 0..MaxDaemons] /\ inbox \in [Conns -> Callers \cup {Nobody}]
  BY ExchangeConstants DEF Init, Conns
<1>3. QED  BY <1>1, <1>2, ExchangeConstants DEF Init, TypeOK, Stages

LEMMA ExchangedInit == Init => Exchanged
  BY ExchangeConstants DEF Init, Exchanged, WireSound, ConnSound, AnswerIsOwn, Blank, Carries, Conns

LEMMA SendsInit == Init => Reading /\ RunsBounded
  BY ExchangeConstants DEF Init, Reading, ReadingSound, RetriesOnce, RunsBounded, Within, Sent, Asked, Retried, Due, Conns

LEMMA TypeStep ==
  ASSUME TypeOK, Exchanged, Next
  PROVE  TypeOK'
<1> USE ExchangeConstants DEF TypeOK, Exchanged, ConnSound, Stages, Conns, Goto, ConnsOf, OnWire, Serves
<1> USE DEF clientVars, wireVars, daemonVars, history
<1>1. ASSUME NEW c \in Callers, Call(c) \/ CallStep(c) \/ CtxEnds(c)
      PROVE  TypeOK'
  <2>1. CASE Call(c)  BY <1>1, <2>1 DEF Call
  <2>2. CASE Connected(c)  BY <1>1, <2>2 DEF Connected
  <2>3. CASE Dial(c)  BY <1>1, <2>3 DEF Dial
  <2>4. CASE NoDaemon(c)  BY <1>1, <2>4 DEF NoDaemon
  <2>5. CASE Mismatch(c)  BY <1>1, <2>5 DEF Mismatch
  <2>6. CASE Lock(c)  BY <1>1, <2>6 DEF Lock
  <2>7. CASE NotConnected(c)  BY <1>1, <2>7 DEF NotConnected
  <2>8. CASE WriteRequest(c)  BY <1>1, <2>8 DEF WriteRequest
  <2>9. CASE ReadResponse(c)  BY <1>1, <2>9 DEF ReadResponse
  <2>10. CASE PeerGone(c)  BY <1>1, <2>10 DEF PeerGone
  <2>11. CASE TornAnswer(c)  BY <1>1, <2>11 DEF TornAnswer
  <2>12. CASE GivesUp(c)  BY <1>1, <2>12 DEF GivesUp
  <2>13. CASE Ready(c)  BY <1>1, <2>13 DEF Ready
  <2>14. CASE NotReady(c)  BY <1>1, <2>14 DEF NotReady
  <2>15. CASE MarkDisconnected(c)  BY <1>1, <2>15 DEF MarkDisconnected
  <2>16. CASE CtxEnds(c)  BY <1>1, <2>16 DEF CtxEnds
  <2>17. QED  BY <1>1, <2>1, <2>2, <2>3, <2>4, <2>5, <2>6, <2>7, <2>8, <2>9, <2>10, <2>11, <2>12, <2>13, <2>14, <2>15, <2>16 DEF CallStep, IoStep
<1>2. ASSUME NEW k \in Conns, ServeStep(k)
      PROVE  TypeOK'
  <2>1. CASE ReadRequest(k)  BY <1>2, <2>1 DEF ReadRequest
  <2>2. CASE RunTool(k)  BY <1>2, <2>2 DEF RunTool
  <2>3. CASE WriteResponse(k)  BY <1>2, <2>3 DEF WriteResponse
  <2>4. CASE ReplyTooLarge(k)  BY <1>2, <2>4 DEF ReplyTooLarge
  <2>5. QED  BY <1>2, <2>1, <2>2, <2>3, <2>4 DEF ServeStep
<1>3. CASE Stop  BY <1>3 DEF Stop
<1>4. CASE Start  BY <1>4 DEF Start
<1>5. ASSUME NEW d \in 1..started, Crash(d)
      PROVE  TypeOK'
  BY <1>5 DEF Crash
<1>6. QED  BY <1>1, <1>2, <1>3, <1>4, <1>5 DEF Next

LEMMA WireStep ==
  ASSUME TypeOK, Exchanged, Next
  PROVE  WireSound' /\ ConnSound'
<1> USE ExchangeConstants DEF TypeOK, Stages, Conns, Goto, ConnsOf, OnWire, Serves
<1> USE DEF Exchanged, WireSound, ConnSound, Blank, Carries
<1> USE DEF clientVars, wireVars, daemonVars, history
<1>1. ASSUME NEW c \in Callers, Call(c) \/ CallStep(c) \/ CtxEnds(c)
      PROVE  WireSound' /\ ConnSound'
  <2>1. CASE Call(c)  BY <1>1, <2>1 DEF Call
  <2>2. CASE Connected(c)  BY <1>1, <2>2 DEF Connected
  <2>3. CASE Dial(c)  BY <1>1, <2>3 DEF Dial
  <2>4. CASE NoDaemon(c)  BY <1>1, <2>4 DEF NoDaemon
  <2>5. CASE Mismatch(c)  BY <1>1, <2>5 DEF Mismatch
  <2>6. CASE Lock(c)  BY <1>1, <2>6 DEF Lock
  <2>7. CASE NotConnected(c)  BY <1>1, <2>7 DEF NotConnected
  <2>8. CASE WriteRequest(c)  BY <1>1, <2>8 DEF WriteRequest
  <2>9. CASE ReadResponse(c)  BY <1>1, <2>9 DEF ReadResponse
  <2>10. CASE PeerGone(c)  BY <1>1, <2>10 DEF PeerGone
  <2>11. CASE TornAnswer(c)  BY <1>1, <2>11 DEF TornAnswer
  <2>12. CASE GivesUp(c)  BY <1>1, <2>12 DEF GivesUp
  <2>13. CASE Ready(c)  BY <1>1, <2>13 DEF Ready
  <2>14. CASE NotReady(c)  BY <1>1, <2>14 DEF NotReady
  <2>15. CASE MarkDisconnected(c)  BY <1>1, <2>15 DEF MarkDisconnected
  <2>16. CASE CtxEnds(c)  BY <1>1, <2>16 DEF CtxEnds
  <2>17. QED  BY <1>1, <2>1, <2>2, <2>3, <2>4, <2>5, <2>6, <2>7, <2>8, <2>9, <2>10, <2>11, <2>12, <2>13, <2>14, <2>15, <2>16 DEF CallStep, IoStep
<1>2. ASSUME NEW k \in Conns, ServeStep(k)
      PROVE  WireSound' /\ ConnSound'
  <2>1. CASE ReadRequest(k)  BY <1>2, <2>1 DEF ReadRequest
  <2>2. CASE RunTool(k)  BY <1>2, <2>2 DEF RunTool
  <2>3. CASE WriteResponse(k)  BY <1>2, <2>3 DEF WriteResponse
  <2>4. CASE ReplyTooLarge(k)  BY <1>2, <2>4 DEF ReplyTooLarge
  <2>5. QED  BY <1>2, <2>1, <2>2, <2>3, <2>4 DEF ServeStep
<1>3. CASE Stop  BY <1>3 DEF Stop
<1>4. CASE Start  BY <1>4 DEF Start
<1>5. ASSUME NEW d \in 1..started, Crash(d)
      PROVE  WireSound' /\ ConnSound'
  BY <1>5 DEF Crash
<1>6. QED  BY <1>1, <1>2, <1>3, <1>4, <1>5 DEF Next

(* What the holder of the mutex reads is its own answer.                   *)
LEMMA AnswerStep ==
  ASSUME TypeOK, Exchanged, Next
  PROVE  AnswerIsOwn'
<1> USE ExchangeConstants DEF TypeOK, Conns, ConnsOf
<1> USE DEF Exchanged, AnswerIsOwn
<1> USE DEF clientVars, wireVars, daemonVars, history
<1>1. ASSUME NEW c \in Callers, Call(c) \/ CallStep(c) \/ CtxEnds(c)
      PROVE  AnswerIsOwn'
  <2>1. CASE Call(c)  BY <1>1, <2>1 DEF Call
  <2>2. CASE Connected(c)  BY <1>1, <2>2 DEF Connected
  <2>3. CASE Dial(c)  BY <1>1, <2>3 DEF Dial
  <2>4. CASE NoDaemon(c)  BY <1>1, <2>4 DEF NoDaemon
  <2>5. CASE Mismatch(c)  BY <1>1, <2>5 DEF Mismatch
  <2>6. CASE Lock(c)  BY <1>1, <2>6 DEF Lock
  <2>7. CASE NotConnected(c)  BY <1>1, <2>7 DEF NotConnected
  <2>8. CASE WriteRequest(c)  BY <1>1, <2>8 DEF WriteRequest
  <2>9. CASE ReadResponse(c)
    <3>1. mutex = c /\ conn \in Conns
      BY <2>9 DEF ReadResponse, ConnSound
    <3>2. outbox[conn] = c /\ runs[c] > 0
      BY <2>9, <3>1 DEF ReadResponse, ConnSound, WireSound, Carries
    <3>3. QED  BY <2>9, <3>1, <3>2 DEF ReadResponse
  <2>10. CASE PeerGone(c)  BY <1>1, <2>10 DEF PeerGone
  <2>11. CASE TornAnswer(c)  BY <1>1, <2>11 DEF TornAnswer
  <2>12. CASE GivesUp(c)  BY <1>1, <2>12 DEF GivesUp
  <2>13. CASE Ready(c)  BY <1>1, <2>13 DEF Ready
  <2>14. CASE NotReady(c)  BY <1>1, <2>14 DEF NotReady
  <2>15. CASE MarkDisconnected(c)  BY <1>1, <2>15 DEF MarkDisconnected
  <2>16. CASE CtxEnds(c)  BY <1>1, <2>16 DEF CtxEnds
  <2>17. QED  BY <1>1, <2>1, <2>2, <2>3, <2>4, <2>5, <2>6, <2>7, <2>8, <2>9, <2>10, <2>11, <2>12, <2>13, <2>14, <2>15, <2>16 DEF CallStep, IoStep
<1>2. ASSUME NEW k \in Conns, ServeStep(k)
      PROVE  AnswerIsOwn'
  <2>1. CASE ReadRequest(k)  BY <1>2, <2>1 DEF ReadRequest
  <2>2. CASE RunTool(k)  BY <1>2, <2>2 DEF RunTool
  <2>3. CASE WriteResponse(k)  BY <1>2, <2>3 DEF WriteResponse
  <2>4. CASE ReplyTooLarge(k)  BY <1>2, <2>4 DEF ReplyTooLarge
  <2>5. QED  BY <1>2, <2>1, <2>2, <2>3, <2>4 DEF ServeStep
<1>3. CASE Stop  BY <1>3 DEF Stop
<1>4. CASE Start  BY <1>4 DEF Start
<1>5. ASSUME NEW d \in 1..started, Crash(d)
      PROVE  AnswerIsOwn'
  BY <1>5 DEF Crash
<1>6. QED  BY <1>1, <1>2, <1>3, <1>4, <1>5 DEF Next

LEMMA ReadingStep ==
  ASSUME TypeOK, Exchanged, Reading, Next
  PROVE  Reading'
<1> USE ExchangeConstants DEF TypeOK, Stages, Conns, Goto, ConnsOf, OnWire, Serves
<1> USE DEF Exchanged, WireSound, ConnSound, Blank, Carries, Reading, ReadingSound, RetriesOnce
<1> USE DEF clientVars, wireVars, daemonVars, history
<1>1. ASSUME NEW c \in Callers, Call(c) \/ CallStep(c) \/ CtxEnds(c)
      PROVE  Reading'
  <2>1. CASE Call(c)  BY <1>1, <2>1 DEF Call
  <2>2. CASE Connected(c)  BY <1>1, <2>2 DEF Connected
  <2>3. CASE Dial(c)  BY <1>1, <2>3 DEF Dial
  <2>4. CASE NoDaemon(c)  BY <1>1, <2>4 DEF NoDaemon
  <2>5. CASE Mismatch(c)  BY <1>1, <2>5 DEF Mismatch
  <2>6. CASE Lock(c)  BY <1>1, <2>6 DEF Lock
  <2>7. CASE NotConnected(c)  BY <1>1, <2>7 DEF NotConnected
  <2>8. CASE WriteRequest(c)  BY <1>1, <2>8 DEF WriteRequest
  <2>9. CASE ReadResponse(c)  BY <1>1, <2>9 DEF ReadResponse
  <2>10. CASE PeerGone(c)  BY <1>1, <2>10 DEF PeerGone
  <2>11. CASE TornAnswer(c)  BY <1>1, <2>11 DEF TornAnswer
  <2>12. CASE GivesUp(c)  BY <1>1, <2>12 DEF GivesUp
  <2>13. CASE Ready(c)  BY <1>1, <2>13 DEF Ready
  <2>14. CASE NotReady(c)  BY <1>1, <2>14 DEF NotReady
  <2>15. CASE MarkDisconnected(c)  BY <1>1, <2>15 DEF MarkDisconnected
  <2>16. CASE CtxEnds(c)  BY <1>1, <2>16 DEF CtxEnds
  <2>17. QED  BY <1>1, <2>1, <2>2, <2>3, <2>4, <2>5, <2>6, <2>7, <2>8, <2>9, <2>10, <2>11, <2>12, <2>13, <2>14, <2>15, <2>16 DEF CallStep, IoStep
<1>2. ASSUME NEW k \in Conns, ServeStep(k)
      PROVE  Reading'
  <2>1. CASE ReadRequest(k)  BY <1>2, <2>1 DEF ReadRequest
  <2>2. CASE RunTool(k)  BY <1>2, <2>2 DEF RunTool
  <2>3. CASE WriteResponse(k)  BY <1>2, <2>3 DEF WriteResponse
  <2>4. CASE ReplyTooLarge(k)  BY <1>2, <2>4 DEF ReplyTooLarge
  <2>5. QED  BY <1>2, <2>1, <2>2, <2>3, <2>4 DEF ServeStep
<1>3. CASE Stop  BY <1>3 DEF Stop
<1>4. CASE Start  BY <1>4 DEF Start
<1>5. ASSUME NEW d \in 1..started, Crash(d)
      PROVE  Reading'
  BY <1>5 DEF Crash
<1>6. QED  BY <1>1, <1>2, <1>3, <1>4, <1>5 DEF Next

LEMMA SentRange ==
  ASSUME NEW c \in Callers
  PROVE  Sent(c) \in 0..2 /\ Sent(c)' \in 0..2
  BY DEF Sent, Asked, Retried

(* A step never takes back a request that may have been sent: a call made  *)
(* again although no daemon closed its connection never wrote its request. *)
LEMMA SentGrows ==
  ASSUME TypeOK, Exchanged, Reading, Next
  PROVE  \A d \in Callers : Sent(d) <= Sent(d)'
<1> USE ExchangeConstants DEF TypeOK, Stages, Conns, Goto, ConnsOf, OnWire, Serves
<1> USE DEF Exchanged, ConnSound, Reading, ReadingSound, RetriesOnce, Sent, Asked, Retried
<1> USE DEF clientVars, wireVars, daemonVars, history
<1>1. ASSUME NEW c \in Callers, Call(c) \/ CallStep(c) \/ CtxEnds(c)
      PROVE  \A e \in Callers : Sent(e) <= Sent(e)'
  <2>1. CASE Call(c)  BY <1>1, <2>1 DEF Call
  <2>2. CASE Connected(c)  BY <1>1, <2>2 DEF Connected
  <2>3. CASE Dial(c)  BY <1>1, <2>3 DEF Dial
  <2>4. CASE NoDaemon(c)  BY <1>1, <2>4 DEF NoDaemon
  <2>5. CASE Mismatch(c)  BY <1>1, <2>5 DEF Mismatch
  <2>6. CASE Lock(c)  BY <1>1, <2>6 DEF Lock
  <2>7. CASE NotConnected(c)  BY <1>1, <2>7 DEF NotConnected
  <2>8. CASE WriteRequest(c)  BY <1>1, <2>8 DEF WriteRequest
  <2>9. CASE ReadResponse(c)  BY <1>1, <2>9 DEF ReadResponse
  <2>10. CASE PeerGone(c)  BY <1>1, <2>10 DEF PeerGone
  <2>11. CASE TornAnswer(c)  BY <1>1, <2>11 DEF TornAnswer
  <2>12. CASE GivesUp(c)  BY <1>1, <2>12 DEF GivesUp
  <2>13. CASE Ready(c)  BY <1>1, <2>13 DEF Ready
  <2>14. CASE NotReady(c)  BY <1>1, <2>14 DEF NotReady
  <2>15. CASE MarkDisconnected(c)  BY <1>1, <2>15 DEF MarkDisconnected
  <2>16. CASE CtxEnds(c)  BY <1>1, <2>16 DEF CtxEnds
  <2>17. QED  BY <1>1, <2>1, <2>2, <2>3, <2>4, <2>5, <2>6, <2>7, <2>8, <2>9, <2>10, <2>11, <2>12, <2>13, <2>14, <2>15, <2>16 DEF CallStep, IoStep
<1>2. ASSUME NEW k \in Conns, ServeStep(k)
      PROVE  \A e \in Callers : Sent(e) <= Sent(e)'
  <2>1. CASE ReadRequest(k)  BY <1>2, <2>1 DEF ReadRequest
  <2>2. CASE RunTool(k)  BY <1>2, <2>2 DEF RunTool
  <2>3. CASE WriteResponse(k)  BY <1>2, <2>3 DEF WriteResponse
  <2>4. CASE ReplyTooLarge(k)  BY <1>2, <2>4 DEF ReplyTooLarge
  <2>5. QED  BY <1>2, <2>1, <2>2, <2>3, <2>4 DEF ServeStep
<1>3. CASE Stop  BY <1>3 DEF Stop
<1>4. CASE Start  BY <1>4 DEF Start
<1>5. ASSUME NEW d \in 1..started, Crash(d)
      PROVE  \A e \in Callers : Sent(e) <= Sent(e)'
  BY <1>5 DEF Crash
<1>6. QED  BY <1>1, <1>2, <1>3, <1>4, <1>5 DEF Next

LEMMA DueKept ==
  ASSUME TypeOK, Next, \A c \in Callers : ~WriteRequest(c)
  PROVE  \A k \in Conns, d \in Callers : Due(k, d)' => Due(k, d)
<1> USE ExchangeConstants DEF TypeOK, Conns, ConnsOf, Serves, Due
<1> USE DEF clientVars, wireVars, daemonVars, history
<1>1. ASSUME NEW c \in Callers, Call(c) \/ CallStep(c) \/ CtxEnds(c)
      PROVE  \A l \in Conns, e \in Callers : Due(l, e)' => Due(l, e)
  <2>1. CASE Call(c)  BY <1>1, <2>1 DEF Call
  <2>2. CASE Connected(c)  BY <1>1, <2>2 DEF Connected
  <2>3. CASE Dial(c)  BY <1>1, <2>3 DEF Dial
  <2>4. CASE NoDaemon(c)  BY <1>1, <2>4 DEF NoDaemon
  <2>5. CASE Mismatch(c)  BY <1>1, <2>5 DEF Mismatch
  <2>6. CASE Lock(c)  BY <1>1, <2>6 DEF Lock
  <2>7. CASE NotConnected(c)  BY <1>1, <2>7 DEF NotConnected
  <2>8. CASE WriteRequest(c)  BY <2>8
  <2>9. CASE ReadResponse(c)  BY <1>1, <2>9 DEF ReadResponse
  <2>10. CASE PeerGone(c)  BY <1>1, <2>10 DEF PeerGone
  <2>11. CASE TornAnswer(c)  BY <1>1, <2>11 DEF TornAnswer
  <2>12. CASE GivesUp(c)  BY <1>1, <2>12 DEF GivesUp
  <2>13. CASE Ready(c)  BY <1>1, <2>13 DEF Ready
  <2>14. CASE NotReady(c)  BY <1>1, <2>14 DEF NotReady
  <2>15. CASE MarkDisconnected(c)  BY <1>1, <2>15 DEF MarkDisconnected
  <2>16. CASE CtxEnds(c)  BY <1>1, <2>16 DEF CtxEnds
  <2>17. QED  BY <1>1, <2>1, <2>2, <2>3, <2>4, <2>5, <2>6, <2>7, <2>8, <2>9, <2>10, <2>11, <2>12, <2>13, <2>14, <2>15, <2>16 DEF CallStep, IoStep
<1>2. ASSUME NEW k \in Conns, ServeStep(k)
      PROVE  \A l \in Conns, e \in Callers : Due(l, e)' => Due(l, e)
  <2>1. CASE ReadRequest(k)  BY <1>2, <2>1 DEF ReadRequest
  <2>2. CASE RunTool(k)  BY <1>2, <2>2 DEF RunTool
  <2>3. CASE WriteResponse(k)  BY <1>2, <2>3 DEF WriteResponse
  <2>4. CASE ReplyTooLarge(k)  BY <1>2, <2>4 DEF ReplyTooLarge
  <2>5. QED  BY <1>2, <2>1, <2>2, <2>3, <2>4 DEF ServeStep
<1>3. CASE Stop  BY <1>3 DEF Stop
<1>4. CASE Start  BY <1>4 DEF Start
<1>5. ASSUME NEW d \in 1..started, Crash(d)
      PROVE  \A l \in Conns, e \in Callers : Due(l, e)' => Due(l, e)
  BY <1>5 DEF Crash
<1>6. QED  BY <1>1, <1>2, <1>3, <1>4, <1>5 DEF Next

LEMMA RunsKept ==
  ASSUME Next, \A k \in Conns : ~RunTool(k)
  PROVE  runs' = runs
<1> USE DEF clientVars, wireVars, daemonVars, history
<1>1. ASSUME NEW c \in Callers, Call(c) \/ CallStep(c) \/ CtxEnds(c)
      PROVE  runs' = runs
  <2>1. CASE Call(c)  BY <1>1, <2>1 DEF Call
  <2>2. CASE Connected(c)  BY <1>1, <2>2 DEF Connected
  <2>3. CASE Dial(c)  BY <1>1, <2>3 DEF Dial
  <2>4. CASE NoDaemon(c)  BY <1>1, <2>4 DEF NoDaemon
  <2>5. CASE Mismatch(c)  BY <1>1, <2>5 DEF Mismatch
  <2>6. CASE Lock(c)  BY <1>1, <2>6 DEF Lock
  <2>7. CASE NotConnected(c)  BY <1>1, <2>7 DEF NotConnected
  <2>8. CASE WriteRequest(c)  BY <1>1, <2>8 DEF WriteRequest
  <2>9. CASE ReadResponse(c)  BY <1>1, <2>9 DEF ReadResponse
  <2>10. CASE PeerGone(c)  BY <1>1, <2>10 DEF PeerGone
  <2>11. CASE TornAnswer(c)  BY <1>1, <2>11 DEF TornAnswer
  <2>12. CASE GivesUp(c)  BY <1>1, <2>12 DEF GivesUp
  <2>13. CASE Ready(c)  BY <1>1, <2>13 DEF Ready
  <2>14. CASE NotReady(c)  BY <1>1, <2>14 DEF NotReady
  <2>15. CASE MarkDisconnected(c)  BY <1>1, <2>15 DEF MarkDisconnected
  <2>16. CASE CtxEnds(c)  BY <1>1, <2>16 DEF CtxEnds
  <2>17. QED  BY <1>1, <2>1, <2>2, <2>3, <2>4, <2>5, <2>6, <2>7, <2>8, <2>9, <2>10, <2>11, <2>12, <2>13, <2>14, <2>15, <2>16 DEF CallStep, IoStep
<1>2. ASSUME NEW k \in Conns, ServeStep(k)
      PROVE  runs' = runs
  <2>1. CASE ReadRequest(k)  BY <1>2, <2>1 DEF ReadRequest
  <2>2. CASE RunTool(k)  BY <2>2
  <2>3. CASE WriteResponse(k)  BY <1>2, <2>3 DEF WriteResponse
  <2>4. CASE ReplyTooLarge(k)  BY <1>2, <2>4 DEF ReplyTooLarge
  <2>5. QED  BY <1>2, <2>1, <2>2, <2>3, <2>4 DEF ServeStep
<1>3. CASE Stop  BY <1>3 DEF Stop
<1>4. CASE Start  BY <1>4 DEF Start
<1>5. ASSUME NEW d \in 1..started, Crash(d)
      PROVE  runs' = runs
  BY <1>5 DEF Crash
<1>6. QED  BY <1>1, <1>2, <1>3, <1>4, <1>5 DEF Next

LEMMA WithinKept ==
  ASSUME TypeOK, NEW c \in Callers, NEW n \in 0..2, NEW m \in 0..2, n <= m,
         Within(c, n), runs'[c] = runs[c],
         \A k \in Conns : Due(k, c)' => Due(k, c)
  PROVE  Within(c, m)'
  BY DEF TypeOK, Within

LEMMA WithinWritten ==
  ASSUME TypeOK, Exchanged, RunsBounded, NEW c \in Callers, WriteRequest(c)
  PROVE  RunsBounded'
<1> USE ExchangeConstants DEF TypeOK, Conns, WriteRequest, Goto, history
<1>1. conn \in Conns /\ \A d \in Callers : ~Due(conn, d)
  BY DEF Exchanged, ConnSound, Carries, Due
<1>2. \A d \in Callers, k \in Conns : Due(k, d)' <=> (Due(k, d) \/ (d = c /\ k = conn))
  BY <1>1 DEF Due
<1>3. Sent(c)' = Sent(c) + 1 /\ \A d \in Callers \ {c} : Sent(d)' = Sent(d)
  BY DEF Sent, Asked, Retried
<1>4. Sent(c) \in 0..1
  BY DEF Sent, Asked, Retried
<1>5. Within(c, Sent(c))
  BY DEF RunsBounded
<1>6. Within(c, Sent(c))'
  <2>1. CASE Sent(c) = 0
    <3>1. Within(c, 0)
      BY <1>5, <2>1
    <3>2. Within(c, 1)'
      BY <1>2, <3>1 DEF Within
    <3>3. QED  BY <2>1, <1>3, <3>2
  <2>2. CASE Sent(c) = 1
    <3>1. Within(c, 1)
      BY <1>5, <2>2
    <3>2. Within(c, 2)'
      BY <1>2, <3>1 DEF Within
    <3>3. QED  BY <2>2, <1>3, <3>2
  <2>3. QED  BY <1>4, <2>1, <2>2
<1>7. ASSUME NEW d \in Callers \ {c}
      PROVE  Within(d, Sent(d))'
  <2>1. d \in Callers /\ Within(d, Sent(d)) /\ runs'[d] = runs[d]
    BY <1>7 DEF RunsBounded
  <2>2. \A k \in Conns : Due(k, d)' => Due(k, d)
    BY <1>2, <1>7
  <2>3. Sent(d)' = Sent(d) /\ Sent(d) \in 0..2 /\ Sent(d) <= Sent(d)'
    BY <1>3, <1>7, SentRange
  <2>4. QED  BY ONLY TypeOK, <2>1, <2>2, <2>3, WithinKept
<1>8. QED  BY <1>6, <1>7 DEF RunsBounded

LEMMA WithinRun ==
  ASSUME TypeOK, Exchanged, RunsBounded, NEW k \in Conns, RunTool(k)
  PROVE  RunsBounded'
<1> USE ExchangeConstants DEF TypeOK, RunTool, clientVars
<1>1. \A d \in Callers : Sent(d)' = Sent(d)
  BY DEF Sent, Asked, Retried
<1>2. PICK c \in Callers : task[k] = c
  OBVIOUS
<1>3. \A d \in Callers, l \in Conns : Due(l, d)' <=> Due(l, d) /\ (d # c \/ l # k)
  BY <1>2 DEF Due, Exchanged, WireSound
<1>4. Due(k, c)
  BY <1>2 DEF Due
<1>5. runs' = [runs EXCEPT ![c] = @ + 1]
  BY <1>2
<1>6. ASSUME NEW n \in 0..2, Within(c, n)
      PROVE  Within(c, n)'
  BY <1>3, <1>4, <1>5, <1>6 DEF Within
<1>7. ASSUME NEW d \in Callers
      PROVE  Within(d, Sent(d))'
  <2>1. Within(d, Sent(d))
    BY DEF RunsBounded
  <2>2. CASE d = c
    BY <1>1, <1>6, <2>1, <2>2, SentRange
  <2>3. CASE d # c
    BY <1>1, <1>3, <1>5, <2>1, <2>3, WithinKept, SentRange
  <2>4. QED  BY <2>2, <2>3
<1>8. QED  BY <1>7 DEF RunsBounded

LEMMA RunsStep ==
  ASSUME IInv, Next
  PROVE  RunsBounded'
<1> USE DEF IInv
<1>1. CASE \E c \in Callers : WriteRequest(c)
  BY <1>1, WithinWritten
<1>2. CASE \E k \in Conns : RunTool(k)
  BY <1>2, WithinRun
<1>3. CASE (\A c \in Callers : ~WriteRequest(c)) /\ (\A k \in Conns : ~RunTool(k))
  <2>1. ASSUME NEW d \in Callers
        PROVE  Within(d, Sent(d))'
    <3>1. runs'[d] = runs[d] /\ \A k \in Conns : Due(k, d)' => Due(k, d)
      BY <1>3, RunsKept, DueKept
    <3>2. Within(d, Sent(d)) /\ Sent(d) <= Sent(d)'
      BY SentGrows DEF RunsBounded
    <3>3. QED  BY <3>1, <3>2, WithinKept, SentRange
  <2>2. QED  BY <2>1 DEF RunsBounded
<1>4. QED  BY <1>1, <1>2, <1>3

LEMMA Invariance == Spec => []IInv
<1>1. Init => IInv
  BY TypeInit, ExchangedInit, SendsInit DEF IInv
<1>2. IInv /\ [Next]_vars => IInv'
  <2>1. CASE Next
    BY <2>1, TypeStep, WireStep, AnswerStep, ReadingStep, RunsStep DEF IInv, Exchanged
  <2>2. CASE UNCHANGED vars
    BY <2>2 DEF vars, clientVars, wireVars, daemonVars, history, IInv, TypeOK, Exchanged, WireSound, ConnSound,
       AnswerIsOwn, Blank, Carries, Reading, ReadingSound, RetriesOnce, RunsBounded, Within, Sent, Asked, Retried, Due
  <2>3. QED  BY <2>1, <2>2
<1>3. QED  BY <1>1, <1>2, PTL DEF Spec

(* Every cell of the exchange keeps its type, and the mutex is held by the *)
(* call doing I/O (Client.Roundtrip).                                      *)
THEOREM TypeCorrect == Spec => []TypeOK
<1>1. IInv => TypeOK
  BY DEF IInv
<1>2. QED  BY <1>1, Invariance, PTL

(* However many calls share the connection, an answer goes to the call     *)
(* that asked (Client.Roundtrip's drop on every I/O error).                *)
THEOREM AnswersMatch == Spec => []AnswerIsOwn
<1>1. IInv => AnswerIsOwn
  BY DEF IInv, Exchanged
<1>2. QED  BY <1>1, Invariance, PTL

(* A connection handed to the next call carries nothing of the last one.   *)
THEOREM ConnectionClean == Spec => []FreeMeansQuiet
<1>1. IInv => FreeMeansQuiet
  BY ExchangeConstants DEF IInv, Exchanged, TypeOK, ConnSound, FreeMeansQuiet, Carries, Conns
<1>2. QED  BY <1>1, Invariance, PTL

(* Both: answers are never crossed, in flight or left over.                *)
THEOREM ExchangeSafe == Spec => []AnswersOwned
<1>1. AnswerIsOwn /\ FreeMeansQuiet => AnswersOwned
  BY DEF AnswersOwned
<1>2. QED  BY <1>1, AnswersMatch, ConnectionClean, PTL

(* A tool runs at most twice for one call, and twice only after a daemon   *)
(* closed the call's connection (dispatchViaDaemon's one retry).           *)
THEOREM RetryBounded == Spec => []RunsOnceUnlessLost
<1>1. IInv => RunsOnceUnlessLost
  <2>1. ASSUME IInv, NEW c \in Callers
        PROVE  runs[c] <= IF c \in lost THEN 2 ELSE 1
    <3>1. Within(c, Sent(c)) /\ runs[c] \in Nat
      BY <2>1 DEF IInv, RunsBounded, TypeOK
    <3>2. runs[c] <= Sent(c)
      BY <3>1, SentRange DEF Within
    <3>3. Sent(c) <= IF c \in lost THEN 2 ELSE 1
      BY DEF Sent, Asked, Retried
    <3>4. QED  BY <3>1, <3>2, <3>3, SentRange
  <2>2. QED  BY <2>1 DEF RunsOnceUnlessLost
<1>2. QED  BY <1>1, Invariance, PTL

================================================================================
