----------------------------- MODULE ChatStreams -----------------------------
(***************************************************************************)
(* Streamed turns of the desktop chat: the window starts a turn by a call, *)
(* the application registers a stream, runs the turn on a goroutine and    *)
(* emits events, which the window may see before the call's reply; the     *)
(* user may cancel at any time.  One conversation.                         *)
(* Source: src/app_aichat.go, src/app_aichat_stream_registry.go and        *)
(* src/frontend/src/components/ai/useAiSidebar.ts.                         *)
(***************************************************************************)
EXTENDS Naturals, Sequences, SequencesExt

CONSTANTS
    MaxTurns,    \* bound: turns the user sends; turn n has stream n
    MaxDeltas,   \* bound: pieces of text per stream
    MaxIgnored   \* streams the window remembers to ignore (32)

ASSUME StreamsAssumption == MaxTurns \in Nat /\ MaxDeltas \in Nat /\ MaxIgnored \in Nat \ {0}

Streams == 1 .. MaxTurns

VARIABLES
    inFlight,    \* the window's turn, with its stream once known
    pending,     \* cancelPendingTurnId
    ignored,     \* ignoredStreamIds, oldest first
    sent,        \* turns sent so far
    start,       \* the start call of a turn
    cancelling,  \* streams whose cancel call is on its way
    stream,      \* the goroutine of a stream
    registry,    \* streams that can be cancelled
    emitted,     \* emitted events not yet seen by the window
    deltas,      \* pieces emitted
    shown,       \* history: <<turn, stream>> whose text the turn's message showed
    early        \* history: turns cancelled before their start call replied
svars == <<inFlight, pending, ignored, sent, start, cancelling, stream, registry, emitted, deltas, shown, early>>

NoTurn == [turn |-> 0, stream |-> 0]
\* Mutant: the memory of ignored streams is not limited.
IgnoreAll(s) == ignored' = IF Contains(ignored, s) THEN ignored ELSE Append(ignored, s)
Ignore(s) ==
    LET all == IF Contains(ignored, s) THEN ignored ELSE Append(ignored, s) IN
    ignored' = IF Len(all) > MaxIgnored THEN Tail(all) ELSE all

-----------------------------------------------------------------------------
(* The window. *)

Send ==
    /\ inFlight = NoTurn /\ sent < MaxTurns
    /\ sent' = sent + 1
    /\ inFlight' = [turn |-> sent + 1, stream |-> 0]
    /\ start' = [start EXCEPT ![sent + 1] = "called"]
    /\ UNCHANGED <<pending, ignored, cancelling, stream, registry, emitted, deltas, shown, early>>

(* The start call fails: the turn shows the error. *)
StartFailed(t) ==
    /\ start[t] = "called"
    /\ start' = [start EXCEPT ![t] = "over"]
    /\ inFlight' = IF inFlight.turn = t THEN NoTurn ELSE inFlight
    /\ UNCHANGED <<pending, ignored, sent, cancelling, stream, registry, emitted, deltas, shown, early>>

\* Mutant: only an explicit cancel is looked for.
GoneIfCancelled(t) == pending = t
Gone(t) == pending = t \/ inFlight.turn # t
(* It returns the stream: adopted, or cancelled if the turn is gone. *)
StartReturned(t) ==
    /\ start[t] = "started"
    /\ start' = [start EXCEPT ![t] = "over"]
    /\ IF Gone(t)
         THEN /\ pending' = 0 /\ Ignore(t)
              /\ cancelling' = cancelling \cup {t}
              /\ UNCHANGED inFlight
         ELSE /\ ignored' = RemoveFirst(ignored, t)
              /\ inFlight' = [inFlight EXCEPT !.stream = t]
              /\ UNCHANGED <<pending, cancelling>>
    /\ UNCHANGED <<sent, stream, registry, emitted, deltas, shown, early>>

CancelInFlight ==
    /\ inFlight # NoTurn
    /\ inFlight' = NoTurn
    /\ IF inFlight.stream # 0
         THEN /\ Ignore(inFlight.stream)
              /\ cancelling' = cancelling \cup {inFlight.stream}
              /\ UNCHANGED pending
         ELSE /\ pending' = inFlight.turn
              /\ UNCHANGED <<ignored, cancelling>>
    /\ early' = IF start[inFlight.turn] = "over" THEN early ELSE early \cup {inFlight.turn}
    /\ UNCHANGED <<sent, start, stream, registry, emitted, deltas, shown>>

(* bindCurrentStream: an event is for the turn in flight if its stream is the
   turn's, or if the turn does not know its stream yet. *)
\* Mutant: the turn's own stream is not compared.
BindsAny(s) == ~Contains(ignored, s) /\ inFlight # NoTurn
Binds(s) ==
    /\ ~Contains(ignored, s) /\ inFlight # NoTurn
    /\ inFlight.stream \in {0, s}

\* Mutant: an error leaves the turn in flight.
EndsIfDone(event) == event = "done"
Ends(event) == event # "delta"

Deliver(s) ==
    /\ emitted[s] # <<>>
    /\ emitted' = [emitted EXCEPT ![s] = Tail(@)]
    /\ IF ~Binds(s) THEN UNCHANGED <<inFlight, shown>>
       ELSE /\ inFlight' = IF Ends(Head(emitted[s])) THEN NoTurn ELSE [inFlight EXCEPT !.stream = s]
            /\ shown' = IF Head(emitted[s]) = "cancelled" THEN shown ELSE shown \cup {<<inFlight.turn, s>>}
    /\ UNCHANGED <<pending, ignored, sent, start, cancelling, stream, registry, deltas, early>>

-----------------------------------------------------------------------------
(* The application. *)

(* AiChatTurnStream *)
TurnStream(t) ==
    /\ start[t] = "called"
    /\ start' = [start EXCEPT ![t] = "started"]
    /\ registry' = registry \cup {t}
    /\ stream' = [stream EXCEPT ![t] = "running"]
    /\ UNCHANGED <<inFlight, pending, ignored, sent, cancelling, emitted, deltas, shown, early>>

Emit(s, event) == emitted' = [emitted EXCEPT ![s] = Append(@, event)]

EmitDelta(s) ==
    /\ stream[s] \in {"running", "stopping"} /\ deltas[s] < MaxDeltas
    /\ Emit(s, "delta")
    /\ deltas' = [deltas EXCEPT ![s] = @ + 1]
    /\ UNCHANGED <<inFlight, pending, ignored, sent, start, cancelling, stream, registry, shown, early>>

(* The turn ends: with its answer, an error, or, if its context was
   cancelled, that; a turn past its last check of the context still answers. *)
EndStream(s, event) ==
    /\ \/ stream[s] = "running" /\ event \in {"done", "error"}
       \/ stream[s] = "stopping" /\ event \in {"done", "error", "cancelled"}
    /\ Emit(s, event)
    /\ stream' = [stream EXCEPT ![s] = "ended"]
    /\ UNCHANGED <<inFlight, pending, ignored, sent, start, cancelling, registry, deltas, shown, early>>

Unregister(s) ==
    /\ stream[s] = "ended" /\ s \in registry
    /\ registry' = registry \ {s}
    /\ UNCHANGED <<inFlight, pending, ignored, sent, start, cancelling, stream, emitted, deltas, shown, early>>

(* AiChatCancelStream: takes the stream from the registry and cancels its
   context, if it is there. *)
CancelStream(s) ==
    /\ s \in cancelling
    /\ cancelling' = cancelling \ {s}
    /\ registry' = registry \ {s}
    /\ stream' = IF s \in registry /\ stream[s] = "running" THEN [stream EXCEPT ![s] = "stopping"] ELSE stream
    /\ UNCHANGED <<inFlight, pending, ignored, sent, start, emitted, deltas, shown, early>>

-----------------------------------------------------------------------------
StreamsInit ==
    /\ inFlight = NoTurn /\ pending = 0 /\ ignored = <<>> /\ sent = 0
    /\ start = [t \in Streams |-> "none"] /\ stream = [s \in Streams |-> "none"]
    /\ cancelling = {} /\ registry = {}
    /\ emitted = [s \in Streams |-> <<>>] /\ deltas = [s \in Streams |-> 0]
    /\ shown = {} /\ early = {}

(* What happens without the user: calls are carried out and answered, events
   are delivered, and a turn ends (its model calls have deadlines). *)
Moves(s) ==
    \/ StartReturned(s) \/ StartFailed(s) \/ TurnStream(s) \/ Deliver(s) \/ Unregister(s) \/ CancelStream(s)
    \/ \E event \in {"done", "error", "cancelled"} : EndStream(s, event)

StreamsNext ==
    \/ Send \/ CancelInFlight
    \/ \E s \in Streams : Moves(s) \/ EmitDelta(s)

StreamsFair == \A s \in Streams :
    /\ WF_svars(StartReturned(s)) /\ WF_svars(TurnStream(s) \/ StartFailed(s)) /\ WF_svars(Deliver(s))
    /\ WF_svars(\E event \in {"done", "error", "cancelled"} : EndStream(s, event))
StreamsSpec == StreamsInit /\ [][StreamsNext]_svars /\ StreamsFair

-----------------------------------------------------------------------------
StreamsTypeOK ==
    /\ inFlight.turn \in 0 .. sent /\ inFlight.stream \in 0 .. sent
    /\ pending \in 0 .. sent /\ ToSet(ignored) \subseteq 1 .. sent /\ Len(ignored) <= MaxIgnored
    /\ cancelling \subseteq Streams /\ registry \subseteq Streams

(* The text of another turn's stream gets into a turn's message only when
   that other, earlier turn left before the window knew its stream: it was
   cancelled then, or itself ended by such a foreign text.  The other way in
   needs more cancelled turns than the window remembers to ignore. *)
ForeignTextExplained ==
    \A p \in shown : p[1] # p[2] =>
      /\ p[2] < p[1]
      /\ \/ p[2] \in early \/ \E q \in shown : q[1] = p[2] /\ q[1] # q[2]
         \/ p[1] > MaxIgnored + 1

(* A stream nobody listens to is on its way to be cancelled: its turn is in
   flight, its start call has not replied, or its cancel call is under way. *)
NoOrphanStream ==
    \A s \in Streams :
      stream[s] = "running" => inFlight.turn = s \/ start[s] = "started" \/ s \in cancelling

(* As long as no turn has been cancelled before its start call replied, a
   turn does not stay in flight forever: whichever of the reply and the last
   event comes first, the turn is told of its end. *)
TurnsSettle ==
    \A t \in Streams : (inFlight.turn = t /\ early = {}) ~> (inFlight.turn # t \/ early # {})

(* Both: no message shows what it should not, no stream runs unwatched. *)
StreamsSafe == ForeignTextExplained /\ NoOrphanStream
=============================================================================
