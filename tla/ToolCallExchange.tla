--------------------------- MODULE ToolCallExchange ---------------------------
(***************************************************************************)
(* tool.call between a front end and the daemon: concurrent callers over   *)
(* the one connection of an ipc.Client, the client's one spawn-and-retry,  *)
(* and the daemon's connection loop, while daemons stop, crash and start.  *)
(* internal/ipc/client.go (Roundtrip), internal/ipc/server.go              *)
(* (handleConn), internal/mcp/tool_dispatch.go (dispatchViaDaemon; the     *)
(* CLI's dispatchToolCallViaDaemon is the case of one caller).             *)
(*                                                                         *)
(* Frames carry no identity the client checks: which call an answer is for *)
(* follows from the order on the connection alone.                         *)
(***************************************************************************)
EXTENDS Naturals

CONSTANTS
    Callers,    \* concurrent tool calls of one front end, one call each
    MaxConns,   \* bound: connections the client dials
    MaxDaemons, \* bound: daemons that serve one after the other
    Nobody

ASSUME ExchangeConstants ==
    /\ Nobody \notin Callers
    /\ MaxConns \in Nat \ {0}
    /\ MaxDaemons \in Nat \ {0}

Conns == 1..MaxConns

VARIABLES
    pc,       \* where each call is
    round,    \* its first roundtrip or its retry
    reply,    \* the call whose answer it returned, itself if all is well
    ended,    \* the calls whose context has ended
    mutex,    \* the call doing its I/O under Client.mu
    conn,     \* Client.conn, 0 when nil
    made,     \* connections dialed so far
    server,   \* the daemon behind each connection
    cut,      \* connections their daemon has closed
    inbox,    \* the request on its way to the daemon
    task,     \* the request the daemon's connection loop is handling
    ran,      \* connections whose handler has run the tool
    outbox,   \* the response on its way back
    daemon,   \* the daemon behind the address, 0 when none
    started,  \* daemons so far
    runs,     \* history: how often the tool of each call ran
    lost,     \* history: calls whose connection its daemon closed under them
    faulted   \* history: a daemon died, or an answer did not fit its frame

clientVars == <<pc, round, reply, ended, mutex, conn, made, server>>
wireVars == <<cut, inbox, task, ran, outbox>>
daemonVars == <<daemon, started>>
history == <<runs, lost, faulted>>
vars == <<clientVars, wireVars, daemonVars, history>>

Stages == {"idle", "connect", "turn", "write", "read", "wait", "mark", "done"}

TypeOK ==
    /\ pc \in [Callers -> Stages]
    /\ round \in [Callers -> {1, 2}]
    /\ reply \in [Callers -> Callers \cup {Nobody}]
    /\ ended \subseteq Callers
    /\ mutex \in Callers \cup {Nobody}
    /\ made \in 0..MaxConns
    /\ conn \in 0..made
    /\ server \in [Conns -> 0..MaxDaemons]
    /\ cut \subseteq Conns
    /\ inbox \in [Conns -> Callers \cup {Nobody}]
    /\ task \in [Conns -> Callers \cup {Nobody}]
    /\ ran \subseteq Conns
    /\ outbox \in [Conns -> Callers \cup {Nobody}]
    /\ daemon \in 0..started
    /\ started \in 0..MaxDaemons
    /\ runs \in [Callers -> Nat]
    /\ lost \subseteq Callers
    /\ faulted \in BOOLEAN
    /\ \A c \in Callers : pc[c] \in {"write", "read"} <=> mutex = c

Init ==
    /\ pc = [c \in Callers |-> "idle"]
    /\ round = [c \in Callers |-> 1]
    /\ reply = [c \in Callers |-> Nobody]
    /\ ended = {}
    /\ mutex = Nobody
    /\ conn = 0 /\ made = 0
    /\ server = [k \in Conns |-> 0]
    /\ cut = {} /\ ran = {}
    /\ inbox = [k \in Conns |-> Nobody]
    /\ task = [k \in Conns |-> Nobody]
    /\ outbox = [k \in Conns |-> Nobody]
    /\ daemon = 1 /\ started = 1
    /\ runs = [c \in Callers |-> 0]
    /\ lost = {} /\ faulted = FALSE

Goto(c, stage) == pc' = [pc EXCEPT ![c] = stage]

(***************************************************************************)
(* Client.Roundtrip under dispatchViaDaemon.                               *)
(***************************************************************************)
Call(c) ==
    /\ pc[c] = "idle"
    /\ Goto(c, "connect")
    /\ UNCHANGED <<round, reply, ended, mutex, conn, made, server, wireVars, daemonVars, history>>

(* Connect: an open connection is used as it is.                           *)
Connected(c) ==
    /\ pc[c] = "connect" /\ mutex = Nobody
    /\ conn # 0
    /\ Goto(c, "turn")
    /\ UNCHANGED <<round, reply, ended, mutex, conn, made, server, wireVars, daemonVars, history>>

Dial(c) ==
    /\ pc[c] = "connect" /\ mutex = Nobody
    /\ conn = 0 /\ daemon # 0 /\ made < MaxConns
    /\ made' = made + 1
    /\ conn' = made + 1
    /\ server' = [server EXCEPT ![made + 1] = daemon]
    /\ Goto(c, "turn")
    /\ UNCHANGED <<round, reply, ended, mutex, wireVars, daemonVars, history>>

(* No handshake, no live pid or no listener, or a context that has ended:  *)
(* spawn and retry, once.                                                  *)
NoDaemon(c) ==
    /\ pc[c] = "connect" /\ mutex = Nobody
    /\ conn = 0
    /\ daemon = 0 \/ made = MaxConns \/ c \in ended
    /\ Goto(c, IF round[c] = 1 THEN "wait" ELSE "done")
    /\ UNCHANGED <<round, reply, ended, mutex, conn, made, server, wireVars, daemonVars, history>>

(* Another version's daemon, or an unreadable handshake: reported at once. *)
Mismatch(c) ==
    /\ pc[c] = "connect" /\ mutex = Nobody
    /\ conn = 0
    /\ Goto(c, "done")
    /\ UNCHANGED <<round, reply, ended, mutex, conn, made, server, wireVars, daemonVars, history>>

\* Mutant: the I/O of two calls on one connection is not excluded.
LocksAnyway(c) ==
    /\ pc[c] = "turn"
    /\ conn # 0
    /\ mutex' = c
    /\ Goto(c, "write")
    /\ UNCHANGED <<round, reply, ended, conn, made, server, wireVars, daemonVars, history>>

(* Between Connect and the lock another call may have dropped the          *)
(* connection: "not connected" is no reason to spawn.                      *)
Lock(c) ==
    /\ pc[c] = "turn" /\ mutex = Nobody
    /\ conn # 0
    /\ mutex' = c
    /\ Goto(c, "write")
    /\ UNCHANGED <<round, reply, ended, conn, made, server, wireVars, daemonVars, history>>

NotConnected(c) ==
    /\ pc[c] = "turn" /\ mutex = Nobody
    /\ conn = 0
    /\ Goto(c, "done")
    /\ UNCHANGED <<round, reply, ended, mutex, conn, made, server, wireVars, daemonVars, history>>

WriteRequest(c) ==
    /\ pc[c] = "write"
    /\ conn \notin cut
    /\ inbox' = [inbox EXCEPT ![conn] = c]
    /\ Goto(c, "read")
    /\ UNCHANGED <<round, reply, ended, mutex, conn, made, server, cut, task, ran, outbox, daemonVars, history>>

ReadResponse(c) ==
    /\ pc[c] = "read"
    /\ outbox[conn] # Nobody
    /\ reply' = [reply EXCEPT ![c] = outbox[conn]]
    /\ outbox' = [outbox EXCEPT ![conn] = Nobody]
    /\ mutex' = Nobody
    /\ Goto(c, "done")
    /\ UNCHANGED <<round, ended, conn, made, server, cut, inbox, task, ran, daemonVars, history>>

(* EOF, reset or broken pipe: the connection is dropped, and the call made *)
(* once more through a daemon that may have to be spawned.                 *)
PeerGone(c) ==
    /\ pc[c] \in {"write", "read"}
    /\ conn \in cut
    /\ pc[c] = "read" => outbox[conn] = Nobody
    /\ conn' = 0
    /\ mutex' = Nobody
    /\ Goto(c, IF round[c] = 1 THEN "wait" ELSE "done")
    /\ UNCHANGED <<round, reply, ended, made, server, wireVars, daemonVars, history>>

(* Cut in the middle of a frame: a short header is no connection loss, and *)
(* the call is not made again.                                             *)
TornAnswer(c) ==
    /\ pc[c] = "read"
    /\ conn \in cut /\ outbox[conn] = Nobody
    /\ conn' = 0
    /\ mutex' = Nobody
    /\ Goto(c, "done")
    /\ UNCHANGED <<round, reply, ended, made, server, wireVars, daemonVars, history>>

\* Mutant: the connection of a cancelled call is kept for the next one.
GivesUpKeepsConn(c) ==
    /\ pc[c] \in {"write", "read"}
    /\ c \in ended
    /\ mutex' = Nobody
    /\ Goto(c, "done")
    /\ UNCHANGED <<round, reply, ended, conn, made, server, wireVars, daemonVars, history>>

(* The watcher's past deadline, the caller's own, or a request over        *)
(* MaxFrameBytes fails the I/O: the connection is dropped with whatever is *)
(* still on it.                                                            *)
GivesUp(c) ==
    /\ pc[c] \in {"write", "read"}
    /\ pc[c] = "read" => c \in ended
    /\ conn' = 0
    /\ mutex' = Nobody
    /\ Goto(c, "done")
    /\ UNCHANGED <<round, reply, ended, made, server, wireVars, daemonVars, history>>

(* SpawnDaemon and WaitForHandshake.                                       *)
Ready(c) ==
    /\ pc[c] = "wait"
    /\ daemon # 0 /\ c \notin ended
    /\ Goto(c, "mark")
    /\ UNCHANGED <<round, reply, ended, mutex, conn, made, server, wireVars, daemonVars, history>>

\* Mutant: the wait for a handshake has no deadline.
NeverTimesOut(c) == FALSE /\ UNCHANGED vars

NotReady(c) ==
    /\ pc[c] = "wait"
    /\ Goto(c, "done")
    /\ UNCHANGED <<round, reply, ended, mutex, conn, made, server, wireVars, daemonVars, history>>

\* Mutant: a retry that fails is retried again.
RetriesAgain(c) ==
    /\ pc[c] = "mark" /\ mutex = Nobody
    /\ conn' = 0
    /\ Goto(c, "connect")
    /\ UNCHANGED <<round, reply, ended, mutex, made, server, wireVars, daemonVars, history>>

MarkDisconnected(c) ==
    /\ pc[c] = "mark" /\ mutex = Nobody
    /\ conn' = 0
    /\ round' = [round EXCEPT ![c] = 2]
    /\ Goto(c, "connect")
    /\ UNCHANGED <<reply, ended, mutex, made, server, wireVars, daemonVars, history>>

CtxEnds(c) ==
    /\ pc[c] \notin {"idle", "done"}
    /\ ended' = ended \cup {c}
    /\ UNCHANGED <<pc, round, reply, mutex, conn, made, server, wireVars, daemonVars, history>>

(***************************************************************************)
(* handleConn: one frame in, one frame out.  What the client has sent and  *)
(* not waited for is still read and run.                                   *)
(***************************************************************************)
Serves(k) == k \notin cut

ReadRequest(k) ==
    /\ Serves(k) /\ inbox[k] # Nobody /\ task[k] = Nobody
    /\ task' = [task EXCEPT ![k] = inbox[k]]
    /\ inbox' = [inbox EXCEPT ![k] = Nobody]
    /\ UNCHANGED <<clientVars, cut, ran, outbox, daemonVars, history>>

(* The handler: toolexec.Dispatch, here the tool's one effect.             *)
RunTool(k) ==
    /\ task[k] # Nobody /\ k \notin ran
    /\ ran' = ran \cup {k}
    /\ runs' = [runs EXCEPT ![task[k]] = @ + 1]
    /\ UNCHANGED <<clientVars, cut, inbox, task, outbox, daemonVars, lost, faulted>>

(* To a connection that either end has closed the write fails.             *)
WriteResponse(k) ==
    /\ task[k] # Nobody /\ k \in ran
    /\ outbox' = [outbox EXCEPT ![k] = IF Serves(k) /\ k = conn THEN task[k] ELSE @]
    /\ task' = [task EXCEPT ![k] = Nobody]
    /\ ran' = ran \ {k}
    /\ UNCHANGED <<clientVars, cut, inbox, daemonVars, history>>

OnWire(k) == {inbox[k], task[k]} \ {Nobody}

(* A response over MaxFrameBytes is not written: the connection closes.    *)
ReplyTooLarge(k) ==
    /\ task[k] # Nobody /\ k \in ran
    /\ cut' = cut \cup {k}
    /\ lost' = lost \cup OnWire(k)
    /\ task' = [task EXCEPT ![k] = Nobody]
    /\ ran' = ran \ {k}
    /\ faulted' = TRUE
    /\ UNCHANGED <<clientVars, inbox, outbox, daemonVars, runs>>

(***************************************************************************)
(* Daemons.                                                                *)
(***************************************************************************)
ConnsOf(d) == {k \in 1..made : server[k] = d}

(* Serve's context is cancelled: the listener and every connection close,  *)
(* the handlers run on.                                                    *)
Stop ==
    /\ daemon # 0
    /\ daemon' = 0
    /\ cut' = cut \cup ConnsOf(daemon)
    /\ lost' = lost \cup UNION {OnWire(k) : k \in ConnsOf(daemon)}
    /\ UNCHANGED <<clientVars, inbox, task, ran, outbox, started, runs, faulted>>

(* A daemon dies, serving or draining, and its handlers with it.           *)
Crash(d) ==
    /\ daemon' = IF daemon = d THEN 0 ELSE daemon
    /\ cut' = cut \cup ConnsOf(d)
    /\ lost' = lost \cup UNION {OnWire(k) : k \in ConnsOf(d)}
    /\ task' = [k \in Conns |-> IF k \in ConnsOf(d) THEN Nobody ELSE task[k]]
    /\ ran' = ran \ ConnsOf(d)
    /\ faulted' = TRUE
    /\ UNCHANGED <<clientVars, inbox, outbox, started, runs>>

(* Spawned by a call, started by the user or by the desktop app.           *)
Start ==
    /\ daemon = 0 /\ started < MaxDaemons
    /\ started' = started + 1
    /\ daemon' = started + 1
    /\ UNCHANGED <<clientVars, wireVars, history>>

IoStep(c) == Lock(c) \/ NotConnected(c) \/ WriteRequest(c) \/ ReadResponse(c) \/ PeerGone(c) \/ TornAnswer(c) \/ GivesUp(c)

CallStep(c) ==
    \/ Connected(c) \/ Dial(c) \/ NoDaemon(c) \/ Mismatch(c) \/ IoStep(c)
    \/ Ready(c) \/ NotReady(c) \/ MarkDisconnected(c)

ServeStep(k) == ReadRequest(k) \/ RunTool(k) \/ WriteResponse(k) \/ ReplyTooLarge(k)

Next ==
    \/ \E c \in Callers : Call(c) \/ CallStep(c) \/ CtxEnds(c)
    \/ \E k \in Conns : ServeStep(k)
    \/ Stop \/ Start \/ \E d \in 1..started : Crash(d)

(* A call and a handler keep going; sync.Mutex starves nobody.  Contexts,  *)
(* daemons and users promise nothing.                                      *)
Fairness ==
    /\ \A c \in Callers : WF_vars(CallStep(c))
    /\ \A k \in Conns : WF_vars(ServeStep(k))

Spec == Init /\ [][Next]_vars
FairSpec == Spec /\ Fairness

(***************************************************************************)
(* Properties.                                                             *)
(***************************************************************************)
(* A call returns the answer to itself or an error, never another call's   *)
(* answer, whatever was cancelled, cut or retried before it on the         *)
(* connection they share; and what it reports as run has run (Roundtrip    *)
(* checks no request id).                                                  *)
AnswerIsOwn == \A c \in Callers : reply[c] # Nobody => reply[c] = c /\ runs[c] > 0

(* A connection nobody holds carries nothing of the calls before: no       *)
(* request unread, no handler running, no answer unread (dropLocked on     *)
(* every I/O error).                                                       *)
FreeMeansQuiet ==
    conn # 0 /\ mutex = Nobody =>
        inbox[conn] = Nobody /\ task[conn] = Nobody /\ outbox[conn] = Nobody

(* The connection the calls share hands each its own answer, and the next  *)
(* call a clean line: responses carry no id that anyone checks.            *)
AnswersOwned == AnswerIsOwn /\ FreeMeansQuiet

(* A tool runs once per call; twice only when a daemon closed the          *)
(* connection under the request, never for a cancellation or for another   *)
(* call's loss (dispatchViaDaemon's retry).                                *)
RunsOnceUnlessLost ==
    \A c \in Callers : runs[c] <= IF c \in lost THEN 2 ELSE 1

(* Every call returns: the one mutex, held over the wait for an answer,    *)
(* the retry and a daemon that never comes keep nobody for ever.           *)
CallsReturn == \A c \in Callers : pc[c] = "connect" ~> pc[c] = "done"

(* A daemon told to stop drains its requests (Run, handleShutdown): what   *)
(* ran is answered, so with no daemon dead and every answer sendable a     *)
(* call runs once.                                                         *)
RunsOnceUnlessFaulted == ~faulted => \A c \in Callers : runs[c] <= 1

================================================================================
