---------------------------- MODULE DaemonLifecycle ----------------------------
(***************************************************************************)
(* The processes that compete for one data directory: headless daemons     *)
(* (LaunchAgent, systemd, CLI cold spawn) and the desktop app, which asks a *)
(* headless daemon to leave before it runs its own embedded one.           *)
(* internal/ipc/transport_{unix,windows}.go, internal/ipc/handshake.go,    *)
(* internal/daemon/daemon.go (Run), main.go (tryDaemonHandoff) and         *)
(* app_recovery.go (startEmbeddedDaemon, stopEmbeddedDaemon).              *)
(*                                                                         *)
(* A process is its pid.  The file system is two cells, the socket (or     *)
(* pipe) address and cli-handshake.json, each holding the process that     *)
(* wrote it or Nobody.                                                     *)
(***************************************************************************)
CONSTANTS
    Headless,   \* processes started with --headless
    Gui,        \* desktop processes
    Legacy,     \* the processes of an older build, without daemon.shutdown
    Unix,       \* TRUE: unix domain socket; FALSE: Windows named pipe
    Crashable,  \* the processes that may be killed (SIGKILL, power, panic)
    Nobody

ASSUME ProcessKinds ==
    /\ Headless \cap Gui = {}
    /\ Nobody \notin Headless \cup Gui
    /\ Unix \in BOOLEAN
    /\ Legacy \subseteq Headless \cup Gui
    /\ Crashable \subseteq Headless \cup Gui

VARIABLES
    pc,        \* where each process is
    sock,      \* whose socket file or pipe the address names
    listening, \* which processes hold a listener that accepts
    hs,        \* the pid in cli-handshake.json
    stopping,  \* processes whose server context is, or is about to be, cancelled
    conns,     \* per process: the accepted client connection's state
    peer,      \* per desktop process: the pid in the handshake it read
    asked,     \* per desktop process: the listener its shutdown request reached
    reused,    \* dead processes whose pid now belongs to an unrelated one
    robbed     \* history: listeners whose address another process unlinked

vars == <<pc, sock, listening, hs, stopping, conns, peer, asked, reused, robbed>>

Proc == Headless \cup Gui
Holder == Proc \cup {Nobody}

Handoff == {"handoff", "pidCheck", "probe", "ask", "asked", "waiting"}
Starting == {"stat", "dial", "unlink", "bind", "bound", "chmod", "publish"}
Running == {"published", "serving", "draining", "cleanup"}
Ended == {"off", "done", "crashed"}
Stages == Handoff \cup Starting \cup Running \cup Ended \cup {"failed", "skipped"}

(* handleConn: an accepted connection waits for a frame or runs a handler. *)
Connections == {"none", "idle", "busy"}

TypeOK ==
    /\ pc \in [Proc -> Stages]
    /\ sock \in Holder
    /\ listening \in SUBSET Proc
    /\ hs \in Holder
    /\ stopping \in SUBSET Proc
    /\ conns \in [Proc -> Connections]
    /\ peer \in [Gui -> Holder]
    /\ asked \in [Gui -> Holder]
    /\ reused \in SUBSET Proc
    /\ robbed \in SUBSET Proc
    /\ \A g \in Gui : pc[g] \in Handoff \ {"handoff"} => peer[g] \in Proc
    /\ \A g \in Gui : pc[g] = "asked" => asked[g] \in Proc
    /\ \A p \in Headless : pc[p] \notin Handoff

Init ==
    /\ pc = [p \in Proc |-> "off"]
    /\ sock = Nobody
    /\ listening = {}
    /\ hs = Nobody
    /\ stopping = {}
    /\ conns = [p \in Proc |-> "none"]
    /\ peer = [g \in Gui |-> Nobody]
    /\ asked = [g \in Gui |-> Nobody]
    /\ reused = {}
    /\ robbed = {}

Alive(p) == pc[p] \notin Ended

(* The pids PidAlive reports.                                              *)
LivePids == {p \in Proc : Alive(p)} \cup reused

(* A dial succeeds iff somebody listens behind the address.                *)
Reachable == sock \in listening

Goto(p, s) == pc' = [pc EXCEPT ![p] = s]

(* A start that fails ends a headless process; the desktop app stays up on *)
(* its recovery screen.                                                    *)
FailedStage(p) == IF p \in Gui THEN "failed" ELSE "done"

Files == <<sock, listening, hs, robbed>>
Others == <<stopping, conns, peer, asked, reused>>

(* unlink(2) of the address: whoever holds it loses its name.              *)
RobbedBy(p) ==
    IF sock \in Proc \ {p} /\ (sock \in listening \/ pc[sock] = "bound")
    THEN robbed \cup {sock} ELSE robbed

(* net.Listener.Close: on unix it unlinks the path it bound, whatever is   *)
(* there by now; a pipe just loses its server end.                         *)
CloseListener(p) ==
    /\ listening' = listening \ {p}
    /\ sock' = IF Unix \/ sock = p THEN Nobody ELSE sock
    /\ robbed' = IF Unix THEN RobbedBy(p) ELSE robbed

(***************************************************************************)
(* Start.  The desktop app holds the single-instance lock while it runs.   *)
(***************************************************************************)
StartHeadless(p) ==
    /\ p \in Headless
    /\ pc[p] = "off"
    /\ Goto(p, "stat")
    /\ UNCHANGED <<Files, Others>>

StartGui(g) ==
    /\ pc[g] = "off"
    /\ \A other \in Gui : ~Alive(other)
    /\ Goto(g, "handoff")
    /\ UNCHANGED <<Files, Others>>

(***************************************************************************)
(* tryDaemonHandoff.                                                       *)
(***************************************************************************)
\* Mutant: a missing handshake is not told from a read one.
MissingHandshakeIgnored(g) ==
    /\ pc[g] = "handoff"
    /\ peer' = [peer EXCEPT ![g] = hs]
    /\ Goto(g, "pidCheck")
    /\ UNCHANGED <<Files, stopping, conns, asked, reused>>

ReadPeer(g) ==
    /\ pc[g] = "handoff"
    /\ peer' = [peer EXCEPT ![g] = hs]
    /\ Goto(g, IF hs = Nobody THEN "stat" ELSE "pidCheck")
    /\ UNCHANGED <<Files, stopping, conns, asked, reused>>

CheckPeerPid(g) ==
    /\ pc[g] = "pidCheck"
    /\ Goto(g, IF peer[g] \in LivePids THEN "probe" ELSE "stat")
    /\ UNCHANGED <<Files, Others>>

ProbePeer(g) ==
    /\ pc[g] = "probe"
    /\ Goto(g, IF ~Reachable THEN "stat" ELSE IF peer[g] \in Gui THEN "skipped" ELSE "ask")
    /\ UNCHANGED <<Files, Others>>

(* A killed process: its listener goes with it, its socket file and its    *)
(* handshake stay; a pipe does not outlive its server.                     *)
Dies(p) ==
    /\ listening' = listening \ {p}
    /\ sock' = IF ~Unix /\ sock = p THEN Nobody ELSE sock
    /\ stopping' = stopping \ {p}
    /\ conns' = [conns EXCEPT ![p] = "none"]
    /\ UNCHANGED <<hs, robbed>>

(* Client.Connect refuses a daemon of another version.                     *)
SameBuild(g) == hs \in Legacy <=> g \in Legacy

(* Roundtrip of daemon.shutdown, first half: Client.Connect reads the      *)
(* handshake again and dials whoever answers the address now.  No daemon:  *)
(* take over.                                                              *)
AskNobody(g) ==
    /\ pc[g] = "ask"
    /\ hs \notin LivePids \/ (SameBuild(g) /\ ~Reachable)
    /\ Goto(g, "stat")
    /\ UNCHANGED <<Files, Others>>

AskPeer(g) ==
    /\ pc[g] = "ask"
    /\ hs \in LivePids /\ SameBuild(g) /\ Reachable
    /\ asked' = [asked EXCEPT ![g] = sock]
    /\ Goto(g, "asked")
    /\ UNCHANGED <<Files, stopping, conns, peer, reused>>

VersionMismatch(g) ==
    pc[g] = "ask" /\ hs \in LivePids /\ ~SameBuild(g)

Refused(g) ==
    pc[g] = "asked" /\ pc[asked[g]] = "serving" /\ asked[g] \in Legacy

(* signalProcessTerm on the pid of the handshake first read: a serving     *)
(* daemon stops as if asked, one that has not registered its handler yet   *)
(* dies of it, and on Windows the process is terminated.                   *)
SignalStops(g) ==
    /\ VersionMismatch(g) \/ Refused(g)
    /\ Unix
    /\ pc[peer[g]] \in {"serving", "draining", "cleanup"}
    /\ stopping' = IF pc[peer[g]] = "serving" THEN stopping \cup {peer[g]} ELSE stopping
    /\ Goto(g, "waiting")
    /\ UNCHANGED <<Files, conns, peer, asked, reused>>

(* The pid now belongs to an unrelated process, which may die of it.       *)
SignalStranger(g) ==
    /\ VersionMismatch(g) \/ Refused(g)
    /\ peer[g] \in reused
    /\ reused' \in {reused, reused \ {peer[g]}}
    /\ Goto(g, "waiting")
    /\ UNCHANGED <<Files, stopping, conns, peer, asked>>

SignalKills(g) ==
    /\ VersionMismatch(g) \/ Refused(g)
    /\ Alive(peer[g])
    /\ Unix => pc[peer[g]] \notin {"serving", "draining", "cleanup"}
    /\ pc' = [pc EXCEPT ![peer[g]] = "crashed", ![g] = "waiting"]
    /\ Dies(peer[g])
    /\ UNCHANGED <<peer, asked, reused>>

SignalFails(g) ==
    /\ VersionMismatch(g) \/ Refused(g)
    /\ peer[g] \notin LivePids
    /\ Goto(g, "failed")
    /\ UNCHANGED <<Files, Others>>

(* handleShutdown answers, then cancels 50 ms later.                       *)
ShutdownAccepted(g) ==
    /\ pc[g] = "asked"
    /\ pc[asked[g]] = "serving"
    /\ asked[g] \notin Legacy
    /\ stopping' = stopping \cup {asked[g]}
    /\ Goto(g, "waiting")
    /\ UNCHANGED <<Files, conns, peer, asked, reused>>

(* The connection drops or its two seconds pass.                           *)
ShutdownLost(g) ==
    /\ pc[g] = "asked"
    /\ Goto(g, "failed")
    /\ UNCHANGED <<Files, Others>>

(* The wait loop: gone or dead, the address is free; another pid, the      *)
(* replacement keeps it.                                                   *)
PollPeer(g) ==
    /\ pc[g] = "waiting"
    /\ hs # peer[g] \/ peer[g] \notin LivePids
    /\ Goto(g, IF hs \notin {Nobody, peer[g]} THEN "skipped" ELSE "stat")
    /\ UNCHANGED <<Files, Others>>

\* Mutant: the wait for the peer has no deadline.
WaitsForever(g) == FALSE /\ UNCHANGED vars

WaitTimesOut(g) ==
    /\ pc[g] = "waiting"
    /\ Goto(g, "failed")
    /\ UNCHANGED <<Files, Others>>

(***************************************************************************)
(* daemon.Run up to the published handshake.  On unix listen is            *)
(* removeStaleSocket (stat, dial, unlink), bind, listen and chmod; a pipe  *)
(* is created by one call that fails while another process serves it.      *)
(***************************************************************************)
StatSocket(p) ==
    /\ pc[p] = "stat"
    /\ Goto(p, IF Unix /\ sock # Nobody THEN "dial" ELSE "bind")
    /\ UNCHANGED <<Files, Others>>

DialSocket(p) ==
    /\ pc[p] = "dial"
    /\ Goto(p, IF Reachable THEN FailedStage(p) ELSE "unlink")
    /\ UNCHANGED <<Files, Others>>

UnlinkStale(p) ==
    /\ pc[p] = "unlink"
    /\ Goto(p, IF sock = Nobody THEN FailedStage(p) ELSE "bind")
    /\ sock' = Nobody
    /\ robbed' = RobbedBy(p)
    /\ UNCHANGED <<listening, hs, Others>>

AddressInUse(p) ==
    /\ pc[p] = "bind"
    /\ sock # Nobody
    /\ Goto(p, FailedStage(p))
    /\ UNCHANGED <<Files, Others>>

\* Mutant: the address is taken although a peer has it.
BindsOverPeer(p) ==
    /\ pc[p] = "bind"
    /\ sock' = p
    /\ Goto(p, IF Unix THEN "bound" ELSE "publish")
    /\ listening' = IF Unix THEN listening ELSE listening \cup {p}
    /\ UNCHANGED <<hs, robbed, Others>>

Bind(p) ==
    /\ pc[p] = "bind"
    /\ sock = Nobody
    /\ sock' = p
    /\ Goto(p, IF Unix THEN "bound" ELSE "publish")
    /\ listening' = IF Unix THEN listening ELSE listening \cup {p}
    /\ UNCHANGED <<hs, robbed, Others>>

Listen(p) ==
    /\ pc[p] = "bound"
    /\ listening' = listening \cup {p}
    /\ Goto(p, "chmod")
    /\ UNCHANGED <<sock, hs, robbed, Others>>

ChmodSocket(p) ==
    /\ pc[p] = "chmod"
    /\ sock # Nobody
    /\ Goto(p, "publish")
    /\ UNCHANGED <<Files, Others>>

(* chmod finds no file, or WriteHandshake fails: close and give up.        *)
GiveUp(p) ==
    /\ pc[p] = "publish" \/ (pc[p] = "chmod" /\ sock = Nobody)
    /\ Goto(p, FailedStage(p))
    /\ CloseListener(p)
    /\ UNCHANGED <<hs, Others>>

PublishHandshake(p) ==
    /\ pc[p] = "publish"
    /\ hs' = p
    /\ Goto(p, "published")
    /\ UNCHANGED <<sock, listening, robbed, Others>>

(* signal.Notify, then Serve.                                              *)
RegisterSignals(p) ==
    /\ pc[p] = "published"
    /\ Goto(p, "serving")
    /\ UNCHANGED <<Files, Others>>

(***************************************************************************)
(* Serve and its end.                                                      *)
(***************************************************************************)
AcceptConn(p) ==
    /\ pc[p] = "serving" /\ sock = p /\ conns[p] = "none"
    /\ conns' = [conns EXCEPT ![p] = "idle"]
    /\ UNCHANGED <<pc, Files, stopping, peer, asked, reused>>

BeginRequest(p) ==
    /\ pc[p] = "serving" /\ conns[p] = "idle"
    /\ conns' = [conns EXCEPT ![p] = "busy"]
    /\ UNCHANGED <<pc, Files, stopping, peer, asked, reused>>

EndRequest(p) ==
    /\ conns[p] = "busy"
    /\ conns' = [conns EXCEPT ![p] = IF pc[p] = "serving" THEN "idle" ELSE "none"]
    /\ UNCHANGED <<pc, Files, stopping, peer, asked, reused>>

ClientLeaves(p) ==
    /\ conns[p] = "idle"
    /\ conns' = [conns EXCEPT ![p] = "none"]
    /\ UNCHANGED <<pc, Files, stopping, peer, asked, reused>>

(* SIGTERM from launchd, systemd or the user; closing the desktop app.     *)
StopRequested(p) ==
    /\ pc[p] = "serving" \/ (p \in Gui /\ pc[p] = "published")
    /\ stopping' = stopping \cup {p}
    /\ UNCHANGED <<pc, Files, conns, peer, asked, reused>>

\* Mutant: cancelling leaves accepted connections open.
QuietClientKeepsServer(p) ==
    /\ pc[p] = "serving"
    /\ p \in stopping
    /\ Goto(p, "draining")
    /\ CloseListener(p)
    /\ UNCHANGED <<hs, Others>>

(* The context is cancelled: the listener closes, and so does a connection *)
(* that waits for a frame; a handler runs on.                              *)
StopServing(p) ==
    /\ pc[p] = "serving"
    /\ p \in stopping
    /\ Goto(p, "draining")
    /\ CloseListener(p)
    /\ conns' = [conns EXCEPT ![p] = IF @ = "busy" THEN "busy" ELSE "none"]
    /\ UNCHANGED <<hs, stopping, peer, asked, reused>>

Drain(p) ==
    /\ pc[p] = "draining"
    /\ conns[p] = "none"
    /\ Goto(p, "cleanup")
    /\ UNCHANGED <<Files, Others>>

\* Mutant: the handshake is removed under the data file's path.
WrongPathRemoved(p) ==
    /\ pc[p] = "cleanup"
    /\ stopping' = stopping \ {p}
    /\ Goto(p, "done")
    /\ UNCHANGED <<Files, conns, peer, asked, reused>>

RemoveHandshake(p) ==
    /\ pc[p] = "cleanup"
    /\ hs' = Nobody
    /\ stopping' = stopping \ {p}
    /\ Goto(p, "done")
    /\ UNCHANGED <<sock, listening, robbed, conns, peer, asked, reused>>

(* StartupRecoveryRetry, and leaving a window that runs no daemon.         *)
RetryStartup(g) ==
    /\ pc[g] = "failed"
    /\ Goto(g, "handoff")
    /\ UNCHANGED <<Files, Others>>

QuitGui(g) ==
    /\ pc[g] \in {"failed", "skipped"}
    /\ Goto(g, "done")
    /\ UNCHANGED <<Files, Others>>

Crash(p) ==
    /\ p \in Crashable
    /\ Alive(p)
    /\ Goto(p, "crashed")
    /\ Dies(p)
    /\ UNCHANGED <<peer, asked, reused>>

PidReused(p) ==
    /\ pc[p] \in {"done", "crashed"}
    /\ reused' = reused \cup {p}
    /\ UNCHANGED <<pc, Files, stopping, conns, peer, asked>>

(***************************************************************************)
(* Next and fairness: a process that runs keeps taking its own steps, and  *)
(* a handler whose context is cancelled returns.  Clients, users, signals  *)
(* and crashes promise nothing.                                            *)
(***************************************************************************)
HandoffStep(g) ==
    \/ ReadPeer(g) \/ CheckPeerPid(g) \/ ProbePeer(g)
    \/ AskNobody(g) \/ AskPeer(g) \/ SignalStops(g) \/ SignalStranger(g) \/ SignalKills(g) \/ SignalFails(g)
    \/ ShutdownAccepted(g) \/ ShutdownLost(g) \/ PollPeer(g) \/ WaitTimesOut(g)

ListenStep(p) ==
    \/ StatSocket(p) \/ DialSocket(p) \/ UnlinkStale(p) \/ AddressInUse(p) \/ Bind(p)
    \/ Listen(p) \/ ChmodSocket(p) \/ GiveUp(p) \/ PublishHandshake(p) \/ RegisterSignals(p)

ShutdownStep(p) == StopServing(p) \/ Drain(p) \/ RemoveHandshake(p)

Environment(p) ==
    \/ StartHeadless(p) \/ AcceptConn(p) \/ BeginRequest(p) \/ ClientLeaves(p)
    \/ StopRequested(p) \/ Crash(p) \/ PidReused(p)

Next ==
    \/ \E g \in Gui : StartGui(g) \/ HandoffStep(g) \/ RetryStartup(g) \/ QuitGui(g)
    \/ \E p \in Proc : ListenStep(p) \/ ShutdownStep(p) \/ EndRequest(p) \/ Environment(p)

Fairness ==
    /\ \A g \in Gui : WF_vars(HandoffStep(g))
    /\ \A p \in Proc : WF_vars(ListenStep(p)) /\ WF_vars(ShutdownStep(p)) /\ WF_vars(EndRequest(p))

Spec == Init /\ [][Next]_vars
FairSpec == Spec /\ Fairness

(***************************************************************************)
(* Properties.                                                             *)
(***************************************************************************)
(* Two processes accept connections at once only after one of them had its *)
(* socket file unlinked under it: bind refuses a name in use               *)
(* (transport_unix.go listen, transport_windows.go listen).                *)
OneListenerUnlessUnlinked ==
    \A p, q \in listening : p # q => p \in robbed \/ q \in robbed

(* A daemon that stopped by itself, and a start that failed, leave neither *)
(* a handshake nor a socket file that would send clients to them, whatever *)
(* the others did meanwhile (Run's error returns and its last lines).      *)
LeavesNothingBehind ==
    \A p \in Proc : pc[p] \in {"done", "failed"} => hs # p /\ sock # p

(* Starts, stops and takeovers end clean: one listener, and no trace of    *)
(* one that left.                                                          *)
StartsClean == OneListenerUnlessUnlinked /\ LeavesNothingBehind

(* On a platform where an address cannot be unlinked the daemons hold it   *)
(* as a lease: at most one at a time, taken only when free.                *)
Lease == INSTANCE SocketLease WITH holders <- listening
LeaseSpec == Lease!Spec

(* A cancelled daemon leaves, even with a client that stays connected and  *)
(* silent, once the handler it runs has returned (handleConn's forced      *)
(* close, Serve's wait, Run's tail).                                       *)
ShutdownCompletes == \A p \in Proc : p \in stopping ~> p \notin stopping

(* A desktop start is decided: it serves, defers, or reports failure, even *)
(* when the peer it asked never leaves (tryDaemonHandoff's deadline).      *)
HandoffSettles ==
    \A g \in Gui : pc[g] = "handoff" ~> pc[g] \in {"stat", "skipped", "failed", "done", "crashed"}

(* The handshake is the single source of truth for "daemon is ready": a    *)
(* daemon that serves behind the address is the one it names.              *)
ServingIsPublished ==
    \A p \in Proc : pc[p] = "serving" /\ p \notin stopping /\ sock = p => hs = p

================================================================================
