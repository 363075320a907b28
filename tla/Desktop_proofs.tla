--------------------------- MODULE Desktop_proofs ----------------------------
(***************************************************************************)
(* The desktop app and what it keeps on disk.  Its processes and the       *)
(* daemon's, for any number of each, any mix of builds and any crashes:    *)
(* the typing of DaemonLifecycle, OneListenerUnlessUnlinked,               *)
(* LeavesNothingBehind, and the refinement of SocketLease when the address *)
(* is a named pipe.  For any keys, files and calls: the sign-in with its   *)
(* trial, the sign-ins to the clouds, the datasources, the risk rules, the *)
(* encryption of the files they all are in, and the wrangler project of a  *)
(* D1 datasource; and the judgement of a statement, by whatever rules.     *)
(***************************************************************************)
EXTENDS DaemonLifecycle, SignIn, CloudSignIn, DesktopStores, LocalEncryption, D1Migrations, StatementRisk,
        FiniteSetTheorems, WellFoundedInduction, TLAPS

(* The stages in which a process may be what an address names, what the    *)
(* handshake names, and what accepts connections.                          *)
AddressStages == {"bound", "chmod", "publish", "published", "serving", "crashed"}
HandshakeStages == {"published", "serving", "draining", "cleanup", "crashed"}
ListenerStages == {"chmod", "publish", "published", "serving"}

(* The inductive strengthening: each cell names a process that has not     *)
(* passed the step that clears it, and a process that has bound still has  *)
(* its address unless it was robbed of it.                                 *)
AddressOwned == \A p \in Proc : sock = p => pc[p] \in AddressStages
HandshakeOwned == \A p \in Proc : hs = p => pc[p] \in HandshakeStages
ListenerRuns == \A p \in listening : pc[p] \in ListenerStages
KeptUnlessRobbed == \A p \in Proc : p \in listening \/ pc[p] = "bound" => sock = p \/ p \in robbed
PipeNeverRobbed == ~Unix => robbed = {} /\ \A p \in Proc : pc[p] \notin {"dial", "unlink", "bound"}

Ownership == AddressOwned /\ HandshakeOwned /\ ListenerRuns /\ KeptUnlessRobbed /\ PipeNeverRobbed
IInv == TypeOK /\ Ownership

LEMMA TypeInit == Init => TypeOK
  BY DEF Init, TypeOK, Holder, Proc, Stages, Ended, Connections, Handoff

LEMMA OwnershipInit == Init => Ownership
  BY ProcessKinds DEF Init, Ownership, AddressOwned, HandshakeOwned, ListenerRuns, KeptUnlessRobbed,
     PipeNeverRobbed, Proc

LEMMA TypeStep ==
  ASSUME IInv, Next
  PROVE  TypeOK'
<1> USE ProcessKinds DEF Goto, Files, Others, FailedStage, Proc, Holder, Alive, Reachable, CloseListener, RobbedBy, Dies
<1> USE DEF IInv, TypeOK, Stages, Handoff, Starting, Running, Ended, Connections, LivePids
<1>1. ASSUME NEW g \in Gui, StartGui(g) \/ HandoffStep(g) \/ RetryStartup(g) \/ QuitGui(g)
      PROVE  TypeOK'
  <2>1. CASE ReadPeer(g)  BY <2>1 DEF ReadPeer
  <2>2. CASE CheckPeerPid(g)  BY <2>2 DEF CheckPeerPid
  <2>3. CASE ProbePeer(g)  BY <2>3 DEF ProbePeer
  <2>4. CASE AskNobody(g)  BY <2>4 DEF AskNobody
  <2>5. CASE AskPeer(g)  BY <2>5 DEF AskPeer
  <2>6. CASE SignalStops(g)  BY <2>6 DEF SignalStops, VersionMismatch, Refused
  <2>7. CASE SignalKills(g)  BY <2>7 DEF SignalKills, VersionMismatch, Refused
  <2>8. CASE SignalFails(g)  BY <2>8 DEF SignalFails, VersionMismatch, Refused
  <2>9. CASE ShutdownAccepted(g)  BY <2>9 DEF ShutdownAccepted
  <2>10. CASE ShutdownLost(g)  BY <2>10 DEF ShutdownLost
  <2>11. CASE PollPeer(g)  BY <2>11 DEF PollPeer
  <2>12. CASE WaitTimesOut(g)  BY <2>12 DEF WaitTimesOut
  <2>13. CASE StartGui(g)  BY <2>13 DEF StartGui
  <2>14. CASE RetryStartup(g)  BY <2>14 DEF RetryStartup
  <2>15. CASE QuitGui(g)  BY <2>15 DEF QuitGui
  <2>16. CASE SignalStranger(g)  BY <2>16 DEF SignalStranger, VersionMismatch, Refused
  <2>17. QED  BY <1>1, <2>1, <2>2, <2>3, <2>4, <2>5, <2>6, <2>7, <2>8, <2>9, <2>10, <2>11, <2>12, <2>13, <2>14, <2>15, <2>16 DEF HandoffStep
<1>2. ASSUME NEW p \in Proc, ListenStep(p) \/ ShutdownStep(p) \/ EndRequest(p) \/ Environment(p)
      PROVE  TypeOK'
  <2>1. CASE StatSocket(p)  BY <2>1 DEF StatSocket
  <2>2. CASE DialSocket(p)  BY <2>2 DEF DialSocket
  <2>3. CASE UnlinkStale(p)  BY <2>3 DEF UnlinkStale
  <2>4. CASE AddressInUse(p)  BY <2>4 DEF AddressInUse
  <2>5. CASE Bind(p)  BY <2>5 DEF Bind
  <2>6. CASE Listen(p)  BY <2>6 DEF Listen
  <2>7. CASE ChmodSocket(p)  BY <2>7 DEF ChmodSocket
  <2>8. CASE GiveUp(p)  BY <2>8 DEF GiveUp
  <2>9. CASE PublishHandshake(p)  BY <2>9 DEF PublishHandshake
  <2>10. CASE RegisterSignals(p)  BY <2>10 DEF RegisterSignals
  <2>11. CASE StopServing(p)  BY <2>11 DEF StopServing
  <2>12. CASE Drain(p)  BY <2>12 DEF Drain
  <2>13. CASE RemoveHandshake(p)  BY <2>13 DEF RemoveHandshake
  <2>14. CASE EndRequest(p)  BY <2>14 DEF EndRequest
  <2>15. CASE StartHeadless(p)  BY <2>15 DEF StartHeadless
  <2>16. CASE AcceptConn(p)  BY <2>16 DEF AcceptConn
  <2>17. CASE BeginRequest(p)  BY <2>17 DEF BeginRequest
  <2>18. CASE ClientLeaves(p)  BY <2>18 DEF ClientLeaves
  <2>19. CASE StopRequested(p)  BY <2>19 DEF StopRequested
  <2>20. CASE Crash(p)  BY <2>20 DEF Crash
  <2>21. CASE PidReused(p)  BY <2>21 DEF PidReused
  <2>22. QED  BY <1>2, <2>1, <2>2, <2>3, <2>4, <2>5, <2>6, <2>7, <2>8, <2>9, <2>10, <2>11, <2>12, <2>13, <2>14, <2>15, <2>16, <2>17, <2>18, <2>19, <2>20, <2>21 DEF ListenStep, ShutdownStep, Environment
<1>3. QED  BY <1>1, <1>2 DEF Next

LEMMA OwnershipStep ==
  ASSUME IInv, Next
  PROVE  Ownership'
<1> USE ProcessKinds DEF Goto, Files, Others, FailedStage, Proc, Holder, Alive, Reachable, CloseListener, RobbedBy, Dies
<1> USE DEF IInv, TypeOK, Ownership, AddressOwned, HandshakeOwned, ListenerRuns, KeptUnlessRobbed, PipeNeverRobbed, AddressStages, HandshakeStages, ListenerStages
<1>1. ASSUME NEW g \in Gui, StartGui(g) \/ HandoffStep(g) \/ RetryStartup(g) \/ QuitGui(g)
      PROVE  Ownership'
  <2>1. CASE ReadPeer(g)  BY <2>1 DEF ReadPeer
  <2>2. CASE CheckPeerPid(g)  BY <2>2 DEF CheckPeerPid
  <2>3. CASE ProbePeer(g)  BY <2>3 DEF ProbePeer
  <2>4. CASE AskNobody(g)  BY <2>4 DEF AskNobody
  <2>5. CASE AskPeer(g)  BY <2>5 DEF AskPeer
  <2>6. CASE SignalStops(g)  BY <2>6 DEF SignalStops, VersionMismatch, Refused
  <2>7. CASE SignalKills(g)  BY <2>7 DEF SignalKills, VersionMismatch, Refused
  <2>8. CASE SignalFails(g)  BY <2>8 DEF SignalFails, VersionMismatch, Refused
  <2>9. CASE ShutdownAccepted(g)  BY <2>9 DEF ShutdownAccepted
  <2>10. CASE ShutdownLost(g)  BY <2>10 DEF ShutdownLost
  <2>11. CASE PollPeer(g)  BY <2>11 DEF PollPeer
  <2>12. CASE WaitTimesOut(g)  BY <2>12 DEF WaitTimesOut
  <2>13. CASE StartGui(g)  BY <2>13 DEF StartGui
  <2>14. CASE RetryStartup(g)  BY <2>14 DEF RetryStartup
  <2>15. CASE QuitGui(g)  BY <2>15 DEF QuitGui
  <2>16. CASE SignalStranger(g)  BY <2>16 DEF SignalStranger, VersionMismatch, Refused
  <2>17. QED  BY <1>1, <2>1, <2>2, <2>3, <2>4, <2>5, <2>6, <2>7, <2>8, <2>9, <2>10, <2>11, <2>12, <2>13, <2>14, <2>15, <2>16 DEF HandoffStep
<1>2. ASSUME NEW p \in Proc, ListenStep(p) \/ ShutdownStep(p) \/ EndRequest(p) \/ Environment(p)
      PROVE  Ownership'
  <2>1. CASE StatSocket(p)  BY <2>1 DEF StatSocket
  <2>2. CASE DialSocket(p)  BY <2>2 DEF DialSocket
  <2>3. CASE UnlinkStale(p)  BY <2>3 DEF UnlinkStale
  <2>4. CASE AddressInUse(p)  BY <2>4 DEF AddressInUse
  <2>5. CASE Bind(p)  BY <2>5 DEF Bind
  <2>6. CASE Listen(p)  BY <2>6 DEF Listen
  <2>7. CASE ChmodSocket(p)  BY <2>7 DEF ChmodSocket
  <2>8. CASE GiveUp(p)  BY <2>8 DEF GiveUp
  <2>9. CASE PublishHandshake(p)  BY <2>9 DEF PublishHandshake
  <2>10. CASE RegisterSignals(p)  BY <2>10 DEF RegisterSignals
  <2>11. CASE StopServing(p)  BY <2>11 DEF StopServing
  <2>12. CASE Drain(p)  BY <2>12 DEF Drain
  <2>13. CASE RemoveHandshake(p)  BY <2>13 DEF RemoveHandshake
  <2>14. CASE EndRequest(p)  BY <2>14 DEF EndRequest
  <2>15. CASE StartHeadless(p)  BY <2>15 DEF StartHeadless
  <2>16. CASE AcceptConn(p)  BY <2>16 DEF AcceptConn
  <2>17. CASE BeginRequest(p)  BY <2>17 DEF BeginRequest
  <2>18. CASE ClientLeaves(p)  BY <2>18 DEF ClientLeaves
  <2>19. CASE StopRequested(p)  BY <2>19 DEF StopRequested
  <2>20. CASE Crash(p)  BY <2>20 DEF Crash
  <2>21. CASE PidReused(p)  BY <2>21 DEF PidReused
  <2>22. QED  BY <1>2, <2>1, <2>2, <2>3, <2>4, <2>5, <2>6, <2>7, <2>8, <2>9, <2>10, <2>11, <2>12, <2>13, <2>14, <2>15, <2>16, <2>17, <2>18, <2>19, <2>20, <2>21 DEF ListenStep, ShutdownStep, Environment
<1>3. QED  BY <1>1, <1>2 DEF Next

THEOREM Invariance == Spec => []IInv
<1>1. Init => IInv
  BY TypeInit, OwnershipInit DEF IInv
<1>2. IInv /\ [Next]_vars => IInv'
  <2>1. ASSUME IInv, UNCHANGED vars PROVE IInv'
    BY <2>1 DEF vars, IInv, TypeOK, Ownership, AddressOwned, HandshakeOwned, ListenerRuns,
       KeptUnlessRobbed, PipeNeverRobbed
  <2>2. QED  BY <2>1, TypeStep, OwnershipStep DEF IInv
<1>3. QED  BY <1>1, <1>2, PTL DEF Spec

(* The cells and the program counters always have their types, and a       *)
(* desktop start only acts on a handshake it has read (tryDaemonHandoff).  *)
THEOREM TypeCorrect == Spec => []TypeOK
  BY Invariance, PTL DEF IInv

(* Two listeners at once only after an unlink: bind is the arbiter, and a  *)
(* listener still has its address unless it was robbed of it.              *)
THEOREM SingleListener == Spec => []OneListenerUnlessUnlinked
<1>1. IInv => OneListenerUnlessUnlinked
  BY DEF IInv, TypeOK, Ownership, KeptUnlessRobbed, OneListenerUnlessUnlinked
<1>2. QED  BY <1>1, Invariance, PTL

(* No clean end and no failed start leaves a file naming the process, for  *)
(* every interleaving with its peers (Run's error returns and tail).       *)
THEOREM NothingLeftBehind == Spec => []LeavesNothingBehind
<1>1. IInv => LeavesNothingBehind
  BY DEF IInv, Ownership, AddressOwned, HandshakeOwned, AddressStages, HandshakeStages, LeavesNothingBehind
<1>2. QED  BY <1>1, Invariance, PTL

(* Both: starts, stops and takeovers of any processes end clean.           *)
THEOREM CleanStarts == Spec => []StartsClean
<1>1. OneListenerUnlessUnlinked /\ LeavesNothingBehind => StartsClean
  BY DEF StartsClean
<1>2. QED  BY <1>1, SingleListener, NothingLeftBehind, PTL

(* Over a named pipe every step of every process acquires the lease while  *)
(* it is free, releases it as its holder, or leaves it alone               *)
(* (transport_windows.go listen).                                          *)
LEMMA PipeHeldByOne ==
  ASSUME IInv, ~Unix
  PROVE  \A p \in listening : p \in Proc /\ sock = p
  BY DEF IInv, TypeOK, Ownership, KeptUnlessRobbed, PipeNeverRobbed

LEMMA LeaseStep ==
  ASSUME IInv, ~Unix, Next
  PROVE  Lease!Next \/ UNCHANGED listening
<1> USE DEF Files, Others, Lease!Next, Lease!Acquire, Lease!Release
<1>1. \A p \in listening : p \in Proc /\ sock = p
  BY PipeHeldByOne
<1>2. ASSUME NEW p \in Proc, listening' = listening \ {p}
      PROVE  Lease!Next \/ UNCHANGED listening
  BY <1>1, <1>2
<1>3. ASSUME NEW g \in Gui, StartGui(g) \/ HandoffStep(g) \/ RetryStartup(g) \/ QuitGui(g)
      PROVE  Lease!Next \/ UNCHANGED listening
  <2>1. CASE SignalKills(g)
    <3>1. peer[g] \in Proc \/ listening' = listening
      BY <2>1 DEF SignalKills, VersionMismatch, Refused, IInv, TypeOK, Handoff, Proc
    <3>2. listening' = listening \ {peer[g]}
      BY <2>1 DEF SignalKills, Dies
    <3>3. QED  BY <1>2, <3>1, <3>2
  <2>2. CASE ~SignalKills(g)
    BY <1>3, <2>2 DEF HandoffStep, StartGui, RetryStartup, QuitGui, ReadPeer, CheckPeerPid, ProbePeer,
       AskNobody, AskPeer, SignalStops, SignalStranger, SignalFails, ShutdownAccepted, ShutdownLost, PollPeer, WaitTimesOut
  <2>3. QED  BY <2>1, <2>2
<1>4. ASSUME NEW p \in Proc, ListenStep(p)
      PROVE  Lease!Next \/ UNCHANGED listening
  <2>1. CASE Bind(p)
    <3>1. listening = {}
      BY <2>1, <1>1, ProcessKinds DEF Bind, Proc
    <3>2. listening' = {p}
      BY <2>1, <3>1 DEF Bind
    <3>3. QED  BY <3>1, <3>2
  <2>2. CASE Listen(p)
    BY <2>2 DEF Listen, IInv, Ownership, PipeNeverRobbed
  <2>3. CASE GiveUp(p)
    BY <2>3, <1>2 DEF GiveUp, CloseListener
  <2>4. QED
    BY <1>4, <2>1, <2>2, <2>3 DEF ListenStep, StatSocket, DialSocket, UnlinkStale, AddressInUse,
       ChmodSocket, PublishHandshake, RegisterSignals
<1>5. ASSUME NEW p \in Proc, ShutdownStep(p) \/ EndRequest(p) \/ Environment(p)
      PROVE  Lease!Next \/ UNCHANGED listening
  <2>1. CASE StopServing(p)
    BY <2>1, <1>2 DEF StopServing, CloseListener
  <2>2. CASE Crash(p)
    BY <2>2, <1>2 DEF Crash, Dies
  <2>3. QED
    BY <1>5, <2>1, <2>2 DEF ShutdownStep, Environment, Drain, RemoveHandshake, EndRequest, StartHeadless,
       AcceptConn, BeginRequest, ClientLeaves, StopRequested, PidReused
<1>6. QED  BY <1>3, <1>4, <1>5 DEF Next

THEOREM PipeIsLease ==
  ASSUME ~Unix
  PROVE  Spec => LeaseSpec
<1>1. Init => Lease!Init
  BY DEF Init, Lease!Init
<1>2. IInv /\ [Next]_vars => [Lease!Next]_listening
  BY LeaseStep DEF vars
<1>3. QED  BY <1>1, <1>2, Invariance, PTL DEF Spec, LeaseSpec, Lease!Spec

-----------------------------------------------------------------------------

(* The sign-in.  Once there is a first trial, whatever is left of it (the  *)
(* marker, the file, the memory, the state a call read) leads back to it;  *)
(* and as long as no calls crossed, every call has read the session that   *)
(* is still the app's.                                                     *)
Trials == [start : Nat, end : Nat]
AuthStates == [session : Nat, pending : Nat, trial : Trials]
AuthCalls == {NoAuth} \cup [pc : {"start", "exchange", "refresh", "access", "logout"}, read : AuthStates]
Whole(t) == t \in Trials /\ t.start > 0 /\ t.end = t.start + AuTrial

SignInTypeOK ==
    /\ auMem \in AuthStates /\ auFile \in AuthStates /\ auMarker \in Trials /\ auFirst \in Trials
    /\ auCall \in [AuCalls -> AuthCalls]
    /\ auServer \in [valid : SUBSET Nat, last : Nat, logins : Nat]
    /\ auToday \in Nat \ {0} /\ auTold \in Nat
TrialFound ==
    /\ auFirst = NoTrial => auMarker = NoTrial /\ auFile.trial = NoTrial
    /\ auFirst # NoTrial => /\ Whole(auFirst)
                            /\ auMarker # NoTrial => Repaired(auMarker) = auFirst
                            /\ auFile.trial \in {NoTrial, auFirst}
                            /\ auMarker # NoTrial \/ auFile.trial = auFirst
TrialInUse ==
    /\ auUp => auFirst # NoTrial /\ auMem.trial = auFirst
    /\ \A c \in AuCalls : auCall[c] # NoAuth => auUp /\ auCall[c].read.trial = auFirst
ReadsTrue == ~auCrossed => \A c \in AuCalls : auCall[c] # NoAuth => auCall[c].read.session = auMem.session
SignInInv == SignInTypeOK /\ TrialFound /\ TrialInUse /\ ReadsTrue /\ SessionFollows

LEMMA AuthStateIs ==
  /\ NoTrial \in Trials /\ NoState \in AuthStates /\ NoState.trial = NoTrial /\ NoState.session = 0
  /\ \A c : NoAuth # [pc |-> "start", read |-> c]
  BY DEF NoTrial, NoState, Trials, AuthStates, NoAuth

LEMMA WholeIsWhole ==
  ASSUME NEW t, Whole(t)
  PROVE  Repaired(t) = t /\ t # NoTrial /\ EnsureTrial(t, TRUE) = t
<1>1. AuTrial \in Nat \ {0}
  BY SignInAssumption
<1>2. t = [start |-> t.start, end |-> t.end] /\ t.start # 0 /\ t.end # 0
  BY <1>1 DEF Whole, Trials
<1>3. t # NoTrial
  BY <1>2 DEF NoTrial
<1>4. Repaired(t) = t
  BY <1>2, <1>3 DEF Repaired
<1>5. QED  BY <1>3, <1>4 DEF EnsureTrial

(* A trial that starts today is whole.                                     *)
LEMMA TrialStarts == ASSUME SignInTypeOK PROVE Whole(Trial(auToday)) /\ Repaired(NoTrial) = Trial(auToday)
<1>1. auToday \in Nat \ {0} /\ AuTrial \in Nat
  BY SignInAssumption DEF SignInTypeOK
<1>2. QED  BY <1>1 DEF Whole, Trial, Trials, Repaired

(* What is written of a trial is the first one.                            *)
LEMMA WrittenTrial ==
  ASSUME SignInTypeOK, TrialFound, NEW state \in AuthStates, Whole(state.trial),
         auFirst # NoTrial => state.trial = auFirst,
         NEW wrote, Written(state, wrote)
  PROVE  /\ TrialFound' /\ auFile' \in AuthStates /\ auMarker' \in Trials /\ auFirst' \in Trials
         /\ auFirst # NoTrial => auFirst' = auFirst
         /\ wrote \in {"both", "marker"} => auFirst' = state.trial
<1>1. state.trial # NoTrial /\ Repaired(state.trial) = state.trial /\ state.trial \in Trials
  BY WholeIsWhole DEF Whole
<1>2. CASE wrote \in {"both", "marker"}
  <2>1. auMarker' = state.trial /\ auFirst' = state.trial /\ (auFile' = state \/ auFile' = auFile)
    BY <1>2 DEF Written
  <2>2. auFile.trial \in {NoTrial, auFirst'}
    BY <2>1 DEF TrialFound
  <2>3. (Repaired(auMarker) = auFirst)' <=> Repaired(state.trial)' = state.trial
    BY <2>1
  <2>4. Repaired(state.trial)' = state.trial
    <3>1. AuTrial \in Nat \ {0}
      BY SignInAssumption
    <3>2. state.trial = [start |-> state.trial.start, end |-> state.trial.end] /\ state.trial.start # 0 /\ state.trial.end # 0
      BY <3>1 DEF Whole, Trials
    <3>3. QED  BY <1>1, <3>2 DEF Repaired
  <2>5. TrialFound'
    BY <1>1, <2>1, <2>2, <2>3, <2>4 DEF TrialFound
  <2>6. QED  BY <1>1, <1>2, <2>1, <2>5 DEF SignInTypeOK
<1>3. CASE wrote \notin {"both", "marker"}
  <2>1. UNCHANGED <<auMarker, auFile, auFirst>>
    BY <1>3 DEF Written
  <2>2. TrialFound'
    <3>1. Repaired(auMarker)' = Repaired(auMarker) \/ auMarker = NoTrial
      BY <2>1 DEF Repaired
    <3>2. QED  BY <2>1, <3>1 DEF TrialFound
  <2>3. QED  BY <1>3, <2>1, <2>2 DEF SignInTypeOK
<1>4. QED  BY <1>2, <1>3

(* Steps that leave the files alone leave the trial found.                 *)
LEMMA TrialStays ==
  ASSUME TrialFound, UNCHANGED <<auMarker, auFile, auFirst>>
  PROVE  TrialFound'
<1>1. auMarker # NoTrial => Repaired(auMarker)' = Repaired(auMarker)
  BY DEF Repaired
<1>2. QED  BY <1>1 DEF TrialFound

LEMMA LoadStateKeeps ==
  ASSUME SignInInv, LoadState
  PROVE  SignInInv'
<1> USE DEF SignInInv
<1> DEFINE state == [auFile EXCEPT !.trial = EnsureTrial(auFile.trial, FALSE)]
<1>1. /\ ~auUp /\ UNCHANGED <<auCall, auServer, auToday, auTold, auCrossed>>
  BY DEF LoadState
<1>2. PICK wrote \in {"both", "marker", "none"} :
        /\ Written(state, IF wrote = "both" /\ state = auFile THEN "marker" ELSE wrote)
        /\ auUp' = (wrote = "both")
        /\ auMem' = IF wrote = "both" THEN state ELSE NoState
  BY DEF LoadState
<1>3. /\ Whole(EnsureTrial(auFile.trial, FALSE))
      /\ auFirst # NoTrial => EnsureTrial(auFile.trial, FALSE) = auFirst
  <2>1. EnsureTrial(auFile.trial, FALSE) = Repaired(IF auMarker # NoTrial THEN auMarker ELSE auFile.trial)
    BY DEF EnsureTrial
  <2>2. CASE auFirst = NoTrial
    BY <2>1, <2>2, TrialStarts DEF TrialFound
  <2>3. CASE auFirst # NoTrial
    <3>1. Whole(auFirst) /\ Repaired(auFirst) = auFirst
      BY <2>3, WholeIsWhole DEF TrialFound
    <3>2. QED  BY <2>1, <2>3, <3>1 DEF TrialFound
  <2>4. QED  BY <2>2, <2>3
<1>4. state \in AuthStates /\ state.trial = EnsureTrial(auFile.trial, FALSE) /\ state.session = auFile.session
  <2>1. EnsureTrial(auFile.trial, FALSE) \in Trials
    BY <1>3 DEF Whole
  <2>2. QED  BY <2>1 DEF SignInTypeOK, AuthStates
<1> HIDE DEF state
<1>5. /\ TrialFound' /\ auFile' \in AuthStates /\ auMarker' \in Trials /\ auFirst' \in Trials
      /\ wrote = "both" => auFirst' = state.trial
  BY <1>2, <1>3, <1>4, WrittenTrial
<1>6. SignInTypeOK'
  BY <1>1, <1>2, <1>4, <1>5, AuthStateIs DEF SignInTypeOK
<1>7. \A c \in AuCalls : auCall[c] = NoAuth
  BY <1>1 DEF TrialInUse
<1>8. TrialInUse'
  <2>1. wrote = "both" => state.trial # NoTrial
    BY <1>3, <1>4, WholeIsWhole
  <2>2. QED  BY <1>1, <1>2, <1>5, <1>7, <2>1 DEF TrialInUse
<1>9. ReadsTrue'
  BY <1>1, <1>7 DEF ReadsTrue
<1>10. SessionFollows'
  <2>1. auFile'.session = auFile.session
    BY <1>2, <1>4 DEF Written
  <2>2. QED  BY <1>1, <1>2, <1>4, <2>1 DEF SessionFollows
<1>11. QED  BY <1>5, <1>6, <1>8, <1>9, <1>10

(* A call saves: the trial is the first one still, and the session the     *)
(* call means to leave is in the memory and, once written, in the file.    *)
LEMMA SavesKeeps ==
  ASSUME SignInInv, NEW c \in AuCalls, auUp, auCall[c] # NoAuth,
         NEW next \in AuthStates, next.trial = auCall[c].read.trial, Saves(c, next),
         auCall[c].pc = "start" => next.session = auCall[c].read.session,
         UNCHANGED <<auUp, auToday>>, auServer' \in [valid : SUBSET Nat, last : Nat, logins : Nat]
  PROVE  SignInInv'
<1> USE DEF SignInInv
<1> DEFINE state == [next EXCEPT !.trial = EnsureTrial(next.trial, TRUE)]
<1>1. PICK wrote \in {"both", "marker", "none"} :
        /\ SaveState(next, wrote)
        /\ auTold' = IF wrote = "both" /\ auCall[c].pc # "start" THEN next.session ELSE auTold
        /\ auCrossed' = (auCrossed \/ wrote # "both" \/ \E d \in AuCalls \ {c} : auCall[d] # NoAuth)
  BY DEF Saves
<1>2. /\ auCall' = [auCall EXCEPT ![c] = NoAuth] /\ auCall \in [AuCalls -> AuthCalls]
  BY DEF Saves, Ends, SignInTypeOK
<1>3. auCall'[c] = NoAuth /\ \A d \in AuCalls \ {c} : auCall'[d] = auCall[d]
  BY <1>2
<1>4. Whole(auFirst) /\ EnsureTrial(auFirst, TRUE) = auFirst /\ auFirst # NoTrial /\ next.trial = auFirst
  BY WholeIsWhole DEF TrialInUse, TrialFound
<1>5. state \in AuthStates /\ state.trial = auFirst /\ state.session = next.session /\ next.session \in Nat
  BY <1>4 DEF AuthStates, Whole
<1>6. auMem' = state /\ Written(state, wrote)
  BY <1>1 DEF SaveState
<1> HIDE DEF state
<1>7. TrialFound' /\ auFile' \in AuthStates /\ auMarker' \in Trials /\ auFirst' \in Trials /\ auFirst' = auFirst
  BY <1>4, <1>5, <1>6, WrittenTrial
<1>8. SignInTypeOK'
  <2>1. auCall' \in [AuCalls -> AuthCalls]
    BY <1>2 DEF AuthCalls
  <2>2. QED  BY <1>1, <1>5, <1>6, <1>7, <2>1 DEF SignInTypeOK
<1>9. TrialInUse'
  BY <1>3, <1>4, <1>5, <1>6, <1>7 DEF TrialInUse
<1>10. ASSUME ~auCrossed'
       PROVE  /\ ~auCrossed /\ wrote = "both"
              /\ \A d \in AuCalls : auCall'[d] = NoAuth
  BY <1>1, <1>3, <1>10
<1>11. ReadsTrue'
  BY <1>10 DEF ReadsTrue
<1>12. SessionFollows'
  <2> SUFFICES ASSUME ~auCrossed' PROVE auFile'.session = auTold' /\ auMem'.session = auTold'
    BY DEF SessionFollows
  <2>1. auFile' = state /\ auMem' = state
    BY <1>6, <1>10 DEF Written
  <2>2. auTold' = next.session
    <3>1. CASE auCall[c].pc # "start"
      BY <1>1, <1>10, <3>1
    <3>2. CASE auCall[c].pc = "start"
      BY <1>1, <1>10, <3>2 DEF ReadsTrue, SessionFollows
    <3>3. QED  BY <3>1, <3>2
  <2>3. QED  BY <1>5, <2>1, <2>2
<1>13. QED  BY <1>7, <1>8, <1>9, <1>11, <1>12

(* A call that begins, goes on or ends without a save.                     *)
LEMMA CallKeeps ==
  ASSUME SignInInv, NEW c \in AuCalls, auUp,
         \/ Ends(c)
         \/ \E at \in {"start", "exchange", "refresh", "access", "logout"} : Reads(c, at),
         UNCHANGED <<auUp, auMem, auFile, auMarker, auServer, auToday, auFirst, auTold, auCrossed>>
  PROVE  SignInInv'
<1> USE DEF SignInInv
<1>1. auCall \in [AuCalls -> AuthCalls] /\ auMem \in AuthStates
  BY DEF SignInTypeOK
<1>2. PICK new \in AuthCalls :
        auCall' = [auCall EXCEPT ![c] = new] /\ (new # NoAuth => new.read = auMem)
  <2>1. CASE Ends(c)
    BY <2>1 DEF Ends, AuthCalls
  <2>2. ASSUME NEW at \in {"start", "exchange", "refresh", "access", "logout"}, Reads(c, at)
        PROVE  [pc |-> at, read |-> auMem] \in AuthCalls
    BY <1>1 DEF AuthCalls
  <2>3. QED  BY <2>1, <2>2 DEF Reads
<1>3. auCall'[c] = new /\ \A d \in AuCalls \ {c} : auCall'[d] = auCall[d]
  BY <1>1, <1>2
<1>4. SignInTypeOK'
  <2>1. auCall' \in [AuCalls -> AuthCalls]
    BY <1>1, <1>2
  <2>2. QED  BY <2>1 DEF SignInTypeOK
<1>5. TrialFound'
  BY TrialStays
<1>6. TrialInUse'
  BY <1>2, <1>3 DEF TrialInUse
<1>7. ReadsTrue'
  BY <1>2, <1>3 DEF ReadsTrue
<1>8. SessionFollows'
  BY DEF SessionFollows
<1>9. QED  BY <1>4, <1>5, <1>6, <1>7, <1>8

(* A step of the server, of the clock or of the world around.              *)
LEMMA WorldKeeps ==
  ASSUME SignInInv, UNCHANGED <<auUp, auMem, auFile, auMarker, auCall, auFirst, auTold, auCrossed>>,
         auToday' \in Nat \ {0}, auServer' \in [valid : SUBSET Nat, last : Nat, logins : Nat]
  PROVE  SignInInv'
<1>1. TrialFound'
  BY TrialStays DEF SignInInv
<1>2. QED  BY <1>1 DEF SignInInv, SignInTypeOK, TrialInUse, ReadsTrue, SessionFollows

LEMMA AppStopsKeeps == ASSUME SignInInv, AppStops PROVE SignInInv'
<1> USE DEF SignInInv, AppStops
<1>1. TrialFound'
  BY TrialStays
<1>2. \A c \in AuCalls : auCall'[c] = NoAuth
  OBVIOUS
<1>3. SignInTypeOK'
  BY AuthStateIs DEF SignInTypeOK, AuthCalls
<1>4. TrialInUse' /\ ReadsTrue' /\ SessionFollows'
  BY <1>2 DEF TrialInUse, ReadsTrue, SessionFollows
<1>5. QED  BY <1>1, <1>3, <1>4

LEMMA FileLostKeeps == ASSUME SignInInv, FileLost PROVE SignInInv'
<1> USE DEF SignInInv
<1>1. ~auUp /\ UNCHANGED <<auUp, auMem, auCall, auServer, auExpired, auToday, auFirst, auCrossed>>
  BY DEF FileLost
<1>2. \/ auMarker # NoTrial /\ auFile' = NoState /\ auTold' = 0 /\ UNCHANGED auMarker
      \/ auFile.trial = auFirst /\ auMarker' = NoTrial /\ UNCHANGED <<auFile, auTold>>
  BY DEF FileLost
<1>3. SignInTypeOK'
  BY <1>1, <1>2, AuthStateIs DEF SignInTypeOK
<1>4. TrialFound'
  <2>1. auMarker # NoTrial => Repaired(auMarker)' = Repaired(auMarker) \/ auMarker' = NoTrial
    BY <1>2 DEF Repaired
  <2>2. QED  BY <1>1, <1>2, <2>1, AuthStateIs DEF TrialFound
<1>5. TrialInUse' /\ ReadsTrue'
  BY <1>1 DEF TrialInUse, ReadsTrue
<1>6. SessionFollows'
  BY <1>1, <1>2, AuthStateIs DEF SessionFollows
<1>7. QED  BY <1>3, <1>4, <1>5, <1>6

(* The calls that ask the server and then save.                            *)
LEMMA SavingKeeps ==
  ASSUME SignInInv, NEW c \in AuCalls,
         LoginStarted(c) \/ ExchangeCode(c) \/ RefreshSession(c) \/ RefreshRefused(c) \/ LoggedOut(c)
  PROVE  SignInInv'
<1> USE DEF SignInInv
<1> DEFINE read == auCall[c].read
<1>1. auUp /\ auCall[c] # NoAuth
  BY DEF LoginStarted, ExchangeCode, RefreshSession, RefreshRefused, LoggedOut, Asking, NoAuth
<1>2. read \in AuthStates
  <2>1. auCall[c] \in AuthCalls
    BY DEF SignInTypeOK
  <2>2. QED  BY <1>1, <2>1 DEF AuthCalls
<1>3. auServer \in [valid : SUBSET Nat, last : Nat, logins : Nat]
  BY DEF SignInTypeOK
<1>4. CASE LoginStarted(c)
  <2> DEFINE next == [read EXCEPT !.pending = auServer'.logins]
  <2>1. /\ auCall[c].pc = "start" /\ Saves(c, next) /\ UNCHANGED <<auUp, auToday>>
        /\ auServer' = [auServer EXCEPT !.logins = @ + 1]
    BY <1>4 DEF LoginStarted, Asking
  <2>2. auServer' \in [valid : SUBSET Nat, last : Nat, logins : Nat]
    BY <1>3, <2>1
  <2>3. next \in AuthStates /\ next.trial = read.trial /\ next.session = read.session
    BY <1>2, <2>2 DEF AuthStates
  <2> HIDE DEF next
  <2>4. QED  BY <1>1, <2>1, <2>2, <2>3, SavesKeeps
<1>5. CASE ExchangeCode(c) \/ RefreshSession(c)
  <2> DEFINE token == auServer.last + 1
  <2> DEFINE next == [read EXCEPT !.session = token, !.pending = IF auCall[c].pc = "exchange" THEN 0 ELSE @]
  <2>1. /\ auCall[c].pc # "start" /\ Saves(c, next) /\ UNCHANGED <<auUp, auToday>>
        /\ auServer' = [auServer EXCEPT !.last = token, !.valid = {token}]
    BY <1>5 DEF ExchangeCode, RefreshSession, Asking, Granted
  <2>2. token \in Nat /\ {token} \in SUBSET Nat
    BY <1>3
  <2>3. auServer' \in [valid : SUBSET Nat, last : Nat, logins : Nat]
    BY <1>3, <2>1, <2>2
  <2>4. next \in AuthStates /\ next.trial = read.trial
    BY <1>2, <2>2 DEF AuthStates
  <2> HIDE DEF next
  <2>5. QED  BY <1>1, <2>1, <2>3, <2>4, SavesKeeps
<1>6. CASE RefreshRefused(c) \/ LoggedOut(c)
  <2> DEFINE next == [read EXCEPT !.session = 0, !.pending = 0]
  <2>1. /\ auCall[c].pc # "start" /\ Saves(c, next) /\ UNCHANGED <<auUp, auToday>>
        /\ auServer' = auServer \/ auServer' = [auServer EXCEPT !.valid = @ \ {read.session}]
    BY <1>6 DEF RefreshRefused, LoggedOut, Asking, ClearSession
  <2>2. auServer' \in [valid : SUBSET Nat, last : Nat, logins : Nat]
    BY <1>3, <2>1
  <2>3. next \in AuthStates /\ next.trial = read.trial
    BY <1>2 DEF AuthStates
  <2> HIDE DEF next
  <2>4. QED  BY <1>1, <2>1, <2>2, <2>3, SavesKeeps
<1>7. QED  BY <1>4, <1>5, <1>6

LEMMA SignInInitially == SignInInit => SignInInv
<1> SUFFICES ASSUME SignInInit PROVE SignInInv
  OBVIOUS
<1> USE DEF SignInInit
<1>1. AuTrial \in Nat \ {0}
  BY SignInAssumption
<1>2. Trial(1) \in Trials /\ Whole(Trial(1)) /\ Trial(1) = [start |-> 1, end |-> 1 + AuTrial]
  BY <1>1 DEF Trial, Trials, Whole
<1>3. auMarker \in Trials /\ (auMarker # NoTrial => Repaired(auMarker) = Trial(1))
  BY <1>1, <1>2 DEF Repaired, Trials, NoTrial
<1>4. auServer \in [valid : SUBSET Nat, last : Nat, logins : Nat]
  OBVIOUS
<1>5. SignInTypeOK
  BY <1>2, <1>3, <1>4, AuthStateIs DEF SignInTypeOK, AuthCalls
<1>6. TrialFound
  BY <1>2, <1>3, AuthStateIs, WholeIsWhole DEF TrialFound
<1>7. TrialInUse /\ ReadsTrue /\ SessionFollows
  BY AuthStateIs DEF TrialInUse, ReadsTrue, SessionFollows
<1>8. QED  BY <1>5, <1>6, <1>7 DEF SignInInv

LEMMA SignInStep == SignInInv /\ [SignInNext]_auvars => SignInInv'
<1> SUFFICES ASSUME SignInInv, [SignInNext]_auvars PROVE SignInInv'
  OBVIOUS
<1>0. auServer \in [valid : SUBSET Nat, last : Nat, logins : Nat] /\ auToday \in Nat \ {0}
  BY DEF SignInInv, SignInTypeOK
<1>1. CASE LoadState
  BY <1>1, LoadStateKeeps
<1>2. CASE AppStops
  BY <1>2, AppStopsKeeps
<1>3. CASE FileLost
  BY <1>3, FileLostKeeps
<1>4. ASSUME NEW c \in AuCalls,
             StartLogin(c) \/ CompleteAuthLogin(c) \/ EnsureAuthenticated(c) \/ AccessAnswered(c) \/ Logout(c) \/ RequestFails(c)
      PROVE  SignInInv'
  <2>1. auUp /\ UNCHANGED <<auUp, auMem, auFile, auMarker, auServer, auToday, auFirst, auTold, auCrossed>>
    BY <1>4 DEF StartLogin, CompleteAuthLogin, EnsureAuthenticated, AccessAnswered, Logout, RequestFails, Free, Asking
  <2>2. \/ Ends(c)
        \/ \E at \in {"start", "exchange", "refresh", "access", "logout"} : Reads(c, at)
    BY <1>4 DEF StartLogin, CompleteAuthLogin, EnsureAuthenticated, AccessAnswered, Logout, RequestFails
  <2>3. QED  BY <2>1, <2>2, CallKeeps
<1>5. ASSUME NEW c \in AuCalls,
             LoginStarted(c) \/ ExchangeCode(c) \/ RefreshSession(c) \/ RefreshRefused(c) \/ LoggedOut(c)
      PROVE  SignInInv'
  BY <1>5, SavingKeeps
<1>6. CASE DeviceRemoved
  <2>1. auServer' \in [valid : SUBSET Nat, last : Nat, logins : Nat]
    BY <1>0, <1>6 DEF DeviceRemoved
  <2>2. QED  BY <1>0, <1>6, <2>1, WorldKeeps DEF DeviceRemoved
<1>7. CASE AccessExpires \/ DayPasses \/ UNCHANGED auvars
  <2>1. auToday' \in Nat \ {0} /\ auServer' = auServer
    BY <1>0, <1>7 DEF AccessExpires, DayPasses, auvars
  <2>2. QED  BY <1>0, <1>7, <2>1, WorldKeeps DEF AccessExpires, DayPasses, auvars
<1>8. QED  BY <1>1, <1>2, <1>3, <1>4, <1>5, <1>6, <1>7 DEF SignInNext

(* The trial lasts from the first start on, and the session that a call    *)
(* left is the one in memory and on disk unless calls crossed.             *)
THEOREM SignInCorrect == SignInSpec => []SignInSafe
<1>1. SignInInv => SignInSafe
  <2> SUFFICES ASSUME SignInInv, auUp PROVE CurrentPlan = "pro" <=> auToday < auFirst.end
    BY DEF SignInInv, SignInSafe, TrialKept, TrialInUse
  <2>1. auMem.trial = auFirst /\ auFirst.end \in Nat /\ auToday \in Nat
    BY DEF SignInInv, TrialInUse, SignInTypeOK, Trials
  <2>2. QED  BY <2>1 DEF CurrentPlan, EffectivePlan
<1>2. QED  BY <1>1, SignInInitially, SignInStep, PTL DEF SignInSpec

-----------------------------------------------------------------------------

(* Signing in to the clouds.  While a listing is read, what was collected  *)
(* are the ids on the pages read; an account or a role that was chosen is  *)
(* the one named or the only one.  Unless users were mixed, what a login   *)
(* holds is of one user.                                                   *)
Names == {Blank, "a", "r"} \cup UNION {{l[i] : i \in 1 .. Len(l)} : l \in CsListings}
Outs == Seq(Names)
SsoStates ==
    [pc : {"config", "begin", "device", "poll", "accounts", "roles", "credentials", "done", "failed"},
     token : [url : CsUrls \cup {Blank}, until : Nat], interval : Nat, next : Nat, last : Nat, page : Nat, out : Outs,
     account : Names, role : Names, took : Nat]
SsoTypeOK ==
    /\ csNow \in Nat \ {0} /\ csProfile \in CsProfiles /\ csSso \in SsoStates
TokenTaken == csSso.took > 0 => csSso.token.until >= csSso.took /\ (StartURL # Blank => csSso.token.url = StartURL)
IdsRead(listing, page, out) ==
    /\ page \in 1 .. Len(listing) + 1
    /\ out = <<>> => \A j \in 1 .. page - 1 : listing[j] = Blank
    /\ Len(out) = 1 => /\ out[1] # Blank
                       /\ \E i \in 1 .. page - 1 : \A j \in 1 .. page - 1 : listing[j] = IF j = i THEN out[1] ELSE Blank
Reading ==
    /\ csSso.pc \in {"config", "begin", "device", "poll"} => csSso.out = <<>>
    /\ \A at \in {"accounts", "roles"} : csSso.pc = at => IdsRead(Listing(at), csSso.page, csSso.out)
ChosenOwn ==
    /\ csSso.pc \in {"roles", "credentials", "done"} => OnlyOr(csProfile.account, csProfile.accounts, csSso.account)
    /\ csSso.pc \in {"credentials", "done"} => OnlyOr(csProfile.role, csProfile.roles, csSso.role)
SsoInv == SsoTypeOK /\ TokenTaken /\ Reading /\ ChosenOwn

LEMMA ListingsOfNames == CsListings \subseteq Seq(Names)
<1> SUFFICES ASSUME NEW l \in CsListings PROVE l \in Seq(Names)
  OBVIOUS
<1>1. l \in Seq(STRING)
  BY CloudAssumption
<1>2. \A i \in 1 .. Len(l) : l[i] \in Names
  BY DEF Names
<1>3. QED  BY <1>1, <1>2

(* A step that changes the phase, and before the token the polling.        *)
LEMMA PhaseKeeps ==
  ASSUME SsoInv, NEW at, SsoMoves(at), SsoKeeps,
         \/ at = "failed"
         \/ at = "done" /\ csSso.pc = "credentials"
         \/ at \in {"begin", "device"} /\ csSso.pc \in {"config", "begin"}
  PROVE  SsoInv'
<1>1. csSso \in SsoStates /\ UNCHANGED <<csNow, csProfile>>
  BY DEF SsoInv, SsoTypeOK, SsoKeeps
<1>2. csSso' = [csSso EXCEPT !.pc = at]
  BY <1>1 DEF SsoMoves, SsoStates
<1>3. QED  BY <1>1, <1>2 DEF SsoInv, SsoTypeOK, SsoStates, TokenTaken, Reading, ChosenOwn, StartURL, Listing

LEMMA PollKeeps ==
  ASSUME SsoInv, csSso.pc \in {"device", "poll"}, SsoKeeps, NEW interval \in Nat, NEW next \in Nat, NEW last \in Nat,
         csSso' = [csSso EXCEPT !.pc = "poll", !.interval = interval, !.next = next, !.last = last]
  PROVE  SsoInv'
<1>1. csSso \in SsoStates /\ UNCHANGED <<csNow, csProfile>>
  BY DEF SsoInv, SsoTypeOK, SsoKeeps
<1>2. QED  BY <1>1 DEF SsoInv, SsoTypeOK, SsoStates, TokenTaken, Reading, ChosenOwn, StartURL, Listing

LEMMA NothingRead == ASSUME NEW listing \in Seq(Names) PROVE IdsRead(listing, 1, <<>>)
<1>1. Len(listing) \in Nat /\ Len(<<>>) = 0
  OBVIOUS
<1>2. QED  BY <1>1 DEF IdsRead

(* A token that is found fits the profile and has not run out.             *)
LEMMA TokenKeeps ==
  ASSUME SsoInv, csSso.pc \in {"begin", "device", "poll"}, NEW t \in [url : CsUrls \cup {Blank}, until : Nat], TokenFound(t),
         t.until >= csNow, StartURL # Blank => t.url = StartURL, SsoKeeps
  PROVE  SsoInv'
<1>1. SsoTypeOK /\ csSso \in SsoStates /\ csNow \in Nat /\ UNCHANGED <<csNow, csProfile>>
  BY DEF SsoInv, SsoTypeOK, SsoKeeps
<1>3. /\ csSso' = [csSso EXCEPT !.pc = "accounts", !.token = t, !.page = 1, !.took = csNow,
                                !.interval = 0, !.next = 0, !.last = 0]
  BY DEF TokenFound
<1>2. csSso'.pc = "accounts" /\ csSso'.token = t /\ csSso'.page = 1 /\ csSso'.took = csNow /\ csSso'.out = csSso.out
  BY <1>1, <1>3 DEF SsoStates
<1>4. csSso' \in SsoStates
  BY <1>1, <1>3 DEF SsoStates
<1>5. TokenTaken'
  BY <1>1, <1>2 DEF TokenTaken, StartURL
<1>6. csSso.out = <<>>
  BY DEF SsoInv, Reading
<1>7. Reading'
  <2>1. Listing("accounts")' = csProfile.accounts /\ csProfile.accounts \in Seq(Names)
    BY <1>1, ListingsOfNames DEF Listing, SsoTypeOK, CsProfiles
  <2>2. IdsRead(csProfile.accounts, 1, <<>>)
    BY <2>1, NothingRead
  <2>3. QED  BY <1>2, <1>6, <2>1, <2>2 DEF Reading
<1>8. ChosenOwn'
  BY <1>2 DEF ChosenOwn
<1>9. QED  BY <1>1, <1>4, <1>5, <1>7, <1>8 DEF SsoInv, SsoTypeOK

LEMMA StartURLIs == ASSUME SsoInv PROVE StartURL \in CsUrls \cup {Blank}
  BY DEF SsoInv, SsoTypeOK, CsProfiles, StartURL

LEMMA EnsureKeeps == ASSUME SsoInv, EnsureAccessToken PROVE SsoInv'
<1>1. PICK cache \in SUBSET [url : CsUrls, until : {0, 2, 3}] :
        \/ \E t \in CacheTokens(cache) : TokenFound(t)
        \/ SsoMoves(IF StartURL = Blank THEN "failed" ELSE "device")
  BY DEF EnsureAccessToken
<1>2. SsoKeeps /\ csSso.pc = "begin"
  BY DEF EnsureAccessToken, At
<1>3. CASE \E t \in CacheTokens(cache) : TokenFound(t)
  <2>1. PICK t \in CacheTokens(cache) : TokenFound(t)
    BY <1>3
  <2>2. t \in [url : CsUrls \cup {Blank}, until : Nat] /\ t.until >= csNow /\ (StartURL # Blank => t.url = StartURL)
    BY <2>1 DEF CacheTokens
  <2>3. QED  BY <1>2, <2>1, <2>2, TokenKeeps
<1>4. CASE SsoMoves(IF StartURL = Blank THEN "failed" ELSE "device")
  BY <1>2, <1>4, PhaseKeeps
<1>5. QED  BY <1>1, <1>3, <1>4

LEMMA PollAnswerKeeps == ASSUME SsoInv, PollAnswered PROVE SsoInv'
<1>1. csSso.pc = "poll" /\ SsoKeeps /\ csNow \in Nat /\ csSso \in SsoStates
  BY DEF PollAnswered, At, SsoInv, SsoTypeOK
<1>2. CASE \E lives \in {0, 1} : TokenFound([url |-> StartURL, until |-> csNow + Told(lives, 2)])
  <2>1. PICK lives \in {0, 1} : TokenFound([url |-> StartURL, until |-> csNow + Told(lives, 2)])
    BY <1>2
  <2> DEFINE t == [url |-> StartURL, until |-> csNow + Told(lives, 2)]
  <2>2. t \in [url : CsUrls \cup {Blank}, until : Nat] /\ t.until >= csNow /\ t.url = StartURL
    BY <1>1, StartURLIs DEF Told
  <2>3. TokenFound(t)
    BY <2>1
  <2> HIDE DEF t
  <2>4. QED  BY <1>1, <2>2, <2>3, TokenKeeps
<1>3. CASE \E slower \in {0, 1} :
             csSso' = [csSso EXCEPT !.interval = @ + slower, !.next = csNow + csSso.interval + slower]
  <2>1. PICK slower \in {0, 1} : csSso' = [csSso EXCEPT !.interval = @ + slower, !.next = csNow + csSso.interval + slower]
    BY <1>3
  <2>2. csSso.interval + slower \in Nat /\ csNow + csSso.interval + slower \in Nat /\ csSso.last \in Nat
    BY <1>1 DEF SsoStates
  <2>3. csSso' = [csSso EXCEPT !.pc = "poll", !.interval = csSso.interval + slower,
                    !.next = csNow + csSso.interval + slower, !.last = csSso.last]
    BY <1>1, <2>1 DEF SsoStates
  <2>4. QED  BY <1>1, <2>2, <2>3, PollKeeps
<1>4. QED  BY <1>2, <1>3 DEF PollAnswered

LEMMA DeviceKeeps == ASSUME SsoInv, StartDeviceAuthorization PROVE SsoInv'
<1>1. csSso.pc = "device" /\ SsoKeeps /\ csNow \in Nat
  BY DEF StartDeviceAuthorization, At, SsoInv, SsoTypeOK
<1>2. PICK interval \in {0, CsInterval + 1}, lives \in {0, CsLifetime + 1}, window \in BOOLEAN :
        csSso' = [csSso EXCEPT !.pc = "poll", !.interval = Told(interval, CsInterval), !.next = csNow,
                    !.last = IF window THEN csNow + CsLifetime ELSE csNow + Told(lives, CsLifetime)]
  BY DEF StartDeviceAuthorization
<1>3. /\ Told(interval, CsInterval) \in Nat
      /\ (IF window THEN csNow + CsLifetime ELSE csNow + Told(lives, CsLifetime)) \in Nat
  BY <1>1, CloudAssumption DEF Told
<1>4. QED  BY <1>1, <1>2, <1>3, PollKeeps

(* A page that is read adds its id, if it has one.                         *)
LEMMA PageRead ==
  ASSUME NEW listing \in Seq(Names), NEW page \in Nat, page <= Len(listing), NEW out \in Seq(Names),
         IdsRead(listing, page, out)
  PROVE  /\ IdsRead(listing, page + 1, Collected(out, listing[page])) /\ Collected(out, listing[page]) \in Seq(Names)
<1>1. page \in 1 .. Len(listing) /\ listing[page] \in Names
  BY DEF IdsRead
<1>2. CASE listing[page] = Blank
  <2>1. \A j \in 1 .. (page + 1) - 1 : j \in 1 .. page - 1 \/ j = page
    OBVIOUS
  <2>2. Collected(out, listing[page]) = out /\ page + 1 \in 1 .. Len(listing) + 1
    BY <1>1, <1>2 DEF Collected
  <2>3. out = <<>> => \A j \in 1 .. (page + 1) - 1 : listing[j] = Blank
    BY <1>2, <2>1 DEF IdsRead
  <2>4. ASSUME Len(out) = 1
        PROVE  \E i \in 1 .. (page + 1) - 1 : \A j \in 1 .. (page + 1) - 1 : listing[j] = IF j = i THEN out[1] ELSE Blank
    <3>1. PICK i \in 1 .. page - 1 : \A j \in 1 .. page - 1 : listing[j] = IF j = i THEN out[1] ELSE Blank
      BY <2>4 DEF IdsRead
    <3>2. i \in 1 .. (page + 1) - 1 /\ i # page
      OBVIOUS
    <3>3. \A j \in 1 .. (page + 1) - 1 : listing[j] = IF j = i THEN out[1] ELSE Blank
      BY <1>2, <2>1, <3>1, <3>2
    <3>4. QED  BY <3>2, <3>3
  <2>5. Len(out) = 1 => out[1] # Blank
    BY DEF IdsRead
  <2>6. QED  BY <2>2, <2>3, <2>4, <2>5 DEF IdsRead
<1>3. CASE listing[page] # Blank
  <2> DEFINE new == Append(out, listing[page])
  <2>1. Collected(out, listing[page]) = new /\ new \in Seq(Names) /\ Len(new) = Len(out) + 1
        /\ new[Len(out) + 1] = listing[page] /\ new # <<>>
    <3>1. Collected(out, listing[page]) = new
      BY <1>3 DEF Collected
    <3>2. ASSUME NEW id \in Names
          PROVE  /\ Append(out, id) \in Seq(Names) /\ Len(Append(out, id)) = Len(out) + 1
                 /\ Append(out, id)[Len(out) + 1] = id /\ Append(out, id) # <<>>
      OBVIOUS
    <3>3. QED  BY <1>1, <3>1, <3>2
  <2>2. ASSUME Len(new) = 1
        PROVE  /\ new[1] # Blank
               /\ \E i \in 1 .. (page + 1) - 1 : \A j \in 1 .. (page + 1) - 1 : listing[j] = IF j = i THEN new[1] ELSE Blank
    <3>1. out = <<>> /\ new[1] = listing[page]
      BY <2>1, <2>2
    <3>2. \A j \in 1 .. page - 1 : listing[j] = Blank
      BY <3>1 DEF IdsRead
    <3>3. \A j \in 1 .. (page + 1) - 1 : listing[j] = IF j = page THEN new[1] ELSE Blank
      BY <1>1, <3>1, <3>2
    <3>4. page \in 1 .. (page + 1) - 1
      BY <1>1
    <3>5. QED  BY <1>3, <3>1, <3>3, <3>4
  <2> HIDE DEF new
  <2>3. page + 1 \in 1 .. Len(listing) + 1
    BY <1>1
  <2>4. QED  BY <2>1, <2>2, <2>3 DEF IdsRead
<1>4. QED  BY <1>2, <1>3

LEMMA Listings == ASSUME SsoInv, NEW at PROVE Listing(at) \in Seq(Names) /\ Given(at) \in Names
<1>1. csProfile.accounts \in CsListings /\ csProfile.roles \in CsListings
      /\ csProfile.account \in {Blank, "a"} /\ csProfile.role \in {Blank, "r"}
  BY DEF SsoInv, SsoTypeOK, CsProfiles
<1>2. {Blank, "a", "r"} \subseteq Names
  BY DEF Names
<1>3. QED  BY <1>1, <1>2, ListingsOfNames DEF Listing, Given

LEMMA PagesKeep == ASSUME SsoInv, NEW at \in {"accounts", "roles"}, ReadPage(at) PROVE SsoInv'
<1>1. SsoTypeOK /\ csSso \in SsoStates /\ UNCHANGED <<csNow, csProfile>> /\ csSso.pc = at
  BY DEF SsoInv, SsoTypeOK, SsoKeeps, ReadPage, At
<1> DEFINE entry == Listing(at)[csSso.page]
           new == Collected(csSso.out, entry)
<1>2. csSso' = [csSso EXCEPT !.page = csSso.page + 1, !.out = new]
  BY <1>1 DEF ReadPage, SsoStates
<1>3. IdsRead(Listing(at), csSso.page + 1, new) /\ new \in Seq(Names)
  <2>1. csSso.page \in Nat /\ csSso.out \in Seq(Names) /\ Listing(at) \in Seq(Names)
    BY <1>1, Listings DEF SsoStates, Outs
  <2>2. csSso.page <= Len(Listing(at))
    BY <2>1 DEF ReadPage, LastPage
  <2>3. IdsRead(Listing(at), csSso.page, csSso.out)
    BY <1>1 DEF SsoInv, Reading
  <2>4. QED  BY <2>1, <2>2, <2>3, PageRead
<1> HIDE DEF new
<1>5. csSso' \in SsoStates
  <2>1. new \in Outs /\ csSso.page + 1 \in Nat
    BY <1>1, <1>3 DEF SsoStates, Outs
  <2>2. QED  BY <1>1, <1>2, <2>1 DEF SsoStates
<1>6. /\ csSso'.pc = at /\ csSso'.page = csSso.page + 1 /\ csSso'.out = new /\ csSso'.token = csSso.token
      /\ csSso'.took = csSso.took /\ csSso'.account = csSso.account /\ csSso'.role = csSso.role
  BY <1>1, <1>2 DEF SsoStates
<1>7. Listing(at)' = Listing(at)
  BY <1>1 DEF Listing
<1>8. Reading'
  BY <1>1, <1>3, <1>6, <1>7 DEF Reading
<1>9. QED  BY <1>1, <1>5, <1>6, <1>8 DEF SsoInv, SsoTypeOK, TokenTaken, ChosenOwn, StartURL

LEMMA EmptyOut == <<>> \in Outs
  BY DEF Outs

(* What is chosen after the last page is the only id.                      *)
LEMMA FoundKeeps ==
  ASSUME SsoInv, NEW at \in {"accounts", "roles"}, csSso.pc = at, NEW id \in Names, Found(at, id), SsoKeeps,
         OnlyOr(Given(at), Listing(at), id)
  PROVE  SsoInv'
<1>1. SsoTypeOK /\ csSso \in SsoStates /\ UNCHANGED <<csNow, csProfile>>
  BY DEF SsoInv, SsoTypeOK, SsoKeeps
<1>2. IdsRead(csProfile.roles, 1, <<>>)
  <2>1. csProfile.roles \in Seq(Names)
    BY <1>1, ListingsOfNames DEF SsoTypeOK, CsProfiles
  <2>2. QED  BY <2>1, NothingRead
<1>3. CASE at = "accounts"
  <2>1. csSso' = [csSso EXCEPT !.pc = "roles", !.account = id, !.page = 1, !.out = <<>>]
    BY <1>1, <1>3 DEF Found, SsoMoves, SsoStates
  <2>2. csSso' \in SsoStates
    BY <1>1, <2>1, EmptyOut DEF SsoStates
  <2>3. Listing("roles")' = csProfile.roles
    BY <1>1 DEF Listing
  <2>4. /\ csSso'.pc = "roles" /\ csSso'.page = 1 /\ csSso'.out = <<>> /\ csSso'.token = csSso.token
        /\ csSso'.took = csSso.took /\ csSso'.account = id /\ csSso'.role = csSso.role
    BY <1>1, <2>1 DEF SsoStates
  <2>5. Reading'
    BY <1>2, <2>3, <2>4 DEF Reading
  <2>6. QED  BY <1>1, <1>3, <2>2, <2>4, <2>5 DEF SsoInv, SsoTypeOK, TokenTaken, ChosenOwn, StartURL, Given, Listing
<1>4. CASE at = "roles"
  <2>1. csSso' = [csSso EXCEPT !.pc = "credentials", !.role = id, !.page = 0, !.out = <<>>]
    BY <1>1, <1>4 DEF Found, SsoMoves, SsoStates
  <2>2. csSso' \in SsoStates
    BY <1>1, <2>1, EmptyOut DEF SsoStates
  <2>4. /\ csSso'.pc = "credentials" /\ csSso'.token = csSso.token
        /\ csSso'.took = csSso.took /\ csSso'.account = csSso.account /\ csSso'.role = id
    BY <1>1, <2>1 DEF SsoStates
  <2>6. QED  BY <1>1, <1>4, <2>2, <2>4 DEF SsoInv, SsoTypeOK, TokenTaken, Reading, ChosenOwn, StartURL, Given, Listing
<1>5. QED  BY <1>3, <1>4

LEMMA ChosenKeeps == ASSUME SsoInv, NEW at \in {"accounts", "roles"}, Chosen(at) PROVE SsoInv'
<1>1. SsoKeeps /\ csSso.pc = at /\ csSso \in SsoStates
  BY DEF Chosen, At, SsoInv, SsoTypeOK
<1>2. CASE Given(at) # Blank
  <2>1. Found(at, Given(at)) /\ OnlyOr(Given(at), Listing(at), Given(at)) /\ Given(at) \in Names
    BY <1>2, Listings DEF Chosen, OnlyOr
  <2>2. QED  BY <1>1, <2>1, FoundKeeps
<1>3. CASE Given(at) = Blank /\ LastPage(at) /\ Len(csSso.out) = 1 /\ Found(at, csSso.out[1])
  <2>1. IdsRead(Listing(at), csSso.page, csSso.out) /\ Listing(at) \in Seq(Names)
    BY <1>1, Listings DEF SsoInv, Reading
  <2>2. csSso.page = Len(Listing(at)) + 1 /\ csSso.out[1] \in Names
    BY <1>1, <1>3, <2>1 DEF IdsRead, LastPage, SsoStates
  <2>3. OnlyId(Listing(at), csSso.out[1]) /\ csSso.out[1] # Blank
    <3>1. DOMAIN Listing(at) = 1 .. csSso.page - 1
      BY <2>1, <2>2
    <3>2. QED  BY <1>3, <2>1, <3>1 DEF IdsRead, OnlyId
  <2>4. QED  BY <1>1, <1>3, <2>2, <2>3, FoundKeeps DEF OnlyOr
<1>4. CASE SsoMoves("failed")
  BY <1>1, <1>4, PhaseKeeps
<1>5. QED  BY <1>2, <1>3, <1>4 DEF Chosen

LEMMA SsoStep == ASSUME SsoInv, SsoNext PROVE SsoInv'
<1>1. CASE ResolveProfile
  <2>1. PICK wanted \in {Blank, "x"}, names \in SUBSET {"default", "x", "y"} :
          SsoMoves(IF Resolved(wanted, names) = {} THEN "failed" ELSE "begin")
    BY <1>1 DEF ResolveProfile
  <2>2. SsoKeeps /\ csSso.pc = "config"
    BY <1>1 DEF ResolveProfile, At
  <2>3. QED  BY <2>1, <2>2, PhaseKeeps
<1>2. CASE \E at \in {"accounts", "roles"} : ReadPage(at) \/ Chosen(at)
  BY <1>2, PagesKeep, ChosenKeeps
<1>3. CASE PollTimesOut \/ GetRoleCredentials \/ SsoFails
  BY <1>3, PhaseKeeps DEF PollTimesOut, GetRoleCredentials, SsoFails, At
<1>4. CASE CsTick
  BY <1>4 DEF CsTick, SsoInv, SsoTypeOK, TokenTaken, Reading, ChosenOwn, StartURL, Listing
<1>5. QED
  BY <1>1, <1>2, <1>3, <1>4, EnsureKeeps, DeviceKeeps, PollAnswerKeeps DEF SsoNext

(* The login of D1: what it holds is of one user, unless users were mixed. *)
Users == DOMAIN CsUsers
StoredRecords == [account : CsAccounts \cup {Blank}, token : Users \cup {NoOne}]
HeldBy(d, mixed) ==
    /\ d.user \in Users /\ d.account \in CsAccounts \cup {Blank}
    /\ ~mixed => (d.account = Blank \/ d.account \in CsUsers[d.user]) /\ d.accounts = CsUsers[d.user]
LoginHeld(d, mixed) ==
    /\ d.pc \in {"idle", "login", "token", "whoami", "refresh", "renew", "session"}
    /\ d.pc = "token" => d = [pc |-> "token", again |-> d.again]
    /\ d.pc = "whoami" => d = [pc |-> "whoami", again |-> d.again, user |-> d.user] /\ d.user \in Users
    /\ d.pc = "refresh" => HeldBy(d, mixed)
    /\ d.pc = "renew" => /\ d = [pc |-> "renew", session |-> d.session, list |-> d.list]
                         /\ HeldBy(d.session, mixed)
                         /\ DOMAIN d.list \subseteq CsSources
                         /\ \A i \in DOMAIN d.list : d.list[i] \in StoredRecords /\ (~mixed => Fits(d.list[i]))
    /\ d.pc = "session" => d.user \in Users /\ (~mixed => d.accounts \subseteq CsUsers[d.user])
D1CloudInv ==
    /\ csWrangler \in Users \cup {NoOne} /\ csMixed \in BOOLEAN
    /\ csStore \in [CsSources -> StoredRecords]
    /\ LoginHeld(csD1, csMixed) /\ TokensFit

(* Steps that leave the stored tokens and the requests alone.              *)
LEMMA LoginKeeps ==
  ASSUME D1CloudInv, csWrangler' \in Users \cup {NoOne}, csMixed' \in BOOLEAN, csMixed => csMixed', UNCHANGED <<csStore, csAsk>>,
         LoginHeld(csD1', csMixed')
  PROVE  D1CloudInv'
<1>1. TokensFit'
  BY DEF D1CloudInv, TokensFit, Fits
<1>2. LoginHeld(csD1, csMixed)'
  OBVIOUS
<1>3. QED  BY <1>1, <1>2 DEF D1CloudInv, StoredRecords

LEMMA IdleHeld == ASSUME NEW mixed PROVE LoginHeld(D1Idle, mixed)
  BY DEF LoginHeld, D1Idle

LEMMA FailsHeld == ASSUME D1CloudInv, csD1.pc \in {"token", "whoami"}, D1Fails PROVE LoginHeld(csD1', csMixed)
<1>1. CASE csD1' = D1Idle
  BY <1>1, IdleHeld
<1>2. CASE csD1' = [csD1 EXCEPT !.pc = "login"]
  <2>1. csD1'.pc = "login"
    BY <1>2 DEF D1CloudInv, LoginHeld
  <2>2. QED  BY <2>1 DEF LoginHeld
<1>3. QED  BY <1>1, <1>2 DEF D1Fails

LEMMA LoginBegins == ASSUME D1CloudInv, D1OAuthLogin PROVE D1CloudInv'
<1>1. PICK forced \in BOOLEAN : csD1' = [pc |-> IF forced THEN "login" ELSE "token", again |-> forced]
  BY DEF D1OAuthLogin
<1>2. LoginHeld(csD1', csMixed')
  BY <1>1 DEF LoginHeld
<1>3. QED  BY <1>2, LoginKeeps DEF D1OAuthLogin, D1Keeps, D1CloudInv

LEMMA TokenResolved == ASSUME D1CloudInv, ResolveWranglerToken PROVE D1CloudInv'
<1>1. csD1.pc = "token" /\ UNCHANGED <<csWrangler, csStore, csMixed, csAsk>>
  BY DEF ResolveWranglerToken, D1Keeps
<1>2. CASE D1Fails
  BY <1>1, <1>2, FailsHeld, LoginKeeps DEF D1CloudInv
<1>3. CASE csWrangler # NoOne /\ csD1' = [pc |-> "whoami", again |-> csD1.again, user |-> csWrangler]
  <2>1. LoginHeld(csD1', csMixed)
    BY <1>3 DEF LoginHeld, D1CloudInv
  <2>2. QED  BY <1>1, <2>1, LoginKeeps DEF D1CloudInv
<1>4. QED  BY <1>2, <1>3 DEF ResolveWranglerToken

LEMMA SelectedIs ==
  ASSUME csWrangler \in Users, NEW named \in CsUsers[csWrangler] \cup {Blank}
  PROVE  Selected(named) \in CsUsers[csWrangler] \cup {Blank}
<1>1. CASE named = Blank /\ Cardinality(CsUsers[csWrangler]) = 1
  <2>1. CsUsers[csWrangler] # {}
    BY <1>1, FS_EmptySet
  <2>2. QED  BY <1>1, <2>1 DEF Selected
<1>2. QED  BY <1>1 DEF Selected

LEMMA AccountsResolved == ASSUME D1CloudInv, ResolveWranglerAccounts PROVE D1CloudInv'
<1>1. csD1.pc = "whoami" /\ UNCHANGED <<csWrangler, csStore, csAsk>> /\ csMixed \in BOOLEAN
  BY DEF ResolveWranglerAccounts, D1Keeps, D1CloudInv
<1>2. CASE D1Fails /\ UNCHANGED csMixed
  BY <1>1, <1>2, FailsHeld, LoginKeeps DEF D1CloudInv
<1>3. CASE csWrangler # NoOne /\ \E named \in CsUsers[csWrangler] \cup {Blank} :
             /\ csD1' = [pc |-> "refresh", user |-> csD1.user, account |-> Selected(named), accounts |-> CsUsers[csWrangler]]
             /\ csMixed' = (csMixed \/ csWrangler # csD1.user)
  <2>1. PICK named \in CsUsers[csWrangler] \cup {Blank} :
          /\ csD1' = [pc |-> "refresh", user |-> csD1.user, account |-> Selected(named), accounts |-> CsUsers[csWrangler]]
          /\ csMixed' = (csMixed \/ csWrangler # csD1.user)
    BY <1>3
  <2>2. csWrangler \in Users /\ csD1.user \in Users
    BY <1>1, <1>3 DEF D1CloudInv, LoginHeld
  <2>3. PICK account : account = Selected(named)
    OBVIOUS
  <2>4. account \in CsUsers[csWrangler] \cup {Blank} /\ CsUsers[csWrangler] \subseteq CsAccounts
    BY <2>2, <2>3, SelectedIs DEF CsAccounts, Users
  <2>5. csD1'.pc = "refresh" /\ csD1'.user = csD1.user /\ csD1'.account = account /\ csD1'.accounts = CsUsers[csWrangler]
    BY <2>1, <2>3
  <2>6. csMixed' \in BOOLEAN /\ (csMixed => csMixed') /\ (~csMixed' => csWrangler = csD1.user)
    BY <1>1, <2>1
  <2>7. HeldBy(csD1', csMixed')
    BY <2>2, <2>4, <2>5, <2>6 DEF HeldBy
  <2>8. LoginHeld(csD1', csMixed')
    BY <2>5, <2>7 DEF LoginHeld
  <2>9. QED  BY <1>1, <2>6, <2>8, LoginKeeps DEF D1CloudInv
<1>4. QED  BY <1>2, <1>3 DEF ResolveWranglerAccounts

LEMMA LoggedIn == ASSUME D1CloudInv, WranglerLogin PROVE D1CloudInv'
<1>1. UNCHANGED <<csStore, csMixed, csAsk>> /\ csMixed \in BOOLEAN
  BY DEF WranglerLogin, D1Keeps, D1CloudInv
<1>2. csWrangler' \in Users \cup {NoOne} /\ csD1' \in {D1Idle, [pc |-> "token", again |-> TRUE]}
  BY DEF WranglerLogin, D1CloudInv, Users
<1>3. LoginHeld([pc |-> "token", again |-> TRUE], csMixed)
  BY DEF LoginHeld
<1>4. LoginHeld(csD1', csMixed)
  BY <1>2, <1>3, IdleHeld
<1>5. QED  BY <1>1, <1>2, <1>4, LoginKeeps

(* The records to renew: the token is the session's, and an account is     *)
(* none or the session's.                                                  *)
LEMMA RenewsOwn ==
  ASSUME D1CloudInv, NEW d, NEW mixed, HeldBy(d, mixed), ~mixed => d.account # Blank, NEW i \in CsSources,
         Renewed(csStore[i], d.account)
  PROVE  /\ [csStore[i] EXCEPT !.token = d.user] \in StoredRecords
         /\ ~mixed => Fits([csStore[i] EXCEPT !.token = d.user])
<1>1. csStore[i] \in StoredRecords
  BY DEF D1CloudInv
<1>2. PICK s : s = [csStore[i] EXCEPT !.token = d.user]
  OBVIOUS
<1>3. s \in StoredRecords /\ s.token = d.user /\ s.account = csStore[i].account
  BY <1>1, <1>2 DEF StoredRecords, HeldBy
<1>4. ~mixed => Fits(s)
  BY <1>3 DEF Fits, Renewed, HeldBy
<1>5. QED  BY <1>2, <1>3, <1>4

LEMMA RenewalBegins == ASSUME D1CloudInv, RefreshStoredTokens PROVE D1CloudInv'
<1> DEFINE renewed == {i \in CsSources : Renewed(csStore[i], csD1.account)}
           list == [i \in renewed |-> [csStore[i] EXCEPT !.token = csD1.user]]
<1>1. /\ csD1.pc = "refresh" /\ UNCHANGED <<csWrangler, csStore, csAsk>> /\ csMixed \in BOOLEAN
      /\ csMixed' = (csMixed \/ csD1.account = Blank) /\ csD1' = [pc |-> "renew", session |-> csD1, list |-> list]
  BY DEF RefreshStoredTokens, D1Keeps, D1CloudInv
<1>2. csMixed' \in BOOLEAN /\ (csMixed => csMixed') /\ (~csMixed' => csD1.account # Blank)
  BY <1>1
<1>3. HeldBy(csD1, csMixed')
  BY <1>1, <1>2 DEF D1CloudInv, LoginHeld, HeldBy
<1>4. \A i \in renewed : list[i] \in StoredRecords /\ (~csMixed' => Fits(list[i]))
  <2> SUFFICES ASSUME NEW i \in renewed PROVE list[i] \in StoredRecords /\ (~csMixed' => Fits(list[i]))
    OBVIOUS
  <2>1. list[i] = [csStore[i] EXCEPT !.token = csD1.user] /\ i \in CsSources /\ Renewed(csStore[i], csD1.account)
    OBVIOUS
  <2>2. PICK d, mixed : d = csD1 /\ mixed = csMixed'
    OBVIOUS
  <2>3. HeldBy(d, mixed) /\ (~mixed => d.account # Blank) /\ Renewed(csStore[i], d.account)
    BY <1>2, <1>3, <2>1, <2>2
  <2>4. /\ [csStore[i] EXCEPT !.token = d.user] \in StoredRecords
        /\ ~mixed => Fits([csStore[i] EXCEPT !.token = d.user])
    BY <2>1, <2>3, RenewsOwn
  <2>5. QED  BY <2>1, <2>2, <2>4
<1>5. DOMAIN list = renewed /\ renewed \subseteq CsSources
  OBVIOUS
<1> HIDE DEF list, renewed
<1>6. csD1'.pc = "renew" /\ csD1'.session = csD1 /\ csD1'.list = list
  BY <1>1
<1>7. LoginHeld(csD1', csMixed')
  BY <1>1, <1>3, <1>4, <1>5, <1>6 DEF LoginHeld
<1>8. QED  BY <1>1, <1>2, <1>7, LoginKeeps DEF D1CloudInv

LEMMA SessionHeld ==
  ASSUME NEW d, NEW mixed, HeldBy(d, mixed)
  PROVE  LoginHeld(Session(d), mixed)
<1>1. PICK s : s = Session(d)
  OBVIOUS
<1>2. s.pc = "session" /\ s.user = d.user /\ s.accounts = (IF d.account = Blank THEN d.accounts ELSE {d.account})
  BY <1>1 DEF Session
<1>3. LoginHeld(s, mixed)
  BY <1>2 DEF LoginHeld, HeldBy
<1>4. QED  BY <1>1, <1>3

LEMMA RenewalKeeps == ASSUME D1CloudInv, RenewOne PROVE D1CloudInv'
<1>1. csD1.pc = "renew" /\ UNCHANGED <<csWrangler, csMixed, csAsk>> /\ csMixed \in BOOLEAN
  BY DEF RenewOne, D1Keeps, D1CloudInv
<1> DEFINE left == csD1.list
<1>2. /\ csD1 = [pc |-> "renew", session |-> csD1.session, list |-> left]
      /\ HeldBy(csD1.session, csMixed) /\ DOMAIN left \subseteq CsSources
      /\ \A i \in DOMAIN left : left[i] \in StoredRecords /\ (~csMixed => Fits(left[i]))
  BY <1>1 DEF D1CloudInv, LoginHeld
<1>3. CASE csD1' = Session(csD1.session) /\ UNCHANGED csStore
  BY <1>1, <1>2, <1>3, SessionHeld, LoginKeeps DEF D1CloudInv
<1>4. CASE \E i \in DOMAIN left :
              /\ csD1' = [csD1 EXCEPT !.list = [j \in DOMAIN left \ {i} |-> left[j]]]
              /\ csStore' = [csStore EXCEPT ![i] = left[i]] \/ UNCHANGED csStore
  <2>1. PICK i \in DOMAIN left :
              /\ csD1' = [csD1 EXCEPT !.list = [j \in DOMAIN left \ {i} |-> left[j]]]
              /\ csStore' = [csStore EXCEPT ![i] = left[i]] \/ UNCHANGED csStore
    BY <1>4
  <2>2. PICK rest : rest = [j \in DOMAIN left \ {i} |-> left[j]]
    OBVIOUS
  <2>3. csD1' = [pc |-> "renew", session |-> csD1.session, list |-> rest]
    BY <1>2, <2>1, <2>2
  <2>4. DOMAIN rest = DOMAIN left \ {i} /\ \A j \in DOMAIN rest : rest[j] = left[j]
    BY <2>2
  <2>5. LoginHeld(csD1', csMixed)
    BY <1>2, <2>3, <2>4 DEF LoginHeld
  <2>6. csStore' \in [CsSources -> StoredRecords]
    BY <1>2, <2>1 DEF D1CloudInv
  <2>7. ~csMixed => \A j \in CsSources : Fits(csStore'[j])
    <3>1. \A j \in CsSources : csStore'[j] = csStore[j] \/ (csStore'[j] = left[j] /\ j = i)
      BY <1>2, <2>1 DEF D1CloudInv
    <3>2. QED  BY <1>2, <3>1 DEF D1CloudInv, TokensFit
  <2>8. TokensFit'
    BY <1>1, <2>7 DEF TokensFit, D1CloudInv, Fits
  <2>9. QED  BY <1>1, <2>5, <2>6, <2>8 DEF D1CloudInv, StoredRecords
<1>5. QED  BY <1>3, <1>4 DEF RenewOne

(* A request is sent with a token and an account that fit.                 *)
LEMMA AskKeepsFit ==
  ASSUME D1CloudInv, AskKeeps, csD1' \in {D1Idle, csD1}, csAsk' # NoAsk => (~csMixed => Fits(csAsk'))
  PROVE  D1CloudInv'
<1>1. UNCHANGED <<csWrangler, csStore, csMixed>>
  BY DEF AskKeeps
<1>2. LoginHeld(csD1', csMixed)
  BY IdleHeld DEF D1CloudInv
<1>3. TokensFit'
  BY <1>1 DEF TokensFit, D1CloudInv, Fits
<1>4. QED  BY <1>1, <1>2, <1>3 DEF D1CloudInv, StoredRecords

LEMMA AskedFits ==
  ASSUME NEW account, NEW token, Ask(account, token), token = NoOne \/ account = Blank \/ account \in CsUsers[token]
  PROVE  Fits(csAsk')
<1>1. csAsk'.account = account /\ csAsk'.token = token
  BY DEF Ask
<1>2. QED  BY <1>1 DEF Fits

LEMMA RequestsKeep ==
  ASSUME D1CloudInv, D1ListCloudDatabases \/ ListCloudDatabasesForDatasource \/ ExecuteCloud \/ CloudflareRequest
  PROVE  D1CloudInv'
<1>1. CASE D1ListCloudDatabases
  <2>1. csD1.pc = "session" /\ csD1' = D1Idle /\ AskKeeps
    BY <1>1 DEF D1ListCloudDatabases, SessionEnds
  <2>2. CASE csAsk' = NoAsk
    BY <2>1, <2>2, AskKeepsFit
  <2>3. CASE \E account \in csD1.accounts : Ask(account, csD1.user)
    <3>1. PICK account \in csD1.accounts : Ask(account, csD1.user)
      BY <2>3
    <3>2. ~csMixed => account \in CsUsers[csD1.user]
      BY <2>1, <3>1 DEF D1CloudInv, LoginHeld
    <3>3. ~csMixed => Fits(csAsk')
      BY <3>1, <3>2, AskedFits
    <3>4. QED  BY <2>1, <3>3, AskKeepsFit
  <2>4. QED  BY <1>1, <2>2, <2>3 DEF D1ListCloudDatabases
<1>2. CASE ListCloudDatabasesForDatasource \/ ExecuteCloud
  <2>1. PICK i \in CsSources : Ask(csStore[i].account, csStore[i].token)
    BY <1>2 DEF ListCloudDatabasesForDatasource, ExecuteCloud, AccountStored
  <2>2. ~csMixed => Fits(csAsk')
    BY <2>1, AskedFits DEF D1CloudInv, TokensFit, Fits
  <2>3. QED  BY <1>2, <2>2, AskKeepsFit DEF ListCloudDatabasesForDatasource, ExecuteCloud
<1>3. CASE CloudflareRequest
  BY <1>3, AskKeepsFit DEF CloudflareRequest
<1>4. QED  BY <1>1, <1>2, <1>3

LEMMA SourceEditKeeps == ASSUME D1CloudInv, SourceEdited PROVE D1CloudInv'
<1>1. PICK i \in CsSources, s \in SourceRecords : csStore' = [csStore EXCEPT ![i] = s]
  BY DEF SourceEdited
<1>2. s \in StoredRecords /\ Fits(s)
  BY DEF SourceRecords, StoredRecords, Users
<1>3. UNCHANGED <<csWrangler, csD1, csMixed, csAsk>>
  BY DEF SourceEdited, D1Keeps
<1>4. csStore' \in [CsSources -> StoredRecords] /\ \A j \in CsSources : csStore'[j] \in {csStore[j], s}
  BY <1>1, <1>2 DEF D1CloudInv
<1>5. TokensFit'
  BY <1>2, <1>3, <1>4 DEF TokensFit, D1CloudInv, Fits
<1>6. QED  BY <1>3, <1>4, <1>5 DEF D1CloudInv, StoredRecords

LEMMA D1CloudStep == ASSUME D1CloudInv, D1CloudNext PROVE D1CloudInv'
<1>1. CASE WindowLoggedIn
  <2>1. csD1.pc = "refresh" /\ csD1' = Session(csD1) /\ UNCHANGED <<csWrangler, csStore, csMixed, csAsk>>
    BY <1>1 DEF WindowLoggedIn, D1Keeps
  <2>2. HeldBy(csD1, csMixed)
    BY <2>1 DEF D1CloudInv, LoginHeld
  <2>3. QED  BY <2>1, <2>2, SessionHeld, LoginKeeps DEF D1CloudInv
<1>2. CASE WranglerElsewhere
  BY <1>2, LoginKeeps DEF WranglerElsewhere, D1Keeps, D1CloudInv, Users
<1>3. QED
  BY <1>1, <1>2, LoginBegins, TokenResolved, AccountsResolved, LoggedIn, RenewalBegins, RenewalKeeps,
     RequestsKeep, SourceEditKeeps DEF D1CloudNext

-----------------------------------------------------------------------------

CloudInv == SsoInv /\ D1CloudInv

LEMMA CloudInitially == CloudInit => CloudInv
<1> SUFFICES ASSUME CloudInit PROVE CloudInv
  OBVIOUS
<1>1. csSso = [pc |-> "config", token |-> [url |-> Blank, until |-> 0], interval |-> 0, next |-> 0, last |-> 0,
               page |-> 0, out |-> <<>>, account |-> Blank, role |-> Blank, took |-> 0]
  BY DEF CloudInit
<1>2. csSso \in SsoStates
  <2>1. Blank \in Names
    BY DEF Names
  <2>2. QED  BY <1>1, <2>1, EmptyOut DEF SsoStates
<1>3. csSso.pc = "config" /\ csSso.took = 0 /\ csSso.out = <<>>
  BY <1>1
<1>4. SsoInv
  BY <1>2, <1>3 DEF CloudInit, SsoInv, SsoTypeOK, TokenTaken, Reading, ChosenOwn
<1>5. csStore \in [CsSources -> StoredRecords] /\ \A i \in CsSources : Fits(csStore[i])
  BY DEF CloudInit, SourceRecords, StoredRecords, Users
<1>6. TokensFit
  BY <1>5 DEF TokensFit, CloudInit
<1>7. QED  BY <1>4, <1>5, <1>6, IdleHeld DEF CloudInv, CloudInit, D1CloudInv

LEMMA CloudStep == CloudInv /\ [CloudNext]_csvars => CloudInv'
<1> SUFFICES ASSUME CloudInv, [CloudNext]_csvars PROVE CloudInv'
  OBVIOUS
<1>1. ASSUME UNCHANGED ssovars PROVE SsoInv'
  BY <1>1 DEF CloudInv, ssovars, SsoInv, SsoTypeOK, TokenTaken, Reading, ChosenOwn, StartURL, Listing
<1>2. ASSUME UNCHANGED d1cvars PROVE D1CloudInv'
  BY <1>2 DEF CloudInv, d1cvars, D1CloudInv, TokensFit, Fits
<1>3. CASE SsoNext
  <2>1. UNCHANGED d1cvars
    BY <1>3 DEF SsoNext, ResolveProfile, EnsureAccessToken, StartDeviceAuthorization, PollAnswered, PollTimesOut,
         ReadPage, Chosen, GetRoleCredentials, SsoFails, CsTick, SsoKeeps
  <2>2. QED  BY <1>2, <1>3, <2>1, SsoStep DEF CloudInv
<1>4. CASE D1CloudNext
  <2>1. UNCHANGED ssovars
    BY <1>4 DEF D1CloudNext, D1OAuthLogin, ResolveWranglerToken, ResolveWranglerAccounts, WranglerLogin,
         RefreshStoredTokens, RenewOne, WindowLoggedIn, D1ListCloudDatabases, ListCloudDatabasesForDatasource,
         ExecuteCloud, CloudflareRequest, WranglerElsewhere, SourceEdited, D1Keeps, AskKeeps
  <2>2. QED  BY <1>1, <1>4, <2>1, D1CloudStep DEF CloudInv
<1>5. CASE UNCHANGED csvars
  BY <1>1, <1>2, <1>5 DEF csvars, ssovars, d1cvars, CloudInv
<1>6. QED  BY <1>3, <1>4, <1>5 DEF CloudNext

(* Signing in takes the credentials of the account and role that the       *)
(* profile names or of the only ones its portal lists, with a token of the *)
(* portal that had not run out; and tokens and accounts of D1 fit, unless  *)
(* a login mixed users or renewed tokens without an account.               *)
THEOREM CloudCorrect == CloudSpec => []CloudSafe
<1>1. CloudInv => CloudSafe
  BY DEF CloudInv, SsoInv, TokenTaken, ChosenOwn, D1CloudInv, CloudSafe, CredentialsOwn
<1>2. QED  BY <1>1, CloudInitially, CloudStep, PTL DEF CloudSpec

(* The datasource store.  No record has a secret beside its reference, in  *)
(* memory or on its way there, but the token a renewal wrote into one of   *)
(* D1; a fresh form is an edit of what the store holds, so that nothing an *)
(* update is about to store has lost a secret; and the records with the    *)
(* creations under way are within the limit.                               *)
DsTypes == {None, "sql", "redis", "d1"}
Hosts == {None, "h1", "h2"}
Secrets == {None, Marker, NewToken, "s1", "s2"}
DsRecord == [type : DsTypes, host : Hosts, pw : Secrets, ref : {None, "r1", "r2"}, uri : [at : Hosts, secret : Secrets]]
RefAlone(r) == r.ref # None => r.uri = NoUri /\ (r.pw = None \/ (r.type = "d1" /\ r.pw = NewToken))
DsRecords == {r \in DsRecord : RefAlone(r)}
DsForms == [id : DsIds, fresh : BOOLEAN, sent : DsRecord]
Renewals == {o \in [pc : {"renew"}, todo : SUBSET DsIds, of : [DsIds -> DsRecords]] : \A i \in o.todo : o.of[i].type = "d1"}
DsOps == [pc : {"update"}, id : DsIds, to : DsRecords, lost : {FALSE}]
           \cup [pc : {"trust", "create"}, id : DsIds, to : DsRecords] \cup Renewals

RecordsTypeOK ==
    /\ dsItems \in [DsIds -> DsRecords]
    /\ dsForm \in [DsClients -> {NoForm} \cup DsForms]
    /\ dsOp \in [DsClients -> {NoOp} \cup DsOps]
    /\ dsStray \subseteq {"create", "move"} /\ dsLost = FALSE
FreshForms == \A c \in DsClients : dsForm[c] \in DsForms /\ dsForm[c].fresh
                 => dsForm[c].sent \in Edits(RedactDatasource(dsItems[dsForm[c].id]))
WithinLimit == IsFiniteSet(Pending) /\ Count \in Nat /\ Count <= DsLimit
RecordsInv == RecordsTypeOK /\ FreshForms /\ WithinLimit

LEMMA RecordsAre ==
  /\ NoRecord \in DsRecords
  /\ \A f \in DsForms : f # NoForm
  /\ \A o \in DsOps : o # NoOp
<1>1. NoRecord \in DsRecords
  BY DEF DsRecords, DsRecord, NoRecord, RefAlone, NoUri, DsTypes, Hosts, Secrets
<1>2. \A f \in DsForms : f # NoForm
  BY DEF DsForms, NoForm
<1>3. \A o \in DsOps : o # NoOp
  <2>1. \A o \in DsOps : o.pc \in {"update", "trust", "create", "renew"}
    BY DEF DsOps, Renewals
  <2>2. NoOp.pc = "idle"
    BY DEF NoOp
  <2>3. QED  BY <2>1, <2>2
<1>4. QED  BY <1>1, <1>2, <1>3

(* What a form may send, and what becomes of it.                           *)
LEMMA EditsAre == ASSUME NEW r \in DsRecords PROVE Edits(RedactDatasource(r)) \subseteq DsRecord
<1>1. RedactDatasource(r) \in DsRecord
  BY DEF RedactDatasource, DsRecords, DsRecord, Secrets, Hosts
<1> DEFINE v == RedactDatasource(r)
<1> HIDE DEF v
<1>2. /\ [v EXCEPT !.host = "h2"] \in DsRecord /\ [v EXCEPT !.pw = "s2", !.ref = None] \in DsRecord
      /\ [v EXCEPT !.ref = None] \in DsRecord /\ [v EXCEPT !.pw = None, !.ref = "r2"] \in DsRecord
  BY <1>1 DEF v, DsRecord, Hosts, Secrets
<1>3. [at |-> "h2", secret |-> "s2"] \in [at : Hosts, secret : Secrets]
  BY DEF Hosts, Secrets
<1>4. /\ [v EXCEPT !.host = None, !.uri = [at |-> "h2", secret |-> "s2"]] \in DsRecord
      /\ [v EXCEPT !.host = None, !.ref = None, !.uri = [at |-> "h2", secret |-> "s2"]] \in DsRecord
  BY <1>1, <1>3 DEF v, DsRecord, Hosts
<1>5. [v EXCEPT !.uri.at = "h2"] \in DsRecord
  BY <1>1 DEF v, DsRecord, Hosts
<1>6. QED  BY <1>1, <1>2, <1>4, <1>5 DEF v, Edits, UriEdits

(* What is masked in an edit is masked in what was read.                   *)
EditOf(sent, base) ==
    /\ sent.type = base.type
    /\ sent.pw = Marker => base.pw # None \/ (base.ref # None /\ base.type # "d1")
    /\ sent.uri.secret = Marker => base.uri.secret # None
LEMMA EditsOf == ASSUME NEW r \in DsRecords PROVE \A sent \in Edits(RedactDatasource(r)) : EditOf(sent, r)
<1>1. r \in DsRecord
  BY DEF DsRecords
<1> DEFINE v == RedactDatasource(r)
<1>2. v \in DsRecord /\ EditOf(v, r)
  BY <1>1 DEF RedactDatasource, DsRecord, EditOf, Secrets, Hosts, None, Marker
<1> HIDE DEF v
<1>3. \A sent \in Edits(v) : /\ sent.type = v.type
                             /\ sent.pw \in {v.pw, "s2", None}
                             /\ sent.uri.secret \in {v.uri.secret, "s2"}
  <2> DEFINE Same(w) == w.type = v.type /\ w.pw \in {v.pw, "s2", None} /\ w.uri.secret \in {v.uri.secret, "s2"}
  <2>1. /\ Same(v) /\ Same([v EXCEPT !.host = "h2"]) /\ Same([v EXCEPT !.pw = "s2", !.ref = None])
        /\ Same([v EXCEPT !.ref = None]) /\ Same([v EXCEPT !.pw = None, !.ref = "r2"])
        /\ Same([v EXCEPT !.uri.at = "h2"])
    BY <1>2 DEF DsRecord
  <2>2. /\ Same([v EXCEPT !.host = None, !.uri = [at |-> "h2", secret |-> "s2"]])
        /\ Same([v EXCEPT !.host = None, !.ref = None, !.uri = [at |-> "h2", secret |-> "s2"]])
    BY <1>2 DEF DsRecord
  <2> HIDE DEF Same
  <2>3. \A sent \in Edits(v) : Same(sent)
    BY <2>1, <2>2 DEF Edits, UriEdits
  <2>4. QED  BY <2>3 DEF Same
<1>4. QED  BY <1>2, <1>3 DEF v, EditOf, Marker, None

RestoredRef(next, base) == IF next.type # "d1" /\ next.pw = Marker /\ next.ref = None THEN base.ref ELSE next.ref
RestoredPw(next, base) ==
    IF next.type = "d1" THEN (IF next.pw = Marker /\ base.pw # None THEN base.pw ELSE next.pw)
    ELSE IF next.ref # None THEN None
    ELSE IF next.pw # Marker THEN next.pw
    ELSE IF base.pw # None THEN base.pw
    ELSE IF base.ref # None THEN None ELSE Marker
RestoredSecret(next, base) ==
    IF next.uri.secret = Marker /\ base.uri # NoUri THEN base.uri.secret ELSE next.uri.secret
LEMMA RestoredFields ==
  ASSUME NEW next \in DsRecord, NEW base \in DsRecord
  PROVE  LET s == RestoreRedactedDatasource(next, base) IN
         /\ s \in DsRecord
         /\ s.type = next.type /\ s.host = next.host
         /\ s.ref = RestoredRef(next, base)
         /\ s.pw = RestoredPw(next, base)
         /\ s.uri.at = next.uri.at
         /\ s.uri.secret = RestoredSecret(next, base)
<1> DEFINE ref == RestoredRef(next, base)
           pw == RestoredPw(next, base)
           secret == RestoredSecret(next, base)
           kept == IF next.pw = Marker /\ next.ref = None THEN base.ref ELSE next.ref
           case == CASE next.ref # None -> None
                     [] next.ref = None /\ next.pw = Marker /\ base.pw # None -> base.pw
                     [] next.ref = None /\ next.pw = Marker /\ base.pw = None -> (IF kept # None THEN None ELSE Marker)
                     [] OTHER -> next.pw
           option == IF next.pw = Marker /\ base.pw # None THEN base.pw ELSE next.pw
           restored == IF next.type = "d1" THEN RestoreOption(next, base) ELSE RestorePassword(next, base)
<1>1. next.type # "d1" => case = pw /\ kept = ref
  BY DEF RestoredPw, RestoredRef
<1>2. next.type = "d1" => option = pw /\ next.ref = ref
  BY DEF RestoredPw, RestoredRef
<1>3. ref \in {None, "r1", "r2"} /\ pw \in Secrets /\ secret \in Secrets
  BY DEF DsRecord, Secrets, RestoredPw, RestoredRef, RestoredSecret
<1>4. next.type # "d1" => restored = [next EXCEPT !.ref = kept, !.pw = case]
  BY DEF RestorePassword
<1>5. next.type = "d1" => restored = [next EXCEPT !.pw = option]
  BY DEF RestoreOption
<1> HIDE DEF case, kept, option, restored, ref, pw, secret
<1>6. restored \in DsRecord /\ restored.type = next.type /\ restored.host = next.host /\ restored.ref = ref
      /\ restored.pw = pw /\ restored.uri = next.uri
  <2>1. CASE next.type = "d1"
    BY <1>2, <1>3, <1>5, <2>1 DEF DsRecord
  <2>2. CASE next.type # "d1"
    BY <1>1, <1>3, <1>4, <2>2 DEF DsRecord
  <2>3. QED  BY <2>1, <2>2
<1> DEFINE uri == [next.uri EXCEPT !.secret = secret]
<1>7. uri \in [at : Hosts, secret : Secrets] /\ uri.at = next.uri.at /\ uri.secret = secret
  BY <1>3 DEF DsRecord
<1>8. RestoreRedactedDatasource(next, base) = [restored EXCEPT !.uri = uri]
  BY <1>6 DEF RestoreRedactedDatasource, restored, secret, uri, RestoredSecret
<1> HIDE DEF uri
<1>9. \A s : s = [restored EXCEPT !.uri = uri] =>
        /\ s \in DsRecord /\ s.type = restored.type /\ s.host = restored.host /\ s.ref = restored.ref
        /\ s.pw = restored.pw /\ s.uri = uri
  BY <1>6, <1>7 DEF DsRecord
<1>10. QED  BY <1>6, <1>7, <1>8, <1>9 DEF ref, pw, secret

LEMMA ClearedFields ==
  ASSUME NEW r \in DsRecord
  PROVE  LET s == ClearInlineSecretsForRefs(r) IN
         /\ s \in DsRecords /\ s.type = r.type /\ s.host = r.host /\ s.ref = r.ref
         /\ r.ref = None => s = r
         /\ r.ref # None => s.pw = None /\ s.uri = NoUri
  BY DEF ClearInlineSecretsForRefs, DsRecords, DsRecord, RefAlone, NoUri, DsTypes, Hosts, Secrets

LEMMA UpdateKeepsSecrets ==
  ASSUME NEW base \in DsRecords, NEW sent \in Edits(RedactDatasource(base)), ValidateDataSourcePayload(sent)
  PROVE  Keeps(base, sent, ClearInlineSecretsForRefs(RestoreRedactedDatasource(sent, base)))
<1>1. base \in DsRecord /\ sent \in DsRecord /\ RefAlone(base)
  BY EditsAre DEF DsRecords
<1> DEFINE s == RestoreRedactedDatasource(sent, base)
           t == ClearInlineSecretsForRefs(s)
<1>2. /\ s \in DsRecord
      /\ s.type = sent.type /\ s.host = sent.host
      /\ s.ref = RestoredRef(sent, base)
      /\ s.pw = RestoredPw(sent, base)
      /\ s.uri.at = sent.uri.at
      /\ s.uri.secret = RestoredSecret(sent, base)
  BY <1>1, RestoredFields
<1> HIDE DEF s
<1>3. /\ t \in DsRecords /\ t.type = s.type /\ t.host = s.host /\ t.ref = s.ref
      /\ s.ref = None => t = s
      /\ s.ref # None => t.pw = None /\ t.uri = NoUri
  BY <1>2, ClearedFields
<1> HIDE DEF t
<1>4. t \in DsRecord
  BY <1>3 DEF DsRecords
<1>5. EditOf(sent, base)
  BY <1>1, EditsOf
<1>6. base \in DsRecord /\ sent.host \in Hosts /\ sent.uri \in [at : Hosts, secret : Secrets] /\ base.uri \in [at : Hosts, secret : Secrets]
  BY <1>1 DEF DsRecord
<1>7. (t.pw = Marker => base.pw = Marker) /\ (t.uri.secret = Marker => base.uri.secret = Marker)
  BY <1>1, <1>2, <1>3, <1>5, <1>6 DEF EditOf, NoUri, None, Marker, RestoredRef, RestoredPw, RestoredSecret
<1>8. /\ sent.ref # None => t.ref = sent.ref /\ t.pw = None
      /\ sent.ref = None /\ sent.pw # Marker => t.pw = sent.pw /\ t.ref = None
      /\ sent.ref = None /\ sent.pw = Marker
           => t.pw = base.pw /\ t.ref = IF sent.type = "d1" THEN None ELSE base.ref
  BY <1>1, <1>2, <1>3, <1>5 DEF EditOf, RefAlone, RestoredRef, RestoredPw
<1>9. sent.uri.secret = Marker /\ t.ref = None => t.uri = [sent.uri EXCEPT !.secret = base.uri.secret]
  <2> SUFFICES ASSUME sent.uri.secret = Marker, t.ref = None
               PROVE  t.uri = [sent.uri EXCEPT !.secret = base.uri.secret]
    OBVIOUS
  <2>1. base.uri # NoUri
    BY <1>5 DEF EditOf, NoUri
  <2>2. s.uri.at = sent.uri.at /\ s.uri.secret = base.uri.secret /\ s.uri \in [at : Hosts, secret : Secrets] /\ t.uri = s.uri
    BY <1>2, <1>3, <2>1 DEF DsRecord, RestoredSecret
  <2>3. QED  BY <1>6, <2>2
<1>10. sent.ref = base.ref \/ sent.pw # Marker => Addressed(t)
  <2> SUFFICES ASSUME sent.ref = base.ref \/ sent.pw # Marker PROVE Addressed(t)
    OBVIOUS
  <2>1. CASE sent.host # None
    BY <1>2, <1>3, <2>1 DEF Addressed
  <2>2. CASE sent.host = None
    <3>1. sent.uri # NoUri /\ sent.ref = None
      BY <2>2 DEF ValidateDataSourcePayload
    <3>2. t.ref = None /\ t = s
      BY <1>2, <1>3, <3>1 DEF RestoredRef
    <3>3. sent.uri.at # None \/ sent.uri.secret # None
      BY <1>6, <3>1 DEF NoUri
    <3>4. s.uri.at # None \/ s.uri.secret # None
      BY <1>2, <1>5, <3>3 DEF EditOf, RestoredSecret
    <3>5. QED  BY <3>2, <3>4 DEF Addressed, NoUri
  <2>3. QED  BY <2>1, <2>2
<1>11. HasToken(t)
  <2>1. HasToken(sent)
    BY DEF ValidateDataSourcePayload
  <2>2. sent.ref = None /\ sent.pw = Marker /\ sent.type = "d1" => base.pw # None
    BY <1>5 DEF EditOf
  <2>3. t.type = sent.type /\ Marker # None
    BY <1>2, <1>3 DEF Marker, None
  <2>4. QED  BY <1>8, <2>1, <2>2, <2>3 DEF HasToken
<1>12. QED  BY <1>7, <1>8, <1>9, <1>10, <1>11 DEF Keeps, t, s

(* The store keeps its records, and a form of a record that changed is no  *)
(* longer fresh.                                                           *)
LEMMA SaveKeeps ==
  ASSUME RecordsInv, NEW i \in DsIds, NEW r \in DsRecords, Save([dsItems EXCEPT ![i] = r])
  PROVE  /\ dsItems' \in [DsIds -> DsRecords] /\ dsForm' \in [DsClients -> {NoForm} \cup DsForms]
         /\ FreshForms' /\ dsItems'[i] = r /\ \A j \in DsIds \ {i} : dsItems'[j] = dsItems[j]
<1>1. /\ dsItems \in [DsIds -> DsRecords] /\ dsForm \in [DsClients -> {NoForm} \cup DsForms]
      /\ dsItems' = [dsItems EXCEPT ![i] = r]
      /\ dsForm' = [c \in DsClients |-> IF dsForm[c] # NoForm /\ dsItems'[dsForm[c].id] # dsItems[dsForm[c].id]
                                          THEN [dsForm[c] EXCEPT !.fresh = FALSE] ELSE dsForm[c]]
  BY DEF Save, Stale, RecordsInv, RecordsTypeOK
<1>2. dsItems' \in [DsIds -> DsRecords] /\ dsItems'[i] = r /\ \A j \in DsIds \ {i} : dsItems'[j] = dsItems[j]
  BY <1>1
<1>3. ASSUME NEW c \in DsClients
      PROVE  /\ dsForm'[c] \in {NoForm} \cup DsForms
             /\ dsForm'[c] \in DsForms /\ dsForm'[c].fresh
                  => dsForm'[c] = dsForm[c] /\ dsItems'[dsForm[c].id] = dsItems[dsForm[c].id]
  <2>1. CASE dsForm[c] = NoForm
    <3>1. dsForm'[c] = NoForm
      BY <1>1, <2>1
    <3>2. QED  BY <3>1, RecordsAre
  <2>2. CASE dsForm[c] \in DsForms
    <3>1. [dsForm[c] EXCEPT !.fresh = FALSE] \in DsForms /\ ~[dsForm[c] EXCEPT !.fresh = FALSE].fresh
      BY <2>2 DEF DsForms
    <3>2. dsForm[c] # NoForm
      BY <2>2, RecordsAre
    <3>3. dsForm'[c] = IF dsItems'[dsForm[c].id] # dsItems[dsForm[c].id] THEN [dsForm[c] EXCEPT !.fresh = FALSE]
                       ELSE dsForm[c]
      BY <1>1, <3>2
    <3>4. QED  BY <2>2, <3>1, <3>3
  <2>3. QED  BY <1>1, <2>1, <2>2
<1>4. dsForm' \in [DsClients -> {NoForm} \cup DsForms]
  BY <1>1, <1>3
<1>5. FreshForms'
  BY <1>3 DEF FreshForms, RecordsInv
<1>6. QED  BY <1>2, <1>4, <1>5

(* A place that is given back or filled leaves no more taken.              *)
LEMMA PlacesAre ==
  ASSUME RecordsInv
  PROVE  /\ Stored \subseteq DsIds /\ IsFiniteSet(Stored) /\ Cardinality(Stored) \in Nat
         /\ IsFiniteSet(Pending) /\ Cardinality(Pending) \in Nat
<1>1. Stored \subseteq DsIds /\ IsFiniteSet(DsIds)
  BY RecordsAssumption DEF Stored
<1>2. QED  BY <1>1, FS_Subset, FS_CardinalityType DEF RecordsInv, WithinLimit

LEMMA NoMoreTaken ==
  ASSUME RecordsInv, Pending' \subseteq Pending, Stored' \subseteq Stored
  PROVE  WithinLimit'
<1>1. /\ IsFiniteSet(Pending') /\ Cardinality(Pending') \in Nat /\ Cardinality(Pending') <= Cardinality(Pending)
      /\ IsFiniteSet(Stored') /\ Cardinality(Stored') \in Nat /\ Cardinality(Stored') <= Cardinality(Stored)
  BY PlacesAre, FS_Subset, FS_CardinalityType
<1>2. DsLimit \in Nat /\ Cardinality(Stored) \in Nat /\ Cardinality(Pending) \in Nat
  BY PlacesAre, RecordsAssumption
<1>3. QED  BY <1>1, <1>2 DEF RecordsInv, WithinLimit, Count

LEMMA OneMore ==
  ASSUME NEW S, NEW x, IsFiniteSet(S)
  PROVE  /\ IsFiniteSet(S \cup {x}) /\ Cardinality(S) \in Nat /\ Cardinality(S \cup {x}) \in Nat
         /\ Cardinality(S \cup {x}) <= Cardinality(S) + 1
<1>1. Cardinality(S) \in Nat /\ IsFiniteSet(S \cup {x})
      /\ Cardinality(S \cup {x}) = IF x \in S THEN Cardinality(S) ELSE Cardinality(S) + 1
  BY FS_AddElement, FS_CardinalityType
<1>2. QED  BY <1>1

LEMMA PlaceFilled ==
  ASSUME RecordsInv, NEW c \in Pending, NEW i \in DsIds, Pending' = Pending \ {c}, Stored' \subseteq Stored \cup {i}
  PROVE  WithinLimit'
<1>1. IsFiniteSet(Pending \ {c}) /\ Cardinality(Pending \ {c}) = Cardinality(Pending) - 1 /\ Cardinality(Pending) \in Nat
  BY PlacesAre, FS_RemoveElement
<1>2. Cardinality(Pending \ {c}) \in Nat
  BY <1>1, FS_CardinalityType
<1>3. IsFiniteSet(Stored \cup {i}) /\ Cardinality(Stored \cup {i}) <= Cardinality(Stored) + 1
      /\ Cardinality(Stored \cup {i}) \in Nat /\ Cardinality(Stored) \in Nat
  BY PlacesAre, OneMore
<1>4. IsFiniteSet(Stored') /\ Cardinality(Stored') <= Cardinality(Stored \cup {i}) /\ Cardinality(Stored') \in Nat
  BY <1>3, FS_Subset, FS_CardinalityType
<1>5. QED  BY <1>1, <1>2, <1>3, <1>4, RecordsAssumption DEF RecordsInv, WithinLimit, Count

LEMMA PlaceReserved ==
  ASSUME RecordsInv, NEW c, Count < DsLimit, Pending' = Pending \cup {c}, Stored' = Stored
  PROVE  WithinLimit'
<1>1. IsFiniteSet(Pending \cup {c}) /\ Cardinality(Pending \cup {c}) <= Cardinality(Pending) + 1
      /\ Cardinality(Pending \cup {c}) \in Nat
  BY PlacesAre, OneMore
<1>2. QED  BY <1>1, PlacesAre, RecordsAssumption DEF RecordsInv, WithinLimit, Count

LEMMA RequestMoves ==
  ASSUME RecordsInv, NEW c \in DsClients, NEW op \in {NoOp} \cup DsOps, dsOp' = [dsOp EXCEPT ![c] = op]
  PROVE  /\ dsOp' \in [DsClients -> {NoOp} \cup DsOps]
         /\ op.pc # "create" => Pending' = Pending \ {c}
         /\ op.pc = "create" => Pending' = Pending \cup {c}
<1>1. dsOp \in [DsClients -> {NoOp} \cup DsOps]
  BY DEF RecordsInv, RecordsTypeOK
<1>2. dsOp' \in [DsClients -> {NoOp} \cup DsOps]
  BY <1>1
<1>3. \A d \in DsClients : dsOp'[d].pc = IF d = c THEN op.pc ELSE dsOp[d].pc
  BY <1>1
<1>4. QED  BY <1>2, <1>3 DEF Pending

LEMMA ReturnsMoves ==
  ASSUME RecordsInv, NEW c \in DsClients, Returns(c)
  PROVE  dsOp' \in [DsClients -> {NoOp} \cup DsOps] /\ Pending' = Pending \ {c}
<1>1. NoOp.pc # "create"
  BY DEF NoOp
<1>2. QED  BY <1>1, RequestMoves DEF Returns

LEMMA OpenFormKeeps == ASSUME RecordsInv, NEW c \in DsClients, NEW i \in DsIds, OpenForm(c, i) PROVE RecordsInv'
<1>1. PICK p \in Edits(RedactDatasource(dsItems[i])) : dsForm' = [dsForm EXCEPT ![c] = [id |-> i, fresh |-> TRUE, sent |-> p]]
  BY DEF OpenForm
<1>2. RecordsTypeOK /\ UNCHANGED <<dsItems, dsOp, dsStray, dsLost>>
  BY DEF OpenForm, RecordsInv
<1>3. dsItems[i] \in DsRecords
  BY <1>2 DEF RecordsTypeOK
<1> DEFINE f == [id |-> i, fresh |-> TRUE, sent |-> p]
<1>4. f \in DsForms
  BY <1>3, EditsAre DEF DsForms
<1>5. f.sent \in Edits(RedactDatasource(dsItems[f.id]))
  BY <1>1
<1> HIDE DEF f
<1>6. dsForm' \in [DsClients -> {NoForm} \cup DsForms] /\ \A d \in DsClients : dsForm'[d] = IF d = c THEN f ELSE dsForm[d]
  BY <1>1, <1>2, <1>4 DEF RecordsTypeOK, f
<1>7. FreshForms'
  BY <1>2, <1>5, <1>6 DEF FreshForms, RecordsInv
<1>8. RecordsTypeOK'
  BY <1>2, <1>6 DEF RecordsTypeOK
<1>9. WithinLimit'
  BY <1>2 DEF RecordsInv, WithinLimit, Pending, Count, Stored
<1>10. QED  BY <1>7, <1>8, <1>9 DEF RecordsInv

(* What begins on a record that is read changes no record and takes no place. *)
LEMMA WorkBegins ==
  ASSUME RecordsInv, NEW c \in DsClients, NEW op \in DsOps, op.pc # "create", Idle(c), Begins(c, op), FreshForms',
         dsForm' \in [DsClients -> {NoForm} \cup DsForms], UNCHANGED <<dsItems, dsLost>>,
         dsStray' \subseteq {"create", "move"}
  PROVE  RecordsInv'
<1>1. dsOp' \in [DsClients -> {NoOp} \cup DsOps] /\ Pending' = Pending \ {c}
  BY RequestMoves DEF Begins
<1>2. RecordsTypeOK'
  BY <1>1 DEF RecordsInv, RecordsTypeOK
<1>3. Stored' = Stored
  BY DEF Stored
<1>4. QED  BY <1>1, <1>2, <1>3, NoMoreTaken DEF RecordsInv

(* Nodes are asked for towards a target the reference is not stored with   *)
(* only if the request names another target or another reference.          *)
LEMMA NodesAsked ==
  ASSUME NEW r, NEW who, who \in {"create", "move"} \/ ResolveDatasource(r) \subseteq Bindings,
         RecordsInv, RedisClusterNodesDiscovered(r, who)
  PROVE  dsStray' \subseteq {"create", "move"}
<1>1. Strays(r, who) \subseteq {"create", "move"}
  BY DEF Strays
<1>2. dsStray \subseteq {"create", "move"}
  BY DEF RecordsInv, RecordsTypeOK
<1>3. QED  BY <1>1, <1>2 DEF RedisClusterNodesDiscovered

LEMMA StaysBound ==
  ASSUME NEW i \in Stored, NEW sent \in DsRecord, dsItems[i] \in DsRecord, ~Moves(sent, dsItems[i])
  PROVE  ResolveDatasource(RestoreRedactedDatasource(sent, dsItems[i])) \subseteq Bindings
<1> DEFINE s == RestoreRedactedDatasource(sent, dsItems[i])
<1>1. s.host = sent.host /\ s.uri.at = sent.uri.at /\ s.ref = RestoredRef(sent, dsItems[i])
  BY RestoredFields
<1> HIDE DEF s
<1>2. s.ref # None => s.ref = dsItems[i].ref
  BY <1>1 DEF RestoredRef, Moves
<1>3. Target(s) = Target(dsItems[i])
  BY <1>1 DEF Target, Moves
<1>4. s.ref # None => <<s.ref, Target(s)>> \in Bindings
  BY <1>2, <1>3 DEF Bindings
<1>5. QED  BY <1>4 DEF ResolveDatasource, s

LEMMA UpdateBeginsKeeps == ASSUME RecordsInv, NEW c \in DsClients, UpdateBegins(c) PROVE RecordsInv'
<1> DEFINE f == dsForm[c]
           existing == dsItems[f.id]
           restored == RestoreRedactedDatasource(f.sent, existing)
           result == ClearInlineSecretsForRefs(restored)
           lost == f.fresh /\ ~Keeps(existing, f.sent, result)
           who == IF Moves(f.sent, existing) THEN "move" ELSE "update"
<1>1. /\ Idle(c) /\ f # NoForm /\ RecordsTypeOK /\ FreshForms /\ UNCHANGED <<dsItems, dsLost>>
      /\ dsForm' = [dsForm EXCEPT ![c] = NoForm]
  BY DEF UpdateBegins, RecordsInv
<1>2. f \in DsForms /\ f.sent \in DsRecord /\ existing \in DsRecords /\ existing \in DsRecord /\ f.id \in DsIds
  BY <1>1 DEF RecordsTypeOK, DsForms, DsRecords
<1>3. dsForm' \in [DsClients -> {NoForm} \cup DsForms] /\ \A d \in DsClients : dsForm'[d] = IF d = c THEN NoForm ELSE dsForm[d]
  BY <1>1 DEF RecordsTypeOK
<1>4. FreshForms'
  BY <1>1, <1>3, RecordsAre DEF FreshForms
<1>5. CASE UNCHANGED <<dsOp, dsStray>>
  <2>1. Stored' = Stored /\ Pending' = Pending
    BY <1>1, <1>5 DEF Stored, Pending
  <2>2. RecordsTypeOK'
    BY <1>1, <1>3, <1>5 DEF RecordsTypeOK
  <2>3. QED  BY <1>4, <2>1, <2>2, NoMoreTaken DEF RecordsInv
<1>6. CASE /\ ValidateDataSourcePayload(f.sent) /\ f.id \in Stored
           /\ Begins(c, [pc |-> "update", id |-> f.id, to |-> result, lost |-> lost])
           /\ RedisClusterNodesDiscovered(restored, who)
  <2>1. result \in DsRecords
    BY <1>2, RestoredFields, ClearedFields
  <2>2. lost = FALSE
    BY <1>1, <1>2, <1>6, UpdateKeepsSecrets DEF FreshForms
  <2>3. dsStray' \subseteq {"create", "move"}
    <3>1. who = "move" \/ ResolveDatasource(restored) \subseteq Bindings
      BY <1>2, <1>6, StaysBound
    <3> HIDE DEF restored, who
    <3>2. QED  BY <1>6, <3>1, NodesAsked
  <2> HIDE DEF result, lost
  <2> DEFINE op == [pc |-> "update", id |-> f.id, to |-> result, lost |-> lost]
  <2>4. op \in DsOps /\ op.pc # "create"
    BY <1>2, <2>1, <2>2 DEF DsOps
  <2>5. Begins(c, op)
    BY <1>6
  <2> HIDE DEF op
  <2>6. QED  BY <1>1, <1>3, <1>4, <2>3, <2>4, <2>5, WorkBegins
<1>7. QED  BY <1>5, <1>6 DEF UpdateBegins

(* What an update, a change of trust and a renewal store replaces a record *)
(* that is still there.                                                    *)
LEMMA StoresKeep ==
  ASSUME RecordsInv, NEW c \in DsClients, NEW op \in {NoOp} \cup DsOps, op.pc # "create",
         dsOp' = [dsOp EXCEPT ![c] = op], UNCHANGED <<dsStray, dsLost>>,
         NEW i \in DsIds, NEW r \in DsRecords,
         \/ i \in Stored /\ Save([dsItems EXCEPT ![i] = r])
         \/ UNCHANGED <<dsItems, dsForm>>
  PROVE  RecordsInv'
<1>1. dsOp' \in [DsClients -> {NoOp} \cup DsOps] /\ Pending' = Pending \ {c}
  BY RequestMoves
<1>2. CASE i \in Stored /\ Save([dsItems EXCEPT ![i] = r])
  <2>1. /\ dsItems' \in [DsIds -> DsRecords] /\ dsForm' \in [DsClients -> {NoForm} \cup DsForms]
        /\ FreshForms' /\ \A j \in DsIds \ {i} : dsItems'[j] = dsItems[j]
    BY <1>2, SaveKeeps
  <2>2. Stored' \subseteq Stored
    BY <1>2, <2>1 DEF Stored
  <2>3. RecordsTypeOK'
    BY <1>1, <2>1 DEF RecordsInv, RecordsTypeOK
  <2>4. QED  BY <1>1, <2>1, <2>2, <2>3, NoMoreTaken DEF RecordsInv
<1>3. CASE UNCHANGED <<dsItems, dsForm>>
  <2>1. Stored' = Stored /\ RecordsTypeOK' /\ FreshForms'
    BY <1>1, <1>3 DEF Stored, RecordsInv, RecordsTypeOK, FreshForms
  <2>2. QED  BY <1>1, <2>1, NoMoreTaken DEF RecordsInv
<1>4. QED  BY <1>2, <1>3

LEMMA RequestIs == ASSUME RecordsInv, NEW c \in DsClients, ~Idle(c) PROVE dsOp[c] \in DsOps
  BY DEF RecordsInv, RecordsTypeOK, Idle

LEMMA AtWork == ASSUME NEW c \in DsClients, dsOp[c].pc \in {"update", "create", "trust", "renew"} PROVE ~Idle(c)
  BY DEF Idle, NoOp

LEMMA CarriesRecord ==
  ASSUME NEW o \in DsOps, o.pc \in {"update", "trust", "create"}
  PROVE  o.id \in DsIds /\ o.to \in DsRecords /\ (o.pc = "update" => o.lost = FALSE)
  BY DEF DsOps, Renewals

LEMMA UpdateStoresKeeps == ASSUME RecordsInv, NEW c \in DsClients, UpdateStores(c) PROVE RecordsInv'
<1>1. dsOp[c] \in DsOps /\ dsOp[c].pc = "update" /\ UNCHANGED dsStray
  BY RequestIs, AtWork DEF UpdateStores
<1>2. dsOp[c].id \in DsIds /\ dsOp[c].to \in DsRecords /\ dsOp[c].lost = FALSE /\ dsLost = FALSE
  BY <1>1, CarriesRecord DEF RecordsInv, RecordsTypeOK
<1>3. /\ UNCHANGED dsLost
      /\ \/ dsOp[c].id \in Stored /\ Save([dsItems EXCEPT ![dsOp[c].id] = dsOp[c].to])
         \/ UNCHANGED <<dsItems, dsForm>>
  BY <1>2 DEF UpdateStores
<1>4. NoOp.pc # "create" /\ dsOp' = [dsOp EXCEPT ![c] = NoOp]
  BY DEF NoOp, UpdateStores, Returns
<1>5. QED  BY <1>1, <1>2, <1>3, <1>4, StoresKeep

LEMMA TrustStoresKeeps == ASSUME RecordsInv, NEW c \in DsClients, SetTrustLevelStores(c) PROVE RecordsInv'
<1>1. dsOp[c] \in DsOps /\ dsOp[c].pc = "trust" /\ UNCHANGED <<dsStray, dsLost>>
  BY RequestIs, AtWork DEF SetTrustLevelStores
<1>2. dsOp[c].id \in DsIds /\ dsOp[c].to \in DsRecords
  BY <1>1, CarriesRecord
<1>3. NoOp.pc # "create" /\ dsOp' = [dsOp EXCEPT ![c] = NoOp]
  BY DEF NoOp, SetTrustLevelStores, Returns
<1>4. \/ dsOp[c].id \in Stored /\ Save([dsItems EXCEPT ![dsOp[c].id] = dsOp[c].to])
      \/ UNCHANGED <<dsItems, dsForm>>
  BY DEF SetTrustLevelStores
<1>5. QED  BY <1>1, <1>2, <1>3, <1>4, StoresKeep

(* A renewal stores records of D1, as they were listed, with the new token. *)
LEMMA RenewalReadsKeeps == ASSUME RecordsInv, NEW c \in DsClients, RenewalReads(c) PROVE RecordsInv'
<1>1. PICK ids \in SUBSET {i \in Stored : dsItems[i].type = "d1"} : Begins(c, [pc |-> "renew", todo |-> ids, of |-> dsItems])
  BY DEF RenewalReads
<1>2. Idle(c) /\ UNCHANGED <<dsItems, dsForm, dsStray, dsLost>> /\ RecordsTypeOK
  BY DEF RenewalReads, RecordsInv
<1> DEFINE op == [pc |-> "renew", todo |-> ids, of |-> dsItems]
<1>3. ids \subseteq DsIds /\ \A i \in ids : dsItems[i].type = "d1"
  BY DEF Stored
<1>4. op \in DsOps /\ op.pc # "create"
  BY <1>2, <1>3 DEF RecordsTypeOK, DsOps, Renewals
<1>5. Begins(c, op)
  BY <1>1
<1> HIDE DEF op
<1>6. FreshForms' /\ dsForm' \in [DsClients -> {NoForm} \cup DsForms] /\ dsStray' \subseteq {"create", "move"}
  BY <1>2 DEF RecordsInv, RecordsTypeOK, FreshForms
<1>7. QED  BY <1>2, <1>4, <1>5, <1>6, WorkBegins

LEMMA RenewedIs ==
  ASSUME NEW r \in DsRecords, r.type = "d1"
  PROVE  [r EXCEPT !.pw = NewToken] \in DsRecords
  BY DEF DsRecords, DsRecord, RefAlone, Secrets

LEMMA RenewalStoresKeeps == ASSUME RecordsInv, NEW c \in DsClients, RenewalStores(c) PROVE RecordsInv'
<1> DEFINE o == dsOp[c]
           rest(i) == [pc |-> "renew", todo |-> o.todo \ {i}, of |-> o.of]
           r(i) == [o.of[i] EXCEPT !.pw = NewToken]
           op(i) == IF o.todo = {i} THEN NoOp ELSE rest(i)
<1>1. PICK i \in o.todo :
        /\ IF i \in Stored THEN Save([dsItems EXCEPT ![i] = r(i)]) ELSE UNCHANGED <<dsItems, dsForm>>
        /\ IF o.todo = {i} THEN Returns(c) ELSE Begins(c, rest(i))
  BY DEF RenewalStores
<1>2. o \in DsOps /\ o.pc = "renew" /\ UNCHANGED <<dsStray, dsLost>>
  BY RequestIs, AtWork DEF RenewalStores
<1>3. o \in Renewals
  BY <1>2 DEF DsOps
<1>4. i \in DsIds /\ o.of[i] \in DsRecords /\ o.of[i].type = "d1"
  BY <1>3 DEF Renewals
<1>5. r(i) \in DsRecords
  BY <1>4, RenewedIs
<1>6. rest(i) \in DsOps /\ rest(i).pc # "create" /\ NoOp.pc # "create"
  BY <1>3 DEF DsOps, Renewals, NoOp
<1> HIDE DEF o, r, rest
<1>7. op(i) \in {NoOp} \cup DsOps /\ op(i).pc # "create" /\ dsOp' = [dsOp EXCEPT ![c] = op(i)]
  BY <1>1, <1>6 DEF Returns, Begins
<1> HIDE DEF op
<1>8. \/ i \in Stored /\ Save([dsItems EXCEPT ![i] = r(i)])
      \/ UNCHANGED <<dsItems, dsForm>>
  BY <1>1
<1>9. QED  BY <1>2, <1>4, <1>5, <1>7, <1>8, StoresKeep

LEMMA UpdateFailsKeeps == ASSUME RecordsInv, NEW c \in DsClients, UpdateFails(c) PROVE RecordsInv'
<1>1. dsOp' \in [DsClients -> {NoOp} \cup DsOps] /\ Pending' = Pending \ {c}
  BY ReturnsMoves DEF UpdateFails
<1>2. Stored' = Stored /\ RecordsTypeOK' /\ FreshForms'
  BY <1>1 DEF UpdateFails, Stored, RecordsInv, RecordsTypeOK, FreshForms
<1>3. QED  BY <1>1, <1>2, NoMoreTaken DEF RecordsInv

LEMMA TrustReadsKeeps ==
  ASSUME RecordsInv, NEW c \in DsClients, NEW i \in DsIds, SetTrustLevelReads(c, i) PROVE RecordsInv'
<1> DEFINE op == [pc |-> "trust", id |-> i, to |-> dsItems[i]]
<1>1. op \in DsOps /\ op.pc # "create"
  BY DEF RecordsInv, RecordsTypeOK, DsOps
<1>2. Idle(c) /\ Begins(c, op) /\ UNCHANGED <<dsItems, dsForm, dsStray, dsLost>>
  BY DEF SetTrustLevelReads
<1> HIDE DEF op
<1>3. FreshForms' /\ dsForm' \in [DsClients -> {NoForm} \cup DsForms] /\ dsStray' \subseteq {"create", "move"}
  BY <1>2 DEF RecordsInv, RecordsTypeOK, FreshForms
<1>4. QED  BY <1>1, <1>2, <1>3, WorkBegins

LEMMA FreshAre == Fresh \subseteq DsRecord
<1> DEFINE uri == [at |-> "h1", secret |-> "s1"]
<1>1. uri \in [at : Hosts, secret : Secrets] /\ NoUri \in [at : Hosts, secret : Secrets]
  BY DEF Hosts, Secrets, NoUri
<1>2. \A type \in DsTypes, host \in Hosts, pw \in Secrets, ref \in {None, "r1", "r2"}, u \in [at : Hosts, secret : Secrets] :
        Payload(type, host, pw, ref, u) \in DsRecord
  BY DEF Payload, DsRecord
<1> HIDE DEF uri
<1>3. Fresh = {Payload("sql", "h1", "s1", None, NoUri), Payload("sql", None, None, None, uri),
               Payload("sql", "h1", "s1", "r1", uri), Payload("sql", None, None, "r1", uri)}
              \cup {Payload(type, "h1", "s1", ref, NoUri) : type \in {"redis", "d1"}, ref \in {None, "r1"}}
  BY DEF Fresh, uri
<1>4. {None, "h1"} \subseteq Hosts /\ {None, "s1"} \subseteq Secrets /\ {"sql", "redis", "d1"} \subseteq DsTypes
  BY DEF Hosts, Secrets, DsTypes
<1>5. QED  BY <1>1, <1>2, <1>3, <1>4

LEMMA CreateReservesKeeps ==
  ASSUME RecordsInv, NEW c \in DsClients, NEW i \in DsIds, CreateReserves(c, i) PROVE RecordsInv'
<1>1. PICK p \in Fresh : /\ Begins(c, [pc |-> "create", id |-> i, to |-> ClearInlineSecretsForRefs(p)])
                         /\ RedisClusterNodesDiscovered(p, "create")
  BY DEF CreateReserves
<1>2. Count < DsLimit /\ UNCHANGED <<dsItems, dsForm, dsLost>> /\ dsStray' \subseteq {"create", "move"}
  BY <1>1, NodesAsked DEF CreateReserves
<1>3. ClearInlineSecretsForRefs(p) \in DsRecords
  BY FreshAre, ClearedFields
<1> DEFINE op == [pc |-> "create", id |-> i, to |-> ClearInlineSecretsForRefs(p)]
<1>4. op \in DsOps /\ op.pc = "create"
  BY <1>3 DEF DsOps
<1>5. dsOp' = [dsOp EXCEPT ![c] = op]
  BY <1>1 DEF Begins
<1> HIDE DEF op
<1>6. dsOp' \in [DsClients -> {NoOp} \cup DsOps] /\ Pending' = Pending \cup {c}
  BY <1>4, <1>5, RequestMoves
<1>7. Stored' = Stored /\ RecordsTypeOK' /\ FreshForms'
  BY <1>2, <1>6 DEF Stored, RecordsInv, RecordsTypeOK, FreshForms
<1>8. QED  BY <1>2, <1>6, <1>7, PlaceReserved DEF RecordsInv

LEMMA CreateStoresKeeps == ASSUME RecordsInv, NEW c \in DsClients, CreateStores(c) PROVE RecordsInv'
<1>1. dsOp[c] \in DsOps /\ c \in Pending
  BY RequestIs, AtWork DEF CreateStores, Pending
<1>2. dsOp[c].id \in DsIds /\ dsOp[c].to \in DsRecords
  BY <1>1, CarriesRecord DEF Pending
<1>3. dsOp' \in [DsClients -> {NoOp} \cup DsOps] /\ Pending' = Pending \ {c}
  BY ReturnsMoves DEF CreateStores
<1>4. /\ dsItems' \in [DsIds -> DsRecords] /\ dsForm' \in [DsClients -> {NoForm} \cup DsForms]
      /\ FreshForms' /\ \A j \in DsIds \ {dsOp[c].id} : dsItems'[j] = dsItems[j]
  BY <1>2, SaveKeeps DEF CreateStores
<1>5. Stored' \subseteq Stored \cup {dsOp[c].id}
  BY <1>4 DEF Stored
<1>6. RecordsTypeOK'
  BY <1>3, <1>4 DEF CreateStores, RecordsInv, RecordsTypeOK
<1>7. QED  BY <1>1, <1>2, <1>3, <1>4, <1>5, <1>6, PlaceFilled DEF RecordsInv

LEMMA DeleteKeeps == ASSUME RecordsInv, NEW i \in DsIds, DeleteDatasource(i) PROVE RecordsInv'
<1>1. /\ dsItems' \in [DsIds -> DsRecords] /\ dsForm' \in [DsClients -> {NoForm} \cup DsForms]
      /\ FreshForms' /\ dsItems'[i] = NoRecord /\ \A j \in DsIds \ {i} : dsItems'[j] = dsItems[j]
  BY RecordsAre, SaveKeeps DEF DeleteDatasource
<1>2. Stored' \subseteq Stored /\ Pending' = Pending
  BY <1>1 DEF Stored, Pending, DeleteDatasource
<1>3. RecordsTypeOK'
  BY <1>1 DEF DeleteDatasource, RecordsInv, RecordsTypeOK
<1>4. QED  BY <1>1, <1>2, <1>3, NoMoreTaken DEF RecordsInv

(* What is tested is resolved towards the target the record has.           *)
LEMMA TestKeeps == ASSUME RecordsInv, NEW c \in DsClients, TestDatasourcePayload(c) PROVE RecordsInv'
<1> DEFINE f == dsForm[c]
           r == RestoreRedactedDatasource(f.sent, dsItems[f.id])
<1>1. /\ f # NoForm /\ UNCHANGED <<dsItems, dsForm, dsOp, dsLost>>
      /\ r.ref # None => f.id \in Stored /\ SecretBackedConnectionMatchesStored(r, dsItems[f.id])
      /\ dsStray' = dsStray \cup Strays(r, "test")
  BY DEF TestDatasourcePayload
<1>2. f \in DsForms /\ f.sent \in DsRecord /\ dsItems[f.id] \in DsRecord /\ RecordsTypeOK
  BY <1>1 DEF RecordsInv, RecordsTypeOK, DsForms, DsRecords
<1>3. r \in DsRecord
  BY <1>2, RestoredFields
<1> HIDE DEF r
<1>4. ASSUME r.ref # None PROVE <<r.ref, Target(r)>> \in Bindings
  <2>1. f.id \in Stored /\ [r EXCEPT !.pw = None] = [dsItems[f.id] EXCEPT !.pw = None]
    BY <1>1, <1>4 DEF SecretBackedConnectionMatchesStored
  <2>2. r.ref = dsItems[f.id].ref /\ r.host = dsItems[f.id].host /\ r.uri = dsItems[f.id].uri
    <3>1. \A x, y \in DsRecord : [x EXCEPT !.pw = None] = [y EXCEPT !.pw = None] =>
            x.ref = y.ref /\ x.host = y.host /\ x.uri = y.uri
      BY DEF DsRecord
    <3>2. QED  BY <1>2, <1>3, <2>1, <3>1
  <2>3. QED  BY <1>4, <2>1, <2>2 DEF Bindings, Target
<1>5. dsStray' \subseteq {"create", "move"}
  <2>1. Strays(r, "test") = {}
    BY <1>4 DEF Strays, ResolveDatasource
  <2>2. QED  BY <1>1, <1>2, <2>1 DEF RecordsTypeOK
<1>6. Stored' = Stored /\ Pending' = Pending /\ RecordsTypeOK' /\ FreshForms'
  BY <1>1, <1>2, <1>5 DEF Stored, Pending, RecordsInv, RecordsTypeOK, FreshForms
<1>7. QED  BY <1>6, NoMoreTaken DEF RecordsInv

LEMMA RecordsInitially == RecordsInit => RecordsInv
<1> SUFFICES ASSUME RecordsInit PROVE RecordsInv
  OBVIOUS
<1> DEFINE first == CHOOSE j \in DsIds : TRUE
<1>1. PICK r \in DsRecords : dsItems = [i \in DsIds |-> IF i = first THEN r ELSE NoRecord]
  BY RecordsAre, FreshAre, ClearedFields DEF RecordsInit
<1>2. RecordsTypeOK /\ FreshForms
  BY <1>1, RecordsAre DEF RecordsInit, RecordsTypeOK, FreshForms
<1>3. Pending = {}
  BY DEF Pending, RecordsInit, NoOp
<1>4. Stored \subseteq {first}
  BY <1>1 DEF Stored
<1>5. IsFiniteSet({first}) /\ Cardinality({first}) = 1 /\ IsFiniteSet({}) /\ Cardinality({}) = 0
  BY FS_Singleton, FS_EmptySet
<1>6. Cardinality(Stored) \in Nat /\ Cardinality(Stored) <= 1
  BY <1>4, <1>5, FS_Subset, FS_CardinalityType
<1>7. WithinLimit
  BY <1>3, <1>5, <1>6, RecordsAssumption DEF WithinLimit, Count
<1>8. QED  BY <1>2, <1>7 DEF RecordsInv

LEMMA RecordsStep == RecordsInv /\ [RecordsNext]_dsvars => RecordsInv'
<1> SUFFICES ASSUME RecordsInv, [RecordsNext]_dsvars PROVE RecordsInv'
  OBVIOUS
<1>1. CASE UNCHANGED dsvars
  <2>1. Stored' = Stored /\ Pending' = Pending /\ RecordsTypeOK' /\ FreshForms'
    BY <1>1 DEF dsvars, Stored, Pending, RecordsInv, RecordsTypeOK, FreshForms
  <2>2. QED  BY <2>1, NoMoreTaken DEF RecordsInv
<1>2. ASSUME NEW c \in DsClients, NEW i \in DsIds, OpenForm(c, i) \/ SetTrustLevelReads(c, i) \/ CreateReserves(c, i)
      PROVE  RecordsInv'
  BY <1>2, OpenFormKeeps, TrustReadsKeeps, CreateReservesKeeps
<1>3. ASSUME NEW c \in DsClients,
             \/ UpdateBegins(c) \/ UpdateStores(c) \/ UpdateFails(c) \/ SetTrustLevelStores(c)
             \/ CreateStores(c) \/ TestDatasourcePayload(c) \/ RenewalReads(c) \/ RenewalStores(c)
      PROVE  RecordsInv'
  BY <1>3, RenewalReadsKeeps, RenewalStoresKeeps, UpdateBeginsKeeps, UpdateStoresKeeps, UpdateFailsKeeps, TrustStoresKeeps, CreateStoresKeeps, TestKeeps
<1>4. QED  BY <1>1, <1>2, <1>3, DeleteKeeps DEF RecordsNext

(* However edits, changes of trust, creations, renewals, deletions and     *)
(* tests of any clients interleave, no update loses a secret, no reference *)
(* has a secret beside it but a renewed token of D1, none is resolved      *)
(* towards another target but to ask a Redis server for its nodes ahead of *)
(* a creation or of an update that names another, and the limit of the     *)
(* plan holds.                                                             *)
THEOREM RecordsCorrect == RecordsSpec => []RecordsSafe
<1>1. RecordsInv => RecordsSafe
  BY DEF RecordsInv, RecordsTypeOK, DsRecords, RefAlone, WithinLimit, Count, RecordsSafe, UpdatesKeepSecrets,
         ReferencesStandAlone, ReferencesStayBound, LimitKept
<1>2. QED  BY <1>1, RecordsInitially, RecordsStep, PTL DEF RecordsSpec

(* Numbers: every set of naturals has a least one, and a finite one a      *)
(* greatest.                                                               *)
LEMMA LeastNatural ==
  ASSUME NEW T, T \subseteq Nat, T # {}
  PROVE  \E n \in T : \A m \in T : n <= m
<1>1. \E R : IsWellFoundedOn(R, Nat) /\ \A i, j \in Nat : i < j => <<i, j>> \in R
  BY NatLessThanWellFounded DEF OpToRel
<1>2. PICK R : IsWellFoundedOn(R, Nat) /\ \A i, j \in Nat : i < j => <<i, j>> \in R
  BY <1>1
<1>3. \E n \in T : \A m \in T : ~ (<<m, n>> \in R)
  <2>1. IsWellFoundedOn(R, Nat)
    BY <1>2
  <2>2. QED  BY <2>1, WFMin, Zenon
<1>4. PICK n \in T : \A m \in T : ~ (<<m, n>> \in R)
  BY <1>3
<1>5. \A m \in T : ~ (m < n)
  BY <1>2, <1>4
<1>6. n \in Nat /\ \A m \in T : m \in Nat
  OBVIOUS
<1>7. QED  BY <1>4, <1>5, <1>6

LEMMA GreatestOfFinite ==
  ASSUME NEW S, S \subseteq Nat, IsFiniteSet(S), S # {}
  PROVE  \E x \in S : \A y \in S : y <= x
<1> DEFINE Bad == {n \in Nat : \E T \in SUBSET Nat : /\ IsFiniteSet(T) /\ T # {} /\ Cardinality(T) = n
                                                    /\ ~ \E x \in T : \A y \in T : y <= x}
<1>1. SUFFICES ASSUME Bad # {} PROVE FALSE
  BY FS_CardinalityType
<1>2. PICK n \in Bad : \A m \in Bad : n <= m
  BY <1>1, LeastNatural
<1>3. PICK T \in SUBSET Nat : /\ IsFiniteSet(T) /\ T # {} /\ Cardinality(T) = n
                              /\ ~ \E x \in T : \A y \in T : y <= x
  OBVIOUS
<1>4. PICK a \in T : TRUE
  BY <1>3
<1>5. IsFiniteSet(T \ {a}) /\ Cardinality(T \ {a}) = n - 1 /\ Cardinality(T \ {a}) \in Nat /\ n \in Nat
  BY <1>2, <1>3, FS_RemoveElement, FS_CardinalityType
<1>6. Cardinality(T \ {a}) \notin Bad
  BY <1>2, <1>5
<1>7. CASE T \ {a} = {}
  <2>1. \A y \in T : y = a
    BY <1>7
  <2>2. QED  BY <1>3, <2>1
<1>8. CASE T \ {a} # {}
  <2>1. \E x \in T \ {a} : \A y \in T \ {a} : y <= x
    BY <1>5, <1>6, <1>8
  <2>2. PICK x \in T \ {a} : \A y \in T \ {a} : y <= x
    BY <2>1
  <2>3. \A y \in T : y \in Nat
    OBVIOUS
  <2>4. CASE x <= a
    <3>1. \A y \in T : y <= a
      BY <2>2, <2>3, <2>4
    <3>2. QED  BY <1>3, <3>1
  <2>5. CASE a <= x
    <3>1. \A y \in T : y <= x
      BY <2>2, <2>3, <2>5
    <3>2. QED  BY <1>3, <3>1
  <2>6. QED  BY <2>3, <2>4, <2>5
<1>9. QED  BY <1>7, <1>8

LEMMA MaxIs ==
  ASSUME NEW S, S \subseteq Nat, IsFiniteSet(S), S # {}
  PROVE  Max(S) \in S /\ \A y \in S : y <= Max(S)
<1>1. \E x \in S : \A y \in S : x >= y
  BY GreatestOfFinite
<1>2. Max(S) \in S /\ \A y \in S : Max(S) >= y
  BY <1>1 DEF Max
<1>3. QED  BY <1>2

LEMMA MinIs ==
  ASSUME NEW S, S \subseteq Nat, S # {}
  PROVE  Min(S) \in S /\ \A y \in S : Min(S) <= y
<1>1. \E x \in S : \A y \in S : x =< y
  BY LeastNatural
<1>2. QED  BY <1>1 DEF Min

(* The elements of a finite set of naturals can be counted in their order. *)
LEMMA NthIs ==
  ASSUME NEW S, S \subseteq Nat, IsFiniteSet(S), NEW k \in Nat, k < Cardinality(S)
  PROVE  Nth(S, k) \in S /\ Cardinality({y \in S : y < Nth(S, k)}) = k
<1> DEFINE Below(x) == {y \in S : y < x}
           Bad == {n \in Nat : n < Cardinality(S) /\ ~ \E x \in S : Cardinality(Below(x)) = n}
<1>1. Cardinality(S) \in Nat
  BY FS_CardinalityType
<1>2. Bad = {}
  <2>1. SUFFICES ASSUME Bad # {} PROVE FALSE
    OBVIOUS
  <2>2. PICK n \in Bad : \A m \in Bad : n <= m
    BY <2>1, LeastNatural
  <2>3. n \in Nat /\ n < Cardinality(S) /\ \A x \in S : Cardinality(Below(x)) # n
    OBVIOUS
  <2>4. \E P \in SUBSET S : Cardinality(P) = n /\ \A p \in P, x \in S \ P : p < x
    <3>1. CASE n = 0
      BY <3>1, FS_EmptySet
    <3>2. CASE n # 0
      <4>1. n - 1 \in Nat /\ n - 1 < Cardinality(S) /\ ~(n <= n - 1)
        BY <1>1, <2>3, <3>2
      <4>2. n - 1 \notin Bad
        BY <2>2, <4>1
      <4>3. PICK x \in S : Cardinality(Below(x)) = n - 1
        BY <4>1, <4>2
      <4>4. Below(x) \in SUBSET S /\ IsFiniteSet(Below(x)) /\ x \notin Below(x)
        BY FS_Subset
      <4>5. Cardinality(Below(x) \cup {x}) = (n - 1) + 1
        BY <4>3, <4>4, FS_AddElement
      <4>6. \A p \in Below(x) \cup {x}, y \in S \ (Below(x) \cup {x}) : p < y
        OBVIOUS
      <4>7. Cardinality(Below(x) \cup {x}) = n /\ Below(x) \cup {x} \in SUBSET S
        BY <2>3, <4>4, <4>5
      <4>8. QED  BY <4>6, <4>7
    <3>3. QED  BY <3>1, <3>2
  <2>5. PICK P \in SUBSET S : Cardinality(P) = n /\ \A p \in P, x \in S \ P : p < x
    BY <2>4
  <2>6. S \ P # {}
    <3>1. P # S
      BY <2>3, <2>5, <1>1
    <3>2. QED  BY <2>5, <3>1
  <2>7. PICK x \in S \ P : \A y \in S \ P : x <= y
    <3>1. S \ P \subseteq Nat
      OBVIOUS
    <3>2. QED  BY <2>6, <3>1, LeastNatural
  <2>8. Below(x) = P
    <3>1. \A y \in S : y < x => y \in P
      BY <2>7
    <3>2. \A p \in P : p < x
      BY <2>5
    <3>3. QED  BY <3>1, <3>2
  <2>9. QED  BY <2>3, <2>5, <2>8
<1>3. \E x \in S : Cardinality(Below(x)) = k
  BY <1>2
<1>4. QED  BY <1>3 DEF Nth

(* An id that comes later has more before it.                              *)
LEMMA CountGrows ==
  ASSUME NEW S, S \subseteq Nat, IsFiniteSet(S), NEW i \in S, NEW j \in S, i < j
  PROVE  Cardinality({y \in S : y < i}) < Cardinality({y \in S : y < j})
<1> DEFINE A == {y \in S : y < i}
           B == {y \in S : y < j}
<1>1. A \cup {i} \in SUBSET B /\ i \notin A /\ A \subseteq S /\ B \subseteq S
  <2>1. i \in Nat /\ j \in Nat /\ \A y \in S : y \in Nat
    OBVIOUS
  <2>2. ~(i < i) /\ \A y \in S : y < i => y < j
    BY <2>1
  <2>3. QED  BY <2>2
<1>2. IsFiniteSet(A) /\ IsFiniteSet(B)
  BY <1>1, FS_Subset
<1>3. Cardinality(A) \in Nat /\ Cardinality(B) \in Nat /\ Cardinality(A \cup {i}) = Cardinality(A) + 1
  BY <1>1, <1>2, FS_AddElement, FS_CardinalityType
<1>4. Cardinality(A \cup {i}) <= Cardinality(B)
  BY <1>1, <1>2, FS_Subset
<1>5. QED  BY <1>3, <1>4

(* The rules directory.                                                    *)
RuleFileTypes == [FileNames -> {NoRule} \cup [id : RuleIds, rule : RuleTexts]]
NumberedRules == [code : Nat \ {0}, on : BOOLEAN]
CodesDiffer(files) == \A i, j \in RuleIds :
    /\ i # j /\ RuleText(files, i) # NoRule /\ RuleText(files, j) # NoRule
    /\ RuleText(files, i).code # 0 /\ RuleText(files, i).code = RuleText(files, j).code
    => <<i, RuleText(files, i).code>> \in rrGiven \/ <<j, RuleText(files, j).code>> \in rrGiven

LEMMA NoRuleIs == /\ NoRule \notin FileNames /\ NoRule \notin RuleTexts /\ NoRule \notin NumberedRules
                  /\ NoRule \notin [id : RuleIds, rule : RuleTexts]
<1>1. NumberedRules \subseteq RuleTexts
  BY DEF NumberedRules, RuleTexts
<1>2. QED  BY <1>1, NoRuleAssumption

LEMMA LoadedFromIs ==
  ASSUME NEW files \in RuleFileTypes, NEW id
  PROVE  /\ Holding(files, id) = {} => LoadedFrom(files, id) = NoRule
         /\ Holding(files, id) # {} => LoadedFrom(files, id) \in Holding(files, id)
         /\ LoadedFrom(files, id) \in {NoRule} \cup FileNames
         /\ LoadedFrom(files, id) # NoRule
              => LoadedFrom(files, id) \in Holding(files, id) /\ files[LoadedFrom(files, id)].id = id
<1>1. Holding(files, id) \subseteq FileNames /\ NoRule \notin FileNames
  BY NoRuleIs DEF Holding
<1>2. Holding(files, id) # {} => LoadedFrom(files, id) \in Holding(files, id)
  BY DEF LoadedFrom, ListedLast
<1>3. Holding(files, id) = {} => LoadedFrom(files, id) = NoRule
  BY DEF LoadedFrom, ListedLast
<1>4. QED  BY <1>1, <1>2, <1>3 DEF Holding

LEMMA RuleTextIs ==
  ASSUME NEW files \in RuleFileTypes, NEW id
  PROVE  /\ RuleText(files, id) \in {NoRule} \cup RuleTexts
         /\ RuleText(files, id) = NoRule <=> LoadedFrom(files, id) = NoRule
<1>1. CASE LoadedFrom(files, id) = NoRule
  BY <1>1 DEF RuleText
<1>2. CASE LoadedFrom(files, id) # NoRule
  <2>1. LoadedFrom(files, id) \in FileNames /\ files[LoadedFrom(files, id)] # NoRule
    BY <1>2, LoadedFromIs DEF Holding
  <2>2. files[LoadedFrom(files, id)].rule \in RuleTexts
    BY <2>1 DEF RuleFileTypes
  <2>3. RuleText(files, id) = files[LoadedFrom(files, id)].rule
    BY <1>2 DEF RuleText
  <2>4. QED  BY <1>2, <2>2, <2>3, NoRuleIs
<1>3. QED  BY <1>1, <1>2

(* There are unused numbers enough for the rules without one.              *)
LEMMA UnusedAre ==
  ASSUME NEW files \in RuleFileTypes
  PROVE  /\ BareIds(files) \subseteq Nat /\ IsFiniteSet(BareIds(files)) /\ Cardinality(BareIds(files)) \in Nat
         /\ UnusedCodes(files) \subseteq Nat \ {0} /\ IsFiniteSet(UnusedCodes(files))
         /\ Cardinality(BareIds(files)) <= Cardinality(UnusedCodes(files))
<1> DEFINE D == {i \in RuleIds : RuleText(files, i) # NoRule}
           used == UsedCodes(files) \cup {0}
           b == Cardinality(BareIds(files))
           g == [i \in D |-> RuleText(files, i).code]
<1>1. /\ BareIds(files) \subseteq Nat /\ IsFiniteSet(BareIds(files)) /\ b \in Nat /\ IsFiniteSet(D)
  BY RiskRulesAssumption, FS_Subset, FS_CardinalityType DEF BareIds
<1>2. \A i \in D : RuleText(files, i).code \in Nat
  BY RuleTextIs DEF RuleTexts
<1>3. UsedCodes(files) \subseteq Nat
  BY <1>2 DEF UsedCodes
<1>4. IsFiniteSet(UsedCodes(files))
  <2>1. g \in Surjection(D, UsedCodes(files))
    BY DEF Surjection, UsedCodes
  <2>2. QED  BY <1>1, <2>1, FS_Surjection
<1>5. used \subseteq Nat /\ IsFiniteSet(used) /\ used # {}
  BY <1>3, <1>4, FS_AddElement
<1> DEFINE m == Max(used)
<1>6. m \in Nat /\ \A y \in used : y <= m
  BY <1>5, MaxIs
<1> HIDE DEF m, used
<1>7. UnusedCodes(files) = (1 .. m + b) \ UsedCodes(files)
  BY DEF UnusedCodes, m, used
<1> HIDE DEF b
<1>8. IsFiniteSet(UnusedCodes(files)) /\ UnusedCodes(files) \subseteq Nat \ {0}
  <2>1. IsFiniteSet(1 .. m + b)
    BY <1>1, <1>6, FS_Interval DEF b
  <2>2. QED  BY <1>1, <1>6, <1>7, <2>1, FS_Subset DEF b
<1>9. m + 1 .. m + b \subseteq UnusedCodes(files)
  <2>1. \A y \in UsedCodes(files) : y \in Nat /\ y <= m
    BY <1>3, <1>6 DEF used
  <2>2. b \in Nat
    BY <1>1
  <2>3. QED  BY <1>6, <1>7, <2>1, <2>2
<1>10. b <= Cardinality(UnusedCodes(files))
  <2>1. b \in Nat
    BY <1>1
  <2>2. Cardinality(m + 1 .. m + b) = b
    BY <1>6, <2>1, FS_Interval
  <2>3. m + 1 .. m + b \in SUBSET UnusedCodes(files)
    BY <1>9
  <2>4. Cardinality(m + 1 .. m + b) <= Cardinality(UnusedCodes(files))
    BY <1>8, <2>3, FS_Subset
  <2>5. QED  BY <2>2, <2>4
<1>11. QED  BY <1>1, <1>8, <1>10 DEF b

LEMMA BareNumbers ==
  ASSUME NEW files \in RuleFileTypes, NEW id \in BareIds(files)
  PROVE  LET k == Cardinality({i \in BareIds(files) : i < id}) IN
         /\ k \in Nat
         /\ Nth(UnusedCodes(files), k) \in UnusedCodes(files)
         /\ Cardinality({y \in UnusedCodes(files) : y < Nth(UnusedCodes(files), k)}) = k
<1> DEFINE A == {i \in BareIds(files) : i < id}
           k == Cardinality(A)
<1>1. A \subseteq BareIds(files) /\ id \in BareIds(files) \ A
  BY UnusedAre
<1>2. IsFiniteSet(A) /\ k \in Nat /\ k < Cardinality(BareIds(files))
  BY <1>1, UnusedAre, FS_Subset, FS_CardinalityType
<1>3. k < Cardinality(UnusedCodes(files))
  BY <1>2, UnusedAre, FS_CardinalityType
<1> HIDE DEF k
<1>4. QED  BY <1>2, <1>3, UnusedAre, NthIs DEF k

LEMMA LoadedIs ==
  ASSUME NEW files \in RuleFileTypes
  PROVE  /\ Loaded(files) \in [RuleIds -> {NoRule} \cup NumberedRules]
         /\ \A id \in RuleIds :
              /\ Loaded(files)[id] = NoRule <=> RuleText(files, id) = NoRule
              /\ RuleText(files, id) # NoRule =>
                   /\ Loaded(files)[id].on = RuleText(files, id).on
                   /\ RuleText(files, id).code \in {0, Loaded(files)[id].code}
                   /\ RuleText(files, id).code = 0 => Loaded(files)[id].code \in UnusedCodes(files)
<1> DEFINE L == Loaded(files)
           num(id) == Nth(UnusedCodes(files), Cardinality({i \in BareIds(files) : i < id}))
<1>1. ASSUME NEW id \in RuleIds
      PROVE  /\ L[id] \in {NoRule} \cup NumberedRules
             /\ L[id] = NoRule <=> RuleText(files, id) = NoRule
             /\ RuleText(files, id) # NoRule =>
                   /\ L[id].on = RuleText(files, id).on
                   /\ RuleText(files, id).code \in {0, L[id].code}
                   /\ RuleText(files, id).code = 0 => L[id].code \in UnusedCodes(files)
  <2>1. RuleText(files, id) \in {NoRule} \cup RuleTexts
    BY RuleTextIs
  <2>2. CASE id \in BareIds(files)
    <3>1. num(id) \in UnusedCodes(files) /\ num(id) \in Nat \ {0}
      BY <2>2, BareNumbers, UnusedAre
    <3> DEFINE n == num(id)
    <3>2. L[id] = [RuleText(files, id) EXCEPT !.code = n]
      BY <2>2 DEF Loaded
    <3>3. RuleText(files, id) \in RuleTexts /\ RuleText(files, id).code = 0
      BY <2>1, <2>2 DEF BareIds
    <3> HIDE DEF n, L
    <3>4. n \in UnusedCodes(files) /\ n \in Nat \ {0}
      BY <3>1 DEF n
    <3>5. L[id] \in NumberedRules /\ L[id].on = RuleText(files, id).on /\ L[id].code = n
      BY <3>2, <3>3, <3>4 DEF RuleTexts, NumberedRules
    <3>6. QED  BY <3>3, <3>4, <3>5, NoRuleIs
  <2>3. CASE id \notin BareIds(files)
    <3>1. L[id] = RuleText(files, id)
      BY <2>3 DEF Loaded
    <3>2. RuleText(files, id) # NoRule => RuleText(files, id).code # 0
      BY <2>3 DEF BareIds
    <3> HIDE DEF L
    <3>3. RuleText(files, id) # NoRule => L[id] \in NumberedRules
      BY <2>1, <3>1, <3>2 DEF RuleTexts, NumberedRules
    <3>4. QED  BY <3>1, <3>2, <3>3
  <2>4. QED  BY <2>2, <2>3
<1>2. L = [id \in RuleIds |-> L[id]]
  BY DEF Loaded
<1> HIDE DEF L
<1>3. L \in [RuleIds -> {NoRule} \cup NumberedRules]
  BY <1>1, <1>2
<1>4. QED  BY <1>1, <1>3 DEF L

LEMMA LoadedDistinct ==
  ASSUME NEW files \in RuleFileTypes, CodesDiffer(files), NEW i \in RuleIds, NEW j \in RuleIds, i # j,
         Loaded(files)[i] # NoRule, Loaded(files)[j] # NoRule, Loaded(files)[i].code = Loaded(files)[j].code
  PROVE  <<i, Loaded(files)[i].code>> \in rrGiven \/ <<j, Loaded(files)[j].code>> \in rrGiven
<1>1. RuleText(files, i) # NoRule /\ RuleText(files, j) # NoRule
  BY LoadedIs
<1>2. CASE RuleText(files, i).code = 0 /\ RuleText(files, j).code = 0
  <2>1. i \in BareIds(files) /\ j \in BareIds(files)
    BY <1>1, <1>2 DEF BareIds
  <2> DEFINE before(x) == Cardinality({y \in BareIds(files) : y < x})
             num(x) == Nth(UnusedCodes(files), before(x))
  <2>2. before(i) # before(j)
    <3>1. i \in Nat /\ j \in Nat
      BY RiskRulesAssumption
    <3>2. before(i) \in Nat /\ before(j) \in Nat
      BY <2>1, BareNumbers
    <3>3. i < j => before(i) < before(j)
      BY <2>1, UnusedAre, CountGrows
    <3>4. j < i => before(j) < before(i)
      BY <2>1, UnusedAre, CountGrows
    <3> HIDE DEF before
    <3>5. QED  BY <3>1, <3>2, <3>3, <3>4
  <2>3. num(i) # num(j)
    BY <2>1, <2>2, BareNumbers
  <2>4. \A x \in BareIds(files) : Loaded(files)[x].code = num(x)
    <3> SUFFICES ASSUME NEW x \in BareIds(files) PROVE Loaded(files)[x].code = num(x)
      OBVIOUS
    <3>1. x \in RuleIds /\ RuleText(files, x) \in RuleTexts
      BY RuleTextIs DEF BareIds
    <3>2. Loaded(files)[x] = [RuleText(files, x) EXCEPT !.code = num(x)]
      BY <3>1 DEF Loaded
    <3> HIDE DEF num
    <3>3. QED  BY <3>1, <3>2 DEF RuleTexts
  <2> HIDE DEF num
  <2>5. QED  BY <2>1, <2>3, <2>4
<1>3. CASE RuleText(files, i).code # 0 /\ RuleText(files, j).code # 0
  BY <1>1, <1>3, LoadedIs DEF CodesDiffer
<1>4. \A x, y \in RuleIds : /\ RuleText(files, x) # NoRule /\ RuleText(files, y) # NoRule
                            /\ RuleText(files, x).code = 0 /\ RuleText(files, y).code # 0
                            => Loaded(files)[x].code # Loaded(files)[y].code
  <2> SUFFICES ASSUME NEW x \in RuleIds, NEW y \in RuleIds, RuleText(files, x) # NoRule, RuleText(files, y) # NoRule,
                      RuleText(files, x).code = 0, RuleText(files, y).code # 0
               PROVE  Loaded(files)[x].code # Loaded(files)[y].code
    OBVIOUS
  <2>1. Loaded(files)[x].code \in UnusedCodes(files) /\ Loaded(files)[y].code = RuleText(files, y).code
    BY LoadedIs
  <2>2. RuleText(files, y).code \in UsedCodes(files)
    BY DEF UsedCodes
  <2>3. UnusedCodes(files) \cap UsedCodes(files) = {}
    BY DEF UnusedCodes
  <2>4. QED  BY <2>1, <2>2, <2>3
<1>5. QED  BY <1>1, <1>2, <1>3, <1>4

(* The store and its files.  A file named for an id holds that id; a file  *)
(* of another name is the only one of its id; the store keeps each rule's  *)
(* path as a restart would find it, but for the rule whose deletion failed *)
(* half way; and its memory has the rule's code and switch as that file    *)
(* does, or a code the file lacks, or the file has one that was never      *)
(* compared with the others.                                               *)
NamedForIds(files) == \A n \in FileNames \ {ByHand} : files[n] # NoRule => files[n].id = n[1]
HandAlone(files) == files[ByHand] # NoRule => Holding(files, files[ByHand].id) = {ByHand}
FileCode(id) == \/ RuleText(rrFiles, id).code \in {0, rrRules[id].code}
                \/ <<id, RuleText(rrFiles, id).code>> \in rrGiven
PathKept(id) == \/ rrPaths[id] = LoadedFrom(rrFiles, id)
                \/ id \in rrFailed /\ rrPaths[id] = <<id, "yml">> /\ LoadedFrom(rrFiles, id) = <<id, "yaml">>
MemoryText == \A id \in RuleIds :
    /\ rrRules[id] = NoRule <=> RuleText(rrFiles, id) = NoRule
    /\ rrRules[id] # NoRule => /\ FileCode(id)
                               /\ id \notin rrFailed => RuleText(rrFiles, id).on = rrRules[id].on
StoreTypeOK ==
    /\ rrFiles \in RuleFileTypes
    /\ rrRules \in [RuleIds -> {NoRule} \cup NumberedRules]
    /\ rrPaths \in [RuleIds -> {NoRule} \cup FileNames]
StoreInv ==
    /\ StoreTypeOK
    /\ NamedForIds(rrFiles) /\ HandAlone(rrFiles)
    /\ \A id \in RuleIds : PathKept(id)
    /\ MemoryText
    /\ CodesDistinct

LEMMA FileNamesAre ==
  /\ ByHand \in FileNames
  /\ \A id \in RuleIds : <<id, "yaml">> \in FileNames \ {ByHand} /\ <<id, "yml">> \in FileNames \ {ByHand}
  /\ \A n \in FileNames \ {ByHand} : n[1] \in RuleIds /\ n \in {<<n[1], "yaml">>, <<n[1], "yml">>}
  BY NoRuleAssumption DEF FileNames

(* A rule's own files hold nothing but it, and nothing else holds it.      *)
LEMMA OwnFiles ==
  ASSUME StoreInv, NEW id \in RuleIds
  PROVE  /\ Holding(rrFiles, id) \subseteq RulePaths(id)
         /\ RulePaths(id) \subseteq FileNames /\ RuleFilePath(id) \in RulePaths(id)
         /\ \A n \in RulePaths(id) : rrFiles[n] # NoRule => rrFiles[n].id = id
         /\ ByHand \in RulePaths(id) => rrPaths[id] = ByHand /\ RuleFilePath(id) = ByHand
<1>1. /\ rrFiles \in RuleFileTypes /\ rrPaths[id] \in {NoRule} \cup FileNames /\ PathKept(id)
      /\ NamedForIds(rrFiles) /\ HandAlone(rrFiles) /\ NoRule \notin FileNames
  BY NoRuleIs DEF StoreInv, StoreTypeOK
<1>2. RulePaths(id) \subseteq FileNames /\ RuleFilePath(id) \in RulePaths(id)
  BY <1>1, FileNamesAre DEF RulePaths, RuleFilePath
<1>3. ByHand \in RulePaths(id) => rrPaths[id] = ByHand /\ RuleFilePath(id) = ByHand
  BY <1>1, FileNamesAre DEF RulePaths, RuleFilePath
<1>4. ASSUME NEW n \in RulePaths(id), rrFiles[n] # NoRule PROVE rrFiles[n].id = id
  <2>1. CASE n = rrPaths[id] /\ rrPaths[id] = LoadedFrom(rrFiles, id)
    <3>1. n # NoRule
      BY <1>1, <1>2
    <3>2. QED  BY <1>1, <2>1, <3>1, LoadedFromIs
  <2>2. CASE n # rrPaths[id] \/ rrPaths[id] # LoadedFrom(rrFiles, id)
    <3>1. n \in {<<id, "yaml">>, <<id, "yml">>}
      BY <1>1, <2>2 DEF RulePaths, PathKept
    <3>2. n \in FileNames \ {ByHand} /\ n[1] = id
      BY <3>1, FileNamesAre
    <3>3. QED  BY <1>1, <1>4, <3>2 DEF NamedForIds
  <2>3. QED  BY <2>1, <2>2
<1>5. ASSUME NEW n \in Holding(rrFiles, id) PROVE n \in RulePaths(id)
  <2>1. n \in FileNames /\ rrFiles[n] # NoRule /\ rrFiles[n].id = id
    BY <1>5 DEF Holding
  <2>2. CASE n = ByHand
    <3>1. Holding(rrFiles, id) = {ByHand}
      BY <1>1, <2>1, <2>2 DEF HandAlone
    <3>2. LoadedFrom(rrFiles, id) = ByHand
      BY <1>1, <3>1, LoadedFromIs
    <3>3. rrPaths[id] = ByHand
      BY <1>1, <3>2, FileNamesAre DEF PathKept
    <3>4. QED  BY <1>1, <2>2, <3>3, FileNamesAre DEF RulePaths
  <2>3. CASE n # ByHand
    <3>1. n[1] = id /\ n \in {<<id, "yaml">>, <<id, "yml">>}
      BY <1>1, <2>1, <2>3, FileNamesAre DEF NamedForIds
    <3>2. QED  BY <3>1 DEF RulePaths
  <2>4. QED  BY <2>2, <2>3
<1>6. QED  BY <1>2, <1>3, <1>4, <1>5

(* What a step does to a rule's own files leaves the other rules alone.    *)
LEMMA OthersLeft ==
  ASSUME StoreInv, NEW id \in RuleIds, NEW files \in RuleFileTypes,
         \A n \in FileNames \ RulePaths(id) : files[n] = rrFiles[n],
         \A n \in RulePaths(id) : files[n] # NoRule => files[n].id = id,
         rrPaths[id] = ByHand /\ files[ByHand] # NoRule => Holding(files, id) = {ByHand}
  PROVE  /\ NamedForIds(files) /\ HandAlone(files)
         /\ \A j \in RuleIds \ {id} : LoadedFrom(files, j) = LoadedFrom(rrFiles, j) /\ RuleText(files, j) = RuleText(rrFiles, j)
<1>1. \A j \in RuleIds \ {id} : Holding(files, j) = Holding(rrFiles, j)
  <2> SUFFICES ASSUME NEW j \in RuleIds \ {id}, NEW n \in FileNames
               PROVE  (files[n] # NoRule /\ files[n].id = j) <=> (rrFiles[n] # NoRule /\ rrFiles[n].id = j)
    BY DEF Holding
  <2>1. CASE n \in RulePaths(id)
    BY <2>1, OwnFiles
  <2>2. CASE n \notin RulePaths(id)
    BY <2>2
  <2>3. QED  BY <2>1, <2>2
<1>2. ASSUME NEW j \in RuleIds \ {id} PROVE LoadedFrom(files, j) = LoadedFrom(rrFiles, j)
  <2>1. Holding(files, j) = Holding(rrFiles, j)
    BY <1>1
  <2>2. QED  BY <2>1 DEF LoadedFrom
<1>3. ASSUME NEW j \in RuleIds \ {id} PROVE RuleText(files, j) = RuleText(rrFiles, j)
  <2>1. CASE LoadedFrom(rrFiles, j) = NoRule
    BY <1>2, <2>1 DEF RuleText
  <2>2. CASE LoadedFrom(rrFiles, j) # NoRule
    <3> DEFINE n == LoadedFrom(rrFiles, j)
    <3>1. n \in FileNames /\ rrFiles[n] # NoRule /\ rrFiles[n].id = j
      BY <2>2, LoadedFromIs DEF StoreInv, StoreTypeOK, Holding
    <3>2. n \notin RulePaths(id)
      BY <3>1, OwnFiles
    <3>3. files[n] = rrFiles[n]
      BY <3>1, <3>2
    <3>4. QED  BY <1>2, <2>2, <3>3 DEF RuleText
  <2>3. QED  BY <2>1, <2>2
<1>4. NamedForIds(files)
  <2> SUFFICES ASSUME NEW n \in FileNames \ {ByHand}, files[n] # NoRule PROVE files[n].id = n[1]
    BY DEF NamedForIds
  <2>1. CASE n \in RulePaths(id)
    <3>1. n \in {<<id, "yaml">>, <<id, "yml">>} \/ (n = rrPaths[id] /\ n = LoadedFrom(rrFiles, id) /\ n # NoRule)
      BY <2>1, NoRuleIs DEF RulePaths, StoreInv, PathKept
    <3>2. n[1] = id
      <4>1. CASE n \in {<<id, "yaml">>, <<id, "yml">>}
        BY <4>1
      <4>2. CASE n = LoadedFrom(rrFiles, id) /\ n # NoRule
        <5>1. n \in Holding(rrFiles, id)
          BY <4>2, LoadedFromIs DEF StoreInv, StoreTypeOK
        <5>2. QED  BY <5>1 DEF Holding, StoreInv, NamedForIds
      <4>3. QED  BY <3>1, <4>1, <4>2
    <3>3. QED  BY <2>1, <3>2
  <2>2. CASE n \notin RulePaths(id)
    BY <2>2 DEF StoreInv, NamedForIds
  <2>3. QED  BY <2>1, <2>2
<1>5. HandAlone(files)
  <2> SUFFICES ASSUME files[ByHand] # NoRule PROVE Holding(files, files[ByHand].id) = {ByHand}
    BY DEF HandAlone
  <2>1. CASE ByHand \in RulePaths(id)
    BY <2>1, OwnFiles
  <2>2. CASE ByHand \notin RulePaths(id)
    <3>1. files[ByHand] = rrFiles[ByHand]
      BY <2>2, FileNamesAre
    <3>2. rrFiles[ByHand].id \in RuleIds
      BY <3>1, FileNamesAre DEF StoreInv, StoreTypeOK, RuleFileTypes
    <3>3. rrFiles[ByHand].id # id
      <4>1. ByHand \in Holding(rrFiles, rrFiles[ByHand].id)
        BY <3>1, FileNamesAre DEF Holding
      <4>2. QED  BY <2>2, <4>1, OwnFiles
    <3>4. Holding(rrFiles, rrFiles[ByHand].id) = {ByHand}
      BY <3>1 DEF StoreInv, HandAlone
    <3>5. QED  BY <1>1, <3>1, <3>2, <3>3, <3>4
  <2>3. QED  BY <2>1, <2>2
<1>6. QED  BY <1>2, <1>3, <1>4, <1>5

(* One rule of a step's own: its file and its memory.                      *)
CodeApart(id) == \A j \in RuleIds \ {id} : rrRules[j] # NoRule /\ rrRules[j].code = rrRules[id].code
    => <<id, rrRules[id].code>> \in rrGiven \/ <<j, rrRules[j].code>> \in rrGiven

LEMMA RuleStep ==
  ASSUME StoreInv, NEW id \in RuleIds, rrFiles' \in RuleFileTypes, rrRules' \in [RuleIds -> {NoRule} \cup NumberedRules],
         rrPaths' \in [RuleIds -> {NoRule} \cup FileNames],
         \A n \in FileNames \ RulePaths(id) : rrFiles'[n] = rrFiles[n],
         \A n \in RulePaths(id) : rrFiles'[n] # NoRule => rrFiles'[n].id = id,
         rrPaths[id] = ByHand /\ rrFiles'[ByHand] # NoRule => Holding(rrFiles', id) = {ByHand},
         \A j \in RuleIds \ {id} : rrRules'[j] = rrRules[j] /\ rrPaths'[j] = rrPaths[j] /\ (j \in rrFailed => j \in rrFailed'),
         \A g \in rrGiven : g[1] # id => g \in rrGiven',
         PathKept(id)',
         rrRules'[id] = NoRule <=> RuleText(rrFiles', id) = NoRule,
         rrRules'[id] # NoRule => /\ FileCode(id)'
                                  /\ id \notin rrFailed' => RuleText(rrFiles', id).on = rrRules'[id].on
                                  /\ CodeApart(id)'
  PROVE  StoreInv'
<1>1. PICK files : files = rrFiles'
  OBVIOUS
<1>2. /\ files \in RuleFileTypes
      /\ \A n \in FileNames \ RulePaths(id) : files[n] = rrFiles[n]
      /\ \A n \in RulePaths(id) : files[n] # NoRule => files[n].id = id
      /\ rrPaths[id] = ByHand /\ files[ByHand] # NoRule => Holding(files, id) = {ByHand}
  BY <1>1
<1>3. /\ NamedForIds(files) /\ HandAlone(files)
      /\ \A j \in RuleIds \ {id} : LoadedFrom(files, j) = LoadedFrom(rrFiles, j) /\ RuleText(files, j) = RuleText(rrFiles, j)
  BY <1>2, OthersLeft
<1>4. StoreTypeOK' /\ NamedForIds(rrFiles') /\ HandAlone(rrFiles')
  BY <1>1, <1>3 DEF StoreTypeOK
<1>5. ASSUME NEW j \in RuleIds PROVE PathKept(j)'
  <2>1. CASE j = id
    BY <2>1
  <2>2. CASE j # id
    <3>1. rrPaths'[j] = rrPaths[j] /\ LoadedFrom(rrFiles', j) = LoadedFrom(rrFiles, j) /\ (j \in rrFailed => j \in rrFailed')
      BY <1>1, <1>3, <2>2
    <3>2. PathKept(j)
      BY DEF StoreInv
    <3>3. QED  BY <3>1, <3>2 DEF PathKept
  <2>3. QED  BY <2>1, <2>2
<1>6. MemoryText'
  <2>1. ASSUME NEW j \in RuleIds
        PROVE  /\ rrRules'[j] = NoRule <=> RuleText(rrFiles', j) = NoRule
               /\ rrRules'[j] # NoRule => /\ FileCode(j)'
                                          /\ j \notin rrFailed' => RuleText(rrFiles', j).on = rrRules'[j].on
    <3>1. CASE j = id
      BY <3>1, Zenon
    <3>2. CASE j # id
      <4>1. /\ rrRules'[j] = rrRules[j] /\ RuleText(rrFiles', j) = RuleText(rrFiles, j)
            /\ j \notin rrFailed' => j \notin rrFailed
        BY <1>1, <1>3, <3>2
      <4>2. /\ rrRules[j] = NoRule <=> RuleText(rrFiles, j) = NoRule
            /\ rrRules[j] # NoRule => /\ FileCode(j)
                                      /\ j \notin rrFailed => RuleText(rrFiles, j).on = rrRules[j].on
        BY DEF StoreInv, MemoryText
      <4>3. \A c : <<j, c>> \in rrGiven => <<j, c>> \in rrGiven'
        BY <3>2
      <4>4. FileCode(j) => FileCode(j)'
        BY <4>1, <4>3 DEF FileCode
      <4>5. QED  BY <4>1, <4>2, <4>4
    <3>3. QED  BY <3>1, <3>2
  <2>2. QED  BY <2>1 DEF MemoryText
<1>7. CodesDistinct'
  <2> SUFFICES ASSUME NEW i \in RuleIds, NEW j \in RuleIds, i # j, rrRules'[i] # NoRule, rrRules'[j] # NoRule,
                      rrRules'[i].code = rrRules'[j].code
               PROVE  <<i, rrRules'[i].code>> \in rrGiven' \/ <<j, rrRules'[j].code>> \in rrGiven'
    BY DEF CodesDistinct
  <2>1. CASE i # id /\ j # id
    <3>1. rrRules'[i] = rrRules[i] /\ rrRules'[j] = rrRules[j]
      BY <2>1
    <3>2. <<i, rrRules[i].code>> \in rrGiven \/ <<j, rrRules[j].code>> \in rrGiven
      BY <3>1 DEF StoreInv, CodesDistinct
    <3>3. \A c : (<<i, c>> \in rrGiven => <<i, c>> \in rrGiven') /\ (<<j, c>> \in rrGiven => <<j, c>> \in rrGiven')
      BY <2>1
    <3>4. QED  BY <3>1, <3>2, <3>3
  <2>2. CASE i = id
    BY <2>2 DEF CodeApart
  <2>4. CASE j = id
    BY <2>4 DEF CodeApart
  <2>3. QED  BY <2>1, <2>2, <2>4
<1>8. QED  BY <1>4, <1>5, <1>6, <1>7 DEF StoreInv

(* A code a rule may be written with.                                      *)
CodeFor(id, code) ==
    \/ <<id, code>> \in rrGiven'
    \/ \A j \in RuleIds \ {id} : rrRules[j] # NoRule /\ rrRules[j].code = code
          => <<id, code>> \in rrGiven \/ <<j, code>> \in rrGiven

LEMMA WriteKeeps ==
  ASSUME StoreInv, NEW id \in RuleIds, NEW rule \in NumberedRules, WriteRule(id, rule), rrGiven \subseteq rrGiven',
         CodeFor(id, rule.code)
  PROVE  StoreInv'
<1> DEFINE path == RuleFilePath(id)
           text == [id |-> id, rule |-> rule]
<1>1. path \in FileNames /\ path \in RulePaths(id) /\ RulePaths(id) \subseteq FileNames
  BY OwnFiles
<1>2. rule \in RuleTexts /\ text \in [id : RuleIds, rule : RuleTexts] /\ text # NoRule /\ rule # NoRule
  BY NoRuleIs DEF NumberedRules, RuleTexts
<1>3. \A n \in FileNames : rrFiles'[n] = IF n = path THEN text ELSE IF n \in RulePaths(id) THEN NoRule ELSE rrFiles[n]
  BY DEF WriteRule
<1>4. rrFiles' \in RuleFileTypes
  <2>1. rrFiles' = [n \in FileNames |-> rrFiles'[n]]
    BY DEF WriteRule
  <2>2. \A n \in FileNames : rrFiles'[n] \in {NoRule} \cup [id : RuleIds, rule : RuleTexts]
    BY <1>2, <1>3 DEF StoreInv, StoreTypeOK, RuleFileTypes
  <2>3. QED  BY <2>1, <2>2 DEF RuleFileTypes
<1> HIDE DEF text
<1>5. text.id = id /\ text.rule = rule
  BY DEF text
<1>6. Holding(rrFiles', id) = {path}
  BY <1>1, <1>2, <1>3, <1>5, OwnFiles DEF Holding
<1>7. LoadedFrom(rrFiles', id) = path
  <2>1. PICK files \in RuleFileTypes : files = rrFiles'
    BY <1>4
  <2>2. Holding(files, id) = {path}
    BY <1>6, <2>1
  <2>3. LoadedFrom(files, id) = path
    BY <2>2, LoadedFromIs
  <2>4. QED  BY <2>1, <2>3
<1>8. RuleText(rrFiles', id) = rule
  <2>1. path # NoRule
    BY <1>1, NoRuleIs
  <2>2. rrFiles'[path].rule = rule
    BY <1>1, <1>3, <1>5
  <2> HIDE DEF path
  <2>3. QED  BY <1>7, <2>1, <2>2 DEF RuleText
<1> HIDE DEF path
<1>9. /\ rrRules' \in [RuleIds -> {NoRule} \cup NumberedRules] /\ rrPaths' \in [RuleIds -> {NoRule} \cup FileNames]
      /\ rrRules'[id] = rule /\ rrPaths'[id] = path
      /\ \A j \in RuleIds \ {id} : rrRules'[j] = rrRules[j] /\ rrPaths'[j] = rrPaths[j]
  BY <1>1 DEF WriteRule, StoreInv, StoreTypeOK, path
<1>10. \A n \in FileNames \ RulePaths(id) : rrFiles'[n] = rrFiles[n]
  BY <1>1, <1>3
<1>11. \A n \in RulePaths(id) : rrFiles'[n] # NoRule => rrFiles'[n].id = id
  BY <1>1, <1>3, <1>5
<1>12. rrPaths[id] = ByHand /\ rrFiles'[ByHand] # NoRule => Holding(rrFiles', id) = {ByHand}
  BY <1>6, FileNamesAre, NoRuleIs DEF RuleFilePath, path
<1>13. PathKept(id)'
  BY <1>7, <1>9 DEF PathKept
<1>14. FileCode(id)' /\ RuleText(rrFiles', id).on = rrRules'[id].on
  BY <1>8, <1>9 DEF FileCode
<1>15. CodeApart(id)'
  BY <1>9 DEF CodeApart, CodeFor
<1>16. (\A j \in RuleIds \ {id} : j \in rrFailed => j \in rrFailed') /\ (\A g \in rrGiven : g[1] # id => g \in rrGiven')
  BY DEF WriteRule
<1>17. QED  BY <1>2, <1>4, <1>8, <1>9, <1>10, <1>11, <1>12, <1>13, <1>14, <1>15, <1>16, RuleStep

(* The files of an id, and which of them a restart reads.                  *)
LEMMA ListedLastIs ==
  ASSUME NEW files \in RuleFileTypes, NEW id \in RuleIds, <<id, "yml">> \in Holding(files, id)
  PROVE  LoadedFrom(files, id) = <<id, "yml">>
  BY DEF LoadedFrom, ListedLast

LEMMA OwnPathIs ==
  ASSUME StoreInv, NEW id \in RuleIds, rrRules[id] # NoRule
  PROVE  /\ LoadedFrom(rrFiles, id) \in Holding(rrFiles, id) /\ RuleFilePath(id) = rrPaths[id]
         /\ rrPaths[id] \in FileNames
<1>1. LoadedFrom(rrFiles, id) # NoRule /\ rrFiles \in RuleFileTypes /\ PathKept(id)
  BY RuleTextIs DEF StoreInv, StoreTypeOK, MemoryText
<1>2. LoadedFrom(rrFiles, id) \in Holding(rrFiles, id) /\ LoadedFrom(rrFiles, id) \in FileNames
  BY <1>1, LoadedFromIs
<1>3. rrPaths[id] \in FileNames /\ rrPaths[id] # NoRule
  BY <1>1, <1>2, FileNamesAre, NoRuleIs DEF PathKept
<1>4. QED  BY <1>2, <1>3 DEF RuleFilePath

LEMMA CleanupFailsKeeps ==
  ASSUME StoreInv, NEW id \in RuleIds, rrRules[id] # NoRule, NEW rule \in NumberedRules,
         rule.code = rrRules[id].code \/ <<id, rule.code>> \in rrGiven', rrGiven \subseteq rrGiven',
         CleanupFails(id, rule), UNCHANGED <<rrPaths, rrRules>>
  PROVE  StoreInv'
<1> DEFINE path == RuleFilePath(id)
           text == [id |-> id, rule |-> rule]
<1>1. RuleText(rrFiles, id) # NoRule /\ LoadedFrom(rrFiles, id) \in Holding(rrFiles, id) /\ PathKept(id)
      /\ rrFiles \in RuleFileTypes
  BY OwnPathIs DEF StoreInv, StoreTypeOK, MemoryText
<1>2. path = rrPaths[id] /\ path \in FileNames /\ path \in RulePaths(id)
  BY OwnPathIs, OwnFiles
<1>3. rule \in RuleTexts /\ text \in [id : RuleIds, rule : RuleTexts] /\ text # NoRule /\ rule # NoRule
  BY NoRuleIs DEF NumberedRules, RuleTexts
<1>4. rrFiles' = [rrFiles EXCEPT ![path] = text] /\ rrFailed' = rrFailed \cup {id}
  BY DEF CleanupFails
<1>5. text.id = id /\ text.rule = rule
  OBVIOUS
<1> HIDE DEF text, path
<1>6. rrFiles' \in RuleFileTypes /\ \A n \in FileNames : rrFiles'[n] = IF n = path THEN text ELSE rrFiles[n]
  BY <1>1, <1>2, <1>3, <1>4 DEF RuleFileTypes
<1>7. Holding(rrFiles', id) = Holding(rrFiles, id) \cup {path}
  BY <1>2, <1>3, <1>5, <1>6 DEF Holding
<1>8. LoadedFrom(rrFiles', id) = path
  <2>1. CASE path = LoadedFrom(rrFiles, id)
    <3>1. Holding(rrFiles', id) = Holding(rrFiles, id)
      BY <1>1, <1>7, <2>1
    <3>2. QED  BY <2>1, <3>1 DEF LoadedFrom
  <2>2. CASE path = <<id, "yml">>
    <3>1. PICK files \in RuleFileTypes : files = rrFiles'
      BY <1>6
    <3>2. <<id, "yml">> \in Holding(files, id)
      BY <1>7, <2>2, <3>1
    <3>3. LoadedFrom(files, id) = path
      BY <2>2, <3>2, ListedLastIs
    <3>4. QED  BY <3>1, <3>3
  <2>3. QED  BY <1>1, <1>2, <2>1, <2>2 DEF PathKept
<1>9. RuleText(rrFiles', id) = rule
  <2>1. path # NoRule /\ rrFiles'[path].rule = rule
    BY <1>2, <1>5, <1>6, NoRuleIs
  <2>2. QED  BY <1>8, <2>1 DEF RuleText
<1>10. \A n \in FileNames \ RulePaths(id) : rrFiles'[n] = rrFiles[n]
  BY <1>2, <1>6
<1>11. \A n \in RulePaths(id) : rrFiles'[n] # NoRule => rrFiles'[n].id = id
  BY <1>5, <1>6, OwnFiles
<1>12. rrPaths[id] = ByHand => Holding(rrFiles', id) = {ByHand}
  <2> SUFFICES ASSUME rrPaths[id] = ByHand PROVE Holding(rrFiles, id) = {ByHand}
    BY <1>2, <1>7
  <2>1. ByHand \in Holding(rrFiles, id)
    BY <1>1, FileNamesAre DEF PathKept
  <2>2. QED  BY <2>1 DEF Holding, StoreInv, HandAlone
<1>13. /\ rrRules' \in [RuleIds -> {NoRule} \cup NumberedRules] /\ rrPaths' \in [RuleIds -> {NoRule} \cup FileNames]
       /\ PathKept(id)' /\ rrRules'[id] = rrRules[id] /\ id \in rrFailed'
       /\ \A j \in RuleIds \ {id} : rrRules'[j] = rrRules[j] /\ rrPaths'[j] = rrPaths[j] /\ (j \in rrFailed => j \in rrFailed')
       /\ \A g \in rrGiven : g[1] # id => g \in rrGiven'
  BY <1>2, <1>4, <1>8 DEF StoreInv, StoreTypeOK, PathKept
<1>14. CodeApart(id)'
  BY DEF StoreInv, CodesDistinct, CodeApart
<1>15. FileCode(id)'
  BY <1>9, <1>13 DEF FileCode
<1>16. QED  BY <1>3, <1>6, <1>9, <1>10, <1>11, <1>12, <1>13, <1>14, <1>15, RuleStep

(* A deletion that fails half way leaves one other file of the rule's, and *)
(* its memory.                                                             *)
LEMMA DeletionFailsKeeps ==
  ASSUME StoreInv, NEW id \in RuleIds, rrRules[id] # NoRule, OtherFiles(id) # {},
         rrFiles' = [rrFiles EXCEPT ![RuleFilePath(id)] = NoRule], rrFailed' = rrFailed \cup {id},
         rrGiven' = rrGiven \cup {<<id, rrFiles[n].rule.code>> : n \in OtherFiles(id)},
         UNCHANGED <<rrPaths, rrRules>>
  PROVE  StoreInv'
<1> DEFINE yml == <<id, "yml">>
           yaml == <<id, "yaml">>
<1>1. /\ rrFiles \in RuleFileTypes /\ PathKept(id) /\ NamedForIds(rrFiles) /\ HandAlone(rrFiles)
      /\ LoadedFrom(rrFiles, id) \in Holding(rrFiles, id) /\ RuleFilePath(id) = rrPaths[id]
      /\ rrPaths[id] \in RulePaths(id) /\ RulePaths(id) \subseteq FileNames
  BY OwnPathIs, OwnFiles DEF StoreInv, StoreTypeOK
<1>2. PICK other \in Holding(rrFiles, id) : other \in RulePaths(id) /\ other # rrPaths[id]
  BY <1>1 DEF OtherFiles
<1>3. ByHand \notin Holding(rrFiles, id)
  <2> SUFFICES ASSUME ByHand \in Holding(rrFiles, id) PROVE FALSE
    OBVIOUS
  <2>1. Holding(rrFiles, id) = {ByHand}
    BY <1>1 DEF HandAlone, Holding
  <2>2. rrPaths[id] = ByHand
    BY <1>1, <2>1, FileNamesAre DEF PathKept
  <2>3. QED  BY <1>2, <2>1, <2>2
<1>4. Holding(rrFiles, id) \subseteq {yaml, yml}
  <2> SUFFICES ASSUME NEW n \in Holding(rrFiles, id) PROVE n \in {yaml, yml}
    OBVIOUS
  <2>1. n \in FileNames \ {ByHand} /\ rrFiles[n] # NoRule /\ rrFiles[n].id = id
    BY <1>3 DEF Holding
  <2>2. n[1] = id
    BY <1>1, <2>1 DEF NamedForIds
  <2>3. QED  BY <2>1, <2>2, FileNamesAre
<1>5. rrPaths[id] = yml /\ other = yaml
  <2>1. CASE rrPaths[id] = LoadedFrom(rrFiles, id)
    <3>1. rrPaths[id] \in {yaml, yml} /\ other \in {yaml, yml}
      BY <1>1, <1>2, <1>4, <2>1
    <3>2. yml \in Holding(rrFiles, id) => LoadedFrom(rrFiles, id) = yml
      BY <1>1, ListedLastIs
    <3>3. QED  BY <1>2, <2>1, <3>1, <3>2
  <2>2. CASE rrPaths[id] = yml
    BY <1>2, <1>4, <2>2
  <2>3. QED  BY <1>1, <2>1, <2>2 DEF PathKept
<1>6. yml # yaml /\ yml \in FileNames /\ yaml \in FileNames /\ yml # ByHand
  BY FileNamesAre
<1> HIDE DEF yml, yaml
<1>7. rrFiles' \in RuleFileTypes /\ \A n \in FileNames : rrFiles'[n] = IF n = yml THEN NoRule ELSE rrFiles[n]
  BY <1>1, <1>5, <1>6 DEF RuleFileTypes
<1>8. Holding(rrFiles', id) = {yaml} /\ rrFiles[yaml] # NoRule /\ yaml \in OtherFiles(id)
  BY <1>1, <1>2, <1>4, <1>5, <1>6, <1>7 DEF Holding, OtherFiles
<1>9. LoadedFrom(rrFiles', id) = yaml
  <2>1. PICK files \in RuleFileTypes : files = rrFiles'
    BY <1>7
  <2>2. Holding(files, id) = {yaml}
    BY <1>8, <2>1
  <2>3. LoadedFrom(files, id) = yaml
    BY <2>2, LoadedFromIs
  <2>4. QED  BY <2>1, <2>3
<1>10. RuleText(rrFiles', id) = rrFiles[yaml].rule /\ RuleText(rrFiles', id) # NoRule
  <2>1. rrFiles'[yaml] = rrFiles[yaml] /\ yaml # NoRule
    BY <1>6, <1>7, NoRuleIs
  <2>2. rrFiles[yaml].rule \in RuleTexts
    BY <1>1, <1>6, <1>8 DEF RuleFileTypes
  <2>3. QED  BY <1>9, <2>1, <2>2, NoRuleIs DEF RuleText
<1>11. FileCode(id)'
  BY <1>8, <1>10 DEF FileCode
<1>12. PathKept(id)'
  BY <1>5, <1>9 DEF PathKept, yml, yaml
<1>13. CodeApart(id)'
  BY DEF StoreInv, CodesDistinct, CodeApart
<1>14. \A n \in FileNames \ RulePaths(id) : rrFiles'[n] = rrFiles[n]
  BY <1>1, <1>5, <1>7
<1>15. \A n \in RulePaths(id) : rrFiles'[n] # NoRule => rrFiles'[n].id = id
  BY <1>1, <1>7, OwnFiles
<1>16. rrPaths[id] # ByHand
  BY <1>5, <1>6
<1>17. /\ rrRules' \in [RuleIds -> {NoRule} \cup NumberedRules] /\ rrPaths' \in [RuleIds -> {NoRule} \cup FileNames]
       /\ rrRules'[id] = rrRules[id] /\ id \in rrFailed'
       /\ \A j \in RuleIds \ {id} : rrRules'[j] = rrRules[j] /\ rrPaths'[j] = rrPaths[j] /\ (j \in rrFailed => j \in rrFailed')
       /\ \A g \in rrGiven : g[1] # id => g \in rrGiven'
  BY DEF StoreInv, StoreTypeOK
<1>18. QED  BY <1>7, <1>10, <1>11, <1>12, <1>13, <1>14, <1>15, <1>16, <1>17, RuleStep

LEMMA DeletedKeeps ==
  ASSUME StoreInv, NEW id \in RuleIds,
         rrFiles' = [n \in FileNames |-> IF n \in RulePaths(id) THEN NoRule ELSE rrFiles[n]],
         rrPaths' = [rrPaths EXCEPT ![id] = NoRule], rrRules' = [rrRules EXCEPT ![id] = NoRule],
         rrFailed' = rrFailed \ {id}, rrGiven' = {g \in rrGiven : g[1] # id}
  PROVE  StoreInv'
<1>1. rrFiles' \in RuleFileTypes
  BY DEF RuleFileTypes, StoreInv, StoreTypeOK
<1>2. \A n \in FileNames : rrFiles'[n] = IF n \in RulePaths(id) THEN NoRule ELSE rrFiles[n]
  OBVIOUS
<1>3. Holding(rrFiles', id) = {}
  BY <1>2, OwnFiles DEF Holding
<1>4. LoadedFrom(rrFiles', id) = NoRule
  BY <1>3 DEF LoadedFrom, ListedLast
<1>5. RuleText(rrFiles', id) = NoRule
  BY <1>4 DEF RuleText
<1>6. /\ rrRules' \in [RuleIds -> {NoRule} \cup NumberedRules] /\ rrPaths' \in [RuleIds -> {NoRule} \cup FileNames]
      /\ rrRules'[id] = NoRule /\ rrPaths'[id] = NoRule
      /\ \A j \in RuleIds \ {id} : rrRules'[j] = rrRules[j] /\ rrPaths'[j] = rrPaths[j] /\ (j \in rrFailed => j \in rrFailed')
  BY DEF StoreInv, StoreTypeOK
<1>7. \A n \in RulePaths(id) : rrFiles'[n] = NoRule
  BY <1>2, OwnFiles
<1>8. rrPaths[id] = ByHand => rrFiles'[ByHand] = NoRule
  BY <1>7, FileNamesAre, NoRuleIs DEF RulePaths
<1>9. \A n \in FileNames \ RulePaths(id) : rrFiles'[n] = rrFiles[n]
  BY <1>2
<1>10. PathKept(id)' /\ \A g \in rrGiven : g[1] # id => g \in rrGiven'
  BY <1>4, <1>6 DEF PathKept
<1>11. QED  BY <1>1, <1>5, <1>6, <1>7, <1>8, <1>9, <1>10, RuleStep

(* A restart.                                                              *)
LEMMA LoadedStore ==
  ASSUME NEW files \in RuleFileTypes, NamedForIds(files), HandAlone(files), CodesDiffer(files),
         rrFiles' = files, rrRules' = Loaded(files), rrPaths' = [id \in RuleIds |-> LoadedFrom(files, id)],
         UNCHANGED rrGiven
  PROVE  StoreInv'
<1>1. StoreTypeOK' /\ \A id \in RuleIds : PathKept(id)'
  BY LoadedIs, LoadedFromIs DEF StoreTypeOK, PathKept
<1>2. MemoryText'
  BY LoadedIs DEF MemoryText, FileCode
<1>3. CodesDistinct'
  BY LoadedDistinct DEF CodesDistinct
<1>4. QED  BY <1>1, <1>2, <1>3 DEF StoreInv

LEMMA FilesDiffer == ASSUME StoreInv PROVE CodesDiffer(rrFiles)
<1> SUFFICES ASSUME NEW i \in RuleIds, NEW j \in RuleIds, i # j, RuleText(rrFiles, i) # NoRule,
                    RuleText(rrFiles, j) # NoRule, RuleText(rrFiles, i).code # 0,
                    RuleText(rrFiles, i).code = RuleText(rrFiles, j).code
             PROVE  \/ <<i, RuleText(rrFiles, i).code>> \in rrGiven
                    \/ <<j, RuleText(rrFiles, j).code>> \in rrGiven
  BY DEF CodesDiffer
<1>1. rrRules[i] # NoRule /\ rrRules[j] # NoRule /\ FileCode(i) /\ FileCode(j)
  BY DEF StoreInv, MemoryText
<1>2. rrRules[i].code = rrRules[j].code =>
        <<i, rrRules[i].code>> \in rrGiven \/ <<j, rrRules[j].code>> \in rrGiven
  BY <1>1 DEF StoreInv, CodesDistinct
<1>3. QED  BY <1>1, <1>2 DEF FileCode

LEMMA NextCodeIs ==
  ASSUME StoreInv
  PROVE  /\ NextUserRuleCode \in Nat \ {0}
         /\ \A j \in RuleIds : rrRules[j] # NoRule => rrRules[j].code # NextUserRuleCode
<1> DEFINE D == {i \in RuleIds : rrRules[i] # NoRule}
           S == RuleCodes(rrRules) \cup {0}
           g == [i \in D |-> rrRules[i].code]
<1>1. IsFiniteSet(D) /\ \A i \in D : rrRules[i].code \in Nat
  BY RiskRulesAssumption, FS_Subset DEF StoreInv, StoreTypeOK, NumberedRules
<1>2. RuleCodes(rrRules) \subseteq Nat
  BY <1>1 DEF RuleCodes
<1>3. IsFiniteSet(RuleCodes(rrRules))
  <2>1. g \in Surjection(D, RuleCodes(rrRules))
    BY DEF Surjection, RuleCodes
  <2>2. QED  BY <1>1, <2>1, FS_Surjection
<1>4. S \subseteq Nat /\ IsFiniteSet(S) /\ S # {}
  BY <1>2, <1>3, FS_AddElement
<1>5. Max(S) \in Nat /\ \A y \in S : y <= Max(S)
  BY <1>4, MaxIs
<1>6. \A j \in RuleIds : rrRules[j] # NoRule => rrRules[j].code \in S
  BY DEF RuleCodes
<1>7. NextUserRuleCode = Max(S) + 1
  BY DEF NextUserRuleCode
<1> HIDE DEF S
<1> DEFINE m == Max(S)
<1>8. m \in Nat /\ NextUserRuleCode = m + 1 /\ \A j \in RuleIds : rrRules[j] # NoRule => rrRules[j].code <= m /\ rrRules[j].code \in Nat
  BY <1>4, <1>5, <1>6, <1>7
<1> HIDE DEF m
<1>9. QED  BY <1>8

(* The calls.  One that is alone has read what the store holds; while none *)
(* crossed another, and none has changed the store since it began, the     *)
(* engine has it too.                                                      *)
ShippedSettings == [ShippedIds -> Settings]
CallRecords ==
    [pc : {"idle", "create", "update", "builtin", "probe", "list", "install"}, alone : BOOLEAN,
     id : {NoRule} \cup RuleIds, on : BOOLEAN, code : Nat, settings : {<<>>} \cup ShippedSettings,
     rules : {<<>>} \cup [RuleIds -> {NoRule} \cup NumberedRules]]
CallNames(r) ==
    /\ r.pc \in {"create", "update"} => r.id \in RuleIds
    /\ r.pc \in {"probe", "list", "install"} => r.settings \in ShippedSettings
CallTypeOK ==
    /\ rrCall \in [RuleCalls -> CallRecords] /\ rrAlone \in BOOLEAN
    /\ rrOverride \in ShippedSettings /\ rrSettings \in ShippedSettings
    /\ \A c \in RuleCalls : CallNames(rrCall[c])
AloneIsAlone == \A c \in RuleCalls : rrCall[c].pc # "idle" /\ rrCall[c].alone
                  => \A d \in RuleCalls \ {c} : rrCall[d].pc = "idle"
AllAlone == rrAlone => \A c \in RuleCalls : rrCall[c].pc # "idle" => rrCall[c].alone
ReadsAre(r, rules, settings) ==
    r.alone => /\ r.pc \in {"probe", "list", "install"} => r.settings = settings
               /\ r.pc = "install" => r.rules = rules
ReadsFollow == \A c \in RuleCalls : ReadsAre(rrCall[c], rrRules, rrSettings)
Quiet == {"idle", "create", "update"}
EngineFresh == rrAlone /\ (\A c \in RuleCalls : rrCall[c].pc \in Quiet)
                 => rrEngine = [rules |-> rrRules, settings |-> rrSettings]
CallInv == CallTypeOK /\ AloneIsAlone /\ AllAlone /\ ReadsFollow /\ EngineFresh

LEMMA NoRuleCallIs == NoRuleCall \in CallRecords /\ CallNames(NoRuleCall) /\ NoRuleCall.pc = "idle"
  BY DEF NoRuleCall, CallRecords, CallNames

LEMMA CallBegins ==
  ASSUME CallInv, NEW c \in RuleCalls, NEW call \in CallRecords, RuleCallBegins(c, call), CallNames(call),
         call.pc \in {"create", "update", "builtin"}, call.pc # "builtin" => UNCHANGED <<rrRules, rrSettings>>,
         UNCHANGED rrEngine, rrOverride' \in ShippedSettings, rrSettings' \in ShippedSettings
  PROVE  CallInv'
<1> DEFINE o == OtherCalls(c)
<1>1. /\ rrCall \in [RuleCalls -> CallRecords] /\ rrCall[c].pc = "idle" /\ rrAlone' = (rrAlone /\ o = {})
      /\ \A d \in RuleCalls : rrCall'[d] = IF d = c THEN [call EXCEPT !.alone = o = {}]
                                           ELSE [rrCall[d] EXCEPT !.alone = rrCall[d].alone /\ d \notin o]
      /\ rrCall' = [d \in RuleCalls |-> rrCall'[d]]
  BY DEF RuleCallBegins, CallInv, CallTypeOK
<1>2. /\ rrCall'[c] \in CallRecords /\ rrCall'[c].pc = call.pc /\ CallNames(rrCall'[c])
      /\ rrCall'[c].alone = (o = {})
  <2>1. PICK b \in BOOLEAN : b = (o = {})
    OBVIOUS
  <2>2. rrCall'[c] = [call EXCEPT !.alone = b]
    BY <1>1, <2>1
  <2> HIDE DEF o
  <2>3. QED  BY <2>1, <2>2 DEF CallRecords, CallNames
<1>3. ASSUME NEW d \in RuleCalls \ {c}
      PROVE  /\ rrCall'[d] \in CallRecords /\ rrCall'[d].pc = rrCall[d].pc /\ CallNames(rrCall'[d])
             /\ rrCall'[d].alone => rrCall[d].pc = "idle" /\ rrCall[d].alone
  <2>1. PICK b \in BOOLEAN : b = (rrCall[d].alone /\ d \notin o)
    BY <1>1 DEF CallRecords
  <2>2. rrCall'[d] = [rrCall[d] EXCEPT !.alone = b]
    BY <1>1, <2>1
  <2>3. rrCall[d] \in CallRecords /\ CallNames(rrCall[d])
    BY <1>1 DEF CallInv, CallTypeOK
  <2>4. b => rrCall[d].alone /\ rrCall[d].pc = "idle"
    BY <2>1 DEF OtherCalls
  <2> HIDE DEF o
  <2>5. QED  BY <2>2, <2>3, <2>4 DEF CallRecords, CallNames
<1>4. CallTypeOK'
  <2>1. \A d \in RuleCalls : rrCall'[d] \in CallRecords /\ CallNames(rrCall'[d])
    BY <1>2, <1>3
  <2>2. rrAlone' \in BOOLEAN
    BY <1>1
  <2>3. QED  BY <1>1, <2>1, <2>2 DEF CallTypeOK
<1>5. o = {} => \A d \in RuleCalls \ {c} : rrCall[d].pc = "idle"
  BY DEF OtherCalls
<1>6. AloneIsAlone'
  BY <1>2, <1>3, <1>5 DEF AloneIsAlone
<1>7. AllAlone'
  BY <1>1, <1>2, <1>3, <1>5 DEF AllAlone
<1>8. ReadsFollow'
  BY <1>2, <1>3 DEF ReadsFollow, ReadsAre
<1>9. EngineFresh'
  <2>1. CASE call.pc = "builtin"
    BY <1>2, <2>1 DEF EngineFresh, Quiet
  <2>2. CASE call.pc # "builtin"
    <3> SUFFICES ASSUME rrAlone' PROVE rrEngine = [rules |-> rrRules, settings |-> rrSettings]
      BY <2>2 DEF EngineFresh
    <3>1. rrAlone /\ \A d \in RuleCalls : rrCall[d].pc = "idle"
      BY <1>1, <1>5
    <3>2. QED  BY <3>1 DEF CallInv, EngineFresh, Quiet
  <2>3. QED  BY <2>1, <2>2
<1>10. QED  BY <1>4, <1>6, <1>7, <1>8, <1>9 DEF CallInv

LEMMA CallMoves ==
  ASSUME CallInv, NEW c \in RuleCalls, rrCall[c].pc # "idle", NEW r \in CallRecords, CallNames(r),
         rrCall' = [rrCall EXCEPT ![c] = r], UNCHANGED <<rrAlone, rrEngine, rrOverride, rrSettings>>,
         r.pc # "idle" => r.alone = rrCall[c].alone,
         ReadsAre(r, rrRules', rrSettings),
         r.pc = "builtin" \/ rrRules' = rrRules,
         r.pc \in Quiet => rrCall[c].pc \in Quiet
  PROVE  CallInv'
<1>1. rrCall \in [RuleCalls -> CallRecords] /\ \A d \in RuleCalls : rrCall'[d] = IF d = c THEN r ELSE rrCall[d]
  BY DEF CallInv, CallTypeOK
<1>2. CallTypeOK'
  BY <1>1 DEF CallInv, CallTypeOK
<1>3. AloneIsAlone' /\ AllAlone'
  BY <1>1 DEF CallInv, AloneIsAlone, AllAlone
<1>4. ReadsFollow'
  <2> SUFFICES ASSUME NEW d \in RuleCalls PROVE ReadsAre(rrCall'[d], rrRules', rrSettings)
    BY DEF ReadsFollow
  <2>1. CASE d = c
    BY <1>1, <2>1
  <2>2. CASE d # c
    <3>1. rrCall'[d] = rrCall[d] /\ ReadsAre(rrCall[d], rrRules, rrSettings)
      BY <1>1, <2>2 DEF CallInv, ReadsFollow
    <3>2. rrCall[d].pc # "idle" => ~rrCall[d].alone
      BY <2>2 DEF CallInv, AloneIsAlone
    <3>3. QED  BY <3>1, <3>2 DEF ReadsAre
  <2>3. QED  BY <2>1, <2>2
<1>5. EngineFresh'
  <2> SUFFICES ASSUME rrAlone, \A d \in RuleCalls : rrCall'[d].pc \in Quiet
               PROVE  rrEngine = [rules |-> rrRules', settings |-> rrSettings]
    BY DEF EngineFresh
  <2>1. r.pc \in Quiet /\ \A d \in RuleCalls : rrCall[d].pc \in Quiet
    BY <1>1
  <2>2. rrRules' = rrRules
    BY <2>1 DEF Quiet
  <2>3. QED  BY <2>1, <2>2 DEF CallInv, EngineFresh
<1>6. QED  BY <1>2, <1>3, <1>4, <1>5 DEF CallInv

RulesInv == StoreInv /\ CallInv

LEMMA StoreLeft == ASSUME StoreInv, UNCHANGED <<rrFiles, rrRules, rrPaths, rrFailed, rrGiven>> PROVE StoreInv'
  BY DEF StoreInv, StoreTypeOK, NamedForIds, HandAlone, MemoryText, CodesDistinct, PathKept, FileCode

LEMMA CallIs ==
  ASSUME CallInv, NEW c \in RuleCalls
  PROVE  /\ rrCall \in [RuleCalls -> CallRecords] /\ rrCall[c] \in CallRecords /\ CallNames(rrCall[c])
         /\ ReadsAre(rrCall[c], rrRules, rrSettings) /\ rrSettings \in ShippedSettings
  BY DEF CallInv, CallTypeOK, ReadsFollow

LEMMA ChangedKeeps ==
  ASSUME CallInv, NEW c \in RuleCalls, rrCall[c].pc # "idle", Changed(c),
         UNCHANGED <<rrOverride, rrSettings, rrEngine, rrAlone>>
  PROVE  CallInv'
<1> DEFINE r == [NoRuleCall EXCEPT !.pc = "builtin", !.alone = rrCall[c].alone]
<1>1. r \in CallRecords /\ CallNames(r) /\ r.pc = "builtin" /\ r.alone = rrCall[c].alone
  BY CallIs DEF NoRuleCall, CallRecords, CallNames
<1>2. rrCall' = [rrCall EXCEPT ![c] = r]
  BY DEF Changed
<1> HIDE DEF r
<1>3. ReadsAre(r, rrRules', rrSettings) /\ r.pc \notin Quiet
  BY <1>1 DEF ReadsAre, Quiet
<1>4. QED  BY <1>1, <1>2, <1>3, CallMoves

LEMMA RefusedKeeps ==
  ASSUME CallInv, NEW c \in RuleCalls, rrCall[c].pc \in {"create", "update"}, RuleRefused(c),
         UNCHANGED <<rrRules, rrOverride, rrSettings, rrEngine, rrAlone>>
  PROVE  CallInv'
<1>1. ReadsAre(NoRuleCall, rrRules', rrSettings)
  BY NoRuleCallIs DEF ReadsAre
<1>2. QED  BY <1>1, NoRuleCallIs, CallMoves DEF RuleRefused, Quiet

LEMMA SetRiskRuleKeeps == ASSUME RulesInv, NEW c \in RuleCalls, SetRiskRule(c) PROVE RulesInv'
<1>1. PICK id \in RuleIds, on \in BOOLEAN, code \in {0} \cup GivenCodes :
        RuleCallBegins(c, [NoRuleCall EXCEPT !.pc = IF rrRules[id] = NoRule THEN "create" ELSE "update",
                              !.id = id, !.on = on, !.code = code])
  BY DEF SetRiskRule
<1>2. PICK at \in {"create", "update"} : at = IF rrRules[id] = NoRule THEN "create" ELSE "update"
  OBVIOUS
<1> DEFINE call == [NoRuleCall EXCEPT !.pc = at, !.id = id, !.on = on, !.code = code]
<1>3. RuleCallBegins(c, call)
  BY <1>1, <1>2
<1>4. code \in Nat
  BY RiskRulesAssumption
<1>5. call \in CallRecords /\ CallNames(call) /\ call.pc \in {"create", "update", "builtin"}
  BY <1>4 DEF NoRuleCall, CallRecords, CallNames
<1> HIDE DEF call
<1>6. CallInv'
  BY <1>3, <1>5, CallBegins DEF RulesInv, SetRiskRule, CallInv, CallTypeOK
<1>7. StoreInv'
  BY StoreLeft DEF RulesInv, SetRiskRule
<1>8. QED  BY <1>6, <1>7 DEF RulesInv

(* A rule is written with the code the caller gave or the one that stands  *)
(* for a blank.                                                            *)
LEMMA GivenCode ==
  ASSUME NEW c \in RuleCalls, rrCall[c].code \in Nat, Gives(c), NEW blank \in Nat \ {0},
         NEW code, code = CodeOr(rrCall[c].code, blank)
  PROVE  /\ rrGiven \subseteq rrGiven' /\ code \in Nat \ {0}
         /\ <<rrCall[c].id, code>> \in rrGiven' \/ code = blank
<1>1. CASE rrCall[c].code = 0
  BY <1>1 DEF Gives, CodeOr
<1>2. CASE rrCall[c].code # 0
  <2>1. code = rrCall[c].code /\ code \in Nat \ {0}
    BY <1>2 DEF CodeOr
  <2>2. <<rrCall[c].id, code>> \in rrGiven'
    BY <2>1 DEF Gives
  <2>3. QED  BY <2>1, <2>2 DEF Gives
<1>3. QED  BY <1>1, <1>2

LEMMA CreateKeeps == ASSUME RulesInv, NEW c \in RuleCalls, Create(c) PROVE RulesInv'
<1> DEFINE id == rrCall[c].id
           code == CodeOr(rrCall[c].code, NextUserRuleCode)
           rule == [code |-> code, on |-> rrCall[c].on]
<1>1. id \in RuleIds /\ rrCall[c].pc = "create" /\ rrCall[c].on \in BOOLEAN /\ rrCall[c].code \in Nat
      /\ UNCHANGED <<rrOverride, rrSettings, rrEngine, rrAlone>>
  BY CallIs DEF Create, RulesInv, CallNames, CallRecords
<1>2. NextUserRuleCode \in Nat \ {0} /\ \A j \in RuleIds : rrRules[j] # NoRule => rrRules[j].code # NextUserRuleCode
  BY NextCodeIs DEF RulesInv
<1>3. CASE WriteRule(id, rule) /\ Gives(c) /\ Changed(c)
  <2>1. rrGiven \subseteq rrGiven' /\ code \in Nat \ {0} /\ (<<id, code>> \in rrGiven' \/ code = NextUserRuleCode)
    BY <1>1, <1>2, <1>3, GivenCode
  <2> HIDE DEF id, code
  <2>2. rule \in NumberedRules /\ rule.code = code
    BY <1>1, <2>1 DEF NumberedRules
  <2>3. CodeFor(id, code)
    BY <1>2, <2>1 DEF CodeFor
  <2> HIDE DEF rule
  <2>4. StoreInv'
    BY <1>1, <1>3, <2>1, <2>2, <2>3, WriteKeeps DEF RulesInv
  <2>5. CallInv'
    BY <1>1, <1>3, ChangedKeeps DEF RulesInv
  <2>6. QED  BY <2>4, <2>5 DEF RulesInv
<1>4. CASE RuleRefused(c) /\ UNCHANGED <<rrFiles, rrPaths, rrRules, rrFailed, rrGiven, rrLeft>>
  BY <1>1, <1>4, RefusedKeeps, StoreLeft DEF RulesInv
<1>5. QED  BY <1>3, <1>4 DEF Create

LEMMA UpdateKeeps == ASSUME RulesInv, NEW c \in RuleCalls, Update(c) PROVE RulesInv'
<1> DEFINE id == rrCall[c].id
           old == rrRules[id].code
           code == CodeOr(rrCall[c].code, old)
           rule == [code |-> code, on |-> rrCall[c].on]
<1>1. id \in RuleIds /\ rrCall[c].pc = "update" /\ rrCall[c].on \in BOOLEAN /\ rrCall[c].code \in Nat
      /\ UNCHANGED <<rrOverride, rrSettings, rrEngine, rrAlone>>
  BY CallIs DEF Update, RulesInv, CallNames, CallRecords
<1>2. ASSUME rrRules[id] # NoRule, Gives(c)
      PROVE  /\ rrGiven \subseteq rrGiven' /\ (code = old \/ <<id, code>> \in rrGiven')
             /\ rule \in NumberedRules /\ rule.code = code /\ CodeFor(id, code)
  <2>1. old \in Nat \ {0}
    BY <1>1, <1>2 DEF RulesInv, StoreInv, StoreTypeOK, NumberedRules
  <2>2. \A j \in RuleIds \ {id} : rrRules[j] # NoRule /\ rrRules[j].code = old
          => <<id, old>> \in rrGiven \/ <<j, old>> \in rrGiven
    BY <1>1, <1>2 DEF RulesInv, StoreInv, CodesDistinct
  <2>3. rrGiven \subseteq rrGiven' /\ code \in Nat \ {0} /\ (<<id, code>> \in rrGiven' \/ code = old)
    BY <1>1, <1>2, <2>1, GivenCode
  <2> HIDE DEF id, old, code
  <2>4. CodeFor(id, code)
    BY <2>2, <2>3 DEF CodeFor
  <2>5. QED  BY <1>1, <2>3, <2>4 DEF NumberedRules
<1>3. CASE rrRules[id] # NoRule /\ WriteRule(id, rule) /\ Gives(c) /\ Changed(c)
  <2> HIDE DEF id, rule, code, old
  <2>1. StoreInv'
    BY <1>1, <1>2, <1>3, WriteKeeps DEF RulesInv
  <2>2. CallInv'
    BY <1>1, <1>3, ChangedKeeps DEF RulesInv
  <2>3. QED  BY <2>1, <2>2 DEF RulesInv
<1>4. CASE /\ rrRules[id] # NoRule /\ CleanupFails(id, rule) /\ Gives(c) /\ RuleRefused(c)
           /\ UNCHANGED <<rrPaths, rrRules, rrLeft>>
  <2>1. rule.code = rrRules[id].code \/ <<id, rule.code>> \in rrGiven'
    BY <1>2, <1>4
  <2> HIDE DEF id, rule, code, old
  <2>2. StoreInv'
    BY <1>1, <1>2, <1>4, <2>1, CleanupFailsKeeps DEF RulesInv
  <2>3. CallInv'
    BY <1>1, <1>4, RefusedKeeps DEF RulesInv
  <2>4. QED  BY <2>2, <2>3 DEF RulesInv
<1>5. CASE RuleRefused(c) /\ UNCHANGED <<rrFiles, rrPaths, rrRules, rrFailed, rrGiven, rrLeft>>
  BY <1>1, <1>5, RefusedKeeps, StoreLeft DEF RulesInv
<1>6. QED  BY <1>3, <1>4, <1>5 DEF Update

LEMMA ReloadCall ==
  [NoRuleCall EXCEPT !.pc = "builtin"] \in CallRecords /\ CallNames([NoRuleCall EXCEPT !.pc = "builtin"])
    /\ [NoRuleCall EXCEPT !.pc = "builtin"].pc = "builtin"
  BY DEF NoRuleCall, CallRecords, CallNames

LEMMA DeleteRuleKeeps == ASSUME RulesInv, NEW c \in RuleCalls, DeleteRiskRule(c) PROVE RulesInv'
<1>1. PICK id \in RuleIds :
        /\ RuleCallBegins(c, [NoRuleCall EXCEPT !.pc = "builtin"])
        /\ rrFiles' = [n \in FileNames |-> IF n \in RulePaths(id) THEN NoRule ELSE rrFiles[n]]
        /\ rrPaths' = [rrPaths EXCEPT ![id] = NoRule]
        /\ rrRules' = [rrRules EXCEPT ![id] = NoRule]
        /\ rrFailed' = rrFailed \ {id} /\ rrGiven' = {g \in rrGiven : g[1] # id}
  BY DEF DeleteRiskRule
<1>2. StoreInv'
  BY <1>1, DeletedKeeps DEF RulesInv
<1>3. CallInv'
  BY <1>1, ReloadCall, CallBegins DEF RulesInv, DeleteRiskRule, CallInv, CallTypeOK
<1>4. QED  BY <1>2, <1>3 DEF RulesInv

LEMMA DeletionKeeps == ASSUME RulesInv, NEW c \in RuleCalls, DeletionFails(c) PROVE RulesInv'
<1>1. PICK id \in RuleIds :
        /\ rrRules[id] # NoRule /\ OtherFiles(id) # {}
        /\ rrFiles' = [rrFiles EXCEPT ![RuleFilePath(id)] = NoRule] /\ rrFailed' = rrFailed \cup {id}
        /\ rrGiven' = rrGiven \cup {<<id, rrFiles[n].rule.code>> : n \in OtherFiles(id)}
  BY DEF DeletionFails
<1>2. UNCHANGED <<rrOverride, rrRules, rrPaths, rrSettings, rrEngine, rrCall, rrAlone, rrLeft>>
  BY DEF DeletionFails
<1>3. StoreInv'
  BY <1>1, <1>2, DeletionFailsKeeps DEF RulesInv
<1>4. CallInv'
  BY <1>2 DEF RulesInv, CallInv, CallTypeOK, AloneIsAlone, AllAlone, ReadsFollow, EngineFresh
<1>5. QED  BY <1>3, <1>4 DEF RulesInv

LEMMA SetBuiltinKeeps == ASSUME RulesInv, NEW c \in RuleCalls, SetBuiltin(c) PROVE RulesInv'
<1>1. PICK s \in ShippedIds, v \in Settings : /\ rrOverride' = [rrOverride EXCEPT ![s] = v]
                                             /\ rrSettings' = [rrSettings EXCEPT ![s] = v]
  BY DEF SetBuiltin
<1>2. rrOverride' \in ShippedSettings /\ rrSettings' \in ShippedSettings
  BY <1>1 DEF RulesInv, CallInv, CallTypeOK, ShippedSettings
<1>3. CallInv'
  BY <1>2, ReloadCall, CallBegins DEF RulesInv, SetBuiltin
<1>4. StoreInv'
  BY StoreLeft DEF RulesInv, SetBuiltin
<1>5. QED  BY <1>3, <1>4 DEF RulesInv

LEMMA LoadKeeps == ASSUME RulesInv, NEW c \in RuleCalls, Load(c) PROVE RulesInv'
<1>1. StoreInv'
  BY LoadedStore, FilesDiffer DEF RulesInv, Load, StoreInv, StoreTypeOK
<1>2. CallInv'
  BY ReloadCall, CallBegins DEF RulesInv, Load, CallInv, CallTypeOK
<1>3. QED  BY <1>1, <1>2 DEF RulesInv

LEMMA ReadsKeep == ASSUME RulesInv, NEW c \in RuleCalls, ReadsBuiltin(c) \/ ReadsProbe(c) \/ ReadsList(c) PROVE RulesInv'
<1>1. rrCall[c] \in CallRecords /\ CallNames(rrCall[c]) /\ ReadsAre(rrCall[c], rrRules, rrSettings)
      /\ rrSettings \in ShippedSettings /\ rrRules \in [RuleIds -> {NoRule} \cup NumberedRules]
      /\ rrCall \in [RuleCalls -> CallRecords] /\ "probe" \in ShippedIds
  BY CallIs, RiskRulesAssumption DEF RulesInv, StoreInv, StoreTypeOK
<1>2. UNCHANGED <<rrFiles, rrOverride, rrRules, rrPaths, rrSettings, rrEngine, rrFailed, rrGiven, rrAlone, rrLeft>>
  BY DEF ReadsBuiltin, ReadsProbe, ReadsList
<1>3. \E r \in CallRecords :
        /\ CallNames(r) /\ rrCall' = [rrCall EXCEPT ![c] = r] /\ r.alone = rrCall[c].alone
        /\ r.pc \in {"probe", "list", "install"} /\ rrCall[c].pc # "idle"
        /\ ReadsAre(r, rrRules, rrSettings)
  <2>1. CASE ReadsBuiltin(c)
    <3> DEFINE r == [rrCall[c] EXCEPT !.pc = "probe", !.settings = rrSettings]
    <3>1. rrCall' = [rrCall EXCEPT ![c] = r]
      BY <1>1, <2>1 DEF ReadsBuiltin
    <3>2. r \in CallRecords /\ CallNames(r) /\ r.alone = rrCall[c].alone /\ r.pc = "probe" /\ r.settings = rrSettings
      BY <1>1 DEF CallRecords, CallNames
    <3> HIDE DEF r
    <3>3. QED  BY <2>1, <3>1, <3>2 DEF ReadsAre, ReadsBuiltin
  <2>2. CASE ReadsProbe(c)
    <3>1. rrCall[c].pc = "probe" /\ rrCall[c].settings \in ShippedSettings
      BY <1>1, <2>2 DEF CallNames, ReadsProbe
    <3> DEFINE read == [rrCall[c].settings EXCEPT !["probe"] = rrSettings["probe"]]
               r == [rrCall[c] EXCEPT !.pc = "list", !.settings = read]
    <3>2. rrCall' = [rrCall EXCEPT ![c] = r]
      BY <1>1, <2>2 DEF ReadsProbe
    <3>3. read \in ShippedSettings /\ (rrCall[c].settings = rrSettings => read = rrSettings)
      BY <1>1, <3>1 DEF ShippedSettings
    <3> HIDE DEF read
    <3>4. r \in CallRecords /\ CallNames(r) /\ r.alone = rrCall[c].alone /\ r.pc = "list" /\ r.settings = read
      BY <1>1, <3>3 DEF CallRecords, CallNames
    <3> HIDE DEF r
    <3>5. QED  BY <1>1, <3>1, <3>2, <3>3, <3>4 DEF ReadsAre
  <2>3. CASE ReadsList(c)
    <3> DEFINE r == [rrCall[c] EXCEPT !.pc = "install", !.rules = rrRules]
    <3>1. rrCall' = [rrCall EXCEPT ![c] = r] /\ rrCall[c].pc = "list"
      BY <1>1, <2>3 DEF ReadsList
    <3>2. /\ r \in CallRecords /\ r.alone = rrCall[c].alone /\ r.pc = "install" /\ r.rules = rrRules
          /\ r.settings = rrCall[c].settings
      BY <1>1 DEF CallRecords
    <3> HIDE DEF r
    <3>3. CallNames(r)
      BY <1>1, <3>1, <3>2 DEF CallNames
    <3>4. QED  BY <1>1, <3>1, <3>2, <3>3 DEF ReadsAre
  <2>4. QED  BY <2>1, <2>2, <2>3
<1>4. CallInv'
  BY <1>2, <1>3, CallMoves DEF RulesInv, Quiet
<1>5. StoreInv'
  BY <1>2, StoreLeft DEF RulesInv
<1>6. QED  BY <1>4, <1>5 DEF RulesInv

LEMMA InstallsKeeps == ASSUME RulesInv, NEW c \in RuleCalls, Installs(c) PROVE RulesInv'
<1>1. /\ rrCall[c].pc = "install" /\ rrEngine' = [rules |-> rrCall[c].rules, settings |-> rrCall[c].settings]
      /\ rrCall' = [rrCall EXCEPT ![c] = NoRuleCall] /\ rrAlone' = (rrAlone \/ rrCall[c].alone)
      /\ UNCHANGED <<rrFiles, rrOverride, rrRules, rrPaths, rrSettings, rrFailed, rrGiven, rrLeft>>
  BY DEF Installs
<1>2. /\ rrCall \in [RuleCalls -> CallRecords] /\ rrCall[c].alone \in BOOLEAN /\ rrAlone \in BOOLEAN
      /\ ReadsAre(rrCall[c], rrRules, rrSettings)
  BY CallIs DEF RulesInv, CallInv, CallTypeOK, CallRecords
<1>3. \A d \in RuleCalls : rrCall'[d] = IF d = c THEN NoRuleCall ELSE rrCall[d]
  BY <1>1, <1>2
<1>4. rrCall[c].alone => \A d \in RuleCalls : rrCall'[d].pc = "idle"
  BY <1>1, <1>3, NoRuleCallIs DEF RulesInv, CallInv, AloneIsAlone
<1>5. rrAlone' => rrCall[c].alone
  BY <1>1, <1>2 DEF RulesInv, CallInv, AllAlone
<1>6. CallTypeOK'
  BY <1>1, <1>2, <1>3, NoRuleCallIs DEF RulesInv, CallInv, CallTypeOK
<1>7. AloneIsAlone'
  BY <1>3, NoRuleCallIs DEF RulesInv, CallInv, AloneIsAlone
<1>8. AllAlone'
  BY <1>4, <1>5 DEF AllAlone
<1>9. ReadsFollow'
  BY <1>1, <1>3, NoRuleCallIs DEF RulesInv, CallInv, ReadsFollow, ReadsAre
<1>10. EngineFresh'
  BY <1>1, <1>2, <1>5 DEF EngineFresh, ReadsAre
<1>11. StoreInv'
  BY <1>1, StoreLeft DEF RulesInv
<1>12. QED  BY <1>6, <1>7, <1>8, <1>9, <1>10, <1>11 DEF RulesInv, CallInv

LEMMA RulesInitially == RiskRulesInit => RulesInv
<1> SUFFICES ASSUME RiskRulesInit PROVE RulesInv
  OBVIOUS
<1>1. /\ rrFiles \in [FileNames -> {NoRule} \cup [id : RuleIds, rule : [code : {0, 2}, on : {TRUE}]]]
      /\ NamedForIds(rrFiles) /\ HandAlone(rrFiles)
      /\ \A n, m \in FileNames : /\ rrFiles[n] # NoRule /\ rrFiles[m] # NoRule
                                 /\ rrFiles[n].rule.code = 2 /\ rrFiles[m].rule.code = 2
                                 => rrFiles[n].id = rrFiles[m].id
  BY DEF RiskRulesInit, NamedForIds, HandAlone
<1>2. rrFiles \in RuleFileTypes
  <2>1. ASSUME NEW t \in [code : {0, 2}, on : {TRUE}] PROVE t \in RuleTexts
    <3>1. t = [code |-> t.code, on |-> t.on] /\ t.code \in {0, 2} /\ t.on \in {TRUE}
      BY Zenon
    <3>2. t.code \in Nat
      BY <3>1
    <3>3. t.on \in BOOLEAN
      BY <3>1, Zenon
    <3>4. QED  BY <3>1, <3>2, <3>3, Zenon DEF RuleTexts
  <2>2. \A r \in [id : RuleIds, rule : [code : {0, 2}, on : {TRUE}]] : r \in [id : RuleIds, rule : RuleTexts]
    BY <2>1
  <2>3. QED  BY <1>1, <2>2 DEF RuleFileTypes
<1>3. CodesDiffer(rrFiles)
  <2> SUFFICES ASSUME NEW i \in RuleIds, NEW j \in RuleIds, i # j, RuleText(rrFiles, i) # NoRule,
                      RuleText(rrFiles, j) # NoRule, RuleText(rrFiles, i).code # 0
               PROVE  RuleText(rrFiles, i).code # RuleText(rrFiles, j).code
    BY DEF CodesDiffer
  <2> DEFINE n == LoadedFrom(rrFiles, i)
             m == LoadedFrom(rrFiles, j)
  <2>1. n # NoRule /\ m # NoRule
    BY <1>2, RuleTextIs
  <2>2. /\ n \in FileNames /\ rrFiles[n] # NoRule /\ rrFiles[n].id = i
        /\ m \in FileNames /\ rrFiles[m] # NoRule /\ rrFiles[m].id = j
    BY <1>2, <2>1, LoadedFromIs DEF Holding
  <2>3. RuleText(rrFiles, i) = rrFiles[n].rule /\ RuleText(rrFiles, j) = rrFiles[m].rule
    BY <2>1 DEF RuleText
  <2> HIDE DEF n, m
  <2>4. rrFiles[n].rule.code \in {0, 2} /\ rrFiles[m].rule.code \in {0, 2}
    BY <1>1, <2>2
  <2>5. QED  BY <1>1, <2>2, <2>3, <2>4
<1>4. StoreInv
  <2>1. StoreTypeOK
    BY <1>2, LoadedIs, LoadedFromIs DEF RiskRulesInit, StoreTypeOK
  <2>2. MemoryText
    BY <1>2, LoadedIs DEF RiskRulesInit, MemoryText, FileCode
  <2>3. CodesDistinct
    BY <1>2, <1>3, LoadedDistinct DEF RiskRulesInit, CodesDistinct
  <2>4. QED  BY <1>1, <2>1, <2>2, <2>3 DEF StoreInv, RiskRulesInit, PathKept
<1>5. rrCall = [c \in RuleCalls |-> NoRuleCall] /\ rrAlone = TRUE /\ rrSettings = rrOverride
      /\ rrOverride = [s \in ShippedIds |-> Shipped] /\ rrEngine = [rules |-> rrRules, settings |-> rrSettings]
  BY DEF RiskRulesInit
<1>6. rrOverride \in ShippedSettings
  BY <1>5, RiskRulesAssumption DEF ShippedSettings
<1>7. CallInv
  BY <1>5, <1>6, NoRuleCallIs DEF CallInv, CallTypeOK, AloneIsAlone, AllAlone, ReadsFollow, ReadsAre, EngineFresh
<1>8. QED  BY <1>4, <1>7 DEF RulesInv

LEMMA RulesStep == RulesInv /\ [RiskRulesNext]_rrvars => RulesInv'
<1> SUFFICES ASSUME RulesInv, [RiskRulesNext]_rrvars PROVE RulesInv'
  OBVIOUS
<1>1. CASE UNCHANGED rrvars
  <2>1. StoreInv'
    BY <1>1, StoreLeft DEF RulesInv, rrvars
  <2>2. CallInv'
    BY <1>1 DEF rrvars, RulesInv, CallInv, CallTypeOK, AloneIsAlone, AllAlone, ReadsFollow, EngineFresh
  <2>3. QED  BY <2>1, <2>2 DEF RulesInv
<1>2. CASE RiskRulesNext
  <2>1. PICK c \in RuleCalls :
          \/ SetRiskRule(c) \/ Create(c) \/ Update(c) \/ DeleteRiskRule(c) \/ DeletionFails(c) \/ SetBuiltin(c)
          \/ Load(c) \/ ReadsBuiltin(c) \/ ReadsProbe(c) \/ ReadsList(c) \/ Installs(c)
    BY <1>2 DEF RiskRulesNext
  <2>2. QED  BY <2>1, SetRiskRuleKeeps, CreateKeeps, UpdateKeeps, DeleteRuleKeeps, DeletionKeeps, SetBuiltinKeeps, LoadKeeps,
                 ReadsKeep, InstallsKeeps
<1>3. QED  BY <1>1, <1>2

LEMMA RulesFound == ASSUME StoreInv PROVE RestartFinds
<1> SUFFICES ASSUME NEW id \in RuleIds \ rrFailed
             PROVE  IF rrRules[id] = NoRule THEN Loaded(rrFiles)[id] = NoRule
                    ELSE Loaded(rrFiles)[id] # NoRule /\ Loaded(rrFiles)[id].on = rrRules[id].on
  BY DEF RestartFinds
<1>1. QED  BY LoadedIs DEF StoreInv, StoreTypeOK, MemoryText

(* For any rules, files, codes given and calls: the engine follows the     *)
(* store once no calls cross, a restart finds the rules the store holds,   *)
(* switched as it holds them, and two rules bear one code only where a     *)
(* caller gave it or a failed deletion brought it back.                    *)
THEOREM RulesCorrect == RiskRulesSpec => []RiskRulesSafe
<1>1. RulesInv => RiskRulesSafe
  <2>1. CallInv => EngineFollows
    BY DEF CallInv, EngineFresh, EngineFollows, Quiet
  <2>2. QED  BY <2>1, RulesFound DEF RulesInv, StoreInv, RiskRulesSafe
<1>2. QED  BY <1>1, RulesInitially, RulesStep, PTL DEF RiskRulesSpec

(* The stores the app edits, together.                                     *)
THEOREM StoresCorrect == StoresSpec => []StoresSafe
<1>1. RecordsSafe /\ RiskRulesSafe => StoresSafe
  BY DEF StoresSafe
<1>2. QED  BY <1>1, RecordsCorrect, RulesCorrect, PTL DEF StoresSpec

(* The encrypted files.  A file once written by this version is never      *)
(* again as an older one wrote it; so the files an app has rewritten stay  *)
(* so, the files it has loaded it has read, and it serves only with all of *)
(* them behind it.  A file that is gone has no text, and the rewriting of  *)
(* a file that nobody wrote to meanwhile keeps its text.                   *)
LeForms == {"none", "torn", "plain", "v1", "v2", "newer"}
LeKeys == {NoKey, "old", "k1", "k2"}
LeTexts == {c \in [form : LeForms, key : LeKeys, text : Nat] : c.form = "none" => c.text = 0}
LeOutcomes == {"", "text", "corrupt_file", "app_too_old", "keychain_unavailable", "key_mismatch"}
LePcs == {"off", "root", "legacy", "migrate", "backup", "rename", "load", "ready", "failed"}
LeTodos == {1, 2, 3}
LeRuns == [pc : LePcs, serving : BOOLEAN, key : LeKeys, fallbacks : SUBSET LeKeys, todo : LeTodos, raw : LeTexts,
           reason : LeOutcomes, read : SUBSET LeNames, retry : BOOLEAN]

KeychainTyped == leKeychain \in [root : LeKeys, legacy : LeKeys, up : BOOLEAN]
DiskTyped == leDisk \in [LeNames -> LeTexts]
BackupsTyped == leBackups \in [LeNames -> SUBSET LeTexts]
RunsTyped == leProc \in [LeProcs -> LeRuns]
LatestTyped == leLatest \in [LeNames -> Nat]
CountsTyped == leSavesLeft \in 0..LeSaves /\ leFaultsLeft \in Nat

Rewritten(disk, f) == disk[f].form \notin {"plain", "v1"}
AppInOrder(disk, r) ==
    /\ r.retry = FALSE
    /\ r.serving => r.pc = "ready" /\ \A f \in LeNames : f \in r.read
    /\ r.pc \in {"migrate", "backup", "rename"} => \A j \in LeTodos : j < r.todo => Rewritten(disk, LeFiles[j])
    /\ r.pc = "load" \/ r.serving => \A f \in LeNames : Rewritten(disk, f)
    /\ r.pc = "load" => \A j \in LeTodos : j < r.todo => LeFiles[j] \in r.read
AppsInOrder == \A p \in LeProcs : LeKind[p] = "app" => AppInOrder(leDisk, leProc[p])
KeysInv == /\ KeychainTyped /\ DiskTyped /\ BackupsTyped /\ RunsTyped /\ LatestTyped /\ CountsTyped
           /\ AppsInOrder /\ DataKept /\ AppReadsFirst

LEMMA RunMoves ==
  ASSUME NEW r \in LeRuns
  PROVE  /\ \A at \in LePcs : [r EXCEPT !.pc = at] \in LeRuns
         /\ \A todo \in LeTodos : [r EXCEPT !.todo = todo] \in LeRuns
         /\ \A retry \in BOOLEAN : [r EXCEPT !.retry = retry] \in LeRuns
  BY DEF LeRuns

LEMMA TheFiles ==
  /\ Len(LeFiles) = 3 /\ LeNames = {"datasources", "session", "history"}
  /\ \A j \in LeTodos : LeFiles[j] \in LeNames
  /\ \A f \in LeNames : \E j \in LeTodos : f = LeFiles[j]
<1>1. Len(LeFiles) = 3 /\ DOMAIN LeFiles = LeTodos
  BY DEF LeFiles, LeTodos
<1>2. LeFiles[1] = "datasources" /\ LeFiles[2] = "session" /\ LeFiles[3] = "history"
  BY DEF LeFiles
<1>3. QED  BY <1>1, <1>2 DEF LeNames, LeTodos

(* A process moves on while the files that were rewritten stay so.         *)
LEMMA ProcessMoves ==
  ASSUME KeysInv, NEW p \in LeProcs, NEW r \in LeRuns, Becomes(p, r),
         \A f \in LeNames : Rewritten(leDisk, f) => Rewritten(leDisk', f),
         LeKind[p] = "app" => AppInOrder(leDisk', r)
  PROVE  RunsTyped' /\ AppsInOrder'
<1>1. RunsTyped' /\ leProc'[p] = r /\ \A q \in LeProcs : q # p => leProc'[q] = leProc[q]
  BY DEF KeysInv, RunsTyped, Becomes
<1>2. ASSUME NEW q \in LeProcs, LeKind[q] = "app", q # p PROVE AppInOrder(leDisk', leProc'[q])
  <2>1. AppInOrder(leDisk, leProc[q]) /\ leProc'[q] = leProc[q]
    BY <1>1, <1>2 DEF KeysInv, AppsInOrder
  <2>2. QED  BY <2>1, TheFiles DEF AppInOrder
<1>3. QED  BY <1>1, <1>2 DEF AppsInOrder

(* A step that only moves a process.                                       *)
LEMMA OnlyMoves ==
  ASSUME KeysInv, NEW p \in LeProcs, NEW r \in LeRuns, Becomes(p, r), LeKind[p] = "app" => AppInOrder(leDisk, r),
         leKeychain' \in [root : LeKeys, legacy : LeKeys, up : BOOLEAN],
         UNCHANGED <<leDisk, leBackups, leAside, leLatest, leOverwritten, leSavesLeft, leFaultsLeft>>
  PROVE  KeysInv'
<1>1. \A f \in LeNames : Rewritten(leDisk, f) => Rewritten(leDisk', f)
  BY DEF Rewritten
<1>2. AppInOrder(leDisk, r) => AppInOrder(leDisk', r)
  BY DEF AppInOrder, Rewritten
<1>3. RunsTyped' /\ AppsInOrder'
  BY <1>1, <1>2, ProcessMoves
<1>4. KeychainTyped' /\ DiskTyped' /\ BackupsTyped' /\ LatestTyped' /\ CountsTyped'
  BY DEF KeysInv, KeychainTyped, DiskTyped, BackupsTyped, LatestTyped, CountsTyped
<1>5. DataKept' /\ AppReadsFirst'
  BY DEF KeysInv, DataKept, AppReadsFirst
<1>6. QED  BY <1>3, <1>4, <1>5 DEF KeysInv

LEMMA RunsAre ==
  ASSUME KeysInv, NEW p \in LeProcs
  PROVE  /\ leProc[p] \in LeRuns /\ NotRunning \in LeRuns /\ Absent \in LeTexts /\ Torn \in LeTexts
         /\ LeKind[p] \in {"app", "daemon", "cli"}
         /\ LeKind[p] = "app" => AppInOrder(leDisk, leProc[p]) /\ AppInOrder(leDisk, NotRunning)
         /\ File(p) \in LeNames
<1>1. Absent \in LeTexts /\ Torn \in LeTexts
  BY DEF Absent, Torn, LeTexts, LeForms, LeKeys
<1>2. NotRunning \in LeRuns
  BY <1>1 DEF NotRunning, LeRuns, LeKeys, LeOutcomes, LePcs, LeTodos
<1>3. leProc[p] \in LeRuns /\ (LeKind[p] = "app" => AppInOrder(leDisk, leProc[p]))
  BY DEF KeysInv, RunsTyped, AppsInOrder
<1>4. AppInOrder(leDisk, NotRunning)
  BY DEF NotRunning, AppInOrder
<1>5. File(p) \in LeNames
  BY <1>3, TheFiles DEF File, LeRuns, LePcs
<1>6. QED  BY <1>1, <1>2, <1>3, <1>4, <1>5, LocalEncryptionAssumption

LEMMA OutcomeIs == ASSUME NEW proc, NEW c PROVE ReadOutcome(proc, c) \in LeOutcomes \ {""}
  BY DEF ReadOutcome, LeOutcomes

(* A failed start: shown by the app, the end of the command line, and for  *)
(* a daemon a start without the files.                                     *)
LEMMA FailsTyped ==
  ASSUME KeysInv, NEW p \in LeProcs, NEW proc \in LeRuns, NEW why \in LeOutcomes, InitFails(p, proc, why),
         LeKind[p] = "app" => ~proc.serving /\ proc.retry = FALSE
  PROVE  \E r \in LeRuns : Becomes(p, r) /\ (LeKind[p] = "app" => AppInOrder(leDisk, r))
<1>1. CASE LeKind[p] = "app"
  <2> DEFINE r == [proc EXCEPT !.pc = "failed", !.reason = why]
  <2>1. r \in LeRuns /\ Becomes(p, r)
    BY <1>1 DEF InitFails, LeRuns, LePcs
  <2>2. AppInOrder(leDisk, r)
    BY <1>1 DEF AppInOrder, LeRuns, LePcs
  <2>3. QED  BY <2>1, <2>2
<1>2. CASE LeKind[p] = "cli"
  <2>1. Becomes(p, NotRunning) /\ NotRunning \in LeRuns
    BY <1>2, RunsAre DEF InitFails
  <2>2. QED  BY <1>2, <2>1
<1>3. CASE LeKind[p] = "daemon" /\ proc.serving
  <2>1. [proc EXCEPT !.pc = "ready"] \in LeRuns /\ Becomes(p, [proc EXCEPT !.pc = "ready"])
    BY <1>3 DEF InitFails, LeRuns, LePcs
  <2>2. QED  BY <1>3, <2>1
<1>4. CASE LeKind[p] = "daemon" /\ ~proc.serving
  <2> DEFINE r == [proc EXCEPT !.pc = "load", !.todo = 1, !.retry = TRUE]
  <2>1. r \in LeRuns
    <3>1. "load" \in LePcs /\ 1 \in LeTodos /\ TRUE \in BOOLEAN
      BY DEF LePcs, LeTodos
    <3>2. r = [[[proc EXCEPT !.pc = "load"] EXCEPT !.todo = 1] EXCEPT !.retry = TRUE]
      BY DEF LeRuns, LePcs
    <3>3. QED  BY <3>1, <3>2, RunMoves
  <2>2. LeKind[p] # "app" /\ LeKind[p] # "cli" /\ proc.serving = FALSE
    BY <1>4 DEF LeRuns, LePcs
  <2>3. Becomes(p, r)
    BY <2>2 DEF InitFails
  <2>4. QED  BY <1>4, <2>1, <2>3
<1>5. QED  BY <1>1, <1>2, <1>3, <1>4, RunsAre

LEMMA StartKeeps == ASSUME KeysInv, NEW p \in LeProcs, Start(p) PROVE KeysInv'
<1> DEFINE r == [NotRunning EXCEPT !.pc = "root"]
<1>1. r \in LeRuns /\ AppInOrder(leDisk, r)
  BY RunsAre DEF LeRuns, LePcs, NotRunning, AppInOrder
<1>2. Becomes(p, r) /\ UNCHANGED <<leKeychain, leDisk, leBackups, leAside, leLatest, leOverwritten, leSavesLeft, leFaultsLeft>>
  BY DEF Start
<1>3. leKeychain' \in [root : LeKeys, legacy : LeKeys, up : BOOLEAN]
  BY <1>2 DEF KeysInv, KeychainTyped
<1> HIDE DEF r
<1>4. QED  BY <1>1, <1>2, <1>3, OnlyMoves

LEMMA RetryKeeps ==
  ASSUME KeysInv, NEW p \in LeProcs, RetriesOnRequest(p) \/ (LeKind[p] = "app" /\ StartupRecoveryRetry(p))
  PROVE  KeysInv'
<1>1. leKeychain' \in [root : LeKeys, legacy : LeKeys, up : BOOLEAN]
  BY DEF KeysInv, KeychainTyped, RetriesOnRequest, StartupRecoveryRetry
<1>2. CASE RetriesOnRequest(p)
  <2> DEFINE r == [leProc[p] EXCEPT !.pc = "root"]
  <2>1. r \in LeRuns /\ (LeKind[p] = "app" => AppInOrder(leDisk, r))
    BY <1>2, RunsAre DEF LeRuns, LePcs, AppInOrder, RetriesOnRequest
  <2>2. Becomes(p, r) /\ UNCHANGED <<leKeychain, leDisk, leBackups, leAside, leLatest, leOverwritten, leSavesLeft, leFaultsLeft>>
    BY <1>2 DEF RetriesOnRequest
  <2> HIDE DEF r
  <2>3. QED  BY <1>1, <2>1, <2>2, OnlyMoves
<1>3. CASE StartupRecoveryRetry(p)
  <2> DEFINE r == [NotRunning EXCEPT !.pc = "root"]
  <2>1. r \in LeRuns /\ AppInOrder(leDisk, r)
    BY RunsAre DEF LeRuns, LePcs, NotRunning, AppInOrder
  <2>2. Becomes(p, r) /\ UNCHANGED <<leKeychain, leDisk, leBackups, leAside, leLatest, leOverwritten, leSavesLeft, leFaultsLeft>>
    BY <1>3 DEF StartupRecoveryRetry
  <2> HIDE DEF r
  <2>3. QED  BY <1>1, <2>1, <2>2, OnlyMoves
<1>4. QED  BY <1>2, <1>3

LEMMA RootKeyKeeps == ASSUME KeysInv, NEW p \in LeProcs, EnsureLocalRootKey(p) PROVE KeysInv'
<1>1. leProc[p] \in LeRuns /\ leProc[p].pc = "root" /\ Absent \in LeTexts
      /\ UNCHANGED <<leDisk, leBackups, leAside, leLatest, leOverwritten, leSavesLeft, leFaultsLeft>>
  BY RunsAre DEF EnsureLocalRootKey
<1>2. LeKind[p] = "app" => ~leProc[p].serving /\ leProc[p].retry = FALSE
  BY <1>1, RunsAre DEF AppInOrder, LeRuns, LePcs
<1>3. leKeychain \in [root : LeKeys, legacy : LeKeys, up : BOOLEAN]
  BY DEF KeysInv, KeychainTyped
<1>4. ASSUME NEW k \in LeKeys, Becomes(p, [leProc[p] EXCEPT !.pc = "legacy", !.raw = [Absent EXCEPT !.key = k]]),
             leKeychain' \in [root : LeKeys, legacy : LeKeys, up : BOOLEAN]
      PROVE  KeysInv'
  <2> DEFINE r == [leProc[p] EXCEPT !.pc = "legacy", !.raw = [Absent EXCEPT !.key = k]]
  <2>1. [Absent EXCEPT !.key = k] \in LeTexts
    BY <1>1 DEF LeTexts
  <2>2. r \in LeRuns /\ (LeKind[p] = "app" => AppInOrder(leDisk, r))
    BY <1>1, <1>2, <2>1 DEF LeRuns, LePcs, AppInOrder
  <2>3. Becomes(p, r)
    BY <1>4
  <2> HIDE DEF r
  <2>4. QED  BY <1>1, <1>4, <2>2, <2>3, OnlyMoves
<1>5. CASE leKeychain.up /\ leKeychain.root # NoKey
  BY <1>3, <1>4, <1>5 DEF EnsureLocalRootKey
<1>6. CASE leKeychain.up /\ leKeychain.root = NoKey
  <2>1. PICK k \in FreshKeys : /\ leKeychain' = [leKeychain EXCEPT !.root = k]
                               /\ Becomes(p, [leProc[p] EXCEPT !.pc = "legacy", !.raw = [Absent EXCEPT !.key = k]])
    BY <1>6 DEF EnsureLocalRootKey
  <2>2. k \in LeKeys
    <3>1. DOMAIN RootKeys = {1, 2} /\ RootKeys[1] = "k1" /\ RootKeys[2] = "k2"
      BY DEF RootKeys
    <3>2. QED  BY <3>1 DEF FreshKeys, LeKeys
  <2>3. leKeychain' \in [root : LeKeys, legacy : LeKeys, up : BOOLEAN]
    BY <1>3, <2>1, <2>2
  <2>4. QED  BY <1>4, <2>1, <2>2, <2>3
<1>7. CASE ~leKeychain.up
  <2> DEFINE proc == [leProc[p] EXCEPT !.key = NoKey, !.fallbacks = {}]
  <2>1. proc \in LeRuns /\ (LeKind[p] = "app" => ~proc.serving /\ proc.retry = FALSE)
    BY <1>1, <1>2 DEF LeRuns, LePcs, LeKeys
  <2>2. InitFails(p, proc, "keychain_unavailable") /\ leKeychain' = leKeychain
    BY <1>7 DEF EnsureLocalRootKey
  <2> HIDE DEF proc
  <2>3. "keychain_unavailable" \in LeOutcomes
    BY DEF LeOutcomes
  <2>4. PICK r \in LeRuns : Becomes(p, r) /\ (LeKind[p] = "app" => AppInOrder(leDisk, r))
    BY <2>1, <2>2, <2>3, FailsTyped
  <2>5. QED  BY <1>1, <1>3, <2>2, <2>4, OnlyMoves
<1>8. QED  BY <1>3, <1>5, <1>6, <1>7

LEMMA NextFileIs ==
  ASSUME NEW r \in LeRuns, NEW at \in LePcs
  PROVE  /\ NextFile(r, at) \in LeRuns
         /\ r.todo # 3 => NextFile(r, at) = [r EXCEPT !.todo = @ + 1]
         /\ r.todo = 3 => NextFile(r, at) = [r EXCEPT !.todo = 1, !.pc = at]
<1>1. r.todo \in LeTodos /\ Len(LeFiles) = 3
  BY TheFiles DEF LeRuns
<1>2. CASE r.todo = 3
  <2>1. NextFile(r, at) = [[r EXCEPT !.todo = 1] EXCEPT !.pc = at] /\ NextFile(r, at) = [r EXCEPT !.todo = 1, !.pc = at]
    BY <1>1, <1>2 DEF NextFile, LeRuns
  <2>2. 1 \in LeTodos
    BY DEF LeTodos
  <2>3. [r EXCEPT !.todo = 1] \in LeRuns
    BY <2>2, RunMoves
  <2>4. [[r EXCEPT !.todo = 1] EXCEPT !.pc = at] \in LeRuns
    BY <2>3, RunMoves
  <2>5. NextFile(r, at) \in LeRuns
    BY <2>1, <2>4
  <2>6. QED  BY <1>2, <2>1, <2>5
<1>3. CASE r.todo # 3
  <2>1. NextFile(r, at) = [r EXCEPT !.todo = @ + 1] /\ r.todo + 1 \in LeTodos
    BY <1>1, <1>3 DEF NextFile, LeTodos
  <2>2. [r EXCEPT !.todo = r.todo + 1] \in LeRuns
    BY <2>1, RunMoves
  <2>3. NextFile(r, at) = [r EXCEPT !.todo = r.todo + 1]
    BY <2>1
  <2>4. NextFile(r, at) \in LeRuns
    BY <2>2, <2>3
  <2>5. QED  BY <1>3, <2>3, <2>4
<1>4. QED  BY <1>2, <1>3

(* A file done, the app goes to the next, or has them all.                 *)
LEMMA FileRewritten ==
  ASSUME NEW disk, NEW r \in LeRuns, r.pc = "migrate", r.retry = FALSE, ~r.serving,
         \A j \in LeTodos : j < r.todo => Rewritten(disk, LeFiles[j]), Rewritten(disk, LeFiles[r.todo])
  PROVE  AppInOrder(disk, NextFile(r, "load"))
<1>1. r.todo \in LeTodos /\ "load" \in LePcs
  BY DEF LeRuns, LePcs
<1>2. CASE r.todo = 3
  <2>1. \A j \in LeTodos : Rewritten(disk, LeFiles[j])
    BY <1>2 DEF LeTodos
  <2>2. \A f \in LeNames : Rewritten(disk, f)
    BY <2>1, TheFiles
  <2>3. NextFile(r, "load") = [r EXCEPT !.todo = 1, !.pc = "load"]
    BY <1>1, <1>2, NextFileIs
  <2> DEFINE q == NextFile(r, "load")
  <2>4. q.retry = FALSE /\ ~q.serving /\ q.pc = "load" /\ q.todo = 1
    BY <2>3 DEF LeRuns
  <2>5. \A j \in LeTodos : ~(j < q.todo)
    BY <2>4 DEF LeTodos
  <2> HIDE DEF q
  <2>6. QED  BY <2>2, <2>4, <2>5 DEF AppInOrder, q
<1>3. CASE r.todo # 3
  <2>1. NextFile(r, "load") = [r EXCEPT !.todo = @ + 1]
    BY <1>1, <1>3, NextFileIs
  <2> DEFINE q == NextFile(r, "load")
  <2>2. q.retry = FALSE /\ ~q.serving /\ q.pc = "migrate" /\ q.todo = r.todo + 1
    BY <2>1 DEF LeRuns
  <2>3. \A j \in LeTodos : j < q.todo => j < r.todo \/ j = r.todo
    BY <1>1, <2>2 DEF LeTodos
  <2>4. \A j \in LeTodos : j < q.todo => Rewritten(disk, LeFiles[j])
    BY <2>3
  <2> HIDE DEF q
  <2>5. QED  BY <2>2, <2>4 DEF AppInOrder, q
<1>4. QED  BY <1>2, <1>3

LEMMA SetKeysKeeps == ASSUME KeysInv, NEW p \in LeProcs, SetKeys(p) PROVE KeysInv'
<1>1. leProc[p] \in LeRuns /\ leProc[p].pc = "legacy" /\ Absent \in LeTexts
      /\ UNCHANGED <<leKeychain, leDisk, leBackups, leAside, leLatest, leOverwritten, leSavesLeft, leFaultsLeft>>
  BY RunsAre DEF SetKeys
<1>2. LeKind[p] = "app" => ~leProc[p].serving /\ leProc[p].retry = FALSE
  BY <1>1, RunsAre DEF AppInOrder, LeRuns, LePcs
<1>3. leKeychain \in [root : LeKeys, legacy : LeKeys, up : BOOLEAN]
  BY DEF KeysInv, KeychainTyped
<1> DEFINE older == IF leKeychain.up THEN OlderKeys ELSE {}
           r == [leProc[p] EXCEPT !.pc = "migrate", !.todo = 1, !.key = leProc[p].raw.key, !.raw = Absent, !.fallbacks = older]
<1>4. older \in SUBSET LeKeys
  BY <1>3 DEF OlderKeys
<1>5. leProc[p].raw.key \in LeKeys /\ "migrate" \in LePcs /\ 1 \in LeTodos
  BY <1>1 DEF LeRuns, LeTexts, LePcs, LeTodos
<1>6. Becomes(p, r)
  BY DEF SetKeys
<1> HIDE DEF older
<1>7. r \in LeRuns
  BY <1>1, <1>4, <1>5 DEF LeRuns
<1>8. r.pc = "migrate" /\ r.todo = 1 /\ r.serving = leProc[p].serving /\ r.retry = leProc[p].retry
  BY <1>1 DEF LeRuns
<1>9. \A j \in LeTodos : ~(j < 1)
  BY DEF LeTodos
<1> HIDE DEF r
<1>10. LeKind[p] = "app" => AppInOrder(leDisk, r)
  BY <1>2, <1>8, <1>9 DEF AppInOrder
<1>11. QED  BY <1>1, <1>3, <1>6, <1>7, <1>10, OnlyMoves

LEMMA MigrateReadsKeeps == ASSUME KeysInv, NEW p \in LeProcs, MigrateReads(p) PROVE KeysInv'
<1> DEFINE proc == leProc[p]
           c == leDisk[File(p)]
           outcome == ReadOutcome(proc, c)
<1>1. proc \in LeRuns /\ proc.pc = "migrate" /\ c \in LeTexts /\ proc.todo \in LeTodos /\ File(p) = LeFiles[proc.todo]
      /\ UNCHANGED <<leKeychain, leDisk, leBackups, leAside, leLatest, leOverwritten, leSavesLeft, leFaultsLeft>>
  BY RunsAre DEF MigrateReads, KeysInv, DiskTyped, LeRuns, File
<1>2. LeKind[p] = "app" => /\ ~proc.serving /\ proc.retry = FALSE
                           /\ \A j \in LeTodos : j < proc.todo => Rewritten(leDisk, LeFiles[j])
  BY <1>1, RunsAre DEF AppInOrder
<1>3. leKeychain' \in [root : LeKeys, legacy : LeKeys, up : BOOLEAN]
  BY <1>1 DEF KeysInv, KeychainTyped
<1>4. "load" \in LePcs
  BY DEF LePcs
<1>5. CASE UpToDate(proc, c)
  <2>1. Becomes(p, NextFile(proc, "load"))
    BY <1>5 DEF MigrateReads
  <2>2. Rewritten(leDisk, LeFiles[proc.todo])
    BY <1>1, <1>5 DEF UpToDate, Rewritten
  <2>3. LeKind[p] = "app" => AppInOrder(leDisk, NextFile(proc, "load"))
    BY <1>1, <1>2, <2>2, FileRewritten
  <2>4. NextFile(proc, "load") \in LeRuns
    BY <1>1, <1>4, NextFileIs
  <2>5. QED  BY <1>1, <1>3, <2>1, <2>3, <2>4, OnlyMoves
<1>6. CASE ~UpToDate(proc, c) /\ outcome = "text"
  <2> DEFINE r == [proc EXCEPT !.pc = "backup", !.raw = c]
  <2>1. Becomes(p, r)
    BY <1>6 DEF MigrateReads
  <2>2. "backup" \in LePcs
    BY DEF LePcs
  <2> HIDE DEF proc, c
  <2>3. r \in LeRuns
    BY <1>1, <2>2 DEF LeRuns
  <2>4. r.pc = "backup" /\ r.todo = proc.todo /\ r.serving = proc.serving /\ r.retry = proc.retry
    BY <1>1 DEF LeRuns
  <2> HIDE DEF r
  <2>5. LeKind[p] = "app" => AppInOrder(leDisk, r)
    BY <1>2, <2>4 DEF AppInOrder
  <2>6. QED  BY <1>1, <1>3, <2>1, <2>3, <2>5, OnlyMoves
<1>7. CASE ~UpToDate(proc, c) /\ outcome # "text" /\ MigrateMustSucceed(p, File(p))
  <2>1. InitFails(p, proc, outcome)
    BY <1>7 DEF MigrateReads
  <2>2. outcome \in LeOutcomes
    BY OutcomeIs
  <2> HIDE DEF proc, c, outcome
  <2>3. PICK r \in LeRuns : Becomes(p, r) /\ (LeKind[p] = "app" => AppInOrder(leDisk, r))
    BY <1>1, <1>2, <2>1, <2>2, FailsTyped
  <2>4. QED  BY <1>1, <1>3, <2>3, OnlyMoves
<1>8. CASE ~UpToDate(proc, c) /\ outcome # "text" /\ ~MigrateMustSucceed(p, File(p))
  <2>1. Becomes(p, NextFile(proc, "load"))
    BY <1>8 DEF MigrateReads
  <2>2. LeKind[p] # "app"
    BY <1>8 DEF MigrateMustSucceed
  <2>3. NextFile(proc, "load") \in LeRuns
    BY <1>1, <1>4, NextFileIs
  <2>4. QED  BY <1>1, <1>3, <2>1, <2>2, <2>3, OnlyMoves
<1>9. QED  BY <1>5, <1>6, <1>7, <1>8

LEMMA BacksUpKeeps == ASSUME KeysInv, NEW p \in LeProcs, MigrateBacksUp(p) PROVE KeysInv'
<1> DEFINE r == [leProc[p] EXCEPT !.pc = "rename"]
<1>1. /\ leProc[p] \in LeRuns /\ leProc[p].pc = "backup" /\ File(p) \in LeNames
      /\ leBackups' = [leBackups EXCEPT ![File(p)] = @ \cup {leProc[p].raw}]
      /\ Becomes(p, r)
      /\ UNCHANGED <<leKeychain, leDisk, leAside, leLatest, leOverwritten, leSavesLeft, leFaultsLeft>>
  BY RunsAre DEF MigrateBacksUp
<1>2. r \in LeRuns /\ r.pc = "rename" /\ r.todo = leProc[p].todo /\ r.serving = leProc[p].serving /\ r.retry = leProc[p].retry
  BY <1>1 DEF LeRuns, LePcs
<1> HIDE DEF r
<1>3. LeKind[p] = "app" => AppInOrder(leDisk', r)
  BY <1>1, <1>2, RunsAre DEF AppInOrder
<1>4. RunsTyped' /\ AppsInOrder'
  BY <1>1, <1>2, <1>3, ProcessMoves
<1>5. leBackups \in [LeNames -> SUBSET LeTexts] /\ leProc[p].raw \in LeTexts
  BY <1>1 DEF KeysInv, BackupsTyped, LeRuns
<1>6. BackupsTyped' /\ \A f \in LeNames : leBackups[f] \subseteq leBackups'[f]
  BY <1>1, <1>5 DEF BackupsTyped
<1>7. DataKept'
  BY <1>1, <1>6 DEF KeysInv, DataKept
<1>8. KeychainTyped' /\ DiskTyped' /\ LatestTyped' /\ CountsTyped' /\ AppReadsFirst'
  BY <1>1 DEF KeysInv, KeychainTyped, DiskTyped, LatestTyped, CountsTyped, AppReadsFirst
<1>9. QED  BY <1>4, <1>6, <1>7, <1>8 DEF KeysInv

LEMMA RenamesKeeps == ASSUME KeysInv, NEW p \in LeProcs, MigrateRenames(p) PROVE KeysInv'
<1> DEFINE proc == leProc[p]
           q == [proc EXCEPT !.pc = "migrate", !.raw = Absent]
           new == EncryptWithMetadata(proc.key, proc.raw.text)
<1>1. /\ proc \in LeRuns /\ proc.pc = "rename" /\ File(p) \in LeNames /\ proc.todo \in LeTodos
      /\ File(p) = LeFiles[proc.todo] /\ Absent \in LeTexts
  BY RunsAre DEF MigrateRenames, LeRuns, File
<1>2. /\ leOverwritten' = leOverwritten \cup (IF leDisk[File(p)] \in {proc.raw, Absent} THEN {} ELSE {<<File(p), "rewriting">>})
      /\ leDisk' = [leDisk EXCEPT ![File(p)] = new]
      /\ Becomes(p, NextFile(q, "load"))
      /\ UNCHANGED <<leKeychain, leBackups, leAside, leLatest, leSavesLeft, leFaultsLeft>>
  BY DEF MigrateRenames
<1>3. new \in LeTexts /\ new.form = "v2" /\ new.text = proc.raw.text
  BY <1>1 DEF EncryptWithMetadata, LeTexts, LeForms, LeRuns
<1>4. leDisk \in [LeNames -> LeTexts]
  BY DEF KeysInv, DiskTyped
<1>5. leDisk'[File(p)] = new /\ \A f \in LeNames : f # File(p) => leDisk'[f] = leDisk[f]
  BY <1>1, <1>2, <1>4
<1> HIDE DEF new
<1>6. /\ \A f \in LeNames : Rewritten(leDisk, f) => Rewritten(leDisk', f)
      /\ Rewritten(leDisk', LeFiles[proc.todo])
  BY <1>1, <1>3, <1>5 DEF Rewritten
<1>7. q \in LeRuns /\ q.pc = "migrate" /\ q.todo = proc.todo /\ q.serving = proc.serving /\ q.retry = proc.retry
  <2>1. "migrate" \in LePcs
    BY DEF LePcs
  <2> HIDE DEF proc
  <2>2. QED  BY <1>1, <2>1 DEF LeRuns
<1>8. LeKind[p] = "app" => /\ ~proc.serving /\ proc.retry = FALSE
                           /\ \A j \in LeTodos : j < proc.todo => Rewritten(leDisk, LeFiles[j])
  BY <1>1, RunsAre DEF AppInOrder
<1> HIDE DEF q
<1>9. LeKind[p] = "app" => AppInOrder(leDisk', NextFile(q, "load"))
  <2> SUFFICES ASSUME LeKind[p] = "app" PROVE AppInOrder(leDisk', NextFile(q, "load"))
    OBVIOUS
  <2>1. q.retry = FALSE /\ ~q.serving /\ Rewritten(leDisk', LeFiles[q.todo])
    BY <1>6, <1>7, <1>8
  <2>2. \A j \in LeTodos : j < q.todo => Rewritten(leDisk', LeFiles[j])
    BY <1>6, <1>7, <1>8, TheFiles
  <2>3. QED  BY <1>7, <2>1, <2>2, FileRewritten
<1>10. NextFile(q, "load") \in LeRuns
  <2>1. "load" \in LePcs
    BY DEF LePcs
  <2>2. QED  BY <1>7, <2>1, NextFileIs
<1>11. RunsTyped' /\ AppsInOrder'
  BY <1>2, <1>6, <1>9, <1>10, ProcessMoves
<1>12. DiskTyped'
  BY <1>1, <1>2, <1>3, <1>4 DEF DiskTyped
<1>13. DataKept'
  <2> SUFFICES ASSUME NEW f \in LeNames
               PROVE  \/ leLatest[f] \in {0, leDisk'[f].text} \cup {x.text : x \in leBackups[f]} \cup {a[2].text : a \in {b \in leAside : b[1] = f}}
                      \/ \E x \in leOverwritten' : x[1] = f
    BY <1>2 DEF DataKept
  <2>1. \/ leLatest[f] \in {0, leDisk[f].text} \cup {x.text : x \in leBackups[f]} \cup {a[2].text : a \in {b \in leAside : b[1] = f}}
        \/ \E x \in leOverwritten : x[1] = f
    BY DEF KeysInv, DataKept
  <2>2. CASE f # File(p)
    BY <1>2, <1>5, <2>1, <2>2
  <2>3. CASE f = File(p) /\ leDisk[f] = Absent
    <3>1. leDisk[f].text = 0
      BY <2>3 DEF Absent
    <3>2. QED  BY <1>2, <2>1, <3>1
  <2>4. CASE f = File(p) /\ leDisk[f] = proc.raw
    <3>1. leDisk'[f].text = leDisk[f].text
      BY <1>3, <1>5, <2>4
    <3>2. QED  BY <1>2, <2>1, <3>1
  <2>5. CASE f = File(p) /\ leDisk[f] \notin {proc.raw, Absent}
    <3>1. <<f, "rewriting">> \in leOverwritten' /\ <<f, "rewriting">>[1] = f
      BY <1>2, <2>5
    <3>2. QED  BY <3>1
  <2>6. QED  BY <2>2, <2>3, <2>4, <2>5
<1>14. AppReadsFirst'
  <2>1. \A x \in leOverwritten' : x \in leOverwritten \/ x[2] = "rewriting"
    BY <1>2
  <2>2. QED  BY <2>1 DEF KeysInv, AppReadsFirst
<1>15. KeychainTyped' /\ BackupsTyped' /\ LatestTyped' /\ CountsTyped'
  BY <1>2 DEF KeysInv, KeychainTyped, BackupsTyped, LatestTyped, CountsTyped
<1>16. QED  BY <1>11, <1>12, <1>13, <1>14, <1>15 DEF KeysInv

LEMMA LoadsKeeps == ASSUME KeysInv, NEW p \in LeProcs, Loads(p) PROVE KeysInv'
<1> DEFINE proc == leProc[p]
           outcome == ReadOutcome(proc, leDisk[File(p)])
           after == NextFile(proc, "ready")
           loaded == [after EXCEPT !.serving = proc.serving \/ after.pc = "ready"]
           full == [loaded EXCEPT !.read = @ \cup {File(p)}]
<1>1. /\ proc \in LeRuns /\ proc.pc = "load" /\ File(p) \in LeNames /\ proc.todo \in LeTodos
      /\ File(p) = LeFiles[proc.todo]
      /\ UNCHANGED <<leKeychain, leDisk, leBackups, leAside, leLatest, leOverwritten, leSavesLeft, leFaultsLeft>>
  BY RunsAre DEF Loads, LeRuns, File
<1>2. LeKind[p] = "app" => /\ ~proc.serving /\ proc.retry = FALSE
                           /\ \A f \in LeNames : Rewritten(leDisk, f)
                           /\ \A j \in LeTodos : j < proc.todo => LeFiles[j] \in proc.read
  BY <1>1, RunsAre DEF AppInOrder
<1>3. leKeychain' \in [root : LeKeys, legacy : LeKeys, up : BOOLEAN]
  BY <1>1 DEF KeysInv, KeychainTyped
<1>4. Becomes(p, IF outcome = "text" THEN full
                 ELSE IF proc.serving \/ ~LoadMustSucceed(p, File(p), outcome) THEN loaded
                 ELSE IF LeKind[p] = "app" THEN [proc EXCEPT !.pc = "failed", !.reason = outcome] ELSE NotRunning)
  BY DEF Loads
<1>5. after \in LeRuns /\ (after.pc = "ready" \/ after.pc = "load") /\ after.read = proc.read /\ after.retry = proc.retry
      /\ (proc.todo = 3 => after.pc = "ready") /\ (proc.todo # 3 => after.pc = "load" /\ after.todo = proc.todo + 1)
  <2>1. "ready" \in LePcs
    BY DEF LePcs
  <2> HIDE DEF proc
  <2>2. after \in LeRuns /\ (proc.todo # 3 => after = [proc EXCEPT !.todo = @ + 1])
        /\ (proc.todo = 3 => after = [proc EXCEPT !.todo = 1, !.pc = "ready"])
    BY <1>1, <2>1, NextFileIs
  <2>3. CASE proc.todo = 3
    <3>1. after = [proc EXCEPT !.todo = 1, !.pc = "ready"]
      BY <2>2, <2>3
    <3> HIDE DEF after
    <3>2. QED  BY <1>1, <2>2, <2>3, <3>1 DEF LeRuns
  <2>4. CASE proc.todo # 3
    <3>1. after = [proc EXCEPT !.todo = @ + 1]
      BY <2>2, <2>4
    <3> HIDE DEF after
    <3>2. QED  BY <1>1, <2>2, <2>4, <3>1 DEF LeRuns
  <2>5. QED  BY <2>3, <2>4
<1> HIDE DEF after
<1>6. loaded \in LeRuns /\ loaded.serving = (proc.serving \/ after.pc = "ready") /\ loaded.pc = after.pc
      /\ loaded.todo = after.todo /\ loaded.read = after.read /\ loaded.retry = after.retry
  <2>1. (proc.serving \/ after.pc = "ready") \in BOOLEAN
    OBVIOUS
  <2> DEFINE b == proc.serving \/ after.pc = "ready"
  <2> HIDE DEF b
  <2>2. b \in BOOLEAN
    BY <2>1 DEF b
  <2>3. loaded = [after EXCEPT !.serving = b]
    BY DEF b
  <2>4. [after EXCEPT !.serving = b] \in LeRuns /\ [after EXCEPT !.serving = b].serving = b
    BY <1>5, <2>2 DEF LeRuns
  <2> HIDE DEF proc
  <2>5. loaded.pc = after.pc /\ loaded.todo = after.todo /\ loaded.read = after.read /\ loaded.retry = after.retry
    BY <1>5, <2>3 DEF LeRuns
  <2>6. QED  BY <2>3, <2>4, <2>5 DEF b
<1> HIDE DEF loaded
<1>7. full \in LeRuns /\ full.serving = loaded.serving /\ full.pc = loaded.pc /\ full.todo = loaded.todo
      /\ full.read = loaded.read \cup {File(p)} /\ full.retry = loaded.retry
  BY <1>1, <1>6 DEF LeRuns
<1> HIDE DEF full
<1>8. LeKind[p] = "app" => AppInOrder(leDisk, full)
  <2> SUFFICES ASSUME LeKind[p] = "app" PROVE AppInOrder(leDisk, full)
    OBVIOUS
  <2>1. \A j \in LeTodos : j < proc.todo \/ j = proc.todo => LeFiles[j] \in full.read
    BY <1>1, <1>2, <1>5, <1>6, <1>7
  <2>2. full.retry = FALSE /\ (full.serving => full.pc = "ready") /\ (full.pc = "ready" \/ full.pc = "load")
    BY <1>2, <1>5, <1>6, <1>7
  <2>3. full.serving => \A f \in LeNames : f \in full.read
    <3> SUFFICES ASSUME full.serving PROVE \A f \in LeNames : f \in full.read
      OBVIOUS
    <3>1. proc.todo = 3
      BY <1>2, <1>5, <1>6, <1>7
    <3>2. \A j \in LeTodos : j < 3 \/ j = 3
      BY DEF LeTodos
    <3>3. QED  BY <2>1, <3>1, <3>2, TheFiles
  <2>4. full.pc = "load" => \A j \in LeTodos : j < full.todo => LeFiles[j] \in full.read
    <3> SUFFICES ASSUME full.pc = "load" PROVE \A j \in LeTodos : j < full.todo => LeFiles[j] \in full.read
      OBVIOUS
    <3>1. full.todo = proc.todo + 1
      BY <1>5, <1>6, <1>7
    <3>2. \A j \in LeTodos : j < proc.todo + 1 => j < proc.todo \/ j = proc.todo
      BY <1>1 DEF LeTodos
    <3>3. QED  BY <2>1, <3>1, <3>2
  <2>5. QED  BY <1>2, <2>2, <2>3, <2>4 DEF AppInOrder
<1>9. CASE outcome = "text"
  BY <1>1, <1>3, <1>4, <1>7, <1>8, <1>9, OnlyMoves
<1>10. CASE outcome # "text" /\ (proc.serving \/ ~LoadMustSucceed(p, File(p), outcome))
  <2>1. LeKind[p] # "app"
    BY <1>2, <1>10 DEF LoadMustSucceed
  <2>2. Becomes(p, loaded)
    BY <1>4, <1>10
  <2>3. QED  BY <1>1, <1>3, <1>6, <2>1, <2>2, OnlyMoves
<1>11. CASE outcome # "text" /\ ~(proc.serving \/ ~LoadMustSucceed(p, File(p), outcome)) /\ LeKind[p] = "app"
  <2> DEFINE r == [proc EXCEPT !.pc = "failed", !.reason = outcome]
  <2>1. Becomes(p, r)
    BY <1>4, <1>11
  <2>2. "failed" \in LePcs /\ outcome \in LeOutcomes
    BY OutcomeIs DEF LePcs
  <2> HIDE DEF outcome, proc
  <2>3. r \in LeRuns /\ r.pc = "failed" /\ r.serving = proc.serving /\ r.retry = proc.retry
    BY <1>1, <2>2 DEF LeRuns
  <2> HIDE DEF r
  <2>4. AppInOrder(leDisk, r)
    BY <1>2, <1>11, <2>3 DEF AppInOrder
  <2>5. QED  BY <1>1, <1>3, <2>1, <2>3, <2>4, OnlyMoves
<1>12. CASE outcome # "text" /\ ~(proc.serving \/ ~LoadMustSucceed(p, File(p), outcome)) /\ LeKind[p] # "app"
  <2>1. Becomes(p, NotRunning) /\ NotRunning \in LeRuns
    BY <1>4, <1>12, RunsAre
  <2>2. QED  BY <1>1, <1>3, <1>12, <2>1, OnlyMoves
<1>13. QED  BY <1>9, <1>10, <1>11, <1>12

LEMMA FileSaveKeeps == ASSUME KeysInv, NEW p \in LeProcs, SavesFile(p) PROVE KeysInv'
<1> DEFINE proc == leProc[p]
           text == 2 + LeSaves - leSavesLeft
<1>1. PICK f \in LeNames :
        /\ proc.serving /\ proc.key # NoKey /\ leSavesLeft > 0 /\ leSavesLeft' = leSavesLeft - 1
        /\ leDisk' = [leDisk EXCEPT ![f] = EncryptWithMetadata(proc.key, text)]
        /\ IF f \notin proc.read /\ leDisk[f].form # "none"
           THEN leOverwritten' = leOverwritten \cup {<<f, LeKind[p]>>} /\ leLatest' = leLatest
           ELSE leOverwritten' = leOverwritten /\ leLatest' = [leLatest EXCEPT ![f] = text]
        /\ Becomes(p, [proc EXCEPT !.read = @ \cup {f}])
        /\ UNCHANGED <<leKeychain, leBackups, leAside, leLock, leFaultsLeft>>
  BY DEF SavesFile
<1> DEFINE new == EncryptWithMetadata(proc.key, text)
           r == [proc EXCEPT !.read = @ \cup {f}]
<1>2. /\ proc \in LeRuns /\ LeSaves \in Nat /\ leSavesLeft \in 0..LeSaves
      /\ leDisk \in [LeNames -> LeTexts] /\ leLatest \in [LeNames -> Nat]
      /\ (LeKind[p] = "app" => AppInOrder(leDisk, proc))
  BY RunsAre, LocalEncryptionAssumption DEF KeysInv, CountsTyped, DiskTyped, LatestTyped
<1>3. text \in Nat /\ leSavesLeft' \in 0..LeSaves
  BY <1>1, <1>2
<1>4. new \in LeTexts /\ new.form = "v2" /\ new.text = text
  BY <1>2, <1>3 DEF EncryptWithMetadata, LeTexts, LeForms, LeRuns
<1>5. leDisk' = [leDisk EXCEPT ![f] = new] /\ Becomes(p, r)
  BY <1>1
<1> HIDE DEF new, text
<1>6. leDisk'[f] = new /\ (\A g \in LeNames : g # f => leDisk'[g] = leDisk[g]) /\ DiskTyped'
  BY <1>2, <1>4, <1>5 DEF DiskTyped
<1>7. \A g \in LeNames : Rewritten(leDisk, g) => Rewritten(leDisk', g)
  BY <1>4, <1>6 DEF Rewritten
<1>8. r \in LeRuns /\ r.pc = proc.pc /\ r.serving = proc.serving /\ r.todo = proc.todo /\ r.retry = proc.retry
      /\ r.read = proc.read \cup {f}
  BY <1>2 DEF LeRuns
<1> HIDE DEF r
<1>9. LeKind[p] = "app" => AppInOrder(leDisk', r)
  BY <1>2, <1>7, <1>8, TheFiles DEF AppInOrder
<1>10. RunsTyped' /\ AppsInOrder'
  BY <1>5, <1>7, <1>8, <1>9, ProcessMoves
<1>11. LatestTyped'
  BY <1>1, <1>2, <1>3, <1>4, <1>6 DEF KeysInv, LatestTyped
<1>12. leOverwritten \subseteq leOverwritten' /\ leBackups' = leBackups /\ leAside' = leAside
  BY <1>1
<1>13. DataKept'
  <2> SUFFICES ASSUME NEW g \in LeNames
               PROVE  \/ leLatest'[g] \in {0, leDisk'[g].text} \cup {x.text : x \in leBackups[g]} \cup {a[2].text : a \in {b \in leAside : b[1] = g}}
                      \/ \E x \in leOverwritten' : x[1] = g
    BY <1>12 DEF DataKept
  <2>1. \/ leLatest[g] \in {0, leDisk[g].text} \cup {x.text : x \in leBackups[g]} \cup {a[2].text : a \in {b \in leAside : b[1] = g}}
        \/ \E x \in leOverwritten : x[1] = g
    BY DEF KeysInv, DataKept
  <2>2. CASE g # f
    <3>1. leLatest'[g] = leLatest[g] /\ leDisk'[g] = leDisk[g]
      BY <1>1, <1>2, <1>6, <2>2
    <3>2. QED  BY <1>12, <2>1, <3>1
  <2>3. CASE g = f /\ f \notin proc.read /\ leDisk[f].form # "none"
    <3>1. <<f, LeKind[p]>> \in leOverwritten' /\ <<f, LeKind[p]>>[1] = f
      BY <1>1, <2>3
    <3>2. QED  BY <2>3, <3>1
  <2>4. CASE g = f /\ ~(f \notin proc.read /\ leDisk[f].form # "none")
    <3>1. leLatest'[g] = leDisk'[g].text
      BY <1>1, <1>2, <1>4, <1>6, <2>4
    <3>2. QED  BY <3>1
  <2>5. QED  BY <2>2, <2>3, <2>4
<1>14. AppReadsFirst'
  <2>1. LeKind[p] = "app" => f \in proc.read
    BY <1>1, <1>2 DEF AppInOrder
  <2>2. \A x \in leOverwritten' : x \in leOverwritten \/ (x[2] = LeKind[p] /\ f \notin proc.read)
    BY <1>1
  <2>3. QED  BY <2>1, <2>2 DEF KeysInv, AppReadsFirst
<1>15. KeychainTyped' /\ BackupsTyped' /\ CountsTyped'
  BY <1>1, <1>3 DEF KeysInv, KeychainTyped, BackupsTyped, CountsTyped
<1>16. QED  BY <1>6, <1>10, <1>11, <1>13, <1>14, <1>15 DEF KeysInv

LEMMA AsideKeeps == ASSUME KeysInv, NEW p \in LeProcs, MoveAsideAndRestart(p) PROVE KeysInv'
<1> DEFINE r == [NotRunning EXCEPT !.pc = "root"]
<1>1. /\ leAside' = leAside \cup {a \in DataFolder : a[2].form # "none"}
      /\ leDisk' = [f \in LeNames |-> Absent] /\ leBackups' = [f \in LeNames |-> {}]
      /\ Becomes(p, r) /\ UNCHANGED <<leKeychain, leLock, leLatest, leOverwritten, leSavesLeft, leFaultsLeft>>
  BY DEF MoveAsideAndRestart
<1>2. r \in LeRuns /\ AppInOrder(leDisk', r)
  BY RunsAre DEF LeRuns, LePcs, NotRunning, AppInOrder
<1> HIDE DEF r
<1>3. \A f \in LeNames : leDisk'[f] = Absent /\ leBackups'[f] = {} /\ Rewritten(leDisk', f)
  BY <1>1 DEF Rewritten, Absent
<1>4. RunsTyped' /\ AppsInOrder'
  BY <1>1, <1>2, <1>3, ProcessMoves
<1>5. DiskTyped' /\ BackupsTyped'
  BY <1>1, RunsAre DEF DiskTyped, BackupsTyped
<1>7. DataKept'
  <2> SUFFICES ASSUME NEW f \in LeNames
               PROVE  \/ leLatest[f] \in {0} \cup {a[2].text : a \in {b \in leAside' : b[1] = f}}
                      \/ \E x \in leOverwritten : x[1] = f
    BY <1>1 DEF DataKept
  <2>1. \/ leLatest[f] \in {0, leDisk[f].text} \cup {x.text : x \in leBackups[f]} \cup {a[2].text : a \in {b \in leAside : b[1] = f}}
        \/ \E x \in leOverwritten : x[1] = f
    BY DEF KeysInv, DataKept
  <2>2. CASE leLatest[f] = leDisk[f].text
    <3>1. CASE leDisk[f].form = "none"
      BY <2>2, <3>1 DEF KeysInv, DiskTyped, LeTexts
    <3>2. CASE leDisk[f].form # "none"
      <4> DEFINE a == <<f, leDisk[f]>>
      <4>1. a \in DataFolder /\ a[1] = f /\ a[2] = leDisk[f]
        BY DEF DataFolder
      <4>2. a \in leAside'
        BY <1>1, <3>2, <4>1
      <4> HIDE DEF a
      <4>3. QED  BY <2>2, <4>1, <4>2
    <3>3. QED  BY <3>1, <3>2
  <2>3. CASE \E x \in leBackups[f] : leLatest[f] = x.text
    <3>1. PICK x \in leBackups[f] : leLatest[f] = x.text
      BY <2>3
    <3> DEFINE a == <<f, x>>
    <3>2. a \in DataFolder /\ a[1] = f /\ a[2] = x
      BY DEF DataFolder
    <3>3. CASE x.form = "none"
      BY <3>1, <3>3 DEF KeysInv, BackupsTyped, LeTexts
    <3>4. CASE x.form # "none"
      <4>1. a \in leAside'
        BY <1>1, <3>2, <3>4
      <4> HIDE DEF a
      <4>2. QED  BY <3>1, <3>2, <4>1
    <3>5. QED  BY <3>3, <3>4
  <2>4. CASE \E a \in leAside : a[1] = f /\ leLatest[f] = a[2].text
    BY <1>1, <2>4
  <2>5. QED  BY <2>1, <2>2, <2>3, <2>4
<1>8. KeychainTyped' /\ LatestTyped' /\ CountsTyped' /\ AppReadsFirst'
  BY <1>1 DEF KeysInv, KeychainTyped, LatestTyped, CountsTyped, AppReadsFirst
<1>9. QED  BY <1>4, <1>5, <1>7, <1>8 DEF KeysInv

LEMMA DiesKeeps == ASSUME KeysInv, NEW p \in LeProcs, ProcessDies(p) PROVE KeysInv'
<1>1. /\ Becomes(p, NotRunning) /\ leFaultsLeft > 0 /\ leFaultsLeft' = leFaultsLeft - 1
      /\ UNCHANGED <<leKeychain, leBackups, leAside, leLatest, leSavesLeft>>
      /\ \/ UNCHANGED <<leDisk, leOverwritten>>
         \/ /\ leDisk' = [leDisk EXCEPT !["history"] = Torn]
            /\ leOverwritten' = leOverwritten \cup {<<"history", "torn">>}
  BY DEF ProcessDies, Fault
<1>2. leDisk \in [LeNames -> LeTexts] /\ Torn \in LeTexts /\ Torn.form = "torn" /\ "history" \in LeNames
  BY RunsAre, TheFiles DEF KeysInv, DiskTyped, Torn
<1>3. CountsTyped' /\ KeychainTyped' /\ BackupsTyped' /\ LatestTyped'
  BY <1>1 DEF KeysInv, CountsTyped, KeychainTyped, BackupsTyped, LatestTyped
<1>4. \A f \in LeNames : \/ leDisk'[f] = leDisk[f]
                         \/ f = "history" /\ leDisk'[f] = Torn /\ <<"history", "torn">> \in leOverwritten'
  BY <1>1, <1>2
<1>5. DiskTyped' /\ \A f \in LeNames : Rewritten(leDisk, f) => Rewritten(leDisk', f)
  <2>1. \A f \in LeNames : Rewritten(leDisk, f) => Rewritten(leDisk', f)
    BY <1>2, <1>4 DEF Rewritten
  <2>2. DiskTyped'
    BY <1>1, <1>2 DEF DiskTyped
  <2>3. QED  BY <2>1, <2>2
<1>6. NotRunning \in LeRuns /\ AppInOrder(leDisk', NotRunning)
  BY RunsAre DEF NotRunning, AppInOrder
<1>7. RunsTyped' /\ AppsInOrder'
  BY <1>1, <1>5, <1>6, ProcessMoves
<1>8. leOverwritten \subseteq leOverwritten' /\ \A x \in leOverwritten' : x \in leOverwritten \/ x[2] = "torn"
  BY <1>1
<1>9. AppReadsFirst'
  BY <1>8 DEF KeysInv, AppReadsFirst
<1>10. DataKept'
  <2> SUFFICES ASSUME NEW f \in LeNames
               PROVE  \/ leLatest[f] \in {0, leDisk'[f].text} \cup {x.text : x \in leBackups[f]} \cup {a[2].text : a \in {b \in leAside : b[1] = f}}
                      \/ \E x \in leOverwritten' : x[1] = f
    BY <1>1 DEF DataKept
  <2>1. \/ leLatest[f] \in {0, leDisk[f].text} \cup {x.text : x \in leBackups[f]} \cup {a[2].text : a \in {b \in leAside : b[1] = f}}
        \/ \E x \in leOverwritten : x[1] = f
    BY DEF KeysInv, DataKept
  <2>2. CASE leDisk'[f] = leDisk[f]
    BY <1>8, <2>1, <2>2
  <2>3. CASE f = "history" /\ <<"history", "torn">> \in leOverwritten'
    <3>1. <<"history", "torn">>[1] = f
      BY <2>3
    <3>2. QED  BY <2>3, <3>1
  <2>4. QED  BY <1>4, <2>2, <2>3
<1>11. QED  BY <1>3, <1>5, <1>7, <1>9, <1>10 DEF KeysInv

LEMMA KeychainKeeps == ASSUME KeysInv, KeychainChanges PROVE KeysInv'
<1>1. UNCHANGED <<leDisk, leBackups, leAside, leLock, leProc, leLatest, leOverwritten, leSavesLeft>>
  BY DEF KeychainChanges
<1>2. KeychainTyped'
  BY DEF KeychainChanges, KeysInv, KeychainTyped, LeKeys
<1>3. CountsTyped'
  BY DEF KeychainChanges, Fault, KeysInv, CountsTyped
<1>4. QED  BY <1>1, <1>2, <1>3 DEF KeysInv, DiskTyped, BackupsTyped, RunsTyped, LatestTyped, AppsInOrder, AppInOrder,
              Rewritten, DataKept, AppReadsFirst

LEMMA KeysInitially == LocalEncryptionInit => KeysInv
<1> SUFFICES ASSUME LocalEncryptionInit PROVE KeysInv
  OBVIOUS
<1>1. KeychainTyped
  BY DEF LocalEncryptionInit, KeychainTyped, LeKeys
<1>2. \A f \in LeNames : leDisk[f] \in LeTexts
  <2>1. Absent \in LeTexts
    BY DEF Absent, LeTexts, LeForms, LeKeys
  <2>2. \A c \in [form : {"plain"}, key : {NoKey}, text : {1}] : c \in LeTexts
    BY DEF LeTexts, LeForms, LeKeys
  <2>3. \A c \in [form : {"v1"}, key : {"old"}, text : {1}] : c \in LeTexts
    BY DEF LeTexts, LeForms, LeKeys
  <2>4. \A c \in [form : {"v2", "newer"}, key : {"k1"}, text : {1}] : c \in LeTexts
    BY DEF LeTexts, LeForms, LeKeys
  <2>5. QED  BY <2>1, <2>2, <2>3, <2>4 DEF LocalEncryptionInit
<1>3. DiskTyped
  BY <1>2 DEF LocalEncryptionInit, DiskTyped
<1>4. BackupsTyped /\ CountsTyped
  BY LocalEncryptionAssumption DEF LocalEncryptionInit, BackupsTyped, CountsTyped
<1>5. \A f \in LeNames : leDisk[f].text \in Nat
  BY <1>2 DEF LeTexts
<1>6. LatestTyped
  BY <1>5 DEF LocalEncryptionInit, LatestTyped
<1>7. NotRunning \in LeRuns /\ AppInOrder(leDisk, NotRunning)
  <2>1. Absent \in LeTexts
    BY DEF Absent, LeTexts, LeForms, LeKeys
  <2>2. QED  BY <2>1 DEF NotRunning, LeRuns, LeKeys, LeOutcomes, LePcs, LeTodos, AppInOrder
<1>8. RunsTyped /\ AppsInOrder
  BY <1>7 DEF LocalEncryptionInit, RunsTyped, AppsInOrder
<1>9. DataKept /\ AppReadsFirst
  BY DEF LocalEncryptionInit, DataKept, AppReadsFirst
<1>10. QED  BY <1>1, <1>3, <1>4, <1>6, <1>8, <1>9 DEF KeysInv

LEMMA KeysStep == KeysInv /\ [LocalEncryptionNext]_levars => KeysInv'
<1> SUFFICES ASSUME KeysInv, [LocalEncryptionNext]_levars PROVE KeysInv'
  OBVIOUS
<1>1. CASE UNCHANGED levars
  BY <1>1 DEF levars, KeysInv, KeychainTyped, CountsTyped, DiskTyped, BackupsTyped, RunsTyped, LatestTyped, AppsInOrder,
              AppInOrder, Rewritten, DataKept, AppReadsFirst
<1>2. CASE KeychainChanges
  BY <1>2, KeychainKeeps
<1>3. ASSUME NEW p \in LeProcs,
             \/ Start(p) \/ EnsureLocalRootKey(p) \/ SetKeys(p)
             \/ MigrateReads(p) \/ MigrateBacksUp(p) \/ MigrateRenames(p) \/ Loads(p)
             \/ RetriesOnRequest(p) \/ SavesFile(p)
             \/ (LeKind[p] = "app" /\ (StartupRecoveryRetry(p) \/ MoveAsideAndRestart(p)))
             \/ ProcessDies(p)
      PROVE  KeysInv'
  BY <1>3, StartKeeps, RootKeyKeeps, SetKeysKeeps, MigrateReadsKeeps, BacksUpKeeps, RenamesKeeps, LoadsKeeps, RetryKeeps,
     FileSaveKeeps, AsideKeeps, DiesKeeps
<1>4. QED  BY <1>1, <1>2, <1>3 DEF LocalEncryptionNext

(* For any processes, saves and faults: what was last saved of a file is   *)
(* found in it, in its backups or in the folder moved aside, unless it was *)
(* written over in one of the three ways the code leaves open; the app     *)
(* saves over no file it has not read, and once it serves no file is as an *)
(* older version wrote it.                                                 *)
THEOREM KeysCorrect == LocalEncryptionSpec => []KeysSafe
<1>1. KeysInv => KeysSafe
  <2>1. KeysInv => NothingOld
    BY DEF KeysInv, AppsInOrder, AppInOrder, Rewritten, NothingOld
  <2>2. QED  BY <2>1 DEF KeysInv, KeysSafe
<1>2. QED  BY <1>1, KeysInitially, KeysStep, PTL DEF LocalEncryptionSpec

(* A D1 project.  The first block is the one written by hand, which no      *)
(* entry names; no two blocks have one database.                           *)
D1Options == [db : D1Bases \cup {"none"}, bind : D1Bindings \cup {"none"}, dev : BOOLEAN, legacy : BOOLEAN]
D1Block == [db : D1Bases, bind : D1Bindings]
OptionsTyped ==
    /\ d1Shared \in BOOLEAN
    /\ d1Record \in [D1Sources -> D1Options]
    /\ \A s \in D1Sources : /\ d1Record[s].db = "none" <=> d1Record[s].bind = "none"
                            /\ d1Record[s].dev => d1Record[s].db # "none"
BlocksIn(toml) ==
    /\ toml \in Seq(D1Block \cup {Hand})
    /\ Len(toml) >= 1 /\ toml[1] = Hand
    /\ \A i \in DOMAIN toml : i # 1 => toml[i] \in D1Block
BlocksDiffer(toml) == \A i, j \in DOMAIN toml : toml[i].db = toml[j].db => i = j
SourcesApart == d1Shared \/ ~Shared(d1Record)
BlocksFound(records, toml) == \A s \in D1Sources : records[s].dev =>
    \E i \in DOMAIN toml : toml[i] = [db |-> records[s].db, bind |-> records[s].bind]
D1Inv ==
    /\ OptionsTyped /\ BlocksIn(d1Toml) /\ BlocksDiffer(d1Toml)
    /\ SourcesApart
    /\ d1Shared \/ BlocksFound(d1Record, d1Toml)

(* An entry takes the place of a block that has its database or its        *)
(* binding, or had them; of another only when no block has its database.   *)
LEMMA UpsertIs ==
  ASSUME NEW toml \in Seq(D1Block \cup {Hand}), NEW entry, NEW was
  PROVE  LET upserted == UpsertDatabaseEntry(toml, entry, was) IN
         \/ upserted = Append(toml, entry) /\ \A j \in DOMAIN toml : toml[j].db # entry.db
         \/ \E i \in DOMAIN toml :
              /\ upserted = [toml EXCEPT ![i] = entry]
              /\ toml[i].db \in {entry.db, was.db} \/ toml[i].bind \in {entry.bind, was.bind}
              /\ \A j \in DOMAIN toml : toml[j].db = entry.db => toml[i].db = entry.db
<1> DEFINE found == Attempts(toml, entry, was)
           hits == {k \in DOMAIN found : found[k] # {}}
           first == Min(hits)
           at == Min(found[first])
<1>1. DOMAIN found = 1..4 /\ found[1] = WithBase(toml, entry.db) /\ found[2] = WithBase(toml, was.db)
      /\ found[3] = WithBinding(toml, entry.bind) /\ found[4] = WithBinding(toml, was.bind)
  BY DEF Attempts
<1>2. \A k \in 1..4 : found[k] \subseteq DOMAIN toml
  <2>1. WithBase(toml, entry.db) \subseteq DOMAIN toml /\ WithBase(toml, was.db) \subseteq DOMAIN toml
    BY DEF WithBase
  <2>2. WithBinding(toml, entry.bind) \subseteq DOMAIN toml /\ WithBinding(toml, was.bind) \subseteq DOMAIN toml
    BY DEF WithBinding
  <2> HIDE DEF found
  <2>3. QED  BY <1>1, <2>1, <2>2
<1>3. CASE hits = {}
  <2>1. found[1] = {}
    BY <1>1, <1>3
  <2>2. \A j \in DOMAIN toml : toml[j].db # entry.db
    BY <1>1, <2>1 DEF WithBase
  <2>3. UpsertDatabaseEntry(toml, entry, was) = Append(toml, entry)
    BY <1>3 DEF UpsertDatabaseEntry
  <2>4. QED  BY <2>2, <2>3
<1>4. CASE hits # {}
  <2>1. first \in hits /\ \A k \in hits : first <= k
    <3>1. hits \subseteq Nat
      BY <1>1
    <3> HIDE DEF hits
    <3>2. QED  BY <1>4, <3>1, MinIs
  <2>2. first \in 1..4 /\ found[first] # {}
    BY <1>1, <2>1
  <2>3. at \in found[first]
    <3>1. found[first] \subseteq Nat
      <4>1. DOMAIN toml \subseteq Nat
        OBVIOUS
      <4> HIDE DEF first, found
      <4>2. QED  BY <1>2, <2>2, <4>1
    <3> HIDE DEF first, found
    <3>2. QED  BY <2>2, <3>1, MinIs
  <2>4. at \in DOMAIN toml
    BY <1>2, <2>2, <2>3
  <2>5. UpsertDatabaseEntry(toml, entry, was) = [toml EXCEPT ![at] = entry]
    BY <1>4 DEF UpsertDatabaseEntry, ReplaceDatabaseEntry
  <2>6. \A j \in DOMAIN toml : toml[j].db = entry.db => first = 1
    <3> SUFFICES ASSUME NEW j \in DOMAIN toml, toml[j].db = entry.db PROVE first = 1
      OBVIOUS
    <3>1. found[1] # {}
      BY <1>1 DEF WithBase
    <3>2. 1 \in hits
      BY <1>1, <3>1
    <3> HIDE DEF hits, first, found
    <3>3. QED  BY <2>1, <2>2, <3>2
  <2> HIDE DEF found, first, at, hits
  <2>7. \/ at \in WithBase(toml, entry.db) \/ at \in WithBase(toml, was.db)
        \/ at \in WithBinding(toml, entry.bind) \/ at \in WithBinding(toml, was.bind)
    BY <1>1, <2>2, <2>3
  <2>8. toml[at].db \in {entry.db, was.db} \/ toml[at].bind \in {entry.bind, was.bind}
    BY <2>7 DEF WithBase, WithBinding
  <2>9. first = 1 => toml[at].db = entry.db
    BY <1>1, <2>3 DEF WithBase
  <2>10. QED  BY <2>4, <2>5, <2>6, <2>8, <2>9
<1>5. QED  BY <1>3, <1>4

(* The blocks after a save, of which the hand's is none's.                 *)
LEMMA UpsertKeeps ==
  ASSUME NEW toml, BlocksIn(toml), BlocksDiffer(toml),
         NEW entry \in D1Block, NEW was \in D1Options,
         NEW after, after = UpsertDatabaseEntry(toml, entry, was)
  PROVE  /\ BlocksIn(after) /\ BlocksDiffer(after)
         /\ \E i \in DOMAIN after : after[i] = entry
         /\ \A i \in DOMAIN toml : i \in DOMAIN after /\
              (\/ after[i] = toml[i]
               \/ toml[i].db \in {entry.db, was.db} \/ toml[i].bind \in {entry.bind, was.bind})
<1>1. toml \in Seq(D1Block \cup {Hand}) /\ DOMAIN toml = 1..Len(toml) /\ Len(toml) \in Nat /\ Len(toml) >= 1
  BY DEF BlocksIn
<1>2. Hand \notin D1Block /\ Hand.db \notin {entry.db, was.db} /\ Hand.bind \notin {entry.bind, was.bind}
  BY D1Assumption DEF Hand, D1Block, D1Options
<1>3. CASE after = Append(toml, entry) /\ \A j \in DOMAIN toml : toml[j].db # entry.db
  <2>1. /\ after \in Seq(D1Block \cup {Hand}) /\ Len(after) = Len(toml) + 1 /\ DOMAIN after = 1..(Len(toml) + 1)
        /\ after[Len(toml) + 1] = entry /\ \A i \in DOMAIN toml : after[i] = toml[i]
    BY <1>1, <1>3
  <2>2. BlocksIn(after)
    BY <1>1, <2>1 DEF BlocksIn
  <2>3. BlocksDiffer(after)
    BY <1>1, <1>3, <2>1 DEF BlocksDiffer
  <2>4. QED  BY <1>1, <2>1, <2>2, <2>3
<1>4. ASSUME NEW i \in DOMAIN toml, after = [toml EXCEPT ![i] = entry],
             toml[i].db \in {entry.db, was.db} \/ toml[i].bind \in {entry.bind, was.bind},
             \A j \in DOMAIN toml : toml[j].db = entry.db => toml[i].db = entry.db
      PROVE  /\ BlocksIn(after) /\ BlocksDiffer(after)
             /\ \E k \in DOMAIN after : after[k] = entry
             /\ \A k \in DOMAIN toml : k \in DOMAIN after /\
                  (\/ after[k] = toml[k]
                   \/ toml[k].db \in {entry.db, was.db} \/ toml[k].bind \in {entry.bind, was.bind})
  <2>1. i # 1
    BY <1>2, <1>4 DEF BlocksIn
  <2>2. /\ after \in Seq(D1Block \cup {Hand}) /\ Len(after) = Len(toml) /\ DOMAIN after = DOMAIN toml
        /\ after[i] = entry /\ \A k \in DOMAIN toml : k # i => after[k] = toml[k]
    BY <1>1, <1>4
  <2>3. BlocksIn(after)
    BY <1>1, <2>1, <2>2 DEF BlocksIn
  <2>4. \A k \in DOMAIN toml : toml[k].db = entry.db => k = i
    BY <1>4 DEF BlocksDiffer
  <2>5. BlocksDiffer(after)
    BY <2>2, <2>4 DEF BlocksDiffer
  <2>6. QED  BY <1>4, <2>2, <2>3, <2>5
<1>5. QED  BY <1>1, <1>3, <1>4, UpsertIs

LEMMA SaveD1Keeps ==
  ASSUME D1Inv, NEW s \in D1Sources, SaveD1(s)
  PROVE  D1Inv'
<1>1. PICK db \in D1Bases, bind \in D1Bindings, mode \in {"dev", "off", "kept", "gone"} : MetadataPrepared(s, db, bind, mode)
  BY DEF SaveD1
<1> DEFINE entry == [db |-> db, bind |-> bind]
           saved == [db |-> db, bind |-> bind, dev |-> mode = "dev", legacy |-> mode = "kept"]
<1>2. entry \in D1Block /\ saved \in D1Options /\ entry.db = db /\ entry.bind = bind /\ db # "none" /\ bind # "none"
      /\ saved.db = db /\ saved.bind = bind /\ saved.dev \in BOOLEAN /\ (saved.dev <=> mode = "dev")
  BY D1Assumption DEF D1Block, D1Options
<1>3. d1Record' = [d1Record EXCEPT ![s] = saved]
  BY <1>1 DEF MetadataPrepared
<1>4. /\ mode = "dev" => d1Toml' = UpsertDatabaseEntry(d1Toml, entry, d1Record[s])
      /\ d1Toml' = UpsertDatabaseEntry(d1Toml, entry, d1Record[s]) \/ d1Toml' = d1Toml
  BY <1>1 DEF MetadataPrepared
<1>5. d1Shared' = (d1Shared \/ Shared(d1Record'))
  BY <1>1 DEF MetadataPrepared
<1> HIDE DEF entry, saved
<1>6. d1Record \in [D1Sources -> D1Options] /\ BlocksIn(d1Toml) /\ BlocksDiffer(d1Toml)
  BY DEF D1Inv, OptionsTyped
<1>7. d1Record' \in [D1Sources -> D1Options] /\ d1Record'[s] = saved /\ \A t \in D1Sources : t # s => d1Record'[t] = d1Record[t]
  BY <1>2, <1>3, <1>6
<1>8. OptionsTyped'
  <2>1. d1Shared' \in BOOLEAN
    BY <1>5 DEF D1Inv, OptionsTyped
  <2>2. QED  BY <1>2, <1>7, <2>1 DEF D1Inv, OptionsTyped
<1>9. SourcesApart'
  BY <1>5 DEF SourcesApart
<1>10. PICK was \in D1Options : was = d1Record[s]
  BY <1>6
<1>11. BlocksIn(d1Toml') /\ BlocksDiffer(d1Toml')
  <2>1. PICK after : after = UpsertDatabaseEntry(d1Toml, entry, was)
    OBVIOUS
  <2>2. BlocksIn(after) /\ BlocksDiffer(after)
    BY <1>2, <1>6, <2>1, UpsertKeeps
  <2>3. QED  BY <1>4, <1>6, <1>10, <2>1, <2>2
<1>12. ASSUME ~d1Shared'
       PROVE  BlocksFound(d1Record', d1Toml')
  <2>1. ~d1Shared /\ ~Shared(d1Record') /\ ~Shared(d1Record) /\ BlocksFound(d1Record, d1Toml)
    BY <1>5, <1>12 DEF D1Inv, SourcesApart
  <2>2. ASSUME NEW t \in D1Sources, d1Record'[t].dev
        PROVE  \E i \in DOMAIN d1Toml' : d1Toml'[i] = [db |-> d1Record'[t].db, bind |-> d1Record'[t].bind]
    <3>1. CASE t = s
      <4>1. mode = "dev"
        BY <1>2, <1>7, <2>2, <3>1
      <4>2. PICK after : after = UpsertDatabaseEntry(d1Toml, entry, was)
        OBVIOUS
      <4>3. \E i \in DOMAIN after : after[i] = entry
        BY <1>2, <1>6, <4>2, UpsertKeeps
      <4>4. d1Toml' = after
        BY <1>4, <1>10, <4>1, <4>2
      <4>5. [db |-> d1Record'[t].db, bind |-> d1Record'[t].bind] = entry
        BY <1>2, <1>7, <3>1 DEF entry
      <4>6. QED  BY <4>3, <4>4, <4>5
    <3>2. CASE t # s
      <4>1. d1Record'[t] = d1Record[t] /\ d1Record[t].dev /\ d1Record[t].db # "none"
        BY <1>7, <2>2, <3>2 DEF D1Inv, OptionsTyped
      <4>2. PICK i \in DOMAIN d1Toml : d1Toml[i] = [db |-> d1Record[t].db, bind |-> d1Record[t].bind]
        BY <2>1, <4>1 DEF BlocksFound
      <4>3. d1Record[t].db # db /\ d1Record[t].bind # bind
        BY <1>2, <1>7, <2>1, <3>2, <4>1 DEF Shared
      <4>4. d1Record[t].db # was.db /\ d1Record[t].bind # was.bind
        BY <1>10, <2>1, <3>2, <4>1 DEF Shared
      <4>5. d1Toml[i].db \notin {entry.db, was.db} /\ d1Toml[i].bind \notin {entry.bind, was.bind}
        BY <1>2, <4>2, <4>3, <4>4
      <4>6. PICK after : after = UpsertDatabaseEntry(d1Toml, entry, was)
        OBVIOUS
      <4>7. i \in DOMAIN after /\ after[i] = d1Toml[i]
        BY <1>2, <1>6, <4>5, <4>6, UpsertKeeps
      <4>8. i \in DOMAIN d1Toml' /\ d1Toml'[i] = d1Toml[i]
        BY <1>4, <1>10, <4>6, <4>7
      <4>9. QED  BY <4>1, <4>2, <4>8
    <3>3. QED  BY <3>1, <3>2
  <2>3. QED  BY <2>2 DEF BlocksFound
<1>13. QED  BY <1>8, <1>9, <1>11, <1>12 DEF D1Inv

LEMMA D1Initially == D1Init => D1Inv
<1> SUFFICES ASSUME D1Init PROVE D1Inv
  OBVIOUS
<1>1. OptionsTyped
  <2>1. PICK legacy \in BOOLEAN :
             d1Record = [s \in D1Sources |-> [db |-> "none", bind |-> "none", dev |-> FALSE, legacy |-> legacy]]
    BY DEF D1Init
  <2>2. d1Record \in [D1Sources -> D1Options]
    BY <2>1 DEF D1Options
  <2>3. QED  BY <2>1, <2>2 DEF D1Init, OptionsTyped
<1>2. BlocksIn(d1Toml) /\ BlocksDiffer(d1Toml)
  BY DEF D1Init, BlocksIn, BlocksDiffer
<1>3. SourcesApart /\ BlocksFound(d1Record, d1Toml)
  BY DEF D1Init, SourcesApart, Shared, BlocksFound
<1>4. QED  BY <1>1, <1>2, <1>3 DEF D1Inv

LEMMA D1Step == D1Inv /\ [D1Next]_d1vars => D1Inv'
<1>1. ASSUME D1Inv, UNCHANGED d1vars PROVE D1Inv'
  BY <1>1 DEF d1vars, D1Inv, OptionsTyped, SourcesApart
<1>2. QED  BY <1>1, SaveD1Keeps DEF D1Next

LEMMA D1Resolves == ASSUME D1Inv PROVE DevDatabaseResolves
<1>1. DOMAIN d1Toml = 1..Len(d1Toml) /\ 1 \in DOMAIN d1Toml /\ d1Toml[1] = Hand
  BY DEF D1Inv, BlocksIn
<1>2. Hand \in ToSet(d1Toml)
  BY <1>1 DEF ToSet
<1>3. ASSUME ~d1Shared, NEW s \in D1Sources, d1Record[s].dev
      PROVE  /\ Cardinality({i \in DOMAIN d1Toml : d1Toml[i].db = d1Record[s].db}) = 1
             /\ [db |-> d1Record[s].db, bind |-> d1Record[s].bind] \in ToSet(d1Toml)
  <2>1. PICK i \in DOMAIN d1Toml : d1Toml[i] = [db |-> d1Record[s].db, bind |-> d1Record[s].bind]
    BY <1>3 DEF D1Inv, BlocksFound
  <2>2. {j \in DOMAIN d1Toml : d1Toml[j].db = d1Record[s].db} = {i}
    BY <2>1 DEF D1Inv, BlocksDiffer
  <2>3. QED  BY <2>1, <2>2, FS_Singleton DEF ToSet
<1>4. QED  BY <1>2, <1>3 DEF DevDatabaseResolves

(* The migrations.  Statements in flight together have crossed, and so has *)
(* one in flight and a file of a later statement; a name chosen is a       *)
(* file's only if the two crossed.  While every second has one name, the   *)
(* files of statements that did not cross are in their order, and what is  *)
(* not deployed ran after what is.                                         *)
MigrationFiles == [at : Nat, label : Kinds, n : Nat, stmt : Nat]
Overlap(f, g) ==
    \/ f.stmt < g.stmt /\ <<f.stmt, g.stmt>> \in mgCrossed
    \/ g.stmt < f.stmt /\ <<g.stmt, f.stmt>> \in mgCrossed
Follows(f, g) == f.stmt < g.stmt \/ (g.stmt < f.stmt /\ <<g.stmt, f.stmt>> \in mgCrossed)
MigrationsTyped ==
    /\ mgRan \in Seq([kind : Kinds, dir : BOOLEAN]) /\ mgRemote \in Seq(MigrationFiles)
    /\ mgFiles \subseteq MigrationFiles /\ IsFiniteSet(mgFiles)
    /\ mgCall \in [MgCalls -> [pc : {"idle", "ran", "named"}, file : MigrationFiles]]
    /\ mgSecond \in Nat /\ mgBurst \in BOOLEAN
StatementsRan ==
    /\ \A f \in mgFiles : f.stmt <= Len(mgRan)
    /\ \A c \in InFlight : mgCall[c].file.stmt <= Len(mgRan)
StatementsApart ==
    /\ \A f, g \in mgFiles : f.stmt = g.stmt => f = g
    /\ \A c, d \in InFlight : c # d => Overlap(mgCall[c].file, mgCall[d].file)
    /\ \A c \in InFlight, f \in mgFiles : Follows(f, mgCall[c].file)
NamesTaken ==
    \A c \in Choosing, f \in mgFiles : SameFile(f, mgCall[c].file) =>
      mgBurst /\ Overlap(mgCall[c].file, f)
StatementFiled(s) ==
    \/ \E f \in mgFiles : f.stmt = s
    \/ \E c \in InFlight : mgCall[c].file.stmt = s
    \/ s \in mgUnfiled \/ Overwritten(s)
StatementsFiled == \A s \in DOMAIN mgRan : Migrates(mgRan[s]) => StatementFiled(s)
SecondsApart ==
    /\ \A f \in mgFiles : f.at <= mgSecond
    /\ \A c \in Choosing : mgCall[c].file.at <= mgSecond
    /\ \A f, g \in mgFiles : f.at = g.at => f = g
    /\ \A c, d \in Choosing : mgCall[c].file.at = mgCall[d].file.at => c = d
    /\ \A c \in Choosing, f \in mgFiles : f.at # mgCall[c].file.at
FilesInOrder ==
    /\ \A f, g \in mgFiles : f.stmt < g.stmt => f.at < g.at \/ <<f.stmt, g.stmt>> \in mgCrossed
    /\ \A c \in Choosing, f \in mgFiles : f.stmt < mgCall[c].file.stmt =>
         f.at < mgCall[c].file.at \/ <<f.stmt, mgCall[c].file.stmt>> \in mgCrossed
DeployedInOrder ==
    /\ \A i \in DOMAIN mgRemote : mgRemote[i] \in mgFiles
    /\ \A i, j \in DOMAIN mgRemote : i < j => Follows(mgRemote[i], mgRemote[j])
    /\ \A f \in mgFiles : (\E i \in DOMAIN mgRemote : mgRemote[i] = f) \/ \A i \in DOMAIN mgRemote : Follows(mgRemote[i], f)
MigrationsInv ==
    /\ MigrationsTyped /\ StatementsRan /\ StatementsApart /\ NamesTaken /\ StatementsFiled
    /\ mgBurst \/ (SecondsApart /\ FilesInOrder /\ DeployedInOrder)

LEMMA MigrationNamed ==
  ASSUME MigrationsInv, NEW label, NEW name, name = MigrationFilename(label)
  PROVE  /\ name.at = mgSecond /\ name.label = label /\ name.n \in Nat
         /\ \A f \in mgFiles : ~SameFile(f, name)
<1> DEFINE named == {g \in mgFiles : g.at = mgSecond /\ g.label = label}
           taken == {f.n : f \in named}
           n == IF taken = {} THEN 1 ELSE Max(taken) + 1
<1>1. name = [at |-> mgSecond, label |-> label, n |-> n]
  BY DEF MigrationFilename
<1>2. taken \subseteq Nat
  BY DEF MigrationsInv, MigrationsTyped, MigrationFiles
<1>3. \A f \in mgFiles : f.at = mgSecond /\ f.label = label => f.n \in taken
  OBVIOUS
<1>4. IsFiniteSet(taken)
  <2>1. IsFiniteSet(named)
    BY FS_Subset DEF MigrationsInv, MigrationsTyped
  <2>2. [f \in named |-> f.n] \in Surjection(named, taken)
    BY DEF Surjection
  <2>3. QED  BY <2>1, <2>2, FS_Surjection
<1> HIDE DEF named, taken
<1>5. CASE taken = {}
  BY <1>1, <1>3, <1>5 DEF SameFile
<1>6. CASE taken # {}
  <2>1. Max(taken) \in taken /\ \A y \in taken : y <= Max(taken)
    BY <1>2, <1>4, <1>6, MaxIs
  <2>2. PICK most \in Nat : most = Max(taken)
    BY <1>2, <2>1
  <2>3. n = most + 1 /\ most + 1 \notin taken
    BY <1>2, <1>6, <2>1, <2>2
  <2> HIDE DEF n
  <2>4. QED  BY <1>1, <1>3, <2>2, <2>3 DEF SameFile
<1>7. QED  BY <1>5, <1>6

LEMMA MigrationsParts ==
  ASSUME MigrationsTyped
  PROVE  /\ Len(mgRan) \in Nat /\ DOMAIN mgRan = 1 .. Len(mgRan)
         /\ \A f \in mgFiles : f.at \in Nat /\ f.n \in Nat /\ f.stmt \in Nat
         /\ \A c \in MgCalls : mgCall[c].file.at \in Nat /\ mgCall[c].file.n \in Nat /\ mgCall[c].file.stmt \in Nat
  BY DEF MigrationsTyped, MigrationFiles

LEMMA StatementKeeps == ASSUME MigrationsInv, NEW c \in MgCalls, ExecuteDev(c) PROVE MigrationsInv'
<1>1. PICK kind \in Kinds :
         /\ mgRan' = Append(mgRan, Ran(kind))
         /\ \/ /\ Migrates(Ran(kind))
               /\ mgCall' = [mgCall EXCEPT ![c] = [pc |-> "ran", file |-> Unnamed(kind, NextStmt)]]
               /\ mgCrossed' = mgCrossed \cup {<<mgCall[d].file.stmt, NextStmt>> : d \in InFlight}
            \/ ~Migrates(Ran(kind)) /\ mgCall' = mgCall /\ mgCrossed' = mgCrossed
  BY DEF ExecuteDev
<1> DEFINE ran == Ran(kind)
           stmt == NextStmt
           file == Unnamed(kind, NextStmt)
<1>2. MigrationsTyped
  BY DEF MigrationsInv
<1>3. /\ Len(mgRan) \in Nat /\ stmt \in Nat /\ DOMAIN mgRan = 1 .. Len(mgRan)
      /\ mgRan' = Append(mgRan, ran) /\ mgRan' \in Seq([kind : Kinds, dir : BOOLEAN]) /\ Len(mgRan') = stmt
      /\ DOMAIN mgRan' = 1 .. stmt /\ mgRan'[stmt] = ran /\ \A s \in 1 .. Len(mgRan) : mgRan'[s] = mgRan[s]
  <2>1. ran \in [kind : Kinds, dir : BOOLEAN]
    BY DEF Ran
  <2>2. mgRan \in Seq([kind : Kinds, dir : BOOLEAN])
    BY <1>2 DEF MigrationsTyped
  <2> HIDE DEF ran
  <2>3. mgRan' = Append(mgRan, ran)
    BY <1>1 DEF ran
  <2>4. QED  BY <2>1, <2>2, <2>3 DEF NextStmt
<1>4. file \in MigrationFiles /\ file.stmt = stmt
  BY <1>3 DEF MigrationFiles, Unnamed
<1>5. /\ mgCall[c].pc = "idle"
      /\ mgUnfiled' = mgUnfiled /\ mgFiles' = mgFiles /\ mgSecond' = mgSecond
      /\ mgBurst' = mgBurst /\ mgRemote' = mgRemote
  BY DEF ExecuteDev
<1>6. \/ /\ mgCall' = [mgCall EXCEPT ![c] = [pc |-> "ran", file |-> file]]
         /\ mgCrossed' = mgCrossed \cup {<<mgCall[d].file.stmt, stmt>> : d \in InFlight}
      \/ ~Migrates(ran) /\ mgCall' = mgCall /\ mgCrossed' = mgCrossed
  BY <1>1
<1> HIDE DEF ran, stmt, file
<1>7. MigrationsTyped'
  <2>1. mgCall' \in [MgCalls -> [pc : {"idle", "ran", "named"}, file : MigrationFiles]]
    BY <1>2, <1>4, <1>6 DEF MigrationsTyped
  <2>2. QED  BY <1>2, <1>3, <1>5, <2>1 DEF MigrationsTyped
<1>8. /\ c \notin InFlight /\ c \notin Choosing /\ InFlight \subseteq MgCalls /\ Choosing \subseteq InFlight
      /\ Choosing' = Choosing /\ \A d \in MgCalls : d # c => mgCall'[d] = mgCall[d]
      /\ \/ InFlight' = InFlight /\ mgCall' = mgCall
         \/ /\ InFlight' = InFlight \cup {c} /\ mgCall'[c].file = file
            /\ \A d \in InFlight : <<mgCall[d].file.stmt, stmt>> \in mgCrossed'
  <2>1. c \notin InFlight /\ c \notin Choosing /\ InFlight \subseteq MgCalls /\ Choosing \subseteq InFlight
    BY <1>5 DEF InFlight, Choosing
  <2>2. CASE mgCall' = mgCall
    BY <2>1, <2>2 DEF InFlight, Choosing
  <2>3. CASE /\ mgCall' = [mgCall EXCEPT ![c] = [pc |-> "ran", file |-> file]]
             /\ mgCrossed' = mgCrossed \cup {<<mgCall[d].file.stmt, stmt>> : d \in InFlight}
    <3>1. mgCall'[c] = [pc |-> "ran", file |-> file] /\ \A d \in MgCalls : d # c => mgCall'[d] = mgCall[d]
      BY <1>2, <2>3 DEF MigrationsTyped
    <3>2. mgCall'[c].pc = "ran" /\ mgCall'[c].file = file
      BY <3>1
    <3>3. Choosing' = Choosing /\ InFlight' = InFlight \cup {c}
      BY <2>1, <3>1, <3>2 DEF InFlight, Choosing
    <3>4. \A d \in InFlight : <<mgCall[d].file.stmt, stmt>> \in mgCrossed'
      BY <2>3
    <3>5. QED  BY <2>1, <3>1, <3>2, <3>3, <3>4
  <2>4. QED  BY <1>6, <2>2, <2>3
<1>9. /\ \A p \in mgCrossed : p \in mgCrossed'
      /\ \A d \in MgCalls : d # c => mgCall'[d] = mgCall[d]
  BY <1>6, <1>8
<1>10. \A f, g : (Overlap(f, g) => Overlap(f, g)') /\ (Follows(f, g) => Follows(f, g)')
  BY <1>9 DEF Overlap, Follows
<1>11. StatementsRan'
  <2>1. \A s \in Nat : s <= Len(mgRan) => s <= stmt
    BY <1>3 DEF stmt, NextStmt
  <2>2. \A f \in mgFiles : f.stmt <= stmt
    BY <1>2, <2>1, MigrationsParts DEF MigrationsInv, StatementsRan
  <2>3. \A d \in InFlight : mgCall[d].file.stmt <= stmt
    BY <1>2, <2>1, MigrationsParts DEF MigrationsInv, StatementsRan, InFlight
  <2>4. stmt <= stmt
    BY <1>3
  <2>5. QED  BY <1>3, <1>4, <1>5, <1>8, <2>2, <2>3, <2>4 DEF StatementsRan
<1>12. /\ \A f \in mgFiles : f.stmt \in Nat /\ f.stmt < stmt
       /\ \A d \in InFlight : mgCall[d].file.stmt \in Nat /\ mgCall[d].file.stmt < stmt
  BY <1>2, <1>3, MigrationsParts DEF MigrationsInv, StatementsRan, InFlight, stmt, NextStmt
<1>13. StatementsApart'
  <2>1. StatementsApart
    BY DEF MigrationsInv
  <2>2. \A f, g \in mgFiles' : f.stmt = g.stmt => f = g
    BY <1>5, <2>1 DEF StatementsApart
  <2>3. ASSUME NEW d \in InFlight', NEW e \in InFlight', d # e
        PROVE  Overlap(mgCall[d].file, mgCall[e].file)'
    <3>1. CASE d \in InFlight /\ e \in InFlight
      BY <1>8, <1>10, <2>1, <2>3, <3>1 DEF StatementsApart
    <3>2. CASE d = c /\ e \in InFlight
      BY <1>3, <1>4, <1>8, <1>12, <2>3, <3>2 DEF Overlap
    <3>3. CASE e = c /\ d \in InFlight
      BY <1>3, <1>4, <1>8, <1>12, <2>3, <3>3 DEF Overlap
    <3>4. QED  BY <1>8, <2>3, <3>1, <3>2, <3>3
  <2>4. ASSUME NEW d \in InFlight', NEW f \in mgFiles'
        PROVE  Follows(f, mgCall[d].file)'
    <3>1. CASE d \in InFlight
      BY <1>5, <1>8, <1>10, <2>1, <3>1 DEF StatementsApart
    <3>2. CASE d = c /\ d \notin InFlight
      BY <1>4, <1>5, <1>8, <1>12, <2>4, <3>2 DEF Follows
    <3>3. QED  BY <1>8, <2>4, <3>1, <3>2
  <2>5. QED  BY <2>2, <2>3, <2>4 DEF StatementsApart
<1>14. NamesTaken'
  BY <1>5, <1>8, <1>10 DEF MigrationsInv, NamesTaken
<1>15. StatementsFiled'
  <2> SUFFICES ASSUME NEW s \in DOMAIN mgRan', Migrates(mgRan'[s]) PROVE StatementFiled(s)'
    BY DEF StatementsFiled
  <2>1. CASE s \in 1 .. Len(mgRan)
    <3>1. StatementFiled(s)
      BY <1>3, <2>1 DEF MigrationsInv, StatementsFiled
    <3>2. Overwritten(s) => Overwritten(s)'
      BY <1>5, <1>9 DEF Overwritten
    <3>3. \A d \in InFlight : d \in InFlight' /\ mgCall'[d] = mgCall[d]
      BY <1>8
    <3>4. QED  BY <1>5, <3>1, <3>2, <3>3 DEF StatementFiled
  <2>2. CASE s = stmt
    BY <1>3, <1>4, <1>6, <1>7, <1>8, <2>2 DEF StatementFiled, Migrates, InFlight, MigrationsTyped
  <2>3. QED  BY <1>3, <2>1, <2>2 DEF stmt, NextStmt
<1>16. ASSUME ~mgBurst PROVE SecondsApart' /\ FilesInOrder' /\ DeployedInOrder'
  <2>1. SecondsApart /\ FilesInOrder /\ DeployedInOrder
    BY <1>16 DEF MigrationsInv
  <2>2. \A d \in Choosing : d # c /\ mgCall'[d] = mgCall[d]
    BY <1>8
  <2>3. SecondsApart'
    BY <1>5, <1>8, <2>1, <2>2 DEF SecondsApart
  <2>4. FilesInOrder'
    BY <1>5, <1>8, <1>9, <2>1, <2>2 DEF FilesInOrder
  <2>5. DeployedInOrder'
    BY <1>5, <1>10, <2>1 DEF DeployedInOrder
  <2>6. QED  BY <2>3, <2>4, <2>5
<1>17. QED  BY <1>5, <1>7, <1>11, <1>13, <1>14, <1>15, <1>16 DEF MigrationsInv

LEMMA NameKeeps == ASSUME MigrationsInv, NEW c \in MgCalls, NameFile(c) PROVE MigrationsInv'
<1> DEFINE name == MigrationFilename(mgCall[c].file.label)
           stmt == mgCall[c].file.stmt
           file == [at |-> name.at, label |-> name.label, n |-> name.n, stmt |-> stmt]
<1>1. MigrationsTyped
  BY DEF MigrationsInv
<1>2. mgCall[c].pc = "ran" /\ mgCall' = [mgCall EXCEPT ![c] = [pc |-> "named", file |-> file]]
  BY DEF NameFile
<1>3. /\ mgUnfiled' = mgUnfiled /\ mgFiles' = mgFiles /\ mgSecond' = mgSecond
      /\ mgRan' = mgRan /\ mgRemote' = mgRemote /\ mgCrossed' = mgCrossed
      /\ mgBurst' = (mgBurst \/ (\E f \in mgFiles : f.at = mgSecond) \/ (\E d \in Choosing : mgCall[d].file.at = mgSecond))
  BY DEF NameFile
<1>4. /\ name.at = mgSecond /\ name.label = mgCall[c].file.label /\ name.n \in Nat
      /\ \A f \in mgFiles : ~SameFile(f, name)
  <2> DEFINE label == mgCall[c].file.label
  <2> HIDE DEF label
  <2>1. name = MigrationFilename(label)
    BY DEF label
  <2> HIDE DEF name
  <2>2. QED  BY <2>1, MigrationNamed DEF label
<1> HIDE DEF name
<1>5. /\ file.at = mgSecond /\ file.stmt = stmt /\ file \in MigrationFiles
      /\ \A f \in mgFiles : ~SameFile(f, file)
  BY <1>1, <1>4 DEF MigrationFiles, MigrationsTyped, SameFile
<1> HIDE DEF file
<1>6. /\ c \in InFlight /\ c \notin Choosing /\ InFlight' = InFlight /\ Choosing' = Choosing \cup {c}
      /\ mgCall'[c].file = file /\ \A d \in MgCalls : d # c => mgCall'[d] = mgCall[d]
  BY <1>1, <1>2 DEF MigrationsTyped, InFlight, Choosing
<1>7. \A d \in InFlight : mgCall'[d].file.stmt = mgCall[d].file.stmt
  BY <1>5, <1>6 DEF stmt, InFlight
<1>8. MigrationsTyped'
  BY <1>1, <1>2, <1>3, <1>5 DEF MigrationsTyped
<1>9. StatementsRan'
  BY <1>3, <1>6, <1>7 DEF MigrationsInv, StatementsRan
<1>10. StatementsApart'
  BY <1>3, <1>6, <1>7 DEF MigrationsInv, StatementsApart, Overlap, Follows
<1>11. NamesTaken'
  <2> SUFFICES ASSUME NEW d \in Choosing', NEW f \in mgFiles', SameFile(f, mgCall'[d].file)
               PROVE  mgBurst' /\ Overlap(mgCall[d].file, f)'
    BY DEF NamesTaken, SameFile
  <2>1. d # c
    BY <1>3, <1>5, <1>6
  <2>2. d \in Choosing /\ mgCall'[d] = mgCall[d]
    BY <1>6, <2>1 DEF Choosing
  <2>3. QED  BY <1>3, <2>2 DEF MigrationsInv, NamesTaken, Overlap
<1>12. StatementsFiled'
  <2>1. \A s : Overwritten(s) => Overwritten(s)'
    BY <1>3 DEF Overwritten
  <2>2. QED  BY <1>3, <1>6, <1>7, <2>1 DEF MigrationsInv, StatementsFiled, StatementFiled
<1>13. ASSUME ~mgBurst' PROVE SecondsApart' /\ FilesInOrder' /\ DeployedInOrder'
  <2>1. /\ SecondsApart /\ FilesInOrder /\ DeployedInOrder /\ ~mgBurst
        /\ \A f \in mgFiles : f.at # mgSecond
        /\ \A d \in Choosing : mgCall[d].file.at # mgSecond
    BY <1>3, <1>13 DEF MigrationsInv
  <2>2. mgSecond \in Nat /\ (\A f \in mgFiles : f.at \in Nat) /\ \A d \in Choosing : d \in MgCalls /\ mgCall[d].file.at \in Nat
    <3>1. mgSecond \in Nat
      BY <1>1 DEF MigrationsTyped
    <3>2. QED  BY <1>1, <3>1, MigrationsParts DEF Choosing
  <2>3. \A f \in mgFiles : f.at < mgSecond
    BY <2>1, <2>2 DEF SecondsApart
  <2>4. \A d \in Choosing' : d = c \/ (d # c /\ d \in Choosing /\ mgCall'[d] = mgCall[d])
    BY <1>6, <2>2
  <2>5. SecondsApart'
    <3>1. \A d \in Choosing' : mgCall'[d].file.at <= mgSecond'
      BY <1>3, <1>5, <1>6, <2>1, <2>2, <2>4 DEF SecondsApart
    <3>2. \A d, e \in Choosing' : mgCall'[d].file.at = mgCall'[e].file.at => d = e
      BY <1>3, <1>5, <1>6, <2>1, <2>4 DEF SecondsApart
    <3>3. \A d \in Choosing', f \in mgFiles' : f.at # mgCall'[d].file.at
      BY <1>3, <1>5, <1>6, <2>1, <2>4 DEF SecondsApart
    <3>4. QED  BY <1>3, <2>1, <3>1, <3>2, <3>3 DEF SecondsApart
  <2>6. FilesInOrder'
    <3>1. \A d \in Choosing', f \in mgFiles' : f.stmt < mgCall'[d].file.stmt =>
            f.at < mgCall'[d].file.at \/ <<f.stmt, mgCall'[d].file.stmt>> \in mgCrossed'
      BY <1>3, <1>5, <1>6, <2>1, <2>3, <2>4 DEF FilesInOrder
    <3>2. QED  BY <1>3, <2>1, <3>1 DEF FilesInOrder
  <2>7. DeployedInOrder'
    BY <1>3, <2>1 DEF DeployedInOrder, Follows
  <2>8. QED  BY <2>5, <2>6, <2>7
<1>14. QED  BY <1>8, <1>9, <1>10, <1>11, <1>12, <1>13 DEF MigrationsInv

LEMMA FileKeeps == ASSUME MigrationsInv, NEW c \in MgCalls, WriteFile(c) PROVE MigrationsInv'
<1> DEFINE file == mgCall[c].file
           kept == {f \in mgFiles : ~SameFile(f, file)}
<1>1. MigrationsTyped
  BY DEF MigrationsInv
<1>2. /\ mgCall[c].pc = "named" /\ mgCall' = [mgCall EXCEPT ![c] = Resting]
      /\ mgFiles' = kept \cup {file}
      /\ mgUnfiled' = mgUnfiled /\ mgRan' = mgRan /\ mgSecond' = mgSecond
      /\ mgCrossed' = mgCrossed /\ mgBurst' = mgBurst /\ mgRemote' = mgRemote
  BY DEF WriteFile
<1>3. file \in MigrationFiles /\ Resting \in [pc : {"idle", "ran", "named"}, file : MigrationFiles]
  BY <1>1 DEF MigrationsTyped, Resting, Unnamed, MigrationFiles, Kinds
<1>4. /\ c \in InFlight /\ c \in Choosing
      /\ InFlight' = InFlight \ {c} /\ Choosing' = Choosing \ {c}
      /\ \A d \in MgCalls : d # c => mgCall'[d] = mgCall[d]
  BY <1>1, <1>2 DEF MigrationsTyped, InFlight, Choosing, Resting
<1>5. /\ \A d \in InFlight : d \in MgCalls /\ mgCall[d].file.stmt \in Nat
      /\ \A f \in mgFiles : f.stmt \in Nat /\ f.at \in Nat /\ f.n \in Nat
      /\ file.stmt \in Nat /\ file.at \in Nat /\ Choosing \subseteq InFlight /\ kept \subseteq mgFiles
  BY <1>1, MigrationsParts DEF InFlight, Choosing
<1>6. /\ \A d \in InFlight' : d \in InFlight /\ d # c /\ mgCall'[d] = mgCall[d]
      /\ \A d \in Choosing' : d \in Choosing /\ d \in InFlight /\ d # c /\ mgCall'[d] = mgCall[d]
      /\ \A f \in mgFiles' : f = file \/ f \in kept
  BY <1>2, <1>4, <1>5
<1>7. MigrationsTyped'
  <2>1. IsFiniteSet(kept \cup {file})
    <3>1. IsFiniteSet(kept)
      BY <1>1, FS_Subset DEF MigrationsTyped
    <3>2. QED  BY <3>1, FS_AddElement
  <2>2. mgFiles' \subseteq MigrationFiles
    BY <1>1, <1>2, <1>3, <1>5 DEF MigrationsTyped
  <2> HIDE DEF kept, file
  <2>3. mgCall' \in [MgCalls -> [pc : {"idle", "ran", "named"}, file : MigrationFiles]]
    BY <1>1, <1>2, <1>3 DEF MigrationsTyped
  <2>4. QED  BY <1>1, <1>2, <2>1, <2>2, <2>3 DEF MigrationsTyped
<1>8. StatementsRan'
  BY <1>2, <1>4, <1>5, <1>6 DEF MigrationsInv, StatementsRan
<1>9. /\ \A f \in mgFiles : Follows(f, file) /\ f.stmt # file.stmt
      /\ \A d \in InFlight' : Overlap(mgCall[d].file, file) /\ mgCall[d].file.stmt # file.stmt
  BY <1>4, <1>5, <1>6 DEF MigrationsInv, StatementsApart, Overlap, Follows
<1>10. \A f, g : (Overlap(f, g)' <=> Overlap(f, g)) /\ (Follows(f, g)' <=> Follows(f, g))
  BY <1>2 DEF Overlap, Follows
<1>11. \A f \in mgFiles : SameFile(f, file) => mgBurst /\ Overlap(file, f)
  BY <1>4 DEF MigrationsInv, NamesTaken, file
<1>12. \A f \in mgFiles : f \in kept \/ SameFile(f, file)
  BY DEF kept
<1> HIDE DEF kept
<1>13. StatementsApart'
  <2>1. StatementsApart
    BY DEF MigrationsInv
  <2>2. \A f, g \in mgFiles' : f.stmt = g.stmt => f = g
    BY <1>5, <1>6, <1>9, <2>1 DEF StatementsApart
  <2>3. \A d, e \in InFlight' : d # e => Overlap(mgCall[d].file, mgCall[e].file)'
    BY <1>6, <1>10, <2>1 DEF StatementsApart
  <2>4. \A d \in InFlight' : Follows(file, mgCall[d].file)
    BY <1>5, <1>6, <1>9 DEF Overlap, Follows
  <2>5. ASSUME NEW d \in InFlight', NEW f \in mgFiles'
        PROVE  Follows(f, mgCall[d].file)'
    <3>1. CASE f \in kept
      BY <1>5, <1>6, <1>10, <2>1, <2>5, <3>1 DEF StatementsApart
    <3>2. CASE f = file
      BY <1>6, <1>10, <2>4, <2>5, <3>2
    <3>3. QED  BY <1>6, <2>5, <3>1, <3>2
  <2>6. QED  BY <2>2, <2>3, <2>5 DEF StatementsApart
<1>14. NamesTaken'
  <2> SUFFICES ASSUME NEW d \in Choosing', NEW f \in mgFiles', SameFile(f, mgCall'[d].file)
               PROVE  mgBurst' /\ Overlap(mgCall[d].file, f)'
    BY DEF NamesTaken, SameFile
  <2>1. d \in Choosing /\ d \in InFlight' /\ d # c /\ mgCall'[d] = mgCall[d]
    BY <1>4, <1>5, <1>6
  <2>2. CASE f \in kept
    BY <1>2, <1>5, <1>10, <2>1, <2>2 DEF MigrationsInv, NamesTaken
  <2>3. CASE f = file
    <3>1. mgCall[d].file.at = mgCall[c].file.at
      BY <2>1, <2>3 DEF SameFile, file
    <3>2. mgBurst
      BY <1>4, <2>1, <3>1 DEF MigrationsInv, SecondsApart
    <3>3. QED  BY <1>2, <1>9, <1>10, <2>1, <2>3, <3>2
  <2>4. QED  BY <1>6, <2>2, <2>3
<1>15. StatementsFiled'
  <2> SUFFICES ASSUME NEW s \in DOMAIN mgRan', Migrates(mgRan'[s]) PROVE StatementFiled(s)'
    BY DEF StatementsFiled
  <2>1. StatementFiled(s)
    BY <1>2 DEF MigrationsInv, StatementsFiled
  <2>2. Overwritten(s) => Overwritten(s)'
    BY <1>2 DEF Overwritten
  <2>3. CASE \E f \in mgFiles : f.stmt = s
    <3>1. PICK f \in mgFiles : f.stmt = s
      BY <2>3
    <3>2. CASE f \in kept
      BY <1>2, <3>1, <3>2 DEF StatementFiled
    <3>3. CASE SameFile(f, file)
      <4>1. mgBurst /\ (<<file.stmt, s>> \in mgCrossed \/ <<s, file.stmt>> \in mgCrossed)
        BY <1>11, <3>1, <3>3 DEF Overlap
      <4>2. Overwritten(s)
        BY <4>1 DEF Overwritten
      <4>3. QED  BY <2>2, <4>2 DEF StatementFiled
    <3>4. QED  BY <1>12, <3>1, <3>2, <3>3
  <2>4. ASSUME NEW d \in InFlight, mgCall[d].file.stmt = s PROVE StatementFiled(s)'
    <3>1. CASE d = c
      BY <1>2, <2>4, <3>1 DEF StatementFiled, file
    <3>2. CASE d # c
      BY <1>4, <1>5, <2>4, <3>2 DEF StatementFiled
    <3>3. QED  BY <3>1, <3>2
  <2>5. QED  BY <1>2, <2>1, <2>2, <2>3, <2>4 DEF StatementFiled
<1>16. ASSUME ~mgBurst PROVE SecondsApart' /\ FilesInOrder' /\ DeployedInOrder'
  <2>1. /\ SecondsApart /\ FilesInOrder /\ DeployedInOrder
        /\ \A f \in mgFiles : f \in kept /\ f \in mgFiles'
    BY <1>2, <1>11, <1>12, <1>16 DEF MigrationsInv
  <2>2. SecondsApart'
    <3>1. \A f \in mgFiles : f.at # file.at
      BY <1>4, <2>1 DEF SecondsApart, file
    <3>2. \A d \in Choosing' : mgCall[d].file.at # file.at
      BY <1>4, <1>6, <2>1 DEF SecondsApart, file
    <3>3. file.at <= mgSecond
      BY <1>4, <2>1 DEF SecondsApart, file
    <3>4. (\A f \in mgFiles' : f.at <= mgSecond') /\ \A d \in Choosing' : mgCall'[d].file.at <= mgSecond'
      BY <1>2, <1>5, <1>6, <2>1, <3>3 DEF SecondsApart
    <3>5. \A f, g \in mgFiles' : f.at = g.at => f = g
      BY <1>5, <1>6, <2>1, <3>1 DEF SecondsApart
    <3>6. \A d, e \in Choosing' : mgCall'[d].file.at = mgCall'[e].file.at => d = e
      BY <1>6, <2>1 DEF SecondsApart
    <3>7. \A d \in Choosing', f \in mgFiles' : f.at # mgCall'[d].file.at
      BY <1>5, <1>6, <2>1, <3>2 DEF SecondsApart
    <3>8. QED  BY <3>4, <3>5, <3>6, <3>7 DEF SecondsApart
  <2>3. FilesInOrder'
    <3>1. \A f \in mgFiles : f.stmt < file.stmt => f.at < file.at \/ <<f.stmt, file.stmt>> \in mgCrossed
      BY <1>4, <2>1 DEF FilesInOrder, file
    <3>2. \A f \in mgFiles : file.stmt < f.stmt => <<file.stmt, f.stmt>> \in mgCrossed
      BY <1>5, <1>9 DEF Follows
    <3>3. \A d \in Choosing' : file.stmt < mgCall[d].file.stmt => <<file.stmt, mgCall[d].file.stmt>> \in mgCrossed
      <4>1. \A d \in Choosing' : d \in InFlight' /\ mgCall[d].file.stmt \in Nat
        BY <1>4, <1>5, <1>6
      <4>2. ASSUME NEW d \in Choosing', file.stmt < mgCall[d].file.stmt
            PROVE  <<file.stmt, mgCall[d].file.stmt>> \in mgCrossed
        <5>1. ~(mgCall[d].file.stmt < file.stmt)
          BY <1>5, <4>1, <4>2
        <5>2. Overlap(mgCall[d].file, file)
          BY <1>9, <4>1, <4>2
        <5>3. QED  BY <5>1, <5>2 DEF Overlap
      <4>3. QED  BY <4>2
    <3>4. \A f, g \in mgFiles' : f.stmt < g.stmt => f.at < g.at \/ <<f.stmt, g.stmt>> \in mgCrossed'
      <4>1. ~(file.stmt < file.stmt)
        BY <1>5
      <4>2. QED  BY <1>2, <1>5, <1>6, <2>1, <3>1, <3>2, <4>1 DEF FilesInOrder
    <3>5. \A d \in Choosing', f \in mgFiles' : f.stmt < mgCall'[d].file.stmt =>
            f.at < mgCall'[d].file.at \/ <<f.stmt, mgCall'[d].file.stmt>> \in mgCrossed'
      BY <1>2, <1>5, <1>6, <2>1, <3>3 DEF FilesInOrder
    <3>6. QED  BY <3>4, <3>5 DEF FilesInOrder
  <2>4. DeployedInOrder'
    <3>1. \A i \in DOMAIN mgRemote : mgRemote[i] \in mgFiles' /\ Follows(mgRemote[i], file)
      BY <1>9, <2>1 DEF DeployedInOrder
    <3>2. QED  BY <1>2, <1>5, <1>6, <1>10, <2>1, <3>1 DEF DeployedInOrder
  <2>5. QED  BY <2>2, <2>3, <2>4
<1>17. QED  BY <1>2, <1>7, <1>8, <1>13, <1>14, <1>15, <1>16 DEF MigrationsInv

LEMMA UnfiledKeeps == ASSUME MigrationsInv, NEW c \in MgCalls, Unfiled(c) PROVE MigrationsInv'
<1>1. MigrationsTyped
  BY DEF MigrationsInv
<1>2. /\ mgCall[c].pc # "idle" /\ mgCall' = [mgCall EXCEPT ![c] = Resting]
      /\ mgUnfiled' = mgUnfiled \cup {mgCall[c].file.stmt}
      /\ mgFiles' = mgFiles /\ mgRan' = mgRan /\ mgSecond' = mgSecond
      /\ mgCrossed' = mgCrossed /\ mgBurst' = mgBurst /\ mgRemote' = mgRemote
  BY DEF Unfiled
<1>3. /\ \A d \in InFlight' : d \in InFlight /\ d # c /\ mgCall'[d] = mgCall[d]
      /\ \A d \in Choosing' : d \in Choosing /\ d # c /\ mgCall'[d] = mgCall[d]
      /\ \A d \in InFlight : d # c => d \in InFlight' /\ mgCall'[d] = mgCall[d]
  BY <1>1, <1>2 DEF MigrationsTyped, InFlight, Choosing, Resting
<1>4. \A f, g : (Overlap(f, g)' <=> Overlap(f, g)) /\ (Follows(f, g)' <=> Follows(f, g))
  BY <1>2 DEF Overlap, Follows
<1>5. MigrationsTyped'
  <2>1. Resting \in [pc : {"idle", "ran", "named"}, file : MigrationFiles]
    BY DEF Resting, Unnamed, MigrationFiles, Kinds
  <2>2. QED  BY <1>1, <1>2, <2>1 DEF MigrationsTyped
<1>6. StatementsRan' /\ StatementsApart' /\ NamesTaken'
  <2>1. StatementsRan'
    BY <1>2, <1>3 DEF MigrationsInv, StatementsRan
  <2>2. StatementsApart'
    BY <1>2, <1>3, <1>4 DEF MigrationsInv, StatementsApart
  <2>3. NamesTaken'
    BY <1>2, <1>3, <1>4 DEF MigrationsInv, NamesTaken
  <2>4. QED  BY <2>1, <2>2, <2>3
<1>7. StatementsFiled'
  <2>1. \A s : Overwritten(s) => Overwritten(s)'
    BY <1>2 DEF Overwritten
  <2>2. \A d \in InFlight : d = c \/ (d \in InFlight' /\ mgCall'[d] = mgCall[d])
    BY <1>3
  <2>3. \A s : StatementFiled(s) => StatementFiled(s)'
    BY <1>2, <2>1, <2>2 DEF StatementFiled
  <2>4. QED  BY <1>2, <2>3 DEF MigrationsInv, StatementsFiled
<1>8. ASSUME ~mgBurst PROVE SecondsApart' /\ FilesInOrder' /\ DeployedInOrder'
  <2>1. SecondsApart /\ FilesInOrder /\ DeployedInOrder
    BY <1>8 DEF MigrationsInv
  <2>2. SecondsApart'
    BY <1>2, <1>3, <2>1 DEF SecondsApart
  <2>3. FilesInOrder'
    BY <1>2, <1>3, <2>1 DEF FilesInOrder
  <2>4. DeployedInOrder'
    BY <1>2, <1>4, <2>1 DEF DeployedInOrder
  <2>5. QED  BY <2>2, <2>3, <2>4
<1>9. QED  BY <1>2, <1>5, <1>6, <1>7, <1>8 DEF MigrationsInv

LEMMA BeforeApart ==
  ASSUME MigrationsTyped, NEW f \in mgFiles, NEW g \in mgFiles, Before(f, g)
  PROVE  f.at <= g.at /\ f # g
<1>1. /\ f.at \in Nat /\ g.at \in Nat /\ f.n \in Nat /\ g.n \in Nat
  BY MigrationsParts
<1>2. f.at <= g.at
  BY <1>1 DEF Before
<1>3. ~Before(f, f)
  BY <1>1 DEF Before, Labels
<1>4. QED  BY <1>2, <1>3

LEMMA DeployKeeps == ASSUME MigrationsInv, DeployMigrations PROVE MigrationsInv'
<1>1. PICK order \in [1 .. Cardinality(Unapplied) -> Unapplied] :
         /\ ToSet(order) = Unapplied
         /\ \A i, j \in DOMAIN order : i < j => Before(order[i], order[j])
         /\ mgRemote' = mgRemote \o order
  BY DEF DeployMigrations
<1>2. UNCHANGED <<mgRan, mgCall, mgUnfiled, mgFiles, mgSecond, mgCrossed, mgBurst>>
  BY DEF DeployMigrations
<1>3. MigrationsTyped /\ Unapplied \subseteq mgFiles /\ mgFiles \subseteq MigrationFiles
  BY DEF MigrationsInv, MigrationsTyped, Unapplied
<1>4. PICK count \in Nat : count = Cardinality(Unapplied)
  <2>1. IsFiniteSet(Unapplied)
    BY <1>3, FS_Subset DEF MigrationsTyped
  <2>2. QED  BY <2>1, FS_CardinalityType
<1>5. /\ DOMAIN order = 1 .. count /\ order \in Seq(MigrationFiles) /\ Len(order) = count
      /\ \A i \in 1 .. count : order[i] \in Unapplied
      /\ \A f \in Unapplied : \E i \in 1 .. count : order[i] = f
  <2>1. DOMAIN order = 1 .. count /\ \A i \in 1 .. count : order[i] \in Unapplied
    BY <1>1, <1>4
  <2>2. order \in Seq(MigrationFiles) /\ Len(order) = count
    BY <1>3, <1>4, <2>1
  <2>3. ToSet(order) = {order[i] : i \in 1 .. count}
    BY <2>1 DEF ToSet
  <2>4. QED  BY <1>1, <2>1, <2>2, <2>3
<1>6. mgRemote \in Seq(MigrationFiles) /\ Len(mgRemote) \in Nat /\ DOMAIN mgRemote = 1 .. Len(mgRemote)
  BY <1>3 DEF MigrationsTyped
<1>7. /\ mgRemote' \in Seq(MigrationFiles) /\ DOMAIN mgRemote' = 1 .. (Len(mgRemote) + count)
      /\ \A i \in 1 .. Len(mgRemote) : mgRemote'[i] = mgRemote[i]
      /\ \A i \in 1 .. count : mgRemote'[Len(mgRemote) + i] = order[i]
  <2> DEFINE S == MigrationFiles
  <2>1. mgRemote \in Seq(S) /\ order \in Seq(S)
    BY <1>5, <1>6
  <2> HIDE DEF S
  <2>2. mgRemote \o order \in Seq(S) /\ Len(mgRemote \o order) = Len(mgRemote) + Len(order)
    BY <2>1
  <2>3. \A i \in 1 .. Len(mgRemote) : (mgRemote \o order)[i] = mgRemote[i]
    BY <2>1
  <2>4. \A i \in 1 .. count : (mgRemote \o order)[Len(mgRemote) + i] = order[i]
    BY <1>4, <1>5, <1>6, <2>1
  <2>5. DOMAIN (mgRemote \o order) = 1 .. (Len(mgRemote) + count)
    BY <1>5, <2>2
  <2>6. QED  BY <1>1, <2>2, <2>3, <2>4, <2>5 DEF S
<1>8. \A i \in DOMAIN mgRemote' : \/ i \in DOMAIN mgRemote /\ mgRemote'[i] = mgRemote[i]
                                  \/ \E k \in 1 .. count : i = Len(mgRemote) + k /\ mgRemote'[i] = order[k]
  <2> SUFFICES ASSUME NEW i \in DOMAIN mgRemote', i \notin DOMAIN mgRemote
               PROVE  \E k \in 1 .. count : i = Len(mgRemote) + k /\ mgRemote'[i] = order[k]
    BY <1>6, <1>7
  <2>1. i - Len(mgRemote) \in 1 .. count /\ i = Len(mgRemote) + (i - Len(mgRemote))
    BY <1>4, <1>6, <1>7
  <2>2. QED  BY <1>7, <2>1
<1>9. MigrationsTyped'
  BY <1>2, <1>3, <1>7 DEF MigrationsTyped
<1>10. StatementsRan' /\ StatementsApart' /\ NamesTaken' /\ StatementsFiled'
  BY <1>2 DEF MigrationsInv, StatementsRan, StatementsApart, NamesTaken, StatementsFiled, StatementFiled,
              InFlight, Choosing, Overwritten, Overlap, Follows
<1>11. ASSUME ~mgBurst' PROVE SecondsApart' /\ FilesInOrder' /\ DeployedInOrder'
  <2>1. SecondsApart /\ FilesInOrder /\ DeployedInOrder /\ StatementsApart
    BY <1>2, <1>11 DEF MigrationsInv
  <2>2. SecondsApart' /\ FilesInOrder'
    BY <1>2, <2>1 DEF SecondsApart, FilesInOrder, Choosing
  <2>3. \A f, g : Follows(f, g)' <=> Follows(f, g)
    BY <1>2 DEF Follows
  <2>4. \A f \in mgFiles, i \in DOMAIN mgRemote : SameFile(f, mgRemote[i]) => f = mgRemote[i]
    BY <2>1 DEF DeployedInOrder, SecondsApart, SameFile
  <2>5. \A f \in mgFiles : f \in Unapplied \/ \E i \in DOMAIN mgRemote : mgRemote[i] = f
    BY <2>4 DEF Unapplied
  <2>6. \A f \in Unapplied, i \in DOMAIN mgRemote : Follows(mgRemote[i], f)
    <3>1. \A f \in Unapplied : ~ \E i \in DOMAIN mgRemote : mgRemote[i] = f
      BY DEF Unapplied, SameFile
    <3>2. QED  BY <1>3, <2>1, <3>1 DEF DeployedInOrder
  <2>7. ASSUME NEW k \in 1 .. count, NEW l \in 1 .. count, k < l
        PROVE  Follows(order[k], order[l])
    <3>1. PICK f \in mgFiles : f = order[k]
      BY <1>3, <1>5
    <3>2. PICK g \in mgFiles : g = order[l]
      BY <1>3, <1>5
    <3>3. Before(f, g)
      BY <1>1, <1>5, <2>7, <3>1, <3>2
    <3>4. f.at <= g.at /\ f # g
      BY <1>3, <3>3, BeforeApart
    <3>5. f.at \in Nat /\ g.at \in Nat /\ f.stmt \in Nat /\ g.stmt \in Nat
      BY <1>3, MigrationsParts
    <3>6. f.stmt # g.stmt /\ ~(g.at < f.at)
      BY <2>1, <3>4, <3>5 DEF StatementsApart
    <3>7. g.stmt < f.stmt => <<g.stmt, f.stmt>> \in mgCrossed
      BY <2>1, <3>6 DEF FilesInOrder
    <3>8. QED  BY <3>1, <3>2, <3>5, <3>6, <3>7 DEF Follows
  <2>8. ASSUME NEW i \in DOMAIN mgRemote', NEW j \in DOMAIN mgRemote', i < j
        PROVE  Follows(mgRemote'[i], mgRemote'[j])
    <3>1. CASE i \in DOMAIN mgRemote /\ mgRemote'[i] = mgRemote[i] /\ j \in DOMAIN mgRemote /\ mgRemote'[j] = mgRemote[j]
      BY <2>1, <2>8, <3>1 DEF DeployedInOrder
    <3>2. ASSUME i \in DOMAIN mgRemote, mgRemote'[i] = mgRemote[i], NEW l \in 1 .. count, mgRemote'[j] = order[l]
          PROVE  Follows(mgRemote'[i], mgRemote'[j])
      BY <1>5, <2>6, <3>2
    <3>3. ASSUME NEW k \in 1 .. count, NEW l \in 1 .. count, i = Len(mgRemote) + k, j = Len(mgRemote) + l,
                 mgRemote'[i] = order[k], mgRemote'[j] = order[l]
          PROVE  Follows(mgRemote'[i], mgRemote'[j])
      <4>1. k < l
        BY <1>6, <2>8, <3>3
      <4>2. QED  BY <2>7, <3>3, <4>1
    <3>4. ASSUME NEW k \in 1 .. count, i = Len(mgRemote) + k, j \in DOMAIN mgRemote
          PROVE  FALSE
      BY <1>6, <2>8, <3>4
    <3>5. QED  BY <1>8, <3>1, <3>2, <3>3, <3>4
  <2>9. \A f \in mgFiles : \E i \in DOMAIN mgRemote' : mgRemote'[i] = f
    <3> SUFFICES ASSUME NEW f \in mgFiles PROVE \E i \in DOMAIN mgRemote' : mgRemote'[i] = f
      OBVIOUS
    <3>1. CASE f \in Unapplied
      <4>1. PICK k \in 1 .. count : order[k] = f
        BY <1>5, <3>1
      <4>2. Len(mgRemote) + k \in DOMAIN mgRemote'
        BY <1>4, <1>6, <1>7
      <4>3. QED  BY <1>7, <4>1, <4>2
    <3>2. CASE \E i \in DOMAIN mgRemote : mgRemote[i] = f
      <4>1. PICK i \in DOMAIN mgRemote : mgRemote[i] = f
        BY <3>2
      <4>2. i \in DOMAIN mgRemote'
        BY <1>4, <1>6, <1>7
      <4>3. QED  BY <1>6, <1>7, <4>1, <4>2
    <3>3. QED  BY <2>5, <3>1, <3>2
  <2>10. \A i \in DOMAIN mgRemote' : mgRemote'[i] \in mgFiles
    BY <1>3, <1>5, <1>8, <2>1 DEF DeployedInOrder
  <2>11. DeployedInOrder'
    BY <1>2, <2>3, <2>8, <2>9, <2>10 DEF DeployedInOrder
  <2>12. QED  BY <2>2, <2>11
<1>12. QED  BY <1>2, <1>9, <1>10, <1>11 DEF MigrationsInv

LEMMA MigrationsInitially == MigrationsInit => MigrationsInv
<1> SUFFICES ASSUME MigrationsInit PROVE MigrationsInv
  OBVIOUS
<1>1. InFlight = {} /\ Choosing = {}
  BY DEF MigrationsInit, InFlight, Choosing, Resting
<1>2. MigrationsTyped
  <2>1. mgRan \in Seq([kind : Kinds, dir : BOOLEAN]) /\ mgRemote \in Seq(MigrationFiles)
    <3> DEFINE R == [kind : Kinds, dir : BOOLEAN]
    <3> HIDE DEF R
    <3>1. mgRan \in Seq(R) /\ mgRemote \in Seq(MigrationFiles)
      BY DEF MigrationsInit
    <3>2. QED  BY <3>1 DEF R
  <2>2. mgCall \in [MgCalls -> [pc : {"idle", "ran", "named"}, file : MigrationFiles]]
    BY DEF MigrationsInit, Resting, Unnamed, MigrationFiles, Kinds
  <2>3. QED  BY <2>1, <2>2, FS_EmptySet DEF MigrationsInit, MigrationsTyped
<1>3. StatementsRan /\ StatementsApart /\ NamesTaken /\ StatementsFiled
  BY <1>1 DEF MigrationsInit, StatementsRan, StatementsApart, NamesTaken, StatementsFiled
<1>4. SecondsApart /\ FilesInOrder /\ DeployedInOrder
  BY <1>1 DEF MigrationsInit, SecondsApart, FilesInOrder, DeployedInOrder
<1>5. QED  BY <1>2, <1>3, <1>4 DEF MigrationsInv

LEMMA MigrationsStep == MigrationsInv /\ [MigrationsNext]_mgvars => MigrationsInv'
<1>1. ASSUME MigrationsInv, UNCHANGED <<mgCall, mgRan, mgUnfiled, mgFiles, mgSecond, mgCrossed, mgBurst, mgRemote>>
      PROVE  MigrationsInv'
  BY <1>1 DEF MigrationsInv, MigrationsTyped, StatementsRan, StatementsApart, NamesTaken, StatementsFiled, StatementFiled,
              SecondsApart, FilesInOrder, DeployedInOrder, InFlight, Choosing, Overwritten, Overlap, Follows
<1>2. ASSUME MigrationsInv, SecondPasses PROVE MigrationsInv'
  <2>1. mgSecond' = mgSecond + 1 /\ UNCHANGED <<mgCall, mgRan, mgUnfiled, mgFiles, mgCrossed, mgBurst, mgRemote>>
    BY <1>2 DEF SecondPasses
  <2>2. MigrationsTyped /\ MigrationsTyped'
    BY <1>2, <2>1 DEF MigrationsInv, MigrationsTyped
  <2>3. \A n \in Nat : n <= mgSecond => n <= mgSecond'
    BY <2>1, <2>2 DEF MigrationsTyped
  <2>4. SecondsApart => SecondsApart'
    BY <2>1, <2>2, <2>3, MigrationsParts DEF SecondsApart, Choosing
  <2>5. StatementsRan' /\ StatementsApart' /\ NamesTaken' /\ StatementsFiled'
    BY <1>2, <2>1 DEF MigrationsInv, StatementsRan, StatementsApart, NamesTaken, StatementsFiled, StatementFiled,
              InFlight, Choosing, Overwritten, Overlap, Follows
  <2>6. (FilesInOrder => FilesInOrder') /\ (DeployedInOrder => DeployedInOrder')
    BY <2>1 DEF FilesInOrder, DeployedInOrder, Choosing, Follows
  <2>7. QED  BY <1>2, <2>1, <2>2, <2>4, <2>5, <2>6 DEF MigrationsInv
<1>3. QED
  BY <1>1, <1>2, StatementKeeps, NameKeeps, FileKeeps, UnfiledKeeps, DeployKeeps
     DEF MigrationsNext, CallStep, ChangeProject, mgvars

(* For any datasources, databases and bindings, and any number of calls,   *)
(* statements and deploys: a datasource with dev mode has exactly the      *)
(* block of its database, the block written by hand stays, every table     *)
(* statement that ran has a file, is being recorded or was reported,       *)
(* unless it crossed another in a second with two names, and a deploy      *)
(* applies those that did not cross in the order they ran.                 *)
THEOREM ProjectsCorrect == ProjectsSpec => []ProjectsSafe
<1>1. D1Spec => []DevDatabaseResolves
  BY D1Initially, D1Step, D1Resolves, PTL DEF D1Spec
<1>2. ASSUME MigrationsInv PROVE MigrationsKept
  BY <1>2 DEF MigrationsInv, StatementsFiled, StatementFiled, DeployedInOrder, Follows, MigrationsKept
<1>3. MigrationsSpec => []MigrationsKept
  BY <1>2, MigrationsInitially, MigrationsStep, PTL DEF MigrationsSpec
<1>4. QED  BY <1>1, <1>3, PTL DEF ProjectsSpec, ProjectsSafe

-----------------------------------------------------------------------------
(* Judging a statement.  What every statement's facts are.                 *)
Sources == SqlSources \cup {"mongodb", "redis", "elasticsearch", "dynamodb"}
ActionNames == {"allow", "warn", "require_approval", "block"}
FactsTyped(ps) == ps.ds \in Sources /\ {ps.where, ps.multi, ps.failed, ps.query} \subseteq BOOLEAN
RulesTyped(rules) == rules.user \in UserRules \cup {NoUserRule} /\ rules.optIn \in BOOLEAN

LEMMA SeverityIs ==
  Severity("allow") = 1 /\ Severity("warn") = 2 /\ Severity("require_approval") = 3 /\ Severity("block") = 4
<1>1. DOMAIN Actions = 1 .. 4 /\ Actions[1] = "allow" /\ Actions[2] = "warn" /\ Actions[3] = "require_approval"
      /\ Actions[4] = "block"
  BY DEF Actions
<1>2. \A a : \A i \in 1 .. 4 : Actions[i] = a /\ (\A j \in 1 .. 4 : Actions[j] = a => j = i) => Severity(a) = i
  BY <1>1 DEF Severity
<1>3. 1 .. 4 = {1, 2, 3, 4}
  OBVIOUS
<1> HIDE DEF Actions
<1>4. Severity("allow") = 1
  BY <1>1, <1>2, <1>3
<1>5. Severity("warn") = 2
  BY <1>1, <1>2, <1>3
<1>6. Severity("require_approval") = 3
  BY <1>1, <1>2, <1>3
<1>7. Severity("block") = 4
  BY <1>1, <1>2, <1>3
<1>8. QED  BY <1>4, <1>5, <1>6, <1>7

LEMMA BuiltinRuleIs ==
  ASSUME NEW p, NEW a, NEW c
  PROVE  LET r == BuiltinRule(p, a, c) IN r.prio = p /\ r.action = a /\ r.any = c /\ r.by = "builtin" /\ r.scope = "type"
  BY DEF BuiltinRule

(* The shipped rules: what they allow, they allow last; but for inserting, *)
(* if that is opted in.                                                    *)
Inserts == {"insert", "insertone"}
Shipped1(r, optIn) ==
    /\ r.prio \in 1 .. 130 /\ r.action \in ActionNames /\ r.by = "builtin" /\ r.scope = "type"
    /\ r.action = "allow" => \/ r.prio = 10
                             \/ optIn /\ \A c \in r.any : c.cmds # {} /\ c.cmds \subseteq Inserts

LEMMA NamedIs ==
  ASSUME NEW C
  PROVE  /\ Named(C) = [cmds |-> C, classes |-> {}, methods |-> {}, where |-> BOOLEAN, multi |-> BOOLEAN,
                        failed |-> BOOLEAN, marks |-> {}, unless |-> {}]
  BY DEF Named, Anything

LEMMA LastAllowed ==
  ASSUME NEW optIn \in BOOLEAN, NEW p, NEW a, NEW any, NEW r, r = BuiltinRule(p, a, any),
         p \in 1 .. 130, a \in ActionNames, a = "allow" => p = 10
  PROVE  Shipped1(r, optIn)
  BY BuiltinRuleIs DEF Shipped1

LEMMA OptedIn ==
  ASSUME NEW optIn, optIn = TRUE, NEW c, c.cmds # {}, c.cmds \subseteq Inserts, NEW r, r = BuiltinRule(60, "allow", {c})
  PROVE  Shipped1(r, optIn)
<1>1. r.prio = 60 /\ r.action = "allow" /\ r.by = "builtin" /\ r.scope = "type" /\ r.any = {c}
  BY BuiltinRuleIs
<1>2. QED  BY <1>1 DEF Shipped1, ActionNames

LEMMA BuiltinRulesAre ==
  ASSUME NEW ds \in Sources, NEW optIn \in BOOLEAN, NEW r \in BuiltinRules(ds, optIn)
  PROVE  Shipped1(r, optIn)
<1> DEFINE P(p, a) == p \in 1 .. 130 /\ a \in ActionNames /\ (a = "allow" => p = 10)
<1>1. \A p, a, any : P(p, a) /\ r = BuiltinRule(p, a, any) => Shipped1(r, optIn)
  BY LastAllowed
<1>2. /\ \A p \in {130, 100, 90, 110} : P(p, "block")
      /\ \A p \in {115, 80, 70, 60, 75} : P(p, "require_approval")
      /\ \A p \in {60, 55, 50, 45, 40} : P(p, "warn")
      /\ P(10, "allow")
  BY DEF ActionNames
<1> HIDE DEF P
<1>3. CASE ds \in SqlSources
  <2>1. r \in BuiltinSqlRules(optIn)
    BY <1>3 DEF BuiltinRules, SqlSources
  <2> DEFINE c == [Named({"insert"}) EXCEPT !.marks = {"values"}]
  <2>2. c.cmds = {"insert"}
    BY NamedIs
  <2> HIDE DEF c
  <2>3. \/ optIn /\ r = BuiltinRule(60, "allow", {c})
        \/ Shipped1(r, optIn)
    BY <1>1, <1>2, <2>1 DEF BuiltinSqlRules, c
  <2>4. QED  BY <2>2, <2>3, OptedIn DEF Inserts
<1>4. CASE ds = "mongodb"
  <2>1. r \in BuiltinMongoRules(optIn)
    BY <1>4 DEF BuiltinRules, SqlSources
  <2>2. \/ optIn /\ r = BuiltinRule(60, "allow", {Named({"insertone"})})
        \/ Shipped1(r, optIn)
    BY <1>1, <1>2, <2>1 DEF BuiltinMongoRules
  <2> DEFINE c == Named({"insertone"})
  <2>3. c.cmds = {"insertone"}
    BY NamedIs
  <2> HIDE DEF c
  <2>4. \/ optIn /\ r = BuiltinRule(60, "allow", {c})
        \/ Shipped1(r, optIn)
    BY <2>2 DEF c
  <2>5. QED  BY <2>3, <2>4, OptedIn DEF Inserts
<1>5. CASE ds = "redis"
  <2>1. r \in BuiltinRedisRules
    BY <1>5 DEF BuiltinRules, SqlSources
  <2> DEFINE c1 == {Named({"flushall", "debug"}), Marked({"config set"})}
             c2 == {[Anything EXCEPT !.classes = {"script", "write"}]}
             c3 == {Named({"set"}), Named({"keys"}), Named({"eval", "evalsha", "eval_ro", "fcall"}), Named({"config"})}
             c4 == {Named({"hkeys"})}
             c5 == {Named({"get", "mget", "debug"})}
  <2>2. BuiltinRedisRules = {BuiltinRule(100, "block", c1), BuiltinRule(70, "require_approval", c2),
           BuiltinRule(50, "warn", c3), BuiltinRule(45, "warn", c4), BuiltinRule(10, "allow", c5)}
    BY DEF BuiltinRedisRules
  <2> HIDE DEF c1, c2, c3, c4, c5
  <2>3. QED  BY <1>1, <1>2, <2>1, <2>2
<1>6. CASE ds = "elasticsearch"
  <2>1. r \in BuiltinElasticsearchRules
    BY <1>6 DEF BuiltinRules, SqlSources
  <2>2. QED  BY <1>1, <1>2, <2>1 DEF BuiltinElasticsearchRules
<1>7. CASE ds = "dynamodb"
  <2>1. r \in BuiltinDynamoRules(optIn)
    BY <1>7 DEF BuiltinRules, SqlSources
  <2>2. \/ optIn /\ r = BuiltinRule(60, "allow", {Named({"insert"})})
        \/ Shipped1(r, optIn)
    BY <1>1, <1>2, <2>1 DEF BuiltinDynamoRules
  <2> DEFINE c == Named({"insert"})
  <2>3. c.cmds = {"insert"}
    BY NamedIs
  <2> HIDE DEF c
  <2>4. \/ optIn /\ r = BuiltinRule(60, "allow", {c})
        \/ Shipped1(r, optIn)
    BY <2>2 DEF c
  <2>5. QED  BY <2>3, <2>4, OptedIn DEF Inserts
<1>8. QED  BY <1>3, <1>4, <1>5, <1>6, <1>7 DEF Sources

(* The rules that match a statement have a first: the shipped ones have    *)
(* one, and the user's comes before or after it.                           *)
UserRule(r) == r.prio \in Int /\ r.action \in ActionNames /\ r.by = "user" /\ r.scope \in {"type", "entity", "key"}
First(w, m) == w \in m /\ \A q \in m \ {w} : Outranks(w, q) \/ ~ Outranks(q, w)

LEMMA MatchingAre ==
  ASSUME NEW rules, RulesTyped(rules), NEW ps, ps.ds \in Sources, NEW r \in MatchingRules(rules, ps)
  PROVE  Shipped1(r, rules.optIn) \/ (r = rules.user /\ r \in UserRules /\ UserRule(r))
<1>1. r \in BuiltinRules(ps.ds, rules.optIn) \/ (r = rules.user /\ r # NoUserRule)
  BY DEF MatchingRules
<1>2. QED  BY <1>1, BuiltinRulesAre, StatementRiskAssumption DEF RulesTyped, UserRule, ActionNames

LEMMA FirstOf ==
  ASSUME NEW m, m # {}, NEW u, NEW optIn, \A r \in m : Shipped1(r, optIn) \/ (r = u /\ UserRule(r))
  PROVE  \E w : First(w, m)
<1> DEFINE B == {r \in m : r.by = "builtin"}
<1>1. /\ \A r \in B : r.prio \in 1 .. 130 /\ r.scope = "type" /\ r.by = "builtin" /\ r \in m
      /\ \A r \in m : r \in B \/ (r = u /\ r.prio \in Int /\ r.by = "user" /\ r.scope \in {"type", "entity", "key"})
  BY DEF Shipped1, UserRule
<1> HIDE DEF B
<1>2. CASE B = {}
  <2>1. PICK w : w \in m
    OBVIOUS
  <2>2. m = {u}
    BY <1>1, <1>2
  <2>3. QED  BY <2>2 DEF First
<1>3. CASE B # {}
  <2> DEFINE T == {130 - r.prio : r \in B}
  <2>1. T \subseteq Nat /\ T # {}
    BY <1>1, <1>3
  <2>2. PICK n \in T : \A k \in T : n <= k
    BY <2>1, LeastNatural
  <2>3. PICK b \in B : n = 130 - b.prio
    OBVIOUS
  <2>4. ASSUME NEW q \in B PROVE q.prio <= b.prio
    <3>1. 130 - q.prio \in T
      OBVIOUS
    <3>2. n <= 130 - q.prio
      BY <2>2, <3>1
    <3>3. q.prio \in Int /\ b.prio \in Int
      BY <1>1
    <3> HIDE DEF T
    <3>4. 130 - b.prio <= 130 - q.prio
      BY <2>3, <3>2
    <3>5. QED  BY <3>3, <3>4
  <2> HIDE DEF T
  <2>5. ASSUME NEW q \in B PROVE ~ Outranks(q, b)
    <3>1. q.prio \in Int /\ b.prio \in Int /\ q.prio <= b.prio
      BY <1>1, <2>4
    <3>2. q.by # "user"
      BY <1>1
    <3>3. ScopePriority(q) = 2 /\ ScopePriority(b) = 2
      BY <1>1 DEF ScopePriority
    <3>4. QED  BY <3>1, <3>2, <3>3 DEF Outranks
  <2>6. CASE u \in m \ B /\ Outranks(u, b)
    <3>1. ASSUME NEW q \in B PROVE Outranks(u, q)
      <4>1. q.prio \in Int /\ b.prio \in Int /\ q.prio <= b.prio /\ u.prio \in Int /\ u.by = "user"
        BY <1>1, <2>4, <2>6
      <4>2. ScopePriority(q) = 2 /\ ScopePriority(b) = 2 /\ ScopePriority(u) \in 2 .. 4
        BY <1>1, <2>6 DEF ScopePriority
      <4>3. QED  BY <2>6, <4>1, <4>2 DEF Outranks
    <3>2. \A q \in m \ {u} : q \in B
      BY <1>1
    <3>3. QED  BY <2>6, <3>1, <3>2 DEF First
  <2>7. CASE ~ (u \in m \ B /\ Outranks(u, b))
    <3>1. \A q \in m \ {b} : ~ Outranks(q, b)
      BY <1>1, <2>5, <2>7
    <3>2. b \in m
      BY <1>1
    <3>3. QED  BY <3>1, <3>2 DEF First
  <2>8. QED  BY <2>6, <2>7
<1>4. QED  BY <1>2, <1>3

LEMMA Verdict ==
  ASSUME NEW rules, RulesTyped(rules), NEW ps, ps.ds \in Sources, MatchingRules(rules, ps) # {}
  PROVE  \E w : /\ First(w, MatchingRules(rules, ps))
                /\ AssessParsed(rules, ps) = [action |-> w.action, by |-> w.by]
<1> DEFINE m == MatchingRules(rules, ps)
           w == CHOOSE r \in m : \A q \in m \ {r} : Outranks(r, q) \/ ~ Outranks(q, r)
<1>1. \A r \in m : Shipped1(r, rules.optIn) \/ (r = rules.user /\ UserRule(r))
  BY MatchingAre
<1>2. AssessParsed(rules, ps) = [action |-> w.action, by |-> w.by]
  BY DEF AssessParsed
<1>3. m # {}
  OBVIOUS
<1> HIDE DEF m
<1>4. \E r : First(r, m)
  BY <1>1, <1>3, FirstOf
<1>5. First(w, m)
  BY <1>4 DEF First
<1>6. QED  BY <1>2, <1>5 DEF m

LEMMA VerdictTyped ==
  ASSUME NEW rules, RulesTyped(rules), NEW ps, ps.ds \in Sources
  PROVE  AssessParsed(rules, ps).action \in ActionNames
<1>1. CASE MatchingRules(rules, ps) = {}
  BY <1>1 DEF AssessParsed, ActionNames
<1>2. CASE MatchingRules(rules, ps) # {}
  <2>1. PICK w : First(w, MatchingRules(rules, ps)) /\ AssessParsed(rules, ps) = [action |-> w.action, by |-> w.by]
    BY <1>2, Verdict
  <2>2. w \in MatchingRules(rules, ps)
    BY <2>1 DEF First
  <2>3. w.action \in ActionNames
    BY <2>2, MatchingAre DEF Shipped1, UserRule
  <2>4. QED  BY <2>1, <2>3
<1>3. QED  BY <1>1, <1>2

(* A verdict that is not the user's is that of a shipped rule which no     *)
(* other one that matches outranks.                                        *)
Matches(r, ps) == \E c \in r.any : ConditionMatches(c, ps)

LEMMA VerdictShipped ==
  ASSUME NEW rules, RulesTyped(rules), NEW ps, ps.ds \in Sources,
         AssessParsed(rules, ps).by # "user", NEW b \in BuiltinRules(ps.ds, rules.optIn), Matches(b, ps)
  PROVE  \E w \in BuiltinRules(ps.ds, rules.optIn) :
           /\ Shipped1(w, rules.optIn) /\ Matches(w, ps) /\ w.prio >= b.prio
           /\ AssessParsed(rules, ps).action = w.action
<1>1. Shipped1(b, rules.optIn)
  BY BuiltinRulesAre DEF RulesTyped
<1>2. b \in MatchingRules(rules, ps)
  BY <1>1 DEF MatchingRules, Matches, ScopeMatches, Shipped1
<1>3. PICK w : First(w, MatchingRules(rules, ps)) /\ AssessParsed(rules, ps) = [action |-> w.action, by |-> w.by]
  BY <1>2, Verdict
<1>4. w \in MatchingRules(rules, ps) /\ w.by # "user"
  BY <1>3 DEF First
<1>5. Shipped1(w, rules.optIn)
  BY <1>4, MatchingAre DEF UserRule
<1>6. w = b \/ Outranks(w, b) \/ ~ Outranks(b, w)
  BY <1>2, <1>3 DEF First
<1>7. w.prio >= b.prio
  <2>1. w.prio \in Int /\ b.prio \in Int /\ b.by # "user" /\ w.by # "user"
    BY <1>1, <1>5 DEF Shipped1
  <2>2. ScopePriority(w) = 2 /\ ScopePriority(b) = 2
    BY <1>1, <1>5 DEF Shipped1, ScopePriority
  <2>3. QED  BY <1>6, <2>1, <2>2 DEF Outranks
<1>8. w \in BuiltinRules(ps.ds, rules.optIn) /\ Matches(w, ps)
  <2>1. w # rules.user \/ rules.user = NoUserRule \/ w \notin UserRules
    BY <1>5, StatementRiskAssumption DEF Shipped1
  <2>2. w \in BuiltinRules(ps.ds, rules.optIn)
    BY <1>4, <2>1 DEF MatchingRules, RulesTyped
  <2>3. QED  BY <1>4, <2>2 DEF MatchingRules, Matches
<1>9. QED  BY <1>3, <1>5, <1>7, <1>8

-----------------------------------------------------------------------------
(* When a condition holds of a statement's facts.                          *)
LEMMA NamedMatches ==
  ASSUME NEW ps, FactsTyped(ps), NEW C, C # {}
  PROVE  ConditionMatches(Named(C), ps) <=> C \cap ps.cmds # {}
<1>1. /\ Named(C).cmds = C /\ Named(C).classes = {} /\ Named(C).methods = {} /\ Named(C).where = BOOLEAN
      /\ Named(C).multi = BOOLEAN /\ Named(C).failed = BOOLEAN /\ Named(C).marks = {} /\ Named(C).unless = {}
  BY NamedIs
<1>2. ps.where \in BOOLEAN /\ ps.multi \in BOOLEAN /\ ps.failed \in BOOLEAN
  BY DEF FactsTyped
<1>3. QED  BY <1>1, <1>2 DEF ConditionMatches

LEMMA NamedWhereMatches ==
  ASSUME NEW ps, FactsTyped(ps), NEW C, C # {}, NEW W
  PROVE  ConditionMatches([Named(C) EXCEPT !.where = W], ps) <=> C \cap ps.cmds # {} /\ ps.where \in W
<1> DEFINE c == [Named(C) EXCEPT !.where = W]
<1>1. /\ c.cmds = C /\ c.classes = {} /\ c.methods = {} /\ c.where = W
      /\ c.multi = BOOLEAN /\ c.failed = BOOLEAN /\ c.marks = {} /\ c.unless = {}
  BY NamedIs
<1>2. ps.where \in BOOLEAN /\ ps.multi \in BOOLEAN /\ ps.failed \in BOOLEAN
  BY DEF FactsTyped
<1> HIDE DEF c
<1>3. ConditionMatches(c, ps) <=> C \cap ps.cmds # {} /\ ps.where \in W
  BY <1>1, <1>2 DEF ConditionMatches
<1>4. QED  BY <1>3 DEF c

LEMMA NamedFailedMatches ==
  ASSUME NEW ps, FactsTyped(ps), NEW C, C # {}, NEW W
  PROVE  ConditionMatches([Named(C) EXCEPT !.failed = W], ps) <=> C \cap ps.cmds # {} /\ ps.failed \in W
<1> DEFINE c == [Named(C) EXCEPT !.failed = W]
<1>1. /\ c.cmds = C /\ c.classes = {} /\ c.methods = {} /\ c.where = BOOLEAN
      /\ c.multi = BOOLEAN /\ c.failed = W /\ c.marks = {} /\ c.unless = {}
  BY NamedIs
<1>2. ps.where \in BOOLEAN /\ ps.multi \in BOOLEAN /\ ps.failed \in BOOLEAN
  BY DEF FactsTyped
<1> HIDE DEF c
<1>3. ConditionMatches(c, ps) <=> C \cap ps.cmds # {} /\ ps.failed \in W
  BY <1>1, <1>2 DEF ConditionMatches
<1>4. QED  BY <1>3 DEF c

LEMMA BatchMatches ==
  ASSUME NEW ps, FactsTyped(ps), ps.multi = TRUE
  PROVE  ConditionMatches([Anything EXCEPT !.multi = {TRUE}], ps)
<1> DEFINE c == [Anything EXCEPT !.multi = {TRUE}]
<1>1. /\ c.cmds = {} /\ c.classes = {} /\ c.methods = {} /\ c.where = BOOLEAN
      /\ c.multi = {TRUE} /\ c.failed = BOOLEAN /\ c.marks = {} /\ c.unless = {}
  BY DEF Anything
<1>2. ps.where \in BOOLEAN /\ ps.failed \in BOOLEAN
  BY DEF FactsTyped
<1> HIDE DEF c
<1>3. ConditionMatches(c, ps)
  BY <1>1, <1>2 DEF ConditionMatches
<1>4. QED  BY <1>3 DEF c

LEMMA MarkedMatches ==
  ASSUME NEW ps, FactsTyped(ps), NEW M, M # {}
  PROVE  ConditionMatches(Marked(M), ps) <=> M \cap ps.marks # {}
<1>1. /\ Marked(M).cmds = {} /\ Marked(M).classes = {} /\ Marked(M).methods = {} /\ Marked(M).where = BOOLEAN
      /\ Marked(M).multi = BOOLEAN /\ Marked(M).failed = BOOLEAN /\ Marked(M).marks = M /\ Marked(M).unless = {}
  BY DEF Marked, Anything
<1>2. ps.where \in BOOLEAN /\ ps.multi \in BOOLEAN /\ ps.failed \in BOOLEAN
  BY DEF FactsTyped
<1>3. QED  BY <1>1, <1>2 DEF ConditionMatches

LEMMA NamedMarkedMatches ==
  ASSUME NEW ps, FactsTyped(ps), NEW C, C # {}, NEW M, M # {}
  PROVE  ConditionMatches([Named(C) EXCEPT !.marks = M], ps) <=> C \cap ps.cmds # {} /\ M \cap ps.marks # {}
<1> DEFINE c == [Named(C) EXCEPT !.marks = M]
<1>1. /\ c.cmds = C /\ c.classes = {} /\ c.methods = {} /\ c.where = BOOLEAN
      /\ c.multi = BOOLEAN /\ c.failed = BOOLEAN /\ c.marks = M /\ c.unless = {}
  BY NamedIs
<1>2. ps.where \in BOOLEAN /\ ps.multi \in BOOLEAN /\ ps.failed \in BOOLEAN
  BY DEF FactsTyped
<1> HIDE DEF c
<1>3. ConditionMatches(c, ps) <=> C \cap ps.cmds # {} /\ M \cap ps.marks # {}
  BY <1>1, <1>2 DEF ConditionMatches
<1>4. QED  BY <1>3 DEF c

LEMMA RequestMatches ==
  ASSUME NEW ps, FactsTyped(ps), NEW H, ps.method \in H, NEW X, X \cap ps.marks = {}
  PROVE  ConditionMatches(Request(H, {}), ps) /\ ConditionMatches([Request(H, {}) EXCEPT !.unless = X], ps)
<1> DEFINE c == Request(H, {})
           d == [Request(H, {}) EXCEPT !.unless = X]
<1>1. /\ c.cmds = {} /\ c.classes = {} /\ c.methods = H /\ c.where = BOOLEAN
      /\ c.multi = BOOLEAN /\ c.failed = BOOLEAN /\ c.marks = {} /\ c.unless = {}
  BY DEF Request, Anything
<1>2. /\ d.cmds = {} /\ d.classes = {} /\ d.methods = H /\ d.where = BOOLEAN
      /\ d.multi = BOOLEAN /\ d.failed = BOOLEAN /\ d.marks = {} /\ d.unless = X
  BY DEF Request, Anything
<1>3. ps.where \in BOOLEAN /\ ps.multi \in BOOLEAN /\ ps.failed \in BOOLEAN
  BY DEF FactsTyped
<1> HIDE DEF c, d
<1>4. ConditionMatches(c, ps)
  BY <1>1, <1>3 DEF ConditionMatches
<1>5. ConditionMatches(d, ps)
  BY <1>2, <1>3 DEF ConditionMatches
<1>6. QED  BY <1>4, <1>5 DEF c, d

(* A shipped rule, of any of whose conditions one holds, matches.          *)
LEMMA RuleMatches ==
  ASSUME NEW p, NEW a, NEW any, NEW c \in any, NEW ps, ConditionMatches(c, ps)
  PROVE  Matches(BuiltinRule(p, a, any), ps) /\ BuiltinRule(p, a, any).prio = p
<1>1. BuiltinRule(p, a, any).any = any /\ BuiltinRule(p, a, any).prio = p
  BY BuiltinRuleIs
<1>2. QED  BY <1>1 DEF Matches

(* What a statement that may write meets: a rule that comes before the one *)
(* that allows reads, or none that allows it.                              *)
WriteSeen(ps, optIn) ==
    \/ \E b \in BuiltinRules(ps.ds, optIn) : b.prio > 10 /\ Matches(b, ps)
    \/ ~ps.query /\ \A b \in BuiltinRules(ps.ds, optIn) : b.prio = 10 => ~Matches(b, ps)

LEMMA SeenBy ==
  ASSUME NEW ps, NEW optIn, NEW p, p > 10, NEW a, NEW any, BuiltinRule(p, a, any) \in BuiltinRules(ps.ds, optIn),
         NEW c \in any, ConditionMatches(c, ps)
  PROVE  WriteSeen(ps, optIn)
<1>1. Matches(BuiltinRule(p, a, any), ps) /\ BuiltinRule(p, a, any).prio = p
  BY RuleMatches
<1> DEFINE b == BuiltinRule(p, a, any)
<1> HIDE DEF b
<1>2. b \in BuiltinRules(ps.ds, optIn) /\ Matches(b, ps) /\ b.prio > 10
  BY <1>1 DEF b
<1>3. QED  BY <1>2 DEF WriteSeen

-----------------------------------------------------------------------------
(* The facts of a statement.                                               *)
LEMMA ParsedSql ==
  ASSUME NEW st, st.ds \in SqlSources, st.count \in {1, 2}
  PROVE  LET ps == ParseStatement(st) IN
         /\ ps.ds = st.ds /\ ps.st = st /\ ps.cmds = {SqlRiskFacts(st).verb} /\ ps.where = SqlRiskFacts(st).where
         /\ ps.multi = (st.count = 2) /\ ps.failed = ~SqlParses(st) /\ ps.query = SqlRiskFacts(st).query
<1>1. ParseStatement(st) = ParseSql(st)
  BY DEF ParseStatement, SqlSources
<1> DEFINE facts == SqlRiskFacts(st)
           fails == ~SqlParses(st)
           multi == st.count > 1
<1>2. multi = (st.count = 2)
  OBVIOUS
<1> HIDE DEF facts, fails, multi
<1> DEFINE r == [Parsed(st) EXCEPT !.cmds = {facts.verb}, !.marks = st.marks, !.where = facts.where, !.multi = multi,
                     !.failed = fails, !.query = facts.query,
                     !.entity = facts.entity, !.entities = facts.entities]
<1>3. ParseSql(st) = r
  BY Zenon DEF ParseSql, facts, fails, multi
<1>4. r.ds = st.ds /\ r.st = st /\ r.cmds = {facts.verb} /\ r.where = facts.where
  BY DEF Parsed
<1>5. r.multi = multi /\ r.failed = fails /\ r.query = facts.query
  BY DEF Parsed
<1> HIDE DEF r
<1>6. QED  BY <1>1, <1>2, <1>3, <1>4, <1>5 DEF facts, fails

LEMMA SqlShapes ==
  ASSUME NEW st \in SqlStatements
  PROVE  /\ st.ds \in SqlSources /\ st.top \in SqlVerbs /\ st.where \in BOOLEAN /\ st.count \in {1, 2}
         /\ st.parses \in BOOLEAN
         /\ st.ctes = <<>> \/ (st.top \in {"select", "insert", "update", "delete"} /\ \E c \in Ctes : st.ctes = <<c>>)
<1>1. CASE st \in [ds : SqlSources, top : {"select", "insert", "update", "delete"}, where : BOOLEAN, table : {"a", "v"},
                   ctes : {<<>>} \cup {<<c>> : c \in Ctes}, count : {1, 2}, parses : BOOLEAN, marks : {{"values"}, {}}]
  <2>1. st.ctes \in {<<>>} \cup {<<c>> : c \in Ctes}
    BY <1>1
  <2>2. st.ctes = <<>> \/ \E c \in Ctes : st.ctes = <<c>>
    BY <2>1
  <2>3. /\ st.ds \in SqlSources /\ st.top \in {"select", "insert", "update", "delete"} /\ st.where \in BOOLEAN
        /\ st.count \in {1, 2} /\ st.parses \in BOOLEAN
    BY <1>1
  <2>4. QED  BY <2>2, <2>3 DEF SqlVerbs
<1>2. CASE st \in [ds : SqlSources, top : SqlVerbs, where : {FALSE}, table : {"a"},
        ctes : {<<>>}, count : {1}, parses : {TRUE}, marks : {{}}]
  BY <1>2
<1>3. QED  BY <1>1, <1>2 DEF SqlStatements

(* A statement's CTEs: at most one.                                        *)
LEMMA OneCte ==
  ASSUME NEW st, NEW c \in Ctes, st.ctes = <<c>>
  PROVE  /\ DOMAIN st.ctes = {1} /\ st.ctes[1] = c
         /\ c.verb \in {"select", "insert", "update", "delete"} /\ c.where \in BOOLEAN
         /\ \A verb : CteWrites(st, verb) = IF c.verb = verb THEN {1} ELSE {}
<1>1. DOMAIN st.ctes = {1} /\ st.ctes[1] = c
  OBVIOUS
<1>2. c.verb \in {"select", "insert", "update", "delete"} /\ c.where \in BOOLEAN
  BY DEF Ctes
<1>3. QED  BY <1>1, <1>2 DEF CteWrites

LEMMA NoCte ==
  ASSUME NEW st, st.ctes = <<>>
  PROVE  DOMAIN st.ctes = {} /\ \A verb : CteWrites(st, verb) = {}
<1>1. DOMAIN st.ctes = {}
  OBVIOUS
<1>2. QED  BY <1>1 DEF CteWrites

(* The gravest change a parsed statement makes is its verb.                *)
LEMMA SqlVerbIs ==
  ASSUME NEW st \in SqlStatements, SqlParses(st)
  PROVE  LET facts == SqlRiskFacts(st) IN
         /\ facts.where \in BOOLEAN /\ facts.query \in BOOLEAN
         /\ st.top \in {"delete", "update", "insert", "explain", "drop", "create", "grant", "show"} => facts.verb = st.top
         /\ st.top = "select" /\ st.ctes = <<>> => facts.verb = "select"
         /\ st.top = "select" => \A c \in Ctes : st.ctes = <<c>> => facts.verb = c.verb
         /\ facts.query => facts.verb \in SqlReads
<1> DEFINE verb == SqlVerbFromAnalysis(st)
           where == SqlHasWhereFromAnalysis(st, verb)
           facts == SqlRiskFacts(st)
<1>1. /\ st.top \in SqlParsed /\ st.where \in BOOLEAN
      /\ st.ctes = <<>> \/ (st.top \in {"select", "insert", "update", "delete"} /\ \E c \in Ctes : st.ctes = <<c>>)
  BY SqlShapes DEF SqlParses
<1>2. /\ facts.verb = IF verb = "" THEN st.top ELSE verb
      /\ facts.where = (where \/ st.where)
      /\ facts.query = ((st.top = "select" /\ verb \in SqlReads) \/ (verb \in {"", st.top} /\ st.top \in SqlReads))
  BY DEF SqlRiskFacts, MergeFallback, SqlRiskFactsFromAnalysis, FallbackSqlRiskFacts
<1>3. where \in BOOLEAN
  BY <1>1 DEF SqlHasWhereFromAnalysis
<1> HIDE DEF where, facts
<1>4. /\ st.top \in {"delete", "update", "insert", "explain"} => verb = st.top
      /\ st.top \in {"drop", "create", "grant", "show"} => verb = ""
  BY DEF SqlVerbFromAnalysis
<1>5. st.top = "select" /\ st.ctes = <<>> => verb = "select"
  BY NoCte DEF SqlVerbFromAnalysis
<1>6. ASSUME st.top = "select", NEW c \in Ctes, st.ctes = <<c>> PROVE verb = c.verb
  BY <1>6, OneCte DEF SqlVerbFromAnalysis
<1>7. \A c \in Ctes : c.verb # ""
  BY DEF Ctes
<1>8. facts.where \in BOOLEAN /\ facts.query \in BOOLEAN
  BY <1>1, <1>2, <1>3
<1>9. st.top \in {"delete", "update", "insert", "explain", "drop", "create", "grant", "show", "select"}
  BY <1>1 DEF SqlParsed, SqlAnalyzed
<1>10. facts.verb = IF verb = "" THEN st.top ELSE verb
  BY <1>2
<1>11. st.top \in {"delete", "update", "insert", "explain", "drop", "create", "grant", "show"} => facts.verb = st.top
  <2> HIDE DEF verb
  <2>1. CASE st.top \in {"delete", "update", "insert", "explain"}
    <3>1. verb = st.top /\ verb # ""
      BY <1>4, <2>1
    <3>2. QED  BY <1>10, <3>1
  <2>2. CASE st.top \in {"drop", "create", "grant", "show"}
    BY <1>4, <1>10, <2>2
  <2>3. QED  BY <2>1, <2>2
<1>12. st.top = "select" => facts.verb = verb
  BY <1>1, <1>5, <1>6, <1>7, <1>10
<1> HIDE DEF verb
<1>13. facts.query => facts.verb \in SqlReads
  <2> SUFFICES ASSUME facts.query PROVE facts.verb \in SqlReads
    OBVIOUS
  <2>1. CASE st.top = "select" /\ verb \in SqlReads
    BY <1>12, <2>1
  <2>2. CASE verb \in {"", st.top} /\ st.top \in SqlReads
    <3>1. CASE st.top = "select"
      <4>1. verb = "select" \/ verb = ""
        BY <2>2, <3>1
      <4>2. verb # ""
        BY <1>1, <1>5, <1>6, <1>7, <3>1
      <4>3. QED  BY <1>12, <3>1, <4>1, <4>2 DEF SqlReads
    <3>2. CASE st.top # "select"
      BY <1>9, <1>11, <2>2, <3>2
    <3>3. QED  BY <3>1, <3>2
  <2>3. QED  BY <1>2, <2>1, <2>2
<1>14. QED  BY <1>5, <1>6, <1>8, <1>11, <1>12, <1>13 DEF facts

LEMMA SqlTextIs ==
  ASSUME NEW st \in SqlStatements, ~SqlParses(st)
  PROVE  LET facts == SqlRiskFacts(st) IN
         facts.verb = st.top /\ facts.where = st.where /\ facts.query = (st.top \in SqlReads)
  BY DEF SqlRiskFacts, FallbackSqlRiskFacts

LEMMA SqlTyped ==
  ASSUME NEW st \in SqlStatements
  PROVE  FactsTyped(ParseStatement(st)) /\ ParseStatement(st).ds = st.ds
<1>1. st.ds \in SqlSources /\ st.count \in {1, 2} /\ st.where \in BOOLEAN
  BY SqlShapes
<1>2. SqlRiskFacts(st).where \in BOOLEAN /\ SqlRiskFacts(st).query \in BOOLEAN
  <2>1. CASE SqlParses(st)
    BY <2>1, SqlVerbIs
  <2>2. CASE ~SqlParses(st)
    <3>1. (st.top \in SqlReads) \in BOOLEAN
      OBVIOUS
    <3>2. SqlRiskFacts(st).where = st.where /\ SqlRiskFacts(st).query = (st.top \in SqlReads)
      BY <2>2, SqlTextIs
    <3>3. QED  BY <1>1, <3>1, <3>2
  <2>3. QED  BY <2>1, <2>2
<1>3. SqlParses(st) \in BOOLEAN
  BY DEF SqlParses
<1> DEFINE ps == ParseStatement(st)
<1>4. /\ ps.ds = st.ds /\ ps.where = SqlRiskFacts(st).where /\ ps.multi = (st.count = 2)
      /\ ps.failed = ~SqlParses(st) /\ ps.query = SqlRiskFacts(st).query
  BY <1>1, ParsedSql
<1> HIDE DEF ps
<1>5. ps.multi \in BOOLEAN /\ ps.failed \in BOOLEAN
  BY <1>3, <1>4
<1>6. FactsTyped(ps) /\ ps.ds = st.ds
  BY <1>1, <1>2, <1>4, <1>5 DEF FactsTyped, Sources
<1>7. QED  BY <1>6 DEF ps

(* The one SQL rule that allows.                                           *)
SqlAllowed == {"select", "show", "describe", "explain"}

LEMMA SqlAllowance ==
  ASSUME NEW optIn \in BOOLEAN, NEW b \in BuiltinSqlRules(optIn), b.prio = 10
  PROVE  b.any = {Named(SqlAllowed)}
<1> DEFINE P(p) == p \in Nat /\ p # 10
<1>1. \A p, a, any : P(p) => b # BuiltinRule(p, a, any)
  BY BuiltinRuleIs
<1>2. \A p \in {130, 115, 100, 90, 80, 60, 50, 40} : P(p)
  OBVIOUS
<1> HIDE DEF P
<1>3. b = BuiltinRule(10, "allow", {Named({"select", "show", "describe", "explain"})})
  BY <1>1, <1>2 DEF BuiltinSqlRules
<1>4. QED  BY <1>3, BuiltinRuleIs DEF SqlAllowed

LEMMA SqlWriteSeen ==
  ASSUME NEW st \in SqlStatements, MayWrite(st), NEW optIn \in BOOLEAN
  PROVE  WriteSeen(ParseStatement(st), optIn)
<1> DEFINE ps == ParseStatement(st)
           verb == SqlRiskFacts(st).verb
<1>1. /\ st.ds \in SqlSources /\ st.top \in SqlVerbs /\ st.where \in BOOLEAN /\ st.count \in {1, 2} /\ st.parses \in BOOLEAN
      /\ st.ctes = <<>> \/ (st.top \in {"select", "insert", "update", "delete"} /\ \E c \in Ctes : st.ctes = <<c>>)
  BY SqlShapes
<1>2. /\ ps.ds = st.ds /\ ps.cmds = {verb} /\ ps.multi = (st.count = 2) /\ ps.failed = ~SqlParses(st)
      /\ ps.query = SqlRiskFacts(st).query
  BY <1>1, ParsedSql
<1>3. FactsTyped(ps) /\ ps.where \in BOOLEAN
  BY SqlTyped DEF FactsTyped
<1>4. BuiltinRules(ps.ds, optIn) = BuiltinSqlRules(optIn)
  BY <1>1, <1>2 DEF BuiltinRules, SqlSources
<1>5. SqlParses(st) => ps.query = SqlRiskFacts(st).query
  BY <1>2
<1>6. st.top \notin SqlReads \/ st.count > 1 \/ \E i \in DOMAIN st.ctes : st.ctes[i].verb # "select"
  BY <1>1 DEF MayWrite, SqlSources
<1> HIDE DEF ps
<1>7. CASE st.count = 2
  <2> DEFINE c == [Anything EXCEPT !.multi = {TRUE}]
  <2>1. ConditionMatches(c, ps)
    BY <1>2, <1>3, <1>7, BatchMatches
  <2>2. BuiltinRule(130, "block", {c}) \in BuiltinRules(ps.ds, optIn)
    BY <1>4, Zenon DEF BuiltinSqlRules
  <2> HIDE DEF c
  <2>3. c \in {c} /\ 130 > 10
    OBVIOUS
  <2>4. WriteSeen(ps, optIn)
    BY <2>1, <2>2, <2>3, SeenBy
  <2>5. QED  BY <2>4 DEF ps
<1>8. CASE verb \in {"delete", "update"}
  <2> DEFINE c(w) == [Named({"delete", "update"}) EXCEPT !.where = {w}]
  <2>1. \A w : ConditionMatches(c(w), ps) <=> ps.where \in {w}
    <3>1. {"delete", "update"} \cap ps.cmds # {} /\ {"delete", "update"} # {}
      BY <1>2, <1>8
    <3>2. QED  BY <1>3, <3>1, NamedWhereMatches
  <2>2. BuiltinRule(90, "block", {c(FALSE)}) \in BuiltinRules(ps.ds, optIn)
    BY <1>4, Zenon DEF BuiltinSqlRules
  <2>3. BuiltinRule(50, "warn", {c(TRUE)}) \in BuiltinRules(ps.ds, optIn)
    BY <1>4, Zenon DEF BuiltinSqlRules
  <2> HIDE DEF c
  <2>4. c(FALSE) \in {c(FALSE)} /\ c(TRUE) \in {c(TRUE)} /\ 90 > 10 /\ 50 > 10
    OBVIOUS
  <2>5. CASE ps.where = FALSE
    <3>1. WriteSeen(ps, optIn)
      BY <2>1, <2>2, <2>4, <2>5, SeenBy
    <3>2. QED  BY <3>1 DEF ps
  <2>6. CASE ps.where = TRUE
    <3>1. WriteSeen(ps, optIn)
      BY <2>1, <2>3, <2>4, <2>6, SeenBy
    <3>2. QED  BY <3>1 DEF ps
  <2>7. QED  BY <1>3, <2>5, <2>6
<1>9. CASE verb \in {"insert", "replace", "create"}
  <2> DEFINE c == Named({"insert", "replace"})
             d == Named({"alter", "create"})
  <2>1. ConditionMatches(c, ps) \/ ConditionMatches(d, ps)
    <3>1. {"insert", "replace"} \cap ps.cmds # {} \/ {"alter", "create"} \cap ps.cmds # {}
      BY <1>2, <1>9
    <3>2. QED  BY <1>3, <3>1, NamedMatches
  <2>2. BuiltinRule(40, "warn", {c, d}) \in BuiltinRules(ps.ds, optIn)
    BY <1>4, Zenon DEF BuiltinSqlRules
  <2> HIDE DEF c, d
  <2>3. c \in {c, d} /\ d \in {c, d} /\ 40 > 10
    OBVIOUS
  <2>4. WriteSeen(ps, optIn)
    BY <2>1, <2>2, <2>3, SeenBy
  <2>5. QED  BY <2>4 DEF ps
<1>10. CASE verb \in {"drop", "grant"}
  <2> DEFINE c == Named({"drop", "truncate"})
             d == Named({"grant", "revoke"})
  <2>1. ConditionMatches(c, ps) \/ ConditionMatches(d, ps)
    <3>1. {"drop", "truncate"} \cap ps.cmds # {} \/ {"grant", "revoke"} \cap ps.cmds # {}
      BY <1>2, <1>10
    <3>2. QED  BY <1>3, <3>1, NamedMatches
  <2>2. BuiltinRule(100, "block", {c, d}) \in BuiltinRules(ps.ds, optIn)
    BY <1>4, Zenon DEF BuiltinSqlRules
  <2> HIDE DEF c, d
  <2>3. c \in {c, d} /\ d \in {c, d} /\ 100 > 10
    OBVIOUS
  <2>4. WriteSeen(ps, optIn)
    BY <2>1, <2>2, <2>3, SeenBy
  <2>5. QED  BY <2>4 DEF ps
<1>11. CASE verb = "call"
  <2> DEFINE c == Named({"call", "exec", "execute", "do"})
  <2>1. ConditionMatches(c, ps)
    <3>1. {"call", "exec", "execute", "do"} \cap ps.cmds # {}
      BY <1>2, <1>11
    <3>2. QED  BY <1>3, <3>1, NamedMatches
  <2>2. BuiltinRule(115, "require_approval", {c}) \in BuiltinRules(ps.ds, optIn)
    BY <1>4, Zenon DEF BuiltinSqlRules
  <2> HIDE DEF c
  <2>3. c \in {c} /\ 115 > 10
    OBVIOUS
  <2>4. WriteSeen(ps, optIn)
    BY <2>1, <2>2, <2>3, SeenBy
  <2>5. QED  BY <2>4 DEF ps
<1>12. CASE verb = "vacuum" /\ ~ps.query
  <2>1. ~ConditionMatches(Named(SqlAllowed), ps)
    <3>1. SqlAllowed \cap ps.cmds = {} /\ SqlAllowed # {}
      BY <1>2, <1>12 DEF SqlAllowed
    <3>2. QED  BY <1>3, <3>1, NamedMatches
  <2>2. \A b \in BuiltinRules(ps.ds, optIn) : b.prio = 10 => b.any = {Named(SqlAllowed)}
    BY <1>4, SqlAllowance
  <2> DEFINE c == Named(SqlAllowed)
  <2> HIDE DEF c
  <2>3. \A b \in BuiltinRules(ps.ds, optIn) : b.prio = 10 => ~Matches(b, ps)
    BY <2>1, <2>2 DEF c, Matches
  <2>4. WriteSeen(ps, optIn)
    BY <1>12, <2>3 DEF WriteSeen
  <2>5. QED  BY <2>4 DEF ps
<1>13. CASE ps.failed /\ verb = "select"
  <2> DEFINE all == {"select", "insert", "update", "delete", "replace", "alter", "create",
                     "drop", "truncate", "grant", "revoke", "explain"}
             c == [Named(all) EXCEPT !.failed = {TRUE}]
  <2>1. ConditionMatches(c, ps)
    <3>1. all \cap ps.cmds # {} /\ all # {}
      BY <1>2, <1>13
    <3>2. ps.failed \in {TRUE}
      BY <1>3, <1>13 DEF FactsTyped
    <3> HIDE DEF all
    <3>3. QED  BY <1>3, <3>1, <3>2, NamedFailedMatches
  <2>2. BuiltinRule(80, "require_approval", {c}) \in BuiltinRules(ps.ds, optIn)
    BY <1>4, Zenon DEF BuiltinSqlRules
  <2> HIDE DEF c
  <2>3. c \in {c} /\ 80 > 10
    OBVIOUS
  <2>4. WriteSeen(ps, optIn)
    BY <2>1, <2>2, <2>3, SeenBy
  <2>5. QED  BY <2>4 DEF ps
<1>14. CASE st.count = 1
  <2>1. st.top \notin SqlReads \/ \E i \in DOMAIN st.ctes : st.ctes[i].verb # "select"
    BY <1>6, <1>14
  <2>2. CASE SqlParses(st)
    <3>1. CASE st.top = "select"
      <4>1. PICK c \in Ctes : st.ctes = <<c>> /\ c.verb # "select"
        <5>1. st.top \in SqlReads
          BY <3>1 DEF SqlReads
        <5>2. st.ctes # <<>>
          BY <2>1, <5>1, NoCte
        <5>3. PICK c \in Ctes : st.ctes = <<c>>
          BY <1>1, <5>2
        <5>4. c.verb # "select"
          BY <2>1, <5>1, <5>3, OneCte
        <5>5. QED  BY <5>3, <5>4
      <4>2. verb = c.verb /\ c.verb \in {"insert", "update", "delete"}
        BY <2>2, <3>1, <4>1, SqlVerbIs, OneCte
      <4>3. QED  BY <1>8, <1>9, <4>2
    <3>2. CASE st.top # "select"
      <4>1. st.top \in {"insert", "update", "delete", "explain", "drop", "create", "grant", "show"}
        BY <2>2, <3>2 DEF SqlParses, SqlParsed, SqlAnalyzed
      <4>2. verb = st.top
        BY <2>2, <4>1, SqlVerbIs
      <4>3. st.top \in SqlReads => st.ctes = <<>>
        BY <1>1, <3>2 DEF SqlReads
      <4>4. st.top \notin SqlReads
        BY <2>1, <4>3, NoCte
      <4>5. QED  BY <1>8, <1>9, <1>10, <4>1, <4>2, <4>4 DEF SqlReads
    <3>3. QED  BY <3>1, <3>2
  <2>3. CASE ~SqlParses(st)
    <3>1. verb = st.top /\ ps.failed /\ ps.query = (st.top \in SqlReads)
      BY <1>2, <2>3, SqlTextIs
    <3>2. st.top \in SqlVerbs
      BY <1>1
    <3>3. st.top \notin {"show", "explain"}
      <4>1. ASSUME st.top \in {"show", "explain"} PROVE FALSE
        <5>1. st.ctes = <<>>
          BY <1>1, <4>1
        <5>2. st.top \in SqlReads
          BY <4>1 DEF SqlReads
        <5>3. QED  BY <2>1, <5>1, <5>2, NoCte
      <4>2. QED  BY <4>1
    <3>4. st.top = "vacuum" => ~ps.query
      BY <3>1 DEF SqlReads
    <3>5. QED  BY <1>8, <1>9, <1>10, <1>11, <1>12, <1>13, <3>1, <3>2, <3>3, <3>4 DEF SqlVerbs
  <2>4. QED  BY <2>2, <2>3
<1>15. QED  BY <1>1, <1>7, <1>14

(* MongoDB's statements.                                                   *)
LEMMA ParsedMongo ==
  ASSUME NEW st \in MongoStatements
  PROVE  LET ps == ParseStatement(st) IN
         /\ FactsTyped(ps) /\ ps.ds = "mongodb" /\ ps.st = st /\ ps.cmds = {st.action} /\ ps.marks = st.marks \cup st.stages
         /\ ps.query = IF st.parses THEN st.action \in MongoReads /\ "out" \notin st.stages ELSE st.action \in {"find", "aggregate"}
<1>1. st.ds = "mongodb" /\ st.parses \in BOOLEAN
  BY DEF MongoStatements
<1>2. ParseStatement(st) = ParseMongo(st)
  BY <1>1 DEF ParseStatement, SqlSources
<1> DEFINE marks == st.marks \cup st.stages
           query == IF st.parses THEN st.action \in MongoReads /\ "out" \notin st.stages ELSE MongoShellIsLowRisk(st)
           entities == IF st.parses /\ st.stages # {} THEN {"a", "b"} ELSE {"a"}
           r == [Parsed(st) EXCEPT !.cmds = {st.action}, !.marks = marks, !.query = query, !.entity = "a", !.entities = entities]
<1>3. ParseMongo(st) = r
  BY Zenon DEF ParseMongo
<1>4. query \in BOOLEAN
  <2>1. CASE st.parses
    <3>1. query = (st.action \in MongoReads /\ "out" \notin st.stages)
      BY <2>1
    <3>2. (st.action \in MongoReads /\ "out" \notin st.stages) \in BOOLEAN
      OBVIOUS
    <3> HIDE DEF query
    <3>3. QED  BY <3>1, <3>2
  <2>2. CASE ~st.parses
    <3>1. query = (st.action \in {"find", "aggregate"})
      BY <2>2 DEF MongoShellIsLowRisk
    <3>2. (st.action \in {"find", "aggregate"}) \in BOOLEAN
      OBVIOUS
    <3> HIDE DEF query
    <3>3. QED  BY <3>1, <3>2
  <2>3. QED  BY <2>1, <2>2
<1> HIDE DEF marks, query, entities
<1>5. /\ r.ds = st.ds /\ r.st = st /\ r.cmds = {st.action} /\ r.marks = marks /\ r.query = query
      /\ r.where = FALSE /\ r.multi = FALSE /\ r.failed = FALSE
  BY DEF Parsed
<1> HIDE DEF r
<1>6. FactsTyped(r)
  BY <1>1, <1>4, <1>5 DEF FactsTyped, Sources
<1>7. QED  BY <1>1, <1>2, <1>3, <1>5, <1>6 DEF marks, query, MongoShellIsLowRisk

LEMMA MongoAllowance ==
  ASSUME NEW optIn \in BOOLEAN, NEW b \in BuiltinMongoRules(optIn), b.prio = 10
  PROVE  b.any = {Named({"find", "aggregate", "getusers", "count"})}
<1> DEFINE P(p) == p \in Nat /\ p # 10
<1>1. \A p, a, any : P(p) => b # BuiltinRule(p, a, any)
  BY BuiltinRuleIs
<1>2. \A p \in {100, 70, 60, 50, 45, 40} : P(p)
  OBVIOUS
<1> HIDE DEF P
<1>3. b = BuiltinRule(10, "allow", {Named({"find", "aggregate", "getusers", "count"})})
  BY <1>1, <1>2 DEF BuiltinMongoRules
<1>4. QED  BY <1>3, BuiltinRuleIs

LEMMA MongoWriteSeen ==
  ASSUME NEW st \in MongoStatements, MayWrite(st), NEW optIn \in BOOLEAN
  PROVE  WriteSeen(ParseStatement(st), optIn)
<1> DEFINE ps == ParseStatement(st)
<1>1. /\ FactsTyped(ps) /\ ps.ds = "mongodb" /\ ps.cmds = {st.action} /\ ps.marks = st.marks \cup st.stages
      /\ ps.query = IF st.parses THEN st.action \in MongoReads /\ "out" \notin st.stages ELSE st.action \in {"find", "aggregate"}
  BY ParsedMongo
<1>2. BuiltinRules(ps.ds, optIn) = BuiltinMongoRules(optIn)
  BY <1>1 DEF BuiltinRules, SqlSources
<1>3. /\ st.ds = "mongodb" /\ st.action \in MongoActions /\ st.parses \in BOOLEAN
      /\ st.marks \in {{}, {"shellwrite"}, {"shelldrop"}}
      /\ st.stages = {} \/ (st.action = "aggregate" /\ st.marks = {})
  BY DEF MongoStatements, MongoActions
<1>4. st.action \notin MongoReads \/ "out" \in st.stages \/ st.marks # {}
  BY <1>3 DEF MayWrite, SqlSources
<1> HIDE DEF ps
<1>6. CASE "shelldrop" \in st.marks \/ st.action \in {"drop", "createuser"}
  <2> DEFINE c == Named({"drop", "dropdatabase", "createuser"})
             d == Marked({"shelldrop"})
  <2>1. ConditionMatches(c, ps) \/ ConditionMatches(d, ps)
    <3>1. {"drop", "dropdatabase", "createuser"} \cap ps.cmds # {} \/ {"shelldrop"} \cap ps.marks # {}
      BY <1>1, <1>6
    <3>2. QED  BY <1>1, <3>1, NamedMatches, MarkedMatches
  <2>2. BuiltinRule(100, "block", {c, d}) \in BuiltinRules(ps.ds, optIn)
    BY <1>2, Zenon DEF BuiltinMongoRules
  <2> HIDE DEF c, d
  <2>3. c \in {c, d} /\ d \in {c, d} /\ 100 > 10
    OBVIOUS
  <2>4. WriteSeen(ps, optIn)
    BY <2>1, <2>2, <2>3, SeenBy
  <2>5. QED  BY <2>4 DEF ps
<1>7. CASE "shellwrite" \in st.marks
  <2> DEFINE c == Marked({"shellwrite"})
  <2>1. ConditionMatches(c, ps)
    <3>1. {"shellwrite"} \cap ps.marks # {}
      BY <1>1, <1>7
    <3>2. QED  BY <1>1, <3>1, MarkedMatches
  <2>2. BuiltinRule(40, "warn", {c}) \in BuiltinRules(ps.ds, optIn)
    BY <1>2, Zenon DEF BuiltinMongoRules
  <2> HIDE DEF c
  <2>3. c \in {c} /\ 40 > 10
    OBVIOUS
  <2>4. WriteSeen(ps, optIn)
    BY <2>1, <2>2, <2>3, SeenBy
  <2>5. QED  BY <2>4 DEF ps
<1>8. CASE "out" \in st.stages
  <2> DEFINE c == [Named({"aggregate"}) EXCEPT !.marks = {"out"}]
  <2>1. ConditionMatches(c, ps)
    <3>1. {"aggregate"} \cap ps.cmds # {} /\ {"out"} \cap ps.marks # {}
      BY <1>1, <1>3, <1>8
    <3>2. QED  BY <1>1, <3>1, NamedMarkedMatches
  <2>2. BuiltinRule(70, "require_approval", {c}) \in BuiltinRules(ps.ds, optIn)
    BY <1>2, Zenon DEF BuiltinMongoRules
  <2> HIDE DEF c
  <2>3. c \in {c} /\ 70 > 10
    OBVIOUS
  <2>4. WriteSeen(ps, optIn)
    BY <2>1, <2>2, <2>3, SeenBy
  <2>5. QED  BY <2>4 DEF ps
<1>9. CASE st.action = "renamecollection"
  <2> DEFINE c == Named({"renamecollection", "collmod", "dropindexes", "reindex"})
  <2>1. ConditionMatches(c, ps)
    <3>1. {"renamecollection", "collmod", "dropindexes", "reindex"} \cap ps.cmds # {}
      BY <1>1, <1>9
    <3>2. QED  BY <1>1, <3>1, NamedMatches
  <2>2. BuiltinRule(60, "require_approval", {c}) \in BuiltinRules(ps.ds, optIn)
    BY <1>2, Zenon DEF BuiltinMongoRules
  <2> HIDE DEF c
  <2>3. c \in {c} /\ 60 > 10
    OBVIOUS
  <2>4. WriteSeen(ps, optIn)
    BY <2>1, <2>2, <2>3, SeenBy
  <2>5. QED  BY <2>4 DEF ps
<1>10. CASE st.action \in {"deletemany", "updatemany", "insertone"}
  <2> DEFINE c == Named({"deletemany", "updatemany", "insertone"})
  <2>1. ConditionMatches(c, ps)
    <3>1. {"deletemany", "updatemany", "insertone"} \cap ps.cmds # {}
      BY <1>1, <1>10
    <3>2. QED  BY <1>1, <3>1, NamedMatches
  <2>2. BuiltinRule(50, "warn", {c}) \in BuiltinRules(ps.ds, optIn)
    BY <1>2, Zenon DEF BuiltinMongoRules
  <2> HIDE DEF c
  <2>3. c \in {c} /\ 50 > 10
    OBVIOUS
  <2>4. WriteSeen(ps, optIn)
    BY <2>1, <2>2, <2>3, SeenBy
  <2>5. QED  BY <2>4 DEF ps
<1>11. CASE st.action = "watch"
  <2>1. ~ps.query
    BY <1>1, <1>11 DEF MongoReads
  <2> DEFINE reads == {"find", "aggregate", "getusers", "count"}
             c == Named(reads)
  <2>2. ~ConditionMatches(c, ps)
    <3>1. reads \cap ps.cmds = {} /\ reads # {}
      BY <1>1, <1>11
    <3>2. QED  BY <1>1, <3>1, NamedMatches
  <2>3. \A b \in BuiltinRules(ps.ds, optIn) : b.prio = 10 => b.any = {c}
    BY <1>2, MongoAllowance
  <2> HIDE DEF c
  <2>4. \A b \in BuiltinRules(ps.ds, optIn) : b.prio = 10 => ~Matches(b, ps)
    BY <2>2, <2>3 DEF Matches
  <2>5. WriteSeen(ps, optIn)
    BY <2>1, <2>4 DEF WriteSeen
  <2>6. QED  BY <2>5 DEF ps
<1>12. QED  BY <1>3, <1>4, <1>6, <1>7, <1>8, <1>9, <1>10, <1>11 DEF MongoActions, MongoReads

(* Redis's commands.                                                       *)
LEMMA ParsedRedis ==
  ASSUME NEW st \in RedisStatements
  PROVE  LET ps == ParseStatement(st) IN
         FactsTyped(ps) /\ ps.ds = "redis" /\ ps.st = st /\ ps.cmds = {st.cmd} \cup RunsInner(st)
<1>1. st.ds = "redis"
  BY DEF RedisStatements
<1>2. ParseStatement(st) = ParseRedis(st)
  BY <1>1 DEF ParseStatement, SqlSources
<1> DEFINE cmds == {st.cmd} \cup RunsInner(st)
           classes == RedisClasses(st)
           marks == IF st.cmd = "config" /\ st.sub = "set" THEN {"config set"} ELSE {}
           query == st.cmd \in RedisLowRisk /\ classes \subseteq {"read"}
           keys == {st.key}
           r == [Parsed(st) EXCEPT !.cmds = cmds, !.classes = classes, !.marks = marks, !.query = query, !.keys = keys]
<1>3. ParseRedis(st) = r
  BY Zenon DEF ParseRedis
<1>4. query \in BOOLEAN
  OBVIOUS
<1> HIDE DEF cmds, classes, marks, query, keys
<1>5. /\ r.ds = st.ds /\ r.st = st /\ r.cmds = cmds /\ r.query = query
      /\ r.where = FALSE /\ r.multi = FALSE /\ r.failed = FALSE
  BY DEF Parsed
<1> HIDE DEF r
<1>6. FactsTyped(r)
  BY <1>1, <1>4, <1>5 DEF FactsTyped, Sources
<1>7. QED  BY <1>1, <1>2, <1>3, <1>5, <1>6 DEF cmds

LEMMA RedisWriteSeen ==
  ASSUME NEW st \in RedisStatements, MayWrite(st), NEW optIn \in BOOLEAN
  PROVE  WriteSeen(ParseStatement(st), optIn)
<1> DEFINE ps == ParseStatement(st)
<1>1. FactsTyped(ps) /\ ps.ds = "redis" /\ ps.cmds = {st.cmd} \cup RunsInner(st)
  BY ParsedRedis
<1>2. BuiltinRules(ps.ds, optIn) = BuiltinRedisRules
  BY <1>1 DEF BuiltinRules, SqlSources
<1>3. st.cmd \in {"set", "flushall", "debug", "evalsha", "fcall", "config", "eval"}
  <2>1. st.ds = "redis"
    BY DEF RedisStatements
  <2>2. QED  BY <2>1 DEF MayWrite, SqlSources
<1> HIDE DEF ps
<1>4. CASE st.cmd \in {"flushall", "debug"}
  <2> DEFINE c == Named({"flushall", "debug"})
             d == Marked({"config set"})
  <2>1. ConditionMatches(c, ps)
    <3>1. {"flushall", "debug"} \cap ps.cmds # {}
      BY <1>1, <1>4
    <3>2. QED  BY <1>1, <3>1, NamedMatches
  <2>2. BuiltinRule(100, "block", {c, d}) \in BuiltinRules(ps.ds, optIn)
    BY <1>2, Zenon DEF BuiltinRedisRules
  <2> HIDE DEF c, d
  <2>3. c \in {c, d} /\ 100 > 10
    OBVIOUS
  <2>4. WriteSeen(ps, optIn)
    BY <2>1, <2>2, <2>3, SeenBy
  <2>5. QED  BY <2>4 DEF ps
<1>5. CASE st.cmd \in {"set", "evalsha", "fcall", "config", "eval"}
  <2> DEFINE c == Named({"set"})
             k == Named({"keys"})
             e == Named({"eval", "evalsha", "eval_ro", "fcall"})
             g == Named({"config"})
  <2>1. ConditionMatches(c, ps) \/ ConditionMatches(e, ps) \/ ConditionMatches(g, ps)
    <3>1. {"set"} \cap ps.cmds # {} \/ {"eval", "evalsha", "eval_ro", "fcall"} \cap ps.cmds # {} \/ {"config"} \cap ps.cmds # {}
      BY <1>1, <1>5
    <3>2. QED  BY <1>1, <3>1, NamedMatches
  <2>2. BuiltinRule(50, "warn", {c, k, e, g}) \in BuiltinRules(ps.ds, optIn)
    BY <1>2, Zenon DEF BuiltinRedisRules
  <2> HIDE DEF c, k, e, g
  <2>3. c \in {c, k, e, g} /\ e \in {c, k, e, g} /\ g \in {c, k, e, g} /\ 50 > 10
    OBVIOUS
  <2>4. WriteSeen(ps, optIn)
    BY <2>1, <2>2, <2>3, SeenBy
  <2>5. QED  BY <2>4 DEF ps
<1>6. QED  BY <1>3, <1>4, <1>5

(* Elasticsearch's requests.                                               *)
LEMMA ParsedEs ==
  ASSUME NEW st \in EsStatements
  PROVE  LET ps == ParseStatement(st) IN
         /\ FactsTyped(ps) /\ ps.ds = "elasticsearch" /\ ps.st = st /\ ps.cmds = {st.method}
         /\ ps.method = st.method /\ ps.marks = {st.path}
<1>1. st.ds = "elasticsearch"
  BY DEF EsStatements
<1>2. ParseStatement(st) = ParseElasticsearch(st)
  BY <1>1 DEF ParseStatement, SqlSources
<1> DEFINE query == st.method \in {"GET", "HEAD"} \/ (st.method = "POST" /\ st.path = "_search")
           r == [Parsed(st) EXCEPT !.cmds = {st.method}, !.method = st.method, !.marks = {st.path},
                     !.query = query, !.entity = "a", !.entities = {"a"}]
<1>3. ParseElasticsearch(st) = r
  BY Zenon DEF ParseElasticsearch
<1>4. query \in BOOLEAN
  OBVIOUS
<1> HIDE DEF query
<1>5. /\ r.ds = st.ds /\ r.st = st /\ r.cmds = {st.method} /\ r.method = st.method /\ r.marks = {st.path} /\ r.query = query
      /\ r.where = FALSE /\ r.multi = FALSE /\ r.failed = FALSE
  BY DEF Parsed
<1> HIDE DEF r
<1>6. FactsTyped(r)
  BY <1>1, <1>4, <1>5 DEF FactsTyped, Sources
<1>7. QED  BY <1>1, <1>2, <1>3, <1>5, <1>6

LEMMA EsWriteSeen ==
  ASSUME NEW st \in EsStatements, MayWrite(st), NEW optIn \in BOOLEAN
  PROVE  WriteSeen(ParseStatement(st), optIn)
<1> DEFINE ps == ParseStatement(st)
<1>1. FactsTyped(ps) /\ ps.ds = "elasticsearch" /\ ps.method = st.method /\ ps.marks = {st.path}
  BY ParsedEs
<1>2. BuiltinRules(ps.ds, optIn) = BuiltinElasticsearchRules
  BY <1>1 DEF BuiltinRules, SqlSources
<1>3. /\ st.method \in {"POST", "PUT", "DELETE", "PATCH"}
      /\ st.method = "POST" => st.path \notin {"_search", "_count"}
  <2>1. st.ds = "elasticsearch" /\ st.method \in EsMethods
    BY DEF EsStatements
  <2>2. QED  BY <2>1 DEF MayWrite, SqlSources, EsMethods
<1> HIDE DEF ps
<1>4. CASE st.method = "DELETE"
  <2> DEFINE c == Request({"DELETE"}, {})
  <2>1. ConditionMatches(c, ps)
    <3>1. ps.method \in {"DELETE"} /\ {} \cap ps.marks = {}
      BY <1>1, <1>4
    <3>2. QED  BY <1>1, <3>1, RequestMatches
  <2>2. BuiltinRule(100, "block", {c}) \in BuiltinRules(ps.ds, optIn)
    BY <1>2, Zenon DEF BuiltinElasticsearchRules
  <2> HIDE DEF c
  <2>3. c \in {c} /\ 100 > 10
    OBVIOUS
  <2>4. WriteSeen(ps, optIn)
    BY <2>1, <2>2, <2>3, SeenBy
  <2>5. QED  BY <2>4 DEF ps
<1>5. CASE st.method # "DELETE"
  <2> DEFINE c == Request({"PUT", "PATCH"}, {})
             d == [Request({"POST"}, {}) EXCEPT !.unless = {"_search", "_count"}]
  <2>1. ConditionMatches(c, ps) \/ ConditionMatches(d, ps)
    <3>1. CASE st.method \in {"PUT", "PATCH"}
      <4>1. ps.method \in {"PUT", "PATCH"} /\ {} \cap ps.marks = {}
        BY <1>1, <3>1
      <4>2. QED  BY <1>1, <4>1, RequestMatches
    <3>2. CASE st.method = "POST"
      <4>1. ps.method \in {"POST"} /\ {"_search", "_count"} \cap ps.marks = {}
        BY <1>1, <1>3, <3>2
      <4>2. QED  BY <1>1, <4>1, RequestMatches
    <3>3. QED  BY <1>3, <1>5, <3>1, <3>2
  <2>2. BuiltinRule(50, "warn", {c, d}) \in BuiltinRules(ps.ds, optIn)
    BY <1>2, Zenon DEF BuiltinElasticsearchRules
  <2> HIDE DEF c, d
  <2>3. c \in {c, d} /\ d \in {c, d} /\ 50 > 10
    OBVIOUS
  <2>4. WriteSeen(ps, optIn)
    BY <2>1, <2>2, <2>3, SeenBy
  <2>5. QED  BY <2>4 DEF ps
<1>6. QED  BY <1>4, <1>5

(* DynamoDB's statements.                                                  *)
LEMMA DynamoShapes ==
  ASSUME NEW st \in DynamoStatements
  PROVE  /\ st.ds = "dynamodb" /\ st.top \in {"select", "insert", "update", "delete", "exists"} /\ st.where \in BOOLEAN
         /\ st.fields \subseteq {"p", "s", "i"} /\ st.index \in {"", "known", "unknown"}
  BY DEF DynamoStatements

LEMMA ParsedDynamo ==
  ASSUME NEW st \in DynamoStatements
  PROVE  LET ps == ParseStatement(st) IN
         /\ FactsTyped(ps) /\ ps.ds = "dynamodb" /\ ps.st = st /\ ps.cmds = {st.top} /\ ps.where = st.where
         /\ ps.query = (st.top = "select")
<1>1. st.ds = "dynamodb" /\ st.where \in BOOLEAN
  BY DynamoShapes
<1>2. ParseStatement(st) = ParseDynamo(st)
  BY <1>1 DEF ParseStatement, SqlSources
<1> DEFINE query == st.top = "select"
           entity == IF st.top = "exists" THEN "" ELSE "a"
           entities == IF st.top = "exists" THEN {} ELSE {"a"}
           r == [Parsed(st) EXCEPT !.cmds = {st.top}, !.where = st.where, !.query = query,
                     !.entity = entity, !.entities = entities]
<1>3. ParseDynamo(st) = r
  BY Zenon DEF ParseDynamo
<1>4. query \in BOOLEAN
  OBVIOUS
<1> HIDE DEF query, entity, entities
<1>5. /\ r.ds = st.ds /\ r.st = st /\ r.cmds = {st.top} /\ r.query = query
      /\ r.where = st.where /\ r.multi = FALSE /\ r.failed = FALSE
  BY DEF Parsed
<1> HIDE DEF r
<1>6. FactsTyped(r)
  BY <1>1, <1>4, <1>5 DEF FactsTyped, Sources
<1>7. QED  BY <1>1, <1>2, <1>3, <1>5, <1>6 DEF query

LEMMA DynamoAllowance ==
  ASSUME NEW optIn \in BOOLEAN, NEW b \in BuiltinDynamoRules(optIn), b.prio = 10
  PROVE  b.any = {Named({"select"})}
<1> DEFINE P(p) == p \in Nat /\ p # 10
<1>1. \A p, a, any : P(p) => b # BuiltinRule(p, a, any)
  BY BuiltinRuleIs
<1>2. \A p \in {90, 60, 50, 40} : P(p)
  OBVIOUS
<1> HIDE DEF P
<1>3. b = BuiltinRule(10, "allow", {Named({"select"})})
  BY <1>1, <1>2 DEF BuiltinDynamoRules
<1>4. QED  BY <1>3, BuiltinRuleIs

LEMMA DynamoWriteSeen ==
  ASSUME NEW st \in DynamoStatements, MayWrite(st), NEW optIn \in BOOLEAN
  PROVE  WriteSeen(ParseStatement(st), optIn)
<1> DEFINE ps == ParseStatement(st)
<1>1. FactsTyped(ps) /\ ps.ds = "dynamodb" /\ ps.cmds = {st.top} /\ ps.query = (st.top = "select")
  BY ParsedDynamo
<1>2. BuiltinRules(ps.ds, optIn) = BuiltinDynamoRules(optIn)
  BY <1>1 DEF BuiltinRules, SqlSources
<1>3. st.top \in {"insert", "update", "delete", "exists"}
  BY DynamoShapes DEF MayWrite, SqlSources
<1> HIDE DEF ps
<1>4. CASE st.top = "insert"
  <2> DEFINE c == Named({"insert"})
  <2>1. ConditionMatches(c, ps)
    <3>1. {"insert"} \cap ps.cmds # {}
      BY <1>1, <1>4
    <3>2. QED  BY <1>1, <3>1, NamedMatches
  <2>2. BuiltinRule(40, "warn", {c}) \in BuiltinRules(ps.ds, optIn)
    BY <1>2, Zenon DEF BuiltinDynamoRules
  <2> HIDE DEF c
  <2>3. c \in {c} /\ 40 > 10
    OBVIOUS
  <2>4. WriteSeen(ps, optIn)
    BY <2>1, <2>2, <2>3, SeenBy
  <2>5. QED  BY <2>4 DEF ps
<1>5. CASE st.top \in {"delete", "update"}
  <2> DEFINE c(w) == [Named({"delete", "update"}) EXCEPT !.where = {w}]
  <2>1. \A w : ConditionMatches(c(w), ps) <=> ps.where \in {w}
    <3>1. {"delete", "update"} \cap ps.cmds # {} /\ {"delete", "update"} # {}
      BY <1>1, <1>5
    <3>2. QED  BY <1>1, <3>1, NamedWhereMatches
  <2>2. BuiltinRule(90, "block", {c(FALSE)}) \in BuiltinRules(ps.ds, optIn)
    BY <1>2, Zenon DEF BuiltinDynamoRules
  <2>3. BuiltinRule(50, "warn", {c(TRUE)}) \in BuiltinRules(ps.ds, optIn)
    BY <1>2, Zenon DEF BuiltinDynamoRules
  <2> HIDE DEF c
  <2>4. c(FALSE) \in {c(FALSE)} /\ c(TRUE) \in {c(TRUE)} /\ 90 > 10 /\ 50 > 10
    OBVIOUS
  <2>5. CASE ps.where = FALSE
    <3>1. WriteSeen(ps, optIn)
      BY <2>1, <2>2, <2>4, <2>5, SeenBy
    <3>2. QED  BY <3>1 DEF ps
  <2>6. CASE ps.where = TRUE
    <3>1. WriteSeen(ps, optIn)
      BY <2>1, <2>3, <2>4, <2>6, SeenBy
    <3>2. QED  BY <3>1 DEF ps
  <2>7. QED  BY <1>1, <2>5, <2>6 DEF FactsTyped
<1>6. CASE st.top = "exists"
  <2>1. ~ps.query
    BY <1>1, <1>6
  <2> DEFINE reads == {"select"}
             c == Named(reads)
  <2>2. ~ConditionMatches(c, ps)
    <3>1. reads \cap ps.cmds = {} /\ reads # {}
      BY <1>1, <1>6
    <3>2. QED  BY <1>1, <3>1, NamedMatches
  <2>3. \A b \in BuiltinRules(ps.ds, optIn) : b.prio = 10 => b.any = {c}
    BY <1>2, DynamoAllowance
  <2> HIDE DEF c
  <2>4. \A b \in BuiltinRules(ps.ds, optIn) : b.prio = 10 => ~Matches(b, ps)
    BY <2>2, <2>3 DEF Matches
  <2>5. WriteSeen(ps, optIn)
    BY <2>1, <2>4 DEF WriteSeen
  <2>6. QED  BY <2>5 DEF ps
<1>7. QED  BY <1>3, <1>4, <1>5, <1>6

(* All of them.                                                            *)
LEMMA StatementTyped ==
  ASSUME NEW st \in Statements
  PROVE  FactsTyped(ParseStatement(st)) /\ ParseStatement(st).ds = st.ds
<1>1. CASE st \in SqlStatements
  BY <1>1, SqlTyped
<1>2. CASE st \in MongoStatements
  <2>1. st.ds = "mongodb"
    BY <1>2 DEF MongoStatements
  <2>2. QED  BY <1>2, <2>1, ParsedMongo
<1>3. CASE st \in RedisStatements
  <2>1. st.ds = "redis"
    BY <1>3 DEF RedisStatements
  <2>2. QED  BY <1>3, <2>1, ParsedRedis
<1>4. CASE st \in EsStatements
  <2>1. st.ds = "elasticsearch"
    BY <1>4 DEF EsStatements
  <2>2. QED  BY <1>4, <2>1, ParsedEs
<1>5. CASE st \in DynamoStatements
  BY <1>5, DynamoShapes, ParsedDynamo
<1>6. QED  BY <1>1, <1>2, <1>3, <1>4, <1>5 DEF Statements

(* What a write that the rules allow was allowed by.                       *)
LEMMA WritesNotAllowed ==
  ASSUME NEW st \in Statements, MayWrite(st), NEW rules, RulesTyped(rules),
         AssessParsed(rules, ParseStatement(st)).by # "user", AssessParsed(rules, ParseStatement(st)).action = "allow"
  PROVE  rules.optIn /\ ParseStatement(st).cmds \cap Inserts # {}
<1> DEFINE ps == ParseStatement(st)
<1>1. rules.optIn \in BOOLEAN
  BY DEF RulesTyped
<1>2. WriteSeen(ps, rules.optIn)
  BY <1>1, SqlWriteSeen, MongoWriteSeen, RedisWriteSeen, EsWriteSeen, DynamoWriteSeen DEF Statements
<1>3. FactsTyped(ps) /\ ps.ds \in Sources
  BY StatementTyped DEF FactsTyped
<1> HIDE DEF ps
<1>4. AssessParsed(rules, ps).by # "user" /\ AssessParsed(rules, ps).action = "allow"
  BY DEF ps
<1>5. MatchingRules(rules, ps) # {}
  <2> SUFFICES ASSUME MatchingRules(rules, ps) = {} PROVE FALSE
    OBVIOUS
  <2>1. ps.query
    BY <1>4 DEF AssessParsed
  <2>2. PICK b \in BuiltinRules(ps.ds, rules.optIn) : Matches(b, ps)
    BY <1>2, <2>1 DEF WriteSeen
  <2>3. Shipped1(b, rules.optIn)
    BY <1>1, <1>3, BuiltinRulesAre
  <2>4. b \in MatchingRules(rules, ps)
    BY <2>2, <2>3 DEF MatchingRules, Matches, ScopeMatches, Shipped1
  <2>5. QED  BY <2>4
<1>6. PICK r : First(r, MatchingRules(rules, ps)) /\ AssessParsed(rules, ps) = [action |-> r.action, by |-> r.by]
  BY <1>3, <1>5, Verdict
<1>7. r \in MatchingRules(rules, ps) /\ r.by # "user" /\ r.action = "allow"
  BY <1>4, <1>6 DEF First
<1>8. Shipped1(r, rules.optIn)
  BY <1>3, <1>7, MatchingAre DEF UserRule
<1>9. r \in BuiltinRules(ps.ds, rules.optIn) /\ Matches(r, ps)
  <2>1. r # rules.user \/ rules.user = NoUserRule \/ r \notin UserRules
    BY <1>8, StatementRiskAssumption DEF Shipped1
  <2>2. r \in BuiltinRules(ps.ds, rules.optIn)
    BY <1>7, <2>1 DEF MatchingRules, RulesTyped
  <2>3. QED  BY <1>7, <2>2 DEF MatchingRules, Matches
<1>10. CASE r.prio = 10
  <2>1. PICK b \in BuiltinRules(ps.ds, rules.optIn) : b.prio > 10 /\ Matches(b, ps)
    BY <1>2, <1>9, <1>10 DEF WriteSeen
  <2>2. PICK w \in BuiltinRules(ps.ds, rules.optIn) :
           Shipped1(w, rules.optIn) /\ Matches(w, ps) /\ w.prio >= b.prio /\ AssessParsed(rules, ps).action = w.action
    BY <1>3, <1>4, <2>1, VerdictShipped
  <2>3. w.action = "allow" /\ w.prio # 10
    <3>1. b.prio \in Int
      BY <1>1, <1>3, BuiltinRulesAre DEF Shipped1
    <3>2. w.prio \in Int /\ w.prio >= b.prio /\ b.prio > 10
      BY <2>1, <2>2 DEF Shipped1
    <3>3. QED  BY <1>4, <2>2, <3>1, <3>2
  <2>4. rules.optIn /\ \A c \in w.any : c.cmds # {} /\ c.cmds \subseteq Inserts
    BY <2>2, <2>3 DEF Shipped1
  <2>5. PICK c \in w.any : ConditionMatches(c, ps)
    BY <2>2 DEF Matches
  <2>6. ps.cmds \cap Inserts # {}
    BY <2>4, <2>5 DEF ConditionMatches
  <2>7. QED  BY <2>4, <2>6 DEF ps
<1>11. CASE r.prio # 10
  <2>1. rules.optIn /\ \A c \in r.any : c.cmds # {} /\ c.cmds \subseteq Inserts
    BY <1>7, <1>8, <1>11 DEF Shipped1
  <2>2. PICK c \in r.any : ConditionMatches(c, ps)
    BY <1>9 DEF Matches
  <2>3. ps.cmds \cap Inserts # {}
    BY <2>1, <2>2 DEF ConditionMatches
  <2>4. QED  BY <2>1, <2>3 DEF ps
<1>12. QED  BY <1>10, <1>11

(* One that deletes or updates every row.                                  *)
LEMMA SqlBlocks ==
  ASSUME NEW optIn \in BOOLEAN, NEW b \in BuiltinSqlRules(optIn), b.prio >= 90
  PROVE  b.action = "block" \/ b.any = {Named({"call", "exec", "execute", "do"})}
<1> DEFINE P(p) == p \in Nat /\ p < 90
<1>1. \A p, a, any : P(p) => b # BuiltinRule(p, a, any)
  BY BuiltinRuleIs
<1>2. \A p \in {80, 60, 50, 40, 10} : P(p)
  OBVIOUS
<1> HIDE DEF P
<1>3. \/ \E p, any : b = BuiltinRule(p, "block", any)
      \/ b = BuiltinRule(115, "require_approval", {Named({"call", "exec", "execute", "do"})})
  BY <1>1, <1>2 DEF BuiltinSqlRules
<1>4. QED  BY <1>3, BuiltinRuleIs

(* The verb and the clause of a statement that only deletes, or updates.   *)
LEMMA OnlyChange ==
  ASSUME NEW st \in SqlStatements, st.parses, ~st.where, NEW verb \in {"delete", "update"},
         Changes(st) = {Change(verb, FALSE)}
  PROVE  LET facts == SqlRiskFacts(st) IN facts.verb = verb /\ facts.where = FALSE
<1> DEFINE facts == SqlRiskFacts(st)
<1>1. /\ st.top \in SqlVerbs /\ st.where = FALSE
      /\ st.ctes = <<>> \/ (st.top \in {"select", "insert", "update", "delete"} /\ \E c \in Ctes : st.ctes = <<c>>)
  BY SqlShapes
<1>2. \A v, w : Change(v, w).verb = v /\ Change(v, w).where = w
  BY DEF Change
<1>3. \A c \in Changes(st) : c.verb = verb /\ c.where = FALSE
  <2> DEFINE k == Change(verb, FALSE)
  <2>1. k.verb = verb /\ k.where = FALSE
    BY <1>2
  <2>2. Changes(st) = {k}
    BY DEF k
  <2> HIDE DEF k
  <2>3. QED  BY <2>1, <2>2
<1>4. Changes(st) # {}
  OBVIOUS
<1>5. st.top \in {"insert", "update", "delete"} => st.top = verb
  <2> SUFFICES ASSUME st.top \in {"insert", "update", "delete"} PROVE st.top = verb
    OBVIOUS
  <2>1. Change(st.top, st.where) \in Changes(st)
    BY DEF Changes
  <2>2. QED  BY <1>2, <1>3, <2>1
<1>6. ASSUME st.top \notin {"insert", "update", "delete"}
      PROVE  st.top = "select" /\ \E c \in Ctes : st.ctes = <<c>> /\ c.verb = verb /\ c.where = FALSE
  <2>1. PICK i \in DOMAIN st.ctes : st.ctes[i].verb # "select" /\ Change(st.ctes[i].verb, st.ctes[i].where) \in Changes(st)
    BY <1>4, <1>6 DEF Changes
  <2>2. st.ctes # <<>>
    BY <2>1, NoCte
  <2>3. PICK c \in Ctes : st.ctes = <<c>> /\ st.top = "select"
    BY <1>1, <1>6, <2>2
  <2>4. st.ctes[i] = c
    BY <2>1, <2>3, OneCte
  <2>5. c.verb = verb /\ c.where = FALSE
    <3> DEFINE k == Change(c.verb, c.where)
    <3>1. k \in Changes(st)
      BY <2>1, <2>4
    <3>2. k.verb = c.verb /\ k.where = c.where
      BY <1>2
    <3> HIDE DEF k
    <3>3. k.verb = verb /\ k.where = FALSE
      BY <1>3, <3>1
    <3>4. QED  BY <3>2, <3>3
  <2>6. QED  BY <2>3, <2>5
<1>7. SqlParses(st)
  BY <1>5, <1>6 DEF SqlParses, SqlParsed, SqlAnalyzed
<1>8. facts.where = (SqlHasWhereFromAnalysis(st, SqlVerbFromAnalysis(st)) \/ st.where)
  BY <1>7 DEF SqlRiskFacts, MergeFallback, SqlRiskFactsFromAnalysis, FallbackSqlRiskFacts
<1> HIDE DEF facts
<1>9. CASE st.top \in {"insert", "update", "delete"}
  <2>1. st.top = verb
    BY <1>5, <1>9
  <2>2. facts.verb = verb
    BY <1>7, <2>1, SqlVerbIs DEF facts
  <2>3. SqlVerbFromAnalysis(st) = verb
    BY <2>1 DEF SqlVerbFromAnalysis
  <2>4. SqlHasWhereFromAnalysis(st, verb) = st.where
    BY <2>1 DEF SqlHasWhereFromAnalysis
  <2>5. QED  BY <1>1, <1>8, <2>2, <2>3, <2>4 DEF facts
<1>10. CASE st.top \notin {"insert", "update", "delete"}
  <2>1. st.top = "select"
    BY <1>6, <1>10
  <2>2. PICK c \in Ctes : st.ctes = <<c>> /\ c.verb = verb /\ c.where = FALSE
    BY <1>6, <1>10
  <2>3. facts.verb = verb
    BY <1>7, <2>1, <2>2, SqlVerbIs DEF facts
  <2>4. st.ctes[1] = c /\ \A v : CteWrites(st, v) = IF verb = v THEN {1} ELSE {}
    BY <2>2, OneCte
  <2>5. SqlVerbFromAnalysis(st) = verb
    BY <2>1, <2>4 DEF SqlVerbFromAnalysis
  <2>6. SqlHasWhereFromAnalysis(st, verb) = FALSE
    <3>1. CteWrites(st, verb) = {1} /\ st.ctes[1].where = FALSE /\ st.top # verb
      BY <2>1, <2>2, <2>4
    <3>2. QED  BY <3>1 DEF SqlHasWhereFromAnalysis
  <2>7. QED  BY <1>1, <1>8, <2>3, <2>5, <2>6 DEF facts
<1>11. QED  BY <1>9, <1>10

LEMMA EveryRow ==
  ASSUME NEW st \in SqlStatements, st.parses, ~st.where, NEW verb \in {"delete", "update"},
         Changes(st) = {Change(verb, FALSE)}, NEW rules, RulesTyped(rules), AssessParsed(rules, ParseStatement(st)).by # "user"
  PROVE  AssessParsed(rules, ParseStatement(st)).action = "block"
<1> DEFINE ps == ParseStatement(st)
<1>1. st.ds \in SqlSources /\ st.count \in {1, 2}
  BY SqlShapes
<1>2. ps.ds = st.ds /\ ps.cmds = {verb} /\ ps.where = FALSE
  <2> DEFINE facts == SqlRiskFacts(st)
  <2>1. facts.verb = verb /\ facts.where = FALSE
    BY OnlyChange, Zenon
  <2>2. ps.ds = st.ds /\ ps.cmds = {facts.verb} /\ ps.where = facts.where
    BY <1>1, ParsedSql
  <2> HIDE DEF facts, ps
  <2>3. QED  BY <2>1, <2>2
<1>3. FactsTyped(ps) /\ rules.optIn \in BOOLEAN
  BY SqlTyped DEF RulesTyped
<1>4. BuiltinRules(ps.ds, rules.optIn) = BuiltinSqlRules(rules.optIn) /\ ps.ds \in Sources
  BY <1>1, <1>2 DEF BuiltinRules, SqlSources, Sources
<1>5. AssessParsed(rules, ps).by # "user"
  OBVIOUS
<1> HIDE DEF ps
<1> DEFINE c == [Named({"delete", "update"}) EXCEPT !.where = {FALSE}]
           b == BuiltinRule(90, "block", {c})
<1>6. b \in BuiltinRules(ps.ds, rules.optIn)
  BY <1>4, Zenon DEF BuiltinSqlRules
<1>7. ConditionMatches(c, ps)
  <2>1. {"delete", "update"} \cap ps.cmds # {} /\ {"delete", "update"} # {} /\ ps.where \in {FALSE}
    BY <1>2
  <2>2. QED  BY <1>3, <2>1, NamedWhereMatches
<1> HIDE DEF c
<1>8. Matches(b, ps) /\ b.prio = 90
  <2>1. c \in {c}
    OBVIOUS
  <2>2. QED  BY <1>7, <2>1, RuleMatches
<1> HIDE DEF b
<1>9. PICK w \in BuiltinRules(ps.ds, rules.optIn) :
         Shipped1(w, rules.optIn) /\ Matches(w, ps) /\ w.prio >= b.prio /\ AssessParsed(rules, ps).action = w.action
  BY <1>4, <1>5, <1>6, <1>8, VerdictShipped
<1>10. w.action = "block" \/ w.any = {Named({"call", "exec", "execute", "do"})}
  BY <1>3, <1>4, <1>8, <1>9, SqlBlocks
<1>11. ~ConditionMatches(Named({"call", "exec", "execute", "do"}), ps)
  <2>1. {"call", "exec", "execute", "do"} \cap ps.cmds = {} /\ {"call", "exec", "execute", "do"} # {}
    BY <1>2
  <2>2. QED  BY <1>3, <2>1, NamedMatches
<1>12. w.action = "block"
  <2> DEFINE d == Named({"call", "exec", "execute", "do"})
  <2> HIDE DEF d
  <2>1. w.any # {d}
    BY <1>9, <1>11 DEF Matches, d
  <2>2. QED  BY <1>10, <2>1 DEF d
<1>13. QED  BY <1>9, <1>12 DEF ps


(* What the rules say of the table below a view, they say of the view.     *)
AlikeButFor(p, q) ==
    /\ p.ds = q.ds /\ p.cmds = q.cmds /\ p.classes = q.classes /\ p.method = q.method /\ p.marks = q.marks
    /\ p.where = q.where /\ p.multi = q.multi /\ p.failed = q.failed /\ p.query = q.query /\ p.keys = q.keys

LEMMA SqlDomain ==
  ASSUME NEW st, st.ds \in SqlSources
  PROVE  DOMAIN ParseStatement(st) = {"ds", "st", "cmds", "classes", "method", "marks", "where", "multi", "failed",
                                      "query", "entity", "entities", "keys"}
<1>1. ParseStatement(st) = ParseSql(st)
  BY DEF ParseStatement, SqlSources
<1>2. DOMAIN ParseSql(st) = DOMAIN Parsed(st)
  BY DEF ParseSql
<1>3. DOMAIN Parsed(st) = {"ds", "st", "cmds", "classes", "method", "marks", "where", "multi", "failed",
                           "query", "entity", "entities", "keys"}
  BY DEF Parsed
<1>4. QED  BY <1>1, <1>2, <1>3

LEMMA AlikeOnEntities ==
  ASSUME NEW st, st.ds \in SqlSources, NEW E
  PROVE  LET ps == ParseStatement(st)
             p == [ps EXCEPT !.entities = E] IN
         AlikeButFor(p, ps) /\ p.entities = E
<1> DEFINE ps == ParseStatement(st)
<1>1. DOMAIN ps = {"ds", "st", "cmds", "classes", "method", "marks", "where", "multi", "failed",
                   "query", "entity", "entities", "keys"}
  BY SqlDomain
<1> HIDE DEF ps
<1> DEFINE p == [ps EXCEPT !.entities = E]
<1>2. AlikeButFor(p, ps) /\ p.entities = E
  BY <1>1 DEF AlikeButFor
<1>3. QED  BY <1>2 DEF ps

LEMMA SameMatches ==
  ASSUME NEW p, NEW q, AlikeButFor(p, q), NEW rules, RulesTyped(rules),
         "b" \in p.entities, q.entities = {"b"}, rules.user \in MatchingRules(rules, q), rules.user \in UserRules,
         q.ds \in Sources
  PROVE  AssessParsed(rules, p) = AssessParsed(rules, q)
<1> USE DEF AlikeButFor
<1>1. \A c : ConditionMatches(c, p) <=> ConditionMatches(c, q)
  BY DEF ConditionMatches
<1>2. ASSUME NEW r \in BuiltinRules(q.ds, rules.optIn) PROVE ScopeMatches(r, p) /\ ScopeMatches(r, q)
  <2>1. r.scope = "type"
    BY BuiltinRulesAre DEF Shipped1, RulesTyped
  <2>2. QED  BY <2>1 DEF ScopeMatches
<1>3. ScopeMatches(rules.user, p) /\ ScopeMatches(rules.user, q)
  <2>1. rules.user.scope \in {"type", "entity", "key"} /\ ScopeMatches(rules.user, q)
    BY StatementRiskAssumption DEF MatchingRules
  <2>2. QED  BY <2>1 DEF ScopeMatches
<1>4. MatchingRules(rules, p) = MatchingRules(rules, q)
  BY <1>1, <1>2, <1>3 DEF MatchingRules
<1>5. p.query = q.query /\ p.ds = q.ds
  OBVIOUS
<1>6. QED  BY <1>4, <1>5 DEF AssessParsed

-----------------------------------------------------------------------------
(* Reading a plan.                                                         *)
LEMMA MostRows ==
  ASSUME NEW S \in SUBSET Rows, S # {}
  PROVE  Max(S) \in S /\ \A x \in S : x <= Max(S)
<1>1. \E x \in S : \A y \in S : x >= y
  <2>1. \A x \in S : x \in {0, 1, 2, 3}
    BY DEF Rows
  <2>2. CASE 3 \in S
    BY <2>1, <2>2
  <2>3. CASE 3 \notin S /\ 2 \in S
    BY <2>1, <2>3
  <2>4. CASE 3 \notin S /\ 2 \notin S /\ 1 \in S
    BY <2>1, <2>4
  <2>5. CASE 3 \notin S /\ 2 \notin S /\ 1 \notin S
    BY <2>1, <2>5
  <2>6. QED  BY <2>2, <2>3, <2>4, <2>5
<1>2. Max(S) \in S /\ \A y \in S : Max(S) >= y
  BY <1>1 DEF Max
<1>3. \A y \in S : y \in Int
  BY DEF Rows
<1>4. QED  BY <1>2, <1>3

(* At least one place is counted; one alone, if no more are.               *)
LEMMA CountedOne ==
  ASSUME NEW n \in Nat, NEW T \in SUBSET (1 .. n), NEW i \in T
  PROVE  Cardinality(T) \in Nat /\ Cardinality(T) > 0 /\ (Cardinality(T) <= 1 => T = {i})
<1>1. IsFiniteSet(T)
  <2>1. IsFiniteSet(1 .. n)
    BY FS_Interval
  <2>2. QED  BY <2>1, FS_Subset
<1>2. Cardinality(T) \in Nat /\ Cardinality(T) # 0
  BY <1>1, FS_CardinalityType, FS_EmptySet
<1>3. Cardinality(T) = 1 => T = {i}
  <2> SUFFICES ASSUME Cardinality(T) = 1 PROVE T = {i}
    OBVIOUS
  <2>1. IsFiniteSet({i}) /\ Cardinality({i}) = 1 /\ {i} \subseteq T
    BY FS_Singleton
  <2>2. QED  BY <1>1, <2>1, FS_Subset
<1>4. QED  BY <1>2, <1>3

LEMMA PolicyBounds ==
  ASSUME NEW policy \in ProbePolicies
  PROVE  /\ policy.maxExamined \in 1 .. 2 /\ policy.maxFull \in 1 .. 2 /\ policy.seqRows \in 1 .. 2
         /\ policy.safeScan \in BOOLEAN
  BY DEF ProbePolicies

LEMMA MysqlPlan ==
  ASSUME NEW plan \in Plans("mysql")
  PROVE  Len(plan) \in Nat /\ DOMAIN plan = 1 .. Len(plan) /\ \A i \in DOMAIN plan : plan[i] \in MysqlRows
<1>1. (\E r \in MysqlRows : plan = <<r>>) \/ (\E r, q \in MysqlRows : plan = <<r, q>>)
  BY DEF Plans
<1>2. QED  BY <1>1

LEMMA PgPlan ==
  ASSUME NEW plan \in Plans("postgresql")
  PROVE  Len(plan) \in Nat /\ DOMAIN plan = 1 .. Len(plan) /\ \A i \in DOMAIN plan : plan[i] \in PgPlanNodes
<1>1. (\E r \in PgPlanNodes : plan = <<r>>) \/ (\E r, q \in PgPlanNodes : plan = <<r, q>>)
  BY DEF Plans
<1>2. QED  BY <1>1

(* A large scan is a reason to warn.                                       *)
LEMMA MysqlScanWarned ==
  ASSUME NEW plan \in Plans("mysql"), NEW policy \in ProbePolicies, LargeScan("mysql", plan, policy.maxFull)
  PROVE  LET result == MysqlExplain(plan)
             safe == policy.safeScan /\ SeqScanIsSafe(result, policy) IN
         \/ ~result.index /\ ~safe
         \/ safe /\ result.examined > policy.seqRows
         \/ HowMany(plan, MysqlFull) > policy.maxFull
<1> DEFINE full == {i \in DOMAIN plan : MysqlFull(plan[i])}
           rows == {plan[i].rows : i \in {j \in DOMAIN plan : MysqlFull(plan[j])}}
           all == {plan[i].rows : i \in {j \in DOMAIN plan : TRUE}}
           result == MysqlExplain(plan)
<1>1. Len(plan) \in Nat /\ DOMAIN plan = 1 .. Len(plan) /\ \A i \in DOMAIN plan : plan[i].rows \in Rows
  BY MysqlPlan DEF MysqlRows
<1>2. PICK i \in DOMAIN plan : plan[i].type = "ALL" /\ (plan[i].rows = 3 \/ (plan[i].rows = 0 /\ policy.maxFull = 1))
  BY DEF LargeScan
<1>3. i \in full /\ full \in SUBSET (1 .. Len(plan))
  BY <1>1, <1>2 DEF MysqlFull
<1>4. /\ result.index = (plan # <<>> /\ HowMany(plan, MysqlFull) = 0)
      /\ result.examined = Max(RowsOf(plan, LAMBDA r : TRUE)) /\ result.seq = Max(RowsOf(plan, MysqlFull))
  BY DEF MysqlExplain
<1>5. HowMany(plan, MysqlFull) = Cardinality(full)
  BY DEF HowMany
<1>6. RowsOf(plan, MysqlFull) = {0} \cup rows /\ RowsOf(plan, LAMBDA r : TRUE) = {0} \cup all
  BY DEF RowsOf
<1>7. /\ {0} \cup rows \in SUBSET Rows /\ {0} \cup rows # {}
      /\ {0} \cup all \in SUBSET Rows /\ {0} \cup all # {}
  BY <1>1 DEF Rows
<1>8. plan[i].rows \in all
  OBVIOUS
<1>9. \A x \in rows : \E j \in full : x = plan[j].rows
  OBVIOUS
<1> HIDE DEF full, rows, all, result
<1>10. Cardinality(full) \in Nat /\ Cardinality(full) > 0 /\ (Cardinality(full) <= 1 => full = {i})
  BY <1>1, <1>3, CountedOne
<1>11. ~result.index
  <2>1. HowMany(plan, MysqlFull) # 0
    BY <1>5, <1>10
  <2>2. QED  BY <1>4, <2>1, Zenon
<1>12. plan[i].rows <= result.examined /\ result.examined \in Rows
  BY <1>4, <1>6, <1>7, <1>8, MostRows
<1>13. result.seq \in {0} \cup rows
  BY <1>4, <1>6, <1>7, MostRows
<1>14. CASE plan[i].rows = 3
  <2>1. result.examined > policy.seqRows
    BY <1>12, <1>14, PolicyBounds DEF Rows
  <2>2. QED  BY <1>11, <2>1 DEF result
<1>15. CASE plan[i].rows = 0 /\ policy.maxFull = 1 /\ ~(Cardinality(full) > policy.maxFull)
  <2>1. full = {i}
    BY <1>10, <1>15
  <2>2. result.seq = 0
    BY <1>9, <1>13, <1>15, <2>1
  <2>3. ~SeqScanIsSafe(result, policy)
    BY <2>2 DEF SeqScanIsSafe
  <2>4. QED  BY <1>11, <2>3 DEF result
<1>16. QED  BY <1>2, <1>5, <1>14, <1>15

LEMMA PgScanWarned ==
  ASSUME NEW plan \in Plans("postgresql"), NEW policy \in ProbePolicies, LargeScan("postgresql", plan, policy.maxFull)
  PROVE  LET result == PostgresExplain(plan) IN ~result.index /\ ~SeqScanIsSafe(result, policy)
<1> DEFINE full == {i \in DOMAIN plan : PgSeq(plan[i])}
           rows == {plan[i].rows : i \in {j \in DOMAIN plan : PgSeq(plan[j])}}
           result == PostgresExplain(plan)
<1>1. Len(plan) \in Nat /\ DOMAIN plan = 1 .. Len(plan) /\ \A i \in DOMAIN plan : plan[i].rows \in Rows
  BY PgPlan DEF PgPlanNodes
<1>2. PICK i \in DOMAIN plan : plan[i].node = "seq scan" /\ plan[i].rows = 3
  BY DEF LargeScan
<1>3. i \in full /\ full \in SUBSET (1 .. Len(plan)) /\ plan[i].rows \in rows
  BY <1>1, <1>2 DEF PgSeq
<1>4. (result.index => HowMany(plan, PgSeq) = 0) /\ result.seq = Max(RowsOf(plan, PgSeq))
  BY DEF PostgresExplain
<1>5. HowMany(plan, PgSeq) = Cardinality(full)
  BY DEF HowMany
<1>6. RowsOf(plan, PgSeq) = {0} \cup rows
  BY DEF RowsOf
<1>7. {0} \cup rows \in SUBSET Rows /\ {0} \cup rows # {}
  BY <1>1 DEF Rows
<1> HIDE DEF full, rows, result
<1>8. ~result.index
  <2>1. Cardinality(full) \in Nat /\ Cardinality(full) > 0
    BY <1>1, <1>3, CountedOne
  <2>2. HowMany(plan, PgSeq) # 0
    BY <1>5, <2>1
  <2>3. QED  BY <1>4, <2>2, Zenon
<1>9. plan[i].rows <= result.seq /\ result.seq \in Rows
  BY <1>3, <1>4, <1>6, <1>7, MostRows
<1>10. ~(result.seq <= policy.seqRows)
  <2>1. result.seq \in Int
    BY <1>9 DEF Rows
  <2>2. 3 <= result.seq
    BY <1>2, <1>9
  <2>3. policy.seqRows \in 1 .. 2
    BY PolicyBounds
  <2>4. QED  BY <2>1, <2>2, <2>3
<1>11. QED  BY <1>8, <1>10 DEF SeqScanIsSafe, result

LEMMA MongoScanWarned ==
  ASSUME NEW plan \in Plans("mongodb"), NEW policy \in ProbePolicies, LargeScan("mongodb", plan, policy.maxFull)
  PROVE  LET result == MongoExplain(plan) IN
         ~SeqScanIsSafe(result, policy) /\ result.examined > policy.maxExamined
<1>1. plan.keys \in Rows /\ plan.docs = 3
  BY DEF LargeScan, Plans, MongoPlans
<1> DEFINE both == {plan.keys, plan.docs}
           result == MongoExplain(plan)
<1>2. both \in SUBSET Rows /\ both # {} /\ 3 \in both
  BY <1>1 DEF Rows
<1>3. result.examined = Max(both) /\ result.seq = 0
  BY DEF MongoExplain
<1> HIDE DEF both, result
<1>4. 3 <= result.examined /\ result.examined \in Rows
  BY <1>2, <1>3, MostRows
<1>5. result.examined > policy.maxExamined
  BY <1>4, PolicyBounds DEF Rows
<1>6. QED  BY <1>3, <1>5 DEF SeqScanIsSafe, result

LEMMA D1ScanWarned ==
  ASSUME NEW plan, NEW policy \in ProbePolicies, LargeScan("d1", plan, policy.maxFull), \A i \in DOMAIN plan : plan[i].index \in BOOLEAN
  PROVE  LET result == D1Explain(plan) IN ~result.index /\ ~SeqScanIsSafe(result, policy)
<1> DEFINE result == D1Explain(plan)
           T == {i \in DOMAIN plan : plan[i].index}
<1>1. T = {}
  BY DEF LargeScan
<1>2. HowMany(plan, LAMBDA l : l.index) = Cardinality(T)
  BY DEF HowMany
<1>3. result.index = (HowMany(plan, LAMBDA l : l.index) > 0) /\ result.seq = 0
  BY DEF D1Explain
<1> HIDE DEF T, result
<1>4. Cardinality(T) = 0
  BY <1>1, FS_EmptySet
<1>5. ~result.index
  <2>1. ~(HowMany(plan, LAMBDA l : l.index) > 0)
    BY <1>2, <1>4
  <2>2. QED  BY <1>3, <2>1, Zenon
<1>6. QED  BY <1>3, <1>5 DEF SeqScanIsSafe, result

LEMMA ScanIsReason ==
  ASSUME NEW ps, ps.ds \in SqlSources \cup {"mongodb"}, NEW probe, NEW policy \in ProbePolicies,
         srWorld.plan \in Plans(ps.ds), LargeScan(ps.ds, srWorld.plan, policy.maxFull)
  PROVE  PlanReasons(ps, probe, policy)
<1> DEFINE plan == srWorld.plan
           result == ExplainResult(ps.ds, plan)
           safe == policy.safeScan /\ SeqScanIsSafe(result, policy)
<1>1. \/ ~result.index /\ ~safe
      \/ result.examined > (IF safe THEN policy.seqRows ELSE policy.maxExamined)
      \/ Risky(ps.ds, plan, policy)
  <2>1. CASE ps.ds = "mysql"
    <3>1. result = MysqlExplain(plan)
      BY <2>1 DEF ExplainResult
    <3>2. plan \in Plans("mysql") /\ LargeScan("mysql", plan, policy.maxFull)
      BY <2>1
    <3>3. \/ ~result.index /\ ~safe
          \/ safe /\ result.examined > policy.seqRows
          \/ HowMany(plan, MysqlFull) > policy.maxFull
      BY <3>1, <3>2, MysqlScanWarned
    <3>4. HowMany(plan, MysqlFull) > policy.maxFull => Risky(ps.ds, plan, policy)
      BY <2>1 DEF Risky, MysqlRisky
    <3> HIDE DEF result, plan
    <3>5. QED  BY <3>3, <3>4
  <2>2. CASE ps.ds = "postgresql"
    <3>1. result = PostgresExplain(plan)
      BY <2>2 DEF ExplainResult
    <3>2. plan \in Plans("postgresql") /\ LargeScan("postgresql", plan, policy.maxFull)
      BY <2>2
    <3>3. ~result.index /\ ~SeqScanIsSafe(result, policy)
      BY <3>1, <3>2, PgScanWarned
    <3>4. QED  BY <3>3
  <2>3. CASE ps.ds = "mongodb"
    <3>1. result = MongoExplain(plan)
      BY <2>3 DEF ExplainResult
    <3>2. plan \in Plans("mongodb") /\ LargeScan("mongodb", plan, policy.maxFull)
      BY <2>3
    <3>3. ~SeqScanIsSafe(result, policy) /\ result.examined > policy.maxExamined
      BY <3>1, <3>2, MongoScanWarned
    <3> HIDE DEF result, plan
    <3>4. QED  BY <3>3
  <2>4. CASE ps.ds = "d1"
    <3>1. result = D1Explain(plan)
      BY <2>4 DEF ExplainResult
    <3>2. plan \in Plans("d1") /\ LargeScan("d1", plan, policy.maxFull)
      BY <2>4
    <3>3. \A i \in DOMAIN plan : plan[i].index \in BOOLEAN
      <4>1. \A l \in D1Lines : l.index \in BOOLEAN
        BY DEF D1Lines
      <4>2. plan = <<>> \/ (\E l \in D1Lines : plan = <<l>>) \/ (\E l, m \in D1Lines : plan = <<l, m>>)
        BY <3>2 DEF Plans
      <4>3. \A i \in DOMAIN plan : plan[i] \in D1Lines
        BY <4>2
      <4>4. QED  BY <4>1, <4>3
    <3>4. ~result.index /\ ~SeqScanIsSafe(result, policy)
      BY <3>1, <3>2, <3>3, D1ScanWarned
    <3>5. QED  BY <3>4
  <2>5. QED  BY <2>1, <2>2, <2>3, <2>4 DEF SqlSources
<1> HIDE DEF result
<1>2. QED  BY <1>1 DEF PlanReasons, result

(* The stricter of two verdicts, and a verdict the probe made stricter.    *)
LEMMA SeverityTyped ==
  ASSUME NEW a \in ActionNames
  PROVE  Severity(a) \in 1 .. 4 /\ (a = "allow" <=> Severity(a) = 1) /\ (a = "block" <=> Severity(a) = 4)
  BY SeverityIs DEF ActionNames

LEMMA Stricter ==
  ASSUME NEW v, NEW w, v.action \in ActionNames, w.action \in ActionNames
  PROVE  LET s == StricterAssessment(v, w) IN
         /\ s.action \in ActionNames
         /\ Severity(s.action) >= Severity(v.action) /\ Severity(s.action) >= Severity(w.action)
<1>1. Severity(v.action) \in Int /\ Severity(w.action) \in Int
  BY SeverityTyped
<1>2. QED  BY <1>1 DEF StricterAssessment

LEMMA Escalated ==
  ASSUME NEW v, v.action \in {"allow", "warn"}
  PROVE  EscalateToWarn(v).action = "warn" /\ Severity("warn") >= Severity(v.action)
  BY SeverityIs DEF EscalateToWarn

LEMMA ProbedIs ==
  ASSUME NEW v, NEW ps, ps.ds \in Sources, NEW probe, NEW policy
  PROVE  AssessWithProbe(v, ps, probe, policy) \in {v, EscalateToWarn(v)}
<1>1. AssessSqlMongoProbe(v, ps, probe, policy) \in {v, EscalateToWarn(v)}
  BY Zenon DEF AssessSqlMongoProbe
<1>2. AssessEsProbe(v, ps.st) \in {v, EscalateToWarn(v)}
  BY Zenon DEF AssessEsProbe
<1>3. AssessDynamoProbe(v, ps.st, probe) \in {v, EscalateToWarn(v)}
  BY Zenon DEF AssessDynamoProbe
<1>4. QED  BY <1>1, <1>2, <1>3 DEF AssessWithProbe, Sources, SqlSources

(* The thresholds stay ones the probe knows.                               *)
LEMMA PolicyForTyped ==
  ASSUME NEW rules, rules.policy \in ProbePolicies, NEW ps
  PROVE  ProbePolicyFor(rules, ps) \in ProbePolicies
<1> DEFINE p == rules.policy
           strict == [rules.policy EXCEPT !.maxExamined = 1, !.safeScan = FALSE]
<1>1. DOMAIN p = {"maxExamined", "maxJoin", "maxFull", "maxJoinRows", "seqRows", "cost", "safeScan"}
  BY DEF ProbePolicies
<1>2. PICK e \in 1 .. 2, f \in 1 .. 2, r \in 1 .. 2, safe \in BOOLEAN :
        p = [maxExamined |-> e, maxJoin |-> 1, maxFull |-> f, maxJoinRows |-> 4, seqRows |-> r, cost |-> 2, safeScan |-> safe]
  <2>1. /\ p.maxExamined \in 1 .. 2 /\ p.maxFull \in 1 .. 2 /\ p.seqRows \in 1 .. 2 /\ p.safeScan \in BOOLEAN
        /\ p.maxJoin = 1 /\ p.maxJoinRows = 4 /\ p.cost = 2
        /\ p = [maxExamined |-> p.maxExamined, maxJoin |-> p.maxJoin, maxFull |-> p.maxFull, maxJoinRows |-> p.maxJoinRows,
                seqRows |-> p.seqRows, cost |-> p.cost, safeScan |-> p.safeScan]
    BY DEF ProbePolicies
  <2> HIDE DEF p
  <2>2. QED  BY <2>1, Zenon
<1>3. strict = [p EXCEPT !.maxExamined = 1, !.safeScan = FALSE]
  BY Zenon
<1> HIDE DEF p, strict
<1>4. strict = [maxExamined |-> 1, maxJoin |-> 1, maxFull |-> f, maxJoinRows |-> 4, seqRows |-> r, cost |-> 2, safeScan |-> FALSE]
  BY <1>2, <1>3
<1>5. strict \in ProbePolicies
  BY <1>4 DEF ProbePolicies
<1>6. ProbePolicyFor(rules, ps) \in {strict, p}
  BY Zenon DEF ProbePolicyFor, strict, p
<1>7. p \in ProbePolicies
  BY DEF p
<1>8. QED  BY <1>5, <1>6, <1>7, Zenon

LEMMA StricterPolicyTyped ==
  ASSUME NEW p \in ProbePolicies, NEW q \in ProbePolicies
  PROVE  StricterPolicy(p, q) \in ProbePolicies
<1> DEFINE s == StricterPolicy(p, q)
<1>1. \A m, n : Lower(m, n) \in {m, n}
  BY DEF Lower
<1>2. DOMAIN p = {"maxExamined", "maxJoin", "maxFull", "maxJoinRows", "seqRows", "cost", "safeScan"}
  BY DEF ProbePolicies
<1>3. s = [f \in DOMAIN p |-> IF f = "safeScan" THEN p[f] /\ q[f] ELSE Lower(p[f], q[f])]
  BY DEF StricterPolicy
<1> HIDE DEF s
<1>4. /\ s.maxExamined \in {p.maxExamined, q.maxExamined} /\ s.maxJoin \in {p.maxJoin, q.maxJoin}
      /\ s.maxFull \in {p.maxFull, q.maxFull} /\ s.maxJoinRows \in {p.maxJoinRows, q.maxJoinRows}
      /\ s.seqRows \in {p.seqRows, q.seqRows} /\ s.cost \in {p.cost, q.cost}
  BY <1>1, <1>2, <1>3
<1>5. s.safeScan = (p.safeScan /\ q.safeScan)
  BY <1>2, <1>3
<1>6. s.safeScan \in BOOLEAN
  BY <1>5, Zenon
<1>7. s = [maxExamined |-> s.maxExamined, maxJoin |-> s.maxJoin, maxFull |-> s.maxFull, maxJoinRows |-> s.maxJoinRows,
           seqRows |-> s.seqRows, cost |-> s.cost, safeScan |-> s.safeScan]
  BY <1>2, <1>3
<1>8. /\ p.maxExamined \in 1 .. 2 /\ p.maxJoin = 1 /\ p.maxFull \in 1 .. 2 /\ p.maxJoinRows = 4 /\ p.seqRows \in 1 .. 2 /\ p.cost = 2
      /\ q.maxExamined \in 1 .. 2 /\ q.maxJoin = 1 /\ q.maxFull \in 1 .. 2 /\ q.maxJoinRows = 4 /\ q.seqRows \in 1 .. 2 /\ q.cost = 2
  BY DEF ProbePolicies
<1>9. s \in ProbePolicies
  BY <1>4, <1>6, <1>7, <1>8 DEF ProbePolicies
<1>10. QED  BY <1>9 DEF s

-----------------------------------------------------------------------------
(* The assessment.                                                         *)
AssessPcs == {"assess", "policy", "describe", "explain", "reassess", "repolicy", "conclude", "done"}
AssessTyped ==
    /\ srSt \in Statements /\ srWorld \in Worlds(srSt.ds) /\ srPc \in AssessPcs
    /\ srRules \in [user : UserRules \cup {NoUserRule}, optIn : BOOLEAN, policy : ProbePolicies]
    /\ srPolicy \in ProbePolicies /\ srVerdict.action \in ActionNames
    /\ srProbe \in [view : {"none", "undescribed", "table", "resolved", "unparsed"}, explain : {"none", "plan", "error", "skipped"}]

(* What the probe may have seen, and when.                                 *)
ProbeInv ==
    /\ srPc \in {"assess", "policy", "describe"} => srProbe.view = "none"
    /\ srPc \in {"explain", "conclude"} => srProbe.view # "none"
    /\ srPc \in {"reassess", "repolicy"} => srProbe.view = "resolved"
    /\ srProbe.view \in {"resolved", "unparsed"} => srSt.ds = "d1"
    /\ srProbe.explain \in {"plan", "error"} => SupportsExplain(Ps)
FloorInv == srPc # "assess" =>
    \E rules : RulesTyped(rules) /\ rules.optIn = srRules.optIn /\ srFloor = AssessParsed(rules, Ps)
ViewInv == srPc \in {"repolicy", "conclude", "done"} /\ srProbe.view = "resolved" /\ ~srSwapped
             => Severity(srVerdict.action) >= Severity(AssessParsed(srRules, PsOfView).action)

AssessInv == AssessTyped /\ ProbeInv /\ FloorInv /\ NeverLaxer /\ ViewInv /\ ScansAsk

LEMMA SameStatement ==
  ASSUME srSt' = srSt, srWorld' = srWorld
  PROVE  Ps' = Ps /\ PsOfView' = PsOfView /\ SupportsExplain(Ps)' = SupportsExplain(Ps)
  BY DEF Ps, PsOfView, SupportsExplain

LEMMA PsIs ==
  ASSUME AssessTyped
  PROVE  /\ FactsTyped(Ps) /\ Ps.ds = srSt.ds /\ Ps.ds \in Sources /\ RulesTyped(srRules)
  BY StatementTyped DEF AssessTyped, Ps, FactsTyped, RulesTyped

LEMMA InitAssess == AssessmentInit => AssessInv
<1> SUFFICES ASSUME AssessmentInit PROVE AssessInv
  OBVIOUS
<1> USE DEF AssessmentInit, AssessmentStart
<1>1. DefaultPolicy \in ProbePolicies
  BY DEF DefaultPolicy, ProbePolicies
<1>2. AssessTyped
  BY <1>1 DEF AssessTyped, AssessPcs, ActionNames, Unassessed, NoProbe
<1>3. ProbeInv
  BY DEF ProbeInv, NoProbe
<1>4. FloorInv /\ NeverLaxer /\ ViewInv /\ ScansAsk
  BY DEF FloorInv, NeverLaxer, ViewInv, ScansAsk
<1>5. QED  BY <1>2, <1>3, <1>4 DEF AssessInv

LEMMA AssessKeeps ==
  ASSUME AssessInv, Assess
  PROVE  AssessInv'
<1> USE DEF AssessInv
<1>1. /\ srPc = "assess" /\ srPc' = "policy" /\ srVerdict' = AssessParsed(srRules, Ps) /\ srFloor' = srVerdict'
      /\ UNCHANGED <<srSt, srWorld, srRules, srPolicy, srProbe, srSwaps, srSwapped>>
  BY DEF Assess
<1>2. Ps' = Ps /\ SupportsExplain(Ps)' = SupportsExplain(Ps)
  BY <1>1, SameStatement
<1>3. Ps.ds \in Sources /\ RulesTyped(srRules)
  BY PsIs
<1>4. srVerdict'.action \in ActionNames
  BY <1>1, <1>3, VerdictTyped
<1>5. AssessTyped'
  BY <1>1, <1>4 DEF AssessTyped, AssessPcs
<1>6. ProbeInv'
  BY <1>1, <1>2 DEF ProbeInv
<1>7. FloorInv'
  BY <1>1, <1>2, <1>3 DEF FloorInv
<1>8. NeverLaxer'
  <2>1. Severity(srVerdict'.action) \in Int
    BY <1>4, SeverityTyped
  <2>2. QED  BY <1>1, <2>1 DEF NeverLaxer
<1>9. ViewInv' /\ ScansAsk'
  BY <1>1 DEF ViewInv, ScansAsk
<1>10. QED  BY <1>5, <1>6, <1>7, <1>8, <1>9

LEMMA ReadPolicyKeeps ==
  ASSUME AssessInv, ReadPolicy
  PROVE  AssessInv'
<1> USE DEF AssessInv
<1>1. /\ srPc = "policy" /\ srPc' \in {"describe", "done"} /\ srPolicy' = ProbePolicyFor(srRules, Ps)
      /\ srPc' = "done" => srVerdict.action \notin {"allow", "warn"}
      /\ UNCHANGED <<srSt, srWorld, srRules, srVerdict, srProbe, srFloor, srSwaps, srSwapped>>
  BY DEF ReadPolicy
<1>2. Ps' = Ps /\ SupportsExplain(Ps)' = SupportsExplain(Ps)
  BY <1>1, SameStatement
<1>3. srPolicy' \in ProbePolicies
  <2>1. srRules.policy \in ProbePolicies
    BY DEF AssessTyped
  <2>2. QED  BY <1>1, <2>1, PolicyForTyped
<1>4. AssessTyped'
  BY <1>1, <1>3 DEF AssessTyped, AssessPcs
<1>5. ProbeInv' /\ srProbe'.view = "none"
  BY <1>1, <1>2 DEF ProbeInv
<1>6. FloorInv'
  BY <1>1, <1>2 DEF FloorInv
<1>7. NeverLaxer'
  BY <1>1 DEF NeverLaxer
<1>8. ViewInv' /\ ScansAsk'
  BY <1>1, <1>5 DEF ViewInv, ScansAsk
<1>9. QED  BY <1>4, <1>5, <1>6, <1>7, <1>8

LEMMA DescribeKeeps ==
  ASSUME AssessInv, Describe
  PROVE  AssessInv'
<1> USE DEF AssessInv
<1>1. /\ srPc = "describe" /\ srPc' = "explain"
      /\ UNCHANGED <<srSt, srWorld, srRules, srVerdict, srPolicy, srFloor, srSwaps, srSwapped>>
  BY DEF Describe
<1>2. Ps' = Ps /\ SupportsExplain(Ps)' = SupportsExplain(Ps)
  BY <1>1, SameStatement
<1>3. PICK x \in {"undescribed", "table", "resolved", "unparsed"} :
        srProbe' = [srProbe EXCEPT !.view = x] /\ (x \in {"resolved", "unparsed"} => Ps.ds = "d1")
  BY DEF Describe
<1>4. srProbe'.view = x /\ srProbe'.explain = srProbe.explain
      /\ srProbe' \in [view : {"none", "undescribed", "table", "resolved", "unparsed"}, explain : {"none", "plan", "error", "skipped"}]
  BY <1>3 DEF AssessTyped
<1>5. AssessTyped'
  BY <1>1, <1>4 DEF AssessTyped, AssessPcs
<1>6. ProbeInv'
  BY <1>1, <1>2, <1>3, <1>4, PsIs DEF ProbeInv
<1>7. FloorInv'
  BY <1>1, <1>2 DEF FloorInv
<1>8. NeverLaxer'
  BY <1>1 DEF NeverLaxer
<1>9. ViewInv' /\ ScansAsk'
  BY <1>1 DEF ViewInv, ScansAsk
<1>10. QED  BY <1>5, <1>6, <1>7, <1>8, <1>9

LEMMA ExplainKeeps ==
  ASSUME AssessInv, Explain
  PROVE  AssessInv'
<1> USE DEF AssessInv
<1>1. /\ srPc = "explain" /\ srPc' = IF srProbe.view = "resolved" THEN "reassess" ELSE "conclude"
      /\ UNCHANGED <<srSt, srWorld, srRules, srVerdict, srPolicy, srFloor, srSwaps, srSwapped>>
  BY DEF Explain
<1>2. Ps' = Ps /\ SupportsExplain(Ps)' = SupportsExplain(Ps)
  BY <1>1, SameStatement
<1>3. PICK x \in {"plan", "error", "skipped"} :
        srProbe' = [srProbe EXCEPT !.explain = x] /\ (x \in {"plan", "error"} => SupportsExplain(Ps))
  BY DEF Explain
<1>4. srProbe'.explain = x /\ srProbe'.view = srProbe.view
      /\ srProbe' \in [view : {"none", "undescribed", "table", "resolved", "unparsed"}, explain : {"none", "plan", "error", "skipped"}]
  BY <1>3 DEF AssessTyped
<1>5. AssessTyped'
  BY <1>1, <1>4 DEF AssessTyped, AssessPcs
<1>6. ProbeInv'
  BY <1>1, <1>2, <1>3, <1>4 DEF ProbeInv
<1>7. FloorInv'
  BY <1>1, <1>2 DEF FloorInv
<1>8. NeverLaxer'
  BY <1>1 DEF NeverLaxer
<1>9. ViewInv' /\ ScansAsk'
  BY <1>1, <1>4 DEF ViewInv, ScansAsk
<1>10. QED  BY <1>5, <1>6, <1>7, <1>8, <1>9

(* The view's tables are judged by the rules of that moment.               *)
LEMMA ReassessKeeps ==
  ASSUME AssessInv, ReassessView
  PROVE  AssessInv'
<1> USE DEF AssessInv
<1> DEFINE w == AssessParsed(srRules, PsOfView)
<1>1. /\ srPc = "reassess" /\ srPc' = "repolicy" /\ srVerdict' = StricterAssessment(srVerdict, w)
      /\ UNCHANGED <<srSt, srWorld, srRules, srPolicy, srProbe, srFloor, srSwaps, srSwapped>>
  BY DEF ReassessView
<1>2. Ps' = Ps /\ PsOfView' = PsOfView /\ SupportsExplain(Ps)' = SupportsExplain(Ps)
  BY <1>1, SameStatement
<1>3. w.action \in ActionNames
  <2>1. srSt.ds \in SqlSources
    BY <1>1 DEF ProbeInv, SqlSources
  <2>2. PsOfView.ds = Ps.ds
    BY <2>1, AlikeOnEntities DEF PsOfView, Ps, AlikeButFor
  <2>3. QED  BY <2>2, PsIs, VerdictTyped
<1>4. /\ srVerdict'.action \in ActionNames /\ Severity(srVerdict'.action) >= Severity(srVerdict.action)
      /\ Severity(srVerdict'.action) >= Severity(w.action)
  BY <1>1, <1>3, Stricter DEF AssessTyped
<1>5. w' = w
  BY <1>1, <1>2
<1>6. AssessTyped'
  BY <1>1, <1>4 DEF AssessTyped, AssessPcs
<1>7. ProbeInv'
  BY <1>1, <1>2 DEF ProbeInv
<1>8. FloorInv'
  BY <1>1, <1>2 DEF FloorInv
<1>9. Severity(srVerdict'.action) \in Int /\ Severity(srVerdict.action) \in Int
  BY <1>4, SeverityTyped DEF AssessTyped
<1>10. Severity(srFloor.action) \in Int
  <2>1. PICK rules : RulesTyped(rules) /\ srFloor = AssessParsed(rules, Ps)
    BY <1>1 DEF FloorInv
  <2>2. QED  BY <2>1, PsIs, VerdictTyped, SeverityTyped
<1>11. NeverLaxer'
  <2>1. Severity(srVerdict.action) >= Severity(srFloor.action)
    BY <1>1 DEF NeverLaxer
  <2>2. Severity(srVerdict'.action) >= Severity(srFloor.action)
    BY <1>4, <1>9, <1>10, <2>1
  <2>3. QED  BY <1>1, <2>2 DEF NeverLaxer
<1>12. ViewInv'
  BY <1>1, <1>2, <1>4 DEF ViewInv
<1>13. ScansAsk'
  BY <1>1 DEF ScansAsk
<1>14. QED  BY <1>6, <1>7, <1>8, <1>11, <1>12, <1>13

LEMMA ReadViewPolicyKeeps ==
  ASSUME AssessInv, ReadViewPolicy
  PROVE  AssessInv'
<1> USE DEF AssessInv
<1>1. /\ srPc = "repolicy" /\ srPc' = "conclude"
      /\ srPolicy' = StricterPolicy(srPolicy, ProbePolicyFor(srRules, PsOfView))
      /\ UNCHANGED <<srSt, srWorld, srRules, srVerdict, srProbe, srFloor, srSwaps, srSwapped>>
  BY DEF ReadViewPolicy
<1>2. Ps' = Ps /\ PsOfView' = PsOfView /\ SupportsExplain(Ps)' = SupportsExplain(Ps)
  BY <1>1, SameStatement
<1>3. srPolicy' \in ProbePolicies
  <2>1. srRules.policy \in ProbePolicies
    BY DEF AssessTyped
  <2>2. ProbePolicyFor(srRules, PsOfView) \in ProbePolicies
    BY <2>1, PolicyForTyped
  <2>3. srPolicy \in ProbePolicies
    BY DEF AssessTyped
  <2>4. QED  BY <1>1, <2>2, <2>3, StricterPolicyTyped
<1>4. AssessTyped'
  BY <1>1, <1>3 DEF AssessTyped, AssessPcs
<1>5. ProbeInv'
  BY <1>1, <1>2 DEF ProbeInv
<1>6. FloorInv'
  BY <1>1, <1>2 DEF FloorInv
<1>7. NeverLaxer'
  BY <1>1 DEF NeverLaxer
<1>8. ViewInv'
  BY <1>1, <1>2 DEF ViewInv
<1>9. ScansAsk'
  BY <1>1 DEF ScansAsk
<1>10. QED  BY <1>4, <1>5, <1>6, <1>7, <1>8, <1>9

(* What the probe lets pass unasked.                                       *)
LEMMA ConcludedScans ==
  ASSUME AssessInv, srPc = "conclude", srVerdict.action \in {"allow", "warn"},
         AssessWithProbe(srVerdict, Ps, srProbe, srPolicy).action = "allow"
  PROVE  /\ srProbe.explain # "error"
         /\ srProbe.explain = "plan" => ~LargeScan(srSt.ds, srWorld.plan, srPolicy.maxFull)
         /\ srSt.ds = "dynamodb" => srProbe.view = "table" /\ PartitionKey(srSt) \in srSt.fields
<1> USE DEF AssessInv
<1>1. Ps.ds = srSt.ds /\ Ps.ds \in Sources
  BY PsIs
<1>2. EscalateToWarn(srVerdict).action # "allow"
  BY Escalated
<1>3. CASE srSt.ds \in SqlSources \cup {"mongodb"}
  <2>1. AssessWithProbe(srVerdict, Ps, srProbe, srPolicy) = AssessSqlMongoProbe(srVerdict, Ps, srProbe, srPolicy)
    BY <1>1, <1>3 DEF AssessWithProbe, SqlSources
  <2>2. AssessSqlMongoProbe(srVerdict, Ps, srProbe, srPolicy) # EscalateToWarn(srVerdict)
    BY <1>2, <2>1
  <2>3. srProbe.explain # "error" /\ (srProbe.explain = "plan" => ~PlanReasons(Ps, srProbe, srPolicy))
    BY <2>2 DEF AssessSqlMongoProbe
  <2>4. srWorld.plan \in Plans(srSt.ds) /\ srPolicy \in ProbePolicies
    BY DEF AssessTyped, Worlds
  <2>5. LargeScan(srSt.ds, srWorld.plan, srPolicy.maxFull) => PlanReasons(Ps, srProbe, srPolicy)
    BY <1>1, <1>3, <2>4, ScanIsReason
  <2>6. srSt.ds # "dynamodb"
    BY <1>3 DEF SqlSources
  <2>7. QED  BY <2>3, <2>5, <2>6
<1>4. CASE srSt.ds \notin SqlSources \cup {"mongodb"}
  <2>1. srProbe.explain \notin {"plan", "error"}
    BY <1>1, <1>4 DEF ProbeInv, SupportsExplain
  <2>2. ASSUME srSt.ds = "dynamodb" PROVE srProbe.view = "table" /\ PartitionKey(srSt) \in srSt.fields
    <3>1. srSt \in DynamoStatements
      BY <2>2 DEF AssessTyped, Statements, SqlStatements, MongoStatements, RedisStatements, EsStatements, SqlSources
    <3>2. Ps.st = srSt
      BY <3>1, ParsedDynamo DEF Ps
    <3>3. AssessWithProbe(srVerdict, Ps, srProbe, srPolicy) = AssessDynamoProbe(srVerdict, srSt, srProbe)
      BY <1>1, <2>2, <3>2 DEF AssessWithProbe, SqlSources
    <3>4. AssessDynamoProbe(srVerdict, srSt, srProbe) # EscalateToWarn(srVerdict)
      BY <1>2, <3>3
    <3>5. srProbe.view # "undescribed" /\ KeyedAccess(srSt)
      BY <3>4 DEF AssessDynamoProbe
    <3>6. srProbe.view \in {"none", "undescribed", "table", "resolved", "unparsed"}
      BY DEF AssessTyped
    <3>7. srProbe.view \notin {"none", "resolved", "unparsed"}
      BY <2>2 DEF ProbeInv
    <3>8. QED  BY <3>5, <3>6, <3>7 DEF KeyedAccess
  <2>3. QED  BY <2>1, <2>2
<1>5. QED  BY <1>3, <1>4

LEMMA ConcludeKeeps ==
  ASSUME AssessInv, Conclude
  PROVE  AssessInv'
<1> USE DEF AssessInv
<1> DEFINE v == AssessWithProbe(srVerdict, Ps, srProbe, srPolicy)
<1>1. /\ srPc = "conclude" /\ srPc' = "done"
      /\ srVerdict' = IF srVerdict.action \in {"allow", "warn"} THEN v ELSE srVerdict
      /\ UNCHANGED <<srSt, srWorld, srRules, srPolicy, srProbe, srFloor, srSwaps, srSwapped>>
  BY DEF Conclude
<1>2. Ps' = Ps /\ PsOfView' = PsOfView /\ SupportsExplain(Ps)' = SupportsExplain(Ps)
  BY <1>1, SameStatement
<1>3. srVerdict'.action \in ActionNames /\ Severity(srVerdict'.action) >= Severity(srVerdict.action)
  <2>1. Severity(srVerdict.action) \in Int /\ srVerdict.action \in ActionNames
    BY SeverityTyped DEF AssessTyped
  <2>2. CASE srVerdict.action \in {"allow", "warn"}
    <3>1. v \in {srVerdict, EscalateToWarn(srVerdict)}
      BY PsIs, ProbedIs
    <3>2. EscalateToWarn(srVerdict).action = "warn" /\ Severity("warn") >= Severity(srVerdict.action)
      BY <2>2, Escalated
    <3> HIDE DEF v
    <3>3. QED  BY <1>1, <2>1, <2>2, <3>1, <3>2 DEF ActionNames
  <2>3. CASE srVerdict.action \notin {"allow", "warn"}
    BY <1>1, <2>1, <2>3
  <2>4. QED  BY <2>2, <2>3
<1>4. Severity(srVerdict'.action) \in Int /\ Severity(srVerdict.action) \in Int
  BY <1>3, SeverityTyped DEF AssessTyped
<1>5. Severity(srFloor.action) \in Int
  <2>1. PICK rules : RulesTyped(rules) /\ srFloor = AssessParsed(rules, Ps)
    BY <1>1 DEF FloorInv
  <2>2. QED  BY <2>1, PsIs, VerdictTyped, SeverityTyped
<1>6. AssessTyped'
  BY <1>1, <1>3 DEF AssessTyped, AssessPcs
<1>7. ProbeInv'
  BY <1>1, <1>2 DEF ProbeInv
<1>8. FloorInv'
  BY <1>1, <1>2 DEF FloorInv
<1>9. NeverLaxer'
  <2>1. Severity(srVerdict.action) >= Severity(srFloor.action)
    BY <1>1 DEF NeverLaxer
  <2>2. Severity(srVerdict'.action) >= Severity(srFloor.action)
    BY <1>3, <1>4, <1>5, <2>1
  <2>3. QED  BY <1>1, <2>2 DEF NeverLaxer
<1>10. ViewInv'
  <2> SUFFICES ASSUME srProbe.view = "resolved", ~srSwapped
               PROVE  Severity(srVerdict'.action) >= Severity(AssessParsed(srRules, PsOfView).action)
    BY <1>1, <1>2 DEF ViewInv
  <2> DEFINE w == AssessParsed(srRules, PsOfView)
  <2>1. Severity(srVerdict.action) >= Severity(w.action)
    BY <1>1 DEF ViewInv
  <2>2. Severity(w.action) \in Int
    <3>1. srSt.ds \in SqlSources
      BY DEF ProbeInv, SqlSources
    <3>2. PsOfView.ds = Ps.ds
      BY <3>1, AlikeOnEntities DEF PsOfView, Ps, AlikeButFor
    <3>3. QED  BY <3>2, PsIs, VerdictTyped, SeverityTyped
  <2> HIDE DEF w
  <2>3. Severity(srVerdict'.action) >= Severity(w.action)
    BY <1>3, <1>4, <2>1, <2>2
  <2>4. QED  BY <2>3 DEF w
<1>11. ScansAsk'
  <2> SUFFICES ASSUME srVerdict'.action = "allow"
               PROVE  /\ srProbe.explain # "error"
                      /\ srProbe.explain = "plan" => ~LargeScan(srSt.ds, srWorld.plan, srPolicy.maxFull)
                      /\ srSt.ds = "dynamodb" => srProbe.view = "table" /\ PartitionKey(srSt) \in srSt.fields
    BY <1>1 DEF ScansAsk
  <2>1. srVerdict.action \in {"allow", "warn"} /\ v.action = "allow"
    BY <1>1
  <2>2. QED  BY <1>1, <2>1, ConcludedScans
<1>12. QED  BY <1>6, <1>7, <1>8, <1>9, <1>10, <1>11

LEMMA ReloadKeeps ==
  ASSUME AssessInv, RulesReloaded
  PROVE  AssessInv'
<1> USE DEF AssessInv
<1>1. /\ srPc # "done" /\ srSwapped' = TRUE
      /\ UNCHANGED <<srSt, srWorld, srPc, srVerdict, srPolicy, srProbe, srFloor>>
  BY DEF RulesReloaded
<1>2. PICK u \in UserRules \cup {NoUserRule} : srRules' = [srRules EXCEPT !.user = u]
  BY DEF RulesReloaded
<1>3. /\ srRules' \in [user : UserRules \cup {NoUserRule}, optIn : BOOLEAN, policy : ProbePolicies]
      /\ srRules'.optIn = srRules.optIn
  BY <1>2 DEF AssessTyped
<1>4. Ps' = Ps /\ SupportsExplain(Ps)' = SupportsExplain(Ps)
  BY <1>1, SameStatement
<1>5. AssessTyped'
  BY <1>1, <1>3 DEF AssessTyped
<1>6. ProbeInv'
  BY <1>1, <1>4 DEF ProbeInv
<1>7. FloorInv'
  BY <1>1, <1>3, <1>4 DEF FloorInv
<1>8. NeverLaxer'
  BY <1>1 DEF NeverLaxer
<1>9. ViewInv' /\ ScansAsk'
  BY <1>1 DEF ViewInv, ScansAsk
<1>10. QED  BY <1>5, <1>6, <1>7, <1>8, <1>9

LEMMA RestAssess ==
  ASSUME AssessInv, UNCHANGED srvars
  PROVE  AssessInv'
<1>1. /\ srSt' = srSt /\ srWorld' = srWorld /\ srRules' = srRules /\ srPc' = srPc /\ srVerdict' = srVerdict
      /\ srPolicy' = srPolicy /\ srProbe' = srProbe /\ srFloor' = srFloor /\ srSwapped' = srSwapped
  BY DEF srvars
<1>2. Ps' = Ps /\ PsOfView' = PsOfView /\ SupportsExplain(Ps)' = SupportsExplain(Ps)
  BY <1>1, SameStatement
<1>3. AssessTyped' /\ ProbeInv'
  BY <1>1, <1>2 DEF AssessInv, AssessTyped, ProbeInv
<1>4. FloorInv' /\ NeverLaxer'
  BY <1>1, <1>2 DEF AssessInv, FloorInv, NeverLaxer
<1>5. ViewInv' /\ ScansAsk'
  BY <1>1, <1>2 DEF AssessInv, ViewInv, ScansAsk
<1>6. QED  BY <1>3, <1>4, <1>5 DEF AssessInv

LEMMA AssessMeans ==
  ASSUME AssessInv
  PROVE  AssessSafe
<1> USE DEF AssessInv
<1>1. srPc # "assess" => \E rules : RulesTyped(rules) /\ rules.optIn = srRules.optIn /\ srFloor = AssessParsed(rules, Ps)
  BY DEF FloorInv
<1>2. WritesAsk
  <2> SUFFICES ASSUME srPc = "done", MayWrite(srSt), srVerdict.action = "allow", srFloor.by # "user"
               PROVE  srRules.optIn /\ Ps.cmds \cap {"insert", "insertone"} # {}
    BY DEF WritesAsk
  <2>1. PICK rules : RulesTyped(rules) /\ rules.optIn = srRules.optIn /\ srFloor = AssessParsed(rules, Ps)
    BY <1>1
  <2>2. srFloor.action = "allow"
    <3>1. srFloor.action \in ActionNames
      BY <2>1, PsIs, VerdictTyped
    <3>2. Severity(srFloor.action) \in 1 .. 4 /\ Severity("allow") = 1
      BY <3>1, SeverityTyped, SeverityIs
    <3>3. Severity(srVerdict.action) >= Severity(srFloor.action)
      BY DEF NeverLaxer
    <3>4. Severity(srFloor.action) = 1
      BY <3>2, <3>3
    <3>5. QED  BY <3>1, <3>4, SeverityTyped
  <2>3. QED  BY <2>1, <2>2, WritesNotAllowed DEF Ps, Inserts, AssessTyped
<1>3. EveryRowBlocked
  <2> SUFFICES ASSUME srPc = "done", srSt.ds \in SqlSources, srSt.parses, ~srSt.where, NEW verb \in {"delete", "update"},
                      Changes(srSt) = {Change(verb, FALSE)}, srFloor.by # "user"
               PROVE  srVerdict.action = "block"
    BY DEF EveryRowBlocked
  <2>1. PICK rules : RulesTyped(rules) /\ rules.optIn = srRules.optIn /\ srFloor = AssessParsed(rules, Ps)
    BY <1>1
  <2>2. srSt \in SqlStatements
    BY DEF AssessTyped, Statements, MongoStatements, RedisStatements, EsStatements, DynamoStatements, SqlSources
  <2>3. srFloor.action = "block"
    BY <2>1, <2>2, EveryRow DEF Ps
  <2>4. Severity(srVerdict.action) >= 4 /\ srVerdict.action \in ActionNames
    BY <2>3, SeverityIs DEF NeverLaxer, AssessTyped
  <2>5. Severity(srVerdict.action) = 4
    BY <2>4, SeverityTyped
  <2>6. QED  BY <2>4, <2>5, SeverityTyped
<1>4. ViewsSeenThrough
  <2> DEFINE base == [Ps EXCEPT !.entity = "b", !.entities = {"b"}]
  <2> SUFFICES ASSUME srPc = "done", srProbe.view = "resolved", ~srSwapped, srRules.user # NoUserRule,
                      srRules.user \in MatchingRules(srRules, base)
               PROVE  Severity(srVerdict.action) >= Severity(AssessParsed(srRules, base).action)
    BY DEF ViewsSeenThrough
  <2>1. srSt.ds \in SqlSources /\ srWorld.bases = {"b"}
    BY DEF ProbeInv, SqlSources, AssessTyped, Worlds
  <2>2. AlikeButFor(PsOfView, Ps) /\ "b" \in PsOfView.entities
    <3>1. {Ps.entity} \cup srWorld.bases = {Ps.entity, "b"}
      BY <2>1
    <3>2. PsOfView = [Ps EXCEPT !.entities = {Ps.entity, "b"}]
      BY <3>1 DEF PsOfView
    <3>3. PsOfView.entities = {Ps.entity, "b"} /\ AlikeButFor(PsOfView, Ps)
      BY <2>1, <3>2, AlikeOnEntities DEF Ps
    <3>4. QED  BY <3>3
  <2>3. AlikeButFor(base, Ps) /\ base.entities = {"b"}
    <3> DEFINE E == {"b"}
               e == "b"
               q == [Ps EXCEPT !.entity = e, !.entities = E]
    <3>1. base = q
      OBVIOUS
    <3> HIDE DEF E, e
    <3>2. DOMAIN Ps = {"ds", "st", "cmds", "classes", "method", "marks", "where", "multi", "failed",
                       "query", "entity", "entities", "keys"}
      BY <2>1, SqlDomain DEF Ps
    <3>3. AlikeButFor(q, Ps) /\ q.entities = E
      BY <3>2 DEF AlikeButFor
    <3> HIDE DEF q, base
    <3>4. QED  BY <3>1, <3>3 DEF E
  <2> HIDE DEF base
  <2>4. AlikeButFor(PsOfView, base) /\ base.ds \in Sources
    BY <2>2, <2>3, PsIs DEF AlikeButFor
  <2>5. RulesTyped(srRules) /\ srRules.user \in UserRules
    BY PsIs DEF RulesTyped
  <2>6. AssessParsed(srRules, PsOfView) = AssessParsed(srRules, base)
    BY <2>2, <2>3, <2>4, <2>5, SameMatches
  <2>7. QED  BY <2>6 DEF ViewInv
<1>5. QED  BY <1>2, <1>3, <1>4 DEF AssessSafe

(* A write does not run unasked unless the user's rule allows it; one that *)
(* deletes or updates every row of a table is blocked; a verdict becomes   *)
(* no laxer on the way; a view is judged as the table it reads; what runs  *)
(* unasked scans no large table: for every rule a user may set.            *)
THEOREM AssessCorrect == AssessmentSpec => []AssessSafe
<1>1. AssessInv /\ [AssessmentNext]_srvars => AssessInv'
  BY AssessKeeps, ReadPolicyKeeps, DescribeKeeps, ExplainKeeps, ReassessKeeps, ReadViewPolicyKeeps, ConcludeKeeps,
     ReloadKeeps, RestAssess DEF AssessmentNext
<1>2. QED  BY InitAssess, <1>1, AssessMeans, PTL DEF AssessmentSpec
=============================================================================
