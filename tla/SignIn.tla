-------------------------------- MODULE SignIn --------------------------------
(***************************************************************************)
(* The app's own sign-in.  Calls of the window and of agents run at once:  *)
(* each reads the stored state, asks the server, and saves what it made of *)
(* the state it read.  The state and a marker of the trial are two files,  *)
(* each replaced whole; the app may stop between them.                     *)
(* Source: src/internal/auth/{service,session}.go, src/app_auth.go,        *)
(* src/internal/planlimits/entitlement.go, src/app_plan.go.                *)
(***************************************************************************)
EXTENDS Naturals, FiniteSets

CONSTANTS
    AuCalls,     \* calls that may be under way
    AuTokens,    \* bound: sessions the server grants
    AuLogins,    \* bound: logins started
    AuDays,      \* bound: days that pass
    AuTrial      \* days of the trial

ASSUME SignInAssumption ==
    AuTokens \in Nat /\ AuLogins \in Nat /\ AuDays \in Nat /\ AuTrial \in Nat \ {0}

VARIABLES
    auUp,        \* the app runs
    auMem,       \* the store's state: session, login under way, trial
    auFile,      \* auth-session.json
    auMarker,    \* auth-trial.json
    auCall,      \* [AuCalls -> the call]
    auServer,    \* sessions granted and still valid, and logins approved
    auExpired,   \* the session's access token has run out
    auToday,     \* the day
    auFirst,     \* history: the first trial
    auTold,      \* history: the session the last login, refresh or logout left
    auCrossed    \* history: calls crossed, or a save failed
auvars == <<auUp, auMem, auFile, auMarker, auCall, auServer, auExpired, auToday, auFirst, auTold, auCrossed>>

NoTrial == [start |-> 0, end |-> 0]
NoState == [session |-> 0, pending |-> 0, trial |-> NoTrial]
NoAuth == [pc |-> "idle"]

Trial(day) == [start |-> day, end |-> day + AuTrial]

(* EvaluateLicenseWithTrial, for a user without a licence. *)
EffectivePlan(state) == IF state.trial.end > auToday THEN "pro" ELSE "free"
CurrentPlan == EffectivePlan(auMem)

-----------------------------------------------------------------------------

(* ensureTrialUnlocked: the marker counts for a state that is loaded, and
   for one that is saved without a trial. *)
Repaired(t) ==
    IF t = NoTrial THEN Trial(auToday)
    ELSE [start |-> IF t.start = 0 THEN t.end - AuTrial ELSE t.start,
          end |-> IF t.end = 0 THEN t.start + AuTrial ELSE t.end]
\* Mutant: the state's own trial counts, marker or not.
TrialOfState(trial, preferCurrent) == Repaired(trial)
EnsureTrial(trial, preferCurrent) ==
    Repaired(IF (~preferCurrent \/ trial = NoTrial) /\ auMarker # NoTrial THEN auMarker ELSE trial)

(* The marker is written first, then the state; either may fail, and the
   memory has changed all the same. *)
Written(state, wrote) ==
    /\ auMarker' = IF wrote \in {"both", "marker"} THEN state.trial ELSE auMarker
    /\ auFile' = IF wrote = "both" THEN state ELSE auFile
    /\ auFirst' = IF auFirst = NoTrial /\ wrote \in {"both", "marker"} THEN state.trial ELSE auFirst

(* Load: the app does not start when a file cannot be written. *)
LoadState ==
    /\ ~auUp
    /\ LET state == [auFile EXCEPT !.trial = EnsureTrial(auFile.trial, FALSE)] IN
         \E wrote \in {"both", "marker", "none"} :
           /\ Written(state, IF wrote = "both" /\ state = auFile THEN "marker" ELSE wrote)
           /\ auUp' = (wrote = "both")
           /\ auMem' = IF wrote = "both" THEN state ELSE NoState
    /\ UNCHANGED <<auCall, auServer, auExpired, auToday, auTold, auCrossed>>

SaveState(next, wrote) ==
    LET state == [next EXCEPT !.trial = EnsureTrial(next.trial, TRUE)]
    IN  /\ auMem' = state
        /\ Written(state, wrote)

-----------------------------------------------------------------------------

Free(c) == auUp /\ auCall[c] = NoAuth
Reads(c, pc) == auCall' = [auCall EXCEPT ![c] = [pc |-> pc, read |-> auMem]]
Ends(c) == auCall' = [auCall EXCEPT ![c] = NoAuth]
Asking(c, pc) == auUp /\ auCall[c].pc = pc

(* A call that saves what it made of the state it read; a login that only
   starts means to leave the session as it is. *)
Saves(c, next) ==
    /\ \E wrote \in {"both", "marker", "none"} :
         /\ SaveState(next, wrote)
         /\ auTold' = IF wrote = "both" /\ auCall[c].pc # "start" THEN next.session ELSE auTold
         /\ auCrossed' = (auCrossed \/ wrote # "both" \/ \E d \in AuCalls \ {c} : auCall[d] # NoAuth)
    /\ Ends(c)

(* StartLogin. *)
StartLogin(c) ==
    /\ Free(c) /\ auServer.logins < AuLogins
    /\ Reads(c, "start")
    /\ UNCHANGED <<auUp, auMem, auFile, auMarker, auServer, auExpired, auToday, auFirst, auTold, auCrossed>>
LoginStarted(c) ==
    /\ Asking(c, "start")
    /\ auServer' = [auServer EXCEPT !.logins = @ + 1]
    /\ Saves(c, [auCall[c].read EXCEPT !.pending = auServer'.logins])
    /\ UNCHANGED <<auUp, auExpired, auToday>>

(* CompleteAuthLogin, with the code of any login: the server goes by the
   verifier of the one that was pending. *)
CompleteAuthLogin(c) ==
    /\ Free(c) /\ auMem.pending # 0
    /\ Reads(c, "exchange")
    /\ UNCHANGED <<auUp, auMem, auFile, auMarker, auServer, auExpired, auToday, auFirst, auTold, auCrossed>>

(* The server's new session replaces the old one of the device. *)
Granted(c) ==
    LET token == auServer.last + 1 IN
    /\ auServer.last < AuTokens
    /\ auServer' = [auServer EXCEPT !.last = token, !.valid = {token}]
    /\ Saves(c, [auCall[c].read EXCEPT !.session = token, !.pending = IF auCall[c].pc = "exchange" THEN 0 ELSE @])
    /\ auExpired' = FALSE
    /\ UNCHANGED <<auUp, auToday>>
ExchangeCode(c) == Asking(c, "exchange") /\ Granted(c)

(* A request the server refuses or that cannot reach it changes nothing. *)
RequestFails(c) ==
    /\ auUp /\ auCall[c].pc \in {"exchange", "refresh", "access", "logout"}
    /\ Ends(c)
    /\ UNCHANGED <<auUp, auMem, auFile, auMarker, auServer, auExpired, auToday, auFirst, auTold, auCrossed>>

(* EnsureAuthenticated: a session that has run out is refreshed first. *)
EnsureAuthenticated(c) ==
    /\ Free(c) /\ auMem.session # 0
    /\ Reads(c, IF auExpired THEN "refresh" ELSE "access")
    /\ UNCHANGED <<auUp, auMem, auFile, auMarker, auServer, auExpired, auToday, auFirst, auTold, auCrossed>>
RefreshSession(c) ==
    /\ Asking(c, "refresh") /\ auCall[c].read.session \in auServer.valid
    /\ Granted(c)
\* Mutant: the refused session stays on disk.
ClearedInMemory(c) ==
    /\ auMem' = [auMem EXCEPT !.session = 0]
    /\ auTold' = 0
    /\ Ends(c)
    /\ UNCHANGED <<auFile, auMarker, auFirst, auCrossed>>
ClearSession(c) == Saves(c, [auCall[c].read EXCEPT !.session = 0, !.pending = 0])
RefreshRefused(c) ==
    /\ Asking(c, "refresh") /\ auCall[c].read.session \notin auServer.valid
    /\ ClearSession(c)
    /\ UNCHANGED <<auUp, auServer, auExpired, auToday>>

(* ListDevices, RemoveDevice, GetJSON: a refused access logs out, with the
   state read again; so does the removal of this device. *)
AccessAnswered(c) ==
    /\ Asking(c, "access")
    /\ IF auCall[c].read.session \in auServer.valid THEN Ends(c) \/ (auMem.session # 0 /\ Reads(c, "logout"))
       ELSE Reads(c, "logout")
    /\ UNCHANGED <<auUp, auMem, auFile, auMarker, auServer, auExpired, auToday, auFirst, auTold, auCrossed>>
Logout(c) ==
    /\ Free(c)
    /\ Reads(c, "logout")
    /\ UNCHANGED <<auUp, auMem, auFile, auMarker, auServer, auExpired, auToday, auFirst, auTold, auCrossed>>
LoggedOut(c) ==
    /\ Asking(c, "logout")
    /\ auServer' = [auServer EXCEPT !.valid = @ \ {auCall[c].read.session}]
    /\ ClearSession(c)
    /\ UNCHANGED <<auUp, auExpired, auToday>>

-----------------------------------------------------------------------------

(* The user removes the device on the web, the access token runs out, a day
   passes, the app stops at any time, a file is lost. *)
DeviceRemoved ==
    /\ auServer.valid # {}
    /\ auServer' = [auServer EXCEPT !.valid = {}]
    /\ UNCHANGED <<auUp, auMem, auFile, auMarker, auCall, auExpired, auToday, auFirst, auTold, auCrossed>>
AccessExpires ==
    /\ ~auExpired /\ auExpired' = TRUE
    /\ UNCHANGED <<auUp, auMem, auFile, auMarker, auCall, auServer, auToday, auFirst, auTold, auCrossed>>
DayPasses ==
    /\ auToday < AuDays /\ auToday' = auToday + 1
    /\ UNCHANGED <<auUp, auMem, auFile, auMarker, auCall, auServer, auExpired, auFirst, auTold, auCrossed>>
AppStops ==
    /\ auUp /\ auUp' = FALSE
    /\ auMem' = NoState
    /\ auCall' = [c \in AuCalls |-> NoAuth]
    /\ UNCHANGED <<auFile, auMarker, auServer, auExpired, auToday, auFirst, auTold, auCrossed>>
FileLost ==
    /\ ~auUp
    /\ \/ auFile # NoState /\ auMarker # NoTrial /\ auFile' = NoState /\ auTold' = 0 /\ UNCHANGED auMarker
       \/ auFile.trial = auFirst /\ auMarker' = NoTrial /\ UNCHANGED <<auFile, auTold>>
    /\ UNCHANGED <<auUp, auMem, auCall, auServer, auExpired, auToday, auFirst, auCrossed>>

SignInInit ==
    /\ auUp = FALSE
    /\ auMem = NoState /\ auFile = NoState
    /\ auMarker \in {NoTrial, [Trial(1) EXCEPT !.start = 0], [Trial(1) EXCEPT !.end = 0]}
    /\ auCall = [c \in AuCalls |-> NoAuth]
    /\ auServer = [valid |-> {}, last |-> 0, logins |-> 0]
    /\ auExpired = FALSE
    /\ auToday = 1
    /\ auFirst = IF auMarker = NoTrial THEN NoTrial ELSE Trial(1)
    /\ auTold = 0
    /\ auCrossed = FALSE

SignInNext ==
    \/ LoadState \/ AppStops \/ FileLost
    \/ \E c \in AuCalls :
         \/ StartLogin(c) \/ LoginStarted(c) \/ CompleteAuthLogin(c) \/ ExchangeCode(c)
         \/ EnsureAuthenticated(c) \/ RefreshSession(c) \/ RefreshRefused(c)
         \/ AccessAnswered(c) \/ Logout(c) \/ LoggedOut(c) \/ RequestFails(c)
    \/ DeviceRemoved \/ AccessExpires \/ DayPasses

SignInSpec == SignInInit /\ [][SignInNext]_auvars

-----------------------------------------------------------------------------

(* The trial lasts its days from the first start, whatever is lost, written
   in part or restarted; and a session that a call left behind (a login kept,
   a logout or a refused session gone) is the one in memory and the one a
   restart will find, unless calls crossed or a save failed. *)
TrialKept == auUp /\ auFirst # NoTrial => auMem.trial = auFirst /\ (CurrentPlan = "pro" <=> auToday < auFirst.end)
SessionFollows == ~auCrossed => auFile.session = auTold /\ (auUp => auMem.session = auTold)
SignInSafe == TrialKept /\ SessionFollows
=============================================================================
