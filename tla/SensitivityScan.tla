---------------------------- MODULE SensitivityScan ----------------------------
(* The scan that has a model classify the fields of a datasource, while the  *)
(* user and an agent classify them too (internal/sensitivity: Manager,       *)
(* Store; app_sensitivity.go, internal/datasourceops/service_sensitivity.go, *)
(* internal/schemaprivacy/gate.go).                                          *)
(*                                                                           *)
(* There is one datasource.  A field is a pair of its entity and its name.   *)
(* The scan's model is asked once for every entity; how entities are put     *)
(* together into requests is left out.  A scan the user starts always        *)
(* reads every entity again (Force).                                         *)
EXTENDS Naturals, FiniteSets

CONSTANTS SsFields,  \* the fields, pairs of an entity and a name
          SsLevels,  \* the level keys
          SsSaid,    \* those that users and agents give
          SsGuesses, \* and those that the model does
          SsEdits,   \* bound on what users and agents change, and on the further scans
          NoReport

\* A field's classification and a datasource's.
Classifications == [level : SsLevels \cup {"unconfirmed"}, by : {"ai", "manual", "agent"}, rules : Nat]
Reports == [fields : UNION {[S -> Classifications] : S \in SUBSET SsFields}, rules : Nat]

ASSUME SensitivityScanAssumption ==
  /\ "unconfirmed" \notin SsLevels /\ SsSaid \cup SsGuesses \subseteq SsLevels /\ SsEdits \in Nat
  /\ NoReport \notin Reports

SsEntities == {x[1] : x \in SsFields}

VARIABLES
  ssReport,    \* the datasource's classification: fields, and the rules it was made under
  ssRules,     \* the user's own rules
  ssLevels,    \* the levels in use
  ssConsent,   \* whether the datasource's schema may be sent
  ssDescribed, \* the entities whose fields the cache knows
  ssRunning,   \* the scan slot
  ssScan,      \* the scan that has it
  ssProgress,  \* what the window shows of the last scan
  ssCleanups,  \* ended scans whose progress is still to be forgotten
  ssAudit,     \* the rows about sending the schema
  ssLocks,     \* what users and agents said of a field, as a scan must keep it
  ssEditsLeft

ssvars == <<ssReport, ssRules, ssLevels, ssConsent, ssDescribed, ssRunning, ssScan, ssProgress, ssCleanups,
            ssAudit, ssLocks, ssEditsLeft>>

NoScan == [number |-> 0, pc |-> "ended", entities |-> {}, partial |-> FALSE, rules |-> 0, existing |-> NoReport,
           levels |-> {}, ask |-> {}, asked |-> {}, results |-> {}, failed |-> FALSE, consented |-> FALSE,
           shares |-> FALSE, omitted |-> {}]
NoProgress == [number |-> 0, status |-> "none"]
NoLock == "none"

Classified(level, by, rules) == [level |-> level, by |-> by, rules |-> rules]
Locked(c) == c.by # "ai"
FieldsOf(report) == IF report = NoReport THEN {} ELSE DOMAIN report.fields

SensitivityScanInit ==
  /\ ssReport = NoReport /\ ssRules = 0 /\ ssLevels = SsLevels /\ ssConsent = TRUE
  /\ ssDescribed \in SUBSET SsEntities /\ ssRunning = FALSE
  /\ ssScan = NoScan /\ ssProgress = NoProgress /\ ssCleanups = {} /\ ssAudit = {}
  /\ ssLocks = [x \in SsFields |-> NoLock] /\ ssEditsLeft = SsEdits

-----------------------------------------------------------------------------
(* The start of a scan.                                                      *)

\* endScan frees the slot; the progress is forgotten ten minutes later.
EndScan(scan, status) ==
  /\ ssScan' = [scan EXCEPT !.pc = "ended"]
  /\ ssRunning' = FALSE
  /\ ssProgress' = [ssProgress EXCEPT !.status = status]
  /\ ssCleanups' = ssCleanups \cup {ssProgress.number}

Row(n, allowed) == ssAudit' = ssAudit \cup {[scan |-> n, allowed |-> allowed]}

\* TryBeginScan: one scan of a datasource at a time.
SlotFree == ~ssRunning

SensitivityScanStarts ==
  /\ \/ /\ ~ssConsent /\ [scan |-> 0, allowed |-> FALSE] \notin ssAudit
        /\ Row(0, FALSE) /\ UNCHANGED <<ssRunning, ssScan, ssProgress, ssEditsLeft>>
     \/ /\ ssConsent /\ SlotFree
        /\ ssScan.number > 0 => ssEditsLeft > 0
        /\ ssEditsLeft' = IF ssScan.number > 0 THEN ssEditsLeft - 1 ELSE ssEditsLeft
        /\ ssRunning' = TRUE
        /\ ssScan' = [NoScan EXCEPT !.number = ssScan.number + 1, !.pc = "describe", !.consented = ssConsent,
                                        !.omitted = ssScan.omitted]
        /\ ssProgress' = [number |-> ssScan.number + 1, status |-> "running"]
        /\ UNCHANGED ssAudit
  /\ UNCHANGED <<ssReport, ssRules, ssLevels, ssConsent, ssDescribed, ssCleanups, ssLocks>>

\* describeUncachedEntities, each of which may fail or be out of time; the
\* entities without columns are skipped.
DescribeUncachedEntities ==
  /\ ssScan.pc = "describe"
  /\ \E more \in SUBSET (SsEntities \ ssDescribed) :
       /\ ssDescribed' = ssDescribed \cup more
       /\ IF ssDescribed' = {} THEN EndScan(ssScan, "failed")
          ELSE /\ ssScan' = [ssScan EXCEPT !.pc = "gate", !.entities = ssDescribed', !.partial = ssDescribed' # SsEntities]
               /\ UNCHANGED <<ssRunning, ssProgress, ssCleanups>>
  /\ UNCHANGED <<ssReport, ssRules, ssLevels, ssConsent, ssAudit, ssLocks, ssEditsLeft>>

\* The datasource is read again: describing took time.
ConsentAtStart == ssScan.consented
GateConsent == ssConsent

\* A refusal leaves a row; so does what is about to be sent, unless no model
\* can be had.
GateAgain ==
  /\ ssScan.pc = "gate"
  /\ \/ /\ ~GateConsent /\ Row(ssScan.number, FALSE) /\ EndScan(ssScan, "failed")
     \/ /\ GateConsent /\ EndScan(ssScan, "failed") /\ UNCHANGED ssAudit
     \/ /\ GateConsent /\ Row(ssScan.number, TRUE)
        /\ ssScan' = [ssScan EXCEPT !.pc = "rules", !.consented = ssConsent]
        /\ UNCHANGED <<ssRunning, ssProgress, ssCleanups>>
  /\ UNCHANGED <<ssReport, ssRules, ssLevels, ssConsent, ssDescribed, ssLocks, ssEditsLeft>>

ReadsCustomRules ==
  /\ ssScan.pc = "rules"
  /\ ssScan' = [ssScan EXCEPT !.pc = "existing", !.rules = ssRules]
  /\ UNCHANGED <<ssReport, ssRules, ssLevels, ssConsent, ssDescribed, ssRunning, ssProgress, ssCleanups, ssAudit, ssLocks, ssEditsLeft>>

-----------------------------------------------------------------------------
(* The scan itself, over the report as it was when it began.                 *)

\* An entity with a field that nobody locked, or that the report lacks.
FilterNonManualEntities(scan, report) ==
  {e \in scan.entities : \E x \in SsFields :
     x[1] = e /\ (x \notin FieldsOf(report) \/ ~Locked(report.fields[x]))}

\* A field keeps what a user or an agent said, else takes what the model
\* says, else keeps what it had; fields no longer in the schema are left out,
\* unless the schema is known in part only.
ModelSaid(scan, x) == {r \in scan.results : r.field = x}
KeptUnlessAnswered(scan, x) ==
  x \in FieldsOf(scan.existing) /\ Locked(scan.existing.fields[x]) /\ ModelSaid(scan, x) = {}
Kept(scan, x) == x \in FieldsOf(scan.existing) /\ Locked(scan.existing.fields[x])
SparesNothing(scan) == {}
Spared(scan) == IF scan.partial THEN {x \in FieldsOf(scan.existing) : x[1] \notin scan.entities} ELSE {}

MergeResults(scan) ==
  LET there == {x \in SsFields : x[1] \in scan.entities}
      old == FieldsOf(scan.existing)
      named == {x \in there : x \in old \/ ModelSaid(scan, x) # {}} IN
  [x \in named \cup Spared(scan) |->
     IF x \notin there \/ Kept(scan, x) \/ ModelSaid(scan, x) = {} THEN scan.existing.fields[x]
     ELSE Classified((CHOOSE r \in ModelSaid(scan, x) : TRUE).level, "ai", scan.rules)]

OldRules(scan) == IF scan.existing = NoReport THEN 0 ELSE scan.existing.rules

\* The rules are stamped once every entity was asked about and answered.
StampAlways(scan) == scan.rules
Stamp(scan) == IF ~scan.failed /\ ~scan.partial THEN scan.rules ELSE OldRules(scan)

SetDatasource(scan, rules) == ssReport' = [fields |-> MergeResults(scan), rules |-> rules]

\* The report, the model and the levels are read; nothing may be left to ask.
BeginsScan ==
  /\ ssScan.pc = "existing"
  /\ LET ask == FilterNonManualEntities(ssScan, ssReport)
         scan == [ssScan EXCEPT !.existing = ssReport, !.levels = ssLevels, !.ask = ask, !.pc = "asking"] IN
     IF ask = {} THEN SetDatasource(scan, Stamp(scan)) /\ EndScan(scan, "completed")
     ELSE ssScan' = scan /\ UNCHANGED <<ssReport, ssRunning, ssProgress, ssCleanups>>
  /\ UNCHANGED <<ssRules, ssLevels, ssConsent, ssDescribed, ssAudit, ssLocks, ssEditsLeft>>

AsksModel(e) ==
  /\ ssScan.pc = "asking" /\ e \in ssScan.ask
  /\ ssScan' = [ssScan EXCEPT !.ask = @ \ {e}, !.asked = @ \cup {e}]
  /\ UNCHANGED <<ssReport, ssRules, ssLevels, ssConsent, ssDescribed, ssRunning, ssProgress, ssCleanups, ssAudit, ssLocks, ssEditsLeft>>

\* ToFieldClassification: a level the scan does not know is unconfirmed.
Answered(e, level, fields) ==
  {[field |-> x, level |-> IF level \in ssScan.levels THEN level ELSE "unconfirmed"] : x \in fields}

AnsweredFields(scan) == {r.field : r \in scan.results}

\* A batch is answered, or fails with part of the answers; what came so far is
\* merged and saved after each that did not fail.  The report then holds the
\* scan's own copy of the entities it spares.
ModelAnswers(e) ==
  /\ e \in ssScan.asked
  /\ \E level \in SsGuesses, fields \in SUBSET {x \in SsFields : x[1] = e} :
       LET scan == [ssScan EXCEPT !.asked = @ \ {e}, !.results = @ \cup Answered(e, level, fields)] IN
       \/ /\ ssScan' = [scan EXCEPT !.shares = TRUE,
                          !.omitted = (@ \ AnsweredFields(scan)) \cup {x \in SsFields : x[1] = e /\ x \notin fields}]
          /\ SetDatasource(scan, OldRules(scan))
       \/ ssScan' = [scan EXCEPT !.failed = TRUE] /\ UNCHANGED ssReport
  /\ UNCHANGED <<ssRules, ssLevels, ssConsent, ssDescribed, ssRunning, ssProgress, ssCleanups, ssAudit, ssLocks, ssEditsLeft>>

ScanEnds ==
  /\ ssScan.pc = "asking" /\ ssScan.ask = {} /\ ssScan.asked = {}
  /\ SetDatasource(ssScan, Stamp(ssScan))
  /\ EndScan([ssScan EXCEPT !.omitted = @ \ AnsweredFields(ssScan)], IF ssScan.failed THEN "failed" ELSE "completed")
  /\ UNCHANGED <<ssRules, ssLevels, ssConsent, ssDescribed, ssAudit, ssLocks, ssEditsLeft>>

\* Only the progress of the scan that ended is forgotten.
AnyProgress(n) == ssProgress.status # "running"
OwnProgress(n) == ssProgress.number = n /\ ssProgress.status # "running"

ForgetsProgress(n) ==
  /\ n \in ssCleanups /\ ssCleanups' = ssCleanups \ {n}
  /\ ssProgress' = IF OwnProgress(n) THEN NoProgress ELSE ssProgress
  /\ UNCHANGED <<ssReport, ssRules, ssLevels, ssConsent, ssDescribed, ssRunning, ssScan, ssAudit, ssLocks, ssEditsLeft>>

-----------------------------------------------------------------------------
(* Meanwhile.                                                                *)

Edit == ssEditsLeft > 0 /\ ssEditsLeft' = ssEditsLeft - 1
\* A scan that asks has read the report before: it does not know of the edit.
ScanAsks == ssScan.pc = "asking"

ConfirmField(x, level) ==
  /\ Edit /\ x \in FieldsOf(ssReport) /\ level \in ssLevels
  /\ LET said == Classified(level, "manual", 0)
         shared == ScanAsks /\ ssScan.shares /\ x \in Spared(ssScan) IN
     /\ ssReport' = [ssReport EXCEPT !.fields[x] = said]
     /\ ssScan' = IF shared THEN [ssScan EXCEPT !.existing.fields[x] = said] ELSE ssScan
     /\ ssLocks' = [ssLocks EXCEPT ![x] = IF ScanAsks /\ ~shared THEN NoLock ELSE level]
  /\ UNCHANGED <<ssRules, ssLevels, ssConsent, ssDescribed, ssRunning, ssProgress, ssCleanups, ssAudit>>

\* An agent's report takes the place of the datasource's, confirmations
\* included.
SaveAgentReport(e, level) ==
  /\ Edit /\ level \in ssLevels
  /\ LET fields == {x \in SsFields : x[1] = e} IN
     /\ ssReport' = [fields |-> [x \in fields |-> Classified(level, "agent", 0)], rules |-> 0]
     /\ ssLocks' = [x \in SsFields |-> IF x \in fields /\ ~ScanAsks THEN level ELSE NoLock]
  /\ ssScan' = [ssScan EXCEPT !.shares = FALSE]
  /\ UNCHANGED <<ssRules, ssLevels, ssConsent, ssDescribed, ssRunning, ssProgress, ssCleanups, ssAudit>>

DeleteDatasource ==
  /\ Edit /\ ssReport # NoReport /\ ssReport' = NoReport
  /\ ssLocks' = [x \in SsFields |-> NoLock]
  /\ ssScan' = [ssScan EXCEPT !.shares = FALSE]
  /\ UNCHANGED <<ssRules, ssLevels, ssConsent, ssDescribed, ssRunning, ssProgress, ssCleanups, ssAudit>>

ChangesSettings ==
  /\ Edit
  /\ \/ ssRules' = ssRules + 1 /\ UNCHANGED <<ssLevels, ssConsent, ssDescribed>>
     \/ ssConsent' = ~ssConsent /\ UNCHANGED <<ssRules, ssLevels, ssDescribed>>
     \/ /\ \E l \in ssLevels : ssLevels # {l} /\ ssLevels' = ssLevels \ {l}
        /\ UNCHANGED <<ssRules, ssConsent, ssDescribed>>
     \/ /\ \E e \in ssDescribed : ssDescribed' = ssDescribed \ {e}
        /\ UNCHANGED <<ssRules, ssConsent, ssLevels>>
  /\ UNCHANGED <<ssReport, ssRunning, ssScan, ssProgress, ssCleanups, ssAudit, ssLocks>>

SensitivityScanNext ==
  \/ SensitivityScanStarts \/ DescribeUncachedEntities \/ GateAgain \/ ReadsCustomRules \/ BeginsScan \/ ScanEnds
  \/ \E e \in SsEntities : AsksModel(e) \/ ModelAnswers(e)
  \/ \E n \in ssCleanups : ForgetsProgress(n)
  \/ \E x \in SsFields, level \in SsSaid : ConfirmField(x, level)
  \/ \E e \in SsEntities, level \in SsSaid : SaveAgentReport(e, level)
  \/ DeleteDatasource \/ ChangesSettings

SensitivityScanSpec == SensitivityScanInit /\ [][SensitivityScanNext]_ssvars
-----------------------------------------------------------------------------
\* What a user or an agent said of a field stays until a user or an agent
\* says otherwise ("user-confirmed fields are preserved"): no scan that read
\* the report afterwards changes it, whatever the model answers, whichever
\* entities cannot be described and however many scans follow.  What is said
\* while a scan asks its model is not included: the scan then writes over it.
LocksKept == \A x \in SsFields : ssLocks[x] # NoLock =>
  x \in FieldsOf(ssReport) /\ ssReport.fields[x].level = ssLocks[x] /\ Locked(ssReport.fields[x])

\* The model is asked only in a scan that was audited as allowed, after the
\* entities were described and while the datasource still consented.
AskedWithConsent ==
  (ssScan.pc = "asking" => ssScan.consented /\ [scan |-> ssScan.number, allowed |-> TRUE] \in ssAudit)
  /\ \A row \in ssAudit : row.scan > 0 /\ ~row.allowed => [row EXCEPT !.allowed = TRUE] \notin ssAudit

\* A report that bears the user's present rules ("so the next full scan still
\* detects changes for skipped entities") has no field that a model classified
\* under earlier ones, but for those a model left out of its answer.
StampHonest == ssReport # NoReport /\ ssReport.rules = ssRules =>
  \A x \in FieldsOf(ssReport) :
    Locked(ssReport.fields[x]) \/ ssReport.fields[x].rules = ssRules \/ x \in ssScan.omitted

\* The slot and the progress agree: the window sees a scan run while it has
\* the slot, and the last scan's outcome until its own ten minutes are over.
ProgressTrue ==
  /\ ssRunning <=> ssProgress.status = "running"
  /\ ssRunning => ssScan.pc # "ended" /\ ssProgress.number = ssScan.number
  /\ ssScan.number \in ssCleanups => ssProgress = [number |-> ssScan.number, status |-> ssProgress.status]

ScanSafe == LocksKept /\ AskedWithConsent /\ StampHonest /\ ProgressTrue
=============================================================================
