------------------------------ MODULE RiskRules ------------------------------
(* The store of risk rules and the engine that applies them                *)
(* (internal/riskengine/store.go, engine.go and catalog.go, called by      *)
(* internal/datasourceops/service_riskrules.go and app_riskengine.go).     *)
(*                                                                         *)
(* A user's rule is one YAML file of the rules directory, named for its id *)
(* or by the hand that wrote it; the setting of a shipped rule (its switch *)
(* or its thresholds) is a file of a second directory, there only while it *)
(* differs from the shipped one.  A call changes a file and then the       *)
(* store's memory under the store's mutex, and then has the engine reload: *)
(* three reads of the store, each under the mutex on its own, and the      *)
(* installation of what they found.                                        *)
EXTENDS Naturals, FiniteSetsExt

CONSTANTS RuleIds,     \* the ids of the user's rules
          ShippedIds,  \* the shipped settings: the rules' and the probe rules'
          Settings,    \* the settings of a shipped rule
          Shipped,     \* the setting it is shipped with
          RuleCalls,   \* the calls under way
          GivenCodes,  \* the codes a caller may give a rule
          RuleChanges, \* bound on the changes made
          NoRule, ByHand

ASSUME RiskRulesAssumption ==
  /\ ShippedIds = {"rule", "probe"} /\ Shipped \in Settings /\ RuleChanges \in Nat
  /\ RuleIds \subseteq Nat /\ IsFiniteSet(RuleIds)
  /\ GivenCodes \subseteq Nat \ {0}

VARIABLES
  rrFiles,    \* what each file of the rules directory holds
  rrOverride, \* what each file of the override directory holds
  rrRules,    \* the store's rules, by id
  rrPaths,    \* the file the store keeps each rule in
  rrSettings, \* the store's settings of the shipped rules
  rrEngine,   \* the rules and the settings the engine applies
  rrCall,     \* the calls: where they are and what they read
  rrFailed,   \* ids a failed call left in a state of their own
  rrGiven,    \* history: the codes rules have that the store never compared
  rrAlone,    \* no two calls were under way at once since the last install
  rrLeft      \* changes left

rrvars == <<rrFiles, rrOverride, rrRules, rrPaths, rrSettings, rrEngine,
            rrCall, rrFailed, rrGiven, rrAlone, rrLeft>>

\* A rule's code is a number, 0 when its file gives none; what it says is
\* whether it is on.
RuleTexts == [code : Nat, on : BOOLEAN]

FileNames == (RuleIds \X {"yaml", "yml"}) \cup {ByHand}

ASSUME NoRuleAssumption ==
  /\ NoRule \notin FileNames \cup RuleTexts \cup [id : RuleIds, rule : RuleTexts]
  /\ ByHand \notin RuleIds \X {"yaml", "yml"}

\* The files a rule may be in: the store's own and the two named for it.
OwnPath(id) == IF rrPaths[id] # NoRule THEN {rrPaths[id]} ELSE {<<id, "yaml">>}
RulePaths(id) == ({rrPaths[id]} \ {NoRule}) \cup {<<id, "yaml">>, <<id, "yml">>}

\* The file a rule is written to.
RuleFilePath(id) == IF rrPaths[id] # NoRule THEN rrPaths[id] ELSE <<id, "yaml">>

Holding(files, id) == {n \in FileNames : files[n] # NoRule /\ files[n].id = id}

\* Of two files of one id the directory lists .yml last.
ListedLast(names, id) ==
  IF names = {} THEN NoRule
  ELSE IF <<id, "yml">> \in names THEN <<id, "yml">> ELSE CHOOSE n \in names : TRUE
LoadedFrom(files, id) == ListedLast(Holding(files, id), id)

RuleCodes(rules) == {rules[id].code : id \in {i \in RuleIds : rules[i] # NoRule}}

\* The ids whose file gives no code get the unused numbers, in order of id.
RuleText(files, id) == LET n == LoadedFrom(files, id) IN IF n = NoRule THEN NoRule ELSE files[n].rule
BareIds(files) == {id \in RuleIds : RuleText(files, id) # NoRule /\ RuleText(files, id).code = 0}
UsedCodes(files) == {RuleText(files, id).code : id \in {i \in RuleIds : RuleText(files, i) # NoRule}}
UnusedCodes(files) == (1 .. Max(UsedCodes(files) \cup {0}) + Cardinality(BareIds(files))) \ UsedCodes(files)
Nth(S, k) == CHOOSE x \in S : Cardinality({y \in S : y < x}) = k
Loaded(files) ==
  [id \in RuleIds |->
     IF id \in BareIds(files)
     THEN [RuleText(files, id) EXCEPT !.code = Nth(UnusedCodes(files), Cardinality({i \in BareIds(files) : i < id}))]
     ELSE RuleText(files, id)]

\* What a new rule is numbered.
CountedCode == Cardinality({id \in RuleIds : rrRules[id] # NoRule}) + 1
NextUserRuleCode == Max(RuleCodes(rrRules) \cup {0}) + 1

NoRuleCall == [pc |-> "idle", alone |-> TRUE, id |-> NoRule, on |-> FALSE, code |-> 0,
               settings |-> <<>>, rules |-> <<>>]

RiskRulesInit ==
  /\ rrFiles \in {f \in [FileNames -> {NoRule} \cup [id : RuleIds, rule : [code : {0, 2}, on : {TRUE}]]] :
       /\ \A n \in FileNames \ {ByHand} : f[n] # NoRule => f[n].id = n[1]
       /\ f[ByHand] # NoRule => Holding(f, f[ByHand].id) = {ByHand}
       /\ \A n, m \in FileNames : f[n] # NoRule /\ f[m] # NoRule /\ f[n].rule.code = 2 /\ f[m].rule.code = 2
                                    => f[n].id = f[m].id}
  /\ rrOverride = [s \in ShippedIds |-> Shipped]
  /\ rrRules = Loaded(rrFiles)
  /\ rrPaths = [id \in RuleIds |-> LoadedFrom(rrFiles, id)]
  /\ rrSettings = rrOverride
  /\ rrEngine = [rules |-> rrRules, settings |-> rrSettings]
  /\ rrCall = [c \in RuleCalls |-> NoRuleCall]
  /\ rrFailed = {} /\ rrGiven = {} /\ rrAlone = TRUE /\ rrLeft = RuleChanges

OtherCalls(c) == {d \in RuleCalls \ {c} : rrCall[d].pc # "idle"}

RuleCallBegins(c, call) ==
  /\ rrCall[c].pc = "idle"
  /\ rrCall' = [d \in RuleCalls |-> IF d = c THEN [call EXCEPT !.alone = OtherCalls(c) = {}]
                                    ELSE [rrCall[d] EXCEPT !.alone = @ /\ d \notin OtherCalls(c)]]
  /\ rrAlone' = (rrAlone /\ OtherCalls(c) = {})

\* A call that changed the store goes on to the engine's reload.
OnlyStored(c) == rrCall' = [rrCall EXCEPT ![c] = NoRuleCall] /\ rrLeft > 0 /\ rrLeft' = rrLeft - 1
Changed(c) ==
  /\ rrCall' = [rrCall EXCEPT ![c] = [NoRuleCall EXCEPT !.pc = "builtin", !.alone = rrCall[c].alone]]
  /\ rrLeft > 0 /\ rrLeft' = rrLeft - 1

RuleRefused(c) == rrCall' = [rrCall EXCEPT ![c] = NoRuleCall]

\* SetRiskRule looks whether the rule is there; the desktop's calls know.
\* The caller may give a code, or leave it blank.
SetRiskRule(c) ==
  /\ rrLeft > 0
  /\ \E id \in RuleIds, on \in BOOLEAN, code \in {0} \cup GivenCodes :
       RuleCallBegins(c, [NoRuleCall EXCEPT !.pc = IF rrRules[id] = NoRule THEN "create" ELSE "update",
                              !.id = id, !.on = on, !.code = code])
  /\ UNCHANGED <<rrFiles, rrOverride, rrRules, rrPaths, rrSettings, rrEngine, rrFailed, rrGiven, rrLeft>>

\* The rule a call writes: a given code is taken as it is.
CodeOr(given, blank) == IF given = 0 THEN blank ELSE given
Gives(c) == rrGiven' = rrGiven \cup {<<rrCall[c].id, code>> : code \in {rrCall[c].code} \ {0}}

WriteRule(id, rule) ==
  LET path == RuleFilePath(id) IN
  /\ rrFiles' = [n \in FileNames |-> IF n = path THEN [id |-> id, rule |-> rule]
                                     ELSE IF n \in RulePaths(id) THEN NoRule ELSE rrFiles[n]]
  /\ rrPaths' = [rrPaths EXCEPT ![id] = path]
  /\ rrRules' = [rrRules EXCEPT ![id] = rule]
  /\ rrFailed' = rrFailed \ {id}

\* The rule is in its file, but another file of its id cannot be removed.
OtherFiles(id) == (RulePaths(id) \cap Holding(rrFiles, id)) \ {RuleFilePath(id)}
CleanupFails(id, rule) ==
  /\ OtherFiles(id) # {}
  /\ rrFiles' = [rrFiles EXCEPT ![RuleFilePath(id)] = [id |-> id, rule |-> rule]]
  /\ rrFailed' = rrFailed \cup {id}

Create(c) ==
  LET id == rrCall[c].id
      rule == [code |-> CodeOr(rrCall[c].code, NextUserRuleCode), on |-> rrCall[c].on] IN
  /\ rrCall[c].pc = "create"
  /\ \/ rrRules[id] = NoRule /\ WriteRule(id, rule) /\ Gives(c) /\ Changed(c)
     \/ rrRules[id] # NoRule /\ RuleRefused(c) /\ UNCHANGED <<rrFiles, rrPaths, rrRules, rrFailed, rrGiven, rrLeft>>
  /\ UNCHANGED <<rrOverride, rrSettings, rrEngine, rrAlone>>

Update(c) ==
  LET id == rrCall[c].id
      rule == [code |-> CodeOr(rrCall[c].code, rrRules[id].code), on |-> rrCall[c].on] IN
  /\ rrCall[c].pc = "update"
  /\ \/ rrRules[id] # NoRule /\ WriteRule(id, rule) /\ Gives(c) /\ Changed(c)
     \/ /\ rrRules[id] # NoRule /\ CleanupFails(id, rule) /\ Gives(c) /\ RuleRefused(c)
        /\ UNCHANGED <<rrPaths, rrRules, rrLeft>>
     \/ rrRules[id] = NoRule /\ RuleRefused(c) /\ UNCHANGED <<rrFiles, rrPaths, rrRules, rrFailed, rrGiven, rrLeft>>
  /\ UNCHANGED <<rrOverride, rrSettings, rrEngine, rrAlone>>

DeleteRiskRule(c) ==
  /\ \E id \in RuleIds :
       /\ rrRules[id] # NoRule
       /\ RuleCallBegins(c, [NoRuleCall EXCEPT !.pc = "builtin"])
       /\ rrFiles' = [n \in FileNames |-> IF n \in RulePaths(id) THEN NoRule ELSE rrFiles[n]]
       /\ rrPaths' = [rrPaths EXCEPT ![id] = NoRule]
       /\ rrRules' = [rrRules EXCEPT ![id] = NoRule]
       /\ rrFailed' = rrFailed \ {id}
       /\ rrGiven' = {g \in rrGiven : g[1] # id}
  /\ rrLeft > 0 /\ rrLeft' = rrLeft - 1
  /\ UNCHANGED <<rrOverride, rrSettings, rrEngine>>

\* The rule's file is removed, another file of its id cannot be: the call is
\* refused, and a restart finds that file, with the code it bears.
DeletionFails(c) ==
  /\ rrCall[c].pc = "idle"
  /\ \E id \in {i \in RuleIds : rrRules[i] # NoRule /\ OtherFiles(i) # {}} :
       /\ rrFiles' = [rrFiles EXCEPT ![RuleFilePath(id)] = NoRule]
       /\ rrFailed' = rrFailed \cup {id}
       /\ rrGiven' = rrGiven \cup {<<id, rrFiles[n].rule.code>> : n \in OtherFiles(id)}
  /\ UNCHANGED <<rrOverride, rrRules, rrPaths, rrSettings, rrEngine, rrCall, rrAlone, rrLeft>>

\* A setting equal to the shipped one removes the override, another writes it.
SetBuiltin(c) ==
  /\ \E s \in ShippedIds : \E v \in Settings \ {rrSettings[s]} :
       /\ rrOverride' = [rrOverride EXCEPT ![s] = v]
       /\ rrSettings' = [rrSettings EXCEPT ![s] = v]
  /\ RuleCallBegins(c, [NoRuleCall EXCEPT !.pc = "builtin"])
  /\ rrLeft > 0 /\ rrLeft' = rrLeft - 1
  /\ UNCHANGED <<rrFiles, rrRules, rrPaths, rrEngine, rrFailed, rrGiven>>

\* A restart, or the daemon once local encryption is usable, reads the files.
Load(c) ==
  /\ RuleCallBegins(c, [NoRuleCall EXCEPT !.pc = "builtin"])
  /\ rrLeft > 0 /\ rrLeft' = rrLeft - 1
  /\ rrRules' = Loaded(rrFiles)
  /\ rrPaths' = [id \in RuleIds |-> LoadedFrom(rrFiles, id)]
  /\ rrSettings' = rrOverride
  /\ rrFailed' = {}
  /\ UNCHANGED <<rrFiles, rrOverride, rrEngine, rrGiven>>

\* ReloadFromStore: the shipped rules, the probe's rules, the user's rules,
\* and then the engine's own lock.
ReadsBuiltin(c) ==
  /\ rrCall[c].pc = "builtin"
  /\ rrCall' = [rrCall EXCEPT ![c].pc = "probe", ![c].settings = rrSettings]
  /\ UNCHANGED <<rrFiles, rrOverride, rrRules, rrPaths, rrSettings, rrEngine, rrFailed, rrGiven, rrAlone, rrLeft>>

ReadsProbe(c) ==
  /\ rrCall[c].pc = "probe"
  /\ rrCall' = [rrCall EXCEPT ![c].pc = "list", ![c].settings["probe"] = rrSettings["probe"]]
  /\ UNCHANGED <<rrFiles, rrOverride, rrRules, rrPaths, rrSettings, rrEngine, rrFailed, rrGiven, rrAlone, rrLeft>>

ReadsList(c) ==
  /\ rrCall[c].pc = "list"
  /\ rrCall' = [rrCall EXCEPT ![c].pc = "install", ![c].rules = rrRules]
  /\ UNCHANGED <<rrFiles, rrOverride, rrRules, rrPaths, rrSettings, rrEngine, rrFailed, rrGiven, rrAlone, rrLeft>>

Installs(c) ==
  /\ rrCall[c].pc = "install"
  /\ rrEngine' = [rules |-> rrCall[c].rules, settings |-> rrCall[c].settings]
  /\ rrCall' = [rrCall EXCEPT ![c] = NoRuleCall]
  /\ rrAlone' = (rrAlone \/ rrCall[c].alone)
  /\ UNCHANGED <<rrFiles, rrOverride, rrRules, rrPaths, rrSettings, rrFailed, rrGiven, rrLeft>>

RiskRulesNext == \E c \in RuleCalls :
  \/ SetRiskRule(c) \/ Create(c) \/ Update(c) \/ DeleteRiskRule(c) \/ DeletionFails(c) \/ SetBuiltin(c)
  \/ Load(c) \/ ReadsBuiltin(c) \/ ReadsProbe(c) \/ ReadsList(c) \/ Installs(c)

RiskRulesSpec == RiskRulesInit /\ [][RiskRulesNext]_rrvars

-----------------------------------------------------------------------------
\* The engine applies what the store holds once the calls have returned and
\* no other was under way beside the last one that changed the store ("so
\* subsequent assessments see the change immediately").
EngineFollows == (\A c \in RuleCalls : rrCall[c].pc = "idle") /\ rrAlone
                   => rrEngine = [rules |-> rrRules, settings |-> rrSettings]

\* A restart finds the rules the store holds ("A daemon restart after this
\* call sees the same persisted rule set"): a deleted rule does not come
\* back from another file of its id.
RestartFinds == \A id \in RuleIds \ rrFailed :
  LET text == Loaded(rrFiles)[id] IN
  IF rrRules[id] = NoRule THEN text = NoRule ELSE text # NoRule /\ text.on = rrRules[id].on

\* Two rules bear one code, which is what an audit row names, only where the
\* store took a code as it came: one a caller gave it, or the one of an older
\* file that a deletion failed to remove.
CodesDistinct == \A i, j \in RuleIds :
  i # j /\ rrRules[i] # NoRule /\ rrRules[j] # NoRule /\ rrRules[i].code = rrRules[j].code
    => <<i, rrRules[i].code>> \in rrGiven \/ <<j, rrRules[j].code>> \in rrGiven

RiskRulesSafe == EngineFollows /\ RestartFinds /\ CodesDistinct
=============================================================================
