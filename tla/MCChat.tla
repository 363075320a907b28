------------------------------- MODULE MCChat -------------------------------
(* Instances for TLC of the chat's components, of the scan that has a      *)
(* model classify fields and of the masking of what the chat and the tools *)
(* are then told.  They share nothing here: a                              *)
(* behaviour exercises one of them, chosen at its start, and the others    *)
(* rest in their initial states.                                           *)
EXTENDS ChatEngine, QueryMasking, TLC

CONSTANTS p, q

C(tool, at, stmt, n) == [tool |-> tool, at |-> at, stmt |-> stmt, n |-> n]
Says(calls, talks, intended) == [calls |-> calls, talks |-> talks, intent |-> intended]

\* One answer per way the recoveries and the tools tell answers apart.
SaidSamples ==
  {Says({}, TRUE, "none"),
   Says({C("web_search", "other", p, 1)}, FALSE, "none"),
   Says({C("web_search", "other", p, 1)}, TRUE, "none"),
   Says({C("discover", "focus", p, 1)}, FALSE, "none"),
   Says({C("discover", "other", p, 1)}, FALSE, "avoid"),
   Says({C("memory_save", "other", p, 1), C("memory_save", "other", p, 2)}, FALSE, "none"),
   Says({C("execute", "focus", p, 1)}, FALSE, "none"),
   Says({C("execute", "focus", p, 1)}, FALSE, "prefer"),
   Says({C("execute", "other", q, 1)}, FALSE, "none"),
   Says({C("execute", "other", q, 1), C("execute", "focus", p, 1)}, FALSE, "none")}

ScanFields == {<<"t1", "c">>, <<"t1", "d">>, <<"t2", "d">>}

\* A select list, a FROM clause and a report per way that the tracing and the
\* masking tell them apart.
Tables(t1, t2) == ("t1" :> t1) @@ ("t2" :> t2)
ColumnSamples == {Tables(<<"c", "d">>, <<"d">>), Tables(<<"c">>, <<"d", "c">>)}
From(schema, table, alias) == [schema |-> schema, table |-> table, alias |-> alias]
FromSamples ==
  {<<From("", "t1", "none")>>, <<From("s", "t1", "x")>>, <<From("s", "t1", "none"), From("", "t2", "x")>>,
   <<From("", "t1", "x"), From("", "t1", "y")>>, <<From("", "t2", "x"), From("", "t1", "none")>>}
Expr(kind, refs) == [kind |-> kind, refs |-> refs]
Col(name, column) == Expr("expr", {Reference(name, column)})
ListSamples ==
  {<<Expr("star", {})>>, <<Expr("expr", {}), Expr("star", {})>>, <<Expr("expr", {})>>}
  \cup {<<Expr("all", {Reference(n, "")})>> : n \in {<<"t1">>, <<"x">>}}
  \cup {<<Col(n, c), e>> : n \in {NoName, <<"x">>, <<"s", "t1">>, <<"t1">>}, c \in {"c", "d"},
           e \in {Col(NoName, "d"), Expr("expr", {Reference(NoName, "c"), Reference(<<"x">>, "d")})}}
Field(entity, field, level) == [entity |-> entity, field |-> field, level |-> level]
ReportSamples ==
  {{}, {Field(<<"t1">>, <<"c">>, "L4"), Field(<<"t2">>, <<"d">>, "L1")}, {Field(<<"s", "t1">>, <<"d">>, "unconfirmed")},
   {Field(<<"t2">>, <<"d">>, "L4"), Field(<<"o", "t1">>, <<"c">>, "L4")},
   {Field(<<"t1">>, <<"a", "b">>, "gone"), Field(<<"t2">>, <<"d">>, "L4")}, {Field(<<"t2">>, <<"a">>, "L4")}}
ConfigSamples == {[ids |-> ("L1" :> 1) @@ ("L4" :> 4), from |-> n, to |-> n] : n \in {0, 1}}
Leaf(path, literal) == [path |-> path, literal |-> literal]
DocumentSamples ==
  {{Leaf(<<"a", "b">>, FALSE), Leaf(<<"d">>, FALSE)}, {Leaf(<<"a", "b">>, TRUE)},
   {Leaf(<<"a", "b">>, FALSE), Leaf(<<"a", "b">>, TRUE)},
   {Leaf(<<"_source", "a", "b">>, FALSE), Leaf(<<"_source", "d">>, FALSE)}}

\* Documents are of what they are asked of, unless a stage joins others or a
\* name is an alias.
ResultSamples ==
  {r \in [rows : SUBSET DocumentSamples \ {{}}, of : {{<<"t1">>}, {<<"t1">>, <<"t2">>}},
          asked : {{}, {<<"alias">>}, {<<"t1">>}, {<<"t1">>, <<"t2">>}, {<<"t2">>, <<"alias">>}},
          stages : {{}, {"$lookup"}, {"$graphLookup"}}] :
     /\ r.stages = {} => r.asked = {} \/ r.of \subseteq r.asked \/ <<"alias">> \in r.asked
     /\ r.stages # {} => r.asked = {<<"t1">>}}

VARIABLE part
chatVars == <<part, avars, lvars, svars, ssvars, mkvars>>

SomeAsk == CHOOSE a \in DocumentAsks : TRUE
SomeConfig == CHOOSE c \in ConfigSamples : c.from = 0

ChatInit ==
  /\ part \in {"approvals", "loop", "streams", "scan", "masking"}
  /\ ApprovalsInit /\ LoopInit /\ StreamsInit
  /\ SensitivityScanInit /\ (part # "scan" => ssDescribed = {})
  /\ QueryMaskingInit /\ (part # "masking" => mkAsk = SomeAsk /\ mkReport = {} /\ mkConfig = SomeConfig)

ChatNext ==
  /\ UNCHANGED part
  /\ \/ part = "approvals" /\ ApprovalsNext /\ UNCHANGED <<lvars, svars, ssvars, mkvars>>
     \/ part = "loop" /\ LoopNext /\ UNCHANGED <<avars, svars, ssvars, mkvars>>
     \/ part = "streams" /\ StreamsNext /\ UNCHANGED <<avars, lvars, ssvars, mkvars>>
     \/ part = "scan" /\ SensitivityScanNext /\ UNCHANGED <<avars, lvars, svars, mkvars>>
     \/ part = "masking" /\ QueryMaskingNext /\ UNCHANGED <<avars, lvars, svars, ssvars>>

ChatSpec ==
  /\ ChatInit /\ [][ChatNext]_chatVars
  /\ \A a \in Answers : WF_avars(part = "approvals" /\ AnswerStep(a))
  /\ WF_lvars(part = "loop" /\ LoopStep)
  /\ \A s \in Streams :
       /\ WF_svars(part = "streams" /\ StartReturned(s))
       /\ WF_svars(part = "streams" /\ (TurnStream(s) \/ StartFailed(s)))
       /\ WF_svars(part = "streams" /\ Deliver(s))
       /\ WF_svars(part = "streams" /\ \E e \in {"done", "error", "cancelled"} : EndStream(s, e))

\* The chat never hangs: an answer to a card comes to an end, a run of the
\* loop ends or waits for the user, and a turn is told of its stream's end
\* whichever way it came.
ChatSettles == AnswersEnd /\ (part = "loop" => RunEnds) /\ TurnsSettle
=============================================================================
