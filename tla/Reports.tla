------------------------------ MODULE Reports ------------------------------
(* ReportRunner (core/reporting/jasperreports.scala): a report is loaded and  *)
(* compiled, the expressions of its parameters and of its data source are     *)
(* evaluated, the first failure counting, and the report is filled with the   *)
(* rows of the data source (core/reporting/datasource.scala).                 *)
EXTENDS Integers, Sequences, SequencesExt, FiniteSetsExt

CONSTANTS
    Inputs,        \* what reports are loaded from
    Resources,     \* those of them that load and compile
    Names,         \* of parameters
    NoName,        \* the name of a data source that has none
    Rows,          \* rows of data sources
    MaxDepth,      \* bound: how deep the expressions of a run are nested
    Runs           \* calls of runReportT: [in, parameters, dataSource]

VARIABLES
    stage,         \* what the run does next, or how it ended
    run,           \* its arguments
    parameters,    \* the map that is handed to JasperReports
    source,        \* the rows of its data source
    index,         \* JRProductListDataSource.index
    rows,          \* the rows that the report was filled with
    error          \* the left of the result

reportVars == <<stage, run, parameters, source, index, rows, error>>

NoRun == [in |-> "none"]

-----------------------------------------------------------------------------
(* Expressions, and what the three kinds of data sources make of their value: *)
(* the rows of one product, of a list of products, of one bean.               *)
EmptyExpression == [kind |-> "empty"]
EmptyDataSource == [kind |-> "emptyDataSource"]
ReportExpression(name, subreport, expressions) ==
    [kind |-> "report", name |-> name, subreport |-> subreport, expressions |-> expressions]
Parameters(expressions) == [kind |-> "parameters", expressions |-> expressions]
DataSource(products, name) == [kind |-> "data", products |-> products, name |-> name]

Right(value) == [left |-> FALSE, value |-> value]
Left(why)    == [left |-> TRUE, why |-> why]

Compiled(in) == <<"compiled", in>>

CompileReport(in) ==
    IF in \in Resources THEN Right(Compiled(in)) ELSE Left(<<"notCompiled", in>>)

(* Expressions and their values, which have compiled reports for the inputs,  *)
(* by how deep they are nested.                                               *)
DataSources == [kind : {"data"}, products : Seq(Rows), name : Names \cup {NoName}]

Nested(inner) ==
    {EmptyExpression, EmptyDataSource} \cup DataSources
        \cup [kind : {"parameters"}, expressions : Seq(inner)]
        \cup [kind : {"report"}, name : Names, expressions : Seq(inner),
              subreport : Inputs \cup {Compiled(in) : in \in Inputs}]

Expressions[n \in 0 .. MaxDepth] == Nested(IF n = 0 THEN {} ELSE Expressions[n - 1])

ASSUME ReportsAssumption ==
    /\ MaxDepth \in Nat /\ Resources \subseteq Inputs
    /\ \A r \in Runs : /\ r.parameters \in Expressions[MaxDepth]
                       /\ r.dataSource \in {EmptyDataSource} \cup DataSources

(* evalList goes on from the list of the first value, and puts each further   *)
(* value in front of it.                                                      *)
\* Mutant of Collected: the values keep their order.
CollectedInOrder(results) ==
    IF \E k \in DOMAIN results : results[k].left
    THEN results[Min({k \in DOMAIN results : results[k].left})]
    ELSE Right([k \in DOMAIN results |-> results[k].value])

Collected(results) ==
    IF \E k \in DOMAIN results : results[k].left
    THEN results[Min({k \in DOMAIN results : results[k].left})]
    ELSE Right(Reverse([k \in DOMAIN results |-> results[k].value]))

(* A sub-report is compiled before its expressions are evaluated.  No case of *)
(* eval takes the empty data source, although runReportT's default is one and *)
(* toDataSource has a case for it.                                            *)
Each(function, expressions) == [k \in DOMAIN expressions |-> function[expressions[k]]]

EvalOf(inner, e) ==
    LET values == Collected(Each(inner, e.expressions))
        report == CompileReport(e.subreport)
    IN  CASE e.kind \in {"empty", "data"} -> Right(e)
          [] e.kind = "emptyDataSource" -> Left(<<"badExpression">>)
          [] e.kind = "parameters" ->
                IF values.left THEN values ELSE Right(Parameters(values.value))
          [] e.kind = "report" ->
                IF report.left THEN report
                ELSE IF values.left THEN values
                ELSE Right(ReportExpression(e.name, report.value, values.value))

Eval[n \in 0 .. MaxDepth] ==
    [e \in Expressions[n] |-> EvalOf(IF n = 0 THEN <<>> ELSE Eval[n - 1], e)]

(* In a Scala map that is made of several, the later ones count.              *)
Joined(maps) ==
    [name \in UNION {DOMAIN maps[k] : k \in DOMAIN maps} |->
        maps[Max({k \in DOMAIN maps : name \in DOMAIN maps[k]})][name]]

ToMapOf(inner, value) ==
    CASE value.kind = "report" ->
            LET inside == Joined(Each(inner, value.expressions))
            IN  [name \in {value.name} \cup DOMAIN inside |->
                    IF name \in DOMAIN inside THEN inside[name] ELSE value.subreport]
      [] value.kind = "parameters" -> Joined(Each(inner, value.expressions))
      [] value.kind = "data" /\ value.name # NoName ->
            [name \in {value.name} |-> value.products]
      [] value.kind = "data" /\ value.name = NoName -> <<>>
      [] value.kind \in {"empty", "emptyDataSource"} -> <<>>

ToMap[n \in 0 .. MaxDepth] ==
    [value \in Expressions[n] |-> ToMapOf(IF n = 0 THEN <<>> ELSE ToMap[n - 1], value)]

-----------------------------------------------------------------------------
ReportsInit ==
    /\ stage = "idle" /\ run = NoRun
    /\ parameters = <<>> /\ source = <<>> /\ rows = <<>>
    /\ index = -1
    /\ error = <<>>

RunReport ==
    /\ stage = "idle"
    /\ run' \in Runs
    /\ stage' = "compile"
    /\ UNCHANGED <<parameters, source, index, rows, error>>

Fail(why) == stage' = "failed" /\ error' = why /\ UNCHANGED <<run, index, rows>>

Compile ==
    /\ stage = "compile"
    /\ LET root == CompileReport(run.in)
       IN  IF root.left
           THEN Fail(root.why)
           ELSE stage' = "parameters" /\ UNCHANGED <<run, index, rows, error>>
    /\ UNCHANGED <<parameters, source>>

EvalParameters ==
    /\ stage = "parameters"
    /\ LET result == Eval[MaxDepth][run.parameters]
       IN  IF result.left
           THEN Fail(result.why) /\ UNCHANGED parameters
           ELSE /\ parameters' = ToMap[MaxDepth][result.value]
                /\ stage' = "dataSource"
                /\ UNCHANGED <<run, index, rows, error>>
    /\ UNCHANGED source

EvalDataSource ==
    /\ stage = "dataSource"
    /\ LET result == Eval[MaxDepth][run.dataSource]
       IN  IF result.left
           THEN Fail(result.why) /\ UNCHANGED source
           ELSE /\ source' = result.value.products
                /\ stage' = "fill"
                /\ UNCHANGED <<run, index, rows, error>>
    /\ UNCHANGED parameters

\* Mutant of NextRow: the source is rewound before each row.
NextRowRewound ==
    /\ stage = "fill"
    /\ index' = 0
    /\ IF source = <<>> \/ index' >= Len(source)
       THEN stage' = "done" /\ UNCHANGED rows
       ELSE rows' = Append(rows, source[index' + 1]) /\ UNCHANGED stage
    /\ UNCHANGED <<run, parameters, source, error>>

(* JasperReports asks for the next row until there is none.                   *)
NextRow ==
    /\ stage = "fill"
    /\ index' = index + 1
    /\ IF source = <<>> \/ index' >= Len(source)
       THEN stage' = "done" /\ UNCHANGED rows
       ELSE rows' = Append(rows, source[index' + 1]) /\ UNCHANGED stage
    /\ UNCHANGED <<run, parameters, source, error>>

(* The format may throw anything, which is caught.                            *)
FormatFails ==
    /\ stage = "fill"
    /\ Fail(<<"format">>)
    /\ UNCHANGED <<parameters, source>>

ReportsNext ==
    \/ RunReport \/ Compile \/ EvalParameters \/ EvalDataSource \/ NextRow \/ FormatFails

ReportsSpec == ReportsInit /\ [][ReportsNext]_reportVars

-----------------------------------------------------------------------------
(* What the properties compare with: the expressions of a run from left to    *)
(* right, an outer one before its inner ones, and after them.                 *)
Inner(e) == IF e.kind \in {"report", "parameters"} THEN e.expressions ELSE <<>>

Before[n \in 0 .. MaxDepth] ==
    [e \in Expressions[n] |->
        <<e>> \o FlattenSeq(Each(IF n = 0 THEN <<>> ELSE Before[n - 1], Inner(e)))]
After[n \in 0 .. MaxDepth] ==
    [e \in Expressions[n] |->
        FlattenSeq(Each(IF n = 0 THEN <<>> ELSE After[n - 1], Inner(e))) \o <<e>>]

Named(e) == e.kind = "report" \/ (e.kind = "data" /\ e.name # NoName)
Meaning(e) == IF e.kind = "report" THEN Compiled(e.subreport) ELSE e.products

Faulty(e) == e.kind = "report" /\ e.subreport \notin Resources
Fault(e)  == <<"notCompiled", e.subreport>>

ReportsTypeOK ==
    /\ stage \in {"idle", "compile", "parameters", "dataSource", "fill", "done", "failed"}
    /\ index \in -1 .. Len(source)
    /\ Len(rows) <= Len(source)

(* A report is filled with all rows, once each and in their order, and with a *)
(* parameter for every name in its expressions: of those with the same name   *)
(* the first one in a list counts, and a sub-report only if nothing inside it *)
(* has its name, however deep the lists are nested that evalList turns round. *)
(* A run fails with the first fault from left to right, an outer one first,   *)
(* or with what the format threw.  Whether an empty data source is evaluated  *)
(* is left open: if it is not, then it counts where it stands                 *)
(* (jasperreports.scala:216-262, datasource.scala:13-20).                     *)
RunIsAsWritten ==
    LET given  == After[MaxDepth][run.parameters]
        asked  == Before[MaxDepth][run.parameters] \o <<run.dataSource>>
        faults == {k \in DOMAIN asked : Faulty(asked[k])}
        places(name) == {k \in DOMAIN given : Named(given[k]) /\ given[k].name = name}
        emptyFirst == \E k \in DOMAIN asked : /\ asked[k].kind = "emptyDataSource"
                                              /\ \A j \in faults : k < j
    IN  /\ stage = "done" =>
              /\ faults = {} /\ run.in \in Resources
              /\ run.dataSource # EmptyDataSource => rows = run.dataSource.products
              /\ \A name \in Names : name \in DOMAIN parameters <=> places(name) # {}
              /\ \A name \in DOMAIN parameters :
                    name \in Names /\ parameters[name] = Meaning(given[Min(places(name))])
        /\ stage = "failed" =>
              IF run.in \notin Resources THEN error = <<"notCompiled", run.in>>
              ELSE \/ error = <<"badExpression">> /\ emptyFirst
                   \/ error = IF faults # {} THEN Fault(asked[Min(faults)]) ELSE <<"format">>

(* A data source is an "Expression that can be ultimately evaluated to        *)
(* ``JRDataSource``" (jasperreports.scala:43), the "Empty data source with no *)
(* rows and no columns" among them (:48), and toDataSource has a case for it  *)
(* (:211): a run with the default arguments (:276-277) does not fail because  *)
(* one of them cannot be evaluated.  It does, as eval has no case for it.     *)
EmptyDataSourceIsEvaluated ==
    stage = "failed" /\ run.parameters = EmptyExpression /\ run.dataSource = EmptyDataSource =>
        error # <<"badExpression">>
=============================================================================
