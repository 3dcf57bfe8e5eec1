------------------------------ MODULE MCServer ------------------------------
(* Small instances of what the server has around recognition and login.  They *)
(* share nothing: each behaviour is one of them at work while the others      *)
(* rest.                                                                      *)
EXTENDS Customers, UserGraph, Reports

CONSTANTS main, sub, broken   \* what reports are loaded from

VARIABLE part

vars == <<part, customerVars, userGraphVars, reportVars>>

-----------------------------------------------------------------------------
(* Customers: a customer that is in the collection and one that is not; a     *)
(* token of the first, and one of the second or of a superuser.               *)
MCKinds == {"t1" :> "c1" @@ "t2" :> kind : kind \in {"c2", "superuser"}}

-----------------------------------------------------------------------------
(* Reports: expressions up to two lists deep, with sources and sub-reports of *)
(* the same name and of different names, and with faults.                     *)
MCSources == {DataSource(<<"p">>, "a"), DataSource(<<"q", "p">>, "a"),
              DataSource(<<>>, "b"), DataSource(<<"p">>, NoName)}
MCLeaves == MCSources \cup {EmptyExpression, EmptyDataSource}
Lists(s) == {<<>>} \cup {<<e>> : e \in s} \cup {<<e, f>> : e, f \in s}
MCNested == {Parameters(l) : l \in Lists(MCSources)}
              \cup {ReportExpression("a", in, <<e>>) : in \in Inputs \ {main}, e \in MCLeaves}
MCRuns ==
    [in : {main}, dataSource : {DataSource(<<"p">>, NoName)},
     parameters : {Parameters(l) : l \in Lists(MCLeaves) \cup Lists(MCNested)}
                     \cup {ReportExpression("b", sub, <<e, f, g>>) :
                              e \in MCSources, f \in MCNested,
                              g \in {EmptyExpression, DataSource(<<"q">>, "b")}}]
    \cup [in : {main, broken}, parameters : MCLeaves,
          dataSource : MCSources \cup {EmptyDataSource, DataSource(<<"p", "q", "p">>, NoName)}]

-----------------------------------------------------------------------------
Init ==
    /\ part \in {"customers", "users", "reports"}
    /\ CustomersInit /\ UserGraphInit /\ ReportsInit

Next ==
    /\ UNCHANGED part
    /\ \/ part = "customers" /\ CustomersNext /\ UNCHANGED <<userGraphVars, reportVars>>
       \/ part = "users" /\ UserGraphNext /\ UNCHANGED <<customerVars, reportVars>>
       \/ part = "reports" /\ ReportsNext /\ UNCHANGED <<customerVars, userGraphVars>>

Spec == Init /\ [][Next]_vars /\ CustomersFairness

TypeOK == CustomersTypeOK /\ UserGraphTypeOK /\ ReportsTypeOK
=============================================================================
