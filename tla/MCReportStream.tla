--------------------------- MODULE MCReportStream ---------------------------
(* Small instances of ReportStream for TLC. *)
EXTENDS ReportStream

CONSTANTS e1, e2, o1, f1, f2, i1

TwoExecs == {e1, e2}
OneExec == {e1}
OneOther == {o1}
TwoFetchers == {f1, f2}
AllClients == Execs \cup Others
OneIdentity == {i1}
OneStmt == {1}
TwoStmts == {1, 2}
OwnConsole(e) == e
SameIdentity(e) == i1
StreamLoads == {[execs |-> {e1}, requests |-> {e1}, events |-> 2],
                [execs |-> {e1, e2}, requests |-> {e1}, events |-> 0],
                [execs |-> {e2}, requests |-> {e1, f1}, events |-> 0]}
=============================================================================
