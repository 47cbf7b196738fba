--------------------------- MODULE MCConsoleReads ---------------------------
(* A small instance of ConsoleReads for TLC. *)
EXTENDS ConsoleReads

CONSTANTS e1, e2, o1, f1, f2, i1

TwoExecs == {e1, e2}
OneExec == {e1}
OneOther == {o1}
TwoFetchers == {f1, f2}
AllClients == Execs \cup Others
OneIdentity == {i1}
OneStmt == {1}
OwnConsole(e) == e
SameIdentity(e) == i1
ReadLoads == {[execs |-> {e1, e2}, requests |-> {f1}, events |-> 1],
              [execs |-> {e1}, requests |-> {f1, f2}, events |-> 1]}
=============================================================================
