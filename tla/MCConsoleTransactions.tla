----------------------- MODULE MCConsoleTransactions ------------------------
(* Small instances of ConsoleTransactions for TLC. *)
EXTENDS ConsoleTransactions

CONSTANTS t1, t2, x1, x2, c1, c2, p1

TwoTxs == {t1, t2}
TwoRuns == {x1, x2}
TwoFinishers == {c1, c2}
OnePoller == {p1}
AllLoads == [requests : {{t1, x1, c1}, {t1, t2, c1}, {t1, c1, c2}, {t1, x1, p1}}, events : {2}]
            \cup [requests : {{t1, x1, c1, c2}, {t1, t2, x1, c1}, {t1, x1, c1, p1}}, events : {0}]
            \cup [requests : {{t1, t2, c1, p1}}, events : {1}]
OneLoad == [requests : {{t1, x1, c1}}, events : {0}]
=============================================================================
