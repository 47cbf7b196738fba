------------------------ MODULE MCMigrationExecution ------------------------
(* Small instances of MigrationExecution for TLC. *)
EXTENDS MigrationExecution, TLC

CONSTANTS w1, w2, o1, e1, e2, t1, t2, d1, c1, c2

OneWorker == {w1}
TwoWorkers == {w1, w2}
OneOperator == {o1}
Nobody == {}
OneExec == {e1}
TwoExecs == {e1, e2}
TwoXids == {t1, t2}
NoDrift == {}
OneDrift == {d1}
OneContent == {c1}
TwoContents == {c1, c2}
Conversions == {e2}

Budget(f, s, a, e) ==
    [b \in Bounds |-> CASE b = "faults" -> f [] b = "stalls" -> s
                        [] b = "asks" -> a [] b = "edits" -> e]

\* One crash, lost answer or outage around an operator's reconciliation, or
\* two with the workers alone; a lease expires under a live worker in both.
CrashBudgets == {Budget(1, 1, 1, 0), Budget(2, 1, 0, 0)}
EditBudgets == {Budget(1, 0, 0, 1)}

=============================================================================
