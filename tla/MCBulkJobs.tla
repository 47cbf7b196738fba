----------------------------- MODULE MCBulkJobs -----------------------------
(* Small instances of BulkJobs for TLC. *)
EXTENDS BulkJobs

CONSTANTS j1, j2, s1, s2, u1

\* Both jobs belong to one user.
OneUser(j) == u1

Load(js, ss, batches, faults, restarts, commands, lost) ==
    [jobs |-> js, slots |-> ss, batches |-> batches, faults |-> faults,
     restarts |-> restarts, commands |-> commands, lost |-> lost]

\* A job of two batches with a lost answer, one with two failures, and two jobs
\* of a user with a restart.
MCLoads ==
    {Load({j1}, {s1, s2}, 2, 1, 1, 2, TRUE),
     Load({j1}, {s1, s2}, 2, 2, 1, 2, FALSE),
     Load({j1, j2}, {s1, s2}, 1, 0, 1, 2, TRUE)}

=============================================================================
