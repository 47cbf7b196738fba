--------------------------- MODULE MCRawSessions ----------------------------
(* Small instances of RawSessions. *)
EXTENDS RawSessions, TLC

CONSTANTS s1, s2, r1, r2, r3

MCOwner == [s \in Sessions |-> "u"]
MCConsole == [s \in Sessions |-> IF s = s1 THEN "a" ELSE "b"]

W == <<"write">>
WC == <<"write", "commit">>
Run(mode, script, review) == [kind |-> "run", mode |-> mode, script |-> script, review |-> review]
Copy(kind, mode) == [kind |-> kind, mode |-> mode, script |-> W, review |-> FALSE]

Load(sessions, a, b, c, n) ==
    [sessions |-> sessions, tasks |-> (r1 :> a @@ r2 :> b @@ r3 :> c), events |-> n]

\* Two writers and a reviewed COMMIT; a whole run among manual ones; transfers;
\* and two sessions under the limit of one, with a shutdown.
MCLoads ==
    {Load({s1}, {Run("manual", W, FALSE)}, {Run("manual", W, FALSE)},
          {Run("manual", <<"commit">>, TRUE)}, 1),
     Load({s1}, {Run("whole", <<"write", "write">>, FALSE)}, {Run("manual", WC, FALSE)}, {}, 2),
     Load({s1}, {Copy("upload", "manual"), Copy("download", "whole")},
          {Run("manual", W, FALSE), Run("each", W, FALSE)}, {}, 2),
     Load({s1, s2}, {Run("manual", W, FALSE)}, {}, {}, 2)}

\* A whole run and a manual one.
MCRefusedLoads ==
    {Load({s1}, {Run("whole", W, FALSE)}, {Run("manual", W, FALSE)}, {}, 0)}
=============================================================================
