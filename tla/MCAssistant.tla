---------------------------- MODULE MCAssistant ----------------------------
(* Small instances of Assistant for TLC. *)
EXTENDS Assistant

CONSTANTS k1, k2, r1, r2

TwoTasks == {k1, k2}
TwoRequests == {r1, r2}

Budget(turns, proposals, requests, S) ==
    [b \in Bounds |-> CASE b = "turn" -> turns [] b = "proposal" -> proposals
                        [] b = "request" -> requests
                        [] OTHER -> IF b \in S THEN 1 ELSE 0]

AssistantBudgets ==
    {Budget(1, 2, 1, {"batch"}), Budget(1, 1, 2, {"fault"}),
     Budget(1, 1, 2, {"delete"}), Budget(1, 1, 2, {"revise"}),
     Budget(1, 1, 1, {"full", "edit"}), Budget(2, 1, 1, {"restart"})}
TwoTurnBudgets == {Budget(2, 1, 1, {})}
=============================================================================
