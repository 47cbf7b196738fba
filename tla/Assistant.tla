----------------------------- MODULE Assistant -----------------------------
(***************************************************************************)
(* One conversation of the workspace assistant                             *)
(* (src/schemii/schemii/ai/service.py, read_workflow.py and routes.py over *)
(* PostgresAiRepository): messages start turns, a background task runs a   *)
(* turn, its tools save proposals, a proposal is executed at once or waits *)
(* for approval, and the decisions of the user resume the turn.            *)
(*                                                                         *)
(* Actors are threads: background tasks and requests. Their repository     *)
(* calls are the steps; what they read in between stays in the actor.      *)
(* A proposal leaves its first revision exactly when it leaves pending, so *)
(* its revision and digest add nothing to its status and are left out.     *)
(* Turns and proposals are numbered in the order they are created.         *)
(***************************************************************************)
EXTENDS Naturals, Sequences, FiniteSets

CONSTANTS
    Tasks,               \* bound: background tasks alive at one time
    Requests,            \* bound: requests alive at one time
    MaxTurns,            \* bound: turns of the conversation
    MaxProposals,        \* bound: proposals of the conversation
    MaxRounds,           \* maximum_tool_rounds
    Budgets              \* bound: how often each of the Bounds may happen

Turns == 1..MaxTurns
Proposals == 1..MaxProposals
Actors == Tasks \cup Requests

\* "turn" and "proposal" bound what is created and "request" the requests at one
\* time; "revise" changes the chat's revision, "edit" the design outside the
\* chat, "fault" is a call that fails, loses its answer or comes after a
\* deadline, "full" the capacity taken by other conversations.
Bounds == {"turn", "proposal", "request", "batch", "revise", "edit", "fault",
           "full", "delete", "restart"}

Policies == {"ask", "auto"}
Kinds == {"design", "action"}

ASSUME AssistantAssumption ==
    /\ Tasks \cap Requests = {}
    /\ MaxTurns \in Nat /\ MaxProposals \in Nat /\ MaxRounds \in Nat
    /\ Budgets \subseteq [Bounds -> Nat]

VARIABLES
    chat,                \* the ai_chats row
    turn,                \* ai_turns, each with its ai_turn_continuations row
    prop,                \* ai_proposals
    op,                  \* ai_operations: the status of each proposal's operation
    applied,             \* how often the effect of a proposal happened
    design,              \* the design revision of the workspace
    full,                \* other conversations hold every slot for turns
    act,                 \* the actors
    left                 \* what remains of the budget

vars == <<chat, turn, prop, op, applied, design, full, act, left>>

Active == {"queued", "running", "waiting"}
Unresolved == {"pending", "executing"}

NoTurn == [status |-> "none", saved |-> FALSE, pending |-> {}, rounds |-> 0]
NoProposal == [status |-> "none", turn |-> 0, kind |-> "design", design |-> 0]

\* pend, rounds and grouped (the reply's design changes were saved as one) are
\* locals of run_read_workflow, want is the design revision that execute
\* expects, items the rest of an approved batch.
Idle == [pc |-> "idle", turn |-> 0, rev |-> 0, pol |-> "ask", pend |-> {},
         rounds |-> 0, grouped |-> FALSE, p |-> 0, want |-> 0, items |-> <<>>]

Init ==
    /\ chat \in [status : {"idle"}, rev : {1}, pol : Policies]
    /\ turn = [t \in Turns |-> NoTurn]
    /\ prop = [p \in Proposals |-> NoProposal]
    /\ op = [p \in Proposals |-> "none"]
    /\ applied = [p \in Proposals |-> 0]
    /\ design = 1
    /\ full = FALSE
    /\ act = [a \in Actors |-> Idle]
    /\ left \in Budgets

Spend(b) ==
    /\ left[b] > 0
    /\ left' = [left EXCEPT ![b] = @ - 1]

Goto(a, pc) == act' = [act EXCEPT ![a].pc = pc]
Exit(a) == act' = [act EXCEPT ![a] = Idle]

Free(S) == {a \in S : act[a] = Idle}

\* add_task: run_turn in a free thread.
Dispatch(t, others) ==
    /\ Free(Tasks) # {}
    /\ LET k == CHOOSE k \in Free(Tasks) : TRUE IN
       act' = [others EXCEPT ![k] = [Idle EXCEPT !.pc = "start", !.turn = t]]

Dismissed(S) ==
    [p \in Proposals |-> IF p \in S /\ prop[p].status = "pending"
                         THEN [prop[p] EXCEPT !.status = "dismissed"] ELSE prop[p]]

SetTurn(t, status) == turn' = [turn EXCEPT ![t].status = status]
SetChat(status) == chat' = [chat EXCEPT !.status = status]

-----------------------------------------------------------------------------
(* A turn *)

\* create_turn: capacity and a turn in progress refuse the message.
CreateTurn(t) ==
    /\ chat.status \notin {"deleted", "waiting"}
    /\ ~full
    /\ \A u \in Turns : turn[u].status \notin Active
    /\ SetTurn(t, "queued")
    /\ SetChat("working")

Send(t) ==
    /\ turn[t].status = "none" /\ \A u \in Turns : u < t => turn[u].status # "none"
    /\ CreateTurn(t)
    /\ Dispatch(t, act)
    /\ Spend("turn")
    /\ UNCHANGED <<prop, op, applied, design, full>>

\* What a resumed turn still has to wait for.
Open(t) == {p \in turn[t].pending : prop[p].status \in Unresolved}

\* run_turn, claim_turn and the reads before the workflow: only a queued turn is
\* run, with the policy of this moment. A turn resumed while a proposal it waits
\* for is still open pauses again.
Claim(a) ==
    LET t == act[a].turn
        open == Open(t) IN
    /\ act[a].pc = "start"
    /\ IF turn[t].status = "queued"
       THEN /\ SetTurn(t, "running")
            /\ act' = [act EXCEPT ![a] =
                 [@ EXCEPT !.pc = IF open # {} THEN "pause" ELSE "model",
                           !.rev = chat.rev, !.pol = chat.pol,
                           !.pend = open, !.rounds = turn[t].rounds]]
       ELSE Exit(a) /\ UNCHANGED turn
    /\ UNCHANGED <<chat, prop, op, applied, design, full, left>>

\* is_authorized of _run_turn.
Authorized(a) ==
    /\ chat.status = "working" /\ chat.rev = act[a].rev
    /\ turn[act[a].turn].status = "running"

\* The provider, a context or tool limit, or the deadline ends the workflow.
WorkflowFails(a) ==
    /\ act[a].pc \in {"model", "tools"}
    /\ Goto(a, "fail")
    /\ UNCHANGED <<chat, turn, prop, op, applied, design, full, left>>

\* The provider's reply: an answer, or tool calls while rounds are left.
Reply(a) ==
    /\ act[a].pc = "model"
    /\ \/ ~Authorized(a) /\ Goto(a, "fail")
       \/ Authorized(a) /\ Goto(a, "answer")
       \/ /\ Authorized(a) /\ act[a].rounds < MaxRounds
          /\ act' = [act EXCEPT ![a].pc = "tools", ![a].rounds = @ + 1,
                                ![a].grouped = FALSE]
    /\ UNCHANGED <<chat, turn, prop, op, applied, design, full, left>>

\* Where a saved proposal p leads its task: to its execution or to approval.
Saved(a, p, k) ==
    LET saved == [act[a] EXCEPT !.grouped = @ \/ k = "design"] IN
    [act EXCEPT ![a] =
        IF act[a].pol = "auto"
        THEN [saved EXCEPT !.pc = "review", !.p = p, !.want = design]
        ELSE [saved EXCEPT !.pend = @ \cup {p}]]

\* create_proposal.
Created(p, t, k) ==
    [prop EXCEPT ![p] = [status |-> "pending", turn |-> t, kind |-> k, design |-> design]]

\* _save_tool_proposal for a call of the reply.
Propose(a, p, k) ==
    /\ act[a].pc = "tools" /\ Authorized(a)
    /\ k = "design" => ~act[a].grouped
    /\ prop[p].status = "none" /\ \A q \in Proposals : q < p => prop[q].status # "none"
    /\ prop' = Created(p, act[a].turn, k)
    /\ act' = Saved(a, p, k)
    /\ Spend("proposal")
    /\ UNCHANGED <<chat, turn, op, applied, design, full>>

\* The same design change is still pending, from this turn or an earlier one:
\* _save_tool_proposal returns that proposal.
ProposeAgain(a, p) ==
    /\ act[a].pc = "tools" /\ Authorized(a) /\ ~act[a].grouped
    /\ prop[p].status = "pending" /\ prop[p].kind = "design" /\ prop[p].design = design
    /\ act' = Saved(a, p, "design")
    /\ UNCHANGED <<chat, turn, prop, op, applied, design, full, left>>

\* The calls of the reply are done.
EndCalls(a) ==
    /\ act[a].pc = "tools"
    /\ Goto(a, IF act[a].pend # {} THEN "pause" ELSE "model")
    /\ UNCHANGED <<chat, turn, prop, op, applied, design, full, left>>

\* pause: save_continuation ...
SaveContinuation(a) ==
    /\ act[a].pc = "pause"
    /\ IF Authorized(a)
       THEN /\ turn' = [turn EXCEPT ![act[a].turn].saved = TRUE,
                                    ![act[a].turn].pending = act[a].pend,
                                    ![act[a].turn].rounds = act[a].rounds]
            /\ Goto(a, "park")
       ELSE Goto(a, "fail") /\ UNCHANGED turn
    /\ UNCHANGED <<chat, prop, op, applied, design, full, left>>

\* ... then pause_turn.
PauseTurn(a) ==
    /\ act[a].pc = "park"
    /\ IF turn[act[a].turn].status = "running"
       THEN SetTurn(act[a].turn, "waiting") /\ SetChat("waiting") /\ Goto(a, "parked")
       ELSE Goto(a, "fail") /\ UNCHANGED <<chat, turn>>
    /\ UNCHANGED <<prop, op, applied, design, full, left>>

\* The event after pause_turn; its failure is handled as that of the turn.
Parked(a) ==
    /\ act[a].pc = "parked"
    /\ \/ Exit(a) /\ UNCHANGED left
       \/ Spend("fault") /\ Goto(a, "fail")
    /\ UNCHANGED <<chat, turn, prop, op, applied, design, full>>

StoreAnswer(t) == SetTurn(t, "succeeded") /\ SetChat("idle")

\* finish_turn, after the turn was read again.
FinishTurn(a) ==
    /\ act[a].pc = "answer"
    /\ IF turn[act[a].turn].status = "running"
       THEN StoreAnswer(act[a].turn) /\ Exit(a)
       ELSE Goto(a, "fail") /\ UNCHANGED <<chat, turn>>
    /\ UNCHANGED <<prop, op, applied, design, full, left>>

\* fail_turn: a turn that was cancelled or ended is left alone.
StoreFailure(t) ==
    IF turn[t].status \in {"queued", "running"}
    THEN SetTurn(t, "failed") /\ SetChat("failed")
    ELSE UNCHANGED <<chat, turn>>

\* The handler of _run_turn.
FailTurn(a) ==
    /\ act[a].pc = "fail"
    /\ StoreFailure(act[a].turn)
    /\ Exit(a)
    /\ UNCHANGED <<prop, op, applied, design, full, left>>

-----------------------------------------------------------------------------
(* execute: of a task under the automatic policy, of a request after approval *)

\* A task whose call ended checks its authority, a request goes on to _resume.
Ended(a) ==
    [act EXCEPT ![a] =
        IF a \in Requests THEN [Idle EXCEPT !.pc = "ready"]
        ELSE [@ EXCEPT !.pc = IF Authorized(a) THEN "tools" ELSE "fail",
                       !.p = 0, !.want = 0]]

\* The operation succeeded; a batch goes on with its next item.
Completed(a, want) ==
    IF act[a].items = <<>> THEN Ended(a)
    ELSE [act EXCEPT ![a].pc = "review", ![a].p = Head(act[a].items),
                     ![a].items = Tail(@), ![a].want = want]

\* _query_authorized, and the scope that execute enters.
QueryAuthorized(a) ==
    /\ chat.status # "deleted" /\ chat.rev = act[a].rev
    /\ turn[prop[act[a].p].turn].status # "cancelled"

\* execute and the checks of _execute: policy, cancellation, design.
Review(a) ==
    /\ act[a].pc = "review"
    /\ IF QueryAuthorized(a) /\ design = act[a].want
       THEN Goto(a, "begin") ELSE act' = Ended(a)
    /\ UNCHANGED <<chat, turn, prop, op, applied, design, full, left>>

\* Mutant: the status of the proposal is not checked.
BeginOperationAgain(a) ==
    LET p == act[a].p IN
    /\ act[a].pc = "begin"
    /\ IF chat.status # "deleted" /\ chat.rev = act[a].rev
       THEN /\ prop' = [prop EXCEPT ![p].status = "executing"]
            /\ op' = [op EXCEPT ![p] = "running"]
            /\ Goto(a, IF prop[p].kind = "action" THEN "authorize" ELSE "effect")
       ELSE act' = Ended(a) /\ UNCHANGED <<prop, op>>
    /\ UNCHANGED <<chat, turn, applied, design, full, left>>

\* begin_operation: one transaction that claims the proposal.
BeginOperation(a) ==
    LET p == act[a].p IN
    /\ act[a].pc = "begin"
    /\ IF /\ chat.status # "deleted" /\ chat.rev = act[a].rev
          /\ prop[p].status = "pending"
       THEN /\ prop' = [prop EXCEPT ![p].status = "executing"]
            /\ op' = [op EXCEPT ![p] = "running"]
            /\ Goto(a, IF prop[p].kind = "action" THEN "authorize" ELSE "effect")
       ELSE act' = Ended(a) /\ UNCHANGED <<prop, op>>
    /\ UNCHANGED <<chat, turn, applied, design, full, left>>

\* The last check before an application action or the commit of a SQL batch.
Authorize(a) ==
    /\ act[a].pc = "authorize"
    /\ Goto(a, IF QueryAuthorized(a) THEN "effect" ELSE "failed")
    /\ UNCHANGED <<chat, turn, prop, op, applied, design, full, left>>

\* The effect happens and is reported, or (a fault) is not reported.
Perform(a) ==
    LET p == act[a].p
        fenced == prop[p].kind = "design" IN
    /\ act[a].pc = "effect"
    /\ fenced => design = act[a].want
    /\ applied' = [applied EXCEPT ![p] = @ + 1]
    /\ design' = IF fenced THEN design + 1 ELSE design
    /\ \/ /\ act' = [act EXCEPT ![a].pc = "done",
                                ![a].want = IF fenced THEN design' ELSE @]
          /\ UNCHANGED left
       \/ Spend("fault") /\ Goto(a, "failed")
    /\ UNCHANGED <<chat, turn, prop, op, full>>

\* designs.replace refuses another revision; any action may be refused.
PerformFails(a) ==
    /\ act[a].pc = "effect"
    /\ prop[act[a].p].kind = "design" => design # act[a].want
    /\ Goto(a, "failed")
    /\ UNCHANGED <<chat, turn, prop, op, applied, design, full, left>>

\* finish_operation updates the operation and its proposal, if they exist.
Finished(p, status) ==
    IF chat.status = "deleted" THEN UNCHANGED <<prop, op>>
    ELSE /\ op' = [op EXCEPT ![p] = status]
         /\ prop' = [prop EXCEPT ![p].status = status]

RecordSuccess(a) ==
    /\ act[a].pc = "done"
    /\ \/ /\ chat.status # "deleted"
          /\ Finished(act[a].p, "succeeded")
          /\ act' = Completed(a, act[a].want)
          /\ UNCHANGED left
       \/ /\ IF chat.status = "deleted" THEN UNCHANGED left ELSE Spend("fault")
          /\ Goto(a, "failed")
          /\ UNCHANGED <<prop, op>>
    /\ UNCHANGED <<chat, turn, applied, design, full>>

\* The handler of any exception after begin_operation.
RecordFailure(a) ==
    /\ act[a].pc = "failed"
    /\ act' = Ended(a)
    /\ \/ Finished(act[a].p, "failed") /\ UNCHANGED left
       \/ Spend("fault") /\ UNCHANGED <<prop, op>>
    /\ UNCHANGED <<chat, turn, applied, design, full>>

-----------------------------------------------------------------------------
(* Requests *)

\* A request of the user is handled in a free thread.
Arrives(r) ==
    /\ Cardinality(Requests \ Free(Requests)) < left["request"]
    /\ Free(Requests) # {} /\ r = CHOOSE f \in Free(Requests) : TRUE

\* Approval of one proposal, as it and the chat were shown.
Approve(r, p) ==
    /\ Arrives(r)
    /\ chat.status # "deleted" /\ prop[p].status = "pending"
    /\ act' = [act EXCEPT ![r] = [Idle EXCEPT !.pc = "review", !.rev = chat.rev,
                                              !.p = p, !.want = prop[p].design]]
    /\ UNCHANGED <<chat, turn, prop, op, applied, design, full, left>>

\* One approval of two proposals, executed in this order.
ApproveBatch(r, p, q) ==
    /\ Arrives(r) /\ p # q /\ Spend("batch")
    /\ chat.status # "deleted"
    /\ prop[p].status = "pending" /\ prop[q].status = "pending"
    /\ act' = [act EXCEPT ![r] = [Idle EXCEPT !.pc = "batch", !.rev = chat.rev,
                                              !.items = <<p, q>>]]
    /\ UNCHANGED <<chat, turn, prop, op, applied, design, full>>

\* execute_batch checks every item before it executes the first.
CheckBatch(r) ==
    LET items == act[r].items IN
    /\ act[r].pc = "batch"
    /\ act' = IF /\ chat.status # "deleted" /\ chat.rev = act[r].rev
                 /\ \A i \in DOMAIN items : /\ prop[items[i]].status = "pending"
                                            /\ prop[items[i]].design = design
              THEN Completed(r, design) ELSE Ended(r)
    /\ UNCHANGED <<chat, turn, prop, op, applied, design, full, left>>

Dismiss(r, p) ==
    /\ Arrives(r)
    /\ prop[p].status = "pending"
    /\ prop' = Dismissed({p})
    /\ act' = [act EXCEPT ![r].pc = "ready"]
    /\ UNCHANGED <<chat, turn, op, applied, design, full, left>>

\* The Continue button.
Continue(r) ==
    /\ Arrives(r)
    /\ chat.status = "waiting"
    /\ act' = [act EXCEPT ![r].pc = "ready"]
    /\ UNCHANGED <<chat, turn, prop, op, applied, design, full, left>>

\* update_chat_policy, and save_preferences with another policy.
UpdatePolicy(r, pol) ==
    /\ Arrives(r)
    /\ chat.status # "deleted" /\ pol # chat.pol
    /\ Spend("revise")
    /\ chat' = [chat EXCEPT !.rev = @ + 1, !.pol = pol]
    /\ prop' = Dismissed(Proposals)
    /\ act' = [act EXCEPT ![r].pc = "ready"]
    /\ UNCHANGED <<turn, op, applied, design, full>>

\* save_preferences with another model, refused while a response is at work.
UpdateModel(r) ==
    /\ Arrives(r)
    /\ chat.status \notin {"deleted", "working"}
    /\ Spend("revise")
    /\ chat' = [chat EXCEPT !.rev = @ + 1]
    /\ act' = [act EXCEPT ![r].pc = "ready"]
    /\ UNCHANGED <<turn, prop, op, applied, design, full>>

\* update_chat: the title.
Rename ==
    /\ chat.status # "deleted"
    /\ Spend("revise")
    /\ chat' = [chat EXCEPT !.rev = @ + 1]
    /\ UNCHANGED <<turn, prop, op, applied, design, full, act>>

\* ready_continuation takes the turn of the newest proposal whose turn has a
\* continuation.
Resumable ==
    {p \in Proposals : /\ prop[p].status # "none" /\ turn[prop[p].turn].saved
                       /\ \A q \in Proposals :
                            q > p /\ prop[q].status # "none" => ~turn[prop[q].turn].saved}

Ready(r) ==
    /\ act[r].pc = "ready"
    /\ IF chat.status = "waiting"
       THEN \/ /\ Resumable = {}
               /\ Exit(r)
            \/ \E p \in Resumable :
                 LET t == prop[p].turn IN
                 act' = [act EXCEPT ![r] =
                   IF \E q \in turn[t].pending : prop[q].status \in Unresolved
                   THEN Idle ELSE [Idle EXCEPT !.pc = "resume", !.turn = t]]
       ELSE Exit(r)
    /\ UNCHANGED <<chat, turn, prop, op, applied, design, full, left>>

\* Mutant: the task is not dispatched.
ResumeTurnUndispatched(r) ==
    /\ act[r].pc = "resume"
    /\ IF turn[act[r].turn].status = "waiting" /\ ~full
       THEN SetTurn(act[r].turn, "queued") /\ SetChat("working")
       ELSE UNCHANGED <<chat, turn>>
    /\ Exit(r)
    /\ UNCHANGED <<prop, op, applied, design, full, left>>

\* resume_turn, and the background task.
ResumeTurn(r) ==
    LET t == act[r].turn IN
    /\ act[r].pc = "resume"
    /\ IF /\ turn[t].status = "waiting"
          /\ \A u \in Turns \ {t} : turn[u].status \notin Active
          /\ ~full
       THEN /\ SetTurn(t, "queued")
            /\ SetChat("working")
            /\ Dispatch(t, [act EXCEPT ![r] = Idle])
       ELSE Exit(r) /\ UNCHANGED <<chat, turn>>
    /\ UNCHANGED <<prop, op, applied, design, full, left>>

\* Mutant: the chat keeps its status.
CancelTurnKeepsChat(t) ==
    /\ turn[t].status \in Active
    /\ SetTurn(t, "cancelled")
    /\ prop' = Dismissed({p \in Proposals : prop[p].turn = t})
    /\ UNCHANGED <<chat, op, applied, design, full, act, left>>

\* Mutant: the proposals of the turn stay pending.
CancelTurnKeepsProposals(t) ==
    /\ turn[t].status \in Active
    /\ SetTurn(t, "cancelled")
    /\ SetChat("idle")
    /\ UNCHANGED <<prop, op, applied, design, full, act, left>>

\* cancel_turn; the signals to the provider and to a running query only make
\* what may fail anyway fail sooner.
CancelTurn(t) ==
    /\ turn[t].status \in Active
    /\ SetTurn(t, "cancelled")
    /\ prop' = Dismissed({p \in Proposals : prop[p].turn = t})
    /\ SetChat("idle")
    /\ UNCHANGED <<op, applied, design, full, act, left>>

\* delete_chat: the rows go with the chat.
DeleteChat ==
    /\ chat.status # "deleted" /\ Spend("delete")
    /\ SetChat("deleted")
    /\ turn' = [t \in Turns |-> [turn[t] EXCEPT !.status = "gone"]]
    /\ prop' = [p \in Proposals |-> [prop[p] EXCEPT !.status = "gone"]]
    /\ op' = [p \in Proposals |-> "gone"]
    /\ UNCHANGED <<applied, design, full, act>>

-----------------------------------------------------------------------------
(* The clock, other users and the process *)

\* list_proposals, which every ready_continuation calls, marks what expired.
Expire(p) ==
    /\ prop[p].status = "pending" /\ Spend("fault")
    /\ prop' = [prop EXCEPT ![p].status = "expired"]
    /\ UNCHANGED <<chat, turn, op, applied, design, full, act>>

EditDesign ==
    /\ Spend("edit")
    /\ design' = design + 1
    /\ UNCHANGED <<chat, turn, prop, op, applied, full, act>>

FillCapacity ==
    /\ ~full /\ Spend("full")
    /\ full' = TRUE
    /\ UNCHANGED <<chat, turn, prop, op, applied, design, act>>

FreeCapacity ==
    /\ full
    /\ full' = FALSE
    /\ UNCHANGED <<chat, turn, prop, op, applied, design, act, left>>

\* The process ends with its threads; recover_interrupted runs at the start.
Restart ==
    /\ Spend("restart")
    /\ act' = [a \in Actors |-> Idle]
    /\ turn' = [t \in Turns |-> IF turn[t].status \in {"queued", "running"}
                                THEN [turn[t] EXCEPT !.status = "failed"] ELSE turn[t]]
    /\ op' = [p \in Proposals |-> IF op[p] = "running" THEN "uncertain" ELSE op[p]]
    /\ prop' = [p \in Proposals |-> IF prop[p].status = "executing"
                                    THEN [prop[p] EXCEPT !.status = "failed"] ELSE prop[p]]
    /\ chat' = IF chat.status = "working" THEN [chat EXCEPT !.status = "failed"] ELSE chat
    /\ UNCHANGED <<applied, design, full>>

-----------------------------------------------------------------------------
Execute(a) ==
    \/ Review(a) \/ BeginOperation(a) \/ Authorize(a) \/ Perform(a)
    \/ PerformFails(a) \/ RecordSuccess(a) \/ RecordFailure(a)

RunTurn(a) ==
    \/ Claim(a) \/ WorkflowFails(a) \/ Reply(a) \/ EndCalls(a)
    \/ \E p \in Proposals : ProposeAgain(a, p) \/ \E k \in Kinds : Propose(a, p, k)
    \/ SaveContinuation(a) \/ PauseTurn(a) \/ Parked(a)
    \/ FinishTurn(a) \/ FailTurn(a)

Handle(r) == CheckBatch(r) \/ Ready(r) \/ ResumeTurn(r)

User(r) ==
    \/ \E p \in Proposals :
         Approve(r, p) \/ Dismiss(r, p) \/ \E q \in Proposals : ApproveBatch(r, p, q)
    \/ Continue(r) \/ UpdateModel(r) \/ \E pol \in Policies : UpdatePolicy(r, pol)

Next ==
    \/ \E a \in Tasks : RunTurn(a)
    \/ \E a \in Actors : Execute(a)
    \/ \E r \in Requests : Handle(r) \/ User(r)
    \/ \E t \in Turns : Send(t) \/ CancelTurn(t)
    \/ \E p \in Proposals : Expire(p)
    \/ Rename \/ DeleteChat \/ EditDesign \/ FillCapacity \/ FreeCapacity \/ Restart

Spec == Init /\ [][Next]_vars

\* Threads that were started go on (every provider call and statement has a
\* deadline), other conversations end, and the user presses Continue while the
\* conversation waits.
FairSpec ==
    /\ Spec
    /\ \A a \in Tasks : WF_vars(RunTurn(a) \/ Execute(a))
    /\ \A r \in Requests : WF_vars(Handle(r) \/ Execute(r))
    /\ WF_vars(FreeCapacity)
    /\ WF_vars(\E r \in Requests : Continue(r))

-----------------------------------------------------------------------------
(* Properties *)

TurnStatus == Active \cup {"none", "succeeded", "failed", "cancelled", "gone"}
ProposalStatus == Unresolved \cup
    {"none", "succeeded", "failed", "dismissed", "expired", "gone"}
OperationStatus == {"none", "running", "succeeded", "failed", "uncertain", "gone"}
ActorSteps == {"idle", "start", "model", "tools", "pause", "park", "parked",
               "answer", "fail", "review", "begin", "authorize", "effect",
               "done", "failed", "batch", "ready", "resume"}

ChatRow == [status : {"idle", "working", "waiting", "failed", "deleted"},
            rev : Nat, pol : Policies]
TurnRow == [status : TurnStatus, saved : BOOLEAN, pending : SUBSET Proposals,
            rounds : 0..MaxRounds]
ProposalRow == [status : ProposalStatus, turn : {0} \cup Turns, kind : Kinds,
                design : Nat]
Actor == [pc : ActorSteps, turn : {0} \cup Turns, rev : Nat, pol : Policies,
          pend : SUBSET Proposals, rounds : 0..MaxRounds, grouped : BOOLEAN,
          p : {0} \cup Proposals, want : Nat, items : Seq(Proposals)]

TypeOK ==
    /\ chat \in ChatRow
    /\ turn \in [Turns -> TurnRow]
    /\ prop \in [Proposals -> ProposalRow]
    /\ op \in [Proposals -> OperationStatus]
    /\ applied \in [Proposals -> Nat]
    /\ design \in Nat
    /\ full \in BOOLEAN
    /\ act \in [Actors -> Actor]
    /\ left \in [Bounds -> Nat]

\* The status of the conversation is that of its one turn in progress, which
\* decides whether messages, approvals and Continue are accepted, and a turn in
\* progress has a thread: no interleaving of stop, approval, resume, failure and
\* restart leaves a conversation that works on nothing.
ChatAgrees ==
    LET in(S) == {t \in Turns : turn[t].status \in S} IN
    /\ TypeOK
    /\ Cardinality(in(Active)) <= 1
    /\ (chat.status = "working") <=> in({"queued", "running"}) # {}
    /\ (chat.status = "waiting") <=> in({"waiting"}) # {}
    /\ \A t \in in({"queued", "running"}) :
         Cardinality({a \in Tasks : /\ act[a].turn = t
                                    /\ act[a].pc \notin {"parked", "fail"}}) <= 1
    /\ \A t \in in({"queued", "running"}) : \E a \in Tasks : act[a].turn = t

\* Whatever is approved twice, dismissed, stopped or interrupted meanwhile, the
\* effect of a proposal happens at most once, a proposal that was not executed
\* has none, and one recorded as succeeded has one.
AppliedOnce ==
    \A p \in Proposals :
        /\ applied[p] <= 1
        /\ prop[p].status \in {"none", "pending", "dismissed", "expired"} => applied[p] = 0
        /\ prop[p].status = "succeeded" => applied[p] = 1

KeepsDecisions ==
    /\ \A p \in Proposals :
         /\ op[p] # op'[p] /\ op'[p] = "running" => turn[prop[p].turn].status # "cancelled"
         /\ prop[p].status \notin Unresolved \cup {"none"} =>
              prop'[p].status \in {prop[p].status, "gone"}
         /\ op[p] \notin {"none", "running"} => op'[p] \in {op[p], "gone"}
    /\ \A t \in Turns :
         turn[t].status \notin Active \cup {"none"} =>
           turn'[t].status \in {turn[t].status, "gone"}

\* No operation begins for a turn that was stopped, and what was decided stays
\* decided: ended turns, resolved proposals and ended operations keep their
\* status until the conversation is deleted.
DecisionsHold == [][KeepsDecisions]_vars

\* Every action that the turn waits for was executed, dismissed or expired.
Decided(t) ==
    turn[t].status = "waiting" /\ \A p \in turn[t].pending : prop[p].status \notin Unresolved

\* The turn is at work, or it waits for proposals of its own that are decided.
Due(t) ==
    \/ turn[t].status \in {"queued", "running"}
    \/ Decided(t) /\ \E p \in turn[t].pending : prop[p].turn = t

\* Every turn that is started or resumed ends or comes to wait for a decision,
\* and decisions about its own proposals bring it back to work, whatever else
\* the user, the provider and the other conversations do.
TurnsSettle == \A t \in Turns : Due(t) ~> ~Due(t)

\* Deciding every action a turn waits for resumes it.
DecidingResumes == \A t \in Turns : Decided(t) ~> ~Decided(t)
=============================================================================
