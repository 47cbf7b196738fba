------------------------- MODULE MigrationExecution -------------------------
(***************************************************************************)
(* The durable migration queue of one Schemii workspace: plans reviewed    *)
(* against a live PostgreSQL catalog, executions claimed by leased workers *)
(* that fence every metadata write with a revision, one target transaction *)
(* per attempt, recovery from pg_xact_status, manual reconciliation, and   *)
(* the post-commit synchronization of the design and the baseline head.    *)
(*                                                                         *)
(* A catalog is the set of changes applied to the namespace so far: the    *)
(* executions that committed and the external changes.  An authored design *)
(* is its revision and its content fingerprint.  One plan has at most one  *)
(* execution (plan_id is UNIQUE), so an element of Execs names both.       *)
(***************************************************************************)
EXTENDS Integers, FiniteSets

CONSTANTS
    Workers,        \* migration worker processes
    Operators,      \* concurrent manual-reconciliation requests
    Execs,          \* plan / execution identifiers
    Xids,           \* target transaction identifiers (bound on attempts)
    Drifts,         \* changes made to the namespace outside Schemii
    Contents,       \* authored design contents
    InitContent,    \* the imported content
    FreshSnapshots, \* plans with column conversions: READ COMMITTED
    None,           \* SQL NULL
    Budgets         \* bound: how many crashes, lost answers and unavailable
                    \* services (faults), leases that expire under a live worker
                    \* (stalls), manual reconciliation requests (asks) and user
                    \* edits of the design (edits) a behaviour may have

ASSUME ConstantsAssumption ==
    /\ Workers \cap Operators = {}
    /\ Execs \cap Drifts = {}
    /\ InitContent \in Contents
    /\ FreshSnapshots \subseteq Execs
    /\ None \notin Workers \cup Operators \cup Execs \cup Xids
    /\ None \notin {"rolled_back", "uncertain", "committed", "pending",
                    "failed", "conflict", "succeeded"}
    /\ Budgets \subseteq [{"faults", "stalls", "asks", "edits"} -> Nat]

VARIABLES
    plan,       \* schemii.migration_plans
    exec,       \* schemii.migration_executions joined with migration_syncs
    leaseLive,  \* is lease_expires_at still in the future?
    head,       \* current migration baseline
    design,     \* schemii.workspace_designs: revision and fingerprint
    editing,    \* a user edit holds the design row, its guard passed
    draft,      \* the review request in flight
    txns,       \* target transactions, as pg_xact_status would know them
    catalog,    \* the committed catalog of the target namespace
    proc,       \* what each worker or request is doing
    left        \* how much of each bound is left

vars == <<plan, exec, leaseLive, head, design, editing, draft, txns, catalog,
          proc, left>>

Procs == Workers \cup Operators

Bounds == {"faults", "stalls", "asks", "edits"}

Statuses == {"none", "reserved", "applying", "uncertain",
             "reconciliation_required", "succeeded", "failed"}

ExecRecord ==
    [status : Statuses, rev : Nat, lease : Procs \cup {None},
     xid : Xids \cup {None}, intended : BOOLEAN,
     outcome : {None, "rolled_back", "uncertain", "committed"},
     sync : {None, "pending", "failed", "conflict", "succeeded"}]

NoExec == [status |-> "none", rev |-> 0, lease |-> None, xid |-> None,
           intended |-> FALSE, outcome |-> None, sync |-> None]

NoPlan == [status |-> "none", designRev |-> 0, designFp |-> InitContent,
           merged |-> InitContent, baseRev |-> 0, live |-> {}]

NoDraft == [step |-> "idle", id |-> None, designRev |-> 0,
            designFp |-> InitContent, baseRev |-> 0, base |-> {}, live |-> {}]

NoTxn == [state |-> "none", exec |-> None, view |-> {}]

\* pc: the next step of process() or reconcile(); snap: the ExecutionRecord it
\* carries; tx: its open target transaction; verdict: what it will record.
Idle == [pc |-> "idle", job |-> None, snap |-> NoExec, tx |-> None,
         verdict |-> "none", seenHead |-> 0, designConflict |-> FALSE]

Init ==
    /\ plan = [e \in Execs |-> NoPlan]
    /\ exec = [e \in Execs |-> NoExec]
    /\ leaseLive = [e \in Execs |-> FALSE]
    /\ head = [rev |-> 1, catalog |-> {}]
    /\ design = [rev |-> 1, fp |-> InitContent]
    /\ editing = FALSE
    /\ draft = NoDraft
    /\ txns = [t \in Xids |-> NoTxn]
    /\ catalog = {}
    /\ proc = [p \in Procs |-> Idle]
    /\ left \in Budgets

-----------------------------------------------------------------------------
(* Bounds and process steps *)

Spend(b) == left[b] > 0 /\ left' = [left EXCEPT ![b] = @ - 1]

SpendIf(test, b) == IF test THEN Spend(b) ELSE UNCHANGED left

Become(p, local) == proc' = [proc EXCEPT ![p] = local]

At(p, label) ==
    IF label = "idle" THEN Idle ELSE [proc[p] EXCEPT !.pc = label]

Goto(p, label) == Become(p, At(p, label))

Conclude(p, v) ==
    Become(p, [proc[p] EXCEPT !.pc = "settle", !.verdict = v, !.tx = None])

\* Where an exception goes: a worker records the failure, a request returns it.
Raise(p) == IF p \in Workers THEN "handle" ELSE "idle"

-----------------------------------------------------------------------------
(* Execution records *)

Legal ==
    [none |-> {},
     reserved |-> {"applying", "failed"},
     applying |-> {"applying", "succeeded", "failed", "uncertain",
                   "reconciliation_required"},
     uncertain |-> {"succeeded", "failed", "reconciliation_required"},
     reconciliation_required |->
         {"succeeded", "failed", "reconciliation_required"},
     succeeded |-> {"succeeded", "reconciliation_required"},
     failed |-> {}]

ActiveStatuses ==
    {"reserved", "applying", "uncertain", "reconciliation_required"}

Unsettled(r) ==
    \/ r.status \in ActiveStatuses
    \/ /\ r.status = "succeeded"
       /\ r.outcome = "committed"
       /\ r.sync \in {"pending", "failed"}

LifecycleBlocked == \E e \in Execs : Unsettled(exec[e])

HoldsLease(status, sync) ==
    \/ status \in {"reserved", "applying"}
    \/ status = "succeeded" /\ sync \in {"pending", "failed"}

\* The row a transition writes: the revision advances, and the lease is kept
\* (or minted, for a manual request that had none) while work is unfinished.
LeaseAfter(p, r) ==
    IF ~HoldsLease(r.status, r.sync) THEN None
    ELSE IF r.lease = None THEN p ELSE r.lease

Stamp(p, r) == [r EXCEPT !.rev = r.rev + 1, !.lease = LeaseAfter(p, r)]

\* Mutant: the revision is not compared.
MayTransitionUnfenced(p, status) ==
    LET cur == exec[proc[p].job] IN
    /\ status \in Legal[cur.status]
    /\ cur.lease \in {None, proc[p].snap.lease}

\* The row still is the one p read: the revision compare-and-swap, the
\* allowed_from and legal-edge checks, and the lease-owner check.
MayTransition(p, status) ==
    LET cur == exec[proc[p].job]
        old == proc[p].snap IN
    /\ cur.rev = old.rev
    /\ cur.status = old.status
    /\ status \in Legal[cur.status]
    /\ cur.lease \in {None, old.lease}

PutExec(e, r) ==
    /\ exec' = [exec EXCEPT ![e] = r]
    /\ leaseLive' = [leaseLive EXCEPT ![e] = r.lease # None]

\* transition_execution: the write commits, or commits and its answer is
\* lost, or is refused, or metadata is unavailable.
Transition(p, r, ok, err) ==
    LET new == Stamp(p, r) IN
    \/ /\ MayTransition(p, r.status)
       /\ PutExec(proc[p].job, new)
       /\ \/ /\ Become(p, IF ok = "idle" THEN Idle
                          ELSE [proc[p] EXCEPT !.pc = ok, !.snap = new])
             /\ UNCHANGED left
          \/ Goto(p, err) /\ Spend("faults")
    \/ /\ Goto(p, err)
       /\ SpendIf(MayTransition(p, r.status), "faults")
       /\ UNCHANGED <<exec, leaseLive>>

-----------------------------------------------------------------------------
(* Review: one request in flight, each of its reads a step of its own *)

ReviewDesign(e) ==
    /\ draft.step = "idle" /\ plan[e].status = "none"
    /\ ~LifecycleBlocked
    /\ draft' = [NoDraft EXCEPT !.step = "baseline", !.id = e,
                 !.designRev = design.rev, !.designFp = design.fp]
    /\ UNCHANGED <<plan, exec, leaseLive, head, design, editing, txns, catalog,
                   proc, left>>

ReviewBaseline ==
    /\ draft.step = "baseline"
    /\ draft' = [draft EXCEPT !.step = "inspect", !.baseRev = head.rev,
                 !.base = head.catalog]
    /\ UNCHANGED <<plan, exec, leaseLive, head, design, editing, txns, catalog,
                   proc, left>>

ReviewInspect ==
    /\ draft.step = "inspect"
    /\ draft' = [draft EXCEPT !.step = "insert", !.live = catalog]
    /\ UNCHANGED <<plan, exec, leaseLive, head, design, editing, txns, catalog,
                   proc, left>>

\* Without drift the merged design is the desired one; external changes are
\* merged into it, or conflict with it and block the plan.
ReviewMerge ==
    IF draft.live = draft.base
    THEN {<<"reviewable", draft.designFp>>}
    ELSE {"reviewable", "blocked"} \X Contents

CreatePlan ==
    /\ draft.step = "insert"
    /\ draft' = NoDraft
    /\ IF LifecycleBlocked
       THEN UNCHANGED plan
       ELSE \E m \in ReviewMerge :
              plan' = [plan EXCEPT ![draft.id] =
                        [status |-> m[1], merged |-> m[2],
                         designRev |-> draft.designRev,
                         designFp |-> draft.designFp,
                         baseRev |-> draft.baseRev, live |-> draft.live]]
    /\ UNCHANGED <<exec, leaseLive, head, design, editing, txns, catalog,
                   proc, left>>

\* Drift resolution compares the live catalog before its transaction.
ResolveInspect(e) ==
    /\ draft.step = "idle" /\ plan[e].status = "blocked"
    /\ catalog = plan[e].live
    /\ draft' = [NoDraft EXCEPT !.step = "resolve", !.id = e]
    /\ UNCHANGED <<plan, exec, leaseLive, head, design, editing, txns, catalog,
                   proc, left>>

\* Mutant: the baseline the plan was made from is not compared.
ReconcileDriftStale ==
    LET p == plan[draft.id] IN
    /\ draft.step = "resolve" /\ ~editing
    /\ draft' = NoDraft
    /\ IF ~LifecycleBlocked /\ design.rev = p.designRev
       THEN /\ \E c \in Contents :
                 design' = [rev |-> design.rev + 1, fp |-> c]
            /\ head' = [rev |-> head.rev + 1, catalog |-> p.live]
            /\ plan' = [plan EXCEPT ![draft.id].status = "resolved"]
       ELSE UNCHANGED <<design, head, plan>>
    /\ UNCHANGED <<exec, leaseLive, editing, txns, catalog, proc, left>>

ReconcileDrift ==
    LET p == plan[draft.id] IN
    /\ draft.step = "resolve" /\ ~editing
    /\ draft' = NoDraft
    /\ IF ~LifecycleBlocked /\ design.rev = p.designRev /\ head.rev = p.baseRev
       THEN /\ \E c \in Contents :
                 design' = [rev |-> design.rev + 1, fp |-> c]
            /\ head' = [rev |-> head.rev + 1, catalog |-> p.live]
            /\ plan' = [plan EXCEPT ![draft.id].status = "resolved"]
       ELSE UNCHANGED <<design, head, plan>>
    /\ UNCHANGED <<exec, leaseLive, editing, txns, catalog, proc, left>>

\* Mutant: an unfinished synchronization does not block a new execution.
ReserveExecutionEarly(e) ==
    /\ plan[e].status = "reviewable"
    /\ \A f \in Execs : exec[f].status \notin ActiveStatuses
    /\ plan' = [plan EXCEPT ![e].status = "claimed"]
    /\ exec' = [exec EXCEPT ![e] =
                 [NoExec EXCEPT !.status = "reserved", !.rev = 1]]
    /\ UNCHANGED <<leaseLive, head, design, editing, draft, txns, catalog,
                   proc, left>>

\* Reserving a plan that already has an execution returns that execution.
ReserveExecution(e) ==
    /\ plan[e].status = "reviewable"
    /\ ~LifecycleBlocked
    /\ plan' = [plan EXCEPT ![e].status = "claimed"]
    /\ exec' = [exec EXCEPT ![e] =
                 [NoExec EXCEPT !.status = "reserved", !.rev = 1]]
    /\ UNCHANGED <<leaseLive, head, design, editing, draft, txns, catalog,
                   proc, left>>

-----------------------------------------------------------------------------
(* User edits hold the design row from their execution guard to their commit *)

GuardMutation ==
    /\ ~editing /\ Spend("edits")
    /\ \A e \in Execs : exec[e].status \notin ActiveStatuses
    /\ editing' = TRUE
    /\ UNCHANGED <<plan, exec, leaseLive, head, design, draft, txns, catalog,
                   proc>>

ReplaceDesign ==
    /\ editing
    /\ editing' = FALSE
    /\ \E c \in Contents \ {design.fp} :
         design' = [rev |-> design.rev + 1, fp |-> c]
    /\ UNCHANGED <<plan, exec, leaseLive, head, draft, txns, catalog, proc,
                   left>>

ExternalChange(d) ==
    /\ catalog' = catalog \cup {d}
    /\ catalog' # catalog
    /\ UNCHANGED <<plan, exec, leaseLive, head, design, editing, draft, txns,
                   proc, left>>

-----------------------------------------------------------------------------
(* The worker loop *)

\* Mutant: interrupted work is not claimed again.
ClaimableOnce(e) ==
    /\ ~leaseLive[e]
    /\ \/ exec[e].status = "reserved"
       \/ /\ exec[e].status = "succeeded" /\ exec[e].outcome = "committed"
          /\ exec[e].sync \in {"pending", "failed"}

Claimable(e) ==
    /\ ~leaseLive[e]
    /\ \/ exec[e].status \in {"reserved", "applying"}
       \/ /\ exec[e].status = "succeeded" /\ exec[e].outcome = "committed"
          /\ exec[e].sync \in {"pending", "failed"}

\* Without a recorded transaction id the attempt never reached the target.
RecoverEntry(r) == IF r.xid = None THEN "settle" ELSE "recover"

\* Mutant: interrupted work is replayed.
WorkEntryReplays(r) ==
    IF r.status \in {"reserved", "applying"} THEN "design" ELSE "sync"

WorkEntry(r) ==
    CASE r.status = "reserved" -> "design"
      [] r.status = "applying" -> RecoverEntry(r)
      [] OTHER -> "sync"

Enter(p, e, r, label) ==
    Become(p, [Idle EXCEPT !.pc = label, !.job = e, !.snap = r,
                           !.verdict = "failed"])

\* A claim whose answer is lost leaves the lease to age out.
ClaimNextExecution(w, e) ==
    LET r == [exec[e] EXCEPT !.rev = exec[e].rev + 1, !.lease = w] IN
    /\ proc[w].pc = "idle"
    /\ Claimable(e)
    /\ PutExec(e, r)
    /\ \/ Enter(w, e, r, WorkEntry(r)) /\ UNCHANGED left
       \/ UNCHANGED proc /\ Spend("faults")
    /\ UNCHANGED <<plan, head, design, editing, draft, txns, catalog>>

Owns(p, e) == proc[p].job = e /\ exec[e].lease = p

RenewExecutionLease(w, e) ==
    /\ Owns(w, e) /\ ~leaseLive[e]
    /\ exec[e].status \in {"reserved", "applying", "succeeded"}
    /\ leaseLive' = [leaseLive EXCEPT ![e] = TRUE]
    /\ UNCHANGED <<plan, exec, head, design, editing, draft, txns, catalog,
                   proc, left>>

\* Time passes.  The lease of a worker that still runs its unit expires only
\* when its heartbeat stalls.
LeaseExpires(e) ==
    /\ leaseLive[e]
    /\ leaseLive' = [leaseLive EXCEPT ![e] = FALSE]
    /\ SpendIf(\E w \in Workers : Owns(w, e), "stalls")
    /\ UNCHANGED <<plan, exec, head, design, editing, draft, txns, catalog,
                   proc>>

\* The process dies: its locals are gone, its target session is an orphan.
Crash(p) ==
    /\ proc[p].pc # "idle"
    /\ Spend("faults")
    /\ Goto(p, "idle")
    /\ UNCHANGED <<plan, exec, leaseLive, head, design, editing, draft, txns,
                   catalog>>

\* The operator acts on the record it sees, unless a live lease owns it.
Reconcile(p, e) ==
    /\ proc[p].pc = "idle" /\ Spend("asks")
    /\ ~leaseLive[e]
    /\ \/ /\ exec[e].outcome = "committed"
          /\ Enter(p, e, exec[e], "sync")
       \/ /\ exec[e].outcome # "committed"
          /\ exec[e].status \in ActiveStatuses
          /\ Enter(p, e, exec[e], RecoverEntry(exec[e]))
    /\ UNCHANGED <<plan, exec, leaseLive, head, design, editing, draft, txns,
                   catalog>>

-----------------------------------------------------------------------------
(* _execute_claimed and the gateway transaction it drives *)

CheckDesign(w) ==
    LET p == plan[proc[w].job] IN
    /\ proc[w].pc = "design"
    /\ IF design = [rev |-> p.designRev, fp |-> p.designFp]
       THEN Goto(w, "baseline") ELSE Conclude(w, "failed")
    /\ UNCHANGED <<plan, exec, leaseLive, head, design, editing, draft, txns,
                   catalog, left>>

CheckBaseline(w) ==
    /\ proc[w].pc = "baseline"
    /\ IF head.rev = plan[proc[w].job].baseRev
       THEN Goto(w, "open") ELSE Conclude(w, "failed")
    /\ UNCHANGED <<plan, exec, leaseLive, head, design, editing, draft, txns,
                   catalog, left>>

\* Connect and begin.  A SERIALIZABLE snapshot is fixed by the statement that
\* then waits for the advisory lock.  A changed or unreachable connection, or
\* exhausted capacity, fails the execution.
OpenTarget(w) ==
    /\ proc[w].pc = "open"
    /\ \/ \E t \in Xids :
            /\ txns[t].state = "none"
            /\ txns' = [txns EXCEPT ![t] = [state |-> "begun",
                         exec |-> proc[w].job, view |-> catalog]]
            /\ Become(w, [proc[w] EXCEPT !.pc = "check", !.tx = t])
       \/ Conclude(w, "failed") /\ UNCHANGED txns
    /\ UNCHANGED <<plan, exec, leaseLive, head, design, editing, draft,
                   catalog, left>>

LiveTxn(t) == txns[t].state \in {"begun", "open"}

\* The catalog transaction t sees, besides its own changes.
View(t) == IF txns[t].exec \in FreshSnapshots THEN catalog ELSE txns[t].view

\* The namespace advisory lock is granted, then the catalog this transaction
\* sees is compared with the reviewed one; a required empty table may have
\* rows, the lock may time out, and any statement may fail.
LockAndCheck(w) ==
    LET t == proc[w].tx IN
    /\ proc[w].pc = "check"
    /\ \/ /\ \A u \in Xids : txns[u].state \notin {"open", "committing"}
          /\ LiveTxn(t) /\ View(t) = plan[proc[w].job].live
          /\ txns' = [txns EXCEPT ![t].state = "open"]
          /\ Goto(w, "started")
       \/ Goto(w, "rollback") /\ UNCHANGED txns
    /\ UNCHANGED <<plan, exec, leaseLive, head, design, editing, draft,
                   catalog, left>>

\* Mutant: the transaction id is not stored.
OnStartedUnrecorded(w) ==
    /\ proc[w].pc = "started"
    /\ Goto(w, "ddl")
    /\ UNCHANGED <<plan, exec, leaseLive, head, design, editing, draft, txns,
                   catalog, left>>

\* on_started: the transaction id is durable before the first statement.
OnStarted(w) ==
    /\ proc[w].pc = "started"
    /\ Transition(w, [proc[w].snap EXCEPT !.status = "applying",
                                          !.xid = proc[w].tx],
                  "ddl", "unwind")
    /\ UNCHANGED <<plan, head, design, editing, draft, txns, catalog>>

\* The statements, and the check that they produced the reviewed schema.
ApplyStatements(w) ==
    LET t == proc[w].tx IN
    /\ proc[w].pc = "ddl"
    /\ \/ /\ LiveTxn(t) /\ View(t) = plan[proc[w].job].live
          /\ Goto(w, "intended")
       \/ Goto(w, "rollback")
    /\ UNCHANGED <<plan, exec, leaseLive, head, design, editing, draft, txns,
                   catalog, left>>

\* on_intended: the result a recovery would record is durable before commit.
OnIntended(w) ==
    /\ proc[w].pc = "intended"
    /\ Transition(w, [proc[w].snap EXCEPT !.status = "applying",
                                          !.intended = TRUE],
                  "commit", "unwind")
    /\ UNCHANGED <<plan, head, design, editing, draft, txns, catalog>>

SendCommit(w) ==
    LET t == proc[w].tx IN
    /\ proc[w].pc = "commit"
    /\ IF LiveTxn(t)
       THEN /\ txns' = [txns EXCEPT ![t].state = "committing"]
            /\ Goto(w, "await")
       ELSE Conclude(w, "uncertain") /\ UNCHANGED txns
    /\ UNCHANGED <<plan, exec, leaseLive, head, design, editing, draft,
                   catalog, left>>

\* The server decides a commit it received, whoever is still listening.
CommitResolves(t) ==
    /\ txns[t].state = "committing"
    /\ \/ /\ txns' = [txns EXCEPT ![t].state = "committed"]
          /\ catalog' = catalog \cup {txns[t].exec}
       \/ /\ txns' = [txns EXCEPT ![t].state = "aborted"]
          /\ UNCHANGED catalog
    /\ UNCHANGED <<plan, exec, leaseLive, head, design, editing, draft, proc,
                   left>>

Driven(t) == \E p \in Procs : proc[p].tx = t

\* The server drops a transaction whose client died or whose session broke.
SessionLost(t) ==
    /\ LiveTxn(t)
    /\ txns' = [txns EXCEPT ![t].state = "aborted"]
    /\ SpendIf(Driven(t), "faults")
    /\ UNCHANGED <<plan, exec, leaseLive, head, design, editing, draft,
                   catalog, proc>>

\* Mutant: an unanswered commit is taken for a commit.
CommitReturnsHopeful(w) ==
    /\ proc[w].pc = "await"
    /\ Conclude(w, "committed")
    /\ UNCHANGED <<plan, exec, leaseLive, head, design, editing, draft, txns,
                   catalog, left>>

\* commit() returns, raises on a refused commit, or loses its connection.
CommitReturns(w) ==
    LET t == proc[w].tx IN
    /\ proc[w].pc = "await"
    /\ \/ /\ txns[t].state = "committed"
          /\ Conclude(w, "committed") /\ UNCHANGED left
       \/ Conclude(w, "uncertain") /\ SpendIf(txns[t].state # "aborted", "faults")
    /\ UNCHANGED <<plan, exec, leaseLive, head, design, editing, draft, txns,
                   catalog>>

\* _cleanup closes the session, then the error is mapped: a target error fails
\* the execution, a callback's own error is raised.
Rollback(w) ==
    /\ proc[w].pc = "rollback"
    /\ txns' = [txns EXCEPT ![proc[w].tx].state = "aborted"]
    /\ Conclude(w, "failed")
    /\ UNCHANGED <<plan, exec, leaseLive, head, design, editing, draft,
                   catalog, left>>

Unwind(w) ==
    /\ proc[w].pc = "unwind"
    /\ txns' = [txns EXCEPT ![proc[w].tx].state = "aborted"]
    /\ Become(w, [proc[w] EXCEPT !.pc = "handle", !.tx = None])
    /\ UNCHANGED <<plan, exec, leaseLive, head, design, editing, draft,
                   catalog, left>>

-----------------------------------------------------------------------------
(* Recovery reads the transaction's fate; it never replays statements *)

\* Mutant: a transaction in progress counts as rolled back.
EvidenceHasty(t) == IF txns[t].state = "committed" THEN "committed" ELSE "failed"

Evidence(t) ==
    CASE txns[t].state = "committed" -> "committed"
      [] txns[t].state = "aborted" -> "failed"
      [] OTHER -> "in_progress"

\* The target answers, or it cannot be read or is another server than the one
\* recorded; an operator gets the error of an unreadable target back.
\* Looks that find the transaction in progress are drawn from the fault bound.
ReconcileTransaction(p) ==
    LET fate == Evidence(proc[p].snap.xid) IN
    /\ proc[p].pc = "recover"
    /\ \/ Conclude(p, fate) /\ SpendIf(fate = "in_progress", "faults")
       \/ Conclude(p, "lost") /\ Spend("faults")
    /\ UNCHANGED <<plan, exec, leaseLive, head, design, editing, draft, txns,
                   catalog>>

\* What each conclusion writes.
Concluded(p) ==
    LET r == proc[p].snap
        v == proc[p].verdict
        Row(status, outcome, sync) ==
            [r EXCEPT !.status = status, !.outcome = outcome, !.sync = sync]
    IN
    CASE v = "failed"      -> Row("failed", "rolled_back", r.sync)
      [] v = "uncertain"   -> Row("uncertain", "uncertain", r.sync)
      [] v = "lost"        -> Row("reconciliation_required", "uncertain", r.sync)
      [] v = "in_progress" -> Row(IF p \in Workers THEN "applying"
                                  ELSE "reconciliation_required",
                                  "uncertain", r.sync)
      [] v = "committed"   -> Row("succeeded", "committed", "pending")
      [] v = "no_evidence" -> Row("reconciliation_required", "committed", "failed")
      [] v = "conflict"    -> Row("succeeded", "committed", "conflict")
      [] v = "synced"      -> Row("succeeded", "committed", "succeeded")
      [] v = "sync_failed" -> Row("succeeded", r.outcome, "failed")

\* The _transition_execution that ends a unit, or opens its synchronization.
Settle(p) ==
    /\ proc[p].pc = "settle"
    /\ Transition(p, Concluded(p),
                  IF proc[p].verdict = "committed" THEN "sync" ELSE "idle",
                  Raise(p))
    /\ UNCHANGED <<plan, head, design, editing, draft, txns, catalog>>

-----------------------------------------------------------------------------
(* _sync_committed: checkpoint the design, then advance the baseline *)

Merged(p) == plan[proc[p].job].merged

IntendedCatalog(e) == plan[e].live \cup {e}

SyncDesign(p) ==
    LET q == plan[proc[p].job] IN
    /\ proc[p].pc = "sync"
    /\ IF ~proc[p].snap.intended
       THEN Conclude(p, "no_evidence")
       ELSE IF design.fp = Merged(p)
       THEN Goto(p, "head")
       ELSE IF design = [rev |-> q.designRev, fp |-> q.designFp]
       THEN Goto(p, "checkpoint")
       ELSE Become(p, [proc[p] EXCEPT !.pc = "head", !.designConflict = TRUE])
    /\ UNCHANGED <<plan, exec, leaseLive, head, design, editing, draft, txns,
                   catalog, left>>

\* Mutant: the checkpoint does not expect the reviewed revision.
SyncCheckpointBlind(p) ==
    /\ proc[p].pc = "checkpoint" /\ ~editing
    /\ design' = [rev |-> design.rev + 1, fp |-> Merged(p)]
    /\ Goto(p, "head")
    /\ UNCHANGED <<plan, exec, leaseLive, head, editing, draft, txns, catalog,
                   left>>

\* designs.replace(operation_kind="checkpoint"), exempt from the edit guard.
SyncCheckpoint(p) ==
    /\ proc[p].pc = "checkpoint" /\ ~editing
    /\ IF design.rev = plan[proc[p].job].designRev
       THEN /\ design' = [rev |-> design.rev + 1, fp |-> Merged(p)]
            /\ \/ Goto(p, "head") /\ UNCHANGED left
               \/ Goto(p, Raise(p)) /\ Spend("faults")
       ELSE /\ Become(p, [proc[p] EXCEPT !.pc = "head",
                                         !.designConflict = TRUE])
            /\ UNCHANGED <<design, left>>
    /\ UNCHANGED <<plan, exec, leaseLive, head, editing, draft, txns, catalog>>

SyncReadHead(p) ==
    /\ proc[p].pc = "head"
    /\ IF head.catalog = IntendedCatalog(proc[p].job)
       THEN Goto(p, "latest")
       ELSE Become(p, [proc[p] EXCEPT !.pc = "insert", !.seenHead = head.rev])
    /\ UNCHANGED <<plan, exec, leaseLive, head, design, editing, draft, txns,
                   catalog, left>>

\* create_baseline: the predecessor is the head just read.
SyncInsertBaseline(p) ==
    /\ proc[p].pc = "insert"
    /\ IF head.rev = proc[p].seenHead
       THEN /\ head' = [rev |-> head.rev + 1,
                        catalog |-> IntendedCatalog(proc[p].job)]
            /\ \/ Goto(p, "latest") /\ UNCHANGED left
               \/ Goto(p, Raise(p)) /\ Spend("faults")
       ELSE Goto(p, "rehead") /\ UNCHANGED <<head, left>>
    /\ UNCHANGED <<plan, exec, leaseLive, design, editing, draft, txns, catalog>>

SyncRereadHead(p) ==
    /\ proc[p].pc = "rehead"
    /\ IF head.catalog = IntendedCatalog(proc[p].job)
       THEN Goto(p, "latest")
       ELSE Conclude(p, "conflict")
    /\ UNCHANGED <<plan, exec, leaseLive, head, design, editing, draft, txns,
                   catalog, left>>

SyncLatestDesign(p) ==
    /\ proc[p].pc = "latest"
    /\ Conclude(p, IF proc[p].designConflict \/ design.fp # Merged(p)
                   THEN "conflict" ELSE "synced")
    /\ UNCHANGED <<plan, exec, leaseLive, head, design, editing, draft, txns,
                   catalog, left>>

-----------------------------------------------------------------------------
(* Failures *)

\* A read or write outside transition_execution raises.
ServiceUnavailable(p) ==
    /\ proc[p].pc \in {"design", "baseline", "recover", "sync", "checkpoint",
                       "head", "insert", "rehead", "latest"}
    /\ Spend("faults")
    /\ Goto(p, Raise(p))
    /\ UNCHANGED <<plan, exec, leaseLive, head, design, editing, draft, txns,
                   catalog>>

\* _record_processing_failure rereads the record and acts only while the
\* lease still is this worker's.
FailureVerdict(r) ==
    CASE r.status = "reserved" -> "failed"
      [] r.status = "applying" -> "lost"
      [] OTHER -> "sync_failed"

ReadFailure(w) ==
    LET cur == exec[proc[w].job] IN
    /\ proc[w].pc = "handle"
    /\ \/ /\ Owns(w, proc[w].job)
          /\ Become(w, [proc[w] EXCEPT !.pc = "record", !.snap = cur,
                                       !.verdict = FailureVerdict(cur)])
          /\ UNCHANGED left
       \/ Goto(w, "idle") /\ SpendIf(Owns(w, proc[w].job), "faults")
    /\ UNCHANGED <<plan, exec, leaseLive, head, design, editing, draft, txns,
                   catalog>>

RecordProcessingFailure(w) ==
    /\ proc[w].pc = "record"
    /\ Transition(w, Concluded(w), "idle", "idle")
    /\ UNCHANGED <<plan, head, design, editing, draft, txns, catalog>>

-----------------------------------------------------------------------------
SyncStep(p) ==
    \/ SyncDesign(p) \/ SyncCheckpoint(p) \/ SyncReadHead(p)
    \/ SyncInsertBaseline(p) \/ SyncRereadHead(p) \/ SyncLatestDesign(p)

ProcessStep(p) == ReconcileTransaction(p) \/ Settle(p) \/ SyncStep(p)

ExecuteStep(w) ==
    \/ CheckDesign(w) \/ CheckBaseline(w) \/ OpenTarget(w) \/ LockAndCheck(w)
    \/ OnStarted(w) \/ ApplyStatements(w) \/ OnIntended(w) \/ SendCommit(w)
    \/ CommitReturns(w) \/ Rollback(w) \/ Unwind(w)

FailureStep(w) == ReadFailure(w) \/ RecordProcessingFailure(w)

WorkerStep(w) ==
    \/ \E e \in Execs : ClaimNextExecution(w, e)
    \/ ExecuteStep(w) \/ ProcessStep(w) \/ FailureStep(w)

Review ==
    \/ \E e \in Execs : ReviewDesign(e) \/ ResolveInspect(e) \/ ReserveExecution(e)
    \/ ReviewBaseline \/ ReviewInspect \/ CreatePlan \/ ReconcileDrift

Next ==
    \/ Review
    \/ GuardMutation \/ ReplaceDesign
    \/ \E d \in Drifts : ExternalChange(d)
    \/ \E w \in Workers : WorkerStep(w)
    \/ \E p \in Operators : ProcessStep(p)
    \/ \E e \in Execs :
         \/ LeaseExpires(e)
         \/ \E w \in Workers : RenewExecutionLease(w, e)
         \/ \E p \in Operators : Reconcile(p, e)
    \/ \E p \in Procs : Crash(p) \/ ServiceUnavailable(p)
    \/ \E t \in Xids : CommitResolves(t) \/ SessionLost(t)

Spec == Init /\ [][Next]_vars

\* The worker loop polls and never exits, leases nobody renews age, edits
\* finish, and the server decides every transaction it was asked to commit or
\* that nobody drives any more.
Fairness ==
    /\ \A w \in Workers : WF_vars(WorkerStep(w))
    /\ \A p \in Operators : WF_vars(ProcessStep(p))
    /\ \A e \in Execs :
         WF_vars(LeaseExpires(e) /\ ~\E w \in Workers : Owns(w, e))
    /\ \A t \in Xids :
         WF_vars(CommitResolves(t)) /\ WF_vars(SessionLost(t) /\ ~Driven(t))
    /\ WF_vars(ReplaceDesign)

FairSpec == Spec /\ Fairness

-----------------------------------------------------------------------------
(* Properties *)

Catalogs == SUBSET (Execs \cup Drifts)

TxnRecord ==
    [state : {"none", "begun", "open", "committing", "committed", "aborted"},
     exec : Execs \cup {None}, view : Catalogs]

Local ==
    [pc : {"idle", "design", "baseline", "open", "check", "started", "ddl",
           "intended", "commit", "await", "rollback", "unwind", "recover",
           "settle", "sync", "checkpoint", "head", "insert", "rehead", "latest",
           "handle", "record"},
     job : Execs \cup {None}, snap : ExecRecord, tx : Xids \cup {None},
     verdict : {"none", "failed", "uncertain", "lost",
                "in_progress", "committed", "no_evidence", "conflict",
                "synced", "sync_failed"},
     seenHead : Nat, designConflict : BOOLEAN]

\* Every row, snapshot, transaction and bound has its declared shape.
TypeOK ==
    /\ plan \in [Execs -> [status : {"none", "reviewable", "blocked",
                                     "claimed", "resolved"},
                           designRev : Nat, designFp : Contents,
                           merged : Contents, baseRev : Nat,
                           live : Catalogs]]
    /\ exec \in [Execs -> ExecRecord]
    /\ leaseLive \in [Execs -> BOOLEAN]
    /\ head \in [rev : Nat, catalog : Catalogs]
    /\ design \in [rev : Nat, fp : Contents]
    /\ editing \in BOOLEAN
    /\ draft \in [step : {"idle", "baseline", "inspect", "insert", "resolve"},
                  id : Execs \cup {None}, designRev : Nat,
                  designFp : Contents, baseRev : Nat,
                  base : Catalogs,
                  live : Catalogs]
    /\ txns \in [Xids -> TxnRecord]
    /\ catalog \in Catalogs
    /\ proc \in [Procs -> Local]
    /\ left \in [Bounds -> Nat]

Sent(t) == txns[t].state \in {"committing", "committed"}

\* Only reserved work is replayable (on_started): whatever crashes, stalls and
\* lost answers happen, at most one transaction of an execution is ever
\* committed, or handed to the server to commit.
AppliedAtMostOnce ==
    \A t, u \in Xids :
        Sent(t) /\ Sent(u) /\ txns[t].exec = txns[u].exec => t = u

\* The receipt tells the truth about the target: an execution recorded as
\* rolled back has no transaction that is or may still become committed, and
\* one recorded as committed names a committed transaction.
OutcomeIsTrue ==
    \A e \in Execs :
        /\ exec[e].outcome = "rolled_back" =>
             \A t \in Xids : txns[t].exec = e => ~Sent(t)
        /\ exec[e].outcome = "committed" =>
             exec[e].xid # None /\ txns[exec[e].xid].state = "committed"

\* What recovery needs is durable before the server can commit: the receipt
\* already names the transaction and holds its intended result.
EvidenceBeforeCommit ==
    \A t \in Xids : Sent(t) =>
        exec[txns[t].exec].xid = t /\ exec[txns[t].exec].intended

\* A workspace never has two executions whose target or metadata work is
\* unfinished (reserve_execution, the partial unique index).
OneUnsettled ==
    \A e, f \in Execs : Unsettled(exec[e]) /\ Unsettled(exec[f]) => e = f

\* The baseline head only describes changes the target really committed, and
\* a receipt that says "synchronized" is backed by it: the head holds that
\* execution's change (_sync_committed, replace_baseline_head).
BaselineIsTrue ==
    /\ head.catalog \subseteq catalog
    /\ \A e \in Execs : exec[e].sync = "succeeded" => e \in head.catalog

\* A receipt row changes one revision at a time, a failed one never again, and
\* a settled success is not reopened for workers.
ReceiptHistory ==
    [][\A e \in Execs : exec'[e] # exec[e] =>
         /\ exec'[e].rev = exec[e].rev + 1
         /\ exec[e].status # "failed"
         /\ exec[e].sync \in {"succeeded", "conflict"} => ~Unsettled(exec'[e])]_vars

\* A later baseline keeps the changes an earlier one recorded, in every order of
\* executions, edits, drift and failures (_sync_committed, reconcile_drift).
BaselineNeverRegresses == [][head.catalog \subseteq head'.catalog]_vars

\* The system's own design writes (checkpoint, drift resolution) replace
\* exactly the design the user reviewed, so no later edit is lost.
EditsAreKept ==
    [][design' # design /\ ~editing =>
         \E e \in Execs : /\ plan[e].status \in {"claimed", "blocked"}
                          /\ design.rev = plan[e].designRev
                          /\ design.fp = plan[e].designFp]_vars

NeedsNobody(r) ==
    r.status \in {"failed", "uncertain", "reconciliation_required"}
        \/ r.sync \in {"succeeded", "conflict"}

\* A reserved execution reaches a final receipt, or one that asks for manual
\* reconciliation, whatever crashes on the way (MigrationWorker, process).
EventuallyRecorded ==
    \A e \in Execs :
        exec[e].status = "reserved" ~> NeedsNobody(exec[e])

-----------------------------------------------------------------------------
(* The inductive invariant behind the safety properties *)

\* What any version r of e's receipt, stored or carried, says of the target
\* transactions T.
ReceiptOK(T, e, r) ==
    /\ r.status \in {"none", "reserved"} => r.xid = None /\ r.outcome = None
    /\ r.xid # None => T[r.xid].exec = e /\ T[r.xid].state # "none"
    /\ r.outcome = "rolled_back" =>
         /\ r.status = "failed"
         /\ r.xid # None => T[r.xid].state = "aborted"
    /\ r.outcome = "committed" =>
         r.xid # None /\ T[r.xid].state = "committed"

\* A carried record is the stored one or an older revision of it.
Coherent(l, cur) ==
    /\ l.snap.rev <= cur.rev
    /\ l.snap.rev = cur.rev => l.snap = cur

\* A process that is past _connect holds the transaction it opened.
TxnSteps == {"check", "started", "ddl", "intended", "commit", "await",
             "rollback", "unwind"}

TxnOwned(T, p, l) ==
    IF l.pc \in TxnSteps
    THEN /\ p \in Workers
         /\ l.tx # None
         /\ T[l.tx].exec = l.job
         /\ T[l.tx].state # "none"
         /\ l.pc # "await" => T[l.tx].state \notin {"committing", "committed"}
    ELSE l.tx = None

\* Past on_started the receipt names the transaction, past on_intended it
\* holds the result; before that the receipt was reserved.
Durable(l, cur) ==
    /\ l.pc \in {"design", "baseline", "open", "check", "started"} =>
         l.snap.status = "reserved"
    /\ l.pc \in {"ddl", "intended", "commit", "await"} =>
         l.snap.xid = l.tx /\ cur.xid = l.tx
    /\ l.pc \in {"commit", "await"} => cur.intended
    /\ l.pc = "rollback" => l.snap.xid \in {None, l.tx}

\* A conclusion about the target rests on what the target answered.
Grounded(T, l) ==
    /\ l.pc = "recover" => l.snap.xid # None
    /\ l.pc \in {"sync", "checkpoint", "head", "insert", "rehead", "latest"} =>
         l.snap.outcome = "committed"
    /\ l.pc \in {"settle", "record"} =>
         /\ l.verdict # "none"
         /\ l.verdict = "failed" /\ l.snap.xid # None =>
              T[l.snap.xid].state = "aborted"
         /\ l.verdict = "committed" =>
              l.snap.xid # None /\ T[l.snap.xid].state = "committed"
         /\ l.verdict \in {"no_evidence", "conflict", "synced"} =>
              l.snap.outcome = "committed"

\* What a process with locals l may rely on, given the receipts X.
ProcOK(X, T, p, l) ==
    IF l.pc = "idle"
    THEN l.tx = None
    ELSE /\ l.job \in Execs
         /\ ReceiptOK(T, l.job, l.snap)
         /\ Coherent(l, X[l.job])
         /\ TxnOwned(T, p, l)
         /\ Durable(l, X[l.job])
         /\ Grounded(T, l)

\* Only a claimed plan has an execution, and only one review is in flight.
PlansOK ==
    /\ \A e \in Execs : plan[e].status # "claimed" => exec[e] = NoExec
    /\ \A p \in Procs : proc[p].pc # "idle" => plan[proc[p].job].status = "claimed"
    /\ draft.step # "idle" => draft.id \in Execs
    /\ draft.step \in {"baseline", "inspect", "insert"} =>
         plan[draft.id].status = "none"
    /\ draft.step = "resolve" => plan[draft.id].status = "blocked"

\* The inductive invariant: the safety properties follow from it.
SafetyInv ==
    /\ TypeOK
    /\ PlansOK
    /\ EvidenceBeforeCommit
    /\ \A e \in Execs : ReceiptOK(txns, e, exec[e])
    /\ \A t \in Xids : txns[t].state # "none" => txns[t].exec \in Execs
    /\ \A p \in Procs : ProcOK(exec, txns, p, proc[p])
    /\ \A p, q \in Procs : proc[p].tx = proc[q].tx /\ proc[p].tx # None => p = q

-----------------------------------------------------------------------------
(* The inductive invariant behind the history of receipts, designs and       *)
(* baselines; it rests on SafetyInv                                          *)

\* Any version r of a receipt, stored or carried: a commit is recorded together
\* with its synchronization, over a durable intended result, and a lease is
\* held only while a worker may still act.
ReceiptShape(r) ==
    /\ r.status = "succeeded" <=> r.outcome = "committed"
    /\ r.status = "succeeded" <=> r.sync # None
    /\ r.status = "succeeded" => r.intended
    /\ r.lease # None => HoldsLease(r.status, r.sync)

BeforeOutcome == {"design", "baseline", "open", "recover"} \cup TxnSteps

SyncSteps == {"sync", "checkpoint", "head", "insert", "rehead", "latest"}

TargetVerdicts == {"failed", "uncertain", "lost", "in_progress", "committed"}

\* A process decides the target's outcome only for a record that has none, and
\* synchronizes only one that has.
PhaseOK(l) ==
    l.pc # "idle" =>
        /\ ReceiptShape(l.snap)
        /\ l.pc \in SyncSteps => l.snap.status = "succeeded"
        /\ l.pc \in BeforeOutcome => l.snap.status # "succeeded"
        /\ l.pc \in {"settle", "record"} =>
             /\ l.verdict \in TargetVerdicts <=> l.snap.status # "succeeded"
             /\ l.verdict # "no_evidence"
             /\ l.verdict = "sync_failed" => l.snap.sync \in {"pending", "failed"}

\* Receipts are well formed and processes act in phase, and only one receipt
\* has unfinished work.
ReceiptsInv ==
    /\ \A e \in Execs : ReceiptShape(exec[e])
    /\ \A p \in Procs : PhaseOK(proc[p])
    /\ OneUnsettled

\* What a plan or a review r remembers of the design is the design at a
\* revision that is not in the future.
Reviewed(r) ==
    /\ r.designRev <= design.rev
    /\ r.designRev = design.rev => r.designFp = design.fp

DesignsInv ==
    /\ design.rev > 0
    /\ Reviewed(draft)
    /\ \A e \in Execs : Reviewed(plan[e])

\* The baseline head only describes what the target really committed
\* (_sync_committed, reconcile_drift): every catalog that was read or recorded
\* was a state of the target, and every commit changed it.
BaselineIsCommitted ==
    /\ head.catalog \subseteq catalog
    /\ draft.live \subseteq catalog
    /\ \A e \in Execs : plan[e].live \subseteq catalog
    /\ \A t \in Xids : txns[t].state = "committed" => txns[t].exec \in catalog

HistoryInv == ReceiptsInv /\ DesignsInv /\ BaselineIsCommitted

\* All that the proofs carry from step to step: what ties receipts to the target
\* (SafetyInv) and what ties receipts, designs and baselines to their history
\* (HistoryInv): one execution is unsettled at a time (reserve_execution), a
\* worker only carries a receipt in a phase its status allows, a review
\* remembers no design newer than the current one, and the baseline describes
\* only what the target committed (_sync_committed, reconcile_drift).
MigrationInv == SafetyInv /\ HistoryInv

=============================================================================
