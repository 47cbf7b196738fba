------------------------------ MODULE BulkJobs ------------------------------
(***************************************************************************)
(* Bulk SQL jobs: a job document with one checkpoint per batch, a two-     *)
(* permit thread pool that runs one target transaction per batch, user     *)
(* commands that race the runner, metadata writes that fail or whose       *)
(* answers are lost, and a server that restarts and recovers.  SQL text,   *)
(* clocks, messages and revisions are left out: a command with a stale     *)
(* revision changes nothing.                                               *)
(***************************************************************************)
EXTENDS Naturals, FiniteSets

CONSTANTS
    Jobs,           \* job identifiers
    Owner(_),       \* the user a job belongs to
    Slots,          \* permits of the capacity semaphore
    MaxJobs,        \* documents one user may keep
    Loads,          \* bound: the jobs of a behaviour and their batches, how many
                    \* metadata writes or sessions fail, how many restarts and
                    \* commands there are, and whether a metadata COMMIT may
                    \* succeed and be reported as failed
    None

ASSUME BulkAssumption ==
    /\ MaxJobs \in Nat \ {0}
    /\ \A l \in Loads : /\ l.jobs \subseteq Jobs /\ l.slots \subseteq Slots
                        /\ l.batches \in Nat \ {0} /\ l.lost \in BOOLEAN
                        /\ l.faults \in Nat /\ l.restarts \in Nat /\ l.commands \in Nat
    /\ None \notin Jobs

VARIABLES
    jobs,       \* schemii.bulk_jobs: status and batch checkpoints
    slot,       \* what each admitted task is doing
    active,     \* BulkJobService.active
    stopped,    \* the stop events of the active jobs
    signals,    \* cancellation.cancel calls not yet delivered
    closed,     \* BulkJobService.closed
    wire,       \* the last COMMIT of each batch, as the server sees it
    applied,    \* how often each batch was committed
    load,       \* the load of this behaviour
    used        \* how much of each bound is used up

vars == <<jobs, slot, active, stopped, signals, closed, wire, applied, load, used>>

Batches == 1..load.batches
Busy == {"queued", "running", "cancelling"}
Bounds == {"faults", "restarts", "commands"}

NoJob == [status |-> "none", batch |-> [i \in Batches |-> "pending"]]

\* tx: a target transaction is open; doubt: a failure now leaves the outcome
\* uncertain; cut: the cancellation scope of the task is stopped.
Free == [pc |-> "free", job |-> None, index |-> 0, tx |-> FALSE,
         doubt |-> FALSE, cut |-> FALSE]

Init ==
    /\ load \in Loads
    /\ jobs = [j \in Jobs |-> NoJob]
    /\ slot = [s \in Slots |-> Free]
    /\ active = {}
    /\ stopped = [j \in Jobs |-> FALSE]
    /\ signals = {}
    /\ closed = FALSE
    /\ wire = [j \in Jobs |-> [i \in Batches |-> "idle"]]
    /\ applied = [j \in Jobs |-> [i \in Batches |-> 0]]
    /\ used = [b \in Bounds |-> 0]

SpendAll(S) ==
    /\ \A b \in S : used[b] < load[b]
    /\ used' = [b \in Bounds |-> IF b \in S THEN used[b] + 1 ELSE used[b]]

Spend(b) == SpendAll({b})

Put(j, value) == jobs' = [jobs EXCEPT ![j] = value]

Goto(s, label) == slot' = [slot EXCEPT ![s].pc = label]

\* JobRepository.change by task s: written, written with its answer lost, or
\* not written.
Change(s, value, ok, err) ==
    \/ Put(slot[s].job, value) /\ Goto(s, ok) /\ UNCHANGED used
    \/ load.lost /\ Put(slot[s].job, value) /\ Goto(s, err) /\ Spend("faults")
    \/ UNCHANGED jobs /\ Goto(s, err) /\ Spend("faults")

OtherBusy(j) ==
    \E k \in Jobs \ {j} : Owner(k) = Owner(j) /\ jobs[k].status \in Busy

\* A task is handed to the pool; a lost answer gives its permit back.  The
\* step uses up the bounds in S.
Submit(s, j, S) ==
    \/ /\ slot' = [slot EXCEPT ![s] = [Free EXCEPT !.pc = "submitted", !.job = j]]
       /\ SpendAll(S)
    \/ load.lost /\ UNCHANGED slot /\ SpendAll(S \cup {"faults"})

\* The permits are alike: any one that is free is taken.
Admit(s) ==
    LET free == {x \in load.slots : slot[x].pc = "free"} IN
    ~closed /\ free # {} /\ s = CHOOSE x \in free : TRUE

-----------------------------------------------------------------------------
(* User commands *)

Kept(j) == {k \in Jobs : Owner(k) = Owner(j) /\ jobs[k].status \notin {"none", "deleted"}}

CreateStarted(s, j) ==
    /\ Admit(s) /\ j \in load.jobs /\ jobs[j].status = "none"
    /\ Cardinality(Kept(j)) < MaxJobs /\ ~OtherBusy(j)
    /\ Put(j, [NoJob EXCEPT !.status = "queued"])
    /\ Submit(s, j, {})
    /\ UNCHANGED <<active, stopped, signals, closed, wire, applied>>

\* Nothing is stopped when the write's answer is lost.  The signal is sent
\* after the lock is released.
CancelTo(j, status) ==
    /\ jobs[j].status \in Busy
    /\ Put(j, [jobs[j] EXCEPT !.status = status])
    /\ \/ /\ stopped' = [stopped EXCEPT ![j] = @ \/ j \in active]
          /\ signals' = signals \cup {j} /\ Spend("commands")
       \/ /\ load.lost /\ SpendAll({"commands", "faults"})
          /\ UNCHANGED <<stopped, signals>>
    /\ UNCHANGED <<slot, active, closed, wire, applied>>

\* Mutant: a job with no task is left cancelling.
CancelWaits(j) == CancelTo(j, "cancelling")

Cancel(j) == CancelTo(j, IF j \in active THEN "cancelling" ELSE "paused")

\* A changed workspace, setting or target is refused before anything changes.
ResumeStarted(s, j) ==
    /\ Admit(s) /\ j \notin active
    /\ jobs[j].status \in {"paused", "failed"}
    /\ ~OtherBusy(j)
    /\ Put(j, [status |-> "queued",
               batch |-> [i \in Batches |->
                            IF jobs[j].batch[i] = "failed" THEN "pending"
                            ELSE jobs[j].batch[i]]])
    /\ Submit(s, j, {"commands"})
    /\ UNCHANGED <<active, stopped, signals, closed, wire, applied>>

\* Mutant: the batch keeps its checkpoint.
ReconcilePaused(j) ==
    /\ jobs[j].status = "reconciliation_required" /\ j \notin active
    /\ Spend("commands")
    /\ Put(j, [jobs[j] EXCEPT !.status = "paused"])
    /\ UNCHANGED <<slot, active, stopped, signals, closed, wire, applied>>

\* The user reports what PostgreSQL shows: the outcome is decided and true.
Reconcile(j) ==
    /\ jobs[j].status = "reconciliation_required" /\ j \notin active
    /\ Spend("commands")
    /\ \E i \in Batches :
         /\ jobs[j].batch[i] = "uncertain"
         /\ \A k \in 1..(i-1) : jobs[j].batch[k] # "uncertain"
         /\ wire[j][i] # "sent"
         /\ LET batch == [jobs[j].batch EXCEPT ![i] =
                            IF applied[j][i] > 0 THEN "committed" ELSE "pending"]
            IN Put(j, [status |-> IF \A k \in Batches : batch[k] = "committed"
                                  THEN "completed" ELSE "paused",
                       batch |-> batch])
    /\ UNCHANGED <<slot, active, stopped, signals, closed, wire, applied>>

Delete(j) ==
    /\ j \notin active
    /\ jobs[j].status \notin Busy \cup {"none", "deleted", "reconciliation_required"}
    /\ Spend("commands")
    /\ Put(j, [jobs[j] EXCEPT !.status = "deleted"])
    /\ UNCHANGED <<slot, active, stopped, signals, closed, wire, applied>>

-----------------------------------------------------------------------------
(* run: claim the job, then its batches one by one *)

\* Under the service lock: give up, pause the job of a closing service, or
\* claim it.  A claim whose answer is lost leaves a document that says
\* "running" and no task.
Claim(s, status, label) ==
    LET j == slot[s].job IN
    /\ \/ /\ Put(j, [jobs[j] EXCEPT !.status = status])
          /\ active' = IF label = "enter" THEN active \cup {j} ELSE active
          /\ stopped' = [stopped EXCEPT ![j] = FALSE]
          /\ Goto(s, label) /\ UNCHANGED used
       \/ /\ \/ load.lost /\ Put(j, [jobs[j] EXCEPT !.status = status])
             \/ UNCHANGED jobs
          /\ Goto(s, "release") /\ Spend("faults")
          /\ UNCHANGED <<active, stopped>>
    /\ UNCHANGED <<signals, closed, wire, applied>>

GiveUp(s) ==
    /\ Goto(s, "release")
    /\ UNCHANGED <<jobs, active, stopped, signals, closed, wire, applied, used>>

Claimable(s) == slot[s].job \notin active /\ jobs[slot[s].job].status = "queued"

\* Mutant: the status is not checked before the claim.
BeginUnclaimed(s) ==
    /\ slot[s].pc = "submitted"
    /\ IF closed \/ jobs[slot[s].job].status = "deleted" THEN GiveUp(s)
       ELSE Claim(s, "running", "enter")

\* Mutant: a closing service drops the task and leaves the job queued.
BeginDropped(s) ==
    /\ slot[s].pc = "submitted"
    /\ IF ~Claimable(s) \/ closed THEN GiveUp(s) ELSE Claim(s, "running", "enter")

Begin(s) ==
    /\ slot[s].pc = "submitted"
    /\ IF ~Claimable(s) THEN GiveUp(s)
       ELSE IF closed THEN Claim(s, "paused", "release")
       ELSE Claim(s, "running", "enter")

\* The cancellation scope refuses further work.
Cut(s) == slot[s].cut \/ stopped[slot[s].job]

EnterScope(s) ==
    /\ slot[s].pc = "enter"
    /\ Goto(s, IF Cut(s) THEN "interrupt" ELSE "next")
    /\ UNCHANGED <<jobs, active, stopped, signals, closed, wire, applied, used>>

Undone(j) == {i \in Batches : jobs[j].batch[i] # "committed"}

First(S) == CHOOSE i \in S : \A k \in S : i <= k

\* Read the checkpoints: finish, or take the first batch not committed.
NextBatch(s) ==
    LET j == slot[s].job
        todo == Undone(j)
        Next(label, i) == slot' = [slot EXCEPT ![s].pc = label, ![s].index = i,
                                               ![s].doubt = FALSE]
    IN
    /\ slot[s].pc = "next"
    /\ \/ /\ Next(IF todo = {} \/ stopped[j] THEN "finish" ELSE "open",
                  IF todo = {} THEN 0 ELSE First(todo))
          /\ UNCHANGED used
       \/ Next("handle", 0) /\ Spend("faults")
    /\ UNCHANGED <<jobs, active, stopped, signals, closed, wire, applied>>

Finish(s) ==
    /\ slot[s].pc = "finish"
    /\ Change(s, [jobs[slot[s].job] EXCEPT
                    !.status = IF slot[s].index = 0 THEN "completed" ELSE "paused"],
              "done", "handle")
    /\ UNCHANGED <<active, stopped, signals, closed, wire, applied>>

\* A changed target or setting, an invalid batch or a refused connection fails
\* the batch before its transaction is open.
OpenBatch(s) ==
    /\ slot[s].pc = "open"
    /\ \/ slot' = [slot EXCEPT ![s].pc = "started", ![s].tx = TRUE]
       \/ Goto(s, "handle")
    /\ UNCHANGED <<jobs, active, stopped, signals, closed, wire, applied, used>>

Mark(s, status) == [jobs[slot[s].job] EXCEPT !.batch[slot[s].index] = status]

Started(s) ==
    /\ slot[s].pc = "started"
    /\ Change(s, Mark(s, "running"), "execute", "handle")
    /\ UNCHANGED <<active, stopped, signals, closed, wire, applied>>

\* Statements fail by themselves or because the scope was cut meanwhile.
Execute(s) ==
    /\ slot[s].pc = "execute"
    /\ \/ ~Cut(s) /\ Goto(s, "precommit")
       \/ Goto(s, "handle")
    /\ UNCHANGED <<jobs, active, stopped, signals, closed, wire, applied, used>>

\* The uncertainty fence: "committing" is durable before COMMIT is sent.
CommittingBatch(s) ==
    /\ slot[s].pc = "precommit"
    /\ Change(s, Mark(s, "committing"), "commit", "handle")
    /\ UNCHANGED <<active, stopped, signals, closed, wire, applied>>

SendCommit(s) ==
    LET j == slot[s].job IN
    /\ slot[s].pc = "commit"
    /\ IF Cut(s)
       THEN /\ slot' = [slot EXCEPT ![s].pc = "handle", ![s].doubt = TRUE]
            /\ UNCHANGED wire
       ELSE /\ slot' = [slot EXCEPT ![s].pc = "await", ![s].doubt = TRUE]
            /\ wire' = [wire EXCEPT ![j][slot[s].index] = "sent"]
    /\ UNCHANGED <<jobs, active, stopped, signals, closed, applied, used>>

\* Mutant: an error of the commit is ignored.
CommitReturnsHopeful(s) ==
    /\ slot[s].pc = "await"
    /\ slot' = [slot EXCEPT ![s].pc = "record", ![s].tx = FALSE]
    /\ UNCHANGED <<jobs, active, stopped, signals, closed, wire, applied, used>>

CommitReturns(s) ==
    LET answer == wire[slot[s].job][slot[s].index]
        Close(label) == slot' = [slot EXCEPT ![s].pc = label, ![s].tx = FALSE]
    IN
    /\ slot[s].pc = "await"
    /\ \/ answer = "yes" /\ Close("record") /\ UNCHANGED used
       \/ answer = "no" /\ Close("handle") /\ UNCHANGED used
       \/ Close("handle") /\ Spend("faults")
    /\ UNCHANGED <<jobs, active, stopped, signals, closed, wire, applied>>

RecordCommitted(s) ==
    /\ slot[s].pc = "record"
    /\ Change(s, Mark(s, "committed"), "next", "handle")
    /\ UNCHANGED <<active, stopped, signals, closed, wire, applied>>

-----------------------------------------------------------------------------
(* Failures *)

\* A rollback that fails leaves the outcome as much in doubt as a lost commit.
Rollback(s) ==
    /\ slot[s].pc = "handle"
    /\ \/ /\ slot' = [slot EXCEPT ![s].pc = "fail", ![s].tx = FALSE]
          /\ UNCHANGED used
       \/ /\ slot[s].tx /\ Spend("faults")
          /\ slot' = [slot EXCEPT ![s].pc = "fail", ![s].tx = FALSE,
                                  ![s].doubt = TRUE]
    /\ UNCHANGED <<jobs, active, stopped, signals, closed, wire, applied>>

FailedJob(s) ==
    LET j == slot[s].job
        i == slot[s].index
    IN [status |-> IF slot[s].doubt THEN "reconciliation_required"
                   ELSE IF stopped[j] THEN "paused" ELSE "failed",
        batch |-> [k \in Batches |->
                     IF k # i THEN jobs[j].batch[k]
                     ELSE IF slot[s].doubt THEN "uncertain" ELSE "failed"]]

Failed(s) ==
    /\ slot[s].pc = "fail"
    /\ Change(s, FailedJob(s), "done", "interrupt")
    /\ UNCHANGED <<active, stopped, signals, closed, wire, applied>>

\* Mutant: a batch in flight is not looked for.
HaltedPaused(value) == [value EXCEPT !.status = "paused"]

\* The document of a job whose task is gone: a batch in flight is uncertain.
Halted(value) ==
    LET inflight == {i \in Batches : value.batch[i] \in {"running", "committing"}}
    IN [status |-> IF inflight = {} THEN "paused" ELSE "reconciliation_required",
        batch |-> [i \in Batches |->
                     IF inflight # {} /\ i = First(inflight) THEN "uncertain"
                     ELSE value.batch[i]]]

Interrupted(s) ==
    /\ slot[s].pc = "interrupt"
    /\ Change(s, Halted(jobs[slot[s].job]), "done", "done")
    /\ UNCHANGED <<active, stopped, signals, closed, wire, applied>>

Deactivate(s) ==
    /\ slot[s].pc = "done"
    /\ active' = active \ {slot[s].job}
    /\ Goto(s, "release")
    /\ UNCHANGED <<jobs, stopped, signals, closed, wire, applied, used>>

Release(s) ==
    /\ slot[s].pc = "release"
    /\ slot' = [slot EXCEPT ![s] = Free]
    /\ UNCHANGED <<jobs, active, stopped, signals, closed, wire, applied, used>>

Outside == {"free", "submitted", "done", "release"}

Running(s) == slot[s].pc \notin Outside

\* The heartbeat thread cannot write: it stops its own job.
HeartbeatFails(s) ==
    /\ Running(s) /\ Spend("faults")
    /\ stopped' = [stopped EXCEPT ![slot[s].job] = TRUE]
    /\ signals' = signals \cup {slot[s].job}
    /\ UNCHANGED <<jobs, slot, active, closed, wire, applied>>

\* A cancellation signal reaches the scope that is registered now, which may
\* belong to a later run of the job.
DeliverSignal(j) ==
    /\ j \in signals
    /\ signals' = signals \ {j}
    /\ slot' = [s \in Slots |->
                  IF slot[s].job = j /\ Running(s)
                  THEN [slot[s] EXCEPT !.cut = TRUE] ELSE slot[s]]
    /\ UNCHANGED <<jobs, active, stopped, closed, wire, applied, used>>

Close ==
    /\ ~closed /\ used["restarts"] < load.restarts
    /\ closed' = TRUE
    /\ stopped' = [j \in Jobs |-> stopped[j] \/ j \in active]
    /\ signals' = signals \cup active
    /\ UNCHANGED <<jobs, slot, active, wire, applied, used>>

\* The process dies, or ends after close, and recover() runs before the next
\* one serves.
Restart ==
    /\ Spend("restarts")
    /\ jobs' = [j \in Jobs |-> IF jobs[j].status \in Busy THEN Halted(jobs[j])
                               ELSE jobs[j]]
    /\ slot' = [s \in Slots |-> Free]
    /\ active' = {} /\ signals' = {} /\ closed' = FALSE
    /\ stopped' = [j \in Jobs |-> FALSE]
    /\ UNCHANGED <<wire, applied>>

\* The server decides a COMMIT it received, whoever is still listening.
Resolve(j, i) ==
    /\ wire[j][i] = "sent"
    /\ \/ /\ wire' = [wire EXCEPT ![j][i] = "yes"]
          /\ applied' = [applied EXCEPT ![j][i] = @ + 1]
       \/ /\ wire' = [wire EXCEPT ![j][i] = "no"]
          /\ UNCHANGED applied
    /\ UNCHANGED <<jobs, slot, active, stopped, signals, closed, used>>

-----------------------------------------------------------------------------
RunStep(s) ==
    \/ Begin(s) \/ EnterScope(s) \/ NextBatch(s) \/ Finish(s) \/ OpenBatch(s)
    \/ Started(s) \/ Execute(s) \/ CommittingBatch(s) \/ SendCommit(s)
    \/ CommitReturns(s) \/ RecordCommitted(s) \/ Rollback(s) \/ Failed(s)
    \/ Interrupted(s) \/ Deactivate(s) \/ Release(s)

Command(j) ==
    \/ Cancel(j) \/ Reconcile(j) \/ Delete(j)
    \/ \E s \in Slots : CreateStarted(s, j) \/ ResumeStarted(s, j)

Next ==
    /\ \/ \E s \in Slots : RunStep(s) \/ HeartbeatFails(s)
       \/ \E j \in Jobs : Command(j) \/ DeliverSignal(j)
       \/ \E j \in Jobs, i \in Batches : Resolve(j, i)
       \/ Close \/ Restart
    /\ UNCHANGED load

Spec == Init /\ [][Next]_vars

\* Pool threads run, the server decides every COMMIT it received.
FairSpec ==
    /\ Spec
    /\ \A s \in Slots : WF_vars(RunStep(s) /\ UNCHANGED load)
    /\ \A j \in Jobs : WF_vars((\E i \in Batches : Resolve(j, i)) /\ UNCHANGED load)

-----------------------------------------------------------------------------
(* Properties *)

\* Every variable has its type.
TypeOK ==
    /\ jobs \in [Jobs -> [status : Busy \cup {"none", "paused", "failed", "completed",
                                              "reconciliation_required", "deleted"},
                          batch : [Batches -> {"pending", "running", "committing",
                                               "committed", "failed", "uncertain"}]]]
    /\ slot \in [Slots -> [pc : Outside \cup {"enter", "next", "finish", "open",
                                "started", "execute", "precommit", "commit", "await",
                                "record", "handle", "fail", "interrupt"},
                           job : Jobs \cup {None}, index : 0..load.batches,
                           tx : BOOLEAN, doubt : BOOLEAN, cut : BOOLEAN]]
    /\ active \subseteq Jobs /\ signals \subseteq Jobs
    /\ stopped \in [Jobs -> BOOLEAN] /\ closed \in BOOLEAN
    /\ wire \in [Jobs -> [Batches -> {"idle", "sent", "yes", "no"}]]
    /\ applied \in [Jobs -> [Batches -> Nat]]
    /\ used \in [Bounds -> Nat]

Live(j) == jobs[j].status \notin {"none", "deleted"}

\* Committed batches are never repeated, across cancellation, resumption,
\* reconciliation and restarts, and take effect in the reviewed order with no
\* gap (_run_batches).
NoBatchRepeated ==
    \A j \in Jobs, i \in Batches :
        /\ applied[j][i] <= 1
        /\ applied[j][i] > 0 => \A k \in 1..(i-1) : applied[j][k] > 0

\* A checkpoint is true of the target: a committed batch is committed, and a
\* pending or failed one neither is nor can still become so.
CheckpointsAreTrue ==
    \A j \in Jobs, i \in Batches : Live(j) =>
        /\ jobs[j].batch[i] = "committed" => applied[j][i] > 0
        /\ jobs[j].batch[i] \in {"pending", "failed"} =>
             applied[j][i] = 0 /\ wire[j][i] # "sent"

\* A cancelled and resumed job may have two tasks submitted.
OneRunner ==
    \A s, t \in Slots :
        Running(s) /\ Running(t) /\ slot[s].job = slot[t].job => s = t

\* A job asks for reconciliation exactly when one of its batches is uncertain,
\* so the command always finds the batch it needs, as long as no metadata
\* COMMIT succeeds and is reported as failed.
UncertainIsVisible ==
    ~load.lost => \A j \in Jobs : Live(j) =>
        (jobs[j].status = "reconciliation_required"
           <=> \E i \in Batches : jobs[j].batch[i] = "uncertain")

OneBusyJobPerOwner ==
    \A j, k \in Jobs :
        /\ jobs[j].status \in Busy /\ jobs[k].status \in Busy
        /\ Owner(j) = Owner(k)
        => j = k

\* Documents and tasks have their shapes, at most one pool thread is inside
\* run() of a job, and one user never has two jobs queued or running.
OneRunnerPerJob == TypeOK /\ OneRunner /\ OneBusyJobPerOwner

\* close() leaves no document that claims to be queued or running, when the
\* metadata store answered.
ShutdownSettles ==
    closed /\ (\A s \in Slots : slot[s].pc = "free") /\ used["faults"] = 0
        => \A j \in Jobs : jobs[j].status \notin Busy

\* A queued job comes to rest, when the metadata store answers.
EventuallyRests ==
    \A j \in Jobs :
        load.faults = 0 /\ jobs[j].status = "queued" ~> jobs[j].status \notin Busy

=============================================================================
