------------------------ MODULE ConsoleTransactions -------------------------
(***************************************************************************)
(* The interactive transactions of the console, of one user in one         *)
(* workspace: the durable receipt (schemii.console_transactions), the      *)
(* session that this process holds for it (_active_transactions) and the   *)
(* transaction in PostgreSQL itself. Requests create a transaction, reserve *)
(* and run statements in it, commit it, roll it back or ask for its state; *)
(* each takes its steps as the locks of                                    *)
(* src/schemii/schemii/console/service.py allow.                           *)
(***************************************************************************)
EXTENDS Naturals, FiniteSets

CONSTANTS
    Txs,                 \* transactions; each is created by a request of its own
    Runs,                \* executions of statements
    Finishers,           \* commit and rollback requests
    Pollers,             \* requests for the state of a transaction, or shutdown
    Loads,               \* bound: the requests that a behaviour may have, with
                         \* how many failing metadata calls, passing deadlines,
                         \* changed connections and restarts, all together
    None

Procs == Txs \cup Runs \cup Finishers \cup Pollers

ASSUME TransactionsAssumption ==
    /\ \A load \in Loads : load.requests \subseteq Procs /\ load.events \in Nat
    /\ None \notin Procs
    /\ Txs \cap Runs = {} /\ Txs \cap Finishers = {} /\ Txs \cap Pollers = {}
    /\ Runs \cap Finishers = {} /\ Runs \cap Pollers = {}
    /\ Finishers \cap Pollers = {}

VARIABLES
    tx,                  \* console_transactions: status and revision
    active,              \* _active_transactions
    registry,            \* who holds _active_transactions_lock for long
    lock,                \* who holds the lock of a session
    pg,                  \* the transaction in PostgreSQL
    wrote,               \* the executions whose statements it has run
    run,                 \* console_executions: status, and the revision that
                         \* the reservation was for
    lapsed,              \* transactions past their deadline
    proc,                \* the requests
    events               \* adversities left, and whether a receipt was not saved

vars == <<tx, active, registry, lock, pg, wrote, run, lapsed, proc, events>>

Live == {"open", "failed"}
Jobs == {"none", "create", "poll", "close", "reserve", "run", "commit", "rollback"}
Steps == {"idle", "existing", "open", "insert", "look", "find", "lock", "check",
          "store", "ready", "execute", "succeed", "fail", "failtx", "finish",
          "uncertain", "drop", "receipt", "dropfail", "expire", "unlist", "undo",
          "close", "expired", "raise", "done"}

\* A request: what it does, to which transaction, the revision it was made
\* for, whether the record it read before the lookup was live, and where an
\* expiry that it met returns to.
NoRequest == [pc |-> "idle", job |-> "none", t |-> None, rev |-> 0, live |-> FALSE,
              back |-> "raise"]

Init ==
    /\ tx = [t \in Txs |-> [status |-> "none", rev |-> 0]]
    /\ active = {}
    /\ registry = None
    /\ lock = [t \in Txs |-> None]
    /\ pg = [t \in Txs |-> "none"]
    /\ wrote = [t \in Txs |-> {}]
    /\ run = [x \in Runs |-> [status |-> "none", rev |-> 0]]
    /\ lapsed = {}
    /\ \E load \in Loads :
         /\ proc = [p \in Procs |-> IF p \in load.requests THEN NoRequest
                                    ELSE [NoRequest EXCEPT !.pc = "done"]]
         /\ events = [left |-> load.events, unsaved |-> FALSE]

Event ==
    /\ events.left > 0
    /\ events' = [events EXCEPT !.left = @ - 1]

\* A call to the metadata store fails; its write may still have happened.
Fault ==
    /\ events.left > 0
    /\ events' = [left |-> events.left - 1, unsaved |-> TRUE]

-----------------------------------------------------------------------------
(* Steps of a request *)

Goto(p, pc) == proc' = [proc EXCEPT ![p].pc = pc]

Unlocked(p) == [t \in Txs |-> IF lock[t] = p THEN None ELSE lock[t]]

\* The request goes on outside the locks it held.
Leave(p, pc) ==
    /\ Goto(p, pc)
    /\ lock' = Unlocked(p)
    /\ registry' = IF registry = p THEN None ELSE registry

\* Mutant: an exception leaves the locks taken.
RaiseHolding(p) ==
    Goto(p, IF proc[p].job = "run" THEN "fail" ELSE "done") /\ UNCHANGED <<lock, registry>>

\* An exception: a run still has to record its failure.
Raise(p) == Leave(p, IF proc[p].job = "run" THEN "fail" ELSE "done")

KeepLocks == UNCHANGED <<lock, registry>>

\* expire_transaction
Expired(t) == IF tx[t].status \in Live
              THEN [tx EXCEPT ![t] = [status |-> "expired", rev |-> @.rev + 1]]
              ELSE tx

\* _transaction_record finds the deadline of a live receipt passed. It does not
\* look at the deadline of the record that it reads again after the expiry.
Due(p) == /\ tx[proc[p].t].status \in Live /\ proc[p].t \in lapsed
          /\ proc[p].back # proc[p].pc

Expire(p) == /\ proc' = [proc EXCEPT ![p].back = proc[p].pc, ![p].pc = "expire"]
             /\ KeepLocks

Closed(t) == pg[t] \in {"committed", "rolledback"}

\* rollback and close of PsycopgConsoleTransaction. In between the connection
\* is "idle": it still takes statements, in a transaction of their own.
Undone(t) == IF Closed(t) THEN pg ELSE [pg EXCEPT ![t] = "rolledback"]

RegistryFree(p) == registry \in {None, p}

-----------------------------------------------------------------------------
(* create_transaction: holds the registry lock from beginning to end *)

BeginCreate(t) ==
    /\ proc[t].pc = "idle" /\ t \in Txs
    /\ registry = None
    /\ registry' = t
    /\ \/ /\ active = {}
          /\ proc' = [proc EXCEPT ![t].pc = "open", ![t].job = "create"]
       \/ \E u \in active :
            proc' = [proc EXCEPT ![t].pc = "existing", ![t].job = "create", ![t].t = u]
    /\ UNCHANGED <<tx, active, lock, pg, wrote, run, lapsed, events>>

\* A live transaction is returned or refused. One past its deadline is expired
\* first; one whose receipt has ended makes room.
Existing(p) ==
    /\ proc[p].pc = "existing"
    /\ \/ /\ CASE Due(p) -> Expire(p)
              [] ~Due(p) /\ tx[proc[p].t].status \in Live -> Leave(p, "done")
              [] OTHER -> Goto(p, "open") /\ KeepLocks
          /\ UNCHANGED events
       \/ Fault /\ Raise(p)
    /\ UNCHANGED <<tx, active, pg, wrote, run, lapsed>>

OpenTransaction(p) ==
    /\ proc[p].pc = "open"
    /\ \/ Goto(p, "insert") /\ KeepLocks /\ pg' = [pg EXCEPT ![p] = "open"]
       \/ Raise(p) /\ UNCHANGED pg
    /\ UNCHANGED <<tx, active, wrote, run, lapsed, events>>

\* Mutant: a refused insert leaves the transaction open.
InsertTransactionLeaks(p) ==
    /\ proc[p].pc = "insert"
    /\ LET unique == \A u \in Txs : tx[u].status \notin Live
           inserted == [tx EXCEPT ![p] = [status |-> "open", rev |-> 1]]
       IN \/ /\ unique
             /\ tx' = inserted
             /\ active' = active \cup {p}
             /\ UNCHANGED <<pg, events>>
          \/ /\ ~unique
             /\ UNCHANGED <<tx, active, pg, events>>
          \/ /\ Fault
             /\ tx' \in {tx, IF unique THEN inserted ELSE tx}
             /\ pg' = Undone(p)
             /\ UNCHANGED active
    /\ Leave(p, "done")
    /\ UNCHANGED <<wrote, run, lapsed>>

\* A unique index keeps one live receipt in a workspace.
InsertTransaction(p) ==
    /\ proc[p].pc = "insert"
    /\ LET unique == \A u \in Txs : tx[u].status \notin Live
           inserted == [tx EXCEPT ![p] = [status |-> "open", rev |-> 1]]
       IN \/ /\ unique
             /\ tx' = inserted
             /\ active' = active \cup {p}
             /\ UNCHANGED <<pg, events>>
          \/ /\ ~unique
             /\ pg' = Undone(p)
             /\ UNCHANGED <<tx, active, events>>
          \/ /\ Fault
             /\ tx' \in {tx, IF unique THEN inserted ELSE tx}
             /\ pg' = Undone(p)
             /\ UNCHANGED active
    /\ Leave(p, "done")
    /\ UNCHANGED <<wrote, run, lapsed>>

-----------------------------------------------------------------------------
(* What reserve, run, commit and rollback share: _session and the lock *)

\* A request is made by somebody who has seen the current revision.
Begin(p, job, t) ==
    /\ proc[p].pc = "idle"
    /\ tx[t].status # "none"
    /\ proc' = [proc EXCEPT ![p] = [pc |-> "look", job |-> job, t |-> t,
                                    rev |-> tx[t].rev, live |-> FALSE,
                                    back |-> "raise"]]
    /\ UNCHANGED <<tx, active, registry, lock, pg, wrote, run, lapsed, events>>

\* _transaction_record, also all that get_transaction does.
Look(p) ==
    /\ proc[p].pc = "look"
    /\ LET t == proc[p].t IN
       \/ /\ IF Due(p) THEN Expire(p)
             ELSE IF proc[p].job = "poll" THEN Leave(p, "done")
             ELSE /\ proc' = [proc EXCEPT ![p].pc = "find", ![p].back = "raise",
                                          ![p].live = tx[t].status \in Live]
                  /\ KeepLocks
          /\ UNCHANGED events
       \/ Fault /\ Raise(p)
    /\ UNCHANGED <<tx, active, pg, wrote, run, lapsed>>

\* A live receipt without a session is expired; so is a session whose
\* connection was revoked or has changed.
Find(p) ==
    /\ proc[p].pc = "find"
    /\ RegistryFree(p)
    /\ LET t == proc[p].t IN
       \/ /\ t \notin active
          /\ tx' = IF proc[p].live THEN Expired(t) ELSE tx
          /\ Raise(p)
          /\ UNCHANGED <<active, events>>
       \/ /\ t \notin active /\ proc[p].live
          /\ Fault
          /\ tx' \in {tx, Expired(t)}
          /\ Raise(p)
          /\ UNCHANGED active
       \/ /\ t \in active
          /\ Goto(p, "lock") /\ KeepLocks
          /\ UNCHANGED <<tx, active, events>>
       \/ /\ t \in active
          /\ Event
          /\ Goto(p, "unlist") /\ KeepLocks
          /\ UNCHANGED <<tx, active>>
    /\ UNCHANGED <<pg, wrote, run, lapsed>>

TakeLock(p) ==
    /\ proc[p].pc = "lock"
    /\ lock[proc[p].t] = None
    /\ lock' = [lock EXCEPT ![proc[p].t] = p]
    /\ Goto(p, "check")
    /\ UNCHANGED <<tx, active, registry, pg, wrote, run, lapsed, events>>

\* Mutant: a confirmation of an older revision is accepted.
CheckAnyRevision(p) ==
    /\ proc[p].pc = "check"
    /\ LET r == tx[proc[p].t]
           job == proc[p].job
           current == r.rev >= proc[p].rev
       IN \/ /\ UNCHANGED events
             /\ CASE job # "close" /\ Due(p) -> Expire(p)
                  [] job = "close" -> Goto(p, "undo") /\ KeepLocks
                  [] ~Due(p) /\ job = "reserve" ->
                       IF r.status = "open" /\ current
                       THEN Goto(p, "store") /\ KeepLocks ELSE Raise(p)
                  [] ~Due(p) /\ job = "run" ->
                       IF r.status = "open"
                       THEN Goto(p, "execute") /\ KeepLocks ELSE Raise(p)
                  [] OTHER ->
                       IF current /\ r.status \in (IF job = "commit" THEN {"open"} ELSE Live)
                       THEN Goto(p, "finish") /\ KeepLocks ELSE Raise(p)
          \/ job # "close" /\ Fault /\ Raise(p)
    /\ UNCHANGED <<tx, active, pg, wrote, run, lapsed>>

\* The record is read again under the lock.
Check(p) ==
    /\ proc[p].pc = "check"
    /\ LET r == tx[proc[p].t]
           job == proc[p].job
           current == r.rev = proc[p].rev
       IN \/ /\ UNCHANGED events
             /\ CASE job # "close" /\ Due(p) -> Expire(p)
                  [] job = "close" -> Goto(p, "undo") /\ KeepLocks
                  [] ~Due(p) /\ job = "reserve" ->
                       IF r.status = "open" /\ current
                       THEN Goto(p, "store") /\ KeepLocks ELSE Raise(p)
                  [] ~Due(p) /\ job = "run" ->
                       IF r.status = "open"
                       THEN Goto(p, "execute") /\ KeepLocks ELSE Raise(p)
                  [] OTHER ->
                       IF current /\ r.status \in (IF job = "commit" THEN {"open"} ELSE Live)
                       THEN Goto(p, "finish") /\ KeepLocks ELSE Raise(p)
          \/ job # "close" /\ Fault /\ Raise(p)
    /\ UNCHANGED <<tx, active, pg, wrote, run, lapsed>>

-----------------------------------------------------------------------------
(* Expiry, with or without the lock of the session *)

\* What follows an expiry: the record is read again where it was found due.
AfterExpiry(p) == IF proc[p].back = "raise" THEN Raise(p)
                  ELSE Goto(p, proc[p].back) /\ KeepLocks

\* _transaction_record looks the session up; without one only the receipt is
\* left to expire.
ExpireLookup(p) ==
    /\ proc[p].pc = "expire"
    /\ RegistryFree(p)
    /\ LET t == proc[p].t IN
       \/ /\ t \in active
          /\ Goto(p, "unlist") /\ KeepLocks
          /\ UNCHANGED <<tx, events>>
       \/ /\ t \notin active
          /\ tx' = Expired(t)
          /\ AfterExpiry(p)
          /\ UNCHANGED events
       \/ /\ t \notin active
          /\ Fault
          /\ tx' \in {tx, Expired(t)}
          /\ Raise(p)
    /\ UNCHANGED <<active, pg, wrote, run, lapsed>>

\* _expire_live_transaction: the session leaves the registry ...
ExpireDrop(p) ==
    /\ proc[p].pc = "unlist"
    /\ RegistryFree(p)
    /\ active' = active \ {proc[p].t}
    /\ Goto(p, "undo") /\ KeepLocks
    /\ UNCHANGED <<tx, pg, wrote, run, lapsed, events>>

\* ... it is rolled back without its lock, also while a run or a commit has it,
\* and closed ...
ExpireUndo(p) ==
    /\ proc[p].pc = "undo"
    /\ IF Closed(proc[p].t)
       THEN UNCHANGED <<pg, wrote>> /\ Goto(p, "expired")
       ELSE /\ pg' = [pg EXCEPT ![proc[p].t] = "idle"]
            /\ wrote' = [wrote EXCEPT ![proc[p].t] = {}]
            /\ Goto(p, "close")
    /\ KeepLocks
    /\ UNCHANGED <<tx, active, run, lapsed, events>>

ExpireClose(p) ==
    /\ proc[p].pc = "close"
    /\ pg' = Undone(proc[p].t)
    /\ Goto(p, "expired") /\ KeepLocks
    /\ UNCHANGED <<tx, active, wrote, run, lapsed, events>>

\* ... and the receipt is expired.
ExpireReceipt(p) ==
    /\ proc[p].pc = "expired"
    /\ \/ tx' = Expired(proc[p].t) /\ UNCHANGED events
       \/ Fault /\ tx' \in {tx, Expired(proc[p].t)}
    /\ AfterExpiry(p)
    /\ UNCHANGED <<active, pg, wrote, run, lapsed>>

\* close: shutdown empties the registry, then rolls back under the lock of the
\* session.
BeginClose(p) ==
    /\ proc[p].pc = "idle"
    /\ RegistryFree(p)
    /\ active' = {}
    /\ \/ active = {} /\ Goto(p, "done")
       \/ \E t \in active :
            /\ (\E u \in active : tx[u].status \in Live) => tx[t].status \in Live
            /\ proc' = [proc EXCEPT ![p].pc = "lock", ![p].job = "close", ![p].t = t]
    /\ UNCHANGED <<tx, registry, lock, pg, wrote, run, lapsed, events>>

-----------------------------------------------------------------------------
(* reserve_transaction_execution and run_transaction *)

\* A reservation is a new revision of the transaction. A deadline that passed
\* since the check expires the transaction.
StoreReservation(p) ==
    /\ proc[p].pc = "store"
    /\ LET t == proc[p].t
           good == tx[t] = [status |-> "open", rev |-> proc[p].rev] /\ t \notin lapsed
           reserved == [tx EXCEPT ![t].rev = @ + 1]
           receipt == [run EXCEPT ![p] = [status |-> "reserved", rev |-> proc[p].rev]]
       IN \/ /\ good
             /\ tx' = reserved /\ run' = receipt
             /\ Leave(p, "ready")
             /\ UNCHANGED events
          \/ /\ ~good /\ t \in lapsed
             /\ proc' = [proc EXCEPT ![p].pc = "unlist", ![p].back = "raise"]
             /\ KeepLocks
             /\ UNCHANGED <<tx, run, events>>
          \/ /\ ~good
             /\ Raise(p)
             /\ UNCHANGED <<tx, run, events>>
          \/ /\ Fault
             /\ \/ good /\ tx' = reserved /\ run' = receipt
                \/ UNCHANGED <<tx, run>>
             /\ Raise(p)
    /\ UNCHANGED <<active, pg, wrote, lapsed>>

\* claim, unless the receipt was cancelled or the store fails, when the failure
\* may not be recorded either.
ClaimRun(p) ==
    /\ proc[p].pc = "ready"
    /\ \/ /\ run' = [run EXCEPT ![p].status = "running"]
          /\ proc' = [proc EXCEPT ![p].pc = "look", ![p].job = "run"]
          /\ UNCHANGED events
       \/ /\ run' = [run EXCEPT ![p].status = "cancelled"]
          /\ Goto(p, "done")
          /\ UNCHANGED events
       \/ /\ Fault
          /\ run' \in {[run EXCEPT ![p].status = s] : s \in {"reserved", "running", "failed"}}
          /\ Goto(p, "done")
    /\ UNCHANGED <<tx, active, registry, lock, pg, wrote, lapsed>>

\* publish_backend may refuse. The statements succeed, or fail in PostgreSQL,
\* which aborts the transaction, or run and are refused here for their size.
Execute(p) ==
    /\ proc[p].pc = "execute"
    /\ LET t == proc[p].t IN
       \/ Raise(p) /\ UNCHANGED <<pg, wrote>>
       \/ /\ pg[t] \in {"open", "idle"}
          /\ pg' = [pg EXCEPT ![t] = "open"]
          /\ wrote' = [wrote EXCEPT ![t] = @ \cup {p}]
          /\ \/ Goto(p, "succeed") /\ KeepLocks
             \/ Raise(p)
       \/ /\ pg[t] \in {"open", "idle"}
          /\ pg' = [pg EXCEPT ![t] = "aborted"]
          /\ Raise(p)
          /\ UNCHANGED wrote
    /\ UNCHANGED <<tx, active, run, lapsed, events>>

Succeed(p) ==
    /\ proc[p].pc = "succeed"
    /\ \/ /\ run' = [run EXCEPT ![p].status = "succeeded"]
          /\ Leave(p, "done")
          /\ UNCHANGED events
       \/ Fault /\ Raise(p) /\ run' \in {run, [run EXCEPT ![p].status = "succeeded"]}
    /\ UNCHANGED <<tx, active, pg, wrote, lapsed>>

\* The exception has left the lock of the session before the failure is
\* recorded, first of the run, then of the transaction.
FailRun(p) ==
    /\ proc[p].pc = "fail"
    /\ \/ /\ run' = IF run[p].status = "succeeded" THEN run
                    ELSE [run EXCEPT ![p].status = "failed"]
          /\ UNCHANGED events
       \/ Fault /\ UNCHANGED run
    /\ Goto(p, "failtx")
    /\ UNCHANGED <<tx, active, registry, lock, pg, wrote, lapsed>>

FailTransaction(p) ==
    /\ proc[p].pc = "failtx"
    /\ LET t == proc[p].t
           failed == IF tx[t].status = "open"
                     THEN [tx EXCEPT ![t] = [status |-> "failed", rev |-> @.rev + 1]]
                     ELSE tx
       IN \/ tx' = failed /\ UNCHANGED events
          \/ Fault /\ tx' \in {tx, failed}
    /\ Goto(p, "done")
    /\ UNCHANGED <<active, registry, lock, pg, wrote, run, lapsed>>

-----------------------------------------------------------------------------
(* _finish_transaction under the lock of the session *)

\* COMMIT of an aborted transaction rolls back and reports no error, nor does
\* one of a connection that an expiry has rolled back. A lost
\* connection leaves the outcome of a COMMIT open. A closed session cannot be
\* committed; rolling it back does nothing.
Finish(p) ==
    /\ proc[p].pc = "finish"
    /\ LET t == proc[p].t
           outcome == IF pg[t] = "open" THEN "committed" ELSE "rolledback"
       IN \/ /\ proc[p].job = "commit" /\ ~Closed(t)
             /\ pg' = [pg EXCEPT ![t] = outcome]
             /\ Goto(p, "drop") /\ KeepLocks
          \/ /\ proc[p].job = "commit" /\ ~Closed(t)
             /\ pg' \in {[pg EXCEPT ![t] = outcome], Undone(t)}
             /\ Goto(p, "uncertain") /\ KeepLocks
          \/ /\ proc[p].job = "commit" /\ ~Closed(t)
             /\ Raise(p)
             /\ UNCHANGED pg
          \/ /\ proc[p].job = "commit" /\ Closed(t)
             /\ Goto(p, "dropfail") /\ KeepLocks
             /\ UNCHANGED pg
          \/ /\ proc[p].job = "rollback"
             /\ pg' = Undone(t)
             /\ Goto(p, "drop") /\ KeepLocks
          \/ /\ proc[p].job = "rollback" /\ ~Closed(t)
             /\ pg' = Undone(t)
             /\ Goto(p, "dropfail") /\ KeepLocks
    /\ UNCHANGED <<tx, active, wrote, run, lapsed, events>>

\* finish_transaction: a receipt that ended stays as it is, another revision
\* is refused.
SaveOutcome(t, rev, status) ==
    LET saved == [tx EXCEPT ![t] = [status |-> status, rev |-> @.rev + 1]] IN
    \/ /\ tx[t].status \in Live /\ tx[t].rev = rev
       /\ tx' = saved /\ UNCHANGED events
    \/ tx[t].status \notin Live /\ UNCHANGED <<tx, events>>
    \/ /\ tx[t].status \in Live /\ tx[t].rev # rev
       /\ events' = [events EXCEPT !.unsaved = TRUE] /\ UNCHANGED tx
    \/ /\ tx[t].status \in Live /\ tx[t].rev = rev
       /\ Fault /\ tx' \in {tx, saved}

\* Mutant: a commit without an answer is taken for a rollback.
UncertainRolledBack(p) ==
    /\ proc[p].pc = "uncertain"
    /\ SaveOutcome(proc[p].t, proc[p].rev, "rolled_back")
    /\ Goto(p, "dropfail") /\ KeepLocks
    /\ UNCHANGED <<active, pg, wrote, run, lapsed>>

Uncertain(p) ==
    /\ proc[p].pc = "uncertain"
    /\ SaveOutcome(proc[p].t, proc[p].rev, "uncertain")
    /\ Goto(p, "dropfail") /\ KeepLocks
    /\ UNCHANGED <<active, pg, wrote, run, lapsed>>

Drop(p) ==
    /\ RegistryFree(p)
    /\ active' = active \ {proc[p].t}
    /\ \/ proc[p].pc = "drop" /\ Goto(p, "receipt") /\ KeepLocks
       \/ proc[p].pc = "dropfail" /\ Raise(p)
    /\ UNCHANGED <<tx, pg, wrote, run, lapsed, events>>

StoreOutcome(p) ==
    /\ proc[p].pc = "receipt"
    /\ SaveOutcome(proc[p].t, proc[p].rev,
                   IF proc[p].job = "commit" THEN "committed" ELSE "rolled_back")
    /\ Leave(p, "done")
    /\ UNCHANGED <<active, pg, wrote, run, lapsed>>

-----------------------------------------------------------------------------
(* Deadlines, a restart, and the specification *)

Lapse(t) ==
    /\ Event
    /\ tx[t].status \in Live /\ t \notin lapsed
    /\ lapsed' = lapsed \cup {t}
    /\ UNCHANGED <<tx, active, registry, lock, pg, wrote, run, proc>>

\* The process dies and PostgreSQL rolls back what it had open. The next one
\* expires the live receipts (recover_transactions) and fails the runs.
Restart ==
    /\ Event
    /\ tx' = [t \in Txs |-> IF tx[t].status \in Live
                            THEN [status |-> "expired", rev |-> tx[t].rev + 1] ELSE tx[t]]
    /\ run' = [x \in Runs |-> IF run[x].status \in {"reserved", "running"}
                              THEN [run[x] EXCEPT !.status = "failed"] ELSE run[x]]
    /\ pg' = [t \in Txs |-> IF Closed(t) \/ pg[t] = "none" THEN pg[t] ELSE "rolledback"]
    /\ active' = {}
    /\ registry' = None
    /\ lock' = [t \in Txs |-> None]
    /\ proc' = [p \in Procs |-> IF proc[p].pc = "idle" THEN proc[p]
                                ELSE [proc[p] EXCEPT !.pc = "done"]]
    /\ UNCHANGED <<wrote, lapsed>>

Step(p) ==
    \/ Existing(p) \/ OpenTransaction(p) \/ InsertTransaction(p)
    \/ Look(p) \/ Find(p) \/ TakeLock(p) \/ Check(p)
    \/ ExpireLookup(p) \/ ExpireDrop(p) \/ ExpireUndo(p) \/ ExpireClose(p)
    \/ ExpireReceipt(p)
    \/ StoreReservation(p) \/ ClaimRun(p) \/ Execute(p) \/ Succeed(p)
    \/ FailRun(p) \/ FailTransaction(p)
    \/ Finish(p) \/ Uncertain(p) \/ Drop(p) \/ StoreOutcome(p)

Next ==
    \/ \E t \in Txs :
         \/ BeginCreate(t)
         \/ Lapse(t)
         \/ \E x \in Runs : Begin(x, "reserve", t)
         \/ \E f \in Finishers, job \in {"commit", "rollback"} : Begin(f, job, t)
         \/ \E q \in Pollers : Begin(q, "poll", t)
    \/ \E q \in Pollers : BeginClose(q)
    \/ \E p \in Procs : Step(p)
    \/ Restart

Spec == Init /\ [][Next]_vars

\* Threads run, and the statement timeout bounds what runs in PostgreSQL. No
\* fairness of the locks is needed: every request takes them finitely often.
FairSpec == Spec /\ \A p \in Procs : WF_vars(Step(p))

-----------------------------------------------------------------------------
(* Properties *)

TypeOK ==
    /\ tx \in [Txs -> [status : {"none", "open", "failed", "committed", "rolled_back",
                                 "uncertain", "expired"}, rev : Nat]]
    /\ active \subseteq Txs
    /\ registry \in Txs \cup {None}
    /\ lock \in [Txs -> Procs \cup {None}]
    /\ pg \in [Txs -> {"none", "open", "aborted", "idle", "committed", "rolledback"}]
    /\ wrote \in [Txs -> SUBSET Runs]
    /\ run \in [Runs -> [status : {"none", "reserved", "running", "succeeded", "failed",
                                   "cancelled"}, rev : Nat]]
    /\ lapsed \subseteq Txs
    /\ proc \in [Procs -> [pc : Steps, job : Jobs, t : Txs \cup {None}, rev : Nat,
                           live : BOOLEAN, back : {"raise", "existing", "look", "check"}]]

SessionsAreLive ==
    \A t \in active : tx[t].status \in Live \/ \E p \in Procs :
        lock[t] = p /\ proc[p].t = t /\ proc[p].pc = "dropfail"

OpenTransactionsAreOwned ==
    \A t \in Txs : pg[t] \notin {"none", "committed", "rolledback"} =>
        \/ t \in active
        \/ proc[t].pc = "insert"
        \/ \E p \in Procs : /\ proc[p].t = t
                            /\ \/ proc[p].pc \in {"undo", "close"}
                               \/ proc[p].job = "close" /\ proc[p].pc \in {"lock", "check"}

\* A session that can be found has a live receipt, or whoever has its lock has
\* just ended the receipt and is about to take the session out; and no
\* transaction is left open in PostgreSQL without somebody who will end it: it
\* is in the registry, being created, or being rolled back by an expiry.
SessionInv == TypeOK /\ SessionsAreLive /\ OpenTransactionsAreOwned

\* Only what the confirmation knew of is committed: every execution in the
\* transaction was reserved at a revision before the confirmed one. And a
\* receipt that recorded a failed statement never becomes "committed", even
\* when the commit passed its check before the failure was recorded.
CommitIsConfirmed ==
    [][\A t \in Txs :
         /\ pg'[t] = "committed" /\ pg[t] # "committed" =>
              \E p \in Finishers :
                /\ proc[p].pc = "finish" /\ proc[p].job = "commit" /\ proc[p].t = t
                /\ \A x \in wrote[t] : run[x].rev < proc[p].rev
         /\ tx[t].status = "failed" => tx'[t].status # "committed"]_vars

\* "rolled_back" is what happened, unless the store failed or refused the
\* receipt of an earlier outcome, which its request has then reported.
RolledBackIsTrue ==
    ~events.unsaved =>
        \A t \in Txs : tx[t].status = "rolled_back" => pg[t] = "rolledback"

\* Every request ends: a run is settled, and nobody waits for a lock forever.
RequestsEnd == <>[](\A p \in Procs : proc[p].pc \in {"idle", "done"})

\* "committed" is what happened: an aborted transaction "can only be rolled
\* back".
CommittedIsTrue ==
    \A t \in Txs : tx[t].status = "committed" => pg[t] = "committed"

-----------------------------------------------------------------------------
(* The inductive invariant behind the safety properties *)

ExpirySteps == {"expire", "unlist", "undo", "close", "expired"}

\* Steps taken under the lock of the session.
LockedSteps == {"check", "store", "execute", "succeed", "finish", "uncertain",
                "drop", "dropfail", "receipt"}

\* The steps of each kind of request.
RoleOK(p) ==
    LET r == proc[p] IN
    /\ r.pc = "idle" => r = NoRequest
    /\ r.job = "none" => r.pc \in {"idle", "done"}
    /\ r.job = "create" => p \in Txs /\ r.pc \in ExpirySteps
                              \cup {"existing", "open", "insert", "done"}
    /\ r.job = "poll" => p \in Pollers /\ r.pc \in ExpirySteps \cup {"look", "done"}
    /\ r.job = "close" => p \in Pollers /\ r.pc \in ExpirySteps
                             \cup {"lock", "check", "done"}
    /\ r.job \in {"reserve", "run"} => p \in Runs
    /\ r.job \in {"commit", "rollback"} => p \in Finishers
    /\ r.pc \in {"existing", "open", "insert"} => r.job = "create"
    /\ r.pc = "find" => r.back = "raise"
    /\ r.back = "existing" => r.job = "create"
    /\ r.back = "look" => r.job \in {"poll", "reserve", "run", "commit", "rollback"}
    /\ r.back = "check" => r.job \in {"reserve", "run", "commit", "rollback"}
    /\ r.pc \in {"store", "ready"} => r.job = "reserve"
    /\ r.pc \in {"execute", "succeed", "fail", "failtx"} => r.job = "run"
    /\ r.pc \in {"finish", "uncertain", "drop", "receipt", "dropfail"} =>
         r.job \in {"commit", "rollback"}

\* Who rolls a session back has taken it out of the registry.
Evicting(p) ==
    \/ proc[p].pc \in {"undo", "close", "expired", "receipt"}
    \/ proc[p].job = "close" /\ proc[p].pc \in {"lock", "check"}

\* What request p may rely on.
RequestOK(p) ==
    LET r == proc[p]
        t == proc[p].t
    IN
    /\ RoleOK(p)
    /\ r.pc \notin {"idle", "done", "open", "insert"} =>
         t \in Txs /\ tx[t].status # "none"
    /\ r.pc \in LockedSteps => lock[t] = p
    /\ r.pc \in ExpirySteps /\ r.back = "check" => lock[t] = p
    /\ Evicting(p) => t \notin active
    /\ r.pc \in {"drop", "receipt", "dropfail", "uncertain", "expired"} => Closed(t)
    /\ r.pc = "finish" => \A x \in wrote[t] : run[x].rev < r.rev
    /\ r.pc = "ready" \/ (r.job = "run" /\ r.pc # "done") => run[p].rev < tx[t].rev
    /\ r.job = "commit" /\ r.pc \in {"finish", "drop", "receipt"} =>
         /\ tx[t].rev >= r.rev
         /\ tx[t].rev = r.rev => tx[t].status = "open"
    /\ r.job = "rollback" /\ r.pc \in {"drop", "receipt"}
         /\ tx[t].status \in Live /\ ~events.unsaved => pg[t] = "rolledback"

\* Each transaction is created once; until then nothing knows of it.
CreationOK(t) ==
    /\ proc[t].pc # "done" => tx[t].status = "none"
    /\ proc[t].pc \notin {"insert", "done"} => pg[t] = "none"
    /\ proc[t].pc = "insert" => pg[t] = "open"
    /\ tx[t].status = "none" => t \notin active /\ wrote[t] = {}
    /\ tx[t].status # "none" => pg[t] # "none"

\* A commit that the receipt does not show yet is about to be recorded.
CommitInHand(t) ==
    pg[t] = "committed" /\ tx[t].status \in Live /\ ~events.unsaved =>
        \E p \in Procs : /\ lock[t] = p /\ proc[p].t = t /\ proc[p].job = "commit"
                         /\ proc[p].pc \in {"uncertain", "drop", "receipt"}

\* create_transaction lets one transaction of the workspace be open at a time.
OneLive == \A t, u \in Txs : tx[t].status \in Live /\ tx[u].status \in Live => t = u

\* The inductive invariant.  Sessions are owned and a receipt that says rolled
\* back is true, because: each request stands where its kind may stand and holds
\* the session lock its step needs; whoever rolls a session back outside that
\* lock has taken it out of the registry first (_expire_live_transaction); a
\* transaction exists only after its creation; a commit the receipt does not
\* show yet is in the hands of the request that sent it (_finish_transaction);
\* and what a transaction wrote was reserved at an older revision of its receipt
\* (reserve_transaction_execution), so a commit confirmed at a revision covers it.
TransactionsInv ==
    /\ SessionInv
    /\ RolledBackIsTrue
    /\ OneLive
    /\ events \in [left : Nat, unsaved : BOOLEAN]
    /\ \A p \in Procs : RequestOK(p)
    /\ \A t \in Txs : CreationOK(t) /\ CommitInHand(t)
    /\ \A t \in Txs : \A x \in wrote[t] : proc[x].job = "run" /\ run[x].rev < tx[t].rev

=============================================================================
