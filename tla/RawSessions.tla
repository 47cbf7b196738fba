---------------------------- MODULE RawSessions -----------------------------
(***************************************************************************)
(* The database sessions of the SQL console, in which people run their own *)
(* SQL: RawSessionService and CopyDownload of                              *)
(* src/schemii/schemii/console/raw_session.py over RawSession of           *)
(* src/schemii/common/postgres/console/raw.py.                             *)
(*                                                                         *)
(* A session is one PostgreSQL connection. Its signal lock makes each      *)
(* change of its state one step; its operation lock belongs to the request *)
(* that uses the connection. A script is a sequence of writes and COMMITs. *)
(***************************************************************************)
EXTENDS Naturals, Sequences, FiniteSets

CONSTANTS
    Sessions,            \* sessions, each opened by a request of its own
    Owner, Console,      \* who opens a session, and for which of their consoles
    Reqs,                \* executions and COPY transfers
    Loads,               \* bound: the sessions and, by request, the tasks of a
                         \* behaviour, with how many cancellations, closings,
                         \* idle timeouts and a shutdown, all together
    MaximumLive,         \* sessions of everybody
    MaximumOwned,        \* sessions of one owner
    MaximumPending,      \* statements of a transaction that are listed
    None

\* What a request may be asked to do. A script has a statement: text without
\* one, such as a comment, sends nothing.
Task == [kind : {"run", "download", "upload"}, mode : {"manual", "each", "whole"},
         script : {q \in Seq({"write", "commit"}) : Len(q) > 0}, review : BOOLEAN]

ASSUME RawAssumption ==
    /\ None \notin Reqs \cup Sessions
    /\ MaximumLive \in Nat \ {0} /\ MaximumOwned \in Nat \ {0} /\ MaximumPending \in Nat
    /\ \A load \in Loads : /\ load.sessions \subseteq Sessions /\ load.events \in Nat
                           /\ load.tasks \in [Reqs -> SUBSET Task]

VARIABLES
    sess,                \* the sessions
    registry,            \* RawSessionService.sessions
    opening,             \* RawSessionService.opening
    create,              \* how far the request that opens a session got
    closed,              \* RawSessionService.closed
    shut,                \* the shutdown: its step, the sessions left, the one at hand
    req,                 \* the requests
    durable,             \* statements whose effect PostgreSQL has committed
    tasks,               \* what each request may be asked to do
    events               \* cancellations, closings, timeouts left

vars == <<sess, registry, opening, create, closed, shut, req, durable, tasks, events>>

\* operation: who holds the operation lock. cancelled: the event of the
\* session. flag: the event of the RawSession, which fences the next command.
\* txn, content: the transaction in PostgreSQL and the statements in it.
\* pending, truncated: what is shown of it.
NoSession == [status |-> "none", rev |-> 0, operation |-> None, started |-> FALSE,
              cancelled |-> FALSE, flag |-> FALSE, txn |-> "closed", content |-> {},
              pending |-> {}, truncated |-> FALSE]

\* seen: what a reviewer saw pending; exp: the revision that they saw, if any.
\* done: how many statements have a result. stopped: it was told to stop.
\* allowed: what is_authorized answers; a person's own requests are always
\* allowed, those that an assistant makes for them may be revoked.
NoRequest == [pc |-> "idle", s |-> None, kind |-> "run", mode |-> "manual",
              script |-> <<>>, exp |-> 0, seen |-> {}, partly |-> FALSE, pos |-> 1,
              done |-> 0, err |-> "none", status |-> "none", stopped |-> FALSE,
              allowed |-> TRUE]

Init ==
    /\ sess = [s \in Sessions |-> NoSession]
    /\ registry = {} /\ opening = {} /\ closed = FALSE /\ durable = {}
    /\ shut = [pc |-> "none", todo |-> {}, at |-> None]
    /\ req = [r \in Reqs |-> NoRequest]
    /\ \E load \in Loads :
         /\ create = [s \in Sessions |-> IF s \in load.sessions THEN "none" ELSE "done"]
         /\ tasks = [r \in Reqs |-> load.tasks[r]]
         /\ events = load.events

Event == events > 0 /\ events' = events - 1

Open == {"idle", "intrans", "inerror"}
Unfinished == {"intrans", "inerror"}

\* The statements of a request; a transfer has one.
Own(r) == {<<r, i>> : i \in 1..Len(req[r].script)}

-----------------------------------------------------------------------------
(* Opening a session *)

Theirs(S, s) == {x \in S : Owner[x] = Owner[s]}

BeginCreate(s) ==
    /\ create[s] = "none"
    /\ IF \/ closed
          \/ Cardinality(registry) + Cardinality(opening) >= MaximumLive
          \/ Cardinality(Theirs(registry, s)) + Cardinality(Theirs(opening, s)) >= MaximumOwned
          \/ \E x \in Theirs(registry \cup opening, s) : Console[x] = Console[s]
       THEN create' = [create EXCEPT ![s] = "done"] /\ UNCHANGED opening
       ELSE create' = [create EXCEPT ![s] = "connect"] /\ opening' = opening \cup {s}
    /\ UNCHANGED <<sess, registry, closed, shut, req, durable, tasks, events>>

\* The connection is made, or refused.
ConnectRaw(s) ==
    /\ create[s] = "connect"
    /\ \/ /\ create' = [create EXCEPT ![s] = "register"]
          /\ sess' = [sess EXCEPT ![s].txn = "idle"]
       \/ /\ create' = [create EXCEPT ![s] = "leave"]
          /\ UNCHANGED sess
    /\ UNCHANGED <<registry, opening, closed, shut, req, durable, tasks, events>>

\* Mutant: a session that was opened during the shutdown is registered.
RegisterAnyway(s) ==
    /\ create[s] = "register"
    /\ create' = [create EXCEPT ![s] = "leave"]
    /\ sess' = [sess EXCEPT ![s].status = "open", ![s].rev = 1]
    /\ registry' = registry \cup {s}
    /\ UNCHANGED <<opening, closed, shut, req, durable, tasks, events>>

Register(s) ==
    /\ create[s] = "register"
    /\ create' = [create EXCEPT ![s] = "leave"]
    /\ IF closed
       THEN sess' = [sess EXCEPT ![s].txn = "closed"] /\ UNCHANGED registry
       ELSE /\ sess' = [sess EXCEPT ![s].status = "open", ![s].rev = 1]
            /\ registry' = registry \cup {s}
    /\ UNCHANGED <<opening, closed, shut, req, durable, tasks, events>>

LeaveOpening(s) ==
    /\ create[s] = "leave"
    /\ create' = [create EXCEPT ![s] = "done"]
    /\ opening' = opening \ {s}
    /\ UNCHANGED <<sess, registry, closed, shut, req, durable, tasks, events>>

-----------------------------------------------------------------------------
(* The locks of a session *)

\* claim, under the signal lock.
Claimable(s, exp) ==
    /\ ~closed /\ sess[s].status # "closed"
    /\ exp \in {0, sess[s].rev}
    /\ sess[s].operation = None

Claimed(s, r, started) ==
    [sess EXCEPT ![s].operation = r, ![s].started = started, ![s].status = "running",
                 ![s].cancelled = FALSE, ![s].flag = FALSE, ![s].rev = @ + 1]

\* release
Released(s) ==
    IF sess[s].status = "closed" THEN sess
    ELSE [sess EXCEPT ![s].operation = None, ![s].status = "open", ![s].rev = @ + 1]

\* _close_claimed; PostgreSQL rolls back what was not committed.
ClosedSession(s) ==
    [sess EXCEPT ![s].status = "closed", ![s].operation = None, ![s].flag = TRUE,
                 ![s].txn = "closed", ![s].content = {}]

\* cancel, under the signal lock: transfers that were not begun fail, and the
\* command that runs, or the next one, is stopped.
Cancelled(s) ==
    [sess EXCEPT ![s].cancelled = TRUE, ![s].flag = @ \/ sess[s].status = "running"]

Stopped(s) ==
    [r \in Reqs |->
       IF req[r].s = s /\ req[r].pc = "ticket"
       THEN [req[r] EXCEPT !.pc = "done", !.status = "failed"]
       ELSE IF sess[s].status = "running" /\ sess[s].operation = r
       THEN [req[r] EXCEPT !.stopped = TRUE]
       ELSE req[r]]

Cancel(s) ==
    /\ Event
    /\ s \in registry
    /\ sess' = Cancelled(s)
    /\ req' = Stopped(s)
    /\ UNCHANGED <<registry, opening, create, closed, shut, durable, tasks>>

\* close_session, refused while an operation runs.
CloseSession(s) ==
    /\ Event
    /\ s \in registry
    /\ Claimable(s, 0)
    /\ sess' = [ClosedSession(s) EXCEPT ![s].rev = @ + 1]
    /\ registry' = registry \ {s}
    /\ UNCHANGED <<opening, create, closed, shut, req, durable, tasks>>

\* reap: the deadline is compared again under the signal lock.
Reap(s) ==
    /\ Event
    /\ s \in registry
    /\ sess[s].status = "open" /\ sess[s].operation = None
    /\ sess' = ClosedSession(s)
    /\ registry' = registry \ {s}
    /\ UNCHANGED <<opening, create, closed, shut, req, durable, tasks>>

-----------------------------------------------------------------------------
(* Asking for an execution or a transfer *)

\* validate_policy, also called again when the operation has been claimed:
\* with an automatic commit policy no transaction may be open, and the script
\* may not have transaction commands.
PolicyHolds(s, mode, script) ==
    mode # "manual" => /\ sess[s].txn = "idle"
                       /\ \A i \in DOMAIN script : script[i] # "commit"

\* Somebody looks at the session before they decide: view.
Review(r, s) ==
    /\ req[r].pc = "idle" /\ req[r].exp = 0
    /\ s \in registry /\ sess[s].status # "closed"
    /\ \E task \in tasks[r] : task.review
    /\ req' = [req EXCEPT ![r].s = s, ![r].exp = sess[s].rev, ![r].seen = sess[s].pending,
                          ![r].partly = sess[s].truncated]
    /\ UNCHANGED <<sess, registry, opening, create, closed, shut, durable, tasks, events>>

\* The policy is compared before the session is claimed.
Ask(r, s, task) ==
    /\ req[r].pc = "idle"
    /\ task.review = (req[r].exp # 0) /\ (task.review => s = req[r].s)
    /\ s \in registry
    /\ PolicyHolds(s, task.mode, task.script)
    /\ req' = [req EXCEPT ![r].pc = IF task.kind = "run" THEN "reserve" ELSE "ticket",
                          ![r].s = s, ![r].kind = task.kind, ![r].mode = task.mode,
                          ![r].script = task.script]
    /\ UNCHANGED <<sess, registry, opening, create, closed, shut, durable, tasks, events>>

\* Mutant: the revision that was reviewed is not compared.
ReserveUnreviewed(r) ==
    /\ req[r].pc \in {"reserve", "ticket"}
    /\ LET s == req[r].s
           started == req[r].kind = "upload"
       IN IF Claimable(s, 0) /\ (req[r].pc = "reserve" \/ req[r].allowed)
          THEN /\ sess' = Claimed(s, r, started)
               /\ req' = [req EXCEPT ![r].pc = IF started THEN "policy" ELSE "start",
                                     ![r].status = "reserved"]
          ELSE /\ req' = [req EXCEPT ![r].pc = "done"]
               /\ UNCHANGED sess
    /\ UNCHANGED <<registry, opening, create, closed, shut, durable, tasks, events>>

\* reserve, download, upload_copy: the session is claimed or the request is
\* refused. An upload goes on at once; the others are dispatched later.
Reserve(r) ==
    /\ req[r].pc \in {"reserve", "ticket"}
    /\ LET s == req[r].s
           started == req[r].kind = "upload"
       IN IF Claimable(s, req[r].exp) /\ (req[r].pc = "reserve" \/ req[r].allowed)
          THEN /\ sess' = Claimed(s, r, started)
               /\ req' = [req EXCEPT ![r].pc = IF started THEN "policy" ELSE "start",
                                     ![r].status = "reserved"]
          ELSE /\ req' = [req EXCEPT ![r].pc = "done"]
               /\ UNCHANGED sess
    /\ UNCHANGED <<registry, opening, create, closed, shut, durable, tasks, events>>

-----------------------------------------------------------------------------
(* run, CopyDownload.stream and upload_copy *)

Goto(r, pc) == req' = [req EXCEPT ![r].pc = pc]

\* The request goes on with its cleanup: track_pending, then release.
Ends(r, status) == req' = [req EXCEPT ![r].pc = "track", ![r].status = status]

OnlyReq == UNCHANGED <<sess, registry, opening, create, closed, shut, durable, tasks, events>>
OnlyConnection == UNCHANGED <<registry, opening, create, closed, shut, tasks, events>>

\* Mutant: the dispatch of a reservation is not fenced.
StartUnfenced(r) ==
    /\ req[r].pc = "start"
    /\ sess' = [sess EXCEPT ![req[r].s].started = TRUE]
    /\ Goto(r, IF req[r].kind = "run" THEN "history" ELSE "policy")
    /\ UNCHANGED <<registry, opening, create, closed, shut, durable, tasks, events>>

\* start_reserved, under the signal lock.
Start(r) ==
    /\ req[r].pc = "start"
    /\ LET s == req[r].s IN
       IF closed \/ sess[s].status = "closed" \/ sess[s].cancelled
       THEN /\ IF req[r].kind = "run"
               THEN req' = [req EXCEPT ![r].pc = "release", ![r].status = "cancelled"]
               ELSE Ends(r, "failed")
            /\ UNCHANGED sess
       ELSE /\ sess' = [sess EXCEPT ![s].started = TRUE]
            /\ Goto(r, IF req[r].kind = "run" THEN "history" ELSE "policy")
    /\ UNCHANGED <<registry, opening, create, closed, shut, durable, tasks, events>>

\* A download whose client leaves before the first byte is never started.
AbandonDownload(r) ==
    /\ req[r].pc = "start" /\ req[r].kind = "download"
    /\ req' = [req EXCEPT ![r].pc = "release", ![r].status = "failed"]
    /\ OnlyReq

\* CopyDownload.cancel: the client leaves.
Disconnect(r) ==
    /\ Event
    /\ req[r].kind = "download" /\ req[r].pc \in {"start", "policy", "statement", "track", "release"}
    /\ sess' = [sess EXCEPT ![req[r].s].flag = TRUE]
    /\ req' = [req EXCEPT ![r].stopped = TRUE]
    /\ UNCHANGED <<registry, opening, create, closed, shut, durable, tasks>>

\* The permission of an assistant is revoked.
Revoke(r) ==
    /\ Event
    /\ req[r].pc \notin {"idle", "done"} /\ req[r].allowed
    /\ req' = [req EXCEPT ![r].allowed = FALSE]
    /\ UNCHANGED <<sess, registry, opening, create, closed, shut, durable, tasks>>

\* What run looks at between its commands.
Told(r) == sess[req[r].s].cancelled \/ ~req[r].allowed

Raises(r, err) == req' = [req EXCEPT ![r].pc = "except", ![r].err = err]
Breaks(r, err) == req' = [req EXCEPT ![r].pc = "check", ![r].err = err]

\* The query history is written, which may fail.
History(r) ==
    /\ req[r].pc = "history"
    /\ \/ /\ IF Told(r) THEN Ends(r, "cancelled")
             ELSE Goto(r, IF req[r].mode = "each" THEN "statement" ELSE "policy")
       \/ Raises(r, "error")
    /\ OnlyReq

\* The commit mode of a transfer is never that of a whole run.
Mode(r) == IF req[r].kind # "run" /\ req[r].mode = "whole" THEN "each" ELSE req[r].mode
Whole(r) == Mode(r) = "whole"
Command(r) == req[r].script[req[r].pos]

\* prepare_policy: the policy is compared again and a transaction begun where
\* it asks for one. The BEGIN is fenced like any command. A round of a manual
\* script looks first whether it was told to stop.
PreparePolicy(r) ==
    /\ req[r].pc = "policy"
    /\ LET s == req[r].s
           stop == req[r].kind = "run" /\ Mode(r) = "manual" /\ Told(r)
           begin == Whole(r) \/ (Mode(r) = "manual" /\ sess[s].txn = "idle"
                                                    /\ Command(r) # "commit")
           refused == \/ req[r].kind = "download" /\ ~req[r].allowed
                      \/ ~PolicyHolds(s, Mode(r), req[r].script)
                      \/ begin /\ sess[s].flag
       IN \/ stop /\ Breaks(r, "cancel") /\ UNCHANGED sess
          \/ ~stop /\ (refused \/ begin) /\ Raises(r, "error") /\ UNCHANGED sess
          \/ ~stop /\ ~refused /\ ~begin /\ Goto(r, "statement") /\ UNCHANGED sess
          \/ /\ ~stop /\ ~refused /\ begin
             /\ \/ Goto(r, "statement") /\ sess' = [sess EXCEPT ![s].txn = "intrans"]
                \/ Raises(r, "lost") /\ sess' = [sess EXCEPT ![s].txn = "unknown"]
    /\ UNCHANGED durable
    /\ OnlyConnection

\* What PostgreSQL does with one statement, or with the script of a whole run:
\* the COMMIT of a transaction in error rolls it back.
Sent(r) == IF Whole(r) THEN Own(r) ELSE {<<r, req[r].pos>>}

Succeeds(r) ==
    LET s == req[r].s
        t == sess[s].txn
    IN \/ /\ Command(r) = "commit"
          /\ durable' = IF t = "intrans" THEN durable \cup sess[s].content ELSE durable
          /\ sess' = [sess EXCEPT ![s].txn = "idle", ![s].content = {}]
       \/ /\ Command(r) = "write" /\ t = "idle"
          /\ durable' = durable \cup Sent(r)
          /\ UNCHANGED sess
       \/ /\ Command(r) = "write" /\ t = "intrans"
          /\ sess' = [sess EXCEPT ![s].content = @ \cup Sent(r)]
          /\ UNCHANGED durable

\* A failed statement leaves its transaction in error; a failed COMMIT ends it.
Fails(r) ==
    LET s == req[r].s IN
    /\ sess' = IF Command(r) = "commit"
               THEN [sess EXCEPT ![s].txn = "idle", ![s].content = {}]
               ELSE [sess EXCEPT ![s].txn = IF @ = "idle" THEN @ ELSE "inerror"]
    /\ UNCHANGED durable

\* The connection is lost: what was sent may have been committed.
Lost(s, committed) ==
    /\ sess' = [sess EXCEPT ![s].txn = "unknown", ![s].content = {}]
    /\ durable' \in {durable, durable \cup committed}

MayCommit(r) ==
    LET s == req[r].s IN
    IF Command(r) = "commit" /\ sess[s].txn = "intrans" THEN sess[s].content
    ELSE IF Command(r) = "write" /\ sess[s].txn = "idle" THEN Sent(r) ELSE {}

\* A script goes on with its next statement, or to its end.
Continues(r) ==
    LET done == IF Whole(r) THEN Len(req[r].script) ELSE req[r].pos
        last == done = Len(req[r].script)
    IN req' = [req EXCEPT ![r].done = done, ![r].pos = IF last THEN @ ELSE @ + 1,
                          ![r].pc = IF last THEN "check"
                                    ELSE IF Mode(r) = "manual" THEN "policy" ELSE "statement"]

\* Mutant: a signal is looked for only where a round begins.
StatementUnfenced(r) ==
    /\ req[r].pc = "statement" /\ req[r].kind = "run"
    /\ IF Mode(r) # "manual" /\ Told(r)
       THEN Breaks(r, "cancel") /\ UNCHANGED <<sess, durable>>
       ELSE sess[req[r].s].txn \in Open /\ Succeeds(r) /\ Continues(r)
    /\ OnlyConnection

\* A round of the loop of run: execute sends nothing once a signal has come.
Statement(r) ==
    /\ req[r].pc = "statement" /\ req[r].kind = "run"
    /\ LET s == req[r].s
           stop == (Mode(r) # "manual" /\ Told(r)) \/ sess[s].flag
       IN \/ stop /\ Breaks(r, "cancel") /\ UNCHANGED <<sess, durable>>
          \/ /\ ~stop /\ sess[s].txn \in Open
             /\ \/ Succeeds(r) /\ Continues(r)
                \/ Fails(r) /\ \E err \in {"error", "cancel"} : Breaks(r, err)
                \/ Lost(s, MayCommit(r)) /\ Raises(r, "lost")
          \/ /\ ~stop /\ sess[s].txn \notin Open
             /\ Raises(r, "lost")
             /\ UNCHANGED <<sess, durable>>
    /\ OnlyConnection

\* The COPY of a transfer, with the bytes that follow it. When its cleanup
\* fails too the connection is closed, and the session stays registered.
Transfer(r) ==
    /\ req[r].pc = "statement" /\ req[r].kind # "run"
    /\ LET s == req[r].s IN
       \/ /\ sess[s].flag \/ sess[s].txn \notin Open
          /\ Ends(r, "failed")
          /\ UNCHANGED <<sess, durable>>
       \/ /\ ~sess[s].flag /\ sess[s].txn \in Open
          /\ \/ req[r].allowed /\ Succeeds(r) /\ Ends(r, "succeeded")
             \/ Fails(r) /\ Ends(r, "failed")
             \/ Lost(s, MayCommit(r)) /\ Ends(r, "failed")
    /\ OnlyConnection

StatusOf(err) == IF err = "cancel" THEN "cancelled" ELSE IF err = "error" THEN "failed" ELSE "succeeded"

RolledBack(s) == [sess EXCEPT ![s].txn = "idle", ![s].content = {}]

\* Mutant: a whole run that failed leaves its transaction as it is.
CheckKeepsTransaction(r) ==
    /\ req[r].pc = "check"
    /\ LET err == IF Told(r) /\ req[r].err = "none" THEN "cancel" ELSE req[r].err
       IN IF Whole(r) /\ err = "none" THEN Goto(r, "commit")
          ELSE req' = [req EXCEPT ![r].pc = "track", ![r].err = err, ![r].status = StatusOf(err)]
    /\ UNCHANGED <<sess, durable>>
    /\ OnlyConnection

\* The loop is over. A whole run is rolled back, or goes on to its COMMIT.
Check(r) ==
    /\ req[r].pc = "check"
    /\ LET s == req[r].s
           err == IF Told(r) /\ req[r].err = "none" THEN "cancel" ELSE req[r].err
       IN \/ Whole(r) /\ err = "none" /\ Goto(r, "commit") /\ UNCHANGED sess
          \/ /\ ~Whole(r)
             /\ req' = [req EXCEPT ![r].pc = "track", ![r].err = err, ![r].status = StatusOf(err)]
             /\ UNCHANGED sess
          \/ /\ Whole(r) /\ err # "none"
             /\ \/ /\ req' = [req EXCEPT ![r].pc = "track", ![r].err = err,
                                         ![r].status = StatusOf(err)]
                   /\ sess' = RolledBack(s)
                \/ /\ Raises(r, "lost")
                   /\ sess' = [sess EXCEPT ![s].txn = "unknown", ![s].content = {}]
    /\ UNCHANGED durable
    /\ OnlyConnection

\* The COMMIT of a whole run, fenced like any command.
CommitWhole(r) ==
    /\ req[r].pc = "commit"
    /\ LET s == req[r].s IN
       \/ sess[s].flag /\ Breaks(r, "cancel") /\ UNCHANGED <<sess, durable>>
       \/ /\ ~sess[s].flag
          /\ \/ /\ durable' = durable \cup sess[s].content
                /\ sess' = RolledBack(s)
                /\ Ends(r, "succeeded")
             \/ /\ sess' = RolledBack(s)
                /\ \E status \in {"failed", "cancelled"} : Ends(r, status)
                /\ UNCHANGED durable
             \/ Lost(s, sess[s].content) /\ Raises(r, "lost")
    /\ OnlyConnection

\* The handler of run, and of a transfer: a whole run is rolled back, or its
\* connection closed.
Except(r) ==
    /\ req[r].pc = "except"
    /\ LET s == req[r].s IN
       /\ Ends(r, IF req[r].kind # "run" THEN "failed"
                  ELSE IF req[r].err = "lost" THEN "uncertain"
                  ELSE IF sess[s].cancelled THEN "cancelled" ELSE "failed")
       /\ IF Whole(r) /\ sess[s].txn \in Unfinished
          THEN \/ sess' = RolledBack(s)
               \/ sess' = [RolledBack(s) EXCEPT ![s].txn = "unknown", ![s].flag = TRUE]
          ELSE UNCHANGED sess
    /\ UNCHANGED durable
    /\ OnlyConnection

\* track_pending: what the loop over the script adds to the list. A COMMIT that
\* has a result starts the list again; of a script that ended early the first
\* statement without a result is listed too. A transfer has no results.
Listed(r) ==
    LET q == req[r]
        shown == {i \in 1..Len(q.script) :
                    IF q.status = "succeeded" THEN q.done = 0 \/ i <= q.done
                    ELSE i <= q.done + 1}
        commits == {i \in 1..q.done : q.script[i] = "commit"}
    IN [clear |-> commits # {}, new |-> {i \in shown : \A j \in commits : j < i}]

TrackPending(r) ==
    /\ req[r].pc = "track"
    /\ Goto(r, "release")
    /\ LET s == req[r].s
           listed == Listed(r)
           old == IF listed.clear THEN {} ELSE sess[s].pending
           kept == {i \in listed.new :
                      Cardinality(old) + Cardinality({j \in listed.new : j < i}) < MaximumPending}
       IN sess' = IF sess[s].txn \in Unfinished
                  THEN [sess EXCEPT ![s].pending = old \cup {<<r, i>> : i \in kept},
                                    ![s].truncated = (@ /\ ~listed.clear) \/ kept # listed.new]
                  ELSE [sess EXCEPT ![s].pending = {}, ![s].truncated = FALSE]
    /\ UNCHANGED durable
    /\ OnlyConnection

\* Mutant: the operation lock stays with a request that lost its connection.
ReleaseIfOpen(r) ==
    /\ req[r].pc = "release"
    /\ Goto(r, "done")
    /\ sess' = IF sess[req[r].s].txn \in Open THEN Released(req[r].s) ELSE sess
    /\ UNCHANGED durable
    /\ OnlyConnection

Release(r) ==
    /\ req[r].pc = "release"
    /\ Goto(r, "done")
    /\ sess' = Released(req[r].s)
    /\ UNCHANGED durable
    /\ OnlyConnection

-----------------------------------------------------------------------------
(* Shutting down: RawSessionService.close *)

BeginShutdown ==
    /\ Event
    /\ shut.pc = "none"
    /\ closed' = TRUE
    /\ shut' = [pc |-> "sessions", todo |-> registry, at |-> None]
    /\ UNCHANGED <<sess, registry, opening, create, req, durable, tasks>>

\* A session is told to stop; a reservation that was not dispatched is retired.
ShutdownCancel(s) ==
    /\ shut.pc = "sessions" /\ shut.at = None /\ s \in shut.todo
    /\ LET retire == sess[s].status = "running" /\ ~sess[s].started
           skip == sess[s].status = "closed"
       IN /\ shut' = IF skip \/ retire THEN [shut EXCEPT !.todo = @ \ {s}]
                     ELSE [shut EXCEPT !.at = s]
          /\ sess' = IF skip THEN sess
                     ELSE IF retire THEN [ClosedSession(s) EXCEPT ![s].cancelled = TRUE]
                     ELSE Cancelled(s)
          /\ req' = IF skip THEN req ELSE Stopped(s)
          /\ registry' = IF retire THEN registry \ {s} ELSE registry
    /\ UNCHANGED <<opening, create, closed, durable, tasks, events>>

\* It waits for the operation lock, then closes the session.
ShutdownClose ==
    /\ shut.at # None
    /\ LET s == shut.at IN
       /\ sess[s].operation = None
       /\ shut' = [shut EXCEPT !.at = None, !.todo = @ \ {s}]
       /\ sess' = IF sess[s].status = "closed" THEN sess ELSE ClosedSession(s)
       /\ registry' = registry \ {s}
    /\ UNCHANGED <<opening, create, closed, req, durable, tasks, events>>

\* It waits for the sessions that are being opened.
EndShutdown ==
    /\ shut.pc = "sessions" /\ shut.at = None /\ shut.todo = {} /\ opening = {}
    /\ shut' = [shut EXCEPT !.pc = "done"]
    /\ UNCHANGED <<sess, registry, opening, create, closed, req, durable, tasks, events>>

-----------------------------------------------------------------------------

Opener(s) == ConnectRaw(s) \/ Register(s) \/ LeaveOpening(s)
Worker(r) ==
    \/ req[r].pc = "reserve" /\ Reserve(r)
    \/ Start(r) \/ History(r) \/ PreparePolicy(r) \/ Statement(r) \/ Transfer(r)
    \/ Check(r) \/ CommitWhole(r) \/ Except(r) \/ TrackPending(r) \/ Release(r)
Shutdown == (\E s \in Sessions : ShutdownCancel(s)) \/ ShutdownClose \/ EndShutdown

Next ==
    \/ \E s \in Sessions : BeginCreate(s) \/ Opener(s) \/ Cancel(s) \/ CloseSession(s) \/ Reap(s)
    \/ \E r \in Reqs :
         \/ \E s \in Sessions : Review(r, s) \/ \E task \in tasks[r] : Ask(r, s, task)
         \/ req[r].pc = "ticket" /\ Reserve(r)
         \/ Worker(r) \/ AbandonDownload(r) \/ Disconnect(r) \/ Revoke(r)
    \/ BeginShutdown \/ Shutdown

\* Threads that have begun go on: PostgreSQL answers, is cancelled or lost.
Fairness ==
    /\ \A s \in Sessions : WF_vars(Opener(s))
    /\ \A r \in Reqs : WF_vars(Worker(r))
    /\ WF_vars(Shutdown)

Spec == Init /\ [][Next]_vars /\ Fairness

-----------------------------------------------------------------------------
(* Properties *)

Using == {"history", "policy", "statement", "check", "commit", "except"}

\* The limits that create keeps to, and one session for a console.
SessionsAreBounded ==
    /\ Cardinality(registry \cup opening) <= MaximumLive
    /\ \A s \in registry \cup opening :
         /\ Cardinality(Theirs(registry \cup opening, s)) <= MaximumOwned
         /\ \A x \in Theirs(registry \cup opening, s) : Console[x] = Console[s] => x = s

\* A request that carries the revision of a review makes nothing durable that
\* the review did not show, but for its own statements: "Transaction changed
\* after review" (claim).
ReviewedCommit ==
    [][\A r \in Reqs :
         req[r].exp # 0 /\ ~req[r].partly /\ req[r].pc \in Using /\ req'[r] # req[r]
         => durable' \subseteq durable \cup req[r].seen \cup Own(r)]_vars

\* A run in one transaction is durable as a whole or not at all, as its status
\* says, whatever cancellation, error or shutdown meets it (run).
WholeRunIsAtomic ==
    \A r \in Reqs : Whole(r) /\ req[r].pc = "done" =>
        /\ Own(r) \subseteq durable \/ Own(r) \cap durable = {}
        /\ req[r].status = "succeeded" => Own(r) \subseteq durable
        /\ req[r].status \in {"cancelled", "failed"} => Own(r) \cap durable = {}

\* Once a request was told to stop none of its statements is sent, not even
\* when the signal came between the look at the event and the dispatch
\* (RawSession.cancel and execute).
StoppedRunsStop ==
    [][\A r \in Reqs : req[r].stopped =>
         /\ req'[r].done = req[r].done
         /\ req'[r] # req[r] => durable' = durable]_vars

\* When the shutdown has ended no session has a connection, also not one that
\* was being opened when it began (close, create).
ShutdownClosesEverything ==
    shut.pc = "done" => registry = {} /\ \A s \in Sessions : sess[s].txn \in {"closed", "unknown"}

\* Every request that was begun ends, and a shutdown ends: nobody keeps an
\* operation lock that it waits for.
RawEventuallyRests ==
    <>[](/\ \A r \in Reqs : req[r].pc \in {"idle", "ticket", "done"}
         /\ shut.pc \in {"none", "done"} /\ opening = {})

\* With an automatic commit policy no transaction of somebody's own is touched:
\* "Finish the current transaction before choosing an automatic commit policy"
\* (validate_policy). A run that is refused for it does not end it.
RefusedRunKeepsTransaction ==
    [][\A r \in Reqs :
         Whole(r) /\ req'[r] # req[r] /\ req[r].pc # "idle"
         => LET s == req[r].s IN
            sess'[s].txn \in Open => sess[s].content \ Own(r) \subseteq sess'[s].content]_vars

-----------------------------------------------------------------------------
(* The inductive invariant behind the safety properties *)

Statements == Reqs \X Nat

SessionRecord ==
    [status : {"none", "open", "running", "closed"}, rev : Nat,
     operation : Reqs \cup {None}, started : BOOLEAN, cancelled : BOOLEAN,
     flag : BOOLEAN, txn : Open \cup {"unknown", "closed"},
     content : SUBSET Statements, pending : SUBSET Statements, truncated : BOOLEAN]

RequestRecord ==
    [pc : Using \cup {"idle", "reserve", "ticket", "start", "track", "release", "done"},
     s : Sessions \cup {None}, kind : {"run", "download", "upload"},
     mode : {"manual", "each", "whole"}, script : Seq({"write", "commit"}),
     exp : Nat, seen : SUBSET Statements, partly : BOOLEAN, pos : Nat, done : Nat,
     err : {"none", "error", "cancel", "lost"},
     status : {"none", "reserved", "succeeded", "failed", "cancelled", "uncertain"},
     stopped : BOOLEAN, allowed : BOOLEAN]

RawTypes ==
    /\ sess \in [Sessions -> SessionRecord]
    /\ req \in [Reqs -> RequestRecord]
    /\ registry \subseteq Sessions /\ opening \subseteq Sessions /\ closed \in BOOLEAN
    /\ create \in [Sessions -> {"none", "connect", "register", "leave", "done"}]
    /\ shut \in [pc : {"none", "sessions", "done"}, todo : SUBSET Sessions,
                 at : Sessions \cup {None}]
    /\ durable \subseteq Statements /\ tasks \in [Reqs -> SUBSET Task] /\ events \in Nat

\* A session is in the registry from its opening until it is closed, its
\* operation lock is taken exactly while it runs, and only a session that can
\* be found, or is about to be registered, has a connection.
SessionOK(s) ==
    LET c == sess[s] IN
    /\ s \in registry <=> c.status \in {"open", "running"}
    /\ s \in opening <=> create[s] \in {"connect", "register", "leave"}
    /\ create[s] \in {"none", "connect", "register"} => c.status = "none"
    /\ create[s] = "register" => c.txn = "idle"
    /\ c.status = "none" /\ create[s] # "register" => c.txn = "closed"
    /\ c.status = "closed" => c.txn = "closed"
    /\ c.status = "running" <=> c.operation # None
    /\ c.content # {} => c.txn \in Unfinished

\* What the shutdown has still to close is in its list.
ShutdownOK ==
    /\ closed <=> shut.pc # "none"
    /\ shut.pc = "sessions" => registry \subseteq shut.todo
    /\ shut.pc = "done" => registry = {} /\ opening = {}
    /\ shut.at # None => shut.pc = "sessions"
    /\ \A s \in Sessions : s \in shut.todo \/ s = shut.at => sess[s].status # "none"

\* A request that uses a connection has the operation lock of its session; one
\* that was dispatched too late, or has come to its end, has it or the session
\* is closed. A request that was told to stop has the fence up before it.
RequestOK(r) ==
    LET q == req[r]
        c == sess[req[r].s]
    IN
    /\ q.pc # "idle" \/ q.exp # 0 => q.s \in Sessions /\ c.status # "none"
    /\ q.pc \in Using => c.operation = r /\ c.started
    /\ q.pc \in {"start", "track", "release"} => c.operation = r \/ c.status = "closed"
    /\ \A s \in Sessions : sess[s].operation = r =>
         q.s = s /\ q.pc \in Using \cup {"start", "track", "release"}
    /\ q.pc \in {"idle", "reserve", "ticket"} => ~q.stopped
    /\ q.stopped /\ c.operation = r => c.flag

\* Sessions are opened and closed, claimed and released in order.
LockInv ==
    /\ RawTypes /\ ShutdownOK
    /\ \A s \in Sessions : SessionOK(s)
    /\ \A r \in Reqs : RequestOK(r)

\* Every statement that request r has sent.
Traces(r) == {r} \X Nat

\* Where a request has not come to the end of its script.
Unsent == {"idle", "reserve", "ticket", "start", "history", "policy", "statement"}

\* Where the statements of a whole run are: nowhere until it has sent them,
\* then in the transaction of its session alone, and at its end all of them
\* are durable or none.
WholeOK(r) ==
    LET q == req[r]
        c == sess[req[r].s]
        unsent == durable \cap Traces(r) = {}
    IN
    /\ q.pc = "idle" => unsent
    /\ Whole(r) =>
         /\ \A s \in Sessions : sess[s].content \cap Traces(r) # {} =>
              q.s = s /\ q.pc \in {"check", "commit", "except"}
         /\ q.pc \notin {"except", "track", "release", "done"} => unsent
         /\ q.pc \in Unsent => q.pos = 1
         /\ q.pc # "idle" => \A i \in DOMAIN q.script : q.script[i] # "commit"
         /\ q.pc = "statement" => c.txn = "intrans"
         /\ q.pc \in {"check", "commit"} =>
              q.err # "lost" /\ (q.err = "none" => Own(r) \subseteq c.content)
         /\ q.pc = "commit" => q.err = "none"
         /\ Own(r) \subseteq durable \/ unsent
         /\ q.pc = "except" => q.err \in {"error", "lost"} /\ (q.err = "error" => unsent)
         /\ q.pc \in {"track", "release", "done"} =>
              /\ q.status = "succeeded" => Own(r) \subseteq durable
              /\ q.status \in {"cancelled", "failed"} => unsent

\* What is in the transaction of a session that nobody uses is listed, unless
\* the list was cut short.
ListOK(s) ==
    LET c == sess[s] IN
    c.operation = None /\ ~c.truncated => c.content \subseteq c.pending

\* While a request holds a session the list is that of the claim, and what is
\* in the transaction besides is what the request has sent since its last
\* COMMIT.
HeldOK(r) ==
    LET q == req[r]
        c == sess[req[r].s]
    IN q.pc \in Using \cup {"start", "track", "release"} /\ c.operation = r =>
         /\ q.exp # 0 /\ q.pc # "release" => q.seen = c.pending /\ q.partly = c.truncated
         /\ ~c.truncated => c.content \ Traces(r) \subseteq c.pending
         /\ ~c.truncated /\ q.pc = "release" => c.content \subseteq c.pending
         /\ q.pc # "release" =>
              /\ \A x \in c.content \cap Traces(r) :
                   /\ x \in Own(r) /\ x[2] <= (IF q.kind = "run" THEN q.done ELSE 1)
                   /\ \A j \in x[2]..q.done : q.script[j] # "commit"
              /\ (\E j \in 1..q.done : q.script[j] = "commit") => c.content \subseteq Traces(r)

\* A request comes to its statements in turn, and none is in a transaction
\* before it was sent. A review is of the revision that it names.
TurnOK(r) ==
    LET q == req[r]
        c == sess[req[r].s]
    IN
    /\ q.pc \in Unsent =>
         /\ q.err = "none" /\ q.pos >= 1 /\ q.done = q.pos - 1
         /\ q.pc # "idle" => q.pos <= Len(q.script)
    /\ q.pc \in {"idle", "reserve", "ticket", "start", "history"} =>
         /\ q.pos = 1 /\ q.status # "succeeded"
         /\ \A s \in Sessions : sess[s].content \cap Traces(r) = {}
    /\ q.kind # "run" => q.done = 0 /\ q.pos = 1
    /\ q.done <= Len(q.script)
    /\ q.exp # 0 =>
         /\ q.exp <= c.rev
         /\ c.status = "open" /\ q.exp = c.rev => q.seen = c.pending /\ q.partly = c.truncated

\* The limits on sessions, with the finiteness that counting rests on.
BoundInv == IsFiniteSet(registry \cup opening) /\ SessionsAreBounded

\* The inductive invariant of sessions, locks, whole runs and reviews.
RawInv ==
    /\ LockInv
    /\ \A s \in Sessions : ListOK(s)
    /\ \A r \in Reqs : TurnOK(r) /\ WholeOK(r) /\ HeldOK(r)

\* Sessions, with those that are being opened, keep to the limits, a console
\* has one (create), and while a request sends commands on a connection the
\* session is its own: it holds the operation lock, and the session is neither
\* closed nor given to another request (claim, release, start_reserved and the
\* shutdown's retiring of reservations). Who holds what, and what a transaction
\* may hold, is as RawInv says.
OperationIsOwned ==
    /\ RawInv
    /\ SessionsAreBounded
    /\ \A r \in Reqs : req[r].pc \in Using =>
         /\ sess[req[r].s].operation = r /\ sess[req[r].s].status = "running"
         /\ sess[req[r].s].started

=============================================================================
