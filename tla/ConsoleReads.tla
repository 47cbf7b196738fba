---------------------------- MODULE ConsoleReads ----------------------------
(***************************************************************************)
(* Managed console reads: the durable receipts of                          *)
(* PostgresConsoleRepository, the worker that runs a receipt, the          *)
(* in-process registry of retained results and read sessions, page and     *)
(* export requests, cancellation and a restart of the process              *)
(* (src/schemii/schemii/console/service.py and repository.py,              *)
(* src/schemii/common/postgres/console/gateway.py), over the shared        *)
(* admission of ConnectionCapacity.                                        *)
(*                                                                         *)
(* Every execution id is a client of the admission. Other clients stand    *)
(* for catalog work, console transactions and raw sessions.                *)
(***************************************************************************)
EXTENDS ConnectionCapacity, Sequences, SequencesExt

CONSTANTS
    Execs,               \* receipts, each reserved at most once
    Protected,           \* those reserved with protect_result
    Others,              \* the other clients of the admission
    Console(_),          \* the query editor of a receipt
    Identity(_),         \* the connection and revision of its target
    Stmts,               \* statements of a script, one result each
    Fetchers,            \* requests for a page or an export
    Loads,               \* bound: the receipts and requests of a behaviour, with
                         \* how many cancellations, deadlines that pass, metadata
                         \* calls that fail or get no answer, exports abandoned
                         \* before they start, calls of the other clients and
                         \* restarts, all together
    Pages,               \* bound: pages of one result
    MaximumLive,         \* maximum_live_read_sessions
    MaximumLivePerIdentity

ASSUME ReadsAssumption ==
    /\ Clients = Execs \cup Others
    /\ Protected \subseteq Execs
    /\ \A load \in Loads : load.execs \subseteq Execs /\ load.events \in Nat
    /\ Pages \in Nat \ {0}
    /\ MaximumLive \in Nat \ {0}
    /\ MaximumLivePerIdentity \in 1..MaximumLive

VARIABLES
    rec,                 \* console_executions and console_results
    work,                \* run, one worker per receipt
    session,             \* PsycopgConsoleReadSession
    reg,                 \* _transient_results, _result_cursors, ...
    expired,             \* receipts whose deadline has passed
    closing,             \* sessions being closed under the registry lock
    fetch,               \* page and export_csv calls in flight
    cancelling,          \* cancel calls between their two steps
    events               \* how many such events are left, and whether a
                         \* metadata call has failed

readVars == <<rec, work, session, reg, expired, closing, fetch, cancelling, events>>

Final == {"succeeded", "failed", "cancelled"}
Status == {"none", "reserved", "running", "pruned"} \cup Final

WorkSteps == {"none", "ready", "use", "room", "connect", "opened",
              "prepare", "succeed", "retain", "fail", "record", "done"}

\* One entry of _transient_results; "in" says whether the entry exists.
NoResult == [in |-> FALSE, leases |-> 0, pending |-> FALSE, first |-> FALSE]
NoSession == [state |-> "none", cancelled |-> FALSE,
              position |-> [s \in Stmts |-> 0],
              exportPosition |-> [s \in Stmts |-> 0]]
NoReceipt == [status |-> "none", cancel |-> FALSE, open |-> {}]
NoRegistry == [res |-> [e \in Execs |-> [s \in Stmts |-> NoResult]],
               live |-> <<>>, prot |-> {}, cursors |-> {}]
NoFetch == [kind |-> "idle", e |-> "", s |-> 0, off |-> 0, out |-> "none"]

\* Receipts outside the load are gone, as those pruned before.
ReadsInit ==
    /\ CapacityInit
    /\ \E load \in Loads :
         /\ rec = [e \in Execs |-> IF e \in load.execs THEN NoReceipt
                                  ELSE [NoReceipt EXCEPT !.status = "pruned"]]
         /\ expired = Execs \ load.execs
         /\ fetch = [f \in load.requests |-> NoFetch]
         /\ events = [left |-> load.events, failed |-> FALSE]
    /\ work = [e \in Execs |-> [pc |-> "none", cancelled |-> FALSE]]
    /\ session = [e \in Execs |-> NoSession]
    /\ reg = NoRegistry
    /\ closing = {}
    /\ cancelling = {}

Goto(e, step) == work' = [work EXCEPT ![e].pc = step]

Event ==
    /\ events.left > 0
    /\ events' = [events EXCEPT !.left = @ - 1]

\* A call to the metadata store fails; its write may still have happened.
Fault ==
    /\ events.left > 0
    /\ events' = [left |-> events.left - 1, failed |-> TRUE]

-----------------------------------------------------------------------------
(* The registry, a value changed under _transient_results_lock *)

Results(g, e) == {s \in Stmts : g.res[e][s].in}

\* Sessions in g that no remaining result refers to are dropped.
CloseUnreferenced(g) ==
    LET referenced(e) == Results(g, e) # {} IN
    [g EXCEPT !.live = SelectSeq(@, referenced),
              !.prot = @ \ {e \in ToSet(g.live) : ~referenced(e)}]

\* _purge_transient_results: what expired or was marked, and is not leased.
Purge(g) ==
    LET gone(e, s) == /\ g.res[e][s].in
                      /\ e \in expired \/ g.res[e][s].pending
                      /\ g.res[e][s].leases = 0
        res == [e \in Execs |-> [s \in Stmts |->
                  IF gone(e, s) THEN NoResult ELSE g.res[e][s]]]
        released == {e \in Execs : /\ \E s \in Stmts : gone(e, s)
                                   /\ \A s \in Stmts : ~res[e][s].in}
    IN CloseUnreferenced(
         [g EXCEPT !.res = res,
                   !.prot = (@ \ expired) \ released,
                   !.cursors = {c \in @ : ~gone(c[1], c[2]) /\ c[1] \notin expired}])

\* _read_session_evictable
Evictable(g, e) ==
    /\ e \notin g.prot
    /\ \A s \in Stmts : g.res[e][s].in => g.res[e][s].leases = 0

\* _evict_read_session for every session in E, with its results and cursors.
Evict(g, E) ==
    [g EXCEPT !.live = SelectSeq(@, LAMBDA e : e \notin E),
              !.res = [e \in Execs |-> IF e \in E THEN [s \in Stmts |-> NoResult]
                                       ELSE @[e]],
              !.cursors = {c \in @ : c[1] \notin E}]

\* The sessions evicted, least recently used first, until fewer than limit of
\* those in S are left; all the evictable ones when that is not enough.
Victims(g, limit, S) ==
    LET matching == SelectSeq(g.live, LAMBDA e : e \in S)
        candidates == SelectSeq(matching, LAMBDA e : Evictable(g, e))
        excess == Len(matching) - limit + 1
    IN ToSet(SubSeq(candidates, 1, IF excess < Len(candidates) THEN excess
                                   ELSE Len(candidates)))

Fits(g, limit, S) == Cardinality(ToSet(g.live) \cap S) < limit

\* The registry becomes g; sessions that left it, and those in more, are closed
\* before the lock is given back: no other registry step happens until then.
SetAndClose(g, more) ==
    /\ closing = {}
    /\ reg' = g
    /\ closing' = (ToSet(reg.live) \ ToSet(g.live)) \cup more

SetRegistry(g) == SetAndClose(g, {})

\* PsycopgConsoleReadSession.close and the release of its connection.
CloseSession(e) ==
    /\ e \in closing
    /\ closing' = closing \ {e}
    /\ session' = [session EXCEPT ![e].state = "closed"]
    /\ IF permit[e].phase = "leased" THEN Close(e) ELSE UNCHANGED capacityVars
    /\ UNCHANGED <<rec, work, reg, expired, fetch, cancelling, events>>

\* The deadline of a final receipt passes, with the results and cursors it has.
Expire(e) ==
    /\ Event
    /\ e \notin expired
    /\ rec[e].status \in Final
    /\ work[e].pc \in {"none", "ready", "done"}
    /\ expired' = expired \cup {e}
    /\ UNCHANGED <<rec, work, session, reg, closing, fetch, cancelling, capacityVars>>

\* A protection lapses before its result is retained. Who looks at protections
\* purges first, so a lapsed one is as good as gone.
LapseProtection(e) ==
    /\ Event
    /\ e \in reg.prot \ ToSet(reg.live)
    /\ reg' = [reg EXCEPT !.prot = @ \ {e}]
    /\ UNCHANGED <<rec, work, session, expired, closing, fetch, cancelling, capacityVars>>

-----------------------------------------------------------------------------
(* Receipts *)

\* prune_operational_receipts deletes final receipts past their time.
Pruned(S) == [e \in Execs |-> IF e \in S THEN [NoReceipt EXCEPT !.status = "pruned"]
                              ELSE rec[e]]
Prunable == {S \in SUBSET expired : \A e \in S : rec[e].status \in Final}

\* _fail_locked: a final receipt stays as it is.
FailLocked(r, cancelled) ==
    IF r.status \in Final THEN r
    ELSE [r EXCEPT !.status = IF cancelled THEN "cancelled" ELSE "failed",
                   !.cancel = @ \/ cancelled]

\* reserve and reserve_read_target: prune, insert under the unique index of
\* the active receipts of one editor, and protect the result when asked. When
\* the answer to the insert is lost nobody runs the receipt.
Reserve(e, S) ==
    /\ rec[e].status = "none"
    /\ \A x \in Execs : Console(x) = Console(e) =>
         rec[x].status \notin {"reserved", "running"}
    /\ rec' = [Pruned(S) EXCEPT ![e].status = "reserved"]
    /\ \/ /\ Goto(e, "ready")
          /\ IF e \in Protected
             THEN SetRegistry([Purge(reg) EXCEPT !.prot = @ \cup {e}])
             ELSE UNCHANGED <<reg, closing>>
          /\ UNCHANGED events
       \/ Fault /\ UNCHANGED <<work, reg, closing>>
    /\ UNCHANGED <<session, expired, fetch, cancelling, capacityVars>>

\* request_cancel, the first step of cancel.
CancelRequested(e) ==
    /\ rec[e].status \notin {"none", "pruned"}
    /\ e \notin cancelling
    /\ rec' = [rec EXCEPT ![e] =
         IF @.status = "reserved" THEN FailLocked(@, TRUE)
         ELSE IF @.status = "running" THEN [@ EXCEPT !.cancel = TRUE] ELSE @]
    /\ cancelling' = cancelling \cup {e}
    /\ UNCHANGED <<work, session, reg, expired, closing, fetch, capacityVars>>

RequestCancel(e) == Event /\ CancelRequested(e)

\* The second step takes the protection away and cancels a retained session.
\* A signal to a running backend only decides how the query ends.
CancelRetained(e) ==
    /\ e \in cancelling
    /\ closing = {}
    /\ reg' = [reg EXCEPT !.prot = @ \ {e}]
    /\ session' = [session EXCEPT ![e].cancelled =
         @ \/ (e \in ToSet(reg.live) /\ session[e].state = "open")]
    /\ cancelling' = cancelling \ {e}
    /\ UNCHANGED <<rec, work, expired, closing, fetch, events, capacityVars>>

-----------------------------------------------------------------------------
(* run: the worker of a receipt *)

\* What a worker step outside the registry and the sessions leaves alone.
OnlyWork == UNCHANGED <<session, reg, expired, closing, fetch, cancelling>>

\* claim: only a reserved receipt that was not cancelled is run.
Claim(e) ==
    /\ work[e].pc = "ready"
    /\ LET mine == rec[e].status = "reserved" /\ ~rec[e].cancel
           claimed == [rec EXCEPT ![e].status = "running"]
       IN \/ /\ rec' = IF mine THEN claimed ELSE rec
             /\ Goto(e, IF mine THEN "use" ELSE "done")
             /\ UNCHANGED events
          \/ /\ Fault
             /\ rec' \in {rec, IF mine THEN claimed ELSE rec}
             /\ Goto(e, "fail")
    /\ OnlyWork /\ UNCHANGED capacityVars

\* The connection is resolved again: it may be gone or may have changed.
UseConnection(e) ==
    /\ work[e].pc = "use"
    /\ \/ Goto(e, "room") /\ UNCHANGED <<rec, events>>
       \/ Goto(e, "fail") /\ UNCHANGED <<rec, events>>
       \/ /\ Goto(e, "done")
          /\ rec' = [rec EXCEPT ![e] = FailLocked(@, FALSE)]
          /\ UNCHANGED events
    /\ OnlyWork /\ UNCHANGED capacityVars

\* _make_read_session_capacity: per identity, then in total.
MakeRoom(e) ==
    /\ work[e].pc = "room"
    /\ LET alike == {x \in Execs : Identity(x) = Identity(e)}
           g0 == Purge(reg)
           g1 == Evict(g0, Victims(g0, MaximumLivePerIdentity, alike))
           ok1 == Fits(g1, MaximumLivePerIdentity, alike)
           g2 == Evict(g1, Victims(g1, MaximumLive, Execs))
           ok2 == Fits(g2, MaximumLive, Execs)
       IN /\ SetRegistry(IF ok1 THEN g2 ELSE g1)
          /\ Goto(e, IF ok1 /\ ok2 THEN "connect" ELSE "fail")
    /\ UNCHANGED <<rec, session, expired, fetch, cancelling, events, capacityVars>>

\* _connect with retained=True, without the reclaimer.
Connecting(e) ==
    /\ work[e].pc = "connect"
    /\ \/ Connect(e, Identity(e), TRUE) /\ UNCHANGED work
       \/ Admit(e) /\ UNCHANGED work
       \/ TimeOut(e) /\ Goto(e, "fail")
       \/ Opened(e) /\ Goto(e, "opened")
       \/ OpenFailed(e) /\ Goto(e, "fail")
    /\ OnlyWork /\ UNCHANGED <<rec, events>>

\* _reclaim_read_session, called for client c that reached a limit: one idle
\* session of the identity, or of any when the total is reached.
Reclaim(c) ==
    /\ permit[c].phase \in {"reclaim", "reclaim_total"}
    /\ LET g == Purge(reg)
           candidates == SelectSeq(g.live, LAMBDA x :
               /\ permit[c].phase = "reclaim_total" \/ Identity(x) = permit[c].identity
               /\ Evictable(g, x))
       IN IF candidates = <<>>
          THEN SetRegistry(g) /\ NothingToReclaim(c)
          ELSE SetRegistry(Evict(g, {Head(candidates)})) /\ ReclaimerGave(c)
    /\ UNCHANGED <<rec, work, session, expired, fetch, cancelling, events>>

\* Mutant: the second attempt asks for an ordinary permit.
RetryOrdinary(c) ==
    /\ closing = {}
    /\ permit[c].phase = "retry"
    /\ Grant(c, permit[c].identity, FALSE)
    /\ UNCHANGED readVars

\* The reclaimer has returned: admission is tried again.
Retry(c) ==
    /\ closing = {}
    /\ RetryAfterReclaim(c)
    /\ UNCHANGED readVars

\* The transaction begins and publish_backend is asked; it refuses when the
\* receipt was cancelled. Any failure cleans the connection up.
Start(e) ==
    /\ work[e].pc = "opened"
    /\ \/ /\ rec[e].status = "running" /\ ~rec[e].cancel
          /\ Goto(e, "prepare")
          /\ UNCHANGED <<events, capacityVars>>
       \/ /\ ~(rec[e].status = "running" /\ ~rec[e].cancel)
          /\ work' = [work EXCEPT ![e] = [pc |-> "fail", cancelled |-> TRUE]]
          /\ Close(e)
          /\ UNCHANGED events
       \/ /\ Goto(e, "fail") /\ Close(e)
          /\ UNCHANGED events
    /\ OnlyWork /\ UNCHANGED rec

\* The statements open their cursors or fail, which closes the connection.
Prepare(e) ==
    /\ work[e].pc = "prepare"
    /\ \/ /\ session' = [session EXCEPT ![e].state = "open"]
          /\ Goto(e, "succeed")
          /\ UNCHANGED capacityVars
       \/ /\ session' = [session EXCEPT ![e].state = "closed"]
          /\ Goto(e, "fail")
          /\ Close(e)
    /\ UNCHANGED <<rec, reg, expired, closing, fetch, cancelling, events>>

\* Mutant: a cancellation during the query is overlooked.
SucceedAnyway(e) ==
    /\ work[e].pc = "succeed"
    /\ LET stored == [rec[e] EXCEPT !.status = "succeeded", !.open = Stmts]
       IN \/ /\ rec[e].cancel \/ rec[e].status = "running"
             /\ rec' = [rec EXCEPT ![e] = stored]
             /\ Goto(e, "retain")
             /\ UNCHANGED events
          \/ /\ Fault
             /\ rec' \in {rec, [rec EXCEPT ![e] = stored]}
             /\ Goto(e, "fail")
    /\ OnlyWork /\ UNCHANGED capacityVars

\* succeed: a cancelled receipt gets no results.
Succeed(e) ==
    /\ work[e].pc = "succeed"
    /\ LET stored == IF rec[e].cancel THEN FailLocked(rec[e], TRUE)
                     ELSE [rec[e] EXCEPT !.status = "succeeded", !.open = Stmts]
       IN \/ /\ rec[e].cancel \/ rec[e].status = "running"
             /\ rec' = [rec EXCEPT ![e] = stored]
             /\ Goto(e, "retain")
             /\ UNCHANGED events
          \/ /\ Fault
             /\ rec' \in {rec, [rec EXCEPT ![e] = stored]}
             /\ Goto(e, "fail")
    /\ OnlyWork /\ UNCHANGED capacityVars

\* _retain_results registers the results of a receipt that succeeded, and the
\* session in any case. When the registry is full and nothing else can go, the
\* new session goes and the run fails after all.
Retain(e) ==
    /\ work[e].pc = "retain"
    /\ LET g0 == Purge(reg)
           kept == rec[e].status = "succeeded"
           g1 == [g0 EXCEPT
                    !.res[e] = [s \in Stmts |-> [NoResult EXCEPT !.in = kept]],
                    !.prot = IF kept THEN @ ELSE @ \ {e},
                    !.live = Append(@, e)]
           g2 == Evict(g1, Victims(g1, MaximumLive, Execs \ {e}))
       IN IF Fits(g2, MaximumLive, Execs \ {e})
          THEN SetRegistry(g2) /\ Goto(e, "done")
          ELSE /\ SetAndClose([Evict(g2, {e}) EXCEPT !.prot = @ \ {e}], {e})
               /\ Goto(e, "fail")
    /\ UNCHANGED <<rec, session, expired, fetch, cancelling, events, capacityVars>>

\* Mutant: the failure is recorded and the session left open.
FailLeaks(e) ==
    /\ work[e].pc = "fail"
    /\ closing = {}
    /\ reg' = [reg EXCEPT !.prot = @ \ {e}]
    /\ UNCHANGED <<session, capacityVars>>
    /\ \/ /\ rec[e].status # "pruned"
          /\ work' = [work EXCEPT ![e] =
               [pc |-> "record", cancelled |-> @.cancelled \/ rec[e].cancel]]
          /\ UNCHANGED events
       \/ Fault /\ Goto(e, "done")
    /\ UNCHANGED <<rec, expired, closing, fetch, cancelling>>

\* An exception: the session is closed and _record_run_failure reads the
\* receipt to tell a cancellation from a failure.
Fail(e) ==
    /\ work[e].pc = "fail"
    /\ closing = {}
    /\ reg' = [reg EXCEPT !.prot = @ \ {e}]
    /\ IF session[e].state = "open"
       THEN /\ session' = [session EXCEPT ![e].state = "closed"]
            /\ Close(e)
       ELSE UNCHANGED <<session, capacityVars>>
    /\ \/ /\ rec[e].status # "pruned"
          /\ work' = [work EXCEPT ![e] =
               [pc |-> "record", cancelled |-> @.cancelled \/ rec[e].cancel]]
          /\ UNCHANGED events
       \/ Fault /\ Goto(e, "done")
    /\ UNCHANGED <<rec, expired, closing, fetch, cancelling>>

\* repository.fail; when the store is unavailable the receipt stays as it is.
Record(e) ==
    /\ work[e].pc = "record"
    /\ LET failed == [rec EXCEPT ![e] = FailLocked(@, work[e].cancelled)]
       IN \/ rec' = failed /\ UNCHANGED events
          \/ Fault /\ rec' \in {rec, failed}
    /\ Goto(e, "done")
    /\ OnlyWork /\ UNCHANGED capacityVars

-----------------------------------------------------------------------------
(* page, export_csv and close_result *)

Idle(f) == fetch[f].kind = "idle"

\* Mutant: the first page is given to every request.
ClaimableTwice(g, e, s) ==
    IF rec[e].status = "pruned" \/ ~g.res[e][s].in \/ g.res[e][s].pending THEN {}
    ELSE {0}
         \cup {off \in 1..Pages : <<e, s, off>> \in g.cursors}

\* The offsets a page request may claim: the first page once, and those of the
\* cursors handed out and not used.
Claimable(g, e, s) ==
    IF rec[e].status = "pruned" \/ ~g.res[e][s].in \/ g.res[e][s].pending THEN {}
    ELSE (IF g.res[e][s].first THEN {} ELSE {0})
         \cup {off \in 1..Pages : <<e, s, off>> \in g.cursors}

\* A page request claims its page and leases the result.
BeginPage(f, e, s) ==
    /\ Idle(f)
    /\ LET g == Purge(reg) IN
       \E off \in Claimable(g, e, s) :
         /\ SetRegistry([g EXCEPT
              !.res[e][s].leases = @ + 1,
              !.res[e][s].first = TRUE,
              !.cursors = @ \ {<<e, s, off>>},
              !.live = SelectSeq(@, LAMBDA x : x # e) \o <<e>>])
         /\ fetch' = [fetch EXCEPT ![f] = [kind |-> "page", e |-> e, s |-> s,
                                           off |-> off, out |-> "none"]]
    /\ UNCHANGED <<rec, work, session, expired, cancelling, events, capacityVars>>

\* export_csv leases the result before its stream starts.
BeginExport(f, e, s) ==
    /\ Idle(f)
    /\ rec[e].status # "pruned"
    /\ LET g == Purge(reg) IN
       /\ g.res[e][s].in /\ ~g.res[e][s].pending
       /\ SetRegistry([g EXCEPT !.res[e][s].leases = @ + 1])
    /\ fetch' = [fetch EXCEPT ![f] = [kind |-> "export", e |-> e, s |-> s,
                                      off |-> 0, out |-> "none"]]
    /\ UNCHANGED <<rec, work, session, expired, cancelling, events, capacityVars>>

\* A request that is refused has purged the registry.
Refused ==
    /\ Purge(reg) # reg
    /\ SetRegistry(Purge(reg))
    /\ UNCHANGED <<rec, work, session, expired, fetch, cancelling, events, capacityVars>>

\* _page and _export_page under the lock of the session. A row over the limit
\* closes the session; a cancelled or failed query does not.
Fetch(f) ==
    /\ fetch[f].kind # "idle" /\ fetch[f].out = "none"
    /\ LET e == fetch[f].e
           s == fetch[f].s
           off == fetch[f].off
           read == [session EXCEPT ![e].position[s] = @ + 1]
           exported == [session EXCEPT ![e].exportPosition[s] = @ + 1]
           at == IF fetch[f].kind = "page" THEN session[e].position[s]
                 ELSE session[e].exportPosition[s]
           Out(x) == fetch' = [fetch EXCEPT ![f].out = x]
       IN \/ /\ session[e].cancelled
             /\ Out("broken")
             /\ UNCHANGED <<session, capacityVars>>
          \/ /\ ~session[e].cancelled
             /\ session[e].state # "open" \/ off # at
             /\ Out("gone")
             /\ UNCHANGED <<session, capacityVars>>
          \/ /\ ~session[e].cancelled /\ session[e].state = "open" /\ off = at
             /\ \/ /\ fetch[f].kind = "page"
                   /\ session' = read
                   /\ Out(IF off + 1 < Pages THEN "more" ELSE "end")
                   /\ UNCHANGED capacityVars
                \/ /\ fetch[f].kind = "export"
                   /\ session' = exported
                   /\ fetch' = [fetch EXCEPT ![f].off = @ + 1,
                        ![f].out = IF off + 1 < Pages THEN "none" ELSE "end"]
                   /\ UNCHANGED capacityVars
                \/ Out("broken") /\ UNCHANGED <<session, capacityVars>>
                \/ /\ Out("broken")
                   /\ session' = [session EXCEPT ![e].state = "oversized"]
                   /\ Close(e)
    /\ UNCHANGED <<rec, work, reg, expired, closing, cancelling, events>>

\* The end of a request: a broken session marks all results of the receipt, a
\* page with more to come gets a cursor, the lease ends and the registry is
\* purged.
EndFetch(f) ==
    /\ fetch[f].kind # "idle" /\ fetch[f].out # "none"
    /\ LET e == fetch[f].e
           s == fetch[f].s
           marked == IF fetch[f].out # "broken" THEN reg ELSE
               [reg EXCEPT !.res[e] = [x \in Stmts |->
                   IF @[x].in THEN [@[x] EXCEPT !.pending = TRUE] ELSE @[x]]]
           paged == IF fetch[f].out = "more" /\ ~reg.res[e][s].pending
                    THEN [marked EXCEPT !.cursors = @ \cup {<<e, s, fetch[f].off + 1>>}]
                    ELSE marked
       IN SetRegistry(Purge([paged EXCEPT !.res[e][s].leases = @ - 1]))
    /\ fetch' = [fetch EXCEPT ![f] = NoFetch]
    /\ UNCHANGED <<rec, work, session, expired, cancelling, events, capacityVars>>

\* The client of an export goes away: once the stream has begun its end is run,
\* but a generator that never started keeps its lease.
AbandonExport(f) ==
    /\ fetch[f].kind = "export" /\ fetch[f].out = "none"
    /\ \/ fetch' = [fetch EXCEPT ![f].out = "end"] /\ UNCHANGED events
       \/ fetch[f].off = 0 /\ fetch' = [fetch EXCEPT ![f] = NoFetch] /\ Event
    /\ UNCHANGED <<rec, work, session, reg, expired, closing, cancelling, capacityVars>>

\* close_result: durably, then in the registry. A leased result is marked.
CloseResult(e, s) ==
    /\ s \in rec[e].open
    /\ rec' = [rec EXCEPT ![e].open = @ \ {s}]
    /\ LET g == [reg EXCEPT
                 !.res[e][s] = IF @.leases > 0 THEN [@ EXCEPT !.pending = TRUE]
                               ELSE NoResult,
                 !.cursors = {c \in @ : <<c[1], c[2]>> # <<e, s>>}]
           h == CloseUnreferenced(g)
       IN SetRegistry([h EXCEPT !.prot = IF Results(h, e) = {} THEN @ \ {e} ELSE @])
    /\ UNCHANGED <<work, session, expired, fetch, cancelling, events, capacityVars>>

-----------------------------------------------------------------------------
(* The other clients of the admission, a restart, and the specification *)

OtherClient(c) ==
    /\ \/ Event /\ \E i \in Identities, r \in BOOLEAN : Connect(c, i, r)
       \/ (Admit(c) \/ TimeOut(c) \/ Opened(c) \/ OpenFailed(c) \/ Close(c))
          /\ UNCHANGED events
    /\ UNCHANGED <<rec, work, session, reg, expired, closing, fetch, cancelling>>

\* The process dies. The next one fails what was in progress and prunes before
\* it serves requests; everything it did not store is gone.
Restart(S) ==
    /\ Event
    /\ CapacityRestart
    /\ rec' = [e \in Execs |->
         IF rec[e].status \in {"reserved", "running"}
         THEN [rec[e] EXCEPT !.status = "failed"] ELSE Pruned(S)[e]]
    /\ work' = [e \in Execs |-> [pc |-> IF rec[e].status = "none" THEN "none" ELSE "done",
                                cancelled |-> FALSE]]
    /\ session' = [e \in Execs |-> NoSession]
    /\ reg' = NoRegistry
    /\ expired' = expired
    /\ closing' = {}
    /\ fetch' = [f \in DOMAIN fetch |-> NoFetch]
    /\ cancelling' = {}

Worker(e) ==
    \/ Claim(e) \/ UseConnection(e) \/ MakeRoom(e) \/ Connecting(e)
    \/ Start(e) \/ Prepare(e) \/ Succeed(e) \/ Retain(e) \/ Fail(e) \/ Record(e)

Request(f, E) ==
    \/ \E e \in E, s \in Stmts : BeginPage(f, e, s) \/ BeginExport(f, e, s)
    \/ Fetch(f) \/ EndFetch(f) \/ AbandonExport(f)

ReadsNext ==
    \/ \E e \in Execs :
         \/ \E S \in Prunable : Reserve(e, S)
         \/ Worker(e) \/ CloseSession(e) \/ Expire(e) \/ LapseProtection(e)
         \/ RequestCancel(e) \/ CancelRetained(e)
         \/ \E s \in Stmts : CloseResult(e, s)
    \/ \E f \in Fetchers \cap DOMAIN fetch : Request(f, Execs)
    \/ \E c \in Clients : Reclaim(c) \/ Retry(c)
    \/ \E c \in Others : OtherClient(c)
    \/ Refused
    \/ \E S \in Prunable : Restart(S)

ReadsSpec == ReadsInit /\ [][ReadsNext]_<<readVars, capacityVars>>

-----------------------------------------------------------------------------
(* Properties *)

ReadsTypeOK ==
    /\ rec \in [Execs -> [status : Status, cancel : BOOLEAN, open : SUBSET Stmts]]
    /\ work \in [Execs -> [pc : WorkSteps, cancelled : BOOLEAN]]
    /\ session \in [Execs -> [state : {"none", "open", "closed", "oversized"},
                              cancelled : BOOLEAN,
                              position : [Stmts -> 0..Pages],
                              exportPosition : [Stmts -> 0..Pages]]]
    /\ reg.res \in [Execs -> [Stmts -> [in : BOOLEAN, leases : Nat,
                                         pending : BOOLEAN, first : BOOLEAN]]]
    /\ reg.prot \subseteq Execs
    /\ ToSet(reg.live) \subseteq Execs /\ IsInjective(reg.live)
    /\ reg.cursors \subseteq Execs \X Stmts \X (1..Pages)
    /\ expired \subseteq Execs /\ closing \subseteq Execs /\ cancelling \subseteq Execs

\* A page fetch reads exactly the rows that follow the last page delivered:
\* two requests never hold the same cursor, nor both the first page, so no
\* page is skipped or delivered twice however requests overlap. And the session
\* under a fetch in flight is not closed by an eviction, a purge, a closed
\* result or a reclamation ("never an existing lease"); only a row over the
\* limit closes it. So the registry lock never waits for a fetch.
PagesInSequence ==
    \A f \in DOMAIN fetch :
        fetch[f].kind # "idle" /\ fetch[f].out = "none" =>
            /\ fetch[f].kind = "page" =>
                 fetch[f].off = session[fetch[f].e].position[fetch[f].s]
            /\ session[fetch[f].e].state \in {"open", "oversized"}
            /\ fetch[f].e \notin closing

\* An accepted cancellation, whether it comes before the claim, between claim
\* and publish_backend, during the query or just before the receipt is
\* completed, leaves no rows to be read.
CancelledHasNoRows ==
    \A e \in Execs : rec[e].cancel => Results(reg, e) = {} /\ rec[e].open = {}

ConnectionsAreOwned ==
    \A e \in Execs :
        permit[e].phase = "leased" =>
            \/ work[e].pc \in {"opened", "prepare", "succeed", "retain", "fail"}
            \/ e \in ToSet(reg.live)
            \/ e \in closing

\* Every variable has its type, however admissions overlap no more sessions are
\* registered than configured (retain), and every connection of a read is
\* owned: by the worker that opened it, by the registry, or by the request that
\* is closing it. None is lost on a failure.
ReadsInv ==
    /\ CapacityTypeOK
    /\ ReadsTypeOK
    /\ Len(reg.live) <= MaximumLive
    /\ ConnectionsAreOwned
=============================================================================
