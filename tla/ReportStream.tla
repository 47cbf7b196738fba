---------------------------- MODULE ReportStream ----------------------------
(***************************************************************************)
(* Report streams (src/schemii/schemer/streaming.py) over the managed reads *)
(* of ConsoleReads. A stream is one task of the event loop: it reserves a  *)
(* protected receipt, runs it in a thread, pages through its results in    *)
(* threads, closes each, and cleans up when it fails or its client leaves. *)
(* The thread it waits for goes on when the task is cancelled.             *)
(*                                                                         *)
(* A stream is named by the receipt it reserves, which is also the request *)
(* that fetches its pages. Stmts are the tiles of the report, in order.    *)
(***************************************************************************)
EXTENDS ConsoleReads

CONSTANT Streamed        \* the receipts that streams reserve

ASSUME StreamAssumption ==
    /\ Streamed \subseteq Protected
    /\ Streamed \cap Fetchers = {}
    /\ Stmts = 1..Cardinality(Stmts)

VARIABLE stream

streamVars == <<stream, readVars, capacityVars>>

StreamSteps == {"none", "reserving", "unwanted", "withdraw", "reserved", "running",
                "check", "page", "fetching", "close", "cleanup", "join", "sweep",
                "ended"}

\* pending is the thread that the task awaits, page the answer of a page thread,
\* stray a close_result thread whose awaiting was cancelled.
NoStream == [step |-> "none", tile |-> 1, pending |-> "none", page |-> "none",
             stray |-> FALSE]

StreamInit == ReadsInit /\ stream = [e \in Streamed |-> NoStream]

To(e, step) == stream' = [stream EXCEPT ![e].step = step]

OnlyStream == UNCHANGED <<readVars, capacityVars>>

PendingDone(e) ==
    CASE stream[e].pending = "none" -> TRUE
      [] stream[e].pending = "run"  -> work[e].pc = "done"
      [] stream[e].pending = "page" -> stream[e].page # "none"

-----------------------------------------------------------------------------
(* reserve and run *)

\* The task starts a thread that reserves the receipt.
OpenStream(e) ==
    /\ stream[e].step = "none" /\ rec[e].status = "none"
    /\ To(e, "reserving")
    /\ OnlyStream

\* The thread ends, with a receipt unless its answer was lost. A task that was
\* cancelled meanwhile still waits for it, to cancel the receipt.
StreamReserved(e, S) ==
    /\ stream[e].step \in {"reserving", "unwanted"}
    /\ Reserve(e, S)
    /\ To(e, CASE work'[e].pc # "ready" -> "ended"
               [] stream[e].step = "reserving" -> "reserved"
               [] OTHER -> "withdraw")

ReserveRefused(e) ==
    /\ stream[e].step \in {"reserving", "unwanted"}
    /\ To(e, "ended")
    /\ OnlyStream

Withdraw(e) ==
    /\ stream[e].step = "withdraw"
    /\ \/ CancelRequested(e) /\ To(e, "ended") /\ UNCHANGED events
       \/ Fault /\ To(e, "ended") /\ UNCHANGED <<rec, cancelling>>
          /\ UNCHANGED <<work, session, reg, expired, closing, fetch, capacityVars>>

StartRun(e) ==
    /\ stream[e].step = "reserved"
    /\ stream' = [stream EXCEPT ![e].step = "running", ![e].pending = "run"]
    /\ OnlyStream

RunReturned(e) ==
    /\ stream[e].step = "running" /\ PendingDone(e)
    /\ stream' = [stream EXCEPT ![e].step = "check", ![e].pending = "none"]
    /\ OnlyStream

\* get_owned: only a receipt that succeeded has results to page through.
CheckReceipt(e) ==
    /\ stream[e].step = "check"
    /\ \/ To(e, IF rec[e].status = "succeeded" THEN "page" ELSE "cleanup")
          /\ UNCHANGED events
       \/ Fault /\ To(e, "cleanup")
    /\ UNCHANGED <<rec, work, session, reg, expired, closing, fetch, cancelling, capacityVars>>

-----------------------------------------------------------------------------
(* Pages *)

StartPage(e) ==
    /\ stream[e].step = "page"
    /\ stream' = [stream EXCEPT ![e].step = "fetching", ![e].pending = "page",
                                ![e].page = "none"]
    /\ OnlyStream

\* console.page in its thread: refused, or begun, fetched and ended.
PageThread(e) ==
    /\ stream[e].pending = "page" /\ stream[e].page = "none"
    /\ \/ BeginPage(e, e, stream[e].tile) /\ UNCHANGED stream
       \/ /\ Idle(e)
          /\ Claimable(Purge(reg), e, stream[e].tile) = {}
          /\ SetRegistry(Purge(reg))
          /\ stream' = [stream EXCEPT ![e].page = "error"]
          /\ UNCHANGED <<rec, work, session, expired, fetch, cancelling, events, capacityVars>>
       \/ /\ Idle(e)
          /\ Fault
          /\ stream' = [stream EXCEPT ![e].page = "error"]
          /\ UNCHANGED <<rec, work, session, reg, expired, closing, fetch, cancelling, capacityVars>>
       \/ Fetch(e) /\ UNCHANGED stream
       \/ /\ EndFetch(e)
          /\ stream' = [stream EXCEPT ![e].page =
               CASE fetch[e].out \in {"broken", "gone"} -> "error"
                 [] reg.res[e][stream[e].tile].pending -> "end"
                 [] OTHER -> fetch[e].out]

\* The rows are sent on. The tile is complete at its last page or at a limit of
\* the preview.
PageReturned(e) ==
    /\ stream[e].step = "fetching" /\ PendingDone(e)
    /\ \E step \in CASE stream[e].page = "more" -> {"page", "close"}
                     [] stream[e].page = "end" -> {"close"}
                     [] OTHER -> {"cleanup"} :
         stream' = [stream EXCEPT ![e].step = step, ![e].pending = "none"]
    /\ OnlyStream

\* close_result of a tile: it may fail, or find the result closed.
CloseTile(e) ==
    LET tile == stream[e].tile IN
    \/ /\ CloseResult(e, tile)
    \/ /\ tile \notin rec[e].open
       /\ OnlyStream
    \/ /\ Fault
       /\ rec' \in {rec, [rec EXCEPT ![e].open = @ \ {tile}]}
       /\ UNCHANGED <<work, session, reg, expired, closing, fetch, cancelling, capacityVars>>

TileComplete(e) ==
    /\ stream[e].step = "close"
    /\ CloseTile(e)
    /\ LET closed == events' = events /\ stream[e].tile \in rec[e].open IN
       stream' = [stream EXCEPT
         ![e].step = CASE ~closed -> "cleanup"
                       [] stream[e].tile = Cardinality(Stmts) -> "ended"
                       [] OTHER -> "page",
         ![e].tile = IF closed THEN @ + 1 ELSE @]

-----------------------------------------------------------------------------
(* The client leaves, the deadline passes, or the access check fails *)

Abort(e) ==
    /\ \/ stream[e].step = "reserving" /\ To(e, "unwanted")
       \/ /\ stream[e].step \in {"reserved", "running", "check", "page", "fetching"}
          /\ To(e, "cleanup")
       \/ /\ stream[e].step = "close"
          /\ stream' = [stream EXCEPT ![e].step = "cleanup", ![e].stray = TRUE]
    /\ OnlyStream

\* The thread of a close that nobody awaits any more.
StrayClose(e) ==
    /\ stream[e].stray
    /\ CloseTile(e)
    /\ stream' = [stream EXCEPT ![e].stray = FALSE]

\* _cleanup: cancel, join the thread, read the receipt, close each result.
CleanupCancel(e) ==
    /\ stream[e].step = "cleanup"
    /\ \/ CancelRequested(e) /\ UNCHANGED events
       \/ rec[e].status = "pruned" /\ OnlyStream
       \/ Fault /\ UNCHANGED <<rec, work, session, reg, expired, closing, fetch,
                               cancelling, capacityVars>>
    /\ To(e, "join")

\* Mutants: the thread is not waited for; only a cancelled receipt is.
CleanupJoinEarly(e) ==
    /\ stream[e].step = "join"
    /\ e \notin cancelling
    /\ \/ /\ stream' = [stream EXCEPT ![e].step = "sweep", ![e].tile = 1,
                                      ![e].pending = "none"]
          /\ UNCHANGED events
       \/ Fault /\ To(e, "ended")
    /\ UNCHANGED <<rec, work, session, reg, expired, closing, fetch, cancelling, capacityVars>>

CleanupJoinCancelled(e) ==
    /\ stream[e].step = "join"
    /\ e \notin cancelling
    /\ PendingDone(e) /\ rec[e].status = "cancelled"
    /\ \/ /\ stream' = [stream EXCEPT ![e].step = "sweep", ![e].tile = 1,
                                      ![e].pending = "none"]
          /\ UNCHANGED events
       \/ Fault /\ To(e, "ended")
    /\ UNCHANGED <<rec, work, session, reg, expired, closing, fetch, cancelling, capacityVars>>

CleanupJoin(e) ==
    /\ stream[e].step = "join"
    /\ e \notin cancelling
    /\ PendingDone(e)
    /\ \/ /\ stream' = [stream EXCEPT ![e].step = "sweep", ![e].tile = 1,
                                      ![e].pending = "none"]
          /\ UNCHANGED events
       \/ Fault /\ To(e, "ended")
    /\ UNCHANGED <<rec, work, session, reg, expired, closing, fetch, cancelling, capacityVars>>

CleanupClose(e) ==
    /\ stream[e].step = "sweep"
    /\ CloseTile(e)
    /\ stream' = [stream EXCEPT
         ![e].step = IF stream[e].tile = Cardinality(Stmts) THEN "ended" ELSE "sweep",
         ![e].tile = @ + 1]

-----------------------------------------------------------------------------
(* Streams and reads together *)

StreamStep(e) ==
    \/ \E S \in Prunable : StreamReserved(e, S)
    \/ ReserveRefused(e) \/ Withdraw(e) \/ StartRun(e) \/ RunReturned(e)
    \/ CheckReceipt(e) \/ StartPage(e) \/ PageThread(e) \/ PageReturned(e)
    \/ TileComplete(e) \/ StrayClose(e)
    \/ CleanupCancel(e) \/ CleanupJoin(e) \/ CleanupClose(e)

\* The steps of ConsoleReads that a stream does not take itself. The results of
\* a report are asked for by its stream alone.
ReadsStep ==
    \/ \E e \in Execs :
         \/ e \notin Streamed /\ \E S \in Prunable : Reserve(e, S)
         \/ (e \in Streamed => stream[e].pending = "run") /\ Worker(e)
         \/ CloseSession(e) \/ Expire(e) \/ LapseProtection(e)
         \/ RequestCancel(e) \/ CancelRetained(e)
         \/ e \notin Streamed /\ \E s \in Stmts : CloseResult(e, s)
    \/ \E f \in Fetchers \cap DOMAIN fetch : Request(f, Execs \ Streamed)
    \/ \E c \in Clients : Reclaim(c) \/ Retry(c)
    \/ \E c \in Others : OtherClient(c)
    \/ Refused

StreamNext ==
    \/ \E e \in Streamed : OpenStream(e) \/ StreamStep(e) \/ Abort(e)
    \/ ReadsStep /\ UNCHANGED stream
    \/ \E S \in Prunable : Restart(S)
         /\ stream' = [e \in Streamed |-> [NoStream EXCEPT !.step =
                         IF stream[e].step = "none" THEN "none" ELSE "ended"]]

StreamSpec == StreamInit /\ [][StreamNext]_streamVars

\* Threads that were started end, a deadline bounds the wait for a permit and
\* every statement, and the event loop runs what is ready.
Progress(e) ==
    \/ StreamStep(e) /\ UNCHANGED events
    \/ (Worker(e) \/ CancelRetained(e) \/ CloseSession(e) \/ Reclaim(e) \/ Retry(e))
       /\ UNCHANGED <<stream, events>>

FairStreamSpec ==
    /\ StreamSpec
    /\ \A e \in Streamed : WF_streamVars(Progress(e))
    /\ \A e \in Execs : WF_streamVars(CloseSession(e) /\ UNCHANGED stream)

-----------------------------------------------------------------------------
(* Properties *)

StreamTypeOK ==
    stream \in [Streamed -> [step : StreamSteps,
                             tile : 1..(Cardinality(Stmts) + 1),
                             pending : {"none", "run", "page"},
                             page : {"none", "more", "end", "error"},
                             stray : BOOLEAN]]

\* A stream that ended, however and whenever it was cut off, leaves nothing at
\* work: its receipt is final, no thread fetches, and what is still registered
\* (the session of a cancelled run, the results of a receipt that expired) goes
\* with the next purge. A failing metadata store, and a close that is still
\* under way, may break this.
StreamsCleanUp ==
    /\ StreamTypeOK
    /\ \A e \in Streamed :
          stream[e].step = "ended" /\ ~stream[e].stray /\ ~events.failed
          /\ e \notin cancelling =>
              /\ rec[e].status \notin {"reserved", "running"}
              /\ ~(\E f \in DOMAIN fetch : fetch[f].e = e)
              /\ Results(Purge(reg), e) = {} /\ e \notin Purge(reg).prot
              /\ e \notin ToSet(Purge(reg).live)

\* Every stream ends, whatever its client and its query do.
StreamsEnd ==
    \A e \in Streamed : stream[e].step # "none" ~> stream[e].step = "ended"
=============================================================================
