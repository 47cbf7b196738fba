---------------------- MODULE MigrationExecutionProofs ----------------------
(***************************************************************************)
(* Proofs that MigrationExecution keeps its safety properties for every    *)
(* number of workers, requests, plans, transactions and faults: what a     *)
(* step must show to keep the inductive invariant, by what it writes, one  *)
(* lemma for every step, and the history that the steps leave behind.      *)
(* Receipts change only the way transition_execution allows, one execution *)
(* is unsettled at a time, no edit of a design is lost, and the baseline   *)
(* describes only what the target committed.                               *)
(***************************************************************************)
EXTENDS MigrationExecution, TLAPS

\* Only a receipt that is new or failed may not change (Legal).
LEMMA LegalFrom ==
  \A s \in Statuses : s \in ActiveStatuses \cup {"succeeded"} \/ Legal[s] = {}
  <1>1. Legal["none"] = {} /\ Legal["failed"] = {}
    BY DEF Legal
  <1>2. \A s \in Statuses :
          s \in ActiveStatuses \cup {"succeeded"} \/ s = "none" \/ s = "failed"
    BY Zenon DEF Statuses, ActiveStatuses
  <1> QED BY <1>1, <1>2, Zenon

\* A table in which one row is written.
LEMMA RowPut ==
  ASSUME NEW f, NEW i, NEW r
  PROVE  \A e \in DOMAIN f : \/ [f EXCEPT ![i] = r][e] = f[e]
                              \/ [f EXCEPT ![i] = r][e] = r
  OBVIOUS

USE ConstantsAssumption DEF Procs

-----------------------------------------------------------------------------
(* Frame lemmas: what a write to one receipt or one transaction leaves true *)

\* A receipt may advance under a process that carries an older copy of it, as
\* long as the transaction id and the intended result, once set, are kept.
LEMMA ExecFrame ==
  ASSUME NEW X \in [Execs -> ExecRecord], NEW T, NEW e \in Execs,
         NEW r \in ExecRecord, r.rev = X[e].rev + 1,
         X[e].xid # None => r.xid = X[e].xid,
         X[e].intended => r.intended,
         NEW q, NEW k \in Local, ProcOK(X, T, q, k)
  PROVE  ProcOK([X EXCEPT ![e] = r], T, q, k)
  <1> DEFINE Y == [X EXCEPT ![e] = r]
  <1> CASE k.pc = "idle"
    BY DEF ProcOK
  <1> CASE k.pc # "idle"
    <2>1. k.job \in Execs /\ Coherent(k, X[k.job]) /\ Durable(k, X[k.job])
          /\ TxnOwned(T, q, k)
      BY DEF ProcOK
    <2>2. Coherent(k, Y[k.job])
      BY <2>1 DEF Coherent, ExecRecord, Local
    <2>3. Durable(k, Y[k.job])
      BY <2>1 DEF Durable, TxnOwned, TxnSteps, ExecRecord, Local
    <2> QED
      BY <2>1, <2>2, <2>3 DEF ProcOK
  <1> QED
    OBVIOUS

\* How a transaction may change: it keeps its execution, and an outcome is
\* final.
Advances(o, n) ==
    o.state # "none" =>
        /\ n.exec = o.exec /\ n.state # "none"
        /\ o.state \in {"aborted", "committed"} => n.state = o.state

\* A receipt stays true when a transaction advances: outcomes are final.
LEMMA ReceiptFrame ==
  ASSUME NEW T \in [Xids -> TxnRecord], NEW t \in Xids, NEW n \in TxnRecord,
         Advances(T[t], n), NEW e, NEW r \in ExecRecord, ReceiptOK(T, e, r)
  PROVE  ReceiptOK([T EXCEPT ![t] = n], e, r)
  BY DEF ReceiptOK, Advances, ExecRecord, TxnRecord

\* A process survives a change of a transaction that is not its own, or of its
\* own when that is not sent to commit.
LEMMA TxnFrame ==
  ASSUME NEW T \in [Xids -> TxnRecord], NEW t \in Xids, NEW n \in TxnRecord,
         Advances(T[t], n), NEW X, NEW q, NEW k \in Local, ProcOK(X, T, q, k),
         k.tx = t /\ n.state \in {"committing", "committed"} =>
             T[t].state \in {"committing", "committed"}
  PROVE  ProcOK(X, [T EXCEPT ![t] = n], q, k)
  <1> DEFINE U == [T EXCEPT ![t] = n]
  <1> CASE k.pc = "idle"
    BY DEF ProcOK
  <1> CASE k.pc # "idle"
    <2>1. k.snap \in ExecRecord
      BY DEF Local
    <2>2. ReceiptOK(U, k.job, k.snap)
      BY <2>1, ReceiptFrame, Zenon DEF ProcOK
    <2>3. TxnOwned(U, q, k)
      BY DEF ProcOK, TxnOwned, Advances, Local, TxnRecord
    <2>5. \A y \in Xids : T[y].state \in {"aborted", "committed"} =>
                            U[y].state = T[y].state
      BY DEF Advances
    <2>6. k.snap.xid # None => k.snap.xid \in Xids
      BY <2>1, Zenon DEF ExecRecord
    <2>7. Grounded(T, k)
      BY Zenon DEF ProcOK
    <2>4. Grounded(U, k)
      <3> HIDE DEF U
      <3> QED
        BY <2>5, <2>6, <2>7, ZenonT(40) DEF Grounded
    <2> QED
      BY <2>2, <2>3, <2>4 DEF ProcOK
  <1> QED
    OBVIOUS

-----------------------------------------------------------------------------
(* Step lemmas: what is left to show of a step that writes only one process, *)
(* one receipt and a process, or one transaction and a process               *)

\* A step that only moves one process keeps the invariant if that process
\* may rely on its new locals.
LEMMA LocalStep ==
  ASSUME SafetyInv, TypeOK', NEW p \in Procs, NEW l \in Local,
         proc' = [proc EXCEPT ![p] = l],
         plan' = plan, exec' = exec, txns' = txns, draft' = draft,
         ProcOK(exec, txns, p, l),
         l.pc # "idle" => plan[l.job].status = "claimed",
         l.tx \in {None, proc[p].tx}
  PROVE  SafetyInv'
  <1>1. PlansOK'
    BY DEF SafetyInv, PlansOK, TypeOK
  <1>2. EvidenceBeforeCommit'
    BY DEF SafetyInv, EvidenceBeforeCommit, Sent
  <1>3. \A q \in Procs : ProcOK(exec', txns', q, proc'[q])
    BY DEF SafetyInv, TypeOK
  <1>4. \A q, r \in Procs : proc'[q].tx = proc'[r].tx /\ proc'[q].tx # None => q = r
    BY DEF SafetyInv, TypeOK
  <1> QED
    BY <1>1, <1>2, <1>3, <1>4 DEF SafetyInv

\* A step that rewrites one receipt keeps the invariant if the new row has the
\* next revision, keeps its evidence and is true of the target.
LEMMA ExecStep ==
  ASSUME SafetyInv, TypeOK', NEW p \in Procs, NEW l \in Local,
         NEW e \in Execs, NEW r \in ExecRecord,
         proc' = [proc EXCEPT ![p] = l], exec' = [exec EXCEPT ![e] = r],
         plan' = plan, txns' = txns, draft' = draft,
         plan[e].status = "claimed",
         r.rev = exec[e].rev + 1,
         exec[e].xid # None => r.xid = exec[e].xid,
         exec[e].intended => r.intended,
         ReceiptOK(txns, e, r),
         ProcOK([exec EXCEPT ![e] = r], txns, p, l),
         l.pc # "idle" => plan[l.job].status = "claimed",
         l.tx \in {None, proc[p].tx}
  PROVE  SafetyInv'
  <1>0. proc \in [Procs -> Local] /\ exec \in [Execs -> ExecRecord]
    BY DEF SafetyInv, TypeOK
  <1>1. PlansOK'
    BY <1>0, Zenon DEF SafetyInv, PlansOK
  <1>2. EvidenceBeforeCommit'
    <2> SUFFICES ASSUME NEW t \in Xids, Sent(t)
                 PROVE  exec'[txns[t].exec].xid = t /\ exec'[txns[t].exec].intended
      BY Zenon DEF EvidenceBeforeCommit, Sent
    <2>1. exec[txns[t].exec].xid = t /\ exec[txns[t].exec].intended
      BY Zenon DEF SafetyInv, EvidenceBeforeCommit
    <2>2. exec \in [Execs -> ExecRecord] /\ t # None
      BY Zenon, ConstantsAssumption DEF SafetyInv, TypeOK
    <2>3. txns[t].exec \in Execs
      BY Zenon DEF SafetyInv, Sent
    <2>4. CASE txns[t].exec = e
      <3>1. exec'[txns[t].exec] = r
        BY <2>2, <2>4, Zenon
      <3> QED BY <2>1, <2>2, <2>4, <3>1, Zenon
    <2>5. CASE txns[t].exec # e
      <3>1. exec'[txns[t].exec] = exec[txns[t].exec]
        BY <2>2, <2>3, <2>5, Zenon
      <3> QED BY <2>1, <3>1, Zenon
    <2> QED BY <2>4, <2>5, Zenon
  <1>3. ASSUME NEW q \in Procs PROVE ProcOK(exec', txns', q, proc'[q])
    <2>1. CASE q = p
      BY <2>1 DEF SafetyInv, TypeOK
    <2>2. CASE q # p
      BY <2>2, ExecFrame, Zenon DEF SafetyInv, TypeOK
    <2> QED BY <2>1, <2>2
  <1>4. \A q, s \in Procs : proc'[q].tx = proc'[s].tx /\ proc'[q].tx # None => q = s
    BY DEF SafetyInv, TypeOK
  <1>5. \A f \in Execs : ReceiptOK(txns', f, exec'[f])
    BY DEF SafetyInv, TypeOK
  <1> QED
    BY <1>1, <1>2, <1>3, <1>4, <1>5, Zenon DEF SafetyInv

\* A step that moves a transaction and the process that drives it keeps the
\* invariant if a commit is sent only with its evidence stored.
LEMMA TxnStep ==
  ASSUME SafetyInv, TypeOK', NEW p \in Procs, NEW l \in Local,
         NEW t \in Xids, NEW n \in TxnRecord,
         proc' = [proc EXCEPT ![p] = l], txns' = [txns EXCEPT ![t] = n],
         plan' = plan, exec' = exec, draft' = draft,
         Advances(txns[t], n), n.exec \in Execs,
         n.state \in {"committing", "committed"} =>
             exec[n.exec].xid = t /\ exec[n.exec].intended,
         \A q \in Procs \ {p} : proc[q].tx # t,
         ProcOK(exec, [txns EXCEPT ![t] = n], p, l),
         l.pc # "idle" => plan[l.job].status = "claimed",
         l.tx \in {None, proc[p].tx, t}
  PROVE  SafetyInv'
  <1>1. PlansOK'
    BY DEF SafetyInv, PlansOK, TypeOK
  <1>2. EvidenceBeforeCommit'
    <2> SUFFICES ASSUME NEW u \in Xids,
                        txns'[u].state \in {"committing", "committed"}
                 PROVE  exec[txns'[u].exec].xid = u /\ exec[txns'[u].exec].intended
      BY Zenon DEF EvidenceBeforeCommit, Sent
    <2>1. txns \in [Xids -> TxnRecord]
      BY Zenon DEF SafetyInv, TypeOK
    <2>2. CASE u = t
      <3>1. txns'[u] = n
        BY <2>1, <2>2, Zenon
      <3> QED BY <2>2, <3>1, Zenon
    <2>3. CASE u # t
      <3>1. txns'[u] = txns[u]
        BY <2>1, <2>3, Zenon
      <3> QED BY <3>1, Zenon DEF SafetyInv, EvidenceBeforeCommit, Sent
    <2> QED BY <2>2, <2>3, Zenon
  <1>3. ASSUME NEW q \in Procs PROVE ProcOK(exec', txns', q, proc'[q])
    <2>1. CASE q = p
      BY <2>1 DEF SafetyInv, TypeOK
    <2>2. CASE q # p
      BY <2>2, TxnFrame, Zenon DEF SafetyInv, TypeOK
    <2> QED BY <2>1, <2>2
  <1>4. \A q, s \in Procs : proc'[q].tx = proc'[s].tx /\ proc'[q].tx # None => q = s
    BY DEF SafetyInv, TypeOK
  <1>5. \A f \in Execs : ReceiptOK(txns', f, exec'[f])
    BY ReceiptFrame, Zenon DEF SafetyInv, TypeOK
  <1>6. \A u \in Xids : txns'[u].state # "none" => txns'[u].exec \in Execs
    BY DEF SafetyInv, TypeOK
  <1> QED
    BY <1>1, <1>2, <1>3, <1>4, <1>5, <1>6, Zenon DEF SafetyInv

\* The target server's own steps: no process moves.
LEMMA ServerStep ==
  ASSUME SafetyInv, TypeOK', NEW t \in Xids, NEW n \in TxnRecord,
         txns' = [txns EXCEPT ![t] = n],
         plan' = plan, exec' = exec, draft' = draft, proc' = proc,
         Advances(txns[t], n), n.exec = txns[t].exec, txns[t].state # "none",
         n.state \in {"committing", "committed"} =>
             txns[t].state \in {"committing", "committed"}
  PROVE  SafetyInv'
  <1>1. PlansOK'
    BY DEF SafetyInv, PlansOK, TypeOK
  <1>2. EvidenceBeforeCommit'
    BY DEF SafetyInv, EvidenceBeforeCommit, Sent, TypeOK
  <1>3. ASSUME NEW q \in Procs PROVE ProcOK(exec', txns', q, proc'[q])
    BY TxnFrame, Zenon DEF SafetyInv, TypeOK
  <1>4. \A q, s \in Procs : proc'[q].tx = proc'[s].tx /\ proc'[q].tx # None => q = s
    BY DEF SafetyInv
  <1>5. \A f \in Execs : ReceiptOK(txns', f, exec'[f])
    BY ReceiptFrame, Zenon DEF SafetyInv, TypeOK
  <1>6. \A u \in Xids : txns'[u].state # "none" => txns'[u].exec \in Execs
    BY DEF SafetyInv, TypeOK
  <1> QED
    BY <1>1, <1>2, <1>3, <1>4, <1>5, <1>6, Zenon DEF SafetyInv

\* A step that only moves process p, its record and its transaction aside.
LEMMA MoveStep ==
  ASSUME SafetyInv, NEW p \in Procs, NEW l \in Local,
         proc' = [proc EXCEPT ![p] = l],
         UNCHANGED <<plan, exec, leaseLive, editing, draft, txns, catalog>>,
         head' \in [rev : Nat, catalog : Catalogs],
         design' \in [rev : Nat, fp : Contents],
         left' \in [Bounds -> Nat],
         ProcOK(exec, txns, p, l),
         proc[p].pc # "idle",
         l.pc # "idle" => l.job = proc[p].job,
         l.tx \in {None, proc[p].tx}
  PROVE  SafetyInv'
  <1>1. TypeOK'
    BY DEF SafetyInv, TypeOK
  <1>2. l.pc # "idle" => plan[l.job].status = "claimed"
    BY DEF SafetyInv, PlansOK
  <1> QED
    BY <1>1, <1>2, LocalStep, Zenon

\* Using up a bound keeps the counters natural numbers.
LEMMA SpendType ==
  ASSUME left \in [Bounds -> Nat], NEW b \in Bounds, NEW test,
         Spend(b) \/ SpendIf(test, b)
  PROVE  left' \in [Bounds -> Nat]
  BY DEF Spend, SpendIf

\* A process that is idle relies on nothing.
LEMMA IdleOK ==
  /\ NoExec \in ExecRecord
  /\ Idle \in Local /\ Idle.pc = "idle" /\ Idle.tx = None
  /\ \A X, T, p : ProcOK(X, T, p, Idle)
  BY DEF NoExec, ExecRecord, Statuses, Idle, Local, ProcOK

\* What SafetyInv says of one process.
LEMMA ProcFacts ==
  ASSUME SafetyInv, NEW p \in Procs
  PROVE  /\ proc[p] \in Local /\ proc[p].snap \in ExecRecord
         /\ ProcOK(exec, txns, p, proc[p])
         /\ proc[p].pc # "idle" => /\ proc[p].job \in Execs
                                   /\ exec[proc[p].job] \in ExecRecord
                                   /\ plan[proc[p].job].status = "claimed"
  BY DEF SafetyInv, TypeOK, ProcOK, PlansOK, Local

\* The moves along which a process keeps its record and its transaction, and
\* needs nothing new.
Edge(a, b) ==
    \/ a = "design" /\ b = "baseline"
    \/ a = "baseline" /\ b = "open"
    \/ a = "check" /\ b = "rollback"
    \/ a = "ddl" /\ b \in {"intended", "rollback"}
    \/ a \in {"started", "intended"} /\ b = "unwind"
    \/ a \in SyncSteps /\ b \in SyncSteps
    \/ a \in {"design", "baseline", "recover", "settle"} \cup SyncSteps /\ b = "handle"

\* The edges between program counters that need no new fact.
LEMMA EdgeOK ==
  ASSUME NEW X, NEW T, NEW p, NEW l \in Local, NEW k \in Local,
         ProcOK(X, T, p, l), l.pc # "idle", Edge(l.pc, k.pc),
         k.job = l.job, k.snap = l.snap, k.tx = l.tx
  PROVE  ProcOK(X, T, p, k)
  <1>1. k.pc # "idle"
    BY DEF Edge, SyncSteps
  <1>2. TxnOwned(T, p, k)
    BY DEF ProcOK, TxnOwned, TxnSteps, Edge, SyncSteps
  <1>3. Durable(k, X[k.job])
    BY DEF ProcOK, TxnOwned, TxnSteps, Durable, ReceiptOK, Edge, SyncSteps
  <1>4. Grounded(T, k)
    BY DEF ProcOK, Grounded, Edge, SyncSteps
  <1> QED
    BY <1>1, <1>2, <1>3, <1>4 DEF ProcOK, Coherent

\* A step that only changes the program counter along such an edge.
LEMMA GotoStep ==
  ASSUME SafetyInv, NEW p \in Procs, NEW label, Goto(p, label),
         proc[p].pc # "idle",
         label = "idle" \/ Edge(proc[p].pc, label),
         UNCHANGED <<plan, exec, leaseLive, editing, draft, txns, catalog>>,
         head' \in [rev : Nat, catalog : Catalogs],
         design' \in [rev : Nat, fp : Contents],
         left' \in [Bounds -> Nat]
  PROVE  SafetyInv'
  <1>0. proc[p] \in Local /\ ProcOK(exec, txns, p, proc[p])
    BY ProcFacts
  <1>1. CASE label = "idle"
    <2>1. proc' = [proc EXCEPT ![p] = Idle]
      BY <1>1 DEF Goto, Become, At
    <2> QED
      BY <2>1, IdleOK, MoveStep, Zenon
  <1>2. CASE label # "idle"
    <2> DEFINE l == [proc[p] EXCEPT !.pc = label]
    <2>1. label \in {"baseline", "open", "rollback", "intended", "unwind",
                     "handle"} \cup SyncSteps
      BY <1>2 DEF Edge
    <2>2. /\ proc' = [proc EXCEPT ![p] = l] /\ l \in Local
          /\ l.pc = label /\ l.job = proc[p].job /\ l.snap = proc[p].snap
          /\ l.tx = proc[p].tx
      BY <1>0, <1>2, <2>1 DEF Goto, Become, At, Local, SyncSteps
    <2> HIDE DEF l
    <2>3. ProcOK(exec, txns, p, l)
      BY <1>0, <1>2, <2>2, EdgeOK
    <2> QED
      BY <2>2, <2>3, MoveStep, Zenon
  <1> QED
    BY <1>1, <1>2

\* A process may conclude v when the target said so.
Justified(T, r, v) ==
    /\ v \in {"failed", "uncertain", "lost", "in_progress", "committed",
              "no_evidence", "conflict", "synced", "sync_failed"}
    /\ v = "failed" /\ r.xid # None => T[r.xid].state = "aborted"
    /\ v = "committed" => r.xid # None /\ T[r.xid].state = "committed"
    /\ v \in {"no_evidence", "conflict", "synced"} => r.outcome = "committed"

\* A process that concludes what it has grounds for may settle it.
LEMMA ConcludeOK ==
  ASSUME NEW X, NEW T, NEW p, NEW l \in Local, NEW k \in Local,
         l.job \in Execs, ReceiptOK(T, l.job, l.snap), Coherent(l, X[l.job]),
         k.job = l.job, k.snap = l.snap, k.tx = None, k.pc = "settle",
         Justified(T, l.snap, k.verdict)
  PROVE  ProcOK(X, T, p, k)
  <1>1. TxnOwned(T, p, k) /\ Durable(k, X[k.job]) /\ Grounded(T, k)
    BY DEF TxnOwned, TxnSteps, Durable, Grounded, Justified
  <1> QED
    BY <1>1 DEF ProcOK, Coherent

\* A step that only concludes a verdict with grounds.
LEMMA ConcludeStep ==
  ASSUME SafetyInv, NEW p \in Procs, NEW v, Conclude(p, v),
         proc[p].pc # "idle", Justified(txns, proc[p].snap, v),
         UNCHANGED <<plan, exec, leaseLive, editing, draft, txns, catalog,
                     head, design>>,
         left' \in [Bounds -> Nat]
  PROVE  SafetyInv'
  <1> DEFINE l == [proc[p] EXCEPT !.pc = "settle", !.verdict = v, !.tx = None]
  <1>0. /\ proc[p] \in Local /\ proc[p].job \in Execs
        /\ ReceiptOK(txns, proc[p].job, proc[p].snap)
        /\ Coherent(proc[p], exec[proc[p].job])
    BY ProcFacts DEF ProcOK
  <1>1. proc' = [proc EXCEPT ![p] = l]
    BY DEF Conclude, Become
  <1>2. /\ l \in Local /\ l.job = proc[p].job /\ l.snap = proc[p].snap
        /\ l.tx = None /\ l.pc = "settle" /\ l.verdict = v
    BY <1>0, Zenon DEF Local, Justified
  <1>3. head' \in [rev : Nat, catalog : Catalogs] /\ design' \in [rev : Nat, fp : Contents]
    BY DEF SafetyInv, TypeOK
  <1> HIDE DEF l
  <1>4. ProcOK(exec, txns, p, l)
    BY <1>0, <1>2, ConcludeOK, Zenon
  <1> QED
    BY <1>1, <1>2, <1>3, <1>4, MoveStep, Zenon

-----------------------------------------------------------------------------
(* The steps of a process that write neither receipts nor transactions *)

\* The two comparisons of _execute_claimed keep the invariant.
LEMMA CheckDesignSafe ==
  ASSUME SafetyInv, NEW w \in Workers, CheckDesign(w) \/ CheckBaseline(w)
  PROVE  SafetyInv'
  <1>1. /\ proc[w].pc \in {"design", "baseline"}
        /\ UNCHANGED <<plan, exec, leaseLive, editing, draft, txns, catalog,
                       head, design, left>>
    BY DEF CheckDesign, CheckBaseline
  <1>2. \/ Conclude(w, "failed")
        \/ \E lab : Goto(w, lab) /\ Edge(proc[w].pc, lab)
    BY DEF CheckDesign, CheckBaseline, Edge
  <1>3. Justified(txns, proc[w].snap, "failed")
    BY <1>1, ProcFacts DEF ProcOK, Durable, ReceiptOK, Justified
  <1>4. /\ head' \in [rev : Nat, catalog : Catalogs]
        /\ design' \in [rev : Nat, fp : Contents]
        /\ left' \in [Bounds -> Nat]
    BY <1>1 DEF SafetyInv, TypeOK
  <1> QED
    BY <1>1, <1>2, <1>3, <1>4, GotoStep, ConcludeStep

\* Running the statements of the migration keeps the invariant.
LEMMA ApplyStatementsSafe ==
  ASSUME SafetyInv, NEW w \in Workers, ApplyStatements(w)
  PROVE  SafetyInv'
  <1>1. /\ proc[w].pc = "ddl"
        /\ UNCHANGED <<plan, exec, leaseLive, editing, draft, txns, catalog,
                       head, design, left>>
    BY DEF ApplyStatements
  <1>2. \E lab : Goto(w, lab) /\ Edge(proc[w].pc, lab)
    BY <1>1 DEF ApplyStatements, Edge
  <1>3. /\ head' \in [rev : Nat, catalog : Catalogs]
        /\ design' \in [rev : Nat, fp : Contents]
        /\ left' \in [Bounds -> Nat]
    BY <1>1 DEF SafetyInv, TypeOK
  <1> QED
    BY <1>1, <1>2, <1>3, GotoStep

\* The answer to COMMIT is concluded as committed only when it is.
LEMMA CommitReturnsSafe ==
  ASSUME SafetyInv, NEW w \in Workers, CommitReturns(w)
  PROVE  SafetyInv'
  <1>1. /\ proc[w].pc = "await"
        /\ UNCHANGED <<plan, exec, leaseLive, editing, draft, txns, catalog,
                       head, design>>
    BY DEF CommitReturns
  <1>2. left' \in [Bounds -> Nat]
    BY SpendType DEF CommitReturns, SafetyInv, TypeOK, Bounds
  <1>3. proc[w].snap.xid = proc[w].tx /\ proc[w].tx # None
    BY <1>1, ProcFacts DEF ProcOK, Durable, TxnOwned, TxnSteps
  <1>4. \E v : Conclude(w, v) /\ Justified(txns, proc[w].snap, v)
    <2>1. CASE txns[proc[w].tx].state = "committed" /\ Conclude(w, "committed")
      <3>1. Justified(txns, proc[w].snap, "committed")
        BY <1>3, <2>1 DEF Justified
      <3> QED BY <2>1, <3>1, Zenon
    <2>2. CASE Conclude(w, "uncertain")
      <3>1. Justified(txns, proc[w].snap, "uncertain")
        BY DEF Justified
      <3> QED BY <2>2, <3>1, Zenon
    <2> QED
      BY <2>1, <2>2, Zenon DEF CommitReturns
  <1> QED
    BY <1>1, <1>2, <1>4, ConcludeStep

\* _reconcile_transaction concludes only what pg_xact_status answered.
LEMMA ReconcileTransactionSafe ==
  ASSUME SafetyInv, NEW p \in Procs, ReconcileTransaction(p)
  PROVE  SafetyInv'
  <1>1. /\ proc[p].pc = "recover"
        /\ UNCHANGED <<plan, exec, leaseLive, editing, draft, txns, catalog,
                       head, design>>
    BY DEF ReconcileTransaction
  <1>2. left' \in [Bounds -> Nat]
    BY SpendType, Zenon DEF ReconcileTransaction, SafetyInv, TypeOK, Bounds
  <1>3. proc[p].snap.xid # None
    BY <1>1, ProcFacts DEF ProcOK, Grounded
  <1>4. /\ Justified(txns, proc[p].snap, Evidence(proc[p].snap.xid))
        /\ Justified(txns, proc[p].snap, "lost")
    BY <1>3 DEF Justified, Evidence
  <1>5. Conclude(p, Evidence(proc[p].snap.xid)) \/ Conclude(p, "lost")
    BY DEF ReconcileTransaction
  <1> QED
    BY <1>1, <1>2, <1>4, <1>5, ConcludeStep

\* A process that reads the head or notes a conflict keeps its record.
LEMMA NoteStep ==
  ASSUME SafetyInv, NEW p \in Procs, NEW l \in Local, Become(p, l),
         proc[p].pc # "idle", Edge(proc[p].pc, l.pc),
         l.job = proc[p].job, l.snap = proc[p].snap, l.tx = proc[p].tx,
         UNCHANGED <<plan, exec, leaseLive, editing, draft, txns, catalog,
                     head, design, left>>
  PROVE  SafetyInv'
  <1>0. proc[p] \in Local /\ ProcOK(exec, txns, p, proc[p])
    BY ProcFacts
  <1>1. ProcOK(exec, txns, p, l)
    BY <1>0, EdgeOK
  <1>2. /\ head' \in [rev : Nat, catalog : Catalogs]
        /\ design' \in [rev : Nat, fp : Contents]
        /\ left' \in [Bounds -> Nat]
    BY DEF SafetyInv, TypeOK
  <1> QED
    BY <1>1, <1>2, MoveStep, Zenon DEF Become

\* The reads of _sync_committed keep the invariant.
LEMMA SyncReadsSafe ==
  ASSUME SafetyInv, NEW p \in Procs,
         SyncDesign(p) \/ SyncReadHead(p) \/ SyncRereadHead(p)
           \/ SyncLatestDesign(p)
  PROVE  SafetyInv'
  <1>0. /\ proc[p].pc \in SyncSteps /\ proc[p].pc # "idle"
        /\ UNCHANGED <<plan, exec, leaseLive, editing, draft, txns, catalog,
                       head, design, left>>
    BY DEF SyncDesign, SyncReadHead, SyncRereadHead, SyncLatestDesign, SyncSteps
  <1>1. proc[p] \in Local /\ head.rev \in Nat
    BY ProcFacts DEF SafetyInv, TypeOK
  <1>2. /\ head' \in [rev : Nat, catalog : Catalogs]
        /\ design' \in [rev : Nat, fp : Contents]
        /\ left' \in [Bounds -> Nat]
    BY <1>0 DEF SafetyInv, TypeOK
  <1>3. proc[p].snap.outcome = "committed"
    BY <1>0, ProcFacts, Zenon DEF ProcOK, Grounded, SyncSteps
  <1>4. CASE \E v \in {"no_evidence", "conflict", "synced"} : Conclude(p, v)
    BY <1>0, <1>2, <1>3, <1>4, ConcludeStep, Zenon DEF Justified
  <1>5. CASE \E lab \in SyncSteps : Goto(p, lab)
    BY <1>0, <1>2, <1>5, GotoStep, Zenon DEF Edge
  <1>6. CASE Become(p, [proc[p] EXCEPT !.pc = "head", !.designConflict = TRUE])
    <2> DEFINE l == [proc[p] EXCEPT !.pc = "head", !.designConflict = TRUE]
    <2>1. /\ l \in Local /\ l.pc = "head" /\ l.job = proc[p].job
          /\ l.snap = proc[p].snap /\ l.tx = proc[p].tx
      BY <1>1, Zenon DEF Local
    <2>2. Edge(proc[p].pc, "head") /\ Become(p, l)
      BY <1>0, <1>6 DEF Edge, SyncSteps
    <2> HIDE DEF l
    <2> QED
      BY <1>0, <2>1, <2>2, NoteStep, Zenon
  <1>7. CASE Become(p, [proc[p] EXCEPT !.pc = "insert", !.seenHead = head.rev])
    <2> DEFINE l == [proc[p] EXCEPT !.pc = "insert", !.seenHead = head.rev]
    <2>1. /\ l \in Local /\ l.pc = "insert" /\ l.job = proc[p].job
          /\ l.snap = proc[p].snap /\ l.tx = proc[p].tx
      BY <1>1, Zenon DEF Local
    <2>2. Edge(proc[p].pc, "insert") /\ Become(p, l)
      BY <1>0, <1>7 DEF Edge, SyncSteps
    <2> HIDE DEF l
    <2> QED
      BY <1>0, <2>1, <2>2, NoteStep
  <1> QED
    BY <1>4, <1>5, <1>6, <1>7
    DEF SyncDesign, SyncReadHead, SyncRereadHead, SyncLatestDesign, SyncSteps

\* The design checkpoint of _sync_committed keeps the invariant.
LEMMA SyncCheckpointSafe ==
  ASSUME SafetyInv, NEW p \in Procs, SyncCheckpoint(p)
  PROVE  SafetyInv'
  <1>0. /\ proc[p].pc = "checkpoint"
        /\ UNCHANGED <<plan, exec, leaseLive, editing, draft, txns, catalog, head>>
    BY DEF SyncCheckpoint
  <1>1. proc[p] \in Local /\ Merged(p) \in Contents /\ design.rev \in Nat
    BY <1>0, ProcFacts, Zenon DEF SafetyInv, TypeOK, Merged
  <1>2. /\ head' \in [rev : Nat, catalog : Catalogs]
        /\ design' \in [rev : Nat, fp : Contents]
    BY <1>0, <1>1 DEF SafetyInv, TypeOK, SyncCheckpoint
  <1>3. left' \in [Bounds -> Nat]
    BY SpendType, Zenon DEF SyncCheckpoint, SafetyInv, TypeOK, Bounds
  <1>4. CASE Goto(p, "head") \/ Goto(p, Raise(p))
    BY <1>0, <1>2, <1>3, <1>4, GotoStep, Zenon DEF Edge, SyncSteps, Raise
  <1>5. CASE /\ Become(p, [proc[p] EXCEPT !.pc = "head", !.designConflict = TRUE])
             /\ UNCHANGED <<design, left>>
    <2> DEFINE l == [proc[p] EXCEPT !.pc = "head", !.designConflict = TRUE]
    <2>1. /\ l \in Local /\ l.pc = "head" /\ l.job = proc[p].job
          /\ l.snap = proc[p].snap /\ l.tx = proc[p].tx
      BY <1>1, ZenonT(40) DEF Local
    <2>2. Edge(proc[p].pc, "head") /\ Become(p, l)
      BY <1>0, <1>5 DEF Edge, SyncSteps
    <2> HIDE DEF l
    <2> QED
      BY <1>0, <1>5, <2>1, <2>2, NoteStep
  <1> QED
    BY <1>4, <1>5 DEF SyncCheckpoint

\* The baseline insertion of _sync_committed keeps the invariant.
LEMMA SyncInsertBaselineSafe ==
  ASSUME SafetyInv, NEW p \in Procs, SyncInsertBaseline(p)
  PROVE  SafetyInv'
  <1>0. /\ proc[p].pc = "insert"
        /\ UNCHANGED <<plan, exec, leaseLive, editing, draft, txns, catalog, design>>
    BY DEF SyncInsertBaseline
  <1>1. IntendedCatalog(proc[p].job) \in Catalogs /\ head.rev \in Nat
    <2>1. proc[p].job \in Execs
      BY <1>0, ProcFacts, Zenon DEF ProcOK
    <2>2. head \in [rev : Nat, catalog : Catalogs] /\ plan[proc[p].job].live \in Catalogs
      BY <2>1 DEF SafetyInv, TypeOK
    <2>3. head.rev \in Nat
      BY <2>2, Zenon
    <2> QED
      BY <2>1, <2>2, <2>3 DEF IntendedCatalog, Catalogs
  <1>2. /\ head' \in [rev : Nat, catalog : Catalogs]
        /\ design' \in [rev : Nat, fp : Contents]
    <2>1. /\ head \in [rev : Nat, catalog : Catalogs]
          /\ design \in [rev : Nat, fp : Contents]
      BY Zenon DEF SafetyInv, TypeOK
    <2>2. \/ UNCHANGED head
          \/ head' = [rev |-> head.rev + 1, catalog |-> IntendedCatalog(proc[p].job)]
      BY Zenon DEF SyncInsertBaseline
    <2> QED
      BY <1>0, <1>1, <2>1, <2>2
  <1>3. left' \in [Bounds -> Nat]
    BY SpendType, Zenon DEF SyncInsertBaseline, SafetyInv, TypeOK, Bounds
  <1>4. \E lab : Goto(p, lab) /\ (lab = "idle" \/ Edge(proc[p].pc, lab))
    BY <1>0 DEF SyncInsertBaseline, Edge, SyncSteps, Raise
  <1> QED
    BY <1>0, <1>2, <1>3, <1>4, GotoStep

\* An unavailable service or a dying process keeps the invariant: what was
\* carried is forgotten, what was stored is kept.
LEMMA ServiceUnavailableSafe ==
  ASSUME SafetyInv, NEW p \in Procs, ServiceUnavailable(p) \/ Crash(p)
  PROVE  SafetyInv'
  <1>0. /\ proc[p].pc # "idle"
        /\ UNCHANGED <<plan, exec, leaseLive, editing, draft, txns, catalog,
                       head, design>>
    BY DEF ServiceUnavailable, Crash
  <1>1. /\ head' \in [rev : Nat, catalog : Catalogs]
        /\ design' \in [rev : Nat, fp : Contents]
    BY <1>0 DEF SafetyInv, TypeOK
  <1>2. left' \in [Bounds -> Nat]
    BY SpendType, Zenon DEF ServiceUnavailable, Crash, SafetyInv, TypeOK, Bounds
  <1>3. \E lab : Goto(p, lab) /\ (lab = "idle" \/ Edge(proc[p].pc, lab))
    BY DEF ServiceUnavailable, Crash, Edge, SyncSteps, Raise
  <1> QED
    BY <1>0, <1>1, <1>2, <1>3, GotoStep

\* The record and the failure a worker reads after an exception.
LEMMA ReadFailureSafe ==
  ASSUME SafetyInv, NEW w \in Workers, ReadFailure(w)
  PROVE  SafetyInv'
  <1> DEFINE cur == exec[proc[w].job]
             l == [proc[w] EXCEPT !.pc = "record", !.snap = cur,
                                  !.verdict = FailureVerdict(cur)]
  <1>0. /\ proc[w].pc = "handle"
        /\ UNCHANGED <<plan, exec, leaseLive, editing, draft, txns, catalog,
                       head, design>>
    BY DEF ReadFailure
  <1>1. /\ head' \in [rev : Nat, catalog : Catalogs]
        /\ design' \in [rev : Nat, fp : Contents]
    BY <1>0 DEF SafetyInv, TypeOK
  <1>2. left' \in [Bounds -> Nat]
    BY SpendType DEF ReadFailure, SafetyInv, TypeOK, Bounds
  <1>3. CASE Goto(w, "idle")
    BY <1>0, <1>1, <1>2, <1>3, GotoStep
  <1>4. CASE Become(w, l)
    <2>1. /\ proc[w] \in Local /\ proc[w].job \in Execs /\ cur \in ExecRecord
          /\ ReceiptOK(txns, proc[w].job, cur) /\ proc[w].tx = None
      BY <1>0, ProcFacts, Zenon DEF SafetyInv, ProcOK, TxnOwned, TxnSteps
    <2>2. /\ l \in Local /\ l.pc = "record" /\ l.snap = cur /\ l.tx = None
          /\ l.job = proc[w].job /\ l.verdict = FailureVerdict(cur)
      BY <2>1, Zenon DEF Local, FailureVerdict
    <2> HIDE DEF l
    <2>6. cur.rev \in Nat
      BY <2>1 DEF ExecRecord
    <2>7. TxnOwned(txns, w, l)
      BY <2>2 DEF TxnOwned, TxnSteps
    <2>8. Durable(l, cur)
      BY <2>2 DEF Durable
    <2>9. Coherent(l, cur)
      BY <2>2, <2>6 DEF Coherent
    <2>3. TxnOwned(txns, w, l) /\ Durable(l, cur) /\ Coherent(l, cur)
      BY <2>7, <2>8, <2>9, Zenon
    <2>10. /\ l.verdict \in {"failed", "lost", "sync_failed"}
           /\ l.verdict = "failed" => cur.status = "reserved"
      BY <2>2 DEF FailureVerdict
    <2>11. cur.status = "reserved" => cur.xid = None
      BY <2>1, Zenon DEF ReceiptOK
    <2>4. Grounded(txns, l)
      BY <2>2, <2>10, <2>11, ZenonT(40) DEF Grounded
    <2>5. ProcOK(exec, txns, w, l)
      BY <2>1, <2>2, <2>3, <2>4 DEF ProcOK
    <2> QED
      BY <1>0, <1>1, <1>2, <1>4, <2>2, <2>5, MoveStep, Zenon DEF Become
  <1> QED
    BY <1>3, <1>4 DEF ReadFailure

-----------------------------------------------------------------------------
(* The steps that write the process's own target transaction *)

TxnStates == {"open", "committing", "aborted"}

\* A step by which a worker moves its own transaction.
LEMMA OwnTxnStep ==
  ASSUME SafetyInv, NEW w \in Workers, NEW t, t = proc[w].tx,
         proc[w].pc \in TxnSteps, proc[w].pc # "await",
         NEW s \in TxnStates, s = "aborted" \/ LiveTxn(t),
         s = "committing" => proc[w].pc = "commit",
         NEW T, T = [txns EXCEPT ![t].state = s],
         NEW l \in Local, txns' = T, Become(w, l),
         l.pc # "idle", l.job = proc[w].job, l.snap = proc[w].snap,
         l.tx \in {None, t},
         TxnOwned(T, w, l), Durable(l, exec[l.job]), Grounded(T, l),
         UNCHANGED <<plan, exec, leaseLive, head, design, editing, draft,
                     catalog, left>>
  PROVE  SafetyInv'
  <1> DEFINE n == [txns[t] EXCEPT !.state = s]
  <1>0. /\ w \in Procs /\ proc[w] \in Local /\ proc[w].snap \in ExecRecord
        /\ proc[w].job \in Execs /\ proc[w].pc # "idle"
        /\ ReceiptOK(txns, proc[w].job, proc[w].snap)
        /\ Coherent(proc[w], exec[proc[w].job])
        /\ TxnOwned(txns, w, proc[w]) /\ Durable(proc[w], exec[proc[w].job])
        /\ plan[proc[w].job].status = "claimed"
    BY ProcFacts DEF ProcOK, TxnSteps
  <1>1. /\ t \in Xids /\ t # None /\ txns[t] \in TxnRecord
        /\ txns[t].exec = proc[w].job
        /\ txns[t].state \notin {"none", "committing", "committed"}
    BY <1>0 DEF TxnOwned, Local, SafetyInv, TypeOK
  <1>2. /\ n \in TxnRecord /\ n.exec = proc[w].job /\ n.state = s
        /\ T = [txns EXCEPT ![t] = n]
    BY <1>0, <1>1, Zenon DEF TxnRecord, TxnStates, SafetyInv, TypeOK
  <1>3. Advances(txns[t], n)
    BY <1>1, <1>2, Zenon DEF Advances, LiveTxn, TxnStates
  <1>4. s = "committing" => exec[n.exec].xid = t /\ exec[n.exec].intended
    BY <1>0, <1>2, Zenon DEF Durable
  <1>5. \A q \in Procs \ {w} : proc[q].tx # t
    BY <1>0, <1>1 DEF SafetyInv
  <1> HIDE DEF n
  <1>11. txns \in [Xids -> TxnRecord]
    BY DEF SafetyInv, TypeOK
  <1>12. ReceiptOK([txns EXCEPT ![t] = n], proc[w].job, proc[w].snap)
    BY <1>0, <1>1, <1>2, <1>3, <1>11, ReceiptFrame, Zenon
  <1>6. ReceiptOK(T, l.job, l.snap) /\ Coherent(l, exec[l.job])
    BY <1>0, <1>2, <1>12, Zenon DEF Coherent
  <1>7. ProcOK(exec, T, w, l)
    BY <1>0, <1>6, Zenon DEF ProcOK
  <1>8. TypeOK'
    <2>1. txns' \in [Xids -> TxnRecord]
      BY <1>1, <1>2, <1>11
    <2>2. proc' \in [Procs -> Local]
      <3>1. proc \in [Procs -> Local]
        BY Zenon DEF SafetyInv, TypeOK
      <3>2. proc' = [proc EXCEPT ![w] = l]
        BY <1>0, Zenon DEF Become
      <3> QED BY <1>0, <3>1, <3>2
    <2> QED
      BY <2>1, <2>2, Zenon DEF SafetyInv, TypeOK
  <1>13. /\ proc' = [proc EXCEPT ![w] = l] /\ txns' = [txns EXCEPT ![t] = n]
         /\ ProcOK(exec, [txns EXCEPT ![t] = n], w, l)
         /\ n.exec \in Execs /\ plan[l.job].status = "claimed"
         /\ n.state \in {"committing", "committed"} =>
               exec[n.exec].xid = t /\ exec[n.exec].intended
         /\ plan' = plan /\ exec' = exec /\ draft' = draft
         /\ l.tx \in {None, proc[w].tx, t}
    BY <1>0, <1>2, <1>4, <1>7, Zenon DEF Become, TxnStates
  <1> QED
    BY <1>0, <1>1, <1>2, <1>3, <1>5, <1>8, <1>13, TxnStep, Zenon

\* Opening the target session keeps the invariant: the transaction is new.
LEMMA OpenTargetSafe ==
  ASSUME SafetyInv, NEW w \in Workers, OpenTarget(w)
  PROVE  SafetyInv'
  <1>0. /\ w \in Procs /\ proc[w] \in Local /\ proc[w].snap \in ExecRecord
        /\ proc[w].job \in Execs /\ proc[w].pc = "open"
        /\ ReceiptOK(txns, proc[w].job, proc[w].snap)
        /\ Coherent(proc[w], exec[proc[w].job])
        /\ TxnOwned(txns, w, proc[w]) /\ Durable(proc[w], exec[proc[w].job])
        /\ plan[proc[w].job].status = "claimed"
        /\ UNCHANGED <<plan, exec, leaseLive, head, design, editing, draft,
                       catalog, left>>
    BY ProcFacts, Zenon DEF ProcOK, OpenTarget
  <1>1. CASE Conclude(w, "failed") /\ UNCHANGED txns
    <2>1. Justified(txns, proc[w].snap, "failed")
      BY <1>0, Zenon DEF Durable, ReceiptOK, Justified
    <2>2. left' \in [Bounds -> Nat]
      BY <1>0, Zenon DEF SafetyInv, TypeOK
    <2> QED
      BY <1>0, <1>1, <2>1, <2>2, ConcludeStep
  <1>2. ASSUME NEW t \in Xids, txns[t].state = "none",
               txns' = [txns EXCEPT ![t] = [state |-> "begun",
                          exec |-> proc[w].job, view |-> catalog]],
               Become(w, [proc[w] EXCEPT !.pc = "check", !.tx = t])
        PROVE  SafetyInv'
    <2> DEFINE n == [state |-> "begun", exec |-> proc[w].job, view |-> catalog]
               l == [proc[w] EXCEPT !.pc = "check", !.tx = t]
    <2>1. /\ l \in Local /\ l.pc = "check" /\ l.tx = t /\ l.job = proc[w].job
          /\ l.snap = proc[w].snap
      BY <1>0, Zenon DEF Local
    <2>2. /\ n \in TxnRecord /\ n.state = "begun" /\ n.exec = proc[w].job
          /\ txns' = [txns EXCEPT ![t] = n] /\ proc' = [proc EXCEPT ![w] = l]
      BY <1>0, <1>2 DEF TxnRecord, SafetyInv, TypeOK, Become
    <2> HIDE DEF n, l
    <2>3. Advances(txns[t], n)
      BY <1>2 DEF Advances
    <2>4. \A q \in Procs \ {w} : proc[q].tx # t
      BY <1>2, ProcFacts DEF ProcOK, TxnOwned
    <2>5. ReceiptOK(txns', l.job, l.snap) /\ Coherent(l, exec[l.job])
      BY <1>0, <2>1, <2>2, <2>3, ReceiptFrame, Zenon DEF SafetyInv, TypeOK, Coherent
    <2>6. TxnOwned(txns', w, l) /\ Durable(l, exec[l.job]) /\ Grounded(txns', l)
      BY <1>0, <2>1, <2>2, Zenon DEF TxnOwned, TxnSteps, Durable, Grounded, SafetyInv, TypeOK
    <2>7. ProcOK(exec, txns', w, l)
      BY <1>0, <2>1, <2>5, <2>6, Zenon DEF ProcOK
    <2>8. TypeOK'
      BY <1>0, <2>1, <2>2, Zenon DEF SafetyInv, TypeOK
    <2> QED
      BY <1>0, <2>1, <2>2, <2>3, <2>4, <2>7, <2>8, TxnStep, ZenonT(60)
  <1> QED
    BY <1>1, <1>2, Zenon DEF OpenTarget

\* Taking the advisory lock and comparing catalogs keeps the invariant.
LEMMA LockAndCheckSafe ==
  ASSUME SafetyInv, NEW w \in Workers, LockAndCheck(w)
  PROVE  SafetyInv'
  <1>0. /\ proc[w].pc = "check" /\ proc[w] \in Local
        /\ TxnOwned(txns, w, proc[w]) /\ Durable(proc[w], exec[proc[w].job])
        /\ proc[w].job \in Execs
        /\ UNCHANGED <<plan, exec, leaseLive, head, design, editing, draft,
                       catalog, left>>
    BY ProcFacts DEF ProcOK, LockAndCheck
  <1>1. CASE Goto(w, "rollback") /\ UNCHANGED txns
    BY <1>0, <1>1, GotoStep, Zenon DEF Edge, SafetyInv, TypeOK
  <1>2. CASE /\ LiveTxn(proc[w].tx)
             /\ txns' = [txns EXCEPT ![proc[w].tx].state = "open"]
             /\ Goto(w, "started")
    <2> DEFINE l == [proc[w] EXCEPT !.pc = "started"]
               T == [txns EXCEPT ![proc[w].tx].state = "open"]
    <2>1. /\ l \in Local /\ l.pc = "started" /\ l.job = proc[w].job
          /\ l.snap = proc[w].snap /\ l.tx = proc[w].tx /\ Become(w, l)
      BY <1>0, <1>2 DEF Local, Goto, At
    <2>2. T[proc[w].tx].exec = proc[w].job /\ T[proc[w].tx].state = "open"
      BY <1>0 DEF TxnOwned, TxnSteps, Local, SafetyInv, TypeOK, TxnRecord
    <2> HIDE DEF l
    <2>3. TxnOwned(T, w, l) /\ Durable(l, exec[l.job]) /\ Grounded(T, l)
      <3> HIDE DEF T
      <3> QED
        BY <1>0, <2>1, <2>2, Zenon DEF TxnOwned, TxnSteps, Durable, Grounded
    <2> QED
      BY <1>0, <1>2, <2>1, <2>3, OwnTxnStep, Zenon DEF TxnSteps, TxnStates
  <1> QED
    BY <1>1, <1>2 DEF LockAndCheck

\* COMMIT is sent only after on_intended, so its evidence is stored.
LEMMA SendCommitSafe ==
  ASSUME SafetyInv, NEW w \in Workers, SendCommit(w)
  PROVE  SafetyInv'
  <1>0. /\ proc[w].pc = "commit" /\ proc[w] \in Local
        /\ TxnOwned(txns, w, proc[w]) /\ Durable(proc[w], exec[proc[w].job])
        /\ proc[w].job \in Execs
        /\ UNCHANGED <<plan, exec, leaseLive, head, design, editing, draft,
                       catalog, left>>
    BY ProcFacts DEF ProcOK, SendCommit
  <1>1. CASE Conclude(w, "uncertain") /\ UNCHANGED txns
    BY <1>0, <1>1, ConcludeStep, Zenon DEF Justified, SafetyInv, TypeOK
  <1>2. CASE /\ LiveTxn(proc[w].tx)
             /\ txns' = [txns EXCEPT ![proc[w].tx].state = "committing"]
             /\ Goto(w, "await")
    <2> DEFINE l == [proc[w] EXCEPT !.pc = "await"]
               T == [txns EXCEPT ![proc[w].tx].state = "committing"]
    <2>1. /\ l \in Local /\ l.pc = "await" /\ l.job = proc[w].job
          /\ l.snap = proc[w].snap /\ l.tx = proc[w].tx /\ Become(w, l)
      BY <1>0, <1>2 DEF Local, Goto, At
    <2>2. T[proc[w].tx].exec = proc[w].job /\ T[proc[w].tx].state = "committing"
      BY <1>0 DEF TxnOwned, TxnSteps, Local, SafetyInv, TypeOK, TxnRecord
    <2> HIDE DEF l
    <2>3. TxnOwned(T, w, l) /\ Durable(l, exec[l.job]) /\ Grounded(T, l)
      <3> HIDE DEF T
      <3> QED
        BY <1>0, <2>1, <2>2, Zenon DEF TxnOwned, TxnSteps, Durable, Grounded
    <2> QED
      BY <1>0, <1>2, <2>1, <2>3, OwnTxnStep, Zenon DEF TxnSteps, TxnStates
  <1> QED
    BY <1>1, <1>2 DEF SendCommit

\* Both ways of closing a failed session abort the transaction.
LEMMA RollbackSafe ==
  ASSUME SafetyInv, NEW w \in Workers, Rollback(w) \/ Unwind(w)
  PROVE  SafetyInv'
  <1> DEFINE T == [txns EXCEPT ![proc[w].tx].state = "aborted"]
  <1>0. /\ proc[w].pc \in {"rollback", "unwind"} /\ proc[w] \in Local
        /\ TxnOwned(txns, w, proc[w]) /\ Durable(proc[w], exec[proc[w].job])
        /\ proc[w].job \in Execs
        /\ txns' = T
        /\ UNCHANGED <<plan, exec, leaseLive, head, design, editing, draft,
                       catalog, left>>
    BY ProcFacts DEF ProcOK, Rollback, Unwind
  <1>1. T[proc[w].tx].state = "aborted"
    BY <1>0 DEF TxnOwned, TxnSteps, Local, SafetyInv, TypeOK, TxnRecord
  <1>2. CASE proc[w].pc = "rollback" /\ Conclude(w, "failed")
    <2> DEFINE l == [proc[w] EXCEPT !.pc = "settle", !.verdict = "failed", !.tx = None]
    <2>1. /\ l \in Local /\ l.pc = "settle" /\ l.job = proc[w].job
          /\ l.snap = proc[w].snap /\ l.tx = None /\ Become(w, l)
          /\ l.verdict = "failed"
      BY <1>0, <1>2, Zenon DEF Local, Conclude
    <2>2. l.snap.xid \in {None, proc[w].tx}
      BY <1>0, <1>2, <2>1 DEF Durable
    <2> HIDE DEF l
    <2>3. TxnOwned(T, w, l) /\ Durable(l, exec[l.job]) /\ Grounded(T, l)
      <3> HIDE DEF T
      <3> QED
        BY <1>0, <1>1, <2>1, <2>2, Zenon DEF TxnOwned, TxnSteps, Durable, Grounded
    <2> QED
      BY <1>0, <2>1, <2>3, OwnTxnStep, Zenon DEF TxnSteps, TxnStates
  <1>3. CASE Become(w, [proc[w] EXCEPT !.pc = "handle", !.tx = None])
    <2> DEFINE l == [proc[w] EXCEPT !.pc = "handle", !.tx = None]
    <2>1. /\ l \in Local /\ l.pc = "handle" /\ l.job = proc[w].job
          /\ l.snap = proc[w].snap /\ l.tx = None /\ Become(w, l)
      BY <1>0, <1>3, Zenon DEF Local
    <2> HIDE DEF l
    <2>2. TxnOwned(T, w, l) /\ Durable(l, exec[l.job]) /\ Grounded(T, l)
      <3> HIDE DEF T
      <3> QED
        BY <2>1 DEF TxnOwned, TxnSteps, Durable, Grounded
    <2> QED
      BY <1>0, <2>1, <2>2, OwnTxnStep, Zenon DEF TxnSteps, TxnStates
  <1> QED
    BY <1>2, <1>3 DEF Rollback, Unwind

\* The server resolves a commit, or drops a transaction.
LEMMA ServerSafe ==
  ASSUME SafetyInv, NEW t \in Xids, CommitResolves(t) \/ SessionLost(t)
  PROVE  SafetyInv'
  <1>0. /\ txns[t] \in TxnRecord /\ txns[t].state # "none"
        /\ txns[t].state \notin {"committed", "aborted"}
        /\ txns[t].exec \in Execs
        /\ UNCHANGED <<plan, exec, leaseLive, head, design, editing, draft, proc>>
    BY DEF CommitResolves, SessionLost, LiveTxn, SafetyInv, TypeOK
  <1>1. PICK s \in {"committed", "aborted"} :
          /\ txns' = [txns EXCEPT ![t].state = s]
          /\ s = "committed" => txns[t].state = "committing"
    BY DEF CommitResolves, SessionLost
  <1> DEFINE n == [txns[t] EXCEPT !.state = s]
  <1>2. /\ n \in TxnRecord /\ n.exec = txns[t].exec /\ n.state = s
        /\ txns' = [txns EXCEPT ![t] = n]
    BY <1>0, <1>1 DEF TxnRecord, SafetyInv, TypeOK
  <1>3. catalog' \in Catalogs
    BY <1>0 DEF CommitResolves, SessionLost, SafetyInv, TypeOK, Catalogs
  <1>4. left' \in [Bounds -> Nat]
    BY SpendType DEF CommitResolves, SessionLost, SafetyInv, TypeOK, Bounds
  <1> HIDE DEF n
  <1>5. Advances(txns[t], n)
    BY <1>0, <1>1, <1>2 DEF Advances
  <1>6. TypeOK'
    BY <1>0, <1>2, <1>3, <1>4 DEF SafetyInv, TypeOK
  <1> QED
    BY <1>0, <1>1, <1>2, <1>5, <1>6, ServerStep, Zenon

-----------------------------------------------------------------------------
(* The steps that write a receipt *)

\* What a row r may say when process p, carrying the stored row, writes it.
Writable(p, r) ==
    /\ r \in ExecRecord
    /\ r.rev = proc[p].snap.rev
    /\ proc[p].snap.xid # None => r.xid = proc[p].snap.xid
    /\ proc[p].snap.intended => r.intended
    /\ ReceiptOK(txns, proc[p].job, r)

\* What _transition_execution adds to a row: the next revision and a lease.
LEMMA StampFacts ==
  ASSUME NEW p \in Procs, NEW r \in ExecRecord, NEW s, s = Stamp(p, r)
  PROVE  /\ s \in ExecRecord /\ s.rev = r.rev + 1 /\ s.xid = r.xid
         /\ s.intended = r.intended /\ s.status = r.status
         /\ s.outcome = r.outcome /\ s.sync = r.sync
  <1>1. LeaseAfter(p, r) \in Procs \cup {None}
    BY DEF LeaseAfter, ExecRecord
  <1> DEFINE n == r.rev + 1
  <1>2. n \in Nat
    BY DEF ExecRecord
  <1>3. s = [r EXCEPT !.rev = n, !.lease = LeaseAfter(p, r)]
    BY DEF Stamp
  <1>4. n = r.rev + 1
    OBVIOUS
  <1> HIDE DEF n
  <1> QED
    BY <1>1, <1>2, <1>3, <1>4, Zenon DEF ExecRecord

\* transition_execution, whether its answer arrives or not, keeps the
\* invariant when the row and the next step do.
LEMMA TransitionStep ==
  ASSUME SafetyInv, NEW p \in Procs, proc[p].pc # "idle",
         NEW r, NEW ok, NEW err, Transition(p, r, ok, err),
         UNCHANGED <<plan, head, design, editing, draft, txns, catalog>>,
         MayTransition(p, r.status) => Writable(p, r),
         err = "idle" \/ Edge(proc[p].pc, err),
         ok \in {"idle", "ddl", "commit", "sync"},
         ok \in {"ddl", "commit"} => /\ proc[p].pc \in TxnSteps \ {"await"}
                                     /\ r.xid = proc[p].tx,
         ok = "commit" => r.intended,
         ok = "sync" => r.outcome = "committed" /\ proc[p].tx = None
  PROVE  SafetyInv'
  <1> DEFINE e == proc[p].job
             new == Stamp(p, r)
             X == [exec EXCEPT ![e] = new]
  <1>0. /\ proc[p] \in Local /\ proc[p].snap \in ExecRecord /\ e \in Execs
        /\ exec[e] \in ExecRecord /\ plan[e].status = "claimed"
        /\ ReceiptOK(txns, e, proc[p].snap) /\ Coherent(proc[p], exec[e])
        /\ ProcOK(exec, txns, p, proc[p]) /\ TxnOwned(txns, p, proc[p])
        /\ exec \in [Execs -> ExecRecord] /\ leaseLive \in [Execs -> BOOLEAN]
    BY ProcFacts, Zenon DEF ProcOK, SafetyInv, TypeOK
  <1>1. left' \in [Bounds -> Nat]
    BY SpendType DEF Transition, SafetyInv, TypeOK, Bounds
  <1>2. /\ head' \in [rev : Nat, catalog : Catalogs]
        /\ design' \in [rev : Nat, fp : Contents]
    BY DEF SafetyInv, TypeOK
  <1>3. CASE Goto(p, err) /\ UNCHANGED <<exec, leaseLive>>
    BY <1>1, <1>2, <1>3, GotoStep, Zenon
  <1>4. CASE MayTransition(p, r.status) /\ PutExec(e, new)
    <2>1. Writable(p, r) /\ proc[p].snap = exec[e]
      BY <1>0, <1>4, Zenon DEF MayTransition, Coherent
    <2>2. /\ new \in ExecRecord /\ new.rev = exec[e].rev + 1 /\ new.xid = r.xid
          /\ exec[e].xid # None => new.xid = exec[e].xid
          /\ exec[e].intended => new.intended
          /\ new.intended = r.intended /\ new.outcome = r.outcome
          /\ new.status = r.status
      <3>1. r \in ExecRecord /\ r.rev = exec[e].rev
        BY <2>1, Zenon DEF Writable
      <3>2. /\ exec[e].xid # None => r.xid = exec[e].xid
            /\ exec[e].intended => r.intended
        BY <2>1, Zenon DEF Writable
      <3>3. /\ new \in ExecRecord /\ new.rev = r.rev + 1 /\ new.xid = r.xid
            /\ new.intended = r.intended /\ new.status = r.status
            /\ new.outcome = r.outcome
        BY <3>1, StampFacts, SMTT(15), Z3T(15), ZenonT(40)
      <3> HIDE DEF new
      <3> QED BY <3>1, <3>2, <3>3, Zenon
    <2>3. exec' = X /\ leaseLive' \in [Execs -> BOOLEAN]
      BY <1>0, <1>4, Zenon DEF PutExec
    <2> HIDE DEF new
    <2>4. ReceiptOK(txns, e, new)
      BY <2>1, <2>2, Zenon DEF Writable, ReceiptOK
    <2>5. ProcOK(X, txns, p, proc[p])
      BY <1>0, <2>2, ExecFrame, Zenon
    <2>6. X \in [Execs -> ExecRecord] /\ X[e] = new
      BY <1>0, <2>2, Zenon
    <2>7. ASSUME NEW l \in Local, proc' = [proc EXCEPT ![p] = l],
                 ProcOK(X, txns, p, l), l.tx \in {None, proc[p].tx},
                 l.pc # "idle" => l.job = e
          PROVE  SafetyInv'
      <3>1. TypeOK'
        BY <1>1, <1>2, <2>3, <2>6, <2>7 DEF SafetyInv, TypeOK
      <3> HIDE DEF e, X
      <3> QED
        BY <1>0, <2>2, <2>3, <2>4, <2>7, <3>1, ExecStep, Zenon DEF X, e
    <2>8. CASE Goto(p, err)
      <3>1. CASE err = "idle"
        BY <2>7, <2>8, <3>1, IdleOK, Zenon DEF Goto, Become, At
      <3>2. CASE err # "idle"
        <4> DEFINE l == [proc[p] EXCEPT !.pc = err]
        <4>1. err \in {"baseline", "open", "rollback", "intended", "unwind",
                       "handle"} \cup SyncSteps
          BY <3>2, Zenon DEF Edge
        <4>2. /\ l \in Local /\ l.pc = err /\ l.job = e /\ l.tx = proc[p].tx
              /\ l.snap = proc[p].snap /\ proc' = [proc EXCEPT ![p] = l]
          BY <1>0, <2>8, <3>2, <4>1 DEF Goto, Become, At, Local, SyncSteps
        <4> HIDE DEF l
        <4>3. ProcOK(X, txns, p, l)
          BY <1>0, <2>5, <3>2, <4>2, EdgeOK, Zenon
        <4> QED
          BY <2>7, <4>2, <4>3, Zenon
      <3> QED BY <3>1, <3>2, Zenon
    <2>9. CASE Become(p, IF ok = "idle" THEN Idle
                         ELSE [proc[p] EXCEPT !.pc = ok, !.snap = new])
      <3>1. CASE ok = "idle"
        BY <2>7, <2>9, <3>1, IdleOK, Zenon DEF Become
      <3>2. CASE ok # "idle"
        <4> DEFINE l == [proc[p] EXCEPT !.pc = ok, !.snap = new]
        <4>1. /\ l \in Local /\ l.pc = ok /\ l.job = e /\ l.tx = proc[p].tx
              /\ l.snap = new /\ proc' = [proc EXCEPT ![p] = l]
          BY <1>0, <2>2, <2>9, <3>2, Zenon DEF Become, Local
        <4> HIDE DEF l
        <4>2. TxnOwned(txns, p, l)
          BY <1>0, <3>2, <4>1, Zenon DEF TxnOwned, TxnSteps
        <4>9. new.rev \in Nat
          BY <2>2, Zenon DEF ExecRecord
        <4>5. ok \in {"ddl", "commit", "sync"} /\ l.pc = ok
          BY <3>2, <4>1, Zenon
        <4>6. Durable(l, new)
          BY <2>2, <4>1, <4>5, Zenon DEF Durable
        <4>7. Grounded(txns, l)
          BY <2>2, <4>1, <4>5 DEF Grounded
        <4>8. Coherent(l, new)
          BY <4>1, <4>9 DEF Coherent
        <4>3. Durable(l, new) /\ Grounded(txns, l) /\ Coherent(l, new)
          BY <4>6, <4>7, <4>8, Zenon
        <4>4. ProcOK(X, txns, p, l)
          BY <1>0, <2>4, <2>6, <3>2, <4>1, <4>2, <4>3, Zenon DEF ProcOK
        <4> QED
          BY <2>7, <4>1, <4>4, Zenon
      <3> QED BY <3>1, <3>2
    <2> QED
      BY <1>4, <2>8, <2>9, Zenon DEF Transition, new
  <1> QED
    BY <1>3, <1>4 DEF Transition

\* on_started stores the transaction id of a reserved receipt.
LEMMA OnStartedSafe ==
  ASSUME SafetyInv, NEW w \in Workers, OnStarted(w)
  PROVE  SafetyInv'
  <1> DEFINE r == [proc[w].snap EXCEPT !.status = "applying", !.xid = proc[w].tx]
  <1>0. /\ proc[w].pc = "started" /\ proc[w] \in Local
        /\ proc[w].snap \in ExecRecord /\ proc[w].job \in Execs
        /\ ReceiptOK(txns, proc[w].job, proc[w].snap)
        /\ TxnOwned(txns, w, proc[w]) /\ Durable(proc[w], exec[proc[w].job])
    BY ProcFacts DEF ProcOK, OnStarted
  <1>1. /\ r \in ExecRecord /\ r.rev = proc[w].snap.rev /\ r.xid = proc[w].tx
        /\ r.intended = proc[w].snap.intended /\ r.status = "applying"
        /\ r.outcome = proc[w].snap.outcome
    BY <1>0, Zenon DEF ExecRecord, Statuses, Local
  <1> HIDE DEF r
  <1>2. ReceiptOK(txns, proc[w].job, r)
    BY <1>0, <1>1 DEF ReceiptOK, TxnOwned, TxnSteps, Durable
  <1>3. Writable(w, r)
    BY <1>0, <1>1, <1>2 DEF Writable, Durable, ReceiptOK
  <1>4. /\ Transition(w, r, "ddl", "unwind")
        /\ UNCHANGED <<plan, head, design, editing, draft, txns, catalog>>
    BY DEF OnStarted, r
  <1> QED
    BY <1>0, <1>1, <1>3, <1>4, TransitionStep, Zenon DEF Edge, TxnSteps

\* on_intended stores the intended result.
LEMMA OnIntendedSafe ==
  ASSUME SafetyInv, NEW w \in Workers, OnIntended(w)
  PROVE  SafetyInv'
  <1> DEFINE r == [proc[w].snap EXCEPT !.status = "applying", !.intended = TRUE]
  <1>0. /\ proc[w].pc = "intended" /\ proc[w] \in Local
        /\ proc[w].snap \in ExecRecord /\ proc[w].job \in Execs
        /\ ReceiptOK(txns, proc[w].job, proc[w].snap)
        /\ proc[w].snap.xid = proc[w].tx
    BY ProcFacts DEF ProcOK, OnIntended, Durable
  <1>1. /\ r \in ExecRecord /\ r.rev = proc[w].snap.rev /\ r.xid = proc[w].tx
        /\ r.intended /\ r.status = "applying"
        /\ r.outcome = proc[w].snap.outcome
    BY <1>0, Zenon DEF ExecRecord, Statuses, Local
  <1> HIDE DEF r
  <1>2. ASSUME MayTransition(w, r.status) PROVE Writable(w, r)
    <2>1. proc[w].snap.status \in {"reserved", "applying"}
      <3>1. proc[w].snap.status \in Statuses
        BY <1>0, Zenon DEF ExecRecord
      <3>2. "applying" \in Legal[proc[w].snap.status]
        BY <1>1, <1>2, Zenon DEF MayTransition
      <3>3. \A s \in Statuses : "applying" \in Legal[s] => s \in {"reserved", "applying"}
        BY DEF Legal, Statuses
      <3> QED BY <3>1, <3>2, <3>3, Zenon
    <2>3. r.outcome # "rolled_back"
      BY <1>0, <1>1, <2>1, ZenonT(40) DEF ReceiptOK
    <2>2. ReceiptOK(txns, proc[w].job, r)
      BY <1>0, <1>1, <2>3, ZenonT(40) DEF ReceiptOK
    <2> QED
      BY <1>0, <1>1, <2>2 DEF Writable
  <1>3. /\ Transition(w, r, "commit", "unwind")
        /\ UNCHANGED <<plan, head, design, editing, draft, txns, catalog>>
    BY DEF OnIntended, r
  <1> QED
    BY <1>0, <1>1, <1>2, <1>3, TransitionStep, Zenon DEF Edge, TxnSteps

\* The row a conclusion writes is as true as the conclusion.
LEMMA ConcludedFacts ==
  ASSUME SafetyInv, NEW p \in Procs, proc[p].pc \in {"settle", "record"},
         NEW r, r = Concluded(p), MayTransition(p, r.status)
  PROVE  Writable(p, r) /\ (proc[p].verdict = "committed" => r.outcome = "committed")
  <1> DEFINE snap == proc[p].snap
             v == proc[p].verdict
  <1>0. /\ proc[p] \in Local /\ snap \in ExecRecord /\ proc[p].job \in Execs
        /\ ReceiptOK(txns, proc[p].job, snap) /\ Grounded(txns, proc[p])
        /\ v \in {"failed", "uncertain", "lost", "in_progress", "committed",
                  "no_evidence", "conflict", "synced", "sync_failed"}
    BY ProcFacts, Zenon DEF ProcOK, Grounded, Local
  <1>1. /\ r \in ExecRecord /\ r.rev = snap.rev
        /\ r.xid = snap.xid /\ r.intended = snap.intended
        /\ r.status \notin {"none", "reserved"}
        /\ r.outcome = "rolled_back" =>
             (r.status = "failed" /\ v = "failed") \/ v = "sync_failed"
        /\ r.outcome = "committed" =>
             v \in {"committed", "no_evidence", "conflict", "synced", "sync_failed"}
        /\ v = "sync_failed" => r.status = "succeeded" /\ r.outcome = snap.outcome
        /\ v = "committed" => r.outcome = "committed"
    <2>1. CASE v = "failed"
      BY <1>0, <2>1, ZenonT(40) DEF Concluded, ExecRecord, Statuses
    <2>2. CASE v = "uncertain"
      BY <1>0, <2>2, ZenonT(40) DEF Concluded, ExecRecord, Statuses
    <2>3. CASE v = "lost"
      BY <1>0, <2>3, ZenonT(40) DEF Concluded, ExecRecord, Statuses
    <2>4. CASE v = "in_progress"
      BY <1>0, <2>4, ZenonT(40) DEF Concluded, ExecRecord, Statuses
    <2>5. CASE v = "committed"
      BY <1>0, <2>5, ZenonT(40) DEF Concluded, ExecRecord, Statuses
    <2>6. CASE v = "no_evidence"
      BY <1>0, <2>6, ZenonT(40) DEF Concluded, ExecRecord, Statuses
    <2>7. CASE v = "conflict"
      BY <1>0, <2>7, ZenonT(40) DEF Concluded, ExecRecord, Statuses
    <2>8. CASE v = "synced"
      BY <1>0, <2>8, ZenonT(40) DEF Concluded, ExecRecord, Statuses
    <2>9. CASE v = "sync_failed"
      BY <1>0, <2>9, ZenonT(40) DEF Concluded, ExecRecord, Statuses
    <2> QED
      BY <1>0, <2>1, <2>2, <2>3, <2>4, <2>5, <2>6, <2>7, <2>8, <2>9, Zenon
  <1>2. r.status \in Legal[snap.status]
    BY DEF MayTransition
  <1>3. v = "sync_failed" => r.outcome # "rolled_back"
    <2> SUFFICES ASSUME v = "sync_failed", r.outcome = "rolled_back"
                 PROVE  FALSE
      OBVIOUS
    <2>1. snap.outcome = "rolled_back"
      BY <1>1, Zenon
    <2>2. snap.status = "failed"
      BY <1>0, <2>1, Zenon DEF ReceiptOK
    <2>3. Legal["failed"] = {}
      BY DEF Legal
    <2> QED
      BY <1>2, <2>2, <2>3, Zenon
  <1>4. ReceiptOK(txns, proc[p].job, r)
    <2> HIDE DEF snap, v
    <2>1. /\ v = "failed" /\ snap.xid # None => txns[snap.xid].state = "aborted"
          /\ v = "committed" => snap.xid # None /\ txns[snap.xid].state = "committed"
          /\ v \in {"no_evidence", "conflict", "synced"} =>
               snap.outcome = "committed"
      BY <1>0, Zenon DEF Grounded, snap, v
    <2>2. r.xid # None =>
            txns[r.xid].exec = proc[p].job /\ txns[r.xid].state # "none"
      BY <1>0, <1>1, Zenon DEF ReceiptOK
    <2>3. r.outcome = "rolled_back" =>
            r.status = "failed" /\ (r.xid # None => txns[r.xid].state = "aborted")
      BY <1>1, <1>3, <2>1, Zenon
    <2>4. r.outcome = "committed" =>
            r.xid # None /\ txns[r.xid].state = "committed"
      <3>1. snap.outcome = "committed" =>
              snap.xid # None /\ txns[snap.xid].state = "committed"
        BY <1>0, Zenon DEF ReceiptOK
      <3> QED
        BY <1>1, <2>1, <3>1, ZenonT(40)
    <2> QED
      BY <1>1, <2>2, <2>3, <2>4, Zenon DEF ReceiptOK
  <1> QED
    BY <1>1, <1>4 DEF Writable

\* The write that ends a unit, or records its failure, tells the truth.
LEMMA SettleSafe ==
  ASSUME SafetyInv, NEW p \in Procs,
         Settle(p) \/ (p \in Workers /\ RecordProcessingFailure(p))
  PROVE  SafetyInv'
  <1> DEFINE r == Concluded(p)
  <1>0. /\ proc[p].pc \in {"settle", "record"} /\ proc[p].tx = None
        /\ UNCHANGED <<plan, head, design, editing, draft, txns, catalog>>
    BY ProcFacts DEF ProcOK, TxnOwned, TxnSteps, Settle, RecordProcessingFailure
  <1>1. MayTransition(p, r.status) => Writable(p, r)
    BY <1>0, ConcludedFacts
  <1>2. proc[p].verdict = "committed" => r.outcome = "committed"
    BY ProcFacts, Zenon DEF Concluded, ExecRecord
  <1>3. PICK ok \in {"idle", "sync"}, err \in {"idle", "handle"} :
          /\ Transition(p, r, ok, err)
          /\ ok = "sync" => proc[p].verdict = "committed"
          /\ err = "handle" => proc[p].pc = "settle"
    BY DEF Settle, RecordProcessingFailure, Raise
  <1> HIDE DEF r
  <1> QED
    BY <1>0, <1>1, <1>2, <1>3, TransitionStep DEF Edge

\* A claim hands the worker the row it wrote.
LEMMA ClaimSafe ==
  ASSUME SafetyInv, NEW w \in Workers, NEW e \in Execs, ClaimNextExecution(w, e)
  PROVE  SafetyInv'
  <1> DEFINE r == [exec[e] EXCEPT !.rev = exec[e].rev + 1, !.lease = w]
             X == [exec EXCEPT ![e] = r]
  <1>0. /\ w \in Procs /\ proc[w] \in Local /\ proc[w].pc = "idle"
        /\ ProcOK(exec, txns, w, proc[w])
        /\ exec[e] \in ExecRecord /\ ReceiptOK(txns, e, exec[e])
        /\ exec \in [Execs -> ExecRecord] /\ leaseLive \in [Execs -> BOOLEAN]
        /\ UNCHANGED <<plan, head, design, editing, draft, txns, catalog>>
    BY ProcFacts DEF ClaimNextExecution, SafetyInv, TypeOK
  <1>1. /\ exec[e].status \in {"reserved", "applying", "succeeded"}
        /\ exec[e].status = "succeeded" => exec[e].outcome = "committed"
    BY DEF ClaimNextExecution, Claimable
  <1>2. plan[e].status = "claimed"
    <2>1. plan[e].status # "claimed" => exec[e] = NoExec
      BY Zenon DEF SafetyInv, PlansOK
    <2>2. NoExec.status = "none"
      BY DEF NoExec
    <2> QED BY <1>1, <2>1, <2>2
  <1>3. /\ r \in ExecRecord /\ r.rev = exec[e].rev + 1 /\ r.xid = exec[e].xid
        /\ r.intended = exec[e].intended /\ r.status = exec[e].status
        /\ r.outcome = exec[e].outcome
    <2> DEFINE n == exec[e].rev + 1
    <2>1. n \in Nat
      BY <1>0 DEF ExecRecord
    <2>2. r = [exec[e] EXCEPT !.rev = n, !.lease = w]
      OBVIOUS
    <2>3. n = exec[e].rev + 1
      OBVIOUS
    <2> HIDE DEF n, r
    <2> QED
      BY <1>0, <2>1, <2>2, <2>3, Zenon DEF ExecRecord
  <1>4. exec' = X /\ leaseLive' \in [Execs -> BOOLEAN]
    BY <1>0 DEF ClaimNextExecution, PutExec
  <1>5. left' \in [Bounds -> Nat]
    BY SpendType, Zenon DEF ClaimNextExecution, SafetyInv, TypeOK, Bounds
  <1>6. Enter(w, e, r, WorkEntry(r)) \/ UNCHANGED proc
    BY DEF ClaimNextExecution
  <1> HIDE DEF r
  <1>7. ReceiptOK(txns, e, r) /\ X[e] = r /\ X \in [Execs -> ExecRecord]
    BY <1>0, <1>3 DEF ReceiptOK
  <1>8. ASSUME NEW l \in Local, proc' = [proc EXCEPT ![w] = l],
               ProcOK(X, txns, w, l), l.tx \in {None, proc[w].tx},
               l.pc # "idle" => l.job = e
        PROVE  SafetyInv'
    <2>1. TypeOK'
      BY <1>0, <1>4, <1>5, <1>7, <1>8 DEF SafetyInv, TypeOK
    <2> HIDE DEF X
    <2> QED
      BY <1>0, <1>2, <1>3, <1>4, <1>7, <1>8, <2>1, ExecStep, Zenon DEF X
  <1>9. CASE UNCHANGED proc
    <2>1. proc' = [proc EXCEPT ![w] = proc[w]]
      BY <1>9 DEF SafetyInv, TypeOK
    <2>2. ProcOK(X, txns, w, proc[w])
      BY <1>0, <1>3, ExecFrame, Zenon
    <2> QED
      BY <1>0, <1>8, <2>1, <2>2, Zenon
  <1>10. CASE Enter(w, e, r, WorkEntry(r))
    <2> DEFINE l == [Idle EXCEPT !.pc = WorkEntry(r), !.job = e, !.snap = r,
                                 !.verdict = "failed"]
    <2>1. /\ WorkEntry(r) \in {"design", "settle", "recover", "sync"}
          /\ WorkEntry(r) = "design" => r.status = "reserved"
          /\ WorkEntry(r) = "settle" => r.xid = None
          /\ WorkEntry(r) = "recover" => r.xid # None
          /\ WorkEntry(r) = "sync" => r.outcome = "committed"
      BY <1>1, <1>3 DEF WorkEntry, RecoverEntry
    <2>2. /\ l \in Local /\ l.pc = WorkEntry(r) /\ l.job = e /\ l.snap = r
          /\ l.tx = None /\ l.verdict = "failed"
          /\ proc' = [proc EXCEPT ![w] = l]
      BY <1>3, <1>10, <2>1, Zenon DEF Idle, Local, Enter, Become
    <2> HIDE DEF l
    <2>3. ProcOK(X, txns, w, l)
      <3> HIDE DEF X
      <3>1. TxnOwned(txns, w, l)
        BY <2>1, <2>2 DEF TxnOwned, TxnSteps
      <3>2. Durable(l, r)
        BY <2>1, <2>2 DEF Durable
      <3>3. Grounded(txns, l)
        BY <2>1, <2>2 DEF Grounded
      <3>4. r.rev \in Nat
        BY <1>3, Zenon DEF ExecRecord
      <3>5. Coherent(l, r)
        BY <2>2, <3>4 DEF Coherent
      <3> QED
        BY <1>7, <2>1, <2>2, <3>1, <3>2, <3>3, <3>5 DEF ProcOK
    <2> QED
      BY <1>8, <2>2, <2>3, Zenon
  <1> QED
    BY <1>6, <1>9, <1>10

\* A manual request starts from the row it read.
LEMMA ReconcileSafe ==
  ASSUME SafetyInv, NEW p \in Operators, NEW e \in Execs, Reconcile(p, e)
  PROVE  SafetyInv'
  <1> DEFINE r == exec[e]
  <1>0. /\ p \in Procs /\ proc[p].pc = "idle"
        /\ r \in ExecRecord /\ ReceiptOK(txns, e, r)
        /\ UNCHANGED <<plan, exec, leaseLive, head, design, editing, draft,
                       txns, catalog>>
    BY Zenon DEF Reconcile, SafetyInv, TypeOK
  <1>1. left' \in [Bounds -> Nat]
    BY SpendType, Zenon DEF Reconcile, SafetyInv, TypeOK, Bounds
  <1>2. PICK lab \in {"sync", "settle", "recover"} :
          /\ Enter(p, e, r, lab)
          /\ lab = "sync" => r.outcome = "committed"
          /\ lab = "settle" => r.xid = None
          /\ lab = "recover" => r.xid # None
          /\ r.status # "none"
    <2>1. CASE r.outcome = "committed" /\ Enter(p, e, r, "sync")
      <3>1. r.status # "none"
        BY <1>0, <2>1 DEF ReceiptOK
      <3> QED BY <2>1, <3>1
    <2>2. CASE r.status \in ActiveStatuses /\ Enter(p, e, r, RecoverEntry(r))
      <3>1. r.status # "none"
        BY <2>2 DEF ActiveStatuses
      <3> QED BY <2>2, <3>1 DEF RecoverEntry
    <2> QED
      BY <2>1, <2>2, Zenon DEF Reconcile
  <1>3. plan[e].status = "claimed"
    <2>1. plan[e].status # "claimed" => exec[e] = NoExec
      BY Zenon DEF SafetyInv, PlansOK
    <2>2. NoExec.status = "none"
      BY DEF NoExec
    <2> QED BY <1>2, <2>1, <2>2, Zenon
  <1> DEFINE l == [Idle EXCEPT !.pc = lab, !.job = e, !.snap = r,
                               !.verdict = "failed"]
  <1>4. /\ l \in Local /\ l.pc = lab /\ l.job = e /\ l.snap = r /\ l.tx = None
        /\ l.verdict = "failed" /\ proc' = [proc EXCEPT ![p] = l]
    BY <1>0, <1>2, ZenonT(40) DEF Idle, Local, Enter, Become
  <1> HIDE DEF l
  <1>5. ProcOK(exec, txns, p, l)
    <2>1. r.rev \in Nat /\ l.pc \in {"sync", "settle", "recover"}
      BY <1>0, <1>2, <1>4 DEF ExecRecord
    <2>2. TxnOwned(txns, p, l) /\ Durable(l, r)
      BY <1>4, <2>1 DEF TxnOwned, TxnSteps, Durable
    <2>3. Coherent(l, r)
      BY <1>4, <2>1 DEF Coherent
    <2>4. Grounded(txns, l)
      BY <1>2, <1>4, <2>1 DEF Grounded
    <2> QED
      BY <1>0, <1>2, <1>4, <2>2, <2>3, <2>4, Zenon DEF ProcOK
  <1>6. TypeOK'
    <2>1. TypeOK /\ proc \in [Procs -> Local]
      BY Zenon DEF SafetyInv, TypeOK
    <2>2. proc' \in [Procs -> Local]
      BY <1>4, <2>1
    <2> QED
      BY <1>0, <1>1, <2>1, <2>2, ZenonT(40) DEF TypeOK
  <1> QED
    BY <1>0, <1>3, <1>4, <1>5, <1>6, LocalStep, Zenon

-----------------------------------------------------------------------------
(* Review, edits, leases *)

\* A step that touches no receipt, no transaction and no process.
LEMMA QuietStep ==
  ASSUME SafetyInv, TypeOK', PlansOK', UNCHANGED <<exec, txns, proc>>
  PROVE  SafetyInv'
  BY DEF SafetyInv, EvidenceBeforeCommit, Sent

\* The reads of a review touch no receipt.
LEMMA ReviewSafe ==
  ASSUME SafetyInv,
         (\E e \in Execs : ReviewDesign(e) \/ ResolveInspect(e))
           \/ ReviewBaseline \/ ReviewInspect
  PROVE  SafetyInv'
  <1>0. UNCHANGED <<plan, exec, leaseLive, head, design, editing, txns, catalog,
                    proc, left>>
    BY Zenon DEF ReviewDesign, ResolveInspect, ReviewBaseline, ReviewInspect
  <1>1. /\ draft' \in [step : {"idle", "baseline", "inspect", "insert", "resolve"},
                       id : Execs \cup {None}, designRev : Nat,
                       designFp : Contents, baseRev : Nat,
                       base : Catalogs, live : Catalogs]
        /\ draft'.step # "idle" => draft'.id \in Execs
        /\ draft'.step \in {"baseline", "inspect", "insert"} =>
             plan[draft'.id].status = "none"
        /\ draft'.step = "resolve" => plan[draft'.id].status = "blocked"
    <2>1. CASE \E e \in Execs : ReviewDesign(e)
      <3>1. PICK e \in Execs : ReviewDesign(e)
        BY <2>1
      <3>2. /\ draft' = [step |-> "baseline", id |-> e, designRev |-> design.rev,
                         designFp |-> design.fp, baseRev |-> 0, base |-> {},
                         live |-> {}]
            /\ plan[e].status = "none"
        BY <3>1, Zenon DEF ReviewDesign, NoDraft
      <3> QED
        BY <3>2 DEF SafetyInv, TypeOK, Catalogs
    <2>2. CASE \E e \in Execs : ResolveInspect(e)
      <3>1. PICK e \in Execs : ResolveInspect(e)
        BY <2>2
      <3>2. /\ draft' = [step |-> "resolve", id |-> e, designRev |-> 0,
                         designFp |-> InitContent, baseRev |-> 0, base |-> {},
                         live |-> {}]
            /\ plan[e].status = "blocked"
        BY <3>1, Zenon DEF ResolveInspect, NoDraft
      <3> QED
        BY <3>2, Zenon DEF SafetyInv, TypeOK, Catalogs
    <2>3. CASE ReviewBaseline
      BY <2>3, Zenon DEF ReviewBaseline, SafetyInv, TypeOK, PlansOK
    <2>4. CASE ReviewInspect
      BY <2>4, Zenon DEF ReviewInspect, SafetyInv, TypeOK, PlansOK
    <2> QED BY <2>1, <2>2, <2>3, <2>4
  <1>2. TypeOK'
    BY <1>0, <1>1 DEF SafetyInv, TypeOK
  <1>3. PlansOK'
    BY <1>0, <1>1, Zenon DEF SafetyInv, PlansOK
  <1> QED
    BY <1>0, <1>2, <1>3, QuietStep

\* A decided review leaves the plans of the running executions alone.
LEMMA DecideSafe ==
  ASSUME SafetyInv, CreatePlan \/ ReconcileDrift
  PROVE  SafetyInv'
  <1> DEFINE PlanType == [status : {"none", "reviewable", "blocked",
                                    "claimed", "resolved"},
                          designRev : Nat, designFp : Contents,
                          merged : Contents, baseRev : Nat, live : Catalogs]
  <1>0. /\ UNCHANGED <<exec, leaseLive, editing, txns, catalog, proc, left>>
        /\ draft' = NoDraft /\ draft.id \in Execs
        /\ plan[draft.id].status \in {"none", "blocked"}
        /\ plan \in [Execs -> PlanType]
    BY DEF CreatePlan, ReconcileDrift, SafetyInv, TypeOK, PlansOK
  <1>1. draft' \in [step : {"idle", "baseline", "inspect", "insert", "resolve"},
                    id : Execs \cup {None}, designRev : Nat,
                    designFp : Contents, baseRev : Nat,
                    base : Catalogs, live : Catalogs]
        /\ draft'.step = "idle"
    BY <1>0 DEF NoDraft, Catalogs
  <1>2. plan' = plan \/ \E q \in PlanType : /\ q.status # "claimed"
                                            /\ plan' = [plan EXCEPT ![draft.id] = q]
    <2>1. CASE CreatePlan /\ plan' # plan
      <3>1. PICK m \in ReviewMerge :
              plan' = [plan EXCEPT ![draft.id] =
                        [status |-> m[1], merged |-> m[2],
                         designRev |-> draft.designRev,
                         designFp |-> draft.designFp,
                         baseRev |-> draft.baseRev, live |-> draft.live]]
        BY <2>1 DEF CreatePlan
      <3>2. m[1] \in {"reviewable", "blocked"} /\ m[2] \in Contents
        BY SMTT(15), Z3T(15), ZenonT(40) DEF ReviewMerge, SafetyInv, TypeOK
      <3>3. [status |-> m[1], merged |-> m[2], designRev |-> draft.designRev,
             designFp |-> draft.designFp, baseRev |-> draft.baseRev,
             live |-> draft.live] \in PlanType
        BY <3>2 DEF SafetyInv, TypeOK
      <3> QED
        BY <3>1, <3>2, <3>3, Zenon
    <2>2. CASE ReconcileDrift /\ plan' # plan
      <3> DEFINE q == [plan[draft.id] EXCEPT !.status = "resolved"]
      <3>1. q \in PlanType /\ q.status = "resolved"
        BY <1>0
      <3>2. plan' = [plan EXCEPT ![draft.id] = q]
        BY <1>0, <2>2 DEF ReconcileDrift
      <3> QED
        BY <3>1, <3>2, Zenon
    <2> QED BY <2>1, <2>2
  <1>3. plan' \in [Execs -> PlanType]
    BY <1>0, <1>2
  <1>4. head' \in [rev : Nat, catalog : Catalogs] /\ design' \in [rev : Nat, fp : Contents]
    <2>1. /\ head \in [rev : Nat, catalog : Catalogs]
          /\ design \in [rev : Nat, fp : Contents]
          /\ plan[draft.id].live \in Catalogs
      BY <1>0 DEF SafetyInv, TypeOK
    <2>2. CASE UNCHANGED <<head, design>>
      BY <2>1, <2>2
    <2>3. CASE /\ head' = [rev |-> head.rev + 1, catalog |-> plan[draft.id].live]
               /\ \E c \in Contents : design' = [rev |-> design.rev + 1, fp |-> c]
      BY <2>1, <2>3
    <2> QED
      BY <2>2, <2>3 DEF CreatePlan, ReconcileDrift
  <1>5. TypeOK'
    BY <1>0, <1>1, <1>3, <1>4 DEF SafetyInv, TypeOK
  <1>6. \A e \in Execs : (plan[e].status = "claimed" <=> plan'[e].status = "claimed")
    BY <1>0, <1>2
  <1>7. /\ \A e \in Execs : plan[e].status # "claimed" => exec[e] = NoExec
        /\ \A p \in Procs : proc[p].pc # "idle" =>
             proc[p].job \in Execs /\ plan[proc[p].job].status = "claimed"
    BY ProcFacts, Zenon DEF SafetyInv, PlansOK
  <1>8. PlansOK'
    BY <1>0, <1>1, <1>6, <1>7 DEF PlansOK
  <1> QED
    BY <1>0, <1>5, <1>8, QuietStep

\* A reserved receipt names no transaction.
LEMMA ReserveSafe ==
  ASSUME SafetyInv, NEW e \in Execs, ReserveExecution(e)
  PROVE  SafetyInv'
  <1> DEFINE r == [NoExec EXCEPT !.status = "reserved", !.rev = 1]
  <1>0. /\ UNCHANGED <<leaseLive, head, design, editing, draft, txns, catalog,
                       proc, left>>
        /\ plan' = [plan EXCEPT ![e].status = "claimed"]
        /\ plan[e].status = "reviewable" /\ exec[e] = NoExec
        /\ exec' = [exec EXCEPT ![e] = r]
    BY DEF ReserveExecution, SafetyInv, PlansOK
  <1>1. r \in ExecRecord /\ r.status = "reserved" /\ r.xid = None /\ r.outcome = None
    BY Zenon DEF NoExec, ExecRecord, Statuses
  <1> HIDE DEF r
  <1>2. \A p \in Procs : proc[p].pc # "idle" => proc[p].job # e
    BY <1>0 DEF SafetyInv, PlansOK
  <1>3. TypeOK'
    BY <1>0, <1>1, SMTT(15), Z3T(15), ZenonT(40) DEF SafetyInv, TypeOK
  <1>4. PlansOK'
    BY <1>0, <1>2 DEF SafetyInv, PlansOK, TypeOK
  <1>5. EvidenceBeforeCommit'
    BY <1>0 DEF SafetyInv, EvidenceBeforeCommit, Sent, TypeOK, NoExec
  <1>6. \A f \in Execs : ReceiptOK(txns', f, exec'[f])
    <2> SUFFICES ASSUME NEW f \in Execs PROVE ReceiptOK(txns, f, exec'[f])
      BY <1>0
    <2>1. ReceiptOK(txns, f, exec[f]) /\ exec \in [Execs -> ExecRecord]
      BY DEF SafetyInv, TypeOK
    <2>2. CASE f = e
      BY <1>0, <1>1, <2>1, <2>2 DEF ReceiptOK
    <2>3. CASE f # e
      BY <1>0, <2>1, <2>3
    <2> QED BY <2>2, <2>3
  <1>7. \A p \in Procs : ProcOK(exec', txns', p, proc'[p])
    BY <1>0, <1>2 DEF SafetyInv, TypeOK, ProcOK
  <1> QED
    BY <1>0, <1>3, <1>4, <1>5, <1>6, <1>7, Zenon DEF SafetyInv

\* Edits, external changes and the clock of the leases.
LEMMA EnvironmentSafe ==
  ASSUME SafetyInv,
         \/ GuardMutation \/ ReplaceDesign
         \/ \E d \in Drifts : ExternalChange(d)
         \/ \E e \in Execs : LeaseExpires(e)
         \/ \E e \in Execs, w \in Workers : RenewExecutionLease(w, e)
  PROVE  SafetyInv'
  <1>0. UNCHANGED <<plan, exec, draft, txns, proc, head>>
    BY Zenon DEF GuardMutation, ReplaceDesign, ExternalChange, LeaseExpires,
           RenewExecutionLease
  <1>1. left' \in [Bounds -> Nat]
    BY SpendType, Zenon DEF GuardMutation, ReplaceDesign, ExternalChange,
       LeaseExpires, RenewExecutionLease, SafetyInv, TypeOK, Bounds
  <1>2. /\ leaseLive' \in [Execs -> BOOLEAN] /\ editing' \in BOOLEAN
        /\ design' \in [rev : Nat, fp : Contents] /\ catalog' \in Catalogs
    <2>1. CASE GuardMutation \/ ReplaceDesign
      <3>0. design \in [rev : Nat, fp : Contents] /\ TypeOK
        BY Zenon DEF SafetyInv, TypeOK
      <3>1. design.rev + 1 \in Nat
        BY <3>0
      <3>2. design' = design \/ \E c \in Contents : design' = [rev |-> design.rev + 1, fp |-> c]
        BY <2>1 DEF GuardMutation, ReplaceDesign
      <3>3. UNCHANGED <<leaseLive, catalog>> /\ editing' \in BOOLEAN
        BY <2>1, Zenon DEF GuardMutation, ReplaceDesign
      <3>4. design' \in [rev : Nat, fp : Contents]
        BY <3>0, <3>1, <3>2
      <3> QED
        BY <3>0, <3>3, <3>4 DEF TypeOK
    <2>2. CASE \E d \in Drifts : ExternalChange(d)
      BY <2>2 DEF ExternalChange, SafetyInv, TypeOK, Catalogs
    <2>3. CASE \E e \in Execs : LeaseExpires(e)
      BY <2>3, Zenon DEF LeaseExpires, SafetyInv, TypeOK
    <2>4. CASE \E e \in Execs, w \in Workers : RenewExecutionLease(w, e)
      BY <2>4, Zenon DEF RenewExecutionLease, SafetyInv, TypeOK
    <2> QED BY <2>1, <2>2, <2>3, <2>4
  <1>3. TypeOK'
    BY <1>0, <1>1, <1>2, Zenon DEF SafetyInv, TypeOK
  <1>4. PlansOK'
    BY <1>0, Zenon DEF SafetyInv, PlansOK
  <1> QED
    BY <1>0, <1>3, <1>4, QuietStep

-----------------------------------------------------------------------------
(* The theorems *)

\* The invariant holds initially.
LEMMA InitSafety == Init => SafetyInv
  <1> SUFFICES ASSUME Init PROVE SafetyInv
    OBVIOUS
  <1>0. left \in [Bounds -> Nat]
    BY ConstantsAssumption DEF Init, Bounds
  <1>1. TypeOK
    BY <1>0, IdleOK, Zenon DEF Init, TypeOK, NoPlan, NoDraft, NoTxn, Catalogs, TxnRecord
  <1>2. PlansOK
    BY IdleOK DEF Init, PlansOK, NoDraft
  <1>3. EvidenceBeforeCommit
    BY DEF Init, EvidenceBeforeCommit, Sent, NoTxn
  <1>4. \A e \in Execs : ReceiptOK(txns, e, exec[e])
    BY DEF Init, ReceiptOK, NoExec
  <1>5. \A p \in Procs : ProcOK(exec, txns, p, proc[p]) /\ proc[p].tx = None
    BY IdleOK DEF Init
  <1>6. \A t \in Xids : txns[t].state = "none"
    BY DEF Init, NoTxn
  <1> QED
    BY <1>1, <1>2, <1>3, <1>4, <1>5, <1>6 DEF SafetyInv

\* Every step of _execute_claimed and its gateway call.
LEMMA ExecuteSafe ==
  ASSUME SafetyInv, NEW w \in Workers, ExecuteStep(w) \/ FailureStep(w)
  PROVE  SafetyInv'
  BY CheckDesignSafe, OpenTargetSafe, LockAndCheckSafe, OnStartedSafe,
     ApplyStatementsSafe, OnIntendedSafe, SendCommitSafe, CommitReturnsSafe,
     RollbackSafe, ReadFailureSafe, SettleSafe
  DEF ExecuteStep, FailureStep

\* Every step of recovery, settlement and synchronization.
LEMMA ProcessSafe ==
  ASSUME SafetyInv, NEW p \in Procs, ProcessStep(p)
  PROVE  SafetyInv'
  BY ReconcileTransactionSafe, SettleSafe, SyncReadsSafe, SyncCheckpointSafe,
     SyncInsertBaselineSafe
  DEF ProcessStep, SyncStep

\* Every step of every process, of the server and of the environment keeps
\* the inductive invariant.
LEMMA NextSafety == SafetyInv /\ [Next]_vars => SafetyInv'
  <1> SUFFICES ASSUME SafetyInv, [Next]_vars PROVE SafetyInv'
    OBVIOUS
  <1>1. CASE Review
    BY <1>1, ReviewSafe, DecideSafe, ReserveSafe DEF Review
  <1>2. CASE \E w \in Workers : WorkerStep(w)
    BY <1>2, ClaimSafe, ExecuteSafe, ProcessSafe DEF WorkerStep
  <1>3. CASE \E p \in Operators : ProcessStep(p)
    BY <1>3, ProcessSafe
  <1>4. CASE \E e \in Execs, p \in Operators : Reconcile(p, e)
    BY <1>4, ReconcileSafe
  <1>5. CASE \E p \in Procs : Crash(p) \/ ServiceUnavailable(p)
    BY <1>5, ServiceUnavailableSafe
  <1>6. CASE \E t \in Xids : CommitResolves(t) \/ SessionLost(t)
    BY <1>6, ServerSafe
  <1>7. CASE \/ GuardMutation \/ ReplaceDesign
             \/ \E d \in Drifts : ExternalChange(d)
             \/ \E e \in Execs : LeaseExpires(e)
             \/ \E e \in Execs, w \in Workers : RenewExecutionLease(w, e)
    BY <1>7, EnvironmentSafe
  <1>8. CASE UNCHANGED vars
    <2>1. UNCHANGED <<plan, exec, leaseLive, head, design, editing, draft, txns,
                      catalog, proc, left>>
      BY <1>8 DEF vars
    <2>2. TypeOK' /\ PlansOK'
      BY <2>1 DEF SafetyInv, TypeOK, PlansOK
    <2> QED
      BY <2>1, <2>2, QuietStep
  <1> QED
    BY <1>1, <1>2, <1>3, <1>4, <1>5, <1>6, <1>7, <1>8 DEF Next

\* The inductive invariant holds throughout, whatever the numbers of workers,
\* requests, plans, transactions, crashes and stalls.
THEOREM Safety == Spec => []SafetyInv
  BY InitSafety, NextSafety, PTL DEF Spec

\* Every row, record and bound keeps its type.
THEOREM TypeCorrect == Spec => []TypeOK
  <1>1. SafetyInv => TypeOK
    BY DEF SafetyInv
  <1> QED
    BY <1>1, Safety, PTL

\* Before COMMIT is sent, on_started and on_intended have made the transaction
\* id and the intended result durable.
THEOREM Evidence_Before_Commit == Spec => []EvidenceBeforeCommit
  <1>1. SafetyInv => EvidenceBeforeCommit
    BY DEF SafetyInv
  <1> QED
    BY <1>1, Safety, PTL

\* No execution's statements are committed twice: two transactions of one
\* execution that reached COMMIT would both be named by its receipt.
THEOREM Applied_At_Most_Once == Spec => []AppliedAtMostOnce
  <1>1. SafetyInv => AppliedAtMostOnce
    <2>1. SafetyInv => EvidenceBeforeCommit
      BY DEF SafetyInv
    <2> QED BY <2>1 DEF AppliedAtMostOnce, EvidenceBeforeCommit
  <1> QED
    BY <1>1, Safety, PTL

\* The recorded outcome is true of the target: rolled back means that nothing
\* of the execution is or can still be committed, committed that it is.
THEOREM Outcome_Is_True == Spec => []OutcomeIsTrue
  <1>1. SafetyInv => OutcomeIsTrue
    <2> SUFFICES ASSUME SafetyInv, NEW e \in Execs
                 PROVE  /\ exec[e].outcome = "rolled_back" =>
                             \A t \in Xids : txns[t].exec = e => ~Sent(t)
                        /\ exec[e].outcome = "committed" =>
                             exec[e].xid # None /\ txns[exec[e].xid].state = "committed"
      BY DEF OutcomeIsTrue
    <2>1. EvidenceBeforeCommit /\ ReceiptOK(txns, e, exec[e])
      BY DEF SafetyInv
    <2>2. ASSUME NEW t \in Xids, txns[t].exec = e, Sent(t)
          PROVE  exec[e].xid = t /\ txns[t].state \in {"committing", "committed"} /\ t # None
      BY <2>1, <2>2 DEF EvidenceBeforeCommit, Sent
    <2> QED BY <2>1, <2>2 DEF ReceiptOK
  <1> QED
    BY <1>1, Safety, PTL

-----------------------------------------------------------------------------
(* Designs and baselines *)

\* Designs, plans and reviews move forward together: a step keeps the design or
\* gives it the next revision, and what it remembers of a design is current.
LEMMA DesignFrame ==
  ASSUME TypeOK, DesignsInv, TypeOK',
         design' = design \/ design'.rev = design.rev + 1,
         \/ draft'.designRev = draft.designRev /\ draft'.designFp = draft.designFp
         \/ draft'.designRev = 0
         \/ /\ draft'.designRev = design.rev /\ draft'.designFp = design.fp
            /\ design' = design,
         \A e \in Execs :
            \/ /\ plan'[e].designRev = plan[e].designRev
               /\ plan'[e].designFp = plan[e].designFp
            \/ /\ plan'[e].designRev = draft.designRev
               /\ plan'[e].designFp = draft.designFp
  PROVE  DesignsInv'
  <1>1. /\ design.rev \in Nat /\ design'.rev \in Nat
        /\ draft.designRev \in Nat /\ draft'.designRev \in Nat
        /\ \A e \in Execs : plan[e].designRev \in Nat /\ plan'[e].designRev \in Nat
    BY DEF TypeOK
  <1>2. design'.rev > 0 /\ design'.rev >= design.rev
    BY <1>1 DEF DesignsInv
  <1>3. Reviewed(draft)'
    BY <1>1, <1>2 DEF DesignsInv, Reviewed
  <1>4. \A e \in Execs : Reviewed(plan[e])'
    BY <1>1, <1>2 DEF DesignsInv, Reviewed
  <1> QED
    BY <1>2, <1>3, <1>4 DEF DesignsInv

\* What every step does to plans, reviews, the design, the head and the catalog.
LEMMA PlanSteps ==
  ASSUME SafetyInv, [Next]_vars
  PROVE  \/ /\ UNCHANGED <<plan, draft, design, head, txns>>
            /\ catalog \subseteq catalog'
         \/ /\ UNCHANGED <<plan, draft, design, head, catalog>>
            /\ \A t \in Xids : txns'[t].state = "committed" => txns'[t] = txns[t]
         \/ Review
         \/ ReplaceDesign
         \/ \E p \in Procs : SyncCheckpoint(p) \/ SyncInsertBaseline(p)
         \/ \E t \in Xids : CommitResolves(t)
  <1>1. CASE UNCHANGED vars
    BY <1>1, Zenon DEF vars
  <1>2. CASE \/ GuardMutation
             \/ \E d \in Drifts : ExternalChange(d)
             \/ \E e \in Execs :
                  \/ LeaseExpires(e)
                  \/ \E w \in Workers : RenewExecutionLease(w, e)
                  \/ \E p \in Operators : Reconcile(p, e)
             \/ \E p \in Procs : Crash(p) \/ ServiceUnavailable(p)
    BY <1>2, Zenon DEF GuardMutation, ExternalChange, LeaseExpires,
       RenewExecutionLease, Reconcile, Crash, ServiceUnavailable
  <1>3. CASE \E t \in Xids : SessionLost(t)
    BY <1>3 DEF SessionLost, SafetyInv, TypeOK
  <1>4. CASE \E p \in Procs : ProcessStep(p)
    BY <1>4, Zenon DEF ProcessStep, SyncStep, ReconcileTransaction, Settle, SyncDesign,
       SyncReadHead, SyncRereadHead, SyncLatestDesign
  <1>5. CASE \E w \in Workers : FailureStep(w) \/ \E e \in Execs : ClaimNextExecution(w, e)
    BY <1>5, Zenon DEF FailureStep, ReadFailure, RecordProcessingFailure, ClaimNextExecution
  <1>6. CASE \E w \in Workers : ExecuteStep(w)
    <2>1. PICK w \in Workers : ExecuteStep(w)
      BY <1>6
    <2>2. UNCHANGED <<plan, draft, design, head, catalog>>
      BY <2>1, Zenon DEF ExecuteStep, CheckDesign, CheckBaseline, OpenTarget,
         LockAndCheck, OnStarted, ApplyStatements, OnIntended, SendCommit,
         CommitReturns, Rollback, Unwind
    <2>3. \/ UNCHANGED txns
          \/ \E t \in Xids, s \in {"begun", "open", "committing", "aborted"} : \E n :
               n.state = s /\ txns' = [txns EXCEPT ![t] = n]
      <3>1. CASE OpenTarget(w)
        BY <3>1, Zenon DEF OpenTarget
      <3>2. CASE \/ CheckDesign(w) \/ CheckBaseline(w) \/ OnStarted(w)
                 \/ ApplyStatements(w) \/ OnIntended(w) \/ CommitReturns(w)
        BY <3>2, Zenon DEF CheckDesign, CheckBaseline, OnStarted, ApplyStatements,
           OnIntended, CommitReturns
      <3>3. CASE LockAndCheck(w) \/ SendCommit(w) \/ Rollback(w) \/ Unwind(w)
        <4>1. proc[w].pc \in TxnSteps
          BY <3>3 DEF LockAndCheck, SendCommit, Rollback, Unwind, TxnSteps
        <4>2. proc[w].tx \in Xids /\ txns[proc[w].tx] \in TxnRecord
          BY <4>1, ProcFacts, Zenon DEF ProcOK, TxnOwned, Local, TxnSteps, SafetyInv, TypeOK
        <4>3. \/ UNCHANGED txns
              \/ \E s \in {"open", "committing", "aborted"} :
                   txns' = [txns EXCEPT ![proc[w].tx].state = s]
          BY <3>3, Zenon DEF LockAndCheck, SendCommit, Rollback, Unwind
        <4>4. ASSUME NEW s \in {"open", "committing", "aborted"},
                     txns' = [txns EXCEPT ![proc[w].tx].state = s]
              PROVE  \E n : n.state = s /\ txns' = [txns EXCEPT ![proc[w].tx] = n]
          <5>1. WITNESS [txns[proc[w].tx] EXCEPT !.state = s]
          <5> QED BY <4>2, <4>4, Zenon DEF TxnRecord
        <4> QED BY <4>2, <4>3, <4>4
      <3> QED
        BY <2>1, <3>1, <3>2, <3>3, Zenon DEF ExecuteStep
    <2>4. \A t \in Xids : txns'[t].state = "committed" => txns'[t] = txns[t]
      BY <2>3, Zenon DEF SafetyInv, TypeOK
    <2> QED
      BY <2>2, <2>4
  <1> QED
    BY <1>1, <1>2, <1>3, <1>4, <1>5, <1>6, Zenon DEF Next, WorkerStep, Procs

\* The steps of a review and of its decisions.
LEMMA ReviewSteps ==
  ASSUME SafetyInv, SafetyInv', DesignsInv, BaselineIsCommitted, Review
  PROVE  DesignsInv' /\ BaselineIsCommitted'
  <1>0. TypeOK /\ TypeOK' /\ UNCHANGED <<txns, catalog>>
    BY Zenon DEF SafetyInv, Review, ReviewDesign, ResolveInspect, ReserveExecution,
       ReviewBaseline, ReviewInspect, CreatePlan, ReconcileDrift
  <1>1. CASE \E e \in Execs : ReviewDesign(e)
    <2>1. /\ draft'.designRev = design.rev /\ draft'.designFp = design.fp
          /\ draft'.live = {} /\ UNCHANGED <<plan, head, design>>
      BY <1>1 DEF ReviewDesign, NoDraft
    <2> QED
      BY <1>0, <2>1, DesignFrame DEF BaselineIsCommitted
  <1>2. CASE \E e \in Execs : ResolveInspect(e)
    <2>1. /\ draft'.designRev = 0 /\ draft'.live = {}
          /\ UNCHANGED <<plan, head, design>>
      BY <1>2 DEF ResolveInspect, NoDraft
    <2> QED
      BY <1>0, <2>1, DesignFrame DEF BaselineIsCommitted
  <1>3. CASE ReviewBaseline \/ ReviewInspect
    <2>1. /\ draft'.designRev = draft.designRev /\ draft'.designFp = draft.designFp
          /\ draft'.live \in {draft.live, catalog}
          /\ UNCHANGED <<plan, head, design>>
      <3>1. CASE ReviewBaseline
        BY <1>0, <3>1 DEF ReviewBaseline, TypeOK
      <3>2. CASE ReviewInspect
        BY <1>0, <3>2 DEF ReviewInspect, TypeOK
      <3> QED BY <1>3, <3>1, <3>2
    <2> QED
      BY <1>0, <2>1, DesignFrame DEF BaselineIsCommitted
  <1>4. CASE \E e \in Execs : ReserveExecution(e)
    <2>1. /\ \A e \in Execs : /\ plan'[e].designRev = plan[e].designRev
                              /\ plan'[e].designFp = plan[e].designFp
                              /\ plan'[e].live = plan[e].live
          /\ UNCHANGED <<draft, head, design>>
      BY <1>0, <1>4 DEF ReserveExecution, TypeOK
    <2> QED
      BY <1>0, <2>1, DesignFrame DEF BaselineIsCommitted
  <1>5. CASE CreatePlan
    <2>1. /\ draft'.designRev = 0 /\ draft'.live = {} /\ UNCHANGED <<head, design>>
          /\ draft.id \in Execs
      BY <1>5, Zenon DEF CreatePlan, NoDraft, SafetyInv, PlansOK
    <2>2. \A e \in Execs :
            \/ plan'[e] = plan[e]
            \/ /\ plan'[e].designRev = draft.designRev
               /\ plan'[e].designFp = draft.designFp
               /\ plan'[e].live = draft.live
      <3>1. CASE UNCHANGED plan
        BY <3>1
      <3>2. ASSUME NEW m, plan' = [plan EXCEPT ![draft.id] =
                     [status |-> m[1], merged |-> m[2], designRev |-> draft.designRev,
                      designFp |-> draft.designFp, baseRev |-> draft.baseRev,
                      live |-> draft.live]]
            PROVE  \A e \in Execs :
                     \/ plan'[e] = plan[e]
                     \/ /\ plan'[e].designRev = draft.designRev
                        /\ plan'[e].designFp = draft.designFp
                        /\ plan'[e].live = draft.live
        <4> DEFINE n == [status |-> m[1], merged |-> m[2], designRev |-> draft.designRev,
                         designFp |-> draft.designFp, baseRev |-> draft.baseRev,
                         live |-> draft.live]
        <4>1. /\ n.designRev = draft.designRev /\ n.designFp = draft.designFp
              /\ n.live = draft.live
          OBVIOUS
        <4>2. plan' = [plan EXCEPT ![draft.id] = n]
          BY <3>2, Zenon
        <4> HIDE DEF n
        <4>3. \A e \in Execs : plan'[e] = plan[e] \/ plan'[e] = n
          <5>1. DOMAIN plan = Execs
            BY <1>0 DEF TypeOK
          <5> QED BY <4>2, <5>1, RowPut, Zenon
        <4> QED BY <4>1, <4>3, Zenon
      <3> QED BY <1>5, <3>1, <3>2, Zenon DEF CreatePlan
    <2> QED
      BY <1>0, <2>1, <2>2, DesignFrame DEF BaselineIsCommitted
  <1>6. CASE ReconcileDrift
    <2>1. /\ draft'.designRev = 0 /\ draft'.live = {} /\ draft.id \in Execs
      BY <1>6 DEF ReconcileDrift, NoDraft, SafetyInv, PlansOK
    <2>2. /\ \A e \in Execs : /\ plan'[e].designRev = plan[e].designRev
                              /\ plan'[e].designFp = plan[e].designFp
                              /\ plan'[e].live = plan[e].live
          /\ design' = design \/ design'.rev = design.rev + 1
          /\ head' = head \/ head'.catalog = plan[draft.id].live
      BY <1>0, <1>6, <2>1 DEF ReconcileDrift, TypeOK
    <2> QED
      BY <1>0, <2>1, <2>2, DesignFrame DEF BaselineIsCommitted
  <1> QED
    BY <1>1, <1>2, <1>3, <1>4, <1>5, <1>6 DEF Review

\* Designs and baselines stay in order.
LEMMA DesignsStep ==
  ASSUME SafetyInv, SafetyInv', DesignsInv, BaselineIsCommitted, [Next]_vars
  PROVE  DesignsInv' /\ BaselineIsCommitted'
  <1>0. TypeOK /\ TypeOK'
    BY Zenon DEF SafetyInv
  <1>1. CASE UNCHANGED <<plan, draft, design, head, txns>> /\ catalog \subseteq catalog'
    BY <1>1, Zenon DEF DesignsInv, Reviewed, BaselineIsCommitted
  <1>2. CASE /\ UNCHANGED <<plan, draft, design, head, catalog>>
             /\ \A t \in Xids : txns'[t].state = "committed" => txns'[t] = txns[t]
    BY <1>2 DEF DesignsInv, Reviewed, BaselineIsCommitted
  <1>3. CASE Review
    BY <1>3, ReviewSteps
  <1>4. CASE ReplaceDesign
    <2>1. /\ UNCHANGED <<plan, draft, head, txns, catalog>>
          /\ design'.rev = design.rev + 1
      BY <1>4 DEF ReplaceDesign
    <2> QED
      BY <1>0, <2>1, DesignFrame DEF BaselineIsCommitted
  <1>5. CASE \E p \in Procs : SyncCheckpoint(p)
    <2>1. /\ UNCHANGED <<plan, draft, head, txns, catalog>>
          /\ design' = design \/ design'.rev = design.rev + 1
      BY <1>5 DEF SyncCheckpoint
    <2> QED
      BY <1>0, <2>1, DesignFrame DEF BaselineIsCommitted
  <1>6. CASE \E p \in Procs : SyncInsertBaseline(p)
    <2>1. PICK p \in Procs : SyncInsertBaseline(p)
      BY <1>6
    <2>2. /\ UNCHANGED <<plan, draft, design, txns, catalog>>
          /\ head' = head \/ head'.catalog = IntendedCatalog(proc[p].job)
          /\ proc[p].pc = "insert"
      BY <2>1 DEF SyncInsertBaseline
    <2>3. proc[p].job \in Execs /\ ReceiptOK(txns, proc[p].job, proc[p].snap)
          /\ proc[p].snap \in ExecRecord /\ proc[p].snap.outcome = "committed"
      BY <2>2, ProcFacts, Zenon DEF ProcOK, Grounded
    <2>4. /\ proc[p].snap.xid \in Xids
          /\ txns[proc[p].snap.xid].state = "committed"
          /\ txns[proc[p].snap.xid].exec = proc[p].job
      BY <2>3 DEF ReceiptOK, ExecRecord
    <2>5. IntendedCatalog(proc[p].job) \subseteq catalog
      BY <2>3, <2>4 DEF BaselineIsCommitted, IntendedCatalog
    <2> QED
      BY <2>2, <2>5 DEF DesignsInv, Reviewed, BaselineIsCommitted
  <1>7. CASE \E t \in Xids : CommitResolves(t)
    <2>1. PICK t \in Xids : CommitResolves(t)
      BY <1>7
    <2>2. /\ UNCHANGED <<plan, draft, design, head>> /\ catalog \subseteq catalog'
          /\ \A u \in Xids \ {t} : txns'[u] = txns[u]
          /\ txns'[t].state = "committed" => txns'[t].exec \in catalog'
      BY <1>0, <2>1 DEF CommitResolves, TypeOK, TxnRecord
    <2> QED
      BY <2>2 DEF DesignsInv, Reviewed, BaselineIsCommitted
  <1> QED
    BY <1>1, <1>2, <1>3, <1>4, <1>5, <1>6, <1>7, PlanSteps, Zenon

\* A design that changes while no edit holds it is one that a plan reviewed.
LEMMA EditsStep ==
  ASSUME SafetyInv, DesignsInv, [Next]_vars, design' # design, ~editing
  PROVE  \E e \in Execs : /\ plan[e].status \in {"claimed", "blocked"}
                          /\ design.rev = plan[e].designRev
                          /\ design.fp = plan[e].designFp
  <1>1. ReconcileDrift \/ \E p \in Procs : SyncCheckpoint(p)
    BY PlanSteps, Zenon DEF Review, ReviewDesign, ResolveInspect, ReserveExecution,
       ReviewBaseline, ReviewInspect, CreatePlan, ReplaceDesign,
       SyncInsertBaseline, CommitResolves
  <1>2. PICK e \in Execs : /\ plan[e].status \in {"claimed", "blocked"}
                           /\ design.rev = plan[e].designRev
    <2>1. CASE ReconcileDrift
      <3>1. draft.id \in Execs /\ plan[draft.id].status = "blocked"
        BY <2>1 DEF ReconcileDrift, SafetyInv, PlansOK
      <3>2. design.rev = plan[draft.id].designRev
        BY <2>1 DEF ReconcileDrift
      <3> QED BY <3>1, <3>2
    <2>2. CASE \E p \in Procs : SyncCheckpoint(p)
      <3>1. PICK p \in Procs : SyncCheckpoint(p)
        BY <2>2
      <3>2. /\ proc[p].pc # "idle"
            /\ design.rev = plan[proc[p].job].designRev
        BY <3>1 DEF SyncCheckpoint
      <3> QED BY <3>2, ProcFacts
    <2> QED BY <1>1, <2>1, <2>2
  <1> QED
    BY <1>2 DEF DesignsInv, Reviewed

-----------------------------------------------------------------------------
(* Receipts *)

\* Row n may follow row r of the same receipt.
Follows(r, n) ==
    /\ n.rev = r.rev + 1
    /\ r.status # "failed"
    /\ r.sync \in {"succeeded", "conflict"} => ~Unsettled(n)

\* Only a reservation starts unfinished work.
Continues(r, n) == Follows(r, n) /\ (Unsettled(n) => Unsettled(r))

\* A step of a process that writes at most the receipt e.
LEMMA ReceiptFollows ==
  ASSUME TypeOK, TypeOK', ReceiptsInv, NEW p \in Procs, NEW l, PhaseOK(l),
         proc' = [proc EXCEPT ![p] = l] \/ proc' = proc,
         NEW e \in Execs, NEW n, exec' = [exec EXCEPT ![e] = n],
         ReceiptShape(n), Continues(exec[e], n)
  PROVE  ReceiptsInv' /\ \A f \in Execs : exec'[f] # exec[f] => Follows(exec[f], exec'[f])
  <1>1. \A f \in Execs : exec'[f] = exec[f] \/ (f = e /\ exec'[f] = n)
    BY DEF TypeOK
  <1>2. \A f \in Execs : Unsettled(exec'[f]) => Unsettled(exec[f])
    BY <1>1 DEF Continues
  <1>3. OneUnsettled'
    BY <1>2 DEF ReceiptsInv, OneUnsettled
  <1>4. \A q \in Procs : PhaseOK(proc'[q])
    BY Zenon DEF ReceiptsInv, TypeOK
  <1>5. \A f \in Execs : ReceiptShape(exec'[f])
    BY <1>1 DEF ReceiptsInv
  <1> QED
    BY <1>1, <1>3, <1>4, <1>5 DEF ReceiptsInv, Continues

\* A step of a process that writes no receipt.
LEMMA PhaseStep ==
  ASSUME TypeOK, ReceiptsInv, exec' = exec,
         \/ proc' = proc
         \/ \E p \in Procs : \E l : PhaseOK(l) /\ proc' = [proc EXCEPT ![p] = l]
  PROVE  ReceiptsInv'
  <1>1. \A q \in Procs : PhaseOK(proc'[q])
    BY DEF ReceiptsInv, TypeOK
  <1> QED
    BY <1>1 DEF ReceiptsInv, OneUnsettled

\* What the invariants say of a process at work.
LEMMA PhaseFacts ==
  ASSUME SafetyInv, ReceiptsInv, NEW p \in Procs, proc[p].pc # "idle"
  PROVE  /\ proc[p] \in Local /\ proc[p].snap \in ExecRecord
         /\ PhaseOK(proc[p]) /\ ReceiptShape(proc[p].snap)
         /\ proc[p].job \in Execs /\ exec[proc[p].job] \in ExecRecord
         /\ ReceiptShape(exec[proc[p].job])
         /\ Coherent(proc[p], exec[proc[p].job])
         /\ ReceiptOK(txns, proc[p].job, proc[p].snap)
         /\ Grounded(txns, proc[p])
  BY ProcFacts, Zenon DEF ProcOK, ReceiptsInv, PhaseOK

\* A move that keeps the record it carries and stays in its phase.
LEMMA GotoPhase ==
  ASSUME SafetyInv, ReceiptsInv, exec' = exec, NEW p \in Procs,
         proc[p].pc # "idle", NEW label, Goto(p, label),
         label \in SyncSteps => proc[p].snap.status = "succeeded",
         label \in BeforeOutcome => proc[p].snap.status # "succeeded",
         label \notin {"settle", "record"}
  PROVE  ReceiptsInv'
  <1>1. TypeOK
    BY Zenon DEF SafetyInv
  <1>2. CASE label = "idle"
    <2>1. proc' = [proc EXCEPT ![p] = Idle]
      BY <1>2 DEF Goto, Become, At
    <2>2. PhaseOK(Idle)
      BY IdleOK DEF PhaseOK
    <2> QED
      BY <1>1, <2>1, <2>2, PhaseStep, Zenon
  <1>3. CASE label # "idle"
    <2> DEFINE l == [proc[p] EXCEPT !.pc = label]
    <2>1. proc' = [proc EXCEPT ![p] = l] /\ l.pc = label /\ l.snap = proc[p].snap
      BY <1>3, PhaseFacts DEF Goto, Become, At, Local
    <2> HIDE DEF l
    <2>2. PhaseOK(l)
      BY <2>1, PhaseFacts, Zenon DEF PhaseOK
    <2> QED
      BY <1>1, <2>1, <2>2, PhaseStep, Zenon
  <1> QED
    BY <1>2, <1>3

\* A conclusion of the kind that the record it carries allows.
LEMMA ConcludePhase ==
  ASSUME SafetyInv, ReceiptsInv, exec' = exec, NEW p \in Procs,
         proc[p].pc # "idle", NEW v, Conclude(p, v),
         v \in TargetVerdicts <=> proc[p].snap.status # "succeeded",
         v \notin {"no_evidence", "sync_failed"}
  PROVE  ReceiptsInv'
  <1> DEFINE l == [proc[p] EXCEPT !.pc = "settle", !.verdict = v, !.tx = None]
  <1>1. /\ proc' = [proc EXCEPT ![p] = l] /\ l.pc = "settle" /\ l.verdict = v
        /\ l.snap = proc[p].snap
    BY PhaseFacts DEF Conclude, Become, Local
  <1> HIDE DEF l
  <1>2. PhaseOK(l)
    BY <1>1, PhaseFacts, Zenon DEF PhaseOK, SyncSteps, BeforeOutcome, TxnSteps
  <1>3. TypeOK
    BY DEF SafetyInv
  <1> QED
    BY <1>1, <1>2, <1>3, PhaseStep, Zenon

\* The row r that process p wants to write is a well-formed successor of the
\* one it carries.
NextRow(p, r) ==
    /\ r \in ExecRecord /\ r.rev = proc[p].snap.rev
    /\ r.status = "succeeded" <=> r.outcome = "committed"
    /\ r.status = "succeeded" <=> r.sync # None
    /\ r.status = "succeeded" => r.intended
    /\ proc[p].snap.sync \in {"succeeded", "conflict"} => ~Unsettled(r)

\* What the write stores follows the stored row.
LEMMA StampFollows ==
  ASSUME SafetyInv, ReceiptsInv, NEW p \in Procs, proc[p].pc # "idle",
         NEW r, MayTransition(p, r.status), NextRow(p, r), NEW n, n = Stamp(p, r)
  PROVE  /\ ReceiptShape(n) /\ Continues(exec[proc[p].job], n)
         /\ n.status = r.status
  <1> DEFINE cur == exec[proc[p].job]
  <1>1. /\ cur = proc[p].snap /\ ReceiptShape(cur) /\ cur \in ExecRecord
        /\ r.status \in Legal[cur.status]
    BY PhaseFacts, Zenon DEF MayTransition, Coherent
  <1>2. /\ n \in ExecRecord /\ n.rev = r.rev + 1 /\ n.intended = r.intended
        /\ n.status = r.status /\ n.outcome = r.outcome /\ n.sync = r.sync
    <2>1. r \in ExecRecord
      BY DEF NextRow
    <2> QED BY <2>1, StampFacts
  <1>3. n.lease = LeaseAfter(p, r)
    <2>1. r \in ExecRecord
      BY DEF NextRow
    <2> QED BY <2>1 DEF Stamp, ExecRecord
  <1>4. n.lease # None => HoldsLease(n.status, n.sync)
    BY <1>2, <1>3 DEF LeaseAfter
  <1>5. ReceiptShape(n)
    BY <1>2, <1>4 DEF ReceiptShape, NextRow
  <1>6. cur.status \in ActiveStatuses \cup {"succeeded"}
    <2>1. cur.status \in Statuses
      BY <1>1, Zenon DEF ExecRecord
    <2> QED BY <1>1, <2>1, LegalFrom, Zenon
  <1>7. cur.sync \in {"succeeded", "conflict"} => ~Unsettled(n)
    BY <1>1, <1>2, Zenon DEF NextRow, Unsettled
  <1>8. Unsettled(n) => Unsettled(cur)
    <2>1. CASE cur.status \in ActiveStatuses
      BY <2>1 DEF Unsettled
    <2>2. CASE cur.status = "succeeded"
      <3>1. cur.sync \in {"pending", "failed", "conflict", "succeeded"}
        BY <1>1, <2>2, Zenon DEF ReceiptShape, ExecRecord
      <3> QED BY <1>1, <1>7, <2>2, <3>1 DEF ReceiptShape, Unsettled
    <2> QED BY <1>6, <2>1, <2>2, Zenon
  <1>9. n.rev = cur.rev + 1 /\ cur.status # "failed"
    BY <1>1, <1>2, <1>6 DEF NextRow, ActiveStatuses
  <1> QED
    BY <1>2, <1>5, <1>7, <1>8, <1>9, Zenon DEF Follows, Continues

\* The same of the row as it is written.
LEMMA StampStays ==
  ASSUME SafetyInv, ReceiptsInv, NEW p \in Procs, proc[p].pc # "idle",
         NEW r, MayTransition(p, r.status), NextRow(p, r)
  PROVE  /\ ReceiptShape(Stamp(p, r)) /\ Continues(exec[proc[p].job], Stamp(p, r))
         /\ Stamp(p, r).status = r.status
  <1>1. ASSUME NEW n, n = Stamp(p, r)
        PROVE  /\ ReceiptShape(n) /\ Continues(exec[proc[p].job], n)
               /\ n.status = r.status
    BY <1>1, StampFollows
  <1> QED BY <1>1, Zenon

\* transition_execution, answered or not.
LEMMA TransitionFollows ==
  ASSUME SafetyInv, TypeOK', ReceiptsInv, NEW p \in Procs, proc[p].pc # "idle",
         NEW r, NEW ok, NEW err, Transition(p, r, ok, err),
         MayTransition(p, r.status) => NextRow(p, r),
         err \in {"idle", "handle", "unwind"},
         err = "unwind" => proc[p].snap.status # "succeeded",
         ok \in {"idle", "ddl", "commit", "sync"},
         ok \in {"ddl", "commit"} => r.status # "succeeded",
         ok = "sync" => r.status = "succeeded"
  PROVE  ReceiptsInv' /\ \A f \in Execs : exec'[f] # exec[f] => Follows(exec[f], exec'[f])
  <1> DEFINE n == Stamp(p, r)
             cur == exec[proc[p].job]
  <1>0. TypeOK /\ proc[p] \in Local /\ proc[p].job \in Execs
    BY PhaseFacts, Zenon DEF SafetyInv
  <1>1. CASE Goto(p, err) /\ UNCHANGED <<exec, leaseLive>>
    <2>1. ReceiptsInv'
      <3>1. /\ err \notin SyncSteps \cup {"settle", "record"}
            /\ err \in BeforeOutcome => proc[p].snap.status # "succeeded"
        BY DEF SyncSteps, BeforeOutcome, TxnSteps
      <3> QED BY <1>1, <3>1, GotoPhase
    <2> QED BY <1>1, <2>1, Zenon
  <1>2. CASE MayTransition(p, r.status) /\ PutExec(proc[p].job, n)
    <2>1. ReceiptShape(n) /\ Continues(cur, n) /\ n.status = r.status
      <3>1. MayTransition(p, r.status) /\ NextRow(p, r)
        BY <1>2, Zenon
      <3> QED BY <3>1, StampStays
    <2>2. exec' = [exec EXCEPT ![proc[p].job] = n]
      BY <1>2, Zenon DEF PutExec
    <2> HIDE DEF n
    <2>3. ASSUME NEW l, PhaseOK(l), proc' = [proc EXCEPT ![p] = l]
          PROVE  /\ ReceiptsInv'
                 /\ \A f \in Execs : exec'[f] # exec[f] => Follows(exec[f], exec'[f])
      <3>1. PhaseOK(l) /\ proc' = [proc EXCEPT ![p] = l]
        BY <2>3, Zenon
      <3> QED BY <1>0, <2>1, <2>2, <3>1, ReceiptFollows, Zenon
    <2>4. PhaseOK(Idle)
      BY IdleOK, Zenon DEF PhaseOK
    <2>5. CASE Goto(p, err)
      <3>1. CASE err = "idle"
        BY <2>3, <2>4, <2>5, <3>1, Zenon DEF Goto, Become, At
      <3>2. CASE err # "idle"
        <4> DEFINE l == [proc[p] EXCEPT !.pc = err]
        <4>1. proc' = [proc EXCEPT ![p] = l] /\ l.pc = err /\ l.snap = proc[p].snap
          BY <1>0, <2>5, <3>2 DEF Goto, Become, At, Local
        <4> HIDE DEF l
        <4>2. PhaseOK(l)
          BY <3>2, <4>1, PhaseFacts, Zenon DEF PhaseOK, SyncSteps, BeforeOutcome, TxnSteps
        <4> QED BY <2>3, <4>1, <4>2, Zenon
      <3> QED BY <3>1, <3>2
    <2>6. CASE Become(p, IF ok = "idle" THEN Idle
                         ELSE [proc[p] EXCEPT !.pc = ok, !.snap = n])
      <3>1. CASE ok = "idle"
        BY <2>3, <2>4, <2>6, <3>1, Zenon DEF Become
      <3>2. CASE ok # "idle"
        <4> DEFINE l == [proc[p] EXCEPT !.pc = ok, !.snap = n]
        <4>1. proc' = [proc EXCEPT ![p] = l] /\ l.pc = ok /\ l.snap = n
          BY <1>0, <2>6, <3>2 DEF Become, Local
        <4> HIDE DEF l
        <4>2. PhaseOK(l)
          BY <2>1, <3>2, <4>1, Zenon DEF PhaseOK, SyncSteps, BeforeOutcome, TxnSteps
        <4> QED BY <2>3, <4>1, <4>2, Zenon
      <3> QED BY <3>1, <3>2
    <2> QED
      BY <1>2, <2>5, <2>6, Zenon DEF Transition, n
  <1> QED
    BY <1>1, <1>2 DEF Transition

\* on_started and on_intended.
LEMMA CallbackFollows ==
  ASSUME SafetyInv, TypeOK', ReceiptsInv, NEW w \in Workers,
         OnStarted(w) \/ OnIntended(w)
  PROVE  ReceiptsInv' /\ \A f \in Execs : exec'[f] # exec[f] => Follows(exec[f], exec'[f])
  <1>0. /\ w \in Procs /\ proc[w].pc \in {"started", "intended"}
    BY DEF OnStarted, OnIntended
  <1>1. /\ proc[w].snap \in ExecRecord /\ proc[w] \in Local
        /\ ReceiptShape(proc[w].snap) /\ proc[w].snap.status # "succeeded"
        /\ proc[w].tx \in Xids
    <2>1. proc[w].snap.status # "succeeded"
      BY <1>0, PhaseFacts, Zenon DEF PhaseOK, BeforeOutcome, TxnSteps
    <2>2. proc[w].tx \in Xids
      BY <1>0, ProcFacts, Zenon DEF ProcOK, TxnOwned, TxnSteps, Local
    <2> QED BY <1>0, <2>1, <2>2, PhaseFacts, Zenon
  <1>2. ASSUME NEW r \in ExecRecord, NEW ok \in {"ddl", "commit"},
               Transition(w, r, ok, "unwind"),
               r.rev = proc[w].snap.rev, r.status = "applying",
               r.outcome = proc[w].snap.outcome, r.sync = proc[w].snap.sync
        PROVE  /\ ReceiptsInv'
               /\ \A f \in Execs : exec'[f] # exec[f] => Follows(exec[f], exec'[f])
    <2>1. NextRow(w, r)
      BY <1>1, <1>2, Zenon DEF NextRow, ReceiptShape
    <2>2. proc[w].pc # "idle" /\ r.status # "succeeded"
      BY <1>0, <1>2
    <2> QED
      BY <1>0, <1>1, <1>2, <2>1, <2>2, TransitionFollows, Zenon
  <1>3. CASE OnStarted(w)
    <2> DEFINE r == [proc[w].snap EXCEPT !.status = "applying", !.xid = proc[w].tx]
    <2>1. Transition(w, r, "ddl", "unwind")
      BY <1>3 DEF OnStarted
    <2>2. /\ r \in ExecRecord /\ r.rev = proc[w].snap.rev /\ r.status = "applying"
          /\ r.outcome = proc[w].snap.outcome /\ r.sync = proc[w].snap.sync
      BY <1>1, Zenon DEF ExecRecord, Statuses
    <2> HIDE DEF r
    <2> QED BY <1>2, <2>1, <2>2, Zenon
  <1>4. CASE OnIntended(w)
    <2> DEFINE r == [proc[w].snap EXCEPT !.status = "applying", !.intended = TRUE]
    <2>1. Transition(w, r, "commit", "unwind")
      BY <1>4 DEF OnIntended
    <2>2. /\ r \in ExecRecord /\ r.rev = proc[w].snap.rev /\ r.status = "applying"
          /\ r.outcome = proc[w].snap.outcome /\ r.sync = proc[w].snap.sync
      BY <1>1, Zenon DEF ExecRecord, Statuses
    <2> HIDE DEF r
    <2> QED BY <1>2, <2>1, <2>2, Zenon
  <1> QED
    BY <1>3, <1>4

\* The row a conclusion writes is a well-formed successor.
LEMMA ConcludedFollows ==
  ASSUME SafetyInv, ReceiptsInv, NEW p \in Procs, proc[p].pc \in {"settle", "record"},
         NEW r, r = Concluded(p), MayTransition(p, r.status)
  PROVE  NextRow(p, r) /\ (proc[p].verdict = "committed" => r.status = "succeeded")
  <1> DEFINE snap == proc[p].snap
             v == proc[p].verdict
  <1>0. /\ proc[p] \in Local /\ snap \in ExecRecord /\ proc[p].job \in Execs
        /\ ReceiptOK(txns, proc[p].job, snap) /\ Grounded(txns, proc[p])
        /\ ReceiptShape(snap) /\ PhaseOK(proc[p])
        /\ Coherent(proc[p], exec[proc[p].job])
    <2>1. proc[p].pc # "idle"
      OBVIOUS
    <2> QED BY <2>1, PhaseFacts, Zenon
  <1>1. /\ v \in TargetVerdicts \cup {"conflict", "synced", "sync_failed"}
        /\ v \in TargetVerdicts <=> snap.status # "succeeded"
        /\ v = "sync_failed" => snap.sync \in {"pending", "failed"}
        /\ v = "committed" => snap.xid # None /\ txns[snap.xid].state = "committed"
    BY <1>0, Zenon DEF PhaseOK, Local, TargetVerdicts, Grounded
  <1>2. v = "committed" => snap.intended
    <2> SUFFICES ASSUME v = "committed" PROVE snap.intended
      OBVIOUS
    <2>1. /\ snap.xid \in Xids /\ txns[snap.xid].state = "committed"
          /\ txns[snap.xid].exec = proc[p].job
      BY <1>0, <1>1, Zenon DEF ReceiptOK, ExecRecord
    <2>2. exec[proc[p].job].intended
      BY <2>1, Zenon DEF SafetyInv, EvidenceBeforeCommit, Sent
    <2>3. exec[proc[p].job] = snap
      BY <1>0, Zenon DEF MayTransition, Coherent
    <2> QED BY <2>2, <2>3
  <1>3. r \in ExecRecord /\ r.rev = snap.rev /\ r.intended = snap.intended
    <2>1. Writable(p, r)
      BY ConcludedFacts, Zenon
    <2>2. r.intended = snap.intended
      <3> HIDE DEF snap, v
      <3>1. PICK st, out, sy :
              r = [snap EXCEPT !.status = st, !.outcome = out, !.sync = sy]
        BY <1>1, Zenon DEF Concluded, TargetVerdicts, snap, v
      <3> QED BY <1>0, <3>1, Zenon DEF ExecRecord
    <2> QED BY <2>1, <2>2, Zenon DEF Writable
  <1>4. /\ v \in {"failed", "uncertain", "lost", "in_progress"} =>
             /\ r.status \in {"failed", "uncertain", "reconciliation_required", "applying"}
             /\ r.outcome # "committed" /\ r.sync = snap.sync
        /\ v = "committed" => r.status = "succeeded" /\ r.outcome = "committed" /\ r.sync = "pending"
        /\ v \in {"conflict", "synced"} =>
             /\ r.status = "succeeded" /\ r.outcome = "committed"
             /\ r.sync \in {"conflict", "succeeded"}
        /\ v = "sync_failed" =>
             r.status = "succeeded" /\ r.outcome = snap.outcome /\ r.sync = "failed"
    <2>1. CASE v = "failed"
      BY <1>0, <2>1, Zenon DEF Concluded, ExecRecord
    <2>2. CASE v = "uncertain"
      BY <1>0, <2>2, Zenon DEF Concluded, ExecRecord
    <2>3. CASE v = "lost"
      BY <1>0, <2>3, Zenon DEF Concluded, ExecRecord
    <2>4. CASE v = "in_progress"
      BY <1>0, <2>4, Zenon DEF Concluded, ExecRecord
    <2>5. CASE v = "committed"
      BY <1>0, <2>5, Zenon DEF Concluded, ExecRecord
    <2>6. CASE v = "conflict"
      BY <1>0, <2>6, Zenon DEF Concluded, ExecRecord
    <2>7. CASE v = "synced"
      BY <1>0, <2>7, Zenon DEF Concluded, ExecRecord
    <2>8. CASE v = "sync_failed"
      BY <1>0, <2>8, Zenon DEF Concluded, ExecRecord
    <2> QED
      BY <1>1, <2>1, <2>2, <2>3, <2>4, <2>5, <2>6, <2>7, <2>8, Zenon DEF TargetVerdicts
  <1> HIDE DEF snap, v
  <1>5. CASE v \in {"failed", "uncertain", "lost", "in_progress"}
    <2>1. snap.status # "succeeded" /\ snap.sync = None
      BY <1>0, <1>1, <1>5, Zenon DEF TargetVerdicts, ReceiptShape
    <2> QED
      BY <1>3, <1>4, <1>5, <2>1, Zenon DEF NextRow, snap, v
  <1>6. CASE v = "committed"
    <2>1. snap.status # "succeeded" /\ snap.sync = None
      BY <1>0, <1>1, <1>6, Zenon DEF TargetVerdicts, ReceiptShape
    <2> QED
      BY <1>2, <1>3, <1>4, <1>6, <2>1, Zenon DEF NextRow, snap, v
  <1>7. CASE v \in {"conflict", "synced", "sync_failed"}
    <2>1. snap.status = "succeeded" /\ snap.outcome = "committed" /\ snap.intended
      BY <1>0, <1>1, <1>7 DEF TargetVerdicts, ReceiptShape
    <2>2. snap.sync \in {"succeeded", "conflict"} => ~Unsettled(r)
      BY <1>1, <1>4, <1>7 DEF Unsettled, ActiveStatuses
    <2> QED
      BY <1>3, <1>4, <1>7, <2>1, <2>2, Zenon DEF NextRow, snap, v
  <1> QED
    BY <1>1, <1>5, <1>6, <1>7 DEF TargetVerdicts, v

\* The write that ends a unit, or records its failure.
LEMMA SettleFollows ==
  ASSUME SafetyInv, TypeOK', ReceiptsInv, NEW p \in Procs,
         Settle(p) \/ RecordProcessingFailure(p)
  PROVE  ReceiptsInv' /\ \A f \in Execs : exec'[f] # exec[f] => Follows(exec[f], exec'[f])
  <1> DEFINE r == Concluded(p)
  <1>1. proc[p].pc \in {"settle", "record"}
    BY DEF Settle, RecordProcessingFailure
  <1>2. MayTransition(p, r.status) => NextRow(p, r)
    BY <1>1, ConcludedFollows
  <1>3. proc[p].verdict = "committed" => r.status = "succeeded"
    BY ProcFacts, Zenon DEF Concluded, ExecRecord
  <1>4. PICK ok \in {"idle", "sync"}, err \in {"idle", "handle"} :
          /\ Transition(p, r, ok, err)
          /\ ok = "sync" => proc[p].verdict = "committed"
    BY DEF Settle, RecordProcessingFailure, Raise
  <1> HIDE DEF r
  <1> QED
    BY <1>1, <1>2, <1>3, <1>4, TransitionFollows

\* A claim renews the lease of unfinished work and enters its phase.
LEMMA ClaimFollows ==
  ASSUME SafetyInv, TypeOK', ReceiptsInv, NEW w \in Workers, NEW e \in Execs,
         ClaimNextExecution(w, e)
  PROVE  ReceiptsInv' /\ \A f \in Execs : exec'[f] # exec[f] => Follows(exec[f], exec'[f])
  <1> DEFINE r == [exec[e] EXCEPT !.rev = exec[e].rev + 1, !.lease = w]
  <1>0. /\ w \in Procs /\ TypeOK /\ exec[e] \in ExecRecord /\ ReceiptShape(exec[e])
        /\ Claimable(e) /\ exec' = [exec EXCEPT ![e] = r]
        /\ Enter(w, e, r, WorkEntry(r)) \/ proc' = proc
    BY DEF SafetyInv, TypeOK, ReceiptsInv, ClaimNextExecution, PutExec
  <1>1. /\ r.rev = exec[e].rev + 1 /\ r.status = exec[e].status
        /\ r.outcome = exec[e].outcome /\ r.sync = exec[e].sync
        /\ r.intended = exec[e].intended /\ r.xid = exec[e].xid
    BY <1>0, Zenon DEF ExecRecord
  <1> HIDE DEF r
  <1>2. /\ exec[e].status \in {"reserved", "applying", "succeeded"}
        /\ exec[e].status = "succeeded" => exec[e].sync \in {"pending", "failed"}
        /\ exec[e].status # "succeeded" => exec[e].sync = None
    BY <1>0 DEF Claimable, ReceiptShape
  <1>3. ReceiptShape(r)
    BY <1>0, <1>1, <1>2 DEF ReceiptShape, HoldsLease
  <1>4. Continues(exec[e], r)
    <2>1. Unsettled(exec[e])
      BY <1>0, <1>2 DEF Unsettled, ReceiptShape, ActiveStatuses
    <2>2. exec[e].sync \notin {"succeeded", "conflict"}
      BY <1>2
    <2> QED BY <1>1, <1>2, <2>1, <2>2 DEF Follows, Continues
  <1>5. ASSUME NEW l, PhaseOK(l), proc' = [proc EXCEPT ![w] = l] \/ proc' = proc
        PROVE  /\ ReceiptsInv'
               /\ \A f \in Execs : exec'[f] # exec[f] => Follows(exec[f], exec'[f])
    BY <1>0, <1>3, <1>4, <1>5, ReceiptFollows, Zenon
  <1>6. CASE proc' = proc
    <2>1. PhaseOK(Idle)
      BY IdleOK DEF PhaseOK
    <2> QED BY <1>5, <1>6, <2>1, Zenon
  <1>7. CASE Enter(w, e, r, WorkEntry(r))
    <2> DEFINE l == [Idle EXCEPT !.pc = WorkEntry(r), !.job = e, !.snap = r,
                                 !.verdict = "failed"]
    <2>1. /\ WorkEntry(r) \in {"design", "settle", "recover", "sync"}
          /\ WorkEntry(r) = "sync" <=> r.status = "succeeded"
      BY <1>1, <1>2 DEF WorkEntry, RecoverEntry
    <2>2. /\ l.pc = WorkEntry(r) /\ l.snap = r /\ l.verdict = "failed"
          /\ proc' = [proc EXCEPT ![w] = l]
      BY <1>7, Zenon DEF Idle, Enter, Become
    <2> HIDE DEF l
    <2>3. PhaseOK(l)
      BY <1>3, <2>1, <2>2
      DEF PhaseOK, SyncSteps, BeforeOutcome, TxnSteps, TargetVerdicts
    <2> QED BY <1>5, <2>2, <2>3, Zenon
  <1> QED
    BY <1>0, <1>6, <1>7

\* A manual request enters the phase of the row it read.
LEMMA ReconcilePhase ==
  ASSUME SafetyInv, ReceiptsInv, NEW p \in Operators, NEW e \in Execs, Reconcile(p, e)
  PROVE  ReceiptsInv' /\ exec' = exec
  <1> DEFINE r == exec[e]
  <1>0. /\ p \in Procs /\ TypeOK /\ ReceiptShape(r) /\ exec' = exec
    BY Zenon DEF SafetyInv, ReceiptsInv, Reconcile
  <1>1. PICK lab \in {"sync", "settle", "recover"} :
          Enter(p, e, r, lab) /\ (lab = "sync" <=> r.status = "succeeded")
    BY <1>0, Zenon DEF Reconcile, RecoverEntry, ActiveStatuses, ReceiptShape
  <1> DEFINE l == [Idle EXCEPT !.pc = lab, !.job = e, !.snap = r,
                               !.verdict = "failed"]
  <1>2. /\ l.pc = lab /\ l.snap = r /\ l.verdict = "failed"
        /\ proc' = [proc EXCEPT ![p] = l]
    BY <1>1, Zenon DEF Idle, Enter, Become
  <1> HIDE DEF l
  <1>3. PhaseOK(l)
    BY <1>0, <1>1, <1>2, Zenon
    DEF PhaseOK, SyncSteps, BeforeOutcome, TxnSteps, TargetVerdicts
  <1> QED
    BY <1>0, <1>2, <1>3, PhaseStep, Zenon

\* _record_processing_failure reads the row while the lease is still this
\* worker's, so the row is unfinished.
LEMMA ReadFailurePhase ==
  ASSUME SafetyInv, ReceiptsInv, NEW w \in Workers, ReadFailure(w)
  PROVE  ReceiptsInv' /\ exec' = exec
  <1> DEFINE cur == exec[proc[w].job]
             l == [proc[w] EXCEPT !.pc = "record", !.snap = cur,
                                  !.verdict = FailureVerdict(cur)]
  <1>0. /\ w \in Procs /\ TypeOK /\ proc[w].pc = "handle" /\ exec' = exec
    BY DEF SafetyInv, ReadFailure
  <1>1. /\ proc[w] \in Local /\ cur \in ExecRecord /\ ReceiptShape(cur)
    BY <1>0, PhaseFacts, Zenon
  <1>2. CASE Goto(w, "idle")
    BY <1>0, <1>2, GotoPhase DEF SyncSteps, BeforeOutcome, TxnSteps
  <1>3. CASE Owns(w, proc[w].job) /\ Become(w, l)
    <2>1. cur.lease # None
      BY <1>3 DEF Owns
    <2>2. /\ cur.status \in {"reserved", "applying", "succeeded"}
          /\ cur.status = "succeeded" => cur.sync \in {"pending", "failed"}
      BY <1>1, <2>1, Zenon DEF ReceiptShape, HoldsLease
    <2>3. /\ l.pc = "record" /\ l.snap = cur /\ l.verdict = FailureVerdict(cur)
          /\ proc' = [proc EXCEPT ![w] = l]
      BY <1>1, <1>3 DEF Become, Local
    <2> HIDE DEF l
    <2>4. /\ FailureVerdict(cur) \in {"failed", "lost", "sync_failed"}
          /\ FailureVerdict(cur) = "sync_failed" <=> cur.status = "succeeded"
      BY <2>2 DEF FailureVerdict
    <2>5. PhaseOK(l)
      BY <1>1, <2>2, <2>3, <2>4, Zenon
      DEF PhaseOK, SyncSteps, BeforeOutcome, TxnSteps, TargetVerdicts
    <2> QED
      BY <1>0, <2>3, <2>5, PhaseStep, Zenon
  <1> QED
    BY <1>0, <1>2, <1>3 DEF ReadFailure

\* A move that notes something besides the record, and stays in its phase.
LEMMA NotePhase ==
  ASSUME SafetyInv, ReceiptsInv, exec' = exec, NEW p \in Procs,
         proc[p].pc # "idle", NEW l, Become(p, l), l.snap = proc[p].snap,
         l.pc \in SyncSteps => proc[p].snap.status = "succeeded",
         l.pc \in BeforeOutcome => proc[p].snap.status # "succeeded",
         l.pc \notin {"settle", "record"}
  PROVE  ReceiptsInv'
  <1>1. TypeOK
    BY Zenon DEF SafetyInv
  <1>2. PhaseOK(l)
    BY PhaseFacts, Zenon DEF PhaseOK
  <1> QED
    BY <1>1, <1>2, PhaseStep, Zenon DEF Become

\* The steps of _execute_claimed that write no receipt.
LEMMA ExecutePhase ==
  ASSUME SafetyInv, ReceiptsInv, NEW w \in Workers,
         ExecuteStep(w), ~(OnStarted(w) \/ OnIntended(w))
  PROVE  ReceiptsInv' /\ exec' = exec
  <1>0. /\ w \in Procs /\ proc[w].pc \in BeforeOutcome /\ exec' = exec
    BY Zenon DEF ExecuteStep, CheckDesign, CheckBaseline, OpenTarget, LockAndCheck,
       ApplyStatements, SendCommit, CommitReturns, Rollback, Unwind,
       BeforeOutcome, TxnSteps
  <1>1. /\ proc[w].pc # "idle" /\ proc[w] \in Local
        /\ proc[w].snap.status # "succeeded"
    BY <1>0, PhaseFacts, Zenon DEF PhaseOK, BeforeOutcome, TxnSteps
  <1>2. \/ \E lab \in BeforeOutcome : Goto(w, lab)
        \/ \E v \in TargetVerdicts : Conclude(w, v)
        \/ \E t : Become(w, [proc[w] EXCEPT !.pc = "check", !.tx = t])
        \/ Become(w, [proc[w] EXCEPT !.pc = "handle", !.tx = None])
    <2>1. CASE CheckDesign(w) \/ CheckBaseline(w) \/ LockAndCheck(w) \/ ApplyStatements(w)
      BY <2>1, Zenon DEF CheckDesign, CheckBaseline, LockAndCheck, ApplyStatements,
         BeforeOutcome, TxnSteps, TargetVerdicts
    <2>2. CASE SendCommit(w) \/ CommitReturns(w) \/ Rollback(w)
      BY <2>2, Zenon DEF SendCommit, CommitReturns, Rollback,
         BeforeOutcome, TxnSteps, TargetVerdicts
    <2>3. CASE OpenTarget(w)
      BY <2>3, Zenon DEF OpenTarget, TargetVerdicts
    <2>4. CASE Unwind(w)
      BY <2>4, Zenon DEF Unwind
    <2> QED
      BY <2>1, <2>2, <2>3, <2>4, Zenon DEF ExecuteStep
  <1>3. CASE \E lab \in BeforeOutcome : Goto(w, lab)
    <2>1. PICK lab \in BeforeOutcome : Goto(w, lab)
      BY <1>3
    <2>2. lab \notin SyncSteps /\ lab \notin {"settle", "record"}
      BY DEF BeforeOutcome, TxnSteps, SyncSteps
    <2> QED BY <1>0, <1>1, <2>1, <2>2, GotoPhase
  <1>4. CASE \E v \in TargetVerdicts : Conclude(w, v)
    <2>1. PICK v \in TargetVerdicts : Conclude(w, v)
      BY <1>4
    <2>2. v \notin {"no_evidence", "sync_failed"}
      BY DEF TargetVerdicts
    <2> QED BY <1>0, <1>1, <2>1, <2>2, ConcludePhase
  <1>5. CASE \E t : Become(w, [proc[w] EXCEPT !.pc = "check", !.tx = t])
    <2>1. PICK t : Become(w, [proc[w] EXCEPT !.pc = "check", !.tx = t])
      BY <1>5, Zenon
    <2> DEFINE l == [proc[w] EXCEPT !.pc = "check", !.tx = t]
    <2>2. l.pc = "check" /\ l.snap = proc[w].snap
      BY <1>1 DEF Local
    <2>3. Become(w, l)
      BY <2>1
    <2> HIDE DEF l
    <2>4. l.pc \notin SyncSteps \cup {"settle", "record"}
      BY <2>2 DEF SyncSteps
    <2> QED BY <1>0, <1>1, <2>2, <2>3, <2>4, NotePhase
  <1>6. CASE Become(w, [proc[w] EXCEPT !.pc = "handle", !.tx = None])
    <2> DEFINE l == [proc[w] EXCEPT !.pc = "handle", !.tx = None]
    <2>2. l.pc = "handle" /\ l.snap = proc[w].snap
      BY <1>1 DEF Local
    <2>3. Become(w, l)
      BY <1>6
    <2> HIDE DEF l
    <2>4. l.pc \notin SyncSteps \cup {"settle", "record"}
      BY <2>2 DEF SyncSteps
    <2> QED BY <1>0, <1>1, <2>2, <2>3, <2>4, NotePhase
  <1> QED
    BY <1>0, <1>2, <1>3, <1>4, <1>5, <1>6, Zenon

\* Recovery decides the outcome of a record that has none.
LEMMA RecoverPhase ==
  ASSUME SafetyInv, ReceiptsInv, NEW p \in Procs, ReconcileTransaction(p)
  PROVE  ReceiptsInv' /\ exec' = exec
  <1>1. /\ exec' = exec /\ proc[p].pc = "recover"
        /\ \E v \in TargetVerdicts : Conclude(p, v)
    BY DEF ReconcileTransaction, Evidence, TargetVerdicts
  <1>2. PICK v \in TargetVerdicts : Conclude(p, v)
    BY <1>1
  <1>3. /\ proc[p].pc # "idle" /\ v \notin {"no_evidence", "sync_failed"}
        /\ proc[p].snap.status # "succeeded"
    BY <1>1, PhaseFacts, Zenon DEF TargetVerdicts, PhaseOK, BeforeOutcome
  <1> QED
    BY <1>1, <1>2, <1>3, ConcludePhase

\* Synchronization keeps a committed record and may only find it synchronized
\* or in conflict: its intended result is durable, so it never lacks evidence.
LEMMA SyncPhase ==
  ASSUME SafetyInv, ReceiptsInv, NEW p \in Procs, SyncStep(p)
  PROVE  ReceiptsInv' /\ exec' = exec
  <1>0. proc[p].pc \in SyncSteps /\ exec' = exec
    BY Zenon DEF SyncStep, SyncDesign, SyncCheckpoint, SyncReadHead,
       SyncInsertBaseline, SyncRereadHead, SyncLatestDesign, SyncSteps
  <1>1. /\ proc[p].pc # "idle" /\ proc[p] \in Local
        /\ proc[p].snap.status = "succeeded" /\ proc[p].snap.intended
    BY <1>0, PhaseFacts, Zenon DEF PhaseOK, SyncSteps, ReceiptShape
  <1>2. \/ \E lab \in SyncSteps \cup {"handle", "idle"} : Goto(p, lab)
        \/ Become(p, [proc[p] EXCEPT !.pc = "head", !.designConflict = TRUE])
        \/ Become(p, [proc[p] EXCEPT !.pc = "insert", !.seenHead = head.rev])
        \/ \E v \in {"conflict", "synced"} : Conclude(p, v)
    <2>1. CASE SyncDesign(p) \/ SyncReadHead(p)
      BY <1>1, <2>1 DEF SyncDesign, SyncReadHead, SyncSteps
    <2>2. CASE SyncCheckpoint(p) \/ SyncInsertBaseline(p)
      BY <2>2 DEF SyncCheckpoint, SyncInsertBaseline, SyncSteps, Raise
    <2>3. CASE SyncRereadHead(p) \/ SyncLatestDesign(p)
      BY <2>3 DEF SyncRereadHead, SyncLatestDesign, SyncSteps
    <2> QED
      BY <2>1, <2>2, <2>3 DEF SyncStep
  <1>3. CASE \E lab \in SyncSteps \cup {"handle", "idle"} : Goto(p, lab)
    <2>1. PICK lab \in SyncSteps \cup {"handle", "idle"} : Goto(p, lab)
      BY <1>3
    <2>2. lab \notin BeforeOutcome /\ lab \notin {"settle", "record"}
      BY DEF BeforeOutcome, TxnSteps, SyncSteps
    <2> QED BY <1>0, <1>1, <2>1, <2>2, GotoPhase, Zenon
  <1>4. CASE Become(p, [proc[p] EXCEPT !.pc = "head", !.designConflict = TRUE])
    <2> DEFINE l == [proc[p] EXCEPT !.pc = "head", !.designConflict = TRUE]
    <2>2. l.pc = "head" /\ l.snap = proc[p].snap
      BY <1>1 DEF Local
    <2>3. Become(p, l)
      BY <1>4
    <2> HIDE DEF l
    <2>4. l.pc \notin BeforeOutcome \cup {"settle", "record"}
      BY <2>2 DEF BeforeOutcome, TxnSteps
    <2> QED BY <1>0, <1>1, <2>2, <2>3, <2>4, NotePhase
  <1>5. CASE Become(p, [proc[p] EXCEPT !.pc = "insert", !.seenHead = head.rev])
    <2> DEFINE l == [proc[p] EXCEPT !.pc = "insert", !.seenHead = head.rev]
    <2>2. l.pc = "insert" /\ l.snap = proc[p].snap
      BY <1>1 DEF Local
    <2>3. Become(p, l)
      BY <1>5
    <2> HIDE DEF l
    <2>4. l.pc \notin BeforeOutcome \cup {"settle", "record"}
      BY <2>2 DEF BeforeOutcome, TxnSteps
    <2> QED BY <1>0, <1>1, <2>2, <2>3, <2>4, NotePhase
  <1>6. CASE \E v \in {"conflict", "synced"} : Conclude(p, v)
    <2>1. PICK v \in {"conflict", "synced"} : Conclude(p, v)
      BY <1>6
    <2>2. v \notin TargetVerdicts
      BY DEF TargetVerdicts
    <2> QED BY <1>0, <1>1, <2>1, <2>2, ConcludePhase
  <1> QED
    BY <1>0, <1>2, <1>3, <1>4, <1>5, <1>6

\* A reservation finds no unfinished work and starts the only one.
LEMMA ReserveFollows ==
  ASSUME SafetyInv, ReceiptsInv, NEW e \in Execs, ReserveExecution(e)
  PROVE  ReceiptsInv' /\ \A f \in Execs : exec'[f] # exec[f] => Follows(exec[f], exec'[f])
  <1> DEFINE r == [NoExec EXCEPT !.status = "reserved", !.rev = 1]
  <1>0. /\ exec \in [Execs -> ExecRecord] /\ proc' = proc /\ ~LifecycleBlocked
        /\ exec' = [exec EXCEPT ![e] = r] /\ exec[e] = NoExec
    BY DEF ReserveExecution, SafetyInv, PlansOK, TypeOK
  <1>1. /\ r.status = "reserved" /\ r.rev = 1 /\ r.outcome = None /\ r.sync = None
        /\ r.lease = None
        /\ NoExec.rev = 0 /\ NoExec.status = "none" /\ NoExec.sync = None
    BY Zenon DEF NoExec
  <1> HIDE DEF r
  <1>2. \A f \in Execs : exec'[f] = exec[f] \/ (f = e /\ exec'[f] = r)
    BY <1>0
  <1>3. ReceiptShape(r)
    BY <1>1 DEF ReceiptShape
  <1>4. OneUnsettled'
    BY <1>0, <1>2 DEF OneUnsettled, LifecycleBlocked
  <1>5. ReceiptsInv'
    BY <1>0, <1>2, <1>3, <1>4 DEF ReceiptsInv
  <1>6. r.rev = exec[e].rev + 1 /\ exec[e].status # "failed"
        /\ exec[e].sync \notin {"succeeded", "conflict"}
    BY <1>0, <1>1
  <1> QED
    BY <1>0, <1>2, <1>5, <1>6 DEF Follows

-----------------------------------------------------------------------------
(* The theorems *)

\* Every step keeps receipts and phases in order and lets each receipt follow
\* its previous row.
LEMMA ReceiptsStep ==
  ASSUME SafetyInv, SafetyInv', ReceiptsInv, [Next]_vars
  PROVE  ReceiptsInv' /\ \A f \in Execs : exec'[f] # exec[f] => Follows(exec[f], exec'[f])
  <1>0. TypeOK /\ TypeOK'
    BY Zenon DEF SafetyInv
  <1>1. CASE \/ UNCHANGED vars
             \/ Review /\ ~\E e \in Execs : ReserveExecution(e)
             \/ GuardMutation \/ ReplaceDesign
             \/ \E d \in Drifts : ExternalChange(d)
             \/ \E e \in Execs : LeaseExpires(e)
             \/ \E e \in Execs, w \in Workers : RenewExecutionLease(w, e)
             \/ \E t \in Xids : CommitResolves(t) \/ SessionLost(t)
    <2>1. exec' = exec /\ proc' = proc
      BY <1>1, Zenon DEF vars, Review, ReviewDesign, ResolveInspect, ReviewBaseline,
         ReviewInspect, CreatePlan, ReconcileDrift, GuardMutation, ReplaceDesign,
         ExternalChange, LeaseExpires, RenewExecutionLease, CommitResolves,
         SessionLost
    <2> QED BY <1>0, <2>1, PhaseStep
  <1>2. CASE \E e \in Execs : ReserveExecution(e)
    BY <1>2, ReserveFollows
  <1>3. CASE \E p \in Procs : Crash(p) \/ ServiceUnavailable(p)
    <2>1. PICK p \in Procs : Crash(p) \/ ServiceUnavailable(p)
      BY <1>3
    <2>2. /\ exec' = exec /\ proc[p].pc # "idle"
          /\ \E lab \in {"idle", "handle"} : Goto(p, lab)
      BY <2>1 DEF Crash, ServiceUnavailable, Raise
    <2>3. PICK lab \in {"idle", "handle"} : Goto(p, lab)
      BY <2>2
    <2>4. lab \notin SyncSteps \cup BeforeOutcome \cup {"settle", "record"}
      BY DEF SyncSteps, BeforeOutcome, TxnSteps
    <2> QED BY <2>2, <2>3, <2>4, GotoPhase
  <1>4. CASE \E e \in Execs, p \in Operators : Reconcile(p, e)
    BY <1>4, ReconcilePhase
  <1>5. CASE \E p \in Procs : ProcessStep(p)
    BY <1>0, <1>5, RecoverPhase, SettleFollows, SyncPhase DEF ProcessStep
  <1>6. CASE \E w \in Workers : FailureStep(w) \/ \E e \in Execs : ClaimNextExecution(w, e)
    BY <1>0, <1>6, ReadFailurePhase, SettleFollows, ClaimFollows DEF FailureStep
  <1>7. CASE \E w \in Workers : ExecuteStep(w)
    BY <1>0, <1>7, ExecutePhase, CallbackFollows
  <1> QED
    BY <1>1, <1>2, <1>3, <1>4, <1>5, <1>6, <1>7, Zenon DEF Next, WorkerStep, Procs

\* The invariants hold initially.
LEMMA InitHistory == Init => HistoryInv
  <1> SUFFICES ASSUME Init PROVE HistoryInv
    OBVIOUS
  <1>1. /\ \A e \in Execs : ReceiptShape(exec[e])
        /\ \A e \in Execs : ~Unsettled(exec[e])
    BY Zenon DEF Init, NoExec, ReceiptShape, Unsettled, ActiveStatuses
  <1>2. \A p \in Procs : PhaseOK(proc[p])
    BY IdleOK, Zenon DEF Init, PhaseOK
  <1>3. ReceiptsInv
    BY <1>1, <1>2 DEF ReceiptsInv, OneUnsettled
  <1>4. DesignsInv
    <2>1. \A e \in Execs : plan[e] = NoPlan
      BY DEF Init
    <2>2. draft = NoDraft
      BY DEF Init
    <2>3. design.rev = 1
      BY DEF Init
    <2>4. Reviewed(NoPlan) /\ Reviewed(NoDraft)
      <3>1. NoPlan.designRev = 0 /\ NoDraft.designRev = 0
        BY DEF NoDraft, NoPlan
      <3>2. 0 <= 1 /\ 0 # 1
        OBVIOUS
      <3> QED BY <2>3, <3>1, <3>2, ZenonT(40), SMTT(15) DEF Reviewed
    <2> QED BY <2>1, <2>2, <2>3, <2>4 DEF DesignsInv
  <1>5. BaselineIsCommitted
    BY Zenon DEF Init, BaselineIsCommitted, NoDraft, NoPlan, NoTxn
  <1> QED
    BY <1>3, <1>4, <1>5 DEF HistoryInv

\* Every step keeps the whole invariant.
LEMMA NextHistory == MigrationInv /\ [Next]_vars => MigrationInv'
  BY NextSafety, ReceiptsStep, DesignsStep, Zenon DEF MigrationInv, HistoryInv

\* The invariants behind receipts, designs and baselines hold for any number of
\* workers, requests, plans, transactions, edits, drifts and faults.
THEOREM Migration_Invariant == Spec => []MigrationInv
  <1>1. Init => MigrationInv
    BY InitSafety, InitHistory DEF MigrationInv
  <1> QED
    BY <1>1, NextHistory, PTL DEF Spec

\* reserve_execution never lets two executions of the workspace have
\* unfinished target or metadata work.
THEOREM One_Unsettled == Spec => []OneUnsettled
  <1>1. MigrationInv => OneUnsettled
    BY DEF MigrationInv, HistoryInv, ReceiptsInv
  <1> QED
    BY <1>1, Migration_Invariant, PTL

\* transition_execution and claim_next_execution: a receipt advances one
\* revision at a time, never after it failed, and a settled success is never
\* handed back to the workers.
THEOREM Receipt_History == Spec => ReceiptHistory
  <1>1. MigrationInv /\ MigrationInv' /\ [Next]_vars =>
          [\A e \in Execs : exec'[e] # exec[e] =>
             /\ exec'[e].rev = exec[e].rev + 1
             /\ exec[e].status # "failed"
             /\ exec[e].sync \in {"succeeded", "conflict"} => ~Unsettled(exec'[e])]_vars
    BY ReceiptsStep DEF MigrationInv, HistoryInv, Follows
  <1> QED
    BY <1>1, Migration_Invariant, PTL DEF Spec, ReceiptHistory

\* A checkpoint or a drift resolution replaces exactly the design that was
\* reviewed, so no user edit is lost to the system's own writes.
THEOREM Edits_Are_Kept == Spec => EditsAreKept
  <1>1. MigrationInv /\ [Next]_vars =>
          [design' # design /\ ~editing =>
             \E e \in Execs : /\ plan[e].status \in {"claimed", "blocked"}
                              /\ design.rev = plan[e].designRev
                              /\ design.fp = plan[e].designFp]_vars
    BY EditsStep DEF MigrationInv, HistoryInv
  <1> QED
    BY <1>1, Migration_Invariant, PTL DEF Spec, EditsAreKept

\* _sync_committed and reconcile_drift: whatever the baseline head says is in
\* the target's committed catalog.
THEOREM Baseline_Is_Committed == Spec => []BaselineIsCommitted
  <1>1. MigrationInv => BaselineIsCommitted
    BY DEF MigrationInv, HistoryInv
  <1> QED
    BY <1>1, Migration_Invariant, PTL
=============================================================================
