--------------------- MODULE ConsoleTransactionsProofs ----------------------
(***************************************************************************)
(* Proofs that ConsoleTransactions keeps its safety properties, for every  *)
(* number of transactions and requests: the steps that change only a       *)
(* request, its locks or a receipt, the steps that change a PostgreSQL     *)
(* transaction, the list of active transactions or an outcome, and the     *)
(* theorems.                                                               *)
(***************************************************************************)
EXTENDS ConsoleTransactions, TLAPS

\* Every request is a process of its own.
LEMMA Kinds ==
  /\ Txs \subseteq Procs /\ Runs \subseteq Procs
  /\ Finishers \subseteq Procs /\ Pollers \subseteq Procs
  /\ None \notin Procs
  /\ Txs \cap Runs = {} /\ Txs \cap Finishers = {} /\ Txs \cap Pollers = {}
  /\ Runs \cap Finishers = {} /\ Runs \cap Pollers = {}
  /\ Finishers \cap Pollers = {}
  BY TransactionsAssumption DEF Procs

\* A revision is not behind itself.
LEMMA AtLeastItself == \A n \in Nat : n >= n
  OBVIOUS

\* It is behind the next one.
LEMMA BehindTheNext == \A n \in Nat : \A a, b : a = n /\ b = n + 1 => a < b
  OBVIOUS

\* The request of a process that does nothing.
LEMMA NoRequestFields ==
  NoRequest.pc = "idle" /\ NoRequest.job = "none" /\ NoRequest.back = "raise"
  BY DEF NoRequest

\* The request that looks for a transaction, or begins to create one.
LEMMA RequestFields ==
  ASSUME NEW pc, NEW job, NEW t, NEW rev
  PROVE  LET x == [pc |-> pc, job |-> job, t |-> t, rev |-> rev, live |-> FALSE,
                   back |-> "raise"]
         IN x.pc = pc /\ x.job = job /\ x.t = t /\ x.back = "raise"
  OBVIOUS

\* A receipt that is saved at its next revision.
LEMMA ReceiptPut ==
  ASSUME tx \in [Txs -> [status : {"none", "open", "failed", "committed", "rolled_back",
                                   "uncertain", "expired"}, rev : Nat]],
         NEW t \in Txs, NEW status \in {"open", "failed", "committed", "rolled_back",
                                        "uncertain", "expired"},
         tx' = [tx EXCEPT ![t] = [status |-> status, rev |-> @.rev + 1]]
  PROVE  /\ tx'[t].status = status /\ tx'[t].rev = tx[t].rev + 1 /\ tx[t].rev \in Nat
         /\ \A u \in Txs \ {t} : tx'[u] = tx[u]
         /\ tx' \in [Txs -> [status : {"none", "open", "failed", "committed", "rolled_back",
                                       "uncertain", "expired"}, rev : Nat]]
  <1>1. tx[t].rev \in Nat
    OBVIOUS
  <1>2. [status |-> status, rev |-> tx[t].rev + 1] \in
          [status : {"none", "open", "failed", "committed", "rolled_back",
                     "uncertain", "expired"}, rev : Nat]
    BY <1>1
  <1>3. tx'[t] = [status |-> status, rev |-> tx[t].rev + 1]
    OBVIOUS
  <1> QED BY <1>1, <1>2, <1>3

-----------------------------------------------------------------------------
(* Frames *)

Request == [pc : Steps, job : Jobs, t : Txs \cup {None}, rev : Nat,
            live : BOOLEAN, back : {"raise", "existing", "look", "check"}]

\* A step of q leaves the other requests, and the locks they hold, alone.
Control(q) ==
    /\ proc' \in [Procs -> Request]
    /\ \A p \in Procs \ {q} : proc'[p] = proc[p]
    /\ lock' \in [Txs -> Procs \cup {None}]
    /\ \A t \in Txs : lock[t] \notin {None, q} => lock'[t] = lock[t]
    /\ registry' \in Txs \cup {None}

\* What q is about stays as it was.
Same(q) == /\ proc'[q].job = proc[q].job /\ proc'[q].t = proc[q].t
           /\ proc'[q].rev = proc[q].rev /\ proc'[q].live = proc[q].live
           /\ proc'[q].back = proc[q].back

\* A receipt changes only into a later revision, and never becomes live again.
Ages(t) ==
    \/ tx'[t] = tx[t]
    \/ /\ tx[t].status # "none" /\ tx'[t].status # "none"
       /\ tx'[t].rev > tx[t].rev
       /\ tx'[t].status \in Live => tx[t].status \in Live

\* What is older than a receipt stays older than it.
LEMMA Later ==
  ASSUME NEW t \in Txs, Ages(t), tx[t].rev \in Nat, tx'[t].rev \in Nat,
         NEW n \in Nat, n < tx[t].rev
  PROVE  n < tx'[t].rev
  <1>1. CASE tx'[t] = tx[t]
    BY <1>1
  <1>2. CASE tx'[t].rev > tx[t].rev
    BY <1>2
  <1> QED BY <1>1, <1>2 DEF Ages

\* What a step of q may do to the data that others rely on.
Data(q) ==
    /\ \A t \in Txs : tx[t].status # "none" => Ages(t)
    /\ \A t \in Txs : tx[t].status # "none" /\ t \in active' => t \in active
    /\ \A t \in Txs : Closed(t) => pg'[t] = pg[t]
    /\ \A t \in Txs : lock[t] \notin {None, q} => wrote'[t] \subseteq wrote[t]
    /\ \A x \in Runs : x # q \/ proc[q].job # "reserve" => run'[x].rev = run[x].rev
    /\ events.unsaved => events'.unsaved

\* A request that goes on without touching a lock.
LEMMA GotoControl ==
  ASSUME TypeOK, NEW p \in Procs, NEW pc \in Steps, Goto(p, pc), KeepLocks
  PROVE  Control(p) /\ Same(p) /\ proc'[p].pc = pc /\ lock' = lock
  <1>1. proc[p] \in Request /\ proc \in [Procs -> Request]
    BY DEF TypeOK, Request
  <1>2. proc' = [proc EXCEPT ![p] = [proc[p] EXCEPT !.pc = pc]]
    BY DEF Goto
  <1>3. proc' \in [Procs -> Request] /\ Same(p) /\ proc'[p].pc = pc
    BY <1>1, <1>2 DEF Same, Request
  <1> QED
    BY <1>1, <1>2, <1>3 DEF Control, KeepLocks, TypeOK

\* A request that goes on and lets go of the session lock.
LEMMA LeaveControl ==
  ASSUME TypeOK, NEW p \in Procs, NEW pc \in Steps, Leave(p, pc)
  PROVE  Control(p) /\ Same(p) /\ proc'[p].pc = pc
  <1>1. proc[p] \in Request /\ proc \in [Procs -> Request]
    BY DEF TypeOK, Request
  <1>2. proc' = [proc EXCEPT ![p] = [proc[p] EXCEPT !.pc = pc]]
    BY DEF Leave, Goto
  <1>3. proc' \in [Procs -> Request] /\ Same(p) /\ proc'[p].pc = pc
    BY <1>1, <1>2 DEF Same, Request
  <1>4. /\ lock' \in [Txs -> Procs \cup {None}]
        /\ \A t \in Txs : lock[t] # p => lock'[t] = lock[t]
        /\ registry' \in Txs \cup {None}
    BY DEF Leave, Unlocked, TypeOK
  <1> QED
    BY <1>1, <1>2, <1>3, <1>4 DEF Control

\* The requests that do not take the step keep what they rely on.
LEMMA Bystander ==
  ASSUME TransactionsInv, TypeOK', NEW q \in Procs, Control(q), Data(q),
         NEW p \in Procs \ {q}
  PROVE  RequestOK(p)'
  <1>0. /\ RequestOK(p) /\ proc'[p] = proc[p] /\ proc[p] \in Request /\ TypeOK
        /\ events.unsaved \in BOOLEAN
    BY DEF TransactionsInv, Control, SessionInv, TypeOK, Request
  <1>1. RoleOK(p)'
    BY <1>0 DEF RequestOK, RoleOK
  <1>2. CASE proc[p].pc \in {"idle", "done", "open", "insert"}
    <2>1. proc[p].pc \notin LockedSteps \cup ExpirySteps
                \cup {"receipt", "drop", "dropfail", "uncertain", "finish", "ready"}
      BY <1>2 DEF LockedSteps, ExpirySteps
    <2>2. proc[p].job = "run" => proc[p].pc = "done"
      BY <1>0, <1>2 DEF RequestOK, RoleOK, NoRequest
    <2> QED
      BY <1>0, <1>1, <1>2, <2>1, <2>2 DEF RequestOK, Evicting, ExpirySteps
  <1>3. CASE proc[p].pc \notin {"idle", "done", "open", "insert"}
    <2> DEFINE t == proc[p].t
    <2>1. /\ t \in Txs /\ tx[t].status # "none" /\ Ages(t)
          /\ tx'[t].status # "none"
      BY <1>0, <1>3 DEF RequestOK, Data, Ages
    <2>2. /\ tx[t].rev \in Nat /\ tx'[t].rev \in Nat /\ proc[p].rev \in Nat
      BY <1>0, <2>1 DEF TypeOK, Request
    <2>3. /\ proc[p].pc \in LockedSteps => lock[t] = p /\ lock'[t] = p
          /\ proc[p].pc \in ExpirySteps /\ proc[p].back = "check" => lock'[t] = p
      BY <1>0, <2>1, Kinds DEF RequestOK, Control
    <2>4. Evicting(p)' => t \notin active'
      BY <1>0, <2>1 DEF RequestOK, Evicting, Data
    <2>5. Closed(t) => pg'[t] \in {"committed", "rolledback"}
      BY <2>1 DEF Closed, Data
    <2>6. proc[p].pc = "finish" => \A x \in wrote'[t] : run'[x].rev < proc[p].rev
      <3> SUFFICES ASSUME proc[p].pc = "finish", NEW x \in wrote'[t]
                   PROVE  run'[x].rev < proc[p].rev
        OBVIOUS
      <3>1. lock[t] = p /\ p \notin {None, q}
        BY <2>3, Kinds DEF LockedSteps
      <3>2. x \in wrote[t]
        BY <2>1, <3>1 DEF Data
      <3>3. proc[x].job = "run" /\ x \in Runs
        BY <1>0, <2>1, <3>2 DEF TransactionsInv, TypeOK
      <3> QED
        BY <1>0, <3>2, <3>3 DEF RequestOK, Data
    <2>7. proc[p].pc = "ready" \/ (proc[p].job = "run" /\ proc[p].pc # "done") =>
            run'[p].rev < tx'[t].rev
      <3> SUFFICES ASSUME proc[p].pc = "ready" \/ (proc[p].job = "run" /\ proc[p].pc # "done")
                   PROVE  run'[p].rev < tx'[t].rev
        OBVIOUS
      <3>1. p \in Runs /\ run[p].rev \in Nat /\ run[p].rev < tx[t].rev
        BY <1>0 DEF RequestOK, RoleOK, TypeOK
      <3> QED
        BY <2>1, <2>2, <3>1, Later DEF Data
    <2>8. proc[p].job = "commit" /\ proc[p].pc \in {"finish", "drop", "receipt"} =>
            /\ tx'[t].rev >= proc[p].rev
            /\ tx'[t].rev = proc[p].rev => tx'[t].status = "open"
      <3> SUFFICES ASSUME proc[p].job = "commit", proc[p].pc \in {"finish", "drop", "receipt"}
                   PROVE  /\ tx'[t].rev >= proc[p].rev
                          /\ tx'[t].rev = proc[p].rev => tx'[t].status = "open"
        OBVIOUS
      <3>1. /\ tx[t].rev >= proc[p].rev
            /\ tx[t].rev = proc[p].rev => tx[t].status = "open"
        BY <1>0 DEF RequestOK
      <3>2. CASE tx'[t] = tx[t]
        BY <3>1, <3>2
      <3>3. CASE tx'[t].rev > tx[t].rev
        BY <2>2, <3>1, <3>3
      <3> QED BY <2>1, <3>2, <3>3 DEF Ages
    <2>9. proc[p].job = "rollback" /\ proc[p].pc \in {"drop", "receipt"}
            /\ tx'[t].status \in Live /\ ~events'.unsaved => pg'[t] = "rolledback"
      BY <1>0, <2>1 DEF RequestOK, Data, Ages, Closed
    <2>10. proc'[p] = proc[p] /\ (proc[p].pc \in {"drop", "receipt", "dropfail", "uncertain",
                                                  "expired"} => Closed(t))
      BY <1>0 DEF RequestOK
    <2>11. RequestOK(p) /\ RoleOK(p)'
      BY <1>0, <1>1
    <2>12. /\ proc'[p].pc = proc[p].pc /\ proc'[p].t = proc[p].t /\ proc'[p].job = proc[p].job
           /\ proc'[p].back = proc[p].back /\ proc'[p].rev = proc[p].rev
      BY <2>10
    <2> QED
      BY <1>3, <2>1, <2>3, <2>4, <2>5, <2>6, <2>7, <2>8, <2>9, <2>10, <2>11, <2>12, SMTT(15), Z3T(15), ZenonT(40)
      DEF RequestOK, Closed
  <1> QED
    BY <1>2, <1>3

\* Who answers for a session, a PostgreSQL transaction or a commit.
DropHolder(p, t) == lock[t] = p /\ proc[p].t = t /\ proc[p].pc = "dropfail"

Owner(p, t) ==
    \/ p = t /\ proc[p].pc = "insert"
    \/ /\ proc[p].t = t
       /\ \/ proc[p].pc \in {"undo", "close"}
          \/ proc[p].job = "close" /\ proc[p].pc \in {"lock", "check"}

CommitHolder(p, t) == /\ lock[t] = p /\ proc[p].t = t /\ proc[p].job = "commit"
                      /\ proc[p].pc \in {"uncertain", "drop", "receipt"}

\* A step of q keeps the invariant when q keeps its own part of it and every
\* transaction keeps somebody who answers for it.
LEMMA StepKeeps ==
  ASSUME TransactionsInv, TypeOK', NEW q \in Procs, Control(q), Data(q),
         RequestOK(q)', OneLive',
         events' \in [left : Nat, unsaved : BOOLEAN],
         \A t \in Txs : CreationOK(t)',
         \A t \in Txs : \A x \in wrote'[t] : x \notin wrote[t] =>
             x = q /\ proc'[x].job = "run" /\ run'[x].rev < tx'[t].rev,
         proc[q].job = "run" => proc'[q].job = "run",
         \A t \in active' : \/ tx'[t].status \in Live
                            \/ DropHolder(q, t)'
                            \/ \E p \in Procs \ {q} : DropHolder(p, t),
         \A t \in Txs : pg'[t] \notin {"none", "committed", "rolledback"} =>
                            \/ t \in active'
                            \/ Owner(q, t)'
                            \/ \E p \in Procs \ {q} : Owner(p, t),
         \A t \in Txs : pg'[t] = "committed" /\ tx'[t].status \in Live
                          /\ ~events'.unsaved =>
                            \/ CommitHolder(q, t)'
                            \/ \E p \in Procs \ {q} : CommitHolder(p, t),
         ~events'.unsaved => \A t \in Txs : tx'[t].status = "rolled_back" =>
                               pg'[t] = "rolledback"
  PROVE  TransactionsInv'
  <1>0. /\ TypeOK /\ \A p \in Procs \ {q} : proc'[p] = proc[p]
        /\ \A t \in Txs : lock[t] \notin {None, q} => lock'[t] = lock[t]
    BY DEF TransactionsInv, SessionInv, Control
  <1>1. ASSUME NEW p \in Procs \ {q}, NEW t \in Txs
        PROVE  /\ DropHolder(p, t) => DropHolder(p, t)'
               /\ Owner(p, t) => Owner(p, t)'
               /\ CommitHolder(p, t) => CommitHolder(p, t)'
    BY <1>0, Kinds, SMTT(15), Z3T(15), ZenonT(40) DEF DropHolder, Owner, CommitHolder
  <1>2. SessionsAreLive'
    <2> SUFFICES ASSUME NEW t \in active', t \in Txs, tx'[t].status \notin Live
                 PROVE  \E p \in Procs : DropHolder(p, t)'
      BY DEF SessionsAreLive, DropHolder, TypeOK
    <2> QED BY <1>1
  <1>3. OpenTransactionsAreOwned'
    <2> SUFFICES ASSUME NEW t \in Txs,
                        pg'[t] \notin {"none", "committed", "rolledback"},
                        t \notin active'
                 PROVE  \E p \in Procs : Owner(p, t)'
      BY DEF OpenTransactionsAreOwned, Owner
    <2> QED BY <1>1
  <1>4. \A t \in Txs : CommitInHand(t)'
    <2> SUFFICES ASSUME NEW t \in Txs, pg'[t] = "committed", tx'[t].status \in Live,
                        ~events'.unsaved
                 PROVE  \E p \in Procs : CommitHolder(p, t)'
      BY DEF CommitInHand, CommitHolder
    <2> QED BY <1>1
  <1>5. \A t \in Txs : \A x \in wrote'[t] :
          proc'[x].job = "run" /\ run'[x].rev < tx'[t].rev
    <2> SUFFICES ASSUME NEW t \in Txs, NEW x \in wrote'[t], x \in wrote[t]
                 PROVE  proc'[x].job = "run" /\ run'[x].rev < tx'[t].rev
      OBVIOUS
    <2>1. /\ x \in Runs /\ proc[x].job = "run" /\ run[x].rev < tx[t].rev
          /\ tx[t].status # "none"
      BY <1>0 DEF TransactionsInv, TypeOK, CreationOK
    <2>2. run'[x].rev = run[x].rev /\ Ages(t)
      BY <2>1 DEF Data
    <2>3. run[x].rev \in Nat /\ tx[t].rev \in Nat /\ tx'[t].rev \in Nat
      BY <1>0, <2>1 DEF TypeOK
    <2>4. proc'[x].job = "run"
      BY <1>0, <2>1, Kinds
    <2> QED
      BY <2>1, <2>2, <2>3, <2>4, Later
  <1>6. \A p \in Procs : RequestOK(p)'
    BY Bystander
  <1> QED
    BY <1>2, <1>3, <1>4, <1>5, <1>6, Zenon DEF TransactionsInv, SessionInv, RolledBackIsTrue

\* A step that changes neither the registry nor PostgreSQL. Receipts may age,
\* but not under a session that can be found.
Quiet(q) ==
    /\ UNCHANGED <<active, pg, wrote>> /\ lapsed' \subseteq Txs
    /\ run' \in [Runs -> [status : {"none", "reserved", "running", "succeeded", "failed",
                                   "cancelled"}, rev : Nat]]
    /\ \A x \in Runs : x # q \/ proc[q].job # "reserve" => run'[x].rev = run[x].rev
    /\ events' \in [left : Nat, unsaved : BOOLEAN]
    /\ events.unsaved => events'.unsaved
    /\ tx' \in [Txs -> [status : {"none", "open", "failed", "committed", "rolled_back",
                                 "uncertain", "expired"}, rev : Nat]]
    /\ \A t \in Txs : \/ tx'[t] = tx[t]
                      \/ /\ Ages(t) /\ tx'[t].status # "rolled_back"
                         /\ t \in active => tx'[t].status \in Live

\* What the inductive invariant says of sessions and of open transactions.
LEMMA Answers ==
  ASSUME TransactionsInv
  PROVE  /\ \A t \in active : \/ tx[t].status \in Live
                              \/ \E p \in Procs : DropHolder(p, t)
         /\ \A t \in Txs : pg[t] \notin {"none", "committed", "rolledback"} =>
                             t \in active \/ \E p \in Procs : Owner(p, t)
         /\ \A t \in Txs : pg[t] = "committed" /\ tx[t].status \in Live /\ ~events.unsaved =>
                             \E p \in Procs : CommitHolder(p, t)
         /\ ~events.unsaved => \A t \in Txs : tx[t].status = "rolled_back" =>
                                 pg[t] = "rolledback"
  <1>1. SessionsAreLive /\ OpenTransactionsAreOwned /\ RolledBackIsTrue
    BY DEF TransactionsInv, SessionInv
  <1>2. \A t \in active : \/ tx[t].status \in Live
                          \/ \E p \in Procs : DropHolder(p, t)
    BY <1>1, Zenon DEF SessionsAreLive, DropHolder
  <1>3. \A t \in Txs : pg[t] \notin {"none", "committed", "rolledback"} =>
                             t \in active \/ \E p \in Procs : Owner(p, t)
    BY <1>1, Kinds DEF OpenTransactionsAreOwned, Owner
  <1>4. \A t \in Txs : pg[t] = "committed" /\ tx[t].status \in Live /\ ~events.unsaved =>
                             \E p \in Procs : CommitHolder(p, t)
    BY DEF TransactionsInv, CommitInHand, CommitHolder
  <1> QED
    BY <1>1, <1>2, <1>3, <1>4 DEF RolledBackIsTrue

\* It keeps the invariant when q goes on answering for what it did.
LEMMA QuietOwner ==
  ASSUME TransactionsInv, NEW q \in Procs, Control(q), RequestOK(q)', Quiet(q),
         proc[q].pc \notin {"done", "insert", "uncertain", "drop", "receipt", "dropfail"},
         \A t \in Txs : Owner(q, t) /\ ~Closed(t) => Owner(q, t)',
         proc'[q].pc # "insert",
         proc[q].job = "run" => proc'[q].job = "run"
  PROVE  TransactionsInv'
  <1>0. /\ TypeOK /\ \A p \in Procs \ {q} : proc'[p] = proc[p]
        /\ \A t \in Txs : CreationOK(t)
        /\ SessionsAreLive /\ OpenTransactionsAreOwned
    BY DEF TransactionsInv, SessionInv, Control
  <1>1. TypeOK'
    BY <1>0 DEF TypeOK, Control, Request, Quiet
  <1>2. Data(q)
    BY DEF Data, Ages, Quiet
  <1>3. OneLive'
    BY DEF TransactionsInv, OneLive, Ages, Quiet
  <1>4. \A t \in Txs : CreationOK(t)'
    <2> SUFFICES ASSUME NEW t \in Txs PROVE CreationOK(t)'
      OBVIOUS
    <2>1. tx'[t].status = "none" <=> tx[t].status = "none"
      BY DEF Ages, Quiet
    <2>2. CASE t # q
      <3>1. /\ proc'[t] = proc[t] /\ CreationOK(t)
            /\ active' = active /\ pg' = pg /\ wrote' = wrote
        BY <1>0, <2>2, Kinds DEF Quiet
      <3> QED BY <2>1, <3>1 DEF CreationOK
    <2>3. CASE t = q
      BY <1>0, <2>1, <2>3, Zenon DEF CreationOK, Quiet
    <2> QED BY <2>2, <2>3
  <1>5. \A t \in active' : \/ tx'[t].status \in Live
                           \/ \E p \in Procs \ {q} : DropHolder(p, t)
    <2> SUFFICES ASSUME NEW t \in active, tx'[t].status \notin Live
                 PROVE  \E p \in Procs \ {q} : DropHolder(p, t)
      BY Zenon DEF Quiet
    <2>1. t \in Txs /\ tx[t].status \notin Live
      BY <1>0 DEF TypeOK, Quiet
    <2>2. ~DropHolder(q, t) /\ \E p \in Procs : DropHolder(p, t)
      BY <1>0, <2>1, Zenon DEF SessionsAreLive, DropHolder
    <2> QED BY <2>2
  <1>6. \A t \in Txs : pg'[t] \notin {"none", "committed", "rolledback"} =>
                         \/ t \in active' \/ Owner(q, t)'
                         \/ \E p \in Procs \ {q} : Owner(p, t)
    <2> SUFFICES ASSUME NEW t \in Txs, pg[t] \notin {"none", "committed", "rolledback"},
                        t \notin active, ~Owner(q, t)'
                 PROVE  \E p \in Procs \ {q} : Owner(p, t)
      BY DEF Quiet
    <2>1. ~Owner(q, t) /\ \E p \in Procs : Owner(p, t)
      BY Answers DEF Closed
    <2> QED BY <2>1, Zenon
  <1>7. \A t \in Txs : pg'[t] = "committed" /\ tx'[t].status \in Live
                          /\ ~events'.unsaved =>
                            \E p \in Procs \ {q} : CommitHolder(p, t)
    <2>1. \A t \in Txs : ~CommitHolder(q, t)
      BY DEF CommitHolder
    <2>2. \A t \in Txs : tx'[t].status \in Live => tx[t].status \in Live
      BY DEF Ages, Quiet
    <2> QED BY <2>1, <2>2, Answers, Zenon DEF Quiet
  <1>8. ~events'.unsaved => \A t \in Txs : tx'[t].status = "rolled_back" =>
                               pg'[t] = "rolledback"
    BY DEF TransactionsInv, RolledBackIsTrue, Quiet
  <1> QED
    <2>1. /\ events' \in [left : Nat, unsaved : BOOLEAN]
          /\ \A t \in Txs : wrote'[t] \subseteq wrote[t]
      BY DEF Quiet
    <2> QED
      BY <1>1, <1>2, <1>3, <1>4, <1>5, <1>6, <1>7, <1>8, <2>1, StepKeeps

\* It keeps the invariant when q does not answer for anything.
LEMMA QuietStep ==
  ASSUME TransactionsInv, NEW q \in Procs, Control(q), RequestOK(q)', Quiet(q),
         proc[q].pc \notin {"done", "insert", "undo", "close", "uncertain", "drop",
                            "receipt", "dropfail"},
         proc[q].job # "close" \/ proc[q].pc \notin {"lock", "check"}, proc'[q].pc # "insert",
         proc[q].job = "run" => proc'[q].job = "run"
  PROVE  TransactionsInv'
  <1>1. \A t \in Txs : ~Owner(q, t)
    BY DEF Owner
  <1> QED BY <1>1, QuietOwner

\* A failure, or none, is counted against the events that are left.
LEMMA EventFacts ==
  ASSUME TransactionsInv, UNCHANGED events \/ Event \/ Fault
  PROVE  /\ events' \in [left : Nat, unsaved : BOOLEAN]
         /\ events.unsaved => events'.unsaved
  <1>0. events \in [left : Nat, unsaved : BOOLEAN]
    BY DEF TransactionsInv
  <1>1. CASE UNCHANGED events
    BY <1>0, <1>1
  <1>2. CASE Event
    BY <1>0, <1>2 DEF Event
  <1>3. CASE Fault
    BY <1>0, <1>3 DEF Fault
  <1> QED BY <1>1, <1>2, <1>3

\* A step that changes no transaction and no execution.
LEMMA QuietIdle ==
  ASSUME TransactionsInv, NEW q \in Procs, UNCHANGED events \/ Event \/ Fault,
         UNCHANGED <<tx, active, pg, wrote, run, lapsed>>
  PROVE  Quiet(q)
  <1>1. TypeOK
    BY Zenon DEF TransactionsInv, SessionInv
  <1> QED BY <1>1, EventFacts DEF Quiet, TypeOK

\* Expiring a receipt whose session cannot be found.
LEMMA QuietExpiry ==
  ASSUME TransactionsInv, NEW q \in Procs, UNCHANGED events \/ Event \/ Fault,
         NEW t \in Txs, t \notin active, tx' \in {tx, Expired(t)},
         UNCHANGED <<active, pg, wrote, run, lapsed>>
  PROVE  Quiet(q)
  <1>1. TypeOK
    BY DEF TransactionsInv, SessionInv
  <1>2. CASE tx' = tx
    BY <1>1, <1>2, QuietIdle
  <1>3. CASE tx' # tx
    <2>1. /\ tx[t].status \in Live
          /\ tx' = [tx EXCEPT ![t] = [status |-> "expired", rev |-> tx[t].rev + 1]]
      BY <1>3 DEF Expired
    <2>2. /\ tx[t].rev \in Nat /\ tx'[t].status = "expired" /\ tx'[t].rev = tx[t].rev + 1
          /\ \A u \in Txs \ {t} : tx'[u] = tx[u]
          /\ tx' \in [Txs -> [status : {"none", "open", "failed", "committed", "rolled_back",
                                        "uncertain", "expired"}, rev : Nat]]
      BY <1>1, <2>1 DEF TypeOK
    <2>3. Ages(t)
      BY <2>1, <2>2 DEF Ages, Live
    <2> QED
      BY <1>1, <2>2, <2>3, EventFacts DEF Quiet, TypeOK
  <1> QED BY <1>2, <1>3

\* An exception ends a request, or leaves a run with its failure to record.
LEMMA RaiseOK ==
  ASSUME TransactionsInv, NEW q \in Procs, Raise(q),
         proc[q].pc \notin {"idle", "done"},
         \A t \in Txs : tx[t].status # "none" => Ages(t) /\ tx'[t].rev \in Nat,
         \A x \in Runs : x # q \/ proc[q].job # "reserve" => run'[x].rev = run[x].rev
  PROVE  /\ Control(q) /\ RequestOK(q)' /\ proc'[q].job = proc[q].job
         /\ proc'[q].pc \in {"fail", "done"} /\ proc'[q].t = proc[q].t
  <1>0. TypeOK /\ RequestOK(q) /\ proc[q] \in Request
    BY DEF TransactionsInv, SessionInv, TypeOK, Request
  <1>1. /\ Control(q) /\ Same(q)
        /\ proc'[q].pc = IF proc[q].job = "run" THEN "fail" ELSE "done"
    BY <1>0, LeaveControl DEF Raise, Steps
  <1>2. proc'[q].pc \in {"fail", "done"}
    BY <1>1
  <1>3. RoleOK(q)'
    BY <1>0, <1>1, Zenon DEF RequestOK, RoleOK, Same
  <1>4. CASE proc[q].job # "run"
    BY <1>1, <1>3, <1>4, Zenon DEF RequestOK, Evicting, LockedSteps, ExpirySteps, Same
  <1>5. CASE proc[q].job = "run"
    <2>1. /\ proc'[q].pc = "fail" /\ q \in Runs /\ run'[q].rev = run[q].rev
          /\ proc[q].t \in Txs /\ tx[proc[q].t].status # "none"
          /\ run[q].rev < tx[proc[q].t].rev
      BY <1>0, <1>1, <1>5, Zenon DEF RequestOK, RoleOK
    <2>2. /\ run[q].rev \in Nat /\ tx[proc[q].t].rev \in Nat /\ tx'[proc[q].t].rev \in Nat
          /\ Ages(proc[q].t)
      BY <1>0, <2>1 DEF TypeOK
    <2>3. tx'[proc[q].t].status # "none" /\ run'[q].rev < tx'[proc[q].t].rev
      BY <2>1, <2>2, Later DEF Ages
    <2> QED
      BY <1>1, <1>3, <1>5, <2>1, <2>3, Zenon DEF RequestOK, Evicting, LockedSteps, ExpirySteps, Same
  <1> QED BY <1>1, <1>2, <1>4, <1>5 DEF Same

\* A step that only raises an error.
LEMMA QuietRaise ==
  ASSUME TransactionsInv, NEW q \in Procs, Raise(q), Quiet(q),
         proc[q].pc \notin {"idle", "done", "insert", "undo", "close", "uncertain", "drop",
                            "receipt", "dropfail"},
         proc[q].job # "close" \/ proc[q].pc \notin {"lock", "check"}
  PROVE  TransactionsInv'
  <1>1. /\ \A t \in Txs : tx[t].status # "none" => Ages(t) /\ tx'[t].rev \in Nat
        /\ \A x \in Runs : x # q \/ proc[q].job # "reserve" => run'[x].rev = run[x].rev
    BY DEF Quiet, Ages
  <1>2. /\ Control(q) /\ RequestOK(q)' /\ proc'[q].job = proc[q].job
        /\ proc'[q].pc \in {"fail", "done"}
    BY <1>1, RaiseOK
  <1> QED
    BY <1>2, QuietStep

-----------------------------------------------------------------------------
(* The steps that answer for nothing *)

\* What the inductive invariant says of each request and each transaction.
LEMMA Known ==
  ASSUME TransactionsInv
  PROVE  /\ TypeOK /\ proc \in [Procs -> Request]
         /\ \A p \in Procs : RequestOK(p) /\ RoleOK(p) /\ proc[p] \in Request
         /\ \A t \in Txs : CreationOK(t)
         /\ \A t \in active : t \in Txs /\ tx[t].status # "none"
  <1>1. TypeOK /\ proc \in [Procs -> Request]
    BY DEF TransactionsInv, SessionInv, TypeOK, Request
  <1>2. \A p \in Procs : RequestOK(p) /\ RoleOK(p) /\ proc[p] \in Request
    BY <1>1, Zenon DEF TransactionsInv, RequestOK
  <1>3. \A t \in Txs : CreationOK(t)
    BY DEF TransactionsInv
  <1>4. \A t \in active : t \in Txs /\ tx[t].status # "none"
    BY <1>1, <1>3 DEF TypeOK, CreationOK
  <1> QED BY <1>1, <1>2, <1>3, <1>4

\* create_transaction looks for an existing transaction.
LEMMA BeginCreateKeeps ==
  ASSUME TransactionsInv, NEW t \in Procs, t \in Txs, BeginCreate(t)
  PROVE  TransactionsInv'
  <1>0. /\ TypeOK /\ proc[t] = NoRequest /\ proc \in [Procs -> Request]
        /\ \A u \in active : u \in Txs /\ tx[u].status # "none"
    BY Known DEF BeginCreate, RoleOK
  <1>1. \E pc \in {"open", "existing"}, u \in Txs \cup {None} :
          /\ proc' = [proc EXCEPT ![t] = [NoRequest EXCEPT !.pc = pc, !.job = "create", !.t = u]]
          /\ pc = "existing" => u \in Txs /\ tx[u].status # "none"
    <2>1. CASE proc' = [proc EXCEPT ![t].pc = "open", ![t].job = "create"]
      <3>1. proc' = [proc EXCEPT ![t] = [NoRequest EXCEPT !.pc = "open", !.job = "create",
                                                          !.t = None]]
        BY <1>0, <2>1 DEF NoRequest
      <3> QED BY <3>1, Zenon
    <2>2. ASSUME NEW u \in active,
                 proc' = [proc EXCEPT ![t].pc = "existing", ![t].job = "create", ![t].t = u]
          PROVE  proc' = [proc EXCEPT ![t] = [NoRequest EXCEPT !.pc = "existing",
                                                               !.job = "create", !.t = u]]
      BY <1>0, <2>2 DEF NoRequest
    <2> QED BY <1>0, <2>1, <2>2, Zenon DEF BeginCreate
  <1>2. ASSUME NEW pc \in {"open", "existing"}, NEW u \in Txs \cup {None},
               proc' = [proc EXCEPT ![t] = [NoRequest EXCEPT !.pc = pc, !.job = "create",
                                                             !.t = u]],
               pc = "existing" => u \in Txs /\ tx[u].status # "none"
        PROVE  TransactionsInv'
    <2>1. /\ proc' \in [Procs -> Request] /\ \A p \in Procs \ {t} : proc'[p] = proc[p]
          /\ proc'[t] = [pc |-> pc, job |-> "create", t |-> u, rev |-> 0, live |-> FALSE,
                         back |-> "raise"]
      BY <1>0, <1>2, Zenon DEF Request, NoRequest, Steps, Jobs
    <2>2. Control(t)
      BY <1>0, <2>1 DEF Control, BeginCreate, TypeOK
    <2>3. Quiet(t)
      BY QuietIdle DEF BeginCreate
    <2>a. /\ proc'[t].pc = pc /\ proc'[t].job = "create" /\ proc'[t].t = u
          /\ proc'[t].back = "raise"
      <3>1. proc'[t] = [pc |-> pc, job |-> "create", t |-> u, rev |-> 0, live |-> FALSE,
                        back |-> "raise"]
        BY <2>1
      <3> QED BY <3>1, RequestFields
    <2>b. RoleOK(t)'
      BY <2>a DEF RoleOK
    <2>4. RequestOK(t)'
      BY <1>2, <2>a, <2>b DEF RequestOK, Evicting, LockedSteps, ExpirySteps, BeginCreate
    <2>5. proc[t].pc = "idle" /\ proc[t].job = "none" /\ proc'[t].pc # "insert"
      BY <1>0, <2>1 DEF NoRequest
    <2> QED BY <2>2, <2>3, <2>4, <2>5, QuietStep
  <1> QED BY <1>1, <1>2, Zenon

\* A commit, a rollback, a poll or a reservation reads the receipt.
LEMMA BeginKeeps ==
  ASSUME TransactionsInv, NEW p \in Procs, NEW job \in Jobs, NEW t \in Txs,
         Begin(p, job, t),
         \/ p \in Runs /\ job = "reserve"
         \/ p \in Finishers /\ job \in {"commit", "rollback"}
         \/ p \in Pollers /\ job = "poll"
  PROVE  TransactionsInv'
  <1>0. TypeOK /\ proc[p] = NoRequest /\ proc \in [Procs -> Request] /\ tx[t].rev \in Nat
    BY Known, Zenon DEF Begin, RoleOK, TypeOK
  <1>1. /\ proc' \in [Procs -> Request] /\ \A x \in Procs \ {p} : proc'[x] = proc[x]
        /\ proc'[p] = [pc |-> "look", job |-> job, t |-> t, rev |-> tx[t].rev,
                       live |-> FALSE, back |-> "raise"]
    BY <1>0, Zenon DEF Begin, Request, Steps
  <1>2. Control(p)
    BY <1>0, <1>1 DEF Control, Begin, TypeOK
  <1>3. Quiet(p)
    BY QuietIdle DEF Begin
  <1>4. RequestOK(p)'
    BY <1>1, Zenon DEF RequestOK, RoleOK, Evicting, LockedSteps, ExpirySteps, Begin
  <1>5. proc[p].pc = "idle" /\ proc[p].job = "none" /\ proc'[p].pc # "insert"
    <2>1. proc'[p].pc = "look"
      <3>1. proc'[p] = [pc |-> "look", job |-> job, t |-> t, rev |-> tx[t].rev,
                        live |-> FALSE, back |-> "raise"]
        BY <1>1
      <3> QED BY <3>1, RequestFields
    <2>2. proc[p].pc = "idle" /\ proc[p].job = "none"
      BY <1>0, NoRequestFields
    <2> QED BY <2>1, <2>2
  <1> QED BY <1>2, <1>3, <1>4, <1>5, QuietStep

\* A deadline was found passed: the request goes on to expire the transaction.
LEMMA ExpireKeeps ==
  ASSUME TransactionsInv, NEW p \in Procs, Expire(p), Quiet(p), UNCHANGED tx,
         proc[p].pc \in {"existing", "look", "check"}, proc[p].job # "close", UNCHANGED run
  PROVE  TransactionsInv'
  <1>0. TypeOK /\ proc[p] \in Request /\ proc \in [Procs -> Request] /\ RequestOK(p) /\ RoleOK(p)
    BY Known
  <1>1. /\ proc' \in [Procs -> Request] /\ \A x \in Procs \ {p} : proc'[x] = proc[x]
        /\ proc'[p].pc = "expire" /\ proc'[p].back = proc[p].pc
        /\ proc'[p].job = proc[p].job /\ proc'[p].t = proc[p].t
    BY <1>0 DEF Expire, Request, Steps
  <1>2. Control(p) /\ lock' = lock
    BY <1>0, <1>1 DEF Control, Expire, KeepLocks, TypeOK
  <1>3. RoleOK(p)'
    <2>1. proc[p].job \in Jobs
      BY <1>0 DEF Request
    <2> QED BY <1>0, <1>1, <2>1 DEF RoleOK, ExpirySteps, Jobs
  <1>4. RequestOK(p)'
    BY <1>0, <1>1, <1>2, <1>3, Zenon DEF RequestOK, Evicting, LockedSteps, ExpirySteps
  <1> QED BY <1>1, <1>2, <1>4, QuietStep

\* A request that ends.
Ends(q) == Leave(q, "done") \/ (Goto(q, "done") /\ KeepLocks)

\* A request that is done relies on nothing.
LEMMA DoneOK ==
  ASSUME TransactionsInv, NEW q \in Procs, proc[q].pc # "idle",
         Ends(q)
  PROVE  /\ Control(q) /\ RequestOK(q)' /\ proc'[q].job = proc[q].job
         /\ proc'[q].pc = "done" /\ proc'[q].t = proc[q].t
  <1>0. TypeOK /\ RoleOK(q) /\ "done" \in Steps
    BY Known DEF Steps
  <1>1. Control(q) /\ Same(q) /\ proc'[q].pc = "done"
    BY <1>0, LeaveControl, GotoControl DEF Ends
  <1>2. RoleOK(q)'
    BY <1>0, <1>1 DEF RoleOK, Same
  <1> QED
    BY <1>1, <1>2, Zenon DEF RequestOK, Evicting, LockedSteps, ExpirySteps, Same

\* A step that only ends its request.
LEMMA QuietDone ==
  ASSUME TransactionsInv, NEW q \in Procs, Ends(q),
         Quiet(q),
         proc[q].pc \notin {"idle", "done", "insert", "undo", "close", "uncertain", "drop",
                            "receipt", "dropfail"},
         proc[q].job # "close" \/ proc[q].pc \notin {"lock", "check"}
  PROVE  TransactionsInv'
  BY DoneOK, QuietStep

\* create_transaction refuses a second transaction, or goes on.
LEMMA ExistingKeeps ==
  ASSUME TransactionsInv, NEW p \in Procs, Existing(p)
  PROVE  TransactionsInv'
  <1>0. /\ TypeOK /\ RequestOK(p) /\ RoleOK(p) /\ proc[p].pc = "existing"
        /\ proc[p].job = "create" /\ "open" \in Steps
    BY Known DEF Existing, RoleOK, Steps
  <1>1. Quiet(p) /\ UNCHANGED <<tx, run>>
    BY QuietIdle DEF Existing
  <1>2. CASE Expire(p)
    BY <1>0, <1>1, <1>2, ExpireKeeps
  <1>3. CASE Leave(p, "done")
    <2>1. /\ proc[p].pc \notin {"idle", "done", "insert", "undo", "close", "uncertain", "drop",
                               "receipt", "dropfail"}
          /\ proc[p].job # "close"
      BY <1>0
    <2>2. Ends(p)
      BY <1>3 DEF Ends
    <2> QED BY <1>1, <2>1, <2>2, QuietDone
  <1>4. CASE Goto(p, "open") /\ KeepLocks
    <2>1. Control(p) /\ Same(p) /\ proc'[p].pc = "open"
      BY <1>0, <1>4, GotoControl
    <2>2. RoleOK(p)'
      BY <1>0, <2>1, Zenon DEF RoleOK, Same
    <2>3. RequestOK(p)'
      BY <1>0, <2>1, <2>2, Zenon DEF RequestOK, Evicting, LockedSteps, ExpirySteps, Same
    <2> QED BY <1>0, <1>1, <2>1, <2>3, QuietStep DEF Same
  <1>5. CASE Raise(p)
    BY <1>0, <1>1, <1>5, QuietRaise
  <1> QED
    BY <1>2, <1>3, <1>4, <1>5 DEF Existing

\* _session reads the receipt and expires it when it is due.
LEMMA LookKeeps ==
  ASSUME TransactionsInv, NEW p \in Procs, Look(p)
  PROVE  TransactionsInv'
  <1>0. /\ TypeOK /\ RequestOK(p) /\ RoleOK(p) /\ proc[p].pc = "look"
        /\ proc[p].job \notin {"none", "create", "close"}
        /\ proc[p] \in Request /\ proc \in [Procs -> Request]
    BY Known DEF Look, RoleOK, ExpirySteps
  <1>1. Quiet(p) /\ UNCHANGED <<tx, run>>
    BY QuietIdle DEF Look
  <1>2. CASE Expire(p)
    BY <1>0, <1>1, <1>2, ExpireKeeps
  <1>3. CASE Leave(p, "done")
    <2>1. /\ proc[p].pc \notin {"idle", "done", "insert", "undo", "close", "uncertain", "drop",
                               "receipt", "dropfail"}
          /\ proc[p].job # "close"
      BY <1>0
    <2>2. Ends(p)
      BY <1>3 DEF Ends
    <2> QED BY <1>1, <2>1, <2>2, QuietDone
  <1>4. CASE /\ proc[p].job # "poll"
             /\ proc' = [proc EXCEPT ![p].pc = "find", ![p].back = "raise",
                                     ![p].live = tx[proc[p].t].status \in Live]
             /\ KeepLocks
    <2>1. /\ proc' \in [Procs -> Request] /\ \A x \in Procs \ {p} : proc'[x] = proc[x]
          /\ proc'[p].pc = "find" /\ proc'[p].back = "raise" /\ proc'[p].job = proc[p].job
          /\ proc'[p].t = proc[p].t
      <3> DEFINE live == tx[proc[p].t].status \in Live
      <3>1. live \in BOOLEAN /\ "find" \in Steps
        BY DEF Steps
      <3>2. proc' = [proc EXCEPT ![p] = [proc[p] EXCEPT !.pc = "find", !.back = "raise",
                                                       !.live = live]]
        BY <1>0, <1>4, Zenon
      <3> HIDE DEF live
      <3> QED BY <1>0, <3>1, <3>2, Zenon DEF Request
    <2>2. Control(p)
      BY <1>0, <1>4, <2>1 DEF Control, KeepLocks, TypeOK
    <2>3. RoleOK(p)'
      BY <1>0, <1>4, <2>1 DEF RoleOK
    <2>4. RequestOK(p)'
      BY <1>0, <1>1, <2>1, <2>3, Zenon DEF RequestOK, Evicting, LockedSteps, ExpirySteps
    <2> QED BY <1>0, <1>1, <2>1, <2>2, <2>4, QuietStep
  <1>5. CASE Raise(p)
    BY <1>0, <1>1, <1>5, QuietRaise
  <1> QED
    BY <1>2, <1>3, <1>4, <1>5 DEF Look

\* A request goes on at another step of its own.
LEMMA QuietGoto ==
  ASSUME TransactionsInv, NEW p \in Procs, NEW pc \in Steps \ {"idle", "insert"},
         Goto(p, pc), KeepLocks, Quiet(p),
         proc[p].pc \notin {"idle", "done", "insert", "undo", "close", "uncertain", "drop",
                            "receipt", "dropfail"},
         proc[p].job # "close" \/ proc[p].pc \notin {"lock", "check"},
         proc'[p].pc = pc /\ Same(p) => RequestOK(p)'
  PROVE  TransactionsInv'
  <1>1. Control(p) /\ Same(p) /\ proc'[p].pc = pc
    BY Known, GotoControl
  <1> QED BY <1>1, QuietStep DEF Same

\* Steps that rely on little.
LEMMA PlainOK ==
  ASSUME NEW p \in Procs, RoleOK(p)', proc'[p].t \in Txs, tx'[proc'[p].t].status # "none",
         proc'[p].pc \in {"existing", "look", "find", "lock", "fail", "failtx", "expire",
                         "unlist"},
         proc'[p].pc = "lock" => proc'[p].job # "close",
         proc'[p].pc \in {"expire", "unlist"} /\ proc'[p].back = "check" =>
             lock'[proc'[p].t] = p,
         proc'[p].job = "run" => run'[p].rev < tx'[proc'[p].t].rev
  PROVE  RequestOK(p)'
  BY Zenon DEF RequestOK, Evicting, LockedSteps, ExpirySteps

\* _session looks for the session in the registry.
LEMMA FindKeeps ==
  ASSUME TransactionsInv, NEW p \in Procs, Find(p)
  PROVE  TransactionsInv'
  <1>0. /\ TypeOK /\ RequestOK(p) /\ RoleOK(p) /\ proc[p].pc = "find"
        /\ proc[p].job \notin {"none", "create", "poll", "close"}
        /\ proc[p].t \in Txs /\ tx[proc[p].t].status # "none"
        /\ {"lock", "unlist"} \subseteq Steps \ {"idle", "insert"}
    BY Known, Zenon DEF Find, RoleOK, RequestOK, ExpirySteps, Steps
  <1>1. CASE Raise(p)
    <2>1. Quiet(p)
      <3>1. CASE proc[p].t \notin active
        BY <1>0, <3>1, QuietExpiry DEF Find
      <3>2. CASE proc[p].t \in active
        BY <1>0, <3>2, QuietIdle DEF Find
      <3> QED BY <3>1, <3>2
    <2> QED BY <1>0, <1>1, <2>1, QuietRaise, Zenon
  <1>2. CASE proc[p].t \in active
    <2>1. Quiet(p) /\ UNCHANGED <<tx, run, lock>> /\ KeepLocks
      BY <1>0, <1>2, QuietIdle, Zenon DEF Find, KeepLocks
    <2>2. ASSUME NEW pc \in {"lock", "unlist"}, proc'[p].pc = pc, Same(p)
          PROVE  RequestOK(p)'
      <3>1. RoleOK(p)'
        BY <1>0, <2>2, Zenon DEF RoleOK, Same
      <3>2. /\ proc'[p].t \in Txs /\ tx'[proc'[p].t].status # "none"
            /\ proc'[p].back = "check" /\ pc = "unlist" => lock'[proc'[p].t] = p
            /\ proc'[p].job = "run" => run'[p].rev < tx'[proc'[p].t].rev
            /\ proc'[p].job # "close"
        BY <1>0, <2>1, <2>2, Zenon DEF RequestOK, RoleOK, Same
      <3> QED
        BY <2>2, <3>1, <3>2, PlainOK, Zenon
    <2>3. CASE Goto(p, "lock")
      BY <1>0, <2>1, <2>2, <2>3, QuietGoto, Zenon
    <2>4. CASE Goto(p, "unlist")
      BY <1>0, <2>1, <2>2, <2>4, QuietGoto
    <2> QED BY <1>2, <2>3, <2>4 DEF Find
  <1> QED
    BY <1>1, <1>2, Zenon DEF Find

\* After an expiry the record is read again, or the request is refused.
LEMMA AfterExpiryKeeps ==
  ASSUME TransactionsInv, NEW p \in Procs, AfterExpiry(p), Quiet(p), UNCHANGED run,
         proc[p].pc \in {"expire", "expired"}
  PROVE  TransactionsInv'
  <1>0. /\ TypeOK /\ RequestOK(p) /\ RoleOK(p) /\ proc[p] \in Request
        /\ proc[p].t \in Txs /\ tx[proc[p].t].status # "none"
    BY Known, Zenon DEF RequestOK
  <1>1. CASE Raise(p)
    BY <1>0, <1>1, QuietRaise, Zenon
  <1>2. CASE proc[p].back # "raise" /\ Goto(p, proc[p].back) /\ KeepLocks
    <2>1. proc[p].back \in {"existing", "look", "check"} /\ proc[p].back \in Steps \ {"idle", "insert"}
      BY <1>0, <1>2, Zenon DEF Request, Steps
    <2>2. /\ tx'[proc[p].t].status # "none" /\ lock' = lock /\ active' = active
          /\ Ages(proc[p].t) /\ tx[proc[p].t].rev \in Nat /\ tx'[proc[p].t].rev \in Nat
      BY <1>0, <1>2 DEF Quiet, Ages, KeepLocks, TypeOK
    <2>3. ASSUME proc'[p].pc = proc[p].back, Same(p)
          PROVE  RequestOK(p)'
      <3>1. RoleOK(p)'
        BY <1>0, <2>1, <2>3, Zenon DEF RoleOK, Same, ExpirySteps
      <3>2. proc[p].back = "check" => lock[proc[p].t] = p /\ proc[p].job # "close"
        BY <1>0, Zenon DEF RequestOK, RoleOK, ExpirySteps
      <3>3. proc[p].job = "run" => run[p].rev < tx'[proc[p].t].rev
        <4> SUFFICES ASSUME proc[p].job = "run" PROVE run[p].rev < tx'[proc[p].t].rev
          BY Zenon
        <4>1. p \in Runs /\ run[p].rev < tx[proc[p].t].rev /\ run[p].rev \in Nat
          BY <1>0, Zenon DEF RequestOK, RoleOK, TypeOK
        <4> QED BY <1>0, <2>2, <4>1, Later, Zenon
      <3>4. proc[p].back = "look" => proc[p].job # "close"
        BY <1>0, Zenon DEF RoleOK
      <3> QED
        BY <1>0, <2>1, <2>2, <2>3, <3>1, <3>2, <3>3, <3>4, Zenon
        DEF RequestOK, Evicting, LockedSteps, ExpirySteps, Same
    <2> QED BY <1>0, <1>2, <2>1, <2>3, QuietGoto, Zenon
  <1> QED
    BY <1>1, <1>2 DEF AfterExpiry

\* _transaction_record looks for the session of an expired receipt.
LEMMA ExpireLookupKeeps ==
  ASSUME TransactionsInv, NEW p \in Procs, ExpireLookup(p)
  PROVE  TransactionsInv'
  <1>0. /\ TypeOK /\ RequestOK(p) /\ RoleOK(p) /\ proc[p].pc = "expire"
        /\ proc[p].t \in Txs /\ tx[proc[p].t].status # "none"
        /\ "unlist" \in Steps \ {"idle", "insert"}
    BY Known, Zenon DEF ExpireLookup, RequestOK, Steps
  <1>1. CASE proc[p].t \in active
    <2>1. Quiet(p) /\ UNCHANGED <<tx, run, lock>> /\ KeepLocks /\ Goto(p, "unlist")
      BY <1>0, <1>1, QuietIdle, Zenon DEF ExpireLookup, KeepLocks
    <2>2. ASSUME proc'[p].pc = "unlist", Same(p)
          PROVE  RequestOK(p)'
      <3>1. RoleOK(p)'
        BY <1>0, <2>2, Zenon DEF RoleOK, Same, ExpirySteps
      <3> QED
        BY <1>0, <2>1, <2>2, <3>1, Zenon DEF RequestOK, Evicting, LockedSteps, ExpirySteps, Same
    <2> QED BY <1>0, <2>1, <2>2, QuietGoto, Zenon
  <1>2. CASE proc[p].t \notin active
    <2>1. Quiet(p) /\ UNCHANGED run /\ (AfterExpiry(p) \/ Raise(p))
      BY <1>0, <1>2, QuietExpiry, Zenon DEF ExpireLookup
    <2>2. CASE AfterExpiry(p)
      BY <1>0, <2>1, <2>2, AfterExpiryKeeps
    <2>3. CASE Raise(p)
      BY <1>0, <2>1, <2>3, QuietRaise
    <2> QED BY <2>1, <2>2, <2>3
  <1> QED BY <1>1, <1>2

\* expire_transaction saves that the transaction expired.
LEMMA ExpireReceiptKeeps ==
  ASSUME TransactionsInv, NEW p \in Procs, ExpireReceipt(p)
  PROVE  TransactionsInv'
  <1>0. /\ proc[p].pc = "expired" /\ proc[p].t \in Txs /\ proc[p].t \notin active
    BY Known, Zenon DEF ExpireReceipt, RequestOK, Evicting
  <1>1. Quiet(p) /\ UNCHANGED run
    BY <1>0, QuietExpiry, Zenon DEF ExpireReceipt
  <1> QED
    BY <1>0, <1>1, AfterExpiryKeeps DEF ExpireReceipt

\* A request takes the session lock.
LEMMA TakeLockKeeps ==
  ASSUME TransactionsInv, NEW p \in Procs, TakeLock(p)
  PROVE  TransactionsInv'
  <1>0. /\ TypeOK /\ RequestOK(p) /\ RoleOK(p) /\ proc[p].pc = "lock"
        /\ proc[p] \in Request /\ proc \in [Procs -> Request]
        /\ proc[p].t \in Txs /\ tx[proc[p].t].status # "none"
    BY Known, Zenon DEF TakeLock, RequestOK
  <1>1. Quiet(p) /\ UNCHANGED <<tx, run, active>>
    BY QuietIdle, Zenon DEF TakeLock
  <1>2. /\ proc' \in [Procs -> Request] /\ \A x \in Procs \ {p} : proc'[x] = proc[x]
        /\ proc'[p].pc = "check" /\ Same(p)
    BY <1>0 DEF TakeLock, Goto, Request, Steps, Same
  <1>3. Control(p) /\ lock'[proc[p].t] = p
    BY <1>0, <1>2 DEF Control, TakeLock, TypeOK
  <1>4. RoleOK(p)'
    BY <1>0, <1>2 DEF RoleOK, Same, ExpirySteps
  <1>5. RequestOK(p)'
    <2>1. /\ proc[p].t \in Txs /\ tx[proc[p].t].status # "none"
          /\ proc[p].job = "run" => run[p].rev < tx[proc[p].t].rev
          /\ proc[p].job = "close" => proc[p].t \notin active
      BY <1>0, Zenon DEF RequestOK, Evicting
    <2> QED
      BY <1>1, <1>2, <1>3, <1>4, <2>1, Zenon DEF RequestOK, Evicting, LockedSteps, ExpirySteps, Same
  <1>6. \A t \in Txs : Owner(p, t) => Owner(p, t)'
    BY <1>0, <1>2 DEF Owner, Same
  <1> QED
    BY <1>0, <1>1, <1>2, <1>3, <1>5, <1>6, QuietOwner DEF Same

\* Steps under the lock that rely on the receipt.
LEMMA CheckedOK ==
  ASSUME TransactionsInv, NEW p \in Procs, proc[p].pc = "check", Same(p),
         UNCHANGED <<tx, run, lock, active, wrote>>,
         \/ proc'[p].pc = "undo" /\ proc[p].job = "close"
         \/ proc'[p].pc = "store" /\ proc[p].job = "reserve"
         \/ proc'[p].pc = "execute" /\ proc[p].job = "run"
         \/ /\ proc'[p].pc = "finish" /\ tx[proc[p].t].rev = proc[p].rev
            /\ \/ proc[p].job = "commit" /\ tx[proc[p].t].status = "open"
               \/ proc[p].job = "rollback"
  PROVE  RequestOK(p)'
  <1>0. /\ TypeOK /\ RequestOK(p) /\ RoleOK(p) /\ proc[p] \in Request
        /\ proc[p].t \in Txs /\ tx[proc[p].t].status # "none" /\ lock[proc[p].t] = p
        /\ tx[proc[p].t].rev \in Nat /\ proc[p].rev \in Nat
        /\ \A x \in wrote[proc[p].t] : run[x].rev < tx[proc[p].t].rev
    BY Known, Zenon DEF RequestOK, LockedSteps, TransactionsInv, TypeOK, Request
  <1>1. RoleOK(p)'
    BY <1>0, Zenon DEF RoleOK, Same, ExpirySteps
  <1>2. CASE proc'[p].pc = "undo" /\ proc[p].job = "close"
    BY <1>0, <1>1, <1>2, Zenon DEF RequestOK, Evicting, LockedSteps, ExpirySteps, Same
  <1>3. CASE proc'[p].pc = "store" /\ proc[p].job = "reserve"
    BY <1>0, <1>1, <1>3, Zenon DEF RequestOK, Evicting, LockedSteps, ExpirySteps, Same
  <1>4. CASE proc'[p].pc = "execute" /\ proc[p].job = "run"
    BY <1>0, <1>1, <1>4, Zenon DEF RequestOK, Evicting, LockedSteps, ExpirySteps, Same
  <1>5. CASE /\ proc'[p].pc = "finish" /\ tx[proc[p].t].rev = proc[p].rev
             /\ \/ proc[p].job = "commit" /\ tx[proc[p].t].status = "open"
                \/ proc[p].job = "rollback"
    <2>1. /\ \A x \in wrote'[proc[p].t] : run'[x].rev < proc[p].rev
      BY <1>0, <1>5, Zenon
    <2>2. tx[proc[p].t].rev >= proc[p].rev
      <3>1. tx[proc[p].t].rev = proc[p].rev /\ proc[p].rev \in Nat
        BY <1>0, <1>5
      <3> QED BY <3>1, AtLeastItself, Zenon
    <2> QED
      BY <1>0, <1>1, <1>5, <2>1, <2>2, Zenon DEF RequestOK, Evicting, LockedSteps, ExpirySteps, Same
  <1> QED BY <1>2, <1>3, <1>4, <1>5

\* Under the lock the receipt is read again and compared.
LEMMA CheckKeeps ==
  ASSUME TransactionsInv, NEW p \in Procs, Check(p)
  PROVE  TransactionsInv'
  <1>0. /\ TypeOK /\ RequestOK(p) /\ RoleOK(p) /\ proc[p].pc = "check"
        /\ proc[p].t \in Txs /\ proc[p].job \in {"close", "reserve", "run", "commit", "rollback"}
        /\ {"undo", "store", "execute", "finish"} \subseteq Steps \ {"idle", "insert"}
    <2>1. TypeOK /\ RequestOK(p) /\ RoleOK(p) /\ proc[p].pc = "check" /\ proc[p].job \in Jobs
      BY Known DEF Check, Request
    <2>2. proc[p].job \in {"close", "reserve", "run", "commit", "rollback"}
      BY <2>1 DEF RoleOK, ExpirySteps, Jobs
    <2>3. proc[p].t \in Txs
      BY <2>1, Zenon DEF RequestOK
    <2> QED BY <2>1, <2>2, <2>3 DEF Steps
  <1>1. Quiet(p) /\ UNCHANGED <<tx, run, active, wrote>>
    BY QuietIdle DEF Check
  <1>2. CASE proc[p].job # "close" /\ Expire(p)
    BY <1>0, <1>1, <1>2, ExpireKeeps, Zenon
  <1>3. CASE proc[p].job # "close" /\ Raise(p)
    BY <1>0, <1>1, <1>3, QuietRaise
  <1>4. ASSUME NEW pc \in {"undo", "store", "execute", "finish"}, Goto(p, pc), KeepLocks,
               \/ pc = "undo" /\ proc[p].job = "close"
               \/ pc = "store" /\ proc[p].job = "reserve"
               \/ pc = "execute" /\ proc[p].job = "run"
               \/ /\ pc = "finish" /\ tx[proc[p].t].rev = proc[p].rev
                  /\ \/ proc[p].job = "commit" /\ tx[proc[p].t].status = "open"
                     \/ proc[p].job = "rollback"
        PROVE  TransactionsInv'
    <2>1. Control(p) /\ Same(p) /\ proc'[p].pc = pc /\ lock' = lock
      BY <1>0, <1>4, GotoControl
    <2>2. RequestOK(p)'
      BY <1>0, <1>1, <1>4, <2>1, CheckedOK, Zenon
    <2>3. \A t \in Txs : Owner(p, t) => Owner(p, t)'
      BY <1>0, <1>4, <2>1, Zenon DEF Owner, Same
    <2> QED
      BY <1>0, <1>1, <1>4, <2>1, <2>2, <2>3, QuietOwner, Zenon DEF Same
  <1>5. \/ proc[p].job # "close" /\ Expire(p)
        \/ proc[p].job # "close" /\ Raise(p)
        \/ /\ KeepLocks
           /\ \/ Goto(p, "undo") /\ proc[p].job = "close"
              \/ Goto(p, "store") /\ proc[p].job = "reserve"
              \/ Goto(p, "execute") /\ proc[p].job = "run"
              \/ /\ Goto(p, "finish") /\ tx[proc[p].t].rev = proc[p].rev
                 /\ \/ proc[p].job = "commit" /\ tx[proc[p].t].status = "open"
                    \/ proc[p].job = "rollback"
    BY <1>0 DEF Check
  <1> QED
    BY <1>2, <1>3, <1>4, <1>5

\* reserve saves an execution and the next revision of the receipt.
LEMMA StoreReservationKeeps ==
  ASSUME TransactionsInv, NEW p \in Procs, StoreReservation(p)
  PROVE  TransactionsInv'
  <1> DEFINE t == proc[p].t
             reserved == [tx EXCEPT ![t].rev = @ + 1]
             receipt == [run EXCEPT ![p] = [status |-> "reserved", rev |-> proc[p].rev]]
  <1>0. /\ TypeOK /\ RequestOK(p) /\ RoleOK(p) /\ proc[p].pc = "store"
        /\ proc[p].job = "reserve" /\ p \in Runs /\ t \in Txs /\ tx[t].status # "none"
        /\ tx[t] \in [status : {"none", "open", "failed", "committed", "rolled_back",
                                "uncertain", "expired"}, rev : Nat]
        /\ proc[p].rev \in Nat /\ lock[t] = p
        /\ proc[p] \in Request /\ proc \in [Procs -> Request]
    <2>1. TypeOK /\ RequestOK(p) /\ RoleOK(p) /\ proc[p].pc = "store" /\ proc[p] \in Request
      BY Known DEF StoreReservation
    <2>2. t \in Txs /\ tx[t].status # "none" /\ lock[t] = p
      BY <2>1, Zenon DEF RequestOK, LockedSteps
    <2>3. proc[p].job = "reserve" /\ p \in Runs
      BY <2>1 DEF RoleOK
    <2> QED BY <2>1, <2>2, <2>3, Known DEF TypeOK, Request
  <1>1. CASE UNCHANGED <<tx, run>>
    <2>1. Quiet(p)
      BY <1>1, QuietIdle DEF StoreReservation
    <2>2. CASE Raise(p)
      BY <1>0, <2>1, <2>2, QuietRaise
    <2>3. CASE /\ proc' = [proc EXCEPT ![p].pc = "unlist", ![p].back = "raise"]
               /\ KeepLocks
      <3>1. /\ proc' \in [Procs -> Request] /\ \A x \in Procs \ {p} : proc'[x] = proc[x]
            /\ proc'[p].pc = "unlist" /\ proc'[p].back = "raise"
            /\ proc'[p].job = "reserve" /\ proc'[p].t = proc[p].t
        BY <1>0, <2>3, Zenon DEF Request, Steps
      <3>2. Control(p)
        BY <1>0, <2>3, <3>1 DEF Control, KeepLocks, TypeOK
      <3>3. RoleOK(p)'
        BY <1>0, <3>1, Zenon DEF RoleOK
      <3>4. RequestOK(p)'
        BY <1>0, <1>1, <3>1, <3>3, PlainOK
      <3> QED BY <1>0, <2>1, <3>1, <3>2, <3>4, QuietStep
    <2>4. CASE /\ tx[t] = [status |-> "open", rev |-> proc[p].rev]
               /\ tx' = reserved
      <3>1. tx'[t].rev = tx[t].rev + 1 /\ tx[t].rev \in Nat
        BY <1>0, <2>4, ReceiptPut, ZenonT(40), SMTT(15) DEF TypeOK
      <3>2. tx'[t].rev = tx[t].rev
        BY <1>1
      <3> QED BY <3>1, <3>2
    <2> QED BY <2>2, <2>3, <2>4 DEF StoreReservation
  <1>2. CASE /\ tx[t] = [status |-> "open", rev |-> proc[p].rev]
             /\ tx' = reserved /\ run' = receipt
             /\ UNCHANGED events \/ Fault
    <2>1. /\ tx[t].status = "open" /\ tx'[t].status = "open" /\ tx[t].rev = proc[p].rev
          /\ tx'[t].rev = tx[t].rev + 1 /\ tx[t].rev \in Nat
          /\ \A u \in Txs \ {t} : tx'[u] = tx[u]
          /\ tx' \in [Txs -> [status : {"none", "open", "failed", "committed", "rolled_back",
                                        "uncertain", "expired"}, rev : Nat]]
      BY <1>0, <1>2 DEF TypeOK
    <2>2. /\ run' \in [Runs -> [status : {"none", "reserved", "running", "succeeded", "failed",
                                          "cancelled"}, rev : Nat]]
          /\ \A x \in Runs \ {p} : run'[x] = run[x]
          /\ run'[p].rev = proc[p].rev
      <3> DEFINE new == [status |-> "reserved", rev |-> proc[p].rev]
      <3>1. /\ run \in [Runs -> [status : {"none", "reserved", "running", "succeeded", "failed",
                                           "cancelled"}, rev : Nat]]
            /\ p \in Runs /\ run' = [run EXCEPT ![p] = new]
        BY <1>0, <1>2 DEF TypeOK
      <3>2. /\ new \in [status : {"none", "reserved", "running", "succeeded", "failed",
                                  "cancelled"}, rev : Nat]
            /\ new.rev = proc[p].rev
        BY <1>0
      <3> HIDE DEF new
      <3> QED BY <3>1, <3>2
    <2>3. Ages(t)
      BY <2>1 DEF Ages, Live
    <2>4. Quiet(p)
      <3> HIDE DEF t, reserved, receipt
      <3>1. /\ UNCHANGED <<active, pg, wrote, lapsed>> /\ lapsed \subseteq Txs
            /\ events' \in [left : Nat, unsaved : BOOLEAN] /\ (events.unsaved => events'.unsaved)
        BY <1>0, <1>2, EventFacts DEF StoreReservation, TypeOK
      <3>2. /\ \A x \in Runs : x # p => run'[x].rev = run[x].rev
            /\ \A u \in Txs : \/ tx'[u] = tx[u]
                              \/ Ages(u) /\ tx'[u].status = "open"
        BY <2>1, <2>2, <2>3
      <3> QED
        BY <1>0, <2>1, <2>2, <3>1, <3>2 DEF Quiet, Live
    <2>5. CASE Leave(p, "ready")
      <3>1. Control(p) /\ Same(p) /\ proc'[p].pc = "ready"
        BY <1>0, <2>5, LeaveControl, Zenon DEF Steps
      <3>2. RoleOK(p)'
        BY <1>0, <3>1, Zenon DEF RoleOK, Same
      <3>3. run'[p].rev < tx'[t].rev
        <4> HIDE DEF t, reserved, receipt
        <4>1. /\ run'[p].rev = tx[t].rev /\ tx[t].rev \in Nat
              /\ tx'[t].rev = tx[t].rev + 1
          BY <2>1, <2>2
        <4> QED BY <4>1, BehindTheNext, Zenon
      <3>4. RequestOK(p)'
        BY <1>0, <2>1, <3>1, <3>2, <3>3, Zenon DEF RequestOK, Evicting, LockedSteps, ExpirySteps, Same
      <3> QED BY <1>0, <2>4, <3>1, <3>4, QuietStep, Zenon DEF Same
    <2>6. CASE Raise(p)
      BY <1>0, <2>4, <2>6, QuietRaise
    <2> QED BY <1>1, <2>5, <2>6 DEF StoreReservation
  <1> QED
    BY <1>1, <1>2 DEF StoreReservation

\* A step of a run that only changes the status of its execution.
LEMMA QuietRun ==
  ASSUME TransactionsInv, NEW p \in Runs, UNCHANGED events \/ Event \/ Fault,
         NEW s \in {"none", "reserved", "running", "succeeded", "failed", "cancelled"},
         run' = [run EXCEPT ![p].status = s], UNCHANGED <<tx, active, pg, wrote, lapsed>>
  PROVE  Quiet(p) /\ run'[p].rev = run[p].rev
  <1>0. TypeOK
    BY Known
  <1>1. /\ run' \in [Runs -> [status : {"none", "reserved", "running", "succeeded", "failed",
                                        "cancelled"}, rev : Nat]]
        /\ \A x \in Runs : run'[x].rev = run[x].rev
    BY <1>0 DEF TypeOK
  <1> QED BY <1>0, <1>1, EventFacts DEF Quiet, TypeOK

\* run_transaction claims the execution that was reserved.
LEMMA ClaimRunKeeps ==
  ASSUME TransactionsInv, NEW p \in Procs, ClaimRun(p)
  PROVE  TransactionsInv'
  <1>0. /\ TypeOK /\ RequestOK(p) /\ RoleOK(p) /\ proc[p].pc = "ready"
        /\ proc[p] \in Request /\ proc \in [Procs -> Request]
    BY Known DEF ClaimRun
  <1>1. /\ proc[p].job = "reserve" /\ p \in Runs /\ proc[p].t \in Txs
        /\ tx[proc[p].t].status # "none" /\ run[p].rev < tx[proc[p].t].rev
    BY <1>0, Zenon DEF RequestOK, RoleOK
  <1>2. Quiet(p) /\ run'[p].rev = run[p].rev
    BY <1>1, QuietRun DEF ClaimRun
  <1>3. CASE Goto(p, "done")
    <2>1. Ends(p)
      BY <1>3 DEF Ends, KeepLocks, ClaimRun
    <2> QED BY <1>0, <1>1, <1>2, <2>1, QuietDone, Zenon
  <1>4. CASE proc' = [proc EXCEPT ![p].pc = "look", ![p].job = "run"]
    <2>1. /\ proc' \in [Procs -> Request] /\ \A x \in Procs \ {p} : proc'[x] = proc[x]
          /\ proc'[p].pc = "look" /\ proc'[p].back = proc[p].back
          /\ proc'[p].job = "run" /\ proc'[p].t = proc[p].t
      BY <1>0, <1>4, Zenon DEF Request, Steps, Jobs
    <2>2. Control(p)
      BY <1>0, <2>1 DEF Control, ClaimRun, TypeOK
    <2>3. RoleOK(p)'
      BY <1>0, <1>1, <2>1, Zenon DEF RoleOK
    <2>4. RequestOK(p)'
      BY <1>1, <1>2, <2>1, <2>3, PlainOK DEF ClaimRun
    <2> QED BY <1>0, <1>1, <1>2, <2>1, <2>2, <2>4, QuietStep
  <1> QED BY <1>3, <1>4 DEF ClaimRun

\* run_transaction records a result.
LEMMA SucceedKeeps ==
  ASSUME TransactionsInv, NEW p \in Procs, Succeed(p)
  PROVE  TransactionsInv'
  <1>0. /\ RoleOK(p) /\ proc[p].pc = "succeed" /\ proc[p].job = "run" /\ p \in Runs
    BY Known DEF Succeed, RoleOK
  <1>1. Quiet(p)
    <2>1. CASE run' = run
      BY <2>1, QuietIdle DEF Succeed
    <2>2. CASE run' = [run EXCEPT ![p].status = "succeeded"]
      BY <1>0, <2>2, QuietRun, Zenon DEF Succeed
    <2> QED BY <2>1, <2>2 DEF Succeed
  <1>2. CASE Leave(p, "done")
    <2>1. Ends(p)
      BY <1>2 DEF Ends
    <2> QED BY <1>0, <1>1, <2>1, QuietDone, Zenon
  <1>3. CASE Raise(p)
    BY <1>0, <1>1, <1>3, QuietRaise
  <1> QED BY <1>2, <1>3 DEF Succeed

\* _record_run_failure records an error.
LEMMA FailRunKeeps ==
  ASSUME TransactionsInv, NEW p \in Procs, FailRun(p)
  PROVE  TransactionsInv'
  <1>0. /\ TypeOK /\ RequestOK(p) /\ RoleOK(p) /\ proc[p].pc = "fail"
        /\ proc[p].job = "run" /\ p \in Runs /\ "failtx" \in Steps \ {"idle", "insert"}
    BY Known DEF FailRun, RoleOK, Steps
  <1>1. Quiet(p) /\ run'[p].rev = run[p].rev
    <2>1. CASE run' = run
      BY <2>1, QuietIdle DEF FailRun
    <2>2. CASE run' = [run EXCEPT ![p].status = "failed"]
      BY <1>0, <2>2, QuietRun, Zenon DEF FailRun
    <2> QED BY <2>1, <2>2 DEF FailRun
  <1>2. ASSUME proc'[p].pc = "failtx", Same(p)
        PROVE  RequestOK(p)'
    <2>1. RoleOK(p)'
      BY <1>0, <1>2 DEF RoleOK, Same
    <2>2. /\ proc'[p].t \in Txs /\ tx'[proc'[p].t].status # "none"
          /\ run'[p].rev < tx'[proc'[p].t].rev
      BY <1>0, <1>1, <1>2 DEF RequestOK, Same, FailRun
    <2> QED BY <1>2, <2>1, <2>2, PlainOK
  <1> QED
    BY <1>0, <1>1, <1>2, QuietGoto DEF FailRun, KeepLocks

\* fail_transaction records that the transaction cannot be committed.
LEMMA FailTransactionKeeps ==
  ASSUME TransactionsInv, NEW p \in Procs, FailTransaction(p)
  PROVE  TransactionsInv'
  <1> DEFINE t == proc[p].t
  <1>0. /\ TypeOK /\ RequestOK(p) /\ RoleOK(p) /\ proc[p].pc = "failtx"
        /\ proc[p].job = "run" /\ t \in Txs
    BY Known, Zenon DEF FailTransaction, RoleOK, RequestOK
  <1>1. CASE tx' = tx
    <2>1. Quiet(p)
      BY <1>1, QuietIdle, Zenon DEF FailTransaction
    <2> QED
      BY <1>0, <2>1, QuietDone, Zenon DEF FailTransaction, Ends, KeepLocks
  <1>2. CASE /\ tx[t].status = "open"
             /\ tx' = [tx EXCEPT ![t] = [status |-> "failed", rev |-> @.rev + 1]]
    <2>1. /\ tx'[t].status = "failed" /\ tx'[t].rev = tx[t].rev + 1 /\ tx[t].rev \in Nat
          /\ \A u \in Txs \ {t} : tx'[u] = tx[u]
          /\ tx' \in [Txs -> [status : {"none", "open", "failed", "committed", "rolled_back",
                                        "uncertain", "expired"}, rev : Nat]]
      BY <1>0, <1>2, ReceiptPut, Zenon DEF TypeOK
    <2>2. Ages(t)
      <3>1. /\ tx[t].status = "open" /\ tx'[t].status = "failed"
            /\ tx'[t].rev = tx[t].rev + 1 /\ tx[t].rev \in Nat
        BY <1>2, <2>1
      <3> QED BY <3>1 DEF Ages, Live
    <2>3. UNCHANGED <<active, pg, wrote, run, lapsed>> /\ (UNCHANGED events \/ Fault)
      BY DEF FailTransaction
    <2>4. Quiet(p)
      <3> HIDE DEF t
      <3> QED BY <1>0, <2>1, <2>2, <2>3, EventFacts DEF Quiet, TypeOK, Live
    <2> QED
      BY <1>0, <2>4, QuietDone DEF FailTransaction, Ends, KeepLocks
  <1> QED
    BY <1>1, <1>2 DEF FailTransaction

\* Time passes for a transaction.
LEMMA LapseKeeps ==
  ASSUME TransactionsInv, NEW t \in Txs, Lapse(t)
  PROVE  TransactionsInv'
  <1>1. /\ UNCHANGED <<tx, active, registry, lock, pg, wrote, run, proc>>
        /\ lapsed' = lapsed \cup {t}
        /\ events' \in [left : Nat, unsaved : BOOLEAN] /\ events'.unsaved = events.unsaved
    BY DEF Lapse, Event, TransactionsInv
  <1>2. SessionInv'
    <2>0. TypeOK /\ SessionsAreLive /\ OpenTransactionsAreOwned
      BY DEF TransactionsInv, SessionInv
    <2>1. TypeOK'
      BY <1>1, <2>0 DEF TypeOK
    <2>a. tx' = tx /\ active' = active /\ lock' = lock /\ proc' = proc
      BY <1>1
    <2>2. SessionsAreLive'
      BY <2>0, <2>a DEF SessionsAreLive
    <2>3. OpenTransactionsAreOwned'
      BY <1>1, <2>0, Zenon DEF OpenTransactionsAreOwned
    <2> QED BY <2>1, <2>2, <2>3 DEF SessionInv
  <1>3. ASSUME NEW p \in Procs PROVE RequestOK(p)'
    BY <1>1, Zenon DEF TransactionsInv, RequestOK, RoleOK, Evicting, Closed
  <1>4. ASSUME NEW u \in Txs PROVE CreationOK(u)' /\ CommitInHand(u)'
    BY <1>1, Zenon DEF TransactionsInv, CreationOK, CommitInHand
  <1>5. RolledBackIsTrue' /\ OneLive'
    BY <1>1, Zenon DEF TransactionsInv, RolledBackIsTrue, OneLive
  <1> QED
    BY <1>1, <1>2, <1>3, <1>4, <1>5, Zenon DEF TransactionsInv

-----------------------------------------------------------------------------
(* The steps that change PostgreSQL, the registry or an outcome *)

\* A step of q on the PostgreSQL transaction that it is about.
PgMove(q, t, now) ==
    /\ t = proc[q].t /\ tx[t].status # "none" /\ ~Closed(t)
    /\ pg' = [pg EXCEPT ![t] = now]
    /\ UNCHANGED <<tx, active, run, lapsed, events>>
    /\ wrote' \in [Txs -> SUBSET Runs] /\ \A u \in Txs \ {t} : wrote'[u] = wrote[u]
    /\ \A x \in wrote'[t] : x \notin wrote[t] =>
         x = q /\ lock[t] = q /\ proc'[q].job = "run" /\ run[q].rev < tx[t].rev
    /\ proc[q].pc \notin {"done", "insert", "uncertain", "drop", "receipt", "dropfail"}
    /\ proc'[q].pc # "insert" /\ proc'[q].job = proc[q].job
    /\ now \in {"committed", "rolledback"} \/ Owner(q, t)' \/ ~Owner(q, t)
    /\ now = "committed" => CommitHolder(q, t)'

\* What creates a transaction that a step leaves alone stands where it stood.
LEMMA CreationFrame ==
  ASSUME NEW u, CreationOK(u), proc'[u] = proc[u], tx'[u] = tx[u], pg'[u] = pg[u],
         wrote'[u] = wrote[u], active' = active
  PROVE  CreationOK(u)'
  <1>1. proc'[u].pc # "done" => tx'[u].status = "none"
    BY Zenon DEF CreationOK
  <1>2. proc'[u].pc \notin {"insert", "done"} => pg'[u] = "none"
    BY Zenon DEF CreationOK
  <1>3. proc'[u].pc = "insert" => pg'[u] = "open"
    BY Zenon DEF CreationOK
  <1>4. tx'[u].status = "none" => u \notin active' /\ wrote'[u] = {}
    BY Zenon DEF CreationOK
  <1>5. tx'[u].status # "none" => pg'[u] # "none"
    BY Zenon DEF CreationOK
  <1> QED BY <1>1, <1>2, <1>3, <1>4, <1>5, Zenon DEF CreationOK

\* A step of q on the PostgreSQL transaction of t keeps the invariant.
LEMMA PgStep ==
  ASSUME TransactionsInv, NEW q \in Procs, Control(q), RequestOK(q)', NEW t \in Txs,
         NEW now \in {"open", "aborted", "idle", "committed", "rolledback"},
         PgMove(q, t, now)
  PROVE  TransactionsInv'
  <1> USE DEF PgMove
  <1>0. TypeOK /\ (\A u \in Txs : CreationOK(u)) /\ OneLive
        /\ events \in [left : Nat, unsaved : BOOLEAN]
    BY Known, Zenon DEF TransactionsInv
  <1>1. /\ pg'[t] = now /\ \A u \in Txs \ {t} : pg'[u] = pg[u]
        /\ pg' \in [Txs -> {"none", "open", "aborted", "idle", "committed", "rolledback"}]
    BY <1>0, Zenon DEF TypeOK
  <1>2. TypeOK'
    BY <1>0, <1>1 DEF TypeOK, Control, Request
  <1>3. Data(q)
    <2>1. \A u \in Txs : lock[u] \notin {None, q} => wrote'[u] \subseteq wrote[u]
      BY <1>0, Zenon DEF TypeOK
    <2> QED
      BY <1>1, <2>1, Zenon DEF Data, Ages, Closed
  <1>4. proc[t].pc = "done" /\ t # q
    BY <1>0, Zenon DEF CreationOK
  <1>5. \A u \in Txs : CreationOK(u)'
    <2> SUFFICES ASSUME NEW u \in Txs PROVE CreationOK(u)'
      BY Zenon
    <2>1. CASE u = t
      <3>1. /\ proc'[t] = proc[t] /\ CreationOK(t) /\ pg'[t] = now
            /\ tx[t].status # "none" /\ tx'[t].status = tx[t].status
        BY <1>0, <1>1, <1>4, Kinds, Zenon DEF Control
      <3> QED BY <1>4, <2>1, <3>1, Zenon DEF CreationOK
    <2>2. CASE u = q
      <3>1. /\ CreationOK(u) /\ pg'[u] = pg[u] /\ wrote'[u] = wrote[u]
            /\ tx'[u] = tx[u] /\ active' = active
            /\ proc[u].pc \notin {"done", "insert"} /\ proc'[u].pc # "insert"
        BY <1>0, <1>1, <1>4, <2>2, Zenon
      <3> HIDE DEF PgMove
      <3> QED BY <3>1, Zenon DEF CreationOK
    <2>3. CASE u \notin {t, q}
      <3>1. /\ CreationOK(u) /\ pg'[u] = pg[u] /\ wrote'[u] = wrote[u]
            /\ tx'[u] = tx[u] /\ active' = active /\ proc'[u] = proc[u]
        BY <1>0, <1>1, <2>3, Kinds, Zenon DEF Control
      <3> HIDE DEF PgMove
      <3> QED BY <3>1, CreationFrame, Zenon
    <2> QED BY <2>1, <2>2, <2>3, Zenon
  <1>6. \A u \in active' : \/ tx'[u].status \in Live
                           \/ \E p \in Procs \ {q} : DropHolder(p, u)
    <2>1. \A u \in active : ~DropHolder(q, u)
      BY Zenon DEF DropHolder
    <2> QED BY <2>1, Answers, Zenon
  <1>7. \A u \in Txs : pg'[u] \notin {"none", "committed", "rolledback"} =>
                         \/ u \in active' \/ Owner(q, u)'
                         \/ \E p \in Procs \ {q} : Owner(p, u)
    <2> SUFFICES ASSUME NEW u \in Txs, pg'[u] \notin {"none", "committed", "rolledback"},
                        u \notin active, ~Owner(q, u)'
                 PROVE  \E p \in Procs \ {q} : Owner(p, u)
      BY Zenon
    <2>1. ~Owner(q, u)
      BY <1>1 DEF Owner
    <2>2. pg[u] \notin {"none", "committed", "rolledback"}
      BY <1>0, <1>1, <1>4, ZenonT(40) DEF Closed, CreationOK, TypeOK
    <2> QED BY <2>1, <2>2, Answers, Zenon
  <1>8. \A u \in Txs : pg'[u] = "committed" /\ tx'[u].status \in Live
                          /\ ~events'.unsaved =>
                            \/ CommitHolder(q, u)'
                            \/ \E p \in Procs \ {q} : CommitHolder(p, u)
    <2>1. \A u \in Txs : ~CommitHolder(q, u)
      BY Zenon DEF CommitHolder
    <2> QED BY <1>1, <2>1, Answers, ZenonT(40)
  <1>9. ~events'.unsaved => \A u \in Txs : tx'[u].status = "rolled_back" =>
                               pg'[u] = "rolledback"
    BY <1>1, Answers, ZenonT(40), SMTT(15) DEF Closed
  <1>10. \A u \in Txs : \A x \in wrote'[u] : x \notin wrote[u] =>
             x = q /\ proc'[x].job = "run" /\ run'[x].rev < tx'[u].rev
    BY Zenon
  <1>11. OneLive'
    BY <1>0, Zenon DEF OneLive
  <1> QED
    BY <1>0, <1>2, <1>3, <1>5, <1>6, <1>7, <1>8, <1>9, <1>10, <1>11, StepKeeps, Zenon

\* The session is rolled back; until it is closed it takes statements.
LEMMA ExpireUndoKeeps ==
  ASSUME TransactionsInv, NEW p \in Procs, ExpireUndo(p)
  PROVE  TransactionsInv'
  <1> DEFINE t == proc[p].t
  <1>0. /\ TypeOK /\ RequestOK(p) /\ RoleOK(p) /\ proc[p].pc = "undo"
        /\ {"expired", "close"} \subseteq Steps
    BY Known, Zenon DEF ExpireUndo, Steps
  <1>1. /\ t \in Txs /\ tx[t].status # "none" /\ t \notin active
        /\ proc[p].back = "check" => lock[t] = p
        /\ proc[p].job = "run" => run[p].rev < tx[t].rev
    BY <1>0, Zenon DEF RequestOK, Evicting, ExpirySteps
  <1>2. ASSUME NEW pc \in {"expired", "close"}, Goto(p, pc),
               pc = "expired" => pg'[t] \in {"committed", "rolledback"}
        PROVE  /\ Control(p) /\ Same(p) /\ proc'[p].pc = pc /\ RequestOK(p)'
    <2>1. Control(p) /\ Same(p) /\ proc'[p].pc = pc /\ lock' = lock
      BY <1>0, <1>2, GotoControl, Zenon DEF ExpireUndo
    <2>2. RoleOK(p)'
      BY <1>0, <1>2, <2>1, Zenon DEF RoleOK, Same, ExpirySteps
    <2> QED
      BY <1>1, <1>2, <2>1, <2>2, Zenon
      DEF RequestOK, Evicting, LockedSteps, ExpirySteps, Same, Closed, ExpireUndo
  <1>3. CASE Closed(t)
    <2>1. /\ Goto(p, "expired") /\ pg'[t] \in {"committed", "rolledback"}
      BY <1>3 DEF ExpireUndo, Closed
    <2>2. Quiet(p)
      BY <1>3, QuietIdle DEF ExpireUndo
    <2>3. \A u \in Txs : Owner(p, u) => u = t
      BY <1>0 DEF Owner
    <2> QED
      BY <1>0, <1>2, <1>3, <2>1, <2>2, <2>3, QuietOwner, Zenon DEF Same
  <1>4. CASE ~Closed(t)
    <2>1. /\ pg' = [pg EXCEPT ![t] = "idle"] /\ wrote' = [wrote EXCEPT ![t] = {}]
          /\ Goto(p, "close") /\ UNCHANGED <<tx, active, run, lapsed, events>>
      BY <1>4 DEF ExpireUndo
    <2>2. Control(p) /\ Same(p) /\ proc'[p].pc = "close" /\ RequestOK(p)'
      BY <1>2, <2>1
    <2>3. /\ wrote' \in [Txs -> SUBSET Runs] /\ wrote'[t] = {}
          /\ \A u \in Txs \ {t} : wrote'[u] = wrote[u]
      BY <1>0, <1>1, <2>1 DEF TypeOK
    <2>4. Owner(p, t)'
      BY <2>2 DEF Owner, Same
    <2>5. /\ proc[p].pc \notin {"done", "insert", "uncertain", "drop", "receipt", "dropfail"}
          /\ proc'[p].pc # "insert" /\ proc'[p].job = proc[p].job /\ t = proc[p].t
      BY <1>0, <2>2 DEF Same
    <2> HIDE DEF t
    <2>6. PgMove(p, t, "idle")
      BY <1>1, <1>4, <2>1, <2>2, <2>3, <2>4, <2>5, Zenon DEF PgMove
    <2> QED
      BY <1>1, <2>2, <2>6, PgStep
  <1> QED BY <1>3, <1>4

\* The connection of an expired transaction is closed.
LEMMA ExpireCloseKeeps ==
  ASSUME TransactionsInv, NEW p \in Procs, ExpireClose(p)
  PROVE  TransactionsInv'
  <1> DEFINE t == proc[p].t
  <1>0. /\ TypeOK /\ RequestOK(p) /\ RoleOK(p) /\ proc[p].pc = "close"
        /\ "expired" \in Steps
    BY Known, Zenon DEF ExpireClose, Steps
  <1>1. /\ t \in Txs /\ tx[t].status # "none" /\ t \notin active
        /\ proc[p].back = "check" => lock[t] = p
        /\ proc[p].job = "run" => run[p].rev < tx[t].rev
    BY <1>0, Zenon DEF RequestOK, Evicting, ExpirySteps
  <1>2. /\ Control(p) /\ Same(p) /\ proc'[p].pc = "expired" /\ lock' = lock
    BY <1>0, GotoControl DEF ExpireClose
  <1>3. RoleOK(p)'
    BY <1>0, <1>2, Zenon DEF RoleOK, Same, ExpirySteps
  <1>4. pg'[t] \in {"committed", "rolledback"}
    BY <1>0, <1>1 DEF ExpireClose, Undone, Closed, TypeOK
  <1>5. RequestOK(p)'
    BY <1>1, <1>2, <1>3, <1>4, Zenon
    DEF RequestOK, Evicting, LockedSteps, ExpirySteps, Same, Closed, ExpireClose
  <1>6. CASE Closed(t)
    <2>1. Quiet(p)
      BY <1>6, QuietIdle, Zenon DEF ExpireClose, Undone
    <2>2. \A u \in Txs : Owner(p, u) => u = t
      BY <1>0 DEF Owner
    <2> QED
      BY <1>0, <1>2, <1>5, <1>6, <2>1, <2>2, QuietOwner, Zenon DEF Same
  <1>7. CASE ~Closed(t)
    <2>1. /\ pg' = [pg EXCEPT ![t] = "rolledback"]
          /\ UNCHANGED <<tx, active, wrote, run, lapsed, events>>
      BY <1>7 DEF ExpireClose, Undone
    <2>2. wrote' \in [Txs -> SUBSET Runs]
      BY <1>0, <2>1 DEF TypeOK
    <2>3. /\ proc[p].pc \notin {"done", "insert", "uncertain", "drop", "receipt", "dropfail"}
          /\ proc'[p].pc # "insert" /\ proc'[p].job = proc[p].job /\ t = proc[p].t
      BY <1>0, <1>2 DEF Same
    <2> HIDE DEF t
    <2>4. PgMove(p, t, "rolledback")
      BY <1>1, <1>2, <1>7, <2>1, <2>2, <2>3, Zenon DEF PgMove
    <2> QED
      BY <1>1, <1>2, <1>5, <2>4, PgStep, Zenon
  <1> QED BY <1>6, <1>7

\* A statement runs in the transaction, fails, or loses it.
LEMMA ExecuteKeeps ==
  ASSUME TransactionsInv, NEW p \in Procs, Execute(p)
  PROVE  TransactionsInv'
  <1> DEFINE t == proc[p].t
  <1>0. /\ TypeOK /\ RequestOK(p) /\ RoleOK(p) /\ proc[p].pc = "execute"
        /\ "succeed" \in Steps
    BY Known, Zenon DEF Execute, Steps
  <1>1. /\ t \in Txs /\ tx[t].status # "none" /\ lock[t] = p
        /\ proc[p].job = "run" /\ p \in Runs /\ run[p].rev < tx[t].rev
    BY <1>0, Zenon DEF RequestOK, RoleOK, LockedSteps
  <1>2. CASE UNCHANGED <<pg, wrote>> /\ Raise(p)
    <2>1. Quiet(p)
      BY <1>2, QuietIdle DEF Execute
    <2> QED BY <1>0, <1>1, <1>2, <2>1, QuietRaise, Zenon
  <1>3. CASE /\ pg[t] \in {"open", "idle"}
             /\ Raise(p) \/ (Goto(p, "succeed") /\ KeepLocks)
             /\ \/ pg' = [pg EXCEPT ![t] = "open"] /\ wrote' = [wrote EXCEPT ![t] = @ \cup {p}]
                \/ pg' = [pg EXCEPT ![t] = "aborted"] /\ UNCHANGED wrote
    <2>1. UNCHANGED <<tx, active, run, lapsed, events>> /\ ~Closed(t)
      BY <1>3 DEF Execute, Closed
    <2>2. /\ Control(p) /\ RequestOK(p)' /\ proc'[p].job = "run"
          /\ proc'[p].pc \in {"succeed", "fail", "done"}
      <3>1. CASE Raise(p)
        <4>1. /\ \A u \in Txs : tx[u].status # "none" => Ages(u) /\ tx'[u].rev \in Nat
              /\ \A x \in Runs : run'[x].rev = run[x].rev
          BY <1>0, <2>1 DEF Ages, TypeOK
        <4> QED BY <1>0, <1>1, <3>1, <4>1, RaiseOK, Zenon
      <3>2. CASE Goto(p, "succeed") /\ KeepLocks
        <4>1. Control(p) /\ Same(p) /\ proc'[p].pc = "succeed" /\ lock' = lock
          BY <1>0, <3>2, GotoControl, Zenon
        <4>2. RoleOK(p)'
          BY <1>0, <1>1, <4>1, Zenon DEF RoleOK, Same
        <4>3. RequestOK(p)'
          BY <1>1, <2>1, <4>1, <4>2, Zenon DEF RequestOK, Evicting, LockedSteps, ExpirySteps, Same
        <4> QED BY <1>1, <4>1, <4>3, Zenon DEF Same
      <3> QED BY <1>3, <3>1, <3>2, Zenon
    <2>3. /\ wrote' \in [Txs -> SUBSET Runs] /\ \A u \in Txs \ {t} : wrote'[u] = wrote[u]
          /\ wrote'[t] \subseteq wrote[t] \cup {p}
      BY <1>0, <1>1, <1>3, SMTT(15), Z3T(15), ZenonT(40) DEF TypeOK
    <2>4. ~Owner(p, t)
      BY <1>0, <1>1, Zenon DEF Owner
    <2>5. ASSUME NEW now \in {"open", "aborted"}, pg' = [pg EXCEPT ![t] = now]
          PROVE  TransactionsInv'
      <3> HIDE DEF t
      <3>1. \A x \in wrote'[t] : x \notin wrote[t] =>
             x = p /\ lock[t] = p /\ proc'[p].job = "run" /\ run[p].rev < tx[t].rev
        BY <1>1, <2>2, <2>3
      <3>2. t = proc[p].t
        BY DEF t
      <3>3. now \in {"open", "aborted", "idle", "committed", "rolledback"} /\ now # "committed"
        OBVIOUS
      <3>4. /\ proc[p].pc \notin {"done", "insert", "uncertain", "drop", "receipt", "dropfail"}
            /\ proc'[p].pc # "insert"
        BY <1>0, <2>2
      <3>5. PgMove(p, t, now)
        BY <1>1, <2>1, <2>2, <2>3, <2>4, <2>5, <3>1, <3>2, <3>3, <3>4, Zenon DEF PgMove
      <3> QED
        BY <1>1, <2>2, <3>3, <3>5, PgStep
    <2> QED BY <1>3, <2>5
  <1> QED BY <1>2, <1>3, Zenon DEF Execute

\* A finish holds the lock of the session, so no commit is unrecorded.
LEMMA NoOtherCommit ==
  ASSUME TransactionsInv, NEW p \in Procs, proc[p].pc = "finish"
  PROVE  pg[proc[p].t] = "committed" /\ tx[proc[p].t].status \in Live => events.unsaved
  <1>1. proc[p].t \in Txs /\ lock[proc[p].t] = p
    BY Known DEF RequestOK, LockedSteps
  <1>2. \A x \in Procs : ~CommitHolder(x, proc[p].t)
    BY <1>1 DEF CommitHolder
  <1> QED BY <1>1, <1>2, Answers, Zenon

\* COMMIT or ROLLBACK is sent, and PostgreSQL answers or does not.
LEMMA FinishKeeps ==
  ASSUME TransactionsInv, NEW p \in Procs, Finish(p)
  PROVE  TransactionsInv'
  <1> DEFINE t == proc[p].t
  <1>0. /\ TypeOK /\ RequestOK(p) /\ RoleOK(p) /\ proc[p].pc = "finish"
        /\ {"drop", "dropfail", "uncertain"} \subseteq Steps
    BY Known, Zenon DEF Finish, Steps
  <1>1. /\ t \in Txs /\ tx[t].status # "none" /\ lock[t] = p
        /\ proc[p].job \in {"commit", "rollback"} /\ p \in Finishers
        /\ proc[p].job = "commit" => /\ tx[t].rev >= proc[p].rev
                                     /\ tx[t].rev = proc[p].rev => tx[t].status = "open"
    BY <1>0, Zenon DEF RequestOK, RoleOK, LockedSteps
  <1>2. UNCHANGED <<tx, active, wrote, run, lapsed, events>>
    BY DEF Finish
  <1>3. ASSUME NEW pc \in {"drop", "dropfail", "uncertain"}, Goto(p, pc), KeepLocks,
               pg'[t] \in {"committed", "rolledback"},
               proc[p].job = "rollback" /\ tx[t].status \in Live /\ ~events.unsaved =>
                   pg'[t] = "rolledback"
        PROVE  /\ Control(p) /\ Same(p) /\ proc'[p].pc = pc /\ lock' = lock /\ RequestOK(p)'
    <2>1. Control(p) /\ Same(p) /\ proc'[p].pc = pc /\ lock' = lock
      BY <1>0, <1>3, GotoControl, Zenon
    <2>2. RoleOK(p)'
      BY <1>0, <1>1, <1>3, <2>1, Zenon DEF RoleOK, Same
    <2> QED
      BY <1>1, <1>2, <1>3, <2>1, <2>2, Zenon
      DEF RequestOK, Evicting, LockedSteps, ExpirySteps, Same, Closed
  <1>4. CASE Raise(p) /\ UNCHANGED pg
    <2>1. Quiet(p) /\ proc[p].job # "close"
      BY <1>1, <1>2, <1>4, QuietIdle
    <2> QED BY <1>0, <1>4, <2>1, QuietRaise
  <1>5. CASE /\ Closed(t) /\ UNCHANGED pg
             /\ \E pc \in {"drop", "dropfail"} : Goto(p, pc) /\ KeepLocks
    <2>1. PICK pc \in {"drop", "dropfail"} : Goto(p, pc) /\ KeepLocks
      BY <1>5
    <2>2. /\ pg'[t] \in {"committed", "rolledback"}
          /\ tx[t].status \in Live /\ ~events.unsaved => pg'[t] = "rolledback"
      BY <1>0, <1>5, NoOtherCommit DEF Closed
    <2>3. Control(p) /\ Same(p) /\ proc'[p].pc = pc /\ RequestOK(p)'
      BY <1>3, <2>1, <2>2, Zenon
    <2>4. Quiet(p) /\ proc[p].job # "close"
      BY <1>1, <1>2, <1>5, QuietIdle, Zenon
    <2> QED BY <1>0, <2>1, <2>3, <2>4, QuietStep DEF Same
  <1>6. ASSUME NEW now \in {"committed", "rolledback"}, NEW pc \in {"drop", "dropfail", "uncertain"},
               ~Closed(t), pg' = [pg EXCEPT ![t] = now], Goto(p, pc), KeepLocks,
               now = "committed" => proc[p].job = "commit" /\ pc # "dropfail"
        PROVE  TransactionsInv'
    <2>1. pg'[t] = now
      BY <1>0, <1>1, <1>6 DEF TypeOK
    <2>2. Control(p) /\ Same(p) /\ proc'[p].pc = pc /\ lock' = lock /\ RequestOK(p)'
      BY <1>1, <1>3, <1>6, <2>1
    <2>3. now = "committed" => CommitHolder(p, t)'
      BY <1>1, <1>6, <2>2 DEF CommitHolder, Same
    <2>4. /\ wrote' \in [Txs -> SUBSET Runs] /\ wrote' = wrote
          /\ proc[p].pc \notin {"done", "insert", "uncertain", "drop", "receipt", "dropfail"}
          /\ proc'[p].pc # "insert" /\ proc'[p].job = proc[p].job /\ t = proc[p].t
          /\ now \in {"open", "aborted", "idle", "committed", "rolledback"}
      BY <1>0, <1>2, <2>2, Zenon DEF Same, TypeOK
    <2>5. /\ \A x \in wrote'[t] : x \notin wrote[t] =>
               x = p /\ lock[t] = p /\ proc'[p].job = "run" /\ run[p].rev < tx[t].rev
          /\ \A u \in Txs \ {t} : wrote'[u] = wrote[u]
      BY <2>4, Zenon
    <2> HIDE DEF t
    <2>6. PgMove(p, t, now)
      BY <1>1, <1>2, <1>6, <2>2, <2>3, <2>4, <2>5, Zenon DEF PgMove
    <2> QED
      BY <1>1, <2>2, <2>4, <2>6, PgStep, Zenon
  <1>7. CASE proc[p].job = "commit"
    <2>1. CASE Closed(t)
      BY <1>5, <1>7, <2>1, Zenon DEF Finish
    <2>2. CASE ~Closed(t)
      <3>1. \/ Raise(p) /\ UNCHANGED pg
            \/ \E now \in {"committed", "rolledback"}, pc \in {"drop", "uncertain"} :
                 pg' = [pg EXCEPT ![t] = now] /\ Goto(p, pc) /\ KeepLocks
        <4>1. CASE pg[t] = "open"
          BY <1>7, <2>2, <4>1, Zenon DEF Finish, Undone
        <4>2. CASE pg[t] # "open"
          BY <1>7, <2>2, <4>2, Zenon DEF Finish, Undone
        <4> QED BY <4>1, <4>2
      <3> QED BY <1>4, <1>6, <1>7, <2>2, <3>1
    <2> QED BY <2>1, <2>2
  <1>8. CASE proc[p].job = "rollback"
    <2>1. CASE Closed(t)
      BY <1>5, <1>8, <2>1, Zenon DEF Finish, Undone
    <2>2. CASE ~Closed(t)
      <3>1. /\ pg' = [pg EXCEPT ![t] = "rolledback"] /\ KeepLocks
            /\ \E pc \in {"drop", "dropfail"} : Goto(p, pc)
        BY <1>8, <2>2, Zenon DEF Finish, Undone
      <3> QED BY <1>6, <2>2, <3>1
    <2> QED BY <2>1, <2>2
  <1> QED BY <1>1, <1>7, <1>8

\* A step of q that takes sessions out of the registry.
Unlist(q) ==
    /\ UNCHANGED <<tx, pg, wrote, run, lapsed, events>> /\ active' \subseteq active
    /\ proc[q].pc \notin {"done", "insert"} /\ proc'[q].pc # "insert"
    /\ proc[q].job = "run" => proc'[q].job = "run"
    /\ \A t \in active \ active' : Closed(t) \/ Owner(q, t)'
    /\ \A t \in Txs : Owner(q, t) /\ ~Closed(t) => Owner(q, t)'
    /\ \A t \in active' : ~DropHolder(q, t)
    /\ \A t \in Txs : CommitHolder(q, t) => CommitHolder(q, t)'

\* A step that takes sessions out of the list of active transactions.
LEMMA UnlistStep ==
  ASSUME TransactionsInv, NEW q \in Procs, Control(q), RequestOK(q)', Unlist(q)
  PROVE  TransactionsInv'
  <1>0. /\ TypeOK /\ OneLive /\ events \in [left : Nat, unsaved : BOOLEAN]
        /\ \A t \in Txs : CreationOK(t)
        /\ \A p \in Procs \ {q} : proc'[p] = proc[p]
    BY Known, Zenon DEF TransactionsInv, Control
  <1>1. TypeOK'
    BY <1>0 DEF TypeOK, Control, Request, Unlist
  <1>2. Data(q)
    BY Zenon DEF Data, Ages, Unlist
  <1>3. \A t \in Txs : CreationOK(t)'
    <2> SUFFICES ASSUME NEW t \in Txs PROVE CreationOK(t)'
      OBVIOUS
    <2>1. CASE t = q
      BY <1>0, <2>1, Zenon DEF CreationOK, Unlist
    <2>2. CASE t # q
      BY <1>0, <2>2, Kinds, Zenon DEF CreationOK, Unlist
    <2> QED BY <2>1, <2>2
  <1>4. \A t \in active' : \/ tx'[t].status \in Live
                           \/ \E p \in Procs \ {q} : DropHolder(p, t)
    BY Answers, Zenon DEF Unlist
  <1>5. \A t \in Txs : pg'[t] \notin {"none", "committed", "rolledback"} =>
                         \/ t \in active' \/ Owner(q, t)'
                         \/ \E p \in Procs \ {q} : Owner(p, t)
    <2> SUFFICES ASSUME NEW t \in Txs, pg[t] \notin {"none", "committed", "rolledback"},
                        t \notin active', ~Owner(q, t)'
                 PROVE  \E p \in Procs \ {q} : Owner(p, t)
      BY Zenon DEF Unlist
    <2>1. ~Owner(q, t) /\ t \notin active
      BY DEF Unlist, Closed
    <2> QED BY <2>1, Answers
  <1>6. \A t \in Txs : pg'[t] = "committed" /\ tx'[t].status \in Live
                          /\ ~events'.unsaved =>
                            \/ CommitHolder(q, t)'
                            \/ \E p \in Procs \ {q} : CommitHolder(p, t)
    BY Answers, Zenon DEF Unlist
  <1>7. ~events'.unsaved => \A t \in Txs : tx'[t].status = "rolled_back" =>
                               pg'[t] = "rolledback"
    BY Answers, Zenon DEF Unlist
  <1>8. /\ OneLive' /\ events' \in [left : Nat, unsaved : BOOLEAN]
        /\ \A t \in Txs : wrote'[t] = wrote[t]
        /\ proc[q].job = "run" => proc'[q].job = "run"
    BY <1>0, Zenon DEF Unlist, OneLive
  <1> QED
    BY <1>1, <1>2, <1>3, <1>4, <1>5, <1>6, <1>7, <1>8, StepKeeps, Zenon

\* _drop_session takes an expired session out of the registry.
LEMMA ExpireDropKeeps ==
  ASSUME TransactionsInv, NEW p \in Procs, ExpireDrop(p)
  PROVE  TransactionsInv'
  <1> DEFINE t == proc[p].t
  <1>0. /\ TypeOK /\ RequestOK(p) /\ RoleOK(p) /\ proc[p].pc = "unlist" /\ "undo" \in Steps
    BY Known DEF ExpireDrop, Steps
  <1>1. /\ t \in Txs /\ tx[t].status # "none"
        /\ proc[p].back = "check" => lock[t] = p
        /\ proc[p].job = "run" => run[p].rev < tx[t].rev
    BY <1>0, Zenon DEF RequestOK, ExpirySteps
  <1>2. Control(p) /\ Same(p) /\ proc'[p].pc = "undo" /\ lock' = lock
    BY <1>0, GotoControl, Zenon DEF ExpireDrop
  <1>3. RoleOK(p)'
    BY <1>0, <1>2, Zenon DEF RoleOK, Same, ExpirySteps
  <1>4. RequestOK(p)'
    BY <1>1, <1>2, <1>3, Zenon
    DEF RequestOK, Evicting, LockedSteps, ExpirySteps, Same, ExpireDrop
  <1>5. /\ Owner(p, t)' /\ \A u \in Txs : ~Owner(p, u) /\ ~DropHolder(p, u) /\ ~CommitHolder(p, u)
    BY <1>0, <1>2, Zenon DEF Owner, DropHolder, CommitHolder, Same
  <1>6. Unlist(p)
    <2>1. /\ active' = active \ {t} /\ UNCHANGED <<tx, pg, wrote, run, lapsed, events>>
          /\ proc'[p].pc # "insert" /\ proc'[p].job = proc[p].job
          /\ \A u \in active : u \in Txs
      BY <1>0, <1>2, Zenon DEF ExpireDrop, Same, TypeOK
    <2>2. \A u \in active \ active' : Owner(p, u)'
      BY <1>2, <2>1, Zenon DEF Owner, Same
    <2>3. proc[p].pc \notin {"done", "insert"} /\ active' \subseteq active
      BY <1>0, <2>1
    <2>4. \A u \in active' : ~DropHolder(p, u)
      BY <1>5, <2>1
    <2> QED BY <1>5, <2>1, <2>2, <2>3, <2>4, Zenon DEF Unlist
  <1> QED BY <1>2, <1>4, <1>6, UnlistStep, Zenon

\* _drop_session takes a finished session out of the registry.
LEMMA DropKeeps ==
  ASSUME TransactionsInv, NEW p \in Procs, Drop(p)
  PROVE  TransactionsInv'
  <1> DEFINE t == proc[p].t
  <1>0. /\ TypeOK /\ RequestOK(p) /\ RoleOK(p) /\ proc[p].pc \in {"drop", "dropfail"}
        /\ "receipt" \in Steps
    BY Known DEF Drop, Steps
  <1>1. /\ t \in Txs /\ tx[t].status # "none" /\ lock[t] = p /\ Closed(t)
        /\ proc[p].job \in {"commit", "rollback"}
    BY <1>0, Zenon DEF RequestOK, RoleOK, LockedSteps
  <1>2. /\ active' = active \ {t} /\ UNCHANGED <<tx, pg, wrote, run, lapsed, events>>
        /\ \/ proc[p].pc = "drop" /\ Goto(p, "receipt") /\ KeepLocks
           \/ proc[p].pc = "dropfail" /\ Raise(p)
    BY DEF Drop
  <1>3. /\ \A u \in Txs : ~Owner(p, u)
        /\ \A u \in Txs : DropHolder(p, u) \/ CommitHolder(p, u) => u = t
    BY <1>0, <1>1 DEF Owner, DropHolder, CommitHolder
  <1>4. CASE proc[p].pc = "drop" /\ Goto(p, "receipt") /\ KeepLocks
    <2>1. Control(p) /\ Same(p) /\ proc'[p].pc = "receipt" /\ lock' = lock
      BY <1>0, <1>4, GotoControl
    <2>2. RoleOK(p)'
      BY <1>0, <1>1, <2>1, Zenon DEF RoleOK, Same
    <2>3. RequestOK(p)'
      BY <1>0, <1>1, <1>2, <1>4, <2>1, <2>2, Zenon
      DEF RequestOK, Evicting, LockedSteps, ExpirySteps, Same, Closed
    <2>4. \A u \in Txs : CommitHolder(p, u) => CommitHolder(p, u)'
      BY <2>1, Zenon DEF CommitHolder, Same
    <2>5. Unlist(p)
      BY <1>0, <1>1, <1>2, <1>3, <1>4, <2>1, <2>4, Zenon DEF Unlist, Same, TypeOK
    <2> QED BY <2>1, <2>3, <2>5, UnlistStep
  <1>5. CASE proc[p].pc = "dropfail" /\ Raise(p)
    <2>1. /\ \A u \in Txs : tx[u].status # "none" => Ages(u) /\ tx'[u].rev \in Nat
          /\ \A x \in Runs : run'[x].rev = run[x].rev
      BY <1>0, <1>2 DEF Ages, TypeOK
    <2>2. /\ Control(p) /\ RequestOK(p)' /\ proc'[p].job = proc[p].job
          /\ proc'[p].pc \in {"fail", "done"}
      BY <1>5, <2>1, RaiseOK, Zenon
    <2>3. \A u \in Txs : ~CommitHolder(p, u)
      BY <1>5 DEF CommitHolder
    <2>4. Unlist(p)
      BY <1>0, <1>1, <1>2, <1>3, <1>5, <2>2, <2>3, Zenon DEF Unlist, TypeOK
    <2> QED BY <2>2, <2>4, UnlistStep
  <1> QED BY <1>2, <1>4, <1>5

\* Shutdown empties the registry. At most one of the sessions in it is still
\* open; the others are only waiting to be taken out.
LEMMA BeginCloseKeeps ==
  ASSUME TransactionsInv, NEW p \in Procs, p \in Pollers, BeginClose(p)
  PROVE  TransactionsInv'
  <1>0. /\ TypeOK /\ proc[p] = NoRequest /\ proc \in [Procs -> Request] /\ OneLive
        /\ \A u \in active : u \in Txs /\ tx[u].status # "none"
        /\ \A x \in Procs : RequestOK(x)
    BY Known DEF BeginClose, RoleOK, TransactionsInv
  <1>1. /\ active' = {} /\ UNCHANGED <<tx, pg, wrote, run, lapsed, events>>
        /\ UNCHANGED <<lock, registry>>
    BY DEF BeginClose
  <1>2. \A u \in active : tx[u].status \notin Live => Closed(u)
    <2>1. \A u \in active, x \in Procs : DropHolder(x, u) => Closed(u)
      <3> SUFFICES ASSUME NEW u \in active, NEW x \in Procs, DropHolder(x, u)
                   PROVE  Closed(u)
        OBVIOUS
      <3>1. RequestOK(x) /\ proc[x].t = u /\ proc[x].pc = "dropfail"
        BY <1>0 DEF DropHolder
      <3> QED BY <3>1, Zenon DEF RequestOK
    <2> QED BY <2>1, Answers, Zenon
  <1>3. /\ proc[p].pc = "idle" /\ proc[p].job = "none" /\ p \notin Txs
        /\ \A u \in Txs : ~Owner(p, u) /\ ~DropHolder(p, u) /\ ~CommitHolder(p, u)
    <2>1. proc[p].pc = "idle" /\ proc[p].job = "none" /\ p \notin Txs
      BY <1>0, Kinds, NoRequestFields
    <2> QED BY <2>1 DEF Owner, DropHolder, CommitHolder
  <1>4. CASE active = {} /\ Goto(p, "done")
    <2>1. Control(p) /\ Same(p) /\ proc'[p].pc = "done"
      BY <1>0, <1>1, <1>4, GotoControl DEF KeepLocks, Steps
    <2>2. RoleOK(p)'
      <3>1. proc'[p].pc = "done" /\ proc'[p].job = "none" /\ proc'[p].back = "raise"
        BY <1>0, <2>1, NoRequestFields, Zenon DEF Same
      <3> QED BY <3>1 DEF RoleOK
    <2>3. RequestOK(p)'
      BY <1>3, <2>1, <2>2, Zenon DEF RequestOK, Evicting, LockedSteps, ExpirySteps, Same
    <2>4. Unlist(p)
      BY <1>1, <1>3, <1>4, <2>1, Zenon DEF Unlist
    <2> QED BY <2>1, <2>3, <2>4, UnlistStep
  <1>5. ASSUME NEW t \in active,
               (\E u \in active : tx[u].status \in Live) => tx[t].status \in Live,
               proc' = [proc EXCEPT ![p].pc = "lock", ![p].job = "close", ![p].t = t]
        PROVE  TransactionsInv'
    <2>1. /\ proc' \in [Procs -> Request] /\ \A x \in Procs \ {p} : proc'[x] = proc[x]
          /\ proc'[p].pc = "lock" /\ proc'[p].job = "close" /\ proc'[p].t = t
          /\ proc'[p].back = "raise"
      BY <1>0, <1>5 DEF Request, Steps, Jobs, NoRequest
    <2>2. Control(p)
      BY <1>0, <1>1, <2>1 DEF Control, TypeOK
    <2>3. RoleOK(p)'
      BY <2>1 DEF RoleOK
    <2>4. RequestOK(p)'
      BY <1>0, <1>1, <2>1, <2>3, Zenon DEF RequestOK, Evicting, LockedSteps, ExpirySteps
    <2>5. \A u \in active : u # t => Closed(u)
      BY <1>0, <1>2, <1>5 DEF OneLive
    <2>6. Owner(p, t)'
      BY <2>1 DEF Owner
    <2>7. Unlist(p)
      BY <1>1, <1>3, <2>1, <2>5, <2>6, Zenon DEF Unlist
    <2> QED BY <2>2, <2>4, <2>7, UnlistStep
  <1> QED BY <1>4, <1>5 DEF BeginClose

\* What saving an outcome does to the receipts, whether or not it succeeds.
Saved(t, rev, status) ==
    /\ events' \in [left : Nat, unsaved : BOOLEAN]
    /\ events.unsaved => events'.unsaved
    /\ tx' \in [Txs -> [status : {"none", "open", "failed", "committed", "rolled_back",
                                  "uncertain", "expired"}, rev : Nat]]
    /\ \A u \in Txs : Ages(u) /\ (u # t => tx'[u] = tx[u])
    /\ \/ tx'[t] = tx[t]
       \/ tx[t].status \in Live /\ tx[t].rev = rev /\ tx'[t].status = status
    /\ tx'[t].status \in Live => events'.unsaved

\* finish_transaction ends a live receipt, unless it reports that it could not.
LEMMA SaveFacts ==
  ASSUME TransactionsInv, NEW t \in Txs, NEW rev \in Nat,
         NEW status \in {"committed", "rolled_back", "uncertain"},
         SaveOutcome(t, rev, status), tx[t].status # "none"
  PROVE  Saved(t, rev, status)
  <1>0. TypeOK /\ events \in [left : Nat, unsaved : BOOLEAN]
    BY Known, Zenon DEF TransactionsInv
  <1> DEFINE saved == [tx EXCEPT ![t] = [status |-> status, rev |-> @.rev + 1]]
  <1>1. \/ /\ tx[t].status \in Live /\ tx[t].rev = rev
           /\ tx' = saved /\ (UNCHANGED events \/ Fault)
        \/ /\ tx' = tx
           /\ \/ tx[t].status \notin Live /\ UNCHANGED events
              \/ events' = [events EXCEPT !.unsaved = TRUE]
              \/ Fault
    BY DEF SaveOutcome
  <1>2. CASE /\ tx[t].status \in Live /\ tx[t].rev = rev
             /\ tx' = saved /\ (UNCHANGED events \/ Fault)
    <2>1. /\ tx'[t].status = status /\ tx'[t].rev = tx[t].rev + 1 /\ tx[t].rev \in Nat
          /\ \A u \in Txs \ {t} : tx'[u] = tx[u]
          /\ tx' \in [Txs -> [status : {"none", "open", "failed", "committed", "rolled_back",
                                        "uncertain", "expired"}, rev : Nat]]
      BY <1>0, <1>2 DEF TypeOK
    <2>2. Ages(t) /\ tx'[t].status \notin Live
      BY <1>2, <2>1 DEF Ages, Live
    <2> HIDE DEF saved
    <2> QED BY <1>2, <2>1, <2>2, EventFacts DEF Ages, Saved
  <1>3. CASE /\ tx' = tx
             /\ \/ tx[t].status \notin Live /\ UNCHANGED events
                \/ events' = [events EXCEPT !.unsaved = TRUE]
                \/ Fault
    <2>1. /\ events' \in [left : Nat, unsaved : BOOLEAN]
          /\ events.unsaved => events'.unsaved
          /\ tx[t].status \in Live => events'.unsaved
      <3>1. CASE tx[t].status \notin Live /\ UNCHANGED events
        BY <1>0, <3>1
      <3>2. CASE events' = [events EXCEPT !.unsaved = TRUE]
        <4>1. events \in [left : Nat, unsaved : BOOLEAN]
          BY <1>0
        <4>2. events' = [left |-> events.left, unsaved |-> TRUE] /\ events.left \in Nat
          BY <3>2, <4>1, Zenon
        <4> QED BY <4>2, Zenon
      <3>3. CASE Fault
        BY <1>0, <3>3 DEF Fault
      <3> QED BY <1>3, <3>1, <3>2, <3>3
    <2> QED BY <1>0, <1>3, <2>1 DEF Ages, TypeOK, Saved
  <1> QED BY <1>1, <1>2, <1>3

\* A step of q that saves the outcome of the transaction that it finished.
LEMMA SaveStep ==
  ASSUME TransactionsInv, NEW q \in Procs, Control(q), RequestOK(q)', NEW t \in Txs,
         t = proc[q].t, NEW status \in {"committed", "rolled_back", "uncertain"},
         SaveOutcome(t, proc[q].rev, status), UNCHANGED <<active, pg, wrote, run, lapsed>>,
         proc[q].pc \in {"uncertain", "receipt"}, proc'[q].pc \in {"done", "dropfail"},
         proc'[q].job = proc[q].job,
         t \notin active \/ DropHolder(q, t)',
         status = "rolled_back" /\ tx[t].status \in Live /\ ~events.unsaved =>
             pg[t] = "rolledback"
  PROVE  TransactionsInv'
  <1>0. /\ TypeOK /\ OneLive /\ \A u \in Txs : CreationOK(u)
        /\ RequestOK(q) /\ RoleOK(q) /\ proc[q].rev \in Nat
        /\ \A p \in Procs \ {q} : proc'[p] = proc[p]
    BY Known, Zenon DEF TransactionsInv, Control, Request
  <1>1. tx[t].status # "none" /\ q \in Finishers
    BY <1>0, Zenon DEF RequestOK, RoleOK
  <1>2. /\ events' \in [left : Nat, unsaved : BOOLEAN]
        /\ events.unsaved => events'.unsaved
        /\ tx' \in [Txs -> [status : {"none", "open", "failed", "committed", "rolled_back",
                                      "uncertain", "expired"}, rev : Nat]]
        /\ \A u \in Txs : Ages(u) /\ (u # t => tx'[u] = tx[u])
        /\ tx'[t] = tx[t] \/ (tx[t].status \in Live /\ tx'[t].status = status)
        /\ tx'[t].status \in Live => events'.unsaved
    <2>1. Saved(t, proc[q].rev, status)
      BY <1>0, <1>1, SaveFacts, Zenon
    <2> QED BY <2>1, Zenon DEF Saved
  <1>3. TypeOK'
    BY <1>0, <1>2, Zenon DEF TypeOK, Control, Request
  <1>4. Data(q)
    BY <1>2, Zenon DEF Data
  <1>5. \A u \in Txs : CreationOK(u)'
    <2> SUFFICES ASSUME NEW u \in Txs PROVE CreationOK(u)'
      OBVIOUS
    <2>1. u # q /\ (tx'[u].status = "none" <=> tx[u].status = "none")
      BY <1>1, <1>2, Kinds, Zenon DEF Ages
    <2>2. /\ proc'[u] = proc[u] /\ active' = active /\ pg'[u] = pg[u] /\ wrote'[u] = wrote[u]
          /\ CreationOK(u)
      BY <1>0, <2>1, Kinds, Zenon
    <2>3. /\ proc'[u].pc = proc[u].pc /\ pg'[u] = pg[u] /\ wrote'[u] = wrote[u]
          /\ u \in active' <=> u \in active
          /\ tx'[u].status = "none" <=> tx[u].status = "none"
      BY <2>1, <2>2, Zenon
    <2>4. CreationOK(u)
      BY <2>2, Zenon
    <2> QED BY <2>3, <2>4 DEF CreationOK
  <1>6. \A u \in active' : \/ tx'[u].status \in Live
                           \/ DropHolder(q, u)'
                           \/ \E p \in Procs \ {q} : DropHolder(p, u)
    <2> SUFFICES ASSUME NEW u \in active, tx'[u].status \notin Live, u # t
                 PROVE  \E p \in Procs \ {q} : DropHolder(p, u)
      BY Zenon
    <2>1. u \in Txs /\ ~DropHolder(q, u) /\ tx[u].status \notin Live
      BY <1>0, <1>2, Zenon DEF DropHolder, TypeOK
    <2> QED BY <2>1, Answers, Zenon
  <1>7. \A u \in Txs : pg'[u] \notin {"none", "committed", "rolledback"} =>
                         u \in active' \/ \E p \in Procs \ {q} : Owner(p, u)
    <2>1. \A u \in Txs : ~Owner(q, u)
      BY <1>0, <1>1, Zenon DEF Owner
    <2> QED BY <2>1, Answers, Zenon
  <1>8. \A u \in Txs : pg'[u] = "committed" /\ tx'[u].status \in Live
                          /\ ~events'.unsaved =>
                            \E p \in Procs \ {q} : CommitHolder(p, u)
    <2>1. \A u \in Txs : CommitHolder(q, u) => u = t
      BY Zenon DEF CommitHolder
    <2> QED BY <1>2, <2>1, Answers, Zenon
  <1>9. ~events'.unsaved => \A u \in Txs : tx'[u].status = "rolled_back" =>
                               pg'[u] = "rolledback"
    <2> SUFFICES ASSUME ~events'.unsaved, NEW u \in Txs, tx'[u].status = "rolled_back"
                 PROVE  pg[u] = "rolledback"
      OBVIOUS
    <2>1. ~events.unsaved
      BY <1>2, Zenon
    <2>2. CASE tx'[u] = tx[u]
      BY <2>1, <2>2, Answers, Zenon
    <2>3. CASE tx'[u] # tx[u]
      BY <1>2, <2>1, <2>3, Zenon
    <2> QED BY <2>2, <2>3, Zenon
  <1>10. OneLive'
    BY <1>0, <1>2, Zenon DEF OneLive, Ages
  <1>11. /\ \A u \in Txs : wrote'[u] = wrote[u]
         /\ proc[q].job = "run" => proc'[q].job = "run"
    BY Zenon
  <1> QED
    BY <1>2, <1>3, <1>4, <1>5, <1>6, <1>7, <1>8, <1>9, <1>10, <1>11, StepKeeps, Zenon

\* An outcome that is not known is recorded as uncertain.
LEMMA UncertainKeeps ==
  ASSUME TransactionsInv, NEW p \in Procs, Uncertain(p)
  PROVE  TransactionsInv'
  <1> DEFINE t == proc[p].t
  <1>0. /\ TypeOK /\ RequestOK(p) /\ RoleOK(p) /\ proc[p].pc = "uncertain"
        /\ "dropfail" \in Steps /\ proc[p].rev \in Nat
    BY Known, Zenon DEF Uncertain, Steps, Request
  <1>1. /\ t \in Txs /\ tx[t].status # "none" /\ lock[t] = p /\ Closed(t)
        /\ proc[p].job \in {"commit", "rollback"}
    BY <1>0, Zenon DEF RequestOK, RoleOK, LockedSteps
  <1>2. Control(p) /\ Same(p) /\ proc'[p].pc = "dropfail" /\ lock' = lock
    BY <1>0, GotoControl, Zenon DEF Uncertain
  <1>3. RoleOK(p)'
    BY <1>0, <1>1, <1>2, Zenon DEF RoleOK, Same
  <1>4. /\ SaveOutcome(t, proc[p].rev, "uncertain")
        /\ UNCHANGED <<active, pg, wrote, run, lapsed>>
    BY Zenon DEF Uncertain
  <1>5. tx'[t].status # "none"
    BY <1>0, <1>1, <1>4, SaveFacts, Zenon DEF Ages, Saved
  <1>6. RequestOK(p)'
    BY <1>1, <1>2, <1>3, <1>4, <1>5, Zenon
    DEF RequestOK, Evicting, LockedSteps, ExpirySteps, Same, Closed
  <1>7. DropHolder(p, t)'
    BY <1>1, <1>2, Zenon DEF DropHolder, Same
  <1> QED
    BY <1>0, <1>1, <1>2, <1>4, <1>6, <1>7, SaveStep, Zenon DEF Same

\* The outcome of a commit or a rollback is recorded.
LEMMA StoreOutcomeKeeps ==
  ASSUME TransactionsInv, NEW p \in Procs, StoreOutcome(p)
  PROVE  TransactionsInv'
  <1> DEFINE t == proc[p].t
             status == IF proc[p].job = "commit" THEN "committed" ELSE "rolled_back"
  <1>0. RequestOK(p) /\ RoleOK(p) /\ proc[p].pc = "receipt"
    BY Known, Zenon DEF StoreOutcome
  <1>1. /\ t \in Txs /\ t \notin active
        /\ proc[p].job \in {"commit", "rollback"}
        /\ proc[p].job = "rollback" /\ tx[t].status \in Live /\ ~events.unsaved =>
             pg[t] = "rolledback"
    BY <1>0, Zenon DEF RequestOK, RoleOK, Evicting
  <1>2. Ends(p)
    BY DEF StoreOutcome, Ends
  <1>3. /\ Control(p) /\ RequestOK(p)' /\ proc'[p].job = proc[p].job /\ proc'[p].pc = "done"
    BY <1>0, <1>2, DoneOK, Zenon
  <1>4. /\ SaveOutcome(t, proc[p].rev, status)
        /\ UNCHANGED <<active, pg, wrote, run, lapsed>>
    BY DEF StoreOutcome
  <1>5. /\ status \in {"committed", "rolled_back", "uncertain"}
        /\ status = "rolled_back" => proc[p].job = "rollback"
    BY <1>1
  <1> HIDE DEF status
  <1> QED
    BY <1>0, <1>1, <1>3, <1>4, <1>5, SaveStep, Zenon

\* create_transaction opens the PostgreSQL transaction, or fails to.
LEMMA OpenTransactionKeeps ==
  ASSUME TransactionsInv, NEW p \in Procs, OpenTransaction(p)
  PROVE  TransactionsInv'
  <1>0. /\ TypeOK /\ RequestOK(p) /\ RoleOK(p) /\ proc[p].pc = "open" /\ OneLive
        /\ proc[p].job = "create" /\ p \in Txs /\ CreationOK(p) /\ "insert" \in Steps
        /\ events \in [left : Nat, unsaved : BOOLEAN] /\ \A t \in Txs : CreationOK(t)
    BY Known, Zenon DEF OpenTransaction, RoleOK, Steps, TransactionsInv
  <1>1. UNCHANGED <<tx, active, wrote, run, lapsed, events>>
    BY DEF OpenTransaction
  <1>2. CASE Raise(p) /\ UNCHANGED pg
    <2>1. Quiet(p)
      BY <1>1, <1>2, QuietIdle
    <2> QED BY <1>0, <1>2, <2>1, QuietRaise, Zenon
  <1>3. CASE Goto(p, "insert") /\ KeepLocks /\ pg' = [pg EXCEPT ![p] = "open"]
    <2>1. Control(p) /\ Same(p) /\ proc'[p].pc = "insert"
      BY <1>0, <1>3, GotoControl, Zenon
    <2>2. RoleOK(p)'
      BY <1>0, <2>1, Zenon DEF RoleOK, Same
    <2>3. RequestOK(p)'
      BY <1>0, <2>1, <2>2, Zenon DEF RequestOK, Evicting, LockedSteps, ExpirySteps, Same
    <2>4. /\ pg'[p] = "open" /\ \A t \in Txs \ {p} : pg'[t] = pg[t]
          /\ pg' \in [Txs -> {"none", "open", "aborted", "idle", "committed", "rolledback"}]
      BY <1>0, <1>3 DEF TypeOK
    <2>5. pg[p] = "none" /\ tx[p].status = "none"
      BY <1>0 DEF CreationOK
    <2>6. TypeOK'
      BY <1>0, <1>1, <2>1, <2>4 DEF TypeOK, Control, Request
    <2>7. Data(p)
      BY <1>1, <2>4, <2>5, Zenon DEF Data, Ages, Closed
    <2>8. \A t \in Txs : CreationOK(t)'
      <3> SUFFICES ASSUME NEW t \in Txs PROVE CreationOK(t)'
        OBVIOUS
      <3>1. CASE t = p
        BY <1>0, <1>1, <2>1, <2>4, <2>5, <3>1, Zenon DEF CreationOK
      <3>2. CASE t # p
        <4>1. proc'[t] = proc[t] /\ pg'[t] = pg[t] /\ CreationOK(t)
          BY <1>0, <2>1, <2>4, <3>2, Kinds, Zenon DEF Control
        <4>2. tx'[t] = tx[t] /\ wrote'[t] = wrote[t] /\ active' = active
          BY <1>1
        <4> QED BY <4>1, <4>2, CreationFrame, Zenon
      <3> QED BY <3>1, <3>2
    <2>9. \A t \in Txs : ~DropHolder(p, t) /\ ~CommitHolder(p, t) /\ ~Owner(p, t)
      BY <1>0 DEF DropHolder, CommitHolder, Owner
    <2>10. Owner(p, p)'
      BY <2>1 DEF Owner
    <2>11. /\ OneLive' /\ events' \in [left : Nat, unsaved : BOOLEAN]
           /\ \A t \in Txs : wrote'[t] = wrote[t]
           /\ proc[p].job = "run" => proc'[p].job = "run"
      BY <1>0, <1>1 DEF OneLive
    <2>12. \A t \in active' : \/ tx'[t].status \in Live
                              \/ \E q \in Procs \ {p} : DropHolder(q, t)
      BY <1>0, <1>1, <2>9, Answers DEF TypeOK
    <2>13. \A t \in Txs : pg'[t] \notin {"none", "committed", "rolledback"} =>
                            \/ t \in active' \/ Owner(p, t)'
                            \/ \E q \in Procs \ {p} : Owner(q, t)
      BY <1>1, <2>4, <2>9, <2>10, Answers, Zenon
    <2>14. \A t \in Txs : pg'[t] = "committed" /\ tx'[t].status \in Live
                            /\ ~events'.unsaved =>
                              \E q \in Procs \ {p} : CommitHolder(q, t)
      BY <1>1, <2>4, <2>9, Answers
    <2>15. ~events'.unsaved => \A t \in Txs : tx'[t].status = "rolled_back" =>
                                 pg'[t] = "rolledback"
      BY <1>1, <2>4, <2>5, Answers
    <2> QED
      BY <2>1, <2>3, <2>6, <2>7, <2>8, <2>11, <2>12, <2>13, <2>14, <2>15, StepKeeps, Zenon
  <1> QED BY <1>2, <1>3 DEF OpenTransaction

\* create_transaction saves the receipt, or rolls back what it opened.
LEMMA InsertTransactionKeeps ==
  ASSUME TransactionsInv, NEW p \in Procs, InsertTransaction(p)
  PROVE  TransactionsInv'
  <1> DEFINE unique == \A u \in Txs : tx[u].status \notin Live
             inserted == [tx EXCEPT ![p] = [status |-> "open", rev |-> 1]]
  <1>0. /\ TypeOK /\ RequestOK(p) /\ RoleOK(p) /\ proc[p].pc = "insert" /\ OneLive
        /\ proc[p].job = "create" /\ p \in Txs /\ \A t \in Txs : CreationOK(t)
    BY Known, Zenon DEF InsertTransaction, RoleOK, TransactionsInv
  <1>1. pg[p] = "open" /\ tx[p].status = "none" /\ wrote[p] = {} /\ p \notin active
    BY <1>0, Zenon DEF CreationOK
  <1>2. /\ UNCHANGED <<wrote, run, lapsed>> /\ Ends(p) /\ (UNCHANGED events \/ Fault)
        /\ \/ unique /\ tx' = inserted /\ active' = active \cup {p} /\ pg' = pg
           \/ /\ tx' = tx \/ (unique /\ tx' = inserted)
              /\ active' = active /\ pg' = [pg EXCEPT ![p] = "rolledback"]
    BY <1>1, Zenon DEF InsertTransaction, Undone, Closed, Ends
  <1>3. /\ Control(p) /\ RequestOK(p)' /\ proc'[p].job = proc[p].job /\ proc'[p].pc = "done"
    BY <1>0, <1>2, DoneOK, Zenon
  <1>4. /\ tx' \in [Txs -> [status : {"none", "open", "failed", "committed", "rolled_back",
                                      "uncertain", "expired"}, rev : Nat]]
        /\ \A t \in Txs \ {p} : tx'[t] = tx[t]
        /\ tx'[p] = tx[p] \/ (unique /\ tx'[p].status = "open")
    <2>1. CASE tx' = tx
      BY <1>0, <2>1 DEF TypeOK
    <2>2. CASE unique /\ tx' = inserted
      <3> HIDE DEF unique
      <3> QED BY <1>0, <2>2 DEF TypeOK
    <2> QED BY <1>2, <2>1, <2>2
  <1>5. /\ pg' \in [Txs -> {"none", "open", "aborted", "idle", "committed", "rolledback"}]
        /\ \A t \in Txs \ {p} : pg'[t] = pg[t]
        /\ pg'[p] \in {"open", "rolledback"}
        /\ active' \subseteq active \cup {p} /\ active \subseteq active'
        /\ p \in active' => tx'[p].status = "open"
        /\ pg'[p] = "open" => p \in active'
    <2> HIDE DEF unique
    <2>1. CASE unique /\ tx' = inserted /\ active' = active \cup {p} /\ pg' = pg
      <3>1. tx'[p].status = "open"
        BY <1>0, <2>1 DEF TypeOK
      <3> HIDE DEF inserted
      <3> QED BY <1>0, <1>1, <2>1, <3>1, Zenon DEF TypeOK
    <2>2. CASE active' = active /\ pg' = [pg EXCEPT ![p] = "rolledback"]
      BY <1>0, <1>1, <2>2, Zenon DEF TypeOK
    <2> QED BY <1>2, <2>1, <2>2
  <1>6. events' \in [left : Nat, unsaved : BOOLEAN] /\ (events.unsaved => events'.unsaved)
    BY <1>2, EventFacts
  <1>7. TypeOK'
    BY <1>0, <1>2, <1>3, <1>4, <1>5 DEF TypeOK, Control, Request
  <1>8. Data(p)
    BY <1>1, <1>2, <1>4, <1>5, <1>6, Zenon DEF Data, Ages, Closed
  <1>9. OneLive'
    <2>1. CASE tx'[p] = tx[p]
      <3>1. \A t \in Txs : tx'[t] = tx[t]
        BY <1>4, <2>1, Zenon
      <3> QED BY <1>0, <3>1, Zenon DEF OneLive
    <2>2. CASE unique
      <3>1. \A t \in Txs : tx'[t].status \in Live => t = p
        BY <1>4, <2>2
      <3> QED BY <3>1 DEF OneLive
    <2> QED BY <1>4, <2>1, <2>2, Zenon
  <1>10. \A t \in Txs : CreationOK(t)'
    <2> SUFFICES ASSUME NEW t \in Txs PROVE CreationOK(t)'
      OBVIOUS
    <2>1. CASE t = p
      BY <1>1, <1>2, <1>3, <1>5, <2>1, Zenon DEF CreationOK
    <2>2. CASE t # p
      <3>1. /\ proc'[t] = proc[t] /\ tx'[t] = tx[t] /\ pg'[t] = pg[t] /\ wrote'[t] = wrote[t]
            /\ t \in active' => t \in active
        BY <1>2, <1>3, <1>4, <1>5, <2>2, Kinds, Zenon DEF Control
      <3> QED BY <1>0, <3>1, Zenon DEF CreationOK
    <2> QED BY <2>1, <2>2
  <1>11. \A t \in Txs : ~DropHolder(p, t) /\ ~CommitHolder(p, t) /\ (Owner(p, t) => t = p)
    BY <1>0, <1>2, <1>3, Zenon DEF DropHolder, CommitHolder, Owner
  <1>12. \A t \in active' : \/ tx'[t].status \in Live
                            \/ \E q \in Procs \ {p} : DropHolder(q, t)
    <2> SUFFICES ASSUME NEW t \in active', tx'[t].status \notin Live
                 PROVE  \E q \in Procs \ {p} : DropHolder(q, t)
      OBVIOUS
    <2>1. t \in active /\ t \in Txs /\ tx'[t] = tx[t]
      BY <1>0, <1>4, <1>5 DEF TypeOK, Live
    <2> QED BY <1>11, <2>1, Answers, Zenon
  <1>13. \A t \in Txs : pg'[t] \notin {"none", "committed", "rolledback"} =>
                          t \in active' \/ \E q \in Procs \ {p} : Owner(q, t)
    BY <1>5, <1>11, Answers
  <1>14. \A t \in Txs : pg'[t] = "committed" /\ tx'[t].status \in Live
                            /\ ~events'.unsaved =>
                              \E q \in Procs \ {p} : CommitHolder(q, t)
    BY <1>4, <1>5, <1>6, <1>11, Answers, Zenon
  <1>15. ~events'.unsaved => \A t \in Txs : tx'[t].status = "rolled_back" =>
                                 pg'[t] = "rolledback"
    <2> SUFFICES ASSUME ~events'.unsaved, NEW t \in Txs, tx'[t].status = "rolled_back"
                 PROVE  pg'[t] = "rolledback"
      BY Zenon
    <2>1. t # p
      BY <1>1, <1>4
    <2>2. ~events.unsaved /\ tx[t].status = "rolled_back" /\ pg'[t] = pg[t]
      BY <1>4, <1>5, <1>6, <2>1
    <2> QED BY <2>2, Answers, Zenon
  <1>16. \A t \in Txs : wrote'[t] = wrote[t]
    BY <1>2
  <1> QED
    BY <1>0, <1>3, <1>6, <1>7, <1>8, <1>9, <1>10, <1>12, <1>13, <1>14, <1>15, <1>16, StepKeeps, Zenon

\* After a restart nobody is in the middle of anything.
LEMMA RestartKeeps ==
  ASSUME TransactionsInv, Restart
  PROVE  TransactionsInv'
  <1>0. /\ TypeOK /\ proc \in [Procs -> Request] /\ \A t \in Txs : CreationOK(t)
        /\ \A p \in Procs : RequestOK(p) /\ RoleOK(p) /\ proc[p] \in Request
    BY Known
  <1>1. /\ proc' \in [Procs -> Request]
        /\ \A p \in Procs : \/ proc'[p] = proc[p] /\ proc[p].pc = "idle"
                            \/ /\ proc'[p].pc = "done" /\ proc'[p].job = proc[p].job
                               /\ proc'[p].back = proc[p].back /\ proc[p].pc # "idle"
    <2>1. /\ DOMAIN proc' = Procs
          /\ \A p \in Procs : proc'[p] = IF proc[p].pc = "idle" THEN proc[p]
                                         ELSE [proc[p] EXCEPT !.pc = "done"]
          /\ proc' = [p \in Procs |-> proc'[p]]
      BY DEF Restart
    <2>2. ASSUME NEW p \in Procs
          PROVE  /\ proc'[p] \in Request
                 /\ \/ proc'[p] = proc[p] /\ proc[p].pc = "idle"
                    \/ /\ proc'[p].pc = "done" /\ proc'[p].job = proc[p].job
                       /\ proc'[p].back = proc[p].back /\ proc[p].pc # "idle"
      <3>1. CASE proc[p].pc = "idle"
        BY <1>0, <2>1, <3>1
      <3>2. CASE proc[p].pc # "idle"
        <4>1. proc[p] \in Request /\ proc'[p] = [proc[p] EXCEPT !.pc = "done"]
          BY <1>0, <2>1, <3>2
        <4> QED BY <3>2, <4>1 DEF Request, Steps
      <3> QED BY <3>1, <3>2
    <2> QED BY <2>1, <2>2
  <1>2. /\ tx' \in [Txs -> [status : {"none", "open", "failed", "committed", "rolled_back",
                                      "uncertain", "expired"}, rev : Nat]]
        /\ \A t \in Txs : \/ tx'[t] = tx[t] /\ tx[t].status \notin Live
                          \/ /\ tx[t].status \in Live /\ tx'[t].status = "expired"
                             /\ tx'[t].rev = tx[t].rev + 1
    BY <1>0 DEF Restart, TypeOK
  <1>3. /\ run' \in [Runs -> [status : {"none", "reserved", "running", "succeeded", "failed",
                                        "cancelled"}, rev : Nat]]
        /\ \A x \in Runs : run'[x].rev = run[x].rev
    <2> DEFINE Receipt == [status : {"none", "reserved", "running", "succeeded", "failed",
                                     "cancelled"}, rev : Nat]
    <2>1. /\ \A x \in Runs : run'[x] = IF run[x].status \in {"reserved", "running"}
                                       THEN [run[x] EXCEPT !.status = "failed"] ELSE run[x]
          /\ run' = [x \in Runs |-> run'[x]]
      BY DEF Restart
    <2>2. ASSUME NEW x \in Runs
          PROVE  run'[x] \in Receipt /\ run'[x].rev = run[x].rev
      <3>1. run[x] \in Receipt
        BY <1>0 DEF TypeOK
      <3> QED BY <2>1, <3>1
    <2> QED BY <2>1, <2>2
  <1>4. /\ pg' \in [Txs -> {"none", "open", "aborted", "idle", "committed", "rolledback"}]
        /\ \A t \in Txs : pg'[t] \in {"none", "committed", "rolledback"}
        /\ \A t \in Txs : pg'[t] = "none" <=> pg[t] = "none"
        /\ \A t \in Txs : Closed(t) => pg'[t] = pg[t]
    BY <1>0 DEF Restart, Closed, TypeOK
  <1>5. /\ active' = {} /\ registry' = None /\ lock' = [t \in Txs |-> None]
        /\ UNCHANGED <<wrote, lapsed>> /\ events' \in [left : Nat, unsaved : BOOLEAN]
        /\ events'.unsaved = events.unsaved
    BY DEF Restart, Event, TransactionsInv
  <1>6. TypeOK'
    BY <1>0, <1>1, <1>2, <1>3, <1>4, <1>5 DEF TypeOK, Request
  <1>7. SessionInv'
    BY <1>4, <1>5, <1>6, Zenon DEF SessionInv, SessionsAreLive, OpenTransactionsAreOwned
  <1>8. ASSUME NEW p \in Procs PROVE RequestOK(p)'
    <2>a. RoleOK(p)
      BY <1>0
    <2>b. proc[p].pc = "idle" => proc[p] = NoRequest
      BY <2>a DEF RoleOK
    <2>0. RoleOK(p) /\ (proc[p].pc = "idle" => proc[p].job = "none")
      BY <2>a, <2>b DEF NoRequest
    <2>1. RoleOK(p)'
      <3>1. CASE proc'[p] = proc[p] /\ proc[p].pc = "idle"
        <4>1. proc'[p] = NoRequest
          BY <2>b, <3>1
        <4>2. /\ proc'[p].pc = "idle" /\ proc'[p].job = "none" /\ proc'[p].back = "raise"
          BY <4>1, NoRequestFields
        <4> QED BY <4>1, <4>2 DEF RoleOK
      <3>2. CASE /\ proc'[p].pc = "done" /\ proc'[p].job = proc[p].job
                 /\ proc'[p].back = proc[p].back
        BY <2>0, <3>2, Zenon DEF RoleOK
      <3> QED BY <1>1, <3>1, <3>2
    <2>2. proc'[p].pc \in {"idle", "done"} /\ (proc'[p].pc = "idle" => proc'[p].job = "none")
      BY <1>1, <2>0, Zenon
    <2> QED BY <2>1, <2>2, Zenon DEF RequestOK, Evicting, LockedSteps, ExpirySteps
  <1>9. ASSUME NEW t \in Txs PROVE CreationOK(t)' /\ CommitInHand(t)'
    <2>1. CommitInHand(t)'
      BY <1>2 DEF CommitInHand, Live
    <2>2. tx'[t].status = "none" <=> tx[t].status = "none"
      BY <1>2 DEF Live
    <2>3. CreationOK(t)'
      BY <1>0, <1>1, <1>4, <1>5, <2>2, Kinds, Zenon DEF CreationOK
    <2> QED BY <2>1, <2>3
  <1>10. RolledBackIsTrue' /\ OneLive'
    BY <1>2, <1>4, <1>5, Answers, Zenon DEF RolledBackIsTrue, OneLive, Live, Closed
  <1>11. ASSUME NEW t \in Txs, NEW x \in wrote'[t]
         PROVE  proc'[x].job = "run" /\ run'[x].rev < tx'[t].rev
    <2>1. x \in Runs /\ proc[x].job = "run" /\ run[x].rev < tx[t].rev
      BY <1>0, <1>5 DEF TransactionsInv, TypeOK
    <2>2. run[x].rev \in Nat /\ tx[t].rev \in Nat
      BY <1>0, <2>1, Zenon DEF TypeOK
    <2>3. proc'[x].job = "run" /\ run'[x].rev = run[x].rev
      BY <1>1, <1>3, <2>1, Kinds, Zenon
    <2>4. tx'[t].rev \in {tx[t].rev, tx[t].rev + 1}
      BY <1>2
    <2> QED BY <2>1, <2>2, <2>3, <2>4
  <1> QED
    BY <1>5, <1>7, <1>8, <1>9, <1>10, <1>11, Zenon DEF TransactionsInv

-----------------------------------------------------------------------------
(* The theorems *)

\* ConsoleService.__init__: there is no transaction and no request.
LEMMA InitTransactions == Init => TransactionsInv
  <1> SUFFICES ASSUME Init PROVE TransactionsInv
    OBVIOUS
  <1>1. PICK load \in Loads :
          /\ proc = [p \in Procs |-> IF p \in load.requests THEN NoRequest
                                     ELSE [NoRequest EXCEPT !.pc = "done"]]
          /\ events = [left |-> load.events, unsaved |-> FALSE]
    BY Zenon DEF Init
  <1>2. /\ proc \in [Procs -> Request]
        /\ \A p \in Procs : /\ proc[p].pc \in {"idle", "done"} /\ proc[p].job = "none"
                            /\ proc[p].back = "raise"
                            /\ proc[p].pc = "idle" => proc[p] = NoRequest
    <2>1. NoRequest \in Request /\ [NoRequest EXCEPT !.pc = "done"] \in Request
      BY Zenon DEF NoRequest, Request, Steps, Jobs
    <2> QED BY <1>1, <2>1 DEF NoRequest
  <1>3. TypeOK
    BY <1>2 DEF Init, TypeOK, Request
  <1>4. SessionInv
    BY <1>3 DEF Init, SessionInv, SessionsAreLive, OpenTransactionsAreOwned
  <1>5. ASSUME NEW p \in Procs PROVE RequestOK(p)
    <2>1. RoleOK(p)
      BY <1>2 DEF RoleOK
    <2> QED BY <1>2, <2>1, Zenon DEF RequestOK, Evicting, LockedSteps, ExpirySteps
  <1>6. \A t \in Txs : CreationOK(t) /\ CommitInHand(t)
    BY <1>2, Kinds DEF Init, CreationOK, CommitInHand, Live
  <1>7. RolledBackIsTrue /\ OneLive
    BY DEF Init, RolledBackIsTrue, OneLive, Live
  <1>8. events \in [left : Nat, unsaved : BOOLEAN] /\ \A t \in Txs : wrote[t] = {}
    BY <1>1, TransactionsAssumption DEF Init
  <1> QED
    BY <1>4, <1>5, <1>6, <1>7, <1>8 DEF TransactionsInv

\* A step of a request keeps the invariant.
LEMMA StepTransactions ==
  ASSUME TransactionsInv, NEW p \in Procs, Step(p)
  PROVE  TransactionsInv'
  <1>1. CASE Existing(p) \/ OpenTransaction(p) \/ InsertTransaction(p)
    BY <1>1, ExistingKeeps, OpenTransactionKeeps, InsertTransactionKeeps
  <1>2. CASE Look(p) \/ Find(p) \/ TakeLock(p) \/ Check(p)
    BY <1>2, LookKeeps, FindKeeps, TakeLockKeeps, CheckKeeps
  <1>3. CASE \/ ExpireLookup(p) \/ ExpireDrop(p) \/ ExpireUndo(p) \/ ExpireClose(p)
             \/ ExpireReceipt(p)
    BY <1>3, ExpireLookupKeeps, ExpireDropKeeps, ExpireUndoKeeps, ExpireCloseKeeps,
       ExpireReceiptKeeps
  <1>4. CASE \/ StoreReservation(p) \/ ClaimRun(p) \/ Execute(p) \/ Succeed(p)
             \/ FailRun(p) \/ FailTransaction(p)
    BY <1>4, StoreReservationKeeps, ClaimRunKeeps, ExecuteKeeps, SucceedKeeps, FailRunKeeps,
       FailTransactionKeeps
  <1>5. CASE Finish(p) \/ Uncertain(p) \/ Drop(p) \/ StoreOutcome(p)
    BY <1>5, FinishKeeps, UncertainKeeps, DropKeeps, StoreOutcomeKeeps
  <1> QED
    BY <1>1, <1>2, <1>3, <1>4, <1>5 DEF Step

\* Every step keeps the invariant.
LEMMA NextTransactions == TransactionsInv /\ [Next]_vars => TransactionsInv'
  <1> SUFFICES ASSUME TransactionsInv, [Next]_vars PROVE TransactionsInv'
    OBVIOUS
  <1>1. ASSUME NEW t \in Txs, BeginCreate(t) PROVE TransactionsInv'
    BY <1>1, BeginCreateKeeps, Kinds
  <1>2. ASSUME NEW t \in Txs, Lapse(t) PROVE TransactionsInv'
    BY <1>2, LapseKeeps
  <1>3. ASSUME NEW t \in Txs, NEW x \in Runs, Begin(x, "reserve", t) PROVE TransactionsInv'
    BY <1>3, BeginKeeps, Kinds DEF Jobs
  <1>4. ASSUME NEW t \in Txs, NEW f \in Finishers, NEW job \in {"commit", "rollback"},
               Begin(f, job, t)
        PROVE  TransactionsInv'
    BY <1>4, BeginKeeps, Kinds DEF Jobs
  <1>5. ASSUME NEW t \in Txs, NEW q \in Pollers, Begin(q, "poll", t) PROVE TransactionsInv'
    BY <1>5, BeginKeeps, Kinds DEF Jobs
  <1>6. ASSUME NEW q \in Pollers, BeginClose(q) PROVE TransactionsInv'
    BY <1>6, BeginCloseKeeps, Kinds
  <1>7. CASE Restart
    BY <1>7, RestartKeeps
  <1>8. CASE UNCHANGED vars
    <2>0. /\ tx' = tx /\ active' = active /\ lock' = lock /\ proc' = proc /\ pg' = pg
          /\ TypeOK /\ SessionsAreLive /\ OpenTransactionsAreOwned
      BY <1>8 DEF vars, TransactionsInv, SessionInv
    <2>a. TypeOK'
      BY <1>8, <2>0 DEF vars, TypeOK
    <2>b. SessionsAreLive'
      BY <2>0 DEF SessionsAreLive
    <2>c. OpenTransactionsAreOwned'
      BY <2>0, Zenon DEF OpenTransactionsAreOwned
    <2>1. SessionInv'
      BY <2>a, <2>b, <2>c DEF SessionInv
    <2>2. ASSUME NEW p \in Procs PROVE RequestOK(p)'
      BY <1>8, Zenon DEF vars, TransactionsInv, RequestOK, RoleOK, Evicting, Closed
    <2>3. ASSUME NEW t \in Txs PROVE CreationOK(t)' /\ CommitInHand(t)'
      BY <1>8, Zenon DEF vars, TransactionsInv, CreationOK, CommitInHand
    <2>4. RolledBackIsTrue' /\ OneLive'
      BY <1>8 DEF vars, TransactionsInv, RolledBackIsTrue, OneLive
    <2> QED
      BY <1>8, <2>1, <2>2, <2>3, <2>4 DEF vars, TransactionsInv
  <1> QED
    BY <1>1, <1>2, <1>3, <1>4, <1>5, <1>6, <1>7, <1>8, StepTransactions DEF Next

\* Whatever the interleaving of requests, deadlines, failing stores and
\* restarts, every request of the console relies only on what holds, and every
\* session, open transaction and commit has somebody who answers for it.
THEOREM Transactions_Invariant == Spec => []TransactionsInv
  BY InitTransactions, NextTransactions, PTL DEF Spec

\* No session without a live receipt, and no transaction is left open in
\* PostgreSQL: _expire_live_transaction, _finish_transaction and close
\* between them end every one that create_transaction opened.
THEOREM Sessions_Are_Owned == Spec => []SessionInv
  <1>1. TransactionsInv => SessionInv
    BY DEF TransactionsInv
  <1> QED BY <1>1, Transactions_Invariant, PTL

\* A receipt that says "rolled_back" is true, unless the store had failed.
THEOREM Rolled_Back_Is_True == Spec => []RolledBackIsTrue
  <1>1. TransactionsInv => RolledBackIsTrue
    BY DEF TransactionsInv
  <1> QED BY <1>1, Transactions_Invariant, PTL

-----------------------------------------------------------------------------
(* Commits *)

\* Only a commit request that holds the lock commits.
LEMMA OnlyFinishCommits ==
  ASSUME TransactionsInv, NEW p \in Procs, Step(p), NEW t \in Txs,
         pg'[t] = "committed", pg[t] # "committed"
  PROVE  /\ p \in Finishers /\ proc[p].pc = "finish" /\ proc[p].job = "commit"
         /\ proc[p].t = t /\ \A x \in wrote[t] : run[x].rev < proc[p].rev
  <1>0. TypeOK /\ RequestOK(p) /\ RoleOK(p)
    BY Known
  <1>1. CASE Finish(p)
    <2>1. proc[p].pc = "finish" /\ proc[p].t \in Txs
      BY <1>0, <1>1, Zenon DEF Finish, RequestOK
    <2>2. proc[p].t = t
      BY <1>0, <1>1, <2>1 DEF Finish, Undone, TypeOK
    <2>3. proc[p].job = "commit"
      BY <1>0, <1>1, <2>1, <2>2, Zenon DEF Finish, Undone, TypeOK
    <2> QED BY <1>0, <2>1, <2>2, <2>3, Zenon DEF RequestOK, RoleOK
  <1>2. CASE OpenTransaction(p) \/ InsertTransaction(p) \/ ExpireClose(p)
    BY <1>0, <1>2 DEF OpenTransaction, InsertTransaction, ExpireClose, Undone, TypeOK
  <1>3. CASE ExpireUndo(p) \/ Execute(p)
    BY <1>0, <1>3 DEF ExpireUndo, Execute, TypeOK
  <1>4. CASE UNCHANGED pg
    BY <1>4
  <1> QED
    BY <1>1, <1>2, <1>3, <1>4, Zenon DEF Step, Existing, Look, Find, TakeLock, Check, ExpireLookup,
       ExpireDrop, ExpireReceipt, StoreReservation, ClaimRun, Succeed, FailRun,
       FailTransaction, Uncertain, Drop, StoreOutcome

\* A receipt that recorded a failure is never marked committed: the store
\* compares the revision that the commit was confirmed for.
LEMMA FailedIsNotCommitted ==
  ASSUME TransactionsInv, NEW p \in Procs, Step(p), NEW t \in Txs, tx[t].status = "failed"
  PROVE  tx'[t].status # "committed"
  <1>0. TypeOK /\ RequestOK(p) /\ RoleOK(p) /\ tx[t].status # "committed"
    BY Known, Zenon
  <1>1. CASE StoreOutcome(p)
    <2>1. /\ proc[p].pc = "receipt" /\ proc[p].t \in Txs /\ tx[proc[p].t].status # "none"
          /\ proc[p].job = "commit" => /\ tx[proc[p].t].rev >= proc[p].rev
                                       /\ tx[proc[p].t].rev = proc[p].rev =>
                                            tx[proc[p].t].status = "open"
      BY <1>0, <1>1, Zenon DEF StoreOutcome, RequestOK
    <2>2. proc[p].rev \in Nat
      BY Known, Zenon DEF Request
    <2>3. CASE proc[p].job = "commit"
      <3>1. SaveOutcome(proc[p].t, proc[p].rev, "committed")
        BY <1>1, <2>3, Zenon DEF StoreOutcome
      <3>2. /\ proc[p].t # t => tx'[t] = tx[t]
            /\ \/ tx'[proc[p].t] = tx[proc[p].t]
               \/ tx[proc[p].t].rev = proc[p].rev
        BY <2>1, <2>2, <3>1, SaveFacts, Zenon DEF Saved
      <3> QED BY <1>0, <2>1, <2>3, <3>2, Zenon
    <2>4. CASE proc[p].job # "commit"
      <3>1. SaveOutcome(proc[p].t, proc[p].rev, "rolled_back")
        BY <1>1, <2>4, Zenon DEF StoreOutcome
      <3> QED BY <1>0, <2>1, <2>2, <3>1, SaveFacts, Zenon DEF Saved
    <2> QED BY <2>3, <2>4, Zenon
  <1>2. CASE Uncertain(p)
    <2>1. proc[p].rev \in Nat /\ proc[p].t \in Txs /\ tx[proc[p].t].status # "none"
      BY <1>0, <1>2, Known, Zenon DEF Request, Uncertain, RequestOK
    <2>2. SaveOutcome(proc[p].t, proc[p].rev, "uncertain")
      BY <1>2, Zenon DEF Uncertain
    <2> QED BY <1>0, <2>1, <2>2, SaveFacts DEF Saved
  <1>3. CASE FailTransaction(p)
    BY <1>0, <1>3 DEF FailTransaction, TypeOK
  <1>4. CASE StoreReservation(p)
    <2>1. tx' = tx \/ tx' = [tx EXCEPT ![proc[p].t].rev = @ + 1]
      BY <1>4 DEF StoreReservation
    <2>2. CASE tx' = [tx EXCEPT ![proc[p].t].rev = @ + 1]
      <3>1. tx'[t] = tx[t] \/ tx'[t] = [tx[t] EXCEPT !.rev = @ + 1]
        BY <1>0, <2>2 DEF TypeOK
      <3>2. tx[t] \in [status : {"none", "open", "failed", "committed", "rolled_back",
                                "uncertain", "expired"}, rev : Nat]
        BY <1>0 DEF TypeOK
      <3> QED BY <1>0, <3>1, <3>2
    <2> QED BY <1>0, <2>1, <2>2
  <1>5. CASE InsertTransaction(p)
    <2>1. tx' = tx \/ tx' = [tx EXCEPT ![p] = [status |-> "open", rev |-> 1]]
      BY <1>5, Zenon DEF InsertTransaction
    <2>2. tx'[t] = tx[t] \/ tx'[t].status = "open"
      BY <1>0, <2>1 DEF TypeOK
    <2> QED BY <1>0, <2>2, Zenon
  <1>6. CASE Find(p) \/ ExpireLookup(p) \/ ExpireReceipt(p)
    <2>1. tx' = tx \/ tx' = Expired(proc[p].t)
      BY <1>6, Zenon DEF Find, ExpireLookup, ExpireReceipt
    <2>2. \/ tx'[t] = tx[t]
          \/ tx'[t].status = "expired"
      BY <1>0, <2>1 DEF Expired, TypeOK
    <2> QED BY <1>0, <2>2, Zenon
  <1>7. CASE UNCHANGED tx
    BY <1>0, <1>7, Zenon
  <1> QED
    BY <1>1, <1>2, <1>3, <1>4, <1>5, <1>6, <1>7, Zenon
    DEF Step, Existing, OpenTransaction, Look, TakeLock,
       Check, ExpireDrop, ExpireUndo, ExpireClose, ClaimRun, Execute, Succeed, FailRun,
       Finish, Drop

\* What COMMIT makes permanent is what the user confirmed: every statement in
\* the transaction was reserved at an earlier revision than the confirmed one,
\* and a receipt with a failed statement is not turned into "committed".
THEOREM Commit_Is_Confirmed == Spec => CommitIsConfirmed
  <1> DEFINE Confirmed(t) ==
               /\ pg'[t] = "committed" /\ pg[t] # "committed" =>
                    \E p \in Finishers :
                      /\ proc[p].pc = "finish" /\ proc[p].job = "commit" /\ proc[p].t = t
                      /\ \A x \in wrote[t] : run[x].rev < proc[p].rev
               /\ tx[t].status = "failed" => tx'[t].status # "committed"
  <1>1. ASSUME TransactionsInv, [Next]_vars, NEW t \in Txs
        PROVE  Confirmed(t)
    <2>0. TypeOK
      BY <1>1, Known, Zenon
    <2>1. ASSUME NEW p \in Procs, Step(p) PROVE Confirmed(t)
      <3>1. tx[t].status = "failed" => tx'[t].status # "committed"
        BY <1>1, <2>1, FailedIsNotCommitted
      <3>2. pg'[t] = "committed" /\ pg[t] # "committed" =>
              /\ p \in Finishers /\ proc[p].pc = "finish" /\ proc[p].job = "commit"
              /\ proc[p].t = t /\ \A x \in wrote[t] : run[x].rev < proc[p].rev
        BY <1>1, <2>1, OnlyFinishCommits
      <3> QED BY <3>1, <3>2
    <2>2. CASE Restart
      BY <1>1, <2>0, <2>2 DEF Restart, Closed, Live, TypeOK
    <2>3. CASE UNCHANGED <<tx, pg>>
      BY <2>3
    <2> QED
      BY <1>1, <2>1, <2>2, <2>3, Zenon DEF Next, vars, BeginCreate, Lapse, Begin, BeginClose
  <1>2. TransactionsInv /\ [Next]_vars => \A t \in Txs : Confirmed(t)
    BY <1>1
  <1> QED
    BY <1>2, Transactions_Invariant, PTL DEF Spec, CommitIsConfirmed
=============================================================================
