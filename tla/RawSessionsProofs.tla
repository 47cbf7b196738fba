-------------------------- MODULE RawSessionsProofs -------------------------
(***************************************************************************)
(* What holds of the database sessions of the console, for every number of *)
(* sessions and requests, every script and every limit.                    *)
(***************************************************************************)
EXTENDS RawSessionRuns, RawSessionControl, FiniteSetTheorems

USE Raw_Constants

-----------------------------------------------------------------------------
(* The invariant *)

\* The steps of the sessions and of the shutdown.
Manages ==
    \/ \E s \in Sessions : \/ BeginCreate(s) \/ ConnectRaw(s) \/ Register(s) \/ LeaveOpening(s)
                           \/ Cancel(s) \/ CloseSession(s) \/ Reap(s) \/ ShutdownCancel(s)
    \/ ShutdownClose \/ BeginShutdown \/ EndShutdown

\* Opening, signalling and closing sessions, one lemma for each step.
LEMMA Manages_Inv ==
    ASSUME RawInv, Manages
    PROVE  RawInv'
  BY Opens_Inv, Cancel_Inv, Idle_Closes_Inv, ShutdownCancel_Inv, ShutdownClose_Inv,
     Shutdown_Ends_Inv DEF Manages

\* The steps of the requests.
Serves(r) ==
    \/ Reserve(r) \/ Start(r) \/ History(r) \/ PreparePolicy(r) \/ Statement(r) \/ Transfer(r)
    \/ Check(r) \/ CommitWhole(r) \/ Except(r) \/ TrackPending(r) \/ Release(r)
    \/ AbandonDownload(r) \/ Disconnect(r) \/ Revoke(r)

\* The steps of a request, one lemma for each.
LEMMA Serves_Inv ==
    ASSUME RawInv, NEW r \in Reqs, Serves(r)
    PROVE  RawInv'
  BY Reserve_Inv, Start_Inv, History_Inv, PreparePolicy_Inv, Statement_Inv, Transfer_Inv,
     Check_Inv, CommitWhole_Inv, Except_Inv, TrackPending_Inv, Release_Inv,
     AbandonDownload_Inv, Disconnect_Inv, Revoke_Inv DEF Serves

\* A step is of the sessions, or of a request.
LEMMA Next_Cases ==
    ASSUME Next
    PROVE  \/ Manages
           \/ \E r \in Reqs : \/ Serves(r)
                              \/ \E s \in Sessions : Review(r, s)
                              \/ \E s \in Sessions : \E task \in tasks[r] : Ask(r, s, task)
  BY Zenon DEF Next, Opener, Worker, Shutdown, Manages, Serves

\* Every step of the service keeps the invariant.
LEMMA Raw_Step ==
    ASSUME RawInv, [Next]_vars
    PROVE  RawInv'
  <1>1. CASE Next
    BY <1>1, Next_Cases, Serves_Inv, Manages_Inv, Review_Inv, Ask_Inv
  <1>2. CASE UNCHANGED vars
    <2> UNCHANGED <<sess, req, durable>> /\ UNCHANGED <<registry, opening, create, closed, shut>>
        /\ UNCHANGED <<tasks, events>>
      BY <1>2 DEF vars
    <2>2. \A x \in Sessions : SameSession(x) /\ Quiet(x)
      BY DEF SameSession, Quiet
    <2>3. \A r \in Reqs : Same(r)
      BY DEF Same
    <2>4. LockInv'
      <3>1. LockInv
        BY DEF RawInv
      <3>2. RawTypes' /\ ShutdownOK'
        BY <3>1 DEF LockInv, RawTypes, ShutdownOK
      <3>3. \A s \in Sessions : SessionOK(s)'
        BY <3>1, Zenon DEF LockInv, SessionOK
      <3>4. \A r \in Reqs : RequestOK(r)'
        <4> SUFFICES ASSUME NEW r \in Reqs PROVE RequestOK(r)'
          OBVIOUS
        <4>1. RequestOK(r) /\ sess' = sess /\ req' = req
          BY <3>1 DEF LockInv
        <4> QED BY <4>1, SMTT(15), Z3T(15), ZenonT(40) DEF RequestOK
      <3> QED BY <3>2, <3>3, <3>4 DEF LockInv
    <2> QED BY <2>2, <2>3, <2>4, Signals_Inv
  <1> QED BY <1>1, <1>2

\* Sessions and their locks, whole runs, the list of what is pending and the
\* reviews of it are as RawSessionService and RawSession mean them to be.
THEOREM Raw_Invariant == Spec => []RawInv
  BY Raw_Init, Raw_Step, PTL DEF Spec

-----------------------------------------------------------------------------
(* The limits on sessions *)

\* No session is added to those that are open or being opened: they stay
\* within the limits.
LEMMA Fewer_Sessions ==
    ASSUME BoundInv,
           (registry \cup opening)' \subseteq registry \cup opening
    PROVE  BoundInv'
  <1> DEFINE S == registry \cup opening
             T == registry' \cup opening'
  <1> IsFiniteSet(S) /\ T \subseteq S
    BY DEF BoundInv
  <1> IsFiniteSet(T) /\ Cardinality(T) <= Cardinality(S)
    BY FS_Subset
  <1>3. Cardinality(S) \in Nat /\ Cardinality(T) \in Nat
    BY FS_CardinalityType
  <1>4. Cardinality(T) <= MaximumLive
    <2>1. Cardinality(S) <= MaximumLive
      BY DEF BoundInv, SessionsAreBounded
    <2> HIDE DEF S, T
    <2> QED BY <1>3, <2>1
  <1>5. ASSUME NEW s \in T
        PROVE  /\ Cardinality(Theirs(T, s)) <= MaximumOwned
               /\ \A x \in Theirs(T, s) : Console[x] = Console[s] => x = s
    <2> Theirs(T, s) \subseteq Theirs(S, s) /\ Theirs(S, s) \subseteq S
      BY DEF Theirs
    <2>2. IsFiniteSet(Theirs(S, s))
      BY FS_Subset, Zenon
    <2>3. /\ IsFiniteSet(Theirs(T, s))
          /\ Cardinality(Theirs(T, s)) <= Cardinality(Theirs(S, s))
      BY <2>2, FS_Subset, Zenon
    <2>4. Cardinality(Theirs(S, s)) \in Nat /\ Cardinality(Theirs(T, s)) \in Nat
      BY <2>2, <2>3, FS_CardinalityType
    <2>5. /\ Cardinality(Theirs(S, s)) <= MaximumOwned
          /\ \A x \in Theirs(S, s) : Console[x] = Console[s] => x = s
      BY Zenon DEF BoundInv, SessionsAreBounded
    <2> HIDE DEF S, T
    <2> QED BY <2>3, <2>4, <2>5
  <1> QED BY <1>4, <1>5 DEF BoundInv, SessionsAreBounded, Theirs

\* create takes a place only below the limits, and only for a console that
\* has no session.
LEMMA One_More_Session ==
    ASSUME NEW s \in Sessions, BoundInv,
           Cardinality(registry) + Cardinality(opening) < MaximumLive,
           Cardinality(Theirs(registry, s)) + Cardinality(Theirs(opening, s)) < MaximumOwned,
           \A x \in Theirs(registry \cup opening, s) : Console[x] # Console[s],
           registry' = registry, opening' = opening \cup {s}
    PROVE  BoundInv'
  <1> DEFINE S == registry \cup opening
             T == S \cup {s}
  <1> IsFiniteSet(S) /\ SessionsAreBounded
    BY DEF BoundInv
  <1>1. ASSUME NEW A, NEW B, IsFiniteSet(A \cup B), NEW n \in Nat,
               Cardinality(A) + Cardinality(B) < n
        PROVE  /\ IsFiniteSet(A \cup B \cup {s})
               /\ Cardinality(A \cup B \cup {s}) <= n
    <2>1. IsFiniteSet(A) /\ IsFiniteSet(B)
      BY <1>1, FS_Subset
    <2>2. /\ IsFiniteSet(A \cap B) /\ Cardinality(A \cap B) \in Nat
          /\ Cardinality(A) \in Nat /\ Cardinality(B) \in Nat
      BY <2>1, FS_Intersection, FS_CardinalityType, Zenon
    <2>3. Cardinality(A \cup B) = Cardinality(A) + Cardinality(B) - Cardinality(A \cap B)
      BY <2>1, FS_Union
    <2>4. /\ IsFiniteSet((A \cup B) \cup {s})
          /\ \/ Cardinality((A \cup B) \cup {s}) = Cardinality(A \cup B)
             \/ Cardinality((A \cup B) \cup {s}) = Cardinality(A \cup B) + 1
      BY <1>1, FS_AddElement, Zenon
    <2> QED BY <1>1, <2>2, <2>3, <2>4
  <1>2. IsFiniteSet(T) /\ Cardinality(T) <= MaximumLive
    BY <1>1
  <1>3. Theirs(T, s) = Theirs(registry, s) \cup Theirs(opening, s) \cup {s}
    BY DEF Theirs
  <1>4. IsFiniteSet(Theirs(registry, s) \cup Theirs(opening, s))
    <2>1. Theirs(registry, s) \cup Theirs(opening, s) \subseteq S
      BY DEF Theirs
    <2> QED BY <2>1, FS_Subset
  <1>5. Cardinality(Theirs(T, s)) <= MaximumOwned
    BY <1>1, <1>3, <1>4, Zenon
  <1>6. ASSUME NEW y \in T
        PROVE  /\ Cardinality(Theirs(T, y)) <= MaximumOwned
               /\ \A x \in Theirs(T, y) : Console[x] = Console[y] => x = y
    <2>1. CASE Owner[y] = Owner[s]
      <3>1. Theirs(T, y) = Theirs(T, s)
        BY <2>1 DEF Theirs
      <3>2. ASSUME NEW x \in Theirs(T, y), Console[x] = Console[y], x # y
            PROVE  FALSE
        <4>1. CASE y = s
          <5>1. x \in Theirs(S, s)
            BY <3>2, <4>1 DEF Theirs
          <5> QED BY <3>2, <4>1, <5>1
        <4>2. CASE x = s
          <5>1. y \in Theirs(S, s)
            BY <2>1, <3>2, <4>2 DEF Theirs
          <5> QED BY <3>2, <4>2, <5>1
        <4>3. CASE x # s /\ y # s
          <5>1. y \in S /\ x \in Theirs(S, y)
            BY <3>2, <4>3 DEF Theirs
          <5> QED BY <3>2, <5>1 DEF SessionsAreBounded
        <4> QED BY <4>1, <4>2, <4>3
      <3> QED BY <1>5, <3>1, <3>2
    <2>2. CASE Owner[y] # Owner[s]
      <3>1. y \in S /\ Theirs(T, y) = Theirs(S, y)
        BY <2>2 DEF Theirs
      <3> QED BY <3>1, Zenon DEF SessionsAreBounded
    <2> QED BY <2>1, <2>2
  <1>7. (registry \cup opening)' = T
    OBVIOUS
  <1> HIDE DEF S, T
  <1> QED BY <1>2, <1>6, <1>7, Zenon DEF BoundInv, SessionsAreBounded, Theirs

\* create takes a place only below the limits.
LEMMA BeginCreate_Bound ==
    ASSUME BoundInv, NEW s \in Sessions, BeginCreate(s)
    PROVE  BoundInv'
  <1> USE DEF BeginCreate
  <1>1. CASE UNCHANGED opening
    <2>1. (registry \cup opening)' \subseteq registry \cup opening
      BY <1>1
    <2> QED BY <2>1, Fewer_Sessions
  <1>2. CASE opening' # opening
    <2> /\ opening' = opening \cup {s} /\ registry' = registry
        /\ ~(Cardinality(registry) + Cardinality(opening) >= MaximumLive)
        /\ ~(Cardinality(Theirs(registry, s)) + Cardinality(Theirs(opening, s)) >= MaximumOwned)
        /\ \A x \in Theirs(registry \cup opening, s) : Console[x] # Console[s]
      BY <1>2, Zenon
    <2>2. IsFiniteSet(registry) /\ IsFiniteSet(opening)
      BY FS_Subset DEF BoundInv
    <2>3. /\ IsFiniteSet(Theirs(registry, s)) /\ IsFiniteSet(Theirs(opening, s))
      <3>1. Theirs(registry, s) \subseteq registry /\ Theirs(opening, s) \subseteq opening
        BY DEF Theirs
      <3> QED BY <2>2, <3>1, FS_Subset
    <2>4. /\ Cardinality(registry) \in Nat /\ Cardinality(opening) \in Nat
          /\ Cardinality(Theirs(registry, s)) \in Nat /\ Cardinality(Theirs(opening, s)) \in Nat
      BY <2>2, <2>3, FS_CardinalityType
    <2>5. Cardinality(registry) + Cardinality(opening) < MaximumLive
      BY <2>4
    <2>6. Cardinality(Theirs(registry, s)) + Cardinality(Theirs(opening, s)) < MaximumOwned
      BY <2>4
    <2> QED BY <2>5, <2>6, One_More_Session, Zenon
  <1> QED BY <1>1, <1>2

\* Only create adds a session.
LEMMA Manages_Bound ==
    ASSUME RawInv, Manages, \A s \in Sessions : ~BeginCreate(s)
    PROVE  (registry \cup opening)' \subseteq registry \cup opening
  <1>1. ASSUME NEW s \in Sessions, Register(s)
        PROVE  (registry \cup opening)' \subseteq registry \cup opening
    <2>1. SessionOK(s) /\ create[s] = "register"
      BY <1>1 DEF RawInv, LockInv, Register
    <2>2. s \in opening
      BY <2>1 DEF SessionOK
    <2> QED BY <1>1, <2>2 DEF Register
  <1>2. ASSUME NEW s \in Sessions, ConnectRaw(s) \/ LeaveOpening(s)
        PROVE  (registry \cup opening)' \subseteq registry \cup opening
    BY <1>2 DEF ConnectRaw, LeaveOpening
  <1>3. ASSUME NEW s \in Sessions, Cancel(s) \/ CloseSession(s) \/ Reap(s)
        PROVE  (registry \cup opening)' \subseteq registry \cup opening
    BY <1>3 DEF Cancel, CloseSession, Reap
  <1>4. ASSUME NEW s \in Sessions, ShutdownCancel(s)
        PROVE  (registry \cup opening)' \subseteq registry \cup opening
    BY <1>4 DEF ShutdownCancel
  <1>5. CASE ShutdownClose
    BY <1>5 DEF ShutdownClose
  <1>6. CASE BeginShutdown \/ EndShutdown
    BY <1>6 DEF BeginShutdown, EndShutdown
  <1> QED BY <1>1, <1>2, <1>3, <1>4, <1>5, <1>6 DEF Manages

\* The steps of a request open and close no session.
LEMMA Serves_Bound ==
    ASSUME NEW r \in Reqs, Serves(r)
    PROVE  UNCHANGED <<registry, opening>>
  BY Zenon DEF Serves, Reserve, Start, History, PreparePolicy, Statement, Transfer, Check,
     CommitWhole, Except, TrackPending, Release, AbandonDownload, Disconnect, Revoke,
     OnlyReq, OnlyConnection

\* Every step keeps sessions within the limits.
LEMMA Bound_Step ==
    ASSUME RawInv, BoundInv, [Next]_vars
    PROVE  BoundInv'
  <1>1. CASE \E s \in Sessions : BeginCreate(s)
    BY <1>1, BeginCreate_Bound
  <1>2. CASE Next /\ \A s \in Sessions : ~BeginCreate(s)
    <2>1. CASE Manages
      BY <1>2, <2>1, Manages_Bound, Fewer_Sessions
    <2>2. ASSUME NEW r \in Reqs, Serves(r)
          PROVE  BoundInv'
      <3>1. UNCHANGED <<registry, opening>>
        BY <2>2, Serves_Bound
      <3> QED BY <3>1, Fewer_Sessions
    <2>3. ASSUME NEW r \in Reqs, NEW s \in Sessions,
                 Review(r, s) \/ \E task \in tasks[r] : Ask(r, s, task)
          PROVE  BoundInv'
      <3>1. UNCHANGED <<registry, opening>>
        BY <2>3, Zenon DEF Review, Ask
      <3> QED BY <3>1, Fewer_Sessions
    <2> QED BY <1>2, <2>1, <2>2, <2>3, Next_Cases
  <1>3. CASE UNCHANGED vars
    <2>1. UNCHANGED <<registry, opening>>
      BY <1>3 DEF vars
    <2> QED BY <2>1, Fewer_Sessions
  <1> QED BY <1>1, <1>2, <1>3

\* The service begins without sessions.
LEMMA Bound_Init ==
    ASSUME Init
    PROVE  BoundInv
  <1>1. registry \cup opening = {}
    BY DEF Init
  <1>2. IsFiniteSet({}) /\ Cardinality({}) = 0
    BY FS_EmptySet
  <1>3. 0 <= MaximumLive
    BY Raw_Constants
  <1> QED BY <1>1, <1>2, <1>3 DEF BoundInv, SessionsAreBounded

-----------------------------------------------------------------------------
(* What the invariant gives *)

\* Sessions keep to the limits, and who sends commands on a connection holds
\* the operation lock of its session (create, claim, start_reserved, release).
THEOREM Operation_Is_Owned == Spec => []OperationIsOwned
  <1>1. RawInv /\ BoundInv => OperationIsOwned
    <2>1. SUFFICES ASSUME RawInv, BoundInv
                   PROVE  OperationIsOwned
      OBVIOUS
    <2> LockInv /\ SessionsAreBounded
      BY <2>1 DEF RawInv, BoundInv
    <2>2. ASSUME NEW r \in Reqs, req[r].pc \in Using
          PROVE  /\ sess[req[r].s].operation = r /\ sess[req[r].s].status = "running"
                 /\ sess[req[r].s].started
      BY <2>2, Uses
    <2> QED BY <2>1, <2>2 DEF OperationIsOwned
  <1>2. Spec => []BoundInv
    <2>1. Init => BoundInv
      BY Bound_Init
    <2>2. RawInv /\ BoundInv /\ [Next]_vars => BoundInv'
      BY Bound_Step
    <2> QED BY <2>1, <2>2, Raw_Invariant, PTL DEF Spec
  <1> QED BY <1>1, <1>2, Raw_Invariant, PTL

\* A run in one transaction is durable as a whole or not at all, as its status
\* says (run).
THEOREM Whole_Run_Is_Atomic == Spec => []WholeRunIsAtomic
  <1>1. RawInv => WholeRunIsAtomic
    <2>1. SUFFICES ASSUME RawInv, NEW r \in Reqs, Whole(r), req[r].pc = "done"
                   PROVE  /\ Own(r) \subseteq durable \/ Own(r) \cap durable = {}
                          /\ req[r].status = "succeeded" => Own(r) \subseteq durable
                          /\ req[r].status \in {"cancelled", "failed"} => Own(r) \cap durable = {}
      BY DEF WholeRunIsAtomic
    <2>2. WholeOK(r) /\ Own(r) \subseteq Traces(r)
      BY <2>1, Own_Traces DEF RawInv
    <2>3. durable \cap Traces(r) = {} => Own(r) \cap durable = {}
      BY <2>2
    <2> QED BY <2>1, <2>2, <2>3 DEF WholeOK
  <1> QED BY <1>1, Raw_Invariant, PTL

\* When the shutdown has ended no session has a connection (close, create).
THEOREM Shutdown_Closes_Everything == Spec => []ShutdownClosesEverything
  <1>1. RawInv => ShutdownClosesEverything
    <2>1. SUFFICES ASSUME RawInv, shut.pc = "done"
                   PROVE  registry = {} /\ \A s \in Sessions : sess[s].txn \in {"closed", "unknown"}
      BY DEF ShutdownClosesEverything
    <2> LockInv /\ registry = {} /\ opening = {}
      BY <2>1 DEF RawInv, LockInv, ShutdownOK
    <2>3. ASSUME NEW s \in Sessions
          PROVE  sess[s].txn = "closed"
      <3>1. SessionOK(s) /\ sess[s].status \in {"none", "open", "running", "closed"}
        BY Raw_Records, Session_Fields DEF LockInv
      <3> QED BY <3>1 DEF SessionOK
    <2> QED BY <2>3
  <1> QED BY <1>1, Raw_Invariant, PTL

-----------------------------------------------------------------------------
(* What a step may send *)

\* Only a statement of a run that succeeds adds to the results.
LEMMA Done_Serves ==
    ASSUME RawInv, NEW r \in Reqs, Serves(r), ~Statement(r)
    PROVE  req'[r].done = req[r].done
  <1> req \in [Reqs -> RequestRecord] /\ req[r] \in RequestRecord
    BY DEF RawInv, LockInv, RawTypes
  <1>2. CASE Reserve(r)
    BY <1>2 DEF Reserve, RequestRecord
  <1>3. CASE Start(r)
    BY <1>3 DEF Start, Ends, Goto, RequestRecord
  <1>4. CASE History(r)
    BY <1>4 DEF History, Ends, Goto, Raises, RequestRecord
  <1>5. CASE PreparePolicy(r)
    BY <1>5 DEF PreparePolicy, Goto, Raises, Breaks, RequestRecord
  <1>6. CASE Transfer(r)
    BY <1>6 DEF Transfer, Ends, RequestRecord
  <1>7. CASE Check(r)
    BY <1>7 DEF Check, Goto, Raises, RequestRecord
  <1>8. CASE CommitWhole(r)
    BY <1>8 DEF CommitWhole, Breaks, Ends, Raises, RequestRecord
  <1>9. CASE Except(r)
    BY <1>9 DEF Except, Ends, RequestRecord
  <1>10. CASE TrackPending(r) \/ Release(r)
    BY <1>10 DEF TrackPending, Release, Goto, RequestRecord
  <1>11. CASE AbandonDownload(r) \/ Disconnect(r) \/ Revoke(r)
    BY <1>11 DEF AbandonDownload, Disconnect, Revoke, RequestRecord
  <1> QED BY <1>2, <1>3, <1>4, <1>5, <1>6, <1>7, <1>8, <1>9, <1>10, <1>11 DEF Serves

\* A request that has not been asked has no result.
LEMMA Done_Asks ==
    ASSUME RawInv, RawInv', NEW r \in Reqs, NEW s \in Sessions,
           Review(r, s) \/ \E task \in tasks[r] : Ask(r, s, task)
    PROVE  req'[r].done = req[r].done
  <1> req[r].pc = "idle" /\ req \in [Reqs -> RequestRecord]
    BY Zenon DEF Review, Ask, RawInv, LockInv, RawTypes
  <1>2. req[r] \in RequestRecord
    OBVIOUS
  <1>3. CASE Review(r, s)
    <2>1. req'[r] = [req[r] EXCEPT !.s = s, !.exp = sess[s].rev, !.seen = sess[s].pending,
                                   !.partly = sess[s].truncated]
      BY <1>3 DEF Review
    <2> QED BY <1>2, <2>1 DEF RequestRecord
  <1>4. ASSUME NEW task \in tasks[r], Ask(r, s, task)
        PROVE  req'[r].done = req[r].done
    <2> DEFINE pc == IF task.kind = "run" THEN "reserve" ELSE "ticket"
    <2>1. req'[r] = [req[r] EXCEPT !.pc = pc, !.s = s, !.kind = task.kind, !.mode = task.mode,
                                   !.script = task.script]
      BY <1>4, Zenon DEF Ask
    <2> HIDE DEF pc
    <2> QED BY <1>2, <2>1 DEF RequestRecord
  <1> QED BY <1>3, <1>4

\* The request that a step is of.
LEMMA Others_Stay ==
    ASSUME RawInv, NEW r \in Reqs, NEW o \in Reqs, r # o,
           \/ Serves(o)
           \/ \E s \in Sessions : Review(o, s)
           \/ \E s \in Sessions : \E task \in tasks[o] : Ask(o, s, task)
    PROVE  req'[r] = req[r]
  <1> req \in [Reqs -> RequestRecord]
    BY DEF RawInv, LockInv, RawTypes
  <1>1. CASE \E s \in Sessions : Review(o, s)
    BY <1>1, Zenon DEF Review
  <1>2. ASSUME NEW s \in Sessions, NEW task \in tasks[o], Ask(o, s, task)
        PROVE  req'[r] = req[r]
    <2> DEFINE pc == IF task.kind = "run" THEN "reserve" ELSE "ticket"
               q == [req[o] EXCEPT !.pc = pc, !.s = s, !.kind = task.kind, !.mode = task.mode,
                                   !.script = task.script]
    <2>1. req' = [req EXCEPT ![o] = q]
      BY <1>2 DEF Ask
    <2> HIDE DEF q
    <2> QED BY <2>1
  <1>3. CASE Serves(o)
    <2>1. CASE Statement(o)
      BY <2>1 DEF Statement, Raises, Breaks, Continues
    <2>2. CASE Transfer(o) \/ CommitWhole(o) \/ Except(o)
      BY <2>2 DEF Transfer, CommitWhole, Except, Ends, Raises, Breaks
    <2>3. CASE Reserve(o) \/ Start(o) \/ History(o)
      BY <2>3 DEF Reserve, Start, History, Goto, Ends, Raises
    <2>4. CASE PreparePolicy(o) \/ Check(o)
      BY <2>4, Zenon DEF PreparePolicy, Check, Goto, Raises, Breaks
    <2>5. CASE TrackPending(o) \/ Release(o) \/ AbandonDownload(o) \/ Disconnect(o) \/ Revoke(o)
      BY <2>5 DEF TrackPending, Release, AbandonDownload, Disconnect, Revoke, Goto
    <2> QED BY <1>3, <2>1, <2>2, <2>3, <2>4, <2>5 DEF Serves
  <1> QED BY <1>1, <1>2, <1>3

\* Only three kinds of step make statements durable.
LEMMA Durable_Serves ==
    ASSUME NEW r \in Reqs,
           \/ Serves(r)
           \/ \E s \in Sessions : Review(r, s)
           \/ \E s \in Sessions : \E task \in tasks[r] : Ask(r, s, task),
           ~Statement(r), ~Transfer(r), ~CommitWhole(r)
    PROVE  durable' = durable
  BY Zenon DEF Serves, Reserve, Start, History, PreparePolicy, Check, Except, TrackPending, Release,
         AbandonDownload, Disconnect, Revoke, OnlyReq, Review, Ask

\* What a step is to a request: of somebody else, of the sessions, or its own.
LEMMA Sends_Cases ==
    ASSUME RawInv, Next, NEW r \in Reqs
    PROVE  \/ req'[r] = req[r]
           \/ durable' = durable /\ req'[r].done = req[r].done
           \/ Statement(r) \/ Transfer(r) \/ CommitWhole(r)
  <1>1. LockInv /\ RawInv'
    BY Raw_Step DEF RawInv
  <1>2. CASE Manages
    <2>1. durable' = durable /\ (req' = req \/ \E s \in Sessions : req' = Stopped(s))
      BY <1>2, Zenon DEF Manages, BeginCreate, ConnectRaw, Register, LeaveOpening, Cancel, CloseSession,
                  Reap, ShutdownCancel, ShutdownClose, BeginShutdown, EndShutdown
    <2>2. ASSUME NEW s \in Sessions, req' = Stopped(s)
          PROVE  req'[r].done = req[r].done
      <3>1. Same(r) \/ Finishes(r)
        BY <1>1, <2>2, Stopped_Same
      <3> QED BY <3>1 DEF Same, Finishes
    <2> QED BY <2>1, <2>2
  <1>3. ASSUME NEW o \in Reqs,
               \/ Serves(o)
               \/ \E s \in Sessions : Review(o, s)
               \/ \E s \in Sessions : \E task \in tasks[o] : Ask(o, s, task)
        PROVE  \/ req'[r] = req[r]
               \/ durable' = durable /\ req'[r].done = req[r].done
               \/ Statement(r) \/ Transfer(r) \/ CommitWhole(r)
    <2>1. CASE o # r
      BY <1>3, <2>1, Others_Stay
    <2>2. CASE o = r
      <3>1. SUFFICES ASSUME ~Statement(r), ~Transfer(r), ~CommitWhole(r)
                     PROVE  durable' = durable /\ req'[r].done = req[r].done
        OBVIOUS
      <3>2. durable' = durable
        BY <1>3, <2>2, <3>1, Durable_Serves
      <3>3. req'[r].done = req[r].done
        BY <1>1, <1>3, <2>2, <3>1, Done_Serves, Done_Asks
      <3> QED BY <3>2, <3>3
    <2> QED BY <2>1, <2>2
  <1> QED BY <1>2, <1>3, Next_Cases

\* The fence is up before a request that was told to stop.
LEMMA Stopped_Sends ==
    ASSUME RawInv, NEW r \in Reqs, req[r].stopped,
           Statement(r) \/ Transfer(r) \/ CommitWhole(r)
    PROVE  durable' = durable /\ req'[r].done = req[r].done
  <1> RequestOK(r) /\ req \in [Reqs -> RequestRecord] /\ req[r] \in RequestRecord
    BY DEF RawInv, LockInv, RawTypes
  <1>2. req[r].pc \in Using
    BY DEF Statement, Transfer, CommitWhole, Using
  <1> sess[req[r].s].flag
    BY <1>2 DEF RequestOK
  <1>4. CASE Statement(r)
    <2>1. Breaks(r, "cancel") /\ UNCHANGED durable
      BY <1>4 DEF Statement
    <2> QED BY <2>1 DEF Breaks, RequestRecord
  <1>5. CASE Transfer(r)
    <2>1. Ends(r, "failed") /\ UNCHANGED durable
      BY <1>5 DEF Transfer
    <2> QED BY <2>1 DEF Ends, RequestRecord
  <1>6. CASE CommitWhole(r)
    <2>1. Breaks(r, "cancel") /\ UNCHANGED durable
      BY <1>6 DEF CommitWhole
    <2> QED BY <2>1 DEF Breaks, RequestRecord
  <1> QED BY <1>4, <1>5, <1>6

\* What a request makes durable is what is in its transaction, or its own.
LEMMA Sends_Durable ==
    ASSUME RawInv, NEW r \in Reqs, Statement(r) \/ Transfer(r) \/ CommitWhole(r)
    PROVE  durable' \subseteq durable \cup sess[req[r].s].content \cup Own(r)
  <1> DEFINE s == req[r].s
  <1>1. CASE CommitWhole(r)
    <2>1. durable' \in {durable, durable \cup sess[s].content}
      BY <1>1, Zenon DEF CommitWhole, Lost
    <2> QED BY <2>1
  <1>2. CASE Statement(r) \/ Transfer(r)
    <2>1. req[r].pc = "statement"
      BY <1>2, Zenon DEF Statement, Transfer
    <2>2. Sent(r) \subseteq Own(r)
      BY <2>1, Sending, Sent_Own
    <2>3. \/ durable' = durable
          \/ Succeeds(r)
          \/ Lost(s, MayCommit(r))
      BY <1>2, Zenon DEF Statement, Transfer, Fails
    <2>4. durable' \subseteq durable \cup sess[s].content \cup Sent(r)
      BY <2>1, <2>3, Succeeded_Session, Lost_Session
    <2> QED BY <2>2, <2>4
  <1> QED BY <1>1, <1>2

\* What a request that carries a review holds was reviewed, or is its own.
LEMMA Reviewed_Content ==
    ASSUME RawInv, NEW r \in Reqs, req[r].pc \in Using, req[r].exp # 0, ~req[r].partly
    PROVE  sess[req[r].s].content \subseteq req[r].seen \cup Own(r)
  <1> HeldOK(r) /\ LockInv
    BY DEF RawInv
  <1>2. sess[req[r].s].operation = r /\ req[r].pc # "release"
    BY Uses DEF Using
  <1>3. req[r].seen = sess[req[r].s].pending /\ req[r].partly = sess[req[r].s].truncated
    BY <1>2 DEF HeldOK
  <1>4. /\ sess[req[r].s].content \ Traces(r) \subseteq req[r].seen
        /\ \A x \in sess[req[r].s].content \cap Traces(r) : x \in Own(r)
    BY <1>2, <1>3 DEF HeldOK
  <1> QED BY <1>4

\* Once a request was told to stop none of its statements is sent
\* (RawSession.cancel and execute).
THEOREM Stopped_Runs_Stop == Spec => StoppedRunsStop
  <1>1. RawInv /\ [Next]_vars =>
          [\A r \in Reqs : req[r].stopped =>
             /\ req'[r].done = req[r].done
             /\ req'[r] # req[r] => durable' = durable]_vars
    <2>1. SUFFICES ASSUME RawInv, Next, NEW r \in Reqs, req[r].stopped
                   PROVE  /\ req'[r].done = req[r].done
                          /\ req'[r] # req[r] => durable' = durable
      OBVIOUS
    <2> QED BY <2>1, Sends_Cases, Stopped_Sends
  <1> QED BY <1>1, Raw_Invariant, PTL DEF Spec, StoppedRunsStop

\* A request that carries the revision of a review makes nothing durable that
\* the review did not show, but for its own statements (claim).
THEOREM Reviewed_Commit == Spec => ReviewedCommit
  <1>1. RawInv /\ [Next]_vars =>
          [\A r \in Reqs :
             req[r].exp # 0 /\ ~req[r].partly /\ req[r].pc \in Using /\ req'[r] # req[r]
             => durable' \subseteq durable \cup req[r].seen \cup Own(r)]_vars
    <2>1. SUFFICES ASSUME RawInv, Next, NEW r \in Reqs, req[r].exp # 0, ~req[r].partly,
                          req[r].pc \in Using, req'[r] # req[r]
                   PROVE  durable' \subseteq durable \cup req[r].seen \cup Own(r)
      OBVIOUS
    <2>2. CASE durable' = durable
      BY <2>2
    <2>3. CASE Statement(r) \/ Transfer(r) \/ CommitWhole(r)
      <3>1. durable' \subseteq durable \cup sess[req[r].s].content \cup Own(r)
        BY <2>1, <2>3, Sends_Durable
      <3>2. sess[req[r].s].content \subseteq req[r].seen \cup Own(r)
        BY <2>1, Reviewed_Content
      <3> QED BY <3>1, <3>2
    <2> QED BY <2>1, <2>2, <2>3, Sends_Cases
  <1> QED BY <1>1, Raw_Invariant, PTL DEF Spec, ReviewedCommit

=============================================================================
