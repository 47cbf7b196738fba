------------------------- MODULE ConnectionCapacity -------------------------
(***************************************************************************)
(* Admission of PostgreSQL connections: _ConnectionCapacity, the retries of *)
(* PsycopgPostgresGateway._connect and _LeasedConnection, of               *)
(* src/schemii/common/postgres/gateway.py.                                 *)
(*                                                                         *)
(* Every client asks for one permit for its identity (a connection profile *)
(* at one revision). A retained permit is for a session that outlives the  *)
(* request: a read cursor, a console transaction or a raw session. Such a  *)
(* client may first ask the owners of idle cursors to give one up.         *)
(***************************************************************************)
EXTENDS Integers, FiniteSets

CONSTANTS
    Clients,             \* calls of _connect, one permit each
    Identities,          \* "connection id : revision"
    MaximumTotal,        \* postgres.connections.maximum_total
    MaximumPerIdentity   \* postgres.connections.maximum_per_identity

ASSUME CapacityAssumption ==
    /\ IsFiniteSet(Clients)
    /\ MaximumTotal \in Nat \ {0}
    /\ MaximumPerIdentity \in 1..MaximumTotal

VARIABLES
    permit,              \* what each client asked for and how far it got
    total,               \* _total
    connected,           \* _connected
    byIdentity,          \* _by_identity
    retainedTotal,       \* _retained_total
    retainedByIdentity   \* _retained_by_identity

counters == <<total, connected, byIdentity, retainedTotal, retainedByIdentity>>
capacityVars == <<permit, counters>>

\* Where a call of _connect stands: asking the owners of idle cursors of its
\* identity, or of any, for the limit it met; trying again after one gave a cursor up, waiting on the condition, opening the
\* connection, holding it.
Phases == {"idle", "reclaim", "reclaim_total", "retry", "wait", "opening", "leased"}
Permit == [phase : Phases, identity : Identities, retained : BOOLEAN]

CapacityInit ==
    /\ permit \in [Clients -> {p \in Permit : p.phase = "idle" /\ ~p.retained}]
    /\ total = 0
    /\ connected = 0
    /\ byIdentity = [i \in Identities |-> 0]
    /\ retainedTotal = 0
    /\ retainedByIdentity = [i \in Identities |-> 0]

\* All but one of the slots, and never fewer than one, are for retained use.
RetainedShare(maximum) == IF maximum > 1 THEN maximum - 1 ELSE 1

\* The limit acquire reports, "none" when there is room.
Reached(i, retained) ==
    IF byIdentity[i] >= MaximumPerIdentity THEN "per_identity"
    ELSE IF total >= MaximumTotal THEN "total"
    ELSE IF retained /\ retainedByIdentity[i] >= RetainedShare(MaximumPerIdentity)
         THEN "per_identity"
    ELSE IF retained /\ retainedTotal >= RetainedShare(MaximumTotal) THEN "total"
    ELSE "none"

\* A granted permit is counted before the connection exists.
Take(c, i, retained) ==
    /\ total' = total + 1
    /\ byIdentity' = [byIdentity EXCEPT ![i] = @ + 1]
    /\ retainedTotal' = IF retained THEN retainedTotal + 1 ELSE retainedTotal
    /\ retainedByIdentity' =
         IF retained THEN [retainedByIdentity EXCEPT ![i] = @ + 1]
         ELSE retainedByIdentity
    /\ permit' = [permit EXCEPT ![c] = [phase |-> "opening", identity |-> i,
                                        retained |-> retained]]
    /\ UNCHANGED connected

Grant(c, i, retained) == Reached(i, retained) = "none" /\ Take(c, i, retained)

\* The limit that was met decides whose cursors are asked for.
Reclaiming(i) == IF Reached(i, TRUE) = "total" THEN "reclaim_total" ELSE "reclaim"

\* Mutant: a retained permit stays counted as retained.
ReleaseForgetsRetained(c, wasConnected) ==
    /\ permit' = [permit EXCEPT ![c].phase = "idle", ![c].retained = FALSE]
    /\ total' = total - 1
    /\ connected' = IF wasConnected THEN connected - 1 ELSE connected
    /\ byIdentity' = [byIdentity EXCEPT ![permit[c].identity] = @ - 1]
    /\ UNCHANGED <<retainedTotal, retainedByIdentity>>

\* release: the counters of the permit go down and the client holds nothing.
Release(c, wasConnected) ==
    LET i == permit[c].identity
        retained == permit[c].retained
    IN
    /\ permit' = [permit EXCEPT ![c].phase = "idle", ![c].retained = FALSE]
    /\ IF byIdentity[i] <= 0
       THEN UNCHANGED counters
       ELSE /\ total' = total - 1
            /\ connected' = IF wasConnected THEN connected - 1 ELSE connected
            /\ byIdentity' = [byIdentity EXCEPT ![i] = @ - 1]
            /\ retainedTotal' = IF retained THEN retainedTotal - 1
                                ELSE retainedTotal
            /\ retainedByIdentity' =
                 IF retained /\ retainedByIdentity[i] > 0
                 THEN [retainedByIdentity EXCEPT ![i] = @ - 1]
                 ELSE retainedByIdentity

\* _connect asks once without waiting; only retained clients reclaim.
Connect(c, i, retained) ==
    /\ permit[c].phase = "idle"
    /\ \/ Grant(c, i, retained)
       \/ /\ Reached(i, retained) # "none"
          /\ permit' = [permit EXCEPT
               ![c] = [phase |-> IF retained THEN Reclaiming(i) ELSE "wait",
                       identity |-> i, retained |-> retained]]
          /\ UNCHANGED counters

\* A reclaimer gave a cursor up.
ReclaimerGave(c) ==
    /\ permit[c].phase \in {"reclaim", "reclaim_total"}
    /\ permit' = [permit EXCEPT ![c].phase = "retry"]
    /\ UNCHANGED counters

\* Admission is then tried again at once.
RetryAfterReclaim(c) ==
    /\ permit[c].phase = "retry"
    /\ \/ Grant(c, permit[c].identity, TRUE)
       \/ /\ Reached(permit[c].identity, TRUE) # "none"
          /\ permit' = [permit EXCEPT ![c].phase = Reclaiming(permit[c].identity)]
          /\ UNCHANGED counters

\* No reclaimer has a cursor to give: the call waits like any other.
NothingToReclaim(c) ==
    /\ permit[c].phase \in {"reclaim", "reclaim_total"}
    /\ permit' = [permit EXCEPT ![c].phase = "wait"]
    /\ UNCHANGED counters

\* A waiting call is admitted when it finds room.
Admit(c) ==
    /\ permit[c].phase = "wait"
    /\ Grant(c, permit[c].identity, permit[c].retained)

\* The condition wait times out: PostgresConnectionCapacityError.
TimeOut(c) ==
    /\ permit[c].phase = "wait"
    /\ permit' = [permit EXCEPT ![c].phase = "idle", ![c].retained = FALSE]
    /\ UNCHANGED counters

\* The driver opened the connection.
Opened(c) ==
    /\ permit[c].phase = "opening"
    /\ permit' = [permit EXCEPT ![c].phase = "leased"]
    /\ connected' = connected + 1
    /\ UNCHANGED <<total, byIdentity, retainedTotal, retainedByIdentity>>

\* The driver failed: the permit is given back, no connection was counted.
OpenFailed(c) ==
    /\ permit[c].phase = "opening"
    /\ Release(c, FALSE)

\* _LeasedConnection.close, which has an effect once.
Close(c) ==
    /\ permit[c].phase = "leased"
    /\ Release(c, TRUE)

\* The process ends and starts again with nothing admitted.
CapacityRestart ==
    /\ permit' = [c \in Clients |-> [permit[c] EXCEPT !.phase = "idle",
                                                     !.retained = FALSE]]
    /\ total' = 0
    /\ connected' = 0
    /\ byIdentity' = [i \in Identities |-> 0]
    /\ retainedTotal' = 0
    /\ retainedByIdentity' = [i \in Identities |-> 0]

CapacityNext ==
    \/ \E c \in Clients :
         \/ \E i \in Identities, r \in BOOLEAN : Connect(c, i, r)
         \/ ReclaimerGave(c)
         \/ RetryAfterReclaim(c)
         \/ NothingToReclaim(c)
         \/ Admit(c)
         \/ TimeOut(c)
         \/ Opened(c)
         \/ OpenFailed(c)
         \/ Close(c)
    \/ CapacityRestart

\* What the gateway promises whoever connects: every step on the permits is one
\* of acquire, release, connect and close, with its limits (_connect,
\* _ConnectionCapacity).
CapacitySpec == CapacityInit /\ [][CapacityNext]_capacityVars

-----------------------------------------------------------------------------
(* Properties *)

Holders == {c \in Clients : permit[c].phase \in {"opening", "leased"}}
HoldersOf(i) == {c \in Holders : permit[c].identity = i}
Retained == {c \in Holders : permit[c].retained}
RetainedOf(i) == {c \in HoldersOf(i) : permit[c].retained}
Leased == {c \in Holders : permit[c].phase = "leased"}

CapacityTypeOK ==
    /\ permit \in [Clients -> Permit]
    /\ total \in Nat /\ connected \in Nat /\ retainedTotal \in Nat
    /\ byIdentity \in [Identities -> Nat]
    /\ retainedByIdentity \in [Identities -> Nat]

\* The five counters of _ConnectionCapacity, which acquire, connected and
\* release change one by one from many threads, always count the permits that
\* are held and the connections that are open.
PermitsAreCounted ==
    /\ total = Cardinality(Holders)
    /\ connected = Cardinality(Leased)
    /\ retainedTotal = Cardinality(Retained)
    /\ \A i \in Identities : /\ byIdentity[i] = Cardinality(HoldersOf(i))
                             /\ retainedByIdentity[i] = Cardinality(RetainedOf(i))

\* Whatever fails, is reclaimed or times out, no more connections are open or
\* being opened than the configured limits allow.
LimitsHold ==
    /\ Cardinality(Holders) <= MaximumTotal
    /\ \A i \in Identities : Cardinality(HoldersOf(i)) <= MaximumPerIdentity

\* "Keep one of the existing slots for catalog, validation and ordinary work":
\* while only retained sessions hold permits, an ordinary call is admitted at
\* once. This needs limits above one: with a limit of one the only slot may be
\* retained.
SlotForOrdinaryWork ==
    MaximumPerIdentity > 1 =>
        \A i \in Identities :
            Holders = Retained => Reached(i, FALSE) = "none"
=============================================================================
