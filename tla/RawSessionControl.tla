-------------------------- MODULE RawSessionControl -------------------------
(***************************************************************************)
(* The steps around a run: opening, claiming, cancelling, closing and      *)
(* shutting down sessions, asking and reviewing. Each keeps the invariant  *)
(* of RawSessions.                                                         *)
(***************************************************************************)
EXTENDS RawSessionLemmas

USE Raw_Constants

-----------------------------------------------------------------------------
(* The first state *)

\* RawSessionService.__init__: the service begins without sessions or
\* requests.
LEMMA Raw_Init ==
    ASSUME Init
    PROVE  RawInv
  <1> PICK load \in Loads :
        /\ create = [s \in Sessions |-> IF s \in load.sessions THEN "none" ELSE "done"]
        /\ tasks = [r \in Reqs |-> load.tasks[r]]
        /\ events = load.events
    BY DEF Init
  <1> /\ sess = [s \in Sessions |-> NoSession] /\ req = [r \in Reqs |-> NoRequest]
      /\ registry = {} /\ opening = {} /\ closed = FALSE /\ durable = {}
      /\ shut = [pc |-> "none", todo |-> {}, at |-> None]
    BY DEF Init
  <1>3. NoSession \in SessionRecord
    BY DEF NoSession, SessionRecord
  <1>4. NoRequest \in RequestRecord
    BY DEF NoRequest, RequestRecord
  <1>5. load.tasks \in [Reqs -> SUBSET Task] /\ load.events \in Nat
    BY RawAssumption
  <1>6. RawTypes
    <2>1. sess \in [Sessions -> SessionRecord] /\ req \in [Reqs -> RequestRecord]
      BY <1>3, <1>4
    <2>2. create \in [Sessions -> {"none", "connect", "register", "leave", "done"}]
      OBVIOUS
    <2>3. tasks \in [Reqs -> SUBSET Task] /\ events \in Nat
      BY <1>5
    <2>4. shut \in [pc : {"none", "sessions", "done"}, todo : SUBSET Sessions,
                    at : Sessions \cup {None}]
      OBVIOUS
    <2> QED BY <2>1, <2>2, <2>3, <2>4, Zenon DEF RawTypes
  <1>7. ShutdownOK
    BY DEF ShutdownOK
  <1>9. ASSUME NEW s \in Sessions
        PROVE  SessionOK(s) /\ ListOK(s)
    <2>1. /\ sess[s].status = "none" /\ sess[s].operation = None /\ sess[s].content = {}
          /\ sess[s].txn = "closed" /\ create[s] \in {"none", "done"}
      BY DEF NoSession
    <2> QED BY <2>1 DEF SessionOK, ListOK
  <1>10. ASSUME NEW r \in Reqs
         PROVE  RequestOK(r) /\ TurnOK(r) /\ WholeOK(r) /\ HeldOK(r)
    <2> /\ req[r].pc = "idle" /\ req[r].exp = 0 /\ ~req[r].stopped /\ req[r].err = "none"
        /\ req[r].pos = 1 /\ req[r].done = 0 /\ req[r].status = "none"
        /\ req[r].script = <<>>
      BY DEF NoRequest
    <2> \A s \in Sessions : sess[s].operation = None /\ sess[s].content = {}
      BY DEF NoSession
    <2>3. req[r].pc \notin Using \cup {"start", "track", "release"}
      BY DEF Using
    <2>4. RequestOK(r)
      BY <2>3 DEF RequestOK
    <2>5. TurnOK(r)
      BY DEF TurnOK
    <2>6. WholeOK(r)
      BY DEF WholeOK
    <2>7. HeldOK(r)
      BY <2>3 DEF HeldOK
    <2> QED BY <2>4, <2>5, <2>6, <2>7
  <1> QED BY <1>6, <1>7, <1>9, <1>10 DEF RawInv, LockInv

-----------------------------------------------------------------------------
(* Opening a session *)

\* create takes a place among the sessions that are being opened.
LEMMA BeginCreate_Lock ==
    ASSUME LockInv, NEW s \in Sessions, BeginCreate(s)
    PROVE  LockInv'
  <1> USE DEF BeginCreate
  <1>1. RawTypes'
    BY DEF LockInv, RawTypes
  <1>2. ShutdownOK'
    BY DEF LockInv, ShutdownOK
  <1>4. ASSUME NEW x \in Sessions
        PROVE  SessionOK(x)'
    <2>1. SessionOK(x) /\ create \in [Sessions -> {"none", "connect", "register", "leave", "done"}]
      BY DEF LockInv, RawTypes
    <2>2. CASE x # s
      BY <2>1, <2>2 DEF SessionOK
    <2>3. CASE x = s
      BY <2>1, <2>3 DEF SessionOK
    <2> QED BY <2>2, <2>3
  <1>5. ASSUME NEW r \in Reqs
        PROVE  RequestOK(r)'
    <2>1. \A x \in Sessions : Quiet(x)
      BY DEF Quiet
    <2> QED BY <2>1, Quiet_Request
  <1> QED BY <1>1, <1>2, <1>4, <1>5 DEF LockInv

\* create connects, or fails to.
LEMMA ConnectRaw_Lock ==
    ASSUME LockInv, NEW s \in Sessions, ConnectRaw(s)
    PROVE  LockInv'
  <1> USE DEF ConnectRaw
  <1> DEFINE c == [sess[s] EXCEPT !.txn = "idle"]
  <1> /\ RawTypes /\ SessionOK(s) /\ sess[s] \in SessionRecord
      /\ sess' = sess \/ sess' = [sess EXCEPT ![s] = c]
    BY DEF LockInv, RawTypes
  <1>a. c \in SessionRecord
    BY DEF SessionRecord, Open
  <1>2. sess' \in [Sessions -> SessionRecord]
    BY <1>a, Session_Put DEF RawTypes
  <1>3. RawTypes'
    BY <1>2 DEF RawTypes
  <1>6. ASSUME NEW x \in Sessions
        PROVE  SessionOK(x)' /\ Quiet(x)
    <2> SessionOK(x) /\ create \in [Sessions -> {"none", "connect", "register", "leave", "done"}]
      BY DEF LockInv, RawTypes
    <2>2. CASE x # s
      <3>1. sess'[x] = sess[x] /\ create'[x] = create[x]
        BY <2>2 DEF RawTypes
      <3> QED BY <3>1 DEF SessionOK, Quiet
    <2>3. CASE x = s
      <3>1. CASE UNCHANGED sess
        <4>1. create[s] = "connect" /\ create'[s] \in {"register", "leave"}
          OBVIOUS
        <4>2. create'[s] = "register" => sess[s].txn = "idle"
          BY <3>1 DEF RawTypes, SessionRecord
        <4> QED BY <2>3, <3>1, <4>1, <4>2 DEF SessionOK, Quiet
      <3>2. CASE sess' # sess
        <4>1. /\ sess'[s] = [sess[s] EXCEPT !.txn = "idle"]
              /\ create'[s] = "register"
          BY <3>2 DEF RawTypes
        <4> QED BY <2>3, <4>1 DEF SessionOK, Quiet, SessionRecord, Unfinished
      <3> QED BY <3>1, <3>2
    <2> QED BY <2>2, <2>3
  <1>4. ShutdownOK'
    BY <1>6 DEF LockInv, ShutdownOK, Quiet
  <1>7. \A r \in Reqs : RequestOK(r)'
    BY <1>6, Quiet_Request
  <1> QED BY <1>3, <1>4, <1>6, <1>7 DEF LockInv

\* create registers the session, or closes it when the shutdown has begun.
LEMMA Register_Lock ==
    ASSUME LockInv, NEW s \in Sessions, Register(s)
    PROVE  LockInv'
  <1> DEFINE c == IF closed THEN [sess[s] EXCEPT !.txn = "closed"]
                  ELSE [sess[s] EXCEPT !.status = "open", !.rev = 1]
  <1> /\ RawTypes /\ SessionOK(s) /\ sess[s] \in SessionRecord
      /\ sess' = [sess EXCEPT ![s] = c]
      /\ create[s] = "register" /\ create' = [create EXCEPT ![s] = "leave"]
      /\ registry' = IF closed THEN registry ELSE registry \cup {s}
      /\ UNCHANGED <<opening, closed, shut, req, durable, tasks, events>>
    <2>1. RawTypes /\ SessionOK(s) /\ sess[s] \in SessionRecord
      BY DEF LockInv, RawTypes
    <2>2. sess' = [sess EXCEPT ![s] = c]
      BY <2>1 DEF Register, RawTypes
    <2>3. registry' = IF closed THEN registry ELSE registry \cup {s}
      BY DEF Register
    <2> QED BY <2>1, <2>2, <2>3 DEF Register
  <1>2. c \in SessionRecord
    <2>1. /\ [sess[s] EXCEPT !.txn = "closed"] \in SessionRecord
          /\ [sess[s] EXCEPT !.status = "open", !.rev = 1] \in SessionRecord
      BY Zenon DEF SessionRecord
    <2> QED BY <2>1
  <1> /\ sess' \in [Sessions -> SessionRecord] /\ sess'[s] = c
      /\ \A x \in Sessions : x # s => sess'[x] = sess[x]
    BY <1>2, Session_Put, Zenon
  <1>4. RawTypes'
    BY DEF RawTypes
  <1>5. s \in opening /\ registry' \subseteq registry \cup {s} /\ (closed => registry' = registry)
    BY DEF SessionOK
  <1>8. ASSUME NEW x \in Sessions
        PROVE  SessionOK(x)' /\ Quiet(x)
    <2> SessionOK(x) /\ create \in [Sessions -> {"none", "connect", "register", "leave", "done"}]
      BY DEF LockInv, RawTypes
    <2>2. CASE x # s
      <3>1. /\ sess'[x] = sess[x] /\ create'[x] = create[x]
            /\ x \in registry' <=> x \in registry
        BY <2>2
      <3> QED BY <3>1 DEF SessionOK, Quiet
    <2>3. CASE x = s
      <3> create[s] = "register" /\ create'[s] = "leave"
        OBVIOUS
      <3>2. sess[s].status = "none" /\ sess[s].txn = "idle" /\ sess[s].operation = None
            /\ sess[s].content = {}
        BY DEF SessionOK, Unfinished, SessionRecord
      <3>3. CASE closed
        <4>1. sess'[s] = [sess[s] EXCEPT !.txn = "closed"] /\ registry' = registry
          BY <3>3
        <4> QED BY <2>3, <3>2, <4>1 DEF SessionOK, Quiet, SessionRecord
      <3>4. CASE ~closed
        <4>1. sess'[s] = [sess[s] EXCEPT !.status = "open", !.rev = 1] /\ s \in registry'
          BY <3>4
        <4>2. /\ sess'[s].status = "open" /\ sess'[s].operation = sess[s].operation
              /\ sess'[s].txn = sess[s].txn /\ sess'[s].content = sess[s].content
              /\ sess'[s].started = sess[s].started /\ sess'[s].flag = sess[s].flag
          <5>1. sess[s] \in SessionRecord
            OBVIOUS
          <5> QED BY <4>1, <5>1, Zenon DEF SessionRecord
        <4> QED BY <2>3, <3>2, <4>1, <4>2 DEF SessionOK, Quiet
      <3> QED BY <3>3, <3>4
    <2> QED BY <2>2, <2>3
  <1>6. ShutdownOK'
    <2>1. \A x \in Sessions : sess[x].status # "none" => sess'[x].status # "none"
      BY <1>8 DEF Quiet
    <2> QED BY <1>5, <2>1 DEF LockInv, ShutdownOK
  <1>9. \A r \in Reqs : RequestOK(r)'
    BY <1>8, Quiet_Request
  <1> QED BY <1>4, <1>6, <1>8, <1>9 DEF LockInv

\* create gives up its place in its finally.
LEMMA LeaveOpening_Lock ==
    ASSUME LockInv, NEW s \in Sessions, LeaveOpening(s)
    PROVE  LockInv'
  <1> USE DEF LeaveOpening
  <1>1. RawTypes'
    BY DEF LockInv, RawTypes
  <1>2. ShutdownOK'
    BY DEF LockInv, ShutdownOK
  <1>4. ASSUME NEW x \in Sessions
        PROVE  SessionOK(x)' /\ Quiet(x)
    <2>1. SessionOK(x) /\ create \in [Sessions -> {"none", "connect", "register", "leave", "done"}]
      BY DEF LockInv, RawTypes
    <2>2. /\ x # s => create'[x] = create[x] /\ (x \in opening' <=> x \in opening)
          /\ x = s => create[x] = "leave" /\ create'[x] = "done" /\ x \notin opening'
      BY <2>1
    <2> QED BY <2>1, <2>2 DEF SessionOK, Quiet
  <1>5. \A r \in Reqs : RequestOK(r)'
    BY <1>4, Quiet_Request
  <1> QED BY <1>1, <1>2, <1>4, <1>5 DEF LockInv

\* close lists the sessions that it has to close.
LEMMA BeginShutdown_Lock ==
    ASSUME LockInv, BeginShutdown
    PROVE  LockInv'
  <1> /\ closed' = TRUE /\ shut.pc = "none" /\ events \in Nat /\ events > 0
      /\ events' = events - 1
      /\ shut' = [pc |-> "sessions", todo |-> registry, at |-> None]
      /\ UNCHANGED <<sess, registry, opening, create, req, durable, tasks>>
    BY DEF BeginShutdown, Event, LockInv, RawTypes
  <1>2. RawTypes'
    BY DEF LockInv, RawTypes
  <1>3. ShutdownOK'
    <2>1. \A x \in registry : sess[x].status # "none"
      BY DEF LockInv, RawTypes, SessionOK
    <2>2. /\ shut'.pc = "sessions" /\ shut'.todo = registry /\ shut'.at = None
          /\ registry' = registry /\ sess' = sess /\ closed'
      OBVIOUS
    <2> QED BY <2>1, <2>2 DEF ShutdownOK
  <1>5. \A x \in Sessions : SessionOK(x)'
    BY DEF LockInv, SessionOK
  <1>6. \A r \in Reqs : RequestOK(r)'
    BY Quiet_Request DEF Quiet
  <1> QED BY <1>2, <1>3, <1>5, <1>6 DEF LockInv

\* close ends when nothing is open or being opened.
LEMMA EndShutdown_Lock ==
    ASSUME LockInv, EndShutdown
    PROVE  LockInv'
  <1> /\ shut.pc = "sessions" /\ shut.at = None /\ shut.todo = {} /\ opening = {}
      /\ shut' = [shut EXCEPT !.pc = "done"]
      /\ UNCHANGED <<sess, registry, opening, create, closed, req, durable, tasks, events>>
      /\ shut \in [pc : {"none", "sessions", "done"}, todo : SUBSET Sessions,
                   at : Sessions \cup {None}]
    BY DEF EndShutdown, LockInv, RawTypes
  <1>2. shut' = [pc |-> "done", todo |-> {}, at |-> None]
    OBVIOUS
  <1>3. RawTypes'
    BY <1>2 DEF LockInv, RawTypes
  <1>4. ShutdownOK'
    BY <1>2 DEF LockInv, ShutdownOK
  <1>6. \A x \in Sessions : SessionOK(x)'
    BY DEF LockInv, SessionOK
  <1>7. \A r \in Reqs : RequestOK(r)'
    BY Quiet_Request DEF Quiet
  <1> QED BY <1>3, <1>4, <1>6, <1>7 DEF LockInv

-----------------------------------------------------------------------------
(* Cancelling *)

\* A request that a signal reaches.
LEMMA Request_Told ==
    ASSUME NEW q \in RequestRecord
    PROVE  /\ LET p == [q EXCEPT !.pc = "done", !.status = "failed"] IN
              /\ p \in RequestRecord /\ p.pc = "done" /\ p.status = "failed"
              /\ p.s = q.s /\ p.exp = q.exp /\ p.stopped = q.stopped
           /\ LET p == [q EXCEPT !.stopped = TRUE] IN
              /\ p \in RequestRecord /\ p.pc = q.pc /\ p.status = q.status
              /\ p.s = q.s /\ p.exp = q.exp /\ p.stopped
  <1>1. [q EXCEPT !.pc = "done", !.status = "failed"] \in RequestRecord
    BY ZenonT(40) DEF RequestRecord
  <1>2. [q EXCEPT !.stopped = TRUE] \in RequestRecord
    BY ZenonT(40) DEF RequestRecord
  <1>3. LET p == [q EXCEPT !.pc = "done", !.status = "failed"] IN
        /\ p.pc = "done" /\ p.status = "failed"
        /\ p.s = q.s /\ p.exp = q.exp /\ p.stopped = q.stopped
    BY DEF RequestRecord
  <1>4. LET p == [q EXCEPT !.stopped = TRUE] IN
        /\ p.pc = q.pc /\ p.status = q.status
        /\ p.s = q.s /\ p.exp = q.exp /\ p.stopped
    BY DEF RequestRecord
  <1> QED BY <1>1, <1>2, <1>3, <1>4

\* What a signal does to the requests: a ticket fails, and the request that
\* holds the session is told to stop.
LEMMA Stopped_Requests ==
    ASSUME LockInv, NEW s \in Sessions, req' = Stopped(s)
    PROVE  /\ req' \in [Reqs -> RequestRecord]
           /\ \A r \in Reqs :
                \/ /\ req[r].s = s /\ req[r].pc = "ticket"
                   /\ req'[r] = [req[r] EXCEPT !.pc = "done", !.status = "failed"]
                \/ /\ sess[s].status = "running" /\ sess[s].operation = r
                   /\ req'[r] = [req[r] EXCEPT !.stopped = TRUE]
                \/ /\ sess[s].operation # r
                   /\ req'[r] = req[r]
  <1>1. RawTypes /\ SessionOK(s)
    BY DEF LockInv
  <1>2. ASSUME NEW r \in Reqs
        PROVE  /\ req'[r] \in RequestRecord
               /\ \/ /\ req[r].s = s /\ req[r].pc = "ticket"
                     /\ req'[r] = [req[r] EXCEPT !.pc = "done", !.status = "failed"]
                  \/ /\ sess[s].status = "running" /\ sess[s].operation = r
                     /\ req'[r] = [req[r] EXCEPT !.stopped = TRUE]
                  \/ /\ sess[s].operation # r
                     /\ req'[r] = req[r]
    <2>1. req[r] \in RequestRecord
      BY <1>1 DEF RawTypes
    <2>2. /\ [req[r] EXCEPT !.pc = "done", !.status = "failed"] \in RequestRecord
          /\ [req[r] EXCEPT !.stopped = TRUE] \in RequestRecord
      BY <2>1, Request_Told, Zenon
    <2>3. sess[s].operation = r => sess[s].status = "running"
      BY <1>1 DEF SessionOK
    <2> QED BY <2>1, <2>2, <2>3, Zenon DEF Stopped
  <1>3. DOMAIN req' = Reqs /\ req' = [r \in Reqs |-> req'[r]]
    BY Zenon DEF Stopped
  <1> QED BY <1>2, <1>3, Zenon

\* A request that was told to stop by a signal that leaves its session, or
\* closes a session that it does not use, is as it should be.
LEMMA Signalled_Request ==
    ASSUME LockInv, NEW s \in Sessions, NEW r \in Reqs, req' = Stopped(s),
           \A x \in Sessions : x # s => Quiet(x),
           \/ Quiet(s) /\ (sess[s].status = "running" => sess'[s].flag)
           \/ /\ sess'[s].status = "closed" /\ sess'[s].operation = None
              /\ ~sess[s].started
    PROVE  RequestOK(r)'
  <1> RequestOK(r) /\ SessionOK(s) /\ req[r] \in RequestRecord
    BY DEF LockInv, RawTypes
  <1>2. \/ /\ req[r].s = s /\ req[r].pc = "ticket"
           /\ req'[r] = [req[r] EXCEPT !.pc = "done", !.status = "failed"]
        \/ /\ sess[s].status = "running" /\ sess[s].operation = r
           /\ req'[r] = [req[r] EXCEPT !.stopped = TRUE]
        \/ /\ sess[s].operation # r
           /\ req'[r] = req[r]
    BY Stopped_Requests, Zenon
  <1> /\ req'[r].s = req[r].s /\ req'[r].exp = req[r].exp
      /\ req'[r].pc = req[r].pc \/ (req[r].pc = "ticket" /\ req'[r].pc = "done")
      /\ req'[r].stopped = req[r].stopped \/ (sess[s].operation = r /\ sess[s].status = "running")
    <2>1. CASE req'[r] = [req[r] EXCEPT !.pc = "done", !.status = "failed"] /\ req[r].pc = "ticket"
      BY <2>1 DEF RequestRecord
    <2>2. CASE /\ req'[r] = [req[r] EXCEPT !.stopped = TRUE]
               /\ sess[s].operation = r /\ sess[s].status = "running"
      BY <2>2 DEF RequestRecord
    <2> QED BY <1>2, <2>1, <2>2
  <1> DEFINE q == req[r]
             p == req'[r]
  <1> q.pc # "idle" \/ q.exp # 0 => q.s \in Sessions /\ sess[q.s].status # "none"
    BY DEF RequestOK
  <1>5. \A x \in Sessions : sess'[x].operation = sess[x].operation
                            \/ (x = s /\ sess'[x].operation = None)
    BY DEF Quiet
  <1>6. \A x \in Sessions : sess'[x].operation = r =>
          q.s = x /\ q.pc \in Using \cup {"start", "track", "release"}
    BY <1>5 DEF RequestOK
  <1>7. \A x \in Sessions : sess[x].status # "none" =>
          sess'[x].status = sess[x].status \/ (x = s /\ sess'[x].status = "closed")
    BY DEF Quiet
  <1>8. p.pc # "idle" \/ p.exp # 0 => p.s \in Sessions /\ sess'[p.s].status # "none"
    BY <1>7
  <1>9. p.pc \in Using => sess'[p.s].operation = r /\ sess'[p.s].started
    <2>1. p.pc \in Using => q.pc \in Using /\ q.s \in Sessions
      BY DEF Using
    <2>2. p.pc \in Using => Quiet(q.s)
      BY <2>1 DEF RequestOK
    <2> QED BY <2>1, <2>2 DEF RequestOK, Quiet
  <1>10. p.pc \in {"start", "track", "release"} =>
           sess'[p.s].operation = r \/ sess'[p.s].status = "closed"
    <2>1. p.pc \in {"start", "track", "release"} =>
            /\ q.pc = p.pc /\ q.s \in Sessions /\ sess[q.s].status # "none"
            /\ sess[q.s].operation = r \/ sess[q.s].status = "closed"
      BY DEF RequestOK
    <2> QED BY <2>1, <1>7 DEF Quiet
  <1>11. \A x \in Sessions : sess'[x].operation = r =>
           p.s = x /\ p.pc \in Using \cup {"start", "track", "release"}
    BY <1>6 DEF Using
  <1>12. p.pc \in {"idle", "reserve", "ticket"} => ~p.stopped
    <2>1. sess[s].operation = r => q.pc \in Using \cup {"start", "track", "release"}
      BY DEF RequestOK
    <2>2. p.pc \in {"idle", "reserve", "ticket"} => q.pc = p.pc /\ ~q.stopped
      BY DEF RequestOK
    <2> QED BY <2>1, <2>2 DEF Using
  <1>13. p.stopped /\ sess'[p.s].operation = r => sess'[p.s].flag
    <2>1. SUFFICES ASSUME p.stopped, sess'[p.s].operation = r
                   PROVE  sess'[p.s].flag
      OBVIOUS
    <2>2. p.pc # "idle"
      BY <1>12, <2>1
    <2> p.s \in Sessions /\ p.s = q.s
      BY <1>8, <2>2
    <2>4. Quiet(q.s) /\ sess[q.s].operation = r
      <3>1. Quiet(q.s)
        BY <2>1
      <3> QED BY <2>1, <3>1, SMTT(15), Z3T(15), ZenonT(40) DEF Quiet
    <2>5. CASE q.stopped
      BY <2>4, <2>5 DEF RequestOK, Quiet
    <2>6. CASE ~q.stopped
      <3>1. sess[s].operation = r /\ sess[s].status = "running"
        BY <2>1, <2>6, Zenon
      <3>2. q.s = s
        BY <3>1 DEF RequestOK
      <3>3. sess'[s].operation = r /\ sess'[s].operation # None
        BY <2>1, <3>2, Raw_Constants
      <3>4. sess'[s].flag
        BY <3>1, <3>3
      <3> QED BY <3>2, <3>4
    <2> QED BY <2>5, <2>6
  <1> QED BY <1>8, <1>9, <1>10, <1>11, <1>12, <1>13, Zenon DEF RequestOK

\* A cancelled session.
LEMMA Cancelled_Session ==
    ASSUME LockInv, NEW s \in Sessions, sess' = Cancelled(s)
    PROVE  /\ sess' \in [Sessions -> SessionRecord]
           /\ \A x \in Sessions : Quiet(x) /\ /\ sess'[x].status = sess[x].status
                                              /\ sess'[x].txn = sess[x].txn
                                              /\ sess'[x].content = sess[x].content
                                              /\ sess'[x].pending = sess[x].pending
                                              /\ sess'[x].truncated = sess[x].truncated
                                              /\ sess'[x].rev = sess[x].rev
           /\ sess[s].status = "running" => sess'[s].flag
  <1> DEFINE c == [sess[s] EXCEPT !.cancelled = TRUE, !.flag = @ \/ sess[s].status = "running"]
  <1> RawTypes /\ sess[s] \in SessionRecord
    BY DEF LockInv, RawTypes
  <1>2. sess[s] \in SessionRecord
    OBVIOUS
  <1>3. c \in SessionRecord
    BY <1>2, Zenon DEF SessionRecord
  <1>4. sess' = [sess EXCEPT ![s] = c]
    BY Zenon DEF Cancelled, RawTypes
  <1>5. /\ c.status = sess[s].status /\ c.txn = sess[s].txn /\ c.content = sess[s].content
        /\ c.pending = sess[s].pending /\ c.truncated = sess[s].truncated
        /\ c.rev = sess[s].rev /\ c.operation = sess[s].operation /\ c.started = sess[s].started
        /\ c.flag = (sess[s].flag \/ sess[s].status = "running")
    BY <1>2 DEF SessionRecord
  <1> HIDE DEF c
  <1>6. /\ sess' \in [Sessions -> SessionRecord] /\ sess'[s] = c
        /\ \A x \in Sessions : x # s => sess'[x] = sess[x]
    BY <1>3, <1>4, Session_Put, Zenon
  <1> QED BY <1>5, <1>6, Zenon DEF Quiet

\* cancel signals the request that uses the session and fails its tickets.
LEMMA Cancel_Lock ==
    ASSUME LockInv, NEW s \in Sessions, Cancel(s)
    PROVE  LockInv'
  <1> /\ sess' = Cancelled(s) /\ req' = Stopped(s) /\ events \in Nat /\ events > 0
      /\ events' = events - 1
      /\ UNCHANGED <<registry, opening, create, closed, shut, durable, tasks>>
    BY DEF Cancel, Event, LockInv, RawTypes
  <1> /\ sess' \in [Sessions -> SessionRecord]
      /\ \A x \in Sessions : Quiet(x) /\ /\ sess'[x].status = sess[x].status
                                         /\ sess'[x].txn = sess[x].txn
                                         /\ sess'[x].content = sess[x].content
      /\ sess[s].status = "running" => sess'[s].flag
    BY Cancelled_Session
  <1>3. req' \in [Reqs -> RequestRecord]
    BY Stopped_Requests, Zenon
  <1>4. RawTypes'
    <2>1. RawTypes
      BY DEF LockInv
    <2> QED BY <1>3, <2>1 DEF RawTypes
  <1>5. ShutdownOK'
    BY DEF LockInv, ShutdownOK
  <1>7. ASSUME NEW x \in Sessions
        PROVE  SessionOK(x)'
    <2>1. SessionOK(x)
      BY DEF LockInv
    <2>2. /\ sess'[x].status = sess[x].status /\ sess'[x].txn = sess[x].txn
          /\ sess'[x].content = sess[x].content /\ sess'[x].operation = sess[x].operation
      BY DEF Quiet
    <2> QED BY <2>1, <2>2 DEF SessionOK
  <1>8. \A r \in Reqs : RequestOK(r)'
    BY Signalled_Request
  <1> QED BY <1>4, <1>5, <1>7, <1>8 DEF LockInv

-----------------------------------------------------------------------------
(* Closing *)

\* A session that is closed while nobody uses its connection.
Closes(s) ==
    /\ sess' \in [Sessions -> SessionRecord]
    /\ \A x \in Sessions : x # s => sess'[x] = sess[x]
    /\ sess'[s].status = "closed" /\ sess'[s].operation = None /\ sess'[s].txn = "closed"
    /\ sess'[s].content = {} /\ sess'[s].rev >= sess[s].rev
    /\ sess[s].operation = None \/ ~sess[s].started
    /\ sess[s].status \in {"open", "running"}

\* A session that is closed leaves the registry, and the others are as they
\* were.
LEMMA Closes_Session ==
    ASSUME LockInv, NEW s \in Sessions, Closes(s), registry' = registry \ {s},
           UNCHANGED <<opening, create>>, NEW x \in Sessions
    PROVE  SessionOK(x)'
  <1>1. SessionOK(x)
    BY DEF LockInv
  <1>2. CASE x # s
    <2>1. sess'[x] = sess[x] /\ (x \in registry' <=> x \in registry)
      BY <1>2 DEF Closes
    <2> QED BY <1>1, <2>1 DEF SessionOK
  <1>3. CASE x = s
    BY <1>1, <1>3 DEF SessionOK, Closes
  <1> QED BY <1>2, <1>3

\* A request whose session is closed did not use its connection.
LEMMA Closes_Request ==
    ASSUME LockInv, NEW s \in Sessions, Closes(s), NEW r \in Reqs,
           \/ req' = req /\ sess[s].operation = None
           \/ req' = Stopped(s) /\ ~sess[s].started
    PROVE  RequestOK(r)'
  <1>1. \A x \in Sessions : x # s => Quiet(x)
    BY DEF Closes, Quiet
  <1>2. CASE req' = Stopped(s) /\ ~sess[s].started
    BY <1>1, <1>2, Signalled_Request DEF Closes
  <1>3. CASE req' = req /\ sess[s].operation = None
    <2> RequestOK(r) /\ req' = req
      BY <1>3 DEF LockInv
    <2> DEFINE q == req[r]
    <2> q.pc # "idle" \/ q.exp # 0 => q.s \in Sessions /\ sess[q.s].status # "none"
      BY DEF RequestOK
    <2> \A x \in Sessions :
          /\ x # s => sess'[x] = sess[x]
          /\ sess'[s].status = "closed" /\ sess'[s].operation = None
          /\ sess[s].operation # r
      BY <1>3 DEF Closes
    <2>4. q.pc # "idle" \/ q.exp # 0 => sess'[q.s].status # "none"
      OBVIOUS
    <2>5. q.pc \in Using => sess'[q.s] = sess[q.s]
      BY DEF RequestOK, Using
    <2>6. q.pc \in {"start", "track", "release"} =>
            sess'[q.s].operation = r \/ sess'[q.s].status = "closed"
      BY DEF RequestOK
    <2>7. q.stopped /\ sess'[q.s].operation = r => sess'[q.s].flag
      <3>1. q.stopped => q.pc # "idle"
        BY DEF RequestOK
      <3>2. q.stopped /\ sess'[q.s].operation = r => sess'[q.s] = sess[q.s]
        BY <3>1
      <3> QED BY <3>2 DEF RequestOK
    <2>8. \A x \in Sessions : sess'[x].operation = r => sess[x].operation = r
      OBVIOUS
    <2> QED BY <2>4, <2>5, <2>6, <2>7, <2>8 DEF RequestOK
  <1> QED BY <1>2, <1>3

\* _close_claimed closes a session: what CloseSession, Reap and the shutdown
\* assign.
LEMMA Closed_Session ==
    ASSUME LockInv, NEW s \in Sessions, NEW c, sess' = [ClosedSession(s) EXCEPT ![s] = c],
           LET d == [sess[s] EXCEPT !.status = "closed", !.operation = None, !.flag = TRUE,
                                    !.txn = "closed", !.content = {}]
           IN \/ c = d
              \/ c = [d EXCEPT !.rev = @ + 1]
              \/ c = [d EXCEPT !.cancelled = TRUE],
           sess[s].operation = None \/ ~sess[s].started,
           sess[s].status \in {"open", "running"}
    PROVE  Closes(s)
  <1> DEFINE d == [sess[s] EXCEPT !.status = "closed", !.operation = None, !.flag = TRUE,
                                  !.txn = "closed", !.content = {}]
  <1> RawTypes /\ sess[s] \in SessionRecord
    BY DEF LockInv, RawTypes
  <1>2. sess[s] \in SessionRecord
    OBVIOUS
  <1> d \in SessionRecord
    BY <1>2, Zenon DEF SessionRecord
  <1> /\ d.status = "closed" /\ d.operation = None /\ d.txn = "closed" /\ d.content = {}
      /\ d.rev = sess[s].rev /\ d.rev \in Nat
    BY <1>2 DEF SessionRecord
  <1>5. c = d \/ c = [d EXCEPT !.rev = @ + 1] \/ c = [d EXCEPT !.cancelled = TRUE]
    OBVIOUS
  <1> HIDE DEF d
  <1>6. /\ c \in SessionRecord
        /\ c.status = "closed" /\ c.operation = None /\ c.txn = "closed" /\ c.content = {}
        /\ c.rev >= sess[s].rev
    <2>1. CASE c = d
      BY <2>1
    <2>2. CASE c = [d EXCEPT !.rev = @ + 1]
      <3>1. c \in SessionRecord
        BY <2>2 DEF SessionRecord
      <3> QED BY <2>2, <3>1 DEF SessionRecord
    <2>3. CASE c = [d EXCEPT !.cancelled = TRUE]
      <3>1. c \in SessionRecord
        BY <2>3, Zenon DEF SessionRecord
      <3> QED BY <2>3, <3>1 DEF SessionRecord
    <2> QED BY <1>5, <2>1, <2>2, <2>3
  <1>8. sess' = [sess EXCEPT ![s] = c]
    BY Zenon DEF ClosedSession, RawTypes
  <1>9. /\ sess' \in [Sessions -> SessionRecord] /\ sess'[s] = c
        /\ \A x \in Sessions : x # s => sess'[x] = sess[x]
    BY <1>6, <1>8, Session_Put, Zenon
  <1> QED BY <1>6, <1>9 DEF Closes

\* What the steps that close a session have in common.
LEMMA Closing_Lock ==
    ASSUME LockInv, NEW s \in Sessions, Closes(s), registry' = registry \ {s},
           UNCHANGED <<opening, create, closed, durable, tasks>>, events' \in Nat,
           shut' \in [pc : {"none", "sessions", "done"}, todo : SUBSET Sessions,
                      at : Sessions \cup {None}],
           shut'.pc = shut.pc, shut.todo \ {s} \subseteq shut'.todo, shut'.todo \subseteq shut.todo,
           shut'.at # None => shut'.at = shut.at,
           \/ req' = req /\ sess[s].operation = None
           \/ req' = Stopped(s) /\ ~sess[s].started
    PROVE  LockInv'
  <1> RawTypes /\ ShutdownOK
    BY DEF LockInv
  <1>2. req' \in [Reqs -> RequestRecord]
    BY Stopped_Requests, Zenon DEF RawTypes
  <1>3. RawTypes'
    BY <1>2 DEF RawTypes, Closes
  <1>4. ShutdownOK'
    <2>1. \A x \in Sessions : sess[x].status # "none" => sess'[x].status # "none"
      BY DEF Closes
    <2>2. \A x \in Sessions : x \in shut'.todo \/ x = shut'.at => x \in shut.todo \/ x = shut.at
      OBVIOUS
    <2>3. registry' \subseteq registry /\ s \notin registry'
      OBVIOUS
    <2> QED BY <2>1, <2>2, <2>3 DEF ShutdownOK
  <1>6. \A x \in Sessions : SessionOK(x)'
    BY Closes_Session
  <1>7. \A r \in Reqs : RequestOK(r)'
    BY Closes_Request
  <1> QED BY <1>3, <1>4, <1>6, <1>7 DEF LockInv

\* The shutdown closes the session at hand, unless it was closed meanwhile.
LEMMA ShutdownClose_Cases ==
    ASSUME LockInv, ShutdownClose
    PROVE  /\ shut.at \in Sessions /\ sess[shut.at].operation = None
           /\ UNCHANGED <<opening, create, closed, req, durable, tasks, events>>
           /\ registry' = registry \ {shut.at}
           /\ shut' = [shut EXCEPT !.at = None, !.todo = @ \ {shut.at}]
           /\ \/ sess[shut.at].status = "closed" /\ UNCHANGED <<sess, registry>>
              \/ Closes(shut.at)
  <1> DEFINE s == shut.at
  <1> RawTypes /\ ShutdownOK
    BY DEF LockInv
  <1> /\ shut.at \in Sessions /\ sess[s].operation = None
      /\ UNCHANGED <<opening, create, closed, req, durable, tasks, events>>
      /\ registry' = registry \ {s}
      /\ shut' = [shut EXCEPT !.at = None, !.todo = @ \ {s}]
    BY DEF ShutdownClose, RawTypes
  <1>3. SessionOK(s) /\ sess[s].status # "none" /\ sess[s] \in SessionRecord
    BY DEF LockInv, ShutdownOK, RawTypes
  <1>4. CASE sess[s].status = "closed"
    <2>1. s \notin registry /\ sess' = sess
      BY <1>3, <1>4 DEF SessionOK, ShutdownClose
    <2> QED BY <1>4, <2>1
  <1>5. CASE sess[s].status # "closed"
    <2>1. sess' = ClosedSession(s) /\ sess[s].status \in {"open", "running"}
      BY <1>3, <1>5 DEF ShutdownClose, SessionRecord
    <2> DEFINE d == [sess[s] EXCEPT !.status = "closed", !.operation = None, !.flag = TRUE,
                                    !.txn = "closed", !.content = {}]
    <2>2. ClosedSession(s) = [sess EXCEPT ![s] = d]
      BY Zenon DEF ClosedSession, RawTypes
    <2>3. ClosedSession(s) = [ClosedSession(s) EXCEPT ![s] = d]
      BY <2>2, Zenon DEF RawTypes
    <2>4. sess' = [ClosedSession(s) EXCEPT ![s] = d]
      BY <2>1, <2>3
    <2>5. Closes(s)
      BY <2>1, <2>4, Closed_Session, Zenon
    <2> QED BY <2>5
  <1> QED BY <1>4, <1>5

\* close closes a session under its operation lock.
LEMMA ShutdownClose_Lock ==
    ASSUME LockInv, ShutdownClose
    PROVE  LockInv'
  <1> DEFINE s == shut.at
  <1> /\ s \in Sessions /\ sess[s].operation = None
      /\ UNCHANGED <<opening, create, closed, req, durable, tasks, events>>
      /\ registry' = registry \ {s}
      /\ shut' = [shut EXCEPT !.at = None, !.todo = @ \ {s}]
      /\ \/ sess[s].status = "closed" /\ UNCHANGED <<sess, registry>>
         \/ Closes(s)
    BY ShutdownClose_Cases
  <1> /\ RawTypes /\ ShutdownOK /\ events \in Nat
      /\ shut \in [pc : {"none", "sessions", "done"}, todo : SUBSET Sessions,
                   at : Sessions \cup {None}]
    BY DEF LockInv, RawTypes
  <1> /\ shut' \in [pc : {"none", "sessions", "done"}, todo : SUBSET Sessions,
                    at : Sessions \cup {None}]
      /\ shut'.pc = shut.pc /\ shut'.todo = shut.todo \ {s} /\ shut'.at = None
    BY Zenon
  <1> HIDE DEF s
  <1>4. CASE Closes(s)
    BY <1>4, Closing_Lock
  <1>5. CASE UNCHANGED <<sess, registry>>
    <2>1. RawTypes'
      BY <1>5 DEF RawTypes
    <2>2. ShutdownOK'
      <3>1. s \notin registry'
        OBVIOUS
      <3> QED BY <1>5, <3>1 DEF ShutdownOK
    <2>4. \A x \in Sessions : SessionOK(x)'
      BY <1>5 DEF LockInv, SessionOK
    <2>5. \A r \in Reqs : RequestOK(r)'
      BY <1>5, Quiet_Request DEF Quiet
    <2> QED BY <2>1, <2>2, <2>4, <2>5 DEF LockInv
  <1> QED BY <1>4, <1>5

\* The shutdown signals a session, and closes one that nobody had begun to use.
LEMMA ShutdownCancel_Cases ==
    ASSUME LockInv, NEW s \in Sessions, ShutdownCancel(s)
    PROVE  /\ UNCHANGED <<opening, create, closed, durable, tasks, events>>
           /\ shut.pc = "sessions" /\ shut.at = None
           /\ \/ /\ sess[s].status = "closed" /\ UNCHANGED <<sess, req, registry>>
                 /\ shut' = [shut EXCEPT !.todo = @ \ {s}]
              \/ /\ Closes(s) /\ req' = Stopped(s) /\ registry' = registry \ {s}
                 /\ sess[s].status = "running" /\ ~sess[s].started
                 /\ shut' = [shut EXCEPT !.todo = @ \ {s}]
              \/ /\ sess' = Cancelled(s) /\ req' = Stopped(s) /\ UNCHANGED registry
                 /\ shut' = [shut EXCEPT !.at = s]
  <1> /\ UNCHANGED <<opening, create, closed, durable, tasks, events>>
      /\ shut.pc = "sessions" /\ shut.at = None
    BY DEF ShutdownCancel
  <1>2. CASE sess[s].status = "closed"
    BY <1>2 DEF ShutdownCancel
  <1>3. CASE sess[s].status = "running" /\ ~sess[s].started
    <2> RawTypes /\ sess' = [ClosedSession(s) EXCEPT ![s].cancelled = TRUE]
      BY <1>3 DEF ShutdownCancel, LockInv
    <2> DEFINE d == [sess[s] EXCEPT !.status = "closed", !.operation = None, !.flag = TRUE,
                                    !.txn = "closed", !.content = {}]
    <2>2. ClosedSession(s) = [sess EXCEPT ![s] = d]
      BY Zenon DEF ClosedSession, RawTypes
    <2>3. ClosedSession(s)[s] = d
      BY <2>2 DEF RawTypes
    <2>4. sess' = [ClosedSession(s) EXCEPT ![s] = [d EXCEPT !.cancelled = TRUE]]
      BY <2>3
    <2>5. Closes(s)
      BY <1>3, <2>4, Closed_Session, Zenon
    <2> QED BY <1>3, <2>5 DEF ShutdownCancel
  <1>4. CASE sess[s].status # "closed" /\ ~(sess[s].status = "running" /\ ~sess[s].started)
    BY <1>4 DEF ShutdownCancel
  <1> QED BY <1>2, <1>3, <1>4

\* close signals a session, or closes one that nobody uses.
LEMMA ShutdownCancel_Lock ==
    ASSUME LockInv, NEW s \in Sessions, ShutdownCancel(s)
    PROVE  LockInv'
  <1> /\ UNCHANGED <<opening, create, closed, durable, tasks, events>>
      /\ shut.pc = "sessions" /\ shut.at = None
      /\ \/ /\ sess[s].status = "closed" /\ UNCHANGED <<sess, req, registry>>
            /\ shut' = [shut EXCEPT !.todo = @ \ {s}]
         \/ /\ Closes(s) /\ req' = Stopped(s) /\ registry' = registry \ {s}
            /\ sess[s].status = "running" /\ ~sess[s].started
            /\ shut' = [shut EXCEPT !.todo = @ \ {s}]
         \/ /\ sess' = Cancelled(s) /\ req' = Stopped(s) /\ UNCHANGED registry
            /\ shut' = [shut EXCEPT !.at = s]
    BY ShutdownCancel_Cases
  <1> /\ RawTypes /\ ShutdownOK /\ SessionOK(s) /\ events \in Nat
      /\ shut \in [pc : {"none", "sessions", "done"}, todo : SUBSET Sessions,
                   at : Sessions \cup {None}]
    BY DEF LockInv, RawTypes
  <1>3. CASE /\ Closes(s) /\ req' = Stopped(s) /\ registry' = registry \ {s}
             /\ ~sess[s].started /\ shut' = [shut EXCEPT !.todo = @ \ {s}]
    <2>1. /\ shut' \in [pc : {"none", "sessions", "done"}, todo : SUBSET Sessions,
                        at : Sessions \cup {None}]
          /\ shut'.pc = shut.pc /\ shut'.todo = shut.todo \ {s} /\ shut'.at = shut.at
      BY <1>3
    <2> QED BY <1>3, <2>1, Closing_Lock
  <1>4. CASE /\ sess[s].status = "closed" /\ UNCHANGED <<sess, req, registry>>
             /\ shut' = [shut EXCEPT !.todo = @ \ {s}]
    <2>1. /\ shut' \in [pc : {"none", "sessions", "done"}, todo : SUBSET Sessions,
                        at : Sessions \cup {None}]
          /\ shut'.pc = shut.pc /\ shut'.todo = shut.todo \ {s} /\ shut'.at = shut.at
      BY <1>4
    <2>2. RawTypes'
      BY <1>4, <2>1 DEF RawTypes
    <2>3. s \notin registry
      BY <1>4 DEF SessionOK
    <2>4. ShutdownOK'
      BY <1>4, <2>1, <2>3 DEF ShutdownOK
    <2>6. \A x \in Sessions : SessionOK(x)'
      BY <1>4 DEF LockInv, SessionOK
    <2>7. \A r \in Reqs : RequestOK(r)'
      BY <1>4, Quiet_Request DEF Quiet
    <2> QED BY <2>2, <2>4, <2>6, <2>7 DEF LockInv
  <1>5. CASE /\ sess' = Cancelled(s) /\ req' = Stopped(s) /\ UNCHANGED registry
             /\ shut' = [shut EXCEPT !.at = s]
    <2>1. /\ shut' \in [pc : {"none", "sessions", "done"}, todo : SUBSET Sessions,
                        at : Sessions \cup {None}]
          /\ shut'.pc = shut.pc /\ shut'.todo = shut.todo /\ shut'.at = s
      BY <1>5
    <2> /\ sess' \in [Sessions -> SessionRecord]
        /\ \A x \in Sessions : Quiet(x) /\ /\ sess'[x].status = sess[x].status
                                           /\ sess'[x].txn = sess[x].txn
                                           /\ sess'[x].content = sess[x].content
        /\ sess[s].status = "running" => sess'[s].flag
      BY <1>5, Cancelled_Session
    <2>3. req' \in [Reqs -> RequestRecord]
      BY <1>5, Stopped_Requests, Zenon
    <2>4. RawTypes'
      BY <1>5, <2>1, <2>3 DEF RawTypes
    <2>5. ShutdownOK'
      <3>1. s \in shut.todo
        BY DEF ShutdownCancel
      <3> QED BY <1>5, <2>1, <3>1 DEF ShutdownOK
    <2>7. ASSUME NEW x \in Sessions
          PROVE  SessionOK(x)'
      <3>1. SessionOK(x)
        BY DEF LockInv
      <3>2. /\ sess'[x].status = sess[x].status /\ sess'[x].txn = sess[x].txn
            /\ sess'[x].content = sess[x].content /\ sess'[x].operation = sess[x].operation
        BY DEF Quiet
      <3> QED BY <1>5, <3>1, <3>2 DEF SessionOK
    <2>8. \A r \in Reqs : RequestOK(r)'
      BY <1>5, Signalled_Request
    <2> QED BY <2>4, <2>5, <2>7, <2>8 DEF LockInv
  <1> QED BY <1>3, <1>4, <1>5

-----------------------------------------------------------------------------
(* Signals leave the runs as they were *)

\* A request is over: it was refused, or its session was told to stop before
\* it had begun, or it has released its session.
Finishes(r) ==
    /\ req'[r].pc = "done" /\ req'[r].s = req[r].s /\ req'[r].kind = req[r].kind
    /\ req'[r].mode = req[r].mode /\ req'[r].script = req[r].script
    /\ req'[r].exp = req[r].exp /\ req'[r].seen = req[r].seen /\ req'[r].partly = req[r].partly
    /\ req'[r].pos = req[r].pos /\ req'[r].done = req[r].done
    /\ req'[r].status = req[r].status \/ (req[r].pc = "ticket" /\ req'[r].status = "failed")

\* A request that ends before it has sent anything, or at its release.
LEMMA Finished ==
    ASSUME RawInv, NEW r \in Reqs, req[r].pc \in {"reserve", "ticket", "release"}, Finishes(r),
           sess' \in [Sessions -> SessionRecord], UNCHANGED durable,
           \A x \in Sessions : sess'[x].content \subseteq sess[x].content,
           SameSession(req[r].s) \/ Later(req[r].s)
    PROVE  TurnOK(r)' /\ WholeOK(r)' /\ HeldOK(r)'
  <1> LockInv /\ TurnOK(r) /\ WholeOK(r)
    BY DEF RawInv
  <1>2. TurnOK(r)'
    <2>1. req[r].exp # 0 =>
            /\ req[r].exp <= sess'[req[r].s].rev
            /\ sess'[req[r].s].status = "open" /\ req[r].exp = sess'[req[r].s].rev =>
                 req[r].seen = sess'[req[r].s].pending /\ req[r].partly = sess'[req[r].s].truncated
      BY Review_Stays, Zenon
    <2>2. /\ req[r].kind # "run" => req[r].done = 0 /\ req[r].pos = 1
          /\ req[r].done <= Len(req[r].script)
      BY DEF TurnOK
    <2> QED BY <2>1, <2>2, Zenon DEF TurnOK, Finishes, Unsent
  <1>3. WholeOK(r)'
    <2>1. Own(r)' = Own(r) /\ Whole(r)' = Whole(r)
      BY Same_Script, Zenon DEF Finishes
    <2> /\ req'[r].pc = "done" /\ req'[r].script = req[r].script
        /\ req'[r].status = req[r].status \/ (req[r].pc = "ticket" /\ req'[r].status = "failed")
      BY DEF Finishes
    <2>3. CASE ~Whole(r)
      BY <2>1, <2>3, Zenon DEF WholeOK
    <2>4. CASE Whole(r)
      <3>1. /\ \A x \in Sessions : sess[x].content \cap Traces(r) = {}
            /\ \A i \in DOMAIN req[r].script : req[r].script[i] # "commit"
            /\ Own(r) \subseteq durable \/ durable \cap Traces(r) = {}
        BY <2>4, Zenon DEF WholeOK
      <3>2. /\ req'[r].status = "succeeded" => Own(r) \subseteq durable
            /\ req'[r].status \in {"cancelled", "failed"} => durable \cap Traces(r) = {}
        <4>1. CASE req[r].pc = "release"
          BY <2>4, <4>1, Zenon DEF WholeOK
        <4>2. CASE req[r].pc \in {"reserve", "ticket"}
          <5>1. req[r].status # "succeeded"
            BY <4>2, Zenon DEF TurnOK
          <5>2. durable \cap Traces(r) = {}
            BY <2>4, <4>2, Zenon DEF WholeOK
          <5> QED BY <5>1, <5>2, Zenon
        <4> QED BY <4>1, <4>2
      <3>3. \A x \in Sessions : sess'[x].content \cap Traces(r) = {}
        BY <3>1
      <3> QED BY <2>1, <2>4, <3>1, <3>2, <3>3, Zenon DEF WholeOK, Unsent
    <2> QED BY <2>3, <2>4
  <1>4. HeldOK(r)'
    <2>1. req'[r].pc \notin Using \cup {"start", "track", "release"}
      BY Zenon DEF Finishes, Using
    <2> QED BY <2>1, Zenon DEF HeldOK
  <1> QED BY <1>2, <1>3, <1>4

\* A step that opens, signals or closes sessions keeps the invariant.
LEMMA Signals_Inv ==
    ASSUME RawInv, LockInv', UNCHANGED durable,
           \A r \in Reqs : Same(r) \/ (req[r].pc = "ticket" /\ Finishes(r)),
           \A x \in Sessions :
             \/ SameSession(x)
             \/ Closes(x)
             \/ sess[x].status = "none" /\ sess'[x].content = {}
    PROVE  RawInv'
  <1> LockInv /\ RawTypes /\ sess' \in [Sessions -> SessionRecord]
    BY Zenon DEF RawInv, LockInv, RawTypes
  <1>2. \A x \in Sessions : sess'[x].content \subseteq sess[x].content
    BY Zenon DEF SameSession, Closes
  <1>3. ASSUME NEW x \in Sessions
        PROVE  ListOK(x)'
    <2>1. CASE SameSession(x)
      BY <2>1, Zenon DEF RawInv, ListOK, SameSession
    <2>2. CASE sess'[x].content = {}
      BY <2>2 DEF ListOK
    <2> QED BY <2>1, <2>2 DEF Closes
  <1>4. ASSUME NEW r \in Reqs
        PROVE  TurnOK(r)' /\ WholeOK(r)' /\ HeldOK(r)'
    <2>1. req[r].pc # "idle" \/ req[r].exp # 0 =>
            \/ SameSession(req[r].s)
            \/ NotHeld(req[r].s, r) /\ Later(req[r].s)
      <3>1. SUFFICES ASSUME req[r].s \in Sessions, sess[req[r].s].status # "none",
                            ~SameSession(req[r].s)
                     PROVE  NotHeld(req[r].s, r) /\ Later(req[r].s)
        BY Zenon DEF LockInv, RequestOK
      <3>2. Closes(req[r].s)
        BY <3>1, Zenon
      <3> QED BY <3>2 DEF Closes, NotHeld, Later
    <2>2. CASE Same(r)
      BY <1>2, <2>1, <2>2, Aside
    <2>3. CASE req[r].pc = "ticket" /\ Finishes(r)
      BY <1>2, <2>1, <2>3, Finished, Zenon
    <2> QED BY <2>2, <2>3
  <1> QED BY <1>3, <1>4, Zenon DEF RawInv

\* The session that is opened was in nobody's hands.
LEMMA Opens_Inv ==
    ASSUME RawInv, NEW s \in Sessions,
           BeginCreate(s) \/ ConnectRaw(s) \/ Register(s) \/ LeaveOpening(s)
    PROVE  RawInv'
  <1> LockInv /\ RawTypes /\ SessionOK(s) /\ sess[s] \in SessionRecord
    BY Raw_Records, Zenon DEF RawInv, LockInv
  <1>2. LockInv'
    BY BeginCreate_Lock, ConnectRaw_Lock, Register_Lock, LeaveOpening_Lock
  <1>3. UNCHANGED <<durable, req>>
    BY DEF BeginCreate, ConnectRaw, Register, LeaveOpening
  <1>4. \A r \in Reqs : Same(r)
    BY <1>3 DEF Same
  <1> \/ UNCHANGED sess
      \/ /\ create[s] \in {"connect", "register"}
         /\ \E c \in {[sess[s] EXCEPT !.txn = "idle"], [sess[s] EXCEPT !.txn = "closed"],
                      [sess[s] EXCEPT !.status = "open", !.rev = 1]} :
              sess' = [sess EXCEPT ![s] = c]
    <2>1. CASE BeginCreate(s) \/ LeaveOpening(s)
      BY <2>1 DEF BeginCreate, LeaveOpening
    <2>2. CASE ConnectRaw(s)
      <3>1. \/ UNCHANGED sess
            \/ create[s] = "connect" /\ sess' = [sess EXCEPT ![s] = [sess[s] EXCEPT !.txn = "idle"]]
        BY <2>2 DEF ConnectRaw, RawTypes
      <3> QED BY <3>1
    <2>3. CASE Register(s)
      <3>1. /\ create[s] = "register"
            /\ \/ sess' = [sess EXCEPT ![s] = [sess[s] EXCEPT !.txn = "closed"]]
               \/ sess' = [sess EXCEPT ![s] = [sess[s] EXCEPT !.status = "open", !.rev = 1]]
        BY <2>3, Zenon DEF Register, RawTypes
      <3> QED BY <3>1
    <2> QED BY <2>1, <2>2, <2>3
  <1>6. ASSUME NEW x \in Sessions
        PROVE  SameSession(x) \/ (sess[x].status = "none" /\ sess'[x].content = {})
    <2>1. CASE UNCHANGED sess
      BY <2>1 DEF SameSession
    <2>2. CASE x # s
      <3>1. sess'[x] = sess[x]
        BY <2>2 DEF RawTypes
      <3> QED BY <3>1 DEF SameSession
    <2>3. CASE x = s /\ sess' # sess
      <3>1. create[s] \in {"connect", "register"}
        BY <2>3
      <3>2. /\ sess[s].status = "none" /\ sess[s].txn \notin Unfinished
            /\ sess[s].content # {} => sess[s].txn \in Unfinished
        BY <3>1 DEF SessionOK, Unfinished
      <3>3. PICK c \in {[sess[s] EXCEPT !.txn = "idle"], [sess[s] EXCEPT !.txn = "closed"],
                        [sess[s] EXCEPT !.status = "open", !.rev = 1]} :
                sess' = [sess EXCEPT ![s] = c]
        BY <2>3
      <3>4. c.content = sess[s].content
        <4>1. sess[s] \in SessionRecord
          OBVIOUS
        <4> QED BY <3>3, <4>1, ZenonT(40), SMTT(15) DEF SessionRecord
      <3>5. sess'[s] = c
        BY <3>3 DEF RawTypes
      <3> QED BY <2>3, <3>2, <3>4, <3>5
    <2> QED BY <2>1, <2>2, <2>3
  <1> QED BY <1>2, <1>3, <1>4, <1>6, Signals_Inv

\* The beginning and the end of close leave requests and transactions alone.
LEMMA Shutdown_Ends_Inv ==
    ASSUME RawInv, BeginShutdown \/ EndShutdown
    PROVE  RawInv'
  <1> LockInv /\ UNCHANGED <<sess, req, durable>>
    BY DEF RawInv, BeginShutdown, EndShutdown
  <1>2. LockInv'
    BY BeginShutdown_Lock, EndShutdown_Lock
  <1>3. /\ \A r \in Reqs : Same(r)
        /\ \A x \in Sessions : SameSession(x)
    BY DEF Same, SameSession
  <1> QED BY <1>2, <1>3, Signals_Inv

\* Closing one session leaves the others as they were.
LEMMA Closes_Same ==
    ASSUME NEW s \in Sessions, Closes(s)
    PROVE  \A x \in Sessions : SameSession(x) \/ Closes(x)
  <1>1. \A x \in Sessions : x # s => sess'[x] = sess[x]
    BY DEF Closes
  <1> QED BY <1>1 DEF SameSession

\* close closes a session under its operation lock: what requests and lists
\* say of it stays true.
LEMMA ShutdownClose_Inv ==
    ASSUME RawInv, ShutdownClose
    PROVE  RawInv'
  <1>1. LockInv
    BY DEF RawInv
  <1> /\ LockInv' /\ UNCHANGED <<durable, req>> /\ shut.at \in Sessions
      /\ UNCHANGED sess \/ Closes(shut.at)
    BY <1>1, ShutdownClose_Lock, ShutdownClose_Cases
  <1>3. \A r \in Reqs : Same(r)
    BY DEF Same
  <1>4. \A x \in Sessions : SameSession(x) \/ Closes(x)
    <2>1. CASE UNCHANGED sess
      BY <2>1 DEF SameSession
    <2>2. CASE Closes(shut.at)
      BY <2>2, Closes_Same
    <2> QED BY <2>1, <2>2
  <1> QED BY <1>3, <1>4, Signals_Inv

\* A step that leaves every session as it is, but for its events.
LEMMA Stays_Lock ==
    ASSUME LockInv, sess' \in [Sessions -> SessionRecord], req' \in [Reqs -> RequestRecord],
           \A x \in Sessions : SameSession(x), events' \in Nat,
           UNCHANGED <<registry, opening, create, closed, shut, durable, tasks>>,
           \A r \in Reqs : RequestOK(r)'
    PROVE  LockInv'
  <1>1. RawTypes'
    BY DEF LockInv, RawTypes
  <1>2. ShutdownOK'
    BY SMTT(15), Z3T(15), ZenonT(40) DEF LockInv, ShutdownOK, SameSession
  <1>4. ASSUME NEW x \in Sessions
        PROVE  SessionOK(x)'
    <2>1. SessionOK(x) /\ SameSession(x)
      BY DEF LockInv
    <2> QED BY <2>1 DEF SessionOK, SameSession
  <1> QED BY <1>1, <1>2, <1>4 DEF LockInv

\* An event happened.
LEMMA Event_Left ==
    ASSUME RawTypes, Event
    PROVE  events' \in Nat
  BY DEF RawTypes, Event

\* What a signal leaves of a request.
LEMMA Told_Fields ==
    ASSUME NEW r \in Reqs, req[r] \in RequestRecord
    PROVE  /\ req'[r] = [req[r] EXCEPT !.pc = "done", !.status = "failed"] /\ req[r].pc = "ticket"
                => Finishes(r)
           /\ req'[r] = [req[r] EXCEPT !.stopped = TRUE] => Same(r)
           /\ req'[r] = [req[r] EXCEPT !.allowed = FALSE] => Same(r)
           /\ req'[r] = req[r] => Same(r)
  <1>1. /\ req'[r] = [req[r] EXCEPT !.pc = "done", !.status = "failed"] /\ req[r].pc = "ticket"
             => Finishes(r)
    BY ZenonT(40) DEF RequestRecord, Finishes
  <1>2. req'[r] = [req[r] EXCEPT !.stopped = TRUE] => Same(r)
    BY DEF RequestRecord, Same
  <1>3. req'[r] = [req[r] EXCEPT !.allowed = FALSE] => Same(r)
    BY DEF RequestRecord, Same
  <1>4. req'[r] = req[r] => Same(r)
    BY DEF Same
  <1> QED BY <1>1, <1>2, <1>3, <1>4

\* The client of a download goes away (CopyStreamingResponse).
LEMMA Disconnect_Inv ==
    ASSUME RawInv, NEW r \in Reqs, Disconnect(r)
    PROVE  RawInv'
  <1> DEFINE s == req[r].s
             c == [sess[s] EXCEPT !.flag = TRUE]
             q == [req[r] EXCEPT !.stopped = TRUE]
  <1> /\ LockInv /\ RawTypes /\ RequestOK(r)
      /\ req[r].pc \in {"start", "policy", "statement", "track", "release"}
      /\ UNCHANGED <<registry, opening, create, closed, shut, durable, tasks>>
      /\ Event
    BY DEF RawInv, LockInv, Disconnect
  <1> s \in Sessions /\ sess[s] \in SessionRecord /\ sess[s].status # "none"
    BY Uses DEF Using
  <1>3. sess' = [sess EXCEPT ![s] = c] /\ req' = [req EXCEPT ![r] = q]
    BY DEF Disconnect, RawTypes
  <1>4. sess[s] \in SessionRecord
    OBVIOUS
  <1>5. c \in SessionRecord
    BY <1>4, Zenon DEF SessionRecord
  <1>6. /\ c.flag /\ c.txn = sess[s].txn /\ c.content = sess[s].content
        /\ c.pending = sess[s].pending /\ c.truncated = sess[s].truncated
        /\ c.rev = sess[s].rev /\ c.status = sess[s].status
        /\ c.operation = sess[s].operation /\ c.started = sess[s].started
    BY <1>4 DEF SessionRecord
  <1>7. req[r] \in RequestRecord
    BY Raw_Records
  <1>8. q \in RequestRecord /\ q.pc = req[r].pc /\ q.s = s /\ q.exp = req[r].exp
    BY <1>7, Request_Told, Zenon
  <1> HIDE DEF s, c
  <1> /\ sess' \in [Sessions -> SessionRecord] /\ sess'[s] = c
      /\ \A x \in Sessions : x # s => sess'[x] = sess[x]
    BY <1>3, <1>5, Session_Put, Zenon
  <1> /\ req' \in [Reqs -> RequestRecord] /\ req'[r] = q
      /\ \A o \in Reqs : o # r => req'[o] = req[o]
    BY <1>3, <1>8 DEF RawTypes
  <1> \A x \in Sessions : SameSession(x) /\ Quiet(x)
    BY <1>6 DEF SameSession, Quiet
  <1>12. ASSUME NEW o \in Reqs
         PROVE  RequestOK(o)' /\ Same(o)
    <2>1. CASE o # r
      <3>1. req'[o] = req[o]
        BY <2>1
      <3> QED BY <3>1, Quiet_Request DEF Same
    <2>2. CASE o = r
      <3>1. Same(r)
        BY <1>7, Told_Fields, Zenon
      <3> HIDE DEF q
      <3>2. /\ req'[r].pc = req[r].pc /\ req'[r].s = req[r].s /\ req'[r].exp = req[r].exp
            /\ sess'[req[r].s].flag
        BY <1>6, <1>8, Zenon DEF s
      <3>3. req[r].pc \notin {"idle", "reserve", "ticket"}
        BY DEF Using
      <3>4. RequestOK(r)'
        BY <3>2, <3>3, Quiet_Request
      <3> QED BY <2>2, <3>1, <3>4
    <2> QED BY <2>1, <2>2
  <1>13. LockInv'
    BY <1>12, Event_Left, Stays_Lock
  <1> QED BY <1>12, <1>13, Signals_Inv

\* The grant behind a ticket is revoked (authorize_ticket).
LEMMA Revoke_Inv ==
    ASSUME RawInv, NEW r \in Reqs, Revoke(r)
    PROVE  RawInv'
  <1> DEFINE q == [req[r] EXCEPT !.allowed = FALSE]
  <1> /\ LockInv /\ RawTypes /\ UNCHANGED sess /\ Event
      /\ UNCHANGED <<registry, opening, create, closed, shut, durable, tasks>>
    BY DEF RawInv, LockInv, Revoke
  <1>2. req' = [req EXCEPT ![r] = q]
    BY DEF Revoke, RawTypes
  <1> req[r] \in RequestRecord
    BY Raw_Records
  <1>4. q \in RequestRecord
    BY ZenonT(40) DEF RequestRecord
  <1>5. q.stopped = req[r].stopped
    BY DEF RequestRecord
  <1> /\ req' \in [Reqs -> RequestRecord] /\ req'[r] = q
      /\ \A o \in Reqs : o # r => req'[o] = req[o]
    BY <1>2, <1>4 DEF RawTypes
  <1> \A x \in Sessions : SameSession(x) /\ Quiet(x)
    BY DEF SameSession, Quiet
  <1>8. ASSUME NEW o \in Reqs
        PROVE  RequestOK(o)' /\ Same(o)
    <2>1. Same(o) /\ req'[o].stopped = req[o].stopped
      <3>1. Same(r) /\ req'[r].stopped = req[r].stopped
        BY <1>5, Told_Fields, Zenon
      <3>2. o # r => Same(o) /\ req'[o].stopped = req[o].stopped
        BY DEF Same
      <3> QED BY <3>1, <3>2, Zenon
    <2>2. req'[o].pc = req[o].pc /\ req'[o].s = req[o].s /\ req'[o].exp = req[o].exp
      BY <2>1 DEF Same
    <2> QED BY <2>1, <2>2, Quiet_Request
  <1>9. LockInv'
    <2>1. sess' \in [Sessions -> SessionRecord]
      BY DEF RawTypes
    <2> QED BY <1>8, <2>1, Event_Left, Stays_Lock
  <1> QED BY <1>8, <1>9, Signals_Inv

\* The requests that the signal of a session reaches.
LEMMA Stopped_Same ==
    ASSUME LockInv, NEW s \in Sessions, req' = Stopped(s), NEW r \in Reqs
    PROVE  Same(r) \/ (req[r].pc = "ticket" /\ Finishes(r))
  <1>1. req[r] \in RequestRecord
    BY Raw_Records DEF LockInv
  <1>2. \/ /\ req[r].pc = "ticket"
           /\ req'[r] = [req[r] EXCEPT !.pc = "done", !.status = "failed"]
        \/ req'[r] = [req[r] EXCEPT !.stopped = TRUE]
        \/ req'[r] = req[r]
    BY Stopped_Requests, Zenon
  <1> QED BY <1>1, <1>2, Told_Fields, Zenon

\* The sessions that it leaves as they are.
LEMMA Cancelled_Same ==
    ASSUME LockInv, NEW s \in Sessions, sess' = Cancelled(s)
    PROVE  \A x \in Sessions : SameSession(x)
  BY Cancelled_Session DEF SameSession, Quiet

\* close signals a session: the request that is told to stop has the fence
\* before it.
LEMMA ShutdownCancel_Inv ==
    ASSUME RawInv, NEW s \in Sessions, ShutdownCancel(s)
    PROVE  RawInv'
  <1> LockInv
    BY DEF RawInv
  <1>2. LockInv' /\ UNCHANGED durable
    BY ShutdownCancel_Lock, ShutdownCancel_Cases
  <1>3. \/ UNCHANGED <<sess, req>>
        \/ Closes(s) /\ req' = Stopped(s)
        \/ sess' = Cancelled(s) /\ req' = Stopped(s)
    BY ShutdownCancel_Cases
  <1>4. \A r \in Reqs : Same(r) \/ (req[r].pc = "ticket" /\ Finishes(r))
    <2>1. CASE UNCHANGED <<sess, req>>
      BY <2>1 DEF Same
    <2>2. CASE req' = Stopped(s)
      BY <2>2, Stopped_Same
    <2> QED BY <1>3, <2>1, <2>2
  <1>5. \A x \in Sessions : SameSession(x) \/ Closes(x)
    <2>1. CASE UNCHANGED <<sess, req>>
      BY <2>1 DEF SameSession
    <2>2. CASE Closes(s)
      BY <2>2, Closes_Same
    <2>3. CASE sess' = Cancelled(s)
      BY <2>3, Cancelled_Same
    <2> QED BY <1>3, <2>1, <2>2, <2>3
  <1> QED BY <1>2, <1>4, <1>5, Signals_Inv

\* cancel signals a session: the request that is told to stop has the fence
\* before it.
LEMMA Cancel_Inv ==
    ASSUME RawInv, NEW s \in Sessions, Cancel(s)
    PROVE  RawInv'
  <1>1. LockInv /\ sess' = Cancelled(s) /\ req' = Stopped(s) /\ UNCHANGED durable
    BY DEF RawInv, Cancel
  <1>2. LockInv'
    BY <1>1, Cancel_Lock
  <1> QED BY <1>1, <1>2, Stopped_Same, Cancelled_Same, Signals_Inv

\* close_session and reap close a session that nobody uses.
LEMMA Idle_Closes ==
    ASSUME LockInv, NEW s \in Sessions, CloseSession(s) \/ Reap(s)
    PROVE  /\ Closes(s) /\ registry' = registry \ {s} /\ sess[s].operation = None
           /\ UNCHANGED <<opening, create, closed, durable, tasks, req, shut>> /\ events' \in Nat
  <1> RawTypes /\ SessionOK(s)
    BY DEF LockInv
  <1> /\ registry' = registry \ {s} /\ sess[s].operation = None /\ s \in registry
      /\ UNCHANGED <<opening, create, closed, durable, tasks, req, shut>> /\ events' \in Nat
    BY DEF CloseSession, Reap, Claimable, Event, RawTypes
  <1>3. sess[s].status \in {"open", "running"}
    BY DEF SessionOK
  <1> DEFINE d == [sess[s] EXCEPT !.status = "closed", !.operation = None, !.flag = TRUE,
                                  !.txn = "closed", !.content = {}]
  <1>4. ClosedSession(s) = [sess EXCEPT ![s] = d]
    BY Zenon DEF ClosedSession, RawTypes
  <1>5. ClosedSession(s) = [ClosedSession(s) EXCEPT ![s] = d] /\ ClosedSession(s)[s] = d
    BY <1>4, Zenon DEF RawTypes
  <1>6. CASE Reap(s)
    <2>1. sess' = [ClosedSession(s) EXCEPT ![s] = d]
      BY <1>5, <1>6 DEF Reap
    <2> QED BY <1>3, <2>1, Closed_Session, Zenon
  <1>7. CASE CloseSession(s)
    <2>1. sess' = [ClosedSession(s) EXCEPT ![s] = [d EXCEPT !.rev = @ + 1]]
      BY <1>5, <1>7 DEF CloseSession
    <2> QED BY <1>3, <2>1, Closed_Session, Zenon
  <1> QED BY <1>6, <1>7

\* close_session and reap close a session in order.
LEMMA Idle_Closes_Lock ==
    ASSUME LockInv, NEW s \in Sessions, CloseSession(s) \/ Reap(s)
    PROVE  LockInv'
  <1>1. /\ Closes(s) /\ registry' = registry \ {s} /\ sess[s].operation = None
        /\ UNCHANGED <<opening, create, closed, durable, tasks, req, shut>> /\ events' \in Nat
    BY Idle_Closes
  <1>2. shut \in [pc : {"none", "sessions", "done"}, todo : SUBSET Sessions,
                  at : Sessions \cup {None}]
    BY DEF LockInv, RawTypes
  <1> QED BY <1>1, <1>2, Closing_Lock

\* close_session and reap close a session that no request uses, and take away
\* only what was not committed.
LEMMA Idle_Closes_Inv ==
    ASSUME RawInv, NEW s \in Sessions, CloseSession(s) \/ Reap(s)
    PROVE  RawInv'
  <1>1. LockInv
    BY DEF RawInv
  <1>2. LockInv' /\ Closes(s) /\ UNCHANGED <<durable, req>>
    BY <1>1, Idle_Closes_Lock, Idle_Closes
  <1>3. \A r \in Reqs : Same(r)
    BY <1>2 DEF Same
  <1> QED BY <1>2, <1>3, Closes_Same, Signals_Inv

-----------------------------------------------------------------------------
(* Claiming and releasing a session *)

\* Session s is given to request r, or given back.
Given(s, r) ==
    /\ sess' \in [Sessions -> SessionRecord]
    /\ \A x \in Sessions : x # s => sess'[x] = sess[x]
    /\ sess[s].status \in {"open", "running"} /\ sess'[s].status \in {"open", "running"}
    /\ sess'[s].status = "running" <=> sess'[s].operation # None
    /\ sess[s].operation \in {None, r} /\ sess'[s].operation \in {None, r}
    /\ sess'[s].txn = sess[s].txn /\ sess'[s].content = sess[s].content
    /\ sess'[s].pending = sess[s].pending /\ sess'[s].truncated = sess[s].truncated
    /\ sess'[s].rev = sess[s].rev + 1

\* The other requests are as they should be.
LEMMA Given_Request ==
    ASSUME LockInv, NEW r \in Reqs, NEW s \in Sessions, Given(s, r), NEW o \in Reqs, o # r,
           req'[o] = req[o]
    PROVE  RequestOK(o)'
  <1> RequestOK(o)
    BY Zenon DEF LockInv
  <1> /\ \A x \in Sessions : x # s => sess'[x] = sess[x]
      /\ sess[s].operation # o /\ sess'[s].operation # o
      /\ sess[s].status \notin {"none", "closed"} /\ sess'[s].status # "none"
    BY DEF Given
  <1> req[o].pc # "idle" \/ req[o].exp # 0 =>
        req[o].s \in Sessions /\ sess'[req[o].s].status # "none"
    BY DEF RequestOK
  <1>4. req[o].pc \in Using \cup {"start", "track", "release"} =>
          req[o].s # s /\ sess'[req[o].s] = sess[req[o].s]
    <2>1. req[o].pc \in Using \cup {"start", "track", "release"} => req[o].pc # "idle"
      BY DEF Using
    <2>2. req[o].pc \in Using \cup {"start", "track", "release"} => req[o].s # s
      BY DEF RequestOK
    <2> QED BY <2>1, <2>2
  <1>5. \A x \in Sessions : sess'[x].operation = o => sess[x].operation = o
    OBVIOUS
  <1>6. req[o].stopped /\ sess'[req[o].s].operation = o => sess'[req[o].s].flag
    <2>1. SUFFICES ASSUME req[o].stopped, sess'[req[o].s].operation = o
                   PROVE  sess'[req[o].s].flag
      OBVIOUS
    <2>2. req[o].pc # "idle"
      BY <2>1 DEF RequestOK
    <2>3. req[o].s \in Sessions /\ req[o].s # s
      BY <2>1, <2>2
    <2>4. sess'[req[o].s] = sess[req[o].s]
      BY <2>3
    <2> QED BY <2>1, <2>4 DEF RequestOK
  <1> QED BY <1>4, <1>5, <1>6, ZenonT(40), SMTT(15) DEF RequestOK

\* A session that passes to a request, or back, keeps the order of the locks.
LEMMA Given_Lock ==
    ASSUME LockInv, NEW r \in Reqs, NEW s \in Sessions, Given(s, r), OnlyConnection,
           UNCHANGED durable, req' \in [Reqs -> RequestRecord],
           \A o \in Reqs : o # r => req'[o] = req[o], RequestOK(r)'
    PROVE  LockInv'
  <1>1. RawTypes /\ ShutdownOK
    BY DEF LockInv
  <1>2. RawTypes'
    BY <1>1 DEF RawTypes, OnlyConnection, Given
  <1>3. \A x \in Sessions : sess[x].status # "none" => sess'[x].status # "none"
    BY DEF Given
  <1>4. ShutdownOK'
    BY <1>1, <1>3, Zenon DEF ShutdownOK, OnlyConnection
  <1>6. ASSUME NEW x \in Sessions
        PROVE  SessionOK(x)'
    <2>1. SessionOK(x) /\ UNCHANGED <<registry, opening, create>>
      BY DEF LockInv, OnlyConnection
    <2>2. CASE x # s
      <3>1. sess'[x] = sess[x]
        BY <2>2 DEF Given
      <3> QED BY <2>1, <3>1 DEF SessionOK
    <2>3. CASE x = s
      BY <2>1, <2>3 DEF SessionOK, Given
    <2> QED BY <2>2, <2>3
  <1>7. \A o \in Reqs : RequestOK(o)'
    BY Given_Request
  <1> QED BY <1>2, <1>4, <1>6, <1>7 DEF LockInv

\* A step that leaves what is in the sessions and what is durable alone keeps
\* the invariant when it keeps what is said of the request that takes it.
LEMMA Takes_Inv ==
    ASSUME RawInv, LockInv', NEW r \in Reqs,
           \A o \in Reqs : o # r => req'[o] = req[o],
           UNCHANGED durable,
           \/ \A x \in Sessions : SameSession(x)
           \/ \E s \in Sessions : Given(s, r) /\ ListOK(s)',
           TurnOK(r)', WholeOK(r)', HeldOK(r)'
    PROVE  RawInv'
  <1> LockInv /\ RawTypes /\ sess' \in [Sessions -> SessionRecord]
    BY DEF RawInv, LockInv, RawTypes
  <1>2. \A x \in Sessions : sess'[x].content = sess[x].content
    BY DEF SameSession, Given
  <1>3. ASSUME NEW x \in Sessions
        PROVE  ListOK(x)'
    <2>1. ListOK(x)
      BY DEF RawInv
    <2>2. CASE SameSession(x)
      BY <2>1, <2>2, Zenon DEF ListOK, SameSession
    <2>3. CASE ~SameSession(x)
      <3>1. PICK s \in Sessions : Given(s, r) /\ ListOK(s)'
        BY <2>3
      <3>2. x # s => sess'[x] = sess[x]
        BY <3>1 DEF Given
      <3> QED BY <2>1, <3>1, <3>2, Zenon DEF ListOK
    <2> QED BY <2>2, <2>3
  <1>4. ASSUME NEW o \in Reqs, o # r
        PROVE  TurnOK(o)' /\ WholeOK(o)' /\ HeldOK(o)'
    <2>1. Same(o)
      BY <1>4, Zenon DEF Same
    <2>2. req[o].pc # "idle" \/ req[o].exp # 0 =>
            SameSession(req[o].s) \/ NotHeld(req[o].s, o)
      <3>1. SUFFICES ASSUME req[o].s \in Sessions
                     PROVE  SameSession(req[o].s) \/ NotHeld(req[o].s, o)
        BY Zenon DEF LockInv, RequestOK
      <3>2. CASE ~SameSession(req[o].s)
        <4> PICK s \in Sessions : Given(s, r)
          BY <3>1, <3>2
        <4>2. req[o].s = s
          <5>1. req[o].s # s => sess'[req[o].s] = sess[req[o].s]
            BY <3>1, Zenon DEF Given
          <5> QED BY <3>2, <5>1, Zenon DEF SameSession
        <4>3. sess[s].rev \in Nat
          BY Raw_Records, Session_Fields
        <4>4. sess'[s].rev >= sess[s].rev /\ sess'[s].rev > sess[s].rev
          <5>1. sess'[s].rev = sess[s].rev + 1
            BY Zenon DEF Given
          <5> QED BY <4>3, <5>1, Numbers
        <4>5. sess[s].operation # o /\ sess'[s].operation # o
          BY <1>4, Zenon DEF Given
        <4> QED BY <4>2, <4>4, <4>5, Zenon DEF NotHeld, Later
      <3> QED BY <3>2, Zenon
    <2> QED BY <1>2, <2>1, <2>2, Aside, Zenon
  <1> QED BY <1>3, <1>4, Zenon DEF RawInv

\* A step of one request that leaves the sessions alone.
LEMMA Asks_Lock ==
    ASSUME LockInv, NEW r \in Reqs, OnlyReq, req' \in [Reqs -> RequestRecord],
           \A o \in Reqs : o # r => req'[o] = req[o], RequestOK(r)'
    PROVE  LockInv' /\ \A x \in Sessions : SameSession(x)
  <1>1. /\ sess' \in [Sessions -> SessionRecord] /\ events' \in Nat
        /\ UNCHANGED <<registry, opening, create, closed, shut, durable, tasks>>
    BY DEF LockInv, RawTypes, OnlyReq
  <1>2. \A x \in Sessions : Quiet(x) /\ SameSession(x)
    BY DEF Quiet, OnlyReq, SameSession
  <1>3. ASSUME NEW o \in Reqs, o # r
        PROVE  RequestOK(o)'
    <2>1. req'[o] = req[o]
      BY <1>3
    <2> QED BY <1>2, <2>1, Quiet_Request
  <1>4. \A o \in Reqs : RequestOK(o)'
    BY <1>3
  <1> QED BY <1>1, <1>2, <1>4, Stays_Lock

\* A request that is over has no session.
LEMMA Done_Request ==
    ASSUME LockInv, NEW r \in Reqs, req[r].pc # "idle", req'[r].pc = "done",
           req'[r].s = req[r].s,
           \A x \in Sessions : sess'[x].operation # r,
           \A x \in Sessions : sess[x].status # "none" => sess'[x].status # "none"
    PROVE  RequestOK(r)'
  <1>1. req[r].s \in Sessions /\ sess[req[r].s].status # "none"
    BY DEF LockInv, RequestOK
  <1>2. "done" \notin Using
    BY DEF Using
  <1> QED BY <1>1, <1>2 DEF RequestOK

\* A step to the end of a request.
LEMMA Becomes_Finished ==
    ASSUME NEW r \in Reqs, GoesTo(r, "done")
    PROVE  Finishes(r)
  BY DEF GoesTo, Becomes, Finishes

\* The records of a session that is released, and of one that is claimed.
LEMMA Released_Record ==
    ASSUME NEW d \in SessionRecord
    PROVE  [d EXCEPT !.operation = None, !.status = "open", !.rev = @ + 1] \in SessionRecord
  <1> DEFINE c == [d EXCEPT !.operation = None, !.status = "open", !.rev = @ + 1]
  <1>1. d.rev \in Nat /\ d.rev + 1 \in Nat
    BY DEF SessionRecord
  <1>2. c = [d EXCEPT !.operation = None, !.status = "open", !.rev = d.rev + 1]
    BY DEF SessionRecord
  <1> QED BY <1>1, <1>2, Zenon DEF SessionRecord

\* What claim writes of a session is a session.
LEMMA Claimed_Record ==
    ASSUME NEW d \in SessionRecord, NEW r \in Reqs, NEW started \in BOOLEAN
    PROVE  [d EXCEPT !.operation = r, !.started = started, !.status = "running",
                     !.cancelled = FALSE, !.flag = FALSE, !.rev = @ + 1] \in SessionRecord
  <1> DEFINE c == [d EXCEPT !.operation = r, !.started = started, !.status = "running",
                            !.cancelled = FALSE, !.flag = FALSE, !.rev = @ + 1]
  <1>1. d.rev \in Nat /\ d.rev + 1 \in Nat
    BY DEF SessionRecord
  <1>2. c = [d EXCEPT !.operation = r, !.started = started, !.status = "running",
                      !.cancelled = FALSE, !.flag = FALSE, !.rev = d.rev + 1]
    BY DEF SessionRecord
  <1> QED BY <1>1, <1>2, Zenon DEF SessionRecord

\* release gives the session back with a list that is complete or cut short.
LEMMA Release_Inv ==
    ASSUME RawInv, NEW r \in Reqs, Release(r)
    PROVE  RawInv'
  <1> /\ LockInv /\ RawTypes /\ req[r].pc = "release" /\ Goto(r, "done")
      /\ UNCHANGED durable /\ OnlyConnection /\ sess' = Released(req[r].s)
    BY Zenon DEF RawInv, LockInv, Release
  <1> PICK s \in Sessions : s = req[r].s
    BY Uses
  <1> /\ sess[s] \in SessionRecord
      /\ sess[s].status \in {"running", "closed"}
      /\ sess[s].operation = r <=> sess[s].status # "closed"
    BY Uses
  <1> GoesTo(r, "done")
    BY Goto_Becomes DEF Steps, GoesTo
  <1> /\ req' \in [Reqs -> RequestRecord] /\ \A o \in Reqs : o # r => req'[o] = req[o]
      /\ req'[r].pc = "done" /\ req'[r].s = req[r].s
    BY DEF GoesTo, Becomes
  <1>5. \A x \in Sessions : sess[x].operation = r => x = s
    <2>1. RequestOK(r)
      BY Zenon DEF LockInv
    <2> QED BY <2>1, Zenon DEF RequestOK
  <1>6. CASE sess[s].status = "closed"
    <2> UNCHANGED sess /\ OnlyReq
      BY <1>6 DEF Released, OnlyReq, OnlyConnection
    <2>2. \A x \in Sessions : sess'[x].operation # r
      BY <1>5, <1>6
    <2>3. RequestOK(r)'
      BY <2>2, Done_Request
    <2>4. LockInv' /\ \A x \in Sessions : SameSession(x)
      BY <2>3, Asks_Lock
    <2>5. TurnOK(r)' /\ WholeOK(r)' /\ HeldOK(r)'
      <3>1. sess' \in [Sessions -> SessionRecord]
        BY Zenon DEF RawTypes
      <3>2. \A x \in Sessions : sess'[x].content \subseteq sess[x].content
        BY Zenon
      <3> QED BY <2>4, <3>1, <3>2, Becomes_Finished, Finished, Zenon
    <2> QED BY <2>4, <2>5, Takes_Inv, Zenon
  <1>7. CASE sess[s].status # "closed"
    <2> DEFINE c == [sess[s] EXCEPT !.operation = None, !.status = "open", !.rev = @ + 1]
    <2>1. sess[s] \in SessionRecord
      OBVIOUS
    <2>2. c \in SessionRecord
      BY <2>1, Released_Record, Zenon
    <2> /\ c.operation = None /\ c.status = "open" /\ c.rev = sess[s].rev + 1
        /\ c.txn = sess[s].txn /\ c.content = sess[s].content
        /\ c.pending = sess[s].pending /\ c.truncated = sess[s].truncated
      BY <2>1 DEF SessionRecord
    <2>4. sess' = [sess EXCEPT ![s] = c]
      BY <1>7, Zenon DEF Released, RawTypes
    <2> HIDE DEF c
    <2> /\ sess' \in [Sessions -> SessionRecord] /\ sess'[s] = c
        /\ \A x \in Sessions : x # s => sess'[x] = sess[x]
      BY <2>2, <2>4, Session_Put, Zenon
    <2>6. Given(s, r)
      BY <1>7, Zenon DEF Given
    <2>7. \A x \in Sessions : sess'[x].operation # r
      <3>1. sess'[s].operation # r
        BY Raw_Constants
      <3>2. \A x \in Sessions : x # s => sess'[x].operation = sess[x].operation
        OBVIOUS
      <3> QED BY <1>5, <3>1, <3>2, SMTT(15), Z3T(15), ZenonT(40)
    <2>8. \A x \in Sessions : sess[x].status # "none" => sess'[x].status # "none"
      OBVIOUS
    <2>9. RequestOK(r)'
      BY <2>7, <2>8, Done_Request, Zenon
    <2>10. LockInv'
      BY <2>6, <2>9, Given_Lock, Zenon
    <2>11. Later(s)
      <3>1. sess[s].rev \in Nat
        BY Session_Fields, Zenon
      <3>2. sess'[s].rev = sess[s].rev + 1
        BY Zenon
      <3> QED BY <3>1, <3>2, Numbers, Zenon DEF Later
    <2>12. \A x \in Sessions : sess'[x].content \subseteq sess[x].content
      BY Zenon
    <2>13. TurnOK(r)' /\ WholeOK(r)' /\ HeldOK(r)'
      BY <2>11, <2>12, Becomes_Finished, Finished, Zenon
    <2>14. ListOK(s)'
      <3>1. ~sess[s].truncated => sess[s].content \subseteq sess[s].pending
        BY <1>7, Zenon DEF RawInv, HeldOK
      <3>2. /\ sess'[s].content = sess[s].content /\ sess'[s].pending = sess[s].pending
            /\ sess'[s].truncated = sess[s].truncated
        BY Zenon
      <3> QED BY <3>1, <3>2, Zenon DEF ListOK
    <2> QED BY <2>6, <2>10, <2>13, <2>14, Takes_Inv, Zenon
  <1> QED BY <1>6, <1>7

\* claim gives an open session to a request.
LEMMA Claimed_Session ==
    ASSUME LockInv, NEW r \in Reqs, NEW s \in Sessions, NEW started \in BOOLEAN,
           sess[s].status \notin {"none", "closed"}, sess[s].operation = None,
           sess' = Claimed(s, r, started)
    PROVE  /\ Given(s, r) /\ sess'[s].status = "running" /\ sess'[s].operation = r
           /\ sess'[s].started = started /\ sess[s].status = "open"
  <1> DEFINE c == [sess[s] EXCEPT !.operation = r, !.started = started, !.status = "running",
                                  !.cancelled = FALSE, !.flag = FALSE, !.rev = @ + 1]
  <1> RawTypes /\ sess[s] \in SessionRecord /\ SessionOK(s)
    BY Raw_Records DEF LockInv
  <1> sess[s] \in SessionRecord
    OBVIOUS
  <1>3. c \in SessionRecord
    BY Claimed_Record, Zenon
  <1>4. /\ c.operation = r /\ c.status = "running" /\ c.rev = sess[s].rev + 1
        /\ c.started = started
        /\ c.txn = sess[s].txn /\ c.content = sess[s].content
        /\ c.pending = sess[s].pending /\ c.truncated = sess[s].truncated
    BY DEF SessionRecord
  <1>5. sess' = [sess EXCEPT ![s] = c]
    BY Zenon DEF Claimed, RawTypes
  <1> HIDE DEF c
  <1>6. /\ sess' \in [Sessions -> SessionRecord] /\ sess'[s] = c
        /\ \A x \in Sessions : x # s => sess'[x] = sess[x]
    BY <1>3, <1>5, Session_Put, Zenon
  <1>7. sess[s].status = "open"
    <2>1. sess[s].status \in {"none", "open", "running", "closed"}
      BY Session_Fields
    <2>2. sess[s].status # "running"
      BY DEF SessionOK
    <2> QED BY <2>1, <2>2
  <1> QED BY <1>4, <1>6, <1>7 DEF Given

\* A request that has not been dispatched.
LEMMA Waiting ==
    ASSUME RawInv, NEW r \in Reqs, req[r].pc \in {"idle", "reserve", "ticket"}
    PROVE  /\ req[r] \in RequestRecord /\ ~req[r].stopped
           /\ req[r].err = "none" /\ req[r].pos = 1 /\ req[r].done = 0
           /\ req[r].status # "succeeded"
           /\ \A x \in Sessions : sess[x].content \cap Traces(r) = {} /\ sess[x].operation # r
           /\ req[r].pc # "idle" => /\ req[r].s \in Sessions /\ sess[req[r].s].status # "none"
                                    /\ req[r].pos <= Len(req[r].script)
  <1> RawTypes /\ LockInv /\ RequestOK(r) /\ TurnOK(r)
    BY Zenon DEF RawInv, LockInv
  <1>2. req[r] \in RequestRecord
    BY Raw_Records
  <1>3. /\ ~req[r].stopped /\ \A x \in Sessions : sess[x].operation # r
        /\ req[r].pc # "idle" => req[r].s \in Sessions /\ sess[req[r].s].status # "none"
    BY DEF RequestOK, Using
  <1>4. /\ req[r].err = "none" /\ req[r].pos = 1 /\ req[r].done = req[r].pos - 1
        /\ req[r].status # "succeeded"
        /\ \A x \in Sessions : sess[x].content \cap Traces(r) = {}
        /\ req[r].pc # "idle" => req[r].pos <= Len(req[r].script)
    BY DEF TurnOK, Unsent
  <1>5. req[r].done = 0
    BY <1>4
  <1> QED BY <1>2, <1>3, <1>4, <1>5

\* A request whose session was claimed for it.
LEMMA Reserved_Request ==
    ASSUME RawInv, NEW r \in Reqs, req[r].pc \in {"reserve", "ticket"}, NEW s, s = req[r].s,
           NEW pc \in {"policy", "start"},
           Becomes(r, pc, req[r].pos, req[r].done, req[r].err, "reserved"),
           Given(s, r), sess[s].status = "open", sess[s].operation = None,
           sess'[s].status = "running", sess'[s].operation = r,
           req[r].exp \in {0, sess[s].rev}, UNCHANGED durable
    PROVE  TurnOK(r)' /\ WholeOK(r)' /\ HeldOK(r)'
  <1> LockInv /\ RawTypes /\ TurnOK(r) /\ WholeOK(r) /\ ListOK(s) /\ s \in Sessions
    BY Waiting, Zenon DEF RawInv, LockInv
  <1> /\ req[r] \in RequestRecord /\ req[r].err = "none" /\ req[r].pos = 1 /\ req[r].done = 0
      /\ \A x \in Sessions : sess[x].content \cap Traces(r) = {}
      /\ req[r].pos <= Len(req[r].script)
    BY Waiting, Zenon
  <1> /\ req'[r].pc = pc /\ req'[r].pos = 1 /\ req'[r].done = 0 /\ req'[r].err = "none"
      /\ req'[r].status = "reserved" /\ req'[r].s = s /\ req'[r].kind = req[r].kind
      /\ req'[r].script = req[r].script /\ req'[r].exp = req[r].exp
      /\ req'[r].seen = req[r].seen /\ req'[r].partly = req[r].partly
    BY Zenon DEF Becomes
  <1> /\ \A x \in Sessions : sess'[x].content \cap Traces(r) = {}
      /\ sess'[s].content = sess[s].content
      /\ sess'[s].pending = sess[s].pending /\ sess'[s].truncated = sess[s].truncated
      /\ sess'[s].rev = sess[s].rev + 1
    BY Zenon DEF Given
  <1>5. TurnOK(r)'
    <2>1. sess[s].rev \in Nat
      BY Raw_Records, Session_Fields, Zenon
    <2>2. req[r].exp # 0 => req[r].exp <= sess'[s].rev
      BY <2>1, Numbers, Zenon
    <2>3. 1 >= 1 /\ 0 = 1 - 1 /\ 1 <= Len(req[r].script) /\ 0 <= Len(req[r].script)
      BY Numbers, Request_Numbers, Zenon
    <2> QED BY <2>2, <2>3, Zenon DEF TurnOK
  <1>6. WholeOK(r)'
    <2>1. Own(r)' = Own(r) /\ Whole(r)' = Whole(r)
      BY Same_Script, Zenon DEF Becomes
    <2>2. Whole(r) => /\ durable \cap Traces(r) = {}
                      /\ \A i \in DOMAIN req[r].script : req[r].script[i] # "commit"
      BY Zenon DEF WholeOK
    <2> QED BY <2>1, <2>2, ZenonT(40), SMTT(15) DEF WholeOK
  <1>7. HeldOK(r)'
    <2>1. req[r].exp # 0 => req[r].seen = sess[s].pending /\ req[r].partly = sess[s].truncated
      BY Zenon DEF TurnOK
    <2>2. ~sess[s].truncated => sess[s].content \subseteq sess[s].pending
      BY Zenon DEF ListOK
    <2>3. /\ sess'[s].content \cap Traces(r) = {}
          /\ sess'[s].content \ Traces(r) \subseteq sess[s].content
      BY Zenon
    <2>4. 1..0 = {}
      BY Request_Numbers, Numbers, Zenon
    <2> QED BY <2>1, <2>2, <2>3, <2>4, ZenonT(40), SMTT(15) DEF HeldOK
  <1> QED BY <1>5, <1>6, <1>7, Zenon

\* reserve and the transfers claim a session that is open at the revision of
\* the review, or fail.
LEMMA Reserve_Inv ==
    ASSUME RawInv, NEW r \in Reqs, Reserve(r)
    PROVE  RawInv'
  <1> DEFINE started == req[r].kind = "upload"
             pc == IF started THEN "policy" ELSE "start"
  <1> /\ LockInv /\ RawTypes /\ req[r].pc \in {"reserve", "ticket"}
      /\ UNCHANGED durable /\ OnlyConnection
    BY DEF RawInv, LockInv, Reserve, OnlyConnection
  <1> PICK s \in Sessions : s = req[r].s
    BY Waiting
  <1> /\ sess[s].status # "none" /\ ~req[r].stopped
      /\ \A x \in Sessions : sess[x].operation # r
    BY Waiting
  <1>3. \/ /\ Claimable(s, req[r].exp) /\ sess' = Claimed(s, r, started)
           /\ req' = [req EXCEPT ![r].pc = pc, ![r].status = "reserved"]
        \/ UNCHANGED sess /\ Goto(r, "done")
    BY DEF Reserve, Goto
  <1> started \in BOOLEAN /\ pc \in {"policy", "start"} /\ (pc = "policy" => started)
    OBVIOUS
  <1> HIDE DEF started, pc
  <1>5. CASE UNCHANGED sess /\ Goto(r, "done")
    <2> GoesTo(r, "done") /\ OnlyReq
      BY <1>5, Goto_Becomes DEF Steps, GoesTo, OnlyReq, OnlyConnection
    <2> /\ req' \in [Reqs -> RequestRecord] /\ \A o \in Reqs : o # r => req'[o] = req[o]
        /\ req'[r].pc = "done" /\ req'[r].s = req[r].s
      BY DEF GoesTo, Becomes
    <2>3. RequestOK(r)'
      BY <1>5, Done_Request, Zenon
    <2>4. LockInv' /\ \A x \in Sessions : SameSession(x)
      BY <2>3, Asks_Lock
    <2>5. TurnOK(r)' /\ WholeOK(r)' /\ HeldOK(r)'
      <3>1. sess' \in [Sessions -> SessionRecord]
        BY <1>5, Zenon DEF RawTypes
      <3>2. \A x \in Sessions : sess'[x].content \subseteq sess[x].content
        BY <1>5
      <3> QED BY <2>4, <3>1, <3>2, Becomes_Finished, Finished, Zenon
    <2> QED BY <2>4, <2>5, Takes_Inv, Zenon
  <1>6. CASE /\ Claimable(s, req[r].exp) /\ sess' = Claimed(s, r, started)
             /\ req' = [req EXCEPT ![r].pc = pc, ![r].status = "reserved"]
    <2>1. Becomes(r, pc, req[r].pos, req[r].done, req[r].err, "reserved")
      BY <1>6, Status_Becomes, Zenon DEF Steps, Using
    <2>2. /\ sess[s].status # "closed" /\ sess[s].operation = None
          /\ req[r].exp \in {0, sess[s].rev}
      BY <1>6 DEF Claimable
    <2> /\ Given(s, r) /\ sess'[s].status = "running" /\ sess'[s].operation = r
        /\ sess'[s].started = started /\ sess[s].status = "open"
      BY <1>6, <2>2, Claimed_Session
    <2>4. TurnOK(r)' /\ WholeOK(r)' /\ HeldOK(r)'
      BY <2>1, <2>2, Reserved_Request, Zenon
    <2> /\ req' \in [Reqs -> RequestRecord] /\ \A o \in Reqs : o # r => req'[o] = req[o]
        /\ req'[r].pc = pc /\ req'[r].s = s /\ req'[r].stopped = req[r].stopped
      BY <2>1, Zenon DEF Becomes
    <2>6. RequestOK(r)'
      <3>1. pc \in Using => pc = "policy"
        BY DEF Using
      <3>2. \A x \in Sessions : sess'[x].operation = r => x = s
        BY Zenon DEF Given
      <3>3. pc \in Using \cup {"start", "track", "release"}
            /\ pc \notin {"idle", "reserve", "ticket", "track", "release"}
        BY DEF Using
      <3> QED BY <3>1, <3>2, <3>3, Zenon DEF RequestOK
    <2>7. LockInv'
      BY <2>6, Given_Lock
    <2>8. ListOK(s)'
      <3>1. sess'[s].operation # None
        BY Raw_Constants
      <3> QED BY <3>1 DEF ListOK
    <2> QED BY <2>4, <2>7, <2>8, Takes_Inv, Zenon
  <1> QED BY <1>3, <1>5, <1>6

-----------------------------------------------------------------------------
(* Asking *)

\* What a request has that was asked in session s, or whose session was reviewed.
Asked(r, s) ==
    /\ req' \in [Reqs -> RequestRecord] /\ \A o \in Reqs : o # r => req'[o] = req[o]
    /\ req'[r].pc \in {"idle", "reserve", "ticket"} /\ req'[r].s = s
    /\ req'[r].pos = req[r].pos /\ req'[r].done = req[r].done /\ req'[r].err = req[r].err
    /\ req'[r].status = req[r].status /\ req'[r].stopped = req[r].stopped
    /\ req'[r].pc = "idle" => req'[r].script = req[r].script /\ req'[r].kind = req[r].kind
    /\ req'[r].pc # "idle" =>
         /\ req'[r].script \in Seq({"write", "commit"}) /\ Len(req'[r].script) >= 1
         /\ req'[r].mode = "whole" =>
              \A i \in DOMAIN req'[r].script : req'[r].script[i] # "commit"
    /\ req'[r].exp # 0 =>
         /\ req'[r].exp <= sess[s].rev
         /\ sess[s].status = "open" /\ req'[r].exp = sess[s].rev =>
              req'[r].seen = sess[s].pending /\ req'[r].partly = sess[s].truncated

\* A request that is asked for has sent nothing.
LEMMA Asks_Inv ==
    ASSUME RawInv, NEW r \in Reqs, req[r].pc = "idle", NEW s \in registry, OnlyReq,
           Asked(r, s)
    PROVE  RawInv'
  <1> LockInv /\ RawTypes /\ TurnOK(r) /\ WholeOK(r) /\ RequestOK(r) /\ UNCHANGED <<sess, durable>>
    BY Zenon DEF RawInv, LockInv, OnlyReq
  <1> USE DEF Asked
  <1>2. s \in Sessions /\ sess[s].status # "none"
    <2>1. s \in Sessions
      BY Zenon DEF RawTypes
    <2>2. SessionOK(s)
      BY <2>1, Zenon DEF LockInv
    <2> QED BY <2>1, <2>2, Zenon DEF SessionOK
  <1> /\ req[r] \in RequestRecord /\ ~req[r].stopped
      /\ req[r].err = "none" /\ req[r].pos = 1 /\ req[r].done = 0 /\ req[r].status # "succeeded"
      /\ \A x \in Sessions : sess[x].content \cap Traces(r) = {} /\ sess[x].operation # r
    BY Waiting, Zenon
  <1>4. RequestOK(r)'
    <2>1. req'[r].pc \notin Using \cup {"start", "track", "release"}
      BY Zenon DEF Using
    <2> QED BY <1>2, <2>1, Zenon DEF RequestOK
  <1>5. LockInv' /\ \A x \in Sessions : SameSession(x)
    BY <1>4, Asks_Lock, Zenon
  <1>6. Len(req'[r].script) \in Nat /\ (req'[r].pc # "idle" => 1 <= Len(req'[r].script))
    <2>1. req'[r] \in RequestRecord
      BY Zenon
    <2>2. Len(req'[r].script) \in Nat
      BY <2>1, Request_Numbers, Zenon
    <2>3. Len(req'[r].script) >= 1 => 1 <= Len(req'[r].script)
      BY <2>2, Zenon
    <2> QED BY <2>2, <2>3, Zenon
  <1>7. TurnOK(r)'
    <2>1. 0 = 1 - 1 /\ 1 >= 1 /\ 0 <= Len(req'[r].script)
      BY <1>6, Numbers, Zenon
    <2> QED BY <1>6, <2>1, Zenon DEF TurnOK
  <1>8. WholeOK(r)'
    <2>1. durable' \cap Traces(r) = {}
      BY Zenon DEF WholeOK
    <2>2. req'[r].pc # "idle" /\ Whole(r)' =>
            \A i \in DOMAIN req'[r].script : req'[r].script[i] # "commit"
      <3>1. Whole(r)' => req'[r].mode = "whole"
        BY Zenon DEF Whole, Mode
      <3> QED BY <3>1, Zenon
    <2> QED BY <2>1, <2>2, Zenon DEF WholeOK
  <1>9. HeldOK(r)'
    <2>1. req'[r].pc \notin Using \cup {"start", "track", "release"}
      BY Zenon DEF Using
    <2> QED BY <2>1, Zenon DEF HeldOK
  <1> QED BY <1>5, <1>7, <1>8, <1>9, Takes_Inv, Zenon

\* view shows what is pending at the revision of the session.
LEMMA Review_Inv ==
    ASSUME RawInv, NEW r \in Reqs, NEW s \in Sessions, Review(r, s)
    PROVE  RawInv'
  <1> DEFINE q == [req[r] EXCEPT !.s = s, !.exp = sess[s].rev, !.seen = sess[s].pending,
                                 !.partly = sess[s].truncated]
  <1> /\ RawTypes /\ LockInv /\ req[r].pc = "idle" /\ s \in registry /\ OnlyReq
      /\ req' = [req EXCEPT ![r] = q]
    BY Zenon DEF RawInv, LockInv, Review, RawTypes, OnlyReq
  <1>2. /\ sess[s].rev \in Nat /\ sess[s].pending \in SUBSET Statements
        /\ sess[s].truncated \in BOOLEAN
    BY Raw_Records, Session_Fields
  <1>3. req[r] \in RequestRecord
    BY Raw_Records
  <1>4. q \in RequestRecord
    BY <1>2, <1>3, ZenonT(40) DEF RequestRecord
  <1>5. /\ q.pc = req[r].pc /\ q.s = s /\ q.kind = req[r].kind /\ q.mode = req[r].mode
        /\ q.script = req[r].script /\ q.pos = req[r].pos /\ q.done = req[r].done
        /\ q.err = req[r].err /\ q.status = req[r].status /\ q.stopped = req[r].stopped
        /\ q.exp = sess[s].rev /\ q.seen = sess[s].pending /\ q.partly = sess[s].truncated
    BY <1>3 DEF RequestRecord
  <1> HIDE DEF q
  <1>6. /\ req' \in [Reqs -> RequestRecord] /\ req'[r] = q
        /\ \A o \in Reqs : o # r => req'[o] = req[o]
    BY <1>4 DEF RawTypes
  <1>7. q.exp <= sess[s].rev
    BY <1>2, <1>5, Not_Before
  <1>8. Asked(r, s)
    BY <1>5, <1>6, <1>7 DEF Asked
  <1> QED BY <1>8, Asks_Inv

\* What there is of a task.
LEMMA Task_Fields ==
    ASSUME RawTypes, NEW r \in Reqs, NEW task \in tasks[r]
    PROVE  /\ task.kind \in {"run", "download", "upload"}
           /\ task.mode \in {"manual", "each", "whole"}
           /\ task.script \in Seq({"write", "commit"}) /\ Len(task.script) >= 1
           /\ task.review \in BOOLEAN
  <1>1. task \in Task
    BY DEF RawTypes
  <1>2. task.script \in Seq({"write", "commit"}) /\ Len(task.script) > 0
    BY <1>1 DEF Task
  <1>3. Len(task.script) \in Nat
    BY <1>2
  <1> QED BY <1>1, <1>2, <1>3 DEF Task

\* ticket and reserve begin a request with its task, after validate_policy.
LEMMA Ask_Inv ==
    ASSUME RawInv, NEW r \in Reqs, NEW s \in Sessions, NEW task \in tasks[r], Ask(r, s, task)
    PROVE  RawInv'
  <1> DEFINE pc == IF task.kind = "run" THEN "reserve" ELSE "ticket"
             q == [req[r] EXCEPT !.pc = pc, !.s = s, !.kind = task.kind, !.mode = task.mode,
                                 !.script = task.script]
  <1> /\ RawTypes /\ LockInv /\ req[r].pc = "idle" /\ s \in registry /\ OnlyReq
      /\ task.review = (req[r].exp # 0) /\ (task.review => s = req[r].s)
      /\ PolicyHolds(s, task.mode, task.script)
      /\ req' = [req EXCEPT ![r] = q]
    BY Zenon DEF RawInv, LockInv, Ask, RawTypes, OnlyReq
  <1>2. /\ task.kind \in {"run", "download", "upload"}
        /\ task.mode \in {"manual", "each", "whole"}
        /\ task.script \in Seq({"write", "commit"}) /\ Len(task.script) >= 1
        /\ pc \in {"reserve", "ticket"}
    BY Task_Fields
  <1>3. req[r] \in RequestRecord
    BY Raw_Records
  <1> HIDE DEF pc
  <1>4. q \in RequestRecord
    BY <1>2, <1>3, ZenonT(40) DEF RequestRecord
  <1>5. /\ q.pc = pc /\ q.s = s /\ q.kind = task.kind /\ q.mode = task.mode
        /\ q.script = task.script /\ q.pos = req[r].pos /\ q.done = req[r].done
        /\ q.err = req[r].err /\ q.status = req[r].status /\ q.stopped = req[r].stopped
        /\ q.exp = req[r].exp /\ q.seen = req[r].seen /\ q.partly = req[r].partly
    BY <1>3 DEF RequestRecord
  <1> HIDE DEF q
  <1>6. /\ req' \in [Reqs -> RequestRecord] /\ req'[r] = q
        /\ \A o \in Reqs : o # r => req'[o] = req[o]
    BY <1>4 DEF RawTypes
  <1>7. task.mode = "whole" => \A i \in DOMAIN task.script : task.script[i] # "commit"
    BY DEF PolicyHolds
  <1>8. req[r].exp # 0 =>
             /\ req[r].exp <= sess[s].rev
             /\ sess[s].status = "open" /\ req[r].exp = sess[s].rev =>
                  req[r].seen = sess[s].pending /\ req[r].partly = sess[s].truncated
    BY Zenon DEF RawInv, TurnOK
  <1>9. Asked(r, s)
    <2>1. /\ req'[r].pc = pc /\ req'[r].s = s
          /\ req'[r].pos = req[r].pos /\ req'[r].done = req[r].done /\ req'[r].err = req[r].err
          /\ req'[r].status = req[r].status /\ req'[r].stopped = req[r].stopped
          /\ req'[r].script = task.script /\ req'[r].mode = task.mode
      BY <1>5, <1>6
    <2>2. /\ req'[r].exp = req[r].exp /\ req'[r].seen = req[r].seen
          /\ req'[r].partly = req[r].partly
      BY <1>5, <1>6
    <2>3. req'[r].pc \in {"idle", "reserve", "ticket"} /\ req'[r].pc # "idle"
      BY <1>2, <2>1
    <2>4. /\ req'[r].script \in Seq({"write", "commit"}) /\ Len(req'[r].script) >= 1
          /\ req'[r].mode = "whole" =>
               \A i \in DOMAIN req'[r].script : req'[r].script[i] # "commit"
      BY <1>2, <1>7, <2>1
    <2> QED BY <1>6, <1>8, <2>1, <2>2, <2>3, <2>4 DEF Asked
  <1> QED BY <1>9, Asks_Inv

=============================================================================
