--------------------------- MODULE RawSessionRuns ---------------------------
(***************************************************************************)
(* The steps of a request that has the session, those of run and of the    *)
(* COPY transfers from the claim to its release: each keeps the invariant  *)
(* of RawSessions.                                                         *)
(***************************************************************************)
EXTENDS RawSessionLemmas

USE Raw_Constants

-----------------------------------------------------------------------------
(* A request at work *)

\* What a step of the request that holds session s leaves of it.
Touches(s) ==
    /\ sess' \in [Sessions -> SessionRecord]
    /\ \A x \in Sessions : x # s => sess'[x] = sess[x]
    /\ sess'[s].status = sess[s].status /\ sess'[s].rev = sess[s].rev
    /\ sess'[s].operation = sess[s].operation
    /\ sess[s].started => sess'[s].started
    /\ sess[s].flag => sess'[s].flag
    /\ sess'[s].content # {} => sess'[s].txn \in Unfinished
    /\ sess[s].operation = None =>
         sess'[s].txn = sess[s].txn /\ sess'[s].content = sess[s].content

\* A step of a request that holds a session keeps the order of the locks.
LEMMA Works_Lock ==
    ASSUME LockInv, NEW r \in Reqs, req[r].pc \in Using \cup {"start", "track"},
           NEW s, s = req[r].s,
           NEW pc \in Using \cup {"track", "release"}, NEW pos, NEW done, NEW err, NEW status,
           Becomes(r, pc, pos, done, err, status), Touches(s),
           pc \in Using => sess[s].operation = r /\ sess'[s].started,
           OnlyConnection, durable' \subseteq Statements
    PROVE  LockInv'
  <1> /\ s \in Sessions /\ sess[s].status # "none"
      /\ sess[s].operation = r \/ sess[s].status = "closed"
      /\ sess[s].operation = None <=> sess[s].status = "closed"
    BY Uses
  <1>2. RawTypes'
    <2>1. RawTypes
      BY DEF LockInv
    <2>2. sess' \in [Sessions -> SessionRecord] /\ req' \in [Reqs -> RequestRecord]
      BY DEF Touches, Becomes
    <2> QED BY <2>1, <2>2 DEF RawTypes, OnlyConnection
  <1> \A x \in Sessions : Quiet(x) /\ sess'[x].status = sess[x].status
    BY DEF Touches, Quiet
  <1>4. ShutdownOK'
    BY DEF LockInv, ShutdownOK, OnlyConnection
  <1>6. ASSUME NEW x \in Sessions
        PROVE  SessionOK(x)'
    <2>1. SessionOK(x) /\ UNCHANGED <<registry, opening, create>>
      BY DEF LockInv, OnlyConnection
    <2>2. CASE x # s
      <3>1. sess'[x] = sess[x]
        BY <2>2 DEF Touches
      <3> QED BY <2>1, <3>1 DEF SessionOK
    <2>3. CASE x = s
      <3>1. /\ sess'[s].status = sess[s].status /\ sess'[s].operation = sess[s].operation
            /\ sess'[s].content # {} => sess'[s].txn \in Unfinished
            /\ sess[s].status = "closed" => sess'[s].txn = sess[s].txn
        BY DEF Touches
      <3> QED BY <2>1, <2>3, <3>1 DEF SessionOK
    <2> QED BY <2>2, <2>3
  <1>7. ASSUME NEW o \in Reqs
        PROVE  RequestOK(o)'
    <2>1. CASE o # r
      <3>1. req'[o] = req[o]
        BY <2>1 DEF Becomes
      <3> QED BY <3>1, Quiet_Request
    <2>2. CASE o = r
      <3>1. RequestOK(r)
        BY DEF LockInv
      <3>2. /\ req'[r].pc = pc /\ req'[r].s = s /\ req'[r].stopped = req[r].stopped
        BY DEF Becomes
      <3>3. /\ sess'[s].status # "none"
            /\ sess'[s].operation = r \/ sess'[s].status = "closed"
            /\ pc \in Using => sess'[s].operation = r /\ sess'[s].started
            /\ req[r].stopped /\ sess'[s].operation = r => sess'[s].flag
        BY <3>1, Zenon DEF Touches, RequestOK
      <3>4. \A x \in Sessions : sess'[x].operation = r => x = s
        BY <3>1 DEF Quiet, RequestOK
      <3>5. pc \notin {"idle", "reserve", "ticket", "start"}
        BY DEF Using
      <3> QED BY <2>2, <3>2, <3>3, <3>4, <3>5 DEF RequestOK
    <2> QED BY <2>1, <2>2
  <1> QED BY <1>2, <1>4, <1>6, <1>7 DEF LockInv

\* Two requests have no statement in common.
LEMMA Traces_Apart ==
    ASSUME NEW r, NEW o, o # r
    PROVE  Traces(r) \cap Traces(o) = {}
  BY DEF Traces

\* What a step of request r makes of its session and of what is durable leaves
\* the statements of a whole run of another request, and of one that was not
\* asked, where they are.
LEMMA Works_Aside ==
    ASSUME RawInv, NEW r \in Reqs, req[r].pc \in Using \cup {"start", "track", "release"},
           NEW s, s = req[r].s, NEW o \in Reqs, o # r, Whole(o) \/ req[o].pc = "idle",
           durable \subseteq durable',
           durable' \subseteq durable \cup sess[s].content \cup Traces(r)
    PROVE  durable' \cap Traces(o) = durable \cap Traces(o)
  <1> LockInv /\ RequestOK(o) /\ TurnOK(o) /\ WholeOK(o)
    BY DEF RawInv, LockInv
  <1> s \in Sessions /\ (sess[s].operation = r \/ sess[s].operation = None)
    BY Uses
  <1>3. sess[s].content \cap Traces(o) = {}
    <2>1. CASE req[o].pc = "idle"
      BY <2>1 DEF TurnOK
    <2>2. CASE Whole(o)
      <3>1. SUFFICES ASSUME sess[s].content \cap Traces(o) # {}
                     PROVE  FALSE
        OBVIOUS
      <3>2. req[o].s = s /\ req[o].pc \in {"check", "commit", "except"}
        BY <2>2, <3>1 DEF WholeOK
      <3>3. sess[s].operation = o
        BY <3>2 DEF RequestOK, Using
      <3> QED BY <3>3
    <2> QED BY <2>1, <2>2
  <1>4. Traces(r) \cap Traces(o) = {}
    BY Traces_Apart
  <1> QED BY <1>3, <1>4

\* A step of a request that holds a session keeps the whole invariant when it
\* keeps what is said of that request.
LEMMA Works_Inv ==
    ASSUME RawInv, NEW r \in Reqs, req[r].pc \in Using \cup {"start", "track"},
           NEW s, s = req[r].s,
           NEW pc \in Using \cup {"track", "release"}, NEW pos, NEW done, NEW err, NEW status,
           Becomes(r, pc, pos, done, err, status), Touches(s),
           pc \in Using => sess[s].operation = r /\ sess'[s].started,
           OnlyConnection,
           sess'[s].content \subseteq sess[s].content \cup Traces(r),
           durable \subseteq durable',
           durable' \subseteq durable \cup sess[s].content \cup Traces(r),
           TurnOK(r)', WholeOK(r)', HeldOK(r)'
    PROVE  RawInv'
  <1> /\ LockInv /\ s \in Sessions /\ sess[s] \in SessionRecord
      /\ sess[s].operation = r \/ sess[s].operation = None
      /\ sess[s].operation = None => sess[s].status = "closed"
      /\ sess[s].status \in {"running", "closed"}
    BY Uses DEF RawInv
  <1>2. LockInv'
    <2>1. durable \subseteq Statements /\ sess[s].content \subseteq Statements
          /\ Traces(r) \subseteq Statements
      BY Own_Traces, Session_Fields DEF LockInv, RawTypes
    <2>2. durable' \subseteq Statements
      BY <2>1
    <2> QED BY <2>2, Works_Lock
  <1>3. ASSUME NEW x \in Sessions
        PROVE  ListOK(x)'
    <2>1. CASE x # s
      <3>1. sess'[x] = sess[x] /\ ListOK(x)
        BY <2>1, Zenon DEF Touches, RawInv
      <3> QED BY <3>1 DEF ListOK
    <2>2. CASE x = s
      <3>1. sess'[s].operation = None => sess'[s].content = {}
        <4>1. sess'[s].operation = None =>
                sess'[s].content = sess[s].content /\ sess[s].status = "closed"
          BY DEF Touches
        <4>2. sess[s].status = "closed" => sess[s].content = {}
          BY DEF LockInv, SessionOK, Unfinished
        <4> QED BY <4>1, <4>2
      <3> QED BY <2>2, <3>1 DEF ListOK
    <2> QED BY <2>1, <2>2
  <1>4. ASSUME NEW o \in Reqs, o # r
        PROVE  TurnOK(o)' /\ WholeOK(o)' /\ HeldOK(o)'
    <2>1. Same(o)
      BY <1>4 DEF Becomes, Same
    <2>2. Whole(o) \/ req[o].pc = "idle" => durable' \cap Traces(o) = durable \cap Traces(o)
      BY <1>4, Works_Aside
    <2>3. \A x \in Sessions : sess'[x].content \cap Traces(o) \subseteq sess[x].content
      <3>1. Traces(r) \cap Traces(o) = {}
        BY <1>4, Traces_Apart
      <3>2. \A x \in Sessions : x # s => sess'[x].content = sess[x].content
        BY DEF Touches
      <3> QED BY <3>1, <3>2
    <2>4. req[o].pc # "idle" \/ req[o].exp # 0 =>
            SameSession(req[o].s) \/ NotHeld(req[o].s, o)
      <3>1. SUFFICES ASSUME req[o].s \in Sessions
                     PROVE  SameSession(req[o].s) \/ NotHeld(req[o].s, o)
        BY DEF LockInv, RequestOK
      <3>2. CASE req[o].s # s
        <4>1. sess'[req[o].s] = sess[req[o].s]
          BY <3>1, <3>2 DEF Touches
        <4> QED BY <4>1 DEF SameSession
      <3>3. CASE req[o].s = s
        <4>1. /\ sess[s].operation # o /\ sess'[s].operation # o /\ sess'[s].status # "open"
              /\ sess'[s].rev = sess[s].rev
          BY <1>4, ZenonT(40) DEF Touches
        <4>2. sess'[s].rev >= sess[s].rev
          <5>1. sess[s].rev \in Nat
            BY Session_Fields
          <5> QED BY <4>1, <5>1, Not_Before
        <4> QED BY <3>3, <4>1, <4>2 DEF NotHeld, Later
      <3> QED BY <3>2, <3>3
    <2>5. sess' \in [Sessions -> SessionRecord]
      BY Zenon DEF Touches
    <2> QED BY <2>1, <2>2, <2>3, <2>4, <2>5, Aside
  <1> QED BY <1>2, <1>3, <1>4 DEF RawInv

-----------------------------------------------------------------------------
(* The parts of the invariant that are the request's own *)

\* A step that leaves the sessions alone.
LEMMA Session_Stays ==
    ASSUME LockInv, NEW s \in Sessions, UNCHANGED sess
    PROVE  Touches(s)
  <1>1. sess[s].content # {} => sess[s].txn \in Unfinished
    BY DEF LockInv, SessionOK
  <1> QED BY <1>1 DEF Touches, LockInv, RawTypes

\* A request that comes to its next step with its script where it was.
LEMMA Turn_Stays ==
    ASSUME RawInv, NEW r \in Reqs, NEW s, s = req[r].s,
           req[r].pc \in {"start", "history", "policy"},
           NEW pc \in {"history", "policy", "statement"},
           GoesTo(r, pc), Touches(s),
           pc = "history" => req[r].pc = "start" /\ sess'[s].content = sess[s].content
    PROVE  TurnOK(r)'
  <1> TurnOK(r) /\ LockInv
    BY DEF RawInv
  <1>2. sess[s].status # "open" /\ s \in Sessions
    BY Uses DEF Using
  <1>3. /\ req'[r].pc = pc /\ req'[r].s = s /\ req'[r].exp = req[r].exp
        /\ req'[r].seen = req[r].seen /\ req'[r].partly = req[r].partly
        /\ req'[r].done = req[r].done /\ req'[r].kind = req[r].kind
        /\ req'[r].script = req[r].script /\ req'[r].pos = req[r].pos
        /\ req'[r].err = req[r].err /\ req'[r].status = req[r].status
    BY DEF Becomes, GoesTo
  <1>4. sess'[s].rev = sess[s].rev /\ sess'[s].status = sess[s].status
    BY DEF Touches
  <1>5. pc = "history" =>
          /\ req[r].pos = 1 /\ req[r].status # "succeeded"
          /\ \A x \in Sessions : sess'[x].content \cap Traces(r) = {}
    <2>1. SUFFICES ASSUME pc = "history"
                   PROVE  /\ req[r].pos = 1 /\ req[r].status # "succeeded"
                          /\ \A x \in Sessions : sess'[x].content \cap Traces(r) = {}
      OBVIOUS
    <2>2. /\ req[r].pos = 1 /\ req[r].status # "succeeded"
          /\ \A x \in Sessions : sess[x].content \cap Traces(r) = {}
      BY <2>1, Zenon DEF TurnOK
    <2>3. \A x \in Sessions : sess'[x].content = sess[x].content
      BY <1>2, <2>1, Zenon DEF Touches
    <2> QED BY <2>2, <2>3, Zenon
  <1>6. req[r].pc \in Unsent /\ req[r].pc # "idle"
    BY DEF Unsent
  <1> QED BY <1>2, <1>3, <1>4, <1>5, <1>6, Zenon DEF TurnOK

\* A request that has come to the end of its script.
LEMMA Turn_Leaves ==
    ASSUME RawInv, NEW r \in Reqs, NEW s, s = req[r].s,
           req[r].pc \in Using \cup {"start", "track"},
           NEW pc \in {"check", "commit", "except", "track", "release"},
           NEW err, NEW status,
           Becomes(r, pc, req[r].pos, req[r].done, err, status), Touches(s)
    PROVE  TurnOK(r)'
  <1>1. TurnOK(r) /\ sess[s].status # "open"
    BY Uses DEF RawInv
  <1>2. /\ req'[r].pc = pc /\ req'[r].s = s /\ req'[r].exp = req[r].exp
        /\ req'[r].seen = req[r].seen /\ req'[r].partly = req[r].partly
        /\ req'[r].done = req[r].done /\ req'[r].kind = req[r].kind
        /\ req'[r].script = req[r].script /\ req'[r].pos = req[r].pos
    BY DEF Becomes
  <1>3. sess'[s].rev = sess[s].rev /\ sess'[s].status = sess[s].status
    BY DEF Touches
  <1> QED BY <1>1, <1>2, <1>3 DEF TurnOK, Unsent

\* A request keeps what it holds, or gives some of it up.
LEMMA Held_Keeps ==
    ASSUME RawInv, NEW r \in Reqs, NEW s, s = req[r].s,
           req[r].pc \in Using \cup {"start", "track"},
           NEW pc \in Using \cup {"track"}, NEW pos, NEW err, NEW status,
           Becomes(r, pc, pos, req[r].done, err, status),
           sess'[s].operation = sess[s].operation, sess'[s].pending = sess[s].pending,
           sess'[s].truncated = sess[s].truncated, sess'[s].content \subseteq sess[s].content
    PROVE  HeldOK(r)'
  <1>1. HeldOK(r)
    BY DEF RawInv
  <1>2. Own(r)' = Own(r)
    BY Same_Script DEF Becomes
  <1>3. /\ req'[r].pc = pc /\ req'[r].s = s /\ req'[r].exp = req[r].exp
        /\ req'[r].seen = req[r].seen /\ req'[r].partly = req[r].partly
        /\ req'[r].done = req[r].done /\ req'[r].kind = req[r].kind
        /\ req'[r].script = req[r].script
    BY DEF Becomes
  <1>4. req[r].pc # "release" /\ pc # "release"
    BY DEF Using
  <1> QED BY <1>1, <1>2, <1>3, <1>4, Zenon DEF HeldOK

\* They are in no other session than the one that the request holds, and no
\* COMMIT is among them.
LEMMA Whole_Elsewhere ==
    ASSUME RawInv, NEW r \in Reqs, Whole(r), req[r].pc # "idle",
           NEW s, s = req[r].s, Touches(s)
    PROVE  /\ \A x \in Sessions : x # s => sess'[x].content \cap Traces(r) = {}
           /\ \A i \in DOMAIN req[r].script : req[r].script[i] # "commit"
  <1>1. WholeOK(r) /\ \A x \in Sessions : x # s => sess'[x] = sess[x]
    BY DEF RawInv, Touches
  <1> QED BY <1>1 DEF WholeOK

\* A run that has come to its end, and its status, agree with what is durable.
LEMMA Whole_Ends ==
    ASSUME RawInv, NEW r \in Reqs, req[r].pc # "idle", NEW s, s = req[r].s,
           NEW pc \in {"track", "release"}, NEW pos, NEW done, NEW err, NEW status,
           Becomes(r, pc, pos, done, err, status), Touches(s),
           Whole(r) =>
             /\ sess'[s].content \cap Traces(r) = {}
             /\ Own(r) \subseteq durable' \/ durable' \cap Traces(r) = {}
             /\ status = "succeeded" => Own(r) \subseteq durable'
             /\ status \in {"cancelled", "failed"} => durable' \cap Traces(r) = {}
    PROVE  WholeOK(r)'
  <1>1. Own(r)' = Own(r) /\ Whole(r)' = Whole(r)
    BY Same_Script DEF Becomes
  <1>2. /\ req'[r].pc = pc /\ req'[r].s = s /\ req'[r].script = req[r].script
        /\ req'[r].status = status
    BY DEF Becomes
  <1>3. CASE ~Whole(r)
    BY <1>1, <1>2, <1>3 DEF WholeOK
  <1>4. CASE Whole(r)
    <2>1. /\ \A x \in Sessions : sess'[x].content \cap Traces(r) = {}
          /\ \A i \in DOMAIN req[r].script : req[r].script[i] # "commit"
      BY <1>4, Whole_Elsewhere
    <2> QED BY <1>1, <1>2, <1>4, <2>1 DEF WholeOK, Unsent
  <1> QED BY <1>3, <1>4

\* A run that was interrupted.
LEMMA Whole_Raises ==
    ASSUME RawInv, NEW r \in Reqs, req[r].pc # "idle", NEW s, s = req[r].s,
           NEW pos, NEW done, NEW err, NEW status,
           Becomes(r, "except", pos, done, err, status), Touches(s),
           Whole(r) =>
             /\ err \in {"error", "lost"}
             /\ err = "error" => durable' \cap Traces(r) = {}
             /\ Own(r) \subseteq durable' \/ durable' \cap Traces(r) = {}
    PROVE  WholeOK(r)'
  <1>1. Own(r)' = Own(r) /\ Whole(r)' = Whole(r)
    BY Same_Script DEF Becomes
  <1>2. /\ req'[r].pc = "except" /\ req'[r].s = s /\ req'[r].script = req[r].script
        /\ req'[r].err = err
    BY DEF Becomes
  <1>3. CASE ~Whole(r)
    BY <1>1, <1>2, <1>3 DEF WholeOK
  <1>4. CASE Whole(r)
    <2>1. /\ \A x \in Sessions : sess'[x].content \cap Traces(r) # {} => x = s
          /\ \A i \in DOMAIN req[r].script : req[r].script[i] # "commit"
      BY <1>4, Whole_Elsewhere
    <2> QED BY <1>1, <1>2, <1>4, <2>1 DEF WholeOK, Unsent
  <1> QED BY <1>3, <1>4

\* A run that has sent its script, or was stopped.
LEMMA Whole_Checks ==
    ASSUME RawInv, NEW r \in Reqs, req[r].pc # "idle", NEW s, s = req[r].s,
           NEW pc \in {"check", "commit"}, NEW pos, NEW done, NEW err, NEW status,
           Becomes(r, pc, pos, done, err, status), Touches(s),
           Whole(r) =>
             /\ durable' \cap Traces(r) = {} /\ err # "lost"
             /\ err = "none" => Own(r) \subseteq sess'[s].content
             /\ pc = "commit" => err = "none"
    PROVE  WholeOK(r)'
  <1>1. Own(r)' = Own(r) /\ Whole(r)' = Whole(r)
    BY Same_Script DEF Becomes
  <1>2. /\ req'[r].pc = pc /\ req'[r].s = s /\ req'[r].script = req[r].script
        /\ req'[r].err = err
    BY DEF Becomes
  <1>3. CASE ~Whole(r)
    BY <1>1, <1>2, <1>3 DEF WholeOK
  <1>4. CASE Whole(r)
    <2>1. /\ \A x \in Sessions : sess'[x].content \cap Traces(r) # {} => x = s
          /\ \A i \in DOMAIN req[r].script : req[r].script[i] # "commit"
      BY <1>4, Whole_Elsewhere
    <2> QED BY <1>1, <1>2, <1>4, <2>1 DEF WholeOK, Unsent
  <1> QED BY <1>3, <1>4

\* A run that has sent nothing.
LEMMA Whole_Waits ==
    ASSUME RawInv, NEW r \in Reqs, req[r].pc # "idle", NEW s, s = req[r].s,
           NEW pc \in {"history", "policy", "statement"}, NEW pos, NEW done, NEW err, NEW status,
           Becomes(r, pc, pos, done, err, status), Touches(s),
           Whole(r) =>
             /\ durable' \cap Traces(r) = {} /\ pos = 1
             /\ sess'[s].content \cap Traces(r) = {}
             /\ pc = "statement" => sess'[s].txn = "intrans"
    PROVE  WholeOK(r)'
  <1>1. Own(r)' = Own(r) /\ Whole(r)' = Whole(r)
    BY Same_Script DEF Becomes
  <1>2. /\ req'[r].pc = pc /\ req'[r].s = s /\ req'[r].script = req[r].script
        /\ req'[r].pos = pos
    BY DEF Becomes
  <1>3. CASE ~Whole(r)
    BY <1>1, <1>2, <1>3 DEF WholeOK
  <1>4. CASE Whole(r)
    <2>1. /\ \A x \in Sessions : sess'[x].content \cap Traces(r) = {}
          /\ \A i \in DOMAIN req[r].script : req[r].script[i] # "commit"
      BY <1>4, Whole_Elsewhere
    <2> QED BY <1>1, <1>2, <1>4, <2>1 DEF WholeOK
  <1> QED BY <1>3, <1>4

\* A request that has come to the end of its script, or gives it up.
LEMMA Leaves_Inv ==
    ASSUME RawInv, NEW r \in Reqs, req[r].pc \in Using \cup {"start"}, NEW s, s = req[r].s,
           NEW pc \in {"check", "commit", "except", "track"}, NEW err, NEW status,
           pc = "track" \/ req[r].pc # "start",
           Becomes(r, pc, req[r].pos, req[r].done, err, status), Touches(s), OnlyConnection,
           sess'[s].pending = sess[s].pending, sess'[s].truncated = sess[s].truncated,
           sess'[s].content \subseteq sess[s].content,
           durable \subseteq durable',
           durable' \subseteq durable \cup sess[s].content \cup Traces(r),
           WholeOK(r)'
    PROVE  RawInv'
  <1>1. pc \in Using \cup {"track"}
    BY DEF Using
  <1>2. sess'[s].operation = sess[s].operation
    BY DEF Touches
  <1>3. TurnOK(r)' /\ HeldOK(r)'
    <2>1. /\ req[r].pc \in Using \cup {"start", "track"}
          /\ pc \in {"check", "commit", "except", "track", "release"}
      OBVIOUS
    <2>2. TurnOK(r)'
      BY <2>1, Turn_Leaves
    <2>3. HeldOK(r)'
      BY <1>1, <1>2, <2>1, Held_Keeps
    <2> QED BY <2>2, <2>3
  <1>4. pc \in Using => sess[s].operation = r /\ sess'[s].started
    <2>1. pc \in Using => req[r].pc \in Using
      BY DEF Using
    <2>2. req[r].pc \in Using => sess[s].operation = r /\ sess[s].started
      BY Uses, Zenon DEF RawInv
    <2> QED BY <2>1, <2>2, Zenon DEF Touches
  <1> QED BY <1>1, <1>3, <1>4, Works_Inv

-----------------------------------------------------------------------------
(* What a step writes of its session *)

\* The transaction of session s changes, and what is in it; the fence may go up.
Has(s, txn, content) ==
    /\ sess' \in [Sessions -> SessionRecord]
    /\ \A x \in Sessions : x # s => sess'[x] = sess[x]
    /\ sess'[s].txn = txn /\ sess'[s].content = content
    /\ sess'[s].status = sess[s].status /\ sess'[s].rev = sess[s].rev
    /\ sess'[s].operation = sess[s].operation /\ sess'[s].started = sess[s].started
    /\ sess[s].flag => sess'[s].flag
    /\ sess'[s].pending = sess[s].pending /\ sess'[s].truncated = sess[s].truncated

\* What the commands of a request assign to its session.
LEMMA Session_Has ==
    ASSUME RawTypes, NEW s \in Sessions, NEW txn \in Open \cup {"unknown", "closed"},
           NEW content \in SUBSET Statements, NEW flag \in BOOLEAN, sess[s].flag => flag,
           sess' = [sess EXCEPT ![s] = [sess[s] EXCEPT !.txn = txn, !.content = content,
                                                       !.flag = flag]]
    PROVE  Has(s, txn, content)
  <1> DEFINE c == [sess[s] EXCEPT !.txn = txn, !.content = content, !.flag = flag]
  <1>1. sess[s] \in SessionRecord
    BY DEF RawTypes
  <1>2. c \in SessionRecord
    BY <1>1, Zenon DEF SessionRecord
  <1>3. /\ c.txn = txn /\ c.content = content /\ c.flag = flag
        /\ c.status = sess[s].status /\ c.rev = sess[s].rev
        /\ c.operation = sess[s].operation /\ c.started = sess[s].started
        /\ c.pending = sess[s].pending /\ c.truncated = sess[s].truncated
    BY <1>1 DEF SessionRecord
  <1>4. sess' = [sess EXCEPT ![s] = c]
    OBVIOUS
  <1> HIDE DEF c
  <1>5. /\ sess' \in [Sessions -> SessionRecord] /\ sess'[s] = c
        /\ \A x \in Sessions : x # s => sess'[x] = sess[x]
    BY <1>2, <1>4, Session_Put, Zenon
  <1> QED BY <1>3, <1>5 DEF Has

\* A record with fields as they are is the record.
LEMMA Session_Same ==
    ASSUME NEW c \in SessionRecord, NEW txn, NEW content, NEW flag
    PROVE  /\ c = [c EXCEPT !.txn = c.txn, !.content = c.content, !.flag = c.flag]
           /\ [c EXCEPT !.txn = txn] =
                [c EXCEPT !.txn = txn, !.content = c.content, !.flag = c.flag]
           /\ [c EXCEPT !.content = content] =
                [c EXCEPT !.txn = c.txn, !.content = content, !.flag = c.flag]
           /\ [c EXCEPT !.txn = txn, !.content = content] =
                [c EXCEPT !.txn = txn, !.content = content, !.flag = c.flag]
  BY Zenon DEF SessionRecord

\* What PostgreSQL answers changes the transaction, what is in it, or both.
LEMMA Txn_Has ==
    ASSUME RawTypes, NEW s \in Sessions, NEW txn \in Open \cup {"unknown", "closed"},
           sess' = [sess EXCEPT ![s].txn = txn]
    PROVE  Has(s, txn, sess[s].content)
  <1>1. sess[s] \in SessionRecord
    BY Raw_Records
  <1>2. /\ sess[s].content \in SUBSET Statements /\ sess[s].flag \in BOOLEAN
    BY <1>1, Session_Fields
  <1>3. sess' = [sess EXCEPT ![s] = [sess[s] EXCEPT !.txn = txn]]
    BY DEF RawTypes
  <1>4. sess' = [sess EXCEPT ![s] = [sess[s] EXCEPT !.txn = txn, !.content = sess[s].content,
                                                    !.flag = sess[s].flag]]
    BY <1>1, <1>3, Session_Same, ZenonT(40)
  <1> QED BY <1>2, <1>4, Session_Has, Zenon

\* A command that changes the transaction and what is in it.
LEMMA Both_Has ==
    ASSUME RawTypes, NEW s \in Sessions, NEW txn \in Open \cup {"unknown", "closed"},
           NEW content \in SUBSET Statements,
           sess' = [sess EXCEPT ![s].txn = txn, ![s].content = content]
    PROVE  Has(s, txn, content)
  <1>1. sess[s] \in SessionRecord
    BY Raw_Records
  <1>2. sess[s].flag \in BOOLEAN
    BY <1>1, Session_Fields
  <1>3. sess' = [sess EXCEPT ![s] = [sess[s] EXCEPT !.txn = txn, !.content = content]]
    BY Zenon DEF RawTypes
  <1>a. [sess[s] EXCEPT !.txn = txn, !.content = content] =
          [sess[s] EXCEPT !.txn = txn, !.content = content, !.flag = sess[s].flag]
    BY <1>1, Session_Same, ZenonT(40)
  <1>4. sess' = [sess EXCEPT ![s] = [sess[s] EXCEPT !.txn = txn, !.content = content,
                                                    !.flag = sess[s].flag]]
    BY <1>3, <1>a, Zenon
  <1> QED BY <1>2, <1>4, Session_Has, Zenon

\* The connection of a session that is in use has what PostgreSQL says.
LEMMA Has_Touches ==
    ASSUME LockInv, NEW s \in Sessions, sess[s].operation # None,
           NEW txn, NEW content, Has(s, txn, content), content # {} => txn \in Unfinished
    PROVE  Touches(s)
  BY DEF Has, Touches

\* The connection of a request after a rollback, a COMMIT or a loss.
LEMMA Emptied ==
    ASSUME RawInv, NEW r \in Reqs, req[r].pc \in Using, NEW s, s = req[r].s,
           NEW txn, Has(s, txn, {})
    PROVE  /\ Touches(s) /\ sess'[s].content = {}
           /\ sess'[s].pending = sess[s].pending /\ sess'[s].truncated = sess[s].truncated
  <1>1. LockInv /\ s \in Sessions /\ sess[s].operation # None
    BY Uses DEF RawInv
  <1> QED BY <1>1, Has_Touches, Zenon DEF Has

-----------------------------------------------------------------------------
(* Before and after the statements *)

\* An error, or an interruption, of a command.
LEMMA Error_Becomes ==
    ASSUME RawTypes, NEW r \in Reqs, NEW err \in {"none", "error", "cancel", "lost"},
           NEW pc \in Steps, req' = [req EXCEPT ![r].pc = pc, ![r].err = err]
    PROVE  Becomes(r, pc, req[r].pos, req[r].done, err, req[r].status)
  <1> DEFINE q == [req[r] EXCEPT !.pc = pc, !.err = err]
  <1>1. req[r] \in RequestRecord /\ req' = [req EXCEPT ![r] = q]
    BY Zenon DEF RawTypes
  <1>2. req[r] \in RequestRecord
    BY <1>1
  <1>3. q \in RequestRecord
    BY <1>2, ZenonT(40) DEF RequestRecord, Steps
  <1>4. /\ q.pc = pc /\ q.pos = req[r].pos /\ q.done = req[r].done /\ q.err = err
        /\ q.status = req[r].status
        /\ q.s = req[r].s /\ q.kind = req[r].kind /\ q.mode = req[r].mode
        /\ q.script = req[r].script /\ q.exp = req[r].exp /\ q.seen = req[r].seen
        /\ q.partly = req[r].partly /\ q.stopped = req[r].stopped
    BY <1>2 DEF RequestRecord
  <1> HIDE DEF q
  <1>5. Becomes(r, q.pc, q.pos, q.done, q.err, q.status)
    BY <1>1, <1>3, <1>4, Request_Put, Zenon
  <1> QED BY <1>4, <1>5

\* A request that has its status goes on to track_pending.
LEMMA Ends_Becomes ==
    ASSUME RawTypes, NEW r \in Reqs,
           NEW status \in {"none", "reserved", "succeeded", "failed", "cancelled", "uncertain"},
           Ends(r, status)
    PROVE  Becomes(r, "track", req[r].pos, req[r].done, req[r].err, status)
  BY Status_Becomes, Zenon DEF Ends, Steps

\* prepare_policy begins a transaction, refuses the run or fails.
LEMMA PreparePolicy_Inv ==
    ASSUME RawInv, NEW r \in Reqs, PreparePolicy(r)
    PROVE  RawInv'
  <1> DEFINE s == req[r].s
             c == sess[req[r].s]
  <1> /\ LockInv /\ RawTypes /\ req[r].pc = "policy" /\ TurnOK(r) /\ WholeOK(r)
      /\ UNCHANGED durable /\ OnlyConnection
    BY DEF RawInv, LockInv, PreparePolicy
  <1> /\ s \in Sessions /\ c.operation = r /\ c.started /\ c \in SessionRecord
    BY Uses DEF Using
  <1> Whole(r) => /\ durable' \cap Traces(r) = {} /\ req[r].pos = 1
                  /\ c.content \cap Traces(r) = {}
    BY DEF WholeOK, Unsent
  <1>4. c.txn = "idle" => c.content = {}
    BY Zenon DEF LockInv, SessionOK, Unfinished
  <1>5. \/ UNCHANGED sess /\ ~Whole(r) /\ Breaks(r, "cancel")
        \/ UNCHANGED sess /\ Raises(r, "error")
        \/ UNCHANGED sess /\ ~Whole(r) /\ Goto(r, "statement")
        \/ sess' = [sess EXCEPT ![s].txn = "intrans"] /\ Goto(r, "statement")
        \/ c.txn = "idle" /\ sess' = [sess EXCEPT ![s].txn = "unknown"] /\ Raises(r, "lost")
    BY Zenon DEF PreparePolicy, PolicyHolds, Whole
  <1> HIDE DEF s, c
  <1>6. CASE UNCHANGED sess /\ ~Whole(r) /\ Breaks(r, "cancel")
    <2>1. Becomes(r, "check", req[r].pos, req[r].done, "cancel", req[r].status)
      BY <1>6, Error_Becomes, Zenon DEF Breaks, Steps, Using
    <2>2. Touches(s)
      BY <1>6, Session_Stays
    <2>3. WholeOK(r)'
      BY <1>6, <2>1, <2>2, Whole_Checks DEF s
    <2> QED BY <1>6, <2>1, <2>2, <2>3, Leaves_Inv DEF Using, s
  <1>7. CASE UNCHANGED sess /\ Raises(r, "error")
    <2>1. Becomes(r, "except", req[r].pos, req[r].done, "error", req[r].status)
      BY <1>7, Error_Becomes, Zenon DEF Raises, Steps, Using
    <2>2. Touches(s)
      BY <1>7, Session_Stays
    <2>3. WholeOK(r)'
      BY <2>1, <2>2, Whole_Raises DEF s
    <2> QED BY <1>7, <2>1, <2>2, <2>3, Leaves_Inv DEF Using, s
  <1>8. ASSUME GoesTo(r, "statement"), Touches(s), Whole(r) => sess'[s].txn = "intrans",
               sess'[s].content = c.content, sess'[s].pending = c.pending,
               sess'[s].truncated = c.truncated
        PROVE  RawInv'
    <2>1. TurnOK(r)'
      BY <1>8, Turn_Stays, Zenon DEF s
    <2> Becomes(r, "statement", req[r].pos, req[r].done, req[r].err, req[r].status)
      BY <1>8 DEF GoesTo
    <2>3. WholeOK(r)'
      BY <1>8, Whole_Waits DEF s
    <2>4. sess'[s].operation = sess[s].operation /\ sess'[s].started
      BY <1>8, Zenon DEF Touches, s, c
    <2>5. HeldOK(r)'
      BY <1>8, <2>4, Held_Keeps, Zenon DEF Using, s, c
    <2> QED BY <1>8, <2>1, <2>3, <2>4, <2>5, Works_Inv, Zenon DEF Using, s, c
  <1>9. CASE UNCHANGED sess /\ ~Whole(r) /\ Goto(r, "statement")
    <2>1. GoesTo(r, "statement")
      BY <1>9, Goto_Becomes DEF GoesTo, Steps, Using
    <2>2. Touches(s)
      BY <1>9, Session_Stays
    <2> QED BY <1>8, <1>9, <2>1, <2>2 DEF s, c
  <1>10. CASE sess' = [sess EXCEPT ![s].txn = "intrans"] /\ Goto(r, "statement")
    <2>1. GoesTo(r, "statement")
      BY <1>10, Goto_Becomes DEF GoesTo, Steps, Using
    <2>2. Has(s, "intrans", c.content)
      BY <1>10, Txn_Has, Zenon DEF Open, c, s
    <2>3. Touches(s)
      BY <2>2, Has_Touches DEF Unfinished, c, s
    <2> QED BY <1>8, <2>1, <2>2, <2>3, Zenon DEF Has, s, c
  <1>11. CASE c.txn = "idle" /\ sess' = [sess EXCEPT ![s].txn = "unknown"] /\ Raises(r, "lost")
    <2>1. Becomes(r, "except", req[r].pos, req[r].done, "lost", req[r].status)
      BY <1>11, Error_Becomes, Zenon DEF Raises, Steps, Using
    <2>2. Has(s, "unknown", c.content)
      BY <1>11, Txn_Has, Zenon DEF c, s
    <2>3. Touches(s)
      BY <1>4, <1>11, <2>2, Has_Touches DEF c, s
    <2>4. WholeOK(r)'
      BY <2>1, <2>3, Whole_Raises DEF s
    <2>5. /\ sess'[s].pending = sess[s].pending /\ sess'[s].truncated = sess[s].truncated
          /\ sess'[s].content = sess[s].content
      BY <2>2 DEF Has, c, s
    <2> QED BY <2>1, <2>3, <2>4, <2>5, Leaves_Inv, Zenon DEF Using, s
  <1> QED BY <1>5, <1>6, <1>7, <1>9, <1>10, <1>11

\* run commits a whole run: all of it is durable, none of it, or nobody
\* knows.
LEMMA CommitWhole_Inv ==
    ASSUME RawInv, NEW r \in Reqs, CommitWhole(r)
    PROVE  RawInv'
  <1> DEFINE s == req[r].s
  <1> LockInv /\ RawTypes /\ req[r].pc = "commit" /\ WholeOK(r) /\ OnlyConnection
    BY Zenon DEF RawInv, LockInv, CommitWhole
  <1> s \in Sessions /\ sess[s].operation = r
    BY Uses DEF Using
  <1> Whole(r) => durable \cap Traces(r) = {} /\ Own(r) \subseteq sess[s].content
    BY DEF WholeOK
  <1>4. \/ Breaks(r, "cancel") /\ UNCHANGED <<sess, durable>>
        \/ /\ durable' = durable \cup sess[s].content /\ sess' = RolledBack(s)
           /\ Ends(r, "succeeded")
        \/ /\ UNCHANGED durable /\ sess' = RolledBack(s)
           /\ \E status \in {"failed", "cancelled"} : Ends(r, status)
        \/ Lost(s, sess[s].content) /\ Raises(r, "lost")
    BY Zenon DEF CommitWhole
  <1> HIDE DEF s
  <1>5. CASE Breaks(r, "cancel") /\ UNCHANGED <<sess, durable>>
    <2>1. Becomes(r, "check", req[r].pos, req[r].done, "cancel", req[r].status)
      BY <1>5, Error_Becomes, Zenon DEF Breaks, Steps, Using
    <2>2. Touches(s)
      BY <1>5, Session_Stays
    <2>3. WholeOK(r)'
      BY <1>5, <2>1, <2>2, Whole_Checks DEF s
    <2> QED BY <1>5, <2>1, <2>2, <2>3, Leaves_Inv DEF Using, s
  <1>6. ASSUME NEW status \in {"succeeded", "failed", "cancelled"}, Ends(r, status),
               sess' = RolledBack(s), durable \subseteq durable',
               durable' \subseteq durable \cup sess[s].content,
               IF status = "succeeded" THEN sess[s].content \subseteq durable'
               ELSE durable' = durable
        PROVE  RawInv'
    <2>1. Becomes(r, "track", req[r].pos, req[r].done, req[r].err, status)
      BY <1>6, Ends_Becomes
    <2>2. Has(s, "idle", {})
      BY <1>6, Both_Has, Zenon DEF RolledBack, Open
    <2>3. /\ Touches(s) /\ sess'[s].content = {}
          /\ sess'[s].pending = sess[s].pending /\ sess'[s].truncated = sess[s].truncated
      BY <2>2, Emptied, Zenon DEF Using, s
    <2>4. WholeOK(r)'
      BY <1>6, <2>1, <2>3, Whole_Ends, Zenon DEF s
    <2>5. durable' \subseteq durable \cup sess[s].content \cup Traces(r)
      BY <1>6, Zenon
    <2> QED BY <1>6, <2>1, <2>3, <2>4, <2>5, Leaves_Inv, Zenon DEF Using, s
  <1>7. CASE /\ durable' = durable \cup sess[s].content /\ sess' = RolledBack(s)
             /\ Ends(r, "succeeded")
    BY <1>6, <1>7
  <1>8. CASE /\ UNCHANGED durable /\ sess' = RolledBack(s)
             /\ \E status \in {"failed", "cancelled"} : Ends(r, status)
    BY <1>6, <1>8
  <1>9. CASE Lost(s, sess[s].content) /\ Raises(r, "lost")
    <2>1. Becomes(r, "except", req[r].pos, req[r].done, "lost", req[r].status)
      BY <1>9, Error_Becomes, Zenon DEF Raises, Steps, Using
    <2>2. Has(s, "unknown", {})
      BY <1>9, Both_Has, Zenon DEF Lost
    <2>3. /\ Touches(s) /\ sess'[s].content = {}
          /\ sess'[s].pending = sess[s].pending /\ sess'[s].truncated = sess[s].truncated
      BY <2>2, Emptied, Zenon DEF Using, s
    <2>4. durable' = durable \/ durable' = durable \cup sess[s].content
      BY <1>9 DEF Lost
    <2>5. Whole(r) => Own(r) \subseteq durable' \/ durable' \cap Traces(r) = {}
      BY <2>4
    <2>6. WholeOK(r)'
      BY <2>1, <2>3, <2>5, Whole_Raises DEF s
    <2>7. durable \subseteq durable' /\ durable' \subseteq durable \cup sess[s].content \cup Traces(r)
      BY <2>4
    <2> QED BY <2>1, <2>3, <2>6, <2>7, Leaves_Inv, Zenon DEF Using, s
  <1> QED BY <1>4, <1>5, <1>7, <1>8, <1>9

\* The connection is closed after a rollback that failed.
LEMMA Broken_Has ==
    ASSUME RawTypes, NEW s \in Sessions,
           sess' = [RolledBack(s) EXCEPT ![s].txn = "unknown", ![s].flag = TRUE]
    PROVE  Has(s, "unknown", {})
  <1>1. sess[s] \in SessionRecord /\ sess \in [Sessions -> SessionRecord]
    BY DEF RawTypes
  <1>2. [[sess[s] EXCEPT !.txn = "idle", !.content = {}] EXCEPT !.txn = "unknown", !.flag = TRUE]
          = [sess[s] EXCEPT !.txn = "unknown", !.content = {}, !.flag = TRUE]
    <2>1. sess[s] \in SessionRecord
      BY <1>1
    <2> QED BY <2>1, Zenon DEF SessionRecord
  <1>3. sess' = [sess EXCEPT ![s] = [[sess[s] EXCEPT !.txn = "idle", !.content = {}]
                                        EXCEPT !.txn = "unknown", !.flag = TRUE]]
    BY <1>1, Zenon DEF RolledBack
  <1>4. sess' = [sess EXCEPT ![s] = [sess[s] EXCEPT !.txn = "unknown", !.content = {}, !.flag = TRUE]]
    BY <1>2, <1>3, Zenon
  <1>5. {} \in SUBSET Statements /\ TRUE \in BOOLEAN /\ "unknown" \in Open \cup {"unknown", "closed"}
    OBVIOUS
  <1> QED BY <1>4, <1>5, Session_Has, Zenon

\* run gives up after an error, and rolls a whole run back.
LEMMA Except_Inv ==
    ASSUME RawInv, NEW r \in Reqs, Except(r)
    PROVE  RawInv'
  <1> DEFINE s == req[r].s
             status == IF req[r].kind # "run" THEN "failed"
                       ELSE IF req[r].err = "lost" THEN "uncertain"
                       ELSE IF sess[s].cancelled THEN "cancelled" ELSE "failed"
  <1> /\ LockInv /\ RawTypes /\ req[r].pc = "except" /\ WholeOK(r)
      /\ UNCHANGED durable /\ OnlyConnection
    BY DEF RawInv, LockInv, Except
  <1> s \in Sessions /\ sess[s].operation = r
    BY Uses DEF Using
  <1>3. /\ status \in {"failed", "uncertain", "cancelled"} /\ Ends(r, status)
        /\ Whole(r) /\ req[r].err = "lost" => status = "uncertain"
    BY DEF Except, Whole, Mode
  <1>4. Becomes(r, "track", req[r].pos, req[r].done, req[r].err, status)
    BY <1>3, Ends_Becomes
  <1>5. Whole(r) =>
          /\ Own(r) \subseteq durable' \/ durable' \cap Traces(r) = {}
          /\ status \in {"cancelled", "failed"} => durable' \cap Traces(r) = {}
          /\ status # "succeeded"
    BY <1>3, Zenon DEF WholeOK
  <1>6. /\ Touches(s) /\ sess'[s].content \subseteq sess[s].content
        /\ Whole(r) => sess'[s].content = {}
        /\ sess'[s].pending = sess[s].pending /\ sess'[s].truncated = sess[s].truncated
    <2>1. CASE UNCHANGED sess /\ ~(Whole(r) /\ sess[s].txn \in Unfinished)
      <3>1. Touches(s)
        BY <2>1, Session_Stays
      <3>2. sess[s].txn \notin Unfinished => sess[s].content = {}
        BY DEF LockInv, SessionOK
      <3> QED BY <2>1, <3>1, <3>2
    <2>2. CASE sess' = RolledBack(s)
      <3>1. Has(s, "idle", {})
        BY <2>2, Both_Has, Zenon DEF RolledBack, Open
      <3> QED BY <3>1, Emptied, Zenon DEF Using
    <2>3. CASE sess' = [RolledBack(s) EXCEPT ![s].txn = "unknown", ![s].flag = TRUE]
      <3>1. Has(s, "unknown", {})
        BY <2>3, Broken_Has
      <3> QED BY <3>1, Emptied, Zenon DEF Using
    <2> QED BY <2>1, <2>2, <2>3, Zenon DEF Except
  <1> HIDE DEF s, status
  <1>7. WholeOK(r)'
    BY <1>4, <1>5, <1>6, Whole_Ends, Zenon DEF s
  <1> QED BY <1>4, <1>6, <1>7, Leaves_Inv, Zenon DEF Using, s

Errs(r, pc, err) == Becomes(r, pc, req[r].pos, req[r].done, err, req[r].status)

EndsAs(r, status) == Becomes(r, "track", req[r].pos, req[r].done, req[r].err, status)

\* run records the history entry, unless it was told to stop.
LEMMA History_Inv ==
    ASSUME RawInv, NEW r \in Reqs, History(r)
    PROVE  RawInv'
  <1> DEFINE s == req[r].s
  <1> LockInv /\ RawTypes /\ req[r].pc = "history" /\ TurnOK(r) /\ WholeOK(r)
    BY Zenon DEF RawInv, LockInv, History
  <1> /\ s \in Sessions /\ sess[s].operation = r /\ sess[s].started
    BY Uses DEF Using
  <1> UNCHANGED <<sess, durable>> /\ OnlyConnection
    BY Zenon DEF History, OnlyReq, OnlyConnection
  <1> Touches(s)
    BY Session_Stays
  <1> /\ \A x \in Sessions : sess[x].content \cap Traces(r) = {}
      /\ Whole(r) => durable' \cap Traces(r) = {} /\ req[r].pos = 1
    BY Zenon DEF TurnOK, WholeOK, Unsent
  <1>6. \/ EndsAs(r, "cancelled")
        \/ GoesTo(r, "statement") /\ req[r].mode = "each"
        \/ GoesTo(r, "policy")
        \/ Errs(r, "except", "error")
    <2>1. CASE Ends(r, "cancelled")
      BY <2>1, Ends_Becomes, Zenon DEF EndsAs
    <2>2. CASE Goto(r, IF req[r].mode = "each" THEN "statement" ELSE "policy")
      <3>1. CASE req[r].mode = "each"
        BY <2>2, <3>1, Goto_Becomes, Zenon DEF GoesTo, Steps, Using
      <3>2. CASE req[r].mode # "each"
        BY <2>2, <3>2, Goto_Becomes, Zenon DEF GoesTo, Steps, Using
      <3> QED BY <3>1, <3>2, Zenon
    <2>3. CASE Raises(r, "error")
      BY <2>3, Error_Becomes, Zenon DEF Errs, Raises, Steps, Using
    <2> QED BY <2>1, <2>2, <2>3, Zenon DEF History
  <1> HIDE DEF s
  <1>7. CASE EndsAs(r, "cancelled")
    <2>1. Becomes(r, "track", req[r].pos, req[r].done, req[r].err, "cancelled")
      BY <1>7 DEF EndsAs
    <2>2. WholeOK(r)'
      BY <2>1, Whole_Ends DEF s
    <2> QED BY <2>1, <2>2, Leaves_Inv, Zenon DEF Using, s
  <1>8. ASSUME NEW pc \in {"statement", "policy"}, GoesTo(r, pc),
               pc = "statement" => req[r].mode = "each"
        PROVE  RawInv'
    <2> Becomes(r, pc, req[r].pos, req[r].done, req[r].err, req[r].status)
      BY <1>8 DEF GoesTo
    <2>2. TurnOK(r)'
      BY <1>8, Turn_Stays DEF s
    <2>3. Whole(r) => pc # "statement"
      BY <1>8 DEF Whole, Mode
    <2>4. WholeOK(r)'
      <3>1. s = req[r].s
        BY Zenon DEF s
      <3>2. Whole(r) => /\ durable' \cap Traces(r) = {} /\ req[r].pos = 1
                        /\ sess'[s].content \cap Traces(r) = {}
                        /\ pc = "statement" => sess'[s].txn = "intrans"
        BY <2>3, ZenonT(40), SMTT(15)
      <3>3. req[r].pc # "idle" /\ pc \in {"history", "policy", "statement"}
        BY ZenonT(40), SMTT(15) DEF Using
      <3> QED BY <3>1, <3>2, <3>3, Whole_Waits, ZenonT(40), SMTT(15)
    <2>5. HeldOK(r)'
      BY Held_Keeps DEF Using, s
    <2> QED BY <2>2, <2>4, <2>5, Works_Inv, Zenon DEF Using, s
  <1>9. CASE Errs(r, "except", "error")
    <2>1. Becomes(r, "except", req[r].pos, req[r].done, "error", req[r].status)
      BY <1>9 DEF Errs
    <2>2. WholeOK(r)'
      BY <2>1, Whole_Raises DEF s
    <2> QED BY <2>1, <2>2, Leaves_Inv, Zenon DEF Using, s
  <1> QED BY <1>6, <1>7, <1>8, <1>9

\* The end of the loop.
LEMMA Checked_Record ==
    ASSUME NEW d \in RequestRecord, NEW err \in {"none", "error", "cancel", "lost"},
           NEW status \in {"none", "reserved", "succeeded", "failed", "cancelled", "uncertain"}
    PROVE  [d EXCEPT !.pc = "track", !.err = err, !.status = status] \in RequestRecord
  BY ZenonT(40) DEF RequestRecord

\* run has found out how it ended.
LEMMA Check_Becomes ==
    ASSUME RawTypes, NEW r \in Reqs, NEW err \in {"none", "error", "cancel", "lost"},
           NEW status \in {"none", "reserved", "succeeded", "failed", "cancelled", "uncertain"},
           req' = [req EXCEPT ![r].pc = "track", ![r].err = err, ![r].status = status]
    PROVE  Becomes(r, "track", req[r].pos, req[r].done, err, status)
  <1> DEFINE q == [req[r] EXCEPT !.pc = "track", !.err = err, !.status = status]
  <1>1. req[r] \in RequestRecord /\ req' = [req EXCEPT ![r] = q]
    BY Zenon DEF RawTypes
  <1>2. req[r] \in RequestRecord
    BY <1>1
  <1>3. q \in RequestRecord
    BY <1>2, Checked_Record, Zenon
  <1>4. /\ q.pc = "track" /\ q.pos = req[r].pos /\ q.done = req[r].done /\ q.err = err
        /\ q.status = status
        /\ q.s = req[r].s /\ q.kind = req[r].kind /\ q.mode = req[r].mode
        /\ q.script = req[r].script /\ q.exp = req[r].exp /\ q.seen = req[r].seen
        /\ q.partly = req[r].partly /\ q.stopped = req[r].stopped
    BY <1>2 DEF RequestRecord
  <1> HIDE DEF q
  <1>5. Becomes(r, q.pc, q.pos, q.done, q.err, q.status)
    BY <1>1, <1>3, <1>4, Request_Put, Zenon
  <1> QED BY <1>4, <1>5

\* run rolls back a whole run that was cancelled or failed, or goes on to its
\* COMMIT.
LEMMA Check_Inv ==
    ASSUME RawInv, NEW r \in Reqs, Check(r)
    PROVE  RawInv'
  <1> DEFINE s == req[r].s
             err == IF Told(r) /\ req[r].err = "none" THEN "cancel" ELSE req[r].err
  <1> /\ LockInv /\ RawTypes /\ req[r].pc = "check" /\ WholeOK(r)
      /\ UNCHANGED durable /\ OnlyConnection
    BY DEF RawInv, LockInv, Check
  <1> /\ s \in Sessions /\ sess[s].operation = r /\ req[r] \in RequestRecord
    BY Uses DEF Using
  <1> Whole(r) => /\ durable' \cap Traces(r) = {} /\ req[r].err # "lost"
                  /\ req[r].err = "none" => Own(r) \subseteq sess[s].content
    BY DEF WholeOK
  <1>4. req[r].err \in {"none", "error", "cancel", "lost"}
    BY DEF RequestRecord
  <1> /\ err \in {"none", "error", "cancel", "lost"} /\ (err = "none" => req[r].err = "none")
      /\ err = "lost" => req[r].err = "lost"
      /\ StatusOf(err) \in {"cancelled", "failed", "succeeded"}
      /\ err \in {"error", "cancel"} => StatusOf(err) \in {"cancelled", "failed"}
    BY <1>4 DEF StatusOf
  <1>6. \/ Whole(r) /\ err = "none" /\ Goto(r, "commit") /\ UNCHANGED sess
        \/ /\ req' = [req EXCEPT ![r].pc = "track", ![r].err = err, ![r].status = StatusOf(err)]
           /\ \/ ~Whole(r) /\ UNCHANGED sess
              \/ Whole(r) /\ err # "none" /\ sess' = RolledBack(s)
        \/ Raises(r, "lost") /\ sess' = [sess EXCEPT ![s].txn = "unknown", ![s].content = {}]
    BY DEF Check
  <1> HIDE DEF s, err
  <1>7. CASE Whole(r) /\ err = "none" /\ Goto(r, "commit") /\ UNCHANGED sess
    <2>1. Becomes(r, "commit", req[r].pos, req[r].done, req[r].err, req[r].status)
      BY <1>7, Goto_Becomes DEF Steps, Using
    <2>2. Touches(s)
      BY <1>7, Session_Stays
    <2>3. WholeOK(r)'
      BY <1>7, <2>1, <2>2, Whole_Checks DEF s
    <2> QED BY <1>7, <2>1, <2>2, <2>3, Leaves_Inv, Zenon DEF Using, s
  <1>8. CASE /\ req' = [req EXCEPT ![r].pc = "track", ![r].err = err, ![r].status = StatusOf(err)]
             /\ ~Whole(r) /\ UNCHANGED sess
    <2>1. Becomes(r, "track", req[r].pos, req[r].done, err, StatusOf(err))
      BY <1>8, Check_Becomes, ZenonT(40), SMTT(15)
    <2>2. Touches(s)
      BY <1>8, Session_Stays
    <2>3. WholeOK(r)'
      BY <1>8, <2>1, <2>2, Whole_Ends DEF s
    <2> QED BY <1>8, <2>1, <2>2, <2>3, Leaves_Inv, Zenon DEF Using, s
  <1>9. CASE /\ req' = [req EXCEPT ![r].pc = "track", ![r].err = err, ![r].status = StatusOf(err)]
             /\ Whole(r) /\ err # "none" /\ sess' = RolledBack(s)
    <2>1. Becomes(r, "track", req[r].pos, req[r].done, err, StatusOf(err))
      BY <1>9, Check_Becomes, Zenon
    <2>2. Has(s, "idle", {})
      BY <1>9, Both_Has, Zenon DEF RolledBack, Open
    <2>3. /\ Touches(s) /\ sess'[s].content = {}
          /\ sess'[s].pending = sess[s].pending /\ sess'[s].truncated = sess[s].truncated
      BY <2>2, Emptied, Zenon DEF Using, s
    <2>4. StatusOf(err) # "succeeded"
      BY <1>9
    <2>5. WholeOK(r)'
      BY <2>1, <2>3, <2>4, Whole_Ends, Zenon DEF s
    <2> QED BY <2>1, <2>3, <2>5, Leaves_Inv, Zenon DEF Using, s
  <1>10. CASE Raises(r, "lost") /\ sess' = [sess EXCEPT ![s].txn = "unknown", ![s].content = {}]
    <2>1. Becomes(r, "except", req[r].pos, req[r].done, "lost", req[r].status)
      BY <1>10, Error_Becomes, Zenon DEF Raises, Steps, Using
    <2>2. Has(s, "unknown", {})
      BY <1>10, Both_Has, Zenon
    <2>3. /\ Touches(s) /\ sess'[s].content = {}
          /\ sess'[s].pending = sess[s].pending /\ sess'[s].truncated = sess[s].truncated
      BY <2>2, Emptied DEF Using, s
    <2>4. WholeOK(r)'
      BY <2>1, <2>3, Whole_Raises, Zenon DEF s
    <2> QED BY <2>1, <2>3, <2>4, Leaves_Inv, Zenon DEF Using, s
  <1> QED BY <1>6, <1>7, <1>8, <1>9, <1>10

-----------------------------------------------------------------------------
(* Starting *)

\* A reservation that comes too late, or that nobody waits for, is given back.
LEMMA Early_Release ==
    ASSUME RawInv, NEW r \in Reqs, req[r].pc = "start",
           NEW status \in {"failed", "cancelled"},
           Becomes(r, "release", req[r].pos, req[r].done, req[r].err, status),
           UNCHANGED <<sess, durable>>, OnlyConnection
    PROVE  RawInv'
  <1> DEFINE s == req[r].s
  <1> LockInv /\ TurnOK(r) /\ WholeOK(r) /\ HeldOK(r)
    BY DEF RawInv
  <1> s \in Sessions /\ Touches(s)
    BY Uses, Session_Stays, Zenon
  <1>3. /\ \A x \in Sessions : sess[x].content \cap Traces(r) = {}
        /\ Whole(r) => durable' \cap Traces(r) = {}
    BY Zenon DEF TurnOK, WholeOK
  <1> HIDE DEF s
  <1>4. TurnOK(r)'
    BY Turn_Leaves, Zenon DEF s
  <1>5. WholeOK(r)'
    BY <1>3, Whole_Ends, Zenon DEF s
  <1>6. HeldOK(r)'
    <2>1. sess[s].operation = r /\ ~sess[s].truncated => sess[s].content \subseteq sess[s].pending
      <3>1. sess[s].operation = r /\ ~sess[s].truncated =>
              sess[s].content \ Traces(r) \subseteq sess[s].pending
        BY Zenon DEF HeldOK, s
      <3> QED BY <1>3, <3>1
    <2>2. req'[r].pc = "release" /\ req'[r].s = s
      BY DEF Becomes, s
    <2> QED BY <2>1, <2>2, Zenon DEF HeldOK
  <1>7. "release" \in Using \cup {"track", "release"} /\ "release" \notin Using
    BY DEF Using
  <1> QED BY <1>4, <1>5, <1>6, <1>7, Works_Inv, Zenon DEF s

\* CopyDownload.close ends a download that was not read to its end.
LEMMA AbandonDownload_Inv ==
    ASSUME RawInv, NEW r \in Reqs, AbandonDownload(r)
    PROVE  RawInv'
  <1>1. /\ req[r].pc = "start" /\ RawTypes /\ UNCHANGED <<sess, durable>> /\ OnlyConnection
        /\ req' = [req EXCEPT ![r].pc = "release", ![r].status = "failed"]
    BY DEF AbandonDownload, OnlyReq, OnlyConnection, RawInv, LockInv
  <1>2. Becomes(r, "release", req[r].pos, req[r].done, req[r].err, "failed")
    BY <1>1, Status_Becomes, Zenon DEF Steps
  <1> QED BY <1>1, <1>2, Early_Release

\* The reservation is dispatched.
LEMMA Started_Session ==
    ASSUME LockInv, NEW s \in Sessions, sess[s].operation # None,
           sess' = [sess EXCEPT ![s].started = TRUE]
    PROVE  /\ Touches(s) /\ sess'[s].started /\ sess'[s].content = sess[s].content
           /\ sess'[s].pending = sess[s].pending /\ sess'[s].truncated = sess[s].truncated
  <1> DEFINE c == [sess[s] EXCEPT !.started = TRUE]
  <1> sess[s] \in SessionRecord /\ RawTypes
    BY Raw_Records DEF LockInv
  <1>3. c \in SessionRecord
    <2>1. sess[s] \in SessionRecord
      OBVIOUS
    <2> QED BY <2>1, Zenon DEF SessionRecord
  <1>4. /\ c.started /\ c.content = sess[s].content /\ c.pending = sess[s].pending
        /\ c.truncated = sess[s].truncated /\ c.txn = sess[s].txn /\ c.flag = sess[s].flag
        /\ c.status = sess[s].status /\ c.rev = sess[s].rev /\ c.operation = sess[s].operation
    <2>1. sess[s] \in SessionRecord
      OBVIOUS
    <2> QED BY <2>1 DEF SessionRecord
  <1>5. sess' = [sess EXCEPT ![s] = c]
    BY DEF RawTypes
  <1> HIDE DEF c
  <1>6. /\ sess' \in [Sessions -> SessionRecord] /\ sess'[s] = c
        /\ \A x \in Sessions : x # s => sess'[x] = sess[x]
    BY <1>3, <1>5, Session_Put, Zenon
  <1>7. sess[s].content # {} => sess[s].txn \in Unfinished
    BY DEF LockInv, SessionOK
  <1> QED BY <1>4, <1>6, <1>7 DEF Touches

\* start_reserved dispatches a run, unless the shutdown has retired its
\* reservation.
LEMMA Start_Inv ==
    ASSUME RawInv, NEW r \in Reqs, Start(r)
    PROVE  RawInv'
  <1> DEFINE s == req[r].s
  <1> /\ LockInv /\ RawTypes /\ req[r].pc = "start" /\ TurnOK(r) /\ WholeOK(r)
      /\ UNCHANGED durable /\ OnlyConnection
    BY DEF RawInv, LockInv, Start, OnlyConnection
  <1> s \in Sessions /\ (sess[s].operation = r <=> sess[s].status # "closed")
    BY Uses
  <1>3. /\ \A x \in Sessions : sess[x].content \cap Traces(r) = {}
        /\ Whole(r) => durable' \cap Traces(r) = {} /\ req[r].pos = 1
    BY Zenon DEF TurnOK, WholeOK, Unsent
  <1>4. CASE UNCHANGED sess /\ req' = [req EXCEPT ![r].pc = "release", ![r].status = "cancelled"]
    BY <1>4, Status_Becomes, Early_Release, Zenon DEF Steps
  <1>5. CASE UNCHANGED sess /\ Ends(r, "failed")
    <2>1. Becomes(r, "track", req[r].pos, req[r].done, req[r].err, "failed")
      BY <1>5, Ends_Becomes
    <2>2. Touches(s)
      BY <1>5, Session_Stays
    <2> HIDE DEF s
    <2>3. WholeOK(r)'
      BY <1>3, <1>5, <2>1, <2>2, Whole_Ends DEF s
    <2> QED BY <1>5, <2>1, <2>2, <2>3, Leaves_Inv, Zenon DEF s
  <1>6. ASSUME NEW pc \in {"history", "policy"}, Goto(r, pc), sess[s].status # "closed",
               sess' = [sess EXCEPT ![s].started = TRUE]
        PROVE  RawInv'
    <2>1. GoesTo(r, pc)
      BY <1>6, Goto_Becomes DEF GoesTo, Steps, Using
    <2>2. sess[s].operation = r
      BY <1>6, Uses
    <2> /\ Touches(s) /\ sess'[s].started /\ sess'[s].content = sess[s].content
        /\ sess'[s].pending = sess[s].pending /\ sess'[s].truncated = sess[s].truncated
      BY <1>6, <2>2, Started_Session, Zenon
    <2> HIDE DEF s
    <2>4. TurnOK(r)'
      BY <2>1, Turn_Stays, Zenon DEF s
    <2> Becomes(r, pc, req[r].pos, req[r].done, req[r].err, req[r].status)
      BY <2>1 DEF GoesTo
    <2>5. /\ pc \in {"history", "policy", "statement"} /\ pc # "statement"
          /\ sess'[s].content \cap Traces(r) = {}
      BY <1>3
    <2>6. WholeOK(r)'
      BY <1>3, <2>5, Whole_Waits, Zenon DEF s
    <2>7. sess'[s].operation = sess[s].operation
      BY Zenon DEF Touches
    <2>8. HeldOK(r)'
      BY <2>7, Held_Keeps, Zenon DEF Using, s
    <2> QED BY <2>2, <2>4, <2>6, <2>8, Works_Inv, Zenon DEF Using, s
  <1> QED
    <2>1. CASE closed \/ sess[s].status = "closed" \/ sess[s].cancelled
      BY <1>4, <1>5, <2>1 DEF Start
    <2>2. CASE ~(closed \/ sess[s].status = "closed" \/ sess[s].cancelled)
      BY <1>6, <2>2 DEF Start
    <2> QED BY <2>1, <2>2

-----------------------------------------------------------------------------
(* Sending a statement *)

\* Where a request stands that is about to send a command.
LEMMA Sending ==
    ASSUME RawInv, NEW r \in Reqs, req[r].pc = "statement"
    PROVE  LET s == req[r].s IN
           /\ s \in Sessions /\ sess[s] \in SessionRecord /\ req[r] \in RequestRecord
           /\ sess[s].operation = r /\ sess[s].started /\ sess[s].status = "running"
           /\ req[r].err = "none" /\ req[r].pos >= 1 /\ req[r].done = req[r].pos - 1
           /\ req[r].pos <= Len(req[r].script)
           /\ Whole(r) => /\ req[r].pos = 1 /\ sess[s].txn = "intrans"
                          /\ durable \cap Traces(r) = {}
                          /\ sess[s].content \cap Traces(r) = {}
                          /\ \A i \in DOMAIN req[r].script : req[r].script[i] # "commit"
  <1> LockInv /\ TurnOK(r) /\ WholeOK(r)
    BY DEF RawInv
  <1>2. /\ req[r].s \in Sessions /\ sess[req[r].s] \in SessionRecord /\ req[r] \in RequestRecord
        /\ sess[req[r].s].operation = r /\ sess[req[r].s].started
        /\ sess[req[r].s].status = "running"
    BY Uses DEF Using
  <1>3. /\ req[r].err = "none" /\ req[r].pos >= 1 /\ req[r].done = req[r].pos - 1
        /\ req[r].pos <= Len(req[r].script)
    BY DEF TurnOK, Unsent
  <1>4. Whole(r) => /\ req[r].pos = 1 /\ sess[req[r].s].txn = "intrans"
                    /\ durable \cap Traces(r) = {}
                    /\ sess[req[r].s].content \cap Traces(r) = {}
                    /\ \A i \in DOMAIN req[r].script : req[r].script[i] # "commit"
    BY <1>2, Zenon DEF WholeOK, Unsent
  <1> QED BY <1>2, <1>3, <1>4, Zenon

\* What a request sends is its own.
LEMMA Sent_Own ==
    ASSUME NEW r \in Reqs, req[r] \in RequestRecord,
           req[r].pos >= 1, req[r].pos <= Len(req[r].script)
    PROVE  /\ Sent(r) \subseteq Own(r) /\ Sent(r) \subseteq Traces(r)
           /\ Sent(r) \subseteq Statements
           /\ req[r].pos \in DOMAIN req[r].script /\ req[r].pos \in Nat
           /\ Len(req[r].script) \in Nat /\ DOMAIN req[r].script = 1..Len(req[r].script)
  <1> /\ req[r].pos \in Nat /\ req[r].script \in Seq({"write", "commit"})
    BY DEF RequestRecord
  <1>2. /\ Len(req[r].script) \in Nat /\ DOMAIN req[r].script = 1..Len(req[r].script)
    OBVIOUS
  <1>3. Sent(r) \subseteq Own(r)
    BY <1>2 DEF Sent, Own
  <1> QED BY <1>2, <1>3, Own_Traces

\* A command that leaves the transaction open.
LEMMA More_Has ==
    ASSUME RawTypes, NEW s \in Sessions, NEW content \in SUBSET Statements,
           sess' = [sess EXCEPT ![s].content = content]
    PROVE  Has(s, sess[s].txn, content)
  <1>1. sess[s] \in SessionRecord
    BY Raw_Records
  <1>2. sess[s].txn \in Open \cup {"unknown", "closed"} /\ sess[s].flag \in BOOLEAN
    BY <1>1, Session_Fields
  <1>3. sess' = [sess EXCEPT ![s] = [sess[s] EXCEPT !.content = content]]
    BY DEF RawTypes
  <1>4. sess' = [sess EXCEPT ![s] = [sess[s] EXCEPT !.txn = sess[s].txn, !.content = content,
                                                    !.flag = sess[s].flag]]
    BY <1>1, <1>3, Session_Same, Zenon
  <1> QED BY <1>2, <1>4, Session_Has, Zenon

\* What PostgreSQL makes of a command, whoever sent it.
LEMMA Succeeded_Session ==
    ASSUME RawInv, NEW r \in Reqs, req[r].pc = "statement", NEW s, s = req[r].s, Succeeds(r)
    PROVE  /\ Touches(s)
           /\ sess'[s].pending = sess[s].pending /\ sess'[s].truncated = sess[s].truncated
           /\ durable \subseteq durable'
           /\ durable' \subseteq durable \cup sess[s].content \cup Sent(r)
           /\ \/ ~Whole(r) /\ sess'[s].content = {}
              \/ /\ sess'[s].content = sess[s].content \cup Sent(r) /\ Command(r) = "write"
                 /\ durable' = durable
  <1> /\ LockInv /\ RawTypes
    BY DEF RawInv, LockInv
  <1> /\ s \in Sessions /\ sess[s] \in SessionRecord /\ req[r] \in RequestRecord
      /\ sess[s].operation = r /\ req[r].pos >= 1 /\ req[r].pos <= Len(req[r].script)
      /\ Whole(r) => /\ sess[s].txn = "intrans"
                     /\ \A i \in DOMAIN req[r].script : req[r].script[i] # "commit"
    BY Sending
  <1>3. Sent(r) \subseteq Statements /\ req[r].pos \in DOMAIN req[r].script
    BY Sent_Own
  <1>4. Whole(r) => Command(r) # "commit"
    BY <1>3 DEF Command
  <1>5. CASE /\ Command(r) = "commit"
             /\ durable' = IF sess[s].txn = "intrans" THEN durable \cup sess[s].content ELSE durable
             /\ sess' = [sess EXCEPT ![s].txn = "idle", ![s].content = {}]
    <2>1. Has(s, "idle", {})
      BY <1>5, Both_Has, Zenon DEF Open
    <2>2. /\ Touches(s) /\ sess'[s].content = {}
          /\ sess'[s].pending = sess[s].pending /\ sess'[s].truncated = sess[s].truncated
      BY <2>1, Emptied, Zenon DEF Using
    <2> QED BY <1>4, <1>5, <2>2, Zenon
  <1>6. CASE /\ Command(r) = "write" /\ sess[s].txn = "idle"
             /\ durable' = durable \cup Sent(r) /\ UNCHANGED sess
    <2>1. Touches(s)
      BY <1>6, Session_Stays
    <2>2. sess[s].content = {}
      BY <1>6 DEF LockInv, SessionOK, Unfinished
    <2> QED BY <1>6, <2>1, <2>2
  <1>7. CASE /\ Command(r) = "write" /\ sess[s].txn = "intrans"
             /\ sess' = [sess EXCEPT ![s].content = @ \cup Sent(r)] /\ UNCHANGED durable
    <2>1. sess[s].content \cup Sent(r) \in SUBSET Statements
      BY <1>3, Session_Fields
    <2>2. sess' = [sess EXCEPT ![s].content = sess[s].content \cup Sent(r)]
      BY <1>7
    <2>3. Has(s, sess[s].txn, sess[s].content \cup Sent(r))
      BY <2>1, <2>2, More_Has, Zenon
    <2>4. Touches(s)
      BY <1>7, <2>3, Has_Touches DEF Unfinished
    <2> QED BY <1>7, <2>3, <2>4 DEF Has
  <1> QED BY <1>5, <1>6, <1>7, Zenon DEF Succeeds

\* A statement that fails makes nothing durable.
LEMMA Failed_Session ==
    ASSUME RawInv, NEW r \in Reqs, req[r].pc = "statement", NEW s, s = req[r].s, Fails(r),
           sess[s].txn \in Open
    PROVE  /\ Touches(s) /\ durable' = durable /\ sess'[s].content \subseteq sess[s].content
           /\ sess'[s].pending = sess[s].pending /\ sess'[s].truncated = sess[s].truncated
  <1> LockInv /\ RawTypes /\ s \in Sessions /\ sess[s].operation = r
    BY Sending, Zenon DEF RawInv, LockInv
  <1>2. CASE sess' = [sess EXCEPT ![s].txn = "idle", ![s].content = {}]
    <2>1. Has(s, "idle", {})
      BY <1>2, Both_Has, Zenon DEF Open
    <2>2. req[r].pc \in Using
      BY DEF Using
    <2>3. /\ Touches(s) /\ sess'[s].content = {}
          /\ sess'[s].pending = sess[s].pending /\ sess'[s].truncated = sess[s].truncated
      BY <2>1, <2>2, Emptied
    <2>4. durable' = durable
      BY DEF Fails
    <2> QED BY <2>3, <2>4
  <1>3. CASE sess' = [sess EXCEPT ![s].txn = IF @ = "idle" THEN @ ELSE "inerror"]
    <2> DEFINE txn == IF sess[s].txn = "idle" THEN sess[s].txn ELSE "inerror"
    <2>1. txn \in Open \cup {"unknown", "closed"} /\ sess' = [sess EXCEPT ![s].txn = txn]
      BY <1>3 DEF Open
    <2>2. sess[s].content # {} => txn \in Unfinished
      BY DEF LockInv, SessionOK, Unfinished
    <2> HIDE DEF txn
    <2>3. Has(s, txn, sess[s].content)
      BY <2>1, Txn_Has, Zenon
    <2>4. Touches(s)
      BY <2>2, <2>3, Has_Touches
    <2> QED BY <2>3, <2>4, Zenon DEF Has, Fails
  <1> QED BY <1>2, <1>3, Zenon DEF Fails

\* A connection that is lost leaves nothing in its transaction.
LEMMA Lost_Session ==
    ASSUME RawInv, NEW r \in Reqs, req[r].pc = "statement", NEW s, s = req[r].s,
           Lost(s, MayCommit(r))
    PROVE  /\ Touches(s) /\ sess'[s].content = {}
           /\ sess'[s].pending = sess[s].pending /\ sess'[s].truncated = sess[s].truncated
           /\ durable \subseteq durable'
           /\ durable' \subseteq durable \cup sess[s].content \cup Sent(r)
           /\ Whole(r) => durable' = durable
  <1> /\ RawTypes /\ s \in Sessions /\ req[r] \in RequestRecord
      /\ req[r].pos >= 1 /\ req[r].pos <= Len(req[r].script)
      /\ Whole(r) => /\ sess[s].txn = "intrans"
                     /\ \A i \in DOMAIN req[r].script : req[r].script[i] # "commit"
    BY Sending, Zenon DEF RawInv, LockInv
  <1>2. req[r].pos \in DOMAIN req[r].script
    BY Sent_Own
  <1>3. MayCommit(r) \subseteq sess[s].content \cup Sent(r) /\ (Whole(r) => MayCommit(r) = {})
    BY <1>2, Zenon DEF MayCommit, Command
  <1>4. Has(s, "unknown", {})
    BY Both_Has, Zenon DEF Lost
  <1>5. /\ Touches(s) /\ sess'[s].content = {}
        /\ sess'[s].pending = sess[s].pending /\ sess'[s].truncated = sess[s].truncated
    BY <1>4, Emptied, Zenon DEF Using
  <1>6. durable' = durable \/ durable' = durable \cup MayCommit(r)
    BY DEF Lost
  <1> QED BY <1>3, <1>5, <1>6, Zenon

\* The place after one that is not the last.
LEMMA Next_Place ==
    ASSUME NEW k \in Nat, NEW n \in Nat, k <= n, k # n
    PROVE  k + 1 >= 1 /\ k = k + 1 - 1 /\ k + 1 <= n
  OBVIOUS

\* The request of a run that has a result for a statement.
LEMMA Turn_Advances ==
    ASSUME RawInv, NEW r \in Reqs, req[r].pc = "statement", req[r].kind = "run",
           NEW s, s = req[r].s, Touches(s), NEW done, NEW last,
           done = IF Whole(r) THEN Len(req[r].script) ELSE req[r].pos,
           last = (done = Len(req[r].script)),
           Becomes(r, IF last THEN "check" ELSE IF Mode(r) = "manual" THEN "policy" ELSE "statement",
                   IF last THEN req[r].pos ELSE req[r].pos + 1, done, req[r].err, req[r].status)
    PROVE  TurnOK(r)'
  <1>1. TurnOK(r)
    BY DEF RawInv
  <1> /\ req[r] \in RequestRecord /\ sess[s].status = "running"
      /\ req[r].err = "none" /\ req[r].pos >= 1 /\ req[r].pos <= Len(req[r].script)
    BY Sending
  <1> req[r].pos \in Nat /\ Len(req[r].script) \in Nat
    BY Sent_Own
  <1> /\ req'[r].s = s /\ req'[r].exp = req[r].exp
      /\ req'[r].seen = req[r].seen /\ req'[r].partly = req[r].partly
      /\ req'[r].done = done /\ req'[r].kind = "run" /\ req'[r].script = req[r].script
      /\ req'[r].err = "none"
      /\ last => req'[r].pc = "check" /\ req'[r].pos = req[r].pos
      /\ ~last => req'[r].pc \in {"policy", "statement"} /\ req'[r].pos = req[r].pos + 1
    BY DEF Becomes
  <1>5. sess'[s].rev = sess[s].rev /\ sess'[s].status = "running"
    BY Zenon DEF Touches
  <1>6. done <= Len(req[r].script)
    BY SMTT(15), Z3T(15), ZenonT(40)
  <1>7. /\ req'[r].exp # 0 => req'[r].exp <= sess'[s].rev
        /\ sess'[s].status # "open"
    BY <1>1, <1>5, Zenon DEF TurnOK
  <1>8. CASE last
    <2>1. req'[r].pc \notin Unsent
      BY <1>8, Zenon DEF Unsent
    <2>2. req'[r].pc \notin {"idle", "reserve", "ticket", "start", "history"}
      BY <1>8
    <2> QED BY <1>6, <1>7, <2>1, <2>2, Zenon DEF TurnOK
  <1>9. CASE ~last
    <2>1. done # Len(req[r].script)
      BY <1>9, Zenon
    <2>2. done = req[r].pos
      BY <2>1
    <2>3. /\ req[r].pos + 1 >= 1 /\ req[r].pos = req[r].pos + 1 - 1
          /\ req[r].pos + 1 <= Len(req[r].script)
      BY <2>1, <2>2, Next_Place
    <2>4. /\ req'[r].pos >= 1 /\ req'[r].done = req'[r].pos - 1
          /\ req'[r].pos <= Len(req'[r].script)
      <3>1. /\ req'[r].pos = req[r].pos + 1 /\ req'[r].done = done
            /\ req'[r].script = req[r].script
        BY <1>9, Zenon
      <3> QED BY <2>2, <2>3, <3>1, ZenonT(40), SMTT(15)
    <2>5. req'[r].pc \notin {"idle", "reserve", "ticket", "start", "history"}
      BY <1>9
    <2> QED BY <1>6, <1>7, <2>4, <2>5, Zenon DEF TurnOK
  <1> QED BY <1>8, <1>9

\* The statements from x to the one that was sent are not COMMITs.
LEMMA In_Turn ==
    ASSUME NEW r \in Reqs, NEW x, NEW done,
           req[r].pos \in Nat, req[r].done = req[r].pos - 1, Len(req[r].script) \in Nat,
           x[2] \in 1..Len(req[r].script), req[r].script[req[r].pos] # "commit",
           done = IF Whole(r) THEN Len(req[r].script) ELSE req[r].pos,
           Whole(r) => \A j \in 1..Len(req[r].script) : req[r].script[j] # "commit",
           \/ Whole(r)
           \/ x[2] = req[r].pos
           \/ /\ x[2] <= req[r].done
              /\ \A j \in x[2]..req[r].done : req[r].script[j] # "commit"
    PROVE  x[2] <= done /\ \A j \in x[2]..done : req[r].script[j] # "commit"
  <1>1. x[2] \in Nat /\ x[2] >= 1 /\ x[2] <= Len(req[r].script)
    OBVIOUS
  <1>2. CASE Whole(r)
    BY <1>1, <1>2
  <1>3. CASE ~Whole(r) /\ x[2] = req[r].pos
    BY <1>1, <1>3
  <1>4. CASE /\ ~Whole(r) /\ x[2] <= req[r].done
             /\ \A j \in x[2]..req[r].done : req[r].script[j] # "commit"
    BY <1>1, <1>4
  <1> QED BY <1>2, <1>3, <1>4

\* A COMMIT up to a statement that is none was sent before it.
LEMMA Sent_Before ==
    ASSUME NEW f, NEW k \in Nat, NEW d, d = k - 1, f[k] # "commit",
           NEW j \in 1..k, f[j] = "commit"
    PROVE  j \in 1..d
  OBVIOUS

\* The place of a statement in its script.
LEMMA Own_Place ==
    ASSUME NEW r \in Reqs, NEW x \in Own(r)
    PROVE  x[2] \in 1..Len(req[r].script)
  <1>1. PICK i \in 1..Len(req[r].script) : x = <<r, i>>
    BY DEF Own
  <1> QED BY <1>1

\* What is in the transaction after one more statement.
LEMMA Held_Advances ==
    ASSUME RawInv, NEW r \in Reqs, req[r].pc = "statement", req[r].kind = "run",
           NEW s, s = req[r].s, NEW pc \in Using, NEW pos, NEW done, NEW err, NEW status,
           done = IF Whole(r) THEN Len(req[r].script) ELSE req[r].pos,
           Becomes(r, pc, pos, done, err, status),
           sess'[s].operation = sess[s].operation, sess'[s].pending = sess[s].pending,
           sess'[s].truncated = sess[s].truncated,
           \/ sess'[s].content = {}
           \/ sess'[s].content = sess[s].content \cup Sent(r) /\ Command(r) = "write"
    PROVE  HeldOK(r)'
  <1>1. HeldOK(r)
    BY Zenon DEF RawInv
  <1> /\ req[r] \in RequestRecord /\ sess[s].operation = r
      /\ req[r].pos >= 1 /\ req[r].done = req[r].pos - 1 /\ req[r].pos <= Len(req[r].script)
      /\ Whole(r) => /\ sess[s].content \cap Traces(r) = {}
                     /\ \A i \in DOMAIN req[r].script : req[r].script[i] # "commit"
    BY Sending, Zenon
  <1> /\ Sent(r) \subseteq Own(r) /\ Sent(r) \subseteq Traces(r)
      /\ req[r].pos \in Nat /\ Len(req[r].script) \in Nat
      /\ DOMAIN req[r].script = 1..Len(req[r].script)
    BY Sent_Own, Zenon
  <1>4. Own(r)' = Own(r)
    BY Same_Script, Zenon DEF Becomes
  <1>5. /\ req'[r].pc = pc /\ req'[r].s = s /\ req'[r].exp = req[r].exp
        /\ req'[r].seen = req[r].seen /\ req'[r].partly = req[r].partly
        /\ req'[r].done = done /\ req'[r].kind = "run" /\ req'[r].script = req[r].script
    BY Zenon DEF Becomes
  <1> /\ req[r].pc \in Using /\ req[r].pc # "release" /\ pc # "release"
    BY Zenon DEF Using
  <1> /\ req[r].exp # 0 => req[r].seen = sess[s].pending /\ req[r].partly = sess[s].truncated
      /\ ~sess[s].truncated => sess[s].content \ Traces(r) \subseteq sess[s].pending
      /\ \A x \in sess[s].content \cap Traces(r) :
           /\ x \in Own(r) /\ x[2] <= req[r].done
           /\ \A j \in x[2]..req[r].done : req[r].script[j] # "commit"
      /\ (\E j \in 1..req[r].done : req[r].script[j] = "commit") =>
           sess[s].content \subseteq Traces(r)
    BY <1>1, Zenon DEF HeldOK
  <1>8. CASE sess'[s].content = {}
    BY <1>4, <1>5, <1>8, Zenon DEF HeldOK
  <1>9. CASE sess'[s].content = sess[s].content \cup Sent(r) /\ Command(r) = "write"
    <2>1. ~sess[s].truncated => sess'[s].content \ Traces(r) \subseteq sess[s].pending
      BY <1>9, Zenon
    <2>2. req[r].script[req[r].pos] # "commit"
      BY <1>9, Zenon DEF Command
    <2>3. ASSUME NEW x \in sess'[s].content \cap Traces(r)
          PROVE  /\ x \in Own(r) /\ x[2] <= done
                 /\ \A j \in x[2]..done : req[r].script[j] # "commit"
      <3>1. x \in Own(r)
        BY <1>9, <2>3, Zenon
      <3>2. x[2] \in 1..Len(req[r].script)
        BY <3>1, Own_Place, Zenon
      <3>3. \/ Whole(r)
            \/ x[2] = req[r].pos
            \/ /\ x[2] <= req[r].done
               /\ \A j \in x[2]..req[r].done : req[r].script[j] # "commit"
        <4>1. CASE x \in sess[s].content
          BY <2>3, <4>1, Zenon
        <4>2. CASE x \in Sent(r) /\ ~Whole(r)
          <5>1. x = <<r, req[r].pos>>
            BY <4>2, Zenon DEF Sent
          <5> QED BY <5>1, Zenon
        <4> QED BY <1>9, <2>3, <4>1, <4>2, Zenon
      <3>4. Whole(r) => \A j \in 1..Len(req[r].script) : req[r].script[j] # "commit"
        BY Zenon
      <3> QED BY <2>2, <3>1, <3>2, <3>3, <3>4, In_Turn, ZenonT(40)
    <2>4. (\E j \in 1..done : req[r].script[j] = "commit") => sess'[s].content \subseteq Traces(r)
      <3>1. SUFFICES ASSUME NEW j \in 1..done, req[r].script[j] = "commit"
                     PROVE  sess'[s].content \subseteq Traces(r)
        BY Zenon
      <3>2. ~Whole(r)
        BY <3>1, Zenon
      <3>3. j \in 1..req[r].pos
        BY <3>1, <3>2, Zenon
      <3>4. j \in 1..req[r].done
        BY <2>2, <3>1, <3>3, Sent_Before, ZenonT(40), SMTT(15)
      <3> QED BY <1>9, <3>1, <3>4, Zenon
    <2> QED BY <1>4, <1>5, <2>1, <2>3, <2>4, ZenonT(40), SMTT(15) DEF HeldOK
  <1> QED BY <1>8, <1>9, Zenon

\* A statement has a result.
LEMMA Continues_Becomes ==
    ASSUME RawTypes, NEW r \in Reqs, Continues(r)
    PROVE  LET done == IF Whole(r) THEN Len(req[r].script) ELSE req[r].pos
               last == done = Len(req[r].script)
           IN Becomes(r, IF last THEN "check" ELSE IF Mode(r) = "manual" THEN "policy"
                                                   ELSE "statement",
                      IF last THEN req[r].pos ELSE req[r].pos + 1, done,
                      req[r].err, req[r].status)
  <1> DEFINE done == IF Whole(r) THEN Len(req[r].script) ELSE req[r].pos
             last == done = Len(req[r].script)
             pos == IF last THEN req[r].pos ELSE req[r].pos + 1
             pc == IF last THEN "check" ELSE IF Mode(r) = "manual" THEN "policy" ELSE "statement"
             q == [req[r] EXCEPT !.done = done, !.pos = pos, !.pc = pc]
  <1>1. req[r] \in RequestRecord /\ req' = [req EXCEPT ![r] = q]
    BY Zenon DEF RawTypes, Continues
  <1> req[r] \in RequestRecord
    BY <1>1
  <1>3. done \in Nat /\ pos \in Nat /\ pc \in Using
    <2>1. req[r].pos \in Nat /\ Len(req[r].script) \in Nat
      BY DEF RequestRecord
    <2> QED BY <2>1 DEF Using
  <1> HIDE DEF done, pos, pc
  <1>4. q \in RequestRecord
    BY <1>3, ZenonT(40) DEF RequestRecord
  <1>5. /\ q.pc = pc /\ q.pos = pos /\ q.done = done /\ q.err = req[r].err
        /\ q.status = req[r].status
        /\ q.s = req[r].s /\ q.kind = req[r].kind /\ q.mode = req[r].mode
        /\ q.script = req[r].script /\ q.exp = req[r].exp /\ q.seen = req[r].seen
        /\ q.partly = req[r].partly /\ q.stopped = req[r].stopped
    BY DEF RequestRecord
  <1> HIDE DEF q
  <1>6. Becomes(r, q.pc, q.pos, q.done, q.err, q.status)
    BY <1>1, <1>4, <1>5, Request_Put, Zenon
  <1>7. Becomes(r, pc, pos, done, req[r].err, req[r].status)
    BY <1>5, <1>6
  <1> QED BY <1>7 DEF done, pos, pc

\* A statement has its result: the run goes on.
LEMMA Advances_Inv ==
    ASSUME RawInv, NEW r \in Reqs, req[r].pc = "statement", req[r].kind = "run",
           NEW s, s = req[r].s, Continues(r), Touches(s), OnlyConnection,
           sess'[s].pending = sess[s].pending, sess'[s].truncated = sess[s].truncated,
           durable \subseteq durable',
           durable' \subseteq durable \cup sess[s].content \cup Traces(r),
           \/ ~Whole(r) /\ sess'[s].content = {}
           \/ /\ sess'[s].content = sess[s].content \cup Sent(r) /\ Command(r) = "write"
              /\ durable' = durable
    PROVE  RawInv'
  <1> DEFINE done == IF Whole(r) THEN Len(req[r].script) ELSE req[r].pos
             last == done = Len(req[r].script)
             pc == IF last THEN "check" ELSE IF Mode(r) = "manual" THEN "policy" ELSE "statement"
             pos == IF last THEN req[r].pos ELSE req[r].pos + 1
  <1> Becomes(r, pc, pos, done, req[r].err, req[r].status)
    BY Continues_Becomes, Zenon DEF RawInv, LockInv
  <1>2. TurnOK(r)'
    BY Turn_Advances, Zenon
  <1> /\ req[r] \in RequestRecord /\ req[r].err = "none" /\ req[r].pos >= 1
      /\ req[r].pos <= Len(req[r].script) /\ sess[s].operation = r /\ sess[s].started
      /\ Whole(r) => durable \cap Traces(r) = {}
    BY Sending, Zenon
  <1> pc \in Using /\ (Whole(r) => pc = "check") /\ pc \in {"check", "policy", "statement"}
    BY Zenon DEF Using
  <1>5. Sent(r) \subseteq Traces(r)
    BY Sent_Own, Zenon
  <1>6. done = IF Whole(r) THEN Len(req[r].script) ELSE req[r].pos
    BY Zenon
  <1> HIDE DEF done, last, pc, pos
  <1>7. sess'[s].operation = sess[s].operation /\ (sess[s].started => sess'[s].started)
    BY Zenon DEF Touches
  <1>8. HeldOK(r)'
    BY <1>6, <1>7, Held_Advances, Zenon
  <1>9. WholeOK(r)'
    <2>1. CASE ~Whole(r)
      <3>1. Whole(r)' = Whole(r) /\ req'[r].pc # "idle"
        BY Same_Script, Zenon DEF Becomes
      <3> QED BY <2>1, <3>1, Zenon DEF WholeOK
    <2>2. CASE Whole(r)
      <3>1. Own(r) \subseteq sess'[s].content /\ durable' \cap Traces(r) = {}
        BY <2>2, Zenon DEF Sent
      <3>2. pc = "check"
        BY <2>2, Zenon
      <3> QED BY <3>1, <3>2, Whole_Checks, Zenon
    <2> QED BY <2>1, <2>2, Zenon
  <1>10. sess'[s].content \subseteq sess[s].content \cup Traces(r)
    BY <1>5, Zenon
  <1> QED BY <1>2, <1>7, <1>8, <1>9, <1>10, Works_Inv, Zenon DEF Using

\* execute sends a statement, unless the fence is up.
LEMMA Statement_Inv ==
    ASSUME RawInv, NEW r \in Reqs, Statement(r)
    PROVE  RawInv'
  <1> DEFINE s == req[r].s
  <1> /\ LockInv /\ RawTypes /\ req[r].pc = "statement" /\ req[r].kind = "run"
      /\ OnlyConnection
    BY Zenon DEF RawInv, LockInv, Statement
  <1> /\ s \in Sessions /\ sess[s].operation = r /\ req[r] \in RequestRecord
      /\ req[r].pos >= 1 /\ req[r].pos <= Len(req[r].script)
      /\ Whole(r) => durable \cap Traces(r) = {}
    BY Sending
  <1>3. Sent(r) \subseteq Traces(r)
    BY Sent_Own
  <1>4. \/ Breaks(r, "cancel") /\ UNCHANGED <<sess, durable>>
        \/ Succeeds(r) /\ Continues(r)
        \/ /\ sess[s].txn \in Open /\ Fails(r)
           /\ \E err \in {"error", "cancel"} : Breaks(r, err)
        \/ Lost(s, MayCommit(r)) /\ Raises(r, "lost")
        \/ UNCHANGED <<sess, durable>> /\ Raises(r, "lost")
    BY Zenon DEF Statement
  <1> HIDE DEF s
  <1>5. CASE Succeeds(r) /\ Continues(r)
    <2>1. /\ Touches(s)
          /\ sess'[s].pending = sess[s].pending /\ sess'[s].truncated = sess[s].truncated
          /\ durable \subseteq durable'
          /\ durable' \subseteq durable \cup sess[s].content \cup Sent(r)
          /\ \/ ~Whole(r) /\ sess'[s].content = {}
             \/ /\ sess'[s].content = sess[s].content \cup Sent(r) /\ Command(r) = "write"
                /\ durable' = durable
      BY <1>5, Succeeded_Session, Zenon DEF s
    <2>2. durable' \subseteq durable \cup sess[s].content \cup Traces(r)
      BY <1>3, <2>1, Zenon
    <2> QED BY <1>5, <2>1, <2>2, Advances_Inv, Zenon DEF s
  <1>6. ASSUME NEW err \in {"error", "cancel"}, Breaks(r, err), Touches(s), durable' = durable,
               sess'[s].content \subseteq sess[s].content,
               sess'[s].pending = sess[s].pending, sess'[s].truncated = sess[s].truncated
        PROVE  RawInv'
    <2>1. Becomes(r, "check", req[r].pos, req[r].done, err, req[r].status)
      BY <1>6, Error_Becomes, Zenon DEF Breaks, Steps, Using
    <2>2. WholeOK(r)'
      BY <1>6, <2>1, Whole_Checks, Zenon DEF s
    <2> QED BY <1>6, <2>1, <2>2, Leaves_Inv, Zenon DEF Using, s
  <1>7. CASE Breaks(r, "cancel") /\ UNCHANGED <<sess, durable>>
    <2>1. Touches(s)
      BY <1>7, Session_Stays
    <2> QED BY <1>6, <1>7, <2>1
  <1>8. CASE /\ sess[s].txn \in Open /\ Fails(r)
             /\ \E err \in {"error", "cancel"} : Breaks(r, err)
    <2>1. /\ Touches(s) /\ durable' = durable /\ sess'[s].content \subseteq sess[s].content
          /\ sess'[s].pending = sess[s].pending /\ sess'[s].truncated = sess[s].truncated
      BY <1>8, Failed_Session, Zenon DEF s
    <2> QED BY <1>6, <1>8, <2>1, Zenon
  <1>9. ASSUME Raises(r, "lost"), Touches(s), sess'[s].content \subseteq sess[s].content,
               sess'[s].pending = sess[s].pending, sess'[s].truncated = sess[s].truncated,
               durable \subseteq durable',
               durable' \subseteq durable \cup sess[s].content \cup Sent(r),
               Whole(r) => durable' = durable
        PROVE  RawInv'
    <2>1. Becomes(r, "except", req[r].pos, req[r].done, "lost", req[r].status)
      BY <1>9, Error_Becomes, Zenon DEF Raises, Steps, Using
    <2>2. WholeOK(r)'
      BY <1>9, <2>1, Whole_Raises, Zenon DEF s
    <2>3. durable' \subseteq durable \cup sess[s].content \cup Traces(r)
      BY <1>3, <1>9, Zenon
    <2> QED BY <1>9, <2>1, <2>2, <2>3, Leaves_Inv, Zenon DEF Using, s
  <1>10. CASE Lost(s, MayCommit(r)) /\ Raises(r, "lost")
    <2>1. /\ Touches(s) /\ sess'[s].content = {}
          /\ sess'[s].pending = sess[s].pending /\ sess'[s].truncated = sess[s].truncated
          /\ durable \subseteq durable'
          /\ durable' \subseteq durable \cup sess[s].content \cup Sent(r)
          /\ Whole(r) => durable' = durable
      BY <1>10, Lost_Session, Zenon DEF s
    <2> QED BY <1>9, <1>10, <2>1, Zenon
  <1>11. CASE UNCHANGED <<sess, durable>> /\ Raises(r, "lost")
    <2>1. Touches(s)
      BY <1>11, Session_Stays
    <2> QED BY <1>9, <1>11, <2>1
  <1> QED BY <1>4, <1>5, <1>7, <1>8, <1>10, <1>11, Zenon

-----------------------------------------------------------------------------
(* COPY *)

\* A transfer is no whole run, and its COPY is its only statement.
LEMMA Transfer_Sends ==
    ASSUME RawInv, NEW r \in Reqs, req[r].pc = "statement", req[r].kind # "run"
    PROVE  /\ ~Whole(r) /\ req[r].done = 0
           /\ Sent(r) \subseteq Own(r) /\ Sent(r) \subseteq Traces(r)
           /\ \A x \in Sent(r) : x[2] = 1
  <1>1. ~Whole(r)
    BY DEF Whole, Mode
  <1>2. req[r].done = 0 /\ req[r].pos = 1
    BY DEF RawInv, TurnOK
  <1>3. req[r] \in RequestRecord /\ req[r].pos >= 1 /\ req[r].pos <= Len(req[r].script)
    BY Sending
  <1>4. Sent(r) \subseteq Own(r) /\ Sent(r) \subseteq Traces(r)
    BY <1>3, Sent_Own
  <1> QED BY <1>1, <1>2, <1>4 DEF Sent

\* What is in the transaction after a transfer.
LEMMA Held_Transfers ==
    ASSUME RawInv, NEW r \in Reqs, req[r].pc = "statement", req[r].kind # "run",
           NEW s, s = req[r].s, NEW pos, NEW err, NEW status,
           Becomes(r, "track", pos, req[r].done, err, status),
           sess'[s].operation = sess[s].operation, sess'[s].pending = sess[s].pending,
           sess'[s].truncated = sess[s].truncated,
           sess'[s].content \subseteq sess[s].content \cup Sent(r)
    PROVE  HeldOK(r)'
  <1>1. HeldOK(r) /\ sess[s].operation = r /\ req[r].pc \in Using /\ req[r].pc # "release"
    BY Sending, Zenon DEF RawInv, Using
  <1> /\ req[r].done = 0 /\ Sent(r) \subseteq Own(r) /\ Sent(r) \subseteq Traces(r)
      /\ \A x \in Sent(r) : x[2] = 1
    BY Transfer_Sends
  <1>3. Own(r)' = Own(r)
    BY Same_Script, Zenon DEF Becomes
  <1>4. /\ req'[r].pc = "track" /\ req'[r].s = s /\ req'[r].exp = req[r].exp
        /\ req'[r].seen = req[r].seen /\ req'[r].partly = req[r].partly
        /\ req'[r].done = 0 /\ req'[r].kind = req[r].kind
    BY DEF Becomes
  <1> /\ req[r].exp # 0 => req[r].seen = sess[s].pending /\ req[r].partly = sess[s].truncated
      /\ ~sess[s].truncated => sess[s].content \ Traces(r) \subseteq sess[s].pending
      /\ \A x \in sess[s].content \cap Traces(r) : x \in Own(r) /\ x[2] <= 1
    BY <1>1, Zenon DEF HeldOK
  <1>6. ~sess[s].truncated => sess'[s].content \ Traces(r) \subseteq sess[s].pending
    BY Zenon
  <1>7. ASSUME NEW x \in sess'[s].content \cap Traces(r)
        PROVE  x \in Own(r) /\ x[2] <= 1 /\ x[2]..0 = {}
    <2>1. x \in Own(r) /\ (x[2] <= 1 \/ x[2] = 1)
      BY Zenon
    <2>2. x[2] \in 1..Len(req[r].script)
      BY <2>1, Own_Place, Zenon
    <2>6. Len(req[r].script) \in Nat
      BY Raw_Records, Request_Numbers, Zenon DEF RawInv, LockInv
    <2>3. x[2] \in Nat /\ 1 <= x[2]
      BY <2>2, <2>6, Numbers, Zenon
    <2>4. x[2]..0 = {}
      BY <2>3, Numbers, Zenon
    <2>5. x[2] <= 1
      BY <2>1, <2>3, Numbers, Zenon
    <2> QED BY <2>1, <2>4, <2>5, Zenon
  <1>8. 1..0 = {}
    BY Numbers, Zenon
  <1> QED BY <1>3, <1>4, <1>6, <1>7, <1>8, Zenon DEF HeldOK

\* upload_copy and CopyDownload.stream send one COPY.
LEMMA Transfer_Inv ==
    ASSUME RawInv, NEW r \in Reqs, Transfer(r)
    PROVE  RawInv'
  <1> DEFINE s == req[r].s
  <1> /\ LockInv /\ RawTypes /\ req[r].pc = "statement" /\ req[r].kind # "run"
      /\ OnlyConnection
    BY Zenon DEF RawInv, LockInv, Transfer
  <1>2. s \in Sessions /\ sess[s].operation = r
    BY Sending
  <1>3. ~Whole(r) /\ Sent(r) \subseteq Traces(r)
    BY Transfer_Sends
  <1>4. \E status \in {"succeeded", "failed"} :
          /\ Ends(r, status)
          /\ \/ UNCHANGED <<sess, durable>>
             \/ Succeeds(r)
             \/ sess[s].txn \in Open /\ Fails(r)
             \/ Lost(s, MayCommit(r))
    BY DEF Transfer
  <1>5. PICK status \in {"succeeded", "failed"} :
          /\ Ends(r, status)
          /\ \/ UNCHANGED <<sess, durable>>
             \/ Succeeds(r)
             \/ sess[s].txn \in Open /\ Fails(r)
             \/ Lost(s, MayCommit(r))
    BY <1>4
  <1> Becomes(r, "track", req[r].pos, req[r].done, req[r].err, status)
    BY <1>5, Ends_Becomes
  <1> /\ Touches(s)
      /\ sess'[s].pending = sess[s].pending /\ sess'[s].truncated = sess[s].truncated
      /\ sess'[s].content \subseteq sess[s].content \cup Sent(r)
      /\ durable \subseteq durable'
      /\ durable' \subseteq durable \cup sess[s].content \cup Sent(r)
    <2>1. CASE UNCHANGED <<sess, durable>>
      BY <1>2, <2>1, Session_Stays, Zenon
    <2>2. CASE Succeeds(r)
      BY <2>2, Succeeded_Session
    <2>3. CASE sess[s].txn \in Open /\ Fails(r)
      BY <2>3, Failed_Session
    <2>4. CASE Lost(s, MayCommit(r))
      BY <2>4, Lost_Session, Zenon
    <2> QED BY <1>5, <2>1, <2>2, <2>3, <2>4, Zenon
  <1> HIDE DEF s
  <1>8. sess'[s].operation = sess[s].operation
    BY Zenon DEF Touches
  <1>9. HeldOK(r)'
    BY <1>8, Held_Transfers, Zenon DEF s
  <1>10. TurnOK(r)'
    BY Turn_Leaves, Zenon DEF Using, s
  <1>11. WholeOK(r)'
    BY <1>3, Whole_Ends, Zenon DEF s
  <1>12. /\ durable' \subseteq durable \cup sess[s].content \cup Traces(r)
         /\ sess'[s].content \subseteq sess[s].content \cup Traces(r)
    BY <1>3
  <1>13. "track" \in Using \cup {"track", "release"} /\ "track" \notin Using
    BY DEF Using
  <1> QED BY <1>9, <1>10, <1>11, <1>12, <1>13, Works_Inv, Zenon DEF Using, s

-----------------------------------------------------------------------------
(* The list of what is pending *)

\* What track_pending writes of a session.
LEMMA Tracked_Session ==
    ASSUME LockInv, NEW s \in Sessions, NEW pending \in SUBSET Statements,
           NEW truncated \in BOOLEAN,
           sess' = [sess EXCEPT ![s].pending = pending, ![s].truncated = truncated]
    PROVE  /\ Touches(s) /\ sess'[s].content = sess[s].content
           /\ sess'[s].pending = pending /\ sess'[s].truncated = truncated
  <1> DEFINE c == [sess[s] EXCEPT !.pending = pending, !.truncated = truncated]
  <1> RawTypes /\ sess[s] \in SessionRecord
    BY Raw_Records DEF LockInv
  <1>2. sess[s] \in SessionRecord
    OBVIOUS
  <1>3. c \in SessionRecord
    BY <1>2, Zenon DEF SessionRecord
  <1>4. /\ c.pending = pending /\ c.truncated = truncated /\ c.content = sess[s].content
        /\ c.txn = sess[s].txn /\ c.flag = sess[s].flag /\ c.started = sess[s].started
        /\ c.status = sess[s].status /\ c.rev = sess[s].rev /\ c.operation = sess[s].operation
    BY <1>2 DEF SessionRecord
  <1>5. sess' = [sess EXCEPT ![s] = c]
    BY Zenon DEF RawTypes
  <1> HIDE DEF c
  <1>6. /\ sess' \in [Sessions -> SessionRecord] /\ sess'[s] = c
        /\ \A x \in Sessions : x # s => sess'[x] = sess[x]
    BY <1>3, <1>5, Session_Put, Zenon
  <1>7. sess[s].content # {} => sess[s].txn \in Unfinished
    BY DEF LockInv, SessionOK
  <1> QED BY <1>4, <1>6, <1>7 DEF Touches

\* What request r has in the transaction is among the statements that
\* track_pending adds.
LEMMA Listed_Own ==
    ASSUME NEW r \in Reqs, req[r] \in RequestRecord, NEW i \in 1..Len(req[r].script),
           i <= (IF req[r].kind = "run" THEN req[r].done ELSE 1),
           req[r].kind # "run" => req[r].done = 0,
           \A j \in i..req[r].done : req[r].script[j] # "commit"
    PROVE  i \in Listed(r).new
  <1>1. req[r].done \in Nat /\ i \in Nat
    BY DEF RequestRecord
  <1>2. i <= req[r].done \/ (req[r].done = 0 /\ i <= 1)
    OBVIOUS
  <1>3. IF req[r].status = "succeeded" THEN req[r].done = 0 \/ i <= req[r].done
        ELSE i <= req[r].done + 1
    BY <1>1, <1>2
  <1>4. \A j \in 1..req[r].done : req[r].script[j] = "commit" => j < i
    BY <1>1
  <1> QED BY <1>3, <1>4 DEF Listed

\* The list that track_pending leaves, unless it is cut short, has all that is
\* in the transaction.
LEMMA Listed_All ==
    ASSUME RawInv, NEW r \in Reqs, req[r].pc = "track", NEW s, s = req[r].s,
           sess[s].operation = r, Listed(r).clear \/ ~sess[s].truncated,
           NEW x \in sess[s].content
    PROVE  \/ x \in (IF Listed(r).clear THEN {} ELSE sess[s].pending)
           \/ \E i \in Listed(r).new : x = <<r, i>>
  <1> LockInv /\ HeldOK(r) /\ TurnOK(r)
    BY Zenon DEF RawInv
  <1>2. req[r] \in RequestRecord
    BY Uses
  <1> /\ ~sess[s].truncated => sess[s].content \ Traces(r) \subseteq sess[s].pending
      /\ \A y \in sess[s].content \cap Traces(r) :
           /\ y \in Own(r) /\ y[2] <= (IF req[r].kind = "run" THEN req[r].done ELSE 1)
           /\ \A j \in y[2]..req[r].done : req[r].script[j] # "commit"
      /\ (\E j \in 1..req[r].done : req[r].script[j] = "commit") =>
           sess[s].content \subseteq Traces(r)
    BY Zenon DEF HeldOK
  <1>4. Listed(r).clear <=> \E j \in 1..req[r].done : req[r].script[j] = "commit"
    BY Zenon DEF Listed
  <1>5. CASE x \notin Traces(r)
    BY <1>4, <1>5, Zenon
  <1>6. CASE x \in Traces(r)
    <2>1. x \in Own(r)
      BY <1>6
    <2>2. PICK i \in 1..Len(req[r].script) : x = <<r, i>>
      BY <2>1 DEF Own
    <2>3. x[2] = i
      BY <2>2
    <2>4. /\ i <= (IF req[r].kind = "run" THEN req[r].done ELSE 1)
          /\ \A j \in i..req[r].done : req[r].script[j] # "commit"
      BY <1>6, <2>3
    <2>5. req[r].kind # "run" => req[r].done = 0
      BY Zenon DEF TurnOK
    <2>6. i \in Listed(r).new
      BY <1>2, <2>4, <2>5, Listed_Own, Zenon
    <2> QED BY <2>2, <2>6, Zenon
  <1> QED BY <1>5, <1>6

\* What track_pending adds are statements.
LEMMA Listed_Statements ==
    ASSUME NEW r \in Reqs, req[r] \in RequestRecord
    PROVE  Listed(r).new \subseteq Nat
  BY DEF Listed

\* A request that has come to its release.
LEMMA Tracks_Inv ==
    ASSUME RawInv, NEW r \in Reqs, req[r].pc = "track", NEW s, s = req[r].s,
           Goto(r, "release"), Touches(s), sess'[s].content = sess[s].content,
           UNCHANGED durable, OnlyConnection,
           sess[s].operation = r /\ ~sess'[s].truncated =>
             sess[s].content \subseteq sess'[s].pending
    PROVE  RawInv'
  <1> LockInv /\ RawTypes /\ WholeOK(r)
    BY Zenon DEF RawInv, LockInv
  <1>2. s \in Sessions
    BY Uses, Zenon
  <1> Becomes(r, "release", req[r].pos, req[r].done, req[r].err, req[r].status)
    BY Goto_Becomes, Zenon DEF Steps
  <1>4. TurnOK(r)'
    BY Turn_Leaves, Zenon
  <1>5. Whole(r) => /\ sess[s].content \cap Traces(r) = {}
                    /\ Own(r) \subseteq durable \/ durable \cap Traces(r) = {}
                    /\ req[r].status = "succeeded" => Own(r) \subseteq durable
                    /\ req[r].status \in {"cancelled", "failed"} => durable \cap Traces(r) = {}
    BY <1>2, Zenon DEF WholeOK
  <1>6. WholeOK(r)'
    BY <1>5, Whole_Ends, Zenon
  <1>7. HeldOK(r)'
    <2>1. req'[r].pc = "release" /\ req'[r].s = s /\ sess'[s].operation = sess[s].operation
      BY Zenon DEF Becomes, Touches
    <2> QED BY <2>1, Zenon DEF HeldOK
  <1>8. "release" \in Using \cup {"track", "release"} /\ "release" \notin Using
    BY Zenon DEF Using
  <1> QED BY <1>4, <1>6, <1>7, <1>8, Works_Inv, Zenon

\* track_pending lists what the run has left in the transaction.
LEMMA TrackPending_Inv ==
    ASSUME RawInv, NEW r \in Reqs, TrackPending(r)
    PROVE  RawInv'
  <1> DEFINE s == req[r].s
             listed == Listed(r)
             old == IF listed.clear THEN {} ELSE sess[s].pending
             kept == {i \in listed.new :
                        Cardinality(old) + Cardinality({j \in listed.new : j < i}) < MaximumPending}
  <1> /\ LockInv /\ RawTypes /\ req[r].pc = "track" /\ Goto(r, "release")
      /\ UNCHANGED durable /\ OnlyConnection
    BY DEF RawInv, LockInv, TrackPending
  <1> /\ s \in Sessions /\ sess[s] \in SessionRecord /\ req[r] \in RequestRecord
    BY Uses
  <1>3. sess[s].pending \subseteq Statements /\ sess[s].truncated \in BOOLEAN
    BY Session_Fields
  <1>4. sess' = IF sess[s].txn \in Unfinished
                THEN [sess EXCEPT ![s].pending = old \cup {<<r, i>> : i \in kept},
                                  ![s].truncated = (@ /\ ~listed.clear) \/ kept # listed.new]
                ELSE [sess EXCEPT ![s].pending = {}, ![s].truncated = FALSE]
    BY DEF TrackPending
  <1>5. kept \subseteq listed.new /\ listed.new \subseteq Nat
    BY Listed_Statements
  <1>6. \A x \in sess[s].content :
          sess[s].operation = r /\ (listed.clear \/ ~sess[s].truncated) =>
            x \in old \/ \E i \in listed.new : x = <<r, i>>
    BY Listed_All
  <1>7. old \subseteq Statements
    BY <1>3
  <1> HIDE DEF s, listed, old, kept
  <1>8. CASE sess[s].txn \in Unfinished
    <2> DEFINE pending == old \cup {<<r, i>> : i \in kept}
               truncated == (sess[s].truncated /\ ~listed.clear) \/ kept # listed.new
    <2>1. pending \in SUBSET Statements /\ truncated \in BOOLEAN
      BY <1>5, <1>7 DEF Statements
    <2>2. sess' = [sess EXCEPT ![s].pending = pending, ![s].truncated = truncated]
      BY <1>4, <1>8
    <2>3. sess[s].operation = r /\ ~truncated => sess[s].content \subseteq pending
      BY <1>6
    <2> HIDE DEF pending, truncated
    <2>4. /\ Touches(s) /\ sess'[s].content = sess[s].content
          /\ sess'[s].pending = pending /\ sess'[s].truncated = truncated
      BY <2>1, <2>2, Tracked_Session, Zenon
    <2> QED BY <2>3, <2>4, Tracks_Inv DEF s
  <1>9. CASE sess[s].txn \notin Unfinished
    <2>1. sess' = [sess EXCEPT ![s].pending = {}, ![s].truncated = FALSE]
      BY <1>4, <1>9
    <2>2. Touches(s) /\ sess'[s].content = sess[s].content
      BY <2>1, Tracked_Session, Zenon
    <2>3. sess[s].content = {}
      BY <1>9 DEF LockInv, SessionOK
    <2> QED BY <2>2, <2>3, Tracks_Inv, Zenon DEF s
  <1> QED BY <1>8, <1>9

=============================================================================
