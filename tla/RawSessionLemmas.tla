-------------------------- MODULE RawSessionLemmas --------------------------
(***************************************************************************)
(* The facts that the proofs about the database sessions of the console    *)
(* share: what a step leaves as it was and what it writes of its request.  *)
(***************************************************************************)
EXTENDS RawSessions, TLAPS

-----------------------------------------------------------------------------
(* The constants and the records *)

\* Nothing that is not there is a request or a session, and the limits are
\* numbers.
LEMMA Raw_Constants ==
    /\ None \notin Reqs /\ None \notin Sessions
    /\ MaximumLive \in Nat /\ MaximumOwned \in Nat
  BY RawAssumption

USE Raw_Constants

\* What there is of a session and of a request.
LEMMA Raw_Records ==
    ASSUME RawTypes
    PROVE  /\ \A s \in Sessions : sess[s] \in SessionRecord
           /\ \A r \in Reqs : req[r] \in RequestRecord
  BY DEF RawTypes

\* A session record keeps what an assignment to other fields does not name.
LEMMA Session_Fields ==
    ASSUME NEW c \in SessionRecord
    PROVE  /\ c.status \in {"none", "open", "running", "closed"} /\ c.rev \in Nat
           /\ c.operation \in Reqs \cup {None}
           /\ c.started \in BOOLEAN /\ c.cancelled \in BOOLEAN /\ c.flag \in BOOLEAN
           /\ c.txn \in Open \cup {"unknown", "closed"}
           /\ c.content \subseteq Statements /\ c.pending \subseteq Statements
           /\ c.truncated \in BOOLEAN
  BY DEF SessionRecord

\* The numbers of a request.
LEMMA Request_Numbers ==
    ASSUME NEW q \in RequestRecord
    PROVE  q.pos \in Nat /\ q.done \in Nat /\ Len(q.script) \in Nat
  BY DEF RequestRecord

\* Counting from nought and from one.
LEMMA Numbers ==
    ASSUME NEW n \in Nat
    PROVE  /\ 0 <= n /\ 1 >= 1 /\ 1 <= 1 /\ 0 = 1 - 1
           /\ n + 1 \in Nat /\ n + 1 > n /\ n + 1 >= n /\ n <= n + 1
           /\ 1..0 = {} /\ (1 <= n => n..0 = {})
           /\ \A i \in 1..n : i \in Nat /\ 1 <= i
  OBVIOUS

\* An assignment to one session.
LEMMA Session_Put ==
    ASSUME RawTypes, NEW s \in Sessions, NEW c \in SessionRecord,
           sess' = [sess EXCEPT ![s] = c]
    PROVE  /\ sess' \in [Sessions -> SessionRecord]
           /\ sess'[s] = c
           /\ \A x \in Sessions : x # s => sess'[x] = sess[x]
  BY DEF RawTypes

-----------------------------------------------------------------------------
(* What a step leaves as it was *)

\* A step that takes no session from the request that holds it.
Quiet(s) ==
    /\ sess[s].status # "none" => sess'[s].status = sess[s].status
    /\ sess'[s].operation = sess[s].operation
    /\ sess[s].started => sess'[s].started
    /\ sess[s].flag => sess'[s].flag

\* Such a step leaves RequestOK of a request that it does not touch.
LEMMA Quiet_Request ==
    ASSUME LockInv, NEW r \in Reqs, \A s \in Sessions : Quiet(s),
           req'[r].pc = req[r].pc, req'[r].s = req[r].s, req'[r].exp = req[r].exp,
           req'[r].stopped => \/ req[r].stopped
                              \/ /\ req[r].pc \notin {"idle", "reserve", "ticket"}
                                 /\ sess'[req[r].s].flag
    PROVE  RequestOK(r)'
  <1> RequestOK(r)
    BY DEF LockInv
  <1> DEFINE q == req[r]
  <1>2. q.pc # "idle" \/ q.exp # 0 =>
          /\ q.s \in Sessions /\ sess[q.s].status # "none"
          /\ sess'[q.s].status = sess[q.s].status /\ sess'[q.s].operation = sess[q.s].operation
          /\ sess[q.s].started => sess'[q.s].started
          /\ sess[q.s].flag => sess'[q.s].flag
    BY DEF RequestOK, Quiet
  <1>3. q.pc \in Using \cup {"start", "track", "release"} => q.pc # "idle"
    BY DEF Using
  <1>4. \A s \in Sessions : sess'[s].operation = sess[s].operation
    BY DEF Quiet
  <1>5. q.pc \in {"idle", "reserve", "ticket"} => ~req'[r].stopped
    BY DEF RequestOK
  <1>6. req'[r].stopped /\ sess'[q.s].operation = r => sess'[q.s].flag
    BY <1>2, <1>5 DEF RequestOK
  <1> QED BY <1>2, <1>3, <1>4, <1>5, <1>6 DEF RequestOK, Using

\* A request that uses a connection.
LEMMA Uses ==
    ASSUME LockInv, NEW r \in Reqs, req[r].pc \in Using \cup {"start", "track", "release"}
    PROVE  LET s == req[r].s IN
           /\ s \in Sessions /\ sess[s] \in SessionRecord /\ req[r] \in RequestRecord
           /\ sess[s].status # "none"
           /\ sess[s].operation = r \/ sess[s].status = "closed"
           /\ sess[s].operation = r <=> sess[s].status # "closed"
           /\ sess[s].operation = None <=> sess[s].status = "closed"
           /\ sess[s].status \in {"running", "closed"}
           /\ req[r].pc \in Using => sess[s].operation = r /\ sess[s].started
  <1> RawTypes /\ RequestOK(r)
    BY DEF LockInv
  <1>2. req[r].pc # "idle"
    BY DEF Using
  <1> req[r].s \in Sessions /\ sess[req[r].s].status # "none"
    BY <1>2 DEF RequestOK
  <1>4. sess[req[r].s].operation = r \/ sess[req[r].s].status = "closed"
    BY DEF RequestOK
  <1>5. SessionOK(req[r].s)
    BY DEF LockInv
  <1>6. sess[req[r].s].status = "running" <=> sess[req[r].s].operation # None
    BY <1>5 DEF SessionOK
  <1>7. sess[req[r].s] \in SessionRecord /\ req[r] \in RequestRecord
    BY Raw_Records
  <1>8. req[r].pc \in Using => sess[req[r].s].operation = r /\ sess[req[r].s].started
    BY DEF RequestOK
  <1> QED BY <1>4, <1>6, <1>7, <1>8

\* What a request may send depends on its task alone.
LEMMA Same_Script ==
    ASSUME NEW r \in Reqs, req'[r].kind = req[r].kind, req'[r].mode = req[r].mode,
           req'[r].script = req[r].script
    PROVE  Own(r)' = Own(r) /\ Whole(r)' = Whole(r) /\ Mode(r)' = Mode(r)
  BY DEF Own, Whole, Mode

\* The statements of a request are its own.
LEMMA Own_Traces ==
    ASSUME NEW r \in Reqs
    PROVE  Own(r) \subseteq Traces(r) /\ Traces(r) \subseteq Statements
  BY DEF Own, Traces, Statements

\* A revision is not before itself.
LEMMA Not_Before ==
    ASSUME NEW n \in Nat
    PROVE  n >= n /\ n <= n
  OBVIOUS

\* Nothing happens to request r but that it is told to stop, or not allowed.
Same(r) ==
    /\ req'[r].pc = req[r].pc /\ req'[r].s = req[r].s /\ req'[r].kind = req[r].kind
    /\ req'[r].mode = req[r].mode /\ req'[r].script = req[r].script
    /\ req'[r].exp = req[r].exp /\ req'[r].seen = req[r].seen /\ req'[r].partly = req[r].partly
    /\ req'[r].pos = req[r].pos /\ req'[r].done = req[r].done
    /\ req'[r].err = req[r].err /\ req'[r].status = req[r].status

SameSession(s) ==
    /\ sess'[s].txn = sess[s].txn /\ sess'[s].content = sess[s].content
    /\ sess'[s].pending = sess[s].pending /\ sess'[s].truncated = sess[s].truncated
    /\ sess'[s].rev = sess[s].rev /\ sess'[s].status = sess[s].status
    /\ sess'[s].operation = sess[s].operation

\* A review of session s is of an earlier revision, unless it is closed.
Later(s) ==
    /\ sess'[s].rev >= sess[s].rev
    /\ sess'[s].status = "open" => sess'[s].rev > sess[s].rev

\* Request r does not use session s, and a review of it is out of date.
NotHeld(s, r) ==
    /\ sess[s].operation = r => ~sess[s].started
    /\ sess'[s].operation # r /\ Later(s)

\* A review is of the revision that it names, and remains it.
LEMMA Review_Stays ==
    ASSUME LockInv, NEW r \in Reqs, TurnOK(r), sess' \in [Sessions -> SessionRecord],
           req[r].exp # 0, SameSession(req[r].s) \/ Later(req[r].s)
    PROVE  /\ req[r].exp <= sess'[req[r].s].rev
           /\ sess'[req[r].s].status = "open" /\ req[r].exp = sess'[req[r].s].rev =>
                req[r].seen = sess'[req[r].s].pending /\ req[r].partly = sess'[req[r].s].truncated
  <1>1. req[r].s \in Sessions /\ req[r].exp <= sess[req[r].s].rev
    BY DEF TurnOK, LockInv, RequestOK
  <1>2. req[r].exp \in Nat /\ sess[req[r].s].rev \in Nat /\ sess'[req[r].s].rev \in Nat
    <2>1. req[r] \in RequestRecord /\ sess[req[r].s] \in SessionRecord
          /\ sess'[req[r].s] \in SessionRecord
      BY <1>1, Raw_Records DEF LockInv
    <2> QED BY <2>1 DEF RequestRecord, SessionRecord
  <1>3. CASE SameSession(req[r].s)
    BY <1>3 DEF SameSession, TurnOK
  <1>4. CASE Later(req[r].s)
    BY <1>1, <1>2, <1>4 DEF Later
  <1> QED BY <1>3, <1>4

\* What is true of a request that a step is not about remains true.
LEMMA Aside ==
    ASSUME RawInv, NEW r \in Reqs, Same(r), sess' \in [Sessions -> SessionRecord],
           Whole(r) \/ req[r].pc = "idle" =>
             durable' \cap Traces(r) = durable \cap Traces(r),
           \A x \in Sessions : sess'[x].content \cap Traces(r) \subseteq sess[x].content,
           req[r].pc # "idle" \/ req[r].exp # 0 =>
             SameSession(req[r].s) \/ NotHeld(req[r].s, r)
    PROVE  TurnOK(r)' /\ WholeOK(r)' /\ HeldOK(r)'
  <1> LockInv /\ RawTypes /\ RequestOK(r) /\ TurnOK(r) /\ WholeOK(r) /\ HeldOK(r)
    BY DEF RawInv, LockInv
  <1> Own(r)' = Own(r) /\ Whole(r)' = Whole(r)
    BY Same_Script DEF Same
  <1>3. \A x \in Sessions : sess[x].content \cap Traces(r) = {} =>
                            sess'[x].content \cap Traces(r) = {}
    OBVIOUS
  <1>4. req[r].pc # "idle" \/ req[r].exp # 0 => req[r].s \in Sessions
    BY DEF RequestOK
  <1>5. TurnOK(r)'
    <2>1. req[r].exp # 0 =>
            /\ req[r].exp <= sess'[req[r].s].rev
            /\ sess'[req[r].s].status = "open" /\ req[r].exp = sess'[req[r].s].rev =>
                 req[r].seen = sess'[req[r].s].pending /\ req[r].partly = sess'[req[r].s].truncated
      BY Review_Stays DEF NotHeld
    <2> QED BY <1>3, <2>1 DEF TurnOK, Same
  <1>6. req[r].pc \in Using => SameSession(req[r].s)
    <2>1. req[r].pc \in Using => ~NotHeld(req[r].s, r) /\ req[r].pc # "idle"
      BY DEF RequestOK, NotHeld, Using
    <2> QED BY <2>1
  <1>7. WholeOK(r)'
    <2>1. CASE ~Whole(r)
      BY <2>1 DEF WholeOK, Same
    <2>2. CASE Whole(r)
      <3>1. durable' \cap Traces(r) = durable \cap Traces(r) /\ Own(r) \subseteq Traces(r)
        BY <2>2, Own_Traces
      <3>2. /\ Own(r) \subseteq durable' <=> Own(r) \subseteq durable
            /\ durable' \cap Traces(r) = {} <=> durable \cap Traces(r) = {}
        BY <3>1
      <3>3. \A s \in Sessions : sess'[s].content \cap Traces(r) # {} =>
              req[r].s = s /\ req[r].pc \in {"check", "commit", "except"}
        BY <1>3, <2>2 DEF WholeOK
      <3>4. /\ req[r].pc = "statement" => sess'[req[r].s].txn = "intrans"
            /\ req[r].pc \in {"check", "commit"} =>
                 req[r].err # "lost" /\ (req[r].err = "none" => Own(r) \subseteq sess'[req[r].s].content)
        BY <1>6, <2>2 DEF WholeOK, SameSession, Using
      <3> QED BY <2>2, <3>2, <3>3, <3>4, SMTT(15), Z3T(15), ZenonT(40) DEF WholeOK, Same
    <2> QED BY <2>1, <2>2
  <1>8. HeldOK(r)'
    <2>1. SUFFICES ASSUME req[r].pc \in Using \cup {"start", "track", "release"},
                          sess'[req[r].s].operation = r
                   PROVE  HeldOK(r)'
      BY Zenon DEF HeldOK, Same
    <2>2. SameSession(req[r].s)
      BY <2>1 DEF NotHeld, Using
    <2> QED BY <2>1, <2>2, ZenonT(40), SMTT(15) DEF HeldOK, Same, SameSession
  <1> QED BY <1>5, <1>7, <1>8

-----------------------------------------------------------------------------
(* What a step writes of its request *)

\* Request r goes on to a step, with what it has sent and how it fares.
Becomes(r, pc, pos, done, err, status) ==
    /\ req' \in [Reqs -> RequestRecord]
    /\ \A o \in Reqs : o # r => req'[o] = req[o]
    /\ req'[r].pc = pc /\ req'[r].pos = pos /\ req'[r].done = done
    /\ req'[r].err = err /\ req'[r].status = status
    /\ req'[r].s = req[r].s /\ req'[r].kind = req[r].kind /\ req'[r].mode = req[r].mode
    /\ req'[r].script = req[r].script /\ req'[r].exp = req[r].exp
    /\ req'[r].seen = req[r].seen /\ req'[r].partly = req[r].partly
    /\ req'[r].stopped = req[r].stopped

\* An assignment to one request.
LEMMA Request_Put ==
    ASSUME RawTypes, NEW r \in Reqs, NEW q \in RequestRecord,
           req' = [req EXCEPT ![r] = q],
           q.s = req[r].s, q.kind = req[r].kind, q.mode = req[r].mode,
           q.script = req[r].script, q.exp = req[r].exp, q.seen = req[r].seen,
           q.partly = req[r].partly, q.stopped = req[r].stopped
    PROVE  Becomes(r, q.pc, q.pos, q.done, q.err, q.status)
  <1>1. /\ req' \in [Reqs -> RequestRecord] /\ req'[r] = q
        /\ \A o \in Reqs : o # r => req'[o] = req[o]
    BY DEF RawTypes
  <1> QED BY <1>1 DEF Becomes

Steps == Using \cup {"idle", "reserve", "ticket", "start", "track", "release", "done"}

\* A request that goes on from step to step, ends, or meets an error.
GoesTo(r, pc) == Becomes(r, pc, req[r].pos, req[r].done, req[r].err, req[r].status)

\* A step that only moves the request on.
LEMMA Goto_Becomes ==
    ASSUME RawTypes, NEW r \in Reqs, NEW pc \in Steps, Goto(r, pc)
    PROVE  Becomes(r, pc, req[r].pos, req[r].done, req[r].err, req[r].status)
  <1> DEFINE q == [req[r] EXCEPT !.pc = pc]
  <1>1. req[r] \in RequestRecord /\ req' = [req EXCEPT ![r] = q]
    BY DEF RawTypes, Goto
  <1>2. req[r] \in RequestRecord
    BY <1>1
  <1>3. q \in RequestRecord
    BY <1>2 DEF RequestRecord, Steps
  <1>4. /\ q.pc = pc /\ q.pos = req[r].pos /\ q.done = req[r].done /\ q.err = req[r].err
        /\ q.status = req[r].status
        /\ q.s = req[r].s /\ q.kind = req[r].kind /\ q.mode = req[r].mode
        /\ q.script = req[r].script /\ q.exp = req[r].exp /\ q.seen = req[r].seen
        /\ q.partly = req[r].partly /\ q.stopped = req[r].stopped
    BY <1>2 DEF RequestRecord
  <1> HIDE DEF q
  <1>5. Becomes(r, q.pc, q.pos, q.done, q.err, q.status)
    BY <1>1, <1>3, <1>4, Request_Put, Zenon
  <1> QED BY <1>4, <1>5

\* A step that moves the request on and writes its status.
LEMMA Status_Becomes ==
    ASSUME RawTypes, NEW r \in Reqs, NEW pc \in Steps,
           NEW status \in {"none", "reserved", "succeeded", "failed", "cancelled", "uncertain"},
           req' = [req EXCEPT ![r].pc = pc, ![r].status = status]
    PROVE  Becomes(r, pc, req[r].pos, req[r].done, req[r].err, status)
  <1> DEFINE q == [req[r] EXCEPT !.pc = pc, !.status = status]
  <1>1. req[r] \in RequestRecord /\ req' = [req EXCEPT ![r] = q]
    BY Zenon DEF RawTypes
  <1>2. req[r] \in RequestRecord
    BY <1>1
  <1>3. q \in RequestRecord
    BY <1>2, ZenonT(40) DEF RequestRecord, Steps
  <1>4. /\ q.pc = pc /\ q.pos = req[r].pos /\ q.done = req[r].done /\ q.err = req[r].err
        /\ q.status = status
        /\ q.s = req[r].s /\ q.kind = req[r].kind /\ q.mode = req[r].mode
        /\ q.script = req[r].script /\ q.exp = req[r].exp /\ q.seen = req[r].seen
        /\ q.partly = req[r].partly /\ q.stopped = req[r].stopped
    BY <1>2 DEF RequestRecord
  <1> HIDE DEF q
  <1>5. Becomes(r, q.pc, q.pos, q.done, q.err, q.status)
    BY <1>1, <1>3, <1>4, Request_Put, Zenon
  <1> QED BY <1>4, <1>5

=============================================================================
