-------------------------- MODULE AssistantProofs ---------------------------
(***************************************************************************)
(* Proofs that the effect of a proposal happens at most once and that      *)
(* decisions hold, for every number of turns, proposals, tasks, requests   *)
(* and faults: the inductive invariant of a conversation, the steps of its *)
(* turns and requests, which leave every operation alone, and the others.  *)
(***************************************************************************)
EXTENDS Assistant, TLAPS

\* The actor executes the proposal it holds.
Executing(a) == act[a].pc \in {"authorize", "effect", "done", "failed"}

\* What an actor between begin_operation and finish_operation can rely on.
Owns(a) ==
    LET p == act[a].p IN
    /\ prop[p].status \in {"executing", "gone"}
    /\ chat.status # "deleted" => prop[p].status = "executing" /\ op[p] = "running"
    /\ act[a].pc \in {"authorize", "effect"} => applied[p] = 0
    /\ act[a].pc = "done" => applied[p] = 1

OwnersHold ==
    \A a \in Actors :
        /\ act[a].pc \in {"review", "begin"} \/ Executing(a) => act[a].p \in Proposals
        /\ a \in Tasks /\ act[a].pc # "idle" => act[a].turn \in Turns
        /\ act[a].pc = "resume" => act[a].turn \in Turns
        /\ Executing(a) => Owns(a)
        /\ \A b \in Actors : Executing(a) /\ Executing(b) /\ act[a].p = act[b].p => a = b

\* A proposal belongs to a turn; one that nobody began has no operation and no
\* stopped turn; and deletion takes every row.
RowsHold ==
    /\ \A p \in Proposals :
         /\ prop[p].status \notin {"none", "gone"} => prop[p].turn \in Turns
         /\ prop[p].status \in {"none", "pending"} => op[p] = "none"
         /\ prop[p].status = "pending" => turn[prop[p].turn].status # "cancelled"
         /\ prop[p].status = "gone" => chat.status = "deleted"
    /\ chat.status = "deleted" =>
         /\ \A t \in Turns : turn[t].status = "gone"
         /\ \A p \in Proposals : op[p] = "gone" /\ prop[p].status = "gone"

AssistantInv == TypeOK /\ OwnersHold /\ RowsHold /\ AppliedOnce

-----------------------------------------------------------------------------
(* What a step may do *)

\* The actors keep what they execute, or end it.
ActorsCalm ==
    /\ act' \in [Actors -> Actor]
    /\ \A b \in Actors :
         /\ Executing(b)' => act'[b].pc = act[b].pc /\ act'[b].p = act[b].p
         /\ act'[b].pc \in {"review", "begin"} => act'[b].p \in Proposals
         /\ b \in Tasks /\ act'[b].pc # "idle" => act'[b].turn \in Turns
         /\ act'[b].pc = "resume" => act'[b].turn \in Turns

\* The turns move, and a stopped turn leaves no pending proposal.
TurnsMove ==
    /\ turn' \in [Turns -> TurnRow]
    /\ \A t \in Turns :
         \/ turn'[t].status = turn[t].status
         \/ /\ turn[t].status \in Active \cup {"none"}
            /\ turn'[t].status = "cancelled" =>
                 \A p \in Proposals : prop[p].turn = t => prop'[p].status # "pending"

\* Pending proposals are dismissed or expire.
ProposalsEnd ==
    /\ prop' \in [Proposals -> ProposalRow]
    /\ \A p \in Proposals :
         \/ prop'[p] = prop[p]
         \/ /\ prop[p].status = "pending" /\ prop'[p].status \in {"dismissed", "expired"}
            /\ prop'[p].turn = prop[p].turn

ChatStays ==
    /\ chat' \in ChatRow
    /\ chat'.status = "deleted" <=> chat.status = "deleted"

RestOK == design' \in Nat /\ full' \in BOOLEAN /\ left' \in [Bounds -> Nat]

\* A step that neither begins, performs nor ends an operation.
LEMMA QuietStep ==
  ASSUME AssistantInv, ActorsCalm, TurnsMove, ProposalsEnd, ChatStays, RestOK,
         op' = op, applied' = applied
  PROVE  AssistantInv' /\ KeepsDecisions
  <1>1. TypeOK'
    BY DEF AssistantInv, TypeOK, ActorsCalm, TurnsMove, ProposalsEnd, ChatStays, RestOK
  <1>2. OwnersHold'
    <2> SUFFICES ASSUME NEW a \in Actors
                 PROVE  /\ Executing(a)' =>
                             act'[a].p \in Proposals /\ Owns(a)'
                        /\ \A b \in Actors :
                             Executing(a)' /\ Executing(b)' /\ act'[a].p = act'[b].p => a = b
      BY DEF OwnersHold, ActorsCalm
    <2>1. \A b \in Actors : Executing(b)' => 
             /\ Executing(b) /\ act'[b].pc = act[b].pc /\ act'[b].p = act[b].p
      BY DEF ActorsCalm, Executing
    <2>2. \A b \in Actors : Executing(b) => act[b].p \in Proposals /\ Owns(b)
      BY DEF AssistantInv, OwnersHold
    <2>3. ASSUME Executing(a)' PROVE Owns(a)'
      <3>1. Executing(a) /\ act'[a].pc = act[a].pc /\ act'[a].p = act[a].p
        BY <2>1, <2>3
      <3>2. act[a].p \in Proposals /\ Owns(a)
        BY <3>1, <2>2
      <3>3. prop'[act[a].p] = prop[act[a].p]
        BY <3>2 DEF ProposalsEnd, Owns
      <3> QED
        BY <3>1, <3>2, <3>3 DEF Owns, ChatStays
    <2> QED
      BY <2>1, <2>2, <2>3 DEF AssistantInv, OwnersHold
  <1>3. RowsHold'
    <2>1. ASSUME NEW p \in Proposals
          PROVE  /\ prop'[p].status \notin {"none", "gone"} => prop'[p].turn \in Turns
                 /\ prop'[p].status \in {"none", "pending"} => op'[p] = "none"
                 /\ prop'[p].status = "gone" => chat'.status = "deleted"
      BY DEF AssistantInv, RowsHold, ProposalsEnd, ChatStays
    <2>2. ASSUME NEW p \in Proposals, prop'[p].status = "pending"
          PROVE  turn'[prop'[p].turn].status # "cancelled"
      <3>1. prop'[p] = prop[p] /\ prop[p].turn \in Turns
        BY <2>2 DEF AssistantInv, RowsHold, ProposalsEnd
      <3> QED
        BY <2>2, <3>1 DEF AssistantInv, RowsHold, TurnsMove
    <2>3. ASSUME chat'.status = "deleted"
          PROVE  /\ \A t \in Turns : turn'[t].status = "gone"
                 /\ \A p \in Proposals : op'[p] = "gone" /\ prop'[p].status = "gone"
      <3>1. /\ \A t \in Turns : turn[t].status = "gone"
            /\ \A p \in Proposals : op[p] = "gone" /\ prop[p].status = "gone"
        BY <2>3 DEF AssistantInv, RowsHold, ChatStays
      <3> QED
        BY <3>1 DEF TurnsMove, ProposalsEnd, Active
    <2> QED
      BY <2>1, <2>2, <2>3 DEF RowsHold
  <1>4. AppliedOnce'
    BY DEF AssistantInv, AppliedOnce, ProposalsEnd
  <1>5. KeepsDecisions
    BY DEF KeepsDecisions, ProposalsEnd, TurnsMove, Unresolved
  <1> QED
    BY <1>1, <1>2, <1>3, <1>4, <1>5 DEF AssistantInv

-----------------------------------------------------------------------------
(* How the actors change *)

\* One actor takes a new value that starts no operation.
LEMMA ActorUpdate ==
  ASSUME AssistantInv, NEW a \in Actors, NEW r \in Actor,
         act' = [act EXCEPT ![a] = r],
         r.pc \in {"authorize", "effect", "done", "failed"} =>
           r.pc = act[a].pc /\ r.p = act[a].p,
         r.pc \in {"review", "begin"} => r.p \in Proposals,
         a \in Tasks /\ r.pc # "idle" => r.turn \in Turns,
         r.pc = "resume" => r.turn \in Turns
  PROVE  ActorsCalm
  BY DEF AssistantInv, TypeOK, OwnersHold, ActorsCalm, Executing

\* An actor that is not executing goes on to a step that executes nothing.
LEMMA GotoCalm ==
  ASSUME AssistantInv, NEW a \in Actors, a \in Tasks, act[a].pc # "idle",
         NEW pc \in {"model", "tools", "pause", "park", "parked", "answer", "fail"},
         Goto(a, pc)
  PROVE  ActorsCalm
  <1> DEFINE r == [act[a] EXCEPT !.pc = pc]
  <1>2. act[a] \in Actor /\ act[a].turn \in Turns
    BY DEF AssistantInv, TypeOK, OwnersHold
  <1>3. /\ r \in Actor /\ r.pc = pc /\ r.turn = act[a].turn
        /\ act' = [act EXCEPT ![a] = r]
    BY <1>2 DEF Actor, ActorSteps, Goto
  <1> HIDE DEF r
  <1> QED
    BY <1>2, <1>3, ActorUpdate, Zenon

\* A task or request that moves on stays one.
LEMMA ActorPc ==
  ASSUME NEW x \in Actor, NEW pc \in ActorSteps
  PROVE  /\ [x EXCEPT !.pc = pc] \in Actor
         /\ [x EXCEPT !.pc = pc].pc = pc
         /\ [x EXCEPT !.pc = pc].p = x.p
         /\ [x EXCEPT !.pc = pc].turn = x.turn
  BY DEF Actor

\* A task or request that does nothing.
LEMMA IdleActor == Idle \in Actor /\ Idle.pc = "idle"
  BY AssistantAssumption DEF Idle, Actor, ActorSteps, Policies

\* A task or request that ends leaves who owns an operation as it was.
LEMMA ExitCalm ==
  ASSUME AssistantInv, NEW a \in Actors, Exit(a)
  PROVE  ActorsCalm
  BY ActorUpdate, IdleActor, Zenon DEF Exit

\* A call that ended.
LEMMA EndedCalm ==
  ASSUME AssistantInv, NEW a \in Actors, act[a].pc # "idle", act' = Ended(a)
  PROVE  ActorsCalm /\ ~Executing(a)'
  <1>1. act[a] \in Actor /\ (a \in Tasks => act[a].turn \in Turns) /\ a \in Tasks \cup Requests
    BY DEF AssistantInv, TypeOK, OwnersHold, Actors
  <1>2. CASE a \in Requests
    <2> DEFINE r == [Idle EXCEPT !.pc = "ready"]
    <2>1. r \in Actor /\ r.pc = "ready" /\ act' = [act EXCEPT ![a] = r] /\ a \notin Tasks
      BY <1>2, IdleActor, AssistantAssumption DEF Actor, ActorSteps, Ended
    <2> HIDE DEF r
    <2> QED
      BY <2>1, ActorUpdate, Zenon DEF AssistantInv, TypeOK, Executing
  <1>3. CASE a \notin Requests
    <2> DEFINE r == [act[a] EXCEPT !.pc = IF Authorized(a) THEN "tools" ELSE "fail",
                                   !.p = 0, !.want = 0]
    <2>1. /\ r \in Actor /\ r.pc \in {"tools", "fail"} /\ r.turn \in Turns
          /\ act' = [act EXCEPT ![a] = r]
      BY <1>1, <1>3, Zenon DEF Actor, ActorSteps, Ended
    <2> HIDE DEF r
    <2> QED
      BY <2>1, ActorUpdate, Zenon DEF AssistantInv, TypeOK, Executing
  <1> QED
    BY <1>2, <1>3

\* A batch goes on with its next item, or ends.
LEMMA CompletedCalm ==
  ASSUME AssistantInv, NEW a \in Actors, act[a].pc # "idle", NEW w \in Nat,
         act' = Completed(a, w)
  PROVE  ActorsCalm /\ ~Executing(a)'
  <1>1. CASE act[a].items = <<>>
    BY <1>1, EndedCalm DEF Completed
  <1>2. CASE act[a].items # <<>>
    <2> DEFINE r == [act[a] EXCEPT !.pc = "review", !.p = Head(act[a].items),
                                   !.items = Tail(act[a].items), !.want = w]
    <2>1. act[a] \in Actor /\ (a \in Tasks => act[a].turn \in Turns)
      BY DEF AssistantInv, TypeOK, OwnersHold, Actors
    <2>2. Head(act[a].items) \in Proposals /\ Tail(act[a].items) \in Seq(Proposals)
      BY <1>2, <2>1 DEF Actor
    <2>3. /\ r \in Actor /\ r.pc = "review" /\ r.p \in Proposals
          /\ r.turn = act[a].turn
      BY <2>1, <2>2, Zenon DEF Actor, ActorSteps
    <2>4. act' = [act EXCEPT ![a] = r]
      BY <1>2, <2>1, Zenon DEF Completed, AssistantInv, TypeOK, Actor
    <2> HIDE DEF r
    <2> QED
      BY <2>1, <2>3, <2>4, ActorUpdate, Zenon DEF AssistantInv, TypeOK, Executing
  <1> QED
    BY <1>1, <1>2

\* A new task runs the turn.
LEMMA DispatchCalm ==
  ASSUME AssistantInv, NEW t \in Turns, NEW others,
         others \in [Actors -> Actor],
         \A b \in Actors : others[b] = act[b] \/ others[b] = Idle,
         Dispatch(t, others)
  PROVE  ActorsCalm
  <1>1. PICK k \in Tasks : act' = [others EXCEPT ![k] = [Idle EXCEPT !.pc = "start", !.turn = t]]
    BY Zenon DEF Dispatch, Free
  <1> DEFINE r == [Idle EXCEPT !.pc = "start", !.turn = t]
  <1>2. r \in Actor /\ r.pc = "start" /\ r.turn = t /\ act' = [others EXCEPT ![k] = r]
    BY <1>1, IdleActor, Zenon DEF Actor, ActorSteps
  <1> HIDE DEF r
  <1>3. act' \in [Actors -> Actor] /\ \A b \in Actors : act'[b] \in {act[b], Idle, r}
    BY <1>2, Zenon
  <1>4. \A b \in Actors : act[b].pc # "idle" /\ b \in Tasks => act[b].turn \in Turns
    BY DEF AssistantInv, OwnersHold
  <1> QED
    BY <1>2, <1>3, <1>4, IdleActor DEF AssistantInv, OwnersHold, ActorsCalm, Executing

-----------------------------------------------------------------------------
(* How the rows change *)

\* What a step leaves unchanged keeps what the invariant says of it.
LEMMA Frame ==
  ASSUME AssistantInv
  PROVE  /\ UNCHANGED turn => TurnsMove
         /\ UNCHANGED prop => ProposalsEnd
         /\ UNCHANGED chat => ChatStays
         /\ UNCHANGED <<design, full, left>> => RestOK
         /\ UNCHANGED act => ActorsCalm
  BY DEF AssistantInv, TypeOK, OwnersHold, TurnsMove, ProposalsEnd, ChatStays, RestOK,
         ActorsCalm, Executing

\* A bounded event is used up.
LEMMA Spent ==
  ASSUME AssistantInv, NEW b \in Bounds, Spend(b)
  PROVE  left' \in [Bounds -> Nat]
  BY DEF AssistantInv, TypeOK, Spend

\* A turn in progress takes its next status; there is one only in a chat.
LEMMA TurnUpdate ==
  ASSUME AssistantInv, NEW t \in Turns, NEW s \in TurnStatus, SetTurn(t, s),
         turn[t].status \in Active \cup {"none"}, s # "cancelled"
  PROVE  TurnsMove /\ chat.status # "deleted"
  <1>1. turn \in [Turns -> TurnRow] /\ chat.status # "deleted"
    BY DEF AssistantInv, TypeOK, RowsHold, Active
  <1> DEFINE r == [turn[t] EXCEPT !.status = s]
  <1>2. r \in TurnRow /\ r.status = s
    BY <1>1 DEF TurnRow
  <1>3. turn' = [turn EXCEPT ![t] = r]
    BY <1>1 DEF SetTurn
  <1> HIDE DEF r
  <1> QED
    BY <1>1, <1>2, <1>3 DEF TurnsMove

\* The status of the conversation is written.
LEMMA ChatUpdate ==
  ASSUME AssistantInv, chat.status # "deleted",
         NEW s \in {"idle", "working", "waiting", "failed"}, SetChat(s)
  PROVE  ChatStays
  BY DEF AssistantInv, TypeOK, ChatRow, SetChat, ChatStays

\* The row of the conversation is written with a new policy or model.
LEMMA ChatRevised ==
  ASSUME AssistantInv, NEW pol \in Policies,
         \/ chat' = [chat EXCEPT !.rev = @ + 1]
         \/ chat' = [chat EXCEPT !.rev = @ + 1, !.pol = pol]
  PROVE  ChatStays
  <1>1. chat \in ChatRow /\ chat.rev + 1 \in Nat
    BY DEF AssistantInv, TypeOK, ChatRow
  <1> QED
    BY <1>1, Zenon DEF ChatRow, ChatStays

\* Proposals that are dismissed are resolved.
LEMMA DismissedEnd ==
  ASSUME AssistantInv, NEW S, prop' = Dismissed(S)
  PROVE  /\ ProposalsEnd
         /\ \A p \in S \cap Proposals : prop'[p].status # "pending"
  <1>1. prop \in [Proposals -> ProposalRow]
    BY DEF AssistantInv, TypeOK
  <1>2. ASSUME NEW p \in Proposals
        PROVE  /\ prop'[p] \in ProposalRow
               /\ \/ prop'[p] = prop[p] /\ (p \in S => prop[p].status # "pending")
                  \/ /\ prop[p].status = "pending" /\ prop'[p].status = "dismissed"
                     /\ prop'[p].turn = prop[p].turn
    <2> DEFINE q == [prop[p] EXCEPT !.status = "dismissed"]
    <2>1. q \in ProposalRow /\ q.status = "dismissed" /\ q.turn = prop[p].turn
      BY <1>1 DEF ProposalRow, ProposalStatus
    <2>2. \/ prop'[p] = prop[p] /\ (p \in S => prop[p].status # "pending")
          \/ prop[p].status = "pending" /\ prop'[p] = q
      BY DEF Dismissed
    <2> HIDE DEF q
    <2> QED
      BY <1>1, <2>1, <2>2
  <1>3. prop' = [p \in Proposals |-> prop'[p]]
    BY DEF Dismissed
  <1> QED
    BY <1>2, <1>3 DEF ProposalsEnd

-----------------------------------------------------------------------------
(* The steps of a turn *)

\* run_turn takes up a turn.
LEMMA ClaimStep ==
  ASSUME AssistantInv, NEW a \in Tasks, Claim(a)
  PROVE  AssistantInv' /\ KeepsDecisions
  <1> DEFINE t == act[a].turn
             r == [act[a] EXCEPT !.pc = IF Open(t) # {} THEN "pause" ELSE "model",
                                 !.rev = chat.rev, !.pol = chat.pol,
                                 !.pend = Open(t), !.rounds = turn[t].rounds]
  <1>1. a \in Actors /\ act[a] \in Actor /\ act[a].pc = "start" /\ t \in Turns
    BY DEF AssistantInv, TypeOK, OwnersHold, Claim, Actors
  <1>2. ProposalsEnd /\ ChatStays /\ RestOK /\ op' = op /\ applied' = applied
    BY Frame DEF Claim
  <1>3. CASE turn[t].status = "queued"
    <2>1. TurnsMove
      BY <1>1, <1>3, TurnUpdate DEF Claim, TurnStatus, Active
    <2>2. chat \in ChatRow /\ turn[t] \in TurnRow /\ Open(t) \subseteq Proposals
      BY <1>1 DEF AssistantInv, TypeOK, TurnRow, Open
    <2>3. r \in Actor /\ r.pc \in {"pause", "model"} /\ r.turn = t
      BY <1>1, <2>2, Zenon DEF Actor, ActorSteps, ChatRow, TurnRow
    <2>4. act' = [act EXCEPT ![a] = r]
      BY <1>1, <1>3 DEF Claim, AssistantInv, TypeOK
    <2>5. ActorsCalm
      <3> HIDE DEF r
      <3> QED
        BY <1>1, <2>3, <2>4, ActorUpdate, Zenon
    <2> QED
      BY <1>2, <2>1, <2>5, QuietStep
  <1>4. CASE turn[t].status # "queued"
    BY <1>1, <1>2, <1>4, Frame, ExitCalm, QuietStep DEF Claim
  <1> QED
    BY <1>3, <1>4

\* The provider answers, fails or calls tools.
LEMMA ReplyStep ==
  ASSUME AssistantInv, NEW a \in Tasks,
         WorkflowFails(a) \/ Reply(a) \/ EndCalls(a)
  PROVE  AssistantInv' /\ KeepsDecisions
  <1>1. a \in Actors /\ act[a] \in Actor /\ act[a].pc # "idle" /\ act[a].turn \in Turns
    BY DEF AssistantInv, TypeOK, OwnersHold, WorkflowFails, Reply, EndCalls, Actors
  <1>2. /\ ProposalsEnd /\ ChatStays /\ RestOK /\ TurnsMove
        /\ op' = op /\ applied' = applied
    BY Frame DEF WorkflowFails, Reply, EndCalls
  <1>3. CASE \E pc \in {"fail", "answer", "pause", "model"} : Goto(a, pc)
    BY <1>1, <1>2, <1>3, GotoCalm, QuietStep
  <1>4. CASE /\ act[a].rounds < MaxRounds
             /\ act' = [act EXCEPT ![a].pc = "tools", ![a].rounds = @ + 1,
                                   ![a].grouped = FALSE]
    <2> DEFINE r == [act[a] EXCEPT !.pc = "tools", !.rounds = @ + 1, !.grouped = FALSE]
    <2>0. act[a].rounds + 1 \in 0..MaxRounds
      BY <1>1, <1>4, AssistantAssumption DEF Actor
    <2>1. r \in Actor /\ r.pc = "tools" /\ r.turn = act[a].turn
      BY <1>1, <2>0, Zenon DEF Actor, ActorSteps
    <2>2. act' = [act EXCEPT ![a] = r]
      BY <1>1, <1>4, Zenon DEF AssistantInv, TypeOK, Actor
    <2>3. ActorsCalm
      <3> HIDE DEF r
      <3> QED
        BY <1>1, <2>1, <2>2, ActorUpdate, Zenon
    <2> QED
      BY <1>2, <2>3, QuietStep
  <1> QED
    BY <1>3, <1>4 DEF WorkflowFails, Reply, EndCalls

\* A saved proposal is executed next or waits for approval.
LEMMA SavedCalm ==
  ASSUME AssistantInv, NEW a \in Tasks, act[a].pc = "tools", NEW p \in Proposals,
         NEW k \in Kinds, act' = Saved(a, p, k)
  PROVE  ActorsCalm
  <1>1. a \in Actors /\ act[a] \in Actor /\ act[a].turn \in Turns /\ design \in Nat
    BY DEF AssistantInv, TypeOK, OwnersHold, Actors
  <1> DEFINE s == [act[a] EXCEPT !.grouped = @ \/ k = "design"]
             r == IF act[a].pol = "auto"
                  THEN [s EXCEPT !.pc = "review", !.p = p, !.want = design]
                  ELSE [s EXCEPT !.pend = @ \cup {p}]
  <1>2. (act[a].grouped \/ k = "design") \in BOOLEAN
    OBVIOUS
  <1>3. /\ s \in Actor /\ s.pc = "tools" /\ s.turn = act[a].turn
    BY <1>1, <1>2, Zenon DEF Actor
  <1>4. act' = [act EXCEPT ![a] = r]
    BY DEF Saved
  <1>5. r \in Actor /\ r.turn = act[a].turn /\ ((r.pc = "review" /\ r.p = p) \/ r.pc = "tools")
    <2> HIDE DEF s
    <2> QED
      BY <1>1, <1>3, Zenon DEF Actor, ActorSteps
  <1> HIDE DEF r
  <1> QED
    BY <1>1, <1>4, <1>5, ActorUpdate, Zenon

\* _save_tool_proposal finds the proposal of an earlier attempt.
LEMMA ProposeAgainStep ==
  ASSUME AssistantInv, NEW a \in Tasks, NEW p \in Proposals, ProposeAgain(a, p)
  PROVE  AssistantInv' /\ KeepsDecisions
  <1>1. ActorsCalm
    BY SavedCalm DEF ProposeAgain, Kinds
  <1> QED
    BY <1>1, Frame, QuietStep DEF ProposeAgain

\* A turn that waits for decisions is paused.
LEMMA ParkStep ==
  ASSUME AssistantInv, NEW a \in Tasks,
         SaveContinuation(a) \/ PauseTurn(a) \/ Parked(a)
  PROVE  AssistantInv' /\ KeepsDecisions
  <1> DEFINE t == act[a].turn
  <1>1. a \in Actors /\ act[a] \in Actor /\ act[a].pc # "idle" /\ t \in Turns
    BY DEF AssistantInv, TypeOK, OwnersHold, SaveContinuation, PauseTurn, Parked, Actors
  <1>2. ProposalsEnd /\ op' = op /\ applied' = applied
    BY Frame DEF SaveContinuation, PauseTurn, Parked
  <1>3. CASE SaveContinuation(a) /\ Authorized(a)
    <2> DEFINE r == [turn[t] EXCEPT !.saved = TRUE, !.pending = act[a].pend,
                                    !.rounds = act[a].rounds]
    <2>1. turn \in [Turns -> TurnRow] /\ turn' = [turn EXCEPT ![t] = r]
      BY <1>1, <1>3, Zenon DEF SaveContinuation, AssistantInv, TypeOK
    <2>2. r \in TurnRow /\ r.status = turn[t].status
      <3>1. act[a].pend \in SUBSET Proposals /\ act[a].rounds \in 0..MaxRounds
        BY <1>1 DEF Actor
      <3>2. turn[t] \in TurnRow
        BY <1>1, <2>1
      <3> QED
        BY <3>1, <3>2, Zenon DEF TurnRow
    <2>3. TurnsMove
      <3> HIDE DEF r
      <3> QED
        BY <1>1, <2>1, <2>2 DEF TurnsMove
    <2>4. ActorsCalm
      BY <1>1, <1>3, GotoCalm DEF SaveContinuation
    <2> QED
      BY <1>2, <1>3, <2>3, <2>4, Frame, QuietStep DEF SaveContinuation
  <1>4. CASE SaveContinuation(a) /\ ~Authorized(a)
    BY <1>1, <1>2, <1>4, Frame, GotoCalm, QuietStep DEF SaveContinuation
  <1>5. CASE PauseTurn(a) /\ turn[t].status = "running"
    <2>1. TurnsMove /\ ChatStays
      BY <1>1, <1>5, TurnUpdate, ChatUpdate DEF PauseTurn, TurnStatus, Active
    <2>2. ActorsCalm
      BY <1>1, <1>5, GotoCalm DEF PauseTurn
    <2> QED
      BY <1>2, <1>5, <2>1, <2>2, Frame, QuietStep DEF PauseTurn
  <1>6. CASE PauseTurn(a) /\ turn[t].status # "running"
    BY <1>1, <1>2, <1>6, Frame, GotoCalm, QuietStep DEF PauseTurn
  <1>7. CASE Parked(a)
    <2>1. ActorsCalm
      BY <1>1, <1>7, ExitCalm, GotoCalm DEF Parked
    <2>2. RestOK
      BY <1>7, Spent DEF Parked, RestOK, Bounds, AssistantInv, TypeOK
    <2> QED
      BY <1>2, <1>7, <2>1, <2>2, Frame, QuietStep DEF Parked
  <1> QED
    BY <1>3, <1>4, <1>5, <1>6, <1>7

\* A turn is answered or fails.
LEMMA EndTurnStep ==
  ASSUME AssistantInv, NEW a \in Tasks, FinishTurn(a) \/ FailTurn(a)
  PROVE  AssistantInv' /\ KeepsDecisions
  <1> DEFINE t == act[a].turn
  <1>1. a \in Actors /\ act[a].pc # "idle" /\ t \in Turns
    BY DEF AssistantInv, TypeOK, OwnersHold, FinishTurn, FailTurn, Actors
  <1>2. ProposalsEnd /\ RestOK /\ op' = op /\ applied' = applied
    BY Frame DEF FinishTurn, FailTurn
  <1>3. ActorsCalm
    BY <1>1, ExitCalm, GotoCalm DEF FinishTurn, FailTurn
  <1>4. CASE UNCHANGED <<chat, turn>>
    BY <1>2, <1>3, <1>4, Frame, QuietStep
  <1>5. CASE /\ turn[t].status \in {"queued", "running"}
             /\ \/ SetTurn(t, "succeeded") /\ SetChat("idle")
                \/ SetTurn(t, "failed") /\ SetChat("failed")
    <2>1. TurnsMove /\ chat.status # "deleted"
      BY <1>1, <1>5, TurnUpdate DEF TurnStatus, Active
    <2>2. ChatStays
      BY <1>5, <2>1, ChatUpdate
    <2> QED
      BY <1>2, <1>3, <2>1, <2>2, QuietStep
  <1> QED
    BY <1>4, <1>5 DEF FinishTurn, FailTurn, StoreAnswer, StoreFailure

-----------------------------------------------------------------------------
(* Requests, the clock and other users *)

\* send begins a turn.
LEMMA SendStep ==
  ASSUME AssistantInv, NEW t \in Turns, Send(t)
  PROVE  AssistantInv' /\ KeepsDecisions
  <1>1. TurnsMove /\ ChatStays
    BY TurnUpdate, ChatUpdate DEF Send, CreateTurn, TurnStatus, Active
  <1>2. ActorsCalm
    BY DispatchCalm DEF Send, AssistantInv, TypeOK
  <1>3. RestOK
    BY Spent DEF Send, RestOK, Bounds, AssistantInv, TypeOK
  <1> QED
    BY <1>1, <1>2, <1>3, Frame, QuietStep DEF Send

\* A request that arrives took a thread that is idle.
LEMMA Arrived ==
  ASSUME AssistantInv, NEW r \in Requests, Arrives(r)
  PROVE  r \in Actors /\ r \notin Tasks /\ act[r] = Idle
  BY AssistantAssumption DEF Arrives, Free, Actors

\* It takes its first step.
LEMMA RequestCalm ==
  ASSUME AssistantInv, NEW r \in Requests, Arrives(r), NEW q \in Actor,
         q.pc \in {"review", "batch", "ready"}, q.pc = "review" => q.p \in Proposals,
         act' = [act EXCEPT ![r] = q]
  PROVE  ActorsCalm
  BY Arrived, ActorUpdate, Zenon

\* A request that looks for a turn to resume owns no operation.
LEMMA ReadyCalm ==
  ASSUME AssistantInv, NEW r \in Requests, Arrives(r),
         act' = [act EXCEPT ![r].pc = "ready"]
  PROVE  ActorsCalm
  <1> DEFINE q == [Idle EXCEPT !.pc = "ready"]
  <1>1. q \in Actor /\ q.pc = "ready"
    BY IdleActor, Zenon DEF Actor, ActorSteps
  <1>2. act' = [act EXCEPT ![r] = q]
    BY Arrived, Zenon DEF AssistantInv, TypeOK
  <1> HIDE DEF q
  <1> QED
    BY <1>1, <1>2, RequestCalm, Zenon

\* execute and execute_batch begin an approval.
LEMMA ApproveStep ==
  ASSUME AssistantInv, NEW r \in Requests, NEW p \in Proposals, NEW p2 \in Proposals,
         Approve(r, p) \/ ApproveBatch(r, p, p2)
  PROVE  AssistantInv' /\ KeepsDecisions
  <1>1. /\ TurnsMove /\ ProposalsEnd /\ ChatStays /\ op' = op /\ applied' = applied
        /\ Arrives(r) /\ chat.rev \in Nat /\ prop[p].design \in Nat
    BY Frame DEF Approve, ApproveBatch, AssistantInv, TypeOK, ChatRow, ProposalRow
  <1>2. RestOK
    BY Spent DEF Approve, ApproveBatch, RestOK, Bounds, AssistantInv, TypeOK
  <1>3. CASE Approve(r, p)
    <2> DEFINE q == [Idle EXCEPT !.pc = "review", !.rev = chat.rev, !.p = p,
                                 !.want = prop[p].design]
    <2>1. q \in Actor /\ q.pc = "review" /\ q.p = p
      BY <1>1, IdleActor, Zenon DEF Actor, ActorSteps
    <2>2. act' = [act EXCEPT ![r] = q]
      BY <1>3 DEF Approve
    <2> HIDE DEF q
    <2>3. ActorsCalm
      BY <1>1, <2>1, <2>2, RequestCalm, Zenon
    <2> QED
      BY <1>1, <1>2, <2>3, QuietStep
  <1>4. CASE ApproveBatch(r, p, p2)
    <2> DEFINE q == [Idle EXCEPT !.pc = "batch", !.rev = chat.rev, !.items = <<p, p2>>]
    <2>0. <<p, p2>> \in Seq(Proposals)
      OBVIOUS
    <2>1. q \in Actor /\ q.pc = "batch"
      BY <1>1, <2>0, IdleActor, Zenon DEF Actor, ActorSteps
    <2>2. act' = [act EXCEPT ![r] = q]
      BY <1>4 DEF ApproveBatch
    <2> HIDE DEF q
    <2>3. ActorsCalm
      BY <1>1, <2>1, <2>2, RequestCalm, Zenon
    <2> QED
      BY <1>1, <1>2, <2>3, QuietStep
  <1> QED
    BY <1>3, <1>4

\* A proposal is dismissed, a turn continued, the policy or the model changed.
LEMMA DecideStep ==
  ASSUME AssistantInv, NEW r \in Requests,
         \/ \E p \in Proposals : Dismiss(r, p)
         \/ Continue(r) \/ UpdateModel(r)
         \/ \E pol \in Policies : UpdatePolicy(r, pol)
  PROVE  AssistantInv' /\ KeepsDecisions
  <1>1. ActorsCalm /\ TurnsMove /\ op' = op /\ applied' = applied
    BY ReadyCalm, Frame, Zenon DEF Dismiss, Continue, UpdatePolicy, UpdateModel
  <1>2. RestOK
    BY Spent, Zenon DEF Dismiss, Continue, UpdatePolicy, UpdateModel, RestOK, Bounds,
                 AssistantInv, TypeOK
  <1>3. ProposalsEnd
    BY DismissedEnd, Frame, Zenon DEF Dismiss, Continue, UpdatePolicy, UpdateModel
  <1>4. ChatStays
    <2>1. CASE Continue(r) \/ \E p \in Proposals : Dismiss(r, p)
      BY <2>1, Frame, Zenon DEF Dismiss, Continue
    <2>2. CASE UpdateModel(r) \/ \E pol \in Policies : UpdatePolicy(r, pol)
      BY <2>2, ChatRevised DEF UpdatePolicy, UpdateModel, Policies
    <2> QED
      BY <2>1, <2>2
  <1> QED
    BY <1>1, <1>2, <1>3, <1>4, QuietStep

\* cancel_turn stops a turn and its proposals.
LEMMA CancelStep ==
  ASSUME AssistantInv, NEW t \in Turns, CancelTurn(t)
  PROVE  AssistantInv' /\ KeepsDecisions
  <1>1. turn \in [Turns -> TurnRow] /\ chat.status # "deleted"
    BY DEF AssistantInv, TypeOK, RowsHold, CancelTurn, Active
  <1>2. /\ ProposalsEnd
        /\ \A p \in Proposals : prop[p].turn = t => prop'[p].status # "pending"
    BY DismissedEnd DEF CancelTurn
  <1>3. TurnsMove
    <2> DEFINE r == [turn[t] EXCEPT !.status = "cancelled"]
    <2>1. r \in TurnRow /\ r.status = "cancelled"
      BY <1>1 DEF TurnRow, TurnStatus
    <2>2. turn' = [turn EXCEPT ![t] = r] /\ turn[t].status \in Active
      BY <1>1 DEF CancelTurn, SetTurn
    <2> HIDE DEF r
    <2> QED
      BY <1>1, <1>2, <2>1, <2>2 DEF TurnsMove
  <1>4. ChatStays
    BY <1>1, ChatUpdate DEF CancelTurn
  <1> QED
    BY <1>2, <1>3, <1>4, Frame, QuietStep DEF CancelTurn
-----------------------------------------------------------------------------
(* The rest of the quiet steps *)

\* What happens outside the conversation changes none of its proposals.
LEMMA OutsideStep ==
  ASSUME AssistantInv,
         \/ Rename \/ EditDesign \/ FillCapacity \/ FreeCapacity
         \/ \E p \in Proposals : Expire(p)
  PROVE  AssistantInv' /\ KeepsDecisions
  <1>1. ActorsCalm /\ TurnsMove /\ op' = op /\ applied' = applied
    BY Frame DEF Rename, EditDesign, FillCapacity, FreeCapacity, Expire
  <1>2. RestOK
    <2>1. left' \in [Bounds -> Nat]
      BY Spent DEF Rename, EditDesign, FillCapacity, FreeCapacity, Expire, Bounds,
                   AssistantInv, TypeOK
    <2>2. design' \in Nat
      BY DEF Rename, EditDesign, FillCapacity, FreeCapacity, Expire, AssistantInv, TypeOK
    <2>3. full' \in BOOLEAN
      BY Zenon DEF Rename, EditDesign, FillCapacity, FreeCapacity, Expire, AssistantInv, TypeOK
    <2> QED
      BY <2>1, <2>2, <2>3 DEF RestOK
  <1>3. ChatStays
    BY ChatRevised, Frame
       DEF Rename, EditDesign, FillCapacity, FreeCapacity, Expire, Policies
  <1>4. ProposalsEnd
    <2>1. CASE UNCHANGED prop
      BY <2>1, Frame
    <2>2. ASSUME NEW p \in Proposals, Expire(p) PROVE ProposalsEnd
      BY <2>2, SMTT(15), Z3T(15), ZenonT(40) DEF Expire, AssistantInv, TypeOK, ProposalRow, ProposalStatus, ProposalsEnd
    <2> QED
      BY <2>1, <2>2 DEF Rename, EditDesign, FillCapacity, FreeCapacity
  <1> QED
    BY <1>1, <1>2, <1>3, <1>4, QuietStep

\* execute_batch checks its items, and ready_continuation looks for a turn.
LEMMA HandleStep ==
  ASSUME AssistantInv, NEW r \in Requests, CheckBatch(r) \/ Ready(r)
  PROVE  AssistantInv' /\ KeepsDecisions
  <1>1. /\ TurnsMove /\ ProposalsEnd /\ ChatStays /\ RestOK
        /\ op' = op /\ applied' = applied
    BY Frame, Zenon DEF CheckBatch, Ready
  <1>2. r \in Actors /\ r \notin Tasks /\ act[r] \in Actor /\ design \in Nat
    BY AssistantAssumption DEF AssistantInv, TypeOK, Actors
  <1>3. CASE CheckBatch(r)
    BY <1>1, <1>2, <1>3, CompletedCalm, EndedCalm, QuietStep, Zenon DEF CheckBatch
  <1>4. CASE Ready(r) /\ Exit(r)
    BY <1>1, <1>2, <1>4, ExitCalm, QuietStep
  <1>5. CASE Ready(r) /\ chat.status = "waiting" /\
             \E p \in Resumable : act' = [act EXCEPT ![r] = 
                [Idle EXCEPT !.pc = "resume", !.turn = prop[p].turn]]
    <2>1. PICK p \in Resumable : act' = [act EXCEPT ![r] = 
                [Idle EXCEPT !.pc = "resume", !.turn = prop[p].turn]]
      BY <1>5, Zenon
    <2> DEFINE q == [Idle EXCEPT !.pc = "resume", !.turn = prop[p].turn]
    <2>2. prop[p].turn \in Turns
      BY <1>5 DEF Resumable, AssistantInv, RowsHold
    <2>3. q \in Actor /\ q.pc = "resume" /\ q.turn \in Turns
      BY <2>2, IdleActor, Zenon DEF Actor, ActorSteps
    <2>4. act' = [act EXCEPT ![r] = q]
      BY <2>1
    <2> HIDE DEF q
    <2>5. ActorsCalm
      BY <1>2, <2>3, <2>4, ActorUpdate, Zenon
    <2> QED
      BY <1>1, <2>5, QuietStep
  <1> QED
    BY <1>3, <1>4, <1>5, Zenon DEF Ready, Exit

\* resume_turn takes up a turn whose actions were decided.
LEMMA ResumeStep ==
  ASSUME AssistantInv, NEW r \in Requests, ResumeTurn(r)
  PROVE  AssistantInv' /\ KeepsDecisions
  <1> DEFINE t == act[r].turn
  <1>1. r \in Actors /\ t \in Turns /\ act \in [Actors -> Actor]
    BY DEF AssistantInv, TypeOK, OwnersHold, Actors, ResumeTurn
  <1>2. ProposalsEnd /\ RestOK /\ op' = op /\ applied' = applied
    BY Frame, Zenon DEF ResumeTurn
  <1>3. CASE Exit(r) /\ UNCHANGED <<chat, turn>>
    BY <1>1, <1>2, <1>3, Frame, ExitCalm, QuietStep
  <1>4. CASE /\ turn[t].status = "waiting" /\ SetTurn(t, "queued") /\ SetChat("working")
             /\ Dispatch(t, [act EXCEPT ![r] = Idle])
    <2>1. TurnsMove /\ ChatStays
      BY <1>1, <1>4, TurnUpdate, ChatUpdate DEF TurnStatus, Active
    <2>2. ActorsCalm
      <3> DEFINE others == [act EXCEPT ![r] = Idle]
      <3>1. /\ others \in [Actors -> Actor] /\ Dispatch(t, others)
            /\ \A b \in Actors : others[b] = act[b] \/ others[b] = Idle
        BY <1>1, <1>4, IdleActor
      <3> HIDE DEF others
      <3> QED
        BY <1>1, <3>1, DispatchCalm
    <2> QED
      BY <1>2, <2>1, <2>2, QuietStep
  <1> QED
    BY <1>3, <1>4 DEF ResumeTurn

\* _execute checks a proposal before it begins the operation.
LEMMA ReviewStep ==
  ASSUME AssistantInv, NEW a \in Actors, Review(a)
  PROVE  AssistantInv' /\ KeepsDecisions
  <1>1. /\ TurnsMove /\ ProposalsEnd /\ ChatStays /\ RestOK
        /\ op' = op /\ applied' = applied
    BY Frame DEF Review
  <1>2. /\ act[a] \in Actor /\ act[a].p \in Proposals /\ act[a].pc = "review"
        /\ a \in Tasks => act[a].turn \in Turns
    BY DEF AssistantInv, TypeOK, OwnersHold, Review
  <1>3. CASE Goto(a, "begin")
    <2> DEFINE r == [act[a] EXCEPT !.pc = "begin"]
    <2>1. /\ r \in Actor /\ r.pc = "begin" /\ r.p = act[a].p /\ r.turn = act[a].turn
          /\ act' = [act EXCEPT ![a] = r]
      BY <1>2, <1>3, Zenon DEF Actor, ActorSteps, Goto
    <2> HIDE DEF r
    <2>2. ActorsCalm
      BY <1>2, <2>1, ActorUpdate, Zenon
    <2> QED
      BY <1>1, <2>2, QuietStep
  <1>4. CASE act' = Ended(a)
    BY <1>1, <1>2, <1>4, EndedCalm, QuietStep
  <1> QED
    BY <1>3, <1>4 DEF Review

-----------------------------------------------------------------------------
(* The steps of an operation *)

\* _save_tool_proposal saves a proposal.
LEMMA ProposeStep ==
  ASSUME AssistantInv, NEW a \in Tasks, NEW p \in Proposals, NEW k \in Kinds, Propose(a, p, k)
  PROVE  AssistantInv' /\ KeepsDecisions
  <1> DEFINE q == [status |-> "pending", turn |-> act[a].turn, kind |-> k, design |-> design]
  <1>1. /\ act[a].turn \in Turns /\ turn[act[a].turn].status = "running"
        /\ prop \in [Proposals -> ProposalRow] /\ design \in Nat
        /\ chat.status # "deleted" /\ prop[p].status = "none"
        /\ UNCHANGED <<chat, turn, op, applied, design, full>>
    BY Zenon DEF AssistantInv, TypeOK, OwnersHold, Propose, Authorized, Actors
  <1>2. /\ q \in ProposalRow /\ q.status = "pending" /\ q.turn = act[a].turn
        /\ prop' = [prop EXCEPT ![p] = q]
    BY <1>1 DEF ProposalRow, ProposalStatus, Unresolved, Propose, Created
  <1> HIDE DEF q
  <1>3. ActorsCalm /\ left' \in [Bounds -> Nat]
    BY SavedCalm, Spent DEF Propose, Bounds
  <1>4. TypeOK'
    BY <1>1, <1>2, <1>3 DEF AssistantInv, TypeOK, ActorsCalm
  <1>5. OwnersHold'
    <2>1. \A b \in Actors : Executing(b)' =>
            /\ Executing(b) /\ act'[b].pc = act[b].pc /\ act'[b].p = act[b].p
            /\ act[b].p \in Proposals /\ Owns(b)
      BY <1>3 DEF ActorsCalm, Executing, AssistantInv, OwnersHold
    <2>2. \A b \in Actors : Executing(b)' => Owns(b)'
      <3> SUFFICES ASSUME NEW b \in Actors, Executing(b)' PROVE Owns(b)'
        OBVIOUS
      <3>1. act[b].p # p
        BY <1>1, <2>1, Zenon DEF Owns
      <3> QED
        BY <1>1, <1>2, <2>1, <3>1, Zenon DEF Owns
    <2>3. \A b, c \in Actors : Executing(b)' /\ Executing(c)' /\ act'[b].p = act'[c].p => b = c
      BY <2>1 DEF AssistantInv, OwnersHold
    <2>4. \A b \in Actors : Executing(b)' => act'[b].p \in Proposals
      BY <2>1
    <2> QED
      BY <1>3, <2>2, <2>3, <2>4 DEF OwnersHold, ActorsCalm
  <1>6. RowsHold'
    BY <1>1, <1>2 DEF AssistantInv, RowsHold
  <1>7. AppliedOnce'
    BY <1>1, <1>2 DEF AssistantInv, AppliedOnce
  <1>8. KeepsDecisions
    BY <1>1, <1>2 DEF KeepsDecisions
  <1> QED
    BY <1>4, <1>5, <1>6, <1>7, <1>8 DEF AssistantInv

\* begin_operation finds the proposal pending, so nobody executes it.
LEMMA BeginStep ==
  ASSUME AssistantInv, NEW a \in Actors, BeginOperation(a)
  PROVE  AssistantInv' /\ KeepsDecisions
  <1> DEFINE p == act[a].p
  <1>1. /\ act[a] \in Actor /\ p \in Proposals /\ act[a].pc = "begin"
        /\ prop \in [Proposals -> ProposalRow] /\ op \in [Proposals -> OperationStatus]
        /\ act \in [Actors -> Actor] /\ (a \in Tasks => act[a].turn \in Turns)
        /\ UNCHANGED <<chat, turn, applied, design, full, left>>
    BY DEF AssistantInv, TypeOK, OwnersHold, BeginOperation
  <1>2. CASE act' = Ended(a) /\ UNCHANGED <<prop, op>>
    BY <1>1, <1>2, EndedCalm, Frame, QuietStep
  <1>3. CASE /\ chat.status # "deleted" /\ prop[p].status = "pending"
             /\ prop' = [prop EXCEPT ![p].status = "executing"]
             /\ op' = [op EXCEPT ![p] = "running"]
             /\ \E pc \in {"authorize", "effect"} : Goto(a, pc)
    <2> DEFINE q == [prop[p] EXCEPT !.status = "executing"]
    <2>1. PICK pc \in {"authorize", "effect"} : act' = [act EXCEPT ![a].pc = pc]
      BY <1>3, Zenon DEF Goto
    <2> DEFINE r == [act[a] EXCEPT !.pc = pc]
    <2>2. /\ q \in ProposalRow /\ q.status = "executing" /\ q.turn = prop[p].turn
          /\ prop' = [prop EXCEPT ![p] = q]
      BY <1>1, <1>3 DEF ProposalRow, ProposalStatus, Unresolved
    <2>3. /\ r \in Actor /\ r.pc = pc /\ r.p = p /\ r.turn = act[a].turn
          /\ act' = [act EXCEPT ![a] = r]
      BY <1>1, <2>1, Zenon DEF Actor, ActorSteps
    <2>4. op[p] = "none" /\ applied[p] = 0 /\ turn[prop[p].turn].status # "cancelled"
          /\ prop[p].turn \in Turns
      BY <1>1, <1>3 DEF AssistantInv, RowsHold, AppliedOnce
    <2> HIDE DEF q, r
    <2>5. TypeOK'
      BY <1>1, <1>3, <2>2, <2>3 DEF AssistantInv, TypeOK, OperationStatus
    <2>6. \A b \in Actors \ {a} : Executing(b)' =>
            /\ Executing(b) /\ act'[b] = act[b] /\ act[b].p \in Proposals \ {p} /\ Owns(b)
      BY <1>1, <1>3, <2>3 DEF AssistantInv, OwnersHold, Executing, Owns
    <2>7. OwnersHold'
      <3>1. Owns(a)'
        BY <1>1, <1>3, <2>2, <2>3, <2>4 DEF Owns
      <3>2. \A b \in Actors \ {a} : Executing(b)' => Owns(b)'
        BY <1>1, <1>3, <2>2, <2>6 DEF Owns
      <3>3. \A b, c \in Actors : Executing(b)' /\ Executing(c)' /\ act'[b].p = act'[c].p => b = c
        <4>1. \A b, c \in Actors \ {a} :
                Executing(b)' /\ Executing(c)' /\ act'[b].p = act'[c].p => b = c
          BY <2>6 DEF AssistantInv, OwnersHold
        <4>2. \A b \in Actors \ {a} : Executing(b)' => act'[b].p # act'[a].p
          BY <1>1, <2>3, <2>6
        <4> QED
          BY <4>1, <4>2
      <3>4. \A b \in Actors : Executing(b)' => act'[b].p \in Proposals
        BY <1>1, <2>3, <2>6
      <3> QED
        BY <1>1, <2>3, <3>1, <3>2, <3>3, <3>4 DEF AssistantInv, OwnersHold
    <2>8. RowsHold'
      <3>1. \A b \in Proposals \ {p} : prop'[b] = prop[b] /\ op'[b] = op[b]
        BY <1>1, <1>3, <2>2
      <3>2. prop'[p].status = "executing" /\ prop'[p].turn \in Turns
        BY <1>1, <2>2, <2>4
      <3> QED
        BY <1>1, <1>3, <3>1, <3>2 DEF AssistantInv, RowsHold
    <2>9. AppliedOnce'
      BY <1>1, <2>2, <2>4 DEF AssistantInv, AppliedOnce
    <2>10. KeepsDecisions
      BY <1>1, <1>3, <2>2, <2>4 DEF KeepsDecisions, Unresolved
    <2> QED
      BY <2>5, <2>7, <2>8, <2>9, <2>10 DEF AssistantInv
  <1> QED
    BY <1>2, <1>3 DEF BeginOperation

\* The operation moves on; its effect happened or did not.
LEMMA OperationMoves ==
  ASSUME AssistantInv, NEW a \in Actors, Executing(a), NEW r \in Actor,
         act' = [act EXCEPT ![a] = r],
         r.pc \in {"effect", "done", "failed"}, r.p = act[a].p, r.turn = act[a].turn,
         NEW n \in {0, 1}, applied' = [applied EXCEPT ![act[a].p] = n],
         r.pc = "effect" => n = 0, r.pc = "done" => n = 1,
         UNCHANGED <<chat, turn, prop, op>>, RestOK
  PROVE  AssistantInv' /\ KeepsDecisions
  <1> DEFINE p == act[a].p
  <1>1. /\ p \in Proposals /\ Owns(a) /\ (a \in Tasks => act[a].turn \in Turns)
        /\ act \in [Actors -> Actor] /\ applied \in [Proposals -> Nat]
    BY DEF AssistantInv, TypeOK, OwnersHold, Executing
  <1>2. TypeOK'
    BY <1>1 DEF AssistantInv, TypeOK, RestOK
  <1>3. OwnersHold'
    <2>1. \A b \in Actors \ {a} : Executing(b)' =>
            /\ Executing(b) /\ act'[b] = act[b] /\ act[b].p \in Proposals \ {p} /\ Owns(b)
      BY <1>1 DEF AssistantInv, OwnersHold, Executing
    <2>2. Owns(a)'
      BY <1>1 DEF Owns
    <2>3. \A b \in Actors \ {a} : Executing(b)' => Owns(b)'
      BY <1>1, <2>1 DEF Owns
    <2>4. \A b, c \in Actors : Executing(b)' /\ Executing(c)' /\ act'[b].p = act'[c].p => b = c
      <3>1. \A b, c \in Actors \ {a} :
              Executing(b)' /\ Executing(c)' /\ act'[b].p = act'[c].p => b = c
        BY <2>1 DEF AssistantInv, OwnersHold
      <3>2. \A b \in Actors \ {a} : Executing(b)' => act'[b].p # act'[a].p
        BY <1>1, <2>1
      <3> QED
        BY <3>1, <3>2
    <2>5. \A b \in Actors : Executing(b)' => act'[b].p \in Proposals
      BY <1>1, <2>1
    <2>6. act'[a] = r /\ \A b \in Actors \ {a} : act'[b] = act[b]
      BY <1>1
    <2> QED
      BY <1>1, <2>2, <2>3, <2>4, <2>5, <2>6 DEF AssistantInv, OwnersHold
  <1>4. RowsHold'
    BY DEF AssistantInv, RowsHold
  <1>5. AppliedOnce'
    <2>1. prop[p].status \in {"executing", "gone"}
      BY <1>1 DEF Owns
    <2> QED
      BY <1>1, <2>1 DEF AssistantInv, AppliedOnce
  <1>6. KeepsDecisions
    BY DEF KeepsDecisions
  <1> QED
    BY <1>2, <1>3, <1>4, <1>5, <1>6 DEF AssistantInv

\* The operation and its proposal take their last status.
LEMMA OperationEnds ==
  ASSUME AssistantInv, NEW a \in Actors, Executing(a), ActorsCalm, ~Executing(a)',
         NEW s \in {"succeeded", "failed"}, s = "succeeded" => applied[act[a].p] = 1,
         chat.status # "deleted",
         op' = [op EXCEPT ![act[a].p] = s],
         prop' = [prop EXCEPT ![act[a].p].status = s],
         UNCHANGED <<chat, turn, applied>>, RestOK
  PROVE  AssistantInv' /\ KeepsDecisions
  <1> DEFINE p == act[a].p
             q == [prop[p] EXCEPT !.status = s]
  <1>1. /\ p \in Proposals /\ prop[p].status = "executing" /\ op[p] = "running"
        /\ prop \in [Proposals -> ProposalRow] /\ op \in [Proposals -> OperationStatus]
    BY DEF AssistantInv, TypeOK, OwnersHold, Executing, Owns
  <1>2. /\ q \in ProposalRow /\ q.status = s /\ q.turn = prop[p].turn
        /\ prop' = [prop EXCEPT ![p] = q]
    BY <1>1 DEF ProposalRow, ProposalStatus
  <1>3. prop[p].turn \in Turns
    BY <1>1 DEF AssistantInv, RowsHold
  <1> HIDE DEF q
  <1>4. \A b \in Proposals \ {p} : prop'[b] = prop[b] /\ op'[b] = op[b]
    BY <1>1, <1>2
  <1>5. prop'[p].status = s /\ prop'[p].turn \in Turns /\ op'[p] = s
    BY <1>1, <1>2, <1>3
  <1>6. TypeOK'
    BY <1>1, <1>2 DEF AssistantInv, TypeOK, ActorsCalm, RestOK, OperationStatus
  <1>7. OwnersHold'
    <2>1. \A b \in Actors : Executing(b)' =>
            /\ Executing(b) /\ act'[b].pc = act[b].pc /\ act'[b].p = act[b].p
            /\ act[b].p \in Proposals \ {p} /\ Owns(b)
      BY DEF ActorsCalm, Executing, AssistantInv, OwnersHold
    <2>2. \A b \in Actors : Executing(b)' => Owns(b)'
      <3> SUFFICES ASSUME NEW b \in Actors, Executing(b)' PROVE Owns(b)'
        OBVIOUS
      <3>1. prop'[act[b].p] = prop[act[b].p] /\ op'[act[b].p] = op[act[b].p]
        BY <1>4, <2>1
      <3> QED
        BY <2>1, <3>1 DEF Owns
    <2>3. \A b, c \in Actors : Executing(b)' /\ Executing(c)' /\ act'[b].p = act'[c].p => b = c
      BY <2>1 DEF AssistantInv, OwnersHold
    <2>4. \A b \in Actors : Executing(b)' => act'[b].p \in Proposals
      BY <2>1
    <2> QED
      BY <2>2, <2>3, <2>4 DEF OwnersHold, ActorsCalm
  <1>8. RowsHold'
    <2>1. ASSUME NEW b \in Proposals
          PROVE  /\ prop'[b].status \notin {"none", "gone"} => prop'[b].turn \in Turns
                 /\ prop'[b].status \in {"none", "pending"} => op'[b] = "none"
                 /\ prop'[b].status = "pending" => turn'[prop'[b].turn].status # "cancelled"
                 /\ prop'[b].status # "gone"
      <3>1. CASE b = p
        BY <1>5, <3>1
      <3>2. CASE b # p
        BY <1>4, <3>2 DEF AssistantInv, RowsHold
      <3> QED
        BY <3>1, <3>2, Zenon
    <2> QED
      BY <2>1, Zenon DEF RowsHold
  <1>9. AppliedOnce'
    BY <1>1, <1>4, <1>5 DEF AssistantInv, AppliedOnce
  <1>10. KeepsDecisions
    BY <1>1, <1>4, <1>5 DEF KeepsDecisions, Unresolved
  <1> QED
    BY <1>6, <1>7, <1>8, <1>9, <1>10 DEF AssistantInv

\* Authorize, the effect and its failure, and a success that is not recorded.
LEMMA EffectStep ==
  ASSUME AssistantInv, NEW a \in Actors,
         Authorize(a) \/ Perform(a) \/ PerformFails(a)
  PROVE  AssistantInv' /\ KeepsDecisions
  <1> DEFINE p == act[a].p
  <1>1. /\ Executing(a) /\ act[a].pc \in {"authorize", "effect"} /\ act[a] \in Actor
        /\ p \in Proposals /\ applied[p] = 0 /\ applied \in [Proposals -> Nat]
        /\ UNCHANGED <<chat, turn, prop, op>> /\ design \in Nat
    BY DEF AssistantInv, TypeOK, OwnersHold, Owns, Executing, Authorize, Perform, PerformFails
  <1>2. ASSUME NEW pc \in {"effect", "failed"}, Goto(a, pc), UNCHANGED applied, RestOK
        PROVE  AssistantInv' /\ KeepsDecisions
    <2> DEFINE r == [act[a] EXCEPT !.pc = pc]
    <2>0. act[a] \in Actor /\ pc \in ActorSteps /\ act' = [act EXCEPT ![a] = r]
      BY <1>1, <1>2 DEF ActorSteps, Goto
    <2>1. r \in Actor /\ r.pc = pc /\ r.p = p /\ r.turn = act[a].turn
      BY <2>0, ActorPc
    <2>2. applied' = [applied EXCEPT ![p] = 0]
      BY <1>1, <1>2
    <2> HIDE DEF r
    <2> QED
      BY <1>1, <1>2, <2>0, <2>1, <2>2, OperationMoves, Zenon
  <1>3. CASE Authorize(a) \/ PerformFails(a)
    BY <1>2, <1>3, Frame, Zenon DEF Authorize, PerformFails
  <1>4. CASE Perform(a)
    <2>1. applied' = [applied EXCEPT ![p] = 1] /\ design' \in Nat
      BY <1>1, <1>4 DEF Perform
    <2>2. RestOK
      BY <1>4, <2>1, Spent DEF Perform, RestOK, Bounds, AssistantInv, TypeOK
    <2>3. PICK pc \in {"done", "failed"}, w \in Nat :
            act' = [act EXCEPT ![a] = [act[a] EXCEPT !.pc = pc, !.want = w]]
      <3>1. act[a].want \in Nat /\ act[a] = [act[a] EXCEPT !.want = act[a].want]
        BY <1>1 DEF Actor
      <3>2. CASE Goto(a, "failed")
        <4>1. [act[a] EXCEPT !.pc = "failed"] =
                [act[a] EXCEPT !.pc = "failed", !.want = act[a].want]
          BY <1>1, Zenon DEF Actor
        <4> QED
          BY <3>1, <3>2, <4>1, Zenon DEF Goto
      <3>3. CASE act' = [act EXCEPT ![a].pc = "done",
                    ![a].want = IF prop[p].kind = "design" THEN design' ELSE @]
        BY <1>1, <2>1, <3>1, <3>3, Zenon DEF AssistantInv, TypeOK
      <3> QED
        BY <1>4, <3>2, <3>3, Zenon DEF Perform
    <2> DEFINE r == [act[a] EXCEPT !.pc = pc, !.want = w]
    <2>4. act[a] \in Actor /\ pc \in ActorSteps /\ act' = [act EXCEPT ![a] = r]
      BY <1>1, <2>3 DEF ActorSteps
    <2>5. r \in Actor /\ r.pc = pc /\ r.p = p /\ r.turn = act[a].turn
      BY <2>4, Zenon DEF Actor
    <2> HIDE DEF r
    <2> QED
      BY <1>1, <2>1, <2>2, <2>4, <2>5, OperationMoves, Zenon
  <1> QED
    BY <1>3, <1>4

\* _execute records the result of the action, or its failure.
LEMMA RecordStep ==
  ASSUME AssistantInv, NEW a \in Actors, RecordSuccess(a) \/ RecordFailure(a)
  PROVE  AssistantInv' /\ KeepsDecisions
  <1> DEFINE p == act[a].p
  <1>1. /\ Executing(a) /\ act[a] \in Actor /\ p \in Proposals /\ act[a].want \in Nat
        /\ act[a].pc = "done" => applied[p] = 1
        /\ applied \in [Proposals -> Nat] /\ applied[p] \in {0, 1}
        /\ UNCHANGED <<chat, turn, applied, design, full>>
    <2>1. /\ act[a].pc \in {"done", "failed"} /\ act[a] \in Actor
          /\ applied \in [Proposals -> Nat]
          /\ UNCHANGED <<chat, turn, applied, design, full>>
      BY DEF AssistantInv, TypeOK, RecordSuccess, RecordFailure
    <2>2. Executing(a) /\ p \in Proposals /\ (act[a].pc = "done" => applied[p] = 1)
      BY <2>1 DEF AssistantInv, OwnersHold, Owns, Executing
    <2>3. applied[p] \in {0, 1}
      BY <2>1, <2>2 DEF AssistantInv, AppliedOnce
    <2>4. act[a].want \in Nat
      BY <2>1 DEF Actor
    <2> QED
      BY <2>1, <2>2, <2>3, <2>4
  <1>2. RestOK
    BY <1>1, Spent DEF RecordSuccess, RecordFailure, RestOK, Bounds, AssistantInv, TypeOK
  <1>3. CASE RecordFailure(a)
    <2>1. ActorsCalm /\ ~Executing(a)'
      BY <1>1, <1>3, EndedCalm DEF RecordFailure
    <2>2. CASE UNCHANGED <<prop, op>>
      BY <1>1, <1>2, <2>1, <2>2, Frame, QuietStep, Zenon
    <2> QED
      BY <1>1, <1>2, <1>3, <2>1, <2>2, OperationEnds, Zenon DEF RecordFailure, Finished
  <1>4. CASE RecordSuccess(a) /\ act' = Completed(a, act[a].want) /\ chat.status # "deleted"
             /\ Finished(p, "succeeded")
    <2>1. ActorsCalm /\ ~Executing(a)'
      BY <1>1, <1>4, CompletedCalm, Zenon DEF RecordSuccess
    <2> QED
      BY <1>1, <1>2, <1>4, <2>1, OperationEnds, Zenon DEF RecordSuccess, Finished
  <1>5. CASE RecordSuccess(a) /\ Goto(a, "failed") /\ UNCHANGED <<prop, op>>
    <2> DEFINE r == [act[a] EXCEPT !.pc = "failed"]
    <2>0. act[a] \in Actor /\ "failed" \in ActorSteps /\ act' = [act EXCEPT ![a] = r]
      BY <1>1, <1>5 DEF ActorSteps, Goto
    <2>1. r \in Actor /\ r.pc = "failed" /\ r.p = p /\ r.turn = act[a].turn
      BY <2>0, ActorPc
    <2>2. applied' = [applied EXCEPT ![p] = applied[p]]
      BY <1>1
    <2> HIDE DEF r
    <2> QED
      BY <1>1, <1>2, <1>5, <2>0, <2>1, <2>2, OperationMoves, Zenon
  <1> QED
    BY <1>3, <1>4, <1>5 DEF RecordSuccess

-----------------------------------------------------------------------------
(* Deletion and restart *)

\* delete_chat removes every row of the conversation.
LEMMA DeleteStep ==
  ASSUME AssistantInv, DeleteChat
  PROVE  AssistantInv' /\ KeepsDecisions
  <1>1. /\ \A p \in Proposals : prop'[p].status = "gone" /\ op'[p] = "gone"
        /\ \A t \in Turns : turn'[t].status = "gone"
        /\ chat'.status = "deleted" /\ UNCHANGED <<applied, design, full, act>>
    BY DEF DeleteChat, SetChat, AssistantInv, TypeOK, ChatRow, TurnRow, ProposalRow
  <1>2. TypeOK'
    <2>1. chat' \in ChatRow
      BY DEF DeleteChat, SetChat, AssistantInv, TypeOK, ChatRow
    <2>2. turn' \in [Turns -> TurnRow]
      <3>1. \A t \in Turns : turn[t] \in TurnRow
        BY DEF AssistantInv, TypeOK
      <3>2. \A t \in Turns : [turn[t] EXCEPT !.status = "gone"] \in TurnRow
        BY <3>1 DEF TurnRow, TurnStatus
      <3> QED
        BY <3>2 DEF DeleteChat
    <2>3. prop' \in [Proposals -> ProposalRow]
      <3>1. \A p \in Proposals : prop[p] \in ProposalRow
        BY DEF AssistantInv, TypeOK
      <3>2. \A p \in Proposals : [prop[p] EXCEPT !.status = "gone"] \in ProposalRow
        BY <3>1 DEF ProposalRow, ProposalStatus
      <3> QED
        BY <3>2 DEF DeleteChat
    <2>4. op' \in [Proposals -> OperationStatus]
      BY DEF DeleteChat, OperationStatus
    <2>5. left' \in [Bounds -> Nat]
      BY Spent DEF DeleteChat, Bounds
    <2> QED
      BY <1>1, <2>1, <2>2, <2>3, <2>4, <2>5 DEF AssistantInv, TypeOK
  <1>3. OwnersHold'
    <2>1. \A a \in Actors : Executing(a) => act[a].p \in Proposals /\ Owns(a)
      BY DEF AssistantInv, OwnersHold
    <2>2. \A a \in Actors : Executing(a)' => Executing(a) /\ Owns(a)'
      BY <1>1, <2>1 DEF Executing, Owns
    <2> QED
      BY <1>1, <2>2 DEF AssistantInv, OwnersHold, Executing
  <1>4. RowsHold'
    BY <1>1 DEF RowsHold
  <1>5. AppliedOnce'
    BY <1>1 DEF AssistantInv, AppliedOnce
  <1>6. KeepsDecisions
    BY <1>1 DEF KeepsDecisions
  <1> QED
    BY <1>2, <1>3, <1>4, <1>5, <1>6 DEF AssistantInv

\* recover_interrupted ends what the process left behind.
LEMMA RestartStep ==
  ASSUME AssistantInv, Restart
  PROVE  AssistantInv' /\ KeepsDecisions
  <1>1. /\ chat \in ChatRow /\ turn \in [Turns -> TurnRow]
        /\ prop \in [Proposals -> ProposalRow] /\ op \in [Proposals -> OperationStatus]
        /\ UNCHANGED <<applied, design, full>>
    BY DEF AssistantInv, TypeOK, Restart
  <1>2. ASSUME NEW t \in Turns
        PROVE  /\ turn'[t] \in TurnRow
               /\ \/ turn'[t] = turn[t]
                  \/ turn[t].status \in {"queued", "running"} /\ turn'[t].status = "failed"
    BY <1>1 DEF Restart, TurnRow, TurnStatus
  <1>3. ASSUME NEW p \in Proposals
        PROVE  /\ prop'[p] \in ProposalRow /\ prop'[p].turn = prop[p].turn
               /\ \/ prop'[p] = prop[p]
                  \/ prop[p].status = "executing" /\ prop'[p].status = "failed"
    BY <1>1 DEF Restart, ProposalRow, ProposalStatus
  <1>4. ASSUME NEW p \in Proposals
        PROVE  \/ op'[p] = op[p]
               \/ op[p] = "running" /\ op'[p] = "uncertain"
    BY <1>1 DEF Restart
  <1>5. chat' \in ChatRow /\ (chat'.status = "deleted" <=> chat.status = "deleted")
    BY <1>1 DEF Restart, ChatRow
  <1>6. TypeOK'
    <2>1. turn' \in [Turns -> TurnRow] /\ prop' \in [Proposals -> ProposalRow]
      BY <1>2, <1>3 DEF Restart
    <2>2. op' \in [Proposals -> OperationStatus]
      BY <1>1 DEF Restart, OperationStatus
    <2>3. act' \in [Actors -> Actor] /\ left' \in [Bounds -> Nat]
      BY IdleActor, Spent DEF Restart, Bounds
    <2> QED
      BY <1>1, <1>5, <2>1, <2>2, <2>3 DEF AssistantInv, TypeOK
  <1>7. OwnersHold'
    BY IdleActor DEF Restart, OwnersHold, Executing
  <1>8. RowsHold'
    <2>1. ASSUME NEW p \in Proposals
          PROVE  /\ prop'[p].status \notin {"none", "gone"} => prop'[p].turn \in Turns
                 /\ prop'[p].status \in {"none", "pending"} => op'[p] = "none"
                 /\ prop'[p].status = "gone" => chat'.status = "deleted"
      BY <1>3, <1>4, <1>5 DEF AssistantInv, RowsHold
    <2>2. ASSUME NEW p \in Proposals, prop'[p].status = "pending"
          PROVE  turn'[prop'[p].turn].status # "cancelled"
      <3>1. prop'[p] = prop[p] /\ prop[p].turn \in Turns
        BY <1>3, <2>2 DEF AssistantInv, RowsHold
      <3> QED
        BY <1>2, <2>2, <3>1 DEF AssistantInv, RowsHold
    <2>3. ASSUME chat'.status = "deleted"
          PROVE  /\ \A t \in Turns : turn'[t].status = "gone"
                 /\ \A p \in Proposals : op'[p] = "gone" /\ prop'[p].status = "gone"
      <3>1. /\ \A t \in Turns : turn[t].status = "gone"
            /\ \A p \in Proposals : op[p] = "gone" /\ prop[p].status = "gone"
        BY <1>5, <2>3 DEF AssistantInv, RowsHold
      <3> QED
        BY <1>2, <1>3, <1>4, <3>1
    <2> QED
      BY <2>1, <2>2, <2>3 DEF RowsHold
  <1>9. AppliedOnce'
    BY <1>1, <1>3 DEF AssistantInv, AppliedOnce
  <1>10. KeepsDecisions
    BY <1>2, <1>3, <1>4 DEF KeepsDecisions, Unresolved, Active
  <1> QED
    BY <1>6, <1>7, <1>8, <1>9, <1>10 DEF AssistantInv

-----------------------------------------------------------------------------
(* The theorems *)

\* create_chat: a conversation begins without turns.
LEMMA InitHolds == Init => AssistantInv
  <1> SUFFICES ASSUME Init PROVE AssistantInv
    OBVIOUS
  <1>1. TypeOK
    <2>1. NoTurn \in TurnRow /\ NoProposal \in ProposalRow
      BY AssistantAssumption
         DEF NoTurn, NoProposal, TurnRow, ProposalRow, TurnStatus, ProposalStatus, Kinds
    <2>2. chat \in ChatRow
      BY DEF Init, ChatRow
    <2>3. left \in [Bounds -> Nat]
      BY AssistantAssumption DEF Init
    <2> QED
      BY <2>1, <2>2, <2>3, IdleActor, Zenon DEF Init, TypeOK, OperationStatus
  <1>2. \A p \in Proposals : prop[p].status = "none" /\ op[p] = "none" /\ applied[p] = 0
    BY DEF Init, NoProposal
  <1>3. OwnersHold
    BY IdleActor DEF Init, OwnersHold, Executing
  <1>4. RowsHold
    BY <1>2 DEF Init, RowsHold
  <1>5. AppliedOnce
    BY <1>2 DEF AppliedOnce
  <1> QED
    BY <1>1, <1>3, <1>4, <1>5 DEF AssistantInv

\* Every step of the conversation keeps the invariant and every decision.
LEMMA NextHolds ==
  ASSUME AssistantInv, [Next]_vars
  PROVE  AssistantInv' /\ [KeepsDecisions]_vars
  <1>1. CASE UNCHANGED vars
    BY <1>1, Frame, QuietStep DEF vars
  <1>2. ASSUME NEW a \in Tasks, RunTurn(a) PROVE AssistantInv' /\ KeepsDecisions
    BY <1>2, ClaimStep, ReplyStep, ProposeAgainStep, ProposeStep, ParkStep, EndTurnStep
       DEF RunTurn
  <1>3. ASSUME NEW a \in Actors, Execute(a) PROVE AssistantInv' /\ KeepsDecisions
    BY <1>3, ReviewStep, BeginStep, EffectStep, RecordStep DEF Execute
  <1>4. ASSUME NEW r \in Requests, Handle(r) PROVE AssistantInv' /\ KeepsDecisions
    BY <1>4, HandleStep, ResumeStep DEF Handle
  <1>5. ASSUME NEW r \in Requests, User(r) PROVE AssistantInv' /\ KeepsDecisions
    <2>1. ASSUME NEW p \in Proposals, NEW q \in Proposals,
                 Approve(r, p) \/ ApproveBatch(r, p, q)
          PROVE  AssistantInv' /\ KeepsDecisions
      BY <2>1, ApproveStep
    <2>2. CASE \/ \E p \in Proposals : Dismiss(r, p)
               \/ Continue(r) \/ UpdateModel(r)
               \/ \E pol \in Policies : UpdatePolicy(r, pol)
      BY <2>2, DecideStep
    <2> QED
      BY <1>5, <2>1, <2>2 DEF User
  <1>6. ASSUME NEW t \in Turns, Send(t) \/ CancelTurn(t)
        PROVE  AssistantInv' /\ KeepsDecisions
    BY <1>6, SendStep, CancelStep
  <1> QED
    BY <1>1, <1>2, <1>3, <1>4, <1>5, <1>6, OutsideStep, DeleteStep, RestartStep DEF Next

\* The effect of a proposal happens at most once, and what begin_operation and
\* finish_operation record about it is true, in every conversation.
THEOREM EffectsHappenOnce == Spec => []AppliedOnce
  <1>1. AssistantInv => AppliedOnce
    BY DEF AssistantInv
  <1> QED
    BY <1>1, InitHolds, NextHolds, PTL DEF Spec

\* Stops, dismissals, outcomes and ended turns are final in every conversation:
\* no row that cancel_turn, dismiss_proposal, finish_operation or
\* recover_interrupted settled changes again.
THEOREM DecisionsAreFinal == Spec => DecisionsHold
  BY InitHolds, NextHolds, PTL DEF Spec, DecisionsHold
=============================================================================
