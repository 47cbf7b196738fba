---------------------------- MODULE DesignHistory ----------------------------
(***************************************************************************)
(* The saved design of one workspace: its content, the snapshot rows that  *)
(* undo and redo move through, the pruning that bounds them, and the       *)
(* diagram positions that follow the content.  Every operation is one      *)
(* metadata transaction under the lock of the design row, so it is one     *)
(* action.  A request with a stale revision, one that validation or a      *)
(* running migration refuses, and a transaction that rolls back change     *)
(* nothing.  A content is the set of objects it holds.                     *)
(***************************************************************************)
EXTENDS Naturals, FiniteSets, Sequences

CONSTANTS
    Objects,        \* objects a design may hold
    Groups,         \* history_group_id of a gesture in progress
    Places,         \* positions on the diagram
    DefaultLimit,   \* MAX_RETAINED_HISTORY_ACTIONS
    Limits,         \* values of design_history_actions_per_workspace
    MaxRevision,    \* bound: design revision
    None

ASSUME HistoryAssumption ==
    /\ DefaultLimit \in Nat \ {0} /\ MaxRevision \in Nat
    /\ Limits # {} /\ Limits \subseteq Nat \ {0}
    /\ None \notin Groups \cup Places

VARIABLES
    design,     \* workspace_designs: revision and content
    rows,       \* workspace_design_history_entries, by source_design_revision
    state,      \* workspace_design_history_state: cursor and tip, or None
    layout,     \* workspace_design_layouts: design revision and positions
    memory,     \* workspace_design_position_memory
    limit       \* PostgresDesignRepository._history_action_limit

vars == <<design, rows, state, layout, memory, limit>>

Contents == SUBSET Objects
Revisions == 0..MaxRevision
Positions(c) == UNION {[d -> Places] : d \in SUBSET c}
Empty == [x \in {} |-> None]

\* f with the entries of g added, those of g winning.
Over(f, g) == [x \in DOMAIN f \cup DOMAIN g |->
                 IF x \in DOMAIN g THEN g[x] ELSE f[x]]

Row(parent, group, content) ==
    [parent |-> parent, group |-> group, content |-> content]

Init ==
    /\ design = [revision |-> 0, content |-> {}]
    /\ rows = Empty
    /\ state = None
    /\ layout = [revision |-> 0, objects |-> Empty]
    /\ memory = Empty
    /\ limit \in Limits

-----------------------------------------------------------------------------
\* Chains.  A chain is the sequence of row ids from the root to the tip.

\* The row ids from the root to i, along the parent keys of rs.
Chain(rs, i) ==
    LET up[j \in DOMAIN rs] ==
          IF rs[j].parent = None THEN <<j>> ELSE Append(up[rs[j].parent], j)
    IN  up[i]

history_group(rs, i) == IF rs[i].group = None THEN i ELSE rs[i].group

\* Does the row at k end the run of rows of one action?
EndsAction(rs, ch, k) ==
    k = Len(ch) \/ history_group(rs, ch[k]) # history_group(rs, ch[k + 1])

\* The first row with at most lim actions after it.
history_boundary_index(rs, ch, lim) ==
    CHOOSE k \in DOMAIN ch :
      LET actions(i) == Cardinality({j \in (i + 1)..Len(ch) : EndsAction(rs, ch, j)})
      IN  actions(k) <= lim /\ \A i \in 1..(k - 1) : actions(i) > lim

\* Mutant: undo passes over the action before the cursor's.
UndoTargetTooFar(rs, ch, c) ==
    {t \in 1..(c - 1) : t = 1 \/ t < c - 1}

\* The rows undo may land on, the last of which it takes: below the action at
\* the cursor.
UndoTargets(rs, ch, c) ==
    {t \in 1..(c - 1) :
       t = 1 \/ history_group(rs, ch[t]) # history_group(rs, ch[c])}

\* The rows of the action after the cursor; redo takes the last.
RedoTargets(rs, ch, c) ==
    {t \in (c + 1)..Len(ch) :
       \A j \in (c + 1)..t : history_group(rs, ch[j]) = history_group(rs, ch[c + 1])}

\* The index undo or redo moves the cursor to; 0 if it is refused.  Undo stops
\* at the boundary of the default limit, whatever the configured one is.
history_target_index(rs, ch, c, action) ==
    LET targets == IF action = "undo" THEN UndoTargets(rs, ch, c)
                                      ELSE RedoTargets(rs, ch, c)
        target == IF targets = {} THEN 0
                  ELSE CHOOSE t \in targets : \A u \in targets : u <= t
    IN  IF action = "undo" /\ target < history_boundary_index(rs, ch, DefaultLimit)
        THEN 0 ELSE target

\* One row per action: the last; and the root.
Compacted(rs, ch) ==
    SelectSeq(ch, LAMBDA i : \E k \in DOMAIN ch :
                               ch[k] = i /\ (k = 1 \/ EndsAction(rs, ch, k)))

retained_history_entries(rs, ch, lim) ==
    LET kept == Compacted(rs, ch)
        b == history_boundary_index(rs, kept, lim)
    IN  IF b = 1 THEN kept ELSE <<kept[1]>> \o SubSeq(kept, b, Len(kept))

-----------------------------------------------------------------------------
\* Steps several transactions share.

\* _ensure_history: the rows and the state row, created when there is none.
EnsuredRows ==
    IF state # None THEN rows
    ELSE Over(rows, [i \in {design.revision} |-> Row(None, None, design.content)])

EnsuredState ==
    IF state # None THEN state
    ELSE [cursor |-> design.revision, tip |-> design.revision]

\* Mutant: rows off the active chain are left behind.
PruneKeepsBranches(rs, st) ==
    LET kept == retained_history_entries(rs, Chain(rs, st.tip), limit)
        relinked == [i \in {kept[k] : k \in DOMAIN kept} |->
                       LET k == CHOOSE j \in DOMAIN kept : kept[j] = i
                       IN  [rs[i] EXCEPT !.parent = IF k = 1 THEN None ELSE kept[k - 1]]]
    IN  /\ rows' = Over(rs, relinked)
        /\ state' = st

\* prune_postgres_history: relink the kept rows and delete the others.  The
\* state row references its cursor ON DELETE CASCADE.
Prune(rs, st) ==
    LET kept == retained_history_entries(rs, Chain(rs, st.tip), limit)
    IN  /\ rows' = [i \in {kept[k] : k \in DOMAIN kept} |->
                      LET k == CHOOSE j \in DOMAIN kept : kept[j] = i
                      IN  [rs[i] EXCEPT !.parent = IF k = 1 THEN None ELSE kept[k - 1]]]
        /\ state' = IF st.cursor \in DOMAIN rows' THEN st ELSE None

\* Mutant: positions are not looked up in the memory.
AdvanceForgets(d) ==
    /\ memory' = Over(memory, layout.objects)
    /\ layout' = [revision |-> d.revision,
                  objects |-> [o \in d.content \cap DOMAIN layout.objects |->
                                 layout.objects[o]]]

\* Mutant: positions of objects the new content lacks stay in the layout.
AdvanceKeepsRemoved(d) ==
    /\ memory' = Over(memory, layout.objects)
    /\ layout' = [revision |-> d.revision, objects |-> memory']

\* _advance_layout: remember every position shown, drop those of objects the
\* new content lacks, and place the objects it has that were placed before.
AdvanceLayout(d) ==
    /\ memory' = Over(memory, layout.objects)
    /\ layout' = [revision |-> d.revision,
                  objects |-> [o \in d.content \cap DOMAIN memory' |-> memory'[o]]]

-----------------------------------------------------------------------------
\* Operations.

\* initialize: an import replaces the pristine root.
Initialize(c, pos) ==
    /\ design.revision = 0 /\ MaxRevision > 0
    /\ design' = [revision |-> 1, content |-> c]
    /\ rows' = [i \in {1} |-> Row(None, None, c)]
    /\ state' = [cursor |-> 1, tip |-> 1]
    /\ layout' = [revision |-> 1, objects |-> pos]
    /\ memory' = Over(memory, pos)
    /\ UNCHANGED limit

\* The row a save records becomes the cursor and the tip: what was undone is
\* off the chain, and pruned.
AppendEntry(c, g) ==
    LET next == design.revision + 1
        st == EnsuredState
        rs == Over(EnsuredRows, [i \in {next} |-> Row(st.cursor, g, c)])
    IN  /\ design.revision < MaxRevision
        /\ design' = [revision |-> next, content |-> c]
        /\ Prune(rs, [cursor |-> next, tip |-> next])
        /\ AdvanceLayout(design')
        /\ UNCHANGED limit

\* replace with operation_kind "edit": the same content again changes nothing.
Edit(c, g) == c # design.content /\ AppendEntry(c, g)

\* replace with "baseline_reset" or "checkpoint", and the checkpoint that
\* reconcile_drift records: always a new row, never part of a gesture.
Checkpoint(c) == AppendEntry(c, None)

\* _move_history
MoveHistory(action) ==
    LET st == EnsuredState
        rs == EnsuredRows
        ch == Chain(rs, st.tip)
        c == CHOOSE k \in DOMAIN ch : ch[k] = st.cursor
        t == history_target_index(rs, ch, c, action)
    IN  /\ design.revision < MaxRevision
        /\ t # 0
        /\ design' = [revision |-> design.revision + 1, content |-> rs[ch[t]].content]
        /\ Prune(rs, [st EXCEPT !.cursor = ch[t]])
        /\ AdvanceLayout(design')
        /\ UNCHANGED limit

Undo == MoveHistory("undo")
Redo == MoveHistory("redo")

\* history_state, snapshot, initial_content: reads that create the history.
ReadHistory ==
    /\ state = None
    /\ rows' = EnsuredRows
    /\ state' = EnsuredState
    /\ UNCHANGED <<design, layout, memory, limit>>

ReplaceLayout(pos) ==
    /\ layout' = [revision |-> design.revision, objects |-> pos]
    /\ memory' = Over(memory, pos)
    /\ UNCHANGED <<design, rows, state, limit>>

Next ==
    \/ \E c \in Contents : \/ \E pos \in Positions(c) : Initialize(c, pos)
                           \/ \E g \in Groups \cup {None} : Edit(c, g)
                           \/ Checkpoint(c)
    \/ Undo
    \/ Redo
    \/ ReadHistory
    \/ \E pos \in Positions(design.content) : ReplaceLayout(pos)

Spec == Init /\ [][Next]_vars
-----------------------------------------------------------------------------
\* Properties.

\* The active chain and the index of the cursor, once there is one.
Active == IF state = None THEN <<>> ELSE Chain(rows, state.tip)
CursorIndex == CHOOSE k \in DOMAIN Active : Active[k] = state.cursor

\* Every variable has its type; a row's parent is an older row.
TypeOK ==
    /\ design \in [revision : Revisions, content : Contents]
    /\ DOMAIN rows \subseteq Revisions
    /\ \A i \in DOMAIN rows :
         rows[i] \in [parent : {j \in DOMAIN rows : j < i} \cup {None},
                      group : Groups \cup {None}, content : Contents]
    /\ state \in [cursor : DOMAIN rows, tip : DOMAIN rows] \cup {None}
    /\ layout.revision \in Revisions
    /\ layout.objects \in Positions(Objects) /\ memory \in Positions(Objects)
    /\ limit \in Limits

HistoryIsOneChain ==
    state # None =>
      \A i \in DOMAIN rows \cup {state.cursor} : \E k \in DOMAIN Active : Active[k] = i

CursorHoldsDesign ==
    state # None => /\ rows[state.cursor].content = design.content
                    /\ EndsAction(rows, Active, CursorIndex)

\* After every save, undo and redo the kept rows are one bounded chain: no
\* undone branch survives a new save (prune_postgres_history), the cursor is on
\* the chain, at the end of an action and with the content of the saved design,
\* and retained_history_entries keeps the root, the boundary and one row for
\* each of at most limit actions, however the saves are grouped.
HistoryInv ==
    /\ TypeOK
    /\ HistoryIsOneChain
    /\ CursorHoldsDesign
    /\ Cardinality(DOMAIN rows) <= limit + 2

\* The diagram belongs to the saved design (_advance_layout, replace_layout):
\* its revision is the design's, it places only objects the design has, and
\* every position shown is also remembered.
LayoutFollowsDesign ==
    /\ layout.revision = design.revision
    /\ DOMAIN layout.objects \subseteq design.content
    /\ \A o \in DOMAIN layout.objects :
         o \in DOMAIN memory /\ memory[o] = layout.objects[o]

\* An object that a save, an undo or a redo brings back stands where it last
\* stood: position memory is "retained across semantic deletion and
\* restoration".
PositionsAreRestored ==
    [][\A o \in (design'.content \ design.content) \cap DOMAIN memory :
         design'.revision > design.revision /\ design.revision > 0
           => o \in DOMAIN layout'.objects /\ layout'.objects[o] = memory[o]]_vars

\* The history is an undo stack: undo and redo are inverse, move by exactly one
\* kept state, and forget none; only a save forgets, and never the root.
Stack == INSTANCE UndoStack WITH
    Contents <- Contents,
    Empty <- {},
    doc <- design.content,
    past <- IF state = None THEN <<>>
            ELSE [k \in 1..(CursorIndex - 1) |-> rows[Active[k]].content],
    future <- IF state = None THEN <<>>
              ELSE [k \in 1..(Len(Active) - CursorIndex) |->
                      rows[Active[CursorIndex + k]].content]

\* Saves, undos, redos and pruning (replace, _move_history,
\* prune_postgres_history) implement the undo stack: undo and redo move by one
\* state, and only a save forgets, never the oldest.
StackSpec == Stack!Spec
=============================================================================
