------------------------------ MODULE UndoStack ------------------------------
(***************************************************************************)
(* What a design history promises a user: a document with the states that  *)
(* undo walks back through and the states that redo walks forward          *)
(* through.  The oldest state is never forgotten; the ones just above it   *)
(* may be, and only when something new is saved.                           *)
(***************************************************************************)
EXTENDS Naturals, Sequences

CONSTANT Contents, Empty

VARIABLES doc, past, future

stack == <<doc, past, future>>

Init == doc = Empty /\ past = <<>> /\ future = <<>>

\* An import replaces the starting point of a document with no history.
Start ==
    /\ past = <<>> /\ future = <<>>
    /\ doc' \in Contents
    /\ UNCHANGED <<past, future>>

\* older with the states 2..k forgotten; the first one stays.
Forget(older, k) == SubSeq(older, 1, 1) \o SubSeq(older, k + 1, Len(older))

\* A save is a new step, or it continues the step that led to doc.  Whatever is
\* forgotten, the state just before the save stays within one undo.
Save ==
    /\ doc' \in Contents
    /\ future' = <<>>
    /\ \E older \in {Append(past, doc), past} \ {<<>>} : \E k \in DOMAIN older :
         /\ k = 1 \/ k < Len(older)
         /\ past' = Forget(older, k)

Undo ==
    /\ past # <<>>
    /\ doc' = past[Len(past)]
    /\ past' = SubSeq(past, 1, Len(past) - 1)
    /\ future' = <<doc>> \o future

Redo ==
    /\ future # <<>>
    /\ doc' = Head(future)
    /\ past' = Append(past, doc)
    /\ future' = Tail(future)

Next == Start \/ Save \/ Undo \/ Redo

Spec == Init /\ [][Next]_stack
=============================================================================
