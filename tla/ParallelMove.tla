---------------------------- MODULE ParallelMove ----------------------------
(***************************************************************************)
(* What the code emitted on a control-flow edge promises: every phi of the *)
(* target block receives, at once, the value its incoming location held    *)
(* when the edge was taken, and no other allocated location changes.       *)
(* PhiCopies implements this specification one machine move at a time.     *)
(***************************************************************************)
EXTENDS Naturals, FiniteSets

CONSTANTS
    Location,     \* the registers and frame slots the allocators hand out
    Remat,        \* constants and globals, re-created instead of being read
    Before,       \* what every location and rematerialised value holds at first
    Edges         \* the edges: records [count, destination, incoming]

VARIABLES edge, contents, moved

vars == <<edge, contents, moved>>

Init ==
    /\ edge \in Edges
    /\ contents = [l \in Location |-> Before[l]]
    /\ moved = FALSE

(* The locations written by the edge, and the simultaneous assignment.     *)
Written == {edge.destination[p] : p \in 1..edge.count}

Move ==
    /\ ~moved
    /\ moved' = TRUE
    /\ \A p \in 1..edge.count :
          contents'[edge.destination[p]] = Before[edge.incoming[p]]
    /\ \A l \in Location \ Written : contents'[l] = contents[l]
    /\ contents' = [l \in Location |-> contents'[l]]
    /\ UNCHANGED edge

Next == Move

Spec == Init /\ [][Next]_vars
FairSpec == Spec /\ WF_vars(Next)
=============================================================================
