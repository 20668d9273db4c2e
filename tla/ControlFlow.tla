----------------------------- MODULE ControlFlow -----------------------------
(***************************************************************************)
(* What the assembly of a function promises about control: blocks run in   *)
(* the order their terminators say, and an edge performs its phi moves     *)
(* once, on the way.  BlockLayout implements this specification whatever   *)
(* the order of the blocks and wherever branches fall through.             *)
(***************************************************************************)
EXTENDS Naturals, Sequences

CONSTANT
    Graphs         \* records with targets, block -> targets of its terminator,
                   \* and moves, the edges <<from, to>> that copy a phi

VARIABLES
    graph,
    block,         \* the block that runs, 0 before the entry
    cond,          \* the condition its terminator tests
    arrived,       \* the edges whose moves were made since the last block
    returned

vars == <<graph, block, cond, arrived, returned>>

Entry == 1
Targets(b) == graph.targets[b]
Chosen(b, c) == IF Len(Targets(b)) = 2 /\ ~c THEN Targets(b)[2] ELSE Targets(b)[1]

Init ==
    /\ graph \in Graphs
    /\ block = 0 /\ cond = FALSE /\ arrived = << >> /\ returned = FALSE

Start ==
    /\ block = 0
    /\ block' = Entry /\ cond' \in BOOLEAN
    /\ UNCHANGED <<graph, arrived, returned>>

Follow ==
    /\ block # 0 /\ Targets(block) # << >>
    /\ LET to == Chosen(block, cond) IN
       /\ block' = to
       /\ arrived' = IF <<block, to>> \in graph.moves THEN <<<<block, to>>>> ELSE << >>
    /\ cond' \in BOOLEAN
    /\ UNCHANGED <<graph, returned>>

Return ==
    /\ block # 0 /\ Targets(block) = << >> /\ ~returned
    /\ returned' = TRUE
    /\ UNCHANGED <<graph, block, cond, arrived>>

Next == Start \/ Follow \/ Return

Spec == Init /\ [][Next]_vars
=============================================================================
