---------------------------- MODULE MCDominators ----------------------------
(***************************************************************************)
(* All graphs of four blocks whose entry has no predecessor, up to the     *)
(* names of the entry's targets; and five blocks of which four are dead,   *)
(* with every choice of at most two successors.                            *)
(***************************************************************************)
EXTENDS Dominators

Later == 2..4
Targets == {<< >>} \cup {<<a>> : a \in Later} \cup {<<a, b>> : a \in Later, b \in Later}
FromEntry == {<<2>>, <<2, 2>>, <<2, 3>>}

DeadTargets(b) ==
    {<< >>} \cup {<<a>> : a \in (2..5) \ {b}}
            \cup {<<c[1], c[2]>> : c \in {d \in ((2..5) \ {b}) \X ((2..5) \ {b}) : d[1] < d[2]}}

MCGraphs ==
    {<<e, x, y, z>> : e \in FromEntry, x \in Targets, y \in Targets, z \in Targets}
    \cup {<<<< >>, w, x, y, z>> : w \in DeadTargets(2), x \in DeadTargets(3), y \in DeadTargets(4),
                                 z \in DeadTargets(5)}
=============================================================================
