---------------------------- MODULE MCBlockLayout ----------------------------
(***************************************************************************)
(* Functions of four blocks, loops of up to eight and early returns, with  *)
(* moves on the edges into joins or on none.                               *)
(***************************************************************************)
EXTENDS BlockLayout

Function(targets, moves, guards, direct, preframe) ==
    [targets |-> targets, moves |-> moves, guards |-> guards, direct |-> direct,
     preframe |-> preframe]

Joins(targets) ==
    {b \in DOMAIN targets : Cardinality({e \in EdgesOf(targets) : e[2] = b}) > 1}
JoinEdges(targets, to) == {e \in EdgesOf(targets) : e[2] \in to}

Later == 2..4
Terms == {<< >>} \cup {<<a>> : a \in Later} \cup {<<a, b>> : a \in Later, b \in Later}
Small == {<<e, x, y, << >>>> : e \in {<<2>>, <<2, 3>>, <<3, 2>>}, x \in Terms, y \in Terms}

(* Nested loops, loops in a row, a loop that leaves from the middle.        *)
Loops ==
    {<<<<2>>, <<3, 6>>, <<4, 5>>, <<3>>, <<2>>, << >>>>,
     <<<<2>>, <<3, 4>>, <<2>>, <<5, 6>>, <<4>>, << >>>>,
     <<<<2>>, <<3, 5>>, <<4>>, <<2>>, <<6, 7>>, <<5>>, << >>>>,
     <<<<2>>, <<3, 5>>, <<4>>, <<2>>, <<6, 7>>, <<5>>, << >>, <<7>>>>,
     <<<<2>>, <<5, 3>>, <<4, 5>>, <<2>>, << >>>>,
     <<<<4>>, <<3>>, <<4>>, <<2, 5>>, << >>>>}

(* A second guard behind the first, with results in a block or in a merge.  *)
Early ==
    {<<<<2, 3>>, << >>, <<2, 4>>, <<4, 5>>, << >>>>,
     <<<<3, 2>>, <<5>>, <<4, 2>>, <<5>>, << >>>>,
     <<<<2, 3>>, <<5>>, <<4, 2>>, <<3>>, << >>>>,
     <<<<2, 3>>, <<5>>, <<4, 2>>, <<2, 4>>, << >>>>,
     <<<<2, 3>>, << >>, <<2, 4>>, << >>>>,
     <<<<3, 2>>, << >>, <<4>>, << >>>>}

(* Guards are the branches nothing else reaches; direct results vary.       *)
DirectOf(s) == {b \in DOMAIN s : Len(s[b]) = 0 \/ (Len(s[b]) = 1 /\ s[s[b][1]] = << >>)}
GuardsOf(s) == {b \in DOMAIN s : Len(s[b]) = 2} \ Joins(s)

MCGraphs ==
    {Function(s, m, {}, {}, FALSE) : s \in Small, m \in {{}}}
    \cup {Function(s, JoinEdges(s, Joins(s)), {}, {}, FALSE) : s \in Small \cup Loops}
    \cup {Function(s, JoinEdges(s, Joins(s) \ (GuardsOf(s) \cup DirectOf(s))), GuardsOf(s),
                   DirectOf(s), preframe) : s \in Early, preframe \in BOOLEAN}
    \cup {Function(s, JoinEdges(s, (Joins(s) \ GuardsOf(s)) \ {2}), GuardsOf(s),
                   DirectOf(s) \cap {2}, TRUE) : s \in Early}
=============================================================================
