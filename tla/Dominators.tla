----------------------------- MODULE Dominators -----------------------------
(***************************************************************************)
(* Dominators::new (ir/pass/dominators.rs): three traversals of one        *)
(* control-flow graph.                                                     *)
(*                                                                         *)
(*   "live"     the blocks the entry reaches: depth-first order, immediate *)
(*              dominators by Cooper, Harvey and Kennedy's iteration,      *)
(*              tree intervals, dominance frontiers                        *)
(*   "regions"  the other blocks: strongly connected components, of which  *)
(*              those no other one enters are the sources                  *)
(*   "dead"     the other blocks below a virtual root that precedes every  *)
(*              member of a source: order, dominators, intervals           *)
(*                                                                         *)
(* Blocks are 1..Len(targets), block 1 is the entry, the virtual root is   *)
(* the number after the last block.                                        *)
(***************************************************************************)
EXTENDS Naturals, Sequences, FiniteSets

CONSTANT
    Graphs         \* the graphs: the targets of each block's terminator

WellFormed(g) ==
    /\ g \in Seq(Seq(Nat)) /\ Len(g) > 0
    /\ \A b \in DOMAIN g : Len(g[b]) <= 2 /\ \A i \in DOMAIN g[b] : g[b][i] \in DOMAIN g

ASSUME GraphAssumption == \A g \in Graphs : WellFormed(g)

None == 0
Entry == 1

(* The verifier lets no block branch to the entry; it builds dominators for *)
(* such a function too, which it then refuses.                              *)
EntryFirst(g) == \A b \in DOMAIN g : \A i \in DOMAIN g[b] : g[b][i] # Entry

ASSUME EntryAssumption == \A g \in Graphs : EntryFirst(g)

Passes == {"live", "regions", "dead"}

VARIABLES
    targets,       \* the terminators' targets, never changed
    pass,          \* the traversal under way
    phase,         \* "order", "components", "sweep", "intersect", "tree" or "done"
    succs,         \* the edges of this pass: node -> sequence of nodes
    stack,         \* the traversal's explicit stack of [node, done]
    seen,          \* nodes the traversal has entered
    postorder,     \* node -> its position in postorder, 0 until it is left
    count,         \* nodes left so far
    idom,          \* node -> immediate dominator or None
    at,            \* the postorder position the sweep handles next
    changed,       \* did this sweep change a dominator?
    node,          \* the node being handled, None between nodes
    waiting,       \* its processed predecessors still to be met
    newIdom,       \* the common dominator of those met
    first, second, \* the two fingers of intersect
    component,     \* dead block -> a member of its component, None at first
    reachable,     \* the blocks the live pass entered
    preorder,      \* pass -> node -> preorder number in the dominator tree
    subtreeEnd,    \* pass -> node -> the first number after its subtree
    numbered,      \* preorder numbers handed out
    frontier       \* block -> its dominance frontier

orderVars == <<stack, seen, postorder, count>>
sweepVars == <<at, changed, node, waiting, newIdom, first, second>>
treeVars == <<preorder, subtreeEnd, numbered>>
resultVars == <<component, reachable, frontier>>
vars == <<targets, pass, phase, succs, orderVars, idom, sweepVars, treeVars, resultVars>>

Blocks == DOMAIN targets
VirtualRoot == Len(targets) + 1
Nodes == 1..VirtualRoot
Root == IF pass = "live" THEN Entry ELSE VirtualRoot

Elements(s) == {s[i] : i \in DOMAIN s}

(* ControlFlowGraph::new: a branch with equal targets has one edge.         *)
Edges(b) ==
    IF Len(targets[b]) = 2 /\ targets[b][1] = targets[b][2]
    THEN <<targets[b][1]>> ELSE targets[b]

Preds(n) == {p \in Nodes : n \in Elements(succs[p])}

Top == stack[Len(stack)]
Below == SubSeq(stack, 1, Len(stack) - 1)
Enter(n) == [node |-> n, done |-> 0]

-----------------------------------------------------------------------------
Init ==
    /\ targets \in Graphs
    /\ pass = "live" /\ phase = "order"
    /\ succs = [n \in Nodes |-> IF n \in Blocks THEN Edges(n) ELSE << >>]
    /\ stack = <<Enter(Entry)>> /\ seen = {Entry}
    /\ postorder = [n \in Nodes |-> 0] /\ count = 0
    /\ idom = [n \in Nodes |-> None]
    /\ at = 0 /\ changed = FALSE /\ node = None /\ waiting = {}
    /\ newIdom = None /\ first = None /\ second = None
    /\ component = [n \in Nodes |-> None] /\ reachable = {}
    /\ preorder = [p \in Passes |-> [n \in Nodes |-> None]]
    /\ subtreeEnd = [p \in Passes |-> [n \in Nodes |-> None]]
    /\ numbered = 0
    /\ frontier = [n \in Nodes |-> {}]

(***************************************************************************)
(* Reverse postorder, with an explicit stack.                              *)
(***************************************************************************)
Visit ==
    /\ phase = "order" /\ stack # << >>
    /\ Top.done < Len(succs[Top.node])
    /\ LET s == succs[Top.node][Top.done + 1]
           advanced == Append(Below, [Top EXCEPT !.done = @ + 1])
       IN  /\ stack' = IF s \in seen THEN advanced ELSE Append(advanced, Enter(s))
           /\ seen' = seen \cup {s}
    /\ UNCHANGED <<targets, pass, phase, succs, postorder, count, idom, sweepVars, treeVars,
                   resultVars>>

Leave ==
    /\ phase = "order" /\ stack # << >>
    /\ Top.done = Len(succs[Top.node])
    /\ stack' = Below
    /\ postorder' = [postorder EXCEPT ![Top.node] = count + 1]
    /\ count' = count + 1
    /\ UNCHANGED <<targets, pass, phase, succs, seen, idom, sweepVars, treeVars, resultVars>>

(* The root is its own dominator while the iteration runs, a sentinel.      *)
Ordered ==
    /\ phase = "order" /\ stack = << >> /\ pass # "regions"
    /\ phase' = "sweep"
    /\ idom' = [n \in Nodes |-> IF n = Root THEN Root ELSE None]
    /\ at' = count - 1 /\ changed' = FALSE
    /\ UNCHANGED <<targets, pass, succs, orderVars, node, waiting, newIdom, first, second,
                   treeVars, resultVars>>

(***************************************************************************)
(* compute_idoms: sweeps over the reverse postorder until one changes      *)
(* nothing.                                                                *)
(***************************************************************************)
(* Mutant: predecessors without a dominator are met too.                    *)
EveryPred(n) == Preds(n)
ProcessedPreds(n) == {p \in Preds(n) : idom[p] # None}

BeginNode ==
    /\ phase = "sweep" /\ node = None /\ at > 0
    /\ \E n \in Nodes :
          /\ postorder[n] = at
          /\ IF ProcessedPreds(n) = {}
               THEN at' = at - 1 /\ UNCHANGED <<node, waiting, newIdom>>
               ELSE \E p \in ProcessedPreds(n) :
                       /\ \A q \in ProcessedPreds(n) : p <= q
                       /\ node' = n /\ newIdom' = p
                       /\ waiting' = ProcessedPreds(n) \ {p}
                       /\ at' = at
    /\ UNCHANGED <<targets, pass, phase, succs, orderVars, idom, changed, first, second,
                   treeVars, resultVars>>

BeginIntersect ==
    /\ phase = "sweep" /\ node # None
    /\ \E p \in waiting :
          /\ \A q \in waiting : p <= q
          /\ first' = p /\ second' = newIdom
          /\ waiting' = waiting \ {p}
    /\ phase' = "intersect"
    /\ UNCHANGED <<targets, pass, succs, orderVars, idom, at, changed, node, newIdom,
                   treeVars, resultVars>>

(* The finger further from the root climbs: a node left earlier has the     *)
(* larger reverse-postorder index.                                          *)
Deeper(m, n) == postorder[m] < postorder[n]

RaiseFirst ==
    /\ phase = "intersect" /\ Deeper(first, second)
    /\ first' = idom[first]
    /\ UNCHANGED <<targets, pass, phase, succs, orderVars, idom, at, changed, node, waiting,
                   newIdom, second, treeVars, resultVars>>

RaiseSecond ==
    /\ phase = "intersect" /\ Deeper(second, first)
    /\ second' = idom[second]
    /\ UNCHANGED <<targets, pass, phase, succs, orderVars, idom, at, changed, node, waiting,
                   newIdom, first, treeVars, resultVars>>

(* Mutant: what the fingers found is dropped.                               *)
MetAtStart == newIdom
Met == first

EndIntersect ==
    /\ phase = "intersect" /\ first = second
    /\ phase' = "sweep"
    /\ newIdom' = Met
    /\ UNCHANGED <<targets, pass, succs, orderVars, idom, at, changed, node, waiting, first,
                   second, treeVars, resultVars>>

FinishNode ==
    /\ phase = "sweep" /\ node # None /\ waiting = {}
    /\ idom' = [idom EXCEPT ![node] = newIdom]
    /\ changed' = (changed \/ idom[node] # newIdom)
    /\ node' = None
    /\ at' = at - 1
    /\ UNCHANGED <<targets, pass, phase, succs, orderVars, waiting, newIdom, first, second,
                   treeVars, resultVars>>

(* Mutant: one sweep is taken to be enough.                                 *)
OneSweepSettles == TRUE
Settled == ~changed

EndSweep ==
    /\ phase = "sweep" /\ node = None /\ at = 0 /\ ~Settled
    /\ at' = count - 1 /\ changed' = FALSE
    /\ UNCHANGED <<targets, pass, phase, succs, orderVars, idom, node, waiting, newIdom, first,
                   second, treeVars, resultVars>>

(* Mutant: the sentinel stays, so that the root is its own child.           *)
KeepSentinel == idom
DropSentinel == [idom EXCEPT ![Root] = None]

SweepsEnd ==
    /\ phase = "sweep" /\ node = None /\ at = 0 /\ Settled
    /\ idom' = DropSentinel
    /\ phase' = "tree"
    /\ stack' = <<Enter(Root)>>
    /\ preorder' = [preorder EXCEPT ![pass][Root] = 1]
    /\ numbered' = 1
    /\ UNCHANGED <<targets, pass, succs, seen, postorder, count, sweepVars, subtreeEnd, resultVars>>

(***************************************************************************)
(* compute_tree_intervals: number the dominator tree; the subtree of a     *)
(* node is an interval of numbers.                                         *)
(***************************************************************************)
Children(n) == {c \in Nodes : idom[c] = n}
ChildrenLeft(entry) == {c \in Children(entry.node) : c > entry.done}

NumberChild ==
    /\ phase = "tree" /\ stack # << >>
    /\ \E c \in ChildrenLeft(Top) :
          /\ \A d \in ChildrenLeft(Top) : c <= d
          /\ stack' = Append(Append(Below, [Top EXCEPT !.done = c]), Enter(c))
          /\ preorder' = [preorder EXCEPT ![pass][c] = numbered + 1]
    /\ numbered' = numbered + 1
    /\ UNCHANGED <<targets, pass, phase, succs, seen, postorder, count, idom, sweepVars,
                   subtreeEnd, resultVars>>

NumberEnd ==
    /\ phase = "tree" /\ stack # << >> /\ ChildrenLeft(Top) = {}
    /\ stack' = Below
    /\ subtreeEnd' = [subtreeEnd EXCEPT ![pass][Top.node] = numbered + 1]
    /\ UNCHANGED <<targets, pass, phase, succs, seen, postorder, count, idom, sweepVars,
                   preorder, numbered, resultVars>>

(* compute_frontier: from each predecessor of a join up to the join's       *)
(* dominator.  Chain(n, stop) are the nodes passed before stop or the root. *)
Chain(n, stop) ==
    LET step[k \in 0..Len(targets)] ==
          IF k = 0 THEN {n} \ {stop}
          ELSE LET before == step[k - 1] IN
               before \cup ({idom[m] : m \in before} \ {stop, None})
    IN  step[Len(targets)]
LivePreds(b) == {p \in Preds(b) : p \in seen}
(* Mutant: the walk stops at the join itself.                               *)
RunnersPastJoin(b) == (UNION {Chain(p, idom[b]) : p \in LivePreds(b)}) \ {b}
Runners(b) == UNION {Chain(p, idom[b]) : p \in LivePreds(b)}
Joins == {b \in Blocks \cap seen : Cardinality(LivePreds(b)) >= 2 /\ idom[b] # None}

Frontiers == [n \in Nodes |-> {b \in Joins : n \in Runners(b)}]

(* The dead part of the graph: only edges between dead blocks.  A branch    *)
(* has two targets, so when one goes at most one stays.                     *)
DeadSuccs(b, live) ==
    LET kept == Elements(Edges(b)) \ live IN
    IF kept = Elements(Edges(b)) THEN Edges(b)
    ELSE IF kept = {} THEN << >> ELSE <<CHOOSE s \in kept : TRUE>>
DeadEdges(live) ==
    [n \in Nodes |-> IF n \in Blocks \ live THEN DeadSuccs(n, live) ELSE << >>]

LiveTreeEnd ==
    /\ phase = "tree" /\ stack = << >> /\ pass = "live"
    /\ frontier' = Frontiers
    /\ reachable' = seen
    /\ pass' = "regions" /\ phase' = "order"
    /\ succs' = DeadEdges(seen)
    /\ postorder' = [n \in Nodes |-> 0] /\ count' = 0
    /\ UNCHANGED <<targets, stack, seen, idom, sweepVars, treeVars, component>>

DeadTreeEnd ==
    /\ phase = "tree" /\ stack = << >> /\ pass = "dead"
    /\ phase' = "done"
    /\ UNCHANGED <<targets, pass, succs, orderVars, idom, sweepVars, treeVars, resultVars>>

(***************************************************************************)
(* unreachable_source_scc_members: Kosaraju's two traversals.              *)
(***************************************************************************)
Unseen == Blocks \ seen

NextStart ==
    /\ phase = "order" /\ pass = "regions" /\ stack = << >>
    /\ \E b \in Unseen :
          /\ \A c \in Unseen : b <= c
          /\ stack' = <<Enter(b)>> /\ seen' = seen \cup {b}
    /\ UNCHANGED <<targets, pass, phase, succs, postorder, count, idom, sweepVars, treeVars,
                   resultVars>>

AllOrdered ==
    /\ phase = "order" /\ pass = "regions" /\ stack = << >> /\ Unseen = {}
    /\ phase' = "components"
    /\ at' = count
    /\ UNCHANGED <<targets, pass, succs, orderVars, idom, changed, node, waiting, newIdom, first,
                   second, treeVars, resultVars>>

(* The blocks without a component that reach b through such blocks.         *)
Free == {n \in Blocks \ reachable : component[n] = None}
ReachBack(b) ==
    LET step[k \in 0..Len(targets)] ==
          IF k = 0 THEN {b}
          ELSE LET before == step[k - 1] IN
               before \cup ((UNION {Preds(n) : n \in before}) \cap Free)
    IN  step[Len(targets)]

Collect ==
    /\ phase = "components" /\ at > 0
    /\ \E b \in Blocks \ reachable :
          /\ postorder[b] = at
          /\ component' = IF component[b] # None THEN component
                          ELSE [n \in Nodes |-> IF n \in ReachBack(b) THEN b ELSE component[n]]
    /\ at' = at - 1
    /\ UNCHANGED <<targets, pass, phase, succs, orderVars, idom, changed, node, waiting, newIdom,
                   first, second, treeVars, reachable, frontier>>

(* Members of the components no edge enters from another one.               *)
(* Mutant: only blocks without predecessors start a region.                 *)
RootlessSkipped == {n \in Blocks \ reachable : Preds(n) = {}}
SourceMembers ==
    {n \in Blocks \ reachable :
        \A p, q \in Blocks \ reachable :
            q \in Elements(succs[p]) /\ component[q] = component[n] => component[p] = component[q]}

Ascending(S) == {s \in [1..Cardinality(S) -> S] : \A i, j \in DOMAIN s : i < j => s[i] < s[j]}

BeginDead ==
    /\ phase = "components" /\ at = 0
    /\ \E roots \in Ascending(SourceMembers) : succs' = [succs EXCEPT ![VirtualRoot] = roots]
    /\ pass' = "dead" /\ phase' = "order"
    /\ stack' = <<Enter(VirtualRoot)>> /\ seen' = {VirtualRoot}
    /\ postorder' = [n \in Nodes |-> 0] /\ count' = 0
    /\ UNCHANGED <<targets, idom, sweepVars, treeVars, resultVars>>

Done == phase = "done" /\ UNCHANGED vars

Next ==
    \/ Visit \/ Leave \/ Ordered
    \/ BeginNode \/ BeginIntersect \/ RaiseFirst \/ RaiseSecond \/ EndIntersect \/ FinishNode
    \/ EndSweep \/ SweepsEnd
    \/ NumberChild \/ NumberEnd \/ LiveTreeEnd \/ DeadTreeEnd
    \/ NextStart \/ AllOrdered \/ Collect \/ BeginDead
    \/ Done

Spec == Init /\ [][Next]_vars
-----------------------------------------------------------------------------
(* Every variable has its type; no counter passes the number of nodes.      *)
TypeOK ==
    /\ WellFormed(targets)
    /\ pass \in Passes
    /\ phase \in {"order", "components", "sweep", "intersect", "tree", "done"}
    /\ succs \in [Nodes -> Seq(Nodes)]
    /\ stack \in Seq([node : Nodes, done : 0..VirtualRoot])
    /\ seen \subseteq Nodes
    /\ postorder \in [Nodes -> 0..VirtualRoot] /\ count \in 0..VirtualRoot
    /\ idom \in [Nodes -> Nodes \cup {None}]
    /\ at \in 0..VirtualRoot /\ changed \in BOOLEAN
    /\ node \in Nodes \cup {None} /\ waiting \subseteq Nodes
    /\ newIdom \in Nodes \cup {None}
    /\ first \in Nodes \cup {None} /\ second \in Nodes \cup {None}
    /\ component \in [Nodes -> Nodes \cup {None}]
    /\ reachable \subseteq Nodes
    /\ preorder \in [Passes -> [Nodes -> 0..VirtualRoot]]
    /\ subtreeEnd \in [Passes -> [Nodes -> 0..(VirtualRoot + 1)]]
    /\ numbered \in 0..VirtualRoot
    /\ frontier \in [Nodes -> SUBSET Nodes]

-----------------------------------------------------------------------------
(* intersect unwraps idom[finger] with "processed RPO predecessor must have *)
(* an idom": no finger ever rests on a node without one.                    *)
FingersProcessed ==
    phase = "intersect" => \A f \in {first, second} : f # None /\ idom[f] # None

(* A dominator lies strictly above its node in the order, so a finger that  *)
(* climbs always comes nearer the root: intersect ends, and the dominator   *)
(* tree has no cycle.                                                       *)
LinksClimb ==
    phase \in {"sweep", "intersect"} =>
        \A n \in Nodes \ {Root} : idom[n] # None => Deeper(n, idom[n])

(* Once a node has a dominator, later sweeps only move it up: the iteration *)
(* cannot go back and forth, which is why it ends.                          *)
DominatorsOnlyRise ==
    [][phase = "sweep" /\ phase' \in {"sweep", "intersect"} =>
        \A n \in Nodes : idom[n] # None => idom'[n] # None /\ ~Deeper(idom'[n], idom[n])]_vars

-----------------------------------------------------------------------------
(* The queries passes ask of the finished analysis.                         *)
Within(p, a, b) == preorder[p][a] <= preorder[p][b] /\ preorder[p][b] < subtreeEnd[p][a]

Dominates(a, b) ==
    IF b \notin reachable THEN a = b
    ELSE a \in reachable /\ Within("live", a, b)

DominatesForAvailability(a, b) ==
    IF b \in reachable THEN Dominates(a, b)
    ELSE IF a \in reachable THEN a = Entry
    ELSE preorder["dead"][a] # None /\ Within("dead", a, b)

(* A reference from paths: what is reached from a set of blocks without     *)
(* entering the avoided ones.                                               *)
ReachedAvoiding(from, avoided) ==
    LET step[k \in 0..Len(targets)] ==
          IF k = 0 THEN from \ avoided
          ELSE LET before == step[k - 1] IN
               before \cup ((UNION {Elements(targets[b]) : b \in before}) \ avoided)
    IN  step[Len(targets)]
Live == ReachedAvoiding({Entry}, {})

(* The interval test answers exactly whether every path from the entry to b *)
(* passes a, for every pair of live blocks; a dead block has no dominator   *)
(* but itself.                                                              *)
DominatesExact ==
    phase = "done" =>
        \A a, b \in Blocks :
            Dominates(a, b) <=> IF b \in Live THEN b \notin ReachedAvoiding({Entry}, {a}) ELSE a = b

(* Phi placement relies on the frontier: j is in the frontier of b exactly  *)
(* when b dominates a live predecessor of j but not j strictly.             *)
FrontierExact ==
    phase = "done" =>
        LET dom == [a \in Blocks |-> {b \in Live : b \notin ReachedAvoiding({Entry}, {a})}] IN
        \A b \in Live :
            frontier[b] = {j \in Live :
                /\ \E p \in Live : j \in Elements(targets[p]) /\ p \in dom[b]
                /\ ~(j \in dom[b] /\ j # b)}

(* In dead code, a definition is available in b exactly when every walk     *)
(* into b that starts where nothing further back can lead passes it: a      *)
(* block from which every block that reaches it can be reached again.       *)
AvailabilityExact ==
    phase = "done" =>
        LET dead == Blocks \ Live
            reach == [b \in dead |-> ReachedAvoiding({b}, {})]
            starts == {b \in dead : \A c \in dead : b \in reach[c] => c \in reach[b]}
        IN  \A a, b \in dead :
               DominatesForAvailability(a, b) <=> b \notin ReachedAvoiding(starts, {a})
=============================================================================
