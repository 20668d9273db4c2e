-------------------------- MODULE DominatorsProofs --------------------------
(***************************************************************************)
(* Theorems about the dominator analysis, for every set of graphs.  The    *)
(* fingers of intersect always rest on processed nodes, and every          *)
(* dominator found lies strictly above its node in the depth-first order.  *)
(* The finished analysis is exact: a block answers to dominate a live one  *)
(* if and only if every path from the entry leads through it, the frontier *)
(* of a live block is where its dominance ends, and in dead code           *)
(* availability is dominance from where the walks into it can begin.       *)
(***************************************************************************)
EXTENDS Dominators, Iteration, SequenceTheorems

-----------------------------------------------------------------------------
(* The inductive invariant.                                                 *)

(* The types of what the order and the sweeps work on, without the bounds.  *)
Frames == [node : Nodes, done : Nat]

Typed ==
    /\ WellFormed(targets)
    /\ pass \in Passes
    /\ phase \in {"order", "components", "sweep", "intersect", "tree", "done"}
    /\ succs \in [Nodes -> Seq(Nodes)]
    /\ stack \in Seq(Frames)
    /\ seen \subseteq Nodes
    /\ postorder \in [Nodes -> Nat] /\ count \in Nat
    /\ idom \in [Nodes -> Nodes \cup {None}]
    /\ at \in Nat
    /\ node \in Nodes \cup {None} /\ waiting \subseteq Nodes
    /\ newIdom \in Nodes \cup {None}
    /\ first \in Nodes \cup {None} /\ second \in Nodes \cup {None}

OnStack(n) == \E i \in DOMAIN stack : stack[i].node = n

(* Positions are handed out once.                                           *)
Positions ==
    pass # "regions" =>
        /\ \A n \in Nodes : postorder[n] <= count
        /\ \A m, n \in Nodes : postorder[m] > 0 /\ postorder[m] = postorder[n] => m = n
        /\ \A n \in Nodes : postorder[n] > 0 => n \in seen

(* The stack is a path from the root to nodes not yet left.                 *)
StackIsPath ==
    pass # "regions" /\ phase = "order" =>
        /\ \A i \in DOMAIN stack : stack[i].node \in seen /\ postorder[stack[i].node] = 0
        /\ \A i, j \in DOMAIN stack : stack[i].node = stack[j].node => i = j
        /\ \A i \in DOMAIN stack :
              i > 1 => stack[i].node \in Elements(succs[stack[i - 1].node])
        /\ stack # << >> => stack[1].node = Root
        /\ stack = << >> => postorder[Root] = count /\ count > 0

(* A node other than the root has a predecessor that is left after it.      *)
HasParent ==
    pass # "regions" /\ phase \in {"order", "sweep", "intersect"} =>
        \A n \in Nodes \ {Root} : postorder[n] > 0 =>
            \E p \in Preds(n) :
                \/ postorder[p] > postorder[n]
                \/ phase = "order" /\ OnStack(p)

Sweeping == phase \in {"sweep", "intersect"}

(* Processed nodes are closed under dominators and hold all nodes the sweep *)
(* has passed.                                                              *)
Processed ==
    Sweeping =>
        /\ pass # "regions"
        /\ count > 0
        /\ idom[Root] # None
        /\ \A n \in Nodes : idom[n] # None => idom[idom[n]] # None
        /\ \A n \in Nodes : postorder[n] > at => idom[n] # None

(* The sweeps never give the root another dominator than itself.            *)
RootSelf ==
    Sweeping => idom[Root] = Root /\ postorder[Root] = count /\ at < count

(* The node being handled: a processed predecessor is waiting, or lies no   *)
(* higher than what has been found so far.                                  *)
Handling ==
    /\ ~Sweeping => node = None
    /\ phase = "intersect" => node # None
    /\ Sweeping /\ node # None =>
         /\ at > 0 /\ postorder[node] = at
         /\ newIdom # None /\ idom[newIdom] # None
         /\ \A p \in waiting : idom[p] # None
         /\ \A p \in Preds(node) : idom[p] # None =>
               \/ p \in waiting
               \/ phase = "sweep" /\ postorder[p] <= postorder[newIdom]
               \/ phase = "intersect" /\ (postorder[p] <= postorder[first]
                                            \/ postorder[p] <= postorder[second])

IInv ==
    /\ Typed
    /\ Positions
    /\ StackIsPath
    /\ HasParent
    /\ Processed
    /\ Handling
    /\ RootSelf
    /\ FingersProcessed
    /\ LinksClimb

-----------------------------------------------------------------------------
(* Facts about graphs and the stack.                                        *)
LEMMA BlockFacts ==
    ASSUME WellFormed(targets)
    PROVE  /\ Len(targets) \in Nat /\ Len(targets) > 0
           /\ Blocks = 1..Len(targets)
           /\ Blocks \subseteq Nodes
           /\ VirtualRoot \in Nodes /\ Entry \in Nodes /\ Root \in Nodes
           /\ Nodes \subseteq Nat /\ None \notin Nodes
  BY DEF WellFormed, Blocks, Nodes, VirtualRoot, Entry, Root, None

LEMMA EdgesType ==
    ASSUME WellFormed(targets), NEW b \in Blocks
    PROVE  Edges(b) \in Seq(Nodes)
  <1>1. targets[b] \in Seq(Nat)
    BY DEF WellFormed, Blocks
  <1>2. \A i \in DOMAIN targets[b] : targets[b][i] \in Nodes
    BY BlockFacts DEF WellFormed, Blocks
  <1>3. targets[b] \in Seq(Nodes)
    BY <1>1, <1>2
  <1> QED
    BY <1>3 DEF Edges

LEMMA DeadEdgesType ==
    ASSUME WellFormed(targets), NEW live
    PROVE  DeadEdges(live) \in [Nodes -> Seq(Nodes)]
  <1>1. ASSUME NEW b \in Blocks
        PROVE  DeadSuccs(b, live) \in Seq(Nodes)
    <2>1. Edges(b) \in Seq(Nodes)
      BY EdgesType
    <2>2. Elements(Edges(b)) \subseteq Nodes
      BY <2>1 DEF Elements
    <2> DEFINE kept == Elements(Edges(b)) \ live
    <2>3. kept # {} => (CHOOSE s \in kept : TRUE) \in Nodes
      BY <2>2
    <2> QED
      BY <2>1, <2>3 DEF DeadSuccs
  <1> QED
    BY <1>1 DEF DeadEdges

LEMMA FrontFacts ==
    ASSUME NEW S, NEW q \in Seq(S), q # << >>
    PROVE  /\ Len(q) \in Nat /\ Len(q) > 0
           /\ q[Len(q)] \in S
           /\ SubSeq(q, 1, Len(q) - 1) \in Seq(S)
           /\ Len(SubSeq(q, 1, Len(q) - 1)) = Len(q) - 1
           /\ \A i \in 1..(Len(q) - 1) : SubSeq(q, 1, Len(q) - 1)[i] = q[i]
  <1>1. Len(q) \in Nat /\ Len(q) > 0 /\ q[Len(q)] \in S
    OBVIOUS
  <1> DEFINE m == Len(q) - 1
  <1>2. m \in Nat /\ m \in Int /\ \A i \in 1..m : q[i] \in S
    BY <1>1
  <1> HIDE DEF m
  <1>3. /\ SubSeq(q, 1, m) \in Seq(S)
        /\ Len(SubSeq(q, 1, m)) = IF 1 <= m THEN m - 1 + 1 ELSE 0
        /\ \A i \in 1..(m - 1 + 1) : SubSeq(q, 1, m)[i] = q[1 + i - 1]
    BY <1>2, SubSeqProperties
  <1>4. Len(SubSeq(q, 1, m)) = m /\ \A i \in 1..m : SubSeq(q, 1, m)[i] = q[i]
    BY <1>2, <1>3
  <1> QED
    BY <1>1, <1>3, <1>4 DEF m

LEMMA StackFacts ==
    ASSUME Typed, stack # << >>
    PROVE  /\ Len(stack) \in Nat /\ Len(stack) > 0
           /\ Top \in Frames /\ Top = stack[Len(stack)]
           /\ Top.node \in Nodes /\ Top.done \in Nat
           /\ Below \in Seq(Frames)
           /\ Len(Below) = Len(stack) - 1
           /\ \A i \in 1..(Len(stack) - 1) : Below[i] = stack[i]
  <1>1. stack \in Seq(Frames)
    BY DEF Typed
  <1>2. Top \in Frames /\ Below \in Seq(Frames)
    BY <1>1, FrontFacts DEF Top, Below
  <1>3. Top.node \in Nodes /\ Top.done \in Nat
    BY <1>2 DEF Frames
  <1> QED
    BY <1>1, <1>2, <1>3, FrontFacts DEF Top, Below

-----------------------------------------------------------------------------
(* Types.                                                                   *)
LEMMA TypedInit ==
    ASSUME Init
    PROVE  Typed
  <1>1. WellFormed(targets)
    BY GraphAssumption DEF Init
  <1>2. \A b \in Blocks : Edges(b) \in Seq(Nodes)
    BY <1>1, EdgesType
  <1>3. succs \in [Nodes -> Seq(Nodes)]
    BY <1>2 DEF Init
  <1>4. stack \in Seq(Frames)
    BY <1>1, BlockFacts DEF Init, Enter, Frames
  <1> QED
    BY <1>1, <1>3, <1>4, BlockFacts DEF Init, Typed, Passes

LEMMA TypedStep ==
    ASSUME Typed, StackIsPath, Processed, Handling, FingersProcessed, [Next]_vars
    PROVE  Typed'
  <1> USE BlockFacts DEF Typed, Passes
  <1>1. CASE Visit
    <2> DEFINE s == succs[Top.node][Top.done + 1]
               advanced == Append(Below, [Top EXCEPT !.done = @ + 1])
    <2>0. stack # << >> /\ phase = "order" /\ Top.done < Len(succs[Top.node])
      BY <1>1 DEF Visit
    <2>1. s \in Nodes
      <3>1. Top.node \in Nodes /\ Top.done \in Nat
        BY <2>0, StackFacts
      <3>2. succs[Top.node] \in Seq(Nodes)
        BY <3>1
      <3>3. Top.done + 1 \in 1..Len(succs[Top.node])
        BY ONLY <2>0, <3>1, <3>2
      <3> QED
        BY ONLY <3>2, <3>3
    <2>2. advanced \in Seq(Frames)
      <3>0. Top \in Frames /\ Top.done \in Nat
        BY <2>0, StackFacts
      <3>1. [Top EXCEPT !.done = @ + 1] \in Frames
        BY ONLY <3>0 DEF Frames
      <3> QED
        BY <2>0, <3>1, StackFacts
    <2>3. Append(advanced, Enter(s)) \in Seq(Frames)
      <3>1. Enter(s) \in Frames
        BY <2>1 DEF Enter, Frames
      <3> QED
        BY <2>2, <3>1
    <2>4. stack' \in Seq(Frames) /\ seen' \subseteq Nodes
      BY <1>1, <2>1, <2>2, <2>3 DEF Visit
    <2> QED
      BY <1>1, <2>4 DEF Visit, sweepVars, Frames, Nodes, VirtualRoot
  <1>2. CASE Leave
    <2>1. stack' \in Seq(Frames)
      BY <1>2, StackFacts DEF Leave
    <2>2. postorder' \in [Nodes -> Nat] /\ count' \in Nat
      <3>1. count \in Nat
        OBVIOUS
      <3>2. count + 1 \in Nat
        BY ONLY <3>1
      <3> QED
        BY <1>2, <3>2 DEF Leave
    <2> QED
      BY <1>2, <2>1, <2>2 DEF Leave, sweepVars, Frames, Nodes, VirtualRoot
  <1>3. CASE Ordered
    <2>1. count > 0
      BY <1>3 DEF Ordered, StackIsPath
    <2> QED
      BY <1>3, <2>1 DEF Ordered, orderVars, Frames, Nodes, VirtualRoot, Root
  <1>4. CASE BeginNode
    <2>1. at' \in Nat
      <3>1. at > 0 /\ at' \in {at, at - 1}
        BY <1>4 DEF BeginNode
      <3>2. at \in Nat
        BY DEF Typed
      <3> QED
        BY ONLY <3>1, <3>2
    <2>2. node' \in Nodes \cup {None} /\ newIdom' \in Nodes \cup {None} /\ waiting' \subseteq Nodes
      BY <1>4 DEF BeginNode, ProcessedPreds, Preds
    <2> QED
      BY <1>4, <2>1, <2>2 DEF BeginNode, orderVars, Frames, Nodes, VirtualRoot
  <1>5. CASE BeginIntersect
    BY <1>5 DEF BeginIntersect, orderVars, Frames, Nodes, VirtualRoot
  <1>6. CASE RaiseFirst
    <2>1. first \in Nodes
      BY <1>6 DEF RaiseFirst, FingersProcessed
    <2>2. first' \in Nodes \cup {None}
      BY <1>6, <2>1 DEF RaiseFirst
    <2> QED
      BY <1>6, <2>2 DEF RaiseFirst, orderVars, Frames, Nodes, VirtualRoot
  <1>7. CASE RaiseSecond
    <2>1. second \in Nodes
      BY <1>7 DEF RaiseSecond, FingersProcessed
    <2>2. second' \in Nodes \cup {None}
      BY <1>7, <2>1 DEF RaiseSecond
    <2> QED
      BY <1>7, <2>2 DEF RaiseSecond, orderVars, Frames, Nodes, VirtualRoot
  <1>8. CASE EndIntersect
    BY <1>8 DEF EndIntersect, orderVars, Frames, Nodes, VirtualRoot, Met
  <1>9. CASE FinishNode
    <2>1. at > 0 /\ newIdom # None
      BY <1>9 DEF FinishNode, Handling, Sweeping
    <2> QED
      BY <1>9, <2>1 DEF FinishNode, orderVars, Frames, Nodes, VirtualRoot
  <1>10. CASE EndSweep
    <2>1. count > 0
      BY <1>10 DEF EndSweep, Processed, Sweeping
    <2> QED
      BY <1>10, <2>1 DEF EndSweep, orderVars, Frames, Nodes, VirtualRoot
  <1>11. CASE SweepsEnd
    BY <1>11 DEF SweepsEnd, DropSentinel, sweepVars, Enter, Frames, Nodes, VirtualRoot
  <1>12. CASE NumberChild
    <2>1. PICK c \in ChildrenLeft(Top) :
             stack' = Append(Append(Below, [Top EXCEPT !.done = c]), Enter(c))
      BY <1>12 DEF NumberChild
    <2>2. c \in Nodes
      BY <2>1 DEF ChildrenLeft, Children
    <2>3. [Top EXCEPT !.done = c] \in Frames /\ Enter(c) \in Frames
      BY <1>12, <2>2, StackFacts DEF NumberChild, Frames, Enter
    <2>4. stack' \in Seq(Frames)
      <3> HIDE DEF Frames, Top, Below
      <3>1. Below \in Seq(Frames)
        BY <1>12, StackFacts DEF NumberChild
      <3> QED
        BY <2>1, <2>3, <3>1
    <2> QED
      BY <1>12, <2>4 DEF NumberChild, sweepVars, Frames, Nodes, VirtualRoot
  <1>13. CASE NumberEnd
    BY <1>13, StackFacts DEF NumberEnd, sweepVars, Frames, Nodes, VirtualRoot
  <1>14. CASE LiveTreeEnd
    <2>1. succs' \in [Nodes -> Seq(Nodes)]
      BY <1>14, DeadEdgesType DEF LiveTreeEnd
    <2> QED
      BY <1>14, <2>1 DEF LiveTreeEnd, sweepVars, Frames, Nodes, VirtualRoot
  <1>15. CASE DeadTreeEnd
    BY <1>15 DEF DeadTreeEnd, orderVars, sweepVars, Frames, Nodes, VirtualRoot
  <1>16. CASE NextStart
    <2>1. PICK b \in Unseen : stack' = <<Enter(b)>> /\ seen' = seen \cup {b}
      BY <1>16 DEF NextStart
    <2>2. b \in Nodes
      BY <2>1 DEF Unseen
    <2>3. stack' \in Seq(Frames) /\ seen' \subseteq Nodes
      BY <2>1, <2>2 DEF Enter, Frames
    <2> QED
      BY <1>16, <2>3 DEF NextStart, sweepVars, Frames, Nodes, VirtualRoot
  <1>17. CASE AllOrdered
    BY <1>17 DEF AllOrdered, orderVars, Frames, Nodes, VirtualRoot
  <1>18. CASE Collect
    <2>1. at > 0 /\ at' = at - 1
      BY <1>18 DEF Collect
    <2>2. at \in Nat
      OBVIOUS
    <2>3. at' \in Nat
      BY ONLY <2>1, <2>2
    <2>4. UNCHANGED <<targets, pass, phase, succs, stack, seen, postorder, count, idom, node, waiting,
                      newIdom, first, second>>
      BY <1>18 DEF Collect, orderVars
    <2> QED
      BY <2>3, <2>4 DEF Frames, Nodes, VirtualRoot
  <1>19. CASE BeginDead
    <2>1. PICK roots \in Ascending(SourceMembers) :
             succs' = [succs EXCEPT ![VirtualRoot] = roots]
      BY <1>19 DEF BeginDead
    <2>2. SourceMembers \subseteq Nodes
      BY DEF SourceMembers
    <2>3. roots \in [1..Cardinality(SourceMembers) -> SourceMembers]
      BY <2>1 DEF Ascending
    <2>4. Cardinality(SourceMembers) \in Nat
      <3>1. IsFiniteSet(1..VirtualRoot)
        BY FS_Interval
      <3> QED
        BY <2>2, <3>1, FS_Subset, FS_CardinalityType DEF Nodes
    <2> DEFINE k == Cardinality(SourceMembers)
    <2>5. roots \in Seq(Nodes)
      <3> HIDE DEF k
      <3>1. k \in Nat /\ roots \in [1..k -> Nodes]
        BY <2>2, <2>3, <2>4 DEF k
      <3> QED
        BY <3>1
    <2>6. VirtualRoot \in Nodes
      BY DEF Nodes, VirtualRoot, WellFormed
    <2>7. succs' \in [Nodes -> Seq(Nodes)]
      BY <2>1, <2>5
    <2> QED
      BY <1>19, <2>6, <2>7 DEF BeginDead, Enter, Frames, sweepVars, Nodes, VirtualRoot
  <1>20. CASE Done \/ UNCHANGED vars
    BY <1>20 DEF Done, vars, orderVars, sweepVars, Frames, Nodes, VirtualRoot
  <1> QED
    BY <1>1, <1>2, <1>3, <1>4, <1>5, <1>6, <1>7, <1>8, <1>9, <1>10, <1>11, <1>12, <1>13, <1>14,
       <1>15, <1>16, <1>17, <1>18, <1>19, <1>20 DEF Next

-----------------------------------------------------------------------------
(* The depth-first order.                                                   *)
LEMMA VisitOrder ==
    ASSUME Typed, Positions, StackIsPath, HasParent, Visit
    PROVE  Positions' /\ StackIsPath' /\ HasParent'
  <1>0. /\ phase = "order" /\ stack # << >> /\ Top.done < Len(succs[Top.node])
        /\ UNCHANGED <<targets, pass, phase, succs, postorder, count>>
    BY DEF Visit
  <1>1. CASE pass = "regions"
    BY <1>0, <1>1 DEF Positions, StackIsPath, HasParent
  <1>2. CASE pass # "regions"
    <2> DEFINE s == succs[Top.node][Top.done + 1]
               advanced == Append(Below, [Top EXCEPT !.done = @ + 1])
               n == Len(stack)
    <2>1. /\ n \in Nat /\ n > 0 /\ Len(Below) = n - 1 /\ Top = stack[n]
          /\ Below \in Seq(Frames) /\ Top \in Frames
          /\ \A i \in 1..(n - 1) : Below[i] = stack[i]
      BY <1>0, StackFacts
    <2>2. s \in Elements(succs[Top.node]) /\ s \in Nodes
      <3>1. Top.done \in Nat /\ succs[Top.node] \in Seq(Nodes)
        BY <1>0, StackFacts DEF Typed
      <3>2. Top.done + 1 \in DOMAIN succs[Top.node]
        BY <1>0, <3>1
      <3> QED
        BY <3>1, <3>2 DEF Elements
    <2>3. advanced \in Seq(Frames) /\ Len(advanced) = n
      <3>1. [Top EXCEPT !.done = @ + 1] \in Frames
        BY <2>1 DEF Frames
      <3> QED
        BY <2>1, <3>1
    <2>4. \A i \in 1..n : advanced[i].node = stack[i].node
      <3>1. \A i \in 1..(n - 1) : advanced[i] = Below[i]
        BY <2>1
      <3>2. advanced[n] = [Top EXCEPT !.done = @ + 1]
        BY <2>1
      <3>3. [Top EXCEPT !.done = @ + 1].node = Top.node
        BY <2>1 DEF Frames
      <3> QED
        BY <2>1, <3>1, <3>2, <3>3
    <2>5. /\ stack' = IF s \in seen THEN advanced ELSE Append(advanced, Enter(s))
          /\ seen' = seen \cup {s}
      BY DEF Visit
    <2>6. /\ \A i \in 1..n : stack[i].node \in seen /\ postorder[stack[i].node] = 0
          /\ \A i, j \in 1..n : stack[i].node = stack[j].node => i = j
          /\ \A i \in 1..n :
                i > 1 => stack[i].node \in Elements(succs[stack[i - 1].node])
          /\ stack[1].node = Root
      <3>1. DOMAIN stack = 1..n
        BY <2>1 DEF Typed
      <3> QED
        BY <1>0, <1>2, <3>1 DEF StackIsPath
    <2> HIDE DEF s, advanced, n
    <2>7. /\ \A m \in Nodes : postorder[m] > 0 => m \in seen
          /\ postorder \in [Nodes -> Nat]
      BY <1>2 DEF Positions, Typed
    <2>8. CASE s \in seen
      <3>1. stack' = advanced /\ seen' = seen
        BY <2>5, <2>8
      <3>2. DOMAIN stack' = 1..n /\ \A i \in 1..n : stack'[i].node = stack[i].node
        BY <2>3, <2>4, <3>1
      <3>3. StackIsPath'
        <4>1. stack' # << >>
          BY <2>1, <2>3, <3>1
        <4>2. Root' = Root
          BY <1>0 DEF Root, Entry, VirtualRoot
        <4>3. \A i \in 1..n : i > 1 => i - 1 \in 1..n
          BY <2>1
        <4>4. \A i \in 1..n : stack'[i].node \in seen' /\ postorder[stack'[i].node] = 0
          BY <2>6, <3>1, <3>2
        <4>5. \A i, j \in 1..n : stack'[i].node = stack'[j].node => i = j
          BY <2>6, <3>2
        <4>6. \A i \in 1..n : i > 1 => stack'[i].node \in Elements(succs[stack'[i - 1].node])
          BY <2>6, <3>2, <4>3
        <4>7. stack'[1].node = Root
          BY <2>1, <2>6, <3>2
        <4> QED
          BY <1>0, <3>2, <4>1, <4>2, <4>4, <4>5, <4>6, <4>7 DEF StackIsPath
      <3>4. Positions'
        BY <1>0, <3>1 DEF Positions, Nodes, VirtualRoot
      <3>5. HasParent'
        <4>1. DOMAIN stack = 1..n
          BY <2>1 DEF n, Typed
        <4>2. \A m : OnStack(m) => OnStack(m)'
          BY <3>2, <4>1 DEF OnStack
        <4> QED
          BY <1>0, <1>2, <4>2 DEF HasParent, Preds, Nodes, VirtualRoot, Root
      <3> QED
        BY <3>3, <3>4, <3>5
    <2>9. CASE s \notin seen
      <3>1. stack' = Append(advanced, Enter(s)) /\ seen' = seen \cup {s}
        BY <2>5, <2>9
      <3>2. /\ DOMAIN stack' = 1..(n + 1) /\ \A i \in 1..n : stack'[i].node = stack[i].node
            /\ stack'[n + 1].node = s
        BY <2>1, <2>3, <2>4, <3>1 DEF Enter
      <3>3. postorder[s] = 0
        BY <2>2, <2>7, <2>9
      <3>4. StackIsPath'
        <4>1. stack' # << >>
          BY <2>1, <3>2
        <4>2. Root' = Root
          BY <1>0 DEF Root, Entry, VirtualRoot
        <4>3. \A i \in 1..n : i > 1 => i - 1 \in 1..n
          BY <2>1
        <4>a. \A i \in 1..n : stack'[i].node \in seen /\ postorder[stack'[i].node] = 0
          BY <2>6, <3>2
        <4>b. \A i, j \in 1..n : stack'[i].node = stack'[j].node => i = j
          BY <2>6, <3>2
        <4>c. \A i \in 1..(n + 1) : i \in 1..n \/ i = n + 1
          BY <2>1
        <4>4. \A i \in 1..(n + 1) : stack'[i].node \in seen' /\ postorder[stack'[i].node] = 0
          BY ONLY <3>1, <3>2, <3>3, <4>a, <4>c
        <4>5. \A i, j \in 1..(n + 1) : stack'[i].node = stack'[j].node => i = j
          BY ONLY <2>9, <3>2, <4>a, <4>b, <4>c
        <4>6. \A i \in 1..(n + 1) : i > 1 => stack'[i].node \in Elements(succs[stack'[i - 1].node])
          <5> TAKE i \in 1..(n + 1)
          <5>1. CASE i = n + 1
            BY <2>1, <2>2, <3>2, <5>1
          <5>2. CASE i \in 1..n
            BY <2>1, <2>6, <3>2, <4>3, <5>2
          <5> QED
            BY <2>1, <5>1, <5>2
        <4>7. stack'[1].node = Root
          BY <2>1, <2>6, <3>2
        <4> QED
          BY <1>0, <3>2, <4>1, <4>2, <4>4, <4>5, <4>6, <4>7 DEF StackIsPath
      <3>5. Positions'
        BY <1>0, <3>1 DEF Positions, Nodes, VirtualRoot
      <3>6. HasParent'
        <4>1. DOMAIN stack = 1..n
          BY <2>1 DEF n, Typed
        <4>2. \A m : OnStack(m) => OnStack(m)'
          BY <2>1, <3>2, <4>1 DEF OnStack
        <4> QED
          BY <1>0, <1>2, <4>2 DEF HasParent, Preds, Nodes, VirtualRoot, Root
      <3> QED
        BY <3>4, <3>5, <3>6
    <2> QED
      BY <2>8, <2>9
  <1> QED
    BY <1>1, <1>2

LEMMA LeaveOrder ==
    ASSUME Typed, Positions, StackIsPath, HasParent, Leave
    PROVE  Positions' /\ StackIsPath' /\ HasParent'
  <1> DEFINE n == Len(stack)
             left == Top.node
  <1>0. /\ phase = "order" /\ stack # << >> /\ stack' = Below
        /\ postorder' = [postorder EXCEPT ![left] = count + 1] /\ count' = count + 1
        /\ UNCHANGED <<targets, pass, phase, succs, seen>>
    BY DEF Leave
  <1>1. CASE pass = "regions"
    BY <1>0, <1>1 DEF Positions, StackIsPath, HasParent
  <1>2. CASE pass # "regions"
    <2>1. /\ n \in Nat /\ n > 0 /\ Len(Below) = n - 1 /\ left = stack[n].node /\ left \in Nodes
          /\ Below \in Seq(Frames)
          /\ \A i \in 1..(n - 1) : Below[i] = stack[i]
      BY <1>0, StackFacts
    <2>2. DOMAIN stack = 1..n
      BY DEF Typed
    <2>3. /\ \A i \in 1..n : stack[i].node \in seen /\ postorder[stack[i].node] = 0
          /\ \A i, j \in 1..n : stack[i].node = stack[j].node => i = j
          /\ \A i \in 1..n :
                i > 1 => stack[i].node \in Elements(succs[stack[i - 1].node])
          /\ stack[1].node = Root
      BY <1>0, <1>2, <2>2 DEF StackIsPath
    <2>11. \A i \in 1..n : stack[i].node \in Nodes
      <3>1. \A i \in 1..n : stack[i] \in Frames
        BY <2>2 DEF Typed
      <3> QED
        BY <3>1 DEF Frames
    <2> HIDE DEF n, left
    <2>4. DOMAIN stack' = 1..(n - 1) /\ \A i \in 1..(n - 1) : stack'[i] = stack[i]
      BY <1>0, <2>1
    <2>5. /\ postorder \in [Nodes -> Nat] /\ count \in Nat
          /\ \A m \in Nodes : postorder[m] <= count
          /\ \A m, k \in Nodes : postorder[m] > 0 /\ postorder[m] = postorder[k] => m = k
          /\ \A m \in Nodes : postorder[m] > 0 => m \in seen
      BY <1>2 DEF Positions, Typed
    <2>6. /\ postorder'[left] = count + 1
          /\ \A m \in Nodes : m # left => postorder'[m] = postorder[m]
      BY <1>0, <2>1, <2>5
    <2>7. postorder[left] = 0 /\ left \in seen
      BY <2>1, <2>3
    <2>8. Positions'
      <3>1. \A m \in Nodes : postorder'[m] <= count'
        BY <1>0, <2>5, <2>6
      <3>2. \A m, k \in Nodes : postorder'[m] > 0 /\ postorder'[m] = postorder'[k] => m = k
        BY <2>5, <2>6
      <3>3. \A m \in Nodes : postorder'[m] > 0 => m \in seen
        BY <2>5, <2>6, <2>7
      <3> QED
        BY <1>0, <3>1, <3>2, <3>3 DEF Positions, Nodes, VirtualRoot
    <2>9. StackIsPath'
      <3>1. \A i \in 1..(n - 1) : i \in 1..n /\ stack[i].node # left
        BY <2>1, <2>3
      <3>2. \A i \in 1..(n - 1) : stack[i].node \in Nodes
        BY <2>1, <2>11
      <3>3. \A i \in 1..(n - 1) : stack'[i].node \in seen /\ postorder'[stack'[i].node] = 0
        BY <2>3, <2>4, <2>6, <3>1, <3>2
      <3>4. \A i \in 1..(n - 1) : i > 1 => i - 1 \in 1..(n - 1)
        BY <2>1
      <3>5. stack' # << >> => n - 1 > 0 /\ stack'[1].node = Root
        BY <1>0, <2>1, <2>3, <2>4
      <3>6. stack' = << >> => left = Root
        BY <1>0, <2>1, <2>3
      <3>7. stack' = << >> => postorder'[Root] = count' /\ count' > 0
        BY <1>0, <2>5, <2>6, <3>6
      <3>8. Root' = Root
        BY <1>0 DEF Root, Entry, VirtualRoot
      <3> QED
        BY <1>0, <2>3, <2>4, <3>1, <3>3, <3>4, <3>5, <3>7, <3>8 DEF StackIsPath
    <2>10. HasParent'
      <3>1. Root' = Root /\ Nodes' = Nodes
        BY <1>0 DEF Root, Entry, VirtualRoot, Nodes
      <3>2. \A m \in Nodes : Preds(m)' = Preds(m)
        BY <1>0 DEF Preds, Nodes, VirtualRoot
      <3>3. SUFFICES ASSUME NEW m \in Nodes \ {Root}, postorder'[m] > 0
                     PROVE  \E p \in Preds(m) : postorder'[p] > postorder'[m] \/ OnStack(p)'
        BY <1>0, <3>1, <3>2 DEF HasParent
      <3>4. CASE m = left
        <4>1. n > 1
          BY <2>1, <2>3, <3>4
        <4>2. n \in 1..n /\ n - 1 \in 1..n /\ n - 1 \in 1..(n - 1)
          BY <2>1, <4>1
        <4>3. PICK q \in Nodes : q = stack[n - 1].node
          BY <2>11, <4>2
        <4>4. q \in Preds(m)
          BY <2>1, <2>3, <3>4, <4>1, <4>2, <4>3 DEF Preds
        <4>5. OnStack(q)'
          BY <2>4, <4>2, <4>3 DEF OnStack
        <4> QED
          BY <4>4, <4>5
      <3>5. CASE m # left
        <4>1. postorder'[m] = postorder[m] /\ postorder[m] > 0
          BY <2>6, <3>3, <3>5
        <4>2. PICK p \in Preds(m) : postorder[p] > postorder[m] \/ OnStack(p)
          BY <1>0, <1>2, <4>1 DEF HasParent
        <4>3. p \in Nodes
          BY DEF Preds
        <4>4. CASE p = left
          <5>1. postorder'[p] > postorder'[m]
            BY <2>5, <2>6, <4>1, <4>4
          <5> QED
            BY <5>1
        <4>5. CASE p # left
          <5>1. postorder'[p] = postorder[p]
            BY <2>6, <4>3, <4>5
          <5>2. OnStack(p) => OnStack(p)'
            BY <2>1, <2>2, <2>4, <4>5 DEF OnStack
          <5> QED
            BY <4>1, <4>2, <5>1, <5>2
        <4> QED
          BY <4>4, <4>5
      <3> QED
        BY <3>4, <3>5
    <2> QED
      BY <2>8, <2>9, <2>10
  <1> QED
    BY <1>1, <1>2

(* What the other actions leave of the order.                               *)
LEMMA OrderKept ==
    ASSUME Positions, UNCHANGED <<targets, pass, postorder, count, seen>>
    PROVE  Positions'
  BY DEF Positions, Nodes, VirtualRoot

LEMMA OrderStep ==
    ASSUME IInv, [Next]_vars
    PROVE  Positions' /\ StackIsPath' /\ HasParent'
  <1> USE DEF IInv
  <1>1. CASE Visit
    BY <1>1, VisitOrder
  <1>2. CASE Leave
    BY <1>2, LeaveOrder
  <1>3. CASE Ordered
    <2>1. Positions'
      BY <1>3, OrderKept DEF Ordered, orderVars
    <2>2. \A p : ~OnStack(p)
      BY <1>3 DEF Ordered, OnStack
    <2> QED
      BY <1>3, <2>1, <2>2
      DEF Ordered, orderVars, StackIsPath, HasParent, Preds, Nodes, VirtualRoot, Root
  <1>4. CASE BeginNode \/ BeginIntersect \/ RaiseFirst \/ RaiseSecond \/ EndIntersect \/ FinishNode
              \/ EndSweep
    <2>1. /\ phase \in {"sweep", "intersect"} /\ phase' \in {"sweep", "intersect"}
          /\ UNCHANGED <<targets, pass, succs, postorder, count, seen>>
      BY <1>4 DEF BeginNode, BeginIntersect, RaiseFirst, RaiseSecond, EndIntersect, FinishNode,
                  EndSweep, orderVars
    <2>2. Positions'
      BY <2>1, OrderKept
    <2> QED
      BY <2>1, <2>2 DEF StackIsPath, HasParent, Preds, Nodes, VirtualRoot, Root
  <1>5. CASE SweepsEnd \/ NumberChild \/ NumberEnd \/ DeadTreeEnd
    <2>1. /\ phase' \in {"tree", "done"}
          /\ UNCHANGED <<targets, pass, postorder, count, seen>>
      BY <1>5 DEF SweepsEnd, NumberChild, NumberEnd, DeadTreeEnd, orderVars
    <2>2. Positions'
      BY <2>1, OrderKept
    <2> QED
      BY <2>1, <2>2 DEF StackIsPath, HasParent
  <1>6. CASE LiveTreeEnd
    BY <1>6 DEF LiveTreeEnd, Positions, StackIsPath, HasParent
  <1>7. CASE NextStart \/ AllOrdered
    BY <1>7 DEF NextStart, AllOrdered, Positions, StackIsPath, HasParent
  <1>8. CASE Collect
    <2>1. /\ phase' = "components"
          /\ UNCHANGED <<targets, pass, postorder, count, seen>>
      BY <1>8 DEF Collect, orderVars
    <2>2. Positions'
      BY <2>1, OrderKept
    <2> QED
      BY <2>1, <2>2 DEF StackIsPath, HasParent
  <1>9. CASE BeginDead
    <2>1. /\ pass' = "dead" /\ seen' = {VirtualRoot} /\ stack' = <<Enter(VirtualRoot)>>
          /\ postorder' = [n \in Nodes |-> 0] /\ count' = 0 /\ targets' = targets
      BY <1>9 DEF BeginDead
    <2>2. Root' = VirtualRoot /\ VirtualRoot \in Nodes /\ VirtualRoot' = VirtualRoot /\ Nodes' = Nodes
      BY <2>1, BlockFacts DEF Root, VirtualRoot, Nodes, Typed
    <2>3. stack' # << >> /\ DOMAIN stack' = {1} /\ stack'[1].node = VirtualRoot
      BY <2>1 DEF Enter
    <2>4. Positions'
      BY <2>1, <2>2 DEF Positions
    <2>5. StackIsPath'
      BY <2>1, <2>2, <2>3 DEF StackIsPath
    <2>6. HasParent'
      BY <2>1, <2>2 DEF HasParent
    <2> QED
      BY <2>4, <2>5, <2>6
  <1>10. CASE Done \/ UNCHANGED vars
    <2>1. UNCHANGED <<targets, pass, phase, succs, stack, postorder, count, seen>>
      BY <1>10 DEF Done, vars, orderVars
    <2>2. Positions'
      BY <2>1, OrderKept
    <2> QED
      BY <2>1, <2>2 DEF StackIsPath, HasParent, OnStack, Preds, Nodes, VirtualRoot, Root
  <1> QED
    BY <1>1, <1>2, <1>3, <1>4, <1>5, <1>6, <1>7, <1>8, <1>9, <1>10 DEF Next

-----------------------------------------------------------------------------
(* The sweeps.                                                              *)
SweepInv == Processed /\ Handling /\ RootSelf /\ FingersProcessed /\ LinksClimb

(* The sweep facts speak of the graph and the order only through these.     *)
LEMMA GraphKept ==
    ASSUME UNCHANGED <<targets, pass, succs, postorder>>
    PROVE  /\ Nodes' = Nodes /\ Root' = Root
           /\ \A n : Preds(n)' = Preds(n)
           /\ \A m, n : Deeper(m, n)' = Deeper(m, n)
  BY DEF Nodes, VirtualRoot, Root, Preds, Deeper

LEMMA OrderedSweep ==
    ASSUME IInv, Ordered
    PROVE  SweepInv'
  <1>1. /\ phase = "order" /\ phase' = "sweep" /\ stack = << >> /\ pass # "regions"
        /\ idom' = [n \in Nodes |-> IF n = Root THEN Root ELSE None]
        /\ at' = count - 1
        /\ UNCHANGED <<targets, pass, succs, postorder, count, node>>
    BY DEF Ordered, orderVars
  <1>2. /\ postorder \in [Nodes -> Nat] /\ count \in Nat /\ Root \in Nodes /\ Root # None
        /\ postorder[Root] = count /\ count > 0
        /\ \A n \in Nodes : postorder[n] <= count
        /\ \A m, n \in Nodes : postorder[m] > 0 /\ postorder[m] = postorder[n] => m = n
    BY <1>1, BlockFacts DEF IInv, Typed, StackIsPath, Positions
  <1>3. node' = None
    BY <1>1 DEF IInv, Handling, Sweeping
  <1>4. \A n \in Nodes : postorder[n] > count - 1 => n = Root
    BY <1>2
  <1>5. Nodes' = Nodes /\ Root' = Root
    BY <1>1, GraphKept
  <1>6. Processed'
    BY <1>1, <1>2, <1>4, <1>5 DEF Processed, Sweeping
  <1>7. RootSelf'
    BY <1>1, <1>2, <1>5 DEF RootSelf
  <1> QED
    BY <1>1, <1>3, <1>5, <1>6, <1>7 DEF SweepInv, Handling, Sweeping, FingersProcessed, LinksClimb

LEMMA BeginNodeSweep ==
    ASSUME IInv, BeginNode
    PROVE  SweepInv'
  <1>1. /\ phase = "sweep" /\ phase' = "sweep" /\ at > 0 /\ node = None
        /\ UNCHANGED <<targets, pass, succs, postorder, count, idom>>
    BY DEF BeginNode, orderVars
  <1>2. /\ \A n : Preds(n)' = Preds(n)
        /\ \A m, n : Deeper(m, n)' = Deeper(m, n)
        /\ Nodes' = Nodes /\ Root' = Root
    BY <1>1, GraphKept
  <1>3. /\ postorder \in [Nodes -> Nat] /\ at \in Nat
        /\ pass # "regions" /\ count > 0 /\ idom[Root] # None
        /\ \A n \in Nodes : idom[n] # None => idom[idom[n]] # None
        /\ \A n \in Nodes : postorder[n] > at => idom[n] # None
    BY <1>1 DEF IInv, Typed, Processed, Sweeping
  <1>4. PICK n \in Nodes :
          /\ postorder[n] = at
          /\ IF ProcessedPreds(n) = {}
               THEN at' = at - 1 /\ UNCHANGED <<node, waiting, newIdom>>
               ELSE \E p \in ProcessedPreds(n) :
                       /\ node' = n /\ newIdom' = p
                       /\ waiting' = ProcessedPreds(n) \ {p}
                       /\ at' = at
    BY DEF BeginNode
  <1>5. LinksClimb' /\ FingersProcessed'
    BY <1>1, <1>2 DEF IInv, LinksClimb, FingersProcessed
  <1>6. n # Root
    BY <1>1, <1>3, <1>4, BlockFacts DEF IInv, Typed, RootSelf, Sweeping
  <1>7. PICK p \in Preds(n) : postorder[p] > postorder[n]
    BY <1>1, <1>3, <1>4, <1>6 DEF IInv, HasParent
  <1>8. p \in ProcessedPreds(n)
    BY <1>3, <1>4, <1>7 DEF ProcessedPreds, Preds
  <1>9. PICK q \in ProcessedPreds(n) :
           /\ node' = n /\ newIdom' = q
           /\ waiting' = ProcessedPreds(n) \ {q} /\ at' = at
    BY <1>4, <1>8
  <1>10. q \in Nodes /\ idom[q] # None /\ q # None
    BY BlockFacts DEF ProcessedPreds, Preds, IInv, Typed
  <1>11. Processed'
    BY <1>1, <1>2, <1>3, <1>9 DEF Processed, Sweeping
  <1>12. \A r \in Preds(n) : idom[r] # None => r \in waiting' \/ postorder[r] <= postorder[newIdom']
    BY <1>3, <1>9, <1>10 DEF ProcessedPreds
  <1>13. \A r \in waiting' : idom[r] # None
    BY <1>9 DEF ProcessedPreds
  <1>14. Handling'
    BY <1>1, <1>2, <1>4, <1>9, <1>10, <1>12, <1>13 DEF Handling, Sweeping
  <1>15. RootSelf'
    BY <1>1, <1>2, <1>9 DEF RootSelf, Sweeping, IInv
  <1> QED
    BY <1>5, <1>11, <1>14, <1>15 DEF SweepInv

LEMMA IntersectSweep ==
    ASSUME IInv, BeginIntersect \/ RaiseFirst \/ RaiseSecond \/ EndIntersect
    PROVE  SweepInv'
  <1>1. /\ Sweeping /\ Sweeping' /\ node # None
        /\ UNCHANGED <<targets, pass, succs, postorder, count, idom, at, node>>
    BY DEF BeginIntersect, RaiseFirst, RaiseSecond, EndIntersect, orderVars, IInv, Handling, Sweeping
  <1>2. /\ \A n : Preds(n)' = Preds(n)
        /\ \A m, n : Deeper(m, n)' = Deeper(m, n)
        /\ Nodes' = Nodes /\ Root' = Root
    BY <1>1, GraphKept
  <1>3. /\ postorder \in [Nodes -> Nat] /\ idom \in [Nodes -> Nodes \cup {None}]
        /\ newIdom \in Nodes \cup {None}
        /\ \A n \in Nodes : idom[n] # None => idom[idom[n]] # None
    BY <1>1 DEF IInv, Typed, Processed
  <1>4. Processed'
    BY <1>1, <1>2 DEF Processed, IInv
  <1>5. LinksClimb' /\ RootSelf'
    BY <1>1, <1>2 DEF LinksClimb, RootSelf, IInv, Sweeping
  <1>6. /\ at > 0 /\ postorder[node] = at /\ newIdom # None /\ idom[newIdom] # None
        /\ \A p \in waiting : idom[p] # None
        /\ \A p \in Preds(node) : idom[p] # None =>
               \/ p \in waiting
               \/ phase = "sweep" /\ postorder[p] <= postorder[newIdom]
               \/ phase = "intersect" /\ (postorder[p] <= postorder[first]
                                            \/ postorder[p] <= postorder[second])
    BY <1>1 DEF IInv, Handling
  <1>7. \A n \in Nodes : idom[n] # None => postorder[n] <= postorder[idom[n]]
    <2> TAKE n \in Nodes
    <2> HAVE idom[n] # None
    <2>1. CASE n = Root
      <3>1. idom[Root] = Root
        BY <1>1, <2>1 DEF IInv, RootSelf
      <3> QED
        BY <1>3, <2>1, <3>1
    <2>2. CASE n # Root
      <3>1. Deeper(n, idom[n])
        BY <1>1, <2>2 DEF IInv, LinksClimb, Sweeping
      <3> QED
        BY <1>3, <3>1 DEF Deeper
    <2> QED
      BY <2>1, <2>2
  <1>8. \A p \in Preds(node) : p \in Nodes
    BY DEF Preds
  <1>9. CASE BeginIntersect
    <2>1. PICK q \in waiting : first' = q /\ second' = newIdom /\ waiting' = waiting \ {q}
      BY <1>9 DEF BeginIntersect
    <2>2. /\ phase = "sweep" /\ phase' = "intersect" /\ newIdom' = newIdom
      BY <1>9 DEF BeginIntersect
    <2>3. q \in Nodes /\ q # None /\ idom[q] # None
      BY <1>6, BlockFacts DEF IInv, Typed
    <2>4. FingersProcessed'
      BY <1>1, <1>6, <2>1, <2>3 DEF FingersProcessed
    <2>5. \A p \in Preds(node) : idom[p] # None =>
             p \in waiting' \/ postorder[p] <= postorder[first'] \/ postorder[p] <= postorder[second']
      BY <1>3, <1>6, <1>8, <2>1, <2>2, <2>3
    <2>6. \A p \in waiting' : idom[p] # None
      BY <1>6, <2>1
    <2>7. Handling'
      BY <1>1, <1>2, <1>6, <2>2, <2>5, <2>6 DEF Handling
    <2> QED
      BY <1>4, <1>5, <2>4, <2>7 DEF SweepInv
  <1>10. CASE RaiseFirst
    <2>1. /\ phase = "intersect" /\ phase' = "intersect" /\ first' = idom[first]
          /\ UNCHANGED <<waiting, newIdom, second>>
      BY <1>10 DEF RaiseFirst
    <2>2. first \in Nodes /\ idom[first] # None /\ second # None /\ idom[second] # None
      BY <2>1 DEF IInv, FingersProcessed, Typed
    <2>3. first' \in Nodes /\ first' # None /\ idom[first'] # None /\ postorder[first] <= postorder[first']
      BY <1>3, <1>7, <2>1, <2>2
    <2>4. FingersProcessed'
      BY <1>1, <2>1, <2>2, <2>3 DEF FingersProcessed
    <2>5. \A p \in Preds(node) : idom[p] # None =>
             p \in waiting' \/ postorder[p] <= postorder[first'] \/ postorder[p] <= postorder[second']
      BY <1>3, <1>6, <1>8, <2>1, <2>2, <2>3
    <2>7. Handling'
      BY <1>1, <1>2, <1>6, <2>1, <2>5 DEF Handling
    <2> QED
      BY <1>4, <1>5, <2>4, <2>7 DEF SweepInv
  <1>11. CASE RaiseSecond
    <2>1. /\ phase = "intersect" /\ phase' = "intersect" /\ second' = idom[second]
          /\ UNCHANGED <<waiting, newIdom, first>>
      BY <1>11 DEF RaiseSecond
    <2>2. second \in Nodes /\ idom[second] # None /\ first # None /\ idom[first] # None
      BY <2>1 DEF IInv, FingersProcessed, Typed
    <2>3. /\ second' \in Nodes /\ second' # None /\ idom[second'] # None
          /\ postorder[second] <= postorder[second']
      BY <1>3, <1>7, <2>1, <2>2
    <2>4. FingersProcessed'
      BY <1>1, <2>1, <2>2, <2>3 DEF FingersProcessed
    <2>5. \A p \in Preds(node) : idom[p] # None =>
             p \in waiting' \/ postorder[p] <= postorder[first'] \/ postorder[p] <= postorder[second']
      BY <1>3, <1>6, <1>8, <2>1, <2>2, <2>3
    <2>7. Handling'
      BY <1>1, <1>2, <1>6, <2>1, <2>5 DEF Handling
    <2> QED
      BY <1>4, <1>5, <2>4, <2>7 DEF SweepInv
  <1>12. CASE EndIntersect
    <2>1. /\ phase = "intersect" /\ phase' = "sweep" /\ first = second /\ newIdom' = first
          /\ UNCHANGED waiting
      BY <1>12 DEF EndIntersect, Met
    <2>2. first # None /\ idom[first] # None
      BY <2>1 DEF IInv, FingersProcessed
    <2>3. \A p \in Preds(node) : idom[p] # None => p \in waiting' \/ postorder[p] <= postorder[newIdom']
      BY <1>6, <2>1
    <2>4. Handling'
      BY <1>1, <1>2, <1>6, <2>1, <2>2, <2>3 DEF Handling
    <2>5. FingersProcessed'
      BY <2>1 DEF FingersProcessed
    <2> QED
      BY <1>4, <1>5, <2>4, <2>5 DEF SweepInv
  <1> QED
    BY <1>9, <1>10, <1>11, <1>12

LEMMA FinishNodeSweep ==
    ASSUME IInv, FinishNode
    PROVE  SweepInv'
  <1>1. /\ phase = "sweep" /\ phase' = "sweep" /\ node # None /\ waiting = {}
        /\ idom' = [idom EXCEPT ![node] = newIdom] /\ node' = None /\ at' = at - 1
        /\ UNCHANGED <<targets, pass, succs, postorder, count>>
    BY DEF FinishNode, orderVars
  <1>2. /\ \A n : Preds(n)' = Preds(n)
        /\ \A m, n : Deeper(m, n)' = Deeper(m, n)
        /\ Nodes' = Nodes /\ Root' = Root
    BY <1>1, GraphKept
  <1>3. /\ postorder \in [Nodes -> Nat] /\ idom \in [Nodes -> Nodes \cup {None}] /\ at \in Nat
        /\ newIdom \in Nodes \cup {None} /\ node \in Nodes /\ Root \in Nodes /\ count \in Nat
    BY <1>1, BlockFacts DEF IInv, Typed
  <1>4. /\ pass # "regions" /\ count > 0 /\ idom[Root] # None
        /\ \A n \in Nodes : idom[n] # None => idom[idom[n]] # None
        /\ \A n \in Nodes : postorder[n] > at => idom[n] # None
    BY <1>1 DEF IInv, Processed, Sweeping
  <1>5. /\ at > 0 /\ postorder[node] = at /\ newIdom # None /\ idom[newIdom] # None
        /\ \A p \in Preds(node) : idom[p] # None => postorder[p] <= postorder[newIdom]
    BY <1>1 DEF IInv, Handling, Sweeping
  <1>6. idom[Root] = Root /\ postorder[Root] = count /\ at < count
    BY <1>1 DEF IInv, RootSelf, Sweeping
  <1>7. node # Root
    BY <1>3, <1>5, <1>6
  <1>8. /\ idom'[node] = newIdom
        /\ \A n \in Nodes : n # node => idom'[n] = idom[n]
        /\ \A n \in Nodes : idom[n] # None => idom'[n] # None
    BY <1>1, <1>3, <1>5
  <1>9. \A n \in Nodes : postorder[n] > at - 1 => idom'[n] # None
    <2> TAKE n \in Nodes
    <2> HAVE postorder[n] > at - 1
    <2>1. CASE postorder[n] = at
      <3>1. n = node
        BY <1>1, <1>3, <1>4, <1>5, <2>1 DEF IInv, Positions
      <3> QED
        BY <1>5, <1>8, <3>1
    <2>2. CASE postorder[n] # at
      BY <1>3, <1>4, <1>8, <2>2
    <2> QED
      BY <2>1, <2>2
  <1>10. \A n \in Nodes : idom'[n] # None => idom'[idom'[n]] # None
    BY <1>3, <1>4, <1>5, <1>8
  <1>11. Processed'
    BY <1>1, <1>2, <1>4, <1>6, <1>7, <1>8, <1>9, <1>10 DEF Processed, Sweeping
  <1>12. RootSelf'
    BY <1>1, <1>2, <1>3, <1>6, <1>7, <1>8 DEF RootSelf
  <1>13. Deeper(node, newIdom)
    <2>1. PICK p \in Preds(node) : postorder[p] > postorder[node]
      BY <1>1, <1>3, <1>4, <1>5, <1>7 DEF IInv, HasParent
    <2>2. p \in Nodes
      BY DEF Preds
    <2>3. postorder[p] <= postorder[newIdom]
      BY <1>3, <1>4, <1>5, <2>1, <2>2
    <2> QED
      BY <1>3, <1>5, <2>1, <2>2, <2>3 DEF Deeper
  <1>14. LinksClimb'
    BY <1>1, <1>2, <1>8, <1>13 DEF IInv, LinksClimb
  <1>15. Handling' /\ FingersProcessed'
    BY <1>1 DEF Handling, FingersProcessed, Sweeping
  <1> QED
    BY <1>11, <1>12, <1>14, <1>15 DEF SweepInv

LEMMA EndSweepSweep ==
    ASSUME IInv, EndSweep
    PROVE  SweepInv'
  <1>1. /\ phase = "sweep" /\ phase' = "sweep" /\ node = None /\ at = 0 /\ at' = count - 1
        /\ UNCHANGED <<targets, pass, succs, postorder, count, idom, node>>
    BY DEF EndSweep, orderVars
  <1>2. /\ \A m, n : Deeper(m, n)' = Deeper(m, n)
        /\ Nodes' = Nodes /\ Root' = Root
    BY <1>1, GraphKept
  <1>3. /\ postorder \in [Nodes -> Nat] /\ count \in Nat /\ count > 0
        /\ \A n \in Nodes : postorder[n] > 0 => idom[n] # None
    BY <1>1 DEF IInv, Typed, Processed, Sweeping
  <1>4. \A n \in Nodes : postorder[n] > count - 1 => idom[n] # None
    BY <1>3
  <1>5. Processed'
    BY <1>1, <1>2, <1>4 DEF IInv, Processed, Sweeping
  <1>6. RootSelf'
    BY <1>1, <1>2, <1>3 DEF IInv, RootSelf, Sweeping
  <1> QED
    BY <1>1, <1>2, <1>5, <1>6 DEF IInv, SweepInv, Handling, Sweeping, FingersProcessed, LinksClimb

LEMMA SweepStep ==
    ASSUME IInv, [Next]_vars
    PROVE  SweepInv'
  <1>1. CASE Ordered
    BY <1>1, OrderedSweep
  <1>2. CASE BeginNode
    BY <1>2, BeginNodeSweep
  <1>3. CASE BeginIntersect \/ RaiseFirst \/ RaiseSecond \/ EndIntersect
    BY <1>3, IntersectSweep
  <1>4. CASE FinishNode
    BY <1>4, FinishNodeSweep
  <1>5. CASE EndSweep
    BY <1>5, EndSweepSweep
  <1>6. CASE SweepsEnd
    <2>1. ~Sweeping' /\ phase' = "tree" /\ node' = None
      BY <1>6 DEF SweepsEnd, Sweeping, sweepVars
    <2> QED
      BY <2>1 DEF SweepInv, Processed, Handling, RootSelf, FingersProcessed, LinksClimb
  <1>7. CASE Visit \/ Leave \/ NumberChild \/ NumberEnd \/ LiveTreeEnd \/ DeadTreeEnd \/ NextStart
              \/ AllOrdered \/ Collect \/ BeginDead
    <2>1. phase \notin {"sweep", "intersect"} /\ phase' \notin {"sweep", "intersect"} /\ node' = node
      BY <1>7 DEF Visit, Leave, NumberChild, NumberEnd, LiveTreeEnd, DeadTreeEnd, NextStart, AllOrdered,
                  Collect, BeginDead, sweepVars
    <2> QED
      BY <2>1 DEF IInv, SweepInv, Sweeping, Processed, Handling, RootSelf, FingersProcessed, LinksClimb
  <1>8. CASE Done \/ UNCHANGED vars
    <2>1. UNCHANGED <<targets, pass, phase, succs, postorder, count, idom, at, node, waiting, newIdom,
                      first, second>>
      BY <1>8 DEF Done, vars, orderVars, sweepVars
    <2>2. /\ \A n : Preds(n)' = Preds(n)
          /\ \A m, n : Deeper(m, n)' = Deeper(m, n)
          /\ Nodes' = Nodes /\ Root' = Root
      BY <2>1, GraphKept
    <2>3. Processed' /\ RootSelf'
      BY <2>1, <2>2 DEF IInv, Sweeping, Processed, RootSelf
    <2>4. Handling'
      BY <2>1, <2>2 DEF IInv, Sweeping, Handling
    <2> QED
      BY <2>1, <2>2, <2>3, <2>4 DEF IInv, SweepInv, Sweeping, FingersProcessed, LinksClimb
  <1> QED
    BY <1>1, <1>2, <1>3, <1>4, <1>5, <1>6, <1>7, <1>8 DEF Next

-----------------------------------------------------------------------------
(* The inductive invariant holds.                                           *)
THEOREM Invariance == Spec => []IInv
  <1>1. Init => IInv
    <2> SUFFICES ASSUME Init PROVE IInv
      OBVIOUS
    <2>1. Typed
      BY TypedInit
    <2>2. /\ pass = "live" /\ phase = "order" /\ stack = <<Enter(Entry)>> /\ seen = {Entry}
          /\ postorder = [n \in Nodes |-> 0] /\ count = 0 /\ node = None
      BY DEF Init
    <2>3. stack # << >> /\ DOMAIN stack = {1} /\ stack[1].node = Entry /\ Entry \in Nodes
      BY <2>1, <2>2, BlockFacts DEF Enter, Typed
    <2> QED
      BY <2>1, <2>2, <2>3 DEF IInv, Positions, StackIsPath, HasParent, Processed, Handling, RootSelf,
         FingersProcessed, LinksClimb, Sweeping, Root
  <1>2. IInv /\ [Next]_vars => IInv'
    BY TypedStep, OrderStep, SweepStep DEF IInv, SweepInv
  <1> QED
    BY <1>1, <1>2, PTL DEF Spec

(* The expect of intersect never fires: its fingers only ever rest on       *)
(* nodes that have a dominator already.                                     *)
THEOREM IntersectNeverPanics == Spec => []FingersProcessed
  <1>1. IInv => FingersProcessed
    BY DEF IInv
  <1> QED
    BY <1>1, Invariance, PTL

(* Every dominator found lies strictly above its node, so each climb of a   *)
(* finger comes nearer the root and the tree has no cycle.                  *)
THEOREM ClimbsEnd == Spec => []LinksClimb
  <1>1. IInv => LinksClimb
    BY DEF IInv
  <1> QED
    BY <1>1, Invariance, PTL

-----------------------------------------------------------------------------
(* Exactness.  Dominance and ancestry are described by closed sets of       *)
(* nodes, which spares the induction over paths.                            *)

(* What is reached along edges without entering the avoided nodes: what     *)
(* every set holds that contains the start and is left by no edge, but into *)
(* the avoided nodes.                                                       *)
Onward(edges, S, avoided) == \A c \in S : Elements(edges[c]) \ avoided \subseteq S
Walked(edges, from, avoided) ==
    {n \in DOMAIN edges : \A S \in SUBSET DOMAIN edges :
        from \ avoided \subseteq S /\ Onward(edges, S, avoided) => n \in S}

(* The dominators of a node: what no path from the root can avoid.          *)
DomsOf(edges, root, n) == {a \in DOMAIN edges : n \notin Walked(edges, {root}, {a})}

(* A node and its ancestors by links to dominators.                         *)
UpClosed(link, S) == \A c \in S : link[c] # None => link[c] \in S
Above(link, n) ==
    {m \in DOMAIN link : \A S \in SUBSET DOMAIN link : n \in S /\ UpClosed(link, S) => m \in S}

(* The nodes left later than p.                                             *)
Higher(order, p) == {m \in DOMAIN order : order[m] > order[p]}

(* Links lead to nodes left later, only the root may be its own.            *)
Climbing(link, order, root) ==
    /\ link[root] \in {root, None}
    /\ \A n \in DOMAIN link : n # root /\ link[n] # None => order[n] < order[link[n]]

(* A node is reached from its dominator without climbing above it.          *)
LowLinks(edges, link, order, root) ==
    \A n \in DOMAIN link :
        n # root /\ link[n] # None => n \in Walked(edges, {link[n]}, Higher(order, link[n]))

-----------------------------------------------------------------------------
(* The invariants.                                                          *)

(* The depth-first search enters what the root reaches, and leaves a node   *)
(* only when it has entered all its successors.                             *)
Explored ==
    pass # "regions" =>
        /\ Root \in seen /\ seen \subseteq Walked(succs, {Root}, {})
        /\ \A n \in seen : postorder[n] > 0 \/ (phase = "order" /\ OnStack(n))
        /\ \A n \in Nodes : postorder[n] > 0 => Elements(succs[n]) \subseteq seen
        /\ phase = "order" =>
              \A i \in DOMAIN stack : \A k \in 1..stack[i].done :
                  k \in DOMAIN succs[stack[i].node] => succs[stack[i].node][k] \in seen

(* Sweeps process reached nodes only, and a node is reached from its        *)
(* dominator without climbing above it.                                     *)
Reached ==
    Sweeping =>
        /\ \A n \in Nodes : idom[n] # None => postorder[n] > 0
        /\ LowLinks(succs, idom, postorder, Root)

(* No dominator is lost: each one is an ancestor, at all times.             *)
NoneLost ==
    Sweeping => \A n \in Nodes : idom[n] # None => DomsOf(succs, Root, n) \subseteq Above(idom, n)

(* While a node is handled, its dominators are ancestors of the candidates, *)
(* and a candidate is an ancestor of each predecessor met.                  *)
Candidates == IF phase = "intersect" THEN {first, second} ELSE {newIdom}
Meeting ==
    Sweeping /\ node # None =>
        /\ waiting \subseteq Preds(node)
        /\ \A f \in Candidates : DomsOf(succs, Root, node) \ {node} \subseteq Above(idom, f)
        /\ \A p \in Preds(node) : idom[p] # None =>
              p \in waiting \/ \E f \in Candidates : f \in Above(idom, p)

(* As long as a sweep changes nothing, what it has passed satisfies the     *)
(* equations.                                                               *)
Stable ==
    Sweeping /\ ~changed =>
        \A n \in Nodes \ {Root} : postorder[n] > at =>
            \A p \in Preds(n) : idom[p] # None => idom[n] \in Above(idom, p)

(* The tree hung up by the sweeps is the tree of dominators.                *)
TreeOfDominators ==
    phase = "tree" =>
        /\ pass # "regions"
        /\ idom[Root] = None
        /\ Climbing(idom, postorder, Root)
        /\ \A n \in Nodes : postorder[n] > 0 => Above(idom, n) = DomsOf(succs, Root, n)
        /\ \A n \in Nodes \ {Root} : postorder[n] > 0 <=> idom[n] # None

(* Until a pass hangs up its tree, it has no numbers.                       *)
Numberless(p) ==
    \/ p = "regions"
    \/ p = "dead" /\ pass # "dead"
    \/ p = pass /\ phase \notin {"tree", "done"}
Blank ==
    /\ preorder \in [Passes -> [Nodes -> Nat]] /\ subtreeEnd \in [Passes -> [Nodes -> Nat]]
    /\ phase = "components" => pass = "regions"
    /\ phase = "done" => pass = "dead"
    /\ \A p \in Passes : Numberless(p) => \A n \in Nodes : preorder[p][n] = None

(* The first number behind a subtree, as far as it is known.                *)
Holds(stk, n) == \E i \in DOMAIN stk : stk[i].node = n
Behind(stk, fin, num, n) == IF Holds(stk, n) THEN num + 1 ELSE fin[n]

(* Numbering walks down the tree: the stack is a path, children are entered *)
(* in ascending order, and nothing is left before all its children are.     *)
WalkDown(link, root, stk, pre, fin, num) ==
    /\ num \in Nat
    /\ \A i \in DOMAIN stk : pre[stk[i].node] # None
    /\ \A i, j \in DOMAIN stk : i < j => pre[stk[i].node] < pre[stk[j].node]
    /\ \A i \in DOMAIN stk :
          i > 1 => link[stk[i].node] = stk[i - 1].node /\ stk[i - 1].done = stk[i].node
    /\ stk # << >> => stk[1].node = root
    /\ pre[root] # None
    /\ \A n \in DOMAIN link : pre[n] # None =>
          /\ n # root => link[n] # None /\ pre[link[n]] # None
          /\ pre[n] <= num
          /\ Behind(stk, fin, num, n) <= num + 1
          /\ ~Holds(stk, n) => \A c \in DOMAIN link : link[c] = n => pre[c] # None
    /\ \A i \in DOMAIN stk : \A c \in DOMAIN link :
          link[c] = stk[i].node => (pre[c] # None <=> c <= stk[i].done)

(* The numbers of a subtree are an interval.                                *)
Spans(link, stk, pre, fin, num) ==
    \A a, b \in DOMAIN link : pre[a] # None /\ pre[b] # None =>
        (a \in Above(link, b) <=> pre[a] <= pre[b] /\ pre[b] < Behind(stk, fin, num, a))

TreeWalk ==
    phase = "tree" => WalkDown(idom, Root, stack, preorder[pass], subtreeEnd[pass], numbered)
Intervals ==
    phase = "tree" => Spans(idom, stack, preorder[pass], subtreeEnd[pass], numbered)

LiveEdges == pass = "live" => succs = [n \in Nodes |-> IF n \in Blocks THEN Edges(n) ELSE << >>]

(* What the live pass leaves behind.                                        *)
LiveResult ==
    pass # "live" =>
        /\ reachable = Live
        /\ \A a \in Blocks, b \in Live :
              b \notin ReachedAvoiding({Entry}, {a}) <=> a \in Live /\ Within("live", a, b)

DomInv ==
    /\ Explored /\ Reached /\ NoneLost /\ Meeting /\ Stable
    /\ TreeOfDominators /\ Blank /\ TreeWalk /\ Intervals /\ LiveEdges /\ LiveResult
-----------------------------------------------------------------------------
(* Facts about what is walked to.                                           *)
Edged(N, edges) == edges \in [N -> Seq(N)]
Linked(N, link) == link \in [N -> N \cup {None}] /\ None \notin N

(* The reached nodes are themselves such a set.                             *)
LEMMA WalkedFacts ==
    ASSUME NEW N, NEW e, Edged(N, e), NEW A, A \subseteq N, NEW X
    PROVE  /\ Walked(e, A, X) \subseteq N
           /\ A \ X \subseteq Walked(e, A, X)
           /\ Onward(e, Walked(e, A, X), X)
           /\ Walked(e, A, X) \cap X = {}
  <1>1. DOMAIN e = N
    BY DEF Edged
  <1>2. \A c \in N : Elements(e[c]) \subseteq N
    BY DEF Elements, Edged
  <1> DEFINE W == Walked(e, A, X)
  <1>3. W \subseteq N /\ A \ X \subseteq W
    BY <1>1 DEF Walked
  <1>4. ASSUME NEW c \in W, NEW s \in Elements(e[c]) \ X
        PROVE  s \in W
    <2>1. ASSUME NEW S \in SUBSET N, A \ X \subseteq S, Onward(e, S, X)
          PROVE  s \in S
      <3>1. c \in S
        BY <1>1, <2>1 DEF Walked
      <3> QED BY <2>1, <3>1 DEF Onward
    <2>2. s \in N
      BY <1>2, <1>3
    <2> QED BY <1>1, <2>1, <2>2 DEF Walked
  <1>5. Onward(e, W, X)
    BY <1>4 DEF Onward
  <1>6. W \subseteq N \ X
    <2> DEFINE S == N \ X
    <2>1. Onward(e, S, X)
      BY <1>2 DEF Onward
    <2>2. S \in SUBSET N /\ A \ X \subseteq S
      OBVIOUS
    <2> HIDE DEF S
    <2>3. W \subseteq S
      BY <1>1, <2>1, <2>2 DEF Walked
    <2> QED BY <2>3 DEF S
  <1> QED BY <1>3, <1>5, <1>6

(* They are the least one.                                                  *)
LEMMA WalkedLeast ==
    ASSUME NEW N, NEW e, Edged(N, e), NEW A, NEW X,
           NEW S \in SUBSET N, A \ X \subseteq S, Onward(e, S, X)
    PROVE  Walked(e, A, X) \subseteq S
  <1>1. DOMAIN e = N
    BY DEF Edged
  <1> QED BY <1>1 DEF Walked

(* Avoiding less reaches more.                                              *)
LEMMA WalkedWider ==
    ASSUME NEW N, NEW e, Edged(N, e), NEW A, A \subseteq N, NEW X, NEW Y, Y \subseteq X
    PROVE  Walked(e, A, X) \subseteq Walked(e, A, Y)
  <1> DEFINE W == Walked(e, A, Y)
  <1>1. W \subseteq N /\ A \ Y \subseteq W /\ Onward(e, W, Y)
    BY WalkedFacts
  <1> HIDE DEF W
  <1>2. A \ X \subseteq W /\ Onward(e, W, X)
    BY <1>1 DEF Onward
  <1>3. Walked(e, A, X) \subseteq W
    BY <1>1, <1>2, WalkedLeast
  <1> QED BY <1>3 DEF W

(* What a reached node reaches is reached, its successors among it.         *)
LEMMA WalkedOn ==
    ASSUME NEW N, NEW e, Edged(N, e), NEW A, A \subseteq N, NEW X,
           NEW y \in Walked(e, A, X)
    PROVE  /\ Walked(e, {y}, X) \subseteq Walked(e, A, X)
           /\ \A z \in Elements(e[y]) : z \notin X => z \in Walked(e, A, X)
  <1> DEFINE W == Walked(e, A, X)
  <1>1. W \subseteq N /\ Onward(e, W, X)
    BY WalkedFacts
  <1>2. y \in W
    OBVIOUS
  <1> HIDE DEF W
  <1>3. Walked(e, {y}, X) \subseteq W
    BY <1>1, <1>2, WalkedLeast
  <1>4. \A z \in Elements(e[y]) : z \notin X => z \in W
    BY <1>1, <1>2 DEF Onward
  <1> QED BY <1>3, <1>4 DEF W

(* A successor of a reached node is reached, when nothing is avoided.       *)
LEMMA WalkedNext ==
    ASSUME NEW N, NEW e, Edged(N, e), NEW r \in N, NEW y \in Walked(e, {r}, {}), NEW z \in Elements(e[y])
    PROVE  z \in Walked(e, {r}, {})
  <1>1. {r} \subseteq N
    OBVIOUS
  <1>2. Onward(e, Walked(e, {r}, {}), {})
    BY <1>1, WalkedFacts
  <1> QED BY <1>2 DEF Onward

(* The root and the node itself dominate; other dominators pass to the      *)
(* predecessors.                                                            *)
LEMMA DominatorFacts ==
    ASSUME NEW N, NEW e, Edged(N, e), NEW r \in N
    PROVE  /\ \A n \in N : n \in DomsOf(e, r, n) /\ r \in DomsOf(e, r, n)
           /\ DomsOf(e, r, r) = {r}
           /\ \A p, n \in N : n \in Elements(e[p]) => DomsOf(e, r, n) \ {n} \subseteq DomsOf(e, r, p)
  <1>1. DOMAIN e = N
    BY DEF Edged
  <1>2. \A a \in N : Walked(e, {r}, {a}) \cap {a} = {}
    BY WalkedFacts
  <1>3. Walked(e, {r}, {r}) \subseteq {}
    <2>1. {r} \ {r} \subseteq {} /\ {} \in SUBSET N /\ Onward(e, {}, {r})
      BY DEF Onward
    <2> QED BY <2>1, WalkedLeast
  <1>4. \A n \in N : n \in DomsOf(e, r, n) /\ r \in DomsOf(e, r, n)
    BY <1>1, <1>2, <1>3 DEF DomsOf
  <1>5. \A a \in N : a # r => r \in Walked(e, {r}, {a})
    <2>1. \A a \in N : {r} \ {a} \subseteq Walked(e, {r}, {a})
      BY WalkedFacts
    <2> QED BY <2>1
  <1>6. DomsOf(e, r, r) = {r}
    BY <1>1, <1>4, <1>5 DEF DomsOf
  <1>7. ASSUME NEW p \in N, NEW n \in N, n \in Elements(e[p]), NEW a \in DomsOf(e, r, n) \ {n}
        PROVE  a \in DomsOf(e, r, p)
    <2>1. a \in N /\ n \notin Walked(e, {r}, {a}) /\ n \notin {a}
      BY <1>1 DEF DomsOf
    <2>2. ASSUME p \in Walked(e, {r}, {a})
          PROVE  n \in Walked(e, {r}, {a})
      <3>1. {r} \subseteq N /\ n \notin {a}
        BY <2>1
      <3> QED BY ONLY Edged(N, e), <1>7, <2>2, <3>1, WalkedOn
    <2> QED BY <1>1, <2>1, <2>2 DEF DomsOf
  <1> QED BY <1>4, <1>6, <1>7

-----------------------------------------------------------------------------
(* Facts about ancestors.                                                   *)
LEMMA AboveFacts ==
    ASSUME NEW N, NEW link, Linked(N, link), NEW n \in N
    PROVE  /\ n \in Above(link, n) /\ Above(link, n) \subseteq N
           /\ UpClosed(link, Above(link, n))
           /\ \A S \in SUBSET N : n \in S /\ UpClosed(link, S) => Above(link, n) \subseteq S
  <1>1. DOMAIN link = N
    BY DEF Linked
  <1>2. n \in Above(link, n) /\ Above(link, n) \subseteq N
    BY <1>1 DEF Above
  <1>3. \A S \in SUBSET N : n \in S /\ UpClosed(link, S) => Above(link, n) \subseteq S
    BY <1>1 DEF Above
  <1>4. ASSUME NEW c \in Above(link, n), link[c] # None
        PROVE  link[c] \in Above(link, n)
    <2>1. link[c] \in N
      BY <1>2, <1>4 DEF Linked
    <2>2. ASSUME NEW S \in SUBSET N, n \in S, UpClosed(link, S)
          PROVE  link[c] \in S
      BY <1>3, <1>4, <2>2 DEF UpClosed
    <2> QED BY <1>1, <2>1, <2>2 DEF Above
  <1> QED BY <1>2, <1>3, <1>4 DEF UpClosed

(* The ancestors of a node are the node and those of its link.              *)
LEMMA AboveSteps ==
    ASSUME NEW N, NEW link, Linked(N, link), NEW n \in N
    PROVE  /\ \A m \in Above(link, n) : Above(link, m) \subseteq Above(link, n)
           /\ link[n] # None => Above(link, n) = {n} \cup Above(link, link[n])
           /\ link[n] \in {n, None} => Above(link, n) = {n}
  <1>1. \A m \in Above(link, n) : Above(link, m) \subseteq Above(link, n)
    BY AboveFacts
  <1>2. ASSUME link[n] # None
        PROVE  Above(link, n) = {n} \cup Above(link, link[n])
    <2>1. link[n] \in N
      BY <1>2 DEF Linked
    <2> DEFINE S == {n} \cup Above(link, link[n])
    <2>2. S \in SUBSET N /\ n \in S /\ UpClosed(link, S)
      BY <2>1, AboveFacts DEF UpClosed
    <2>3. Above(link, n) \subseteq S
      <3> HIDE DEF S
      <3> QED BY <2>2, AboveFacts
    <2>4. link[n] \in Above(link, n) /\ n \in Above(link, n)
      BY <1>2, AboveFacts DEF UpClosed
    <2> QED BY <1>1, <2>3, <2>4
  <1>3. ASSUME link[n] \in {n, None}
        PROVE  Above(link, n) = {n}
    <2>1. {n} \in SUBSET N /\ UpClosed(link, {n})
      BY <1>3 DEF UpClosed
    <2> QED BY <2>1, AboveFacts
  <1> QED BY <1>1, <1>2, <1>3

(* Ancestors are left later.                                                *)
LEMMA AboveIsHigher ==
    ASSUME NEW N, NEW link, Linked(N, link), NEW order \in [N -> Nat],
           NEW r \in N, Climbing(link, order, r), NEW n \in N
    PROVE  \A m \in Above(link, n) : m = n \/ order[m] > order[n]
  <1> DEFINE S == {m \in N : m = n \/ order[m] > order[n]}
  <1>1. S \in SUBSET N /\ n \in S
    OBVIOUS
  <1>2. ASSUME NEW c \in S, link[c] # None
        PROVE  link[c] \in S
    <2>1. CASE c = r
      BY <1>2, <2>1 DEF Climbing
    <2>2. CASE c # r
      <3>1. c \in N /\ link[c] \in N /\ order[c] < order[link[c]]
        BY <1>2, <2>2 DEF Climbing, Linked
      <3> QED BY <3>1
    <2> QED BY <2>1, <2>2
  <1>3. UpClosed(link, S)
    BY <1>2 DEF UpClosed
  <1>4. Above(link, n) \subseteq S
    <2> HIDE DEF S
    <2> QED BY <1>1, <1>3, AboveFacts
  <1> QED BY <1>4

(* A node is reached from each of its ancestors without climbing above it.  *)
LEMMA LowChain ==
    ASSUME NEW N, NEW e, Edged(N, e), NEW link, Linked(N, link),
           NEW order \in [N -> Nat], NEW r \in N, Climbing(link, order, r),
           LowLinks(e, link, order, r), NEW n \in N
    PROVE  \A m \in Above(link, n) : n \in Walked(e, {m}, Higher(order, m))
  <1> DEFINE S == {m \in N : n \in Walked(e, {m}, Higher(order, m))}
  <1>1. n \in S
    <2>1. n \notin Higher(order, n)
      BY DEF Higher
    <2>2. {n} \ Higher(order, n) \subseteq Walked(e, {n}, Higher(order, n))
      BY WalkedFacts
    <2> QED BY <2>1, <2>2
  <1>2. ASSUME NEW c \in S, link[c] # None
        PROVE  link[c] \in S
    <2>1. CASE c = r
      BY <1>2, <2>1 DEF Climbing
    <2>2. CASE c # r
      <3> DEFINE d == link[c]
      <3>1. c \in N /\ d \in N /\ order[c] < order[d] /\ n \in Walked(e, {c}, Higher(order, c))
        BY <1>2, <2>2 DEF Climbing, Linked
      <3>2. c \in Walked(e, {d}, Higher(order, d))
        BY <1>2, <2>2 DEF LowLinks, Linked
      <3> HIDE DEF d
      <3>3. Higher(order, d) \subseteq Higher(order, c)
        BY <3>1 DEF Higher
      <3>4. n \in Walked(e, {c}, Higher(order, d))
        BY <3>1, <3>3, WalkedWider
      <3>5. n \in Walked(e, {d}, Higher(order, d))
        BY <3>1, <3>2, <3>4, WalkedOn
      <3> QED BY <3>1, <3>5 DEF d
    <2> QED BY <2>1, <2>2
  <1>3. S \in SUBSET N /\ UpClosed(link, S)
    BY <1>2 DEF UpClosed
  <1>4. Above(link, n) \subseteq S
    <2> HIDE DEF S
    <2> QED BY <1>1, <1>3, AboveFacts
  <1> QED BY <1>4

(* A new link of one node, to a node left later: ancestors change for the   *)
(* node's descendants only, and only above the node.                        *)
IsRelinked(new, link, d, q) == new = [link EXCEPT ![d] = q]

(* What a link from d to the later node q instead changes: only d's former  *)
(* ancestors may be lost, and only below d.                                 *)
LEMMA Relinked ==
    ASSUME NEW N, NEW link, Linked(N, link), NEW order \in [N -> Nat], NEW r \in N,
           Climbing(link, order, r), NEW d \in N, d # r, NEW q \in N, order[d] < order[q],
           NEW new, IsRelinked(new, link, d, q)
    PROVE  /\ Linked(N, new) /\ Climbing(new, order, r)
           /\ Above(link, q) \subseteq Above(new, q)
           /\ \A x \in N :
                 /\ d \notin Above(link, x) => Above(link, x) \subseteq Above(new, x)
                 /\ Above(link, x) \subseteq Above(new, x) \cup (Above(link, d) \ {d})
                 /\ d \in Above(link, x) => d \in Above(new, x)
  <1>1. /\ link \in [N -> N \cup {None}] /\ None \notin N
        /\ new \in [N -> N \cup {None}] /\ new[d] = q
        /\ \A c \in N : c # d => new[c] = link[c]
    BY DEF Linked, IsRelinked
  <1>2. Linked(N, new) /\ Climbing(new, order, r)
    BY <1>1 DEF Linked, Climbing
  <1>3. ASSUME NEW y \in N, d \notin Above(link, y)
        PROVE  Above(link, y) \subseteq Above(new, y)
    <2>1. Above(link, y) \subseteq N /\ UpClosed(link, Above(link, y)) /\ y \in Above(link, y)
      BY AboveFacts
    <2>2. Above(new, y) \subseteq N /\ UpClosed(new, Above(new, y)) /\ y \in Above(new, y)
      BY <1>2, AboveFacts
    <2> DEFINE S == Above(link, y) \cap Above(new, y)
    <2>3. S \in SUBSET N /\ y \in S
      BY <2>1, <2>2
    <2>4. UpClosed(link, S)
      <3> SUFFICES ASSUME NEW c \in S, link[c] # None PROVE link[c] \in S
        BY DEF UpClosed
      <3>1. c \in N /\ c # d /\ new[c] = link[c]
        BY <1>1, <1>3, <2>1
      <3> QED BY <2>1, <2>2, <3>1 DEF UpClosed
    <2> HIDE DEF S
    <2>5. Above(link, y) \subseteq S
      BY <2>3, <2>4, AboveFacts
    <2> QED BY <2>5 DEF S
  <1>4. \A m \in Above(link, d) : m = d \/ order[m] > order[d]
    BY AboveIsHigher
  <1>5. ASSUME NEW x \in N
        PROVE  Above(link, x) \subseteq Above(new, x) \cup (Above(link, d) \ {d})
    <2> DEFINE S == Above(new, x) \cup (Above(link, d) \ {d})
    <2>1. Above(new, x) \subseteq N /\ UpClosed(new, Above(new, x)) /\ x \in Above(new, x)
      BY <1>2, AboveFacts
    <2>2. Above(link, d) \subseteq N /\ UpClosed(link, Above(link, d)) /\ d \in Above(link, d)
      BY AboveFacts
    <2>3. ASSUME NEW c \in Above(link, d), link[c] # None, c # r
          PROVE  link[c] \in Above(link, d) \ {d}
      <3>1. c \in N /\ link[c] \in Above(link, d) /\ link[c] \in N
        BY <1>1, <2>2, <2>3 DEF UpClosed
      <3>2. order[c] < order[link[c]]
        BY <1>1, <2>3, <3>1 DEF Climbing
      <3>3. c = d \/ order[c] > order[d]
        BY <1>4
      <3>4. link[c] # d
        BY <3>1, <3>2, <3>3
      <3> QED BY <3>1, <3>4
    <2>4. UpClosed(link, S)
      <3> SUFFICES ASSUME NEW c \in S, link[c] # None PROVE link[c] \in S
        BY DEF UpClosed
      <3>1. CASE c = r
        BY <1>1, <3>1 DEF Climbing
      <3>2. CASE c \in Above(link, d) /\ c # r
        BY <2>3, <3>2
      <3>3. CASE c \notin Above(link, d)
        <4>1. c \in Above(new, x) /\ c # d /\ c \in N
          BY <2>1, <2>2, <3>3
        <4>2. new[c] = link[c]
          BY <1>1, <4>1
        <4> QED BY <2>1, <4>1, <4>2 DEF UpClosed
      <3> QED BY <3>1, <3>2, <3>3
    <2>5. S \in SUBSET N /\ x \in S
      BY <2>1, <2>2
    <2> HIDE DEF S
    <2>6. Above(link, x) \subseteq S
      BY <2>4, <2>5, AboveFacts
    <2> QED BY <2>6 DEF S
  <1>6. d \notin Above(link, q)
    <2>1. \A m \in Above(link, q) : m = q \/ order[m] > order[q]
      BY AboveIsHigher
    <2> QED BY <2>1
  <1>7. \A x \in N : d \in Above(link, x) => d \in Above(new, x)
    BY <1>5
  <1>8. Above(link, q) \subseteq Above(new, q)
    BY <1>3, <1>6
  <1> QED BY <1>2, <1>3, <1>5, <1>7, <1>8

-----------------------------------------------------------------------------
(* The analysis in these terms.                                             *)
LEMMA Terms ==
    ASSUME IInv
    PROVE  /\ Edged(Nodes, succs) /\ Linked(Nodes, idom) /\ postorder \in [Nodes -> Nat]
           /\ Root \in Nodes /\ None \notin Nodes /\ Nodes \subseteq Nat
           /\ DOMAIN stack = 1..Len(stack) /\ Len(stack) \in Nat
           /\ \A i \in DOMAIN stack : stack[i].node \in Nodes /\ stack[i].done \in Nat
           /\ \A n \in Nodes : \A p \in Preds(n) : p \in Nodes /\ n \in Elements(succs[p])
           /\ Sweeping => Climbing(idom, postorder, Root)
  <1>1. Typed /\ RootSelf /\ LinksClimb
    BY DEF IInv
  <1>2. Edged(Nodes, succs) /\ Linked(Nodes, idom) /\ postorder \in [Nodes -> Nat]
    BY <1>1, BlockFacts DEF Typed, Edged, Linked
  <1>3. Root \in Nodes /\ None \notin Nodes /\ Nodes \subseteq Nat
    BY <1>1, BlockFacts DEF Typed
  <1>4. DOMAIN stack = 1..Len(stack) /\ Len(stack) \in Nat /\ \A i \in DOMAIN stack : stack[i] \in Frames
    BY <1>1 DEF Typed
  <1>5. \A f \in Frames : f.node \in Nodes /\ f.done \in Nat
    BY DEF Frames
  <1>6. Sweeping => Climbing(idom, postorder, Root)
    BY <1>1, <1>2 DEF RootSelf, LinksClimb, Climbing, Linked, Sweeping, Deeper
  <1> QED BY <1>2, <1>3, <1>4, <1>5, <1>6 DEF Preds

(* The stack with another top, and with one more entry.                     *)
LEMMA TopReplaced ==
    ASSUME Typed, stack # << >>, NEW d \in Nat, NEW c \in Nodes
    PROVE  LET n == Len(stack)
               advanced == Append(Below, [Top EXCEPT !.done = d])
               pushed == Append(advanced, Enter(c))
           IN  /\ n \in Nat /\ n > 0 /\ DOMAIN stack = 1..n /\ Top = stack[n]
               /\ DOMAIN advanced = 1..n /\ DOMAIN pushed = 1..(n + 1)
               /\ \A i \in 1..(n - 1) : advanced[i] = stack[i] /\ pushed[i] = stack[i]
               /\ advanced[n].node = Top.node /\ advanced[n].done = d
               /\ pushed[n].node = Top.node /\ pushed[n].done = d
               /\ pushed[n + 1].node = c /\ pushed[n + 1].done = 0
               /\ \A i \in 1..n : advanced[i].node = stack[i].node /\ pushed[i].node = stack[i].node
  <1> DEFINE n == Len(stack)
             top == [Top EXCEPT !.done = d]
             advanced == Append(Below, top)
             pushed == Append(advanced, Enter(c))
  <1>1. /\ n \in Nat /\ n > 0 /\ Top \in Frames /\ Top = stack[n]
        /\ Below \in Seq(Frames) /\ Len(Below) = n - 1
        /\ \A i \in 1..(n - 1) : Below[i] = stack[i]
    BY StackFacts
  <1>2. top \in Frames /\ top.node = Top.node /\ top.done = d
    BY <1>1 DEF Frames
  <1>3. Enter(c) \in Frames /\ Enter(c).node = c /\ Enter(c).done = 0
    BY DEF Enter, Frames
  <1>4. DOMAIN stack = 1..n
    BY DEF Typed
  <1> HIDE DEF n, top
  <1>5. /\ advanced \in Seq(Frames) /\ Len(advanced) = n /\ advanced[n] = top
        /\ \A i \in 1..(n - 1) : advanced[i] = Below[i]
    BY <1>1, <1>2
  <1> HIDE DEF advanced
  <1>6. /\ pushed \in Seq(Frames) /\ Len(pushed) = n + 1 /\ pushed[n + 1] = Enter(c)
        /\ \A i \in 1..n : pushed[i] = advanced[i]
    BY <1>1, <1>3, <1>5
  <1> HIDE DEF pushed
  <1>7. DOMAIN advanced = 1..n /\ DOMAIN pushed = 1..(n + 1)
    BY <1>5, <1>6
  <1>8. \A i \in 1..(n - 1) : i \in 1..n /\ advanced[i] = stack[i] /\ pushed[i] = stack[i]
    BY <1>1, <1>5, <1>6
  <1>9. n \in 1..n /\ pushed[n] = top /\ \A i \in 1..n : i \in 1..(n - 1) \/ i = n
    BY <1>1, <1>5, <1>6
  <1>10. \A i \in 1..n : advanced[i].node = stack[i].node /\ pushed[i].node = stack[i].node
    BY <1>1, <1>2, <1>5, <1>8, <1>9
  <1> QED BY <1>1, <1>2, <1>3, <1>4, <1>5, <1>6, <1>7, <1>8, <1>9, <1>10 DEF n, top, advanced, pushed

(* The search enters a successor or passes over one already seen.           *)
LEMMA VisitExplored ==
    ASSUME IInv, Explored, Visit
    PROVE  Explored'
  <1>0. UNCHANGED <<targets, pass, phase, succs, postorder>>
    BY DEF Visit
  <1>2. SUFFICES ASSUME pass # "regions" PROVE Explored'
    BY <1>0 DEF Explored
  <1> DEFINE n == Len(stack)
             t == Top.node
  <1>3. phase = "order" /\ stack # << >> /\ t \in Nodes /\ Top.done \in Nat /\ Typed
    BY StackFacts DEF IInv, Visit
  <1>4. PICK s \in Nodes : s = succs[t][Top.done + 1] /\ s \in Elements(succs[t])
    <2>1. succs[t] \in Seq(Nodes)
      BY <1>3 DEF Typed
    <2>2. Top.done + 1 \in DOMAIN succs[t]
      BY <1>3, <2>1 DEF Visit
    <2>3. succs[t][Top.done + 1] \in Nodes
      BY <2>1, <2>2
    <2> QED BY <2>2, <2>3 DEF Elements
  <1> DEFINE advanced == Append(Below, [Top EXCEPT !.done = Top.done + 1])
             pushed == Append(advanced, Enter(s))
  <1>1. /\ phase = "order" /\ stack # << >> /\ Top.done < Len(succs[t])
        /\ stack' = IF s \in seen THEN advanced ELSE pushed
    BY <1>4 DEF Visit
  <1>5. Top.done + 1 \in Nat /\ seen' = seen \cup {s}
    BY <1>3, <1>4 DEF Visit
  <1>6. /\ n \in Nat /\ n > 0 /\ DOMAIN stack = 1..n /\ Top = stack[n]
        /\ DOMAIN advanced = 1..n /\ DOMAIN pushed = 1..(n + 1)
        /\ \A i \in 1..(n - 1) : advanced[i] = stack[i] /\ pushed[i] = stack[i]
        /\ advanced[n].node = t /\ advanced[n].done = Top.done + 1
        /\ pushed[n].node = t /\ pushed[n].done = Top.done + 1
        /\ pushed[n + 1].node = s /\ pushed[n + 1].done = 0
        /\ \A i \in 1..n : advanced[i].node = stack[i].node /\ pushed[i].node = stack[i].node
    BY ONLY <1>3, <1>5, s \in Nodes, TopReplaced
  <1> HIDE DEF n, advanced, pushed
  <1>7. /\ n \in Nat /\ n > 0 /\ DOMAIN stack = 1..n /\ Top = stack[n]
        /\ \A i \in 1..(n - 1) : stack'[i] = stack[i]
        /\ stack'[n].node = t /\ stack'[n].done = Top.done + 1
        /\ \A i \in 1..n : i \in DOMAIN stack' /\ stack'[i].node = stack[i].node
        /\ \A i \in DOMAIN stack' : i \in 1..(n - 1) \/ i = n \/ (i = n + 1 /\ s \notin seen)
        /\ s \notin seen => n + 1 \in DOMAIN stack' /\ stack'[n + 1].node = s /\ stack'[n + 1].done = 0
    BY <1>1, <1>6
  <1>8. /\ Root \in seen /\ seen \subseteq Walked(succs, {Root}, {})
        /\ \A m \in seen : postorder[m] > 0 \/ OnStack(m)
        /\ \A m \in Nodes : postorder[m] > 0 => Elements(succs[m]) \subseteq seen
        /\ \A i \in DOMAIN stack : \A k \in 1..stack[i].done :
               k \in DOMAIN succs[stack[i].node] => succs[stack[i].node][k] \in seen
    BY <1>1, <1>2 DEF Explored
  <1>9. s \in Walked(succs, {Root}, {})
    <2>1. t \in seen
      BY <1>1, <1>2, <1>7 DEF IInv, StackIsPath
    <2>2. Edged(Nodes, succs) /\ Root \in Nodes
      BY Terms
    <2>3. t \in Walked(succs, {Root}, {})
      BY <1>8, <2>1
    <2> QED BY ONLY <1>4, <2>2, <2>3, WalkedNext
  <1>10. \A m \in seen' : postorder[m] > 0 \/ OnStack(m)'
    <2>1. \A m : OnStack(m) => OnStack(m)'
      BY <1>7 DEF OnStack
    <2>2. s \notin seen => OnStack(s)'
      BY <1>7 DEF OnStack
    <2> QED BY <1>5, <1>8, <2>1, <2>2
  <1>11. ASSUME NEW i \in DOMAIN stack', NEW k \in 1..stack'[i].done, k \in DOMAIN succs[stack'[i].node]
         PROVE  succs[stack'[i].node][k] \in seen'
    <2>1. CASE i \in 1..(n - 1)
      <3>1. i \in DOMAIN stack /\ stack'[i] = stack[i]
        BY <1>7, <2>1
      <3> QED BY <1>0, <1>5, <1>8, <1>11, <3>1
    <2>2. CASE i = n
      <3>1. n \in DOMAIN stack /\ stack[n].node = t /\ stack[n].done = Top.done
        BY <1>7
      <3>2. CASE k \in 1..Top.done
        BY <1>0, <1>5, <1>7, <1>8, <1>11, <2>2, <3>1, <3>2
      <3>3. CASE k = Top.done + 1
        BY <1>4, <1>5, <1>7, <2>2, <3>3
      <3>4. k \in 1..(Top.done + 1)
        BY <1>7, <2>2
      <3> QED BY <1>3, <3>2, <3>3, <3>4
    <2>3. CASE i = n + 1
      BY <1>7, <2>3
    <2> QED BY <1>7, <2>1, <2>2, <2>3
  <1>12. Root' = Root /\ Nodes' = Nodes
    BY <1>0 DEF Root, VirtualRoot, Nodes
  <1>13. Root' \in seen' /\ seen' \subseteq Walked(succs', {Root'}, {})
    BY <1>0, <1>5, <1>8, <1>9, <1>12
  <1>14. \A m \in Nodes' : postorder'[m] > 0 => Elements(succs'[m]) \subseteq seen'
    BY <1>0, <1>5, <1>8, <1>12
  <1> HIDE DEF t
  <1> QED BY <1>0, <1>3, <1>10, <1>11, <1>13, <1>14 DEF Explored

(* A node is left when all its successors have been passed over.            *)
LEMMA LeaveExplored ==
    ASSUME IInv, Explored, Leave
    PROVE  Explored'
  <1> DEFINE n == Len(stack)
             t == Top.node
  <1>1. /\ phase = "order" /\ stack # << >> /\ Top.done = Len(succs[t]) /\ stack' = Below
        /\ postorder' = [postorder EXCEPT ![t] = count + 1]
        /\ UNCHANGED <<targets, pass, phase, succs, seen>>
    BY DEF Leave
  <1>2. SUFFICES ASSUME pass # "regions" PROVE Explored'
    BY <1>1 DEF Explored
  <1>3. /\ n \in Nat /\ n > 0 /\ Top = stack[n] /\ t \in Nodes /\ Top.done \in Nat
        /\ Below \in Seq(Frames) /\ Len(Below) = n - 1
        /\ \A i \in 1..(n - 1) : Below[i] = stack[i]
    BY <1>1, StackFacts DEF IInv
  <1>4. /\ DOMAIN stack = 1..n /\ postorder \in [Nodes -> Nat] /\ Edged(Nodes, succs) /\ count \in Nat
        /\ seen \subseteq Nodes
    BY Terms DEF IInv, Typed
  <1> HIDE DEF n
  <1>5. DOMAIN stack' = 1..(n - 1) /\ \A i \in 1..(n - 1) : i \in DOMAIN stack /\ stack'[i] = stack[i]
    BY <1>1, <1>3, <1>4
  <1>6. /\ Root \in seen /\ seen \subseteq Walked(succs, {Root}, {})
        /\ \A m \in seen : postorder[m] > 0 \/ OnStack(m)
        /\ \A m \in Nodes : postorder[m] > 0 => Elements(succs[m]) \subseteq seen
        /\ \A i \in DOMAIN stack : \A k \in 1..stack[i].done :
               k \in DOMAIN succs[stack[i].node] => succs[stack[i].node][k] \in seen
    BY <1>1, <1>2 DEF Explored
  <1>7. postorder'[t] > 0 /\ \A m \in Nodes : m # t => postorder'[m] = postorder[m]
    BY <1>1, <1>3, <1>4
  <1>8. \A m \in seen : postorder'[m] > 0 \/ OnStack(m)'
    <2> SUFFICES ASSUME NEW m \in seen, m # t, OnStack(m) PROVE OnStack(m)'
      BY <1>4, <1>6, <1>7
    <2>1. PICK i \in DOMAIN stack : stack[i].node = m
      BY DEF OnStack
    <2>2. i \in 1..(n - 1)
      BY <1>3, <1>4, <2>1
    <2> QED BY <1>5, <2>1, <2>2 DEF OnStack
  <1>9. Elements(succs[t]) \subseteq seen
    <2>1. succs[t] \in Seq(Nodes)
      BY <1>3, <1>4 DEF Edged
    <2>2. n \in DOMAIN stack
      BY <1>3, <1>4
    <2>3. DOMAIN succs[t] = 1..Top.done
      BY <1>1, <2>1
    <2> QED BY <1>3, <1>6, <2>2, <2>3 DEF Elements
  <1>10. \A m \in Nodes : postorder'[m] > 0 => Elements(succs[m]) \subseteq seen
    BY <1>6, <1>7, <1>9
  <1>11. Root' = Root /\ Nodes' = Nodes
    BY <1>1 DEF Root, VirtualRoot, Nodes
  <1> QED BY <1>1, <1>5, <1>6, <1>8, <1>10, <1>11 DEF Explored

(* Every step keeps what the search has established.                        *)
LEMMA ExploredStep ==
    ASSUME IInv, IInv', Explored, [Next]_vars
    PROVE  Explored'
  <1>1. CASE Visit
    BY <1>1, VisitExplored
  <1>2. CASE Leave
    BY <1>2, LeaveExplored
  <1>3. CASE Ordered
    <2>1. phase = "order" /\ phase' = "sweep" /\ stack = << >>
          /\ UNCHANGED <<targets, pass, succs, postorder, seen>>
      BY <1>3 DEF Ordered, orderVars
    <2>2. \A m : ~OnStack(m)
      BY <2>1 DEF OnStack
    <2>3. Root' = Root /\ Nodes' = Nodes
      BY <2>1, GraphKept
    <2> QED BY <2>1, <2>2, <2>3 DEF Explored
  <1>4. CASE BeginNode \/ BeginIntersect \/ RaiseFirst \/ RaiseSecond \/ EndIntersect \/ FinishNode
             \/ EndSweep \/ SweepsEnd \/ NumberChild \/ NumberEnd \/ DeadTreeEnd \/ Collect
    <2>1. /\ phase # "order" /\ phase' # "order"
          /\ UNCHANGED <<targets, pass, succs, postorder, seen>>
      BY <1>4 DEF BeginNode, BeginIntersect, RaiseFirst, RaiseSecond, EndIntersect, FinishNode, EndSweep,
                  SweepsEnd, NumberChild, NumberEnd, DeadTreeEnd, Collect, orderVars
    <2>2. Root' = Root /\ Nodes' = Nodes
      BY <2>1, GraphKept
    <2> QED BY <2>1, <2>2 DEF Explored
  <1>5. CASE LiveTreeEnd \/ NextStart
    BY <1>5 DEF LiveTreeEnd, NextStart, Explored
  <1>6. CASE AllOrdered
    BY <1>6 DEF AllOrdered, Explored
  <1>7. CASE BeginDead
    <2>1. /\ pass' = "dead" /\ phase' = "order" /\ seen' = {VirtualRoot}
          /\ stack' = <<Enter(VirtualRoot)>> /\ postorder' = [m \in Nodes |-> 0] /\ targets' = targets
      BY <1>7 DEF BeginDead
    <2>2. Root' = VirtualRoot /\ Nodes' = Nodes /\ VirtualRoot' = VirtualRoot
      BY <2>1 DEF Root, VirtualRoot, Nodes
    <2>3. Edged(Nodes, succs') /\ VirtualRoot \in Nodes
      BY <2>2, BlockFacts DEF Edged, IInv, Typed
    <2>4. VirtualRoot \in Walked(succs', {VirtualRoot}, {})
      <3>1. {VirtualRoot} \subseteq Nodes
        BY <2>3
      <3>2. {VirtualRoot} \ {} \subseteq Walked(succs', {VirtualRoot}, {})
        BY <2>3, <3>1, WalkedFacts
      <3> QED BY <3>2
    <2>5. 1 \in DOMAIN stack' /\ DOMAIN stack' = {1} /\ stack'[1].node = VirtualRoot /\ stack'[1].done = 0
      BY <2>1 DEF Enter
    <2>6. OnStack(VirtualRoot)'
      BY <2>2, <2>5 DEF OnStack
    <2>7. \A m \in seen' : OnStack(m)'
      BY <2>1, <2>2, <2>6
    <2>8. \A m \in Nodes : ~(postorder'[m] > 0)
      BY <2>1
    <2>9. seen' \subseteq Walked(succs', {Root'}, {}) /\ Root' \in seen'
      BY <2>1, <2>2, <2>4
    <2>10. \A i \in DOMAIN stack' : \A k \in 1..stack'[i].done : FALSE
      BY <2>5
    <2> QED BY <2>1, <2>2, <2>7, <2>8, <2>9, <2>10 DEF Explored
  <1>8. CASE Done \/ UNCHANGED vars
    <2>1. UNCHANGED <<targets, pass, phase, succs, stack, postorder, seen>>
      BY <1>8 DEF Done, vars, orderVars
    <2>2. Root' = Root /\ Nodes' = Nodes
      BY <2>1, GraphKept
    <2> QED BY <2>1, <2>2 DEF Explored, OnStack
  <1> QED BY <1>1, <1>2, <1>3, <1>4, <1>5, <1>6, <1>7, <1>8 DEF Next

-----------------------------------------------------------------------------
(* The sweeps.                                                              *)
SweepDominance == Reached /\ NoneLost /\ Meeting /\ Stable

(* What the proved invariant says of the orders and links during a sweep.   *)
LEMMA SweepTerms ==
    ASSUME IInv, Sweeping
    PROVE  /\ pass # "regions" /\ at \in Nat /\ count \in Nat /\ count > 0
           /\ idom[Root] = Root /\ postorder[Root] = count /\ at < count
           /\ \A n \in Nodes : postorder[n] > at => idom[n] # None
           /\ \A n \in Nodes : idom[n] # None => idom[n] \in Nodes /\ idom[idom[n]] # None
           /\ \A m, n \in Nodes : postorder[m] > 0 /\ postorder[m] = postorder[n] => m = n
           /\ \A n \in Nodes : postorder[n] <= count
           /\ \A n \in Nodes \ {Root} : postorder[n] > 0 =>
                 \E p \in Preds(n) : postorder[p] > postorder[n]
  <1>1. Typed /\ Processed /\ RootSelf /\ Positions /\ HasParent
    BY DEF IInv
  <1>2. phase # "order" /\ phase \in {"sweep", "intersect"}
    BY DEF Sweeping
  <1>3. pass # "regions" /\ count > 0 /\ \A n \in Nodes : idom[n] # None => idom[idom[n]] # None
    BY <1>1 DEF Processed
  <1>4. \A n \in Nodes : idom[n] # None => idom[n] \in Nodes
    BY <1>1 DEF Typed
  <1>5. /\ \A m, n \in Nodes : postorder[m] > 0 /\ postorder[m] = postorder[n] => m = n
        /\ \A n \in Nodes : postorder[n] <= count
    BY <1>1, <1>3 DEF Positions
  <1>6. \A n \in Nodes \ {Root} : postorder[n] > 0 => \E p \in Preds(n) : postorder[p] > postorder[n]
    BY <1>1, <1>2, <1>3 DEF HasParent
  <1> QED BY <1>1, <1>3, <1>4, <1>5, <1>6 DEF Typed, Processed, RootSelf

(* What it says while the dominator of a node is computed.                  *)
LEMMA HandlingTerms ==
    ASSUME IInv, Sweeping, node # None
    PROVE  /\ node \in Nodes /\ node # Root /\ at > 0 /\ postorder[node] = at
           /\ newIdom \in Nodes /\ idom[newIdom] # None
           /\ \A p \in waiting : p \in Nodes /\ idom[p] # None
           /\ phase = "intersect" => first \in Nodes /\ second \in Nodes /\ idom[first] # None /\ idom[second] # None
           /\ \A f \in Candidates : f \in Nodes /\ idom[f] # None
  <1>1. Typed /\ Handling /\ FingersProcessed
    BY DEF IInv
  <1>2. node \in Nodes /\ at > 0 /\ postorder[node] = at
    BY <1>1 DEF Typed, Handling
  <1>3. node # Root
    BY <1>2, SweepTerms
  <1>4. newIdom \in Nodes /\ idom[newIdom] # None /\ \A p \in waiting : p \in Nodes /\ idom[p] # None
    BY <1>1 DEF Typed, Handling
  <1>5. phase = "intersect" => first \in Nodes /\ second \in Nodes /\ idom[first] # None /\ idom[second] # None
    BY <1>1 DEF Typed, FingersProcessed
  <1> QED BY <1>2, <1>3, <1>4, <1>5 DEF Candidates

(* Steps that leave graph, order and dominators alone.                      *)
LEMMA SweepKept ==
    ASSUME Sweeping, Sweeping', Reached, NoneLost, UNCHANGED <<targets, pass, succs, postorder, idom>>
    PROVE  Reached' /\ NoneLost' /\ Root' = Root /\ Nodes' = Nodes /\ \A n : Preds(n)' = Preds(n)
  <1>1. Root' = Root /\ Nodes' = Nodes /\ \A n : Preds(n)' = Preds(n)
    BY GraphKept
  <1> QED BY <1>1 DEF Reached, NoneLost

(* Before the first sweep only the root is linked, to itself.               *)
LEMMA OrderedDominance ==
    ASSUME IInv, IInv', Ordered
    PROVE  SweepDominance'
  <1>1. /\ phase = "order" /\ phase' = "sweep" /\ pass # "regions" /\ stack = << >>
        /\ idom' = [n \in Nodes |-> IF n = Root THEN Root ELSE None]
        /\ at' = count - 1 /\ count' = count
        /\ UNCHANGED <<targets, pass, succs, postorder, node>>
    BY DEF Ordered, orderVars
  <1>2. Root' = Root /\ Nodes' = Nodes
    BY <1>1, GraphKept
  <1>3. Sweeping' /\ node' = None
    BY <1>1 DEF Sweeping, IInv, Handling
  <1>4. Root \in Nodes /\ None \notin Nodes /\ Edged(Nodes, succs) /\ postorder \in [Nodes -> Nat]
    BY Terms
  <1>5. Linked(Nodes, idom') /\ Linked(Nodes, idom)'
    BY <1>1, <1>2, <1>4 DEF Linked
  <1>6. \A n \in Nodes : idom'[n] # None => n = Root
    BY <1>1
  <1>7. postorder[Root] = count /\ count > 0 /\ count \in Nat
    BY <1>1 DEF IInv, StackIsPath, Typed
  <1>8. Reached'
    BY <1>1, <1>2, <1>6, <1>7 DEF Reached, LowLinks
  <1>9. NoneLost'
    <2>1. DomsOf(succs, Root, Root) = {Root}
      BY <1>4, DominatorFacts
    <2>2. Root \in Above(idom', Root)
      BY <1>4, <1>5, AboveFacts
    <2>3. \A n \in Nodes : idom'[n] # None => DomsOf(succs, Root, n) \subseteq Above(idom', n)
      BY <1>6, <2>1, <2>2
    <2> QED BY <1>1, <1>2, <2>3 DEF NoneLost
  <1>10. Stable'
    <2>1. \A n \in Nodes \ {Root} : ~(postorder[n] > count - 1)
      <3> SUFFICES ASSUME NEW n \in Nodes, postorder[n] > count - 1 PROVE n = Root
        OBVIOUS
      <3>1. \A k \in Nodes : postorder[k] <= count
        BY <1>1 DEF IInv, Positions
      <3>2. postorder[n] = count
        BY <1>1, <1>2, <1>4, <1>7, <3>1
      <3>3. \A k, m \in Nodes : postorder[k] > 0 /\ postorder[k] = postorder[m] => k = m
        BY <1>1 DEF IInv, Positions
      <3> QED BY <1>1, <1>2, <1>4, <1>7, <3>2, <3>3
    <2> QED BY <1>1, <1>2, <2>1 DEF Stable
  <1> QED BY <1>3, <1>8, <1>9, <1>10 DEF SweepDominance, Meeting

(* The first processed predecessor is the first candidate.                  *)
LEMMA BeginNodeDominance ==
    ASSUME IInv, IInv', SweepDominance, BeginNode
    PROVE  SweepDominance'
  <1>1. /\ phase = "sweep" /\ phase' = "sweep" /\ node = None /\ at > 0
        /\ UNCHANGED <<targets, pass, succs, postorder, idom, changed>>
    BY DEF BeginNode, orderVars
  <1>2. PICK n \in Nodes :
          /\ postorder[n] = at
          /\ IF ProcessedPreds(n) = {}
               THEN at' = at - 1 /\ UNCHANGED <<node, waiting, newIdom>>
               ELSE \E p \in ProcessedPreds(n) :
                       /\ node' = n /\ newIdom' = p
                       /\ waiting' = ProcessedPreds(n) \ {p}
                       /\ at' = at
    BY DEF BeginNode
  <1>3. Sweeping /\ Sweeping' /\ Reached /\ NoneLost
    BY <1>1 DEF Sweeping, SweepDominance
  <1>4. Reached' /\ NoneLost' /\ Root' = Root /\ Nodes' = Nodes /\ Preds(n)' = Preds(n)
        /\ \A m : Preds(m)' = Preds(m)
    BY <1>1, <1>3, SweepKept
  <1>5. n # Root
    BY <1>2, <1>3, SweepTerms
  <1>6. PICK p \in Preds(n) : postorder[p] > postorder[n]
    BY <1>1, <1>2, <1>3, <1>5, SweepTerms
  <1>7. p \in ProcessedPreds(n)
    BY <1>2, <1>3, <1>6, Terms, SweepTerms DEF ProcessedPreds
  <1>8. PICK q \in ProcessedPreds(n) :
           /\ node' = n /\ newIdom' = q
           /\ waiting' = ProcessedPreds(n) \ {q} /\ at' = at
    BY <1>2, <1>7
  <1>9. q \in Preds(n) /\ q \in Nodes /\ idom[q] # None /\ n \in Elements(succs[q])
    BY Terms DEF ProcessedPreds
  <1>10. Edged(Nodes, succs) /\ Linked(Nodes, idom) /\ Root \in Nodes
    BY Terms
  <1>11. DomsOf(succs, Root, n) \ {n} \subseteq Above(idom, q)
    <2>1. DomsOf(succs, Root, n) \ {n} \subseteq DomsOf(succs, Root, q)
      BY <1>9, <1>10, DominatorFacts
    <2>2. DomsOf(succs, Root, q) \subseteq Above(idom, q)
      BY <1>3, <1>9 DEF NoneLost
    <2> QED BY <2>1, <2>2
  <1>12. q \in Above(idom, q)
    BY <1>9, <1>10, AboveFacts
  <1>13. Candidates' = {q}
    BY <1>1, <1>8 DEF Candidates
  <1>14. waiting' \subseteq Preds(n)
    BY <1>8 DEF ProcessedPreds
  <1>15. \A r \in Preds(n) : idom[r] # None => r \in waiting' \/ r = q
    BY <1>8 DEF ProcessedPreds
  <1>16. Preds(node)' = Preds(n)
    BY <1>1, <1>8 DEF Preds, Nodes, VirtualRoot
  <1>17. Meeting'
    <2> SUFFICES
          /\ waiting' \subseteq Preds(n)
          /\ \A f \in {q} : DomsOf(succs, Root, n) \ {n} \subseteq Above(idom, f)
          /\ \A r \in Preds(n) : idom[r] # None => r \in waiting' \/ \E f \in {q} : f \in Above(idom, r)
      BY <1>1, <1>4, <1>8, <1>13, <1>16 DEF Meeting
    <2> QED BY <1>11, <1>12, <1>14, <1>15
  <1>18. Stable'
    BY <1>1, <1>3, <1>4, <1>8 DEF SweepDominance, Stable
  <1> QED BY <1>4, <1>17, <1>18 DEF SweepDominance

(* A finger that climbs loses no common ancestor.                           *)
LEMMA FingersDominance ==
    ASSUME IInv, SweepDominance, BeginIntersect \/ RaiseFirst \/ RaiseSecond \/ EndIntersect
    PROVE  SweepDominance'
  <1>1. /\ Sweeping /\ Sweeping' /\ node # None
        /\ UNCHANGED <<targets, pass, succs, postorder, count, idom, at, node, changed>>
    BY DEF BeginIntersect, RaiseFirst, RaiseSecond, EndIntersect, orderVars, IInv, Handling, Sweeping
  <1>2. Reached /\ NoneLost /\ Meeting /\ Stable
    BY DEF SweepDominance
  <1>3. Reached' /\ NoneLost' /\ Root' = Root /\ Nodes' = Nodes /\ \A n : Preds(n)' = Preds(n)
    BY <1>1, <1>2, SweepKept
  <1>4. Stable'
    BY <1>1, <1>2, <1>3 DEF Stable
  <1>5. PICK d \in Nodes : d = node /\ d # Root
    BY <1>1, HandlingTerms
  <1> DEFINE D == DomsOf(succs, Root, d) \ {d}
  <1>6. /\ waiting \subseteq Preds(d)
        /\ \A f \in Candidates : D \subseteq Above(idom, f)
        /\ \A p \in Preds(d) : idom[p] # None => p \in waiting \/ \E f \in Candidates : f \in Above(idom, p)
    BY <1>1, <1>2, <1>5 DEF Meeting
  <1>7. SUFFICES
          /\ waiting' \subseteq Preds(d)
          /\ \A f \in Candidates' : D \subseteq Above(idom, f)
          /\ \A p \in Preds(d) : idom[p] # None =>
                p \in waiting' \/ \E f \in Candidates' : f \in Above(idom, p)
    <2>1. Preds(node)' = Preds(d)
      BY <1>1, <1>5 DEF Preds, Nodes, VirtualRoot
    <2> QED BY <1>1, <1>3, <1>4, <1>5, <2>1 DEF SweepDominance, Meeting
  <1>8. /\ Edged(Nodes, succs) /\ Linked(Nodes, idom) /\ Root \in Nodes /\ postorder \in [Nodes -> Nat]
        /\ Climbing(idom, postorder, Root)
        /\ \A p \in Preds(d) : p \in Nodes /\ d \in Elements(succs[p])
    BY <1>1, Terms
  <1>9. /\ \A p \in waiting : p \in Nodes /\ idom[p] # None
        /\ \A f \in Candidates : f \in Nodes /\ idom[f] # None
        /\ newIdom \in Nodes
        /\ phase = "intersect" => first \in Nodes /\ second \in Nodes /\ idom[first] # None /\ idom[second] # None
    BY <1>1, HandlingTerms
  <1> HIDE DEF D
  <1>10. CASE BeginIntersect
    <2>1. PICK q \in waiting : first' = q /\ second' = newIdom /\ waiting' = waiting \ {q}
      BY <1>10 DEF BeginIntersect
    <2>2. Candidates = {newIdom} /\ Candidates' = {q, newIdom}
      BY <1>10, <2>1 DEF BeginIntersect, Candidates
    <2>3. q \in Nodes /\ idom[q] # None /\ q \in Preds(d) /\ d \in Elements(succs[q])
      BY <1>6, <1>8, <1>9
    <2>4. D \subseteq Above(idom, q)
      <3>1. D \subseteq DomsOf(succs, Root, q)
        BY <1>8, <2>3, DominatorFacts DEF D
      <3>2. DomsOf(succs, Root, q) \subseteq Above(idom, q)
        BY <1>1, <1>2, <2>3 DEF NoneLost
      <3> QED BY <3>1, <3>2
    <2>5. q \in Above(idom, q)
      BY <1>8, <2>3, AboveFacts
    <2> QED BY <1>6, <2>1, <2>2, <2>4, <2>5
  <1>11. ASSUME phase = "intersect", NEW low \in Nodes, NEW high \in Nodes, NEW up \in Nodes,
                Candidates = {low, high}, Candidates' = {up, high}, up = idom[low],
                postorder[low] < postorder[high], waiting' = waiting
         PROVE  /\ waiting' \subseteq Preds(d)
                /\ \A f \in Candidates' : D \subseteq Above(idom, f)
                /\ \A p \in Preds(d) : idom[p] # None =>
                      p \in waiting' \/ \E f \in Candidates' : f \in Above(idom, p)
    <2>1. up # None
      BY <1>8 DEF Linked
    <2>2. Above(idom, low) = {low} \cup Above(idom, up)
      BY <1>8, <1>11, <2>1, AboveSteps
    <2>3. low \notin Above(idom, high)
      <3>1. \A m \in Above(idom, high) : m = high \/ postorder[m] > postorder[high]
        BY <1>8, AboveIsHigher
      <3> QED BY <1>8, <1>11, <3>1
    <2>4. D \subseteq Above(idom, up)
      BY <1>6, <1>11, <2>2, <2>3
    <2>5. \A p \in Preds(d) : low \in Above(idom, p) => up \in Above(idom, p)
      <3>1. \A p \in Preds(d) : UpClosed(idom, Above(idom, p))
        BY <1>8, AboveFacts
      <3> QED BY <1>11, <2>1, <3>1 DEF UpClosed
    <2> QED BY <1>6, <1>11, <2>4, <2>5
  <1>12. \A n \in Nodes : idom[n] # None => idom[n] \in Nodes
    BY <1>1, SweepTerms
  <1>13. CASE RaiseFirst
    <2>1. /\ phase = "intersect" /\ postorder[first] < postorder[second] /\ waiting' = waiting
          /\ Candidates = {first, second} /\ Candidates' = {idom[first], second}
      BY <1>13 DEF RaiseFirst, Deeper, Candidates
    <2> QED BY <1>9, <1>11, <1>12, <2>1
  <1>14. CASE RaiseSecond
    <2>1. /\ phase = "intersect" /\ postorder[second] < postorder[first] /\ waiting' = waiting
          /\ Candidates = {second, first} /\ Candidates' = {idom[second], first}
      BY <1>14 DEF RaiseSecond, Deeper, Candidates
    <2> QED BY <1>9, <1>11, <1>12, <2>1
  <1>15. CASE EndIntersect
    <2>1. waiting' = waiting /\ Candidates' = {first} /\ Candidates = {first}
      BY <1>15 DEF EndIntersect, Candidates, Met
    <2> QED BY <1>6, <2>1
  <1> QED BY <1>10, <1>13, <1>14, <1>15

(* The new link keeps every dominator among the ancestors.                  *)
LEMMA FinishDominance ==
    ASSUME IInv, IInv', SweepDominance, FinishNode
    PROVE  SweepDominance'
  <1>1. /\ phase = "sweep" /\ node # None /\ waiting = {} /\ Sweeping /\ Sweeping'
        /\ node' = None /\ at' = at - 1
        /\ UNCHANGED <<targets, pass, succs, postorder, count>>
    BY DEF FinishNode, orderVars, Sweeping
  <1>2. PICK d \in Nodes, q \in Nodes :
           /\ d = node /\ q = newIdom /\ d # Root /\ at > 0 /\ postorder[d] = at /\ idom[q] # None
           /\ idom' = [idom EXCEPT ![d] = q]
           /\ ~changed' => ~changed /\ idom[d] = q
    BY <1>1, HandlingTerms DEF FinishNode
  <1>3. /\ Edged(Nodes, succs) /\ Linked(Nodes, idom) /\ Root \in Nodes /\ postorder \in [Nodes -> Nat]
        /\ Climbing(idom, postorder, Root) /\ None \notin Nodes /\ at \in Nat
        /\ \A p \in Preds(d) : p \in Nodes /\ d \in Elements(succs[p])
    BY <1>1, Terms, SweepTerms
  <1>4. /\ idom'[d] = q /\ q # None
        /\ \A n \in Nodes : n # d => idom'[n] = idom[n]
    BY <1>2, <1>3 DEF Linked
  <1>5. Root' = Root /\ Nodes' = Nodes /\ \A n : Preds(n)' = Preds(n)
    BY <1>1, GraphKept
  <1>6. postorder[d] < postorder[q]
    <2>1. LinksClimb'
      BY DEF IInv
    <2> QED BY <1>1, <1>2, <1>4, <1>5, <2>1 DEF LinksClimb, Sweeping, Deeper
  <1>7. Reached /\ NoneLost /\ Meeting /\ Stable
    BY DEF SweepDominance
  <1>8. /\ DomsOf(succs, Root, d) \ {d} \subseteq Above(idom, q)
        /\ \A p \in Preds(d) : idom[p] # None => q \in Above(idom, p)
    BY <1>1, <1>2, <1>7 DEF Meeting, Candidates
  <1>9. LowLinks(succs, idom, postorder, Root) /\ \A n \in Nodes : idom[n] # None => postorder[n] > 0
    BY <1>1, <1>7 DEF Reached
  <1>10. /\ Linked(Nodes, idom') /\ Climbing(idom', postorder, Root) /\ Above(idom, q) \subseteq Above(idom', q)
         /\ \A x \in Nodes :
               /\ d \notin Above(idom, x) => Above(idom, x) \subseteq Above(idom', x)
               /\ Above(idom, x) \subseteq Above(idom', x) \cup (Above(idom, d) \ {d})
               /\ d \in Above(idom, x) => d \in Above(idom', x)
    <2>1. IsRelinked(idom', idom, d, q)
      BY <1>2 DEF IsRelinked
    <2>2. d # Root
      BY <1>2
    <2> QED BY ONLY <1>3, <1>6, <2>1, <2>2, Relinked
  <1>11. d \in Walked(succs, {q}, Higher(postorder, q))
    <2>1. PICK p \in Preds(d) : postorder[p] > postorder[d]
      BY <1>1, <1>2, SweepTerms
    <2>2. p \in Nodes /\ idom[p] # None /\ d \in Elements(succs[p])
      BY <1>1, <1>2, <1>3, <2>1, SweepTerms
    <2>3. q \in Above(idom, p)
      BY <1>8, <2>2
    <2>4. p \in Walked(succs, {q}, Higher(postorder, q))
      BY <1>3, <1>9, <2>2, <2>3, LowChain
    <2>5. d \notin Higher(postorder, q) /\ {q} \subseteq Nodes
      BY <1>3, <1>6 DEF Higher
    <2> QED BY ONLY <1>3, <2>2, <2>4, <2>5, WalkedOn
  <1>12. Reached'
    <2>1. ASSUME NEW n \in Nodes, n # Root, idom'[n] # None
          PROVE  n \in Walked(succs, {idom'[n]}, Higher(postorder, idom'[n]))
      <3>1. CASE n = d
        BY <1>4, <1>11, <3>1
      <3>2. CASE n # d
        BY <1>3, <1>4, <1>9, <2>1, <3>2 DEF LowLinks, Linked
      <3> QED BY <3>1, <3>2
    <2>2. DOMAIN idom' = Nodes
      BY <1>10 DEF Linked
    <2>3. LowLinks(succs, idom', postorder, Root)
      BY <2>1, <2>2 DEF LowLinks
    <2>4. \A n \in Nodes : idom'[n] # None => postorder[n] > 0
      BY <1>2, <1>4, <1>9
    <2> QED BY <1>1, <1>5, <2>3, <2>4 DEF Reached
  <1>13. Above(idom', d) = {d} \cup Above(idom', q)
    BY <1>4, <1>10, AboveSteps
  <1>14. ASSUME NEW n \in Nodes, idom[n] # None, n # d, NEW a \in DomsOf(succs, Root, n)
         PROVE  a \in Above(idom', n)
    <2>1. a \in Above(idom, n) /\ a \in Nodes
      BY <1>1, <1>3, <1>7, <1>14 DEF NoneLost, DomsOf, Edged
    <2>2. /\ d \notin Above(idom, n) => Above(idom, n) \subseteq Above(idom', n)
          /\ Above(idom, n) \subseteq Above(idom', n) \cup (Above(idom, d) \ {d})
          /\ d \in Above(idom, n) => d \in Above(idom', n)
      BY <1>10
    <2>3. SUFFICES ASSUME d \in Above(idom, n), a \in Above(idom, d) \ {d} PROVE a \in Above(idom', n)
      BY <2>1, <2>2
    <2>4. a \in Higher(postorder, d)
      <3>1. postorder[a] > postorder[d]
        BY <1>3, <2>3, AboveIsHigher
      <3> QED BY <1>3, <2>1, <3>1 DEF Higher
    <2>5. a \in DomsOf(succs, Root, d)
      <3> SUFFICES ASSUME d \in Walked(succs, {Root}, {a}) PROVE n \in Walked(succs, {Root}, {a})
        BY <1>3, <1>14, <2>1 DEF DomsOf, Edged
      <3>1. n \in Walked(succs, {d}, Higher(postorder, d))
        BY <1>3, <1>9, <2>3, LowChain
      <3>2. {a} \subseteq Higher(postorder, d) /\ {d} \subseteq Nodes /\ {Root} \subseteq Nodes
        BY <1>3, <2>4
      <3>3. n \in Walked(succs, {d}, {a})
        BY <1>3, <3>1, <3>2, WalkedWider
      <3> QED BY <1>3, <3>2, <3>3, WalkedOn
    <2>6. a \in Above(idom', d)
      BY <1>8, <1>10, <1>13, <2>3, <2>5
    <2>7. Above(idom', d) \subseteq Above(idom', n)
      BY <1>10, <2>2, <2>3, AboveSteps
    <2> QED BY <2>6, <2>7
  <1>15. NoneLost'
    <2>1. DomsOf(succs, Root, d) \subseteq Above(idom', d)
      BY <1>8, <1>10, <1>13
    <2>2. \A n \in Nodes : idom'[n] # None => DomsOf(succs, Root, n) \subseteq Above(idom', n)
      BY <1>4, <1>14, <2>1
    <2> QED BY <1>1, <1>5, <2>2 DEF NoneLost
  <1>16. Stable'
    <2> SUFFICES ASSUME ~changed' PROVE Stable'
      BY DEF Stable
    <2>1. idom' = idom
      <3>1. idom \in [Nodes -> Nodes \cup {None}]
        BY <1>3 DEF Linked
      <3> QED BY <1>2, <3>1
    <2>2. ASSUME NEW n \in Nodes \ {Root}, postorder[n] > at - 1, NEW p \in Preds(n), idom[p] # None
          PROVE  idom[n] \in Above(idom, p)
      <3>1. CASE postorder[n] = at
        <4>1. n = d
          BY <1>1, <1>2, <1>3, <3>1, SweepTerms
        <4> QED BY <1>2, <1>8, <2>2, <4>1
      <3>2. CASE postorder[n] # at
        <4>1. postorder[n] > at
          BY <1>3, <2>2, <3>2
        <4> QED BY <1>1, <1>2, <1>7, <2>2, <4>1 DEF Stable
      <3> QED BY <3>1, <3>2
    <2> QED BY <1>1, <1>5, <2>1, <2>2 DEF Stable
  <1>17. Meeting'
    BY <1>1 DEF Meeting
  <1> QED BY <1>12, <1>15, <1>16, <1>17 DEF SweepDominance

(* A sweep that changed something is followed by another.                   *)
LEMMA EndSweepDominance ==
    ASSUME IInv, SweepDominance, EndSweep
    PROVE  SweepDominance'
  <1>1. /\ Sweeping /\ Sweeping' /\ node = None /\ node' = None /\ at' = count - 1
        /\ UNCHANGED <<targets, pass, succs, postorder, idom>>
    BY DEF EndSweep, Sweeping, orderVars
  <1>2. Reached' /\ NoneLost' /\ Root' = Root /\ Nodes' = Nodes /\ \A n : Preds(n)' = Preds(n)
    BY <1>1, SweepKept DEF SweepDominance
  <1>3. Meeting'
    BY <1>1 DEF Meeting
  <1>4. Stable'
    <2>1. ASSUME NEW n \in Nodes, postorder[n] > count - 1
          PROVE  n = Root
      <3>1. Root \in Nodes /\ postorder \in [Nodes -> Nat]
        BY Terms
      <3>2. postorder[n] <= count /\ postorder[Root] = count /\ count \in Nat /\ count > 0
        BY <1>1, SweepTerms
      <3>3. postorder[n] = count
        BY <2>1, <3>1, <3>2
      <3>4. postorder[n] > 0 /\ postorder[n] = postorder[Root]
        BY <3>2, <3>3
      <3> QED BY <1>1, <3>1, <3>4, SweepTerms
    <2> QED BY <1>1, <1>2, <2>1 DEF Stable
  <1> QED BY <1>2, <1>3, <1>4 DEF SweepDominance

(* Outside the sweeps there is nothing to keep.                             *)
LEMMA SweepDominanceStep ==
    ASSUME IInv, IInv', SweepDominance, [Next]_vars
    PROVE  SweepDominance'
  <1>1. CASE BeginIntersect \/ RaiseFirst \/ RaiseSecond \/ EndIntersect
    BY <1>1, FingersDominance
  <1>2. CASE ~Sweeping'
    BY <1>2 DEF SweepDominance, Reached, NoneLost, Meeting, Stable
  <1>3. CASE Ordered \/ BeginNode \/ FinishNode \/ EndSweep
    BY <1>3, OrderedDominance, BeginNodeDominance, FinishDominance, EndSweepDominance
  <1>4. CASE UNCHANGED vars
    <2>1. UNCHANGED <<targets, pass, phase, succs, postorder, idom, at, node, changed, waiting,
                      newIdom, first, second>>
      BY <1>4 DEF vars, orderVars, sweepVars
    <2>2. Root' = Root /\ Nodes' = Nodes /\ \A n : Preds(n)' = Preds(n)
      BY <2>1, GraphKept
    <2>3. Sweeping' = Sweeping /\ Candidates' = Candidates
      BY <2>1 DEF Sweeping, Candidates
    <2>4. Reached' /\ NoneLost' /\ Stable'
      BY <2>1, <2>2, <2>3 DEF SweepDominance, Reached, NoneLost, Stable
    <2>5. Meeting'
      BY <2>1, <2>2, <2>3 DEF SweepDominance, Meeting
    <2> QED BY <2>4, <2>5 DEF SweepDominance
  <1>5. CASE Visit \/ Leave \/ NumberChild \/ NumberEnd \/ NextStart
    <2>1. phase' = phase /\ phase \in {"order", "tree"}
      BY <1>5 DEF Visit, Leave, NumberChild, NumberEnd, NextStart
    <2> QED BY <1>2, <2>1 DEF Sweeping
  <1>6. CASE SweepsEnd \/ LiveTreeEnd \/ DeadTreeEnd \/ AllOrdered \/ BeginDead
    <2>1. phase' \in {"order", "components", "tree", "done"}
      BY <1>6 DEF SweepsEnd, LiveTreeEnd, DeadTreeEnd, AllOrdered, BeginDead
    <2> QED BY <1>2, <2>1 DEF Sweeping
  <1>7. CASE Collect
    BY <1>2, <1>7 DEF Sweeping, Collect
  <1>8. CASE Done
    BY <1>4, <1>8 DEF Done
  <1> QED BY <1>1, <1>3, <1>4, <1>5, <1>6, <1>7, <1>8 DEF Next

-----------------------------------------------------------------------------
(* The end of the sweeps.                                                   *)

(* Nothing is above the root, so the sentinel may go.                       *)
LEMMA SentinelDropped ==
    ASSUME NEW N, NEW link, Linked(N, link), NEW r \in N, link[r] \in {r, None},
           NEW new, IsRelinked(new, link, r, None)
    PROVE  Linked(N, new) /\ \A n \in N : Above(new, n) = Above(link, n)
  <1>1. /\ link \in [N -> N \cup {None}] /\ new \in [N -> N \cup {None}] /\ None \notin N
        /\ new[r] = None /\ \A c \in N : c # r => new[c] = link[c]
        /\ DOMAIN link = N /\ DOMAIN new = N
    BY DEF Linked, IsRelinked
  <1>2. \A S \in SUBSET N : UpClosed(new, S) <=> UpClosed(link, S)
    <2> SUFFICES ASSUME NEW S \in SUBSET N PROVE UpClosed(new, S) <=> UpClosed(link, S)
      OBVIOUS
    <2>1. \A c \in S : (new[c] # None => new[c] \in S) <=> (link[c] # None => link[c] \in S)
      BY <1>1
    <2> QED BY <2>1 DEF UpClosed
  <1>3. \A n \in N : Above(new, n) = Above(link, n)
    BY <1>1, <1>2 DEF Above
  <1> QED BY <1>1, <1>3 DEF Linked

(* When a sweep has changed nothing, every ancestor is a dominator: without *)
(* it, the nodes below it cannot be reached.                                *)
LEMMA SettledAncestors ==
    ASSUME IInv, Explored, SweepDominance, phase = "sweep", at = 0, ~changed, NEW n \in Nodes,
           postorder[n] > 0
    PROVE  Above(idom, n) = DomsOf(succs, Root, n)
  <1>1. /\ Edged(Nodes, succs) /\ Linked(Nodes, idom) /\ Root \in Nodes /\ postorder \in [Nodes -> Nat]
        /\ \A x \in Nodes : \A p \in Preds(x) : p \in Nodes /\ x \in Elements(succs[p])
    BY Terms
  <1>2. Sweeping /\ pass # "regions" /\ phase # "order"
    BY SweepTerms DEF Sweeping
  <1>3. /\ \A m \in Nodes : postorder[m] > 0 => idom[m] # None
        /\ \A m \in Nodes : idom[m] # None => postorder[m] > 0 /\ idom[m] \in Nodes
        /\ idom[Root] = Root
    BY <1>2, SweepTerms DEF SweepDominance, Reached
  <1>4. \A m \in Nodes : postorder[m] > 0 => \A s \in Elements(succs[m]) : s \in Nodes /\ postorder[s] > 0
    BY <1>2 DEF Explored, IInv, Typed
  <1>5. DomsOf(succs, Root, n) \subseteq Above(idom, n)
    BY <1>2, <1>3 DEF SweepDominance, NoneLost
  <1>6. ASSUME NEW a \in Above(idom, n)
        PROVE  a \in DomsOf(succs, Root, n)
    <2> DEFINE S == {m \in Nodes : postorder[m] > 0 /\ a \notin Above(idom, m)}
    <2>1. a \in Nodes
      BY <1>1, AboveFacts
    <2>2. {Root} \ {a} \subseteq S
      <3>1. Above(idom, Root) = {Root}
        BY <1>1, <1>3, AboveSteps
      <3>2. Root # None /\ postorder[Root] > 0
        BY <1>1, <1>3 DEF Linked
      <3> QED BY <1>1, <3>1, <3>2
    <2>3. ASSUME NEW c \in S, NEW s \in Elements(succs[c]), s # a
          PROVE  s \in S
      <3>1. c \in Nodes /\ s \in Nodes /\ postorder[s] > 0 /\ idom[c] # None /\ idom[s] # None
        BY <1>3, <1>4
      <3>2. CASE s = Root
        <4>1. Above(idom, Root) = {Root}
          BY <1>1, <1>3, AboveSteps
        <4> QED BY <2>3, <3>1, <3>2, <4>1
      <3>3. CASE s # Root
        <4>1. c \in Preds(s)
          BY <3>1 DEF Preds
        <4>2. idom[s] \in Above(idom, c)
          BY <1>2, <3>1, <3>3, <4>1 DEF SweepDominance, Stable
        <4>3. Above(idom, idom[s]) \subseteq Above(idom, c)
          BY <1>1, <3>1, <4>2, AboveSteps
        <4>4. Above(idom, s) = {s} \cup Above(idom, idom[s])
          BY <1>1, <3>1, AboveSteps
        <4> QED BY <2>3, <3>1, <4>3, <4>4
      <3> QED BY <3>2, <3>3
    <2>4. S \in SUBSET Nodes /\ Onward(succs, S, {a}) /\ n \notin S
      BY <2>3 DEF Onward
    <2> HIDE DEF S
    <2>5. Walked(succs, {Root}, {a}) \subseteq S
      BY <1>1, <2>2, <2>4, WalkedLeast
    <2>6. DOMAIN succs = Nodes
      BY <1>1 DEF Edged
    <2> QED BY <2>1, <2>4, <2>5, <2>6 DEF DomsOf
  <1> QED BY <1>5, <1>6

(* The last sweep changed nothing, so the links are the tree of dominators. *)
LEMMA SweepsEndTree ==
    ASSUME IInv, Explored, SweepDominance, SweepsEnd
    PROVE  TreeOfDominators'
  <1>1. /\ phase = "sweep" /\ at = 0 /\ ~changed /\ idom' = [idom EXCEPT ![Root] = None]
        /\ UNCHANGED <<targets, pass, succs, postorder>>
    BY DEF SweepsEnd, Settled, DropSentinel
  <1>2. Root' = Root /\ Nodes' = Nodes
    BY <1>1, GraphKept
  <1>3. Sweeping
    BY <1>1 DEF Sweeping
  <1>4. Edged(Nodes, succs) /\ Linked(Nodes, idom) /\ Root \in Nodes /\ postorder \in [Nodes -> Nat]
    BY Terms
  <1>5. /\ pass # "regions" /\ idom[Root] = Root
        /\ \A m \in Nodes : postorder[m] > 0 <=> idom[m] # None
    BY <1>1, <1>3, SweepTerms DEF SweepDominance, Reached
  <1>6. \A n \in Nodes : Above(idom', n) = Above(idom, n)
    <2>1. IsRelinked(idom', idom, Root, None) /\ idom[Root] \in {Root, None}
      BY <1>1, <1>5 DEF IsRelinked
    <2> QED BY ONLY <1>4, <2>1, SentinelDropped
  <1>7. \A n \in Nodes : postorder[n] > 0 => Above(idom', n) = DomsOf(succs, Root, n)
    BY <1>1, <1>6, SettledAncestors
  <1>8. idom'[Root] = None /\ \A n \in Nodes \ {Root} : idom'[n] = idom[n]
    BY <1>1, <1>4 DEF Linked
  <1>9. Climbing(idom', postorder, Root)
    <2>1. Climbing(idom, postorder, Root)
      BY <1>3, Terms
    <2>2. DOMAIN idom = Nodes /\ DOMAIN idom' = Nodes
      BY <1>1, <1>4 DEF Linked
    <2> QED BY <1>8, <2>1, <2>2 DEF Climbing
  <1> QED BY <1>1, <1>2, <1>5, <1>7, <1>8, <1>9 DEF TreeOfDominators

(* The tree stays while it is numbered and used.                            *)
LEMMA TreeStep ==
    ASSUME IInv, Explored, SweepDominance, TreeOfDominators, [Next]_vars
    PROVE  TreeOfDominators'
  <1>1. CASE SweepsEnd
    BY <1>1, SweepsEndTree
  <1>2. CASE UNCHANGED <<targets, pass, phase, succs, postorder, idom>>
    BY <1>2, GraphKept DEF TreeOfDominators
  <1>3. CASE NumberChild \/ NumberEnd \/ Done \/ UNCHANGED vars
    BY <1>2, <1>3 DEF NumberChild, NumberEnd, Done, vars, orderVars
  <1>4. CASE phase' # "tree"
    BY <1>4 DEF TreeOfDominators
  <1>5. CASE Visit \/ Leave \/ NextStart \/ BeginNode \/ FinishNode \/ EndSweep \/ RaiseFirst \/ RaiseSecond
    <2>1. phase' = phase /\ phase \in {"order", "sweep", "intersect"}
      BY <1>5 DEF Visit, Leave, NextStart, BeginNode, FinishNode, EndSweep, RaiseFirst, RaiseSecond
    <2> QED BY <1>4, <2>1
  <1>6. CASE Ordered \/ BeginIntersect \/ EndIntersect \/ LiveTreeEnd \/ DeadTreeEnd \/ AllOrdered \/ BeginDead
    <2>1. phase' \in {"sweep", "intersect", "order", "done", "components"}
      BY <1>6 DEF Ordered, BeginIntersect, EndIntersect, LiveTreeEnd, DeadTreeEnd, AllOrdered, BeginDead
    <2> QED BY <1>4, <2>1
  <1>7. CASE Collect
    BY <1>4, <1>7 DEF Collect
  <1> QED BY <1>1, <1>3, <1>5, <1>6, <1>7 DEF Next

-----------------------------------------------------------------------------
(* Numbering the tree.                                                      *)
LEMMA BlankStep ==
    ASSUME IInv, TreeOfDominators, TreeWalk, Blank, [Next]_vars
    PROVE  Blank'
  <1>1. /\ pass \in Passes /\ Root \in Nodes
        /\ preorder \in [Passes -> [Nodes -> Nat]] /\ subtreeEnd \in [Passes -> [Nodes -> Nat]]
    BY Terms DEF IInv, Typed, Blank
  <1>2. phase = "tree" => pass # "regions" /\ numbered \in Nat
    BY DEF TreeOfDominators, TreeWalk, WalkDown
  <1>3. CASE SweepsEnd
    <2>1. /\ preorder' = [preorder EXCEPT ![pass][Root] = 1] /\ UNCHANGED <<targets, pass, subtreeEnd>>
          /\ phase = "sweep" /\ phase' = "tree"
      BY <1>3 DEF SweepsEnd
    <2>2. pass # "regions" /\ Nodes' = Nodes
      BY <2>1, SweepTerms DEF Sweeping, Nodes, VirtualRoot
    <2>3. preorder' \in [Passes -> [Nodes -> Nat]] /\ \A p \in Passes : p # pass => preorder'[p] = preorder[p]
      BY <1>1, <2>1
    <2>4. \A p \in Passes : Numberless(p)' => Numberless(p) /\ p # pass
      BY <2>1, <2>2 DEF Numberless
    <2> QED BY <1>1, <2>1, <2>2, <2>3, <2>4 DEF Blank
  <1>4. CASE NumberChild
    <2>1. PICK c \in Nodes : preorder' = [preorder EXCEPT ![pass][c] = numbered + 1]
      BY <1>4 DEF NumberChild, ChildrenLeft, Children
    <2>2. UNCHANGED <<targets, pass, phase, subtreeEnd>> /\ phase = "tree"
      BY <1>4 DEF NumberChild
    <2>3. preorder' \in [Passes -> [Nodes -> Nat]] /\ \A p \in Passes : p # pass => preorder'[p] = preorder[p]
      BY <1>1, <1>2, <2>1, <2>2
    <2>4. \A p \in Passes : Numberless(p)' => Numberless(p) /\ p # pass
      BY <1>2, <2>2 DEF Numberless
    <2>5. Nodes' = Nodes
      BY <2>2 DEF Nodes, VirtualRoot
    <2> QED BY <1>1, <2>2, <2>3, <2>4, <2>5 DEF Blank
  <1>5. CASE NumberEnd
    <2>1. /\ subtreeEnd' = [subtreeEnd EXCEPT ![pass][Top.node] = numbered + 1]
          /\ UNCHANGED <<targets, pass, phase, preorder>> /\ phase = "tree" /\ stack # << >>
      BY <1>5 DEF NumberEnd
    <2>2. Top.node \in Nodes /\ numbered + 1 \in Nat
      BY <1>2, <2>1, StackFacts DEF IInv
    <2>3. subtreeEnd' \in [Passes -> [Nodes -> Nat]]
      BY <1>1, <2>1, <2>2
    <2>4. Nodes' = Nodes /\ \A p : Numberless(p)' = Numberless(p)
      BY <2>1 DEF Nodes, VirtualRoot, Numberless
    <2> QED BY <1>1, <2>1, <2>3, <2>4 DEF Blank
  <1>6. ASSUME UNCHANGED <<targets, preorder, subtreeEnd>>,
               phase' = "components" => pass' = "regions", phase' = "done" => pass' = "dead",
               \A p \in Passes : Numberless(p)' => Numberless(p)
        PROVE  Blank'
    <2>1. Nodes' = Nodes
      BY <1>6 DEF Nodes, VirtualRoot
    <2> QED BY <1>6, <2>1 DEF Blank
  <1>7. CASE Visit \/ Leave \/ Ordered \/ BeginNode \/ BeginIntersect \/ RaiseFirst \/ RaiseSecond
             \/ EndIntersect \/ FinishNode \/ EndSweep \/ NextStart
    <2>1. /\ UNCHANGED <<targets, pass, treeVars>>
          /\ phase \in {"order", "sweep", "intersect"} /\ phase' \in {"order", "sweep", "intersect"}
      BY <1>7 DEF Visit, Leave, Ordered, BeginNode, BeginIntersect, RaiseFirst, RaiseSecond,
                  EndIntersect, FinishNode, EndSweep, NextStart
    <2>2. UNCHANGED <<preorder, subtreeEnd>>
      BY <2>1 DEF treeVars
    <2>3. \A p \in Passes : Numberless(p)' => Numberless(p)
      BY <2>1 DEF Numberless
    <2> QED BY <1>6, <2>1, <2>2, <2>3
  <1>8. CASE LiveTreeEnd \/ DeadTreeEnd \/ AllOrdered \/ Collect \/ BeginDead
    <2>1. UNCHANGED <<targets, treeVars>>
      BY <1>8 DEF LiveTreeEnd, DeadTreeEnd, AllOrdered, Collect, BeginDead
    <2>2. UNCHANGED <<preorder, subtreeEnd>>
      BY <2>1 DEF treeVars
    <2>3. /\ \/ pass = "live" /\ pass' = "regions" /\ phase' = "order"
             \/ pass = "dead" /\ pass' = "dead" /\ phase = "tree" /\ phase' = "done"
             \/ pass = "regions" /\ pass' = "regions" /\ phase' = "components" /\ phase \in {"order", "components"}
             \/ pass = "regions" /\ pass' = "dead" /\ phase' = "order"
      BY <1>8 DEF LiveTreeEnd, DeadTreeEnd, AllOrdered, Collect, BeginDead, Blank
    <2>4. \A p \in Passes : Numberless(p)' => Numberless(p)
      BY <2>3 DEF Numberless
    <2> QED BY <1>6, <2>2, <2>3, <2>4, <2>1
  <1>9. CASE Done \/ UNCHANGED vars
    <2>1. UNCHANGED <<targets, pass, phase, preorder, subtreeEnd>>
      BY <1>9 DEF Done, vars, treeVars
    <2>2. \A p : Numberless(p)' = Numberless(p)
      BY <2>1 DEF Numberless
    <2>3. phase' = "components" => pass' = "regions"
      BY <2>1 DEF Blank
    <2>4. phase' = "done" => pass' = "dead"
      BY <2>1 DEF Blank
    <2> QED BY <1>6, <2>1, <2>2, <2>3, <2>4
  <1> QED BY <1>3, <1>4, <1>5, <1>7, <1>8, <1>9 DEF Next

(* The walk starts at the root.                                             *)
Linkage(N, link, r) == Linked(N, link) /\ N \subseteq Nat /\ r \in N /\ link[r] = None

(* The walk begins at the root, numbered 1.                                 *)
LEMMA WalkStarts ==
    ASSUME NEW N, NEW link, NEW r, Linkage(N, link, r), NEW fin,
           NEW pre \in [N -> Nat], pre[r] = 1, \A n \in N \ {r} : pre[n] = None,
           NEW stk, DOMAIN stk = {1}, stk[1].node = r, stk[1].done = 0
    PROVE  WalkDown(link, r, stk, pre, fin, 1) /\ Spans(link, stk, pre, fin, 1)
  <1>1. /\ Linked(N, link) /\ N \subseteq Nat /\ r \in N /\ link[r] = None
        /\ DOMAIN link = N /\ None \notin N
    BY DEF Linkage, Linked
  <1>2. \A n \in N : pre[n] # None <=> n = r
    BY <1>1 DEF None
  <1>3. Holds(stk, r) /\ Behind(stk, fin, 1, r) = 2
    BY DEF Holds, Behind
  <1>4. WalkDown(link, r, stk, pre, fin, 1)
    <2>1. \A c \in N : link[c] = r => (pre[c] # None <=> c <= 0)
      <3>1. \A c \in N : link[c] = r => c # r
        BY <1>1
      <3>2. \A c \in N : ~(c <= 0)
        BY <1>1 DEF None
      <3> QED BY <1>2, <3>1, <3>2
    <2>2. \A n \in N : pre[n] # None =>
              /\ n # r => link[n] # None /\ pre[link[n]] # None
              /\ pre[n] <= 1
              /\ Behind(stk, fin, 1, n) <= 1 + 1
              /\ ~Holds(stk, n) => \A c \in N : link[c] = n => pre[c] # None
      BY <1>2, <1>3
    <2>3. \A i, j \in DOMAIN stk : ~(i < j)
      OBVIOUS
    <2>4. \A i \in DOMAIN stk : i = 1 /\ ~(i > 1)
      OBVIOUS
    <2>5. \A i \in DOMAIN stk : stk[i].node = r /\ stk[i].done = 0
      BY <2>4
    <2>6. \A i \in DOMAIN stk : \A c \in DOMAIN link :
            link[c] = stk[i].node => (pre[c] # None <=> c <= stk[i].done)
      BY ONLY <1>1, <2>1, <2>5
    <2>7. 1 \in Nat /\ pre[r] # None /\ \A i \in DOMAIN stk : pre[stk[i].node] # None
      BY <1>1, <1>2, <2>5
    <2>8. stk # << >> => stk[1].node = r
      OBVIOUS
    <2> QED BY ONLY <1>1, <2>2, <2>3, <2>4, <2>6, <2>7, <2>8 DEF WalkDown
  <1>5. Spans(link, stk, pre, fin, 1)
    <2>1. r \in Above(link, r)
      BY <1>1, AboveFacts
    <2>2. 1 \in Nat /\ pre[r] = 1 /\ 1 <= 1 /\ 1 < 2
      OBVIOUS
    <2>3. ASSUME NEW a \in N, NEW b \in N, pre[a] # None, pre[b] # None
          PROVE  a \in Above(link, b) <=> pre[a] <= pre[b] /\ pre[b] < Behind(stk, fin, 1, a)
      <3>1. a = r /\ b = r
        BY <1>2, <2>3
      <3> QED BY ONLY <1>3, <2>1, <2>2, <3>1
    <2> QED BY ONLY <1>1, <2>3 DEF Spans
  <1> QED BY <1>4, <1>5

(* The nodes on the stack are the ancestors of the top.                     *)
Walker(N, stk, n, pre, fin) ==
    /\ n \in Nat /\ DOMAIN stk = 1..n
    /\ \A i \in 1..n : stk[i].node \in N /\ stk[i].done \in Nat
    /\ pre \in [N -> Nat] /\ fin \in [N -> Nat]

(* What the invariant of the walk says of stack and numbers.                *)
LEMMA WalkFacts ==
    ASSUME NEW N, NEW link, NEW r, Linkage(N, link, r), NEW stk, NEW n, NEW pre, NEW fin, NEW num,
           Walker(N, stk, n, pre, fin), WalkDown(link, r, stk, pre, fin, num)
    PROVE  /\ num \in Nat /\ r \in N /\ link[r] = None /\ pre[r] # None
           /\ DOMAIN link = N /\ None \notin N /\ N \subseteq Nat /\ link \in [N -> N \cup {None}]
           /\ \A i \in 1..n : pre[stk[i].node] # None
           /\ \A i, j \in 1..n : i < j => pre[stk[i].node] < pre[stk[j].node]
           /\ \A i, j \in 1..n : stk[i].node = stk[j].node => i = j
           /\ \A i \in 1..n : i > 1 => link[stk[i].node] = stk[i - 1].node /\ stk[i - 1].done = stk[i].node
           /\ n > 0 => stk[1].node = r
           /\ \A x \in N : pre[x] # None =>
                 /\ x # r => link[x] # None /\ pre[link[x]] # None
                 /\ pre[x] <= num
                 /\ Behind(stk, fin, num, x) <= num + 1
                 /\ ~Holds(stk, x) => \A c \in N : link[c] = x => pre[c] # None
           /\ \A i \in 1..n : \A c \in N : link[c] = stk[i].node => (pre[c] # None <=> c <= stk[i].done)
           /\ \A b \in N : pre[b] # None => \A a \in Above(link, b) : a \in N /\ pre[a] # None
  <1>1. /\ n \in Nat /\ DOMAIN stk = 1..n /\ pre \in [N -> Nat]
        /\ \A i \in 1..n : stk[i].node \in N
    BY DEF Walker
  <1>2. r \in N /\ link[r] = None /\ Linked(N, link) /\ N \subseteq Nat
    BY DEF Linkage
  <1>3. DOMAIN link = N /\ None \notin N /\ link \in [N -> N \cup {None}]
    BY <1>2 DEF Linked
  <1>4. /\ num \in Nat /\ pre[r] # None
        /\ \A i \in 1..n : pre[stk[i].node] # None
        /\ \A i, j \in 1..n : i < j => pre[stk[i].node] < pre[stk[j].node]
    BY ONLY <1>1, WalkDown(link, r, stk, pre, fin, num) DEF WalkDown
  <1>5. /\ \A i \in 1..n : i > 1 => link[stk[i].node] = stk[i - 1].node /\ stk[i - 1].done = stk[i].node
        /\ \A i \in 1..n : \A c \in N : link[c] = stk[i].node => (pre[c] # None <=> c <= stk[i].done)
    BY ONLY <1>1, <1>3, WalkDown(link, r, stk, pre, fin, num) DEF WalkDown
  <1>6. n > 0 => stk[1].node = r
    <2>1. n > 0 => 1 \in DOMAIN stk
      BY <1>1
    <2>2. n > 0 => stk # << >>
      BY <2>1
    <2> QED BY ONLY <2>2, WalkDown(link, r, stk, pre, fin, num) DEF WalkDown
  <1>7. \A x \in N : pre[x] # None =>
                 /\ x # r => link[x] # None /\ pre[link[x]] # None
                 /\ pre[x] <= num
                 /\ Behind(stk, fin, num, x) <= num + 1
                 /\ ~Holds(stk, x) => \A c \in N : link[c] = x => pre[c] # None
    BY ONLY <1>3, WalkDown(link, r, stk, pre, fin, num) DEF WalkDown
  <1>8. \A i, j \in 1..n : stk[i].node = stk[j].node => i = j
    <2> SUFFICES ASSUME NEW i \in 1..n, NEW j \in 1..n, stk[i].node = stk[j].node, i # j PROVE FALSE
      OBVIOUS
    <2>1. pre[stk[i].node] \in Nat /\ pre[stk[i].node] = pre[stk[j].node]
      BY <1>1
    <2>2. i < j \/ j < i
      OBVIOUS
    <2> QED BY <1>4, <2>1, <2>2
  <1>9. ASSUME NEW b \in N, pre[b] # None
        PROVE  \A a \in Above(link, b) : a \in N /\ pre[a] # None
    <2> DEFINE S == {x \in N : pre[x] # None}
    <2>1. b \in S
      BY <1>9
    <2>2. \A c \in S : link[c] # None => link[c] \in S
      BY <1>2, <1>3, <1>7
    <2>3. UpClosed(link, S) /\ S \in SUBSET N
      BY <2>2 DEF UpClosed
    <2>4. Above(link, b) \subseteq S
      <3> HIDE DEF S
      <3> QED BY <1>2, <2>1, <2>3, AboveFacts
    <2> QED BY <2>4
  <1> QED BY ONLY <1>2, <1>3, <1>4, <1>5, <1>6, <1>7, <1>8, <1>9

(* The stack holds the ancestors of its top.                                *)
LEMMA StackIsLine ==
    ASSUME NEW N, NEW link, NEW r, Linkage(N, link, r), NEW stk, NEW n, NEW pre, NEW fin, NEW num,
           Walker(N, stk, n, pre, fin), WalkDown(link, r, stk, pre, fin, num),
           Spans(link, stk, pre, fin, num), n > 0
    PROVE  \A a \in N : Holds(stk, a) <=> a \in Above(link, stk[n].node)
  <1>1. /\ n \in Nat /\ DOMAIN stk = 1..n /\ pre \in [N -> Nat]
        /\ \A i \in 1..n : stk[i].node \in N
    BY DEF Walker
  <1>2. n \in 1..n /\ stk[n].node \in N /\ Linked(N, link)
    BY <1>1 DEF Linkage
  <1> DEFINE t == stk[n].node
             S == {a \in N : Holds(stk, a)}
  <1>3. t \in S
    BY <1>1, <1>2 DEF Holds
  <1>4. \A c \in S : link[c] # None => link[c] \in S
    <2> SUFFICES ASSUME NEW c \in S, link[c] # None PROVE link[c] \in S
      OBVIOUS
    <2>1. PICK i \in 1..n : stk[i].node = c
      BY <1>1 DEF Holds
    <2>2. i > 1
      <3>1. link[r] = None /\ stk[1].node = r
        BY WalkFacts
      <3> QED BY <1>1, <2>1, <3>1
    <2>3. link[c] = stk[i - 1].node
      BY <2>1, <2>2, WalkFacts
    <2>4. i - 1 \in 1..n
      BY <1>1, <2>2
    <2> QED BY <1>1, <2>3, <2>4 DEF Holds
  <1>5. Above(link, t) \subseteq S
    <2>1. S \in SUBSET N /\ UpClosed(link, S)
      BY <1>4 DEF UpClosed
    <2> HIDE DEF S, t
    <2>2. t \in N
      BY <1>2 DEF t
    <2> QED BY <1>2, <1>3, <2>1, <2>2, AboveFacts
  <1>6. ASSUME NEW a \in S
        PROVE  a \in Above(link, t)
    <2>1. PICK i \in 1..n : stk[i].node = a
      BY <1>1 DEF Holds
    <2>2. pre[a] # None /\ pre[t] # None /\ pre[t] <= num /\ num \in Nat /\ DOMAIN link = N
      BY <1>2, <2>1, WalkFacts
    <2>3. pre[a] <= pre[t]
      <3>1. CASE i = n
        BY <1>1, <1>2, <2>1, <3>1
      <3>2. CASE i # n
        <4>1. i < n
          BY <1>1, <3>2
        <4>2. pre[a] < pre[t]
          BY <1>2, <2>1, <4>1, WalkFacts
        <4> QED BY <1>1, <1>2, <4>2
      <3> QED BY <3>1, <3>2
    <2>4. Behind(stk, fin, num, a) = num + 1
      BY DEF Behind
    <2>5. pre[t] < num + 1
      BY <1>1, <1>2, <2>2
    <2> QED BY ONLY Spans(link, stk, pre, fin, num), a \in N, <1>2, <2>2, <2>3, <2>4, <2>5 DEF Spans
  <1> QED BY <1>5, <1>6

(* The walk enters a child of the top: the next one in ascending order.     *)
NextChild(N, link, top, c) ==
    /\ c \in N /\ link[c] = top.node /\ c > top.done
    /\ \A d \in N : link[d] = top.node /\ d > top.done => c <= d
Pushed(new, stk, n, c) ==
    /\ DOMAIN new = 1..(n + 1)
    /\ \A i \in 1..(n - 1) : new[i] = stk[i]
    /\ new[n].node = stk[n].node /\ new[n].done = c
    /\ new[n + 1].node = c /\ new[n + 1].done = 0

(* Stepping down to the next child keeps the invariant of the walk.         *)
LEMMA ChildWalks ==
    ASSUME NEW N, NEW link, NEW r, Linkage(N, link, r), NEW stk, NEW n, NEW pre, NEW fin, NEW num,
           Walker(N, stk, n, pre, fin), WalkDown(link, r, stk, pre, fin, num),
           Spans(link, stk, pre, fin, num), n > 0,
           NEW c, NextChild(N, link, stk[n], c), NEW new, Pushed(new, stk, n, c),
           NEW grown, grown = [pre EXCEPT ![c] = num + 1]
    PROVE  /\ WalkDown(link, r, new, grown, fin, num + 1)
           /\ Spans(link, new, grown, fin, num + 1)
  <1> DEFINE t == stk[n].node
  <1>1. /\ n \in Nat /\ DOMAIN stk = 1..n /\ pre \in [N -> Nat] /\ fin \in [N -> Nat]
        /\ \A i \in 1..n : stk[i].node \in N /\ stk[i].done \in Nat
    BY DEF Walker
  <1>2. Linked(N, link) /\ n \in 1..n /\ t \in N /\ stk[n].done \in Nat
    BY <1>1 DEF Linkage
  <1>3. /\ num \in Nat /\ r \in N /\ link[r] = None /\ pre[r] # None
        /\ DOMAIN link = N /\ None \notin N /\ N \subseteq Nat /\ link \in [N -> N \cup {None}]
    BY WalkFacts
  <1>4. /\ c \in N /\ link[c] = t /\ c > stk[n].done
        /\ \A d \in N : link[d] = t /\ d > stk[n].done => c <= d
    BY DEF NextChild
  <1>5. /\ DOMAIN new = 1..(n + 1)
        /\ \A i \in 1..(n - 1) : new[i] = stk[i]
        /\ new[n].node = t /\ new[n].done = c /\ new[n + 1].node = c /\ new[n + 1].done = 0
    BY DEF Pushed
  <1>6. pre[c] = None
    <2>1. pre[c] # None <=> c <= stk[n].done
      BY <1>2, <1>4, WalkFacts
    <2> QED BY <1>2, <1>3, <1>4, <2>1
  <1>7. pre[t] # None /\ t # c
    <2>1. pre[t] # None
      BY <1>2, WalkFacts
    <2> QED BY <1>6, <2>1
  <1>8. /\ grown \in [N -> Nat] /\ grown[c] = num + 1
        /\ \A x \in N : x # c => grown[x] = pre[x]
        /\ \A x \in N : grown[x] # None <=> pre[x] # None \/ x = c
    <2>1. num + 1 \in Nat /\ num + 1 # None
      BY <1>3 DEF None
    <2> QED BY <1>1, <1>4, <2>1
  <1>9. \A i \in 1..(n + 1) : i = n + 1 \/ i \in 1..n
    BY <1>1
  <1>10. \A i \in 1..n : i = n \/ i \in 1..(n - 1)
    BY <1>1
  <1>11. \A i \in 1..n : new[i].node = stk[i].node /\ i \in 1..(n + 1)
    BY <1>1, <1>5, <1>10
  <1>12. n + 1 \in 1..(n + 1) /\ n + 1 \notin 1..n
    BY <1>1
  <1>13. \A x : Holds(new, x) <=> Holds(stk, x) \/ x = c
    BY <1>1, <1>5, <1>9, <1>11, <1>12 DEF Holds
  <1>14. \A x \in N : pre[x] # None =>
            pre[x] <= num /\ pre[x] # num + 1 /\ Behind(stk, fin, num, x) <= num + 1
    <2>1. \A x \in N : pre[x] # None => pre[x] <= num /\ Behind(stk, fin, num, x) <= num + 1
      BY WalkFacts
    <2>2. \A x \in N : pre[x] \in Nat
      BY <1>1
    <2> QED BY <1>3, <2>1, <2>2
  <1>15. \A x \in N : IF Holds(stk, x)
            THEN Behind(stk, fin, num, x) = num + 1 /\ Behind(new, fin, num + 1, x) = num + 1 + 1
            ELSE x # c => Behind(new, fin, num + 1, x) = Behind(stk, fin, num, x)
    BY <1>13 DEF Behind
  <1>16. Behind(new, fin, num + 1, c) = num + 1 + 1
    BY <1>13 DEF Behind
  <1>17. \A x \in N : Behind(stk, fin, num, x) \in Nat
    BY <1>1, <1>3 DEF Behind
  <1>18. ~Holds(stk, c)
    <2>1. \A i \in 1..n : pre[stk[i].node] # None
      BY WalkFacts
    <2> QED BY <1>1, <1>6, <2>1 DEF Holds
  <1> HIDE DEF t
  <1>19. /\ \A i \in 1..n : pre[stk[i].node] # None
         /\ \A i, j \in 1..n : i < j => pre[stk[i].node] < pre[stk[j].node]
    BY WalkFacts
  <1>20. \A i \in 1..n : /\ stk[i].node \in N /\ new[i].node = stk[i].node
                         /\ stk[i].node # c /\ grown[new[i].node] = pre[stk[i].node]
    BY ONLY <1>1, <1>6, <1>8, <1>11, <1>19
  <1>21. WalkDown(link, r, new, grown, fin, num + 1)
    <2>1. \A i \in 1..(n + 1) : grown[new[i].node] # None
      <3>2. \A i \in 1..n : grown[new[i].node] # None
        BY ONLY <1>19, <1>20
      <3>3. grown[new[n + 1].node] # None
        BY <1>4, <1>5, <1>8
      <3> QED BY ONLY <1>9, <3>2, <3>3
    <2>2. ASSUME NEW i \in 1..(n + 1), NEW j \in 1..(n + 1), i < j
          PROVE  grown[new[i].node] < grown[new[j].node]
      <3>1. i \in 1..n
        BY <1>1, <2>2
      <3>2. stk[i].node \in N /\ pre[stk[i].node] # None
        BY ONLY <1>19, <1>20, <3>1
      <3>3. grown[new[i].node] = pre[stk[i].node]
        BY ONLY <1>20, <3>1
      <3>4. CASE j = n + 1
        <4>1. pre[stk[i].node] <= num /\ pre[stk[i].node] \in Nat
          BY <1>1, <1>14, <3>2
        <4> QED BY <1>3, <1>5, <1>8, <3>3, <3>4, <4>1
      <3>5. CASE j \in 1..n
        <4>2. grown[new[j].node] = pre[stk[j].node]
          BY ONLY <1>20, <3>5
        <4>3. pre[stk[i].node] < pre[stk[j].node]
          BY ONLY <2>2, <3>1, <3>5, <1>19
        <4> QED BY <3>3, <4>2, <4>3
      <3> QED BY <1>9, <3>4, <3>5
    <2>3. ASSUME NEW i \in 1..(n + 1), i > 1
          PROVE  link[new[i].node] = new[i - 1].node /\ new[i - 1].done = new[i].node
      <3>1. CASE i = n + 1
        <4>1. i - 1 = n
          BY <1>1, <3>1
        <4> QED BY <1>4, <1>5, <3>1, <4>1
      <3>2. CASE i \in 1..n
        <4>1. i - 1 \in 1..(n - 1) /\ i - 1 \in 1..n
          BY <1>1, <2>3, <3>2
        <4>2. new[i - 1] = stk[i - 1] /\ new[i].node = stk[i].node
          BY <1>5, <1>11, <3>2, <4>1
        <4>3. link[stk[i].node] = stk[i - 1].node /\ stk[i - 1].done = stk[i].node
          BY <2>3, <3>2, WalkFacts
        <4> QED BY <4>2, <4>3
      <3> QED BY <1>9, <3>1, <3>2
    <2>4. new[1].node = r
      <3>1. stk[1].node = r
        BY WalkFacts
      <3>2. 1 \in 1..n
        BY <1>1
      <3> QED BY <1>11, <3>1, <3>2
    <2>5. ASSUME NEW x \in N, grown[x] # None
          PROVE  /\ x # r => link[x] # None /\ grown[link[x]] # None
                 /\ grown[x] <= num + 1
                 /\ Behind(new, fin, num + 1, x) <= num + 1 + 1
                 /\ ~Holds(new, x) => \A d \in N : link[d] = x => grown[d] # None
      <3>1. CASE x = c
        <4>1. link[c] = t /\ t # None /\ grown[t] # None
          BY <1>2, <1>3, <1>4, <1>7, <1>8
        <4>2. num + 1 <= num + 1 /\ num + 1 + 1 <= num + 1 + 1
          BY <1>3
        <4> QED BY <1>8, <1>13, <1>16, <3>1, <4>1, <4>2
      <3>2. CASE x # c
        <4>1. pre[x] # None /\ grown[x] = pre[x]
          BY <1>8, <2>5, <3>2
        <4>2. /\ x # r => link[x] # None /\ pre[link[x]] # None
              /\ ~Holds(stk, x) => \A d \in N : link[d] = x => pre[d] # None
          BY <4>1, WalkFacts
        <4>3. grown[x] <= num + 1
          BY <1>1, <1>3, <1>14, <4>1
        <4>4. Behind(new, fin, num + 1, x) <= num + 1 + 1
          <5>1. Behind(stk, fin, num, x) <= num + 1 /\ Behind(stk, fin, num, x) \in Nat
            BY <1>14, <1>17, <4>1
          <5>2. \/ Behind(new, fin, num + 1, x) = num + 1 + 1
                \/ Behind(new, fin, num + 1, x) = Behind(stk, fin, num, x)
            BY <1>15, <3>2
          <5> QED BY <1>3, <5>1, <5>2
        <4>5. x # r => link[x] \in N /\ grown[link[x]] # None
          BY <1>3, <1>8, <4>2
        <4>6. \A d \in N : pre[d] # None => grown[d] # None
          BY <1>8
        <4> QED BY <1>13, <4>2, <4>3, <4>4, <4>5, <4>6
      <3> QED BY <3>1, <3>2
    <2>6. ASSUME NEW i \in 1..(n + 1), NEW d \in N, link[d] = new[i].node
          PROVE  grown[d] # None <=> d <= new[i].done
      <3>1. CASE i = n + 1
        <4>1. link[d] = c
          BY <1>5, <2>6, <3>1
        <4>2. d # c /\ d # r
          BY <1>2, <1>3, <1>4, <1>7, <4>1
        <4>3. pre[d] = None
          <5>1. pre[d] # None => pre[link[d]] # None
            BY <4>2, WalkFacts
          <5> QED BY <1>6, <4>1, <5>1
        <4>4. ~(d <= 0)
          BY <1>3 DEF None
        <4> QED BY <1>5, <1>8, <3>1, <4>2, <4>3, <4>4
      <3>2. CASE i = n
        <4>1. link[d] = t /\ link[d] = stk[n].node
          BY <1>5, <2>6, <3>2 DEF t
        <4>2. pre[d] # None <=> d <= stk[n].done
          BY <1>2, <4>1, WalkFacts
        <4>3. d <= stk[n].done \/ d = c <=> d <= c
          <5>1. d > stk[n].done => c <= d
            BY <1>4, <4>1
          <5>2. d \in Nat /\ c \in Nat /\ stk[n].done \in Nat /\ c > stk[n].done
            BY <1>2, <1>3, <1>4
          <5> QED BY <5>1, <5>2
        <4> QED BY <1>5, <1>8, <3>2, <4>2, <4>3
      <3>3. CASE i \in 1..(n - 1)
        <4>1. i \in 1..n /\ i # n
          BY <1>1, <3>3
        <4>2. new[i] = stk[i] /\ link[d] = stk[i].node
          BY <1>5, <2>6, <3>3
        <4>3. pre[d] # None <=> d <= stk[i].done
          BY <4>1, <4>2, WalkFacts
        <4>4. d # c
          <5>1. stk[i].node # stk[n].node
            BY <1>2, <4>1, WalkFacts
          <5> QED BY <1>4, <4>2, <5>1 DEF t
        <4> QED BY <1>8, <4>2, <4>3, <4>4
      <3> QED BY <1>9, <1>10, <3>1, <3>2, <3>3
    <2>7. grown[r] # None /\ num + 1 \in Nat
      BY <1>3, <1>8
    <2> QED BY ONLY <1>3, <1>5, <2>1, <2>2, <2>3, <2>4, <2>5, <2>6, <2>7 DEF WalkDown
  <1>22. Spans(link, new, grown, fin, num + 1)
    <2>1. ASSUME NEW b \in N, pre[b] # None
          PROVE  c \notin Above(link, b) /\ grown[b] = pre[b] /\ ~(num + 1 <= pre[b])
      <3>1. \A a \in Above(link, b) : pre[a] # None
        BY <2>1, WalkFacts
      <3>2. b # c /\ pre[b] <= num /\ pre[b] \in Nat
        BY <1>1, <1>6, <1>14, <2>1
      <3> QED BY <1>3, <1>6, <1>8, <3>1, <3>2
    <2>2. Above(link, c) = {c} \cup Above(link, t)
      BY <1>2, <1>3, <1>4, AboveSteps
    <2>3. ASSUME NEW a \in N, NEW b \in N, grown[a] # None, grown[b] # None
          PROVE  a \in Above(link, b) <=> grown[a] <= grown[b] /\ grown[b] < Behind(new, fin, num + 1, a)
      <3>1. CASE a = c /\ b = c
        <4>1. num + 1 <= num + 1 /\ num + 1 < num + 1 + 1
          BY <1>3
        <4> QED BY <1>8, <1>16, <2>2, <3>1, <4>1
      <3>2. CASE a = c /\ b # c
        BY <1>8, <2>1, <2>3, <3>2
      <3>3. CASE a # c /\ b = c
        <4>1. pre[a] # None /\ grown[a] = pre[a] /\ grown[b] = num + 1 /\ pre[a] <= num /\ pre[a] \in Nat
          BY <1>1, <1>8, <1>14, <2>3, <3>3
        <4>2. grown[a] <= grown[b]
          BY <1>3, <4>1
        <4>3. a \in Above(link, b) <=> Holds(stk, a)
          BY <2>2, <3>3, StackIsLine DEF t
        <4>4. num + 1 < Behind(new, fin, num + 1, a) <=> Holds(stk, a)
          <5>1. CASE Holds(stk, a)
            BY <1>3, <1>15, <5>1
          <5>2. CASE ~Holds(stk, a)
            <6>1. Behind(new, fin, num + 1, a) <= num + 1 /\ Behind(new, fin, num + 1, a) \in Nat
              BY <1>14, <1>15, <1>17, <3>3, <4>1, <5>2
            <6> QED BY <1>3, <5>2, <6>1
          <5> QED BY <5>1, <5>2
        <4> QED BY <4>1, <4>2, <4>3, <4>4
      <3>4. CASE a # c /\ b # c
        <4>1. /\ pre[a] # None /\ grown[a] = pre[a] /\ pre[b] # None /\ grown[b] = pre[b]
              /\ pre[b] <= num /\ pre[b] \in Nat
          BY <1>1, <1>8, <1>14, <2>3, <3>4
        <4>2. a \in Above(link, b) <=> pre[a] <= pre[b] /\ pre[b] < Behind(stk, fin, num, a)
          BY ONLY Spans(link, stk, pre, fin, num), <1>3, <4>1, a \in N, b \in N DEF Spans
        <4>3. pre[b] < Behind(stk, fin, num, a) <=> pre[b] < Behind(new, fin, num + 1, a)
          <5>1. CASE Holds(stk, a)
            BY <1>3, <1>15, <4>1, <5>1
          <5>2. CASE ~Holds(stk, a)
            BY <1>15, <3>4, <5>2
          <5> QED BY <5>1, <5>2
        <4> QED BY <4>1, <4>2, <4>3
      <3> QED BY <3>1, <3>2, <3>3, <3>4
    <2> QED BY ONLY <1>3, <2>3 DEF Spans
  <1> QED BY <1>21, <1>22

(* The walk leaves a node whose children are all behind it.                 *)
Popped(new, stk, n) == DOMAIN new = 1..(n - 1) /\ \A i \in 1..(n - 1) : new[i] = stk[i]

(* Leaving a node whose children are all numbered keeps it too.             *)
LEMMA LeaveWalks ==
    ASSUME NEW N, NEW link, NEW r, Linkage(N, link, r), NEW stk, NEW n, NEW pre, NEW fin, NEW num,
           Walker(N, stk, n, pre, fin), WalkDown(link, r, stk, pre, fin, num),
           Spans(link, stk, pre, fin, num), n > 0,
           \A c \in N : ~(link[c] = stk[n].node /\ c > stk[n].done),
           NEW new, Popped(new, stk, n),
           NEW ended, ended = [fin EXCEPT ![stk[n].node] = num + 1]
    PROVE  /\ WalkDown(link, r, new, pre, ended, num)
           /\ Spans(link, new, pre, ended, num)
  <1> DEFINE t == stk[n].node
  <1>1. /\ n \in Nat /\ DOMAIN stk = 1..n /\ pre \in [N -> Nat] /\ fin \in [N -> Nat]
        /\ \A i \in 1..n : stk[i].node \in N /\ stk[i].done \in Nat
    BY DEF Walker
  <1>2. n \in 1..n /\ t \in N /\ stk[n].done \in Nat
    BY <1>1
  <1>3. /\ num \in Nat /\ r \in N /\ link[r] = None /\ pre[r] # None
        /\ DOMAIN link = N /\ N \subseteq Nat
    BY WalkFacts
  <1>4. DOMAIN new = 1..(n - 1) /\ \A i \in 1..(n - 1) : new[i] = stk[i]
    BY DEF Popped
  <1>5. \A i \in 1..n : i = n \/ i \in 1..(n - 1)
    BY <1>1
  <1>6. \A i \in 1..(n - 1) : i \in 1..n /\ i # n
    BY <1>1
  <1>7. \A x : Holds(new, x) <=> Holds(stk, x) /\ x # t
    <2>1. \A i \in 1..(n - 1) : stk[i].node # t
      BY <1>2, <1>6, WalkFacts
    <2> QED BY <1>1, <1>4, <1>5, <1>6, <2>1 DEF Holds
  <1>8. ended[t] = num + 1 /\ \A x \in N : x # t => ended[x] = fin[x]
    BY <1>1, <1>2
  <1>9. \A x \in N : Behind(new, ended, num, x) = Behind(stk, fin, num, x)
    <2>1. Holds(stk, t)
      BY <1>1, <1>2 DEF Holds
    <2> QED BY <1>7, <1>8, <2>1 DEF Behind
  <1>10. \A c \in N : link[c] = t => pre[c] # None
    <2>1. \A c \in N : link[c] = t => (pre[c] # None <=> c <= stk[n].done)
      BY <1>2, WalkFacts
    <2>2. \A c \in N : link[c] = t => c <= stk[n].done
      BY <1>2, <1>3
    <2> QED BY <2>1, <2>2
  <1> HIDE DEF t
  <1>11. WalkDown(link, r, new, pre, ended, num)
    <2>1. \A i \in 1..(n - 1) : pre[new[i].node] # None
      BY <1>4, <1>6, WalkFacts
    <2>2. \A i, j \in 1..(n - 1) : i < j => pre[new[i].node] < pre[new[j].node]
      <3>1. \A i, j \in 1..n : i < j => pre[stk[i].node] < pre[stk[j].node]
        BY WalkFacts
      <3> QED BY <1>4, <1>6, <3>1
    <2>3. ASSUME NEW i \in 1..(n - 1), i > 1
          PROVE  link[new[i].node] = new[i - 1].node /\ new[i - 1].done = new[i].node
      <3>1. i - 1 \in 1..(n - 1) /\ i \in 1..n
        BY <1>1, <2>3
      <3>2. link[stk[i].node] = stk[i - 1].node /\ stk[i - 1].done = stk[i].node
        BY <2>3, <3>1, WalkFacts
      <3> QED BY <1>4, <3>1, <3>2
    <2>4. new # << >> => new[1].node = r
      <3>1. CASE n = 1
        <4>1. DOMAIN new = {}
          BY <1>4, <3>1
        <4>2. new = << >>
          <5>1. DOMAIN new = {}
            BY <4>1
          <5> QED BY <1>4, <3>1, <5>1
        <4> QED BY <4>2
      <3>2. CASE n # 1
        <4>1. 1 \in 1..(n - 1)
          BY <1>1, <3>2
        <4>2. stk[1].node = r
          BY WalkFacts
        <4> QED BY <1>4, <4>1, <4>2
      <3> QED BY <3>1, <3>2
    <2>5. ASSUME NEW x \in N, pre[x] # None
          PROVE  /\ x # r => link[x] # None /\ pre[link[x]] # None
                 /\ pre[x] <= num
                 /\ Behind(new, ended, num, x) <= num + 1
                 /\ ~Holds(new, x) => \A d \in N : link[d] = x => pre[d] # None
      <3>1. /\ x # r => link[x] # None /\ pre[link[x]] # None
            /\ pre[x] <= num /\ Behind(stk, fin, num, x) <= num + 1
            /\ ~Holds(stk, x) => \A d \in N : link[d] = x => pre[d] # None
        BY <2>5, WalkFacts
      <3> QED BY <1>7, <1>9, <1>10, <3>1
    <2>6. ASSUME NEW i \in 1..(n - 1), NEW d \in N, link[d] = new[i].node
          PROVE  pre[d] # None <=> d <= new[i].done
      <3>1. i \in 1..n /\ new[i] = stk[i] /\ link[d] = stk[i].node
        BY <1>4, <1>6, <2>6
      <3>2. pre[d] # None <=> d <= stk[i].done
        BY <3>1, WalkFacts
      <3> QED BY <3>1, <3>2
    <2> QED BY ONLY <1>3, <1>4, <2>1, <2>2, <2>3, <2>4, <2>5, <2>6 DEF WalkDown
  <1>12. Spans(link, new, pre, ended, num)
    BY ONLY Spans(link, stk, pre, fin, num), <1>3, <1>9 DEF Spans
  <1> QED BY <1>11, <1>12

(* The numbering of the model is such a walk.                               *)
LEMMA WalkTerms ==
    ASSUME IInv, TreeOfDominators, Blank, phase = "tree"
    PROVE  /\ Linkage(Nodes, idom, Root)
           /\ Walker(Nodes, stack, Len(stack), preorder[pass], subtreeEnd[pass])
           /\ pass \in Passes
  <1>1. /\ Linked(Nodes, idom) /\ Nodes \subseteq Nat /\ Root \in Nodes
        /\ DOMAIN stack = 1..Len(stack) /\ Len(stack) \in Nat
        /\ \A i \in DOMAIN stack : stack[i].node \in Nodes /\ stack[i].done \in Nat
    BY Terms
  <1>2. pass \in Passes /\ idom[Root] = None
    BY DEF IInv, Typed, TreeOfDominators
  <1>3. preorder[pass] \in [Nodes -> Nat] /\ subtreeEnd[pass] \in [Nodes -> Nat]
    BY <1>2 DEF Blank
  <1> QED BY <1>1, <1>2, <1>3 DEF Linkage, Walker

(* Every step keeps the invariant of the walk.                              *)
LEMMA WalkStep ==
    ASSUME IInv, IInv', TreeOfDominators, TreeOfDominators', Blank, Blank', TreeWalk, Intervals, [Next]_vars
    PROVE  TreeWalk' /\ Intervals'
  <1> DEFINE n == Len(stack)
             N == Nodes
             r == Root
             pre == preorder[pass]
             fin == subtreeEnd[pass]
  <1>1. CASE SweepsEnd
    <2>1. /\ phase = "sweep" /\ phase' = "tree" /\ UNCHANGED <<targets, pass, succs, postorder>>
          /\ stack' = <<Enter(Root)>> /\ numbered' = 1
          /\ preorder' = [preorder EXCEPT ![pass][Root] = 1]
      BY <1>1 DEF SweepsEnd
    <2>2. Root' = Root /\ Nodes' = Nodes
      BY <2>1, GraphKept
    <2>3. pass \in Passes /\ \A x \in N : preorder[pass][x] = None
      BY <2>1 DEF Blank, Numberless, IInv, Typed
    <2>4. Linkage(N, idom', r)
      <3>1. Root \in Nodes /\ Nodes \subseteq Nat /\ None \notin Nodes
        BY Terms
      <3>2. Linked(N, idom')
        <4>1. idom' \in [Nodes' -> Nodes' \cup {None}]
          BY DEF IInv, Typed
        <4> QED BY <2>2, <3>1, <4>1 DEF Linked
      <3>3. idom'[Root'] = None
        BY <2>1 DEF TreeOfDominators
      <3> QED BY <2>2, <3>1, <3>2, <3>3 DEF Linkage
    <2>5. preorder'[pass'] \in [N -> Nat]
      BY <2>1, <2>2, <2>3 DEF Blank
    <2>6. preorder'[pass'][r] = 1 /\ \A x \in N \ {r} : preorder'[pass'][x] = None
      <3>1. preorder \in [Passes -> [Nodes -> Nat]] /\ Root \in Nodes
        BY Terms DEF Blank
      <3> QED BY <2>1, <2>3, <3>1
    <2>7. DOMAIN stack' = {1} /\ stack'[1].node = r /\ stack'[1].done = 0
      BY <2>1 DEF Enter
    <2> HIDE DEF N, r
    <2>8. /\ WalkDown(idom', r, stack', preorder'[pass'], subtreeEnd'[pass'], 1)
          /\ Spans(idom', stack', preorder'[pass'], subtreeEnd'[pass'], 1)
      BY ONLY <2>4, <2>5, <2>6, <2>7, WalkStarts
    <2> QED BY <2>1, <2>2, <2>8 DEF TreeWalk, Intervals, r
  <1>2. CASE phase = "tree" /\ (NumberChild \/ NumberEnd)
    <2>1. /\ stack # << >> /\ UNCHANGED <<targets, pass, phase, succs, postorder, idom>>
      BY <1>2 DEF NumberChild, NumberEnd
    <2>2. Root' = Root /\ Nodes' = Nodes
      BY <2>1, GraphKept
    <2>3. Linkage(N, idom, r) /\ Walker(N, stack, n, pre, fin) /\ pass \in Passes
      BY <1>2, WalkTerms
    <2>4. WalkDown(idom, r, stack, pre, fin, numbered) /\ Spans(idom, stack, pre, fin, numbered)
      BY <1>2 DEF TreeWalk, Intervals
    <2>5. Typed /\ n \in Nat /\ n > 0 /\ Top = stack[n] /\ stack[n].node \in N
      BY <2>1, StackFacts DEF IInv
    <2>6. preorder \in [Passes -> [Nodes -> Nat]] /\ subtreeEnd \in [Passes -> [Nodes -> Nat]]
      BY DEF Blank
    <2>7. CASE NumberChild
      <3>1. PICK c \in ChildrenLeft(Top) :
              /\ \A d \in ChildrenLeft(Top) : c <= d
              /\ stack' = Append(Append(Below, [Top EXCEPT !.done = c]), Enter(c))
              /\ preorder' = [preorder EXCEPT ![pass][c] = numbered + 1]
        BY <2>7 DEF NumberChild
      <3>2. numbered' = numbered + 1 /\ subtreeEnd' = subtreeEnd
        BY <2>7 DEF NumberChild
      <3>3. c \in N /\ c \in Nat /\ NextChild(N, idom, stack[n], c)
        <4>1. ChildrenLeft(Top) = {d \in Nodes : idom[d] = stack[n].node /\ d > stack[n].done}
          BY <2>5 DEF ChildrenLeft, Children
        <4> QED BY <3>1, <4>1, Terms DEF NextChild
      <3>4. Pushed(stack', stack, n, c)
        BY ONLY <2>1, <2>5, <3>1, <3>3, TopReplaced DEF Pushed
      <3>5. preorder'[pass'] = [pre EXCEPT ![c] = numbered + 1] /\ subtreeEnd'[pass'] = fin
        BY <2>1, <2>3, <2>6, <3>1, <3>2
      <3> HIDE DEF N, r, n, pre, fin
      <3>6. /\ WalkDown(idom, r, stack', preorder'[pass'], fin, numbered + 1)
            /\ Spans(idom, stack', preorder'[pass'], fin, numbered + 1)
        BY ONLY <2>3, <2>4, <2>5, <3>3, <3>4, <3>5, ChildWalks
      <3> QED BY <2>1, <2>2, <3>2, <3>5, <3>6 DEF TreeWalk, Intervals, r
    <2>8. CASE NumberEnd
      <3>1. /\ ChildrenLeft(Top) = {} /\ stack' = Below /\ UNCHANGED <<preorder, numbered>>
            /\ subtreeEnd' = [subtreeEnd EXCEPT ![pass][Top.node] = numbered + 1]
        BY <2>8 DEF NumberEnd
      <3>2. \A c \in N : ~(idom[c] = stack[n].node /\ c > stack[n].done)
        BY <2>5, <3>1 DEF ChildrenLeft, Children
      <3>3. Popped(stack', stack, n)
        <4>1. Below \in Seq(Frames) /\ Len(Below) = n - 1 /\ \A i \in 1..(n - 1) : Below[i] = stack[i]
          BY <2>1, <2>5, StackFacts
        <4> QED BY <3>1, <4>1 DEF Popped
      <3>4. subtreeEnd'[pass'] = [fin EXCEPT ![stack[n].node] = numbered + 1] /\ preorder'[pass'] = pre
        BY <2>1, <2>3, <2>5, <2>6, <3>1
      <3> HIDE DEF N, r, n, pre, fin
      <3>5. /\ WalkDown(idom, r, stack', pre, subtreeEnd'[pass'], numbered)
            /\ Spans(idom, stack', pre, subtreeEnd'[pass'], numbered)
        BY ONLY <2>3, <2>4, <2>5, <3>2, <3>3, <3>4, LeaveWalks
      <3> QED BY <2>1, <2>2, <3>1, <3>4, <3>5 DEF TreeWalk, Intervals, r
    <2> QED BY <1>2, <2>7, <2>8
  <1>3. CASE Done \/ UNCHANGED vars
    <2>1. UNCHANGED <<targets, pass, phase, stack, idom, preorder, subtreeEnd, numbered>>
      BY <1>3 DEF Done, vars, orderVars, treeVars
    <2>2. Root' = Root
      BY <2>1 DEF Root, VirtualRoot
    <2> QED BY <2>1, <2>2 DEF TreeWalk, Intervals
  <1>4. CASE phase' # "tree"
    BY <1>4 DEF TreeWalk, Intervals
  <1>5. CASE Visit \/ Leave \/ NextStart \/ BeginNode \/ FinishNode \/ EndSweep \/ RaiseFirst \/ RaiseSecond
    <2>1. phase' = phase /\ phase \in {"order", "sweep", "intersect"}
      BY <1>5 DEF Visit, Leave, NextStart, BeginNode, FinishNode, EndSweep, RaiseFirst, RaiseSecond
    <2> QED BY <1>4, <2>1
  <1>6. CASE Ordered \/ BeginIntersect \/ EndIntersect \/ LiveTreeEnd \/ DeadTreeEnd \/ AllOrdered \/ BeginDead
    <2>1. phase' \in {"sweep", "intersect", "order", "done", "components"}
      BY <1>6 DEF Ordered, BeginIntersect, EndIntersect, LiveTreeEnd, DeadTreeEnd, AllOrdered, BeginDead
    <2> QED BY <1>4, <2>1
  <1>7. CASE Collect
    BY <1>4, <1>7 DEF Collect
  <1>8. CASE NumberChild \/ NumberEnd
    <2>1. phase = "tree"
      BY <1>8 DEF NumberChild, NumberEnd
    <2> QED BY <1>2, <1>8, <2>1
  <1> QED BY <1>1, <1>3, <1>5, <1>6, <1>7, <1>8 DEF Next

-----------------------------------------------------------------------------
(* The reference of the property, ReachedAvoiding, in the same terms.       *)
LEMMA BlocksCounted ==
    ASSUME WellFormed(targets)
    PROVE  Len(targets) \in Nat /\ IsFiniteSet(Blocks) /\ Cardinality(Blocks) <= Len(targets)
  <1> DEFINE N == Len(targets)
  <1>1. N \in Nat /\ N > 0 /\ Blocks = 1..N
    BY BlockFacts
  <1> HIDE DEF N
  <1>2. Cardinality(1..N) = IF 1 > N THEN 0 ELSE N - 1 + 1
    BY <1>1, FS_Interval
  <1>3. IsFiniteSet(Blocks) /\ Cardinality(Blocks) = N
    BY <1>1, <1>2, FS_Interval
  <1> QED BY <1>1, <1>3 DEF N

(* ReachedAvoiding is the least set closed under the targets as well.       *)
LEMMA ReachedAvoidingFacts ==
    ASSUME WellFormed(targets), NEW from \in SUBSET Blocks, NEW avoided
    PROVE  /\ from \ avoided \subseteq ReachedAvoiding(from, avoided)
           /\ ReachedAvoiding(from, avoided) \subseteq Blocks
           /\ \A c \in ReachedAvoiding(from, avoided) :
                 Elements(targets[c]) \ avoided \subseteq ReachedAvoiding(from, avoided)
           /\ \A S : from \ avoided \subseteq S
                      /\ (\A c \in S \cap Blocks : Elements(targets[c]) \ avoided \subseteq S)
                    => ReachedAvoiding(from, avoided) \subseteq S
  <1> DEFINE N == Len(targets)
             A == from \ avoided
             More(X) == X \cup ((UNION {Elements(targets[b]) : b \in X}) \ avoided)
             R == [c \in Blocks |-> Elements(targets[c]) \ avoided]
             Step(s) == [k \in 0..N |-> IF k = 0 THEN A ELSE More(s[k - 1])]
  <1>1. /\ N \in Nat /\ IsFiniteSet(Blocks) /\ Cardinality(Blocks) <= N
        /\ \A c \in Blocks : Elements(targets[c]) \subseteq Blocks
    <2>1. N \in Nat /\ IsFiniteSet(Blocks) /\ Cardinality(Blocks) <= N
      BY BlocksCounted
    <2>2. \A c \in Blocks : Elements(targets[c]) \subseteq Blocks
      BY DEF WellFormed, Elements, Blocks
    <2> QED BY <2>1, <2>2
  <1>2. R \in [Blocks -> SUBSET Blocks] /\ A \in SUBSET Blocks
    BY <1>1
  <1>3. ASSUME NEW X \in SUBSET Blocks
        PROVE  Spread(R, X) = More(X)
    <2>1. \A c \in X : R[c] = Elements(targets[c]) \ avoided
      OBVIOUS
    <2> HIDE DEF R
    <2> QED BY <2>1 DEF Spread
  <1>4. PICK g \in [0..N -> SUBSET Blocks] : SpreadsTo(g, N, R, A)
    <2> HIDE DEF N, R, A
    <2> QED BY <1>1, <1>2, SpreadExists
  <1>5. g = Step(g)
    <2>1. \A i \in 0..N : i = 0 \/ (i \in 1..N /\ i - 1 \in 0..N /\ i # 0)
      BY <1>1
    <2>2. \A i \in 1..N : g[i] = Spread(R, g[i - 1])
      BY <1>4 DEF SpreadsTo
    <2>3. g[0] = A
      <3> HIDE DEF A
      <3> QED BY <1>4 DEF SpreadsTo
    <2> HIDE DEF N, R, More, A
    <2>4. \A i \in 0..N : g[i] = IF i = 0 THEN A ELSE More(g[i - 1])
      BY <1>3, <2>1, <2>2, <2>3
    <2> QED BY <2>4
  <1> DEFINE step == CHOOSE s : s = Step(s)
  <1>6. step = Step(step)
    <2> HIDE DEF Step
    <2> QED BY <1>5
  <1>7. ReachedAvoiding(from, avoided) = step[N]
    BY DEF ReachedAvoiding
  <1> HIDE DEF step
  <1>8. step[0] = A /\ \A i \in 1..N : step[i] = More(step[i - 1])
    <2>1. \A i \in 0..N : step[i] = IF i = 0 THEN A ELSE More(step[i - 1])
      <3> HIDE DEF More, N, A
      <3> QED BY <1>6
    <2>2. 0 \in 0..N /\ \A i \in 1..N : i \in 0..N /\ i # 0
      BY <1>1
    <2> HIDE DEF More, N, A
    <2> QED BY <2>1, <2>2
  <1>9. SpreadsTo(step, N, R, A)
    <2> DEFINE I == SUBSET Blocks
    <2>1. \A X \in I : More(X) \in I
      BY <1>1
    <2>2. step[0] \in I
      BY <1>8
    <2>3. \A i \in 0..N : step[i] \in I
      <3>1. \A i \in 1..N : step[i - 1] \in I => step[i] \in I
        <4> HIDE DEF More, N, I
        <4> QED BY <1>8, <2>1
      <3> HIDE DEF I, N, More
      <3> QED BY <1>1, <2>2, <3>1, IterationKeeps
    <2>4. \A i \in 1..N : i - 1 \in 0..N
      BY <1>1
    <2> HIDE DEF N, R, More, A
    <2> QED BY <1>3, <1>8, <2>3, <2>4 DEF SpreadsTo
  <1>10. /\ A \subseteq step[N] /\ step[N] \subseteq Blocks
         /\ ClosedUnder(R, step[N])
    <2> HIDE DEF N, R, A
    <2> QED BY <1>1, <1>2, <1>9, SpreadFacts
  <1>11. \A c \in step[N] : Elements(targets[c]) \ avoided \subseteq step[N]
    BY <1>10 DEF ClosedUnder
  <1>12. ASSUME NEW S, A \subseteq S, \A c \in S \cap Blocks : Elements(targets[c]) \ avoided \subseteq S
         PROVE  step[N] \subseteq S
    <2>1. StaysIn(S, Blocks, R, A)
      BY <1>12 DEF StaysIn
    <2> HIDE DEF N, R, A
    <2> QED BY <1>1, <1>2, <1>9, <2>1, SpreadLeast
  <1> HIDE DEF N, More, Step, R
  <1> QED BY <1>7, <1>10, <1>11, <1>12

(* Removing duplicates from the targets leaves the set of successors.       *)
LEMMA EdgeElements ==
    ASSUME WellFormed(targets), NEW b \in Blocks
    PROVE  Elements(Edges(b)) = Elements(targets[b])
  <1>1. CASE Len(targets[b]) = 2 /\ targets[b][1] = targets[b][2]
    <2>1. targets[b] \in Seq(Nat)
      BY DEF WellFormed, Blocks
    <2>2. DOMAIN targets[b] = {1, 2} /\ DOMAIN <<targets[b][1]>> = {1}
      BY <1>1, <2>1
    <2>3. \A i \in {1, 2} : targets[b][i] = targets[b][1]
      BY <1>1
    <2>4. Elements(targets[b]) = {targets[b][1]} /\ Elements(<<targets[b][1]>>) = {targets[b][1]}
      BY <2>2, <2>3 DEF Elements
    <2> QED BY <1>1, <2>4 DEF Edges
  <1>2. CASE ~(Len(targets[b]) = 2 /\ targets[b][1] = targets[b][2])
    BY <1>2 DEF Edges
  <1> QED BY <1>1, <1>2

(* On the live graph the two notions of reaching agree.                     *)
LEMMA ReachedIsWalked ==
    ASSUME IInv, LiveEdges, pass = "live", NEW avoided
    PROVE  ReachedAvoiding({Entry}, avoided) = Walked(succs, {Root}, avoided)
  <1>1. WellFormed(targets) /\ Edged(Nodes, succs) /\ Root = Entry /\ Entry \in Nodes
    BY Terms DEF IInv, Typed, Root
  <1>2. Blocks \subseteq Nodes /\ Entry \in Blocks /\ {Entry} \in SUBSET Blocks
    BY <1>1, BlockFacts DEF Entry
  <1>3. \A b \in Blocks : Elements(succs[b]) = Elements(targets[b]) /\ Elements(targets[b]) \subseteq Blocks
    <2>1. \A b \in Blocks : succs[b] = Edges(b)
      BY <1>2 DEF LiveEdges
    <2>2. \A b \in Blocks : Elements(targets[b]) \subseteq Blocks
      BY <1>1 DEF WellFormed, Elements, Blocks
    <2> QED BY <1>1, <2>1, <2>2, EdgeElements
  <1> DEFINE RA == ReachedAvoiding({Entry}, avoided)
             W == Walked(succs, {Root}, avoided)
  <1>4. /\ {Entry} \ avoided \subseteq RA /\ RA \subseteq Blocks
        /\ \A c \in RA : Elements(targets[c]) \ avoided \subseteq RA
        /\ \A S : {Entry} \ avoided \subseteq S /\ (\A c \in S \cap Blocks : Elements(targets[c]) \ avoided \subseteq S)
                    => RA \subseteq S
    BY ONLY <1>1, <1>2, ReachedAvoidingFacts
  <1>5. W \subseteq Nodes /\ {Root} \ avoided \subseteq W /\ Onward(succs, W, avoided)
    <2>1. {Root} \subseteq Nodes
      BY <1>1
    <2> QED BY ONLY <1>1, <2>1, WalkedFacts
  <1> HIDE DEF RA, W
  <1>6. RA \subseteq W
    <2>1. \A c \in W \cap Blocks : Elements(targets[c]) \ avoided \subseteq W
      BY <1>3, <1>5 DEF Onward
    <2> QED BY <1>1, <1>4, <1>5, <2>1
  <1>7. W \subseteq RA
    <2>1. Onward(succs, RA, avoided) /\ RA \in SUBSET Nodes /\ {Root} \ avoided \subseteq RA
      BY <1>1, <1>2, <1>3, <1>4 DEF Onward
    <2> QED BY ONLY <1>1, <2>1, WalkedLeast DEF W
  <1> QED BY <1>6, <1>7 DEF RA, W

-----------------------------------------------------------------------------
(* The end of a numbering: what was numbered is what the root reaches, the  *)
(* ancestors of a node are its dominators, and the interval test answers    *)
(* for them.                                                                *)
LEMMA TreeExact ==
    ASSUME IInv, Explored, TreeOfDominators, Blank, TreeWalk, Intervals, phase = "tree", stack = << >>
    PROVE  /\ seen = Walked(succs, {Root}, {}) /\ seen \subseteq Nodes
           /\ \A n \in Nodes : preorder[pass][n] # None <=> n \in seen
           /\ \A n \in seen : Above(idom, n) = DomsOf(succs, Root, n) /\ Above(idom, n) \subseteq seen
           /\ \A a, b \in seen : a \in Above(idom, b) <=> Within(pass, a, b)
  <1> DEFINE pre == preorder[pass]
             fin == subtreeEnd[pass]
  <1>1. /\ Edged(Nodes, succs) /\ Linked(Nodes, idom) /\ Root \in Nodes /\ postorder \in [Nodes -> Nat]
        /\ seen \subseteq Nodes /\ DOMAIN succs = Nodes /\ pass # "regions"
    <2>1. Edged(Nodes, succs) /\ Linked(Nodes, idom) /\ Root \in Nodes /\ postorder \in [Nodes -> Nat]
      BY Terms
    <2> QED BY <2>1 DEF Edged, IInv, Typed, TreeOfDominators
  <1>2. Root \in seen /\ \A n \in Nodes : postorder[n] > 0 <=> n \in seen
    BY <1>1 DEF Explored, IInv, Positions
  <1>3. seen = Walked(succs, {Root}, {})
    <2>1. seen \subseteq Walked(succs, {Root}, {})
      BY <1>1 DEF Explored
    <2>2. \A n \in seen : Elements(succs[n]) \subseteq seen
      BY <1>1, <1>2 DEF Explored
    <2>3. seen \in SUBSET Nodes /\ {Root} \ {} \subseteq seen /\ Onward(succs, seen, {})
      BY <1>1, <1>2, <2>2 DEF Onward
    <2>4. Walked(succs, {Root}, {}) \subseteq seen
      BY ONLY <1>1, <2>3, WalkedLeast
    <2> QED BY <2>1, <2>4
  <1>5. \A n \in Nodes : n \in seen => Above(idom, n) = DomsOf(succs, Root, n)
    BY <1>2 DEF TreeOfDominators
  <1>6. /\ Linkage(Nodes, idom, Root) /\ Walker(Nodes, stack, Len(stack), pre, fin)
        /\ WalkDown(idom, Root, stack, pre, fin, numbered) /\ Spans(idom, stack, pre, fin, numbered)
    BY WalkTerms DEF TreeWalk, Intervals
  <1>7. \A n : ~Holds(stack, n)
    BY DEF Holds
  <1>8. DOMAIN idom = Nodes /\ idom \in [Nodes -> Nodes \cup {None}] /\ None \notin Nodes
    BY <1>1 DEF Linked
  <1> HIDE DEF pre, fin
  <1>9. /\ pre[Root] # None
        /\ \A x \in Nodes : pre[x] # None => \A c \in Nodes : idom[c] = x => pre[c] # None
        /\ \A x \in Nodes : pre[x] # None /\ x # Root => idom[x] # None
        /\ \A b \in Nodes : pre[b] # None => \A a \in Above(idom, b) : a \in Nodes /\ pre[a] # None
    BY <1>6, <1>7, WalkFacts
  <1>10. \A n \in Nodes : pre[n] # None <=> n \in seen
    <2>1. ASSUME NEW n \in Nodes, pre[n] # None
          PROVE  n \in seen
      <3>1. CASE n = Root
        BY <1>2, <3>1
      <3>2. CASE n # Root
        <4>1. postorder[n] > 0
          BY <1>9, <2>1, <3>2 DEF TreeOfDominators
        <4> QED BY <1>2, <4>1
      <3> QED BY <3>1, <3>2
    <2>2. ASSUME NEW n \in seen, pre[n] = None
          PROVE  FALSE
      <3> DEFINE S == {x \in Nodes : pre[x] = None}
      <3>1. n \in S /\ S \in SUBSET Nodes
        BY <1>1, <2>2
      <3>2. \A c \in S : idom[c] # None => idom[c] \in S
        BY <1>8, <1>9
      <3>3. UpClosed(idom, S)
        BY <3>2 DEF UpClosed
      <3>4. Root \notin S
        BY <1>9
      <3> HIDE DEF S
      <3>5. Above(idom, n) \subseteq S
        BY <1>1, <3>1, <3>3, AboveFacts
      <3>6. Root \in DomsOf(succs, Root, n)
        BY <1>1, <3>1, DominatorFacts
      <3> QED BY <1>1, <1>5, <3>4, <3>5, <3>6
    <2> QED BY <2>1, <2>2
  <1>11. \A a, b \in seen : a \in Above(idom, b) <=> Within(pass, a, b)
    <2>1. \A a, b \in Nodes : pre[a] # None /\ pre[b] # None =>
            (a \in Above(idom, b) <=> pre[a] <= pre[b] /\ pre[b] < Behind(stack, fin, numbered, a))
      BY ONLY <1>6, <1>8 DEF Spans
    <2>2. \A a : Behind(stack, fin, numbered, a) = fin[a]
      BY <1>7 DEF Behind
    <2> QED BY <1>1, <1>10, <2>1, <2>2 DEF Within, pre, fin
  <1>12. \A n \in seen : Above(idom, n) = DomsOf(succs, Root, n) /\ Above(idom, n) \subseteq seen
    BY <1>1, <1>5, <1>9, <1>10
  <1> QED BY <1>1, <1>3, <1>10, <1>11, <1>12 DEF pre

(* The end of the live pass, in the terms of the property.                  *)
LEMMA LiveTreeExact ==
    ASSUME IInv, Explored, TreeOfDominators, Blank, TreeWalk, Intervals, LiveEdges,
           pass = "live", phase = "tree", stack = << >>
    PROVE  /\ seen = Live
           /\ \A a \in Blocks, b \in Live :
                 b \notin ReachedAvoiding({Entry}, {a}) <=> a \in Above(idom, b)
           /\ \A b \in Live : Above(idom, b) \subseteq Live
           /\ \A a \in Blocks, b \in Live :
                 b \notin ReachedAvoiding({Entry}, {a}) <=> a \in Live /\ Within("live", a, b)
  <1>1. DOMAIN succs = Nodes /\ Blocks \subseteq Nodes
    BY BlockFacts DEF IInv, Typed
  <1>2. /\ seen = Walked(succs, {Root}, {})
        /\ \A n \in seen : Above(idom, n) = DomsOf(succs, Root, n) /\ Above(idom, n) \subseteq seen
        /\ \A a, b \in seen : a \in Above(idom, b) <=> Within("live", a, b)
    BY TreeExact
  <1>3. seen = Live
    BY <1>2, ReachedIsWalked DEF Live
  <1>4. ASSUME NEW a \in Blocks, NEW b \in Live
        PROVE  /\ b \notin ReachedAvoiding({Entry}, {a}) <=> a \in Live /\ Within("live", a, b)
               /\ b \notin ReachedAvoiding({Entry}, {a}) <=> a \in Above(idom, b)
    <2>1. ReachedAvoiding({Entry}, {a}) = Walked(succs, {Root}, {a})
      BY ReachedIsWalked
    <2>2. b \notin Walked(succs, {Root}, {a}) <=> a \in Above(idom, b)
      BY <1>1, <1>2, <1>3 DEF DomsOf
    <2> QED BY <1>2, <1>3, <2>1, <2>2
  <1> QED BY <1>2, <1>3, <1>4

(* The edges stay those of the blocks, and the intervals stay exact when    *)
(* other passes follow.                                                     *)
LEMMA LiveStep ==
    ASSUME IInv, Explored, TreeOfDominators, Blank, TreeWalk, Intervals, LiveEdges, LiveResult, [Next]_vars
    PROVE  LiveEdges' /\ LiveResult'
  <1>1. CASE LiveTreeEnd
    <2>1. /\ pass = "live" /\ phase = "tree" /\ stack = << >> /\ pass' = "regions" /\ reachable' = seen
          /\ UNCHANGED <<targets, preorder, subtreeEnd>>
      BY <1>1 DEF LiveTreeEnd, treeVars
    <2>2. Live' = Live /\ Blocks' = Blocks /\ \A a : ReachedAvoiding({Entry}, {a})' = ReachedAvoiding({Entry}, {a})
      BY <2>1 DEF Live, ReachedAvoiding, Blocks
    <2>3. \A a, b : Within("live", a, b)' <=> Within("live", a, b)
      BY <2>1 DEF Within
    <2>4. LiveEdges'
      BY <2>1 DEF LiveEdges
    <2>5. /\ seen = Live
          /\ \A a \in Blocks, b \in Live :
                 b \notin ReachedAvoiding({Entry}, {a}) <=> a \in Live /\ Within("live", a, b)
      BY <2>1, LiveTreeExact
    <2> QED BY <2>1, <2>2, <2>3, <2>4, <2>5 DEF LiveResult
  <1>2. ASSUME UNCHANGED targets, pass' = "live" => pass = "live" /\ succs' = succs
        PROVE  LiveEdges'
    <2>1. Nodes' = Nodes /\ Blocks' = Blocks /\ \A n : Edges(n)' = Edges(n)
      BY <1>2 DEF Nodes, VirtualRoot, Blocks, Edges
    <2> QED BY <1>2, <2>1 DEF LiveEdges
  <1>3. ASSUME UNCHANGED <<targets, reachable>>, pass' = "live" <=> pass = "live",
               pass # "live" => preorder'["live"] = preorder["live"] /\ subtreeEnd'["live"] = subtreeEnd["live"]
        PROVE  LiveResult'
    <2>1. Live' = Live /\ Blocks' = Blocks /\ \A a : ReachedAvoiding({Entry}, {a})' = ReachedAvoiding({Entry}, {a})
      BY <1>3 DEF Live, ReachedAvoiding, Blocks
    <2>2. pass # "live" => \A a, b : Within("live", a, b)' <=> Within("live", a, b)
      BY <1>3 DEF Within
    <2> SUFFICES ASSUME pass # "live" PROVE LiveResult'
      BY <1>3 DEF LiveResult
    <2>3. /\ reachable = Live
          /\ \A a \in Blocks, b \in Live :
                b \notin ReachedAvoiding({Entry}, {a}) <=> a \in Live /\ Within("live", a, b)
      BY DEF LiveResult
    <2> QED BY <1>3, <2>1, <2>2, <2>3 DEF LiveResult
  <1>4. CASE Visit \/ Leave \/ Ordered \/ BeginNode \/ BeginIntersect \/ RaiseFirst \/ RaiseSecond
             \/ EndIntersect \/ FinishNode \/ EndSweep \/ NextStart \/ DeadTreeEnd \/ AllOrdered
    <2>1. UNCHANGED <<targets, pass, succs, reachable, preorder, subtreeEnd>>
      BY <1>4 DEF Visit, Leave, Ordered, BeginNode, BeginIntersect, RaiseFirst, RaiseSecond,
                  EndIntersect, FinishNode, EndSweep, NextStart, DeadTreeEnd, AllOrdered, treeVars, resultVars
    <2> QED BY <1>2, <1>3, <2>1
  <1>5. CASE Collect
    <2>1. UNCHANGED <<targets, pass, succs, reachable, preorder, subtreeEnd>>
      BY <1>5 DEF Collect, treeVars
    <2> QED BY <1>2, <1>3, <2>1
  <1>6. CASE BeginDead
    <2>1. /\ pass' = "dead" /\ phase = "components"
          /\ UNCHANGED <<targets, reachable, preorder, subtreeEnd>>
      BY <1>6 DEF BeginDead, treeVars, resultVars
    <2>2. pass = "regions"
      BY <2>1 DEF Blank
    <2> QED BY <1>2, <1>3, <2>1, <2>2
  <1>7. CASE SweepsEnd \/ NumberChild \/ NumberEnd
    <2>1. /\ UNCHANGED <<targets, pass, succs, reachable>>
          /\ \A p \in Passes : p # pass => preorder'[p] = preorder[p] /\ subtreeEnd'[p] = subtreeEnd[p]
      <3>1. preorder \in [Passes -> [Nodes -> Nat]] /\ subtreeEnd \in [Passes -> [Nodes -> Nat]]
        BY DEF Blank
      <3> QED BY <1>7, <3>1 DEF SweepsEnd, NumberChild, NumberEnd, resultVars
    <2>2. pass # "live" => preorder'["live"] = preorder["live"] /\ subtreeEnd'["live"] = subtreeEnd["live"]
      BY <2>1 DEF Passes
    <2> QED BY <1>2, <1>3, <2>1, <2>2
  <1>8. CASE Done \/ UNCHANGED vars
    <2>1. UNCHANGED <<targets, pass, succs, reachable, preorder, subtreeEnd>>
      BY <1>8 DEF Done, vars, treeVars, resultVars
    <2> QED BY <1>2, <1>3, <2>1
  <1> QED BY <1>1, <1>4, <1>5, <1>6, <1>7, <1>8 DEF Next

-----------------------------------------------------------------------------
(* The invariant as a whole: it holds at first, and every step keeps it.    *)
LEMMA DomInvInit == Init /\ IInv => DomInv
  <1> SUFFICES ASSUME Init, IInv PROVE DomInv
    OBVIOUS
  <1>1. /\ pass = "live" /\ phase = "order" /\ stack = <<Enter(Entry)>> /\ seen = {Entry}
        /\ postorder = [n \in Nodes |-> 0]
        /\ succs = [n \in Nodes |-> IF n \in Blocks THEN Edges(n) ELSE << >>]
        /\ preorder = [p \in Passes |-> [n \in Nodes |-> None]]
        /\ subtreeEnd = [p \in Passes |-> [n \in Nodes |-> None]]
    BY DEF Init
  <1>2. Root = Entry /\ Root \in Nodes /\ Edged(Nodes, succs)
    BY <1>1, Terms DEF Root
  <1>3. Entry \in Walked(succs, {Root}, {})
    <2>1. {Root} \subseteq Nodes
      BY <1>2
    <2>2. {Root} \ {} \subseteq Walked(succs, {Root}, {})
      BY <1>2, <2>1, WalkedFacts
    <2> QED BY <1>2, <2>2
  <1>4. DOMAIN stack = {1} /\ stack[1].node = Entry /\ stack[1].done = 0
    BY <1>1 DEF Enter
  <1>5. Explored
    <2>1. \A n \in seen : OnStack(n)
      BY <1>1, <1>4 DEF OnStack
    <2>2. \A n \in Nodes : ~(postorder[n] > 0)
      BY <1>1
    <2>3. \A i \in DOMAIN stack : \A k \in 1..stack[i].done : FALSE
      BY <1>4
    <2> QED BY <1>1, <1>2, <1>3, <2>1, <2>2, <2>3 DEF Explored
  <1>6. Blank
    BY <1>1 DEF Blank, None
  <1>7. ~Sweeping /\ phase # "tree"
    BY <1>1 DEF Sweeping
  <1>8. LiveEdges /\ LiveResult
    BY <1>1 DEF LiveEdges, LiveResult
  <1> QED BY <1>5, <1>6, <1>7, <1>8 DEF DomInv, Reached, NoneLost, Meeting, Stable, TreeOfDominators, TreeWalk, Intervals

(* Every step keeps the invariant.                                          *)
LEMMA DomInvStep ==
    ASSUME IInv, IInv', DomInv, [Next]_vars
    PROVE  DomInv'
  <1>1. /\ Explored /\ SweepDominance /\ TreeOfDominators /\ Blank /\ TreeWalk /\ Intervals
        /\ LiveEdges /\ LiveResult
    BY DEF DomInv, SweepDominance
  <1>2. Explored' /\ SweepDominance'
    BY <1>1, ExploredStep, SweepDominanceStep
  <1>3. TreeOfDominators' /\ Blank'
    BY <1>1, TreeStep, BlankStep
  <1>4. TreeWalk' /\ Intervals'
    BY <1>1, <1>3, WalkStep
  <1>5. LiveEdges' /\ LiveResult'
    BY <1>1, LiveStep
  <1> QED BY <1>2, <1>3, <1>4, <1>5 DEF DomInv, SweepDominance

(* The frontier.  The ancestors of a node are a line.                       *)
LEMMA AboveLine ==
    ASSUME NEW N, NEW link, Linked(N, link), NEW n \in N, NEW a \in Above(link, n)
    PROVE  \A m \in Above(link, n) : m \in Above(link, a) \/ a \in Above(link, m)
  <1>1. a \in N /\ Above(link, n) \subseteq N
    BY AboveFacts
  <1> DEFINE S == {m \in N : m \in Above(link, a) \/ a \in Above(link, m)}
  <1>2. S \in SUBSET N /\ n \in S
    OBVIOUS
  <1>3. ASSUME NEW m \in S, link[m] # None
        PROVE  link[m] \in S
    <2>1. m \in N /\ link[m] \in N
      BY <1>3 DEF Linked
    <2>2. a \in Above(link, a) /\ UpClosed(link, Above(link, a))
      BY <1>1, AboveFacts
    <2>3. CASE m \in Above(link, a)
      BY <1>3, <2>1, <2>2, <2>3 DEF UpClosed
    <2>4. CASE m \notin Above(link, a)
      <3>1. Above(link, m) = {m} \cup Above(link, link[m])
        BY <1>3, <2>1, AboveSteps
      <3> QED BY <2>1, <2>2, <2>4, <3>1
    <2> QED BY <2>3, <2>4
  <1>4. UpClosed(link, S)
    BY <1>3 DEF UpClosed
  <1> HIDE DEF S
  <1>5. Above(link, n) \subseteq S
    BY <1>2, <1>4, AboveFacts
  <1> QED BY <1>5 DEF S

(* The walk of compute_frontier, from a node to its stop.                   *)
LEMMA ChainFacts ==
    ASSUME WellFormed(targets), \A c \in Blocks : idom[c] \in Blocks \cup {None},
           NEW n \in Blocks, NEW stop
    PROVE  /\ {n} \ {stop} \subseteq Chain(n, stop) /\ Chain(n, stop) \subseteq Blocks
           /\ \A c \in Chain(n, stop) : idom[c] \notin {stop, None} => idom[c] \in Chain(n, stop)
           /\ \A S : {n} \ {stop} \subseteq S
                      /\ (\A c \in S \cap Blocks : idom[c] \notin {stop, None} => idom[c] \in S)
                    => Chain(n, stop) \subseteq S
  <1> DEFINE N == Len(targets)
             A == {n} \ {stop}
             More(X) == X \cup ({idom[m] : m \in X} \ {stop, None})
             R == [c \in Blocks |-> {idom[c]} \ {stop, None}]
             Step(s) == [k \in 0..N |-> IF k = 0 THEN A ELSE More(s[k - 1])]
  <1>1. N \in Nat /\ IsFiniteSet(Blocks) /\ Cardinality(Blocks) <= N
    BY BlocksCounted
  <1>2. R \in [Blocks -> SUBSET Blocks] /\ A \in SUBSET Blocks
    OBVIOUS
  <1>3. ASSUME NEW X \in SUBSET Blocks
        PROVE  Spread(R, X) = More(X)
    <2>1. \A c \in X : R[c] = {idom[c]} \ {stop, None}
      OBVIOUS
    <2> HIDE DEF R
    <2> QED BY <2>1 DEF Spread
  <1>4. PICK g \in [0..N -> SUBSET Blocks] : SpreadsTo(g, N, R, A)
    <2> HIDE DEF N, R, A
    <2> QED BY <1>1, <1>2, SpreadExists
  <1>5. g = Step(g)
    <2>1. \A i \in 0..N : i = 0 \/ (i \in 1..N /\ i - 1 \in 0..N /\ i # 0)
      BY <1>1
    <2>2. \A i \in 1..N : g[i] = Spread(R, g[i - 1])
      BY <1>4 DEF SpreadsTo
    <2>3. g[0] = A
      <3> HIDE DEF A
      <3> QED BY <1>4 DEF SpreadsTo
    <2> HIDE DEF N, R, More, A
    <2>4. \A i \in 0..N : g[i] = IF i = 0 THEN A ELSE More(g[i - 1])
      BY <1>3, <2>1, <2>2, <2>3
    <2> QED BY <2>4
  <1> DEFINE step == CHOOSE s : s = Step(s)
  <1>6. step = Step(step)
    <2> HIDE DEF Step
    <2> QED BY <1>5
  <1>7. Chain(n, stop) = step[N]
    BY DEF Chain
  <1> HIDE DEF step
  <1>8. step[0] = A /\ \A i \in 1..N : step[i] = More(step[i - 1])
    <2>1. \A i \in 0..N : step[i] = IF i = 0 THEN A ELSE More(step[i - 1])
      <3> HIDE DEF More, N, A
      <3> QED BY <1>6
    <2>2. 0 \in 0..N /\ \A i \in 1..N : i \in 0..N /\ i # 0
      BY <1>1
    <2> HIDE DEF More, N, A
    <2> QED BY <2>1, <2>2
  <1>9. SpreadsTo(step, N, R, A)
    <2> DEFINE I == SUBSET Blocks
    <2>1. \A X \in I : More(X) \in I
      OBVIOUS
    <2>2. step[0] \in I
      BY <1>8
    <2>3. \A i \in 0..N : step[i] \in I
      <3>1. \A i \in 1..N : step[i - 1] \in I => step[i] \in I
        <4> HIDE DEF More, N, I
        <4> QED BY <1>8, <2>1
      <3> HIDE DEF I, N, More
      <3> QED BY <1>1, <2>2, <3>1, IterationKeeps
    <2>4. \A i \in 1..N : i - 1 \in 0..N
      BY <1>1
    <2> HIDE DEF N, R, More, A
    <2> QED BY <1>3, <1>8, <2>3, <2>4 DEF SpreadsTo
  <1>10. /\ A \subseteq step[N] /\ step[N] \subseteq Blocks
         /\ ClosedUnder(R, step[N])
    <2> HIDE DEF N, R, A
    <2> QED BY <1>1, <1>2, <1>9, SpreadFacts
  <1>11. \A c \in step[N] : idom[c] \notin {stop, None} => idom[c] \in step[N]
    BY <1>10 DEF ClosedUnder
  <1>12. ASSUME NEW S, A \subseteq S, \A c \in S \cap Blocks : idom[c] \notin {stop, None} => idom[c] \in S
         PROVE  step[N] \subseteq S
    <2>1. StaysIn(S, Blocks, R, A)
      BY <1>12 DEF StaysIn
    <2> HIDE DEF N, R, A
    <2> QED BY <1>1, <1>2, <1>9, <2>1, SpreadLeast
  <1> HIDE DEF N, More, Step, R
  <1> QED BY <1>7, <1>10, <1>11, <1>12

(* The walk visits the ancestors below the stop.                            *)
LEMMA ChainIsSegment ==
    ASSUME WellFormed(targets), \A c \in Blocks : idom[c] \in Blocks \cup {None},
           Linked(Nodes, idom), NEW order \in [Nodes -> Nat], Climbing(idom, order, Root), Root \in Nodes,
           NEW n \in Blocks, NEW stop \in Above(idom, n)
    PROVE  Chain(n, stop) = Above(idom, n) \ Above(idom, stop)
  <1>1. /\ n \in Nodes /\ Blocks \subseteq Nodes /\ None \notin Nodes
        /\ n \in Above(idom, n) /\ Above(idom, n) \subseteq Nodes /\ UpClosed(idom, Above(idom, n))
    BY BlockFacts, AboveFacts DEF Linked
  <1>2. stop \in Nodes /\ stop \in Above(idom, stop) /\ UpClosed(idom, Above(idom, stop))
    BY <1>1, AboveFacts
  <1>3. \A m \in Above(idom, stop) : m = stop \/ order[m] > order[stop]
    BY <1>2, AboveIsHigher
  <1>4. /\ {n} \ {stop} \subseteq Chain(n, stop) /\ Chain(n, stop) \subseteq Blocks
        /\ \A c \in Chain(n, stop) : idom[c] \notin {stop, None} => idom[c] \in Chain(n, stop)
        /\ \A S : {n} \ {stop} \subseteq S
                   /\ (\A c \in S \cap Blocks : idom[c] \notin {stop, None} => idom[c] \in S)
                 => Chain(n, stop) \subseteq S
    BY ChainFacts
  <1>5. Chain(n, stop) \subseteq Above(idom, n) \ Above(idom, stop)
    <2> DEFINE S == Above(idom, n) \ Above(idom, stop)
    <2>1. {n} \ {stop} \subseteq S
      <3> SUFFICES ASSUME n # stop PROVE n \notin Above(idom, stop)
        BY <1>1
      <3>1. order[stop] > order[n]
        BY <1>1, AboveIsHigher
      <3>2. order[n] \in Nat /\ order[stop] \in Nat
        BY <1>1, <1>2
      <3> QED BY <1>3, <3>1, <3>2
    <2>2. ASSUME NEW c \in S, idom[c] # None, idom[c] # stop
          PROVE  idom[c] \in S
      <3>1. c \in Nodes /\ idom[c] \in Above(idom, n) /\ idom[c] \in Nodes
        BY <1>1, <2>2 DEF UpClosed
      <3>2. stop \in Above(idom, c)
        BY <1>1, <2>2, AboveLine
      <3>3. Above(idom, c) = {c} \cup Above(idom, idom[c])
        BY <2>2, <3>1, AboveSteps
      <3>4. c # stop
        BY <1>2, <2>2
      <3>5. order[stop] > order[idom[c]]
        <4>1. stop \in Above(idom, idom[c])
          BY <3>2, <3>3, <3>4
        <4> QED BY <2>2, <3>1, <4>1, AboveIsHigher
      <3>6. order[stop] \in Nat /\ order[idom[c]] \in Nat
        BY <1>2, <3>1
      <3> QED BY <1>3, <2>2, <3>1, <3>5, <3>6
    <2> HIDE DEF S
    <2>3. \A c \in S \cap Blocks : idom[c] \notin {stop, None} => idom[c] \in S
      BY <2>2
    <2> QED BY <1>4, <2>1, <2>3 DEF S
  <1>6. Above(idom, n) \subseteq Chain(n, stop) \cup Above(idom, stop)
    <2> DEFINE T == Chain(n, stop) \cup Above(idom, stop)
    <2>1. T \in SUBSET Nodes /\ n \in T
      BY <1>1, <1>2, <1>4, AboveFacts
    <2>2. ASSUME NEW c \in T, idom[c] # None
          PROVE  idom[c] \in T
      <3>1. CASE c \in Above(idom, stop)
        BY <1>2, <2>2, <3>1 DEF UpClosed
      <3>2. CASE c \in Chain(n, stop)
        BY <1>2, <1>4, <2>2, <3>2
      <3> QED BY <3>1, <3>2
    <2>3. UpClosed(idom, T)
      BY <2>2 DEF UpClosed
    <2> HIDE DEF T
    <2>4. Above(idom, n) \subseteq T
      BY <1>1, <2>1, <2>3, AboveFacts
    <2> QED BY <2>4 DEF T
  <1> QED BY <1>5, <1>6

(* A reached node that is not the root has a predecessor besides itself,    *)
(* and one that is its only predecessor dominates it.                       *)
EntersFrom(e, r, j, p) == \A c \in Walked(e, {r}, {}) : j \in Elements(e[c]) => c = p

(* A node that is entered from one predecessor only is dominated by it.     *)
LEMMA OnlyPredecessor ==
    ASSUME NEW N, NEW e, Edged(N, e), NEW r \in N, NEW j \in N, j # r, j \in Walked(e, {r}, {}),
           NEW p \in N, EntersFrom(e, r, j, p)
    PROVE  p # j /\ j \notin Walked(e, {r}, {p})
  <1> DEFINE W == Walked(e, {r}, {})
  <1>1. {r} \subseteq N
    OBVIOUS
  <1>2. W \subseteq N /\ {r} \ {} \subseteq W /\ Onward(e, W, {})
    BY <1>1, WalkedFacts
  <1>3. p # j
    <2> SUFFICES ASSUME p = j PROVE FALSE
      OBVIOUS
    <2> DEFINE S == W \ {j}
    <2>1. S \in SUBSET N /\ {r} \ {} \subseteq S
      BY <1>2
    <2>2. Onward(e, S, {})
      BY <1>2 DEF Onward, EntersFrom
    <2>3. W \subseteq S
      <3> HIDE DEF S
      <3> QED BY ONLY Edged(N, e), <2>1, <2>2, WalkedLeast
    <2> QED BY <2>3
  <1>4. j \notin Walked(e, {r}, {p})
    <2> DEFINE S == W \ {j, p}
    <2>1. S \in SUBSET N /\ {r} \ {p} \subseteq S
      BY <1>2
    <2>2. Onward(e, S, {p})
      <3> SUFFICES ASSUME NEW c \in S, NEW s \in Elements(e[c]) \ {p} PROVE s \in S
        BY DEF Onward
      <3>1. s \in W
        BY <1>2 DEF Onward
      <3>2. s # j
        BY DEF EntersFrom
      <3> QED BY <3>1, <3>2
    <2>3. Walked(e, {r}, {p}) \subseteq S
      <3> HIDE DEF S
      <3> QED BY ONLY Edged(N, e), <2>1, <2>2, WalkedLeast
    <2> QED BY <2>3
  <1> QED BY <1>3, <1>4

(* The test for a join counts the predecessors.                             *)
LEMMA TwoAreMany ==
    ASSUME NEW S, IsFiniteSet(S), NEW p \in S, NEW q \in S, p # q
    PROVE  Cardinality(S) >= 2
  <1>1. IsFiniteSet(S \ {p}) /\ IsFiniteSet((S \ {p}) \ {q})
    BY FS_RemoveElement
  <1>2. Cardinality(S \ {p}) = Cardinality(S) - 1 /\ Cardinality((S \ {p}) \ {q}) = Cardinality(S \ {p}) - 1
    BY <1>1, FS_RemoveElement
  <1>3. Cardinality((S \ {p}) \ {q}) \in Nat /\ Cardinality(S \ {p}) \in Nat /\ Cardinality(S) \in Nat
    BY <1>1, FS_CardinalityType
  <1> QED BY <1>2, <1>3

Dominated(b) == {x \in Live : x \notin ReachedAvoiding({Entry}, {b})}
FrontierOf(b) ==
    {j \in Live :
        /\ \E p \in Live : j \in Elements(targets[p]) /\ p \in Dominated(b)
        /\ ~(j \in Dominated(b) /\ j # b)}

(* When the live tree is numbered, the walks find the ends of dominance.    *)
LEMMA FrontiersExact ==
    ASSUME IInv, Explored, TreeOfDominators, Blank, TreeWalk, Intervals, LiveEdges, EntryFirst(targets),
           pass = "live", phase = "tree", stack = << >>
    PROVE  \A b \in Live : Frontiers[b] = FrontierOf(b)
  <1>1. /\ Edged(Nodes, succs) /\ Linked(Nodes, idom) /\ Root \in Nodes /\ postorder \in [Nodes -> Nat]
        /\ Root = Entry /\ WellFormed(targets) /\ seen \subseteq Nodes /\ DOMAIN succs = Nodes
        /\ Blocks \subseteq Nodes /\ Entry \in Blocks
    <2>1. Edged(Nodes, succs) /\ Linked(Nodes, idom) /\ Root \in Nodes /\ postorder \in [Nodes -> Nat]
      BY Terms
    <2>2. WellFormed(targets) /\ seen \subseteq Nodes
      BY DEF IInv, Typed
    <2>3. Blocks \subseteq Nodes /\ Entry \in Blocks
      BY <2>2, BlockFacts DEF Entry
    <2>4. Root = Entry /\ DOMAIN succs = Nodes
      BY <2>1 DEF Edged, Root
    <2> QED BY <2>1, <2>2, <2>3, <2>4
  <1>2. /\ seen = Live
        /\ \A a \in Blocks, b \in Live : b \notin ReachedAvoiding({Entry}, {a}) <=> a \in Above(idom, b)
        /\ \A b \in Live : Above(idom, b) \subseteq Live
    BY LiveTreeExact
  <1>3. Live = Walked(succs, {Root}, {}) /\ Live \subseteq Blocks
    <2>1. {Entry} \in SUBSET Blocks
      BY <1>1
    <2> QED BY <1>1, <2>1, ReachedIsWalked, ReachedAvoidingFacts DEF Live
  <1>4. /\ idom[Root] = None /\ Climbing(idom, postorder, Root)
        /\ \A n \in Live : Above(idom, n) = DomsOf(succs, Root, n)
        /\ \A n \in Nodes \ {Root} : n \in Live <=> idom[n] # None
    <2>1. \A n \in Nodes : postorder[n] > 0 <=> n \in Live
      BY <1>1, <1>2 DEF Explored, IInv, Positions
    <2> QED BY <1>1, <1>3, <2>1 DEF TreeOfDominators
  <1>5. \A c \in Blocks : idom[c] \in Blocks \cup {None}
    <2> SUFFICES ASSUME NEW c \in Blocks, idom[c] # None PROVE idom[c] \in Blocks
      OBVIOUS
    <2>1. c \in Nodes /\ c \in Live
      BY <1>1, <1>4
    <2>2. idom[c] \in Above(idom, c)
      BY <1>1, <2>1, AboveFacts DEF UpClosed
    <2> QED BY <1>2, <1>3, <2>1, <2>2
  <1>6. \A b \in Blocks : Elements(succs[b]) = Elements(targets[b])
    <2>1. \A b \in Blocks : succs[b] = Edges(b)
      BY <1>1 DEF LiveEdges
    <2> QED BY <1>1, <2>1, EdgeElements
  <1>7. \A j \in Nodes : LivePreds(j) = {p \in Live : j \in Elements(targets[p])}
    BY <1>1, <1>2, <1>3, <1>6 DEF LivePreds, Preds
  <1>8. \A b, x \in Live : x \in Dominated(b) <=> b \in Above(idom, x)
    BY <1>2, <1>3 DEF Dominated
  (* A live block other than the entry lies below its dominator, which is    *)
  (* an ancestor of each of its live predecessors.                           *)
  <1>9. ASSUME NEW j \in Live, j # Root, NEW p \in LivePreds(j)
        PROVE  /\ idom[j] \in Above(idom, p) /\ idom[j] # None
               /\ Above(idom, j) = {j} \cup Above(idom, idom[j])
               /\ j \notin Above(idom, idom[j])
               /\ Chain(p, idom[j]) = Above(idom, p) \ Above(idom, idom[j])
    <2>1. j \in Nodes /\ p \in Live /\ p \in Nodes /\ p \in Blocks /\ j \in Elements(succs[p])
      BY <1>1, <1>3, <1>6, <1>7, <1>9
    <2>2. idom[j] # None /\ idom[j] \in Nodes
      BY <1>1, <1>4, <1>9, <2>1 DEF Linked
    <2>3. Above(idom, j) = {j} \cup Above(idom, idom[j])
      BY <1>1, <2>1, <2>2, AboveSteps
    <2>4. postorder[j] < postorder[idom[j]]
      BY <1>1, <1>4, <1>9, <2>1, <2>2 DEF Climbing, Linked
    <2>5. postorder[j] \in Nat /\ postorder[idom[j]] \in Nat
      BY <1>1, <2>1, <2>2
    <2>6. \A m \in Above(idom, idom[j]) : m = idom[j] \/ postorder[m] > postorder[idom[j]]
      BY <1>1, <1>4, <2>2, AboveIsHigher
    <2>7. j \notin Above(idom, idom[j])
      BY <2>4, <2>5, <2>6
    <2>8. idom[j] \in Above(idom, idom[j])
      BY <1>1, <2>2, AboveFacts
    <2>9. DomsOf(succs, Root, j) \ {j} \subseteq DomsOf(succs, Root, p)
      BY <1>1, <2>1, DominatorFacts
    <2>10. idom[j] \in Above(idom, p)
      BY <1>4, <2>1, <2>3, <2>7, <2>8, <2>9
    <2>11. Chain(p, idom[j]) = Above(idom, p) \ Above(idom, idom[j])
      BY <1>1, <1>4, <1>5, <2>1, <2>10, ChainIsSegment
    <2> QED BY <2>2, <2>3, <2>7, <2>10, <2>11
  <1>10. ASSUME NEW b \in Live, NEW j \in Frontiers[b]
         PROVE  j \in FrontierOf(b)
    <2>1. j \in Joins /\ b \in Runners(j)
      BY <1>1, <1>3, <1>10 DEF Frontiers
    <2>2. j \in Live /\ idom[j] # None /\ j # Root
      BY <1>2, <1>4, <2>1 DEF Joins
    <2>3. PICK p \in LivePreds(j) : b \in Chain(p, idom[j])
      BY <2>1 DEF Runners
    <2>4. p \in Live /\ j \in Elements(targets[p])
      BY <1>1, <1>3, <1>7, <2>2
    <2>5. b \in Above(idom, p) /\ b \notin Above(idom, idom[j]) /\ Above(idom, j) = {j} \cup Above(idom, idom[j])
      BY <1>9, <2>2, <2>3
    <2>6. p \in Dominated(b) /\ ~(j \in Dominated(b) /\ j # b)
      BY <1>8, <2>2, <2>4, <2>5
    <2> QED BY <2>2, <2>4, <2>6 DEF FrontierOf
  <1>11. ASSUME NEW b \in Live, NEW j \in FrontierOf(b)
         PROVE  j \in Frontiers[b]
    <2>1. j \in Live /\ ~(j \in Dominated(b) /\ j # b)
      BY <1>11 DEF FrontierOf
    <2>2. PICK p \in Live : j \in Elements(targets[p]) /\ p \in Dominated(b)
      BY <1>11 DEF FrontierOf
    <2>3. /\ j \in Nodes /\ p \in Nodes /\ b \in Nodes /\ j \in Blocks /\ p \in Blocks
          /\ b \in Above(idom, p) /\ (b \in Above(idom, j) => j = b)
      BY <1>1, <1>3, <1>8, <2>1, <2>2
    <2>4. j # Root
      BY <1>1, <2>2, <2>3 DEF EntryFirst, Elements, Blocks
    <2>5. p \in LivePreds(j)
      BY <1>7, <2>2, <2>3
    <2>6. /\ idom[j] # None /\ Above(idom, j) = {j} \cup Above(idom, idom[j])
          /\ j \notin Above(idom, idom[j])
          /\ Chain(p, idom[j]) = Above(idom, p) \ Above(idom, idom[j])
      BY <1>9, <2>1, <2>4, <2>5
    <2>7. b \in Chain(p, idom[j])
      BY <2>3, <2>6
    <2>8. b \in Runners(j)
      BY <2>5, <2>7 DEF Runners
    <2>9. PICK q \in LivePreds(j) : q # p
      <3> SUFFICES ASSUME \A q \in LivePreds(j) : q = p PROVE FALSE
        OBVIOUS
      <3>1. EntersFrom(succs, Root, j, p) /\ j \in Walked(succs, {Root}, {})
        BY <1>3, <1>6, <1>7, <2>1, <2>3 DEF EntersFrom
      <3>2. p # j /\ j \notin Walked(succs, {Root}, {p})
        BY ONLY <1>1, <1>3, <2>1, <2>3, <2>4, <3>1, OnlyPredecessor
      <3>3. p \in Above(idom, j)
        BY <1>1, <1>4, <2>1, <2>3, <3>2 DEF DomsOf
      <3>4. b \in Above(idom, j) /\ b = j
        BY <1>1, <2>3, <3>3, AboveSteps
      <3>5. postorder[p] > postorder[j] /\ postorder[j] > postorder[p]
        BY <1>1, <1>4, <2>3, <3>2, <3>3, <3>4, AboveIsHigher
      <3>6. postorder[p] \in Nat /\ postorder[j] \in Nat
        BY <1>1, <2>3
      <3> QED BY <3>5, <3>6
    <2>10. Cardinality(LivePreds(j)) >= 2
      <3>1. IsFiniteSet(Blocks) /\ LivePreds(j) \in SUBSET Blocks
        BY <1>1, <1>3, <1>7, <2>3, BlocksCounted
      <3>2. IsFiniteSet(LivePreds(j))
        BY <3>1, FS_Subset
      <3> QED BY <2>5, <2>9, <3>2, TwoAreMany
    <2>11. j \in Joins
      BY <1>2, <2>1, <2>3, <2>6, <2>10 DEF Joins
    <2> QED BY <2>3, <2>8, <2>11 DEF Frontiers
  <1> QED BY <1>10, <1>11

(* The frontiers, from the live pass on.                                    *)
FrontierResult ==
    /\ targets \in Graphs
    /\ pass # "live" => \A b \in Live : frontier[b] = FrontierOf(b)

(* The frontiers stay exact while the dead code is analysed.                *)
LEMMA FrontierStep ==
    ASSUME IInv, DomInv, FrontierResult, [Next]_vars
    PROVE  FrontierResult'
  <1>1. UNCHANGED targets => /\ Live' = Live
                             /\ \A b : FrontierOf(b)' = FrontierOf(b)
    <2> SUFFICES ASSUME UNCHANGED targets
                 PROVE  Live' = Live /\ \A b : FrontierOf(b)' = FrontierOf(b)
      OBVIOUS
    <2>1. Live' = Live /\ \A b : ReachedAvoiding({Entry}, {b})' = ReachedAvoiding({Entry}, {b})
      BY DEF Live, ReachedAvoiding
    <2>2. \A b : Dominated(b)' = Dominated(b)
      BY <2>1 DEF Dominated
    <2> QED BY <2>1, <2>2 DEF FrontierOf
  <1>2. CASE LiveTreeEnd
    <2>1. /\ pass = "live" /\ phase = "tree" /\ stack = << >> /\ frontier' = Frontiers
          /\ UNCHANGED targets
      BY <1>2 DEF LiveTreeEnd
    <2>2. EntryFirst(targets)
      BY EntryAssumption DEF FrontierResult
    <2>3. \A b \in Live : Frontiers[b] = FrontierOf(b)
      BY <2>1, <2>2, FrontiersExact DEF DomInv
    <2> QED BY <1>1, <2>1, <2>3 DEF FrontierResult
  <1>3. ASSUME UNCHANGED <<targets, frontier>>, pass' = "live" <=> pass = "live"
        PROVE  FrontierResult'
    BY <1>1, <1>3 DEF FrontierResult
  <1>4. CASE Visit \/ Leave \/ Ordered \/ BeginNode \/ BeginIntersect \/ RaiseFirst \/ RaiseSecond
             \/ EndIntersect \/ FinishNode \/ EndSweep \/ SweepsEnd
    <2>1. UNCHANGED <<targets, pass, frontier>>
      BY <1>4 DEF Visit, Leave, Ordered, BeginNode, BeginIntersect, RaiseFirst, RaiseSecond,
                  EndIntersect, FinishNode, EndSweep, SweepsEnd, resultVars
    <2> QED BY <1>3, <2>1
  <1>5. CASE NumberChild \/ NumberEnd \/ NextStart \/ DeadTreeEnd \/ AllOrdered \/ Collect
    <2>1. UNCHANGED <<targets, pass, frontier>>
      BY <1>5 DEF NumberChild, NumberEnd, NextStart, DeadTreeEnd, AllOrdered, Collect, resultVars
    <2> QED BY <1>3, <2>1
  <1>6. CASE BeginDead
    <2>1. pass' = "dead" /\ phase = "components" /\ UNCHANGED <<targets, frontier>>
      BY <1>6 DEF BeginDead, resultVars
    <2>2. pass = "regions"
      BY <2>1 DEF DomInv, Blank
    <2> QED BY <1>3, <2>1, <2>2
  <1>7. CASE Done \/ UNCHANGED vars
    <2>1. UNCHANGED <<targets, pass, frontier>>
      BY <1>7 DEF Done, vars, resultVars
    <2> QED BY <1>3, <2>1
  <1> QED BY <1>2, <1>4, <1>5, <1>6, <1>7 DEF Next

(* What is known of the finished analysis suffices for its answers.         *)
LEMMA DominatesFromInvariant ==
    ASSUME IInv, DomInv
    PROVE  DominatesExact
  <1> SUFFICES ASSUME phase = "done", NEW a \in Blocks, NEW b \in Blocks
               PROVE  Dominates(a, b) <=> IF b \in Live THEN b \notin ReachedAvoiding({Entry}, {a}) ELSE a = b
    BY DEF DominatesExact
  <1>1. /\ reachable = Live
        /\ \A c \in Blocks, d \in Live :
              d \notin ReachedAvoiding({Entry}, {c}) <=> c \in Live /\ Within("live", c, d)
    BY DEF DomInv, Blank, LiveResult
  <1> QED BY <1>1 DEF Dominates

(* The same for the frontiers.                                              *)
LEMMA FrontierFromInvariant ==
    ASSUME IInv, DomInv, FrontierResult
    PROVE  FrontierExact
  <1> DEFINE dom == [a \in Blocks |-> {b \in Live : b \notin ReachedAvoiding({Entry}, {a})}]
  <1> SUFFICES ASSUME phase = "done", NEW b \in Live
               PROVE  frontier[b] = {j \in Live :
                          /\ \E p \in Live : j \in Elements(targets[p]) /\ p \in dom[b]
                          /\ ~(j \in dom[b] /\ j # b)}
    BY DEF FrontierExact
  <1>1. frontier[b] = FrontierOf(b)
    BY DEF DomInv, Blank, FrontierResult
  <1>2. b \in Blocks
    <2>1. WellFormed(targets) /\ {Entry} \in SUBSET Blocks
      BY BlockFacts DEF IInv, Typed, Entry
    <2> QED BY <2>1, ReachedAvoidingFacts DEF Live
  <1>3. dom[b] = Dominated(b)
    BY <1>2 DEF Dominated
  <1> HIDE DEF dom
  <1> QED BY <1>1, <1>3 DEF FrontierOf

(* dominates answers exactly whether every path from the entry to b passes  *)
(* a, on every graph: the sweeps of compute_idoms stop only at the tree of  *)
(* dominators, and the intervals of compute_tree_intervals are its subtrees.*)
THEOREM DominanceIsExact == Spec => []DominatesExact
  <1>1. Init /\ IInv => DomInv
    BY DomInvInit
  <1>2. IInv /\ IInv' /\ DomInv /\ [Next]_vars => DomInv'
    BY DomInvStep
  <1>3. IInv /\ DomInv => DominatesExact
    BY DominatesFromInvariant
  <1> QED
    BY <1>1, <1>2, <1>3, Invariance, PTL DEF Spec

(* compute_frontier finds exactly the joins where dominance ends, which phi *)
(* placement relies on: for every graph whose entry has no predecessor, as  *)
(* the verifier demands.                                                    *)
THEOREM FrontiersAreExact == Spec => []FrontierExact
  <1>1. Init /\ IInv => DomInv
    BY DomInvInit
  <1>2. IInv /\ IInv' /\ DomInv /\ [Next]_vars => DomInv'
    BY DomInvStep
  <1>3. Init => FrontierResult
    BY DEF Init, FrontierResult
  <1>4. IInv /\ DomInv /\ FrontierResult /\ [Next]_vars => FrontierResult'
    BY FrontierStep
  <1>5. IInv /\ DomInv /\ FrontierResult => FrontierExact
    BY FrontierFromInvariant
  <1> QED
    BY <1>1, <1>2, <1>3, <1>4, <1>5, Invariance, PTL DEF Spec

-----------------------------------------------------------------------------
(* The dead part: what its blocks reach, and which reach each other.        *)
From(e, n) == Walked(e, {n}, {})
Mutual(e, m, n) == m \in From(e, n) /\ n \in From(e, m)

(* What a node reaches is the least set with the node that no edge leaves.  *)
LEMMA FromFacts ==
    ASSUME NEW N, NEW e, Edged(N, e), NEW n \in N
    PROVE  /\ n \in From(e, n) /\ From(e, n) \subseteq N
           /\ \A x \in From(e, n) : From(e, x) \subseteq From(e, n)
           /\ \A x \in From(e, n) : Elements(e[x]) \subseteq From(e, n)
           /\ \A S : n \in S /\ (\A x \in S \cap N : Elements(e[x]) \subseteq S) => From(e, n) \subseteq S
  <1>1. {n} \subseteq N
    OBVIOUS
  <1>2. From(e, n) \subseteq N /\ {n} \ {} \subseteq From(e, n) /\ Onward(e, From(e, n), {})
    BY <1>1, WalkedFacts DEF From
  <1>3. \A x \in From(e, n) : From(e, x) \subseteq From(e, n)
    <2> SUFFICES ASSUME NEW x \in Walked(e, {n}, {}) PROVE Walked(e, {x}, {}) \subseteq Walked(e, {n}, {})
      BY DEF From
    <2> QED BY <1>1, WalkedOn
  <1>4. ASSUME NEW S, n \in S, \A x \in S \cap N : Elements(e[x]) \subseteq S
        PROVE  From(e, n) \subseteq S
    <2> DEFINE T == S \cap N
    <2>1. \A x \in N : Elements(e[x]) \subseteq N
      BY DEF Edged, Elements
    <2>2. Onward(e, T, {})
      BY <1>4, <2>1 DEF Onward
    <2>3. T \in SUBSET N /\ {n} \ {} \subseteq T
      BY <1>4
    <2> HIDE DEF T
    <2>4. From(e, n) \subseteq T
      BY <2>2, <2>3, WalkedLeast DEF From
    <2> QED BY <2>4 DEF T
  <1>5. \A x \in From(e, n) : Elements(e[x]) \subseteq From(e, n)
    BY <1>2 DEF Onward
  <1> QED BY <1>2, <1>3, <1>4, <1>5

(* To reach is transitive, to reach each other an equivalence.              *)
LEMMA MutualFacts ==
    ASSUME NEW N, NEW e, Edged(N, e)
    PROVE  /\ \A n \in N : Mutual(e, n, n)
           /\ \A l, m, n \in N : l \in From(e, m) /\ m \in From(e, n) => l \in From(e, n)
           /\ \A m, n \in N : Mutual(e, m, n) => Mutual(e, n, m)
           /\ \A l, m, n \in N : Mutual(e, l, m) /\ Mutual(e, m, n) => Mutual(e, l, n)
  <1>1. \A n \in N : n \in From(e, n) /\ \A x \in From(e, n) : From(e, x) \subseteq From(e, n)
    BY FromFacts
  <1>2. \A l, m, n \in N : l \in From(e, m) /\ m \in From(e, n) => l \in From(e, n)
    BY <1>1
  <1> QED BY <1>1, <1>2 DEF Mutual

(* Of the edges of a dead block those to dead blocks are kept.              *)
LEMMA DeadSuccElements ==
    ASSUME WellFormed(targets), NEW b \in Blocks, NEW live
    PROVE  Elements(DeadSuccs(b, live)) = Elements(targets[b]) \ live
  <1> DEFINE all == Elements(Edges(b))
             kept == all \ live
  <1>1. all = Elements(targets[b])
    BY EdgeElements
  <1>2. CASE kept = all
    <2>1. DeadSuccs(b, live) = Edges(b)
      BY <1>2 DEF DeadSuccs
    <2> QED BY <1>1, <1>2, <2>1
  <1>3. CASE kept # all /\ kept = {}
    <2>1. DeadSuccs(b, live) = << >>
      BY <1>3 DEF DeadSuccs
    <2>2. Elements(<< >>) = {}
      BY DEF Elements
    <2> QED BY <1>1, <1>3, <2>1, <2>2
  <1>4. CASE kept # all /\ kept # {}
    <2> DEFINE s == CHOOSE s \in kept : TRUE
    <2>1. DeadSuccs(b, live) = <<s>>
      BY <1>4 DEF DeadSuccs
    <2>2. s \in kept
      BY <1>4
    <2>3. PICK x \in all : x \in live
      BY <1>4
    <2>4. \E y : all \subseteq {x, y}
      <3>1. targets[b] \in Seq(Nat) /\ Len(targets[b]) <= 2
        BY DEF WellFormed, Blocks
      <3>2. DOMAIN targets[b] \subseteq {1, 2}
        BY <3>1
      <3>3. Elements(targets[b]) \subseteq {targets[b][1], targets[b][2]}
        BY <3>2 DEF Elements
      <3> QED BY <1>1, <2>3, <3>3
    <2> HIDE DEF s, all
    <2>5. kept = {s}
      BY <2>2, <2>3, <2>4
    <2>6. Elements(<<s>>) = {s}
      <3>1. DOMAIN <<s>> = {1} /\ <<s>>[1] = s
        OBVIOUS
      <3> QED BY <3>1 DEF Elements
    <2> QED BY <1>1, <2>1, <2>5, <2>6
  <1> QED BY <1>2, <1>3, <1>4

(* The dead blocks, and edges that are those between them.                  *)
Dead == Blocks \ Live
DeadEdged(e) ==
    \A n \in Blocks : Elements(e[n]) = IF n \in Live THEN {} ELSE Elements(targets[n]) \ Live

LEMMA DeadFacts ==
    ASSUME WellFormed(targets)
    PROVE  /\ Live \subseteq Blocks /\ Dead \subseteq Blocks /\ Blocks \subseteq Nodes
           /\ VirtualRoot \in Nodes /\ VirtualRoot \notin Blocks /\ Nodes = Blocks \cup {VirtualRoot}
           /\ \A b \in Blocks : Elements(targets[b]) \subseteq Blocks
           /\ \A b \in Live : Elements(targets[b]) \subseteq Live
           /\ Live \cap Dead = {} /\ Blocks = Live \cup Dead
  <1> DEFINE N == Len(targets)
  <1>1. N \in Nat /\ N > 0 /\ Blocks = 1..N /\ Nodes = 1..(N + 1) /\ VirtualRoot = N + 1
    BY BlockFacts DEF Nodes, VirtualRoot
  <1> HIDE DEF N
  <1>2. VirtualRoot \in Nodes /\ VirtualRoot \notin Blocks /\ Nodes = Blocks \cup {VirtualRoot}
    BY <1>1
  <1>3. {Entry} \in SUBSET Blocks
    BY <1>1 DEF Entry
  <1>4. Live \subseteq Blocks /\ \A b \in Live : Elements(targets[b]) \ {} \subseteq Live
    BY <1>3, ReachedAvoidingFacts DEF Live
  <1>5. \A b \in Blocks : Elements(targets[b]) \subseteq Blocks
    BY DEF WellFormed, Elements, Blocks
  <1> QED BY <1>2, <1>4, <1>5 DEF Dead

(* Along such edges dead blocks reach dead blocks, and the same ones that   *)
(* the targets reach.                                                       *)
LEMMA DeadWalks ==
    ASSUME WellFormed(targets), NEW e, Edged(Nodes, e), DeadEdged(e),
           NEW A, A \subseteq Dead, NEW X
    PROVE  /\ Walked(e, A, X) \subseteq Dead
           /\ \A c \in Dead : c \in Walked(e, A, X) <=> c \in ReachedAvoiding(A, X)
  <1>1. /\ Live \subseteq Blocks /\ Dead \subseteq Blocks /\ Blocks \subseteq Nodes
        /\ Live \cap Dead = {} /\ Blocks = Live \cup Dead
        /\ \A b \in Blocks : Elements(targets[b]) \subseteq Blocks
        /\ \A b \in Live : Elements(targets[b]) \subseteq Live
    BY DeadFacts
  <1>2. /\ \A n \in Dead : Elements(e[n]) = Elements(targets[n]) \ Live
        /\ \A n \in Live : Elements(e[n]) = {}
    BY <1>1 DEF DeadEdged
  <1>3. \A n \in Dead : Elements(e[n]) \subseteq Dead
    BY <1>1, <1>2
  <1> DEFINE W == Walked(e, A, X)
             R == ReachedAvoiding(A, X)
  <1>4. A \subseteq Nodes /\ A \in SUBSET Blocks
    BY <1>1
  <1>5. /\ A \ X \subseteq R /\ R \subseteq Blocks /\ \A c \in R : Elements(targets[c]) \ X \subseteq R
        /\ \A S : A \ X \subseteq S /\ (\A c \in S \cap Blocks : Elements(targets[c]) \ X \subseteq S)
                    => R \subseteq S
    BY ONLY WellFormed(targets), <1>4, ReachedAvoidingFacts
  <1>6. W \subseteq Nodes /\ A \ X \subseteq W /\ Onward(e, W, X)
    BY ONLY Edged(Nodes, e), <1>4, WalkedFacts
  <1>7. W \subseteq Dead
    <2>1. Onward(e, Dead, X) /\ Dead \in SUBSET Nodes /\ A \ X \subseteq Dead
      BY <1>1, <1>3 DEF Onward
    <2> QED BY ONLY Edged(Nodes, e), <2>1, WalkedLeast
  <1> HIDE DEF W, R
  <1>8. R \subseteq W \cup Live
    <2>1. \A c \in (W \cup Live) \cap Blocks : Elements(targets[c]) \ X \subseteq W \cup Live
      BY <1>1, <1>2, <1>6, <1>7 DEF Onward
    <2>2. A \ X \subseteq W \cup Live
      BY <1>6
    <2> QED BY <1>5, <2>1, <2>2
  <1>9. W \subseteq R
    <2>1. \A c \in R : Elements(e[c]) \ X \subseteq R
      <3>1. \A c \in R : c \in Live \/ c \in Dead
        BY <1>1, <1>5
      <3> QED BY <1>2, <1>5, <3>1
    <2>2. Onward(e, R, X) /\ R \in SUBSET Nodes /\ A \ X \subseteq R
      BY <1>1, <1>5, <2>1 DEF Onward
    <2> QED BY ONLY Edged(Nodes, e), <2>2, WalkedLeast DEF W
  <1> QED BY <1>1, <1>7, <1>8, <1>9 DEF W, R

(* With the virtual root before them, the walks from there are those from   *)
(* its successors.                                                          *)
LEMMA RootedWalks ==
    ASSUME NEW N, NEW e, Edged(N, e), NEW r \in N, NEW X, r \notin X,
           NEW A, A = Elements(e[r])
    PROVE  Walked(e, {r}, X) = {r} \cup Walked(e, A, X)
  <1>1. A \subseteq N /\ {r} \subseteq N /\ \A c \in N : Elements(e[c]) \subseteq N
    BY DEF Edged, Elements
  <1> DEFINE V == Walked(e, {r}, X)
             W == Walked(e, A, X)
  <1>2. V \subseteq N /\ {r} \ X \subseteq V /\ Onward(e, V, X)
    BY <1>1, WalkedFacts
  <1>3. W \subseteq N /\ A \ X \subseteq W /\ Onward(e, W, X)
    BY <1>1, WalkedFacts
  <1> HIDE DEF V, W
  <1>4. A \ X \subseteq V
    BY <1>2 DEF Onward
  <1>5. W \subseteq V
    BY <1>2, <1>4, WalkedLeast DEF W
  <1>6. Onward(e, {r} \cup W, X) /\ {r} \cup W \in SUBSET N /\ {r} \ X \subseteq {r} \cup W
    BY <1>1, <1>3 DEF Onward
  <1>7. V \subseteq {r} \cup W
    BY ONLY Edged(N, e), <1>6, WalkedLeast DEF V
  <1> QED BY <1>2, <1>5, <1>7 DEF V, W

(* The search for regions: every pass but the live one has the dead edges,  *)
(* and the search has entered the live blocks before it starts.  A node is  *)
(* left when its successors have been entered, the stack is a path.         *)
RegionEdges == pass # "live" => DeadEdged(succs)

RegionSearch ==
    pass = "regions" =>
        /\ Live \subseteq seen /\ seen \subseteq Blocks
        /\ \A n \in Nodes : postorder[n] <= count
        /\ \A m, n \in Nodes : postorder[m] > 0 /\ postorder[m] = postorder[n] => m = n
        /\ \A n \in Nodes : postorder[n] > 0 => n \in seen \ Live /\ Elements(succs[n]) \subseteq seen
        /\ \A n \in seen \ Live : postorder[n] > 0 \/ (phase = "order" /\ OnStack(n))

RegionStack ==
    pass = "regions" /\ phase = "order" =>
        /\ \A i \in DOMAIN stack : stack[i].node \in seen \ Live /\ postorder[stack[i].node] = 0
        /\ \A i, j \in DOMAIN stack : stack[i].node = stack[j].node => i = j
        /\ \A i \in DOMAIN stack : i > 1 => stack[i].node \in Elements(succs[stack[i - 1].node])
        /\ \A i \in DOMAIN stack : \A k \in 1..stack[i].done :
               k \in DOMAIN succs[stack[i].node] => succs[stack[i].node][k] \in seen

(* What the stack is after the search has advanced its top by a successor.  *)
Advanced(old, new, n, s, fresh) ==
    /\ n \in Nat /\ n > 0 /\ DOMAIN old = 1..n
    /\ \A i \in 1..(n - 1) : new[i] = old[i]
    /\ new[n].node = old[n].node /\ new[n].done = old[n].done + 1
    /\ \A i \in 1..n : i \in DOMAIN new /\ new[i].node = old[i].node
    /\ \A i \in DOMAIN new : i \in 1..(n - 1) \/ i = n \/ (i = n + 1 /\ fresh)
    /\ fresh => n + 1 \in DOMAIN new /\ new[n + 1].node = s /\ new[n + 1].done = 0

LEMMA VisitTerms ==
    ASSUME IInv, Visit
    PROVE  \E s \in Nodes :
              /\ Top.node \in Nodes /\ Top.done \in Nat /\ Top = stack[Len(stack)]
              /\ s = succs[Top.node][Top.done + 1] /\ s \in Elements(succs[Top.node])
              /\ seen' = seen \cup {s}
              /\ Advanced(stack, stack', Len(stack), s, s \notin seen)
  <1> DEFINE n == Len(stack)
             t == Top.node
  <1>3. phase = "order" /\ stack # << >> /\ t \in Nodes /\ Top.done \in Nat /\ Typed
    BY StackFacts DEF IInv, Visit
  <1>4. PICK s \in Nodes : s = succs[t][Top.done + 1] /\ s \in Elements(succs[t])
    <2>1. succs[t] \in Seq(Nodes)
      BY <1>3 DEF Typed
    <2>2. Top.done + 1 \in DOMAIN succs[t]
      BY <1>3, <2>1 DEF Visit
    <2>3. succs[t][Top.done + 1] \in Nodes
      BY <2>1, <2>2
    <2> QED BY <2>2, <2>3 DEF Elements
  <1> DEFINE advanced == Append(Below, [Top EXCEPT !.done = Top.done + 1])
             pushed == Append(advanced, Enter(s))
  <1>1. stack' = IF s \in seen THEN advanced ELSE pushed
    BY <1>4 DEF Visit
  <1>5. Top.done + 1 \in Nat /\ seen' = seen \cup {s}
    BY <1>3, <1>4 DEF Visit
  <1>6. /\ n \in Nat /\ n > 0 /\ DOMAIN stack = 1..n /\ Top = stack[n]
        /\ DOMAIN advanced = 1..n /\ DOMAIN pushed = 1..(n + 1)
        /\ \A i \in 1..(n - 1) : advanced[i] = stack[i] /\ pushed[i] = stack[i]
        /\ advanced[n].node = t /\ advanced[n].done = Top.done + 1
        /\ pushed[n].node = t /\ pushed[n].done = Top.done + 1
        /\ pushed[n + 1].node = s /\ pushed[n + 1].done = 0
        /\ \A i \in 1..n : advanced[i].node = stack[i].node /\ pushed[i].node = stack[i].node
    BY ONLY <1>3, <1>5, s \in Nodes, TopReplaced
  <1> HIDE DEF n, advanced, pushed
  <1>7. Advanced(stack, stack', n, s, s \notin seen)
    BY <1>1, <1>6 DEF Advanced
  <1>8. Top = stack[n] /\ seen' = seen \cup {s}
    BY <1>5, <1>6
  <1> HIDE DEF t
  <1>9. t \in Nodes /\ Top.done \in Nat /\ s \in Nodes /\ s = succs[t][Top.done + 1] /\ s \in Elements(succs[t])
    BY <1>3, <1>4
  <1> QED BY ONLY <1>7, <1>8, <1>9 DEF n, t

(* The parts of the graph stay with the targets.                            *)
LEMMA PartsKept ==
    ASSUME UNCHANGED targets
    PROVE  /\ Live' = Live /\ Blocks' = Blocks /\ Nodes' = Nodes /\ Dead' = Dead
           /\ VirtualRoot' = VirtualRoot
           /\ \A A, X : ReachedAvoiding(A, X)' = ReachedAvoiding(A, X)
  <1>1. \A A, X : ReachedAvoiding(A, X)' = ReachedAvoiding(A, X)
    BY DEF ReachedAvoiding
  <1>2. Live' = Live /\ Blocks' = Blocks /\ Nodes' = Nodes /\ VirtualRoot' = VirtualRoot
    BY DEF Live, ReachedAvoiding, Blocks, Nodes, VirtualRoot
  <1> QED BY <1>1, <1>2 DEF Dead

(* The successors of dead blocks are dead.                                  *)
LEMMA RegionTerms ==
    ASSUME IInv, RegionEdges, pass # "live"
    PROVE  /\ WellFormed(targets) /\ Edged(Nodes, succs) /\ DeadEdged(succs)
           /\ Dead \subseteq Nodes /\ Dead = Blocks \ Live /\ DOMAIN succs = Nodes
           /\ \A n \in Dead : Elements(succs[n]) \subseteq Dead
           /\ \A n \in Dead : From(succs, n) \subseteq Dead
  <1>1. WellFormed(targets) /\ Edged(Nodes, succs) /\ DeadEdged(succs) /\ DOMAIN succs = Nodes
    BY Terms DEF IInv, Typed, RegionEdges, Edged
  <1>2. /\ Dead \subseteq Blocks /\ Blocks \subseteq Nodes /\ Dead = Blocks \ Live
        /\ \A b \in Blocks : Elements(targets[b]) \subseteq Blocks
    BY <1>1, DeadFacts DEF Dead
  <1>3. \A n \in Dead : Elements(succs[n]) \subseteq Dead
    BY <1>1, <1>2 DEF DeadEdged
  <1>4. ASSUME NEW n \in Dead PROVE From(succs, n) \subseteq Dead
    <2>1. n \in Nodes /\ \A x \in Dead \cap Nodes : Elements(succs[x]) \subseteq Dead
      BY <1>2, <1>3
    <2> QED BY ONLY <1>1, <1>4, <2>1, FromFacts
  <1> QED BY <1>1, <1>2, <1>3, <1>4

LEMMA VisitRegion ==
    ASSUME IInv, RegionEdges, RegionSearch, RegionStack, Visit
    PROVE  RegionSearch' /\ RegionStack'
  <1>0. UNCHANGED <<targets, pass, phase, succs, postorder, count>> /\ phase = "order"
    BY DEF Visit
  <1>1. SUFFICES ASSUME pass = "regions" PROVE RegionSearch' /\ RegionStack'
    BY <1>0 DEF RegionSearch, RegionStack
  <1> DEFINE n == Len(stack)
             t == Top.node
  <1>2. PICK s \in Nodes :
              /\ t \in Nodes /\ Top.done \in Nat /\ Top = stack[n]
              /\ s = succs[t][Top.done + 1] /\ s \in Elements(succs[t])
              /\ seen' = seen \cup {s}
              /\ Advanced(stack, stack', n, s, s \notin seen)
    BY VisitTerms
  <1> HIDE DEF n
  <1>3. /\ n \in Nat /\ n > 0 /\ DOMAIN stack = 1..n
        /\ \A i \in 1..(n - 1) : stack'[i] = stack[i]
        /\ stack'[n].node = t /\ stack'[n].done = Top.done + 1
        /\ \A i \in 1..n : i \in DOMAIN stack' /\ stack'[i].node = stack[i].node
        /\ \A i \in DOMAIN stack' : i \in 1..(n - 1) \/ i = n \/ (i = n + 1 /\ s \notin seen)
        /\ s \notin seen => n + 1 \in DOMAIN stack' /\ stack'[n + 1].node = s /\ stack'[n + 1].done = 0
    BY <1>2 DEF Advanced
  <1>4. /\ \A i \in 1..n : stack[i].node \in seen \ Live /\ postorder[stack[i].node] = 0
        /\ \A i, j \in 1..n : stack[i].node = stack[j].node => i = j
        /\ \A i \in 1..n : i > 1 => stack[i].node \in Elements(succs[stack[i - 1].node])
        /\ \A i \in 1..n : \A k \in 1..stack[i].done :
               k \in DOMAIN succs[stack[i].node] => succs[stack[i].node][k] \in seen
    BY <1>0, <1>1, <1>3 DEF RegionStack
  <1>5. /\ Live \subseteq seen /\ seen \subseteq Blocks
        /\ \A m \in Nodes : postorder[m] <= count
        /\ \A l, m \in Nodes : postorder[l] > 0 /\ postorder[l] = postorder[m] => l = m
        /\ \A m \in Nodes : postorder[m] > 0 => m \in seen \ Live /\ Elements(succs[m]) \subseteq seen
        /\ \A m \in seen \ Live : postorder[m] > 0 \/ OnStack(m)
    BY <1>0, <1>1 DEF RegionSearch
  <1>6. Live' = Live /\ Blocks' = Blocks /\ Nodes' = Nodes
    BY <1>0, PartsKept
  <1>7. /\ Edged(Nodes, succs) /\ Dead \subseteq Nodes /\ Dead = Blocks \ Live
        /\ \A m \in Dead : Elements(succs[m]) \subseteq Dead
    BY <1>1, RegionTerms
  <1>8. s \in Blocks /\ s \notin Live
    <2>1. t \in Dead
      BY <1>2, <1>3, <1>4, <1>5, <1>7
    <2> QED BY <1>2, <1>7, <2>1
  <1>9. postorder \in [Nodes -> Nat]
    BY Terms
  <1>10. s \notin seen => postorder[s] = 0
    BY <1>2, <1>5, <1>9
  <1>11. RegionSearch'
    <2>1. \A m : OnStack(m) => OnStack(m)'
      BY <1>3 DEF OnStack
    <2>2. s \notin seen => OnStack(s)'
      BY <1>3 DEF OnStack
    <2>3. \A m \in seen' \ Live : postorder[m] > 0 \/ OnStack(m)'
      BY <1>2, <1>5, <2>1, <2>2
    <2>4. Live \subseteq seen' /\ seen' \subseteq Blocks
      BY <1>2, <1>5, <1>8
    <2>5. \A m \in Nodes : postorder[m] > 0 => m \in seen' \ Live /\ Elements(succs[m]) \subseteq seen'
      BY <1>2, <1>5
    <2> QED BY <1>0, <1>5, <1>6, <2>3, <2>4, <2>5 DEF RegionSearch
  <1>12. \A i \in DOMAIN stack' : stack'[i].node \in seen' \ Live /\ postorder[stack'[i].node] = 0
    <2>1. \A i \in 1..n : stack'[i].node \in seen' \ Live /\ postorder[stack'[i].node] = 0
      BY <1>2, <1>3, <1>4
    <2>2. n \in 1..n /\ \A i \in 1..(n - 1) : i \in 1..n
      BY <1>3
    <2> QED BY <1>2, <1>3, <1>8, <1>10, <2>1, <2>2
  <1>13. \A i, j \in DOMAIN stack' : stack'[i].node = stack'[j].node => i = j
    <2>1. \A i \in DOMAIN stack' : i \in 1..n \/ (i = n + 1 /\ s \notin seen)
      BY <1>3
    <2>2. \A i \in 1..n : stack'[i].node \in seen
      BY <1>3, <1>4
    <2>3. \A i, j \in 1..n : stack'[i].node = stack'[j].node => i = j
      BY <1>3, <1>4
    <2>4. s \notin seen => stack'[n + 1].node = s
      BY <1>3
    <2> QED BY ONLY <2>1, <2>2, <2>3, <2>4
  <1>14. \A i \in DOMAIN stack' : i > 1 => stack'[i].node \in Elements(succs[stack'[i - 1].node])
    <2> TAKE i \in DOMAIN stack'
    <2>1. CASE i = n + 1
      <3>1. i - 1 = n /\ n \in 1..n /\ s \notin seen
        BY <1>3, <2>1
      <3> QED BY <1>2, <1>3, <2>1, <3>1
    <2>2. CASE i \in 1..n
      <3>1. i > 1 => i - 1 \in 1..n
        BY <1>3, <2>2
      <3> QED BY <1>3, <1>4, <2>2, <3>1
    <2> QED BY <1>3, <2>1, <2>2
  <1>15. ASSUME NEW i \in DOMAIN stack', NEW k \in 1..stack'[i].done, k \in DOMAIN succs[stack'[i].node]
         PROVE  succs[stack'[i].node][k] \in seen'
    <2>1. CASE i \in 1..(n - 1)
      <3>1. i \in 1..n /\ stack'[i] = stack[i]
        BY <1>3, <2>1
      <3> QED BY <1>2, <1>4, <1>15, <3>1
    <2>2. CASE i = n
      <3>1. n \in 1..n /\ stack[n].node = t /\ stack[n].done = Top.done
        BY <1>2, <1>3
      <3>2. CASE k \in 1..Top.done
        BY <1>2, <1>3, <1>4, <1>15, <2>2, <3>1, <3>2
      <3>3. CASE k = Top.done + 1
        BY <1>2, <1>3, <2>2, <3>3
      <3>4. k \in 1..(Top.done + 1)
        BY <1>3, <2>2
      <3> QED BY <1>2, <3>2, <3>3, <3>4
    <2>3. CASE i = n + 1
      BY <1>3, <2>3
    <2> QED BY <1>3, <2>1, <2>2, <2>3
  <1>16. RegionStack'
    BY <1>0, <1>6, <1>12, <1>13, <1>14, <1>15 DEF RegionStack
  <1> QED BY <1>11, <1>16

(* A node is left when all its successors have been entered.                *)
LEMMA LeaveRegion ==
    ASSUME IInv, RegionEdges, RegionSearch, RegionStack, Leave, pass = "regions"
    PROVE  /\ Top.node \in Dead /\ OnStack(Top.node) /\ postorder[Top.node] = 0
           /\ Elements(succs[Top.node]) \subseteq seen
           /\ \A m : OnStack(m) /\ m # Top.node => OnStack(m)'
           /\ postorder' \in [Nodes -> Nat] /\ postorder'[Top.node] = count + 1
           /\ \A m \in Nodes : m # Top.node => postorder'[m] = postorder[m]
           /\ RegionSearch' /\ RegionStack'
  <1> DEFINE n == Len(stack)
             t == Top.node
  <1>1. /\ phase = "order" /\ stack # << >> /\ Top.done = Len(succs[t]) /\ stack' = Below
        /\ postorder' = [postorder EXCEPT ![t] = count + 1] /\ count' = count + 1
        /\ UNCHANGED <<targets, pass, phase, succs, seen>>
    BY DEF Leave
  <1>3. /\ n \in Nat /\ n > 0 /\ Top = stack[n] /\ t \in Nodes /\ Top.done \in Nat
        /\ Below \in Seq(Frames) /\ Len(Below) = n - 1
        /\ \A i \in 1..(n - 1) : Below[i] = stack[i]
    BY <1>1, StackFacts DEF IInv
  <1>4. DOMAIN stack = 1..n /\ postorder \in [Nodes -> Nat] /\ count \in Nat /\ count + 1 \in Nat
    BY Terms DEF IInv, Typed
  <1> HIDE DEF n
  <1>2. Edged(Nodes, succs) /\ Dead \subseteq Nodes /\ Dead = Blocks \ Live
    BY RegionTerms
  <1>5. DOMAIN stack' = 1..(n - 1) /\ \A i \in 1..(n - 1) : i \in 1..n /\ stack'[i] = stack[i]
    BY <1>1, <1>3, <1>4
  <1>6. /\ \A i \in 1..n : stack[i].node \in seen \ Live /\ postorder[stack[i].node] = 0
        /\ \A i, j \in 1..n : stack[i].node = stack[j].node => i = j
        /\ \A i \in 1..n : i > 1 => stack[i].node \in Elements(succs[stack[i - 1].node])
        /\ \A i \in 1..n : \A k \in 1..stack[i].done :
               k \in DOMAIN succs[stack[i].node] => succs[stack[i].node][k] \in seen
    BY <1>1, <1>4 DEF RegionStack
  <1>7. /\ Live \subseteq seen /\ seen \subseteq Blocks
        /\ \A m \in Nodes : postorder[m] <= count
        /\ \A l, m \in Nodes : postorder[l] > 0 /\ postorder[l] = postorder[m] => l = m
        /\ \A m \in Nodes : postorder[m] > 0 => m \in seen \ Live /\ Elements(succs[m]) \subseteq seen
        /\ \A m \in seen \ Live : postorder[m] > 0 \/ OnStack(m)
    BY <1>1 DEF RegionSearch
  <1>8. /\ postorder' \in [Nodes -> Nat] /\ postorder'[t] = count + 1
        /\ \A m \in Nodes : m # t => postorder'[m] = postorder[m]
    BY <1>1, <1>3, <1>4
  <1>9. n \in 1..n /\ t = stack[n].node
    BY <1>3
  <1>10. t \in seen \ Live /\ t \in Dead /\ OnStack(t) /\ postorder[t] = 0
    BY <1>2, <1>4, <1>6, <1>7, <1>9 DEF OnStack
  <1>11. Elements(succs[t]) \subseteq seen
    <2>1. succs[t] \in Seq(Nodes)
      BY <1>2, <1>3 DEF Edged
    <2>2. DOMAIN succs[t] = 1..Top.done
      BY <1>1, <2>1
    <2> QED BY <1>3, <1>6, <1>9, <2>2 DEF Elements
  <1>12. ASSUME NEW m, OnStack(m), m # t PROVE OnStack(m)'
    <2>1. PICK i \in 1..n : stack[i].node = m
      BY <1>4, <1>12 DEF OnStack
    <2>2. i \in 1..(n - 1)
      BY <1>3, <1>9, <1>12, <2>1
    <2> QED BY <1>5, <2>1, <2>2 DEF OnStack
  <1>13. Live' = Live /\ Blocks' = Blocks /\ Nodes' = Nodes
    BY <1>1, PartsKept
  <1> HIDE DEF t
  <1>14. RegionSearch'
    <2>1. \A m \in Nodes : postorder'[m] <= count'
      <3>1. \A m \in Nodes : postorder[m] \in Nat /\ postorder[m] <= count
        BY <1>4, <1>7
      <3> QED BY <1>1, <1>4, <1>8, <3>1
    <2>2. \A l, m \in Nodes : postorder'[l] > 0 /\ postorder'[l] = postorder'[m] => l = m
      <3>1. \A m \in Nodes : postorder[m] \in Nat /\ postorder[m] <= count
        BY <1>4, <1>7
      <3>2. \A m \in Nodes : postorder[m] # count + 1
        BY <1>4, <3>1
      <3> QED BY <1>7, <1>8, <3>2
    <2>3. \A m \in Nodes : postorder'[m] > 0 => m \in seen \ Live /\ Elements(succs[m]) \subseteq seen
      BY <1>7, <1>8, <1>10, <1>11
    <2>4. \A m \in seen \ Live : postorder'[m] > 0 \/ OnStack(m)'
      <3>1. \A m \in seen : m \in Nodes
        BY <1>7, DeadFacts DEF IInv, Typed
      <3>2. count + 1 > 0
        BY <1>4
      <3> QED BY <1>7, <1>8, <1>12, <3>1, <3>2
    <2> QED BY <1>1, <1>7, <1>13, <2>1, <2>2, <2>3, <2>4 DEF RegionSearch
  <1>15. RegionStack'
    <2>1. \A i \in 1..(n - 1) : stack[i].node \in Nodes /\ stack[i].node # t
      <3>1. \A i \in 1..n : stack[i].node \in Nodes
        BY <1>4, Terms
      <3>2. \A i \in 1..(n - 1) : i # n
        BY <1>3
      <3> QED BY <1>5, <1>6, <1>9, <3>1, <3>2
    <2>2. \A i \in 1..(n - 1) : stack'[i].node \in seen \ Live /\ postorder'[stack'[i].node] = 0
      BY <1>5, <1>6, <1>8, <2>1
    <2>3. \A i, j \in 1..(n - 1) : stack'[i].node = stack'[j].node => i = j
      BY <1>5, <1>6
    <2>4. \A i \in 1..(n - 1) : i > 1 => stack'[i].node \in Elements(succs[stack'[i - 1].node])
      <3>1. \A i \in 1..(n - 1) : i > 1 => i - 1 \in 1..(n - 1)
        BY <1>3
      <3> QED BY <1>5, <1>6, <3>1
    <2>5. \A i \in 1..(n - 1) : \A k \in 1..stack'[i].done :
               k \in DOMAIN succs[stack'[i].node] => succs[stack'[i].node][k] \in seen
      BY <1>5, <1>6
    <2> QED BY <1>1, <1>5, <1>13, <2>2, <2>3, <2>4, <2>5 DEF RegionStack
  <1> QED BY <1>8, <1>10, <1>11, <1>12, <1>14, <1>15 DEF t

(* The nodes of a path reach its last one.                                  *)
LEMMA LineReaches ==
    ASSUME NEW N, NEW e, Edged(N, e), NEW n \in Nat, NEW stk,
           \A i \in 1..n : stk[i].node \in N,
           \A i \in 1..n : i > 1 => stk[i].node \in Elements(e[stk[i - 1].node]),
           NEW i \in 1..n
    PROVE  stk[n].node \in From(e, stk[i].node)
  <1> DEFINE S == {k \in Nat : i + k <= n => stk[i + k].node \in From(e, stk[i].node)}
  <1>0. /\ stk[i].node \in From(e, stk[i].node)
        /\ \A x \in From(e, stk[i].node) : Elements(e[x]) \subseteq From(e, stk[i].node)
    <2>1. stk[i].node \in N
      OBVIOUS
    <2> QED BY ONLY Edged(N, e), <2>1, FromFacts
  <1>1. 0 \in S
    BY <1>0
  <1>2. ASSUME NEW k \in Nat, k \in S PROVE k + 1 \in S
    <2>1. SUFFICES ASSUME i + (k + 1) <= n PROVE stk[i + (k + 1)].node \in From(e, stk[i].node)
      OBVIOUS
    <2>2. i + k <= n /\ i + (k + 1) \in 1..n /\ i + (k + 1) > 1 /\ i + (k + 1) - 1 = i + k
      BY <2>1
    <2>3. stk[i + k].node \in From(e, stk[i].node)
      BY <1>2, <2>2
    <2>4. stk[i + (k + 1)].node \in Elements(e[stk[i + k].node])
      BY <2>2
    <2> QED BY <1>0, <2>3, <2>4
  <1>3. \A k \in Nat : k \in S
    <2> HIDE DEF S
    <2> QED BY <1>1, <1>2, SetInduction
  <1>4. n - i \in Nat /\ i + (n - i) = n
    OBVIOUS
  <1> QED BY <1>3, <1>4

(* A block that has been left has led to left ones only, or lies on a cycle *)
(* with a block on the stack: the search will return to it.                 *)
Returning ==
    pass = "regions" /\ phase = "order" =>
        \A p \in Dead : postorder[p] > 0 =>
            \/ \A q \in From(succs, p) : postorder[q] > 0
            \/ \E y \in Dead : OnStack(y) /\ Mutual(succs, y, p)

(* Of the blocks that reach each other one is left after all blocks they    *)
(* reach, which is why the last position of a component precedes those of   *)
(* the components it leads to.                                              *)
LateMembers ==
    pass = "regions" =>
        \A v, u \in Dead : postorder[v] > 0 /\ v \in From(succs, u) =>
            \E w \in Dead : Mutual(succs, w, u) /\ (postorder[w] = 0 \/ postorder[w] >= postorder[v])

(* When the search leaves a block, nothing but left blocks is reached from  *)
(* it, or a block below it on the stack is.                                 *)
LEMMA TopReturns ==
    ASSUME IInv, RegionEdges, RegionSearch, RegionStack, Leave, pass = "regions"
    PROVE  \/ \A q \in From(succs, Top.node) : postorder'[q] > 0
           \/ \E y \in Dead : OnStack(y)' /\ Mutual(succs, y, Top.node)
  <1> DEFINE t == Top.node
             R == From(succs, t)
  <1>1. /\ t \in Dead /\ OnStack(t) /\ postorder[t] = 0 /\ Elements(succs[t]) \subseteq seen
        /\ \A m : OnStack(m) /\ m # t => OnStack(m)'
        /\ postorder' \in [Nodes -> Nat] /\ postorder'[t] = count + 1
        /\ \A m \in Nodes : m # t => postorder'[m] = postorder[m]
    BY LeaveRegion
  <1>2. phase = "order" /\ stack # << >>
    BY DEF Leave
  <1>3. /\ Edged(Nodes, succs) /\ Dead \subseteq Nodes /\ Dead = Blocks \ Live
        /\ \A m \in Dead : From(succs, m) \subseteq Dead
    BY RegionTerms
  <1>4. count + 1 > 0
    BY DEF IInv, Typed
  <1> SUFFICES ASSUME NEW q \in R, ~(postorder'[q] > 0)
               PROVE  \E y \in Dead : OnStack(y)' /\ Mutual(succs, y, t)
    OBVIOUS
  <1>5. \A y \in Dead : OnStack(y) => t \in From(succs, y)
    <2> DEFINE n == Len(stack)
    <2>1. /\ n \in Nat /\ n > 0 /\ DOMAIN stack = 1..n /\ t = stack[n].node
          /\ \A i \in 1..n : stack[i].node \in Nodes
      BY <1>2, StackFacts, Terms DEF IInv
    <2>2. \A i \in 1..n : i > 1 => stack[i].node \in Elements(succs[stack[i - 1].node])
      BY <1>2, <2>1 DEF RegionStack
    <2> HIDE DEF n, t
    <2>3. \A i \in 1..n : stack[n].node \in From(succs, stack[i].node)
      BY <1>3, <2>1, <2>2, LineReaches
    <2> QED BY <2>1, <2>3 DEF OnStack
  <1> HIDE DEF t
  <1>6. PICK y \in R : OnStack(y) /\ y # t
    <2> SUFFICES ASSUME \A y \in R : ~(OnStack(y) /\ y # t) PROVE FALSE
      OBVIOUS
    <2> DEFINE S == {x \in R : postorder[x] > 0 \/ x = t}
    <2>1. t \in R /\ R \subseteq Nodes /\ \A x \in R : Elements(succs[x]) \subseteq R
      BY <1>1, <1>3, FromFacts
    <2>2. ASSUME NEW x \in S, NEW z \in Elements(succs[x]) PROVE z \in S
      <3>1. z \in R /\ z \in Dead
        BY <1>1, <1>3, <2>1
      <3>2. z \in seen
        <4>1. x = t \/ Elements(succs[x]) \subseteq seen
          BY <1>1, <1>3, <2>1 DEF RegionSearch
        <4> QED BY <1>1, <4>1
      <3>3. postorder[z] > 0 \/ OnStack(z)
        BY <1>3, <3>1, <3>2 DEF RegionSearch
      <3> QED BY <3>1, <3>3
    <2>3. t \in S /\ \A x \in S \cap Nodes : Elements(succs[x]) \subseteq S
      BY <2>1, <2>2
    <2> HIDE DEF S
    <2>4. R \subseteq S
      BY <1>1, <1>3, <2>3, FromFacts
    <2>5. postorder[q] > 0 \/ q = t
      BY <2>4 DEF S
    <2> QED BY <1>1, <1>4, <2>1, <2>5
  <1>7. y \in Dead
    BY <1>1, <1>3, <1>6
  <1>8. Mutual(succs, y, t)
    BY <1>5, <1>6, <1>7 DEF Mutual
  <1> QED BY <1>1, <1>6, <1>7, <1>8

LEMMA LeaveReturning ==
    ASSUME IInv, RegionEdges, RegionSearch, RegionStack, Returning, LateMembers, Leave
    PROVE  Returning' /\ LateMembers'
  <1> DEFINE t == Top.node
  <1>0. UNCHANGED <<targets, pass, phase, succs>> /\ phase = "order"
    BY DEF Leave
  <1> SUFFICES ASSUME pass = "regions" PROVE Returning' /\ LateMembers'
    BY <1>0 DEF Returning, LateMembers
  <1>1. /\ t \in Dead /\ OnStack(t) /\ postorder[t] = 0
        /\ \A m : OnStack(m) /\ m # t => OnStack(m)'
        /\ postorder' \in [Nodes -> Nat] /\ postorder'[t] = count + 1
        /\ \A m \in Nodes : m # t => postorder'[m] = postorder[m]
    BY LeaveRegion
  <1>2. \/ \A q \in From(succs, t) : postorder'[q] > 0
        \/ \E y \in Dead : OnStack(y)' /\ Mutual(succs, y, t)
    BY TopReturns
  <1>3. /\ Edged(Nodes, succs) /\ Dead \subseteq Nodes /\ postorder \in [Nodes -> Nat]
        /\ \A m \in Dead : From(succs, m) \subseteq Dead
    BY RegionTerms, Terms
  <1>4. /\ \A m \in Nodes : Mutual(succs, m, m)
        /\ \A l, m, n \in Nodes : l \in From(succs, m) /\ m \in From(succs, n) => l \in From(succs, n)
        /\ \A m, n \in Nodes : Mutual(succs, m, n) => Mutual(succs, n, m)
        /\ \A l, m, n \in Nodes : Mutual(succs, l, m) /\ Mutual(succs, m, n) => Mutual(succs, l, n)
    BY <1>3, MutualFacts
  <1>5. /\ count \in Nat /\ count + 1 > 0 /\ \A m \in Nodes : postorder[m] <= count
        /\ \A m \in Nodes : postorder[m] \in Nat
    BY <1>3 DEF IInv, Typed, RegionSearch
  <1>6. Dead' = Dead
    BY <1>0, PartsKept
  <1> HIDE DEF t
  <1>7. \A p \in Dead : postorder[p] > 0 =>
            \/ \A q \in From(succs, p) : postorder[q] > 0
            \/ \E y \in Dead : OnStack(y) /\ Mutual(succs, y, p)
    BY <1>0 DEF Returning
  <1>8. \A q \in Nodes : postorder[q] > 0 => postorder'[q] > 0
    BY <1>1, <1>3, <1>5
  <1>9. ASSUME NEW p \in Dead, Mutual(succs, t, p)
        PROVE  \/ \A q \in From(succs, p) : postorder'[q] > 0
               \/ \E y \in Dead : OnStack(y)' /\ Mutual(succs, y, p)
    <2>1. CASE \A q \in From(succs, t) : postorder'[q] > 0
      <3>1. \A q \in From(succs, p) : q \in From(succs, t)
        BY <1>1, <1>3, <1>4, <1>9 DEF Mutual
      <3> QED BY <2>1, <3>1
    <2>2. CASE \E y \in Dead : OnStack(y)' /\ Mutual(succs, y, t)
      BY <1>1, <1>3, <1>4, <1>9, <2>2
    <2> QED BY <1>2, <2>1, <2>2
  <1>10. ASSUME NEW p \in Dead, postorder'[p] > 0
         PROVE  \/ \A q \in From(succs, p) : postorder'[q] > 0
                \/ \E y \in Dead : OnStack(y)' /\ Mutual(succs, y, p)
    <2>1. CASE p = t
      BY <1>1, <1>3, <1>4, <1>9, <2>1
    <2>2. CASE p # t
      <3>1. postorder[p] > 0
        BY <1>1, <1>3, <1>10, <2>2
      <3>2. CASE \A q \in From(succs, p) : postorder[q] > 0
        BY <1>3, <1>8, <3>2
      <3>3. CASE \E y \in Dead : OnStack(y) /\ Mutual(succs, y, p)
        <4>1. PICK y \in Dead : OnStack(y) /\ Mutual(succs, y, p)
          BY <3>3
        <4> QED BY <1>1, <1>9, <4>1
      <3> QED BY <1>7, <3>1, <3>2, <3>3
    <2> QED BY <2>1, <2>2
  <1>11. Returning'
    BY <1>0, <1>6, <1>10 DEF Returning
  <1>12. ASSUME NEW v \in Dead, NEW u \in Dead, postorder'[v] > 0, v \in From(succs, u)
         PROVE  \E w \in Dead : Mutual(succs, w, u) /\ (postorder'[w] = 0 \/ postorder'[w] >= postorder'[v])
    <2>1. CASE Mutual(succs, t, u)
      <3>1. postorder'[t] >= postorder'[v]
        <4>1. v \in Nodes
          BY <1>3
        <4>2. postorder'[v] \in Nat /\ postorder'[v] <= count + 1
          <5>1. postorder'[v] = postorder[v] \/ postorder'[v] = count + 1
            BY <1>1, <4>1
          <5> QED BY <1>5, <4>1, <5>1
        <4> QED BY <1>1, <1>5, <4>2
      <3> QED BY <1>1, <2>1, <3>1
    <2>2. CASE ~Mutual(succs, t, u) /\ v = t
      <3>1. u \in Nodes /\ u # t
        BY <1>3, <1>4, <2>2
      <3>2. CASE postorder[u] = 0
        BY <1>1, <1>4, <3>1, <3>2
      <3>3. CASE postorder[u] > 0
        <4>1. PICK y \in Dead : OnStack(y) /\ Mutual(succs, y, u)
          BY <1>1, <1>7, <1>12, <2>2, <3>3
        <4>2. y # t /\ postorder[y] = 0
          BY <1>0, <2>2, <4>1 DEF RegionStack, OnStack
        <4> QED BY <1>1, <1>3, <4>1, <4>2
      <3> QED BY <1>5, <3>1, <3>2, <3>3
    <2>3. CASE ~Mutual(succs, t, u) /\ v # t
      <3>1. postorder[v] > 0 /\ postorder'[v] = postorder[v]
        BY <1>1, <1>3, <1>12, <2>3
      <3>2. PICK w \in Dead : Mutual(succs, w, u) /\ (postorder[w] = 0 \/ postorder[w] >= postorder[v])
        BY <1>12, <3>1 DEF LateMembers
      <3>3. w # t
        BY <2>3, <3>2
      <3> QED BY <1>1, <1>3, <3>1, <3>2, <3>3
    <2> QED BY <2>1, <2>2, <2>3
  <1>13. LateMembers'
    BY <1>0, <1>6, <1>12 DEF LateMembers
  <1> QED BY <1>11, <1>13

(* The search for regions as a whole.                                       *)
RegionInv == RegionEdges /\ RegionSearch /\ RegionStack /\ Returning /\ LateMembers

(* It starts with the live blocks entered, and no other.                    *)
LEMMA RegionStart ==
    ASSUME IInv, IInv', DomInv, LiveTreeEnd
    PROVE  RegionInv'
  <1>1. /\ pass' = "regions" /\ phase' = "order" /\ stack' = << >> /\ seen' = seen
        /\ succs' = DeadEdges(seen) /\ postorder' = [n \in Nodes |-> 0] /\ count' = 0
        /\ UNCHANGED targets
    BY DEF LiveTreeEnd
  <1>2. seen = Live
    BY LiveTreeExact DEF LiveTreeEnd, DomInv
  <1>3. /\ WellFormed(targets) /\ Live \subseteq Blocks /\ Blocks \subseteq Nodes
    BY DeadFacts DEF IInv, Typed
  <1>4. Live' = Live /\ Blocks' = Blocks /\ Nodes' = Nodes /\ Dead' = Dead
    BY <1>1, PartsKept
  <1>5. DeadEdged(succs')
    <2> SUFFICES ASSUME NEW n \in Blocks
                 PROVE  Elements(succs'[n]) = IF n \in Live THEN {} ELSE Elements(targets[n]) \ Live
      BY DEF DeadEdged
    <2>1. n \in Nodes
      BY <1>3
    <2>2. CASE n \in Live
      <3>1. succs'[n] = << >>
        BY <1>1, <1>2, <2>1, <2>2 DEF DeadEdges
      <3> QED BY <2>2, <3>1 DEF Elements
    <2>3. CASE n \notin Live
      <3>1. succs'[n] = DeadSuccs(n, Live)
        BY <1>1, <1>2, <2>1, <2>3 DEF DeadEdges
      <3>2. Elements(DeadSuccs(n, Live)) = Elements(targets[n]) \ Live
        BY <1>3, DeadSuccElements
      <3> QED BY <2>3, <3>1, <3>2
    <2> QED BY <2>2, <2>3
  <1>6. RegionEdges'
    BY <1>1, <1>4, <1>5 DEF RegionEdges, DeadEdged
  <1>7. \A n \in Nodes : postorder'[n] = 0
    BY <1>1
  <1>8. RegionSearch'
    BY <1>1, <1>2, <1>3, <1>4, <1>7 DEF RegionSearch
  <1>9. RegionStack' /\ Returning' /\ LateMembers'
    <2>1. DOMAIN stack' = {}
      BY <1>1
    <2>2. \A n \in Dead : ~(postorder'[n] > 0)
      BY <1>3, <1>7 DEF Dead
    <2> QED BY <1>4, <2>1, <2>2 DEF RegionStack, Returning, LateMembers
  <1> QED BY <1>6, <1>8, <1>9 DEF RegionInv

(* A new tree of the search starts at a block not yet entered.              *)
LEMMA NextStartRegion ==
    ASSUME IInv, RegionInv, NextStart
    PROVE  RegionInv'
  <1>1. /\ phase = "order" /\ pass = "regions" /\ stack = << >>
        /\ UNCHANGED <<targets, pass, phase, succs, postorder, count>>
    BY DEF NextStart
  <1>2. PICK b \in Blocks \ seen : stack' = <<Enter(b)>> /\ seen' = seen \cup {b}
    BY DEF NextStart, Unseen
  <1>3. /\ Live \subseteq seen /\ seen \subseteq Blocks
        /\ \A m \in Nodes : postorder[m] <= count
        /\ \A l, m \in Nodes : postorder[l] > 0 /\ postorder[l] = postorder[m] => l = m
        /\ \A m \in Nodes : postorder[m] > 0 => m \in seen \ Live /\ Elements(succs[m]) \subseteq seen
        /\ \A m \in seen \ Live : postorder[m] > 0 \/ OnStack(m)
    BY <1>1 DEF RegionInv, RegionSearch
  <1>4. Live' = Live /\ Blocks' = Blocks /\ Nodes' = Nodes /\ Dead' = Dead
    BY <1>1, PartsKept
  <1>5. \A m : ~OnStack(m)
    BY <1>1 DEF OnStack
  <1>6. DOMAIN stack' = {1} /\ stack'[1].node = b /\ stack'[1].done = 0
    BY <1>2 DEF Enter
  <1>7. OnStack(b)' /\ b \in Nodes /\ postorder[b] = 0
    <2>1. b \in Nodes /\ postorder \in [Nodes -> Nat]
      BY <1>2, DeadFacts DEF IInv, Typed
    <2> QED BY <1>2, <1>3, <1>6, <2>1 DEF OnStack
  <1>8. RegionEdges'
    BY <1>1, <1>4 DEF RegionInv, RegionEdges, DeadEdged
  <1>9. RegionSearch'
    <2>1. \A m \in seen' \ Live : postorder[m] > 0 \/ OnStack(m)'
      BY <1>2, <1>3, <1>5, <1>7
    <2>2. \A m \in Nodes : postorder[m] > 0 => m \in seen' \ Live /\ Elements(succs[m]) \subseteq seen'
      BY <1>2, <1>3
    <2>3. Live \subseteq seen' /\ seen' \subseteq Blocks
      BY <1>2, <1>3
    <2> QED BY <1>1, <1>3, <1>4, <2>1, <2>2, <2>3 DEF RegionSearch
  <1>10. RegionStack'
    <2>1. \A i \in DOMAIN stack' : stack'[i].node \in seen' \ Live /\ postorder[stack'[i].node] = 0
      BY <1>2, <1>3, <1>6, <1>7
    <2>2. \A i \in DOMAIN stack' : ~(i > 1) /\ 1..stack'[i].done = {}
      BY <1>6
    <2>3. \A i, j \in DOMAIN stack' : i = j
      BY <1>6
    <2> QED BY <1>1, <1>4, <2>1, <2>2, <2>3 DEF RegionStack
  <1>11. Returning' /\ LateMembers'
    <2>1. \A p \in Dead : postorder[p] > 0 => \A q \in From(succs, p) : postorder[q] > 0
      BY <1>1, <1>5 DEF RegionInv, Returning
    <2>2. Returning'
      BY <1>1, <1>4, <2>1 DEF Returning
    <2>3. LateMembers'
      BY <1>1, <1>4 DEF RegionInv, LateMembers
    <2> QED BY <2>2, <2>3
  <1> QED BY <1>8, <1>9, <1>10, <1>11 DEF RegionInv

LEMMA RegionStep ==
    ASSUME IInv, IInv', DomInv, RegionInv, [Next]_vars
    PROVE  RegionInv'
  <1>1. CASE Visit
    <2>1. UNCHANGED <<targets, pass, phase, succs, postorder>> /\ phase = "order"
      BY <1>1 DEF Visit
    <2>2. RegionSearch' /\ RegionStack'
      BY <1>1, VisitRegion DEF RegionInv
    <2>3. Live' = Live /\ Blocks' = Blocks /\ Dead' = Dead
      BY <2>1, PartsKept
    <2>4. RegionEdges'
      BY <2>1, <2>3 DEF RegionInv, RegionEdges, DeadEdged
    <2>5. \A m : OnStack(m) => OnStack(m)'
      <3>1. PICK s \in Nodes : Advanced(stack, stack', Len(stack), s, s \notin seen)
        BY <1>1, VisitTerms
      <3> QED BY <3>1 DEF Advanced, OnStack
    <2>6. Returning' /\ LateMembers'
      BY <2>1, <2>3, <2>5 DEF RegionInv, Returning, LateMembers
    <2> QED BY <2>2, <2>4, <2>6 DEF RegionInv
  <1>2. CASE Leave
    <2>1. UNCHANGED <<targets, pass, phase, succs>>
      BY <1>2 DEF Leave
    <2>2. Live' = Live /\ Blocks' = Blocks
      BY <2>1, PartsKept
    <2>3. RegionEdges'
      BY <2>1, <2>2 DEF RegionInv, RegionEdges, DeadEdged
    <2>4. RegionSearch' /\ RegionStack'
      BY <1>2, <2>1, LeaveRegion DEF RegionInv, RegionSearch, RegionStack
    <2>5. Returning' /\ LateMembers'
      BY <1>2, LeaveReturning DEF RegionInv
    <2> QED BY <2>3, <2>4, <2>5 DEF RegionInv
  <1>3. CASE LiveTreeEnd
    BY <1>3, RegionStart
  <1>4. CASE NextStart
    BY <1>4, NextStartRegion
  <1>5. CASE AllOrdered \/ Collect
    <2>1. /\ UNCHANGED <<targets, pass, succs, seen, postorder, count>> /\ pass = "regions"
          /\ phase' = "components"
          /\ phase = "components" \/ stack = << >>
      BY <1>5 DEF AllOrdered, Collect, orderVars, DomInv, Blank
    <2>2. Live' = Live /\ Blocks' = Blocks /\ Nodes' = Nodes /\ Dead' = Dead
      BY <2>1, PartsKept
    <2>3. RegionEdges' /\ RegionStack' /\ Returning' /\ LateMembers'
      BY <2>1, <2>2 DEF RegionInv, RegionEdges, DeadEdged, RegionStack, Returning, LateMembers
    <2>4. phase = "order" => \A m : ~OnStack(m)
      BY <2>1 DEF OnStack
    <2>5. RegionSearch'
      BY <2>1, <2>2, <2>4 DEF RegionInv, RegionSearch
    <2> QED BY <2>3, <2>5 DEF RegionInv
  <1>6. CASE BeginDead
    <2>1. /\ pass' = "dead" /\ phase = "components" /\ UNCHANGED targets
          /\ \E roots : succs' = [succs EXCEPT ![VirtualRoot] = roots]
      BY <1>6 DEF BeginDead
    <2>2. Live' = Live /\ Blocks' = Blocks
      BY <2>1, PartsKept
    <2>3. VirtualRoot \notin Blocks /\ Blocks \subseteq Nodes /\ DOMAIN succs = Nodes /\ DeadEdged(succs)
      BY <2>1, DeadFacts, RegionTerms DEF IInv, Typed, RegionInv, DomInv, Blank
    <2>4. targets' = targets /\ \A n \in Blocks : succs'[n] = succs[n]
      BY <2>1, <2>3
    <2>5. RegionEdges'
      BY <2>2, <2>3, <2>4 DEF RegionEdges, DeadEdged
    <2> QED BY <2>1, <2>5 DEF RegionInv, RegionSearch, RegionStack, Returning, LateMembers
  <1>7. ASSUME UNCHANGED <<targets, pass, succs>>, pass # "regions"
        PROVE  RegionInv'
    <2>1. Live' = Live /\ Blocks' = Blocks
      BY <1>7, PartsKept
    <2>2. RegionEdges'
      BY <1>7, <2>1 DEF RegionInv, RegionEdges, DeadEdged
    <2> QED BY <1>7, <2>2 DEF RegionInv, RegionSearch, RegionStack, Returning, LateMembers
  <1>8. CASE Ordered \/ BeginNode \/ BeginIntersect \/ RaiseFirst \/ RaiseSecond \/ EndIntersect
             \/ FinishNode \/ EndSweep \/ SweepsEnd
    <2>1. UNCHANGED <<targets, pass, succs>> /\ (pass # "regions" \/ Sweeping)
      BY <1>8 DEF Ordered, BeginNode, BeginIntersect, RaiseFirst, RaiseSecond, EndIntersect,
                  FinishNode, EndSweep, SweepsEnd, Sweeping
    <2>2. pass # "regions"
      BY <2>1 DEF IInv, Processed
    <2> QED BY <1>7, <2>1, <2>2
  <1>9. CASE NumberChild \/ NumberEnd \/ DeadTreeEnd
    <2>1. UNCHANGED <<targets, pass, succs>> /\ phase = "tree"
      BY <1>9 DEF NumberChild, NumberEnd, DeadTreeEnd
    <2>2. pass # "regions"
      BY <2>1 DEF DomInv, TreeOfDominators
    <2> QED BY <1>7, <2>1, <2>2
  <1>10. CASE Done \/ UNCHANGED vars
    <2>1. UNCHANGED <<targets, pass, phase, succs, stack, seen, postorder, count>>
      BY <1>10 DEF Done, vars, orderVars
    <2>2. Live' = Live /\ Blocks' = Blocks /\ Nodes' = Nodes /\ Dead' = Dead
      BY <2>1, PartsKept
    <2>3. \A m : OnStack(m)' <=> OnStack(m)
      BY <2>1 DEF OnStack
    <2> QED BY <2>1, <2>2, <2>3 DEF RegionInv, RegionEdges, DeadEdged, RegionSearch, RegionStack, Returning, LateMembers
  <1> QED BY <1>1, <1>2, <1>3, <1>4, <1>5, <1>6, <1>8, <1>9, <1>10 DEF Next

-----------------------------------------------------------------------------
(* The components.  ReachBack is the least set with b that holds the free   *)
(* predecessors of its members.                                             *)
LEMMA ReachBackFacts ==
    ASSUME WellFormed(targets), NEW b \in Blocks
    PROVE  /\ b \in ReachBack(b) /\ ReachBack(b) \subseteq Blocks
           /\ \A c \in ReachBack(b) : Preds(c) \cap Free \subseteq ReachBack(b)
           /\ \A S : b \in S /\ (\A c \in S \cap Blocks : Preds(c) \cap Free \subseteq S)
                    => ReachBack(b) \subseteq S
  <1> DEFINE N == Len(targets)
             A == {b}
             More(X) == X \cup ((UNION {Preds(n) : n \in X}) \cap Free)
             R == [c \in Blocks |-> Preds(c) \cap Free]
             Step(s) == [k \in 0..N |-> IF k = 0 THEN A ELSE More(s[k - 1])]
  <1>1. /\ N \in Nat /\ IsFiniteSet(Blocks) /\ Cardinality(Blocks) <= N
        /\ Free \subseteq Blocks
    <2>1. N \in Nat /\ IsFiniteSet(Blocks) /\ Cardinality(Blocks) <= N
      BY BlocksCounted
    <2> QED BY <2>1 DEF Free
  <1>2. R \in [Blocks -> SUBSET Blocks] /\ A \in SUBSET Blocks
    BY <1>1
  <1>3. ASSUME NEW X \in SUBSET Blocks
        PROVE  Spread(R, X) = More(X)
    <2>1. \A c \in X : R[c] = Preds(c) \cap Free
      OBVIOUS
    <2> HIDE DEF R
    <2> QED BY <2>1 DEF Spread
  <1>4. PICK g \in [0..N -> SUBSET Blocks] : SpreadsTo(g, N, R, A)
    <2> HIDE DEF N, R, A
    <2> QED BY <1>1, <1>2, SpreadExists
  <1>5. g = Step(g)
    <2>1. \A i \in 0..N : i = 0 \/ (i \in 1..N /\ i - 1 \in 0..N /\ i # 0)
      BY <1>1
    <2>2. \A i \in 1..N : g[i] = Spread(R, g[i - 1])
      BY <1>4 DEF SpreadsTo
    <2>3. g[0] = A
      <3> HIDE DEF A
      <3> QED BY <1>4 DEF SpreadsTo
    <2> HIDE DEF N, R, More, A
    <2>4. \A i \in 0..N : g[i] = IF i = 0 THEN A ELSE More(g[i - 1])
      BY <1>3, <2>1, <2>2, <2>3
    <2> QED BY <2>4
  <1> DEFINE step == CHOOSE s : s = Step(s)
  <1>6. step = Step(step)
    <2> HIDE DEF Step
    <2> QED BY <1>5
  <1>7. ReachBack(b) = step[N]
    BY DEF ReachBack
  <1> HIDE DEF step
  <1>8. step[0] = A /\ \A i \in 1..N : step[i] = More(step[i - 1])
    <2>1. \A i \in 0..N : step[i] = IF i = 0 THEN A ELSE More(step[i - 1])
      <3> HIDE DEF More, N, A
      <3> QED BY <1>6
    <2>2. 0 \in 0..N /\ \A i \in 1..N : i \in 0..N /\ i # 0
      BY <1>1
    <2> HIDE DEF More, N, A
    <2> QED BY <2>1, <2>2
  <1>9. SpreadsTo(step, N, R, A)
    <2> DEFINE I == SUBSET Blocks
    <2>1. \A X \in I : More(X) \in I
      BY <1>1
    <2>2. step[0] \in I
      BY <1>8
    <2>3. \A i \in 0..N : step[i] \in I
      <3>1. \A i \in 1..N : step[i - 1] \in I => step[i] \in I
        <4> HIDE DEF More, N, I
        <4> QED BY <1>8, <2>1
      <3> HIDE DEF I, N, More
      <3> QED BY <1>1, <2>2, <3>1, IterationKeeps
    <2>4. \A i \in 1..N : i - 1 \in 0..N
      BY <1>1
    <2> HIDE DEF N, R, More, A
    <2> QED BY <1>3, <1>8, <2>3, <2>4 DEF SpreadsTo
  <1>10. /\ A \subseteq step[N] /\ step[N] \subseteq Blocks
         /\ ClosedUnder(R, step[N])
    <2> HIDE DEF N, R, A
    <2> QED BY <1>1, <1>2, <1>9, SpreadFacts
  <1>11. \A c \in step[N] : Preds(c) \cap Free \subseteq step[N]
    BY <1>10 DEF ClosedUnder
  <1>12. ASSUME NEW S, b \in S, \A c \in S \cap Blocks : Preds(c) \cap Free \subseteq S
         PROVE  step[N] \subseteq S
    <2>1. StaysIn(S, Blocks, R, A)
      BY <1>12 DEF StaysIn
    <2> HIDE DEF N, R, A
    <2> QED BY <1>1, <1>2, <1>9, <2>1, SpreadLeast
  <1>13. b \in step[N]
    BY <1>10
  <1> HIDE DEF N, More, Step, R, A
  <1> QED BY <1>7, <1>10, <1>11, <1>12, <1>13

(* Until components are collected no block has one.  Then the blocks with   *)
(* later positions have theirs: a member that stands for all the blocks it  *)
(* reaches and is reached from.                                             *)
Classified ==
    /\ pass = "live" \/ (pass = "regions" /\ phase = "order") =>
          \A n \in Nodes : component[n] = None
    /\ phase = "components" =>
          /\ \A n \in Dead : postorder[n] > 0
          /\ \A n \in Dead : postorder[n] > at => component[n] # None
          /\ \A n \in Dead : component[n] # None => component[n] \in Dead /\ Mutual(succs, component[n], n)
          /\ \A m, n \in Dead : component[n] # None /\ Mutual(succs, m, n) => component[m] = component[n]

(* Walking back from the latest block without a component collects the      *)
(* blocks on a cycle with it, and no others.                                *)
LEMMA CollectsCycle ==
    ASSUME IInv, LiveResult, RegionEdges, RegionSearch, LateMembers, Classified,
           pass = "regions", phase = "components",
           NEW b \in Dead, postorder[b] = at, component[b] = None
    PROVE  \A m \in Dead : m \in ReachBack(b) <=> Mutual(succs, m, b)
  <1>1. /\ WellFormed(targets) /\ Edged(Nodes, succs) /\ Dead \subseteq Nodes /\ Dead = Blocks \ Live
        /\ \A n \in Dead : Elements(succs[n]) \subseteq Dead
        /\ \A n \in Dead : From(succs, n) \subseteq Dead
    BY RegionTerms
  <1>2. Free = {n \in Dead : component[n] = None}
    BY <1>1 DEF Free, LiveResult
  <1>3. /\ \A m \in Nodes : Mutual(succs, m, m)
        /\ \A l, m, n \in Nodes : l \in From(succs, m) /\ m \in From(succs, n) => l \in From(succs, n)
        /\ \A m, n \in Nodes : Mutual(succs, m, n) => Mutual(succs, n, m)
        /\ \A l, m, n \in Nodes : Mutual(succs, l, m) /\ Mutual(succs, m, n) => Mutual(succs, l, n)
    BY <1>1, MutualFacts
  <1>4. \A n \in Dead : n \in From(succs, n) /\ \A x \in From(succs, n) : Elements(succs[x]) \subseteq From(succs, n)
    BY <1>1, FromFacts
  <1> DEFINE R == ReachBack(b)
  <1>5. /\ b \in R /\ R \subseteq Blocks
        /\ \A c \in R : Preds(c) \cap Free \subseteq R
        /\ \A S : b \in S /\ (\A c \in S \cap Blocks : Preds(c) \cap Free \subseteq S) => R \subseteq S
    BY <1>1, ReachBackFacts
  <1> HIDE DEF R
  <1>6. \A m, n \in Dead : component[n] # None /\ Mutual(succs, m, n) => component[m] = component[n]
    BY DEF Classified
  <1>7. R \subseteq {m \in Free : b \in From(succs, m)}
    <2> DEFINE S == {m \in Free : b \in From(succs, m)}
    <2>1. b \in S
      BY <1>2, <1>4
    <2>2. ASSUME NEW c \in S, NEW p \in Preds(c) \cap Free PROVE p \in S
      <3>1. p \in Dead /\ c \in Elements(succs[p]) /\ c \in Dead
        BY <1>2, <2>2 DEF Preds
      <3>2. c \in From(succs, p)
        BY <1>4, <3>1
      <3>3. b \in From(succs, p)
        BY <1>1, <1>3, <2>2, <3>1, <3>2
      <3> QED BY <3>3
    <2> HIDE DEF S
    <2>3. R \subseteq S
      BY <1>5, <2>1, <2>2
    <2> QED BY <2>3 DEF S
  <1>8. ASSUME NEW m \in Dead, m \in R
        PROVE  Mutual(succs, m, b)
    <2>1. component[m] = None /\ b \in From(succs, m)
      BY <1>2, <1>7, <1>8
    <2>2. postorder[b] > 0 /\ \A n \in Dead : postorder[n] > 0
      BY DEF Classified
    <2>3. PICK w \in Dead : Mutual(succs, w, m) /\ (postorder[w] = 0 \/ postorder[w] >= postorder[b])
      BY <2>1, <2>2 DEF LateMembers
    <2>4. component[w] = None
      BY <1>1, <1>3, <1>6, <2>1, <2>3
    <2>5. postorder[w] \in Nat /\ at \in Nat /\ postorder[w] > 0
      BY <1>1, <2>2, <2>3 DEF IInv, Typed
    <2>6. ~(postorder[w] > at)
      BY <2>4 DEF Classified
    <2>7. postorder[w] = postorder[b]
      BY <2>3, <2>5, <2>6
    <2>8. w = b
      BY <1>1, <2>2, <2>3, <2>7 DEF RegionSearch
    <2> QED BY <1>1, <1>3, <2>3, <2>8
  <1>9. ASSUME NEW m \in Dead, Mutual(succs, m, b), m \notin R
        PROVE  FALSE
    <2> DEFINE T == From(succs, m) \ R
    <2>1. m \in T
      BY <1>4, <1>9
    <2>2. ASSUME NEW x \in T, NEW z \in Elements(succs[x]) PROVE z \in T
      <3>1. x \in Dead /\ z \in From(succs, m) /\ z \in Elements(succs[x]) /\ z \in Dead /\ z \in From(succs, x)
        BY <1>1, <1>4, <2>2
      <3>2. ASSUME z \in R PROVE FALSE
        <4>1. b \in From(succs, z)
          BY <1>7, <3>2
        <4>2. b \in From(succs, x)
          BY <1>1, <1>3, <3>1, <4>1
        <4>3. x \in From(succs, b)
          BY <1>1, <1>3, <1>9, <2>2, <3>1 DEF Mutual
        <4>4. component[x] = None
          BY <1>6, <3>1, <4>2, <4>3 DEF Mutual
        <4>5. x \in Preds(z) \cap Free
          BY <1>1, <1>2, <3>1, <4>4 DEF Preds
        <4> QED BY <1>5, <2>2, <3>2, <4>5
      <3> QED BY <3>1, <3>2
    <2> HIDE DEF T
    <2>3. From(succs, m) \subseteq T
      BY <1>1, <2>1, <2>2, FromFacts
    <2>4. b \in From(succs, m)
      BY <1>9 DEF Mutual
    <2> QED BY <1>5, <2>3, <2>4 DEF T
  <1> QED BY <1>8, <1>9 DEF R

(* Collecting keeps what is known of the components.                        *)
LEMMA CollectClasses ==
    ASSUME IInv, LiveResult, RegionEdges, RegionSearch, LateMembers, Classified, pass = "regions", Collect
    PROVE  Classified'
  <1>1. /\ phase = "components" /\ at > 0 /\ at' = at - 1
        /\ UNCHANGED <<targets, pass, phase, succs, postorder>>
    BY DEF Collect, orderVars
  <1>2. PICK b \in Blocks \ reachable :
            /\ postorder[b] = at
            /\ component' = IF component[b] # None THEN component
                            ELSE [n \in Nodes |-> IF n \in ReachBack(b) THEN b ELSE component[n]]
    BY DEF Collect
  <1>3. /\ WellFormed(targets) /\ Edged(Nodes, succs) /\ Dead \subseteq Nodes /\ Dead = Blocks \ Live
    BY RegionTerms
  <1>4. b \in Dead /\ Dead' = Dead /\ Live' = Live /\ Blocks' = Blocks
    BY <1>1, <1>2, <1>3, PartsKept DEF LiveResult
  <1>5. /\ \A n \in Dead : postorder[n] > 0
        /\ \A n \in Dead : postorder[n] > at => component[n] # None
        /\ \A n \in Dead : component[n] # None => component[n] \in Dead /\ Mutual(succs, component[n], n)
        /\ \A m, n \in Dead : component[n] # None /\ Mutual(succs, m, n) => component[m] = component[n]
    BY <1>1 DEF Classified
  <1>6. \A n \in Dead : postorder[n] > at - 1 => postorder[n] > at \/ n = b
    <2>1. \A n \in Dead : postorder[n] \in Nat /\ at \in Nat
      BY <1>3 DEF IInv, Typed
    <2>2. \A n \in Dead : postorder[n] > 0 /\ postorder[n] = postorder[b] => n = b
      BY <1>3, <1>4 DEF RegionSearch
    <2>3. \A n \in Dead : postorder[n] > at - 1 => postorder[n] > at \/ postorder[n] = at
      BY <2>1
    <2> QED BY <1>2, <1>5, <2>2, <2>3
  <1>7. CASE component[b] # None
    <2>1. component' = component
      BY <1>2, <1>7
    <2>2. \A n \in Dead : postorder[n] > at' => component[n] # None
      BY <1>1, <1>5, <1>6, <1>7
    <2> QED BY <1>1, <1>4, <1>5, <2>1, <2>2 DEF Classified
  <1>8. CASE component[b] = None
    <2>1. \A n \in Dead : component'[n] = IF n \in ReachBack(b) THEN b ELSE component[n]
      BY <1>2, <1>3, <1>8
    <2>2. \A m \in Dead : m \in ReachBack(b) <=> Mutual(succs, m, b)
      BY <1>1, <1>2, <1>4, <1>8, CollectsCycle
    <2>3. /\ \A m \in Nodes : Mutual(succs, m, m)
          /\ \A m, n \in Nodes : Mutual(succs, m, n) => Mutual(succs, n, m)
          /\ \A l, m, n \in Nodes : Mutual(succs, l, m) /\ Mutual(succs, m, n) => Mutual(succs, l, n)
      BY <1>3, MutualFacts
    <2>4. b # None
      BY <1>3, <1>4, BlockFacts
    <2>5. \A n \in Dead : postorder[n] > at' => component'[n] # None
      <3>1. b \in ReachBack(b)
        BY <1>3, <1>4, <2>2, <2>3
      <3> QED BY <1>1, <1>5, <1>6, <2>1, <2>4, <3>1
    <2>6. \A n \in Dead : component'[n] # None => component'[n] \in Dead /\ Mutual(succs, component'[n], n)
      <3> SUFFICES ASSUME NEW n \in Dead, component'[n] # None
                   PROVE  component'[n] \in Dead /\ Mutual(succs, component'[n], n)
        OBVIOUS
      <3>1. CASE n \in ReachBack(b)
        BY <1>3, <1>4, <2>1, <2>2, <2>3, <3>1
      <3>2. CASE n \notin ReachBack(b)
        BY <1>5, <2>1, <3>2
      <3> QED BY <3>1, <3>2
    <2>7. ASSUME NEW m \in Dead, NEW n \in Dead, component'[n] # None, Mutual(succs, m, n)
          PROVE  component'[m] = component'[n]
      <3>1. m \in ReachBack(b) <=> n \in ReachBack(b)
        BY <1>3, <1>4, <2>2, <2>3, <2>7
      <3> QED BY <1>5, <2>1, <2>7, <3>1
    <2> QED BY <1>1, <1>4, <1>5, <2>5, <2>6, <2>7 DEF Classified
  <1> QED BY <1>7, <1>8

(* Every step keeps what is known of the components.                        *)
LEMMA ClassifiedStep ==
    ASSUME IInv, DomInv, RegionInv, Classified, [Next]_vars
    PROVE  Classified'
  <1>1. CASE Collect
    <2>1. pass = "regions"
      BY <1>1 DEF Collect, DomInv, Blank
    <2> QED BY <1>1, <2>1, CollectClasses DEF DomInv, RegionInv
  <1>2. CASE AllOrdered
    <2>1. /\ phase = "order" /\ pass = "regions" /\ stack = << >> /\ Unseen = {} /\ phase' = "components"
          /\ at' = count /\ UNCHANGED <<targets, pass, succs, postorder, component>>
      BY <1>2 DEF AllOrdered, orderVars, resultVars
    <2>2. Nodes' = Nodes /\ Dead' = Dead /\ Dead \subseteq Nodes /\ Dead = Blocks \ Live
      BY <2>1, PartsKept, RegionTerms DEF RegionInv
    <2>3. \A n : ~OnStack(n)
      BY <2>1 DEF OnStack
    <2>4. \A n \in Dead : postorder[n] > 0 /\ postorder[n] <= count /\ component[n] = None
      BY <2>1, <2>2, <2>3 DEF RegionInv, RegionSearch, Unseen, Classified
    <2>5. \A n \in Dead : ~(postorder[n] > count)
      <3>1. count \in Nat /\ \A n \in Dead : postorder[n] \in Nat
        BY <2>2 DEF IInv, Typed
      <3> QED BY <2>4, <3>1
    <2> QED BY <2>1, <2>2, <2>4, <2>5 DEF Classified
  <1>3. CASE LiveTreeEnd
    <2>1. pass = "live" /\ pass' = "regions" /\ phase' = "order" /\ UNCHANGED <<targets, component>>
      BY <1>3 DEF LiveTreeEnd
    <2>2. Nodes' = Nodes
      BY <2>1, PartsKept
    <2> QED BY <2>1, <2>2 DEF Classified
  <1>4. CASE BeginDead
    BY <1>4 DEF BeginDead, Classified
  <1>5. ASSUME UNCHANGED <<targets, pass, component>>, phase' # "components", pass = "regions" => phase = "order"
        PROVE  Classified'
    <2>1. Nodes' = Nodes
      BY <1>5, PartsKept
    <2> QED BY <1>5, <2>1 DEF Classified
  <1>6. CASE Visit \/ Leave \/ NextStart \/ Ordered
    <2>1. UNCHANGED <<targets, pass, component>> /\ phase' # "components" /\ phase = "order"
      BY <1>6 DEF Visit, Leave, NextStart, Ordered, resultVars
    <2> QED BY <1>5, <2>1
  <1>7. CASE BeginNode \/ BeginIntersect \/ RaiseFirst \/ RaiseSecond \/ EndIntersect
             \/ FinishNode \/ EndSweep \/ SweepsEnd
    <2>1. UNCHANGED <<targets, pass, component>> /\ phase' # "components" /\ Sweeping
      BY <1>7 DEF BeginNode, BeginIntersect, RaiseFirst, RaiseSecond, EndIntersect,
                  FinishNode, EndSweep, SweepsEnd, Sweeping, resultVars
    <2>2. pass # "regions"
      BY <2>1 DEF IInv, Processed
    <2> QED BY <1>5, <2>1, <2>2
  <1>8. CASE NumberChild \/ NumberEnd \/ DeadTreeEnd
    <2>1. UNCHANGED <<targets, pass, component>> /\ phase' # "components" /\ phase = "tree"
      BY <1>8 DEF NumberChild, NumberEnd, DeadTreeEnd, resultVars
    <2>2. pass # "regions"
      BY <2>1 DEF DomInv, TreeOfDominators
    <2> QED BY <1>5, <2>1, <2>2
  <1>9. CASE Done \/ UNCHANGED vars
    <2>1. UNCHANGED <<targets, pass, phase, succs, postorder, at, component>>
      BY <1>9 DEF Done, vars, orderVars, sweepVars, resultVars
    <2>2. Nodes' = Nodes /\ Dead' = Dead
      BY <2>1, PartsKept
    <2> QED BY <2>1, <2>2 DEF Classified
  <1> QED BY <1>1, <1>2, <1>3, <1>4, <1>6, <1>7, <1>8, <1>9 DEF Next

(* The blocks that are reached again from all that reach them, in the       *)
(* property's terms.                                                        *)
Starts == {b \in Dead : \A c \in Dead : b \in ReachedAvoiding({c}, {}) => c \in ReachedAvoiding({b}, {})}

(* They are the members of the sources, and from them all dead blocks are   *)
(* reached: among the blocks that reach one, the last to be left is a start.*)
LEMMA SourcesAreStarts ==
    ASSUME IInv, DomInv, RegionInv, Classified, pass = "regions", phase = "components", at = 0
    PROVE  /\ SourceMembers = Starts
           /\ \A b \in Dead : b \in ReachedAvoiding(Starts, {})
  <1>1. /\ WellFormed(targets) /\ Edged(Nodes, succs) /\ DeadEdged(succs)
        /\ Dead \subseteq Nodes /\ Dead = Blocks \ Live
        /\ \A n \in Dead : Elements(succs[n]) \subseteq Dead
        /\ \A n \in Dead : From(succs, n) \subseteq Dead
    BY RegionTerms DEF RegionInv
  <1>2. /\ \A m \in Nodes : Mutual(succs, m, m)
        /\ \A l, m, n \in Nodes : l \in From(succs, m) /\ m \in From(succs, n) => l \in From(succs, n)
        /\ \A m, n \in Nodes : Mutual(succs, m, n) => Mutual(succs, n, m)
        /\ \A l, m, n \in Nodes : Mutual(succs, l, m) /\ Mutual(succs, m, n) => Mutual(succs, l, n)
    BY <1>1, MutualFacts
  <1>3. \A n \in Dead : n \in From(succs, n) /\ \A x \in From(succs, n) : Elements(succs[x]) \subseteq From(succs, n)
    BY <1>1, FromFacts
  <1>4. ASSUME NEW b \in Dead, NEW c \in Dead
        PROVE  b \in ReachedAvoiding({c}, {}) <=> b \in From(succs, c)
    <2>1. {c} \subseteq Dead
      OBVIOUS
    <2>2. b \in ReachedAvoiding({c}, {}) <=> b \in Walked(succs, {c}, {})
      BY ONLY <1>1, <2>1, b \in Dead, DeadWalks
    <2> QED BY <2>2 DEF From
  <1>5. Starts = {b \in Dead : \A c \in Dead : b \in From(succs, c) => c \in From(succs, b)}
    BY <1>4 DEF Starts
  <1>6. \A m, n \in Dead : component[m] = component[n] <=> Mutual(succs, m, n)
    <2>1. \A n \in Dead : postorder[n] > 0
      BY DEF Classified
    <2>2. \A n \in Dead : component[n] # None
      BY <2>1 DEF Classified
    <2>3. \A n \in Dead : component[n] \in Dead /\ Mutual(succs, component[n], n)
      BY <2>2 DEF Classified
    <2>4. \A m, n \in Dead : Mutual(succs, m, n) => component[m] = component[n]
      BY <2>2 DEF Classified
    <2>5. ASSUME NEW m \in Dead, NEW n \in Dead, component[m] = component[n]
          PROVE  Mutual(succs, m, n)
      <3>1. Mutual(succs, component[m], m) /\ Mutual(succs, component[m], n) /\ component[m] \in Nodes
        BY <1>1, <2>3, <2>5
      <3>2. m \in Nodes /\ n \in Nodes
        BY <1>1
      <3> QED BY ONLY <1>2, <3>1, <3>2
    <2> QED BY <2>4, <2>5
  <1>7. SourceMembers = {n \in Dead : \A p, q \in Dead :
                            q \in Elements(succs[p]) /\ Mutual(succs, q, n) => Mutual(succs, p, q)}
    <2>1. Blocks \ reachable = Dead
      BY <1>1 DEF DomInv, LiveResult
    <2> QED BY <1>6, <2>1 DEF SourceMembers
  <1>8. ASSUME NEW n \in Starts, NEW p \in Dead, NEW q \in Dead, q \in Elements(succs[p]), Mutual(succs, q, n)
        PROVE  Mutual(succs, p, q)
    <2>1. n \in Dead /\ q \in From(succs, p)
      BY <1>3, <1>5, <1>8
    <2>2. n \in From(succs, p)
      BY <1>1, <1>2, <1>8, <2>1 DEF Mutual
    <2>3. p \in From(succs, n)
      BY <1>5, <2>2
    <2>4. p \in From(succs, q)
      BY <1>1, <1>2, <1>8, <2>1, <2>3 DEF Mutual
    <2> QED BY <2>1, <2>4 DEF Mutual
  <1>9. ASSUME NEW n \in SourceMembers, NEW c \in Dead, n \in From(succs, c), c \notin From(succs, n)
        PROVE  FALSE
    <2> DEFINE T == {x \in From(succs, c) : ~Mutual(succs, x, n)}
    <2>1. n \in Dead /\ c \in T
      BY <1>3, <1>7, <1>9 DEF Mutual
    <2>2. ASSUME NEW x \in T, NEW z \in Elements(succs[x]) PROVE z \in T
      <3>1. x \in Dead /\ z \in Dead /\ z \in From(succs, c)
        BY <1>1, <1>3, <2>2
      <3>2. ASSUME Mutual(succs, z, n) PROVE FALSE
        <4>1. Mutual(succs, x, z)
          BY <1>7, <2>2, <3>1, <3>2
        <4> QED BY <1>1, <1>2, <2>1, <2>2, <3>1, <3>2, <4>1
      <3> QED BY <3>1, <3>2
    <2> HIDE DEF T
    <2>3. From(succs, c) \subseteq T
      BY <1>1, <2>1, <2>2, FromFacts
    <2> QED BY <1>1, <1>2, <1>9, <2>1, <2>3 DEF T
  <1>10. SourceMembers = Starts
    <2>1. Starts \subseteq SourceMembers
      BY <1>5, <1>7, <1>8
    <2>2. SourceMembers \subseteq Starts
      BY <1>5, <1>7, <1>9
    <2> QED BY <2>1, <2>2
  <1>11. ASSUME NEW b \in Dead PROVE b \in ReachedAvoiding(Starts, {})
    <2> DEFINE T == {postorder[c] : c \in {c \in Dead : b \in From(succs, c)}}
    <2>1. count \in Nat /\ T \subseteq 0..count
      <3>1. count \in Nat /\ \A c \in Dead : postorder[c] \in Nat /\ postorder[c] <= count
        BY <1>1 DEF IInv, Typed, RegionInv, RegionSearch
      <3> QED BY <3>1
    <2>2. T # {}
      BY <1>3
    <2>3. PICK x \in T : \A y \in T : y <= x
      <3> HIDE DEF T
      <3> QED BY <2>1, <2>2, GreatestElement
    <2>4. PICK c \in Dead : b \in From(succs, c) /\ x = postorder[c]
      BY <2>3
    <2>5. \A d \in Dead : b \in From(succs, d) => postorder[d] <= postorder[c]
      BY <2>3, <2>4
    <2> HIDE DEF T
    <2>6. ASSUME NEW d \in Dead, c \in From(succs, d) PROVE d \in From(succs, c)
      <3>1. \A n \in Dead : postorder[n] > 0 /\ postorder[n] \in Nat
        BY <1>1 DEF Classified, IInv, Typed
      <3>2. PICK w \in Dead : Mutual(succs, w, d) /\ (postorder[w] = 0 \/ postorder[w] >= postorder[c])
        BY <2>6, <3>1 DEF RegionInv, LateMembers
      <3>3. c \in From(succs, w) /\ b \in From(succs, w)
        BY <1>1, <1>2, <2>4, <2>6, <3>2 DEF Mutual
      <3>4. postorder[w] = postorder[c] /\ postorder[w] > 0
        BY <2>5, <3>1, <3>2, <3>3
      <3>5. w = c
        BY <1>1, <3>4 DEF RegionInv, RegionSearch
      <3> QED BY <3>2, <3>5 DEF Mutual
    <2>7. c \in Starts
      BY <1>5, <2>6
    <2>8. Starts \subseteq Dead /\ Starts \subseteq Nodes
      BY <1>1 DEF Starts
    <2>9. c \in Walked(succs, Starts, {})
      <3>1. Starts \ {} \subseteq Walked(succs, Starts, {})
        BY <1>1, <2>8, WalkedFacts
      <3> QED BY <2>7, <3>1
    <2>10. Walked(succs, {c}, {}) \subseteq Walked(succs, Starts, {})
      BY <1>1, <2>8, <2>9, WalkedOn
    <2>11. b \in Walked(succs, Starts, {})
      BY <2>4, <2>10 DEF From
    <2> QED BY ONLY <1>1, <1>11, <2>8, <2>11, DeadWalks
  <1> QED BY <1>10, <1>11

(* An ascending enumeration of a finite set meets every member.             *)
LEMMA AscendingMeetsAll ==
    ASSUME NEW S, S \subseteq Nat, IsFiniteSet(S), NEW s \in Ascending(S)
    PROVE  Elements(s) = S
  <1> DEFINE k == Cardinality(S)
  <1>1. k \in Nat
    BY FS_CardinalityType
  <1>2. s \in [1..k -> S] /\ \A i, j \in 1..k : i < j => s[i] < s[j]
    BY DEF Ascending
  <1> HIDE DEF k
  <1>3. IsFiniteSet(1..k) /\ Cardinality(1..k) = k
    <2>1. Cardinality(1..k) = IF 1 > k THEN 0 ELSE k - 1 + 1
      BY <1>1, FS_Interval
    <2> QED BY <1>1, <2>1, FS_Interval
  <1>4. \A i, j \in 1..k : s[i] = s[j] => i = j
    <2>1. \A i \in 1..k : s[i] \in Nat /\ ~(s[i] < s[i])
      <3>1. \A i \in 1..k : s[i] \in Nat
        BY <1>2
      <3>2. \A x \in Nat : ~(x < x)
        OBVIOUS
      <3> QED BY <3>1, <3>2
    <2>2. \A i, j \in 1..k : i < j \/ j < i \/ i = j
      BY <1>1
    <2> QED BY <1>2, <2>1, <2>2
  <1>5. s \in Injection(1..k, S)
    BY <1>2, <1>4 DEF Injection, IsInjective
  <1>6. s \in Surjection(1..k, S)
    BY <1>3, <1>5, FS_Injection DEF k
  <1>7. DOMAIN s = 1..k /\ \A x \in S : \E i \in 1..k : s[i] = x
    BY <1>2, <1>6 DEF Surjection
  <1> QED BY <1>2, <1>7 DEF Elements

(* The virtual root leads to the starts, and from them everywhere.          *)
DeadRoots ==
    pass = "dead" =>
        /\ Elements(succs[VirtualRoot]) = Starts
        /\ \A b \in Dead : b \in ReachedAvoiding(Starts, {})

LEMMA DeadRootsStep ==
    ASSUME IInv, DomInv, RegionInv, Classified, DeadRoots, [Next]_vars
    PROVE  DeadRoots'
  <1>1. CASE BeginDead
    <2>1. phase = "components" /\ at = 0 /\ UNCHANGED targets
      BY <1>1 DEF BeginDead
    <2>2. pass = "regions"
      BY <2>1 DEF DomInv, Blank
    <2>3. PICK roots \in Ascending(SourceMembers) : succs' = [succs EXCEPT ![VirtualRoot] = roots]
      BY <1>1 DEF BeginDead
    <2>4. SourceMembers = Starts /\ \A b \in Dead : b \in ReachedAvoiding(Starts, {})
      BY <2>1, <2>2, SourcesAreStarts
    <2>5. WellFormed(targets) /\ DOMAIN succs = Nodes
      BY <2>2, RegionTerms DEF RegionInv
    <2>6. Starts \subseteq Blocks /\ Blocks \subseteq Nat /\ IsFiniteSet(Blocks) /\ VirtualRoot \in Nodes
      BY <2>5, BlocksCounted, BlockFacts, DeadFacts DEF Starts
    <2>7. IsFiniteSet(Starts)
      BY <2>6, FS_Subset
    <2>8. Elements(roots) = Starts
      BY <2>3, <2>4, <2>6, <2>7, AscendingMeetsAll
    <2>9. Elements(succs'[VirtualRoot]) = Starts
      BY <2>3, <2>5, <2>6, <2>8
    <2>10. /\ VirtualRoot' = VirtualRoot /\ Dead' = Dead /\ Starts' = Starts
           /\ ReachedAvoiding(Starts, {})' = ReachedAvoiding(Starts, {})
      BY <2>1, PartsKept DEF Starts, ReachedAvoiding
    <2> QED BY <2>4, <2>9, <2>10 DEF DeadRoots
  <1>2. ASSUME UNCHANGED <<targets, pass, succs>>
        PROVE  DeadRoots'
    <2>1. /\ VirtualRoot' = VirtualRoot /\ Dead' = Dead /\ Starts' = Starts
          /\ ReachedAvoiding(Starts, {})' = ReachedAvoiding(Starts, {})
      BY <1>2, PartsKept DEF Starts, ReachedAvoiding
    <2> QED BY <1>2, <2>1 DEF DeadRoots
  <1>3. CASE LiveTreeEnd
    BY <1>3 DEF LiveTreeEnd, DeadRoots
  <1>4. CASE Visit \/ Leave \/ Ordered \/ BeginNode \/ BeginIntersect \/ RaiseFirst \/ RaiseSecond
             \/ EndIntersect \/ FinishNode \/ EndSweep \/ SweepsEnd
    <2>1. UNCHANGED <<targets, pass, succs>>
      BY <1>4 DEF Visit, Leave, Ordered, BeginNode, BeginIntersect, RaiseFirst, RaiseSecond,
                  EndIntersect, FinishNode, EndSweep, SweepsEnd
    <2> QED BY <1>2, <2>1
  <1>5. CASE NumberChild \/ NumberEnd \/ DeadTreeEnd \/ NextStart \/ AllOrdered \/ Collect
    <2>1. UNCHANGED <<targets, pass, succs>>
      BY <1>5 DEF NumberChild, NumberEnd, DeadTreeEnd, NextStart, AllOrdered, Collect
    <2> QED BY <1>2, <2>1
  <1>6. CASE Done \/ UNCHANGED vars
    <2>1. UNCHANGED <<targets, pass, succs>>
      BY <1>6 DEF Done, vars
    <2> QED BY <1>2, <2>1
  <1> QED BY <1>1, <1>3, <1>4, <1>5, <1>6 DEF Next

(* What the dead pass leaves behind: all dead blocks are numbered, and the  *)
(* intervals answer for the walks from the starts.                          *)
DeadResult ==
    phase = "done" =>
        \A a, b \in Dead :
            /\ preorder["dead"][a] # None
            /\ b \notin ReachedAvoiding(Starts, {a}) <=> Within("dead", a, b)

LEMMA DeadTreeExact ==
    ASSUME IInv, DomInv, RegionInv, DeadRoots, pass = "dead", phase = "tree", stack = << >>
    PROVE  \A a, b \in Dead :
              /\ preorder["dead"][a] # None
              /\ b \notin ReachedAvoiding(Starts, {a}) <=> Within("dead", a, b)
  <1>1. /\ seen = Walked(succs, {Root}, {}) /\ seen \subseteq Nodes
        /\ \A n \in Nodes : preorder["dead"][n] # None <=> n \in seen
        /\ \A n \in seen : Above(idom, n) = DomsOf(succs, Root, n) /\ Above(idom, n) \subseteq seen
        /\ \A a, b \in seen : a \in Above(idom, b) <=> Within("dead", a, b)
    BY TreeExact DEF DomInv
  <1>2. /\ WellFormed(targets) /\ Edged(Nodes, succs) /\ DeadEdged(succs)
        /\ Dead \subseteq Nodes /\ Dead = Blocks \ Live /\ DOMAIN succs = Nodes
    BY RegionTerms DEF RegionInv
  <1>3. Root = VirtualRoot /\ VirtualRoot \in Nodes /\ VirtualRoot \notin Blocks
    BY <1>2, DeadFacts DEF Root
  <1>4. /\ Elements(succs[VirtualRoot]) = Starts /\ Starts \subseteq Dead
        /\ \A b \in Dead : b \in ReachedAvoiding(Starts, {})
    BY DEF DeadRoots, Starts
  <1>5. ASSUME NEW X, VirtualRoot \notin X, NEW b \in Dead
        PROVE  b \in Walked(succs, {Root}, X) <=> b \in ReachedAvoiding(Starts, X)
    <2>1. Walked(succs, {VirtualRoot}, X) = {VirtualRoot} \cup Walked(succs, Starts, X)
      BY ONLY <1>2, <1>3, <1>4, <1>5, RootedWalks
    <2>2. b \in Walked(succs, Starts, X) <=> b \in ReachedAvoiding(Starts, X)
      BY ONLY <1>2, <1>4, b \in Dead, DeadWalks
    <2>3. b # VirtualRoot
      BY <1>2, <1>3
    <2> QED BY <1>3, <2>1, <2>2, <2>3
  <1>6. Dead \subseteq seen
    <2>1. \A b \in Dead : b \in Walked(succs, {Root}, {})
      BY <1>4, <1>5
    <2> QED BY <1>1, <2>1
  <1>7. ASSUME NEW a \in Dead, NEW b \in Dead
        PROVE  /\ preorder["dead"][a] # None
               /\ b \notin ReachedAvoiding(Starts, {a}) <=> Within("dead", a, b)
    <2>1. a \in seen /\ b \in seen /\ a \in Nodes /\ VirtualRoot \notin {a}
      BY <1>2, <1>3, <1>6, <1>7
    <2>2. b \in Walked(succs, {Root}, {a}) <=> b \in ReachedAvoiding(Starts, {a})
      BY <1>5, <2>1
    <2>3. a \in Above(idom, b) <=> b \notin Walked(succs, {Root}, {a})
      BY <1>1, <1>2, <2>1 DEF DomsOf
    <2>4. a \in Above(idom, b) <=> Within("dead", a, b)
      BY <1>1, <2>1
    <2>5. preorder["dead"][a] # None
      BY <1>1, <2>1
    <2> QED BY <2>2, <2>3, <2>4, <2>5
  <1> QED BY <1>7

LEMMA DeadResultStep ==
    ASSUME IInv, DomInv, RegionInv, DeadRoots, DeadResult, [Next]_vars
    PROVE  DeadResult'
  <1>1. ASSUME UNCHANGED <<targets, preorder, subtreeEnd>>
        PROVE  /\ Dead' = Dead /\ \A a : ReachedAvoiding(Starts, {a})' = ReachedAvoiding(Starts, {a})
               /\ \A a, b : Within("dead", a, b)' <=> Within("dead", a, b)
    BY <1>1, PartsKept DEF Starts, ReachedAvoiding, Within
  <1>2. CASE DeadTreeEnd
    <2>1. /\ phase = "tree" /\ stack = << >> /\ pass = "dead"
          /\ UNCHANGED <<targets, preorder, subtreeEnd>>
      BY <1>2 DEF DeadTreeEnd, treeVars
    <2>2. \A a, b \in Dead :
              /\ preorder["dead"][a] # None
              /\ b \notin ReachedAvoiding(Starts, {a}) <=> Within("dead", a, b)
      BY <2>1, DeadTreeExact
    <2> QED BY <1>1, <2>1, <2>2 DEF DeadResult
  <1>3. CASE Done \/ UNCHANGED vars
    <2>1. UNCHANGED <<targets, phase, preorder, subtreeEnd>>
      BY <1>3 DEF Done, vars, treeVars
    <2> QED BY <1>1, <2>1 DEF DeadResult
  <1>4. CASE Visit \/ Leave \/ Ordered \/ BeginNode \/ BeginIntersect \/ RaiseFirst \/ RaiseSecond
             \/ EndIntersect \/ FinishNode \/ EndSweep \/ SweepsEnd
    <2>1. phase' # "done"
      BY <1>4 DEF Visit, Leave, Ordered, BeginNode, BeginIntersect, RaiseFirst, RaiseSecond,
                  EndIntersect, FinishNode, EndSweep, SweepsEnd
    <2> QED BY <2>1 DEF DeadResult
  <1>5. CASE NumberChild \/ NumberEnd \/ LiveTreeEnd \/ NextStart \/ AllOrdered \/ Collect \/ BeginDead
    <2>1. phase' # "done"
      BY <1>5 DEF NumberChild, NumberEnd, LiveTreeEnd, NextStart, AllOrdered, Collect, BeginDead
    <2> QED BY <2>1 DEF DeadResult
  <1> QED BY <1>2, <1>3, <1>4, <1>5 DEF Next

(* The invariant of the dead part as a whole.                               *)
DeadInv == RegionInv /\ Classified /\ DeadRoots /\ DeadResult

LEMMA DeadInvInit ==
    ASSUME Init, IInv
    PROVE  DeadInv
  <1>1. pass = "live" /\ phase = "order" /\ component = [n \in Nodes |-> None]
    BY DEF Init
  <1>2. RegionInv
    BY <1>1 DEF RegionInv, RegionEdges, RegionSearch, RegionStack, Returning, LateMembers
  <1> QED BY <1>1, <1>2 DEF DeadInv, Classified, DeadRoots, DeadResult

LEMMA DeadInvStep ==
    ASSUME IInv, IInv', DomInv, DeadInv, [Next]_vars
    PROVE  DeadInv'
  <1>1. RegionInv'
    BY RegionStep DEF DeadInv
  <1>2. Classified'
    BY ClassifiedStep DEF DeadInv
  <1>3. DeadRoots'
    BY DeadRootsStep DEF DeadInv
  <1>4. DeadResult'
    BY DeadResultStep DEF DeadInv
  <1> QED BY <1>1, <1>2, <1>3, <1>4 DEF DeadInv

(* It suffices for the answers about availability in dead code.             *)
LEMMA AvailabilityFromInvariant ==
    ASSUME IInv, DomInv, DeadInv
    PROVE  AvailabilityExact
  <1> DEFINE dead == Blocks \ Live
             reach == [b \in dead |-> ReachedAvoiding({b}, {})]
             starts == {b \in dead : \A c \in dead : b \in reach[c] => c \in reach[b]}
  <1> SUFFICES ASSUME phase = "done", NEW a \in dead, NEW b \in dead
               PROVE  DominatesForAvailability(a, b) <=> b \notin ReachedAvoiding(starts, {a})
    BY DEF AvailabilityExact
  <1>1. starts = Starts
    BY DEF Starts, Dead
  <1>2. reachable = Live
    BY DEF DomInv, Blank, LiveResult
  <1>3. preorder["dead"][a] # None /\ (b \notin ReachedAvoiding(Starts, {a}) <=> Within("dead", a, b))
    BY DEF DeadInv, DeadResult, Dead
  <1> HIDE DEF starts
  <1> QED BY <1>1, <1>2, <1>3 DEF DominatesForAvailability

(* dominates_for_availability answers exactly whether a definition in a     *)
(* dead block is met on every walk into another, from where nothing further *)
(* back can lead: Kosaraju's two traversals find the components, the        *)
(* sources among them begin every walk, and the dominators below the        *)
(* virtual root are those of these walks.                                   *)
THEOREM AvailabilityIsExact == Spec => []AvailabilityExact
  <1>1. Init /\ IInv => DomInv
    BY DomInvInit
  <1>2. IInv /\ IInv' /\ DomInv /\ [Next]_vars => DomInv'
    BY DomInvStep
  <1>3. Init /\ IInv => DeadInv
    BY DeadInvInit
  <1>4. IInv /\ IInv' /\ DomInv /\ DeadInv /\ [Next]_vars => DeadInv'
    BY DeadInvStep
  <1>5. IInv /\ DomInv /\ DeadInv => AvailabilityExact
    BY AvailabilityFromInvariant
  <1> QED
    BY <1>1, <1>2, <1>3, <1>4, <1>5, Invariance, PTL DEF Spec

-----------------------------------------------------------------------------
(* The bounds of TypeOK.  No counter passes the number of nodes, because    *)
(* each number handed out is the number of some node.                       *)
Bound == Len(targets) + 1

LEMMA CountersBounded ==
    ASSUME NEW N \in Nat, NEW k \in Nat, NEW f, \A i \in 1..k : \E n \in 1..N : f[n] = i
    PROVE  k <= N
  <1> DEFINE g == [i \in 1..k |-> CHOOSE n \in 1..N : f[n] = i]
  <1>1. \A i \in 1..k : g[i] \in 1..N /\ f[g[i]] = i
    OBVIOUS
  <1>2. g \in [1..k -> 1..N]
    BY <1>1
  <1> HIDE DEF g
  <1>3. g \in Injection(1..k, 1..N)
    BY <1>1, <1>2 DEF Injection, IsInjective
  <1>4. \A m \in Nat : IsFiniteSet(1..m) /\ Cardinality(1..m) = m
    <2> SUFFICES ASSUME NEW m \in Nat PROVE IsFiniteSet(1..m) /\ Cardinality(1..m) = m
      OBVIOUS
    <2>1. Cardinality(1..m) = IF 1 > m THEN 0 ELSE m - 1 + 1
      BY FS_Interval
    <2> QED BY <2>1, FS_Interval
  <1>5. Cardinality(1..k) <= Cardinality(1..N)
    BY <1>3, <1>4, FS_Injection
  <1> QED BY <1>4, <1>5

(* A terminator has at most two targets, the virtual root at most as many   *)
(* as there are blocks.                                                     *)
FewEdges == \A n \in Nodes : Len(succs[n]) <= Bound

LEMMA BlockEdgesFew ==
    ASSUME WellFormed(targets), NEW b \in Blocks, NEW live
    PROVE  Len(Edges(b)) <= 2 /\ Len(DeadSuccs(b, live)) <= 2
  <1>1. targets[b] \in Seq(Nat) /\ Len(targets[b]) <= 2
    BY DEF WellFormed, Blocks
  <1>2. Len(Edges(b)) <= 2
    BY <1>1 DEF Edges
  <1> QED BY <1>2 DEF DeadSuccs

LEMMA FewEdgesStep ==
    ASSUME IInv, FewEdges, [Next]_vars
    PROVE  FewEdges'
  <1>1. /\ WellFormed(targets) /\ Len(targets) \in Nat /\ Bound \in Nat /\ Bound >= 2 /\ 0 <= Bound
        /\ Blocks \subseteq Nodes /\ Nodes = 1..Bound /\ VirtualRoot \in Nodes
    BY BlockFacts DEF IInv, Typed, Bound, Nodes, VirtualRoot
  <1>2. UNCHANGED targets => Nodes' = Nodes /\ Bound' = Bound
    BY PartsKept DEF Bound
  <1>3. CASE LiveTreeEnd
    <2>1. succs' = DeadEdges(seen) /\ UNCHANGED targets
      BY <1>3 DEF LiveTreeEnd
    <2>2. ASSUME NEW n \in Nodes PROVE Len(succs'[n]) <= Bound
      <3>1. CASE n \in Blocks \ seen
        <4>1. succs'[n] = DeadSuccs(n, seen) /\ Len(DeadSuccs(n, seen)) <= 2
          BY <1>1, <2>1, <3>1, BlockEdgesFew DEF DeadEdges
        <4>2. DeadSuccs(n, seen) \in Seq(Nodes)
          <5>1. DeadEdges(seen) \in [Nodes -> Seq(Nodes)]
            BY <1>1, DeadEdgesType
          <5> QED BY <2>1, <4>1, <5>1
        <4>3. Len(DeadSuccs(n, seen)) \in Nat
          BY <4>2
        <4> QED BY <1>1, <4>1, <4>3
      <3>2. CASE n \notin Blocks \ seen
        <4>1. succs'[n] = << >>
          BY <2>1, <3>2 DEF DeadEdges
        <4> QED BY <1>1, <4>1
      <3> QED BY <3>1, <3>2
    <2> QED BY <1>2, <2>1, <2>2 DEF FewEdges
  <1>4. CASE BeginDead
    <2>1. PICK roots \in Ascending(SourceMembers) : succs' = [succs EXCEPT ![VirtualRoot] = roots]
      BY <1>4 DEF BeginDead
    <2>2. UNCHANGED targets
      BY <1>4 DEF BeginDead
    <2> DEFINE k == Cardinality(SourceMembers)
    <2>3. k \in Nat /\ k <= Bound
      <3>1. Cardinality(1..Bound) = IF 1 > Bound THEN 0 ELSE Bound - 1 + 1
        BY <1>1, FS_Interval
      <3>2. IsFiniteSet(1..Bound) /\ Cardinality(1..Bound) = Bound
        BY <1>1, <3>1, FS_Interval
      <3>3. SourceMembers \subseteq 1..Bound
        BY <1>1 DEF SourceMembers
      <3> QED BY <3>2, <3>3, FS_Subset, FS_CardinalityType
    <2>4. roots \in [1..k -> SourceMembers]
      BY <2>1 DEF Ascending
    <2> HIDE DEF k
    <2>5. Len(roots) = k
      BY <2>3, <2>4
    <2>6. succs \in [Nodes -> Seq(Nodes)]
      BY DEF IInv, Typed
    <2>7. \A n \in Nodes : Len(succs'[n]) <= Bound
      BY <1>1, <2>1, <2>3, <2>5, <2>6 DEF FewEdges
    <2> QED BY <1>2, <2>2, <2>7 DEF FewEdges
  <1>5. ASSUME UNCHANGED <<targets, succs>> PROVE FewEdges'
    BY <1>2, <1>5 DEF FewEdges
  <1>6. CASE Visit \/ Leave \/ Ordered \/ BeginNode \/ BeginIntersect \/ RaiseFirst \/ RaiseSecond
             \/ EndIntersect \/ FinishNode \/ EndSweep \/ SweepsEnd
    BY <1>5, <1>6 DEF Visit, Leave, Ordered, BeginNode, BeginIntersect, RaiseFirst, RaiseSecond,
                  EndIntersect, FinishNode, EndSweep, SweepsEnd
  <1>7. CASE NumberChild \/ NumberEnd \/ DeadTreeEnd \/ NextStart \/ AllOrdered \/ Collect
    BY <1>5, <1>7 DEF NumberChild, NumberEnd, DeadTreeEnd, NextStart, AllOrdered, Collect
  <1>8. CASE Done \/ UNCHANGED vars
    BY <1>5, <1>8 DEF Done, vars
  <1> QED BY <1>3, <1>4, <1>6, <1>7, <1>8 DEF Next

(* The entries of the stack: as many successors are done as there are, or   *)
(* the last child is a node.                                                *)
FewDone == \A i \in DOMAIN stack : stack[i].done <= Bound

LEMMA FewDoneStep ==
    ASSUME IInv, FewEdges, FewDone, [Next]_vars
    PROVE  FewDone'
  <1>1. /\ WellFormed(targets) /\ Bound \in Nat /\ Nodes = 1..Bound /\ Typed
        /\ succs \in [Nodes -> Seq(Nodes)]
    BY BlockFacts DEF IInv, Typed, Bound, Nodes, VirtualRoot
  <1>2. UNCHANGED targets => Bound' = Bound
    BY DEF Bound
  <1>3. DOMAIN stack = 1..Len(stack) /\ Len(stack) \in Nat
    BY Terms
  <1>4. CASE Visit
    <2>1. UNCHANGED targets /\ Top.done < Len(succs[Top.node])
      BY <1>4 DEF Visit
    <2> DEFINE n == Len(stack)
    <2>2. PICK s \in Nodes : /\ Top.node \in Nodes /\ Top.done \in Nat /\ Top = stack[n]
                             /\ Advanced(stack, stack', n, s, s \notin seen)
      BY <1>4, VisitTerms
    <2>3. Len(succs[Top.node]) \in Nat /\ Len(succs[Top.node]) <= Bound
      BY <1>1, <2>2 DEF FewEdges
    <2>4. Top.done + 1 <= Bound
      BY <1>1, <2>1, <2>2, <2>3
    <2> HIDE DEF n
    <2>5. ASSUME NEW i \in DOMAIN stack' PROVE stack'[i].done <= Bound
      <3>1. \/ i \in 1..(n - 1) /\ i \in DOMAIN stack /\ stack'[i] = stack[i]
            \/ stack'[i].done = Top.done + 1
            \/ stack'[i].done = 0
        BY <2>2 DEF Advanced
      <3> QED BY <1>1, <2>4, <3>1 DEF FewDone
    <2> QED BY <1>2, <2>1, <2>5 DEF FewDone
  <1>5. CASE Leave \/ NumberEnd
    <2>1. UNCHANGED targets /\ stack # << >> /\ stack' = Below
      BY <1>5 DEF Leave, NumberEnd
    <2>2. /\ Below \in Seq(Frames) /\ Len(Below) = Len(stack) - 1
          /\ \A i \in 1..(Len(stack) - 1) : Below[i] = stack[i]
      BY <1>1, <2>1, StackFacts
    <2> DEFINE n == Len(stack)
    <2> HIDE DEF n
    <2>3. DOMAIN stack' = 1..(n - 1) /\ \A i \in 1..(n - 1) : i \in DOMAIN stack /\ stack'[i] = stack[i]
      BY <1>3, <2>1, <2>2 DEF n
    <2> QED BY <1>2, <2>1, <2>3 DEF FewDone
  <1>6. CASE NumberChild
    <2>1. PICK c \in ChildrenLeft(Top) : stack' = Append(Append(Below, [Top EXCEPT !.done = c]), Enter(c))
      BY <1>6 DEF NumberChild
    <2>2. UNCHANGED targets /\ stack # << >> /\ c \in Nodes /\ c \in Nat
      BY <1>1, <1>6, <2>1 DEF NumberChild, ChildrenLeft, Children
    <2> DEFINE n == Len(stack)
    <2>a. Typed /\ stack # << >> /\ c \in Nat /\ c \in Nodes
      BY <1>1, <2>2
    <2>c. n \in Nat /\ n > 0 /\ DOMAIN stack = 1..n /\ Top = stack[n]
      BY <1>1, <2>2, StackFacts
    <2>b. Pushed(stack', stack, n, c)
      <3> DEFINE advanced == Append(Below, [Top EXCEPT !.done = c])
                 pushed == Append(advanced, Enter(c))
      <3>1. /\ n \in Nat /\ n > 0 /\ DOMAIN stack = 1..n /\ Top = stack[n]
            /\ DOMAIN advanced = 1..n /\ DOMAIN pushed = 1..(n + 1)
            /\ \A i \in 1..(n - 1) : advanced[i] = stack[i] /\ pushed[i] = stack[i]
            /\ advanced[n].node = Top.node /\ advanced[n].done = c
            /\ pushed[n].node = Top.node /\ pushed[n].done = c
            /\ pushed[n + 1].node = c /\ pushed[n + 1].done = 0
            /\ \A i \in 1..n : advanced[i].node = stack[i].node /\ pushed[i].node = stack[i].node
        BY ONLY <2>a, TopReplaced
      <3>2. stack' = pushed
        BY <2>1
      <3> HIDE DEF n, advanced, pushed
      <3> QED BY <3>1, <3>2 DEF Pushed
    <2> HIDE DEF n
    <2>3. /\ n \in Nat /\ n > 0 /\ DOMAIN stack = 1..n /\ DOMAIN stack' = 1..(n + 1)
          /\ \A i \in 1..(n - 1) : stack'[i] = stack[i]
          /\ stack'[n].done = c /\ stack'[n + 1].done = 0
      BY <2>b, <2>c DEF Pushed
    <2>4. \A i \in 1..(n + 1) : (i \in 1..(n - 1) /\ i \in 1..n) \/ i = n \/ i = n + 1
      BY <2>3
    <2>5. c <= Bound /\ 0 <= Bound
      BY <1>1, <2>2
    <2>6. \A i \in DOMAIN stack' : stack'[i].done <= Bound
      BY <2>3, <2>4, <2>5 DEF FewDone
    <2> QED BY <1>2, <2>2, <2>6 DEF FewDone
  <1>7. CASE SweepsEnd \/ NextStart \/ BeginDead
    <2>1. UNCHANGED targets /\ \E x : stack' = <<Enter(x)>>
      BY <1>7 DEF SweepsEnd, NextStart, BeginDead
    <2>2. DOMAIN stack' = {1} /\ stack'[1].done = 0
      BY <2>1 DEF Enter
    <2> QED BY <1>1, <1>2, <2>1, <2>2 DEF FewDone
  <1>8. ASSUME UNCHANGED <<targets, stack>> PROVE FewDone'
    BY <1>2, <1>8 DEF FewDone
  <1>9. CASE Ordered \/ BeginNode \/ BeginIntersect \/ RaiseFirst \/ RaiseSecond
             \/ EndIntersect \/ FinishNode \/ EndSweep
    BY <1>8, <1>9 DEF Ordered, BeginNode, BeginIntersect, RaiseFirst, RaiseSecond,
                  EndIntersect, FinishNode, EndSweep, orderVars
  <1>10. CASE LiveTreeEnd \/ DeadTreeEnd \/ AllOrdered \/ Collect
    BY <1>8, <1>10 DEF LiveTreeEnd, DeadTreeEnd, AllOrdered, Collect, orderVars
  <1>11. CASE Done \/ UNCHANGED vars
    BY <1>8, <1>11 DEF Done, vars, orderVars
  <1> QED BY <1>4, <1>5, <1>6, <1>7, <1>9, <1>10, <1>11 DEF Next

(* Every position handed out is the position of a node, so there are at     *)
(* most as many as there are nodes.                                         *)
Counted == \A k \in 1..count : \E n \in Nodes : postorder[n] = k
OrderBounded == Counted /\ at <= Bound

LEMMA OrderBoundedStep ==
    ASSUME IInv, IInv', RegionInv, OrderBounded, [Next]_vars
    PROVE  OrderBounded'
  <1>1. /\ Bound \in Nat /\ Nodes = 1..Bound /\ count \in Nat /\ at \in Nat /\ at' \in Nat
        /\ postorder \in [Nodes -> Nat]
    BY BlockFacts DEF IInv, Typed, Bound, Nodes, VirtualRoot
  <1>2. count <= Bound
    <2>1. \A k \in 1..count : \E n \in 1..Bound : postorder[n] = k
      BY <1>1 DEF OrderBounded, Counted
    <2> QED BY ONLY <1>1, <2>1, CountersBounded
  <1>3. UNCHANGED targets => Nodes' = Nodes /\ Bound' = Bound
    BY PartsKept DEF Bound
  <1>4. CASE Leave
    <2>1. /\ UNCHANGED <<targets, at>> /\ count' = count + 1 /\ stack # << >> /\ phase = "order"
          /\ postorder' = [postorder EXCEPT ![Top.node] = count + 1]
      BY <1>4 DEF Leave, sweepVars
    <2>2. Top.node \in Nodes /\ Top = stack[Len(stack)] /\ Len(stack) \in DOMAIN stack
      BY <2>1, StackFacts, Terms DEF IInv
    <2>3. postorder[Top.node] = 0
      BY <2>1, <2>2 DEF IInv, StackIsPath, RegionInv, RegionStack
    <2>4. ASSUME NEW k \in 1..count' PROVE \E n \in Nodes : postorder'[n] = k
      <3>1. CASE k = count + 1
        BY <1>1, <2>1, <2>2, <3>1
      <3>2. CASE k # count + 1
        <4>1. k \in 1..count
          BY <1>1, <2>1, <2>4, <3>2
        <4>2. PICK n \in Nodes : postorder[n] = k
          BY <4>1 DEF OrderBounded, Counted
        <4>3. n # Top.node
          BY <2>3, <4>1, <4>2
        <4> QED BY <1>1, <2>1, <4>2, <4>3
      <3> QED BY <3>1, <3>2
    <2> QED BY <1>3, <2>1, <2>4 DEF OrderBounded, Counted
  <1>5. CASE LiveTreeEnd \/ BeginDead
    <2>1. UNCHANGED <<targets, at>> /\ count' = 0
      BY <1>5 DEF LiveTreeEnd, BeginDead, sweepVars
    <2>2. 1..count' = {}
      BY <2>1
    <2> QED BY <1>3, <2>1, <2>2 DEF OrderBounded, Counted
  <1>6. ASSUME UNCHANGED <<targets, postorder, count>>, at' <= Bound PROVE OrderBounded'
    BY <1>3, <1>6 DEF OrderBounded, Counted
  <1>7. CASE Ordered \/ EndSweep \/ AllOrdered
    <2>1. UNCHANGED <<targets, postorder, count>> /\ (at' = count \/ at' = count - 1)
      BY <1>7 DEF Ordered, EndSweep, AllOrdered, orderVars
    <2>2. at' <= Bound
      BY <1>1, <1>2, <2>1
    <2> QED BY <1>6, <2>1, <2>2
  <1>8. CASE BeginNode \/ FinishNode \/ Collect
    <2>1. UNCHANGED <<targets, postorder, count>> /\ (at' = at \/ at' = at - 1)
      BY <1>8 DEF BeginNode, FinishNode, Collect, orderVars
    <2>2. at' <= Bound
      BY <1>1, <2>1 DEF OrderBounded
    <2> QED BY <1>6, <2>1, <2>2
  <1>9. ASSUME UNCHANGED <<targets, postorder, count, at>> PROVE OrderBounded'
    BY <1>6, <1>9 DEF OrderBounded
  <1>10. CASE Visit \/ BeginIntersect \/ RaiseFirst \/ RaiseSecond \/ EndIntersect \/ SweepsEnd
    BY <1>9, <1>10 DEF Visit, BeginIntersect, RaiseFirst, RaiseSecond, EndIntersect, SweepsEnd,
                       orderVars, sweepVars
  <1>11. CASE NumberChild \/ NumberEnd \/ DeadTreeEnd \/ NextStart
    BY <1>9, <1>11 DEF NumberChild, NumberEnd, DeadTreeEnd, NextStart, orderVars, sweepVars
  <1>12. CASE Done \/ UNCHANGED vars
    BY <1>9, <1>12 DEF Done, vars, orderVars, sweepVars
  <1> QED BY <1>4, <1>5, <1>7, <1>8, <1>10, <1>11, <1>12 DEF Next

(* Every preorder number handed out is the number of a node of the tree.    *)
Numbers ==
    /\ numbered \in Nat /\ numbered <= Bound
    /\ \A p \in Passes : \A n \in Nodes :
          preorder[p][n] <= Bound /\ subtreeEnd[p][n] <= Bound + 1
    /\ phase = "tree" => \A k \in 1..numbered : \E n \in Nodes : preorder[pass][n] = k

LEMMA NumbersStep ==
    ASSUME IInv, DomInv, Numbers, [Next]_vars
    PROVE  Numbers'
  <1>1. /\ Bound \in Nat /\ 1 <= Bound /\ Nodes = 1..Bound /\ Root \in Nodes /\ pass \in Passes
        /\ preorder \in [Passes -> [Nodes -> Nat]] /\ subtreeEnd \in [Passes -> [Nodes -> Nat]]
    <2>1. Bound \in Nat /\ 1 <= Bound /\ Nodes = 1..Bound
      BY BlockFacts DEF IInv, Typed, Bound, Nodes, VirtualRoot
    <2>2. Root \in Nodes /\ pass \in Passes
      BY Terms DEF IInv, Typed
    <2> QED BY <2>1, <2>2 DEF DomInv, Blank
  <1>a. /\ numbered \in Nat /\ numbered <= Bound
        /\ \A p \in Passes : \A n \in Nodes :
              /\ preorder[p][n] <= Bound /\ subtreeEnd[p][n] <= Bound + 1
              /\ preorder[p][n] \in Nat /\ subtreeEnd[p][n] \in Nat
    BY <1>1 DEF Numbers
  <1>2. UNCHANGED targets => Nodes' = Nodes /\ Bound' = Bound
    BY PartsKept DEF Bound
  <1>3. CASE SweepsEnd
    <2>1. /\ UNCHANGED <<targets, pass, subtreeEnd>> /\ numbered' = 1
          /\ preorder' = [preorder EXCEPT ![pass][Root] = 1]
      BY <1>3 DEF SweepsEnd
    <2>2. preorder'[pass][Root] = 1 /\ \A p \in Passes : \A n \in Nodes :
              preorder'[p][n] = preorder[p][n] \/ preorder'[p][n] = 1
      BY <1>1, <2>1
    <2>3. \A p \in Passes : \A n \in Nodes : preorder'[p][n] <= Bound
      BY ONLY <1>1, <1>a, <2>2
    <2>4. \A k \in 1..numbered' : \E n \in Nodes : preorder'[pass'][n] = k
      BY <1>1, <2>1, <2>2
    <2>5. \A p \in Passes : \A n \in Nodes : subtreeEnd'[p][n] <= Bound + 1
      BY <2>1 DEF Numbers
    <2>6. Nodes' = Nodes /\ Bound' = Bound /\ pass' = pass /\ numbered' \in Nat /\ numbered' <= Bound
      BY <1>1, <1>2, <2>1
    <2> QED BY ONLY <2>3, <2>4, <2>5, <2>6 DEF Numbers
  <1>4. CASE NumberChild
    <2>1. PICK c \in ChildrenLeft(Top) : preorder' = [preorder EXCEPT ![pass][c] = numbered + 1]
      BY <1>4 DEF NumberChild
    <2>2. UNCHANGED <<targets, pass, phase, subtreeEnd>> /\ numbered' = numbered + 1 /\ phase = "tree" /\ stack # << >>
      BY <1>4 DEF NumberChild
    <2>3. Top = stack[Len(stack)] /\ Len(stack) \in DOMAIN stack
      BY <2>2, StackFacts, Terms DEF IInv
    <2>4. c \in Nodes /\ c \in Nat /\ idom[c] = Top.node /\ c > Top.done
      BY <1>1, <2>1 DEF ChildrenLeft, Children
    <2>5. preorder[pass][c] = None
      <3>1. Top.done \in Nat /\ DOMAIN idom = Nodes
        BY <2>3, Terms DEF Linked
      <3>2. WalkDown(idom, Root, stack, preorder[pass], subtreeEnd[pass], numbered)
        BY <2>2 DEF DomInv, TreeWalk
      <3>3. preorder[pass][c] # None <=> c <= Top.done
        BY ONLY <2>3, <2>4, <3>1, <3>2 DEF WalkDown
      <3> QED BY <2>4, <3>1, <3>3
    <2>6. /\ preorder'[pass][c] = numbered + 1
          /\ \A p \in Passes : \A n \in Nodes :
                preorder'[p][n] = preorder[p][n] \/ preorder'[p][n] = numbered + 1
          /\ \A n \in Nodes : n # c => preorder'[pass][n] = preorder[pass][n]
      BY <1>1, <2>1, <2>4
    <2>7. ASSUME NEW k \in 1..(numbered + 1) PROVE \E n \in Nodes : preorder'[pass][n] = k
      <3>1. CASE k = numbered + 1
        BY <2>4, <2>6, <3>1
      <3>2. CASE k # numbered + 1
        <4>1. k \in 1..numbered /\ k # None
          BY <2>7, <3>2 DEF Numbers, None
        <4>2. PICK n \in Nodes : preorder[pass][n] = k
          BY <2>2, <4>1 DEF Numbers
        <4> QED BY <2>5, <2>6, <4>1, <4>2
      <3> QED BY <3>1, <3>2
    <2>8. numbered + 1 \in Nat /\ numbered + 1 <= Bound
      <3> DEFINE m == numbered + 1
                 f == preorder'[pass]
      <3>1. m \in Nat /\ \A k \in 1..m : \E n \in 1..Bound : f[n] = k
        BY <1>1, <2>7 DEF Numbers
      <3> HIDE DEF m, f
      <3>2. m <= Bound
        BY ONLY <1>1, <3>1, CountersBounded
      <3> QED BY <3>1, <3>2 DEF m
    <2>9. \A p \in Passes : \A n \in Nodes : preorder'[p][n] <= Bound
      BY <2>6, <2>8 DEF Numbers
    <2>10. \A p \in Passes : \A n \in Nodes : subtreeEnd'[p][n] <= Bound + 1
      BY <2>2 DEF Numbers
    <2> QED BY <1>2, <2>2, <2>7, <2>8, <2>9, <2>10 DEF Numbers
  <1>5. CASE NumberEnd
    <2>1. /\ UNCHANGED <<targets, pass, phase, preorder, numbered>> /\ stack # << >>
          /\ subtreeEnd' = [subtreeEnd EXCEPT ![pass][Top.node] = numbered + 1]
      BY <1>5 DEF NumberEnd
    <2>2. Top.node \in Nodes
      BY <2>1, StackFacts DEF IInv
    <2>3. \A p \in Passes : \A n \in Nodes :
              subtreeEnd'[p][n] = subtreeEnd[p][n] \/ subtreeEnd'[p][n] = numbered + 1
      BY <1>1, <2>1, <2>2
    <2>4. \A p \in Passes : \A n \in Nodes : subtreeEnd'[p][n] <= Bound + 1
      <3>1. numbered + 1 <= Bound + 1
        BY ONLY <1>1, <1>a
      <3>2. \A p \in Passes : \A n \in Nodes : subtreeEnd[p][n] <= Bound + 1
        BY <1>a
      <3> QED BY ONLY <2>3, <3>1, <3>2
    <2> QED BY <1>2, <2>1, <2>4 DEF Numbers
  <1>6. ASSUME UNCHANGED <<targets, preorder, subtreeEnd, numbered>>, phase' # "tree" \/ UNCHANGED <<pass, phase>>
        PROVE  Numbers'
    BY <1>2, <1>6 DEF Numbers
  <1>7. CASE Visit \/ Leave \/ NextStart \/ BeginNode \/ FinishNode \/ EndSweep \/ RaiseFirst \/ RaiseSecond \/ Collect
    BY <1>6, <1>7 DEF Visit, Leave, NextStart, BeginNode, FinishNode, EndSweep, RaiseFirst, RaiseSecond,
                      Collect, treeVars
  <1>8. CASE Ordered \/ BeginIntersect \/ EndIntersect \/ LiveTreeEnd \/ DeadTreeEnd \/ AllOrdered \/ BeginDead
    BY <1>6, <1>8 DEF Ordered, BeginIntersect, EndIntersect, LiveTreeEnd, DeadTreeEnd, AllOrdered, BeginDead,
                      treeVars
  <1>9. CASE Done \/ UNCHANGED vars
    BY <1>6, <1>9 DEF Done, vars, treeVars
  <1> QED BY <1>3, <1>4, <1>5, <1>7, <1>8, <1>9 DEF Next

(* The types of what only later steps read.                                 *)
ResultTypes ==
    /\ changed \in BOOLEAN
    /\ component \in [Nodes -> Nodes \cup {None}]
    /\ reachable \subseteq Nodes
    /\ frontier \in [Nodes -> SUBSET Nodes]

LEMMA ResultTypesStep ==
    ASSUME IInv, ResultTypes, [Next]_vars
    PROVE  ResultTypes'
  <1>1. Blocks \subseteq Nodes /\ seen \subseteq Nodes
    BY BlockFacts DEF IInv, Typed
  <1>2. UNCHANGED targets => Nodes' = Nodes
    BY PartsKept
  <1>3. CASE Ordered \/ EndSweep
    <2>1. UNCHANGED <<targets, component, reachable, frontier>> /\ changed' = FALSE
      BY <1>3 DEF Ordered, EndSweep, resultVars
    <2> QED BY <1>2, <2>1 DEF ResultTypes
  <1>4. CASE FinishNode
    <2>1. UNCHANGED <<targets, component, reachable, frontier>>
      BY <1>4 DEF FinishNode, resultVars
    <2>2. changed' \in BOOLEAN
      BY <1>4 DEF FinishNode
    <2> QED BY <1>2, <2>1, <2>2 DEF ResultTypes
  <1>5. CASE Collect
    <2>1. UNCHANGED <<targets, changed, reachable, frontier>>
      BY <1>5 DEF Collect
    <2>2. PICK b \in Blocks : component' = IF component[b] # None THEN component
                              ELSE [n \in Nodes |-> IF n \in ReachBack(b) THEN b ELSE component[n]]
      BY <1>5 DEF Collect
    <2>3. component' \in [Nodes -> Nodes \cup {None}]
      BY <1>1, <2>2 DEF ResultTypes
    <2> QED BY <1>2, <2>1, <2>3 DEF ResultTypes
  <1>6. CASE LiveTreeEnd
    <2>1. UNCHANGED <<targets, changed, component>> /\ reachable' = seen /\ frontier' = Frontiers
      BY <1>6 DEF LiveTreeEnd, sweepVars
    <2>2. Joins \subseteq Nodes
      BY <1>1 DEF Joins
    <2>3. frontier' \in [Nodes -> SUBSET Nodes]
      BY <2>1, <2>2 DEF Frontiers
    <2> QED BY <1>1, <1>2, <2>1, <2>3 DEF ResultTypes
  <1>7. ASSUME UNCHANGED <<targets, changed, component, reachable, frontier>> PROVE ResultTypes'
    BY <1>2, <1>7 DEF ResultTypes
  <1>8. CASE Visit \/ Leave \/ BeginNode \/ BeginIntersect \/ RaiseFirst \/ RaiseSecond \/ EndIntersect
    BY <1>7, <1>8 DEF Visit, Leave, BeginNode, BeginIntersect, RaiseFirst, RaiseSecond, EndIntersect,
                      sweepVars, resultVars
  <1>9. CASE SweepsEnd \/ NumberChild \/ NumberEnd \/ DeadTreeEnd \/ NextStart \/ AllOrdered \/ BeginDead
    BY <1>7, <1>9 DEF SweepsEnd, NumberChild, NumberEnd, DeadTreeEnd, NextStart, AllOrdered, BeginDead,
                      sweepVars, resultVars
  <1>10. CASE Done \/ UNCHANGED vars
    BY <1>7, <1>10 DEF Done, vars, sweepVars, resultVars
  <1> QED BY <1>3, <1>4, <1>5, <1>6, <1>8, <1>9, <1>10 DEF Next

BoundsInv == FewEdges /\ FewDone /\ OrderBounded /\ Numbers /\ ResultTypes

LEMMA BoundsInvInit == Init /\ IInv => BoundsInv
  <1> SUFFICES ASSUME Init, IInv PROVE BoundsInv
    OBVIOUS
  <1>1. /\ WellFormed(targets) /\ Bound \in Nat /\ Bound >= 2 /\ Nodes = 1..Bound /\ Blocks \subseteq Nodes
    BY BlockFacts DEF IInv, Typed, Bound, Nodes, VirtualRoot
  <1>2. FewEdges
    <2> SUFFICES ASSUME NEW n \in Nodes PROVE Len(succs[n]) <= Bound
      BY DEF FewEdges
    <2>1. succs[n] = IF n \in Blocks THEN Edges(n) ELSE << >>
      BY DEF Init
    <2>2. CASE n \in Blocks
      <3>1. Len(succs[n]) <= 2
        BY <1>1, <2>1, <2>2, BlockEdgesFew
      <3>2. succs[n] \in Seq(Nodes)
        BY DEF IInv, Typed
      <3>3. Len(succs[n]) \in Nat
        BY <3>2
      <3> QED BY <1>1, <3>1, <3>3
    <2>3. CASE n \notin Blocks
      BY <1>1, <2>1, <2>3
    <2> QED BY <2>2, <2>3
  <1>3. FewDone
    <2>1. DOMAIN stack = {1} /\ stack[1].done = 0
      BY DEF Init, Enter
    <2> QED BY <1>1, <2>1 DEF FewDone
  <1>4. OrderBounded
    <2>1. at = 0 /\ 1..count = {}
      BY DEF Init
    <2> QED BY <1>1, <2>1 DEF OrderBounded, Counted
  <1>5. Numbers
    <2>1. /\ numbered = 0 /\ phase = "order"
          /\ preorder = [p \in Passes |-> [n \in Nodes |-> None]]
          /\ subtreeEnd = [p \in Passes |-> [n \in Nodes |-> None]]
      BY DEF Init
    <2>2. \A p \in Passes : \A n \in Nodes : preorder[p][n] = 0 /\ subtreeEnd[p][n] = 0
      BY <2>1 DEF None
    <2>3. 0 <= Bound /\ 0 <= Bound + 1
      BY <1>1
    <2> QED BY ONLY <2>1, <2>2, <2>3 DEF Numbers
  <1>6. ResultTypes
    BY DEF Init, ResultTypes
  <1> QED BY <1>2, <1>3, <1>4, <1>5, <1>6 DEF BoundsInv

LEMMA BoundsInvStep ==
    ASSUME IInv, IInv', DomInv, RegionInv, BoundsInv, [Next]_vars
    PROVE  BoundsInv'
  BY FewEdgesStep, FewDoneStep, OrderBoundedStep, NumbersStep, ResultTypesStep DEF BoundsInv

LEMMA TypeFromInvariant ==
    ASSUME IInv, DomInv, RegionInv, BoundsInv
    PROVE  TypeOK
  <1>1. /\ Bound \in Nat /\ Nodes = 1..Bound /\ Bound = VirtualRoot /\ count \in Nat /\ at \in Nat
        /\ postorder \in [Nodes -> Nat]
    BY BlockFacts DEF IInv, Typed, Bound, Nodes, VirtualRoot
  <1>2. stack \in Seq([node : Nodes, done : 0..VirtualRoot])
    <2>1. stack \in Seq(Frames) /\ Len(stack) \in Nat /\ DOMAIN stack = 1..Len(stack)
      BY Terms DEF IInv, Typed
    <2> DEFINE T == [node : Nodes, done : 0..VirtualRoot]
    <2>2. ASSUME NEW i \in 1..Len(stack) PROVE stack[i] \in T
      <3>1. stack[i] \in Frames /\ stack[i].done <= Bound
        BY <2>1 DEF BoundsInv, FewDone
      <3> QED BY <1>1, <3>1 DEF Frames
    <2> HIDE DEF T
    <2>3. stack \in Seq(T)
      BY <2>1, <2>2
    <2> QED BY <2>3 DEF T
  <1>3. count <= Bound /\ at <= Bound
    <2>1. \A k \in 1..count : \E n \in 1..Bound : postorder[n] = k
      BY <1>1 DEF BoundsInv, OrderBounded, Counted
    <2>2. Bound \in Nat /\ count \in Nat
      BY <1>1
    <2>3. count <= Bound
      BY ONLY <2>1, <2>2, CountersBounded
    <2> QED BY <2>3 DEF BoundsInv, OrderBounded
  <1>4. postorder \in [Nodes -> 0..VirtualRoot]
    <2>1. \A n \in Nodes : postorder[n] <= count /\ postorder[n] \in Nat
      BY <1>1 DEF IInv, Positions, RegionInv, RegionSearch
    <2>2. \A n \in Nodes : postorder[n] \in 0..VirtualRoot
      BY ONLY <1>1, <1>3, <2>1
    <2> QED BY <1>1, <2>2
  <1>5. preorder \in [Passes -> [Nodes -> Nat]] /\ subtreeEnd \in [Passes -> [Nodes -> Nat]]
    BY DEF DomInv, Blank
  <1>6. \A p \in Passes : \A n \in Nodes : preorder[p][n] <= Bound /\ subtreeEnd[p][n] <= Bound + 1
    BY DEF BoundsInv, Numbers
  <1>7. preorder \in [Passes -> [Nodes -> 0..VirtualRoot]]
    BY <1>1, <1>5, <1>6
  <1>8. subtreeEnd \in [Passes -> [Nodes -> 0..(VirtualRoot + 1)]]
    <2> DEFINE ends == 0..(VirtualRoot + 1)
    <2>1. ASSUME NEW p \in Passes, NEW n \in Nodes PROVE subtreeEnd[p][n] \in ends
      <3>1. subtreeEnd[p][n] \in Nat /\ subtreeEnd[p][n] <= Bound + 1
        BY <1>5, <1>6
      <3> QED BY <1>1, <3>1
    <2> HIDE DEF ends
    <2>2. subtreeEnd \in [Passes -> [Nodes -> ends]]
      BY <1>5, <2>1
    <2> QED BY <2>2 DEF ends
  <1>9. numbered \in 0..VirtualRoot /\ count \in 0..VirtualRoot /\ at \in 0..VirtualRoot
    BY <1>1, <1>3 DEF BoundsInv, Numbers
  <1>10. /\ changed \in BOOLEAN /\ component \in [Nodes -> Nodes \cup {None}]
         /\ reachable \subseteq Nodes /\ frontier \in [Nodes -> SUBSET Nodes]
    BY DEF BoundsInv, ResultTypes
  <1>11. Typed
    BY DEF IInv
  <1> QED BY ONLY <1>2, <1>4, <1>7, <1>8, <1>9, <1>10, <1>11 DEF TypeOK, Typed

(* Every variable keeps its type, and no position, number or stack counter  *)
(* passes the number of nodes, for every set of graphs.                     *)
THEOREM TypesAreKept == Spec => []TypeOK
  <1>1. Init /\ IInv => DomInv /\ DeadInv /\ BoundsInv
    BY DomInvInit, DeadInvInit, BoundsInvInit
  <1>2. IInv /\ IInv' /\ DomInv /\ [Next]_vars => DomInv'
    BY DomInvStep
  <1>3. IInv /\ IInv' /\ DomInv /\ DomInv' /\ DeadInv /\ [Next]_vars => DeadInv'
    BY DeadInvStep
  <1>4. IInv /\ IInv' /\ DomInv /\ DeadInv /\ BoundsInv /\ [Next]_vars => BoundsInv'
    BY BoundsInvStep DEF DeadInv
  <1>5. IInv /\ DomInv /\ DeadInv /\ BoundsInv => TypeOK
    BY TypeFromInvariant DEF DeadInv
  <1> QED
    BY <1>1, <1>2, <1>3, <1>4, <1>5, Invariance, PTL DEF Spec
=============================================================================
