------------------------- MODULE SimplifyCfgProofs --------------------------
(***************************************************************************)
(* Theorems about control-flow simplification, for every set of functions  *)
(* and all limits: whatever rewrites a round makes, and however many       *)
(* rounds there are, the function that is left after Dce is one the        *)
(* verifier accepts, without dead phis; and there are no more than two     *)
(* rounds for each block and phi of the function it began with.            *)
(***************************************************************************)
EXTENDS SimplifiedRun, Iteration

-----------------------------------------------------------------------------
(* What holds between the rewrites.  In the middle of a round there are     *)
(* blocks that cannot be reached any more, and the verifier would refuse    *)
(* the function on their account; whatever the program can reach is as the  *)
(* verifier wants it.                                                       *)
Avoiding(f, a) == ReachedAvoiding(f, {Entry}, {a})

Shape(f) ==
    /\ {"kind", "params", "blocks"} \subseteq DOMAIN f
    /\ f.kind \in Seq(Kinds) /\ f.blocks \in Seq(BlockShape)
    /\ Len(f.blocks) > 0
    /\ \A b \in Blocks(f) : Successors(f, b) \subseteq Blocks(f)

ParamsListed(f) == {v \in Values(f) : f.kind[v] = "param"} = Elements(f.params)

(* The instruction at place k of block c defines v, and every way to place  *)
(* i of block b passes it.                                                  *)
Passes(f, v, b, i, c, k) ==
    /\ c \in Blocks(f) /\ k \in DOMAIN Insts(f, c)
    /\ Insts(f, c)[k].result = v
    /\ b \notin Avoiding(f, c) /\ (c = b => k < i)

MayRead(f, v, b, i) ==
    IsInst(f, v) => \E c \in Blocks(f) : \E k \in DOMAIN Insts(f, c) : Passes(f, v, b, i, c, k)
End(f, b) == Len(Insts(f, b)) + 1

PhiFits(f, b, i) ==
    LET phi == Insts(f, b)[i] IN
    /\ b # Entry
    /\ \A j \in 1..i : Insts(f, b)[j].op \in {"phi", "nop"}
    /\ \A p \in Reachable(f) : p \in Elements(phi.preds) <=> b \in Successors(f, p)
    /\ \A j, k \in DOMAIN phi.preds : phi.preds[j] = phi.preds[k] /\ phi.preds[j] \in Reachable(f) => j = k

LivePhisFit(f) ==
    \A b \in Reachable(f) : \A i \in DOMAIN Insts(f, b) : IsPhi(Insts(f, b)[i]) => PhiFits(f, b, i)

InstReads(f, b, i) ==
    LET inst == Insts(f, b)[i] IN
    IF IsPhi(inst)
    THEN \A k \in DOMAIN inst.args :
            inst.preds[k] \in Reachable(f) => MayRead(f, inst.args[k], inst.preds[k], End(f, inst.preds[k]))
    ELSE \A v \in Uses(inst) : MayRead(f, v, b, i)

LiveReads(f) ==
    \A b \in Reachable(f) :
        /\ \A i \in DOMAIN Insts(f, b) : InstReads(f, b, i)
        /\ \A v \in Elements(Term(f, b).args) : MayRead(f, v, b, End(f, b))

Sound(f) ==
    /\ Shape(f) /\ Constructed(f) /\ ValuesChecked(f) /\ SingleAssignment(f)
    /\ Predecessors(f, Entry) = {} /\ ParamsListed(f)
    /\ LivePhisFit(f) /\ LiveReads(f)

(* The inductive invariant: rewrites keep the function sound; a round that  *)
(* has not changed it has found no block to remove.                         *)
AllReached ==
    phase # "unreachable" /\ ~changed => Reachable(func) = Blocks(func)

SimplifyInv ==
    /\ phase # "done" => Sound(func) /\ AllReached
    /\ phase = "unreachable" => ~changed
    /\ phase = "done" => Verified(func) /\ NoDeadPhis(func)
-----------------------------------------------------------------------------
(* Reading a function.                                                      *)
LEMMA ShapeFacts ==
    ASSUME NEW f, Shape(f)
    PROVE  /\ Len(f.blocks) \in Nat /\ Blocks(f) = 1..Len(f.blocks) /\ Entry \in Blocks(f)
           /\ Len(f.kind) \in Nat /\ Values(f) = 1..Len(f.kind) /\ NoValue \notin Values(f)
           /\ IsFiniteSet(Blocks(f)) /\ Cardinality(Blocks(f)) = Len(f.blocks)
           /\ \A v \in Values(f) : f.kind[v] \in Kinds
  <1>1. f.blocks \in Seq(BlockShape) /\ Len(f.blocks) > 0 /\ f.kind \in Seq(Kinds)
    BY DEF Shape
  <1>2. Len(f.blocks) \in Nat /\ Blocks(f) = 1..Len(f.blocks) /\ Entry \in Blocks(f)
    BY <1>1 DEF Blocks, Entry
  <1>3. /\ Len(f.kind) \in Nat /\ Values(f) = 1..Len(f.kind) /\ NoValue \notin Values(f)
        /\ \A v \in Values(f) : f.kind[v] \in Kinds
    BY <1>1 DEF Values, NoValue
  <1>4. IsFiniteSet(Blocks(f)) /\ Cardinality(Blocks(f)) = Len(f.blocks)
    <2> DEFINE N == Len(f.blocks)
    <2>1. N \in Nat /\ N > 0
      BY <1>1
    <2> HIDE DEF N
    <2>2. IsFiniteSet(1..N) /\ Cardinality(1..N) = N
      BY <2>1, FS_Interval
    <2> QED BY <1>2, <2>2 DEF N
  <1> QED BY <1>2, <1>3, <1>4

LEMMA BlockFacts ==
    ASSUME NEW f, Shape(f), NEW b \in Blocks(f)
    PROVE  /\ Insts(f, b) \in Seq(InstShape)
           /\ Len(Insts(f, b)) \in Nat /\ DOMAIN Insts(f, b) = 1..Len(Insts(f, b))
           /\ Term(f, b) \in [args : Seq(Nat), succ : Seq(Nat)]
           /\ DOMAIN Term(f, b).succ = 1..Len(Term(f, b).succ) /\ Len(Term(f, b).succ) \in Nat
           /\ DOMAIN Term(f, b).args = 1..Len(Term(f, b).args) /\ Len(Term(f, b).args) \in Nat
           /\ Successors(f, b) \subseteq Blocks(f)
  <1>1. f.blocks \in Seq(BlockShape) /\ Successors(f, b) \subseteq Blocks(f)
    BY DEF Shape
  <1>2. f.blocks[b] \in BlockShape
    BY <1>1 DEF Blocks
  <1> HIDE DEF Shape
  <1>3. Insts(f, b) \in Seq(InstShape) /\ Term(f, b) \in [args : Seq(Nat), succ : Seq(Nat)]
    BY <1>2 DEF BlockShape, Insts, Term
  <1>4. Term(f, b).succ \in Seq(Nat) /\ Term(f, b).args \in Seq(Nat)
    BY <1>3
  <1> QED BY <1>1, <1>3, <1>4

LEMMA InstFacts ==
    ASSUME NEW f, Shape(f), NEW b \in Blocks(f), NEW i \in DOMAIN Insts(f, b)
    PROVE  LET inst == Insts(f, b)[i] IN
           /\ inst \in InstShape /\ i \in Nat /\ i >= 1 /\ i <= Len(Insts(f, b))
           /\ inst.args \in Seq(Nat) /\ inst.preds \in Seq(Nat) /\ inst.result \in Nat /\ inst.op \in Ops
           /\ DOMAIN inst.args = 1..Len(inst.args) /\ Len(inst.args) \in Nat
           /\ DOMAIN inst.preds = 1..Len(inst.preds) /\ Len(inst.preds) \in Nat
           /\ inst = [op |-> inst.op, result |-> inst.result, args |-> inst.args, preds |-> inst.preds]
  <1>1. Insts(f, b) \in Seq(InstShape) /\ DOMAIN Insts(f, b) = 1..Len(Insts(f, b)) /\ Len(Insts(f, b)) \in Nat
    BY BlockFacts
  <1>2. Insts(f, b)[i] \in InstShape
    BY <1>1
  <1>3. /\ Insts(f, b)[i].args \in Seq(Nat) /\ Insts(f, b)[i].preds \in Seq(Nat)
        /\ Insts(f, b)[i].result \in Nat /\ Insts(f, b)[i].op \in Ops
    BY <1>2 DEF InstShape
  <1> QED BY <1>1, <1>2, <1>3 DEF InstShape

(* What blocks lead to without entering some blocks: the least set that     *)
(* holds the first ones and is closed.                                      *)
LEMMA ReachFacts ==
    ASSUME NEW f, Shape(f), NEW from \in SUBSET Blocks(f), NEW avoided
    PROVE  LET reached == ReachedAvoiding(f, from, avoided) IN
           /\ from \ avoided \subseteq reached /\ reached \subseteq Blocks(f)
           /\ \A c \in reached : Successors(f, c) \ avoided \subseteq reached
           /\ \A S : from \ avoided \subseteq S
                      /\ (\A c \in S \cap Blocks(f) : Successors(f, c) \ avoided \subseteq S)
                    => reached \subseteq S
  <1> DEFINE N == Len(f.blocks)
             A == from \ avoided
             More(X) == UNION {{c} \cup (Successors(f, c) \ avoided) : c \in X}
             R == [c \in Blocks(f) |-> Successors(f, c) \ avoided]
             Step(s) == [n \in 0..N |-> IF n = 0 THEN A ELSE More(s[n - 1])]
  <1>1. /\ N \in Nat /\ IsFiniteSet(Blocks(f)) /\ Cardinality(Blocks(f)) <= N
        /\ \A c \in Blocks(f) : Successors(f, c) \subseteq Blocks(f)
    <2>1. f.blocks \in Seq(BlockShape) /\ \A c \in Blocks(f) : Successors(f, c) \subseteq Blocks(f)
      BY DEF Shape
    <2>2. N \in Nat /\ Blocks(f) = 1..N
      BY <2>1 DEF Blocks
    <2> HIDE DEF N
    <2>3. Cardinality(1..N) = IF 1 > N THEN 0 ELSE N - 1 + 1
      BY <2>2, FS_Interval
    <2>4. IsFiniteSet(1..N) /\ Cardinality(1..N) <= N
      BY <2>2, <2>3, FS_Interval
    <2> QED BY <2>1, <2>2, <2>4
  <1>2. R \in [Blocks(f) -> SUBSET Blocks(f)] /\ A \in SUBSET Blocks(f)
    BY <1>1
  <1>3. ASSUME NEW X \in SUBSET Blocks(f)
        PROVE  Spread(R, X) = More(X)
    <2>1. \A c \in X : R[c] = Successors(f, c) \ avoided
      OBVIOUS
    <2> HIDE DEF R
    <2> QED BY <2>1 DEF Spread
  <1>4. PICK g \in [0..N -> SUBSET Blocks(f)] : SpreadsTo(g, N, R, A)
    <2> HIDE DEF N, R, A
    <2> QED BY <1>1, <1>2, SpreadExists
  <1>5. g = Step(g)
    <2>1. \A i \in 0..N : i = 0 \/ (i \in 1..N /\ i - 1 \in 0..N /\ i # 0)
      BY <1>1
    <2>2. \A i \in 1..N : g[i] = Spread(R, g[i - 1])
      BY <1>4 DEF SpreadsTo
    <2>3. g[0] = A
      <3> HIDE DEF A
      <3> QED BY <1>4 DEF SpreadsTo
    <2> HIDE DEF N, R, More, A
    <2>4. \A i \in 0..N : g[i] = IF i = 0 THEN A ELSE More(g[i - 1])
      BY <1>3, <2>1, <2>2, <2>3
    <2> QED BY <2>4
  <1> DEFINE step == CHOOSE s : s = Step(s)
  <1>6. step = Step(step)
    <2> HIDE DEF Step
    <2> QED BY <1>5
  <1>7. ReachedAvoiding(f, from, avoided) = step[N]
    BY DEF ReachedAvoiding
  <1> HIDE DEF step
  <1>8. step[0] = A /\ \A i \in 1..N : step[i] = More(step[i - 1])
    <2>1. \A i \in 0..N : step[i] = IF i = 0 THEN A ELSE More(step[i - 1])
      <3> HIDE DEF More, N, A
      <3> QED BY <1>6
    <2>2. 0 \in 0..N /\ \A i \in 1..N : i \in 0..N /\ i # 0
      BY <1>1
    <2> HIDE DEF More, N, A
    <2> QED BY <2>1, <2>2
  <1>9. SpreadsTo(step, N, R, A)
    <2> DEFINE I == SUBSET Blocks(f)
    <2>1. \A X \in I : More(X) \in I
      BY <1>1
    <2>2. step[0] \in I
      BY <1>8
    <2>3. \A i \in 0..N : step[i] \in I
      <3>1. \A i \in 1..N : step[i - 1] \in I => step[i] \in I
        <4> HIDE DEF More, N, I
        <4> QED BY <1>8, <2>1
      <3> HIDE DEF I, N, More
      <3> QED BY <1>1, <2>2, <3>1, IterationKeeps
    <2>4. \A i \in 1..N : i - 1 \in 0..N
      BY <1>1
    <2> HIDE DEF N, R, More, A
    <2> QED BY <1>3, <1>8, <2>3, <2>4 DEF SpreadsTo
  <1>10. /\ A \subseteq step[N] /\ step[N] \subseteq Blocks(f)
         /\ ClosedUnder(R, step[N])
    <2> HIDE DEF N, R, A
    <2> QED BY <1>1, <1>2, <1>9, SpreadFacts
  <1>11. \A c \in step[N] : Successors(f, c) \ avoided \subseteq step[N]
    BY <1>10 DEF ClosedUnder
  <1>12. ASSUME NEW S, A \subseteq S,
                \A c \in S \cap Blocks(f) : Successors(f, c) \ avoided \subseteq S
         PROVE  step[N] \subseteq S
    <2>1. StaysIn(S, Blocks(f), R, A)
      BY <1>12 DEF StaysIn
    <2>2. N \in Nat
      BY <1>1
    <2> HIDE DEF R, N, A
    <2> QED BY <1>2, <1>9, <2>1, <2>2, SpreadLeast
  <1> HIDE DEF step, R, More
  <1> QED BY <1>7, <1>10, <1>11, <1>12

(* Reachable blocks, and blocks some way leads to without block a: the      *)
(* least sets closed under (the other) edges.                               *)
Closed(f, S, a) == \A c \in S \cap Blocks(f) : Successors(f, c) \ {a} \subseteq S

LEMMA AvoidingFacts ==
    ASSUME NEW f, Shape(f), NEW a
    PROVE  /\ Avoiding(f, a) \subseteq Reachable(f) /\ a \notin Avoiding(f, a)
           /\ a # Entry => Entry \in Avoiding(f, a)
           /\ Closed(f, Avoiding(f, a), a)
           /\ \A S : (a # Entry => Entry \in S) /\ Closed(f, S, a) => Avoiding(f, a) \subseteq S
           /\ Reachable(f) \subseteq Blocks(f) /\ Entry \in Reachable(f)
           /\ \A c \in Reachable(f) : Successors(f, c) \subseteq Reachable(f)
           /\ \A S : Entry \in S /\ (\A c \in S \cap Blocks(f) : Successors(f, c) \subseteq S)
                    => Reachable(f) \subseteq S
           /\ a \notin Reachable(f) => Avoiding(f, a) = Reachable(f)
  <1>0. {Entry} \in SUBSET Blocks(f)
    BY ShapeFacts
  <1>1. /\ {Entry} \ {a} \subseteq Avoiding(f, a) /\ Avoiding(f, a) \subseteq Blocks(f)
        /\ \A c \in Avoiding(f, a) : Successors(f, c) \ {a} \subseteq Avoiding(f, a)
        /\ \A S : {Entry} \ {a} \subseteq S
                   /\ (\A c \in S \cap Blocks(f) : Successors(f, c) \ {a} \subseteq S)
                 => Avoiding(f, a) \subseteq S
    BY <1>0, ReachFacts DEF Avoiding
  <1>2. /\ {Entry} \ {} \subseteq Reachable(f) /\ Reachable(f) \subseteq Blocks(f)
        /\ \A c \in Reachable(f) : Successors(f, c) \ {} \subseteq Reachable(f)
        /\ \A S : {Entry} \ {} \subseteq S
                   /\ (\A c \in S \cap Blocks(f) : Successors(f, c) \ {} \subseteq S)
                 => Reachable(f) \subseteq S
    <2> DEFINE none == {}
               R == ReachedAvoiding(f, {Entry}, none)
    <2>1. /\ {Entry} \ none \subseteq R /\ R \subseteq Blocks(f)
          /\ \A c \in R : Successors(f, c) \ none \subseteq R
          /\ \A S : {Entry} \ none \subseteq S
                     /\ (\A c \in S \cap Blocks(f) : Successors(f, c) \ none \subseteq S)
                   => R \subseteq S
      <3> HIDE DEF none
      <3> QED BY <1>0, ReachFacts
    <2>2. Reachable(f) = R
      BY DEF Reachable
    <2> HIDE DEF R
    <2> QED BY <2>1, <2>2
  <1>3. Avoiding(f, a) \subseteq Reachable(f) \ {a}
    <2> DEFINE S == Reachable(f) \ {a}
    <2>1. {Entry} \ {a} \subseteq S /\ \A c \in S \cap Blocks(f) : Successors(f, c) \ {a} \subseteq S
      BY <1>2
    <2> QED BY <1>1, <2>1
  <1>4. a \notin Reachable(f) => Avoiding(f, a) = Reachable(f)
    <2> SUFFICES ASSUME a \notin Reachable(f) PROVE Avoiding(f, a) = Reachable(f)
      OBVIOUS
    <2>1. /\ Entry \in Avoiding(f, a)
          /\ \A c \in Avoiding(f, a) \cap Blocks(f) : Successors(f, c) \subseteq Avoiding(f, a)
      BY <1>1, <1>2, <1>3
    <2>2. Reachable(f) \subseteq Avoiding(f, a)
      BY <1>2, <2>1
    <2> QED BY <1>3, <2>2
  <1>5. Closed(f, Avoiding(f, a), a)
    BY <1>1 DEF Closed
  <1>6. \A S : (a # Entry => Entry \in S) /\ Closed(f, S, a) => Avoiding(f, a) \subseteq S
    <2> SUFFICES ASSUME NEW S, a # Entry => Entry \in S, Closed(f, S, a)
                 PROVE  Avoiding(f, a) \subseteq S
      OBVIOUS
    <2>1. {Entry} \ {a} \subseteq S
      OBVIOUS
    <2> QED BY <1>1, <2>1 DEF Closed
  <1> QED BY <1>1, <1>2, <1>3, <1>4, <1>5, <1>6

-----------------------------------------------------------------------------
(* Counting: a sequence is as long as the set of its elements exactly when  *)
(* it repeats none of them.                                                 *)
NoRepeats(s) == \A j, k \in DOMAIN s : s[j] = s[k] => j = k

LEMMA CountedOnce ==
    ASSUME NEW S, NEW s \in Seq(S)
    PROVE  /\ IsFiniteSet(Elements(s)) /\ Cardinality(Elements(s)) \in Nat
           /\ Cardinality(Elements(s)) = Len(s) <=> NoRepeats(s)
  <1> DEFINE I == 1..Len(s)
             T == Elements(s)
  <1>1. Len(s) \in Nat /\ DOMAIN s = I /\ s \in [I -> S]
    OBVIOUS
  <1>2. IsFiniteSet(I) /\ Cardinality(I) = Len(s)
    <2> DEFINE n == Len(s)
    <2>2. n \in Int /\ 1 \in Int
      BY <1>1
    <2> HIDE DEF n
    <2>3. IsFiniteSet(1..n) /\ Cardinality(1..n) = IF 1 > n THEN 0 ELSE n - 1 + 1
      BY <2>2, FS_Interval
    <2>4. n \in Nat
      BY <1>1 DEF n
    <2>5. IsFiniteSet(1..n) /\ Cardinality(1..n) = n
      BY <2>3, <2>4
    <2> QED BY <2>5 DEF n
  <1>3. s \in Surjection(I, T)
    <2>1. s \in [I -> T] /\ \A t \in T : \E i \in I : s[i] = t
      BY <1>1 DEF Elements
    <2> HIDE DEF I, T
    <2> QED BY <2>1 DEF Surjection
  <1> HIDE DEF I, T
  <1>4. /\ IsFiniteSet(T)
        /\ Cardinality(T) = Cardinality(I) <=> s \in Injection(I, T)
    BY <1>2, <1>3, FS_Surjection
  <1>5. Cardinality(T) \in Nat
    BY <1>4, FS_CardinalityType
  <1>6. s \in [I -> T]
    BY <1>3 DEF Surjection
  <1>7. s \in Injection(I, T) <=> NoRepeats(s)
    BY <1>1, <1>6 DEF Injection, IsInjective, NoRepeats
  <1>8. Cardinality(T) = Len(s) <=> NoRepeats(s)
    BY <1>2, <1>4, <1>7
  <1> QED BY <1>4, <1>5, <1>8 DEF T

(* Single assignment, by blocks and places.                                 *)
Once(f) ==
    \A b, c \in Blocks(f) : \A i \in DOMAIN Insts(f, b), j \in DOMAIN Insts(f, c) :
        LET v == Insts(f, b)[i].result IN
        v # NoValue => IsInst(f, v) /\ (v = Insts(f, c)[j].result => b = c /\ i = j)

LEMMA OnceFacts ==
    ASSUME NEW f
    PROVE  SingleAssignment(f) <=> Once(f)
  <1>1. \A s : s \in Sites(f) <=> \E b \in Blocks(f) : \E i \in DOMAIN Insts(f, b) : s = <<b, i>>
    BY DEF Sites
  <1>2. \A b \in Blocks(f) : \A i \in DOMAIN Insts(f, b) :
            <<b, i>> \in Sites(f) /\ ResultAt(f, <<b, i>>) = Insts(f, b)[i].result
    BY <1>1 DEF ResultAt
  <1>3. ASSUME SingleAssignment(f) PROVE Once(f)
    <2> SUFFICES ASSUME NEW b \in Blocks(f), NEW c \in Blocks(f),
                        NEW i \in DOMAIN Insts(f, b), NEW j \in DOMAIN Insts(f, c),
                        Insts(f, b)[i].result # NoValue
                 PROVE  /\ IsInst(f, Insts(f, b)[i].result)
                        /\ Insts(f, b)[i].result = Insts(f, c)[j].result => b = c /\ i = j
      BY DEF Once
    <2>1. <<b, i>> \in Sites(f) /\ <<c, j>> \in Sites(f)
          /\ ResultAt(f, <<b, i>>) = Insts(f, b)[i].result /\ ResultAt(f, <<c, j>>) = Insts(f, c)[j].result
      BY <1>2
    <2>2. IsInst(f, Insts(f, b)[i].result)
      BY <1>3, <2>1 DEF SingleAssignment
    <2>3. Insts(f, b)[i].result = Insts(f, c)[j].result => <<b, i>> = <<c, j>>
      BY <1>3, <2>1 DEF SingleAssignment
    <2> QED BY <2>2, <2>3
  <1>4. ASSUME Once(f) PROVE SingleAssignment(f)
    <2>1. \A s, t \in Sites(f) : ResultAt(f, s) = ResultAt(f, t) /\ ResultAt(f, s) # NoValue => s = t
      <3> SUFFICES ASSUME NEW s \in Sites(f), NEW t \in Sites(f),
                          ResultAt(f, s) = ResultAt(f, t), ResultAt(f, s) # NoValue
                   PROVE  s = t
        OBVIOUS
      <3>1. PICK b \in Blocks(f) : \E i \in DOMAIN Insts(f, b) : s = <<b, i>>
        BY <1>1
      <3>2. PICK i \in DOMAIN Insts(f, b) : s = <<b, i>>
        BY <3>1
      <3>3. PICK c \in Blocks(f) : \E j \in DOMAIN Insts(f, c) : t = <<c, j>>
        BY <1>1
      <3>4. PICK j \in DOMAIN Insts(f, c) : t = <<c, j>>
        BY <3>3
      <3>5. Insts(f, b)[i].result = Insts(f, c)[j].result /\ Insts(f, b)[i].result # NoValue
        BY <1>2, <3>2, <3>4
      <3> QED BY <1>4, <3>2, <3>4, <3>5 DEF Once
    <2>2. \A s \in Sites(f) : ResultAt(f, s) # NoValue => IsInst(f, ResultAt(f, s))
      <3> SUFFICES ASSUME NEW s \in Sites(f), ResultAt(f, s) # NoValue
                   PROVE  IsInst(f, ResultAt(f, s))
        OBVIOUS
      <3>1. PICK b \in Blocks(f) : \E i \in DOMAIN Insts(f, b) : s = <<b, i>>
        BY <1>1
      <3>2. PICK i \in DOMAIN Insts(f, b) : s = <<b, i>>
        BY <3>1
      <3>5. ResultAt(f, s) = Insts(f, b)[i].result
        BY <1>2, <3>2
      <3> QED BY <1>4, <3>5 DEF Once
    <2> QED BY <2>1, <2>2 DEF SingleAssignment
  <1> QED BY <1>3, <1>4

(* The block of a value is where its one definition stands.                 *)
LEMMA OwnerFacts ==
    ASSUME NEW f, Shape(f), SingleAssignment(f),
           NEW c \in Blocks(f), NEW k \in DOMAIN Insts(f, c), NEW v, v = Insts(f, c)[k].result, v # NoValue
    PROVE  /\ IsInst(f, v) /\ DefinedBy(f, v) /\ OwnerBlock(f, v) = c
           /\ \A b \in Blocks(f) : \A i \in DOMAIN Insts(f, b) : Insts(f, b)[i].result = v => b = c /\ i = k
  <1>1. /\ IsInst(f, v)
        /\ \A b \in Blocks(f) : \A i \in DOMAIN Insts(f, b) : Insts(f, b)[i].result = v => b = c /\ i = k
    <2>1. Once(f)
      BY OnceFacts
    <2> QED BY <2>1 DEF Once
  <1>2. v \in Results(f, c) /\ \A b \in Blocks(f) : v \in Results(f, b) => b = c
    BY <1>1 DEF Results
  <1>3. f.kind[v] # "param"
    BY <1>1 DEF IsInst
  <1> QED BY <1>1, <1>2, <1>3 DEF DefinedBy, OwnerBlock

(* In code that can be reached, being readable is what the verifier checks. *)
LEMMA ReadableFacts ==
    ASSUME NEW f, Shape(f), SingleAssignment(f), NEW v \in Values(f), NEW b \in Reachable(f)
    PROVE  /\ \A i : OrdinaryUse(f, v, b, i) => (i \in Nat => MayRead(f, v, b, i))
           /\ \A i \in Nat : i <= End(f, b) /\ MayRead(f, v, b, i) => OrdinaryUse(f, v, b, i)
           /\ EdgeUse(f, v, b) <=> MayRead(f, v, b, End(f, b))
  <1>0. /\ b \in Blocks(f) /\ v # NoValue /\ Len(Insts(f, b)) \in Nat
        /\ DOMAIN Insts(f, b) = 1..Len(Insts(f, b))
        /\ \A c \in Blocks(f) : c \notin Avoiding(f, c)
    BY AvoidingFacts, ShapeFacts, BlockFacts
  <1>1. \A c : AvailableIn(f, c, b) <=> b \notin Avoiding(f, c)
    BY DEF AvailableIn, Dominates, Avoiding
  <1>2. CASE ~IsInst(f, v)
    BY <1>2 DEF OrdinaryUse, EdgeUse, MayRead
  <1>3. CASE IsInst(f, v) /\ ~DefinedBy(f, v)
    <2>1. \A c \in Blocks(f) : \A k \in DOMAIN Insts(f, c) : Insts(f, c)[k].result # v
      BY <1>0, <1>3 DEF DefinedBy, Results
    <2>2. \A i : ~MayRead(f, v, b, i)
      BY <1>3, <2>1 DEF MayRead, Passes
    <2> QED BY <1>3, <2>2 DEF OrdinaryUse, EdgeUse
  <1>4. CASE IsInst(f, v) /\ DefinedBy(f, v)
    <2>1. PICK c \in Blocks(f) : \E k \in DOMAIN Insts(f, c) : Insts(f, c)[k].result = v
      BY <1>4 DEF DefinedBy, Results
    <2>2. PICK k \in DOMAIN Insts(f, c) : Insts(f, c)[k].result = v
      BY <2>1
    <2>3. /\ OwnerBlock(f, v) = c
          /\ \A d \in Blocks(f) : \A i \in DOMAIN Insts(f, d) : Insts(f, d)[i].result = v => d = c /\ i = k
      BY <1>0, <2>2, OwnerFacts
    <2>4. \A i : MayRead(f, v, b, i) <=> b \notin Avoiding(f, c) /\ (c = b => k < i)
      BY <1>4, <2>2, <2>3 DEF MayRead, Passes
    <2>5. k \in Nat /\ k >= 1
      BY <2>2, BlockFacts
    <2>6. \A i \in Nat : i <= End(f, b) /\ c = b =>
              (k < i <=> \E j \in 1..(i - 1) : DefinedAt(f, v, b, j))
      <3> SUFFICES ASSUME NEW i \in Nat, i <= End(f, b), c = b
                   PROVE  k < i <=> \E j \in 1..(i - 1) : DefinedAt(f, v, b, j)
        OBVIOUS
      <3>1. DefinedAt(f, v, b, k) /\ \A j : DefinedAt(f, v, b, j) => j = k
        BY <1>0, <2>2, <2>3 DEF DefinedAt
      <3> QED BY <2>5, <3>1
    <2>7. \A i \in Nat : OrdinaryUse(f, v, b, i) => MayRead(f, v, b, i)
      <3> SUFFICES ASSUME NEW i \in Nat, OrdinaryUse(f, v, b, i) PROVE MayRead(f, v, b, i)
        OBVIOUS
      <3>1. CASE c = b
        <4>1. PICK j \in 1..(i - 1) : DefinedAt(f, v, b, j)
          BY <1>4, <2>3, <3>1 DEF OrdinaryUse
        <4>2. j = k
          BY <1>0, <2>3, <4>1 DEF DefinedAt
        <4> QED BY <1>0, <2>4, <2>5, <3>1, <4>1, <4>2
      <3>2. CASE c # b
        BY <1>1, <1>4, <2>3, <2>4, <3>2 DEF OrdinaryUse
      <3> QED BY <3>1, <3>2
    <2>8. \A i \in Nat : i <= End(f, b) /\ MayRead(f, v, b, i) => OrdinaryUse(f, v, b, i)
      BY <1>1, <1>4, <2>3, <2>4, <2>6 DEF OrdinaryUse
    <2>9. EdgeUse(f, v, b) <=> MayRead(f, v, b, End(f, b))
      <3>1. c = b => k < End(f, b)
        BY <1>0, <2>2 DEF End
      <3> QED BY <1>0, <1>1, <1>4, <2>3, <2>4, <3>1 DEF EdgeUse
    <2> QED BY <2>7, <2>8, <2>9
  <1> QED BY <1>2, <1>3, <1>4

(* What the verifier accepts is sound.                                      *)
LEMMA VerifiedSound ==
    ASSUME NEW f, Shape(f), Constructed(f), Verified(f)
    PROVE  Sound(f)
  <1>1. /\ ValuesChecked(f) /\ SingleAssignment(f) /\ Predecessors(f, Entry) = {} /\ ParamsListed(f)
        /\ PhisLeadBlocks(f) /\ UsesDominated(f)
    BY DEF Verified, ParamsListed
  <1>2. Reachable(f) \subseteq Blocks(f)
    BY AvoidingFacts
  <1>3. ASSUME NEW b \in Reachable(f), NEW i \in DOMAIN Insts(f, b), IsPhi(Insts(f, b)[i])
        PROVE  PhiFits(f, b, i)
    <2> DEFINE phi == Insts(f, b)[i]
    <2>1. /\ b # Entry
          /\ \A j \in 1..i : Insts(f, b)[j].op \in {"phi", "nop"}
          /\ Elements(phi.preds) = Predecessors(f, b)
          /\ Len(phi.preds) = Cardinality(Predecessors(f, b))
      BY <1>1, <1>2, <1>3 DEF PhisLeadBlocks
    <2>2. phi.preds \in Seq(Nat)
      BY <1>2, InstFacts
    <2>3. NoRepeats(phi.preds)
      <3> HIDE DEF phi
      <3> QED BY <2>1, <2>2, CountedOnce
    <2>4. \A p \in Reachable(f) : p \in Elements(phi.preds) <=> b \in Successors(f, p)
      <3> HIDE DEF phi
      <3> QED BY <1>2, <2>1 DEF Predecessors
    <2> QED BY <2>1, <2>3, <2>4 DEF PhiFits, NoRepeats
  <1>4. ASSUME NEW b \in Reachable(f), NEW i \in DOMAIN Insts(f, b)
        PROVE  InstReads(f, b, i)
    <2> DEFINE inst == Insts(f, b)[i]
    <2>0. b \in Blocks(f) /\ i \in Nat
      BY <1>2, InstFacts
    <2>1. Uses(inst) \subseteq Values(f)
      BY <1>1, <2>0 DEF ValuesChecked
    <2>2. IF IsPhi(inst)
          THEN \A k \in DOMAIN inst.args : EdgeUse(f, inst.args[k], inst.preds[k])
          ELSE \A v \in Uses(inst) : OrdinaryUse(f, v, b, i)
      BY <1>1, <2>0 DEF UsesDominated
    <2>3. CASE IsPhi(inst)
      <3>1. \A k \in DOMAIN inst.args : inst.args[k] \in Values(f)
        BY <2>1 DEF Uses, Elements
      <3>2. \A k \in DOMAIN inst.args : inst.preds[k] \in Reachable(f)
              => MayRead(f, inst.args[k], inst.preds[k], End(f, inst.preds[k]))
        <4> HIDE DEF inst
        <4> QED BY <1>1, <2>2, <2>3, <3>1, ReadableFacts
      <3> QED BY <2>3, <3>2 DEF InstReads
    <2>4. CASE ~IsPhi(inst)
      <3>1. \A v \in Uses(inst) : MayRead(f, v, b, i)
        <4> HIDE DEF inst
        <4> QED BY <1>1, <2>0, <2>1, <2>2, <2>4, ReadableFacts
      <3> QED BY <2>4, <3>1 DEF InstReads
    <2> QED BY <2>3, <2>4
  <1>5. ASSUME NEW b \in Reachable(f), NEW v \in Elements(Term(f, b).args)
        PROVE  MayRead(f, v, b, End(f, b))
    <2>1. b \in Blocks(f) /\ Len(Insts(f, b)) \in Nat
      BY <1>2, BlockFacts
    <2>2. OrdinaryUse(f, v, b, Len(Insts(f, b)) + 1) /\ v \in Values(f)
      BY <1>1, <2>1 DEF UsesDominated, ValuesChecked
    <2>3. End(f, b) \in Nat
      BY <2>1 DEF End
    <2> QED BY <1>1, <2>2, <2>3, ReadableFacts DEF End
  <1>6. LivePhisFit(f) /\ LiveReads(f)
    BY <1>3, <1>4, <1>5 DEF LivePhisFit, LiveReads
  <1> QED BY <1>1, <1>6 DEF Sound

(* And what is sound and can be reached altogether, the verifier accepts.   *)
LEMMA SoundVerified ==
    ASSUME NEW f, Sound(f), Reachable(f) = Blocks(f)
    PROVE  Verified(f)
  <1>1. /\ Shape(f) /\ Constructed(f) /\ ValuesChecked(f) /\ SingleAssignment(f)
        /\ Predecessors(f, Entry) = {} /\ ParamsListed(f) /\ LivePhisFit(f) /\ LiveReads(f)
    BY DEF Sound
  <1>2. ASSUME NEW b \in Blocks(f), NEW i \in DOMAIN Insts(f, b), IsPhi(Insts(f, b)[i])
        PROVE  /\ b # Entry
               /\ \A j \in 1..i : Insts(f, b)[j].op \in {"phi", "nop"}
               /\ Elements(Insts(f, b)[i].preds) = Predecessors(f, b)
               /\ Len(Insts(f, b)[i].preds) = Cardinality(Predecessors(f, b))
               /\ Len(Insts(f, b)[i].args) = Len(Insts(f, b)[i].preds)
    <2> DEFINE phi == Insts(f, b)[i]
    <2>1. PhiFits(f, b, i)
      BY <1>1, <1>2 DEF LivePhisFit
    <2>2. phi.preds \in Seq(Nat)
      BY <1>1, InstFacts
    <2>3. Elements(phi.preds) \subseteq Blocks(f) /\ Len(phi.args) = Len(phi.preds)
      BY <1>1, <1>2 DEF Constructed, InstConstructed
    <2>4. /\ b # Entry
          /\ \A j \in 1..i : Insts(f, b)[j].op \in {"phi", "nop"}
          /\ \A p \in Blocks(f) : p \in Elements(phi.preds) <=> b \in Successors(f, p)
          /\ \A j, k \in DOMAIN phi.preds : phi.preds[j] = phi.preds[k] /\ phi.preds[j] \in Blocks(f) => j = k
      BY <2>1 DEF PhiFits
    <2>5. NoRepeats(phi.preds)
      <3>1. \A j \in DOMAIN phi.preds : phi.preds[j] \in Blocks(f)
        BY <2>3 DEF Elements
      <3> HIDE DEF phi
      <3> QED BY <2>4, <3>1 DEF NoRepeats
    <2>6. Elements(phi.preds) = Predecessors(f, b)
      BY <2>3, <2>4 DEF Predecessors
    <2>7. Len(phi.preds) = Cardinality(Predecessors(f, b))
      <3> HIDE DEF phi
      <3> QED BY <2>2, <2>5, <2>6, CountedOnce
    <2> QED BY <2>3, <2>4, <2>6, <2>7
  <1>3. PhisLeadBlocks(f)
    BY <1>2 DEF PhisLeadBlocks
  <1>4. ASSUME NEW b \in Blocks(f), NEW i \in DOMAIN Insts(f, b)
        PROVE  IF IsPhi(Insts(f, b)[i])
               THEN \A k \in DOMAIN Insts(f, b)[i].args : EdgeUse(f, Insts(f, b)[i].args[k], Insts(f, b)[i].preds[k])
               ELSE \A v \in Uses(Insts(f, b)[i]) : OrdinaryUse(f, v, b, i)
    <2> DEFINE inst == Insts(f, b)[i]
    <2>1. InstReads(f, b, i)
      BY <1>1 DEF LiveReads
    <2>2. Uses(inst) \subseteq Values(f)
      BY <1>1 DEF ValuesChecked
    <2>3. i \in Nat /\ i <= Len(Insts(f, b)) /\ Len(Insts(f, b)) \in Nat
      BY <1>1, InstFacts, BlockFacts
    <2>4. CASE IsPhi(inst)
      <3>1. DOMAIN inst.args = 1..Len(inst.args) /\ DOMAIN inst.preds = 1..Len(inst.preds)
        BY <1>1, InstFacts
      <3>2. Elements(inst.preds) \subseteq Blocks(f) /\ Len(inst.args) = Len(inst.preds)
        BY <1>1, <2>4 DEF Constructed, InstConstructed
      <3>3. \A k \in DOMAIN inst.args :
                /\ inst.preds[k] \in Reachable(f) /\ inst.args[k] \in Values(f)
                /\ MayRead(f, inst.args[k], inst.preds[k], End(f, inst.preds[k]))
        <4>1. \A k \in DOMAIN inst.args : inst.preds[k] \in Blocks(f) /\ inst.args[k] \in Values(f)
          BY <2>2, <3>1, <3>2 DEF Elements, Uses
        <4> QED BY <2>1, <2>4, <4>1 DEF InstReads
      <3>4. \A k \in DOMAIN inst.args : EdgeUse(f, inst.args[k], inst.preds[k])
        <4> HIDE DEF inst
        <4> QED BY <1>1, <3>3, ReadableFacts
      <3> QED BY <2>4, <3>4
    <2>5. CASE ~IsPhi(inst)
      <3>1. \A v \in Uses(inst) : MayRead(f, v, b, i)
        BY <2>1, <2>5 DEF InstReads
      <3>2. i <= End(f, b)
        BY <2>3 DEF End
      <3>3. \A v \in Uses(inst) : OrdinaryUse(f, v, b, i)
        <4> HIDE DEF inst
        <4> QED BY <1>1, <2>2, <2>3, <3>1, <3>2, ReadableFacts
      <3> QED BY <2>5, <3>3
    <2> QED BY <2>4, <2>5
  <1>5. ASSUME NEW b \in Blocks(f), NEW v \in Elements(Term(f, b).args)
        PROVE  OrdinaryUse(f, v, b, Len(Insts(f, b)) + 1)
    <2>1. Len(Insts(f, b)) \in Nat
      BY <1>1, BlockFacts
    <2>2. MayRead(f, v, b, End(f, b)) /\ v \in Values(f)
      BY <1>1 DEF LiveReads, ValuesChecked
    <2>3. End(f, b) \in Nat /\ End(f, b) <= End(f, b)
      BY <2>1 DEF End
    <2>4. OrdinaryUse(f, v, b, End(f, b))
      BY <1>1, <2>2, <2>3, ReadableFacts
    <2> QED BY <2>4 DEF End
  <1>6. UsesDominated(f)
    BY <1>4, <1>5 DEF UsesDominated
  <1> QED BY <1>1, <1>3, <1>6 DEF Verified, ParamsListed

(* An ascending list holds each member of a set of numbers once.            *)
LEMMA AscendingFacts ==
    ASSUME NEW N \in Nat, NEW K \in SUBSET (1..N)
    PROVE  LET m == Cardinality(K) a == Ascending(K) IN
           /\ m \in Nat /\ a \in Seq(K) /\ Len(a) = m /\ DOMAIN a = 1..m
           /\ \A j, k \in DOMAIN a : a[j] = a[k] => j = k
           /\ \A i \in K : \E k \in DOMAIN a : a[k] = i
           /\ \A k \in DOMAIN a : a[k] \in K /\ Rank(K, a[k]) = k - 1
  <1> DEFINE m == Cardinality(K)
             a == Ascending(K)
             at(k) == CHOOSE i \in K : Rank(K, i) = k - 1
  <1>2. /\ m \in Nat
        /\ \A i \in K : Rank(K, i) \in 0..(m - 1)
        /\ \A i, j \in K : Rank(K, i) = Rank(K, j) => i = j
        /\ \A k \in 0..(m - 1) : \E i \in K : Rank(K, i) = k
    BY RankNumbers, Zenon
  <1>3. \A k \in 1..m : at(k) \in K /\ Rank(K, at(k)) = k - 1
    <2> SUFFICES ASSUME NEW k \in 1..m PROVE at(k) \in K /\ Rank(K, at(k)) = k - 1
      OBVIOUS
    <2>1. k - 1 \in 0..(m - 1)
      <3> HIDE DEF m
      <3> QED BY <1>2
    <2> HIDE DEF m
    <2> QED BY <1>2, <2>1
  <1>4. a = [k \in 1..m |-> at(k)]
    BY DEF Ascending, Rank
  <1> HIDE DEF at, m
  <1>5. \A k \in 1..m : a[k] \in K /\ Rank(K, a[k]) = k - 1
    BY <1>3, <1>4
  <1>6. a \in Seq(K) /\ Len(a) = m /\ DOMAIN a = 1..m
    <2> HIDE DEF a
    <2>1. a \in [1..m -> K]
      BY <1>3, <1>4
    <2> QED BY <1>2, <2>1
  <1> HIDE DEF a
  <1>7. \A j, k \in 1..m : a[j] = a[k] => j = k
    BY <1>2, <1>5
  <1>8. ASSUME NEW i \in K
        PROVE  \E k \in 1..m : a[k] = i
    <2> DEFINE k == Rank(K, i) + 1
    <2>1. k \in 1..m /\ k - 1 = Rank(K, i)
      BY <1>2
    <2> HIDE DEF k
    <2>2. a[k] \in K /\ Rank(K, a[k]) = Rank(K, i)
      BY <1>5, <2>1
    <2>3. a[k] = i
      BY <1>2, <2>2
    <2> QED BY <2>1, <2>3
  <1> QED BY <1>2, <1>5, <1>6, <1>7, <1>8 DEF a, m
-----------------------------------------------------------------------------
(* What a phi gets from a block, and what is left when it forgets some.     *)
Gets(phi, p, v) == \E k \in DOMAIN phi.preds : phi.preds[k] = p /\ phi.args[k] = v

LEMMA GetsFacts ==
    ASSUME NEW phi \in InstShape, Len(phi.args) = Len(phi.preds)
    PROVE  /\ DOMAIN phi.args = DOMAIN phi.preds
           /\ \A p : p \in Elements(phi.preds) <=> \E v : Gets(phi, p, v)
           /\ \A p : p \in Elements(phi.preds) => Gets(phi, p, Incoming(phi, p))
           /\ \A v : v \in Uses(phi) <=> \E p : Gets(phi, p, v)
  <1>1. phi.args \in Seq(Nat) /\ phi.preds \in Seq(Nat)
    BY DEF InstShape
  <1>2. DOMAIN phi.args = DOMAIN phi.preds
    BY <1>1
  <1>3. ASSUME NEW p, p \in Elements(phi.preds) PROVE Gets(phi, p, Incoming(phi, p))
    <2> DEFINE P(i) == phi.preds[i] = p
               k == CHOOSE i \in DOMAIN phi.preds : P(i)
    <2>1. \E i \in DOMAIN phi.preds : P(i)
      BY <1>3 DEF Elements
    <2>2. k \in DOMAIN phi.preds /\ P(k)
      <3> HIDE DEF P
      <3> QED BY <2>1
    <2>3. Incoming(phi, p) = phi.args[k]
      BY DEF Incoming
    <2> HIDE DEF k
    <2> QED BY <2>2, <2>3 DEF Gets
  <1>4. \A p : p \in Elements(phi.preds) <=> \E v : Gets(phi, p, v)
    BY DEF Elements, Gets
  <1>5. \A v : v \in Uses(phi) <=> \E p : Gets(phi, p, v)
    BY <1>2 DEF Elements, Gets, Uses
  <1> QED BY <1>2, <1>3, <1>4, <1>5

(* In a sound function every value a phi gets may be read at the end of the *)
(* block it comes from.                                                     *)
PhiReads(f, b, i) ==
    \A p \in Reachable(f) : \A v : Gets(Insts(f, b)[i], p, v) => MayRead(f, v, p, End(f, p))

LEMMA PhiReadsFacts ==
    ASSUME NEW f, Shape(f), NEW b \in Blocks(f), NEW i \in DOMAIN Insts(f, b),
           IsPhi(Insts(f, b)[i]), Len(Insts(f, b)[i].args) = Len(Insts(f, b)[i].preds)
    PROVE  InstReads(f, b, i) <=> PhiReads(f, b, i)
  <1> DEFINE phi == Insts(f, b)[i]
  <1>1. DOMAIN phi.args = DOMAIN phi.preds
    BY InstFacts
  <1>2. InstReads(f, b, i) <=>
        \A k \in DOMAIN phi.args :
            phi.preds[k] \in Reachable(f) => MayRead(f, phi.args[k], phi.preds[k], End(f, phi.preds[k]))
    BY DEF InstReads
  <1>3. PhiReads(f, b, i) <=> \A p \in Reachable(f) : \A v : Gets(phi, p, v) => MayRead(f, v, p, End(f, p))
    BY DEF PhiReads
  <1> HIDE DEF phi
  <1> QED BY <1>1, <1>2, <1>3 DEF Gets

ListedOnce(phi, S) ==
    \A j, k \in DOMAIN phi.preds : phi.preds[j] = phi.preds[k] /\ phi.preds[j] \in S => j = k

LEMMA ForgetFacts ==
    ASSUME NEW phi \in InstShape, Len(phi.args) = Len(phi.preds), NEW gone
    PROVE  LET less == Forget(phi, gone) IN
           /\ less \in InstShape /\ less.op = phi.op /\ less.result = phi.result
           /\ Len(less.args) = Len(less.preds)
           /\ \A p, v : Gets(less, p, v) <=> Gets(phi, p, v) /\ p \notin gone
           /\ \A p : p \in Elements(less.preds) <=> p \in Elements(phi.preds) /\ p \notin gone
           /\ \A S : ListedOnce(phi, S) => ListedOnce(less, S)
  <1> DEFINE K == {k \in DOMAIN phi.preds : phi.preds[k] \notin gone}
             kept == Ascending(K)
             less == Forget(phi, gone)
             P == [j \in DOMAIN kept |-> phi.preds[kept[j]]]
             A == [j \in DOMAIN kept |-> phi.args[kept[j]]]
  <1>1. /\ phi.args \in Seq(Nat) /\ phi.preds \in Seq(Nat) /\ phi.op \in Ops /\ phi.result \in Nat
        /\ Len(phi.preds) \in Nat
        /\ DOMAIN phi.preds = 1..Len(phi.preds) /\ DOMAIN phi.args = 1..Len(phi.preds)
        /\ phi = [op |-> phi.op, result |-> phi.result, args |-> phi.args, preds |-> phi.preds]
    BY DEF InstShape
  <1>2. /\ Cardinality(K) \in Nat /\ kept \in Seq(K) /\ DOMAIN kept = 1..Cardinality(K)
        /\ \A j, k \in DOMAIN kept : kept[j] = kept[k] => j = k
        /\ \A i \in K : \E k \in DOMAIN kept : kept[k] = i
    <2>1. K \in SUBSET (1..Len(phi.preds))
      BY <1>1
    <2> HIDE DEF K
    <2> QED BY <1>1, <2>1, AscendingFacts
  <1>3. less = [phi EXCEPT !.preds = P, !.args = A]
    BY DEF Forget
  <1>4. \A j \in DOMAIN kept : kept[j] \in DOMAIN phi.preds /\ phi.preds[kept[j]] \notin gone
    <2>1. \A j \in DOMAIN kept : kept[j] \in K
      <3> HIDE DEF K, kept
      <3> QED BY <1>2
    <2> HIDE DEF kept
    <2> QED BY <2>1
  <1>5. P \in Seq(Nat) /\ A \in Seq(Nat) /\ DOMAIN P = DOMAIN kept /\ DOMAIN A = DOMAIN kept /\ Len(A) = Len(P)
    <2> DEFINE n == Cardinality(K)
    <2>1. \A j \in 1..n : phi.preds[kept[j]] \in Nat /\ phi.args[kept[j]] \in Nat
      <3> HIDE DEF K, kept
      <3> QED BY <1>1, <1>2, <1>4
    <2> HIDE DEF n, K, kept
    <2>2. P \in [1..n -> Nat] /\ A \in [1..n -> Nat] /\ n \in Nat
      BY <1>2, <2>1 DEF n
    <2> QED BY <2>2
  <1> HIDE DEF less
  <1>6. /\ less = [op |-> phi.op, result |-> phi.result, args |-> A, preds |-> P]
    <2> HIDE DEF A, P
    <2> QED BY <1>1, <1>3
  <1>7. /\ less \in InstShape /\ less.op = phi.op /\ less.result = phi.result
        /\ less.args = A /\ less.preds = P
    <2> HIDE DEF A, P
    <2> QED BY <1>1, <1>5, <1>6 DEF InstShape
  <1>8. \A p, v : Gets(less, p, v) <=> Gets(phi, p, v) /\ p \notin gone
    <2>1. ASSUME NEW p, NEW v, Gets(less, p, v) PROVE Gets(phi, p, v) /\ p \notin gone
      <3>1. PICK j \in DOMAIN kept : P[j] = p /\ A[j] = v
        <4> HIDE DEF A, P, kept
        <4> QED BY <1>5, <1>7, <2>1 DEF Gets
      <3>2. phi.preds[kept[j]] = p /\ phi.args[kept[j]] = v
        BY <3>1
      <3> HIDE DEF kept
      <3> QED BY <1>4, <3>2 DEF Gets
    <2>2. ASSUME NEW p, NEW v, Gets(phi, p, v), p \notin gone PROVE Gets(less, p, v)
      <3>1. PICK k \in DOMAIN phi.preds : phi.preds[k] = p /\ phi.args[k] = v
        BY <2>2 DEF Gets
      <3>2. k \in K
        BY <2>2, <3>1
      <3>3. PICK j \in DOMAIN kept : kept[j] = k
        <4> HIDE DEF K, kept
        <4> QED BY <1>2, <3>2
      <3>4. P[j] = p /\ A[j] = v
        BY <3>1, <3>3
      <3> HIDE DEF A, P, kept
      <3> QED BY <1>5, <1>7, <3>3, <3>4 DEF Gets
    <2> QED BY <2>1, <2>2
  <1>9. \A p : p \in Elements(less.preds) <=> p \in Elements(phi.preds) /\ p \notin gone
    <2>1. \A p : p \in Elements(less.preds) <=> \E v : Gets(less, p, v)
      BY DEF Elements, Gets
    <2>2. \A p : p \in Elements(phi.preds) <=> \E v : Gets(phi, p, v)
      BY DEF Elements, Gets
    <2> QED BY <1>8, <2>1, <2>2
  <1>10. \A S : ListedOnce(phi, S) => ListedOnce(less, S)
    <2> SUFFICES ASSUME NEW S, ListedOnce(phi, S), NEW j \in DOMAIN kept, NEW k \in DOMAIN kept,
                        P[j] = P[k], P[j] \in S
                 PROVE  j = k
      <3> HIDE DEF A, P, kept
      <3> QED BY <1>5, <1>7 DEF ListedOnce
    <2>1. phi.preds[kept[j]] = phi.preds[kept[k]] /\ phi.preds[kept[j]] \in S
      OBVIOUS
    <2> HIDE DEF kept, K, P
    <2>2. kept[j] = kept[k]
      BY <1>4, <2>1 DEF ListedOnce
    <2> QED BY <1>2, <2>2
  <1>11. Len(less.args) = Len(less.preds)
    <2> HIDE DEF A, P
    <2> QED BY <1>5, <1>7
  <1> QED BY <1>7, <1>8, <1>9, <1>10, <1>11 DEF less

-----------------------------------------------------------------------------
(* Sequences as functions.                                                  *)
LEMMA SeqFacts ==
    ASSUME NEW S, NEW n \in Nat, NEW s \in [1..n -> S]
    PROVE  s \in Seq(S) /\ Len(s) = n
  OBVIOUS

LEMMA SameInterval ==
    ASSUME NEW m \in Nat, NEW n \in Nat, 1..m = 1..n
    PROVE  m = n
  <1>1. \A i \in Nat : i >= 1 => (i <= m <=> i <= n)
    <2>1. \A i \in Nat : i >= 1 => (i <= m <=> i \in 1..m) /\ (i <= n <=> i \in 1..n)
      OBVIOUS
    <2> QED BY <2>1
  <1>2. CASE m < n
    BY <1>1, <1>2
  <1>3. CASE n < m
    BY <1>1, <1>3
  <1> QED BY <1>2, <1>3

(* Rewrites that leave every block and every instruction in its place.      *)
Edited(f, g) ==
    /\ Shape(g) /\ g.kind = f.kind /\ g.params = f.params /\ Blocks(g) = Blocks(f)
    /\ \A b \in Blocks(f) :
          /\ DOMAIN Insts(g, b) = DOMAIN Insts(f, b)
          /\ \A i \in DOMAIN Insts(f, b) : Insts(g, b)[i].result \in {Insts(f, b)[i].result, NoValue}

BlocksReplaced(f, g, I, T) ==
    /\ DOMAIN g = DOMAIN f /\ g.kind = f.kind /\ g.params = f.params
    /\ g.blocks = [b \in Blocks(f) |-> [insts |-> I[b], term |-> T[b]]]

BlockFits(f, b, insts, term) ==
    /\ insts \in Seq(InstShape) /\ DOMAIN insts = DOMAIN Insts(f, b)
    /\ \A i \in DOMAIN Insts(f, b) : insts[i].result \in {Insts(f, b)[i].result, NoValue}
    /\ term \in [args : Seq(Nat), succ : Seq(Nat)] /\ Elements(term.succ) \subseteq Blocks(f)

LEMMA EditedShape ==
    ASSUME NEW f, Shape(f), NEW g, NEW I, NEW T, BlocksReplaced(f, g, I, T),
           \A b \in Blocks(f) : BlockFits(f, b, I[b], T[b])
    PROVE  Edited(f, g) /\ \A b \in Blocks(f) : Insts(g, b) = I[b] /\ Term(g, b) = T[b]
  <1> USE DEF BlocksReplaced, BlockFits
  <1>1. Len(f.blocks) \in Nat /\ Blocks(f) = 1..Len(f.blocks) /\ Len(f.blocks) > 0 /\ f.kind \in Seq(Kinds)
    BY ShapeFacts DEF Shape
  <1>2. \A b \in Blocks(f) : [insts |-> I[b], term |-> T[b]] \in BlockShape
    BY DEF BlockShape
  <1>3. Blocks(g) = Blocks(f) /\ \A b \in Blocks(f) : Insts(g, b) = I[b] /\ Term(g, b) = T[b]
    BY DEF Blocks, Insts, Term
  <1>4. g.blocks \in Seq(BlockShape) /\ Len(g.blocks) > 0
    <2> DEFINE n == Len(f.blocks)
               new(b) == [insts |-> I[b], term |-> T[b]]
    <2>0. n \in Nat /\ n > 0 /\ Blocks(f) = 1..n
      BY <1>1
    <2> HIDE DEF n
    <2>1. g.blocks = [b \in 1..n |-> new(b)] /\ \A b \in 1..n : new(b) \in BlockShape
      BY <1>2, <2>0
    <2> HIDE DEF new
    <2>2. g.blocks \in [1..n -> BlockShape]
      BY <2>1
    <2> QED BY <2>0, <2>2, SeqFacts
  <1>5. \A b \in Blocks(g) : Successors(g, b) \subseteq Blocks(g)
    BY <1>3 DEF Successors
  <1>6. Shape(g)
    <2>1. {"kind", "params", "blocks"} \subseteq DOMAIN g
      BY DEF Shape
    <2> QED BY <1>1, <1>4, <1>5, <2>1 DEF Shape
  <1> QED BY <1>3, <1>6 DEF Edited

LEMMA EditedFacts ==
    ASSUME NEW f, NEW g, Shape(f), Edited(f, g)
    PROVE  /\ Values(g) = Values(f) /\ \A v : IsInst(g, v) <=> IsInst(f, v)
           /\ SingleAssignment(f) => SingleAssignment(g)
           /\ ParamsListed(f) => ParamsListed(g)
           /\ \A b \in Blocks(f) : End(g, b) = End(f, b) /\ Len(Insts(g, b)) = Len(Insts(f, b))
  <1>1. Values(g) = Values(f) /\ \A v : IsInst(g, v) <=> IsInst(f, v)
    BY DEF Edited, Values, IsInst
  <1>2. ParamsListed(f) => ParamsListed(g)
    BY <1>1 DEF Edited, ParamsListed
  <1>3. \A b \in Blocks(f) : End(g, b) = End(f, b) /\ Len(Insts(g, b)) = Len(Insts(f, b))
    <2> SUFFICES ASSUME NEW b \in Blocks(f) PROVE Len(Insts(g, b)) = Len(Insts(f, b))
      BY DEF End
    <2> DEFINE m == Len(Insts(g, b))
               n == Len(Insts(f, b))
    <2>1. /\ DOMAIN Insts(f, b) = 1..n /\ n \in Nat
      BY BlockFacts
    <2>2. /\ DOMAIN Insts(g, b) = 1..m /\ m \in Nat
      BY BlockFacts DEF Edited
    <2>3. DOMAIN Insts(g, b) = DOMAIN Insts(f, b)
      BY DEF Edited
    <2> HIDE DEF m, n
    <2>4. m = n
      BY <2>1, <2>2, <2>3, SameInterval
    <2> QED BY <2>4 DEF m, n
  <1>4. SingleAssignment(f) => SingleAssignment(g)
    <2> SUFFICES ASSUME Once(f) PROVE Once(g)
      BY OnceFacts
    <2> SUFFICES ASSUME NEW b \in Blocks(g), NEW c \in Blocks(g),
                        NEW i \in DOMAIN Insts(g, b), NEW j \in DOMAIN Insts(g, c),
                        Insts(g, b)[i].result # NoValue
                 PROVE  /\ IsInst(g, Insts(g, b)[i].result)
                        /\ Insts(g, b)[i].result = Insts(g, c)[j].result => b = c /\ i = j
      BY DEF Once
    <2>1. /\ b \in Blocks(f) /\ c \in Blocks(f) /\ i \in DOMAIN Insts(f, b) /\ j \in DOMAIN Insts(f, c)
          /\ Insts(g, b)[i].result = Insts(f, b)[i].result
          /\ Insts(g, c)[j].result \in {Insts(f, c)[j].result, NoValue}
      BY DEF Edited
    <2> QED BY <1>1, <2>1 DEF Once
  <1> QED BY <1>1, <1>2, <1>3, <1>4

(* Fewer edges: fewer ways past a block.                                    *)
LEMMA FewerEdges ==
    ASSUME NEW f, NEW g, Shape(f), Shape(g), Blocks(g) = Blocks(f), NEW a,
           \A c \in Avoiding(f, a) : Successors(g, c) \ {a} \subseteq Avoiding(f, a)
    PROVE  Avoiding(g, a) \subseteq Avoiding(f, a)
  <1>1. /\ a # Entry => Entry \in Avoiding(f, a)
        /\ \A S : (a # Entry => Entry \in S) /\ Closed(g, S, a) => Avoiding(g, a) \subseteq S
    BY AvoidingFacts
  <1>2. Closed(g, Avoiding(f, a), a)
    BY DEF Closed
  <1> QED BY <1>1, <1>2

LEMMA FewerReached ==
    ASSUME NEW f, NEW g, Shape(f), Shape(g), Blocks(g) = Blocks(f),
           \A c \in Reachable(f) : Successors(g, c) \subseteq Reachable(f)
    PROVE  Reachable(g) \subseteq Reachable(f)
  BY AvoidingFacts

(* A value stays readable where its definition stays and still cannot be    *)
(* passed by.                                                               *)
LEMMA ReadKept ==
    ASSUME NEW f, NEW g, Edited(f, g), NEW v, NEW b, NEW i, MayRead(f, v, b, i),
           \A c, k : Passes(f, v, b, i, c, k) => Insts(g, c)[k].result = v /\ b \notin Avoiding(g, c)
    PROVE  MayRead(g, v, b, i)
  <1> SUFFICES ASSUME IsInst(g, v)
               PROVE  \E c \in Blocks(g) : \E k \in DOMAIN Insts(g, c) : Passes(g, v, b, i, c, k)
    BY DEF MayRead
  <1>1. IsInst(f, v)
    BY DEF Edited, IsInst
  <1>2. PICK c \in Blocks(f) : \E k \in DOMAIN Insts(f, c) : Passes(f, v, b, i, c, k)
    BY <1>1 DEF MayRead
  <1>4. PICK k \in DOMAIN Insts(f, c) : Passes(f, v, b, i, c, k)
    BY <1>2
  <1>3. Passes(g, v, b, i, c, k)
    BY <1>4 DEF Passes, Edited
  <1> QED BY <1>3 DEF Passes

-----------------------------------------------------------------------------
(* simplify_branches.                                                       *)
LEMMA SoundFacts ==
    ASSUME NEW f, Sound(f)
    PROVE  /\ Shape(f) /\ Constructed(f) /\ ValuesChecked(f) /\ SingleAssignment(f)
           /\ Predecessors(f, Entry) = {} /\ ParamsListed(f)
           /\ LivePhisFit(f) /\ LiveReads(f)
  BY DEF Sound

LEMMA LeadingFacts ==
    ASSUME NEW f, Sound(f), NEW b \in Reachable(f), NEW i \in DOMAIN Insts(f, b)
    PROVE  i \in LeadingPhis(f, b) <=> IsPhi(Insts(f, b)[i])
  <1>1. IsPhi(Insts(f, b)[i]) => \A j \in 1..i : Insts(f, b)[j].op \in {"phi", "nop"}
    BY DEF Sound, LivePhisFit, PhiFits
  <1> QED BY <1>1 DEF LeadingPhis

LEMMA PhiLengths ==
    ASSUME NEW f, Constructed(f), NEW b \in Blocks(f), NEW i \in DOMAIN Insts(f, b), IsPhi(Insts(f, b)[i])
    PROVE  /\ Len(Insts(f, b)[i].args) = Len(Insts(f, b)[i].preds)
           /\ Elements(Insts(f, b)[i].preds) \subseteq Blocks(f)
  BY DEF Constructed, InstConstructed

(* What becomes of an instruction when phis forget some blocks.             *)
Forgetting(old, new, gone) ==
    /\ new \in InstShape /\ new.op = old.op /\ new.result = old.result
    /\ IF IsPhi(old)
       THEN /\ Len(new.args) = Len(new.preds)
            /\ \A p, v : Gets(new, p, v) <=> Gets(old, p, v) /\ p \notin gone
            /\ \A p : p \in Elements(new.preds) <=> p \in Elements(old.preds) /\ p \notin gone
            /\ \A S : ListedOnce(old, S) => ListedOnce(new, S)
       ELSE new = old

LEMMA ForgetInFacts ==
    ASSUME NEW f, Shape(f), Constructed(f), NEW b \in Blocks(f), NEW gone
    PROVE  LET new == ForgetIn(f, b, gone) IN
           /\ new \in Seq(InstShape) /\ DOMAIN new = DOMAIN Insts(f, b)
           /\ \A i \in DOMAIN Insts(f, b) :
                 Forgetting(Insts(f, b)[i], new[i], IF i \in LeadingPhis(f, b) THEN gone ELSE {})
  <1> DEFINE new == ForgetIn(f, b, gone)
             n == Len(Insts(f, b))
  <1>1. n \in Nat /\ DOMAIN Insts(f, b) = 1..n
    BY BlockFacts
  <1>2. ASSUME NEW i \in DOMAIN Insts(f, b)
        PROVE  Forgetting(Insts(f, b)[i], new[i], IF i \in LeadingPhis(f, b) THEN gone ELSE {})
    <2> DEFINE old == Insts(f, b)[i]
    <2>1. old \in InstShape
      BY InstFacts
    <2>2. CASE i \in LeadingPhis(f, b)
      <3>1. IsPhi(old) /\ new[i] = Forget(old, gone)
        BY <2>2 DEF ForgetIn, LeadingPhis
      <3>2. Len(old.args) = Len(old.preds)
        BY <3>1, PhiLengths
      <3> HIDE DEF old, new
      <3>3. Forgetting(old, new[i], gone)
        <4> DEFINE less == Forget(old, gone)
        <4>1. /\ less \in InstShape /\ less.op = old.op /\ less.result = old.result
              /\ Len(less.args) = Len(less.preds)
              /\ \A p, v : Gets(less, p, v) <=> Gets(old, p, v) /\ p \notin gone
              /\ \A p : p \in Elements(less.preds) <=> p \in Elements(old.preds) /\ p \notin gone
              /\ \A S : ListedOnce(old, S) => ListedOnce(less, S)
          BY <2>1, <3>2, ForgetFacts
        <4> HIDE DEF less
        <4>2. new[i] = less
          BY <3>1 DEF less
        <4> QED BY <3>1, <4>1, <4>2 DEF Forgetting
      <3> QED BY <2>2, <3>3 DEF old
    <2>3. CASE i \notin LeadingPhis(f, b)
      <3>1. new[i] = old
        BY <2>3 DEF ForgetIn
      <3>2. IsPhi(old) => Len(old.args) = Len(old.preds)
        BY PhiLengths
      <3> HIDE DEF old, new
      <3>3. Forgetting(old, new[i], {})
        BY <2>1, <3>1, <3>2 DEF Forgetting
      <3> QED BY <2>3, <3>3 DEF old
    <2> QED BY <2>2, <2>3
  <1>3. DOMAIN new = DOMAIN Insts(f, b)
    BY DEF ForgetIn
  <1>4. new \in Seq(InstShape)
    <2>1. \A i \in 1..n : new[i] \in InstShape
      BY <1>1, <1>2 DEF Forgetting
    <2>2. new = [i \in 1..n |-> new[i]]
      BY <1>1 DEF ForgetIn
    <2> HIDE DEF n, new
    <2>3. new \in [1..n -> InstShape]
      BY <2>1, <2>2
    <2> QED BY <1>1, <2>3, SeqFacts
  <1> QED BY <1>2, <1>3, <1>4

Taken(f, b) == Chosen(Term(f, b).succ, Condition(f, b))
Gone(f, t) == {b \in Blocks(f) : Decided(f, b) /\ t \in Successors(f, b) /\ t # Taken(f, b)}

LEMMA TakenFacts ==
    ASSUME NEW f, Shape(f), NEW b \in Blocks(f), IsBranch(f, b)
    PROVE  /\ Taken(f, b) \in Successors(f, b) /\ Taken(f, b) \in Blocks(f)
           /\ Successors(f, b) = {Term(f, b).succ[1], Term(f, b).succ[2]}
  <1>1. DOMAIN Term(f, b).succ = 1..2
    BY BlockFacts DEF IsBranch
  <1>2. Successors(f, b) = {Term(f, b).succ[1], Term(f, b).succ[2]}
    BY <1>1 DEF Successors, Elements
  <1>3. Taken(f, b) \in Successors(f, b)
    BY <1>2 DEF Taken, Chosen
  <1> QED BY <1>2, <1>3, BlockFacts

LEMMA JumpFacts ==
    ASSUME NEW b \in Nat
    PROVE  /\ Jump(b) \in [args : Seq(Nat), succ : Seq(Nat)]
           /\ Elements(Jump(b).succ) = {b} /\ Elements(Jump(b).args) = {} /\ Len(Jump(b).succ) # 2
  <1>1. /\ Jump(b).succ = <<b>> /\ Jump(b).args = << >>
        /\ <<b>> \in Seq(Nat) /\ << >> \in Seq(Nat) /\ Len(<<b>>) = 1
    BY DEF Jump
  <1>2. Elements(<<b>>) = {b} /\ Elements(<< >>) = {}
    BY DEF Elements
  <1>3. Jump(b) = [args |-> << >>, succ |-> <<b>>]
    BY DEF Jump
  <1>4. Jump(b) \in [args : Seq(Nat), succ : Seq(Nat)]
    BY <1>1, <1>3
  <1> QED BY <1>1, <1>2, <1>4

LEMMA BranchesView ==
    ASSUME NEW f, Sound(f)
    PROVE  LET g == BranchesSimplified(f) IN
           /\ Edited(f, g)
           /\ \A b \in Blocks(f) :
                 /\ Insts(g, b) = ForgetIn(f, b, Gone(f, b))
                 /\ Term(g, b) = IF Decided(f, b) THEN Jump(Taken(f, b)) ELSE Term(f, b)
  <1> DEFINE g == BranchesSimplified(f)
             decided == {b \in Blocks(f) : Decided(f, b)}
             removed == RemovedEdges(f, decided)
             gone(t) == {b \in decided : <<b, t>> \in removed}
             I == [b \in Blocks(f) |-> ForgetIn(f, b, Gone(f, b))]
             T == [b \in Blocks(f) |-> IF Decided(f, b) THEN Jump(Taken(f, b)) ELSE Term(f, b)]
  <1>0. /\ Shape(f) /\ Constructed(f)
    BY SoundFacts
  <1>1. \A t : gone(t) = Gone(f, t)
    <2>1. removed = UNION {{<<b, t>> : t \in Successors(f, b) \ {Taken(f, b)}} : b \in decided}
      BY DEF RemovedEdges, Taken
    <2>2. \A b, t : <<b, t>> \in removed <=> b \in decided /\ t \in Successors(f, b) /\ t # Taken(f, b)
      <3> HIDE DEF decided
      <3> QED BY <2>1
    <2> HIDE DEF removed
    <2> QED BY <2>2 DEF Gone
  <1>2. BlocksReplaced(f, g, I, T)
    <2> DEFINE new == [b \in Blocks(f) |->
                          [insts |-> ForgetIn(f, b, gone(b)),
                           term |-> IF b \in decided THEN Jump(Taken(f, b)) ELSE Term(f, b)]]
    <2>1. g = [f EXCEPT !.blocks = new]
      BY DEF BranchesSimplified, Taken, Blocks
    <2>2. new = [b \in Blocks(f) |-> [insts |-> I[b], term |-> T[b]]]
      <3>1. \A b \in Blocks(f) : b \in decided <=> Decided(f, b)
        OBVIOUS
      <3> HIDE DEF decided, gone, removed
      <3> QED BY <1>1, <3>1
    <2>3. "blocks" \in DOMAIN f
      BY <1>0 DEF Shape
    <2> HIDE DEF new, I, T, g
    <2> QED BY <2>1, <2>2, <2>3 DEF BlocksReplaced
  <1>3. ASSUME NEW b \in Blocks(f)
        PROVE  BlockFits(f, b, I[b], T[b])
    <2>1. /\ I[b] \in Seq(InstShape) /\ DOMAIN I[b] = DOMAIN Insts(f, b)
          /\ \A i \in DOMAIN Insts(f, b) : I[b][i].result = Insts(f, b)[i].result
      BY <1>0, ForgetInFacts DEF Forgetting
    <2>2. CASE Decided(f, b)
      <3>1. Taken(f, b) \in Blocks(f) /\ Taken(f, b) \in Nat
        BY <1>0, <2>2, TakenFacts, ShapeFacts DEF Decided
      <3>2. T[b] = Jump(Taken(f, b))
        BY <2>2
      <3> HIDE DEF I, T
      <3>3. Jump(Taken(f, b)) \in [args : Seq(Nat), succ : Seq(Nat)]
            /\ Elements(Jump(Taken(f, b)).succ) = {Taken(f, b)}
        BY <3>1, JumpFacts
      <3> QED BY <2>1, <3>1, <3>2, <3>3 DEF BlockFits
    <2>3. CASE ~Decided(f, b)
      <3>2. T[b] = Term(f, b)
        BY <2>3
      <3> HIDE DEF I, T
      <3> QED BY <1>0, <2>1, <3>2, BlockFacts DEF Successors, BlockFits
    <2> QED BY <2>2, <2>3
  <1>4. \A b \in Blocks(f) :
            /\ I[b] = ForgetIn(f, b, Gone(f, b))
            /\ T[b] = IF Decided(f, b) THEN Jump(Taken(f, b)) ELSE Term(f, b)
    OBVIOUS
  <1> HIDE DEF I, T, g
  <1>5. Edited(f, g) /\ \A b \in Blocks(f) : Insts(g, b) = I[b] /\ Term(g, b) = T[b]
    BY <1>0, <1>2, <1>3, EditedShape
  <1> QED BY <1>4, <1>5 DEF g

LEMMA BranchesSound ==
    ASSUME NEW f, Sound(f)
    PROVE  Sound(BranchesSimplified(f))
  <1> DEFINE g == BranchesSimplified(f)
  <1>0. /\ Shape(f) /\ Constructed(f) /\ ValuesChecked(f) /\ SingleAssignment(f)
        /\ Predecessors(f, Entry) = {} /\ ParamsListed(f) /\ LivePhisFit(f) /\ LiveReads(f)
        /\ Reachable(f) \subseteq Blocks(f)
    BY SoundFacts, AvoidingFacts
  <1>1. /\ Edited(f, g)
        /\ \A b \in Blocks(f) :
              /\ Insts(g, b) = ForgetIn(f, b, Gone(f, b))
              /\ Term(g, b) = IF Decided(f, b) THEN Jump(Taken(f, b)) ELSE Term(f, b)
    BY BranchesView
  <1> HIDE DEF g
  <1>2. /\ Shape(g) /\ Blocks(g) = Blocks(f) /\ Values(g) = Values(f) /\ g.kind = f.kind
        /\ SingleAssignment(g) /\ ParamsListed(g)
        /\ \A b \in Blocks(f) : End(g, b) = End(f, b) /\ DOMAIN Insts(g, b) = DOMAIN Insts(f, b)
    BY <1>0, <1>1, EditedFacts DEF Edited
  <1>3. ASSUME NEW b \in Blocks(f), NEW i \in DOMAIN Insts(f, b)
        PROVE  Forgetting(Insts(f, b)[i], Insts(g, b)[i], IF i \in LeadingPhis(f, b) THEN Gone(f, b) ELSE {})
    BY <1>0, <1>1, ForgetInFacts
  <1>4. ASSUME NEW b \in Blocks(f)
        PROVE  /\ Successors(g, b) \subseteq Successors(f, b)
               /\ \A t \in Successors(f, b) : t \in Successors(g, b) <=> b \notin Gone(f, t)
               /\ Elements(Term(g, b).args) \subseteq Elements(Term(f, b).args)
               /\ Len(Term(g, b).succ) = 2 => Term(g, b) = Term(f, b)
    <2>1. CASE Decided(f, b)
      <3>1. Taken(f, b) \in Successors(f, b) /\ Taken(f, b) \in Nat
        BY <1>0, <2>1, TakenFacts, ShapeFacts DEF Decided
      <3>2. Term(g, b) = Jump(Taken(f, b))
        BY <1>1, <2>1
      <3>3. Successors(g, b) = {Taken(f, b)} /\ Elements(Term(g, b).args) = {} /\ Len(Term(g, b).succ) # 2
        BY <3>1, <3>2, JumpFacts DEF Successors
      <3> QED BY <2>1, <3>1, <3>3 DEF Gone
    <2>2. CASE ~Decided(f, b)
      <3>1. Term(g, b) = Term(f, b)
        BY <1>1, <2>2
      <3> QED BY <2>2, <3>1 DEF Gone, Successors
    <2> QED BY <2>1, <2>2
  <1>5. /\ Reachable(g) \subseteq Reachable(f)
        /\ \A a : Avoiding(g, a) \subseteq Avoiding(f, a)
    <2>1. \A b \in Reachable(f) : Successors(g, b) \subseteq Reachable(f)
      BY <1>0, <1>4, AvoidingFacts
    <2>2. ASSUME NEW a PROVE Avoiding(g, a) \subseteq Avoiding(f, a)
      <3>1. \A c \in Avoiding(f, a) : Successors(g, c) \ {a} \subseteq Avoiding(f, a)
        BY <1>0, <1>4, AvoidingFacts DEF Closed
      <3> QED BY <1>0, <1>2, <3>1, FewerEdges
    <2> QED BY <1>0, <1>2, <2>1, <2>2, FewerReached
  <1>6. ASSUME NEW v, NEW b, NEW i, MayRead(f, v, b, i)
        PROVE  MayRead(g, v, b, i)
    <2>1. \A c, k : Passes(f, v, b, i, c, k) => Insts(g, c)[k].result = v /\ b \notin Avoiding(g, c)
      BY <1>3, <1>5 DEF Passes, Forgetting
    <2> QED BY <1>1, <1>6, <2>1, ReadKept
  <1>7. ASSUME NEW b \in Blocks(f), NEW i \in DOMAIN Insts(f, b)
        PROVE  LET old == Insts(f, b)[i] new == Insts(g, b)[i] IN
               /\ new.op = old.op /\ new.result = old.result /\ Uses(new) \subseteq Uses(old)
               /\ IsPhi(old) => Len(new.args) = Len(new.preds) /\ Elements(new.preds) \subseteq Elements(old.preds)
               /\ ~IsPhi(old) => new = old
    <2> DEFINE old == Insts(f, b)[i]
               new == Insts(g, b)[i]
    <2>1. CASE IsPhi(old)
      <3>1. /\ old \in InstShape /\ Len(old.args) = Len(old.preds)
        BY <1>0, <2>1, InstFacts, PhiLengths
      <3>2. \E gone : Forgetting(old, new, gone)
        BY <1>3
      <3> HIDE DEF old, new
      <3>3. PICK gone : Forgetting(old, new, gone)
        BY <3>2
      <3>4. /\ new \in InstShape /\ new.op = old.op /\ new.result = old.result /\ Len(new.args) = Len(new.preds)
            /\ Elements(new.preds) \subseteq Elements(old.preds)
            /\ \A p, v : Gets(new, p, v) => Gets(old, p, v)
        BY <2>1, <3>3 DEF Forgetting
      <3>5. Uses(new) \subseteq Uses(old)
        BY <3>1, <3>4, GetsFacts
      <3> QED BY <2>1, <3>4, <3>5 DEF old, new
    <2>2. CASE ~IsPhi(old)
      BY <1>3, <2>2 DEF Forgetting
    <2> QED BY <2>1, <2>2
  <1>8. Constructed(g)
    <2> SUFFICES ASSUME NEW b \in Blocks(f)
                 PROVE  /\ Len(Term(g, b).succ) = 2 => Term(g, b).args # << >>
                        /\ \A i \in DOMAIN Insts(f, b) : InstConstructed(g, Insts(g, b)[i])
      BY <1>2 DEF Constructed
    <2>1. Len(Term(g, b).succ) = 2 => Term(g, b).args # << >>
      BY <1>0, <1>4 DEF Constructed
    <2>2. ASSUME NEW i \in DOMAIN Insts(f, b)
          PROVE  InstConstructed(g, Insts(g, b)[i])
      <3>1. InstConstructed(f, Insts(f, b)[i])
        BY <1>0 DEF Constructed
      <3> QED BY <1>2, <1>7, <3>1 DEF InstConstructed, IsPhi, BinaryOps
    <2> QED BY <2>1, <2>2
  <1>9. ValuesChecked(g)
    <2> SUFFICES ASSUME NEW b \in Blocks(f)
                 PROVE  /\ \A i \in DOMAIN Insts(f, b) :
                              LET inst == Insts(g, b)[i] IN
                              /\ Uses(inst) \subseteq Values(f)
                              /\ inst.result \in IF IsPhi(inst) THEN Values(f) ELSE Values(f) \cup {NoValue}
                              /\ inst.op = "nop" => inst = Nop
                        /\ Elements(Term(g, b).args) \subseteq Values(f)
      BY <1>2 DEF ValuesChecked
    <2>1. ASSUME NEW i \in DOMAIN Insts(f, b)
          PROVE  LET inst == Insts(g, b)[i] IN
                 /\ Uses(inst) \subseteq Values(f)
                 /\ inst.result \in IF IsPhi(inst) THEN Values(f) ELSE Values(f) \cup {NoValue}
                 /\ inst.op = "nop" => inst = Nop
      BY <1>0, <1>7 DEF ValuesChecked, IsPhi
    <2>2. Elements(Term(g, b).args) \subseteq Values(f)
      BY <1>0, <1>4 DEF ValuesChecked
    <2> QED BY <2>1, <2>2
  <1>10. Predecessors(g, Entry) = {}
    BY <1>0, <1>2, <1>4 DEF Predecessors
  <1>11. LivePhisFit(g)
    <2> SUFFICES ASSUME NEW b \in Reachable(g), NEW i \in DOMAIN Insts(g, b), IsPhi(Insts(g, b)[i])
                 PROVE  PhiFits(g, b, i)
      BY DEF LivePhisFit
    <2> DEFINE old == Insts(f, b)[i]
               new == Insts(g, b)[i]
    <2>1. b \in Reachable(f) /\ b \in Blocks(f) /\ i \in DOMAIN Insts(f, b)
      BY <1>0, <1>2, <1>5
    <2>2. IsPhi(old)
      BY <1>7, <2>1 DEF IsPhi
    <2>3. PhiFits(f, b, i)
      BY <1>0, <2>1, <2>2 DEF LivePhisFit
    <2>4. Forgetting(old, new, Gone(f, b))
      <3>1. i \in LeadingPhis(f, b)
        BY <2>1, <2>2, LeadingFacts
      <3> QED BY <1>3, <2>1, <3>1
    <2>5. \A j \in 1..i : Insts(g, b)[j].op \in {"phi", "nop"}
      <3>1. \A j \in 1..i : j \in DOMAIN Insts(f, b)
        BY <1>0, <2>1, BlockFacts
      <3>2. \A j \in 1..i : Insts(f, b)[j].op \in {"phi", "nop"}
        BY <2>3 DEF PhiFits
      <3> QED BY <1>7, <2>1, <3>1, <3>2
    <2>6. ASSUME NEW p \in Reachable(g) PROVE p \in Elements(new.preds) <=> b \in Successors(g, p)
      <3>1. p \in Reachable(f) /\ p \in Blocks(f)
        BY <1>0, <1>5
      <3>2. p \in Elements(old.preds) <=> b \in Successors(f, p)
        BY <2>3, <3>1 DEF PhiFits
      <3>3. p \in Elements(new.preds) <=> p \in Elements(old.preds) /\ p \notin Gone(f, b)
        <4> HIDE DEF old, new
        <4> QED BY <2>2, <2>4 DEF Forgetting
      <3> QED BY <1>4, <3>1, <3>2, <3>3
    <2>7. ListedOnce(new, Reachable(g))
      <3>1. ListedOnce(old, Reachable(f))
        BY <2>3 DEF PhiFits, ListedOnce
      <3>2. ListedOnce(new, Reachable(f))
        <4> HIDE DEF old, new
        <4> QED BY <2>2, <2>4, <3>1 DEF Forgetting
      <3> QED BY <1>5, <3>2 DEF ListedOnce
    <2>8. b # Entry
      BY <2>3 DEF PhiFits
    <2> QED BY <2>5, <2>6, <2>7, <2>8 DEF PhiFits, ListedOnce
  <1>12. LiveReads(g)
    <2> SUFFICES ASSUME NEW b \in Reachable(g)
                 PROVE  /\ \A i \in DOMAIN Insts(g, b) : InstReads(g, b, i)
                        /\ \A v \in Elements(Term(g, b).args) : MayRead(g, v, b, End(g, b))
      BY DEF LiveReads
    <2>1. b \in Reachable(f) /\ b \in Blocks(f)
      BY <1>0, <1>5
    <2>2. \A v \in Elements(Term(g, b).args) : MayRead(g, v, b, End(g, b))
      BY <1>0, <1>2, <1>4, <1>6, <2>1 DEF LiveReads
    <2>3. ASSUME NEW i \in DOMAIN Insts(g, b) PROVE InstReads(g, b, i)
      <3> DEFINE old == Insts(f, b)[i]
                 new == Insts(g, b)[i]
      <3>1. i \in DOMAIN Insts(f, b) /\ InstReads(f, b, i)
        BY <1>0, <1>2, <2>1 DEF LiveReads
      <3>2. CASE IsPhi(new)
        <4>1. IsPhi(old)
          BY <1>7, <2>1, <3>1, <3>2 DEF IsPhi
        <4>2. PhiReads(f, b, i)
          BY <1>0, <2>1, <3>1, <4>1, PhiLengths, PhiReadsFacts
        <4>3. \A p, v : Gets(new, p, v) => Gets(old, p, v)
          BY <1>3, <2>1, <3>1, <4>1 DEF Forgetting
        <4>4. ASSUME NEW p \in Reachable(g), NEW v, Gets(new, p, v)
              PROVE  MayRead(g, v, p, End(g, p))
          <5>1. MayRead(f, v, p, End(f, p))
            BY <1>5, <4>2, <4>3, <4>4 DEF PhiReads
          <5> QED BY <1>0, <1>2, <1>5, <1>6, <5>1
        <4>5. PhiReads(g, b, i)
          BY <4>4 DEF PhiReads
        <4> QED BY <1>2, <1>8, <2>1, <3>2, <4>5, PhiLengths, PhiReadsFacts
      <3>3. CASE ~IsPhi(new)
        <4>1. new = old
          BY <1>7, <2>1, <3>1, <3>3 DEF IsPhi
        <4> QED BY <1>6, <3>1, <3>3, <4>1 DEF InstReads
      <3> QED BY <3>2, <3>3
    <2> QED BY <2>2, <2>3
  <1> QED BY <1>2, <1>8, <1>9, <1>10, <1>11, <1>12 DEF Sound, g

-----------------------------------------------------------------------------
(* Replacing values: where a table leads, from a set it does not lead out   *)
(* of.                                                                      *)
LEMMA ResolveStays ==
    ASSUME NEW table, IsFiniteSet(DOMAIN table), NEW I,
           \A u \in I : u \in DOMAIN table => table[u] \in I,
           NEW v \in I
    PROVE  Resolve(table, v) \in I
  <1> DEFINE N == Cardinality(DOMAIN table)
             T == {{u} : u \in I}
             Go(X) == {IF u \in DOMAIN table THEN table[u] ELSE u : u \in X}
             Step(s) == [n \in 0..N |-> IF n = 0 THEN {v} ELSE Go(s[n - 1])]
             F == [X \in T |-> Go(X)]
  <1>1. N \in Nat
    BY FS_CardinalityType
  <1>2. \A X \in T : Go(X) \in T
    <2> SUFFICES ASSUME NEW u \in I PROVE Go({u}) \in T
      OBVIOUS
    <2>1. Go({u}) = {IF u \in DOMAIN table THEN table[u] ELSE u}
      OBVIOUS
    <2> QED BY <2>1
  <1>3. {v} \in T
    OBVIOUS
  <1>4. PICK g : IterationOf(g, T, {v}, F, N)
    <2>1. F \in [T -> T]
      BY <1>2
    <2> HIDE DEF F, T, N
    <2> QED BY <1>1, <1>3, <2>1, IterationExists
  <1>5. g = Step(g)
    <2>1. /\ g \in [0..N -> T] /\ g[0] = {v}
          /\ \A i \in 1..N : g[i] = F[g[i - 1]]
      BY <1>4 DEF IterationOf
    <2>2. \A i \in 0..N : i = 0 \/ (i \in 1..N /\ i - 1 \in 0..N /\ i # 0)
      BY <1>1
    <2>3. \A X \in T : F[X] = Go(X)
      OBVIOUS
    <2> HIDE DEF F, T, N, Go
    <2>4. \A i \in 0..N : g[i] = IF i = 0 THEN {v} ELSE Go(g[i - 1])
      BY <2>1, <2>2, <2>3
    <2> QED BY <2>1, <2>4
  <1> DEFINE step == CHOOSE s : s = Step(s)
  <1>6. step = Step(step)
    <2> HIDE DEF Step
    <2> QED BY <1>5
  <1>7. Resolve(table, v) = IF v \in DOMAIN table THEN CHOOSE u \in step[N] : TRUE ELSE v
    BY DEF Resolve
  <1> HIDE DEF step
  <1>8. step[N] \in T
    <2>1. \A i \in 0..N : step[i] = IF i = 0 THEN {v} ELSE Go(step[i - 1])
      <3> HIDE DEF Go, N
      <3> QED BY <1>6
    <2>2. \A i \in 1..N : i \in 0..N /\ i # 0
      BY <1>1
    <2>3. 0 \in 0..N /\ N \in 0..N
      BY <1>1
    <2> HIDE DEF Go, N, T, Step
    <2>4. step[0] \in T /\ \A i \in 1..N : step[i - 1] \in T => step[i] \in T
      BY <1>2, <1>3, <2>1, <2>2, <2>3
    <2>5. \A i \in 0..N : step[i] \in T
      BY <1>1, <2>4, IterationKeeps
    <2> QED BY <2>3, <2>5
  <1> HIDE DEF N
  <1>9. PICK u \in I : step[N] = {u}
    BY <1>8
  <1> QED BY <1>7, <1>9

(* A function whose operands are replaced.                                  *)
LEMMA ReplacedFacts ==
    ASSUME NEW table, IsFiniteSet(DOMAIN table), \A u \in DOMAIN table : table[u] \in Nat,
           NEW reader, "args" \in DOMAIN reader, reader.args \in Seq(Nat)
    PROVE  LET new == Replaced(table, reader) IN
           /\ new = [reader EXCEPT !.args = new.args]
           /\ new.args \in Seq(Nat) /\ Len(new.args) = Len(reader.args) /\ DOMAIN new.args = DOMAIN reader.args
           /\ \A k \in DOMAIN reader.args : new.args[k] = Resolve(table, reader.args[k])
  <1> DEFINE args == reader.args
             n == Len(args)
             s == [k \in DOMAIN args |-> Resolve(table, args[k])]
  <1>1. \A v \in Nat : Resolve(table, v) \in Nat
    BY ResolveStays
  <1>2. DOMAIN args = 1..n /\ n \in Nat /\ \A k \in 1..n : args[k] \in Nat
    OBVIOUS
  <1>3. s \in [1..n -> Nat]
    BY <1>1, <1>2
  <1>4. \A k \in DOMAIN args : s[k] = Resolve(table, args[k])
    OBVIOUS
  <1>5. Replaced(table, reader) = [reader EXCEPT !.args = s]
    BY DEF Replaced
  <1> HIDE DEF s, n, args
  <1>6. s \in Seq(Nat) /\ Len(s) = n /\ DOMAIN s = DOMAIN args
    BY <1>2, <1>3, SeqFacts
  <1>7. Replaced(table, reader).args = s
    BY <1>5
  <1> QED BY <1>4, <1>5, <1>6, <1>7 DEF args, n

LEMMA RewrittenView ==
    ASSUME NEW f, Shape(f), NEW table, IsFiniteSet(DOMAIN table),
           \A u \in DOMAIN table : table[u] \in Nat
    PROVE  LET g == Rewritten(f, table) IN
           /\ Edited(f, g)
           /\ \A b \in Blocks(f) :
                 /\ \A i \in DOMAIN Insts(f, b) : Insts(g, b)[i] = Replaced(table, Insts(f, b)[i])
                 /\ Term(g, b) = Replaced(table, Term(f, b))
  <1> DEFINE g == Rewritten(f, table)
             I == [b \in Blocks(f) |-> [i \in DOMAIN Insts(f, b) |-> Replaced(table, Insts(f, b)[i])]]
             T == [b \in Blocks(f) |-> Replaced(table, Term(f, b))]
  <1>2. BlocksReplaced(f, g, I, T)
    <2> DEFINE blocks == [b \in Blocks(f) |-> [insts |-> I[b], term |-> T[b]]]
    <2>1. g = [f EXCEPT !.blocks = blocks]
      BY DEF Rewritten, Blocks, Insts, Term
    <2>2. "blocks" \in DOMAIN f
      BY DEF Shape
    <2> HIDE DEF g, blocks, I, T
    <2>3. DOMAIN g = DOMAIN f /\ g.kind = f.kind /\ g.params = f.params /\ g.blocks = blocks
      BY <2>1, <2>2
    <2> QED BY <2>3 DEF BlocksReplaced, blocks
  <1>3. ASSUME NEW b \in Blocks(f)
        PROVE  BlockFits(f, b, I[b], T[b])
    <2>1. /\ DOMAIN Insts(f, b) = 1..Len(Insts(f, b)) /\ Len(Insts(f, b)) \in Nat
          /\ Term(f, b) \in [args : Seq(Nat), succ : Seq(Nat)]
          /\ Successors(f, b) \subseteq Blocks(f)
      BY BlockFacts
    <2>2. ASSUME NEW i \in DOMAIN Insts(f, b)
          PROVE  /\ Replaced(table, Insts(f, b)[i]) \in InstShape
                 /\ Replaced(table, Insts(f, b)[i]).result = Insts(f, b)[i].result
      <3> DEFINE inst == Insts(f, b)[i]
                 new == Replaced(table, inst)
      <3>1. inst \in InstShape
        BY InstFacts
      <3> HIDE DEF inst
      <3>2. inst.args \in Seq(Nat) /\ "args" \in DOMAIN inst
        BY <3>1 DEF InstShape
      <3>3. new = [inst EXCEPT !.args = new.args] /\ new.args \in Seq(Nat)
        BY <3>2, ReplacedFacts
      <3> HIDE DEF new
      <3>4. new \in InstShape /\ new.result = inst.result
        BY <3>1, <3>3 DEF InstShape
      <3> QED BY <3>4 DEF new, inst
    <2>3. /\ Replaced(table, Term(f, b)) \in [args : Seq(Nat), succ : Seq(Nat)]
          /\ Replaced(table, Term(f, b)).succ = Term(f, b).succ
      <3> DEFINE term == Term(f, b)
                 new == Replaced(table, term)
      <3>1. term \in [args : Seq(Nat), succ : Seq(Nat)]
        BY <2>1
      <3> HIDE DEF term
      <3>2. term.args \in Seq(Nat) /\ "args" \in DOMAIN term
        BY <3>1
      <3>3. new = [term EXCEPT !.args = new.args] /\ new.args \in Seq(Nat)
        BY <3>2, ReplacedFacts
      <3> HIDE DEF new
      <3>4. new \in [args : Seq(Nat), succ : Seq(Nat)] /\ new.succ = term.succ
        BY <3>1, <3>3
      <3> QED BY <3>4 DEF new, term
    <2>4. I[b] = [i \in DOMAIN Insts(f, b) |-> Replaced(table, Insts(f, b)[i])] /\ T[b] = Replaced(table, Term(f, b))
      OBVIOUS
    <2>5. I[b] \in Seq(InstShape)
      <3> DEFINE s == I[b]
                 n == Len(Insts(f, b))
      <3>1. s \in [1..n -> InstShape] /\ n \in Nat
        <4> HIDE DEF I
        <4> QED BY <2>1, <2>2, <2>4
      <3> HIDE DEF s, n
      <3>2. s \in Seq(InstShape)
        BY <3>1, SeqFacts
      <3> QED BY <3>2 DEF s
    <2> HIDE DEF I, T
    <2> QED BY <2>1, <2>2, <2>3, <2>4, <2>5 DEF BlockFits, Successors
  <1>4. \A b \in Blocks(f) :
            /\ \A i \in DOMAIN Insts(f, b) : I[b][i] = Replaced(table, Insts(f, b)[i])
            /\ T[b] = Replaced(table, Term(f, b))
    OBVIOUS
  <1> HIDE DEF I, T, g
  <1>5. Edited(f, g) /\ \A b \in Blocks(f) : Insts(g, b) = I[b] /\ Term(g, b) = T[b]
    BY <1>2, <1>3, EditedShape
  <1>6. \A b \in Blocks(f) :
            /\ \A i \in DOMAIN Insts(f, b) : Insts(g, b)[i] = Replaced(table, Insts(f, b)[i])
            /\ Term(g, b) = Replaced(table, Term(f, b))
    BY <1>4, <1>5
  <1> QED BY <1>5, <1>6 DEF g

-----------------------------------------------------------------------------
(* If-conversion.  A conversion the verifier refuses is taken back, so all  *)
(* that is left to show is that blocks are still made the way they are.     *)
BlockMade(f, block) ==
    /\ block \in BlockShape /\ Elements(block.term.succ) \subseteq Blocks(f)
    /\ Len(block.term.succ) = 2 => block.term.args # << >>
    /\ \A i \in DOMAIN block.insts : InstConstructed(f, block.insts[i])

Made(f) == Shape(f) /\ Constructed(f)

LEMMA MadeFacts ==
    ASSUME NEW f, {"kind", "params", "blocks"} \subseteq DOMAIN f,
           f.kind \in Seq(Kinds), f.blocks \in Seq(BlockShape), Len(f.blocks) > 0
    PROVE  Made(f) <=> \A b \in Blocks(f) : BlockMade(f, f.blocks[b])
  <1>1. \A b \in Blocks(f) : f.blocks[b] \in BlockShape
    BY DEF Blocks
  <1>2. ASSUME Made(f), NEW b \in Blocks(f)
        PROVE  BlockMade(f, f.blocks[b])
    <2>1. Elements(f.blocks[b].term.succ) \subseteq Blocks(f)
      BY <1>2 DEF Made, Shape, Successors, Term
    <2>2. /\ Len(f.blocks[b].term.succ) = 2 => f.blocks[b].term.args # << >>
          /\ \A i \in DOMAIN f.blocks[b].insts : InstConstructed(f, f.blocks[b].insts[i])
      BY <1>2 DEF Made, Constructed, Insts, Term
    <2> QED BY <1>1, <2>1, <2>2 DEF BlockMade
  <1>3. ASSUME \A b \in Blocks(f) : BlockMade(f, f.blocks[b])
        PROVE  Made(f)
    <2>1. \A b \in Blocks(f) : Successors(f, b) \subseteq Blocks(f)
      BY <1>3 DEF BlockMade, Successors, Term
    <2>2. Constructed(f)
      BY <1>3 DEF BlockMade, Constructed, Insts, Term
    <2>3. Shape(f)
      BY <2>1 DEF Shape
    <2> QED BY <2>2, <2>3 DEF Made
  <1> QED BY <1>2, <1>3

(* One block is replaced.                                                   *)
BlockPut(f, g, b, block) ==
    /\ DOMAIN g = DOMAIN f /\ g.kind \in Seq(Kinds)
    /\ g.blocks = [f.blocks EXCEPT ![b] = block]
LEMMA PutMade ==
    ASSUME NEW f, Made(f), NEW g, NEW b \in Blocks(f), NEW block, BlockPut(f, g, b, block), BlockMade(f, block)
    PROVE  /\ Made(g) /\ Blocks(g) = Blocks(f)
           /\ \A c \in Blocks(f) : g.blocks[c] = IF c = b THEN block ELSE f.blocks[c]
  <1>1. /\ {"kind", "params", "blocks"} \subseteq DOMAIN f /\ f.kind \in Seq(Kinds)
        /\ f.blocks \in Seq(BlockShape) /\ Len(f.blocks) > 0
    BY DEF Made, Shape
  <1>2. block \in BlockShape
    BY DEF BlockMade
  <1>3. /\ g.blocks \in Seq(BlockShape) /\ Len(g.blocks) = Len(f.blocks) /\ DOMAIN g.blocks = DOMAIN f.blocks
        /\ \A c \in Blocks(f) : g.blocks[c] = IF c = b THEN block ELSE f.blocks[c]
    BY <1>1, <1>2 DEF BlockPut, Blocks
  <1>4. Blocks(g) = Blocks(f)
    BY <1>3 DEF Blocks
  <1>5. \A c \in Blocks(f) : BlockMade(f, f.blocks[c])
    BY <1>1, MadeFacts
  <1>6. \A c \in Blocks(g) : BlockMade(f, g.blocks[c])
    BY <1>3, <1>4, <1>5
  <1>7. \A c \in Blocks(g) : BlockMade(g, g.blocks[c])
    BY <1>4, <1>6 DEF BlockMade, InstConstructed
  <1>8. {"kind", "params", "blocks"} \subseteq DOMAIN g /\ g.kind \in Seq(Kinds)
    BY <1>1 DEF BlockPut
  <1>9. Made(g)
    BY <1>1, <1>3, <1>7, <1>8, MadeFacts
  <1> QED BY <1>3, <1>4, <1>9

(* append_inst.                                                             *)
Code == {s \in Ops \X Seq(Nat) :
            s[1] \notin {"nop", "phi", "store", "memzero"} /\ (s[1] \in BinaryOps => Len(s[2]) = 2)}

LEMMA ExtendedMade ==
    ASSUME NEW f, Made(f), NEW b \in Blocks(f), NEW code \in Seq(Code)
    PROVE  LET g == Extended(f, b, code) IN
           /\ Made(g) /\ Blocks(g) = Blocks(f) /\ Len(g.kind) \in Nat
           /\ \A c \in Blocks(f) : DOMAIN Insts(f, c) \subseteq DOMAIN Insts(g, c)
  <1> DEFINE g == Extended(f, b, code)
             n == Len(f.kind)
             more == [k \in DOMAIN code |->
                        [op |-> code[k][1], result |-> n + k, args |-> code[k][2], preds |-> << >>]]
             kinds == [k \in DOMAIN code |-> "inst"]
             insts == f.blocks[b].insts \o more
             block == [f.blocks[b] EXCEPT !.insts = insts]
  <1>1. /\ Shape(f) /\ {"kind", "params", "blocks"} \subseteq DOMAIN f /\ f.kind \in Seq(Kinds) /\ n \in Nat
        /\ f.blocks \in Seq(BlockShape) /\ f.blocks[b] \in BlockShape
    BY DEF Made, Shape, Blocks
  <1>2. Len(code) \in Nat /\ DOMAIN code = 1..Len(code) /\ \A k \in 1..Len(code) : code[k] \in Code
    OBVIOUS
  <1>3. ASSUME NEW k \in 1..Len(code)
        PROVE  more[k] \in InstShape /\ InstConstructed(f, more[k])
    <2> DEFINE s == code[k]
    <2>1. /\ s[1] \in Ops /\ s[2] \in Seq(Nat) /\ s[1] \notin {"nop", "phi", "store", "memzero"}
          /\ s[1] \in BinaryOps => Len(s[2]) = 2
      BY <1>2 DEF Code
    <2>2. more[k] = [op |-> s[1], result |-> n + k, args |-> s[2], preds |-> << >>]
      BY <1>2
    <2>3. n + k \in Nat /\ n + k # NoValue
      BY <1>1, <1>2 DEF NoValue
    <2> HIDE DEF s, more, n
    <2>4. more[k] \in InstShape
      BY <2>1, <2>2, <2>3 DEF InstShape
    <2>5. InstConstructed(f, more[k])
      BY <2>1, <2>2, <2>3 DEF InstConstructed, IsPhi
    <2> QED BY <2>4, <2>5
  <1>4. more \in Seq(InstShape) /\ Len(more) = Len(code)
    <2> DEFINE m == Len(code)
    <2>1. more \in [1..m -> InstShape] /\ m \in Nat
      BY <1>2, <1>3
    <2> HIDE DEF more, m
    <2>2. more \in Seq(InstShape) /\ Len(more) = m
      BY <2>1, SeqFacts
    <2> QED BY <2>2 DEF m
  <1>5. kinds \in Seq(Kinds)
    <2> DEFINE m == Len(code)
    <2>1. kinds \in [1..m -> Kinds] /\ m \in Nat
      BY <1>2 DEF Kinds
    <2> HIDE DEF kinds, m
    <2> QED BY <2>1, SeqFacts
  <1> DEFINE bool == f.bool \cup {n + k : k \in {j \in DOMAIN code : code[j][1] \in BooleanOps}}
  <1>6. g = [f EXCEPT !.kind = @ \o kinds, !.bool = bool, !.blocks[b].insts = insts]
    BY DEF Extended
  <1>7. /\ DOMAIN g = DOMAIN f /\ g.kind = f.kind \o kinds
        /\ g.blocks = [f.blocks EXCEPT ![b] = block]
    <2> HIDE DEF kinds, bool, insts, g
    <2> QED BY <1>1, <1>6
  <1>8. f.blocks[b].insts \in Seq(InstShape) /\ f.blocks[b].term \in [args : Seq(Nat), succ : Seq(Nat)]
    BY <1>1 DEF BlockShape
  <1>9. /\ insts \in Seq(InstShape)
        /\ \A i \in DOMAIN insts : InstConstructed(f, insts[i])
        /\ DOMAIN f.blocks[b].insts \subseteq DOMAIN insts
    <2>1. \A i \in DOMAIN f.blocks[b].insts : InstConstructed(f, f.blocks[b].insts[i])
      BY DEF Made, Constructed, Insts
    <2>2. \A k \in 1..Len(more) : InstConstructed(f, more[k])
      BY <1>3, <1>4
    <2> DEFINE old == f.blocks[b].insts
    <2>3. old \in Seq(InstShape) /\ \A i \in DOMAIN old : InstConstructed(f, old[i])
      BY <1>8, <2>1
    <2> HIDE DEF old, more
    <2>4. old \o more \in Seq(InstShape) /\ Len(old \o more) = Len(old) + Len(more)
      <3> DEFINE S == InstShape
      <3>1. old \in Seq(S) /\ more \in Seq(S)
        BY <1>4, <2>3
      <3> HIDE DEF S
      <3>2. old \o more \in Seq(S) /\ Len(old \o more) = Len(old) + Len(more)
        BY <3>1
      <3> QED BY <3>2 DEF S
    <2>5. ASSUME NEW i \in DOMAIN (old \o more) PROVE InstConstructed(f, (old \o more)[i])
      <3>1. i \in 1..(Len(old) + Len(more))
        BY <1>4, <2>3, <2>4
      <3>2. CASE i <= Len(old)
        <4>1. i \in DOMAIN old /\ (old \o more)[i] = old[i]
          BY <1>4, <2>3, <3>1, <3>2
        <4> QED BY <2>3, <4>1
      <3>3. CASE i > Len(old)
        <4>1. i - Len(old) \in 1..Len(more) /\ (old \o more)[i] = more[i - Len(old)]
          BY <1>4, <2>3, <3>1, <3>3
        <4> QED BY <2>2, <4>1
      <3> QED BY <1>4, <2>3, <3>1, <3>2, <3>3
    <2>6. DOMAIN old \subseteq DOMAIN (old \o more)
      BY <1>4, <2>3, <2>4
    <2> QED BY <2>4, <2>5, <2>6 DEF old
  <1> HIDE DEF insts
  <1>10. block \in BlockShape /\ block.insts = insts /\ block.term = f.blocks[b].term
    BY <1>1, <1>8, <1>9 DEF BlockShape
  <1>11. BlockMade(f, block)
    <2>1. BlockMade(f, f.blocks[b])
      <3>1. Len(f.blocks) > 0
        BY <1>1 DEF Shape
      <3> QED BY <1>1, <3>1, MadeFacts
    <2> HIDE DEF block
    <2> QED BY <1>9, <1>10, <2>1 DEF BlockMade
  <1> HIDE DEF g, block, kinds
  <1>12. g.kind \in Seq(Kinds)
    BY <1>1, <1>5, <1>7
  <1>13. BlockPut(f, g, b, block)
    BY <1>7, <1>12 DEF BlockPut
  <1>14. /\ Made(g) /\ Blocks(g) = Blocks(f)
         /\ \A c \in Blocks(f) : g.blocks[c] = IF c = b THEN block ELSE f.blocks[c]
    BY <1>11, <1>13, PutMade
  <1>15. \A c \in Blocks(f) : DOMAIN Insts(f, c) \subseteq DOMAIN Insts(g, c)
    BY <1>9, <1>10, <1>14 DEF Insts
  <1>16. Len(g.kind) \in Nat
    BY <1>12
  <1> QED BY <1>14, <1>15, <1>16 DEF g

Jumping(f, b, t) == [f EXCEPT !.blocks[b].term = Jump(t)]
Cleared(f, b, i) == [f EXCEPT !.blocks[b].insts[i] = Nop]

LEMMA TermMade ==
    ASSUME NEW f, Made(f), NEW b \in Blocks(f), NEW t \in Blocks(f)
    PROVE  LET g == Jumping(f, b, t) IN
           /\ Made(g) /\ Blocks(g) = Blocks(f) /\ g.kind = f.kind
           /\ \A c \in Blocks(f) : Insts(g, c) = Insts(f, c)
  <1> DEFINE block == [f.blocks[b] EXCEPT !.term = Jump(t)]
             g == Jumping(f, b, t)
  <1>1. /\ Shape(f) /\ {"kind", "params", "blocks"} \subseteq DOMAIN f /\ f.kind \in Seq(Kinds)
        /\ f.blocks \in Seq(BlockShape) /\ f.blocks[b] \in BlockShape /\ Len(f.blocks) > 0
    BY DEF Made, Shape, Blocks
  <1>2. t \in Nat
    BY <1>1, ShapeFacts
  <1>3. /\ Jump(t) \in [args : Seq(Nat), succ : Seq(Nat)] /\ Elements(Jump(t).succ) = {t}
        /\ Len(Jump(t).succ) # 2
    BY <1>2, JumpFacts
  <1>4. BlockMade(f, f.blocks[b])
    BY <1>1, MadeFacts
  <1>5. block \in BlockShape /\ block.insts = f.blocks[b].insts /\ block.term = Jump(t)
    BY <1>1, <1>3 DEF BlockShape
  <1>6. DOMAIN g = DOMAIN f /\ g.kind = f.kind /\ g.blocks = [f.blocks EXCEPT ![b] = block]
    BY <1>1 DEF Jumping
  <1> HIDE DEF block, g
  <1>7. BlockMade(f, block)
    BY <1>3, <1>4, <1>5 DEF BlockMade
  <1>8. BlockPut(f, g, b, block)
    BY <1>1, <1>6 DEF BlockPut
  <1>9. /\ Made(g) /\ Blocks(g) = Blocks(f)
        /\ \A c \in Blocks(f) : g.blocks[c] = IF c = b THEN block ELSE f.blocks[c]
    BY <1>7, <1>8, PutMade
  <1>10. \A c \in Blocks(f) : Insts(g, c) = Insts(f, c)
    BY <1>5, <1>9 DEF Insts
  <1> QED BY <1>6, <1>9, <1>10 DEF g

LEMMA NopMade ==
    ASSUME NEW f, Made(f), NEW b \in Blocks(f), NEW i \in DOMAIN Insts(f, b)
    PROVE  LET g == Cleared(f, b, i) IN
           /\ Made(g) /\ Blocks(g) = Blocks(f) /\ g.kind = f.kind
           /\ \A c \in Blocks(f) : DOMAIN Insts(g, c) = DOMAIN Insts(f, c)
  <1> DEFINE insts == [f.blocks[b].insts EXCEPT ![i] = Nop]
             block == [f.blocks[b] EXCEPT !.insts = insts]
             g == Cleared(f, b, i)
  <1>1. /\ Shape(f) /\ {"kind", "params", "blocks"} \subseteq DOMAIN f /\ f.kind \in Seq(Kinds)
        /\ f.blocks \in Seq(BlockShape) /\ f.blocks[b] \in BlockShape /\ Len(f.blocks) > 0
    BY DEF Made, Shape, Blocks
  <1>3. Nop \in InstShape /\ InstConstructed(f, Nop)
    <2>1. /\ Nop.op = "nop" /\ Nop.result = 0 /\ Nop.args = << >> /\ Nop.preds = << >>
      BY DEF Nop, NoValue
    <2> QED BY <2>1 DEF Nop, NoValue, InstShape, Ops, InstConstructed, IsPhi, BinaryOps
  <1>4. BlockMade(f, f.blocks[b])
    BY <1>1, MadeFacts
  <1>5. /\ f.blocks[b].insts \in Seq(InstShape) /\ i \in DOMAIN f.blocks[b].insts
        /\ f.blocks[b].term \in [args : Seq(Nat), succ : Seq(Nat)]
    BY <1>1 DEF BlockShape, Insts
  <1>6. /\ insts \in Seq(InstShape) /\ DOMAIN insts = DOMAIN f.blocks[b].insts
        /\ \A j \in DOMAIN insts : insts[j] \in {f.blocks[b].insts[j], Nop}
    BY <1>3, <1>5
  <1> HIDE DEF insts
  <1>7. block \in BlockShape /\ block.insts = insts /\ block.term = f.blocks[b].term
    BY <1>1, <1>5, <1>6 DEF BlockShape
  <1>8. DOMAIN g = DOMAIN f /\ g.kind = f.kind /\ g.blocks = [f.blocks EXCEPT ![b] = block]
    BY <1>1 DEF insts, Cleared
  <1> HIDE DEF block, g
  <1>9. BlockMade(f, block)
    BY <1>3, <1>4, <1>6, <1>7 DEF BlockMade
  <1>10. BlockPut(f, g, b, block)
    BY <1>1, <1>8 DEF BlockPut
  <1>11. /\ Made(g) /\ Blocks(g) = Blocks(f)
        /\ \A c \in Blocks(f) : g.blocks[c] = IF c = b THEN block ELSE f.blocks[c]
    BY <1>9, <1>10, PutMade
  <1>12. \A c \in Blocks(f) : DOMAIN Insts(g, c) = DOMAIN Insts(f, c)
    BY <1>6, <1>7, <1>11 DEF Insts
  <1> QED BY <1>8, <1>11, <1>12 DEF g

LEMMA RewrittenMade ==
    ASSUME NEW f, Made(f), NEW table, IsFiniteSet(DOMAIN table),
           \A u \in DOMAIN table : table[u] \in Nat
    PROVE  Made(Rewritten(f, table))
  <1> DEFINE g == Rewritten(f, table)
  <1>1. Shape(f) /\ Constructed(f)
    BY DEF Made
  <1>2. /\ Edited(f, g)
        /\ \A b \in Blocks(f) :
              /\ \A i \in DOMAIN Insts(f, b) : Insts(g, b)[i] = Replaced(table, Insts(f, b)[i])
              /\ Term(g, b) = Replaced(table, Term(f, b))
    BY <1>1, RewrittenView
  <1> HIDE DEF g
  <1>3. /\ Shape(g) /\ Blocks(g) = Blocks(f)
        /\ \A b \in Blocks(f) : DOMAIN Insts(g, b) = DOMAIN Insts(f, b)
    BY <1>2 DEF Edited
  <1>4. ASSUME NEW b \in Blocks(f), NEW i \in DOMAIN Insts(f, b)
        PROVE  InstConstructed(g, Insts(g, b)[i])
    <2> DEFINE old == Insts(f, b)[i]
               new == Replaced(table, old)
    <2>1. old \in InstShape /\ InstConstructed(f, old)
      BY <1>1, InstFacts DEF Constructed
    <2> HIDE DEF old
    <2>2. old.args \in Seq(Nat) /\ "args" \in DOMAIN old
      BY <2>1 DEF InstShape
    <2>3. new = [old EXCEPT !.args = new.args] /\ Len(new.args) = Len(old.args)
      BY <2>2, ReplacedFacts
    <2> HIDE DEF new
    <2>4. new.op = old.op /\ new.result = old.result /\ new.preds = old.preds
      BY <2>1, <2>3 DEF InstShape
    <2>5. InstConstructed(g, new)
      BY <1>3, <2>1, <2>3, <2>4 DEF InstConstructed, IsPhi
    <2> QED BY <1>2, <2>5 DEF new, old
  <1>5. ASSUME NEW b \in Blocks(f), Len(Term(g, b).succ) = 2
        PROVE  Term(g, b).args # << >>
    <2> DEFINE old == Term(f, b)
               new == Replaced(table, old)
    <2>1. old \in [args : Seq(Nat), succ : Seq(Nat)] /\ (Len(old.succ) = 2 => old.args # << >>)
      BY <1>1, BlockFacts DEF Constructed
    <2> HIDE DEF old
    <2>2. old.args \in Seq(Nat) /\ "args" \in DOMAIN old
      BY <2>1
    <2>3. new = [old EXCEPT !.args = new.args] /\ Len(new.args) = Len(old.args)
      BY <2>2, ReplacedFacts
    <2> HIDE DEF new
    <2>4. new.succ = old.succ
      BY <2>1, <2>3
    <2>5. Term(g, b) = new
      BY <1>2 DEF new, old
    <2> QED BY <1>5, <2>1, <2>2, <2>3, <2>4, <2>5
  <1>6. Constructed(g)
    BY <1>3, <1>4, <1>5 DEF Constructed
  <1> QED BY <1>3, <1>6 DEF Made, g

LEMMA JoinedMade ==
    ASSUME Made(func), NEW c, c.block \in Blocks(func), NEW code \in Seq(Code),
           c.moved[1] \in Blocks(func), c.moved[2] \in DOMAIN Insts(func, c.moved[1]),
           c.phi[1] \in Blocks(func), c.phi[2] \in DOMAIN Insts(func, c.phi[1])
    PROVE  Made(Joined(c, code))
  <1> DEFINE f == Extended(func, c.block, code)
             term == Jumping(f, c.block, c.phi[1])
             moved == Cleared(term, c.moved[1], c.moved[2])
             phi == Cleared(moved, c.phi[1], c.phi[2])
             table == [v \in {At(func, c.phi).result} |-> Len(f.kind)]
  <1>1. /\ Made(f) /\ Blocks(f) = Blocks(func) /\ Len(f.kind) \in Nat
        /\ \A b \in Blocks(func) : DOMAIN Insts(func, b) \subseteq DOMAIN Insts(f, b)
    BY ExtendedMade
  <1>2. Joined(c, code) = Rewritten(phi, table)
    BY DEF Joined, Jumping, Cleared
  <1>3. IsFiniteSet(DOMAIN table) /\ \A u \in DOMAIN table : table[u] \in Nat
    <2> DEFINE d == At(func, c.phi).result
               n == Len(f.kind)
    <2>1. n \in Nat
      BY <1>1
    <2> HIDE DEF d, n
    <2>2. table = [v \in {d} |-> n]
      BY DEF d, n
    <2>3. IsFiniteSet({d})
      BY FS_Singleton
    <2> HIDE DEF table
    <2> QED BY <2>1, <2>2, <2>3
  <1> HIDE DEF f, table
  <1>4. /\ Made(term) /\ Blocks(term) = Blocks(f) /\ \A b \in Blocks(f) : Insts(term, b) = Insts(f, b)
    <2>1. Made(f) /\ c.block \in Blocks(f) /\ c.phi[1] \in Blocks(f)
      BY <1>1
    <2> QED BY <2>1, TermMade
  <1> HIDE DEF term
  <1>5. /\ Made(moved) /\ Blocks(moved) = Blocks(f)
        /\ \A b \in Blocks(f) : DOMAIN Insts(moved, b) = DOMAIN Insts(f, b)
    <2>1. c.moved[1] \in Blocks(term) /\ c.moved[2] \in DOMAIN Insts(term, c.moved[1])
      BY <1>1, <1>4
    <2>2. /\ Made(moved) /\ Blocks(moved) = Blocks(term)
          /\ \A b \in Blocks(term) : DOMAIN Insts(moved, b) = DOMAIN Insts(term, b)
      BY <1>4, <2>1, NopMade
    <2> HIDE DEF moved
    <2> QED BY <1>4, <2>2
  <1> HIDE DEF moved
  <1>6. Made(phi)
    <2>1. c.phi[1] \in Blocks(moved) /\ c.phi[2] \in DOMAIN Insts(moved, c.phi[1])
      BY <1>1, <1>5
    <2> QED BY <1>5, <2>1, NopMade
  <1> HIDE DEF phi
  <1>7. Made(Rewritten(phi, table))
    BY <1>3, <1>6, RewrittenMade
  <1> QED BY <1>2, <1>7

LEMMA SiteFacts ==
    ASSUME NEW f, NEW s \in Sites(f)
    PROVE  s[1] \in Blocks(f) /\ s[2] \in DOMAIN Insts(f, s[1]) /\ s = <<s[1], s[2]>>
  <1>1. PICK b \in Blocks(f) : \E i \in DOMAIN Insts(f, b) : s = <<b, i>>
    BY DEF Sites
  <1>2. PICK i \in DOMAIN Insts(f, b) : s = <<b, i>>
    BY <1>1
  <1> QED BY <1>2

LEMMA StepFacts ==
    ASSUME NEW v \in Nat, NEW w \in Nat
    PROVE  /\ <<"not", <<v>>>> \in Code /\ <<"toint", <<v>>>> \in Code
           /\ \A op \in {"and", "or", "mul", "add", "sub"} : <<op, <<v, w>>>> \in Code
  <1> DEFINE one == <<v>>
             two == <<v, w>>
  <1>1. one \in Seq(Nat) /\ two \in Seq(Nat) /\ Len(two) = 2
    OBVIOUS
  <1> HIDE DEF one, two
  <1>2. /\ <<"not", one>> \in Code /\ <<"toint", one>> \in Code
        /\ \A op \in {"and", "or", "mul", "add", "sub"} : <<op, two>> \in Code
    BY <1>1 DEF Code, Ops, BinaryOps
  <1> QED BY <1>2 DEF one, two

LEMMA CodeFacts ==
    ASSUME NEW a \in Code, NEW b \in Code, NEW d \in Code
    PROVE  << >> \in Seq(Code) /\ <<a>> \in Seq(Code) /\ <<a, b>> \in Seq(Code) /\ <<a, b, d>> \in Seq(Code)
  OBVIOUS

LEMMA SeqView ==
    ASSUME NEW S, NEW s \in Seq(S)
    PROVE  DOMAIN s = 1..Len(s) /\ Len(s) \in Nat /\ \A k \in DOMAIN s : s[k] \in S
  OBVIOUS

LEMMA PairFacts ==
    ASSUME NEW s \in Seq(Nat), Len(s) = 2
    PROVE  s[1] \in Nat /\ s[2] \in Nat
  <1>1. DOMAIN s = 1..Len(s) /\ \A k \in DOMAIN s : s[k] \in Nat
    BY ONLY s \in Seq(Nat), SeqView
  <1>2. DOMAIN s = 1..2
    BY <1>1
  <1>3. 1 \in 1..2 /\ 2 \in 1..2
    OBVIOUS
  <1> QED BY <1>1, <1>2, <1>3

LEMMA JoinCode ==
    ASSUME NEW s \in Seq(Code), NEW t \in Seq(Code)
    PROVE  s \o t \in Seq(Code)
  OBVIOUS

LEMMA ConditionFacts ==
    ASSUME NEW f, Made(f), NEW b \in Blocks(f), IsBranch(f, b)
    PROVE  Condition(f, b) \in Nat /\ Condition(f, b) \in Elements(Term(f, b).args)
  <1>1. Term(f, b).args # << >> /\ Term(f, b).args \in Seq(Nat)
    BY BlockFacts DEF Made, Constructed, IsBranch
  <1> DEFINE args == Term(f, b).args
  <1>2. args \in Seq(Nat) /\ args # << >>
    BY <1>1
  <1> HIDE DEF args
  <1>3. 1 \in DOMAIN args /\ args[1] \in Nat
    BY <1>2
  <1> QED BY <1>3 DEF args, Condition, Elements

LEMMA ShortCircuitMade ==
    ASSUME Made(func), NEW c \in ShortCircuits
    PROVE  /\ Made(ShortCircuitConverted(c))
           /\ \E code \in Seq(Code) : ShortCircuitConverted(c) = Joined(c, code)
  <1> DEFINE inst == At(func, c.moved)
             cond == Condition(func, c.block)
             value == Literal(Incoming(At(func, c.phi), c.block)) # 0
             direct == Term(func, c.block).succ[1] = c.phi[1]
             op == IF value THEN "or" ELSE "and"
             rest == IF Inverted(direct = value)
                     THEN <<<<"not", <<cond>>>>, <<op, <<Fresh(2), Fresh(1)>>>>>>
                     ELSE <<<<op, <<cond, Fresh(1)>>>>>>
  <1>0. Shape(func) /\ Constructed(func) /\ Fresh(1) \in Nat /\ Fresh(2) \in Nat
    BY ShapeFacts DEF Made, Fresh
  <1>1. /\ c.block \in Blocks(func) /\ c.moved \in Alone(BooleanOps) /\ c.phi \in Alone({"phi"})
        /\ IsBranch(func, c.block)
    BY DEF ShortCircuits, IsShortCircuit
  <1>2. /\ c.moved \in Sites(func) /\ inst.op \in BooleanOps /\ c.phi \in Sites(func)
    BY <1>1 DEF Alone
  <1>3. /\ c.moved[1] \in Blocks(func) /\ c.moved[2] \in DOMAIN Insts(func, c.moved[1])
        /\ c.phi[1] \in Blocks(func) /\ c.phi[2] \in DOMAIN Insts(func, c.phi[1])
    BY <1>2, SiteFacts
  <1>4. inst.args \in Seq(Nat) /\ InstConstructed(func, inst)
    BY <1>0, <1>3, InstFacts DEF At, Constructed
  <1>5. cond \in Nat
    BY <1>1, ConditionFacts
  <1>6. ShortCircuitConverted(c) = Joined(c, <<<<inst.op, inst.args>>>> \o rest)
    BY DEF ShortCircuitConverted
  <1>7. op \in {"and", "or"}
    OBVIOUS
  <1> HIDE DEF inst, cond, op
  <1>8. <<inst.op, inst.args>> \in Code
    BY <1>2, <1>4 DEF Code, Ops, BinaryOps, BooleanOps, InstConstructed
  <1>9. rest \in Seq(Code)
    <2>1. <<op, <<cond, Fresh(1)>>>> \in Code /\ <<op, <<Fresh(2), Fresh(1)>>>> \in Code /\ <<"not", <<cond>>>> \in Code
      BY <1>0, <1>5, <1>7, StepFacts
    <2> DEFINE a == <<op, <<cond, Fresh(1)>>>>
               b == <<op, <<Fresh(2), Fresh(1)>>>>
               d == <<"not", <<cond>>>>
    <2>2. a \in Code /\ b \in Code /\ d \in Code
      BY <2>1
    <2>3. rest \in {<<d, b>>, <<a>>}
      OBVIOUS
    <2> HIDE DEF a, b, d, rest
    <2>4. <<d, b>> \in Seq(Code) /\ <<a>> \in Seq(Code)
      BY <2>2, CodeFacts
    <2> QED BY <2>3, <2>4
  <1> HIDE DEF rest
  <1>10. <<<<inst.op, inst.args>>>> \o rest \in Seq(Code)
    <2>1. <<<<inst.op, inst.args>>>> \in Seq(Code)
      BY <1>8, CodeFacts
    <2> QED BY <1>9, <2>1, JoinCode
  <1>11. Made(Joined(c, <<<<inst.op, inst.args>>>> \o rest))
    BY <1>1, <1>3, <1>10, JoinedMade
  <1> QED BY <1>6, <1>10, <1>11

LEMMA UpdateMade ==
    ASSUME Made(func), NEW c \in ConditionalUpdates
    PROVE  /\ Made(UpdateConverted(c))
           /\ \E code \in Seq(Code) : UpdateConverted(c) = Joined(c, code)
  <1> DEFINE inst == At(func, c.moved)
             cond == Condition(func, c.block)
             inverted == Inverted(Term(func, c.block).succ[1] = c.moved[1])
             k == IF inverted THEN 1 ELSE 0
             first == IF inverted THEN <<<<"not", <<cond>>>>>> ELSE << >>
             tested == IF inverted THEN Fresh(1) ELSE cond
             rest == <<<<"toint", <<tested>>>>,
                       <<"mul", <<inst.args[2], Fresh(k + 1)>>>>,
                       <<inst.op, <<inst.args[1], Fresh(k + 2)>>>>>>
  <1>0. Shape(func) /\ Constructed(func) /\ Fresh(1) \in Nat /\ Fresh(k + 1) \in Nat /\ Fresh(k + 2) \in Nat
    <2> DEFINE n == Len(func.kind)
    <2>1. n \in Nat /\ k \in Nat
      BY ShapeFacts DEF Made
    <2>2. /\ Shape(func) /\ Constructed(func)
          /\ Fresh(1) = n + 1 /\ Fresh(k + 1) = n + (k + 1) /\ Fresh(k + 2) = n + (k + 2)
      BY DEF Made, Fresh
    <2> HIDE DEF k, n
    <2>3. n + 1 \in Nat /\ n + (k + 1) \in Nat /\ n + (k + 2) \in Nat
      BY <2>1
    <2> QED BY <2>2, <2>3
  <1>1. /\ c.block \in Blocks(func) /\ c.moved \in Alone({"add", "sub"}) /\ c.phi \in OnlyLeadingPhi
        /\ IsBranch(func, c.block)
    BY DEF ConditionalUpdates, IsConditionalUpdate
  <1>2. /\ c.moved \in Sites(func) /\ inst.op \in {"add", "sub"} /\ c.phi \in Sites(func)
    BY <1>1 DEF Alone, OnlyLeadingPhi
  <1>3. /\ c.moved[1] \in Blocks(func) /\ c.moved[2] \in DOMAIN Insts(func, c.moved[1])
        /\ c.phi[1] \in Blocks(func) /\ c.phi[2] \in DOMAIN Insts(func, c.phi[1])
    BY <1>2, SiteFacts
  <1>4. inst.args[1] \in Nat /\ inst.args[2] \in Nat
    <2>1. inst.args \in Seq(Nat) /\ InstConstructed(func, inst)
      BY <1>0, <1>3, InstFacts DEF At, Constructed
    <2>2. Len(inst.args) = 2
      BY <1>2, <2>1 DEF InstConstructed, BinaryOps
    <2> QED BY <2>1, <2>2, PairFacts
  <1>5. cond \in Nat
    BY <1>1, ConditionFacts
  <1>6. UpdateConverted(c) = Joined(c, first \o rest)
    BY DEF UpdateConverted
  <1>7. tested \in Nat
    BY <1>0, <1>5
  <1> HIDE DEF inst, cond, tested, k, inverted
  <1>8. first \in Seq(Code)
    <2>1. <<"not", <<cond>>>> \in Code
      BY <1>5, StepFacts
    <2> DEFINE d == <<"not", <<cond>>>>
    <2>2. d \in Code /\ first \in {<<d>>, << >>}
      BY <2>1
    <2> HIDE DEF d, first
    <2>3. <<d>> \in Seq(Code) /\ << >> \in Seq(Code)
      BY <2>2, CodeFacts
    <2> QED BY <2>2, <2>3
  <1>9. rest \in Seq(Code)
    <2> DEFINE a == <<"toint", <<tested>>>>
               b == <<"mul", <<inst.args[2], Fresh(k + 1)>>>>
               d == <<inst.op, <<inst.args[1], Fresh(k + 2)>>>>
    <2>1. a \in Code /\ b \in Code /\ d \in Code
      BY <1>0, <1>2, <1>4, <1>7, StepFacts
    <2>2. rest = <<a, b, d>>
      OBVIOUS
    <2> HIDE DEF a, b, d, rest
    <2>3. <<a, b, d>> \in Seq(Code)
      BY <2>1, CodeFacts
    <2> QED BY <2>2, <2>3
  <1> HIDE DEF rest, first
  <1>10. first \o rest \in Seq(Code)
    BY <1>8, <1>9, JoinCode
  <1>11. Made(Joined(c, first \o rest))
    BY <1>1, <1>3, <1>10, JoinedMade
  <1> QED BY <1>6, <1>10, <1>11

-----------------------------------------------------------------------------
(* What a rewrite that leaves everything in its place has to show.          *)
InstFine(f, inst) ==
    /\ InstConstructed(f, inst)
    /\ Uses(inst) \subseteq Values(f)
    /\ inst.result \in IF IsPhi(inst) THEN Values(f) ELSE Values(f) \cup {NoValue}
    /\ inst.op = "nop" => inst = Nop
TermFine(f, term) ==
    Elements(term.args) \subseteq Values(f) /\ (Len(term.succ) = 2 => term.args # << >>)

LEMMA FineFacts ==
    ASSUME NEW f, Sound(f)
    PROVE  /\ \A b \in Blocks(f) : TermFine(f, Term(f, b)) /\ \A i \in DOMAIN Insts(f, b) : InstFine(f, Insts(f, b)[i])
           /\ InstFine(f, Nop)
  <1>1. Constructed(f) /\ ValuesChecked(f)
    BY SoundFacts
  <1>2. InstFine(f, Nop)
    <2>1. Nop.op = "nop" /\ Nop.result = NoValue /\ Nop.args = << >> /\ Nop.preds = << >>
      BY DEF Nop
    <2>2. Uses(Nop) = {}
      BY <2>1 DEF Uses, Elements
    <2> QED BY <2>1, <2>2 DEF InstFine, InstConstructed, IsPhi, BinaryOps, NoValue
  <1>3. ASSUME NEW b \in Blocks(f)
        PROVE  TermFine(f, Term(f, b)) /\ \A i \in DOMAIN Insts(f, b) : InstFine(f, Insts(f, b)[i])
    BY <1>1 DEF Constructed, ValuesChecked, TermFine, InstFine
  <1> QED BY <1>2, <1>3

LEMMA EditedFine ==
    ASSUME NEW f, NEW g, Sound(f), Edited(f, g),
           \A b \in Blocks(f) : TermFine(f, Term(g, b)) /\ \A i \in DOMAIN Insts(f, b) : InstFine(f, Insts(g, b)[i])
    PROVE  /\ Constructed(g) /\ ValuesChecked(g) /\ SingleAssignment(g) /\ ParamsListed(g) /\ Shape(g)
           /\ Blocks(g) = Blocks(f) /\ Values(g) = Values(f) /\ g.kind = f.kind
           /\ \A v : IsInst(g, v) <=> IsInst(f, v)
           /\ \A b \in Blocks(f) : End(g, b) = End(f, b) /\ DOMAIN Insts(g, b) = DOMAIN Insts(f, b)
  <1>1. Shape(f) /\ SingleAssignment(f) /\ ParamsListed(f)
    BY SoundFacts
  <1>2. /\ Shape(g) /\ Blocks(g) = Blocks(f) /\ Values(g) = Values(f) /\ g.kind = f.kind
        /\ SingleAssignment(g) /\ ParamsListed(g) /\ \A v : IsInst(g, v) <=> IsInst(f, v)
        /\ \A b \in Blocks(f) : End(g, b) = End(f, b) /\ DOMAIN Insts(g, b) = DOMAIN Insts(f, b)
    BY <1>1, EditedFacts DEF Edited
  <1>3. ASSUME NEW b \in Blocks(f), NEW i \in DOMAIN Insts(f, b)
        PROVE  InstFine(f, Insts(g, b)[i])
    OBVIOUS
  <1>4. ASSUME NEW b \in Blocks(f) PROVE TermFine(f, Term(g, b))
    OBVIOUS
  <1>5. Constructed(g)
    <2>1. ASSUME NEW b \in Blocks(f), NEW i \in DOMAIN Insts(f, b)
          PROVE  InstConstructed(g, Insts(g, b)[i])
      BY <1>2, <1>3 DEF InstFine, InstConstructed
    <2> QED BY <1>2, <1>4, <2>1 DEF Constructed, TermFine
  <1>6. ValuesChecked(g)
    BY <1>2, <1>3, <1>4 DEF ValuesChecked, InstFine, TermFine
  <1> QED BY <1>2, <1>5, <1>6

(* The same edges: the same ways.                                           *)
LEMMA SameWays ==
    ASSUME NEW f, NEW g, Shape(f), Shape(g), Blocks(g) = Blocks(f),
           \A b \in Blocks(f) : Successors(g, b) = Successors(f, b)
    PROVE  /\ Reachable(g) = Reachable(f)
           /\ \A a : Avoiding(g, a) = Avoiding(f, a)
           /\ \A b : Predecessors(g, b) = Predecessors(f, b)
  <1>1. ASSUME NEW a PROVE Avoiding(g, a) = Avoiding(f, a)
    <2>1. Avoiding(g, a) \subseteq Avoiding(f, a)
      BY AvoidingFacts, FewerEdges DEF Closed
    <2>2. Avoiding(f, a) \subseteq Avoiding(g, a)
      BY AvoidingFacts, FewerEdges DEF Closed
    <2> QED BY <2>1, <2>2
  <1>2. Reachable(g) = Reachable(f)
    <2>1. Reachable(g) \subseteq Reachable(f)
      BY AvoidingFacts, FewerReached
    <2>2. Reachable(f) \subseteq Reachable(g)
      BY AvoidingFacts, FewerReached
    <2> QED BY <2>1, <2>2
  <1> QED BY <1>1, <1>2 DEF Predecessors

(* Dominance: some way first arrives at a block; what every way to c        *)
(* passes, every way past c does not leave out; no two blocks each stand    *)
(* before the other.                                                        *)
LEMMA FirstArrival ==
    ASSUME NEW f, Shape(f), NEW c \in Reachable(f), c # Entry
    PROVE  \E p \in Avoiding(f, c) : c \in Successors(f, p)
  <1>1. SUFFICES ASSUME \A p \in Avoiding(f, c) : c \notin Successors(f, p)
                 PROVE  FALSE
    OBVIOUS
  <1>2. Entry \in Avoiding(f, c) /\ c \notin Avoiding(f, c) /\ Closed(f, Avoiding(f, c), c)
    BY AvoidingFacts
  <1>3. \A p \in Avoiding(f, c) \cap Blocks(f) : Successors(f, p) \subseteq Avoiding(f, c)
    BY <1>1, <1>2 DEF Closed
  <1>4. Reachable(f) \subseteq Avoiding(f, c)
    BY <1>2, <1>3, AvoidingFacts
  <1> QED BY <1>2, <1>4

LEMMA PassingBoth ==
    ASSUME NEW f, Shape(f), NEW c, NEW d, c # Entry, c \notin Avoiding(f, d)
    PROVE  Avoiding(f, d) \subseteq Avoiding(f, c)
  <1> DEFINE S == Avoiding(f, d) \cap Avoiding(f, c)
  <1>1. d # Entry => Entry \in S
    BY AvoidingFacts
  <1>2. Closed(f, S, d)
    BY AvoidingFacts DEF Closed
  <1>3. Avoiding(f, d) \subseteq S
    BY <1>1, <1>2, AvoidingFacts
  <1> QED BY <1>3

LEMMA NotMutual ==
    ASSUME NEW f, Shape(f), NEW b \in Reachable(f), NEW c \in Reachable(f), b # c
    PROVE  c \in Avoiding(f, b) \/ b \in Avoiding(f, c)
  <1>1. SUFFICES ASSUME c \notin Avoiding(f, b), b \notin Avoiding(f, c)
                 PROVE  FALSE
    OBVIOUS
  <1>2. b # Entry /\ c # Entry
    BY <1>1, AvoidingFacts
  <1>3. Avoiding(f, c) \subseteq Avoiding(f, b)
    BY <1>1, <1>2, PassingBoth
  <1>4. PICK p \in Avoiding(f, c) : c \in Successors(f, p)
    BY <1>2, FirstArrival
  <1>5. p \in Avoiding(f, b) /\ p \in Blocks(f) /\ Closed(f, Avoiding(f, b), b)
    BY <1>3, <1>4, AvoidingFacts
  <1>6. c \in Avoiding(f, b)
    BY <1>4, <1>5 DEF Closed
  <1> QED BY <1>1, <1>6

(* Nops in place of some instructions.                                      *)
LEMMA ErasedView ==
    ASSUME NEW f, Shape(f), NEW gone
    PROVE  LET g == Erased(f, gone) IN
           /\ Edited(f, g)
           /\ \A b \in Blocks(f) :
                 /\ \A i \in DOMAIN Insts(f, b) :
                       Insts(g, b)[i] = IF Insts(f, b)[i] \in gone THEN Nop ELSE Insts(f, b)[i]
                 /\ Term(g, b) = Term(f, b)
  <1> DEFINE g == Erased(f, gone)
             left(inst) == IF inst \in gone THEN Nop ELSE inst
             I == [b \in Blocks(f) |-> [i \in DOMAIN Insts(f, b) |-> left(Insts(f, b)[i])]]
             T == [b \in Blocks(f) |-> Term(f, b)]
  <1>1. Nop \in InstShape /\ Nop.result = NoValue
    BY DEF Nop, NoValue, InstShape, Ops
  <1>2. BlocksReplaced(f, g, I, T)
    <2> DEFINE blocks == [b \in Blocks(f) |-> [insts |-> I[b], term |-> T[b]]]
    <2>1. g = [f EXCEPT !.blocks = blocks]
      BY DEF Erased, Blocks, Insts, Term
    <2>2. "blocks" \in DOMAIN f
      BY DEF Shape
    <2> HIDE DEF g, blocks, I, T
    <2>3. DOMAIN g = DOMAIN f /\ g.kind = f.kind /\ g.params = f.params /\ g.blocks = blocks
      BY <2>1, <2>2
    <2> QED BY <2>3 DEF BlocksReplaced, blocks
  <1>3. ASSUME NEW b \in Blocks(f)
        PROVE  BlockFits(f, b, I[b], T[b])
    <2>1. /\ DOMAIN Insts(f, b) = 1..Len(Insts(f, b)) /\ Len(Insts(f, b)) \in Nat
          /\ Term(f, b) \in [args : Seq(Nat), succ : Seq(Nat)]
          /\ Successors(f, b) \subseteq Blocks(f)
      BY BlockFacts
    <2>2. ASSUME NEW i \in DOMAIN Insts(f, b)
          PROVE  /\ left(Insts(f, b)[i]) \in InstShape
                 /\ left(Insts(f, b)[i]).result \in {Insts(f, b)[i].result, NoValue}
      BY <1>1, InstFacts
    <2>3. I[b] = [i \in DOMAIN Insts(f, b) |-> left(Insts(f, b)[i])] /\ T[b] = Term(f, b)
      OBVIOUS
    <2>4. I[b] \in Seq(InstShape)
      <3> DEFINE s == I[b]
                 n == Len(Insts(f, b))
      <3>1. s \in [1..n -> InstShape] /\ n \in Nat
        <4> HIDE DEF I, left
        <4> QED BY <2>1, <2>2, <2>3
      <3> HIDE DEF s, n
      <3>2. s \in Seq(InstShape)
        BY <3>1, SeqFacts
      <3> QED BY <3>2 DEF s
    <2> HIDE DEF I, T, left
    <2> QED BY <2>1, <2>2, <2>3, <2>4 DEF BlockFits, Successors
  <1>4. \A b \in Blocks(f) :
            /\ \A i \in DOMAIN Insts(f, b) : I[b][i] = left(Insts(f, b)[i])
            /\ T[b] = Term(f, b)
    OBVIOUS
  <1> HIDE DEF I, T, g
  <1>5. Edited(f, g) /\ \A b \in Blocks(f) : Insts(g, b) = I[b] /\ Term(g, b) = T[b]
    BY <1>2, <1>3, EditedShape
  <1> QED BY <1>4, <1>5 DEF g

-----------------------------------------------------------------------------
(* simplify_trivial_phis.  A phi that gets one value only stands behind     *)
(* that value's definition, so wherever the phi may be read, so may the     *)
(* value; in code that can be reached the table leads in no circle.         *)
Trivial(f, inst) == IsPhi(inst) /\ Cardinality(Uses(inst)) = 1

LEMMA TrivialFacts ==
    ASSUME NEW f, Sound(f)
    PROVE  /\ \A b \in Blocks(f) : \A i \in DOMAIN Insts(f, b) :
                 Insts(f, b)[i] \in TrivialPhis(f) <=> Trivial(f, Insts(f, b)[i])
           /\ \A b \in Blocks(f) : \A i \in DOMAIN Insts(f, b) :
                 Trivial(f, Insts(f, b)[i]) =>
                     /\ Insts(f, b)[i].result \in DOMAIN TrivialTable(f)
                     /\ Uses(Insts(f, b)[i]) = {TrivialTable(f)[Insts(f, b)[i].result]}
           /\ \A u \in DOMAIN TrivialTable(f) :
                 /\ TrivialTable(f)[u] \in Values(f) /\ u \in Values(f) /\ IsInst(f, u)
                 /\ \E b \in Blocks(f) : \E i \in DOMAIN Insts(f, b) :
                       Insts(f, b)[i].result = u /\ Trivial(f, Insts(f, b)[i])
           /\ IsFiniteSet(DOMAIN TrivialTable(f))
  <1> DEFINE P == TrivialPhis(f)
             D == {p.result : p \in P}
             the(r) == CHOOSE p \in P : p.result = r
  <1>0. Shape(f) /\ SingleAssignment(f) /\ Once(f)
    BY SoundFacts, OnceFacts
  <1>1. /\ DOMAIN TrivialTable(f) = D
        /\ \A r \in D : TrivialTable(f)[r] = the(r).args[1]
    BY DEF TrivialTable
  <1>2. \A p : p \in P <=> \E b \in Blocks(f) : \E i \in DOMAIN Insts(f, b) :
                              p = Insts(f, b)[i] /\ Trivial(f, p)
    BY DEF TrivialPhis, Trivial, Phis
  <1>3. ASSUME NEW b \in Blocks(f), NEW i \in DOMAIN Insts(f, b), Trivial(f, Insts(f, b)[i])
        PROVE  LET inst == Insts(f, b)[i] IN
               /\ inst.result # NoValue /\ inst.result \in Values(f) /\ IsInst(f, inst.result)
               /\ Uses(inst) = {inst.args[1]} /\ inst.args[1] \in Values(f)
    <2> DEFINE inst == Insts(f, b)[i]
    <2>1. inst.result \in Values(f) /\ Uses(inst) \subseteq Values(f)
      BY <1>3, FineFacts DEF InstFine, Trivial
    <2>2. inst.result # NoValue
      BY <1>0, <2>1, ShapeFacts
    <2>3. IsInst(f, inst.result)
      BY <1>0, <2>2 DEF Once
    <2>4. Uses(inst) = {inst.args[1]}
      <3>1. Cardinality(Uses(inst)) = 1 /\ inst.args \in Seq(Nat)
        BY <1>0, <1>3, InstFacts DEF Trivial
      <3> DEFINE args == inst.args
      <3>2. Cardinality(Elements(args)) = 1 /\ args \in Seq(Nat)
        BY <3>1 DEF Uses
      <3> HIDE DEF args, inst
      <3>3. IsFiniteSet(Elements(args))
        BY <3>2, CountedOnce
      <3>4. PICK x : Elements(args) = {x}
        BY <3>2, <3>3, FS_Singleton
      <3>5. DOMAIN args # {}
        BY <3>4 DEF Elements
      <3>6. DOMAIN args = 1..Len(args) /\ Len(args) \in Nat
        BY <3>2, SeqView
      <3>7. 1 \in DOMAIN args
        BY <3>5, <3>6
      <3>8. args[1] \in Elements(args)
        BY <3>7 DEF Elements
      <3>9. Elements(args) = {args[1]}
        BY <3>4, <3>8
      <3> QED BY <3>9 DEF args, Uses
    <2> QED BY <2>1, <2>2, <2>3, <2>4
  <1>4. ASSUME NEW b \in Blocks(f), NEW i \in DOMAIN Insts(f, b), Trivial(f, Insts(f, b)[i])
        PROVE  /\ Insts(f, b)[i] \in P /\ Insts(f, b)[i].result \in D
               /\ the(Insts(f, b)[i].result) = Insts(f, b)[i]
    <2> DEFINE inst == Insts(f, b)[i]
               p == the(inst.result)
    <2>1. inst \in P
      BY <1>2, <1>4
    <2>2. p \in P /\ p.result = inst.result
      BY <2>1
    <2> HIDE DEF p
    <2>3. PICK c \in Blocks(f) : \E k \in DOMAIN Insts(f, c) : p = Insts(f, c)[k]
      BY <1>2, <2>2
    <2>4. PICK k \in DOMAIN Insts(f, c) : p = Insts(f, c)[k]
      BY <2>3
    <2>5. b = c /\ i = k
      BY <1>0, <1>3, <1>4, <2>2, <2>4 DEF Once
    <2> QED BY <2>1, <2>4, <2>5 DEF p
  <1>5. ASSUME NEW b \in Blocks(f), NEW i \in DOMAIN Insts(f, b)
        PROVE  Insts(f, b)[i] \in P <=> Trivial(f, Insts(f, b)[i])
    <2>1. Insts(f, b)[i] \in P => Trivial(f, Insts(f, b)[i])
      BY <1>2
    <2> QED BY <1>4, <2>1
  <1>6. ASSUME NEW u \in D
        PROVE  \E b \in Blocks(f) : \E i \in DOMAIN Insts(f, b) :
                   Insts(f, b)[i].result = u /\ Trivial(f, Insts(f, b)[i])
    <2>1. PICK p \in P : p.result = u
      BY <1>6
    <2> QED BY <1>2, <2>1
  <1>7. ASSUME NEW u \in D
        PROVE  the(u).args[1] \in Values(f) /\ u \in Values(f) /\ IsInst(f, u)
    <2> HIDE DEF D, the
    <2>1. PICK b \in Blocks(f) : \E i \in DOMAIN Insts(f, b) :
                   Insts(f, b)[i].result = u /\ Trivial(f, Insts(f, b)[i])
      BY <1>6
    <2>2. PICK i \in DOMAIN Insts(f, b) :
                   Insts(f, b)[i].result = u /\ Trivial(f, Insts(f, b)[i])
      BY <2>1
    <2> QED BY <1>3, <1>4, <2>2
  <1>8. IsFiniteSet(D)
    <2>1. D \subseteq Values(f)
      BY <1>7
    <2>2. IsFiniteSet(Values(f))
      <3> DEFINE n == Len(f.kind)
      <3>1. n \in Nat /\ Values(f) = 1..n
        BY <1>0, ShapeFacts
      <3> HIDE DEF n
      <3>2. IsFiniteSet(1..n)
        BY <3>1, FS_Interval
      <3> QED BY <3>1, <3>2
    <2> HIDE DEF D
    <2> QED BY <2>1, <2>2, FS_Subset
  <1> HIDE DEF P, D, the
  <1>9. ASSUME NEW b \in Blocks(f), NEW i \in DOMAIN Insts(f, b), Trivial(f, Insts(f, b)[i])
        PROVE  /\ Insts(f, b)[i].result \in DOMAIN TrivialTable(f)
               /\ Uses(Insts(f, b)[i]) = {TrivialTable(f)[Insts(f, b)[i].result]}
    BY <1>1, <1>3, <1>4, <1>9
  <1>10. \A u \in D : TrivialTable(f)[u] \in Values(f) /\ u \in Values(f) /\ IsInst(f, u)
    BY <1>1, <1>7
  <1> QED BY <1>1, <1>5, <1>6, <1>8, <1>9, <1>10 DEF P

LEMMA TrivialStep ==
    ASSUME NEW f, Sound(f), NEW b \in Reachable(f), NEW j, NEW u \in DOMAIN TrivialTable(f),
           MayRead(f, u, b, j)
    PROVE  MayRead(f, TrivialTable(f)[u], b, j) /\ TrivialTable(f)[u] # u
  <1> DEFINE w == TrivialTable(f)[u]
  <1>0. /\ Shape(f) /\ SingleAssignment(f) /\ Once(f) /\ Constructed(f) /\ LivePhisFit(f) /\ LiveReads(f)
        /\ Reachable(f) \subseteq Blocks(f)
    BY SoundFacts, OnceFacts, AvoidingFacts
  <1>1. IsInst(f, u) /\ u \in Values(f)
    BY TrivialFacts
  <1>2. PICK c \in Blocks(f) : \E k \in DOMAIN Insts(f, c) : Insts(f, c)[k].result = u /\ Trivial(f, Insts(f, c)[k])
    BY TrivialFacts
  <1>3. PICK k \in DOMAIN Insts(f, c) : Insts(f, c)[k].result = u /\ Trivial(f, Insts(f, c)[k])
    BY <1>2
  <1>4. u # NoValue
    BY <1>0, <1>1, ShapeFacts
  <1>5. b \notin Avoiding(f, c) /\ (c = b => k < j)
    <2>1. PICK x \in Blocks(f) : \E y \in DOMAIN Insts(f, x) : Passes(f, u, b, j, x, y)
      BY <1>1 DEF MayRead
    <2>2. PICK y \in DOMAIN Insts(f, x) : Passes(f, u, b, j, x, y)
      BY <2>1
    <2>3. x = c /\ y = k
      BY <1>0, <1>3, <1>4, <2>2 DEF Once, Passes
    <2> QED BY <2>2, <2>3 DEF Passes
  <1>6. c \in Reachable(f)
    BY <1>0, <1>5, AvoidingFacts
  <1>7. PhiFits(f, c, k) /\ c # Entry
    BY <1>0, <1>3, <1>6 DEF LivePhisFit, Trivial, PhiFits
  <1>8. ASSUME NEW p \in Reachable(f), c \in Successors(f, p)
        PROVE  MayRead(f, w, p, End(f, p))
    <2> DEFINE phi == Insts(f, c)[k]
    <2>1. p \in Elements(phi.preds)
      BY <1>7, <1>8 DEF PhiFits
    <2>2. phi \in InstShape /\ Len(phi.args) = Len(phi.preds) /\ IsPhi(phi)
      BY <1>0, <1>3, InstFacts, PhiLengths DEF Trivial
    <2>3. Uses(phi) = {w}
      BY <1>3, TrivialFacts
    <2>4. PhiReads(f, c, k)
      BY <1>0, <1>6, <2>2, PhiReadsFacts DEF LiveReads
    <2> HIDE DEF w
    <2>5. Gets(phi, p, w)
      <3> HIDE DEF phi
      <3>1. Gets(phi, p, Incoming(phi, p))
        BY <2>1, <2>2, GetsFacts
      <3>2. Incoming(phi, p) \in Uses(phi)
        BY <2>2, <3>1, GetsFacts
      <3> QED BY <2>3, <3>1, <3>2
    <2> QED BY <2>4, <2>5 DEF PhiReads
  <1>9. PICK p \in Avoiding(f, c) : c \in Successors(f, p)
    BY <1>0, <1>6, <1>7, FirstArrival
  <1>10. p \in Reachable(f)
    BY <1>0, <1>9, AvoidingFacts
  <1> HIDE DEF w
  <1>11. CASE ~IsInst(f, w)
    BY <1>1, <1>11 DEF MayRead, w
  <1>12. CASE IsInst(f, w)
    <2>1. PICK d \in Blocks(f) : \E m \in DOMAIN Insts(f, d) : Passes(f, w, p, End(f, p), d, m)
      BY <1>8, <1>9, <1>10, <1>12 DEF MayRead
    <2>2. PICK m \in DOMAIN Insts(f, d) : Passes(f, w, p, End(f, p), d, m)
      BY <2>1
    <2>3. Insts(f, d)[m].result = w /\ p \notin Avoiding(f, d)
      BY <2>2 DEF Passes
    <2>4. w # NoValue
      <3>1. w \in Values(f)
        BY TrivialFacts DEF w
      <3> QED BY <1>0, <3>1, ShapeFacts
    <2>5. d # c
      BY <1>9, <2>3
    <2>6. w # u
      BY <1>0, <1>3, <1>4, <2>3, <2>5 DEF Once
    <2>7. ASSUME NEW q \in Reachable(f), c \in Successors(f, q)
          PROVE  q \notin Avoiding(f, d)
      <3>1. PICK x \in Blocks(f) : \E y \in DOMAIN Insts(f, x) : Passes(f, w, q, End(f, q), x, y)
        BY <1>8, <1>12, <2>7 DEF MayRead
      <3>2. PICK y \in DOMAIN Insts(f, x) : Passes(f, w, q, End(f, q), x, y)
        BY <3>1
      <3>3. x = d
        BY <1>0, <2>3, <2>4, <3>2 DEF Once, Passes
      <3> QED BY <3>2, <3>3 DEF Passes
    <2>8. c \notin Avoiding(f, d)
      <3> DEFINE S == Avoiding(f, d) \ {c}
      <3>1. d # Entry => Entry \in S
        BY <1>0, <1>7, AvoidingFacts
      <3>2. Closed(f, S, d)
        BY <1>0, <2>7, AvoidingFacts DEF Closed
      <3>3. Avoiding(f, d) \subseteq S
        BY <1>0, <3>1, <3>2, AvoidingFacts
      <3> QED BY <3>3
    <2>9. b \notin Avoiding(f, d)
      BY <1>0, <1>5, <1>7, <2>8, PassingBoth
    <2>10. d # b
      BY <1>0, <1>5, <1>6, <2>5, <2>8, NotMutual
    <2>11. Passes(f, w, b, j, d, m)
      BY <2>3, <2>9, <2>10 DEF Passes
    <2> QED BY <2>6, <2>11 DEF MayRead, w
  <1> QED BY <1>11, <1>12

LEMMA EditedTwice ==
    ASSUME NEW f, NEW g, NEW h, Edited(f, g), Edited(g, h)
    PROVE  Edited(f, h)
  <1>1. /\ Shape(h) /\ h.kind = f.kind /\ h.params = f.params /\ Blocks(h) = Blocks(f)
    BY DEF Edited
  <1>2. ASSUME NEW b \in Blocks(f)
        PROVE  /\ DOMAIN Insts(h, b) = DOMAIN Insts(f, b)
               /\ \A i \in DOMAIN Insts(f, b) : Insts(h, b)[i].result \in {Insts(f, b)[i].result, NoValue}
    BY DEF Edited
  <1> QED BY <1>1, <1>2 DEF Edited

(* An instruction or terminator whose operands are replaced.                *)
LEMMA ReplacedInst ==
    ASSUME NEW table, IsFiniteSet(DOMAIN table), \A u \in DOMAIN table : table[u] \in Nat,
           NEW inst \in InstShape
    PROVE  LET new == Replaced(table, inst) IN
           /\ new \in InstShape /\ new.op = inst.op /\ new.result = inst.result /\ new.preds = inst.preds
           /\ Len(new.args) = Len(inst.args) /\ DOMAIN new.args = DOMAIN inst.args
           /\ \A k \in DOMAIN inst.args : new.args[k] = Resolve(table, inst.args[k])
           /\ Uses(new) = {Resolve(table, v) : v \in Uses(inst)}
           /\ inst = Nop => new = Nop
  <1> DEFINE new == Replaced(table, inst)
  <1>1. inst.args \in Seq(Nat) /\ "args" \in DOMAIN inst
    BY DEF InstShape
  <1>2. /\ new = [inst EXCEPT !.args = new.args]
        /\ new.args \in Seq(Nat) /\ Len(new.args) = Len(inst.args) /\ DOMAIN new.args = DOMAIN inst.args
        /\ \A k \in DOMAIN inst.args : new.args[k] = Resolve(table, inst.args[k])
    BY <1>1, ReplacedFacts
  <1> HIDE DEF new
  <1>3. new \in InstShape /\ new.op = inst.op /\ new.result = inst.result /\ new.preds = inst.preds
    BY <1>2 DEF InstShape
  <1>4. Uses(new) = {Resolve(table, v) : v \in Uses(inst)}
    BY <1>2 DEF Uses, Elements
  <1>5. ASSUME inst = Nop PROVE new = Nop
    <2>1. inst.args = << >>
      BY <1>5 DEF Nop
    <2>2. new.args = << >>
      <3> DEFINE a == new.args
      <3>1. a \in Seq(Nat) /\ Len(a) = 0
        BY <1>2, <2>1
      <3> HIDE DEF a
      <3>2. a = << >>
        BY <3>1
      <3> QED BY <3>2 DEF a
    <2>3. new.op = "nop" /\ new.result = NoValue /\ new.preds = << >>
      BY <1>3, <1>5 DEF Nop
    <2>4. new = [op |-> new.op, result |-> new.result, args |-> new.args, preds |-> new.preds]
      BY <1>3 DEF InstShape
    <2> QED BY <2>2, <2>3, <2>4 DEF Nop
  <1> QED BY <1>2, <1>3, <1>4, <1>5 DEF new

LEMMA ReplacedTerm ==
    ASSUME NEW table, IsFiniteSet(DOMAIN table), \A u \in DOMAIN table : table[u] \in Nat,
           NEW term \in [args : Seq(Nat), succ : Seq(Nat)]
    PROVE  LET new == Replaced(table, term) IN
           /\ new.succ = term.succ /\ (term.args # << >> => new.args # << >>)
           /\ Elements(new.args) = {Resolve(table, v) : v \in Elements(term.args)}
  <1> DEFINE new == Replaced(table, term)
  <1>1. term.args \in Seq(Nat) /\ "args" \in DOMAIN term
    OBVIOUS
  <1>2. /\ new = [term EXCEPT !.args = new.args]
        /\ new.args \in Seq(Nat) /\ Len(new.args) = Len(term.args) /\ DOMAIN new.args = DOMAIN term.args
        /\ \A k \in DOMAIN term.args : new.args[k] = Resolve(table, term.args[k])
    BY <1>1, ReplacedFacts
  <1> HIDE DEF new
  <1>3. new.succ = term.succ
    BY <1>2
  <1>4. Elements(new.args) = {Resolve(table, v) : v \in Elements(term.args)}
    BY <1>2 DEF Elements
  <1>5. term.args # << >> => new.args # << >>
    BY <1>1, <1>2
  <1> QED BY <1>3, <1>4, <1>5 DEF new

LEMMA TrivialView ==
    ASSUME NEW f, Sound(f)
    PROVE  LET g == TrivialPhisSimplified(f) IN
           /\ Edited(f, g)
           /\ \A b \in Blocks(f) :
                 /\ \A i \in DOMAIN Insts(f, b) :
                       Insts(g, b)[i] = IF Trivial(f, Insts(f, b)[i]) THEN Nop
                                        ELSE Replaced(TrivialTable(f), Insts(f, b)[i])
                 /\ Term(g, b) = Replaced(TrivialTable(f), Term(f, b))
  <1> DEFINE table == TrivialTable(f)
             h == Erased(f, TrivialPhis(f))
             g == Rewritten(h, table)
  <1>0. Shape(f)
    BY SoundFacts
  <1>1. IsFiniteSet(DOMAIN table) /\ \A u \in DOMAIN table : table[u] \in Nat
    <2>1. Values(f) \subseteq Nat
      BY <1>0, ShapeFacts
    <2> QED BY <2>1, TrivialFacts
  <1>2. /\ Edited(f, h)
        /\ \A b \in Blocks(f) :
              /\ \A i \in DOMAIN Insts(f, b) :
                    Insts(h, b)[i] = IF Insts(f, b)[i] \in TrivialPhis(f) THEN Nop ELSE Insts(f, b)[i]
              /\ Term(h, b) = Term(f, b)
    BY <1>0, ErasedView
  <1> HIDE DEF h, table
  <1>3. Shape(h) /\ Blocks(h) = Blocks(f) /\ \A b \in Blocks(f) : DOMAIN Insts(h, b) = DOMAIN Insts(f, b)
    BY <1>2 DEF Edited
  <1>4. /\ Edited(h, g)
        /\ \A b \in Blocks(h) :
              /\ \A i \in DOMAIN Insts(h, b) : Insts(g, b)[i] = Replaced(table, Insts(h, b)[i])
              /\ Term(g, b) = Replaced(table, Term(h, b))
    BY <1>1, <1>3, RewrittenView
  <1>5. TrivialPhisSimplified(f) = g
    BY DEF TrivialPhisSimplified, h, table
  <1> HIDE DEF g
  <1>6. Edited(f, g)
    BY <1>2, <1>4, EditedTwice
  <1>7. Replaced(table, Nop) = Nop
    <2>1. Nop \in InstShape
      BY DEF Nop, NoValue, InstShape, Ops
    <2> QED BY <1>1, <2>1, ReplacedInst
  <1>8. ASSUME NEW b \in Blocks(f), NEW i \in DOMAIN Insts(f, b)
        PROVE  Insts(g, b)[i] = IF Trivial(f, Insts(f, b)[i]) THEN Nop ELSE Replaced(table, Insts(f, b)[i])
    <2>1. Insts(f, b)[i] \in TrivialPhis(f) <=> Trivial(f, Insts(f, b)[i])
      BY TrivialFacts
    <2>2. Insts(g, b)[i] = Replaced(table, Insts(h, b)[i])
      BY <1>3, <1>4
    <2> QED BY <1>2, <1>7, <2>1, <2>2
  <1>9. \A b \in Blocks(f) : Term(g, b) = Replaced(table, Term(f, b))
    BY <1>2, <1>3, <1>4
  <1> QED BY <1>5, <1>6, <1>8, <1>9 DEF table

LEMMA TrivialSound ==
    ASSUME NEW f, Sound(f), Resolves(TrivialTable(f))
    PROVE  Sound(TrivialPhisSimplified(f))
  <1> DEFINE g == TrivialPhisSimplified(f)
             table == TrivialTable(f)
  <1>0. /\ Shape(f) /\ Constructed(f) /\ ValuesChecked(f) /\ SingleAssignment(f)
        /\ Predecessors(f, Entry) = {} /\ LivePhisFit(f) /\ LiveReads(f)
        /\ Reachable(f) \subseteq Blocks(f) /\ Values(f) \subseteq Nat
    BY SoundFacts, AvoidingFacts, ShapeFacts
  <1>1. /\ Edited(f, g)
        /\ \A b \in Blocks(f) :
              /\ \A i \in DOMAIN Insts(f, b) :
                    Insts(g, b)[i] = IF Trivial(f, Insts(f, b)[i]) THEN Nop ELSE Replaced(table, Insts(f, b)[i])
              /\ Term(g, b) = Replaced(table, Term(f, b))
    BY TrivialView
  <1>2. /\ IsFiniteSet(DOMAIN table) /\ \A u \in DOMAIN table : table[u] \in Nat /\ table[u] \in Values(f)
    BY <1>0, TrivialFacts
  <1> HIDE DEF g
  <1>3. ASSUME NEW v \in Values(f) PROVE Resolve(table, v) \in Values(f)
    BY <1>2, ResolveStays
  <1>4. ASSUME NEW b \in Reachable(f), NEW j, NEW v, MayRead(f, v, b, j)
        PROVE  MayRead(f, Resolve(table, v), b, j) /\ Resolve(table, v) \notin DOMAIN table
    <2> DEFINE I == {u \in DOMAIN table \cup Values(f) \cup {v} : MayRead(f, u, b, j)}
               w == Resolve(table, v)
    <2>1. \A u \in I : u \in DOMAIN table => table[u] \in I
      BY <1>2, TrivialStep
    <2>2. v \in I
      BY <1>4
    <2>3. w \in I
      <3> HIDE DEF I, w, table
      <3> QED BY <1>2, <2>1, <2>2, ResolveStays DEF w
    <2>4. w \notin DOMAIN table
      <3>1. CASE v \in DOMAIN table
        <4>1. w \in DOMAIN table => table[w] = w
          BY <3>1 DEF Resolves
        <4>2. w \in DOMAIN table => table[w] # w
          <5> HIDE DEF w
          <5> QED BY <2>3, TrivialStep
        <4> QED BY <4>1, <4>2
      <3>2. CASE v \notin DOMAIN table
        <4>1. w = v
          BY <3>2 DEF Resolve
        <4> QED BY <3>2, <4>1
      <3> QED BY <3>1, <3>2
    <2> QED BY <2>3, <2>4
  <1>5. ASSUME NEW b \in Blocks(f), NEW i \in DOMAIN Insts(f, b)
        PROVE  LET old == Insts(f, b)[i] new == Insts(g, b)[i] IN
               \/ /\ Trivial(f, old) /\ new = Nop
               \/ /\ ~Trivial(f, old)
                  /\ new \in InstShape /\ new.op = old.op /\ new.result = old.result /\ new.preds = old.preds
                  /\ Len(new.args) = Len(old.args) /\ DOMAIN new.args = DOMAIN old.args
                  /\ \A k \in DOMAIN old.args : new.args[k] = Resolve(table, old.args[k])
                  /\ Uses(new) = {Resolve(table, v) : v \in Uses(old)}
                  /\ old = Nop => new = Nop
    <2> DEFINE old == Insts(f, b)[i]
    <2>1. old \in InstShape
      BY <1>0, InstFacts
    <2>2. Insts(g, b)[i] = IF Trivial(f, old) THEN Nop ELSE Replaced(table, old)
      BY <1>1
    <2> HIDE DEF table, old
    <2> QED BY <1>2, <2>1, <2>2, ReplacedInst DEF old
  <1>6. ASSUME NEW b \in Blocks(f)
        PROVE  /\ Successors(g, b) = Successors(f, b) /\ Term(g, b).succ = Term(f, b).succ
               /\ Term(f, b).args # << >> => Term(g, b).args # << >>
               /\ Elements(Term(g, b).args) = {Resolve(table, v) : v \in Elements(Term(f, b).args)}
    <2> DEFINE old == Term(f, b)
    <2>1. old \in [args : Seq(Nat), succ : Seq(Nat)]
      BY <1>0, BlockFacts
    <2>2. Term(g, b) = Replaced(table, old)
      BY <1>1
    <2> HIDE DEF table, old
    <2>3. /\ Term(g, b).succ = old.succ /\ (old.args # << >> => Term(g, b).args # << >>)
          /\ Elements(Term(g, b).args) = {Resolve(table, v) : v \in Elements(old.args)}
      BY <1>2, <2>1, <2>2, ReplacedTerm
    <2> QED BY <2>3 DEF old, Successors
  <1> HIDE DEF table
  <1>7. ASSUME NEW b \in Blocks(f)
        PROVE  TermFine(f, Term(g, b)) /\ \A i \in DOMAIN Insts(f, b) : InstFine(f, Insts(g, b)[i])
    <2>1. TermFine(f, Term(g, b))
      BY <1>3, <1>6, FineFacts DEF TermFine
    <2>2. ASSUME NEW i \in DOMAIN Insts(f, b) PROVE InstFine(f, Insts(g, b)[i])
      <3> DEFINE old == Insts(f, b)[i]
                 new == Insts(g, b)[i]
      <3>1. InstFine(f, old) /\ InstFine(f, Nop)
        BY FineFacts
      <3>2. CASE Trivial(f, old)
        <4>1. new = Nop
          BY <1>5, <3>2
        <4> QED BY <3>1, <4>1
      <3>3. CASE ~Trivial(f, old)
        <4>1. /\ new.op = old.op /\ new.result = old.result /\ new.preds = old.preds
              /\ Len(new.args) = Len(old.args) /\ Uses(new) = {Resolve(table, v) : v \in Uses(old)}
              /\ old = Nop => new = Nop
          BY <1>5, <3>3
        <4> HIDE DEF old, new
        <4>2. Uses(new) \subseteq Values(f)
          BY <1>3, <3>1, <4>1 DEF InstFine
        <4>3. InstConstructed(f, new)
          BY <3>1, <4>1 DEF InstFine, InstConstructed, IsPhi
        <4> QED BY <3>1, <4>1, <4>2, <4>3 DEF InstFine, IsPhi, new
      <3> QED BY <3>2, <3>3
    <2> QED BY <2>1, <2>2
  <1>8. /\ Constructed(g) /\ ValuesChecked(g) /\ SingleAssignment(g) /\ ParamsListed(g) /\ Shape(g)
        /\ Blocks(g) = Blocks(f) /\ \A v : IsInst(g, v) <=> IsInst(f, v)
        /\ \A b \in Blocks(f) : End(g, b) = End(f, b) /\ DOMAIN Insts(g, b) = DOMAIN Insts(f, b)
    BY <1>1, <1>7, EditedFine
  <1>9. /\ Reachable(g) = Reachable(f) /\ \A a : Avoiding(g, a) = Avoiding(f, a)
        /\ Predecessors(g, Entry) = {}
    BY <1>0, <1>6, <1>8, SameWays
  <1>10. ASSUME NEW b \in Reachable(f), NEW j, NEW v, MayRead(f, v, b, j)
         PROVE  MayRead(g, Resolve(table, v), b, j)
    <2> DEFINE w == Resolve(table, v)
    <2>1. MayRead(f, w, b, j) /\ w \notin DOMAIN table
      BY <1>4, <1>10
    <2> HIDE DEF w
    <2>2. ASSUME NEW c, NEW k, Passes(f, w, b, j, c, k)
          PROVE  Insts(g, c)[k].result = w /\ b \notin Avoiding(g, c)
      <3>1. c \in Blocks(f) /\ k \in DOMAIN Insts(f, c) /\ Insts(f, c)[k].result = w /\ b \notin Avoiding(f, c)
        BY <2>2 DEF Passes
      <3>2. ~Trivial(f, Insts(f, c)[k])
        BY <2>1, <3>1, TrivialFacts DEF table
      <3> QED BY <1>5, <1>9, <3>1, <3>2
    <2>3. MayRead(g, w, b, j)
      BY <1>1, <2>1, <2>2, ReadKept
    <2> QED BY <2>3 DEF w
  <1>11. LivePhisFit(g)
    <2> SUFFICES ASSUME NEW b \in Reachable(g), NEW i \in DOMAIN Insts(g, b), IsPhi(Insts(g, b)[i])
                 PROVE  PhiFits(g, b, i)
      BY DEF LivePhisFit
    <2> DEFINE old == Insts(f, b)[i]
               new == Insts(g, b)[i]
    <2>1. b \in Reachable(f) /\ b \in Blocks(f) /\ i \in DOMAIN Insts(f, b)
      BY <1>0, <1>8, <1>9
    <2>2. IsPhi(old) /\ new.preds = old.preds
      BY <1>5, <2>1 DEF IsPhi, Nop
    <2>3. PhiFits(f, b, i)
      BY <1>0, <2>1, <2>2 DEF LivePhisFit
    <2>4. \A j \in 1..i : Insts(g, b)[j].op \in {"phi", "nop"}
      <3>1. \A j \in 1..i : j \in DOMAIN Insts(f, b)
        BY <1>0, <2>1, BlockFacts
      <3>2. \A j \in 1..i : Insts(f, b)[j].op \in {"phi", "nop"}
        BY <2>3 DEF PhiFits
      <3> QED BY <1>5, <2>1, <3>1, <3>2 DEF Nop
    <2>5. \A p \in Reachable(g) : p \in Elements(new.preds) <=> b \in Successors(g, p)
      BY <1>0, <1>6, <1>9, <2>2, <2>3 DEF PhiFits
    <2>6. \A j, k \in DOMAIN new.preds : new.preds[j] = new.preds[k] /\ new.preds[j] \in Reachable(g) => j = k
      BY <1>9, <2>2, <2>3 DEF PhiFits
    <2>7. b # Entry
      BY <2>3 DEF PhiFits
    <2> QED BY <2>4, <2>5, <2>6, <2>7 DEF PhiFits
  <1>12. LiveReads(g)
    <2> SUFFICES ASSUME NEW b \in Reachable(g)
                 PROVE  /\ \A i \in DOMAIN Insts(g, b) : InstReads(g, b, i)
                        /\ \A v \in Elements(Term(g, b).args) : MayRead(g, v, b, End(g, b))
      BY DEF LiveReads
    <2>1. b \in Reachable(f) /\ b \in Blocks(f)
      BY <1>0, <1>9
    <2>2. \A v \in Elements(Term(g, b).args) : MayRead(g, v, b, End(g, b))
      <3>1. \A v \in Elements(Term(f, b).args) : MayRead(f, v, b, End(f, b))
        BY <1>0, <2>1 DEF LiveReads
      <3> QED BY <1>6, <1>8, <1>10, <2>1, <3>1
    <2>3. ASSUME NEW i \in DOMAIN Insts(g, b) PROVE InstReads(g, b, i)
      <3> DEFINE old == Insts(f, b)[i]
                 new == Insts(g, b)[i]
      <3>1. i \in DOMAIN Insts(f, b) /\ InstReads(f, b, i)
        BY <1>0, <1>8, <2>1 DEF LiveReads
      <3>2. CASE new = Nop
        <4>1. Uses(Nop) = {} /\ ~IsPhi(Nop)
          BY DEF Uses, Elements, Nop, IsPhi
        <4> QED BY <3>2, <4>1 DEF InstReads
      <3>3. CASE new # Nop
        <4>1. /\ new.op = old.op /\ new.preds = old.preds /\ DOMAIN new.args = DOMAIN old.args
              /\ \A k \in DOMAIN old.args : new.args[k] = Resolve(table, old.args[k])
              /\ Uses(new) = {Resolve(table, v) : v \in Uses(old)}
          BY <1>5, <2>1, <3>1, <3>3
        <4>2. CASE IsPhi(new)
          <5>1. IsPhi(old)
            BY <4>1, <4>2 DEF IsPhi
          <5>2. \A k \in DOMAIN old.args :
                    old.preds[k] \in Reachable(f) => MayRead(f, old.args[k], old.preds[k], End(f, old.preds[k]))
            BY <3>1, <5>1 DEF InstReads
          <5>3. ASSUME NEW k \in DOMAIN new.args, new.preds[k] \in Reachable(g)
                PROVE  MayRead(g, new.args[k], new.preds[k], End(g, new.preds[k]))
            BY <1>0, <1>8, <1>9, <1>10, <4>1, <5>2, <5>3
          <5> QED BY <4>2, <5>3 DEF InstReads
        <4>3. CASE ~IsPhi(new)
          <5>1. ~IsPhi(old)
            BY <4>1, <4>3 DEF IsPhi
          <5>2. \A v \in Uses(old) : MayRead(f, v, b, i)
            BY <3>1, <5>1 DEF InstReads
          <5>3. \A v \in Uses(new) : MayRead(g, v, b, i)
            BY <1>10, <2>1, <4>1, <5>2
          <5> QED BY <4>3, <5>3 DEF InstReads
        <4> QED BY <4>2, <4>3
      <3> QED BY <3>2, <3>3
    <2> QED BY <2>2, <2>3
  <1> QED BY <1>8, <1>9, <1>11, <1>12 DEF Sound, g

-----------------------------------------------------------------------------
(* forward_empty_jump_block.                                                *)
Joins(c, s, t) ==
    /\ Len(c) = Len(s) + Len(t) /\ Len(s) \in Nat /\ Len(t) \in Nat
    /\ \A k \in DOMAIN s : k \in DOMAIN c /\ c[k] = s[k]
    /\ \A k \in DOMAIN t : Len(s) + k \in DOMAIN c /\ c[Len(s) + k] = t[k]
    /\ \A k \in DOMAIN c : k \in DOMAIN s \/ \E j \in DOMAIN t : k = Len(s) + j

LEMMA ConcatFacts ==
    ASSUME NEW S, NEW s \in Seq(S), NEW t \in Seq(S)
    PROVE  s \o t \in Seq(S) /\ Joins(s \o t, s, t)
  <1>1. /\ DOMAIN s = 1..Len(s) /\ Len(s) \in Nat /\ DOMAIN t = 1..Len(t) /\ Len(t) \in Nat
    OBVIOUS
  <1>2. /\ s \o t \in Seq(S) /\ Len(s \o t) = Len(s) + Len(t)
        /\ DOMAIN (s \o t) = 1..(Len(s) + Len(t))
    OBVIOUS
  <1>3. ASSUME NEW k \in DOMAIN s PROVE k \in DOMAIN (s \o t) /\ (s \o t)[k] = s[k]
    BY <1>1
  <1>4. ASSUME NEW k \in DOMAIN t PROVE Len(s) + k \in DOMAIN (s \o t) /\ (s \o t)[Len(s) + k] = t[k]
    BY <1>1
  <1>5. ASSUME NEW k \in DOMAIN (s \o t) PROVE k \in DOMAIN s \/ \E j \in DOMAIN t : k = Len(s) + j
    <2> DEFINE n == Len(s)
               m == Len(t)
    <2>1. n \in Nat /\ m \in Nat /\ DOMAIN s = 1..n /\ DOMAIN t = 1..m /\ k \in 1..(n + m)
      BY <1>1, <1>2
    <2> HIDE DEF n, m
    <2>2. k \in 1..n \/ (k - n \in 1..m /\ k = n + (k - n))
      BY <2>1
    <2> QED BY <2>1, <2>2 DEF n
  <1> QED BY <1>1, <1>2, <1>3, <1>4, <1>5 DEF Joins

(* A phi that gets from others what it got from one block.                  *)
LEMMA FromOthersFacts ==
    ASSUME NEW phi \in InstShape, Len(phi.args) = Len(phi.preds), NEW b \in Elements(phi.preds),
           NEW N \in Nat, NEW P \in SUBSET (1..N)
    PROVE  LET new == FromOthers(phi, b, Ascending(P)) IN
           /\ new \in InstShape /\ new.op = phi.op /\ new.result = phi.result
           /\ Len(new.args) = Len(new.preds)
           /\ \A p, v : Gets(new, p, v) <=> (Gets(phi, p, v) /\ p # b) \/ (p \in P /\ v = Incoming(phi, b))
           /\ \A p : p \in Elements(new.preds) <=> (p \in Elements(phi.preds) /\ p # b) \/ p \in P
           /\ Uses(new) \subseteq Uses(phi)
           /\ \A S : ListedOnce(phi, S) /\ P \cap Elements(phi.preds) = {} => ListedOnce(new, S)
  <1> DEFINE rest == Forget(phi, {b})
             preds == Ascending(P)
             value == Incoming(phi, b)
             args == [k \in DOMAIN preds |-> value]
             new == FromOthers(phi, b, preds)
  <1>1. /\ rest \in InstShape /\ rest.op = phi.op /\ rest.result = phi.result
        /\ Len(rest.args) = Len(rest.preds)
        /\ \A p, v : Gets(rest, p, v) <=> Gets(phi, p, v) /\ p # b
        /\ \A p : p \in Elements(rest.preds) <=> p \in Elements(phi.preds) /\ p # b
        /\ \A S : ListedOnce(phi, S) => ListedOnce(rest, S)
    <2> DEFINE gone == {b}
    <2>1. \A p : p \in gone <=> p = b
      OBVIOUS
    <2>2. /\ Forget(phi, gone) \in InstShape
          /\ Forget(phi, gone).op = phi.op /\ Forget(phi, gone).result = phi.result
          /\ Len(Forget(phi, gone).args) = Len(Forget(phi, gone).preds)
          /\ \A p, v : Gets(Forget(phi, gone), p, v) <=> Gets(phi, p, v) /\ p \notin gone
          /\ \A p : p \in Elements(Forget(phi, gone).preds) <=> p \in Elements(phi.preds) /\ p \notin gone
          /\ \A S : ListedOnce(phi, S) => ListedOnce(Forget(phi, gone), S)
      <3> HIDE DEF gone
      <3> QED BY ForgetFacts
    <2>3. rest = Forget(phi, gone)
      OBVIOUS
    <2> HIDE DEF gone, rest
    <2> QED BY <2>1, <2>2, <2>3
  <1>2. /\ preds \in Seq(P) /\ \A j, k \in DOMAIN preds : preds[j] = preds[k] => j = k
        /\ \A p \in P : \E k \in DOMAIN preds : preds[k] = p
    BY AscendingFacts
  <1>3. value \in Nat /\ Gets(phi, b, value)
    <2>1. Gets(phi, b, value)
      BY GetsFacts
    <2>2. phi.args \in Seq(Nat) /\ DOMAIN phi.args = DOMAIN phi.preds
      BY GetsFacts DEF InstShape
    <2> QED BY <2>1, <2>2 DEF Gets
  <1> HIDE DEF rest, preds, value
  <1>4. /\ preds \in Seq(Nat) /\ DOMAIN preds = 1..Len(preds) /\ Len(preds) \in Nat
        /\ \A k \in DOMAIN preds : preds[k] \in P
    <2> DEFINE n == Len(preds)
    <2>1. DOMAIN preds = 1..n /\ n \in Nat /\ \A k \in DOMAIN preds : preds[k] \in P
      BY <1>2, SeqView
    <2>2. preds \in [1..n -> Nat]
      <3>1. preds \in [1..n -> P] /\ P \subseteq Nat
        BY <1>2
      <3> HIDE DEF n
      <3> QED BY <3>1
    <2> HIDE DEF n
    <2>3. preds \in Seq(Nat)
      BY <2>1, <2>2, SeqFacts
    <2> QED BY <2>1, <2>3 DEF n
  <1>5. args \in Seq(Nat) /\ Len(args) = Len(preds) /\ \A k \in DOMAIN preds : args[k] = value
    <2> DEFINE n == Len(preds)
    <2>1. args \in [1..n -> Nat] /\ n \in Nat /\ \A k \in DOMAIN preds : args[k] = value
      BY <1>3, <1>4
    <2> HIDE DEF args, n
    <2>2. args \in Seq(Nat) /\ Len(args) = n
      BY <2>1, SeqFacts
    <2> QED BY <2>1, <2>2 DEF n
  <1>6. new = [rest EXCEPT !.preds = @ \o preds, !.args = @ \o args]
    BY DEF FromOthers, rest, preds, value
  <1> HIDE DEF args, new
  <1> DEFINE rp == rest.preds
             ra == rest.args
  <1>7. rp \in Seq(Nat) /\ ra \in Seq(Nat) /\ Len(ra) = Len(rp)
    BY <1>1 DEF InstShape
  <1>8. /\ DOMAIN ra = DOMAIN rp /\ DOMAIN args = DOMAIN preds
    <2> HIDE DEF ra, rp
    <2> QED BY <1>4, <1>5, <1>7
  <1>9. /\ new.op = phi.op /\ new.result = phi.result /\ new.preds = rp \o preds /\ new.args = ra \o args
    BY <1>1, <1>6 DEF InstShape
  <1>j. /\ rp \o preds \in Seq(Nat) /\ Joins(rp \o preds, rp, preds)
        /\ ra \o args \in Seq(Nat) /\ Joins(ra \o args, ra, args)
    <2> HIDE DEF rp, ra
    <2>1. rp \o preds \in Seq(Nat) /\ Joins(rp \o preds, rp, preds)
      BY ONLY <1>4, <1>7, ConcatFacts
    <2>2. ra \o args \in Seq(Nat) /\ Joins(ra \o args, ra, args)
      BY ONLY <1>5, <1>7, ConcatFacts
    <2> QED BY <2>1, <2>2
  <1>10. rp \o preds \in Seq(Nat) /\ ra \o args \in Seq(Nat) /\ Len(ra \o args) = Len(rp \o preds)
    <2> DEFINE np == rp \o preds
               na == ra \o args
    <2>1. np \in Seq(Nat) /\ na \in Seq(Nat) /\ Joins(np, rp, preds) /\ Joins(na, ra, args)
      BY <1>j
    <2> HIDE DEF np, na, rp, ra
    <2>2. Len(na) = Len(np)
      BY <1>5, <1>7, <2>1 DEF Joins
    <2> QED BY <2>1, <2>2 DEF np, na
  <1>11. new \in InstShape
    <2> DEFINE a == ra \o args
               p == rp \o preds
    <2>1. a \in Seq(Nat) /\ p \in Seq(Nat)
      BY <1>10
    <2>2. new = [rest EXCEPT !.preds = p, !.args = a]
      BY <1>6
    <2> HIDE DEF a, p
    <2> QED BY <1>1, <2>1, <2>2 DEF InstShape
  <1>12. ASSUME NEW p, NEW v
         PROVE  Gets(new, p, v) <=> Gets(rest, p, v) \/ (p \in P /\ v = value)
    <2> DEFINE np == rp \o preds
               na == ra \o args
               n == Len(rp)
    <2>1. /\ \A k \in DOMAIN rp : k \in DOMAIN np /\ np[k] = rp[k] /\ na[k] = ra[k]
          /\ \A k \in DOMAIN preds : n + k \in DOMAIN np /\ np[n + k] = preds[k] /\ na[n + k] = value
          /\ \A k \in DOMAIN np : k \in DOMAIN rp \/ \E j \in DOMAIN preds : k = n + j
      <3>1. Joins(np, rp, preds) /\ Joins(na, ra, args)
        BY <1>j
      <3> HIDE DEF np, na, ra, rp
      <3> QED BY <1>5, <1>7, <1>8, <3>1 DEF Joins
    <2>2. Gets(new, p, v) <=> \E k \in DOMAIN np : np[k] = p /\ na[k] = v
      BY <1>9 DEF Gets
    <2>3. Gets(rest, p, v) <=> \E k \in DOMAIN rp : rp[k] = p /\ ra[k] = v
      BY DEF Gets
    <2>4. p \in P <=> \E k \in DOMAIN preds : preds[k] = p
      <3>1. \A x \in P : \E k \in DOMAIN preds : preds[k] = x
        BY <1>2
      <3>2. \A k \in DOMAIN preds : preds[k] \in P
        BY <1>4
      <3> QED BY ONLY <3>1, <3>2
    <2> HIDE DEF np, na, n, rp, ra
    <2> QED BY <2>1, <2>2, <2>3, <2>4
  <1>13. \A p, v : Gets(new, p, v) <=> (Gets(phi, p, v) /\ p # b) \/ (p \in P /\ v = value)
    BY <1>1, <1>12
  <1>14. Len(new.args) = Len(new.preds)
    BY <1>9, <1>10
  <1>15. \A p : p \in Elements(new.preds) <=> (p \in Elements(phi.preds) /\ p # b) \/ p \in P
    <2>1. \A p : p \in Elements(new.preds) <=> \E v : Gets(new, p, v)
      BY <1>11, <1>14, GetsFacts
    <2>2. \A p : p \in Elements(phi.preds) <=> \E v : Gets(phi, p, v)
      BY GetsFacts
    <2> QED BY <1>13, <2>1, <2>2
  <1>16. Uses(new) \subseteq Uses(phi)
    <2>1. \A v : v \in Uses(new) => \E p : Gets(new, p, v)
      BY <1>11, <1>14, GetsFacts
    <2>2. \A v : (\E p : Gets(phi, p, v)) => v \in Uses(phi)
      BY GetsFacts
    <2> QED BY <1>3, <1>13, <2>1, <2>2
  <1>17. ASSUME NEW S, ListedOnce(phi, S), P \cap Elements(phi.preds) = {}
         PROVE  ListedOnce(new, S)
    <2> DEFINE np == rp \o preds
               n == Len(rp)
    <2>1. /\ \A k \in DOMAIN rp : k \in DOMAIN np /\ np[k] = rp[k]
          /\ \A k \in DOMAIN preds : n + k \in DOMAIN np /\ np[n + k] = preds[k]
          /\ \A k \in DOMAIN np : k \in DOMAIN rp \/ \E j \in DOMAIN preds : k = n + j
      <3>1. Joins(np, rp, preds)
        BY <1>j
      <3> HIDE DEF np, rp
      <3> QED BY <3>1 DEF Joins
    <2>2. \A j, k \in DOMAIN rp : rp[j] = rp[k] /\ rp[j] \in S => j = k
      BY <1>1, <1>17 DEF ListedOnce
    <2>3. \A j \in DOMAIN rp : \A k \in DOMAIN preds : rp[j] # preds[k]
      <3>1. \A k \in DOMAIN preds : preds[k] \in P
        BY <1>4
      <3>2. \A j \in DOMAIN rp : rp[j] \in Elements(phi.preds)
        BY <1>1 DEF Elements
      <3> QED BY <1>17, <3>1, <3>2
    <2>4. ListedOnce(new, S) <=> \A j, k \in DOMAIN np : np[j] = np[k] /\ np[j] \in S => j = k
      BY <1>9 DEF ListedOnce
    <2> HIDE DEF np, n, rp
    <2> QED BY <1>2, <2>1, <2>2, <2>3, <2>4
  <1> QED BY <1>9, <1>11, <1>13, <1>14, <1>15, <1>16, <1>17 DEF new, preds, value

LEMMA RedirectFacts ==
    ASSUME NEW term \in [args : Seq(Nat), succ : Seq(Nat)], NEW old, NEW new \in Nat
    PROVE  LET r == Redirected(term, old, new) IN
           /\ r \in [args : Seq(Nat), succ : Seq(Nat)] /\ r.args = term.args /\ Len(r.succ) = Len(term.succ)
           /\ \A x : x \in Elements(r.succ) <=>
                     \/ x \in Elements(term.succ) /\ x # old
                     \/ x = new /\ old \in Elements(term.succ)
  <1> DEFINE succ == term.succ
             s == [k \in DOMAIN succ |-> IF succ[k] = old THEN new ELSE succ[k]]
             r == Redirected(term, old, new)
  <1>1. succ \in Seq(Nat)
    OBVIOUS
  <1>2. r = [term EXCEPT !.succ = s]
    BY DEF Redirected
  <1>3. /\ s \in Seq(Nat) /\ Len(s) = Len(succ) /\ DOMAIN s = DOMAIN succ
        /\ \A k \in DOMAIN succ : s[k] = IF succ[k] = old THEN new ELSE succ[k]
    <2> DEFINE n == Len(succ)
    <2> HIDE DEF succ
    <2>1. DOMAIN succ = 1..n /\ n \in Nat /\ \A k \in DOMAIN succ : succ[k] \in Nat
      BY <1>1, SeqView
    <2>2. s \in [1..n -> Nat] /\ \A k \in DOMAIN succ : s[k] = IF succ[k] = old THEN new ELSE succ[k]
      BY <2>1
    <2> HIDE DEF s, n
    <2>3. s \in Seq(Nat) /\ Len(s) = n
      BY <2>1, <2>2, SeqFacts
    <2> QED BY <2>1, <2>2, <2>3 DEF n
  <1> HIDE DEF s, r
  <1>4. r \in [args : Seq(Nat), succ : Seq(Nat)] /\ r.args = term.args /\ r.succ = s
    BY <1>2, <1>3
  <1>5. ASSUME NEW x
        PROVE  x \in Elements(s) <=>
                     \/ x \in Elements(succ) /\ x # old
                     \/ x = new /\ old \in Elements(succ)
    <2> HIDE DEF succ
    <2> QED BY <1>3 DEF Elements
  <1> QED BY <1>3, <1>4, <1>5 DEF r

LEMMA FromOthersShape ==
    ASSUME NEW phi \in InstShape, Len(phi.args) = Len(phi.preds), NEW b \in Elements(phi.preds),
           NEW N \in Nat, NEW P \in SUBSET (1..N)
    PROVE  FromOthers(phi, b, Ascending(P)) \in InstShape /\ FromOthers(phi, b, Ascending(P)).result = phi.result
  <1> DEFINE new == FromOthers(phi, b, Ascending(P))
  <1>1. /\ new \in InstShape /\ new.op = phi.op /\ new.result = phi.result
        /\ Len(new.args) = Len(new.preds)
        /\ \A p, v : Gets(new, p, v) <=> (Gets(phi, p, v) /\ p # b) \/ (p \in P /\ v = Incoming(phi, b))
        /\ \A p : p \in Elements(new.preds) <=> (p \in Elements(phi.preds) /\ p # b) \/ p \in P
        /\ Uses(new) \subseteq Uses(phi)
        /\ \A S : ListedOnce(phi, S) /\ P \cap Elements(phi.preds) = {} => ListedOnce(new, S)
    BY FromOthersFacts
  <1> QED BY <1>1

LEMMA ForwardedView ==
    ASSUME NEW f, Sound(f), NEW b \in Blocks(f), Forwardable(f, b)
    PROVE  LET g == Forwarded(f, b)
               target == Term(f, b).succ[1]
           IN
           /\ target \in Blocks(f) /\ target # b /\ Successors(f, b) = {target} /\ b # Entry
           /\ Edited(f, g)
           /\ \A a \in Blocks(f) :
                 /\ \A i \in DOMAIN Insts(f, a) :
                       IF a = target /\ i \in LeadingPhis(f, target)
                       THEN /\ IsPhi(Insts(f, a)[i]) /\ b \in Elements(Insts(f, a)[i].preds)
                            /\ Predecessors(f, b) \cap Elements(Insts(f, a)[i].preds) = {}
                            /\ Insts(g, a)[i] = FromOthers(Insts(f, a)[i], b, Ascending(Predecessors(f, b)))
                       ELSE Insts(g, a)[i] = Insts(f, a)[i]
                 /\ Term(g, a) = IF a \in Predecessors(f, b) THEN Redirected(Term(f, a), b, target)
                                                             ELSE Term(f, a)
  <1> DEFINE g == Forwarded(f, b)
             target == Term(f, b).succ[1]
             preds == Ascending(Predecessors(f, b))
             new(a, i) == IF a = target /\ i \in LeadingPhis(f, target)
                          THEN FromOthers(Insts(f, a)[i], b, preds) ELSE Insts(f, a)[i]
             end(a) == IF a \in Predecessors(f, b) THEN Redirected(Term(f, a), b, target) ELSE Term(f, a)
             I == [a \in Blocks(f) |-> [i \in DOMAIN Insts(f, a) |-> new(a, i)]]
             T == [a \in Blocks(f) |-> end(a)]
  <1>0. Shape(f) /\ Constructed(f)
    BY SoundFacts
  <1>1. target \in Blocks(f) /\ target # b /\ Successors(f, b) = {target} /\ b # Entry /\ target \in Nat
    <2> DEFINE succ == Term(f, b).succ
    <2>1. succ \in Seq(Nat) /\ Len(succ) = 1
      BY <1>0, BlockFacts DEF Forwardable
    <2> HIDE DEF succ
    <2>2. Elements(succ) = {succ[1]}
      <3>1. DOMAIN succ = 1..1
        BY <2>1
      <3>2. \A k : k \in 1..1 <=> k = 1
        OBVIOUS
      <3> QED BY <3>1, <3>2 DEF Elements
    <2>3. Successors(f, b) = {target}
      BY <2>2 DEF succ, Successors
    <2>4. Successors(f, b) \subseteq Blocks(f) /\ Blocks(f) \subseteq Nat
      <3>1. Successors(f, b) \subseteq Blocks(f)
        BY <1>0, BlockFacts
      <3>2. Blocks(f) = 1..Len(f.blocks) /\ Len(f.blocks) \in Nat
        BY <1>0, ShapeFacts
      <3> QED BY ONLY <3>1, <3>2
    <2> HIDE DEF target
    <2>5. target # b /\ b # Entry
      BY DEF Forwardable, target
    <2> QED BY <2>3, <2>4, <2>5
  <1>2. ASSUME NEW i \in LeadingPhis(f, target)
        PROVE  LET phi == Insts(f, target)[i] IN
               /\ i \in DOMAIN Insts(f, target) /\ IsPhi(phi)
               /\ b \in Elements(phi.preds) /\ Predecessors(f, b) \cap Elements(phi.preds) = {}
    BY DEF Forwardable, LeadingPhis
  <1>3. BlocksReplaced(f, g, I, T)
    <2> DEFINE blocks == [a \in Blocks(f) |-> [insts |-> I[a], term |-> T[a]]]
    <2>1. g = [f EXCEPT !.blocks = blocks]
      BY DEF Forwarded, Blocks, Insts, Term
    <2>2. "blocks" \in DOMAIN f
      BY <1>0 DEF Shape
    <2> HIDE DEF g, blocks, I, T
    <2>3. DOMAIN g = DOMAIN f /\ g.kind = f.kind /\ g.params = f.params /\ g.blocks = blocks
      BY <2>1, <2>2
    <2> QED BY <2>3 DEF BlocksReplaced, blocks
  <1>4. ASSUME NEW a \in Blocks(f)
        PROVE  BlockFits(f, a, I[a], T[a])
    <2>1. /\ DOMAIN Insts(f, a) = 1..Len(Insts(f, a)) /\ Len(Insts(f, a)) \in Nat
          /\ Term(f, a) \in [args : Seq(Nat), succ : Seq(Nat)]
          /\ Successors(f, a) \subseteq Blocks(f)
      BY <1>0, BlockFacts
    <2>2. ASSUME NEW i \in DOMAIN Insts(f, a)
          PROVE  new(a, i) \in InstShape /\ new(a, i).result = Insts(f, a)[i].result
      <3> DEFINE phi == Insts(f, a)[i]
                 P == Predecessors(f, b)
      <3>1. phi \in InstShape
        BY <1>0, InstFacts
      <3>2. CASE a = target /\ i \in LeadingPhis(f, target)
        <4>1. IsPhi(phi) /\ b \in Elements(phi.preds) /\ Len(phi.args) = Len(phi.preds)
          BY <1>0, <1>2, <3>2, PhiLengths
        <4>2. P \in SUBSET (1..Len(f.blocks)) /\ Len(f.blocks) \in Nat
          BY <1>0, ShapeFacts DEF Predecessors
        <4>3. new(a, i) = FromOthers(phi, b, Ascending(P))
          BY <3>2
        <4> DEFINE N == Len(f.blocks)
        <4> HIDE DEF phi, P, new, N
        <4>5. P \in SUBSET (1..N) /\ N \in Nat
          BY <4>2 DEF N
        <4>4. /\ FromOthers(phi, b, Ascending(P)) \in InstShape
              /\ FromOthers(phi, b, Ascending(P)).result = phi.result
          BY ONLY <3>1, <4>1, <4>5, FromOthersShape
        <4> QED BY <4>3, <4>4 DEF phi
      <3>3. CASE ~(a = target /\ i \in LeadingPhis(f, target))
        <4>1. new(a, i) = phi
          BY <3>3
        <4> QED BY <3>1, <4>1
      <3> QED BY <3>2, <3>3
    <2>3. end(a) \in [args : Seq(Nat), succ : Seq(Nat)] /\ Elements(end(a).succ) \subseteq Blocks(f)
      <3> DEFINE term == Term(f, a)
      <3>1. term \in [args : Seq(Nat), succ : Seq(Nat)] /\ Elements(term.succ) \subseteq Blocks(f)
        BY <2>1 DEF Successors
      <3> DEFINE r == Redirected(term, b, target)
      <3> HIDE DEF term, target
      <3>3. target \in Nat
        BY <1>1
      <3>4. /\ r \in [args : Seq(Nat), succ : Seq(Nat)]
            /\ \A x : x \in Elements(r.succ) <=>
                      \/ x \in Elements(term.succ) /\ x # b
                      \/ x = target /\ b \in Elements(term.succ)
        BY ONLY <3>1, <3>3, RedirectFacts
      <3>2. /\ Redirected(term, b, target) \in [args : Seq(Nat), succ : Seq(Nat)]
            /\ \A x \in Elements(Redirected(term, b, target).succ) : x \in Elements(term.succ) \/ x = target
        BY <3>4
      <3> QED BY <1>1, <3>1, <3>2 DEF term
    <2>4. I[a] = [i \in DOMAIN Insts(f, a) |-> new(a, i)] /\ T[a] = end(a)
      OBVIOUS
    <2>5. I[a] \in Seq(InstShape)
      <3> DEFINE s == I[a]
                 n == Len(Insts(f, a))
      <3>1. s \in [1..n -> InstShape] /\ n \in Nat
        <4> HIDE DEF I, new
        <4> QED BY <2>1, <2>2, <2>4
      <3> HIDE DEF s, n
      <3>2. s \in Seq(InstShape)
        BY <3>1, SeqFacts
      <3> QED BY <3>2 DEF s
    <2> HIDE DEF I, T, new, end
    <2> QED BY <2>1, <2>2, <2>3, <2>4, <2>5 DEF BlockFits
  <1>5. \A a \in Blocks(f) :
            /\ \A i \in DOMAIN Insts(f, a) : I[a][i] = new(a, i)
            /\ T[a] = end(a)
    OBVIOUS
  <1> HIDE DEF I, T, g, new, end
  <1>6. Edited(f, g) /\ \A a \in Blocks(f) : Insts(g, a) = I[a] /\ Term(g, a) = T[a]
    BY <1>0, <1>3, <1>4, EditedShape
  <1>7. \A a \in Blocks(f) :
            /\ \A i \in DOMAIN Insts(f, a) : Insts(g, a)[i] = new(a, i)
            /\ Term(g, a) = end(a)
    BY <1>5, <1>6
  <1> HIDE DEF target
  <1>8. ASSUME NEW a \in Blocks(f), NEW i \in DOMAIN Insts(f, a)
        PROVE  IF a = target /\ i \in LeadingPhis(f, target)
               THEN /\ IsPhi(Insts(f, a)[i]) /\ b \in Elements(Insts(f, a)[i].preds)
                    /\ Predecessors(f, b) \cap Elements(Insts(f, a)[i].preds) = {}
                    /\ Insts(g, a)[i] = FromOthers(Insts(f, a)[i], b, preds)
               ELSE Insts(g, a)[i] = Insts(f, a)[i]
    BY <1>2, <1>7 DEF new
  <1>9. \A a \in Blocks(f) :
            Term(g, a) = IF a \in Predecessors(f, b) THEN Redirected(Term(f, a), b, target) ELSE Term(f, a)
    BY <1>7 DEF end
  <1> QED BY <1>1, <1>6, <1>8, <1>9 DEF g, target

LEMMA ForwardedWays ==
    ASSUME NEW f, Sound(f), NEW b \in Blocks(f), Forwardable(f, b)
    PROVE  LET g == Forwarded(f, b)
               target == Term(f, b).succ[1]
           IN
           /\ \A a \in Blocks(f) : Successors(g, a) = IF a \in Predecessors(f, b)
                                                      THEN (Successors(f, a) \ {b}) \cup {target}
                                                      ELSE Successors(f, a)
           /\ Reachable(g) \subseteq Reachable(f) \ {b}
           /\ \A a : a # b => Avoiding(g, a) \subseteq Avoiding(f, a)
  <1> DEFINE g == Forwarded(f, b)
             target == Term(f, b).succ[1]
             P == Predecessors(f, b)
  <1>0. Shape(f)
    BY SoundFacts
  <1>1. /\ target \in Blocks(f) /\ target # b /\ Successors(f, b) = {target} /\ b # Entry
        /\ Edited(f, g)
        /\ \A a \in Blocks(f) : Term(g, a) = IF a \in P THEN Redirected(Term(f, a), b, target) ELSE Term(f, a)
    BY ForwardedView
  <1>2. Shape(g) /\ Blocks(g) = Blocks(f)
    BY <1>1 DEF Edited
  <1>3. target \in Nat
    <2>1. Blocks(f) = 1..Len(f.blocks) /\ Len(f.blocks) \in Nat
      BY <1>0, ShapeFacts
    <2> HIDE DEF target
    <2> QED BY <1>1, <2>1
  <1> HIDE DEF g, target
  <1>4. ASSUME NEW a \in Blocks(f)
        PROVE  Successors(g, a) = IF a \in P THEN (Successors(f, a) \ {b}) \cup {target} ELSE Successors(f, a)
    <2> DEFINE term == Term(f, a)
               r == Redirected(term, b, target)
    <2>1. term \in [args : Seq(Nat), succ : Seq(Nat)]
      BY <1>0, BlockFacts
    <2> HIDE DEF term
    <2>2. \A x : x \in Elements(r.succ) <=>
                    \/ x \in Elements(term.succ) /\ x # b
                    \/ x = target /\ b \in Elements(term.succ)
      BY <1>3, <2>1, RedirectFacts
    <2>3. a \in P <=> b \in Elements(term.succ)
      BY DEF term, Predecessors, Successors
    <2> HIDE DEF r
    <2>4. CASE a \in P
      <3>1. Successors(g, a) = Elements(r.succ)
        BY <1>1, <2>4 DEF Successors, r, term
      <3>2. Successors(f, a) = Elements(term.succ)
        BY DEF Successors, term
      <3> QED BY <2>2, <2>3, <2>4, <3>1, <3>2
    <2>5. CASE a \notin P
      BY <1>1, <2>5 DEF Successors
    <2> QED BY <2>4, <2>5
  <1>5. \A a \in Blocks(f) \ P : b \notin Successors(f, a)
    BY DEF Predecessors
  <1>6. \A a \in Blocks(f) : a \in P => b \in Successors(f, a)
    BY DEF Predecessors
  <1>7. Reachable(g) \subseteq Reachable(f) \ {b}
    <2> DEFINE S == Reachable(f) \ {b}
    <2>1. Entry \in S /\ S \subseteq Blocks(f)
      BY <1>0, <1>1, AvoidingFacts
    <2>2. ASSUME NEW c \in S \cap Blocks(g) PROVE Successors(g, c) \subseteq S
      <3>1. c \in Reachable(f) /\ c \in Blocks(f)
        BY <1>2
      <3>2. Successors(f, c) \subseteq Reachable(f)
        BY <1>0, <3>1, AvoidingFacts
      <3>3. CASE c \in P
        <4>1. b \in Reachable(f)
          BY <1>6, <3>1, <3>2, <3>3
        <4>2. target \in Reachable(f)
          BY <1>0, <1>1, <4>1, AvoidingFacts
        <4> QED BY <1>1, <1>4, <3>1, <3>2, <3>3, <4>2
      <3>4. CASE c \notin P
        BY <1>4, <1>5, <3>1, <3>2, <3>4
      <3> QED BY <3>3, <3>4
    <2> HIDE DEF S
    <2>3. Reachable(g) \subseteq S
      BY <1>2, <2>1, <2>2, AvoidingFacts
    <2> QED BY <2>3 DEF S
  <1>8. ASSUME NEW a, a # b PROVE Avoiding(g, a) \subseteq Avoiding(f, a)
    <2> DEFINE S == Avoiding(f, a)
    <2>1. S \subseteq Blocks(f) /\ \A c \in S \cap Blocks(f) : Successors(f, c) \ {a} \subseteq S
      BY <1>0, AvoidingFacts DEF Closed
    <2> HIDE DEF S
    <2>2. ASSUME NEW c \in S PROVE Successors(g, c) \ {a} \subseteq S
      <3>1. c \in Blocks(f) /\ Successors(f, c) \ {a} \subseteq S
        BY <2>1
      <3>2. CASE c \in P
        <4>1. b \in S
          BY <1>6, <1>8, <3>1, <3>2
        <4>2. {target} \ {a} \subseteq S
          BY <1>1, <2>1, <4>1
        <4> QED BY <1>4, <3>1, <3>2, <4>2
      <3>3. CASE c \notin P
        BY <1>4, <3>1, <3>3
      <3> QED BY <3>2, <3>3
    <2>3. Avoiding(g, a) \subseteq S
      BY <1>0, <1>2, <2>2, FewerEdges DEF S
    <2> QED BY <2>3 DEF S
  <1> QED BY <1>4, <1>7, <1>8 DEF g, target

LEMMA ForwardedSound ==
    ASSUME NEW f, Sound(f), NEW b \in Blocks(f), Forwardable(f, b)
    PROVE  Sound(Forwarded(f, b))
  <1> DEFINE g == Forwarded(f, b)
             target == Term(f, b).succ[1]
             P == Predecessors(f, b)
             Changed(a, i) == a = target /\ i \in LeadingPhis(f, target)
  <1>0. Shape(f) /\ Constructed(f) /\ ValuesChecked(f) /\ Predecessors(f, Entry) = {} /\ LivePhisFit(f) /\ LiveReads(f)
    BY SoundFacts
  <1>1. /\ target \in Blocks(f) /\ target # b /\ Successors(f, b) = {target} /\ b # Entry
        /\ Edited(f, g)
        /\ \A a \in Blocks(f) :
              /\ \A i \in DOMAIN Insts(f, a) :
                    IF Changed(a, i)
                    THEN /\ IsPhi(Insts(f, a)[i]) /\ b \in Elements(Insts(f, a)[i].preds)
                         /\ P \cap Elements(Insts(f, a)[i].preds) = {}
                         /\ Insts(g, a)[i] = FromOthers(Insts(f, a)[i], b, Ascending(P))
                    ELSE Insts(g, a)[i] = Insts(f, a)[i]
              /\ Term(g, a) = IF a \in P THEN Redirected(Term(f, a), b, target) ELSE Term(f, a)
    BY ForwardedView
  <1>2. /\ \A a \in Blocks(f) : Successors(g, a) = IF a \in P THEN (Successors(f, a) \ {b}) \cup {target}
                                                   ELSE Successors(f, a)
        /\ Reachable(g) \subseteq Reachable(f) \ {b}
        /\ \A a : a # b => Avoiding(g, a) \subseteq Avoiding(f, a)
    BY ForwardedWays
  <1>3. P \in SUBSET (1..Len(f.blocks)) /\ Len(f.blocks) \in Nat /\ target \in Nat
    <2>1. Blocks(f) = 1..Len(f.blocks) /\ Len(f.blocks) \in Nat
      BY <1>0, ShapeFacts
    <2>2. P \subseteq Blocks(f)
      BY DEF Predecessors
    <2> HIDE DEF target, P
    <2> QED BY <1>1, <2>1, <2>2
  <1> HIDE DEF g, target, Changed
  <1>4. \A a \in P : a \in Blocks(f) /\ b \in Successors(f, a)
    BY DEF Predecessors
  <1>5. \A i \in DOMAIN Insts(f, b) : Insts(f, b)[i] = Nop
    BY <1>0 DEF ValuesChecked, Forwardable, Active
  <1> HIDE DEF P
  (* What becomes of an instruction. *)
  <1>6. ASSUME NEW a \in Blocks(f), NEW i \in DOMAIN Insts(f, a)
        PROVE  LET old == Insts(f, a)[i]
                   new == Insts(g, a)[i]
               IN
               /\ new.op = old.op /\ new.result = old.result /\ Uses(new) \subseteq Uses(old)
               /\ IsPhi(old) => /\ Len(new.args) = Len(new.preds)
                                /\ Elements(new.preds) \subseteq Blocks(f)
               /\ ~IsPhi(old) => new = old
               /\ ~Changed(a, i) => new = old
               /\ Changed(a, i) =>
                     /\ \A p, v : Gets(new, p, v) <=> (Gets(old, p, v) /\ p # b) \/ (p \in P /\ v = Incoming(old, b))
                     /\ \A p : p \in Elements(new.preds) <=> (p \in Elements(old.preds) /\ p # b) \/ p \in P
                     /\ \A S : ListedOnce(old, S) => ListedOnce(new, S)
                     /\ b \in Elements(old.preds) /\ IsPhi(old) /\ a = target
    <2> DEFINE old == Insts(f, a)[i]
               new == Insts(g, a)[i]
               N == Len(f.blocks)
    <2>1. old \in InstShape
      BY <1>0, InstFacts
    <2>2. IsPhi(old) => Len(old.args) = Len(old.preds) /\ Elements(old.preds) \subseteq Blocks(f)
      BY <1>0, PhiLengths
    <2>3. CASE ~Changed(a, i)
      <3>1. new = old
        BY <1>1, <2>3
      <3> HIDE DEF old, new
      <3> QED BY <2>2, <2>3, <3>1 DEF old, new
    <2>4. CASE Changed(a, i)
      <3>1. /\ IsPhi(old) /\ b \in Elements(old.preds) /\ P \cap Elements(old.preds) = {}
            /\ new = FromOthers(old, b, Ascending(P))
        BY <1>1, <2>4
      <3>2. P \in SUBSET (1..N) /\ N \in Nat
        BY <1>3
      <3>3. a = target
        BY <2>4 DEF Changed
      <3> HIDE DEF old, new, N
      <3> DEFINE made == FromOthers(old, b, Ascending(P))
      <3>4. Len(old.args) = Len(old.preds)
        BY <2>2, <3>1
      <3>5. /\ made \in InstShape /\ made.op = old.op /\ made.result = old.result
            /\ Len(made.args) = Len(made.preds)
            /\ \A p, v : Gets(made, p, v) <=> (Gets(old, p, v) /\ p # b) \/ (p \in P /\ v = Incoming(old, b))
            /\ \A p : p \in Elements(made.preds) <=> (p \in Elements(old.preds) /\ p # b) \/ p \in P
            /\ Uses(made) \subseteq Uses(old)
            /\ \A S : ListedOnce(old, S) /\ P \cap Elements(old.preds) = {} => ListedOnce(made, S)
        BY ONLY <2>1, <3>1, <3>2, <3>4, FromOthersFacts
      <3>6. made = new
        BY <3>1
      <3> HIDE DEF made
      <3>7. P \subseteq Blocks(f)
        BY <1>4
      <3>8. Elements(made.preds) \subseteq Blocks(f)
        BY <2>2, <3>1, <3>5, <3>7
      <3> QED BY <2>4, <3>1, <3>3, <3>5, <3>6, <3>8 DEF old, new
    <2> QED BY <2>3, <2>4
  (* Nothing but phis and edges has changed. *)
  <1>7. ASSUME NEW a \in Blocks(f)
        PROVE  /\ Term(g, a).args = Term(f, a).args /\ Len(Term(g, a).succ) = Len(Term(f, a).succ)
    <2> DEFINE term == Term(f, a)
               r == Redirected(term, b, target)
    <2>1. term \in [args : Seq(Nat), succ : Seq(Nat)]
      BY <1>0, BlockFacts
    <2>2. Term(g, a) = IF a \in P THEN r ELSE term
      BY <1>1
    <2> HIDE DEF term
    <2>3. r.args = term.args /\ Len(r.succ) = Len(term.succ)
      BY <1>3, <2>1, RedirectFacts
    <2> HIDE DEF r
    <2> QED BY <2>2, <2>3 DEF term
  <1>8. /\ Constructed(g) /\ ValuesChecked(g) /\ SingleAssignment(g) /\ ParamsListed(g) /\ Shape(g)
        /\ Blocks(g) = Blocks(f) /\ Values(g) = Values(f) /\ g.kind = f.kind
        /\ \A v : IsInst(g, v) <=> IsInst(f, v)
        /\ \A a \in Blocks(f) : End(g, a) = End(f, a) /\ DOMAIN Insts(g, a) = DOMAIN Insts(f, a)
    <2>1. \A a \in Blocks(f) : TermFine(f, Term(f, a)) /\ \A i \in DOMAIN Insts(f, a) : InstFine(f, Insts(f, a)[i])
      BY FineFacts
    <2>2. ASSUME NEW a \in Blocks(f)
          PROVE  TermFine(f, Term(g, a))
      BY <1>7, <2>1 DEF TermFine
    <2>3. ASSUME NEW a \in Blocks(f), NEW i \in DOMAIN Insts(f, a)
          PROVE  InstFine(f, Insts(g, a)[i])
      <3> DEFINE old == Insts(f, a)[i]
                 new == Insts(g, a)[i]
      <3>1. InstFine(f, old)
        BY <2>1
      <3>2. CASE ~IsPhi(old)
        <4>1. new = old
          BY <1>6, <3>2
        <4> HIDE DEF old, new
        <4>2. InstFine(f, new)
          BY <3>1, <4>1
        <4> QED BY <4>2 DEF new
      <3>3. CASE IsPhi(old)
        <4>1. /\ new.op = old.op /\ new.result = old.result /\ Uses(new) \subseteq Uses(old)
              /\ Len(new.args) = Len(new.preds) /\ Elements(new.preds) \subseteq Blocks(f)
          BY <1>6, <3>3
        <4> HIDE DEF old, new
        <4>2. InstFine(f, new)
          BY <3>1, <3>3, <4>1 DEF InstFine, InstConstructed, IsPhi, BinaryOps
        <4> QED BY <4>2 DEF new
      <3> QED BY <3>2, <3>3
    <2> QED BY <1>1, <2>2, <2>3, EditedFine
  <1>9. Reachable(g) \subseteq Blocks(f) /\ Reachable(g) \subseteq Reachable(f) /\ b \notin Reachable(g)
    BY <1>0, <1>2, AvoidingFacts
  <1>10. Predecessors(g, Entry) = {}
    <2>1. \A a \in Blocks(f) : Entry \notin Successors(f, a)
      BY <1>0 DEF Predecessors
    <2>2. target # Entry
      BY <1>1, <2>1
    <2> QED BY <1>2, <1>8, <2>1, <2>2 DEF Predecessors
  (* What could be read still can, even where it came by way of b. *)
  <1>11. NoValue \notin Values(f)
    BY <1>0, ShapeFacts
  <1>12. ASSUME NEW v, NEW x, NEW i, NEW c, NEW k, v # NoValue, Passes(f, v, x, i, c, k)
         PROVE  c # b /\ Insts(g, c)[k].result = v /\ x \notin Avoiding(g, c)
    <2>1. c \in Blocks(f) /\ k \in DOMAIN Insts(f, c) /\ Insts(f, c)[k].result = v /\ x \notin Avoiding(f, c)
      BY <1>12 DEF Passes
    <2>2. c # b
      BY <1>5, <1>12, <2>1 DEF Nop
    <2> QED BY <1>2, <1>6, <2>1, <2>2
  <1>13. ASSUME NEW v \in Values(f), NEW x, NEW i, MayRead(f, v, x, i)
         PROVE  MayRead(g, v, x, i)
    BY <1>1, <1>11, <1>12, <1>13, ReadKept
  <1>14. ASSUME NEW v \in Values(f), MayRead(f, v, b, End(f, b)), NEW p \in P
         PROVE  MayRead(f, v, p, End(f, p))
    <2> SUFFICES ASSUME IsInst(f, v)
                 PROVE  \E c \in Blocks(f) : \E k \in DOMAIN Insts(f, c) : Passes(f, v, p, End(f, p), c, k)
      BY DEF MayRead
    <2>1. PICK c \in Blocks(f) : \E k \in DOMAIN Insts(f, c) : Passes(f, v, b, End(f, b), c, k)
      BY <1>14 DEF MayRead
    <2>2. PICK k \in DOMAIN Insts(f, c) : Passes(f, v, b, End(f, b), c, k)
      BY <2>1
    <2>3. c # b /\ Insts(f, c)[k].result = v /\ b \notin Avoiding(f, c)
      BY <1>11, <1>12, <2>2 DEF Passes
    <2>4. p \notin Avoiding(f, c)
      <3>1. \A a \in Avoiding(f, c) : Successors(f, a) \ {c} \subseteq Avoiding(f, c)
        BY <1>0, AvoidingFacts DEF Closed
      <3> QED BY <1>4, <2>3, <3>1
    <2>5. c = p => k < End(f, p)
      <3>1. k \in Nat /\ k <= Len(Insts(f, c)) /\ Len(Insts(f, c)) \in Nat
        BY <1>0, InstFacts, BlockFacts
      <3> QED BY <3>1 DEF End
    <2> QED BY <2>3, <2>4, <2>5 DEF Passes
  <1>15. LivePhisFit(g)
    <2> SUFFICES ASSUME NEW a \in Reachable(g), NEW i \in DOMAIN Insts(g, a), IsPhi(Insts(g, a)[i])
                 PROVE  PhiFits(g, a, i)
      BY DEF LivePhisFit
    <2> DEFINE old == Insts(f, a)[i]
               new == Insts(g, a)[i]
    <2>1. a \in Reachable(f) /\ a \in Blocks(f) /\ i \in DOMAIN Insts(f, a) /\ a # b
      BY <1>8, <1>9
    <2>2. IsPhi(old)
      BY <1>6, <2>1 DEF IsPhi
    <2>3. PhiFits(f, a, i)
      BY <1>0, <2>1, <2>2 DEF LivePhisFit
    <2>4. /\ a # Entry
          /\ \A j \in 1..i : Insts(f, a)[j].op \in {"phi", "nop"}
          /\ \A p \in Reachable(f) : p \in Elements(old.preds) <=> a \in Successors(f, p)
          /\ ListedOnce(old, Reachable(f))
      BY <2>3 DEF PhiFits, ListedOnce
    <2>5. \A j \in 1..i : Insts(g, a)[j].op \in {"phi", "nop"}
      <3>1. \A j \in 1..i : j \in DOMAIN Insts(f, a)
        BY <1>0, <2>1, InstFacts, BlockFacts
      <3> QED BY <1>6, <2>1, <2>4, <3>1
    <2>6. Changed(a, i) <=> a = target
      <3>1. i \in LeadingPhis(f, a)
        BY <2>1, <2>2, LeadingFacts
      <3> QED BY <3>1 DEF Changed
    <2>7. ListedOnce(new, Reachable(g)) /\ \A p \in Reachable(g) : p \in Elements(new.preds) <=> a \in Successors(g, p)
      <3>1. CASE a = target
        <4>1. /\ \A p : p \in Elements(new.preds) <=> (p \in Elements(old.preds) /\ p # b) \/ p \in P
              /\ \A S : ListedOnce(old, S) => ListedOnce(new, S)
          BY <1>6, <2>1, <2>6, <3>1
        <4>2. ListedOnce(new, Reachable(g))
          <5>1. ListedOnce(new, Reachable(f))
            BY <2>4, <4>1
          <5> HIDE DEF new
          <5> QED BY <1>9, <5>1 DEF ListedOnce
        <4>3. ASSUME NEW p \in Reachable(g)
              PROVE  p \in Elements(new.preds) <=> a \in Successors(g, p)
          <5>1. p \in Reachable(f) /\ p \in Blocks(f) /\ p # b
            BY <1>9
          <5>2. p \in Elements(new.preds) <=> p \in Elements(old.preds) \/ p \in P
            <6> HIDE DEF old, new
            <6> QED BY <4>1, <5>1
          <5>3. p \in Elements(old.preds) <=> a \in Successors(f, p)
            BY <2>4, <5>1
          <5> HIDE DEF old, new
          <5> QED BY <1>2, <2>1, <3>1, <5>1, <5>2, <5>3
        <4> HIDE DEF old, new
        <4> QED BY <4>2, <4>3
      <3>2. CASE a # target
        <4>1. new = old
          BY <1>6, <2>1, <2>6, <3>2
        <4>2. \A p \in Reachable(g) : a \in Successors(g, p) <=> a \in Successors(f, p)
          BY <1>2, <1>9, <2>1, <3>2
        <4> HIDE DEF old, new
        <4> QED BY <1>9, <2>4, <4>1, <4>2 DEF ListedOnce
      <3> QED BY <3>1, <3>2
    <2> QED BY <2>4, <2>5, <2>7 DEF PhiFits, ListedOnce
  <1>16. LiveReads(g)
    <2> SUFFICES ASSUME NEW a \in Reachable(g)
                 PROVE  /\ \A i \in DOMAIN Insts(g, a) : InstReads(g, a, i)
                        /\ \A v \in Elements(Term(g, a).args) : MayRead(g, v, a, End(g, a))
      BY DEF LiveReads
    <2>1. a \in Reachable(f) /\ a \in Blocks(f)
      BY <1>9
    <2>2. ASSUME NEW v \in Elements(Term(g, a).args) PROVE MayRead(g, v, a, End(g, a))
      <3>1. v \in Elements(Term(f, a).args) /\ End(g, a) = End(f, a)
        BY <1>7, <1>8, <2>1
      <3>2. v \in Values(f) /\ MayRead(f, v, a, End(f, a))
        BY <1>0, <2>1, <3>1 DEF ValuesChecked, LiveReads
      <3> QED BY <1>13, <3>1, <3>2
    <2>3. ASSUME NEW i \in DOMAIN Insts(g, a) PROVE InstReads(g, a, i)
      <3> DEFINE old == Insts(f, a)[i]
                 new == Insts(g, a)[i]
      <3>1. i \in DOMAIN Insts(f, a) /\ InstReads(f, a, i)
        BY <1>0, <1>8, <2>1 DEF LiveReads
      <3>2. Uses(old) \subseteq Values(f)
        BY <1>0, <2>1, <3>1 DEF ValuesChecked
      <3>3. CASE ~IsPhi(old)
        <4>1. new = old
          BY <1>6, <2>1, <3>1, <3>3
        <4>2. \A v \in Uses(old) : MayRead(f, v, a, i)
          BY <3>1, <3>3 DEF InstReads
        <4>3. \A v \in Uses(old) : MayRead(g, v, a, i)
          BY <1>13, <3>2, <4>2
        <4> QED BY <3>3, <4>1, <4>3 DEF InstReads
      <3>4. CASE IsPhi(old)
        <4>0. Len(old.args) = Len(old.preds) /\ old \in InstShape
          BY <1>0, <2>1, <3>1, <3>4, PhiLengths, InstFacts
        <4>1. PhiReads(f, a, i)
          BY <1>0, <2>1, <3>1, <3>4, <4>0, PhiReadsFacts
        <4>2. \A p : \A v : Gets(old, p, v) => v \in Values(f)
          <5> HIDE DEF old
          <5> QED BY <3>2, <4>0, GetsFacts
        <4>3. ASSUME NEW p \in Reachable(g), NEW v, Gets(new, p, v)
              PROVE  MayRead(g, v, p, End(g, p))
          <5>1. p \in Reachable(f) /\ p \in Blocks(f) /\ p # b /\ End(g, p) = End(f, p)
            BY <1>8, <1>9
          <5>2. CASE Gets(old, p, v)
            <6>1. MayRead(f, v, p, End(f, p)) /\ v \in Values(f)
              BY <4>1, <4>2, <5>1, <5>2 DEF PhiReads
            <6> QED BY <1>13, <5>1, <6>1
          <5>3. CASE ~Gets(old, p, v)
            <6>1. Changed(a, i)
              BY <1>6, <2>1, <3>1, <4>3, <5>3
            <6>2. /\ Gets(new, p, v) <=> (Gets(old, p, v) /\ p # b) \/ (p \in P /\ v = Incoming(old, b))
                  /\ b \in Elements(old.preds)
              BY <1>6, <2>1, <3>1, <6>1
            <6>3. p \in P /\ v = Incoming(old, b)
              <7> HIDE DEF old, new
              <7> QED BY <4>3, <5>3, <6>2
            <6>4. Gets(old, b, v)
              <7> HIDE DEF old, new
              <7> QED BY <4>0, <6>2, <6>3, GetsFacts
            <6>5. b \in Reachable(f)
              BY <1>0, <1>4, <5>1, <6>3, AvoidingFacts
            <6>6. MayRead(f, v, b, End(f, b)) /\ v \in Values(f)
              BY <4>1, <4>2, <6>4, <6>5 DEF PhiReads
            <6> QED BY <1>13, <1>14, <5>1, <6>3, <6>6
          <5> QED BY <5>2, <5>3
        <4>4. PhiReads(g, a, i)
          BY <4>3 DEF PhiReads
        <4>5. IsPhi(new)
          BY <1>6, <2>1, <3>1, <3>4 DEF IsPhi
        <4> QED BY <1>8, <2>1, <4>4, <4>5, PhiLengths, PhiReadsFacts
      <3> QED BY <3>3, <3>4
    <2> QED BY <2>2, <2>3
  <1> QED BY <1>8, <1>10, <1>15, <1>16 DEF Sound, g

-----------------------------------------------------------------------------
(* merge_linear_block.  The code of the block behind moves up, so what was  *)
(* at one place is read at another.                                         *)
LEMMA ReblockedShape ==
    ASSUME NEW f, Shape(f), NEW g, NEW I, NEW T, BlocksReplaced(f, g, I, T),
           \A b \in Blocks(f) : /\ I[b] \in Seq(InstShape) /\ T[b] \in [args : Seq(Nat), succ : Seq(Nat)]
                                /\ Elements(T[b].succ) \subseteq Blocks(f)
    PROVE  /\ Shape(g) /\ g.kind = f.kind /\ g.params = f.params /\ Blocks(g) = Blocks(f)
           /\ \A b \in Blocks(f) : Insts(g, b) = I[b] /\ Term(g, b) = T[b]
  <1> USE DEF BlocksReplaced
  <1>1. Len(f.blocks) \in Nat /\ Blocks(f) = 1..Len(f.blocks) /\ Len(f.blocks) > 0 /\ f.kind \in Seq(Kinds)
    BY ShapeFacts DEF Shape
  <1>2. \A b \in Blocks(f) : [insts |-> I[b], term |-> T[b]] \in BlockShape
    BY DEF BlockShape
  <1>3. Blocks(g) = Blocks(f) /\ \A b \in Blocks(f) : Insts(g, b) = I[b] /\ Term(g, b) = T[b]
    BY DEF Blocks, Insts, Term
  <1>4. g.blocks \in Seq(BlockShape) /\ Len(g.blocks) > 0
    <2> DEFINE n == Len(f.blocks)
               new(b) == [insts |-> I[b], term |-> T[b]]
    <2>0. n \in Nat /\ n > 0 /\ Blocks(f) = 1..n
      BY <1>1
    <2> HIDE DEF n
    <2>1. g.blocks = [b \in 1..n |-> new(b)] /\ \A b \in 1..n : new(b) \in BlockShape
      BY <1>2, <2>0
    <2> HIDE DEF new
    <2>2. g.blocks \in [1..n -> BlockShape]
      BY <2>1
    <2> QED BY <2>0, <2>2, SeqFacts
  <1>5. \A b \in Blocks(g) : Successors(g, b) \subseteq Blocks(g)
    BY <1>3 DEF Successors
  <1>6. Shape(g)
    <2>1. {"kind", "params", "blocks"} \subseteq DOMAIN g
      BY DEF Shape
    <2> QED BY <1>1, <1>4, <1>5, <2>1 DEF Shape
  <1> QED BY <1>3, <1>6

Leave == [args |-> << >>, succ |-> << >>]

LEMMA LeaveFacts ==
    /\ Leave \in [args : Seq(Nat), succ : Seq(Nat)] /\ Elements(Leave.succ) = {} /\ Elements(Leave.args) = {}
    /\ Len(Leave.succ) # 2 /\ << >> \in Seq(InstShape) /\ DOMAIN << >> = {}
  <1>1. << >> \in Seq(Nat) /\ << >> \in Seq(InstShape) /\ Len(<< >>) = 0 /\ DOMAIN << >> = {}
    OBVIOUS
  <1> QED BY <1>1 DEF Leave, Elements

LEMMA MergeableFacts ==
    ASSUME NEW f, Shape(f), NEW b \in Blocks(f), Mergeable(f, b)
    PROVE  LET next == Term(f, b).succ[1] IN
           /\ next \in Blocks(f) /\ next # b /\ next # Entry /\ Successors(f, b) = {next}
           /\ Predecessors(f, next) = {b} /\ \A i \in DOMAIN Insts(f, next) : ~IsPhi(Insts(f, next)[i])
  <1> DEFINE succ == Term(f, b).succ
  <1>1. succ \in Seq(Nat) /\ Len(succ) = 1
    BY BlockFacts DEF Mergeable
  <1> HIDE DEF succ
  <1>2. Elements(succ) = {succ[1]}
    <2>1. DOMAIN succ = 1..1
      BY <1>1
    <2>2. \A k : k \in 1..1 <=> k = 1
      OBVIOUS
    <2> QED BY <2>1, <2>2 DEF Elements
  <1>3. Successors(f, b) = {succ[1]} /\ Successors(f, b) \subseteq Blocks(f)
    BY <1>2, BlockFacts DEF succ, Successors
  <1> QED BY <1>3 DEF Mergeable, Phis, succ

LEMMA JointView ==
    ASSUME NEW f, Shape(f), NEW b \in Blocks(f), NEW next \in Blocks(f), next # b
    PROVE  LET g == Joint(f, b, next) IN
           /\ Shape(g) /\ g.kind = f.kind /\ g.params = f.params /\ Blocks(g) = Blocks(f)
           /\ Joins(Insts(g, b), Insts(f, b), Insts(f, next)) /\ Term(g, b) = Term(f, next)
           /\ Insts(g, next) = << >> /\ Term(g, next) = Leave
           /\ \A a \in Blocks(f) \ {b, next} : Insts(g, a) = Insts(f, a) /\ Term(g, a) = Term(f, a)
  <1> DEFINE g == Joint(f, b, next)
             both == Insts(f, b) \o Insts(f, next)
             I == [a \in Blocks(f) |-> IF a = b THEN both ELSE IF a = next THEN << >> ELSE Insts(f, a)]
             T == [a \in Blocks(f) |-> IF a = b THEN Term(f, next) ELSE IF a = next THEN Leave ELSE Term(f, a)]
  <1>1. BlocksReplaced(f, g, I, T)
    <2> DEFINE blocks == [a \in Blocks(f) |-> [insts |-> I[a], term |-> T[a]]]
    <2>1. g = [f EXCEPT !.blocks = blocks]
      <3> DEFINE new == [a \in DOMAIN f.blocks |->
                            IF a = b THEN [insts |-> f.blocks[b].insts \o f.blocks[next].insts, term |-> f.blocks[next].term]
                            ELSE IF a = next THEN [insts |-> << >>, term |-> [args |-> << >>, succ |-> << >>]]
                            ELSE f.blocks[a]]
      <3>1. g = [f EXCEPT !.blocks = new]
        BY DEF Joint
      <3>2. ASSUME NEW a \in Blocks(f) PROVE new[a] = [insts |-> I[a], term |-> T[a]]
        <4>1. new[a] = IF a = b THEN [insts |-> f.blocks[b].insts \o f.blocks[next].insts, term |-> f.blocks[next].term]
                            ELSE IF a = next THEN [insts |-> << >>, term |-> [args |-> << >>, succ |-> << >>]]
                            ELSE f.blocks[a]
          BY DEF Blocks
        <4>2. f.blocks[a] = [insts |-> Insts(f, a), term |-> Term(f, a)]
          <5>1. f.blocks[a] \in BlockShape
            BY DEF Shape, Blocks
          <5> QED BY <5>1 DEF BlockShape, Insts, Term
        <4>3. I[a] = IF a = b THEN both ELSE IF a = next THEN << >> ELSE Insts(f, a)
          OBVIOUS
        <4>4. T[a] = IF a = b THEN Term(f, next) ELSE IF a = next THEN Leave ELSE Term(f, a)
          OBVIOUS
        <4> HIDE DEF new, I, T
        <4> QED BY <4>1, <4>2, <4>3, <4>4 DEF Insts, Term, Leave
      <3>3. DOMAIN f.blocks = Blocks(f)
        BY DEF Blocks
      <3>4. new = blocks
        <4>1. DOMAIN new = Blocks(f) /\ DOMAIN blocks = Blocks(f) /\ new = [a \in Blocks(f) |-> new[a]]
              /\ \A a \in Blocks(f) : blocks[a] = [insts |-> I[a], term |-> T[a]]
          BY <3>3
        <4> HIDE DEF new, I, T
        <4> QED BY <3>2, <4>1
      <3> HIDE DEF new, blocks
      <3> QED BY <3>1, <3>4
    <2>2. "blocks" \in DOMAIN f
      BY DEF Shape
    <2> HIDE DEF g, blocks, I, T
    <2>3. DOMAIN g = DOMAIN f /\ g.kind = f.kind /\ g.params = f.params /\ g.blocks = blocks
      BY <2>1, <2>2
    <2> QED BY <2>3 DEF BlocksReplaced, blocks
  <1>2. both \in Seq(InstShape) /\ Joins(both, Insts(f, b), Insts(f, next))
    <2>1. Insts(f, b) \in Seq(InstShape) /\ Insts(f, next) \in Seq(InstShape)
      BY BlockFacts
    <2> QED BY ONLY <2>1, ConcatFacts
  <1>3. I[b] = both /\ T[b] = Term(f, next) /\ I[next] = << >> /\ T[next] = Leave
        /\ \A a \in Blocks(f) \ {b, next} : I[a] = Insts(f, a) /\ T[a] = Term(f, a)
    OBVIOUS
  <1> HIDE DEF g, I, T, both
  <1>4. ASSUME NEW a \in Blocks(f)
        PROVE  /\ I[a] \in Seq(InstShape) /\ T[a] \in [args : Seq(Nat), succ : Seq(Nat)]
               /\ Elements(T[a].succ) \subseteq Blocks(f)
    <2>1. \A c \in Blocks(f) : /\ Insts(f, c) \in Seq(InstShape) /\ Term(f, c) \in [args : Seq(Nat), succ : Seq(Nat)]
                               /\ Elements(Term(f, c).succ) \subseteq Blocks(f)
      BY BlockFacts DEF Successors
    <2>2. CASE a = b
      BY <1>2, <1>3, <2>1, <2>2
    <2>3. CASE a = next
      BY <1>3, <2>3, LeaveFacts
    <2>4. CASE a \notin {b, next}
      BY <1>3, <2>1, <2>4
    <2> QED BY <2>2, <2>3, <2>4
  <1>5. /\ Shape(g) /\ g.kind = f.kind /\ g.params = f.params /\ Blocks(g) = Blocks(f)
        /\ \A a \in Blocks(f) : Insts(g, a) = I[a] /\ Term(g, a) = T[a]
    BY <1>1, <1>4, ReblockedShape
  <1> QED BY <1>2, <1>3, <1>5 DEF g

LEMMA RenamedFacts ==
    ASSUME NEW phi \in InstShape, Len(phi.args) = Len(phi.preds), NEW old, NEW new \in Nat
    PROVE  LET r == RenamedPred(phi, old, new) IN
           /\ r \in InstShape /\ r.op = phi.op /\ r.result = phi.result /\ r.args = phi.args
           /\ Len(r.args) = Len(r.preds)
           /\ \A p, v : Gets(r, p, v) <=> (Gets(phi, p, v) /\ p # old) \/ (p = new /\ Gets(phi, old, v))
           /\ \A p : p \in Elements(r.preds) <=> (p \in Elements(phi.preds) /\ p # old)
                                                 \/ (p = new /\ old \in Elements(phi.preds))
           /\ \A S, U : /\ ListedOnce(phi, S) /\ U \subseteq S
                        /\ new \in U => old \in S /\ new \notin Elements(phi.preds)
                        => ListedOnce(r, U)
  <1> DEFINE preds == phi.preds
             s == [k \in DOMAIN preds |-> IF preds[k] = old THEN new ELSE preds[k]]
             r == RenamedPred(phi, old, new)
  <1>1. /\ preds \in Seq(Nat) /\ phi.args \in Seq(Nat) /\ phi.op \in Ops /\ phi.result \in Nat
        /\ phi = [op |-> phi.op, result |-> phi.result, args |-> phi.args, preds |-> preds]
    BY DEF InstShape
  <1>2. r = [phi EXCEPT !.preds = s]
    BY DEF RenamedPred
  <1>3. /\ s \in Seq(Nat) /\ Len(s) = Len(preds) /\ DOMAIN s = DOMAIN preds
        /\ \A k \in DOMAIN preds : s[k] = IF preds[k] = old THEN new ELSE preds[k]
    <2> DEFINE n == Len(preds)
    <2> HIDE DEF preds
    <2>1. DOMAIN preds = 1..n /\ n \in Nat /\ \A k \in DOMAIN preds : preds[k] \in Nat
      BY <1>1, SeqView
    <2>2. s \in [1..n -> Nat] /\ \A k \in DOMAIN preds : s[k] = IF preds[k] = old THEN new ELSE preds[k]
      BY <2>1
    <2> HIDE DEF s, n
    <2>3. s \in Seq(Nat) /\ Len(s) = n
      BY <2>1, <2>2, SeqFacts
    <2> QED BY <2>1, <2>2, <2>3 DEF n
  <1> HIDE DEF s, r
  <1>4. r = [op |-> phi.op, result |-> phi.result, args |-> phi.args, preds |-> s]
    BY <1>1, <1>2
  <1>5. r \in InstShape /\ r.op = phi.op /\ r.result = phi.result /\ r.args = phi.args /\ r.preds = s
    BY <1>1, <1>3, <1>4 DEF InstShape
  <1>6. Len(r.args) = Len(r.preds)
    BY <1>3, <1>5
  <1>7. ASSUME NEW p, NEW v
        PROVE  Gets(r, p, v) <=> (Gets(phi, p, v) /\ p # old) \/ (p = new /\ Gets(phi, old, v))
    <2>1. Gets(r, p, v) <=> \E k \in DOMAIN preds : s[k] = p /\ phi.args[k] = v
      BY <1>3, <1>5 DEF Gets
    <2>2. \A q : Gets(phi, q, v) <=> \E k \in DOMAIN preds : preds[k] = q /\ phi.args[k] = v
      BY DEF Gets
    <2> HIDE DEF preds
    <2> QED BY <1>3, <2>1, <2>2
  <1>8. ASSUME NEW p
        PROVE  p \in Elements(r.preds) <=> (p \in Elements(preds) /\ p # old) \/ (p = new /\ old \in Elements(preds))
    <2> HIDE DEF preds
    <2> QED BY <1>3, <1>5 DEF Elements
  <1>9. ASSUME NEW S, NEW U, ListedOnce(phi, S), U \subseteq S, new \in U => old \in S /\ new \notin Elements(preds)
        PROVE  ListedOnce(r, U)
    <2> SUFFICES ASSUME NEW j \in DOMAIN preds, NEW k \in DOMAIN preds, s[j] = s[k], s[j] \in U
                 PROVE  j = k
      BY <1>3, <1>5 DEF ListedOnce
    <2>1. preds[j] = preds[k] /\ preds[j] \in S
      <3> HIDE DEF preds
      <3>1. preds[j] \in Elements(preds) /\ preds[k] \in Elements(preds)
        BY DEF Elements
      <3> QED BY <1>3, <1>9, <3>1
    <2> QED BY <1>9, <2>1 DEF ListedOnce
  <1> QED BY <1>5, <1>6, <1>7, <1>8, <1>9 DEF r

(* Where block c, and place k of it, are once next has moved into b.        *)
MovedTo(b, next, c) == IF c = next THEN b ELSE c
PlaceAt(f, b, next, c, k) == IF c = next THEN Len(Insts(f, b)) + k ELSE k

AllRenamed(f, next, b) ==
    [f EXCEPT !.blocks = [a \in DOMAIN @ |->
        [insts |-> [i \in DOMAIN @[a].insts |->
             IF i \in LeadingPhis(f, a) THEN RenamedPred(@[a].insts[i], next, b) ELSE @[a].insts[i]],
         term |-> @[a].term]]]

LEMMA RenamedView ==
    ASSUME NEW f, Shape(f), Constructed(f), NEW b \in Nat, NEW next, NEW g, g = AllRenamed(f, next, b)
    PROVE  /\ Edited(f, g)
           /\ \A a \in Blocks(f) :
                 /\ Term(g, a) = Term(f, a)
                 /\ \A i \in DOMAIN Insts(f, a) :
                       Insts(g, a)[i] = IF i \in LeadingPhis(f, a) THEN RenamedPred(Insts(f, a)[i], next, b)
                                        ELSE Insts(f, a)[i]
  <1> DEFINE new(a, i) == IF i \in LeadingPhis(f, a) THEN RenamedPred(Insts(f, a)[i], next, b) ELSE Insts(f, a)[i]
             I == [a \in Blocks(f) |-> [i \in DOMAIN Insts(f, a) |-> new(a, i)]]
             T == [a \in Blocks(f) |-> Term(f, a)]
  <1>2. BlocksReplaced(f, g, I, T)
    <2> DEFINE blocks == [a \in Blocks(f) |-> [insts |-> I[a], term |-> T[a]]]
    <2>1. g = [f EXCEPT !.blocks = blocks]
      BY DEF Blocks, Insts, Term, AllRenamed
    <2>2. "blocks" \in DOMAIN f
      BY DEF Shape
    <2> HIDE DEF blocks, I, T
    <2>3. DOMAIN g = DOMAIN f /\ g.kind = f.kind /\ g.params = f.params /\ g.blocks = blocks
      BY ONLY <2>1, <2>2
    <2> QED BY <2>3 DEF BlocksReplaced, blocks
  <1>3. ASSUME NEW a \in Blocks(f)
        PROVE  BlockFits(f, a, I[a], T[a])
    <2>1. /\ DOMAIN Insts(f, a) = 1..Len(Insts(f, a)) /\ Len(Insts(f, a)) \in Nat
          /\ Term(f, a) \in [args : Seq(Nat), succ : Seq(Nat)]
          /\ Successors(f, a) \subseteq Blocks(f)
      BY BlockFacts
    <2>2. ASSUME NEW i \in DOMAIN Insts(f, a)
          PROVE  new(a, i) \in InstShape /\ new(a, i).result = Insts(f, a)[i].result
      <3> DEFINE phi == Insts(f, a)[i]
      <3>1. phi \in InstShape
        BY InstFacts
      <3>2. CASE i \in LeadingPhis(f, a)
        <4>1. IsPhi(phi)
          BY <3>2 DEF LeadingPhis
        <4>2. Len(phi.args) = Len(phi.preds)
          BY <4>1, PhiLengths
        <4>3. new(a, i) = RenamedPred(phi, next, b)
          BY <3>2
        <4> HIDE DEF new, phi
        <4> DEFINE r == RenamedPred(phi, next, b)
        <4>4. r \in InstShape /\ r.result = phi.result
          BY ONLY b \in Nat, <3>1, <4>2, RenamedFacts
        <4> HIDE DEF r
        <4> QED BY <4>3, <4>4 DEF phi, r
      <3>3. CASE i \notin LeadingPhis(f, a)
        BY <3>1, <3>3
      <3> QED BY <3>2, <3>3
    <2>3. I[a] = [i \in DOMAIN Insts(f, a) |-> new(a, i)] /\ T[a] = Term(f, a)
      OBVIOUS
    <2>4. I[a] \in Seq(InstShape)
      <3> DEFINE s == I[a]
                 n == Len(Insts(f, a))
      <3>1. s \in [1..n -> InstShape] /\ n \in Nat
        <4> HIDE DEF I, new
        <4> QED BY <2>1, <2>2, <2>3
      <3> HIDE DEF s, n
      <3>2. s \in Seq(InstShape)
        BY <3>1, SeqFacts
      <3> QED BY <3>2 DEF s
    <2> HIDE DEF I, T, new
    <2> QED BY <2>1, <2>2, <2>3, <2>4 DEF BlockFits, Successors
  <1>4. \A a \in Blocks(f) :
            /\ \A i \in DOMAIN Insts(f, a) : I[a][i] = new(a, i)
            /\ T[a] = Term(f, a)
    OBVIOUS
  <1> HIDE DEF I, T, new
  <1>5. Edited(f, g) /\ \A a \in Blocks(f) : Insts(g, a) = I[a] /\ Term(g, a) = T[a]
    BY <1>2, <1>3, EditedShape
  <1> QED BY <1>4, <1>5 DEF new

MovedInst(f, g, b, next, c, k) ==
    LET old == Insts(f, c)[k]
        new == Insts(g, MovedTo(b, next, c))[PlaceAt(f, b, next, c, k)]
    IN  /\ PlaceAt(f, b, next, c, k) \in DOMAIN Insts(g, MovedTo(b, next, c))
        /\ new = old \/ (IsPhi(old) /\ new = RenamedPred(old, next, b))
        /\ k \in LeadingPhis(f, c) => new = RenamedPred(old, next, b)

LEMMA JointConstructed ==
    ASSUME NEW f, Shape(f), Constructed(f), NEW b \in Blocks(f), NEW next \in Blocks(f), next # b
    PROVE  LET g == Joint(f, b, next) IN
           /\ Constructed(g)
           /\ \A a \in Blocks(f) : \A i \in DOMAIN Insts(g, a) :
                 \E c \in Blocks(f) : \E k \in DOMAIN Insts(f, c) :
                     a = MovedTo(b, next, c) /\ i = PlaceAt(f, b, next, c, k) /\ Insts(g, a)[i] = Insts(f, c)[k]
           /\ \A c \in Blocks(f) : \A k \in DOMAIN Insts(f, c) :
                 /\ PlaceAt(f, b, next, c, k) \in DOMAIN Insts(g, MovedTo(b, next, c))
                 /\ Insts(g, MovedTo(b, next, c))[PlaceAt(f, b, next, c, k)] = Insts(f, c)[k]
  <1> DEFINE g == Joint(f, b, next)
  <1>1. /\ Shape(g) /\ g.kind = f.kind /\ g.params = f.params /\ Blocks(g) = Blocks(f)
        /\ Joins(Insts(g, b), Insts(f, b), Insts(f, next)) /\ Term(g, b) = Term(f, next)
        /\ Insts(g, next) = << >> /\ Term(g, next) = Leave
        /\ \A a \in Blocks(f) \ {b, next} : Insts(g, a) = Insts(f, a) /\ Term(g, a) = Term(f, a)
    BY JointView
  <1> HIDE DEF g
  <1>2. ASSUME NEW a \in Blocks(f), NEW i \in DOMAIN Insts(g, a)
        PROVE  \E c \in Blocks(f) : \E k \in DOMAIN Insts(f, c) :
                   a = MovedTo(b, next, c) /\ i = PlaceAt(f, b, next, c, k) /\ Insts(g, a)[i] = Insts(f, c)[k]
    <2>1. CASE a = b
      <3>1. CASE i \in DOMAIN Insts(f, b)
        BY <1>1, <2>1, <3>1 DEF MovedTo, PlaceAt, Joins
      <3>2. CASE i \notin DOMAIN Insts(f, b)
        <4>1. PICK j \in DOMAIN Insts(f, next) : i = Len(Insts(f, b)) + j
          BY <1>1, <1>2, <2>1, <3>2 DEF Joins
        <4>2. Insts(g, a)[i] = Insts(f, next)[j]
          BY <1>1, <2>1, <4>1 DEF Joins
        <4> QED BY <2>1, <4>1, <4>2 DEF MovedTo, PlaceAt
      <3> QED BY <3>1, <3>2
    <2>2. a # next
      <3>1. CASE a = next
        <4>1. DOMAIN Insts(g, a) = {}
          BY <1>1, <3>1, LeaveFacts
        <4> QED BY <1>2, <4>1
      <3> QED BY <3>1
    <2>3. CASE a \notin {b, next}
      <3>1. Insts(g, a) = Insts(f, a)
        BY <1>1, <2>3
      <3>2. a = MovedTo(b, next, a) /\ i = PlaceAt(f, b, next, a, i)
        BY <2>3 DEF MovedTo, PlaceAt
      <3> QED BY <1>2, <3>1, <3>2
    <2> QED BY <2>1, <2>2, <2>3
  <1>3. ASSUME NEW c \in Blocks(f), NEW k \in DOMAIN Insts(f, c)
        PROVE  /\ PlaceAt(f, b, next, c, k) \in DOMAIN Insts(g, MovedTo(b, next, c))
               /\ Insts(g, MovedTo(b, next, c))[PlaceAt(f, b, next, c, k)] = Insts(f, c)[k]
    <2>1. CASE c = next
      BY <1>1, <2>1 DEF MovedTo, PlaceAt, Joins
    <2>2. CASE c = b
      BY <1>1, <2>2 DEF MovedTo, PlaceAt, Joins
    <2>3. CASE c \notin {b, next}
      BY <1>1, <2>3 DEF MovedTo, PlaceAt
    <2> QED BY <2>1, <2>2, <2>3
  <1>4. Constructed(g)
    <2> SUFFICES ASSUME NEW a \in Blocks(f)
                 PROVE  /\ Len(Term(g, a).succ) = 2 => Term(g, a).args # << >>
                        /\ \A i \in DOMAIN Insts(g, a) : InstConstructed(g, Insts(g, a)[i])
      BY <1>1 DEF Constructed
    <2>1. Len(Term(g, a).succ) = 2 => Term(g, a).args # << >>
      <3>1. Term(g, a) = Leave \/ \E c \in Blocks(f) : Term(g, a) = Term(f, c)
        BY <1>1
      <3> QED BY <3>1, LeaveFacts DEF Constructed
    <2>2. ASSUME NEW i \in DOMAIN Insts(g, a) PROVE InstConstructed(g, Insts(g, a)[i])
      <3>1. PICK c \in Blocks(f) : \E k \in DOMAIN Insts(f, c) : Insts(g, a)[i] = Insts(f, c)[k]
        BY <1>2, <2>2
      <3>2. PICK k \in DOMAIN Insts(f, c) : Insts(g, a)[i] = Insts(f, c)[k]
        BY <3>1
      <3>3. InstConstructed(f, Insts(f, c)[k])
        BY DEF Constructed
      <3> QED BY <1>1, <3>2, <3>3 DEF InstConstructed
    <2> QED BY <2>1, <2>2
  <1> QED BY <1>2, <1>3, <1>4 DEF g

LEMMA MergedView ==
    ASSUME NEW f, Shape(f), Constructed(f), NEW b \in Blocks(f), Mergeable(f, b)
    PROVE  LET g == Merged(f, b)
               next == Term(f, b).succ[1]
           IN
           /\ Shape(g) /\ g.kind = f.kind /\ g.params = f.params /\ Blocks(g) = Blocks(f)
           /\ Term(g, b) = Term(f, next) /\ Term(g, next) = Leave /\ DOMAIN Insts(g, next) = {}
           /\ Len(Insts(g, b)) = Len(Insts(f, b)) + Len(Insts(f, next))
           /\ \A a \in Blocks(f) \ {b, next} : Term(g, a) = Term(f, a) /\ End(g, a) = End(f, a)
           /\ \A c \in Blocks(f) : \A k \in DOMAIN Insts(f, c) : MovedInst(f, g, b, next, c, k)
           /\ \A a \in Blocks(f) : \A i \in DOMAIN Insts(g, a) :
                 \E c \in Blocks(f) : \E k \in DOMAIN Insts(f, c) :
                     a = MovedTo(b, next, c) /\ i = PlaceAt(f, b, next, c, k)
  <1> DEFINE g == Merged(f, b)
             next == Term(f, b).succ[1]
             whole == Joint(f, b, next)
  <1>1. next \in Blocks(f) /\ next # b /\ \A i \in DOMAIN Insts(f, next) : ~IsPhi(Insts(f, next)[i])
    BY MergeableFacts
  <1>2. b \in Nat
    <2>1. Blocks(f) = 1..Len(f.blocks) /\ Len(f.blocks) \in Nat
      BY ShapeFacts
    <2> QED BY <2>1
  <1>3. g = AllRenamed(whole, next, b)
    BY DEF Merged, AllRenamed
  <1> HIDE DEF next
  <1>4. /\ Shape(whole) /\ whole.kind = f.kind /\ whole.params = f.params /\ Blocks(whole) = Blocks(f)
        /\ Joins(Insts(whole, b), Insts(f, b), Insts(f, next)) /\ Term(whole, b) = Term(f, next)
        /\ Insts(whole, next) = << >> /\ Term(whole, next) = Leave
        /\ \A a \in Blocks(f) \ {b, next} : Insts(whole, a) = Insts(f, a) /\ Term(whole, a) = Term(f, a)
    BY <1>1, JointView
  <1>5. /\ Constructed(whole)
        /\ \A a \in Blocks(f) : \A i \in DOMAIN Insts(whole, a) :
              \E c \in Blocks(f) : \E k \in DOMAIN Insts(f, c) :
                  a = MovedTo(b, next, c) /\ i = PlaceAt(f, b, next, c, k) /\ Insts(whole, a)[i] = Insts(f, c)[k]
        /\ \A c \in Blocks(f) : \A k \in DOMAIN Insts(f, c) :
              /\ PlaceAt(f, b, next, c, k) \in DOMAIN Insts(whole, MovedTo(b, next, c))
              /\ Insts(whole, MovedTo(b, next, c))[PlaceAt(f, b, next, c, k)] = Insts(f, c)[k]
    BY <1>1, JointConstructed
  <1> HIDE DEF whole, g
  <1>6. /\ Edited(whole, g)
        /\ \A a \in Blocks(whole) :
              /\ Term(g, a) = Term(whole, a)
              /\ \A i \in DOMAIN Insts(whole, a) :
                    Insts(g, a)[i] = IF i \in LeadingPhis(whole, a) THEN RenamedPred(Insts(whole, a)[i], next, b)
                                     ELSE Insts(whole, a)[i]
    BY <1>2, <1>3, <1>4, <1>5, RenamedView
  <1>7. \A a \in Blocks(f) : /\ End(g, a) = End(whole, a) /\ Len(Insts(g, a)) = Len(Insts(whole, a))
                             /\ DOMAIN Insts(g, a) = DOMAIN Insts(whole, a)
    BY <1>4, <1>6, EditedFacts DEF Edited
  <1>8. /\ Term(g, b) = Term(f, next) /\ Term(g, next) = Leave /\ DOMAIN Insts(g, next) = {}
        /\ Len(Insts(g, b)) = Len(Insts(f, b)) + Len(Insts(f, next))
        /\ \A a \in Blocks(f) \ {b, next} : Term(g, a) = Term(f, a) /\ End(g, a) = End(f, a)
    <2>1. Term(g, b) = Term(f, next) /\ Term(g, next) = Leave
      BY <1>1, <1>4, <1>6
    <2>2. DOMAIN Insts(g, next) = {}
      BY <1>1, <1>4, <1>7, LeaveFacts
    <2>3. Len(Insts(g, b)) = Len(Insts(f, b)) + Len(Insts(f, next))
      BY <1>4, <1>7 DEF Joins
    <2>4. \A a \in Blocks(f) \ {b, next} : Term(g, a) = Term(f, a) /\ End(g, a) = End(f, a)
      BY <1>4, <1>6, <1>7 DEF End
    <2> QED BY <2>1, <2>2, <2>3, <2>4
  <1>9. ASSUME NEW c \in Blocks(f), NEW k \in DOMAIN Insts(f, c)
        PROVE  MovedInst(f, g, b, next, c, k)
    <2> DEFINE a == MovedTo(b, next, c)
               i == PlaceAt(f, b, next, c, k)
               old == Insts(f, c)[k]
    <2>1. a \in Blocks(f)
      BY DEF MovedTo
    <2>2. i \in DOMAIN Insts(whole, a) /\ Insts(whole, a)[i] = old
      BY <1>5
    <2>3. /\ i \in DOMAIN Insts(g, a)
          /\ Insts(g, a)[i] = IF i \in LeadingPhis(whole, a) THEN RenamedPred(old, next, b) ELSE old
      BY <1>4, <1>6, <1>7, <2>1, <2>2
    <2>4. i \in LeadingPhis(whole, a) => IsPhi(old)
      BY <2>2 DEF LeadingPhis
    <2>5. ASSUME k \in LeadingPhis(f, c) PROVE i \in LeadingPhis(whole, a)
      <3>1. IsPhi(old) /\ \A j \in 1..k : Insts(f, c)[j].op \in {"nop", "phi"}
        BY <2>5 DEF LeadingPhis
      <3>2. c # next
        BY <1>1, <3>1
      <3>3. a = c /\ i = k
        BY <3>2 DEF MovedTo, PlaceAt
      <3>4. \A j \in 1..k : Insts(whole, c)[j] = Insts(f, c)[j]
        <4>1. \A j \in 1..k : j \in DOMAIN Insts(f, c)
          BY InstFacts, BlockFacts
        <4>2. \A j \in DOMAIN Insts(f, c) : Insts(whole, c)[j] = Insts(f, c)[j]
          BY <1>4, <3>2 DEF Joins
        <4> QED BY <4>1, <4>2
      <3> QED BY <2>2, <3>1, <3>3, <3>4 DEF LeadingPhis
    <2> HIDE DEF a, i
    <2>6. Insts(g, a)[i] = old \/ (IsPhi(old) /\ Insts(g, a)[i] = RenamedPred(old, next, b))
      BY <2>3, <2>4
    <2>7. k \in LeadingPhis(f, c) => Insts(g, a)[i] = RenamedPred(old, next, b)
      BY <2>3, <2>5
    <2> QED BY <2>3, <2>6, <2>7 DEF MovedInst, a, i
  <1>10. \A a \in Blocks(f) : \A i \in DOMAIN Insts(g, a) :
             \E c \in Blocks(f) : \E k \in DOMAIN Insts(f, c) :
                 a = MovedTo(b, next, c) /\ i = PlaceAt(f, b, next, c, k)
    BY <1>5, <1>7
  <1>11. Shape(g) /\ g.kind = f.kind /\ g.params = f.params /\ Blocks(g) = Blocks(f)
    BY <1>4, <1>6 DEF Edited
  <1> QED BY <1>8, <1>9, <1>10, <1>11 DEF g, next

LEMMA MergedWays ==
    ASSUME NEW f, Shape(f), Constructed(f), NEW b \in Blocks(f), Mergeable(f, b)
    PROVE  LET g == Merged(f, b)
               next == Term(f, b).succ[1]
           IN
           /\ Successors(g, b) = Successors(f, next) /\ Successors(g, next) = {}
           /\ \A a \in Blocks(f) \ {b} : next \notin Successors(f, a)
           /\ \A a \in Blocks(f) \ {b, next} : Successors(g, a) = Successors(f, a)
           /\ Reachable(g) \subseteq Reachable(f) \ {next}
           /\ \A a : a \notin {b, next} => Avoiding(g, a) \subseteq Avoiding(f, a) \ {next}
           /\ Avoiding(g, b) \subseteq Avoiding(f, b) /\ Avoiding(g, b) \subseteq Avoiding(f, next)
  <1> DEFINE g == Merged(f, b)
             next == Term(f, b).succ[1]
  <1>1. /\ next \in Blocks(f) /\ next # b /\ next # Entry /\ Successors(f, b) = {next}
        /\ Predecessors(f, next) = {b}
    BY MergeableFacts
  <1>2. /\ Shape(g) /\ Blocks(g) = Blocks(f)
        /\ Term(g, b) = Term(f, next) /\ Term(g, next) = Leave
        /\ \A a \in Blocks(f) \ {b, next} : Term(g, a) = Term(f, a)
    BY MergedView
  <1> HIDE DEF g, next
  <1>3. /\ Successors(g, b) = Successors(f, next) /\ Successors(g, next) = {}
        /\ \A a \in Blocks(f) \ {b, next} : Successors(g, a) = Successors(f, a)
    BY <1>2, LeaveFacts DEF Successors
  <1>4. \A a \in Blocks(f) \ {b} : next \notin Successors(f, a)
    BY <1>1 DEF Predecessors
  <1>5. Reachable(g) \subseteq Reachable(f) \ {next}
    <2> DEFINE S == Reachable(f) \ {next}
    <2>1. Entry \in S /\ S \subseteq Blocks(f)
      BY <1>1, AvoidingFacts
    <2>2. ASSUME NEW c \in S \cap Blocks(g) PROVE Successors(g, c) \subseteq S
      <3>1. c \in Reachable(f) /\ c \in Blocks(f) /\ c # next
        BY <1>2
      <3>2. Successors(f, c) \subseteq Reachable(f)
        BY <3>1, AvoidingFacts
      <3>3. CASE c = b
        <4>1. next \in Reachable(f)
          BY <1>1, <3>2, <3>3
        <4>2. Successors(f, next) \subseteq Reachable(f)
          BY <4>1, AvoidingFacts
        <4> QED BY <1>1, <1>3, <1>4, <3>3, <4>2
      <3>4. CASE c # b
        BY <1>3, <1>4, <3>1, <3>2, <3>4
      <3> QED BY <3>3, <3>4
    <2> HIDE DEF S
    <2>3. Reachable(g) \subseteq S
      BY <1>2, <2>1, <2>2, AvoidingFacts
    <2> QED BY <2>3 DEF S
  <1>6. ASSUME NEW a, a \notin {b, next} PROVE Avoiding(g, a) \subseteq Avoiding(f, a) \ {next}
    <2> DEFINE S == Avoiding(f, a) \ {next}
    <2>1. \A c \in Avoiding(f, a) : c \in Blocks(f) /\ Successors(f, c) \ {a} \subseteq Avoiding(f, a)
      BY AvoidingFacts DEF Closed
    <2>2. a # Entry => Entry \in S
      BY <1>1, AvoidingFacts
    <2>3. ASSUME NEW c \in S PROVE Successors(g, c) \ {a} \subseteq S
      <3>1. CASE c = b
        <4>1. next \in Avoiding(f, a)
          BY <1>1, <1>6, <2>1, <3>1
        <4>2. Successors(f, next) \ {a} \subseteq Avoiding(f, a)
          BY <2>1, <4>1
        <4> QED BY <1>1, <1>3, <1>4, <3>1, <4>2
      <3>2. CASE c # b
        BY <1>3, <1>4, <2>1, <3>2
      <3> QED BY <3>1, <3>2
    <2> HIDE DEF S
    <2>4. Closed(g, S, a)
      BY <2>3 DEF Closed
    <2>5. Avoiding(g, a) \subseteq S
      BY <1>2, <2>2, <2>4, AvoidingFacts
    <2> QED BY <2>5 DEF S
  <1>7. Avoiding(g, b) \subseteq Avoiding(f, b)
    <2> DEFINE S == Avoiding(f, b) \ {next}
    <2>1. \A c \in Avoiding(f, b) : c \in Blocks(f) /\ c # b /\ Successors(f, c) \ {b} \subseteq Avoiding(f, b)
      BY AvoidingFacts DEF Closed
    <2>2. b # Entry => Entry \in S
      BY <1>1, AvoidingFacts
    <2>3. ASSUME NEW c \in S PROVE Successors(g, c) \ {b} \subseteq S
      BY <1>3, <1>4, <2>1
    <2> HIDE DEF S
    <2>4. Closed(g, S, b)
      BY <2>3 DEF Closed
    <2>5. Avoiding(g, b) \subseteq S
      BY <1>2, <2>2, <2>4, AvoidingFacts
    <2> QED BY <2>5 DEF S
  <1>8. Avoiding(g, b) \subseteq Avoiding(f, next)
    <2> DEFINE S == Avoiding(f, next) \ {b}
    <2>1. \A c \in Avoiding(f, next) : c \in Blocks(f) /\ c # next /\ Successors(f, c) \ {next} \subseteq Avoiding(f, next)
      BY AvoidingFacts DEF Closed
    <2>2. b # Entry => Entry \in S
      BY <1>1, AvoidingFacts
    <2>3. ASSUME NEW c \in S PROVE Successors(g, c) \ {b} \subseteq S
      BY <1>3, <1>4, <2>1
    <2> HIDE DEF S
    <2>4. Closed(g, S, b)
      BY <2>3 DEF Closed
    <2>5. Avoiding(g, b) \subseteq S
      BY <1>2, <2>2, <2>4, AvoidingFacts
    <2> QED BY <2>5 DEF S
  <1> QED BY <1>3, <1>4, <1>5, <1>6, <1>7, <1>8 DEF g, next

LEMMA MergedRead ==
    ASSUME NEW f, Shape(f), Constructed(f), NEW b \in Blocks(f), Mergeable(f, b),
           NEW next, next = Term(f, b).succ[1],
           NEW v, v # NoValue, NEW x \in Reachable(f), NEW i \in Nat, i >= 1, MayRead(f, v, x, i)
    PROVE  MayRead(Merged(f, b), v, MovedTo(b, next, x), PlaceAt(f, b, next, x, i))
  <1> DEFINE g == Merged(f, b)
             y == MovedTo(b, next, x)
             j == PlaceAt(f, b, next, x, i)
  <1>1. /\ next \in Blocks(f) /\ next # b /\ next # Entry /\ Successors(f, b) = {next}
        /\ Predecessors(f, next) = {b}
    BY MergeableFacts
  <1>2. /\ Shape(g) /\ g.kind = f.kind /\ Blocks(g) = Blocks(f)
        /\ \A c \in Blocks(f) : \A k \in DOMAIN Insts(f, c) : MovedInst(f, g, b, next, c, k)
    BY MergedView
  <1>3. /\ \A a : a \notin {b, next} => Avoiding(g, a) \subseteq Avoiding(f, a) \ {next}
        /\ Avoiding(g, b) \subseteq Avoiding(f, b) /\ Avoiding(g, b) \subseteq Avoiding(f, next)
    BY MergedWays
  <1> HIDE DEF g
  <1>4. b \notin Avoiding(g, b) /\ \A c : \A a \in Avoiding(f, c) : Successors(f, a) \ {c} \subseteq Avoiding(f, c)
    BY <1>2, AvoidingFacts DEF Closed
  <1>5. Len(Insts(f, b)) \in Nat
    BY BlockFacts
  <1> SUFFICES ASSUME IsInst(f, v)
               PROVE  \E c \in Blocks(g) : \E k \in DOMAIN Insts(g, c) : Passes(g, v, y, j, c, k)
    BY <1>2 DEF MayRead, IsInst, g
  <1>6. PICK c \in Blocks(f) : \E k \in DOMAIN Insts(f, c) : Passes(f, v, x, i, c, k)
    BY DEF MayRead
  <1>7. PICK k \in DOMAIN Insts(f, c) : Passes(f, v, x, i, c, k)
    BY <1>6
  <1>8. Insts(f, c)[k].result = v /\ x \notin Avoiding(f, c) /\ (c = x => k < i)
    BY <1>7 DEF Passes
  <1> DEFINE d == MovedTo(b, next, c)
             m == PlaceAt(f, b, next, c, k)
  <1>9. k \in Nat /\ k >= 1 /\ k <= Len(Insts(f, c))
    BY InstFacts
  <1>10. d \in Blocks(f) /\ m \in DOMAIN Insts(g, d) /\ Insts(g, d)[m].result = v
    <2>1. MovedInst(f, g, b, next, c, k)
      BY <1>2
    <2>2. d \in Blocks(f)
      BY DEF MovedTo
    <2> DEFINE old == Insts(f, c)[k]
    <2>3. m \in DOMAIN Insts(g, d) /\ (Insts(g, d)[m] = old \/ Insts(g, d)[m] = RenamedPred(old, next, b))
      BY <2>1 DEF MovedInst
    <2>4. RenamedPred(old, next, b).result = old.result
      <3>1. old \in InstShape
        BY InstFacts
      <3> HIDE DEF old
      <3> QED BY <3>1 DEF RenamedPred, InstShape
    <2> HIDE DEF d, m
    <2>5. Insts(g, d)[m].result = old.result
      BY <2>3, <2>4
    <2> QED BY <1>8, <2>2, <2>3, <2>5
  <1>11. y \notin Avoiding(g, d)
    <2>1. CASE c \notin {b, next}
      <3>1. d = c
        BY <2>1 DEF MovedTo
      <3>2. CASE x = next
        <4>1. y = b
          BY <3>2 DEF MovedTo
        <4>2. b \notin Avoiding(f, c)
          BY <1>1, <1>4, <1>8, <2>1, <3>2
        <4> QED BY <1>3, <2>1, <3>1, <4>1, <4>2
      <3>3. CASE x # next
        <4>1. y = x
          BY <3>3 DEF MovedTo
        <4> QED BY <1>3, <1>8, <2>1, <3>1, <4>1
      <3> QED BY <3>2, <3>3
    <2>2. CASE c \in {b, next}
      <3>1. d = b
        BY <2>2 DEF MovedTo
      <3>2. CASE x \in {b, next}
        <4>1. y = b
          BY <3>2 DEF MovedTo
        <4> QED BY <1>4, <3>1, <4>1
      <3>3. CASE x \notin {b, next}
        <4>1. y = x
          BY <3>3 DEF MovedTo
        <4> QED BY <1>3, <1>8, <2>2, <3>1, <4>1
      <3> QED BY <3>2, <3>3
    <2> QED BY <2>1, <2>2
  <1>12. d = y => m < j
    <2> SUFFICES ASSUME d = y PROVE m < j
      OBVIOUS
    <2>1. CASE c = x
      <3>1. k < i
        BY <1>8, <2>1
      <3> QED BY <1>5, <1>9, <2>1, <3>1 DEF PlaceAt
    <2>2. CASE c # x
      <3>1. c \in {b, next} /\ x \in {b, next}
        BY <2>2 DEF MovedTo
      <3>2. CASE c = b
        <4>1. x = next
          BY <2>2, <3>1, <3>2
        <4>2. m = k /\ j = Len(Insts(f, b)) + i
          BY <1>1, <3>2, <4>1 DEF PlaceAt
        <4>3. k <= Len(Insts(f, b))
          BY <1>9, <3>2
        <4> QED BY <1>5, <1>9, <4>2, <4>3
      <3>3. CASE c = next
        <4>1. x = b
          BY <2>2, <3>1, <3>3
        <4>2. b \in Reachable(f) /\ next \in Reachable(f)
          BY <1>1, <4>1, AvoidingFacts
        <4>3. PICK p \in Avoiding(f, next) : next \in Successors(f, p)
          BY <1>1, <4>2, FirstArrival
        <4>4. p \in Blocks(f)
          BY AvoidingFacts
        <4>5. p = b
          BY <1>1, <4>3, <4>4 DEF Predecessors
        <4> QED BY <1>8, <3>3, <4>1, <4>3, <4>5
      <3> QED BY <3>1, <3>2, <3>3
    <2> QED BY <2>1, <2>2
  <1>13. Passes(g, v, y, j, d, m)
    BY <1>2, <1>10, <1>11, <1>12 DEF Passes
  <1> QED BY <1>2, <1>10, <1>13

MovedWell(f, b, next, c, k) ==
    LET old == Insts(f, c)[k]
        new == Insts(Merged(f, b), MovedTo(b, next, c))[PlaceAt(f, b, next, c, k)]
    IN
    /\ PlaceAt(f, b, next, c, k) \in DOMAIN Insts(Merged(f, b), MovedTo(b, next, c))
    /\ MovedTo(b, next, c) \in Blocks(f)
    /\ new.op = old.op /\ new.result = old.result /\ new.args = old.args
    /\ ~IsPhi(old) => new = old
    /\ IsPhi(old) => /\ c # next /\ Len(new.args) = Len(new.preds) /\ Elements(new.preds) \subseteq Blocks(f)
    /\ k \in LeadingPhis(f, c) =>
          /\ \A p, v : Gets(new, p, v) <=> (Gets(old, p, v) /\ p # next) \/ (p = b /\ Gets(old, next, v))
          /\ \A p : p \in Elements(new.preds) <=> (p \in Elements(old.preds) /\ p # next)
                                                  \/ (p = b /\ next \in Elements(old.preds))
          /\ \A S, U : /\ ListedOnce(old, S) /\ U \subseteq S
                       /\ b \in U => next \in S /\ b \notin Elements(old.preds)
                       => ListedOnce(new, U)

LEMMA MergedInst ==
    ASSUME NEW f, Shape(f), Constructed(f), NEW b \in Blocks(f), Mergeable(f, b),
           NEW next, next = Term(f, b).succ[1], NEW c \in Blocks(f), NEW k \in DOMAIN Insts(f, c)
    PROVE  MovedWell(f, b, next, c, k)
  <1> DEFINE old == Insts(f, c)[k]
             new == Insts(Merged(f, b), MovedTo(b, next, c))[PlaceAt(f, b, next, c, k)]
             r == RenamedPred(old, next, b)
  <1>1. /\ PlaceAt(f, b, next, c, k) \in DOMAIN Insts(Merged(f, b), MovedTo(b, next, c))
        /\ new = old \/ (IsPhi(old) /\ new = r)
        /\ k \in LeadingPhis(f, c) => new = r
    BY MergedView DEF MovedInst
  <1>2. MovedTo(b, next, c) \in Blocks(f)
    BY DEF MovedTo
  <1>3. old \in InstShape
    BY InstFacts
  <1>4. IsPhi(old) => Len(old.args) = Len(old.preds) /\ Elements(old.preds) \subseteq Blocks(f) /\ c # next
    BY PhiLengths, MergeableFacts
  <1>5. b \in Nat
    <2>1. Blocks(f) = 1..Len(f.blocks) /\ Len(f.blocks) \in Nat
      BY ShapeFacts
    <2> QED BY <2>1
  <1>6. k \in LeadingPhis(f, c) => IsPhi(old)
    BY DEF LeadingPhis
  <1> HIDE DEF old, new
  <1>7. CASE IsPhi(old)
    <2>1. Len(old.args) = Len(old.preds)
      BY <1>4, <1>7
    <2>2. /\ r \in InstShape /\ r.op = old.op /\ r.result = old.result /\ r.args = old.args
          /\ Len(r.args) = Len(r.preds)
          /\ \A p, v : Gets(r, p, v) <=> (Gets(old, p, v) /\ p # next) \/ (p = b /\ Gets(old, next, v))
          /\ \A p : p \in Elements(r.preds) <=> (p \in Elements(old.preds) /\ p # next)
                                                \/ (p = b /\ next \in Elements(old.preds))
          /\ \A S, U : /\ ListedOnce(old, S) /\ U \subseteq S
                       /\ b \in U => next \in S /\ b \notin Elements(old.preds)
                       => ListedOnce(r, U)
      BY ONLY <1>3, <1>5, <2>1, RenamedFacts
    <2> HIDE DEF r
    <2>3. Elements(r.preds) \subseteq Blocks(f)
      BY <1>4, <1>7, <2>2
    <2>4. CASE new = r
      BY <1>1, <1>2, <1>4, <1>7, <2>2, <2>3, <2>4 DEF old, new, MovedWell
    <2>5. CASE new = old /\ k \notin LeadingPhis(f, c)
      BY <1>1, <1>2, <1>4, <1>7, <2>5 DEF old, new, MovedWell
    <2> QED BY <1>1, <2>4, <2>5
  <1>8. CASE ~IsPhi(old)
    <2>1. new = old /\ k \notin LeadingPhis(f, c)
      BY <1>1, <1>6, <1>8
    <2> QED BY <1>1, <1>2, <1>8, <2>1 DEF old, new, MovedWell
  <1> QED BY <1>7, <1>8

LEMMA MergedSound ==
    ASSUME NEW f, Sound(f), NEW b \in Blocks(f), Mergeable(f, b)
    PROVE  Sound(Merged(f, b))
  <1> DEFINE g == Merged(f, b)
             next == Term(f, b).succ[1]
  <1>0. /\ Shape(f) /\ Constructed(f) /\ ValuesChecked(f) /\ SingleAssignment(f) /\ Predecessors(f, Entry) = {}
        /\ ParamsListed(f) /\ LivePhisFit(f) /\ LiveReads(f)
    BY SoundFacts
  <1>1. /\ next \in Blocks(f) /\ next # b /\ next # Entry /\ Successors(f, b) = {next}
        /\ Predecessors(f, next) = {b}
    BY <1>0, MergeableFacts
  <1>2. /\ Shape(g) /\ g.kind = f.kind /\ g.params = f.params /\ Blocks(g) = Blocks(f)
        /\ Term(g, b) = Term(f, next) /\ Term(g, next) = Leave
        /\ Len(Insts(g, b)) = Len(Insts(f, b)) + Len(Insts(f, next))
        /\ \A a \in Blocks(f) \ {b, next} : Term(g, a) = Term(f, a) /\ End(g, a) = End(f, a)
        /\ \A a \in Blocks(f) : \A i \in DOMAIN Insts(g, a) :
              \E c \in Blocks(f) : \E k \in DOMAIN Insts(f, c) :
                  a = MovedTo(b, next, c) /\ i = PlaceAt(f, b, next, c, k)
    BY <1>0, MergedView
  <1>3. /\ Successors(g, b) = Successors(f, next) /\ Successors(g, next) = {}
        /\ \A a \in Blocks(f) \ {b, next} : Successors(g, a) = Successors(f, a)
        /\ Reachable(g) \subseteq Reachable(f) \ {next}
    BY <1>0, MergedWays
  <1> DEFINE from(c, k) == Insts(f, c)[k]
             to(c, k) == Insts(g, MovedTo(b, next, c))[PlaceAt(f, b, next, c, k)]
  <1>4. ASSUME NEW c \in Blocks(f), NEW k \in DOMAIN Insts(f, c)
        PROVE  LET old == from(c, k)
                   new == to(c, k)
               IN
               /\ PlaceAt(f, b, next, c, k) \in DOMAIN Insts(g, MovedTo(b, next, c))
               /\ MovedTo(b, next, c) \in Blocks(f)
               /\ new.op = old.op /\ new.result = old.result /\ new.args = old.args
               /\ ~IsPhi(old) => new = old
               /\ IsPhi(old) => /\ c # next /\ Len(new.args) = Len(new.preds) /\ Elements(new.preds) \subseteq Blocks(f)
               /\ k \in LeadingPhis(f, c) =>
                     /\ \A p, v : Gets(new, p, v) <=> (Gets(old, p, v) /\ p # next) \/ (p = b /\ Gets(old, next, v))
                     /\ \A p : p \in Elements(new.preds) <=> (p \in Elements(old.preds) /\ p # next)
                                                             \/ (p = b /\ next \in Elements(old.preds))
                     /\ \A S, U : /\ ListedOnce(old, S) /\ U \subseteq S
                                  /\ b \in U => next \in S /\ b \notin Elements(old.preds)
                                  => ListedOnce(new, U)
    <2>1. MovedWell(f, b, next, c, k)
      BY <1>0, MergedInst
    <2> HIDE DEF next
    <2> QED BY ONLY <2>1 DEF MovedWell, from, to, g
  <1>5. \A v : IsInst(g, v) <=> IsInst(f, v)
    BY <1>2 DEF IsInst
  <1>6. Values(g) = Values(f) /\ NoValue \notin Values(f)
    BY <1>0, <1>2, ShapeFacts DEF Values
  <1>7. /\ Reachable(g) \subseteq Blocks(f) /\ Reachable(f) \subseteq Blocks(f)
        /\ b \in Reachable(f) => next \in Reachable(f)
    BY <1>0, <1>1, <1>3, AvoidingFacts
  <1>8. ASSUME NEW v \in Values(f), NEW x \in Reachable(f), NEW i \in Nat, i >= 1, MayRead(f, v, x, i)
        PROVE  MayRead(g, v, MovedTo(b, next, x), PlaceAt(f, b, next, x, i))
    BY <1>0, <1>6, <1>8, MergedRead
  <1>9. /\ \A a \in Blocks(f) : Len(Insts(f, a)) \in Nat
        /\ \A a \in Blocks(f) : \A i \in DOMAIN Insts(f, a) : i \in Nat /\ i >= 1 /\ i <= Len(Insts(f, a))
    BY <1>0, BlockFacts, InstFacts
  <1>10. /\ \A a \in Blocks(f) : End(f, a) \in Nat /\ End(f, a) >= 1
         /\ End(g, b) = PlaceAt(f, b, next, next, End(f, next)) /\ MovedTo(b, next, next) = b
         /\ \A a \in Blocks(f) \ {b, next} : End(g, a) = PlaceAt(f, b, next, a, End(f, a)) /\ MovedTo(b, next, a) = a
    <2>1. /\ \A a \in Blocks(f) : End(f, a) \in Nat /\ End(f, a) >= 1
          /\ End(g, b) = PlaceAt(f, b, next, next, End(f, next))
      BY <1>1, <1>2, <1>9 DEF End, PlaceAt
    <2> HIDE DEF g, next
    <2> QED BY <1>2, <2>1 DEF PlaceAt, MovedTo
  <1> HIDE DEF g, next
  <1>11. ASSUME NEW a \in Reachable(g), NEW v \in Values(f),
                MayRead(f, v, IF a = b THEN next ELSE a, End(f, IF a = b THEN next ELSE a))
         PROVE  MayRead(g, v, a, End(g, a))
    <2>1. a \in Reachable(f) /\ a # next /\ a \in Blocks(f)
      BY <1>3, <1>7
    <2>2. CASE a = b
      BY <1>1, <1>7, <1>8, <1>10, <1>11, <2>1, <2>2
    <2>3. CASE a # b
      BY <1>8, <1>10, <1>11, <2>1, <2>3
    <2> QED BY <2>2, <2>3
  <1>12. ASSUME NEW a \in Blocks(f)
         PROVE  \E c \in Blocks(f) : /\ Elements(Term(g, a).args) \subseteq Elements(Term(f, c).args)
                                     /\ Len(Term(g, a).succ) = 2 => Len(Term(f, c).succ) = 2 /\ Term(g, a).args = Term(f, c).args
    <2>1. CASE a = next
      <3>1. Term(g, a) = Leave
        BY <1>2, <2>1
      <3> QED BY <3>1, LeaveFacts
    <2>2. CASE a = b
      BY <1>1, <1>2, <2>2
    <2>3. CASE a \notin {b, next}
      BY <1>2, <2>3
    <2> QED BY <2>1, <2>2, <2>3
  <1>13. Constructed(g) /\ ValuesChecked(g)
    <2> SUFFICES ASSUME NEW a \in Blocks(f)
                 PROVE  /\ Len(Term(g, a).succ) = 2 => Term(g, a).args # << >>
                        /\ Elements(Term(g, a).args) \subseteq Values(f)
                        /\ \A i \in DOMAIN Insts(g, a) :
                              /\ InstConstructed(g, Insts(g, a)[i])
                              /\ Uses(Insts(g, a)[i]) \subseteq Values(f)
                              /\ Insts(g, a)[i].result \in IF IsPhi(Insts(g, a)[i]) THEN Values(f) ELSE Values(f) \cup {NoValue}
                              /\ Insts(g, a)[i].op = "nop" => Insts(g, a)[i] = Nop
      BY <1>2, <1>6 DEF Constructed, ValuesChecked
    <2>1. /\ Len(Term(g, a).succ) = 2 => Term(g, a).args # << >>
          /\ Elements(Term(g, a).args) \subseteq Values(f)
      BY <1>0, <1>12 DEF Constructed, ValuesChecked
    <2>2. ASSUME NEW i \in DOMAIN Insts(g, a)
          PROVE  /\ InstConstructed(g, Insts(g, a)[i])
                 /\ Uses(Insts(g, a)[i]) \subseteq Values(f)
                 /\ Insts(g, a)[i].result \in IF IsPhi(Insts(g, a)[i]) THEN Values(f) ELSE Values(f) \cup {NoValue}
                 /\ Insts(g, a)[i].op = "nop" => Insts(g, a)[i] = Nop
      <3>1. PICK c \in Blocks(f) : \E k \in DOMAIN Insts(f, c) : a = MovedTo(b, next, c) /\ i = PlaceAt(f, b, next, c, k)
        BY <1>2
      <3>2. PICK k \in DOMAIN Insts(f, c) : a = MovedTo(b, next, c) /\ i = PlaceAt(f, b, next, c, k)
        BY <3>1
      <3> DEFINE old == from(c, k)
                 new == to(c, k)
      <3>3. Insts(g, a)[i] = new
        BY <3>2
      <3>4. /\ new.op = old.op /\ new.result = old.result /\ new.args = old.args
            /\ ~IsPhi(old) => new = old
            /\ IsPhi(old) => Len(new.args) = Len(new.preds) /\ Elements(new.preds) \subseteq Blocks(f)
        BY <1>4
      <3>5. /\ InstConstructed(f, old)
            /\ Uses(old) \subseteq Values(f)
            /\ old.result \in IF IsPhi(old) THEN Values(f) ELSE Values(f) \cup {NoValue}
            /\ old.op = "nop" => old = Nop
        BY <1>0 DEF Constructed, ValuesChecked
      <3> HIDE DEF old, new
      <3>6. InstConstructed(g, new)
        BY <1>2, <3>4, <3>5 DEF InstConstructed, IsPhi, BinaryOps
      <3>7. Uses(new) \subseteq Values(f)
        BY <3>4, <3>5 DEF Uses
      <3>8. new.result \in IF IsPhi(new) THEN Values(f) ELSE Values(f) \cup {NoValue}
        BY <3>4, <3>5 DEF IsPhi
      <3>9. new.op = "nop" => new = Nop
        BY <3>4, <3>5 DEF IsPhi
      <3> QED BY <3>3, <3>6, <3>7, <3>8, <3>9
    <2> QED BY <2>1, <2>2
  <1>14. SingleAssignment(g)
    <2>0. Once(f)
      BY <1>0, OnceFacts
    <2> SUFFICES ASSUME NEW a \in Blocks(f), NEW e \in Blocks(f),
                        NEW i \in DOMAIN Insts(g, a), NEW j \in DOMAIN Insts(g, e),
                        Insts(g, a)[i].result # NoValue
                 PROVE  /\ IsInst(g, Insts(g, a)[i].result)
                        /\ Insts(g, a)[i].result = Insts(g, e)[j].result => a = e /\ i = j
      BY <1>2, OnceFacts DEF Once
    <2>1. PICK c \in Blocks(f) : \E k \in DOMAIN Insts(f, c) : a = MovedTo(b, next, c) /\ i = PlaceAt(f, b, next, c, k)
      BY <1>2
    <2>2. PICK k \in DOMAIN Insts(f, c) : a = MovedTo(b, next, c) /\ i = PlaceAt(f, b, next, c, k)
      BY <2>1
    <2>3. PICK d \in Blocks(f) : \E l \in DOMAIN Insts(f, d) : e = MovedTo(b, next, d) /\ j = PlaceAt(f, b, next, d, l)
      BY <1>2
    <2>4. PICK l \in DOMAIN Insts(f, d) : e = MovedTo(b, next, d) /\ j = PlaceAt(f, b, next, d, l)
      BY <2>3
    <2>5. Insts(g, a)[i].result = Insts(f, c)[k].result /\ Insts(g, e)[j].result = Insts(f, d)[l].result
      BY <1>4, <2>2, <2>4
    <2> QED BY <1>5, <2>0, <2>2, <2>4, <2>5 DEF Once
  <1>15. ParamsListed(g)
    BY <1>0, <1>2, <1>6 DEF ParamsListed
  <1>16. Predecessors(g, Entry) = {}
    BY <1>0, <1>1, <1>2, <1>3 DEF Predecessors
  (* The phis of a live block: they listed next where they list b now. *)
  <1>17. ASSUME NEW a \in Reachable(g), NEW i \in DOMAIN Insts(g, a), IsPhi(Insts(g, a)[i])
         PROVE  LET old == Insts(f, a)[i]
                    new == Insts(g, a)[i]
                IN
                /\ a \in Reachable(f) /\ i \in DOMAIN Insts(f, a) /\ a # next /\ IsPhi(old) /\ PhiFits(f, a, i)
                /\ b \in Reachable(f) => b \notin Elements(old.preds)
                /\ \A p, v : Gets(new, p, v) <=> (Gets(old, p, v) /\ p # next) \/ (p = b /\ Gets(old, next, v))
                /\ \A p : p \in Elements(new.preds) <=> (p \in Elements(old.preds) /\ p # next)
                                                        \/ (p = b /\ next \in Elements(old.preds))
                /\ \A S, U : /\ ListedOnce(old, S) /\ U \subseteq S
                             /\ b \in U => next \in S /\ b \notin Elements(old.preds)
                             => ListedOnce(new, U)
    <2>1. a \in Reachable(f) /\ a \in Blocks(f) /\ a # next
      BY <1>3, <1>7
    <2>2. PICK c \in Blocks(f) : \E k \in DOMAIN Insts(f, c) : a = MovedTo(b, next, c) /\ i = PlaceAt(f, b, next, c, k)
      BY <1>2, <2>1
    <2>3. PICK k \in DOMAIN Insts(f, c) : a = MovedTo(b, next, c) /\ i = PlaceAt(f, b, next, c, k)
      BY <2>2
    <2>4. IsPhi(from(c, k))
      <3>1. to(c, k).op = from(c, k).op
        BY <1>4
      <3>2. to(c, k) = Insts(g, a)[i]
        BY <2>3
      <3> QED BY <1>17, <3>1, <3>2 DEF IsPhi
    <2>5. c # next
      BY <1>4, <2>4
    <2>6. c = a /\ k = i
      BY <2>3, <2>5 DEF MovedTo, PlaceAt
    <2>7. k \in LeadingPhis(f, c) /\ PhiFits(f, a, i)
      BY <1>0, <2>1, <2>4, <2>6, LeadingFacts DEF LivePhisFit
    <2>8. b \in Reachable(f) => b \notin Elements(Insts(f, a)[i].preds)
      <3>1. b \in Reachable(f) => (b \in Elements(Insts(f, a)[i].preds) <=> a \in Successors(f, b))
        BY <2>7 DEF PhiFits
      <3> QED BY <1>1, <2>1, <3>1
    <2>9. to(c, k) = Insts(g, a)[i] /\ from(c, k) = Insts(f, a)[i]
      BY <2>3, <2>6
    <2> DEFINE old == from(c, k)
               new == to(c, k)
    <2>10. /\ \A p, v : Gets(new, p, v) <=> (Gets(old, p, v) /\ p # next) \/ (p = b /\ Gets(old, next, v))
           /\ \A p : p \in Elements(new.preds) <=> (p \in Elements(old.preds) /\ p # next)
                                                   \/ (p = b /\ next \in Elements(old.preds))
           /\ \A S, U : /\ ListedOnce(old, S) /\ U \subseteq S
                        /\ b \in U => next \in S /\ b \notin Elements(old.preds)
                        => ListedOnce(new, U)
      BY <1>4, <2>7
    <2>11. i \in DOMAIN Insts(f, a) /\ IsPhi(Insts(f, a)[i])
      BY <2>4, <2>6, <2>9
    <2>12. old = Insts(f, a)[i] /\ new = Insts(g, a)[i]
      BY <2>9
    <2> HIDE DEF old, new
    <2> QED BY <2>1, <2>7, <2>8, <2>10, <2>11, <2>12
  <1>18. LivePhisFit(g)
    <2> SUFFICES ASSUME NEW a \in Reachable(g), NEW i \in DOMAIN Insts(g, a), IsPhi(Insts(g, a)[i])
                 PROVE  PhiFits(g, a, i)
      BY DEF LivePhisFit
    <2> DEFINE old == Insts(f, a)[i]
               new == Insts(g, a)[i]
    <2>1. /\ a \in Reachable(f) /\ i \in DOMAIN Insts(f, a) /\ a # next /\ IsPhi(old) /\ PhiFits(f, a, i)
          /\ b \in Reachable(f) => b \notin Elements(old.preds)
          /\ \A p : p \in Elements(new.preds) <=> (p \in Elements(old.preds) /\ p # next)
                                                  \/ (p = b /\ next \in Elements(old.preds))
          /\ \A S, U : /\ ListedOnce(old, S) /\ U \subseteq S
                       /\ b \in U => next \in S /\ b \notin Elements(old.preds)
                       => ListedOnce(new, U)
      BY <1>17
    <2>2. /\ a # Entry
          /\ \A j \in 1..i : Insts(f, a)[j].op \in {"phi", "nop"}
          /\ \A p \in Reachable(f) : p \in Elements(old.preds) <=> a \in Successors(f, p)
          /\ ListedOnce(old, Reachable(f))
      BY <2>1 DEF PhiFits, ListedOnce
    <2>3. \A j \in 1..i : Insts(g, a)[j].op \in {"phi", "nop"}
      <3> SUFFICES ASSUME NEW j \in 1..i PROVE Insts(g, a)[j].op \in {"phi", "nop"}
        OBVIOUS
      <3>1. j \in DOMAIN Insts(f, a)
        BY <1>0, <1>7, <1>9, <2>1, BlockFacts
      <3>2. MovedTo(b, next, a) = a /\ PlaceAt(f, b, next, a, j) = j
        BY <2>1 DEF MovedTo, PlaceAt
      <3>3. to(a, j).op = from(a, j).op
        BY <1>4, <1>7, <2>1, <3>1
      <3> QED BY <2>2, <3>2, <3>3
    <2>4. ASSUME NEW p \in Reachable(g) PROVE p \in Elements(new.preds) <=> a \in Successors(g, p)
      <3>1. p \in Reachable(f) /\ p \in Blocks(f) /\ p # next
        BY <1>3, <1>7
      <3> HIDE DEF old, new
      <3>2. CASE p = b
        BY <1>3, <1>7, <2>1, <2>2, <3>1, <3>2
      <3>3. CASE p # b
        BY <1>3, <2>1, <2>2, <3>1, <3>3
      <3> QED BY <3>2, <3>3
    <2>5. ListedOnce(new, Reachable(g))
      <3>1. Reachable(g) \subseteq Reachable(f) /\ (b \in Reachable(g) => next \in Reachable(f) /\ b \notin Elements(old.preds))
        BY <1>3, <1>7, <2>1
      <3> HIDE DEF old, new
      <3> QED BY <2>1, <2>2, <3>1
    <2> QED BY <2>2, <2>3, <2>4, <2>5 DEF PhiFits, ListedOnce
  <1>19. LiveReads(g)
    <2> SUFFICES ASSUME NEW a \in Reachable(g)
                 PROVE  /\ \A i \in DOMAIN Insts(g, a) : InstReads(g, a, i)
                        /\ \A v \in Elements(Term(g, a).args) : MayRead(g, v, a, End(g, a))
      BY DEF LiveReads
    <2>1. a \in Reachable(f) /\ a \in Blocks(f) /\ a # next
      BY <1>3, <1>7
    <2>2. ASSUME NEW v \in Elements(Term(g, a).args) PROVE MayRead(g, v, a, End(g, a))
      <3> DEFINE c == IF a = b THEN next ELSE a
      <3>1. c \in Reachable(f) /\ c \in Blocks(f) /\ Term(g, a) = Term(f, c)
        BY <1>1, <1>2, <1>7, <2>1
      <3>2. v \in Values(f) /\ MayRead(f, v, c, End(f, c))
        BY <1>0, <2>2, <3>1 DEF ValuesChecked, LiveReads
      <3> QED BY <1>11, <3>2
    <2>3. ASSUME NEW i \in DOMAIN Insts(g, a), ~IsPhi(Insts(g, a)[i]) PROVE InstReads(g, a, i)
      <3>1. PICK c \in Blocks(f) : \E k \in DOMAIN Insts(f, c) : a = MovedTo(b, next, c) /\ i = PlaceAt(f, b, next, c, k)
        BY <1>2, <2>1
      <3>2. PICK k \in DOMAIN Insts(f, c) : a = MovedTo(b, next, c) /\ i = PlaceAt(f, b, next, c, k)
        BY <3>1
      <3>3. to(c, k) = Insts(g, a)[i]
        BY <3>2
      <3>4. to(c, k) = from(c, k) /\ ~IsPhi(from(c, k))
        <4>1. to(c, k).op = from(c, k).op /\ (~IsPhi(from(c, k)) => to(c, k) = from(c, k))
          BY <1>4
        <4> QED BY <2>3, <3>3, <4>1 DEF IsPhi
      <3>5. c \in Reachable(f)
        BY <1>1, <1>7, <2>1, <3>2 DEF MovedTo
      <3>6. InstReads(f, c, k)
        BY <1>0, <3>5 DEF LiveReads
      <3>7. \A v \in Uses(from(c, k)) : v \in Values(f) /\ MayRead(f, v, c, k)
        BY <1>0, <3>4, <3>6 DEF InstReads, ValuesChecked
      <3>8. k \in Nat /\ k >= 1
        BY <1>9
      <3>9. \A v \in Uses(from(c, k)) : MayRead(g, v, a, i)
        BY <1>8, <3>2, <3>5, <3>7, <3>8
      <3> QED BY <2>3, <3>3, <3>4, <3>9 DEF InstReads
    <2>4. ASSUME NEW i \in DOMAIN Insts(g, a), IsPhi(Insts(g, a)[i]) PROVE InstReads(g, a, i)
      <3> DEFINE old == Insts(f, a)[i]
                 new == Insts(g, a)[i]
      <3>1. /\ i \in DOMAIN Insts(f, a) /\ IsPhi(old)
            /\ b \in Reachable(f) => b \notin Elements(old.preds)
            /\ \A p, v : Gets(new, p, v) <=> (Gets(old, p, v) /\ p # next) \/ (p = b /\ Gets(old, next, v))
        BY <1>17, <2>4
      <3>2. Len(old.args) = Len(old.preds) /\ old \in InstShape
        BY <1>0, <2>1, <3>1, PhiLengths, InstFacts
      <3>3. InstReads(f, a, i) /\ Uses(old) \subseteq Values(f)
        BY <1>0, <2>1, <3>1 DEF LiveReads, ValuesChecked
      <3>4. PhiReads(f, a, i)
        BY <1>0, <2>1, <3>1, <3>2, <3>3, PhiReadsFacts
      <3>5. /\ \A p : \A v : Gets(old, p, v) => v \in Values(f)
            /\ \A p : \A v : Gets(old, p, v) => p \in Elements(old.preds)
        <4> HIDE DEF old
        <4> QED BY <3>2, <3>3, GetsFacts
      <3>6. ASSUME NEW p \in Reachable(g), NEW v, Gets(new, p, v)
            PROVE  MayRead(g, v, p, End(g, p))
        <4>1. p \in Reachable(f) /\ p # next
          BY <1>3
        <4> DEFINE c == IF p = b THEN next ELSE p
        <4>2. Gets(old, c, v) /\ c \in Reachable(f)
          <5> HIDE DEF old, new
          <5> QED BY <1>7, <3>1, <3>5, <3>6, <4>1
        <4>3. MayRead(f, v, c, End(f, c)) /\ v \in Values(f)
          BY <3>4, <3>5, <4>2 DEF PhiReads
        <4> QED BY <1>11, <4>3
      <3>7. PhiReads(g, a, i)
        BY <3>6 DEF PhiReads
      <3> QED BY <1>2, <1>13, <2>1, <2>4, <3>7, PhiLengths, PhiReadsFacts
    <2> QED BY <2>2, <2>3, <2>4
  <1> QED BY <1>2, <1>13, <1>14, <1>15, <1>16, <1>18, <1>19 DEF Sound, g

-----------------------------------------------------------------------------
(* remove_unreachable_blocks.  Blocks get new numbers and nothing else      *)
(* about them changes.                                                      *)
LEMMA NumberFacts ==
    ASSUME NEW N \in Nat, NEW K \in SUBSET (1..N)
    PROVE  LET m == Cardinality(K) a == Ascending(K) IN
           /\ \A p : NewNumber(K, p) \in Nat
           /\ \A k \in 1..m : NewNumber(K, a[k]) = k
           /\ \A i \in K : NewNumber(K, i) \in 1..m /\ a[NewNumber(K, i)] = i
  <1> DEFINE m == Cardinality(K)
             a == Ascending(K)
  <1>1. /\ m \in Nat /\ DOMAIN a = 1..m
        /\ \A i \in K : \E k \in DOMAIN a : a[k] = i
        /\ \A k \in DOMAIN a : a[k] \in K /\ Rank(K, a[k]) = k - 1
    BY AscendingFacts
  <1>2. IsFiniteSet(K)
    BY RankNumbers
  <1> HIDE DEF m, a
  <1>3. ASSUME NEW p PROVE NewNumber(K, p) \in Nat
    <2> DEFINE S == {i \in K : i <= p}
    <2>1. S \in SUBSET K
      OBVIOUS
    <2> HIDE DEF S
    <2>2. Cardinality(S) \in Nat
      BY <1>2, <2>1, FS_Subset, FS_CardinalityType
    <2> QED BY <2>2 DEF NewNumber, S
  <1>4. ASSUME NEW x \in K PROVE NewNumber(K, x) = Rank(K, x) + 1
    <2> DEFINE S == {j \in K : j < x}
    <2>1. S \in SUBSET K /\ x \notin S
      OBVIOUS
    <2>2. {i \in K : i <= x} = S \cup {x}
      <3>1. \A i \in K : i \in Int
        OBVIOUS
      <3>2. \A i \in K : i <= x <=> i < x \/ i = x
        BY <3>1
      <3>3. \A i : i \in {j \in K : j <= x} <=> i \in S \cup {x}
        BY <3>2
      <3> QED BY <3>3
    <2> HIDE DEF S
    <2>3. IsFiniteSet(S)
      BY <1>2, <2>1, FS_Subset
    <2>4. Cardinality(S \cup {x}) = Cardinality(S) + 1
      BY <2>1, <2>3, FS_AddElement
    <2> QED BY <2>2, <2>4 DEF NewNumber, Rank, S
  <1>5. ASSUME NEW k \in 1..m PROVE NewNumber(K, a[k]) = k
    <2>1. a[k] \in K /\ Rank(K, a[k]) = k - 1
      BY <1>1
    <2>2. NewNumber(K, a[k]) = Rank(K, a[k]) + 1
      BY <1>4, <2>1
    <2>3. k \in Int
      BY <1>1
    <2> QED BY <2>1, <2>2, <2>3
  <1>6. ASSUME NEW i \in K PROVE NewNumber(K, i) \in 1..m /\ a[NewNumber(K, i)] = i
    <2>1. PICK k \in 1..m : a[k] = i
      BY <1>1
    <2> QED BY <1>5, <2>1
  <1> QED BY <1>3, <1>5, <1>6 DEF m, a

LEMMA RenumberedFacts ==
    ASSUME NEW N \in Nat, NEW K \in SUBSET (1..N), NEW list \in Seq(Nat)
    PROVE  LET s == Renumbered(list, K) IN
           /\ s \in Seq(Nat) /\ Len(s) = Len(list) /\ DOMAIN s = DOMAIN list
           /\ \A k \in DOMAIN list : s[k] = NewNumber(K, list[k])
  <1> DEFINE s == [k \in DOMAIN list |-> NewNumber(K, list[k])]
             n == Len(list)
  <1>1. DOMAIN list = 1..n /\ n \in Nat
    OBVIOUS
  <1>2. \A p : NewNumber(K, p) \in Nat
    BY NumberFacts
  <1>3. s \in [1..n -> Nat] /\ DOMAIN s = DOMAIN list /\ \A k \in DOMAIN list : s[k] = NewNumber(K, list[k])
    BY <1>1, <1>2
  <1> HIDE DEF s, n
  <1>4. s \in Seq(Nat) /\ Len(s) = n
    BY <1>1, <1>3, SeqFacts
  <1> QED BY <1>3, <1>4 DEF s, n, Renumbered

LEMMA LivePhi ==
    ASSUME NEW N \in Nat, NEW K \in SUBSET (1..N), NEW phi \in InstShape, Len(phi.args) = Len(phi.preds),
           IsPhi(phi), NEW dead, Elements(phi.preds) \subseteq K \cup dead, K \cap dead = {}
    PROVE  LET new == LiveInst(phi, K, dead) IN
           /\ new \in InstShape /\ new.op = phi.op /\ new.result = phi.result /\ Len(new.args) = Len(new.preds)
           /\ Elements(new.preds) \subseteq 1..Cardinality(K)
           /\ \A n \in 1..Cardinality(K) : /\ \A v : Gets(new, n, v) <=> Gets(phi, Ascending(K)[n], v)
                                           /\ n \in Elements(new.preds) <=> Ascending(K)[n] \in Elements(phi.preds)
           /\ ListedOnce(phi, K) => NoRepeats(new.preds)
  <1> DEFINE less == Forget(phi, dead)
             s == Renumbered(less.preds, K)
             m == Cardinality(K)
             a == Ascending(K)
  <1>1. /\ less \in InstShape /\ less.op = phi.op /\ less.result = phi.result
        /\ Len(less.args) = Len(less.preds)
        /\ \A p, v : Gets(less, p, v) <=> Gets(phi, p, v) /\ p \notin dead
        /\ \A p : p \in Elements(less.preds) <=> p \in Elements(phi.preds) /\ p \notin dead
        /\ \A S : ListedOnce(phi, S) => ListedOnce(less, S)
    BY ForgetFacts
  <1>2. /\ \A k \in 1..m : NewNumber(K, a[k]) = k
        /\ \A i \in K : NewNumber(K, i) \in 1..m /\ a[NewNumber(K, i)] = i
    BY NumberFacts
  <1>3. \A k \in 1..m : a[k] \in K
    BY AscendingFacts
  <1>4. LiveInst(phi, K, dead) = [less EXCEPT !.preds = s]
    BY DEF LiveInst
  <1>5. less.preds \in Seq(Nat) /\ less = [op |-> less.op, result |-> less.result, args |-> less.args, preds |-> less.preds]
    BY <1>1 DEF InstShape
  <1>6. /\ s \in Seq(Nat) /\ Len(s) = Len(less.preds) /\ DOMAIN s = DOMAIN less.preds
        /\ \A k \in DOMAIN less.preds : s[k] = NewNumber(K, less.preds[k])
    <2> DEFINE preds == less.preds
    <2>1. preds \in Seq(Nat)
      BY <1>5
    <2> HIDE DEF preds
    <2>2. LET t == Renumbered(preds, K) IN
          /\ t \in Seq(Nat) /\ Len(t) = Len(preds) /\ DOMAIN t = DOMAIN preds
          /\ \A k \in DOMAIN preds : t[k] = NewNumber(K, preds[k])
      BY <2>1, RenumberedFacts
    <2> QED BY <2>2 DEF preds
  <1> DEFINE new == [less EXCEPT !.preds = s]
  <1> HIDE DEF less, s, m, a
  <1>7. new = [op |-> less.op, result |-> less.result, args |-> less.args, preds |-> s]
    BY <1>5
  <1>8. /\ new \in InstShape /\ new.op = phi.op /\ new.result = phi.result /\ new.args = less.args
        /\ new.preds = s /\ Len(new.args) = Len(new.preds)
    BY <1>1, <1>6, <1>7 DEF InstShape
  <1> HIDE DEF new
  <1>9. ASSUME NEW k \in DOMAIN less.preds
        PROVE  less.preds[k] \in K /\ less.preds[k] \in Elements(phi.preds) /\ s[k] \in 1..m /\ a[s[k]] = less.preds[k]
    <2>1. less.preds[k] \in Elements(less.preds)
      BY DEF Elements
    <2>2. less.preds[k] \in K /\ less.preds[k] \in Elements(phi.preds)
      BY <1>1, <2>1
    <2> QED BY <1>2, <1>6, <2>2
  <1>10. Elements(new.preds) \subseteq 1..m
    BY <1>6, <1>8, <1>9 DEF Elements
  <1>11. ASSUME NEW n \in 1..m, NEW v PROVE Gets(new, n, v) <=> Gets(phi, a[n], v)
    <2>1. Gets(new, n, v) <=> \E k \in DOMAIN less.preds : s[k] = n /\ less.args[k] = v
      BY <1>6, <1>8 DEF Gets
    <2>2. \A k \in DOMAIN less.preds : s[k] = n <=> less.preds[k] = a[n]
      BY <1>2, <1>6, <1>9
    <2>3. Gets(new, n, v) <=> Gets(less, a[n], v)
      BY <2>1, <2>2 DEF Gets
    <2> QED BY <1>1, <1>3, <2>3
  <1>12. ASSUME NEW n \in 1..m PROVE n \in Elements(new.preds) <=> a[n] \in Elements(phi.preds)
    <2>1. n \in Elements(new.preds) <=> \E k \in DOMAIN less.preds : s[k] = n
      BY <1>6, <1>8 DEF Elements
    <2>2. \A k \in DOMAIN less.preds : s[k] = n <=> less.preds[k] = a[n]
      BY <1>2, <1>6, <1>9
    <2>3. n \in Elements(new.preds) <=> a[n] \in Elements(less.preds)
      BY <2>1, <2>2 DEF Elements
    <2> QED BY <1>1, <1>3, <2>3
  <1>13. ListedOnce(phi, K) => NoRepeats(new.preds)
    <2> SUFFICES ASSUME ListedOnce(phi, K), NEW j \in DOMAIN less.preds, NEW k \in DOMAIN less.preds, s[j] = s[k]
                 PROVE  j = k
      BY <1>6, <1>8 DEF NoRepeats
    <2>1. less.preds[j] = less.preds[k] /\ less.preds[j] \in K
      BY <1>9
    <2>2. ListedOnce(less, K)
      BY <1>1
    <2> QED BY <2>1, <2>2 DEF ListedOnce
  <1>14. LiveInst(phi, K, dead) = new
    BY <1>4 DEF new
  <1> QED BY <1>8, <1>10, <1>11, <1>12, <1>13, <1>14 DEF m, a

Lost(f) == UNION {Results(f, b) : b \in Blocks(f) \ Reachable(f)}

LEMMA LiveTermFacts ==
    ASSUME NEW N \in Nat, NEW K \in SUBSET (1..N), NEW term \in [args : Seq(Nat), succ : Seq(Nat)],
           Elements(term.succ) \subseteq K
    PROVE  LET new == LiveTerm(term, K) IN
           /\ new \in [args : Seq(Nat), succ : Seq(Nat)] /\ new.args = term.args /\ Len(new.succ) = Len(term.succ)
           /\ Elements(new.succ) \subseteq 1..Cardinality(K)
           /\ \A n \in 1..Cardinality(K) : n \in Elements(new.succ) <=> Ascending(K)[n] \in Elements(term.succ)
  <1> DEFINE succ == term.succ
             s == Renumbered(succ, K)
             new == [term EXCEPT !.succ = s]
             m == Cardinality(K)
             a == Ascending(K)
  <1>1. succ \in Seq(Nat)
    OBVIOUS
  <1> HIDE DEF succ
  <1>2. /\ s \in Seq(Nat) /\ Len(s) = Len(succ) /\ DOMAIN s = DOMAIN succ
        /\ \A k \in DOMAIN succ : s[k] = NewNumber(K, succ[k])
    BY <1>1, RenumberedFacts
  <1>3. /\ \A k \in 1..m : NewNumber(K, a[k]) = k
        /\ \A i \in K : NewNumber(K, i) \in 1..m /\ a[NewNumber(K, i)] = i
    BY NumberFacts
  <1> HIDE DEF s, m, a
  <1>4. /\ new \in [args : Seq(Nat), succ : Seq(Nat)] /\ new.args = term.args /\ new.succ = s
    BY <1>2
  <1>5. \A k \in DOMAIN succ : succ[k] \in K /\ s[k] \in 1..m /\ a[s[k]] = succ[k]
    <2>1. \A k \in DOMAIN succ : succ[k] \in Elements(succ)
      BY DEF Elements
    <2> QED BY <1>2, <1>3, <2>1 DEF succ
  <1>6. Elements(s) \subseteq 1..m
    BY <1>2, <1>5 DEF Elements
  <1>7. ASSUME NEW n \in 1..m PROVE n \in Elements(s) <=> a[n] \in Elements(succ)
    <2>1. \A k \in DOMAIN succ : s[k] = n <=> succ[k] = a[n]
      BY <1>2, <1>3, <1>5
    <2> QED BY <1>2, <2>1 DEF Elements
  <1>8. new = LiveTerm(term, K)
    BY DEF LiveTerm, s, succ
  <1> HIDE DEF new
  <1> QED BY <1>2, <1>4, <1>6, <1>7, <1>8 DEF succ, m, a

LEMMA SurvivorFacts ==
    ASSUME NEW f, Shape(f)
    PROVE  LET m == Cardinality(Reachable(f)) a == Ascending(Reachable(f)) IN
           /\ m \in Nat /\ m > 0 /\ DOMAIN a = 1..m /\ Reachable(f) \subseteq Blocks(f)
           /\ \A n \in 1..m : a[n] \in Reachable(f) /\ NewNumber(Reachable(f), a[n]) = n
           /\ \A b \in Reachable(f) : NewNumber(Reachable(f), b) \in 1..m /\ a[NewNumber(Reachable(f), b)] = b
           /\ Reachable(f) \in SUBSET (1..Len(f.blocks)) /\ Len(f.blocks) \in Nat
  <1> DEFINE K == Reachable(f)
             N == Len(f.blocks)
             m == Cardinality(K)
             a == Ascending(K)
  <1>1. K \subseteq Blocks(f) /\ Entry \in K
    BY AvoidingFacts
  <1>2. N \in Nat /\ K \in SUBSET (1..N)
    BY <1>1, ShapeFacts
  <1> HIDE DEF K, N
  <1>3. /\ m \in Nat /\ DOMAIN a = 1..m
        /\ \A k \in DOMAIN a : a[k] \in K
    BY <1>2, AscendingFacts
  <1>4. /\ \A k \in 1..m : NewNumber(K, a[k]) = k
        /\ \A i \in K : NewNumber(K, i) \in 1..m /\ a[NewNumber(K, i)] = i
    BY <1>2, NumberFacts
  <1> HIDE DEF m, a
  <1>5. m > 0
    BY <1>1, <1>3, <1>4
  <1> QED BY <1>1, <1>2, <1>3, <1>4, <1>5 DEF K, N, m, a

LEMMA LiveView ==
    ASSUME NEW f, Shape(f), Constructed(f)
    PROVE  LET g == OnlyReachable(f)
               K == Reachable(f)
               m == Cardinality(K)
               a == Ascending(K)
           IN
           /\ Shape(g) /\ g.params = f.params /\ Blocks(g) = 1..m /\ Values(g) = Values(f)
           /\ \A v \in Values(f) : g.kind[v] = IF v \in Lost(f) THEN "const" ELSE f.kind[v]
           /\ \A n \in 1..m :
                 /\ DOMAIN Insts(g, n) = DOMAIN Insts(f, a[n]) /\ End(g, n) = End(f, a[n])
                 /\ \A i \in DOMAIN Insts(g, n) :
                       Insts(g, n)[i] = LiveInst(Insts(f, a[n])[i], K, Blocks(f) \ K)
                 /\ Term(g, n) = LiveTerm(Term(f, a[n]), K)
  <1> DEFINE g == OnlyReachable(f)
             K == Reachable(f)
             N == Len(f.blocks)
             m == Cardinality(K)
             a == Ascending(K)
             inst(b, i) == LiveInst(Insts(f, b)[i], K, Blocks(f) \ K)
             insts(b) == [i \in DOMAIN Insts(f, b) |-> inst(b, i)]
             block(b) == [insts |-> insts(b), term |-> LiveTerm(Term(f, b), K)]
             kinds == [v \in Values(f) |-> IF v \in Lost(f) THEN "const" ELSE f.kind[v]]
             blocks == [n \in DOMAIN a |-> block(a[n])]
             depths == [n \in DOMAIN a |-> f.depth[a[n]]]
  <1>1. g = [f EXCEPT !.kind = kinds, !.blocks = blocks, !.depth = depths]
    BY DEF OnlyReachable, Lost
  <1>2. /\ m \in Nat /\ m > 0 /\ DOMAIN a = 1..m /\ K \subseteq Blocks(f)
        /\ \A n \in 1..m : a[n] \in K
        /\ K \in SUBSET (1..N) /\ N \in Nat
    BY SurvivorFacts
  <1>3. \A b \in K : Successors(f, b) \subseteq K
    BY AvoidingFacts
  <1> HIDE DEF K, m, a, N
  <1>4. g.kind = kinds /\ g.blocks = blocks /\ g.params = f.params /\ DOMAIN g = DOMAIN f
    <2>1. {"kind", "params", "blocks"} \subseteq DOMAIN f
      BY DEF Shape
    <2> HIDE DEF g, kinds, blocks, depths
    <2> QED BY <1>1, <2>1
  <1>5. ASSUME NEW b \in K, NEW i \in DOMAIN Insts(f, b) PROVE inst(b, i) \in InstShape
    <2> DEFINE old == Insts(f, b)[i]
               dead == Blocks(f) \ K
    <2>1. b \in Blocks(f)
      BY <1>2
    <2>2. old \in InstShape
      BY <2>1, InstFacts
    <2>3. CASE ~IsPhi(old)
      BY <2>2, <2>3 DEF LiveInst
    <2>4. CASE IsPhi(old)
      <3>1. Len(old.args) = Len(old.preds) /\ Elements(old.preds) \subseteq Blocks(f)
        BY <2>1, <2>4, PhiLengths
      <3>2. Elements(old.preds) \subseteq K \cup dead /\ K \cap dead = {}
        BY <3>1
      <3>3. inst(b, i) = LiveInst(old, K, dead)
        OBVIOUS
      <3> HIDE DEF old, dead, inst
      <3>4. LiveInst(old, K, dead) \in InstShape
        BY ONLY <1>2, <2>2, <2>4, <3>1, <3>2, LivePhi
      <3> QED BY <3>3, <3>4
    <2> QED BY <2>3, <2>4
  <1>6. ASSUME NEW b \in K
        PROVE  /\ insts(b) \in Seq(InstShape) /\ Len(insts(b)) = Len(Insts(f, b)) /\ DOMAIN insts(b) = DOMAIN Insts(f, b)
               /\ LiveTerm(Term(f, b), K) \in [args : Seq(Nat), succ : Seq(Nat)]
               /\ Elements(LiveTerm(Term(f, b), K).succ) \subseteq 1..m
    <2>1. /\ DOMAIN Insts(f, b) = 1..Len(Insts(f, b)) /\ Len(Insts(f, b)) \in Nat
          /\ Term(f, b) \in [args : Seq(Nat), succ : Seq(Nat)]
      BY <1>2, BlockFacts
    <2>2. /\ insts(b) \in Seq(InstShape) /\ Len(insts(b)) = Len(Insts(f, b)) /\ DOMAIN insts(b) = DOMAIN Insts(f, b)
      <3> DEFINE s == insts(b)
                 n == Len(Insts(f, b))
      <3>1. s \in [1..n -> InstShape] /\ n \in Nat /\ DOMAIN s = DOMAIN Insts(f, b)
        <4> HIDE DEF inst
        <4> QED BY <1>5, <2>1
      <3> HIDE DEF s, n
      <3>2. s \in Seq(InstShape) /\ Len(s) = n
        BY <3>1, SeqFacts
      <3> QED BY <3>1, <3>2 DEF s, n
    <2>3. Elements(Term(f, b).succ) \subseteq K
      BY <1>3 DEF Successors
    <2>4. /\ LiveTerm(Term(f, b), K) \in [args : Seq(Nat), succ : Seq(Nat)]
          /\ Elements(LiveTerm(Term(f, b), K).succ) \subseteq 1..m
      <3> DEFINE term == Term(f, b)
      <3> HIDE DEF term
      <3>1. term \in [args : Seq(Nat), succ : Seq(Nat)] /\ Elements(term.succ) \subseteq K
        BY <2>1, <2>3 DEF term
      <3>2. /\ LiveTerm(term, K) \in [args : Seq(Nat), succ : Seq(Nat)]
            /\ Elements(LiveTerm(term, K).succ) \subseteq 1..Cardinality(K)
        BY ONLY <1>2, <3>1, LiveTermFacts
      <3> QED BY <3>2 DEF term, m
    <2> QED BY <2>2, <2>4
  <1>7. Blocks(g) = 1..m /\ \A n \in 1..m : Insts(g, n) = insts(a[n]) /\ Term(g, n) = LiveTerm(Term(f, a[n]), K)
    <2> DEFINE end(b) == LiveTerm(Term(f, b), K)
    <2>1. \A b : block(b) = [insts |-> insts(b), term |-> end(b)]
      OBVIOUS
    <2> HIDE DEF end, insts, block, g
    <2>2. g.blocks = [n \in 1..m |-> block(a[n])]
      BY <1>2, <1>4
    <2> QED BY <2>1, <2>2 DEF Blocks, Insts, Term, end
  <1>8. Values(g) = Values(f) /\ \A v \in Values(f) : g.kind[v] = IF v \in Lost(f) THEN "const" ELSE f.kind[v]
    BY <1>4 DEF Values
  <1>9. g.blocks \in Seq(BlockShape) /\ Len(g.blocks) > 0
    <2>1. \A b \in K : block(b) \in BlockShape
      BY <1>6 DEF BlockShape
    <2> HIDE DEF block
    <2>2. g.blocks \in [1..m -> BlockShape]
      BY <1>2, <1>4, <2>1
    <2> QED BY <1>2, <2>2, SeqFacts
  <1>10. g.kind \in Seq(Kinds)
    <2>1. f.kind \in Seq(Kinds) /\ Values(f) = 1..Len(f.kind) /\ Len(f.kind) \in Nat
      BY ShapeFacts DEF Shape
    <2>2. \A v \in Values(f) : f.kind[v] \in Kinds
      BY ShapeFacts
    <2> DEFINE n == Len(f.kind)
    <2>3. kinds \in [1..n -> Kinds] /\ n \in Nat
      BY <2>1, <2>2 DEF Kinds
    <2> HIDE DEF n, kinds
    <2> QED BY <1>4, <2>3, SeqFacts
  <1>11. Shape(g)
    <2>1. {"kind", "params", "blocks"} \subseteq DOMAIN g
      BY <1>4 DEF Shape
    <2>2. \A n \in Blocks(g) : Successors(g, n) \subseteq Blocks(g)
      <3> HIDE DEF g
      <3> QED BY <1>2, <1>6, <1>7 DEF Successors
    <2> HIDE DEF g
    <2> QED BY <1>9, <1>10, <2>1, <2>2 DEF Shape
  <1>12. ASSUME NEW n \in 1..m
         PROVE  /\ DOMAIN Insts(g, n) = DOMAIN Insts(f, a[n]) /\ End(g, n) = End(f, a[n])
                /\ \A i \in DOMAIN Insts(g, n) : Insts(g, n)[i] = inst(a[n], i)
                /\ Term(g, n) = LiveTerm(Term(f, a[n]), K)
    <2>1. a[n] \in K /\ Insts(g, n) = insts(a[n]) /\ Term(g, n) = LiveTerm(Term(f, a[n]), K)
      BY <1>2, <1>7
    <2>2. \A i \in DOMAIN Insts(f, a[n]) : insts(a[n])[i] = inst(a[n], i)
      OBVIOUS
    <2>3. DOMAIN insts(a[n]) = DOMAIN Insts(f, a[n]) /\ Len(insts(a[n])) = Len(Insts(f, a[n]))
      BY <1>6, <2>1
    <2> HIDE DEF g, inst, insts
    <2> QED BY <2>1, <2>2, <2>3 DEF End
  <1> HIDE DEF g
  <1> QED BY <1>4, <1>7, <1>8, <1>11, <1>12 DEF g, K, m, a

LEMMA LiveSound ==
    ASSUME NEW f, Sound(f)
    PROVE  LET g == OnlyReachable(f) IN Sound(g) /\ Reachable(g) = Blocks(g)
  <1> DEFINE g == OnlyReachable(f)
             K == Reachable(f)
             m == Cardinality(K)
             a == Ascending(K)
             N == Len(f.blocks)
             dead == Blocks(f) \ K
  <1>0. /\ Shape(f) /\ Constructed(f) /\ ValuesChecked(f) /\ SingleAssignment(f) /\ Predecessors(f, Entry) = {}
        /\ ParamsListed(f) /\ LivePhisFit(f) /\ LiveReads(f) /\ Once(f)
    BY SoundFacts, OnceFacts
  <1>1. /\ m \in Nat /\ m > 0 /\ K \subseteq Blocks(f)
        /\ \A n \in 1..m : a[n] \in K /\ NewNumber(K, a[n]) = n
        /\ \A b \in K : NewNumber(K, b) \in 1..m /\ a[NewNumber(K, b)] = b
        /\ K \in SUBSET (1..N) /\ N \in Nat
    BY <1>0, SurvivorFacts
  <1>2. /\ Shape(g) /\ g.params = f.params /\ Blocks(g) = 1..m /\ Values(g) = Values(f)
        /\ \A v \in Values(f) : g.kind[v] = IF v \in Lost(f) THEN "const" ELSE f.kind[v]
        /\ \A n \in 1..m :
              /\ DOMAIN Insts(g, n) = DOMAIN Insts(f, a[n]) /\ End(g, n) = End(f, a[n])
              /\ \A i \in DOMAIN Insts(g, n) : Insts(g, n)[i] = LiveInst(Insts(f, a[n])[i], K, dead)
              /\ Term(g, n) = LiveTerm(Term(f, a[n]), K)
    BY <1>0, LiveView
  <1>3. /\ \A b \in K : Successors(f, b) \subseteq K
        /\ Entry \in K
    BY <1>0, AvoidingFacts
  <1> HIDE DEF g, K, m, a, N, dead
  <1>4. \A n \in 1..m : a[n] \in K /\ a[n] \in Blocks(f)
    BY <1>1
  <1>5. \A n, k \in 1..m : a[n] = a[k] => n = k
    BY <1>1
  <1>6. Entry \in 1..m /\ a[Entry] = Entry
    <2>1. Blocks(g) = 1..m /\ Entry \in Blocks(g)
      BY <1>2, ShapeFacts
    <2>2. PICK n \in 1..m : a[n] = Entry
      BY <1>1, <1>3
    <2>3. n = Entry
      <3>1. NewNumber(K, Entry) = n
        BY <1>1, <2>2
      <3>2. {b \in K : b <= Entry} = {Entry}
        <4>1. \A b \in K : b \in Nat /\ b >= 1
          BY <1>1
        <4>2. \A b \in K : b <= Entry <=> b = Entry
          BY <4>1 DEF Entry
        <4> QED BY <1>3, <4>2
      <3>3. Cardinality({Entry}) = 1
        BY FS_Singleton
      <3>4. NewNumber(K, Entry) = Cardinality({b \in K : b <= Entry})
        BY DEF NewNumber
      <3> QED BY ONLY <3>1, <3>2, <3>3, <3>4 DEF Entry
    <2> QED BY <2>1, <2>2, <2>3
  (* Terminators and edges. *)
  <1>7. ASSUME NEW n \in 1..m
        PROVE  /\ Term(g, n).args = Term(f, a[n]).args /\ Len(Term(g, n).succ) = Len(Term(f, a[n]).succ)
               /\ Successors(g, n) \subseteq 1..m
               /\ \A k \in 1..m : k \in Successors(g, n) <=> a[k] \in Successors(f, a[n])
    <2> DEFINE term == Term(f, a[n])
    <2>1. term \in [args : Seq(Nat), succ : Seq(Nat)]
      BY <1>0, <1>4, BlockFacts
    <2>2. Elements(term.succ) \subseteq K
      BY <1>3, <1>4 DEF Successors
    <2>3. Term(g, n) = LiveTerm(term, K)
      BY <1>2
    <2>4. Successors(f, a[n]) = Elements(term.succ)
      BY DEF Successors
    <2> HIDE DEF term
    <2> DEFINE new == LiveTerm(term, K)
    <2>5. /\ new.args = term.args /\ Len(new.succ) = Len(term.succ)
          /\ Elements(new.succ) \subseteq 1..Cardinality(K)
          /\ \A k \in 1..Cardinality(K) : k \in Elements(new.succ) <=> Ascending(K)[k] \in Elements(term.succ)
      <3>1. N \in Nat /\ K \in SUBSET (1..N)
        BY <1>1
      <3> QED BY ONLY <3>1, <2>1, <2>2, LiveTermFacts
    <2> HIDE DEF new
    <2> QED BY <2>3, <2>4, <2>5 DEF Successors, new, term, m, a
  (* Ways. *)
  <1>8. \A n \in Blocks(g) : n \in Reachable(g)
    <2> DEFINE S == {a[n] : n \in Reachable(g)}
    <2>1. Entry \in Reachable(g) /\ Reachable(g) \subseteq 1..m /\ \A c \in Reachable(g) : Successors(g, c) \subseteq Reachable(g)
      BY <1>2, AvoidingFacts
    <2>2. Entry \in S
      BY <1>6, <2>1
    <2>3. ASSUME NEW c \in S \cap Blocks(f) PROVE Successors(f, c) \subseteq S
      <3>1. PICK n \in Reachable(g) : c = a[n]
        OBVIOUS
      <3>2. ASSUME NEW t \in Successors(f, c) PROVE t \in S
        <4>1. t \in K /\ n \in 1..m
          BY <1>3, <1>4, <2>1, <3>1
        <4>2. NewNumber(K, t) \in 1..m /\ a[NewNumber(K, t)] = t
          BY <1>1, <4>1
        <4>3. NewNumber(K, t) \in Successors(g, n)
          BY <1>7, <3>1, <3>2, <4>1, <4>2
        <4>4. NewNumber(K, t) \in Reachable(g)
          BY <2>1, <4>3
        <4> QED BY <4>2, <4>4
      <3> QED BY <3>2
    <2> HIDE DEF S
    <2>4. K \subseteq S
      BY <1>0, <2>2, <2>3, AvoidingFacts DEF K
    <2>5. ASSUME NEW n \in 1..m PROVE n \in Reachable(g)
      <3>1. PICK k \in Reachable(g) : a[n] = a[k]
        BY <1>4, <2>4 DEF S
      <3> QED BY <1>5, <2>1, <3>1
    <2> QED BY <1>2, <2>5
  <1>9. Reachable(g) = Blocks(g)
    BY <1>2, <1>8, AvoidingFacts
  <1>10. ASSUME NEW c \in 1..m, NEW x \in Avoiding(g, c) PROVE a[x] \in Avoiding(f, a[c])
    <2> DEFINE S == {n \in 1..m : a[n] \in Avoiding(f, a[c])}
    <2>1. /\ a[c] # Entry => Entry \in Avoiding(f, a[c])
          /\ \A d \in Avoiding(f, a[c]) : Successors(f, d) \ {a[c]} \subseteq Avoiding(f, a[c])
      BY <1>0, AvoidingFacts DEF Closed
    <2>2. c # Entry => Entry \in S
      BY <1>5, <1>6, <2>1
    <2>3. ASSUME NEW n \in S \cap Blocks(g) PROVE Successors(g, n) \ {c} \subseteq S
      <3> SUFFICES ASSUME NEW k \in Successors(g, n), k # c PROVE k \in S
        OBVIOUS
      <3>1. k \in 1..m /\ a[k] \in Successors(f, a[n]) /\ a[k] # a[c]
        BY <1>5, <1>7
      <3> QED BY <2>1, <3>1
    <2> HIDE DEF S
    <2>4. Closed(g, S, c)
      BY <2>3 DEF Closed
    <2>5. Avoiding(g, c) \subseteq S
      BY <1>2, <2>2, <2>4, AvoidingFacts
    <2> QED BY <1>10, <2>5 DEF S
  (* Instructions. *)
  <1>11. ASSUME NEW n \in 1..m, NEW i \in DOMAIN Insts(f, a[n])
         PROVE  LET old == Insts(f, a[n])[i]
                    new == Insts(g, n)[i]
                IN
                /\ new.op = old.op /\ new.result = old.result
                /\ ~IsPhi(old) => new = old
                /\ IsPhi(old) =>
                      /\ Len(old.args) = Len(old.preds) /\ old \in InstShape /\ new \in InstShape
                      /\ Len(new.args) = Len(new.preds) /\ Elements(new.preds) \subseteq 1..m
                      /\ \A k \in 1..m : /\ \A v : Gets(new, k, v) <=> Gets(old, a[k], v)
                                         /\ k \in Elements(new.preds) <=> a[k] \in Elements(old.preds)
                      /\ ListedOnce(old, K) => NoRepeats(new.preds)
    <2> DEFINE old == Insts(f, a[n])[i]
               new == LiveInst(old, K, dead)
    <2>1. Insts(g, n)[i] = new
      BY <1>2
    <2>2. old \in InstShape
      BY <1>0, <1>4, InstFacts
    <2>3. CASE ~IsPhi(old)
      BY <2>1, <2>3 DEF LiveInst
    <2>4. CASE IsPhi(old)
      <3>1. Len(old.args) = Len(old.preds) /\ Elements(old.preds) \subseteq Blocks(f)
        BY <1>0, <1>4, <2>4, PhiLengths
      <3>2. Elements(old.preds) \subseteq K \cup dead /\ K \cap dead = {}
        BY <3>1 DEF dead
      <3> HIDE DEF old
      <3>3. /\ new \in InstShape /\ new.op = old.op /\ new.result = old.result /\ Len(new.args) = Len(new.preds)
            /\ Elements(new.preds) \subseteq 1..Cardinality(K)
            /\ \A k \in 1..Cardinality(K) : /\ \A v : Gets(new, k, v) <=> Gets(old, Ascending(K)[k], v)
                                            /\ k \in Elements(new.preds) <=> Ascending(K)[k] \in Elements(old.preds)
            /\ ListedOnce(old, K) => NoRepeats(new.preds)
        BY ONLY <1>1, <2>2, <2>4, <3>1, <3>2, LivePhi
      <3> HIDE DEF new
      <3> QED BY <2>1, <2>2, <2>4, <3>1, <3>3 DEF old, m, a
    <2> QED BY <2>3, <2>4
  <1>12. /\ \A v \in Values(f) : IsInst(g, v) <=> IsInst(f, v) /\ v \notin Lost(f)
         /\ NoValue \notin Values(f)
         /\ \A n \in 1..m : DOMAIN Insts(g, n) = DOMAIN Insts(f, a[n]) /\ End(g, n) = End(f, a[n])
    BY <1>0, <1>2, ShapeFacts DEF IsInst
  <1>13. ASSUME NEW b \in K, NEW i \in DOMAIN Insts(f, b) PROVE Insts(f, b)[i].result \notin Lost(f)
    <2> SUFFICES ASSUME Insts(f, b)[i].result \in Lost(f) PROVE FALSE
      OBVIOUS
    <2>1. PICK c \in Blocks(f) \ K : Insts(f, b)[i].result \in Results(f, c)
      BY DEF Lost, K
    <2>2. PICK j \in DOMAIN Insts(f, c) : Insts(f, c)[j].result = Insts(f, b)[i].result /\ Insts(f, b)[i].result # NoValue
      BY <2>1 DEF Results
    <2>3. b \in Blocks(f) /\ b # c
      BY <1>1, <2>1
    <2> QED BY <1>0, <2>2, <2>3 DEF Once
  <1>14. Constructed(g) /\ ValuesChecked(g)
    <2> SUFFICES ASSUME NEW n \in 1..m
                 PROVE  /\ Len(Term(g, n).succ) = 2 => Term(g, n).args # << >>
                        /\ Elements(Term(g, n).args) \subseteq Values(f)
                        /\ \A i \in DOMAIN Insts(g, n) :
                              /\ InstConstructed(g, Insts(g, n)[i])
                              /\ Uses(Insts(g, n)[i]) \subseteq Values(f)
                              /\ Insts(g, n)[i].result \in IF IsPhi(Insts(g, n)[i]) THEN Values(f) ELSE Values(f) \cup {NoValue}
                              /\ Insts(g, n)[i].op = "nop" => Insts(g, n)[i] = Nop
      BY <1>2 DEF Constructed, ValuesChecked
    <2>1. /\ Len(Term(g, n).succ) = 2 => Term(g, n).args # << >>
          /\ Elements(Term(g, n).args) \subseteq Values(f)
      BY <1>0, <1>4, <1>7 DEF Constructed, ValuesChecked
    <2>2. ASSUME NEW i \in DOMAIN Insts(g, n)
          PROVE  /\ InstConstructed(g, Insts(g, n)[i])
                 /\ Uses(Insts(g, n)[i]) \subseteq Values(f)
                 /\ Insts(g, n)[i].result \in IF IsPhi(Insts(g, n)[i]) THEN Values(f) ELSE Values(f) \cup {NoValue}
                 /\ Insts(g, n)[i].op = "nop" => Insts(g, n)[i] = Nop
      <3> DEFINE old == Insts(f, a[n])[i]
                 new == Insts(g, n)[i]
      <3>1. i \in DOMAIN Insts(f, a[n])
        BY <1>12
      <3>2. /\ InstConstructed(f, old)
            /\ Uses(old) \subseteq Values(f)
            /\ old.result \in IF IsPhi(old) THEN Values(f) ELSE Values(f) \cup {NoValue}
            /\ old.op = "nop" => old = Nop
        BY <1>0, <1>4, <3>1 DEF Constructed, ValuesChecked
      <3>3. CASE ~IsPhi(old)
        <4>1. new = old
          BY <1>11, <3>1, <3>3
        <4> HIDE DEF old, new
        <4>2. InstConstructed(g, new)
          BY <3>2, <3>3, <4>1 DEF InstConstructed
        <4>3. Uses(new) \subseteq Values(f) /\ (new.op = "nop" => new = Nop)
              /\ new.result \in IF IsPhi(new) THEN Values(f) ELSE Values(f) \cup {NoValue}
          BY <3>2, <4>1
        <4> QED BY <4>2, <4>3 DEF new
      <3>4. CASE IsPhi(old)
        <4>1. /\ new.op = old.op /\ new.result = old.result
              /\ Len(old.args) = Len(old.preds) /\ old \in InstShape /\ new \in InstShape
              /\ Len(new.args) = Len(new.preds) /\ Elements(new.preds) \subseteq 1..m
              /\ \A k \in 1..m : \A v : Gets(new, k, v) <=> Gets(old, a[k], v)
          BY <1>11, <3>1, <3>4
        <4> HIDE DEF old, new
        <4>2. InstConstructed(g, new)
          BY <1>2, <3>2, <3>4, <4>1 DEF InstConstructed, IsPhi, BinaryOps
        <4>3. ASSUME NEW v \in Uses(new) PROVE v \in Values(f)
          <5>1. PICK p : Gets(new, p, v)
            BY <4>1, GetsFacts
          <5>2. p \in Elements(new.preds)
            BY <4>1, <5>1, GetsFacts
          <5>3. Gets(old, a[p], v)
            BY <4>1, <5>1, <5>2
          <5>4. v \in Uses(old)
            BY <4>1, <5>3, GetsFacts
          <5> QED BY <3>2, <5>4
        <4>4. (new.op = "nop" => new = Nop) /\ new.result \in IF IsPhi(new) THEN Values(f) ELSE Values(f) \cup {NoValue}
          BY <3>2, <3>4, <4>1 DEF IsPhi
        <4> QED BY <4>2, <4>3, <4>4 DEF new
      <3> QED BY <3>3, <3>4
    <2> QED BY <2>1, <2>2
  <1>15. SingleAssignment(g)
    <2> SUFFICES ASSUME NEW n \in 1..m, NEW k \in 1..m,
                        NEW i \in DOMAIN Insts(g, n), NEW j \in DOMAIN Insts(g, k),
                        Insts(g, n)[i].result # NoValue
                 PROVE  /\ IsInst(g, Insts(g, n)[i].result)
                        /\ Insts(g, n)[i].result = Insts(g, k)[j].result => n = k /\ i = j
      <3>1. Shape(g) /\ Blocks(g) = 1..m
        BY <1>2
      <3>2. SUFFICES Once(g)
        BY <3>1, OnceFacts
      <3> QED BY <3>1 DEF Once
    <2>1. i \in DOMAIN Insts(f, a[n]) /\ j \in DOMAIN Insts(f, a[k])
      BY <1>12
    <2>2. Insts(g, n)[i].result = Insts(f, a[n])[i].result /\ Insts(g, k)[j].result = Insts(f, a[k])[j].result
      BY <1>11, <2>1
    <2>3. /\ IsInst(f, Insts(f, a[n])[i].result)
          /\ Insts(f, a[n])[i].result = Insts(f, a[k])[j].result => a[n] = a[k] /\ i = j
      BY <1>0, <1>4, <2>1, <2>2 DEF Once
    <2>4. Insts(f, a[n])[i].result \in Values(f)
      <3>1. Insts(f, a[n])[i].result \in Values(f) \cup {NoValue}
        BY <1>0, <1>4, <2>1 DEF ValuesChecked
      <3> QED BY <2>2, <3>1
    <2>5. Insts(f, a[n])[i].result \notin Lost(f)
      BY <1>4, <1>13, <2>1
    <2> QED BY <1>5, <1>12, <2>2, <2>3, <2>4, <2>5
  <1>16. ParamsListed(g)
    <2>1. \A v \in Lost(f) : IsInst(f, v)
      <3> SUFFICES ASSUME NEW v \in Lost(f) PROVE IsInst(f, v)
        OBVIOUS
      <3>1. PICK c \in Blocks(f) : v \in Results(f, c)
        BY DEF Lost
      <3>2. PICK j \in DOMAIN Insts(f, c) : Insts(f, c)[j].result = v /\ v # NoValue
        BY <3>1 DEF Results
      <3> QED BY <1>0, <3>2 DEF Once
    <2>2. \A v \in Values(f) : g.kind[v] = "param" <=> f.kind[v] = "param"
      BY <1>2, <2>1 DEF IsInst
    <2> QED BY <1>0, <1>2, <2>2 DEF ParamsListed
  <1>17. Predecessors(g, Entry) = {}
    <2> SUFFICES ASSUME NEW n \in 1..m, Entry \in Successors(g, n) PROVE FALSE
      BY <1>2 DEF Predecessors
    <2>1. Entry \in Successors(f, a[n])
      BY <1>6, <1>7
    <2> QED BY <1>0, <1>4, <2>1 DEF Predecessors
  <1>18. LivePhisFit(g)
    <2> SUFFICES ASSUME NEW n \in 1..m, NEW i \in DOMAIN Insts(g, n), IsPhi(Insts(g, n)[i])
                 PROVE  PhiFits(g, n, i)
      BY <1>2, <1>9 DEF LivePhisFit
    <2> DEFINE old == Insts(f, a[n])[i]
               new == Insts(g, n)[i]
    <2>1. i \in DOMAIN Insts(f, a[n]) /\ a[n] \in K /\ a[n] \in Blocks(f)
      BY <1>4, <1>12
    <2>2. IsPhi(old)
      BY <1>11, <2>1 DEF IsPhi
    <2>3. PhiFits(f, a[n], i)
      BY <1>0, <2>1, <2>2 DEF LivePhisFit, K
    <2>4. /\ a[n] # Entry
          /\ \A j \in 1..i : Insts(f, a[n])[j].op \in {"phi", "nop"}
          /\ \A p \in K : p \in Elements(old.preds) <=> a[n] \in Successors(f, p)
          /\ ListedOnce(old, K)
      BY <2>3 DEF PhiFits, ListedOnce, K
    <2>5. \A j \in 1..i : Insts(g, n)[j].op \in {"phi", "nop"}
      <3>1. \A j \in 1..i : j \in DOMAIN Insts(f, a[n])
        BY <1>0, <2>1, InstFacts, BlockFacts
      <3> QED BY <1>11, <2>4, <3>1
    <2>6. n # Entry
      BY <1>6, <2>4
    <2>7. ASSUME NEW p \in 1..m PROVE p \in Elements(new.preds) <=> n \in Successors(g, p)
      <3>1. p \in Elements(new.preds) <=> a[p] \in Elements(old.preds)
        BY <1>11, <2>1, <2>2
      <3>2. a[p] \in Elements(old.preds) <=> a[n] \in Successors(f, a[p])
        BY <1>4, <2>4
      <3> QED BY <1>7, <3>1, <3>2
    <2>8. NoRepeats(new.preds)
      BY <1>11, <2>1, <2>2, <2>4
    <2> QED BY <1>2, <1>9, <2>5, <2>6, <2>7, <2>8 DEF PhiFits, NoRepeats
  (* Reading. *)
  <1>19. ASSUME NEW v \in Values(f), NEW n \in 1..m, NEW i, MayRead(f, v, a[n], i) PROVE MayRead(g, v, n, i)
    <2> SUFFICES ASSUME IsInst(g, v)
                 PROVE  \E d \in Blocks(g) : \E k \in DOMAIN Insts(g, d) : Passes(g, v, n, i, d, k)
      BY DEF MayRead
    <2>1. IsInst(f, v) /\ v \notin Lost(f) /\ v # NoValue
      BY <1>12
    <2>2. PICK c \in Blocks(f) : \E k \in DOMAIN Insts(f, c) : Passes(f, v, a[n], i, c, k)
      BY <1>19, <2>1 DEF MayRead
    <2>3. PICK k \in DOMAIN Insts(f, c) : Passes(f, v, a[n], i, c, k)
      BY <2>2
    <2>4. Insts(f, c)[k].result = v /\ a[n] \notin Avoiding(f, c) /\ (c = a[n] => k < i)
      BY <2>3 DEF Passes
    <2>5. c \in K
      <3> SUFFICES ASSUME c \notin K PROVE FALSE
        OBVIOUS
      <3>1. v \in Results(f, c)
        BY <2>1, <2>4 DEF Results
      <3> QED BY <2>1, <3>1 DEF Lost, K
    <2> DEFINE d == NewNumber(K, c)
    <2>6. d \in 1..m /\ a[d] = c
      BY <1>1, <2>5
    <2> HIDE DEF d
    <2>7. n \notin Avoiding(g, d)
      BY <1>10, <2>4, <2>6
    <2>8. k \in DOMAIN Insts(g, d) /\ Insts(g, d)[k].result = v
      BY <1>11, <1>12, <2>4, <2>6
    <2>9. Passes(g, v, n, i, d, k)
      BY <1>2, <1>5, <2>4, <2>6, <2>7, <2>8 DEF Passes
    <2> QED BY <1>2, <2>6, <2>8, <2>9
  <1>20. LiveReads(g)
    <2> SUFFICES ASSUME NEW n \in 1..m
                 PROVE  /\ \A i \in DOMAIN Insts(g, n) : InstReads(g, n, i)
                        /\ \A v \in Elements(Term(g, n).args) : MayRead(g, v, n, End(g, n))
      BY <1>2, <1>9 DEF LiveReads
    <2>1. a[n] \in K /\ a[n] \in Blocks(f)
      BY <1>4
    <2>2. ASSUME NEW v \in Elements(Term(g, n).args) PROVE MayRead(g, v, n, End(g, n))
      <3>1. v \in Elements(Term(f, a[n]).args) /\ End(g, n) = End(f, a[n])
        BY <1>7, <1>12
      <3>2. v \in Values(f) /\ MayRead(f, v, a[n], End(f, a[n]))
        BY <1>0, <2>1, <3>1 DEF ValuesChecked, LiveReads, K
      <3> QED BY <1>19, <3>1, <3>2
    <2>3. ASSUME NEW i \in DOMAIN Insts(g, n) PROVE InstReads(g, n, i)
      <3> DEFINE old == Insts(f, a[n])[i]
                 new == Insts(g, n)[i]
      <3>1. i \in DOMAIN Insts(f, a[n])
        BY <1>12
      <3>2. InstReads(f, a[n], i) /\ Uses(old) \subseteq Values(f)
        BY <1>0, <2>1, <3>1 DEF LiveReads, ValuesChecked, K
      <3>3. CASE ~IsPhi(old)
        <4>1. new = old
          BY <1>11, <3>1, <3>3
        <4>2. \A v \in Uses(old) : MayRead(f, v, a[n], i)
          BY <3>2, <3>3 DEF InstReads
        <4>3. \A v \in Uses(old) : MayRead(g, v, n, i)
          BY <1>19, <3>2, <4>2
        <4> QED BY <3>3, <4>1, <4>3 DEF InstReads
      <3>4. CASE IsPhi(old)
        <4>1. /\ new.op = old.op
              /\ Len(old.args) = Len(old.preds) /\ old \in InstShape
              /\ \A k \in 1..m : \A v : Gets(new, k, v) <=> Gets(old, a[k], v)
          BY <1>11, <3>1, <3>4
        <4>2. PhiReads(f, a[n], i)
          BY <1>0, <2>1, <3>1, <3>2, <3>4, <4>1, PhiReadsFacts
        <4>3. \A p : \A v : Gets(old, p, v) => v \in Values(f)
          <5> HIDE DEF old
          <5> QED BY <3>2, <4>1, GetsFacts
        <4>4. ASSUME NEW p \in 1..m, NEW v, Gets(new, p, v) PROVE MayRead(g, v, p, End(g, p))
          <5>1. Gets(old, a[p], v)
            <6> HIDE DEF old, new
            <6> QED BY <4>1, <4>4
          <5>2. MayRead(f, v, a[p], End(f, a[p])) /\ v \in Values(f)
            BY <1>4, <4>2, <4>3, <5>1 DEF PhiReads, K
          <5> QED BY <1>12, <1>19, <5>2
        <4>5. PhiReads(g, n, i)
          BY <1>2, <1>9, <4>4 DEF PhiReads
        <4>6. IsPhi(new)
          BY <3>4, <4>1 DEF IsPhi
        <4>7. Shape(g) /\ Constructed(g) /\ n \in Blocks(g) /\ i \in DOMAIN Insts(g, n)
          BY <1>2, <1>14
        <4>8. Len(new.args) = Len(new.preds)
          <5> HIDE DEF g, K, m, a
          <5> QED BY <4>6, <4>7, PhiLengths
        <4>9. new \in InstShape
          BY <4>7, InstFacts
        <4> QED BY ONLY <4>5, <4>6, <4>7, <4>8, <4>9, PhiReadsFacts
      <3> QED BY <3>3, <3>4
    <2> QED BY <2>2, <2>3
  <1>21. Sound(g)
    BY <1>2, <1>14, <1>15, <1>16, <1>17, <1>18, <1>20 DEF Sound
  <1> QED BY <1>9, <1>21 DEF g

-----------------------------------------------------------------------------
(* Dce: instructions go whose results nothing needs that stays.             *)
Spared(f, gone, v) ==
    \A c \in Blocks(f) : \A k \in DOMAIN Insts(f, c) : Insts(f, c)[k] \in gone => Insts(f, c)[k].result # v

Unneeded(f, gone) ==
    \A b \in Blocks(f) :
        /\ \A i \in DOMAIN Insts(f, b) :
              Insts(f, b)[i] \notin gone => \A v \in Uses(Insts(f, b)[i]) : Spared(f, gone, v)
        /\ \A v \in Elements(Term(f, b).args) : Spared(f, gone, v)

LEMMA ErasedSound ==
    ASSUME NEW f, Sound(f), NEW gone, Unneeded(f, gone)
    PROVE  LET g == Erased(f, gone) IN
           Sound(g) /\ Blocks(g) = Blocks(f) /\ Reachable(g) = Reachable(f)
  <1> DEFINE g == Erased(f, gone)
  <1>0. /\ Shape(f) /\ Constructed(f) /\ ValuesChecked(f) /\ SingleAssignment(f)
        /\ Predecessors(f, Entry) = {} /\ LivePhisFit(f) /\ LiveReads(f)
        /\ Reachable(f) \subseteq Blocks(f)
    BY SoundFacts, AvoidingFacts
  <1>1. /\ Edited(f, g)
        /\ \A b \in Blocks(f) :
              /\ \A i \in DOMAIN Insts(f, b) :
                    Insts(g, b)[i] = IF Insts(f, b)[i] \in gone THEN Nop ELSE Insts(f, b)[i]
              /\ Term(g, b) = Term(f, b)
    BY <1>0, ErasedView
  <1> HIDE DEF g
  <1>2. \A b \in Blocks(f) :
           TermFine(f, Term(g, b)) /\ \A i \in DOMAIN Insts(f, b) : InstFine(f, Insts(g, b)[i])
    BY <1>1, FineFacts
  <1>3. /\ Constructed(g) /\ ValuesChecked(g) /\ SingleAssignment(g) /\ ParamsListed(g) /\ Shape(g)
        /\ Blocks(g) = Blocks(f) /\ \A v : IsInst(g, v) <=> IsInst(f, v)
        /\ \A b \in Blocks(f) : End(g, b) = End(f, b) /\ DOMAIN Insts(g, b) = DOMAIN Insts(f, b)
    BY <1>1, <1>2, EditedFine
  <1>4. \A b \in Blocks(f) : Successors(g, b) = Successors(f, b)
    BY <1>1 DEF Successors
  <1>5. /\ Reachable(g) = Reachable(f) /\ \A a : Avoiding(g, a) = Avoiding(f, a)
        /\ Predecessors(g, Entry) = {}
    BY <1>0, <1>3, <1>4, SameWays
  <1>6. ASSUME NEW b, NEW j, NEW v, MayRead(f, v, b, j), Spared(f, gone, v)
        PROVE  MayRead(g, v, b, j)
    <2>1. ASSUME NEW c, NEW k, Passes(f, v, b, j, c, k)
          PROVE  Insts(g, c)[k].result = v /\ b \notin Avoiding(g, c)
      <3>1. c \in Blocks(f) /\ k \in DOMAIN Insts(f, c) /\ Insts(f, c)[k].result = v /\ b \notin Avoiding(f, c)
        BY <2>1 DEF Passes
      <3>2. Insts(f, c)[k] \notin gone
        BY <1>6, <3>1 DEF Spared
      <3> QED BY <1>1, <1>5, <3>1, <3>2
    <2> QED BY <1>1, <1>6, <2>1, ReadKept
  <1>7. LivePhisFit(g)
    <2> SUFFICES ASSUME NEW b \in Reachable(g), NEW i \in DOMAIN Insts(g, b), IsPhi(Insts(g, b)[i])
                 PROVE  PhiFits(g, b, i)
      BY DEF LivePhisFit
    <2> DEFINE old == Insts(f, b)[i]
               new == Insts(g, b)[i]
    <2>1. b \in Reachable(f) /\ b \in Blocks(f) /\ i \in DOMAIN Insts(f, b)
      BY <1>0, <1>3, <1>5
    <2>2. new = old
      BY <1>1, <2>1 DEF IsPhi, Nop
    <2>3. PhiFits(f, b, i)
      BY <1>0, <2>1, <2>2 DEF LivePhisFit
    <2>4. \A j \in 1..i : Insts(g, b)[j].op \in {"phi", "nop"}
      <3>1. \A j \in 1..i : j \in DOMAIN Insts(f, b)
        BY <1>0, <2>1, BlockFacts
      <3>2. \A j \in 1..i : Insts(f, b)[j].op \in {"phi", "nop"}
        BY <2>3 DEF PhiFits
      <3> QED BY <1>1, <2>1, <3>1, <3>2 DEF Nop
    <2>5. \A p \in Reachable(g) : p \in Elements(new.preds) <=> b \in Successors(g, p)
      BY <1>0, <1>4, <1>5, <2>2, <2>3 DEF PhiFits
    <2>6. \A j, k \in DOMAIN new.preds : new.preds[j] = new.preds[k] /\ new.preds[j] \in Reachable(g) => j = k
      BY <1>5, <2>2, <2>3 DEF PhiFits
    <2>7. b # Entry
      BY <2>3 DEF PhiFits
    <2> QED BY <2>4, <2>5, <2>6, <2>7 DEF PhiFits
  <1>8. LiveReads(g)
    <2> SUFFICES ASSUME NEW b \in Reachable(g)
                 PROVE  /\ \A i \in DOMAIN Insts(g, b) : InstReads(g, b, i)
                        /\ \A v \in Elements(Term(g, b).args) : MayRead(g, v, b, End(g, b))
      BY DEF LiveReads
    <2>1. b \in Reachable(f) /\ b \in Blocks(f)
      BY <1>0, <1>5
    <2>2. \A v \in Elements(Term(g, b).args) : MayRead(g, v, b, End(g, b))
      <3>1. \A v \in Elements(Term(f, b).args) : MayRead(f, v, b, End(f, b)) /\ Spared(f, gone, v)
        BY <1>0, <2>1 DEF LiveReads, Unneeded
      <3> QED BY <1>1, <1>3, <1>6, <2>1, <3>1
    <2>3. ASSUME NEW i \in DOMAIN Insts(g, b) PROVE InstReads(g, b, i)
      <3> DEFINE old == Insts(f, b)[i]
                 new == Insts(g, b)[i]
      <3>1. i \in DOMAIN Insts(f, b) /\ InstReads(f, b, i)
        BY <1>0, <1>3, <2>1 DEF LiveReads
      <3>2. CASE old \in gone
        <4>1. Uses(Nop) = {} /\ ~IsPhi(Nop)
          BY DEF Uses, Elements, Nop, IsPhi
        <4>2. new = Nop
          BY <1>1, <2>1, <3>1, <3>2
        <4> QED BY <4>1, <4>2 DEF InstReads
      <3>3. CASE old \notin gone
        <4>1. new = old
          BY <1>1, <2>1, <3>1, <3>3
        <4>2. \A v \in Uses(old) : Spared(f, gone, v)
          BY <2>1, <3>1, <3>3 DEF Unneeded
        <4>3. CASE IsPhi(old)
          <5>1. \A k \in DOMAIN old.args :
                    old.preds[k] \in Reachable(f) => MayRead(f, old.args[k], old.preds[k], End(f, old.preds[k]))
            BY <3>1, <4>3 DEF InstReads
          <5>2. \A k \in DOMAIN old.args : old.args[k] \in Uses(old)
            BY DEF Uses, Elements
          <5>3. ASSUME NEW k \in DOMAIN new.args, new.preds[k] \in Reachable(g)
                PROVE  MayRead(g, new.args[k], new.preds[k], End(g, new.preds[k]))
            BY <1>0, <1>3, <1>5, <1>6, <4>1, <4>2, <5>1, <5>2, <5>3
          <5> QED BY <4>1, <4>3, <5>3 DEF InstReads
        <4>4. CASE ~IsPhi(old)
          <5>1. \A v \in Uses(old) : MayRead(f, v, b, i)
            BY <3>1, <4>4 DEF InstReads
          <5>2. \A v \in Uses(new) : MayRead(g, v, b, i)
            BY <1>6, <4>1, <4>2, <5>1
          <5> QED BY <4>1, <4>4, <5>2 DEF InstReads
        <4> QED BY <4>3, <4>4
      <3> QED BY <3>2, <3>3
    <2> QED BY <2>2, <2>3
  <1> QED BY <1>3, <1>5, <1>7, <1>8 DEF Sound, g

(* What a value is computed from, what is needed whatever happens, and the  *)
(* live values as the least set that holds these and is closed.             *)
UsedBy(f, v) == UNION {Uses(i) : i \in {j \in Instructions(f) : j.result = v}}
Roots(f) == TerminatorUses(f) \cup UNION {Uses(i) : i \in {j \in Instructions(f) : HasEffect(j)}}

LEMMA InstructionFacts ==
    ASSUME NEW f
    PROVE  \A inst : inst \in Instructions(f) <=>
               \E b \in Blocks(f) : \E i \in DOMAIN Insts(f, b) : inst = Insts(f, b)[i]
  BY DEF Instructions, Elements

LEMMA LiveFacts ==
    ASSUME NEW f, Shape(f), ValuesChecked(f)
    PROVE  LET live == LiveValues(f) IN
           /\ Roots(f) \subseteq live /\ live \subseteq Values(f)
           /\ \A v \in live : UsedBy(f, v) \subseteq live
           /\ \A S : Roots(f) \subseteq S /\ (\A v \in S \cap Values(f) : UsedBy(f, v) \subseteq S) => live \subseteq S
  <1> DEFINE N == Len(f.kind)
             A == Roots(f)
             More(X) == UNION {{v} \cup UsedBy(f, v) : v \in X}
             R == [v \in Values(f) |-> UsedBy(f, v)]
             Step(s) == [n \in 0..N |-> IF n = 0 THEN A ELSE More(s[n - 1])]
  <1>1. N \in Nat /\ IsFiniteSet(Values(f)) /\ Cardinality(Values(f)) <= N
    <2>1. N \in Nat /\ Values(f) = 1..N
      BY ShapeFacts
    <2> HIDE DEF N
    <2>2. Cardinality(1..N) = IF 1 > N THEN 0 ELSE N - 1 + 1
      BY <2>1, FS_Interval
    <2>3. IsFiniteSet(1..N) /\ Cardinality(1..N) <= N
      BY <2>1, <2>2, FS_Interval
    <2> QED BY <2>1, <2>3
  <1>2. R \in [Values(f) -> SUBSET Values(f)] /\ A \in SUBSET Values(f)
    <2>1. \A j \in Instructions(f) : Uses(j) \subseteq Values(f)
      BY InstructionFacts DEF ValuesChecked
    <2>2. TerminatorUses(f) \subseteq Values(f)
      BY DEF TerminatorUses, ValuesChecked
    <2>3. \A v : UsedBy(f, v) \subseteq Values(f)
      BY <2>1 DEF UsedBy
    <2> QED BY <2>1, <2>2, <2>3 DEF Roots
  <1>3. ASSUME NEW X \in SUBSET Values(f)
        PROVE  Spread(R, X) = More(X)
    <2>1. \A c \in X : R[c] = UsedBy(f, c)
      OBVIOUS
    <2> HIDE DEF R
    <2> QED BY <2>1 DEF Spread
  <1>4. PICK g \in [0..N -> SUBSET Values(f)] : SpreadsTo(g, N, R, A)
    <2> HIDE DEF N, R, A
    <2> QED BY <1>1, <1>2, SpreadExists
  <1>5. g = Step(g)
    <2>1. \A i \in 0..N : i = 0 \/ (i \in 1..N /\ i - 1 \in 0..N /\ i # 0)
      BY <1>1
    <2>2. \A i \in 1..N : g[i] = Spread(R, g[i - 1])
      BY <1>4 DEF SpreadsTo
    <2>3. g[0] = A
      <3> HIDE DEF A
      <3> QED BY <1>4 DEF SpreadsTo
    <2> HIDE DEF N, R, More, A
    <2>4. \A i \in 0..N : g[i] = IF i = 0 THEN A ELSE More(g[i - 1])
      BY <1>3, <2>1, <2>2, <2>3
    <2> QED BY <2>4
  <1> DEFINE step == CHOOSE s : s = Step(s)
  <1>6. step = Step(step)
    <2> HIDE DEF Step
    <2> QED BY <1>5
  <1>7. LiveValues(f) = step[N]
    BY DEF LiveValues, Roots, UsedBy
  <1> HIDE DEF step
  <1>8. step[0] = A /\ \A i \in 1..N : step[i] = More(step[i - 1])
    <2>1. \A i \in 0..N : step[i] = IF i = 0 THEN A ELSE More(step[i - 1])
      <3> HIDE DEF More, N, A
      <3> QED BY <1>6
    <2>2. 0 \in 0..N /\ \A i \in 1..N : i \in 0..N /\ i # 0
      BY <1>1
    <2> HIDE DEF More, N, A
    <2> QED BY <2>1, <2>2
  <1>9. SpreadsTo(step, N, R, A)
    <2> DEFINE I == SUBSET Values(f)
    <2>1. \A X \in I : More(X) \in I
      <3>1. \A v \in Values(f) : UsedBy(f, v) \subseteq Values(f)
        BY <1>2
      <3> QED BY <3>1
    <2>2. step[0] \in I
      BY <1>2, <1>8
    <2>3. \A i \in 0..N : step[i] \in I
      <3>1. \A i \in 1..N : step[i - 1] \in I => step[i] \in I
        <4> HIDE DEF More, N, I
        <4> QED BY <1>8, <2>1
      <3> HIDE DEF I, N, More
      <3> QED BY <1>1, <2>2, <3>1, IterationKeeps
    <2>4. \A i \in 1..N : i - 1 \in 0..N
      BY <1>1
    <2> HIDE DEF N, R, More, A
    <2> QED BY <1>3, <1>8, <2>3, <2>4 DEF SpreadsTo
  <1>10. /\ A \subseteq step[N] /\ step[N] \subseteq Values(f)
         /\ ClosedUnder(R, step[N])
    <2> HIDE DEF N, R, A
    <2> QED BY <1>1, <1>2, <1>9, SpreadFacts
  <1>11. \A v \in step[N] : UsedBy(f, v) \subseteq step[N]
    BY <1>10 DEF ClosedUnder
  <1>12. ASSUME NEW S, A \subseteq S,
                \A v \in S \cap Values(f) : UsedBy(f, v) \subseteq S
         PROVE  step[N] \subseteq S
    <2>1. StaysIn(S, Values(f), R, A)
      BY <1>12 DEF StaysIn
    <2>2. N \in Nat
      BY <1>1
    <2> HIDE DEF R, N, A
    <2> QED BY <1>2, <1>9, <2>1, <2>2, SpreadLeast
  <1> HIDE DEF step, R, More
  <1> QED BY <1>7, <1>10, <1>11, <1>12

(* Stores and memzeros have no result anything could need.                  *)
LEMMA WithoutDeadStoresSound ==
    ASSUME NEW f, Sound(f)
    PROVE  LET g == WithoutDeadStores(f) IN
           Sound(g) /\ Blocks(g) = Blocks(f) /\ Reachable(g) = Reachable(f)
  <1> DEFINE gone == {i \in Instructions(f) : i.op \in {"store", "memzero"} /\ i.args[1] \in WriteOnlyPointers(f)}
  <1>1. Shape(f) /\ Constructed(f) /\ ValuesChecked(f) /\ NoValue \notin Values(f)
    BY SoundFacts, ShapeFacts
  <1>2. \A v \in Values(f) : Spared(f, gone, v)
    <2>1. ASSUME NEW c \in Blocks(f), NEW k \in DOMAIN Insts(f, c), Insts(f, c)[k] \in gone
          PROVE  Insts(f, c)[k].result = NoValue
      BY <1>1, <2>1 DEF Constructed, InstConstructed
    <2> HIDE DEF gone
    <2> QED BY <1>1, <2>1 DEF Spared
  <1>3. Unneeded(f, gone)
    <2> HIDE DEF gone
    <2> QED BY <1>1, <1>2 DEF Unneeded, ValuesChecked
  <1>4. WithoutDeadStores(f) = Erased(f, gone)
    BY DEF WithoutDeadStores
  <1> HIDE DEF gone
  <1> QED BY <1>3, <1>4, ErasedSound

(* What a function keeps needs live values only, and a live phi is needed   *)
(* by what is kept: the least live set has no value beside those.           *)
LEMMA EliminatedSound ==
    ASSUME NEW f, Sound(f), NEW cleanup \in BOOLEAN
    PROVE  LET g == DeadCodeEliminated(f, cleanup) IN
           /\ Sound(g) /\ Blocks(g) = Blocks(f) /\ Reachable(g) = Reachable(f)
           /\ NoDeadPhis(g)
  <1> DEFINE h == IF cleanup THEN WithoutDeadStores(f) ELSE f
             live == LiveValues(h)
             dead == {i \in Instructions(h) : i.result # NoValue /\ i.result \notin live /\ ~HasEffect(i)}
             g == Erased(h, dead)
  <1>1. Sound(h) /\ Blocks(h) = Blocks(f) /\ Reachable(h) = Reachable(f)
    BY WithoutDeadStoresSound
  <1>2. g = DeadCodeEliminated(f, cleanup)
    BY DEF DeadCodeEliminated
  <1> HIDE DEF h
  <1>3. Shape(h) /\ Constructed(h) /\ ValuesChecked(h)
    BY <1>1, SoundFacts
  <1>4. /\ Roots(h) \subseteq live /\ live \subseteq Values(h)
        /\ \A v \in live : UsedBy(h, v) \subseteq live
        /\ \A S : Roots(h) \subseteq S /\ (\A v \in S \cap Values(h) : UsedBy(h, v) \subseteq S) => live \subseteq S
    BY <1>3, LiveFacts
  <1>5. \A i \in dead : i.result \notin live
    OBVIOUS
  <1>6. ASSUME NEW b \in Blocks(h), NEW i \in DOMAIN Insts(h, b), Insts(h, b)[i] \notin dead
        PROVE  Uses(Insts(h, b)[i]) \subseteq live
    <2> DEFINE inst == Insts(h, b)[i]
    <2>1. inst \in Instructions(h)
      BY InstructionFacts
    <2>2. inst.result = NoValue \/ inst.result \in live \/ HasEffect(inst)
      BY <1>6, <2>1
    <2>3. CASE HasEffect(inst)
      BY <1>4, <2>1, <2>3 DEF Roots
    <2>4. CASE inst.result \in live
      <3>1. Uses(inst) \subseteq UsedBy(h, inst.result)
        BY <2>1 DEF UsedBy
      <3> QED BY <1>4, <2>4, <3>1
    <2>5. CASE inst.result = NoValue /\ ~HasEffect(inst)
      <3>1. InstConstructed(h, inst)
        BY <1>3 DEF Constructed
      <3>2. inst.op = "nop"
        BY <2>5, <3>1 DEF InstConstructed, HasEffect
      <3>3. inst = Nop
        BY <1>3, <3>2 DEF ValuesChecked
      <3> QED BY <3>3 DEF Uses, Elements, Nop
    <2> QED BY <2>2, <2>3, <2>4, <2>5
  <1>7. \A b \in Blocks(h) : Elements(Term(h, b).args) \subseteq live
    BY <1>4 DEF Roots, TerminatorUses
  <1> HIDE DEF live, g
  <1>8. \A v \in live : Spared(h, dead, v)
    BY <1>5 DEF Spared
  <1>9. Unneeded(h, dead)
    BY <1>6, <1>7, <1>8 DEF Unneeded
  <1>10. Sound(g) /\ Blocks(g) = Blocks(h) /\ Reachable(g) = Reachable(h)
    BY <1>1, <1>9, ErasedSound DEF g
  <1>11. \A b \in Blocks(h) :
            /\ \A i \in DOMAIN Insts(h, b) :
                  Insts(g, b)[i] = IF Insts(h, b)[i] \in dead THEN Nop ELSE Insts(h, b)[i]
            /\ Term(g, b) = Term(h, b) /\ DOMAIN Insts(g, b) = DOMAIN Insts(h, b)
    BY <1>3, ErasedView DEF g, Edited
  <1>12. NoDeadPhis(g)
    <2> DEFINE Needed(v) == \E c \in Blocks(h) :
                   \/ \E i \in DOMAIN Insts(h, c) : Insts(h, c)[i] \notin dead /\ v \in Uses(Insts(h, c)[i])
                   \/ v \in Elements(Term(h, c).args)
               S == {v \in live : Needed(v)}
    <2>1. Roots(h) \subseteq S
      <3> SUFFICES ASSUME NEW v \in Roots(h) PROVE Needed(v)
        BY <1>4
      <3>1. CASE v \in TerminatorUses(h)
        BY <3>1 DEF TerminatorUses
      <3>2. CASE v \notin TerminatorUses(h)
        <4>1. PICK inst \in Instructions(h) : HasEffect(inst) /\ v \in Uses(inst)
          BY <3>2 DEF Roots
        <4>2. inst \notin dead
          BY <4>1
        <4> HIDE DEF dead
        <4> QED BY <4>1, <4>2, InstructionFacts
      <3> QED BY <3>1, <3>2
    <2>2. ASSUME NEW u \in S, NEW v \in UsedBy(h, u) PROVE v \in S
      <3>1. PICK inst \in Instructions(h) : inst.result = u /\ v \in Uses(inst)
        BY <2>2 DEF UsedBy
      <3>2. inst \notin dead
        BY <1>5, <3>1
      <3>3. v \in live
        BY <1>4
      <3> HIDE DEF dead
      <3> QED BY <3>1, <3>2, <3>3, InstructionFacts
    <2>3. live \subseteq S
      <3> HIDE DEF S
      <3> QED BY <1>4, <2>1, <2>2
    <2>4. \A v \in live : Needed(v)
      BY <2>3
    <2> SUFFICES ASSUME NEW b \in Blocks(g), NEW i \in DOMAIN Insts(g, b), IsPhi(Insts(g, b)[i])
                 PROVE  \E c \in Blocks(g) :
                            \/ \E j \in DOMAIN Insts(g, c) : Insts(g, b)[i].result \in Uses(Insts(g, c)[j])
                            \/ Insts(g, b)[i].result \in Elements(Term(g, c).args)
      BY DEF NoDeadPhis, PhiResults, Phis
    <2>5. b \in Blocks(h) /\ i \in DOMAIN Insts(h, b) /\ Insts(g, b)[i] = Insts(h, b)[i] /\ Insts(h, b)[i] \notin dead
      BY <1>10, <1>11 DEF IsPhi, Nop
    <2>6. Insts(h, b)[i] \in Instructions(h) /\ ~HasEffect(Insts(h, b)[i])
      BY <2>5, InstructionFacts DEF IsPhi, HasEffect
    <2>7. Insts(h, b)[i].result # NoValue
      <3>1. InstConstructed(h, Insts(h, b)[i])
        BY <1>3, <2>5 DEF Constructed
      <3> QED BY <2>5, <3>1 DEF InstConstructed, IsPhi
    <2>8. Insts(h, b)[i].result \in live
      BY <2>5, <2>6, <2>7
    <2>9. Needed(Insts(h, b)[i].result)
      BY <2>4, <2>8
    <2> HIDE DEF dead
    <2> QED BY <1>10, <1>11, <2>5, <2>9
  <1> HIDE DEF dead
  <1> QED BY <1>1, <1>2, <1>10, <1>12

-----------------------------------------------------------------------------
(* How far the rounds can go.  What is live, the blocks that can be reached *)
(* and the phis in them, never grows.  A rewrite that changes a function    *)
(* all of whose blocks are reachable makes it less, simplify_branches       *)
(* alone excepted; but that one has nothing to do where it just was.        *)
Lives(f, b, i) == b \in Reachable(f) /\ (i = 0 \/ (i \in DOMAIN Insts(f, b) /\ IsPhi(Insts(f, b)[i])))
Live(f) == {s \in Blocks(f) \X Nat : Lives(f, s[1], s[2])}
Weight(f) == Cardinality(Live(f))

(* Nothing but the fields of a function, and a depth for each block.        *)
Exact(f) ==
    /\ f = [x \in DOMAIN f |-> f[x]]
    /\ "depth" \in DOMAIN f /\ f.depth = [b \in Blocks(f) |-> f.depth[b]]

Lessens(f, g) ==
    /\ Exact(f) => Exact(g)
    /\ Live(g) \subseteq Live(f)
    /\ Exact(f) /\ Reachable(f) = Blocks(f) /\ Live(g) = Live(f) => g = f

LEMMA LessensSame ==
    ASSUME NEW f
    PROVE  Lessens(f, f)
  BY DEF Lessens

LEMMA LessensTwice ==
    ASSUME NEW f, NEW g, NEW h, Lessens(f, g), Lessens(g, h)
    PROVE  Lessens(f, h)
  <1>1. Live(h) \subseteq Live(g) /\ Live(g) \subseteq Live(f)
    BY DEF Lessens
  <1>2. ASSUME Exact(f), Reachable(f) = Blocks(f), Live(h) = Live(f) PROVE h = f
    <2>1. Live(g) = Live(f) /\ Live(h) = Live(g)
      BY <1>1, <1>2
    <2>2. g = f
      BY <1>2, <2>1 DEF Lessens
    <2> QED BY <1>2, <2>1, <2>2 DEF Lessens
  <1> QED BY <1>1, <1>2 DEF Lessens

LEMMA LiveSubset ==
    ASSUME NEW f, NEW g, Blocks(g) = Blocks(f),
           \A b \in Blocks(f) : \A i \in Nat : Lives(g, b, i) => Lives(f, b, i)
    PROVE  Live(g) \subseteq Live(f)
  BY DEF Live

LEMMA LiveAt ==
    ASSUME NEW f, NEW g, Live(g) = Live(f)
    PROVE  \A b \in Blocks(f) : \A i \in Nat : Lives(f, b, i) => b \in Blocks(g) /\ Lives(g, b, i)
  <1>1. ASSUME NEW b \in Blocks(f), NEW i \in Nat, Lives(f, b, i) PROVE b \in Blocks(g) /\ Lives(g, b, i)
    <2>1. <<b, i>> \in Live(f)
      BY <1>1 DEF Live
    <2>2. <<b, i>> \in Live(g)
      BY <2>1
    <2> QED BY <2>2 DEF Live
  <1> QED BY <1>1

LEMMA ReachedAlike ==
    ASSUME NEW f, NEW g, Shape(f), Shape(g), Live(g) = Live(f)
    PROVE  Reachable(f) \subseteq Reachable(g)
  <1>1. ASSUME NEW b \in Reachable(f) PROVE b \in Reachable(g)
    <2>1. b \in Blocks(f) /\ Lives(f, b, 0)
      BY <1>1, AvoidingFacts DEF Lives
    <2> QED BY <2>1, LiveAt DEF Lives
  <1> QED BY <1>1

(* Rewrites that make code unreachable or take phis away.                   *)
LEMMA FewerLive ==
    ASSUME NEW f, NEW g, Blocks(g) = Blocks(f), Reachable(g) \subseteq Reachable(f),
           \A b \in Reachable(g) : \A i \in DOMAIN Insts(g, b) :
              IsPhi(Insts(g, b)[i]) => i \in DOMAIN Insts(f, b) /\ IsPhi(Insts(f, b)[i])
    PROVE  Live(g) \subseteq Live(f)
  <1>1. \A b \in Blocks(f) : \A i \in Nat : Lives(g, b, i) => Lives(f, b, i)
    BY DEF Lives
  <1> QED BY <1>1, LiveSubset

(* Functions are records: one with the same fields is the same.             *)
LEMMA ExactEdit ==
    ASSUME NEW f, "blocks" \in DOMAIN f, NEW blocks, DOMAIN blocks = Blocks(f),
           NEW g, g = [f EXCEPT !.blocks = blocks]
    PROVE  /\ g.blocks = blocks /\ Blocks(g) = Blocks(f)
           /\ Exact(f) => Exact(g)
           /\ Exact(f) /\ blocks = f.blocks => g = f
  <1>1. g = [x \in DOMAIN f |-> IF x = "blocks" THEN blocks ELSE f[x]]
    OBVIOUS
  <1>2. g.blocks = blocks /\ DOMAIN g = DOMAIN f /\ \A x \in DOMAIN f : x # "blocks" => g[x] = f[x]
    BY <1>1
  <1>3. Blocks(g) = Blocks(f)
    BY <1>2 DEF Blocks
  <1>4. g = [x \in DOMAIN g |-> g[x]]
    BY <1>1
  <1>5. ASSUME Exact(f) PROVE Exact(g)
    <2>1. "depth" \in DOMAIN f /\ f.depth = [b \in Blocks(f) |-> f.depth[b]]
      BY <1>5 DEF Exact
    <2>2. g.depth = f.depth /\ "depth" \in DOMAIN g
      BY <1>2, <2>1
    <2>3. g.depth = [b \in Blocks(g) |-> g.depth[b]]
      BY <1>3, <2>1, <2>2
    <2> QED BY <1>4, <2>2, <2>3 DEF Exact
  <1>6. ASSUME Exact(f), blocks = f.blocks PROVE g = f
    <2>1. f = [x \in DOMAIN f |-> f[x]]
      BY <1>6 DEF Exact
    <2>2. \A x \in DOMAIN f : g[x] = f[x]
      BY <1>2, <1>6
    <2>3. g = [x \in DOMAIN f |-> f[x]]
      BY <1>2, <1>4, <2>2
    <2> QED BY <2>1, <2>3
  <1> QED BY <1>2, <1>3, <1>5, <1>6

LEMMA SameSeq ==
    ASSUME NEW S, NEW s \in Seq(S), NEW t, t = [k \in DOMAIN s |-> t[k]], \A k \in DOMAIN s : t[k] = s[k]
    PROVE  t = s
  <1>1. s = [k \in DOMAIN s |-> s[k]]
    OBVIOUS
  <1> QED BY <1>1

-----------------------------------------------------------------------------
(* thread_boolean_phi_branches: a block with nothing but a phi and a branch *)
(* on it is bypassed.  The ways past other blocks become fewer, the phi was *)
(* read by the branch only, and what a predecessor passed to it the         *)
(* predecessor may read itself.                                             *)
Bypassable(g, b, h) ==
    LET phi == Insts(g, b)[h] IN
    /\ IsPhi(phi) /\ IsBranch(g, b)
    /\ \A i \in DOMAIN Insts(g, b) : i # h => Insts(g, b)[i].op = "nop"
    /\ \A c \in Blocks(g) :
          /\ \A i \in DOMAIN Insts(g, c) : phi.result \notin Uses(Insts(g, c)[i])
          /\ c # b => phi.result \notin Elements(Term(g, c).args)
    /\ \A t \in Successors(g, b) : \A i \in DOMAIN Insts(g, t) :
          IsPhi(Insts(g, t)[i]) => b \notin Elements(Insts(g, t)[i].preds)
    /\ \A p \in Elements(phi.preds) : CanRedirect(g, p, b, Incoming(phi, p))

LEMMA BlockNumbers ==
    ASSUME NEW f, Shape(f)
    PROVE  Blocks(f) \subseteq Nat
  <1>1. Blocks(f) = 1..Len(f.blocks) /\ Len(f.blocks) \in Nat
    BY ShapeFacts
  <1> QED BY <1>1

LEMMA PastTermFacts ==
    ASSUME NEW g, Shape(g), Constructed(g), NEW b \in Blocks(g), NEW h \in DOMAIN Insts(g, b), Bypassable(g, b, h),
           NEW p \in Blocks(g), p \in Elements(Insts(g, b)[h].preds)
    PROVE  LET phi == Insts(g, b)[h]
               value == Incoming(phi, p)
               new == PastTerm(g, b, phi, p)
           IN  /\ new \in [args : Seq(Nat), succ : Seq(Nat)]
               /\ p # b /\ b \in Successors(g, p) /\ value \in Uses(phi) /\ Gets(phi, p, value)
               /\ Elements(new.succ) \subseteq Successors(g, p) \cup Successors(g, b)
               /\ \A t : t \notin Successors(g, b) /\ t # b => (t \in Elements(new.succ) <=> t \in Successors(g, p))
               /\ \/ Elements(new.args) = {value} /\ new.args # << >>
                  \/ new.args = Term(g, p).args /\ Len(new.succ) = Len(Term(g, p).succ)
  <1> DEFINE phi == Insts(g, b)[h]
             value == Incoming(phi, p)
             new == PastTerm(g, b, phi, p)
  <1>1. /\ phi \in InstShape /\ IsPhi(phi) /\ Len(phi.args) = Len(phi.preds)
        /\ CanRedirect(g, p, b, value) /\ IsBranch(g, b) /\ p \in Elements(phi.preds)
    BY InstFacts, PhiLengths DEF Bypassable
  <1>2. /\ Term(g, p) \in [args : Seq(Nat), succ : Seq(Nat)] /\ Term(g, b) \in [args : Seq(Nat), succ : Seq(Nat)]
        /\ Successors(g, b) \subseteq Blocks(g) /\ Blocks(g) \subseteq Nat
    BY BlockFacts, BlockNumbers
  <1>3. Gets(phi, p, value) /\ value \in Uses(phi)
    <2> HIDE DEF phi
    <2> QED BY <1>1, GetsFacts
  <1>4. value \in Nat
    <2>1. phi.args \in Seq(Nat)
      BY <1>1 DEF InstShape
    <2> HIDE DEF phi, value
    <2> QED BY <1>3, <2>1 DEF Uses, Elements
  <1> HIDE DEF phi, value
  <1>5. p # b /\ b \in Successors(g, p)
    BY <1>1 DEF CanRedirect, JumpsTo, Successors, Elements
  <1>6. CASE IsConst(g, value)
    <2> DEFINE way == Chosen(Term(g, b).succ, value)
    <2>1. way \in Successors(g, b)
      <3>1. DOMAIN Term(g, b).succ = 1..2
        BY <1>1, BlockFacts DEF IsBranch
      <3>2. Successors(g, b) = {Term(g, b).succ[1], Term(g, b).succ[2]}
        BY <3>1 DEF Successors, Elements
      <3> QED BY <3>2 DEF Chosen
    <2>2. new = Redirected(Term(g, p), b, way)
      BY <1>6 DEF PastTerm, value
    <2>3. way \in Nat
      BY <1>2, <2>1
    <2> HIDE DEF way, new
    <2>4. /\ new \in [args : Seq(Nat), succ : Seq(Nat)] /\ new.args = Term(g, p).args
          /\ Len(new.succ) = Len(Term(g, p).succ)
          /\ \A x : x \in Elements(new.succ) <=>
                     \/ x \in Elements(Term(g, p).succ) /\ x # b
                     \/ x = way /\ b \in Elements(Term(g, p).succ)
      <3> DEFINE term == Term(g, p)
                 r == Redirected(term, b, way)
      <3>1. term \in [args : Seq(Nat), succ : Seq(Nat)] /\ new = r
        BY <1>2, <2>2
      <3> HIDE DEF term
      <3>2. r \in [args : Seq(Nat), succ : Seq(Nat)] /\ r.args = term.args /\ Len(r.succ) = Len(term.succ)
        BY ONLY <2>3, <3>1, RedirectFacts
      <3>3. \A x : x \in Elements(r.succ) <=>
                     \/ x \in Elements(term.succ) /\ x # b
                     \/ x = way /\ b \in Elements(term.succ)
        BY ONLY <2>3, <3>1, RedirectFacts
      <3> HIDE DEF r
      <3> QED BY <3>1, <3>2, <3>3 DEF term
    <2>5. \A x : x \in Elements(new.succ) <=> \/ x \in Successors(g, p) /\ x # b
                                              \/ x = way /\ b \in Successors(g, p)
      BY <2>4 DEF Successors
    <2> QED BY <1>3, <1>5, <2>1, <2>4, <2>5 DEF phi, value, new
  <1>7. CASE ~IsConst(g, value)
    <2>1. new = [Term(g, b) EXCEPT !.args = <<value>>]
      BY <1>7 DEF PastTerm, value
    <2>2. JumpsTo(g, p, b)
      BY <1>1, <1>7 DEF CanRedirect
    <2>3. Successors(g, p) = {b}
      BY <2>2 DEF JumpsTo, Successors, Elements
    <2>4. <<value>> \in Seq(Nat) /\ Elements(<<value>>) = {value} /\ <<value>> # << >>
      BY <1>4 DEF Elements
    <2> HIDE DEF new
    <2>5. /\ new \in [args : Seq(Nat), succ : Seq(Nat)] /\ new.args = <<value>> /\ new.succ = Term(g, b).succ
      BY <1>2, <2>1, <2>4
    <2>6. Elements(new.succ) = Successors(g, b)
      BY <2>5 DEF Successors
    <2> QED BY <1>3, <1>5, <2>3, <2>4, <2>5, <2>6 DEF phi, value, new
  <1> QED BY <1>6, <1>7

LEMMA PastArgs ==
    ASSUME NEW g, Shape(g), Constructed(g), NEW b \in Blocks(g), NEW h \in DOMAIN Insts(g, b), Bypassable(g, b, h),
           NEW p \in Blocks(g), p \in Elements(Insts(g, b)[h].preds)
    PROVE  Elements(PastTerm(g, b, Insts(g, b)[h], p).args) \subseteq Uses(Insts(g, b)[h]) \cup Elements(Term(g, p).args)
  <1> DEFINE phi == Insts(g, b)[h]
             value == Incoming(phi, p)
             new == PastTerm(g, b, phi, p)
  <1>1. /\ new \in [args : Seq(Nat), succ : Seq(Nat)]
        /\ p # b /\ b \in Successors(g, p) /\ value \in Uses(phi) /\ Gets(phi, p, value)
        /\ Elements(new.succ) \subseteq Successors(g, p) \cup Successors(g, b)
        /\ \A t : t \notin Successors(g, b) /\ t # b => (t \in Elements(new.succ) <=> t \in Successors(g, p))
        /\ \/ Elements(new.args) = {value} /\ new.args # << >>
           \/ new.args = Term(g, p).args /\ Len(new.succ) = Len(Term(g, p).succ)
    BY PastTermFacts
  <1>2. value \in Uses(phi) /\ (Elements(new.args) = {value} \/ new.args = Term(g, p).args)
    BY <1>1
  <1> HIDE DEF phi, value, new
  <1>3. Elements(new.args) \subseteq Uses(phi) \cup Elements(Term(g, p).args)
    BY <1>2
  <1> QED BY <1>3 DEF phi, new

LEMMA BypassedView ==
    ASSUME NEW g, Shape(g), Constructed(g), NEW b \in Blocks(g), NEW h \in DOMAIN Insts(g, b), Bypassable(g, b, h)
    PROVE  LET phi == Insts(g, b)[h]
               new == Bypassed(g, b, phi)
           IN  /\ Edited(g, new)
               /\ \A a \in Blocks(g) :
                     /\ \A i \in DOMAIN Insts(g, a) : Insts(new, a)[i] = IF a = b THEN Nop ELSE Insts(g, a)[i]
                     /\ a # b => Insts(new, a) = Insts(g, a)
                     /\ Term(new, a) = IF a = b THEN Jump(Term(g, b).succ[2])
                                       ELSE IF a \in Elements(phi.preds) THEN PastTerm(g, b, phi, a)
                                       ELSE Term(g, a)
  <1> DEFINE phi == Insts(g, b)[h]
             new == Bypassed(g, b, phi)
             nops == [i \in DOMAIN Insts(g, b) |-> Nop]
             I == [a \in Blocks(g) |-> IF a = b THEN nops ELSE Insts(g, a)]
             T == [a \in Blocks(g) |-> IF a = b THEN Jump(Term(g, b).succ[2])
                                       ELSE IF a \in Elements(phi.preds) THEN PastTerm(g, b, phi, a)
                                       ELSE Term(g, a)]
  <1>1. Nop \in InstShape /\ Nop.result = NoValue
    BY DEF Nop, NoValue, InstShape, Ops
  <1>2. BlocksReplaced(g, new, I, T)
    <2> DEFINE blocks == [a \in Blocks(g) |-> [insts |-> I[a], term |-> T[a]]]
               old == [a \in Blocks(g) |->
                         IF a = b THEN [insts |-> nops, term |-> Jump(Term(g, b).succ[2])]
                         ELSE IF a \in Elements(phi.preds) THEN [insts |-> Insts(g, a), term |-> PastTerm(g, b, phi, a)]
                         ELSE g.blocks[a]]
    <2>1. new = [g EXCEPT !.blocks = old]
      BY DEF Bypassed, Blocks, Insts, Term
    <2>2. "blocks" \in DOMAIN g
      BY DEF Shape
    <2>3. \A a \in Blocks(g) : g.blocks[a] = [insts |-> Insts(g, a), term |-> Term(g, a)]
      <3> SUFFICES ASSUME NEW a \in Blocks(g) PROVE g.blocks[a] = [insts |-> Insts(g, a), term |-> Term(g, a)]
        OBVIOUS
      <3>1. g.blocks[a] \in BlockShape
        BY DEF Shape, Blocks
      <3> QED BY <3>1 DEF BlockShape, Insts, Term
    <2>4. old = blocks
      <3> HIDE DEF nops, phi
      <3> QED BY <2>3
    <2> HIDE DEF new, blocks, I, T, old
    <2>5. DOMAIN new = DOMAIN g /\ new.kind = g.kind /\ new.params = g.params /\ new.blocks = blocks
      BY <2>1, <2>2, <2>4
    <2> QED BY <2>5 DEF BlocksReplaced, blocks
  <1>3. ASSUME NEW a \in Blocks(g)
        PROVE  BlockFits(g, a, I[a], T[a])
    <2>1. /\ Insts(g, a) \in Seq(InstShape) /\ DOMAIN Insts(g, a) = 1..Len(Insts(g, a)) /\ Len(Insts(g, a)) \in Nat
          /\ Term(g, a) \in [args : Seq(Nat), succ : Seq(Nat)]
          /\ Successors(g, a) \subseteq Blocks(g)
      BY BlockFacts
    <2>2. I[a] \in Seq(InstShape) /\ DOMAIN I[a] = DOMAIN Insts(g, a)
          /\ \A i \in DOMAIN Insts(g, a) : I[a][i].result \in {Insts(g, a)[i].result, NoValue}
      <3>1. CASE a # b
        BY <2>1, <3>1
      <3>2. CASE a = b
        <4> DEFINE n == Len(Insts(g, b))
        <4>1. nops \in [1..n -> InstShape] /\ n \in Nat /\ I[a] = nops
          BY <1>1, <2>1, <3>2
        <4>2. \A i \in DOMAIN Insts(g, a) : nops[i] = Nop
          BY <3>2
        <4>3. DOMAIN nops = DOMAIN Insts(g, a)
          BY <3>2
        <4> HIDE DEF nops, n, I
        <4>4. nops \in Seq(InstShape)
          BY <4>1, SeqFacts
        <4> QED BY <1>1, <4>1, <4>2, <4>3, <4>4
      <3> QED BY <3>1, <3>2
    <2>3. T[a] \in [args : Seq(Nat), succ : Seq(Nat)] /\ Elements(T[a].succ) \subseteq Blocks(g)
      <3>1. CASE a = b
        <4> DEFINE t == Term(g, b).succ[2]
        <4>1. DOMAIN Term(g, b).succ = 1..2
          BY BlockFacts DEF IsBranch, Bypassable
        <4>2. t \in Successors(g, b)
          BY <4>1 DEF Successors, Elements
        <4>3. t \in Blocks(g) /\ t \in Nat
          <5>1. Successors(g, b) \subseteq Blocks(g) /\ Blocks(g) \subseteq Nat
            BY BlockFacts, BlockNumbers
          <5> HIDE DEF t
          <5> QED BY <4>2, <5>1
        <4>4. T[a] = Jump(t)
          BY <3>1
        <4> HIDE DEF t, T
        <4> DEFINE jump == Jump(t)
        <4>5. jump \in [args : Seq(Nat), succ : Seq(Nat)] /\ Elements(jump.succ) = {t}
          BY <4>3, JumpFacts
        <4> HIDE DEF jump
        <4> QED BY ONLY <4>3, <4>4, <4>5 DEF jump
      <3>2. CASE a # b /\ a \in Elements(phi.preds)
        <4>1. T[a] = PastTerm(g, b, phi, a)
          BY <3>2
        <4>2. PastTerm(g, b, phi, a) \in [args : Seq(Nat), succ : Seq(Nat)]
              /\ Elements(PastTerm(g, b, phi, a).succ) \subseteq Successors(g, a) \cup Successors(g, b)
          BY <3>2, PastTermFacts
        <4>3. Successors(g, b) \subseteq Blocks(g)
          BY BlockFacts
        <4> HIDE DEF T, phi
        <4> QED BY <2>1, <4>1, <4>2, <4>3
      <3>3. CASE a # b /\ a \notin Elements(phi.preds)
        BY <2>1, <3>3 DEF Successors
      <3> QED BY <3>1, <3>2, <3>3
    <2> HIDE DEF I, T
    <2> QED BY <2>2, <2>3 DEF BlockFits
  <1>4. \A a \in Blocks(g) :
            /\ \A i \in DOMAIN Insts(g, a) : I[a][i] = IF a = b THEN Nop ELSE Insts(g, a)[i]
            /\ a # b => I[a] = Insts(g, a)
            /\ T[a] = IF a = b THEN Jump(Term(g, b).succ[2])
                      ELSE IF a \in Elements(phi.preds) THEN PastTerm(g, b, phi, a)
                      ELSE Term(g, a)
    OBVIOUS
  <1> HIDE DEF I, T, new
  <1>5. Edited(g, new) /\ \A a \in Blocks(g) : Insts(new, a) = I[a] /\ Term(new, a) = T[a]
    BY <1>2, <1>3, EditedShape
  <1> QED BY <1>4, <1>5 DEF new

LEMMA BypassedSound ==
    ASSUME NEW g, Sound(g), NEW b \in Blocks(g), NEW h \in DOMAIN Insts(g, b), Bypassable(g, b, h)
    PROVE  Sound(Bypassed(g, b, Insts(g, b)[h]))
  <1> DEFINE phi == Insts(g, b)[h]
             new == Bypassed(g, b, phi)
             P == Elements(phi.preds)
  <1>0. /\ Shape(g) /\ Constructed(g) /\ ValuesChecked(g) /\ SingleAssignment(g)
        /\ Predecessors(g, Entry) = {} /\ LivePhisFit(g) /\ LiveReads(g)
        /\ Reachable(g) \subseteq Blocks(g) /\ NoValue \notin Values(g)
    BY SoundFacts, AvoidingFacts, ShapeFacts
  <1>1. /\ Edited(g, new)
        /\ \A a \in Blocks(g) :
              /\ \A i \in DOMAIN Insts(g, a) : Insts(new, a)[i] = IF a = b THEN Nop ELSE Insts(g, a)[i]
              /\ a # b => Insts(new, a) = Insts(g, a)
              /\ Term(new, a) = IF a = b THEN Jump(Term(g, b).succ[2])
                                ELSE IF a \in P THEN PastTerm(g, b, phi, a)
                                ELSE Term(g, a)
    BY <1>0, BypassedView
  <1>2. /\ phi \in InstShape /\ IsPhi(phi) /\ Len(phi.args) = Len(phi.preds) /\ P \subseteq Blocks(g)
        /\ Uses(phi) \subseteq Values(g) /\ b \in Nat /\ h \in Nat
    <2>1. phi \in InstShape /\ IsPhi(phi) /\ Uses(phi) \subseteq Values(g) /\ b \in Nat /\ h \in Nat
      BY <1>0, InstFacts, BlockNumbers DEF Bypassable, ValuesChecked
    <2> QED BY <1>0, <2>1, PhiLengths
  <1>3. ASSUME NEW p \in P
        PROVE  LET value == Incoming(phi, p)
                   to == PastTerm(g, b, phi, p)
               IN  /\ p # b /\ b \in Successors(g, p) /\ value \in Uses(phi) /\ Gets(phi, p, value)
                   /\ Elements(to.succ) \subseteq Successors(g, p) \cup Successors(g, b)
                   /\ \A t : t \notin Successors(g, b) /\ t # b => (t \in Elements(to.succ) <=> t \in Successors(g, p))
                   /\ \/ Elements(to.args) = {value} /\ to.args # << >>
                      \/ to.args = Term(g, p).args /\ Len(to.succ) = Len(Term(g, p).succ)
    <2>1. p \in Blocks(g)
      BY <1>2
    <2>2. Shape(g) /\ Constructed(g) /\ Bypassable(g, b, h) /\ b \in Blocks(g) /\ h \in DOMAIN Insts(g, b)
      BY <1>0
    <2>3. p \in Elements(Insts(g, b)[h].preds)
      OBVIOUS
    <2> QED BY ONLY <2>1, <2>2, <2>3, PastTermFacts
  <1> HIDE DEF new
  (* Edges. *)
  <1>4. /\ Term(new, b) = Jump(Term(g, b).succ[2]) /\ Elements(Term(new, b).args) = {}
        /\ Successors(new, b) = {Term(g, b).succ[2]} /\ Term(g, b).succ[2] \in Successors(g, b)
        /\ Len(Term(new, b).succ) # 2
    <2> DEFINE t == Term(g, b).succ[2]
    <2>1. t \in Successors(g, b)
      <3>1. DOMAIN Term(g, b).succ = 1..2
        BY <1>0, BlockFacts DEF IsBranch, Bypassable
      <3> QED BY <3>1 DEF Successors, Elements
    <2>2. t \in Nat
      <3>1. Successors(g, b) \subseteq Blocks(g) /\ Blocks(g) \subseteq Nat
        BY <1>0, BlockFacts, BlockNumbers
      <3> HIDE DEF t
      <3> QED BY <2>1, <3>1
    <2>3. Term(new, b) = Jump(t)
      BY <1>1
    <2> HIDE DEF t
    <2>4. Elements(Jump(t).succ) = {t} /\ Elements(Jump(t).args) = {} /\ Len(Jump(t).succ) # 2
      BY <2>2, JumpFacts
    <2> QED BY <2>1, <2>3, <2>4 DEF Successors, t
  <1>5. ASSUME NEW p \in P
        PROVE  /\ Term(new, p) = PastTerm(g, b, phi, p)
               /\ Successors(new, p) = Elements(PastTerm(g, b, phi, p).succ)
    BY <1>1, <1>2, <1>3 DEF Successors
  <1>6. ASSUME NEW a \in Blocks(g), a # b, a \notin P
        PROVE  Term(new, a) = Term(g, a) /\ Successors(new, a) = Successors(g, a)
    BY <1>1, <1>6 DEF Successors
  <1>7. ASSUME NEW a \in Blocks(g)
        PROVE  /\ Successors(new, a) \subseteq Successors(g, a) \cup Successors(g, b)
               /\ b \in Successors(g, a) \/ Successors(new, a) \subseteq Successors(g, a)
               /\ \A t : t \notin Successors(g, b) /\ t # b => (t \in Successors(new, a) <=> t \in Successors(g, a))
    <2>1. CASE a = b
      BY <1>4, <2>1
    <2>2. CASE a \in P
      BY <1>3, <1>5, <2>2
    <2>3. CASE a # b /\ a \notin P
      BY <1>6, <2>3
    <2> QED BY <2>1, <2>2, <2>3
  <1>8. \A a \in Blocks(g) :
           TermFine(g, Term(new, a)) /\ \A i \in DOMAIN Insts(g, a) : InstFine(g, Insts(new, a)[i])
    <2>1. ASSUME NEW a \in Blocks(g) PROVE TermFine(g, Term(new, a))
      <3>0. TermFine(g, Term(g, a))
        BY FineFacts
      <3>1. CASE a = b
        BY <1>4, <3>1 DEF TermFine
      <3>2. CASE a \in P
        BY <1>2, <1>3, <1>5, <3>0, <3>2 DEF TermFine
      <3>3. CASE a # b /\ a \notin P
        BY <1>6, <3>0, <3>3
      <3> QED BY <3>1, <3>2, <3>3
    <2> QED BY <1>1, <2>1, FineFacts
  <1>9. /\ Constructed(new) /\ ValuesChecked(new) /\ SingleAssignment(new) /\ ParamsListed(new) /\ Shape(new)
        /\ Blocks(new) = Blocks(g) /\ \A v : IsInst(new, v) <=> IsInst(g, v)
        /\ \A a \in Blocks(g) : End(new, a) = End(g, a) /\ DOMAIN Insts(new, a) = DOMAIN Insts(g, a)
    BY <1>1, <1>8, EditedFine
  (* Ways. *)
  <1>10. /\ Reachable(new) \subseteq Reachable(g)
         /\ \A c : c # b => Avoiding(new, c) \subseteq Avoiding(g, c)
         /\ Predecessors(new, Entry) = {}
    <2>1. Reachable(new) \subseteq Reachable(g)
      <3>1. \A a \in Reachable(g) : Successors(g, a) \subseteq Reachable(g)
        BY <1>0, AvoidingFacts
      <3>2. \A a \in Reachable(g) : Successors(new, a) \subseteq Reachable(g)
        BY <1>0, <1>7, <3>1
      <3> QED BY <1>0, <1>9, <3>2, FewerReached
    <2>2. ASSUME NEW c, c # b PROVE Avoiding(new, c) \subseteq Avoiding(g, c)
      <3>1. \A a \in Avoiding(g, c) : a \in Blocks(g) /\ Successors(g, a) \ {c} \subseteq Avoiding(g, c)
        BY <1>0, AvoidingFacts DEF Closed
      <3>2. ASSUME NEW a \in Avoiding(g, c) PROVE Successors(new, a) \ {c} \subseteq Avoiding(g, c)
        <4>1. a \in Blocks(g)
          BY <3>1
        <4>2. CASE b \in Successors(g, a)
          <5>1. b \in Avoiding(g, c)
            BY <2>2, <3>1, <4>2
          <5> QED BY <1>7, <3>1, <4>1, <5>1
        <4>3. CASE b \notin Successors(g, a)
          BY <1>7, <3>1, <4>1, <4>3
        <4> QED BY <4>2, <4>3
      <3> QED BY <1>0, <1>9, <3>2, FewerEdges
    <2>3. Predecessors(new, Entry) = {}
      <3>1. \A a \in Blocks(g) : Entry \notin Successors(g, a)
        BY <1>0 DEF Predecessors
      <3>2. \A a \in Blocks(g) : Entry \notin Successors(new, a)
        BY <1>7, <3>1
      <3> QED BY <1>9, <3>2 DEF Predecessors
    <2> QED BY <2>1, <2>2, <2>3
  (* Who reads what. *)
  <1>11. ASSUME NEW v \in Values(g), v # phi.result, NEW a, NEW i, MayRead(g, v, a, i)
         PROVE  MayRead(new, v, a, i)
    <2>1. ASSUME NEW c, NEW k, Passes(g, v, a, i, c, k)
          PROVE  Insts(new, c)[k].result = v /\ a \notin Avoiding(new, c)
      <3>1. c \in Blocks(g) /\ k \in DOMAIN Insts(g, c) /\ Insts(g, c)[k].result = v /\ a \notin Avoiding(g, c)
        BY <2>1 DEF Passes
      <3>2. c # b
        <4>1. SUFFICES ASSUME c = b PROVE FALSE
          OBVIOUS
        <4>2. k # h
          BY <1>11, <3>1, <4>1
        <4>3. Insts(g, b)[k].op = "nop"
          BY <3>1, <4>1, <4>2 DEF Bypassable
        <4>4. Insts(g, b)[k] = Nop
          BY <1>0, <3>1, <4>1, <4>3 DEF ValuesChecked
        <4> QED BY <1>0, <3>1, <4>1, <4>4 DEF Nop
      <3> QED BY <1>1, <1>10, <3>1, <3>2
    <2> QED BY <1>1, <1>11, <2>1, ReadKept
  <1>12. LivePhisFit(new)
    <2> SUFFICES ASSUME NEW t \in Reachable(new), NEW i \in DOMAIN Insts(new, t), IsPhi(Insts(new, t)[i])
                 PROVE  PhiFits(new, t, i)
      BY DEF LivePhisFit
    <2> DEFINE old == Insts(g, t)[i]
    <2>1. t \in Reachable(g) /\ t \in Blocks(g) /\ i \in DOMAIN Insts(g, t)
      BY <1>0, <1>9, <1>10
    <2>2. t # b /\ Insts(new, t)[i] = old /\ Insts(new, t) = Insts(g, t)
      BY <1>1, <2>1 DEF IsPhi, Nop
    <2>3. PhiFits(g, t, i) /\ IsPhi(old)
      BY <1>0, <2>1, <2>2 DEF LivePhisFit
    <2>4. ASSUME NEW p \in Reachable(new)
          PROVE  p \in Elements(old.preds) <=> t \in Successors(new, p)
      <3>1. p \in Reachable(g) /\ p \in Blocks(g)
        BY <1>0, <1>10
      <3>2. p \in Elements(old.preds) <=> t \in Successors(g, p)
        BY <2>3, <3>1 DEF PhiFits
      <3>3. CASE b \in Reachable(g)
        <4>1. b \in Elements(old.preds) <=> t \in Successors(g, b)
          BY <2>3, <3>3 DEF PhiFits
        <4>2. t \notin Successors(g, b)
          BY <2>1, <2>3, <4>1 DEF Bypassable
        <4> QED BY <1>7, <2>2, <3>1, <3>2, <4>2
      <3>4. CASE b \notin Reachable(g)
        <4>1. p # b /\ b \notin Successors(g, p)
          BY <1>0, <3>1, <3>4, AvoidingFacts
        <4>2. p \notin P
          BY <1>3, <4>1
        <4> QED BY <1>6, <3>1, <3>2, <4>1, <4>2
      <3> QED BY <3>3, <3>4
    <2>5. /\ t # Entry /\ \A j \in 1..i : Insts(new, t)[j].op \in {"phi", "nop"}
          /\ \A j, k \in DOMAIN old.preds : old.preds[j] = old.preds[k] /\ old.preds[j] \in Reachable(new) => j = k
      BY <1>10, <2>2, <2>3 DEF PhiFits
    <2> QED BY <2>2, <2>4, <2>5 DEF PhiFits
  <1>13. LiveReads(new)
    <2> SUFFICES ASSUME NEW a \in Reachable(new)
                 PROVE  /\ \A i \in DOMAIN Insts(new, a) : InstReads(new, a, i)
                        /\ \A v \in Elements(Term(new, a).args) : MayRead(new, v, a, End(new, a))
      BY DEF LiveReads
    <2>1. a \in Reachable(g) /\ a \in Blocks(g) /\ End(new, a) = End(g, a)
      BY <1>0, <1>9, <1>10
    <2>2. \A v \in Elements(Term(g, a).args) : v \in Values(g) /\ MayRead(g, v, a, End(g, a))
      BY <1>0, <2>1 DEF LiveReads, ValuesChecked
    <2>3. a # b => \A v \in Elements(Term(g, a).args) : MayRead(new, v, a, End(new, a))
      <3>1. a # b => \A v \in Elements(Term(g, a).args) : v # phi.result
        BY <2>1 DEF Bypassable
      <3> QED BY <1>11, <2>1, <2>2, <3>1
    <2>4. ASSUME NEW v \in Elements(Term(new, a).args) PROVE MayRead(new, v, a, End(new, a))
      <3>1. CASE a = b
        BY <1>4, <3>1
      <3>2. CASE a # b /\ a \notin P
        BY <1>6, <2>1, <2>3, <3>2
      <3>3. CASE a \in P
        <4>1. CASE Term(new, a).args = Term(g, a).args
          BY <1>3, <2>3, <3>3, <4>1
        <4>2. CASE Term(new, a).args # Term(g, a).args
          <5>1. v = Incoming(phi, a) /\ v \in Uses(phi) /\ Gets(phi, a, v)
            BY <1>3, <1>5, <3>3, <4>2
          <5>2. b \in Reachable(g)
            BY <1>0, <1>3, <2>1, <3>3, AvoidingFacts
          <5>3. PhiReads(g, b, h)
            <6>1. InstReads(g, b, h)
              BY <1>0, <5>2 DEF LiveReads
            <6> QED BY <1>0, <1>2, <6>1, PhiReadsFacts
          <5>4. MayRead(g, v, a, End(g, a))
            BY <2>1, <5>1, <5>3 DEF PhiReads
          <5>5. v \in Values(g) /\ v # phi.result
            BY <1>2, <5>1 DEF Bypassable
          <5> QED BY <1>11, <2>1, <5>4, <5>5
        <4> QED BY <4>1, <4>2
      <3> QED BY <3>1, <3>2, <3>3
    <2>5. ASSUME NEW i \in DOMAIN Insts(new, a) PROVE InstReads(new, a, i)
      <3>1. i \in DOMAIN Insts(g, a) /\ InstReads(g, a, i)
        BY <1>0, <1>9, <2>1 DEF LiveReads
      <3>2. CASE a = b
        <4>1. Uses(Nop) = {} /\ ~IsPhi(Nop)
          BY DEF Uses, Elements, Nop, IsPhi
        <4>2. Insts(new, a)[i] = Nop
          BY <1>1, <2>1, <3>1, <3>2
        <4> QED BY <4>1, <4>2 DEF InstReads
      <3>3. CASE a # b
        <4> DEFINE inst == Insts(g, a)[i]
        <4>1. Insts(new, a)[i] = inst
          BY <1>1, <2>1, <3>1, <3>3
        <4>2. \A v \in Uses(inst) : v \in Values(g) /\ v # phi.result
          BY <1>0, <2>1, <3>1 DEF Bypassable, ValuesChecked
        <4>3. CASE IsPhi(inst)
          <5>1. \A k \in DOMAIN inst.args :
                    inst.preds[k] \in Reachable(g) => MayRead(g, inst.args[k], inst.preds[k], End(g, inst.preds[k]))
            BY <3>1, <4>3 DEF InstReads
          <5>2. \A k \in DOMAIN inst.args : inst.args[k] \in Uses(inst)
            BY DEF Uses, Elements
          <5>3. ASSUME NEW k \in DOMAIN inst.args, inst.preds[k] \in Reachable(new)
                PROVE  MayRead(new, inst.args[k], inst.preds[k], End(new, inst.preds[k]))
            <6>1. inst.preds[k] \in Reachable(g) /\ inst.preds[k] \in Blocks(g)
              BY <1>0, <1>10, <5>3
            <6> QED BY <1>9, <1>11, <4>2, <5>1, <5>2, <6>1
          <5> QED BY <4>1, <4>3, <5>3 DEF InstReads
        <4>4. CASE ~IsPhi(inst)
          <5>1. \A v \in Uses(inst) : MayRead(g, v, a, i)
            BY <3>1, <4>4 DEF InstReads
          <5>2. \A v \in Uses(inst) : MayRead(new, v, a, i)
            BY <1>11, <4>2, <5>1
          <5> QED BY <4>1, <4>4, <5>2 DEF InstReads
        <4> QED BY <4>3, <4>4
      <3> QED BY <3>2, <3>3
    <2> QED BY <2>4, <2>5
  <1> QED BY <1>9, <1>10, <1>12, <1>13 DEF Sound, new

(* Sites are finitely many, so a value with one use that a branch makes is  *)
(* used nowhere else.                                                       *)
LEMMA ImageFinite ==
    ASSUME NEW S, IsFiniteSet(S), NEW F, DOMAIN F = S
    PROVE  IsFiniteSet({F[s] : s \in S})
  <1> DEFINE T == {F[s] : s \in S}
  <1>1. [s \in S |-> F[s]] \in Surjection(S, T)
    BY DEF Surjection
  <1> HIDE DEF T
  <1>2. IsFiniteSet(T)
    BY <1>1, FS_Surjection
  <1> QED BY <1>2 DEF T

LEMMA UnionFinite ==
    ASSUME NEW S, IsFiniteSet(S), NEW F, DOMAIN F = S, \A s \in S : IsFiniteSet(F[s])
    PROVE  IsFiniteSet(UNION {F[s] : s \in S})
  <1> DEFINE T == {F[s] : s \in S}
  <1>1. IsFiniteSet(T)
    BY ImageFinite
  <1>2. \A X \in T : IsFiniteSet(X)
    OBVIOUS
  <1> HIDE DEF T
  <1>3. IsFiniteSet(UNION T)
    BY <1>1, <1>2, FS_UNION
  <1> QED BY <1>3 DEF T

LEMMA SitesFinite ==
    ASSUME NEW f, Shape(f)
    PROVE  IsFiniteSet(Sites(f))
  <1> DEFINE F == [b \in Blocks(f) |-> {<<b, i>> : i \in DOMAIN Insts(f, b)}]
  <1>1. ASSUME NEW b \in Blocks(f) PROVE IsFiniteSet(F[b])
    <2> DEFINE D == DOMAIN Insts(f, b)
               n == Len(Insts(f, b))
               G == [i \in D |-> <<b, i>>]
    <2>1. D = 1..n /\ n \in Nat
      BY BlockFacts
    <2> HIDE DEF n, D
    <2>2. IsFiniteSet(D)
      BY <2>1, FS_Interval
    <2>3. DOMAIN G = D
      OBVIOUS
    <2>4. {G[i] : i \in D} = {<<b, i>> : i \in D}
      OBVIOUS
    <2> HIDE DEF G
    <2>5. IsFiniteSet({G[i] : i \in D})
      BY <2>2, <2>3, ImageFinite
    <2> QED BY <2>4, <2>5 DEF D
  <1>2. IsFiniteSet(Blocks(f)) /\ DOMAIN F = Blocks(f)
    BY ShapeFacts
  <1>3. Sites(f) = UNION {F[b] : b \in Blocks(f)}
    BY DEF Sites
  <1> HIDE DEF F
  <1> QED BY <1>1, <1>2, <1>3, UnionFinite

LEMMA UsedOnce ==
    ASSUME NEW f, Shape(f), NEW b \in Blocks(f), NEW v \in Elements(Term(f, b).args), UseCount(f, v) = 1
    PROVE  \A c \in Blocks(f) :
               /\ \A i \in DOMAIN Insts(f, c) : v \notin Uses(Insts(f, c)[i])
               /\ c # b => v \notin Elements(Term(f, c).args)
  <1> DEFINE uses(s) == {k \in DOMAIN At(f, s).args : At(f, s).args[k] = v}
             F == [s \in Sites(f) |-> {<<s, k>> : k \in uses(s)}]
             U == UNION {F[s] : s \in Sites(f)}
             T == {c \in Blocks(f) : v \in Elements(Term(f, c).args)}
  <1>1. UseCount(f, v) = Cardinality(U) + Cardinality(T)
    <2>1. U = UNION {{<<s, k>> : k \in uses(s)} : s \in Sites(f)}
      OBVIOUS
    <2> HIDE DEF U, F
    <2> QED BY <2>1 DEF UseCount
  <1>2. IsFiniteSet(Sites(f)) /\ IsFiniteSet(Blocks(f))
    BY SitesFinite, ShapeFacts
  <1>3. ASSUME NEW s \in Sites(f) PROVE IsFiniteSet(F[s])
    <2>1. PICK c \in Blocks(f) : \E i \in DOMAIN Insts(f, c) : s = <<c, i>>
      BY DEF Sites
    <2>2. PICK i \in DOMAIN Insts(f, c) : s = <<c, i>>
      BY <2>1
    <2> DEFINE inst == Insts(f, c)[i]
               n == Len(inst.args)
               D == uses(s)
               G == [k \in D |-> <<s, k>>]
    <2>3. At(f, s) = inst
      BY <2>2 DEF At
    <2>4. DOMAIN inst.args = 1..n /\ n \in Nat
      BY InstFacts
    <2>5. D \subseteq 1..n
      BY <2>3, <2>4
    <2> HIDE DEF n, D
    <2>6. IsFiniteSet(D)
      <3>1. IsFiniteSet(1..n)
        BY <2>4, FS_Interval
      <3> QED BY <2>5, <3>1, FS_Subset
    <2>7. DOMAIN G = D /\ {G[k] : k \in D} = {<<s, k>> : k \in D}
      OBVIOUS
    <2> HIDE DEF G
    <2>8. IsFiniteSet({G[k] : k \in D})
      BY <2>6, <2>7, ImageFinite
    <2> QED BY <2>7, <2>8 DEF D
  <1>4. IsFiniteSet(U)
    <2>1. DOMAIN F = Sites(f)
      OBVIOUS
    <2> HIDE DEF F
    <2> QED BY <1>2, <1>3, <2>1, UnionFinite
  <1>5. IsFiniteSet(T) /\ b \in T
    <2>1. T \subseteq Blocks(f) /\ b \in T
      OBVIOUS
    <2> HIDE DEF T
    <2> QED BY <1>2, <2>1, FS_Subset
  <1>6. ASSUME NEW c \in Blocks(f), NEW i \in DOMAIN Insts(f, c), v \in Uses(Insts(f, c)[i]) PROVE U # {}
    <2> DEFINE s == <<c, i>>
    <2>1. s \in Sites(f) /\ At(f, s) = Insts(f, c)[i]
      BY DEF Sites, At
    <2>2. PICK k \in DOMAIN Insts(f, c)[i].args : Insts(f, c)[i].args[k] = v
      BY <1>6 DEF Uses, Elements
    <2>3. k \in uses(s)
      BY <2>1, <2>2
    <2> HIDE DEF s
    <2>4. <<s, k>> \in F[s]
      BY <2>1, <2>3
    <2> QED BY <2>1, <2>4
  <1> HIDE DEF U, T, F
  <1>7. /\ Cardinality(U) \in Nat /\ (Cardinality(U) = 0 <=> U = {})
        /\ Cardinality(T) \in Nat /\ (Cardinality(T) = 0 <=> T = {})
        /\ (Cardinality(T) = 1 <=> \E x : T = {x})
    BY <1>4, <1>5, FS_CardinalityType, FS_EmptySet, FS_Singleton
  <1>8. Cardinality(U) = 0 /\ Cardinality(T) = 1
    <2>1. Cardinality(T) # 0
      BY <1>5, <1>7
    <2> QED BY <1>1, <1>7, <2>1
  <1>9. U = {} /\ T = {b}
    BY <1>5, <1>7, <1>8
  <1> QED BY <1>6, <1>9 DEF T

LEMMA ThreadableFacts ==
    ASSUME NEW f, Shape(f), Constructed(f), NEW b \in Blocks(f), Threadable(f, b)
    PROVE  /\ IsBranch(f, b)
           /\ \E h \in DOMAIN Insts(f, b) :
                 LET phi == Insts(f, b)[h] IN
                 /\ OnlyPhi(f, b) = phi /\ IsPhi(phi)
                 /\ \A i \in DOMAIN Insts(f, b) : i # h => Insts(f, b)[i].op = "nop"
                 /\ \A c \in Blocks(f) :
                       /\ \A i \in DOMAIN Insts(f, c) : phi.result \notin Uses(Insts(f, c)[i])
                       /\ c # b => phi.result \notin Elements(Term(f, c).args)
           /\ \A t \in Successors(f, b) : \A i \in DOMAIN Insts(f, t) :
                 IsPhi(Insts(f, t)[i]) => b \notin Elements(Insts(f, t)[i].preds)
  <1>1. /\ IsBranch(f, b) /\ Cardinality(Active(f, b)) = 1
        /\ IsPhi(OnlyPhi(f, b)) /\ OnlyPhi(f, b).result = Condition(f, b)
        /\ UseCount(f, Condition(f, b)) = 1
        /\ \A t \in Successors(f, b) : \A p \in Phis(f, t) : b \notin Elements(p.preds)
    BY DEF Threadable
  <1>2. DOMAIN Insts(f, b) = 1..Len(Insts(f, b)) /\ Len(Insts(f, b)) \in Nat
    BY BlockFacts
  <1>3. PICK h : Active(f, b) = {h}
    <2>1. IsFiniteSet(1..Len(Insts(f, b)))
      BY <1>2, FS_Interval
    <2>2. Active(f, b) \subseteq 1..Len(Insts(f, b))
      BY <1>2 DEF Active
    <2>3. IsFiniteSet(Active(f, b))
      BY <2>1, <2>2, FS_Subset
    <2> QED BY <1>1, <2>3, FS_Singleton
  <1>4. /\ h \in DOMAIN Insts(f, b) /\ \A i \in DOMAIN Insts(f, b) : i # h => Insts(f, b)[i].op = "nop"
    BY <1>3 DEF Active
  <1>5. First({h}) = h
    <2>1. h \in Nat
      BY <1>2, <1>4
    <2> QED BY <2>1 DEF First
  <1>6. OnlyPhi(f, b) = Insts(f, b)[h]
    BY <1>3, <1>5 DEF OnlyPhi, At
  <1>7. Condition(f, b) \in Elements(Term(f, b).args)
    <2> DEFINE n == Len(Term(f, b).args)
    <2>1. DOMAIN Term(f, b).args = 1..n /\ n \in Nat
      BY BlockFacts
    <2>2. 1 \in DOMAIN Term(f, b).args
      <3>1. Term(f, b).args # << >>
        BY <1>1 DEF Constructed, IsBranch
      <3>2. Term(f, b).args \in Seq(Nat)
        BY BlockFacts
      <3>3. n # 0
        <4> DEFINE s == Term(f, b).args
        <4> HIDE DEF s
        <4> QED BY <3>1, <3>2 DEF s
      <3> QED BY <2>1, <3>3
    <2> QED BY <2>2 DEF Condition, Elements
  <1>8. \A c \in Blocks(f) :
            /\ \A i \in DOMAIN Insts(f, c) : Condition(f, b) \notin Uses(Insts(f, c)[i])
            /\ c # b => Condition(f, b) \notin Elements(Term(f, c).args)
    BY <1>1, <1>7, UsedOnce
  <1>9. \A t \in Successors(f, b) : \A i \in DOMAIN Insts(f, t) :
            IsPhi(Insts(f, t)[i]) => b \notin Elements(Insts(f, t)[i].preds)
    BY <1>1 DEF Phis
  <1> QED BY <1>1, <1>4, <1>6, <1>8, <1>9

(* The bypassed block loses its phi, and nothing new comes into reach.      *)
LEMMA BypassedLess ==
    ASSUME NEW g, Sound(g), NEW b \in Blocks(g), NEW h \in DOMAIN Insts(g, b), Bypassable(g, b, h)
    PROVE  Lessens(g, Bypassed(g, b, Insts(g, b)[h]))
  <1> DEFINE phi == Insts(g, b)[h]
             new == Bypassed(g, b, phi)
             P == Elements(phi.preds)
  <1>0. Shape(g) /\ Constructed(g) /\ Reachable(g) \subseteq Blocks(g)
        /\ \A c \in Reachable(g) : Successors(g, c) \subseteq Reachable(g)
    BY SoundFacts, AvoidingFacts
  <1>1. /\ Edited(g, new)
        /\ \A a \in Blocks(g) :
              /\ \A i \in DOMAIN Insts(g, a) : Insts(new, a)[i] = IF a = b THEN Nop ELSE Insts(g, a)[i]
              /\ Term(new, a) = IF a = b THEN Jump(Term(g, b).succ[2])
                                ELSE IF a \in P THEN PastTerm(g, b, phi, a)
                                ELSE Term(g, a)
    BY <1>0, BypassedView
  <1>2. /\ Shape(new) /\ Blocks(new) = Blocks(g) /\ IsPhi(phi) /\ IsBranch(g, b) /\ h \in Nat
        /\ \A a \in Blocks(g) : DOMAIN Insts(new, a) = DOMAIN Insts(g, a)
    BY <1>0, <1>1, InstFacts DEF Edited, Bypassable
  <1>3. ASSUME NEW p \in P, p \in Blocks(g)
        PROVE  /\ b \in Successors(g, p)
               /\ Elements(PastTerm(g, b, phi, p).succ) \subseteq Successors(g, p) \cup Successors(g, b)
    BY <1>0, <1>3, PastTermFacts
  <1>4. Successors(new, b) \subseteq Successors(g, b)
    <2> DEFINE t == Term(g, b).succ[2]
    <2>1. t \in Successors(g, b) /\ Term(new, b) = Jump(t)
      <3>1. DOMAIN Term(g, b).succ = 1..2
        BY <1>0, <1>2, BlockFacts DEF IsBranch
      <3> QED BY <1>1, <3>1 DEF Successors, Elements
    <2>2. t \in Nat
      BY <1>0, <2>1, BlockFacts, BlockNumbers
    <2> HIDE DEF t, new
    <2>3. Elements(Jump(t).succ) = {t}
      BY <2>2, JumpFacts
    <2> QED BY <2>1, <2>3 DEF Successors
  <1>5. Reachable(new) \subseteq Reachable(g)
    <2>1. ASSUME NEW c \in Reachable(g) PROVE Successors(new, c) \subseteq Reachable(g)
      <3>1. CASE c = b
        BY <1>0, <1>4, <3>1
      <3>2. CASE c # b /\ c \in P
        <4> DEFINE to == PastTerm(g, b, phi, c)
        <4>1. Term(new, c) = to
          BY <1>0, <1>1, <3>2
        <4>2. b \in Successors(g, c) /\ Elements(to.succ) \subseteq Successors(g, c) \cup Successors(g, b)
          BY <1>0, <1>3, <3>2
        <4>3. Successors(new, c) = Elements(to.succ)
          BY <4>1 DEF Successors
        <4> HIDE DEF to, new
        <4> QED BY <1>0, <4>2, <4>3
      <3>3. CASE c # b /\ c \notin P
        <4>1. Term(new, c) = Term(g, c)
          BY <1>0, <1>1, <3>3
        <4> HIDE DEF new
        <4> QED BY <1>0, <4>1 DEF Successors
      <3> QED BY <3>1, <3>2, <3>3
    <2> HIDE DEF new
    <2> QED BY <1>0, <1>2, <2>1, FewerReached
  <1>6. ~IsPhi(Nop)
    BY DEF Nop, IsPhi
  <1>7. Live(new) \subseteq Live(g)
    <2>1. ASSUME NEW a \in Reachable(new), NEW i \in DOMAIN Insts(new, a), IsPhi(Insts(new, a)[i])
          PROVE  i \in DOMAIN Insts(g, a) /\ IsPhi(Insts(g, a)[i])
      <3>1. a \in Blocks(g) /\ i \in DOMAIN Insts(g, a)
        BY <1>0, <1>2, <1>5
      <3>2. Insts(new, a)[i] \in {Nop, Insts(g, a)[i]}
        BY <1>1, <3>1
      <3> HIDE DEF new
      <3> QED BY <1>6, <2>1, <3>1, <3>2
    <2> HIDE DEF new
    <2> QED BY <1>2, <1>5, <2>1, FewerLive
  <1>8. Reachable(g) = Blocks(g) => Live(new) # Live(g)
    <2> SUFFICES ASSUME Reachable(g) = Blocks(g), Live(new) = Live(g) PROVE FALSE
      OBVIOUS
    <2>1. Insts(new, b)[h] = Nop /\ h # 0
      BY <1>0, <1>1, InstFacts
    <2>2. Lives(g, b, h)
      BY <1>2 DEF Lives
    <2>3. ~Lives(new, b, h)
      BY <1>6, <2>1 DEF Lives
    <2> HIDE DEF new
    <2> QED BY <1>2, <2>2, <2>3, LiveAt
  <1>9. Exact(g) => Exact(new)
    <2> DEFINE blocks == new.blocks
    <2>1. "blocks" \in DOMAIN g
      BY <1>0 DEF Shape
    <2>2. new = [g EXCEPT !.blocks = blocks] /\ DOMAIN blocks = Blocks(g)
      BY <2>1 DEF Bypassed, Blocks
    <2> HIDE DEF new, blocks
    <2> QED BY <2>1, <2>2, ExactEdit
  <1> HIDE DEF new
  <1> QED BY <1>7, <1>8, <1>9 DEF Lessens, new

(* What is left of the candidates stands as it stood, and every terminator  *)
(* still has its operands or what a phi was passed.                         *)
ThreadedFrom(f, g, todo) ==
    /\ Sound(g) /\ Edited(f, g)
    /\ \A b \in Blocks(f) :
          /\ \A i \in DOMAIN Insts(f, b) : Insts(g, b)[i] \in {Insts(f, b)[i], Nop}
          /\ Elements(Term(g, b).args) \subseteq Elements(Term(f, b).args) \cup UNION {Uses(i) : i \in Instructions(f)}
    /\ \A b \in todo : Insts(g, b) = Insts(f, b)
    /\ Lessens(f, g)

LEMMA ThreadOneKeeps ==
    ASSUME NEW f, Sound(f), NEW todo \in SUBSET Blocks(f), NEW b \in todo, Threadable(f, b),
           NEW g, ThreadedFrom(f, g, todo)
    PROVE  ThreadedFrom(f, ThreadOne(f, g, b), todo \ {b})
  <1> DEFINE phi == OnlyPhi(f, b)
             read == UNION {Uses(i) : i \in Instructions(f)}
             Bypass == /\ Term(g, b) = Term(f, b)
                       /\ Elements(phi.preds) = Predecessors(f, b)
                       /\ \A p \in Elements(phi.preds) : CanRedirect(g, p, b, Incoming(phi, p))
             new == Bypassed(g, b, phi)
  <1>1. ThreadOne(f, g, b) = IF Bypass THEN new ELSE g
    BY DEF ThreadOne
  <1>2. /\ Sound(g) /\ Edited(f, g) /\ Shape(f) /\ Constructed(f)
        /\ Shape(g) /\ Constructed(g) /\ Blocks(g) = Blocks(f) /\ b \in Blocks(f)
        /\ \A a \in Blocks(f) :
              /\ DOMAIN Insts(g, a) = DOMAIN Insts(f, a)
              /\ \A i \in DOMAIN Insts(f, a) : Insts(g, a)[i] \in {Insts(f, a)[i], Nop}
              /\ Elements(Term(g, a).args) \subseteq Elements(Term(f, a).args) \cup read
        /\ \A a \in todo : Insts(g, a) = Insts(f, a)
        /\ Lessens(f, g)
    BY SoundFacts DEF ThreadedFrom, Edited
  <1>3. CASE ~Bypass
    <2>1. ThreadOne(f, g, b) = g
      BY <1>1, <1>3
    <2>2. \A a \in todo \ {b} : Insts(g, a) = Insts(f, a)
      BY <1>2
    <2> HIDE DEF Bypass, phi, new
    <2> QED BY <1>2, <2>1, <2>2 DEF ThreadedFrom
  <1>4. CASE Bypass
    <2>1. ThreadOne(f, g, b) = new
      BY <1>1, <1>4
    <2>2. /\ IsBranch(f, b)
          /\ \A t \in Successors(f, b) : \A i \in DOMAIN Insts(f, t) :
                 IsPhi(Insts(f, t)[i]) => b \notin Elements(Insts(f, t)[i].preds)
      BY <1>2, ThreadableFacts
    <2>3. PICK h \in DOMAIN Insts(f, b) :
                 /\ phi = Insts(f, b)[h] /\ IsPhi(phi)
                 /\ \A i \in DOMAIN Insts(f, b) : i # h => Insts(f, b)[i].op = "nop"
                 /\ \A c \in Blocks(f) :
                       /\ \A i \in DOMAIN Insts(f, c) : phi.result \notin Uses(Insts(f, c)[i])
                       /\ c # b => phi.result \notin Elements(Term(f, c).args)
      <3>1. \E h \in DOMAIN Insts(f, b) :
                 LET p == Insts(f, b)[h] IN
                 /\ OnlyPhi(f, b) = p /\ IsPhi(p)
                 /\ \A i \in DOMAIN Insts(f, b) : i # h => Insts(f, b)[i].op = "nop"
                 /\ \A c \in Blocks(f) :
                       /\ \A i \in DOMAIN Insts(f, c) : p.result \notin Uses(Insts(f, c)[i])
                       /\ c # b => p.result \notin Elements(Term(f, c).args)
        BY <1>2, ThreadableFacts
      <3> QED BY <3>1
    <2>4. /\ Term(g, b) = Term(f, b) /\ Insts(g, b) = Insts(f, b) /\ h \in DOMAIN Insts(g, b)
          /\ phi = Insts(g, b)[h] /\ Successors(g, b) = Successors(f, b) /\ IsBranch(g, b)
          /\ \A p \in Elements(phi.preds) : CanRedirect(g, p, b, Incoming(phi, p))
      BY <1>2, <1>4, <2>2, <2>3 DEF Successors, IsBranch
    <2> HIDE DEF Bypass, new
    <2>5. phi.result \notin read /\ Uses(Nop) = {} /\ ~IsPhi(Nop) /\ Uses(phi) \subseteq read
      <3>1. phi.result \notin read /\ Uses(phi) \subseteq read
        <4> HIDE DEF phi
        <4> QED BY <1>2, <2>3, InstructionFacts
      <3> QED BY <3>1 DEF Uses, Elements, Nop, IsPhi
    <2>6. Bypassable(g, b, h)
      <3>1. \A i \in DOMAIN Insts(g, b) : i # h => Insts(g, b)[i].op = "nop"
        BY <2>3, <2>4
      <3>2. ASSUME NEW c \in Blocks(g)
            PROVE  /\ \A i \in DOMAIN Insts(g, c) : phi.result \notin Uses(Insts(g, c)[i])
                   /\ c # b => phi.result \notin Elements(Term(g, c).args)
        <4> HIDE DEF phi, read
        <4> QED BY <1>2, <2>3, <2>5
      <3>3. ASSUME NEW t \in Successors(g, b), NEW i \in DOMAIN Insts(g, t), IsPhi(Insts(g, t)[i])
            PROVE  b \notin Elements(Insts(g, t)[i].preds)
        <4>1. t \in Blocks(f) /\ t \in Successors(f, b)
          BY <1>2, <2>4, BlockFacts
        <4>2. i \in DOMAIN Insts(f, t) /\ Insts(g, t)[i] = Insts(f, t)[i]
          BY <1>2, <2>5, <3>3, <4>1
        <4> QED BY <2>2, <3>3, <4>1, <4>2
      <3> HIDE DEF phi
      <3> QED BY <2>3, <2>4, <3>1, <3>2, <3>3 DEF Bypassable
    <2> HIDE DEF phi
    <2>7. Sound(new)
      <3>1. b \in Blocks(g) /\ h \in DOMAIN Insts(g, b)
        BY <1>2, <2>4
      <3>2. Sound(Bypassed(g, b, Insts(g, b)[h]))
        BY <1>2, <2>6, <3>1, BypassedSound
      <3> QED BY <2>4, <3>2 DEF new
    <2>8. /\ Edited(g, new)
          /\ \A a \in Blocks(g) :
                /\ \A i \in DOMAIN Insts(g, a) : Insts(new, a)[i] = IF a = b THEN Nop ELSE Insts(g, a)[i]
                /\ a # b => Insts(new, a) = Insts(g, a)
                /\ Term(new, a) = IF a = b THEN Jump(Term(g, b).succ[2])
                                  ELSE IF a \in Elements(phi.preds) THEN PastTerm(g, b, phi, a)
                                  ELSE Term(g, a)
      <3>1. b \in Blocks(g) /\ h \in DOMAIN Insts(g, b) /\ Shape(g) /\ Constructed(g)
        BY <1>2, <2>4
      <3> DEFINE p == Insts(g, b)[h]
                 n == Bypassed(g, b, p)
      <3>2. /\ Edited(g, n)
            /\ \A a \in Blocks(g) :
                  /\ \A i \in DOMAIN Insts(g, a) : Insts(n, a)[i] = IF a = b THEN Nop ELSE Insts(g, a)[i]
                  /\ a # b => Insts(n, a) = Insts(g, a)
                  /\ Term(n, a) = IF a = b THEN Jump(Term(g, b).succ[2])
                                  ELSE IF a \in Elements(p.preds) THEN PastTerm(g, b, p, a)
                                  ELSE Term(g, a)
        BY ONLY <2>6, <3>1, BypassedView
      <3>3. p = phi /\ n = new
        BY <2>4 DEF new
      <3> HIDE DEF p, n
      <3> QED BY <3>2, <3>3
    <2>9. Edited(f, new)
      BY <1>2, <2>8, EditedTwice
    <2>10. ASSUME NEW a \in Blocks(f)
           PROVE  Elements(Term(new, a).args) \subseteq Elements(Term(f, a).args) \cup read
      <3>1. CASE a = b
        <4>1. Term(new, a).args = << >>
          BY <1>2, <2>8, <3>1 DEF Jump
        <4> QED BY <4>1 DEF Elements
      <3>2. CASE a # b /\ a \in Elements(phi.preds)
        <4> DEFINE to == PastTerm(g, b, phi, a)
        <4>1. Shape(g) /\ Constructed(g) /\ Bypassable(g, b, h) /\ b \in Blocks(g) /\ h \in DOMAIN Insts(g, b)
          BY <1>2, <2>4, <2>6
        <4>5. a \in Blocks(g)
          BY <1>2
        <4>6. a \in Elements(Insts(g, b)[h].preds)
          BY <2>4, <3>2
        <4>2. Elements(PastTerm(g, b, Insts(g, b)[h], a).args) \subseteq Uses(Insts(g, b)[h]) \cup Elements(Term(g, a).args)
          BY ONLY <4>1, <4>5, <4>6, PastArgs
        <4>3. Elements(to.args) \subseteq Uses(phi) \cup Elements(Term(g, a).args)
          BY <2>4, <4>2
        <4>4. Term(new, a) = to
          BY <1>2, <2>8, <3>2
        <4> HIDE DEF to, read
        <4> QED BY <1>2, <2>5, <4>3, <4>4
      <3>3. CASE a # b /\ a \notin Elements(phi.preds)
        <4>1. Term(new, a) = Term(g, a)
          BY <1>2, <2>8, <3>3
        <4> QED BY <1>2, <4>1
      <3> QED BY <3>1, <3>2, <3>3
    <2>11. \A a \in Blocks(f) : \A i \in DOMAIN Insts(f, a) : Insts(new, a)[i] \in {Insts(f, a)[i], Nop}
      BY <1>2, <2>8
    <2>12. \A a \in todo \ {b} : Insts(new, a) = Insts(f, a)
      BY <1>2, <2>8
    <2>13. Lessens(f, new)
      <3>1. b \in Blocks(g) /\ h \in DOMAIN Insts(g, b)
        BY <1>2, <2>4
      <3>2. Lessens(g, Bypassed(g, b, Insts(g, b)[h]))
        BY <1>2, <2>6, <3>1, BypassedLess
      <3>3. Lessens(g, new)
        BY <2>4, <3>2 DEF new
      <3> QED BY <1>2, <3>3, LessensTwice
    <2> QED BY <2>1, <2>7, <2>9, <2>10, <2>11, <2>12, <2>13 DEF ThreadedFrom
  <1> QED BY <1>3, <1>4

ThreadStates(g, f, a, n) == g = [k \in 0..n |-> IF k = 0 THEN f ELSE ThreadOne(f, g[k - 1], a[k])]

LEMMA ThreadSteps ==
    ASSUME NEW f, NEW a, NEW N \in Nat
    PROVE  \E g : ThreadStates(g, f, a, N)
  <1> USE DEF ThreadStates
  <1> DEFINE T(n) == \E g : ThreadStates(g, f, a, n)
             S == {n \in Nat : T(n)}
  <1>1. 0 \in S
    <2> DEFINE g == [k \in 0..0 |-> f]
    <2>1. g = [k \in 0..0 |-> IF k = 0 THEN f ELSE ThreadOne(f, g[k - 1], a[k])]
      <3>1. \A k \in 0..0 : k = 0
        OBVIOUS
      <3> HIDE DEF T, S
      <3> QED BY <3>1
    <2>2. T(0)
      BY <2>1
    <2> QED BY <2>2
  <1>2. ASSUME NEW n \in Nat, n \in S PROVE n + 1 \in S
    <2>1. PICK g : g = [k \in 0..n |-> IF k = 0 THEN f ELSE ThreadOne(f, g[k - 1], a[k])]
      BY <1>2
    <2> DEFINE h == [k \in 0..(n + 1) |-> IF k <= n THEN g[k] ELSE ThreadOne(f, g[n], a[k])]
               to(k) == IF k = 0 THEN f ELSE ThreadOne(f, h[k - 1], a[k])
    <2>2. \A k \in 0..n : g[k] = IF k = 0 THEN f ELSE ThreadOne(f, g[k - 1], a[k])
      BY <2>1
    <2>3. \A k \in 0..(n + 1) : h[k] = IF k <= n THEN g[k] ELSE ThreadOne(f, g[n], a[k])
      OBVIOUS
    <2>4. DOMAIN h = 0..(n + 1) /\ h = [k \in 0..(n + 1) |-> h[k]]
      OBVIOUS
    <2> HIDE DEF h
    <2>5. ASSUME NEW k \in 0..(n + 1) PROVE h[k] = to(k)
      <3>1. CASE k = 0
        BY <2>2, <2>3, <3>1
      <3>2. CASE k \in 1..n
        <4>1. k \in 0..n /\ k - 1 \in 0..(n + 1) /\ k - 1 <= n /\ k <= n /\ k # 0
          BY <3>2
        <4>2. h[k] = g[k] /\ h[k - 1] = g[k - 1]
          BY <2>3, <4>1
        <4> QED BY <2>2, <4>1, <4>2
      <3>3. CASE k = n + 1
        <4>1. k - 1 = n /\ n \in 0..(n + 1) /\ ~(k <= n) /\ k # 0
          BY <3>3
        <4>2. h[n] = g[n] /\ h[k] = ThreadOne(f, g[n], a[k])
          BY <2>3, <4>1
        <4> QED BY <4>1, <4>2
      <3> QED BY <3>1, <3>2, <3>3
    <2>6. h = [k \in 0..(n + 1) |-> to(k)]
      <3> HIDE DEF to
      <3> QED BY <2>4, <2>5
    <2>7. T(n + 1)
      BY <2>6
    <2> HIDE DEF T
    <2> QED BY <2>7
  <1> HIDE DEF S, T
  <1>3. N \in S
    BY <1>1, <1>2, SetInduction
  <1> QED BY <1>3 DEF S, T

LEMMA ThreadedSound ==
    ASSUME NEW f, Sound(f)
    PROVE  Sound(Threaded(f)) /\ Lessens(f, Threaded(f))
  <1> DEFINE K == {b \in Blocks(f) : Threadable(f, b)}
             a == Ascending(K)
             N == Len(a)
             Step(s) == [k \in 0..N |-> IF k = 0 THEN f ELSE ThreadOne(f, s[k - 1], a[k])]
             treated == CHOOSE s : s = Step(s)
             todo(k) == {a[j] : j \in (k + 1)..N}
  <1>1. /\ N \in Nat /\ DOMAIN a = 1..N /\ \A k \in 1..N : a[k] \in K
        /\ \A j, k \in 1..N : a[j] = a[k] => j = k
    <2> DEFINE n == Len(f.blocks)
    <2>1. n \in Nat /\ Blocks(f) = 1..n
      BY SoundFacts, ShapeFacts
    <2>2. K \in SUBSET (1..n)
      BY <2>1
    <2> HIDE DEF n, K
    <2>3. LET m == Cardinality(K) s == Ascending(K) IN
          /\ m \in Nat /\ s \in Seq(K) /\ Len(s) = m /\ DOMAIN s = 1..m
          /\ \A j, k \in DOMAIN s : s[j] = s[k] => j = k
          /\ \A i \in K : \E k \in DOMAIN s : s[k] = i
          /\ \A k \in DOMAIN s : s[k] \in K /\ Rank(K, s[k]) = k - 1
      BY ONLY <2>1, <2>2, AscendingFacts
    <2> QED BY <2>3
  <1>2. treated = Step(treated)
    <2>1. \E s : s = Step(s)
      <3> HIDE DEF N, a
      <3>1. N \in Nat
        BY <1>1
      <3>2. \E g : ThreadStates(g, f, a, N)
        BY ONLY <3>1, ThreadSteps
      <3> QED BY <3>2 DEF ThreadStates
    <2> HIDE DEF Step
    <2> QED BY <2>1
  <1>3. Threaded(f) = treated[N]
    BY DEF Threaded
  <1> HIDE DEF treated
  <1>4. \A k \in 0..N : treated[k] = IF k = 0 THEN f ELSE ThreadOne(f, treated[k - 1], a[k])
    <2> HIDE DEF N, a
    <2> QED BY <1>2
  <1> DEFINE S == {k \in Nat : k <= N => ThreadedFrom(f, treated[k], todo(k))}
  <1>5. K \subseteq Blocks(f) /\ \A b \in K : Threadable(f, b)
    OBVIOUS
  <1> HIDE DEF N, a, K, Step
  <1>6. \A k \in 0..N : todo(k) \in SUBSET Blocks(f)
    BY <1>1, <1>5
  <1>7. 0 \in S
    <2>1. Edited(f, f)
      BY SoundFacts DEF Edited
    <2>2. ThreadedFrom(f, f, todo(0))
      <3> HIDE DEF todo
      <3> QED BY <2>1, LessensSame DEF ThreadedFrom
    <2>3. treated[0] = f
      BY <1>1, <1>4
    <2> HIDE DEF todo
    <2> QED BY <2>2, <2>3
  <1>8. ASSUME NEW n \in Nat, n \in S PROVE n + 1 \in S
    <2> SUFFICES ASSUME n + 1 <= N PROVE ThreadedFrom(f, treated[n + 1], todo(n + 1))
      OBVIOUS
    <2>1. n <= N /\ n \in 0..N /\ n + 1 \in 0..N /\ n + 1 - 1 = n /\ n + 1 # 0 /\ n + 1 \in 1..N /\ n + 1 \in (n + 1)..N
      BY <1>1
    <2>2. ThreadedFrom(f, treated[n], todo(n))
      BY <1>8, <2>1
    <2>3. treated[n + 1] = ThreadOne(f, treated[n], a[n + 1])
      <3> HIDE DEF S, todo
      <3> QED BY <1>4, <2>1
    <2>4. a[n + 1] \in todo(n) /\ Threadable(f, a[n + 1])
      BY <1>1, <1>5, <2>1
    <2>5. todo(n) \ {a[n + 1]} = todo(n + 1)
      <3>1. \A j \in (n + 1)..N : j \in 1..N /\ (j = n + 1 \/ j \in (n + 1 + 1)..N)
        BY <1>1
      <3>2. \A j \in (n + 1 + 1)..N : j \in 1..N /\ j # n + 1 /\ j \in (n + 1)..N
        BY <1>1
      <3> QED BY <1>1, <2>1, <3>1, <3>2
    <2>6. todo(n) \in SUBSET Blocks(f)
      BY <1>6, <2>1
    <2> HIDE DEF todo, S
    <2>7. ThreadedFrom(f, ThreadOne(f, treated[n], a[n + 1]), todo(n) \ {a[n + 1]})
      BY <2>2, <2>4, <2>6, ThreadOneKeeps
    <2> QED BY <2>3, <2>5, <2>7
  <1> HIDE DEF S
  <1>9. N \in S
    BY <1>1, <1>7, <1>8, SetInduction
  <1>10. ThreadedFrom(f, treated[N], todo(N))
    BY <1>1, <1>9 DEF S
  <1> HIDE DEF todo
  <1> QED BY <1>3, <1>10 DEF ThreadedFrom

-----------------------------------------------------------------------------
(* The steps of the pass: each keeps the invariant.                         *)
LEMMA RewriteKeeps ==
    ASSUME SimplifyInv, NEW from, NEW to, NEW g, Rewrite(from, to, g), from # "done",
           to \notin {"unreachable", "done"}, Sound(g), from = "unreachable" => Reachable(g) = Blocks(g)
    PROVE  SimplifyInv'
  <1>1. /\ phase = from /\ phase' = to /\ func' = g /\ changed' = (changed \/ g # func)
    BY DEF Rewrite, Becomes
  <1>2. Sound(func)'
    BY <1>1
  <1>3. AllReached'
    <2> SUFFICES ASSUME ~changed' PROVE Reachable(g) = Blocks(g)
      BY <1>1 DEF AllReached
    <2>1. ~changed /\ g = func
      BY <1>1, Zenon
    <2>2. CASE from = "unreachable"
      BY <2>2
    <2>3. CASE from # "unreachable"
      BY <1>1, <2>1, <2>3 DEF SimplifyInv, AllReached
    <2> QED BY <2>2, <2>3
  <1>4. phase' # "unreachable" /\ phase' # "done"
    BY <1>1
  <1> QED BY <1>2, <1>3, <1>4 DEF SimplifyInv

LEMMA AttemptKeeps ==
    ASSUME SimplifyInv, phase \in {"booleans", "updates"}, NEW key, NEW converted, Attempt(key, converted),
           Made(func) => Made(converted)
    PROVE  SimplifyInv'
  <1>1. Sound(func) /\ Made(func) /\ AllReached
    BY SoundFacts DEF SimplifyInv, Made
  <1>2. CASE Verified(converted) /\ Becomes(converted)
    <2>1. func' = converted /\ changed' = (changed \/ converted # func) /\ phase' = phase
      BY <1>2 DEF Becomes, Attempt
    <2>2. Sound(converted)
      BY <1>1, <1>2, VerifiedSound DEF Made
    <2>3. Sound(func)'
      BY <2>1, <2>2
    <2>4. AllReached'
      <3> SUFFICES ASSUME phase' # "unreachable", ~changed' PROVE Reachable(converted) = Blocks(converted)
        BY <2>1 DEF AllReached
      <3>1. ~changed /\ converted = func
        BY <2>1, Zenon
      <3> QED BY <1>1, <2>1, <3>1 DEF AllReached
    <2> QED BY <2>1, <2>3, <2>4 DEF SimplifyInv
  <1>3. CASE UNCHANGED <<source, preserve, func, changed, rounds>>
    <2>1. func' = func /\ changed' = changed /\ phase' = phase
      BY <1>3 DEF Attempt
    <2> QED BY <2>1 DEF SimplifyInv, AllReached
  <1> QED BY <1>2, <1>3 DEF Attempt

LEMMA EndKeeps ==
    ASSUME SimplifyInv, NEW from, NEW to, NEW candidates, EndAttempts(from, to, candidates),
           from \in {"booleans", "updates"}, to \in {"updates", "thread"}
    PROVE  SimplifyInv'
  <1>1. phase = from /\ phase' = to /\ func' = func /\ changed' = changed
    BY DEF EndAttempts
  <1> QED BY <1>1 DEF SimplifyInv, AllReached

LEMMA FirstFacts ==
    ASSUME NEW S, S \subseteq Nat, S # {}
    PROVE  First(S) \in S
  <1>1. \E x \in S : \A y \in S : x <= y
    BY LeastElement
  <1> QED BY <1>1 DEF First

LEMMA InitHolds ==
    ASSUME Init
    PROVE  SimplifyInv
  <1>1. /\ WellFormed(func) /\ Verified(func) /\ Constructed(func)
        /\ phase = "unreachable" /\ ~changed
    BY ProgramAssumption DEF Init
  <1>2. Shape(func)
    BY <1>1 DEF WellFormed, Shape
  <1>3. Sound(func)
    BY <1>1, <1>2, VerifiedSound
  <1> QED BY <1>1, <1>3 DEF SimplifyInv, AllReached

LEMMA StepKeeps ==
    ASSUME SimplifyInv, Simplify
    PROVE  SimplifyInv'
  <1>0. phase # "done" => Sound(func) /\ AllReached
    BY DEF SimplifyInv
  <1>1. CASE RemoveUnreachable
    <2>1. Sound(func)
      BY <1>0, <1>1 DEF RemoveUnreachable, Rewrite
    <2>2. Sound(OnlyReachable(func)) /\ Reachable(OnlyReachable(func)) = Blocks(OnlyReachable(func))
      BY <2>1, LiveSound
    <2>3. Rewrite("unreachable", "branches", OnlyReachable(func))
      BY <1>1 DEF RemoveUnreachable
    <2> QED BY <2>2, <2>3, RewriteKeeps
  <1>2. CASE SimplifyBranches
    <2>1. Sound(func)
      BY <1>0, <1>2 DEF SimplifyBranches, Rewrite
    <2>2. Sound(BranchesSimplified(func))
      BY <2>1, BranchesSound
    <2>3. Rewrite("branches", "booleans", BranchesSimplified(func))
      BY <1>2 DEF SimplifyBranches
    <2> QED BY <2>2, <2>3, RewriteKeeps
  <1>3. CASE ConvertBoolean
    <2>1. PICK c \in ShortCircuits : \E converted \in {ShortCircuitConverted(c)} : Attempt(c.phi, converted)
      BY <1>3 DEF ConvertBoolean
    <2>2. Attempt(c.phi, ShortCircuitConverted(c))
      BY <2>1
    <2>3. Made(func) => Made(ShortCircuitConverted(c))
      BY ShortCircuitMade
    <2>4. phase \in {"booleans", "updates"}
      BY <1>3 DEF ConvertBoolean
    <2> QED BY <2>2, <2>3, <2>4, AttemptKeeps
  <1>4. CASE EndBooleans
    <2>1. EndAttempts("booleans", "updates", ShortCircuits)
      BY <1>4 DEF EndBooleans
    <2> QED BY <2>1, EndKeeps
  <1>5. CASE ConvertUpdate
    <2>1. PICK c \in ConditionalUpdates :
              \E converted \in {UpdateConverted(c)} : Attempt(<<c.block, c.phi[2]>>, converted)
      BY <1>5 DEF ConvertUpdate
    <2> DEFINE key == <<c.block, c.phi[2]>>
    <2>2. Attempt(key, UpdateConverted(c))
      BY <2>1
    <2>3. Made(func) => Made(UpdateConverted(c))
      BY UpdateMade
    <2>4. phase \in {"booleans", "updates"}
      BY <1>5 DEF ConvertUpdate
    <2> HIDE DEF key
    <2> QED BY <2>2, <2>3, <2>4, AttemptKeeps
  <1>6. CASE EndUpdates
    <2>1. EndAttempts("updates", "thread", ConditionalUpdates)
      BY <1>6 DEF EndUpdates
    <2> QED BY <2>1, EndKeeps
  <1>7. CASE ThreadBranches
    <2>1. Sound(func)
      BY <1>0, <1>7 DEF ThreadBranches, Rewrite
    <2>2. Sound(Threaded(func))
      BY <2>1, ThreadedSound
    <2>3. Rewrite("thread", "phis", Threaded(func))
      BY <1>7 DEF ThreadBranches
    <2> QED BY <2>2, <2>3, RewriteKeeps
  <1>8. CASE SimplifyTrivialPhis
    <2>1. Sound(func)
      BY <1>0, <1>8 DEF SimplifyTrivialPhis, Rewrite
    <2>2. Resolves(TrivialTable(func)) /\ Rewrite("phis", "forward", TrivialPhisSimplified(func))
      BY <1>8 DEF SimplifyTrivialPhis
    <2>3. Sound(TrivialPhisSimplified(func))
      BY <2>1, <2>2, TrivialSound
    <2> QED BY <2>2, <2>3, RewriteKeeps
  <1>9. CASE ForwardEmptyJump
    <2> DEFINE g == IF ToForward = {} THEN func ELSE Forwarded(func, First(ToForward))
    <2>1. Sound(func) /\ Rewrite("forward", "merge", g)
      BY <1>0, <1>9 DEF ForwardEmptyJump, Rewrite
    <2>2. Sound(g)
      <3>1. CASE ToForward = {}
        BY <2>1, <3>1
      <3>2. CASE ToForward # {}
        <4>1. ToForward \subseteq Blocks(func) /\ \A b \in ToForward : Forwardable(func, b)
          BY DEF ToForward
        <4>2. Blocks(func) \subseteq Nat
          BY <2>1, SoundFacts, BlockNumbers
        <4>3. First(ToForward) \in ToForward
          BY <3>2, <4>1, <4>2, FirstFacts
        <4>4. Sound(Forwarded(func, First(ToForward)))
          BY <2>1, <4>1, <4>3, ForwardedSound
        <4> QED BY <3>2, <4>4
      <3> QED BY <3>1, <3>2
    <2> HIDE DEF g
    <2> QED BY <2>1, <2>2, RewriteKeeps
  <1>10. CASE MergeLinear
    <2> DEFINE g == IF ToMerge = {} THEN func ELSE Merged(func, First(ToMerge))
    <2>1. Sound(func) /\ Rewrite("merge", "end", g)
      BY <1>0, <1>10 DEF MergeLinear, Rewrite
    <2>2. Sound(g)
      <3>1. CASE ToMerge = {}
        BY <2>1, <3>1
      <3>2. CASE ToMerge # {}
        <4>1. ToMerge \subseteq Blocks(func) /\ \A b \in ToMerge : Mergeable(func, b)
          BY DEF ToMerge
        <4>2. Blocks(func) \subseteq Nat
          BY <2>1, SoundFacts, BlockNumbers
        <4>3. First(ToMerge) \in ToMerge
          BY <3>2, <4>1, <4>2, FirstFacts
        <4>4. Sound(Merged(func, First(ToMerge)))
          BY <2>1, <4>1, <4>3, MergedSound
        <4> QED BY <3>2, <4>4
      <3> QED BY <3>1, <3>2
    <2> HIDE DEF g
    <2> QED BY <2>1, <2>2, RewriteKeeps
  <1>11. CASE NextRound
    <2>1. phase = "end" /\ phase' = "unreachable" /\ changed' = FALSE /\ func' = func
      BY <1>11 DEF NextRound, NothingChanged
    <2>2. Sound(func)'
      BY <1>0, <2>1
    <2> QED BY <2>1, <2>2 DEF SimplifyInv, AllReached
  <1>12. CASE Eliminate
    <2>1. PICK cleanup \in BOOLEAN : func' = DeadCodeEliminated(func, cleanup)
      BY <1>12 DEF Eliminate
    <2>2. phase = "end" /\ ~changed /\ phase' = "done"
      BY <1>12 DEF Eliminate
    <2>3. Sound(func) /\ Reachable(func) = Blocks(func)
      BY <1>0, <2>2 DEF AllReached
    <2> DEFINE g == DeadCodeEliminated(func, cleanup)
    <2>4. /\ Sound(g) /\ Blocks(g) = Blocks(func) /\ Reachable(g) = Reachable(func)
          /\ NoDeadPhis(g)
      BY <2>3, EliminatedSound
    <2> HIDE DEF g
    <2>5. Verified(g)
      BY <2>3, <2>4, SoundVerified
    <2>6. func' = g
      BY <2>1 DEF g
    <2>7. Verified(func)' /\ NoDeadPhis(func)'
      BY <2>4, <2>5, <2>6
    <2> QED BY <2>2, <2>7 DEF SimplifyInv
  <1> QED BY <1>1, <1>2, <1>3, <1>4, <1>5, <1>6, <1>7, <1>8, <1>9, <1>10, <1>11, <1>12 DEF Simplify

(* What the pass hands on: the verifier accepts every function it leaves,   *)
(* and no phi is left that nothing reads, as the panic after a changed      *)
(* function and the back end require.                                       *)
THEOREM SimplifiedFunctionsVerify == RunSpec => []ReadyForBackEnd
  <1>1. RunInit => SimplifyInv
    BY InitHolds DEF RunInit
  <1>2. SimplifyInv /\ [RunNext]_allVars => SimplifyInv'
    <2> SUFFICES ASSUME SimplifyInv, [RunNext]_allVars PROVE SimplifyInv'
      OBVIOUS
    <2>1. CASE Transform
      BY <2>1, StepKeeps DEF Transform
    <2>2. CASE UNCHANGED vars
      <3>1. func' = func /\ phase' = phase /\ changed' = changed
        BY <2>2 DEF vars
      <3> QED BY <3>1 DEF SimplifyInv, AllReached
    <2>3. Begin \/ Answer \/ Returned \/ UNCHANGED allVars => UNCHANGED vars
      BY DEF Begin, Answer, Returned, allVars
    <2> QED BY <2>1, <2>2, <2>3 DEF RunNext
  <1>3. SimplifyInv => ReadyForBackEnd
    BY DEF SimplifyInv, ReadyForBackEnd
  <1> QED BY <1>1, <1>2, <1>3, PTL DEF RunSpec

-----------------------------------------------------------------------------
(* The weight of a function as a number: no more than its blocks and phis,  *)
(* and less with every live thing that is gone.                             *)
LEMMA LiveFinite ==
    ASSUME NEW f, Shape(f)
    PROVE  /\ IsFiniteSet(Live(f)) /\ Weight(f) \in Nat /\ Weight(f) >= 1
           /\ Weight(f) <= Size(f) /\ Size(f) \in Nat
  <1> DEFINE starts == {<<b, 0>> : b \in Blocks(f)}
             phis == {s \in Sites(f) : IsPhi(At(f, s))}
  <1>1. IsFiniteSet(Blocks(f)) /\ Cardinality(Blocks(f)) = Len(f.blocks) /\ Len(f.blocks) \in Nat
        /\ Entry \in Blocks(f)
    BY ShapeFacts
  <1>2. IsFiniteSet(starts) /\ Cardinality(starts) <= Cardinality(Blocks(f))
    <2> DEFINE F == [b \in Blocks(f) |-> <<b, 0>>]
    <2>1. F \in Surjection(Blocks(f), starts)
      BY DEF Surjection
    <2> HIDE DEF F, starts
    <2> QED BY <1>1, <2>1, FS_Surjection
  <1>3. IsFiniteSet(phis)
    BY SitesFinite, FS_Subset
  <1>4. Live(f) \subseteq starts \cup phis
    <2>1. ASSUME NEW s \in Live(f) PROVE s \in starts \cup phis
      <3>1. s = <<s[1], s[2]>> /\ s[1] \in Blocks(f) /\ Lives(f, s[1], s[2])
        BY DEF Live
      <3>2. CASE s[2] = 0
        BY <3>1, <3>2
      <3>3. CASE s[2] \in DOMAIN Insts(f, s[1]) /\ IsPhi(Insts(f, s[1])[s[2]])
        <4>1. <<s[1], s[2]>> \in Sites(f)
          BY <3>1, <3>3 DEF Sites
        <4>2. IsPhi(At(f, s))
          BY <3>3 DEF At
        <4> QED BY <3>1, <4>1, <4>2
      <3> QED BY <3>1, <3>2, <3>3 DEF Lives
    <2> QED BY <2>1
  <1>5. <<Entry, 0>> \in Live(f)
    <2>1. Entry \in Reachable(f)
      BY AvoidingFacts
    <2> QED BY <1>1, <2>1 DEF Live, Lives
  <1>6. /\ Cardinality(starts) \in Nat /\ Cardinality(phis) \in Nat /\ Cardinality(starts \cap phis) \in Nat
        /\ IsFiniteSet(starts \cup phis) /\ Cardinality(starts \cup phis) \in Nat
        /\ Cardinality(starts \cup phis) = Cardinality(starts) + Cardinality(phis) - Cardinality(starts \cap phis)
    <2> HIDE DEF starts, phis
    <2>1. IsFiniteSet(starts \cap phis)
      BY <1>2, FS_Intersection
    <2> QED BY <1>2, <1>3, <2>1, FS_Union, FS_CardinalityType
  <1>7. Size(f) = Len(f.blocks) + Cardinality(phis)
    BY DEF Size
  <1> HIDE DEF starts, phis
  <1>8. IsFiniteSet(Live(f)) /\ Weight(f) \in Nat /\ Weight(f) <= Cardinality(starts \cup phis)
    BY <1>4, <1>6, FS_Subset, FS_CardinalityType DEF Weight
  <1>9. Weight(f) # 0
    BY <1>5, <1>8, FS_EmptySet DEF Weight
  <1>10. \A n, a, p, c, u, w \in Nat : a <= n /\ u = a + p - c /\ w <= u => w <= n + p
    OBVIOUS
  <1>11. Weight(f) <= Len(f.blocks) + Cardinality(phis)
    BY <1>1, <1>2, <1>6, <1>8, <1>10
  <1>12. Weight(f) >= 1
    BY ONLY <1>8, <1>9
  <1>13. Size(f) \in Nat
    <2>1. \A n, p \in Nat : n + p \in Nat
      OBVIOUS
    <2>2. Len(f.blocks) \in Nat /\ Cardinality(phis) \in Nat
      BY ONLY <1>1, <1>6
    <2>3. Len(f.blocks) + Cardinality(phis) \in Nat
      BY ONLY <2>1, <2>2
    <2> QED BY ONLY <1>7, <2>3
  <1> QED BY <1>7, <1>8, <1>11, <1>12, <1>13

LEMMA Weights ==
    ASSUME NEW f, NEW g, Shape(f), Live(g) \subseteq Live(f)
    PROVE  /\ Weight(g) \in Nat /\ Weight(g) <= Weight(f)
           /\ Weight(g) = Weight(f) => Live(g) = Live(f)
  BY LiveFinite, FS_Subset, FS_CardinalityType DEF Weight

-----------------------------------------------------------------------------
(* The rewrites one by one.  Forwarding leaves the empty block out of       *)
(* reach, merging the block whose code has moved.                           *)
LEMMA ForwardedLess ==
    ASSUME NEW f, Sound(f), NEW b \in Blocks(f), Forwardable(f, b)
    PROVE  Lessens(f, Forwarded(f, b))
  <1> DEFINE g == Forwarded(f, b)
  <1>1. Shape(f) /\ Shape(g) /\ Blocks(g) = Blocks(f)
    BY SoundFacts, ForwardedView DEF Edited
  <1>2. Reachable(g) \subseteq Reachable(f) \ {b}
    BY ForwardedWays
  <1>3. ASSUME NEW a \in Reachable(g), NEW i \in DOMAIN Insts(g, a), IsPhi(Insts(g, a)[i])
        PROVE  i \in DOMAIN Insts(f, a) /\ IsPhi(Insts(f, a)[i])
    <2>1. a \in Blocks(f)
      BY <1>1, <1>2, AvoidingFacts
    <2>2. Edited(f, g)
      BY ForwardedView
    <2>3. i \in DOMAIN Insts(f, a)
      BY <2>1, <2>2 DEF Edited
    <2>4. \/ IsPhi(Insts(f, a)[i])
          \/ Insts(g, a)[i] = Insts(f, a)[i]
      BY <2>1, <2>3, ForwardedView
    <2> QED BY <1>3, <2>3, <2>4
  <1>4. Live(g) \subseteq Live(f)
    <2> HIDE DEF g
    <2> QED BY <1>1, <1>2, <1>3, FewerLive
  <1>5. Reachable(f) = Blocks(f) => Live(g) # Live(f)
    <2> HIDE DEF g
    <2> QED BY <1>1, <1>2, ReachedAlike
  <1>6. Exact(f) => Exact(g)
    <2> DEFINE blocks == g.blocks
    <2>1. g = [f EXCEPT !.blocks = blocks] /\ DOMAIN blocks = Blocks(f)
      BY <1>1 DEF Forwarded, Shape, Blocks
    <2>2. "blocks" \in DOMAIN f
      BY <1>1 DEF Shape
    <2> HIDE DEF g, blocks
    <2> QED BY <2>1, <2>2, ExactEdit
  <1> HIDE DEF g
  <1> QED BY <1>4, <1>5, <1>6 DEF Lessens, g

LEMMA MergedLess ==
    ASSUME NEW f, Sound(f), NEW b \in Blocks(f), Mergeable(f, b)
    PROVE  Lessens(f, Merged(f, b))
  <1> DEFINE g == Merged(f, b)
             next == Term(f, b).succ[1]
  <1>0. Shape(f) /\ Constructed(f)
    BY SoundFacts
  <1>1. Shape(g) /\ Blocks(g) = Blocks(f)
    BY <1>0, MergedView
  <1>2. Reachable(g) \subseteq Reachable(f) \ {next} /\ next \in Blocks(f)
    BY <1>0, MergedWays, MergeableFacts
  <1>3. ASSUME NEW a \in Reachable(g), NEW i \in DOMAIN Insts(g, a), IsPhi(Insts(g, a)[i])
        PROVE  i \in DOMAIN Insts(f, a) /\ IsPhi(Insts(f, a)[i])
    <2>1. a \in Blocks(f)
      BY <1>0, <1>2, AvoidingFacts
    <2>2. PICK c \in Blocks(f) : \E k \in DOMAIN Insts(f, c) :
             a = MovedTo(b, next, c) /\ i = PlaceAt(f, b, next, c, k)
      BY <1>0, <2>1, MergedView
    <2>6. PICK k \in DOMAIN Insts(f, c) : a = MovedTo(b, next, c) /\ i = PlaceAt(f, b, next, c, k)
      BY <2>2
    <2>3. MovedInst(f, g, b, next, c, k)
      BY <1>0, MergedView
    <2>4. IsPhi(Insts(f, c)[k])
      BY <1>3, <2>6, <2>3 DEF MovedInst, IsPhi
    <2>5. c # next
      BY <1>0, <2>4, MergeableFacts
    <2> HIDE DEF g, next
    <2> QED BY <2>6, <2>4, <2>5 DEF MovedTo, PlaceAt
  <1>4. Live(g) \subseteq Live(f)
    <2> HIDE DEF g
    <2> QED BY <1>1, <1>2, <1>3, FewerLive
  <1>5. Reachable(f) = Blocks(f) => Live(g) # Live(f)
    <2> HIDE DEF g, next
    <2> QED BY <1>0, <1>1, <1>2, ReachedAlike
  <1>6. Exact(f) => Exact(g)
    <2> DEFINE whole == Joint(f, b, next)
               first == whole.blocks
               second == g.blocks
    <2>1. "blocks" \in DOMAIN f
      BY <1>0 DEF Shape
    <2>2. whole = [f EXCEPT !.blocks = first] /\ DOMAIN first = Blocks(f)
      BY <2>1 DEF Joint, Blocks
    <2>3. "blocks" \in DOMAIN whole /\ Blocks(whole) = DOMAIN first
      BY <2>1, <2>2 DEF Blocks
    <2>4. g = [whole EXCEPT !.blocks = second] /\ DOMAIN second = Blocks(whole)
      <3> HIDE DEF whole, first
      <3> QED BY <2>3 DEF Merged, Blocks, whole
    <2> HIDE DEF g, whole, first, second
    <2>5. Exact(f) => Exact(whole)
      BY <2>1, <2>2, ExactEdit
    <2>6. Exact(whole) => Exact(g)
      BY <2>3, <2>4, ExactEdit
    <2> QED BY <2>5, <2>6
  <1> HIDE DEF g
  <1> QED BY <1>4, <1>5, <1>6 DEF Lessens, g

LEMMA SameCode ==
    ASSUME NEW f, NEW g, Shape(f), Shape(g), Blocks(g) = Blocks(f),
           \A b \in Blocks(f) :
              /\ DOMAIN Insts(g, b) = DOMAIN Insts(f, b)
              /\ \A i \in DOMAIN Insts(f, b) : Insts(g, b)[i] = Insts(f, b)[i]
              /\ Term(g, b) = Term(f, b)
    PROVE  g.blocks = f.blocks
  <1>1. ASSUME NEW h, Shape(h)
        PROVE  /\ h.blocks = [b \in Blocks(h) |-> h.blocks[b]]
               /\ \A b \in Blocks(h) : /\ h.blocks[b] = [insts |-> Insts(h, b), term |-> Term(h, b)]
                                       /\ Insts(h, b) = [i \in DOMAIN Insts(h, b) |-> Insts(h, b)[i]]
    <2>1. h.blocks \in Seq(BlockShape)
      BY <1>1 DEF Shape
    <2>2. h.blocks = [b \in Blocks(h) |-> h.blocks[b]] /\ \A b \in Blocks(h) : h.blocks[b] \in BlockShape
      BY <2>1 DEF Blocks
    <2>3. ASSUME NEW b \in Blocks(h)
          PROVE  /\ h.blocks[b] = [insts |-> Insts(h, b), term |-> Term(h, b)]
                 /\ Insts(h, b) = [i \in DOMAIN Insts(h, b) |-> Insts(h, b)[i]]
      BY <2>2 DEF BlockShape, Insts, Term
    <2> QED BY <2>2, <2>3
  <1>2. ASSUME NEW b \in Blocks(f) PROVE g.blocks[b] = f.blocks[b]
    <2>1. Insts(g, b) = Insts(f, b)
      <3>1. /\ Insts(g, b) = [i \in DOMAIN Insts(g, b) |-> Insts(g, b)[i]]
            /\ Insts(f, b) = [i \in DOMAIN Insts(f, b) |-> Insts(f, b)[i]]
        BY <1>1
      <3> QED BY <3>1
    <2>2. g.blocks[b] = [insts |-> Insts(g, b), term |-> Term(g, b)]
      BY <1>1
    <2>3. f.blocks[b] = [insts |-> Insts(f, b), term |-> Term(f, b)]
      BY <1>1
    <2>4. Term(g, b) = Term(f, b)
      OBVIOUS
    <2> QED BY ONLY <2>1, <2>2, <2>3, <2>4
  <1>3. g.blocks = [b \in Blocks(f) |-> g.blocks[b]] /\ f.blocks = [b \in Blocks(f) |-> f.blocks[b]]
    BY <1>1
  <1> QED BY <1>2, <1>3

LEMMA NothingReplaced ==
    ASSUME NEW table, DOMAIN table = {}, NEW reader, reader = [x \in DOMAIN reader |-> reader[x]],
           "args" \in DOMAIN reader, reader.args \in Seq(Nat)
    PROVE  Replaced(table, reader) = reader
  <1> DEFINE new == Replaced(table, reader)
  <1>1. IsFiniteSet(DOMAIN table) /\ \A u \in DOMAIN table : table[u] \in Nat
    BY FS_EmptySet
  <1>2. /\ new = [reader EXCEPT !.args = new.args] /\ new.args \in Seq(Nat)
        /\ DOMAIN new.args = DOMAIN reader.args
        /\ \A k \in DOMAIN reader.args : new.args[k] = Resolve(table, reader.args[k])
    BY <1>1, ReplacedFacts
  <1>3. \A v : Resolve(table, v) = v
    BY DEF Resolve
  <1> HIDE DEF new
  <1>4. new.args = [k \in DOMAIN reader.args |-> new.args[k]] /\ \A k \in DOMAIN reader.args : new.args[k] = reader.args[k]
    BY <1>2, <1>3
  <1>5. new.args = reader.args
    BY <1>4, SameSeq
  <1>6. new = reader
    BY <1>2, <1>5
  <1> QED BY <1>6 DEF new

LEMMA TrivialLess ==
    ASSUME NEW f, Sound(f)
    PROVE  Lessens(f, TrivialPhisSimplified(f))
  <1> DEFINE g == TrivialPhisSimplified(f)
             table == TrivialTable(f)
  <1>0. Shape(f) /\ Reachable(f) \subseteq Blocks(f)
    BY SoundFacts, AvoidingFacts
  <1>1. /\ Edited(f, g)
        /\ \A b \in Blocks(f) :
              /\ \A i \in DOMAIN Insts(f, b) :
                    Insts(g, b)[i] = IF Trivial(f, Insts(f, b)[i]) THEN Nop ELSE Replaced(table, Insts(f, b)[i])
              /\ Term(g, b) = Replaced(table, Term(f, b))
    BY TrivialView
  <1>2. /\ IsFiniteSet(DOMAIN table) /\ \A u \in DOMAIN table : table[u] \in Nat
        /\ \A u \in DOMAIN table : \E b \in Blocks(f) : \E i \in DOMAIN Insts(f, b) : Trivial(f, Insts(f, b)[i])
    <2>1. Values(f) \subseteq Nat
      BY <1>0, ShapeFacts
    <2> QED BY <2>1, TrivialFacts
  <1> HIDE DEF g, table
  <1>3. /\ Shape(g) /\ Blocks(g) = Blocks(f)
        /\ \A b \in Blocks(f) : DOMAIN Insts(g, b) = DOMAIN Insts(f, b)
    BY <1>1 DEF Edited
  <1>4. Reachable(g) = Reachable(f)
    <2>1. ASSUME NEW b \in Blocks(f) PROVE Successors(g, b) = Successors(f, b)
      <3>1. Term(f, b) \in [args : Seq(Nat), succ : Seq(Nat)]
        BY <1>0, BlockFacts
      <3>2. Replaced(table, Term(f, b)).succ = Term(f, b).succ
        BY <1>2, <3>1, ReplacedTerm
      <3> QED BY <1>1, <3>2 DEF Successors
    <2> QED BY <1>0, <1>3, <2>1, SameWays
  <1>5. ASSUME NEW b \in Blocks(f), NEW i \in DOMAIN Insts(f, b)
        PROVE  /\ IsPhi(Insts(g, b)[i]) => IsPhi(Insts(f, b)[i]) /\ ~Trivial(f, Insts(f, b)[i])
               /\ Trivial(f, Insts(f, b)[i]) => IsPhi(Insts(f, b)[i])
    <2>1. Insts(f, b)[i] \in InstShape
      BY <1>0, InstFacts
    <2>2. Replaced(table, Insts(f, b)[i]).op = Insts(f, b)[i].op
      BY <1>2, <2>1, ReplacedInst
    <2> QED BY <1>1, <2>2 DEF IsPhi, Nop, Trivial
  <1>6. Live(g) \subseteq Live(f)
    <2>1. \A b \in Reachable(g) : \A i \in DOMAIN Insts(g, b) :
              IsPhi(Insts(g, b)[i]) => i \in DOMAIN Insts(f, b) /\ IsPhi(Insts(f, b)[i])
      BY <1>0, <1>3, <1>4, <1>5
    <2> QED BY <1>3, <1>4, <2>1, FewerLive
  <1>7. ASSUME Reachable(f) = Blocks(f), Live(g) = Live(f) PROVE g.blocks = f.blocks
    <2>1. ASSUME NEW b \in Blocks(f), NEW i \in DOMAIN Insts(f, b) PROVE ~Trivial(f, Insts(f, b)[i])
      <3>1. i \in Nat /\ i # 0
        BY <1>0, InstFacts
      <3>2. Lives(g, b, i) => ~Trivial(f, Insts(f, b)[i])
        BY <1>5, <3>1 DEF Lives
      <3>3. Trivial(f, Insts(f, b)[i]) => Lives(f, b, i)
        BY <1>5, <1>7 DEF Lives
      <3> QED BY <1>7, <3>1, <3>2, <3>3, LiveAt
    <2>2. DOMAIN table = {}
      BY <1>2, <2>1
    <2>3. ASSUME NEW b \in Blocks(f) PROVE Term(g, b) = Term(f, b)
      <3> DEFINE term == Term(f, b)
      <3>1. term \in [args : Seq(Nat), succ : Seq(Nat)]
        BY <1>0, BlockFacts
      <3> HIDE DEF term
      <3>2. term = [x \in DOMAIN term |-> term[x]] /\ "args" \in DOMAIN term /\ term.args \in Seq(Nat)
        BY <3>1
      <3>3. Replaced(table, term) = term
        BY <2>2, <3>2, NothingReplaced
      <3> QED BY <1>1, <3>3 DEF term
    <2>4. ASSUME NEW b \in Blocks(f), NEW i \in DOMAIN Insts(f, b) PROVE Insts(g, b)[i] = Insts(f, b)[i]
      <3> DEFINE inst == Insts(f, b)[i]
      <3>1. inst \in InstShape
        BY <1>0, InstFacts
      <3> HIDE DEF inst
      <3>2. inst = [x \in DOMAIN inst |-> inst[x]] /\ "args" \in DOMAIN inst /\ inst.args \in Seq(Nat)
        BY <3>1 DEF InstShape
      <3>3. Replaced(table, inst) = inst
        BY <2>2, <3>2, NothingReplaced
      <3> QED BY <1>1, <2>1, <3>3 DEF inst
    <2> QED BY <1>0, <1>3, <2>3, <2>4, SameCode
  <1>8. (Exact(f) => Exact(g)) /\ (Exact(f) /\ g.blocks = f.blocks => g = f)
    <2> DEFINE erased == Erased(f, TrivialPhis(f))
               first == erased.blocks
               second == g.blocks
    <2>1. "blocks" \in DOMAIN f
      BY <1>0 DEF Shape
    <2>2. erased = [f EXCEPT !.blocks = first] /\ DOMAIN first = Blocks(f)
      BY <2>1 DEF Erased, Blocks
    <2>3. "blocks" \in DOMAIN erased /\ DOMAIN first = Blocks(erased)
      BY <2>1, <2>2 DEF Blocks
    <2>4. g = [erased EXCEPT !.blocks = second]
      <3> HIDE DEF erased, first
      <3> QED BY <2>3 DEF g, TrivialPhisSimplified, Rewritten, erased
    <2> HIDE DEF erased, first, second
    <2>5. DOMAIN second = Blocks(f)
      BY <1>3 DEF Blocks, second
    <2>6. g = [f EXCEPT !.blocks = second]
      BY <2>1, <2>2, <2>4
    <2> QED BY <2>1, <2>5, <2>6, ExactEdit DEF second
  <1> QED BY <1>6, <1>7, <1>8 DEF Lessens, g

(* Numbering all blocks anew changes no number, and forgetting nothing      *)
(* changes no phi.                                                          *)
LEMMA AllNumbers ==
    ASSUME NEW N \in Nat
    PROVE  /\ Cardinality(1..N) = N
           /\ \A b \in 1..N : NewNumber(1..N, b) = b
           /\ Ascending(1..N) = [k \in 1..N |-> k]
  <1> DEFINE K == 1..N
             a == Ascending(K)
  <1>1. Cardinality(1..N) = N
    BY FS_Interval
  <1>2. ASSUME NEW b \in 1..N PROVE NewNumber(1..N, b) = b
    <2>1. {x \in 1..N : x <= b} = 1..b
      OBVIOUS
    <2>2. Cardinality(1..b) = b
      BY FS_Interval
    <2> QED BY <2>1, <2>2 DEF NewNumber
  <1>3. \A i \in K : NewNumber(K, i) \in 1..Cardinality(K) /\ a[NewNumber(K, i)] = i
    <2>1. K \in SUBSET (1..N)
      OBVIOUS
    <2> HIDE DEF K
    <2> QED BY <2>1, NumberFacts
  <1>4. a \in Seq(K) /\ Len(a) = Cardinality(K)
    <2>1. K \in SUBSET (1..N)
      OBVIOUS
    <2> HIDE DEF K
    <2> QED BY <2>1, AscendingFacts
  <1>5. \A i \in 1..N : a[i] = i
    BY <1>2, <1>3
  <1>6. a = [k \in 1..N |-> a[k]]
    <2> HIDE DEF a
    <2> QED BY <1>1, <1>4
  <1> HIDE DEF a
  <1>7. a = [k \in 1..N |-> k]
    BY <1>5, <1>6
  <1> QED BY <1>1, <1>2, <1>7 DEF a

LEMMA NothingForgotten ==
    ASSUME NEW phi \in InstShape, Len(phi.args) = Len(phi.preds), NEW gone, gone \cap Elements(phi.preds) = {}
    PROVE  Forget(phi, gone) = phi
  <1> DEFINE n == Len(phi.preds)
             P == phi.preds
             A == phi.args
  <1>1. /\ P \in Seq(Nat) /\ A \in Seq(Nat) /\ n \in Nat /\ DOMAIN P = 1..n /\ DOMAIN A = 1..n
        /\ phi = [op |-> phi.op, result |-> phi.result, args |-> A, preds |-> P]
    BY DEF InstShape
  <1>2. {k \in DOMAIN P : P[k] \notin gone} = 1..n
    <2>1. \A k \in DOMAIN P : P[k] \in Elements(P)
      BY DEF Elements
    <2> HIDE DEF n
    <2> QED BY <1>1, <2>1
  <1>3. Ascending({k \in DOMAIN P : P[k] \notin gone}) = [k \in 1..n |-> k]
    <2> HIDE DEF n, P
    <2> QED BY <1>1, <1>2, AllNumbers
  <1> DEFINE kept == Ascending({k \in DOMAIN P : P[k] \notin gone})
             P2 == [j \in DOMAIN kept |-> P[kept[j]]]
             A2 == [j \in DOMAIN kept |-> A[kept[j]]]
  <1>4. Forget(phi, gone) = [phi EXCEPT !.preds = P2, !.args = A2]
    BY DEF Forget
  <1>5. P2 = P /\ A2 = A
    <2> HIDE DEF n, P, A
    <2>1. kept = [k \in 1..n |-> k]
      BY <1>3
    <2> HIDE DEF kept
    <2>2. P2 = [j \in 1..n |-> P[j]] /\ A2 = [j \in 1..n |-> A[j]]
      BY <2>1
    <2>3. P = [j \in 1..n |-> P[j]] /\ A = [j \in 1..n |-> A[j]]
      BY <1>1
    <2> QED BY <2>2, <2>3
  <1> HIDE DEF P2, A2, kept
  <1>6. [phi EXCEPT !.preds = P, !.args = A] = phi
    BY <1>1
  <1> QED BY <1>4, <1>5, <1>6

(* remove_unreachable_blocks takes nothing away that is live, and leaves a  *)
(* function alone all of whose blocks are reachable.                        *)
LEMMA SurvivorsWeigh ==
    ASSUME NEW f, Shape(f), Constructed(f), "depth" \in DOMAIN f
    PROVE  LET g == OnlyReachable(f) IN Exact(g) /\ Weight(g) <= Weight(f)
  <1> DEFINE g == OnlyReachable(f)
             K == Reachable(f)
             m == Cardinality(K)
             a == Ascending(K)
             F == [s \in Live(g) |-> <<a[s[1]], s[2]>>]
  <1>1. /\ m \in Nat /\ DOMAIN a = 1..m /\ K \subseteq Blocks(f)
        /\ \A n \in 1..m : a[n] \in K /\ NewNumber(K, a[n]) = n
    BY SurvivorFacts
  <1>2. /\ Shape(g) /\ Blocks(g) = 1..m
        /\ \A n \in 1..m :
              /\ DOMAIN Insts(g, n) = DOMAIN Insts(f, a[n])
              /\ \A i \in DOMAIN Insts(g, n) :
                    Insts(g, n)[i] = LiveInst(Insts(f, a[n])[i], K, Blocks(f) \ K)
    BY LiveView
  <1>3. Exact(g)
    <2> DEFINE inst(b, i) == LiveInst(Insts(f, b)[i], K, Blocks(f) \ K)
               insts(b) == [i \in DOMAIN Insts(f, b) |-> inst(b, i)]
               block(b) == [insts |-> insts(b), term |-> LiveTerm(Term(f, b), K)]
               kinds == [v \in Values(f) |-> IF v \in Lost(f) THEN "const" ELSE f.kind[v]]
               blocks == [n \in DOMAIN a |-> block(a[n])]
               depths == [n \in DOMAIN a |-> f.depth[a[n]]]
    <2>1. g = [f EXCEPT !.kind = kinds, !.blocks = blocks, !.depth = depths]
      BY DEF OnlyReachable, Lost
    <2>2. depths = [n \in 1..m |-> depths[n]]
      <3> HIDE DEF a, m
      <3> QED BY <1>1
    <2> HIDE DEF kinds, blocks, depths
    <2>3. g = [x \in DOMAIN f |-> g[x]] /\ DOMAIN g = DOMAIN f /\ g.depth = depths
      <3> HIDE DEF g
      <3> QED BY <2>1
    <2> HIDE DEF g, m
    <2> QED BY <1>2, <2>2, <2>3 DEF Exact
  <1> HIDE DEF g, K, m, a
  <1>4. ASSUME NEW s \in Live(g)
        PROVE  s[1] \in 1..m /\ s = <<s[1], s[2]>> /\ <<a[s[1]], s[2]>> \in Live(f)
    <2>1. s = <<s[1], s[2]>> /\ s[1] \in Blocks(g) /\ s[2] \in Nat /\ Lives(g, s[1], s[2])
      BY DEF Live
    <2>2. a[s[1]] \in K /\ a[s[1]] \in Blocks(f)
      BY <1>1, <1>2, <2>1
    <2>3. ASSUME s[2] # 0
          PROVE  s[2] \in DOMAIN Insts(f, a[s[1]]) /\ IsPhi(Insts(f, a[s[1]])[s[2]])
      <3>1. s[2] \in DOMAIN Insts(g, s[1]) /\ IsPhi(Insts(g, s[1])[s[2]])
        BY <2>1, <2>3 DEF Lives
      <3>2. s[2] \in DOMAIN Insts(f, a[s[1]])
        BY <1>2, <2>1, <3>1
      <3>3. IsPhi(LiveInst(Insts(f, a[s[1]])[s[2]], K, Blocks(f) \ K))
        BY <1>2, <2>1, <3>1
      <3> QED BY <3>2, <3>3 DEF LiveInst
    <2>4. Lives(f, a[s[1]], s[2])
      BY <2>2, <2>3 DEF Lives, K
    <2> QED BY <1>2, <2>1, <2>2, <2>4 DEF Live
  <1>5. F \in Injection(Live(g), Live(f))
    <2>1. F \in [Live(g) -> Live(f)]
      BY <1>4
    <2>2. ASSUME NEW s \in Live(g), NEW t \in Live(g), F[s] = F[t] PROVE s = t
      <3>1. a[s[1]] = a[t[1]] /\ s[2] = t[2]
        BY <2>2
      <3>2. s[1] = t[1]
        BY <1>1, <1>4, <3>1
      <3> QED BY <1>4, <3>1, <3>2
    <2> HIDE DEF F
    <2> QED BY <2>1, <2>2 DEF Injection, IsInjective
  <1>6. Cardinality(Live(g)) <= Cardinality(Live(f))
    <2>1. IsFiniteSet(Live(f))
      BY LiveFinite
    <2> HIDE DEF F
    <2> QED BY <1>5, <2>1, FS_Injection
  <1> QED BY <1>3, <1>6 DEF Weight, g

LEMMA NothingUnreachable ==
    ASSUME NEW f, Shape(f), Constructed(f), Exact(f), Reachable(f) = Blocks(f)
    PROVE  OnlyReachable(f) = f
  <1> DEFINE g == OnlyReachable(f)
             N == Len(f.blocks)
             K == Reachable(f)
             a == Ascending(K)
  <1>1. N \in Nat /\ Blocks(f) = 1..N
    BY ShapeFacts
  <1>2. /\ Cardinality(K) = N
        /\ \A b \in 1..N : NewNumber(K, b) = b
        /\ a = [k \in 1..N |-> k]
    BY <1>1, AllNumbers
  <1>3. /\ Shape(g) /\ Blocks(g) = Blocks(f)
        /\ \A b \in Blocks(f) :
              /\ DOMAIN Insts(g, b) = DOMAIN Insts(f, b)
              /\ \A i \in DOMAIN Insts(g, b) : Insts(g, b)[i] = LiveInst(Insts(f, b)[i], K, {})
              /\ Term(g, b) = LiveTerm(Term(f, b), K)
    <2>1. LET h == OnlyReachable(f)
              m == Cardinality(K)
          IN
          /\ Shape(h) /\ Blocks(h) = 1..m
          /\ \A n \in 1..m :
                /\ DOMAIN Insts(h, n) = DOMAIN Insts(f, a[n])
                /\ \A i \in DOMAIN Insts(h, n) :
                      Insts(h, n)[i] = LiveInst(Insts(f, a[n])[i], K, Blocks(f) \ K)
                /\ Term(h, n) = LiveTerm(Term(f, a[n]), K)
      BY LiveView
    <2>2. Blocks(f) \ K = {}
      OBVIOUS
    <2>3. \A n \in 1..N : a[n] = n
      <3> HIDE DEF a
      <3> QED BY <1>2
    <2> HIDE DEF a, K, N
    <2>4. /\ Shape(g) /\ Blocks(g) = 1..N
          /\ \A n \in 1..N :
                /\ DOMAIN Insts(g, n) = DOMAIN Insts(f, a[n])
                /\ \A i \in DOMAIN Insts(g, n) :
                      Insts(g, n)[i] = LiveInst(Insts(f, a[n])[i], K, Blocks(f) \ K)
                /\ Term(g, n) = LiveTerm(Term(f, a[n]), K)
      BY ONLY <1>2, <2>1
    <2> HIDE DEF g
    <2>5. ASSUME NEW b \in 1..N
          PROVE  /\ DOMAIN Insts(g, b) = DOMAIN Insts(f, b)
                 /\ \A i \in DOMAIN Insts(g, b) : Insts(g, b)[i] = LiveInst(Insts(f, b)[i], K, {})
                 /\ Term(g, b) = LiveTerm(Term(f, b), K)
      BY ONLY <2>2, <2>3, <2>4, <2>5
    <2> QED BY ONLY <1>1, <2>4, <2>5
  <1> HIDE DEF N
  <1>4. ASSUME NEW list \in Seq(Nat), Elements(list) \subseteq Blocks(f) PROVE Renumbered(list, K) = list
    <2>1. \A k \in DOMAIN list : NewNumber(K, list[k]) = list[k]
      BY <1>1, <1>2, <1>4 DEF Elements
    <2>2. list = [k \in DOMAIN list |-> list[k]]
      OBVIOUS
    <2> HIDE DEF K
    <2> QED BY <2>1, <2>2 DEF Renumbered
  <1>5. ASSUME NEW b \in Blocks(f), NEW i \in DOMAIN Insts(f, b) PROVE Insts(g, b)[i] = Insts(f, b)[i]
    <2> DEFINE inst == Insts(f, b)[i]
    <2>1. /\ inst \in InstShape /\ inst.preds \in Seq(Nat)
          /\ inst = [op |-> inst.op, result |-> inst.result, args |-> inst.args, preds |-> inst.preds]
      BY InstFacts
    <2>2. IsPhi(inst) => Len(inst.args) = Len(inst.preds) /\ Elements(inst.preds) \subseteq Blocks(f)
      BY PhiLengths
    <2> HIDE DEF inst
    <2>3. ASSUME IsPhi(inst) PROVE LiveInst(inst, K, {}) = inst
      <3>1. Forget(inst, {}) = inst
        BY <2>1, <2>2, <2>3, NothingForgotten
      <3>2. Renumbered(inst.preds, K) = inst.preds
        BY <1>4, <2>1, <2>2, <2>3
      <3>3. LiveInst(inst, K, {}) = [inst EXCEPT !.preds = Renumbered(inst.preds, K)]
        BY <2>3, <3>1 DEF LiveInst
      <3> HIDE DEF K
      <3> QED BY <2>1, <3>2, <3>3
    <2>4. ~IsPhi(inst) => LiveInst(inst, K, {}) = inst
      BY DEF LiveInst
    <2> QED BY <1>3, <2>3, <2>4 DEF inst
  <1>6. ASSUME NEW b \in Blocks(f) PROVE Term(g, b) = Term(f, b)
    <2> DEFINE term == Term(f, b)
    <2>1. term \in [args : Seq(Nat), succ : Seq(Nat)] /\ Elements(term.succ) \subseteq Blocks(f)
      BY BlockFacts DEF Successors
    <2> HIDE DEF term
    <2>2. term.succ \in Seq(Nat) /\ [term EXCEPT !.succ = term.succ] = term
      BY <2>1
    <2>3. Renumbered(term.succ, K) = term.succ
      BY <1>4, <2>1, <2>2
    <2>4. LiveTerm(term, K) = term
      BY <2>2, <2>3 DEF LiveTerm
    <2> QED BY <1>3, <2>4 DEF term
  <1>7. g.blocks = f.blocks
    <2> HIDE DEF g
    <2> QED BY <1>3, <1>5, <1>6, SameCode
  <1>8. Lost(f) = {}
    BY DEF Lost
  <1>9. /\ g = [f EXCEPT !.kind = g.kind, !.blocks = g.blocks, !.depth = g.depth]
        /\ g.kind = [v \in Values(f) |-> f.kind[v]]
        /\ g.depth = [n \in DOMAIN a |-> f.depth[a[n]]]
    <2> DEFINE inst(b, i) == LiveInst(Insts(f, b)[i], K, Blocks(f) \ K)
               insts(b) == [i \in DOMAIN Insts(f, b) |-> inst(b, i)]
               block(b) == [insts |-> insts(b), term |-> LiveTerm(Term(f, b), K)]
               kinds == [v \in Values(f) |-> IF v \in Lost(f) THEN "const" ELSE f.kind[v]]
               blocks == [n \in DOMAIN a |-> block(a[n])]
               depths == [n \in DOMAIN a |-> f.depth[a[n]]]
    <2>1. g = [f EXCEPT !.kind = kinds, !.blocks = blocks, !.depth = depths]
      BY DEF OnlyReachable, Lost
    <2>2. kinds = [v \in Values(f) |-> f.kind[v]]
      BY <1>8
    <2>3. {"kind", "blocks", "depth"} \subseteq DOMAIN f
      BY DEF Shape, Exact
    <2> HIDE DEF kinds, blocks, depths, g
    <2>4. g.kind = kinds /\ g.blocks = blocks /\ g.depth = depths
      BY <2>1, <2>3
    <2> QED BY <2>1, <2>2, <2>4 DEF depths
  <1>10. g.kind = f.kind
    <2>1. f.kind = [v \in Values(f) |-> f.kind[v]]
      BY DEF Shape, Values
    <2> QED BY <1>9, <2>1
  <1>11. g.depth = f.depth
    <2>1. f.depth = [b \in Blocks(f) |-> f.depth[b]]
      BY DEF Exact
    <2>2. [n \in DOMAIN a |-> f.depth[a[n]]] = [n \in 1..N |-> f.depth[n]]
      <3> HIDE DEF a
      <3> QED BY <1>2
    <2> HIDE DEF g, a
    <2> QED BY <1>1, <1>9, <2>1, <2>2
  <1>12. \A x : [f EXCEPT ![x] = f[x]] = f
    BY DEF Exact
  <1> HIDE DEF g
  <1>13. [f EXCEPT !.kind = f.kind, !.blocks = f.blocks, !.depth = f.depth] = f
    <2>1. [f EXCEPT !.kind = f.kind] = f /\ [f EXCEPT !.blocks = f.blocks] = f /\ [f EXCEPT !.depth = f.depth] = f
      BY <1>12
    <2> QED BY ONLY <2>1
  <1> QED BY <1>7, <1>9, <1>10, <1>11, <1>13 DEF g

(* simplify_branches, alone, may change a function without taking anything  *)
(* away that is live; but then it leaves no branch to decide.               *)
Settled(f) == Reachable(f) = Blocks(f) /\ \A b \in Blocks(f) : ~Decided(f, b)

LEMMA BranchesLess ==
    ASSUME NEW f, Sound(f)
    PROVE  LET g == BranchesSimplified(f) IN
           /\ Exact(f) => Exact(g)
           /\ Live(g) \subseteq Live(f)
           /\ Reachable(f) = Blocks(f) /\ Live(g) = Live(f) => Settled(g)
           /\ Exact(f) /\ Settled(f) => g = f
  <1> DEFINE g == BranchesSimplified(f)
  <1>0. /\ Shape(f) /\ Constructed(f) /\ Reachable(f) \subseteq Blocks(f)
    BY SoundFacts, AvoidingFacts
  <1>1. /\ Edited(f, g)
        /\ \A b \in Blocks(f) :
              /\ Insts(g, b) = ForgetIn(f, b, Gone(f, b))
              /\ Term(g, b) = IF Decided(f, b) THEN Jump(Taken(f, b)) ELSE Term(f, b)
    BY BranchesView
  <1>2. (Exact(f) => Exact(g)) /\ (Exact(f) /\ g.blocks = f.blocks => g = f)
    <2> DEFINE blocks == g.blocks
    <2>1. "blocks" \in DOMAIN f
      BY <1>0 DEF Shape
    <2>2. g = [f EXCEPT !.blocks = blocks]
      BY <2>1 DEF BranchesSimplified
    <2>3. DOMAIN blocks = Blocks(f)
      BY <1>1 DEF Edited, Blocks
    <2> HIDE DEF g, blocks
    <2> QED BY <2>1, <2>2, <2>3, ExactEdit DEF blocks
  <1> HIDE DEF g
  <1>3. /\ Shape(g) /\ Blocks(g) = Blocks(f) /\ g.kind = f.kind
        /\ \A b \in Blocks(f) : DOMAIN Insts(g, b) = DOMAIN Insts(f, b)
    BY <1>1 DEF Edited
  <1>4. ASSUME NEW b \in Blocks(f), NEW i \in DOMAIN Insts(f, b)
        PROVE  Insts(g, b)[i].op = Insts(f, b)[i].op
    <2> DEFINE gone == IF i \in LeadingPhis(f, b) THEN Gone(f, b) ELSE {}
    <2>1. Forgetting(Insts(f, b)[i], Insts(g, b)[i], gone)
      BY <1>0, <1>1, ForgetInFacts
    <2> HIDE DEF gone
    <2> QED BY <2>1 DEF Forgetting
  <1>5. ASSUME NEW b \in Blocks(f), Decided(f, b)
        PROVE  ~IsBranch(g, b) /\ Successors(g, b) \subseteq Successors(f, b)
    <2>1. Taken(f, b) \in Successors(f, b) /\ Taken(f, b) \in Nat
      BY <1>0, <1>5, TakenFacts, ShapeFacts DEF Decided
    <2>2. Term(g, b) = Jump(Taken(f, b))
      BY <1>1, <1>5
    <2>3. Elements(Jump(Taken(f, b)).succ) = {Taken(f, b)} /\ Len(Jump(Taken(f, b)).succ) # 2
      BY <2>1, JumpFacts
    <2> QED BY <2>1, <2>2, <2>3 DEF IsBranch, Successors
  <1>6. ASSUME NEW b \in Blocks(f), ~Decided(f, b)
        PROVE  Term(g, b) = Term(f, b) /\ ~Decided(g, b)
    <2>1. Term(g, b) = Term(f, b)
      BY <1>1, <1>6
    <2> QED BY <1>3, <1>6, <2>1 DEF Decided, IsBranch, IsConst, Condition
  <1>7. Live(g) \subseteq Live(f)
    <2>1. \A b \in Reachable(f) : Successors(g, b) \subseteq Reachable(f)
      BY <1>0, <1>5, <1>6, AvoidingFacts DEF Successors
    <2>2. Reachable(g) \subseteq Reachable(f)
      BY <1>0, <1>3, <2>1, FewerReached
    <2>3. \A b \in Reachable(g) : \A i \in DOMAIN Insts(g, b) :
              IsPhi(Insts(g, b)[i]) => i \in DOMAIN Insts(f, b) /\ IsPhi(Insts(f, b)[i])
      BY <1>0, <1>3, <1>4, <2>2 DEF IsPhi
    <2> QED BY <1>3, <2>2, <2>3, FewerLive
  <1>8. ASSUME Reachable(f) = Blocks(f), Live(g) = Live(f) PROVE Settled(g)
    <2>1. Reachable(g) = Blocks(g)
      <3>1. Reachable(f) \subseteq Reachable(g)
        BY <1>0, <1>3, <1>8, ReachedAlike
      <3>2. Reachable(g) \subseteq Blocks(g)
        BY <1>3, AvoidingFacts
      <3> QED BY <1>3, <1>8, <3>1, <3>2
    <2>2. \A b \in Blocks(g) : ~Decided(g, b)
      BY <1>3, <1>5, <1>6 DEF Decided
    <2> QED BY <2>1, <2>2 DEF Settled
  <1>9. ASSUME Settled(f) PROVE g.blocks = f.blocks
    <2>1. \A b \in Blocks(f) : Term(g, b) = Term(f, b)
      BY <1>6, <1>9 DEF Settled
    <2>2. ASSUME NEW b \in Blocks(f), NEW i \in DOMAIN Insts(f, b) PROVE Insts(g, b)[i] = Insts(f, b)[i]
      <3> DEFINE inst == Insts(f, b)[i]
      <3>1. Gone(f, b) = {}
        BY <1>9 DEF Gone, Settled
      <3>2. Insts(g, b)[i] = IF i \in LeadingPhis(f, b) THEN Forget(inst, {}) ELSE inst
        BY <1>1, <3>1 DEF ForgetIn
      <3>3. inst \in InstShape /\ (i \in LeadingPhis(f, b) => Len(inst.args) = Len(inst.preds))
        BY <1>0, InstFacts, PhiLengths DEF LeadingPhis
      <3> HIDE DEF inst
      <3>4. i \in LeadingPhis(f, b) => Forget(inst, {}) = inst
        BY <3>3, NothingForgotten
      <3>5. Insts(g, b)[i] = inst
        BY <3>2, <3>4
      <3> QED BY <3>5 DEF inst
    <2> QED BY <1>0, <1>3, <2>1, <2>2, SameCode
  <1> QED BY <1>2, <1>7, <1>8, <1>9 DEF g

-----------------------------------------------------------------------------
(* If-conversion, step by step: no step puts a phi where there was none or  *)
(* leads to other blocks, but for the jump that goes past the block whose   *)
(* instruction has moved.                                                   *)
NoNewPhis(f, g) ==
    /\ Blocks(g) = Blocks(f) /\ (Exact(f) => Exact(g))
    /\ \A b \in Blocks(f) : \A i \in DOMAIN Insts(g, b) :
          IsPhi(Insts(g, b)[i]) => i \in DOMAIN Insts(f, b) /\ IsPhi(Insts(f, b)[i])

LEMMA NoNewPhisTwice ==
    ASSUME NEW f, NEW g, NEW h, NoNewPhis(f, g), NoNewPhis(g, h)
    PROVE  NoNewPhis(f, h)
  BY DEF NoNewPhis

(* One block is replaced.                                                   *)
LEMMA PutKeeps ==
    ASSUME NEW f, Shape(f), NEW g, NEW b \in Blocks(f), NEW block,
           g = [x \in DOMAIN f |-> g[x]], "depth" \in DOMAIN f => g.depth = f.depth,
           g.blocks = [f.blocks EXCEPT ![b] = block],
           \A i \in DOMAIN block.insts : IsPhi(block.insts[i]) => i \in DOMAIN Insts(f, b) /\ IsPhi(Insts(f, b)[i])
    PROVE  /\ NoNewPhis(f, g)
           /\ \A a \in Blocks(f) : Term(g, a) = IF a = b THEN block.term ELSE Term(f, a)
  <1>1. Blocks(g) = Blocks(f) /\ \A a \in Blocks(f) : g.blocks[a] = IF a = b THEN block ELSE f.blocks[a]
    BY DEF Blocks, Shape
  <1>2. Exact(f) => Exact(g)
    <2> SUFFICES ASSUME Exact(f) PROVE Exact(g)
      OBVIOUS
    <2>1. "depth" \in DOMAIN f /\ f.depth = [a \in Blocks(f) |-> f.depth[a]]
      BY DEF Exact
    <2>2. DOMAIN g = DOMAIN f /\ g = [x \in DOMAIN g |-> g[x]]
      OBVIOUS
    <2>3. g.depth = [a \in Blocks(g) |-> g.depth[a]]
      BY <1>1, <2>1
    <2> QED BY <2>1, <2>2, <2>3 DEF Exact
  <1>3. ASSUME NEW a \in Blocks(f), NEW i \in DOMAIN Insts(g, a), IsPhi(Insts(g, a)[i])
        PROVE  i \in DOMAIN Insts(f, a) /\ IsPhi(Insts(f, a)[i])
    <2>1. CASE a = b
      <3>1. Insts(g, a) = block.insts
        BY <1>1, <2>1 DEF Insts
      <3> QED BY <1>3, <2>1, <3>1
    <2>2. CASE a # b
      <3>1. Insts(g, a) = Insts(f, a)
        BY <1>1, <2>2 DEF Insts
      <3> QED BY <1>3, <3>1
    <2> QED BY <2>1, <2>2
  <1>4. \A a \in Blocks(f) : Term(g, a) = IF a = b THEN block.term ELSE Term(f, a)
    BY <1>1 DEF Term
  <1> QED BY <1>1, <1>2, <1>3, <1>4 DEF NoNewPhis

LEMMA ExtendedKeeps ==
    ASSUME NEW f, Made(f), NEW b \in Blocks(f), NEW code \in Seq(Code)
    PROVE  LET g == Extended(f, b, code) IN
           NoNewPhis(f, g) /\ \A a \in Blocks(f) : Term(g, a) = Term(f, a)
  <1> DEFINE g == Extended(f, b, code)
             n == Len(f.kind)
             more == [k \in DOMAIN code |->
                        [op |-> code[k][1], result |-> n + k, args |-> code[k][2], preds |-> << >>]]
             old == f.blocks[b].insts
             insts == old \o more
             block == [f.blocks[b] EXCEPT !.insts = insts]
             kinds == f.kind \o [k \in DOMAIN code |-> "inst"]
             bool == f.bool \cup {n + k : k \in {j \in DOMAIN code : code[j][1] \in BooleanOps}}
  <1>1. /\ Shape(f) /\ {"kind", "blocks"} \subseteq DOMAIN f /\ f.blocks \in Seq(BlockShape)
        /\ f.blocks[b] \in BlockShape /\ old \in Seq(InstShape)
    <2>1. /\ Shape(f) /\ {"kind", "blocks"} \subseteq DOMAIN f /\ f.blocks \in Seq(BlockShape)
          /\ f.blocks[b] \in BlockShape
      BY DEF Made, Shape, Blocks
    <2>2. old \in Seq(InstShape)
      BY <2>1 DEF BlockShape
    <2> QED BY <2>1, <2>2
  <1>2. Len(code) \in Nat /\ DOMAIN code = 1..Len(code) /\ \A k \in 1..Len(code) : code[k] \in Code
    OBVIOUS
  <1>3. \A k \in DOMAIN more : k \in 1..Len(code) /\ ~IsPhi(more[k])
    <2>1. ASSUME NEW k \in 1..Len(code) PROVE ~IsPhi(more[k])
      <3>1. more[k].op = code[k][1]
        BY <1>2
      <3>2. code[k][1] # "phi"
        BY <1>2 DEF Code
      <3> HIDE DEF more
      <3> QED BY <3>1, <3>2 DEF IsPhi
    <2> QED BY <1>2, <2>1
  <1>4. more = [k \in 1..Len(code) |-> more[k]]
    BY <1>2
  <1> HIDE DEF more
  <1>5. ASSUME NEW i \in DOMAIN insts, IsPhi(insts[i])
        PROVE  i \in DOMAIN old /\ IsPhi(old[i])
    <2> DEFINE m == Len(code)
    <2>1. m \in Nat /\ more = [k \in 1..m |-> more[k]]
      BY <1>2, <1>4
    <2> HIDE DEF m, old
    <2>2. Len(more) = m /\ DOMAIN more = 1..m /\ Len(old) \in Nat /\ DOMAIN old = 1..Len(old)
      BY <1>1, <2>1
    <2>3. i \in 1..(Len(old) + m)
      BY <2>1, <2>2
    <2>4. CASE i <= Len(old)
      <3>1. i \in DOMAIN old /\ insts[i] = old[i]
        BY <2>1, <2>2, <2>3, <2>4
      <3> QED BY <1>5, <3>1
    <2>5. CASE i > Len(old)
      <3>1. i - Len(old) \in DOMAIN more /\ insts[i] = more[i - Len(old)]
        BY <2>1, <2>2, <2>3, <2>5
      <3> QED BY <1>3, <1>5, <3>1
    <2> QED BY <2>2, <2>3, <2>4, <2>5
  <1>6. g = [f EXCEPT !.kind = kinds, !.bool = bool, !.blocks[b].insts = insts]
    BY DEF Extended, more
  <1> HIDE DEF insts, kinds, bool, g
  <1>7. block.insts = insts /\ block.term = Term(f, b) /\ old = Insts(f, b)
    BY <1>1 DEF BlockShape, Term, Insts
  <1>8. /\ g = [x \in DOMAIN f |-> g[x]] /\ ("depth" \in DOMAIN f => g.depth = f.depth)
        /\ g.blocks = [f.blocks EXCEPT ![b] = block]
    BY <1>1, <1>6
  <1> HIDE DEF block, old
  <1>9. \A i \in DOMAIN block.insts : IsPhi(block.insts[i]) => i \in DOMAIN Insts(f, b) /\ IsPhi(Insts(f, b)[i])
    BY <1>5, <1>7
  <1>10. /\ NoNewPhis(f, g)
         /\ \A a \in Blocks(f) : Term(g, a) = IF a = b THEN block.term ELSE Term(f, a)
    <2>1. Shape(f) /\ b \in Blocks(f)
      BY <1>1
    <2>2. g = [x \in DOMAIN f |-> g[x]]
      BY <1>8
    <2>3. "depth" \in DOMAIN f => g.depth = f.depth
      BY <1>8
    <2>4. g.blocks = [f.blocks EXCEPT ![b] = block]
      BY <1>8
    <2> QED BY ONLY <1>9, <2>1, <2>2, <2>3, <2>4, PutKeeps
  <1> QED BY <1>7, <1>10 DEF g

LEMMA JumpingKeeps ==
    ASSUME NEW f, Shape(f), NEW b \in Blocks(f), NEW t
    PROVE  LET g == Jumping(f, b, t) IN
           /\ NoNewPhis(f, g)
           /\ \A a \in Blocks(f) : Term(g, a) = IF a = b THEN Jump(t) ELSE Term(f, a)
  <1> DEFINE g == Jumping(f, b, t)
             block == [f.blocks[b] EXCEPT !.term = Jump(t)]
  <1>1. "blocks" \in DOMAIN f /\ f.blocks[b] \in BlockShape
    BY DEF Shape, Blocks
  <1>2. block.term = Jump(t) /\ block.insts = Insts(f, b)
    BY <1>1 DEF BlockShape, Insts
  <1>3. /\ g = [x \in DOMAIN f |-> g[x]] /\ ("depth" \in DOMAIN f => g.depth = f.depth)
        /\ g.blocks = [f.blocks EXCEPT ![b] = block]
    BY <1>1 DEF Jumping
  <1> HIDE DEF g, block
  <1>4. /\ NoNewPhis(f, g)
        /\ \A a \in Blocks(f) : Term(g, a) = IF a = b THEN block.term ELSE Term(f, a)
    BY <1>2, <1>3, PutKeeps
  <1> QED BY <1>2, <1>4 DEF g

LEMMA ClearedKeeps ==
    ASSUME NEW f, Shape(f), NEW b \in Blocks(f), NEW i
    PROVE  LET g == Cleared(f, b, i) IN
           NoNewPhis(f, g) /\ \A a \in Blocks(f) : Term(g, a) = Term(f, a)
  <1> DEFINE g == Cleared(f, b, i)
             insts == [f.blocks[b].insts EXCEPT ![i] = Nop]
             block == [f.blocks[b] EXCEPT !.insts = insts]
  <1>1. "blocks" \in DOMAIN f /\ f.blocks[b] \in BlockShape
    BY DEF Shape, Blocks
  <1>2. \A j \in DOMAIN insts : IsPhi(insts[j]) => j \in DOMAIN Insts(f, b) /\ IsPhi(Insts(f, b)[j])
    BY DEF IsPhi, Nop, Insts
  <1>3. g = [f EXCEPT !.blocks[b].insts = insts]
    BY DEF Cleared
  <1> HIDE DEF insts, g
  <1>4. block.term = Term(f, b) /\ block.insts = insts
    BY <1>1 DEF BlockShape, Term
  <1>5. /\ g = [x \in DOMAIN f |-> g[x]] /\ ("depth" \in DOMAIN f => g.depth = f.depth)
        /\ g.blocks = [f.blocks EXCEPT ![b] = block]
    BY <1>1, <1>3
  <1> HIDE DEF block
  <1>6. /\ NoNewPhis(f, g)
        /\ \A a \in Blocks(f) : Term(g, a) = IF a = b THEN block.term ELSE Term(f, a)
    BY <1>2, <1>4, <1>5, PutKeeps
  <1> QED BY <1>4, <1>6 DEF g

LEMMA RewrittenKeeps ==
    ASSUME NEW f, Shape(f), NEW table, IsFiniteSet(DOMAIN table), \A u \in DOMAIN table : table[u] \in Nat
    PROVE  LET g == Rewritten(f, table) IN
           NoNewPhis(f, g) /\ \A a \in Blocks(f) : Term(g, a).succ = Term(f, a).succ
  <1> DEFINE g == Rewritten(f, table)
             blocks == g.blocks
  <1>1. /\ Edited(f, g)
        /\ \A b \in Blocks(f) :
              /\ \A i \in DOMAIN Insts(f, b) : Insts(g, b)[i] = Replaced(table, Insts(f, b)[i])
              /\ Term(g, b) = Replaced(table, Term(f, b))
    BY RewrittenView
  <1>2. "blocks" \in DOMAIN f
    BY DEF Shape
  <1>3. g = [f EXCEPT !.blocks = blocks]
    BY <1>2 DEF Rewritten
  <1> HIDE DEF g
  <1>4. Blocks(g) = Blocks(f) /\ DOMAIN blocks = Blocks(f) /\ \A b \in Blocks(f) : DOMAIN Insts(g, b) = DOMAIN Insts(f, b)
    BY <1>1 DEF Edited, Blocks
  <1> HIDE DEF blocks
  <1>5. Exact(f) => Exact(g)
    BY <1>2, <1>3, <1>4, ExactEdit
  <1>6. ASSUME NEW b \in Blocks(f), NEW i \in DOMAIN Insts(f, b) PROVE Insts(g, b)[i].op = Insts(f, b)[i].op
    <2>1. Insts(f, b)[i] \in InstShape
      BY InstFacts
    <2>2. Replaced(table, Insts(f, b)[i]).op = Insts(f, b)[i].op
      BY <2>1, ReplacedInst
    <2> QED BY <1>1, <2>2
  <1>7. ASSUME NEW b \in Blocks(f) PROVE Term(g, b).succ = Term(f, b).succ
    <2>1. Term(f, b) \in [args : Seq(Nat), succ : Seq(Nat)]
      BY BlockFacts
    <2>2. Replaced(table, Term(f, b)).succ = Term(f, b).succ
      BY <2>1, ReplacedTerm
    <2> QED BY <1>1, <2>2
  <1> QED BY <1>4, <1>5, <1>6, <1>7 DEF NoNewPhis, IsPhi, g

LEMMA JoinedKeeps ==
    ASSUME Made(func), NEW c, c.block \in Blocks(func), NEW code \in Seq(Code),
           c.moved[1] \in Blocks(func), c.moved[2] \in DOMAIN Insts(func, c.moved[1]),
           c.phi[1] \in Blocks(func), c.phi[2] \in DOMAIN Insts(func, c.phi[1])
    PROVE  LET g == Joined(c, code) IN
           /\ Shape(g) /\ NoNewPhis(func, g)
           /\ \A a \in Blocks(func) : Term(g, a).succ = IF a = c.block THEN <<c.phi[1]>> ELSE Term(func, a).succ
  <1> DEFINE g == Joined(c, code)
             f == Extended(func, c.block, code)
             term == Jumping(f, c.block, c.phi[1])
             moved == Cleared(term, c.moved[1], c.moved[2])
             phi == Cleared(moved, c.phi[1], c.phi[2])
             table == [v \in {At(func, c.phi).result} |-> Len(f.kind)]
  <1>1. /\ Made(f) /\ Shape(f) /\ Blocks(f) = Blocks(func) /\ Len(f.kind) \in Nat
        /\ \A b \in Blocks(func) : DOMAIN Insts(func, b) \subseteq DOMAIN Insts(f, b)
    BY ExtendedMade DEF Made
  <1>2. NoNewPhis(func, f) /\ \A a \in Blocks(func) : Term(f, a) = Term(func, a)
    BY ExtendedKeeps
  <1>3. g = Rewritten(phi, table)
    BY DEF Joined, Jumping, Cleared
  <1>4. IsFiniteSet(DOMAIN table) /\ \A u \in DOMAIN table : table[u] \in Nat
    <2> DEFINE d == At(func, c.phi).result
               n == Len(f.kind)
    <2>1. n \in Nat
      BY <1>1
    <2> HIDE DEF d, n
    <2>2. table = [v \in {d} |-> n]
      BY DEF d, n
    <2>3. IsFiniteSet({d})
      BY FS_Singleton
    <2> HIDE DEF table
    <2> QED BY <2>1, <2>2, <2>3
  <1> HIDE DEF f, table, g
  <1>5. /\ Made(term) /\ Shape(term) /\ Blocks(term) = Blocks(f) /\ \A b \in Blocks(f) : Insts(term, b) = Insts(f, b)
    <2>1. Made(f) /\ c.block \in Blocks(f) /\ c.phi[1] \in Blocks(f)
      BY <1>1
    <2> QED BY <2>1, TermMade DEF Made
  <1>6. /\ NoNewPhis(f, term)
        /\ \A a \in Blocks(f) : Term(term, a) = IF a = c.block THEN Jump(c.phi[1]) ELSE Term(f, a)
    <2>1. Shape(f) /\ c.block \in Blocks(f)
      BY <1>1
    <2> QED BY <2>1, JumpingKeeps
  <1> HIDE DEF term
  <1>7. /\ Made(moved) /\ Shape(moved) /\ Blocks(moved) = Blocks(f)
        /\ \A b \in Blocks(f) : DOMAIN Insts(moved, b) = DOMAIN Insts(f, b)
    <2>1. c.moved[1] \in Blocks(term) /\ c.moved[2] \in DOMAIN Insts(term, c.moved[1])
      BY <1>1, <1>5
    <2>2. /\ Made(moved) /\ Blocks(moved) = Blocks(term)
          /\ \A b \in Blocks(term) : DOMAIN Insts(moved, b) = DOMAIN Insts(term, b)
      BY <1>5, <2>1, NopMade
    <2> HIDE DEF moved
    <2> QED BY <1>5, <2>2 DEF Made
  <1>8. NoNewPhis(term, moved) /\ \A a \in Blocks(term) : Term(moved, a) = Term(term, a)
    <2>1. Shape(term) /\ c.moved[1] \in Blocks(term)
      BY <1>1, <1>5
    <2> QED BY <2>1, ClearedKeeps
  <1> HIDE DEF moved
  <1>9. Made(phi) /\ Shape(phi) /\ Blocks(phi) = Blocks(moved)
    <2>1. c.phi[1] \in Blocks(moved) /\ c.phi[2] \in DOMAIN Insts(moved, c.phi[1])
      BY <1>1, <1>7
    <2> QED BY <1>7, <2>1, NopMade DEF Made
  <1>10. NoNewPhis(moved, phi) /\ \A a \in Blocks(moved) : Term(phi, a) = Term(moved, a)
    <2>1. Shape(moved) /\ c.phi[1] \in Blocks(moved)
      BY <1>1, <1>7
    <2> QED BY <2>1, ClearedKeeps
  <1> HIDE DEF phi
  <1>11. /\ NoNewPhis(phi, g)
         /\ \A a \in Blocks(phi) : Term(g, a).succ = Term(phi, a).succ
    BY <1>3, <1>4, <1>9, RewrittenKeeps
  <1>12. Shape(g)
    <2>1. Made(Rewritten(phi, table))
      BY <1>4, <1>9, RewrittenMade
    <2> QED BY <1>3, <2>1 DEF Made
  <1>13. NoNewPhis(func, g)
    <2>1. NoNewPhis(func, term)
      BY <1>2, <1>6, NoNewPhisTwice
    <2>2. NoNewPhis(term, phi)
      BY <1>8, <1>10, NoNewPhisTwice
    <2>3. NoNewPhis(func, phi)
      BY <2>1, <2>2, NoNewPhisTwice
    <2> QED BY <1>11, <2>3, NoNewPhisTwice
  <1>14. ASSUME NEW a \in Blocks(func)
         PROVE  Term(g, a).succ = IF a = c.block THEN <<c.phi[1]>> ELSE Term(func, a).succ
    <2>1. Term(g, a).succ = Term(term, a).succ
      BY <1>1, <1>5, <1>7, <1>8, <1>9, <1>10, <1>11
    <2>2. Jump(c.phi[1]).succ = <<c.phi[1]>>
      BY DEF Jump
    <2> QED BY <1>1, <1>2, <1>6, <2>1, <2>2
  <1> QED BY <1>12, <1>13, <1>14 DEF g

LEMMA JoinedLess ==
    ASSUME Sound(func), NEW c, c.block \in Blocks(func), NEW code \in Seq(Code),
           c.moved \in Sites(func), c.phi \in Sites(func),
           IsBranch(func, c.block), c.moved[1] \in Successors(func, c.block),
           Predecessors(func, c.moved[1]) = {c.block}, JumpsTo(func, c.moved[1], c.phi[1])
    PROVE  Lessens(func, Joined(c, code))
  <1> DEFINE g == Joined(c, code)
             m == c.moved[1]
             t == c.phi[1]
  <1>0. /\ Shape(func) /\ Made(func) /\ Predecessors(func, Entry) = {}
    BY SoundFacts DEF Made
  <1>1. /\ m \in Blocks(func) /\ c.moved[2] \in DOMAIN Insts(func, m)
        /\ t \in Blocks(func) /\ c.phi[2] \in DOMAIN Insts(func, t)
    BY SiteFacts
  <1>2. /\ Shape(g) /\ NoNewPhis(func, g)
        /\ \A a \in Blocks(func) : Term(g, a).succ = IF a = c.block THEN <<t>> ELSE Term(func, a).succ
    BY <1>0, <1>1, JoinedKeeps
  <1>3. Successors(func, m) = {t}
    BY DEF JumpsTo, Successors, Elements
  <1>4. c.block # m
    <2>1. \A x : Len(<<x>>) = 1
      OBVIOUS
    <2>2. Len(Term(func, m).succ) = 1
      BY <2>1 DEF JumpsTo
    <2>3. Len(Term(func, c.block).succ) = 2
      BY DEF IsBranch
    <2> SUFFICES ASSUME c.block = m PROVE FALSE
      OBVIOUS
    <2>4. Term(func, c.block).succ = Term(func, m).succ
      OBVIOUS
    <2> DEFINE n == Len(Term(func, m).succ)
    <2>5. n = 1 /\ n = 2
      BY <2>2, <2>3, <2>4
    <2> HIDE DEF n
    <2> QED BY ONLY <2>5
  <1> HIDE DEF g
  <1>5. m # t /\ m # Entry
    BY <1>0, <1>1, <1>3, <1>4 DEF Predecessors
  <1>6. \A a \in Blocks(func) : Successors(g, a) = IF a = c.block THEN {t} ELSE Successors(func, a)
    BY <1>2 DEF Successors, Elements
  <1>7. Reachable(g) \subseteq Reachable(func) \ {m}
    <2> DEFINE S == Reachable(func) \ {m}
    <2>1. Entry \in S /\ Reachable(func) \subseteq Blocks(func)
      BY <1>0, <1>5, AvoidingFacts
    <2>2. ASSUME NEW a \in S PROVE Successors(g, a) \subseteq S
      <3>1. a \in Blocks(func) /\ Successors(func, a) \subseteq Reachable(func)
        BY <1>0, <2>1, AvoidingFacts
      <3>2. CASE a = c.block
        <4>1. m \in Reachable(func)
          BY <3>1, <3>2
        <4>2. t \in Reachable(func)
          BY <1>0, <1>3, <4>1, AvoidingFacts
        <4> QED BY <1>5, <1>6, <3>1, <3>2, <4>2
      <3>3. CASE a # c.block
        <4>1. m \notin Successors(func, a)
          BY <3>1, <3>3 DEF Predecessors
        <4> QED BY <1>6, <3>1, <3>3, <4>1
      <3> QED BY <3>2, <3>3
    <2> HIDE DEF S
    <2>3. Reachable(g) \subseteq S
      BY <1>2, <2>1, <2>2, AvoidingFacts
    <2> QED BY <2>3 DEF S
  <1>8. Live(g) \subseteq Live(func)
    <2>1. Blocks(g) = Blocks(func)
      BY <1>2 DEF NoNewPhis
    <2>2. \A b \in Reachable(g) : \A i \in DOMAIN Insts(g, b) :
              IsPhi(Insts(g, b)[i]) => i \in DOMAIN Insts(func, b) /\ IsPhi(Insts(func, b)[i])
      BY <1>0, <1>2, <1>7, AvoidingFacts DEF NoNewPhis
    <2> QED BY <1>7, <2>1, <2>2, FewerLive
  <1>9. Reachable(func) = Blocks(func) => Live(g) # Live(func)
    BY <1>0, <1>1, <1>2, <1>7, ReachedAlike
  <1> QED BY <1>2, <1>8, <1>9 DEF Lessens, NoNewPhis, g

LEMMA ShortCircuitLess ==
    ASSUME Sound(func), NEW c \in ShortCircuits
    PROVE  Lessens(func, ShortCircuitConverted(c))
  <1>1. Made(func)
    BY SoundFacts DEF Made
  <1>2. PICK code \in Seq(Code) : ShortCircuitConverted(c) = Joined(c, code)
    BY <1>1, ShortCircuitMade
  <1>3. /\ c.block \in Blocks(func) /\ c.moved \in Sites(func) /\ c.phi \in Sites(func)
        /\ IsBranch(func, c.block) /\ c.moved[1] \in Successors(func, c.block)
        /\ Predecessors(func, c.moved[1]) = {c.block} /\ JumpsTo(func, c.moved[1], c.phi[1])
    BY DEF ShortCircuits, IsShortCircuit, Alone
  <1>4. Lessens(func, Joined(c, code))
    BY <1>3, JoinedLess
  <1> QED BY <1>2, <1>4

LEMMA UpdateLess ==
    ASSUME Sound(func), NEW c \in ConditionalUpdates
    PROVE  Lessens(func, UpdateConverted(c))
  <1>1. Made(func)
    BY SoundFacts DEF Made
  <1>2. PICK code \in Seq(Code) : UpdateConverted(c) = Joined(c, code)
    BY <1>1, UpdateMade
  <1>3. /\ c.block \in Blocks(func) /\ c.moved \in Sites(func) /\ c.phi \in Sites(func)
        /\ IsBranch(func, c.block) /\ c.moved[1] \in Successors(func, c.block)
        /\ Predecessors(func, c.moved[1]) = {c.block} /\ JumpsTo(func, c.moved[1], c.phi[1])
    BY DEF ConditionalUpdates, IsConditionalUpdate, Alone, OnlyLeadingPhi
  <1>4. Lessens(func, Joined(c, code))
    BY <1>3, JoinedLess
  <1> QED BY <1>2, <1>4

-----------------------------------------------------------------------------
(* Between two rounds twice the weight that is lost pays for the rounds     *)
(* begun.  A round may leave all of it only if simplify_branches did what   *)
(* it can, and then the next one has nothing to do before it takes          *)
(* something away.                                                          *)
Spare(n) == rounds + 2 * Weight(func) + n <= 2 * Weight(source) + 2

Later == {"booleans", "updates", "thread", "phis", "forward", "merge", "end"}

Progress ==
    /\ Shape(source) /\ rounds \in Nat /\ rounds <= 2 * Weight(source)
    /\ phase # "done" => Spare(0)
    /\ phase = "unreachable" =>
          "depth" \in DOMAIN func /\ (Spare(1) \/ (Exact(func) /\ Settled(func)))
    /\ phase = "branches" =>
          /\ Exact(func) /\ Reachable(func) = Blocks(func)
          /\ Spare(1) \/ (~changed /\ Settled(func))
    /\ phase \in Later =>
          Exact(func) /\ (Spare(2) \/ (Settled(func) /\ (changed => Spare(1))))

LEMMA SpareFacts ==
    ASSUME NEW r \in Nat, NEW w \in Nat, NEW u \in Nat, NEW s \in Nat, u <= w
    PROVE  /\ r + 2 * w + 0 <= 2 * s + 2 => r + 2 * u + 0 <= 2 * s + 2
           /\ r + 2 * w + 1 <= 2 * s + 2 => r + 2 * u + 1 <= 2 * s + 2 /\ r + 2 * w + 0 <= 2 * s + 2
           /\ r + 2 * w + 2 <= 2 * s + 2 =>
                 /\ r + 2 * u + 2 <= 2 * s + 2
                 /\ (r + 1) + 2 * w + 1 <= 2 * s + 2
                 /\ (r + 1) + 2 * w + 0 <= 2 * s + 2
           /\ r + 2 * w + 1 <= 2 * s + 2 => (r + 1) + 2 * w + 0 <= 2 * s + 2
           /\ u # w /\ r + 2 * w + 0 <= 2 * s + 2 => r + 2 * u + 2 <= 2 * s + 2
           /\ w >= 1 /\ r + 2 * w + 0 <= 2 * s + 2 => r <= 2 * s
  OBVIOUS

(* A rewrite of the second part of a round.                                 *)
LEMMA LaterKeeps ==
    ASSUME Progress, SimplifyInv, phase \in Later, phase' \in Later, NEW g, func' = g,
           changed' => changed \/ g # func, UNCHANGED <<source, rounds>>, Lessens(func, g)
    PROVE  Progress'
  <1> DEFINE r == rounds
             w == Weight(func)
             u == Weight(g)
             s == Weight(source)
  <1>1. /\ Shape(source) /\ r \in Nat /\ r <= 2 * s /\ Spare(0)
        /\ Exact(func) /\ (Spare(2) \/ (Settled(func) /\ (changed => Spare(1))))
    BY DEF Progress, Later
  <1>2. Shape(func)
    BY SoundFacts DEF SimplifyInv, Later
  <1>3. /\ w \in Nat /\ u \in Nat /\ s \in Nat /\ u <= w
        /\ u = w => Live(g) = Live(func)
    BY <1>1, <1>2, LiveFinite, Weights DEF Lessens
  <1>4. /\ phase' # "unreachable" /\ phase' # "branches" /\ Exact(g) /\ source' = source /\ rounds' = r
    BY <1>1 DEF Lessens, Later
  <1>5. \A n \in Nat : Spare(n) <=> r + 2 * w + n <= 2 * s + 2
    BY DEF Spare
  <1>6. \A n \in Nat : Spare(n)' <=> r + 2 * u + n <= 2 * s + 2
    BY DEF Spare
  <1> HIDE DEF r, w, u, s
  <1>7. Spare(0)'
    BY <1>1, <1>3, <1>5, <1>6, SpareFacts
  <1>8. Spare(2)' \/ (Settled(g) /\ (changed' => Spare(1)'))
    <2>1. CASE Spare(2)
      BY <1>1, <1>3, <1>5, <1>6, <2>1, SpareFacts
    <2>2. CASE Settled(func) /\ (changed => Spare(1)) /\ Live(g) = Live(func)
      <3>1. g = func
        BY <1>1, <2>2 DEF Lessens, Settled
      <3>2. u = w
        BY <3>1 DEF u, w
      <3> QED BY <1>5, <1>6, <2>2, <3>1, <3>2
    <2>3. CASE Live(g) # Live(func)
      <3>1. u # w
        BY <1>3, <2>3
      <3> QED BY <1>1, <1>3, <1>5, <1>6, <3>1, SpareFacts
    <2> QED BY <1>1, <2>1, <2>2, <2>3
  <1>9. Settled(g) <=> Settled(func)'
    OBVIOUS
  <1>10. Exact(func)' /\ Shape(source)' /\ (rounds \in Nat)' /\ (rounds <= 2 * Weight(source))'
    BY <1>1, <1>4 DEF r, s
  <1> QED BY <1>4, <1>7, <1>8, <1>9, <1>10 DEF Progress

LEMMA LaterRewrite ==
    ASSUME Progress, SimplifyInv, NEW from \in Later, NEW to \in Later, NEW g, Rewrite(from, to, g), Lessens(func, g)
    PROVE  Progress'
  <1>1. phase = from /\ phase' = to /\ func' = g /\ (changed' => changed \/ g # func) /\ UNCHANGED <<source, rounds>>
    BY DEF Rewrite, Becomes
  <1> QED BY <1>1, LaterKeeps

LEMMA LaterAttempt ==
    ASSUME Progress, SimplifyInv, phase \in Later, NEW key, NEW converted, Attempt(key, converted),
           Lessens(func, converted)
    PROVE  Progress'
  <1>1. phase' = phase /\ phase' \in Later
    BY DEF Attempt
  <1>2. CASE Becomes(converted)
    <2>1. func' = converted /\ (changed' => changed \/ converted # func) /\ UNCHANGED <<source, rounds>>
      BY <1>2 DEF Becomes
    <2> QED BY <1>1, <2>1, LaterKeeps
  <1>3. CASE UNCHANGED <<source, preserve, func, changed, rounds>>
    <2>1. func' = func /\ (changed' => changed \/ func # func) /\ UNCHANGED <<source, rounds>>
      BY <1>3
    <2> QED BY <1>1, <2>1, LaterKeeps, LessensSame
  <1> QED BY <1>2, <1>3 DEF Attempt

LEMMA LaterEnd ==
    ASSUME Progress, SimplifyInv, NEW from \in Later, NEW to \in Later, NEW candidates,
           EndAttempts(from, to, candidates)
    PROVE  Progress'
  <1>1. /\ phase = from /\ phase' = to /\ func' = func /\ (changed' => changed \/ func # func)
        /\ UNCHANGED <<source, rounds>>
    BY DEF EndAttempts
  <1> QED BY <1>1, LaterKeeps, LessensSame

(* The beginning of a round.                                                *)
LEMMA FirstRewrite ==
    ASSUME Progress, SimplifyInv, RemoveUnreachable
    PROVE  Progress'
  <1> DEFINE g == OnlyReachable(func)
             r == rounds
             w == Weight(func)
             u == Weight(g)
             s == Weight(source)
  <1>1. /\ phase = "unreachable" /\ phase' = "branches" /\ func' = g /\ source' = source /\ rounds' = r
        /\ changed' => changed \/ g # func
    <2>1. /\ phase = "unreachable" /\ phase' = "branches" /\ func' = g /\ source' = source /\ rounds' = r
          /\ changed' = (changed \/ g # func)
      BY DEF RemoveUnreachable, Rewrite, Becomes
    <2> HIDE DEF g, r
    <2> QED BY <2>1, Zenon
  <1>2. /\ Shape(source) /\ r \in Nat /\ r <= 2 * s /\ Spare(0)
        /\ "depth" \in DOMAIN func /\ (Spare(1) \/ (Exact(func) /\ Settled(func)))
    BY <1>1 DEF Progress
  <1>3. Sound(func) /\ ~changed
    BY <1>1 DEF SimplifyInv
  <1>4. Shape(func) /\ Constructed(func)
    BY <1>3, SoundFacts
  <1>5. Exact(g) /\ u <= w
    BY <1>2, <1>4, SurvivorsWeigh
  <1>6. Shape(g) /\ Reachable(g) = Blocks(g)
    BY <1>3, LiveSound, SoundFacts
  <1>7. Exact(func) /\ Settled(func) => g = func
    BY <1>4, NothingUnreachable DEF Settled
  <1>8. w \in Nat /\ u \in Nat /\ s \in Nat
    BY <1>2, <1>4, <1>6, LiveFinite
  <1>9. \A n \in Nat : Spare(n) <=> r + 2 * w + n <= 2 * s + 2
    BY DEF Spare
  <1>10. \A n \in Nat : Spare(n)' <=> r + 2 * u + n <= 2 * s + 2
    BY <1>1 DEF Spare
  <1>11. Shape(source)' /\ (rounds \in Nat)' /\ (rounds <= 2 * Weight(source))'
    BY <1>1, <1>2
  <1> HIDE DEF g, r, w, u, s
  <1>12. Spare(0)' /\ (Spare(1) => Spare(1)')
    BY <1>2, <1>5, <1>8, <1>9, <1>10, SpareFacts
  <1>13. Spare(1)' \/ (~changed' /\ Settled(g))
    BY <1>1, <1>2, <1>3, <1>7, <1>12
  <1>14. Exact(func)' /\ Reachable(func)' = Blocks(func)' /\ (Settled(g) <=> Settled(func)')
    BY <1>1, <1>5, <1>6
  <1>15. phase' # "unreachable" /\ phase' \notin Later
    BY <1>1 DEF Later
  <1> QED BY <1>11, <1>12, <1>13, <1>14, <1>15 DEF Progress

LEMMA SecondRewrite ==
    ASSUME Progress, SimplifyInv, SimplifyBranches
    PROVE  Progress'
  <1> DEFINE g == BranchesSimplified(func)
             r == rounds
             w == Weight(func)
             u == Weight(g)
             s == Weight(source)
  <1>1. /\ phase = "branches" /\ phase' = "booleans" /\ func' = g /\ source' = source /\ rounds' = r
        /\ changed' => changed \/ g # func
    <2>1. /\ phase = "branches" /\ phase' = "booleans" /\ func' = g /\ source' = source /\ rounds' = r
          /\ changed' = (changed \/ g # func)
      BY DEF SimplifyBranches, Rewrite, Becomes
    <2> HIDE DEF g, r
    <2> QED BY <2>1, Zenon
  <1>2. /\ Shape(source) /\ r \in Nat /\ r <= 2 * s /\ Spare(0)
        /\ Exact(func) /\ Reachable(func) = Blocks(func)
        /\ Spare(1) \/ (~changed /\ Settled(func))
    BY <1>1 DEF Progress
  <1>3. Sound(func) /\ Shape(func)
    BY <1>1, SoundFacts DEF SimplifyInv
  <1>4. /\ Exact(g) /\ Live(g) \subseteq Live(func)
        /\ Live(g) = Live(func) => Settled(g)
        /\ Settled(func) => g = func
    BY <1>2, <1>3, BranchesLess
  <1>5. /\ w \in Nat /\ u \in Nat /\ s \in Nat /\ u <= w
        /\ u = w => Live(g) = Live(func)
    BY <1>2, <1>3, <1>4, LiveFinite, Weights
  <1>6. \A n \in Nat : Spare(n) <=> r + 2 * w + n <= 2 * s + 2
    BY DEF Spare
  <1>7. \A n \in Nat : Spare(n)' <=> r + 2 * u + n <= 2 * s + 2
    BY <1>1 DEF Spare
  <1>8. Shape(source)' /\ (rounds \in Nat)' /\ (rounds <= 2 * Weight(source))'
    BY <1>1, <1>2
  <1> HIDE DEF g, r, w, u, s
  <1>9. Spare(0)' /\ (Spare(1) => Spare(1)')
    BY <1>2, <1>5, <1>6, <1>7, SpareFacts
  <1>10. Spare(2)' \/ (Settled(g) /\ (changed' => Spare(1)'))
    <2>1. CASE ~changed /\ Settled(func)
      BY <1>1, <1>4, <2>1
    <2>2. CASE Spare(1) /\ Live(g) = Live(func)
      BY <1>4, <1>9, <2>2
    <2>3. CASE Live(g) # Live(func)
      <3>1. u # w
        BY <1>5, <2>3
      <3> QED BY <1>2, <1>5, <1>6, <1>7, <3>1, SpareFacts
    <2> QED BY <1>2, <2>1, <2>2, <2>3
  <1>11. Exact(func)' /\ (Settled(g) <=> Settled(func)')
    BY <1>1, <1>4
  <1>12. phase' # "unreachable" /\ phase' # "branches"
    BY <1>1
  <1> QED BY <1>8, <1>9, <1>10, <1>11, <1>12 DEF Progress

LEMMA RoundBegins ==
    ASSUME Progress, SimplifyInv, NextRound
    PROVE  Progress'
  <1> DEFINE r == rounds
             w == Weight(func)
             s == Weight(source)
  <1>1. /\ phase = "end" /\ phase' = "unreachable" /\ func' = func /\ source' = source /\ rounds' = r + 1 /\ changed
    BY DEF NextRound
  <1>2. /\ Shape(source) /\ r \in Nat /\ Spare(0)
        /\ Exact(func) /\ (Spare(2) \/ (Settled(func) /\ Spare(1)))
    BY <1>1 DEF Progress, Later
  <1>3. Shape(func)
    BY <1>1, SoundFacts DEF SimplifyInv
  <1>4. w \in Nat /\ s \in Nat /\ w >= 1
    BY <1>2, <1>3, LiveFinite
  <1>5. \A n \in Nat : Spare(n) <=> r + 2 * w + n <= 2 * s + 2
    BY DEF Spare
  <1>6. \A n \in Nat : Spare(n)' <=> (r + 1) + 2 * w + n <= 2 * s + 2
    BY <1>1 DEF Spare
  <1> HIDE DEF r, w, s
  <1>7. Spare(0)' /\ (Spare(2) => Spare(1)')
    BY <1>2, <1>4, <1>5, <1>6, SpareFacts
  <1>8. r + 1 \in Nat /\ r + 1 <= 2 * s
    <2>1. (r + 1) + 2 * w + 0 <= 2 * s + 2
      BY <1>6, <1>7
    <2> QED BY <1>2, <1>4, <2>1, SpareFacts
  <1>9. Shape(source)' /\ (rounds \in Nat)' /\ (rounds <= 2 * Weight(source))'
    BY <1>1, <1>2, <1>8 DEF s
  <1>10. (Exact(func) <=> Exact(func)') /\ (Settled(func) <=> Settled(func)') /\ ("depth" \in DOMAIN func)'
    BY <1>1, <1>2 DEF Exact
  <1>11. phase' # "branches" /\ phase' \notin Later
    BY <1>1 DEF Later
  <1> QED BY <1>2, <1>7, <1>9, <1>10, <1>11 DEF Progress

LEMMA ProgressBegins ==
    ASSUME Init
    PROVE  Progress
  <1> DEFINE w == Weight(func)
  <1>1. /\ source = func /\ phase = "unreachable" /\ rounds = 1 /\ WellFormed(func)
    BY ProgramAssumption DEF Init
  <1>2. Shape(func) /\ "depth" \in DOMAIN func
    BY <1>1 DEF WellFormed, Shape
  <1>3. w \in Nat /\ w >= 1
    BY <1>2, LiveFinite
  <1>4. \A n \in Nat : Spare(n) <=> 1 + 2 * w + n <= 2 * w + 2
    BY <1>1 DEF Spare
  <1>5. Weight(source) = w
    BY <1>1
  <1> HIDE DEF w
  <1>6. Spare(0) /\ Spare(1) /\ rounds <= 2 * Weight(source)
    BY <1>1, <1>3, <1>4, <1>5
  <1> QED BY <1>1, <1>2, <1>6 DEF Progress, Later

LEMMA ProgressStays ==
    ASSUME Progress, SimplifyInv, Simplify
    PROVE  Progress'
  <1>0. phase \in Later => Sound(func)
    BY DEF SimplifyInv, Later
  <1>1. CASE RemoveUnreachable
    BY <1>1, FirstRewrite
  <1>2. CASE SimplifyBranches
    BY <1>2, SecondRewrite
  <1>3. CASE ConvertBoolean
    <2>1. PICK c \in ShortCircuits : \E converted \in {ShortCircuitConverted(c)} : Attempt(c.phi, converted)
      BY <1>3 DEF ConvertBoolean
    <2>2. Attempt(c.phi, ShortCircuitConverted(c)) /\ phase \in Later
      BY <1>3, <2>1 DEF ConvertBoolean, Later
    <2>3. Lessens(func, ShortCircuitConverted(c))
      BY <1>0, <2>2, ShortCircuitLess
    <2> QED BY <2>2, <2>3, LaterAttempt
  <1>4. CASE EndBooleans
    BY <1>4, LaterEnd DEF EndBooleans, Later
  <1>5. CASE ConvertUpdate
    <2>1. PICK c \in ConditionalUpdates :
              \E converted \in {UpdateConverted(c)} : Attempt(<<c.block, c.phi[2]>>, converted)
      BY <1>5 DEF ConvertUpdate
    <2> DEFINE key == <<c.block, c.phi[2]>>
    <2>2. Attempt(key, UpdateConverted(c)) /\ phase \in Later
      BY <1>5, <2>1 DEF ConvertUpdate, Later
    <2>3. Lessens(func, UpdateConverted(c))
      BY <1>0, <2>2, UpdateLess
    <2> HIDE DEF key
    <2> QED BY <2>2, <2>3, LaterAttempt
  <1>6. CASE EndUpdates
    BY <1>6, LaterEnd DEF EndUpdates, Later
  <1>7. CASE ThreadBranches
    <2>1. Rewrite("thread", "phis", Threaded(func)) /\ phase \in Later
      BY <1>7 DEF ThreadBranches, Rewrite, Later
    <2>2. Lessens(func, Threaded(func))
      BY <1>0, <2>1, ThreadedSound
    <2> QED BY <2>1, <2>2, LaterRewrite DEF Later
  <1>8. CASE SimplifyTrivialPhis
    <2>1. Rewrite("phis", "forward", TrivialPhisSimplified(func)) /\ phase \in Later
      BY <1>8 DEF SimplifyTrivialPhis, Rewrite, Later
    <2>2. Lessens(func, TrivialPhisSimplified(func))
      BY <1>0, <2>1, TrivialLess
    <2> QED BY <2>1, <2>2, LaterRewrite DEF Later
  <1>9. CASE ForwardEmptyJump
    <2> DEFINE g == IF ToForward = {} THEN func ELSE Forwarded(func, First(ToForward))
    <2>1. Rewrite("forward", "merge", g) /\ phase \in Later
      BY <1>9 DEF ForwardEmptyJump, Rewrite, Later
    <2>2. Lessens(func, g)
      <3>1. CASE ToForward = {}
        BY <3>1, LessensSame
      <3>2. CASE ToForward # {}
        <4>1. ToForward \subseteq Blocks(func) /\ \A b \in ToForward : Forwardable(func, b)
          BY DEF ToForward
        <4>2. Blocks(func) \subseteq Nat
          BY <1>0, <2>1, SoundFacts, BlockNumbers
        <4>3. First(ToForward) \in ToForward
          BY <3>2, <4>1, <4>2, FirstFacts
        <4>4. Lessens(func, Forwarded(func, First(ToForward)))
          BY <1>0, <2>1, <4>1, <4>3, ForwardedLess
        <4> QED BY <3>2, <4>4
      <3> QED BY <3>1, <3>2
    <2> HIDE DEF g
    <2> QED BY <2>1, <2>2, LaterRewrite DEF Later
  <1>10. CASE MergeLinear
    <2> DEFINE g == IF ToMerge = {} THEN func ELSE Merged(func, First(ToMerge))
    <2>1. Rewrite("merge", "end", g) /\ phase \in Later
      BY <1>10 DEF MergeLinear, Rewrite, Later
    <2>2. Lessens(func, g)
      <3>1. CASE ToMerge = {}
        BY <3>1, LessensSame
      <3>2. CASE ToMerge # {}
        <4>1. ToMerge \subseteq Blocks(func) /\ \A b \in ToMerge : Mergeable(func, b)
          BY DEF ToMerge
        <4>2. Blocks(func) \subseteq Nat
          BY <1>0, <2>1, SoundFacts, BlockNumbers
        <4>3. First(ToMerge) \in ToMerge
          BY <3>2, <4>1, <4>2, FirstFacts
        <4>4. Lessens(func, Merged(func, First(ToMerge)))
          BY <1>0, <2>1, <4>1, <4>3, MergedLess
        <4> QED BY <3>2, <4>4
      <3> QED BY <3>1, <3>2
    <2> HIDE DEF g
    <2> QED BY <2>1, <2>2, LaterRewrite DEF Later
  <1>11. CASE NextRound
    BY <1>11, RoundBegins
  <1>12. CASE Eliminate
    <2>1. phase' = "done" /\ source' = source /\ rounds' = rounds
      BY <1>12 DEF Eliminate
    <2>2. Shape(source)' /\ (rounds \in Nat)' /\ (rounds <= 2 * Weight(source))'
      BY <2>1 DEF Progress
    <2>3. phase' \notin Later /\ phase' # "unreachable" /\ phase' # "branches"
      BY <2>1 DEF Later
    <2> QED BY <2>1, <2>2, <2>3 DEF Progress
  <1> QED BY <1>1, <1>2, <1>3, <1>4, <1>5, <1>6, <1>7, <1>8, <1>9, <1>10, <1>11, <1>12 DEF Simplify

(* No function keeps the pass going round for ever: two rounds for each of  *)
(* its blocks and phis are enough, however its rewrites follow each other   *)
(* and whichever conversions the verifier refuses.                          *)
THEOREM RoundsAreBounded == RunSpec => []RoundsEnd
  <1> DEFINE Inv == SimplifyInv /\ Progress
  <1>1. RunInit => Inv
    BY InitHolds, ProgressBegins DEF RunInit
  <1>2. Inv /\ [RunNext]_allVars => Inv'
    <2> SUFFICES ASSUME SimplifyInv, Progress, [RunNext]_allVars PROVE SimplifyInv' /\ Progress'
      OBVIOUS
    <2>1. CASE Transform
      BY <2>1, StepKeeps, ProgressStays DEF Transform
    <2>2. CASE UNCHANGED vars
      <3>1. func' = func /\ phase' = phase /\ changed' = changed /\ source' = source /\ rounds' = rounds
        BY <2>2 DEF vars
      <3>2. SimplifyInv'
        BY <3>1 DEF SimplifyInv, AllReached
      <3>3. Progress'
        BY <3>1 DEF Progress, Spare
      <3> QED BY <3>2, <3>3
    <2>3. Begin \/ Answer \/ Returned \/ UNCHANGED allVars => UNCHANGED vars
      BY DEF Begin, Answer, Returned, allVars
    <2> QED BY <2>1, <2>2, <2>3 DEF RunNext
  <1>3. Inv => RoundsEnd
    <2> SUFFICES ASSUME Progress PROVE RoundsEnd
      OBVIOUS
    <2> DEFINE s == Weight(source)
               n == Size(source)
    <2>1. rounds \in Nat /\ rounds <= 2 * s /\ Shape(source)
      BY DEF Progress
    <2>2. s \in Nat /\ n \in Nat /\ s <= n
      BY <2>1, LiveFinite
    <2> HIDE DEF s, n
    <2>3. rounds <= 2 * n
      BY <2>1, <2>2
    <2> QED BY <2>3 DEF RoundsEnd, n
  <1> QED BY <1>1, <1>2, <1>3, PTL DEF RunSpec
=============================================================================
