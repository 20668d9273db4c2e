------------------------- MODULE BlockLayoutProofs --------------------------
(***************************************************************************)
(* Theorems about block layout, for every function and every limit.        *)
(*   - Rotating loops moves blocks and loses none, pruning drops dead      *)
(*     blocks only, and the entry stays first (IInv, NoBlockLost).         *)
(*   - Every label that is used is written exactly once, and the code that *)
(*     runs never leaves itself (LabelsWrittenOnce).                       *)
(*   - The code runs the blocks as the terminators say and makes the moves *)
(*     of each edge it takes once: it implements ControlFlow               *)
(*     (CodeFollowsControlFlow).                                           *)
(* The last two rest on LayoutInv: while blocks are written, the code so   *)
(* far leads on from each of them, save that the last one may fall through *)
(* to the block that is written next; when all are written, it leads on    *)
(* from wherever it is run.  "Leads" is Enters, Delivers, Routes and Ends. *)
(***************************************************************************)
EXTENDS BlockLayout, Iteration, SequenceTheorems

-----------------------------------------------------------------------------
(* The inductive invariant.                                                 *)
Distinct(s) == \A i, j \in DOMAIN s : s[i] = s[j] => i = j

(* What is to be rotated can be taken out and put behind the latch.         *)
Movable(r) ==
    /\ {r.header, r.exit} \subseteq Blocks \ {Entry}
    /\ r.latch \in Blocks \ {r.header, r.exit}
    /\ r.header # r.exit

IInv ==
    /\ graph \in Graphs
    /\ \A r \in rotations : Movable(r)
    /\ order \in Seq(Blocks) /\ order # << >>
    /\ Distinct(order)
    /\ order[1] = Entry
    /\ phase \in {"plan", "rotate"} => Elements(order) = Blocks
    /\ Reachable \subseteq Elements(order)

-----------------------------------------------------------------------------
(* Facts about graphs.                                                      *)
LEMMA GraphFacts ==
    ASSUME graph \in Graphs
    PROVE  /\ Len(graph.targets) \in Nat /\ Len(graph.targets) > 0
           /\ Blocks = 1..Len(graph.targets)
           /\ Entry \in Blocks
           /\ \A b \in Blocks : Elements(Targets(b)) \subseteq Blocks \ {Entry}
  <1>1. WellFormed(graph)
    BY GraphAssumption
  <1>2. graph.targets \in Seq(Seq(Nat)) /\ Len(graph.targets) > 0
    BY <1>1 DEF WellFormed
  <1>3. Blocks = 1..Len(graph.targets) /\ Len(graph.targets) \in Nat
    BY <1>2 DEF Blocks
  <1>4. \A b \in Blocks : Elements(Targets(b)) \subseteq Blocks \ {Entry}
    BY <1>1 DEF WellFormed, Blocks, Targets
  <1> QED BY <1>2, <1>3, <1>4 DEF Entry

(* The entry is reachable, and only blocks are.                             *)
LEMMA ReachableFacts ==
    ASSUME graph \in Graphs
    PROVE  Entry \in Reachable /\ Reachable \subseteq Blocks
  <1> DEFINE N == Len(graph.targets)
             T == SUBSET Blocks
             More(X) == X \cup ((UNION {Elements(Targets(b)) : b \in X}) \ {})
             F == [X \in T |-> More(X)]
             Step(s) == [n \in 0..N |-> IF n = 0 THEN {Entry} \ {} ELSE More(s[n - 1])]
             I == {X \in T : Entry \in X}
  <1>1. N \in Nat /\ Entry \in Blocks
    BY GraphFacts
  <1>2. ASSUME NEW X \in T
        PROVE  More(X) \in T
    <2>1. \A b \in X : Elements(Targets(b)) \subseteq Blocks
      BY GraphFacts
    <2> QED BY <2>1
  <1>3. F \in [T -> T]
    BY <1>2
  <1>4. {Entry} \in T
    BY <1>1
  <1>5. PICK g : IterationOf(g, T, {Entry}, F, N)
    <2> HIDE DEF N, T, F
    <2> QED BY <1>1, <1>3, <1>4, IterationExists
  <1>6. g = Step(g)
    <2>1. g \in [0..N -> T] /\ g[0] = {Entry} /\ \A i \in 1..N : g[i] = F[g[i - 1]]
      BY <1>5 DEF IterationOf
    <2>2. \A i \in 1..N : i - 1 \in 0..N /\ i # 0 /\ g[i - 1] \in T
      <3> HIDE DEF T
      <3> QED BY ONLY <1>1, <2>1
    <2>3. \A i \in 1..N : g[i] = More(g[i - 1])
      <3>1. \A X \in T : F[X] = More(X)
        OBVIOUS
      <3> HIDE DEF More, F, T
      <3> QED BY <2>1, <2>2, <3>1
    <2>4. \A i \in 0..N : i = 0 \/ i \in 1..N
      BY <1>1
    <2>5. \A i \in 0..N : g[i] = IF i = 0 THEN {Entry} \ {} ELSE More(g[i - 1])
      <3> HIDE DEF More, N
      <3> QED BY <2>1, <2>2, <2>3, <2>4
    <2> HIDE DEF More, T, N
    <2> QED BY <2>1, <2>5
  <1> DEFINE step == CHOOSE s : s = Step(s)
  <1>7. step = Step(step)
    <2> HIDE DEF Step
    <2> QED BY <1>6
  <1>8. ReachedAvoiding({}) = step[N]
    BY DEF ReachedAvoiding
  <1> HIDE DEF step
  <1>9. step[0] \in I
    <2>1. step[0] = {Entry} \ {}
      BY <1>1, <1>7
    <2> QED BY <2>1, <1>4
  <1>10. \A i \in 1..N : step[i - 1] \in I => step[i] \in I
    <2> SUFFICES ASSUME NEW i \in 1..N, step[i - 1] \in I PROVE step[i] \in I
      OBVIOUS
    <2>a. i \in 0..N /\ i # 0
      BY <1>1
    <2>1. step[i] = More(step[i - 1])
      <3> HIDE DEF More, N
      <3> QED BY <1>7, <2>a
    <2>2. More(step[i - 1]) \in T /\ Entry \in More(step[i - 1])
      BY <1>2
    <2> QED BY <2>1, <2>2
  <1>11. step[N] \in I
    <2> HIDE DEF I, N
    <2> QED BY <1>1, <1>9, <1>10, IterationKeeps
  <1> QED BY <1>8, <1>11 DEF Reachable

-----------------------------------------------------------------------------
(* Facts about sequences without repetitions.                               *)

(* Vec::retain drops what it should, and keeps the rest in place.           *)
LEMMA WithoutFacts ==
    ASSUME NEW S, NEW s \in Seq(S), Distinct(s), NEW D
    PROVE  /\ Without(s, D) \in Seq(S) /\ Distinct(Without(s, D))
           /\ Elements(Without(s, D)) = Elements(s) \ D
           /\ s # << >> /\ s[1] \notin D =>
                 Without(s, D) # << >> /\ Without(s, D)[1] = s[1]
  <1> DEFINE K == {i \in DOMAIN s : s[i] \notin D}
             m == Cardinality(K)
             at(k) == CHOOSE i \in K : Rank(K, i) = k - 1
             w == Without(s, D)
  <1>1. Len(s) \in Nat /\ DOMAIN s = 1..Len(s) /\ \A i \in DOMAIN s : s[i] \in S
    OBVIOUS
  <1>2. K \in SUBSET (1..Len(s))
    BY <1>1
  <1>3. /\ m \in Nat
        /\ \A i \in K : Rank(K, i) \in 0..(m - 1)
        /\ \A i, j \in K : Rank(K, i) = Rank(K, j) => i = j
        /\ \A k \in 0..(m - 1) : \E i \in K : Rank(K, i) = k
    <2> HIDE DEF K
    <2> QED BY <1>1, <1>2, RankNumbers
  <1>4. \A k \in 1..m : at(k) \in K /\ Rank(K, at(k)) = k - 1
    <2> SUFFICES ASSUME NEW k \in 1..m PROVE at(k) \in K /\ Rank(K, at(k)) = k - 1
      OBVIOUS
    <2>1. k - 1 \in 0..(m - 1)
      <3> HIDE DEF m
      <3> QED BY <1>3
    <2> HIDE DEF K, m
    <2> QED BY <1>3, <2>1
  <1>5. w = [k \in 1..m |-> s[at(k)]]
    BY DEF Without, Rank
  <1> HIDE DEF w, at
  <1>6. \A i \in K : s[i] \in S /\ i \in DOMAIN s /\ s[i] \notin D
    BY <1>1
  <1>7. \A i \in DOMAIN s : s[i] \notin D => i \in K
    OBVIOUS
  <1> HIDE DEF K, m
  <1>8. w \in Seq(S) /\ Len(w) = m /\ DOMAIN w = 1..m
    <2>1. \A k \in 1..m : s[at(k)] \in S
      BY <1>4, <1>6
    <2> QED BY <1>3, <1>5, <2>1
  <1>9. Distinct(w)
    <2> SUFFICES ASSUME NEW j \in 1..m, NEW k \in 1..m, s[at(j)] = s[at(k)]
                 PROVE  j = k
      BY <1>5, <1>8 DEF Distinct
    <2>1. at(j) = at(k)
      BY <1>4, <1>6 DEF Distinct
    <2> QED BY <1>4, <2>1
  <1>10. ASSUME NEW i \in K
         PROVE  Rank(K, i) + 1 \in 1..m /\ w[Rank(K, i) + 1] = s[i]
    <2>1. Rank(K, i) + 1 \in 1..m /\ Rank(K, i) + 1 - 1 = Rank(K, i)
      BY <1>3
    <2>2. at(Rank(K, i) + 1) = i
      BY <1>3, <1>4, <2>1
    <2> QED BY <1>5, <2>1, <2>2
  <1>11. Elements(w) = Elements(s) \ D
    <2>1. \A x \in Elements(w) : x \in Elements(s) \ D
      BY <1>4, <1>5, <1>6, <1>8 DEF Elements
    <2>2. \A x \in Elements(s) \ D : x \in Elements(w)
      <3> SUFFICES ASSUME NEW i \in DOMAIN s, s[i] \notin D PROVE s[i] \in Elements(w)
        BY DEF Elements
      <3> QED BY <1>7, <1>8, <1>10 DEF Elements
    <2> QED BY <2>1, <2>2
  <1>12. ASSUME s # << >>, s[1] \notin D
         PROVE  w # << >> /\ w[1] = s[1]
    <2>1. 1 \in DOMAIN s
      BY <1>1, <1>12
    <2>2. 1 \in K
      BY <1>7, <1>12, <2>1
    <2>a. \A j \in K : ~(j < 1)
      BY <1>1, <1>2
    <2>3. {j \in K : j < 1} = {}
      BY <2>a
    <2>4. Rank(K, 1) = 0
      BY <2>3, FS_EmptySet DEF Rank
    <2>5. 1 \in 1..m /\ w[1] = s[1]
      BY <1>10, <2>2, <2>4
    <2> QED BY <1>8, <2>5
  <1> QED BY <1>8, <1>9, <1>11, <1>12 DEF w

(* Two new blocks behind a place shift what follows by two.                 *)
LEMMA InsertedFacts ==
    ASSUME NEW S, NEW s \in Seq(S), Distinct(s), NEW at \in 1..Len(s), NEW r,
           {r.header, r.exit} \subseteq S \ Elements(s), r.header # r.exit
    PROVE  /\ Inserted(s, at, r) \in Seq(S) /\ Inserted(s, at, r) # << >>
           /\ Distinct(Inserted(s, at, r))
           /\ Elements(Inserted(s, at, r)) = Elements(s) \cup {r.header, r.exit}
           /\ Inserted(s, at, r)[1] = s[1]
  <1> DEFINE n == Len(s)
             left == SubSeq(s, 1, at)
             pair == <<r.header, r.exit>>
             right == SubSeq(s, at + 1, n)
             ins == Inserted(s, at, r)
  <1>1. n \in Nat /\ DOMAIN s = 1..n /\ \A i \in 1..n : s[i] \in S
    OBVIOUS
  <1>2. at \in Int /\ 1 <= at /\ at <= n /\ at + 1 \in Int /\ n \in Int
    BY <1>1
  <1> HIDE DEF n
  <1>3. /\ left \in Seq(S) /\ Len(left) = at
        /\ \A i \in 1..at : left[i] = s[i]
    <2>1. \A i \in 1..at : s[i] \in S
      BY <1>1, <1>2
    <2>2. /\ left \in Seq(S) /\ Len(left) = IF 1 <= at THEN at - 1 + 1 ELSE 0
          /\ \A i \in 1..(at - 1 + 1) : left[i] = s[1 + i - 1]
      BY <1>2, <2>1, SubSeqProperties
    <2> HIDE DEF left
    <2> QED BY <1>2, <2>2
  <1>4. /\ right \in Seq(S) /\ Len(right) = n - at
        /\ \A i \in 1..(n - at) : right[i] = s[at + i]
    <2>1. \A i \in (at + 1)..n : s[i] \in S
      BY <1>1, <1>2
    <2>2. /\ right \in Seq(S)
          /\ Len(right) = IF at + 1 <= n THEN n - (at + 1) + 1 ELSE 0
          /\ \A i \in 1..(n - (at + 1) + 1) : right[i] = s[at + 1 + i - 1]
      BY <1>2, <2>1, SubSeqProperties
    <2> HIDE DEF right
    <2> QED BY <1>2, <2>2
  <1>5. pair \in Seq(S) /\ Len(pair) = 2 /\ pair[1] = r.header /\ pair[2] = r.exit
    OBVIOUS
  <1> HIDE DEF left, right, pair
  <1> DEFINE front == left \o pair
  <1>6. /\ front \in Seq(S) /\ Len(front) = at + 2
        /\ \A i \in 1..(at + 2) :
              front[i] = IF i <= at THEN s[i] ELSE pair[i - at]
    <2>1. /\ front \in Seq(S) /\ Len(front) = Len(left) + Len(pair)
          /\ \A i \in 1..(Len(left) + Len(pair)) :
                front[i] = IF i <= Len(left) THEN left[i] ELSE pair[i - Len(left)]
      BY <1>3, <1>5, ConcatProperties
    <2> HIDE DEF front
    <2> QED BY <1>2, <1>3, <1>5, <2>1
  <1> HIDE DEF front
  <1>7. /\ ins \in Seq(S) /\ Len(ins) = n + 2
        /\ \A i \in 1..(n + 2) :
              ins[i] = IF i <= at + 2 THEN front[i] ELSE s[i - 2]
    <2>1. ins = front \o right
      BY DEF Inserted, front, left, right, pair, n
    <2> HIDE DEF ins
    <2>2. /\ ins \in Seq(S) /\ Len(ins) = Len(front) + Len(right)
          /\ \A i \in 1..(Len(front) + Len(right)) :
                ins[i] = IF i <= Len(front) THEN front[i] ELSE right[i - Len(front)]
      BY <1>4, <1>6, <2>1, ConcatProperties
    <2>3. at + 2 + (n - at) = n + 2
      BY <1>2
    <2>4. \A i \in 1..(n + 2) :
             ~(i <= at + 2) => i - (at + 2) \in 1..(n - at) /\ at + (i - (at + 2)) = i - 2
      BY <1>2
    <2> QED BY <1>4, <1>6, <2>2, <2>3, <2>4
  <1> HIDE DEF ins
  <1>8. \A i \in 1..(n + 2) :
           ins[i] = IF i <= at THEN s[i] ELSE IF i = at + 1 THEN r.header
                    ELSE IF i = at + 2 THEN r.exit ELSE s[i - 2]
    <2> SUFFICES ASSUME NEW i \in 1..(n + 2)
                 PROVE  ins[i] = IF i <= at THEN s[i] ELSE IF i = at + 1 THEN r.header
                                 ELSE IF i = at + 2 THEN r.exit ELSE s[i - 2]
      OBVIOUS
    <2>1. CASE i <= at
      <3>1. i \in 1..(at + 2) /\ i <= at + 2
        BY <1>2, <2>1
      <3> QED BY <1>6, <1>7, <2>1, <3>1
    <2>2. CASE i = at + 1
      <3>1. i \in 1..(at + 2) /\ i <= at + 2 /\ ~(i <= at) /\ i - at = 1
        BY <1>2, <2>2
      <3> QED BY <1>5, <1>6, <1>7, <2>2, <3>1
    <2>3. CASE i = at + 2
      <3>1. i \in 1..(at + 2) /\ i <= at + 2 /\ ~(i <= at) /\ i # at + 1 /\ i - at = 2
        BY <1>2, <2>3
      <3> QED BY <1>5, <1>6, <1>7, <2>3, <3>1
    <2>4. CASE i > at + 2
      <3>1. ~(i <= at + 2) /\ ~(i <= at) /\ i # at + 1 /\ i # at + 2
        BY <1>2, <2>4
      <3> QED BY <1>7, <3>1
    <2> QED BY <1>2, <2>1, <2>2, <2>3, <2>4
  (* Where each index of the new sequence comes from.                       *)
  <1> DEFINE old(i) == IF i <= at THEN i ELSE i - 2
             new(k) == IF k <= at THEN k ELSE k + 2
             Kept(i) == i # at + 1 /\ i # at + 2
  <1>9. \A i \in 1..(n + 2) : Kept(i) => old(i) \in 1..n /\ ins[i] = s[old(i)]
    BY <1>2, <1>8
  <1>10. \A i, j \in 1..(n + 2) : Kept(i) /\ Kept(j) /\ old(i) = old(j) => i = j
    BY <1>2
  <1>11. \A k \in 1..n : new(k) \in 1..(n + 2) /\ ins[new(k)] = s[k]
    <2> SUFFICES ASSUME NEW k \in 1..n
                 PROVE  new(k) \in 1..(n + 2) /\ ins[new(k)] = s[k]
      OBVIOUS
    <2>1. new(k) \in 1..(n + 2) /\ Kept(new(k)) /\ old(new(k)) = k
      BY <1>2
    <2> HIDE DEF new, old, Kept
    <2> QED BY <1>9, <2>1
  <1>12. at + 1 \in 1..(n + 2) /\ at + 2 \in 1..(n + 2) /\ 1 \in 1..(n + 2)
    BY <1>2
  <1>13. ins[at + 1] = r.header /\ ins[at + 2] = r.exit
    BY <1>2, <1>8, <1>12
  <1>14. \A k \in 1..n : s[k] # r.header /\ s[k] # r.exit
    BY <1>1 DEF Elements
  <1>15. ins[1] = s[1]
    BY <1>2, <1>8, <1>12
  <1>16. DOMAIN ins = 1..(n + 2) /\ ins # << >>
    BY <1>2, <1>7, <1>12
  <1>17. Distinct(ins)
    <2> SUFFICES ASSUME NEW i \in 1..(n + 2), NEW j \in 1..(n + 2), ins[i] = ins[j]
                 PROVE  i = j
      BY <1>16 DEF Distinct
    <2>1. CASE Kept(i) /\ Kept(j)
      <3>1. old(i) = old(j)
        <4> HIDE DEF old, Kept
        <4> QED BY <1>1, <1>9, <2>1 DEF Distinct
      <3> HIDE DEF old, Kept
      <3> QED BY <1>10, <2>1, <3>1
    <2>2. CASE ~Kept(i)
      <3>1. ins[i] \in {r.header, r.exit}
        BY <1>13, <2>2
      <3>2. ~Kept(j)
        <4> HIDE DEF old, Kept
        <4> QED BY <1>9, <1>14, <3>1
      <3> QED BY <1>13, <2>2, <3>2
    <2>3. CASE ~Kept(j)
      <3>1. ins[j] \in {r.header, r.exit}
        BY <1>13, <2>3
      <3>2. ~Kept(i)
        <4> HIDE DEF old, Kept
        <4> QED BY <1>9, <1>14, <3>1
      <3> QED BY <1>13, <2>3, <3>2
    <2> HIDE DEF Kept
    <2> QED BY <2>1, <2>2, <2>3
  <1>18. Elements(ins) = Elements(s) \cup {r.header, r.exit}
    <2> HIDE DEF old, new
    <2>1. \A i \in 1..(n + 2) : ins[i] \in Elements(s) \cup {r.header, r.exit}
      BY <1>1, <1>9, <1>13 DEF Elements
    <2>2. \A k \in 1..n : s[k] \in Elements(ins)
      BY <1>11, <1>16 DEF Elements
    <2>3. r.header \in Elements(ins) /\ r.exit \in Elements(ins)
      BY <1>12, <1>13, <1>16 DEF Elements
    <2>4. Elements(ins) \subseteq Elements(s) \cup {r.header, r.exit}
      BY <1>16, <2>1 DEF Elements
    <2>5. Elements(s) \subseteq Elements(ins)
      BY <1>1, <2>2 DEF Elements
    <2> QED BY <2>3, <2>4, <2>5
  <1> QED BY <1>7, <1>15, <1>16, <1>17, <1>18 DEF ins

-----------------------------------------------------------------------------
(* The invariant.                                                           *)
LEMMA CandidatesMovable ==
    ASSUME graph \in Graphs
    PROVE  \A r \in Candidates : Movable(r)
  <1> SUFFICES ASSUME NEW r \in Candidates
               PROVE  Movable(r)
    OBVIOUS
  <1>1. PICK e \in EdgesOf(graph.targets), x \in Blocks :
           r = [header |-> e[2], latch |-> e[1], exit |-> x, members |-> Members(e[2], e[1])]
    BY DEF Candidates
  <1>2. r.header = e[2] /\ r.latch = e[1] /\ r.exit = x
    BY <1>1
  <1>3. e[1] \in Blocks /\ e[2] \in Blocks /\ e[2] \in Elements(Targets(e[1]))
    BY DEF EdgesOf, Blocks, Targets
  <1>4. e[2] # Entry
    BY <1>3, GraphFacts
  <1>5. r.latch # r.header /\ r.exit \notin {r.header, r.latch, Entry}
    BY DEF Candidates, Rotatable
  <1> QED BY <1>1, <1>2, <1>3, <1>4, <1>5 DEF Movable

LEMMA InitInvariant == Init => IInv
  <1> SUFFICES ASSUME Init PROVE IInv
    OBVIOUS
  <1>1. graph \in Graphs /\ rotations = {} /\ order = [i \in 1..Len(graph.targets) |-> i]
    BY DEF Init
  <1>2. /\ Len(graph.targets) \in Nat /\ Len(graph.targets) > 0
        /\ Blocks = 1..Len(graph.targets) /\ Entry \in Blocks
    BY <1>1, GraphFacts
  <1>3. order \in Seq(Blocks) /\ DOMAIN order = 1..Len(graph.targets)
    BY <1>1, <1>2
  <1>4. \A i \in DOMAIN order : order[i] = i
    BY <1>1, <1>3
  <1>5. Elements(order) = Blocks
    BY <1>2, <1>3, <1>4 DEF Elements
  <1>6. 1 \in DOMAIN order /\ order # << >> /\ order[1] = Entry
    BY <1>2, <1>3, <1>4 DEF Entry
  <1>7. Distinct(order)
    BY <1>4 DEF Distinct
  <1> QED BY <1>1, <1>3, <1>5, <1>6, <1>7, ReachableFacts DEF IInv

(* The steps that leave the order alone.                                    *)
LEMMA SameOrder ==
    ASSUME IInv, UNCHANGED <<graph, order>>, rotations' = rotations,
           phase' \in {"plan", "rotate"} => phase \in {"plan", "rotate"}
    PROVE  IInv'
  <1>1. Blocks' = Blocks
    BY DEF Blocks
  <1>2. Reachable' = Reachable
    BY DEF Reachable, ReachedAvoiding, Targets
  <1>3. Elements(order)' = Elements(order)
    BY DEF Elements
  <1>4. \A r : Movable(r)' <=> Movable(r)
    BY <1>1 DEF Movable
  <1>5. Distinct(order)' <=> Distinct(order)
    BY DEF Distinct
  <1> QED BY <1>1, <1>2, <1>3, <1>4, <1>5 DEF IInv

LEMMA PlanInvariant == IInv /\ Plan => IInv'
  <1> SUFFICES ASSUME IInv, Plan PROVE IInv'
    OBVIOUS
  <1>1. graph' = graph /\ order' = order /\ phase = "plan"
    BY DEF Plan
  <1>2. rotations' = rotations \/ rotations' = Candidates
    BY DEF Plan
  <1>3. Blocks' = Blocks
    BY <1>1 DEF Blocks
  <1>4. Reachable' = Reachable
    BY <1>1 DEF Reachable, ReachedAvoiding, Targets
  <1>5. \A r \in rotations' : Movable(r)'
    <2>1. \A r : Movable(r)' <=> Movable(r)
      BY <1>3 DEF Movable
    <2>2. \A r \in rotations' : Movable(r)
      BY <1>2, CandidatesMovable DEF IInv
    <2> QED BY <2>1, <2>2
  <1>6. Elements(order)' = Elements(order) /\ (Distinct(order)' <=> Distinct(order))
    BY <1>1 DEF Elements, Distinct
  <1> QED BY <1>1, <1>3, <1>4, <1>5, <1>6 DEF IInv

LEMMA RotateInvariant == IInv /\ Rotate => IInv'
  <1> SUFFICES ASSUME IInv, Rotate PROVE IInv'
    OBVIOUS
  <1>1. PICK r \in rotations : order' = Rotated(order, r) /\ rotations' = rotations \ {r}
    BY DEF Rotate
  <1>2. graph' = graph /\ phase' = phase /\ phase = "rotate"
    BY DEF Rotate
  <1>3. Movable(r) /\ Elements(order) = Blocks /\ order \in Seq(Blocks) /\ order # << >>
    BY <1>2 DEF IInv
  <1> DEFINE D == {r.header, r.exit}
             rest == Without(order, D)
             at == PositionOf(rest, r.latch)
  <1>4. order[1] \notin D
    BY <1>3 DEF Movable, IInv
  <1>5. /\ rest \in Seq(Blocks) /\ Distinct(rest) /\ Elements(rest) = Blocks \ D
        /\ rest # << >> /\ rest[1] = Entry
    BY <1>3, <1>4, WithoutFacts DEF IInv
  <1>6. r.latch \in Elements(rest)
    BY <1>3, <1>5 DEF Movable
  <1> HIDE DEF rest
  <1>7. at \in 1..Len(rest)
    <2>1. \E i \in DOMAIN rest : rest[i] = r.latch
      BY <1>6 DEF Elements
    <2> QED BY <1>5, <2>1 DEF PositionOf
  <1>8. order' = Inserted(rest, at, r)
    BY <1>1, <1>6 DEF Rotated, rest
  <1>9. D \subseteq Blocks \ Elements(rest) /\ r.header # r.exit
    BY <1>3, <1>5 DEF Movable
  <1> HIDE DEF at
  <1>10. /\ order' \in Seq(Blocks) /\ order' # << >> /\ Distinct(order')
         /\ Elements(order') = Elements(rest) \cup D /\ order'[1] = rest[1]
    BY <1>5, <1>7, <1>8, <1>9, InsertedFacts
  <1>11. Elements(order') = Blocks
    BY <1>5, <1>9, <1>10
  <1>12. Blocks' = Blocks
    BY <1>2 DEF Blocks
  <1>13. Reachable' = Reachable
    BY <1>2 DEF Reachable, ReachedAvoiding, Targets
  <1>14. \A q \in rotations' : Movable(q)'
    BY <1>1, <1>12 DEF Movable, IInv
  <1>15. graph' \in Graphs /\ Reachable \subseteq Blocks
    BY <1>2, ReachableFacts DEF IInv
  <1> QED BY <1>2, <1>5, <1>10, <1>11, <1>12, <1>13, <1>14, <1>15 DEF IInv

LEMMA PruneInvariant == IInv /\ Prune => IInv'
  <1> SUFFICES ASSUME IInv, Prune PROVE IInv'
    OBVIOUS
  <1>1. /\ order' = Without(order, Blocks \ Reachable) /\ phase = "rotate" /\ phase' = "setup"
        /\ graph' = graph /\ rotations' = rotations
    BY DEF Prune
  <1>2. Entry \in Reachable /\ Reachable \subseteq Blocks
    BY ReachableFacts DEF IInv
  <1>3. /\ order' \in Seq(Blocks) /\ Distinct(order') /\ order' # << >> /\ order'[1] = Entry
        /\ Elements(order') = Elements(order) \ (Blocks \ Reachable)
    <2>1. order[1] \notin Blocks \ Reachable
      BY <1>2 DEF IInv
    <2>2. order \in Seq(Blocks) /\ Distinct(order) /\ order # << >> /\ order[1] = Entry
      BY DEF IInv
    <2> DEFINE D == Blocks \ Reachable
               w == Without(order, D)
    <2>3. order[1] \notin D /\ order' = w
      BY <1>1, <2>1
    <2> HIDE DEF D
    <2>4. /\ w \in Seq(Blocks) /\ Distinct(w) /\ Elements(w) = Elements(order) \ D
          /\ w # << >> /\ w[1] = order[1]
      <3>1. order \in Seq(Blocks) /\ Distinct(order)
        BY <2>2
      <3>2. w \in Seq(Blocks) /\ Distinct(w) /\ Elements(w) = Elements(order) \ D
        BY ONLY <3>1, WithoutFacts
      <3>3. order # << >> /\ order[1] \notin D => w # << >> /\ w[1] = order[1]
        BY ONLY <3>1, WithoutFacts
      <3> QED BY <2>2, <2>3, <3>2, <3>3
    <2> HIDE DEF w
    <2>5. /\ order' \in Seq(Blocks) /\ Distinct(order') /\ order' # << >> /\ order'[1] = Entry
          /\ Elements(order') = Elements(order) \ D
      BY ONLY <2>2, <2>3, <2>4
    <2> QED BY <2>5 DEF D
  <1>4. Reachable \subseteq Elements(order')
    BY <1>2, <1>3 DEF IInv
  <1>5. Blocks' = Blocks
    BY <1>1 DEF Blocks
  <1>6. Reachable' = Reachable
    BY <1>1 DEF Reachable, ReachedAvoiding, Targets
  <1>7. \A q \in rotations' : Movable(q)'
    BY <1>1, <1>5 DEF Movable, IInv
  <1> QED BY <1>1, <1>3, <1>4, <1>5, <1>6, <1>7 DEF IInv

(* No later step touches the order.                                         *)
LEMMA NextInvariant == IInv /\ [Next]_vars => IInv'
  <1> SUFFICES ASSUME IInv, [Next]_vars PROVE IInv'
    OBVIOUS
  <1>1. CASE Plan
    BY <1>1, PlanInvariant
  <1>2. CASE Rotate
    BY <1>2, RotateInvariant
  <1>3. CASE Prune
    BY <1>3, PruneInvariant
  <1>4. CASE Setup \/ EmitBlock \/ EmitEpilogue
    BY <1>4, SameOrder DEF Setup, EmitBlock, EmitEpilogue
  <1>5. CASE \/ RunBlock \/ PassItem \/ MakeMoves \/ FollowBranch \/ FollowJump
             \/ ReturnToCaller
    BY <1>5, SameOrder DEF RunBlock, PassItem, MakeMoves, FollowBranch, FollowJump,
       ReturnToCaller, layoutVars
  <1>6. CASE Returned \/ UNCHANGED vars
    BY <1>6, SameOrder DEF Returned, vars, layoutVars
  <1> QED BY <1>1, <1>2, <1>3, <1>4, <1>5, <1>6 DEF Next

(* IInv holds in every reachable state.                                     *)
THEOREM Invariance == Spec => []IInv
  BY InitInvariant, NextInvariant, PTL DEF Spec

(* Rotation never loses or repeats a block, and the entry stays first.      *)
THEOREM NoBlockLost == Spec => []OrderComplete
  <1>1. IInv => OrderComplete
    BY DEF IInv, OrderComplete, Distinct
  <1> QED BY <1>1, Invariance, PTL

-----------------------------------------------------------------------------
(* The code.  Its items are records; what a piece of code says about labels *)
(* is the names it writes and the names it aims at.                         *)
LabelItem(l) == [op |-> "label", to |-> l]
JumpItem(l) == [op |-> "jump", to |-> l]
BranchItem(c, l) == [op |-> "branch", when |-> c, to |-> l]
RunItem(b) == [op |-> "run", block |-> b]
RerunItem(b) == [op |-> "rerun", block |-> b]
MovesItem(e) == [op |-> "moves", edge |-> e]
RetItem == [op |-> "ret"]

LabelNames == {"block", "edge", "return", "frame", "fast"} \X (Blocks \cup {None})
Items ==
    {LabelItem(l) : l \in LabelNames} \cup {JumpItem(l) : l \in LabelNames}
    \cup {BranchItem(c, l) : c \in BOOLEAN, l \in LabelNames}
    \cup {RunItem(b) : b \in Blocks} \cup {RerunItem(b) : b \in Blocks}
    \cup {MovesItem(e) : e \in graph.moves} \cup {RetItem}

Names(x) == {x[i].to : i \in {k \in DOMAIN x : x[k].op = "label"}}
Aims(x) == {x[i].to : i \in {k \in DOMAIN x : x[k].op \in {"jump", "branch"}}}
Tidy(x) ==
    \A i, j \in DOMAIN x : x[i].op = "label" /\ x[j].op = "label" /\ x[i].to = x[j].to => i = j
NoRun(x) == \A i \in DOMAIN x : x[i].op # "run"

Part(x, names, aims) == x \in Seq(Items) /\ Tidy(x) /\ Names(x) = names /\ Aims(x) = aims

(* Where a piece begins and ends in the code.                               *)
Span(c, i, x, j) ==
    /\ i \in Nat /\ j = i + Len(x)
    /\ \A k \in 1..Len(x) : i + k - 1 \in DOMAIN c /\ c[i + k - 1] = x[k]

LEMMA Joined ==
    ASSUME NEW S, NEW x \in Seq(S), NEW y \in Seq(S)
    PROVE  /\ x \o y \in Seq(S) /\ Len(x \o y) = Len(x) + Len(y)
           /\ \A i \in DOMAIN x : i \in DOMAIN (x \o y) /\ (x \o y)[i] = x[i]
           /\ \A i \in DOMAIN y : Len(x) + i \in DOMAIN (x \o y) /\ (x \o y)[Len(x) + i] = y[i]
           /\ \A i \in DOMAIN (x \o y) : i \in DOMAIN x \/ \E k \in DOMAIN y : i = Len(x) + k
  <1> DEFINE z == x \o y
  <1>1. /\ z \in Seq(S) /\ Len(z) = Len(x) + Len(y)
        /\ \A i \in 1..(Len(x) + Len(y)) : z[i] = IF i <= Len(x) THEN x[i] ELSE y[i - Len(x)]
    BY ConcatProperties
  <1>2. /\ Len(x) \in Nat /\ Len(y) \in Nat /\ DOMAIN x = 1..Len(x) /\ DOMAIN y = 1..Len(y)
        /\ DOMAIN z = 1..Len(z)
    <2> HIDE DEF z
    <2> QED BY <1>1
  <1> HIDE DEF z
  <1>3. \A i \in DOMAIN x : i \in DOMAIN z /\ z[i] = x[i]
    BY <1>1, <1>2
  <1>4. ASSUME NEW i \in DOMAIN y
        PROVE  Len(x) + i \in DOMAIN z /\ z[Len(x) + i] = y[i]
    <2>1. Len(x) + i \in 1..(Len(x) + Len(y)) /\ ~(Len(x) + i <= Len(x)) /\ Len(x) + i - Len(x) = i
      BY <1>2
    <2> QED BY <1>1, <1>2, <2>1
  <1>5. ASSUME NEW i \in DOMAIN z, i \notin DOMAIN x
        PROVE  \E k \in DOMAIN y : i = Len(x) + k
    <2>1. i - Len(x) \in DOMAIN y /\ i = Len(x) + (i - Len(x))
      BY <1>1, <1>2, <1>5
    <2> QED BY <2>1
  <1> QED BY <1>1, <1>3, <1>4, <1>5 DEF z

LEMMA NameFacts ==
    ASSUME NEW x
    PROVE  /\ \A i \in DOMAIN x : x[i].op = "label" => x[i].to \in Names(x)
           /\ \A l \in Names(x) : \E i \in DOMAIN x : x[i].op = "label" /\ l = x[i].to
           /\ \A i \in DOMAIN x : x[i].op \in {"jump", "branch"} => x[i].to \in Aims(x)
           /\ \A l \in Aims(x) : \E i \in DOMAIN x : x[i].op \in {"jump", "branch"} /\ l = x[i].to
  BY DEF Names, Aims

(* Two pieces with different labels can be put in a row.                    *)
LEMMA PartsJoin ==
    ASSUME NEW x, NEW y, NEW m, NEW n, NEW a, NEW d, Part(x, m, a), Part(y, n, d), m \cap n = {}
    PROVE  /\ Part(x \o y, m \cup n, a \cup d)
           /\ NoRun(x) /\ NoRun(y) => NoRun(x \o y)
  <1> DEFINE z == x \o y
  <1>1. x \in Seq(Items) /\ y \in Seq(Items) /\ Tidy(x) /\ Tidy(y)
        /\ Names(x) = m /\ Names(y) = n /\ Aims(x) = a /\ Aims(y) = d
    BY DEF Part
  <1>2. /\ z \in Seq(Items)
        /\ \A i \in DOMAIN x : i \in DOMAIN z /\ z[i] = x[i]
        /\ \A i \in DOMAIN y : Len(x) + i \in DOMAIN z /\ z[Len(x) + i] = y[i]
        /\ \A i \in DOMAIN z : i \in DOMAIN x \/ \E k \in DOMAIN y : i = Len(x) + k
    BY ONLY <1>1, Joined
  <1> HIDE DEF z
  <1>3. Names(z) = m \cup n
    <2>1. ASSUME NEW l \in Names(z)
          PROVE  l \in m \cup n
      <3>1. PICK i \in DOMAIN z : z[i].op = "label" /\ l = z[i].to
        BY NameFacts
      <3> QED BY <1>1, <1>2, <3>1, NameFacts
    <2>2. ASSUME NEW l \in m
          PROVE  l \in Names(z)
      <3>1. PICK i \in DOMAIN x : x[i].op = "label" /\ l = x[i].to
        BY <1>1, NameFacts
      <3> QED BY <1>2, <3>1, NameFacts
    <2>3. ASSUME NEW l \in n
          PROVE  l \in Names(z)
      <3>1. PICK i \in DOMAIN y : y[i].op = "label" /\ l = y[i].to
        BY <1>1, NameFacts
      <3> QED BY <1>2, <3>1, NameFacts
    <2> QED BY <2>1, <2>2, <2>3
  <1>4. Aims(z) = a \cup d
    <2>1. ASSUME NEW l \in Aims(z)
          PROVE  l \in a \cup d
      <3>1. PICK i \in DOMAIN z : z[i].op \in {"jump", "branch"} /\ l = z[i].to
        BY NameFacts
      <3> QED BY <1>1, <1>2, <3>1, NameFacts
    <2>2. ASSUME NEW l \in a
          PROVE  l \in Aims(z)
      <3>1. PICK i \in DOMAIN x : x[i].op \in {"jump", "branch"} /\ l = x[i].to
        BY <1>1, NameFacts
      <3> QED BY <1>2, <3>1, NameFacts
    <2>3. ASSUME NEW l \in d
          PROVE  l \in Aims(z)
      <3>1. PICK i \in DOMAIN y : y[i].op \in {"jump", "branch"} /\ l = y[i].to
        BY <1>1, NameFacts
      <3> QED BY <1>2, <3>1, NameFacts
    <2> QED BY <2>1, <2>2, <2>3
  <1>5. Tidy(z)
    <2> SUFFICES ASSUME NEW i \in DOMAIN z, NEW j \in DOMAIN z, z[i].op = "label", z[j].op = "label",
                        z[i].to = z[j].to
                 PROVE  i = j
      BY DEF Tidy
    <2>1. \A k \in DOMAIN x : x[k].op = "label" => x[k].to \in m
      BY <1>1 DEF Names
    <2>2. \A k \in DOMAIN y : y[k].op = "label" => y[k].to \in n
      BY <1>1 DEF Names
    <2>3. CASE i \in DOMAIN x /\ j \in DOMAIN x
      BY <1>1, <1>2, <2>3 DEF Tidy
    <2>4. CASE i \in DOMAIN x /\ \E k \in DOMAIN y : j = Len(x) + k
      BY <1>2, <2>1, <2>2, <2>4
    <2>5. CASE j \in DOMAIN x /\ \E k \in DOMAIN y : i = Len(x) + k
      BY <1>2, <2>1, <2>2, <2>5
    <2>6. ASSUME NEW k \in DOMAIN y, i = Len(x) + k, NEW l \in DOMAIN y, j = Len(x) + l
          PROVE  i = j
      BY <1>1, <1>2, <2>6 DEF Tidy
    <2> QED BY <1>2, <2>3, <2>4, <2>5, <2>6
  <1>6. NoRun(x) /\ NoRun(y) => NoRun(z)
    BY <1>2 DEF NoRun
  <1> QED BY <1>2, <1>3, <1>4, <1>5, <1>6 DEF Part, z

(* The code before a join ends where the code behind it begins.             *)
LEMMA SpanSplits ==
    ASSUME NEW S, NEW x \in Seq(S), NEW y \in Seq(S), NEW c, NEW i, NEW j, Span(c, i, x \o y, j)
    PROVE  Span(c, i, x, i + Len(x)) /\ Span(c, i + Len(x), y, j) /\ Len(x) \in Nat
  <1> DEFINE z == x \o y
  <1>1. /\ Len(z) = Len(x) + Len(y) /\ z \in Seq(S)
        /\ \A k \in DOMAIN x : k \in DOMAIN z /\ z[k] = x[k]
        /\ \A k \in DOMAIN y : Len(x) + k \in DOMAIN z /\ z[Len(x) + k] = y[k]
    BY ONLY Joined, x \in Seq(S), y \in Seq(S)
  <1>2. Span(c, i, z, j)
    OBVIOUS
  <1> HIDE DEF z
  <1>3. /\ Len(x) \in Nat /\ Len(y) \in Nat /\ DOMAIN x = 1..Len(x) /\ DOMAIN y = 1..Len(y)
        /\ DOMAIN z = 1..Len(z)
    BY <1>1
  <1>4. /\ i \in Nat /\ j = i + Len(z)
        /\ \A k \in DOMAIN z : i + k - 1 \in DOMAIN c /\ c[i + k - 1] = z[k]
    BY <1>2, <1>3 DEF Span
  <1>5. Span(c, i, x, i + Len(x))
    BY <1>1, <1>3, <1>4 DEF Span
  <1>6. Span(c, i + Len(x), y, j)
    <2>1. \A k \in DOMAIN y : i + (Len(x) + k) - 1 = i + Len(x) + k - 1
      BY <1>3, <1>4
    <2>2. \A k \in DOMAIN y : i + Len(x) + k - 1 \in DOMAIN c /\ c[i + Len(x) + k - 1] = y[k]
      <3> TAKE k \in DOMAIN y
      <3>1. i + (Len(x) + k) - 1 \in DOMAIN c /\ c[i + (Len(x) + k) - 1] = y[k]
        BY <1>1, <1>4
      <3> QED BY <2>1, <3>1
    <2>3. i + Len(x) \in Nat /\ j = i + Len(x) + Len(y)
      BY <1>1, <1>3, <1>4
    <2> QED BY <1>3, <2>2, <2>3 DEF Span
  <1> QED BY <1>3, <1>5, <1>6

LEMMA OneItem ==
    ASSUME NEW x \in Items
    PROVE  /\ <<x>> \in Seq(Items) /\ Len(<<x>>) = 1 /\ Tidy(<<x>>)
           /\ Names(<<x>>) = (IF x.op = "label" THEN {x.to} ELSE {})
           /\ Aims(<<x>>) = (IF x.op \in {"jump", "branch"} THEN {x.to} ELSE {})
           /\ x.op # "run" => NoRun(<<x>>)
  <1>1. DOMAIN <<x>> = {1} /\ <<x>>[1] = x
    OBVIOUS
  <1> QED BY <1>1 DEF Tidy, Names, Aims, NoRun

LEMMA PieceFacts ==
    /\ Part(<< >>, {}, {}) /\ NoRun(<< >>)
    /\ \A l \in LabelNames :
          /\ Part(Label(l), {l}, {}) /\ NoRun(Label(l))
          /\ Part(Jump(l), {}, {l}) /\ NoRun(Jump(l))
          /\ \A c \in BOOLEAN : Part(BranchIf(c, l), {}, {l}) /\ NoRun(BranchIf(c, l))
    /\ \A b \in Blocks :
          Part(Run(b), {}, {}) /\ Part(Rerun(b), {}, {}) /\ NoRun(Rerun(b))
    /\ \A p, t : Part(Moves(p, t), {}, {}) /\ NoRun(Moves(p, t))
    /\ Part(Ret, {}, {}) /\ NoRun(Ret)
  <1>1. Part(<< >>, {}, {}) /\ NoRun(<< >>)
    BY DEF Part, Tidy, Names, Aims, NoRun
  <1>2. ASSUME NEW l \in LabelNames
        PROVE  Part(Label(l), {l}, {}) /\ NoRun(Label(l))
    <2>1. LabelItem(l) \in Items /\ LabelItem(l).op = "label" /\ LabelItem(l).to = l
      BY DEF Items, LabelItem
    <2>2. Label(l) = <<LabelItem(l)>>
      BY DEF Label, LabelItem
    <2> QED BY <2>1, <2>2, OneItem DEF Part
  <1>3. ASSUME NEW l \in LabelNames
        PROVE  Part(Jump(l), {}, {l}) /\ NoRun(Jump(l))
    <2>1. JumpItem(l) \in Items /\ JumpItem(l).op = "jump" /\ JumpItem(l).to = l
      BY DEF Items, JumpItem
    <2>2. Jump(l) = <<JumpItem(l)>>
      BY DEF Jump, JumpItem
    <2> QED BY <2>1, <2>2, OneItem DEF Part
  <1>4. ASSUME NEW l \in LabelNames, NEW c \in BOOLEAN
        PROVE  Part(BranchIf(c, l), {}, {l}) /\ NoRun(BranchIf(c, l))
    <2>1. BranchItem(c, l) \in Items /\ BranchItem(c, l).op = "branch" /\ BranchItem(c, l).to = l
      BY DEF Items, BranchItem
    <2>2. BranchIf(c, l) = <<BranchItem(c, l)>>
      BY DEF BranchIf, BranchItem
    <2> QED BY <2>1, <2>2, OneItem DEF Part
  <1>5. ASSUME NEW b \in Blocks
        PROVE  Part(Run(b), {}, {}) /\ Part(Rerun(b), {}, {}) /\ NoRun(Rerun(b))
    <2>1. RunItem(b) \in Items /\ RunItem(b).op = "run" /\ RerunItem(b) \in Items /\ RerunItem(b).op = "rerun"
      BY DEF Items, RunItem, RerunItem
    <2>2. Run(b) = <<RunItem(b)>> /\ Rerun(b) = <<RerunItem(b)>>
      BY DEF Run, Rerun, RunItem, RerunItem
    <2> QED BY <2>1, <2>2, OneItem DEF Part
  <1>6. ASSUME NEW p, NEW t
        PROVE  Part(Moves(p, t), {}, {}) /\ NoRun(Moves(p, t))
    <2>1. CASE <<p, t>> \in graph.moves
      <3>1. MovesItem(<<p, t>>) \in Items /\ MovesItem(<<p, t>>).op = "moves"
        BY <2>1 DEF Items, MovesItem
      <3>2. Moves(p, t) = <<MovesItem(<<p, t>>)>>
        BY <2>1 DEF Moves, MovesItem
      <3> QED BY <3>1, <3>2, OneItem DEF Part
    <2>2. CASE <<p, t>> \notin graph.moves
      BY <1>1, <2>2 DEF Moves
    <2> QED BY <2>1, <2>2
  <1>7. Part(Ret, {}, {}) /\ NoRun(Ret)
    <2>1. RetItem \in Items /\ RetItem.op = "ret"
      BY DEF Items, RetItem
    <2>2. Ret = <<RetItem>>
      BY DEF Ret, RetItem
    <2> QED BY <2>1, <2>2, OneItem DEF Part
  <1> QED BY <1>1, <1>2, <1>3, <1>4, <1>5, <1>6, <1>7

LEMMA SpanOfOne ==
    ASSUME NEW c, NEW i, NEW j, NEW x, Span(c, i, <<x>>, j)
    PROVE  i \in Nat /\ j = i + 1 /\ i \in DOMAIN c /\ c[i] = x
  <1>1. Len(<<x>>) = 1 /\ <<x>>[1] = x /\ 1 \in 1..1
    OBVIOUS
  <1>2. i \in Nat /\ j = i + 1 /\ i + 1 - 1 \in DOMAIN c /\ c[i + 1 - 1] = x
    BY <1>1 DEF Span
  <1>3. i + 1 - 1 = i
    BY <1>2
  <1> QED BY <1>2, <1>3

(* The place behind a single item.                                          *)
LEMMA SpanLabel ==
    ASSUME NEW c, NEW i, NEW j, NEW l, Span(c, i, Label(l), j)
    PROVE  j = i + 1 /\ i \in DOMAIN c /\ c[i] = LabelItem(l)
  BY SpanOfOne DEF Label, LabelItem
LEMMA SpanJump ==
    ASSUME NEW c, NEW i, NEW j, NEW l, Span(c, i, Jump(l), j)
    PROVE  j = i + 1 /\ i \in DOMAIN c /\ c[i] = JumpItem(l)
  BY SpanOfOne DEF Jump, JumpItem
LEMMA SpanBranch ==
    ASSUME NEW c, NEW i, NEW j, NEW w, NEW l, Span(c, i, BranchIf(w, l), j)
    PROVE  j = i + 1 /\ i \in DOMAIN c /\ c[i] = BranchItem(w, l)
  BY SpanOfOne DEF BranchIf, BranchItem
LEMMA SpanRun ==
    ASSUME NEW c, NEW i, NEW j, NEW b, Span(c, i, Run(b), j)
    PROVE  j = i + 1 /\ i \in DOMAIN c /\ c[i] = RunItem(b)
  BY SpanOfOne DEF Run, RunItem
LEMMA SpanRerun ==
    ASSUME NEW c, NEW i, NEW j, NEW b, Span(c, i, Rerun(b), j)
    PROVE  j = i + 1 /\ i \in DOMAIN c /\ c[i] = RerunItem(b)
  BY SpanOfOne DEF Rerun, RerunItem
LEMMA SpanRet ==
    ASSUME NEW c, NEW i, NEW j, Span(c, i, Ret, j)
    PROVE  j = i + 1 /\ i \in DOMAIN c /\ c[i] = RetItem
  BY SpanOfOne DEF Ret, RetItem
LEMMA SpanMoves ==
    ASSUME NEW c, NEW i, NEW j, NEW p, NEW t, Span(c, i, Moves(p, t), j)
    PROVE  IF <<p, t>> \in graph.moves
           THEN j = i + 1 /\ i \in DOMAIN c /\ c[i] = MovesItem(<<p, t>>)
           ELSE j = i
  <1>1. CASE <<p, t>> \in graph.moves
    <2>1. Moves(p, t) = <<MovesItem(<<p, t>>)>>
      BY <1>1 DEF Moves, MovesItem
    <2> QED BY <1>1, <2>1, SpanOfOne
  <1>2. CASE <<p, t>> \notin graph.moves
    BY <1>2 DEF Moves, Span
  <1> QED BY <1>1, <1>2
LEMMA SpanNone ==
    ASSUME NEW c, NEW i, NEW j, Span(c, i, << >>, j)
    PROVE  j = i
  BY DEF Span

(* A terminator writes at most the label of its own else edge, and aims at  *)
(* its targets, that label and the end of the function.                     *)
LEMMA TerminatorParts ==
    ASSUME graph \in Graphs, NEW b \in Blocks, NEW next \in Blocks \cup {None}
    PROVE  /\ NoRun(Terminator(b, next))
           /\ \E n \in SUBSET {EdgeFrom(b)} : \E a :
                 /\ Part(Terminator(b, next), n, a)
                 /\ a \subseteq {Of(t) : t \in Elements(Targets(b))} \cup {ReturnLabel} \cup n
  <1> DEFINE E == EdgeFrom(b)
             Aimed == {Of(t) : t \in Elements(Targets(b))} \cup {ReturnLabel}
             Plain(x) == NoRun(x) /\ \E a : Part(x, {}, a) /\ a \subseteq Aimed
             Fits(x, n) == NoRun(x) /\ \E a : Part(x, n, a) /\ a \subseteq Aimed \cup {E}
             then == Targets(b)[1]
             else == Targets(b)[2]
  <1>1. /\ Targets(b) \in Seq(Nat) /\ Len(Targets(b)) <= 2 /\ Elements(Targets(b)) \subseteq Blocks
    BY GraphAssumption, GraphFacts DEF WellFormed, Blocks, Targets
  <1>2. Targets(b) # << >> => then \in Elements(Targets(b))
    BY <1>1 DEF Elements
  <1>3. IsBranch(b) => then \in Elements(Targets(b)) /\ else \in Elements(Targets(b))
    BY <1>1 DEF Elements, IsBranch
  <1>4. /\ ReturnLabel \in LabelNames /\ E \in LabelNames
        /\ \A t \in Blocks : Of(t) \in LabelNames
    BY DEF ReturnLabel, EdgeFrom, Of, LabelNames
  <1>5. ASSUME NEW x, NEW n, NEW a, NoRun(x), Part(x, n, a)
        PROVE  /\ n = {} /\ a \subseteq Aimed => Plain(x)
               /\ a \subseteq Aimed \cup {E} => Fits(x, n)
    <2> HIDE DEF Aimed, E
    <2> QED BY <1>5
  <1>6. ASSUME NEW x, Plain(x)
        PROVE  Fits(x, {})
    <2> HIDE DEF Aimed, E
    <2>1. PICK a : Part(x, {}, a) /\ a \subseteq Aimed
      BY <1>6
    <2>2. a \subseteq Aimed \cup {E} /\ NoRun(x)
      BY <1>6, <2>1
    <2> QED BY <2>1, <2>2
  <1>7. ASSUME NEW x, NEW y, Plain(x), Plain(y)
        PROVE  Plain(x \o y)
    <2>1. PICK a : Part(x, {}, a) /\ a \subseteq Aimed
      BY <1>7
    <2>2. PICK d : Part(y, {}, d) /\ d \subseteq Aimed
      BY <1>7
    <2>3. NoRun(x) /\ NoRun(y) /\ {} \cap {} = {} /\ {} \cup {} = {}
      BY <1>7
    <2> HIDE DEF Aimed, Plain, Fits
    <2>4. Part(x \o y, {} \cup {}, a \cup d) /\ NoRun(x \o y)
      BY <2>1, <2>2, <2>3, PartsJoin
    <2>5. a \cup d \subseteq Aimed
      BY <2>1, <2>2
    <2> QED BY <1>5, <2>3, <2>4, <2>5
  <1>8. \A t \in Elements(Targets(b)) : {Of(t)} \subseteq Aimed
    OBVIOUS
  <1>9. {ReturnLabel} \subseteq Aimed /\ {} \subseteq Aimed
    OBVIOUS
  <1> HIDE DEF Aimed, Plain, Fits, then, else, E
  <1>10. Plain(<< >>) /\ Plain(Jump(ReturnLabel)) /\ \A t : Plain(Moves(b, t))
    <2>1. Part(<< >>, {}, {}) /\ NoRun(<< >>)
      BY PieceFacts
    <2>2. Part(Jump(ReturnLabel), {}, {ReturnLabel}) /\ NoRun(Jump(ReturnLabel))
      BY <1>4, PieceFacts
    <2>3. \A t : Part(Moves(b, t), {}, {}) /\ NoRun(Moves(b, t))
      BY PieceFacts
    <2> QED BY <1>5, <1>9, <2>1, <2>2, <2>3
  <1>11. ASSUME NEW t \in Elements(Targets(b))
         PROVE  /\ Plain(Jump(Of(t))) /\ Plain(JumpUnlessNext(t, next))
                /\ \A c \in BOOLEAN : Plain(BranchIf(c, Of(t)))
    <2>1. Of(t) \in LabelNames /\ {Of(t)} \subseteq Aimed
      BY <1>1, <1>4, <1>8
    <2>2. Part(Jump(Of(t)), {}, {Of(t)}) /\ NoRun(Jump(Of(t)))
      BY <2>1, PieceFacts
    <2>3. \A c \in BOOLEAN : Part(BranchIf(c, Of(t)), {}, {Of(t)}) /\ NoRun(BranchIf(c, Of(t)))
      BY <2>1, PieceFacts
    <2>4. Plain(Jump(Of(t))) /\ \A c \in BOOLEAN : Plain(BranchIf(c, Of(t)))
      BY <1>5, <2>1, <2>2, <2>3
    <2> QED BY <1>10, <2>4 DEF JumpUnlessNext
  <1>12. Fits(Label(E), {E}) /\ \A c \in BOOLEAN : Fits(BranchIf(c, E), {})
    <2>1. {E} \subseteq Aimed \cup {E} /\ {} \subseteq Aimed \cup {E}
      OBVIOUS
    <2>2. Part(Label(E), {E}, {}) /\ NoRun(Label(E))
      BY <1>4, PieceFacts
    <2>3. \A c \in BOOLEAN : Part(BranchIf(c, E), {}, {E}) /\ NoRun(BranchIf(c, E))
      BY <1>4, PieceFacts
    <2> QED BY <1>5, <2>1, <2>2, <2>3
  <1>13. ASSUME NEW x, NEW y, NEW m, NEW n, Fits(x, m), Fits(y, n), m \cap n = {}
         PROVE  Fits(x \o y, m \cup n)
    <2>1. PICK a : Part(x, m, a) /\ a \subseteq Aimed \cup {E}
      BY <1>13 DEF Fits, E
    <2>2. PICK d : Part(y, n, d) /\ d \subseteq Aimed \cup {E}
      BY <1>13 DEF Fits, E
    <2>3. NoRun(x) /\ NoRun(y)
      BY <1>13 DEF Fits
    <2>4. Part(x \o y, m \cup n, a \cup d) /\ NoRun(x \o y)
      BY <1>13, <2>1, <2>2, <2>3, PartsJoin
    <2>5. a \cup d \subseteq Aimed \cup {E}
      BY <2>1, <2>2
    <2> QED BY <1>5, <2>4, <2>5
  <1>14. ASSUME IsBranch(b)
         PROVE  Fits(SplitBranch(b, next), {E})
    <2>1. then \in Elements(Targets(b)) /\ else \in Elements(Targets(b))
      BY <1>3, <1>14
    <2>2. {} \cup {} = {} /\ {} \cup {E} = {E} /\ {E} \cup {} = {E}
          /\ {} \cap {} = {} /\ {} \cap {E} = {} /\ {E} \cap {} = {}
      OBVIOUS
    <2>3. \A u, v \in Elements(Targets(b)), w \in BOOLEAN :
             Fits(BranchIf(w, E) \o Moves(b, u) \o Jump(Of(u)) \o Label(E) \o Moves(b, v), {E})
      <3> TAKE u, v \in Elements(Targets(b)), w \in BOOLEAN
      <3>1. Fits(BranchIf(w, E), {}) /\ Fits(Moves(b, u), {}) /\ Fits(Moves(b, v), {})
            /\ Fits(Jump(Of(u)), {})
        BY <1>6, <1>10, <1>11, <1>12
      <3>2. Fits(BranchIf(w, E) \o Moves(b, u), {})
        BY ONLY <1>13, <2>2, <3>1
      <3>3. Fits(BranchIf(w, E) \o Moves(b, u) \o Jump(Of(u)), {})
        BY ONLY <1>13, <2>2, <3>1, <3>2
      <3>4. Fits(BranchIf(w, E) \o Moves(b, u) \o Jump(Of(u)) \o Label(E), {E})
        BY ONLY <1>12, <1>13, <2>2, <3>3
      <3> QED BY ONLY <1>13, <2>2, <3>1, <3>4
    <2>4. SplitBranch(b, next) =
            IF next = then
            THEN BranchIf(TRUE, E) \o Moves(b, else) \o Jump(Of(else)) \o Label(E) \o Moves(b, then)
            ELSE BranchIf(FALSE, E) \o Moves(b, then) \o Jump(Of(then)) \o Label(E) \o Moves(b, else)
                   \o JumpUnlessNext(else, next)
      BY DEF SplitBranch, then, else, E
    <2>5. Fits(JumpUnlessNext(else, next), {})
      BY <1>6, <1>11, <2>1
    <2>6. Fits(BranchIf(FALSE, E) \o Moves(b, then) \o Jump(Of(then)) \o Label(E) \o Moves(b, else)
                   \o JumpUnlessNext(else, next), {E})
      <3>1. Fits(BranchIf(FALSE, E) \o Moves(b, then) \o Jump(Of(then)) \o Label(E) \o Moves(b, else), {E})
        BY <2>1, <2>3
      <3> DEFINE x == BranchIf(FALSE, E) \o Moves(b, then) \o Jump(Of(then)) \o Label(E) \o Moves(b, else)
                 y == JumpUnlessNext(else, next)
      <3>2. Fits(x, {E}) /\ Fits(y, {})
        BY <2>5, <3>1
      <3> HIDE DEF x, y
      <3>3. Fits(x \o y, {E} \cup {})
        BY ONLY <1>13, <2>2, <3>2
      <3> QED BY <2>2, <3>3 DEF x, y
    <2> QED BY <2>1, <2>3, <2>4, <2>6
  <1>15. ASSUME IsBranch(b)
         PROVE  Plain(PlainBranch(b, next))
    <2>1. then \in Elements(Targets(b)) /\ else \in Elements(Targets(b))
      BY <1>3, <1>15
    <2>2. PlainBranch(b, next) =
            IF next = then THEN BranchIf(FALSE, Of(else))
            ELSE IF next = else THEN BranchIf(TRUE, Of(then))
            ELSE BranchIf(FALSE, Of(else)) \o Jump(Of(then))
      BY DEF PlainBranch, then, else
    <2> QED BY <1>7, <1>11, <2>1, <2>2
  <1>16. Targets(b) # << >> => Plain(Moves(b, then) \o JumpUnlessNext(then, next))
    BY <1>2, <1>7, <1>10, <1>11
  <1>17. Plain(Terminator(b, next)) \/ Fits(Terminator(b, next), {E})
    <2>1. Terminator(b, next) =
            IF Targets(b) = << >> THEN (IF next = None THEN << >> ELSE Jump(ReturnLabel))
            ELSE IF ~IsBranch(b) THEN Moves(b, then) \o JumpUnlessNext(then, next)
            ELSE IF \E t \in Elements(Targets(b)) : <<b, t>> \in graph.moves THEN SplitBranch(b, next)
            ELSE PlainBranch(b, next)
      BY DEF Terminator, then
    <2> QED BY <1>10, <1>14, <1>15, <1>16, <2>1
  <1>18. CASE Plain(Terminator(b, next))
    BY <1>18 DEF Plain, Aimed
  <1>19. CASE Fits(Terminator(b, next), {E})
    BY <1>19 DEF Fits, Aimed, E
  <1> QED BY <1>17, <1>18, <1>19

-----------------------------------------------------------------------------
(* Where the code leads.  From a place it goes on to the next item that is  *)
(* neither a label nor a rerun.                                             *)
Passed(x) == x.op \in {"label", "rerun"}
Onto(c, i, j) ==
    /\ i \in Nat /\ j \in DOMAIN c /\ i <= j
    /\ \A k \in i..(j - 1) : k \in DOMAIN c /\ Passed(c[k])

(* The code at i begins block t, without further moves.                     *)
Enters(c, i, t) == \E j : Onto(c, i, j) /\ c[j] \in {RunItem(t), JumpItem(Of(t))}

(* The code at i makes the moves of edge e and begins the edge's target.    *)
Delivers(c, M, i, e) ==
    IF e \in M THEN \E j : Onto(c, i, j) /\ c[j] = MovesItem(e) /\ Enters(c, j + 1, e[2])
    ELSE Enters(c, i, e[2])

(* The same for the code behind a label, behind a place that may jump, and  *)
(* behind a place that may branch on the condition w.                       *)
Lands(c, M, l, e) ==
    \/ l = Of(e[2]) /\ e \notin M
    \/ \E j \in DOMAIN c : c[j] = LabelItem(l) /\ Delivers(c, M, j, e)
Heads(c, M, i, e) ==
    \/ Delivers(c, M, i, e)
    \/ i \in DOMAIN c /\ c[i].op = "jump" /\ Lands(c, M, c[i].to, e)
Routes(c, M, i, e, w) ==
    \/ Heads(c, M, i, e)
    \/ /\ i \in DOMAIN c /\ c[i].op = "branch"
       /\ IF w = c[i].when THEN Lands(c, M, c[i].to, e) ELSE Heads(c, M, i + 1, e)

(* The code at i returns.                                                   *)
Ends(c, i) == \E j : Onto(c, i, j) /\ c[j] \in {RetItem, JumpItem(ReturnLabel)}

Extends(c, d) == \A i \in DOMAIN c : i \in DOMAIN d /\ d[i] = c[i]

LEMMA OntoFacts ==
    ASSUME NEW c, DOMAIN c \subseteq Nat, NEW i
    PROVE  /\ i \in DOMAIN c => Onto(c, i, i)
           /\ \A j : Onto(c, i, j) => /\ i \in DOMAIN c /\ j \in DOMAIN c
                                      /\ ~Passed(c[i]) => j = i
                                      /\ Passed(c[i]) /\ ~Passed(c[j]) => Onto(c, i + 1, j)
           /\ i \in DOMAIN c /\ Passed(c[i]) => \A j : Onto(c, i + 1, j) => Onto(c, i, j)
  <1>1. i \in DOMAIN c => Onto(c, i, i)
    BY DEF Onto
  <1>2. ASSUME NEW j, Onto(c, i, j)
        PROVE  /\ i \in DOMAIN c /\ j \in DOMAIN c
               /\ ~Passed(c[i]) => j = i
               /\ Passed(c[i]) /\ ~Passed(c[j]) => Onto(c, i + 1, j)
    <2>1. i \in Nat /\ j \in Nat /\ j \in DOMAIN c /\ i <= j
          /\ \A k \in i..(j - 1) : k \in DOMAIN c /\ Passed(c[k])
      BY <1>2 DEF Onto
    <2>2. i = j \/ i \in i..(j - 1)
      BY ONLY <2>1
    <2>3. i \in DOMAIN c /\ (~Passed(c[i]) => j = i)
      BY ONLY <2>1, <2>2
    <2>4. ASSUME Passed(c[i]), ~Passed(c[j])
          PROVE  Onto(c, i + 1, j)
      <3>1. i # j
        BY <2>4
      <3>2. i + 1 \in Nat /\ i + 1 <= j /\ \A k \in (i + 1)..(j - 1) : k \in i..(j - 1)
        BY <2>1, <3>1
      <3> QED BY <2>1, <3>2 DEF Onto
    <2> QED BY <2>1, <2>3, <2>4
  <1>3. ASSUME i \in DOMAIN c, Passed(c[i]), NEW j, Onto(c, i + 1, j)
        PROVE  Onto(c, i, j)
    <2>1. i \in Nat /\ j \in Nat /\ j \in DOMAIN c /\ i + 1 <= j
          /\ \A k \in (i + 1)..(j - 1) : k \in DOMAIN c /\ Passed(c[k])
      BY <1>3 DEF Onto
    <2>2. i <= j /\ \A k \in i..(j - 1) : k = i \/ k \in (i + 1)..(j - 1)
      BY <2>1
    <2> QED BY <1>3, <2>1, <2>2 DEF Onto
  <1> QED BY <1>1, <1>2, <1>3

(* What the kinds of items are.                                             *)
LEMMA Kinds ==
    /\ \A l : Passed(LabelItem(l)) /\ LabelItem(l).op = "label" /\ LabelItem(l).to = l
    /\ \A l : ~Passed(JumpItem(l)) /\ JumpItem(l).op = "jump" /\ JumpItem(l).to = l
    /\ \A w, l : /\ ~Passed(BranchItem(w, l)) /\ BranchItem(w, l).op = "branch"
                 /\ BranchItem(w, l).to = l /\ BranchItem(w, l).when = w
    /\ \A b : ~Passed(RunItem(b)) /\ RunItem(b).op = "run" /\ RunItem(b).block = b
    /\ \A b : Passed(RerunItem(b)) /\ RerunItem(b).op = "rerun"
    /\ \A e : ~Passed(MovesItem(e)) /\ MovesItem(e).op = "moves" /\ MovesItem(e).edge = e
    /\ ~Passed(RetItem) /\ RetItem.op = "ret"
  BY DEF Passed, LabelItem, JumpItem, BranchItem, RunItem, RerunItem, MovesItem, RetItem

(* Going back from a place over one item.                                   *)
LEMMA Backwards ==
    ASSUME NEW c, DOMAIN c \subseteq Nat, NEW M, NEW i
    PROVE  /\ \A t : i \in DOMAIN c /\ c[i] \in {RunItem(t), JumpItem(Of(t))} => Enters(c, i, t)
           /\ i \in DOMAIN c /\ c[i] \in {RetItem, JumpItem(ReturnLabel)} => Ends(c, i)
           /\ i \in DOMAIN c /\ Passed(c[i]) =>
                 /\ \A t : Enters(c, i + 1, t) => Enters(c, i, t)
                 /\ \A e : Delivers(c, M, i + 1, e) => Delivers(c, M, i, e)
                 /\ Ends(c, i + 1) => Ends(c, i)
           /\ \A e : e \in M /\ i \in DOMAIN c /\ c[i] = MovesItem(e) /\ Enters(c, i + 1, e[2]) =>
                 Delivers(c, M, i, e)
  <1>1. i \in DOMAIN c => Onto(c, i, i)
    BY OntoFacts
  <1>2. i \in DOMAIN c /\ Passed(c[i]) => \A j : Onto(c, i + 1, j) => Onto(c, i, j)
    BY OntoFacts
  <1>3. \A t : i \in DOMAIN c /\ c[i] \in {RunItem(t), JumpItem(Of(t))} => Enters(c, i, t)
    BY <1>1 DEF Enters
  <1>4. i \in DOMAIN c /\ c[i] \in {RetItem, JumpItem(ReturnLabel)} => Ends(c, i)
    BY <1>1 DEF Ends
  <1>5. ASSUME i \in DOMAIN c, Passed(c[i])
        PROVE  /\ \A t : Enters(c, i + 1, t) => Enters(c, i, t)
               /\ \A e : Delivers(c, M, i + 1, e) => Delivers(c, M, i, e)
               /\ Ends(c, i + 1) => Ends(c, i)
    <2>1. \A t : Enters(c, i + 1, t) => Enters(c, i, t)
      BY <1>2, <1>5 DEF Enters
    <2>2. \A e : Delivers(c, M, i + 1, e) => Delivers(c, M, i, e)
      BY <1>2, <1>5, <2>1 DEF Delivers
    <2>3. Ends(c, i + 1) => Ends(c, i)
      BY <1>2, <1>5 DEF Ends
    <2> QED BY <2>1, <2>2, <2>3
  <1>6. \A e : e \in M /\ i \in DOMAIN c /\ c[i] = MovesItem(e) /\ Enters(c, i + 1, e[2]) =>
           Delivers(c, M, i, e)
    BY <1>1 DEF Delivers
  <1> QED BY <1>3, <1>4, <1>5, <1>6

(* What leads somewhere still does so when code is added behind.            *)
LEMMA Longer ==
    ASSUME NEW c, NEW d, NEW M, Extends(c, d)
    PROVE  /\ \A i, e, w : Routes(c, M, i, e, w) => Routes(d, M, i, e, w)
           /\ \A i, t : Enters(c, i, t) => Enters(d, i, t)
           /\ \A i : Ends(c, i) => Ends(d, i)
  <1>1. ASSUME NEW i, NEW j, Onto(c, i, j)
        PROVE  Onto(d, i, j) /\ j \in DOMAIN c /\ d[j] = c[j]
    BY <1>1 DEF Onto, Extends
  <1>2. ASSUME NEW i, NEW t, Enters(c, i, t)
        PROVE  Enters(d, i, t)
    BY <1>1, <1>2 DEF Enters
  <1>3. ASSUME NEW i, Ends(c, i)
        PROVE  Ends(d, i)
    BY <1>1, <1>3 DEF Ends
  <1>4. ASSUME NEW i, NEW e, Delivers(c, M, i, e)
        PROVE  Delivers(d, M, i, e)
    BY <1>1, <1>2, <1>4 DEF Delivers
  <1>5. ASSUME NEW l, NEW e, Lands(c, M, l, e)
        PROVE  Lands(d, M, l, e)
    BY <1>4, <1>5 DEF Lands, Extends
  <1>6. ASSUME NEW i, NEW e, Heads(c, M, i, e)
        PROVE  Heads(d, M, i, e)
    BY <1>4, <1>5, <1>6 DEF Heads, Extends
  <1>7. ASSUME NEW i, NEW e, NEW w, Routes(c, M, i, e, w)
        PROVE  Routes(d, M, i, e, w)
    BY <1>5, <1>6, <1>7 DEF Routes, Extends
  <1> QED BY <1>2, <1>3, <1>7

(* The edge block b takes under condition w.                                *)
Taken(b, w) == <<b, IF Len(Targets(b)) = 2 /\ ~w THEN Targets(b)[2] ELSE Targets(b)[1]>>

LEMMA MovesLead ==
    ASSUME NEW c, DOMAIN c \subseteq Nat, NEW i, NEW j, NEW b, NEW t,
           Span(c, i, Moves(b, t), j), Enters(c, j, t)
    PROVE  Delivers(c, graph.moves, i, <<b, t>>)
  <1>1. <<b, t>>[2] = t
    OBVIOUS
  <1>2. CASE <<b, t>> \in graph.moves
    <2>1. j = i + 1 /\ i \in DOMAIN c /\ c[i] = MovesItem(<<b, t>>)
      BY <1>2, SpanMoves
    <2> QED BY <1>1, <1>2, <2>1, Backwards
  <1>3. CASE <<b, t>> \notin graph.moves
    <2>1. j = i
      BY <1>3, SpanMoves
    <2> QED BY <1>1, <1>3, <2>1 DEF Delivers
  <1> QED BY <1>2, <1>3

(* A branch over one edge to the label of the other.                        *)
LEMMA SplitLeads ==
    ASSUME NEW c, DOMAIN c \subseteq Nat, NEW i, NEW j, NEW b \in Blocks, NEW u \in Blocks,
           NEW v \in Blocks, NEW w \in BOOLEAN,
           Span(c, i, BranchIf(w, EdgeFrom(b)) \o Moves(b, u) \o Jump(Of(u)) \o Label(EdgeFrom(b))
                        \o Moves(b, v), j),
           Enters(c, j, v)
    PROVE  Routes(c, graph.moves, i, <<b, v>>, w) /\ Routes(c, graph.moves, i, <<b, u>>, ~w)
  <1> DEFINE E == EdgeFrom(b)
             B == BranchIf(w, E)
             U == Moves(b, u)
             J == Jump(Of(u))
             L == Label(E)
             V == Moves(b, v)
             M == graph.moves
  <1>1. /\ B \in Seq(Items) /\ U \in Seq(Items) /\ J \in Seq(Items)
        /\ L \in Seq(Items) /\ V \in Seq(Items)
    <2>1. E \in LabelNames /\ Of(u) \in LabelNames
      BY DEF EdgeFrom, Of, LabelNames
    <2> HIDE DEF E
    <2> QED BY <2>1, PieceFacts DEF Part
  <1>2. Span(c, i, B \o U \o J \o L \o V, j)
    OBVIOUS
  <1> HIDE DEF B, U, J, L, V
  <1> DEFINE BU == B \o U
             BUJ == BU \o J
             BUJL == BUJ \o L
  <1>3. BU \in Seq(Items)
    BY <1>1, Joined
  <1>4. Span(c, i, BUJL \o V, j)
    BY <1>2
  <1> HIDE DEF BU
  <1>5. BUJ \in Seq(Items)
    BY <1>1, <1>3, Joined
  <1> HIDE DEF BUJ
  <1>6. BUJL \in Seq(Items)
    BY <1>1, <1>5, Joined
  <1> HIDE DEF BUJL
  <1> DEFINE p == i + Len(B)
             q == i + Len(BU)
             r == i + Len(BUJ)
             s == i + Len(BUJL)
  <1>7. Span(c, i, BUJL, s) /\ Span(c, s, V, j)
    BY ONLY <1>1, <1>4, <1>6, SpanSplits
  <1>8. Span(c, i, BUJ, r) /\ Span(c, r, L, s)
    BY ONLY <1>1, <1>5, <1>7, SpanSplits DEF BUJL
  <1>9. Span(c, i, BU, q) /\ Span(c, q, J, r)
    BY ONLY <1>1, <1>3, <1>8, SpanSplits DEF BUJ
  <1>10. Span(c, i, B, p) /\ Span(c, p, U, q)
    BY ONLY <1>1, <1>9, SpanSplits DEF BU
  <1> HIDE DEF p, q, r, s
  <1>11. /\ p = i + 1 /\ i \in DOMAIN c /\ c[i] = BranchItem(w, E)
         /\ r = q + 1 /\ q \in DOMAIN c /\ c[q] = JumpItem(Of(u))
         /\ s = r + 1 /\ r \in DOMAIN c /\ c[r] = LabelItem(E)
    <2> HIDE DEF E
    <2> QED BY ONLY <1>8, <1>9, <1>10, SpanBranch, SpanJump, SpanLabel DEF B, J, L
  <1>12. Delivers(c, M, s, <<b, v>>)
    BY <1>7, MovesLead DEF V
  <1>13. Delivers(c, M, r, <<b, v>>)
    BY <1>11, <1>12, Kinds, Backwards
  <1>14. Enters(c, q, u)
    BY <1>11, Backwards
  <1>15. Delivers(c, M, i + 1, <<b, u>>)
    BY <1>10, <1>11, <1>14, MovesLead DEF U
  <1>16. c[i].op = "branch" /\ c[i].when = w /\ c[i].to = E
    BY <1>11, Kinds
  <1>17. Lands(c, M, E, <<b, v>>)
    BY <1>11, <1>13 DEF Lands
  <1>18. Heads(c, M, i + 1, <<b, u>>)
    BY <1>15 DEF Heads
  <1> QED BY <1>11, <1>16, <1>17, <1>18 DEF Routes

(* Without moves a branch may name the target itself.                       *)
LEMMA BranchLeads ==
    ASSUME NEW c, NEW i \in DOMAIN c, NEW M, NEW b, NEW u, NEW v, NEW w \in BOOLEAN,
           c[i] = BranchItem(w, Of(v)), Enters(c, i + 1, u), <<b, u>> \notin M, <<b, v>> \notin M
    PROVE  Routes(c, M, i, <<b, v>>, w) /\ Routes(c, M, i, <<b, u>>, ~w)
  <1>1. c[i].op = "branch" /\ c[i].when = w /\ c[i].to = Of(v)
    BY Kinds
  <1>2. <<b, u>>[2] = u /\ <<b, v>>[2] = v
    OBVIOUS
  <1>3. Lands(c, M, Of(v), <<b, v>>)
    BY <1>2 DEF Lands
  <1>4. Heads(c, M, i + 1, <<b, u>>)
    BY <1>2 DEF Heads, Delivers
  <1> QED BY <1>1, <1>3, <1>4 DEF Routes

(* A terminator takes the edge the condition selects, whatever comes next.  *)
LEMMA TerminatorLeads ==
    ASSUME graph \in Graphs, NEW b \in Blocks, NEW next \in Blocks \cup {None},
           NEW c, DOMAIN c \subseteq Nat, NEW i, NEW j, Span(c, i, Terminator(b, next), j),
           IF next = None THEN Ends(c, j) ELSE Enters(c, j, next)
    PROVE  IF Targets(b) = << >> THEN Ends(c, i)
           ELSE \A w \in BOOLEAN : Routes(c, graph.moves, i, Taken(b, w), w)
  <1> DEFINE then == Targets(b)[1]
             else == Targets(b)[2]
             M == graph.moves
             T == Terminator(b, next)
  <1>1. /\ Targets(b) \in Seq(Nat) /\ Len(Targets(b)) \in {0, 1, 2}
        /\ Elements(Targets(b)) \subseteq Blocks
    <2>1. Targets(b) \in Seq(Nat) /\ Len(Targets(b)) <= 2 /\ Elements(Targets(b)) \subseteq Blocks
      BY GraphAssumption, GraphFacts DEF WellFormed, Blocks, Targets
    <2>2. Len(Targets(b)) \in Nat
      BY <2>1
    <2>3. Len(Targets(b)) \in {0, 1, 2}
      <3> DEFINE n == Len(Targets(b))
      <3>1. n \in Nat /\ n <= 2
        BY <2>1, <2>2
      <3> HIDE DEF n
      <3>2. n = 0 \/ n = 1 \/ n = 2
        BY <3>1
      <3> QED BY <3>2 DEF n
    <2> QED BY <2>1, <2>3
  <1>2. Targets(b) # << >> => then \in Elements(Targets(b)) /\ then \in Blocks
    BY <1>1 DEF Elements
  <1>3. IsBranch(b) => else \in Elements(Targets(b)) /\ else \in Blocks
    BY <1>1 DEF Elements, IsBranch
  <1>4. None \notin Blocks /\ \A t \in Blocks : Of(t) \in LabelNames
    BY GraphFacts DEF Of, LabelNames, None
  <1>5. T = IF Targets(b) = << >> THEN (IF next = None THEN << >> ELSE Jump(ReturnLabel))
            ELSE IF ~IsBranch(b) THEN Moves(b, then) \o JumpUnlessNext(then, next)
            ELSE IF \E t \in Elements(Targets(b)) : <<b, t>> \in M THEN SplitBranch(b, next)
            ELSE PlainBranch(b, next)
    BY DEF Terminator
  <1>6. Span(c, i, T, j)
    OBVIOUS
  <1> HIDE DEF T
  <1>7. \A t \in Blocks : \A k : Span(c, k, JumpUnlessNext(t, next), j) => Enters(c, k, t)
    <2> SUFFICES ASSUME NEW t \in Blocks, NEW k, Span(c, k, JumpUnlessNext(t, next), j)
                 PROVE  Enters(c, k, t)
      OBVIOUS
    <2>1. CASE next = t
      <3>1. Span(c, k, << >>, j)
        BY <2>1 DEF JumpUnlessNext
      <3>2. k = j
        BY <3>1, SpanNone
      <3> QED BY <1>4, <2>1, <3>2
    <2>2. CASE next # t
      <3>1. Span(c, k, Jump(Of(t)), j)
        BY <2>2 DEF JumpUnlessNext
      <3>2. k \in DOMAIN c /\ c[k] = JumpItem(Of(t))
        BY <3>1, SpanJump
      <3> QED BY <3>2, Backwards
    <2> QED BY <2>1, <2>2
  <1>8. \A t \in Blocks : JumpUnlessNext(t, next) \in Seq(Items)
    BY <1>4, PieceFacts DEF JumpUnlessNext, Part
  <1>9. \A t : Moves(b, t) \in Seq(Items)
    BY PieceFacts DEF Part
  <1>10. CASE Targets(b) = << >>
    <2>1. CASE next = None
      <3>1. Span(c, i, << >>, j)
        BY <1>5, <1>6, <1>10, <2>1
      <3>2. j = i
        BY <3>1, SpanNone
      <3> QED BY <1>10, <2>1, <3>2
    <2>2. CASE next # None
      <3>1. Span(c, i, Jump(ReturnLabel), j)
        BY <1>5, <1>6, <1>10, <2>2
      <3>2. i \in DOMAIN c /\ c[i] = JumpItem(ReturnLabel)
        BY <3>1, SpanJump
      <3> QED BY <1>10, <3>2, Backwards
    <2> QED BY <2>1, <2>2
  <1>11. CASE Targets(b) # << >> /\ ~IsBranch(b)
    <2>1. \A w \in BOOLEAN : Taken(b, w) = <<b, then>>
      BY <1>1, <1>11 DEF Taken, IsBranch
    <2>2. Span(c, i, Moves(b, then) \o JumpUnlessNext(then, next), j)
      BY <1>5, <1>6, <1>11
    <2> DEFINE k == i + Len(Moves(b, then))
    <2>3. Span(c, i, Moves(b, then), k) /\ Span(c, k, JumpUnlessNext(then, next), j)
      <3>1. Moves(b, then) \in Seq(Items) /\ JumpUnlessNext(then, next) \in Seq(Items)
        BY <1>2, <1>8, <1>9, <1>11
      <3> QED BY ONLY <2>2, <3>1, SpanSplits
    <2> HIDE DEF k
    <2>4. Delivers(c, M, i, <<b, then>>)
      BY <1>2, <1>7, <1>11, <2>3, MovesLead
    <2> QED BY <1>11, <2>1, <2>4 DEF Routes, Heads
  <1>12. CASE IsBranch(b)
    <2>0. Len(Targets(b)) = 2
      BY <1>12 DEF IsBranch
    <2>1. Taken(b, TRUE) = <<b, then>> /\ Taken(b, FALSE) = <<b, else>> /\ Targets(b) # << >>
      <3>1. Targets(b) # << >>
        BY <2>0
      <3> QED BY <2>0, <3>1 DEF Taken
    <2>2. then \in Blocks /\ else \in Blocks
          /\ then \in Elements(Targets(b)) /\ else \in Elements(Targets(b))
      BY <1>2, <1>3, <1>12, <2>1
    <2> SUFFICES Routes(c, M, i, <<b, then>>, TRUE) /\ Routes(c, M, i, <<b, else>>, FALSE)
      BY <2>1
    <2>3. CASE \E t \in Elements(Targets(b)) : <<b, t>> \in M
      <3> DEFINE E == EdgeFrom(b)
                 one == BranchIf(TRUE, E) \o Moves(b, else) \o Jump(Of(else)) \o Label(E) \o Moves(b, then)
                 two == BranchIf(FALSE, E) \o Moves(b, then) \o Jump(Of(then)) \o Label(E) \o Moves(b, else)
      <3>1. T = IF next = then THEN one ELSE two \o JumpUnlessNext(else, next)
        BY <1>5, <1>12, <2>1, <2>3 DEF SplitBranch
      <3>2. CASE next = then
        <4>1. Span(c, i, one, j) /\ Enters(c, j, then)
          BY <1>4, <1>6, <2>2, <3>1, <3>2
        <4> QED BY <2>2, <4>1, SplitLeads
      <3>3. CASE next # then
        <4>1. Span(c, i, two \o JumpUnlessNext(else, next), j)
          BY <1>6, <3>1, <3>3
        <4>2. two \in Seq(Items)
          <5>1. /\ BranchIf(FALSE, E) \in Seq(Items) /\ Moves(b, then) \in Seq(Items)
                /\ Jump(Of(then)) \in Seq(Items) /\ Label(E) \in Seq(Items) /\ Moves(b, else) \in Seq(Items)
            <6>1. E \in LabelNames /\ Of(then) \in LabelNames
              BY <2>2 DEF EdgeFrom, Of, LabelNames
            <6> HIDE DEF E, then, else
            <6> QED BY <6>1, PieceFacts DEF Part
          <5> DEFINE x1 == BranchIf(FALSE, E) \o Moves(b, then)
                     x2 == x1 \o Jump(Of(then))
                     x3 == x2 \o Label(E)
          <5>2. x1 \in Seq(Items)
            BY ONLY <5>1, Joined
          <5> HIDE DEF x1
          <5>3. x2 \in Seq(Items)
            BY ONLY <5>1, <5>2, Joined
          <5> HIDE DEF x2
          <5>4. x3 \in Seq(Items)
            BY ONLY <5>1, <5>3, Joined
          <5> HIDE DEF x3
          <5>5. x3 \o Moves(b, else) \in Seq(Items)
            BY ONLY <5>1, <5>4, Joined
          <5> QED BY <5>5 DEF x1, x2, x3
        <4> DEFINE k == i + Len(two)
        <4>3. Span(c, i, two, k) /\ Span(c, k, JumpUnlessNext(else, next), j)
          <5>1. JumpUnlessNext(else, next) \in Seq(Items)
            BY <1>8, <2>2
          <5> HIDE DEF two
          <5> QED BY ONLY <4>1, <4>2, <5>1, SpanSplits
        <4> HIDE DEF k
        <4>4. Enters(c, k, else)
          BY <1>7, <2>2, <4>3
        <4> QED BY <2>2, <4>3, <4>4, SplitLeads
      <3> QED BY <3>2, <3>3
    <2>4. CASE ~ \E t \in Elements(Targets(b)) : <<b, t>> \in M
      <3>1. <<b, then>> \notin M /\ <<b, else>> \notin M
        BY <2>2, <2>4
      <3>2. T = IF next = then THEN BranchIf(FALSE, Of(else))
                ELSE IF next = else THEN BranchIf(TRUE, Of(then))
                ELSE BranchIf(FALSE, Of(else)) \o Jump(Of(then))
        BY <1>5, <1>12, <2>1, <2>4 DEF PlainBranch
      <3>3. ~TRUE = FALSE /\ ~FALSE = TRUE
        OBVIOUS
      <3>4. CASE next = then
        <4>1. Span(c, i, BranchIf(FALSE, Of(else)), j) /\ Enters(c, j, then)
          BY <1>4, <1>6, <2>2, <3>2, <3>4
        <4>2. j = i + 1 /\ i \in DOMAIN c /\ c[i] = BranchItem(FALSE, Of(else))
          <5>1. \A v : Span(c, i, BranchIf(v, Of(else)), j) =>
                   j = i + 1 /\ i \in DOMAIN c /\ c[i] = BranchItem(v, Of(else))
            BY SpanBranch
          <5> QED BY <4>1, <5>1
        <4> QED BY <3>1, <3>3, <4>1, <4>2, BranchLeads
      <3>5. CASE next # then /\ next = else
        <4>1. Span(c, i, BranchIf(TRUE, Of(then)), j) /\ Enters(c, j, else)
          BY <1>4, <1>6, <2>2, <3>2, <3>5
        <4>2. j = i + 1 /\ i \in DOMAIN c /\ c[i] = BranchItem(TRUE, Of(then))
          <5>1. \A v : Span(c, i, BranchIf(v, Of(then)), j) =>
                   j = i + 1 /\ i \in DOMAIN c /\ c[i] = BranchItem(v, Of(then))
            BY SpanBranch
          <5> QED BY <4>1, <5>1
        <4> QED BY <3>1, <3>3, <4>1, <4>2, BranchLeads
      <3>6. CASE next # then /\ next # else
        <4> DEFINE B == BranchIf(FALSE, Of(else))
                   J == Jump(Of(then))
        <4>1. Span(c, i, B \o J, j)
          BY <1>6, <3>2, <3>6
        <4>2. B \in Seq(Items) /\ J \in Seq(Items)
          BY <1>4, <2>2, PieceFacts DEF Part
        <4> HIDE DEF B, J
        <4>3. Span(c, i, B, i + Len(B)) /\ Span(c, i + Len(B), J, j)
          BY ONLY <4>1, <4>2, SpanSplits
        <4>4. i + Len(B) = i + 1 /\ i \in DOMAIN c /\ c[i] = BranchItem(FALSE, Of(else))
          BY <4>3, SpanBranch DEF B
        <4>5. i + 1 \in DOMAIN c /\ c[i + 1] = JumpItem(Of(then))
          BY <4>3, <4>4, SpanJump DEF J
        <4>6. Enters(c, i + 1, then)
          BY <4>5, Backwards
        <4> QED BY <3>1, <3>3, <4>4, <4>6, BranchLeads
      <3> QED BY <3>4, <3>5, <3>6
    <2> QED BY <2>3, <2>4
  <1> QED BY <1>10, <1>11, <1>12 DEF IsBranch

(* The block of a run item is followed by code that leads on from it.       *)
Routed(c, k) ==
    /\ c[k].block \in Blocks
    /\ IF Targets(c[k].block) = << >> THEN Ends(c, k + 1)
       ELSE \A w \in BOOLEAN :
               Routes(c, graph.moves, k + 1, Taken(c[k].block, w), w)

-----------------------------------------------------------------------------
(* What runs before the prologue.                                           *)

(* A branch has two different targets; the guard's condition tells which.   *)
LEMMA BranchTargets ==
    ASSUME graph \in Graphs, NEW b \in Blocks, IsBranch(b), NEW f \in Elements(Targets(b))
    PROVE  /\ OtherThan(b, f) \in Elements(Targets(b)) /\ OtherThan(b, f) # f
           /\ Elements(Targets(b)) = {f, OtherThan(b, f)} /\ Targets(b) # << >>
           /\ Taken(b, Targets(b)[1] = f) = <<b, f>>
           /\ Taken(b, Targets(b)[1] # f) = <<b, OtherThan(b, f)>>
  <1>1. Targets(b) \in Seq(Nat)
    BY GraphAssumption DEF WellFormed, Blocks, Targets
  <1>2. Len(Targets(b)) = 2 /\ Targets(b)[1] # Targets(b)[2]
    BY DEF IsBranch
  <1>3. DOMAIN Targets(b) = {1, 2} /\ Targets(b) # << >>
    <2>1. DOMAIN Targets(b) = {1, 2}
      BY <1>1, <1>2
    <2>2. Targets(b) # << >>
      BY <1>2
    <2> QED BY <2>1, <2>2
  <1>4. Elements(Targets(b)) = {Targets(b)[1], Targets(b)[2]}
    BY <1>3 DEF Elements
  <1>5. CASE Targets(b)[1] = f
    BY <1>2, <1>3, <1>4, <1>5 DEF Taken, OtherThan
  <1>6. CASE Targets(b)[1] # f
    BY <1>2, <1>3, <1>4, <1>6 DEF Taken, OtherThan
  <1> QED BY <1>5, <1>6

LEMMA GuardFacts ==
    ASSUME graph \in Graphs, ReturnsEarly
    PROVE  /\ Fast \in graph.direct /\ Fast \in Blocks \ {Entry}
           /\ Second \in Blocks \ {Entry} /\ Slow \in Blocks \ {Entry}
           /\ Guards \subseteq Blocks /\ LastGuard \in Guards
           /\ \A b \in Guards : IsBranch(b) /\ b \in graph.guards /\ Fast \in Elements(Targets(b))
           /\ Second = OtherThan(Entry, Fast) /\ Slow = OtherThan(LastGuard, Fast)
           /\ Slow \notin Skipped
           /\ \A b \in Blocks : \A t \in Elements(Targets(b)) : t \in Skipped => b \in Skipped
  <1>1. /\ Entry \in Blocks
        /\ \A b \in Blocks : Elements(Targets(b)) \subseteq Blocks \ {Entry}
    BY GraphFacts
  <1>2. IsBranch(Entry) /\ Entry \in graph.guards /\ Elements(Targets(Entry)) \cap graph.direct # {}
    BY DEF ReturnsEarly
  <1>3. Fast \in Elements(Targets(Entry)) /\ Fast \in graph.direct
    <2>1. Targets(Entry) \in Seq(Nat) /\ Len(Targets(Entry)) = 2
      BY <1>1, <1>2, GraphAssumption DEF WellFormed, Blocks, Targets, IsBranch
    <2>2. DOMAIN Targets(Entry) = {1, 2}
      BY <2>1
    <2>3. Elements(Targets(Entry)) = {Targets(Entry)[1], Targets(Entry)[2]}
      BY <2>2 DEF Elements
    <2> QED BY <1>2, <2>3 DEF Fast
  <1>4. Second \in Elements(Targets(Entry)) /\ Second # Fast /\ Elements(Targets(Entry)) = {Fast, Second}
    BY <1>1, <1>2, <1>3, BranchTargets DEF Second
  <1>5. Fast \in Blocks \ {Entry} /\ Second \in Blocks \ {Entry}
    BY <1>1, <1>3, <1>4
  <1>6. Chained => /\ Preds(Second) = {Entry} /\ IsBranch(Second) /\ Second \in graph.guards
                   /\ Fast \in Elements(Targets(Second))
    BY DEF Chained
  <1>7. /\ Guards \subseteq Blocks /\ LastGuard \in Guards
        /\ \A b \in Guards : IsBranch(b) /\ b \in graph.guards /\ Fast \in Elements(Targets(b))
    BY <1>1, <1>2, <1>3, <1>5, <1>6 DEF Guards, LastGuard
  <1>8. Slow \in Elements(Targets(LastGuard)) /\ Slow # Fast
    BY <1>7, BranchTargets DEF Slow
  <1>9. Slow \in Blocks \ {Entry}
    BY <1>1, <1>7, <1>8
  <1>10. \A b \in Blocks : \A t \in Elements(Targets(b)) : b \in Preds(t)
    BY DEF Preds
  <1>11. Slow \notin Guards
    <2>1. Slow # Entry
      BY <1>9
    <2>2. ASSUME Chained
          PROVE  Slow # Second
      <3>1. LastGuard = Second
        BY <2>2 DEF LastGuard
      <3>2. LastGuard \in Preds(Slow)
        BY <1>7, <1>8, <1>10
      <3> QED BY <1>5, <1>6, <2>2, <3>1, <3>2
    <2> QED BY <2>1, <2>2 DEF Guards
  <1>12. Slow \notin Skipped
    BY <1>8, <1>11 DEF Skipped
  <1>13. ASSUME NEW b \in Blocks, NEW t \in Elements(Targets(b)), t \in Skipped
         PROVE  b \in Skipped
    <2>1. t # Entry /\ b \in Preds(t)
      BY <1>1, <1>10, <1>13
    <2>2. Guards \subseteq Skipped
      BY DEF Skipped
    <2>3. CASE t \in Guards
      <3>1. Chained /\ t = Second
        BY <2>1, <2>3 DEF Guards
      <3> QED BY <1>6, <2>1, <2>2, <3>1 DEF Guards
    <2>4. CASE t \notin Guards
      <3>1. t = Fast /\ Preds(Fast) = Guards
        BY <1>13, <2>4 DEF Skipped
      <3> QED BY <2>1, <2>2, <3>1
    <2> QED BY <2>3, <2>4
  <1> QED BY <1>3, <1>5, <1>7, <1>9, <1>12, <1>13 DEF Second, Slow

(* A guard and a fast block have no phis.                                   *)
LEMMA NoMovesThere ==
    ASSUME graph \in Graphs, NEW p, NEW t \in graph.guards \cup graph.direct
    PROVE  <<p, t>> \notin graph.moves
  <1>1. \A e \in graph.moves : e[2] \notin graph.guards \cup graph.direct
    BY GraphAssumption DEF WellFormed
  <1>2. <<p, t>>[2] = t
    OBVIOUS
  <1> QED BY <1>1, <1>2

LEMMA FastResultParts ==
    ASSUME graph \in Graphs, ReturnsEarly
    PROVE  Part(FastResult, {}, {})
  <1> DEFINE t == Targets(Fast)[1]
             rest == IF Targets(Fast) = << >> THEN << >> ELSE Moves(Fast, t) \o Run(t)
  <1>1. Fast \in Blocks
    BY GuardFacts
  <1>2. {} \cap {} = {} /\ {} \cup {} = {}
    OBVIOUS
  <1>3. Part(Run(Fast), {}, {}) /\ Part(Ret, {}, {})
    BY <1>1, PieceFacts
  <1>4. Part(rest, {}, {})
    <2>1. CASE Targets(Fast) = << >>
      BY <2>1, PieceFacts
    <2>2. CASE Targets(Fast) # << >>
      <3>1. t \in Blocks
        <4>1. Targets(Fast) \in Seq(Nat) /\ Elements(Targets(Fast)) \subseteq Blocks
          BY <1>1, GraphAssumption, GraphFacts DEF WellFormed, Blocks, Targets
        <4> QED BY <2>2, <4>1 DEF Elements
      <3> HIDE DEF t
      <3>2. Part(Moves(Fast, t), {}, {}) /\ Part(Run(t), {}, {})
        BY <3>1, PieceFacts
      <3>3. Part(Moves(Fast, t) \o Run(t), {} \cup {}, {} \cup {})
        BY ONLY <1>2, <3>2, PartsJoin
      <3> QED BY <1>2, <2>2, <3>3
    <2> QED BY <2>1, <2>2
  <1> HIDE DEF rest
  <1>5. Part(Run(Fast) \o rest, {} \cup {}, {} \cup {})
    BY ONLY <1>2, <1>3, <1>4, PartsJoin
  <1>6. Part(Run(Fast) \o rest \o Ret, {} \cup {} \cup {}, {} \cup {} \cup {})
    BY ONLY <1>2, <1>3, <1>5, PartsJoin
  <1> QED BY <1>2, <1>6 DEF FastResult, rest

(* The fast result runs its blocks and returns.                             *)
LEMMA FastResultLeads ==
    ASSUME graph \in Graphs, ReturnsEarly, NEW c, DOMAIN c \subseteq Nat, NEW i, NEW j,
           Span(c, i, FastResult, j)
    PROVE  /\ i \in DOMAIN c /\ c[i] = RunItem(Fast)
           /\ \A k \in i..(j - 1) : c[k].op = "run" => Routed(c, k)
  <1> DEFINE t == Targets(Fast)[1]
             rest == IF Targets(Fast) = << >> THEN << >> ELSE Moves(Fast, t) \o Run(t)
             M == graph.moves
  <1>1. Fast \in Blocks /\ Fast \in graph.direct
    BY GuardFacts
  <1>2. Targets(Fast) \in Seq(Nat) /\ Elements(Targets(Fast)) \subseteq Blocks
    BY <1>1, GraphAssumption, GraphFacts DEF WellFormed, Blocks, Targets
  <1>3. Targets(Fast) = << >> \/ (Len(Targets(Fast)) = 1 /\ Targets(t) = << >>)
    BY <1>1, GraphAssumption DEF WellFormed, Targets
  <1>4. Targets(Fast) # << >> => t \in Blocks
    BY <1>2 DEF Elements
  <1>5. Run(Fast) \in Seq(Items) /\ Ret \in Seq(Items)
    BY <1>1, PieceFacts DEF Part
  <1>6. Targets(Fast) # << >> => Moves(Fast, t) \in Seq(Items) /\ Run(t) \in Seq(Items)
    <2> HIDE DEF t
    <2> QED BY <1>4, PieceFacts DEF Part
  <1>7. rest \in Seq(Items)
    <2>1. << >> \in Seq(Items)
      OBVIOUS
    <2>2. Targets(Fast) # << >> => Moves(Fast, t) \o Run(t) \in Seq(Items)
      BY ONLY <1>6, Joined
    <2> QED BY <2>1, <2>2
  <1>8. Span(c, i, Run(Fast) \o rest \o Ret, j)
    BY DEF FastResult
  <1> HIDE DEF rest, t
  <1> DEFINE q == i + Len(Run(Fast))
             front == Run(Fast) \o rest
             r == i + Len(front)
  <1>9. front \in Seq(Items)
    BY <1>5, <1>7, Joined
  <1> HIDE DEF front
  <1>10. Span(c, i, front, r) /\ Span(c, r, Ret, j)
    BY ONLY <1>5, <1>8, <1>9, SpanSplits DEF front
  <1>11. Span(c, i, Run(Fast), q) /\ Span(c, q, rest, r)
    BY ONLY <1>5, <1>7, <1>10, SpanSplits DEF front
  <1> HIDE DEF q, r
  <1>12. q = i + 1 /\ i \in DOMAIN c /\ c[i] = RunItem(Fast)
    BY <1>11, SpanRun
  <1>13. j = r + 1 /\ r \in DOMAIN c /\ c[r] = RetItem
    BY <1>10, SpanRet
  <1>14. c[i].block = Fast /\ c[r].op = "ret" /\ Ends(c, r)
    BY <1>12, <1>13, Kinds, Backwards
  <1>15. CASE Targets(Fast) = << >>
    <2>1. r = q
      <3>1. Span(c, q, << >>, r)
        BY <1>11, <1>15 DEF rest
      <3> QED BY <3>1, SpanNone
    <2>2. Routed(c, i)
      BY <1>1, <1>12, <1>14, <1>15, <2>1 DEF Routed
    <2>3. \A k \in i..(j - 1) : k = i \/ k = r
      BY <1>12, <1>13, <2>1
    <2> QED BY <1>12, <1>14, <2>2, <2>3
  <1>16. CASE Targets(Fast) # << >>
    <2> DEFINE m == q + Len(Moves(Fast, t))
    <2>1. Span(c, q, Moves(Fast, t), m) /\ Span(c, m, Run(t), r)
      <3>1. Span(c, q, Moves(Fast, t) \o Run(t), r)
        BY <1>11, <1>16 DEF rest, t
      <3>2. Moves(Fast, t) \in Seq(Items) /\ Run(t) \in Seq(Items)
        BY <1>6, <1>16
      <3> QED BY ONLY <3>1, <3>2, SpanSplits
    <2> HIDE DEF m
    <2>2. r = m + 1 /\ m \in DOMAIN c /\ c[m] = RunItem(t)
      BY <2>1, SpanRun
    <2>3. Enters(c, m, t)
      BY <2>2, Backwards
    <2>4. Delivers(c, M, q, <<Fast, t>>)
      BY <2>1, <2>3, MovesLead
    <2>5. \A w \in BOOLEAN : Taken(Fast, w) = <<Fast, t>>
      BY <1>3, <1>16 DEF Taken, t
    <2>6. Routed(c, i)
      BY <1>1, <1>12, <1>14, <1>16, <2>4, <2>5 DEF Routed, Routes, Heads
    <2>7. Routed(c, m)
      <3>1. c[m].block = t /\ t \in Blocks /\ Targets(t) = << >>
        BY <1>3, <1>4, <1>16, <2>2, Kinds
      <3> QED BY <1>14, <2>2, <3>1 DEF Routed
    <2>8. m = q \/ (m = q + 1 /\ c[q].op = "moves")
      <3>1. CASE <<Fast, t>> \in M
        <4>1. m = q + 1 /\ c[q] = MovesItem(<<Fast, t>>)
          BY <2>1, <3>1, SpanMoves
        <4> QED BY <4>1, Kinds
      <3>2. CASE <<Fast, t>> \notin M
        BY <2>1, <3>2, SpanMoves
      <3> QED BY <3>1, <3>2
    <2>9. \A k \in i..(j - 1) : k = i \/ k = q \/ k = m \/ k = r
      BY <1>12, <1>13, <2>2, <2>8
    <2> QED BY <1>12, <1>14, <2>6, <2>7, <2>8, <2>9
  <1> QED BY <1>15, <1>16

LEMMA EarlyParts ==
    ASSUME graph \in Graphs, ReturnsEarly
    PROVE  \E n \in SUBSET {FrameLabel, FastLabel} : \E a :
              Part(EarlySetup, n, a) /\ a \subseteq n \cup {Of(Slow)}
  <1> DEFINE F == FrameLabel
             Q == FastLabel
             N == {FrameLabel, FastLabel}
             again == IF Chained THEN Rerun(Second) ELSE << >>
             X == FastResult
  <1>1. /\ F \in LabelNames /\ Q \in LabelNames /\ Of(Slow) \in LabelNames /\ F # Q
        /\ Entry \in Blocks /\ Second \in Blocks
    BY GraphFacts, GuardFacts DEF FrameLabel, FastLabel, Of, LabelNames
  <1>2. \A S : S \cup {} = S /\ {} \cup S = S /\ S \cap {} = {} /\ {} \cap S = {}
    OBVIOUS
  <1>3. Part(X, {}, {})
    BY FastResultParts
  <1>4. /\ \A g \in BOOLEAN : Part(BranchIf(g, F), {}, {F}) /\ Part(BranchIf(g, Q), {}, {Q})
        /\ Part(Jump(F), {}, {F}) /\ Part(Label(F), {F}, {}) /\ Part(Label(Q), {Q}, {})
        /\ Part(Jump(Of(Slow)), {}, {Of(Slow)})
    BY ONLY <1>1, PieceFacts
  <1>5. /\ Part(Run(Entry), {}, {}) /\ Part(Rerun(Entry), {}, {})
        /\ Part(Run(Second), {}, {}) /\ Part(Rerun(Second), {}, {})
        /\ Part(Moves(LastGuard, Slow), {}, {}) /\ Part(<< >>, {}, {})
    BY ONLY <1>1, PieceFacts
  <1>6. Part(again, {}, {})
    BY <1>5
  <1> HIDE DEF F, Q, X, again
  <1>7. \E n \in SUBSET {F, Q} : \E a : Part(Prelude, n, a) /\ a \subseteq n
    <2>1. CASE Chained
      <3> DEFINE g == GoesFastWhen(Entry)
                 h == GoesFastWhen(Second)
      <3>1. g \in BOOLEAN /\ h \in BOOLEAN
        BY DEF GoesFastWhen
      <3>2. Prelude = Run(Entry) \o BranchIf(g, Q) \o Run(Second) \o BranchIf(h, Q) \o Jump(F) \o Label(Q)
                        \o X \o Label(F)
        BY <2>1 DEF Prelude, F, Q, X
      <3> HIDE DEF g, h
      <3> DEFINE x1 == Run(Entry) \o BranchIf(g, Q)
                 x2 == x1 \o Run(Second)
                 x3 == x2 \o BranchIf(h, Q)
                 x4 == x3 \o Jump(F)
                 x5 == x4 \o Label(Q)
                 x6 == x5 \o X
      <3>3. Part(x1, {} \cup {}, {} \cup {Q})
        BY ONLY <1>2, <1>4, <1>5, <3>1, PartsJoin
      <3> HIDE DEF x1
      <3>4. Part(x2, {}, {Q})
        <4>1. Part(x2, {} \cup {}, {} \cup {Q} \cup {})
          BY ONLY <1>2, <1>5, <3>3, PartsJoin
        <4> QED BY ONLY <1>2, <4>1
      <3> HIDE DEF x2
      <3>5. Part(x3, {}, {Q})
        <4>1. Part(x3, {} \cup {}, {Q} \cup {Q})
          BY ONLY <1>2, <1>4, <3>1, <3>4, PartsJoin
        <4>2. {Q} \cup {Q} = {Q}
          OBVIOUS
        <4> QED BY ONLY <1>2, <4>1, <4>2
      <3> HIDE DEF x3
      <3>6. Part(x4, {}, {Q} \cup {F})
        <4>1. Part(x4, {} \cup {}, {Q} \cup {F})
          BY ONLY <1>2, <1>4, <3>5, PartsJoin
        <4> QED BY ONLY <1>2, <4>1
      <3> HIDE DEF x4
      <3>7. Part(x5, {Q}, {Q} \cup {F})
        <4>1. Part(x5, {} \cup {Q}, {Q} \cup {F} \cup {})
          BY ONLY <1>2, <1>4, <3>6, PartsJoin
        <4> QED BY ONLY <1>2, <4>1
      <3> HIDE DEF x5
      <3>8. Part(x6, {Q}, {Q} \cup {F})
        <4>1. Part(x6, {Q} \cup {}, {Q} \cup {F} \cup {})
          BY ONLY <1>2, <1>3, <3>7, PartsJoin
        <4> QED BY ONLY <1>2, <4>1
      <3> HIDE DEF x6
      <3>9. Part(x6 \o Label(F), {Q} \cup {F}, {Q} \cup {F} \cup {})
        <4>1. {Q} \cap {F} = {}
          BY <1>1 DEF F, Q
        <4> QED BY ONLY <1>4, <3>8, <4>1, PartsJoin
      <3>10. Prelude = x6 \o Label(F)
        BY <3>2 DEF x1, x2, x3, x4, x5, x6
      <3>11. {Q} \cup {F} \cup {} \subseteq {Q} \cup {F} /\ {Q} \cup {F} \in SUBSET {F, Q}
        OBVIOUS
      <3> QED BY <3>9, <3>10, <3>11
    <2>2. CASE ~Chained
      <3> DEFINE g == ~GoesFastWhen(Entry)
      <3>1. g \in BOOLEAN
        BY DEF GoesFastWhen
      <3>2. Prelude = Run(Entry) \o BranchIf(g, F) \o X \o Label(F)
        BY <2>2 DEF Prelude, F, X
      <3> HIDE DEF g
      <3> DEFINE x1 == Run(Entry) \o BranchIf(g, F)
                 x2 == x1 \o X
      <3>3. Part(x1, {} \cup {}, {} \cup {F})
        BY ONLY <1>2, <1>4, <1>5, <3>1, PartsJoin
      <3> HIDE DEF x1
      <3>4. Part(x2, {}, {F})
        <4>1. Part(x2, {} \cup {}, {} \cup {F} \cup {})
          BY ONLY <1>2, <1>3, <3>3, PartsJoin
        <4> QED BY ONLY <1>2, <4>1
      <3> HIDE DEF x2
      <3>5. Part(x2 \o Label(F), {} \cup {F}, {F} \cup {})
        BY ONLY <1>2, <1>4, <3>4, PartsJoin
      <3>6. Prelude = x2 \o Label(F)
        BY <3>2 DEF x1, x2
      <3>7. {F} \cup {} \subseteq {} \cup {F} /\ {} \cup {F} \in SUBSET {F, Q}
        OBVIOUS
      <3> QED BY <3>5, <3>6, <3>7
    <2> QED BY <2>1, <2>2
  <1>8. PICK n \in SUBSET {F, Q} : \E a : Part(Prelude, n, a) /\ a \subseteq n
    BY <1>7
  <1>9. PICK a : Part(Prelude, n, a) /\ a \subseteq n
    BY <1>8
  <1> DEFINE y1 == Prelude \o Rerun(Entry)
             y2 == y1 \o again
             y3 == y2 \o Moves(LastGuard, Slow)
  <1>10. Part(y1, n, a)
    <2>1. Part(y1, n \cup {}, a \cup {})
      BY ONLY <1>2, <1>5, <1>9, PartsJoin
    <2> QED BY ONLY <1>2, <2>1
  <1> HIDE DEF y1
  <1>11. Part(y2, n, a)
    <2>1. Part(y2, n \cup {}, a \cup {})
      BY ONLY <1>2, <1>6, <1>10, PartsJoin
    <2> QED BY ONLY <1>2, <2>1
  <1> HIDE DEF y2
  <1>12. Part(y3, n, a)
    <2>1. Part(y3, n \cup {}, a \cup {})
      BY ONLY <1>2, <1>5, <1>11, PartsJoin
    <2> QED BY ONLY <1>2, <2>1
  <1> HIDE DEF y3
  <1>13. Part(y3 \o Jump(Of(Slow)), n \cup {}, a \cup {Of(Slow)})
    BY ONLY <1>2, <1>4, <1>12, PartsJoin
  <1>14. EarlySetup = y3 \o Jump(Of(Slow))
    BY DEF EarlySetup, y1, y2, y3, again
  <1>15. Part(EarlySetup, n, a \cup {Of(Slow)}) /\ a \cup {Of(Slow)} \subseteq n \cup {Of(Slow)}
    BY <1>2, <1>9, <1>13, <1>14
  <1>16. n \in SUBSET {FrameLabel, FastLabel}
    BY <1>8 DEF F, Q
  <1> QED BY <1>15, <1>16

LEMMA PreludeTyped ==
    ASSUME graph \in Graphs, ReturnsEarly
    PROVE  /\ Prelude \in Seq(Items) /\ FastResult \in Seq(Items)
           /\ \A l \in {FrameLabel, FastLabel, Of(Slow)} :
                 /\ Label(l) \in Seq(Items) /\ Jump(l) \in Seq(Items)
                 /\ \A g \in BOOLEAN : BranchIf(g, l) \in Seq(Items)
           /\ \A b \in {Entry, Second} : Run(b) \in Seq(Items) /\ Rerun(b) \in Seq(Items)
           /\ Moves(LastGuard, Slow) \in Seq(Items) /\ << >> \in Seq(Items)
  <1>1. /\ FrameLabel \in LabelNames /\ FastLabel \in LabelNames /\ Of(Slow) \in LabelNames
        /\ Entry \in Blocks /\ Second \in Blocks
    BY GraphFacts, GuardFacts DEF FrameLabel, FastLabel, Of, LabelNames
  <1>2. FastResult \in Seq(Items)
    BY FastResultParts DEF Part
  <1>3. \A l \in {FrameLabel, FastLabel, Of(Slow)} :
           /\ Label(l) \in Seq(Items) /\ Jump(l) \in Seq(Items)
           /\ \A g \in BOOLEAN : BranchIf(g, l) \in Seq(Items)
    BY <1>1, PieceFacts DEF Part
  <1>4. \A b \in {Entry, Second} : Run(b) \in Seq(Items) /\ Rerun(b) \in Seq(Items)
    BY <1>1, PieceFacts DEF Part
  <1>5. Moves(LastGuard, Slow) \in Seq(Items) /\ << >> \in Seq(Items)
    BY PieceFacts DEF Part
  <1>6. Prelude \in Seq(Items)
    <2>1. CASE Chained
      <3> DEFINE g == GoesFastWhen(Entry)
                 h == GoesFastWhen(Second)
      <3>1. g \in BOOLEAN /\ h \in BOOLEAN
        BY DEF GoesFastWhen
      <3> DEFINE B == BranchIf(g, FastLabel)
                 C == BranchIf(h, FastLabel)
      <3>2. B \in Seq(Items) /\ C \in Seq(Items)
        <4> HIDE DEF g, h
        <4> QED BY <1>3, <3>1
      <3>3. Prelude = Run(Entry) \o B \o Run(Second) \o C \o Jump(FrameLabel) \o Label(FastLabel)
                        \o FastResult \o Label(FrameLabel)
        BY <2>1 DEF Prelude
      <3> HIDE DEF B, C
      <3> QED BY <1>2, <1>3, <1>4, <3>2, <3>3
    <2>2. CASE ~Chained
      <3> DEFINE g == ~GoesFastWhen(Entry)
      <3>1. g \in BOOLEAN
        BY DEF GoesFastWhen
      <3> DEFINE B == BranchIf(g, FrameLabel)
      <3>2. B \in Seq(Items)
        <4> HIDE DEF g
        <4> QED BY <1>3, <3>1
      <3>3. Prelude = Run(Entry) \o B \o FastResult \o Label(FrameLabel)
        BY <2>2 DEF Prelude
      <3> HIDE DEF B
      <3> QED BY <1>2, <1>3, <1>4, <3>2, <3>3
    <2> QED BY <2>1, <2>2
  <1> QED BY <1>2, <1>3, <1>4, <1>5, <1>6

(* Behind the prelude the guards run again, and the slow path begins.       *)
LEMMA TailLeads ==
    ASSUME graph \in Graphs, ReturnsEarly, NEW c, DOMAIN c \subseteq Nat, NEW i, NEW j,
           Span(c, i, EarlySetup, j)
    PROVE  \E p \in Nat : /\ Span(c, i, Prelude, p) /\ p <= j
                          /\ Delivers(c, graph.moves, p, <<LastGuard, Slow>>)
                          /\ \A k \in p..(j - 1) : c[k].op # "run"
  <1> DEFINE R == Rerun(Entry)
             again == IF Chained THEN Rerun(Second) ELSE << >>
             V == Moves(LastGuard, Slow)
             J == Jump(Of(Slow))
             M == graph.moves
  <1>1. /\ Prelude \in Seq(Items) /\ R \in Seq(Items) /\ again \in Seq(Items)
        /\ V \in Seq(Items) /\ J \in Seq(Items)
    BY PreludeTyped
  <1>2. Span(c, i, Prelude \o R \o again \o V \o J, j)
    BY DEF EarlySetup
  <1> HIDE DEF R, again, V, J
  <1> DEFINE y1 == Prelude \o R
             y2 == y1 \o again
             y3 == y2 \o V
  <1>3. y1 \in Seq(Items)
    BY <1>1, Joined
  <1>4. Span(c, i, y3 \o J, j)
    BY <1>2
  <1> HIDE DEF y1
  <1>5. y2 \in Seq(Items)
    BY <1>1, <1>3, Joined
  <1> HIDE DEF y2
  <1>6. y3 \in Seq(Items)
    BY <1>1, <1>5, Joined
  <1> HIDE DEF y3
  <1> DEFINE p == i + Len(Prelude)
             q == i + Len(y1)
             r == i + Len(y2)
             s == i + Len(y3)
  <1>7. Span(c, i, y3, s) /\ Span(c, s, J, j)
    BY ONLY <1>1, <1>4, <1>6, SpanSplits
  <1>8. Span(c, i, y2, r) /\ Span(c, r, V, s)
    BY ONLY <1>1, <1>5, <1>7, SpanSplits DEF y3
  <1>9. Span(c, i, y1, q) /\ Span(c, q, again, r)
    BY ONLY <1>1, <1>3, <1>8, SpanSplits DEF y2
  <1>10. Span(c, i, Prelude, p) /\ Span(c, p, R, q)
    BY ONLY <1>1, <1>9, SpanSplits DEF y1
  <1>11. p \in Nat
    BY <1>10 DEF Span
  <1> HIDE DEF p, q, r, s
  <1>12. /\ q = p + 1 /\ p \in DOMAIN c /\ c[p] = RerunItem(Entry)
         /\ j = s + 1 /\ s \in DOMAIN c /\ c[s] = JumpItem(Of(Slow))
    BY <1>7, <1>10, SpanRerun, SpanJump DEF R, J
  <1>13. r = q \/ (r = q + 1 /\ q \in DOMAIN c /\ c[q] = RerunItem(Second))
    <2>1. CASE Chained
      BY <1>9, <2>1, SpanRerun DEF again
    <2>2. CASE ~Chained
      BY <1>9, <2>2, SpanNone DEF again
    <2> QED BY <2>1, <2>2
  <1>14. s = r \/ (s = r + 1 /\ c[r].op = "moves")
    <2>1. CASE <<LastGuard, Slow>> \in M
      <3>1. s = r + 1 /\ c[r] = MovesItem(<<LastGuard, Slow>>)
        BY <1>8, <2>1, SpanMoves DEF V
      <3> QED BY <3>1, Kinds
    <2>2. CASE <<LastGuard, Slow>> \notin M
      BY <1>8, <2>2, SpanMoves DEF V
    <2> QED BY <2>1, <2>2
  <1>15. Enters(c, s, Slow)
    BY <1>12, Backwards
  <1>16. Delivers(c, M, r, <<LastGuard, Slow>>)
    BY <1>8, <1>15, MovesLead DEF V
  <1>17. Delivers(c, M, q, <<LastGuard, Slow>>)
    <2>1. CASE r = q
      BY <1>16, <2>1
    <2>2. CASE r = q + 1 /\ q \in DOMAIN c /\ c[q] = RerunItem(Second)
      <3>1. Passed(c[q])
        BY <2>2, Kinds
      <3> QED BY <1>16, <2>2, <3>1, Backwards
    <2> QED BY <1>13, <2>1, <2>2
  <1>18. Delivers(c, M, p, <<LastGuard, Slow>>)
    <2>1. Passed(c[p])
      BY <1>12, Kinds
    <2> QED BY <1>12, <1>17, <2>1, Backwards
  <1>19. \A k \in p..(j - 1) : c[k].op # "run"
    <2>1. c[p].op = "rerun" /\ c[s].op = "jump"
      BY <1>12, Kinds
    <2>2. r = q \/ (r = q + 1 /\ c[q].op = "rerun")
      BY <1>13, Kinds
    <2>3. \A k \in p..(j - 1) : k = p \/ (k = q /\ r = q + 1) \/ (k = r /\ s = r + 1) \/ k = s
      BY <1>11, <1>12, <1>13, <1>14
    <2> QED BY <1>14, <2>1, <2>2, <2>3
  <1>20. p <= j
    BY <1>11, <1>12, <1>13, <1>14
  <1> QED BY <1>10, <1>11, <1>18, <1>19, <1>20

(* The early code runs its guards first; each leads on as its terminator    *)
(* says, to the fast result, to the second guard or to the slow path.       *)
LEMMA GuardLeads ==
    ASSUME graph \in Graphs, NEW b \in Blocks, IsBranch(b), NEW f \in Elements(Targets(b)),
           NEW c, NEW k, c[k] = RunItem(b), NEW g, g = (Targets(b)[1] = f),
           Routes(c, graph.moves, k + 1, <<b, f>>, g),
           Routes(c, graph.moves, k + 1, <<b, OtherThan(b, f)>>, ~g)
    PROVE  Routed(c, k)
  <1>1. /\ Targets(b) # << >>
        /\ Taken(b, Targets(b)[1] = f) = <<b, f>>
        /\ Taken(b, Targets(b)[1] # f) = <<b, OtherThan(b, f)>>
    BY BranchTargets
  <1>2. c[k].block = b
    BY Kinds
  <1>3. g \in BOOLEAN /\ (~g) = (Targets(b)[1] # f)
    OBVIOUS
  <1>4. Taken(b, g) = <<b, f>> /\ Taken(b, ~g) = <<b, OtherThan(b, f)>>
    BY ONLY <1>1, <1>3, g = (Targets(b)[1] = f)
  <1>5. \A w \in BOOLEAN : w = g \/ w = ~g
    BY <1>3
  <1>6. ASSUME NEW w \in BOOLEAN
        PROVE  Routes(c, graph.moves, k + 1, Taken(b, w), w)
    <2>1. CASE w = g
      BY <1>4, <2>1
    <2>2. CASE w = ~g
      BY <1>4, <2>2
    <2> QED BY <1>5, <2>1, <2>2
  <1> QED BY <1>1, <1>2, <1>6 DEF Routed

LEMMA PlainPrelude ==
    ASSUME graph \in Graphs, ReturnsEarly, ~Chained, NEW c, DOMAIN c \subseteq Nat, NEW p,
           Span(c, 1, Prelude, p), Delivers(c, graph.moves, p, <<LastGuard, Slow>>)
    PROVE  /\ 1 \in DOMAIN c /\ c[1] = RunItem(Entry)
           /\ \A k \in 1..(p - 1) : c[k].op = "run" => Routed(c, k)
  <1> DEFINE g == GoesFastWhen(Entry)
             h == ~g
             A == Run(Entry)
             B == BranchIf(h, FrameLabel)
             X == FastResult
             L == Label(FrameLabel)
             M == graph.moves
  <1>1. g \in BOOLEAN /\ h \in BOOLEAN /\ g = (Targets(Entry)[1] = Fast)
    BY DEF GoesFastWhen
  <1>2. A \in Seq(Items) /\ B \in Seq(Items) /\ X \in Seq(Items) /\ L \in Seq(Items)
    <2> HIDE DEF g
    <2> QED BY <1>1, PreludeTyped
  <1>3. Span(c, 1, A \o B \o X \o L, p)
    BY DEF Prelude
  <1> HIDE DEF g, h, A, B, X, L
  <1> DEFINE x1 == A \o B
             x2 == x1 \o X
             q == 1 + Len(A)
             r == 1 + Len(x1)
             s == 1 + Len(x2)
  <1>4. x1 \in Seq(Items)
    BY <1>2, Joined
  <1>5. Span(c, 1, x2 \o L, p)
    BY <1>3
  <1> HIDE DEF x1
  <1>6. x2 \in Seq(Items)
    BY <1>2, <1>4, Joined
  <1> HIDE DEF x2
  <1>7. Span(c, 1, x2, s) /\ Span(c, s, L, p)
    BY ONLY <1>2, <1>5, <1>6, SpanSplits
  <1>8. Span(c, 1, x1, r) /\ Span(c, r, X, s)
    BY ONLY <1>2, <1>4, <1>7, SpanSplits DEF x2
  <1>9. Span(c, 1, A, q) /\ Span(c, q, B, r)
    BY ONLY <1>2, <1>8, SpanSplits DEF x1
  <1>10. r \in Nat /\ s \in Nat
    BY <1>7, <1>8 DEF Span
  <1> HIDE DEF q, r, s
  <1>11. q = 2 /\ 1 \in DOMAIN c /\ c[1] = RunItem(Entry)
    BY <1>9, SpanRun DEF A
  <1>12. r = 3 /\ 2 \in DOMAIN c /\ c[2] = BranchItem(h, FrameLabel)
    BY <1>9, <1>11, SpanBranch DEF B
  <1>13. p = s + 1 /\ s \in DOMAIN c /\ c[s] = LabelItem(FrameLabel)
    BY <1>7, SpanLabel DEF L
  <1>14. /\ r \in DOMAIN c /\ c[r] = RunItem(Fast)
         /\ \A k \in r..(s - 1) : c[k].op = "run" => Routed(c, k)
    BY <1>8, FastResultLeads DEF X
  <1>15. LastGuard = Entry /\ Fast \in Elements(Targets(Entry)) /\ IsBranch(Entry) /\ Entry \in Blocks
         /\ Slow = OtherThan(Entry, Fast) /\ Fast \in graph.direct
    BY GuardFacts, GraphFacts DEF LastGuard, Guards
  <1>16. Routes(c, M, 2, <<Entry, Fast>>, g)
    <2>1. Enters(c, 3, Fast)
      BY <1>12, <1>14, Backwards
    <2>2. <<Entry, Fast>> \notin M /\ <<Entry, Fast>>[2] = Fast
      BY <1>15, NoMovesThere
    <2>3. Heads(c, M, 3, <<Entry, Fast>>)
      BY <2>1, <2>2 DEF Heads, Delivers
    <2>4. c[2].op = "branch" /\ c[2].when = h
      BY <1>12, Kinds
    <2>5. g # h
      BY <1>1 DEF h
    <2> QED BY <1>12, <2>3, <2>4, <2>5 DEF Routes
  <1>17. Routes(c, M, 2, <<Entry, Slow>>, h)
    <2>1. Delivers(c, M, s, <<Entry, Slow>>)
      BY <1>13, <1>15, Kinds, Backwards
    <2>2. Lands(c, M, FrameLabel, <<Entry, Slow>>)
      BY <1>13, <2>1 DEF Lands
    <2>3. c[2].op = "branch" /\ c[2].when = h /\ c[2].to = FrameLabel
      BY <1>12, Kinds
    <2> QED BY <1>12, <2>2, <2>3 DEF Routes
  <1>18. Routed(c, 1)
    <2>1. Routes(c, M, 1 + 1, <<Entry, Fast>>, g)
          /\ Routes(c, M, 1 + 1, <<Entry, OtherThan(Entry, Fast)>>, ~g)
      BY <1>15, <1>16, <1>17 DEF h
    <2> QED BY <1>1, <1>11, <1>15, <2>1, GuardLeads
  <1>19. c[2].op = "branch" /\ c[s].op = "label"
    BY <1>12, <1>13, Kinds
  <1>20. \A k \in 1..(p - 1) : k = 1 \/ k = 2 \/ k \in r..(s - 1) \/ k = s
    BY <1>10, <1>12, <1>13
  <1> QED BY <1>11, <1>14, <1>18, <1>19, <1>20

LEMMA ChainedPrelude ==
    ASSUME graph \in Graphs, ReturnsEarly, Chained, NEW c, DOMAIN c \subseteq Nat, NEW p,
           Span(c, 1, Prelude, p), Delivers(c, graph.moves, p, <<LastGuard, Slow>>)
    PROVE  /\ 1 \in DOMAIN c /\ c[1] = RunItem(Entry)
           /\ \A k \in 1..(p - 1) : c[k].op = "run" => Routed(c, k)
  <1> DEFINE g == GoesFastWhen(Entry)
             h == GoesFastWhen(Second)
             A == Run(Entry)
             B == BranchIf(g, FastLabel)
             C == Run(Second)
             D == BranchIf(h, FastLabel)
             J == Jump(FrameLabel)
             Q == Label(FastLabel)
             X == FastResult
             L == Label(FrameLabel)
             M == graph.moves
  <1>1. /\ g \in BOOLEAN /\ g = (Targets(Entry)[1] = Fast)
        /\ h \in BOOLEAN /\ h = (Targets(Second)[1] = Fast)
    BY DEF GoesFastWhen
  <1>2. /\ A \in Seq(Items) /\ B \in Seq(Items) /\ C \in Seq(Items) /\ D \in Seq(Items)
        /\ J \in Seq(Items) /\ Q \in Seq(Items) /\ X \in Seq(Items) /\ L \in Seq(Items)
    <2> HIDE DEF g, h
    <2> QED BY <1>1, PreludeTyped
  <1>3. Span(c, 1, A \o B \o C \o D \o J \o Q \o X \o L, p)
    BY DEF Prelude
  <1> HIDE DEF g, h, A, B, C, D, J, Q, X, L
  <1> DEFINE x1 == A \o B
             x2 == x1 \o C
             x3 == x2 \o D
             x4 == x3 \o J
             x5 == x4 \o Q
             x6 == x5 \o X
             p1 == 1 + Len(A)
             p2 == 1 + Len(x1)
             p3 == 1 + Len(x2)
             p4 == 1 + Len(x3)
             p5 == 1 + Len(x4)
             p6 == 1 + Len(x5)
             s == 1 + Len(x6)
  <1>4. Span(c, 1, x6 \o L, p)
    BY <1>3
  <1>5. x1 \in Seq(Items)
    BY <1>2, Joined
  <1> HIDE DEF x1
  <1>6. x2 \in Seq(Items)
    BY <1>2, <1>5, Joined
  <1> HIDE DEF x2
  <1>7. x3 \in Seq(Items)
    BY <1>2, <1>6, Joined
  <1> HIDE DEF x3
  <1>8. x4 \in Seq(Items)
    BY <1>2, <1>7, Joined
  <1> HIDE DEF x4
  <1>9. x5 \in Seq(Items)
    BY <1>2, <1>8, Joined
  <1> HIDE DEF x5
  <1>10. x6 \in Seq(Items)
    BY <1>2, <1>9, Joined
  <1> HIDE DEF x6
  <1>11. Span(c, 1, x6, s) /\ Span(c, s, L, p)
    BY ONLY <1>2, <1>4, <1>10, SpanSplits
  <1>12. Span(c, 1, x5, p6) /\ Span(c, p6, X, s)
    BY ONLY <1>2, <1>9, <1>11, SpanSplits DEF x6
  <1>13. Span(c, 1, x4, p5) /\ Span(c, p5, Q, p6)
    BY ONLY <1>2, <1>8, <1>12, SpanSplits DEF x5
  <1>14. Span(c, 1, x3, p4) /\ Span(c, p4, J, p5)
    BY ONLY <1>2, <1>7, <1>13, SpanSplits DEF x4
  <1>15. Span(c, 1, x2, p3) /\ Span(c, p3, D, p4)
    BY ONLY <1>2, <1>6, <1>14, SpanSplits DEF x3
  <1>16. Span(c, 1, x1, p2) /\ Span(c, p2, C, p3)
    BY ONLY <1>2, <1>5, <1>15, SpanSplits DEF x2
  <1>17. Span(c, 1, A, p1) /\ Span(c, p1, B, p2)
    BY ONLY <1>2, <1>16, SpanSplits DEF x1
  <1>18. s \in Nat
    BY <1>11 DEF Span
  <1> HIDE DEF p1, p2, p3, p4, p5, p6, s
  <1>19. p1 = 2 /\ 1 \in DOMAIN c /\ c[1] = RunItem(Entry)
    BY <1>17, SpanRun DEF A
  <1>20. p2 = 3 /\ 2 \in DOMAIN c /\ c[2] = BranchItem(g, FastLabel)
    BY <1>17, <1>19, SpanBranch DEF B
  <1>21. p3 = 4 /\ 3 \in DOMAIN c /\ c[3] = RunItem(Second)
    BY <1>16, <1>20, SpanRun DEF C
  <1>22. p4 = 5 /\ 4 \in DOMAIN c /\ c[4] = BranchItem(h, FastLabel)
    BY <1>15, <1>21, SpanBranch DEF D
  <1>23. p5 = 6 /\ 5 \in DOMAIN c /\ c[5] = JumpItem(FrameLabel)
    BY <1>14, <1>22, SpanJump DEF J
  <1>24. p6 = 7 /\ 6 \in DOMAIN c /\ c[6] = LabelItem(FastLabel)
    BY <1>13, <1>23, SpanLabel DEF Q
  <1>25. p = s + 1 /\ s \in DOMAIN c /\ c[s] = LabelItem(FrameLabel)
    BY <1>11, SpanLabel DEF L
  <1>26. /\ 7 \in DOMAIN c /\ c[7] = RunItem(Fast)
         /\ \A k \in 7..(s - 1) : c[k].op = "run" => Routed(c, k)
    BY <1>12, <1>24, FastResultLeads DEF X
  <1>27. /\ LastGuard = Second /\ Slow = OtherThan(Second, Fast) /\ Second = OtherThan(Entry, Fast)
         /\ Fast \in graph.direct /\ Second \in graph.guards
         /\ Entry \in Blocks /\ IsBranch(Entry) /\ Fast \in Elements(Targets(Entry))
         /\ Second \in Blocks /\ IsBranch(Second) /\ Fast \in Elements(Targets(Second))
    BY GuardFacts, GraphFacts DEF LastGuard, Guards
  <1>28. Lands(c, M, FastLabel, <<Entry, Fast>>) /\ Lands(c, M, FastLabel, <<Second, Fast>>)
    <2>1. Enters(c, 7, Fast)
      BY <1>26, Backwards
    <2>2. Enters(c, 6, Fast)
      <3>1. Enters(c, 6 + 1, Fast) /\ Passed(c[6])
        BY <1>24, <2>1, Kinds
      <3> QED BY <1>24, <3>1, Backwards
    <2>3. \A b : <<b, Fast>> \notin M /\ <<b, Fast>>[2] = Fast
      BY <1>27, NoMovesThere
    <2>4. \A b : Delivers(c, M, 6, <<b, Fast>>)
      BY <2>2, <2>3 DEF Delivers
    <2> QED BY <1>24, <2>4 DEF Lands
  <1>29. Routes(c, M, 2, <<Entry, Fast>>, g)
    <2>1. c[2].op = "branch" /\ c[2].when = g /\ c[2].to = FastLabel
      BY <1>20, Kinds
    <2> QED BY <1>20, <1>28, <2>1 DEF Routes
  <1>30. Routes(c, M, 2, <<Entry, Second>>, ~g)
    <2>1. c[2].op = "branch" /\ c[2].when = g
      BY <1>20, Kinds
    <2>2. g # (~g)
      BY <1>1
    <2>3. Enters(c, 3, Second)
      BY <1>21, Backwards
    <2>4. <<Entry, Second>> \notin M /\ <<Entry, Second>>[2] = Second
      BY <1>27, NoMovesThere
    <2>5. Heads(c, M, 3, <<Entry, Second>>)
      BY <2>3, <2>4 DEF Heads, Delivers
    <2> QED BY <1>20, <2>1, <2>2, <2>5 DEF Routes
  <1>31. Routed(c, 1)
    <2>1. Routes(c, M, 1 + 1, <<Entry, Fast>>, g)
          /\ Routes(c, M, 1 + 1, <<Entry, OtherThan(Entry, Fast)>>, ~g)
      BY <1>27, <1>29, <1>30
    <2> QED BY <1>1, <1>19, <1>27, <2>1, GuardLeads
  <1>32. Routes(c, M, 4, <<Second, Fast>>, h)
    <2>1. c[4].op = "branch" /\ c[4].when = h /\ c[4].to = FastLabel
      BY <1>22, Kinds
    <2> QED BY <1>22, <1>28, <2>1 DEF Routes
  <1>33. Routes(c, M, 4, <<Second, Slow>>, ~h)
    <2>1. c[4].op = "branch" /\ c[4].when = h
      BY <1>22, Kinds
    <2>2. h # (~h)
      BY <1>1
    <2>3. Delivers(c, M, s, <<Second, Slow>>)
      BY <1>25, <1>27, Kinds, Backwards
    <2>4. Lands(c, M, FrameLabel, <<Second, Slow>>)
      BY <1>25, <2>3 DEF Lands
    <2>5. c[5].op = "jump" /\ c[5].to = FrameLabel
      BY <1>23, Kinds
    <2>6. Heads(c, M, 5, <<Second, Slow>>)
      BY <1>23, <2>4, <2>5 DEF Heads
    <2> QED BY <1>22, <2>1, <2>2, <2>6 DEF Routes
  <1>34. Routed(c, 3)
    <2>1. Routes(c, M, 3 + 1, <<Second, Fast>>, h)
          /\ Routes(c, M, 3 + 1, <<Second, OtherThan(Second, Fast)>>, ~h)
      BY <1>27, <1>32, <1>33
    <2> QED BY <1>1, <1>21, <1>27, <2>1, GuardLeads
  <1>35. c[2].op = "branch" /\ c[4].op = "branch" /\ c[5].op = "jump" /\ c[6].op = "label"
         /\ c[s].op = "label"
    BY <1>20, <1>22, <1>23, <1>24, <1>25, Kinds
  <1>36. \A k \in 1..(p - 1) : k = 1 \/ k = 2 \/ k = 3 \/ k = 4 \/ k = 5 \/ k = 6
                               \/ k \in 7..(s - 1) \/ k = s
    BY <1>18, <1>25
  <1> QED BY <1>19, <1>26, <1>31, <1>34, <1>35, <1>36

(* The whole early code: it starts with the entry, and every block it runs  *)
(* leads on as it should.                                                   *)
LEMMA EarlyLeads ==
    ASSUME graph \in Graphs, ReturnsEarly, NEW c, DOMAIN c \subseteq Nat, NEW j,
           Span(c, 1, EarlySetup, j)
    PROVE  /\ 1 \in DOMAIN c /\ c[1] = RunItem(Entry)
           /\ \A k \in 1..(j - 1) : c[k].op = "run" => Routed(c, k)
  <1>1. PICK p \in Nat : /\ Span(c, 1, Prelude, p) /\ p <= j
                         /\ Delivers(c, graph.moves, p, <<LastGuard, Slow>>)
                         /\ \A k \in p..(j - 1) : c[k].op # "run"
    BY TailLeads
  <1>2. /\ 1 \in DOMAIN c /\ c[1] = RunItem(Entry)
        /\ \A k \in 1..(p - 1) : c[k].op = "run" => Routed(c, k)
    BY <1>1, PlainPrelude, ChainedPrelude
  <1>3. \A k \in 1..(j - 1) : k \in 1..(p - 1) \/ k \in p..(j - 1)
    BY <1>1
  <1> QED BY <1>1, <1>2, <1>3

-----------------------------------------------------------------------------
(* The blocks that are written are closed under targets.                    *)
LEMMA ReachableClosed ==
    ASSUME graph \in Graphs
    PROVE  \A b \in Reachable : Elements(Targets(b)) \subseteq Reachable
  <1> DEFINE N == Len(graph.targets)
             A == {Entry} \ {}
             More(X) == X \cup ((UNION {Elements(Targets(b)) : b \in X}) \ {})
             R == [b \in Blocks |-> Elements(Targets(b))]
             Step(s) == [n \in 0..N |-> IF n = 0 THEN A ELSE More(s[n - 1])]
  <1>1. /\ N \in Nat /\ IsFiniteSet(Blocks) /\ Cardinality(Blocks) <= N
        /\ \A b \in Blocks : Elements(Targets(b)) \subseteq Blocks
    <2>1. N \in Nat /\ N > 0 /\ Blocks = 1..N
      BY GraphFacts
    <2> HIDE DEF N
    <2>2. Cardinality(1..N) = IF 1 > N THEN 0 ELSE N - 1 + 1
      BY <2>1, FS_Interval
    <2>3. IsFiniteSet(Blocks) /\ Cardinality(Blocks) = N
      BY <2>1, <2>2, FS_Interval
    <2> QED BY <2>1, <2>3, GraphFacts
  <1>2. R \in [Blocks -> SUBSET Blocks] /\ A \in SUBSET Blocks
    BY <1>1, GraphFacts
  <1>3. ASSUME NEW X \in SUBSET Blocks
        PROVE  Spread(R, X) = More(X)
    <2>1. \A b \in X : R[b] = Elements(Targets(b))
      OBVIOUS
    <2> HIDE DEF R
    <2> QED BY <2>1 DEF Spread
  <1>4. PICK g \in [0..N -> SUBSET Blocks] : SpreadsTo(g, N, R, A)
    <2> HIDE DEF N, R, A
    <2> QED BY <1>1, <1>2, SpreadExists
  <1>5. g = Step(g)
    <2>1. \A i \in 0..N : i = 0 \/ (i \in 1..N /\ i - 1 \in 0..N /\ i # 0)
      BY <1>1
    <2>2. \A i \in 1..N : g[i] = Spread(R, g[i - 1])
      BY <1>4 DEF SpreadsTo
    <2>3. g[0] = A
      <3> HIDE DEF A
      <3> QED BY <1>4 DEF SpreadsTo
    <2> HIDE DEF N, R, More, A
    <2>4. \A i \in 0..N : g[i] = IF i = 0 THEN A ELSE More(g[i - 1])
      BY <1>3, <2>1, <2>2, <2>3
    <2> QED BY <2>4
  <1> DEFINE step == CHOOSE s : s = Step(s)
  <1>6. step = Step(step)
    <2> HIDE DEF Step
    <2> QED BY <1>5
  <1>7. Reachable = step[N]
    BY DEF Reachable, ReachedAvoiding
  <1> HIDE DEF step
  <1>8. step[0] = A /\ \A i \in 1..N : step[i] = More(step[i - 1])
    <2>1. \A i \in 0..N : step[i] = IF i = 0 THEN A ELSE More(step[i - 1])
      <3> HIDE DEF More, N, A
      <3> QED BY <1>6
    <2>2. 0 \in 0..N /\ \A i \in 1..N : i \in 0..N /\ i # 0
      BY <1>1
    <2> HIDE DEF More, N, A
    <2> QED BY <2>1, <2>2
  <1>9. SpreadsTo(step, N, R, A)
    <2> DEFINE I == SUBSET Blocks
    <2>1. \A X \in I : More(X) \in I
      BY <1>1
    <2>2. step[0] \in I
      BY <1>2, <1>8
    <2>3. \A i \in 0..N : step[i] \in I
      <3>1. \A i \in 1..N : step[i - 1] \in I => step[i] \in I
        <4> HIDE DEF More, N, I
        <4> QED BY <1>8, <2>1
      <3> HIDE DEF I, N, More
      <3> QED BY <1>1, <2>2, <3>1, IterationKeeps
    <2>4. \A i \in 1..N : i - 1 \in 0..N
      BY <1>1
    <2> HIDE DEF N, R, More, A
    <2> QED BY <1>3, <1>8, <2>3, <2>4 DEF SpreadsTo
  <1>10. ClosedUnder(R, step[N]) /\ step[N] \subseteq Blocks
    <2> HIDE DEF N, R, A
    <2> QED BY <1>1, <1>2, <1>9, SpreadFacts
  <1>11. \A b \in step[N] : Elements(Targets(b)) \subseteq step[N]
    BY <1>10 DEF ClosedUnder
  <1> QED BY <1>7, <1>11

ToEmit == Elements(order) \ (IF ReturnsEarly THEN Skipped ELSE {})

LEMMA EmittedClosed ==
    ASSUME graph \in Graphs, Entry \in Elements(order), Elements(order) \subseteq Blocks,
           \A b \in Elements(order) : Elements(Targets(b)) \subseteq Elements(order)
    PROVE  /\ ToEmit \subseteq Blocks
           /\ \A b \in ToEmit : Elements(Targets(b)) \subseteq ToEmit
           /\ ReturnsEarly => Slow \in ToEmit
           /\ ~ReturnsEarly => Entry \in ToEmit
  <1>1. CASE ReturnsEarly
    <2>1. ToEmit = Elements(order) \ Skipped
      BY <1>1 DEF ToEmit
    <2>2. ASSUME NEW b \in ToEmit, NEW t \in Elements(Targets(b))
          PROVE  t \in ToEmit
      BY <1>1, <2>1, GuardFacts
    <2>3. Slow \in ToEmit
      <3>1. /\ LastGuard \in Guards /\ Guards \subseteq Blocks /\ Slow \notin Skipped
            /\ \A b \in Guards : IsBranch(b) /\ Fast \in Elements(Targets(b))
            /\ Slow = OtherThan(LastGuard, Fast) /\ Second = OtherThan(Entry, Fast)
        BY <1>1, GuardFacts
      <3>2. \A b \in Guards : OtherThan(b, Fast) \in Elements(Targets(b))
        BY <3>1, BranchTargets
      <3>3. Entry \in Guards
        BY DEF Guards
      <3>4. Guards \subseteq Elements(order)
        <4>1. Second \in Elements(order)
          BY <3>1, <3>2, <3>3
        <4> QED BY <4>1 DEF Guards
      <3> QED BY <2>1, <3>1, <3>2, <3>4
    <2> QED BY <1>1, <2>1, <2>2, <2>3
  <1>2. CASE ~ReturnsEarly
    BY <1>2 DEF ToEmit
  <1> QED BY <1>1, <1>2

-----------------------------------------------------------------------------
(* What has been written while blocks are still to come.                    *)

(* What has been written to c while the blocks in q are still to come.      *)
Emitted(q) == ToEmit \ Elements(q)

(* The label of a block stands before it.                                   *)
Labelled(c) ==
    \A b \in Blocks, i \in DOMAIN c :
        c[i] = LabelItem(Of(b)) => i + 1 \in DOMAIN c /\ c[i + 1] = RunItem(b)

(* The block behind the last terminator is written next.                    *)
ComesNext(q) == IF q = << >> THEN None ELSE Head(q)
LastOf(c, k, next) ==
    c[k].block \in Blocks /\ Span(c, k + 1, Terminator(c[k].block, next), Len(c) + 1)

Queue(q) == q \in Seq(Blocks) /\ Distinct(q) /\ Elements(q) \subseteq ToEmit
Written(c, q) ==
    /\ c \in Seq(Items) /\ Tidy(c)
    /\ Names(c) \subseteq {FrameLabel, FastLabel}
                          \cup {Of(b) : b \in Emitted(q)} \cup {EdgeFrom(b) : b \in Emitted(q)}
    /\ {Of(b) : b \in Emitted(q)} \subseteq Names(c)
    /\ Aims(c) \subseteq Names(c) \cup {ReturnLabel} \cup {Of(b) : b \in ToEmit}
Leading(c, q) ==
    /\ Labelled(c)
    /\ \A k \in DOMAIN c : c[k].op = "run" => Routed(c, k) \/ LastOf(c, k, ComesNext(q))
    /\ IF c = << >> THEN q # << >> /\ Head(q) = Entry ELSE Enters(c, 1, Entry)

Emitting == Queue(unemitted) /\ Written(code, unemitted) /\ Leading(code, unemitted)

(* The order stays closed under targets.                                    *)
Closed == \A b \in Elements(order) : Elements(Targets(b)) \subseteq Elements(order)

(* All this depends on the function and the order alone.                    *)
LEMMA SameBlocks ==
    ASSUME graph' = graph, order' = order
    PROVE  Blocks' = Blocks /\ ToEmit' = ToEmit /\ Items' = Items
  <1>1. Blocks' = Blocks
    BY DEF Blocks
  <1>2. Fast' = Fast
    BY DEF Fast, Targets
  <1>3. Second' = Second
    BY <1>2 DEF Second, OtherThan, Targets
  <1>4. Preds(Second)' = Preds(Second)
    BY <1>3 DEF Preds, Blocks, Targets, Elements
  <1>5. Preds(Fast)' = Preds(Fast)
    BY <1>2 DEF Preds, Blocks, Targets, Elements
  <1>6. Elements(Targets(Second))' = Elements(Targets(Second))
    BY <1>3 DEF Targets, Elements
  <1>7. IsBranch(Second)' = IsBranch(Second)
    BY <1>3 DEF Targets, IsBranch
  <1>8. Chained' = Chained
    BY <1>2, <1>3, <1>4, <1>6, <1>7 DEF Chained
  <1>9. Guards' = Guards
    BY <1>3, <1>8 DEF Guards
  <1>10. Skipped' = Skipped
    BY <1>2, <1>5, <1>9 DEF Skipped
  <1>11. ReturnsEarly' = ReturnsEarly
    BY DEF ReturnsEarly, IsBranch, Targets, Elements
  <1>12. Elements(order)' = Elements(order)
    BY DEF Elements
  <1>13. ToEmit' = ToEmit
    BY <1>10, <1>11, <1>12 DEF ToEmit
  <1>14. Items' = Items
    BY <1>1 DEF Items, LabelNames
  <1> QED BY <1>1, <1>13, <1>14

LEMMA SameLeads ==
    ASSUME graph' = graph
    PROVE  /\ Labelled(code)' <=> Labelled(code')
           /\ \A k : Routed(code, k)' <=> Routed(code', k)
           /\ \A k : LastOf(code, k, ComesNext(unemitted))' <=> LastOf(code', k, ComesNext(unemitted'))
           /\ Enters(code, 1, Entry)' <=> Enters(code', 1, Entry)
  <1>1. Blocks' = Blocks
    BY DEF Blocks
  <1>2. Labelled(code)' <=> Labelled(code')
    BY <1>1 DEF Labelled
  <1>3. \A k : Routed(code, k)' <=> Routed(code', k)
    BY <1>1 DEF Routed, Targets, Taken
  <1>4. \A k : LastOf(code, k, ComesNext(unemitted))' <=> LastOf(code', k, ComesNext(unemitted'))
    BY <1>1 DEF LastOf, ComesNext, Terminator, Targets, IsBranch, SplitBranch, PlainBranch,
       JumpUnlessNext, Moves
  <1>5. Enters(code, 1, Entry)' <=> Enters(code', 1, Entry)
    OBVIOUS
  <1> QED BY <1>2, <1>3, <1>4, <1>5

LEMMA EmittingAgain ==
    ASSUME graph' = graph, order' = order,
           Queue(unemitted'), Written(code', unemitted'), Leading(code', unemitted')
    PROVE  Emitting'
  <1>1. Blocks' = Blocks /\ ToEmit' = ToEmit /\ Items' = Items
    BY SameBlocks
  <1>2. Queue(unemitted)'
    BY <1>1 DEF Queue, Distinct, Elements
  <1>3. Emitted(unemitted)' = Emitted(unemitted')
    BY <1>1 DEF Emitted, Elements
  <1>4. Names(code)' = Names(code') /\ Aims(code)' = Aims(code') /\ (Tidy(code)' <=> Tidy(code'))
    BY DEF Names, Aims, Tidy
  <1>5. Written(code, unemitted)'
    BY <1>1, <1>3, <1>4 DEF Written
  <1>6. Leading(code, unemitted)'
    BY SameLeads DEF Leading
  <1> QED BY <1>2, <1>5, <1>6 DEF Emitting

LEMMA LabelSorts ==
    /\ \A b : Of(b) \notin {FrameLabel, FastLabel, ReturnLabel}
    /\ \A b : EdgeFrom(b) \notin {FrameLabel, FastLabel, ReturnLabel}
    /\ \A b, d : Of(b) # EdgeFrom(d)
    /\ \A b, d : Of(b) = Of(d) => b = d
    /\ \A b, d : EdgeFrom(b) = EdgeFrom(d) => b = d
    /\ ReturnLabel \notin {FrameLabel, FastLabel}
  BY DEF Of, EdgeFrom, FrameLabel, FastLabel, ReturnLabel

LEMMA SetupEmits ==
    ASSUME IInv, Closed, Setup
    PROVE  Emitting'
  <1>1. /\ graph' = graph /\ order' = order
        /\ code' = IF ReturnsEarly THEN EarlySetup ELSE << >>
        /\ unemitted' = IF ReturnsEarly THEN Without(order, Skipped) ELSE order
    BY DEF Setup
  <1>2. /\ graph \in Graphs /\ order \in Seq(Blocks) /\ Distinct(order) /\ order # << >>
        /\ order[1] = Entry /\ Elements(order) \subseteq Blocks /\ Entry \in Elements(order)
    <2>1. /\ graph \in Graphs /\ order \in Seq(Blocks) /\ Distinct(order) /\ order # << >>
          /\ order[1] = Entry
      BY DEF IInv
    <2>2. 1 \in DOMAIN order /\ \A i \in DOMAIN order : order[i] \in Blocks
      BY <2>1
    <2> QED BY <2>1, <2>2 DEF Elements
  <1>3. Elements(unemitted') = ToEmit /\ unemitted' \in Seq(Blocks) /\ Distinct(unemitted')
    <2>1. CASE ReturnsEarly
      <3>1. /\ Without(order, Skipped) \in Seq(Blocks) /\ Distinct(Without(order, Skipped))
            /\ Elements(Without(order, Skipped)) = Elements(order) \ Skipped
        BY <1>2, WithoutFacts
      <3> QED BY <1>1, <2>1, <3>1 DEF ToEmit
    <2>2. CASE ~ReturnsEarly
      BY <1>1, <1>2, <2>2 DEF ToEmit
    <2> QED BY <2>1, <2>2
  <1>4. Queue(unemitted') /\ Emitted(unemitted') = {}
    BY <1>3 DEF Queue, Emitted
  <1>5. CASE ReturnsEarly
    <2> DEFINE c == EarlySetup
    <2>1. PICK n \in SUBSET {FrameLabel, FastLabel} : \E a :
             Part(c, n, a) /\ a \subseteq n \cup {Of(Slow)}
      BY <1>2, <1>5, EarlyParts
    <2>2. PICK a : Part(c, n, a) /\ a \subseteq n \cup {Of(Slow)}
      BY <2>1
    <2>3. Slow \in ToEmit
      BY <1>2, <1>5, EmittedClosed DEF Closed
    <2>4. c \in Seq(Items) /\ Tidy(c) /\ Names(c) = n /\ Aims(c) = a
      BY <2>2 DEF Part
    <2>5. code' = c
      BY <1>1, <1>5
    <2> HIDE DEF c
    <2>6. Written(c, unemitted')
      BY <1>4, <2>1, <2>2, <2>3, <2>4 DEF Written
    <2>7. Labelled(c)
      <3> SUFFICES ASSUME NEW b \in Blocks, NEW i \in DOMAIN c, c[i] = LabelItem(Of(b))
                   PROVE  FALSE
        BY DEF Labelled
      <3>1. c[i].op = "label" /\ c[i].to = Of(b)
        BY Kinds
      <3>2. Of(b) \in n
        BY <2>4, <3>1, NameFacts
      <3> QED BY <2>1, <3>2, LabelSorts
    <2>8. Span(c, 1, c, Len(c) + 1) /\ DOMAIN c = 1..Len(c) /\ Len(c) \in Nat
      BY <2>4 DEF Span
    <2>9. /\ 1 \in DOMAIN c /\ c[1] = RunItem(Entry)
          /\ \A k \in 1..(Len(c) + 1 - 1) : c[k].op = "run" => Routed(c, k)
      <3>1. DOMAIN c \subseteq Nat /\ Span(c, 1, EarlySetup, Len(c) + 1)
        BY <2>8 DEF c
      <3> QED BY <1>2, <1>5, <3>1, EarlyLeads
    <2>10. \A k \in DOMAIN c : c[k].op = "run" => Routed(c, k)
      BY <2>8, <2>9
    <2>11. c # << >> /\ Enters(c, 1, Entry)
      <3>1. DOMAIN c \subseteq Nat
        BY <2>8
      <3> QED BY <2>9, <3>1, Backwards
    <2>12. Leading(c, unemitted')
      BY <2>7, <2>10, <2>11 DEF Leading
    <2> QED BY <1>1, <1>4, <2>5, <2>6, <2>12, EmittingAgain
  <1>6. CASE ~ReturnsEarly
    <2>1. code' = << >> /\ unemitted' = order
      BY <1>1, <1>6
    <2>2. Names(<< >>) = {} /\ Aims(<< >>) = {} /\ Tidy(<< >>)
      BY DEF Names, Aims, Tidy
    <2>3. Written(code', unemitted')
      BY <1>4, <2>1, <2>2 DEF Written
    <2>4. Leading(code', unemitted')
      BY <1>2, <2>1 DEF Leading, Labelled
    <2> QED BY <1>1, <1>4, <2>3, <2>4, EmittingAgain
  <1> QED BY <1>5, <1>6

-----------------------------------------------------------------------------
(* Code that is appended.                                                   *)
LEMMA SpanKept ==
    ASSUME NEW c, NEW d, Extends(c, d), NEW i, NEW x, NEW j, Span(c, i, x, j)
    PROVE  Span(d, i, x, j)
  BY DEF Span, Extends

LEMMA Appended ==
    ASSUME NEW x \in Seq(Items), NEW y \in Seq(Items)
    PROVE  /\ x \o y \in Seq(Items) /\ Extends(x, x \o y)
           /\ Span(x \o y, Len(x) + 1, y, Len(x \o y) + 1)
           /\ \A k \in DOMAIN (x \o y) : k \in DOMAIN x \/ \E m \in DOMAIN y : (x \o y)[k] = y[m]
  <1> DEFINE z == x \o y
  <1>1. /\ z \in Seq(Items) /\ Len(z) = Len(x) + Len(y)
        /\ \A i \in DOMAIN x : i \in DOMAIN z /\ z[i] = x[i]
        /\ \A i \in DOMAIN y : Len(x) + i \in DOMAIN z /\ z[Len(x) + i] = y[i]
        /\ \A i \in DOMAIN z : i \in DOMAIN x \/ \E k \in DOMAIN y : i = Len(x) + k
    BY Joined
  <1> HIDE DEF z
  <1>2. Len(x) \in Nat /\ Len(y) \in Nat /\ DOMAIN y = 1..Len(y)
    OBVIOUS
  <1>3. Span(z, Len(x) + 1, y, Len(z) + 1)
    <2> DEFINE m == Len(x)
               n == Len(y)
    <2>1. m \in Nat /\ n \in Nat /\ Len(z) = m + n /\ DOMAIN y = 1..n
          /\ \A i \in DOMAIN y : m + i \in DOMAIN z /\ z[m + i] = y[i]
      BY <1>1, <1>2
    <2> HIDE DEF m
    <2>2. \A k \in 1..n : m + 1 + k - 1 = m + k
      BY <2>1
    <2>3. \A k \in 1..n : m + 1 + k - 1 \in DOMAIN z /\ z[m + 1 + k - 1] = y[k]
      <3> HIDE DEF n
      <3> QED BY ONLY <2>1, <2>2
    <2>4. m + 1 \in Nat /\ Len(z) + 1 = m + 1 + n
      BY <2>1
    <2>5. Span(z, m + 1, y, Len(z) + 1)
      BY <2>3, <2>4 DEF Span
    <2> QED BY <2>5 DEF m
  <1>4. Extends(x, z)
    BY <1>1 DEF Extends
  <1>5. \A k \in DOMAIN z : k \in DOMAIN x \/ \E m \in DOMAIN y : z[k] = y[m]
    BY <1>1
  <1> QED BY <1>1, <1>3, <1>4, <1>5 DEF z

(* A block is a label, its instructions and its terminator x.               *)
Comes(c, d, x, k) ==
    k \in DOMAIN c \/ k = Len(c) + 1 \/ k = Len(c) + 2 \/ \E m \in DOMAIN x : d[k] = x[m]

LEMMA BlockAppended ==
    ASSUME NEW c \in Seq(Items), NEW b \in Blocks, NEW x \in Seq(Items), NEW d,
           d = c \o Label(Of(b)) \o Run(b) \o x
    PROVE  /\ d \in Seq(Items) /\ Extends(c, d)
           /\ Span(d, Len(c) + 1, Label(Of(b)), Len(c) + 2)
           /\ Len(c) + 2 \in DOMAIN d /\ d[Len(c) + 2] = RunItem(b)
           /\ Span(d, Len(c) + 3, x, Len(d) + 1)
           /\ \A k \in DOMAIN d : Comes(c, d, x, k)
  <1> DEFINE L == Label(Of(b))
             R == Run(b)
             c1 == c \o L
             c2 == c1 \o R
  <1>1. L \in Seq(Items) /\ R \in Seq(Items) /\ Of(b) \in LabelNames
    <2>1. Of(b) \in LabelNames
      BY DEF Of, LabelNames
    <2> QED BY <2>1, PieceFacts DEF Part
  <1>2. d = c2 \o x
    OBVIOUS
  <1> HIDE DEF L, R
  <1>3. /\ c1 \in Seq(Items) /\ Extends(c, c1) /\ Span(c1, Len(c) + 1, L, Len(c1) + 1)
        /\ \A k \in DOMAIN c1 : k \in DOMAIN c \/ \E m \in DOMAIN L : c1[k] = L[m]
    BY <1>1, Appended
  <1> HIDE DEF c1
  <1>4. /\ c2 \in Seq(Items) /\ Extends(c1, c2) /\ Span(c2, Len(c1) + 1, R, Len(c2) + 1)
    BY <1>1, <1>3, Appended
  <1> HIDE DEF c2
  <1>5. /\ d \in Seq(Items) /\ Extends(c2, d) /\ Span(d, Len(c2) + 1, x, Len(d) + 1)
        /\ \A k \in DOMAIN d : k \in DOMAIN c2 \/ \E m \in DOMAIN x : d[k] = x[m]
    BY <1>2, <1>4, Appended
  <1>6. Len(c) \in Nat /\ Len(c1) \in Nat /\ Len(c2) \in Nat
        /\ DOMAIN c = 1..Len(c) /\ DOMAIN c2 = 1..Len(c2)
    BY <1>3, <1>4
  <1>7. /\ Len(c1) + 1 = Len(c) + 1 + 1 /\ Len(c) + 1 \in DOMAIN c1
        /\ c1[Len(c) + 1] = LabelItem(Of(b))
    BY <1>3, SpanLabel DEF L
  <1>8. /\ Len(c2) + 1 = Len(c1) + 1 + 1 /\ Len(c1) + 1 \in DOMAIN c2
        /\ c2[Len(c1) + 1] = RunItem(b)
    BY <1>4, SpanRun DEF R
  <1>9. Len(c1) + 1 = Len(c) + 2 /\ Len(c2) + 1 = Len(c) + 3 /\ Len(c2) = Len(c) + 2
    <2> DEFINE n == Len(c)
               n1 == Len(c1)
               n2 == Len(c2)
    <2>1. n \in Nat /\ n1 \in Nat /\ n2 \in Nat /\ n1 + 1 = n + 1 + 1 /\ n2 + 1 = n1 + 1 + 1
      BY <1>6, <1>7, <1>8
    <2> HIDE DEF n, n1, n2
    <2>2. n1 + 1 = n + 2 /\ n2 + 1 = n + 3 /\ n2 = n + 2
      BY ONLY <2>1
    <2> QED BY <2>2 DEF n, n1, n2
  <1>10. Extends(c, d)
    BY <1>3, <1>4, <1>5 DEF Extends
  <1>11. \A k \in DOMAIN c2 : k \in DOMAIN c \/ k = Len(c) + 1 \/ k = Len(c) + 2
    BY <1>6, <1>9
  <1>12. Span(d, Len(c) + 1, L, Len(c) + 2)
    <2>1. Extends(c1, d)
      BY <1>4, <1>5 DEF Extends
    <2>2. Span(c1, Len(c) + 1, L, Len(c) + 2)
      BY <1>3, <1>9
    <2> QED BY ONLY <2>1, <2>2, SpanKept
  <1>13. Len(c) + 2 \in DOMAIN d /\ d[Len(c) + 2] = RunItem(b)
    BY <1>5, <1>8, <1>9 DEF Extends
  <1>14. \A k \in DOMAIN d : Comes(c, d, x, k)
    BY <1>5, <1>11 DEF Comes
  <1> QED BY <1>5, <1>9, <1>10, <1>12, <1>13, <1>14 DEF L

LEMMA HeadFacts ==
    ASSUME NEW q \in Seq(Blocks), q # << >>, Distinct(q)
    PROVE  /\ Head(q) \in Elements(q) /\ Head(q) \in Blocks
           /\ Tail(q) \in Seq(Blocks) /\ Distinct(Tail(q))
           /\ Elements(Tail(q)) = Elements(q) \ {Head(q)}
           /\ ComesNext(Tail(q)) = IF Tail(q) = << >> THEN None ELSE q[2]
  <1> DEFINE t == Tail(q)
  <1>1. /\ Len(q) \in Nat /\ Len(q) > 0 /\ DOMAIN q = 1..Len(q) /\ Head(q) = q[1]
        /\ 1 \in DOMAIN q /\ \A i \in DOMAIN q : q[i] \in Blocks
    OBVIOUS
  <1>2. t \in Seq(Blocks) /\ Len(t) = Len(q) - 1 /\ \A i \in 1..(Len(q) - 1) : t[i] = q[i + 1]
    OBVIOUS
  <1>3. DOMAIN t = 1..(Len(q) - 1)
    BY <1>2
  <1> HIDE DEF t
  <1>4. \A i \in DOMAIN t : i + 1 \in DOMAIN q /\ t[i] = q[i + 1] /\ i + 1 # 1 /\ i \in Nat
    BY <1>1, <1>2, <1>3
  <1>5. Distinct(t)
    BY <1>4 DEF Distinct
  <1>6. \A i \in DOMAIN q : i = 1 \/ (i - 1 \in DOMAIN t /\ i - 1 + 1 = i)
    BY <1>1, <1>3
  <1>7. Elements(t) = Elements(q) \ {q[1]}
    <2>1. \A i \in DOMAIN t : t[i] \in Elements(q) /\ t[i] # q[1]
      BY <1>1, <1>4 DEF Elements, Distinct
    <2>2. \A i \in DOMAIN q : q[i] # q[1] => q[i] \in Elements(t)
      BY <1>4, <1>6 DEF Elements
    <2>3. Elements(t) \subseteq Elements(q) \ {q[1]}
      BY <2>1 DEF Elements
    <2>4. Elements(q) \ {q[1]} \subseteq Elements(t)
      BY <2>2 DEF Elements
    <2> QED BY <2>3, <2>4
  <1>8. ComesNext(t) = IF t = << >> THEN None ELSE q[2]
    <2>1. t # << >> => Head(t) = q[2]
      BY <1>1, <1>2
    <2> QED BY <2>1 DEF ComesNext
  <1>9. Head(q) \in Elements(q)
    BY <1>1 DEF Elements
  <1> QED BY <1>1, <1>2, <1>5, <1>7, <1>8, <1>9 DEF t

(* The terminator that waited for its next block has it now.                *)
LEMMA PendingLeads ==
    ASSUME graph \in Graphs, NEW c, NEW d \in Seq(Items), Extends(c, d),
           NEW next \in Blocks \cup {None},
           IF next = None THEN Ends(d, Len(c) + 1) ELSE Enters(d, Len(c) + 1, next),
           NEW k \in DOMAIN c, c[k].op = "run", Routed(c, k) \/ LastOf(c, k, next)
    PROVE  Routed(d, k)
  <1>1. k \in DOMAIN d /\ d[k] = c[k] /\ DOMAIN d \subseteq Nat
    BY DEF Extends
  <1>2. CASE Routed(c, k)
    <2>1. /\ \A e, w : Routes(c, graph.moves, k + 1, e, w) => Routes(d, graph.moves, k + 1, e, w)
          /\ Ends(c, k + 1) => Ends(d, k + 1)
      BY Longer
    <2> QED BY <1>1, <1>2, <2>1 DEF Routed
  <1>3. CASE LastOf(c, k, next)
    <2> DEFINE b == c[k].block
    <2>1. b \in Blocks /\ Span(d, k + 1, Terminator(b, next), Len(c) + 1)
      BY <1>3, SpanKept DEF LastOf
    <2>2. d[k].block = b
      BY <1>1
    <2> HIDE DEF b
    <2>3. IF Targets(b) = << >> THEN Ends(d, k + 1)
          ELSE \A w \in BOOLEAN : Routes(d, graph.moves, k + 1, Taken(b, w), w)
      BY <1>1, <2>1, TerminatorLeads
    <2> QED BY <2>1, <2>2, <2>3 DEF Routed
  <1> QED BY <1>2, <1>3

LEMMA EmitBlockWrites ==
    ASSUME graph \in Graphs, ToEmit \subseteq Blocks,
           \A b \in ToEmit : Elements(Targets(b)) \subseteq ToEmit,
           NEW c, NEW q, Queue(q), Written(c, q), q # << >>,
           NEW d, d = c \o Label(Of(Head(q))) \o Run(Head(q))
                        \o Terminator(Head(q), ComesNext(Tail(q)))
    PROVE  Queue(Tail(q)) /\ Written(d, Tail(q))
  <1> DEFINE b == Head(q)
             next == ComesNext(Tail(q))
             T == Terminator(b, next)
  <1>1. /\ b \in Elements(q) /\ b \in Blocks /\ Tail(q) \in Seq(Blocks) /\ Distinct(Tail(q))
        /\ Elements(Tail(q)) = Elements(q) \ {b} /\ Elements(q) \subseteq ToEmit
    BY HeadFacts DEF Queue
  <1>2. next \in Blocks \cup {None}
    BY <1>1 DEF ComesNext
  <1>3. Queue(Tail(q)) /\ Emitted(Tail(q)) = Emitted(q) \cup {b} /\ b \notin Emitted(q)
    BY <1>1 DEF Queue, Emitted
  <1>4. d = c \o Label(Of(b)) \o Run(b) \o T
    OBVIOUS
  <1> HIDE DEF b, next
  <1>5. PICK n \in SUBSET {EdgeFrom(b)} : \E a :
           Part(T, n, a) /\ a \subseteq {Of(t) : t \in Elements(Targets(b))} \cup {ReturnLabel} \cup n
    <2>1. graph \in Graphs /\ b \in Blocks
      BY <1>1
    <2>2. \E n \in SUBSET {EdgeFrom(b)} : \E a :
             /\ Part(Terminator(b, next), n, a)
             /\ a \subseteq {Of(t) : t \in Elements(Targets(b))} \cup {ReturnLabel} \cup n
      BY ONLY <1>2, <2>1, TerminatorParts
    <2> QED BY <2>2
  <1>6. PICK a :
           Part(T, n, a) /\ a \subseteq {Of(t) : t \in Elements(Targets(b))} \cup {ReturnLabel} \cup n
    BY <1>5
  <1> HIDE DEF T
  <1> DEFINE m == Names(c)
             e == Aims(c)
             N == {FrameLabel, FastLabel} \cup {Of(x) : x \in Emitted(q)}
                    \cup {EdgeFrom(x) : x \in Emitted(q)}
  <1>7. Part(c, m, e) /\ m \subseteq N
    BY DEF Written, Part
  <1>8. {Of(x) : x \in Emitted(q)} \subseteq m
        /\ e \subseteq m \cup {ReturnLabel} \cup {Of(x) : x \in ToEmit}
    BY DEF Written
  <1> HIDE DEF m, e
  <1>9. Of(b) \notin N /\ EdgeFrom(b) \notin N \cup {Of(b)}
    BY <1>3, LabelSorts
  <1>10. Part(Label(Of(b)), {Of(b)}, {}) /\ Part(Run(b), {}, {})
    <2>1. Of(b) \in LabelNames
      BY <1>1 DEF Of, LabelNames
    <2> QED BY <1>1, <2>1, PieceFacts
  <1> DEFINE c1 == c \o Label(Of(b))
             c2 == c1 \o Run(b)
             names == m \cup {Of(b)}
  <1>11. Part(c1, names, e \cup {})
    <2>1. m \cap {Of(b)} = {}
      BY <1>7, <1>9
    <2> QED BY <1>7, <1>10, <2>1, PartsJoin
  <1>12. d = c2 \o T
    BY <1>4
  <1> HIDE DEF c1, names
  <1>13. Part(c2, names \cup {}, e \cup {} \cup {})
    <2>1. names \cap {} = {}
      OBVIOUS
    <2> QED BY <1>10, <1>11, <2>1, PartsJoin
  <1> HIDE DEF c2
  <1>14. Part(d, names \cup n, e \cup a)
    <2>1. Part(c2, names, e)
      <3>1. names \cup {} = names /\ e \cup {} \cup {} = e
        OBVIOUS
      <3> QED BY <1>13, <3>1
    <2>2. names \cap n = {}
      BY <1>5, <1>7, <1>9 DEF names
    <2>3. Part(T, n, a)
      BY <1>6
    <2>4. Part(c2 \o T, names \cup n, e \cup a)
      BY ONLY <2>1, <2>2, <2>3, PartsJoin
    <2> QED BY <1>12, <2>4
  <1>15. d \in Seq(Items) /\ Tidy(d) /\ Names(d) = names \cup n /\ Aims(d) = e \cup a
    BY <1>14 DEF Part
  <1>16. Names(d) \subseteq {FrameLabel, FastLabel} \cup {Of(x) : x \in Emitted(Tail(q))}
                              \cup {EdgeFrom(x) : x \in Emitted(Tail(q))}
    BY <1>3, <1>5, <1>7, <1>15 DEF names
  <1>17. {Of(x) : x \in Emitted(Tail(q))} \subseteq Names(d)
    BY <1>3, <1>8, <1>15 DEF names
  <1>18. Aims(d) \subseteq Names(d) \cup {ReturnLabel} \cup {Of(x) : x \in ToEmit}
    <2>1. \A t \in Elements(Targets(b)) : t \in ToEmit
      BY <1>1
    <2>2. a \subseteq {Of(x) : x \in ToEmit} \cup {ReturnLabel} \cup n
      BY <1>6, <2>1
    <2> QED BY <1>8, <1>15, <2>2 DEF names
  <1> QED BY <1>3, <1>15, <1>16, <1>17, <1>18 DEF Written

LEMMA EmitBlockLeads ==
    ASSUME graph \in Graphs, NEW c, NEW q, Queue(q), Written(c, q), Leading(c, q), q # << >>,
           NEW d, d = c \o Label(Of(Head(q))) \o Run(Head(q))
                        \o Terminator(Head(q), ComesNext(Tail(q)))
    PROVE  Leading(d, Tail(q))
  <1> DEFINE b == Head(q)
             next == ComesNext(Tail(q))
             T == Terminator(b, next)
  <1>1. b \in Blocks /\ Tail(q) \in Seq(Blocks) /\ ComesNext(q) = b /\ c \in Seq(Items)
    BY HeadFacts DEF Queue, Written, ComesNext
  <1>2. next \in Blocks \cup {None} /\ None \notin Blocks
    <2>1. None \notin Blocks
      BY GraphFacts DEF None
    <2>2. next \in Blocks \cup {None}
      BY <1>1 DEF ComesNext
    <2> QED BY <2>1, <2>2
  <1>3. d = c \o Label(Of(b)) \o Run(b) \o T
    OBVIOUS
  <1> HIDE DEF b, next
  <1>4. PICK n \in SUBSET {EdgeFrom(b)} : \E a : NoRun(T) /\ Part(T, n, a)
    BY <1>1, <1>2, TerminatorParts
  <1>5. T \in Seq(Items) /\ Names(T) = n /\ NoRun(T)
    BY <1>4 DEF Part
  <1>6. T = Terminator(b, next)
    OBVIOUS
  <1> HIDE DEF T
  <1>7. /\ d \in Seq(Items) /\ Extends(c, d)
        /\ Len(c) + 1 \in DOMAIN d /\ d[Len(c) + 1] = LabelItem(Of(b))
        /\ Len(c) + 2 \in DOMAIN d /\ d[Len(c) + 2] = RunItem(b)
        /\ Span(d, Len(c) + 3, T, Len(d) + 1)
        /\ \A k \in DOMAIN d : Comes(c, d, T, k)
    <2>1. c \in Seq(Items) /\ b \in Blocks /\ T \in Seq(Items)
      BY <1>1, <1>5
    <2>2. d = c \o Label(Of(b)) \o Run(b) \o T
      BY <1>3
    <2>3. d \in Seq(Items) /\ Extends(c, d)
      BY ONLY <2>1, <2>2, BlockAppended
    <2>6. Span(d, Len(c) + 1, Label(Of(b)), Len(c) + 2)
      BY ONLY <2>1, <2>2, BlockAppended
    <2>8. Len(c) + 1 \in DOMAIN d /\ d[Len(c) + 1] = LabelItem(Of(b))
      <3> DEFINE m == Len(c) + 1
      <3>1. Span(d, m, Label(Of(b)), Len(c) + 2)
        BY <2>6
      <3> HIDE DEF m
      <3>2. m \in DOMAIN d /\ d[m] = LabelItem(Of(b))
        BY ONLY <3>1, SpanLabel
      <3> QED BY <3>2 DEF m
    <2>7. Len(c) + 2 \in DOMAIN d /\ d[Len(c) + 2] = RunItem(b)
      BY ONLY <2>1, <2>2, BlockAppended
    <2>4. Span(d, Len(c) + 3, T, Len(d) + 1)
      BY ONLY <2>1, <2>2, BlockAppended
    <2>5. \A k \in DOMAIN d : Comes(c, d, T, k)
      BY ONLY <2>1, <2>2, BlockAppended
    <2> QED BY <2>3, <2>4, <2>5, <2>7, <2>8
  <1>8. DOMAIN d \subseteq Nat /\ Len(c) \in Nat /\ DOMAIN c = 1..Len(c)
    <2>1. c \in Seq(Items) /\ d \in Seq(Items)
      BY <1>1, <1>7
    <2> QED BY ONLY <2>1
  <1>9. Len(c) + 1 + 1 = Len(c) + 2 /\ Len(c) + 2 + 1 = Len(c) + 3
    <2> DEFINE z == Len(c)
    <2>1. z \in Nat
      BY <1>8
    <2> HIDE DEF z
    <2>2. z + 1 + 1 = z + 2 /\ z + 2 + 1 = z + 3
      BY ONLY <2>1
    <2> QED BY <2>2 DEF z
  <1>10. Enters(d, Len(c) + 1, b)
    <2>1. Enters(d, Len(c) + 1 + 1, b)
      BY <1>7, <1>8, <1>9, Backwards
    <2>2. Passed(d[Len(c) + 1])
      BY <1>7, Kinds
    <2> QED BY <1>7, <1>8, <2>1, <2>2, Backwards
  <1>11. Labelled(d)
    <2> SUFFICES ASSUME NEW x \in Blocks, NEW i \in DOMAIN d, d[i] = LabelItem(Of(x))
                 PROVE  i + 1 \in DOMAIN d /\ d[i + 1] = RunItem(x)
      BY DEF Labelled
    <2>1. d[i].op = "label" /\ d[i].to = Of(x)
      BY Kinds
    <2>2. CASE i \in DOMAIN c
      <3>1. c[i] = LabelItem(Of(x))
        BY <1>7, <2>2 DEF Extends
      <3>2. i + 1 \in DOMAIN c /\ c[i + 1] = RunItem(x)
        BY <2>2, <3>1 DEF Leading, Labelled
      <3> QED BY <1>7, <3>2 DEF Extends
    <2>3. CASE i = Len(c) + 1
      <3>1. d[i] = LabelItem(Of(b))
        BY <1>7, <2>3
      <3>2. d[i].to = Of(b)
        BY ONLY <3>1, Kinds
      <3>3. x = b
        BY ONLY <2>1, <3>2, LabelSorts
      <3> QED BY <1>7, <1>9, <2>3, <3>3
    <2>4. CASE i = Len(c) + 2
      <3>1. d[i].op = "run"
        BY <1>7, <2>4, Kinds
      <3> QED BY <2>1, <3>1
    <2>5. ASSUME NEW m \in DOMAIN T, d[i] = T[m]
          PROVE  FALSE
      <3>1. Of(x) \in n
        BY <1>5, <2>1, <2>5, NameFacts
      <3> QED BY <1>4, <3>1, LabelSorts
    <2>6. Comes(c, d, T, i)
      BY <1>7
    <2>7. \/ i \in DOMAIN c \/ i = Len(c) + 1 \/ i = Len(c) + 2
          \/ \E m \in DOMAIN T : d[i] = T[m]
      BY ONLY <2>6 DEF Comes
    <2> QED BY ONLY <2>2, <2>3, <2>4, <2>5, <2>7
  <1>12. ASSUME NEW k \in DOMAIN d, d[k].op = "run"
         PROVE  Routed(d, k) \/ LastOf(d, k, next)
    <2>1. CASE k \in DOMAIN c
      <3>1. c[k].op = "run" /\ (Routed(c, k) \/ LastOf(c, k, b))
        BY <1>1, <1>7, <1>12, <2>1 DEF Leading, Extends
      <3> QED BY <1>1, <1>2, <1>7, <1>10, <2>1, <3>1, PendingLeads
    <2>2. CASE k = Len(c) + 1
      <3>1. d[k] = LabelItem(Of(b))
        BY <1>7, <2>2
      <3>2. d[k].op = "label"
        BY <3>1, Kinds
      <3> QED BY <1>12, <3>2
    <2>3. CASE k = Len(c) + 2
      <3>1. d[k] = RunItem(b)
        BY <1>7, <2>3
      <3>2. d[k].block = b
        BY ONLY <3>1, Kinds
      <3> QED BY <1>1, <1>6, <1>7, <1>9, <2>3, <3>2 DEF LastOf
    <2>4. ASSUME NEW m \in DOMAIN T, d[k] = T[m]
          PROVE  FALSE
      BY <1>5, <1>12, <2>4 DEF NoRun
    <2> QED BY <1>7, <2>1, <2>2, <2>3, <2>4 DEF Comes
  <1>13. d # << >> /\ Enters(d, 1, Entry)
    <2>1. CASE c = << >>
      <3>1. b = Entry /\ Len(c) = 0
        BY <2>1 DEF Leading, b
      <3> QED BY <1>7, <1>10, <3>1
    <2>2. CASE c # << >>
      <3>1. Enters(c, 1, Entry)
        BY <2>2 DEF Leading
      <3>2. Enters(d, 1, Entry)
        <4>1. Extends(c, d)
          BY <1>7
        <4> QED BY ONLY <3>1, <4>1, Longer
      <3>3. d # << >>
        BY <1>7
      <3> QED BY <3>2, <3>3
    <2> QED BY <2>1, <2>2
  <1> QED BY <1>11, <1>12, <1>13 DEF Leading, next

-----------------------------------------------------------------------------
(* The finished code.                                                       *)
Finished(c) ==
    /\ c \in Seq(Items) /\ Tidy(c) /\ Aims(c) \subseteq Names(c)
    /\ Labelled(c)
    /\ \A i \in DOMAIN c :
          c[i] = LabelItem(ReturnLabel) => i + 1 \in DOMAIN c /\ c[i + 1] = RetItem
    /\ \A k \in DOMAIN c : c[k].op = "run" => Routed(c, k)
    /\ Enters(c, 1, Entry)

LEMMA EpilogueFinishes ==
    ASSUME graph \in Graphs, NEW c, Written(c, << >>), Leading(c, << >>),
           NEW d, d = c \o Label(ReturnLabel) \o Ret
    PROVE  Finished(d)
  <1> DEFINE L == Label(ReturnLabel)
             c1 == c \o L
             m == Names(c)
             e == Aims(c)
  <1>1. /\ c \in Seq(Items) /\ Part(c, m, e)
        /\ m \subseteq {FrameLabel, FastLabel} \cup {Of(b) : b \in ToEmit} \cup {EdgeFrom(b) : b \in ToEmit}
        /\ {Of(b) : b \in ToEmit} \subseteq m
        /\ e \subseteq m \cup {ReturnLabel}
    <2>1. Emitted(<< >>) = ToEmit
      BY DEF Emitted, Elements
    <2>2. c \in Seq(Items) /\ Part(c, m, e)
      BY DEF Written, Part
    <2> QED BY <2>1, <2>2 DEF Written
  <1>2. L \in Seq(Items) /\ Ret \in Seq(Items) /\ Part(L, {ReturnLabel}, {}) /\ Part(Ret, {}, {})
    <2>1. ReturnLabel \in LabelNames
      BY DEF ReturnLabel, LabelNames
    <2> QED BY <2>1, PieceFacts DEF Part
  <1>3. d = c1 \o Ret
    OBVIOUS
  <1> HIDE DEF L, m, e
  <1>4. Part(c1, m \cup {ReturnLabel}, e \cup {})
    <2>1. m \cap {ReturnLabel} = {}
      BY <1>1, LabelSorts
    <2> QED BY <1>1, <1>2, <2>1, PartsJoin
  <1>5. /\ c1 \in Seq(Items) /\ Extends(c, c1) /\ Span(c1, Len(c) + 1, L, Len(c1) + 1)
        /\ \A k \in DOMAIN c1 : k \in DOMAIN c \/ \E x \in DOMAIN L : c1[k] = L[x]
    BY <1>1, <1>2, Appended
  <1> HIDE DEF c1
  <1>6. Part(d, m \cup {ReturnLabel}, e)
    <2> DEFINE n == m \cup {ReturnLabel}
    <2>1. Part(c1, n, e) /\ n \cap {} = {} /\ n \cup {} = n /\ e \cup {} = e
      BY <1>4
    <2> HIDE DEF n
    <2>2. Part(c1 \o Ret, n \cup {}, e \cup {})
      BY ONLY <1>2, <2>1, PartsJoin
    <2> QED BY <1>3, <2>1, <2>2 DEF n
  <1>7. d \in Seq(Items) /\ Tidy(d) /\ Names(d) = m \cup {ReturnLabel} /\ Aims(d) = e
    BY <1>6 DEF Part
  <1>8. Aims(d) \subseteq Names(d)
    BY <1>1, <1>7
  <1>9. /\ Extends(c1, d) /\ Span(d, Len(c1) + 1, Ret, Len(d) + 1)
        /\ \A k \in DOMAIN d : k \in DOMAIN c1 \/ \E x \in DOMAIN Ret : d[k] = Ret[x]
    BY <1>2, <1>3, <1>5, Appended
  <1>10. DOMAIN d \subseteq Nat /\ DOMAIN c \subseteq Nat
    BY <1>1, <1>7
  <1> DEFINE p == Len(c) + 1
             q == Len(c1) + 1
  <1>11. Span(c1, p, L, q) /\ Span(d, q, Ret, Len(d) + 1) /\ p = Len(c) + 1
    BY <1>5, <1>9
  <1> HIDE DEF p, q
  <1>12. q = p + 1 /\ p \in DOMAIN c1 /\ c1[p] = LabelItem(ReturnLabel)
    BY <1>11, SpanLabel DEF L
  <1>13. q \in DOMAIN d /\ d[q] = RetItem
    BY <1>11, SpanRet
  <1>14. p \in DOMAIN d /\ d[p] = LabelItem(ReturnLabel) /\ Extends(c, d)
    BY <1>5, <1>9, <1>12 DEF Extends
  <1>15. /\ \A x \in DOMAIN L : L[x] = LabelItem(ReturnLabel)
         /\ \A x \in DOMAIN Ret : Ret[x] = RetItem
    BY DEF L, Label, LabelItem, Ret, RetItem
  <1>16. \A k \in DOMAIN d : (k \in DOMAIN c /\ d[k] = c[k]) \/ d[k] = LabelItem(ReturnLabel) \/ d[k] = RetItem
    <2> TAKE k \in DOMAIN d
    <2>1. CASE k \in DOMAIN c
      BY <1>14, <2>1 DEF Extends
    <2>2. CASE k \in DOMAIN c1 /\ \E x \in DOMAIN L : c1[k] = L[x]
      BY <1>9, <1>15, <2>2 DEF Extends
    <2>3. CASE \E x \in DOMAIN Ret : d[k] = Ret[x]
      BY <1>15, <2>3
    <2> QED BY <1>5, <1>9, <2>1, <2>2, <2>3
  <1>17. Labelled(d)
    <2> SUFFICES ASSUME NEW b \in Blocks, NEW i \in DOMAIN d, d[i] = LabelItem(Of(b))
                 PROVE  i + 1 \in DOMAIN d /\ d[i + 1] = RunItem(b)
      BY DEF Labelled
    <2>1. d[i].op = "label" /\ d[i].to = Of(b)
      BY Kinds
    <2>2. d[i] # RetItem /\ d[i] # LabelItem(ReturnLabel)
      BY <2>1, Kinds, LabelSorts
    <2>3. i \in DOMAIN c /\ c[i] = LabelItem(Of(b))
      BY <1>16, <2>2
    <2>4. i + 1 \in DOMAIN c /\ c[i + 1] = RunItem(b)
      BY <2>3 DEF Leading, Labelled
    <2> QED BY <1>14, <2>4 DEF Extends
  <1>18. ASSUME NEW i \in DOMAIN d, d[i] = LabelItem(ReturnLabel)
         PROVE  i + 1 \in DOMAIN d /\ d[i + 1] = RetItem
    <2>1. i = p
      <3>1. d[i].op = "label" /\ d[p].op = "label" /\ d[i].to = d[p].to
        BY <1>14, <1>18, Kinds
      <3> QED BY <1>7, <1>14, <3>1 DEF Tidy
    <2> QED BY <1>12, <1>13, <2>1
  <1>19. ASSUME NEW k \in DOMAIN d, d[k].op = "run"
         PROVE  Routed(d, k)
    <2>1. k \in DOMAIN c /\ c[k].op = "run"
      BY <1>16, <1>19, Kinds
    <2>2. Routed(c, k) \/ LastOf(c, k, None)
      BY <2>1 DEF Leading, ComesNext
    <2>3. Ends(d, p)
      <3>1. Ends(d, p + 1)
        BY <1>10, <1>12, <1>13, Backwards
      <3>2. p \in DOMAIN d /\ Passed(d[p])
        BY <1>14, Kinds
      <3> QED BY ONLY <1>10, <3>1, <3>2, Backwards
    <2>4. IF None = None THEN Ends(d, Len(c) + 1) ELSE Enters(d, Len(c) + 1, None)
      BY <1>11, <2>3
    <2>5. None \in Blocks \cup {None}
      OBVIOUS
    <2> QED BY ONLY graph \in Graphs, <1>7, <1>14, <2>1, <2>2, <2>4, <2>5, PendingLeads
  <1>20. Enters(d, 1, Entry)
    <2>1. Enters(c, 1, Entry)
      BY DEF Leading
    <2> QED BY ONLY <1>14, <2>1, Longer
  <1> QED BY <1>7, <1>8, <1>17, <1>18, <1>19, <1>20 DEF Finished

-----------------------------------------------------------------------------
(* Running the code.                                                        *)

(* What a place says of itself and of the next one.                         *)
LEMMA Stands ==
    ASSUME NEW c, DOMAIN c \subseteq Nat, NEW M, NEW i
    PROVE  /\ \A t : Enters(c, i, t) =>
                 /\ i \in DOMAIN c
                 /\ IF Passed(c[i]) THEN Enters(c, i + 1, t) ELSE c[i] \in {RunItem(t), JumpItem(Of(t))}
           /\ Ends(c, i) =>
                 /\ i \in DOMAIN c
                 /\ IF Passed(c[i]) THEN Ends(c, i + 1) ELSE c[i] \in {RetItem, JumpItem(ReturnLabel)}
  <1>1. \A j : Onto(c, i, j) => /\ i \in DOMAIN c /\ j \in DOMAIN c
                                /\ ~Passed(c[i]) => j = i
                                /\ Passed(c[i]) /\ ~Passed(c[j]) => Onto(c, i + 1, j)
    BY OntoFacts
  <1>2. \A t : ~Passed(RunItem(t)) /\ ~Passed(JumpItem(t))
    BY Kinds
  <1>3. ASSUME NEW t, Enters(c, i, t)
        PROVE  /\ i \in DOMAIN c
               /\ IF Passed(c[i]) THEN Enters(c, i + 1, t) ELSE c[i] \in {RunItem(t), JumpItem(Of(t))}
    <2>1. PICK j : Onto(c, i, j) /\ c[j] \in {RunItem(t), JumpItem(Of(t))}
      BY <1>3 DEF Enters
    <2>2. ~Passed(c[j])
      BY <1>2, <2>1
    <2> QED BY <1>1, <2>1, <2>2 DEF Enters
  <1>4. ASSUME Ends(c, i)
        PROVE  /\ i \in DOMAIN c
               /\ IF Passed(c[i]) THEN Ends(c, i + 1) ELSE c[i] \in {RetItem, JumpItem(ReturnLabel)}
    <2>1. PICK j : Onto(c, i, j) /\ c[j] \in {RetItem, JumpItem(ReturnLabel)}
      BY <1>4 DEF Ends
    <2>2. ~Passed(c[j])
      BY <1>2, <2>1, Kinds
    <2> QED BY <1>1, <2>1, <2>2 DEF Ends
  <1> QED BY <1>3, <1>4

LEMMA StandsWithMoves ==
    ASSUME NEW c, DOMAIN c \subseteq Nat, NEW M, NEW i, NEW e, Delivers(c, M, i, e)
    PROVE  /\ i \in DOMAIN c
           /\ IF Passed(c[i]) THEN Delivers(c, M, i + 1, e)
              ELSE IF e \in M THEN c[i] = MovesItem(e) /\ Enters(c, i + 1, e[2])
              ELSE c[i] \in {RunItem(e[2]), JumpItem(Of(e[2]))}
  <1>1. CASE e \in M
    <2>1. PICK j : Onto(c, i, j) /\ c[j] = MovesItem(e) /\ Enters(c, j + 1, e[2])
      BY <1>1 DEF Delivers
    <2>2. ~Passed(c[j])
      BY <2>1, Kinds
    <2>3. /\ i \in DOMAIN c /\ j \in DOMAIN c
          /\ ~Passed(c[i]) => j = i
          /\ Passed(c[i]) /\ ~Passed(c[j]) => Onto(c, i + 1, j)
      BY <2>1, OntoFacts
    <2> QED BY <1>1, <2>1, <2>2, <2>3 DEF Delivers
  <1>2. CASE e \notin M
    <2>1. Enters(c, i, e[2])
      BY <1>2 DEF Delivers
    <2>2. /\ i \in DOMAIN c
          /\ IF Passed(c[i]) THEN Enters(c, i + 1, e[2]) ELSE c[i] \in {RunItem(e[2]), JumpItem(Of(e[2]))}
      BY <2>1, Stands
    <2> QED BY <1>2, <2>2 DEF Delivers
  <1> QED BY <1>1, <1>2

(* What the code ahead of place i does: the block b ran last and left the   *)
(* condition w, and the moves made since are made.                          *)
Running(c, i, b, w, made) ==
    \/ b = 0 /\ made = << >> /\ Enters(c, i, Entry)
    \/ b \in Blocks /\ Targets(b) = << >> /\ made = << >> /\ Ends(c, i)
    \/ /\ b \in Blocks /\ Targets(b) # << >> /\ made = << >>
       /\ Routes(c, graph.moves, i, Taken(b, w), w)
    \/ /\ b \in Blocks /\ Targets(b) # << >>
       /\ Taken(b, w) \in graph.moves /\ made = <<Taken(b, w)>>
       /\ Enters(c, i, Taken(b, w)[2])

LEMMA OnPlace ==
    ASSUME NEW c, DOMAIN c \subseteq Nat, NEW i, NEW b, NEW w, NEW made, Running(c, i, b, w, made)
    PROVE  i \in DOMAIN c
  <1>1. \A t : Enters(c, i, t) => i \in DOMAIN c
    BY Stands
  <1>2. Ends(c, i) => i \in DOMAIN c
    BY Stands
  <1>3. \A M, e : Delivers(c, M, i, e) => i \in DOMAIN c
    BY StandsWithMoves
  <1>4. \A M, e : Routes(c, M, i, e, w) => i \in DOMAIN c
    BY <1>3 DEF Routes, Heads
  <1> QED BY <1>1, <1>2, <1>4 DEF Running

(* At a block's instructions: it is the entry, or the block that the        *)
(* terminator of the last one selects, with the moves of the edge made.     *)
LEMMA OnRun ==
    ASSUME NEW c, DOMAIN c \subseteq Nat, NEW i, NEW b, NEW w, NEW made, Running(c, i, b, w, made),
           c[i].op = "run"
    PROVE  \/ b = 0 /\ made = << >> /\ c[i].block = Entry
           \/ /\ b \in Blocks /\ Targets(b) # << >> /\ c[i].block = Taken(b, w)[2]
              /\ made = IF Taken(b, w) \in graph.moves THEN <<Taken(b, w)>> ELSE << >>
  <1>1. i \in DOMAIN c /\ ~Passed(c[i])
    BY OnPlace DEF Passed
  <1>2. \A t : Enters(c, i, t) => c[i].block = t
    <2> SUFFICES ASSUME NEW t, Enters(c, i, t)
                 PROVE  c[i].block = t
      OBVIOUS
    <2>1. c[i] \in {RunItem(t), JumpItem(Of(t))}
      BY <1>1, Stands
    <2> QED BY <2>1, Kinds
  <1>3. ~Ends(c, i)
    <2> SUFFICES ASSUME Ends(c, i)
                 PROVE  FALSE
      OBVIOUS
    <2>1. c[i] \in {RetItem, JumpItem(ReturnLabel)}
      BY <1>1, Stands
    <2> QED BY <2>1, Kinds
  <1>4. ASSUME NEW M, NEW e, Delivers(c, M, i, e)
        PROVE  e \notin M /\ c[i].block = e[2]
    <2>1. IF e \in M THEN c[i] = MovesItem(e) ELSE c[i] \in {RunItem(e[2]), JumpItem(Of(e[2]))}
      BY <1>1, <1>4, StandsWithMoves
    <2> QED BY <2>1, Kinds
  <1>5. \A M, e : Routes(c, M, i, e, w) => e \notin M /\ c[i].block = e[2]
    BY <1>4 DEF Routes, Heads
  <1> QED BY <1>2, <1>3, <1>5 DEF Running

LEMMA OnPassed ==
    ASSUME NEW c, DOMAIN c \subseteq Nat, NEW i, NEW b, NEW w, NEW made, Running(c, i, b, w, made),
           Passed(c[i])
    PROVE  Running(c, i + 1, b, w, made)
  <1>1. \A t : Enters(c, i, t) => Enters(c, i + 1, t)
    BY Stands
  <1>2. Ends(c, i) => Ends(c, i + 1)
    BY Stands
  <1>3. \A M, e : Delivers(c, M, i, e) => Delivers(c, M, i + 1, e)
    BY StandsWithMoves
  <1>4. \A M, e : Routes(c, M, i, e, w) => Routes(c, M, i + 1, e, w)
    <2>1. c[i].op # "jump" /\ c[i].op # "branch"
      BY DEF Passed
    <2> QED BY <1>3, <2>1 DEF Routes, Heads
  <1> QED BY <1>1, <1>2, <1>4 DEF Running

LEMMA OnMoves ==
    ASSUME NEW c, DOMAIN c \subseteq Nat, NEW i, NEW b, NEW w, NEW made, Running(c, i, b, w, made),
           c[i].op = "moves"
    PROVE  /\ c[i].edge \in graph.moves /\ made = << >>
           /\ Running(c, i + 1, b, w, Append(made, c[i].edge))
  <1>1. i \in DOMAIN c /\ ~Passed(c[i])
    BY OnPlace DEF Passed
  <1>2. ASSUME NEW t, Enters(c, i, t)
        PROVE  FALSE
    <2>1. c[i] \in {RunItem(t), JumpItem(Of(t))}
      BY <1>1, <1>2, Stands
    <2> QED BY <2>1, Kinds
  <1>3. ~Ends(c, i)
    <2> SUFFICES ASSUME Ends(c, i)
                 PROVE  FALSE
      OBVIOUS
    <2>1. c[i] \in {RetItem, JumpItem(ReturnLabel)}
      BY <1>1, Stands
    <2> QED BY <2>1, Kinds
  <1>4. ASSUME NEW M, NEW e, Delivers(c, M, i, e)
        PROVE  e \in M /\ c[i].edge = e /\ Enters(c, i + 1, e[2])
    <2>1. IF e \in M THEN c[i] = MovesItem(e) /\ Enters(c, i + 1, e[2])
          ELSE c[i] \in {RunItem(e[2]), JumpItem(Of(e[2]))}
      BY <1>1, <1>4, StandsWithMoves
    <2> QED BY <2>1, Kinds
  <1>5. \A M, e : Routes(c, M, i, e, w) => Delivers(c, M, i, e)
    BY DEF Routes, Heads
  <1>6. /\ b \in Blocks /\ Targets(b) # << >> /\ made = << >>
        /\ Delivers(c, graph.moves, i, Taken(b, w))
    BY <1>2, <1>3, <1>5 DEF Running
  <1> DEFINE e == Taken(b, w)
  <1> HIDE DEF e
  <1>7. e \in graph.moves /\ c[i].edge = e /\ Enters(c, i + 1, e[2])
    BY <1>4, <1>6 DEF e
  <1>8. Append(made, c[i].edge) = <<e>>
    BY <1>6, <1>7
  <1> QED BY <1>6, <1>7, <1>8 DEF Running, e

LEMMA OnRet ==
    ASSUME NEW c, DOMAIN c \subseteq Nat, NEW i, NEW b, NEW w, NEW made, Running(c, i, b, w, made),
           c[i].op = "ret"
    PROVE  b \in Blocks /\ Targets(b) = << >> /\ made = << >>
  <1>1. i \in DOMAIN c /\ ~Passed(c[i])
    BY OnPlace DEF Passed
  <1>2. ASSUME NEW t, Enters(c, i, t)
        PROVE  FALSE
    <2>1. c[i] \in {RunItem(t), JumpItem(Of(t))}
      BY <1>1, <1>2, Stands
    <2> QED BY <2>1, Kinds
  <1>3. ASSUME NEW M, NEW e, Delivers(c, M, i, e)
        PROVE  FALSE
    <2>1. IF e \in M THEN c[i] = MovesItem(e) ELSE c[i] \in {RunItem(e[2]), JumpItem(Of(e[2]))}
      BY <1>1, <1>3, StandsWithMoves
    <2> QED BY <2>1, Kinds
  <1>4. \A M, e : ~Routes(c, M, i, e, w)
    BY <1>3 DEF Routes, Heads
  <1> QED BY <1>2, <1>4 DEF Running

(* A label that is aimed at is written, once.                               *)
LEMMA TargetFacts ==
    ASSUME Finished(code), NEW l \in Aims(code)
    PROVE  /\ TargetOf(l) \in DOMAIN code
           /\ code[TargetOf(l)].op = "label" /\ code[TargetOf(l)].to = l
           /\ \A j \in DOMAIN code : code[j] = LabelItem(l) => j = TargetOf(l)
           /\ \A t \in Blocks : l = Of(t) => Enters(code, TargetOf(l), t)
           /\ l = ReturnLabel => Ends(code, TargetOf(l))
  <1> DEFINE j == TargetOf(l)
  <1>1. /\ code \in Seq(Items) /\ DOMAIN code \subseteq Nat /\ Tidy(code) /\ l \in Names(code)
        /\ Labelled(code)
        /\ \A i \in DOMAIN code :
              code[i] = LabelItem(ReturnLabel) => i + 1 \in DOMAIN code /\ code[i + 1] = RetItem
    BY DEF Finished
  <1>2. \E i \in DOMAIN code : code[i].op = "label" /\ code[i].to = l
    BY <1>1, NameFacts
  <1>3. j \in DOMAIN code /\ code[j].op = "label" /\ code[j].to = l
    BY <1>2 DEF TargetOf
  <1> HIDE DEF j
  <1>4. \A i \in DOMAIN code : code[i] = LabelItem(l) => i = j
    <2>1. \A i \in DOMAIN code : code[i] = LabelItem(l) => code[i].op = "label" /\ code[i].to = l
      BY Kinds
    <2> QED BY <1>1, <1>3, <2>1 DEF Tidy
  <1>5. code[j] = LabelItem(l)
    <2>1. code[j] \in Items
      BY <1>1, <1>3
    <2>2. PICK m \in LabelNames : code[j] = LabelItem(m)
      BY <1>3, <2>1, Kinds DEF Items
    <2>3. m = l
      BY <1>3, <2>2, Kinds
    <2> QED BY <2>2, <2>3
  <1>6. Passed(code[j])
    BY <1>5, Kinds
  <1>7. ASSUME NEW t \in Blocks, l = Of(t)
        PROVE  Enters(code, j, t)
    <2>1. j + 1 \in DOMAIN code /\ code[j + 1] = RunItem(t)
      BY <1>1, <1>3, <1>5, <1>7 DEF Labelled
    <2>2. Enters(code, j + 1, t)
      BY ONLY <1>1, <2>1, Backwards
    <2> QED BY ONLY <1>1, <1>3, <1>6, <2>2, Backwards
  <1>8. ASSUME l = ReturnLabel
        PROVE  Ends(code, j)
    <2>1. j + 1 \in DOMAIN code /\ code[j + 1] = RetItem
      BY <1>1, <1>3, <1>5, <1>8
    <2>2. Ends(code, j + 1)
      BY ONLY <1>1, <2>1, Backwards
    <2> QED BY ONLY <1>1, <1>3, <1>6, <2>2, Backwards
  <1> QED BY <1>3, <1>4, <1>7, <1>8 DEF j

(* The edge a block takes leads to a block.                                 *)
LEMMA TakenFacts ==
    ASSUME graph \in Graphs, NEW b \in Blocks, Targets(b) # << >>, NEW w \in BOOLEAN
    PROVE  /\ Taken(b, w)[1] = b /\ Taken(b, w)[2] \in Elements(Targets(b))
           /\ Taken(b, w)[2] \in Blocks
           /\ Taken(b, w) = <<b, Taken(b, w)[2]>>
  <1>1. Targets(b) \in Seq(Nat) /\ Elements(Targets(b)) \subseteq Blocks
    BY GraphAssumption, GraphFacts DEF WellFormed, Blocks, Targets
  <1>2. 1 \in DOMAIN Targets(b) /\ (Len(Targets(b)) = 2 => 2 \in DOMAIN Targets(b))
    BY <1>1
  <1>3. Targets(b)[1] \in Elements(Targets(b))
        /\ (Len(Targets(b)) = 2 => Targets(b)[2] \in Elements(Targets(b)))
    BY <1>2 DEF Elements
  <1> QED BY <1>1, <1>3 DEF Taken

LEMMA Landing ==
    ASSUME graph \in Graphs, Finished(code), NEW l \in Aims(code), NEW b \in Blocks, Targets(b) # << >>,
           NEW w \in BOOLEAN, Lands(code, graph.moves, l, Taken(b, w))
    PROVE  Running(code, TargetOf(l), b, w, << >>)
  <1> DEFINE j == TargetOf(l)
             e == Taken(b, w)
             M == graph.moves
  <1>1. /\ \A i \in DOMAIN code : code[i] = LabelItem(l) => i = j
        /\ \A t \in Blocks : l = Of(t) => Enters(code, j, t)
    BY TargetFacts
  <1>2. e[2] \in Blocks
    BY TakenFacts
  <1> HIDE DEF j, e
  <1>3. Delivers(code, M, j, e)
    <2>1. CASE l = Of(e[2]) /\ e \notin M
      BY <1>1, <1>2, <2>1 DEF Delivers
    <2>2. CASE \E i \in DOMAIN code : code[i] = LabelItem(l) /\ Delivers(code, M, i, e)
      BY <1>1, <2>2
    <2>3. Lands(code, M, l, e)
      BY DEF e
    <2> QED BY <2>1, <2>2, <2>3 DEF Lands
  <1>4. Routes(code, M, j, e, w)
    BY <1>3 DEF Routes, Heads
  <1> QED BY <1>4 DEF Running, j, e

LEMMA OnBranch ==
    ASSUME graph \in Graphs, Finished(code), NEW i, NEW b, NEW w \in BOOLEAN, NEW made,
           Running(code, i, b, w, made), code[i].op = "branch"
    PROVE  Running(code, IF w = code[i].when THEN TargetOf(code[i].to) ELSE i + 1, b, w, made)
  <1>1. DOMAIN code \subseteq Nat
    BY DEF Finished
  <1>2. i \in DOMAIN code /\ ~Passed(code[i])
    BY <1>1, OnPlace DEF Passed
  <1>3. ASSUME NEW t, Enters(code, i, t)
        PROVE  FALSE
    <2>1. code[i] \in {RunItem(t), JumpItem(Of(t))}
      BY <1>1, <1>2, <1>3, Stands
    <2> QED BY <2>1, Kinds
  <1>4. ~Ends(code, i)
    <2> SUFFICES ASSUME Ends(code, i)
                 PROVE  FALSE
      OBVIOUS
    <2>1. code[i] \in {RetItem, JumpItem(ReturnLabel)}
      BY <1>1, <1>2, Stands
    <2> QED BY <2>1, Kinds
  <1>5. ASSUME NEW M, NEW e, Delivers(code, M, i, e)
        PROVE  FALSE
    <2>1. IF e \in M THEN code[i] = MovesItem(e) ELSE code[i] \in {RunItem(e[2]), JumpItem(Of(e[2]))}
      BY <1>1, <1>2, <1>5, StandsWithMoves
    <2> QED BY <2>1, Kinds
  <1> DEFINE e == Taken(b, w)
             M == graph.moves
             l == code[i].to
  <1>6. /\ b \in Blocks /\ Targets(b) # << >> /\ made = << >>
        /\ Routes(code, M, i, e, w)
    BY <1>3, <1>4 DEF Running
  <1>7. l \in Aims(code)
    BY <1>2, NameFacts
  <1>8. IF w = code[i].when THEN Lands(code, M, l, e) ELSE Heads(code, M, i + 1, e)
    <2> HIDE DEF e, M
    <2> QED BY <1>5, <1>6 DEF Routes, Heads
  <1>9. CASE w = code[i].when
    <2>1. Running(code, TargetOf(l), b, w, << >>)
      BY <1>6, <1>7, <1>8, <1>9, Landing
    <2> QED BY <1>6, <1>9, <2>1
  <1>10. CASE w # code[i].when
    <2>1. Routes(code, M, i + 1, e, w)
      BY <1>8, <1>10 DEF Routes
    <2> QED BY <1>6, <1>10, <2>1 DEF Running
  <1> QED BY <1>9, <1>10

LEMMA OnJump ==
    ASSUME graph \in Graphs, Finished(code), NEW i, NEW b, NEW w \in BOOLEAN, NEW made,
           Running(code, i, b, w, made), code[i].op = "jump"
    PROVE  Running(code, TargetOf(code[i].to), b, w, made)
  <1> DEFINE l == code[i].to
             e == Taken(b, w)
             M == graph.moves
  <1>1. DOMAIN code \subseteq Nat
    BY DEF Finished
  <1>2. i \in DOMAIN code /\ ~Passed(code[i])
    BY <1>1, OnPlace DEF Passed
  <1>3. l \in Aims(code)
    BY <1>2, NameFacts
  <1>4. /\ \A t \in Blocks : l = Of(t) => Enters(code, TargetOf(l), t)
        /\ l = ReturnLabel => Ends(code, TargetOf(l))
    BY <1>3, TargetFacts
  <1>5. \A t : Enters(code, i, t) => l = Of(t)
    <2> SUFFICES ASSUME NEW t, Enters(code, i, t)
                 PROVE  l = Of(t)
      OBVIOUS
    <2>1. code[i] \in {RunItem(t), JumpItem(Of(t))}
      BY <1>1, <1>2, Stands
    <2> QED BY <2>1, Kinds
  <1>6. Ends(code, i) => l = ReturnLabel
    <2> SUFFICES ASSUME Ends(code, i)
                 PROVE  l = ReturnLabel
      OBVIOUS
    <2>1. code[i] \in {RetItem, JumpItem(ReturnLabel)}
      BY <1>1, <1>2, Stands
    <2> QED BY <2>1, Kinds
  <1>7. ASSUME NEW N, NEW f, Routes(code, N, i, f, w)
        PROVE  Lands(code, N, l, f)
    <2>1. CASE Delivers(code, N, i, f)
      <3>1. IF f \in N THEN code[i] = MovesItem(f) ELSE code[i] \in {RunItem(f[2]), JumpItem(Of(f[2]))}
        BY <1>1, <1>2, <2>1, StandsWithMoves
      <3>2. f \notin N /\ l = Of(f[2])
        BY <3>1, Kinds
      <3> QED BY <3>2 DEF Lands
    <2>2. code[i].op # "branch"
      OBVIOUS
    <2> QED BY <1>7, <2>1, <2>2 DEF Routes, Heads
  <1>8. Entry \in Blocks
    BY GraphFacts
  <1>9. CASE b = 0 /\ made = << >> /\ Enters(code, i, Entry)
    BY <1>4, <1>5, <1>8, <1>9 DEF Running
  <1>10. CASE b \in Blocks /\ Targets(b) = << >> /\ made = << >> /\ Ends(code, i)
    BY <1>4, <1>6, <1>10 DEF Running
  <1>11. CASE b \in Blocks /\ Targets(b) # << >> /\ made = << >> /\ Routes(code, M, i, e, w)
    <2>1. Lands(code, M, l, e)
      BY <1>7, <1>11
    <2>2. Running(code, TargetOf(l), b, w, << >>)
      BY <1>3, <1>11, <2>1, Landing
    <2> QED BY <1>11, <2>2
  <1>12. CASE b \in Blocks /\ Targets(b) # << >> /\ e \in M /\ made = <<e>> /\ Enters(code, i, e[2])
    <2>1. e[2] \in Blocks
      BY <1>12, TakenFacts
    <2>2. Enters(code, TargetOf(l), e[2])
      BY <1>4, <1>5, <1>12, <2>1
    <2> QED BY <1>12, <2>2 DEF Running
  <1> QED BY <1>9, <1>10, <1>11, <1>12 DEF Running

-----------------------------------------------------------------------------
(* The invariant of the code: it is written as far as the queue says, and   *)
(* then it leads on from wherever it is run.                                *)
Idle == block = 0 /\ performed = << >>
RunInv ==
    /\ Finished(code) /\ unemitted = << >>
    /\ Running(code, pc, block, cond, performed)
LayoutInv ==
    /\ Closed
    /\ phase \in {"plan", "rotate", "setup", "emit", "run", "returned"}
    /\ phase \in {"plan", "rotate", "setup"} => code = << >> /\ unemitted = << >> /\ Idle
    /\ phase = "emit" => Emitting /\ Idle
    /\ phase \in {"run", "returned"} => RunInv
    /\ block \in Blocks \cup {0} /\ cond \in BOOLEAN
    /\ block = 0 => arrived = << >>
    /\ Elements(arrived) \cup Elements(performed) \subseteq graph.moves

(* The order loses only blocks that no block of it leads to.                *)
LEMMA ClosedStays ==
    ASSUME IInv, Closed, [Next]_vars
    PROVE  Closed'
  <1>1. graph' = graph
    BY DEF Next, Plan, Rotate, Prune, Setup, EmitBlock, EmitEpilogue, RunBlock, PassItem,
       MakeMoves, FollowBranch, FollowJump, ReturnToCaller, Returned, vars
  <1>2. /\ Reachable \subseteq Blocks
        /\ \A b \in Reachable : Elements(Targets(b)) \subseteq Reachable
        /\ \A b \in Blocks : Elements(Targets(b)) \subseteq Blocks
    BY ReachableFacts, ReachableClosed, GraphFacts DEF IInv
  <1>3. \A b : Elements(Targets(b))' = Elements(Targets(b))
    BY <1>1 DEF Elements, Targets
  <1>4. CASE order' = order
    <2>1. Elements(order)' = Elements(order)
      BY <1>4 DEF Elements
    <2> QED BY <1>3, <2>1 DEF Closed
  <1>5. CASE Rotate
    <2>1. IInv' /\ phase' = "rotate" /\ Blocks' = Blocks
      BY <1>1, <1>5, RotateInvariant DEF Rotate, Blocks
    <2>2. Elements(order)' = Blocks
      BY <2>1 DEF IInv
    <2> QED BY <1>2, <1>3, <2>2 DEF Closed
  <1>6. CASE Prune
    <2>1. /\ order \in Seq(Blocks) /\ Distinct(order) /\ Elements(order) = Blocks
          /\ order' = Without(order, Blocks \ Reachable)
      BY <1>6 DEF IInv, Prune
    <2>2. Elements(order') = Elements(order) \ (Blocks \ Reachable)
      BY <2>1, WithoutFacts
    <2>3. Elements(order)' = Reachable
      BY <1>2, <2>1, <2>2 DEF Elements
    <2> QED BY <1>2, <1>3, <2>3 DEF Closed
  <1>7. order' = order \/ Rotate \/ Prune
    BY DEF Next, Plan, Setup, EmitBlock, EmitEpilogue, RunBlock, PassItem,
       MakeMoves, FollowBranch, FollowJump, ReturnToCaller, Returned, vars, layoutVars
  <1> QED BY <1>4, <1>5, <1>6, <1>7

LEMMA SameRunning ==
    ASSUME graph' = graph
    PROVE  /\ Blocks' = Blocks
           /\ Finished(code') => Finished(code)'
           /\ Running(code', pc', block', cond', performed')
                => Running(code, pc, block, cond, performed)'
  <1>1. Blocks' = Blocks
    BY DEF Blocks
  <1>2. Items' = Items
    BY <1>1 DEF Items, LabelNames
  <1>3. Names(code)' = Names(code') /\ Aims(code)' = Aims(code') /\ (Tidy(code)' <=> Tidy(code'))
    BY DEF Names, Aims, Tidy
  <1>4. Finished(code') => Finished(code)'
    BY <1>2, <1>3, SameLeads DEF Finished
  <1>5. Targets(block)' = Targets(block') /\ Taken(block, cond)' = Taken(block', cond')
    BY DEF Targets, Taken
  <1>6. Running(code', pc', block', cond', performed')
          => Running(code, pc, block, cond, performed)'
    BY <1>1, <1>5 DEF Running
  <1> QED BY <1>1, <1>4, <1>6

LEMMA RunsOn ==
    ASSUME IInv, Closed, [Next]_vars, graph' = graph, phase' \in {"run", "returned"},
           unemitted' = << >>, Finished(code'),
           Running(code', pc', block', cond', performed'),
           block' \in Blocks \cup {0}, cond' \in BOOLEAN, block' = 0 => arrived' = << >>,
           Elements(arrived') \cup Elements(performed') \subseteq graph.moves
    PROVE  LayoutInv'
  <1>1. Closed'
    BY ClosedStays
  <1>2. Blocks' = Blocks /\ RunInv'
    BY SameRunning DEF RunInv
  <1>3. Elements(arrived)' = Elements(arrived') /\ Elements(performed)' = Elements(performed')
    BY DEF Elements
  <1> QED BY <1>1, <1>2, <1>3 DEF LayoutInv

LEMMA InitLayout == Init => LayoutInv
  <1> SUFFICES ASSUME Init PROVE LayoutInv
    OBVIOUS
  <1>1. IInv /\ phase = "plan"
    BY InitInvariant DEF Init
  <1>2. Elements(order) = Blocks /\ graph \in Graphs
    BY <1>1 DEF IInv
  <1>3. Closed
    BY <1>2, GraphFacts DEF Closed
  <1>4. Elements(<< >>) = {}
    BY DEF Elements
  <1> QED BY <1>3, <1>4 DEF Init, LayoutInv, Idle

(* Laying out the blocks and writing them.                                  *)
LEMMA StillIdle ==
    ASSUME IInv, LayoutInv, [Next]_vars, graph' = graph, UNCHANGED runVars, Idle
    PROVE  /\ Closed' /\ Idle'
           /\ block' \in Blocks' \cup {0} /\ cond' \in BOOLEAN
           /\ block' = 0 => arrived' = << >>
           /\ (Elements(arrived) \cup Elements(performed))' \subseteq graph'.moves
  <1>1. Closed'
    BY ClosedStays DEF LayoutInv
  <1>2. Elements(arrived)' = Elements(arrived) /\ Elements(performed)' = Elements(performed)
    BY DEF Elements, runVars
  <1> QED BY <1>1, <1>2 DEF Idle, LayoutInv, runVars

LEMMA LaysOut == IInv /\ LayoutInv /\ (Plan \/ Rotate \/ Prune) => LayoutInv'
  <1> SUFFICES ASSUME IInv, LayoutInv, Plan \/ Rotate \/ Prune PROVE LayoutInv'
    OBVIOUS
  <1>1. /\ phase \in {"plan", "rotate"} /\ phase' \in {"rotate", "setup"}
        /\ code' = code /\ unemitted' = unemitted /\ graph' = graph /\ UNCHANGED runVars
    BY DEF Plan, Rotate, Prune
  <1>2. code = << >> /\ unemitted = << >> /\ Idle
    BY <1>1 DEF LayoutInv
  <1>3. [Next]_vars
    BY DEF Next
  <1> QED BY <1>1, <1>2, <1>3, StillIdle DEF LayoutInv

LEMMA SetsUp == IInv /\ LayoutInv /\ Setup => LayoutInv'
  <1> SUFFICES ASSUME IInv, LayoutInv, Setup PROVE LayoutInv'
    OBVIOUS
  <1>1. phase = "setup" /\ phase' = "emit" /\ graph' = graph /\ UNCHANGED runVars
    BY DEF Setup
  <1>2. Idle /\ Closed
    BY <1>1 DEF LayoutInv
  <1>3. Emitting'
    BY <1>2, SetupEmits
  <1>4. [Next]_vars
    BY DEF Next
  <1> QED BY <1>1, <1>2, <1>3, <1>4, StillIdle DEF LayoutInv

(* What is to be written leads to what is to be written.                    *)
LEMMA OrderFacts ==
    ASSUME IInv, Closed
    PROVE  /\ graph \in Graphs /\ Elements(order) \subseteq Blocks /\ ToEmit \subseteq Blocks
           /\ \A b \in ToEmit : Elements(Targets(b)) \subseteq ToEmit
  <1>1. graph \in Graphs /\ order \in Seq(Blocks) /\ order # << >> /\ order[1] = Entry
    BY DEF IInv
  <1>2. 1 \in DOMAIN order /\ \A i \in DOMAIN order : order[i] \in Blocks
    BY <1>1
  <1>3. Entry \in Elements(order) /\ Elements(order) \subseteq Blocks
    BY <1>1, <1>2 DEF Elements
  <1> QED BY <1>1, <1>3, EmittedClosed DEF Closed

LEMMA Emits == IInv /\ LayoutInv /\ EmitBlock => LayoutInv'
  <1> SUFFICES ASSUME IInv, LayoutInv, EmitBlock PROVE LayoutInv'
    OBVIOUS
  <1> DEFINE q == unemitted
             c == code
             b == Head(q)
  <1>1. /\ phase = "emit" /\ phase' = "emit" /\ graph' = graph /\ order' = order
        /\ UNCHANGED runVars /\ q # << >> /\ unemitted' = Tail(q)
        /\ code' = c \o Label(Of(b)) \o Run(b)
                     \o Terminator(b, IF Tail(q) = << >> THEN None ELSE q[2])
    BY DEF EmitBlock
  <1>2. Queue(q) /\ Written(c, q) /\ Leading(c, q) /\ Idle /\ Closed
    BY <1>1 DEF LayoutInv, Emitting
  <1>3. /\ graph \in Graphs /\ ToEmit \subseteq Blocks
        /\ \A t \in ToEmit : Elements(Targets(t)) \subseteq ToEmit
    BY <1>2, OrderFacts
  <1>4. ComesNext(Tail(q)) = IF Tail(q) = << >> THEN None ELSE q[2]
    BY <1>1, <1>2, HeadFacts DEF Queue
  <1> DEFINE d == c \o Label(Of(b)) \o Run(b) \o Terminator(b, ComesNext(Tail(q)))
  <1>5. code' = d
    BY <1>1, <1>4
  <1> HIDE DEF q, c
  <1>6. d = c \o Label(Of(Head(q))) \o Run(Head(q)) \o Terminator(Head(q), ComesNext(Tail(q)))
    OBVIOUS
  <1> HIDE DEF d
  <1>7. Queue(Tail(q)) /\ Written(d, Tail(q))
    BY <1>1, <1>2, <1>3, <1>6, EmitBlockWrites
  <1>8. Leading(d, Tail(q))
    BY <1>1, <1>2, <1>3, <1>6, EmitBlockLeads
  <1>9. Emitting'
    BY <1>1, <1>5, <1>7, <1>8, EmittingAgain
  <1>10. [Next]_vars
    BY DEF Next
  <1> QED BY <1>1, <1>2, <1>9, <1>10, StillIdle DEF LayoutInv

LEMMA Closes == IInv /\ LayoutInv /\ EmitEpilogue => LayoutInv'
  <1> SUFFICES ASSUME IInv, LayoutInv, EmitEpilogue PROVE LayoutInv'
    OBVIOUS
  <1> DEFINE d == code \o Label(ReturnLabel) \o Ret
  <1>1. /\ phase = "emit" /\ phase' = "run" /\ graph' = graph /\ code' = d /\ pc' = 1
        /\ unemitted = << >> /\ unemitted' = << >>
        /\ UNCHANGED <<block, cond, arrived, performed>>
    BY DEF EmitEpilogue
  <1>2. Written(code, << >>) /\ Leading(code, << >>) /\ Idle /\ Closed
    BY <1>1 DEF LayoutInv, Emitting
  <1>3. Finished(d)
    BY <1>2, EpilogueFinishes DEF IInv
  <1> HIDE DEF d
  <1>4. Enters(d, 1, Entry)
    BY <1>3 DEF Finished
  <1>5. Running(code', pc', block', cond', performed')
    BY <1>1, <1>2, <1>4 DEF Running, Idle
  <1>6. [Next]_vars
    BY DEF Next
  <1>7. /\ block' \in Blocks \cup {0} /\ cond' \in BOOLEAN /\ (block' = 0 => arrived' = << >>)
        /\ Elements(arrived') \cup Elements(performed') \subseteq graph.moves
    BY <1>1 DEF LayoutInv
  <1> QED BY <1>1, <1>2, <1>3, <1>5, <1>6, <1>7, RunsOn

(* Running it.                                                              *)
LEMMA RunsBlock == IInv /\ LayoutInv /\ RunBlock => LayoutInv'
  <1> SUFFICES ASSUME IInv, LayoutInv, RunBlock PROVE LayoutInv'
    OBVIOUS
  <1>1. /\ phase = "run" /\ phase' = "run" /\ graph' = graph /\ code' = code /\ unemitted' = unemitted
        /\ pc \in DOMAIN code /\ code[pc].op = "run"
        /\ block' = code[pc].block /\ cond' \in BOOLEAN
        /\ arrived' = performed /\ performed' = << >> /\ pc' = pc + 1
    BY DEF RunBlock, At, Here, layoutVars
  <1>2. Finished(code) /\ unemitted = << >> /\ Closed
        /\ Elements(performed) \subseteq graph.moves
    BY <1>1 DEF LayoutInv, RunInv
  <1>3. Routed(code, pc)
    BY <1>1, <1>2 DEF Finished
  <1>4. Running(code, pc + 1, block', cond', << >>) /\ block' \in Blocks
    BY <1>1, <1>3 DEF Routed, Running
  <1>5. 0 \notin Blocks
    BY GraphFacts DEF IInv
  <1>6. Elements(<< >>) = {}
    BY DEF Elements
  <1>7. Running(code', pc', block', cond', performed') /\ Finished(code') /\ unemitted' = << >>
    BY <1>1, <1>2, <1>4
  <1>8. /\ block' \in Blocks \cup {0} /\ cond' \in BOOLEAN /\ (block' = 0 => arrived' = << >>)
        /\ Elements(arrived') \cup Elements(performed') \subseteq graph.moves
    BY <1>1, <1>2, <1>4, <1>5, <1>6
  <1>9. [Next]_vars
    BY DEF Next
  <1>10. phase' \in {"run", "returned"}
    BY <1>1
  <1> QED BY <1>1, <1>2, <1>7, <1>8, <1>9, <1>10, RunsOn

LEMMA RunsItem ==
    IInv /\ LayoutInv /\ (PassItem \/ MakeMoves \/ FollowBranch \/ FollowJump) => LayoutInv'
  <1> SUFFICES ASSUME IInv, LayoutInv, PassItem \/ MakeMoves \/ FollowBranch \/ FollowJump
               PROVE  LayoutInv'
    OBVIOUS
  <1>1. /\ phase = "run" /\ phase' = "run" /\ graph' = graph /\ code' = code /\ unemitted' = unemitted
        /\ pc \in DOMAIN code /\ block' = block /\ cond' = cond /\ arrived' = arrived
    BY DEF PassItem, MakeMoves, FollowBranch, FollowJump, At, layoutVars
  <1>2. /\ Finished(code) /\ unemitted = << >> /\ Closed /\ graph \in Graphs
        /\ Running(code, pc, block, cond, performed) /\ cond \in BOOLEAN
        /\ Elements(arrived) \cup Elements(performed) \subseteq graph.moves
    BY <1>1 DEF LayoutInv, RunInv, IInv
  <1>3. DOMAIN code \subseteq Nat
    BY <1>2 DEF Finished
  <1>a. ASSUME Running(code, pc', block, cond, performed'), Elements(performed') \subseteq graph.moves
        PROVE  LayoutInv'
    <2>1. [Next]_vars
      BY DEF Next
    <2>2. Running(code', pc', block', cond', performed') /\ Finished(code') /\ unemitted' = << >>
      BY <1>1, <1>2, <1>a
    <2>3. /\ block' \in Blocks \cup {0} /\ cond' \in BOOLEAN /\ (block' = 0 => arrived' = << >>)
          /\ Elements(arrived') \cup Elements(performed') \subseteq graph.moves
      BY <1>1, <1>2, <1>a DEF LayoutInv
    <2>4. phase' \in {"run", "returned"}
      BY <1>1
    <2> QED BY <1>1, <1>2, <2>1, <2>2, <2>3, <2>4, RunsOn
  <1>4. CASE PassItem
    <2>1. pc' = pc + 1 /\ performed' = performed /\ code[pc].op \in {"label", "rerun"}
      BY <1>4 DEF PassItem, At
    <2>2. Running(code, pc + 1, block, cond, performed)
      BY <1>2, <1>3, <2>1, OnPassed DEF Passed
    <2> QED BY <1>2, <1>a, <2>1, <2>2
  <1>5. CASE MakeMoves
    <2>1. pc' = pc + 1 /\ performed' = Append(performed, code[pc].edge) /\ code[pc].op = "moves"
      BY <1>5 DEF MakeMoves, At, Here
    <2>2. code[pc].edge \in graph.moves /\ Running(code, pc + 1, block, cond, performed')
      BY <1>2, <1>3, <2>1, OnMoves
    <2>3. performed = << >>
      BY <1>2, <1>3, <2>1, OnMoves
    <2>4. Elements(performed') \subseteq graph.moves
      BY <2>1, <2>2, <2>3 DEF Elements
    <2> QED BY <1>a, <2>1, <2>2, <2>4
  <1>6. CASE FollowBranch
    <2>1. /\ pc' = IF cond = code[pc].when THEN TargetOf(code[pc].to) ELSE pc + 1
          /\ performed' = performed /\ code[pc].op = "branch"
      BY <1>6 DEF FollowBranch, At, Here
    <2>2. Running(code, pc', block, cond, performed)
      BY <1>2, <2>1, OnBranch
    <2> QED BY <1>2, <1>a, <2>1, <2>2
  <1>7. CASE FollowJump
    <2>1. pc' = TargetOf(code[pc].to) /\ performed' = performed /\ code[pc].op = "jump"
      BY <1>7 DEF FollowJump, At, Here
    <2>2. Running(code, pc', block, cond, performed)
      BY <1>2, <2>1, OnJump
    <2> QED BY <1>2, <1>a, <2>1, <2>2
  <1> QED BY <1>4, <1>5, <1>6, <1>7

LEMMA NextLayout == IInv /\ LayoutInv /\ [Next]_vars => LayoutInv'
  <1> SUFFICES ASSUME IInv, LayoutInv, [Next]_vars PROVE LayoutInv'
    OBVIOUS
  <1>1. CASE Plan \/ Rotate \/ Prune
    BY <1>1, LaysOut
  <1>2. CASE Setup
    BY <1>2, SetsUp
  <1>3. CASE EmitBlock
    BY <1>3, Emits
  <1>4. CASE EmitEpilogue
    BY <1>4, Closes
  <1>5. CASE RunBlock
    BY <1>5, RunsBlock
  <1>6. CASE PassItem \/ MakeMoves \/ FollowBranch \/ FollowJump
    BY <1>6, RunsItem
  <1>7. CASE ReturnToCaller \/ Returned \/ UNCHANGED vars
    <2>1. /\ graph' = graph /\ order' = order /\ code' = code /\ unemitted' = unemitted
          /\ pc' = pc /\ block' = block /\ cond' = cond /\ arrived' = arrived /\ performed' = performed
          /\ (phase' = phase \/ (phase = "run" /\ phase' = "returned"))
      BY <1>7 DEF ReturnToCaller, Returned, vars, layoutVars, runVars, At
    <2>2. CASE phase \in {"run", "returned"}
      <3>1. /\ Finished(code) /\ unemitted = << >> /\ Closed
            /\ Running(code, pc, block, cond, performed)
            /\ block \in Blocks \cup {0} /\ cond \in BOOLEAN /\ (block = 0 => arrived = << >>)
            /\ Elements(arrived) \cup Elements(performed) \subseteq graph.moves
        BY <2>2 DEF LayoutInv, RunInv
      <3>2. /\ Finished(code') /\ unemitted' = << >> /\ phase' \in {"run", "returned"}
            /\ Running(code', pc', block', cond', performed')
            /\ block' \in Blocks \cup {0} /\ cond' \in BOOLEAN /\ (block' = 0 => arrived' = << >>)
            /\ Elements(arrived') \cup Elements(performed') \subseteq graph.moves
        BY <2>1, <2>2, <3>1
      <3> QED BY <2>1, <3>1, <3>2, RunsOn
    <2>3. CASE phase \notin {"run", "returned"}
      <3>1. phase' = phase /\ UNCHANGED runVars /\ Idle
        BY <2>1, <2>3 DEF runVars, LayoutInv
      <3>2. Emitting => Emitting'
        BY <2>1, EmittingAgain DEF Emitting
      <3> QED BY <2>1, <2>3, <3>1, <3>2, StillIdle DEF LayoutInv
    <2> QED BY <2>2, <2>3
  <1> QED BY <1>1, <1>2, <1>3, <1>4, <1>5, <1>6, <1>7 DEF Next

(* LayoutInv holds in every reachable state: the code is written label by   *)
(* label as its blocks are, and leads on from wherever it is run.           *)
THEOREM LayoutInvariance == Spec => []LayoutInv
  BY InitLayout, NextLayout, Invariance, PTL DEF Spec

(* Every variable has its type, and every label that is used is written     *)
(* exactly once.                                                            *)
THEOREM LabelsWrittenOnce == Spec => []TypeOK
  <1>1. IInv /\ LayoutInv => TypeOK
    <2> SUFFICES ASSUME IInv, LayoutInv PROVE TypeOK
      OBVIOUS
    <2>1. graph \in Graphs /\ WellFormed(graph) /\ Closed
      BY GraphAssumption DEF IInv, LayoutInv
    <2>2. Elements(order) \subseteq Blocks /\ ToEmit \subseteq Blocks
      BY <2>1, OrderFacts
    <2>3. Elements(<< >>) = {}
      BY DEF Elements
    <2>4. Elements(unemitted) \subseteq Blocks
      <3>1. unemitted = << >> \/ Queue(unemitted)
        BY DEF LayoutInv, Emitting, RunInv
      <3> QED BY <2>2, <2>3, <3>1 DEF Queue
    <2>5. Tidy(code)
      <3>1. Tidy(<< >>)
        BY DEF Tidy
      <3> QED BY <3>1 DEF LayoutInv, Emitting, RunInv, Written, Finished
    <2>6. \A i, j \in LabelsOf("label") : code[i].to = code[j].to => i = j
      BY <2>5 DEF Tidy, LabelsOf
    <2>7. ASSUME phase \in {"run", "returned"}
          PROVE  /\ pc \in DOMAIN code
                 /\ \A i \in LabelsOf("jump") \cup LabelsOf("branch") :
                       \E j \in LabelsOf("label") : code[j].to = code[i].to
      <3>1. Finished(code) /\ Running(code, pc, block, cond, performed)
        BY <2>7 DEF LayoutInv, RunInv
      <3>2. DOMAIN code \subseteq Nat /\ Aims(code) \subseteq Names(code)
        BY <3>1 DEF Finished
      <3>3. pc \in DOMAIN code
        BY <3>1, <3>2, OnPlace
      <3>4. \A i \in LabelsOf("jump") \cup LabelsOf("branch") : code[i].to \in Names(code)
        BY <3>2 DEF LabelsOf, Aims
      <3> QED BY <3>3, <3>4 DEF LabelsOf, Names
    <2> QED BY <2>1, <2>2, <2>4, <2>6, <2>7 DEF TypeOK, LayoutInv
  <1> QED BY <1>1, Invariance, LayoutInvariance, PTL

-----------------------------------------------------------------------------
(* The refinement.                                                          *)

(* The instructions of a block are a step of the terminators: the first     *)
(* block is the entry, and the next one the target the terminator selects,  *)
(* with the moves of that edge made once.                                   *)
LEMMA BlockFollows == IInv /\ LayoutInv /\ RunBlock => Abstract!Start \/ Abstract!Follow
  <1> SUFFICES ASSUME IInv, LayoutInv, RunBlock PROVE Abstract!Start \/ Abstract!Follow
    OBVIOUS
  <1>1. /\ phase = "run" /\ phase' = "run" /\ graph' = graph /\ code[pc].op = "run"
        /\ block' = code[pc].block /\ cond' \in BOOLEAN /\ arrived' = performed
    BY DEF RunBlock, At, Here
  <1>2. /\ Finished(code) /\ Running(code, pc, block, cond, performed)
        /\ block = 0 => arrived = << >>
    BY <1>1 DEF LayoutInv, RunInv
  <1>3. \/ block = 0 /\ performed = << >> /\ code[pc].block = Entry
        \/ /\ block \in Blocks /\ Targets(block) # << >> /\ code[pc].block = Taken(block, cond)[2]
           /\ performed = IF Taken(block, cond) \in graph.moves THEN <<Taken(block, cond)>> ELSE << >>
    <2>1. DOMAIN code \subseteq Nat
      BY <1>2 DEF Finished
    <2> QED BY <1>1, <1>2, <2>1, OnRun
  <1>4. CASE block = 0 /\ performed = << >> /\ code[pc].block = Entry
    BY <1>1, <1>2, <1>4 DEF Abstract!Start, Abstract!Entry, Entry
  <1>5. CASE /\ block \in Blocks /\ Targets(block) # << >> /\ code[pc].block = Taken(block, cond)[2]
             /\ performed = IF Taken(block, cond) \in graph.moves THEN <<Taken(block, cond)>> ELSE << >>
    <2>1. block # 0
      BY <1>5, GraphFacts DEF IInv
    <2>2. Taken(block, cond) = <<block, Abstract!Chosen(block, cond)>>
      BY DEF Taken, Targets, Abstract!Chosen, Abstract!Targets
    <2>3. Taken(block, cond)[2] = Abstract!Chosen(block, cond)
      BY <2>2
    <2>4. Abstract!Targets(block) # << >>
      BY <1>5 DEF Targets, Abstract!Targets
    <2> QED BY <1>1, <1>5, <2>1, <2>2, <2>3, <2>4 DEF Abstract!Follow
  <1> QED BY <1>3, <1>4, <1>5

LEMMA ReturnFollows == IInv /\ LayoutInv /\ ReturnToCaller => Abstract!Return
  <1> SUFFICES ASSUME IInv, LayoutInv, ReturnToCaller PROVE Abstract!Return
    OBVIOUS
  <1>1. /\ phase = "run" /\ phase' = "returned" /\ code[pc].op = "ret"
        /\ UNCHANGED <<graph, block, cond, arrived>>
    BY DEF ReturnToCaller, At, layoutVars, runVars
  <1>2. Finished(code) /\ Running(code, pc, block, cond, performed)
    BY <1>1 DEF LayoutInv, RunInv
  <1>3. DOMAIN code \subseteq Nat
    BY <1>2 DEF Finished
  <1>4. block \in Blocks /\ Targets(block) = << >>
    BY <1>1, <1>2, <1>3, OnRet
  <1>5. block # 0
    BY <1>4, GraphFacts DEF IInv
  <1> QED BY <1>1, <1>4, <1>5 DEF Abstract!Return, Abstract!Targets, Targets

(* The emitted code runs the blocks as the terminators say, whatever the    *)
(* order of the blocks, wherever branches fall through and whether or not   *)
(* the function returns before its prologue, and makes the moves of every   *)
(* edge it takes once.                                                      *)
THEOREM CodeFollowsControlFlow == Spec => FollowsControlFlow
  <1>1. Init => Abstract!Init
    BY DEF Init, Abstract!Init
  <1>2. IInv /\ LayoutInv /\ [Next]_vars => [Abstract!Next]_(Abstract!vars)
    <2> SUFFICES ASSUME IInv, LayoutInv, [Next]_vars
                 PROVE  [Abstract!Next]_(Abstract!vars)
      OBVIOUS
    <2>1. CASE RunBlock
      BY <2>1, BlockFollows DEF Abstract!Next
    <2>2. CASE ReturnToCaller
      BY <2>2, ReturnFollows DEF Abstract!Next
    <2>3. CASE ~RunBlock /\ ~ReturnToCaller
      <3>1. UNCHANGED <<graph, block, cond, arrived>>
            /\ (phase' = "returned" <=> phase = "returned")
        BY <2>3 DEF Next, Plan, Rotate, Prune, Setup, EmitBlock, EmitEpilogue, PassItem,
           MakeMoves, FollowBranch, FollowJump, Returned, At, vars, runVars
      <3> QED BY <3>1 DEF Abstract!vars
    <2> QED BY <2>1, <2>2, <2>3
  <1> QED BY <1>1, <1>2, Invariance, LayoutInvariance, PTL DEF Spec, FollowsControlFlow, Abstract!Spec
=============================================================================
