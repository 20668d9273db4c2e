----------------------------- MODULE Iteration ------------------------------
(***************************************************************************)
(* Facts about counting and about repeating a step, for the proofs: least  *)
(* elements, induction over a set of numbers, the existence of the states  *)
(* of an iteration, and ranks in a finite set of numbers.                  *)
(***************************************************************************)
EXTENDS Integers, FiniteSetTheorems, WellFoundedInduction, TLAPS

LessThan == OpToRel(<, Nat)

(* Every set of numbers has a least element.                                *)
LEMMA LeastElement ==
    ASSUME NEW T, T \subseteq Nat, T # {}
    PROVE  \E x \in T : \A y \in T : x <= y
  <1>1. IsWellFoundedOn(LessThan, Nat)
    BY NatLessThanWellFounded DEF LessThan
  <1>2. LessThan = {p \in Nat \X Nat : p[1] < p[2]}
    BY DEF LessThan, OpToRel
  <1>3. PICK x \in T : \A y \in T : ~ (<<y, x>> \in LessThan)
    BY <1>1, WFMin
  <1>4. \A y \in T : ~(y < x)
    BY <1>2, <1>3
  <1> QED BY <1>4

(* A set of numbers with a bound has a greatest element.                    *)
LEMMA GreatestElement ==
    ASSUME NEW N \in Nat, NEW T, T \subseteq 0..N, T # {}
    PROVE  \E x \in T : \A y \in T : y <= x
  <1> DEFINE D == {N - x : x \in T}
  <1>1. D \subseteq Nat /\ D # {}
    <2>1. \A x \in T : N - x \in Nat
      OBVIOUS
    <2> QED BY <2>1
  <1>2. PICK d \in D : \A e \in D : d <= e
    <2> HIDE DEF D
    <2> QED BY <1>1, LeastElement
  <1>3. PICK x \in T : d = N - x
    BY <1>2
  <1>4. \A y \in T : N - x <= N - y
    BY <1>2, <1>3
  <1>5. \A y \in T : y <= x
    BY <1>3, <1>4
  <1> QED BY <1>3, <1>5

(* A set that holds 0 and all successors of its members holds all numbers.  *)
LEMMA SetInduction ==
    ASSUME NEW S, 0 \in S, \A n \in Nat : n \in S => n + 1 \in S
    PROVE  \A n \in Nat : n \in S
  <1> SUFFICES ASSUME NEW m \in Nat, m \notin S
               PROVE  FALSE
    OBVIOUS
  <1> DEFINE missing == Nat \ S
  <1>1. missing \subseteq Nat /\ missing # {}
    OBVIOUS
  <1>2. PICK x \in missing : \A y \in missing : x <= y
    BY <1>1, LeastElement
  <1>3. x \in Nat /\ x # 0
    BY <1>2
  <1>4. x - 1 \in Nat /\ x - 1 + 1 = x /\ ~(x <= x - 1)
    BY <1>3
  <1>5. x - 1 \in S
    BY <1>2, <1>4
  <1> QED BY <1>2, <1>4, <1>5

(* The states of an iteration exist, whether its steps differ or not.       *)
StepsOf(g, T, a, F, n) ==
    g \in [0..n -> T] /\ g[0] = a /\ \A i \in 1..n : g[i] = F[i][g[i - 1]]

LEMMA StepsExist ==
    ASSUME NEW T, NEW a \in T, NEW N \in Nat, NEW F \in [1..N -> [T -> T]]
    PROVE  \E g : StepsOf(g, T, a, F, N)
  <1> DEFINE S == {n \in Nat : n <= N => \E g : StepsOf(g, T, a, F, n)}
  <1>1. 0 \in S
    <2>1. StepsOf([i \in 0..0 |-> a], T, a, F, 0)
      BY DEF StepsOf
    <2> QED BY <2>1
  <1>2. ASSUME NEW n \in Nat, n \in S
        PROVE  n + 1 \in S
    <2> SUFFICES ASSUME n + 1 <= N PROVE \E g : StepsOf(g, T, a, F, n + 1)
      OBVIOUS
    <2>1. PICK g : StepsOf(g, T, a, F, n)
      BY <1>2
    <2> DEFINE h == [i \in 0..(n + 1) |-> IF i <= n THEN g[i] ELSE F[n + 1][g[n]]]
    <2>2. g \in [0..n -> T] /\ g[0] = a /\ g[n] \in T
      BY <2>1 DEF StepsOf
    <2>3. h \in [0..(n + 1) -> T]
      <3>1. F[n + 1] \in [T -> T]
        OBVIOUS
      <3>2. F[n + 1][g[n]] \in T
        BY <2>2, <3>1
      <3> QED BY <2>2, <3>2
    <2>4. h[0] = a
      BY <2>2
    <2>5. ASSUME NEW i \in 1..(n + 1)
          PROVE  h[i] = F[i][h[i - 1]]
      <3>1. i - 1 \in 0..n /\ h[i - 1] = g[i - 1]
        OBVIOUS
      <3>2. CASE i <= n
        BY <2>1, <3>1, <3>2 DEF StepsOf
      <3>3. CASE i = n + 1
        <4>1. h[i] = F[i][g[n]] /\ i - 1 = n
          BY <3>3
        <4> QED BY <3>1, <4>1
      <3> QED BY <3>2, <3>3
    <2> HIDE DEF h
    <2>6. StepsOf(h, T, a, F, n + 1)
      BY <2>3, <2>4, <2>5 DEF StepsOf
    <2> QED BY <2>6
  <1> HIDE DEF S
  <1>3. N \in S
    BY <1>1, <1>2, SetInduction
  <1> QED BY <1>3 DEF S

IterationOf(g, T, a, F, n) ==
    g \in [0..n -> T] /\ g[0] = a /\ \A i \in 1..n : g[i] = F[g[i - 1]]

LEMMA IterationExists ==
    ASSUME NEW T, NEW a \in T, NEW F \in [T -> T], NEW N \in Nat
    PROVE  \E g : IterationOf(g, T, a, F, N)
  <1>1. PICK g : StepsOf(g, T, a, [i \in 1..N |-> F], N)
    BY StepsExist
  <1>2. IterationOf(g, T, a, F, N)
    BY <1>1 DEF StepsOf, IterationOf
  <1> QED BY <1>2

(* What the first state has and every step keeps, all states have.          *)
LEMMA IterationKeeps ==
    ASSUME NEW N \in Nat, NEW g, NEW I, g[0] \in I,
           \A i \in 1..N : g[i - 1] \in I => g[i] \in I
    PROVE  \A i \in 0..N : g[i] \in I
  <1> DEFINE S == {n \in Nat : n <= N => g[n] \in I}
  <1>1. 0 \in S
    OBVIOUS
  <1>2. ASSUME NEW n \in Nat, n \in S
        PROVE  n + 1 \in S
    <2>1. SUFFICES ASSUME n + 1 <= N PROVE g[n + 1] \in I
      OBVIOUS
    <2>2. n + 1 \in 1..N /\ n + 1 - 1 = n /\ n <= N
      BY <2>1
    <2> QED BY <1>2, <2>2
  <1>3. \A n \in Nat : n \in S
    <2> HIDE DEF S
    <2> QED BY <1>1, <1>2, SetInduction
  <1> QED BY <1>3

(* What a set grows to when every member brings others along, a round for   *)
(* every member there can be: nothing is missing and nothing superfluous.   *)
Spread(R, X) == X \cup UNION {R[c] : c \in X}
SpreadsTo(g, N, R, A) == g[0] = A /\ \A i \in 1..N : g[i] = Spread(R, g[i - 1])
ClosedUnder(R, X) == \A c \in X : R[c] \subseteq X
StaysIn(S, B, R, A) == A \subseteq S /\ \A c \in S \cap B : R[c] \subseteq S

LEMMA SpreadExists ==
    ASSUME NEW B, NEW R \in [B -> SUBSET B], NEW A \in SUBSET B, NEW N \in Nat
    PROVE  \E g \in [0..N -> SUBSET B] : SpreadsTo(g, N, R, A)
  <1> DEFINE T == SUBSET B
             F == [X \in T |-> Spread(R, X)]
  <1>1. \A X \in T : Spread(R, X) \in T
    BY DEF Spread
  <1>2. F \in [T -> T]
    BY <1>1
  <1>3. PICK g : IterationOf(g, T, A, F, N)
    <2> HIDE DEF F, T
    <2>1. A \in T
      BY DEF T
    <2> QED BY <1>2, <2>1, IterationExists
  <1>4. \A i \in 1..N : i - 1 \in 0..N
    OBVIOUS
  <1>5. \A i \in 1..N : g[i] = Spread(R, g[i - 1])
    <2>1. \A X \in T : F[X] = Spread(R, X)
      OBVIOUS
    <2> HIDE DEF F, T
    <2> QED BY <1>3, <1>4, <2>1 DEF IterationOf
  <1> HIDE DEF F
  <1> QED BY <1>3, <1>5 DEF IterationOf, SpreadsTo

LEMMA SpreadFacts ==
    ASSUME NEW B, IsFiniteSet(B), NEW N \in Nat, Cardinality(B) <= N,
           NEW R \in [B -> SUBSET B], NEW A \in SUBSET B, NEW g, SpreadsTo(g, N, R, A)
    PROVE  /\ A \subseteq g[N] /\ g[N] \subseteq B
           /\ ClosedUnder(R, g[N])
  <1>1. \A i \in 1..N : g[i] = Spread(R, g[i - 1])
    BY DEF SpreadsTo
  <1>2. \A X \in SUBSET B : Spread(R, X) \in SUBSET B /\ X \subseteq Spread(R, X)
    BY DEF Spread
  <1>3. \A i \in 0..N : g[i] \in {X \in SUBSET B : A \subseteq X}
    <2> DEFINE I == {X \in SUBSET B : A \subseteq X}
    <2>1. g[0] \in I
      BY DEF SpreadsTo
    <2>2. \A i \in 1..N : g[i - 1] \in I => g[i] \in I
      BY <1>1, <1>2
    <2> HIDE DEF I
    <2>3. \A i \in 0..N : g[i] \in I
      BY <2>1, <2>2, IterationKeeps
    <2> QED BY <2>3 DEF I
  <1>4. \A X \in SUBSET B : IsFiniteSet(X) /\ Cardinality(X) \in Nat
    BY FS_Subset, FS_CardinalityType
  <1>5. \A X, Y \in SUBSET B : X \subseteq Y =>
            X = Y \/ Cardinality(X) < Cardinality(Y)
    <2> SUFFICES ASSUME NEW X \in SUBSET B, NEW Y \in SUBSET B, X \subseteq Y, X # Y
                 PROVE  Cardinality(X) < Cardinality(Y)
      OBVIOUS
    <2>1. Cardinality(X) <= Cardinality(Y) /\ Cardinality(X) # Cardinality(Y)
      BY <1>4, FS_Subset
    <2> QED BY <1>4, <2>1
  <1> DEFINE Full(n) == ClosedUnder(R, g[n]) \/ n <= Cardinality(g[n])
             G == {n \in Nat : n <= N => Full(n)}
  <1>6. 0 \in G
    <2>1. g[0] \in SUBSET B
      BY <1>3
    <2> QED BY <1>4, <2>1
  <1>7. ASSUME NEW n \in Nat, n \in G
        PROVE  n + 1 \in G
    <2> SUFFICES ASSUME n + 1 <= N PROVE Full(n + 1)
      OBVIOUS
    <2>1. n \in 0..N /\ n + 1 \in 0..N /\ n + 1 \in 1..N /\ n + 1 - 1 = n
      OBVIOUS
    <2>2. Full(n)
      BY <1>7, <2>1
    <2>3. g[n + 1] = Spread(R, g[n]) /\ g[n] \in SUBSET B /\ g[n + 1] \in SUBSET B
      BY <1>1, <1>3, <2>1
    <2>4. CASE ClosedUnder(R, g[n])
      <3>1. g[n + 1] = g[n]
        BY <2>3, <2>4 DEF Spread, ClosedUnder
      <3> QED BY <2>4, <3>1
    <2>5. CASE n <= Cardinality(g[n]) /\ g[n + 1] # g[n]
      <3>1. Cardinality(g[n]) < Cardinality(g[n + 1])
        BY <1>2, <1>5, <2>3, <2>5
      <3>2. Cardinality(g[n]) \in Nat /\ Cardinality(g[n + 1]) \in Nat
        BY <1>4, <2>3
      <3> QED BY <2>5, <3>1, <3>2
    <2>6. CASE g[n + 1] = g[n]
      <3>1. ClosedUnder(R, g[n])
        BY <2>3, <2>6 DEF Spread, ClosedUnder
      <3> QED BY <2>6, <3>1
    <2> QED BY <2>2, <2>4, <2>5, <2>6
  <1>8. N \in G
    <2> HIDE DEF G
    <2> QED BY <1>6, <1>7, SetInduction
  <1>9. g[N] \in SUBSET B /\ A \subseteq g[N]
    <2>1. N \in 0..N
      OBVIOUS
    <2> QED BY <1>3, <2>1
  <1>10. ClosedUnder(R, g[N])
    <2>1. CASE N <= Cardinality(g[N])
      <3>1. Cardinality(B) \in Nat
        BY <1>4
      <3>2. g[N] = B
        BY <1>4, <1>5, <1>9, <2>1, <3>1
      <3> QED BY <3>2 DEF ClosedUnder
    <2> QED BY <1>8, <2>1
  <1> QED BY <1>9, <1>10

LEMMA SpreadLeast ==
    ASSUME NEW B, NEW N \in Nat, NEW R \in [B -> SUBSET B], NEW A \in SUBSET B,
           NEW g, SpreadsTo(g, N, R, A),
           NEW S, StaysIn(S, B, R, A)
    PROVE  g[N] \subseteq S
  <1> DEFINE I == {X \in SUBSET B : X \subseteq S}
  <1>1. g[0] \in I
    BY DEF SpreadsTo, StaysIn
  <1>2. \A i \in 1..N : g[i - 1] \in I => g[i] \in I
    <2>1. \A X \in I : Spread(R, X) \in I
      BY DEF Spread, StaysIn
    <2> HIDE DEF I
    <2> QED BY <2>1 DEF SpreadsTo
  <1> HIDE DEF I
  <1>3. \A i \in 0..N : g[i] \in I
    BY <1>1, <1>2, IterationKeeps
  <1>4. N \in 0..N
    OBVIOUS
  <1> QED BY <1>3, <1>4 DEF I

(* The number of smaller members numbers a finite set of numbers from 0.    *)
Rank(K, i) == Cardinality({j \in K : j < i})

LEMMA RankNumbers ==
    ASSUME NEW n \in Nat, NEW K \in SUBSET (1..n)
    PROVE  /\ IsFiniteSet(K) /\ Cardinality(K) \in Nat
           /\ \A i \in K : Rank(K, i) \in 0..(Cardinality(K) - 1)
           /\ \A i, j \in K : Rank(K, i) = Rank(K, j) => i = j
           /\ \A k \in 0..(Cardinality(K) - 1) : \E i \in K : Rank(K, i) = k
  <1> DEFINE m == Cardinality(K)
             below(i) == {j \in K : j < i}
  <1>1. IsFiniteSet(1..n)
    BY FS_Interval
  <1>2. IsFiniteSet(K) /\ m \in Nat
    BY <1>1, FS_Subset, FS_CardinalityType
  <1>3. \A i \in K : IsFiniteSet(below(i)) /\ Cardinality(below(i)) \in Nat
    <2>1. \A i \in K : below(i) \in SUBSET K
      OBVIOUS
    <2> QED BY <1>2, <2>1, FS_Subset, FS_CardinalityType
  <1>4. \A i \in K : Cardinality(below(i)) < m
    <2> SUFFICES ASSUME NEW i \in K PROVE Cardinality(below(i)) < m
      OBVIOUS
    <2>1. below(i) \in SUBSET K /\ below(i) # K
      OBVIOUS
    <2>2. Cardinality(below(i)) <= m /\ (m = Cardinality(below(i)) => K = below(i))
      BY <1>2, <2>1, FS_Subset
    <2> HIDE DEF m, below
    <2> QED BY <1>2, <1>3, <2>1, <2>2
  <1>5. ASSUME NEW i \in K, NEW j \in K, i < j
        PROVE  Cardinality(below(i)) # Cardinality(below(j))
    <2>0. \A x \in K : x \in Int
      OBVIOUS
    <2>a. \A x \in K : x < i => x < j
      BY ONLY <1>5, <2>0, i \in K, j \in K
    <2>b. ~(i < i)
      BY <2>0
    <2>1. below(i) \in SUBSET below(j) /\ i \in below(j) /\ i \notin below(i)
      BY <1>5, <2>a, <2>b
    <2>2. Cardinality(below(j)) = Cardinality(below(i)) => below(j) = below(i)
      BY <1>3, <2>1, FS_Subset
    <2> QED BY <2>1, <2>2
  <1>6. \A i, j \in K : Cardinality(below(i)) = Cardinality(below(j)) => i = j
    BY <1>5
  <1> DEFINE numbers == 0..(m - 1)
             rank == [i \in K |-> Cardinality(below(i))]
  <1>7. IsFiniteSet(numbers) /\ Cardinality(numbers) = m
    <2> HIDE DEF m
    <2>1. 0 \in Int /\ m - 1 \in Int
      BY <1>2
    <2>2. Cardinality(0..(m - 1)) = IF 0 > m - 1 THEN 0 ELSE m - 1 - 0 + 1
      BY <2>1, FS_Interval
    <2> QED BY <1>2, <2>1, <2>2, FS_Interval
  <1>8. \A i \in K : Cardinality(below(i)) \in numbers
    <2> HIDE DEF m, below
    <2> QED BY <1>2, <1>3, <1>4
  <1>9. rank \in Injection(K, numbers)
    <2> HIDE DEF numbers, below
    <2> QED BY <1>6, <1>8 DEF Injection, IsInjective
  <1>10. rank \in Surjection(K, numbers)
    <2> HIDE DEF rank, numbers, m
    <2> QED BY <1>2, <1>7, <1>9, FS_Injection DEF m
  <1>11. \A k \in numbers : \E i \in K : Cardinality(below(i)) = k
    <2> HIDE DEF numbers, below
    <2> QED BY <1>10 DEF Surjection
  <1> QED
    BY <1>2, <1>6, <1>8, <1>11 DEF Rank

(* A growing set whose next state is a monotone function of the last one    *)
(* settles after a round for every member there can be.                     *)
LEMMA GrowthSettles ==
    ASSUME NEW B, IsFiniteSet(B), NEW N \in Nat, Cardinality(B) <= N,
           NEW F \in [SUBSET B -> SUBSET B],
           \A X, Y \in SUBSET B : X \subseteq Y => F[X] \subseteq F[Y],
           NEW g, IterationOf(g, SUBSET B, {}, F, N)
    PROVE  F[g[N]] = g[N] /\ g[N] \in SUBSET B
  <1> DEFINE T == SUBSET B
             I == {X \in T : X \subseteq F[X]}
  <1>1. g \in [0..N -> T] /\ g[0] = {} /\ \A i \in 1..N : g[i] = F[g[i - 1]]
    BY DEF IterationOf
  <1>2. \A i \in 0..N : g[i] \in I
    <2>1. g[0] \in I
      BY <1>1
    <2>2. \A X \in I : F[X] \in I
      OBVIOUS
    <2>3. \A i \in 1..N : g[i - 1] \in I => g[i] \in I
      <3> HIDE DEF I, T
      <3> QED BY <1>1, <2>2
    <2> HIDE DEF I, T
    <2> QED BY <2>1, <2>3, IterationKeeps
  <1>4. \A X \in T : IsFiniteSet(X) /\ Cardinality(X) \in Nat
    BY FS_Subset, FS_CardinalityType
  <1>5. \A X, Y \in T : X \subseteq Y => X = Y \/ Cardinality(X) < Cardinality(Y)
    <2> SUFFICES ASSUME NEW X \in T, NEW Y \in T, X \subseteq Y, X # Y
                 PROVE  Cardinality(X) < Cardinality(Y)
      OBVIOUS
    <2>1. Cardinality(X) <= Cardinality(Y) /\ Cardinality(X) # Cardinality(Y)
      BY <1>4, FS_Subset
    <2> QED BY <1>4, <2>1
  <1> DEFINE Full(n) == F[g[n]] = g[n] \/ n <= Cardinality(g[n])
             G == {n \in Nat : n <= N => Full(n)}
  <1>6. 0 \in G
    <2>1. g[0] \in T
      BY <1>1
    <2>2. Cardinality(g[0]) \in Nat
      BY <1>4, <2>1
    <2> QED BY <2>2
  <1>7. ASSUME NEW n \in Nat, n \in G
        PROVE  n + 1 \in G
    <2> SUFFICES ASSUME n + 1 <= N PROVE Full(n + 1)
      OBVIOUS
    <2>1. n \in 0..N /\ n + 1 \in 0..N /\ n + 1 \in 1..N /\ n + 1 - 1 = n
      OBVIOUS
    <2>2. Full(n)
      BY <1>7, <2>1
    <2>3. g[n + 1] = F[g[n]] /\ g[n] \in T /\ g[n + 1] \in T /\ g[n] \subseteq g[n + 1]
      BY <1>1, <1>2, <2>1
    <2>4. CASE g[n + 1] = g[n]
      BY <2>3, <2>4
    <2>5. CASE n <= Cardinality(g[n]) /\ g[n + 1] # g[n]
      <3>1. Cardinality(g[n]) < Cardinality(g[n + 1])
        BY <1>5, <2>3, <2>5
      <3>2. Cardinality(g[n]) \in Nat /\ Cardinality(g[n + 1]) \in Nat
        BY <1>4, <2>3
      <3> QED BY <2>5, <3>1, <3>2
    <2> QED BY <2>2, <2>3, <2>4, <2>5
  <1>8. N \in G
    <2> HIDE DEF G
    <2> QED BY <1>6, <1>7, SetInduction
  <1>9. N \in 0..N
    OBVIOUS
  <1>10. g[N] \in T /\ g[N] \subseteq F[g[N]] /\ F[g[N]] \in T
    BY <1>2, <1>9
  <1>11. CASE N <= Cardinality(g[N])
    <2>1. Cardinality(B) \in Nat /\ Cardinality(g[N]) \in Nat /\ B \in T
      BY <1>4, <1>10
    <2>2. g[N] = B
      BY <1>5, <1>10, <1>11, <2>1
    <2> QED BY <1>10, <2>2
  <1> QED BY <1>8, <1>10, <1>11
=============================================================================
