------------------------ MODULE ScalarPromoteProofs -------------------------
(***************************************************************************)
(* ScalarPromote's renaming, for every function it may take up: the stacks *)
(* of values are restored.                                                 *)
(***************************************************************************)
EXTENDS ScalarPromote, Iteration, SequenceTheorems

-----------------------------------------------------------------------------
(* The pass takes up one function after the other.  Of a function nothing   *)
(* more is asked than its shape: numbered values, blocks and instructions,  *)
(* blocks that lead to blocks, and allocas that define a value each.        *)
Numbered(S) == \E n \in Nat : S = 1..n
IsFunction(f) ==
    /\ Numbered(Values(f)) /\ Numbered(Blocks(f))
    /\ \A b \in Blocks(f) :
          /\ Numbered(DOMAIN Insts(f, b))
          /\ Successors(f, b) \subseteq Blocks(f)
    /\ \A s \in Sites(f) : At(f, s).op = "alloca" => At(f, s).result \in Values(f)

TakeUp == phase = "done" /\ \E f : IsFunction(f) /\ StartPromotion(f)

Pass == PromotionInit /\ [][Promote \/ TakeUp]_promotionVars

(* How often a sequence holds something.                                    *)
Times(s, a) == Cardinality({i \in DOMAIN s : s[i] = a})

LEMMA TimesNone == \A a : Times(<< >>, a) = 0
  <1> SUFFICES ASSUME NEW a PROVE Times(<< >>, a) = 0
    OBVIOUS
  <1>1. {i \in DOMAIN << >> : << >>[i] = a} = {}
    OBVIOUS
  <1> QED BY <1>1, FS_EmptySet DEF Times

LEMMA TimesNatural ==
    ASSUME NEW n \in Nat, NEW s, DOMAIN s = 1..n, NEW a
    PROVE  Times(s, a) \in Nat
  <1>1. {i \in DOMAIN s : s[i] = a} \subseteq 1..n
    OBVIOUS
  <1>2. IsFiniteSet(1..n)
    BY FS_Interval
  <1> QED BY <1>1, <1>2, FS_Subset, FS_CardinalityType DEF Times

LEMMA TimesAppend ==
    ASSUME NEW S, NEW s \in Seq(S), NEW x \in S, NEW a
    PROVE  Times(Append(s, x), a) = Times(s, a) + (IF x = a THEN 1 ELSE 0)
  <1> DEFINE t == Append(s, x)
             n == Len(s)
             I == {i \in DOMAIN s : s[i] = a}
             J == {i \in DOMAIN t : t[i] = a}
  <1>1. n \in Nat /\ DOMAIN s = 1..n /\ DOMAIN t = 1..(n + 1)
    BY AppendProperties
  <1>2. t[n + 1] = x /\ \A i \in 1..n : t[i] = s[i]
    BY AppendProperties
  <1>3. IsFiniteSet(I) /\ n + 1 \notin I
    <2>1. I \subseteq 1..n /\ IsFiniteSet(1..n)
      BY <1>1, FS_Interval
    <2>2. IsFiniteSet(I)
      BY <2>1, FS_Subset
    <2>3. n + 1 \notin 1..n
      BY <1>1
    <2> QED BY <2>1, <2>2, <2>3
  <1>4. CASE x = a
    <2>1. J = I \cup {n + 1}
      BY <1>1, <1>2, <1>4
    <2> HIDE DEF I, J
    <2>2. Cardinality(J) = Cardinality(I) + 1
      BY <1>3, <2>1, FS_AddElement
    <2> QED BY <1>4, <2>2 DEF Times, I, J
  <1>5. CASE x # a
    <2>1. J = I
      BY <1>1, <1>2, <1>5
    <2>2. Cardinality(J) \in Nat
      BY <1>3, <2>1, FS_CardinalityType
    <2> HIDE DEF I, J
    <2>3. Cardinality(J) = Cardinality(I) + 0
      BY <2>1, <2>2
    <2> QED BY <1>5, <2>3 DEF Times, I, J
  <1> QED BY <1>4, <1>5

LEMMA SeqMonotone ==
    ASSUME NEW A, NEW B, A \subseteq B, NEW s \in Seq(A)
    PROVE  s \in Seq(B)
  OBVIOUS

(* An ascending list holds each member of a set of numbers once.            *)
LEMMA AscendingFacts ==
    ASSUME NEW N \in Nat, NEW K \in SUBSET (1..N)
    PROVE  LET m == Cardinality(K) a == Ascending(K) IN
           /\ m \in Nat /\ a \in Seq(K) /\ Len(a) = m /\ DOMAIN a = 1..m
           /\ \A j, k \in DOMAIN a : a[j] = a[k] => j = k
           /\ \A i \in K : \E k \in DOMAIN a : a[k] = i
  <1> DEFINE m == Cardinality(K)
             a == Ascending(K)
             at(k) == CHOOSE i \in K : Rank(K, i) = k - 1
  <1>2. /\ m \in Nat
        /\ \A i \in K : Rank(K, i) \in 0..(m - 1)
        /\ \A i, j \in K : Rank(K, i) = Rank(K, j) => i = j
        /\ \A k \in 0..(m - 1) : \E i \in K : Rank(K, i) = k
    BY RankNumbers, Zenon
  <1>3. \A k \in 1..m : at(k) \in K /\ Rank(K, at(k)) = k - 1
    <2> SUFFICES ASSUME NEW k \in 1..m PROVE at(k) \in K /\ Rank(K, at(k)) = k - 1
      OBVIOUS
    <2>1. k - 1 \in 0..(m - 1)
      <3> HIDE DEF m
      <3> QED BY <1>2
    <2> HIDE DEF m
    <2> QED BY <1>2, <2>1
  <1>4. a = [k \in 1..m |-> at(k)]
    BY DEF Ascending, Rank
  <1> HIDE DEF at, m
  <1>5. \A k \in 1..m : a[k] \in K /\ Rank(K, a[k]) = k - 1
    BY <1>3, <1>4
  <1>6. a \in Seq(K) /\ Len(a) = m /\ DOMAIN a = 1..m
    <2> HIDE DEF a
    <2>1. a \in [1..m -> K]
      BY <1>3, <1>4
    <2> QED BY <1>2, <2>1
  <1> HIDE DEF a
  <1>7. \A j, k \in 1..m : a[j] = a[k] => j = k
    BY <1>2, <1>5
  <1>8. ASSUME NEW i \in K
        PROVE  \E k \in 1..m : a[k] = i
    <2> DEFINE k == Rank(K, i) + 1
    <2>1. k \in 1..m /\ k - 1 = Rank(K, i)
      BY <1>2
    <2> HIDE DEF k
    <2>2. a[k] \in K /\ Rank(K, a[k]) = Rank(K, i)
      BY <1>5, <2>1
    <2>3. a[k] = i
      BY <1>2, <2>2
    <2> QED BY <2>1, <2>3
  <1> QED BY <1>2, <1>6, <1>7, <1>8 DEF a, m

LEMMA TimesAscending ==
    ASSUME NEW N \in Nat, NEW K \in SUBSET (1..N), NEW x
    PROVE  Times(Ascending(K), x) = IF x \in K THEN 1 ELSE 0
  <1> DEFINE m == Cardinality(K)
             a == Ascending(K)
             I == {i \in DOMAIN a : a[i] = x}
  <1>1. /\ m \in Nat /\ a \in Seq(K) /\ DOMAIN a = 1..m
        /\ \A j, k \in DOMAIN a : a[j] = a[k] => j = k
        /\ \A i \in K : \E k \in DOMAIN a : a[k] = i
    BY AscendingFacts
  <1> HIDE DEF m, a
  <1>2. CASE x \in K
    <2>1. PICK k \in DOMAIN a : a[k] = x
      BY <1>1, <1>2
    <2>2. I = {k}
      BY <1>1, <2>1
    <2>3. Cardinality(I) = 1
      BY <2>2, FS_Singleton
    <2> QED BY <1>2, <2>3 DEF Times, a
  <1>3. CASE x \notin K
    <2>1. I = {}
      BY <1>1, <1>3
    <2>2. Cardinality(I) = 0
      BY <2>1, FS_EmptySet
    <2> QED BY <1>3, <2>2 DEF Times, a
  <1> QED BY <1>2, <1>3
-----------------------------------------------------------------------------
(* The path down the tree, and how high a slot's stack was where each block *)
(* was entered: what the blocks above have pushed comes on top of the seed. *)
List(s) == s \in Seq(Elements(s))

FrameShape(f, C) ==
    /\ f = [block |-> f.block, next |-> f.next, left |-> f.left, pushed |-> f.pushed]
    /\ f.next \in Nat /\ f.pushed \in Seq(C)
    /\ f.next = 0 => f.pushed = << >>
PathShape(p, C) == List(p) /\ \A k \in DOMAIN p : FrameShape(p[k], C)

Climbs(h, p, a, from, to) ==
    /\ h \in [1..(Len(p) + 1) -> Nat]
    /\ h[1] = from /\ h[Len(p) + 1] = to
    /\ \A k \in 1..Len(p) : h[k + 1] = h[k] + Times(p[k].pushed, a)

LEMMA ListFacts ==
    ASSUME NEW s, List(s)
    PROVE  /\ Len(s) \in Nat /\ DOMAIN s = 1..Len(s)
           /\ s = << >> <=> Len(s) = 0
           /\ \A x : /\ List(Append(s, x)) /\ Len(Append(s, x)) = Len(s) + 1
                     /\ Append(s, x)[Len(s) + 1] = x
                     /\ \A i \in 1..Len(s) : Append(s, x)[i] = s[i]
           /\ \A n \in 0..Len(s) : /\ List(SubSeq(s, 1, n)) /\ Len(SubSeq(s, 1, n)) = n
                                   /\ \A i \in 1..n : SubSeq(s, 1, n)[i] = s[i]
  <1>1. s \in Seq(Elements(s))
    BY DEF List
  <1>2. Len(s) \in Nat /\ DOMAIN s = 1..Len(s) /\ (s = << >> <=> Len(s) = 0)
    BY <1>1
  <1>3. ASSUME NEW x
        PROVE  /\ List(Append(s, x)) /\ Len(Append(s, x)) = Len(s) + 1
               /\ Append(s, x)[Len(s) + 1] = x
               /\ \A i \in 1..Len(s) : Append(s, x)[i] = s[i]
    <2> DEFINE S == Elements(s) \cup {x}
               t == Append(s, x)
    <2>1. s \in Seq(S) /\ x \in S
      BY <1>1
    <2> HIDE DEF S
    <2>2. t \in Seq(S) /\ Len(t) = Len(s) + 1 /\ t[Len(s) + 1] = x /\ \A i \in 1..Len(s) : t[i] = s[i]
      BY <2>1, AppendProperties
    <2> HIDE DEF t
    <2>3. t \in Seq(Elements(t))
      BY <2>2 DEF Elements
    <2> QED BY <2>2, <2>3 DEF t, List
  <1>4. ASSUME NEW n \in 0..Len(s)
        PROVE  /\ List(SubSeq(s, 1, n)) /\ Len(SubSeq(s, 1, n)) = n
               /\ \A i \in 1..n : SubSeq(s, 1, n)[i] = s[i]
    <2> DEFINE t == SubSeq(s, 1, n)
    <2>1. t = [i \in 1..n |-> s[i]]
      BY <1>1, <1>2
    <2> HIDE DEF t
    <2>2. Len(t) = n /\ DOMAIN t = 1..n /\ \A i \in 1..n : t[i] = s[i]
      BY <1>2, <2>1
    <2>3. t \in Seq(Elements(t))
      BY <1>2, <2>1, <2>2 DEF Elements
    <2> QED BY <2>2, <2>3 DEF t, List
  <1> QED BY <1>2, <1>3, <1>4

(* The top frame has pushed more.                                           *)
LEMMA PathOn ==
    ASSUME NEW C, NEW p, PathShape(p, C), p # << >>, NEW g, FrameShape(g, C)
    PROVE  LET n == Len(p)
               r == Append(SubSeq(p, 1, Len(p) - 1), g)
           IN  /\ n \in Nat /\ n > 0 /\ DOMAIN p = 1..n
               /\ PathShape(r, C) /\ Len(r) = n /\ r[n] = g
               /\ \A i \in 1..(n - 1) : r[i] = p[i]
  <1> DEFINE n == Len(p)
             q == SubSeq(p, 1, n - 1)
             r == Append(q, g)
  <1>1. /\ n \in Nat /\ n > 0 /\ DOMAIN p = 1..n
        /\ List(q) /\ Len(q) = n - 1
        /\ \A i \in 1..(n - 1) : q[i] = p[i]
    <2>1. n \in Nat /\ n > 0 /\ DOMAIN p = 1..n
      BY ListFacts DEF PathShape
    <2>2. n - 1 \in 0..n
      BY <2>1
    <2> QED BY <2>1, <2>2, ListFacts DEF PathShape
  <1>2. /\ List(r) /\ Len(r) = n /\ DOMAIN r = 1..n /\ r[n] = g
        /\ \A i \in 1..(n - 1) : r[i] = p[i]
    <2> HIDE DEF q
    <2>0. List(q)
      BY <1>1
    <2> HIDE DEF n
    <2>1. /\ List(r) /\ Len(r) = Len(q) + 1 /\ r[Len(q) + 1] = g
          /\ \A i \in 1..Len(q) : r[i] = q[i]
      BY <2>0, ListFacts
    <2> HIDE DEF r
    <2>2. DOMAIN r = 1..Len(r)
      BY <2>1, ListFacts
    <2>3. Len(q) + 1 = n
      BY <1>1
    <2> QED BY <1>1, <2>1, <2>2, <2>3
  <1> HIDE DEF r, q
  <1>3. PathShape(r, C)
    <2>1. ASSUME NEW k \in DOMAIN r PROVE FrameShape(r[k], C)
      <3>1. k = n \/ k \in 1..(n - 1)
        BY <1>1, <1>2, <2>1
      <3> QED BY <1>1, <1>2, <2>1, <3>1 DEF PathShape
    <2> QED BY <1>2, <2>1 DEF PathShape
  <1> QED BY <1>1, <1>2, <1>3 DEF r, q, n

LEMMA ClimbOn ==
    ASSUME NEW C, NEW p, PathShape(p, C), p # << >>, NEW a, NEW from, NEW to \in Nat, NEW h,
           Climbs(h, p, a, from, to), NEW g, FrameShape(g, C), NEW to2 \in Nat,
           to2 + Times(p[Len(p)].pushed, a) = to + Times(g.pushed, a)
    PROVE  \E h2 : Climbs(h2, Append(SubSeq(p, 1, Len(p) - 1), g), a, from, to2)
  <1> DEFINE n == Len(p)
             r == Append(SubSeq(p, 1, Len(p) - 1), g)
             h2 == [h EXCEPT ![n + 1] = to2]
  <1>1. /\ n \in Nat /\ n > 0 /\ DOMAIN p = 1..n
        /\ PathShape(r, C) /\ Len(r) = n /\ r[n] = g
        /\ \A i \in 1..(n - 1) : r[i] = p[i]
    BY PathOn
  <1> HIDE DEF r
  <1>4. /\ h \in [1..(n + 1) -> Nat] /\ h[1] = from /\ h[n + 1] = to
        /\ \A k \in 1..n : h[k + 1] = h[k] + Times(p[k].pushed, a)
    BY DEF Climbs
  <1>5. /\ Times(p[n].pushed, a) \in Nat /\ Times(g.pushed, a) \in Nat
    <2>1. p[n].pushed \in Seq(C) /\ g.pushed \in Seq(C)
      BY <1>1 DEF PathShape, FrameShape
    <2>2. ASSUME NEW s \in Seq(C) PROVE Times(s, a) \in Nat
      BY TimesNatural
    <2> QED BY <2>1, <2>2
  <1> HIDE DEF n
  <1>6. /\ h2 \in [1..(n + 1) -> Nat] /\ h2[1] = from /\ h2[n + 1] = to2
        /\ \A k \in 1..n : h2[k] = h[k]
    BY <1>1, <1>4
  <1> HIDE DEF h2
  <1>7. ASSUME NEW k \in 1..n PROVE h2[k + 1] = h2[k] + Times(r[k].pushed, a)
    <2>1. CASE k = n
      <3>1. h[n + 1] = h[n] + Times(p[n].pushed, a) /\ h[n] \in Nat
        BY <1>1, <1>4
      <3>2. to2 = h[n] + Times(g.pushed, a)
        BY <1>4, <1>5, <3>1 DEF n
      <3> QED BY <1>1, <1>6, <2>1, <3>2
    <2>2. CASE k # n
      <3>1. k \in 1..(n - 1) /\ k + 1 \in 1..n
        BY <1>1, <2>2
      <3> QED BY <1>1, <1>4, <1>6, <3>1
    <2> QED BY <2>1, <2>2
  <1>8. Climbs(h2, r, a, from, to2)
    BY <1>1, <1>6, <1>7 DEF Climbs
  <1> QED BY <1>8 DEF r

(* A block is entered; it has pushed nothing.                               *)
LEMMA PathIn ==
    ASSUME NEW C, NEW p, PathShape(p, C), NEW g, FrameShape(g, C)
    PROVE  LET n == Len(p)
               r == Append(p, g)
           IN  /\ n \in Nat /\ PathShape(r, C) /\ Len(r) = n + 1 /\ r[n + 1] = g
               /\ \A i \in 1..n : r[i] = p[i]
  <1> DEFINE n == Len(p)
             r == Append(p, g)
  <1>1. /\ n \in Nat /\ DOMAIN p = 1..n /\ List(r) /\ Len(r) = n + 1 /\ r[n + 1] = g
        /\ \A i \in 1..n : r[i] = p[i]
    BY ListFacts DEF PathShape
  <1> HIDE DEF r
  <1>2. DOMAIN r = 1..(n + 1)
    BY <1>1, ListFacts
  <1>3. PathShape(r, C)
    <2>1. ASSUME NEW k \in DOMAIN r PROVE FrameShape(r[k], C)
      <3>1. k = n + 1 \/ k \in 1..n
        BY <1>1, <1>2, <2>1
      <3> QED BY <1>1, <2>1, <3>1 DEF PathShape
    <2> QED BY <1>1, <2>1 DEF PathShape
  <1> QED BY <1>1, <1>3 DEF r

LEMMA ClimbIn ==
    ASSUME NEW C, NEW p, PathShape(p, C), NEW a, NEW from, NEW to, NEW h,
           Climbs(h, p, a, from, to), NEW g, FrameShape(g, C), g.pushed = << >>
    PROVE  \E h2 : Climbs(h2, Append(p, g), a, from, to)
  <1> DEFINE n == Len(p)
             r == Append(p, g)
             h2 == [k \in 1..(n + 2) |-> IF k = n + 2 THEN to ELSE h[k]]
  <1>1. /\ n \in Nat /\ PathShape(r, C) /\ Len(r) = n + 1 /\ r[n + 1] = g
        /\ \A i \in 1..n : r[i] = p[i]
    BY PathIn
  <1> HIDE DEF r
  <1>4. /\ h \in [1..(n + 1) -> Nat] /\ h[1] = from /\ h[n + 1] = to
        /\ \A k \in 1..n : h[k + 1] = h[k] + Times(p[k].pushed, a)
    BY DEF Climbs
  <1> HIDE DEF n
  <1>5. /\ h2 \in [1..(n + 2) -> Nat] /\ h2[1] = from /\ h2[n + 2] = to
        /\ \A k \in 1..(n + 1) : h2[k] = h[k]
    BY <1>1, <1>4
  <1> HIDE DEF h2
  <1>6. ASSUME NEW k \in 1..(n + 1) PROVE h2[k + 1] = h2[k] + Times(r[k].pushed, a)
    <2>1. CASE k = n + 1
      <3>1. h2[k + 1] = to /\ h2[k] = to /\ to \in Nat
        BY <1>1, <1>4, <1>5, <2>1
      <3>2. Times(r[k].pushed, a) = 0
        BY <1>1, <2>1, TimesNone
      <3> QED BY <3>1, <3>2
    <2>2. CASE k # n + 1
      <3>1. k \in 1..n /\ k + 1 \in 1..(n + 1)
        BY <1>1, <2>2
      <3> QED BY <1>1, <1>4, <1>5, <3>1
    <2> QED BY <2>1, <2>2
  <1>7. Climbs(h2, r, a, from, to)
    BY <1>1, <1>5, <1>6 DEF Climbs
  <1> QED BY <1>7 DEF r

(* A block is left.                                                         *)
LEMMA PathOut ==
    ASSUME NEW C, NEW p, PathShape(p, C), p # << >>
    PROVE  LET n == Len(p)
               q == SubSeq(p, 1, Len(p) - 1)
           IN  /\ n \in Nat /\ n > 0 /\ DOMAIN p = 1..n
               /\ PathShape(q, C) /\ Len(q) = n - 1
               /\ \A i \in 1..(n - 1) : q[i] = p[i]
  <1> DEFINE n == Len(p)
             q == SubSeq(p, 1, n - 1)
  <1>1. /\ n \in Nat /\ n > 0 /\ DOMAIN p = 1..n
        /\ List(q) /\ Len(q) = n - 1
        /\ \A i \in 1..(n - 1) : q[i] = p[i]
    <2>1. n \in Nat /\ n > 0 /\ DOMAIN p = 1..n
      BY ListFacts DEF PathShape
    <2>2. n - 1 \in 0..n
      BY <2>1
    <2> QED BY <2>1, <2>2, ListFacts DEF PathShape
  <1> HIDE DEF q
  <1>2. DOMAIN q = 1..(n - 1)
    <2> HIDE DEF n
    <2> QED BY <1>1, ListFacts
  <1>3. PathShape(q, C)
    <2>1. ASSUME NEW k \in DOMAIN q PROVE FrameShape(q[k], C)
      <3>1. k \in 1..(n - 1) /\ k \in DOMAIN p
        BY <1>1, <1>2, <2>1
      <3> QED BY <1>1, <3>1 DEF PathShape
    <2> QED BY <1>1, <2>1 DEF PathShape
  <1> QED BY <1>1, <1>3 DEF q, n

LEMMA ClimbOut ==
    ASSUME NEW C, NEW p, PathShape(p, C), p # << >>, NEW a, NEW from, NEW to \in Nat, NEW h,
           Climbs(h, p, a, from, to)
    PROVE  LET q == SubSeq(p, 1, Len(p) - 1)
               less == to - Times(p[Len(p)].pushed, a)
           IN  /\ less \in Nat /\ Times(p[Len(p)].pushed, a) \in Nat
               /\ \E h2 : Climbs(h2, q, a, from, less)
  <1> DEFINE n == Len(p)
             q == SubSeq(p, 1, Len(p) - 1)
             less == to - Times(p[n].pushed, a)
             h2 == [k \in 1..n |-> h[k]]
  <1>1. /\ n \in Nat /\ n > 0 /\ DOMAIN p = 1..n
        /\ PathShape(q, C) /\ Len(q) = n - 1
        /\ \A i \in 1..(n - 1) : q[i] = p[i]
    BY PathOut
  <1> HIDE DEF q
  <1>4. /\ h \in [1..(n + 1) -> Nat] /\ h[1] = from /\ h[n + 1] = to
        /\ \A k \in 1..n : h[k + 1] = h[k] + Times(p[k].pushed, a)
    BY DEF Climbs
  <1>5. Times(p[n].pushed, a) \in Nat
    <2>1. p[n].pushed \in Seq(C)
      BY <1>1 DEF PathShape, FrameShape
    <2>2. ASSUME NEW s \in Seq(C) PROVE Times(s, a) \in Nat
      BY TimesNatural
    <2> QED BY <2>1, <2>2
  <1>6. h[n] = less /\ less \in Nat
    <2>1. h[n + 1] = h[n] + Times(p[n].pushed, a) /\ h[n] \in Nat
      BY <1>1, <1>4
    <2> QED BY <1>4, <1>5, <2>1
  <1> HIDE DEF n, less
  <1>7. /\ h2 \in [1..n -> Nat] /\ h2[1] = from /\ h2[n] = less
        /\ \A k \in 1..n : h2[k] = h[k]
    BY <1>1, <1>4, <1>6
  <1> HIDE DEF h2
  <1>8. ASSUME NEW k \in 1..(n - 1) PROVE h2[k + 1] = h2[k] + Times(q[k].pushed, a)
    <2>1. k \in 1..n /\ k + 1 \in 1..n
      BY <1>1
    <2> QED BY <1>1, <1>4, <1>7, <2>1
  <1>9. Climbs(h2, q, a, from, less)
    <2>1. Len(q) + 1 = n
      BY <1>1
    <2> QED BY <1>1, <1>7, <1>8, <2>1 DEF Climbs
  <1> QED BY <1>5, <1>6, <1>9 DEF q, less, n
-----------------------------------------------------------------------------
(* The inductive invariant.                                                 *)
Phases == {"start", "place", "rename", "fill", "rewrite", "done"}

(* A block has at most one phi for a slot.                                  *)
OnePhi == \A p, q \in phis : p[1] = q[1] /\ p[2] = q[2] => p = q

(* Every candidate comes once, and phis are for candidates.                 *)
Slots ==
    /\ \E n \in Nat : candidates \in Seq(1..n)
    /\ \A j, k \in DOMAIN candidates : candidates[j] = candidates[k] => j = k
    /\ \A p \in phis : p[2] \in Elements(candidates)
    /\ OnePhi

Untouched == phis = {} /\ slot = 0 /\ worklist = << >>

(* Phis are for the slots so far, and those for the current one are where   *)
(* placed says.                                                             *)
Placing ==
    /\ \E n \in Nat : /\ Blocks(func) = 1..n /\ DOMAIN tree.frontier = 1..n
                      /\ \A b \in 1..n : tree.frontier[b] \subseteq 1..n
    /\ slot \in 0..Len(candidates)
    /\ worklist \in Seq(Blocks(func))
    /\ slot = 0 => worklist = << >>
    /\ \A p \in phis : \E k \in 1..slot : p[2] = candidates[k] /\ (k = slot => p[1] \in placed)

Seed(a) == IF HasPhi(a) THEN 1 ELSE 0

(* On top of its seed a stack holds what the path has pushed.               *)
Renaming ==
    /\ stacks = [a \in Elements(candidates) |-> stacks[a]]
    /\ \A a \in Elements(candidates) : List(stacks[a])
    /\ PathShape(path, Elements(candidates))
    /\ \A a \in Elements(candidates) : \E h : Climbs(h, path, a, Seed(a), Len(stacks[a]))

PromoteInv ==
    /\ phase \in Phases
    /\ phase = "start" => IsFunction(func) /\ Untouched
    /\ phase \in {"place", "rename"} => Slots
    /\ phase = "place" => Placing
    /\ phase = "rename" => Renaming
    /\ StacksRestored

LEMMA TakeUpKeeps == TakeUp => PromoteInv'
  <1> SUFFICES ASSUME TakeUp PROVE PromoteInv'
    OBVIOUS
  <1>1. PICK f : IsFunction(f) /\ StartPromotion(f)
    BY DEF TakeUp
  <1>2. phase' = "start" /\ func' = f /\ phis' = {} /\ slot' = 0 /\ worklist' = << >>
    BY <1>1 DEF StartPromotion
  <1>3. IsFunction(func') /\ Untouched'
    BY <1>1, <1>2 DEF Untouched
  <1> QED BY <1>2, <1>3 DEF PromoteInv, Phases, StacksRestored

(* collect_candidates answers with values of the function.                  *)
LEMMA CandidatesNumbered ==
    ASSUME IsFunction(func)
    PROVE  \E n \in Nat : Candidates \subseteq 1..n
  <1>1. PICK n \in Nat : Values(func) = 1..n
    BY DEF IsFunction, Numbered
  <1>2. \A s \in Sites(func) : OpAt(s).op = "alloca" => ResultAt(func, s) \in 1..n
    BY <1>1 DEF IsFunction, At, OpAt, ResultAt
  <1>3. ScalarSlots \subseteq 1..n
    BY <1>2 DEF ScalarSlots
  <1>4. Candidates \subseteq 1..n
    BY <1>3 DEF Candidates
  <1> QED BY <1>4

LEMMA FrontierShape ==
    ASSUME NEW f, IsFunction(f)
    PROVE  LET frontier == Dominance(f).frontier IN
           /\ DOMAIN frontier = Blocks(f)
           /\ \A b \in Blocks(f) : frontier[b] \subseteq Blocks(f)
  <1> DEFINE frontier == Dominance(f).frontier
  <1>1. DOMAIN frontier = Blocks(f)
    BY DEF Dominance
  <1>2. ASSUME NEW b \in Blocks(f), NEW j \in frontier[b]
        PROVE  j \in Blocks(f)
    <2>1. Predecessors(f, j) # {}
      BY <1>2 DEF Dominance
    <2>2. PICK p \in Blocks(f) : j \in Successors(f, p)
      BY <2>1 DEF Predecessors
    <2> QED BY <2>2 DEF IsFunction
  <1> HIDE DEF frontier
  <1>3. \A b \in Blocks(f) : frontier[b] \subseteq Blocks(f)
    BY <1>2
  <1> QED BY <1>1, <1>3 DEF frontier

LEMMA CollectKeeps == PromoteInv /\ Collect => PromoteInv'
  <1> SUFFICES ASSUME PromoteInv, Collect PROVE PromoteInv'
    OBVIOUS
  <1>1. /\ IsFunction(func) /\ Untouched
        /\ tree' = Dominance(func) /\ candidates' = Ascending(Candidates)
        /\ phase' = (IF candidates' = << >> THEN "done" ELSE "place")
        /\ func' = func /\ phis' = phis /\ slot' = slot /\ worklist' = worklist
    BY DEF PromoteInv, Collect, placeVars
  <1>2. PICK n \in Nat : Candidates \subseteq 1..n
    BY <1>1, CandidatesNumbered
  <1> DEFINE K == Candidates
  <1>3. K \in SUBSET (1..n) /\ candidates' = Ascending(K)
    BY <1>1, <1>2
  <1> HIDE DEF K
  <1>4. /\ candidates' \in Seq(K)
        /\ \A j, k \in DOMAIN candidates' : candidates'[j] = candidates'[k] => j = k
    BY <1>3, AscendingFacts
  <1>5. Slots'
    <2>1. candidates' \in Seq(1..n)
      BY <1>3, <1>4, SeqMonotone
    <2> QED BY <1>1, <1>4, <2>1 DEF Slots, OnePhi, Untouched
  <1>6. Placing'
    <2>1. PICK m \in Nat : Blocks(func) = 1..m
      BY <1>1 DEF IsFunction, Numbered
    <2>2. /\ DOMAIN tree'.frontier = 1..m
          /\ \A b \in 1..m : tree'.frontier[b] \subseteq 1..m
      BY <1>1, <2>1, FrontierShape
    <2>3. Blocks(func') = 1..m
      BY <1>1, <2>1
    <2>4. slot' = 0 /\ worklist' = << >> /\ phis' = {} /\ Len(candidates') \in Nat
      BY <1>1, <1>4 DEF Untouched
    <2> QED BY <2>2, <2>3, <2>4 DEF Placing
  <1>7. phase' \in {"done", "place"}
    BY <1>1
  <1> QED BY <1>5, <1>6, <1>7 DEF PromoteInv, Phases, StacksRestored

LEMMA NextSlotKeeps == PromoteInv /\ NextSlot => PromoteInv'
  <1> SUFFICES ASSUME PromoteInv, NextSlot PROVE PromoteInv'
    OBVIOUS
  <1>1. /\ phase = "place" /\ phase' = "place" /\ slot < Len(candidates) /\ slot' = slot + 1
        /\ worklist' = Ascending(StoreBlocks(candidates'[slot']))
        /\ func' = func /\ tree' = tree /\ candidates' = candidates /\ phis' = phis
    BY DEF NextSlot
  <1>2. Slots /\ Placing
    BY <1>1 DEF PromoteInv
  <1>3. Slots'
    BY <1>1, <1>2 DEF Slots, OnePhi
  <1>4. PICK n \in Nat : /\ Blocks(func) = 1..n /\ DOMAIN tree.frontier = 1..n
                         /\ \A b \in 1..n : tree.frontier[b] \subseteq 1..n
    BY <1>2 DEF Placing
  <1> DEFINE K == StoreBlocks(candidates'[slot'])
  <1>5. K \in SUBSET (1..n)
    BY <1>4 DEF StoreBlocks, Sites
  <1>6. worklist' \in Seq(K)
    <2> HIDE DEF K
    <2> QED BY <1>1, <1>5, AscendingFacts DEF K
  <1>7. worklist' \in Seq(Blocks(func'))
    <2> HIDE DEF K
    <2>1. worklist' \in Seq(1..n)
      BY <1>5, <1>6, SeqMonotone
    <2> QED BY <1>1, <1>4, <2>1
  <1>8. slot' \in 0..Len(candidates') /\ slot \in Nat
    <2>1. Len(candidates) \in Nat
      BY <1>2 DEF Slots
    <2> QED BY <1>1, <1>2, <2>1 DEF Placing
  <1>9. ASSUME NEW p \in phis
        PROVE  \E k \in 1..slot' : p[2] = candidates[k] /\ k # slot'
    <2>1. PICK k \in 1..slot : p[2] = candidates[k]
      BY <1>2 DEF Placing
    <2>2. k \in 1..slot' /\ k # slot'
      BY <1>1, <1>8
    <2> QED BY <2>1, <2>2
  <1>10. Placing'
    <2>1. \A p \in phis' : \E k \in 1..slot' : p[2] = candidates'[k] /\ (k = slot' => p[1] \in placed')
      BY <1>1, <1>9
    <2>2. Blocks(func') = 1..n
      BY <1>1, <1>4
    <2>3. slot' # 0
      BY <1>1, <1>8
    <2> QED BY <1>1, <1>4, <1>7, <1>8, <2>1, <2>2, <2>3 DEF Placing
  <1> QED BY <1>1, <1>3, <1>10 DEF PromoteInv, Phases, StacksRestored

(* A phi for a slot is placed where there was none for it.                  *)
LEMMA PlaceKeeps == PromoteInv /\ PlaceAtFrontier => PromoteInv'
  <1> SUFFICES ASSUME PromoteInv, PlaceAtFrontier PROVE PromoteInv'
    OBVIOUS
  <1> DEFINE J == NewJoins(Head(worklist))
             joins == Ascending(J)
             first == Len(func.kind)
             a == candidates[slot]
             new == {<<joins[k], a, first + k>> : k \in DOMAIN joins}
  <1>1. /\ phase = "place" /\ phase' = "place" /\ worklist # << >>
        /\ func' = WithPhis(func, joins)
        /\ phis' = phis \cup new
        /\ worklist' = Tail(worklist) \o joins
        /\ placed' = placed \cup Elements(joins)
        /\ slot' = slot /\ tree' = tree /\ candidates' = candidates
    BY DEF PlaceAtFrontier
  <1>2. Slots /\ Placing
    BY <1>1 DEF PromoteInv
  <1>3. PICK n \in Nat : /\ Blocks(func) = 1..n /\ DOMAIN tree.frontier = 1..n
                         /\ \A b \in 1..n : tree.frontier[b] \subseteq 1..n
    BY <1>2 DEF Placing
  <1>4. Head(worklist) \in 1..n
    BY <1>1, <1>2, <1>3 DEF Placing
  <1>5. J \in SUBSET (1..n) /\ J \cap placed = {}
    BY <1>3, <1>4 DEF NewJoins
  <1> HIDE DEF J
  <1>6. /\ joins \in Seq(J)
        /\ \A j, k \in DOMAIN joins : joins[j] = joins[k] => j = k
    BY <1>5, AscendingFacts
  <1> HIDE DEF joins, first, a
  <1>7. Blocks(func') = 1..n
    <2>1. DOMAIN WithPhis(func, joins).blocks = DOMAIN func.blocks
      BY DEF WithPhis
    <2> QED BY <1>1, <1>3, <2>1 DEF Blocks
  <1>8. worklist' \in Seq(1..n)
    <2>1. worklist \in Seq(1..n) /\ joins \in Seq(1..n)
      <3>1. worklist \in Seq(1..n)
        BY <1>2, <1>3 DEF Placing
      <3> QED BY <1>5, <1>6, <3>1, SeqMonotone
    <2>2. Tail(worklist) \in Seq(1..n)
      BY <1>1, <2>1
    <2> QED BY <1>1, <2>1, <2>2, ConcatProperties
  <1>9. /\ Len(candidates) \in Nat /\ slot \in 1..Len(candidates)
        /\ DOMAIN candidates = 1..Len(candidates)
    <2>1. slot \in 0..Len(candidates) /\ slot # 0
      BY <1>1, <1>2 DEF Placing
    <2>2. Len(candidates) \in Nat /\ DOMAIN candidates = 1..Len(candidates)
      BY <1>2 DEF Slots
    <2> QED BY <2>1, <2>2
  <1>10. ASSUME NEW p \in phis'
         PROVE  \/ /\ p \in phis
                   /\ \E k \in 1..slot : p[2] = candidates[k] /\ (k = slot => p[1] \in placed)
                \/ \E k \in DOMAIN joins : /\ p = <<joins[k], a, first + k>>
                                           /\ joins[k] \in Elements(joins) /\ joins[k] \notin placed
    <2>1. CASE p \in phis
      BY <1>2, <2>1 DEF Placing
    <2>2. CASE p \in new
      <3>1. PICK k \in DOMAIN joins : p = <<joins[k], a, first + k>>
        BY <2>2
      <3>2. joins[k] \in J /\ joins[k] \in Elements(joins)
        BY <1>6, <3>1 DEF Elements
      <3> QED BY <1>5, <3>1, <3>2
    <2> QED BY <1>1, <2>1, <2>2
  <1> HIDE DEF new
  <1>11. \A p \in phis' : \E k \in 1..slot' : p[2] = candidates'[k] /\ (k = slot' => p[1] \in placed')
    <2> SUFFICES ASSUME NEW p \in phis'
                 PROVE  \E k \in 1..slot : p[2] = candidates[k] /\ (k = slot => p[1] \in placed')
      BY <1>1
    <2>1. CASE p \in phis /\ \E k \in 1..slot : p[2] = candidates[k] /\ (k = slot => p[1] \in placed)
      BY <1>1, <2>1
    <2>2. CASE \E k \in DOMAIN joins : p = <<joins[k], a, first + k>> /\ joins[k] \in Elements(joins)
      <3>1. p[2] = candidates[slot] /\ p[1] \in placed'
        BY <1>1, <2>2 DEF a
      <3>2. slot \in 1..slot
        BY <1>9
      <3> QED BY <3>1, <3>2
    <2> QED BY <1>10, <2>1, <2>2
  <1>12. Placing'
    <2>1. slot' # 0 /\ slot' \in 0..Len(candidates')
      BY <1>1, <1>9
    <2> QED BY <1>1, <1>3, <1>7, <1>8, <1>11, <2>1 DEF Placing
  <1>13. OnePhi'
    <2> SUFFICES ASSUME NEW p \in phis', NEW q \in phis', p[1] = q[1], p[2] = q[2]
                 PROVE  p = q
      BY DEF OnePhi
    <2>1. ASSUME NEW x \in phis, NEW k \in DOMAIN joins, x[1] = joins[k], x[2] = a,
                 joins[k] \notin placed
          PROVE  FALSE
      <3>1. PICK i \in 1..slot : x[2] = candidates[i] /\ (i = slot => x[1] \in placed)
        BY <1>2 DEF Placing
      <3>2. i \in DOMAIN candidates /\ slot \in DOMAIN candidates /\ candidates[i] = candidates[slot]
        BY <1>9, <2>1, <3>1 DEF a
      <3>3. i = slot
        BY <1>2, <3>2 DEF Slots
      <3> QED BY <2>1, <3>1, <3>3
    <2> DEFINE New(x) == \E k \in DOMAIN joins : x = <<joins[k], a, first + k>> /\ joins[k] \notin placed
    <2>2. (p \in phis \/ New(p)) /\ (q \in phis \/ New(q))
      BY <1>10
    <2>3. CASE p \in phis /\ q \in phis
      BY <1>2, <2>3 DEF Slots, OnePhi
    <2>4. CASE p \in phis /\ New(q)
      BY <2>1, <2>4
    <2>5. CASE New(p) /\ q \in phis
      BY <2>1, <2>5
    <2>6. CASE New(p) /\ New(q)
      BY <1>6, <2>6
    <2> QED BY <2>2, <2>3, <2>4, <2>5, <2>6
  <1>14. \A p \in phis' : p[2] \in Elements(candidates')
    <2> SUFFICES ASSUME NEW p \in phis' PROVE p[2] \in Elements(candidates)
      BY <1>1
    <2>1. PICK k \in 1..slot : p[2] = candidates[k]
      BY <1>1, <1>11
    <2>2. k \in DOMAIN candidates
      BY <1>9
    <2> QED BY <2>1, <2>2 DEF Elements
  <1>15. Slots'
    BY <1>1, <1>2, <1>13, <1>14 DEF Slots
  <1> QED BY <1>1, <1>12, <1>15 DEF PromoteInv, Phases, StacksRestored
-----------------------------------------------------------------------------
(* The renaming.                                                            *)
LEMMA ListConcat ==
    ASSUME NEW s, NEW t, List(s), List(t)
    PROVE  List(s \o t) /\ Len(s \o t) = Len(s) + Len(t)
  <1> DEFINE S == Elements(s) \cup Elements(t)
             u == s \o t
  <1>1. s \in Seq(S) /\ t \in Seq(S)
    BY DEF List
  <1> HIDE DEF S
  <1>2. u \in Seq(S) /\ Len(u) = Len(s) + Len(t)
    BY <1>1, ConcatProperties
  <1> HIDE DEF u
  <1>3. u \in Seq(Elements(u))
    BY <1>2 DEF Elements
  <1> QED BY <1>2, <1>3 DEF List, u

LEMMA AscendingLength ==
    ASSUME NEW K, Cardinality(K) \in Nat
    PROVE  List(Ascending(K)) /\ Len(Ascending(K)) = Cardinality(K)
  <1> DEFINE a == Ascending(K)
             m == Cardinality(K)
             at(i) == CHOOSE x \in K : Cardinality({y \in K : y < x}) = i - 1
  <1>1. a = [i \in 1..m |-> at(i)]
    BY DEF Ascending
  <1> HIDE DEF a, m, at
  <1>2. DOMAIN a = 1..m /\ m \in Nat
    BY <1>1 DEF m
  <1>3. Len(a) = m /\ a \in Seq(Elements(a))
    BY <1>1, <1>2 DEF Elements
  <1> QED BY <1>3 DEF List, a, m

(* The path's last frame moves on, and the stacks with it.                  *)
LEMMA FrameMoves ==
    ASSUME Renaming, Slots, path # << >>,
           NEW g, FrameShape(g, Elements(candidates)),
           path' = Append(Above, g), candidates' = candidates, phis' = phis,
           stacks' = [a \in Elements(candidates) |-> stacks'[a]],
           \A a \in Elements(candidates) :
               /\ List(stacks'[a])
               /\ Len(stacks'[a]) + Times(Frame.pushed, a) = Len(stacks[a]) + Times(g.pushed, a)
    PROVE  Renaming' /\ Slots'
  <1> DEFINE C == Elements(candidates)
  <1>1. Slots'
    BY DEF Slots, OnePhi
  <1>2. PathShape(path, C) /\ \A a \in C : List(stacks[a])
    BY DEF Renaming
  <1>3. ASSUME NEW a \in C
        PROVE  \E h : Climbs(h, path', a, Seed(a), Len(stacks'[a]))
    <2>1. PICK h : Climbs(h, path, a, Seed(a), Len(stacks[a]))
      BY DEF Renaming
    <2>2. Len(stacks[a]) \in Nat /\ Len(stacks'[a]) \in Nat
      BY <1>2, ListFacts
    <2>3. Len(stacks'[a]) + Times(path[Len(path)].pushed, a) = Len(stacks[a]) + Times(g.pushed, a)
      BY DEF Frame
    <2> DEFINE from == Seed(a)
               to == Len(stacks[a])
               to2 == Len(stacks'[a])
    <2> HIDE DEF from, to, to2
    <2>4. \E h2 : Climbs(h2, Append(SubSeq(path, 1, Len(path) - 1), g), a, from, to2)
      <3> HIDE DEF C
      <3>1. Climbs(h, path, a, from, to) /\ to \in Nat /\ to2 \in Nat
        BY <2>1, <2>2 DEF from, to, to2
      <3>2. to2 + Times(path[Len(path)].pushed, a) = to + Times(g.pushed, a)
        BY <2>3 DEF to, to2
      <3> QED BY <1>2, <3>1, <3>2, ClimbOn DEF C
    <2> QED BY <2>4 DEF Above, from, to2
  <1>4. PathShape(path', C)
    BY <1>2, PathOn DEF Above
  <1>5. \A a \in C : Seed(a)' = Seed(a)
    BY DEF Seed, HasPhi
  <1> QED BY <1>1, <1>3, <1>4, <1>5 DEF Renaming
LEMMA RenameFacts ==
    ASSUME PromoteInv, phase = "rename"
    PROVE  /\ Renaming /\ Slots
           /\ DOMAIN stacks = Elements(candidates)
           /\ \A a \in Elements(candidates) : List(stacks[a]) /\ Len(stacks[a]) \in Nat
           /\ path # << >> =>
                 /\ FrameShape(Frame, Elements(candidates))
                 /\ \A a : Times(Frame.pushed, a) \in Nat
  <1>1. Renaming /\ Slots
    BY DEF PromoteInv
  <1>2. DOMAIN stacks = Elements(candidates)
    BY <1>1 DEF Renaming
  <1>3. \A a \in Elements(candidates) : List(stacks[a]) /\ Len(stacks[a]) \in Nat
    BY <1>1, ListFacts DEF Renaming
  <1>4. ASSUME path # << >>
        PROVE  /\ FrameShape(Frame, Elements(candidates))
               /\ \A a : Times(Frame.pushed, a) \in Nat
    <2>1. Len(path) \in DOMAIN path /\ PathShape(path, Elements(candidates))
      <3>1. PathShape(path, Elements(candidates))
        BY <1>1 DEF Renaming
      <3>2. Len(path) \in Nat /\ Len(path) > 0 /\ DOMAIN path = 1..Len(path)
        BY <1>4, <3>1, PathOut
      <3> QED BY <3>1, <3>2
    <2>2. FrameShape(Frame, Elements(candidates))
      BY <2>1 DEF PathShape, Frame
    <2>3. ASSUME NEW s \in Seq(Elements(candidates)), NEW a PROVE Times(s, a) \in Nat
      BY TimesNatural
    <2> QED BY <2>2, <2>3 DEF FrameShape
  <1> QED BY <1>1, <1>2, <1>3, <1>4

(* A frame that goes on to its next instruction, as it is or with one push. *)
LEMMA AdvancedShape ==
    ASSUME NEW C, NEW f, FrameShape(f, C)
    PROVE  LET g == [f EXCEPT !.next = @ + 1] IN
           FrameShape(g, C) /\ g.pushed = f.pushed
  <1> DEFINE g == [f EXCEPT !.next = @ + 1]
  <1>1. f = [block |-> f.block, next |-> f.next, left |-> f.left, pushed |-> f.pushed]
    BY DEF FrameShape
  <1>2. g = [block |-> f.block, next |-> f.next + 1, left |-> f.left, pushed |-> f.pushed]
    BY <1>1
  <1> HIDE DEF g
  <1>3. g.next = f.next + 1 /\ g.pushed = f.pushed /\ g.block = f.block /\ g.left = f.left
    BY <1>2
  <1>4. f.next \in Nat /\ g.next \in Nat /\ g.next # 0
    BY <1>3 DEF FrameShape
  <1> QED BY <1>2, <1>3, <1>4 DEF FrameShape, g

LEMMA PushedShape ==
    ASSUME NEW C, NEW f, FrameShape(f, C), NEW p \in Seq(C),
           NEW g, g = [block |-> f.block, next |-> f.next + 1, left |-> f.left, pushed |-> p]
    PROVE  FrameShape(g, C) /\ g.pushed = p
  <1>1. g.next = f.next + 1 /\ g.pushed = p /\ g.block = f.block /\ g.left = f.left
    OBVIOUS
  <1>2. f.next \in Nat /\ g.next \in Nat /\ g.next # 0
    BY <1>1 DEF FrameShape
  <1> QED BY <1>1, <1>2 DEF FrameShape

LEMMA InvFromRenaming ==
    ASSUME phase' = "rename", Renaming', Slots'
    PROVE  PromoteInv'
  BY DEF PromoteInv, Phases, StacksRestored

(* Steps that push and pop nothing.                                         *)
LEMMA AdvanceKeeps ==
    ASSUME PromoteInv, phase = "rename", path # << >>, path' = Advanced(Frame),
           phase' = phase, candidates' = candidates, phis' = phis, stacks' = stacks
    PROVE  PromoteInv'
  <1> DEFINE g == [Frame EXCEPT !.next = @ + 1]
             C == Elements(candidates)
  <1>1. /\ Renaming /\ Slots /\ FrameShape(Frame, C)
        /\ \A a \in C : List(stacks[a])
    BY RenameFacts
  <1>2. FrameShape(g, C) /\ g.pushed = Frame.pushed
    BY <1>1, AdvancedShape
  <1>3. path' = Append(Above, g)
    BY DEF Advanced
  <1> HIDE DEF g
  <1>4. stacks' = [a \in C |-> stacks'[a]]
    BY <1>1 DEF Renaming
  <1>5. \A a \in C : /\ List(stacks'[a])
                     /\ Len(stacks'[a]) + Times(Frame.pushed, a) = Len(stacks[a]) + Times(g.pushed, a)
    BY <1>1, <1>2
  <1>6. Renaming' /\ Slots'
    BY <1>1, <1>2, <1>3, <1>4, <1>5, FrameMoves
  <1> QED BY <1>6, InvFromRenaming

LEMMA QuietStepsKeep ==
    PromoteInv /\ (DropAlloca \/ RenameLoad \/ KeepInst \/ FillSuccessors) => PromoteInv'
  <1> SUFFICES ASSUME PromoteInv, DropAlloca \/ RenameLoad \/ KeepInst \/ FillSuccessors
               PROVE  PromoteInv'
    OBVIOUS
  <1>1. /\ phase = "rename" /\ path # << >> /\ path' = Advanced(Frame)
        /\ phase' = phase /\ candidates' = candidates /\ phis' = phis /\ stacks' = stacks
    <2>1. CASE DropAlloca
      BY <2>1 DEF DropAlloca, AtInst, placeVars
    <2>2. CASE RenameLoad
      BY <2>2 DEF RenameLoad, AtInst, placeVars
    <2>3. CASE KeepInst
      BY <2>3 DEF KeepInst, AtInst, placeVars
    <2>4. CASE FillSuccessors
      BY <2>4 DEF FillSuccessors, AtFrame, placeVars
    <2> QED BY <2>1, <2>2, <2>3, <2>4
  <1> QED BY <1>1, AdvanceKeeps

(* A store is pushed and remembered.                                        *)
LEMMA StoreKeeps == PromoteInv /\ RenameStore => PromoteInv'
  <1> SUFFICES ASSUME PromoteInv, RenameStore PROVE PromoteInv'
    OBVIOUS
  <1> DEFINE C == Elements(candidates)
             to == Here.args[1]
             v == Resolve(replaced, Here.args[2])
             p == Append(Frame.pushed, to)
             g == [[Frame EXCEPT !.pushed = p] EXCEPT !.next = @ + 1]
  <1>1. /\ phase = "rename" /\ path # << >> /\ to \in C
        /\ path' = Append(Above, g)
        /\ stacks' = [stacks EXCEPT ![to] = Append(stacks[to], v)]
        /\ phase' = phase /\ candidates' = candidates /\ phis' = phis
    BY DEF RenameStore, AtInst, placeVars, IsCandidate, Push, Advanced
  <1> HIDE DEF v, to
  <1>2. /\ Renaming /\ Slots /\ FrameShape(Frame, C) /\ DOMAIN stacks = C
        /\ \A a \in C : List(stacks[a]) /\ Len(stacks[a]) \in Nat
        /\ \A a : Times(Frame.pushed, a) \in Nat
    BY <1>1, RenameFacts
  <1>3. Frame.pushed \in Seq(C) /\ p \in Seq(C)
    BY <1>1, <1>2 DEF FrameShape
  <1>4. FrameShape(g, C) /\ g.pushed = p
    <2> DEFINE e == [Frame EXCEPT !.pushed = p]
    <2> HIDE DEF p, C
    <2>1. Frame = [block |-> Frame.block, next |-> Frame.next, left |-> Frame.left, pushed |-> Frame.pushed]
      BY <1>2 DEF FrameShape
    <2>2. e = [block |-> Frame.block, next |-> Frame.next, left |-> Frame.left, pushed |-> p]
      BY <2>1
    <2> HIDE DEF e
    <2>3. [e EXCEPT !.next = @ + 1]
            = [block |-> Frame.block, next |-> Frame.next + 1, left |-> Frame.left, pushed |-> p]
      BY <2>2
    <2>4. g = [block |-> Frame.block, next |-> Frame.next + 1, left |-> Frame.left, pushed |-> p]
      BY <2>3 DEF e
    <2> HIDE DEF g
    <2> QED BY <1>2, <1>3, <2>4, PushedShape
  <1>5. \A a : Times(p, a) = Times(Frame.pushed, a) + (IF to = a THEN 1 ELSE 0)
    BY <1>1, <1>3, TimesAppend
  <1> HIDE DEF p, g
  <1>6. stacks' = [a \in C |-> stacks'[a]]
    BY <1>1, <1>2
  <1>7. ASSUME NEW a \in C
        PROVE  /\ List(stacks'[a])
               /\ Len(stacks'[a]) + Times(Frame.pushed, a) = Len(stacks[a]) + Times(g.pushed, a)
    <2>1. CASE a = to
      <3>1. stacks'[a] = Append(stacks[a], v)
        BY <1>1, <1>2, <2>1
      <3>2. List(stacks'[a]) /\ Len(stacks'[a]) = Len(stacks[a]) + 1
        BY <1>2, <3>1, ListFacts
      <3> QED BY <1>2, <1>4, <1>5, <2>1, <3>2
    <2>2. CASE a # to
      <3>1. stacks'[a] = stacks[a]
        BY <1>1, <1>2, <2>2
      <3> QED BY <1>2, <1>4, <1>5, <2>2, <3>1
    <2> QED BY <2>1, <2>2
  <1>8. Renaming' /\ Slots'
    BY <1>1, <1>2, <1>4, <1>6, <1>7, FrameMoves
  <1> QED BY <1>1, <1>8, InvFromRenaming

(* The phis of a block go on the stacks of their slots, one on each.        *)
LEMMA OwnPhi ==
    ASSUME Slots, NEW b, NEW a
    PROVE  LET here == {p \in phis : p[1] = b}
               own == {p[3] : p \in {q \in here : q[2] = a}}
           IN  /\ List(Ascending(own))
               /\ Len(Ascending(own)) = IF a \in {p[2] : p \in here} THEN 1 ELSE 0
  <1> DEFINE here == {p \in phis : p[1] = b}
             own == {p[3] : p \in {q \in here : q[2] = a}}
  <1>1. CASE a \in {p[2] : p \in here}
    <2>1. PICK p \in here : p[2] = a
      BY <1>1
    <2>2. \A q \in here : q[2] = a => q = p
      BY <2>1 DEF Slots, OnePhi
    <2>3. own = {p[3]}
      BY <2>1, <2>2
    <2>4. Cardinality(own) = 1
      BY <2>3, FS_Singleton
    <2> HIDE DEF own
    <2>5. List(Ascending(own)) /\ Len(Ascending(own)) = 1
      BY <2>4, AscendingLength
    <2> QED BY <1>1, <2>5 DEF own
  <1>2. CASE a \notin {p[2] : p \in here}
    <2>1. own = {}
      BY <1>2
    <2>2. Cardinality(own) = 0
      BY <2>1, FS_EmptySet
    <2> HIDE DEF own
    <2>3. List(Ascending(own)) /\ Len(Ascending(own)) = 0
      BY <2>2, AscendingLength
    <2> QED BY <1>2, <2>3 DEF own
  <1> QED BY <1>1, <1>2

LEMMA PushPhisKeeps == PromoteInv /\ PushPhis => PromoteInv'
  <1> SUFFICES ASSUME PromoteInv, PushPhis PROVE PromoteInv'
    OBVIOUS
  <1> DEFINE C == Elements(candidates)
             here == {p \in phis : p[1] = Frame.block}
             named == {p[2] : p \in here}
             own(a) == {p[3] : p \in {q \in here : q[2] = a}}
             p == Ascending(named)
             g == [[Frame EXCEPT !.pushed = p] EXCEPT !.next = @ + 1]
  <1>1. /\ phase = "rename" /\ path # << >> /\ Frame.next = 0
        /\ path' = Append(Above, g)
        /\ stacks' = [a \in DOMAIN stacks |-> stacks[a] \o Ascending(own(a))]
        /\ phase' = phase /\ candidates' = candidates /\ phis' = phis
    BY DEF PushPhis, AtFrame, placeVars, Advanced
  <1>2. /\ Renaming /\ Slots /\ FrameShape(Frame, C) /\ DOMAIN stacks = C
        /\ \A a \in C : List(stacks[a]) /\ Len(stacks[a]) \in Nat
    BY <1>1, RenameFacts
  <1>3. named \subseteq C
    BY <1>2 DEF Slots
  <1>4. PICK n \in Nat : named \in SUBSET (1..n)
    <2>1. PICK n \in Nat : candidates \in Seq(1..n)
      BY <1>2 DEF Slots
    <2>2. C \subseteq 1..n
      BY <2>1 DEF Elements
    <2> QED BY <1>3, <2>2
  <1>5. \A a \in C : /\ List(Ascending(own(a)))
                     /\ Len(Ascending(own(a))) = IF a \in named THEN 1 ELSE 0
    BY <1>2, OwnPhi
  <1> HIDE DEF own, named
  <1>6. p \in Seq(C) /\ \A a : Times(p, a) = IF a \in named THEN 1 ELSE 0
    <2>1. p \in Seq(named)
      BY <1>4, AscendingFacts
    <2>2. \A a : Times(p, a) = IF a \in named THEN 1 ELSE 0
      BY <1>4, TimesAscending
    <2> HIDE DEF p
    <2> QED BY <1>3, <2>1, <2>2, SeqMonotone
  <1> HIDE DEF p
  <1>7. FrameShape(g, C) /\ g.pushed = p
    <2> DEFINE e == [Frame EXCEPT !.pushed = p]
    <2> HIDE DEF p, C
    <2>1. Frame = [block |-> Frame.block, next |-> Frame.next, left |-> Frame.left, pushed |-> Frame.pushed]
      BY <1>2 DEF FrameShape
    <2>2. e = [block |-> Frame.block, next |-> Frame.next, left |-> Frame.left, pushed |-> p]
      BY <2>1
    <2> HIDE DEF e
    <2>3. [e EXCEPT !.next = @ + 1]
            = [block |-> Frame.block, next |-> Frame.next + 1, left |-> Frame.left, pushed |-> p]
      BY <2>2
    <2>4. g = [block |-> Frame.block, next |-> Frame.next + 1, left |-> Frame.left, pushed |-> p]
      BY <2>3 DEF e
    <2> HIDE DEF g
    <2> QED BY <1>2, <1>6, <2>4, PushedShape
  <1> HIDE DEF g
  <1>8. \A a : Times(Frame.pushed, a) = 0
    BY <1>1, <1>2, TimesNone DEF FrameShape
  <1>9. stacks' = [a \in C |-> stacks'[a]]
    BY <1>1, <1>2
  <1>10. ASSUME NEW a \in C
         PROVE  /\ List(stacks'[a])
                /\ Len(stacks'[a]) + Times(Frame.pushed, a) = Len(stacks[a]) + Times(g.pushed, a)
    <2> DEFINE s == stacks[a]
               t == Ascending(own(a))
    <2>1. stacks'[a] = s \o t
      BY <1>1, <1>2
    <2>2. List(s) /\ List(t) /\ Len(s) \in Nat
      BY <1>2, <1>5
    <2> HIDE DEF s, t
    <2>3. List(s \o t) /\ Len(s \o t) = Len(s) + Len(t)
      BY <2>2, ListConcat
    <2>4. Len(t) = Times(g.pushed, a) /\ Times(Frame.pushed, a) = 0
      BY <1>5, <1>6, <1>7, <1>8 DEF t
    <2>5. Len(t) \in Nat
      BY <2>2, ListFacts
    <2>6. Len(s \o t) + Times(Frame.pushed, a) = Len(s) + Times(g.pushed, a)
      BY <2>2, <2>3, <2>4, <2>5
    <2> QED BY <2>1, <2>3, <2>6 DEF s
  <1>11. Renaming' /\ Slots'
    BY <1>1, <1>2, <1>7, <1>9, <1>10, FrameMoves
  <1> QED BY <1>1, <1>11, InvFromRenaming
(* A child is entered: the frame above loses it, a new one comes on top.    *)
LEMMA ChildKeeps == PromoteInv /\ RenameChild => PromoteInv'
  <1> SUFFICES ASSUME PromoteInv, RenameChild PROVE PromoteInv'
    OBVIOUS
  <1> DEFINE C == Elements(candidates)
  <1>1. PICK c \in Frame.left :
            path' = Append(Append(Above, [Frame EXCEPT !.left = @ \ {c}]),
                           [block |-> c, next |-> 0, left |-> tree.children[c], pushed |-> << >>])
    BY DEF RenameChild
  <1> DEFINE g == [Frame EXCEPT !.left = @ \ {c}]
             new == [block |-> c, next |-> 0, left |-> tree.children[c], pushed |-> << >>]
             q == Append(Above, g)
  <1>2. /\ phase = "rename" /\ path # << >> /\ path' = Append(q, new)
        /\ phase' = phase /\ candidates' = candidates /\ phis' = phis /\ stacks' = stacks
    BY <1>1 DEF RenameChild, AtFrame, placeVars
  <1>3. /\ Renaming /\ Slots /\ FrameShape(Frame, C)
        /\ \A a \in C : List(stacks[a]) /\ Len(stacks[a]) \in Nat
    BY <1>2, RenameFacts
  <1>4. FrameShape(g, C) /\ g.pushed = Frame.pushed
    <2> HIDE DEF C
    <2>1. Frame = [block |-> Frame.block, next |-> Frame.next, left |-> Frame.left, pushed |-> Frame.pushed]
      BY <1>3 DEF FrameShape
    <2>2. g = [block |-> Frame.block, next |-> Frame.next, left |-> Frame.left \ {c}, pushed |-> Frame.pushed]
      BY <2>1
    <2> HIDE DEF g
    <2>3. /\ g.block = Frame.block /\ g.next = Frame.next /\ g.pushed = Frame.pushed
          /\ g.left = Frame.left \ {c}
      BY <2>2
    <2> QED BY <1>3, <2>2, <2>3 DEF FrameShape
  <1>5. FrameShape(new, C) /\ new.pushed = << >>
    BY DEF FrameShape
  <1> HIDE DEF g, new
  <1>6. PathShape(path, C)
    BY <1>3 DEF Renaming
  <1>7. PathShape(q, C)
    <2> HIDE DEF C
    <2> QED BY <1>2, <1>4, <1>6, PathOn DEF Above
  <1>8. PathShape(path', C)
    <2> HIDE DEF C, q
    <2> QED BY <1>2, <1>5, <1>7, PathIn
  <1>9. ASSUME NEW a \in C
        PROVE  \E h : Climbs(h, path', a, Seed(a), Len(stacks[a]))
    <2> DEFINE from == Seed(a)
               to == Len(stacks[a])
    <2>1. PICK h : Climbs(h, path, a, from, to)
      BY <1>3 DEF Renaming
    <2>2. to \in Nat
      BY <1>3
    <2>3. to + Times(path[Len(path)].pushed, a) = to + Times(g.pushed, a)
      BY <1>4 DEF Frame
    <2> HIDE DEF from, to, C
    <2>4. PICK h1 : Climbs(h1, q, a, from, to)
      BY <1>2, <1>4, <1>6, <2>1, <2>2, <2>3, ClimbOn DEF Above
    <2> HIDE DEF q
    <2>5. \E h2 : Climbs(h2, Append(q, new), a, from, to)
      BY <1>5, <1>7, <2>4, ClimbIn
    <2> QED BY <1>2, <2>5 DEF from, to
  <1>10. \A a \in C : Seed(a)' = Seed(a)
    BY <1>2 DEF Seed, HasPhi
  <1>11. Renaming'
    BY <1>2, <1>3, <1>8, <1>9, <1>10 DEF Renaming
  <1>12. Slots'
    BY <1>2, <1>3 DEF Slots, OnePhi
  <1> QED BY <1>2, <1>11, <1>12, InvFromRenaming

(* Leaving a block takes back what it pushed, and no more is popped than    *)
(* there is.                                                                *)
LEMMA LeaveKeeps == PromoteInv /\ LeaveBlock => PromoteInv'
  <1> SUFFICES ASSUME PromoteInv, LeaveBlock PROVE PromoteInv'
    OBVIOUS
  <1> DEFINE C == Elements(candidates)
             less(a) == Len(stacks[a]) - Times(Frame.pushed, a)
  <1>1. /\ phase = "rename" /\ path # << >> /\ path' = Above
        /\ stacks' = [a \in DOMAIN stacks |-> Popped(a)]
        /\ phase' = phase /\ candidates' = candidates /\ phis' = phis
    BY DEF LeaveBlock, AtFrame, placeVars
  <1>2. /\ Renaming /\ Slots /\ DOMAIN stacks = C
        /\ \A a \in C : List(stacks[a]) /\ Len(stacks[a]) \in Nat
    BY <1>1, RenameFacts
  <1>3. PathShape(path, C)
    BY <1>2 DEF Renaming
  <1>4. PathShape(path', C)
    <2> HIDE DEF C
    <2> QED BY <1>1, <1>3, PathOut DEF Above
  <1>5. ASSUME NEW a \in C
        PROVE  /\ \E h : Climbs(h, path', a, Seed(a), less(a))
               /\ less(a) \in 0..Len(stacks[a])
    <2> DEFINE from == Seed(a)
               to == Len(stacks[a])
    <2>1. PICK h : Climbs(h, path, a, from, to)
      BY <1>2 DEF Renaming
    <2>2. to \in Nat
      BY <1>2
    <2> HIDE DEF from, to, C
    <2>3. LET top == path[Len(path)] IN
          /\ to - Times(top.pushed, a) \in Nat /\ Times(top.pushed, a) \in Nat
          /\ \E h2 : Climbs(h2, SubSeq(path, 1, Len(path) - 1), a, from, to - Times(top.pushed, a))
      BY <1>1, <1>3, <2>1, <2>2, ClimbOut
    <2>4. /\ less(a) \in Nat /\ Times(Frame.pushed, a) \in Nat
          /\ \E h2 : Climbs(h2, path', a, from, less(a))
      BY <1>1, <2>3 DEF Frame, Above, to
    <2>5. less(a) \in 0..Len(stacks[a])
      BY <2>2, <2>4 DEF to
    <2> QED BY <2>4, <2>5 DEF from
  <1>6. ASSUME NEW a \in C
        PROVE  List(stacks'[a]) /\ Len(stacks'[a]) = less(a)
    <2>1. stacks'[a] = SubSeq(stacks[a], 1, less(a))
      BY <1>1, <1>2 DEF Popped, Times
    <2> HIDE DEF less
    <2> QED BY <1>2, <1>5, <2>1, ListFacts
  <1> HIDE DEF less
  <1>7. stacks' = [a \in C |-> stacks'[a]]
    BY <1>1, <1>2
  <1>8. \A a \in C : Seed(a)' = Seed(a)
    BY <1>1 DEF Seed, HasPhi
  <1>9. \A a \in C : List(stacks'[a]) /\ \E h : Climbs(h, path', a, Seed(a)', Len(stacks'[a]))
    BY <1>5, <1>6, <1>8
  <1>10. Renaming'
    BY <1>1, <1>4, <1>7, <1>9 DEF Renaming
  <1>11. Slots'
    BY <1>1, <1>2 DEF Slots, OnePhi
  <1> QED BY <1>1, <1>10, <1>11, InvFromRenaming

LEMMA BeginKeeps == PromoteInv /\ BeginRename => PromoteInv'
  <1> SUFFICES ASSUME PromoteInv, BeginRename PROVE PromoteInv'
    OBVIOUS
  <1> DEFINE C == Elements(candidates)
             top == [block |-> Entry, next |-> 0, left |-> tree.children[Entry], pushed |-> << >>]
  <1>1. /\ phase = "place" /\ phase' = "rename" /\ path' = <<top>>
        /\ stacks' = [a \in C |-> IF HasPhi(a) THEN <<SeedOf(a)>> ELSE << >>]
        /\ candidates' = candidates /\ phis' = phis
    BY DEF BeginRename, placeVars
  <1>2. Slots
    BY <1>1 DEF PromoteInv
  <1>3. Slots'
    BY <1>1, <1>2 DEF Slots, OnePhi
  <1>4. FrameShape(top, C) /\ top.pushed = << >>
    BY DEF FrameShape
  <1> HIDE DEF top
  <1>5. Len(path') = 1 /\ path'[1] = top /\ DOMAIN path' = 1..1 /\ List(path')
    BY <1>1 DEF List, Elements
  <1>6. PathShape(path', C)
    BY <1>4, <1>5 DEF PathShape
  <1>7. ASSUME NEW a \in C
        PROVE  /\ List(stacks'[a]) /\ Len(stacks'[a]) = Seed(a)'
               /\ \E h : Climbs(h, path', a, Seed(a)', Len(stacks'[a]))
    <2>1. Seed(a)' = (IF HasPhi(a) THEN 1 ELSE 0)
      BY <1>1 DEF Seed, HasPhi
    <2> DEFINE s == stacks'[a]
    <2>2. s = IF HasPhi(a) THEN <<SeedOf(a)>> ELSE << >>
      BY <1>1
    <2> HIDE DEF s
    <2>3. List(s) /\ Len(s) = Seed(a)' /\ Len(s) \in Nat
      <3> DEFINE v == SeedOf(a)
      <3>1. /\ List(<<v>>) /\ Len(<<v>>) = 1
            /\ List(<< >>) /\ Len(<< >>) = 0
        <4> HIDE DEF v, C
        <4> QED BY DEF List, Elements
      <3> HIDE DEF v, C
      <3> QED BY <2>1, <2>2, <3>1 DEF v
    <2> DEFINE n == Len(s)
               h == [k \in 1..2 |-> n]
    <2>4. n \in Nat
      BY <2>3
    <2> HIDE DEF n
    <2>5. h \in [1..2 -> Nat] /\ h[1] = n /\ h[2] = n
      BY <2>4
    <2>6. Times(path'[1].pushed, a) = 0
      BY <1>4, <1>5, TimesNone
    <2> HIDE DEF h
    <2>7. Climbs(h, path', a, n, n)
      BY <1>5, <2>4, <2>5, <2>6 DEF Climbs
    <2> QED BY <2>3, <2>7 DEF s, n
  <1>8. stacks' = [a \in C |-> stacks'[a]]
    BY <1>1
  <1>9. Renaming'
    BY <1>1, <1>6, <1>7, <1>8 DEF Renaming
  <1> QED BY <1>1, <1>3, <1>9, InvFromRenaming

(* The path is at its start again: nothing is left but the seeds.           *)
LEMMA EndKeeps == PromoteInv /\ EndRename => PromoteInv'
  <1> SUFFICES ASSUME PromoteInv, EndRename PROVE PromoteInv'
    OBVIOUS
  <1> DEFINE C == Elements(candidates)
  <1>1. /\ phase = "rename" /\ path = << >> /\ phase' = "fill"
        /\ phis' = phis /\ stacks' = stacks
    BY DEF EndRename, placeVars, renameVars
  <1>2. Renaming /\ DOMAIN stacks = C
    BY <1>1, RenameFacts
  <1>3. ASSUME NEW a \in C PROVE Len(stacks[a]) = Seed(a)
    <2>1. PICK h : Climbs(h, path, a, Seed(a), Len(stacks[a]))
      BY <1>2 DEF Renaming
    <2>2. Len(path) = 0
      BY <1>1
    <2> QED BY <2>1, <2>2 DEF Climbs
  <1>4. StacksRestored'
    BY <1>1, <1>2, <1>3 DEF StacksRestored, Seed, HasPhi
  <1> QED BY <1>1, <1>4 DEF PromoteInv, Phases

LEMMA OthersKeep == PromoteInv /\ (Skip \/ FillUnreachable \/ RewriteUses \/ UNCHANGED promotionVars) => PromoteInv'
  <1> SUFFICES ASSUME PromoteInv, Skip \/ FillUnreachable \/ RewriteUses \/ UNCHANGED promotionVars PROVE PromoteInv'
    OBVIOUS
  <1>1. CASE Skip
    BY <1>1 DEF Skip, PromoteInv, Phases, StacksRestored
  <1>2. CASE FillUnreachable
    BY <1>2 DEF FillUnreachable, PromoteInv, Phases, StacksRestored
  <1>3. CASE RewriteUses
    BY <1>3 DEF RewriteUses, PromoteInv, Phases, StacksRestored
  <1>4. CASE UNCHANGED promotionVars
    <2>1. /\ phase' = phase /\ func' = func /\ tree' = tree /\ candidates' = candidates
          /\ slot' = slot /\ worklist' = worklist /\ placed' = placed /\ phis' = phis
          /\ path' = path /\ stacks' = stacks
      BY <1>4 DEF promotionVars, placeVars, renameVars
    <2>2. phase \in Phases /\ StacksRestored
      BY DEF PromoteInv
    <2>3. phase = "start" => IsFunction(func') /\ Untouched'
      BY <2>1 DEF PromoteInv, Untouched
    <2>4. phase \in {"place", "rename"} => Slots'
      BY <2>1 DEF PromoteInv, Slots, OnePhi
    <2>5. phase = "place" => Placing'
      BY <2>1 DEF PromoteInv, Placing
    <2>6. phase = "rename" => Renaming'
      BY <2>1 DEF PromoteInv, Renaming, Seed, HasPhi
    <2>7. StacksRestored'
      BY <2>1, <2>2 DEF StacksRestored, HasPhi
    <2> QED BY <2>1, <2>2, <2>3, <2>4, <2>5, <2>6, <2>7 DEF PromoteInv
  <1> QED BY <1>1, <1>2, <1>3, <1>4

LEMMA PassBegins == PromotionInit => PromoteInv
  BY DEF PromotionInit, PromoteInv, Phases, StacksRestored

LEMMA PassStep == PromoteInv /\ [Promote \/ TakeUp]_promotionVars => PromoteInv'
  <1> SUFFICES ASSUME PromoteInv, [Promote \/ TakeUp]_promotionVars PROVE PromoteInv'
    OBVIOUS
  <1> QED BY TakeUpKeeps, CollectKeeps, NextSlotKeeps, PlaceKeeps, BeginKeeps, PushPhisKeeps,
             QuietStepsKeep, StoreKeeps, ChildKeeps, LeaveKeeps, EndKeeps, OthersKeep
          DEF Promote

THEOREM PromoteInvariant == Pass => []PromoteInv
  BY PassBegins, PassStep, PTL DEF Pass

(* rename_block keeps its stacks in order: whatever a block and its phis    *)
(* push is popped when the block is left, and after the walk every stack is *)
(* as high as before it: one value for a slot with phis, none for another.  *)
THEOREM StacksAreRestored == Pass => []StacksRestored
  <1>1. PromoteInv => StacksRestored
    BY DEF PromoteInv
  <1> QED BY <1>1, PromoteInvariant, PTL
=============================================================================
