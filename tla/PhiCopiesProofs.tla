-------------------------- MODULE PhiCopiesProofs --------------------------
(***************************************************************************)
(* For every edge, every set of locations and every budget, the moves of   *)
(* PhiCopies implement ParallelMove.                                       *)
(***************************************************************************)
EXTENDS PhiCopies, FiniteSetTheorems, SequenceTheorems, TLAPS

(* A copy that is still in the list can read its value now.                 *)
SourcesIntact == \A p \in pending : Fetch(source[p]) = Before[incoming[p]]

(* Phis no longer in the list have their value.                             *)
WrittenCorrectly ==
    \A p \in Phi \ pending : contents[destination[p]] = Before[incoming[p]]

(* No other allocated location has changed.                                 *)
OthersUntouched ==
    \A l \in Location : (\A p \in Phi : destination[p] # l) => contents[l] = Before[l]

NothingWritten ==
    /\ source = incoming
    /\ \A l \in Location : contents[l] = Before[l]

(* The stack holds the values of the pushed copies, in list order.          *)
StackMatches(o, values, copies, read) ==
    /\ \A k \in 1..Len(values) : values[k] = Before[read[o[k]]]
    /\ \A j, k \in 1..Len(values) : j < k => o[j] < o[k]
    /\ \A p \in copies : \E k \in 1..Len(values) : o[k] = p

StackInOrder == \E o \in [1..Len(stack) -> pushed] : StackMatches(o, stack, pushed, incoming)

IInv ==
    /\ TypeOK
    /\ mode = "collect" => pending = {} /\ pushed = {} /\ stack = << >> /\ NothingWritten
    /\ mode = "parallel" =>
          pushed = {} /\ SourcesIntact /\ WrittenCorrectly /\ OthersUntouched
    /\ mode = "push" =>
          /\ NothingWritten /\ WrittenCorrectly
          /\ StackInOrder
          /\ \A p \in pushed, q \in pending \ pushed : p < q
    /\ mode = "pop" =>
          /\ pushed = pending /\ StackInOrder
          /\ WrittenCorrectly /\ OthersUntouched
    /\ mode = "done" => pending = {} /\ WrittenCorrectly /\ OthersUntouched

-----------------------------------------------------------------------------
(* Facts about an edge, from the assumption on Edges.                       *)
LEMMA EdgeFacts ==
    ASSUME edge \in Edges
    PROVE  /\ edge.count \in Nat
           /\ destination \in [Phi -> Location]
           /\ incoming \in [Phi -> Location \cup Remat]
           /\ \A p, q \in Phi : destination[p] = destination[q] => p = q
  BY EdgeAssumption DEF WellFormedEdge, destination, incoming, Phi

LEMMA PendingFinite ==
    ASSUME edge \in Edges, NEW S, S \subseteq Phi
    PROVE  IsFiniteSet(S)
  <1>1. edge.count \in Nat
    BY EdgeFacts
  <1>2. IsFiniteSet(1..edge.count)
    BY <1>1, FS_Interval
  <1> QED BY <1>2, FS_Subset DEF Phi

(* An injection of a finite set into itself reaches every element.          *)
LEMMA InjectionOntoSelf ==
    ASSUME NEW S, IsFiniteSet(S), NEW f \in [S -> S],
           \A x, y \in S : f[x] = f[y] => x = y
    PROVE  \A y \in S : \E x \in S : f[x] = y
  <1> SUFFICES ASSUME NEW y \in S, \A x \in S : f[x] # y
               PROVE  FALSE
    OBVIOUS
  <1>1. f \in [S -> S \ {y}]
    OBVIOUS
  <1>2. IsFiniteSet(S \ {y}) /\ Cardinality(S \ {y}) = Cardinality(S) - 1
    BY FS_RemoveElement
  <1>3. Cardinality(S) \in Nat
    BY FS_CardinalityType
  <1>4. Cardinality(S \ {y}) < Cardinality(S)
    BY <1>2, <1>3
  <1>5. \E x1, x2 \in S : x1 # x2 /\ f[x1] = f[x2]
    BY <1>1, <1>2, <1>4, FS_PigeonHole
  <1> QED BY <1>5

(* When every copy is blocked, each one reads a location some copy still    *)
(* has to write: counting blocked copies against readers leaves no reader   *)
(* of a scratch.  This is why one scratch a class is enough.                *)
LEMMA BlockedReadsDestinations ==
    ASSUME TypeOK, ReadyCopies = {}
    PROVE  \A q \in pending : \E p \in pending : source[q] = destination[p]
  <1> DEFINE reader == [p \in pending |-> CHOOSE q \in pending : source[q] = destination[p]]
  <1>1. \A p \in pending : \E q \in pending : source[q] = destination[p]
    BY DEF ReadyCopies, Ready
  <1>2. \A p \in pending : reader[p] \in pending /\ source[reader[p]] = destination[p]
    BY <1>1
  <1>3. \A p, q \in Phi : destination[p] = destination[q] => p = q
    BY EdgeFacts DEF TypeOK
  <1>4. reader \in [pending -> pending]
    BY <1>2
  <1> HIDE DEF reader
  <1>5. \A p, q \in pending : reader[p] = reader[q] => p = q
    BY <1>2, <1>3 DEF TypeOK
  <1>6. IsFiniteSet(pending)
    BY PendingFinite DEF TypeOK
  <1>7. \A q \in pending : \E p \in pending : reader[p] = q
    BY <1>4, <1>5, <1>6, InjectionOntoSelf
  <1> QED BY <1>2, <1>7

-----------------------------------------------------------------------------
LEMMA FetchType ==
    ASSUME TypeOK, NEW s \in Location \cup Remat \cup CycleScratches
    PROVE  Fetch(s) \in Value
  BY DEF TypeOK, Fetch, Value, Physical

LEMMA ScrubbedFacts ==
    ASSUME TypeOK
    PROVE  /\ Scrubbed \in [Physical -> Value]
           /\ \A l \in Location \cup CycleScratches : Scrubbed[l] = contents[l]
  <1>1. (Location \cup CycleScratches) \cap Helpers = {}
    BY LocationAssumption DEF Helpers, CycleScratches
  <1>2. Location \cup CycleScratches \subseteq Physical
    BY DEF Physical
  <1>3. Junk \in Value
    BY DEF Value
  <1> QED BY <1>1, <1>2, <1>3 DEF TypeOK, Scrubbed

LEMMA CycleScratchType == \A l : CycleScratch(l) \in CycleScratches
  BY DEF CycleScratch, CycleScratches

(* No allocated location is a scratch, a helper or rematerialised.          *)
LEMMA LocationsApart ==
    /\ Location \cap CycleScratches = {}
    /\ Location \cap Remat = {}
    /\ Remat \cap CycleScratches = {}
  BY LocationAssumption

LEMMA InitInvariant == Init => IInv
  <1> SUFFICES ASSUME Init PROVE IInv
    OBVIOUS
  <1> USE DEF Init
  <1>1. TypeOK
    BY EdgeFacts DEF TypeOK, Value, Physical
  <1>2. NothingWritten
    BY DEF NothingWritten, Physical
  <1> QED BY <1>1, <1>2 DEF IInv

LEMMA CollectInvariant == IInv /\ Collect => IInv'
  <1> SUFFICES ASSUME IInv, Collect PROVE IInv'
    OBVIOUS
  <1> USE DEF Collect
  <1>1. TypeOK /\ pending = {} /\ pushed = {} /\ stack = << >> /\ NothingWritten
    BY DEF IInv
  <1>2. /\ pending' \subseteq Phi
        /\ mode' \in {"push", "parallel"}
        /\ Phi' = Phi /\ destination' = destination /\ incoming' = incoming
    BY DEF Phi, destination, incoming
  <1>3. TypeOK'
    BY <1>1, <1>2 DEF TypeOK
  <1>4. SourcesIntact'
    <2>1. \A s : Fetch(s)' = Fetch(s)
      BY DEF Fetch
    <2>2. \A p \in Phi : Fetch(incoming[p]) = Before[incoming[p]]
      BY <1>1, EdgeFacts DEF NothingWritten, Fetch, TypeOK
    <2> QED BY <1>1, <1>2, <2>1, <2>2 DEF SourcesIntact, NothingWritten
  <1>5. WrittenCorrectly'
    <2>1. \A p \in Phi \ pending' : incoming[p] = destination[p]
      OBVIOUS
    <2>2. \A p \in Phi : destination[p] \in Location
      BY <1>1, EdgeFacts DEF TypeOK
    <2> QED BY <1>1, <1>2, <2>1, <2>2 DEF WrittenCorrectly, NothingWritten
  <1>6. OthersUntouched' /\ NothingWritten'
    BY <1>1, <1>2 DEF OthersUntouched, NothingWritten
  <1>7. StackInOrder'
    <2>1. [k \in 1..0 |-> 0] \in [1..0 -> {}]
      OBVIOUS
    <2> QED BY <1>1, <2>1 DEF StackInOrder, StackMatches
  <1> QED BY <1>1, <1>2, <1>3, <1>4, <1>5, <1>6, <1>7 DEF IInv

LEMMA EmitReadyInvariant == IInv /\ EmitReady => IInv'
  <1> SUFFICES ASSUME IInv, EmitReady PROVE IInv'
    OBVIOUS
  <1> USE DEF EmitReady
  <1>1. mode = "parallel" /\ TypeOK /\ pushed = {} /\ SourcesIntact /\ WrittenCorrectly /\ OthersUntouched
    BY DEF IInv
  <1>2. PICK p \in pending :
          /\ p \in ReadyCopies
          /\ pending' = pending \ {p}
          /\ contents' = [Scrubbed EXCEPT ![destination[p]] = Fetch(source[p])]
    BY DEF IsFirst
  <1>3. Phi' = Phi /\ destination' = destination /\ incoming' = incoming /\ source' = source
    BY DEF Phi, destination, incoming
  <1>4. p \in Phi /\ destination[p] \in Location /\ Location \subseteq Physical
    BY <1>1, EdgeFacts DEF TypeOK, Physical
  <1>5. \A l \in Location \cup CycleScratches :
          contents'[l] = IF l = destination[p] THEN Fetch(source[p]) ELSE contents[l]
    BY <1>1, <1>2, <1>4, ScrubbedFacts DEF Physical
  <1>6. TypeOK'
    <2>1. contents' \in [Physical -> Value]
      BY <1>1, <1>2, <1>4, ScrubbedFacts, FetchType DEF TypeOK
    <2>2. pushed' = {} /\ pending' \subseteq Phi
      BY <1>1, <1>2 DEF TypeOK
    <2> QED BY <1>1, <1>2, <1>3, <2>1, <2>2 DEF TypeOK
  <1>7. SourcesIntact'
    <2> SUFFICES ASSUME NEW q \in pending'
                 PROVE  Fetch(source[q])' = Before[incoming[q]]
      BY <1>3 DEF SourcesIntact
    <2>1. q \in pending /\ Fetch(source[q]) = Before[incoming[q]]
      BY <1>1, <1>2 DEF SourcesIntact
    <2>2. source[q] # destination[p]
      BY <1>2, <2>1 DEF ReadyCopies, Ready
    <2>3. source[q] \in Location \cup Remat \cup CycleScratches
      BY <1>1, <2>1 DEF TypeOK
    <2> QED BY <1>3, <1>5, <2>1, <2>2, <2>3 DEF Fetch
  <1>8. WrittenCorrectly'
    <2> SUFFICES ASSUME NEW q \in Phi \ pending'
                 PROVE  contents'[destination[q]] = Before[incoming[q]]
      BY <1>3 DEF WrittenCorrectly
    <2>1. destination[q] \in Location /\ (destination[q] = destination[p] => q = p)
      BY <1>1, <1>4, EdgeFacts DEF TypeOK
    <2>2. CASE q = p
      BY <1>1, <1>2, <1>5, <2>1, <2>2 DEF SourcesIntact
    <2>3. CASE q # p
      BY <1>1, <1>2, <1>5, <2>1, <2>3 DEF WrittenCorrectly
    <2> QED BY <2>2, <2>3
  <1>9. OthersUntouched'
    BY <1>1, <1>3, <1>4, <1>5 DEF OthersUntouched
  <1> QED BY <1>1, <1>2, <1>6, <1>7, <1>8, <1>9 DEF IInv

LEMMA SaveCycleInvariant == IInv /\ SaveCycle => IInv'
  <1> SUFFICES ASSUME IInv, SaveCycle PROVE IInv'
    OBVIOUS
  <1> USE DEF SaveCycle
  <1>1. mode = "parallel" /\ TypeOK /\ pushed = {} /\ SourcesIntact
          /\ WrittenCorrectly /\ OthersUntouched
    BY DEF IInv
  <1>2. PICK p \in pending :
          /\ contents' = [Scrubbed EXCEPT
                            ![CycleScratch(destination[p])] = contents[destination[p]]]
          /\ source' = Redirected(destination[p])
    BY DEF IsFirst
  <1> DEFINE held == destination[p]
             scratch == CycleScratch(held)
  <1>3. Phi' = Phi /\ destination' = destination /\ incoming' = incoming /\ pending' = pending
    BY DEF Phi, destination, incoming
  <1>4. held \in Location /\ scratch \in CycleScratches
    BY <1>1, EdgeFacts, CycleScratchType DEF TypeOK
  <1>5. \A l \in Location \cup CycleScratches :
          contents'[l] = IF l = scratch THEN contents[held] ELSE contents[l]
    BY <1>1, <1>2, <1>4, ScrubbedFacts DEF Physical
  <1>6. \A q \in Phi : source'[q] = IF q \in pending /\ source[q] = held
                                     THEN scratch ELSE source[q]
    BY <1>2 DEF Redirected
  <1>7. TypeOK'
    <2>1. contents' \in [Physical -> Value]
      <3>1. contents[held] \in Value
        BY <1>1, <1>4 DEF TypeOK, Physical
      <3> QED BY <1>1, <1>2, <3>1, ScrubbedFacts
    <2>2. source' \in [Phi -> Location \cup Remat \cup CycleScratches]
      BY <1>1, <1>2, <1>4 DEF Redirected, TypeOK
    <2> QED BY <1>1, <1>3, <2>1, <2>2 DEF TypeOK
  <1>8. SourcesIntact'
    <2> SUFFICES ASSUME NEW q \in pending
                 PROVE  Fetch(source[q])' = Before[incoming[q]]
      BY <1>3 DEF SourcesIntact
    <2>1. q \in Phi /\ Fetch(source[q]) = Before[incoming[q]]
      BY <1>1 DEF SourcesIntact, TypeOK
    <2>2. source[q] \in Location
      BY <1>1, BlockedReadsDestinations, EdgeFacts DEF TypeOK
    <2>3. CASE source[q] = held
      BY <1>4, <1>5, <1>6, <2>1, <2>3, LocationsApart DEF Fetch
    <2>4. CASE source[q] # held
      <3>1. source'[q] = source[q]
        BY <1>6, <2>1, <2>4
      <3>2. contents'[source[q]] = contents[source[q]]
        BY <1>4, <1>5, <2>2, LocationsApart
      <3> QED BY <2>1, <3>1, <3>2 DEF Fetch
    <2> QED BY <2>3, <2>4
  <1>9. \A l \in Location : contents'[l] = contents[l]
    BY <1>4, <1>5, LocationsApart
  <1>10. WrittenCorrectly' /\ OthersUntouched'
    BY <1>1, <1>3, <1>9, EdgeFacts DEF WrittenCorrectly, OthersUntouched, TypeOK
  <1> QED BY <1>1, <1>7, <1>8, <1>10 DEF IInv

LEMMA SnapshotPushInvariant == IInv /\ SnapshotPush => IInv'
  <1> SUFFICES ASSUME IInv, SnapshotPush PROVE IInv'
    OBVIOUS
  <1> USE DEF SnapshotPush
  <1>1. /\ mode = "push" /\ TypeOK /\ NothingWritten /\ WrittenCorrectly /\ StackInOrder
        /\ \A p \in pushed, q \in pending \ pushed : p < q
    BY DEF IInv
  <1>2. PICK p \in pending :
          /\ IsFirst(p, pending \ pushed)
          /\ pushed' = pushed \cup {p}
          /\ stack' = Append(stack, Fetch(source[p]))
    OBVIOUS
  <1>3. /\ Phi' = Phi /\ destination' = destination /\ incoming' = incoming
        /\ source' = source /\ pending' = pending
    BY DEF Phi, destination, incoming
  <1>4. /\ p \in Phi /\ Phi \subseteq Nat
        /\ pending \subseteq Phi /\ pushed \subseteq pending
    BY <1>1, EdgeFacts DEF TypeOK, Phi
  <1>5. Fetch(source[p]) = Before[incoming[p]]
    BY <1>1, <1>4, EdgeFacts DEF NothingWritten, Fetch, TypeOK
  <1>6. \A l \in Location : contents'[l] = contents[l]
    BY <1>1, ScrubbedFacts
  <1>7. TypeOK'
    <2>1. contents' \in [Physical -> Value]
      BY <1>1, ScrubbedFacts
    <2>2. Fetch(source[p]) \in Value
      BY <1>1, <1>4, FetchType DEF TypeOK
    <2>3. stack' \in Seq(Value)
      BY <1>1, <1>2, <2>2 DEF TypeOK
    <2> QED BY <1>1, <1>2, <1>3, <2>1, <2>3 DEF TypeOK
  <1>8. NothingWritten' /\ WrittenCorrectly' /\ OthersUntouched'
    BY <1>1, <1>3, <1>6, EdgeFacts
      DEF NothingWritten, WrittenCorrectly, OthersUntouched, TypeOK
  <1>9. StackInOrder'
    <2>1. PICK o \in [1..Len(stack) -> pushed] : StackMatches(o, stack, pushed, incoming)
      BY <1>1 DEF StackInOrder
    <2> DEFINE n == Len(stack)
               o2 == [k \in 1..n+1 |-> IF k <= n THEN o[k] ELSE p]
    <2>2. /\ n \in Nat /\ Len(stack') = n + 1
          /\ \A k \in 1..n : stack'[k] = stack[k]
          /\ stack'[n + 1] = Before[incoming[p]]
      BY <1>1, <1>2, <1>5 DEF TypeOK
    <2> HIDE DEF n
    <2>3. o2 \in [1..n+1 -> pushed']
      BY <1>2, <2>1, <2>2 DEF n
    <2>4. \A k \in 1..n+1 : stack'[k] = Before[incoming[o2[k]]]
      BY <2>1, <2>2 DEF StackMatches, n
    <2>5. \A j, k \in 1..n+1 : j < k => o2[j] < o2[k]
      <3>1. \A k \in 1..n : o[k] \in pushed /\ o[k] < p
        BY <1>1, <1>2, <2>1 DEF IsFirst, n
      <3> QED BY <1>4, <2>1, <2>2, <3>1 DEF StackMatches, n
    <2>6. \A q \in pushed' : \E k \in 1..n+1 : o2[k] = q
      <3> SUFFICES ASSUME NEW q \in pushed' PROVE \E k \in 1..n+1 : o2[k] = q
        OBVIOUS
      <3>1. CASE q = p
        BY <2>2, <3>1
      <3>2. CASE q # p
        <4>1. PICK k \in 1..n : o[k] = q
          BY <1>2, <2>1, <3>2 DEF StackMatches, n
        <4> QED BY <2>2, <4>1
      <3> QED BY <3>1, <3>2
    <2> HIDE DEF o2
    <2>7. StackMatches(o2, stack', pushed', incoming)
      BY <2>2, <2>4, <2>5, <2>6 DEF StackMatches
    <2> QED BY <1>3, <2>2, <2>3, <2>7 DEF StackInOrder
  <1>10. \A q \in pushed', r \in pending' \ pushed' : q < r
    BY <1>1, <1>2, <1>4 DEF IsFirst
  <1>11. mode' \in {"push", "pop"} /\ (mode' = "pop" => pushed' = pending')
    BY <1>2
  <1> QED BY <1>7, <1>8, <1>9, <1>10, <1>11 DEF IInv

LEMMA SnapshotPopInvariant == IInv /\ SnapshotPop => IInv'
  <1> SUFFICES ASSUME IInv, SnapshotPop PROVE IInv'
    OBVIOUS
  <1> USE DEF SnapshotPop
  <1>1. /\ mode = "pop" /\ TypeOK /\ pushed = pending /\ StackInOrder
        /\ WrittenCorrectly /\ OthersUntouched
    BY DEF IInv
  <1>2. PICK p \in pending :
          /\ IsLast(p, pending)
          /\ pending' = pending \ {p}
          /\ pushed' = pushed \ {p}
          /\ contents' = [Scrubbed EXCEPT ![destination[p]] = stack[Len(stack)]]
          /\ stack' = SubSeq(stack, 1, Len(stack) - 1)
    OBVIOUS
  <1>3. Phi' = Phi /\ destination' = destination /\ incoming' = incoming /\ source' = source
    BY DEF Phi, destination, incoming
  <1>4. /\ p \in Phi /\ Phi \subseteq Nat /\ pending \subseteq Phi
        /\ destination[p] \in Location /\ Location \subseteq Physical
    <2>1. p \in Phi /\ pending \subseteq Phi /\ destination[p] \in Location
      BY <1>1, EdgeFacts DEF TypeOK
    <2>2. Phi \subseteq Nat
      BY <1>1, EdgeFacts DEF TypeOK, Phi
    <2> QED BY <2>1, <2>2 DEF Physical
  <1>5. PICK o \in [1..Len(stack) -> pushed] : StackMatches(o, stack, pushed, incoming)
    BY <1>1 DEF StackInOrder
  <1> DEFINE n == Len(stack)
  <1>6. n \in Nat
    BY <1>1 DEF TypeOK
  <1>7. n > 0 /\ o[n] = p
    <2> HIDE DEF n
    <2>1. PICK k \in 1..n : o[k] = p
      BY <1>1, <1>5 DEF StackMatches, n
    <2>2. n \in 1..n
      BY <1>6, <2>1
    <2>3. o[n] \in pending /\ o[n] <= p
      BY <1>1, <1>2, <1>5, <2>2 DEF IsLast, n
    <2>4. k = n
      <3>1. k < n => o[k] < o[n]
        BY <1>5, <2>1, <2>2 DEF StackMatches, n
      <3>2. o[n] \in Nat /\ p \in Nat
        BY <1>4, <2>3
      <3> QED BY <1>6, <2>1, <2>3, <3>1, <3>2
    <2> QED BY <1>6, <2>1, <2>4
  <1>8. stack[n] = Before[incoming[p]] /\ stack[n] \in Value
    BY <1>1, <1>5, <1>6, <1>7 DEF StackMatches, TypeOK
  <1>9. \A l \in Location :
          contents'[l] = IF l = destination[p] THEN Before[incoming[p]] ELSE contents[l]
    BY <1>1, <1>2, <1>4, <1>8, ScrubbedFacts
  <1>10. /\ stack' \in Seq(Value) /\ Len(stack') = n - 1
         /\ \A k \in 1..n-1 : stack'[k] = stack[k]
    <2> DEFINE m == n - 1
    <2>1. m \in Nat /\ \A k \in 1..m : stack[k] \in Value
      BY <1>1, <1>6, <1>7 DEF TypeOK
    <2> HIDE DEF m
    <2>2. /\ SubSeq(stack, 1, m) \in Seq(Value)
          /\ Len(SubSeq(stack, 1, m)) = m
          /\ \A k \in 1..m : SubSeq(stack, 1, m)[k] = stack[k]
      BY <2>1, SubSeqProperties
    <2> QED BY <1>2, <2>2 DEF m
  <1>11. TypeOK'
    <2>1. contents' \in [Physical -> Value]
      BY <1>1, <1>2, <1>8, ScrubbedFacts
    <2> QED BY <1>1, <1>2, <1>3, <1>10, <2>1 DEF TypeOK
  <1>12. StackInOrder'
    <2> HIDE DEF n
    <2> DEFINE o2 == [k \in 1..n-1 |-> o[k]]
    <2>1. \A k \in 1..n-1 : k \in 1..n /\ o[k] \in pushed /\ o[k] # p
      <3> SUFFICES ASSUME NEW k \in 1..n-1 PROVE k \in 1..n /\ o[k] \in pushed /\ o[k] # p
        OBVIOUS
      <3>1. k \in 1..n /\ n \in 1..n /\ k < n
        BY <1>6, <1>7
      <3>2. o[k] < o[n] /\ o[k] \in pushed /\ o[k] \in Nat /\ p \in Nat
        BY <1>1, <1>4, <1>5, <3>1 DEF StackMatches, n
      <3> QED BY <1>7, <3>1, <3>2
    <2>2. o2 \in [1..n-1 -> pushed']
      BY <1>2, <2>1
    <2>3. \A k \in 1..n-1 : stack'[k] = Before[incoming[o2[k]]]
      BY <1>5, <1>10, <2>1 DEF StackMatches, n
    <2>4. \A j, k \in 1..n-1 : j < k => o2[j] < o2[k]
      BY <1>5, <2>1 DEF StackMatches, n
    <2>5. \A q \in pushed' : \E k \in 1..n-1 : o2[k] = q
      <3> SUFFICES ASSUME NEW q \in pushed' PROVE \E k \in 1..n-1 : o2[k] = q
        OBVIOUS
      <3>1. PICK k \in 1..n : o[k] = q
        BY <1>2, <1>5 DEF StackMatches, n
      <3>2. k # n
        BY <1>2, <1>7, <3>1
      <3> QED BY <1>6, <3>1, <3>2
    <2> HIDE DEF o2
    <2>6. StackMatches(o2, stack', pushed', incoming)
      BY <1>10, <2>3, <2>4, <2>5 DEF StackMatches
    <2> QED BY <1>3, <1>10, <2>2, <2>6 DEF StackInOrder
  <1>13. WrittenCorrectly'
    <2> SUFFICES ASSUME NEW q \in Phi \ pending'
                 PROVE  contents'[destination[q]] = Before[incoming[q]]
      BY <1>3 DEF WrittenCorrectly
    <2>1. destination[q] \in Location /\ (destination[q] = destination[p] => q = p)
      BY <1>1, <1>4, EdgeFacts DEF TypeOK
    <2> QED BY <1>1, <1>2, <1>9, <2>1 DEF WrittenCorrectly
  <1>14. OthersUntouched'
    BY <1>1, <1>3, <1>4, <1>9 DEF OthersUntouched
  <1> QED BY <1>1, <1>2, <1>11, <1>12, <1>13, <1>14 DEF IInv

LEMMA FinishInvariant == IInv /\ Finish => IInv'
  <1> SUFFICES ASSUME IInv, Finish PROVE IInv'
    OBVIOUS
  <1> QED BY DEF IInv, Finish, TypeOK, WrittenCorrectly, OthersUntouched, Phi,
                 destination, incoming

LEMMA StutterInvariant == IInv /\ UNCHANGED vars => IInv'
  <1> SUFFICES ASSUME IInv, UNCHANGED vars PROVE IInv'
    OBVIOUS
  <1>1. /\ Phi' = Phi /\ destination' = destination /\ incoming' = incoming
        /\ \A s : Fetch(s)' = Fetch(s)
    BY DEF vars, Phi, destination, incoming, Fetch
  <1> QED BY <1>1 DEF vars, IInv, TypeOK, NothingWritten, SourcesIntact, WrittenCorrectly,
                      OthersUntouched, StackInOrder, StackMatches

THEOREM Invariance == Spec => []IInv
  <1>1. IInv /\ [Next]_vars => IInv'
    BY CollectInvariant, EmitReadyInvariant, SaveCycleInvariant, SnapshotPushInvariant,
       SnapshotPopInvariant, FinishInvariant, StutterInvariant DEF Next
  <1> QED BY InitInvariant, <1>1, PTL DEF Spec

(* Types are preserved for every edge, budget and set of locations.         *)
THEOREM TypeCorrect == Spec => []TypeOK
  <1>1. IInv => TypeOK
    BY DEF IInv
  <1> QED BY Invariance, <1>1, PTL

(* A scratch register is saved into only when no remaining copy reads it,   *)
(* so one integer and one float scratch serve any number of cycles.         *)
THEOREM ScratchNeverLost == Spec => CycleScratchFree
  <1> DEFINE Safe == SaveCycle => \A q \in pending : \A s \in CycleScratches :
                                     contents'[s] # contents[s] => source[q] # s
  <1>1. IInv /\ [Next]_vars => [Safe]_vars
    <2> SUFFICES ASSUME IInv, SaveCycle, NEW q \in pending, NEW s \in CycleScratches
                 PROVE  source[q] # s
      OBVIOUS
    <2>1. TypeOK /\ ReadyCopies = {}
      BY DEF IInv, SaveCycle
    <2>2. source[q] \in Location
      BY <2>1, BlockedReadsDestinations, EdgeFacts DEF TypeOK
    <2> QED BY <2>2, LocationsApart
  <1> QED BY Invariance, <1>1, PTL DEF Spec, CycleScratchFree

(* The emitted sequence of moves implements the simultaneous assignment of  *)
(* all phis: initial states map to initial states, the last step maps to    *)
(* Move, every other step leaves the abstract state unchanged.              *)
THEOREM Refinement == Spec => ImplementsParallelMove
  <1>1. Init => Abstract!Init
    BY DEF Init, Abstract!Init, AllocatedContents
  <1>2. IInv /\ [Next]_vars => [Abstract!Next]_Abstract!vars
    <2> SUFFICES ASSUME IInv, [Next]_vars PROVE [Abstract!Next]_Abstract!vars
      OBVIOUS
    <2>1. CASE mode # "done" /\ mode' # "done" /\ edge' = edge
      BY <2>1 DEF Abstract!vars, AllocatedContents
    <2>2. CASE Finish
      <3>1. /\ mode # "done" /\ mode' = "done" /\ edge' = edge /\ contents' = contents
            /\ pending = {} /\ WrittenCorrectly /\ OthersUntouched /\ TypeOK
        BY <2>2 DEF Finish, IInv
      <3>2. \A p \in 1..edge.count :
              AllocatedContents'[edge.destination[p]] = Before[edge.incoming[p]]
        <4>1. \A p \in Phi : /\ destination[p] \in Location
                             /\ contents[destination[p]] = Before[incoming[p]]
          BY <3>1, EdgeFacts DEF WrittenCorrectly, TypeOK
        <4> QED BY <3>1, <4>1 DEF AllocatedContents, Phi, destination, incoming
      <3>3. \A l \in Location \ Abstract!Written : AllocatedContents'[l] = AllocatedContents[l]
        <4> SUFFICES ASSUME NEW l \in Location \ Abstract!Written
                     PROVE  AllocatedContents'[l] = AllocatedContents[l]
          OBVIOUS
        <4>1. \A p \in Phi : destination[p] # l
          BY DEF Abstract!Written, Phi, destination
        <4> QED BY <3>1, <4>1 DEF OthersUntouched, AllocatedContents
      <3>4. AllocatedContents' = [l \in Location |-> AllocatedContents'[l]]
        BY DEF AllocatedContents
      <3> QED BY <3>1, <3>2, <3>3, <3>4 DEF Abstract!Next, Abstract!Move
    <2>3. CASE UNCHANGED vars
      BY <2>3 DEF vars, Abstract!vars, AllocatedContents
    <2> QED BY <2>1, <2>2, <2>3
          DEF Next, Collect, EmitReady, SaveCycle, SnapshotPush, SnapshotPop
  <1> QED BY Invariance, <1>1, <1>2, PTL DEF Spec, ImplementsParallelMove, Abstract!Spec
=============================================================================
