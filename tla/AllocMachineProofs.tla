------------------------- MODULE AllocMachineProofs -------------------------
(***************************************************************************)
(* The emitted code of an allocated function, for every set of functions,  *)
(* register file and budget: whatever an instruction, an edge, a call or   *)
(* the caller reads is where the allocation says.                          *)
(***************************************************************************)
EXTENDS AllocMachine, RegAllocProofs

-----------------------------------------------------------------------------
(* Facts about verified functions.                                          *)

LEMMA ValueNumbers ==
    ASSUME WellFormed(func), NEW v \in Values(func)
    PROVE  v \in Nat /\ v # NoValue
  <1>1. func.kind \in Seq(Kinds)
    BY DEF WellFormed
  <1>2. v \in 1..Len(func.kind)
    BY <1>1 DEF Values
  <1> QED BY <1>2 DEF NoValue

(* An instruction's result is an instruction's value, lives in its block    *)
(* and has no other definition.                                             *)
LEMMA DefinitionFacts ==
    ASSUME NEW f, WellFormed(f), Verified(f), NEW b \in Blocks(f), NEW i \in DOMAIN Insts(f, b),
           Insts(f, b)[i].result # NoValue
    PROVE  LET r == Insts(f, b)[i].result IN
           /\ r \in Values(f) /\ IsInst(f, r) /\ r \in Results(f, b)
           /\ DefinedBy(f, r) /\ OwnerBlock(f, r) = b
           /\ \A c \in Blocks(f) : \A j \in DOMAIN Insts(f, c) :
                 Insts(f, c)[j].result = r => c = b /\ j = i
  <1> DEFINE r == Insts(f, b)[i].result
  <1>1. r \in Values(f)
    BY DEF Verified, ValuesChecked
  <1>2. r \in Results(f, b)
    BY DEF Results
  <1>3. \A c \in Blocks(f) : \A j \in DOMAIN Insts(f, c) :
            <<c, j>> \in Sites(f) /\ ResultAt(f, <<c, j>>) = Insts(f, c)[j].result
    BY DEF Sites, ResultAt
  <1>4. IsInst(f, r)
    BY <1>3 DEF Verified, SingleAssignment
  <1>5. \A c \in Blocks(f) : \A j \in DOMAIN Insts(f, c) :
            Insts(f, c)[j].result = r => c = b /\ j = i
    <2> SUFFICES ASSUME NEW c \in Blocks(f), NEW j \in DOMAIN Insts(f, c),
                        Insts(f, c)[j].result = r
                 PROVE  c = b /\ j = i
      OBVIOUS
    <2>0. /\ <<c, j>> \in Sites(f) /\ <<b, i>> \in Sites(f)
          /\ ResultAt(f, <<c, j>>) = ResultAt(f, <<b, i>>)
          /\ ResultAt(f, <<c, j>>) # NoValue
      BY <1>3
    <2>1. <<c, j>> = <<b, i>>
      BY <2>0 DEF Verified, SingleAssignment
    <2> QED BY <2>1
  <1>6. \A c \in Blocks(f) : r \in Results(f, c) => c = b
    <2> HIDE DEF r
    <2> QED BY <1>5 DEF Results
  <1>7. DefinedBy(f, r)
    BY <1>2 DEF DefinedBy
  <1>8. OwnerBlock(f, r) = b
    <2>1. f.kind[r] # "param"
      BY <1>4 DEF IsInst
    <2> HIDE DEF r
    <2> QED BY <1>2, <1>6, <2>1 DEF OwnerBlock
  <1> QED BY <1>1, <1>2, <1>4, <1>5, <1>7, <1>8

LEMMA ResultFacts ==
    ASSUME WellFormed(func), Verified(func), NEW b \in Blocks(func), NEW i \in DOMAIN Insts(func, b),
           Insts(func, b)[i].result # NoValue
    PROVE  LET r == Insts(func, b)[i].result IN
           /\ r \in Values(func) /\ IsInst(func, r) /\ r \in Results(func, b)
           /\ DefinedBy(func, r) /\ OwnerBlock(func, r) = b
           /\ \A c \in Blocks(func) : \A j \in DOMAIN Insts(func, c) :
                 Insts(func, c)[j].result = r => c = b /\ j = i
  BY DefinitionFacts

(* What is read is a value of the function.                                 *)
LEMMA ReadsChecked ==
    ASSUME WellFormed(func), Verified(func), NEW b \in Blocks(func), NEW i \in DOMAIN AllInsts(b),
           NEW v \in Uses(AllInsts(b)[i])
    PROVE  v \in Values(func) /\ v # NoValue
  <1> DEFINE last == Len(Insts(func, b))
  <1>1. /\ last \in Nat /\ DOMAIN Insts(func, b) = 1..last /\ DOMAIN AllInsts(b) = 1..(last + 1)
        /\ \A k \in 1..last : AllInsts(b)[k] = Insts(func, b)[k]
        /\ AllInsts(b)[last + 1].args = Term(func, b).args
    BY AllInstsFacts
  <1>2. CASE i \in 1..last
    BY <1>1, <1>2, ValueNumbers DEF Verified, ValuesChecked
  <1>3. CASE i = last + 1
    <2>1. v \in Elements(Term(func, b).args)
      BY <1>1, <1>3 DEF Uses
    <2> QED BY <2>1, ValueNumbers DEF Verified, ValuesChecked
  <1> QED BY <1>1, <1>2, <1>3

(* What an instruction or terminator reads is live before it.               *)
LEMMA ReadIsLive ==
    ASSUME WellFormed(func), Verified(func), NEW b \in Blocks(func), NEW i \in DOMAIN AllInsts(b),
           ~IsPhi(AllInsts(b)[i]), NEW v \in Uses(AllInsts(b)[i])
    PROVE  LiveAt(v, b, i - 1)
  <1> DEFINE last == Len(Insts(func, b))
  <1>1. /\ last \in Nat /\ DOMAIN Insts(func, b) = 1..last /\ DOMAIN AllInsts(b) = 1..(last + 1)
        /\ Len(AllInsts(b)) = last + 1
        /\ \A k \in 1..last : AllInsts(b)[k] = Insts(func, b)[k]
        /\ AllInsts(b)[last + 1].args = Term(func, b).args
    BY AllInstsFacts
  <1>2. v \in Values(func) /\ v # NoValue
    BY ReadsChecked
  <1>3. OrdinaryUse(func, v, b, i)
    <2>1. CASE i \in 1..last
      <3>1. ~IsPhi(Insts(func, b)[i]) /\ v \in Uses(Insts(func, b)[i])
        BY <1>1, <2>1
      <3> QED BY <1>1, <2>1, <3>1 DEF Verified, UsesDominated
    <2>2. CASE i = last + 1
      <3>1. v \in Elements(Term(func, b).args)
        BY <1>1, <2>2 DEF Uses
      <3> QED BY <2>2, <3>1 DEF Verified, UsesDominated
    <2> QED BY <1>1, <2>1, <2>2
  <1>4. ASSUME NEW j \in ((i - 1) + 1)..last, Insts(func, b)[j].result = v
        PROVE  FALSE
    <2>1. j \in DOMAIN Insts(func, b) /\ i <= j
      BY <1>1
    <2>2. /\ IsInst(func, v) /\ OwnerBlock(func, v) = b
          /\ \A c \in Blocks(func) : \A k \in DOMAIN Insts(func, c) :
                Insts(func, c)[k].result = v => c = b /\ k = j
      BY <1>2, <1>4, <2>1, ResultFacts
    <2>3. PICK k \in 1..(i - 1) : DefinedAt(func, v, b, k)
      BY <1>3, <2>2 DEF OrdinaryUse
    <2>4. k = j
      BY <2>2, <2>3 DEF DefinedAt
    <2> QED BY <1>1, <2>1, <2>3, <2>4
  <1>5. i \in ((i - 1) + 1)..Len(AllInsts(b))
    BY <1>1
  <1> QED BY <1>4, <1>5 DEF LiveAt

(* A value stays live up to its last read, and was live before an           *)
(* instruction that does not define it.                                     *)
LEMMA LiveBackward ==
    ASSUME WellFormed(func), NEW b \in Blocks(func), NEW i \in DOMAIN Insts(func, b), NEW v,
           LiveAt(v, b, i), Insts(func, b)[i].result # v
    PROVE  LiveAt(v, b, i - 1)
  <1> DEFINE last == Len(Insts(func, b))
  <1>1. last \in Nat /\ i \in 1..last /\ Len(AllInsts(b)) = last + 1
    BY AllInstsFacts
  <1>2. \A j \in ((i - 1) + 1)..last : j = i \/ j \in (i + 1)..last
    BY <1>1
  <1>3. \A j \in (i + 1)..Len(AllInsts(b)) : j \in ((i - 1) + 1)..Len(AllInsts(b))
    BY <1>1
  <1> QED BY <1>2, <1>3 DEF LiveAt

LEMMA LiveForward ==
    ASSUME WellFormed(func), NEW b \in Blocks(func), NEW i \in DOMAIN Insts(func, b), NEW v,
           LiveAt(v, b, i - 1), IsPhi(Insts(func, b)[i]) \/ v \notin Uses(Insts(func, b)[i])
    PROVE  LiveAt(v, b, i)
  <1> DEFINE last == Len(Insts(func, b))
  <1>1. last \in Nat /\ i \in 1..last /\ Len(AllInsts(b)) = last + 1
        /\ AllInsts(b)[i] = Insts(func, b)[i]
    BY AllInstsFacts
  <1>2. \A j \in (i + 1)..last : j \in ((i - 1) + 1)..last
    BY <1>1
  <1>3. \A j \in ((i - 1) + 1)..Len(AllInsts(b)) : j = i \/ j \in (i + 1)..Len(AllInsts(b))
    BY <1>1
  <1> QED BY <1>1, <1>2, <1>3 DEF LiveAt

(* A value that some phi receives is a candidate.                           *)
LEMMA ReceivedIsCandidate ==
    ASSUME WellFormed(func), Verified(func), candidates = PreciseCandidates,
           NEW p \in Blocks(func), NEW s \in Successors(func, p), NEW phi \in Phis(func, s),
           ~IsConst(func, Incoming(phi, p))
    PROVE  Incoming(phi, p) \in candidates
  <1> DEFINE v == Incoming(phi, p)
  <1>1. PICK m \in DOMAIN Insts(func, s) : phi = Insts(func, s)[m] /\ IsPhi(Insts(func, s)[m])
    BY DEF Phis
  <1>2. s \in Blocks(func) /\ \E k \in DOMAIN phi.args : phi.args[k] = v
    BY <1>1, IncomingFacts
  <1>3. PICK k \in DOMAIN phi.args : phi.args[k] = v
    BY <1>2
  <1>4. m \in DOMAIN AllInsts(s) /\ AllInsts(s)[m] = phi
    <2>1. LET n == Len(Insts(func, s)) IN
          /\ n \in Nat /\ DOMAIN Insts(func, s) = 1..n /\ DOMAIN AllInsts(s) = 1..(n + 1)
          /\ \A j \in 1..n : AllInsts(s)[j] = Insts(func, s)[j]
      BY <1>2, AllInstsFacts
    <2> QED BY <1>1, <2>1
  <1>5. v \in Uses(AllInsts(s)[m])
    BY <1>3, <1>4 DEF Uses, Elements
  <1>6. v \in Values(func)
    BY <1>2, <1>4, <1>5, ReadsChecked
  <1>7. PICK u \in UsePositions(v) : u[1] = s /\ u[2] = m
    <2>1. PICK l : <<s, m, l>> \in UsePositions(v)
      BY <1>2, <1>4, <1>5, ReadPosition
    <2> QED BY <2>1
  <1>8. IsPhi(InstAt(u))
    BY <1>1, <1>4, <1>7 DEF InstAt
  <1> HIDE DEF v
  <1>9. v \in CrossBlockCandidates
    BY <1>6, <1>8 DEF CrossBlockCandidates, IsTemporary, v
  <1> QED BY <1>9 DEF PreciseCandidates, v

(* What is live at the start of a block is live at the end of every block   *)
(* before it, and so is what its phis receive.                              *)
LEMMA LiveAlongEdge ==
    ASSUME WellFormed(func), Verified(func), candidates = PreciseCandidates,
           NEW p \in Blocks(func), NEW s \in Successors(func, p),
           NEW v \in Values(func), ~IsConst(func, v),
           LiveAt(v, s, 0) \/ \E phi \in Phis(func, s) : v = Incoming(phi, p)
    PROVE  LiveAt(v, p, Len(Insts(func, p)))
  <1> DEFINE last == Len(Insts(func, p))
  <1>1. last \in Nat /\ s \in Blocks(func) /\ v # NoValue
    BY AllInstsFacts, FuncFacts, ValueNumbers
  <1>2. \A j \in (last + 1)..last : Insts(func, p)[j].result # v
    BY <1>1
  <1>3. CASE \E phi \in Phis(func, s) : v = Incoming(phi, p)
    BY <1>2, <1>3 DEF LiveAt
  <1>4. CASE LiveAt(v, s, 0)
    <2>1. \A t \in Successors(func, s) : \A phi \in Phis(func, t) :
              Incoming(phi, s) = v => v \in candidates
      BY <1>1, ReceivedIsCandidate
    <2>2. \E c \in ReachedWithoutDef(v, s) : NeededIn(v, c)
      BY <1>1, <1>4, <2>1, LiveAtStart
    <2> QED BY <1>2, <2>2 DEF LiveAt
  <1> QED BY <1>3, <1>4

(* Nothing but the parameters is live on entry.                             *)
LEMMA LiveOnEntry ==
    ASSUME WellFormed(func), Verified(func), candidates = PreciseCandidates,
           NEW v \in Values(func), ~IsConst(func, v), LiveAt(v, Entry, 0)
    PROVE  v \in Elements(func.params)
  <1>1. Entry \in Blocks(func) /\ v # NoValue
    BY BlocksFinite, ValueNumbers
  <1>2. \A t \in Successors(func, Entry) : \A phi \in Phis(func, t) :
            Incoming(phi, Entry) = v => v \in candidates
    BY <1>1, ReceivedIsCandidate
  <1>3. \E c \in ReachedWithoutDef(v, Entry) : NeededIn(v, c)
    BY <1>1, <1>2, LiveAtStart
  <1>4. ~IsInst(func, v)
    BY <1>1, <1>3, NothingNeededOnEntry
  <1>5. func.kind[v] \in Kinds
    BY DEF WellFormed, Values
  <1>6. func.kind[v] = "param"
    BY <1>4, <1>5 DEF IsInst, IsConst, Kinds
  <1> QED BY <1>6 DEF Verified

(* A sequence as long as the set of its elements repeats none.              *)
LEMMA AsManyAsElements ==
    ASSUME NEW S, NEW s \in Seq(S), Len(s) = Cardinality(Elements(s))
    PROVE  Distinct(s)
  <1> DEFINE I == 1..Len(s)
             T == Elements(s)
  <1>1. Len(s) \in Nat /\ DOMAIN s = I /\ s \in [I -> S]
    OBVIOUS
  <1>2. IsFiniteSet(I) /\ Cardinality(I) = Len(s)
    <2> DEFINE n == Len(s)
    <2>2. n \in Int /\ 1 \in Int
      BY <1>1
    <2> HIDE DEF n
    <2>3. IsFiniteSet(1..n) /\ Cardinality(1..n) = IF 1 > n THEN 0 ELSE n - 1 + 1
      BY <2>2, FS_Interval
    <2>4. n \in Nat
      BY <1>1 DEF n
    <2>5. IsFiniteSet(1..n) /\ Cardinality(1..n) = n
      BY <2>3, <2>4
    <2> QED BY <2>5 DEF n
  <1>3. s \in Surjection(I, T)
    <2>1. s \in [I -> T] /\ \A t \in T : \E i \in I : s[i] = t
      BY <1>1 DEF Elements
    <2> HIDE DEF I, T
    <2> QED BY <2>1 DEF Surjection
  <1>4. Cardinality(T) = Cardinality(I)
    BY <1>2
  <1> HIDE DEF I, T
  <1>5. s \in Injection(I, T)
    BY <1>2, <1>3, <1>4, FS_Surjection
  <1> QED BY <1>1, <1>5 DEF Distinct, Injection, IsInjective

(* A phi names every predecessor once.                                      *)
LEMMA PhiFacts ==
    ASSUME WellFormed(func), Verified(func), NEW s \in Blocks(func),
           NEW m \in DOMAIN Insts(func, s), IsPhi(Insts(func, s)[m])
    PROVE  LET phi == Insts(func, s)[m] IN
           /\ s # Entry
           /\ phi.result \in Values(func) /\ phi.result # NoValue
           /\ phi \in Phis(func, s) /\ phi.result \in PhiResults(func, s)
           /\ DOMAIN phi.args = DOMAIN phi.preds
           /\ \A k \in DOMAIN phi.args :
                 /\ phi.preds[k] \in Predecessors(func, s)
                 /\ phi.args[k] = Incoming(phi, phi.preds[k])
                 /\ phi.args[k] \in Values(func)
                 /\ EdgeUse(func, phi.args[k], phi.preds[k])
  <1> DEFINE phi == Insts(func, s)[m]
  <1>1. /\ s # Entry
        /\ Elements(phi.preds) = Predecessors(func, s)
        /\ Len(phi.preds) = Cardinality(Predecessors(func, s))
        /\ Len(phi.args) = Len(phi.preds)
    BY DEF Verified, PhisLeadBlocks
  <1>2. phi.args \in Seq(Nat) /\ phi.preds \in Seq(Nat)
    <2>1. func.blocks[s] \in BlockShape
      BY DEF WellFormed, Blocks
    <2>2. Insts(func, s) \in Seq(InstShape)
      BY <2>1 DEF BlockShape, Insts
    <2>3. phi \in InstShape
      BY <2>2
    <2> QED BY <2>3 DEF InstShape
  <1>3. phi.result \in Values(func) /\ Uses(phi) \subseteq Values(func)
    BY DEF Verified, ValuesChecked
  <1>4. phi.result # NoValue
    BY <1>3, ValueNumbers
  <1>5. phi \in Phis(func, s) /\ phi.result \in PhiResults(func, s)
    BY DEF Phis, PhiResults
  <1>6. Distinct(phi.preds)
    <2> HIDE DEF phi
    <2> QED BY <1>1, <1>2, AsManyAsElements
  <1>7. \A k \in DOMAIN phi.args : EdgeUse(func, phi.args[k], phi.preds[k])
    BY DEF Verified, UsesDominated
  <1> HIDE DEF phi
  <1>8. DOMAIN phi.args = DOMAIN phi.preds
    BY <1>1, <1>2
  <1>9. ASSUME NEW k \in DOMAIN phi.args
        PROVE  /\ phi.preds[k] \in Predecessors(func, s)
               /\ phi.args[k] = Incoming(phi, phi.preds[k])
               /\ phi.args[k] \in Values(func)
    <2>1. phi.preds[k] \in Elements(phi.preds) /\ phi.args[k] \in Uses(phi)
      BY <1>8 DEF Elements, Uses
    <2> DEFINE P(i) == phi.preds[i] = phi.preds[k]
               i0 == CHOOSE i \in DOMAIN phi.preds : P(i)
    <2>2. P(k)
      OBVIOUS
    <2>3. i0 \in DOMAIN phi.preds /\ P(i0)
      <3> HIDE DEF P
      <3> QED BY <1>8, <2>2
    <2>4. i0 = k
      <3> HIDE DEF i0
      <3> QED BY <1>6, <1>8, <2>3 DEF Distinct
    <2>5. Incoming(phi, phi.preds[k]) = phi.args[i0]
      BY DEF Incoming
    <2> HIDE DEF i0
    <2> QED BY <1>1, <1>3, <2>1, <2>4, <2>5
  <1> QED BY <1>1, <1>3, <1>4, <1>5, <1>7, <1>8, <1>9 DEF phi

(* Where a reachable definition is available, other than in its own block,  *)
(* a walk from it leads without passing it again.                           *)
LEMMA AvailableAfter ==
    ASSUME WellFormed(func), NEW b \in Reachable(func), b # Entry, NEW v, DefBlocks(v) = {b},
           NEW d \in Blocks(func), d # b, AvailableIn(func, b, d)
    PROVE  \E s \in Successors(func, b) : d \in ReachedWithoutDef(v, s)
  <1> DEFINE R == Reachable(func)
             A == ReachedAvoiding(func, {Entry}, {b})
             W == UNION {ReachedWithoutDef(v, s) : s \in Successors(func, b)}
             S == A \cup {b} \cup W
  <1>1. Entry \in Blocks(func) /\ {Entry} \in SUBSET Blocks(func)
    BY BlocksFinite
  <1>2. R \subseteq Blocks(func) /\ \A T : {Entry} \ {} \subseteq T
             /\ (\A c \in T \cap Blocks(func) : Successors(func, c) \ {} \subseteq T) => R \subseteq T
    BY <1>1, ReachedAvoidingFacts DEF Reachable
  <1>3. d \in R /\ d \notin A
    <2>1. d \in R
      BY DEF AvailableIn
    <2> QED BY <2>1 DEF AvailableIn, Dominates
  <1>4. {Entry} \ {b} \subseteq A /\ \A c \in A : Successors(func, c) \ {b} \subseteq A
    BY <1>1, ReachedAvoidingFacts
  <1>5. \A s \in Successors(func, b) : s \in Blocks(func)
    BY <1>2, FuncFacts
  <1>6. \A s \in Successors(func, b) :
            /\ s \in ReachedWithoutDef(v, s)
            /\ \A c \in ReachedWithoutDef(v, s) \ {b} : Successors(func, c) \subseteq ReachedWithoutDef(v, s)
    BY <1>5, ReachedWithoutDefFacts
  <1>7. \A c \in S : Successors(func, c) \subseteq S
    <2> SUFFICES ASSUME NEW c \in S, NEW t \in Successors(func, c) PROVE t \in S
      OBVIOUS
    <2>1. CASE c \in A
      BY <1>4, <2>1
    <2>2. CASE c = b
      BY <1>6, <2>2
    <2>3. CASE c \in W /\ c # b
      <3>1. PICK s \in Successors(func, b) : c \in ReachedWithoutDef(v, s)
        BY <2>3
      <3>2. t \in ReachedWithoutDef(v, s)
        BY <1>6, <2>3, <3>1
      <3> QED BY <3>2
    <2> QED BY <2>1, <2>2, <2>3
  <1>8. R \subseteq S
    <2>1. {Entry} \ {} \subseteq S /\ \A c \in S \cap Blocks(func) : Successors(func, c) \ {} \subseteq S
      BY <1>4, <1>7
    <2> HIDE DEF S, R
    <2> QED BY <1>2, <2>1
  <1>9. d \in W
    BY <1>3, <1>8
  <1> QED BY <1>9

(* Where nothing computes what nothing reads, the result of a phi is live   *)
(* from the phi on.                                                         *)
LEMMA PhiResultLive ==
    ASSUME WellFormed(func), Verified(func), candidates = PreciseCandidates, NoDeadPhis(func),
           NEW b \in Reachable(func), NEW i \in DOMAIN Insts(func, b), IsPhi(Insts(func, b)[i])
    PROVE  LiveAt(Insts(func, b)[i].result, b, i)
  <1> DEFINE v == Insts(func, b)[i].result
             last == Len(Insts(func, b))
  <1> SUFFICES LiveAt(v, b, i)
    OBVIOUS
  <1>1. b \in Blocks(func)
    <2>1. {Entry} \in SUBSET Blocks(func)
      BY BlocksFinite
    <2> QED BY <2>1, ReachedAvoidingFacts DEF Reachable
  <1>2. b # Entry /\ v \in PhiResults(func, b) /\ v \in Values(func) /\ v # NoValue
    BY <1>1, PhiFacts
  <1>3. /\ IsInst(func, v) /\ v \in Results(func, b) /\ OwnerBlock(func, v) = b
        /\ \A c \in Blocks(func) : \A j \in DOMAIN Insts(func, c) :
              Insts(func, c)[j].result = v => c = b /\ j = i
    BY <1>1, <1>2, ResultFacts
  <1>4. v \in candidates
    <2>1. IsTemporary(v)
      BY <1>3 DEF IsTemporary, IsConst, IsInst
    <2> HIDE DEF v
    <2>2. v \in CrossBlockCandidates
      BY <1>1, <1>2, <2>1 DEF CrossBlockCandidates
    <2> QED BY <2>2 DEF PreciseCandidates
  <1> HIDE DEF v
  <1>5. DefBlocks(v) = {b}
    BY <1>1, <1>3 DEF DefBlocks, Results
  <1>6. /\ last \in Nat /\ i \in 1..last /\ DOMAIN Insts(func, b) = 1..last /\ Len(AllInsts(b)) = last + 1
        /\ DOMAIN AllInsts(b) = 1..(last + 1)
    BY <1>1, AllInstsFacts
  <1>7. \A j \in (i + 1)..last : Insts(func, b)[j].result # v
    <2>1. \A j \in (i + 1)..last : j \in DOMAIN Insts(func, b) /\ j # i
      BY <1>6
    <2> QED BY <1>1, <1>3, <2>1
  <1>8. ASSUME NEW d \in Blocks(func), d # b, AvailableIn(func, b, d), NeededIn(v, d)
        PROVE  LiveAt(v, b, i)
    <2>1. \E s \in Successors(func, b) : d \in ReachedWithoutDef(v, s)
      BY <1>2, <1>5, <1>8, AvailableAfter
    <2> QED BY <1>7, <1>8, <2>1 DEF LiveAt
  <1>9. ASSUME NEW c \in Blocks(func), NEW j \in DOMAIN AllInsts(c), ~IsPhi(AllInsts(c)[j]),
               v \in Uses(AllInsts(c)[j]), OrdinaryUse(func, v, c, j)
        PROVE  LiveAt(v, b, i)
    <2>1. CASE c = b
      <3>1. PICK k \in 1..(j - 1) : DefinedAt(func, v, b, k)
        BY <1>3, <1>9, <2>1 DEF OrdinaryUse
      <3>2. k = i
        BY <1>1, <1>3, <3>1 DEF DefinedAt
      <3>3. j \in (i + 1)..Len(AllInsts(b))
        BY <1>6, <1>9, <2>1, <3>2
      <3> QED BY <1>7, <1>9, <2>1, <3>3 DEF LiveAt
    <2>2. CASE c # b
      <3>1. AvailableIn(func, b, c)
        BY <1>3, <1>9, <2>2 DEF OrdinaryUse
      <3>2. UsedFirst(v, c)
        <4>1. LET n == Len(Insts(func, c)) IN
              /\ n \in Nat /\ DOMAIN AllInsts(c) = 1..(n + 1) /\ DOMAIN Insts(func, c) = 1..n
              /\ \A k \in 1..n : AllInsts(c)[k] = Insts(func, c)[k]
          BY AllInstsFacts
        <4>2. \A k \in 1..(j - 1) : k \in DOMAIN Insts(func, c) /\ AllInsts(c)[k] = Insts(func, c)[k]
          BY <4>1
        <4>3. \A k \in 1..(j - 1) : AllInsts(c)[k].result # v
          BY <1>3, <2>2, <4>2
        <4> QED BY <1>9, <4>3 DEF UsedFirst
      <3> QED BY <1>8, <2>2, <3>1, <3>2, NeededInParts
    <2> QED BY <2>1, <2>2
  <1>10. ASSUME NEW c \in Blocks(func), NEW m \in DOMAIN Insts(func, c), IsPhi(Insts(func, c)[m]),
                v \in Uses(Insts(func, c)[m])
         PROVE  LiveAt(v, b, i)
    <2> DEFINE phi == Insts(func, c)[m]
    <2>1. PICK k \in DOMAIN phi.args : phi.args[k] = v
      BY <1>10 DEF Uses, Elements
    <2> DEFINE p == phi.preds[k]
    <2>2. /\ p \in Predecessors(func, c) /\ Incoming(phi, p) = v /\ EdgeUse(func, v, p)
          /\ phi \in Phis(func, c)
      BY <1>10, <2>1, PhiFacts
    <2> HIDE DEF phi, p
    <2>3. p \in Blocks(func) /\ c \in Successors(func, p)
      BY <2>2 DEF Predecessors
    <2>4. CASE p = b
      BY <1>7, <2>2, <2>3, <2>4 DEF LiveAt
    <2>5. CASE p # b
      <3>1. AvailableIn(func, b, p)
        BY <1>3, <2>2, <2>5 DEF EdgeUse
      <3>2. v \in EdgePhiUses(p, c) /\ p \notin DefBlocks(v)
        BY <1>4, <1>5, <2>2, <2>5 DEF EdgePhiUses
      <3> QED BY <1>8, <2>3, <2>5, <3>1, <3>2, NeededInParts
    <2> QED BY <2>4, <2>5
  <1>11. PICK c \in Blocks(func) :
            \/ \E m \in DOMAIN Insts(func, c) : v \in Uses(Insts(func, c)[m])
            \/ v \in Elements(Term(func, c).args)
    BY <1>1, <1>2 DEF NoDeadPhis
  <1>12. LET n == Len(Insts(func, c)) IN
         /\ n \in Nat /\ DOMAIN AllInsts(c) = 1..(n + 1) /\ DOMAIN Insts(func, c) = 1..n
         /\ \A k \in 1..n : AllInsts(c)[k] = Insts(func, c)[k]
         /\ AllInsts(c)[n + 1].args = Term(func, c).args
         /\ ~IsPhi(AllInsts(c)[n + 1])
    BY AllInstsFacts
  <1>13. CASE \E m \in DOMAIN Insts(func, c) : v \in Uses(Insts(func, c)[m])
    <2>1. PICK m \in DOMAIN Insts(func, c) : v \in Uses(Insts(func, c)[m])
      BY <1>13
    <2>2. m \in DOMAIN AllInsts(c) /\ AllInsts(c)[m] = Insts(func, c)[m]
      BY <1>12
    <2>3. CASE ~IsPhi(Insts(func, c)[m])
      <3>1. OrdinaryUse(func, v, c, m)
        BY <2>1, <2>3 DEF Verified, UsesDominated
      <3> QED BY <1>9, <2>1, <2>2, <2>3, <3>1
    <2> QED BY <1>10, <2>1, <2>3
  <1>14. CASE v \in Elements(Term(func, c).args)
    <2> DEFINE e == Len(Insts(func, c)) + 1
    <2>1. e \in DOMAIN AllInsts(c) /\ ~IsPhi(AllInsts(c)[e]) /\ v \in Uses(AllInsts(c)[e])
      BY <1>12, <1>14 DEF Uses
    <2>2. OrdinaryUse(func, v, c, e)
      BY <1>14 DEF Verified, UsesDominated
    <2> HIDE DEF e
    <2> QED BY <1>9, <2>1, <2>2
  <1> QED BY <1>11, <1>13, <1>14

-----------------------------------------------------------------------------
(* The function the allocators see.                                         *)

LEMMA AddressedFacts ==
    ASSUME NEW folds, NEW e \in InstShape
    PROVE  LET n == Addressed(folds, e) IN
           /\ n.op = e.op /\ n.result = e.result /\ n.preds = e.preds
           /\ DOMAIN n.args = DOMAIN e.args
           /\ \A k \in DOMAIN e.args : n.args[k] = e.args[k] \/ (k = 1 /\ n.args[k] = Base(folds, e.args[k]))
           /\ ~IsAccess(e) => n = e
           /\ DOMAIN folds = {} => n = e
  <1>1. e \in [op : Ops, result : Nat, args : Seq(Nat), preds : Seq(Nat)]
    BY DEF InstShape
  <1>2. CASE ~IsAccess(e)
    BY <1>2 DEF Addressed
  <1>3. CASE IsAccess(e)
    <2> DEFINE base == Base(folds, e.args[1])
               args == [e.args EXCEPT ![1] = base]
               n == [e EXCEPT !.args = args]
    <2>1. Addressed(folds, e) = n
      BY <1>3 DEF Addressed
    <2>2. n.op = e.op /\ n.result = e.result /\ n.preds = e.preds /\ n.args = args
      BY <1>1
    <2>3. /\ DOMAIN args = DOMAIN e.args
          /\ \A k \in DOMAIN e.args : args[k] = e.args[k] \/ (k = 1 /\ args[k] = Base(folds, e.args[k]))
      OBVIOUS
    <2>4. DOMAIN folds = {} => n = e
      <3> SUFFICES ASSUME DOMAIN folds = {} PROVE n = e
        OBVIOUS
      <3>1. base = e.args[1]
        BY DEF Base
      <3>2. args = e.args
        BY <1>1, <3>1
      <3> HIDE DEF args
      <3> QED BY <1>1, <3>2
    <2> HIDE DEF n, args
    <2> QED BY <1>3, <2>1, <2>2, <2>3, <2>4
  <1> QED BY <1>2, <1>3

(* Allocation removes the folded and dead addresses, and accesses read the  *)
(* base of a folded address.                                               *)
LEMMA ViewFacts ==
    ASSUME NEW f, WellFormed(f)
    PROVE  LET g == AllocationView(f) IN
           /\ g.kind = f.kind /\ g.params = f.params
           /\ Blocks(g) = Blocks(f)
           /\ \A b \in Blocks(f) :
                 /\ Term(g, b) = Term(f, b)
                 /\ DOMAIN Insts(g, b) = DOMAIN Insts(f, b)
                 /\ \A i \in DOMAIN Insts(f, b) :
                       Insts(g, b)[i] = IF Insts(f, b)[i].result \in DOMAIN Folds(f) \cup Elided(f)
                                        THEN Nop ELSE Addressed(Folds(f), Insts(f, b)[i])
  <1> DEFINE folds == Folds(f)
             dead == Elided(f)
             one(e) == IF e.result \in DOMAIN folds THEN Nop ELSE Addressed(folds, e)
             two(e) == IF e.result \in dead THEN Nop ELSE e
             W == WithoutFolded(f, folds)
             g == AllocationView(f)
  <1>2. {"kind", "params", "blocks"} \subseteq DOMAIN f
    BY DEF WellFormed
  <1>3. \A b \in Blocks(f) : \A i \in DOMAIN Insts(f, b) : Insts(f, b)[i] \in InstShape
    <2> SUFFICES ASSUME NEW b \in Blocks(f) PROVE Insts(f, b) \in Seq(InstShape)
      OBVIOUS
    <2>1. f.blocks[b] \in BlockShape
      BY DEF WellFormed, Blocks
    <2> QED BY <2>1 DEF BlockShape, Insts
  <1>4. CASE DOMAIN folds = {}
    <2>1. g = f /\ dead = {}
      BY <1>4 DEF AllocationView, Elided
    <2>2. \A b \in Blocks(f) : \A i \in DOMAIN Insts(f, b) : Addressed(folds, Insts(f, b)[i]) = Insts(f, b)[i]
      BY <1>3, <1>4, AddressedFacts
    <2> HIDE DEF folds, dead
    <2>3. \A b \in Blocks(f) : \A i \in DOMAIN Insts(f, b) :
             Insts(f, b)[i] = IF Insts(f, b)[i].result \in DOMAIN folds \cup dead
                              THEN Nop ELSE Addressed(folds, Insts(f, b)[i])
      BY <1>4, <2>1, <2>2
    <2> QED BY <2>1, <2>3 DEF folds, dead
  <1>5. CASE DOMAIN folds # {}
    <2>1. dead = DeadAddressValues(W)
      BY <1>5 DEF Elided
    <2> DEFINE new(b) == [insts |-> [i \in DOMAIN Insts(f, b) |-> one(Insts(f, b)[i])], term |-> Term(f, b)]
               newer(b) == [insts |-> [i \in DOMAIN Insts(W, b) |-> two(Insts(W, b)[i])], term |-> Term(W, b)]
    <2>2. W = [f EXCEPT !.blocks = [b \in Blocks(f) |-> new(b)]]
      BY DEF WithoutFolded, EachInst
    <2>3. g = [W EXCEPT !.blocks = [b \in Blocks(W) |-> newer(b)]]
      BY <1>5, <2>1 DEF AllocationView, EachInst
    <2> HIDE DEF W, g, new, newer, folds, dead
    <2>4. /\ W.kind = f.kind /\ W.params = f.params /\ {"kind", "params", "blocks"} \subseteq DOMAIN W
          /\ W.blocks = [b \in Blocks(f) |-> new(b)]
      BY <1>2, <2>2
    <2>5. /\ Blocks(W) = Blocks(f)
          /\ \A b \in Blocks(f) : W.blocks[b] = new(b)
      BY <2>4 DEF Blocks
    <2>6. /\ g.kind = f.kind /\ g.params = f.params
          /\ g.blocks = [b \in Blocks(f) |-> newer(b)]
      BY <2>3, <2>4, <2>5
    <2>7. /\ Blocks(g) = Blocks(f)
          /\ \A b \in Blocks(f) : g.blocks[b] = newer(b)
      BY <2>6 DEF Blocks
    <2>8. \A e \in InstShape : two(one(e)) =
              IF e.result \in DOMAIN folds \cup dead THEN Nop ELSE Addressed(folds, e)
      <3> SUFFICES ASSUME NEW e \in InstShape
                   PROVE  two(one(e)) = IF e.result \in DOMAIN folds \cup dead THEN Nop ELSE Addressed(folds, e)
        OBVIOUS
      <3>1. Addressed(folds, e).result = e.result
        BY AddressedFacts
      <3>2. two(Nop) = Nop
        OBVIOUS
      <3> QED BY <3>1, <3>2
    <2>9. ASSUME NEW b \in Blocks(f)
          PROVE  /\ Term(g, b) = Term(f, b)
                 /\ DOMAIN Insts(g, b) = DOMAIN Insts(f, b)
                 /\ \A i \in DOMAIN Insts(f, b) :
                       Insts(g, b)[i] = IF Insts(f, b)[i].result \in DOMAIN folds \cup dead
                                        THEN Nop ELSE Addressed(folds, Insts(f, b)[i])
      <3> HIDE DEF one, two
      <3>a. W.blocks[b] = new(b) /\ g.blocks[b] = newer(b)
        BY <2>5, <2>7
      <3>b. /\ new(b).term = Term(f, b)
            /\ new(b).insts = [i \in DOMAIN Insts(f, b) |-> one(Insts(f, b)[i])]
            /\ newer(b).term = Term(W, b)
            /\ newer(b).insts = [i \in DOMAIN Insts(W, b) |-> two(Insts(W, b)[i])]
        BY DEF new, newer
      <3>1. /\ Term(W, b) = Term(f, b)
            /\ Insts(W, b) = [i \in DOMAIN Insts(f, b) |-> one(Insts(f, b)[i])]
        <4> HIDE DEF new, newer
        <4>1. Term(W, b) = new(b).term /\ Insts(W, b) = new(b).insts
          BY ONLY <3>a DEF Insts, Term
        <4> QED BY <3>b, <4>1
      <3>2. /\ Term(g, b) = Term(W, b)
            /\ Insts(g, b) = [i \in DOMAIN Insts(W, b) |-> two(Insts(W, b)[i])]
        <4> HIDE DEF new, newer
        <4>1. Term(g, b) = newer(b).term /\ Insts(g, b) = newer(b).insts
          BY ONLY <3>a DEF Insts, Term
        <4> QED BY <3>b, <4>1
      <3>3. /\ DOMAIN Insts(g, b) = DOMAIN Insts(f, b)
            /\ \A i \in DOMAIN Insts(f, b) : Insts(g, b)[i] = two(one(Insts(f, b)[i]))
        BY <3>1, <3>2
      <3> QED BY <1>3, <2>8, <3>1, <3>2, <3>3
    <2> QED BY <2>6, <2>7, <2>9 DEF folds, dead, g
  <1> QED BY <1>4, <1>5

-----------------------------------------------------------------------------
(* What is available in a block: paths that pass one block to reach another.*)

(* What avoids a block never enters it, and reaches less than what avoids   *)
(* nothing.                                                                 *)
LEMMA AvoidedNotReached ==
    ASSUME NEW f, WellFormed(f), NEW from \in SUBSET Blocks(f), NEW a
    PROVE  /\ a \notin ReachedAvoiding(f, from, {a})
           /\ ReachedAvoiding(f, from, {a}) \subseteq ReachedAvoiding(f, from, {})
           /\ from \subseteq ReachedAvoiding(f, from, {})
           /\ \A c \in ReachedAvoiding(f, from, {}) : Successors(f, c) \subseteq ReachedAvoiding(f, from, {})
  <1> DEFINE A == ReachedAvoiding(f, from, {a})
             R == ReachedAvoiding(f, from, {})
             S == Blocks(f) \ {a}
  <1>1. \A c \in Blocks(f) : Successors(f, c) \subseteq Blocks(f)
    BY DEF WellFormed
  <1>2. A \subseteq S
    <2>1. from \ {a} \subseteq S /\ \A c \in S \cap Blocks(f) : Successors(f, c) \ {a} \subseteq S
      BY <1>1
    <2> HIDE DEF S
    <2> QED BY <2>1, ReachFacts
  <1>3. from \subseteq R /\ \A c \in R : Successors(f, c) \subseteq R
    <2>1. from \ {} \subseteq R /\ \A c \in R : Successors(f, c) \ {} \subseteq R
      BY ReachFacts
    <2> QED BY <2>1
  <1>4. A \subseteq R
    <2>1. from \ {a} \subseteq R /\ \A c \in R \cap Blocks(f) : Successors(f, c) \ {a} \subseteq R
      BY <1>3
    <2> HIDE DEF R
    <2> QED BY <2>1, ReachFacts
  <1> QED BY <1>2, <1>3, <1>4

(* Every path to b passes c and every path to c passes a: every path to b   *)
(* passes a.                                                                *)
LEMMA PassingTwice ==
    ASSUME NEW f, WellFormed(f), NEW from \in SUBSET Blocks(f), NEW a, NEW b, NEW c,
           c \notin ReachedAvoiding(f, from, {a}), b \notin ReachedAvoiding(f, from, {c})
    PROVE  b \notin ReachedAvoiding(f, from, {a})
  <1> DEFINE A == ReachedAvoiding(f, from, {a})
             C == ReachedAvoiding(f, from, {c})
             S == A \cap C
  <1>1. from \ {a} \subseteq A /\ \A x \in A : Successors(f, x) \ {a} \subseteq A
    BY ReachFacts
  <1>2. from \ {c} \subseteq C /\ \A x \in C : Successors(f, x) \ {c} \subseteq C
    BY ReachFacts
  <1>3. from \ {a} \subseteq S /\ \A x \in S \cap Blocks(f) : Successors(f, x) \ {a} \subseteq S
    BY <1>1, <1>2
  <1>4. A \subseteq S
    <2> HIDE DEF S
    <2> QED BY <1>3, ReachFacts
  <1> QED BY <1>4

(* Two blocks that every path to the other passes are one, when a path      *)
(* leads to them.                                                           *)
LEMMA PassingEachOther ==
    ASSUME NEW f, WellFormed(f), NEW from \in SUBSET Blocks(f), NEW a, NEW c,
           c \notin ReachedAvoiding(f, from, {a}), a \notin ReachedAvoiding(f, from, {c}),
           a \in ReachedAvoiding(f, from, {})
    PROVE  a = c
  <1> DEFINE A == ReachedAvoiding(f, from, {a})
             C == ReachedAvoiding(f, from, {c})
             S == A \cap C
  <1>1. from \ {a} \subseteq A /\ \A x \in A : Successors(f, x) \ {a} \subseteq A
    BY ONLY WellFormed(f), from \in SUBSET Blocks(f), ReachFacts
  <1>2. from \ {c} \subseteq C /\ \A x \in C : Successors(f, x) \ {c} \subseteq C
    BY ONLY WellFormed(f), from \in SUBSET Blocks(f), ReachFacts
  <1> SUFFICES ASSUME a # c PROVE FALSE
    OBVIOUS
  <1>3. a \notin S
    BY AvoidedNotReached
  <1>4. from \ {} \subseteq S
    BY <1>1, <1>2
  <1>5. \A x \in S \cap Blocks(f) : Successors(f, x) \ {} \subseteq S
    BY <1>1, <1>2
  <1>6. ReachedAvoiding(f, from, {}) \subseteq S
    <2> HIDE DEF S
    <2> QED BY <1>4, <1>5, ReachFacts
  <1> QED BY <1>3, <1>6

(* A block that every path to a live one passes is live.                    *)
LEMMA PassedIsLive ==
    ASSUME NEW f, WellFormed(f), NEW b \in Reachable(f), NEW c,
           b \notin ReachedAvoiding(f, {Entry}, {c})
    PROVE  c \in Reachable(f)
  <1> SUFFICES ASSUME c \notin Reachable(f) PROVE FALSE
    OBVIOUS
  <1> DEFINE R == ReachedAvoiding(f, {Entry}, {})
             C == ReachedAvoiding(f, {Entry}, {c})
             S == R \cap C
  <1>0. {Entry} \in SUBSET Blocks(f)
    BY DEF WellFormed, Entry, Blocks
  <1>1. Entry \in R /\ \A x \in R : Successors(f, x) \subseteq R
    BY <1>0, AvoidedNotReached
  <1>2. {Entry} \ {c} \subseteq C /\ \A x \in C : Successors(f, x) \ {c} \subseteq C
    BY <1>0, ReachFacts
  <1>3. {Entry} \ {} \subseteq S /\ \A x \in S \cap Blocks(f) : Successors(f, x) \ {} \subseteq S
    BY <1>1, <1>2 DEF Reachable
  <1>4. R \subseteq S
    <2> HIDE DEF S
    <2> QED BY <1>0, <1>3, ReachFacts
  <1> QED BY <1>4 DEF Reachable

(* Where the walks into the dead part begin, as AvailableIn says it.        *)
Beginnings(f) ==
    LET dead == Blocks(f) \ Reachable(f) IN
    {c \in dead : \A d \in dead : c \in ReachedAvoiding(f, {d}, {}) => d \in ReachedAvoiding(f, {c}, {})}

(* Every dead block is reached from there: of the blocks that lead to it,   *)
(* one with the fewest blocks leading to itself is such a beginning.        *)
LEMMA DeadReached ==
    ASSUME NEW f, WellFormed(f), NEW b \in Blocks(f) \ Reachable(f)
    PROVE  b \in ReachedAvoiding(f, Beginnings(f), {})
  <1> DEFINE dead == Blocks(f) \ Reachable(f)
             from(c) == ReachedAvoiding(f, {c}, {})
             back(c) == {d \in dead : c \in from(d)}
             size(c) == Cardinality(back(c))
             T == {size(c) : c \in back(b)}
  <1>1. \A c \in dead : c \in from(c) /\ from(c) \subseteq Blocks(f)
    <2> SUFFICES ASSUME NEW c \in dead PROVE c \in from(c) /\ from(c) \subseteq Blocks(f)
      OBVIOUS
    <2>1. {c} \in SUBSET Blocks(f)
      OBVIOUS
    <2> QED BY <2>1, ReachFacts, AvoidedNotReached
  <1>2. ASSUME NEW c \in dead, NEW d \in dead, d \in from(c)
        PROVE  from(d) \subseteq from(c)
    <2>1. {c} \in SUBSET Blocks(f) /\ {d} \in SUBSET Blocks(f)
      OBVIOUS
    <2>2. {d} \ {} \subseteq from(c) /\ \A x \in from(c) \cap Blocks(f) : Successors(f, x) \ {} \subseteq from(c)
      BY <1>2, <2>1, AvoidedNotReached
    <2> HIDE DEF dead
    <2> QED BY <2>1, <2>2, ReachFacts
  <1>3. IsFiniteSet(dead)
    <2>1. f.blocks \in Seq(BlockShape)
      BY DEF WellFormed
    <2>2. Len(f.blocks) \in Nat /\ Blocks(f) = 1..Len(f.blocks)
      BY <2>1 DEF Blocks
    <2>3. IsFiniteSet(Blocks(f))
      BY <2>2, FS_Interval
    <2> QED BY <2>3, FS_Subset
  <1>4. \A c \in dead : back(c) \subseteq dead /\ IsFiniteSet(back(c)) /\ size(c) \in Nat
    BY <1>3, FS_Subset, FS_CardinalityType
  <1>5. b \in back(b)
    BY <1>1
  <1>6. T \subseteq Nat /\ T # {}
    BY <1>4, <1>5
  <1>7. PICK c \in back(b) : \A d \in back(b) : size(c) <= size(d)
    <2>1. PICK x \in T : \A y \in T : x <= y
      <3> HIDE DEF T
      <3> QED BY <1>6, LeastElement
    <2>2. PICK c \in back(b) : x = size(c)
      BY <2>1
    <2>3. \A d \in back(b) : size(d) \in T
      OBVIOUS
    <2> HIDE DEF size, back, T
    <2> QED BY <2>1, <2>2, <2>3
  <1>8. c \in dead /\ b \in from(c)
    BY <1>7
  <1>9. ASSUME NEW d \in dead, c \in from(d)
        PROVE  d \in from(c)
    <2>1. d \in back(b)
      BY <1>2, <1>8, <1>9
    <2>2. back(d) \subseteq back(c)
      BY <1>2, <1>8, <1>9
    <2>3. size(c) <= size(d)
      BY <1>7, <2>1
    <2>4. size(d) <= size(c) /\ (size(d) = size(c) => back(d) = back(c))
      <3> DEFINE X == back(d)
                 Y == back(c)
      <3>1. X \subseteq Y /\ IsFiniteSet(Y)
        BY <1>4, <1>8, <2>2
      <3> HIDE DEF X, Y
      <3>2. Cardinality(X) <= Cardinality(Y) /\ (Cardinality(X) = Cardinality(Y) => X = Y)
        BY <3>1, FS_Subset
      <3> QED BY <3>2 DEF X, Y
    <2>5. size(c) \in Nat /\ size(d) \in Nat
      BY <1>4, <1>8
    <2>6. back(d) = back(c)
      <3> HIDE DEF size, back
      <3> QED BY <2>3, <2>4, <2>5
    <2>7. c \in back(c)
      BY <1>1, <1>8
    <2>8. c \in back(d)
      BY <2>6, <2>7
    <2>9. d \in back(d)
      BY <1>1
    <2> QED BY <2>2, <2>9, <2>6, <2>8, <1>8
  <1>10. c \in Beginnings(f)
    BY <1>8, <1>9 DEF Beginnings
  <1>11. from(c) \subseteq ReachedAvoiding(f, Beginnings(f), {})
    <2> DEFINE R == ReachedAvoiding(f, Beginnings(f), {})
    <2>1. {c} \in SUBSET Blocks(f) /\ Beginnings(f) \in SUBSET Blocks(f)
      BY <1>8 DEF Beginnings
    <2>2. {c} \ {} \subseteq R /\ \A x \in R \cap Blocks(f) : Successors(f, x) \ {} \subseteq R
      BY <1>10, <2>1, AvoidedNotReached
    <2> HIDE DEF R
    <2>3. from(c) \subseteq R
      BY ONLY WellFormed(f), <2>1, <2>2, ReachFacts
    <2> QED BY <2>3 DEF R
  <1> QED BY <1>8, <1>11

LEMMA AvailableCases ==
    ASSUME NEW f, NEW a, NEW b
    PROVE  AvailableIn(f, a, b) <=>
              IF b \in Reachable(f) THEN b \notin ReachedAvoiding(f, {Entry}, {a})
              ELSE IF a \in Reachable(f) THEN a = Entry
              ELSE b \notin ReachedAvoiding(f, Beginnings(f), {a})
  <1> DEFINE dead == Blocks(f) \ Reachable(f)
             reach == [c \in dead |-> ReachedAvoiding(f, {c}, {})]
             sources == {c \in dead : \A d \in dead : c \in reach[d] => d \in reach[c]}
  <1>1. \A c \in dead : reach[c] = ReachedAvoiding(f, {c}, {})
    OBVIOUS
  <1>2. sources = Beginnings(f)
    <2> HIDE DEF reach
    <2> QED BY <1>1 DEF Beginnings
  <1>3. AvailableIn(f, a, b) <=>
          IF b \in Reachable(f) THEN Dominates(f, a, b)
          ELSE IF a \in Reachable(f) THEN a = Entry
          ELSE b \notin ReachedAvoiding(f, sources, {a})
    BY DEF AvailableIn
  <1> HIDE DEF sources
  <1> QED BY <1>2, <1>3 DEF Dominates

(* Availability is a strict order among different blocks.                   *)
LEMMA AvailableOrder ==
    ASSUME NEW f, WellFormed(f), NEW a \in Blocks(f), NEW c \in Blocks(f), NEW b \in Blocks(f),
           AvailableIn(f, a, c), AvailableIn(f, c, b), a # c, c # b
    PROVE  AvailableIn(f, a, b) /\ a # b
  <1> DEFINE E == {Entry}
             S == Beginnings(f)
             R == Reachable(f)
  <1>1. E \in SUBSET Blocks(f) /\ S \in SUBSET Blocks(f) /\ R = ReachedAvoiding(f, E, {}) /\ Entry \in R
    <2>1. E \in SUBSET Blocks(f)
      BY DEF WellFormed, Entry, Blocks
    <2>2. E \subseteq ReachedAvoiding(f, E, {})
      BY <2>1, AvoidedNotReached
    <2> QED BY <2>1, <2>2 DEF Beginnings, Reachable
  <1>2. CASE b \in R
    <2>1. b \notin ReachedAvoiding(f, E, {c})
      BY <1>2, AvailableCases
    <2>2. c \in R
      BY <1>2, <2>1, PassedIsLive
    <2>3. c \notin ReachedAvoiding(f, E, {a})
      BY <2>2, AvailableCases
    <2> HIDE DEF E, R
    <2>4. b \notin ReachedAvoiding(f, E, {a})
      BY ONLY WellFormed(f), <1>1, <2>1, <2>3, PassingTwice
    <2>5. a # b
      <3>1. SUFFICES ASSUME a = b PROVE FALSE
        OBVIOUS
      <3>2. b \in ReachedAvoiding(f, E, {})
        BY <1>1, <1>2
      <3>3. c \notin ReachedAvoiding(f, E, {b})
        BY <2>3, <3>1
      <3>4. b = c
        BY ONLY WellFormed(f), <1>1, <2>1, <3>2, <3>3, PassingEachOther
      <3> QED BY <3>4
    <2> QED BY <1>2, <2>4, <2>5, AvailableCases DEF E, R
  <1>3. CASE b \notin R /\ c \in R
    <2>1. c = Entry
      BY <1>3, AvailableCases
    <2>2. c \notin ReachedAvoiding(f, E, {a})
      BY <1>3, AvailableCases
    <2>3. E \ {a} \subseteq ReachedAvoiding(f, E, {a})
      BY <1>1, ReachFacts
    <2> QED BY <2>1, <2>2, <2>3
  <1>4. CASE b \notin R /\ c \notin R
    <2>1. b \notin ReachedAvoiding(f, S, {c})
      BY <1>4, AvailableCases
    <2>2. CASE a \in R
      BY <1>4, <2>2, AvailableCases
    <2>3. CASE a \notin R
      <3>1. c \notin ReachedAvoiding(f, S, {a})
        BY <1>4, <2>3, AvailableCases
      <3> HIDE DEF S
      <3>2. b \notin ReachedAvoiding(f, S, {a})
        BY ONLY WellFormed(f), <1>1, <2>1, <3>1, PassingTwice
      <3>3. a # b
        <4>1. SUFFICES ASSUME a = b PROVE FALSE
          OBVIOUS
        <4>2. b \in ReachedAvoiding(f, S, {})
          BY <1>4, DeadReached DEF S
        <4>3. c \notin ReachedAvoiding(f, S, {b})
          BY <3>1, <4>1
        <4>4. b = c
          BY ONLY WellFormed(f), <1>1, <2>1, <4>2, <4>3, PassingEachOther
        <4> QED BY <4>4
      <3> QED BY <1>4, <2>3, <3>2, <3>3, AvailableCases DEF S
    <2> QED BY <2>2, <2>3
  <1> QED BY <1>2, <1>3, <1>4

(* Functions with the same branches have the same availability.             *)
LEMMA SameAvailability ==
    ASSUME NEW f, NEW g, WellFormed(f), WellFormed(g), Blocks(g) = Blocks(f),
           \A b \in Blocks(f) : Successors(g, b) = Successors(f, b)
    PROVE  /\ Reachable(g) = Reachable(f)
           /\ \A a, b \in Blocks(f) : AvailableIn(g, a, b) <=> AvailableIn(f, a, b)
  <1>1. ASSUME NEW from \in SUBSET Blocks(f), NEW avoided
        PROVE  ReachedAvoiding(g, from, avoided) = ReachedAvoiding(f, from, avoided)
    <2> DEFINE G == ReachedAvoiding(g, from, avoided)
               F == ReachedAvoiding(f, from, avoided)
    <2>1. from \ avoided \subseteq F /\ F \subseteq Blocks(f)
          /\ \A c \in F : Successors(f, c) \ avoided \subseteq F
      BY ReachFacts
    <2>2. from \ avoided \subseteq G /\ G \subseteq Blocks(f)
          /\ \A c \in G : Successors(g, c) \ avoided \subseteq G
      BY ReachFacts
    <2>3. \A c \in F \cap Blocks(g) : Successors(g, c) \ avoided \subseteq F
      BY <2>1
    <2>4. \A c \in G \cap Blocks(f) : Successors(f, c) \ avoided \subseteq G
      BY <2>2
    <2>5. from \in SUBSET Blocks(g)
      OBVIOUS
    <2> HIDE DEF F, G
    <2>6. ReachedAvoiding(g, from, avoided) \subseteq F
      BY ONLY WellFormed(g), <2>1, <2>3, <2>5, ReachFacts
    <2>7. ReachedAvoiding(f, from, avoided) \subseteq G
      BY ONLY WellFormed(f), from \in SUBSET Blocks(f), <2>2, <2>4, ReachFacts
    <2> QED BY <2>6, <2>7 DEF F, G
  <1>2. Reachable(g) = Reachable(f)
    <2>1. {Entry} \in SUBSET Blocks(f)
      BY DEF WellFormed, Entry, Blocks
    <2> QED BY <1>1, <2>1 DEF Reachable
  <1>3. Beginnings(g) = Beginnings(f) /\ Beginnings(f) \in SUBSET Blocks(f)
    <2>1. \A c \in Blocks(f) : ReachedAvoiding(g, {c}, {}) = ReachedAvoiding(f, {c}, {})
      <3> SUFFICES ASSUME NEW c \in Blocks(f)
                   PROVE  ReachedAvoiding(g, {c}, {}) = ReachedAvoiding(f, {c}, {})
        OBVIOUS
      <3>1. {c} \in SUBSET Blocks(f)
        OBVIOUS
      <3> QED BY <1>1, <3>1
    <2> DEFINE dead == Blocks(f) \ Reachable(f)
               rf(c) == ReachedAvoiding(f, {c}, {})
               rg(c) == ReachedAvoiding(g, {c}, {})
    <2>2. Beginnings(f) = {c \in dead : \A d \in dead : c \in rf(d) => d \in rf(c)}
      BY DEF Beginnings
    <2>3. Beginnings(g) = {c \in dead : \A d \in dead : c \in rg(d) => d \in rg(c)}
      BY <1>2 DEF Beginnings
    <2>4. \A c \in dead : rg(c) = rf(c)
      BY <2>1
    <2>5. dead \subseteq Blocks(f)
      OBVIOUS
    <2> HIDE DEF dead, rf, rg
    <2> QED BY <2>2, <2>3, <2>4, <2>5
  <1>4. ASSUME NEW a \in Blocks(f), NEW b \in Blocks(f)
        PROVE  AvailableIn(g, a, b) <=> AvailableIn(f, a, b)
    <2>1. ReachedAvoiding(g, {Entry}, {a}) = ReachedAvoiding(f, {Entry}, {a})
      <3>1. {Entry} \in SUBSET Blocks(f)
        BY DEF WellFormed, Entry, Blocks
      <3> QED BY <1>1, <3>1
    <2>2. ReachedAvoiding(g, Beginnings(g), {a}) = ReachedAvoiding(f, Beginnings(f), {a})
      BY <1>1, <1>3
    <2> QED BY <1>2, <2>1, <2>2, AvailableCases
  <1> QED BY <1>2, <1>4
-----------------------------------------------------------------------------
(* What the folding of addresses leaves of a verified function.             *)

LEMMA ShapeFacts ==
    ASSUME NEW f, WellFormed(f)
    PROVE  /\ f.kind \in Seq(Kinds) /\ Values(f) = 1..Len(f.kind) /\ Len(f.kind) \in Nat
           /\ 0 \notin Values(f) /\ Values(f) \subseteq Nat
           /\ \A b \in Blocks(f) :
                 /\ Insts(f, b) \in Seq(InstShape) /\ Len(Insts(f, b)) \in Nat
                 /\ DOMAIN Insts(f, b) = 1..Len(Insts(f, b))
                 /\ Term(f, b).args \in Seq(Nat)
                 /\ \A i \in DOMAIN Insts(f, b) : Insts(f, b)[i] \in InstShape
  <1>1. f.kind \in Seq(Kinds)
    BY DEF WellFormed
  <1>2. Values(f) = 1..Len(f.kind) /\ Len(f.kind) \in Nat
    BY <1>1 DEF Values
  <1>3. ASSUME NEW b \in Blocks(f)
        PROVE  /\ Insts(f, b) \in Seq(InstShape) /\ Len(Insts(f, b)) \in Nat
               /\ DOMAIN Insts(f, b) = 1..Len(Insts(f, b))
               /\ Term(f, b).args \in Seq(Nat)
               /\ \A i \in DOMAIN Insts(f, b) : Insts(f, b)[i] \in InstShape
    <2>1. f.blocks[b] \in BlockShape
      BY DEF WellFormed, Blocks
    <2>2. Insts(f, b) \in Seq(InstShape) /\ Term(f, b).args \in Seq(Nat)
      BY <2>1 DEF BlockShape, Insts, Term
    <2> QED BY <2>2
  <1> QED BY <1>1, <1>2, <1>3

(* An instruction, where it stands and what it reads.                       *)
LEMMA SiteFacts ==
    ASSUME NEW f, NEW b \in Blocks(f), NEW i \in DOMAIN Insts(f, b)
    PROVE  /\ <<b, i>> \in Sites(f) /\ <<b, i>> \in Places(f)
           /\ ResultAt(f, <<b, i>>) = Insts(f, b)[i].result
           /\ Args(f, <<b, i>>) = Insts(f, b)[i].args
           /\ \A k \in DOMAIN Insts(f, b)[i].args :
                 <<<<b, i>>, k>> \in UsesOf(f, Insts(f, b)[i].args[k])
  <1>1. <<b, i>> \in Sites(f)
    BY DEF Sites
  <1>2. Args(f, <<b, i>>) = Insts(f, b)[i].args
    BY DEF Args
  <1>3. <<b, i>> \in Places(f)
    BY <1>1 DEF Places
  <1>4. \A k \in DOMAIN Insts(f, b)[i].args : <<<<b, i>>, k>> \in UsesOf(f, Insts(f, b)[i].args[k])
    BY <1>2, <1>3 DEF UsesOf
  <1> QED BY <1>1, <1>2, <1>3, <1>4 DEF ResultAt

(* A terminator likewise.                                                   *)
LEMMA EndFacts ==
    ASSUME NEW f, NEW b \in Blocks(f), Len(Insts(f, b)) + 1 \notin DOMAIN Insts(f, b)
    PROVE  LET end == <<b, Len(Insts(f, b)) + 1>> IN
           /\ end \notin Sites(f)
           /\ \A v \in Elements(Term(f, b).args) : \E k : <<end, k>> \in UsesOf(f, v)
  <1> DEFINE m == Len(Insts(f, b)) + 1
             end == <<b, m>>
  <1>1. m \notin DOMAIN Insts(f, b)
    OBVIOUS
  <1>2. end \in Places(f)
    BY DEF Places
  <1> HIDE DEF m
  <1>3. end \notin Sites(f)
    BY <1>1 DEF Sites
  <1>4. Args(f, end) = Term(f, b).args
    BY <1>1 DEF Args
  <1>5. \A k \in DOMAIN Term(f, b).args : <<end, k>> \in UsesOf(f, Term(f, b).args[k])
    <2> HIDE DEF end
    <2> QED BY <1>2, <1>4 DEF UsesOf
  <1> QED BY <1>3, <1>5 DEF Elements, m

(* An eligible address is computed by an instruction that reads a value,    *)
(* and only loads and stores read it.                                       *)
LEMMA EligibleInst ==
    ASSUME NEW f, WellFormed(f), Verified(f), NEW s \in Eligible(f)
    PROVE  \E b \in Blocks(f) : \E i \in DOMAIN Insts(f, b) :
              LET e == Insts(f, b)[i] IN
              /\ s = <<b, i>> /\ e.op = "gep" /\ 1 \in DOMAIN e.args
              /\ Args(f, s) = e.args /\ ResultAt(f, s) = e.result /\ e.result # NoValue
              /\ \A u \in UsesOf(f, e.result) :
                    u[1] \in Sites(f) /\ u[2] = 1 /\ IsAccess(Insts(f, u[1][1])[u[1][2]])
  <1>1. s \in Sites(f)
    BY DEF Eligible
  <1>2. PICK b \in Blocks(f) : \E i \in DOMAIN Insts(f, b) : s = <<b, i>>
    BY <1>1 DEF Sites
  <1>3. PICK i \in DOMAIN Insts(f, b) : s = <<b, i>>
    BY <1>2
  <1> DEFINE e == Insts(f, b)[i]
  <1>4. Args(f, s) = e.args /\ ResultAt(f, s) = e.result
    BY <1>3, SiteFacts
  <1>5. e.op = "gep" /\ Len(e.args) = 2 /\ OnlyAccessed(f, e.result)
    BY <1>3 DEF Eligible
  <1>6. 1 \in DOMAIN e.args
    <2>1. e \in InstShape
      BY ShapeFacts
    <2>2. e.args \in Seq(Nat)
      BY <2>1 DEF InstShape
    <2> QED BY <1>5, <2>2
  <1>7. \A u \in UsesOf(f, e.result) :
           u[1] \in Sites(f) /\ u[2] = 1 /\ IsAccess(Insts(f, u[1][1])[u[1][2]])
    BY <1>5 DEF OnlyAccessed, AddressUses
  <1> HIDE DEF e
  <1>8. e.result # NoValue
    <2>1. PICK u \in UsesOf(f, e.result) : TRUE
      BY <1>5 DEF OnlyAccessed, AddressUses
    <2>2. PICK t \in Places(f) : u \in {<<t, k>> : k \in {j \in DOMAIN Args(f, t) : Args(f, t)[j] = e.result}}
      BY <2>1 DEF UsesOf
    <2>3. PICK k \in DOMAIN Args(f, t) : u = <<t, k>> /\ Args(f, t)[k] = e.result
      BY <2>2
    <2>4. t \in Sites(f)
      BY <1>7, <2>3
    <2>5. PICK c \in Blocks(f) : \E j \in DOMAIN Insts(f, c) : t = <<c, j>>
      BY <2>4 DEF Sites
    <2>6. PICK j \in DOMAIN Insts(f, c) : t = <<c, j>>
      BY <2>5
    <2>7. Args(f, t) = Insts(f, c)[j].args
      BY <2>6, SiteFacts
    <2>8. e.result \in Uses(Insts(f, c)[j])
      BY <2>3, <2>7 DEF Uses, Elements
    <2>9. e.result \in Values(f)
      BY <2>8 DEF Verified, ValuesChecked
    <2> QED BY <2>9, ShapeFacts DEF NoValue
  <1> QED BY <1>3, <1>4, <1>5, <1>6, <1>7, <1>8 DEF e

(* What computes an address is where its result says.                       *)
LEMMA EligibleUnique ==
    ASSUME NEW f, WellFormed(f), Verified(f), NEW s \in Eligible(f), NEW t \in Eligible(f),
           ResultAt(f, s) = ResultAt(f, t)
    PROVE  s = t
  <1>1. s \in Sites(f) /\ t \in Sites(f)
    BY DEF Eligible
  <1>2. ResultAt(f, s) # NoValue
    BY EligibleInst
  <1> QED BY <1>1, <1>2 DEF Verified, SingleAssignment

(* What a folded address is relative to: the start of its own gep, or an    *)
(* earlier address of its block that is computed.                           *)
LEMMA FoldedGep ==
    ASSUME NEW f, WellFormed(f), Verified(f), NEW p \in DOMAIN Folds(f)
    PROVE  \E b \in Blocks(f) : \E i \in DOMAIN Insts(f, b) :
              /\ <<b, i>> \in Eligible(f) /\ p = Insts(f, b)[i].result
              /\ \/ Folds(f)[p] = Insts(f, b)[i].args[1]
                 \/ \E j \in 1..(i - 1) :
                       /\ <<b, j>> \in Eligible(f)
                       /\ Folds(f)[p] = Insts(f, b)[j].result
                       /\ Folds(f)[p] \notin DOMAIN Folds(f)
  <1> DEFINE near(s) == Near(f, s)
             first(s) == {ResultAt(f, t) : t \in {x \in near(s) : \A y \in near(s) : x[2] <= y[2]}}
             relative(s) == IF IsConst(f, Args(f, s)[2]) THEN {Args(f, s)[1]} ELSE first(s)
             folds == {s \in Eligible(f) : relative(s) # {}}
             site(u) == CHOOSE s \in folds : ResultAt(f, s) = u
  <1>1. Folds(f) = [u \in {ResultAt(f, s) : s \in folds} |-> CHOOSE base \in relative(site(u)) : TRUE]
    BY DEF Folds
  <1>2. \A s \in folds : s \in Eligible(f) /\ relative(s) # {}
    OBVIOUS
  <1>3. PICK s \in folds : ResultAt(f, s) = p /\ Folds(f)[p] \in relative(s)
    <2> HIDE DEF relative, folds
    <2>1. PICK s \in folds : ResultAt(f, s) = p
      BY <1>1
    <2>2. site(p) \in folds /\ ResultAt(f, site(p)) = p
      BY <2>1
    <2>3. Folds(f)[p] = CHOOSE base \in relative(site(p)) : TRUE
      BY <1>1
    <2> HIDE DEF site
    <2>4. Folds(f)[p] \in relative(site(p))
      BY <1>2, <2>2, <2>3
    <2> QED BY <2>2, <2>4
  <1>4. \A r \in DOMAIN Folds(f) : \E t \in folds : r = ResultAt(f, t)
    <2> HIDE DEF relative, folds
    <2> QED BY <1>1
  <1>5. PICK b \in Blocks(f) : \E i \in DOMAIN Insts(f, b) :
              LET e == Insts(f, b)[i] IN
              s = <<b, i>> /\ Args(f, s) = e.args /\ ResultAt(f, s) = e.result
    BY <1>2, <1>3, EligibleInst
  <1>6. PICK i \in DOMAIN Insts(f, b) :
              LET e == Insts(f, b)[i] IN
              s = <<b, i>> /\ Args(f, s) = e.args /\ ResultAt(f, s) = e.result
    BY <1>5
  <1>7. <<b, i>> \in Eligible(f) /\ p = Insts(f, b)[i].result
    BY <1>2, <1>3, <1>6
  <1>8. CASE IsConst(f, Args(f, s)[2])
    <2>1. Folds(f)[p] = Insts(f, b)[i].args[1]
      BY <1>3, <1>6, <1>8
    <2> QED BY <1>7, <2>1
  <1>9. CASE ~IsConst(f, Args(f, s)[2])
    <2>1. PICK t \in near(s) : (\A y \in near(s) : t[2] <= y[2]) /\ Folds(f)[p] = ResultAt(f, t)
      BY <1>3, <1>9
    <2> HIDE DEF folds, relative, first
    <2>2. \A x \in Eligible(f) : \A y : y \in Near(f, x) <=>
             /\ y \in Eligible(f) /\ y[1] = x[1] /\ y[2] < x[2] /\ ~IsConst(f, Args(f, y)[2])
             /\ Args(f, y)[1] = Args(f, x)[1] /\ Terms(f, Args(f, y)[2]) = Terms(f, Args(f, x)[2])
      BY DEF Near
    <2>3. /\ t \in Eligible(f) /\ t[1] = s[1] /\ t[2] < s[2] /\ ~IsConst(f, Args(f, t)[2])
          /\ Args(f, t)[1] = Args(f, s)[1] /\ Terms(f, Args(f, t)[2]) = Terms(f, Args(f, s)[2])
      BY <1>2, <2>1, <2>2
    <2>4. PICK c \in Blocks(f) : \E j \in DOMAIN Insts(f, c) :
              t = <<c, j>> /\ ResultAt(f, t) = Insts(f, c)[j].result
      BY <2>3, EligibleInst
    <2>5. PICK j \in DOMAIN Insts(f, c) : t = <<c, j>> /\ ResultAt(f, t) = Insts(f, c)[j].result
      BY <2>4
    <2>6. c = b /\ j < i /\ j \in 1..(i - 1)
      <3>1. c = b /\ j < i
        BY <1>6, <2>3, <2>5
      <3>2. i \in Nat /\ j \in Nat /\ 1 <= j
        BY ShapeFacts
      <3> QED BY <3>1, <3>2
    <2>7. ResultAt(f, t) \notin DOMAIN Folds(f)
      <3> SUFFICES ASSUME ResultAt(f, t) \in DOMAIN Folds(f) PROVE FALSE
        OBVIOUS
      <3>1. PICK u \in folds : ResultAt(f, u) = ResultAt(f, t)
        BY <1>4
      <3>2. t \in folds
        BY <1>2, <2>3, <3>1, EligibleUnique
      <3>3. first(t) # {}
        BY <1>2, <2>3, <3>2 DEF relative
      <3>4. PICK x \in near(t) : TRUE
        BY <3>3 DEF first
      <3>5. /\ x \in Eligible(f) /\ x[1] = t[1] /\ x[2] < t[2] /\ ~IsConst(f, Args(f, x)[2])
            /\ Args(f, x)[1] = Args(f, t)[1] /\ Terms(f, Args(f, x)[2]) = Terms(f, Args(f, t)[2])
        BY <2>2, <2>3, <3>4
      <3>6. x[2] \in Nat /\ t[2] \in Nat /\ s[2] \in Nat
        <4>1. PICK d \in Blocks(f) : \E k \in DOMAIN Insts(f, d) : x = <<d, k>>
          BY <3>5, EligibleInst
        <4> QED BY <1>6, <2>5, <4>1, ShapeFacts
      <3>7. x \in near(s)
        <4>1. x[2] < s[2]
          BY <2>3, <3>5, <3>6
        <4>2. /\ x[1] = s[1] /\ Args(f, x)[1] = Args(f, s)[1]
              /\ Terms(f, Args(f, x)[2]) = Terms(f, Args(f, s)[2])
          BY <2>3, <3>5
        <4> QED BY <1>2, <2>2, <3>5, <4>1, <4>2
      <3>8. t[2] <= x[2]
        BY <2>1, <3>7
      <3> QED BY <3>5, <3>6, <3>8
    <2> QED BY <1>7, <2>1, <2>3, <2>5, <2>6, <2>7
  <1> QED BY <1>8, <1>9

LEMMA FoldBase ==
    ASSUME NEW f, WellFormed(f), Verified(f), NEW p \in DOMAIN Folds(f)
    PROVE  /\ \A u \in UsesOf(f, p) : u[1] \in Sites(f) /\ u[2] = 1 /\ IsAccess(Insts(f, u[1][1])[u[1][2]])
           /\ Folds(f)[p] \in Values(f)
           /\ \E b \in Blocks(f) : \E i \in DOMAIN Insts(f, b) :
                 /\ Insts(f, b)[i].op = "gep" /\ Insts(f, b)[i].result = p /\ p # NoValue
                 /\ OrdinaryUse(f, Folds(f)[p], b, i)
  <1> DEFINE base == Folds(f)[p]
  <1>1. PICK b \in Blocks(f) : \E i \in DOMAIN Insts(f, b) :
              /\ <<b, i>> \in Eligible(f) /\ p = Insts(f, b)[i].result
              /\ \/ Folds(f)[p] = Insts(f, b)[i].args[1]
                 \/ \E j \in 1..(i - 1) :
                       /\ <<b, j>> \in Eligible(f)
                       /\ Folds(f)[p] = Insts(f, b)[j].result
                       /\ Folds(f)[p] \notin DOMAIN Folds(f)
    BY FoldedGep
  <1>2. PICK i \in DOMAIN Insts(f, b) :
              /\ <<b, i>> \in Eligible(f) /\ p = Insts(f, b)[i].result
              /\ \/ Folds(f)[p] = Insts(f, b)[i].args[1]
                 \/ \E j \in 1..(i - 1) :
                       /\ <<b, j>> \in Eligible(f)
                       /\ Folds(f)[p] = Insts(f, b)[j].result
                       /\ Folds(f)[p] \notin DOMAIN Folds(f)
    BY <1>1
  <1> DEFINE e == Insts(f, b)[i]
  <1>3. /\ e.op = "gep" /\ 1 \in DOMAIN e.args /\ p # NoValue
        /\ \A u \in UsesOf(f, p) : u[1] \in Sites(f) /\ u[2] = 1 /\ IsAccess(Insts(f, u[1][1])[u[1][2]])
    BY <1>2, EligibleInst
  <1> HIDE DEF base
  <1>4. base \in Values(f) /\ OrdinaryUse(f, base, b, i)
    <2>1. CASE base = e.args[1]
      <3>1. base \in Uses(e)
        BY <1>3, <2>1 DEF Uses, Elements
      <3>2. ~IsPhi(e)
        BY <1>3 DEF IsPhi
      <3> QED BY <3>1, <3>2 DEF Verified, ValuesChecked, UsesDominated
    <2>2. CASE \E j \in 1..(i - 1) : <<b, j>> \in Eligible(f) /\ base = Insts(f, b)[j].result
      <3>1. PICK j \in 1..(i - 1) : <<b, j>> \in Eligible(f) /\ base = Insts(f, b)[j].result
        BY <2>2
      <3>2. j \in DOMAIN Insts(f, b)
        BY ShapeFacts
      <3>3. base # NoValue
        BY <3>1, EligibleInst
      <3>4. base \in Values(f) /\ DefinedBy(f, base) /\ OwnerBlock(f, base) = b
        BY <3>1, <3>2, <3>3, DefinitionFacts
      <3> QED BY <3>1, <3>2, <3>4 DEF OrdinaryUse, DefinedAt
    <2>3. base = e.args[1] \/ \E j \in 1..(i - 1) : <<b, j>> \in Eligible(f) /\ base = Insts(f, b)[j].result
      BY <1>2 DEF base
    <2> QED BY <2>1, <2>2, <2>3
  <1> QED BY <1>2, <1>3, <1>4 DEF base

(* The base of a folded address is computed.                                *)
LEMMA BaseComputed ==
    ASSUME NEW f, WellFormed(f), Verified(f), NEW p \in DOMAIN Folds(f)
    PROVE  Folds(f)[p] \notin DOMAIN Folds(f)
  <1> DEFINE base == Folds(f)[p]
  <1>1. PICK b \in Blocks(f) : \E i \in DOMAIN Insts(f, b) :
              /\ <<b, i>> \in Eligible(f) /\ p = Insts(f, b)[i].result
              /\ \/ Folds(f)[p] = Insts(f, b)[i].args[1]
                 \/ \E j \in 1..(i - 1) :
                       /\ <<b, j>> \in Eligible(f)
                       /\ Folds(f)[p] = Insts(f, b)[j].result
                       /\ Folds(f)[p] \notin DOMAIN Folds(f)
    BY FoldedGep
  <1>2. PICK i \in DOMAIN Insts(f, b) :
              /\ <<b, i>> \in Eligible(f) /\ p = Insts(f, b)[i].result
              /\ \/ Folds(f)[p] = Insts(f, b)[i].args[1]
                 \/ \E j \in 1..(i - 1) :
                       /\ <<b, j>> \in Eligible(f)
                       /\ Folds(f)[p] = Insts(f, b)[j].result
                       /\ Folds(f)[p] \notin DOMAIN Folds(f)
    BY <1>1
  <1> SUFFICES ASSUME base \in DOMAIN Folds(f) PROVE FALSE
    OBVIOUS
  <1>3. Insts(f, b)[i].op = "gep" /\ 1 \in DOMAIN Insts(f, b)[i].args
    BY <1>2, EligibleInst
  <1>4. <<<<b, i>>, 1>> \in UsesOf(f, base)
    BY <1>2, <1>3, SiteFacts
  <1>5. IsAccess(Insts(f, b)[i])
    <2> HIDE DEF base
    <2>1. \A u \in UsesOf(f, base) : IsAccess(Insts(f, u[1][1])[u[1][2]])
      BY FoldBase
    <2> QED BY <1>4, <2>1
  <1> QED BY <1>3, <1>5 DEF IsAccess

(* The function without the folded addresses.                               *)
LEMMA WithoutFoldedFacts ==
    ASSUME NEW f, WellFormed(f), NEW folds
    PROVE  LET w == WithoutFolded(f, folds) IN
           /\ DOMAIN w = DOMAIN f /\ w.kind = f.kind /\ w.params = f.params /\ w.depth = f.depth
           /\ Blocks(w) = Blocks(f)
           /\ \A b \in Blocks(f) :
                 /\ Term(w, b) = Term(f, b)
                 /\ Insts(w, b) = [i \in DOMAIN Insts(f, b) |->
                                      IF Insts(f, b)[i].result \in DOMAIN folds THEN Nop
                                      ELSE Addressed(folds, Insts(f, b)[i])]
  <1> DEFINE one(e) == IF e.result \in DOMAIN folds THEN Nop ELSE Addressed(folds, e)
             new(b) == [insts |-> [i \in DOMAIN Insts(f, b) |-> one(Insts(f, b)[i])], term |-> Term(f, b)]
             w == WithoutFolded(f, folds)
  <1>1. {"kind", "params", "blocks", "depth"} \subseteq DOMAIN f
    BY DEF WellFormed
  <1>2. w = [f EXCEPT !.blocks = [b \in Blocks(f) |-> new(b)]]
    BY DEF WithoutFolded, EachInst
  <1> HIDE DEF w, new
  <1>3. /\ DOMAIN w = DOMAIN f /\ w.kind = f.kind /\ w.params = f.params /\ w.depth = f.depth
        /\ w.blocks = [b \in Blocks(f) |-> new(b)]
    BY <1>1, <1>2
  <1>4. Blocks(w) = Blocks(f) /\ \A b \in Blocks(f) : w.blocks[b] = new(b)
    BY <1>3 DEF Blocks
  <1>5. ASSUME NEW b \in Blocks(f)
        PROVE  Term(w, b) = Term(f, b) /\ Insts(w, b) = [i \in DOMAIN Insts(f, b) |-> one(Insts(f, b)[i])]
    <2>1. Term(w, b) = new(b).term /\ Insts(w, b) = new(b).insts
      BY <1>4 DEF Insts, Term
    <2> HIDE DEF one
    <2> QED BY <2>1 DEF new
  <1> QED BY <1>3, <1>4, <1>5 DEF w

(* The record of the function the allocators see.                           *)
LEMMA ViewRecord ==
    ASSUME NEW f, WellFormed(f)
    PROVE  LET g == AllocationView(f) IN
           /\ DOMAIN g = DOMAIN f /\ g.depth = f.depth
           /\ g.blocks = [b \in 1..Len(f.blocks) |-> [insts |-> Insts(g, b), term |-> Term(g, b)]]
           /\ \A b \in Blocks(f) : Insts(g, b) = [i \in DOMAIN Insts(f, b) |-> Insts(g, b)[i]]
  <1> DEFINE folds == Folds(f)
             w == WithoutFolded(f, folds)
             dd == DeadAddressValues(w)
             two(e) == IF e.result \in dd THEN Nop ELSE e
             newer(b) == [insts |-> [i \in DOMAIN Insts(w, b) |-> two(Insts(w, b)[i])], term |-> Term(w, b)]
             g == AllocationView(f)
  <1>1. /\ {"kind", "params", "blocks", "depth"} \subseteq DOMAIN f
        /\ f.blocks \in Seq(BlockShape)
    BY DEF WellFormed
  <1>2. Blocks(f) = 1..Len(f.blocks)
    BY <1>1 DEF Blocks
  <1>3. CASE DOMAIN folds = {}
    <2>1. g = f
      BY <1>3 DEF AllocationView
    <2>2. ASSUME NEW b \in Blocks(f)
          PROVE  /\ f.blocks[b] = [insts |-> Insts(f, b), term |-> Term(f, b)]
                 /\ Insts(f, b) = [i \in DOMAIN Insts(f, b) |-> Insts(f, b)[i]]
      <3>1. f.blocks[b] \in BlockShape
        BY <1>1, <1>2
      <3>2. f.blocks[b] = [insts |-> f.blocks[b].insts, term |-> f.blocks[b].term]
        BY <3>1 DEF BlockShape
      <3>3. Insts(f, b) \in Seq(InstShape)
        BY ShapeFacts
      <3> QED BY <3>2, <3>3 DEF Insts, Term
    <2>3. f.blocks = [b \in 1..Len(f.blocks) |-> f.blocks[b]]
      BY <1>1
    <2>4. f.blocks = [b \in 1..Len(f.blocks) |-> [insts |-> Insts(f, b), term |-> Term(f, b)]]
      BY <1>2, <2>2, <2>3
    <2> HIDE DEF g
    <2> QED BY <2>1, <2>2, <2>4 DEF g
  <1>4. CASE DOMAIN folds # {}
    <2> DEFINE news == [b \in Blocks(w) |-> newer(b)]
    <2>1. g = [w EXCEPT !.blocks = news]
      BY <1>4 DEF AllocationView, EachInst
    <2>2. /\ DOMAIN w = DOMAIN f /\ w.depth = f.depth /\ Blocks(w) = Blocks(f)
          /\ \A b \in Blocks(f) : DOMAIN Insts(w, b) = DOMAIN Insts(f, b)
      BY WithoutFoldedFacts
    <2> HIDE DEF w, g, newer
    <2>3. DOMAIN g = DOMAIN f /\ g.depth = f.depth /\ g.blocks = news
      <3> HIDE DEF news
      <3> QED BY <1>1, <2>1, <2>2
    <2>4. DOMAIN g.blocks = Blocks(f) /\ \A b \in Blocks(f) : g.blocks[b] = newer(b)
      BY <2>2, <2>3
    <2>5. ASSUME NEW b \in Blocks(f)
          PROVE  /\ g.blocks[b] = [insts |-> Insts(g, b), term |-> Term(g, b)]
                 /\ Insts(g, b) = [i \in DOMAIN Insts(f, b) |-> Insts(g, b)[i]]
      <3> DEFINE list == [i \in DOMAIN Insts(f, b) |-> two(Insts(w, b)[i])]
      <3>1. newer(b) = [insts |-> list, term |-> Term(w, b)]
        BY <2>2 DEF newer
      <3> HIDE DEF two
      <3>3. list = [i \in DOMAIN Insts(f, b) |-> list[i]]
        OBVIOUS
      <3> HIDE DEF list
      <3>2. Insts(g, b) = list /\ Term(g, b) = Term(w, b)
        BY <2>4, <3>1 DEF Insts, Term
      <3> QED BY <2>4, <3>1, <3>2, <3>3
    <2>6. g.blocks = [b \in 1..Len(f.blocks) |-> g.blocks[b]]
      BY <1>2, <2>2, <2>3
    <2>7. g.blocks = [b \in 1..Len(f.blocks) |-> [insts |-> Insts(g, b), term |-> Term(g, b)]]
      BY <1>2, <2>5, <2>6
    <2> QED BY <2>3, <2>5, <2>7 DEF g
  <1> QED BY <1>3, <1>4

LEMMA AddressedShape ==
    ASSUME NEW folds, \A p \in DOMAIN folds : folds[p] \in Nat, NEW e \in InstShape
    PROVE  Addressed(folds, e) \in InstShape
  <1>1. e \in [op : Ops, result : Nat, args : Seq(Nat), preds : Seq(Nat)]
    BY DEF InstShape
  <1>2. CASE ~IsAccess(e)
    BY <1>2 DEF Addressed
  <1>3. CASE IsAccess(e)
    <2> DEFINE base == Base(folds, e.args[1])
               args == [e.args EXCEPT ![1] = base]
    <2>1. Addressed(folds, e) = [e EXCEPT !.args = args]
      BY <1>3 DEF Addressed
    <2>2. args \in Seq(Nat)
      <3>1. CASE 1 \in DOMAIN e.args
        <4>1. base \in Nat
          BY <1>1, <3>1 DEF Base
        <4> DEFINE xs == e.args
        <4>2. xs \in Seq(Nat)
          BY <1>1
        <4> HIDE DEF base, xs
        <4>3. [xs EXCEPT ![1] = base] \in Seq(Nat)
          <5> DEFINE ys == [xs EXCEPT ![1] = base]
                     n == Len(xs)
          <5>1. xs \in [1..n -> Nat] /\ n \in Nat
            BY <4>2
          <5>2. ys \in [1..n -> Nat]
            <6> HIDE DEF n
            <6> QED BY <4>1, <5>1
          <5> HIDE DEF ys, n
          <5>3. ys \in Seq(Nat)
            BY <5>1, <5>2
          <5> QED BY <5>3 DEF ys
        <4> QED BY <4>3 DEF xs
      <3>2. CASE 1 \notin DOMAIN e.args
        <4>1. args = e.args
          BY <1>1, <3>2
        <4> QED BY <1>1, <4>1
      <3> QED BY <3>1, <3>2
    <2> HIDE DEF args
    <2> QED BY <1>1, <2>1, <2>2 DEF InstShape
  <1> QED BY <1>2, <1>3

LEMMA ViewWellFormed ==
    ASSUME NEW f, WellFormed(f), Verified(f)
    PROVE  WellFormed(AllocationView(f))
  <1> DEFINE g == AllocationView(f)
             n == Len(f.blocks)
  <1>1. /\ {"kind", "params", "blocks", "depth"} \subseteq DOMAIN f
        /\ f.kind \in Seq(Kinds) /\ f.blocks \in Seq(BlockShape) /\ n > 0
        /\ f.params \in Seq(Values(f))
        /\ \A b \in Blocks(f) : Successors(f, b) \subseteq Blocks(f) /\ f.depth[b] \in Nat
    BY DEF WellFormed
  <1>2. n \in Nat /\ Blocks(f) = 1..n
    BY <1>1 DEF Blocks
  <1>3. /\ g.kind = f.kind /\ g.params = f.params /\ Blocks(g) = Blocks(f)
        /\ DOMAIN g = DOMAIN f /\ g.depth = f.depth
        /\ g.blocks = [b \in 1..n |-> [insts |-> Insts(g, b), term |-> Term(g, b)]]
    BY ViewFacts, ViewRecord
  <1>4. \A p \in DOMAIN Folds(f) : Folds(f)[p] \in Nat
    BY FoldBase, ShapeFacts
  <1>5. ASSUME NEW b \in Blocks(f)
        PROVE  Term(g, b) = Term(f, b) /\ [insts |-> Insts(g, b), term |-> Term(g, b)] \in BlockShape
    <2>1. /\ Term(g, b) = Term(f, b) /\ DOMAIN Insts(g, b) = DOMAIN Insts(f, b)
          /\ \A i \in DOMAIN Insts(f, b) :
                Insts(g, b)[i] = IF Insts(f, b)[i].result \in DOMAIN Folds(f) \cup Elided(f)
                                 THEN Nop ELSE Addressed(Folds(f), Insts(f, b)[i])
      BY ViewFacts
    <2>2. Insts(g, b) = [i \in DOMAIN Insts(f, b) |-> Insts(g, b)[i]]
      BY ViewRecord
    <2>3. Nop \in InstShape
      BY DEF Nop, InstShape, Ops, NoValue
    <2>4. \A i \in DOMAIN Insts(f, b) : Insts(g, b)[i] \in InstShape
      <3>1. \A i \in DOMAIN Insts(f, b) : Addressed(Folds(f), Insts(f, b)[i]) \in InstShape
        BY <1>4, ShapeFacts, AddressedShape
      <3> HIDE DEF g
      <3> QED BY <2>1, <2>3, <3>1
    <2>5. DOMAIN Insts(f, b) = 1..Len(Insts(f, b)) /\ Len(Insts(f, b)) \in Nat
      BY ShapeFacts
    <2> HIDE DEF g
    <2>6. Insts(g, b) \in Seq(InstShape)
      BY <2>2, <2>4, <2>5
    <2>7. Term(f, b) \in [args : Seq(Nat), succ : Seq(Nat)]
      <3>1. f.blocks[b] \in BlockShape
        BY <1>1, <1>2
      <3> QED BY <3>1 DEF BlockShape, Term
    <2> QED BY <2>1, <2>6, <2>7 DEF BlockShape
  <1> HIDE DEF g, n
  <1>6. g.blocks \in Seq(BlockShape) /\ Len(g.blocks) = n
    BY <1>2, <1>3, <1>5
  <1>7. Values(g) = Values(f)
    BY <1>3 DEF Values
  <1>8. \A b \in Blocks(g) : Successors(g, b) \subseteq Blocks(g) /\ g.depth[b] \in Nat
    BY <1>1, <1>3, <1>5 DEF Successors
  <1>9. WellFormed(g)
    BY <1>1, <1>3, <1>6, <1>7, <1>8 DEF WellFormed, n
  <1> QED BY <1>9 DEF g

(* The dead values are settled when the rounds end: dead is what nothing or *)
(* only dead values read.                                                   *)
LEMMA DeadSettled ==
    ASSUME NEW h, h.kind \in Seq(Kinds),
           \A t \in Sites(h) : ResultAt(h, t) \in Values(h) \cup {NoValue}
    PROVE  \A v : v \in DeadAddressValues(h) <=>
              /\ v # NoValue
              /\ \E t \in Sites(h) :
                    /\ v = ResultAt(h, t) /\ IsRemovable(Insts(h, t[1])[t[2]])
                    /\ \A u \in UsesOf(h, v) : u[1] \in Sites(h) /\ ResultAt(h, u[1]) \in DeadAddressValues(h)
  <1> DEFINE N == Len(h.kind)
             B == Values(h)
             Unread(t, X) == /\ IsRemovable(Insts(h, t[1])[t[2]])
                             /\ \A u \in UsesOf(h, ResultAt(h, t)) :
                                   u[1] \in Sites(h) /\ ResultAt(h, u[1]) \in X
             One(X) == {ResultAt(h, s) : s \in {t \in Sites(h) : Unread(t, X)}}
             Round(X) == (UNION {One(before) : before \in {X}}) \ {NoValue}
             Step(d) == [n \in 0..N |-> IF n = 0 THEN {} ELSE Round(d[n - 1])]
             dead == CHOOSE d : d = Step(d)
             T == SUBSET B
             F == [X \in T |-> Round(X)]
  <1>1. N \in Nat /\ IsFiniteSet(B) /\ Cardinality(B) <= N
    <2>1. N \in Nat /\ B = 1..N
      BY DEF Values
    <2> HIDE DEF N, B
    <2>2. Cardinality(1..N) = IF 1 > N THEN 0 ELSE N - 1 + 1
      BY <2>1, FS_Interval
    <2>3. IsFiniteSet(1..N) /\ Cardinality(1..N) <= N
      BY <2>1, <2>2, FS_Interval
    <2> QED BY <2>1, <2>3
  <1>2. \A X : Round(X) = One(X) \ {NoValue}
    <2> HIDE DEF One
    <2> QED OBVIOUS
  <1>3. \A X \in T : Round(X) \in T
    <2>1. \A X : One(X) \subseteq B \cup {NoValue}
      <3> HIDE DEF Unread, B
      <3> QED BY DEF B
    <2> HIDE DEF One, Round, B
    <2> QED BY <1>2, <2>1
  <1>4. \A X, Y \in T : X \subseteq Y => Round(X) \subseteq Round(Y)
    <2>1. ASSUME NEW X, NEW Y, X \subseteq Y
          PROVE  One(X) \subseteq One(Y)
      <3>1. \A t \in Sites(h) : Unread(t, X) => Unread(t, Y)
        BY <2>1
      <3> HIDE DEF Unread
      <3> QED BY <3>1
    <2> HIDE DEF One, Round, B
    <2> QED BY <1>2, <2>1
  <1>5. F \in [T -> T] /\ \A X \in T : F[X] = Round(X)
    <2> HIDE DEF Round, T
    <2> QED BY <1>3
  <1>6. PICK g : IterationOf(g, T, {}, F, N)
    <2>1. {} \in T
      OBVIOUS
    <2> HIDE DEF F, T, N
    <2> QED BY <1>1, <1>5, <2>1, IterationExists
  <1>7. g = Step(g)
    <2>1. g \in [0..N -> T] /\ g[0] = {} /\ \A i \in 1..N : g[i] = F[g[i - 1]]
      BY <1>6 DEF IterationOf
    <2>2. \A i \in 0..N : i = 0 \/ (i \in 1..N /\ i - 1 \in 0..N /\ i # 0)
      BY <1>1
    <2> HIDE DEF F, T, N, Round
    <2>3. \A i \in 0..N : g[i] = IF i = 0 THEN {} ELSE Round(g[i - 1])
      BY <1>5, <2>1, <2>2
    <2> QED BY <2>1, <2>3
  <1>8. dead = Step(dead)
    <2> HIDE DEF Step
    <2> QED BY <1>7
  <1>9. DeadAddressValues(h) = dead[N]
    BY DEF DeadAddressValues
  <1> HIDE DEF dead
  <1>10. dead[0] = {} /\ \A i \in 1..N : dead[i] = Round(dead[i - 1])
    <2>1. \A i \in 0..N : dead[i] = IF i = 0 THEN {} ELSE Round(dead[i - 1])
      <3> HIDE DEF Round, N
      <3> QED BY <1>8
    <2>2. 0 \in 0..N /\ \A i \in 1..N : i \in 0..N /\ i # 0
      BY <1>1
    <2> HIDE DEF Round, N
    <2> QED BY <2>1, <2>2
  <1>11. IterationOf(dead, T, {}, F, N)
    <2>1. \A i \in 0..N : dead[i] \in T
      <3>1. dead[0] \in T
        BY <1>10
      <3> HIDE DEF Round, T, N
      <3>2. \A i \in 1..N : dead[i - 1] \in T => dead[i] \in T
        BY <1>3, <1>10
      <3> QED BY <1>1, <3>1, <3>2, IterationKeeps
    <2>2. dead = [i \in 0..N |-> dead[i]]
      <3> HIDE DEF Round, N
      <3> QED BY <1>8
    <2>3. \A i \in 1..N : i - 1 \in 0..N
      BY <1>1
    <2> HIDE DEF Round, T, N, F
    <2> QED BY <1>5, <1>10, <2>1, <2>2, <2>3 DEF IterationOf
  <1>12. Round(dead[N]) = dead[N]
    <2>1. \A X, Y \in T : X \subseteq Y => F[X] \subseteq F[Y]
      <3> HIDE DEF F, Round, T
      <3> QED BY <1>4, <1>5
    <2>2. F[dead[N]] = dead[N] /\ dead[N] \in T
      <3> HIDE DEF F, Round, N, B
      <3> QED BY <1>1, <1>5, <1>11, <2>1, GrowthSettles
    <2> HIDE DEF F, Round
    <2> QED BY <1>5, <2>2
  <1> DEFINE last == DeadAddressValues(h)
  <1>13. last = One(last) \ {NoValue}
    <2> HIDE DEF Round, One
    <2> QED BY <1>2, <1>9, <1>12
  <1> SUFFICES ASSUME NEW v
               PROVE  v \in last <=> /\ v # NoValue
                                     /\ \E t \in Sites(h) : v = ResultAt(h, t) /\ Unread(t, last)
    BY Zenon
  <1> HIDE DEF last, Unread
  <1> QED BY <1>13

(* What becomes of the operands of a load or store.                         *)
LEMMA AddressedArgs ==
    ASSUME NEW folds, NEW e \in InstShape, NEW k \in DOMAIN e.args
    PROVE  Addressed(folds, e).args[k] =
              IF k = 1 /\ IsAccess(e) THEN Base(folds, e.args[k]) ELSE e.args[k]
  <1>1. e \in [op : Ops, result : Nat, args : Seq(Nat), preds : Seq(Nat)]
    BY DEF InstShape
  <1>2. CASE ~IsAccess(e)
    BY <1>2 DEF Addressed
  <1>3. CASE IsAccess(e)
    <2> DEFINE base == Base(folds, e.args[1])
               args == [e.args EXCEPT ![1] = base]
    <2>1. Addressed(folds, e) = [e EXCEPT !.args = args]
      BY <1>3 DEF Addressed
    <2>2. Addressed(folds, e).args = args
      <3> HIDE DEF args
      <3> QED BY <1>1, <2>1
    <2>3. args[k] = IF k = 1 THEN base ELSE e.args[k]
      <3> HIDE DEF base
      <3> QED OBVIOUS
    <2> QED BY <1>3, <2>2, <2>3
  <1> QED BY <1>2, <1>3

(* The dead values of a function some address of which is folded.           *)
LEMMA ElidedFacts ==
    ASSUME NEW f, WellFormed(f), Verified(f), DOMAIN Folds(f) # {}
    PROVE  LET w == WithoutFolded(f, Folds(f)) IN
           \A v : v \in Elided(f) <=>
              /\ v # NoValue
              /\ \E t \in Sites(w) :
                    /\ v = ResultAt(w, t) /\ IsRemovable(Insts(w, t[1])[t[2]])
                    /\ \A u \in UsesOf(w, v) : u[1] \in Sites(w) /\ ResultAt(w, u[1]) \in Elided(f)
  <1> DEFINE folds == Folds(f)
             w == WithoutFolded(f, folds)
  <1>1. Elided(f) = DeadAddressValues(w)
    BY DEF Elided
  <1>2. /\ w.kind = f.kind /\ Blocks(w) = Blocks(f)
        /\ \A b \in Blocks(f) : Insts(w, b) = [i \in DOMAIN Insts(f, b) |->
              IF Insts(f, b)[i].result \in DOMAIN folds THEN Nop ELSE Addressed(folds, Insts(f, b)[i])]
    BY WithoutFoldedFacts
  <1> HIDE DEF folds, w
  <1>3. ASSUME NEW t \in Sites(w)
        PROVE  ResultAt(w, t) \in Values(w) \cup {NoValue}
    <2>1. PICK b \in Blocks(f) : \E i \in DOMAIN Insts(f, b) : t = <<b, i>>
      BY <1>2 DEF Sites
    <2>2. PICK i \in DOMAIN Insts(f, b) : t = <<b, i>>
      BY <2>1
    <2> DEFINE e == Insts(f, b)[i]
    <2>3. e \in InstShape
      BY ShapeFacts
    <2>4. e.result \in Values(f) \cup {NoValue}
      BY DEF Verified, ValuesChecked
    <2>5. Addressed(folds, e).result = e.result /\ Nop.result = NoValue
      BY <2>3, AddressedFacts DEF Nop
    <2>6. Insts(w, b)[i] = IF e.result \in DOMAIN folds THEN Nop ELSE Addressed(folds, e)
      BY <1>2
    <2> HIDE DEF e
    <2> QED BY <1>2, <2>2, <2>4, <2>5, <2>6 DEF ResultAt, Values
  <1>4. w.kind \in Seq(Kinds)
    BY <1>2 DEF WellFormed
  <1>5. \A v : v \in DeadAddressValues(w) <=>
              /\ v # NoValue
              /\ \E t \in Sites(w) :
                    /\ v = ResultAt(w, t) /\ IsRemovable(Insts(w, t[1])[t[2]])
                    /\ \A u \in UsesOf(w, v) : u[1] \in Sites(w) /\ ResultAt(w, u[1]) \in DeadAddressValues(w)
    BY <1>3, <1>4, DeadSettled
  <1> QED BY <1>1, <1>5 DEF w, folds

(* What the code of an instruction or terminator reads is computed.         *)
LEMMA OperandsKept ==
    ASSUME NEW f, WellFormed(f), Verified(f), NEW b \in Blocks(f), NEW i \in DOMAIN Insts(f, b),
           Insts(f, b)[i].result \notin DOMAIN Folds(f) \cup Elided(f),
           NEW v \in Uses(Insts(AllocationView(f), b)[i])
    PROVE  v \notin DOMAIN Folds(f) \cup Elided(f)
  <1> DEFINE folds == Folds(f)
             e == Insts(f, b)[i]
             n == Addressed(folds, e)
             w == WithoutFolded(f, folds)
  <1>1. Insts(AllocationView(f), b)[i] = n
    BY ViewFacts
  <1>2. e \in InstShape
    BY ShapeFacts
  <1>3. DOMAIN n.args = DOMAIN e.args /\ n.result = e.result
    BY <1>2, AddressedFacts
  <1>4. PICK k \in DOMAIN e.args : v = n.args[k]
    BY <1>1, <1>3 DEF Uses, Elements
  <1>5. v = IF k = 1 /\ IsAccess(e) THEN Base(folds, e.args[k]) ELSE e.args[k]
    BY <1>2, <1>4, AddressedArgs
  <1> HIDE DEF n
  <1>6. v \notin DOMAIN folds
    <2>1. CASE k = 1 /\ IsAccess(e)
      BY <1>5, <2>1, BaseComputed DEF Base
    <2>2. CASE ~(k = 1 /\ IsAccess(e))
      <3>1. <<<<b, i>>, k>> \in UsesOf(f, v)
        BY <1>5, <2>2, SiteFacts
      <3> SUFFICES ASSUME v \in DOMAIN folds PROVE FALSE
        OBVIOUS
      <3>2. \A u \in UsesOf(f, v) : u[2] = 1 /\ IsAccess(Insts(f, u[1][1])[u[1][2]])
        BY FoldBase
      <3>3. k = 1 /\ IsAccess(e)
        BY <3>1, <3>2
      <3> QED BY <2>2, <3>3
    <2> QED BY <2>1, <2>2
  <1>7. v \notin Elided(f)
    <2> SUFFICES ASSUME v \in Elided(f) PROVE FALSE
      OBVIOUS
    <2>1. DOMAIN folds # {}
      BY DEF Elided
    <2>2. \A u \in UsesOf(w, v) : ResultAt(w, u[1]) \in Elided(f)
      BY <2>1, ElidedFacts
    <2>3. b \in Blocks(w) /\ i \in DOMAIN Insts(w, b) /\ Insts(w, b)[i] = n
      <3>1. Blocks(w) = Blocks(f) /\ Insts(w, b) = [j \in DOMAIN Insts(f, b) |->
              IF Insts(f, b)[j].result \in DOMAIN folds THEN Nop ELSE Addressed(folds, Insts(f, b)[j])]
        BY WithoutFoldedFacts
      <3> HIDE DEF w
      <3> QED BY <3>1 DEF n
    <2> HIDE DEF w
    <2>4. ResultAt(w, <<b, i>>) = n.result /\ <<<<b, i>>, k>> \in UsesOf(w, n.args[k])
      BY <1>3, <2>3, SiteFacts
    <2>5. e.result \in Elided(f)
      BY <1>3, <1>4, <2>2, <2>4
    <2> QED BY <2>5
  <1> QED BY <1>6, <1>7

LEMMA EndKept ==
    ASSUME NEW f, WellFormed(f), Verified(f), NEW b \in Blocks(f), NEW v \in Elements(Term(f, b).args)
    PROVE  v \notin DOMAIN Folds(f) \cup Elided(f)
  <1> DEFINE folds == Folds(f)
             w == WithoutFolded(f, folds)
             m == Len(Insts(f, b)) + 1
  <1>1. m \notin DOMAIN Insts(f, b) /\ Len(Insts(f, b)) \in Nat /\ DOMAIN Insts(f, b) = 1..Len(Insts(f, b))
    BY ShapeFacts
  <1>2. v \notin DOMAIN folds
    <2>1. \E k : <<<<b, m>>, k>> \in UsesOf(f, v)
      BY <1>1, EndFacts
    <2>2. <<b, m>> \notin Sites(f)
      BY <1>1, EndFacts
    <2>3. v \in DOMAIN folds => \A u \in UsesOf(f, v) : u[1] \in Sites(f)
      BY FoldBase
    <2> QED BY <2>1, <2>2, <2>3
  <1>3. v \notin Elided(f)
    <2> SUFFICES ASSUME v \in Elided(f) PROVE FALSE
      OBVIOUS
    <2>1. DOMAIN folds # {}
      BY DEF Elided
    <2>2. \A u \in UsesOf(w, v) : u[1] \in Sites(w)
      BY <2>1, ElidedFacts
    <2>3. /\ Blocks(w) = Blocks(f) /\ Term(w, b) = Term(f, b)
          /\ Insts(w, b) = [j \in DOMAIN Insts(f, b) |->
              IF Insts(f, b)[j].result \in DOMAIN folds THEN Nop ELSE Addressed(folds, Insts(f, b)[j])]
      BY WithoutFoldedFacts
    <2> HIDE DEF w
    <2>4. Len(Insts(w, b)) + 1 \notin DOMAIN Insts(w, b)
      BY <1>1, <2>3
    <2>5. LET end == <<b, Len(Insts(w, b)) + 1>> IN end \notin Sites(w) /\ \E k : <<end, k>> \in UsesOf(w, v)
      BY <2>3, <2>4, EndFacts
    <2> QED BY <2>2, <2>5
  <1> QED BY <1>2, <1>3

(* A base may be read wherever the address it stands for may.               *)
LEMMA BaseReadable ==
    ASSUME NEW f, WellFormed(f), Verified(f), NEW p \in DOMAIN Folds(f),
           NEW c \in Blocks(f), NEW m \in DOMAIN Insts(f, c), OrdinaryUse(f, p, c, m)
    PROVE  OrdinaryUse(f, Folds(f)[p], c, m)
  <1> DEFINE base == Folds(f)[p]
  <1>1. PICK b \in Blocks(f) : \E i \in DOMAIN Insts(f, b) :
              /\ Insts(f, b)[i].op = "gep" /\ Insts(f, b)[i].result = p /\ p # NoValue
              /\ OrdinaryUse(f, Folds(f)[p], b, i)
    BY FoldBase
  <1>2. PICK i \in DOMAIN Insts(f, b) : Insts(f, b)[i].result = p /\ p # NoValue /\ OrdinaryUse(f, base, b, i)
    BY <1>1
  <1>3. /\ IsInst(f, p) /\ OwnerBlock(f, p) = b
        /\ \A d \in Blocks(f) : \A j \in DOMAIN Insts(f, d) :
              Insts(f, d)[j].result = p => d = b /\ j = i
    BY <1>2, DefinitionFacts
  <1> HIDE DEF base
  <1> SUFFICES ASSUME IsInst(f, base) PROVE OrdinaryUse(f, base, c, m)
    BY DEF OrdinaryUse, base
  <1> DEFINE owner == OwnerBlock(f, base)
  <1>4. /\ DefinedBy(f, base)
        /\ IF owner = b THEN \E j \in 1..(i - 1) : DefinedAt(f, base, b, j) ELSE AvailableIn(f, owner, b)
    BY <1>2 DEF OrdinaryUse
  <1>5. owner \in Blocks(f)
    <2>1. f.kind[base] # "param"
      BY DEF IsInst
    <2>2. owner = CHOOSE d \in Blocks(f) : base \in Results(f, d)
      BY <2>1 DEF OwnerBlock
    <2> HIDE DEF owner
    <2> QED BY <1>4, <2>2 DEF DefinedBy
  <1>6. IF b = c THEN \E j \in 1..(m - 1) : DefinedAt(f, p, c, j) ELSE AvailableIn(f, b, c)
    BY <1>3 DEF OrdinaryUse
  <1> HIDE DEF owner
  <1>7. i \in Nat /\ m \in Nat
    BY ShapeFacts
  <1>8. IF owner = c THEN \E j \in 1..(m - 1) : DefinedAt(f, base, c, j) ELSE AvailableIn(f, owner, c)
    <2>1. CASE b = c
      <3>1. PICK j \in 1..(m - 1) : DefinedAt(f, p, c, j)
        BY <1>6, <2>1
      <3>2. j = i
        BY <1>3, <3>1 DEF DefinedAt
      <3>3. \A k \in 1..(i - 1) : k \in 1..(m - 1)
        BY <1>7, <3>1, <3>2
      <3> QED BY <1>4, <2>1, <3>3
    <2>2. CASE b # c /\ owner = b
      BY <1>6, <2>2
    <2>3. CASE b # c /\ owner # b
      <3>1. AvailableIn(f, owner, b) /\ AvailableIn(f, b, c)
        BY <1>4, <1>6, <2>3
      <3>2. AvailableIn(f, owner, c) /\ owner # c
        BY <1>5, <2>3, <3>1, AvailableOrder
      <3> QED BY <3>2
    <2> QED BY <2>1, <2>2, <2>3
  <1> QED BY <1>4, <1>8 DEF OrdinaryUse, owner

(* What is computed is computed where it was.                               *)
LEMMA ViewDefinitions ==
    ASSUME NEW f, WellFormed(f), Verified(f),
           NEW v \in Values(f), v \notin DOMAIN Folds(f) \cup Elided(f)
    PROVE  LET g == AllocationView(f) IN
           /\ DefinedBy(g, v) <=> DefinedBy(f, v)
           /\ OwnerBlock(g, v) = OwnerBlock(f, v)
           /\ \A b \in Blocks(f) : \A j : DefinedAt(g, v, b, j) <=> DefinedAt(f, v, b, j)
  <1> DEFINE g == AllocationView(f)
             gone == DOMAIN Folds(f) \cup Elided(f)
  <1>1. v # NoValue
    BY ShapeFacts DEF NoValue
  <1>2. /\ g.kind = f.kind /\ Blocks(g) = Blocks(f)
        /\ \A b \in Blocks(f) :
              /\ DOMAIN Insts(g, b) = DOMAIN Insts(f, b)
              /\ \A i \in DOMAIN Insts(f, b) :
                    Insts(g, b)[i] = IF Insts(f, b)[i].result \in gone
                                     THEN Nop ELSE Addressed(Folds(f), Insts(f, b)[i])
    BY ViewFacts
  <1> HIDE DEF g, gone
  <1>3. ASSUME NEW b \in Blocks(f), NEW i \in DOMAIN Insts(f, b)
        PROVE  Insts(g, b)[i].result = v <=> Insts(f, b)[i].result = v
    <2>1. Insts(f, b)[i] \in InstShape
      BY ShapeFacts
    <2>2. Addressed(Folds(f), Insts(f, b)[i]).result = Insts(f, b)[i].result /\ Nop.result = NoValue
      BY <2>1, AddressedFacts DEF Nop
    <2>3. v \notin gone
      BY DEF gone
    <2> QED BY <1>1, <1>2, <2>2, <2>3
  <1>4. \A b \in Blocks(f) : \A j : DefinedAt(g, v, b, j) <=> DefinedAt(f, v, b, j)
    BY <1>2, <1>3 DEF DefinedAt
  <1>5. \A b \in Blocks(f) : v \in Results(g, b) <=> v \in Results(f, b)
    BY <1>2, <1>3 DEF Results
  <1>6. DefinedBy(g, v) <=> DefinedBy(f, v)
    BY <1>2, <1>5 DEF DefinedBy
  <1>7. OwnerBlock(g, v) = OwnerBlock(f, v)
    <2> DEFINE og == CHOOSE b \in Blocks(g) : v \in Results(g, b)
               of == CHOOSE b \in Blocks(f) : v \in Results(f, b)
    <2>1. og = of
      BY <1>2, <1>5
    <2>2. /\ OwnerBlock(g, v) = IF g.kind[v] = "param" THEN Entry ELSE og
          /\ OwnerBlock(f, v) = IF f.kind[v] = "param" THEN Entry ELSE of
      BY DEF OwnerBlock
    <2> HIDE DEF og, of
    <2> QED BY <1>2, <2>1, <2>2
  <1> QED BY <1>4, <1>6, <1>7 DEF g

(* What may be read where the code is written may be read in the view.      *)
LEMMA ViewUses ==
    ASSUME NEW f, WellFormed(f), Verified(f),
           NEW v \in Values(f), v \notin DOMAIN Folds(f) \cup Elided(f), NEW b \in Blocks(f)
    PROVE  /\ \A i : OrdinaryUse(f, v, b, i) => OrdinaryUse(AllocationView(f), v, b, i)
           /\ EdgeUse(f, v, b) => EdgeUse(AllocationView(f), v, b)
  <1> DEFINE g == AllocationView(f)
  <1>1. g.kind = f.kind /\ Blocks(g) = Blocks(f) /\ \A c \in Blocks(f) : Term(g, c) = Term(f, c)
    BY ViewFacts
  <1>2. \A c \in Blocks(f) : Successors(g, c) = Successors(f, c)
    BY <1>1 DEF Successors
  <1>3. WellFormed(g)
    BY ViewWellFormed
  <1>4. \A c \in Blocks(f) : \A d \in Blocks(f) : AvailableIn(g, c, d) <=> AvailableIn(f, c, d)
    <2> HIDE DEF g
    <2> QED BY <1>1, <1>2, <1>3, SameAvailability
  <1>5. /\ DefinedBy(g, v) <=> DefinedBy(f, v)
        /\ OwnerBlock(g, v) = OwnerBlock(f, v)
        /\ \A j : DefinedAt(g, v, b, j) <=> DefinedAt(f, v, b, j)
    BY ViewDefinitions
  <1> HIDE DEF g
  <1>6. IsInst(f, v) /\ DefinedBy(f, v) => OwnerBlock(f, v) \in Blocks(f)
    BY DEF IsInst, DefinedBy, OwnerBlock
  <1>7. IsInst(g, v) <=> IsInst(f, v)
    BY <1>1 DEF IsInst
  <1>8. ASSUME NEW i, OrdinaryUse(f, v, b, i)
        PROVE  OrdinaryUse(g, v, b, i)
    BY <1>4, <1>5, <1>6, <1>7, <1>8 DEF OrdinaryUse
  <1>9. EdgeUse(f, v, b) => EdgeUse(g, v, b)
    BY <1>4, <1>5, <1>6, <1>7 DEF EdgeUse
  <1> QED BY <1>8, <1>9 DEF g

LEMMA ViewInst ==
    ASSUME NEW f, WellFormed(f), NEW b \in Blocks(f), NEW i \in DOMAIN Insts(f, b)
    PROVE  LET e == Insts(f, b)[i]
               n == Insts(AllocationView(f), b)[i]
               gone == DOMAIN Folds(f) \cup Elided(f)
           IN  /\ e.result \in gone => n = Nop
               /\ e.result \notin gone =>
                     /\ n.op = e.op /\ n.result = e.result /\ n.preds = e.preds
                     /\ DOMAIN n.args = DOMAIN e.args
                     /\ ~IsAccess(e) => n = e
                     /\ \A k \in DOMAIN e.args :
                           n.args[k] = IF k = 1 /\ IsAccess(e) THEN Base(Folds(f), e.args[k]) ELSE e.args[k]
  <1> DEFINE e == Insts(f, b)[i]
             n == Insts(AllocationView(f), b)[i]
             gone == DOMAIN Folds(f) \cup Elided(f)
             a == Addressed(Folds(f), e)
  <1>1. n = IF e.result \in gone THEN Nop ELSE a
    BY ViewFacts
  <1>2. e \in InstShape
    BY ShapeFacts
  <1>3. /\ a.op = e.op /\ a.result = e.result /\ a.preds = e.preds
        /\ DOMAIN a.args = DOMAIN e.args /\ (~IsAccess(e) => a = e)
    BY <1>2, AddressedFacts
  <1>4. \A k \in DOMAIN e.args :
           a.args[k] = IF k = 1 /\ IsAccess(e) THEN Base(Folds(f), e.args[k]) ELSE e.args[k]
    BY <1>2, AddressedArgs
  <1> HIDE DEF e, n, gone, a
  <1>5. e.result \in gone => n = Nop
    BY <1>1
  <1>6. e.result \notin gone => n = a
    BY <1>1
  <1> QED BY <1>3, <1>4, <1>5, <1>6 DEF e, n, gone

(* The values named in the view are the function's.                         *)
LEMMA ViewChecked ==
    ASSUME NEW f, WellFormed(f), Verified(f)
    PROVE  ValuesChecked(AllocationView(f)) /\ SingleAssignment(AllocationView(f))
  <1> DEFINE g == AllocationView(f)
             gone == DOMAIN Folds(f) \cup Elided(f)
  <1>1. /\ g.kind = f.kind /\ Blocks(g) = Blocks(f)
        /\ \A b \in Blocks(f) : Term(g, b) = Term(f, b) /\ DOMAIN Insts(g, b) = DOMAIN Insts(f, b)
    BY ViewFacts
  <1>2. Values(g) = Values(f)
    BY <1>1 DEF Values
  <1>3. ASSUME NEW b \in Blocks(f), NEW i \in DOMAIN Insts(f, b)
        PROVE  LET n == Insts(g, b)[i] IN
               /\ Uses(n) \subseteq Values(f)
               /\ n.result \in IF IsPhi(n) THEN Values(f) ELSE Values(f) \cup {NoValue}
               /\ n.op = "nop" => n = Nop
               /\ n.result # NoValue => n.result = Insts(f, b)[i].result
    <2> DEFINE e == Insts(f, b)[i]
               n == Insts(g, b)[i]
    <2>1. /\ Uses(e) \subseteq Values(f)
          /\ e.result \in IF IsPhi(e) THEN Values(f) ELSE Values(f) \cup {NoValue}
          /\ e.op = "nop" => e = Nop
      BY DEF Verified, ValuesChecked
    <2>2. CASE e.result \in gone
      <3>1. n = Nop
        BY <2>2, ViewInst
      <3>2. Uses(Nop) = {} /\ ~IsPhi(Nop) /\ Nop.result = NoValue
        BY DEF Nop, Uses, Elements, IsPhi
      <3> QED BY <3>1, <3>2
    <2>3. CASE e.result \notin gone
      <3>1. /\ n.op = e.op /\ n.result = e.result /\ DOMAIN n.args = DOMAIN e.args
            /\ ~IsAccess(e) => n = e
            /\ \A k \in DOMAIN e.args :
                  n.args[k] = IF k = 1 /\ IsAccess(e) THEN Base(Folds(f), e.args[k]) ELSE e.args[k]
        BY <2>3, ViewInst
      <3>2. \A p \in Values(f) : Base(Folds(f), p) \in Values(f)
        BY FoldBase DEF Base
      <3>3. \A k \in DOMAIN e.args : e.args[k] \in Values(f)
        BY <2>1 DEF Uses, Elements
      <3> HIDE DEF e, n
      <3>4. \A k \in DOMAIN n.args : n.args[k] \in Values(f)
        BY <3>1, <3>2, <3>3
      <3>5. Uses(n) \subseteq Values(f)
        BY <3>4 DEF Uses, Elements
      <3> QED BY <2>1, <3>1, <3>5 DEF IsPhi, IsAccess, e, n
    <2> QED BY <2>2, <2>3
  <1>4. ValuesChecked(g)
    <2>1. \A b \in Blocks(f) : Elements(Term(f, b).args) \subseteq Values(f)
      BY DEF Verified, ValuesChecked
    <2> HIDE DEF g
    <2> QED BY <1>1, <1>2, <1>3, <2>1 DEF ValuesChecked
  <1>5. ASSUME NEW s \in Sites(g)
        PROVE  s \in Sites(f) /\ (ResultAt(g, s) # NoValue => ResultAt(g, s) = ResultAt(f, s))
    <2> HIDE DEF g
    <2>1. PICK b \in Blocks(f) : \E i \in DOMAIN Insts(f, b) : s = <<b, i>>
      BY <1>1 DEF Sites
    <2>2. PICK i \in DOMAIN Insts(f, b) : s = <<b, i>>
      BY <2>1
    <2>3. s \in Sites(f)
      BY <2>2 DEF Sites
    <2> QED BY <1>3, <2>2, <2>3 DEF ResultAt
  <1>6. SingleAssignment(g)
    <2>1. SingleAssignment(f)
      BY DEF Verified
    <2> HIDE DEF g
    <2> QED BY <1>1, <1>5, <2>1 DEF SingleAssignment, IsInst
  <1> QED BY <1>4, <1>6

(* Every use in the view is one the verifier accepts.                       *)
LEMMA ViewDominated ==
    ASSUME NEW f, WellFormed(f), Verified(f)
    PROVE  UsesDominated(AllocationView(f))
  <1> DEFINE g == AllocationView(f)
             gone == DOMAIN Folds(f) \cup Elided(f)
  <1>1. /\ g.kind = f.kind /\ Blocks(g) = Blocks(f)
        /\ \A b \in Blocks(f) : Term(g, b) = Term(f, b) /\ DOMAIN Insts(g, b) = DOMAIN Insts(f, b)
    BY ViewFacts
  <1>2. ASSUME NEW b \in Blocks(f), NEW i \in DOMAIN Insts(f, b)
        PROVE  LET n == Insts(g, b)[i] IN
               IF IsPhi(n) THEN \A k \in DOMAIN n.args : EdgeUse(g, n.args[k], n.preds[k])
               ELSE \A v \in Uses(n) : OrdinaryUse(g, v, b, i)
    <2> DEFINE e == Insts(f, b)[i]
               n == Insts(g, b)[i]
    <2>1. CASE e.result \in gone
      <3>1. n = Nop
        BY <2>1, ViewInst
      <3>2. Uses(Nop) = {} /\ ~IsPhi(Nop) /\ Nop.result = NoValue
        BY DEF Nop, Uses, Elements, IsPhi
      <3> QED BY <3>1, <3>2
    <2>2. CASE e.result \notin gone
      <3>1. /\ n.op = e.op /\ n.result = e.result /\ DOMAIN n.args = DOMAIN e.args
            /\ ~IsAccess(e) => n = e
            /\ \A k \in DOMAIN e.args :
                  n.args[k] = IF k = 1 /\ IsAccess(e) THEN Base(Folds(f), e.args[k]) ELSE e.args[k]
        BY <2>2, ViewInst
      <3>2. \A v \in Uses(n) : v \in Values(f) /\ v \notin gone
        <4>1. ValuesChecked(g)
          BY ViewChecked
        <4>2. Values(g) = Values(f)
          BY <1>1 DEF Values
        <4>3. Uses(n) \subseteq Values(f)
          <5> HIDE DEF g
          <5> QED BY <1>1, <4>1, <4>2 DEF ValuesChecked
        <4> QED BY <2>2, <4>3, OperandsKept
      <3>3. CASE IsPhi(e)
        <4>1. n = e
          BY <3>1, <3>3 DEF IsPhi, IsAccess
        <4>2. \A k \in DOMAIN e.args : EdgeUse(f, e.args[k], e.preds[k])
          BY <3>3 DEF Verified, UsesDominated
        <4>3. \A k \in DOMAIN e.args : e.preds[k] \in Blocks(f)
          <5>1. /\ Elements(e.preds) = Predecessors(f, b) /\ Len(e.args) = Len(e.preds)
            BY <3>3 DEF Verified, PhisLeadBlocks
          <5>2. e.args \in Seq(Nat) /\ e.preds \in Seq(Nat)
            <6>1. e \in InstShape
              BY ShapeFacts
            <6> QED BY <6>1 DEF InstShape
          <5> HIDE DEF e
          <5>3. \A k \in DOMAIN e.args : e.preds[k] \in Elements(e.preds)
            BY <5>1, <5>2 DEF Elements
          <5> QED BY <5>1, <5>3 DEF Predecessors
        <4>4. \A k \in DOMAIN e.args : e.args[k] \in Uses(n)
          BY <4>1 DEF Uses, Elements
        <4>5. \A k \in DOMAIN e.args : EdgeUse(g, e.args[k], e.preds[k])
          BY <3>2, <4>2, <4>3, <4>4, ViewUses
        <4> HIDE DEF e, n, g
        <4> QED BY <3>3, <4>1, <4>5 DEF n
      <3>4. CASE ~IsPhi(e)
        <4>1. \A v \in Uses(e) : OrdinaryUse(f, v, b, i)
          BY <3>4 DEF Verified, UsesDominated
        <4>2. \A v \in Uses(n) : OrdinaryUse(f, v, b, i)
          <5> SUFFICES ASSUME NEW k \in DOMAIN n.args PROVE OrdinaryUse(f, n.args[k], b, i)
            BY DEF Uses, Elements
          <5>1. k \in DOMAIN e.args
            BY <3>1
          <5>2. OrdinaryUse(f, e.args[k], b, i)
            BY <4>1, <5>1 DEF Uses, Elements
          <5>3. n.args[k] = e.args[k] \/ n.args[k] = Base(Folds(f), e.args[k])
            BY <3>1, <5>1
          <5>4. e.args[k] \in DOMAIN Folds(f) => OrdinaryUse(f, Folds(f)[e.args[k]], b, i)
            BY <5>2, BaseReadable
          <5> HIDE DEF n, e
          <5> QED BY <5>2, <5>3, <5>4 DEF Base
        <4>3. \A v \in Uses(n) : OrdinaryUse(g, v, b, i)
          BY <3>2, <4>2, ViewUses
        <4>4. ~IsPhi(n)
          BY <3>1, <3>4 DEF IsPhi
        <4> HIDE DEF e, n, g
        <4> QED BY <4>3, <4>4 DEF n
      <3> QED BY <3>3, <3>4
    <2> QED BY <2>1, <2>2
  <1>3. ASSUME NEW b \in Blocks(f), NEW v \in Elements(Term(f, b).args)
        PROVE  OrdinaryUse(g, v, b, Len(Insts(g, b)) + 1)
    <2>1. OrdinaryUse(f, v, b, Len(Insts(f, b)) + 1)
      BY DEF Verified, UsesDominated
    <2>2. v \in Values(f) /\ v \notin gone
      BY EndKept DEF Verified, ValuesChecked
    <2>3. Len(Insts(g, b)) = Len(Insts(f, b))
      <3>1. WellFormed(g)
        BY ViewWellFormed
      <3>2. Insts(g, b) \in Seq(InstShape) /\ Insts(f, b) \in Seq(InstShape)
        <4> HIDE DEF g
        <4> QED BY <1>1, <3>1, ShapeFacts
      <3> HIDE DEF g
      <3> QED BY <1>1, <3>2
    <2>4. OrdinaryUse(g, v, b, Len(Insts(f, b)) + 1)
      BY <2>1, <2>2, ViewUses
    <2> QED BY <2>3, <2>4
  <1> HIDE DEF g
  <1>4. UsesDominated(g)
    BY <1>1, <1>2, <1>3 DEF UsesDominated
  <1> QED BY <1>4 DEF g

LEMMA ViewPhisLead ==
    ASSUME NEW f, WellFormed(f), Verified(f)
    PROVE  /\ PhisLeadBlocks(AllocationView(f))
           /\ \A b \in Blocks(f) : Predecessors(AllocationView(f), b) = Predecessors(f, b)
  <1> DEFINE g == AllocationView(f)
             gone == DOMAIN Folds(f) \cup Elided(f)
  <1>1. /\ Blocks(g) = Blocks(f)
        /\ \A b \in Blocks(f) : Term(g, b) = Term(f, b) /\ DOMAIN Insts(g, b) = DOMAIN Insts(f, b)
    BY ViewFacts
  <1>2. \A b \in Blocks(f) : Predecessors(g, b) = Predecessors(f, b)
    <2> HIDE DEF g
    <2> QED BY <1>1 DEF Predecessors, Successors
  <1>3. ASSUME NEW b \in Blocks(f), NEW i \in DOMAIN Insts(f, b)
        PROVE  /\ IsPhi(Insts(g, b)[i]) => Insts(g, b)[i] = Insts(f, b)[i]
               /\ Insts(f, b)[i].op \in {"phi", "nop"} => Insts(g, b)[i].op \in {"phi", "nop"}
    <2> DEFINE e == Insts(f, b)[i]
               n == Insts(g, b)[i]
    <2>1. CASE e.result \in gone
      <3>1. n = Nop /\ Nop.op = "nop"
        BY <2>1, ViewInst DEF Nop
      <3> QED BY <3>1 DEF IsPhi
    <2>2. CASE e.result \notin gone
      <3>1. n.op = e.op /\ (~IsAccess(e) => n = e)
        BY <2>2, ViewInst
      <3> HIDE DEF e, n
      <3>2. IsPhi(n) => n = e
        BY <3>1 DEF IsPhi, IsAccess
      <3> QED BY <3>1, <3>2 DEF e, n
    <2> QED BY <2>1, <2>2
  <1>4. ASSUME NEW b \in Blocks(g), NEW i \in DOMAIN Insts(g, b), IsPhi(Insts(g, b)[i])
        PROVE  /\ b # Entry
               /\ \A j \in 1..i : Insts(g, b)[j].op \in {"phi", "nop"}
               /\ Elements(Insts(g, b)[i].preds) = Predecessors(g, b)
               /\ Len(Insts(g, b)[i].preds) = Cardinality(Predecessors(g, b))
               /\ Len(Insts(g, b)[i].args) = Len(Insts(g, b)[i].preds)
    <2> HIDE DEF g
    <2>1. b \in Blocks(f) /\ i \in DOMAIN Insts(f, b)
      BY <1>1
    <2>2. Insts(g, b)[i] = Insts(f, b)[i] /\ IsPhi(Insts(f, b)[i])
      BY <1>3, <1>4, <2>1
    <2>3. /\ b # Entry
          /\ \A j \in 1..i : Insts(f, b)[j].op \in {"phi", "nop"}
          /\ Elements(Insts(f, b)[i].preds) = Predecessors(f, b)
          /\ Len(Insts(f, b)[i].preds) = Cardinality(Predecessors(f, b))
          /\ Len(Insts(f, b)[i].args) = Len(Insts(f, b)[i].preds)
      BY <2>1, <2>2 DEF Verified, PhisLeadBlocks
    <2>4. \A j \in 1..i : j \in DOMAIN Insts(f, b)
      BY <2>1, ShapeFacts
    <2>5. \A j \in 1..i : Insts(g, b)[j].op \in {"phi", "nop"}
      BY <1>3, <2>1, <2>3, <2>4
    <2> QED BY <1>2, <2>1, <2>2, <2>3, <2>5
  <1>5. PhisLeadBlocks(g)
    <2> HIDE DEF g
    <2> QED BY <1>4 DEF PhisLeadBlocks
  <1> QED BY <1>2, <1>5

(* A phi of the view is read in the view: of the phis that lost their       *)
(* readers none is left.                                                    *)
LEMMA ViewPhisRead ==
    ASSUME NEW f, WellFormed(f), Verified(f), NoDeadPhis(f)
    PROVE  NoDeadPhis(AllocationView(f))
  <1> DEFINE g == AllocationView(f)
             folds == Folds(f)
             w == WithoutFolded(f, folds)
  <1>1. CASE DOMAIN folds = {}
    BY <1>1 DEF AllocationView
  <1>2. CASE DOMAIN folds # {}
    <2>1. /\ Blocks(g) = Blocks(f)
          /\ \A b \in Blocks(f) : Term(g, b) = Term(f, b) /\ DOMAIN Insts(g, b) = DOMAIN Insts(f, b)
      BY ViewFacts
    <2>2. ASSUME NEW b \in Blocks(f), NEW i \in DOMAIN Insts(f, b)
          PROVE  /\ b \in Blocks(w) /\ Term(w, b) = Term(f, b)
                 /\ i \in DOMAIN Insts(w, b) /\ DOMAIN Insts(w, b) = DOMAIN Insts(f, b)
                 /\ Insts(w, b)[i] = IF Insts(f, b)[i].result \in DOMAIN folds THEN Nop
                                     ELSE Addressed(folds, Insts(f, b)[i])
                 /\ Insts(f, b)[i].result \notin DOMAIN folds =>
                       Insts(w, b)[i].result = Insts(f, b)[i].result
                 /\ Insts(f, b)[i].result \notin DOMAIN folds \cup Elided(f) =>
                       Insts(g, b)[i] = Insts(w, b)[i]
      <3>1. /\ Blocks(w) = Blocks(f) /\ Term(w, b) = Term(f, b)
            /\ Insts(w, b) = [j \in DOMAIN Insts(f, b) |->
                  IF Insts(f, b)[j].result \in DOMAIN folds THEN Nop ELSE Addressed(folds, Insts(f, b)[j])]
        BY WithoutFoldedFacts
      <3>2. Insts(g, b)[i] = IF Insts(f, b)[i].result \in DOMAIN folds \cup Elided(f)
                             THEN Nop ELSE Addressed(folds, Insts(f, b)[i])
        BY ViewFacts
      <3>3. Addressed(folds, Insts(f, b)[i]).result = Insts(f, b)[i].result
        BY ShapeFacts, AddressedFacts
      <3> HIDE DEF w, g
      <3> QED BY <3>1, <3>2, <3>3
    <2>3. \A v : v \in Elided(f) <=>
              /\ v # NoValue
              /\ \E t \in Sites(w) :
                    /\ v = ResultAt(w, t) /\ IsRemovable(Insts(w, t[1])[t[2]])
                    /\ \A u \in UsesOf(w, v) : u[1] \in Sites(w) /\ ResultAt(w, u[1]) \in Elided(f)
      BY <1>2, ElidedFacts
    <2> DEFINE Read(p) == \E c \in Blocks(g) :
                             \/ \E j \in DOMAIN Insts(g, c) : p \in Uses(Insts(g, c)[j])
                             \/ p \in Elements(Term(g, c).args)
    <2>4. ASSUME NEW b \in Blocks(g), NEW p \in PhiResults(g, b), ~Read(p)
          PROVE  FALSE
      <3>1. PICK i \in DOMAIN Insts(g, b) : IsPhi(Insts(g, b)[i]) /\ p = Insts(g, b)[i].result
        BY DEF PhiResults, Phis
      <3>2. b \in Blocks(f) /\ i \in DOMAIN Insts(f, b)
        BY <2>1
      <3>3. Insts(f, b)[i].result \notin DOMAIN folds \cup Elided(f)
        <4>1. Insts(g, b)[i] # Nop
          BY <3>1 DEF Nop, IsPhi
        <4> QED BY <3>2, <4>1, ViewInst
      <3>4. p = Insts(f, b)[i].result
        BY <3>1, <3>2, <3>3, ViewInst
      <3>5. p # NoValue
        <4>1. ValuesChecked(g) /\ Values(g) = Values(f)
          BY ViewChecked, ViewFacts DEF Values
        <4>2. p \in Values(f)
          <5> HIDE DEF g
          <5> QED BY <3>1, <4>1 DEF ValuesChecked
        <4> QED BY <4>2, ShapeFacts DEF NoValue
      <3>6. /\ <<b, i>> \in Sites(w) /\ p = ResultAt(w, <<b, i>>)
            /\ IsRemovable(Insts(w, b)[i])
        <4>1. /\ b \in Blocks(w) /\ i \in DOMAIN Insts(w, b)
              /\ Insts(w, b)[i].result = p /\ Insts(w, b)[i] = Insts(g, b)[i]
          BY <2>2, <3>2, <3>3, <3>4
        <4> HIDE DEF w, g
        <4>2. IsRemovable(Insts(w, b)[i])
          BY <3>1, <4>1 DEF IsRemovable, IsPhi
        <4> QED BY <4>1, <4>2, SiteFacts
      <3>7. ASSUME NEW u \in UsesOf(w, p)
            PROVE  u[1] \in Sites(w) /\ ResultAt(w, u[1]) \in Elided(f)
        <4>0. Blocks(w) = Blocks(f) /\ \A c \in Blocks(f) : Term(w, c) = Term(f, c) /\ DOMAIN Insts(w, c) = DOMAIN Insts(f, c)
          <5>1. Blocks(w) = Blocks(f) /\ \A c \in Blocks(f) : Term(w, c) = Term(f, c) /\
                  Insts(w, c) = [j \in DOMAIN Insts(f, c) |->
                    IF Insts(f, c)[j].result \in DOMAIN folds THEN Nop ELSE Addressed(folds, Insts(f, c)[j])]
            BY WithoutFoldedFacts
          <5> HIDE DEF w
          <5> QED BY <5>1
        <4> HIDE DEF w, g
        <4>1. PICK s \in Places(w) : u \in {<<s, k>> : k \in {j \in DOMAIN Args(w, s) : Args(w, s)[j] = p}}
          BY DEF UsesOf
        <4>2. PICK k \in DOMAIN Args(w, s) : u = <<s, k>> /\ Args(w, s)[k] = p
          BY <4>1
        <4>3. \E c \in Blocks(w) : s[1] = c
          BY DEF Places, Sites
        <4>4. PICK c \in Blocks(f) : s[1] = c
          BY <4>0, <4>3
        <4>5. CASE s[2] \notin DOMAIN Insts(w, c)
          <5>1. p \in Elements(Term(g, c).args)
            BY <2>1, <4>0, <4>2, <4>4, <4>5 DEF Args, Elements
          <5> QED BY <2>1, <2>4, <5>1
        <4>6. CASE s[2] \in DOMAIN Insts(w, c)
          <5>1. PICK j \in DOMAIN Insts(f, c) : s[2] = j
            BY <4>0, <4>6
          <5>2. p \in Uses(Insts(w, c)[j])
            BY <4>2, <4>4, <4>6, <5>1 DEF Args, Uses, Elements
          <5>3. Insts(f, c)[j].result \notin DOMAIN folds
            <6>1. Uses(Nop) = {}
              BY DEF Nop, Uses, Elements
            <6> QED BY <2>2, <5>2, <6>1
          <5>4. Insts(f, c)[j].result \in Elided(f)
            <6> SUFFICES ASSUME Insts(f, c)[j].result \notin Elided(f) PROVE FALSE
              OBVIOUS
            <6>1. Insts(g, c)[j] = Insts(w, c)[j]
              BY <2>2, <5>3
            <6> QED BY <2>1, <2>4, <5>2, <6>1
          <5>5. Insts(w, c)[j].result = Insts(f, c)[j].result
            BY <2>2, <5>3
          <5>6. s \in Sites(w)
            <6>1. s = <<c, j>>
              BY <4>4, <5>1 DEF Places, Sites
            <6> QED BY <4>0, <6>1 DEF Sites
          <5> QED BY <4>2, <4>4, <5>1, <5>4, <5>5, <5>6 DEF ResultAt
        <4> QED BY <4>5, <4>6
      <3>8. p \in Elided(f)
        <4> HIDE DEF w
        <4>1. <<b, i>>[1] = b /\ <<b, i>>[2] = i
          OBVIOUS
        <4> QED BY <2>3, <3>5, <3>6, <3>7, <4>1
      <3> QED BY <3>3, <3>4, <3>8
    <2>5. \A b \in Blocks(g) : \A p \in PhiResults(g, b) : Read(p)
      BY <2>4
    <2> HIDE DEF g
    <2> QED BY <2>5 DEF NoDeadPhis, g
  <1> QED BY <1>1, <1>2

(* What the allocators see of a function the pipelines leave is a function  *)
(* the verifier accepts: neither a folded address nor an elided value is    *)
(* read, the base of an address is available where the address was, and     *)
(* every phi that is left has a reader.                                     *)
THEOREM ViewsAreVerified ==
    ASSUME NEW f, Compilable(f)
    PROVE  LET g == AllocationView(f) IN WellFormed(g) /\ Verified(g) /\ NoDeadPhis(g)
  <1> DEFINE g == AllocationView(f)
  <1>1. WellFormed(f) /\ Verified(f) /\ NoDeadPhis(f)
    BY DEF Compilable
  <1>2. WellFormed(g) /\ NoDeadPhis(g)
    BY <1>1, ViewWellFormed, ViewPhisRead
  <1>3. ValuesChecked(g) /\ SingleAssignment(g) /\ PhisLeadBlocks(g) /\ UsesDominated(g)
    BY <1>1, ViewChecked, ViewPhisLead, ViewDominated
  <1>4. Predecessors(g, Entry) = {}
    <2>1. Entry \in Blocks(f)
      BY <1>1 DEF WellFormed, Entry, Blocks
    <2>2. Predecessors(g, Entry) = Predecessors(f, Entry)
      BY <1>1, <2>1, ViewPhisLead
    <2> QED BY <1>1, <2>2 DEF Verified
  <1>5. {v \in Values(g) : g.kind[v] = "param"} = Elements(g.params)
    <2>1. g.kind = f.kind /\ g.params = f.params
      BY <1>1, ViewFacts
    <2> HIDE DEF g
    <2> QED BY <1>1, <2>1 DEF Verified, Values
  <1> HIDE DEF g
  <1>6. Verified(g)
    BY <1>3, <1>4, <1>5 DEF Verified
  <1> QED BY <1>2, <1>6 DEF g
-----------------------------------------------------------------------------
(* The function being compiled and the one the allocators see.             *)
Setup ==
    /\ emitted \in Sources /\ func = AllocationView(emitted)
    /\ folded = Folds(emitted) /\ elided = Elided(emitted)

Gone == DOMAIN folded \cup elided

LEMMA SetupFacts ==
    ASSUME Setup
    PROVE  /\ func \in Funcs /\ WellFormed(func) /\ Verified(func) /\ NoDeadPhis(func)
           /\ WellFormed(emitted) /\ Verified(emitted)
           /\ Len(func.params) \in Nat /\ Len(ArgRegs) \in Nat /\ Len(func.params) <= Len(ArgRegs)
           /\ func.kind = emitted.kind /\ Values(func) = Values(emitted)
           /\ Blocks(func) = Blocks(emitted)
  <1>1. emitted \in Sources /\ func = AllocationView(emitted)
    BY DEF Setup
  <1>2. Compilable(emitted) /\ func \in Funcs
    BY <1>1, SourceAssumption
  <1>3. WellFormed(func) /\ Verified(func)
    BY <1>2, FuncAssumption
  <1>4. /\ WellFormed(emitted) /\ Verified(emitted)
        /\ Len(emitted.params) <= Len(ArgRegs)
    BY <1>1, <1>2 DEF Compilable
  <1>a. NoDeadPhis(func)
    BY <1>1, <1>2, ViewsAreVerified
  <1>5. /\ func.kind = emitted.kind /\ func.params = emitted.params
        /\ Blocks(func) = Blocks(emitted)
    BY <1>1, <1>4, ViewFacts
  <1>6. Len(func.params) \in Nat /\ Len(ArgRegs) \in Nat
    <2>1. func.params \in Seq(Values(func))
      BY <1>3 DEF WellFormed
    <2> QED BY <2>1, ArgAssumption
  <1> QED BY <1>2, <1>3, <1>4, <1>a, <1>5, <1>6 DEF Values

LEMMA BlockSeen ==
    ASSUME Setup, NEW b \in Blocks(func)
    PROVE  /\ b \in Blocks(emitted)
           /\ Term(func, b) = Term(emitted, b) /\ Successors(func, b) = Successors(emitted, b)
           /\ DOMAIN Insts(func, b) = DOMAIN Insts(emitted, b)
           /\ Len(Insts(func, b)) = Len(Insts(emitted, b))
           /\ Len(Insts(func, b)) \in Nat /\ DOMAIN Insts(func, b) = 1..Len(Insts(func, b))
  <1>1. /\ WellFormed(func) /\ WellFormed(emitted) /\ b \in Blocks(emitted)
        /\ func = AllocationView(emitted)
    BY SetupFacts DEF Setup
  <1>2. Term(func, b) = Term(emitted, b) /\ DOMAIN Insts(func, b) = DOMAIN Insts(emitted, b)
    BY <1>1, ViewFacts
  <1>3. Successors(func, b) = Successors(emitted, b)
    BY <1>2 DEF Successors
  <1>4. Insts(emitted, b) \in Seq(InstShape) /\ Insts(func, b) \in Seq(InstShape)
    <2>1. emitted.blocks[b] \in BlockShape /\ func.blocks[b] \in BlockShape
      BY <1>1 DEF WellFormed, Blocks
    <2> QED BY <2>1 DEF BlockShape, Insts
  <1>5. Len(Insts(func, b)) = Len(Insts(emitted, b)) /\ Len(Insts(func, b)) \in Nat
        /\ DOMAIN Insts(func, b) = 1..Len(Insts(func, b))
    BY <1>2, <1>4
  <1> QED BY <1>1, <1>2, <1>3, <1>5

LEMMA InstSeen ==
    ASSUME Setup, NEW b \in Blocks(func), NEW i \in DOMAIN Insts(func, b)
    PROVE  LET e == Insts(emitted, b)[i]
               n == Insts(func, b)[i]
           IN  /\ e \in InstShape
               /\ e.result \in Gone => n = Nop
               /\ e.result \notin Gone =>
                     /\ n = Addressed(folded, e)
                     /\ n.op = e.op /\ n.result = e.result /\ n.preds = e.preds
                     /\ ~IsAccess(e) => n = e
  <1> DEFINE e == Insts(emitted, b)[i]
             n == Insts(func, b)[i]
  <1>1. /\ WellFormed(emitted) /\ b \in Blocks(emitted) /\ i \in DOMAIN Insts(emitted, b)
        /\ func = AllocationView(emitted) /\ folded = Folds(emitted) /\ elided = Elided(emitted)
    BY SetupFacts, BlockSeen DEF Setup
  <1>2. n = IF e.result \in DOMAIN Folds(emitted) \cup Elided(emitted) THEN Nop
            ELSE Addressed(Folds(emitted), e)
    BY <1>1, ViewFacts
  <1>3. n = IF e.result \in Gone THEN Nop ELSE Addressed(folded, e)
    BY <1>1, <1>2 DEF Gone
  <1>4. e \in InstShape
    <2>1. emitted.blocks[b] \in BlockShape
      BY <1>1 DEF WellFormed, Blocks
    <2>2. Insts(emitted, b) \in Seq(InstShape)
      BY <2>1 DEF BlockShape, Insts
    <2> QED BY <1>1, <2>2
  <1> HIDE DEF e, n
  <1>5. LET x == Addressed(folded, e) IN
        x.op = e.op /\ x.result = e.result /\ x.preds = e.preds /\ (~IsAccess(e) => x = e)
    BY <1>4, AddressedFacts
  <1> QED BY <1>3, <1>4, <1>5 DEF e, n

(* A folded address is the result of a gep, and so is what it is relative   *)
(* to, unless that is what a gep starts from.                               *)
LEMMA FoldFacts ==
    ASSUME NEW f, NEW v \in DOMAIN Folds(f)
    PROVE  /\ \E s \in Eligible(f) : v = ResultAt(f, s)
           /\ \E s \in Eligible(f) : Folds(f)[v] \in {Args(f, s)[1], ResultAt(f, s)}
  <1> DEFINE near(s) == Near(f, s)
             relative(s) == IF IsConst(f, Args(f, s)[2]) THEN {Args(f, s)[1]}
                            ELSE {ResultAt(f, t) : t \in {x \in near(s) : \A y \in near(s) : x[2] <= y[2]}}
             folds == {s \in Eligible(f) : relative(s) # {}}
             site(u) == CHOOSE s \in folds : ResultAt(f, s) = u
  <1>1. Folds(f) = [u \in {ResultAt(f, s) : s \in folds} |-> CHOOSE base \in relative(site(u)) : TRUE]
    BY DEF Folds
  <1>2. \A s \in Eligible(f) : \A x \in relative(s) :
            x = Args(f, s)[1] \/ \E t \in Eligible(f) : x = ResultAt(f, t)
    BY DEF Near
  <1>3. \A s \in folds : s \in Eligible(f) /\ relative(s) # {}
    OBVIOUS
  <1> HIDE DEF relative, folds
  <1>4. PICK s \in folds : ResultAt(f, s) = v
    BY <1>1
  <1>5. site(v) \in folds
    BY <1>4
  <1>6. Folds(f)[v] \in relative(site(v))
    <2>1. Folds(f)[v] = CHOOSE base \in relative(site(v)) : TRUE
      BY <1>1
    <2> HIDE DEF site
    <2> QED BY <1>3, <1>5, <2>1
  <1> HIDE DEF site
  <1> QED BY <1>2, <1>3, <1>4, <1>5, <1>6

LEMMA EligibleFacts ==
    ASSUME Setup, NEW s \in Eligible(emitted)
    PROVE  \E b \in Blocks(func) : \E i \in DOMAIN Insts(emitted, b) :
              /\ s = <<b, i>> /\ s \in Sites(emitted)
              /\ Insts(emitted, b)[i].op = "gep"
              /\ ResultAt(emitted, s) = Insts(emitted, b)[i].result
              /\ Args(emitted, s) = Insts(emitted, b)[i].args
              /\ 1 \in DOMAIN Args(emitted, s)
  <1>1. s \in Sites(emitted)
    BY DEF Eligible
  <1>2. PICK b \in Blocks(emitted) : \E i \in DOMAIN Insts(emitted, b) : s = <<b, i>>
    BY <1>1 DEF Sites
  <1>3. PICK i \in DOMAIN Insts(emitted, b) : s = <<b, i>>
    BY <1>2
  <1>4. b \in Blocks(func)
    BY SetupFacts
  <1>5. Insts(emitted, b)[i].op = "gep" /\ Len(Insts(emitted, b)[i].args) = 2
    BY <1>3 DEF Eligible
  <1>6. Insts(emitted, b)[i] \in InstShape
    BY <1>3, <1>4, BlockSeen, InstSeen
  <1>7. 1 \in DOMAIN Insts(emitted, b)[i].args
    <2>1. Insts(emitted, b)[i].args \in Seq(Nat)
      BY <1>6 DEF InstShape
    <2> QED BY <1>5, <2>1
  <1> QED BY <1>1, <1>3, <1>4, <1>5, <1>7 DEF ResultAt, Args

(* No instruction of the emitted function has the result of another.        *)
LEMMA OneDefinition ==
    ASSUME Setup, NEW b \in Blocks(func), NEW i \in DOMAIN Insts(emitted, b),
           NEW c \in Blocks(func), NEW j \in DOMAIN Insts(emitted, c),
           Insts(emitted, b)[i].result = Insts(emitted, c)[j].result,
           Insts(emitted, b)[i].result # NoValue
    PROVE  b = c /\ i = j
  <1>1. Verified(emitted) /\ b \in Blocks(emitted) /\ c \in Blocks(emitted)
    BY SetupFacts
  <1>2. /\ <<b, i>> \in Sites(emitted) /\ <<c, j>> \in Sites(emitted)
        /\ ResultAt(emitted, <<b, i>>) = Insts(emitted, b)[i].result
        /\ ResultAt(emitted, <<c, j>>) = Insts(emitted, c)[j].result
    BY <1>1 DEF Sites, ResultAt
  <1>3. <<b, i>> = <<c, j>>
    BY <1>1, <1>2 DEF Verified, SingleAssignment
  <1> QED BY <1>3

(* The phis an edge assigns are those the allocators see.                   *)
LEMMA PhisSeen ==
    ASSUME Setup, NEW b \in Blocks(func)
    PROVE  MovedPhis(b) = Phis(func, b)
  <1>1. DOMAIN Insts(func, b) = DOMAIN Insts(emitted, b) /\ b \in Blocks(emitted)
    BY BlockSeen
  <1>2. ASSUME NEW i \in DOMAIN Insts(emitted, b), IsPhi(Insts(emitted, b)[i]),
               Insts(emitted, b)[i].result \in DOMAIN folded
        PROVE  FALSE
    <2> DEFINE v == Insts(emitted, b)[i].result
    <2>1. v \in Values(emitted)
      BY <1>1, <1>2, SetupFacts DEF Verified, ValuesChecked
    <2>2. v # NoValue
      <3>1. emitted.kind \in Seq(Kinds)
        BY SetupFacts DEF WellFormed
      <3> QED BY <2>1, <3>1 DEF Values, NoValue
    <2>3. PICK s \in Eligible(emitted) : v = ResultAt(emitted, s)
      BY <1>2, FoldFacts DEF Setup
    <2>a. PICK c \in Blocks(func) : \E j \in DOMAIN Insts(emitted, c) :
             Insts(emitted, c)[j].op = "gep" /\ v = Insts(emitted, c)[j].result
      BY <2>3, EligibleFacts
    <2>4. PICK j \in DOMAIN Insts(emitted, c) :
             Insts(emitted, c)[j].op = "gep" /\ v = Insts(emitted, c)[j].result
      BY <2>a
    <2>5. b = c /\ i = j
      BY <2>2, <2>4, OneDefinition
    <2> QED BY <1>2, <2>4, <2>5 DEF IsPhi
  <1>3. ASSUME NEW i \in DOMAIN Insts(emitted, b)
        PROVE  /\ IsPhi(Insts(func, b)[i]) <=>
                     IsPhi(Insts(emitted, b)[i]) /\ Insts(emitted, b)[i].result \notin elided
               /\ IsPhi(Insts(func, b)[i]) => Insts(func, b)[i] = Insts(emitted, b)[i]
    <2>1. CASE Insts(emitted, b)[i].result \in Gone
      <3>1. Insts(func, b)[i] = Nop
        BY <1>1, <2>1, InstSeen
      <3> QED BY <1>2, <2>1, <3>1 DEF Gone, IsPhi, Nop
    <2>2. CASE Insts(emitted, b)[i].result \notin Gone
      <3>1. /\ Insts(func, b)[i].op = Insts(emitted, b)[i].op
            /\ ~IsAccess(Insts(emitted, b)[i]) => Insts(func, b)[i] = Insts(emitted, b)[i]
        BY <1>1, <2>2, InstSeen
      <3> QED BY <2>2, <3>1 DEF Gone, IsPhi, IsAccess
    <2> QED BY <2>1, <2>2
  <1> QED BY <1>1, <1>3 DEF MovedPhis, Phis

-----------------------------------------------------------------------------
(* The comparisons that branches make themselves.                           *)
Made ==
    {ResultAt(emitted, s) : s \in {t \in Sites(emitted) : BranchMakes(emitted, t[1], t[2])}}

(* Nothing reads such a value but the terminator of the comparison's block. *)
LEMMA MadeNotRead ==
    ASSUME Setup, NEW v \in Made
    PROVE  /\ \A b \in Blocks(func) : \A i \in DOMAIN Insts(func, b) : v \notin Uses(Insts(func, b)[i])
           /\ \A b \in Blocks(func) : v \in Elements(Term(func, b).args) =>
                 \E i \in DOMAIN Insts(emitted, b) : BranchMakes(emitted, b, i) /\ Insts(emitted, b)[i].result = v
  <1>1. PICK t \in Sites(emitted) : BranchMakes(emitted, t[1], t[2]) /\ v = ResultAt(emitted, t)
    BY DEF Made
  <1>2. PICK c \in Blocks(emitted) : \E m \in DOMAIN Insts(emitted, c) : t = <<c, m>>
    BY DEF Sites
  <1>3. PICK m \in DOMAIN Insts(emitted, c) : t = <<c, m>>
    BY <1>2
  <1>4. BranchMakes(emitted, c, m) /\ v = Insts(emitted, c)[m].result /\ c \in Blocks(func)
    BY <1>1, <1>3, SetupFacts DEF ResultAt
  <1> DEFINE e == Len(Insts(emitted, c)) + 1
  <1>5. /\ Insts(emitted, c)[m].op = "eq" /\ Term(emitted, c).args = <<v>>
        /\ UsesOf(emitted, v) = {<<<<c, e>>, 1>>}
    BY <1>4 DEF BranchMakes
  <1>6. v # NoValue
    <2>1. v \in Elements(Term(emitted, c).args)
      BY <1>5 DEF Elements
    <2>2. v \in Values(func)
      BY <1>4, <2>1, SetupFacts DEF Verified, ValuesChecked
    <2> QED BY <2>2, SetupFacts, ValueNumbers
  <1>7. ASSUME NEW s \in Places(emitted), NEW k \in DOMAIN Args(emitted, s), Args(emitted, s)[k] = v
        PROVE  s = <<c, e>>
    <2>1. <<s, k>> \in UsesOf(emitted, v)
      BY <1>7 DEF UsesOf
    <2> HIDE DEF e
    <2> QED BY <1>5, <2>1
  <1>8. ASSUME NEW b \in Blocks(func), NEW i \in DOMAIN Insts(emitted, b)
        PROVE  /\ <<b, i>> \in Places(emitted) /\ Args(emitted, <<b, i>>) = Insts(emitted, b)[i].args
               /\ <<b, i>> # <<c, e>>
    <2>1. b \in Blocks(emitted) /\ i \in 1..Len(Insts(emitted, b)) /\ Len(Insts(emitted, b)) \in Nat
      BY <1>8, BlockSeen
    <2> QED BY <2>1 DEF Places, Sites, Args
  <1>9. ASSUME NEW b \in Blocks(func)
        PROVE  LET n == Len(Insts(emitted, b)) + 1 IN
               <<b, n>> \in Places(emitted) /\ Args(emitted, <<b, n>>) = Term(emitted, b).args
    <2>1. /\ b \in Blocks(emitted) /\ Len(Insts(emitted, b)) \in Nat
          /\ DOMAIN Insts(emitted, b) = 1..Len(Insts(emitted, b))
      BY BlockSeen
    <2> QED BY <2>1 DEF Places, Args
  <1> HIDE DEF e
  <1>10. ASSUME NEW b \in Blocks(func), NEW i \in DOMAIN Insts(func, b), v \in Uses(Insts(func, b)[i])
         PROVE  FALSE
    <2> DEFINE x == Insts(emitted, b)[i]
               n == Insts(func, b)[i]
    <2>1. i \in DOMAIN Insts(emitted, b)
      BY BlockSeen
    <2>2. PICK k \in DOMAIN n.args : n.args[k] = v
      BY <1>10 DEF Uses, Elements
    <2>3. x.result \notin Gone
      <3>1. n # Nop
        BY <2>2 DEF Nop
      <3> QED BY <3>1, InstSeen
    <2>4. x \in InstShape /\ n = Addressed(folded, x)
      BY <2>3, InstSeen
    <2>5. k \in DOMAIN x.args /\ (v = x.args[k] \/ (k = 1 /\ v = Base(folded, x.args[k])))
      <3> HIDE DEF x, n
      <3> QED BY <2>2, <2>4, AddressedFacts
    <2>6. v # x.args[k]
      BY <1>7, <1>8, <2>1, <2>5
    <2>7. x.args[k] \in DOMAIN Folds(emitted) /\ v = Folds(emitted)[x.args[k]]
      <3> HIDE DEF x
      <3> QED BY <2>5, <2>6 DEF Base, Setup
    <2> HIDE DEF x, n
    <2>8. PICK s \in Eligible(emitted) : v = Args(emitted, s)[1] \/ v = ResultAt(emitted, s)
      BY <2>7, FoldFacts
    <2>a. PICK d \in Blocks(func) : \E j \in DOMAIN Insts(emitted, d) :
             /\ s = <<d, j>> /\ Insts(emitted, d)[j].op = "gep"
             /\ ResultAt(emitted, s) = Insts(emitted, d)[j].result
             /\ 1 \in DOMAIN Args(emitted, s)
      BY EligibleFacts
    <2>9. PICK j \in DOMAIN Insts(emitted, d) :
             /\ s = <<d, j>> /\ Insts(emitted, d)[j].op = "gep"
             /\ ResultAt(emitted, s) = Insts(emitted, d)[j].result
             /\ 1 \in DOMAIN Args(emitted, s)
      BY <2>a
    <2>10. v # Args(emitted, s)[1]
      BY <1>7, <1>8, <2>9
    <2>11. v = Insts(emitted, d)[j].result
      BY <2>8, <2>9, <2>10
    <2>12. c = d /\ m = j
      BY <1>3, <1>4, <1>6, <2>9, <2>11, OneDefinition
    <2> QED BY <1>5, <2>9, <2>12
  <1>11. ASSUME NEW b \in Blocks(func), v \in Elements(Term(func, b).args)
         PROVE  b = c
    <2> DEFINE n == Len(Insts(emitted, b)) + 1
               s == <<b, n>>
    <2>1. s \in Places(emitted) /\ Args(emitted, s) = Term(emitted, b).args
      BY <1>9
    <2>2. \E k \in DOMAIN Args(emitted, s) : Args(emitted, s)[k] = v
      BY <1>11, <2>1, BlockSeen DEF Elements
    <2> HIDE DEF s
    <2>3. s = <<c, e>>
      BY <1>7, <2>1, <2>2
    <2> QED BY <2>3 DEF s
  <1> QED BY <1>3, <1>4, <1>10, <1>11

-----------------------------------------------------------------------------
(* What the allocation guarantees, apart from the phase it was reached in.  *)

LEMMA RegisterFacts ==
    /\ LocalReg \cap GlobalReg = {} /\ CallerSaved \cap CalleeSaved = {}
    /\ NoReg \notin GlobalReg /\ NoReg \notin LocalReg
    /\ CallerSaved \subseteq GlobalReg /\ CalleeSaved \subseteq GlobalReg
    /\ GlobalReg = CallerSaved \cup CalleeSaved
    /\ Registers \cap Nat = {}
    /\ Registers = GlobalReg \cup LocalReg \cup Elements(ArgRegs)
    /\ Elements(ArgRegs) \cap (CalleeSaved \cup LocalReg) = {}
    /\ ReturnReg \in Elements(ArgRegs) /\ ReturnReg \notin GlobalReg \cup LocalReg
  <1>1. ReturnReg \in Elements(ArgRegs)
    <2>1. 1 \in DOMAIN ArgRegs
      BY ArgAssumption
    <2> QED BY <2>1 DEF ReturnReg, Elements
  <1>2. ReturnReg \notin CallerSaved
    BY ArgAssumption DEF ReturnReg
  <1> QED BY <1>1, <1>2, RegisterAssumption, ArgAssumption DEF GlobalReg, Registers

PlacesTyped ==
    \A v \in Values(func) : regs[v] \in GlobalReg \cup {NoReg} /\ locals[v] \in LocalReg \cup {NoReg}

LEMMA HomeFacts ==
    ASSUME WellFormed(func), PlacesTyped, NEW v \in Values(func)
    PROVE  /\ v \in Nat
           /\ Home(v) \in Registers \cup Values(func)
           /\ Location(v) = NoReg => Home(v) = v
           /\ Location(v) # NoReg => Home(v) = Location(v) /\ Home(v) \in GlobalReg \cup LocalReg
           /\ Home(v) # ReturnReg
           /\ Home(v) \in CalleeSaved => regs[v] = Home(v)
  <1>1. v \in Nat
    BY ValueNumbers
  <1>2. Location(v) = NoReg => Home(v) = v
    BY DEF Home
  <1>3. Location(v) # NoReg => Home(v) = Location(v) /\ Home(v) \in GlobalReg \cup LocalReg
    BY DEF Home, Location, PlacesTyped
  <1>4. Home(v) # ReturnReg
    BY <1>1, <1>2, <1>3, RegisterFacts
  <1>5. Home(v) \in CalleeSaved => regs[v] = Home(v)
    <2>1. Home(v) \in CalleeSaved => Location(v) # NoReg
      BY <1>1, <1>2, RegisterFacts
    <2> QED BY <1>3, <2>1, RegisterFacts DEF Location, PlacesTyped
  <1> QED BY <1>1, <1>2, <1>3, <1>4, <1>5, RegisterFacts

(* What an instruction computes goes where nothing is that is needed later. *)
DefinitionsSpare ==
    \A b \in Reachable(func) : \A j \in DOMAIN Insts(func, b) : \A v \in Values(func) :
        Insts(func, b)[j].result \notin {NoValue, v} /\ LiveAt(v, b, j) =>
            Home(v) # Home(Insts(func, b)[j].result)

LEMMA DefinitionsSpared == AllocInv /\ phase = "done" => DefinitionsSpare
  <1> SUFFICES ASSUME AllocInv, phase = "done",
                      NEW b \in Reachable(func), NEW j \in DOMAIN Insts(func, b), NEW v \in Values(func),
                      Insts(func, b)[j].result # NoValue, Insts(func, b)[j].result # v, LiveAt(v, b, j),
                      Home(v) = Home(Insts(func, b)[j].result)
               PROVE  FALSE
    BY DEF DefinitionsSpare
  <1> DEFINE r == Insts(func, b)[j].result
  <1>1. /\ WellFormed(func) /\ Verified(func) /\ b \in Blocks(func)
        /\ verdict \in {"none", "converged"}
        /\ \A x \in Values(func) :
              /\ regs[x] # NoReg => regs[x] \in GlobalReg
              /\ locals[x] # NoReg => locals[x] \in LocalReg
    BY AllocFacts
  <1>2. /\ r \in Values(func) /\ r \in Results(func, b)
        /\ \A c \in Blocks(func) : \A k \in DOMAIN Insts(func, c) :
              Insts(func, c)[k].result = r => c = b /\ k = j
    BY <1>1, ResultFacts
  <1>3. PlacesTyped
    BY <1>1 DEF PlacesTyped
  <1>4. j \in 0..Len(Insts(func, b)) /\ j \in Nat
    <2>1. Len(Insts(func, b)) \in Nat /\ j \in 1..Len(Insts(func, b))
      BY <1>1, AllInstsFacts
    <2> QED BY <2>1
  <1>5. r # v /\ Home(v) = Home(r)
    OBVIOUS
  <1>6. Insts(func, b)[j].result # v
    OBVIOUS
  <1>7. ASSUME Exact, graph = InterferenceGraph, v \in candidates, r \in candidates
        PROVE  r \in graph[v] /\ v \in graph[r]
    <2>1. \A m \in (j + 1)..j : Insts(func, b)[m].result # v
      BY <1>4
    <2>2. v \in LiveBeyond(b, j)
      BY <1>1, <1>4, <1>6, <1>7, <2>1, LiveAtBeyond DEF Exact
    <2>3. <<b, j>> \in Sites(func) /\ ResultAt(func, <<b, j>>) = r
      BY <1>1 DEF Sites, ResultAt
    <2>4. <<r, v>> \in DefinitionConflicts
      BY <1>7, <2>2, <2>3 DEF DefinitionConflicts, ResultAt
    <2> HIDE DEF r
    <2> QED BY <1>2, <1>7, <2>4 DEF InterferenceGraph
  <1> HIDE DEF r
  <1>8. Location(v) # NoReg /\ Location(r) = Location(v)
    <2>1. /\ v \in Nat /\ r \in Nat
          /\ Location(v) = NoReg => Home(v) = v
          /\ Location(v) # NoReg => Home(v) = Location(v) /\ Home(v) \in GlobalReg \cup LocalReg
          /\ Location(r) = NoReg => Home(r) = r
          /\ Location(r) # NoReg => Home(r) = Location(r) /\ Home(r) \in GlobalReg \cup LocalReg
      BY <1>1, <1>2, <1>3, HomeFacts
    <2> QED BY <1>5, <2>1, RegisterFacts
  <1>9. CASE regs[v] # NoReg
    <2>1. regs[r] = regs[v]
      BY <1>1, <1>2, <1>8, <1>9, RegisterFacts DEF Location
    <2>2. verdict = "converged"
      <3>1. ~(verdict = "none")
        BY <1>2, <1>5, <1>9, <2>1 DEF AllocInv, ExclusiveRegs
      <3> QED BY <1>1, <3>1
    <2>3. Exact /\ graph = InterferenceGraph /\ v \in candidates /\ r \in candidates
      BY <1>2, <1>9, <2>1, <2>2, AllocFacts DEF AllocInv, Origin
    <2> QED BY <1>2, <1>7, <1>9, <2>1, <2>2, <2>3 DEF AllocInv, IInv, ProperColoring
  <1>10. CASE regs[v] = NoReg
    <2>1. regs[r] = NoReg /\ locals[v] # NoReg /\ locals[v] = locals[r]
      BY <1>1, <1>2, <1>8, <1>10, RegisterFacts DEF Location
    <2>2. PICK c \in Blocks(func) : LocalCandidate(v, c)
      BY <2>1 DEF AllocInv, LocalsApart
    <2>3. PICK d \in Blocks(func) : LocalCandidate(r, d)
      BY <1>2, <2>1 DEF AllocInv, LocalsApart
    <2>4. b = c /\ DefIndex(v, b) <= j /\ j < LastUse(v, b)
      BY <1>1, <1>4, <2>2, LocalLive
    <2>5. LET last == Len(Insts(func, d)) IN
          /\ last \in Nat /\ DefIndex(r, d) \in 1..last /\ Insts(func, d)[DefIndex(r, d)].result = r
          /\ LastUse(r, d) \in 1..last /\ DefIndex(r, d) < LastUse(r, d)
          /\ DOMAIN Insts(func, d) = 1..last
      BY <1>1, <1>2, <2>3, LocalFacts, AllInstsFacts
    <2>6. d = b /\ DefIndex(r, b) = j
      BY <1>2, <2>5
    <2>7. LET last == Len(Insts(func, b)) IN
          last \in Nat /\ DefIndex(v, b) \in 1..last /\ LastUse(v, b) \in 1..last
      BY <1>1, <2>2, <2>4, LocalFacts
    <2>8. Apart(b, v, r)
      BY <1>1, <1>2, <1>5, <2>1, <2>2, <2>3, <2>4, <2>6 DEF AllocInv, LocalsApart
    <2> QED BY <1>4, <2>4, <2>5, <2>6, <2>7, <2>8 DEF Apart
  <1> QED BY <1>9, <1>10

CallsSpare ==
    \A b \in Reachable(func) : \A j \in DOMAIN Insts(func, b) : \A v \in Values(func) :
        IsCall(Insts(func, b)[j]) /\ Insts(func, b)[j].result # v /\ LiveAt(v, b, j) =>
            Home(v) \notin CallerSaved \cup LocalReg

LEMMA CallsSpared == AllocInv /\ phase = "done" => CallsSpare
  <1> SUFFICES ASSUME AllocInv, phase = "done",
                      NEW b \in Reachable(func), NEW j \in DOMAIN Insts(func, b), NEW v \in Values(func),
                      IsCall(Insts(func, b)[j]), Insts(func, b)[j].result # v, LiveAt(v, b, j)
               PROVE  Home(v) \notin CallerSaved \cup LocalReg
    BY DEF CallsSpare
  <1>1. WellFormed(func) /\ b \in Blocks(func) /\ PlacesTyped
    BY AllocFacts DEF PlacesTyped
  <1> DEFINE s == <<b, j>>
  <1>2. s \in CallSites /\ s[1] = b /\ s[2] = j /\ ResultAt(func, s) = Insts(func, b)[j].result
    BY <1>1 DEF CallSites, Sites, ResultAt
  <1> HIDE DEF s
  <1>3. Location(v) \notin CallerSaved \cup LocalReg
    BY <1>2, CallsPreserved DEF CallsPreserve
  <1>4. v \notin CallerSaved \cup LocalReg
    BY <1>1, HomeFacts, RegisterFacts
  <1> QED BY <1>3, <1>4 DEF Home

(* What a call reads is not in the registers it is passed in.               *)
OperandsSpare ==
    \A s \in CallSites : \A v \in Uses(Insts(func, s[1])[s[2]]) : Home(v) \notin Elements(ArgRegs)

LEMMA OperandsSpared == AllocInv /\ phase = "done" => OperandsSpare
  <1> SUFFICES ASSUME AllocInv, phase = "done", NEW s \in CallSites, NEW v \in Uses(Insts(func, s[1])[s[2]]),
                      Home(v) \in Elements(ArgRegs)
               PROVE  FALSE
    BY DEF OperandsSpare
  <1>1. /\ WellFormed(func) /\ Verified(func) /\ verdict \in {"none", "converged"}
        /\ PlacesTyped
    BY AllocFacts DEF PlacesTyped
  <1>2. v \in Values(func)
    <2>1. s \in Sites(func)
      BY DEF CallSites
    <2>2. PICK b \in Blocks(func) : \E i \in DOMAIN Insts(func, b) : s = <<b, i>>
      BY <2>1 DEF Sites
    <2> QED BY <1>1, <2>2 DEF Verified, ValuesChecked
  <1>3. regs[v] \in CallerSaved
    <2>1. v \notin Elements(ArgRegs)
      BY <1>1, <1>2, HomeFacts, RegisterFacts
    <2>2. Location(v) # NoReg /\ Location(v) \in Elements(ArgRegs) /\ Location(v) \in GlobalReg \cup LocalReg
      BY <1>1, <1>2, <2>1, HomeFacts
    <2>3. Location(v) \in CallerSaved
      BY <2>2, RegisterFacts
    <2> QED BY <1>1, <1>2, <2>3, RegisterFacts DEF Location, PlacesTyped
  <1>4. verdict = "converged"
    <2>1. ~(verdict = "none")
      BY <1>2, <1>3 DEF AllocInv, ExclusiveRegs
    <2> QED BY <1>1, <2>1
  <1>5. v \in candidates /\ callOperands = CallOperands
    <2>1. regs[v] # NoReg
      BY <1>3, RegisterFacts
    <2> QED BY <1>2, <1>4, <2>1 DEF AllocInv, Origin, IInv, GraphFromSolution
  <1>6. v \in callOperands
    BY <1>5 DEF CallOperands
  <1> QED BY <1>2, <1>3, <1>4, <1>6 DEF AllocInv, IInv, ProperColoring

-----------------------------------------------------------------------------
(* Parameters: the conservative assignment gives them no register.          *)

LEMMA IntervalFinite ==
    ASSUME NEW n \in Nat
    PROVE  IsFiniteSet(1..n) /\ IsFiniteSet(0..(n - 1)) /\ Cardinality(0..(n - 1)) = n
  <1>1. 1 \in Int /\ 0 \in Int /\ n \in Int /\ n - 1 \in Int
    OBVIOUS
  <1>2. IsFiniteSet(1..n)
    BY <1>1, FS_Interval
  <1> DEFINE m == n - 1
  <1>3. IsFiniteSet(0..m) /\ Cardinality(0..m) = IF 0 > m THEN 0 ELSE m - 0 + 1
    <2> HIDE DEF m
    <2> QED BY <1>1, FS_Interval DEF m
  <1> QED BY <1>1, <1>2, <1>3

LEMMA ImageFinite ==
    ASSUME NEW S, IsFiniteSet(S), NEW g, DOMAIN g = S
    PROVE  IsFiniteSet({g[x] : x \in S})
  <1> DEFINE T == {g[x] : x \in S}
             h == [x \in S |-> g[x]]
  <1>1. h \in [S -> T] /\ \A t \in T : \E x \in S : h[x] = t
    OBVIOUS
  <1> HIDE DEF T, h
  <1>2. h \in Surjection(S, T)
    BY <1>1 DEF Surjection
  <1> QED BY <1>2, FS_Surjection DEF T

LEMMA UnionFinite ==
    ASSUME NEW S, IsFiniteSet(S), NEW g, DOMAIN g = S, \A x \in S : IsFiniteSet(g[x])
    PROVE  IsFiniteSet(UNION {g[x] : x \in S})
  <1> DEFINE T == {g[x] : x \in S}
  <1>1. IsFiniteSet(T)
    BY ImageFinite
  <1>2. \A X \in T : IsFiniteSet(X)
    OBVIOUS
  <1> HIDE DEF T
  <1> QED BY <1>1, <1>2, FS_UNION DEF T

LEMMA PositionsFinite ==
    ASSUME WellFormed(func), NEW v
    PROVE  IsFiniteSet(UsePositions(v))
  <1> DEFINE At(b, i) == {<<b, i, k>> : k \in {p \in DOMAIN AllInsts(b)[i].args : AllInsts(b)[i].args[p] = v}}
             In(b) == UNION {At(b, i) : i \in DOMAIN AllInsts(b)}
  <1>1. UsePositions(v) = UNION {In(b) : b \in Blocks(func)}
    BY DEF UsePositions
  <1>2. ASSUME NEW b \in Blocks(func), NEW i \in DOMAIN AllInsts(b)
        PROVE  IsFiniteSet(At(b, i))
    <2> DEFINE args == AllInsts(b)[i].args
               K == {p \in DOMAIN args : args[p] = v}
    <2>1. args \in Seq(Nat)
      <3>1. LET last == Len(Insts(func, b)) IN
            /\ last \in Nat /\ DOMAIN Insts(func, b) = 1..last /\ DOMAIN AllInsts(b) = 1..(last + 1)
            /\ \A k \in 1..last : AllInsts(b)[k] = Insts(func, b)[k]
            /\ AllInsts(b)[last + 1].args = Term(func, b).args
        BY AllInstsFacts
      <3>2. func.blocks[b] \in BlockShape
        BY DEF WellFormed, Blocks
      <3>3. Insts(func, b) \in Seq(InstShape) /\ Term(func, b).args \in Seq(Nat)
        BY <3>2 DEF BlockShape, Insts, Term
      <3>4. \A k \in DOMAIN Insts(func, b) : Insts(func, b)[k].args \in Seq(Nat)
        <4>1. \A k \in DOMAIN Insts(func, b) : Insts(func, b)[k] \in InstShape
          BY <3>3
        <4> QED BY <4>1 DEF InstShape
      <3> QED BY <3>1, <3>3, <3>4
    <2>2. IsFiniteSet(DOMAIN args)
      <3> HIDE DEF args
      <3>1. DOMAIN args = 1..Len(args) /\ Len(args) \in Nat
        BY <2>1
      <3> QED BY <3>1, IntervalFinite
    <2>3. IsFiniteSet(K)
      <3> HIDE DEF args
      <3> QED BY <2>2, FS_Subset
    <2> HIDE DEF args, K
    <2>4. IsFiniteSet({<<b, i, k>> : k \in K})
      <3> DEFINE g == [k \in K |-> <<b, i, k>>]
      <3>1. DOMAIN g = K /\ {<<b, i, k>> : k \in K} = {g[k] : k \in K}
        OBVIOUS
      <3> HIDE DEF g
      <3>2. IsFiniteSet({g[k] : k \in K})
        BY <2>3, <3>1, ImageFinite
      <3> QED BY <3>1, <3>2
    <2> QED BY <2>4 DEF K, args
  <1>3. ASSUME NEW b \in Blocks(func)
        PROVE  IsFiniteSet(In(b))
    <2> DEFINE I == DOMAIN AllInsts(b)
               g == [i \in I |-> At(b, i)]
    <2>1. IsFiniteSet(I)
      <3>1. Len(Insts(func, b)) + 1 \in Nat /\ I = 1..(Len(Insts(func, b)) + 1)
        BY AllInstsFacts
      <3> HIDE DEF I
      <3> QED BY <3>1, IntervalFinite
    <2>2. \A i \in I : IsFiniteSet(g[i])
      BY <1>2
    <2>3. DOMAIN g = I /\ In(b) = UNION {g[i] : i \in I}
      OBVIOUS
    <2> HIDE DEF g, I
    <2>4. IsFiniteSet(UNION {g[i] : i \in I})
      BY <2>1, <2>2, <2>3, UnionFinite
    <2> QED BY <2>3, <2>4
  <1> DEFINE B == Blocks(func)
             h == [b \in B |-> In(b)]
  <1>4. DOMAIN h = B /\ UNION {In(b) : b \in B} = UNION {h[b] : b \in B} /\ \A b \in B : IsFiniteSet(h[b])
    BY <1>3
  <1>5. IsFiniteSet(B)
    BY BlocksFinite
  <1> HIDE DEF h, In, B
  <1>6. IsFiniteSet(UNION {h[b] : b \in B})
    BY <1>4, <1>5, UnionFinite
  <1> QED BY <1>1, <1>4, <1>6 DEF B

(* In a finite set in strict total order there is an element of every rank. *)
LEMMA RankedMembers ==
    ASSUME NEW S, IsFiniteSet(S), NEW P \in [S -> SUBSET S],
           \A v \in S : v \notin P[v],
           \A v \in S : \A u \in P[v] : P[u] \subseteq P[v],
           \A u, v \in S : u # v => u \in P[v] \/ v \in P[u]
    PROVE  /\ Cardinality(S) \in Nat
           /\ \A i \in 1..Cardinality(S) : \E v \in S : Cardinality(P[v]) = i - 1
  <1> DEFINE n == Cardinality(S)
             T == 0..(n - 1)
             rank == [v \in S |-> Cardinality(P[v])]
  <1>1. n \in Nat
    BY FS_CardinalityType
  <1>2. ASSUME NEW A \in SUBSET S, NEW B \in SUBSET S, A \subseteq B, A # B
        PROVE  Cardinality(A) \in Nat /\ Cardinality(B) \in Nat /\ Cardinality(A) < Cardinality(B)
    <2>1. IsFiniteSet(A) /\ IsFiniteSet(B)
      BY FS_Subset
    <2>2. Cardinality(A) \in Nat /\ Cardinality(B) \in Nat
      BY <2>1, FS_CardinalityType
    <2>3. Cardinality(A) <= Cardinality(B) /\ Cardinality(A) # Cardinality(B)
      BY <1>2, <2>1, FS_Subset
    <2> QED BY <2>2, <2>3
  <1>3. \A v \in S : rank[v] \in T
    <2> SUFFICES ASSUME NEW v \in S PROVE Cardinality(P[v]) \in T
      OBVIOUS
    <2>1. P[v] \in SUBSET S /\ P[v] # S
      OBVIOUS
    <2>2. Cardinality(P[v]) \in Nat /\ Cardinality(P[v]) < n
      BY <1>2, <2>1
    <2> HIDE DEF n
    <2> QED BY <1>1, <2>2
  <1>4. ASSUME NEW u \in S, NEW v \in S, u \in P[v]
        PROVE  rank[u] # rank[v]
    <2>1. P[u] \in SUBSET S /\ P[v] \in SUBSET S /\ P[u] \subseteq P[v] /\ P[u] # P[v]
      BY <1>4
    <2>2. Cardinality(P[u]) \in Nat /\ Cardinality(P[v]) \in Nat /\ Cardinality(P[u]) < Cardinality(P[v])
      BY <1>2, <2>1
    <2> QED BY <2>2
  <1> HIDE DEF T
  <1>5. rank \in Injection(S, T)
    <2>1. rank \in [S -> T]
      BY <1>3
    <2>2. \A u, v \in S : rank[u] = rank[v] => u = v
      BY <1>4
    <2>3. DOMAIN rank = S
      OBVIOUS
    <2> HIDE DEF rank
    <2> QED BY <2>1, <2>2, <2>3 DEF Injection, IsInjective
  <1>6. IsFiniteSet(T) /\ Cardinality(T) = n
    <2> HIDE DEF n
    <2> QED BY <1>1, IntervalFinite DEF T
  <1>7. rank \in Surjection(S, T)
    <2> HIDE DEF rank
    <2> QED BY <1>5, <1>6, FS_Injection
  <1>8. \A t \in T : \E v \in S : rank[v] = t
    BY <1>7 DEF Surjection
  <1>9. \A i \in 1..n : i - 1 \in T
    <2> HIDE DEF n
    <2> QED BY <1>1 DEF T
  <1> QED BY <1>1, <1>8, <1>9

LEMMA OrdersMembers ==
    ASSUME WellFormed(func), NEW S \in SUBSET Values(func)
    PROVE  /\ Cardinality(S) \in Nat
           /\ \A i \in 1..Cardinality(S) :
                 \E v \in S : Cardinality({w \in S : UseCount(w) > UseCount(v)
                                                     \/ (UseCount(w) = UseCount(v) /\ w < v)}) = i - 1
           /\ MemoryOrder(S) \in Seq(S)
  <1>1. IsFiniteSet(S) /\ \A v \in S : v \in Nat
    <2>1. func.kind \in Seq(Kinds)
      BY DEF WellFormed
    <2>2. Values(func) = 1..Len(func.kind) /\ Len(func.kind) \in Nat
      BY <2>1 DEF Values
    <2>3. IsFiniteSet(1..Len(func.kind))
      BY <2>2, IntervalFinite
    <2> QED BY <2>2, <2>3, FS_Subset
  <1>2. \A v \in S : UseCount(v) \in Nat
    BY PositionsFinite, FS_CardinalityType DEF UseCount
  <1>3. \A v \in S : Cardinality(RemoteUses(v)) \in Nat
    <2>1. \A v \in S : IsFiniteSet(RemoteUses(v))
      BY PositionsFinite, FS_Subset DEF RemoteUses
    <2> QED BY <2>1, FS_CardinalityType
  <1> DEFINE count == [v \in S |-> UseCount(v)]
             remote == [v \in S |-> Cardinality(RemoteUses(v))]
             P == [v \in S |-> {w \in S : count[w] > count[v] \/ (count[w] = count[v] /\ w < v)}]
             Q == [v \in S |-> {w \in S : remote[w] > remote[v] \/ (remote[w] = remote[v] /\ w > v)}]
  <1>4. count \in [S -> Nat] /\ remote \in [S -> Nat]
    BY <1>2, <1>3
  <1>5. Cardinality(S) \in Nat /\ \A i \in 1..Cardinality(S) : \E v \in S : Cardinality(P[v]) = i - 1
    <2> HIDE DEF count
    <2>1. P \in [S -> SUBSET S]
      OBVIOUS
    <2>2. \A u, v \in S : u \in P[v] <=> (count[u] > count[v] \/ (count[u] = count[v] /\ u < v))
      OBVIOUS
    <2> HIDE DEF P
    <2>3. \A u, v \in S : u # v => u \in P[v] \/ v \in P[u]
      BY <1>1, <1>4, <2>2
    <2>4. \A v \in S : v \notin P[v]
      BY <1>1, <1>4, <2>2
    <2>5. \A v \in S : \A u \in P[v] : P[u] \subseteq P[v]
      BY <1>1, <1>4, <2>1, <2>2
    <2> QED BY <1>1, <2>1, <2>3, <2>4, <2>5, RankedMembers
  <1>6. \A i \in 1..Cardinality(S) : \E v \in S : Cardinality(Q[v]) = i - 1
    <2> HIDE DEF remote
    <2>1. Q \in [S -> SUBSET S]
      OBVIOUS
    <2>2. \A u, v \in S : u \in Q[v] <=> (remote[u] > remote[v] \/ (remote[u] = remote[v] /\ u > v))
      OBVIOUS
    <2> HIDE DEF Q
    <2>3. \A u, v \in S : u # v => u \in Q[v] \/ v \in Q[u]
      BY <1>1, <1>4, <2>2
    <2>4. \A v \in S : v \notin Q[v]
      BY <1>1, <1>4, <2>2
    <2>5. \A v \in S : \A u \in Q[v] : Q[u] \subseteq Q[v]
      BY <1>1, <1>4, <2>1, <2>2
    <2> QED BY <1>1, <2>1, <2>3, <2>4, <2>5, RankedMembers
  <1> DEFINE after(v) == {w \in S : Cardinality(RemoteUses(w)) > Cardinality(RemoteUses(v))
                                     \/ (Cardinality(RemoteUses(w)) = Cardinality(RemoteUses(v)) /\ w > v)}
             at(i) == CHOOSE v \in S : Cardinality(after(v)) = i - 1
             n == Cardinality(S)
  <1>7. MemoryOrder(S) = [i \in 1..n |-> at(i)]
    BY DEF MemoryOrder, Sorted
  <1>8. \A v \in S : after(v) = Q[v]
    OBVIOUS
  <1> HIDE DEF after, Q
  <1>9. \A i \in 1..n : at(i) \in S
    BY <1>6, <1>8
  <1>10. MemoryOrder(S) \in Seq(S)
    <2> HIDE DEF at, n
    <2>1. n \in Nat
      BY <1>5 DEF n
    <2> QED BY <1>7, <1>9, <2>1
  <1>11. \A v \in S : P[v] = {w \in S : UseCount(w) > UseCount(v) \/ (UseCount(w) = UseCount(v) /\ w < v)}
    OBVIOUS
  <1> HIDE DEF P
  <1> QED BY <1>5, <1>10, <1>11

LEMMA ConservativeValues ==
    ASSUME WellFormed(func), Verified(func), CallSites = {}, NEW v, NEW r, <<v, r>> \in ConservativePairs
    PROVE  IsInst(func, v)
  <1> DEFINE pool == ConservativePool
             phis == Paired(PhiOrder, pool)
             done == {p[1] : p \in phis}
             M == RemoteMemory \ (done \cup CallCrossing)
             others == CrossingOrder(CallCrossing \ done) \o MemoryOrder(M)
             left == Leftover({p[2] : p \in phis})
  <1>1. ConservativePairs = phis \cup Paired(others, left)
    BY DEF ConservativePairs
  <1>2. \A vs, rs : <<v, r>> \in Paired(vs, rs) => \E i \in DOMAIN vs : v = vs[i]
    BY DEF Paired
  <1>3. ASSUME NEW b \in Blocks(func), NEW i \in CallIndexes(b)
        PROVE  FALSE
    <2>1. <<b, i>> \in CallSites
      BY DEF CallIndexes, CallSites, Sites
    <2> QED BY <2>1
  <1>4. CallCrossing = {}
    BY <1>3 DEF CallCrossing, CallCrosses
  <1>5. AllPhis \in SUBSET Values(func)
    BY DEF AllPhis, PhiResults, Phis, Verified, ValuesChecked
  <1>6. \A u \in AllPhis : IsInst(func, u)
    <2> SUFFICES ASSUME NEW u \in AllPhis PROVE IsInst(func, u)
      OBVIOUS
    <2>1. PICK b \in Blocks(func) : u \in PhiResults(func, b)
      BY DEF AllPhis
    <2>2. PICK i \in DOMAIN Insts(func, b) : Insts(func, b)[i].result = u
      BY <2>1 DEF PhiResults, Phis
    <2>3. u # NoValue
      BY <1>5, ValueNumbers
    <2> QED BY <2>2, <2>3, ResultFacts
  <1>7. CASE <<v, r>> \in phis
    <2> DEFINE before(x) == {w \in AllPhis : UseCount(w) > UseCount(x) \/ (UseCount(w) = UseCount(x) /\ w < x)}
               at(i) == CHOOSE x \in AllPhis : Cardinality(before(x)) = i - 1
               n == Cardinality(AllPhis)
    <2>1. PhiOrder = [i \in 1..n |-> at(i)]
      BY DEF PhiOrder, Sorted
    <2>2. \A i \in 1..n : \E x \in AllPhis : Cardinality(before(x)) = i - 1
      BY <1>5, OrdersMembers
    <2> HIDE DEF before
    <2>3. \A i \in 1..n : at(i) \in AllPhis
      BY <2>2
    <2> HIDE DEF at, n
    <2>4. PICK i \in DOMAIN PhiOrder : v = PhiOrder[i]
      BY <1>2, <1>7
    <2>5. v \in AllPhis
      BY <2>1, <2>3, <2>4
    <2> QED BY <1>6, <2>5
  <1>8. CASE <<v, r>> \in Paired(others, left)
    <2>1. M \in SUBSET Values(func) /\ \A u \in M : IsInst(func, u)
      BY DEF RemoteMemory, IsInst
    <2> HIDE DEF M
    <2>2. MemoryOrder(M) \in Seq(M)
      BY <2>1, OrdersMembers
    <2>3. CrossingOrder({}) = << >>
      <3>1. Cardinality({}) = 0
        BY FS_EmptySet
      <3>2. 1..0 = {}
        OBVIOUS
      <3> DEFINE S == {}
                 at(i) == CHOOSE x \in S : Cardinality({w \in S :
                    LET cv == Cardinality(LocalUses(w)) cw == Cardinality(LocalUses(x)) IN
                        \/ cv > cw
                        \/ cv = cw /\ Span(w) > Span(x)
                        \/ cv = cw /\ Span(w) = Span(x) /\ w < x}) = i - 1
      <3>3. CrossingOrder(S) = [i \in 1..Cardinality(S) |-> at(i)]
        BY DEF CrossingOrder, Sorted
      <3> HIDE DEF at
      <3>4. CrossingOrder({}) = [i \in {} |-> at(i)]
        BY <3>1, <3>2, <3>3
      <3> QED BY <3>4
    <2>4. CallCrossing \ done = {}
      BY <1>4
    <2>5. others = MemoryOrder(M)
      <3> HIDE DEF done
      <3>1. CrossingOrder(CallCrossing \ done) = << >>
        BY <2>3, <2>4
      <3>2. \A s \in Seq(M) : << >> \o s = s
        OBVIOUS
      <3> QED BY <2>2, <3>1, <3>2
    <2> HIDE DEF others
    <2>6. PICK i \in DOMAIN others : v = others[i]
      BY <1>2, <1>8
    <2>7. v \in M
      BY <2>2, <2>5, <2>6
    <2> QED BY <2>1, <2>7
  <1> HIDE DEF phis, others, left
  <1> QED BY <1>1, <1>7, <1>8

(* A function without calls gives its registers to computed values only.    *)
ConservativeInsts ==
    verdict = "none" /\ phase \in {"local", "done"} /\ CallSites = {} =>
        \A v \in Values(func) : regs[v] # NoReg => IsInst(func, v)

LEMMA ConservativeStep == IInv /\ Origin /\ ConservativeInsts /\ [Next]_vars => ConservativeInsts'
  <1> SUFFICES ASSUME IInv, Origin, ConservativeInsts, [Next]_vars PROVE ConservativeInsts'
    OBVIOUS
  <1> USE DEF given, liveVars, allocVars
  <1>0. func' = func /\ CallSites' = CallSites
    <2>1. func' = func
      BY DEF Next, Start, Analyse, GiveUp, BuildGraph, ColorNext, ColorEnd, AssignConservatively,
             AssignLocals, Done, vars
    <2> QED BY <2>1 DEF CallSites
  <1>1. CASE Start \/ Analyse \/ GiveUp \/ BuildGraph \/ ColorNext
    <2>1. phase' \in {"liveness", "color"}
      BY <1>1 DEF Start, Analyse, GiveUp, BuildGraph, ColorNext
    <2> QED BY <2>1 DEF ConservativeInsts
  <1>2. CASE ColorEnd
    <2>1. verdict' = verdict /\ phase = "color"
      BY <1>2 DEF ColorEnd
    <2> QED BY <2>1 DEF ConservativeInsts, Origin
  <1>3. CASE AssignLocals \/ Done \/ UNCHANGED vars
    <2>1. UNCHANGED <<verdict, regs>> /\ (phase' = phase \/ phase = "local")
      BY <1>3 DEF AssignLocals, Done, vars
    <2> QED BY <1>0, <2>1 DEF ConservativeInsts
  <1>4. CASE AssignConservatively /\ AllPhis = {}
    <2>1. \A v \in Values(func) : regs'[v] = NoReg
      BY <1>4 DEF AssignConservatively, IInv, Unassigned
    <2> QED BY <1>0, <2>1 DEF ConservativeInsts
  <1>5. CASE AssignConservatively /\ AllPhis # {}
    <2> DEFINE pairs == ConservativePairs
    <2>1. regs' = Handed(pairs, GlobalReg)
      BY <1>5 DEF AssignConservatively
    <2>2. CallSites = {} => \A v, r : <<v, r>> \in pairs => IsInst(func, v)
      BY ConservativeValues, FuncAssumption DEF Origin
    <2> HIDE DEF pairs
    <2>3. NoReg \notin GlobalReg
      BY RegisterAssumption
    <2>4. \A v \in Values(func) : regs'[v] # NoReg => <<v, regs'[v]>> \in pairs
      BY <2>1, <2>3, HandedPairs
    <2> QED BY <1>0, <2>2, <2>4 DEF ConservativeInsts
  <1> QED BY <1>1, <1>2, <1>3, <1>4, <1>5 DEF Next

(* Parameters do not wait in the registers they arrive in, and share        *)
(* nothing.                                                                 *)
ParamsSpare ==
    /\ \A p \in Elements(func.params) : Home(p) \notin Elements(ArgRegs)
    /\ \A p, q \in Elements(func.params) : p # q => Home(p) # Home(q)

LEMMA ParamsSpared == AllocInv /\ ConservativeInsts /\ phase = "done" => ParamsSpare
  <1> SUFFICES ASSUME AllocInv, ConservativeInsts, phase = "done" PROVE ParamsSpare
    OBVIOUS
  <1>1. /\ WellFormed(func) /\ Verified(func) /\ verdict \in {"none", "converged"}
        /\ PlacesTyped
    BY AllocFacts DEF PlacesTyped
  <1>2. \A p \in Elements(func.params) : p \in Values(func) /\ func.kind[p] = "param"
    BY <1>1 DEF Verified
  <1>3. \A p \in Elements(func.params) : Location(p) = regs[p]
    <2> SUFFICES ASSUME NEW p \in Elements(func.params), regs[p] = NoReg, locals[p] # NoReg PROVE FALSE
      BY DEF Location
    <2>1. \E b \in Blocks(func) : LocalCandidate(p, b)
      BY <1>2 DEF AllocInv, LocalsApart
    <2> QED BY <1>2, <2>1 DEF LocalCandidate, DefinedIn
  <1>4. ASSUME NEW p \in Elements(func.params), Home(p) \in Elements(ArgRegs)
        PROVE  FALSE
    <2>1. p \notin Elements(ArgRegs)
      BY <1>1, <1>2, HomeFacts, RegisterFacts
    <2>2. regs[p] # NoReg /\ regs[p] \in Elements(ArgRegs) /\ regs[p] \in GlobalReg
      BY <1>1, <1>2, <1>3, <1>4, <2>1, HomeFacts DEF PlacesTyped
    <2>3. regs[p] \in CallerSaved
      BY <2>2, RegisterFacts
    <2>4. ~(verdict = "converged")
      BY <1>2, <2>3 DEF AllocInv, IInv, ProperColoring
    <2>5. CallSites = {}
      BY <1>1, <1>2, <2>3, <2>4 DEF AllocInv, ExclusiveRegs
    <2> QED BY <1>1, <1>2, <2>2, <2>4, <2>5 DEF ConservativeInsts, IsInst
  <1>5. ASSUME NEW p \in Elements(func.params), NEW q \in Elements(func.params), p # q, Home(p) = Home(q)
        PROVE  FALSE
    <2>1. regs[p] # NoReg /\ regs[p] = regs[q]
      <3>1. /\ p \in Nat /\ q \in Nat
            /\ regs[p] = NoReg => Home(p) = p
            /\ regs[p] # NoReg => Home(p) = regs[p] /\ Home(p) \in GlobalReg \cup LocalReg
            /\ regs[q] = NoReg => Home(q) = q
            /\ regs[q] # NoReg => Home(q) = regs[q] /\ Home(q) \in GlobalReg \cup LocalReg
        BY <1>1, <1>2, <1>3, HomeFacts
      <3> QED BY <1>5, <3>1, RegisterFacts
    <2>2. verdict = "converged"
      <3>1. ~(verdict = "none")
        BY <1>2, <1>5, <2>1 DEF AllocInv, ExclusiveRegs
      <3> QED BY <1>1, <3>1
    <2>3. graph = InterferenceGraph /\ p \in candidates /\ q \in candidates
      BY <1>2, <2>1, <2>2, AllocFacts DEF AllocInv, Origin
    <2>4. <<p, q>> \in ParameterConflicts
      BY <1>5, <2>3 DEF ParameterConflicts
    <2>5. q \in graph[p]
      BY <1>2, <2>3, <2>4 DEF InterferenceGraph
    <2> QED BY <1>2, <2>1, <2>2, <2>5 DEF AllocInv, IInv, ProperColoring
  <1> QED BY <1>4, <1>5 DEF ParamsSpare

(* All of it, in terms of what stays fixed while the code runs.             *)
Placed ==
    /\ candidates = PreciseCandidates
    /\ PlacesTyped
    /\ DefinitionsSpare /\ CallsSpare /\ OperandsSpare /\ ParamsSpare

LEMMA AllocationPlaces == AllocInv /\ ConservativeInsts /\ phase = "done" => Placed
  <1>1. AllocInv /\ phase = "done" => candidates = PreciseCandidates /\ PlacesTyped
    BY AllocFacts DEF AllocInv, Origin, PlacesTyped
  <1> QED BY <1>1, DefinitionsSpared, CallsSpared, OperandsSpared, ParamsSpared DEF Placed

(* The homes the code uses do not move.                                     *)
LEMMA FixedStable ==
    ASSUME UNCHANGED fixed
    PROVE  /\ \A v, b, i : LiveAt(v, b, i)' <=> LiveAt(v, b, i)
           /\ \A v : Home(v)' = Home(v)
           /\ CallSites' = CallSites
           /\ Made' = Made
           /\ PreciseCandidates' = PreciseCandidates
  <1>1. UNCHANGED <<emitted, func, candidates, regs, locals>>
    BY DEF fixed, given
  <1>2. \A b : AllInsts(b)' = AllInsts(b)
    BY <1>1 DEF AllInsts
  <1>3. \A v, b : ReachedWithoutDef(v, b)' = ReachedWithoutDef(v, b)
    BY <1>1 DEF ReachedWithoutDef, DefBlocks
  <1>4. \A v, b : NeededIn(v, b)' <=> NeededIn(v, b)
    BY <1>1, <1>2 DEF NeededIn, DefBlocks, EdgePhiUses
  <1>5. \A v, b, i : LiveAt(v, b, i)' <=> LiveAt(v, b, i)
    BY <1>1, <1>2, <1>3, <1>4 DEF LiveAt
  <1>6. \A v : Home(v)' = Home(v)
    BY <1>1 DEF Home, Location
  <1>7. CallSites' = CallSites /\ Made' = Made
    BY <1>1 DEF CallSites, Made
  <1> QED BY <1>1, <1>5, <1>6, <1>7, CandidatesStable

LEMMA PlacedStable == Placed /\ UNCHANGED fixed => Placed'
  <1> SUFFICES ASSUME Placed, UNCHANGED fixed PROVE Placed'
    OBVIOUS
  <1>1. UNCHANGED <<func, candidates, regs, locals>>
    BY DEF fixed, given
  <1>2. /\ \A v, b, i : LiveAt(v, b, i)' <=> LiveAt(v, b, i)
        /\ \A v : Home(v)' = Home(v)
        /\ CallSites' = CallSites
        /\ PreciseCandidates' = PreciseCandidates
    BY FixedStable
  <1>3. PlacesTyped'
    BY <1>1 DEF Placed, PlacesTyped
  <1>4. DefinitionsSpare'
    BY <1>1, <1>2 DEF Placed, DefinitionsSpare
  <1>5. CallsSpare'
    BY <1>1, <1>2 DEF Placed, CallsSpare
  <1>6. OperandsSpare'
    BY <1>1, <1>2 DEF Placed, OperandsSpare
  <1>7. ParamsSpare'
    BY <1>1, <1>2 DEF Placed, ParamsSpare
  <1> QED BY <1>1, <1>2, <1>3, <1>4, <1>5, <1>6, <1>7 DEF Placed

-----------------------------------------------------------------------------
(* Phis: live values and the other phis are elsewhere.                      *)

LEMMA LiveAfterPhis ==
    ASSUME WellFormed(func), Verified(func), NEW b \in Blocks(func),
           NEW m \in DOMAIN Insts(func, b), IsPhi(Insts(func, b)[m]),
           NEW k \in 0..m, NEW v, LiveAt(v, b, k)
    PROVE  LiveAt(v, b, m)
  <1> DEFINE last == Len(Insts(func, b))
  <1>1. /\ last \in Nat /\ DOMAIN Insts(func, b) = 1..last /\ Len(AllInsts(b)) = last + 1
        /\ \A j \in 1..last : AllInsts(b)[j] = Insts(func, b)[j]
    BY AllInstsFacts
  <1>2. m \in 1..last /\ k \in Nat /\ k <= m
    BY <1>1
  <1>3. \A j \in (m + 1)..last : j \in (k + 1)..last
    BY <1>1, <1>2
  <1>4. \A j \in 1..m : IsPhi(AllInsts(b)[j]) \/ Uses(AllInsts(b)[j]) = {}
    <2> SUFFICES ASSUME NEW j \in 1..m PROVE IsPhi(Insts(func, b)[j]) \/ Uses(Insts(func, b)[j]) = {}
      BY <1>1, <1>2
    <2>1. j \in DOMAIN Insts(func, b)
      BY <1>1, <1>2
    <2>2. Insts(func, b)[j].op \in {"phi", "nop"}
      BY DEF Verified, PhisLeadBlocks
    <2>3. Insts(func, b)[j].op = "nop" => Insts(func, b)[j] = Nop
      BY <2>1 DEF Verified, ValuesChecked
    <2>4. Uses(Nop) = {}
      BY DEF Uses, Elements, Nop
    <2> QED BY <2>2, <2>3, <2>4 DEF IsPhi
  <1>5. ASSUME NEW j \in (k + 1)..Len(AllInsts(b)), ~IsPhi(AllInsts(b)[j]), v \in Uses(AllInsts(b)[j])
        PROVE  j \in (m + 1)..Len(AllInsts(b))
    <2>1. ~(j \in 1..m)
      BY <1>4, <1>5
    <2> QED BY <1>1, <1>2, <2>1
  <1> QED BY <1>3, <1>5 DEF LiveAt

LEMMA PhiSpare ==
    ASSUME Setup, Placed, NEW b \in Reachable(func),
           NEW m \in DOMAIN Insts(func, b), IsPhi(Insts(func, b)[m]),
           NEW k \in 0..m, NEW v \in Values(func), LiveAt(v, b, k), v # Insts(func, b)[m].result
    PROVE  Home(v) # Home(Insts(func, b)[m].result)
  <1>1. WellFormed(func) /\ Verified(func)
    BY SetupFacts
  <1>2. b \in Blocks(func)
    <2>1. {Entry} \in SUBSET Blocks(func)
      BY <1>1, BlocksFinite
    <2> QED BY <1>1, <2>1, ReachedAvoidingFacts DEF Reachable
  <1>3. LiveAt(v, b, m)
    BY <1>1, <1>2, LiveAfterPhis
  <1>4. Insts(func, b)[m].result # NoValue
    BY <1>1, <1>2, PhiFacts
  <1> QED BY <1>3, <1>4 DEF Placed, DefinitionsSpare

LEMMA PhisApart ==
    ASSUME Setup, Placed, NEW b \in Reachable(func), NEW p \in Phis(func, b), NEW q \in Phis(func, b),
           Home(p.result) = Home(q.result)
    PROVE  p = q
  <1>1. WellFormed(func) /\ Verified(func) /\ NoDeadPhis(func) /\ candidates = PreciseCandidates
    BY SetupFacts DEF Placed
  <1>2. b \in Blocks(func)
    <2>1. {Entry} \in SUBSET Blocks(func)
      BY <1>1, BlocksFinite
    <2> QED BY <1>1, <2>1, ReachedAvoidingFacts DEF Reachable
  <1>3. ASSUME NEW m \in DOMAIN Insts(func, b), NEW n \in DOMAIN Insts(func, b), m < n,
               IsPhi(Insts(func, b)[m]), IsPhi(Insts(func, b)[n])
        PROVE  Home(Insts(func, b)[m].result) # Home(Insts(func, b)[n].result)
    <2> DEFINE v == Insts(func, b)[m].result
    <2>1. LiveAt(v, b, m)
      BY <1>1, <1>3, PhiResultLive
    <2>2. v \in Values(func) /\ v # NoValue
      BY <1>1, <1>2, <1>3, PhiFacts
    <2>3. m \in 0..n /\ m # n
      <3>1. LET last == Len(Insts(func, b)) IN last \in Nat /\ DOMAIN Insts(func, b) = 1..last
        BY <1>1, <1>2, AllInstsFacts
      <3> QED BY <1>3, <3>1
    <2>4. v # Insts(func, b)[n].result
      BY <1>1, <1>2, <2>2, <2>3, ResultFacts
    <2> HIDE DEF v
    <2> QED BY <1>3, <2>1, <2>2, <2>3, <2>4, PhiSpare DEF v
  <1>4. PICK m \in DOMAIN Insts(func, b) : p = Insts(func, b)[m] /\ IsPhi(Insts(func, b)[m])
    BY DEF Phis
  <1>5. PICK n \in DOMAIN Insts(func, b) : q = Insts(func, b)[n] /\ IsPhi(Insts(func, b)[n])
    BY DEF Phis
  <1>6. m = n \/ m < n \/ n < m
    <2>1. LET last == Len(Insts(func, b)) IN last \in Nat /\ DOMAIN Insts(func, b) = 1..last
      BY <1>1, <1>2, AllInstsFacts
    <2> QED BY <2>1
  <1> QED BY <1>3, <1>4, <1>5, <1>6

-----------------------------------------------------------------------------
(* What the machine holds.                                                  *)

(* At a place in a block: after instruction i of block b, and while the     *)
(* arguments of a call are being loaded.                                    *)
Holding(held, b, i, loading) ==
    \A v \in Values(func) \ Made :
        ~IsConst(func, v) /\ LiveAt(v, b, i) /\ (loading => Home(v) \notin Elements(ArgRegs)) =>
            v \in held[Home(v)]

PhisPlaced(held, b, i) ==
    \A m \in DOMAIN Insts(func, b) :
        m > i /\ IsPhi(Insts(func, b)[m]) => Insts(func, b)[m].result \in held[Home(Insts(func, b)[m].result)]

ContentsTyped(held) ==
    held \in [Registers \cup Values(func) -> SUBSET (Values(func) \cup CalleeSaved)]

(* The callee-saved registers nobody was given are the caller's.            *)
RestKept(held) == \A r \in CalleeSaved \ UsedCalleeSaved : r \in held[r]

SilentAt(b, i) ==
    LET inst == Insts(emitted, b)[i] IN
    IsPhi(inst) \/ inst.op = "nop" \/ inst.result \in Gone \/ BranchMakes(emitted, b, i)

LEMMA ReachableBlock ==
    ASSUME Setup, NEW b \in Reachable(func)
    PROVE  b \in Blocks(func)
  <1>1. WellFormed(func)
    BY SetupFacts
  <1>2. {Entry} \in SUBSET Blocks(func)
    BY <1>1, BlocksFinite
  <1> QED BY <1>1, <1>2, ReachedAvoidingFacts DEF Reachable

(* An instruction without code changes nothing that is live.                *)
LEMMA SilentKeeps ==
    ASSUME Setup, NEW b \in Reachable(func), NEW i \in DOMAIN Insts(func, b), SilentAt(b, i),
           NEW held, Holding(held, b, i - 1, FALSE), PhisPlaced(held, b, i - 1)
    PROVE  Holding(held, b, i, FALSE) /\ PhisPlaced(held, b, i)
  <1>1. WellFormed(func) /\ Verified(func) /\ Verified(emitted) /\ b \in Blocks(func)
    BY SetupFacts, ReachableBlock
  <1>2. /\ Len(Insts(func, b)) \in Nat /\ DOMAIN Insts(func, b) = 1..Len(Insts(func, b))
        /\ b \in Blocks(emitted) /\ i \in DOMAIN Insts(emitted, b)
    BY <1>1, BlockSeen
  <1>3. PhisPlaced(held, b, i)
    <2>1. \A m \in DOMAIN Insts(func, b) : m > i => m > i - 1
      BY <1>2
    <2> QED BY <2>1 DEF PhisPlaced
  <1>4. ASSUME NEW v \in Values(func) \ Made, ~IsConst(func, v), LiveAt(v, b, i)
        PROVE  v \in held[Home(v)]
    <2> DEFINE e == Insts(emitted, b)[i]
               n == Insts(func, b)[i]
    <2>1. CASE n.result # v
      <3>1. LiveAt(v, b, i - 1)
        BY <1>1, <1>4, <2>1, LiveBackward
      <3> QED BY <1>4, <3>1 DEF Holding
    <2>2. CASE n.result = v
      <3>1. v # NoValue
        BY <1>1, ValueNumbers
      <3>2. e.result \notin Gone
        <4>1. n # Nop
          BY <2>2, <3>1 DEF Nop
        <4> QED BY <1>1, <4>1, InstSeen
      <3>3. n.op = e.op /\ n.result = e.result
        BY <1>1, <3>2, InstSeen
      <3>4. e.op # "nop"
        <4>1. e.op = "nop" => e = Nop
          BY <1>1, <1>2 DEF Verified, ValuesChecked
        <4> HIDE DEF e
        <4> QED BY <2>2, <3>1, <3>3, <4>1 DEF Nop
      <3>5. ~BranchMakes(emitted, b, i)
        <4>1. <<b, i>> \in Sites(emitted) /\ ResultAt(emitted, <<b, i>>) = e.result
          BY <1>2 DEF Sites, ResultAt
        <4> HIDE DEF e, n
        <4>2. BranchMakes(emitted, b, i) => v \in Made
          BY <2>2, <3>3, <4>1 DEF Made
        <4> QED BY <4>2
      <3>6. IsPhi(n)
        BY <3>2, <3>3, <3>4, <3>5 DEF SilentAt, IsPhi
      <3>7. i > i - 1
        BY <1>2
      <3> QED BY <2>2, <3>6, <3>7 DEF PhisPlaced
    <2> QED BY <2>1, <2>2
  <1> QED BY <1>3, <1>4 DEF Holding

(* An instruction with code computes its result into a home of its own.     *)
LEMMA DefinitionKeeps ==
    ASSUME Setup, Placed, NEW b \in Reachable(func), NEW i \in DOMAIN Insts(func, b), ~SilentAt(b, i),
           NEW held, DOMAIN held = Registers \cup Values(func),
           \A v \in Values(func) \ Made :
              ~IsConst(func, v) /\ LiveAt(v, b, i) /\ v # Insts(emitted, b)[i].result => v \in held[Home(v)]
    PROVE  /\ Holding(Defined(held, Insts(emitted, b)[i].result), b, i, FALSE)
           /\ PhisPlaced(Defined(held, Insts(emitted, b)[i].result), b, i)
  <1> DEFINE e == Insts(emitted, b)[i]
             r == e.result
             after == Defined(held, r)
  <1>1. /\ WellFormed(func) /\ Verified(func) /\ b \in Blocks(func) /\ PlacesTyped
        /\ e.result \notin Gone
    BY SetupFacts, ReachableBlock DEF Placed, SilentAt
  <1>2. Insts(func, b)[i].result = r /\ Insts(func, b)[i].op = e.op
    BY <1>1, InstSeen
  <1>3. /\ Len(Insts(func, b)) \in Nat /\ DOMAIN Insts(func, b) = 1..Len(Insts(func, b))
    BY <1>1, BlockSeen
  <1>4. PhisPlaced(after, b, i)
    <2>1. e.op \notin {"phi", "nop"}
      BY DEF SilentAt, IsPhi
    <2>2. ASSUME NEW m \in DOMAIN Insts(func, b), m > i, IsPhi(Insts(func, b)[m])
          PROVE  FALSE
      <3>1. i \in 1..m
        BY <1>3, <2>2
      <3>2. Insts(func, b)[i].op \in {"phi", "nop"}
        BY <1>1, <2>2, <3>1 DEF Verified, PhisLeadBlocks
      <3> QED BY <1>2, <2>1, <3>2
    <2> QED BY <2>2 DEF PhisPlaced
  <1>5. ASSUME NEW v \in Values(func) \ Made, ~IsConst(func, v), LiveAt(v, b, i)
        PROVE  v \in after[Home(v)]
    <2>1. Home(v) \in DOMAIN held
      BY <1>1, HomeFacts
    <2>2. CASE r = NoValue
      <3>1. v # r
        BY <1>1, <2>2, ValueNumbers
      <3> HIDE DEF r
      <3> QED BY <1>5, <2>2, <3>1 DEF Defined, r
    <2>3. CASE r # NoValue
      <3> HIDE DEF r
      <3>1. after = [l \in DOMAIN held |-> IF l = Home(r) THEN {r} ELSE held[l] \ {r}]
        BY <2>3 DEF Defined
      <3>2. CASE v = r
        BY <2>1, <3>1, <3>2
      <3>3. CASE v # r
        <4>1. Home(v) # Home(r)
          BY <1>2, <1>5, <2>3, <3>3 DEF Placed, DefinitionsSpare
        <4>2. v \in held[Home(v)]
          BY <1>5, <3>3 DEF r
        <4> QED BY <2>1, <3>1, <3>3, <4>1, <4>2
      <3> QED BY <3>2, <3>3
    <2> QED BY <2>2, <2>3
  <1> QED BY <1>4, <1>5 DEF Holding

(* What an instruction, a terminator or an edge reads is in its home.       *)
LEMMA ReadHeld ==
    ASSUME Setup, NEW b \in Reachable(func), NEW i \in DOMAIN AllInsts(b),
           ~IsPhi(AllInsts(b)[i]), NEW v \in Uses(AllInsts(b)[i]), v \notin Made,
           NEW held, NEW loading, Holding(held, b, i - 1, loading),
           loading => Home(v) \notin Elements(ArgRegs)
    PROVE  v \in Values(func) /\ (IsConst(func, v) \/ v \in held[Home(v)])
  <1>1. WellFormed(func) /\ Verified(func) /\ b \in Blocks(func)
    BY SetupFacts, ReachableBlock
  <1>2. v \in Values(func) /\ LiveAt(v, b, i - 1)
    BY <1>1, ReadsChecked, ReadIsLive
  <1> QED BY <1>2 DEF Holding

LEMMA ReceivedHeld ==
    ASSUME Setup, Placed, NEW p \in Reachable(func), NEW s \in Successors(func, p),
           NEW phi \in Phis(func, s),
           NEW held, Holding(held, p, Len(Insts(func, p)), FALSE)
    PROVE  LET v == Incoming(phi, p) IN v \in Values(func) /\ (IsConst(func, v) \/ v \in held[Home(v)])
  <1> DEFINE v == Incoming(phi, p)
  <1>1. /\ WellFormed(func) /\ Verified(func) /\ p \in Blocks(func)
        /\ candidates = PreciseCandidates
    BY SetupFacts, ReachableBlock DEF Placed
  <1>2. PICK m \in DOMAIN Insts(func, s) : phi = Insts(func, s)[m] /\ IsPhi(Insts(func, s)[m])
    BY DEF Phis
  <1>3. s \in Blocks(func) /\ v \in Uses(phi)
    BY <1>1, <1>2, IncomingFacts DEF Uses, Elements
  <1>4. v \in Values(func)
    BY <1>1, <1>2, <1>3 DEF Verified, ValuesChecked
  <1>5. v \notin Made
    BY <1>2, <1>3, MadeNotRead
  <1>6. IsConst(func, v) \/ LiveAt(v, p, Len(Insts(func, p)))
    <2> HIDE DEF v
    <2>1. \E x \in Phis(func, s) : v = Incoming(x, p)
      BY DEF v
    <2> QED BY <1>1, <1>4, <2>1, LiveAlongEdge
  <1> HIDE DEF v
  <1>7. IsConst(func, v) \/ v \in held[Home(v)]
    BY <1>4, <1>5, <1>6 DEF Holding
  <1> QED BY <1>4, <1>7 DEF v

(* A callee-saved register nobody was given is no value's home.             *)
LEMMA UnusedApart ==
    ASSUME Setup, Placed, NEW r \in CalleeSaved
    PROVE  /\ r \notin Values(func) /\ r \in Registers /\ r # ReturnReg /\ r \notin Elements(ArgRegs)
           /\ r \notin UsedCalleeSaved => \A v \in Values(func) : Home(v) # r
  <1>1. WellFormed(func) /\ PlacesTyped
    BY SetupFacts DEF Placed
  <1>2. r \in Registers /\ r # ReturnReg /\ r \notin Elements(ArgRegs) /\ r \notin Nat
    BY RegisterFacts
  <1>3. r \notin Values(func)
    BY <1>1, <1>2, ValueNumbers
  <1>4. \A v \in Values(func) : Home(v) = r => regs[v] = r
    BY <1>1, HomeFacts
  <1> QED BY <1>2, <1>3, <1>4 DEF UsedCalleeSaved

(* After a definition the types hold and the rest is kept.                  *)
LEMMA DefinitionRest ==
    ASSUME Setup, Placed, NEW held, ContentsTyped(held), RestKept(held),
           NEW r \in Values(func) \cup {NoValue}
    PROVE  ContentsTyped(Defined(held, r)) /\ RestKept(Defined(held, r))
  <1>1. CASE r = NoValue
    BY <1>1 DEF Defined
  <1>2. CASE r # NoValue
    <2> DEFINE after == [l \in DOMAIN held |-> IF l = Home(r) THEN {r} ELSE held[l] \ {r}]
    <2>1. Defined(held, r) = after /\ r \in Values(func)
      BY <1>2 DEF Defined
    <2>2. ContentsTyped(after)
      BY <2>1 DEF ContentsTyped
    <2>3. RestKept(after)
      <3> SUFFICES ASSUME NEW x \in CalleeSaved \ UsedCalleeSaved PROVE x \in after[x]
        BY DEF RestKept
      <3>1. x \in held[x]
        BY DEF RestKept
      <3>2. x # r /\ x \in Registers /\ x # Home(r)
        BY <2>1, UnusedApart
      <3>3. x \in DOMAIN held
        BY <3>2 DEF ContentsTyped
      <3> QED BY <3>1, <3>2, <3>3
    <2> HIDE DEF after
    <2> QED BY <2>1, <2>2, <2>3
  <1> QED BY <1>1, <1>2

(* An edge gives the phis of its target their values and disturbs nothing   *)
(* that is live there.                                                      *)
LEMMA EdgeKeeps ==
    ASSUME Setup, Placed, pc[1] \in Reachable(func), ContentsTyped(contents), RestKept(contents),
           Holding(contents, pc[1], Len(Insts(func, pc[1])), FALSE),
           NEW s \in Successors(func, pc[1]),
           NEW after, after = [l \in DOMAIN contents |-> Renamed(s, AfterMoves(s, l))]
    PROVE  /\ s \in Reachable(func)
           /\ Holding(after, s, 0, FALSE) /\ PhisPlaced(after, s, 0)
           /\ ContentsTyped(after) /\ RestKept(after)
  <1> DEFINE p == pc[1]
             last == Len(Insts(func, p))
             Received(phi) == Incoming(phi, p)
             R == {phi.result : phi \in Phis(func, s)}
  <1>1. /\ WellFormed(func) /\ Verified(func) /\ p \in Blocks(func)
        /\ candidates = PreciseCandidates /\ PlacesTyped
    BY SetupFacts, ReachableBlock DEF Placed
  <1>2. s \in Reachable(func) /\ s \in Blocks(func)
    <2>1. {Entry} \in SUBSET Blocks(func)
      BY <1>1, BlocksFinite
    <2>2. Successors(func, p) \ {} \subseteq Reachable(func)
      BY <1>1, <2>1, ReachedAvoidingFacts DEF Reachable
    <2>3. s \in Reachable(func)
      BY <2>2
    <2> QED BY <2>3, ReachableBlock
  <1>3. MovedPhis(s) = Phis(func, s)
    BY <1>2, PhisSeen
  <1>4. ASSUME NEW phi \in Phis(func, s)
        PROVE  /\ phi.result \in Values(func)
               /\ Received(phi) \in Values(func)
               /\ IsConst(func, Received(phi)) \/ Received(phi) \in contents[Home(Received(phi))]
    <2>1. PICK m \in DOMAIN Insts(func, s) : phi = Insts(func, s)[m] /\ IsPhi(Insts(func, s)[m])
      BY DEF Phis
    <2>2. phi.result \in Values(func)
      BY <1>1, <1>2, <2>1, PhiFacts
    <2>3. Received(phi) \in Values(func)
          /\ (IsConst(func, Received(phi)) \/ Received(phi) \in contents[Home(Received(phi))])
      BY ReceivedHeld
    <2> QED BY <2>2, <2>3
  <1>5. \A phi \in Phis(func, s) : Received(phi) \in Loaded(Received(phi))
    BY <1>4 DEF Loaded
  <1>6. \A v \in Values(func) : Loaded(v) \subseteq Values(func) \cup CalleeSaved
    BY <1>1, HomeFacts DEF Loaded, ContentsTyped
  <1>7. /\ DOMAIN contents = Registers \cup Values(func)
        /\ \A l \in DOMAIN contents : contents[l] \subseteq Values(func) \cup CalleeSaved
    BY DEF ContentsTyped
  <1>8. \A l \in DOMAIN contents : AfterMoves(s, l) \subseteq Values(func) \cup CalleeSaved
    <2> SUFFICES ASSUME NEW l \in DOMAIN contents PROVE AfterMoves(s, l) \subseteq Values(func) \cup CalleeSaved
      OBVIOUS
    <2>1. CASE \E phi \in Phis(func, s) : Home(phi.result) = l
      <3> DEFINE f == CHOOSE phi \in Phis(func, s) : Home(phi.result) = l
      <3>1. AfterMoves(s, l) = Loaded(Received(f))
        BY <1>3, <2>1 DEF AfterMoves
      <3>2. f \in Phis(func, s)
        BY <2>1
      <3> HIDE DEF f
      <3> QED BY <1>4, <1>6, <3>1, <3>2
    <2>2. CASE ~\E phi \in Phis(func, s) : Home(phi.result) = l
      BY <1>3, <1>7, <2>2 DEF AfterMoves
    <2> QED BY <2>1, <2>2
  <1>9. \A l \in DOMAIN contents : after[l] =
            (AfterMoves(s, l) \ R) \cup {phi.result : phi \in {q \in Phis(func, s) : Received(q) \in AfterMoves(s, l)}}
    BY <1>3 DEF Renamed
  <1>10. ContentsTyped(after)
    <2>1. \A l \in DOMAIN contents : after[l] \subseteq Values(func) \cup CalleeSaved
      BY <1>4, <1>8, <1>9
    <2>2. DOMAIN after = DOMAIN contents /\ after = [l \in DOMAIN contents |-> after[l]]
      OBVIOUS
    <2> QED BY <1>7, <2>1, <2>2 DEF ContentsTyped
  <1>11. ASSUME NEW phi \in Phis(func, s)
         PROVE  phi.result \in after[Home(phi.result)]
    <2> DEFINE l == Home(phi.result)
               f == CHOOSE q \in Phis(func, s) : Home(q.result) = l
    <2>1. l \in DOMAIN contents
      BY <1>1, <1>4, <1>7, HomeFacts
    <2>2. f \in Phis(func, s) /\ Home(f.result) = l
      OBVIOUS
    <2>3. AfterMoves(s, l) = Loaded(Received(f))
      BY <1>3, <2>2 DEF AfterMoves
    <2>4. f = phi
      <3> HIDE DEF f
      <3> QED BY <1>2, <2>2, PhisApart
    <2> HIDE DEF f
    <2>5. Received(phi) \in AfterMoves(s, l)
      BY <1>5, <2>3, <2>4
    <2> QED BY <1>9, <2>1, <2>5
  <1>12. PhisPlaced(after, s, 0)
    <2>1. \A m \in DOMAIN Insts(func, s) : IsPhi(Insts(func, s)[m]) => Insts(func, s)[m] \in Phis(func, s)
      BY DEF Phis
    <2> QED BY <1>11, <2>1 DEF PhisPlaced
  <1>13. ASSUME NEW v, NEW l \in DOMAIN contents, v \in contents[l], v \notin R,
                \A phi \in Phis(func, s) : Home(phi.result) # l
         PROVE  v \in after[l]
    <2>1. AfterMoves(s, l) = contents[l]
      BY <1>3, <1>13 DEF AfterMoves
    <2> QED BY <1>9, <1>13, <2>1
  <1>14. Holding(after, s, 0, FALSE)
    <2> SUFFICES ASSUME NEW v \in Values(func) \ Made, ~IsConst(func, v), LiveAt(v, s, 0)
                 PROVE  v \in after[Home(v)]
      BY DEF Holding
    <2>1. LiveAt(v, p, last)
      BY <1>1, LiveAlongEdge
    <2>2. v \in contents[Home(v)] /\ Home(v) \in DOMAIN contents
      BY <1>1, <1>7, <2>1, HomeFacts DEF Holding
    <2>3. ASSUME NEW phi \in Phis(func, s)
          PROVE  v # phi.result /\ Home(v) # Home(phi.result)
      <3>1. PICK m \in DOMAIN Insts(func, s) : phi = Insts(func, s)[m] /\ IsPhi(Insts(func, s)[m])
        BY DEF Phis
      <3>2. m \in (0 + 1)..Len(Insts(func, s)) /\ 0 \in 0..m
        <4>1. LET n == Len(Insts(func, s)) IN n \in Nat /\ DOMAIN Insts(func, s) = 1..n
          BY <1>1, <1>2, AllInstsFacts
        <4> QED BY <4>1
      <3>3. v # phi.result
        BY <3>1, <3>2 DEF LiveAt
      <3> QED BY <1>2, <3>1, <3>2, <3>3, PhiSpare
    <2> QED BY <1>13, <2>2, <2>3
  <1>15. RestKept(after)
    <2> SUFFICES ASSUME NEW r \in CalleeSaved \ UsedCalleeSaved PROVE r \in after[r]
      BY DEF RestKept
    <2>1. r \in contents[r]
      BY DEF RestKept
    <2>2. r \notin Values(func) /\ r \in DOMAIN contents /\ \A v \in Values(func) : Home(v) # r
      BY <1>7, UnusedApart
    <2> QED BY <1>4, <1>13, <2>1, <2>2
  <1> QED BY <1>2, <1>10, <1>12, <1>14, <1>15

-----------------------------------------------------------------------------
(* The invariant of the machine.                                            *)

(* While the prologue moves the parameters.                                 *)
ParamsHeld(held, k) ==
    \A j \in DOMAIN func.params :
        func.params[j] \in held[IF j < k THEN Home(func.params[j]) ELSE ArgRegs[j]]

CallAt(b, i) == i \in DOMAIN Insts(func, b) /\ ~SilentAt(b, i) /\ IsCall(Insts(emitted, b)[i])

(* While a call's arguments are loaded: those from number u on are.         *)
Delivered(held, b, i, u) ==
    LET args == Insts(emitted, b)[i].args IN
    /\ CallAt(b, i) /\ u \in 1..(Len(args) + 1)
    /\ \A k \in DOMAIN args : k >= u => args[k] \in held[ArgRegs[k]]

(* About to run instruction i of block b, or its terminator.                *)
InBlock(held, b, i, u) ==
    /\ b \in Reachable(func) /\ i \in 1..(Len(Insts(func, b)) + 1)
    /\ Holding(held, b, i - 1, u # 0) /\ PhisPlaced(held, b, i - 1)
    /\ u # 0 => Delivered(held, b, i, u)

Machine(held, p, u) ==
    /\ ContentsTyped(held) /\ RestKept(held)
    /\ \/ p[1] = 0 /\ p[2] \in 1..(Len(func.params) + 1) /\ u = 0 /\ ParamsHeld(held, p[2])
       \/ InBlock(held, p[1], p[2], u)

Finished(held, p, u) ==
    /\ ContentsTyped(held) /\ p[1] \in Blocks(func) /\ u = 0
    /\ \A r \in CalleeSaved : r \in held[r]
    /\ Elements(Term(emitted, p[1]).args) \subseteq held[ReturnReg]

Allocating ==
    /\ phase \in {"start", "liveness", "color", "local", "done"}
    /\ AllocInv /\ ConservativeInsts
    /\ pc = <<0, 0>> /\ unloaded = 0 /\ saved = << >> /\ ContentsTyped(contents)

Running ==
    /\ phase \in {"run", "returned"}
    /\ Placed /\ saved = [r \in UsedCalleeSaved |-> {r}]
    /\ phase = "run" => Machine(contents, pc, unloaded)
    /\ phase = "returned" => Finished(contents, pc, unloaded)

MachineInv == Setup /\ (Allocating \/ Running)

(* What these say does not move with the step.                              *)
LEMMA MachineStable ==
    ASSUME UNCHANGED fixed
    PROVE  /\ Machine(contents', pc', unloaded') => Machine(contents, pc, unloaded)'
           /\ Finished(contents', pc', unloaded') => Finished(contents, pc, unloaded)'
           /\ Setup => Setup'
           /\ UsedCalleeSaved' = UsedCalleeSaved
  <1>1. UNCHANGED <<emitted, folded, elided, func, candidates, regs, locals>>
    BY DEF fixed, given
  <1>2. /\ \A v, b, i : LiveAt(v, b, i)' <=> LiveAt(v, b, i)
        /\ \A v : Home(v)' = Home(v)
        /\ Made' = Made
    BY FixedStable
  <1>3. UsedCalleeSaved' = UsedCalleeSaved
    BY <1>1 DEF UsedCalleeSaved
  <1>4. \A b, i : SilentAt(b, i)' <=> SilentAt(b, i)
    BY <1>1 DEF SilentAt, Gone
  <1>5. \A b, i : CallAt(b, i)' <=> CallAt(b, i)
    BY <1>1, <1>4 DEF CallAt
  <1>6. ContentsTyped(contents') => ContentsTyped(contents)'
    BY <1>1 DEF ContentsTyped
  <1>7. RestKept(contents') => RestKept(contents)'
    BY <1>3 DEF RestKept
  <1>8. ParamsHeld(contents', pc'[2]) => ParamsHeld(contents, pc[2])'
    BY <1>1, <1>2 DEF ParamsHeld
  <1>9. Holding(contents', pc'[1], pc'[2] - 1, unloaded' # 0)
            => Holding(contents, pc[1], pc[2] - 1, unloaded # 0)'
    BY <1>1, <1>2 DEF Holding
  <1>10. PhisPlaced(contents', pc'[1], pc'[2] - 1) => PhisPlaced(contents, pc[1], pc[2] - 1)'
    BY <1>1, <1>2 DEF PhisPlaced
  <1>11. Delivered(contents', pc'[1], pc'[2], unloaded') => Delivered(contents, pc[1], pc[2], unloaded)'
    BY <1>1, <1>5 DEF Delivered
  <1>12. InBlock(contents', pc'[1], pc'[2], unloaded') => InBlock(contents, pc[1], pc[2], unloaded)'
    BY <1>1, <1>9, <1>10, <1>11 DEF InBlock
  <1>13. Machine(contents', pc', unloaded') => Machine(contents, pc, unloaded)'
    BY <1>1, <1>6, <1>7, <1>8, <1>12 DEF Machine
  <1>14. Finished(contents', pc', unloaded') => Finished(contents, pc, unloaded)'
    BY <1>1, <1>6 DEF Finished
  <1>15. Setup => Setup'
    BY <1>1 DEF Setup
  <1> QED BY <1>3, <1>13, <1>14, <1>15

LEMMA RunsOn ==
    ASSUME Setup, Running, UNCHANGED fixed, saved' = saved, phase' = "run",
           Machine(contents', pc', unloaded')
    PROVE  MachineInv'
  <1>1. Setup' /\ UsedCalleeSaved' = UsedCalleeSaved /\ Machine(contents, pc, unloaded)'
    BY MachineStable
  <1>2. Placed'
    BY PlacedStable DEF Running
  <1>3. saved' = [r \in UsedCalleeSaved' |-> {r}]
    BY <1>1 DEF Running
  <1>4. Running'
    BY <1>1, <1>2, <1>3 DEF Running
  <1> QED BY <1>1, <1>4 DEF MachineInv

(* Where the machine is inside a block.                                     *)
LEMMA PlaceInBody ==
    ASSUME Setup, Running, InBody
    PROVE  /\ ContentsTyped(contents) /\ RestKept(contents) /\ Placed
           /\ InBlock(contents, pc[1], pc[2], unloaded)
           /\ pc[1] \in Reachable(func) /\ pc[1] \in Blocks(func)
           /\ Len(Insts(func, pc[1])) \in Nat /\ pc[2] \in 1..(Len(Insts(func, pc[1])) + 1)
           /\ DOMAIN Insts(func, pc[1]) = 1..Len(Insts(func, pc[1]))
           /\ Len(Insts(emitted, pc[1])) = Len(Insts(func, pc[1]))
           /\ AtInst <=> pc[2] \in DOMAIN Insts(func, pc[1])
           /\ AtTerminator => pc[2] = Len(Insts(func, pc[1])) + 1 /\ unloaded = 0
           /\ AtInst => (Silent <=> SilentAt(pc[1], pc[2]))
  <1>1. pc[1] \in Blocks(func) /\ pc[1] # 0 /\ phase = "run"
    <2>1. WellFormed(func) /\ pc[1] \in Blocks(func) /\ phase = "run"
      BY SetupFacts DEF InBody
    <2>2. Blocks(func) = 1..Len(func.blocks)
      BY <2>1, FuncFacts
    <2> QED BY <2>1, <2>2
  <1>2. Machine(contents, pc, unloaded) /\ Placed
    BY <1>1 DEF Running
  <1>3. ContentsTyped(contents) /\ RestKept(contents) /\ InBlock(contents, pc[1], pc[2], unloaded)
    BY <1>1, <1>2 DEF Machine
  <1>4. pc[1] \in Reachable(func) /\ pc[2] \in 1..(Len(Insts(func, pc[1])) + 1)
    BY <1>3 DEF InBlock
  <1>5. /\ Len(Insts(func, pc[1])) \in Nat /\ DOMAIN Insts(func, pc[1]) = 1..Len(Insts(func, pc[1]))
        /\ Len(Insts(emitted, pc[1])) = Len(Insts(func, pc[1]))
    BY <1>1, BlockSeen
  <1>6. AtInst <=> pc[2] \in DOMAIN Insts(func, pc[1])
    BY <1>4, <1>5 DEF AtInst
  <1>7. AtTerminator => pc[2] = Len(Insts(func, pc[1])) + 1
    BY <1>4, <1>5 DEF AtTerminator
  <1>8. unloaded # 0 => pc[2] \in DOMAIN Insts(func, pc[1])
    BY <1>3 DEF InBlock, Delivered, CallAt
  <1>9. AtTerminator => unloaded = 0
    BY <1>5, <1>7, <1>8
  <1>10. Silent <=> SilentAt(pc[1], pc[2])
    BY DEF Silent, SilentAt, Here, Gone
  <1> QED BY <1>1, <1>2, <1>3, <1>4, <1>5, <1>6, <1>7, <1>9, <1>10

-----------------------------------------------------------------------------
(* The invariant holds initially and is kept by every step.                 *)

LEMMA MachineStarts == MachineInit => MachineInv
  <1> SUFFICES ASSUME MachineInit PROVE MachineInv
    OBVIOUS
  <1>1. Setup
    BY DEF MachineInit, Setup
  <1>2. func \in Funcs
    BY <1>1, SetupFacts
  <1>3. Init
    BY <1>2 DEF MachineInit, Init
  <1>4. IInv /\ Origin /\ NeededOnly
    BY <1>3, InitInvariant, OriginInit
  <1>5. ExclusiveRegs /\ LocalsApart /\ ConservativeInsts /\ phase = "start"
    BY <1>3 DEF Init, Unallocated, ExclusiveRegs, LocalsApart, ConservativeInsts
  <1>6. pc = <<0, 0>> /\ unloaded = 0 /\ saved = << >> /\ ContentsTyped(contents)
    BY DEF MachineInit, ContentsTyped
  <1> QED BY <1>1, <1>4, <1>5, <1>6 DEF MachineInv, Allocating, AllocInv

LEMMA AllocateStep == MachineInv /\ Allocate => MachineInv'
  <1> SUFFICES ASSUME MachineInv, Allocate PROVE MachineInv'
    OBVIOUS
  <1>0. [Next]_vars /\ Next /\ UNCHANGED machineVars
    BY DEF Allocate
  <1>1. phase \notin {"done", "run", "returned"}
    BY <1>0 DEF Allocate, Next, Start, Analyse, GiveUp, BuildGraph, ColorNext, ColorEnd,
                AssignConservatively, AssignLocals, Done
  <1>2. Allocating /\ Setup
    BY <1>1 DEF MachineInv, Running
  <1>3. IInv'
    BY <1>0, <1>2, InvariantStep DEF Allocating, AllocInv
  <1>4. Origin' /\ NeededOnly'
    BY <1>0, <1>2, OriginStep DEF Allocating, AllocInv
  <1>5. ExclusiveRegs'
    BY <1>0, <1>2, ExclusiveStep DEF Allocating, AllocInv
  <1>6. LocalsApart'
    BY <1>0, <1>2, LocalsStep DEF Allocating, AllocInv
  <1>7. ConservativeInsts'
    BY <1>0, <1>2, ConservativeStep DEF Allocating, AllocInv
  <1>8. func' = func
    BY <1>0 DEF Next, Start, Analyse, GiveUp, BuildGraph, ColorNext, ColorEnd, AssignConservatively,
                AssignLocals, Done, vars, given
  <1>9. Setup'
    BY <1>0, <1>2, <1>8 DEF Setup, machineVars
  <1>10. phase' \in {"start", "liveness", "color", "local", "done"}
    BY <1>3 DEF IInv, TypeOK
  <1>11. pc' = <<0, 0>> /\ unloaded' = 0 /\ saved' = << >> /\ ContentsTyped(contents)'
    BY <1>0, <1>2, <1>8 DEF Allocating, machineVars, ContentsTyped
  <1> QED BY <1>3, <1>4, <1>5, <1>6, <1>7, <1>9, <1>10, <1>11 DEF MachineInv, Allocating, AllocInv

LEMMA PrologueStep == MachineInv /\ Prologue => MachineInv'
  <1> SUFFICES ASSUME MachineInv, Prologue PROVE MachineInv'
    OBVIOUS
  <1> DEFINE arrived(l) == {func.params[k] : k \in {j \in DOMAIN func.params : ArgRegs[j] = l}}
  <1>1. /\ phase = "done" /\ phase' = "run" /\ pc' = <<0, 1>> /\ UNCHANGED fixed /\ unloaded' = unloaded
        /\ contents' = [l \in DOMAIN contents |-> IF l \in CalleeSaved THEN {l} ELSE arrived(l)]
        /\ saved' = [r \in UsedCalleeSaved |-> {r}]
    BY DEF Prologue
  <1>2. Setup /\ Allocating
    BY <1>1 DEF MachineInv, Running
  <1>3. Placed
    BY <1>1, <1>2, AllocationPlaces DEF Allocating
  <1>4. /\ Len(func.params) \in Nat /\ Len(ArgRegs) \in Nat /\ Len(func.params) <= Len(ArgRegs)
        /\ func.params \in Seq(Values(func)) /\ ArgRegs \in Seq(Elements(ArgRegs))
    BY <1>2, SetupFacts, ArgAssumption DEF WellFormed
  <1>5. DOMAIN contents = Registers \cup Values(func)
    BY <1>2 DEF Allocating, ContentsTyped
  <1>6. \A l : arrived(l) \subseteq Values(func)
    BY <1>4
  <1>7. ContentsTyped(contents')
    <2> HIDE DEF arrived
    <2> QED BY <1>1, <1>5, <1>6 DEF ContentsTyped
  <1>8. RestKept(contents')
    <2> HIDE DEF arrived
    <2>1. CalleeSaved \subseteq DOMAIN contents
      BY <1>5, RegisterFacts
    <2> QED BY <1>1, <2>1 DEF RestKept
  <1>9. ParamsHeld(contents', 1)
    <2> SUFFICES ASSUME NEW j \in DOMAIN func.params PROVE func.params[j] \in contents'[ArgRegs[j]]
      BY <1>4 DEF ParamsHeld
    <2>1. j \in DOMAIN ArgRegs
      BY <1>4
    <2>2. ArgRegs[j] \in Elements(ArgRegs)
      BY <2>1 DEF Elements
    <2>3. ArgRegs[j] \in DOMAIN contents /\ ArgRegs[j] \notin CalleeSaved
      BY <1>5, <2>2, RegisterFacts
    <2>4. func.params[j] \in arrived(ArgRegs[j])
      OBVIOUS
    <2> HIDE DEF arrived
    <2> QED BY <1>1, <2>3, <2>4
  <1>10. Machine(contents', pc', unloaded')
    BY <1>1, <1>2, <1>4, <1>7, <1>8, <1>9 DEF Machine, Allocating
  <1>11. Setup' /\ UsedCalleeSaved' = UsedCalleeSaved /\ Machine(contents, pc, unloaded)'
    BY <1>1, <1>2, <1>10, MachineStable
  <1>12. Placed'
    BY <1>1, <1>3, PlacedStable
  <1>13. Running'
    BY <1>1, <1>11, <1>12 DEF Running
  <1> QED BY <1>11, <1>13 DEF MachineInv

LEMMA MoveParamStep == MachineInv /\ MoveParam => MachineInv'
  <1> SUFFICES ASSUME MachineInv, MoveParam PROVE MachineInv'
    OBVIOUS
  <1> DEFINE k == pc[2]
             p == func.params[k]
  <1>1. phase = "run" /\ phase' = "run" /\ pc[1] = 0 /\ UNCHANGED <<fixed, unloaded, saved>>
    BY DEF MoveParam
  <1>2. Setup /\ Running
    BY <1>1 DEF MachineInv, Allocating
  <1>3. /\ WellFormed(func) /\ Verified(func) /\ Placed /\ PlacesTyped /\ ParamsSpare
        /\ candidates = PreciseCandidates /\ Machine(contents, pc, unloaded)
    BY <1>1, <1>2, SetupFacts DEF Running, Placed
  <1>4. /\ ContentsTyped(contents) /\ RestKept(contents) /\ k \in 1..(Len(func.params) + 1)
        /\ unloaded = 0 /\ ParamsHeld(contents, k)
    <2>1. 0 \notin Reachable(func)
      <3>1. 0 \notin Blocks(func)
        BY <1>3, FuncFacts
      <3> QED BY <1>2, <3>1, ReachableBlock
    <2> QED BY <1>1, <1>3, <2>1 DEF Machine, InBlock
  <1>5. /\ Len(func.params) \in Nat /\ Len(ArgRegs) \in Nat /\ Len(func.params) <= Len(ArgRegs)
        /\ func.params \in Seq(Values(func)) /\ DOMAIN func.params = 1..Len(func.params)
        /\ DOMAIN ArgRegs = 1..Len(ArgRegs)
    BY <1>2, SetupFacts, ArgAssumption DEF WellFormed
  <1>6. CASE k <= Len(func.params)
    <2>1. pc' = <<0, k + 1>> /\ contents' = [contents EXCEPT ![Home(p)] = contents[ArgRegs[k]]]
      BY <1>6 DEF MoveParam
    <2>2. k \in DOMAIN func.params /\ k \in DOMAIN ArgRegs /\ k \in Nat
      BY <1>4, <1>5, <1>6
    <2>3. p \in Values(func) /\ p \in Elements(func.params) /\ ArgRegs[k] \in Elements(ArgRegs)
      BY <1>5, <2>2 DEF Elements
    <2>4. Home(p) \notin Elements(ArgRegs)
      BY <1>3, <2>3 DEF ParamsSpare
    <2>5. Home(p) \in Registers \cup Values(func) /\ ArgRegs[k] \in Registers
      BY <1>3, <2>3, HomeFacts, RegisterFacts
    <2>6. p \in contents[ArgRegs[k]]
      BY <1>4, <2>2 DEF ParamsHeld
    <2> HIDE DEF k, p
    <2>7. ContentsTyped(contents')
      BY <1>4, <2>1, <2>5 DEF ContentsTyped
    <2>8. RestKept(contents')
      <3> SUFFICES ASSUME NEW r \in CalleeSaved \ UsedCalleeSaved PROVE r \in contents'[r]
        BY DEF RestKept
      <3>1. r \in contents[r] /\ r # Home(p)
        BY <1>2, <1>3, <1>4, <2>3, UnusedApart DEF RestKept
      <3> QED BY <2>1, <3>1
    <2>9. ParamsHeld(contents', k + 1)
      <3> SUFFICES ASSUME NEW j \in DOMAIN func.params
                   PROVE  func.params[j] \in contents'[IF j < k + 1 THEN Home(func.params[j]) ELSE ArgRegs[j]]
        BY DEF ParamsHeld
      <3> DEFINE q == func.params[j]
      <3>1. /\ q \in Values(func) /\ q \in Elements(func.params) /\ ArgRegs[j] \in Elements(ArgRegs)
            /\ j \in Nat
        BY <1>5 DEF Elements
      <3>2. Home(q) \in DOMAIN contents /\ ArgRegs[j] \in DOMAIN contents /\ Home(p) \in DOMAIN contents
        BY <1>3, <1>4, <2>5, <3>1, HomeFacts, RegisterFacts DEF ContentsTyped
      <3>3. q \in contents[IF j < k THEN Home(q) ELSE ArgRegs[j]]
        BY <1>4 DEF ParamsHeld
      <3>4. k = j => q = p
        BY DEF p
      <3> HIDE DEF q
      <3>5. CASE j < k
        <4>1. Home(q) = Home(p) => q = p
          BY <1>3, <2>3, <3>1 DEF ParamsSpare
        <4>2. q \in contents'[Home(q)]
          BY <2>1, <2>6, <3>2, <3>3, <3>5, <4>1
        <4>3. j < k + 1
          BY <2>2, <3>1, <3>5
        <4> QED BY <4>2, <4>3 DEF q
      <3>6. CASE j = k
        <4>1. q \in contents'[Home(q)]
          BY <2>1, <2>6, <3>2, <3>4, <3>6
        <4>2. j < k + 1
          BY <2>2, <3>6
        <4> QED BY <4>1, <4>2 DEF q
      <3>7. CASE j > k
        <4>1. ~(j < k) /\ ~(j < k + 1)
          BY <2>2, <3>1, <3>7
        <4>2. ArgRegs[j] # Home(p)
          BY <2>4, <3>1
        <4>3. q \in contents'[ArgRegs[j]]
          BY <2>1, <3>2, <3>3, <4>1, <4>2
        <4> QED BY <4>1, <4>3 DEF q
      <3> QED BY <2>2, <3>1, <3>5, <3>6, <3>7
    <2>10. Machine(contents', pc', unloaded')
      <3>1. k + 1 \in 1..(Len(func.params) + 1)
        BY <1>5, <1>6, <2>2
      <3> QED BY <1>1, <1>4, <2>1, <2>7, <2>8, <2>9, <3>1 DEF Machine
    <2> QED BY <1>1, <1>2, <2>10, RunsOn
  <1>7. CASE ~(k <= Len(func.params))
    <2>1. pc' = <<Entry, 1>> /\ contents' = contents
      BY <1>7 DEF MoveParam
    <2>2. k = Len(func.params) + 1
      BY <1>4, <1>5, <1>7
    <2>3. \A v \in Elements(func.params) : v \in contents[Home(v)]
      <3>1. \A j \in DOMAIN func.params : j < k
        BY <1>5, <2>2
      <3> HIDE DEF k
      <3> QED BY <1>4, <3>1 DEF ParamsHeld, Elements
    <2>4. Holding(contents, Entry, 1 - 1, FALSE)
      BY <1>3, <2>3, LiveOnEntry DEF Holding
    <2>5. Entry \in Blocks(func) /\ Entry \in Reachable(func)
      <3>1. Entry \in Blocks(func) /\ {Entry} \in SUBSET Blocks(func)
        BY <1>3, BlocksFinite
      <3> QED BY <1>3, <3>1, ReachedAvoidingFacts DEF Reachable
    <2>6. PhisPlaced(contents, Entry, 1 - 1)
      BY <1>3, <2>5, PhiFacts DEF PhisPlaced
    <2>7. 1 \in 1..(Len(Insts(func, Entry)) + 1)
      <3>1. Len(Insts(func, Entry)) \in Nat
        BY <1>2, <2>5, BlockSeen
      <3> QED BY <3>1
    <2>8. InBlock(contents, Entry, 1, 0)
      BY <2>4, <2>5, <2>6, <2>7 DEF InBlock
    <2>9. Machine(contents', pc', unloaded')
      BY <1>1, <1>4, <2>1, <2>8 DEF Machine
    <2> QED BY <1>1, <1>2, <2>9, RunsOn
  <1> QED BY <1>6, <1>7

(* The step from one instruction to the next.                               *)
LEMMA NextInstruction ==
    ASSUME Setup, Running, AtInst, UNCHANGED fixed, saved' = saved, phase' = phase,
           ContentsTyped(contents'), RestKept(contents'),
           Holding(contents', pc[1], pc[2], FALSE), PhisPlaced(contents', pc[1], pc[2]),
           pc' = <<pc[1], pc[2] + 1>>, unloaded' = 0
    PROVE  MachineInv'
  <1> DEFINE b == pc[1]
             i == pc[2]
  <1>1. /\ b \in Reachable(func) /\ Len(Insts(func, b)) \in Nat /\ i \in DOMAIN Insts(func, b)
        /\ DOMAIN Insts(func, b) = 1..Len(Insts(func, b)) /\ phase = "run"
    BY PlaceInBody DEF AtInst, InBody
  <1>2. i + 1 \in 1..(Len(Insts(func, b)) + 1) /\ (i + 1) - 1 = i
    BY <1>1
  <1> HIDE DEF b, i
  <1>3. pc'[1] = b /\ pc'[2] = i + 1 /\ (unloaded' # 0) = FALSE
    BY DEF b, i
  <1>4. Holding(contents', pc'[1], pc'[2] - 1, unloaded' # 0)
    <2>1. Holding(contents', b, i, FALSE)
      BY DEF b, i
    <2>2. pc'[2] - 1 = i
      BY <1>2, <1>3
    <2> QED BY <1>3, <2>1, <2>2 DEF Holding
  <1>5. PhisPlaced(contents', pc'[1], pc'[2] - 1)
    BY <1>2, <1>3 DEF b, i
  <1>6. InBlock(contents', pc'[1], pc'[2], unloaded')
    BY <1>1, <1>2, <1>3, <1>4, <1>5 DEF InBlock
  <1>7. Machine(contents', pc', unloaded')
    BY <1>6 DEF Machine
  <1> QED BY <1>1, <1>7, RunsOn

(* No phi follows an instruction with code.                                 *)
LEMMA NoPhiFollows ==
    ASSUME Setup, NEW b \in Blocks(func), NEW i \in DOMAIN Insts(func, b), ~SilentAt(b, i),
           NEW m \in DOMAIN Insts(func, b), m > i - 1
    PROVE  ~IsPhi(Insts(func, b)[m])
  <1>1. Verified(func) /\ Insts(func, b)[i].op \notin {"phi", "nop"}
    BY SetupFacts, InstSeen DEF SilentAt, IsPhi
  <1>2. /\ Len(Insts(func, b)) \in Nat /\ DOMAIN Insts(func, b) = 1..Len(Insts(func, b))
    BY BlockSeen
  <1>3. i \in 1..m
    BY <1>2
  <1> QED BY <1>1, <1>3 DEF Verified, PhisLeadBlocks

(* What an instruction's operands and result are to the allocators.         *)
LEMMA InstHere ==
    ASSUME Setup, Running, AtInst, ~Silent
    PROVE  LET b == pc[1]
               i == pc[2]
           IN  /\ Here = Insts(emitted, b)[i] /\ Here \in InstShape
               /\ ~SilentAt(b, i) /\ i \in DOMAIN Insts(func, b) /\ i \in DOMAIN AllInsts(b)
               /\ AllInsts(b)[i] = Insts(func, b)[i]
               /\ Insts(func, b)[i] = Addressed(folded, Here)
               /\ Insts(func, b)[i].result = Here.result /\ Insts(func, b)[i].op = Here.op
               /\ IsCall(Here) => Insts(func, b)[i] = Here
               /\ ~IsPhi(Insts(func, b)[i])
               /\ Here.result \in Values(func) \cup {NoValue}
  <1> DEFINE b == pc[1]
             i == pc[2]
  <1>1. b \in Blocks(func) /\ i \in DOMAIN Insts(func, b) /\ ~SilentAt(b, i)
    BY PlaceInBody DEF AtInst
  <1>2. Here = Insts(emitted, b)[i]
    BY DEF Here
  <1>3. Here.result \notin Gone /\ ~IsPhi(Here)
    BY <1>1, <1>2 DEF SilentAt
  <1>4. /\ Here \in InstShape
        /\ Insts(func, b)[i] = Addressed(folded, Here)
        /\ Insts(func, b)[i].result = Here.result /\ Insts(func, b)[i].op = Here.op
        /\ ~IsAccess(Here) => Insts(func, b)[i] = Here
    BY <1>1, <1>2, <1>3, InstSeen
  <1>5. IsCall(Here) => ~IsAccess(Here)
    BY DEF IsCall, IsAccess
  <1>6. AllInsts(b)[i] = Insts(func, b)[i] /\ i \in DOMAIN AllInsts(b)
    <2>1. WellFormed(func)
      BY SetupFacts
    <2>2. LET last == Len(Insts(func, b)) IN
          /\ last \in Nat /\ DOMAIN Insts(func, b) = 1..last /\ DOMAIN AllInsts(b) = 1..(last + 1)
          /\ \A j \in 1..last : AllInsts(b)[j] = Insts(func, b)[j]
      BY <1>1, <2>1, AllInstsFacts
    <2> QED BY <1>1, <2>2
  <1>7. Here.result \in Values(func) \cup {NoValue}
    BY <1>1, <1>4, SetupFacts, ResultFacts
  <1> QED BY <1>1, <1>2, <1>3, <1>4, <1>5, <1>6, <1>7 DEF IsPhi

LEMMA SkipStep == MachineInv /\ Skip => MachineInv'
  <1> SUFFICES ASSUME MachineInv, Skip PROVE MachineInv'
    OBVIOUS
  <1> DEFINE b == pc[1]
             i == pc[2]
  <1>1. AtInst /\ Silent /\ pc' = <<b, i + 1>> /\ UNCHANGED <<fixed, phase, unloaded, contents, saved>>
    BY DEF Skip
  <1>2. Setup /\ Running /\ InBody
    BY <1>1 DEF MachineInv, Allocating, AtInst, InBody
  <1>3. /\ ContentsTyped(contents) /\ RestKept(contents) /\ InBlock(contents, b, i, unloaded)
        /\ b \in Reachable(func) /\ i \in DOMAIN Insts(func, b) /\ SilentAt(b, i)
    BY <1>1, <1>2, PlaceInBody
  <1> HIDE DEF b, i
  <1>4. unloaded = 0
    BY <1>3 DEF InBlock, Delivered, CallAt
  <1>5. Holding(contents, b, i - 1, FALSE) /\ PhisPlaced(contents, b, i - 1)
    BY <1>3, <1>4 DEF InBlock, Holding
  <1>6. Holding(contents, b, i, FALSE) /\ PhisPlaced(contents, b, i)
    BY <1>2, <1>3, <1>5, SilentKeeps
  <1> QED BY <1>1, <1>2, <1>3, <1>4, <1>6, NextInstruction DEF b, i

LEMMA ExecuteStep == MachineInv /\ Execute => MachineInv'
  <1> SUFFICES ASSUME MachineInv, Execute PROVE MachineInv'
    OBVIOUS
  <1> DEFINE b == pc[1]
             i == pc[2]
             r == Here.result
             mid == [contents EXCEPT ![ReturnReg] = {}]
  <1>1. /\ AtInst /\ ~Silent /\ ~IsCall(Here) /\ pc' = <<b, i + 1>> /\ contents' = Defined(mid, r)
        /\ UNCHANGED <<fixed, phase, unloaded, saved>>
    BY DEF Execute
  <1>2. Setup /\ Running /\ InBody
    BY <1>1 DEF MachineInv, Allocating, AtInst, InBody
  <1>3. /\ ContentsTyped(contents) /\ RestKept(contents) /\ InBlock(contents, b, i, unloaded) /\ Placed
        /\ b \in Reachable(func) /\ b \in Blocks(func) /\ i \in DOMAIN Insts(func, b) /\ ~SilentAt(b, i)
    BY <1>1, <1>2, PlaceInBody
  <1>4. /\ Here = Insts(emitted, b)[i] /\ Insts(func, b)[i].result = r /\ r \in Values(func) \cup {NoValue}
    BY <1>1, <1>2, InstHere
  <1> HIDE DEF b, i, r
  <1>5. unloaded = 0
    BY <1>1, <1>3, <1>4 DEF InBlock, Delivered, CallAt
  <1>6. Holding(contents, b, i - 1, FALSE)
    BY <1>3, <1>5 DEF InBlock, Holding
  <1>7. /\ ContentsTyped(mid) /\ RestKept(mid)
    <2>1. ReturnReg \in Registers /\ ReturnReg \notin CalleeSaved
      BY RegisterFacts
    <2>2. ContentsTyped(mid)
      BY <1>3, <2>1 DEF ContentsTyped
    <2>3. RestKept(mid)
      <3>1. \A l : l # ReturnReg => mid[l] = contents[l]
        BY <1>3 DEF ContentsTyped
      <3> HIDE DEF mid
      <3> QED BY <1>3, <2>1, <3>1 DEF RestKept
    <2> QED BY <2>2, <2>3
  <1>8. ASSUME NEW v \in Values(func) \ Made, ~IsConst(func, v), LiveAt(v, b, i), v # r
        PROVE  v \in mid[Home(v)]
    <2>1. LiveAt(v, b, i - 1)
      BY <1>2, <1>3, <1>4, <1>8, SetupFacts, LiveBackward
    <2>2. v \in contents[Home(v)]
      BY <1>6, <1>8, <2>1 DEF Holding
    <2>3. Home(v) # ReturnReg
      BY <1>2, <1>3, SetupFacts, HomeFacts DEF Placed
    <2> QED BY <2>2, <2>3
  <1>9. DOMAIN mid = Registers \cup Values(func)
    BY <1>7 DEF ContentsTyped
  <1> HIDE DEF mid
  <1>10. r = Insts(emitted, b)[i].result
    BY <1>4 DEF r
  <1>11. Holding(contents', b, i, FALSE) /\ PhisPlaced(contents', b, i)
    BY <1>1, <1>2, <1>3, <1>8, <1>9, <1>10, DefinitionKeeps
  <1>12. ContentsTyped(contents') /\ RestKept(contents')
    BY <1>1, <1>2, <1>3, <1>4, <1>7, DefinitionRest
  <1> QED BY <1>1, <1>2, <1>5, <1>11, <1>12, NextInstruction DEF b, i

LEMMA BeginCallStep == MachineInv /\ BeginCall => MachineInv'
  <1> SUFFICES ASSUME MachineInv, BeginCall PROVE MachineInv'
    OBVIOUS
  <1> DEFINE b == pc[1]
             i == pc[2]
             n == Len(Here.args)
  <1>1. /\ AtInst /\ ~Silent /\ IsCall(Here) /\ unloaded = 0 /\ unloaded' = n + 1
        /\ UNCHANGED <<fixed, phase, pc, contents, saved>>
    BY DEF BeginCall
  <1>2. Setup /\ Running /\ InBody /\ phase = "run"
    BY <1>1 DEF MachineInv, Allocating, AtInst, InBody
  <1>3. /\ ContentsTyped(contents) /\ RestKept(contents) /\ InBlock(contents, b, i, unloaded)
        /\ i \in DOMAIN Insts(func, b) /\ ~SilentAt(b, i)
    BY <1>1, <1>2, PlaceInBody
  <1>4. Here = Insts(emitted, b)[i] /\ n \in Nat /\ DOMAIN Here.args = 1..n
    <2>1. Here = Insts(emitted, b)[i] /\ Here \in InstShape
      BY <1>1, <1>2, InstHere
    <2>2. Here.args \in Seq(Nat)
      BY <2>1 DEF InstShape
    <2> QED BY <2>1, <2>2
  <1>5. CallAt(b, i)
    BY <1>1, <1>3, <1>4 DEF CallAt
  <1>6. n + 1 # 0 /\ n + 1 \in 1..(n + 1) /\ \A k \in 1..n : ~(k >= n + 1)
    BY <1>4
  <1> HIDE DEF b, i
  <1>7. Delivered(contents, b, i, n + 1)
    BY <1>4, <1>5, <1>6 DEF Delivered
  <1>8. Holding(contents, b, i - 1, n + 1 # 0)
    BY <1>1, <1>3 DEF InBlock, Holding
  <1> HIDE DEF n
  <1>9. InBlock(contents, b, i, n + 1)
    BY <1>3, <1>7, <1>8 DEF InBlock
  <1>10. Machine(contents', pc', unloaded')
    BY <1>1, <1>3, <1>9 DEF Machine, b, i
  <1> QED BY <1>1, <1>2, <1>10, RunsOn

(* Where a call's arguments are being loaded.                               *)
LEMMA LoadingFacts ==
    ASSUME Setup, Running, InBody, AtInst, unloaded # 0
    PROVE  LET b == pc[1]
               i == pc[2]
               n == Len(Here.args)
           IN  /\ ~Silent /\ IsCall(Here) /\ CallAt(b, i) /\ Delivered(contents, b, i, unloaded)
               /\ Here = Insts(emitted, b)[i] /\ Insts(func, b)[i] = Here
               /\ n \in Nat /\ DOMAIN Here.args = 1..n /\ unloaded \in 1..(n + 1) /\ n <= Len(ArgRegs)
               /\ \A k \in DOMAIN Here.args :
                     /\ Here.args[k] \in Values(func)
                     /\ IsConst(func, Here.args[k]) \/ Here.args[k] \in contents[Home(Here.args[k])]
  <1> DEFINE b == pc[1]
             i == pc[2]
             n == Len(Here.args)
  <1>1. /\ InBlock(contents, b, i, unloaded) /\ Placed /\ b \in Reachable(func) /\ b \in Blocks(func)
        /\ Silent <=> SilentAt(b, i)
    BY PlaceInBody
  <1>2. Delivered(contents, b, i, unloaded) /\ Holding(contents, b, i - 1, unloaded # 0)
    BY <1>1 DEF InBlock
  <1>3. CallAt(b, i) /\ Here = Insts(emitted, b)[i] /\ unloaded \in 1..(n + 1)
    BY <1>2 DEF Delivered, CallAt, Here
  <1>4. ~Silent /\ IsCall(Here) /\ i \in DOMAIN Insts(func, b)
    BY <1>1, <1>3 DEF CallAt
  <1>5. /\ Insts(func, b)[i] = Here /\ Here \in InstShape /\ i \in DOMAIN AllInsts(b)
        /\ AllInsts(b)[i] = Here /\ ~IsPhi(Here)
    BY <1>4, InstHere
  <1>6. n \in Nat /\ DOMAIN Here.args = 1..n
    <2>1. Here.args \in Seq(Nat)
      BY <1>5 DEF InstShape
    <2> QED BY <2>1
  <1>7. n <= Len(ArgRegs)
    <2> DEFINE s == <<b, i>>
    <2>1. b \in Blocks(emitted) /\ i \in DOMAIN Insts(emitted, b)
      BY <1>1, <1>4, BlockSeen
    <2>2. s \in Sites(emitted) /\ s[1] = b /\ s[2] = i
      BY <2>1 DEF Sites
    <2> HIDE DEF s
    <2>3. Compilable(emitted)
      BY SourceAssumption DEF Setup
    <2>4. IsCall(Insts(emitted, s[1])[s[2]]) => Len(Insts(emitted, s[1])[s[2]].args) <= Len(ArgRegs)
      BY <2>2, <2>3 DEF Compilable
    <2> QED BY <1>3, <1>4, <2>2, <2>4
  <1>8. ASSUME NEW k \in DOMAIN Here.args
        PROVE  /\ Here.args[k] \in Values(func)
               /\ IsConst(func, Here.args[k]) \/ Here.args[k] \in contents[Home(Here.args[k])]
    <2> DEFINE a == Here.args[k]
    <2>1. a \in Uses(AllInsts(b)[i])
      BY <1>5 DEF Uses, Elements
    <2>2. a \notin Made
      BY <1>1, <1>4, <1>5, <2>1, MadeNotRead
    <2>3. Home(a) \notin Elements(ArgRegs)
      <3> DEFINE s == <<b, i>>
      <3>1. s \in CallSites /\ s[1] = b /\ s[2] = i
        BY <1>1, <1>4, <1>5 DEF CallSites, Sites
      <3> HIDE DEF s
      <3>2. Insts(func, s[1])[s[2]] = AllInsts(b)[i]
        BY <1>5, <3>1
      <3> QED BY <1>1, <2>1, <3>1, <3>2 DEF Placed, OperandsSpare
    <2> HIDE DEF a, b, i
    <2>4. a \in Values(func) /\ (IsConst(func, a) \/ a \in contents[Home(a)])
      BY <1>1, <1>2, <1>5, <2>1, <2>2, <2>3, ReadHeld
    <2> QED BY <2>4 DEF a
  <1> QED BY <1>2, <1>3, <1>4, <1>5, <1>6, <1>7, <1>8

LEMMA LoadArgumentStep == MachineInv /\ LoadArgument => MachineInv'
  <1> SUFFICES ASSUME MachineInv, LoadArgument PROVE MachineInv'
    OBVIOUS
  <1> DEFINE b == pc[1]
             i == pc[2]
             n == Len(Here.args)
             k == unloaded - 1
             value == Loaded(Here.args[k])
  <1>1. /\ AtInst /\ unloaded > 1 /\ contents' = [contents EXCEPT ![ArgRegs[k]] = value] /\ unloaded' = k
        /\ UNCHANGED <<fixed, phase, pc, saved>>
    BY DEF LoadArgument
  <1>2. Setup /\ Running /\ InBody /\ phase = "run"
    BY <1>1 DEF MachineInv, Allocating, AtInst, InBody
  <1>3. /\ ContentsTyped(contents) /\ RestKept(contents) /\ InBlock(contents, b, i, unloaded) /\ Placed
        /\ b \in Reachable(func) /\ b \in Blocks(func)
    BY <1>2, PlaceInBody
  <1>4. unloaded # 0
    <2>1. unloaded = 0 => ~(unloaded > 1)
      OBVIOUS
    <2> QED BY <1>1, <2>1
  <1>5. /\ CallAt(b, i) /\ Delivered(contents, b, i, unloaded) /\ Here = Insts(emitted, b)[i]
        /\ n \in Nat /\ DOMAIN Here.args = 1..n /\ unloaded \in 1..(n + 1) /\ n <= Len(ArgRegs)
        /\ \A j \in DOMAIN Here.args :
              /\ Here.args[j] \in Values(func)
              /\ IsConst(func, Here.args[j]) \/ Here.args[j] \in contents[Home(Here.args[j])]
    BY <1>1, <1>2, <1>4, LoadingFacts
  <1>6. k \in DOMAIN Here.args /\ k \in 1..(n + 1) /\ k # 0
    BY <1>1, <1>5
  <1>7. /\ DOMAIN ArgRegs = 1..Len(ArgRegs) /\ Len(ArgRegs) \in Nat
        /\ \A j \in DOMAIN Here.args : j \in DOMAIN ArgRegs /\ ArgRegs[j] \in Elements(ArgRegs)
    <2>1. DOMAIN ArgRegs = 1..Len(ArgRegs) /\ Len(ArgRegs) \in Nat
      BY ArgAssumption
    <2> HIDE DEF n
    <2>2. \A j \in 1..n : j \in DOMAIN ArgRegs
      BY <1>5, <2>1
    <2> QED BY <1>5, <2>1, <2>2 DEF Elements
  <1> DEFINE reg == ArgRegs[k]
             a == Here.args[k]
  <1>8. a \in Values(func) /\ a \in value
    BY <1>5, <1>6 DEF Loaded
  <1>9. value \subseteq Values(func) \cup CalleeSaved
    <2>1. Home(a) \in Registers \cup Values(func)
      BY <1>2, <1>3, <1>8, SetupFacts, HomeFacts DEF Placed
    <2> QED BY <1>3, <1>8, <2>1 DEF Loaded, ContentsTyped
  <1>10. reg \in Elements(ArgRegs) /\ reg \in Registers /\ reg \notin CalleeSaved
    BY <1>6, <1>7, RegisterFacts
  <1>11. /\ reg \in DOMAIN contents /\ contents'[reg] = value
         /\ \A l \in DOMAIN contents : l # reg => contents'[l] = contents[l]
    BY <1>1, <1>3, <1>10 DEF ContentsTyped
  <1>12. ContentsTyped(contents')
    <2> HIDE DEF value, reg
    <2> QED BY <1>1, <1>3, <1>9, <1>10 DEF ContentsTyped, reg
  <1>13. Delivered(contents', b, i, k)
    <2> HIDE DEF b, i
    <2>1. \A j \in DOMAIN Here.args : j >= unloaded => Here.args[j] \in contents[ArgRegs[j]]
      BY <1>5 DEF Delivered
    <2> SUFFICES ASSUME NEW j \in DOMAIN Here.args, j >= k PROVE Here.args[j] \in contents'[ArgRegs[j]]
      BY <1>5, <1>6 DEF Delivered
    <2>2. CASE j = k
      BY <1>8, <1>11, <2>2
    <2>3. CASE j # k
      <3>1. j >= unloaded
        BY <1>5, <1>6, <2>3
      <3>2. j \in DOMAIN ArgRegs /\ k \in DOMAIN ArgRegs /\ ArgRegs[j] \in Elements(ArgRegs)
        BY <1>6, <1>7
      <3>3. ArgRegs[j] # reg
        BY <2>3, <3>2, ArgAssumption DEF Distinct
      <3>4. ArgRegs[j] \in DOMAIN contents
        BY <1>3, <3>2, RegisterFacts DEF ContentsTyped
      <3> QED BY <1>11, <2>1, <3>1, <3>3, <3>4
    <2> QED BY <2>2, <2>3
  <1> HIDE DEF reg, value, a
  <1>14. RestKept(contents')
    <2>1. CalleeSaved \subseteq DOMAIN contents
      BY <1>3, RegisterFacts DEF ContentsTyped
    <2> QED BY <1>3, <1>10, <1>11, <2>1 DEF RestKept
  <1>15. Holding(contents', b, i - 1, k # 0)
    <2> HIDE DEF k, b, i
    <2> SUFFICES ASSUME NEW v \in Values(func) \ Made, ~IsConst(func, v), LiveAt(v, b, i - 1),
                        k # 0 => Home(v) \notin Elements(ArgRegs)
                 PROVE  v \in contents'[Home(v)]
      BY DEF Holding
    <2>1. Home(v) \notin Elements(ArgRegs)
      BY <1>6
    <2>2. v \in contents[Home(v)]
      BY <1>3, <2>1 DEF InBlock, Holding
    <2>3. Home(v) \in DOMAIN contents
      BY <1>2, <1>3, SetupFacts, HomeFacts DEF Placed, ContentsTyped
    <2> QED BY <1>10, <1>11, <2>1, <2>2, <2>3
  <1>16. PhisPlaced(contents', b, i - 1)
    BY <1>2, <1>3, <1>5, NoPhiFollows DEF PhisPlaced, CallAt
  <1>17. InBlock(contents', b, i, k)
    <2> HIDE DEF k, b, i
    <2> QED BY <1>3, <1>13, <1>15, <1>16 DEF InBlock
  <1> HIDE DEF k
  <1>18. Machine(contents', pc', unloaded')
    BY <1>1, <1>12, <1>14, <1>17 DEF Machine
  <1> QED BY <1>1, <1>2, <1>18, RunsOn

LEMMA CallStep == MachineInv /\ Call => MachineInv'
  <1> SUFFICES ASSUME MachineInv, Call PROVE MachineInv'
    OBVIOUS
  <1> DEFINE b == pc[1]
             i == pc[2]
             r == Here.result
             mid == [l \in DOMAIN contents |-> IF l \in Registers \ CalleeSaved THEN {} ELSE contents[l]]
  <1>1. /\ AtInst /\ unloaded = 1 /\ contents' = Defined(mid, r) /\ unloaded' = 0 /\ pc' = <<b, i + 1>>
        /\ UNCHANGED <<fixed, phase, saved>>
    BY DEF Call
  <1>2. Setup /\ Running /\ InBody
    BY <1>1 DEF MachineInv, Allocating, AtInst, InBody
  <1>3. /\ ContentsTyped(contents) /\ RestKept(contents) /\ InBlock(contents, b, i, unloaded) /\ Placed
        /\ b \in Reachable(func) /\ b \in Blocks(func)
    BY <1>2, PlaceInBody
  <1>4. /\ CallAt(b, i) /\ Here = Insts(emitted, b)[i] /\ Insts(func, b)[i] = Here /\ IsCall(Here) /\ ~Silent
    BY <1>1, <1>2, LoadingFacts
  <1>5. r \in Values(func) \cup {NoValue} /\ r = Insts(emitted, b)[i].result /\ r = Insts(func, b)[i].result
    BY <1>1, <1>2, <1>4, InstHere
  <1>6. i \in DOMAIN Insts(func, b) /\ ~SilentAt(b, i) /\ IsCall(Insts(func, b)[i])
    BY <1>4 DEF CallAt
  <1> HIDE DEF b, i, r
  <1>7. DOMAIN contents = Registers \cup Values(func)
    BY <1>3 DEF ContentsTyped
  <1>8. ContentsTyped(mid)
    BY <1>3, <1>7 DEF ContentsTyped
  <1>9. RestKept(mid)
    <2>1. CalleeSaved \subseteq DOMAIN contents
      BY <1>7, RegisterFacts
    <2> QED BY <1>3, <2>1 DEF RestKept
  <1>10. ASSUME NEW v \in Values(func) \ Made, ~IsConst(func, v), LiveAt(v, b, i), v # r
         PROVE  v \in mid[Home(v)]
    <2>1. LiveAt(v, b, i - 1)
      BY <1>2, <1>3, <1>5, <1>6, <1>10, SetupFacts, LiveBackward
    <2>2. Home(v) \notin CallerSaved \cup LocalReg
      BY <1>3, <1>5, <1>6, <1>10 DEF Placed, CallsSpare
    <2>3. /\ Home(v) \in Registers \cup Values(func) /\ v \in Nat
          /\ Home(v) = v \/ Home(v) \in GlobalReg \cup LocalReg
      BY <1>2, <1>3, SetupFacts, HomeFacts DEF Placed
    <2>4. Home(v) \notin Registers \ CalleeSaved
      BY <2>2, <2>3, RegisterFacts
    <2>5. Home(v) \notin Elements(ArgRegs)
      BY <2>4, RegisterFacts
    <2>6. v \in contents[Home(v)]
      BY <1>3, <1>10, <2>1, <2>5 DEF InBlock, Holding
    <2> QED BY <1>7, <2>3, <2>4, <2>6
  <1>11. DOMAIN mid = Registers \cup Values(func)
    BY <1>7
  <1> HIDE DEF mid
  <1>12. Holding(contents', b, i, FALSE) /\ PhisPlaced(contents', b, i)
    BY <1>1, <1>2, <1>3, <1>5, <1>6, <1>10, <1>11, DefinitionKeeps
  <1>13. ContentsTyped(contents') /\ RestKept(contents')
    BY <1>1, <1>2, <1>3, <1>5, <1>8, <1>9, DefinitionRest
  <1> QED BY <1>1, <1>2, <1>12, <1>13, NextInstruction DEF b, i

(* At the end of a block everything live there is in its home.              *)
LEMMA BlockEnd ==
    ASSUME Setup, Running, AtTerminator
    PROVE  /\ InBody /\ unloaded = 0 /\ pc[2] = Len(Insts(func, pc[1])) + 1
           /\ Holding(contents, pc[1], Len(Insts(func, pc[1])), FALSE)
           /\ Successors(func, pc[1]) = Successors(emitted, pc[1])
           /\ Term(func, pc[1]) = Term(emitted, pc[1])
  <1> DEFINE b == pc[1]
             last == Len(Insts(func, b))
  <1>1. InBody
    BY DEF AtTerminator
  <1>2. /\ InBlock(contents, b, pc[2], unloaded) /\ b \in Blocks(func) /\ last \in Nat
        /\ pc[2] = last + 1 /\ unloaded = 0
    BY <1>1, PlaceInBody
  <1>3. Holding(contents, b, pc[2] - 1, unloaded # 0) /\ pc[2] - 1 = last
    BY <1>2 DEF InBlock
  <1>4. Holding(contents, b, last, FALSE)
    BY <1>2, <1>3 DEF Holding
  <1> QED BY <1>1, <1>2, <1>4, BlockSeen

LEMMA TakeEdgeStep == MachineInv /\ TakeEdge => MachineInv'
  <1> SUFFICES ASSUME MachineInv, TakeEdge PROVE MachineInv'
    OBVIOUS
  <1> DEFINE p == pc[1]
  <1>1. AtTerminator /\ UNCHANGED <<fixed, phase, unloaded, saved>>
    BY DEF TakeEdge
  <1>2. PICK s \in Successors(emitted, p) :
           contents' = [l \in DOMAIN contents |-> Renamed(s, AfterMoves(s, l))] /\ pc' = <<s, 1>>
    BY DEF TakeEdge
  <1>3. Setup /\ Running /\ phase = "run"
    BY <1>1 DEF MachineInv, Allocating, AtTerminator, InBody
  <1>4. /\ InBody /\ unloaded = 0 /\ Holding(contents, p, Len(Insts(func, p)), FALSE)
        /\ s \in Successors(func, p)
    BY <1>1, <1>2, <1>3, BlockEnd
  <1>5. ContentsTyped(contents) /\ RestKept(contents) /\ Placed /\ p \in Reachable(func)
    BY <1>3, <1>4, PlaceInBody
  <1>6. /\ s \in Reachable(func)
        /\ Holding(contents', s, 0, FALSE) /\ PhisPlaced(contents', s, 0)
        /\ ContentsTyped(contents') /\ RestKept(contents')
    BY <1>2, <1>3, <1>4, <1>5, EdgeKeeps
  <1>7. 1 \in 1..(Len(Insts(func, s)) + 1) /\ 1 - 1 = 0
    <2>1. Len(Insts(func, s)) \in Nat
      BY <1>3, <1>6, ReachableBlock, BlockSeen
    <2> QED BY <2>1
  <1>8. Holding(contents', s, 1 - 1, 0 # 0) /\ PhisPlaced(contents', s, 1 - 1)
    BY <1>6, <1>7 DEF Holding
  <1>9. InBlock(contents', s, 1, 0)
    BY <1>6, <1>7, <1>8 DEF InBlock
  <1>10. Machine(contents', pc', unloaded')
    BY <1>1, <1>2, <1>4, <1>6, <1>9 DEF Machine
  <1> QED BY <1>1, <1>3, <1>10, RunsOn

(* What a terminator reads itself is in its home.                           *)
LEMMA TermRead ==
    ASSUME Setup, Running, AtTerminator, NEW v \in Elements(Term(emitted, pc[1]).args)
    PROVE  \/ \E i \in DOMAIN Insts(emitted, pc[1]) :
                 BranchMakes(emitted, pc[1], i) /\ Insts(emitted, pc[1])[i].result = v
           \/ v \in Values(func) /\ (IsConst(func, v) \/ v \in contents[Home(v)])
  <1> DEFINE b == pc[1]
             last == Len(Insts(func, b))
             end == AllInsts(b)[last + 1]
  <1>1. /\ InBody /\ Holding(contents, b, last, FALSE) /\ Term(func, b) = Term(emitted, b)
    BY BlockEnd
  <1>2. b \in Blocks(func) /\ b \in Reachable(func)
    BY <1>1, PlaceInBody
  <1>3. /\ last \in Nat /\ DOMAIN AllInsts(b) = 1..(last + 1)
        /\ end.args = Term(func, b).args /\ ~IsPhi(end)
    BY <1>2, SetupFacts, AllInstsFacts
  <1> HIDE DEF end
  <1>4. v \in Uses(end)
    BY <1>1, <1>3 DEF Uses
  <1>5. last + 1 \in DOMAIN AllInsts(b) /\ (last + 1) - 1 = last
    BY <1>3
  <1>6. CASE v \in Made
    BY <1>1, <1>2, <1>6, MadeNotRead
  <1>7. CASE v \notin Made
    <2>1. Holding(contents, b, (last + 1) - 1, FALSE)
      BY <1>1, <1>5
    <2> HIDE DEF b, last
    <2> QED BY <1>2, <1>3, <1>4, <1>5, <1>7, <2>1, ReadHeld DEF end
  <1> QED BY <1>6, <1>7

LEMMA ReturnStep == MachineInv /\ Return => MachineInv'
  <1> SUFFICES ASSUME MachineInv, Return PROVE MachineInv'
    OBVIOUS
  <1> DEFINE b == pc[1]
             args == Elements(Term(emitted, b).args)
             given_back == UNION {Loaded(v) : v \in args}
  <1>1. /\ AtTerminator /\ Successors(emitted, b) = {} /\ phase' = "returned"
        /\ contents' = [l \in DOMAIN contents |->
              IF l = ReturnReg THEN given_back
              ELSE IF l \in DOMAIN saved THEN saved[l] ELSE contents[l]]
        /\ UNCHANGED <<fixed, pc, unloaded, saved>>
    BY DEF Return
  <1>2. Setup /\ Running
    BY <1>1 DEF MachineInv, Allocating, AtTerminator, InBody
  <1>3. InBody /\ unloaded = 0 /\ Term(func, b) = Term(emitted, b)
    BY <1>1, <1>2, BlockEnd
  <1>4. ContentsTyped(contents) /\ RestKept(contents) /\ Placed /\ b \in Blocks(func)
    BY <1>2, <1>3, PlaceInBody
  <1>5. saved = [r \in UsedCalleeSaved |-> {r}] /\ UsedCalleeSaved \subseteq CalleeSaved
    BY <1>2 DEF Running, UsedCalleeSaved
  <1>6. \A i \in DOMAIN Insts(emitted, b) : ~BranchMakes(emitted, b, i)
    <2> SUFFICES ASSUME Len(Term(emitted, b).succ) = 2 PROVE FALSE
      BY DEF BranchMakes
    <2>1. Term(func, b).succ \in Seq(Nat)
      <3>1. func.blocks[b] \in BlockShape
        BY <1>2, <1>4, SetupFacts DEF WellFormed, Blocks
      <3> QED BY <3>1 DEF BlockShape, Term
    <2>2. 1 \in DOMAIN Term(emitted, b).succ
      BY <1>3, <2>1
    <2>3. Term(emitted, b).succ[1] \in Successors(emitted, b)
      BY <2>2 DEF Successors, Elements
    <2> QED BY <1>1, <2>3
  <1>7. \A v \in args : v \in Values(func) /\ v \in Loaded(v)
    BY <1>1, <1>2, <1>6, TermRead DEF Loaded
  <1>8. \A v \in Values(func) : Loaded(v) \subseteq Values(func) \cup CalleeSaved
    <2>1. \A v \in Values(func) : Home(v) \in Registers \cup Values(func)
      BY <1>2, <1>4, SetupFacts, HomeFacts DEF Placed
    <2> QED BY <1>4, <2>1 DEF Loaded, ContentsTyped
  <1>9. given_back \subseteq Values(func) \cup CalleeSaved /\ args \subseteq given_back
    BY <1>7, <1>8
  <1> HIDE DEF given_back, args
  <1>10. DOMAIN contents = Registers \cup Values(func)
    BY <1>4 DEF ContentsTyped
  <1>11. ContentsTyped(contents')
    <2>1. \A l \in DOMAIN saved : saved[l] \subseteq CalleeSaved
      BY <1>5
    <2> QED BY <1>1, <1>4, <1>9, <1>10, <2>1 DEF ContentsTyped
  <1>12. ASSUME NEW r \in CalleeSaved
         PROVE  r \in contents'[r]
    <2>1. r \in DOMAIN contents /\ r # ReturnReg
      BY <1>10, RegisterFacts
    <2>2. CASE r \in UsedCalleeSaved
      BY <1>1, <1>5, <2>1, <2>2
    <2>3. CASE r \notin UsedCalleeSaved
      <3>1. r \in contents[r] /\ r \notin DOMAIN saved
        BY <1>4, <1>5, <2>3 DEF RestKept
      <3> QED BY <1>1, <2>1, <3>1
    <2> QED BY <2>2, <2>3
  <1>13. contents'[ReturnReg] = given_back
    BY <1>1, <1>10, RegisterFacts
  <1>14. Finished(contents', pc', unloaded')
    BY <1>1, <1>3, <1>4, <1>9, <1>11, <1>12, <1>13 DEF Finished, args
  <1>15. Setup' /\ UsedCalleeSaved' = UsedCalleeSaved /\ Finished(contents, pc, unloaded)'
    BY <1>1, <1>2, <1>14, MachineStable
  <1>16. Placed'
    BY <1>1, <1>4, PlacedStable
  <1>17. Running'
    BY <1>1, <1>5, <1>15, <1>16 DEF Running
  <1> QED BY <1>15, <1>17 DEF MachineInv

LEMMA MachineStutters == MachineInv /\ UNCHANGED allVars => MachineInv'
  <1> SUFFICES ASSUME MachineInv, UNCHANGED allVars PROVE MachineInv'
    OBVIOUS
  <1>1. UNCHANGED vars /\ UNCHANGED machineVars
    BY DEF allVars
  <1>2. /\ UNCHANGED fixed /\ UNCHANGED <<func, phase, pc, unloaded, contents, saved>>
    BY <1>1 DEF vars, machineVars, given, allocVars, fixed
  <1>3. Setup'
    BY <1>2, MachineStable DEF MachineInv
  <1>4. CASE Allocating
    <2>1. [Next]_vars
      BY <1>1
    <2>2. IInv'
      BY <1>4, <2>1, InvariantStep DEF Allocating, AllocInv
    <2>3. Origin' /\ NeededOnly' /\ ExclusiveRegs' /\ LocalsApart' /\ ConservativeInsts'
      BY <1>4, <2>1, OriginStep, ExclusiveStep, LocalsStep, ConservativeStep DEF Allocating, AllocInv
    <2>4. ContentsTyped(contents)'
      BY <1>2, <1>4 DEF Allocating, ContentsTyped
    <2>5. Allocating'
      BY <1>2, <1>4, <2>2, <2>3, <2>4 DEF Allocating, AllocInv
    <2> QED BY <1>3, <2>5 DEF MachineInv
  <1>5. CASE Running
    <2>1. Placed' /\ UsedCalleeSaved' = UsedCalleeSaved
      BY <1>2, <1>5, PlacedStable, MachineStable DEF Running
    <2>2. phase = "run" => Machine(contents, pc, unloaded)'
      BY <1>2, <1>5, MachineStable DEF Running
    <2>3. phase = "returned" => Finished(contents, pc, unloaded)'
      BY <1>2, <1>5, MachineStable DEF Running
    <2>4. Running'
      BY <1>2, <1>5, <2>1, <2>2, <2>3 DEF Running
    <2> QED BY <1>3, <2>4 DEF MachineInv
  <1> QED BY <1>4, <1>5 DEF MachineInv

(* Whatever runs next, every value that will still be read is where the     *)
(* allocation says.                                                         *)
THEOREM MachineInvariance == MachineSpec => []MachineInv
  <1>1. MachineInv /\ [MachineNext]_allVars => MachineInv'
    BY AllocateStep, PrologueStep, MoveParamStep, SkipStep, ExecuteStep, BeginCallStep,
       LoadArgumentStep, CallStep, TakeEdgeStep, ReturnStep, MachineStutters
       DEF MachineNext, Returned
  <1> QED BY <1>1, MachineStarts, PTL DEF MachineSpec

-----------------------------------------------------------------------------
(* What the code relies on.                                                 *)

(* The allocation's and the machine's variables have their types.           *)
THEOREM MachineTypeCorrect == MachineSpec => []MachineTypeOK
  <1>1. MachineInv => MachineTypeOK
    <2> SUFFICES ASSUME MachineInv PROVE MachineTypeOK
      OBVIOUS
    <2>1. Setup /\ WellFormed(func) /\ Len(ArgRegs) \in Nat /\ Len(func.blocks) \in Nat
          /\ Blocks(func) = 1..Len(func.blocks)
      BY SetupFacts, FuncFacts DEF MachineInv
    <2>2. CASE Allocating
      BY <2>1, <2>2 DEF Allocating, MachineTypeOK, ContentsTyped
    <2>3. CASE Running
      <3>1. DOMAIN saved \subseteq CalleeSaved /\ phase \in {"run", "returned"}
        BY <2>3 DEF Running, UsedCalleeSaved
      <3>2. CASE phase = "returned"
        BY <2>1, <2>3, <3>1, <3>2 DEF Running, Finished, MachineTypeOK, ContentsTyped
      <3>3. CASE phase = "run"
        <4>1. Machine(contents, pc, unloaded)
          BY <2>3, <3>3 DEF Running
        <4>2. CASE pc[1] = 0 /\ unloaded = 0
          BY <2>1, <3>1, <4>1, <4>2 DEF Machine, MachineTypeOK, ContentsTyped
        <4>3. CASE InBlock(contents, pc[1], pc[2], unloaded)
          <5>1. pc[1] \in Reachable(func) /\ pc[1] \in Blocks(func)
            BY <2>1, <4>3, ReachableBlock DEF InBlock
          <5>2. InBody
            BY <2>1, <3>3, <5>1, SetupFacts DEF InBody
          <5>3. unloaded \in 0..(Len(ArgRegs) + 1)
            <6>1. CASE unloaded = 0
              BY <2>1, <6>1
            <6>2. CASE unloaded # 0
              <7>1. pc[2] \in DOMAIN Insts(func, pc[1])
                BY <4>3, <6>2 DEF InBlock, Delivered, CallAt
              <7>2. AtInst
                BY <2>1, <2>3, <5>2, <7>1, PlaceInBody
              <7>3. LET n == Len(Here.args) IN n \in Nat /\ unloaded \in 1..(n + 1) /\ n <= Len(ArgRegs)
                BY <2>1, <2>3, <5>2, <6>2, <7>2, LoadingFacts
              <7> QED BY <2>1, <7>3
            <6> QED BY <6>1, <6>2
          <5> QED BY <2>1, <3>1, <4>1, <5>1, <5>3 DEF Machine, MachineTypeOK, ContentsTyped
        <4> QED BY <4>1, <4>2, <4>3 DEF Machine
      <3> QED BY <3>1, <3>2, <3>3
    <2> QED BY <2>2, <2>3 DEF MachineInv
  <1> QED BY <1>1, MachineInvariance, PTL

(* Whatever the allocators decided, an edge finds the incoming value of     *)
(* every phi it assigns in that value's home.                               *)
THEOREM EdgeValuesStayIntact == MachineSpec => []EdgeValuesIntact
  <1>1. MachineInv => EdgeValuesIntact
    <2> SUFFICES ASSUME MachineInv, AtTerminator,
                        NEW s \in Successors(emitted, pc[1]), NEW phi \in MovedPhis(s)
                 PROVE  Intact(Incoming(phi, pc[1]))
      BY DEF EdgeValuesIntact
    <2>1. Setup /\ Running
      BY DEF MachineInv, Allocating, AtTerminator, InBody
    <2>2. /\ InBody /\ Holding(contents, pc[1], Len(Insts(func, pc[1])), FALSE)
          /\ s \in Successors(func, pc[1])
      BY <2>1, BlockEnd
    <2>3. Placed /\ pc[1] \in Reachable(func) /\ pc[1] \in Blocks(func)
      BY <2>1, <2>2, PlaceInBody
    <2>4. s \in Blocks(func)
      BY <2>1, <2>2, <2>3, SetupFacts, FuncFacts
    <2>5. phi \in Phis(func, s)
      BY <2>1, <2>4, PhisSeen
    <2> QED BY <2>1, <2>2, <2>3, <2>5, ReceivedHeld DEF Intact
  <1> QED BY <1>1, MachineInvariance, PTL

(* When the call instruction is reached, every argument is in its register, *)
(* although they were loaded one after the other and the registers are also *)
(* homes.                                                                   *)
THEOREM ArgumentsAreDelivered == MachineSpec => []ArgumentsDelivered
  <1>1. MachineInv => ArgumentsDelivered
    <2> SUFFICES ASSUME MachineInv, AtInst, unloaded = 1, NEW k \in DOMAIN Here.args
                 PROVE  Here.args[k] \in contents[ArgRegs[k]]
      BY DEF ArgumentsDelivered
    <2>1. Setup /\ Running /\ InBody
      BY DEF MachineInv, Allocating, AtInst, InBody
    <2>2. /\ Delivered(contents, pc[1], pc[2], unloaded) /\ Here = Insts(emitted, pc[1])[pc[2]]
          /\ DOMAIN Here.args = 1..Len(Here.args)
      BY <2>1, LoadingFacts
    <2>3. k >= unloaded
      BY <2>2
    <2> QED BY <2>2, <2>3 DEF Delivered
  <1> QED BY <1>1, MachineInvariance, PTL

(* The caller finds its callee-saved registers, saved exactly as far as the *)
(* allocation gave them away, and the result in a0.                         *)
THEOREM CallerStaysUndisturbed == MachineSpec => []CallerUndisturbed
  <1>1. MachineInv => CallerUndisturbed
    BY DEF MachineInv, Allocating, Running, Finished, CallerUndisturbed
  <1> QED BY <1>1, MachineInvariance, PTL

(* No two phis of a block that runs share a home, so that the copies of an  *)
(* edge are one assignment.                                                 *)
THEOREM PhiHomesStayDistinct == MachineSpec => []PhiHomesDistinct
  <1>1. MachineInv => PhiHomesDistinct
    <2> SUFFICES ASSUME MachineInv, AtInst,
                        NEW p \in MovedPhis(pc[1]), NEW q \in MovedPhis(pc[1]), p.result # q.result
                 PROVE  Home(p.result) # Home(q.result)
      BY DEF PhiHomesDistinct
    <2>1. Setup /\ Running /\ InBody
      BY DEF MachineInv, Allocating, AtInst, InBody
    <2>2. Placed /\ pc[1] \in Reachable(func) /\ pc[1] \in Blocks(func)
      BY <2>1, PlaceInBody
    <2>3. p \in Phis(func, pc[1]) /\ q \in Phis(func, pc[1])
      BY <2>1, <2>2, PhisSeen
    <2> QED BY <2>1, <2>2, <2>3, PhisApart
  <1> QED BY <1>1, MachineInvariance, PTL

-----------------------------------------------------------------------------
(* The operands of the comparisons that branches make.                      *)

LEMMA MadeSeen ==
    ASSUME Setup, NEW b \in Blocks(func), NEW i \in DOMAIN Insts(func, b), BranchMakes(emitted, b, i)
    PROVE  LET e == Insts(emitted, b)[i] IN
           e.result \notin Gone /\ Insts(func, b)[i] = e /\ ~IsPhi(e)
  <1> DEFINE e == Insts(emitted, b)[i]
             v == e.result
  <1>1. /\ WellFormed(func) /\ Verified(func) /\ Verified(emitted) /\ b \in Blocks(emitted)
        /\ i \in DOMAIN Insts(emitted, b) /\ Term(func, b) = Term(emitted, b)
        /\ func.kind = emitted.kind
    BY SetupFacts, BlockSeen
  <1>2. e.op = "eq" /\ Term(func, b).args = <<v>>
    BY <1>1 DEF BranchMakes
  <1>3. v \in Elements(Term(func, b).args)
    BY <1>2 DEF Elements
  <1>4. v # NoValue
    <2>1. v \in Values(func)
      BY <1>1, <1>3 DEF Verified, ValuesChecked
    <2> HIDE DEF v
    <2> QED BY <1>1, <2>1, ValueNumbers
  <1>5. IsInst(func, v)
    <2> DEFINE s == <<b, i>>
    <2>1. s \in Sites(emitted) /\ ResultAt(emitted, s) = v
      BY <1>1 DEF Sites, ResultAt
    <2> HIDE DEF s
    <2>2. IsInst(emitted, v)
      BY <1>1, <1>4, <2>1 DEF Verified, SingleAssignment
    <2> QED BY <1>1, <2>2 DEF IsInst
  <1>6. DefinedBy(func, v)
    BY <1>1, <1>3, <1>5 DEF Verified, UsesDominated, OrdinaryUse
  <1>7. PICK c \in Blocks(func) : v \in Results(func, c)
    BY <1>6 DEF DefinedBy
  <1>8. PICK j \in DOMAIN Insts(func, c) : Insts(func, c)[j].result = v
    BY <1>7 DEF Results
  <1>9. v \notin Gone
    <2>1. Insts(func, c)[j] # Nop
      BY <1>4, <1>8 DEF Nop
    <2>2. Insts(emitted, c)[j].result \notin Gone
      BY <2>1, InstSeen
    <2>3. Insts(func, c)[j].result = Insts(emitted, c)[j].result
      BY <2>2, InstSeen
    <2> QED BY <1>8, <2>2, <2>3
  <1>10. ~IsAccess(e) /\ ~IsPhi(e)
    BY <1>2 DEF IsAccess, IsPhi
  <1>11. Insts(func, b)[i] = e
    BY <1>9, <1>10, InstSeen
  <1> QED BY <1>9, <1>10, <1>11

(* Of the comparisons of block b before instruction i.                      *)
ComparesHeld(held, b, i) ==
    \A j \in DOMAIN Insts(emitted, b) : j < i /\ BranchMakes(emitted, b, j) =>
        \A v \in Uses(Insts(emitted, b)[j]) : IsConst(func, v) \/ v \in held[Home(v)]

AllComparesLast == \A f \in Sources : ComparesLast(f)
ComparesInv == InBody => ComparesHeld(contents, pc[1], pc[2])

LEMMA ComparesStable ==
    ASSUME UNCHANGED fixed, ComparesHeld(contents', pc'[1], pc'[2])
    PROVE  ComparesInv'
  <1>1. UNCHANGED <<emitted, func>> /\ \A v : Home(v)' = Home(v)
    BY FixedStable DEF fixed, given
  <1>2. ComparesHeld(contents, pc[1], pc[2])'
    BY <1>1 DEF ComparesHeld
  <1> QED BY <1>2 DEF ComparesInv

(* At an instruction with code no comparison has been passed.               *)
LEMMA NoneBefore ==
    ASSUME AllComparesLast, Setup, Running, AtInst, ~Silent,
           NEW j \in DOMAIN Insts(emitted, pc[1]), j < pc[2], BranchMakes(emitted, pc[1], j)
    PROVE  FALSE
  <1>1. ComparesLast(emitted)
    BY DEF AllComparesLast, Setup
  <1>2. InBody /\ pc[1] \in Blocks(emitted) /\ pc[2] \in DOMAIN Insts(emitted, pc[1])
    <2>1. InBody
      BY DEF AtInst
    <2> QED BY <2>1, PlaceInBody, BlockSeen
  <1>3. \/ Here.op \in {"phi", "nop"} \/ BranchMakes(emitted, pc[1], pc[2])
        \/ Here.result \in DOMAIN Folds(emitted) \cup Elided(emitted)
    BY <1>1, <1>2 DEF ComparesLast, Here
  <1> QED BY <1>3 DEF Silent, IsPhi, Setup

LEMMA ComparesStep == AllComparesLast /\ MachineInv /\ ComparesInv /\ [MachineNext]_allVars => ComparesInv'
  <1> SUFFICES ASSUME AllComparesLast, MachineInv, ComparesInv, [MachineNext]_allVars, InBody'
               PROVE  ComparesInv'
    BY DEF ComparesInv
  <1>1. ~Allocate
    <2>1. phase' = "run"
      BY DEF InBody
    <2> QED BY <2>1 DEF Allocate, Next, Start, Analyse, GiveUp, BuildGraph, ColorNext, ColorEnd,
                        AssignConservatively, AssignLocals, Done, allocVars
  <1>2. ~Return /\ ~Returned
    BY DEF InBody, Return, Returned, allVars, vars, allocVars
  <1>3. UNCHANGED fixed /\ emitted' = emitted
    BY <1>1, <1>2 DEF MachineNext, Prologue, MoveParam, Skip, Execute, BeginCall, LoadArgument, Call,
                      TakeEdge, allVars, vars, machineVars, given, allocVars, fixed
  <1>4. Setup /\ pc'[1] \in Blocks(emitted) /\ pc'[1] \in Blocks(func) /\ pc'[1] # 0
    <2>1. Setup /\ pc'[1] \in Blocks(emitted)
      BY <1>3 DEF MachineInv, InBody
    <2>2. pc'[1] \in Blocks(func) /\ WellFormed(func)
      BY <2>1, SetupFacts
    <2> QED BY <2>1, <2>2, FuncFacts
  <1>5. SUFFICES ComparesHeld(contents', pc'[1], pc'[2])
    BY <1>3, ComparesStable
  <1>6. CASE Prologue \/ MoveParam \/ TakeEdge
    <2>1. pc'[2] = 1
      BY <1>4, <1>6 DEF Prologue, MoveParam, TakeEdge
    <2>2. \A j \in DOMAIN Insts(emitted, pc'[1]) : ~(j < 1)
      BY <1>4, BlockSeen
    <2> QED BY <2>1, <2>2 DEF ComparesHeld
  <1>7. CASE ~(Prologue \/ MoveParam \/ TakeEdge)
    <2> DEFINE b == pc[1]
               i == pc[2]
    <2>1. b \in Blocks(emitted) /\ pc'[1] = b
      BY <1>1, <1>2, <1>4, <1>7 DEF MachineNext, Skip, Execute, BeginCall, LoadArgument, Call, AtInst, InBody,
                                    allVars, machineVars
    <2>2. phase = "run"
      BY <1>1, <1>2, <1>7 DEF MachineNext, Skip, Execute, BeginCall, LoadArgument, Call, AtInst, InBody,
                              allVars, vars, allocVars
    <2>3. InBody /\ Running /\ ComparesHeld(contents, b, i)
      BY <2>1, <2>2 DEF InBody, MachineInv, Allocating, ComparesInv
    <2>4. /\ InBlock(contents, b, i, unloaded) /\ b \in Reachable(func) /\ b \in Blocks(func)
          /\ AtInst => i \in DOMAIN Insts(func, b)
          /\ DOMAIN Insts(func, b) = 1..Len(Insts(func, b)) /\ Len(Insts(func, b)) \in Nat
          /\ i \in 1..(Len(Insts(func, b)) + 1)
      BY <1>4, <2>3, PlaceInBody
    <2>5. DOMAIN Insts(emitted, b) = DOMAIN Insts(func, b)
      BY <1>4, <2>4, BlockSeen
    <2>6. CASE UNCHANGED allVars
      <3>1. contents' = contents /\ pc' = pc
        BY <2>6 DEF allVars, machineVars
      <3> QED BY <2>3, <3>1
    <2>7. CASE Skip
      <3>1. AtInst /\ Silent /\ contents' = contents /\ pc' = <<b, i + 1>>
        BY <2>7 DEF Skip
      <3>2. SilentAt(b, i) /\ i \in DOMAIN Insts(func, b)
        BY <1>4, <2>3, <3>1, PlaceInBody
      <3>3. unloaded = 0
        BY <2>4, <3>2 DEF InBlock, Delivered, CallAt
      <3>4. Holding(contents, b, i - 1, FALSE)
        BY <2>4, <3>3 DEF InBlock, Holding
      <3> HIDE DEF b, i
      <3>5. ASSUME BranchMakes(emitted, b, i), NEW v \in Uses(Insts(emitted, b)[i])
            PROVE  IsConst(func, v) \/ v \in contents[Home(v)]
        <4>1. Insts(func, b)[i] = Insts(emitted, b)[i] /\ ~IsPhi(Insts(emitted, b)[i])
          BY <1>4, <2>4, <3>2, <3>5, MadeSeen
        <4>2. AllInsts(b)[i] = Insts(emitted, b)[i] /\ i \in DOMAIN AllInsts(b)
          <5>1. LET last == Len(Insts(func, b)) IN
                /\ last \in Nat /\ DOMAIN Insts(func, b) = 1..last /\ DOMAIN AllInsts(b) = 1..(last + 1)
                /\ \A j \in 1..last : AllInsts(b)[j] = Insts(func, b)[j]
            BY <1>4, <2>4, SetupFacts, AllInstsFacts
          <5> QED BY <3>2, <4>1, <5>1
        <4>3. v \notin Made
          BY <1>4, <2>4, <3>2, <3>5, <4>1, MadeNotRead
        <4> QED BY <1>4, <2>4, <3>4, <3>5, <4>1, <4>2, <4>3, ReadHeld
      <3>6. ASSUME NEW j \in DOMAIN Insts(emitted, b), j < i + 1, BranchMakes(emitted, b, j),
                   NEW v \in Uses(Insts(emitted, b)[j])
            PROVE  IsConst(func, v) \/ v \in contents[Home(v)]
        <4>1. j < i \/ j = i
          BY <2>4, <2>5, <3>6
        <4>2. CASE j < i
          BY <2>3, <3>6, <4>2 DEF ComparesHeld
        <4> QED BY <3>5, <3>6, <4>1, <4>2
      <3>7. pc'[1] = b /\ pc'[2] = i + 1
        BY <3>1
      <3> QED BY <3>1, <3>6, <3>7 DEF ComparesHeld
    <2>8. CASE Execute \/ BeginCall \/ LoadArgument \/ Call
      <3>1. AtInst
        BY <2>8 DEF Execute, BeginCall, LoadArgument, Call
      <3>2. ~Silent
        <4>1. LoadArgument \/ Call => unloaded # 0
          BY DEF LoadArgument, Call
        <4> QED BY <1>4, <2>3, <2>8, <3>1, <4>1, LoadingFacts DEF Execute, BeginCall
      <3>3. pc'[2] \in {i, i + 1}
        BY <2>8 DEF Execute, BeginCall, LoadArgument, Call
      <3>4. ASSUME NEW j \in DOMAIN Insts(emitted, b), j < i + 1, BranchMakes(emitted, b, j)
            PROVE  FALSE
        <4>1. j < i \/ j = i
          BY <2>4, <2>5, <3>4
        <4>2. j # i
          BY <3>2, <3>4 DEF Silent
        <4> QED BY <1>4, <2>3, <3>1, <3>2, <3>4, <4>1, <4>2, NoneBefore
      <3>5. \A j \in DOMAIN Insts(emitted, b) : j < pc'[2] => j < i + 1
        BY <2>4, <2>5, <3>3
      <3> HIDE DEF b, i
      <3> QED BY <2>1, <3>4, <3>5 DEF ComparesHeld
    <2> QED BY <1>1, <1>2, <1>7, <2>6, <2>7, <2>8 DEF MachineNext
  <1> QED BY <1>6, <1>7

(* Whatever an instruction or a terminator is about to read is in its home, *)
(* if every comparison a branch makes is the last thing before the branch;  *)
(* without that the claim is false.                                         *)
THEOREM OperandsStayIntact ==
    ASSUME AllComparesLast
    PROVE  MachineSpec => []OperandsIntact
  <1>1. MachineInit => ComparesInv
    BY DEF MachineInit, Unallocated, ComparesInv, InBody
  <1>2. MachineInv /\ ComparesInv /\ [MachineNext]_allVars => ComparesInv'
    BY ComparesStep
  <1>3. MachineInv /\ ComparesInv => OperandsIntact
    <2> SUFFICES ASSUME MachineInv, ComparesInv PROVE OperandsIntact
      OBVIOUS
    <2> DEFINE b == pc[1]
               i == pc[2]
    <2>1. ASSUME AtInst, ~Silent, ~IsCall(Here), NEW v \in Uses(Addressed(folded, Here))
          PROVE  Intact(v)
      <3>1. Setup /\ Running /\ InBody
        BY <2>1 DEF MachineInv, Allocating, AtInst, InBody
      <3>2. InBlock(contents, b, i, unloaded) /\ b \in Reachable(func) /\ b \in Blocks(func)
        BY <3>1, PlaceInBody
      <3>3. /\ i \in DOMAIN AllInsts(b) /\ AllInsts(b)[i] = Insts(func, b)[i] /\ ~IsPhi(Insts(func, b)[i])
            /\ Insts(func, b)[i] = Addressed(folded, Here) /\ i \in DOMAIN Insts(func, b)
            /\ Here = Insts(emitted, b)[i]
        BY <2>1, <3>1, InstHere
      <3>4. unloaded = 0
        BY <2>1, <3>2, <3>3 DEF InBlock, Delivered, CallAt
      <3> HIDE DEF b, i
      <3>5. Holding(contents, b, i - 1, FALSE)
        BY <3>2, <3>4 DEF InBlock, Holding
      <3>6. v \notin Made
        BY <2>1, <3>1, <3>2, <3>3, MadeNotRead
      <3> QED BY <2>1, <3>1, <3>2, <3>3, <3>5, <3>6, ReadHeld DEF Intact
    <2>2. ASSUME AtTerminator, NEW v \in ReadAtEnd(emitted, pc[1])
          PROVE  Intact(v)
      <3>1. Setup /\ Running
        BY <2>2 DEF MachineInv, Allocating, AtTerminator, InBody
      <3>2. InBody /\ pc[2] = Len(Insts(func, b)) + 1
        BY <2>2, <3>1, BlockEnd
      <3>3. /\ b \in Blocks(func) /\ Len(Insts(func, b)) \in Nat
            /\ DOMAIN Insts(func, b) = 1..Len(Insts(func, b))
        BY <3>1, <3>2, PlaceInBody
      <3>4. DOMAIN Insts(emitted, b) = DOMAIN Insts(func, b)
        BY <3>1, <3>3, BlockSeen
      <3>5. ComparesHeld(contents, b, pc[2])
        BY <3>2 DEF ComparesInv
      <3>6. ASSUME NEW j \in DOMAIN Insts(emitted, b), BranchMakes(emitted, b, j),
                   v \in Uses(Insts(emitted, b)[j])
            PROVE  Intact(v)
        <4>1. j < pc[2]
          BY <3>2, <3>3, <3>4
        <4> QED BY <3>5, <3>6, <4>1 DEF ComparesHeld, Intact
      <3>7. CASE \E j \in DOMAIN Insts(emitted, b) : BranchMakes(emitted, b, j)
        BY <2>2, <3>6, <3>7 DEF ReadAtEnd
      <3>8. CASE ~\E j \in DOMAIN Insts(emitted, b) : BranchMakes(emitted, b, j)
        <4>1. v \in Elements(Term(emitted, b).args)
          BY <2>2, <3>8 DEF ReadAtEnd
        <4> QED BY <2>2, <3>1, <3>8, <4>1, TermRead DEF Intact
      <3> QED BY <3>7, <3>8
    <2> QED BY <2>1, <2>2 DEF OperandsIntact
  <1> QED BY <1>1, <1>2, <1>3, MachineInvariance, PTL DEF MachineSpec
=============================================================================
