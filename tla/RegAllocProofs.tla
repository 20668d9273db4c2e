--------------------------- MODULE RegAllocProofs ---------------------------
(***************************************************************************)
(* Theorems about register allocation, for every set of functions, every   *)
(* register file and every budget: types, the liveness rounds end in a     *)
(* solution of the data-flow equations, and the colouring respects the     *)
(* interference graph and the calls.  And what the allocation is for:      *)
(* liveness answers exactly what paths of the function need, no register   *)
(* ever holds two values that are needed later, and no call destroys a     *)
(* value that is needed after it.                                          *)
(***************************************************************************)
EXTENDS RegAlloc, Iteration

-----------------------------------------------------------------------------
(* The inductive invariant.                                                 *)

(* Registers are handed out only after the analysis.                        *)
Unassigned ==
    phase \in {"start", "liveness"} => \A v \in Values(func) : regs[v] = NoReg

(* A round only starts below the limit.                                     *)
RoundsLeft ==
    /\ phase = "start" => round = 0
    /\ verdict = "iterating" => round < budget.rounds

(* Conflicts are mutual and no value conflicts with itself.                 *)
GraphSymmetric ==
    \A v, w \in Values(func) : w \in graph[v] => v \in graph[w] /\ v # w

(* While a round has changed nothing, the blocks it has visited satisfy     *)
(* their equations.                                                         *)
Settling ==
    verdict = "iterating" /\ ~changed => \A b \in Blocks(func) : b > next => Settled(b)

Solved == verdict = "converged" => \A b \in Blocks(func) : Settled(b)

(* From colouring on, the graph is the one the solution determines.         *)
GraphFromSolution ==
    verdict = "converged" /\ phase # "liveness" =>
        /\ phase # "start"
        /\ graph = InterferenceGraph
        /\ callOperands = CallOperands
        /\ liveAcross = LiveAcrossCalls

IInv ==
    /\ TypeOK
    /\ RoundsLeft
    /\ Unassigned
    /\ GraphSymmetric
    /\ Settling
    /\ Solved
    /\ GraphFromSolution
    /\ ProperColoring

-----------------------------------------------------------------------------
(* Facts about functions.                                                   *)
LEMMA FuncFacts ==
    ASSUME WellFormed(func)
    PROVE  /\ Len(func.blocks) \in Nat
           /\ Len(func.blocks) > 0
           /\ Blocks(func) = 1..Len(func.blocks)
           /\ \A b \in Blocks(func) : Successors(func, b) \subseteq Blocks(func)
  BY DEF WellFormed, Blocks

(* The sets a visit computes stay within the values.                        *)
LEMMA VisitType ==
    ASSUME TypeOK, NEW b \in Blocks(func)
    PROVE  /\ NextOut(b) \in SUBSET Values(func)
           /\ NextIn(b) \in SUBSET Values(func)
  <1>1. candidates \subseteq Values(func)
    BY DEF TypeOK
  <1>2. \A s \in Successors(func, b) : liveIn[s] \subseteq Values(func)
    BY FuncFacts DEF TypeOK
  <1>3. \A s \in Successors(func, b) : EdgePhiUses(b, s) \subseteq Values(func)
    BY <1>1 DEF EdgePhiUses
  <1>4. NextOut(b) \subseteq Values(func)
    BY <1>2, <1>3 DEF NextOut
  <1>5. UpwardUses(b) \subseteq Values(func)
    BY <1>1 DEF UpwardUses
  <1> QED
    BY <1>4, <1>5 DEF NextIn

LEMMA GraphType ==
    /\ InterferenceGraph \in [Values(func) -> SUBSET Values(func)]
    /\ \A v, w \in Values(func) :
          w \in InterferenceGraph[v] => v \in InterferenceGraph[w] /\ v # w
  <1>1. \A v, w : <<v, w>> \in DefinitionConflicts => v # w
    BY DEF DefinitionConflicts, LiveBeyond
  <1>2. \A v, w : <<v, w>> \in ParameterConflicts => v # w
    BY DEF ParameterConflicts
  <1> QED
    BY <1>1, <1>2 DEF InterferenceGraph

-----------------------------------------------------------------------------
(* What a step leaves alone keeps its meaning.                              *)
LEMMA SettledStable ==
    ASSUME UNCHANGED <<func, candidates, liveIn, liveOut>>, NEW b
    PROVE  Settled(b)' <=> Settled(b)
  BY DEF Settled, NextOut, NextIn, PhiDefs, EdgePhiUses, UpwardUses, DefinedBefore, Defs

LEMMA GraphStable ==
    ASSUME UNCHANGED <<func, candidates, liveOut>>
    PROVE  /\ InterferenceGraph' = InterferenceGraph
           /\ CallOperands' = CallOperands
           /\ LiveAcrossCalls' = LiveAcrossCalls
  <1>1. \A b, i : LiveAfter(b, i)' = LiveAfter(b, i)
    BY DEF LiveAfter, NotDefined
  <1>2. \A b, i : LiveBeyond(b, i)' = LiveBeyond(b, i)
    BY <1>1 DEF LiveBeyond
  <1>3. CallSites' = CallSites
    BY DEF CallSites
  <1>4. DefinitionConflicts' = DefinitionConflicts
    BY <1>2 DEF DefinitionConflicts
  <1>5. ParameterConflicts' = ParameterConflicts
    BY DEF ParameterConflicts
  <1>6. InterferenceGraph' = InterferenceGraph
    BY <1>4, <1>5 DEF InterferenceGraph
  <1>7. CallOperands' = CallOperands
    BY <1>3 DEF CallOperands
  <1>8. LiveAcrossCalls' = LiveAcrossCalls
    BY <1>2, <1>3 DEF LiveAcrossCalls
  <1> QED
    BY <1>6, <1>7, <1>8

LEMMA InitInvariant == Init => IInv
  <1> SUFFICES ASSUME Init PROVE IInv
    OBVIOUS
  <1>1. WellFormed(func)
    BY FuncAssumption DEF Init
  <1>2. budget.rounds \in Nat
    BY BudgetAssumption DEF Init
  <1>3. TypeOK
    <2>1. /\ liveIn \in [Blocks(func) -> SUBSET Values(func)]
          /\ liveOut \in [Blocks(func) -> SUBSET Values(func)]
          /\ graph \in [Values(func) -> SUBSET Values(func)]
      BY DEF Init, Unallocated
    <2>2. /\ regs \in [Values(func) -> GlobalReg \cup {NoReg}]
          /\ locals \in [Values(func) -> LocalReg \cup {NoReg}]
      BY DEF Init, Unallocated
    <2>3. next \in 0..Len(func.blocks) /\ round \in 0..budget.rounds
      BY <1>1, <1>2, FuncFacts DEF Init, Unallocated
    <2> QED
      BY <1>1, <2>1, <2>2, <2>3 DEF Init, Unallocated, TypeOK
  <1>4. RoundsLeft /\ Unassigned /\ GraphSymmetric
    BY DEF Init, Unallocated, RoundsLeft, Unassigned, GraphSymmetric
  <1>5. Settling /\ Solved /\ GraphFromSolution /\ ProperColoring
    BY DEF Init, Unallocated, Settling, Solved, GraphFromSolution, ProperColoring
  <1> QED
    BY <1>3, <1>4, <1>5 DEF IInv

LEMMA StartInvariant == IInv /\ Start => IInv'
  <1> SUFFICES ASSUME IInv, Start PROVE IInv'
    OBVIOUS
  <1> USE DEF given
  <1>1. TypeOK'
    <2>1. PreciseCandidates \subseteq Values(func)
      BY DEF PreciseCandidates, CrossBlockCandidates, CallCrossing
    <2>2. Len(func.blocks) \in 0..Len(func.blocks)
      BY FuncFacts DEF IInv, TypeOK
    <2>3. /\ candidates' \subseteq Values(func)
          /\ next' \in 0..Len(func.blocks)
          /\ changed' \in BOOLEAN
          /\ verdict' \in {"idle", "iterating", "converged", "none"}
      BY <2>1, <2>2 DEF IInv, TypeOK, Start
    <2>4. UNCHANGED <<func, budget, liveIn, liveOut, round, graph, callOperands, liveAcross,
                      uncolored, regs, locals>> /\ phase' = "liveness"
      BY DEF Start
    <2> QED
      BY <2>3, <2>4 DEF IInv, TypeOK
  <1>2. RoundsLeft' /\ Unassigned' /\ GraphSymmetric'
    <2>1. budget.rounds \in Nat \ {0}
      BY BudgetAssumption DEF IInv, TypeOK
    <2>2. RoundsLeft'
      BY <2>1 DEF IInv, RoundsLeft, Start
    <2> QED
      BY <2>2 DEF IInv, Start, Unassigned, GraphSymmetric
  <1>3. Settling'
    BY FuncFacts DEF IInv, TypeOK, Start, Settling, Blocks
  <1>4. Solved' /\ GraphFromSolution' /\ ProperColoring'
    BY DEF Start, Solved, GraphFromSolution, ProperColoring
  <1> QED
    BY <1>1, <1>2, <1>3, <1>4 DEF IInv


LEMMA VisitInvariant == IInv /\ phase = "liveness" /\ VisitBlock
                          /\ UNCHANGED <<func, budget, candidates, allocVars>> => IInv'
  <1> SUFFICES ASSUME IInv, phase = "liveness", VisitBlock,
                      UNCHANGED <<func, budget, candidates, allocVars>>
               PROVE  IInv'
    OBVIOUS
  <1> USE DEF allocVars
  <1>1. /\ next \in 0..Len(func.blocks) /\ Len(func.blocks) \in Nat
        /\ Blocks(func) = 1..Len(func.blocks)
    BY FuncFacts DEF IInv, TypeOK
  <1>2. next > 0 /\ next' = next - 1
    BY DEF VisitBlock
  <1>3. next \in Blocks(func)
    BY <1>1, <1>2
  <1>4. TypeOK'
    <2>1. next' \in 0..Len(func.blocks)
      BY <1>1, <1>2
    <2>2. /\ liveIn' \in [Blocks(func) -> SUBSET Values(func)]
          /\ liveOut' \in [Blocks(func) -> SUBSET Values(func)]
      <3> DEFINE out == NextOut(next)  in == NextIn(next)
      <3>1. out \in SUBSET Values(func) /\ in \in SUBSET Values(func)
        BY <1>3, VisitType DEF IInv
      <3>2. /\ liveOut' = [liveOut EXCEPT ![next] = out]
            /\ liveIn' = [liveIn EXCEPT ![next] = in]
        BY DEF VisitBlock
      <3> HIDE DEF out, in
      <3> QED
        BY <3>1, <3>2, <1>3 DEF IInv, TypeOK
    <2>3. changed' \in BOOLEAN /\ UNCHANGED <<round, verdict>>
      BY DEF VisitBlock
    <2> QED
      BY <2>1, <2>2, <2>3 DEF IInv, TypeOK
  <1>5. RoundsLeft' /\ Unassigned' /\ GraphSymmetric'
    BY DEF IInv, VisitBlock, RoundsLeft, Unassigned, GraphSymmetric
  <1>6. Settling'
    <2> SUFFICES ASSUME ~changed', NEW b \in Blocks(func), b > next'
                 PROVE  Settled(b)'
      BY DEF Settling
    <2>1. ~changed /\ Settled(next)
      BY DEF VisitBlock
    <2>2. UNCHANGED <<liveIn, liveOut>>
      BY <2>1, <1>3 DEF Settled, VisitBlock, IInv, TypeOK
    <2>3. b = next \/ b > next
      BY <1>1, <1>2
    <2>4. Settled(b)
      BY <2>1, <2>3 DEF IInv, Settling, VisitBlock
    <2> QED
      BY <2>2, <2>4, SettledStable
  <1>7. Solved' /\ GraphFromSolution' /\ ProperColoring'
    BY DEF VisitBlock, Solved, GraphFromSolution, ProperColoring
  <1> QED
    BY <1>4, <1>5, <1>6, <1>7 DEF IInv

LEMMA EndRoundInvariant == IInv /\ phase = "liveness" /\ EndRound
                             /\ UNCHANGED <<func, budget, candidates, allocVars>> => IInv'
  <1> SUFFICES ASSUME IInv, phase = "liveness", EndRound,
                      UNCHANGED <<func, budget, candidates, allocVars>>
               PROVE  IInv'
    OBVIOUS
  <1> USE DEF allocVars
  <1>1. UNCHANGED <<liveIn, liveOut>>
    BY DEF EndRound
  <1>2. round < budget.rounds /\ round' = round + 1 /\ budget.rounds \in Nat /\ round \in Nat
    BY BudgetAssumption DEF EndRound, IInv, TypeOK, RoundsLeft
  <1>3. next \in 0..Len(func.blocks) /\ Len(func.blocks) \in Nat
    BY FuncFacts DEF IInv, TypeOK
  <1>4. TypeOK'
    <2>1. round' \in 0..budget.rounds
      BY <1>2
    <2>2. /\ next' \in 0..Len(func.blocks) /\ changed' \in BOOLEAN
          /\ verdict' \in {"idle", "iterating", "converged", "none"}
      <3>1. CASE RoundSettles
        BY <3>1, <1>3 DEF EndRound, IInv, TypeOK
      <3>2. CASE ~RoundSettles /\ RoundsExhausted(round')
        BY <3>2, <1>3 DEF EndRound, IInv, TypeOK
      <3>3. CASE ~RoundSettles /\ ~RoundsExhausted(round')
        <4>1. next' \in {next, Len(func.blocks)} /\ changed' \in {changed, FALSE}
                /\ verdict' = verdict
          BY <3>3 DEF EndRound
        <4>2. Len(func.blocks) \in 0..Len(func.blocks)
          BY <1>3
        <4>3. changed \in BOOLEAN /\ verdict \in {"idle", "iterating", "converged", "none"}
          BY DEF IInv, TypeOK
        <4>4. changed' \in BOOLEAN
          BY <4>1, <4>3
        <4>5. next' \in 0..Len(func.blocks)
          BY <4>1, <4>2, <1>3
        <4> QED
          BY <4>1, <4>3, <4>4, <4>5
      <3> QED
        BY <3>1, <3>2, <3>3
    <2> QED
      BY <1>1, <2>1, <2>2 DEF IInv, TypeOK
  <1>5. RoundsLeft' /\ Unassigned' /\ GraphSymmetric'
    <2>1. verdict' = "iterating" => round' # budget.rounds
      BY DEF EndRound, RoundsExhausted
    <2>2. RoundsLeft'
      BY <1>2, <2>1 DEF RoundsLeft
    <2> QED
      BY <2>2 DEF IInv, Unassigned, GraphSymmetric
  <1>6. Settling'
    BY FuncFacts DEF EndRound, Settling, IInv, TypeOK, Blocks
  <1>7. Solved'
    <2> SUFFICES ASSUME verdict' = "converged", NEW b \in Blocks(func)
                 PROVE  Settled(b)'
      BY DEF Solved
    <2>1. ~changed /\ verdict = "iterating" /\ next = 0
      BY DEF EndRound, RoundSettles
    <2>2. Settled(b)
      BY <2>1, FuncFacts DEF IInv, TypeOK, Settling
    <2> QED
      BY <1>1, <2>2, SettledStable
  <1>8. GraphFromSolution' /\ ProperColoring'
    <2>1. \A v \in Values(func) : regs'[v] = NoReg
      BY DEF IInv, Unassigned
    <2> QED
      BY <2>1, RegisterAssumption
         DEF IInv, TypeOK, GraphFromSolution, ProperColoring, CallerSaved, GlobalReg
  <1> QED
    BY <1>4, <1>5, <1>6, <1>7, <1>8 DEF IInv


LEMMA GiveUpInvariant == IInv /\ GiveUp => IInv'
  <1> SUFFICES ASSUME IInv, GiveUp PROVE IInv'
    OBVIOUS
  <1> USE DEF given, allocVars
  <1>1. TypeOK'
    BY DEF IInv, TypeOK, GiveUp
  <1>2. RoundsLeft' /\ Unassigned' /\ GraphSymmetric'
    BY DEF IInv, GiveUp, RoundsLeft, Unassigned, GraphSymmetric
  <1>3. Settling' /\ Solved' /\ GraphFromSolution' /\ ProperColoring'
    BY DEF GiveUp, Settling, Solved, GraphFromSolution, ProperColoring
  <1> QED
    BY <1>1, <1>2, <1>3 DEF IInv

LEMMA BuildGraphInvariant == IInv /\ BuildGraph => IInv'
  <1> SUFFICES ASSUME IInv, BuildGraph PROVE IInv'
    OBVIOUS
  <1> USE DEF given, liveVars
  <1>1. /\ graph' = InterferenceGraph
        /\ callOperands' = CallOperands
        /\ liveAcross' = LiveAcrossCalls
        /\ uncolored' = candidates
        /\ phase = "liveness" /\ phase' = "color" /\ verdict = "converged"
        /\ UNCHANGED <<func, budget, candidates, liveIn, liveOut, next, changed, round, verdict,
                       regs, locals>>
    BY DEF BuildGraph
  <1>2. TypeOK'
    <2>1. CallOperands \subseteq Values(func)
      BY DEF CallOperands, IInv, TypeOK
    <2>2. LiveAcrossCalls \subseteq Values(func)
      BY DEF LiveAcrossCalls, LiveBeyond, LiveAfter, IInv, TypeOK
    <2> QED
      BY <1>1, <2>1, <2>2, GraphType DEF IInv, TypeOK
  <1>3. RoundsLeft' /\ Unassigned' /\ GraphSymmetric'
    BY <1>1, GraphType DEF IInv, RoundsLeft, Unassigned, GraphSymmetric
  <1>4. Settling'
    BY <1>1 DEF Settling
  <1>5. Solved'
    BY <1>1, SettledStable DEF IInv, Solved
  <1>6. GraphFromSolution'
    BY <1>1, GraphStable DEF GraphFromSolution
  <1>7. ProperColoring'
    <2>1. \A v \in Values(func) : regs'[v] = NoReg
      BY <1>1 DEF IInv, Unassigned
    <2> QED
      BY <1>1, <2>1, RegisterAssumption DEF ProperColoring, GlobalReg
  <1> QED
    BY <1>2, <1>3, <1>4, <1>5, <1>6, <1>7 DEF IInv


-----------------------------------------------------------------------------
(* The two ends of an affinity are candidates.                              *)
LEMMA AffinityEnds ==
    ASSUME NEW u \in AffinityPairs
    PROVE  InstAt(u).result \in candidates /\ InstAt(u).args[u[3]] \in candidates
  <1>1. InstAt(u).result \in candidates
    BY DEF AffinityPairs
  <1>2. PICK w \in candidates : u \in UsePositions(w)
    BY DEF AffinityPairs
  <1>3. InstAt(u).args[u[3]] = w
    BY <1>2 DEF UsePositions, InstAt
  <1> QED
    BY <1>1, <1>2, <1>3

(* Whatever register is chosen, the rules allow it.                         *)
LEMMA ChosenAllowed ==
    ASSUME TypeOK, NEW v \in Values(func), NEW r \in RegisterFor(v), r # NoReg
    PROVE  r \in GlobalReg /\ Allowed(v, r)
  <1> DEFINE fits == {i \in DOMAIN Available : Allowed(v, Available[i])}
  <1>1. CASE Honoured(v) # {}
    <2>1. PICK u \in Honoured(v) : r = regs[Partner(v, u)]
      BY <1>1 DEF RegisterFor
    <2>2. Partner(v, u) \in Values(func)
      BY <2>1, AffinityEnds DEF Honoured, Partner, TypeOK
    <2>3. Allowed(v, r)
      BY <2>1 DEF Honoured
    <2> QED
      BY <2>1, <2>2, <2>3 DEF TypeOK
  <1>2. CASE Honoured(v) = {} /\ fits # {}
    <2>1. PICK i \in fits : r = Available[i]
      BY <1>2 DEF RegisterFor
    <2>2. Available[i] \in GlobalReg
      BY RegisterAssumption, <2>1 DEF Available, GlobalReg, CallerSaved, CalleeSaved, Elements
    <2> QED
      BY <2>1, <2>2
  <1>3. CASE Honoured(v) = {} /\ fits = {}
    BY <1>3 DEF RegisterFor
  <1> QED
    BY <1>1, <1>2, <1>3


LEMMA ColorNextInvariant == IInv /\ ColorNext => IInv'
  <1> SUFFICES ASSUME IInv, ColorNext PROVE IInv'
    OBVIOUS
  <1> USE DEF given, liveVars
  <1>1. PICK v \in uncolored : \E r \in RegisterFor(v) :
            regs' = [regs EXCEPT ![v] = r] /\ uncolored' = uncolored \ {v}
    BY DEF ColorNext
  <1>2. PICK r \in RegisterFor(v) : regs' = [regs EXCEPT ![v] = r]
    BY <1>1
  <1>3. v \in Values(func)
    BY DEF IInv, TypeOK
  <1>4. /\ phase = "color"
        /\ UNCHANGED <<func, budget, candidates, liveIn, liveOut, next, changed, round, verdict,
                       phase, graph, callOperands, liveAcross, locals>>
    BY DEF ColorNext
  <1>5. r # NoReg => r \in GlobalReg /\ Allowed(v, r)
    BY <1>3, ChosenAllowed DEF IInv
  <1>6. TypeOK'
    <2>1. regs' \in [Values(func) -> GlobalReg \cup {NoReg}]
      BY <1>2, <1>3, <1>5 DEF IInv, TypeOK
    <2> QED
      BY <1>1, <1>4, <2>1 DEF IInv, TypeOK
  <1>7. RoundsLeft' /\ Unassigned' /\ GraphSymmetric' /\ Settling'
    <2>1. Settling'
      BY <1>4, SettledStable DEF IInv, Settling
    <2> QED
      BY <1>4, <2>1 DEF IInv, RoundsLeft, Unassigned, GraphSymmetric
  <1>8. Solved' /\ GraphFromSolution'
    BY <1>4, SettledStable, GraphStable DEF IInv, Solved, GraphFromSolution
  <1>9. ProperColoring'
    <2> SUFFICES ASSUME verdict = "converged" PROVE ProperColoring'
      BY <1>4 DEF ProperColoring
    <2>1. regs'[v] = r /\ \A x \in Values(func) : x # v => regs'[x] = regs[x]
      BY <1>2, <1>3 DEF IInv, TypeOK
    <2>2. ASSUME NEW x \in Values(func), NEW y \in Values(func), y \in graph[x], regs'[x] # NoReg
          PROVE  regs'[x] # regs'[y]
      <3>1. x # y /\ x \in graph[y]
        BY <2>2 DEF IInv, GraphSymmetric
      <3>2. CASE x = v
        BY <3>1, <3>2, <2>1, <2>2, <1>5 DEF Allowed
      <3>3. CASE y = v
        BY <3>1, <3>3, <2>1, <2>2, <1>5 DEF Allowed
      <3>4. CASE x # v /\ y # v
        BY <3>4, <2>1, <2>2 DEF IInv, ProperColoring
      <3> QED
        BY <3>2, <3>3, <3>4
    <2>3. ASSUME NEW x \in Values(func), regs'[x] \in CallerSaved
          PROVE  func.kind[x] # "param" /\ x \notin callOperands /\ x \notin liveAcross
      <3>1. CASE x = v
        <4>1. r # NoReg
          BY <3>1, <2>1, <2>3, RegisterAssumption DEF GlobalReg
        <4> QED
          BY <4>1, <3>1, <2>1, <2>3, <1>5 DEF Allowed, RegisterAllowed
      <3>2. CASE x # v
        BY <3>2, <2>1, <2>3 DEF IInv, ProperColoring
      <3> QED
        BY <3>1, <3>2
    <2> QED
      BY <1>4, <2>2, <2>3 DEF ProperColoring
  <1> QED
    BY <1>6, <1>7, <1>8, <1>9 DEF IInv

LEMMA ColorEndInvariant == IInv /\ ColorEnd => IInv'
  <1> SUFFICES ASSUME IInv, ColorEnd PROVE IInv'
    OBVIOUS
  <1> USE DEF given, liveVars
  <1>1. /\ phase = "color" /\ phase' = "local"
        /\ UNCHANGED <<func, budget, candidates, liveIn, liveOut, next, changed, round, verdict,
                       graph, callOperands, liveAcross, uncolored, regs, locals>>
    BY DEF ColorEnd
  <1>2. TypeOK'
    BY <1>1 DEF IInv, TypeOK
  <1>3. RoundsLeft' /\ Unassigned' /\ GraphSymmetric' /\ ProperColoring'
    BY <1>1 DEF IInv, RoundsLeft, Unassigned, GraphSymmetric, ProperColoring
  <1>4. Settling' /\ Solved' /\ GraphFromSolution'
    BY <1>1, SettledStable, GraphStable DEF IInv, Settling, Solved, GraphFromSolution
  <1> QED
    BY <1>2, <1>3, <1>4 DEF IInv

(* Pairs give every value a register of the set they are read against.      *)
LEMMA HandedType ==
    ASSUME NEW pairs, NEW registers
    PROVE  Handed(pairs, registers) \in [Values(func) -> registers \cup {NoReg}]
  BY DEF Handed

LEMMA AssignConservativelyInvariant == IInv /\ AssignConservatively => IInv'
  <1> SUFFICES ASSUME IInv, AssignConservatively PROVE IInv'
    OBVIOUS
  <1> USE DEF given, liveVars
  <1>1. /\ phase = "liveness" /\ phase' = "local" /\ verdict = "none"
        /\ UNCHANGED <<func, budget, candidates, liveIn, liveOut, next, changed, round, verdict,
                       graph, callOperands, liveAcross, uncolored, locals>>
    BY DEF AssignConservatively
  <1>2. regs' \in [Values(func) -> GlobalReg \cup {NoReg}]
    BY HandedType DEF AssignConservatively, IInv, TypeOK
  <1>3. TypeOK'
    BY <1>1, <1>2 DEF IInv, TypeOK
  <1>4. RoundsLeft' /\ Unassigned' /\ GraphSymmetric'
    BY <1>1 DEF IInv, RoundsLeft, Unassigned, GraphSymmetric
  <1>5. Settling' /\ Solved' /\ GraphFromSolution' /\ ProperColoring'
    BY <1>1 DEF Settling, Solved, GraphFromSolution, ProperColoring
  <1> QED
    BY <1>3, <1>4, <1>5 DEF IInv

LEMMA AssignLocalsInvariant == IInv /\ AssignLocals => IInv'
  <1> SUFFICES ASSUME IInv, AssignLocals PROVE IInv'
    OBVIOUS
  <1> USE DEF given, liveVars
  <1>1. /\ phase = "local" /\ phase' = "done"
        /\ UNCHANGED <<func, budget, candidates, liveIn, liveOut, next, changed, round, verdict,
                       graph, callOperands, liveAcross, uncolored, regs>>
    BY DEF AssignLocals
  <1>2. locals' \in [Values(func) -> LocalReg \cup {NoReg}]
    BY HandedType DEF AssignLocals
  <1>3. TypeOK'
    BY <1>1, <1>2 DEF IInv, TypeOK
  <1>4. RoundsLeft' /\ Unassigned' /\ GraphSymmetric' /\ ProperColoring'
    BY <1>1 DEF IInv, RoundsLeft, Unassigned, GraphSymmetric, ProperColoring
  <1>5. Settling' /\ Solved' /\ GraphFromSolution'
    BY <1>1, SettledStable, GraphStable DEF IInv, Settling, Solved, GraphFromSolution
  <1> QED
    BY <1>3, <1>4, <1>5 DEF IInv

LEMMA StutterInvariant == IInv /\ UNCHANGED vars => IInv'
  <1> SUFFICES ASSUME IInv, UNCHANGED vars PROVE IInv'
    OBVIOUS
  <1> USE DEF vars, given, liveVars, allocVars
  <1>1. TypeOK'
    BY DEF IInv, TypeOK
  <1>2. RoundsLeft' /\ Unassigned' /\ GraphSymmetric' /\ ProperColoring'
    BY DEF IInv, RoundsLeft, Unassigned, GraphSymmetric, ProperColoring
  <1>3. Settling' /\ Solved' /\ GraphFromSolution'
    BY SettledStable, GraphStable DEF IInv, Settling, Solved, GraphFromSolution
  <1> QED
    BY <1>1, <1>2, <1>3 DEF IInv

-----------------------------------------------------------------------------
(* Every step of the allocation keeps the invariant.                        *)
LEMMA InvariantStep == IInv /\ [Next]_vars => IInv'
  <1> SUFFICES ASSUME IInv, [Next]_vars PROVE IInv'
    OBVIOUS
  <1>1. CASE Start
    BY <1>1, StartInvariant
  <1>2. CASE Analyse
    BY <1>2, VisitInvariant, EndRoundInvariant DEF Analyse, given
  <1>3. CASE GiveUp
    BY <1>3, GiveUpInvariant
  <1>4. CASE BuildGraph
    BY <1>4, BuildGraphInvariant
  <1>5. CASE ColorNext
    BY <1>5, ColorNextInvariant
  <1>6. CASE ColorEnd
    BY <1>6, ColorEndInvariant
  <1>7. CASE AssignConservatively
    BY <1>7, AssignConservativelyInvariant
  <1>8. CASE AssignLocals
    BY <1>8, AssignLocalsInvariant
  <1>9. CASE UNCHANGED vars
    BY <1>9, StutterInvariant
  <1> QED
    BY <1>1, <1>2, <1>3, <1>4, <1>5, <1>6, <1>7, <1>8, <1>9 DEF Next, Done

(* The invariant holds in every reachable state.                            *)
THEOREM Invariance == Spec => []IInv
  BY InitInvariant, InvariantStep, PTL DEF Spec

(* Every variable keeps its type; in particular registers come from the     *)
(* pools and the rounds stay within the limit of interference_graph.        *)
THEOREM TypeCorrect == Spec => []TypeOK
  BY Invariance, PTL DEF IInv

(* When the rounds of interference_graph settle, the live sets of every     *)
(* block solve the data-flow equations, although each round compares a      *)
(* block only with its own previous sets.                                   *)
THEOREM LivenessSolved == Spec => []Solved
  BY Invariance, PTL DEF IInv

(* Two values in conflict never share a register, and no value a call       *)
(* reads, that is live across a call or that is a parameter is in one of    *)
(* a2..a7, at any point of the colouring loop of Riscv64RegAlloc::new.      *)
THEOREM ColoringIsProper == Spec => []ProperColoring
  BY Invariance, PTL DEF IInv

(* What that means for the code: after the analysis, the register of a      *)
(* value is not the register of any candidate still needed after the value  *)
(* has been computed.                                                       *)
DefinitionsClear ==
    verdict = "converged" /\ phase # "liveness" =>
        \A s \in Sites(func) :
            LET v == ResultAt(func, s) IN
            v \in candidates /\ regs[v] # NoReg =>
                \A w \in LiveBeyond(s[1], s[2]) : regs[w] # regs[v]

THEOREM DefinitionsAreClear == Spec => []DefinitionsClear
  <1>1. IInv => DefinitionsClear
    <2> SUFFICES ASSUME IInv, verdict = "converged", phase # "liveness",
                        NEW s \in Sites(func), ResultAt(func, s) \in candidates,
                        regs[ResultAt(func, s)] # NoReg,
                        NEW w \in LiveBeyond(s[1], s[2])
                 PROVE  regs[w] # regs[ResultAt(func, s)]
      BY DEF DefinitionsClear
    <2> DEFINE v == ResultAt(func, s)
    <2>1. v \in Values(func) /\ w \in Values(func)
      BY DEF IInv, TypeOK, LiveBeyond, LiveAfter
    <2>2. <<v, w>> \in DefinitionConflicts
      BY DEF DefinitionConflicts, ResultAt
    <2>3. w \in InterferenceGraph[v]
      BY <2>1, <2>2 DEF InterferenceGraph
    <2>4. w \in graph[v]
      BY <2>3 DEF IInv, GraphFromSolution
    <2> QED
      BY <2>1, <2>4 DEF IInv, ProperColoring
  <1> QED
    BY <1>1, Invariance, PTL

-----------------------------------------------------------------------------
(* Facts about functions and what a walk along their edges reaches.         *)

LEMMA BlocksFinite ==
    ASSUME WellFormed(func)
    PROVE  /\ Len(func.blocks) \in Nat
           /\ Blocks(func) = 1..Len(func.blocks)
           /\ Entry \in Blocks(func)
           /\ IsFiniteSet(Blocks(func))
           /\ Cardinality(Blocks(func)) <= Len(func.blocks)
  <1>1. /\ Len(func.blocks) \in Nat /\ Len(func.blocks) > 0
        /\ Blocks(func) = 1..Len(func.blocks)
    BY FuncFacts
  <1> DEFINE N == Len(func.blocks)
  <1>2. IsFiniteSet(1..N) /\ Cardinality(1..N) = N
    <2> HIDE DEF N
    <2>1. 1 \in Int /\ N \in Int /\ ~(1 > N) /\ N - 1 + 1 = N
      BY <1>1 DEF N
    <2> QED BY <2>1, FS_Interval
  <1> QED BY <1>1, <1>2 DEF Entry

(* The blocks reached without passing a definition are the least set that   *)
(* holds the start and the successors of its members without a definition.  *)
LEMMA ReachedWithoutDefFacts ==
    ASSUME WellFormed(func), NEW v, NEW b \in Blocks(func)
    PROVE  LET reached == ReachedWithoutDef(v, b) IN
           /\ b \in reached /\ reached \subseteq Blocks(func)
           /\ \A c \in reached \ DefBlocks(v) : Successors(func, c) \subseteq reached
           /\ \A S : b \in S /\ (\A c \in (S \cap Blocks(func)) \ DefBlocks(v) :
                                    Successors(func, c) \subseteq S) => reached \subseteq S
  <1> DEFINE N == Len(func.blocks)
             D == DefBlocks(v)
             More(X) == X \cup UNION {Successors(func, c) : c \in X \ D}
             R == [c \in Blocks(func) |-> IF c \in D THEN {} ELSE Successors(func, c)]
             Step(s) == [n \in 0..N |-> IF n = 0 THEN {b} ELSE More(s[n - 1])]
  <1>1. /\ N \in Nat /\ IsFiniteSet(Blocks(func)) /\ Cardinality(Blocks(func)) <= N
        /\ \A c \in Blocks(func) : Successors(func, c) \subseteq Blocks(func)
    BY BlocksFinite, FuncFacts
  <1>2. R \in [Blocks(func) -> SUBSET Blocks(func)] /\ {b} \in SUBSET Blocks(func)
    BY <1>1
  <1>3. \A X \in SUBSET Blocks(func) : Spread(R, X) = More(X)
    BY DEF Spread
  <1>4. PICK g \in [0..N -> SUBSET Blocks(func)] : SpreadsTo(g, N, R, {b})
    <2> HIDE DEF N, R
    <2> QED BY <1>1, <1>2, SpreadExists
  <1>5. g = Step(g)
    <2>1. \A i \in 0..N : i = 0 \/ (i \in 1..N /\ i - 1 \in 0..N /\ i # 0)
      BY <1>1
    <2>2. \A i \in 1..N : g[i] = Spread(R, g[i - 1])
      BY <1>4 DEF SpreadsTo
    <2>3. g[0] = {b}
      BY <1>4 DEF SpreadsTo
    <2> HIDE DEF N, R, More
    <2>4. \A i \in 0..N : g[i] = IF i = 0 THEN {b} ELSE More(g[i - 1])
      BY <1>3, <2>1, <2>2, <2>3
    <2> QED BY <2>4
  <1> DEFINE step == CHOOSE s : s = Step(s)
  <1>6. step = Step(step)
    <2> HIDE DEF Step
    <2> QED BY <1>5
  <1>7. ReachedWithoutDef(v, b) = step[N]
    BY DEF ReachedWithoutDef
  <1> HIDE DEF step
  <1>8. step[0] = {b} /\ \A i \in 1..N : step[i] = More(step[i - 1])
    <2>1. \A i \in 0..N : step[i] = IF i = 0 THEN {b} ELSE More(step[i - 1])
      <3> HIDE DEF More, N
      <3> QED BY <1>6
    <2>2. 0 \in 0..N /\ \A i \in 1..N : i \in 0..N /\ i # 0
      BY <1>1
    <2> HIDE DEF More, N
    <2> QED BY <2>1, <2>2
  <1>9. SpreadsTo(step, N, R, {b})
    <2> DEFINE I == SUBSET Blocks(func)
    <2>1. \A X \in I : More(X) \in I
      BY <1>1
    <2>2. step[0] \in I
      BY <1>8
    <2>3. \A i \in 0..N : step[i] \in I
      <3>1. \A i \in 1..N : step[i - 1] \in I => step[i] \in I
        <4> HIDE DEF More, N, I
        <4> QED BY <1>8, <2>1
      <3> HIDE DEF I, N, More
      <3> QED BY <1>1, <2>2, <3>1, IterationKeeps
    <2>4. \A i \in 1..N : i - 1 \in 0..N
      BY <1>1
    <2> HIDE DEF N, R, More
    <2> QED BY <1>3, <1>8, <2>3, <2>4 DEF SpreadsTo
  <1>10. /\ {b} \subseteq step[N] /\ step[N] \subseteq Blocks(func)
         /\ ClosedUnder(R, step[N])
    <2> HIDE DEF N, R
    <2> QED BY <1>1, <1>2, <1>9, SpreadFacts
  <1>11. \A c \in step[N] \ D : Successors(func, c) \subseteq step[N]
    BY <1>10 DEF ClosedUnder
  <1>12. ASSUME NEW S, b \in S,
                \A c \in (S \cap Blocks(func)) \ D : Successors(func, c) \subseteq S
         PROVE  step[N] \subseteq S
    <2>1. StaysIn(S, Blocks(func), R, {b})
      BY <1>12 DEF StaysIn
    <2>2. N \in Nat
      BY <1>1
    <2> HIDE DEF R, N
    <2> QED BY <1>2, <1>9, <2>1, <2>2, SpreadLeast
  <1> QED BY <1>7, <1>10, <1>11, <1>12

(* Likewise for the blocks reached without entering some blocks.            *)
LEMMA ReachFacts ==
    ASSUME NEW f, WellFormed(f), NEW from \in SUBSET Blocks(f), NEW avoided
    PROVE  LET reached == ReachedAvoiding(f, from, avoided) IN
           /\ from \ avoided \subseteq reached /\ reached \subseteq Blocks(f)
           /\ \A c \in reached : Successors(f, c) \ avoided \subseteq reached
           /\ \A S : from \ avoided \subseteq S
                      /\ (\A c \in S \cap Blocks(f) : Successors(f, c) \ avoided \subseteq S)
                    => reached \subseteq S
  <1> DEFINE N == Len(f.blocks)
             A == from \ avoided
             More(X) == UNION {{c} \cup (Successors(f, c) \ avoided) : c \in X}
             R == [c \in Blocks(f) |-> Successors(f, c) \ avoided]
             Step(s) == [n \in 0..N |-> IF n = 0 THEN A ELSE More(s[n - 1])]
  <1>1. /\ N \in Nat /\ IsFiniteSet(Blocks(f)) /\ Cardinality(Blocks(f)) <= N
        /\ \A c \in Blocks(f) : Successors(f, c) \subseteq Blocks(f)
    <2>1. f.blocks \in Seq(BlockShape) /\ \A c \in Blocks(f) : Successors(f, c) \subseteq Blocks(f)
      BY DEF WellFormed
    <2>2. N \in Nat /\ Blocks(f) = 1..N
      BY <2>1 DEF Blocks
    <2> HIDE DEF N
    <2>3. Cardinality(1..N) = IF 1 > N THEN 0 ELSE N - 1 + 1
      BY <2>2, FS_Interval
    <2>4. IsFiniteSet(1..N) /\ Cardinality(1..N) <= N
      BY <2>2, <2>3, FS_Interval
    <2> QED BY <2>1, <2>2, <2>4
  <1>2. R \in [Blocks(f) -> SUBSET Blocks(f)] /\ A \in SUBSET Blocks(f)
    BY <1>1
  <1>3. ASSUME NEW X \in SUBSET Blocks(f)
        PROVE  Spread(R, X) = More(X)
    <2>1. \A c \in X : R[c] = Successors(f, c) \ avoided
      OBVIOUS
    <2> HIDE DEF R
    <2> QED BY <2>1 DEF Spread
  <1>4. PICK g \in [0..N -> SUBSET Blocks(f)] : SpreadsTo(g, N, R, A)
    <2> HIDE DEF N, R, A
    <2> QED BY <1>1, <1>2, SpreadExists
  <1>5. g = Step(g)
    <2>1. \A i \in 0..N : i = 0 \/ (i \in 1..N /\ i - 1 \in 0..N /\ i # 0)
      BY <1>1
    <2>2. \A i \in 1..N : g[i] = Spread(R, g[i - 1])
      BY <1>4 DEF SpreadsTo
    <2>3. g[0] = A
      <3> HIDE DEF A
      <3> QED BY <1>4 DEF SpreadsTo
    <2> HIDE DEF N, R, More, A
    <2>4. \A i \in 0..N : g[i] = IF i = 0 THEN A ELSE More(g[i - 1])
      BY <1>3, <2>1, <2>2, <2>3
    <2> QED BY <2>4
  <1> DEFINE step == CHOOSE s : s = Step(s)
  <1>6. step = Step(step)
    <2> HIDE DEF Step
    <2> QED BY <1>5
  <1>7. ReachedAvoiding(f, from, avoided) = step[N]
    BY DEF ReachedAvoiding
  <1> HIDE DEF step
  <1>8. step[0] = A /\ \A i \in 1..N : step[i] = More(step[i - 1])
    <2>1. \A i \in 0..N : step[i] = IF i = 0 THEN A ELSE More(step[i - 1])
      <3> HIDE DEF More, N, A
      <3> QED BY <1>6
    <2>2. 0 \in 0..N /\ \A i \in 1..N : i \in 0..N /\ i # 0
      BY <1>1
    <2> HIDE DEF More, N, A
    <2> QED BY <2>1, <2>2
  <1>9. SpreadsTo(step, N, R, A)
    <2> DEFINE I == SUBSET Blocks(f)
    <2>1. \A X \in I : More(X) \in I
      BY <1>1
    <2>2. step[0] \in I
      BY <1>8
    <2>3. \A i \in 0..N : step[i] \in I
      <3>1. \A i \in 1..N : step[i - 1] \in I => step[i] \in I
        <4> HIDE DEF More, N, I
        <4> QED BY <1>8, <2>1
      <3> HIDE DEF I, N, More
      <3> QED BY <1>1, <2>2, <3>1, IterationKeeps
    <2>4. \A i \in 1..N : i - 1 \in 0..N
      BY <1>1
    <2> HIDE DEF N, R, More, A
    <2> QED BY <1>3, <1>8, <2>3, <2>4 DEF SpreadsTo
  <1>10. /\ A \subseteq step[N] /\ step[N] \subseteq Blocks(f)
         /\ ClosedUnder(R, step[N])
    <2> HIDE DEF N, R, A
    <2> QED BY <1>1, <1>2, <1>9, SpreadFacts
  <1>11. \A c \in step[N] : Successors(f, c) \ avoided \subseteq step[N]
    BY <1>10 DEF ClosedUnder
  <1>12. ASSUME NEW S, A \subseteq S,
                \A c \in S \cap Blocks(f) : Successors(f, c) \ avoided \subseteq S
         PROVE  step[N] \subseteq S
    <2>1. StaysIn(S, Blocks(f), R, A)
      BY <1>12 DEF StaysIn
    <2>2. N \in Nat
      BY <1>1
    <2> HIDE DEF R, N, A
    <2> QED BY <1>2, <1>9, <2>1, <2>2, SpreadLeast
  <1> HIDE DEF step, R, More
  <1> QED BY <1>7, <1>10, <1>11, <1>12

LEMMA ReachedAvoidingFacts ==
    ASSUME WellFormed(func), NEW from \in SUBSET Blocks(func), NEW avoided
    PROVE  LET reached == ReachedAvoiding(func, from, avoided) IN
           /\ from \ avoided \subseteq reached /\ reached \subseteq Blocks(func)
           /\ \A c \in reached : Successors(func, c) \ avoided \subseteq reached
           /\ \A S : from \ avoided \subseteq S
                      /\ (\A c \in S \cap Blocks(func) : Successors(func, c) \ avoided \subseteq S)
                    => reached \subseteq S
  BY ReachFacts

(* A block's instructions and its terminator.                               *)
LEMMA AllInstsFacts ==
    ASSUME WellFormed(func), NEW b \in Blocks(func)
    PROVE  LET last == Len(Insts(func, b)) IN
           /\ last \in Nat /\ DOMAIN Insts(func, b) = 1..last
           /\ DOMAIN AllInsts(b) = 1..(last + 1) /\ Len(AllInsts(b)) = last + 1
           /\ \A i \in 1..last : AllInsts(b)[i] = Insts(func, b)[i]
           /\ AllInsts(b)[last + 1].result = NoValue
           /\ AllInsts(b)[last + 1].args = Term(func, b).args
           /\ ~IsPhi(AllInsts(b)[last + 1])
  <1> DEFINE end == [op |-> "term", result |-> NoValue, args |-> Term(func, b).args, preds |-> << >>]
             S == InstShape \cup {end}
  <1>1. Insts(func, b) \in Seq(InstShape)
    <2>1. func.blocks[b] \in BlockShape
      BY DEF WellFormed, Blocks
    <2> QED BY <2>1 DEF BlockShape, Insts
  <1>2. Insts(func, b) \in Seq(S) /\ end \in S
    BY <1>1
  <1>3. AllInsts(b) = Append(Insts(func, b), end)
    BY DEF AllInsts
  <1>4. end.result = NoValue /\ end.args = Term(func, b).args /\ ~IsPhi(end)
    BY DEF IsPhi
  <1> HIDE DEF end, S
  <1> QED BY <1>2, <1>3, <1>4

(* Reads of a value before its block defines it.                            *)
UsedFirst(v, b) ==
    \E i \in DOMAIN AllInsts(b) :
        /\ ~IsPhi(AllInsts(b)[i]) /\ v \in Uses(AllInsts(b)[i])
        /\ \A j \in 1..(i - 1) : AllInsts(b)[j].result # v

LEMMA UpwardUsesExact ==
    ASSUME WellFormed(func), NEW b \in Blocks(func), NEW v \in candidates, v # NoValue
    PROVE  v \in UpwardUses(b) <=> UsedFirst(v, b)
  <1> DEFINE insts == Insts(func, b)
             last == Len(insts)
             before(i) == DefinedBefore(b, i)
             early == {i \in DOMAIN insts : ~IsPhi(insts[i]) /\ v \in Uses(insts[i])
                                             /\ v \notin before(i)}
  <1>1. /\ last \in Nat /\ DOMAIN insts = 1..last /\ DOMAIN AllInsts(b) = 1..(last + 1)
        /\ \A i \in 1..last : AllInsts(b)[i] = insts[i]
        /\ AllInsts(b)[last + 1].args = Term(func, b).args
        /\ ~IsPhi(AllInsts(b)[last + 1])
    BY AllInstsFacts
  <1>2. v \in UpwardUses(b) <=>
            early # {} \/ (v \in Elements(Term(func, b).args) /\ v \notin Results(func, b))
    <2> DEFINE readers == {j \in DOMAIN Insts(func, b) : ~IsPhi(Insts(func, b)[j])}
               reads == UNION {Uses(Insts(func, b)[i]) \ DefinedBefore(b, i) : i \in readers}
               final == Elements(Term(func, b).args) \ Results(func, b)
    <2>1. v \in UpwardUses(b) <=> v \in reads \/ v \in final
      BY DEF UpwardUses
    <2>2. v \in reads <=> \E i \in readers : v \in Uses(Insts(func, b)[i]) \ DefinedBefore(b, i)
      OBVIOUS
    <2> HIDE DEF reads
    <2> QED BY <2>1, <2>2
  <1>3. \A i \in 1..last : v \notin before(i) <=> \A j \in 1..(i - 1) : AllInsts(b)[j].result # v
    <2>1. \A i \in 1..last : \A j \in 1..(i - 1) : AllInsts(b)[j] = insts[j]
      <3>1. \A i \in 1..last : \A j \in 1..(i - 1) : j \in 1..last
        BY <1>1
      <3> QED BY <1>1, <3>1
    <2> QED BY <2>1 DEF DefinedBefore
  <1>4. v \notin Results(func, b) <=> \A j \in 1..last : AllInsts(b)[j].result # v
    BY <1>1 DEF Results
  <1>5. early # {} <=> \E i \in 1..last :
            /\ ~IsPhi(AllInsts(b)[i]) /\ v \in Uses(AllInsts(b)[i])
            /\ \A j \in 1..(i - 1) : AllInsts(b)[j].result # v
    <2> HIDE DEF last
    <2> QED BY <1>1, <1>3
  <1>6. UsedFirst(v, b) <=> early # {} \/ (v \in Elements(Term(func, b).args) /\ v \notin Results(func, b))
    <2>1. \A i \in DOMAIN AllInsts(b) : i \in 1..last \/ i = last + 1
      BY <1>1
    <2>2. last + 1 \in DOMAIN AllInsts(b) /\ last + 1 - 1 = last /\ \A i \in 1..last : i \in DOMAIN AllInsts(b)
      BY <1>1
    <2>3. v \in Elements(Term(func, b).args) <=> v \in Uses(AllInsts(b)[last + 1])
      BY <1>1 DEF Uses
    <2> DEFINE reads(i) == /\ ~IsPhi(AllInsts(b)[i]) /\ v \in Uses(AllInsts(b)[i])
                           /\ \A j \in 1..(i - 1) : AllInsts(b)[j].result # v
    <2>4. UsedFirst(v, b) <=> \E i \in DOMAIN AllInsts(b) : reads(i)
      BY DEF UsedFirst
    <2>5. early # {} <=> \E i \in 1..last : reads(i)
      BY <1>5
    <2>6. reads(last + 1) <=> v \in Elements(Term(func, b).args) /\ v \notin Results(func, b)
      <3> HIDE DEF early, last
      <3> QED BY <1>1, <1>4, <2>2, <2>3
    <2> HIDE DEF early, last, reads
    <2> QED BY <2>1, <2>2, <2>4, <2>5, <2>6
  <1> HIDE DEF early
  <1> QED BY <1>2, <1>6

LEMMA NeededInParts ==
    ASSUME NEW b, NEW v
    PROVE  NeededIn(v, b) <=>
             \/ UsedFirst(v, b)
             \/ b \notin DefBlocks(v) /\ \E s \in Successors(func, b) : v \in EdgePhiUses(b, s)
  BY DEF NeededIn, UsedFirst

-----------------------------------------------------------------------------
(* Liveness is exact.                                                       *)

LEMMA CandidateFacts ==
    ASSUME TypeOK, NEW v \in candidates
    PROVE  /\ v \in Values(func) /\ v # NoValue
           /\ \A b \in Blocks(func) : v \in Defs(b) <=> b \in DefBlocks(v)
           /\ \A b \in Blocks(func) : v \in PhiDefs(b) => b \in DefBlocks(v)
  <1>1. v \in Values(func) /\ v # NoValue
    <2>1. func.kind \in Seq(Kinds) /\ candidates \subseteq DOMAIN func.kind
      BY DEF TypeOK, WellFormed, Values
    <2>2. v \in 1..Len(func.kind)
      BY <2>1
    <2> QED BY <2>1, <2>2 DEF Values, NoValue
  <1>2. \A b \in Blocks(func) : v \in Defs(b) <=> b \in DefBlocks(v)
    BY DEF Defs, DefBlocks
  <1>3. \A b \in Blocks(func) : v \in PhiDefs(b) => b \in DefBlocks(v)
    <2>1. \A b : PhiResults(func, b) \ {NoValue} \subseteq Results(func, b)
      BY DEF PhiResults, Phis, Results
    <2> QED BY <1>1, <2>1 DEF PhiDefs, DefBlocks
  <1> QED BY <1>1, <1>2, <1>3

(* A value that is read, or phi input, after a block is reached without     *)
(* passing its definition, is needed at the blocks before.                  *)
LEMMA NeededFromSuccessor ==
    ASSUME TypeOK, NEW v \in candidates, NEW b \in Blocks(func), b \notin DefBlocks(v),
           NEW s \in Successors(func, b), v \in LiveInByPaths(s)
    PROVE  v \in LiveInByPaths(b)
  <1>1. WellFormed(func)
    BY DEF TypeOK
  <1>2. s \in Blocks(func)
    BY <1>1, FuncFacts
  <1>3. PICK c \in ReachedWithoutDef(v, s) : NeededIn(v, c)
    BY DEF LiveInByPaths
  <1>4. b \in ReachedWithoutDef(v, b)
    BY <1>1, ReachedWithoutDefFacts
  <1>5. /\ s \in ReachedWithoutDef(v, b)
        /\ \A d \in (ReachedWithoutDef(v, b) \cap Blocks(func)) \ DefBlocks(v) :
              Successors(func, d) \subseteq ReachedWithoutDef(v, b)
    BY <1>1, <1>4, ReachedWithoutDefFacts
  <1>6. ReachedWithoutDef(v, s) \subseteq ReachedWithoutDef(v, b)
    <2> DEFINE S == ReachedWithoutDef(v, b)
    <2>1. s \in S /\ \A d \in (S \cap Blocks(func)) \ DefBlocks(v) : Successors(func, d) \subseteq S
      BY <1>5
    <2> HIDE DEF S
    <2>2. ReachedWithoutDef(v, s) \subseteq S
      BY <1>1, <1>2, <2>1, ReachedWithoutDefFacts
    <2> QED BY <2>2 DEF S
  <1> QED BY <1>3, <1>6 DEF LiveInByPaths

(* While iterating, a set holds nothing that no path needs ...              *)
NeededOnly == \A b \in Blocks(func) : liveIn[b] \subseteq LiveInByPaths(b)

LEMMA NextInNeeded ==
    ASSUME TypeOK, NeededOnly, NEW b \in Blocks(func)
    PROVE  NextIn(b) \subseteq LiveInByPaths(b)
  <1>1. WellFormed(func) /\ Successors(func, b) \subseteq Blocks(func)
    BY FuncFacts DEF TypeOK
  <1> SUFFICES ASSUME NEW v \in NextIn(b) PROVE v \in LiveInByPaths(b)
    OBVIOUS
  <1>2. b \in ReachedWithoutDef(v, b)
    BY <1>1, ReachedWithoutDefFacts
  <1>3. CASE v \in UpwardUses(b)
    <2>1. v \in candidates /\ v # NoValue
      BY <1>3, CandidateFacts DEF UpwardUses
    <2>2. NeededIn(v, b)
      BY <1>1, <1>3, <2>1, UpwardUsesExact, NeededInParts
    <2> QED BY <1>2, <2>1, <2>2 DEF LiveInByPaths
  <1>4. CASE v \in NextOut(b) \ Defs(b)
    <2>1. PICK s \in Successors(func, b) : v \in (liveIn[s] \ PhiDefs(s)) \cup EdgePhiUses(b, s)
      BY <1>4 DEF NextOut
    <2>2. liveIn[s] \subseteq LiveInByPaths(s)
      BY <1>1, <2>1 DEF NeededOnly
    <2>3. v \in candidates
      BY <2>1, <2>2 DEF EdgePhiUses, LiveInByPaths
    <2>4. b \notin DefBlocks(v)
      BY <1>4, <2>3, CandidateFacts
    <2>5. CASE v \in EdgePhiUses(b, s)
      <3>1. NeededIn(v, b)
        BY <2>4, <2>5, NeededInParts
      <3> QED BY <1>2, <2>3, <3>1 DEF LiveInByPaths
    <2>6. CASE v \in liveIn[s]
      BY <2>2, <2>3, <2>4, <2>6, NeededFromSuccessor
    <2> QED BY <2>1, <2>5, <2>6
  <1> QED BY <1>3, <1>4 DEF NextIn

(* ... and a verified function reads no phi of a block before the phi.      *)
LEMMA PhiReadLater ==
    ASSUME TypeOK, Verified(func), NEW v \in candidates, NEW b \in Blocks(func), v \in PhiDefs(b)
    PROVE  ~UsedFirst(v, b)
  <1> SUFFICES ASSUME UsedFirst(v, b) PROVE FALSE
    OBVIOUS
  <1>1. WellFormed(func) /\ v # NoValue
    BY CandidateFacts DEF TypeOK
  <1>2. PICK k \in DOMAIN Insts(func, b) : IsPhi(Insts(func, b)[k]) /\ Insts(func, b)[k].result = v
    BY DEF PhiDefs, PhiResults, Phis
  <1> DEFINE last == Len(Insts(func, b))
  <1>3. /\ last \in Nat /\ DOMAIN Insts(func, b) = 1..last /\ DOMAIN AllInsts(b) = 1..(last + 1)
        /\ \A i \in 1..last : AllInsts(b)[i] = Insts(func, b)[i]
        /\ AllInsts(b)[last + 1].args = Term(func, b).args
    BY <1>1, AllInstsFacts
  <1>4. IsInst(func, v)
    <2>1. <<b, k>> \in Sites(func) /\ ResultAt(func, <<b, k>>) = v
      BY <1>2 DEF Sites, ResultAt
    <2> QED BY <1>1, <2>1 DEF Verified, SingleAssignment
  <1>5. \A c \in Blocks(func) : v \in Results(func, c) => c = b
    <2> SUFFICES ASSUME NEW c \in Blocks(func), v \in Results(func, c) PROVE c = b
      OBVIOUS
    <2>1. PICK m \in DOMAIN Insts(func, c) : Insts(func, c)[m].result = v
      BY DEF Results
    <2>2. /\ <<c, m>> \in Sites(func) /\ ResultAt(func, <<c, m>>) = v
          /\ <<b, k>> \in Sites(func) /\ ResultAt(func, <<b, k>>) = v
      BY <1>2, <2>1 DEF Sites, ResultAt
    <2>3. <<c, m>> = <<b, k>>
      BY <1>1, <2>2 DEF Verified, SingleAssignment
    <2> QED BY <2>3
  <1>6. OwnerBlock(func, v) = b
    <2>1. v \in Results(func, b)
      BY <1>1, <1>2 DEF Results
    <2>2. func.kind[v] # "param"
      BY <1>4 DEF IsInst
    <2> QED BY <1>5, <2>1, <2>2 DEF OwnerBlock
  <1>7. PICK i \in DOMAIN AllInsts(b) :
            /\ ~IsPhi(AllInsts(b)[i]) /\ v \in Uses(AllInsts(b)[i])
            /\ \A j \in 1..(i - 1) : AllInsts(b)[j].result # v
    BY DEF UsedFirst
  <1>8. OrdinaryUse(func, v, b, i)
    <2>1. CASE i \in 1..last
      <3>1. ~IsPhi(Insts(func, b)[i]) /\ v \in Uses(Insts(func, b)[i])
        BY <1>3, <1>7, <2>1
      <3> QED BY <1>3, <2>1, <3>1 DEF Verified, UsesDominated
    <2>2. CASE i = last + 1
      <3>1. v \in Elements(Term(func, b).args)
        BY <1>3, <1>7, <2>2 DEF Uses
      <3> QED BY <2>2, <3>1 DEF Verified, UsesDominated
    <2> QED BY <1>3, <2>1, <2>2
  <1>9. PICK j \in 1..(i - 1) : DefinedAt(func, v, b, j)
    BY <1>4, <1>6, <1>8 DEF OrdinaryUse
  <1>10. j \in 1..last /\ Insts(func, b)[j].result = v
    BY <1>3, <1>9 DEF DefinedAt
  <1> QED BY <1>3, <1>7, <1>9, <1>10

LEMMA SettledComplete ==
    ASSUME TypeOK, Verified(func), \A c \in Blocks(func) : Settled(c), NEW b \in Blocks(func)
    PROVE  LiveInByPaths(b) \subseteq liveIn[b]
  <1> SUFFICES ASSUME NEW v \in candidates, v \notin liveIn[b],
                      NEW c \in ReachedWithoutDef(v, b), NeededIn(v, c)
               PROVE  FALSE
    BY DEF LiveInByPaths
  <1> DEFINE S == {d \in Blocks(func) : v \notin liveIn[d] \/ v \in PhiDefs(d)}
  <1>1. WellFormed(func)
    BY DEF TypeOK
  <1>2. \A d \in Blocks(func) : Successors(func, d) \subseteq Blocks(func)
    BY <1>1, FuncFacts
  <1>3. ASSUME NEW d \in Blocks(func), v \notin liveIn[d]
        PROVE  /\ ~UsedFirst(v, d)
               /\ d \notin DefBlocks(v) => \A s \in Successors(func, d) :
                     v \notin EdgePhiUses(d, s) /\ (v \notin liveIn[s] \/ v \in PhiDefs(s))
    <2>1. liveIn[d] = NextIn(d)
      BY DEF Settled
    <2>2. v \notin UpwardUses(d) /\ (v \notin NextOut(d) \/ v \in Defs(d))
      BY <1>3, <2>1 DEF NextIn
    <2>3. ~UsedFirst(v, d)
      BY <1>1, <2>2, CandidateFacts, UpwardUsesExact
    <2>4. d \notin DefBlocks(v) => v \notin NextOut(d)
      BY <2>2, CandidateFacts
    <2> QED BY <2>3, <2>4 DEF NextOut
  <1>4. b \in S /\ \A d \in (S \cap Blocks(func)) \ DefBlocks(v) : Successors(func, d) \subseteq S
    <2> SUFFICES ASSUME NEW d \in S \ DefBlocks(v) PROVE Successors(func, d) \subseteq S
      OBVIOUS
    <2>1. v \notin PhiDefs(d)
      BY CandidateFacts
    <2> QED BY <1>2, <1>3, <2>1
  <1>5. c \in S
    <2> HIDE DEF S
    <2> QED BY <1>1, <1>4, ReachedWithoutDefFacts
  <1>6. CASE v \notin liveIn[c]
    BY <1>3, <1>5, <1>6, NeededInParts
  <1>7. CASE v \in PhiDefs(c)
    <2>1. c \in DefBlocks(v) /\ ~UsedFirst(v, c)
      BY <1>5, <1>7, CandidateFacts, PhiReadLater
    <2> QED BY <2>1, NeededInParts
  <1> QED BY <1>5, <1>6, <1>7

(* Where the variables come from: the function is one of the given ones,    *)
(* the candidates are the precise ones once chosen, only candidates are     *)
(* coloured and a function is coloured only after its sets settled.         *)
Origin ==
    /\ func \in Funcs
    /\ phase = "start" => candidates = {} /\ (\A b \in Blocks(func) : liveIn[b] = {})
    /\ phase # "start" => candidates = PreciseCandidates
    /\ phase \in {"start", "liveness"} => uncolored = {}
    /\ uncolored \subseteq candidates
    /\ phase = "color" => verdict = "converged"
    /\ phase \in {"local", "done"} => verdict \in {"converged", "none"}
    /\ verdict = "converged" => \A v \in Values(func) : regs[v] # NoReg => v \in candidates

LEMMA PathsStable ==
    ASSUME UNCHANGED <<func, candidates>>
    PROVE  \A b : LiveInByPaths(b)' = LiveInByPaths(b)
  <1>1. \A v : DefBlocks(v)' = DefBlocks(v)
    BY DEF DefBlocks
  <1>a. \A b : AllInsts(b)' = AllInsts(b)
    BY DEF AllInsts
  <1>b. \A b, s : EdgePhiUses(b, s)' = EdgePhiUses(b, s)
    BY DEF EdgePhiUses
  <1>2. \A v, b : NeededIn(v, b)' <=> NeededIn(v, b)
    BY <1>1, <1>a, <1>b DEF NeededIn
  <1>3. \A v, b : ReachedWithoutDef(v, b)' = ReachedWithoutDef(v, b)
    BY DEF ReachedWithoutDef, DefBlocks
  <1> QED BY <1>2, <1>3 DEF LiveInByPaths

LEMMA CandidatesStable ==
    ASSUME UNCHANGED func
    PROVE  PreciseCandidates' = PreciseCandidates
  <1>1. \A b : AllInsts(b)' = AllInsts(b)
    BY DEF AllInsts
  <1>2. \A u : InstAt(u)' = InstAt(u)
    BY <1>1 DEF InstAt
  <1>3. \A v : UsePositions(v)' = UsePositions(v)
    BY <1>1 DEF UsePositions
  <1>4. \A v, b : CallCrosses(v, b)' <=> CallCrosses(v, b)
    BY <1>3 DEF CallCrosses, DefinedIn, DefIndex, CallIndexes, UseIndexesIn
  <1>5. CallCrossing' = CallCrossing
    BY <1>4 DEF CallCrossing
  <1>6. CrossBlockCandidates' = CrossBlockCandidates
    BY <1>2, <1>3 DEF CrossBlockCandidates, IsTemporary
  <1> QED BY <1>5, <1>6 DEF PreciseCandidates

LEMMA NeededOnlyStable ==
    ASSUME NeededOnly, UNCHANGED <<func, candidates, liveIn>>
    PROVE  NeededOnly'
  BY PathsStable DEF NeededOnly

LEMMA OriginInit == Init => Origin /\ NeededOnly
  BY DEF Init, Unallocated, Origin, NeededOnly

LEMMA OriginStep == IInv /\ Origin /\ NeededOnly /\ [Next]_vars => Origin' /\ NeededOnly'
  <1> SUFFICES ASSUME IInv, Origin, NeededOnly, [Next]_vars PROVE Origin' /\ NeededOnly'
    OBVIOUS
  <1> USE DEF given, liveVars, allocVars
  <1>0. UNCHANGED <<func, budget>>
    BY DEF Next, Start, Analyse, GiveUp, BuildGraph, ColorNext, ColorEnd, AssignConservatively,
           AssignLocals, Done, vars
  <1>a. PreciseCandidates' = PreciseCandidates
    BY <1>0, CandidatesStable
  <1>1. CASE Start
    <2>1. candidates' = PreciseCandidates /\ phase = "start" /\ phase' = "liveness" /\ verdict' # "converged"
          /\ UNCHANGED <<liveIn, uncolored>>
      BY <1>1 DEF Start
    <2>2. NeededOnly'
      BY <1>0, <2>1 DEF NeededOnly, Origin
    <2> QED BY <1>0, <1>a, <2>1, <2>2 DEF Origin
  <1>2. CASE Analyse /\ VisitBlock
    <2>1. UNCHANGED <<candidates, phase, uncolored, regs, verdict>> /\ phase = "liveness" /\ next > 0
      BY <1>2 DEF Analyse, VisitBlock
    <2>2. next \in Blocks(func)
      BY <2>1, FuncFacts DEF IInv, TypeOK
    <2>3. NextIn(next) \subseteq LiveInByPaths(next)
      BY <2>2, NextInNeeded DEF IInv
    <2>4. \A b \in Blocks(func) : liveIn'[b] \subseteq LiveInByPaths(b)
      <3> DEFINE new == NextIn(next)
      <3>1. liveIn' = [liveIn EXCEPT ![next] = new]
        BY <1>2 DEF VisitBlock
      <3>2. liveIn \in [Blocks(func) -> SUBSET Values(func)]
        BY DEF IInv, TypeOK
      <3>3. new \subseteq LiveInByPaths(next)
        BY <2>3
      <3> HIDE DEF new
      <3> QED BY <2>2, <3>1, <3>2, <3>3 DEF NeededOnly
    <2>5. NeededOnly'
      BY <1>0, <2>1, <2>4, PathsStable DEF NeededOnly
    <2> QED BY <1>0, <1>a, <2>1, <2>5 DEF Origin
  <1>3. CASE Analyse /\ EndRound
    <2>1. UNCHANGED <<candidates, phase, uncolored, regs, liveIn>> /\ phase = "liveness"
      BY <1>3 DEF Analyse, EndRound
    <2>2. \A v \in Values(func) : regs[v] = NoReg
      BY <2>1 DEF IInv, Unassigned
    <2> QED BY <1>0, <1>a, <2>1, <2>2, NeededOnlyStable DEF Origin
  <1>4. CASE GiveUp
    <2>1. UNCHANGED <<candidates, phase, uncolored, regs, liveIn>> /\ phase = "liveness" /\ verdict' = "none"
      BY <1>4 DEF GiveUp
    <2> QED BY <1>0, <1>a, <2>1, NeededOnlyStable DEF Origin
  <1>5. CASE BuildGraph
    <2>1. /\ UNCHANGED <<candidates, verdict, regs, liveIn>> /\ phase = "liveness" /\ phase' = "color"
          /\ uncolored' = candidates /\ verdict = "converged"
      BY <1>5 DEF BuildGraph
    <2> QED BY <1>0, <1>a, <2>1, NeededOnlyStable DEF Origin
  <1>6. CASE ColorNext
    <2>1. /\ UNCHANGED <<candidates, verdict, phase, liveIn>> /\ phase = "color"
      BY <1>6 DEF ColorNext
    <2>2. PICK v \in uncolored : \E r : regs' = [regs EXCEPT ![v] = r] /\ uncolored' = uncolored \ {v}
      BY <1>6 DEF ColorNext
    <2>3. \A w \in Values(func) : regs'[w] # NoReg => w \in candidates
      BY <2>1, <2>2 DEF Origin, IInv, TypeOK
    <2> QED BY <1>0, <1>a, <2>1, <2>2, <2>3, NeededOnlyStable DEF Origin
  <1>7. CASE ColorEnd
    <2>1. UNCHANGED <<candidates, verdict, regs, liveIn, uncolored>> /\ phase = "color" /\ phase' = "local"
      BY <1>7 DEF ColorEnd
    <2> QED BY <1>0, <1>a, <2>1, NeededOnlyStable DEF Origin
  <1>8. CASE AssignConservatively
    <2>1. UNCHANGED <<candidates, verdict, liveIn, uncolored>> /\ phase = "liveness" /\ phase' = "local"
          /\ verdict = "none"
      BY <1>8 DEF AssignConservatively
    <2> QED BY <1>0, <1>a, <2>1, NeededOnlyStable DEF Origin
  <1>9. CASE AssignLocals
    <2>1. UNCHANGED <<candidates, verdict, regs, liveIn, uncolored>> /\ phase = "local" /\ phase' = "done"
      BY <1>9 DEF AssignLocals
    <2> QED BY <1>0, <1>a, <2>1, NeededOnlyStable DEF Origin
  <1>10. CASE UNCHANGED vars
    <2>1. UNCHANGED <<candidates, verdict, regs, liveIn, uncolored, phase>>
      BY <1>10 DEF vars
    <2> QED BY <1>0, <1>a, <2>1, NeededOnlyStable DEF Origin
  <1> QED
    BY <1>1, <1>2, <1>3, <1>4, <1>5, <1>6, <1>7, <1>8, <1>9, <1>10 DEF Next, Analyse, Done

THEOREM OriginInvariant == Spec => [](Origin /\ NeededOnly)
  <1>1. Init => Origin /\ NeededOnly
    BY OriginInit
  <1>2. IInv /\ (Origin /\ NeededOnly) /\ [Next]_vars => (Origin /\ NeededOnly)'
    BY OriginStep
  <1> QED BY <1>1, <1>2, Invariance, PTL DEF Spec

(* When the rounds of interference_graph settle, a candidate is in the live *)
(* set of a block exactly if a path from the block reaches a read of it     *)
(* before a definition: neither a missing value, whose register would be    *)
(* reused too early, nor a superfluous one.                                 *)
THEOREM LivenessExact == Spec => []LiveInExact
  <1>1. IInv /\ Origin /\ NeededOnly => LiveInExact
    <2> SUFFICES ASSUME IInv, Origin, NeededOnly, verdict = "converged", NEW b \in Blocks(func)
                 PROVE  liveIn[b] = LiveInByPaths(b)
      BY DEF LiveInExact
    <2>1. liveIn[b] \subseteq LiveInByPaths(b)
      BY DEF NeededOnly
    <2>2. LiveInByPaths(b) \subseteq liveIn[b]
      BY SettledComplete, FuncAssumption DEF IInv, Solved, Origin
    <2> QED BY <2>1, <2>2
  <1> QED BY <1>1, Invariance, OriginInvariant, PTL

-----------------------------------------------------------------------------
(* Values that are live together are in conflict.                           *)

(* A value that is live at the start of a block, or read by a phi of a      *)
(* block that follows, is needed on some path from there.                   *)
LEMMA LiveAtStart ==
    ASSUME WellFormed(func), NEW v, v # NoValue, NEW b \in Blocks(func), LiveAt(v, b, 0),
           \A s \in Successors(func, b) : \A phi \in Phis(func, s) :
              Incoming(phi, b) = v => v \in candidates
    PROVE  /\ b \notin DefBlocks(v)
           /\ \E c \in ReachedWithoutDef(v, b) : NeededIn(v, c)
  <1> DEFINE last == Len(Insts(func, b))
  <1>1. WellFormed(func) /\ v # NoValue
    OBVIOUS
  <1>2. /\ last \in Nat /\ DOMAIN Insts(func, b) = 1..last /\ DOMAIN AllInsts(b) = 1..(last + 1)
        /\ \A i \in 1..last : AllInsts(b)[i] = Insts(func, b)[i]
    BY <1>1, AllInstsFacts
  <1>3. \A j \in 1..last : Insts(func, b)[j].result # v
    BY <1>2 DEF LiveAt
  <1>4. b \notin DefBlocks(v)
    BY <1>2, <1>3 DEF DefBlocks, Results
  <1>5. b \in ReachedWithoutDef(v, b)
        /\ \A c \in ReachedWithoutDef(v, b) \ DefBlocks(v) :
              Successors(func, c) \subseteq ReachedWithoutDef(v, b)
    BY <1>1, ReachedWithoutDefFacts
  <1>6. ASSUME NEW j \in (0 + 1)..Len(AllInsts(b)), ~IsPhi(AllInsts(b)[j]), v \in Uses(AllInsts(b)[j])
        PROVE  UsedFirst(v, b)
    <2>1. Len(AllInsts(b)) = last + 1
      BY <1>1, AllInstsFacts
    <2>2. j \in DOMAIN AllInsts(b) /\ \A m \in 1..(j - 1) : m \in 1..last
      BY <1>2, <2>1
    <2>3. \A m \in 1..(j - 1) : AllInsts(b)[m].result # v
      BY <1>2, <1>3, <2>2
    <2> QED BY <1>6, <2>2, <2>3 DEF UsedFirst
  <1>7. ASSUME NEW s \in Successors(func, b), NEW phi \in Phis(func, s), Incoming(phi, b) = v
        PROVE  v \in EdgePhiUses(b, s)
    BY <1>7 DEF EdgePhiUses
  <1>8. ASSUME NEW s \in Successors(func, b), NEW c \in ReachedWithoutDef(v, s), NeededIn(v, c)
        PROVE  c \in ReachedWithoutDef(v, b)
    <2> DEFINE S == ReachedWithoutDef(v, b)
    <2>1. s \in S /\ s \in Blocks(func)
      BY <1>1, <1>4, <1>5, FuncFacts
    <2>2. \A d \in (S \cap Blocks(func)) \ DefBlocks(v) : Successors(func, d) \subseteq S
      BY <1>5
    <2> HIDE DEF S
    <2>3. ReachedWithoutDef(v, s) \subseteq S
      BY <1>1, <2>1, <2>2, ReachedWithoutDefFacts
    <2> QED BY <1>8, <2>3 DEF S
  <1>9. CASE \E j \in (0 + 1)..Len(AllInsts(b)) : ~IsPhi(AllInsts(b)[j]) /\ v \in Uses(AllInsts(b)[j])
    BY <1>4, <1>5, <1>6, <1>9, NeededInParts
  <1>10. CASE \E s \in Successors(func, b) :
                \/ \E phi \in Phis(func, s) : Incoming(phi, b) = v
                \/ \E c \in ReachedWithoutDef(v, s) : NeededIn(v, c)
    BY <1>4, <1>5, <1>7, <1>8, <1>10, NeededInParts
  <1> QED BY <1>4, <1>9, <1>10 DEF LiveAt

(* What is needed in a block that follows is in the block's live-out set.   *)
LEMMA NeededAtEnd ==
    ASSUME TypeOK, Verified(func), NEW v \in candidates, NEW b \in Blocks(func), Settled(b),
           \A c \in Blocks(func) : liveIn[c] = LiveInByPaths(c),
           NEW s \in Successors(func, b),
           \/ \E phi \in Phis(func, s) : Incoming(phi, b) = v
           \/ \E c \in ReachedWithoutDef(v, s) : NeededIn(v, c)
    PROVE  v \in liveOut[b]
  <1>1. WellFormed(func) /\ s \in Blocks(func)
    BY FuncFacts DEF TypeOK
  <1>2. liveOut[b] = NextOut(b)
    BY DEF Settled
  <1>3. CASE \E phi \in Phis(func, s) : Incoming(phi, b) = v
    <2>1. v \in EdgePhiUses(b, s)
      BY <1>3 DEF EdgePhiUses
    <2> QED BY <1>2, <2>1 DEF NextOut
  <1>4. CASE \E c \in ReachedWithoutDef(v, s) : NeededIn(v, c)
    <2>1. v \in liveIn[s]
      BY <1>1, <1>4 DEF LiveInByPaths
    <2>2. v \notin PhiDefs(s)
      <3> SUFFICES ASSUME v \in PhiDefs(s) PROVE FALSE
        OBVIOUS
      <3>1. s \in DefBlocks(v) /\ ~UsedFirst(v, s)
        BY <1>1, CandidateFacts, PhiReadLater
      <3>2. ~NeededIn(v, s)
        BY <3>1, NeededInParts
      <3> DEFINE S == {s}
      <3>3. s \in S /\ \A c \in (S \cap Blocks(func)) \ DefBlocks(v) : Successors(func, c) \subseteq S
        BY <3>1
      <3> HIDE DEF S
      <3>4. ReachedWithoutDef(v, s) \subseteq S
        BY <1>1, <3>3, ReachedWithoutDefFacts
      <3> QED BY <1>4, <3>2, <3>4 DEF S
    <2> QED BY <1>2, <2>1, <2>2 DEF NextOut
  <1> QED BY <1>3, <1>4

(* A value that is live at some point, and not defined between an           *)
(* instruction and that point, is among those the scan keeps clear.         *)
LEMMA LiveAtBeyond ==
    ASSUME TypeOK, Verified(func), NEW w \in candidates, NEW b \in Blocks(func), Settled(b),
           \A c \in Blocks(func) : liveIn[c] = LiveInByPaths(c),
           NEW j \in DOMAIN Insts(func, b), Insts(func, b)[j].result # w,
           NEW i \in 0..Len(Insts(func, b)), j <= i, LiveAt(w, b, i),
           \A m \in (j + 1)..i : Insts(func, b)[m].result # w
    PROVE  w \in LiveBeyond(b, j)
  <1> DEFINE last == Len(Insts(func, b))
             term == Elements(Term(func, b).args)
  <1>1. WellFormed(func)
    BY DEF TypeOK
  <1>2. /\ last \in Nat /\ DOMAIN Insts(func, b) = 1..last /\ Len(AllInsts(b)) = last + 1
        /\ \A k \in 1..last : AllInsts(b)[k] = Insts(func, b)[k]
        /\ AllInsts(b)[last + 1].args = Term(func, b).args
    BY <1>1, AllInstsFacts
  <1>3. \A m \in (j + 1)..last : Insts(func, b)[m].result # w
    <2>1. \A m \in (j + 1)..last : m \in (j + 1)..i \/ m \in (i + 1)..last
      BY <1>2
    <2> QED BY <2>1 DEF LiveAt
  <1>4. NotDefined(w, b, j + 1, last)
    BY <1>3 DEF NotDefined
  <1>5. ASSUME w \in liveOut[b] \cup term
        PROVE  w \in LiveAfter(b, j)
    BY <1>4, <1>5 DEF LiveAfter
  <1>6. ASSUME NEW m \in (i + 1)..Len(AllInsts(b)), ~IsPhi(AllInsts(b)[m]), w \in Uses(AllInsts(b)[m])
        PROVE  w \in LiveAfter(b, j)
    <2>1. CASE m = last + 1
      <3>1. w \in term
        BY <1>2, <1>6, <2>1 DEF Uses
      <3> QED BY <1>5, <3>1
    <2>2. CASE m # last + 1
      <3>1. m \in 1..last /\ m \in (j + 1)..last
        BY <1>2, <2>2
      <3>2. ~IsPhi(Insts(func, b)[m]) /\ w \in Uses(Insts(func, b)[m])
        BY <1>2, <1>6, <3>1
      <3>3. NotDefined(w, b, j + 1, m - 1)
        <4>1. \A k \in (j + 1)..(m - 1) : k \in (j + 1)..last
          BY <1>2, <3>1
        <4> QED BY <1>3, <4>1 DEF NotDefined
      <3> QED BY <3>1, <3>2, <3>3 DEF LiveAfter
    <2> QED BY <2>1, <2>2
  <1>7. ASSUME NEW s \in Successors(func, b),
               \/ \E phi \in Phis(func, s) : Incoming(phi, b) = w
               \/ \E c \in ReachedWithoutDef(w, s) : NeededIn(w, c)
        PROVE  w \in LiveAfter(b, j)
    BY <1>5, <1>7, NeededAtEnd
  <1> QED BY <1>6, <1>7 DEF LiveAt, LiveBeyond

(* What a phi receives from a predecessor is one of its operands.           *)
LEMMA IncomingFacts ==
    ASSUME WellFormed(func), Verified(func), NEW p \in Blocks(func), NEW s \in Successors(func, p),
           NEW m \in DOMAIN Insts(func, s), IsPhi(Insts(func, s)[m])
    PROVE  LET phi == Insts(func, s)[m] IN
           /\ s \in Blocks(func)
           /\ \E k \in DOMAIN phi.args : k \in DOMAIN phi.preds /\ phi.preds[k] = p
                                          /\ phi.args[k] = Incoming(phi, p)
  <1> DEFINE phi == Insts(func, s)[m]
             k == CHOOSE k \in DOMAIN phi.preds : phi.preds[k] = p
  <1>1. s \in Blocks(func) /\ p \in Predecessors(func, s)
    BY FuncFacts DEF Predecessors
  <1>2. Elements(phi.preds) = Predecessors(func, s) /\ Len(phi.args) = Len(phi.preds)
    BY <1>1 DEF Verified, PhisLeadBlocks
  <1>3. phi.args \in Seq(Nat) /\ phi.preds \in Seq(Nat)
    <2>1. func.blocks[s] \in BlockShape
      BY <1>1 DEF WellFormed, Blocks
    <2>2. Insts(func, s) \in Seq(InstShape)
      BY <2>1 DEF BlockShape, Insts
    <2>3. phi \in InstShape
      BY <2>2
    <2> QED BY <2>3 DEF InstShape
  <1>4. k \in DOMAIN phi.preds /\ phi.preds[k] = p
    BY <1>1, <1>2 DEF Elements
  <1>5. Incoming(phi, p) = phi.args[k]
    BY DEF Incoming
  <1> HIDE DEF k
  <1>6. k \in DOMAIN phi.args
    <2> HIDE DEF phi
    <2> QED BY <1>2, <1>3, <1>4
  <1> QED BY <1>1, <1>4, <1>5, <1>6

(* In a verified function nothing but a parameter is live on entry.         *)
LEMMA NothingNeededOnEntry ==
    ASSUME WellFormed(func), Verified(func), NEW v, v # NoValue, IsInst(func, v),
           NEW c \in ReachedWithoutDef(v, Entry), NeededIn(v, c)
    PROVE  FALSE
  <1>1. WellFormed(func) /\ Entry \in Blocks(func) /\ v # NoValue
    BY BlocksFinite
  <1> DEFINE o == OwnerBlock(func, v)
  <1>2. DefinedBy(func, v) => o \in Blocks(func) /\ v \in Results(func, o)
    BY DEF DefinedBy, IsInst, OwnerBlock
  <1>3. ReachedWithoutDef(v, Entry) \subseteq Blocks(func)
    BY <1>1, ReachedWithoutDefFacts
  <1>4. c \in Reachable(func)
    <2> DEFINE S == Reachable(func)
    <2>1. Entry \in S /\ \A d \in (S \cap Blocks(func)) \ DefBlocks(v) : Successors(func, d) \subseteq S
      <3>1. {Entry} \in SUBSET Blocks(func)
        BY <1>1
      <3>2. {Entry} \ {} \subseteq S /\ \A d \in S : Successors(func, d) \ {} \subseteq S
        BY <1>1, <3>1, ReachedAvoidingFacts DEF Reachable
      <3> QED BY <3>2
    <2> HIDE DEF S
    <2>2. c \in S
      BY <1>1, <2>1, ReachedWithoutDefFacts
    <2> QED BY <2>2 DEF S
  <1>5. ASSUME DefinedBy(func, v), AvailableIn(func, o, c)
        PROVE  c = o
    <2> DEFINE A == ReachedAvoiding(func, {Entry}, {o})
               S == A \cup {o}
    <2>1. c \notin A
      BY <1>4, <1>5 DEF AvailableIn, Dominates
    <2>2. {Entry} \in SUBSET Blocks(func)
      BY <1>1
    <2>3. {Entry} \ {o} \subseteq A /\ \A d \in A : Successors(func, d) \ {o} \subseteq A
      BY <1>1, <2>2, ReachedAvoidingFacts
    <2>4. o \in DefBlocks(v)
      BY <1>2, <1>5 DEF DefBlocks
    <2>5. Entry \in S /\ \A d \in (S \cap Blocks(func)) \ DefBlocks(v) : Successors(func, d) \subseteq S
      <3> HIDE DEF A
      <3> QED BY <2>3, <2>4
    <2>6. c \in S
      <3> HIDE DEF S
      <3> QED BY <1>1, <2>5, ReachedWithoutDefFacts
    <2> HIDE DEF A
    <2> QED BY <2>1, <2>6
  <1>6. CASE UsedFirst(v, c)
    <2> DEFINE last == Len(Insts(func, c))
    <2>1. /\ last \in Nat /\ DOMAIN Insts(func, c) = 1..last /\ DOMAIN AllInsts(c) = 1..(last + 1)
          /\ \A k \in 1..last : AllInsts(c)[k] = Insts(func, c)[k]
          /\ AllInsts(c)[last + 1].args = Term(func, c).args
      BY <1>1, <1>3, AllInstsFacts
    <2>2. PICK i \in DOMAIN AllInsts(c) :
              /\ ~IsPhi(AllInsts(c)[i]) /\ v \in Uses(AllInsts(c)[i])
              /\ \A j \in 1..(i - 1) : AllInsts(c)[j].result # v
      BY <1>6 DEF UsedFirst
    <2>3. OrdinaryUse(func, v, c, i)
      <3>1. CASE i \in 1..last
        <4>1. ~IsPhi(Insts(func, c)[i]) /\ v \in Uses(Insts(func, c)[i])
          BY <2>1, <2>2, <3>1
        <4> QED BY <1>3, <2>1, <3>1, <4>1 DEF Verified, UsesDominated
      <3>2. CASE i = last + 1
        <4>1. v \in Elements(Term(func, c).args)
          BY <2>1, <2>2, <3>2 DEF Uses
        <4> QED BY <1>3, <3>2, <4>1 DEF Verified, UsesDominated
      <3> QED BY <2>1, <3>1, <3>2
    <2>4. o = c
      BY <1>5, <2>3 DEF OrdinaryUse
    <2>5. PICK j \in 1..(i - 1) : DefinedAt(func, v, c, j)
      BY <2>3, <2>4 DEF OrdinaryUse
    <2> QED BY <2>1, <2>2, <2>5 DEF DefinedAt
  <1>7. CASE c \notin DefBlocks(v) /\ \E s \in Successors(func, c) : v \in EdgePhiUses(c, s)
    <2>0. PICK s \in Successors(func, c) : v \in EdgePhiUses(c, s)
      BY <1>7
    <2>1. PICK phi \in Phis(func, s) : Incoming(phi, c) = v
      BY <2>0 DEF EdgePhiUses
    <2>2. PICK m \in DOMAIN Insts(func, s) : phi = Insts(func, s)[m] /\ IsPhi(phi)
      BY <2>1 DEF Phis
    <2>3. s \in Blocks(func) /\ c \in Blocks(func)
      BY <1>1, <1>3, <2>0, FuncFacts
    <2>4. PICK k \in DOMAIN phi.args : phi.preds[k] = c /\ phi.args[k] = v
      BY <1>1, <2>0, <2>1, <2>2, <2>3, IncomingFacts
    <2>8. EdgeUse(func, v, c)
      BY <2>2, <2>3, <2>4 DEF Verified, UsesDominated
    <2>9. DefinedBy(func, v) /\ o = c
      BY <1>5, <2>8 DEF EdgeUse
    <2> QED BY <1>2, <1>7, <2>9 DEF DefBlocks
  <1> QED BY <1>6, <1>7, NeededInParts

(* The candidates live at a point of a block are pairwise in conflict.      *)
InConflict(b, i) ==
    \A v, w \in candidates : v # w /\ LiveAt(v, b, i) /\ LiveAt(w, b, i) => w \in InterferenceGraph[v]

Exact ==
    /\ TypeOK /\ Verified(func)
    /\ candidates = PreciseCandidates
    /\ \A b \in Blocks(func) : Settled(b) /\ liveIn[b] = LiveInByPaths(b)

LEMMA ConflictOnEntry ==
    ASSUME Exact
    PROVE  InConflict(Entry, 0)
  <1> SUFFICES ASSUME NEW v \in candidates, NEW w \in candidates, v # w,
                      LiveAt(v, Entry, 0), LiveAt(w, Entry, 0)
               PROVE  w \in InterferenceGraph[v]
    BY DEF InConflict
  <1>1. TypeOK /\ WellFormed(func) /\ Verified(func)
    BY DEF Exact, TypeOK
  <1>2. Entry \in Blocks(func)
    BY <1>1, BlocksFinite
  <1>3. ASSUME NEW x \in candidates, LiveAt(x, Entry, 0)
        PROVE  x \in Elements(func.params)
    <2>1. ~IsInst(func, x)
      BY <1>1, <1>2, <1>3, CandidateFacts, LiveAtStart, NothingNeededOnEntry
    <2>2. func.kind[x] # "const"
      BY <2>1 DEF Exact, PreciseCandidates, CrossBlockCandidates, CallCrossing, CallCrosses, DefinedIn,
                  IsTemporary, IsConst, IsInst
    <2>3. x \in Values(func) /\ func.kind[x] \in Kinds
      BY <1>1 DEF TypeOK, WellFormed, Values
    <2>4. func.kind[x] = "param"
      BY <2>1, <2>2, <2>3 DEF Kinds, IsInst
    <2> QED BY <1>1, <2>3, <2>4 DEF Verified
  <1>4. v \in Elements(func.params) /\ w \in Elements(func.params)
    BY <1>3
  <1>5. <<v, w>> \in ParameterConflicts
    <2>1. <<v, w>>[1] = v /\ <<v, w>>[2] = w
      OBVIOUS
    <2> QED BY <1>4, <2>1 DEF ParameterConflicts
  <1>6. v \in Values(func) /\ w \in Values(func)
    BY <1>1 DEF TypeOK
  <1> QED BY <1>5, <1>6 DEF InterferenceGraph

(* Within a block a new conflict can only arise at a definition.            *)
LEMMA ConflictInBlock ==
    ASSUME Exact, NEW b \in Blocks(func), InConflict(b, 0), NEW i \in 0..Len(Insts(func, b))
    PROVE  InConflict(b, i)
  <1> SUFFICES ASSUME NEW v \in candidates, NEW w \in candidates, v # w,
                      LiveAt(v, b, i), LiveAt(w, b, i)
               PROVE  w \in InterferenceGraph[v]
    BY DEF InConflict
  <1> DEFINE last == Len(Insts(func, b))
             defs == {j \in 1..i : Insts(func, b)[j].result \in {v, w}}
  <1>1. TypeOK /\ WellFormed(func) /\ Verified(func) /\ v \in Values(func) /\ w \in Values(func)
    BY DEF Exact, TypeOK
  <1>2. /\ last \in Nat /\ DOMAIN Insts(func, b) = 1..last /\ Len(AllInsts(b)) = last + 1
    BY <1>1, AllInstsFacts
  <1>3. CASE defs = {}
    <2>1. ASSUME NEW x \in {v, w}
          PROVE  LiveAt(x, b, 0)
      <3>1. LiveAt(x, b, i)
        OBVIOUS
      <3>2. \A j \in (0 + 1)..last : Insts(func, b)[j].result # x
        <4>1. \A j \in (0 + 1)..last : j \in 1..i \/ j \in (i + 1)..last
          BY <1>2
        <4> QED BY <1>3, <3>1, <4>1 DEF LiveAt
      <3>3. \A j \in (i + 1)..Len(AllInsts(b)) : j \in (0 + 1)..Len(AllInsts(b))
        BY <1>2
      <3> QED BY <3>1, <3>2, <3>3 DEF LiveAt
    <2> QED BY <2>1 DEF InConflict
  <1>4. CASE defs # {}
    <2>1. PICK j \in defs : \A k \in defs : k <= j
      <3>1. i \in Nat /\ defs \subseteq 0..i
        BY <1>2
      <3> HIDE DEF defs
      <3> QED BY <1>4, <3>1, GreatestElement
    <2>2. j \in DOMAIN Insts(func, b) /\ j <= i
      BY <1>2, <2>1
    <2>3. \A m \in (j + 1)..i : Insts(func, b)[m].result \notin {v, w}
      <3>1. \A m \in (j + 1)..i : m \in 1..i /\ ~(m <= j)
        BY <1>2, <2>1, <2>2
      <3> QED BY <2>1, <3>1
    <2>4. ASSUME NEW x \in {v, w}, NEW y \in {v, w}, x # y, Insts(func, b)[j].result = x
          PROVE  <<x, y>> \in DefinitionConflicts
      <3>1. y \in candidates /\ LiveAt(y, b, i) /\ Insts(func, b)[j].result # y
        BY <2>4
      <3>2. \A m \in (j + 1)..i : Insts(func, b)[m].result # y
        BY <2>3
      <3>3. y \in LiveBeyond(b, j)
        BY <1>1, <2>2, <3>1, <3>2, LiveAtBeyond DEF Exact
      <3>4. <<b, j>> \in Sites(func) /\ ResultAt(func, <<b, j>>) \in candidates
        BY <2>2, <2>4 DEF Sites, ResultAt
      <3>5. <<b, j>>[1] = b /\ <<b, j>>[2] = j
        OBVIOUS
      <3> QED BY <2>4, <3>3, <3>4, <3>5 DEF DefinitionConflicts
    <2>5. Insts(func, b)[j].result = v \/ Insts(func, b)[j].result = w
      BY <2>1
    <2>6. <<v, w>> \in DefinitionConflicts \/ <<w, v>> \in DefinitionConflicts
      BY <2>4, <2>5
    <2> QED BY <1>1, <2>6 DEF InterferenceGraph
  <1> QED BY <1>3, <1>4

(* Nor on an edge: what is live at the start of a block is live at the end  *)
(* of every block before it.                                                *)
LEMMA ConflictOnEdge ==
    ASSUME Exact, NEW p \in Blocks(func), NEW s \in Successors(func, p), InConflict(p, 0)
    PROVE  InConflict(s, 0)
  <1>1. TypeOK /\ WellFormed(func) /\ s \in Blocks(func)
    BY FuncFacts DEF Exact, TypeOK
  <1> DEFINE last == Len(Insts(func, p))
  <1>2. last \in Nat
    BY <1>1, AllInstsFacts
  <1>3. InConflict(p, last)
    BY <1>2, ConflictInBlock
  <1>4. ASSUME NEW v \in candidates, LiveAt(v, s, 0)
        PROVE  LiveAt(v, p, last)
    <2>1. \E c \in ReachedWithoutDef(v, s) : NeededIn(v, c)
      BY <1>1, <1>4, CandidateFacts, LiveAtStart
    <2>2. \A j \in (last + 1)..last : Insts(func, p)[j].result # v
      BY <1>2
    <2> QED BY <2>1, <2>2 DEF LiveAt
  <1> HIDE DEF last
  <1> QED BY <1>3, <1>4 DEF InConflict

LEMMA LiveTogetherConflict ==
    ASSUME Exact, NEW b \in Reachable(func), NEW i \in 0..Len(Insts(func, b))
    PROVE  InConflict(b, i)
  <1> DEFINE S == {c \in Blocks(func) : InConflict(c, 0)}
  <1>1. WellFormed(func) /\ Entry \in Blocks(func)
    BY BlocksFinite DEF Exact, TypeOK
  <1>2. \A c \in Blocks(func) : Successors(func, c) \subseteq Blocks(func)
    BY <1>1, FuncFacts
  <1>3. {Entry} \ {} \subseteq S
    BY <1>1, ConflictOnEntry
  <1>4. \A c \in S \cap Blocks(func) : Successors(func, c) \ {} \subseteq S
    BY <1>2, ConflictOnEdge
  <1>5. b \in S
    <2>1. {Entry} \in SUBSET Blocks(func)
      BY <1>1
    <2> HIDE DEF S
    <2>2. Reachable(func) \subseteq S
      BY <1>1, <1>3, <1>4, <2>1, ReachedAvoidingFacts DEF Reachable
    <2> QED BY <2>2
  <1> QED BY <1>5, ConflictInBlock

-----------------------------------------------------------------------------
(* Facts about sequences of registers.                                      *)

(* The elements at some indexes, each index used once.                      *)
LEMMA PickedFacts ==
    ASSUME NEW S, NEW s \in Seq(S), NEW K \in SUBSET DOMAIN s
    PROVE  LET m == Cardinality(K) a == Ascending(K) IN
           /\ m \in Nat
           /\ Picked(s, K) = [k \in 1..m |-> s[a[k]]]
           /\ \A k \in 1..m : a[k] \in K
           /\ \A j, k \in 1..m : a[j] = a[k] => j = k
           /\ \A i \in K : \E k \in 1..m : a[k] = i
  <1> DEFINE m == Cardinality(K)
             a == Ascending(K)
             at(k) == CHOOSE i \in K : Rank(K, i) = k - 1
  <1>1. K \in SUBSET (1..Len(s)) /\ Len(s) \in Nat
    OBVIOUS
  <1>2. /\ m \in Nat
        /\ \A i \in K : Rank(K, i) \in 0..(m - 1)
        /\ \A i, j \in K : Rank(K, i) = Rank(K, j) => i = j
        /\ \A k \in 0..(m - 1) : \E i \in K : Rank(K, i) = k
    BY <1>1, RankNumbers
  <1>3. \A k \in 1..m : at(k) \in K /\ Rank(K, at(k)) = k - 1
    <2> SUFFICES ASSUME NEW k \in 1..m PROVE at(k) \in K /\ Rank(K, at(k)) = k - 1
      OBVIOUS
    <2>1. k - 1 \in 0..(m - 1)
      <3> HIDE DEF m
      <3> QED BY <1>2
    <2> HIDE DEF m
    <2> QED BY <1>2, <2>1
  <1>4. a = [k \in 1..m |-> at(k)]
    BY DEF Ascending, Rank
  <1> HIDE DEF at, m
  <1>5. \A k \in 1..m : a[k] \in K /\ Rank(K, a[k]) = k - 1
    BY <1>3, <1>4
  <1>6. Picked(s, K) = [k \in 1..m |-> s[a[k]]]
    BY DEF Picked, m
  <1> HIDE DEF a
  <1>7. \A j, k \in 1..m : a[j] = a[k] => j = k
    BY <1>2, <1>5
  <1>8. ASSUME NEW i \in K
        PROVE  \E k \in 1..m : a[k] = i
    <2>1. Rank(K, i) + 1 \in 1..m /\ Rank(K, i) + 1 - 1 = Rank(K, i)
      BY <1>2
    <2>2. a[Rank(K, i) + 1] = i
      BY <1>2, <1>5, <2>1
    <2> QED BY <2>1, <2>2
  <1> QED BY <1>2, <1>5, <1>6, <1>7, <1>8 DEF a, m

LEMMA PickedElements ==
    ASSUME NEW S, NEW s \in Seq(S), NEW K \in SUBSET DOMAIN s
    PROVE  /\ Picked(s, K) \in Seq(S)
           /\ Elements(Picked(s, K)) = {s[i] : i \in K}
           /\ Distinct(s) => Distinct(Picked(s, K))
  <1> DEFINE m == Cardinality(K)
             a == Ascending(K)
             p == Picked(s, K)
  <1>1. /\ m \in Nat /\ p = [k \in 1..m |-> s[a[k]]]
        /\ \A k \in 1..m : a[k] \in K
        /\ \A j, k \in 1..m : a[j] = a[k] => j = k
        /\ \A i \in K : \E k \in 1..m : a[k] = i
    BY PickedFacts
  <1> HIDE DEF m, a, p
  <1>2. \A i \in K : i \in DOMAIN s /\ s[i] \in S
    OBVIOUS
  <1>3. p \in Seq(S) /\ DOMAIN p = 1..m
    BY <1>1, <1>2
  <1>4. Elements(p) = {s[i] : i \in K}
    BY <1>1, <1>3 DEF Elements
  <1>5. Distinct(s) => Distinct(p)
    BY <1>1, <1>2, <1>3 DEF Distinct
  <1> QED BY <1>3, <1>4, <1>5 DEF p

LEMMA ConcatAt ==
    ASSUME NEW S, NEW s \in Seq(S), NEW t \in Seq(S)
    PROVE  s \o t = [i \in 1..(Len(s) + Len(t)) |-> IF i <= Len(s) THEN s[i] ELSE t[i - Len(s)]]
  <1> DEFINE u == s \o t
             m == Len(s)
             n == Len(t)
  <1>1. u \in Seq(S) /\ Len(u) = m + n /\ DOMAIN u = 1..(m + n)
        /\ \A i \in 1..(m + n) : u[i] = IF i <= m THEN s[i] ELSE t[i - m]
    OBVIOUS
  <1>2. u \in [1..(m + n) -> S]
    <2> HIDE DEF u, m, n
    <2> QED BY <1>1
  <1> HIDE DEF u, m, n
  <1>3. u = [i \in 1..(m + n) |-> IF i <= m THEN s[i] ELSE t[i - m]]
    BY <1>1, <1>2
  <1> QED BY <1>3 DEF u, m, n

LEMMA ConcatElements ==
    ASSUME NEW S, NEW s \in Seq(S), NEW t \in Seq(S)
    PROVE  /\ s \o t \in Seq(S)
           /\ Elements(s \o t) = Elements(s) \cup Elements(t)
           /\ Distinct(s) /\ Distinct(t) /\ Elements(s) \cap Elements(t) = {} => Distinct(s \o t)
  <1> DEFINE u == s \o t
             m == Len(s)
             n == Len(t)
  <1>1. /\ u \in Seq(S) /\ m \in Nat /\ n \in Nat /\ Len(u) = m + n
        /\ DOMAIN u = 1..(m + n) /\ DOMAIN s = 1..m /\ DOMAIN t = 1..n
        /\ \A i \in 1..(m + n) : u[i] = IF i <= m THEN s[i] ELSE t[i - m]
    OBVIOUS
  <1> HIDE DEF u, m, n
  <1>2. \A i \in DOMAIN u : (i \in DOMAIN s /\ u[i] = s[i])
                            \/ (i > m /\ i - m \in DOMAIN t /\ u[i] = t[i - m])
    BY <1>1
  <1>3. \A i \in DOMAIN s : i \in DOMAIN u /\ u[i] = s[i]
    BY <1>1
  <1>4. \A i \in DOMAIN t : i + m \in DOMAIN u /\ u[i + m] = t[i]
    BY <1>1
  <1>5. Elements(u) = Elements(s) \cup Elements(t)
    BY <1>2, <1>3, <1>4 DEF Elements
  <1>6. ASSUME Distinct(s), Distinct(t), Elements(s) \cap Elements(t) = {},
               NEW i \in DOMAIN u, NEW j \in DOMAIN u, u[i] = u[j]
        PROVE  i = j
    <2>1. \A k \in DOMAIN s : \A l \in DOMAIN t : s[k] # t[l]
      BY <1>6 DEF Elements
    <2>2. CASE i \in DOMAIN s /\ u[i] = s[i] /\ j \in DOMAIN s /\ u[j] = s[j]
      BY <1>6, <2>2 DEF Distinct
    <2>3. CASE i > m /\ i - m \in DOMAIN t /\ u[i] = t[i - m] /\ j > m /\ j - m \in DOMAIN t /\ u[j] = t[j - m]
      <3>1. i - m = j - m
        BY <1>6, <2>3 DEF Distinct
      <3> QED BY <1>1, <3>1
    <2> QED BY <1>2, <1>6, <2>1, <2>2, <2>3
  <1> QED BY <1>1, <1>5, <1>6 DEF Distinct, u

LEMMA PopElements ==
    ASSUME NEW S, NEW s \in Seq(S), s # << >>, Distinct(s)
    PROVE  LET rest == SubSeq(s, 1, Len(s) - 1) IN
           /\ s[Len(s)] \in S /\ s[Len(s)] \in Elements(s)
           /\ rest \in Seq(S) /\ Distinct(rest)
           /\ Elements(rest) = Elements(s) \ {s[Len(s)]}
  <1> DEFINE n == Len(s)
             rest == SubSeq(s, 1, n - 1)
  <1>1. n \in Nat /\ n > 0 /\ DOMAIN s = 1..n /\ \A i \in 1..n : s[i] \in S
    OBVIOUS
  <1>2. /\ rest \in Seq(S) /\ DOMAIN rest = 1..(n - 1)
        /\ \A i \in 1..(n - 1) : rest[i] = s[i]
    BY <1>1
  <1>3. n \in DOMAIN s
    BY <1>1
  <1> HIDE DEF rest, n
  <1>4. Elements(rest) = Elements(s) \ {s[n]}
    <2>1. \A i \in 1..(n - 1) : i \in DOMAIN s /\ i # n
      BY <1>1
    <2>2. \A i \in DOMAIN s : i = n \/ i \in 1..(n - 1)
      BY <1>1
    <2> QED BY <1>2, <1>3, <2>1, <2>2 DEF Elements, Distinct
  <1>5. Distinct(rest)
    <2>1. \A i \in 1..(n - 1) : i \in DOMAIN s
      BY <1>1
    <2> QED BY <1>2, <2>1 DEF Distinct
  <1> QED BY <1>1, <1>2, <1>3, <1>4, <1>5 DEF Elements, rest, n

-----------------------------------------------------------------------------
(* The conservative allocator.                                              *)

(* Two values never get one register, and with a call in the function no    *)
(* value gets a caller-saved one.                                           *)
ExclusiveRegs ==
    verdict = "none" /\ phase \in {"local", "done"} =>
        /\ \A v, w \in Values(func) : regs[v] # NoReg /\ regs[v] = regs[w] => v = w
        /\ CallSites # {} => \A v \in Values(func) : regs[v] \notin CallerSaved

LEMMA PoolFacts ==
    /\ ConservativePool \in Seq(GlobalReg) /\ Distinct(ConservativePool)
    /\ CallSites # {} => Elements(ConservativePool) \cap CallerSaved = {}
  <1>1. /\ CallerSavedRegs \in Seq(GlobalReg) /\ IntRegs \in Seq(GlobalReg)
        /\ Distinct(CallerSavedRegs) /\ Distinct(IntRegs)
        /\ Elements(CallerSavedRegs) \cap Elements(IntRegs) = {}
    BY RegisterAssumption DEF GlobalReg, CallerSaved, CalleeSaved
  <1>2. Available \in Seq(GlobalReg) /\ Distinct(Available)
    BY <1>1, ConcatElements DEF Available
  <1>3. Elements(IntRegs) \cap CallerSaved = {}
    BY <1>1 DEF CallerSaved
  <1> QED BY <1>1, <1>2, <1>3 DEF ConservativePool, IsLeaf

LEMMA ConservativeExclusive ==
    /\ \A v, w, r : <<v, r>> \in ConservativePairs /\ <<w, r>> \in ConservativePairs => v = w
    /\ \A v, r : <<v, r>> \in ConservativePairs => r \in Elements(ConservativePool)
  <1> DEFINE pool == ConservativePool
             phis == Paired(PhiOrder, pool)
             done == {p[1] : p \in phis}
             others == CrossingOrder(CallCrossing \ done)
                         \o MemoryOrder(RemoteMemory \ (done \cup CallCrossing))
             taken == {p[2] : p \in phis}
             K == {i \in DOMAIN pool : pool[i] \notin taken}
             left == Leftover(taken)
  <1>1. ConservativePairs = phis \cup Paired(others, left)
    BY DEF ConservativePairs
  <1>2. pool \in Seq(GlobalReg) /\ Distinct(pool)
    BY PoolFacts
  <1>3. left = Picked(pool, K)
    BY DEF Leftover
  <1> HIDE DEF pool, others, done, left, phis
  <1>4. Distinct(left) /\ Elements(left) = {pool[i] : i \in K}
    BY <1>2, <1>3, PickedElements
  <1>5. \A vs, rs, v, r : <<v, r>> \in Paired(vs, rs) =>
            \E i \in DOMAIN vs \cap DOMAIN rs : v = vs[i] /\ r = rs[i]
    BY DEF Paired
  <1>6. ASSUME NEW vs, NEW rs, Distinct(rs), NEW v, NEW w, NEW r,
               <<v, r>> \in Paired(vs, rs), <<w, r>> \in Paired(vs, rs)
        PROVE  v = w
    BY <1>5, <1>6 DEF Distinct
  <1>7. \A v, r : <<v, r>> \in Paired(others, left) => r \in Elements(pool) /\ r \notin taken
    <2>1. \A v, r : <<v, r>> \in Paired(others, left) => r \in Elements(left)
      BY <1>5 DEF Elements
    <2> HIDE DEF taken
    <2> QED BY <1>4, <2>1 DEF Elements
  <1>8. \A v, r : <<v, r>> \in phis => r \in Elements(pool) /\ r \in taken
    <2>1. \A v, r : <<v, r>> \in phis => r \in Elements(pool)
      BY <1>5 DEF Elements, phis
    <2>2. \A v, r : <<v, r>> \in phis => r \in taken
      <3>1. \A v, r : <<v, r>>[2] = r
        OBVIOUS
      <3> QED BY <3>1
    <2> QED BY <2>1, <2>2
  <1> HIDE DEF taken
  <1>9. \A v, w, r : <<v, r>> \in phis /\ <<w, r>> \in phis => v = w
    BY <1>2, <1>6 DEF phis
  <1>10. \A v, w, r : <<v, r>> \in Paired(others, left) /\ <<w, r>> \in Paired(others, left) => v = w
    BY <1>4, <1>6
  <1>11. \A v, w, r : <<v, r>> \in ConservativePairs /\ <<w, r>> \in ConservativePairs => v = w
    BY <1>1, <1>7, <1>8, <1>9, <1>10
  <1>12. \A v, r : <<v, r>> \in ConservativePairs => r \in Elements(pool)
    BY <1>1, <1>7, <1>8
  <1> QED BY <1>11, <1>12 DEF pool

(* A value's register is one of the pairs handed out for it.                *)
LEMMA HandedPairs ==
    ASSUME NEW pairs, NEW registers, NoReg \notin registers, NEW v \in Values(func),
           Handed(pairs, registers)[v] # NoReg
    PROVE  Handed(pairs, registers)[v] \in registers /\ <<v, Handed(pairs, registers)[v]>> \in pairs
  <1> DEFINE r == Handed(pairs, registers)[v]
  <1>1. r = IF \E x \in registers : <<v, x>> \in pairs
            THEN CHOOSE x \in registers : <<v, x>> \in pairs ELSE NoReg
    BY DEF Handed
  <1>2. PICK x \in registers : <<v, x>> \in pairs
    BY <1>1
  <1> QED BY <1>1, <1>2

LEMMA ExclusiveStep == IInv /\ Origin /\ ExclusiveRegs /\ [Next]_vars => ExclusiveRegs'
  <1> SUFFICES ASSUME IInv, Origin, ExclusiveRegs, [Next]_vars PROVE ExclusiveRegs'
    OBVIOUS
  <1> USE DEF given, liveVars, allocVars
  <1>0. func' = func /\ CallSites' = CallSites
    <2>1. func' = func
      BY DEF Next, Start, Analyse, GiveUp, BuildGraph, ColorNext, ColorEnd, AssignConservatively,
             AssignLocals, Done, vars
    <2> QED BY <2>1 DEF CallSites
  <1>1. CASE Start \/ Analyse \/ GiveUp \/ BuildGraph \/ ColorNext
    <2>1. phase' \in {"liveness", "color"}
      BY <1>1 DEF Start, Analyse, GiveUp, BuildGraph, ColorNext
    <2> QED BY <2>1 DEF ExclusiveRegs
  <1>2. CASE ColorEnd
    <2>1. verdict' = verdict /\ phase = "color"
      BY <1>2 DEF ColorEnd
    <2> QED BY <2>1 DEF ExclusiveRegs, Origin
  <1>3. CASE AssignLocals \/ Done \/ UNCHANGED vars
    <2>1. UNCHANGED <<verdict, regs>> /\ (phase' = phase \/ phase = "local")
      BY <1>3 DEF AssignLocals, Done, vars
    <2> QED BY <1>0, <2>1 DEF ExclusiveRegs
  <1>4. CASE AssignConservatively /\ AllPhis = {}
    <2>1. \A v \in Values(func) : regs'[v] = NoReg
      BY <1>4 DEF AssignConservatively, IInv, Unassigned
    <2>2. NoReg \notin CallerSaved
      BY RegisterAssumption DEF GlobalReg
    <2> QED BY <1>0, <2>1, <2>2 DEF ExclusiveRegs
  <1>5. CASE AssignConservatively /\ AllPhis # {}
    <2> DEFINE pairs == ConservativePairs
    <2>1. regs' = Handed(pairs, GlobalReg)
      BY <1>5 DEF AssignConservatively
    <2> HIDE DEF pairs
    <2>2. NoReg \notin GlobalReg /\ NoReg \notin CallerSaved
      BY RegisterAssumption DEF GlobalReg
    <2>3. \A v \in Values(func) : regs'[v] # NoReg => <<v, regs'[v]>> \in pairs
      BY <2>1, <2>2, HandedPairs
    <2>4. /\ \A v, w, r : <<v, r>> \in pairs /\ <<w, r>> \in pairs => v = w
          /\ \A v, r : <<v, r>> \in pairs => r \in Elements(ConservativePool)
      BY ConservativeExclusive DEF pairs
    <2>5. CallSites # {} => \A v \in Values(func) : regs'[v] \notin CallerSaved
      BY <2>2, <2>3, <2>4, PoolFacts
    <2>6. \A v, w \in Values(func) : regs'[v] # NoReg /\ regs'[v] = regs'[w] => v = w
      BY <2>3, <2>4
    <2> QED BY <1>0, <2>5, <2>6 DEF ExclusiveRegs
  <1> QED BY <1>1, <1>2, <1>3, <1>4, <1>5 DEF Next

THEOREM ExclusiveInvariant == Spec => []ExclusiveRegs
  <1>1. Init => ExclusiveRegs
    BY DEF Init, Unallocated, ExclusiveRegs
  <1> QED BY <1>1, ExclusiveStep, Invariance, OriginInvariant, PTL DEF Spec

-----------------------------------------------------------------------------
(* The block-local scan.                                                    *)

(* Where a block-local value is defined and last read.                      *)
LEMMA LocalFacts ==
    ASSUME WellFormed(func), NEW v \in Values(func), NEW b \in Blocks(func), LocalCandidate(v, b)
    PROVE  LET last == Len(Insts(func, b)) IN
           /\ last \in Nat
           /\ DefIndex(v, b) \in 1..last /\ Insts(func, b)[DefIndex(v, b)].result = v
           /\ LastUse(v, b) \in 1..last /\ DefIndex(v, b) < LastUse(v, b)
           /\ \A u \in UsePositions(v) : u[1] = b /\ u[2] \in 1..last /\ u[2] <= LastUse(v, b)
  <1> DEFINE last == Len(Insts(func, b))
             uses == UseIndexesIn(v, b)
  <1>1. last \in Nat /\ DOMAIN Insts(func, b) = 1..last /\ DOMAIN AllInsts(b) = 1..(last + 1)
    BY AllInstsFacts
  <1>2. DefIndex(v, b) \in 1..last /\ Insts(func, b)[DefIndex(v, b)].result = v
    <2>1. v \in Results(func, b)
      BY DEF LocalCandidate, DefinedIn
    <2>2. \E i \in DOMAIN Insts(func, b) : Insts(func, b)[i].result = v
      BY <2>1 DEF Results
    <2> QED BY <1>1, <2>2 DEF DefIndex
  <1>3. \A u \in UsePositions(v) : u[1] = b /\ DefIndex(v, b) < u[2] /\ u[2] <= last
    BY DEF LocalCandidate
  <1>4. \A u \in UsePositions(v) : u[2] \in DOMAIN AllInsts(u[1])
    BY DEF UsePositions
  <1>5. \A u \in UsePositions(v) : u[2] \in 1..last
    BY <1>1, <1>3, <1>4
  <1>6. uses = {u[2] : u \in UsePositions(v)}
    BY <1>3 DEF UseIndexesIn
  <1>7. uses \subseteq 0..last /\ uses # {} /\ \A i \in uses : DefIndex(v, b) < i /\ i \in 1..last
    <2>1. UsePositions(v) # {}
      BY DEF LocalCandidate
    <2>2. \A i \in uses : DefIndex(v, b) < i /\ i \in 1..last
      BY <1>3, <1>5, <1>6
    <2>3. uses # {}
      BY <1>6, <2>1
    <2> HIDE DEF uses
    <2> QED BY <1>1, <2>2, <2>3
  <1>8. LastUse(v, b) \in uses /\ \A j \in uses : j <= LastUse(v, b)
    <2>1. \E x \in uses : \A y \in uses : y <= x
      <3> HIDE DEF uses, last
      <3> QED BY <1>1, <1>7, GreatestElement
    <2> QED BY <2>1 DEF LastUse
  <1>9. \A u \in UsePositions(v) : u[2] \in uses
    BY <1>6
  <1> HIDE DEF uses
  <1> QED BY <1>1, <1>2, <1>3, <1>5, <1>7, <1>8, <1>9

(* The candidates of a block are scanned in the order of their definitions. *)
LEMMA LocalOrderFacts ==
    ASSUME WellFormed(func), NEW b \in Blocks(func)
    PROVE  LET order == LocalOrder(b) IN
           /\ Len(order) \in Nat /\ DOMAIN order = 1..Len(order)
           /\ \A n \in 1..Len(order) : order[n] \in Values(func) /\ LocalCandidate(order[n], b)
           /\ \A m, n \in 1..Len(order) : m < n => DefIndex(order[m], b) < DefIndex(order[n], b)
  <1> DEFINE S == {v \in Values(func) : LocalCandidate(v, b)}
             d == [v \in S |-> DefIndex(v, b)]
             K == {d[v] : v \in S}
             last == Len(Insts(func, b))
             order == LocalOrder(b)
             before(v) == {w \in S : DefIndex(w, b) < DefIndex(v, b)}
  <1>1. /\ last \in Nat /\ \A v \in S : d[v] \in 1..last /\ Insts(func, b)[d[v]].result = v
    <2>1. last \in Nat
      BY AllInstsFacts
    <2>2. \A v \in S : DefIndex(v, b) \in 1..last /\ Insts(func, b)[DefIndex(v, b)].result = v
      BY LocalFacts
    <2> QED BY <2>1, <2>2
  <1>2. IsFiniteSet(S)
    <2>1. func.kind \in Seq(Kinds)
      BY DEF WellFormed
    <2>2. Values(func) = 1..Len(func.kind) /\ Len(func.kind) \in Nat
      BY <2>1 DEF Values
    <2>3. IsFiniteSet(Values(func))
      <3>1. 1 \in Int /\ Len(func.kind) \in Int
        BY <2>2
      <3> QED BY <2>2, <3>1, FS_Interval
    <2> QED BY <2>3, FS_Subset
  <1>3. K \in SUBSET (1..last) /\ d \in [S -> K]
    <2> HIDE DEF S, last
    <2> QED BY <1>1
  <1>4. \A v, w \in S : d[v] = d[w] => v = w
    BY <1>1
  <1>5. order = [i \in 1..Cardinality(S) |-> CHOOSE v \in S : Cardinality(before(v)) = i - 1]
    BY DEF LocalOrder, Sorted
  <1>6. \A v \in S : \A w \in S : DefIndex(w, b) = d[w] /\ DefIndex(v, b) = d[v]
    OBVIOUS
  <1> HIDE DEF d, last, order
  <1>7. ASSUME NEW X \in SUBSET S
        PROVE  Cardinality({d[v] : v \in X}) = Cardinality(X)
    <2> DEFINE Y == {d[v] : v \in X}
               e == [v \in X |-> d[v]]
    <2>1. IsFiniteSet(X)
      BY <1>2, FS_Subset
    <2>2. e \in Bijection(X, Y)
      <3>1. e \in [X -> Y] /\ (\A y \in Y : \E x \in X : e[x] = y)
        OBVIOUS
      <3>2. \A x, y \in X : e[x] = e[y] => x = y
        BY <1>4
      <3> HIDE DEF e, Y
      <3>3. e \in Injection(X, Y) /\ e \in Surjection(X, Y)
        BY <3>1, <3>2 DEF Injection, Surjection, IsInjective
      <3> QED BY <3>3 DEF Bijection
    <2>3. ExistsBijection(X, Y)
      BY <2>2 DEF ExistsBijection
    <2> HIDE DEF Y
    <2>4. Cardinality(Y) = Cardinality(X)
      BY <2>1, <2>3, FS_Bijection
    <2> QED BY <2>4 DEF Y
  <1>8. Cardinality(K) = Cardinality(S)
    BY <1>7
  <1>9. \A v \in S : Cardinality(before(v)) = Rank(K, d[v])
    <2> SUFFICES ASSUME NEW v \in S PROVE Cardinality(before(v)) = Rank(K, d[v])
      OBVIOUS
    <2>1. {d[w] : w \in before(v)} = {j \in K : j < d[v]}
      BY <1>6
    <2>2. before(v) \in SUBSET S
      OBVIOUS
    <2>3. Cardinality({d[w] : w \in before(v)}) = Cardinality(before(v))
      <3> HIDE DEF before
      <3> QED BY <1>7, <2>2
    <2> QED BY <2>1, <2>3 DEF Rank
  <1> DEFINE m == Cardinality(K)
  <1>10. /\ m \in Nat
         /\ \A i \in K : Rank(K, i) \in 0..(m - 1)
         /\ \A i, j \in K : Rank(K, i) = Rank(K, j) => i = j
         /\ \A k \in 0..(m - 1) : \E i \in K : Rank(K, i) = k
    <2> HIDE DEF K
    <2> QED BY <1>1, <1>3, RankNumbers
  <1>11. \A v \in S : d[v] \in K
    OBVIOUS
  <1>12. \A i \in 1..m : order[i] \in S /\ Rank(K, d[order[i]]) = i - 1
    <2> SUFFICES ASSUME NEW i \in 1..m PROVE order[i] \in S /\ Rank(K, d[order[i]]) = i - 1
      OBVIOUS
    <2>1. i - 1 \in 0..(m - 1)
      <3> HIDE DEF m
      <3> QED BY <1>10
    <2>2. PICK k \in K : Rank(K, k) = i - 1
      <3> HIDE DEF m, K
      <3> QED BY <1>10, <2>1
    <2>3. PICK v \in S : k = d[v]
      OBVIOUS
    <2> DEFINE P(x) == Cardinality(before(x)) = i - 1
               x0 == CHOOSE x \in S : P(x)
    <2>4. P(v)
      BY <1>9, <2>2, <2>3
    <2>5. x0 \in S /\ P(x0)
      <3> HIDE DEF P, S
      <3> QED BY <2>3, <2>4
    <2>6. order[i] = x0
      BY <1>5, <1>8
    <2> QED BY <1>9, <2>5, <2>6
  <1>13. Len(order) = m /\ DOMAIN order = 1..m
    <2>1. order \in Seq(S) /\ DOMAIN order = 1..m
      <3> DEFINE at(i) == CHOOSE v \in S : Cardinality(before(v)) = i - 1
      <3>1. order = [i \in 1..m |-> at(i)]
        BY <1>5, <1>8
      <3>2. \A i \in 1..m : order[i] \in S
        BY <1>12
      <3> HIDE DEF at, m, S
      <3> QED BY <1>10, <3>1, <3>2
    <2> HIDE DEF m, S
    <2> QED BY <1>10, <2>1
  <1>14. \A v \in S : v \in Values(func) /\ LocalCandidate(v, b)
    OBVIOUS
  <1>15. ASSUME NEW i \in 1..m, NEW j \in 1..m, i < j
         PROVE  DefIndex(order[i], b) < DefIndex(order[j], b)
    <2> DEFINE x == d[order[i]]
               y == d[order[j]]
    <2>1. x \in K /\ y \in K /\ Rank(K, x) = i - 1 /\ Rank(K, y) = j - 1
      BY <1>11, <1>12
    <2>2. x \in Nat /\ y \in Nat
      BY <1>1, <1>3, <2>1
    <2>3. i \in Nat /\ j \in Nat
      BY <1>10
    <2> HIDE DEF x, y
    <2>4. ~(y <= x)
      <3> SUFFICES ASSUME y <= x PROVE FALSE
        OBVIOUS
      <3> DEFINE A == {k \in K : k < y}
                 B == {k \in K : k < x}
      <3>1. A \in SUBSET B
        <4>1. \A k \in K : k \in Nat
          BY <1>1, <1>3
        <4> HIDE DEF K
        <4> QED BY <2>2, <4>1
      <3>2. IsFiniteSet(B)
        <4>1. IsFiniteSet(K)
          BY <1>1, <1>3, RankNumbers
        <4> QED BY <4>1, FS_Subset
      <3>3. Cardinality(A) <= Cardinality(B)
        BY <3>1, <3>2, FS_Subset
      <3>4. Cardinality(A) = j - 1 /\ Cardinality(B) = i - 1
        BY <2>1 DEF Rank
      <3> HIDE DEF A, B
      <3> QED BY <1>15, <2>3, <3>3, <3>4
    <2>5. x < y
      BY <2>2, <2>4
    <2>6. DefIndex(order[i], b) = x /\ DefIndex(order[j], b) = y
      BY <1>6, <1>12 DEF x, y
    <2> QED BY <2>5, <2>6
  <1> HIDE DEF m, S
  <1> QED BY <1>10, <1>12, <1>13, <1>14, <1>15 DEF order

(* The states of the scan: pairs of values and registers, a stack of free   *)
(* registers and the intervals that hold the others.                        *)
IntervalShape == [end : Nat, reg : LocalReg]
ScanShape == [regs : SUBSET (Values(func) \X LocalReg), free : Seq(LocalReg), active : Seq(IntervalShape)]
RegsOf(intervals) == [i \in DOMAIN intervals |-> intervals[i].reg]

LEMMA RegsOfFacts ==
    ASSUME NEW s \in Seq(IntervalShape)
    PROVE  /\ RegsOf(s) \in Seq(LocalReg) /\ DOMAIN RegsOf(s) = DOMAIN s
           /\ Elements(RegsOf(s)) = {x.reg : x \in Elements(s)}
           /\ \A K \in SUBSET DOMAIN s : RegsOf(Picked(s, K)) = Picked(RegsOf(s), K)
           /\ \A t \in Seq(IntervalShape) : RegsOf(s \o t) = RegsOf(s) \o RegsOf(t)
  <1> DEFINE n == Len(s)
             p == RegsOf(s)
  <1>0. \A x \in IntervalShape : x.reg \in LocalReg
    BY DEF IntervalShape
  <1>1. n \in Nat /\ DOMAIN s = 1..n /\ \A i \in 1..n : s[i] \in IntervalShape /\ s[i].reg \in LocalReg
    BY <1>0
  <1>2. p = [i \in 1..n |-> s[i].reg]
    BY <1>1 DEF RegsOf
  <1> HIDE DEF n, p
  <1>3. p \in Seq(LocalReg) /\ DOMAIN p = 1..n /\ Len(p) = n
    BY <1>1, <1>2
  <1>4. Elements(p) = {x.reg : x \in Elements(s)}
    BY <1>1, <1>2 DEF Elements
  <1>5. ASSUME NEW K \in SUBSET DOMAIN s
        PROVE  RegsOf(Picked(s, K)) = Picked(p, K)
    <2> DEFINE m == Cardinality(K)
               a == Ascending(K)
    <2>1. m \in Nat /\ Picked(s, K) = [k \in 1..m |-> s[a[k]]] /\ \A k \in 1..m : a[k] \in K
      BY PickedFacts
    <2>2. Picked(p, K) = [k \in 1..m |-> p[a[k]]]
      BY DEF Picked
    <2> HIDE DEF m, a
    <2> QED BY <1>1, <1>2, <2>1, <2>2 DEF RegsOf
  <1>6. ASSUME NEW t \in Seq(IntervalShape)
        PROVE  RegsOf(s \o t) = p \o RegsOf(t)
    <2> DEFINE k == Len(t)
               q == RegsOf(t)
               u == s \o t
    <2>1. k \in Nat /\ DOMAIN t = 1..k /\ \A i \in 1..k : t[i] \in IntervalShape /\ t[i].reg \in LocalReg
      BY <1>0
    <2>2. q = [i \in 1..k |-> t[i].reg]
      BY <2>1 DEF RegsOf
    <2>3. /\ DOMAIN u = 1..(n + k)
          /\ \A i \in 1..(n + k) : u[i] = IF i <= n THEN s[i] ELSE t[i - n]
      BY DEF n
    <2> HIDE DEF k, q, u
    <2>4. q \in Seq(LocalReg) /\ Len(q) = k
      BY <2>1, <2>2
    <2>5. p \o q = [i \in 1..(n + k) |-> IF i <= n THEN p[i] ELSE q[i - n]]
      <3>1. p \in Seq(LocalReg) /\ q \in Seq(LocalReg)
        BY <1>3, <2>4
      <3>2. p \o q = [i \in 1..(Len(p) + Len(q)) |-> IF i <= Len(p) THEN p[i] ELSE q[i - Len(p)]]
        BY <3>1, ConcatAt
      <3> QED BY <1>3, <2>4, <3>2
    <2>6. \A i \in 1..(n + k) : (i <= n => i \in 1..n) /\ (~(i <= n) => i - n \in 1..k)
      BY <1>1, <2>1
    <2>7. RegsOf(u) = [i \in 1..(n + k) |-> u[i].reg]
      BY <2>3 DEF RegsOf
    <2>8. \A i \in 1..(n + k) : u[i].reg = IF i <= n THEN p[i] ELSE q[i - n]
      BY <1>2, <2>2, <2>3, <2>6
    <2>9. RegsOf(u) = p \o q
      BY <2>5, <2>7, <2>8
    <2> QED BY <2>9 DEF q, u
  <1> QED BY <1>1, <1>3, <1>4, <1>5, <1>6 DEF p

LEMMA ScanType ==
    ASSUME NEW b, NEW sc \in ScanShape, NEW v \in Values(func), LastUse(v, b) \in Nat
    PROVE  ScanLocal(b, sc, v) \in ScanShape
  <1> DEFINE start == DefIndex(v, b)
             end == LastUse(v, b)
             active == sc.active
             gone == Picked(active, {i \in DOMAIN active : Expired(active[i], start)})
             kept == Picked(active, {i \in DOMAIN active : ~Expired(active[i], start)})
             free == sc.free \o RegsOf(gone)
             reg == free[Len(free)]
             low == Picked(kept, {i \in DOMAIN kept : kept[i].end <= end})
             high == Picked(kept, {i \in DOMAIN kept : kept[i].end > end})
             rest == SubSeq(free, 1, Len(free) - 1)
             one == <<[end |-> end, reg |-> reg]>>
             none == [sc EXCEPT !.active = kept, !.free = free]
             some == [regs |-> sc.regs \cup {<<v, reg>>}, free |-> rest, active |-> low \o one \o high]
  <1>1. ScanLocal(b, sc, v) = IF free = << >> THEN none ELSE some
    BY DEF ScanLocal, RegsOf
  <1>2. /\ sc.regs \in SUBSET (Values(func) \X LocalReg) /\ sc.free \in Seq(LocalReg)
        /\ active \in Seq(IntervalShape)
        /\ sc = [regs |-> sc.regs, free |-> sc.free, active |-> active]
    BY DEF ScanShape
  <1>3. gone \in Seq(IntervalShape) /\ kept \in Seq(IntervalShape)
    BY <1>2, PickedElements
  <1> HIDE DEF gone, kept
  <1>4. free \in Seq(LocalReg)
    <2>1. RegsOf(gone) \in Seq(LocalReg)
      BY <1>3, RegsOfFacts
    <2> QED BY <1>2, <2>1
  <1>5. low \in Seq(IntervalShape) /\ high \in Seq(IntervalShape)
    BY <1>3, PickedElements
  <1> HIDE DEF free, low, high
  <1>6. CASE free = << >>
    <2> DEFINE half == [sc EXCEPT !.active = kept]
    <2>1. half \in ScanShape
      BY <1>3 DEF ScanShape
    <2>2. none \in ScanShape
      <3>1. none = [half EXCEPT !.free = free]
        OBVIOUS
      <3> HIDE DEF half, none
      <3> QED BY <1>4, <2>1, <3>1 DEF ScanShape
    <2> QED BY <1>1, <1>6, <2>2
  <1>7. CASE free # << >>
    <2>1. reg \in LocalReg /\ rest \in Seq(LocalReg)
      BY <1>4, <1>7
    <2> HIDE DEF reg, rest
    <2>2. [end |-> end, reg |-> reg] \in IntervalShape
      BY <2>1 DEF IntervalShape
    <2>3. one \in Seq(IntervalShape)
      BY <2>2
    <2> HIDE DEF one
    <2>4. low \o one \o high \in Seq(IntervalShape)
      BY <1>5, <2>3
    <2>5. <<v, reg>> \in Values(func) \X LocalReg
      BY <2>1
    <2>6. some \in ScanShape
      BY <1>2, <2>1, <2>4, <2>5 DEF ScanShape
    <2> QED BY <1>1, <1>7, <2>6
  <1> QED BY <1>6, <1>7

(* A state of the scan after the candidates before a point of the block:    *)
(* every register is free or in one interval, and a register handed out is  *)
(* in its value's interval until the value has been read for the last time. *)
Disjoint(sc) == Distinct(sc.free) /\ Distinct(RegsOf(sc.active))
                  /\ Elements(sc.free) \cap Elements(RegsOf(sc.active)) = {}
Kept(b, sc, start) ==
    \A p \in sc.regs :
        \/ [end |-> LastUse(p[1], b), reg |-> p[2]] \in Elements(sc.active)
        \/ LastUse(p[1], b) <= start
Apart(b, v, w) == LastUse(v, b) <= DefIndex(w, b) \/ LastUse(w, b) <= DefIndex(v, b)
PairsApart(b, sc) == \A p, q \in sc.regs : p[1] # q[1] /\ p[2] = q[2] => Apart(b, p[1], q[1])

LEMMA ScanKeeps ==
    ASSUME NEW b, NEW sc \in ScanShape, NEW v \in Values(func),
           DefIndex(v, b) \in Nat, LastUse(v, b) \in Nat, Disjoint(sc), Kept(b, sc, DefIndex(v, b)),
           PairsApart(b, sc)
    PROVE  LET new == ScanLocal(b, sc, v) IN
           /\ Disjoint(new) /\ Kept(b, new, DefIndex(v, b)) /\ PairsApart(b, new)
           /\ \A p \in new.regs : p \in sc.regs \/ p[1] = v
  <1> DEFINE start == DefIndex(v, b)
             end == LastUse(v, b)
             active == sc.active
             G == {i \in DOMAIN active : Expired(active[i], start)}
             L == {i \in DOMAIN active : ~Expired(active[i], start)}
             gone == Picked(active, G)
             kept == Picked(active, L)
             free == sc.free \o RegsOf(gone)
             reg == free[Len(free)]
             lowIdx == {i \in DOMAIN kept : kept[i].end <= end}
             highIdx == {i \in DOMAIN kept : kept[i].end > end}
             low == Picked(kept, lowIdx)
             high == Picked(kept, highIdx)
             new == ScanLocal(b, sc, v)
             none == [sc EXCEPT !.active = kept, !.free = free]
             rest == SubSeq(free, 1, Len(free) - 1)
             one == <<[end |-> end, reg |-> reg]>>
             inserted == low \o one \o high
             some == [regs |-> sc.regs \cup {<<v, reg>>}, free |-> rest, active |-> inserted]
  <1>1. new = IF free = << >> THEN none ELSE some
    BY DEF ScanLocal, RegsOf
  <1>2. /\ sc.regs \in SUBSET (Values(func) \X LocalReg) /\ sc.free \in Seq(LocalReg)
        /\ active \in Seq(IntervalShape)
        /\ sc = [regs |-> sc.regs, free |-> sc.free, active |-> active]
    BY DEF ScanShape
  <1> HIDE DEF new
  <1>3. /\ gone \in Seq(IntervalShape) /\ Elements(gone) = {active[i] : i \in G}
        /\ kept \in Seq(IntervalShape) /\ Elements(kept) = {active[i] : i \in L}
    BY <1>2, PickedElements
  <1> DEFINE R == RegsOf(active)
  <1>4. R \in Seq(LocalReg) /\ DOMAIN R = DOMAIN active /\ Distinct(R)
    BY <1>2, RegsOfFacts DEF Disjoint
  <1>5. RegsOf(gone) = Picked(R, G) /\ RegsOf(kept) = Picked(R, L)
    BY <1>2, RegsOfFacts
  <1>6. /\ RegsOf(gone) \in Seq(LocalReg) /\ Distinct(RegsOf(gone))
        /\ Elements(RegsOf(gone)) = {R[i] : i \in G}
        /\ RegsOf(kept) \in Seq(LocalReg) /\ Distinct(RegsOf(kept))
        /\ Elements(RegsOf(kept)) = {R[i] : i \in L}
    <2>1. G \in SUBSET DOMAIN R /\ L \in SUBSET DOMAIN R
      BY <1>4
    <2> HIDE DEF R, G, L
    <2> QED BY <1>4, <1>5, <2>1, PickedElements
  <1>7. /\ Elements(RegsOf(gone)) \cap Elements(RegsOf(kept)) = {}
        /\ Elements(RegsOf(gone)) \subseteq Elements(R) /\ Elements(RegsOf(kept)) \subseteq Elements(R)
    <2> DEFINE A == Elements(RegsOf(gone))
               B == Elements(RegsOf(kept))
    <2>1. A = {R[i] : i \in G} /\ B = {R[i] : i \in L}
      BY <1>6
    <2>2. \A i \in G : i \in DOMAIN R /\ i \notin L
      BY <1>4
    <2>3. \A i \in L : i \in DOMAIN R
      BY <1>4
    <2> HIDE DEF A, B, G, L, R
    <2>4. A \cap B = {} /\ A \subseteq Elements(R) /\ B \subseteq Elements(R)
      BY <1>4, <2>1, <2>2, <2>3 DEF Distinct, Elements
    <2> QED BY <2>4 DEF A, B
  <1>8. /\ free \in Seq(LocalReg) /\ Distinct(free)
        /\ Elements(free) \cap Elements(RegsOf(kept)) = {}
    <2>1. Distinct(sc.free) /\ Elements(sc.free) \cap Elements(R) = {}
      BY DEF Disjoint
    <2>2. Elements(sc.free) \cap Elements(RegsOf(gone)) = {}
      BY <1>7, <2>1
    <2> HIDE DEF gone, kept, R
    <2>3. free \in Seq(LocalReg) /\ Elements(free) = Elements(sc.free) \cup Elements(RegsOf(gone))
          /\ Distinct(free)
      BY <1>2, <1>6, <2>1, <2>2, ConcatElements
    <2> QED BY <1>7, <2>1, <2>3
  <1>9. \A p \in sc.regs : [end |-> LastUse(p[1], b), reg |-> p[2]] \in Elements(kept)
                           \/ LastUse(p[1], b) <= start
    <2> SUFFICES ASSUME NEW p \in sc.regs, ~(LastUse(p[1], b) <= start)
                 PROVE  [end |-> LastUse(p[1], b), reg |-> p[2]] \in Elements(kept)
      OBVIOUS
    <2> DEFINE x == [end |-> LastUse(p[1], b), reg |-> p[2]]
    <2>1. x \in Elements(active)
      BY DEF Kept
    <2>2. PICK i \in DOMAIN active : active[i] = x
      BY <2>1 DEF Elements
    <2>3. x.end = LastUse(p[1], b)
      OBVIOUS
    <2>4. i \in L
      BY <2>2, <2>3 DEF Expired
    <2> HIDE DEF x, L
    <2>5. x \in Elements(kept)
      BY <1>3, <2>2, <2>4
    <2> QED BY <2>5 DEF x
  <1> HIDE DEF G, L, gone, kept, free, R
  <1>10. CASE free = << >>
    <2>1. new = none /\ new.regs = sc.regs /\ new.free = free /\ new.active = kept
      BY <1>1, <1>2, <1>10
    <2>4. Disjoint(new)
      BY <1>6, <1>8, <2>1 DEF Disjoint
    <2>5. Kept(b, new, start)
      BY <1>9, <2>1 DEF Kept
    <2>6. PairsApart(b, new)
      BY <2>1 DEF PairsApart
    <2> QED BY <2>1, <2>4, <2>5, <2>6 DEF new
  <1>11. CASE free # << >>
    <2>1. new = some /\ new.regs = sc.regs \cup {<<v, reg>>} /\ new.free = rest /\ new.active = inserted
      BY <1>1, <1>11
    <2>2. /\ reg \in LocalReg /\ reg \in Elements(free)
          /\ rest \in Seq(LocalReg) /\ Distinct(rest) /\ Elements(rest) = Elements(free) \ {reg}
      BY <1>8, <1>11, PopElements
    <2> HIDE DEF reg, rest
    <2>3. one \in Seq(IntervalShape) /\ Elements(one) = {[end |-> end, reg |-> reg]}
          /\ RegsOf(one) = <<reg>>
      <3> DEFINE x == [end |-> end, reg |-> reg]
      <3>1. x \in IntervalShape /\ x.reg = reg
        BY <2>2 DEF IntervalShape
      <3> HIDE DEF x
      <3>2. one = <<x>>
        BY DEF x
      <3>3. <<x>> \in Seq(IntervalShape) /\ DOMAIN <<x>> = {1} /\ <<x>>[1] = x
        BY <3>1
      <3>4. Elements(<<x>>) = {x}
        BY <3>3 DEF Elements
      <3>5. RegsOf(<<x>>) = <<reg>>
        BY <3>1, <3>3 DEF RegsOf
      <3> QED BY <3>2, <3>3, <3>4, <3>5 DEF x
    <2> HIDE DEF one
    <2>4. /\ lowIdx \in SUBSET DOMAIN kept /\ highIdx \in SUBSET DOMAIN kept
          /\ lowIdx \cap highIdx = {} /\ DOMAIN kept \subseteq lowIdx \cup highIdx
      <3>1. \A x \in IntervalShape : x.end \in Nat
        BY DEF IntervalShape
      <3>2. \A i \in DOMAIN kept : kept[i].end \in Nat
        BY <1>3, <3>1
      <3> QED BY <3>2
    <2> HIDE DEF lowIdx, highIdx
    <2>5. /\ low \in Seq(IntervalShape) /\ Elements(low) = {kept[i] : i \in lowIdx}
          /\ high \in Seq(IntervalShape) /\ Elements(high) = {kept[i] : i \in highIdx}
      BY <1>3, <2>4, PickedElements
    <2> DEFINE Q == RegsOf(kept)
    <2>6. Q \in Seq(LocalReg) /\ DOMAIN Q = DOMAIN kept
      BY <1>3, RegsOfFacts
    <2>7. RegsOf(low) = Picked(Q, lowIdx) /\ RegsOf(high) = Picked(Q, highIdx)
      BY <1>3, <2>4, RegsOfFacts
    <2>8. Distinct(Q) /\ reg \notin Elements(Q)
      BY <1>6, <1>8, <2>2
    <2> HIDE DEF Q
    <2>9. /\ RegsOf(low) \in Seq(LocalReg) /\ Distinct(RegsOf(low))
          /\ Elements(RegsOf(low)) = {Q[i] : i \in lowIdx}
          /\ RegsOf(high) \in Seq(LocalReg) /\ Distinct(RegsOf(high))
          /\ Elements(RegsOf(high)) = {Q[i] : i \in highIdx}
      BY <2>4, <2>6, <2>7, <2>8, PickedElements
    <2>10. /\ Elements(RegsOf(low)) \cap Elements(RegsOf(high)) = {}
           /\ Elements(RegsOf(low)) \subseteq Elements(Q) /\ Elements(RegsOf(high)) \subseteq Elements(Q)
      <3> DEFINE A == Elements(RegsOf(low))
                 B == Elements(RegsOf(high))
      <3>1. A = {Q[i] : i \in lowIdx} /\ B = {Q[i] : i \in highIdx}
        BY <2>9
      <3> HIDE DEF A, B
      <3>2. A \cap B = {} /\ A \subseteq Elements(Q) /\ B \subseteq Elements(Q)
        BY <2>4, <2>6, <2>8, <3>1 DEF Distinct, Elements
      <3> QED BY <3>2 DEF A, B
    <2> HIDE DEF low, high
    <2>11. /\ inserted \in Seq(IntervalShape)
           /\ Elements(inserted) = Elements(low) \cup Elements(one) \cup Elements(high)
      <3>1. low \o one \in Seq(IntervalShape) /\ Elements(low \o one) = Elements(low) \cup Elements(one)
        BY <2>3, <2>5, ConcatElements
      <3> DEFINE front == low \o one
      <3>3. inserted = front \o high
        OBVIOUS
      <3>4. front \in Seq(IntervalShape)
        BY <3>1
      <3> HIDE DEF front
      <3>2. front \o high \in Seq(IntervalShape)
            /\ Elements(front \o high) = Elements(front) \cup Elements(high)
        BY <2>5, <3>4, ConcatElements
      <3> HIDE DEF inserted
      <3> QED BY <3>1, <3>2, <3>3 DEF front
    <2>12. RegsOf(inserted) = RegsOf(low) \o <<reg>> \o RegsOf(high)
      <3>1. low \o one \in Seq(IntervalShape)
        BY <2>3, <2>5
      <3>2. RegsOf(low \o one) = RegsOf(low) \o <<reg>>
        BY <2>3, <2>5, RegsOfFacts
      <3> QED BY <2>5, <3>1, <3>2, RegsOfFacts
    <2>13. /\ Distinct(RegsOf(inserted))
           /\ Elements(RegsOf(inserted)) = Elements(RegsOf(low)) \cup {reg} \cup Elements(RegsOf(high))
      <3> DEFINE a == RegsOf(low)
                 c == RegsOf(high)
                 m == <<reg>>
      <3>1. m \in Seq(LocalReg) /\ Elements(m) = {reg} /\ Distinct(m)
        BY <2>2 DEF Elements, Distinct
      <3> HIDE DEF a, c, m
      <3>2. a \in Seq(LocalReg) /\ c \in Seq(LocalReg) /\ Distinct(a) /\ Distinct(c)
            /\ Elements(a) \cap Elements(c) = {} /\ reg \notin Elements(a) /\ reg \notin Elements(c)
        BY <2>8, <2>9, <2>10 DEF a, c
      <3>3. a \o m \in Seq(LocalReg) /\ Elements(a \o m) = Elements(a) \cup {reg} /\ Distinct(a \o m)
        BY <3>1, <3>2, ConcatElements
      <3>4. Elements(a \o m \o c) = Elements(a) \cup {reg} \cup Elements(c) /\ Distinct(a \o m \o c)
        <4> DEFINE front == a \o m
        <4>1. front \in Seq(LocalReg) /\ Elements(front) = Elements(a) \cup {reg} /\ Distinct(front)
          BY <3>3
        <4> HIDE DEF front
        <4>2. Elements(front) \cap Elements(c) = {}
          BY <3>2, <4>1
        <4>3. Elements(front \o c) = Elements(front) \cup Elements(c) /\ Distinct(front \o c)
          BY <3>2, <4>1, <4>2, ConcatElements
        <4> QED BY <4>1, <4>3 DEF front
      <3> QED BY <2>12, <3>4 DEF a, c, m
    <2> HIDE DEF inserted
    <2>15. Disjoint(new)
      <3>1. Elements(rest) \cap Elements(RegsOf(inserted)) = {}
        BY <1>8, <2>2, <2>10, <2>13 DEF Q
      <3> QED BY <2>1, <2>2, <2>13, <3>1 DEF Disjoint
    <2>16. Kept(b, new, start)
      <3>1. Elements(kept) \subseteq Elements(inserted)
        BY <2>4, <2>5, <2>11 DEF Elements
      <3>2. [end |-> end, reg |-> reg] \in Elements(inserted)
        BY <2>3, <2>11
      <3>3. <<v, reg>>[1] = v /\ <<v, reg>>[2] = reg
        OBVIOUS
      <3> QED BY <1>9, <2>1, <3>1, <3>2, <3>3 DEF Kept
    <2>17. PairsApart(b, new)
      <3>1. ASSUME NEW p \in sc.regs, p[2] = reg
            PROVE  LastUse(p[1], b) <= start
        <4> DEFINE x == [end |-> LastUse(p[1], b), reg |-> p[2]]
        <4>1. x.reg = reg
          BY <3>1
        <4>2. x \notin Elements(kept)
          <5> SUFFICES ASSUME x \in Elements(kept) PROVE FALSE
            OBVIOUS
          <5>1. PICK i \in DOMAIN kept : kept[i] = x
            BY DEF Elements
          <5> HIDE DEF x
          <5>2. Q[i] = reg
            BY <4>1, <5>1 DEF Q, RegsOf
          <5> QED BY <2>6, <2>8, <5>1, <5>2 DEF Elements
        <4> QED BY <1>9, <4>2
      <3>2. <<v, reg>>[1] = v /\ <<v, reg>>[2] = reg
        OBVIOUS
      <3>3. ASSUME NEW p \in sc.regs, p[2] = reg
            PROVE  Apart(b, p[1], v) /\ Apart(b, v, p[1])
        BY <3>1, <3>3 DEF Apart
      <3> QED BY <2>1, <3>2, <3>3 DEF PairsApart
    <2> QED BY <2>1, <2>15, <2>16, <2>17 DEF new
  <1> QED BY <1>10, <1>11

(* Two values of a block in one register: the later one is defined when the *)
(* earlier one has been read for the last time.                             *)
LEMMA LocalPairsApart ==
    ASSUME WellFormed(func), NEW b \in Blocks(func)
    PROVE  /\ \A p \in LocalPairs(b) : p[1] \in Values(func) /\ LocalCandidate(p[1], b)
           /\ \A p, q \in LocalPairs(b) : p[1] # q[1] /\ p[2] = q[2] => Apart(b, p[1], q[1])
  <1> DEFINE order == LocalOrder(b)
             N == Len(order)
             init == [regs |-> {}, free |-> LocalRegs, active |-> << >>]
             T == ScanShape
             F == [n \in 1..N |-> [x \in T |-> ScanLocal(b, x, order[n])]]
             Step(s) == [n \in 0..N |-> IF n = 0 THEN init ELSE ScanLocal(b, s[n - 1], order[n])]
  <1>1. /\ N \in Nat /\ DOMAIN order = 1..N
        /\ \A n \in 1..N : order[n] \in Values(func) /\ LocalCandidate(order[n], b)
        /\ \A m, n \in 1..N : m < n => DefIndex(order[m], b) < DefIndex(order[n], b)
    BY LocalOrderFacts
  <1>2. \A n \in 1..N : DefIndex(order[n], b) \in Nat /\ LastUse(order[n], b) \in Nat
    <2> SUFFICES ASSUME NEW n \in 1..N
                 PROVE  DefIndex(order[n], b) \in Nat /\ LastUse(order[n], b) \in Nat
      OBVIOUS
    <2>1. order[n] \in Values(func) /\ LocalCandidate(order[n], b)
      BY <1>1
    <2>2. LET last == Len(Insts(func, b)) IN
          last \in Nat /\ DefIndex(order[n], b) \in 1..last /\ LastUse(order[n], b) \in 1..last
      BY <2>1, LocalFacts
    <2> QED BY <2>2
  <1> HIDE DEF order, N
  <1>3. init \in T /\ Disjoint(init) /\ PairsApart(b, init) /\ init.regs = {}
    <2>1. << >> \in Seq(IntervalShape) /\ RegsOf(<< >>) = << >> /\ Elements(<< >>) = {}
      BY DEF RegsOf, Elements
    <2>2. Distinct(LocalRegs) /\ LocalRegs \in Seq(LocalReg)
      BY RegisterAssumption
    <2>3. init \in T
      BY <2>1, <2>2 DEF ScanShape
    <2>4. Distinct(<< >>)
      BY DEF Distinct
    <2> QED BY <2>1, <2>2, <2>3, <2>4 DEF Disjoint, PairsApart
  <1>4. \A n \in 1..N : \A x \in T : ScanLocal(b, x, order[n]) \in T
    BY <1>1, <1>2, ScanType
  <1> HIDE DEF T, init
  <1>5. F \in [1..N -> [T -> T]]
    BY <1>4
  <1>6. PICK g : StepsOf(g, T, init, F, N)
    <2> HIDE DEF F
    <2> QED BY <1>1, <1>3, <1>5, StepsExist
  <1>7. g = Step(g)
    <2>1. g \in [0..N -> T] /\ g[0] = init /\ \A i \in 1..N : g[i] = F[i][g[i - 1]]
      <3> HIDE DEF F
      <3> QED BY <1>6 DEF StepsOf
    <2>2. \A i \in 0..N : i = 0 \/ (i \in 1..N /\ i - 1 \in 0..N /\ i # 0)
      BY <1>1
    <2>3. \A i \in 1..N : i - 1 \in 0..N
      BY <1>1
    <2>4. \A i \in 1..N : g[i] = ScanLocal(b, g[i - 1], order[i])
      <3> SUFFICES ASSUME NEW i \in 1..N PROVE g[i] = ScanLocal(b, g[i - 1], order[i])
        OBVIOUS
      <3>1. g[i - 1] \in T
        BY <2>1, <2>3
      <3>2. F[i] = [x \in T |-> ScanLocal(b, x, order[i])]
        OBVIOUS
      <3>3. F[i][g[i - 1]] = ScanLocal(b, g[i - 1], order[i])
        <4> HIDE DEF F
        <4> QED BY <3>1, <3>2
      <3> QED BY <2>1, <3>3
    <2>5. \A i \in 0..N : g[i] = IF i = 0 THEN init ELSE ScanLocal(b, g[i - 1], order[i])
      BY <2>1, <2>2, <2>4
    <2> QED BY <2>1, <2>5
  <1> DEFINE scan == CHOOSE s : s = Step(s)
  <1>8. scan = Step(scan)
    <2> HIDE DEF Step
    <2> QED BY <1>7
  <1>9. LocalPairs(b) = scan[N].regs
    BY DEF LocalPairs, order, N, init
  <1> HIDE DEF scan
  <1>10. scan[0] = init /\ \A n \in 1..N : scan[n] = ScanLocal(b, scan[n - 1], order[n])
    <2>1. \A i \in 0..N : scan[i] = IF i = 0 THEN init ELSE ScanLocal(b, scan[i - 1], order[i])
      BY <1>8
    <2>2. 0 \in 0..N /\ \A i \in 1..N : i \in 0..N /\ i # 0
      BY <1>1
    <2> QED BY <2>1, <2>2
  <1> DEFINE Known(n) == \A p \in scan[n].regs : \E m \in 1..n : p[1] = order[m]
             Past(n) == \A p \in scan[n].regs :
                           \/ [end |-> LastUse(p[1], b), reg |-> p[2]] \in Elements(scan[n].active)
                           \/ n > 0 /\ LastUse(p[1], b) <= DefIndex(order[n], b)
             Good(n) == scan[n] \in T /\ Disjoint(scan[n]) /\ PairsApart(b, scan[n]) /\ Known(n) /\ Past(n)
             G == {n \in Nat : n <= N => Good(n)}
  <1>11. 0 \in G
    <2>1. Known(0) /\ Past(0)
      BY <1>3, <1>10
    <2> HIDE DEF Known, Past
    <2> QED BY <1>3, <1>10, <2>1
  <1>12. ASSUME NEW n \in Nat, n \in G
         PROVE  n + 1 \in G
    <2> SUFFICES ASSUME n + 1 <= N PROVE Good(n + 1)
      OBVIOUS
    <2> DEFINE old == scan[n]
               new == scan[n + 1]
               v == order[n + 1]
               start == DefIndex(v, b)
    <2>1. n + 1 \in 1..N /\ n + 1 - 1 = n /\ n <= N
      BY <1>1
    <2>2. Good(n)
      BY <1>12, <2>1
    <2>3. new = ScanLocal(b, old, v)
      BY <1>10, <2>1
    <2>4. v \in Values(func) /\ start \in Nat /\ LastUse(v, b) \in Nat
      BY <1>1, <1>2, <2>1
    <2>5. \A p \in old.regs : \E m \in 1..n : p[1] = order[m]
      BY <2>2
    <2>6. Kept(b, old, start)
      <3> SUFFICES ASSUME NEW p \in old.regs, n > 0, LastUse(p[1], b) <= DefIndex(order[n], b)
                   PROVE  LastUse(p[1], b) <= start
        BY <2>2 DEF Kept
      <3>1. n \in 1..N /\ n < n + 1
        BY <2>1
      <3>2. DefIndex(order[n], b) < start /\ DefIndex(order[n], b) \in Nat
        BY <1>1, <1>2, <2>1, <3>1
      <3>3. PICK m \in 1..n : p[1] = order[m]
        BY <2>5
      <3>4. m \in 1..N
        BY <1>1, <2>1
      <3>5. LastUse(p[1], b) \in Nat
        BY <1>2, <3>3, <3>4
      <3> QED BY <2>4, <3>2, <3>5
    <2>7. old \in T /\ Disjoint(old) /\ PairsApart(b, old)
      BY <2>2
    <2> HIDE DEF old, new, v, start
    <2>8. /\ Disjoint(new) /\ Kept(b, new, start) /\ PairsApart(b, new)
          /\ \A p \in new.regs : p \in old.regs \/ p[1] = v
      <3>1. old \in ScanShape
        BY <2>7 DEF T
      <3> QED BY <2>3, <2>4, <2>6, <2>7, <3>1, ScanKeeps DEF start
    <2>9. new \in T
      BY <1>4, <2>1, <2>3, <2>7 DEF v
    <2>10. \A p \in new.regs : \E m \in 1..(n + 1) : p[1] = order[m]
      <3>1. \A m \in 1..n : m \in 1..(n + 1)
        OBVIOUS
      <3>2. n + 1 \in 1..(n + 1)
        OBVIOUS
      <3> QED BY <2>5, <2>8, <3>1, <3>2 DEF v
    <2>11. \A p \in new.regs :
              \/ [end |-> LastUse(p[1], b), reg |-> p[2]] \in Elements(new.active)
              \/ n + 1 > 0 /\ LastUse(p[1], b) <= start
      BY <2>8 DEF Kept
    <2> QED BY <2>8, <2>9, <2>10, <2>11 DEF new, start, v
  <1>13. Good(N)
    <2>1. N \in G
      <3> HIDE DEF G
      <3> QED BY <1>1, <1>11, <1>12, SetInduction
    <2> HIDE DEF Good
    <2> QED BY <1>1, <2>1
  <1>14. \A p \in LocalPairs(b) : p[1] \in Values(func) /\ LocalCandidate(p[1], b)
    BY <1>1, <1>9, <1>13
  <1>15. \A p, q \in LocalPairs(b) : p[1] # q[1] /\ p[2] = q[2] => Apart(b, p[1], q[1])
    BY <1>9, <1>13 DEF PairsApart
  <1> QED BY <1>14, <1>15

-----------------------------------------------------------------------------
(* Block-local values are live only in their block, between their           *)
(* definition and their last use.                                           *)

(* Every read of a value is one of its positions.                           *)
LEMMA ReadPosition ==
    ASSUME NEW v, NEW b \in Blocks(func), NEW i \in DOMAIN AllInsts(b), v \in Uses(AllInsts(b)[i])
    PROVE  \E k : <<b, i, k>> \in UsePositions(v)
  <1>1. PICK k \in DOMAIN AllInsts(b)[i].args : AllInsts(b)[i].args[k] = v
    BY DEF Uses, Elements
  <1>2. <<b, i, k>> \in UsePositions(v)
    BY <1>1 DEF UsePositions
  <1> QED BY <1>2

LEMMA LocalLive ==
    ASSUME WellFormed(func), Verified(func), NEW v \in Values(func), NEW h \in Blocks(func),
           LocalCandidate(v, h), NEW b \in Blocks(func), NEW i \in 0..Len(Insts(func, b)),
           LiveAt(v, b, i)
    PROVE  b = h /\ DefIndex(v, h) <= i /\ i < LastUse(v, h)
  <1> DEFINE last == Len(Insts(func, h))
             def == DefIndex(v, h)
             end == LastUse(v, h)
  <1>1. /\ last \in Nat /\ def \in 1..last /\ Insts(func, h)[def].result = v
        /\ end \in 1..last /\ def < end
        /\ \A u \in UsePositions(v) : u[1] = h /\ u[2] \in 1..last /\ u[2] <= end
    BY LocalFacts
  <1>2. \A u \in UsePositions(v) : def < u[2] /\ ~IsPhi(InstAt(u))
    BY DEF LocalCandidate
  <1>3. \A u \in UsePositions(v) : InstAt(u) = AllInsts(u[1])[u[2]]
    BY DEF InstAt
  <1> HIDE DEF def, end
  <1>4. ASSUME NEW p \in Blocks(func), NEW s \in Successors(func, p), NEW phi \in Phis(func, s),
               Incoming(phi, p) = v
        PROVE  FALSE
    <2>1. PICK m \in DOMAIN Insts(func, s) : IsPhi(Insts(func, s)[m]) /\ phi = Insts(func, s)[m]
      BY DEF Phis
    <2>2. s \in Blocks(func) /\ v \in Uses(Insts(func, s)[m])
      BY <1>4, <2>1, IncomingFacts DEF Uses, Elements
    <2>3. m \in DOMAIN AllInsts(s) /\ AllInsts(s)[m] = Insts(func, s)[m]
      <3>1. LET n == Len(Insts(func, s)) IN
            /\ n \in Nat /\ DOMAIN Insts(func, s) = 1..n /\ DOMAIN AllInsts(s) = 1..(n + 1)
            /\ \A j \in 1..n : AllInsts(s)[j] = Insts(func, s)[j]
        BY <2>2, AllInstsFacts
      <3> QED BY <3>1
    <2>4. PICK k : <<s, m, k>> \in UsePositions(v)
      BY <2>2, <2>3, ReadPosition
    <2>5. <<s, m, k>>[1] = s /\ <<s, m, k>>[2] = m
      OBVIOUS
    <2> QED BY <1>2, <1>3, <2>1, <2>3, <2>4, <2>5
  <1>5. ASSUME NEW c \in Blocks(func), NEW j \in DOMAIN AllInsts(c), v \in Uses(AllInsts(c)[j])
        PROVE  c = h /\ def < j /\ j <= end /\ j \in 1..last
    <2>1. PICK k : <<c, j, k>> \in UsePositions(v)
      BY <1>5, ReadPosition
    <2>2. <<c, j, k>>[1] = c /\ <<c, j, k>>[2] = j
      OBVIOUS
    <2> QED BY <1>1, <1>2, <2>1, <2>2
  <1>6. \A c \in Blocks(func) : ~NeededIn(v, c)
    <2> SUFFICES ASSUME NEW c \in Blocks(func), NeededIn(v, c) PROVE FALSE
      OBVIOUS
    <2>1. CASE UsedFirst(v, c)
      <3>1. PICK j \in DOMAIN AllInsts(c) :
                v \in Uses(AllInsts(c)[j]) /\ \A m \in 1..(j - 1) : AllInsts(c)[m].result # v
        BY <2>1 DEF UsedFirst
      <3>2. c = h /\ def < j /\ j \in 1..last
        BY <1>5, <3>1
      <3>3. def \in 1..(j - 1)
        BY <1>1, <3>2
      <3>4. AllInsts(h)[def] = Insts(func, h)[def]
        BY <1>1, AllInstsFacts
      <3> QED BY <1>1, <3>1, <3>2, <3>3, <3>4
    <2>2. CASE \E s \in Successors(func, c) : v \in EdgePhiUses(c, s)
      BY <1>4, <2>2 DEF EdgePhiUses
    <2> QED BY <2>1, <2>2, NeededInParts
  <1>7. ASSUME NEW s \in Successors(func, b)
        PROVE  /\ ~\E phi \in Phis(func, s) : Incoming(phi, b) = v
               /\ ~\E c \in ReachedWithoutDef(v, s) : NeededIn(v, c)
    <2>1. s \in Blocks(func)
      BY FuncFacts
    <2>2. ReachedWithoutDef(v, s) \subseteq Blocks(func)
      BY <2>1, ReachedWithoutDefFacts
    <2> QED BY <1>4, <1>6, <2>2
  <1>8. /\ \A j \in (i + 1)..Len(Insts(func, b)) : Insts(func, b)[j].result # v
        /\ \E j \in (i + 1)..Len(AllInsts(b)) : v \in Uses(AllInsts(b)[j])
    BY <1>7 DEF LiveAt
  <1>9. PICK j \in (i + 1)..Len(AllInsts(b)) : v \in Uses(AllInsts(b)[j])
    BY <1>8
  <1>10. i \in Nat /\ j \in DOMAIN AllInsts(b)
    <2>1. LET n == Len(Insts(func, b)) IN
          n \in Nat /\ DOMAIN AllInsts(b) = 1..(n + 1) /\ Len(AllInsts(b)) = n + 1
      BY AllInstsFacts
    <2> QED BY <2>1
  <1>11. b = h /\ j <= end
    BY <1>5, <1>9, <1>10
  <1>12. def <= i
    BY <1>1, <1>8, <1>10, <1>11
  <1>13. i < end
    BY <1>1, <1>9, <1>10, <1>11
  <1> QED BY <1>11, <1>12, <1>13 DEF def, end

(* The invariant of the local registers: a value that has one is a local    *)
(* value of some block, and two values with one register are of different   *)
(* blocks or apart.                                                         *)
LocalsApart ==
    phase = "done" =>
        /\ \A v \in Values(func) : locals[v] # NoReg => \E b \in Blocks(func) : LocalCandidate(v, b)
        /\ \A v, w \in Values(func) : v # w /\ locals[v] # NoReg /\ locals[v] = locals[w] =>
              \A b \in Blocks(func) : LocalCandidate(v, b) /\ LocalCandidate(w, b) => Apart(b, v, w)

LEMMA LocalFactsStable ==
    ASSUME UNCHANGED func
    PROVE  /\ \A v, b : LocalCandidate(v, b)' <=> LocalCandidate(v, b)
           /\ \A b, v, w : Apart(b, v, w)' <=> Apart(b, v, w)
  <1>1. \A b : AllInsts(b)' = AllInsts(b)
    BY DEF AllInsts
  <1>2. \A v : UsePositions(v)' = UsePositions(v)
    BY <1>1 DEF UsePositions
  <1>3. \A v, b : DefIndex(v, b)' = DefIndex(v, b)
    BY DEF DefIndex
  <1>4. \A v, b : LastUse(v, b)' = LastUse(v, b)
    BY <1>2 DEF LastUse, UseIndexesIn
  <1>5. \A v, b : LocalCandidate(v, b)' <=> LocalCandidate(v, b)
    BY <1>1, <1>2, <1>3, <1>4 DEF LocalCandidate, DefinedIn, CallIndexes, InstAt
  <1>6. \A b, v, w : Apart(b, v, w)' <=> Apart(b, v, w)
    BY <1>3, <1>4 DEF Apart
  <1> QED BY <1>5, <1>6

LEMMA LocalsStep == IInv /\ LocalsApart /\ [Next]_vars => LocalsApart'
  <1> SUFFICES ASSUME IInv, LocalsApart, [Next]_vars, phase' = "done" PROVE LocalsApart'
    BY DEF LocalsApart
  <1> USE DEF given, liveVars, allocVars
  <1>0. func' = func
    BY DEF Next, Start, Analyse, GiveUp, BuildGraph, ColorNext, ColorEnd, AssignConservatively,
           AssignLocals, Done, vars
  <1>a. /\ \A v, b : LocalCandidate(v, b)' <=> LocalCandidate(v, b)
        /\ \A b, v, w : Apart(b, v, w)' <=> Apart(b, v, w)
    BY <1>0, LocalFactsStable
  <1>1. CASE UNCHANGED <<phase, locals>>
    BY <1>0, <1>a, <1>1 DEF LocalsApart
  <1>2. CASE AssignLocals
    <2> DEFINE pairs == IF Cardinality(Values(func)) > budget.localValues THEN {}
                        ELSE UNION {LocalPairs(b) : b \in Blocks(func)}
    <2>1. locals' = Handed(pairs, LocalReg)
      BY <1>2 DEF AssignLocals
    <2>2. WellFormed(func) /\ NoReg \notin LocalReg
      BY RegisterAssumption DEF IInv, TypeOK
    <2>3. \A p \in pairs : \E b \in Blocks(func) : p \in LocalPairs(b)
      OBVIOUS
    <2> HIDE DEF pairs
    <2>4. ASSUME NEW v \in Values(func), locals'[v] # NoReg
          PROVE  \E b \in Blocks(func) : LocalCandidate(v, b) /\ <<v, locals'[v]>> \in LocalPairs(b)
      <3> DEFINE p == <<v, locals'[v]>>
      <3>1. p \in pairs /\ p[1] = v
        BY <2>1, <2>2, <2>4, HandedPairs
      <3> HIDE DEF p
      <3>2. PICK b \in Blocks(func) : p \in LocalPairs(b)
        BY <2>3, <3>1
      <3>3. LocalCandidate(v, b)
        BY <2>2, <3>1, <3>2, LocalPairsApart
      <3> QED BY <3>2, <3>3 DEF p
    <2>5. ASSUME NEW v \in Values(func), NEW b, NEW c, LocalCandidate(v, b), LocalCandidate(v, c)
          PROVE  b = c
      BY <2>5 DEF LocalCandidate
    <2>6. ASSUME NEW v \in Values(func), NEW w \in Values(func), v # w, locals'[v] # NoReg,
                 locals'[v] = locals'[w], NEW b \in Blocks(func),
                 LocalCandidate(v, b), LocalCandidate(w, b)
          PROVE  Apart(b, v, w)
      <3> DEFINE p == <<v, locals'[v]>>
                 q == <<w, locals'[w]>>
      <3>1. p \in LocalPairs(b) /\ q \in LocalPairs(b)
        BY <2>4, <2>5, <2>6
      <3>2. p[1] = v /\ q[1] = w /\ p[2] = q[2]
        BY <2>6
      <3> HIDE DEF p, q
      <3> QED BY <2>2, <2>6, <3>1, <3>2, LocalPairsApart
    <2>7. \A v \in Values(func) : locals'[v] # NoReg => \E b \in Blocks(func) : LocalCandidate(v, b)
      BY <2>4
    <2>8. \A v, w \in Values(func) : v # w /\ locals'[v] # NoReg /\ locals'[v] = locals'[w] =>
              \A b \in Blocks(func) : LocalCandidate(v, b) /\ LocalCandidate(w, b) => Apart(b, v, w)
      BY <2>6
    <2> QED BY <1>0, <1>a, <2>7, <2>8 DEF LocalsApart
  <1>3. CASE UNCHANGED vars \/ Done
    BY <1>1, <1>3 DEF vars, Done
  <1>4. ~Start /\ ~Analyse /\ ~GiveUp /\ ~BuildGraph /\ ~ColorNext /\ ~ColorEnd /\ ~AssignConservatively
    BY DEF Start, Analyse, GiveUp, BuildGraph, ColorNext, ColorEnd, AssignConservatively
  <1> QED BY <1>2, <1>3, <1>4 DEF Next

THEOREM LocalsInvariant == Spec => []LocalsApart
  <1>1. Init => LocalsApart
    BY DEF Init, Unallocated, LocalsApart
  <1> QED BY <1>1, LocalsStep, Invariance, PTL DEF Spec

-----------------------------------------------------------------------------
(* What the allocation is for.                                              *)

AllocInv == IInv /\ Origin /\ NeededOnly /\ ExclusiveRegs /\ LocalsApart

LEMMA AllocFacts ==
    ASSUME AllocInv, phase = "done"
    PROVE  /\ WellFormed(func) /\ Verified(func)
           /\ verdict \in {"none", "converged"}
           /\ verdict = "converged" => Exact /\ graph = InterferenceGraph /\ liveAcross = LiveAcrossCalls
           /\ \A v \in Values(func) :
                 /\ regs[v] # NoReg => regs[v] \in GlobalReg
                 /\ locals[v] # NoReg => locals[v] \in LocalReg
           /\ Reachable(func) \subseteq Blocks(func)
  <1>1. WellFormed(func) /\ Verified(func)
    BY FuncAssumption DEF AllocInv, Origin
  <1>2. verdict \in {"none", "converged"}
    BY DEF AllocInv, Origin
  <1>3. ASSUME verdict = "converged"
        PROVE  Exact /\ graph = InterferenceGraph /\ liveAcross = LiveAcrossCalls
    <2>1. TypeOK /\ candidates = PreciseCandidates /\ \A b \in Blocks(func) : Settled(b)
      BY <1>3 DEF AllocInv, IInv, Origin, Solved
    <2>2. \A b \in Blocks(func) : LiveInByPaths(b) \subseteq liveIn[b]
      BY <1>1, <2>1, SettledComplete
    <2>3. \A b \in Blocks(func) : liveIn[b] = LiveInByPaths(b)
      BY <2>2 DEF AllocInv, NeededOnly
    <2> QED BY <1>1, <1>3, <2>1, <2>3 DEF Exact, AllocInv, IInv, GraphFromSolution
  <1>4. \A v \in Values(func) :
           (regs[v] # NoReg => regs[v] \in GlobalReg) /\ (locals[v] # NoReg => locals[v] \in LocalReg)
    BY DEF AllocInv, IInv, TypeOK
  <1>5. Reachable(func) \subseteq Blocks(func)
    <2>1. {Entry} \in SUBSET Blocks(func)
      BY <1>1, BlocksFinite
    <2> QED BY <1>1, <2>1, ReachedAvoidingFacts DEF Reachable
  <1> QED BY <1>1, <1>2, <1>3, <1>4, <1>5

(* After Riscv64RegAlloc and IrLocalRegs no register holds two values that  *)
(* are both read after some instruction, whatever mixture of coloured,      *)
(* exclusive and block-local registers was handed out.                      *)
THEOREM LiveRangesStayDisjoint == Spec => []LiveRangesDisjoint
  <1>1. AllocInv => LiveRangesDisjoint
    <2> SUFFICES ASSUME AllocInv, phase = "done",
                        NEW v \in Values(func), NEW w \in Values(func), v # w,
                        Location(v) # NoReg, Location(v) = Location(w),
                        NEW b \in Reachable(func), NEW i \in 0..Len(Insts(func, b)),
                        LiveAt(v, b, i), LiveAt(w, b, i)
                 PROVE  FALSE
      BY DEF LiveRangesDisjoint
    <2>1. /\ WellFormed(func) /\ Verified(func) /\ b \in Blocks(func)
          /\ verdict \in {"none", "converged"}
          /\ \A x \in Values(func) :
                /\ regs[x] # NoReg => regs[x] \in GlobalReg
                /\ locals[x] # NoReg => locals[x] \in LocalReg
      BY AllocFacts
    <2>2. LocalReg \cap GlobalReg = {}
      BY RegisterAssumption
    <2>3. CASE regs[v] # NoReg /\ regs[w] # NoReg
      <3>1. regs[v] = regs[w]
        BY <2>3 DEF Location
      <3>2. verdict = "converged"
        <4>1. ~(verdict = "none")
          BY <2>3, <3>1 DEF AllocInv, ExclusiveRegs
        <4> QED BY <2>1, <4>1
      <3>3. Exact /\ graph = InterferenceGraph /\ v \in candidates /\ w \in candidates
        BY <2>3, <3>2, AllocFacts DEF AllocInv, Origin
      <3>4. w \in graph[v]
        BY <3>3, LiveTogetherConflict DEF InConflict
      <3> QED BY <2>3, <3>1, <3>2, <3>4 DEF AllocInv, IInv, ProperColoring
    <2>4. CASE regs[v] = NoReg /\ regs[w] = NoReg
      <3>1. locals[v] # NoReg /\ locals[v] = locals[w]
        BY <2>4 DEF Location
      <3>2. PICK c \in Blocks(func) : LocalCandidate(v, c)
        BY <3>1 DEF AllocInv, LocalsApart
      <3>3. PICK d \in Blocks(func) : LocalCandidate(w, d)
        BY <3>1 DEF AllocInv, LocalsApart
      <3>4. b = c /\ DefIndex(v, b) <= i /\ i < LastUse(v, b)
        BY <2>1, <3>2, LocalLive
      <3>5. b = d /\ DefIndex(w, b) <= i /\ i < LastUse(w, b)
        BY <2>1, <3>3, LocalLive
      <3>6. Apart(b, v, w)
        BY <3>1, <3>2, <3>3, <3>4, <3>5 DEF AllocInv, LocalsApart
      <3>7. LET last == Len(Insts(func, b)) IN
            /\ last \in Nat
            /\ DefIndex(v, b) \in 1..last /\ LastUse(v, b) \in 1..last
            /\ DefIndex(w, b) \in 1..last /\ LastUse(w, b) \in 1..last
        BY <2>1, <3>2, <3>3, <3>4, <3>5, LocalFacts
      <3> QED BY <3>4, <3>5, <3>6, <3>7 DEF Apart
    <2>5. CASE (regs[v] = NoReg) # (regs[w] = NoReg)
      BY <2>1, <2>2, <2>5 DEF Location
    <2> QED BY <2>3, <2>4, <2>5
  <1> QED
    BY <1>1, Invariance, OriginInvariant, ExclusiveInvariant, LocalsInvariant, PTL DEF AllocInv

(* No call destroys a value that is live after it.                          *)
LEMMA CallsPreserved == AllocInv => CallsPreserve
  <1> SUFFICES ASSUME AllocInv, phase = "done", NEW s \in CallSites, s[1] \in Reachable(func),
                      NEW v \in Values(func), v # ResultAt(func, s), LiveAt(v, s[1], s[2]),
                      Location(v) \in CallerSaved \cup LocalReg
               PROVE  FALSE
    BY DEF CallsPreserve
  <1> DEFINE b == s[1]
             i == s[2]
  <1>1. /\ WellFormed(func) /\ Verified(func) /\ b \in Blocks(func)
        /\ verdict \in {"none", "converged"}
        /\ \A x \in Values(func) :
              /\ regs[x] # NoReg => regs[x] \in GlobalReg
              /\ locals[x] # NoReg => locals[x] \in LocalReg
    BY AllocFacts
  <1>2. s \in Sites(func) /\ IsCall(Insts(func, b)[i])
    BY DEF CallSites
  <1>3. i \in DOMAIN Insts(func, b) /\ Insts(func, b)[i].result # v
    BY <1>2 DEF Sites, ResultAt
  <1>4. LET last == Len(Insts(func, b)) IN last \in Nat /\ i \in 1..last
    BY <1>1, <1>3, AllInstsFacts
  <1>5. i \in 0..Len(Insts(func, b)) /\ i <= i
    BY <1>4
  <1>6. LocalReg \cap GlobalReg = {} /\ NoReg \notin CallerSaved /\ NoReg \notin LocalReg
        /\ CallerSaved \subseteq GlobalReg
    BY RegisterAssumption DEF GlobalReg
  <1>7. CASE regs[v] # NoReg
    <2>1. regs[v] \in CallerSaved
      BY <1>1, <1>6, <1>7 DEF Location
    <2>2. verdict = "converged"
      <3>1. ~(verdict = "none")
        BY <2>1 DEF AllocInv, ExclusiveRegs
      <3> QED BY <1>1, <3>1
    <2>3. Exact /\ liveAcross = LiveAcrossCalls /\ v \in candidates
      BY <1>7, <2>2, AllocFacts DEF AllocInv, Origin
    <2>4. \A m \in (i + 1)..i : Insts(func, b)[m].result # v
      BY <1>4
    <2>5. v \in LiveBeyond(b, i)
      BY <1>1, <1>3, <1>5, <2>3, <2>4, LiveAtBeyond DEF Exact
    <2>6. v \in LiveAcrossCalls
      BY <2>5 DEF LiveAcrossCalls
    <2> QED BY <2>1, <2>2, <2>3, <2>6 DEF AllocInv, IInv, ProperColoring
  <1>8. CASE regs[v] = NoReg
    <2>1. locals[v] # NoReg
      BY <1>6, <1>8 DEF Location
    <2>2. PICK c \in Blocks(func) : LocalCandidate(v, c)
      BY <2>1 DEF AllocInv, LocalsApart
    <2>3. b = c /\ DefIndex(v, b) <= i /\ i < LastUse(v, b)
      BY <1>1, <1>5, <2>2, LocalLive
    <2>4. DefIndex(v, b) # i /\ DefIndex(v, b) \in Nat
      <3>1. LET last == Len(Insts(func, b)) IN
            last \in Nat /\ DefIndex(v, b) \in 1..last /\ Insts(func, b)[DefIndex(v, b)].result = v
        BY <1>1, <2>2, <2>3, LocalFacts
      <3> QED BY <1>3, <3>1
    <2>5. DefIndex(v, b) < i /\ i \in CallIndexes(b)
      BY <1>2, <1>3, <1>4, <2>3, <2>4 DEF CallIndexes
    <2> QED BY <2>2, <2>3, <2>5 DEF LocalCandidate
  <1> QED BY <1>7, <1>8

(* No call destroys a value that is read after it: such a value is in a     *)
(* callee-saved register or in its slot, whichever allocator placed it.     *)
THEOREM CallsPreserveLive == Spec => []CallsPreserve
  BY CallsPreserved, Invariance, OriginInvariant, ExclusiveInvariant, LocalsInvariant, PTL DEF AllocInv
=============================================================================
