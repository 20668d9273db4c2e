------------------------------ MODULE RegAlloc ------------------------------
(***************************************************************************)
(* Integer register allocation of one function: Riscv64RegAlloc::new and   *)
(* new_conservative (target/riscv64/regalloc.rs), followed by the scan of  *)
(* IrLocalRegs (common/local_regs.rs).  Float values are another instance  *)
(* of the same analysis and are left out of the functions.                 *)
(***************************************************************************)
EXTENDS Liveness, SequencesExt

CONSTANTS
    Funcs,           \* the functions to allocate
    CallerSavedRegs, \* a2..a7, as a sequence in allocation order
    IntRegs,         \* s1..s11
    LocalRegs,       \* t3..t6
    NoReg,           \* the absence of a register
    Budgets          \* the limits to compile under (MAX_INTERFERENCE_*, MAX_LIVENESS_*)

Distinct(s) == \A i, j \in DOMAIN s : s[i] = s[j] => i = j

CallerSaved == Elements(CallerSavedRegs)
CalleeSaved == Elements(IntRegs)
GlobalReg == CallerSaved \cup CalleeSaved
LocalReg == Elements(LocalRegs)

ASSUME RegisterAssumption ==
    /\ CallerSavedRegs \in Seq(CallerSaved) /\ IntRegs \in Seq(CalleeSaved)
    /\ LocalRegs \in Seq(LocalReg)
    /\ Distinct(CallerSavedRegs) /\ Distinct(IntRegs) /\ Distinct(LocalRegs)
    /\ CallerSaved \cap CalleeSaved = {}
    /\ LocalReg \cap GlobalReg = {}
    /\ NoReg \notin GlobalReg \cup LocalReg
ASSUME FuncAssumption == \A f \in Funcs : WellFormed(f) /\ Verified(f)
ASSUME BudgetAssumption ==
    Budgets \subseteq [blocks : Nat, values : Nat, candidates : Nat, cells : Nat,
                       rounds : Nat \ {0}, callWork : Nat, localValues : Nat]

VARIABLES
    phase,         \* "start", "liveness", "color", "local" or "done"
    graph,         \* interference: value -> values
    callOperands,  \* candidates some call takes as an argument
    liveAcross,    \* candidates live across some call
    uncolored,     \* candidates still to colour
    regs,          \* value -> register or NoReg
    locals         \* value -> block-local register or NoReg

allocVars == <<phase, graph, callOperands, liveAcross, uncolored, regs, locals>>
given == <<func, budget>>
vars == <<given, candidates, liveVars, allocVars>>

-----------------------------------------------------------------------------
(* The uses of a value.  An operand position is <<block, index, position>>; *)
(* the terminator has index Len(insts) + 1.                                 *)
AllInsts(b) == Append(Insts(func, b), [op |-> "term", result |-> NoValue,
                                       args |-> Term(func, b).args, preds |-> << >>])
UsePositions(v) ==
    UNION {UNION {{<<b, i, k>> : k \in {p \in DOMAIN AllInsts(b)[i].args :
                                          AllInsts(b)[i].args[p] = v}} :
                     i \in DOMAIN AllInsts(b)} : b \in Blocks(func)}
InstAt(u) == AllInsts(u[1])[u[2]]

DefinedIn(v, b) == func.kind[v] = "inst" /\ v \in Results(func, b)
DefIndex(v, b) == CHOOSE i \in DOMAIN Insts(func, b) : Insts(func, b)[i].result = v
CallIndexes(b) == {i \in DOMAIN Insts(func, b) : IsCall(Insts(func, b)[i])}

IsTemporary(v) == ~IsConst(func, v)

CrossBlockCandidates ==
    {v \in Values(func) : IsTemporary(v) /\
        \/ \E b \in Blocks(func) : v \in PhiResults(func, b)
        \/ \E u \in UsePositions(v) : IsPhi(InstAt(u)) \/ OwnerBlock(func, v) # u[1]}

(* call_crossing_candidates: a call lies strictly between the definition    *)
(* and the last use in the same block.                                      *)
UseIndexesIn(v, b) == {u[2] : u \in {x \in UsePositions(v) : x[1] = b}}
CallCrosses(v, b) ==
    /\ DefinedIn(v, b)
    /\ \E c \in CallIndexes(b), last \in UseIndexesIn(v, b) : DefIndex(v, b) < c /\ c < last
CallCrossing == {v \in Values(func) : \E b \in Blocks(func) : CallCrosses(v, b)}

PreciseCandidates == CrossBlockCandidates \cup CallCrossing

(* weighted_use_scores: 16 per loop level up to 2^20; a phi operand counts  *)
(* where it is read, at the end of its predecessor.                         *)
Weight(b) == 2 ^ (IF 4 * func.depth[b] < 20 THEN 4 * func.depth[b] ELSE 20)
UseWeight(u) == Weight(IF IsPhi(InstAt(u)) THEN InstAt(u).preds[u[3]] ELSE u[1])
Score(v) == FoldSet(LAMBDA u, sum : sum + UseWeight(u), 0, UsePositions(v))

(* sort_by_key with a total order: an element follows those before it.      *)
Sorted(S, Before(_, _)) ==
    [i \in 1..Cardinality(S) |->
        CHOOSE v \in S : Cardinality({w \in S : Before(w, v)}) = i - 1]

BetterScore(v, w) == Score(v) > Score(w) \/ (Score(v) = Score(w) /\ v < w)

(* filter, retain: the elements of a sequence at some indexes, in order.    *)
Picked(s, K) == [k \in 1..Cardinality(K) |-> s[Ascending(K)[k]]]

-----------------------------------------------------------------------------
Unallocated ==
    /\ candidates = {}
    /\ liveIn = [b \in Blocks(func) |-> {}]
    /\ liveOut = [b \in Blocks(func) |-> {}]
    /\ next = 0 /\ changed = FALSE /\ round = 0 /\ verdict = "idle"
    /\ phase = "start"
    /\ graph = [v \in Values(func) |-> {}]
    /\ callOperands = {} /\ liveAcross = {}
    /\ uncolored = {}
    /\ regs = [v \in Values(func) |-> NoReg]
    /\ locals = [v \in Values(func) |-> NoReg]

Init == func \in Funcs /\ budget \in Budgets /\ Unallocated

(* The sizes beyond which new does not attempt the analysis.                *)
TooLarge(S) ==
    \/ Len(func.blocks) > budget.blocks
    \/ Cardinality(Values(func)) > budget.values
    \/ Cardinality(S) > budget.candidates
    \/ Len(func.blocks) * Cardinality(S) > budget.cells

(* new: collect the candidates.                                             *)
Start ==
    /\ phase = "start"
    /\ phase' = "liveness"
    /\ candidates' = PreciseCandidates
    /\ IF TooLarge(candidates')
         THEN verdict' = "none" /\ UNCHANGED <<next, changed>>
         ELSE verdict' = "iterating" /\ next' = Len(func.blocks) /\ changed' = FALSE
    /\ UNCHANGED <<given, liveIn, liveOut, round, graph, callOperands, liveAcross, uncolored,
                   regs, locals>>

Analyse ==
    /\ phase = "liveness"
    /\ VisitBlock \/ EndRound
    /\ UNCHANGED <<given, candidates, allocVars>>

(* The scan for the graph also gives up, when the calls cost too much.      *)
CallsTooCostly == CallWork > budget.callWork

GiveUp ==
    /\ phase = "liveness"
    /\ verdict = "converged"
    /\ CallsTooCostly
    /\ verdict' = "none"
    /\ UNCHANGED <<given, candidates, liveIn, liveOut, next, changed, round, allocVars>>

BuildGraph ==
    /\ phase = "liveness"
    /\ verdict = "converged"
    /\ ~CallsTooCostly
    /\ graph' = InterferenceGraph
    /\ callOperands' = CallOperands
    /\ liveAcross' = LiveAcrossCalls
    /\ uncolored' = candidates
    /\ phase' = "color"
    /\ UNCHANGED <<given, candidates, liveVars, regs, locals>>

-----------------------------------------------------------------------------
(* register_allowed: the caller-saved registers are for values no call sees *)
(* and that do not arrive in an argument register themselves.               *)
(* Mutant: values a call reads may sit in the registers it is passed in.    *)
RegisterAllowedToOperands(v, r) ==
    r \notin CallerSaved \/ (func.kind[v] # "param" /\ v \notin liveAcross)
RegisterAllowed(v, r) ==
    \/ r \notin CallerSaved
    \/ /\ func.kind[v] # "param"
       /\ v \notin callOperands
       /\ v \notin liveAcross

(* Mutant: only the neighbours before the value are looked at.              *)
AllowedByEarlier(v, r) ==
    (\A w \in graph[v] : w < v => regs[w] # r) /\ RegisterAllowed(v, r)
Allowed(v, r) == (\A w \in graph[v] : regs[w] # r) /\ RegisterAllowed(v, r)

(* phi_affinities: the phi operands that may share the phi's register, in   *)
(* program order.                                                           *)
AffinityPairs ==
    {u \in UNION {UsePositions(v) : v \in candidates} :
        /\ IsPhi(InstAt(u))
        /\ InstAt(u).result \in candidates
        /\ InstAt(u).args[u[3]] \notin graph[InstAt(u).result]}
Partner(v, u) == IF InstAt(u).result = v THEN InstAt(u).args[u[3]] ELSE InstAt(u).result
Earlier(u, w) ==
    \/ u[1] < w[1]
    \/ u[1] = w[1] /\ u[2] < w[2]
    \/ u[1] = w[1] /\ u[2] = w[2] /\ u[3] < w[3]

(* The affinities that can be honoured now.                                 *)
Honoured(v) ==
    {u \in AffinityPairs :
        /\ v \in {InstAt(u).result, InstAt(u).args[u[3]]}
        /\ regs[Partner(v, u)] # NoReg
        /\ Allowed(v, regs[Partner(v, u)])}

Available == CallerSavedRegs \o IntRegs

(* The register of the earliest affinity that can be honoured, else the     *)
(* first allowed one, else none: a set of one element.                      *)
RegisterFor(v) ==
    LET fits == {i \in DOMAIN Available : Allowed(v, Available[i])} IN
    IF Honoured(v) # {}
    THEN {regs[Partner(v, u)] :
             u \in {x \in Honoured(v) : \A y \in Honoured(v) : x = y \/ Earlier(x, y)}}
    ELSE IF fits # {}
    THEN {Available[i] : i \in {k \in fits : \A j \in fits : k <= j}}
    ELSE {NoReg}

(* The best remaining candidate takes a register, or stays in its slot.     *)
ColorNext ==
    /\ phase = "color"
    /\ \E v \in uncolored :
          /\ \A w \in uncolored : v = w \/ BetterScore(v, w)
          /\ \E r \in RegisterFor(v) : regs' = [regs EXCEPT ![v] = r]
          /\ uncolored' = uncolored \ {v}
    /\ UNCHANGED <<given, candidates, liveVars, phase, graph, callOperands, liveAcross, locals>>

ColorEnd ==
    /\ phase = "color"
    /\ uncolored = {}
    /\ phase' = "local"
    /\ UNCHANGED <<given, candidates, liveVars, graph, callOperands, liveAcross, uncolored, regs,
                   locals>>

-----------------------------------------------------------------------------
(* new_conservative: without an analysis every assigned register is         *)
(* exclusive.  Phis come first, then values crossing a call, then loads and *)
(* geps used in other blocks.                                               *)
AllPhis == UNION {PhiResults(func, b) : b \in Blocks(func)}
IsLeaf == CallSites = {}
ConservativePool == IF IsLeaf THEN Available ELSE IntRegs

UseCount(v) == Cardinality(UsePositions(v))
PhiOrder ==
    Sorted(AllPhis, LAMBDA v, w : UseCount(v) > UseCount(w)
                                          \/ (UseCount(v) = UseCount(w) /\ v < w))

HomeBlock(v) == OwnerBlock(func, v)
LocalUses(v) == {u \in UsePositions(v) : u[1] = HomeBlock(v)}
Span(v) == CHOOSE n \in Nat :
    n + DefIndex(v, HomeBlock(v)) \in UseIndexesIn(v, HomeBlock(v))
      /\ \A i \in UseIndexesIn(v, HomeBlock(v)) : i <= n + DefIndex(v, HomeBlock(v))
CrossingOrder(S) ==
    Sorted(S, LAMBDA v, w :
        LET cv == Cardinality(LocalUses(v)) cw == Cardinality(LocalUses(w)) IN
        \/ cv > cw
        \/ cv = cw /\ Span(v) > Span(w)
        \/ cv = cw /\ Span(v) = Span(w) /\ v < w)

RemoteUses(v) == {u \in UsePositions(v) : u[1] # HomeBlock(v)}
RemoteMemory ==
    {v \in Values(func) :
        /\ func.kind[v] = "inst"
        /\ \E b \in Blocks(func) : DefinedIn(v, b) /\ Insts(func, b)[DefIndex(v, b)].op \in {"load", "gep"}
        /\ RemoteUses(v) # {}}
MemoryOrder(S) ==
    Sorted(S, LAMBDA v, w :
        LET cv == Cardinality(RemoteUses(v)) cw == Cardinality(RemoteUses(w)) IN
        cv > cw \/ (cv = cw /\ v > w))

(* zip: the values and the registers pair up until one list ends.           *)
Paired(vs, rs) == {<<vs[i], rs[i]>> : i \in DOMAIN vs \cap DOMAIN rs}

(* Mutant: the values after the phis start again from the whole pool.       *)
LeftoverIsWholePool(taken) == ConservativePool
Leftover(taken) ==
    Picked(ConservativePool, {i \in DOMAIN ConservativePool : ConservativePool[i] \notin taken})

ConservativePairs ==
    LET phis == Paired(PhiOrder, ConservativePool)
        done == {p[1] : p \in phis}
        others == CrossingOrder(CallCrossing \ done)
                    \o MemoryOrder(RemoteMemory \ (done \cup CallCrossing))
    IN  phis \cup Paired(others, Leftover({p[2] : p \in phis}))

(* The map a set of <<value, register>> pairs stands for.                   *)
Handed(pairs, registers) ==
    [v \in Values(func) |->
        IF \E r \in registers : <<v, r>> \in pairs
        THEN CHOOSE r \in registers : <<v, r>> \in pairs ELSE NoReg]

AssignConservatively ==
    /\ phase = "liveness"
    /\ verdict = "none"
    /\ regs' = IF AllPhis = {} THEN regs
               ELSE Handed(ConservativePairs, GlobalReg)
    /\ phase' = "local"
    /\ UNCHANGED <<given, candidates, liveVars, graph, callOperands, liveAcross, uncolored, locals>>

-----------------------------------------------------------------------------
(* IrLocalRegs::new: values used only later in their own block, by no phi   *)
(* and no terminator, with no call in between.                              *)
LastUse(v, b) ==
    CHOOSE i \in UseIndexesIn(v, b) : \A j \in UseIndexesIn(v, b) : j <= i
LocalCandidate(v, b) ==
    /\ DefinedIn(v, b) /\ Insts(func, b)[DefIndex(v, b)].op \notin {"phi", "alloca"}
    /\ UsePositions(v) # {}
    /\ \A u \in UsePositions(v) :
          /\ u[1] = b /\ DefIndex(v, b) < u[2] /\ u[2] <= Len(Insts(func, b))
          /\ ~IsPhi(InstAt(u))
    /\ ~\E c \in CallIndexes(b) : DefIndex(v, b) < c /\ c < LastUse(v, b)

LocalOrder(b) ==
    Sorted({v \in Values(func) : LocalCandidate(v, b)},
                 LAMBDA v, w : DefIndex(v, b) < DefIndex(w, b))

(* One candidate of the linear scan.  free is a stack of registers, active  *)
(* the intervals in order of their end.                                     *)
Expired(interval, start) == interval.end <= start
ScanLocal(b, scan, v) ==
    LET start == DefIndex(v, b)
        end == LastUse(v, b)
        active == scan.active
        gone == Picked(active, {i \in DOMAIN active : Expired(active[i], start)})
        kept == Picked(active, {i \in DOMAIN active : ~Expired(active[i], start)})
        free == scan.free \o [i \in DOMAIN gone |-> gone[i].reg]
        reg == free[Len(free)]
    IN  IF free = << >>
        THEN [scan EXCEPT !.active = kept, !.free = free]
        ELSE [regs |-> scan.regs \cup {<<v, reg>>},
              free |-> SubSeq(free, 1, Len(free) - 1),
              active |-> Picked(kept, {i \in DOMAIN kept : kept[i].end <= end})
                           \o <<[end |-> end, reg |-> reg]>>
                           \o Picked(kept, {i \in DOMAIN kept : kept[i].end > end})]

(* The scan of a block, one candidate after the other.                      *)
LocalPairs(b) ==
    LET order == LocalOrder(b)
        scan[n \in 0..Len(order)] ==
          IF n = 0 THEN [regs |-> {}, free |-> LocalRegs, active |-> << >>]
          ELSE ScanLocal(b, scan[n - 1], order[n])
    IN  scan[Len(order)].regs

AssignLocals ==
    /\ phase = "local"
    /\ LET pairs == IF Cardinality(Values(func)) > budget.localValues THEN {}
                     ELSE UNION {LocalPairs(b) : b \in Blocks(func)}
       IN  locals' = Handed(pairs, LocalReg)
    /\ phase' = "done"
    /\ UNCHANGED <<given, candidates, liveVars, graph, callOperands, liveAcross, uncolored, regs>>

(* The only state without a successor is an allocated function, so that     *)
(* TLC's deadlock check covers an allocation that stops half-way.           *)
Done == phase = "done" /\ UNCHANGED vars

Next ==
    \/ Start \/ Analyse \/ GiveUp \/ BuildGraph \/ ColorNext \/ ColorEnd
    \/ AssignConservatively \/ AssignLocals \/ Done

Spec == Init /\ [][Next]_vars
-----------------------------------------------------------------------------
(* Every variable has its type; only candidates are ever coloured.          *)
TypeOK ==
    /\ WellFormed(func) /\ budget \in Budgets
    /\ candidates \subseteq Values(func)
    /\ liveIn \in [Blocks(func) -> SUBSET Values(func)]
    /\ liveOut \in [Blocks(func) -> SUBSET Values(func)]
    /\ next \in 0..Len(func.blocks)
    /\ changed \in BOOLEAN
    /\ round \in 0..budget.rounds
    /\ verdict \in {"idle", "iterating", "converged", "none"}
    /\ phase \in {"start", "liveness", "color", "local", "done"}
    /\ graph \in [Values(func) -> SUBSET Values(func)]
    /\ callOperands \subseteq Values(func)
    /\ liveAcross \subseteq Values(func)
    /\ uncolored \subseteq Values(func)
    /\ regs \in [Values(func) -> GlobalReg \cup {NoReg}]
    /\ locals \in [Values(func) -> LocalReg \cup {NoReg}]

-----------------------------------------------------------------------------
(* A reference for liveness, from paths and not from data-flow equations:   *)
(* a value is live into a block when some path of blocks that do not define *)
(* it leads to a use.                                                       *)
DefBlocks(v) == {b \in Blocks(func) : v \in Results(func, b)}
NeededIn(v, b) ==
    \/ \E i \in DOMAIN AllInsts(b) :
          /\ ~IsPhi(AllInsts(b)[i]) /\ v \in Uses(AllInsts(b)[i])
          /\ \A j \in 1..(i - 1) : AllInsts(b)[j].result # v
    \/ b \notin DefBlocks(v) /\ \E s \in Successors(func, b) : v \in EdgePhiUses(b, s)
ReachedWithoutDef(v, b) ==
    LET step[n \in 0..Len(func.blocks)] ==
          IF n = 0 THEN {b}
          ELSE LET before == step[n - 1] IN
               before \cup UNION {Successors(func, c) : c \in before \ DefBlocks(v)}
    IN  step[Len(func.blocks)]
LiveInByPaths(b) == {v \in candidates : \E c \in ReachedWithoutDef(v, b) : NeededIn(v, c)}

(* When the rounds settle, every block's live-in set is the set of          *)
(* candidates some path really needs: neither a missing value (a register   *)
(* would be reused too early) nor a superfluous one.                        *)
LiveInExact ==
    verdict = "converged" => \A b \in Blocks(func) : liveIn[b] = LiveInByPaths(b)

(* Where a value is live inside a block: it will be read later in the       *)
(* block, on an edge out of it or in a block that follows.                  *)
LiveAt(v, b, i) ==
    /\ \A j \in (i + 1)..Len(Insts(func, b)) : Insts(func, b)[j].result # v
    /\ \/ \E j \in (i + 1)..Len(AllInsts(b)) :
             ~IsPhi(AllInsts(b)[j]) /\ v \in Uses(AllInsts(b)[j])
       \/ \E s \in Successors(func, b) :
             \/ \E phi \in Phis(func, s) : Incoming(phi, b) = v
             \/ \E c \in ReachedWithoutDef(v, s) : NeededIn(v, c)

Location(v) == IF regs[v] # NoReg THEN regs[v] ELSE locals[v]

(* Two values that are needed after the same instruction never have the     *)
(* same register, whatever mixture of coloured, exclusive and block-local   *)
(* registers the two allocators have handed out.                            *)
LiveRangesDisjoint ==
    phase = "done" =>
        \A v, w \in Values(func) :
            v # w /\ Location(v) # NoReg /\ Location(v) = Location(w) =>
                \A b \in Reachable(func) : \A i \in 0..Len(Insts(func, b)) :
                    ~(LiveAt(v, b, i) /\ LiveAt(w, b, i))

(* Values in conflict have different registers, and a value that a call     *)
(* reads, that is live across a call or that arrives as a parameter is in   *)
(* no caller-saved register; while colouring as well as at the end.         *)
ProperColoring ==
    verdict = "converged" =>
        /\ \A v, w \in Values(func) : w \in graph[v] /\ regs[v] # NoReg => regs[v] # regs[w]
        /\ \A v \in Values(func) :
              regs[v] \in CallerSaved =>
                  func.kind[v] # "param" /\ v \notin callOperands /\ v \notin liveAcross

(* No call destroys a value that is needed after it: such a value is        *)
(* neither in a caller-saved nor in a block-local register, whichever       *)
(* allocator placed it.                                                     *)
CallsPreserve ==
    phase = "done" =>
        \A s \in CallSites : s[1] \in Reachable(func) =>
            \A v \in Values(func) :
                v # ResultAt(func, s) /\ LiveAt(v, s[1], s[2]) =>
                    Location(v) \notin CallerSaved \cup LocalReg
=============================================================================
