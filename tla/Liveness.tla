------------------------------ MODULE Liveness ------------------------------
(***************************************************************************)
(* The analysis both register allocators share, interference_graph in      *)
(* codegen/target/riscv64/regalloc.rs: liveness by rounds over the blocks  *)
(* in reverse order under a round limit, then one backward scan a block    *)
(* that builds the interference graph and the sets the calls constrain.    *)
(***************************************************************************)
EXTENDS Ir, FiniteSetsExt

VARIABLES
    func,          \* the function, never changed
    budget,        \* the compile-time limits in force, never changed
    candidates,    \* the values that compete for registers
    liveIn,        \* block -> candidates live at its start
    liveOut,       \* block -> candidates live at its end
    next,          \* the block the round visits next; 0 at the end of a round
    changed,       \* did this round change a set?
    round,         \* completed rounds
    verdict        \* "idle", "iterating", "converged" or "none"

liveVars == <<liveIn, liveOut, next, changed, round, verdict>>

-----------------------------------------------------------------------------
(* Per-block sets, by a scan of the instructions.                           *)
Defs(b) == Results(func, b) \cap candidates
PhiDefs(b) == PhiResults(func, b) \cap candidates

(* Candidates read before any definition in the block; a phi reads at the   *)
(* end of its predecessors instead.                                         *)
DefinedBefore(b, i) == {Insts(func, b)[j].result : j \in 1..(i - 1)}
UpwardUses(b) ==
    ((UNION {Uses(Insts(func, b)[i]) \ DefinedBefore(b, i) :
                i \in {j \in DOMAIN Insts(func, b) : ~IsPhi(Insts(func, b)[j])}})
     \cup (Elements(Term(func, b).args) \ Results(func, b))) \cap candidates

EdgePhiUses(p, b) == {Incoming(phi, p) : phi \in Phis(func, b)} \cap candidates

(* Mutant: the incoming values of phis are not uses of the edge.            *)
NextOutWithoutPhiUses(b) == UNION {liveIn[s] \ PhiDefs(s) : s \in Successors(func, b)}
NextOut(b) ==
    UNION {(liveIn[s] \ PhiDefs(s)) \cup EdgePhiUses(b, s) : s \in Successors(func, b)}

NextIn(b) == UpwardUses(b) \cup (NextOut(b) \ Defs(b))

(* The data-flow equations of a block hold.                                 *)
Settled(b) == liveOut[b] = NextOut(b) /\ liveIn[b] = NextIn(b)

(* One block of a round.                                                    *)
VisitBlock ==
    /\ verdict = "iterating"
    /\ next > 0
    /\ liveOut' = [liveOut EXCEPT ![next] = NextOut(next)]
    /\ liveIn' = [liveIn EXCEPT ![next] = NextIn(next)]
    /\ changed' = (changed \/ ~Settled(next))
    /\ next' = next - 1
    /\ UNCHANGED <<round, verdict>>

(* The end of a round: stop when nothing changed, or give up at the limit.  *)
(* Mutant: the sets of the first round are taken for the result.            *)
FirstRoundSettles == TRUE
RoundSettles == ~changed

(* Mutant: the limit is noticed one round late.                             *)
RoundsExhaustedLate(rounds) == rounds > budget.rounds
RoundsExhausted(rounds) == rounds = budget.rounds

EndRound ==
    /\ verdict = "iterating"
    /\ next = 0
    /\ round' = round + 1
    /\ IF RoundSettles
         THEN verdict' = "converged" /\ UNCHANGED <<next, changed>>
         ELSE IF RoundsExhausted(round')
                THEN verdict' = "none" /\ UNCHANGED <<next, changed>>
                ELSE /\ next' = Len(func.blocks)
                     /\ changed' = FALSE
                     /\ verdict' = verdict
    /\ UNCHANGED <<liveIn, liveOut>>

-----------------------------------------------------------------------------
(* The backward scan of a block removes results and adds operands.  What it *)
(* holds after instruction i (0: at the start of the block) are the         *)
(* candidates read later, or needed at the end, with no definition between. *)
NotDefined(v, b, from, to) == \A m \in from..to : Insts(func, b)[m].result # v

LiveAfter(b, i) ==
    LET insts == Insts(func, b)
        end == liveOut[b] \cup Elements(Term(func, b).args)
    IN  {v \in candidates :
            \/ v \in end /\ NotDefined(v, b, i + 1, Len(insts))
            \/ \E j \in (i + 1)..Len(insts) :
                  ~IsPhi(insts[j]) /\ v \in Uses(insts[j]) /\ NotDefined(v, b, i + 1, j - 1)}

(* The values the result of instruction i must keep clear of.               *)
LiveBeyond(b, i) == LiveAfter(b, i) \ {Insts(func, b)[i].result}

DefinitionConflicts ==
    UNION {{<<Insts(func, s[1])[s[2]].result, w>> : w \in LiveBeyond(s[1], s[2])} :
              s \in {t \in Sites(func) : ResultAt(func, t) \in candidates}}

(* Parameters arrive together, so they conflict pairwise.                   *)
ParameterConflicts ==
    LET arriving == Elements(func.params) \cap candidates IN
    {e \in arriving \X arriving : e[1] # e[2]}

InterferenceGraph ==
    LET edges == DefinitionConflicts \cup ParameterConflicts IN
    [v \in Values(func) |-> {w \in Values(func) : <<v, w>> \in edges \/ <<w, v>> \in edges}]

CallSites == {s \in Sites(func) : IsCall(Insts(func, s[1])[s[2]])}
CallOperands == (UNION {Uses(Insts(func, s[1])[s[2]]) : s \in CallSites}) \cap candidates
(* Mutant: what the block's end needs, instead of what the call leaves.     *)
LiveAcrossCallsAtExit == UNION {liveOut[s[1]] : s \in CallSites}
LiveAcrossCalls == UNION {LiveBeyond(s[1], s[2]) : s \in CallSites}

(* The work the calls cost: an operand each in the first scan, a live value *)
(* each in the second.                                                      *)
CallWork ==
    MapThenSumSet(LAMBDA s : Len(Insts(func, s[1])[s[2]].args)
                               + Cardinality(LiveBeyond(s[1], s[2])), CallSites)
=============================================================================
