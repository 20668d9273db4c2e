---------------------------- MODULE SimplifyCfg -----------------------------
(***************************************************************************)
(* Control-flow simplification, ir/pass/simplify_cfg.rs and                *)
(* simplify_cfg/structural.rs, and the Dce that follows it.  A round runs  *)
(* eight rewrites in order; rounds repeat until one changes nothing.       *)
(*                                                                         *)
(* Functions have one more field: bool, the values of type I1.             *)
(***************************************************************************)
EXTENDS Ir, SequencesExt, FiniteSetsExt, Dce

CONSTANTS
    Literal(_),            \* the scalar a constant stands for
    Programs,              \* the functions to simplify
    MaxPreheaderBlocks,    \* MAX_PREHEADER_ANALYSIS_BLOCKS
    MaxConversions,        \* MAX_IF_CONVERSIONS
    MaxRounds              \* rounds looked at; the code has no limit

(* What the types of repr.rs rule out: a branch without a condition, a phi   *)
(* whose blocks and values do not pair up, a sum of one number; and which   *)
(* instructions come without a result.                                      *)
BinaryOps == {"add", "sub", "mul", "and", "or", "eq"}

InstConstructed(f, inst) ==
    /\ inst.op \in {"nop", "store", "memzero"} => inst.result = NoValue
    /\ inst.result = NoValue => inst.op \in {"nop", "store", "memzero", "call"}
    /\ IsPhi(inst) => Len(inst.args) = Len(inst.preds) /\ Elements(inst.preds) \subseteq Blocks(f)
    /\ inst.op \in BinaryOps => Len(inst.args) = 2

Constructed(f) ==
    \A b \in Blocks(f) :
        /\ Len(Term(f, b).succ) = 2 => Term(f, b).args # << >>
        /\ \A i \in DOMAIN Insts(f, b) : InstConstructed(f, Insts(f, b)[i])

(* Every pass that changed a function checks that it verifies.              *)
ASSUME ProgramAssumption ==
    \A f \in Programs :
        /\ WellFormed(f) /\ f.bool \subseteq Values(f)
        /\ Verified(f) /\ Constructed(f)
        /\ \A v \in Values(f) : IsInst(f, v) => Literal(v) = 0
ASSUME LimitAssumption == MaxPreheaderBlocks \in Nat /\ MaxConversions \in Nat /\ MaxRounds \in Nat

VARIABLES
    source,        \* the function the pass was given, never changed
    preserve,      \* preserve_loop_preheaders
    func,          \* the function under transformation
    phase,         \* the rewrite that is next
    changed,       \* round_changed
    rounds,        \* rounds begun, a count the code does not keep
    attempts,      \* if-conversions tried by the current rewrite
    rejected       \* candidates whose conversion the verifier refused

vars == <<source, preserve, func, phase, changed, rounds, attempts, rejected>>

Phases == <<"unreachable", "branches", "booleans", "updates", "thread", "phis", "forward", "merge">>

Init ==
    /\ source \in Programs /\ func = source
    /\ preserve \in BOOLEAN
    /\ phase = "unreachable" /\ changed = FALSE /\ rounds = 1
    /\ attempts = 0 /\ rejected = {}

(* Every rewrite reports a change exactly when it made one.                 *)
Becomes(f) ==
    /\ func' = f
    /\ changed' = (changed \/ f # func)
    /\ UNCHANGED <<source, preserve, rounds>>

Rewrite(from, to, f) ==
    /\ phase = from /\ phase' = to
    /\ Becomes(f)
    /\ UNCHANGED <<attempts, rejected>>

-----------------------------------------------------------------------------
At(f, s) == Insts(f, s[1])[s[2]]
Active(f, b) == {i \in DOMAIN Insts(f, b) : Insts(f, b)[i].op # "nop"}
LeadingPhis(f, b) ==
    {i \in DOMAIN Insts(f, b) : /\ IsPhi(Insts(f, b)[i])
                                /\ \A j \in 1..i : Insts(f, b)[j].op \in {"nop", "phi"}}

Jump(b) == [args |-> << >>, succ |-> <<b>>]
JumpsTo(f, b, target) == Term(f, b).succ = <<target>>
IsBranch(f, b) == Len(Term(f, b).succ) = 2
Condition(f, b) == Term(f, b).args[1]
Redirected(term, old, new) ==
    [term EXCEPT !.succ = [k \in DOMAIN @ |-> IF @[k] = old THEN new ELSE @[k]]]

(* const_bool.                                                              *)
Chosen(succ, c) == IF Literal(c) # 0 THEN succ[1] ELSE succ[2]

UseCount(f, v) ==
    LET uses(s) == {k \in DOMAIN At(f, s).args : At(f, s).args[k] = v} IN
    Cardinality(UNION {{<<s, k>> : k \in uses(s)} : s \in Sites(f)})
        + Cardinality({b \in Blocks(f) : v \in Elements(Term(f, b).args)})

AvailableAt(f, v, b) ==
    IsInst(f, v) => OwnerBlock(f, v) = b \/ Dominates(f, OwnerBlock(f, v), b)

(* A phi without the incoming values of some predecessors.                  *)
Forget(phi, gone) ==
    LET kept == Ascending({k \in DOMAIN phi.preds : phi.preds[k] \notin gone}) IN
    [phi EXCEPT !.preds = [j \in DOMAIN kept |-> phi.preds[kept[j]]],
                !.args = [j \in DOMAIN kept |-> phi.args[kept[j]]]]

ForgetIn(f, b, gone) ==
    [i \in DOMAIN Insts(f, b) |->
        IF i \in LeadingPhis(f, b) THEN Forget(Insts(f, b)[i], gone) ELSE Insts(f, b)[i]]

First(S) == CHOOSE x \in S : \A y \in S : x <= y

-----------------------------------------------------------------------------
(* remove_unreachable_blocks: the others move up, and what dead blocks      *)
(* defined becomes the constant zero.                                       *)
NewNumber(live, b) == Cardinality({a \in live : a <= b})

Renumbered(list, live) == [k \in DOMAIN list |-> NewNumber(live, list[k])]

LiveInst(inst, live, dead) ==
    IF ~IsPhi(inst) THEN inst
    ELSE LET phi == Forget(inst, dead) IN [phi EXCEPT !.preds = Renumbered(phi.preds, live)]

LiveTerm(term, live) == [term EXCEPT !.succ = Renumbered(term.succ, live)]

OnlyReachable(f) ==
    LET live == Reachable(f)
        dead == Blocks(f) \ live
        kept == Ascending(live)
        moved(b) ==
          [insts |-> [i \in DOMAIN Insts(f, b) |-> LiveInst(Insts(f, b)[i], live, dead)],
           term |-> LiveTerm(Term(f, b), live)]
        kinds == [v \in Values(f) |-> IF v \in UNION {Results(f, b) : b \in dead} THEN "const" ELSE f.kind[v]]
        depths == [n \in DOMAIN kept |-> f.depth[kept[n]]]
    IN  [f EXCEPT !.kind = kinds, !.blocks = [n \in DOMAIN kept |-> moved(kept[n])], !.depth = depths]

RemoveUnreachable == Rewrite("unreachable", "branches", OnlyReachable(func))

-----------------------------------------------------------------------------
(* simplify_branches: two equal targets or a constant condition.            *)
Decided(f, b) ==
    IsBranch(f, b) /\ (Term(f, b).succ[1] = Term(f, b).succ[2] \/ IsConst(f, Condition(f, b)))

(* Mutant: the edge not taken stays in the phis of its target.              *)
NoRemovedEdges(f, decided) == {}
RemovedEdges(f, decided) ==
    UNION {{<<b, t>> : t \in Successors(f, b) \ {Chosen(Term(f, b).succ, Condition(f, b))}} :
              b \in decided}

BranchesSimplified(f) ==
    LET decided == {b \in Blocks(f) : Decided(f, b)}
        removed == RemovedEdges(f, decided)
        gone(t) == {b \in decided : <<b, t>> \in removed}
    IN  [f EXCEPT !.blocks = [b \in DOMAIN @ |->
            [insts |-> ForgetIn(f, b, gone(b)),
             term |-> IF b \in decided THEN Jump(Chosen(Term(f, b).succ, Condition(f, b)))
                                       ELSE Term(f, b)]]]

SimplifyBranches == Rewrite("branches", "booleans", BranchesSimplified(func))

-----------------------------------------------------------------------------
(* If-conversion.  A candidate is a block that branches, the instruction to *)
(* move up into it and the phi to replace, both as <<block, position>>.     *)
Alone(ops) == {s \in Sites(func) : Active(func, s[1]) = {s[2]} /\ At(func, s).op \in ops}
OnlyLeadingPhi == {s \in Sites(func) : LeadingPhis(func, s[1]) = {s[2]}}

HasIncomings(phi, from) == Len(phi.preds) = Cardinality(from) /\ Elements(phi.preds) = from

BooleanOps == {"not", "and", "or", "eq", "tobool"}

(* phi(block: constant, rhs: inst), the result of && or ||.                 *)
IsShortCircuit(c) ==
    LET merge == c.phi[1]
        rhs == c.moved[1]
        phi == At(func, c.phi)
        inst == At(func, c.moved)
    IN  /\ c.block # rhs /\ c.phi \notin rejected
        /\ IsBranch(func, c.block) /\ Successors(func, c.block) = {merge, rhs}
        /\ Predecessors(func, merge) = {c.block, rhs}
        /\ Predecessors(func, rhs) = {c.block} /\ JumpsTo(func, rhs, merge)
        /\ HasIncomings(phi, {c.block, rhs})
        /\ IsConst(func, Incoming(phi, c.block)) /\ Incoming(phi, rhs) = inst.result
        /\ {phi.result, inst.result} \subseteq func.bool
        /\ UseCount(func, phi.result) = 1 /\ UseCount(func, inst.result) = 1
        /\ \A v \in Uses(inst) : AvailableAt(func, v, c.block)

ShortCircuits ==
    {c \in [block : Blocks(func), moved : Alone(BooleanOps), phi : Alone({"phi"})] :
        IsShortCircuit(c)}

(* if (cond) x = x + delta, with or without an empty else block.            *)
IsConditionalUpdate(c) ==
    LET update == c.moved[1]
        merge == c.phi[1]
        phi == At(func, c.phi)
        inst == At(func, c.moved)
        other == CHOOSE b \in Successors(func, c.block) : b # update
        idle == IF other = merge THEN c.block ELSE other
    IN  /\ <<c.block, c.phi[2]>> \notin rejected
        /\ IsBranch(func, c.block) /\ update \in Successors(func, c.block)
        /\ Cardinality(Successors(func, c.block)) = 2
        /\ Predecessors(func, update) = {c.block} /\ JumpsTo(func, update, merge)
        /\ other # merge =>
              /\ JumpsTo(func, other, merge) /\ Active(func, other) = {}
              /\ Predecessors(func, other) = {c.block}
        /\ HasIncomings(phi, {update, idle})
        /\ Incoming(phi, update) = inst.result /\ Incoming(phi, idle) = inst.args[1]
        /\ UseCount(func, inst.result) = 1
        /\ \A v \in Uses(inst) : v \notin func.bool /\ AvailableAt(func, v, c.block)

ConditionalUpdates ==
    {c \in [block : Blocks(func), moved : Alone({"add", "sub"}), phi : OnlyLeadingPhi] :
        IsConditionalUpdate(c)}

(* append_inst, for code given as <<op, operands>>.                         *)
Extended(f, b, code) ==
    LET n == Len(f.kind) IN
    [f EXCEPT !.kind = @ \o [k \in DOMAIN code |-> "inst"],
              !.bool = @ \cup {n + k : k \in {j \in DOMAIN code : code[j][1] \in BooleanOps}},
              !.blocks[b].insts = @ \o [k \in DOMAIN code |->
                  [op |-> code[k][1], result |-> n + k, args |-> code[k][2], preds |-> << >>]]]

(* The block computes the phi's value last and goes on without branching.   *)
Joined(c, code) ==
    LET f == Extended(func, c.block, code) IN
    Rewritten([f EXCEPT !.blocks[c.block].term = Jump(c.phi[1]),
                        !.blocks[c.moved[1]].insts[c.moved[2]] = Nop,
                        !.blocks[c.phi[1]].insts[c.phi[2]] = Nop],
              [v \in {At(func, c.phi).result} |-> Len(f.kind)])

(* Mutant: the condition is taken as it is.                                 *)
NeverInverted(when) == FALSE
Inverted(when) == ~when

Fresh(k) == Len(func.kind) + k

ShortCircuitConverted(c) ==
    LET inst == At(func, c.moved)
        cond == Condition(func, c.block)
        value == Literal(Incoming(At(func, c.phi), c.block)) # 0
        direct == Term(func, c.block).succ[1] = c.phi[1]
        op == IF value THEN "or" ELSE "and"
    IN  Joined(c, <<<<inst.op, inst.args>>>> \o
                  (IF Inverted(direct = value)
                   THEN <<<<"not", <<cond>>>>, <<op, <<Fresh(2), Fresh(1)>>>>>>
                   ELSE <<<<op, <<cond, Fresh(1)>>>>>>))

UpdateConverted(c) ==
    LET inst == At(func, c.moved)
        cond == Condition(func, c.block)
        inverted == Inverted(Term(func, c.block).succ[1] = c.moved[1])
        k == IF inverted THEN 1 ELSE 0
    IN  Joined(c, (IF inverted THEN <<<<"not", <<cond>>>>>> ELSE << >>) \o
                  <<<<"toint", <<IF inverted THEN Fresh(1) ELSE cond>>>>,
                    <<"mul", <<inst.args[2], Fresh(k + 1)>>>>,
                    <<inst.op, <<inst.args[1], Fresh(k + 2)>>>>>>)

(* A conversion the verifier refuses is taken back.                         *)
Attempt(key, converted) ==
    /\ attempts < MaxConversions /\ attempts' = attempts + 1
    /\ \/ /\ Verified(converted)
          /\ Becomes(converted) /\ UNCHANGED rejected
       \/ /\ ~Verified(converted)
          /\ rejected' = rejected \cup {key}
          /\ UNCHANGED <<source, preserve, func, changed, rounds>>
    /\ UNCHANGED phase

EndAttempts(from, to, candidates) ==
    /\ phase = from /\ phase' = to
    /\ attempts = MaxConversions \/ candidates = {}
    /\ attempts' = 0 /\ rejected' = {}
    /\ UNCHANGED <<source, preserve, func, changed, rounds>>

ConvertBoolean ==
    /\ phase = "booleans"
    /\ \E c \in ShortCircuits :
          /\ \A d \in ShortCircuits : c.phi[1] <= d.phi[1]
          /\ \E converted \in {ShortCircuitConverted(c)} : Attempt(c.phi, converted)

EndBooleans == EndAttempts("booleans", "updates", ShortCircuits)

ConvertUpdate ==
    /\ phase = "updates"
    /\ \E c \in ConditionalUpdates :
          /\ \A d \in ConditionalUpdates : c.block <= d.block
          /\ \E converted \in {UpdateConverted(c)} : Attempt(<<c.block, c.phi[2]>>, converted)

EndUpdates == EndAttempts("updates", "thread", ConditionalUpdates)

-----------------------------------------------------------------------------
(* thread_boolean_phi_branches: a block that only branches on its phi is    *)
(* bypassed.  What is a candidate, and its predecessors, are computed       *)
(* before the first one is treated.                                         *)
Returns(f, b) == Active(f, b) = {} /\ Term(f, b).succ = << >>

OnlyPhi(f, b) == At(f, <<b, First(Active(f, b))>>)

Threadable(f, b) ==
    /\ IsBranch(f, b) /\ Cardinality(Active(f, b)) = 1
    /\ IsPhi(OnlyPhi(f, b)) /\ OnlyPhi(f, b).result = Condition(f, b)
    /\ UseCount(f, Condition(f, b)) = 1
    /\ \E t \in Successors(f, b) : Returns(f, t)
    /\ \A t \in Successors(f, b) : \A p \in Phis(f, t) : b \notin Elements(p.preds)

CanRedirect(g, p, b, value) ==
    /\ p # b
    /\ JumpsTo(g, p, b) \/ (IsBranch(g, p) /\ b \in Successors(g, p) /\ IsConst(g, value))

(* How a predecessor goes on, past the block.                               *)
PastTerm(g, b, phi, p) ==
    LET value == Incoming(phi, p) IN
    IF IsConst(g, value) THEN Redirected(Term(g, p), b, Chosen(Term(g, b).succ, value))
    ELSE [Term(g, b) EXCEPT !.args = <<value>>]

Bypassed(g, b, phi) ==
    [g EXCEPT !.blocks = [a \in DOMAIN @ |->
        IF a = b THEN [insts |-> [i \in DOMAIN @[b].insts |-> Nop], term |-> Jump(@[b].term.succ[2])]
        ELSE IF a \in Elements(phi.preds) THEN [insts |-> @[a].insts, term |-> PastTerm(g, b, phi, a)]
        ELSE @[a]]]

ThreadOne(f, g, b) ==
    LET phi == OnlyPhi(f, b) IN
    IF /\ Term(g, b) = Term(f, b)
       /\ Elements(phi.preds) = Predecessors(f, b)
       /\ \A p \in Elements(phi.preds) : CanRedirect(g, p, b, Incoming(phi, p))
    THEN Bypassed(g, b, phi) ELSE g

Threaded(f) ==
    LET candidates == Ascending({b \in Blocks(f) : Threadable(f, b)})
        treated[k \in 0..Len(candidates)] ==
          IF k = 0 THEN f ELSE ThreadOne(f, treated[k - 1], candidates[k])
    IN  treated[Len(candidates)]

ThreadBranches == Rewrite("thread", "phis", Threaded(func))

-----------------------------------------------------------------------------
(* simplify_trivial_phis: all of them are found, then all uses rewritten.   *)
TrivialPhis(f) ==
    {p \in UNION {Phis(f, b) : b \in Blocks(f)} : Cardinality(Uses(p)) = 1}

TrivialTable(f) ==
    [r \in {p.result : p \in TrivialPhis(f)} |->
        (CHOOSE p \in TrivialPhis(f) : p.result = r).args[1]]

(* Following the table ends.  If it does not, neither does                  *)
(* resolve_replacement, and the pass takes no further step.                 *)
Resolves(table) ==
    \A v \in DOMAIN table :
        LET end == Resolve(table, v) IN end \in DOMAIN table => table[end] = end

TrivialPhisSimplified(f) ==
    Rewritten(Erased(f, TrivialPhis(f)), TrivialTable(f))

SimplifyTrivialPhis ==
    /\ Resolves(TrivialTable(func))
    /\ Rewrite("phis", "forward", TrivialPhisSimplified(func))

-----------------------------------------------------------------------------
(* LoopInfo, as far as the pass asks: the block that alone enters a natural *)
(* loop and goes nowhere else.                                              *)
DedicatedPreheaders(f) ==
    LET latch(h) == {p \in Predecessors(f, h) : p \in Reachable(f) /\ Dominates(f, h, p)}
        enters(h) == Predecessors(f, h) \ latch(h)
    IN  {p \in Blocks(f) : \E h \in Successors(f, p) :
            latch(h) # {} /\ enters(h) = {p} /\ Successors(f, p) = {h}}

(* forward_empty_jump_block: the first block that only jumps on.            *)
Forwardable(f, b) ==
    /\ b # Entry /\ Active(f, b) = {} /\ Len(Term(f, b).succ) = 1
    /\ LET target == Term(f, b).succ[1]
           preds == Predecessors(f, b)
       IN  /\ target # b /\ preds # {}
           /\ \A p \in preds : target \notin Successors(f, p)
           /\ \A i \in LeadingPhis(f, target) :
                 LET phi == Insts(f, target)[i] IN
                 b \in Elements(phi.preds) /\ preds \cap Elements(phi.preds) = {}

FromOthers(phi, b, preds) ==
    LET rest == Forget(phi, {b}) IN
    [rest EXCEPT !.preds = @ \o preds,
                 !.args = @ \o [k \in DOMAIN preds |-> Incoming(phi, b)]]

Forwarded(f, b) ==
    LET target == Term(f, b).succ[1]
        preds == Ascending(Predecessors(f, b))
    IN  [f EXCEPT !.blocks = [a \in DOMAIN @ |->
            [insts |-> [i \in DOMAIN @[a].insts |->
                 IF a = target /\ i \in LeadingPhis(f, target) THEN FromOthers(@[a].insts[i], b, preds)
                                                               ELSE @[a].insts[i]],
             term |-> IF a \in Predecessors(f, b) THEN Redirected(@[a].term, b, target)
                                                  ELSE @[a].term]]]

(* Mutant: preheaders are as good as other blocks.                          *)
AllEmpty == {b \in Blocks(func) : Forwardable(func, b)}

ToForward ==
    IF preserve /\ Len(func.blocks) > MaxPreheaderBlocks THEN {}
    ELSE {b \in Blocks(func) :
            Forwardable(func, b) /\ ~(preserve /\ b \in DedicatedPreheaders(func))}

ForwardEmptyJump ==
    Rewrite("forward", "merge",
            IF ToForward = {} THEN func ELSE Forwarded(func, First(ToForward)))

-----------------------------------------------------------------------------
(* merge_linear_block: the first block with a successor all its own takes   *)
(* the successor's code; the successor is left empty and unreachable.       *)
Mergeable(f, b) ==
    /\ Len(Term(f, b).succ) = 1
    /\ LET next == Term(f, b).succ[1] IN
       next # b /\ next # Entry /\ Predecessors(f, next) = {b} /\ Phis(f, next) = {}

RenamedPred(phi, old, new) ==
    [phi EXCEPT !.preds = [k \in DOMAIN @ |-> IF @[k] = old THEN new ELSE @[k]]]

Joint(f, b, next) ==
    [f EXCEPT !.blocks = [a \in DOMAIN @ |->
        IF a = b THEN [insts |-> @[b].insts \o @[next].insts, term |-> @[next].term]
        ELSE IF a = next THEN [insts |-> << >>, term |-> [args |-> << >>, succ |-> << >>]]
        ELSE @[a]]]

Merged(f, b) ==
    LET next == Term(f, b).succ[1]
        whole == Joint(f, b, next)
    IN  [whole EXCEPT !.blocks = [a \in DOMAIN @ |->
            [insts |-> [i \in DOMAIN @[a].insts |->
                 IF i \in LeadingPhis(whole, a) THEN RenamedPred(@[a].insts[i], next, b)
                                                ELSE @[a].insts[i]],
             term |-> @[a].term]]]

ToMerge == {b \in Blocks(func) : Mergeable(func, b)}

MergeLinear ==
    Rewrite("merge", "end", IF ToMerge = {} THEN func ELSE Merged(func, First(ToMerge)))

-----------------------------------------------------------------------------
(* simplify_function's loop, and the Dce behind it.                         *)
(* Mutant: round_changed is not reset.                                      *)
StillChanged == TRUE
NothingChanged == FALSE

NextRound ==
    /\ phase = "end" /\ changed /\ rounds < MaxRounds
    /\ phase' = "unreachable" /\ changed' = NothingChanged /\ rounds' = rounds + 1
    /\ UNCHANGED <<source, preserve, func, attempts, rejected>>

Eliminate ==
    /\ phase = "end" /\ ~changed
    /\ \E cleanup \in BOOLEAN : func' = DeadCodeEliminated(func, cleanup)
    /\ phase' = "done"
    /\ UNCHANGED <<source, preserve, changed, rounds, attempts, rejected>>

Done == phase = "done" /\ UNCHANGED vars

Simplify ==
    \/ RemoveUnreachable \/ SimplifyBranches
    \/ ConvertBoolean \/ EndBooleans \/ ConvertUpdate \/ EndUpdates
    \/ ThreadBranches \/ SimplifyTrivialPhis \/ ForwardEmptyJump \/ MergeLinear
    \/ NextRound \/ Eliminate

Next == Simplify \/ Done

Spec == Init /\ [][Next]_vars
=============================================================================
