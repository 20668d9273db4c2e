------------------------------- MODULE Loops --------------------------------
(***************************************************************************)
(* Natural loops, the values they step and how often they run,             *)
(* ir/pass/loop_analysis.rs.                                               *)
(***************************************************************************)
EXTENDS ProgramRun

NoBlock == 0
Sole(S, none) == IF Cardinality(S) = 1 THEN CHOOSE x \in S : TRUE ELSE none

(* Back edges to one header make one loop.                                  *)
Latches(f, h) == {l \in Reachable(f) : h \in Successors(f, l) /\ Dominates(f, h, l)}

LoopBlocks(f, h, latches) ==
    LET inside == {b \in Reachable(f) : Dominates(f, h, b)}
        grow(S) == S \cup ((UNION {Predecessors(f, b) : b \in S \ {h}}) \cap inside)
    IN  Iterated(grow, latches \cup {h}, Len(f.blocks))

NaturalLoop(f, h, latches) ==
    LET of(blocks) ==
          LET entering == Sole(Predecessors(f, h) \ blocks, NoBlock) IN
          [header |-> h, latches |-> latches, blocks |-> blocks, entering |-> entering,
           preheader |-> IF entering # NoBlock /\ Successors(f, entering) = {h} THEN entering ELSE NoBlock,
           exits |-> UNION {{<<b, to>> : to \in Successors(f, b) \ blocks} : b \in blocks}]
    IN  With(LoopBlocks(f, h, latches), of)

(* LoopInfo: the loops by header.                                           *)
LoopsOf(f) ==
    LET add(seq, h) ==
          With(Latches(f, h), LAMBDA ls : IF ls = {} THEN seq ELSE Append(seq, NaturalLoop(f, h, ls)))
    IN  Folded(add, << >>, [b \in Blocks(f) |-> b])

UniqueLatch(loop) == Sole(loop.latches, NoBlock)
UniqueExit(loop) == Sole({e[2] : e \in loop.exits}, NoBlock)
-----------------------------------------------------------------------------
IsLoopInvariant(f, loop, v) == IsInst(f, v) => OwnerBlock(f, v) \notin loop.blocks

(* By how much an instruction moves phi on: phi + c, c + phi or phi - c.    *)
Steps(f, inst, phi) ==
    {f.lit[c] : c \in {a \in Uses(inst) : IsInt(f, a) /\ inst.op = "iadd" /\ inst.args \in {<<phi, a>>, <<a, phi>>}}}
    \cup {Wrap(-f.lit[c]) : c \in {a \in Uses(inst) : IsInt(f, a) /\ inst.op = "isub" /\ inst.args = <<phi, a>>}}

(* analyze_i32_induction: no induction is the empty set.                    *)
Inductions(f, loop, phi) ==
    LET latch == UniqueLatch(loop)
        header == {q \in Phis(f, loop.header) : q.result = phi /\ f.ty[phi] = "int"}
        found(q) ==
          LET initial == Incoming(q, loop.entering)
              next == Incoming(q, latch)
          IN  IF /\ IsLoopInvariant(f, loop, initial)
                 /\ IsInst(f, next) /\ OwnerBlock(f, next) \in loop.blocks
              THEN {[phi |-> phi, initial |-> initial, next |-> next, step |-> n] :
                     n \in Steps(f, Definition(f, next), phi) \ {0}}
              ELSE {}
    IN  IF loop.entering = NoBlock \/ latch = NoBlock THEN {}
        ELSE UNION {found(q) : q \in {r \in header : Len(r.preds) = 2}}

(* active_header_comparison: what the header has found when it goes on with *)
(* the loop, [op, bound, taken] read as v op bound.                         *)
ActiveTests(f, loop, v) ==
    LET term == Term(f, loop.header)
        inside == {k \in DOMAIN term.succ : term.succ[k] \in loop.blocks}
        test == Definition(f, term.args[1])
        read(op, bound) ==
          {[op |-> IF inside = {1} THEN op ELSE Negated(op), bound |-> bound,
            taken |-> term.succ[Least(inside)]]}
    IN  IF ~IsBranch(f, loop.header) \/ Cardinality(inside) # 1 THEN {}
        ELSE IF test.op \notin Compare THEN {}
        ELSE IF test.args[1] = v THEN read(test.op, test.args[2])
        ELSE IF test.args[2] = v THEN read(Reversed(test.op), test.args[1])
        ELSE {}

(* exact_i32_trip_count: how often the test holds before it first fails;    *)
(* nothing when the induction would have to wrap for that.                  *)
ExactTripCount(initial, step, op, bound) ==
    LET counts ==
          CASE op = "eq" -> {1}
            [] op = "ne" -> IF (bound - initial) % Abs(step) # 0 THEN {} ELSE {Quotient(bound - initial, step)}
            [] op = "lt" -> IF step <= 0 THEN {} ELSE {1 + ((bound - initial - 1) \div step)}
            [] op = "le" -> IF step <= 0 THEN {} ELSE {((bound - initial) \div step) + 1}
            [] op = "gt" -> IF step >= 0 THEN {} ELSE {1 + ((initial - bound - 1) \div (-step))}
            [] op = "ge" -> IF step >= 0 THEN {} ELSE {((initial - bound) \div (-step)) + 1}
        last(n) == initial + n * step
    IN  IF ~Compared(op, initial, bound) THEN {0}
        ELSE {n \in counts : n > 0 /\ last(n) \in Words /\ ~Compared(op, last(n), bound)}

(* analyze_const_i32_trip_count.                                            *)
TripCount(f, loop, induction) ==
    IF ~IsInt(f, induction.initial) THEN {}
    ELSE UNION {ExactTripCount(f.lit[induction.initial], induction.step, t.op, f.lit[t.bound]) :
                  t \in {u \in ActiveTests(f, loop, induction.phi) : IsInt(f, u.bound)}}
=============================================================================
