----------------------------- MODULE MCRegAlloc -----------------------------
(***************************************************************************)
(* Functions to allocate: four control-flow skeletons whose operands, phi  *)
(* inputs and instruction kinds vary.  Only functions verify_function      *)
(* accepts and without dead phis are kept.                                 *)
(***************************************************************************)
EXTENDS RegAlloc

CONSTANTS a2, s1, s2, t3, t4

MCCallerSavedRegs == <<a2>>
MCIntRegs == <<s1, s2>>
MCLocalRegs == <<t3, t4>>

Inst(op, result, args) == [op |-> op, result |-> result, args |-> args, preds |-> << >>]
Phi(result, args, preds) == [op |-> "phi", result |-> result, args |-> args, preds |-> preds]
Jump(b) == [args |-> << >>, succ |-> <<b>>]
Branch(c, t, e) == [args |-> <<c>>, succ |-> <<t, e>>]
Ret(v) == [args |-> <<v>>, succ |-> << >>]
Block(insts, term) == [insts |-> insts, term |-> term]

Body(kinds, blocks, depth) ==
    [kind |-> kinds, params |-> <<1, 2>>, blocks |-> blocks, depth |-> depth]

(* while (c(i)) { x = ?; y = ?; } return ?  with two loop-carried phis that *)
(* may swap, keep or take the values computed in the body.                  *)
LoopKinds == <<"param", "param", "const", "inst", "inst", "inst", "inst", "inst">>
Loop(op1, op2, back, arg1, arg2, out) ==
    Body(LoopKinds,
         << Block(<< >>, Jump(2)),
            Block(<<Phi(4, <<1, back[1]>>, <<1, 3>>), Phi(5, <<2, back[2]>>, <<1, 3>>),
                    Inst("eq", 6, <<4, 3>>)>>, Branch(6, 3, 4)),
            Block(<<Inst(op1, 7, arg1), Inst(op2, 8, arg2)>>, Jump(2)),
            Block(<< >>, Ret(out)) >>,
         <<0, 1, 1, 0>>)
Loops ==
    {Loop(op1, op2, <<back1, back2>>, arg1, arg2, out) :
        op1 \in {"op", "call"}, op2 \in {"load", "call"},
        back1 \in {5, 7, 8}, back2 \in {4, 5, 7},
        arg1 \in {<<4>>, <<1, 5>>}, arg2 \in {<<7>>, <<5, 7>>, <<7, 2>>},
        out \in {1, 4}}

(* if (c) { x = ?; } else { y = ?; } z = phi; return ? with a call anywhere. *)
DiamondKinds == <<"param", "param", "const", "inst", "inst", "inst", "inst", "inst">>
Diamond(op1, op2, op3, in1, in2, last) ==
    Body(DiamondKinds,
         << Block(<<Inst(op1, 4, <<1>>), Inst("eq", 5, <<4, 2>>)>>, Branch(5, 2, 3)),
            Block(<<Inst(op2, 6, <<4, 1>>)>>, Jump(4)),
            Block(<< >>, Jump(4)),
            Block(<<Phi(7, <<in1, in2>>, <<2, 3>>), Inst(op3, 8, last)>>, Ret(8)) >>,
         <<0, 0, 0, 0>>)
Diamonds ==
    {Diamond(op1, op2, op3, in1, in2, last) :
        op1 \in {"op", "call", "load"}, op2 \in {"op", "call"}, op3 \in {"op", "call"},
        in1 \in {6, 3, 2}, in2 \in {1, 4, 5}, last \in {<<7>>, <<4, 7>>, <<7, 2>>}}

(* One block with several short-lived values and calls between them, for    *)
(* the block-local scan.                                                    *)
StraightKinds == <<"param", "param", "const", "inst", "inst", "inst", "inst", "inst">>
Straight(op1, op2, op3, a5, a6, a7, a8) ==
    Body(StraightKinds,
         << Block(<<Inst("load", 4, <<1>>), Inst(op1, 5, a5), Inst(op2, 6, a6),
                    Inst(op3, 7, a7), Inst("op", 8, a8)>>, Ret(8)) >>,
         <<0>>)
Straights ==
    {Straight(op1, op2, op3, a5, a6, a7, a8) :
        op1 \in {"op", "call"}, op2 \in {"op", "call"}, op3 \in {"op"},
        a5 \in {<<4>>, <<2, 4>>}, a6 \in {<<5>>, <<4, 5>>, <<4, 2>>},
        a7 \in {<<6, 4>>, <<6, 5>>}, a8 \in {<<7, 6>>, <<7, 5>>, <<7, 1>>}}

(* Two nested loops, whose liveness needs more rounds.                      *)
NestKinds == <<"param", "param", "const", "inst", "inst", "inst", "inst", "inst">>
Nest(op, inner, outer, out) ==
    Body(NestKinds,
         << Block(<< >>, Jump(2)),
            Block(<<Phi(4, <<1, outer>>, <<1, 5>>)>>, Jump(3)),
            Block(<<Phi(5, <<2, inner>>, <<2, 4>>), Inst("eq", 6, <<5, 4>>)>>, Branch(6, 4, 5)),
            Block(<<Inst(op, 7, <<5, 1>>)>>, Jump(3)),
            Block(<<Inst("load", 8, <<4>>)>>, Branch(8, 2, 6)),
            Block(<< >>, Ret(out)) >>,
         <<0, 1, 2, 2, 1, 0>>)
Nests ==
    {Nest(op, inner, outer, out) : op \in {"op", "call"}, inner \in {7, 4, 2},
        outer \in {8, 5, 6}, out \in {8, 4, 1, 2}}

AllFuncs == UNION {Loops, Diamonds, Straights, Nests}
MCFuncs == {f \in AllFuncs : Verified(f) /\ NoDeadPhis(f)}

(* Ample limits, and for each limit of the code one that some functions     *)
(* exceed.                                                                  *)
Ample == [blocks |-> 9, values |-> 9, candidates |-> 9, cells |-> 99, rounds |-> 9, callWork |-> 99,
          localValues |-> 9]
MCBudgets ==
    {Ample, [Ample EXCEPT !.blocks = 1], [Ample EXCEPT !.rounds = 2],
     [Ample EXCEPT !.callWork = 5, !.localValues = 7]}
=============================================================================
