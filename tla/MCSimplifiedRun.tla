-------------------------- MODULE MCSimplifiedRun ---------------------------
(***************************************************************************)
(* Functions with short circuits, conditional updates, loops, constant     *)
(* conditions and slots.  Only functions verify_function accepts are kept. *)
(***************************************************************************)
EXTENDS SimplifiedRun

(* Values 1..5: a parameter and constants; 4 for each block, the last two   *)
(* of them of type I1.                                                      *)
p == 1
one == 2
zero == 3
true == 4
false == 5
Own(b, k) == 5 + 4 * (b - 1) + k
q == Own(1, 1)
c == Own(1, 4)

MCLiteral(v) == IF v \in {one, true} THEN 1 ELSE 0

Inst(op, result, args) == [op |-> op, result |-> result, args |-> args, preds |-> << >>]
Phi(result, preds, args) == [op |-> "phi", result |-> result, args |-> args, preds |-> preds]
Call(v) == Inst("call", NoValue, <<v>>)

Go(b) == [args |-> << >>, succ |-> <<b>>]
Branch(v, t, e) == [args |-> <<v>>, succ |-> <<t, e>>]
Ret(v) == [args |-> <<v>>, succ |-> << >>]
Block(insts, term) == [insts |-> insts, term |-> term]

Program(blocks) ==
    LET results == UNION {{i.result : i \in Elements(blocks[b].insts)} : b \in DOMAIN blocks}
        owned == 6..Own(Len(blocks), 4)
    IN  [kind |-> [v \in 1..Own(Len(blocks), 4) |->
                      IF v = p THEN "param" ELSE IF v \in results THEN "inst" ELSE "const"],
         bool |-> {true, false} \cup {v \in owned : (v - 6) % 4 >= 2},
         params |-> <<p>>,
         blocks |-> blocks,
         depth |-> [b \in DOMAIN blocks |-> 0]]

(* Everything starts by asking for a value and comparing it.                *)
Ask == <<Inst("call", q, <<p>>), Inst("eq", c, <<q, zero>>)>>
Sides(v, t, e) == {Branch(v, t, e), Branch(v, e, t)}

(* if (c && ...) and if (c || ...)                                          *)
ShortCircuitPrograms ==
    LET rhs == {<<Inst("not", Own(2, 4), <<c>>)>>, <<Inst("eq", Own(2, 4), <<q, p>>)>>,
                <<Call(p), Inst("eq", Own(2, 4), <<q, p>>)>>}
    IN  {Program(<<Block(Ask, first), Block(r, Go(3)),
                   Block(<<Phi(Own(3, 4), <<1, 2>>, <<k, Own(2, 4)>>)>> \o more, second),
                   Block(seen, Ret(one)), Block(<< >>, Ret(zero))>>) :
            first \in UNION {Sides(v, 2, 3) : v \in {c, true, false}}, r \in rhs,
            k \in {true, false}, more \in {<< >>, <<Call(one)>>},
            second \in Sides(Own(3, 4), 4, 5), seen \in {<< >>, <<Call(q)>>}}

(* if (c) x += d                                                            *)
UpdatePrograms ==
    LET updated(op, d) == <<Inst(op, Own(2, 1), <<q, d>>)>>
        seen == <<Call(Own(4, 1))>>
    IN  {Program(<<Block(Ask, first), Block(updated(op, d), Go(4)), Block(idle, Go(4)),
                   Block(<<Phi(Own(4, 1), <<2, 3>>, <<Own(2, 1), base>>)>> \o seen, Ret(p))>>) :
            first \in Sides(c, 2, 3), op \in {"add", "sub", "mul"}, d \in {p, one},
            idle \in {<< >>, <<Call(one)>>}, base \in {q, p}}
        \cup
        {Program(<<Block(Ask, first), Block(updated(op, d), Go(3)),
                   Block(<<Phi(Own(3, 1), <<1, 2>>, <<q, Own(2, 1)>>)>> \o more, Ret(Own(3, 1)))>>) :
            first \in Sides(c, 2, 3), op \in {"add", "sub"}, d \in {p, one},
            more \in {<< >>, <<Phi(Own(3, 2), <<1, 2>>, <<p, one>>), Call(Own(3, 2))>>}}

(* while (...) { if (...) x = ...; }, entered under a condition.            *)
LoopPrograms ==
    {Program(<<Block(Ask, Branch(v, 2, 7)), Block(<< >>, Go(3)),
               Block(<<Phi(Own(3, 1), <<2, 6>>, <<p, Own(6, 1)>>),
                       Phi(Own(3, 2), <<2, 6>>, <<zero, Own(6, 2)>>),
                       Inst("call", Own(4, 1), <<Own(3, 1)>>), Inst("eq", Own(3, 4), <<Own(4, 1), zero>>)>>,
                     Branch(Own(3, 4), 4, 7)),
               Block(<< >>, inner),
               Block(body, Go(6)),
               Block(<<Phi(Own(6, 1), <<4, 5>>, <<Own(3, 1), x>>),
                       Inst("op", Own(6, 2), <<Own(3, 2)>>)>>, Go(3)),
               Block(<<Phi(Own(7, 1), <<1, 3>>, <<zero, Own(3, 1)>>)>>, Ret(Own(7, 1)))>>) :
        v \in {c, true, false}, inner \in UNION {Sides(w, 5, 6) : w \in {c, true, false}},
        body \in {<< >>, <<Inst("add", Own(5, 1), <<Own(3, 1), one>>)>>},
        x \in {one, Own(5, 1)}}
    \cup
    {Program(<<Block(Ask, Branch(v, 2, 6)), Block(<< >>, Go(3)),
               Block(<<Phi(Own(3, 1), <<2, 5>>, <<p, Own(4, 1)>>),
                       Inst("eq", Own(3, 4), <<Own(3, 1), zero>>)>>, Branch(Own(3, 4), 4, 6)),
               Block(<<Inst("call", Own(4, 1), <<Own(3, 1)>>)>>, back), Block(<< >>, Go(3)),
               Block(<< >>, Ret(q))>>) :
        v \in {c, true, false}, back \in {Go(5)} \cup Sides(c, 5, 6)}
    \cup
    {Program(<<Block(Ask, Branch(v, 2, 6)), Block(<< >>, Go(3)),
               Block(<<Call(one)>>, Branch(w, 4, 6)),
               Block(<< >>, Go(5)),
               Block(<<Inst("call", Own(5, 1), <<p>>), Inst("eq", Own(5, 4), <<Own(5, 1), q>>)>>,
                     Branch(Own(5, 4), 5, 3)),
               Block(<< >>, Ret(q))>>) : v \in {c, true}, w \in {c, true}}

(* A test of a phi right before the return, and two that share their ways   *)
(* in.                                                                      *)
ThreadPrograms ==
    {Program(<<Block(Ask, Branch(c, 2, 3)), Block(<<Call(one)>>, Go(4)),
               Block(<<Inst("call", Own(3, 1), <<q>>), Inst("eq", Own(3, 4), <<Own(3, 1), p>>)>>, third),
               Block(<<Phi(Own(4, 4), <<2, 3>>, <<k, r>>)>>, last),
               Block(<< >>, Ret(one)), Block(<<Call(zero)>>, Ret(zero))>>) :
        k \in {true, false}, r \in {true, Own(3, 4)}, last \in Sides(Own(4, 4), 5, 6),
        third \in {Go(4), Branch(Own(3, 4), 4, 6)}}
    \cup
    {Program(<<Block(Ask, Branch(c, 4, 5)),
               Block(<<Phi(Own(2, 4), <<4, 5>>, <<true, k>>)>>, Branch(Own(2, 4), 6, 7)),
               Block(<<Phi(Own(3, 4), <<4, 5>>, <<false, true>>)>>, Branch(Own(3, 4), 7, 6)),
               Block(<<Inst("call", Own(4, 1), <<one>>), Inst("eq", Own(4, 4), <<Own(4, 1), p>>)>>,
                     Branch(Own(4, 4), 2, 3)),
               Block(<<Call(zero)>>, Branch(c, 2, 3)),
               Block(<< >>, Ret(one)), Block(<< >>, Ret(q))>>) : k \in {true, false}}

(* Loops that die in the round that looks for conversions.                  *)
DeadLoopPrograms ==
    {Program(<<Block(Ask, Branch(v, 2, 5)),
               Block(<<Phi(Own(2, 4), <<1, 3, 4>>, <<true, false, Own(4, 4)>>)>>, Branch(Own(2, 4), 3, 5)),
               Block(<<Call(p)>>, Branch(c, 4, 2)),
               Block(<<Inst("eq", Own(4, 4), <<p, one>>)>>, Go(2)),
               Block(<<Call(one)>>, Ret(one))>>) : v \in {false, true}}
    \cup
    {Program(<<Block(Ask, Branch(v, 2, 5)),
               Block(<<Phi(Own(2, 1), <<1, 3, 4>>, <<zero, p, Own(4, 1)>>), Call(Own(2, 1))>>, Go(3)),
               Block(<< >>, Branch(c, 4, 2)),
               Block(<<Inst("add", Own(4, 1), <<p, one>>)>>, Go(2)),
               Block(<<Call(one)>>, Ret(one))>>) : v \in {false, true}}

(* Slots that are only written, read, passed on, or kept in another slot.   *)
SlotPrograms ==
    LET a == Own(1, 1)
        g == Own(1, 2)
        other == Own(2, 1)
        writes == {<< >>, <<Inst("store", NoValue, <<a, p>>)>>, <<Inst("memzero", NoValue, <<g>>)>>,
                   <<Inst("store", NoValue, <<g, one>>)>>}
        reads == {<< >>, <<Inst("load", Own(2, 2), <<g>>), Call(Own(2, 2))>>, <<Call(a)>>,
                  <<Inst("load", Own(2, 2), <<a>>)>>,
                  <<Inst("store", NoValue, <<other, a>>), Inst("load", Own(2, 2), <<other>>),
                    Inst("load", Own(3, 1), <<Own(2, 2)>>), Call(Own(3, 1))>>}
    IN  {Program(<<Block(<<Inst("alloca", a, << >>), Inst("alloca", other, << >>),
                           Inst("gep", g, <<a, p>>)>> \o w, Go(2)),
                   Block(r, Go(3)), Block(<<Call(p)>>, Ret(p))>>) : w \in writes, r \in reads}

(* t = p;                                                                   *)
(* if (k && ask())                                                          *)
(*     while (ask()) { g(1); if (k && ask()) t = 1; else f(t); }            *)
(* return t;                                                                *)
(* where k turned out to be false behind the last run that keeps            *)
(* preheaders.  Block 2 is such a preheader.                                *)
PhiCyclePrograms ==
    LET asked(b) == <<Inst("call", Own(b, 1), <<p>>), Inst("eq", Own(b, 4), <<Own(b, 1), zero>>)>>
    IN  {Program(<<Block(<< >>, Branch(false, 4, 5)),
                   Block(<< >>, Go(6)),
                   Block(<<Phi(Own(3, 1), <<5, 6>>, <<p, Own(6, 2)>>)>>, Ret(Own(3, 1))),
                   Block(asked(4), Go(5)),
                   Block(<<Phi(Own(5, 4), <<1, 4>>, <<false, Own(4, 4)>>)>>, Branch(Own(5, 4), 2, 3)),
                   Block(<<Phi(Own(6, 2), <<2, 10>>, <<p, Own(10, 1)>>)>> \o asked(6),
                         Branch(Own(6, 4), 7, 3)),
                   Block(<<Call(one)>>, Branch(false, 11, 12)),
                   Block(<< >>, Go(10)),
                   Block(<<Call(Own(6, 2))>>, Go(10)),
                   Block(<<Phi(Own(10, 1), <<8, 9>>, <<one, Own(6, 2)>>)>>, Go(6)),
                   Block(asked(11), Go(12)),
                   Block(<<Phi(Own(12, 4), <<7, 11>>, <<false, Own(11, 4)>>)>>,
                         Branch(Own(12, 4), 8, 9))>>)}

MCPrograms ==
    {f \in UNION {ShortCircuitPrograms, UpdatePrograms, LoopPrograms, ThreadPrograms,
                  DeadLoopPrograms, SlotPrograms} : Verified(f)}
=============================================================================
