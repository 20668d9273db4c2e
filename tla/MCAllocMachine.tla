--------------------------- MODULE MCAllocMachine ---------------------------
(***************************************************************************)
(* The functions of MCRegAlloc, run, and functions with addresses to fold; *)
(* the second argument register is the one the allocator may also hand     *)
(* out.                                                                    *)
(***************************************************************************)
EXTENDS AllocMachine, MCRegAlloc

CONSTANT a0
MCArgRegs == <<a0, a2>>

(* p[1], p[i] and p[i + 1] in the entry, read and written there or in the   *)
(* next block, with a call or a definition before, between and after.       *)
AddressKinds == <<"param", "param", "const", "inst", "inst", "inst", "inst", "inst", "inst", "inst">>
Addresses(op1, op2, arg, read, write, last, split) ==
    LET first == <<Inst("gep", 4, <<1, 3>>), Inst("add", 5, <<2, 3>>), Inst("gep", 6, <<1, 2>>),
                   Inst(op1, 8, <<arg>>), Inst("gep", 7, <<1, 5>>)>>
        rest == <<Inst("load", 9, <<read>>), Inst(op2, 10, <<9, 8>>), Inst("store", NoValue, <<write, 10>>)>>
    IN  Body(AddressKinds,
             IF split THEN << Block(first, Jump(2)), Block(rest, Ret(last)) >>
             ELSE << Block(first \o rest, Ret(last)) >>,
             IF split THEN <<0, 0>> ELSE <<0>>)
AddressFuncs ==
    {Addresses(op1, op2, arg, read, write, last, split) :
        op1 \in {"op", "call", "load"}, op2 \in {"op", "call"}, arg \in {1, 4, 5, 6},
        read \in {4, 6, 7}, write \in {4, 7}, last \in {2, 8, 10}, split \in BOOLEAN}

(* A loop that walks down from p[i] and reads the neighbour.                *)
Walk(op, last) ==
    Body(<<"param", "param", "const", "inst", "inst", "inst", "inst", "inst", "inst">>,
         << Block(<< >>, Jump(2)),
            Block(<<Phi(4, <<2, 5>>, <<1, 3>>), Inst("eq", 9, <<4, 3>>)>>, Branch(9, 3, 4)),
            Block(<<Inst("sub", 5, <<4, 3>>), Inst("gep", 6, <<1, 4>>), Inst("load", 7, <<6>>),
                    Inst("gep", 8, <<1, 5>>), Inst(op, NoValue, <<8, 7>>)>>, Jump(2)),
            Block(<< >>, Ret(last)) >>,
         <<0, 1, 1, 0>>)

(* p[1], p[i - i] and p[1 + i - i]: the second index has no terms, like the *)
(* constant one, but its address is computed.                               *)
Cancelled(op, read) ==
    Body(<<"param", "param", "const", "inst", "inst", "inst", "inst", "inst", "inst", "inst">>,
         << Block(<<Inst("gep", 4, <<1, 3>>), Inst("sub", 5, <<2, 2>>), Inst("gep", 6, <<1, 5>>),
                    Inst("load", 7, <<6>>), Inst(op, 8, <<7>>), Inst("add", 9, <<3, 5>>),
                    Inst("gep", 10, <<1, 9>>), Inst("store", NoValue, <<4, read>>),
                    Inst("store", NoValue, <<10, 8>>)>>, Ret(8)) >>,
         <<0>>)

MCSources ==
    {f \in AllFuncs \cup AddressFuncs
             \cup {Walk(op, last) : op \in {"store", "call"}, last \in {1, 4}}
             \cup {Cancelled(op, read) : op \in {"op", "call"}, read \in {2, 7}} :
        Verified(f) /\ NoDeadPhis(f) /\ (f.kind = AddressKinds => DeadAddressValues(f) = {})}
MCViews == {AllocationView(f) : f \in MCSources}

(* Every one of them has its comparisons right before the branches.         *)
ASSUME SourcesCompareLast == \A f \in MCSources : ComparesLast(f)

(* A branch whose comparison stands before a call, as it does when Cse lets *)
(* the comparison of the branch share an earlier one.                       *)
MCDeferredSources ==
    {Body(<<"param", "param", "inst", "inst", "inst">>,
          << Block(<<Inst(op, 3, <<1>>), Inst("eq", 4, args), Inst("call", 5, <<2>>)>>, Branch(4, 2, 3)),
             Block(<< >>, Ret(5)),
             Block(<< >>, Ret(2)) >>,
          <<0, 0, 0>>) : op \in {"load", "op"}, args \in {<<3, 2>>, <<1, 3>>}}
MCDeferredViews == {AllocationView(f) : f \in MCDeferredSources}

(* Ample limits for the colouring, and one that forces the fallback.        *)
MCMachineBudgets == {[Ample EXCEPT !.values = 10], [Ample EXCEPT !.values = 10, !.blocks = 0]}
=============================================================================
