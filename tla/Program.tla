------------------------------ MODULE Program -------------------------------
(***************************************************************************)
(* A whole module of the compiler's IR (Module of ir/repr.rs), for the     *)
(* passes that look at operators, types, memory and calls.                 *)
(*                                                                         *)
(* A program is [funcs, globals]: a sequence of functions, the first being *)
(* main, and of globals [const, array, init], init giving every cell.      *)
(* A function is one of Ir with three more fields:                         *)
(*   ret     "void" or "int"                                               *)
(*   ty      sequence over the values: "int", "bool", "ptr" for a pointer  *)
(*           to a scalar, "array" for one to an array                      *)
(*   lit     sequence over the values: a constant's number, the index of a *)
(*           global, 0 elsewhere; kind has one more form, "global"         *)
(* Operators carry the names of UnaryOp, BinaryOp, CmpOp and CastOp.  A    *)
(* call has the field "name": k for function k, 0 for a library function;  *)
(* an alloca and a memzero have "size", in cells, and so has a gep that     *)
(* steps over more than one cell for each index.  The initializer of a     *)
(* global that names none is the number 0.                                 *)
(***************************************************************************)
EXTENDS TLC, Dce, Words

CONSTANTS
    MaxBlocks, MaxValues,      \* a function larger than this is left alone
    MaxFunctions, MaxEdges,    \* so is a program with more functions or calls
    MaxWork,                   \* what one analysis of a function may spend
    MaxRounds                  \* iterations of a fixpoint before it gives up

Main == 1

(* An operand is evaluated once, however often the operator names it (the   *)
(* comparison makes TLC do so).                                             *)
With(value, Op(_)) == CHOOSE y \in {Op(x) : x \in {v \in {value} : v = v}} : TRUE

Folded(Op(_, _), base, s) ==
    LET Fold(t) ==
          LET step[n \in 0..Len(t)] ==
                IF n = 0 THEN {base} ELSE {Op(acc, t[n]) : acc \in {a \in step[n - 1] : a = a}}
          IN  CHOOSE y \in step[Len(t)] : TRUE
    IN  With(s, Fold)

Iterated(Op(_), base, count) ==
    LET step[n \in 0..count] ==
          IF n = 0 THEN {base} ELSE {Op(acc) : acc \in {a \in step[n - 1] : a = a}}
    IN  CHOOSE y \in step[count] : TRUE

(* Until nothing changes any more.                                          *)
Settled(Op(_), base, count) ==
    LET again(st) ==
          IF st.done THEN st
          ELSE With(Op(st.value), LAMBDA y : [value |-> y, done |-> y = st.value])
    IN  Iterated(again, [value |-> base, done |-> FALSE], count).value

Chosen(S, Test(_)) == CHOOSE x \in S : Test(x)
Least(S) == CHOOSE x \in S : \A y \in S : x <= y
Greatest(S) == CHOOSE x \in S : \A y \in S : x >= y

EachFunction(p, Pass(_)) == [p EXCEPT !.funcs = [k \in DOMAIN @ |-> With(@[k], Pass)]]
-----------------------------------------------------------------------------
Pure == Unary \cup Binary \cup Compare \cup Cast \cup {"gep"}

Operation(op, result, args) == [op |-> op, result |-> result, args |-> args, preds |-> << >>]
Jump(to) == [args |-> << >>, succ |-> <<to>>]
IsBranch(f, b) == Len(Term(f, b).succ) = 2
IsReturn(f, b) == Term(f, b).succ = << >>

(* A result is defined once, so both of its coordinates are determined.     *)
SiteOf(f, v) == CHOOSE s \in Sites(f) : ResultAt(f, s) = v
At(f, s) == Insts(f, s[1])[s[2]]

(* defining_inst: what a value is computed by, a Nop when it is not.        *)
Definition(f, v) ==
    LET by == {i \in Instructions(f) : i.result = v} IN
    IF f.kind[v] # "inst" \/ by = {} THEN Nop ELSE CHOOSE i \in by : TRUE

IsInt(f, v) == f.kind[v] = "const" /\ f.ty[v] = "int"
IsNumber(f, v, n) == IsInt(f, v) /\ f.lit[v] = n
Numbers(f, vs) == \A v \in vs : IsInt(f, v)
IsPointer(f, v) == f.ty[v] \in {"ptr", "array"}

WithValue(f, kind, ty, lit) ==
    [f EXCEPT !.kind = Append(@, kind), !.ty = Append(@, ty), !.lit = Append(@, lit)]
NewValue(f) == Len(f.kind) + 1

(* add_const and get_or_add_i32_const: the constant is added when missing.  *)
Constants(f, ty, n) == {v \in Values(f) : f.kind[v] = "const" /\ f.ty[v] = ty /\ f.lit[v] = n}
WithConst(f, ty, n) == IF Constants(f, ty, n) = {} THEN WithValue(f, "const", ty, n) ELSE f
ConstOf(f, ty, n) == Least(Constants(f, ty, n))

(* Mutant: the phis are forgotten.                                          *)
MutantPhisForgotten(inst, from, to) == inst

(* A block the phis heard from goes on as another.                          *)
HeardFromNow(inst, from, to) ==
    [inst EXCEPT !.preds = [k \in DOMAIN @ |-> IF @[k] = from THEN to ELSE @[k]]]

Replace(f, s, inst) == [f EXCEPT !.blocks[s[1]].insts[s[2]] = inst]
ReplaceSites(f, sites, inst) ==
    [f EXCEPT !.blocks = [b \in DOMAIN @ |-> [@[b] EXCEPT !.insts = [i \in DOMAIN @ |->
        IF <<b, i>> \in sites THEN inst ELSE @[i]]]]]
AppendInst(f, b, inst) == [f EXCEPT !.blocks[b].insts = Append(@, inst)]

(* The instructions that lead a block, and others inserted after n of it.   *)
LeadingCount(f, b, ops) ==
    Cardinality({i \in DOMAIN Insts(f, b) : \A j \in 1..i : Insts(f, b)[j].op \in ops})
Inserted(f, b, n, insts) ==
    [f EXCEPT !.blocks[b].insts = SubSeq(@, 1, n) \o insts \o SubSeq(@, n + 1, Len(@))]

(* Sites in the order of the text.                                          *)
InOrder(f, sites) ==
    LET ofBlock(b) == Ascending({s[2] : s \in {t \in sites : t[1] = b}})
        add(seq, b) == seq \o [k \in DOMAIN ofBlock(b) |-> <<b, ofBlock(b)[k]>>]
    IN  Folded(add, << >>, [b \in Blocks(f) |-> b])

WithinSize(f) == Len(f.blocks) <= MaxBlocks /\ Len(f.kind) <= MaxValues

-----------------------------------------------------------------------------
SitesOf(f, b) == [i \in DOMAIN Insts(f, b) |-> <<b, i>>]

(* The instructions down the dominator tree: siblings have nothing to tell  *)
(* each other, so a block may come any time after its dominators.           *)
DominatorPairs(f) ==
    {e \in Reachable(f) \X Reachable(f) : Dominates(f, e[1], e[2])}

TreeWalk(f, dominates) ==
    LET depth(b) == Cardinality({a \in Blocks(f) : <<a, b>> \in dominates})
        level(n) == Ascending({b \in Reachable(f) : depth(b) = n})
        order == Folded(LAMBDA seq, n : seq \o level(n), << >>, [n \in Blocks(f) |-> n])
    IN  Folded(LAMBDA seq, b : seq \o SitesOf(f, b), << >>, order)

(* The function a call names, when it is one of the program's, and whether  *)
(* call_matches_signature: as many arguments, of its parameters' types.     *)
Calls(f) == {i \in Instructions(f) : IsCall(i)}
Callees(f) == {i.name : i \in Calls(f)} \ {0}
MatchesSignature(p, f, inst) ==
    LET callee == p.funcs[inst.name] IN
    /\ (inst.result = NoValue) = (callee.ret = "void")
    /\ inst.result # NoValue => f.ty[inst.result] = callee.ret
    /\ Len(inst.args) = Len(callee.params)
    /\ \A k \in DOMAIN inst.args : f.ty[inst.args[k]] = callee.ty[callee.params[k]]
-----------------------------------------------------------------------------
(* Which functions touch no memory, directly or through what they call,     *)
(* ir/pass/function_effects.rs.  What a function does by itself rules it    *)
(* out.                                                                     *)
Refuted(p, f) ==
    \E i \in Instructions(f) :
        \/ i.op \in {"load", "store", "memzero"}
        \/ IsCall(i) /\ (i.name = 0 \/ ~MatchesSignature(p, f, i))

CallCount(p) ==
    LET count(n, f) == n + Cardinality({s \in Sites(f) : IsCall(At(f, s))})
    IN  Folded(count, 0, p.funcs)

(* The greatest fixpoint: a refuted function refutes its callers, and what  *)
(* is left, recursive or not, stays proved.                                 *)
NoMemory(p) ==
    LET funcs == DOMAIN p.funcs
        callees == [k \in funcs |-> Callees(p.funcs[k])]
        refuteCallers(S) == S \cup {k \in funcs : callees[k] \cap S # {}}
        refuted == {k \in funcs : Refuted(p, p.funcs[k])}
    IN  IF Len(p.funcs) > MaxFunctions \/ CallCount(p) > MaxEdges THEN {}
        ELSE funcs \ Iterated(refuteCallers, refuted, Len(p.funcs))

(* resolve_no_memory_call: the call computes a value and nothing else.      *)
CallsNoMemory(p, quiet, f, inst) ==
    /\ IsCall(inst) /\ inst.result # NoValue /\ inst.name \in quiet
    /\ MatchesSignature(p, f, inst)
=============================================================================
