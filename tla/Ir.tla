--------------------------------- MODULE Ir ---------------------------------
(***************************************************************************)
(* The SSA functions every later module works on (ir/repr.rs), reduced to  *)
(* what control flow, data flow and storage depend on.                     *)
(*                                                                         *)
(* A function is a record                                                  *)
(*   kind    sequence over the values: "param", "const" or "inst"          *)
(*   params  sequence of values                                            *)
(*   blocks  sequence of [insts, term]; block 1 is the entry               *)
(*   depth   sequence: the natural-loop depth of each block                *)
(* An instruction is [op, result, args, preds]: "op" stands for arithmetic *)
(* no pass looks into (the passes that do name the operator: "add", "not", *)
(* "eq" for a comparison, ...), a store's args are <<ptr, value>>,         *)
(* result is NoValue when there is none, and preds pairs a phi's args with *)
(* blocks.                                                                 *)
(* A terminator is [args, succ].  Values and blocks are numbered from 1.   *)
(***************************************************************************)
EXTENDS Naturals, Sequences, FiniteSets

NoValue == 0
Entry == 1

Elements(s) == {s[i] : i \in DOMAIN s}

Values(f) == DOMAIN f.kind
Blocks(f) == DOMAIN f.blocks
Insts(f, b) == f.blocks[b].insts
Term(f, b) == f.blocks[b].term
Sites(f) == UNION {{<<b, i>> : i \in DOMAIN Insts(f, b)} : b \in Blocks(f)}
ResultAt(f, s) == Insts(f, s[1])[s[2]].result
Results(f, b) == {Insts(f, b)[i].result : i \in DOMAIN Insts(f, b)} \ {NoValue}

Nop == [op |-> "nop", result |-> NoValue, args |-> << >>, preds |-> << >>]
IsPhi(inst) == inst.op = "phi"
IsCall(inst) == inst.op = "call"
IsConst(f, v) == f.kind[v] = "const"

Phis(f, b) == {Insts(f, b)[i] : i \in {j \in DOMAIN Insts(f, b) : IsPhi(Insts(f, b)[j])}}
PhiResults(f, b) == {p.result : p \in Phis(f, b)}

(* Operands of an instruction or terminator, as a set.                      *)
Uses(inst) == Elements(inst.args)

Successors(f, b) == Elements(Term(f, b).succ)
Predecessors(f, b) == {p \in Blocks(f) : b \in Successors(f, p)}

(* The block a value lives in: parameters belong to the entry block.        *)
OwnerBlock(f, v) ==
    IF f.kind[v] = "param" THEN Entry
    ELSE CHOOSE b \in Blocks(f) : v \in Results(f, b)

Ascending(S) ==
    [i \in 1..Cardinality(S) |-> CHOOSE x \in S : Cardinality({y \in S : y < x}) = i - 1]

(* resolve_replacement: follow a table of values to the end of the chain.   *)
Resolve(table, v) ==
    LET length == Cardinality(DOMAIN table)
        step[n \in 0..length] ==
          IF n = 0 THEN {v}
          ELSE {IF u \in DOMAIN table THEN table[u] ELSE u : u \in step[n - 1]}
    IN  IF v \in DOMAIN table THEN CHOOSE u \in step[length] : TRUE ELSE v

(* rewrite_function_uses: operands change, results do not.                  *)
Replaced(table, reader) ==
    [reader EXCEPT !.args = [k \in DOMAIN @ |-> Resolve(table, @[k])]]

Rewritten(f, table) ==
    [f EXCEPT !.blocks = [b \in DOMAIN @ |->
        [insts |-> [i \in DOMAIN @[b].insts |-> Replaced(table, @[b].insts[i])],
         term |-> Replaced(table, @[b].term)]]]

(* The value a phi receives from a predecessor.                             *)
Incoming(phi, pred) == phi.args[CHOOSE i \in DOMAIN phi.preds : phi.preds[i] = pred]

(* Blocks reached from some blocks without entering the avoided ones, by    *)
(* unfolding the successor relation once a block.                           *)
ReachedAvoiding(f, from, avoided) ==
    LET step[n \in 0..Len(f.blocks)] ==
          IF n = 0 THEN from \ avoided
          ELSE UNION {{b} \cup (Successors(f, b) \ avoided) : b \in step[n - 1]}
    IN  step[Len(f.blocks)]

Reachable(f) == ReachedAvoiding(f, {Entry}, {})

(* What dominators.rs answers (Dominators checks that it does): a dead      *)
(* block is dominated by itself only, and available in dead code is what    *)
(* the entry defines or what every way into the block passes.               *)
Dominates(f, a, b) ==
    IF b \in Reachable(f) THEN b \notin ReachedAvoiding(f, {Entry}, {a}) ELSE a = b

AvailableIn(f, a, b) ==
    LET live == Reachable(f)
        dead == Blocks(f) \ live
        reach == [c \in dead |-> ReachedAvoiding(f, {c}, {})]
        sources == {c \in dead : \A d \in dead : c \in reach[d] => d \in reach[c]}
    IN  IF b \in live THEN Dominates(f, a, b)
        ELSE IF a \in live THEN a = Entry
        ELSE b \notin ReachedAvoiding(f, sources, {a})

-----------------------------------------------------------------------------
(* The shape of a function, whatever its contents mean.                     *)
Kinds == {"param", "const", "inst"}
Ops == {"nop", "phi", "alloca", "load", "store", "memzero", "gep", "call", "op",
        "add", "sub", "mul", "not", "and", "or", "eq", "toint", "tobool"}
InstShape == [op : Ops, result : Nat, args : Seq(Nat), preds : Seq(Nat)]
BlockShape == [insts : Seq(InstShape), term : [args : Seq(Nat), succ : Seq(Nat)]]

WellFormed(f) ==
    /\ {"kind", "params", "blocks", "depth"} \subseteq DOMAIN f
    /\ f.kind \in Seq(Kinds)
    /\ f.blocks \in Seq(BlockShape)
    /\ Len(f.blocks) > 0
    /\ f.params \in Seq(Values(f))
    /\ \A b \in Blocks(f) :
          /\ Successors(f, b) \subseteq Blocks(f)
          /\ f.depth[b] \in Nat

(* What verify_function accepts: the states in which passes and the backend *)
(* receive a function.                                                      *)
PhisLeadBlocks(f) ==
    \A b \in Blocks(f) : \A i \in DOMAIN Insts(f, b) :
        IsPhi(Insts(f, b)[i]) =>
            /\ b # Entry
            /\ \A j \in 1..i : Insts(f, b)[j].op \in {"phi", "nop"}
            /\ Elements(Insts(f, b)[i].preds) = Predecessors(f, b)
            /\ Len(Insts(f, b)[i].preds) = Cardinality(Predecessors(f, b))
            /\ Len(Insts(f, b)[i].args) = Len(Insts(f, b)[i].preds)

(* Parameters, constants and globals are available in every block.         *)
IsInst(f, v) == f.kind[v] = "inst"
DefinedAt(f, v, b, i) == i \in DOMAIN Insts(f, b) /\ Insts(f, b)[i].result = v
DefinedBy(f, v) == \E b \in Blocks(f) : v \in Results(f, b)

OrdinaryUse(f, v, b, i) ==
    IsInst(f, v) =>
        /\ DefinedBy(f, v)
        /\ LET owner == OwnerBlock(f, v) IN
           IF owner = b THEN \E j \in 1..(i - 1) : DefinedAt(f, v, b, j)
           ELSE AvailableIn(f, owner, b)

EdgeUse(f, v, pred) ==
    IsInst(f, v) =>
        /\ DefinedBy(f, v)
        /\ OwnerBlock(f, v) = pred \/ AvailableIn(f, OwnerBlock(f, v), pred)

UsesDominated(f) ==
    \A b \in Blocks(f) :
        /\ \A i \in DOMAIN Insts(f, b) :
              LET inst == Insts(f, b)[i] IN
              IF IsPhi(inst)
              THEN \A k \in DOMAIN inst.args : EdgeUse(f, inst.args[k], inst.preds[k])
              ELSE \A v \in Uses(inst) : OrdinaryUse(f, v, b, i)
        /\ \A v \in Elements(Term(f, b).args) : OrdinaryUse(f, v, b, Len(Insts(f, b)) + 1)

SingleAssignment(f) ==
    /\ \A s, t \in Sites(f) : ResultAt(f, s) = ResultAt(f, t) /\ ResultAt(f, s) # NoValue => s = t
    /\ \A s \in Sites(f) : ResultAt(f, s) # NoValue => IsInst(f, ResultAt(f, s))

(* Instructions and terminators name values of the function, a phi defines  *)
(* one, and a removed instruction is empty.                                 *)
ValuesChecked(f) ==
    \A b \in Blocks(f) :
        /\ \A i \in DOMAIN Insts(f, b) :
              LET inst == Insts(f, b)[i] IN
              /\ Uses(inst) \subseteq Values(f)
              /\ inst.result \in IF IsPhi(inst) THEN Values(f) ELSE Values(f) \cup {NoValue}
              /\ inst.op = "nop" => inst = Nop
        /\ Elements(Term(f, b).args) \subseteq Values(f)

Verified(f) ==
    /\ ValuesChecked(f)
    /\ SingleAssignment(f)
    /\ Predecessors(f, Entry) = {}
    /\ PhisLeadBlocks(f)
    /\ UsesDominated(f)
    /\ {v \in Values(f) : f.kind[v] = "param"} = Elements(f.params)

(* Both pipelines end in DcePass, which removes phis nothing reads.         *)
NoDeadPhis(f) ==
    \A b \in Blocks(f) : \A p \in PhiResults(f, b) :
        \E c \in Blocks(f) :
            \/ \E i \in DOMAIN Insts(f, c) : p \in Uses(Insts(f, c)[i])
            \/ p \in Elements(Term(f, c).args)
=============================================================================
