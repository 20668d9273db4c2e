--------------------------- MODULE AddressFolding ---------------------------
(***************************************************************************)
(* The addresses that are never computed (memory.rs, emitter.rs): a load   *)
(* or store at a constant distance from an address in a register carries   *)
(* the distance in its offset field.  Registers are allocated on a copy of *)
(* the function in which the folded addresses are gone, the code is        *)
(* emitted from the function itself.  Distances are taken to fit the field *)
(* and the function to be within the MAX_FOLDED_MEMORY limits.             *)
(***************************************************************************)
EXTENDS Ir, Integers

Args(f, s) == IF s[2] \in DOMAIN Insts(f, s[1]) THEN Insts(f, s[1])[s[2]].args ELSE Term(f, s[1]).args
Places(f) == Sites(f) \cup {<<b, Len(Insts(f, b)) + 1>> : b \in Blocks(f)}

(* ir_value_use_counts, and the uses as the address of a load or store.     *)
UsesOf(f, v) == UNION {{<<s, k>> : k \in {j \in DOMAIN Args(f, s) : Args(f, s)[j] = v}} : s \in Places(f)}
IsAccess(inst) == inst.op \in {"load", "store"}
AddressUses(f, v) == {u \in UsesOf(f, v) : u[1] \in Sites(f) /\ u[2] = 1 /\ IsAccess(Insts(f, u[1][1])[u[1][2]])}

(* affine_i32_index: how often each value counts in an index; constants     *)
(* only move the offset.                                                    *)
Terms(f, index) ==
    LET by(v) == IF IsInst(f, v) THEN CHOOSE i \in {Insts(f, s[1])[s[2]] : s \in Sites(f)} : i.result = v ELSE Nop
        coefficient[d \in 0..Len(f.kind)] ==
          [v \in Values(f) |->
             LET sign == IF by(v).op = "add" THEN 1 ELSE -1 IN
             IF d > 0 /\ by(v).op \in {"add", "sub"}
             THEN [t \in Values(f) |-> coefficient[d - 1][by(v).args[1]][t]
                                         + sign * coefficient[d - 1][by(v).args[2]][t]]
             ELSE [t \in Values(f) |-> IF t = v /\ ~IsConst(f, v) THEN 1 ELSE 0]]
    IN  coefficient[Len(f.kind)][index]

(* Addresses with one index of which only the memory is read or written.    *)
OnlyAccessed(f, v) == AddressUses(f, v) # {} /\ AddressUses(f, v) = UsesOf(f, v)

Eligible(f) ==
    {s \in Sites(f) : LET inst == Insts(f, s[1])[s[2]] IN
        inst.op = "gep" /\ Len(inst.args) = 2 /\ OnlyAccessed(f, inst.result)}

(* The eligible addresses before it in its block that differ from it by a   *)
(* constant and are no constant distance from the base: the first of them   *)
(* is computed and stands for all.                                          *)
Near(f, s) ==
    LET args(t) == Args(f, t) IN
    {t \in Eligible(f) : /\ t[1] = s[1] /\ t[2] < s[2] /\ ~IsConst(f, args(t)[2])
                         /\ args(t)[1] = args(s)[1] /\ Terms(f, args(t)[2]) = Terms(f, args(s)[2])}

(* collect_folded_memory_geps: folded address -> what it is relative to.    *)
Folds(f) ==
    LET relative(s) ==
          LET near == Near(f, s) IN
          IF IsConst(f, Args(f, s)[2]) THEN {Args(f, s)[1]}
          ELSE {ResultAt(f, t) : t \in {x \in near : \A y \in near : x[2] <= y[2]}}
        folded == {s \in Eligible(f) : relative(s) # {}}
    IN  [v \in {ResultAt(f, s) : s \in folded} |->
            CHOOSE base \in relative(CHOOSE s \in folded : ResultAt(f, s) = v) : TRUE]

(* memory_address                                                           *)
Base(folds, ptr) == IF ptr \in DOMAIN folds THEN folds[ptr] ELSE ptr
Addressed(folds, inst) == IF IsAccess(inst) THEN [inst EXCEPT !.args[1] = Base(folds, @)] ELSE inst

(* rewrite_folded_memory_uses_for_allocation                                *)
EachInst(f, New(_)) ==
    [f EXCEPT !.blocks = [b \in Blocks(f) |->
        [insts |-> [i \in DOMAIN Insts(f, b) |-> New(Insts(f, b)[i])], term |-> Term(f, b)]]]
WithoutFolded(f, folds) ==
    EachInst(f, LAMBDA inst : IF inst.result \in DOMAIN folds THEN Nop ELSE Addressed(folds, inst))

(* eliminate_dead_folded_address_values: what only dead values used dies.   *)
IsRemovable(inst) == inst.op \notin {"nop", "store", "memzero", "call"}
DeadAddressValues(f) ==
    LET dead[n \in 0..Len(f.kind)] ==
          IF n = 0 THEN {}
          ELSE (UNION {{ResultAt(f, s) : s \in {t \in Sites(f) :
                  /\ IsRemovable(Insts(f, t[1])[t[2]])
                  /\ \A u \in UsesOf(f, ResultAt(f, t)) :
                        u[1] \in Sites(f) /\ ResultAt(f, u[1]) \in before}} : before \in {dead[n - 1]}})
                 \ {NoValue}
    IN  dead[Len(f.kind)]

(* The function the allocators see.  Mutant: they see the original.         *)
SeenUnfolded(f) == f
AllocationView(f) ==
    LET rewritten == WithoutFolded(f, Folds(f))
        dead == DeadAddressValues(rewritten)
    IN  IF DOMAIN Folds(f) = {} THEN f
        ELSE EachInst(rewritten, LAMBDA inst : IF inst.result \in dead THEN Nop ELSE inst)

(* elided_values: what emission passes over.                                *)
Elided(f) == IF DOMAIN Folds(f) = {} THEN {} ELSE DeadAddressValues(WithoutFolded(f, Folds(f)))
-----------------------------------------------------------------------------
(* direct_branch_icmp: a comparison nothing but the branch of its own block *)
(* uses is made by the branch.                                              *)
BranchMakes(f, b, i) ==
    LET inst == Insts(f, b)[i] IN
    /\ inst.op = "eq" /\ Len(Term(f, b).succ) = 2 /\ Term(f, b).args = <<inst.result>>
    /\ UsesOf(f, inst.result) = {<<<<b, Len(Insts(f, b)) + 1>>, 1>>}

(* What the code of a terminator reads.                                     *)
ReadAtEnd(f, b) ==
    LET made == {i \in DOMAIN Insts(f, b) : BranchMakes(f, b, i)} IN
    IF made # {} THEN UNION {Uses(Insts(f, b)[i]) : i \in made} ELSE Elements(Term(f, b).args)
=============================================================================
