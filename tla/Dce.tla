-------------------------------- MODULE Dce ---------------------------------
(***************************************************************************)
(* Dead code elimination, ir/pass/dce.rs: writes to slots nobody reads go  *)
(* first, where the pass is told to clean them up, then every instruction  *)
(* without effect whose result no root needs.                              *)
(***************************************************************************)
EXTENDS Ir

HasEffect(inst) == inst.op \in {"store", "memzero", "call"}

Instructions(f) == UNION {Elements(Insts(f, b)) : b \in Blocks(f)}
TerminatorUses(f) == UNION {Elements(Term(f, b).args) : b \in Blocks(f)}

(* The slot and every address computed from it.                             *)
PointersInto(f, slot) ==
    LET computed(a) ==
          {i.result : i \in {g \in Instructions(f) : g.op = "gep" /\ g.args[1] = a}}
        step[n \in 0..Len(f.kind)] ==
          IF n = 0 THEN {slot} ELSE UNION {{a} \cup computed(a) : a \in step[n - 1]}
    IN  step[Len(f.kind)]

(* The instruction uses pointers as the address it computes or writes.      *)
OnlyWritten(inst, pointers) ==
    /\ inst.op \in {"gep", "store", "memzero"} /\ inst.args[1] \in pointers
    /\ \A k \in 2..Len(inst.args) : inst.args[k] \notin pointers

WriteOnly(f, slot) ==
    LET pointers == PointersInto(f, slot) IN
    /\ \A i \in Instructions(f) : Uses(i) \cap pointers # {} => OnlyWritten(i, pointers)
    /\ TerminatorUses(f) \cap pointers = {}

WriteOnlyPointers(f) ==
    LET slots == {i.result : i \in {j \in Instructions(f) : j.op = "alloca"}} IN
    UNION {PointersInto(f, s) : s \in {t \in slots : WriteOnly(f, t)}}

Erased(f, gone) ==
    [f EXCEPT !.blocks = [b \in DOMAIN @ |->
        [insts |-> [i \in DOMAIN @[b].insts |-> IF @[b].insts[i] \in gone THEN Nop ELSE @[b].insts[i]],
         term |-> @[b].term]]]

WithoutDeadStores(f) ==
    LET pointers == WriteOnlyPointers(f) IN
    Erased(f, {i \in Instructions(f) : i.op \in {"store", "memzero"} /\ i.args[1] \in pointers})

(* Backwards from effects and terminators, so that a cycle of phis that     *)
(* only feed each other is dead.                                            *)
LiveValues(f) ==
    LET usedBy(v) == UNION {Uses(i) : i \in {j \in Instructions(f) : j.result = v}}
        step[n \in 0..Len(f.kind)] ==
          IF n = 0
          THEN TerminatorUses(f) \cup UNION {Uses(i) : i \in {j \in Instructions(f) : HasEffect(j)}}
          ELSE UNION {{v} \cup usedBy(v) : v \in step[n - 1]}
    IN  step[Len(f.kind)]

DeadCodeEliminated(f, cleanup) ==
    LET g == IF cleanup THEN WithoutDeadStores(f) ELSE f
        live == LiveValues(g)
        dead == {i \in Instructions(g) : i.result # NoValue /\ i.result \notin live /\ ~HasEffect(i)}
    IN  Erased(g, dead)
=============================================================================
