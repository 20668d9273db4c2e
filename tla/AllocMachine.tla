---------------------------- MODULE AllocMachine ----------------------------
(***************************************************************************)
(* The code the backend emits for an allocated function, run on a machine  *)
(* that remembers of every register and stack slot which SSA values'       *)
(* current instances it holds.  Prologue, parameter moves, instructions,   *)
(* calls, edges and epilogue are those of emitter.rs, abi.rs, call.rs and  *)
(* inst.rs; an edge is the simultaneous assignment PhiCopies implements.   *)
(* func is the function the allocators see, emitted the one whose code is  *)
(* written.  Calls use the integer-register path; frames have no stack     *)
(* arguments.                                                              *)
(***************************************************************************)
EXTENDS RegAlloc, AddressFolding

CONSTANTS
    Sources,           \* the functions to compile
    ArgRegs            \* a0, a1, a2, ...: where arguments are passed

ASSUME ArgAssumption ==
    /\ Elements(ArgRegs) \cap (CalleeSaved \cup LocalReg) = {}
    /\ Len(ArgRegs) > 0 /\ ArgRegs \in Seq(Elements(ArgRegs)) /\ Distinct(ArgRegs)
    /\ ArgRegs[1] \notin CallerSaved
    /\ (GlobalReg \cup LocalReg \cup Elements(ArgRegs)) \cap Nat = {}

(* What the pipelines leave: the last pass is Dce; arguments beyond the     *)
(* registers are left out.                                                  *)
Compilable(f) ==
    /\ WellFormed(f) /\ Verified(f) /\ NoDeadPhis(f)
    /\ Len(f.params) <= Len(ArgRegs)
    /\ \A s \in Sites(f) : LET inst == Insts(f, s[1])[s[2]] IN
          IsCall(inst) => Len(inst.args) <= Len(ArgRegs)
ASSUME SourceAssumption ==
    /\ \A f \in Sources : Compilable(f)
    /\ {AllocationView(f) : f \in Sources} \subseteq Funcs

VARIABLES
    emitted,       \* the verified function
    folded,        \* folded_memory_geps: address -> base
    elided,        \* elided_values
    pc,            \* <<block, index>>: what runs next; block 0 moves parameters
    unloaded,      \* arguments of the call at pc still to be loaded
    contents,      \* register or slot -> the values (or caller's values) it holds
    saved          \* callee-saved register -> what the prologue stored

machineVars == <<emitted, folded, elided, pc, unloaded, contents, saved>>
allVars == <<vars, machineVars>>
fixed == <<emitted, folded, elided, given, candidates, liveVars, graph, callOperands, liveAcross, uncolored, regs, locals>>

-----------------------------------------------------------------------------
ReturnReg == ArgRegs[1]
Registers == GlobalReg \cup LocalReg \cup Elements(ArgRegs)

(* reg, then local_regs, then the stack slot, which the value itself names. *)
Home(v) == IF Location(v) # NoReg THEN Location(v) ELSE v

(* load_value_into: a constant is materialised wherever it is needed.       *)
Loaded(v) == IF IsConst(func, v) THEN {v} ELSE contents[Home(v)]

(* used_regs: the callee-saved registers some value was given.              *)
(* Mutants: only those of the phis; every register in use.                  *)
UsedByPhis == {r \in CalleeSaved : \E v \in AllPhis : regs[v] = r}
UsedOfAnyKind == {r \in GlobalReg : \E v \in Values(func) : regs[v] = r}
UsedCalleeSaved == {r \in CalleeSaved : \E v \in Values(func) : regs[v] = r}

Here == Insts(emitted, pc[1])[pc[2]]
InBody == phase = "run" /\ pc[1] \in Blocks(emitted)
AtInst == InBody /\ pc[2] <= Len(Insts(emitted, pc[1]))
AtTerminator == InBody /\ pc[2] > Len(Insts(emitted, pc[1]))

(* The location now holds the new instance, if there is a result, and no    *)
(* other location does.                                                     *)
Defined(held, v) ==
    IF v = NoValue THEN held
    ELSE [l \in DOMAIN held |-> IF l = Home(v) THEN {v} ELSE held[l] \ {v}]

-----------------------------------------------------------------------------
MachineInit ==
    /\ emitted \in Sources /\ func = AllocationView(emitted)
    /\ folded = Folds(emitted) /\ elided = Elided(emitted)
    /\ budget \in Budgets /\ Unallocated
    /\ pc = <<0, 0>> /\ unloaded = 0
    /\ contents = [l \in Registers \cup Values(func) |-> {}]
    /\ saved = << >>

Allocate == Next /\ phase # "done" /\ UNCHANGED machineVars

(* The caller's values are named after the registers they are in.           *)
Prologue ==
    /\ phase = "done"
    /\ phase' = "run"
    /\ pc' = <<0, 1>>
    /\ contents' = [l \in DOMAIN contents |->
          IF l \in CalleeSaved THEN {l}
          ELSE {func.params[k] : k \in {j \in DOMAIN func.params : ArgRegs[j] = l}}]
    /\ saved' = [r \in UsedCalleeSaved |-> {r}]
    /\ UNCHANGED <<fixed, unloaded>>

(* emit_params: one parameter after the other into its register or slot.    *)
MoveParam ==
    /\ phase = "run" /\ pc[1] = 0
    /\ IF pc[2] <= Len(func.params)
         THEN /\ contents' = [contents EXCEPT ![Home(func.params[pc[2]])] =
                                 contents[ArgRegs[pc[2]]]]
              /\ pc' = <<0, pc[2] + 1>>
         ELSE pc' = <<Entry, 1>> /\ UNCHANGED contents
    /\ UNCHANGED <<fixed, phase, unloaded, saved>>

(* Phis, folded and elided addresses and the comparison the branch makes    *)
(* emit nothing at their own place.                                         *)
Silent ==
    \/ IsPhi(Here) \/ Here.op = "nop"
    \/ Here.result \in DOMAIN folded \cup elided
    \/ BranchMakes(emitted, pc[1], pc[2])

Skip ==
    /\ AtInst /\ Silent
    /\ pc' = <<pc[1], pc[2] + 1>>
    /\ UNCHANGED <<fixed, phase, unloaded, contents, saved>>

(* Any other instruction computes its result, by way of a0.                 *)
Execute ==
    /\ AtInst /\ ~Silent /\ ~IsCall(Here)
    /\ contents' = Defined([contents EXCEPT ![ReturnReg] = {}], Here.result)
    /\ pc' = <<pc[1], pc[2] + 1>>
    /\ UNCHANGED <<fixed, phase, unloaded, saved>>

(* emit_call fills the argument registers backwards ...                     *)
BeginCall ==
    /\ AtInst /\ ~Silent /\ IsCall(Here) /\ unloaded = 0
    /\ unloaded' = Len(Here.args) + 1
    /\ UNCHANGED <<fixed, phase, pc, contents, saved>>

LoadArgument ==
    /\ AtInst /\ IsCall(Here) /\ unloaded > 1
    /\ contents' = [contents EXCEPT ![ArgRegs[unloaded - 1]] = Loaded(Here.args[unloaded - 1])]
    /\ unloaded' = unloaded - 1
    /\ UNCHANGED <<fixed, phase, pc, saved>>

(* ... and the callee keeps only the callee-saved registers.                *)
Call ==
    /\ AtInst /\ IsCall(Here) /\ unloaded = 1
    /\ contents' = Defined([l \in DOMAIN contents |->
                               IF l \in Registers \ CalleeSaved THEN {} ELSE contents[l]],
                           Here.result)
    /\ unloaded' = 0
    /\ pc' = <<pc[1], pc[2] + 1>>
    /\ UNCHANGED <<fixed, phase, saved>>

-----------------------------------------------------------------------------
MovedPhis(b) == {phi \in Phis(emitted, b) : phi.result \notin elided}

(* An edge assigns all phis of the target at once; a phi already in place   *)
(* is not copied, which makes no difference to what its home holds.         *)
AfterMoves(target, l) ==
    IF \E phi \in MovedPhis(target) : Home(phi.result) = l
    THEN Loaded(Incoming(CHOOSE phi \in MovedPhis(target) : Home(phi.result) = l, pc[1]))
    ELSE contents[l]

(* The phis become the current instances of their incoming values.          *)
Renamed(target, held) ==
    (held \ {phi.result : phi \in MovedPhis(target)})
      \cup {phi.result : phi \in {p \in MovedPhis(target) : Incoming(p, pc[1]) \in held}}

TakeEdge ==
    /\ AtTerminator
    /\ \E target \in Successors(emitted, pc[1]) :
          /\ contents' = [l \in DOMAIN contents |-> Renamed(target, AfterMoves(target, l))]
          /\ pc' = <<target, 1>>
    /\ UNCHANGED <<fixed, phase, unloaded, saved>>

(* The result goes to a0, then the epilogue restores what was saved.        *)
Return ==
    /\ AtTerminator /\ Successors(emitted, pc[1]) = {}
    /\ contents' = [l \in DOMAIN contents |->
          IF l = ReturnReg THEN UNION {Loaded(v) : v \in Elements(Term(emitted, pc[1]).args)}
          ELSE IF l \in DOMAIN saved THEN saved[l] ELSE contents[l]]
    /\ phase' = "returned"
    /\ UNCHANGED <<fixed, pc, unloaded, saved>>

Returned == phase = "returned" /\ UNCHANGED allVars

MachineNext ==
    \/ Allocate
    \/ Prologue \/ MoveParam \/ Skip \/ Execute
    \/ BeginCall \/ LoadArgument \/ Call
    \/ TakeEdge \/ Return \/ Returned

MachineSpec == MachineInit /\ [][MachineNext]_allVars

-----------------------------------------------------------------------------
(* Every machine variable has its type.                                     *)
MachineTypeOK ==
    /\ phase \in {"start", "liveness", "color", "local", "done", "run", "returned"}
    /\ pc[1] \in 0..Len(func.blocks)
    /\ unloaded \in 0..(Len(ArgRegs) + 1)
    /\ contents \in [Registers \cup Values(func) -> SUBSET (Values(func) \cup CalleeSaved)]
    /\ DOMAIN saved \subseteq CalleeSaved

Intact(v) == IsConst(func, v) \/ v \in contents[Home(v)]

(* What an instruction or terminator is about to read is where the          *)
(* allocation says, and is the current instance of the value: no other      *)
(* value, call, edge or earlier iteration has overwritten it.               *)
OperandsIntact ==
    /\ AtInst /\ ~Silent /\ ~IsCall(Here) => \A v \in Uses(Addressed(folded, Here)) : Intact(v)
    /\ AtTerminator => \A v \in ReadAtEnd(emitted, pc[1]) : Intact(v)

(* Nothing is emitted between a comparison that a branch makes and that     *)
(* branch: so the lowering leaves them, and Cse need not.                   *)
ComparesLast(f) ==
    \A b \in Blocks(f) : \A j, i \in DOMAIN Insts(f, b) :
        j < i /\ BranchMakes(f, b, j) =>
            \/ Insts(f, b)[i].op \in {"phi", "nop"} \/ BranchMakes(f, b, i)
            \/ Insts(f, b)[i].result \in DOMAIN Folds(f) \cup Elided(f)

(* What a call must not destroy is, in the words of regalloc.rs, exactly    *)
(* the set live after it: what the end of its block reads has survived the  *)
(* caller-saved clobber.                                                    *)
SurvivesClobber ==
    AtTerminator /\ (\E i \in DOMAIN Insts(emitted, pc[1]) : IsCall(Insts(emitted, pc[1])[i])) =>
        \A v \in ReadAtEnd(emitted, pc[1]) : Intact(v)

(* The same of the values a control-flow edge hands to the phis.            *)
EdgeValuesIntact ==
    AtTerminator =>
        \A target \in Successors(emitted, pc[1]) :
            \A phi \in MovedPhis(target) : Intact(Incoming(phi, pc[1]))

(* When a call instruction is reached, every argument is in its argument    *)
(* register, although loading one argument may overwrite the home of        *)
(* another.                                                                 *)
ArgumentsDelivered ==
    AtInst /\ IsCall(Here) /\ unloaded = 1 =>
        \A k \in DOMAIN Here.args : Here.args[k] \in contents[ArgRegs[k]]

(* The caller finds its callee-saved registers and the result.              *)
CallerUndisturbed ==
    phase = "returned" =>
        /\ \A r \in CalleeSaved : r \in contents[r]
        /\ Elements(Term(emitted, pc[1]).args) \subseteq contents[ReturnReg]

(* The phis of a block never share a home, which is what phi_copies needs   *)
(* of an edge for the moves to implement one assignment.                    *)
PhiHomesDistinct ==
    AtInst => \A p, q \in {phi.result : phi \in MovedPhis(pc[1])} : p # q => Home(p) # Home(q)
=============================================================================
