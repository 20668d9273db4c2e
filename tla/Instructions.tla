---------------------------- MODULE Instructions ----------------------------
(***************************************************************************)
(* What one instruction of the IR is expanded to, and the machine that     *)
(* runs it: inst.rs, memory.rs, call.rs, abi.rs and emitter.rs of          *)
(* codegen/target/riscv64, with the constant division of codegen/common.   *)
(* The allocator keeps a value in a register, in a slot of the frame or,   *)
(* when it is a constant, nowhere; an operand whose last use this is may   *)
(* have the destination's register.                                        *)
(*                                                                         *)
(* Words have Bits bits where RV64 has 32, registers 2 * Bits, immediates  *)
(* ImmLimit where it has 2048, and functions get IntArgs and FloatArgs     *)
(* arguments in registers where it has 8 of each.  Memory is cells of a    *)
(* register's size, addresses count cells.  Floating point is moved but    *)
(* not computed with.                                                      *)
(***************************************************************************)
EXTENDS Words, Sequences, FiniteSets

LOCAL INSTANCE SequencesExt

CONSTANTS
    ImmLimit,              \* immediates are -ImmLimit .. ImmLimit - 1
    IntArgs, FloatArgs,    \* registers for arguments, of each kind
    MaxArgs                \* arguments of a call

ASSUME ImmAssumption == ImmLimit \in Nat /\ 2 < ImmLimit /\ ImmLimit < Half
ASSUME ArgAssumption == IntArgs \in 1..8 /\ FloatArgs \in 1..8

VARIABLES
    code,          \* instructions still to run
    regs, mem,
    goal,          \* what the instructions are for
    before         \* registers and memory when they began

vars == <<code, regs, mem, goal, before>>

-----------------------------------------------------------------------------
IntArg(k) == <<"a0", "a1", "a2", "a3", "a4", "a5", "a6", "a7">>[k]
FloatArg(k) == <<"fa0", "fa1", "fa2", "fa3", "fa4", "fa5", "fa6", "fa7">>[k]
ArgRegs == {IntArg(k) : k \in 1..8} \cup {FloatArg(k) : k \in 1..8}
Temporaries == {"t0", "t1", "t2", "t6"}
Saved == {"s1", "s2", "fs1"}
Registers == ArgRegs \cup Temporaries \cup Saved \cup {"zero", "sp", "s0", "pc"}

Wide(n) == WrapTo(2 * Bits, n)
Low(n) == n % (2 ^ Bits)
Shift(n) == n % Bits

(* Instructions on words end in w and extend the sign of the result; a      *)
(* branch that is taken leaves 1 in pc.                                     *)
Outcome(op, a, b) ==
    CASE op = "li" -> b
      [] op = "mv" -> a
      [] op = "addw" -> Wrap(a + b)
      [] op = "subw" -> Wrap(a - b)
      [] op = "mulw" -> Wrap(Wrap(a) * Wrap(b))
      [] op = "divw" -> Computed("idiv", Wrap(a), Wrap(b))
      [] op = "remw" -> Computed("imod", Wrap(a), Wrap(b))
      [] op = "sllw" -> Wrap(a * 2 ^ Shift(b))
      [] op = "srlw" -> Wrap(Low(a) \div 2 ^ Shift(b))
      [] op = "sraw" -> Wrap(a) \div 2 ^ Shift(b)
      [] op = "add" -> Wide(a + b)
      [] op = "sub" -> Wide(a - b)
      [] op = "mul" -> Wide(a * b)
      [] op = "sll" -> Wide(a * 2 ^ b)
      [] op = "sra" -> a \div 2 ^ b
      [] op = "and" -> BitwiseTo(2 * Bits, a, b, BothBits)
      [] op = "or" -> BitwiseTo(2 * Bits, a, b, SomeBit)
      [] op = "xor" -> BitwiseTo(2 * Bits, a, b, OneBit)
      [] op = "slt" -> Truth(a < b)
      [] op = "seqz" -> Truth(a = 0)
      [] op = "snez" -> Truth(a # 0)
      [] op \in Compare -> Truth(Compared(op, a, b))

Inst(op, rd, rs, rt, imm) == [op |-> op, rd |-> rd, rs |-> rs, rt |-> rt, imm |-> imm]
R(op, rd, rs, rt) == <<Inst(op, rd, rs, rt, 0)>>
I(op, rd, rs, n) == <<Inst(op, rd, rs, "imm", n)>>
Li(rd, n) == I("li", rd, "zero", n)
Mv(rd, rs) == IF rd = rs THEN << >> ELSE R("mv", rd, rs, "zero")
MemInst(op, r, base, offset) == <<Inst(op, r, base, "imm", offset)>>

EachOf(n, Code(_)) == FlattenSeq([k \in 1..n |-> Code(k)])

(* Where the sequence has a point a property looks at.                      *)
Marker(op) == I(op, "zero", "zero", 0)

-----------------------------------------------------------------------------
Fits(n) == -ImmLimit <= n /\ n < ImmLimit
Pow2(n) == \E k \in 0..Bits : n = 2 ^ k
Log2(n) == CHOOSE k \in 0..Bits : n = 2 ^ k

(* base_addr, and the loads and stores relative to sp or s0.                *)
BaseAddr(rd, base, offset) ==
    IF offset = 0 THEN Mv(rd, base)
    ELSE IF Fits(offset) THEN I("add", rd, base, offset)
    ELSE Li("t0", offset) \o R("add", rd, base, "t0")
Based(op, r, base, offset) ==
    IF Fits(offset) THEN MemInst(op, r, base, offset)
    ELSE BaseAddr("t1", base, offset) \o MemInst(op, r, "t1", 0)
AdjustSp(n) ==
    IF n = 0 THEN << >>
    ELSE IF Fits(n) THEN I("add", "sp", "sp", n)
    ELSE Li("t0", n) \o R("add", "sp", "sp", "t0")

(* A value: where it is, its type and, as the run has it, its number.       *)
Value(kind, reg, at, ty, n) == [kind |-> kind, reg |-> reg, at |-> at, ty |-> ty, lit |-> n]
InReg(r, ty, n) == Value("reg", r, 0, ty, n)
InSlot(at, ty, n) == Value("slot", "zero", at, ty, n)
Const(ty, n) == Value("const", "zero", 0, ty, n)
IsConst(v) == v.kind = "const"
LoadOp(ty) == IF ty = "ptr" THEN "ld" ELSE "lw"
StoreOp(ty) == IF ty = "ptr" THEN "sd" ELSE "sw"

(* load_value_into; load_or_assigned, which leaves a register where it is.  *)
LoadInto(v, rd) ==
    CASE v.kind = "reg" -> R("mv", rd, v.reg, "zero")
      [] v.kind = "const" -> Li(rd, v.lit)
      [] v.kind = "slot" -> Based(LoadOp(v.ty), rd, "s0", v.at)
Assigned(v, scratch) == IF v.kind = "reg" THEN v.reg ELSE scratch
LoadOrAssigned(v, scratch) == IF v.kind = "reg" THEN << >> ELSE LoadInto(v, scratch)

StoreResult(v) ==
    IF v.kind = "reg" THEN R("mv", v.reg, "a0", "zero")
    ELSE Based(StoreOp(v.ty), "a0", "s0", v.at)

-----------------------------------------------------------------------------
(* signed_magic_positive: the quotients and remainders it doubles are those *)
(* of 2^p by the divisor and by the largest dividend that matters.          *)
LargestDividend(d) == Half - 1 - (Half % d)

Precise(d, p) ==
    LET quotient == 2 ^ p \div LargestDividend(d)
        delta == d - (2 ^ p % d)
    IN  quotient > delta \/ (quotient = delta /\ 2 ^ p % LargestDividend(d) # 0)
SignedMagic(d) ==
    LET p == CHOOSE n \in Bits..(2 * Bits) : Precise(d, n) /\ \A m \in Bits..(n - 1) : ~Precise(d, m)
        multiplier == Wrap(2 ^ p \div d + 1)
    IN  [multiplier |-> multiplier, shift |-> p - Bits, addDividend |-> multiplier < 0]

(* What makes a negative dividend round towards zero when it is shifted.    *)
Bias(s, shift) ==
    IF shift = 1 THEN I("srlw", "t0", s, Bits - 1)
    ELSE I("sraw", "t0", s, Bits - 1) \o I("srlw", "t0", "t0", Bits - shift)

(* The quotient by the absolute value of the divisor, in t0.                *)
DivideInT0(s, d) ==
    IF Pow2(d)
    THEN Bias(s, Log2(d)) \o R("addw", "t0", s, "t0") \o I("sraw", "t0", "t0", Log2(d))
    ELSE LET magic == SignedMagic(d) IN
         Li("t0", magic.multiplier) \o R("mul", "t0", s, "t0") \o I("sra", "t0", "t0", Bits)
         \o (IF magic.addDividend THEN R("addw", "t0", "t0", s) ELSE << >>)
         \o (IF magic.shift # 0 THEN I("sraw", "t0", "t0", magic.shift) ELSE << >>)
         \o I("srlw", "t1", "t0", Bits - 1) \o R("addw", "t0", "t0", "t1")

(* emit_narrow_signed_remainder, when it applies: the compiler knows that   *)
(* the dividend is in the range <<min, max>>; << >> is no knowledge.        *)
NarrowRemainder(s, range, d, rd) ==
    LET above == R("slt", "t1", s, "t0")
        below(t) == R("subw", t, "zero", "t0") \o I("addw", t, t, 1) \o R("slt", t, s, t)
        min == range[1]
        max == range[2]
    IN  IF range = << >> \/ d <= 1 \/ d >= Half THEN {}
        ELSE IF min > -d /\ max < d THEN {Mv(rd, s)}
        ELSE IF Pow2(d) \/ min <= -2 * d \/ max >= 2 * d THEN {}
        ELSE IF min > -d
        THEN {Li("t0", d) \o above \o I("add", "t1", "t1", -1) \o R("and", "t1", "t1", "t0")
              \o R("subw", rd, s, "t1")}
        ELSE IF max < d
        THEN {Li("t0", d) \o below("t1") \o R("subw", "t1", "zero", "t1")
              \o R("and", "t1", "t1", "t0") \o R("addw", rd, s, "t1")}
        ELSE {Li("t0", d) \o above \o I("xor", "t1", "t1", 1) \o below("t2")
              \o R("subw", "t1", "t1", "t2") \o R("mulw", "t1", "t1", "t0") \o R("subw", rd, s, "t1")}

RemainderByPow2(s, d, rd) ==
    Bias(s, Log2(d)) \o R("addw", "t1", s, "t0")
    \o (IF Fits(d - 1) THEN I("and", "t1", "t1", d - 1)
        ELSE I("sllw", "t1", "t1", Bits - Log2(d)) \o I("srlw", "t1", "t1", Bits - Log2(d)))
    \o R("subw", rd, "t1", "t0")

(* The dividend is kept in t2, for the product to be taken from it.         *)
RemainderByMagic(s, d, rd) ==
    R("mv", "t2", s, "zero") \o DivideInT0(s, d)
    \o (IF Pow2(d + 1) THEN I("sllw", "t1", "t0", Log2(d + 1)) \o R("subw", "t0", "t1", "t0")
        ELSE Li("t1", d) \o R("mulw", "t0", "t0", "t1"))
    \o R("subw", rd, "t2", "t0")

(* emit_signed_divmod_const_into.  A load that is made twice is once here.  *)
DivMod(v, d, isMod, range, rd) ==
    LET s == Assigned(v, "a0")
        load == LoadOrAssigned(v, "a0")
        narrow == NarrowRemainder(s, range, Abs(d), rd)
    IN  CASE d = 0 /\ isMod -> load \o Mv(rd, s)
          [] d = 0 /\ ~isMod -> Li(rd, -1)
          [] Abs(d) = 1 /\ isMod -> Li(rd, 0)
          [] d = 1 /\ ~isMod -> load \o Mv(rd, s)
          [] d = -1 /\ ~isMod -> load \o R("subw", rd, "zero", s)
          [] Abs(d) > 1 /\ ~isMod ->
               load \o DivideInT0(s, Abs(d))
               \o (IF d < 0 THEN R("subw", "t0", "zero", "t0") ELSE << >>) \o R("mv", rd, "t0", "zero")
          [] Abs(d) > 1 /\ isMod ->
               load \o (IF narrow # {} THEN CHOOSE c \in narrow : TRUE
                        ELSE IF Pow2(Abs(d)) THEN RemainderByPow2(s, Abs(d), rd)
                        ELSE RemainderByMagic(s, Abs(d), rd))

-----------------------------------------------------------------------------
(* emit_assigned_binary and emit_assigned_unary use operands where they are *)
(* and write the destination; emit_binary and emit_unary bring the operands *)
(* to a1 and a0 and compute in a0.                                          *)
Fetch(inPlace, v, scratch) == IF inPlace THEN LoadOrAssigned(v, scratch) ELSE LoadInto(v, scratch)
From(inPlace, v, scratch) == IF inPlace THEN Assigned(v, scratch) ELSE scratch

FitsImm(v) == IsConst(v) /\ Fits(v.lit)
NegationFits(v) == IsConst(v) /\ v.lit # -Half /\ Fits(-v.lit)
IsPow2(v) == IsConst(v) /\ v.lit > 0 /\ Pow2(v.lit)
IsShift(v) == IsConst(v) /\ v.lit \in 0..(Bits - 1)

(* shift_add_pattern: 2^k - 1 or 2^k + 1.                                   *)
IsShiftAdd(v) == IsConst(v) /\ v.lit > 2 /\ (Pow2(v.lit - 1) \/ Pow2(v.lit + 1))

(* The right operand when it will do, else the left one.                    *)
Preferred(args, Test(_)) == IF Test(args[2]) THEN 2 ELSE 1
Other(k) == 3 - k

(* Mutant: the shifted value is made in the destination.                    *)
MutantInDestination(s, n, rd) ==
    IF Pow2(n - 1) THEN I("sllw", rd, s, Log2(n - 1)) \o R("addw", rd, rd, s)
    ELSE I("sllw", rd, s, Log2(n + 1)) \o R("subw", rd, rd, s)
ShiftAndAdd(s, n, rd) ==
    IF Pow2(n - 1) THEN I("sllw", "t0", s, Log2(n - 1)) \o R("addw", rd, "t0", s)
    ELSE I("sllw", "t0", s, Log2(n + 1)) \o R("subw", rd, "t0", s)

RegisterForm(op) ==
    CASE op = "iadd" -> "addw" [] op = "isub" -> "subw" [] op = "imul" -> "mulw"
      [] op = "idiv" -> "divw" [] op = "imod" -> "remw"
      [] op \in {"iand", "and"} -> "and" [] op \in {"ior", "or"} -> "or" [] op = "ixor" -> "xor"
      [] op = "ishl" -> "sllw" [] op = "iashr" -> "sraw"

(* and and or of what need not be 0 or 1 go by way of a1 and a0.            *)
Combine(op, args, l, r, rd) ==
    IF op \in {"and", "or"} /\ \E k \in {1, 2} : args[k].ty # "bool"
    THEN R("snez", "a1", l, "zero") \o R("snez", "a0", r, "zero") \o R(RegisterForm(op), rd, "a1", "a0")
    ELSE R(RegisterForm(op), rd, l, r)

EmitBinary(inPlace, op, args, range, rd) ==
    LET from(k) == From(inPlace, args[k], "a0")
        withImm(k, form, n) == Fetch(inPlace, args[k], "a0") \o I(form, rd, from(k), n)
        imm(Test(_)) == args[Preferred(args, Test)].lit
        operand(Test(_)) == Other(Preferred(args, Test))
        any(Test(_)) == \E k \in {1, 2} : Test(args[k])
    IN  CASE op = "iadd" /\ any(FitsImm) -> withImm(operand(FitsImm), "addw", imm(FitsImm))
          [] op = "isub" /\ NegationFits(args[2]) -> withImm(1, "addw", -args[2].lit)
          [] op = "imul" /\ any(IsPow2) -> withImm(operand(IsPow2), "sllw", Log2(imm(IsPow2)))
          [] op = "imul" /\ ~any(IsPow2) /\ any(IsShiftAdd) ->
               Fetch(inPlace, args[operand(IsShiftAdd)], "a0")
               \o ShiftAndAdd(from(operand(IsShiftAdd)), imm(IsShiftAdd), rd)
          [] op \in {"iand", "ior", "ixor"} /\ FitsImm(args[2]) -> withImm(1, RegisterForm(op), args[2].lit)
          [] op \in {"ishl", "iashr"} /\ IsShift(args[2]) -> withImm(1, RegisterForm(op), args[2].lit)
          [] op \in {"idiv", "imod"} /\ IsConst(args[2]) ->
               DivMod(args[1], args[2].lit, op = "imod", range, rd)
          [] OTHER ->
               Fetch(inPlace, args[1], "a1") \o Fetch(inPlace, args[2], "a0")
               \o Combine(op, args, From(inPlace, args[1], "a1"), from(2), rd)

EmitUnary(inPlace, op, v, rd) ==
    LET s == From(inPlace, v, "a0") IN
    Fetch(inPlace, v, "a0")
    \o (CASE op = "ineg" -> R("subw", rd, "zero", s)
          [] op = "not" -> R("seqz", rd, s, "zero")
          [] op = "i32_to_bool" -> R("snez", rd, s, "zero")
          [] op = "bool_to_i32" -> Mv(rd, s))

-----------------------------------------------------------------------------
(* emit_icmp_into: a constant goes to the right, and is compared with as an *)
(* immediate when it fits.                                                  *)
CompareWithConst(op, s, n, rd) ==
    LET less(m) == I("slt", rd, s, m)
        inverted == R("seqz", rd, rd, "zero")
        nextFits == n # Half - 1 /\ Fits(n + 1)
        zeroTest == IF op = "eq" THEN "seqz" ELSE "snez"
    IN  CASE op \in {"eq", "ne"} /\ n = 0 -> R(zeroTest, rd, s, "zero")
          [] op \in {"eq", "ne"} /\ n # 0 /\ Fits(n) -> I("xor", rd, s, n) \o R(zeroTest, rd, rd, "zero")
          [] op = "lt" /\ Fits(n) -> less(n)
          [] op = "le" /\ nextFits -> less(n + 1)
          [] op = "gt" /\ nextFits -> less(n + 1) \o inverted
          [] op = "ge" /\ Fits(n) -> less(n) \o inverted
          [] OTHER -> << >>

CompareRegisters(op, l, r, rd) ==
    CASE op = "lt" -> R("slt", rd, l, r)
      [] op = "gt" -> R("slt", rd, r, l)
      [] op = "le" -> R("slt", rd, r, l) \o R("seqz", rd, rd, "zero")
      [] op = "ge" -> R("slt", rd, l, r) \o R("seqz", rd, rd, "zero")
      [] op = "eq" -> R("sub", rd, l, r) \o R("seqz", rd, rd, "zero")
      [] op = "ne" -> R("sub", rd, l, r) \o R("snez", rd, rd, "zero")

EmitCompare(op, args, rd) ==
    LET swapped == IsConst(args[1]) /\ ~IsConst(args[2])
        o == IF swapped THEN Reversed(op) ELSE op
        l == IF swapped THEN args[2] ELSE args[1]
        r == IF swapped THEN args[1] ELSE args[2]
        short == IF IsConst(r) THEN CompareWithConst(o, Assigned(l, "a0"), r.lit, rd) ELSE << >>
    IN  IF short # << >> THEN LoadOrAssigned(l, "a0") \o short
        ELSE LoadOrAssigned(l, "a1") \o LoadOrAssigned(r, "a0")
             \o CompareRegisters(o, Assigned(l, "a1"), Assigned(r, "a0"), rd)

(* emit_branch_if_true and _if_false: a comparison with zero, or with one   *)
(* that amounts to it, takes one operand.                                   *)
ComparedWithZero(op, n) ==
    CASE n = 0 -> {op}
      [] n = 1 /\ op \in {"lt", "ge"} -> {IF op = "lt" THEN "le" ELSE "gt"}
      [] n = -1 /\ op \in {"gt", "le"} -> {IF op = "gt" THEN "ge" ELSE "lt"}
      [] OTHER -> {}
BranchWithZero(args, op) ==
    IF IsConst(args[2]) /\ ComparedWithZero(op, args[2].lit) # {}
    THEN {<<1, o>> : o \in ComparedWithZero(op, args[2].lit)}
    ELSE IF IsConst(args[1]) /\ args[1].lit = 0 THEN {<<2, Reversed(op)>>}
    ELSE {}

(* blt and bge have no forms for the other two.                             *)
BranchOn(op, l, r) ==
    IF op \in {"gt", "le"} THEN R(Reversed(op), "pc", r, l) ELSE R(op, "pc", l, r)

EmitBranch(ifTrue, op, args) ==
    LET sense(o) == IF ifTrue THEN o ELSE Negated(o) IN
    IF BranchWithZero(args, op) # {}
    THEN LET z == CHOOSE z \in BranchWithZero(args, op) : TRUE IN
         LoadOrAssigned(args[z[1]], "a0") \o R(sense(z[2]), "pc", Assigned(args[z[1]], "a0"), "zero")
    ELSE LoadOrAssigned(args[1], "a1") \o LoadOrAssigned(args[2], "a0")
         \o BranchOn(sense(op), Assigned(args[1], "a1"), Assigned(args[2], "a0"))

(* A condition that is not a comparison made for this branch only.          *)
EmitBranchOnValue(ifTrue, v) ==
    LoadInto(v, "a0") \o R(IF ifTrue THEN "ne" ELSE "eq", "pc", "a0", "zero")

-----------------------------------------------------------------------------
(* Addresses: an element of size stride is base + index * stride.           *)
GepConstAdd(rd, base, offset) ==
    IF offset = 0 THEN R("mv", rd, base, "zero")
    ELSE IF Fits(offset) THEN I("add", rd, base, offset)
    ELSE Li("t0", offset) \o R("add", rd, base, "t0")

(* emit_assigned_gep: a base in the destination is saved from the scaled    *)
(* index.                                                                   *)
EmitAssignedGep(base, index, stride, rd) ==
    LET b == Assigned(base, "a1")
        x == Assigned(index, "a0")
        save == b = rd /\ stride # 1
        kept == IF save THEN "a1" ELSE b
    IN  LoadOrAssigned(base, "a1")
        \o (IF IsConst(index) THEN GepConstAdd(rd, b, index.lit * stride)
            ELSE LoadOrAssigned(index, "a0") \o (IF save THEN R("mv", "a1", b, "zero") ELSE << >>)
                 \o (CASE stride = 1 -> R("add", rd, kept, x)
                       [] stride # 1 /\ Pow2(stride) ->
                            I("sll", rd, x, Log2(stride)) \o R("add", rd, kept, rd)
                       [] OTHER -> Li("t0", stride) \o R("mul", rd, x, "t0") \o R("add", rd, kept, rd)))

(* emit_gep: the address grows in a1, one index after the other.            *)
GepIndex(index, stride) ==
    IF IsConst(index) THEN GepConstAdd("a1", "a1", index.lit * stride)
    ELSE LoadInto(index, "a0")
         \o (CASE stride = 1 -> << >>
               [] stride # 1 /\ Pow2(stride) -> I("sll", "a0", "a0", Log2(stride))
               [] OTHER -> Li("t0", stride) \o R("mul", "a0", "a0", "t0"))
         \o R("add", "a1", "a1", "a0")
EmitGep(base, indices, strides) ==
    LoadInto(base, "a1") \o EachOf(Len(indices), LAMBDA k : GepIndex(indices[k], strides[k]))
    \o R("mv", "a0", "a1", "zero")

(* Loads and stores, with the offset of an address folded into them.        *)
EmitLoad(ptr, offset, dest) ==
    IF dest.kind = "reg"
    THEN LoadOrAssigned(ptr, "a0") \o MemInst(LoadOp(dest.ty), dest.reg, Assigned(ptr, "a0"), offset)
    ELSE LoadInto(ptr, "a0") \o MemInst(LoadOp(dest.ty), "a0", "a0", offset) \o StoreResult(dest)
EmitStore(ptr, offset, v) ==
    LoadOrAssigned(ptr, "a1") \o LoadOrAssigned(v, "a0")
    \o MemInst(StoreOp(v.ty), Assigned(v, "a0"), Assigned(ptr, "a1"), offset)

-----------------------------------------------------------------------------
(* assign_riscv_arg_locations: a float goes to the next float register, and *)
(* when they are used up like the others to the next integer register or,   *)
(* after those, to the stack.                                               *)
IsFloat(v) == v.ty = "float"
FloatRank(args, k) == Cardinality({j \in 1..k : IsFloat(args[j])})
InFloatReg(args, k) == IsFloat(args[k]) /\ FloatRank(args, k) <= FloatArgs
OtherRank(args, k) == Cardinality({j \in 1..k : ~InFloatReg(args, j)})
InIntReg(args, k) == ~InFloatReg(args, k) /\ OtherRank(args, k) <= IntArgs
OnStack(args, k) == ~InFloatReg(args, k) /\ ~InIntReg(args, k)
StackIndex(args, k) == OtherRank(args, k) - IntArgs - 1

(* fmv.w.x, which takes the low word; load_float_value, by way of a0 from a *)
(* slot and with the address of a constant in t0.                           *)
ToFloat(rd, rs) == I("addw", rd, rs, 0)
LoadFloat(v, rd) ==
    CASE v.kind = "reg" -> Mv(rd, v.reg)
      [] v.kind = "const" -> Li("t0", 0) \o Li(rd, v.lit)
      [] v.kind = "slot" -> LoadInto(v, "a0") \o ToFloat(rd, "a0")
StoreFloatResult(v) ==
    IF v.kind = "reg" THEN Mv(v.reg, "fa0") ELSE Based("sw", "fa0", "s0", v.at)

Push(v) ==
    IF IsFloat(v)
    THEN LoadFloat(v, "fa0") \o AdjustSp(-2) \o MemInst("sd", "zero", "sp", 0) \o MemInst("sw", "fa0", "sp", 0)
    ELSE LoadInto(v, "a0") \o AdjustSp(-2) \o MemInst("sd", "a0", "sp", 0)

(* emit_call.  What is on the stack is padded to an even number of cells.   *)
StackCount(args) == Cardinality({k \in DOMAIN args : OnStack(args, k)})
Pad(args) == StackCount(args) % 2
(* Mutant: the pad is forgotten where the arguments are fetched.            *)
MutantPadForgotten(args, k) == StackCount(args) + 2 * (Len(args) - k)
SavedOffset(args, k) == StackCount(args) + Pad(args) + 2 * (Len(args) - k)

CopyToStack(args, k) ==
    IF OnStack(args, k)
    THEN Based("ld", "t2", "sp", SavedOffset(args, k)) \o Based("sd", "t2", "sp", StackIndex(args, k))
    ELSE << >>
CopyToRegister(args, k) ==
    CASE InIntReg(args, k) -> Based("ld", IntArg(OtherRank(args, k)), "sp", SavedOffset(args, k))
      [] InFloatReg(args, k) -> Based("lw", FloatArg(FloatRank(args, k)), "sp", SavedOffset(args, k))
      [] OnStack(args, k) -> << >>

IsRegisterCall(args) == \A k \in DOMAIN args : InIntReg(args, k) /\ ~IsFloat(args[k])
FillArguments(args) ==
    LET n == Len(args) IN
    IF IsRegisterCall(args)
    THEN EachOf(n, LAMBDA k : LoadInto(args[n + 1 - k], IntArg(n + 1 - k)))
    ELSE EachOf(n, LAMBDA k : Push(args[k])) \o AdjustSp(-(StackCount(args) + Pad(args)))
         \o EachOf(n, LAMBDA k : CopyToStack(args, k)) \o EachOf(n, LAMBDA k : CopyToRegister(args, k))

(* Mutant: the pad stays on the stack.                                      *)
MutantPadKept(args) == IF IsRegisterCall(args) THEN << >> ELSE AdjustSp(2 * Len(args) + StackCount(args))
CleanUp(args) ==
    IF IsRegisterCall(args) THEN << >> ELSE AdjustSp(2 * Len(args) + StackCount(args) + Pad(args))

(* A float result is stored before sp moves back, another one afterwards.   *)
EmitCall(args, callee, dest) ==
    FillArguments(args) \o callee
    \o (IF IsFloat(dest) THEN StoreFloatResult(dest) ELSE << >>)
    \o CleanUp(args)
    \o (IF IsFloat(dest) THEN << >> ELSE StoreResult(dest))

-----------------------------------------------------------------------------
(* The function that is called: emit saves the registers in use below s0,   *)
(* the slots of the layout come after them, and emit_params moves one       *)
(* parameter after the other from where the call left it.                   *)
ToEven(n) == n + (n % 2)
KeptInReg(params) == {k \in DOMAIN params : params[k].kind = "reg"}
SavedArea(params) == ToEven(Cardinality(KeptInReg(params)))
SlotOf(params, k) == -Cardinality({j \in 1..k : params[j].kind = "slot"}) - SavedArea(params)

EmitParam(params, k) ==
    LET v == params[k]
        n == OtherRank(params, k)
        from(op, r) == Based(op, r, "s0", 2 + StackIndex(params, k))
        to(r) == IF v.kind = "reg" THEN R("mv", v.reg, r, "zero")
                 ELSE Based(StoreOp(v.ty), r, "s0", SlotOf(params, k))
    IN  CASE InIntReg(params, k) ->
               IF IsFloat(v) /\ v.kind = "reg" THEN ToFloat(v.reg, IntArg(n)) ELSE to(IntArg(n))
          [] InFloatReg(params, k) -> to(FloatArg(FloatRank(params, k)))
          [] OnStack(params, k) ->
               IF IsFloat(v) /\ v.kind = "reg" THEN from("lw", v.reg)
               ELSE IF IsFloat(v) THEN from("lw", "fa0") \o to("fa0")
               ELSE from(LoadOp(v.ty), "a0") \o to("a0")

(* The registers saved, in an order of their own.                           *)
SaveAll(params, op) ==
    LET used == {params[k].reg : k \in KeptInReg(params)} IN
    EachOf(2, LAMBDA i : IF <<"s1", "fs1">>[i] \in used
        THEN MemInst(op, <<"s1", "fs1">>[i], "s0", -Cardinality(used \cap {<<"s1", "fs1">>[j] : j \in 1..i}))
        ELSE << >>)

EmitFunction(params) ==
    LET size == ToEven(SavedArea(params) + Cardinality(DOMAIN params \ KeptInReg(params))) IN
    AdjustSp(-2) \o MemInst("sd", "s0", "sp", 0) \o Mv("s0", "sp")
    \o (IF size = 0 THEN << >> ELSE IF size <= ImmLimit THEN I("add", "sp", "sp", -size)
        ELSE Li("t6", size) \o R("sub", "sp", "sp", "t6"))
    \o SaveAll(params, "sd")
    \o EachOf(Len(params), LAMBDA k : EmitParam(params, k))
    \o Marker("body")
    \o SaveAll(params, "ld") \o Mv("sp", "s0") \o MemInst("ld", "s0", "sp", 0) \o AdjustSp(2)

-----------------------------------------------------------------------------
(* What is expanded.  Numbers are those at which the choice of instructions *)
(* or the result of one turns.                                              *)
Samples == {-Half, 1 - Half, -7, -ImmLimit - 1, -ImmLimit, 1 - ImmLimit, -1, 0, 1, 2,
            ImmLimit - 1, ImmLimit, 6, 7, Half - 1}
Divisors == 0..(Half - 1) \cup {n \in Samples : n < 0}
NarrowDivisors == {3, -5, 8, 12, Half - 1}

FrameSize == ImmLimit + 6
Near == -3
Far == -(ImmLimit + 2)
FarToo == Far - 1
Array == 3 * ImmLimit
PlacesOf(ty, n) ==
    {InReg("s1", ty, n), InReg("s2", ty, n), InSlot(Near, ty, n), InSlot(Far, ty, n), Const(ty, n)}
Results(ty) == {InReg("s1", ty, 0), InReg("s2", ty, 0), InSlot(FarToo, ty, 0)}
Compatible(v, w) == IsConst(v) \/ (v.kind = w.kind /\ v.reg = w.reg /\ v.at = w.at => v.lit = w.lit)
PcAs(condition) == InReg("pc", "bool", Truth(condition))

(* What registers and cells hold when nothing is known of them, and what a  *)
(* store of a word leaves in the rest of the cell.                          *)
Unset == 5 * 2 ^ Bits + 1
WordInto(cell, n) == (cell \div 2 ^ Bits) * 2 ^ Bits + Low(n)
Stored(v) == IF v.ty = "ptr" THEN v.lit ELSE WordInto(Unset, v.lit)

(* dest.lit is the number that is to be found in dest.                      *)
Begin(instructions, values, cells, dest, params) ==
    /\ code = instructions
    /\ regs = [r \in Registers |->
          IF r \in {"zero", "s0", "pc"} THEN 0
          ELSE IF r = "sp" THEN -FrameSize
          ELSE IF \E v \in values : v.kind = "reg" /\ v.reg = r
          THEN (CHOOSE v \in values : v.kind = "reg" /\ v.reg = r).lit ELSE Unset]
    /\ mem = [a \in cells |->
          IF \E v \in values : v.kind = "slot" /\ v.at = a
          THEN Stored(CHOOSE v \in values : v.kind = "slot" /\ v.at = a) ELSE Unset]
    /\ goal = [dest |-> dest, params |-> params]
    /\ before = [regs |-> regs, mem |-> mem]

Frame == (-FrameSize)..(-1)
Expanded(op, args, range, dest) ==
    LET inPlace == dest.kind = "reg"
        rd == IF inPlace THEN dest.reg ELSE "a0"
    IN  (CASE op \in Unary \cup Cast -> EmitUnary(inPlace, op, args[1], rd)
           [] op \in Binary -> EmitBinary(inPlace, op, args, range, rd)
           [] op \in Compare -> EmitCompare(op, args, rd))
        \o (IF inPlace THEN << >> ELSE StoreResult(dest))
BeginOp(op, args, range, dest) ==
    Begin(Expanded(op, args, range, dest), {args[k] : k \in DOMAIN args}, Frame,
          [dest EXCEPT !.lit = Computed(op, args[1].lit, args[Len(args)].lit)], << >>)

InitUnary ==
    \E op \in Unary \cup Cast, n \in Samples : \E v \in PlacesOf("int", n), dest \in Results("int") :
        /\ op = "bool_to_i32" => n \in {0, 1}
        /\ BeginOp(op, <<v>>, << >>, dest)

InitBinary ==
    \E op \in Binary \cup Compare, ty \in {"int", "bool"}, m, n \in Samples :
    \E v \in PlacesOf(ty, m), w \in PlacesOf(ty, n), dest \in Results("int") :
        /\ ty = "bool" => op \in {"and", "or"} /\ {m, n} \subseteq {0, 1}
        /\ Compatible(v, w)
        /\ BeginOp(op, <<v, w>>, << >>, dest)

InitDivision ==
    \E op \in {"idiv", "imod"}, n \in Words, d \in Divisors :
        BeginOp(op, <<InReg("s1", "int", n), Const("int", d)>>, << >>, InReg("s1", "int", 0))

(* The remainder of what is known to lie near the divisor.                  *)
InitNarrow ==
    \E d \in NarrowDivisors, v \in {InReg("s1", "int", 0), InSlot(Far, "int", 0)}, dest \in Results("int") :
    LET b == Abs(d)
        ends == {-2 * b, 1 - 2 * b, -b, 1 - b, 0, b - 1, b, 2 * b - 1, 2 * b} \cap Words
    IN  \E min, max \in ends : \E n \in min..max :
        BeginOp("imod", <<[v EXCEPT !.lit = n], Const("int", d)>>, <<min, max>>, dest)

InitBranch ==
    \E op \in Compare, ifTrue \in BOOLEAN, m, n \in Samples :
    \E v \in PlacesOf("int", m), w \in PlacesOf("int", n) :
        /\ Compatible(v, w)
        /\ Begin(EmitBranch(ifTrue, op, <<v, w>>), {v, w}, Frame, PcAs(Compared(op, m, n) = ifTrue), << >>)
InitBranchOnValue ==
    \E n \in {0, 1}, ifTrue \in BOOLEAN : \E v \in PlacesOf("bool", n) :
        Begin(EmitBranchOnValue(ifTrue, v), {v}, Frame, PcAs((n = 1) = ifTrue), << >>)

(* Addresses are wider than words.                                          *)
Indices == {-ImmLimit - 1, -3, 0, 1, 5}
Strides == {1, 2, 3}
InitGep ==
    \E base \in PlacesOf("ptr", Half + 11), i, j \in Indices, s, t \in Strides :
    \E x \in PlacesOf("int", i), y \in {InSlot(Near - 1, "int", j), Const("int", j)} :
    \E dest \in Results("ptr"), single \in BOOLEAN :
        /\ Compatible(base, x)
        /\ LET one == IF dest.kind = "reg" THEN EmitAssignedGep(base, x, s, dest.reg)
                      ELSE EmitGep(base, <<x>>, <<s>>) \o StoreResult(dest)
               two == EmitGep(base, <<x, y>>, <<s, t>>) \o StoreResult(dest)
               address == base.lit + i * s + (IF single THEN 0 ELSE j * t)
           IN  Begin(IF single THEN one ELSE two, {base, x, y}, Frame, [dest EXCEPT !.lit = address], << >>)

(* A load and a store of the cell an address and a folded offset name.      *)
InitMemory ==
    \E ptr \in PlacesOf("ptr", Array), offset \in {-2, 0, 3}, ty \in {"int", "ptr"} :
    \E n \in {-3, IF ty = "ptr" THEN Half + 5 ELSE 5} :
    LET cell == InSlot(Array + offset, ty, n)
        cells == Frame \cup ((Array - 2)..(Array + 3))
    IN  \/ \E dest \in Results(ty) :
              Begin(EmitLoad(ptr, offset, dest), {ptr, cell}, cells, [dest EXCEPT !.lit = n], << >>)
        \/ \E v \in PlacesOf(ty, n) :
              /\ Compatible(ptr, v)
              /\ Begin(EmitStore(ptr, offset, v), {ptr, v}, cells, cell, << >>)

(* A call of any arguments; the function keeps the first of its parameters  *)
(* of each kind in registers or none.  Its result comes back in a0 or fa0.  *)
Returned(ty) == IF ty = "float" THEN -7 ELSE 9
Argument(k, ty, kind) ==
    LET n == CASE ty = "int" -> 10 + k [] ty = "ptr" -> Half + k [] ty = "float" -> -(20 + k) IN
    CASE kind = "slot" -> InSlot(-2 * k, ty, n)
      [] kind = "const" -> Const(ty, n)
      [] kind = "reg" -> IF ty = "float" THEN InReg("fs1", ty, -30) ELSE InReg("s1", ty, 30)
Parameters(args, inReg) ==
    [k \in DOMAIN args |->
        LET v == args[k]
            first == \A j \in 1..(k - 1) : IsFloat(args[j]) # IsFloat(v)
        IN  IF inReg /\ first THEN InReg(IF IsFloat(v) THEN "fs1" ELSE "s1", v.ty, v.lit)
            ELSE InSlot(0, v.ty, v.lit)]
InitCall ==
    \E n \in 0..MaxArgs, inReg \in BOOLEAN, ret \in {"int", "float"} :
    \E types \in [1..n -> {"int", "ptr", "float"}], kinds \in [1..n -> {"reg", "slot", "const"}] :
    \E dest \in {InSlot(FarToo, ret, Returned(ret)), InReg(IF ret = "float" THEN "fs1" ELSE "s2", ret, Returned(ret))} :
    LET args == [k \in 1..n |-> Argument(k, types[k], kinds[k])]
        params == Parameters(args, inReg)
        cells == (-(FrameSize + 2 * MaxArgs + MaxArgs + 4 + 2 + MaxArgs + 4))..(-1)
    IN  Begin(EmitCall(args, EmitFunction(params), dest), {args[k] : k \in 1..n}, cells, dest, params)

Init ==
    \/ InitUnary \/ InitBinary \/ InitDivision \/ InitNarrow
    \/ InitBranch \/ InitBranchOnValue
    \/ InitGep \/ InitMemory \/ InitCall

-----------------------------------------------------------------------------
This == code[1]
Runs(op) == code # << >> /\ This.op = op
Operand(r) == IF r = "imm" THEN This.imm ELSE regs[r]
Address == regs[This.rs] + This.imm
Advance == code' = Tail(code) /\ UNCHANGED <<goal, before>>

Load ==
    /\ Runs("lw") \/ Runs("ld")
    /\ regs' = [regs EXCEPT ![This.rd] = IF This.op = "lw" THEN Wrap(mem[Address]) ELSE mem[Address]]
    /\ UNCHANGED mem /\ Advance

Store ==
    /\ Runs("sw") \/ Runs("sd")
    /\ mem' = [mem EXCEPT ![Address] = IF This.op = "sw" THEN WordInto(@, regs[This.rd]) ELSE regs[This.rd]]
    /\ UNCHANGED regs /\ Advance

(* The function may use what it need not keep, and returns.                 *)
Body ==
    /\ Runs("body")
    /\ regs' = [r \in Registers |->
          CASE r = "a0" -> Returned("int") [] r = "fa0" -> Returned("float")
            [] r \in (ArgRegs \cup Temporaries) \ {"a0", "fa0"} -> Unset
            [] r \in {"s1", "fs1"} -> IF \E k \in DOMAIN goal.params : goal.params[k].reg = r THEN Unset ELSE regs[r]
            [] OTHER -> regs[r]]
    /\ UNCHANGED mem /\ Advance

Compute ==
    /\ code # << >> /\ This.op \notin {"lw", "ld", "sw", "sd", "body"}
    /\ regs' = [regs EXCEPT ![This.rd] = Outcome(This.op, regs[This.rs], Operand(This.rt))]
    /\ UNCHANGED mem /\ Advance

Finished == code = << >> /\ UNCHANGED vars

Next == Load \/ Store \/ Body \/ Compute \/ Finished
Spec == Init /\ [][Next]_vars

-----------------------------------------------------------------------------
Found(v, base) ==
    IF v.kind = "reg" THEN regs[v.reg]
    ELSE IF v.ty = "ptr" THEN mem[base + v.at] ELSE Wrap(mem[base + v.at])

(* The instructions an IR instruction is expanded to leave its value where  *)
(* the allocator put it, as a word with its sign extended: for every number *)
(* and place of the operands, a place they share with the result included,  *)
(* and whatever constants make of the expansion.  The quotient by the magic *)
(* multiplier of division.rs is exact for every dividend.                   *)
ResultsExact == code = << >> => Found(goal.dest, 0) = goal.dest.lit

(* However many arguments of whatever kind a call has (call.rs), when the   *)
(* function's body begins each is in the place of its parameter (abi.rs),   *)
(* and sp is aligned.                                                       *)
ArgumentsArrive ==
    Runs("body") =>
        /\ regs["sp"] % 2 = 0
        /\ \A k \in DOMAIN goal.params :
              LET v == goal.params[k] IN
              Found(IF v.kind = "slot" THEN [v EXCEPT !.at = SlotOf(goal.params, k)] ELSE v, regs["s0"]) = v.lit

(* Apart from the result nothing an expansion leaves behind can be seen by  *)
(* the next: only registers the allocator never hands out are written, sp   *)
(* is where it was and the frame as it was.                                 *)
OnlyScratchChanges ==
    code = << >> =>
        /\ \A r \in Saved \cup {"zero", "sp", "s0"} : r # goal.dest.reg => regs[r] = before.regs[r]
        /\ \A a \in DOMAIN mem : a >= regs["sp"] /\ a # goal.dest.at => mem[a] = before.mem[a]
=============================================================================
