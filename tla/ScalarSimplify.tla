---------------------------- MODULE ScalarSimplify ----------------------------
(***************************************************************************)
(* Instructions replaced by simpler ones: ir/pass/const_fold.rs computes   *)
(* what is known and drops what changes nothing, ir/pass/inst_combine.rs   *)
(* rewrites chains of additions, products, divisions and tests,            *)
(* ir/pass/const_specialize.rs copies functions for constant arguments.    *)
(***************************************************************************)
EXTENDS ProgramRun

CONSTANTS
    MaxVariants,               \* copies of one function
    MaxAddedFunctions,         \* copies, their blocks and their instructions,
    MaxAddedBlocks,            \* in all
    MaxAddedInsts,
    MaxSpecializedInsts        \* of a function that is copied

(* A boolean constant counts as a number here.                              *)
Known(f, v) == f.kind[v] = "const" /\ f.ty[v] \in {"int", "bool"}
Literals(f, vs) == \A v \in vs : Known(f, v)

(* The operations of Rust the fold uses; an operation that would divide by  *)
(* zero is left to the program.                                             *)
Foldable(op, b) == op \notin {"idiv", "imod"} \/ b # 0
FoldedValue(op, a, b) ==
    CASE op = "idiv" -> IF a = -Half /\ b = -1 THEN a ELSE Quotient(a, b)
      [] op = "imod" -> IF b = -1 THEN 0 ELSE a - b * Quotient(a, b)
      [] op = "ishl" -> Wrap(a * 2 ^ (b % Bits))
      [] op = "bool_to_i32" -> Truth(a # 0)
      [] OTHER -> Computed(op, a, b)

(* fold_inst: the result itself becomes the constant.                       *)
FoldsTo(f, inst) ==
    IF inst.op \in Pure \ {"gep"} /\ Literals(f, Uses(inst))
    THEN LET a == f.lit[inst.args[1]]
             b == f.lit[inst.args[Len(inst.args)]]
         IN  IF Foldable(inst.op, b) THEN {FoldedValue(inst.op, a, b)} ELSE {}
    ELSE {}
FoldAt(f, s, n) ==
    [Replace(f, s, Nop) EXCEPT !.kind[ResultAt(f, s)] = "const", !.lit[ResultAt(f, s)] = n]
-----------------------------------------------------------------------------
(* What a simplification yields: a value there is, or a number.             *)
ToValue(v) == [value |-> v, number |-> 0]
ToNumber(n) == [value |-> NoValue, number |-> n]
AsItIs == ToValue(NoValue)

IsLiteral(f, v, n) == Known(f, v) /\ f.lit[v] = n
OtherThan(f, args, n) ==
    IF IsLiteral(f, args[1], n) THEN ToValue(args[2])
    ELSE IF IsLiteral(f, args[2], n) THEN ToValue(args[1]) ELSE AsItIs
Either(f, args, n) == IsLiteral(f, args[1], n) \/ IsLiteral(f, args[2], n)
Same(args) == args[1] = args[2]

(* simplify_binary, and the comparison of a value with itself.  A boolean   *)
(* operand that is a constant is 0 or not 0.                                *)
SimplifiedBinary(f, op, args) ==
    LET right == IF Known(f, args[2]) THEN {f.lit[args[2]]} ELSE {} IN
    CASE op \in {"iadd", "ior", "ixor"} /\ Either(f, args, 0) -> OtherThan(f, args, 0)
      [] op = "isub" /\ right = {0} -> ToValue(args[1])
      [] op \in {"isub", "ixor"} /\ Same(args) -> ToNumber(0)
      [] op = "imul" /\ Either(f, args, 0) -> ToNumber(0)
      [] op = "imul" -> OtherThan(f, args, 1)
      [] op = "idiv" /\ right = {1} -> ToValue(args[1])
      [] op = "idiv" /\ Same(args) -> ToNumber(1)
      [] op = "imod" /\ (right = {1} \/ Same(args)) -> ToNumber(0)
      [] op = "iand" /\ Either(f, args, 0) -> ToNumber(0)
      [] op = "iand" /\ Either(f, args, -1) -> OtherThan(f, args, -1)
      [] op = "ior" /\ Either(f, args, -1) -> ToNumber(-1)
      [] op \in {"iand", "ior"} /\ Same(args) -> ToValue(args[1])
      [] op \in {"ishl", "iashr"} /\ IsLiteral(f, args[1], 0) -> ToNumber(0)
      [] op \in {"ishl", "iashr"} /\ right = {0} -> ToValue(args[1])
      [] op = "and" /\ Either(f, args, 0) -> ToNumber(0)
      [] op = "and" /\ Literals(f, {args[1]}) -> ToValue(args[2])
      [] op = "and" /\ Literals(f, {args[2]}) -> ToValue(args[1])
      [] op = "or" /\ Either(f, args, 0) -> OtherThan(f, args, 0)
      [] op = "or" /\ (Known(f, args[1]) \/ Known(f, args[2])) -> ToNumber(1)
      [] op \in {"eq", "ne"} /\ Same(args) -> ToNumber(Truth(op = "eq"))
      [] OTHER -> AsItIs

(* simplify_inst.                                                           *)
Simplified(f, inst) ==
    CASE inst.op = "phi" -> IF Cardinality(Uses(inst)) = 1 THEN ToValue(inst.args[1]) ELSE AsItIs
      [] inst.op = "bool_to_i32" /\ f.ty[inst.args[1]] = "int" -> ToValue(inst.args[1])
      [] inst.op = "i32_to_bool" /\ f.ty[inst.args[1]] = "bool" -> ToValue(inst.args[1])
      [] inst.op \in Binary \cup {"eq", "ne"} -> SimplifiedBinary(f, inst.op, inst.args)
      [] OTHER -> AsItIs

(* One scan: what is simplified is replaced at the end of it.               *)
FoldStep(st, s) ==
    LET inst == At(st.f, s)
        record(g, v) == [f |-> g, table |-> (inst.result :> v) @@ st.table]
        ty == IF inst.op \in {"and", "or"} \cup Compare THEN "bool" ELSE "int"
        simplify(new) ==
          IF new = AsItIs THEN st
          ELSE IF new.value # NoValue THEN record(st.f, new.value)
          ELSE With(WithConst(st.f, ty, new.number), LAMBDA g : record(g, ConstOf(g, ty, new.number)))
        fold(ns) ==
          IF ns # {} THEN [st EXCEPT !.f = FoldAt(@, s, CHOOSE n \in ns : TRUE)]
          ELSE With(Simplified(st.f, inst), simplify)
    IN  IF inst.result = NoValue THEN st ELSE With(FoldsTo(st.f, inst), fold)

FoldScan(f) ==
    With(Folded(FoldStep, [f |-> f, table |-> << >>], InOrder(f, Sites(f))),
         LAMBDA st : Rewritten(st.f, st.table))

ConstFolded(f) == Settled(FoldScan, f, Cardinality(Sites(f)) + 1)
ConstFoldPass(p) == EachFunction(p, ConstFolded)

-----------------------------------------------------------------------------
IsOperation(inst, op) == inst.op = op /\ inst.result # NoValue
PowersOfTwo == {2 ^ k : k \in 0..(Bits - 1)}

(* The value is used, and nothing sees it but what passes the test.         *)
SeenOnlyBy(f, v, Test(_, _)) ==
    /\ \E i \in Instructions(f) : v \in Uses(i)
    /\ \A i \in Instructions(f) : v \in Uses(i) => Test(v, i)
    /\ v \notin TerminatorUses(f)

IsBeside(f, i, v, n) ==
    (i.args[1] = v /\ IsNumber(f, i.args[2], n)) \/ (i.args[2] = v /\ IsNumber(f, i.args[1], n))

OperandCount(f) ==
    LET work(n, i) == n + Len(i.args) IN
    Folded(LAMBDA n, b : Folded(work, n, Insts(f, b)) + Len(Term(f, b).args), 0, [b \in Blocks(f) |-> b])
CombineAffordable(f) ==
    Len(f.kind) <= MaxValues /\ Cardinality(Sites(f)) <= MaxWork /\ OperandCount(f) <= MaxWork

ResultsOf(f, op) == {i.result : i \in {j \in Instructions(f) : IsOperation(j, op)}}
Rewrite(f, v, op, args) == Replace(f, SiteOf(f, v), Operation(op, v, args))

(* combine_divisibility_remainders: whether x divides by a power of two is  *)
(* a question about its low bits, whatever the signs.                       *)
DivisibilityCombined(f) ==
    LET inst(v) == At(f, SiteOf(f, v))
        divisor(v) == f.lit[inst(v).args[2]]
        asksZero(v, i) == i.op \in {"eq", "ne"} /\ IsBeside(f, i, v, 0)
        candidates ==
          {v \in ResultsOf(f, "imod") :
             IsInt(f, inst(v).args[2]) /\ Abs(divisor(v)) \in PowersOfTwo /\ SeenOnlyBy(f, v, asksZero)}
        mask(g, v) ==
          LET n == Abs(divisor(v)) - 1 IN
          With(WithConst(g, "int", n), LAMBDA h : Rewrite(h, v, "iand", <<inst(v).args[1], ConstOf(h, "int", n)>>))
    IN  IF CombineAffordable(f) THEN Folded(mask, f, Ascending(candidates)) ELSE f

(* combine_parity_products: the last bit of a product is that of the and.   *)
ParityCombined(f) ==
    LET asksParity(v, i) == i.op = "iand" /\ IsBeside(f, i, v, 1)
        candidates == {v \in ResultsOf(f, "imul") : SeenOnlyBy(f, v, asksParity)}
        weaken(g, v) == Rewrite(g, v, "iand", At(g, SiteOf(g, v)).args)
    IN  IF CombineAffordable(f) THEN Folded(weaken, f, Ascending(candidates)) ELSE f
-----------------------------------------------------------------------------
(* An expression is the function, which may gain constants, with an         *)
(* operator and its operands.                                               *)
CanonicalOperands(f, op, args) ==
    LET constant(k) == IsInt(f, args[k])
        swap == IF constant(1) = constant(2) THEN args[2] < args[1] ELSE constant(1)
    IN  IF op \in {"iadd", "imul", "iand", "ior", "ixor"} /\ swap THEN <<args[2], args[1]>> ELSE args

Expression(f, op, args) == [f |-> f, op |-> op, args |-> CanonicalOperands(f, op, args)]
WithNumber(f, op, v, n) ==
    With(WithConst(f, "int", n), LAMBDA g : Expression(g, op, <<v, ConstOf(g, "int", n)>>))

(* match_remainder_divisor: x - (x / d) * d.                                *)
RemainderDivisors(f, x, product) ==
    LET by == Definition(f, product)
        side(k) ==
          LET quotient == Definition(f, by.args[k])
              factor == by.args[3 - k]
          IN  IF /\ IsInt(f, factor) /\ f.lit[factor] # 0
                 /\ quotient.op = "idiv" /\ quotient.args[1] = x
                 /\ IsNumber(f, quotient.args[2], f.lit[factor])
              THEN <<quotient.args[2]>> ELSE << >>
    IN  IF by.op = "imul" THEN side(1) \o side(2) ELSE << >>

(* combine_positive_constant_divisions: (x / a) / b.  A product no number   *)
(* reaches makes the quotient zero; the one the smallest number reaches     *)
(* stays as it is.                                                          *)
DivisionsCombined(e) ==
    LET by == Definition(e.f, e.args[1])
        positive(v) == IsInt(e.f, v) /\ e.f.lit[v] > 0
        product == e.f.lit[by.args[2]] * e.f.lit[e.args[2]]
    IN  IF ~positive(e.args[2]) \/ by.op # "idiv" THEN e
        ELSE IF ~positive(by.args[2]) THEN e
        ELSE IF product <= Half - 1 THEN WithNumber(e.f, "idiv", by.args[1], product)
        ELSE IF product > Half THEN WithNumber(e.f, "iand", by.args[1], 0)
        ELSE e

(* reassociate_constants: (x op a) op b.                                    *)
Reassociated(e) ==
    LET by == Definition(e.f, e.args[1])
        constants == {k \in DOMAIN by.args : IsInt(e.f, by.args[k])}
        base == by.args[CHOOSE k \in DOMAIN by.args : k \notin constants]
        inner == e.f.lit[by.args[CHOOSE k \in constants : TRUE]]
        outer == e.f.lit[e.args[2]]
    IN  IF ~IsInt(e.f, e.args[2]) \/ by.op # e.op \/ Cardinality(constants) # 1 THEN e
        ELSE IF base = e.args[1] THEN e
        ELSE WithNumber(e.f, e.op, base, IF e.op = "iadd" THEN Wrap(inner + outer) ELSE Wrap(inner * outer))

BinaryCombined(f, op, args) ==
    LET rest(e) ==
          LET divisors == IF e.op = "isub" THEN RemainderDivisors(f, e.args[1], e.args[2]) ELSE << >> IN
          IF divisors # << >> THEN [e EXCEPT !.op = "imod", !.args[2] = Head(divisors)]
          ELSE IF e.op = "idiv" THEN DivisionsCombined(e)
          ELSE IF e.op \in {"iadd", "imul"} THEN Reassociated(e)
          ELSE e
        doubled(e) == IF e.op = "iadd" /\ e.args[1] = e.args[2] THEN WithNumber(f, "imul", e.args[1], 2) ELSE e
    IN  With(With(Expression(f, op, args), doubled), rest)

(* combine_inst.                                                            *)
CombineAt(f, s) ==
    LET inst == At(f, s)
        place(e) == Replace(e.f, s, [inst EXCEPT !.op = e.op, !.args = e.args])
    IN  IF inst.op \in Binary THEN With(BinaryCombined(f, inst.op, inst.args), place)
        ELSE IF inst.op \in Compare /\ IsInt(f, inst.args[1]) /\ ~IsInt(f, inst.args[2])
        THEN Replace(f, s, [inst EXCEPT !.op = Reversed(@), !.args = <<@[2], @[1]>>])
        ELSE f

LowBitsCombined(f) == With(DivisibilityCombined(f), ParityCombined)
CombineScan(f) == Folded(CombineAt, f, InOrder(f, Sites(f)))
Combined(f) == Settled(CombineScan, LowBitsCombined(f), Cardinality(Sites(f)) + 1)

InstCombinePass(p) == EachFunction(p, Combined)
DivisibilityOnlyPass(p) == EachFunction(p, LowBitsCombined)
-----------------------------------------------------------------------------
(* Functions for the constants they are called with,                        *)
(* ir/pass/const_specialize.rs: a parameter every call gives one constant   *)
(* becomes it; a call with constants where they matter goes to a copy of    *)
(* its callee, round after round as folding finds more.                     *)
ScalarConst(f, v) == IF Known(f, v) THEN {[ty |-> f.ty[v], lit |-> f.lit[v]]} ELSE {}

(* The parameters become constants, param -> constant.                      *)
ParamsReplaced(f, constants) ==
    LET add(g, k) == WithConst(g, constants[k].ty, constants[k].lit)
        rewrite(g) ==
          LET at(v) == CHOOSE k \in DOMAIN f.params : f.params[k] = v
              table == [v \in {f.params[k] : k \in DOMAIN constants} |->
                          ConstOf(g, constants[at(v)].ty, constants[at(v)].lit)]
          IN  With(table, LAMBDA t : Rewritten(g, t))
    IN  With(Folded(add, f, Ascending(DOMAIN constants)), rewrite)

(* propagate_uniform_constant_arguments.                                    *)
CallsTo(p, k) ==
    UNION {{[caller |-> j, args |-> i.args] : i \in {c \in Calls(p.funcs[j]) : c.name = k}} : j \in DOMAIN p.funcs}

UniformConstants(p, k) ==
    LET params == p.funcs[k].params
        calls == {c \in CallsTo(p, k) : Len(c.args) = Len(params)}
        given(i) == {ScalarConst(p.funcs[c.caller], c.args[i]) : c \in calls}
        uniform == {i \in DOMAIN params : Cardinality(given(i)) = 1 /\ {} \notin given(i)}
    IN  [i \in uniform |-> CHOOSE const \in UNION given(i) : TRUE]

UniformPropagated(p) ==
    [p EXCEPT !.funcs = [k \in DOMAIN @ |->
        With(UniformConstants(p, k), LAMBDA constants : ParamsReplaced(@[k], constants))]]
-----------------------------------------------------------------------------
(* parameter_specialization_scores: what knowing the parameter is worth.    *)
Worth(inst, k) ==
    CASE inst.op \in {"idiv", "imod", "ishl", "iashr"} /\ k = 2 -> 4
      [] inst.op \in Compare -> 4
      [] inst.op = "gep" /\ k > 1 -> 3
      [] OTHER -> 1

Score(f, param) ==
    LET ofInst(inst) ==
          Folded(LAMBDA n, k : n + (IF inst.args[k] = param THEN Worth(inst, k) ELSE 0), 0,
                 [k \in DOMAIN inst.args |-> k])
        ofTerm(b) == IF Term(f, b).args # <<param>> THEN 0 ELSE IF IsBranch(f, b) THEN 4 ELSE 1
        ofBlock(b) == ofTerm(b) + Folded(LAMBDA n, i : n + ofInst(i), 0, Insts(f, b))
    IN  Folded(LAMBDA n, b : n + ofBlock(b), 0, [b \in Blocks(f) |-> b])

InstSlots(f) == Cardinality(Sites(f))
Specializable(f, k, recursive) ==
    /\ Len(f.blocks) <= MaxBlocks /\ InstSlots(f) <= MaxSpecializedInsts
    /\ recursive \/ k \notin Callees(f)
    /\ Verified(f)

(* The constants a call gives to the parameters worth knowing.              *)
SiteConstants(p, caller, inst) ==
    LET callee == p.funcs[inst.name]
        given(i) == ScalarConst(p.funcs[caller], inst.args[i])
        worth == {i \in DOMAIN inst.args \cap DOMAIN callee.params :
                    Score(callee, callee.params[i]) >= 2 /\ given(i) # {}}
    IN  [i \in worth |-> CHOOSE const \in given(i) : TRUE]

(* The variants the calls of a round ask for, in order, and the call sites. *)
RoundSites(p, recursive) ==
    LET eligible == [k \in DOMAIN p.funcs |-> Specializable(p.funcs[k], k, recursive)]
        ofFunction(seq, k) ==
          LET f == p.funcs[k]
              asks(s) == /\ IsCall(At(f, s)) /\ At(f, s).name \notin {0, k}
                         /\ eligible[At(f, s).name]
              site(s) == [caller |-> k, at |-> s, callee |-> At(f, s).name,
                          constants |-> SiteConstants(p, k, At(f, s))]
              calls == InOrder(f, {s \in Sites(f) : asks(s)})
          IN  seq \o SelectSeq([i \in DOMAIN calls |-> site(calls[i])], LAMBDA x : DOMAIN x.constants # {})
    IN  Folded(ofFunction, << >>, [k \in DOMAIN p.funcs |-> k])

VariantOf(site) == [callee |-> site.callee, constants |-> site.constants]
RoundVariants(sites) ==
    Folded(LAMBDA seq, x : IF VariantOf(x) \in Elements(seq) THEN seq ELSE Append(seq, VariantOf(x)), << >>, sites)

(* A copy for each variant the limits allow.  The state is [p, added,       *)
(* blocks, insts, count, copies]: what was added so far, how many variants  *)
(* a function has, and which variants of the round have which copy.         *)
CountOf(st, k) == IF k \in DOMAIN st.count THEN st.count[k] ELSE 0

Accept(source, variants, st, variant) ==
    LET f == source.funcs[variant.callee]
        count == CountOf(st, variant.callee)
        requested == Cardinality({k \in DOMAIN variants : variants[k].callee = variant.callee})
        fits == /\ requested + count <= MaxVariants
                /\ st.added < MaxAddedFunctions
                /\ st.blocks + Len(f.blocks) <= MaxAddedBlocks
                /\ st.insts + InstSlots(f) <= MaxAddedInsts
        add(copy) ==
          [p |-> [st.p EXCEPT !.funcs = Append(@, copy)],
           added |-> st.added + 1, blocks |-> st.blocks + Len(f.blocks), insts |-> st.insts + InstSlots(f),
           count |-> (variant.callee :> count + 1) @@ st.count,
           copies |-> (variant :> Len(st.p.funcs) + 1) @@ st.copies]
    IN  IF fits THEN With(ParamsReplaced(f, variant.constants), add) ELSE st

Redirect(st, site) ==
    IF VariantOf(site) \notin DOMAIN st.copies THEN st
    ELSE [st EXCEPT !.p.funcs[site.caller].blocks[site.at[1]].insts[site.at[2]].name = st.copies[VariantOf(site)]]

SpecializeRound(st, recursive) ==
    LET round(sites) ==
          LET variants == RoundVariants(sites)
              accepted == Folded(LAMBDA acc, v : Accept(st.p, variants, acc, v), [st EXCEPT !.copies = << >>], variants)
              redirect(acc) == IF acc.copies = << >> THEN acc ELSE Folded(Redirect, acc, sites)
          IN  With(With(accepted, redirect), LAMBDA acc :
                IF acc.copies = << >> THEN acc ELSE [acc EXCEPT !.p = ConstFoldPass(@)])
    IN  With(RoundSites(st.p, recursive), round)

ConstSpecializePass(p, recursive, uniform) ==
    LET start == [p |-> IF uniform THEN With(UniformPropagated(p), ConstFoldPass) ELSE p,
                  added |-> 0, blocks |-> 0, insts |-> 0, count |-> << >>, copies |-> << >>]
    IN  Settled(LAMBDA st : SpecializeRound(st, recursive), start, MaxRounds).p
=============================================================================
