------------------------------ MODULE Lowering ------------------------------
(***************************************************************************)
(* From the syntax tree (ast.rs) to a module of the IR, ir/lower, and the  *)
(* cells codegen/common/data.rs lays out for the initialized globals.      *)
(*                                                                         *)
(* A text is [decls, funcs]: the declarations of globals and the           *)
(* functions, main first.  Its parts are told apart by their first field:  *)
(*   e  expressions: "num" [n], "var" [name, indices], "call" [name, ret,  *)
(*      args] of function number name, 0 being the library, "un" [op,      *)
(*      arg], "bin", "and" and "or" [op, lhs, rhs]                         *)
(*   s  statements: "decl" [def], "assign" [target, value], "eval" [expr], *)
(*      "block" [items], "if" [cond, yes, no], "while" [cond, body],       *)
(*      "break", "continue", "return" [result]; no and result are          *)
(*      sequences of at most one                                           *)
(*   i  initializers: "expr" [expr] and "list" [items]                     *)
(* A declaration is [name, const, dims, init], a function [ret, params,    *)
(* body], a parameter [name, array, dims] without its first dimension.     *)
(* Types are [ptr, dims]: int when there are no dims, otherwise an array;  *)
(* or a pointer to one of these.                                           *)
(***************************************************************************)
EXTENDS Program

IsText(p) == "decls" \in DOMAIN p

IntType == [ptr |-> FALSE, dims |-> << >>]
ArrayOf(dims) == [ptr |-> FALSE, dims |-> dims]
PointerTo(dims) == [ptr |-> TRUE, dims |-> dims]
Size(dims) == Folded(LAMBDA n, d : n * d, 1, dims)

(* array_elem_type, and how Program calls a pointer to a type.              *)
ElemType(type) == ArrayOf(IF type.ptr THEN type.dims ELSE Tail(type.dims))
PointerName(type) == IF ~type.ptr /\ type.dims # << >> THEN "array" ELSE "ptr"
-----------------------------------------------------------------------------
(* The state of FunctionLowerer is [f, current, scopes, loops, types, value,*)
(* type, module]: the function so far, value and type being what the last   *)
(* step came to, and module what Lowerer knows about the whole text.        *)
Open == [args |-> << >>, succ |-> <<0>>]
Branch(v, yes, no) == [args |-> <<v>>, succ |-> <<yes, no>>]
Return(args) == [args |-> args, succ |-> << >>]

IsTerminated(l) == Term(l.f, l.current) # Open
Terminate(l, term) == IF IsTerminated(l) THEN l ELSE [l EXCEPT !.f.blocks[l.current].term = term]
AddBlocks(l, count) ==
    [l EXCEPT !.f.blocks = @ \o [k \in 1..count |-> [insts |-> << >>, term |-> Open]]]
Into(l, b) == [l EXCEPT !.current = b]
BlockCount(l) == Len(l.f.blocks)

AddConst(l, ty, n) == [l EXCEPT !.f = WithValue(@, "const", ty, n), !.value = NewValue(l.f)]
Perform(l, inst) == [l EXCEPT !.f = AppendInst(@, l.current, inst)]
Produce(l, ty, inst) ==
    [Perform([l EXCEPT !.f = WithValue(@, "inst", ty, 0)], [inst EXCEPT !.result = NewValue(l.f)])
        EXCEPT !.value = NewValue(l.f)]
Result(l, op, args, ty) == Produce(l, ty, Operation(op, NoValue, args))

(* alloca: whatever block is current, the slot is made in the entry.        *)
Alloca(l, type) ==
    LET slot == Operation("alloca", NoValue, << >>) @@ [size |-> IF type.ptr THEN 1 ELSE Size(type.dims)]
    IN  Into(Produce(Into(l, Entry), PointerName(type), slot), l.current)

Define(l, name, type) ==
    LET symbol == [ptr |-> l.value, type |-> type] IN
    [l EXCEPT !.scopes[Len(l.scopes)] = (name :> symbol) @@ @]
ScopesWith(l, name) == {n \in DOMAIN l.scopes : name \in DOMAIN l.scopes[n]}
Lookup(l, name) == l.scopes[Greatest(ScopesWith(l, name))][name]

(* cast_to, leaving pointers alone as lower_call does.                      *)
CastTo(l, v, ty) ==
    IF l.f.ty[v] = ty \/ IsPointer(l.f, v) THEN [l EXCEPT !.value = v]
    ELSE Result(l, IF ty = "int" THEN "bool_to_i32" ELSE "i32_to_bool", <<v>>, ty)
ToBool(l) ==
    IF l.f.ty[l.value] = "bool" THEN l
    ELSE With(AddConst(l, "int", 0), LAMBDA zero : Result(zero, "ne", <<l.value, zero.value>>, "bool"))

(* An element's address: one gep an index, in steps of the element's size.  *)
GepTo(l, base, elem) ==
    LET gep == Operation("gep", NoValue, <<base, l.value>>) IN
    [Produce(l, PointerName(elem), IF elem.dims = << >> THEN gep ELSE gep @@ [size |-> Size(elem.dims)])
        EXCEPT !.type = elem]
-----------------------------------------------------------------------------
RECURSIVE LowerExpr(_, _), EvalConst(_, _), FillInit(_, _, _), LowerInit(_, _, _, _), LowerStmt(_, _)

(* lower_lvalue_addr: the address in value, what it is the address of in    *)
(* type.  A parameter that is an array holds a pointer.                     *)
LowerSymbol(l, name) ==
    IF ScopesWith(l, name) = {}
    THEN LET g == Chosen(DOMAIN l.module.globals, LAMBDA k : l.module.globals[k].name = name)
             type == ArrayOf(l.module.globals[g].dims)
         IN  [l EXCEPT !.f = WithValue(@, "global", PointerName(type), g),
                       !.value = NewValue(l.f), !.type = type]
    ELSE LET symbol == Lookup(l, name) IN
         IF symbol.type.ptr
         THEN [Result(l, "load", <<symbol.ptr>>, PointerName(ElemType(symbol.type))) EXCEPT !.type = symbol.type]
         ELSE [l EXCEPT !.value = symbol.ptr, !.type = symbol.type]

LowerAddress(l, lvalue) ==
    LET index(addr, e) ==
          With(LowerExpr(addr, e), LAMBDA i :
            With(CastTo(i, i.value, "int"), LAMBDA n : GepTo(n, addr.value, ElemType(addr.type))))
    IN  Folded(index, LowerSymbol(l, lvalue.name), lvalue.indices)

YieldsPointer(type) == type.ptr \/ type.dims # << >>

LowerBool(l, e) == With(LowerExpr(l, e), ToBool)

LowerUnary(l, e) ==
    With(LowerExpr(l, e.arg), LAMBDA a :
      CASE e.op = "pos" -> a
        [] e.op = "ineg" -> With(CastTo(a, a.value, "int"), LAMBDA n : Result(n, "ineg", <<n.value>>, "int"))
        [] e.op = "not" -> With(ToBool(a), LAMBDA b : Result(b, "not", <<b.value>>, "bool")))

LowerBinary(l, e) ==
    With(LowerExpr(l, e.lhs), LAMBDA a : With(LowerExpr(a, e.rhs), LAMBDA b :
      With(CastTo(b, a.value, "int"), LAMBDA c : With(CastTo(c, b.value, "int"), LAMBDA d :
        Result(d, e.op, <<c.value, d.value>>, IF e.op \in Compare THEN "bool" ELSE "int")))))

(* lower_short_circuit_and and _or: evaluating the left operand may itself  *)
(* have made blocks.                                                        *)
LowerShortCircuit(l, e) ==
    LET rhs == BlockCount(l) + 1
        end == BlockCount(l) + 2
    IN  With(LowerBool(AddBlocks(l, 2), e.lhs), LAMBDA a :
          With(Terminate(a, IF e.e = "and" THEN Branch(a.value, rhs, end) ELSE Branch(a.value, end, rhs)), LAMBDA b :
            With(LowerBool(Into(b, rhs), e.rhs), LAMBDA c :
              With(AddConst(Into(Terminate(c, Jump(end)), end), "bool", IF e.e = "and" THEN 0 ELSE 1), LAMBDA d :
                Produce(d, "bool", [Operation("phi", NoValue, <<d.value, c.value>>)
                                      EXCEPT !.preds = <<a.current, c.current>>])))))

(* lower_call: a call without result counts as 0.                           *)
LowerCall(l, e) ==
    LET lowered(acc, arg) ==
          With(LowerExpr(acc.l, arg), LAMBDA a : With(CastTo(a, a.value, "int"), LAMBDA c :
            [l |-> c, args |-> Append(acc.args, c.value)]))
    IN  With(Folded(lowered, [l |-> l, args |-> << >>], e.args), LAMBDA done :
          LET call == Operation("call", NoValue, done.args) @@ [name |-> e.name] IN
          IF e.ret = "void" THEN AddConst(Perform(done.l, call), "int", 0)
          ELSE Produce(done.l, e.ret, call))

LowerExpr(l, e) ==
    CASE e.e = "num" -> AddConst(l, "int", e.n)
      [] e.e = "var" -> With(LowerAddress(l, e), LAMBDA a :
                          IF YieldsPointer(a.type) THEN a ELSE Result(a, "load", <<a.value>>, "int"))
      [] e.e = "call" -> LowerCall(l, e)
      [] e.e = "un" -> LowerUnary(l, e)
      [] e.e = "bin" -> LowerBinary(l, e)
      [] OTHER -> LowerShortCircuit(l, e)
-----------------------------------------------------------------------------
(* eval_const_int, over the constants among the globals.                    *)
EvalConst(consts, e) ==
    CASE e.e = "num" -> e.n
      [] e.e = "var" -> consts[e.name].n
      [] e.e = "un" -> IF e.op = "pos" THEN EvalConst(consts, e.arg) ELSE Computed(e.op, EvalConst(consts, e.arg), 0)
      [] OTHER -> Computed(IF e.e = "bin" THEN e.op ELSE e.e, EvalConst(consts, e.lhs), EvalConst(consts, e.rhs))

DimsOf(consts, exprs) == [k \in DOMAIN exprs |-> EvalConst(consts, exprs[k])]

(* fill_init: the expression each cell of an array gets, as a sequence of   *)
(* at most one, from the position the list has come to.                     *)
FillItem(acc, item, dims) ==
    IF acc.pos > Len(acc.cells) THEN acc
    ELSE IF item.i = "list" /\ Len(dims) > 1
         THEN [FillInit(item, Tail(dims), acc) EXCEPT !.pos = acc.pos + Size(Tail(dims))]
         ELSE FillInit(item, Tail(dims), acc)

FillInit(init, dims, acc) ==
    IF acc.pos > Len(acc.cells) THEN acc
    ELSE IF init.i = "expr" THEN [pos |-> acc.pos + 1, cells |-> [acc.cells EXCEPT ![acc.pos] = <<init.expr>>]]
    ELSE IF dims = << >> THEN (IF init.items = << >> THEN acc ELSE FillInit(init.items[1], dims, acc))
    ELSE Folded(LAMBDA so, item : FillItem(so, item, dims), acc, init.items)

(* lower_array_element_ptr.                                                 *)
CellAddress(l, ptr, dims, cell) ==
    LET stride(k) == Size(SubSeq(dims, k + 1, Len(dims)))
        index(k) == IF k = 1 THEN cell \div stride(1) ELSE (cell % stride(k - 1)) \div stride(k)
        step(addr, k) ==
          With(AddConst(addr, "int", index(k)), LAMBDA i : GepTo(i, addr.value, ElemType(addr.type)))
    IN  Folded(step, [l EXCEPT !.value = ptr, !.type = ArrayOf(dims)], [k \in DOMAIN dims |-> k])

StoreExpr(l, ptr, e) ==
    With(LowerExpr(l, e), LAMBDA a : With(CastTo(a, a.value, "int"), LAMBDA v :
      Perform(v, Operation("store", NoValue, <<ptr, v.value>>))))

(* lower_array_init_flat: cleared first, then a store for every cell the    *)
(* list names.                                                              *)
LowerArrayInit(l, ptr, dims, init) ==
    LET cells == FillInit(init, dims, [pos |-> 1, cells |-> [k \in 1..Size(dims) |-> << >>]]).cells
        store(acc, k) ==
          IF cells[k] = << >> THEN acc
          ELSE With(CellAddress(acc, ptr, dims, k - 1), LAMBDA a : StoreExpr(a, a.value, cells[k][1]))
        clear == Operation("memzero", NoValue, <<ptr>>) @@ [size |-> Size(dims)]
    IN  Folded(store, IF Size(dims) = 0 THEN l ELSE Perform(l, clear), [k \in DOMAIN cells |-> k])

LowerInit(l, ptr, dims, init) ==
    IF init.i = "expr" THEN StoreExpr(l, ptr, init.expr)
    ELSE IF dims # << >> THEN LowerArrayInit(l, ptr, dims, init)
    ELSE IF init.items = << >> THEN l ELSE LowerInit(l, ptr, dims, init.items[1])

LowerDecl(l, def) ==
    LET dims == DimsOf(l.module.consts, def.dims) IN
    With(Define(Alloca(l, ArrayOf(dims)), def.name, ArrayOf(dims)), LAMBDA d :
      IF def.init = << >> THEN d ELSE LowerInit(d, d.value, dims, def.init[1]))
-----------------------------------------------------------------------------
(* lower_block_items: what follows a jump is not lowered.                   *)
LowerItems(l, items) ==
    LET item(acc, s) == IF IsTerminated(acc) THEN acc ELSE LowerStmt(acc, s) IN
    [Folded(item, [l EXCEPT !.scopes = Append(@, << >>)], items) EXCEPT !.scopes = l.scopes]

LowerAssign(l, s) ==
    With(LowerAddress(l, s.target), LAMBDA a : StoreExpr(a, a.value, s.value))

LowerIf(l, s) ==
    LET yes == BlockCount(l) + 1
        no == BlockCount(l) + 2
        end == BlockCount(l) + 3
    IN  With(LowerBool(AddBlocks(l, 3), s.cond), LAMBDA a :
          With(LowerStmt(Into(Terminate(a, Branch(a.value, yes, no)), yes), s.yes), LAMBDA b :
            With(Folded(LowerStmt, Into(Terminate(b, Jump(end)), no), s.no), LAMBDA c :
              Into(Terminate(c, Jump(end)), end))))

LowerWhile(l, s) ==
    LET cond == BlockCount(l) + 1
        body == BlockCount(l) + 2
        end == BlockCount(l) + 3
        targets == [break |-> end, continue |-> cond]
    IN  With(LowerBool(Into(Terminate(AddBlocks(l, 3), Jump(cond)), cond), s.cond), LAMBDA a :
          With(Into(Terminate(a, Branch(a.value, body, end)), body), LAMBDA b :
            With(LowerStmt([b EXCEPT !.loops = Append(@, targets)], s.body), LAMBDA c :
              Into(Terminate([c EXCEPT !.loops = l.loops], Jump(cond)), end))))

LowerReturn(l, s) ==
    IF s.result = << >> THEN Terminate(l, Return(<< >>))
    ELSE With(LowerExpr(l, s.result[1]), LAMBDA a :
           With(CastTo(a, a.value, l.f.ret), LAMBDA v : Terminate(v, Return(<<v.value>>))))

Target(l) == l.loops[Len(l.loops)]

LowerStmt(l, s) ==
    CASE s.s = "decl" -> LowerDecl(l, s.def)
      [] s.s = "assign" -> LowerAssign(l, s)
      [] s.s = "eval" -> LowerExpr(l, s.expr)
      [] s.s = "block" -> LowerItems(l, s.items)
      [] s.s = "if" -> LowerIf(l, s)
      [] s.s = "while" -> LowerWhile(l, s)
      [] s.s = "break" -> Terminate(l, Jump(Target(l).break))
      [] s.s = "continue" -> Terminate(l, Jump(Target(l).continue))
      [] s.s = "return" -> LowerReturn(l, s)
-----------------------------------------------------------------------------
(* Every parameter gets a slot of its own.  A function that runs off its    *)
(* end returns zero.                                                        *)
ParamType(consts, param) == IF param.array THEN PointerTo(DimsOf(consts, param.dims)) ELSE IntType
LowerParam(l, param) ==
    LET type == ParamType(l.module.consts, param)
        v == NewValue(l.f)
        added == WithValue(l.f, "param", IF type.ptr THEN PointerName(ElemType(type)) ELSE "int", 0)
    IN  With(Alloca([l EXCEPT !.f = [added EXCEPT !.params = Append(@, v)]], type), LAMBDA a :
          Define(Perform(a, Operation("store", NoValue, <<a.value, v>>)), param.name, type))

LowerFunction(func, module) ==
    LET empty == [kind |-> << >>, ty |-> << >>, lit |-> << >>, params |-> << >>, ret |-> func.ret,
                  blocks |-> <<[insts |-> << >>, term |-> Open]>>]
        begun == [f |-> empty, current |-> Entry, scopes |-> << << >> >>, loops |-> << >>,
                  value |-> NoValue, type |-> IntType, module |-> module]
    IN  With(LowerItems(Folded(LowerParam, begun, func.params), func.body), LAMBDA l :
          IF IsTerminated(l) THEN l.f
          ELSE IF func.ret = "void" THEN Terminate(l, Return(<< >>)).f
          ELSE With(AddConst(l, "int", 0), LAMBDA z : Terminate(z, Return(<<z.value>>)).f))
-----------------------------------------------------------------------------
RECURSIVE LowerConstInit(_, _, _), IsZeroConst(_), EmitConstWords(_, _)

(* lower_const_init: constants are [c |-> "int", n], "array" [elems] and    *)
(* "zero".                                                                  *)
LowerConstInit(consts, init, dims) ==
    IF init.i = "expr" THEN [c |-> "int", n |-> EvalConst(consts, init.expr)]
    ELSE IF init.items = << >> THEN [c |-> "zero"]
    ELSE [c |-> "array",
          elems |-> [k \in DOMAIN init.items |-> LowerConstInit(consts, init.items[k], Tail(dims))]]

(* data.rs: what the words of a global are.                                 *)
IsZeroConst(c) ==
    \/ c.c = "zero"
    \/ c.c = "int" /\ c.n = 0
    \/ c.c = "array" /\ \A k \in DOMAIN c.elems : IsZeroConst(c.elems[k])

Zeros(dims) == [k \in 1..Greatest({Size(dims), 1}) |-> 0]
EmitConstWords(c, dims) ==
    IF IsZeroConst(c) THEN Zeros(dims)
    ELSE IF c.c = "int" THEN <<c.n>>
    ELSE IF dims = << >> THEN << >>
    ELSE Folded(LAMBDA words, k : words \o (IF k \in DOMAIN c.elems THEN EmitConstWords(c.elems[k], Tail(dims))
                                            ELSE Zeros(Tail(dims))),
                << >>, [k \in 1..dims[1] |-> k])

(* collect_global_consts, then lower_global_decl.                           *)
ConstInit(consts, def) ==
    IF def.init = << >> THEN [c |-> "zero"]
    ELSE LowerConstInit(consts, def.init[1], DimsOf(consts, def.dims))

GlobalConsts(decls) ==
    LET add(consts, def) ==
          IF def.const /\ def.init # << >> THEN (def.name :> ConstInit(consts, def)) @@ consts ELSE consts
    IN  Folded(add, << >>, decls)

LowerProgram(text) ==
    With(GlobalConsts(text.decls), LAMBDA consts :
      LET dims(def) == DimsOf(consts, def.dims)
          module == [consts |-> consts,
                     globals |-> [k \in DOMAIN text.decls |->
                        [name |-> text.decls[k].name, dims |-> dims(text.decls[k])]]]
          global(def) == [const |-> def.const, array |-> dims(def) # << >>,
                          init |-> EmitConstWords(ConstInit(consts, def), dims(def))]
      IN  [globals |-> [k \in DOMAIN text.decls |-> global(text.decls[k])],
           funcs |-> [k \in DOMAIN text.funcs |-> LowerFunction(text.funcs[k], module)]])
=============================================================================
