------------------------------ MODULE SourceRun ------------------------------
(***************************************************************************)
(* What a text means by the rules of C, with which the language shares its *)
(* grammar: expressions and statements evaluated as they stand, with the   *)
(* memory, the library and the events of ProgramRun.  Where C leaves the   *)
(* order open, operands are taken from left to right and the target of an  *)
(* assignment before its value; a function without a return statement      *)
(* returns 0, as C has it for main.                                        *)
(***************************************************************************)
EXTENDS ProgramRun, Lowering

(* The state is [text, mem, scopes, ctl, value, dims, fuel, answers, event].*)
(* A name stands for the object at an address, with the dimensions it has   *)
(* left; ctl says how a statement ended; fuel bounds iterations and calls;  *)
(* answers are those the library has yet to give.                           *)
Onward(s, Op(_)) == With(s, LAMBDA t : IF t.ctl = "go" THEN Op(t) ELSE t)
Stop(s, kind, data, shown) ==
    [s EXCEPT !.ctl = "stop", !.event = [kind |-> kind, data |-> data, shown |-> shown]]
Valued(s, d) == [s EXCEPT !.value = d]
Written(s, d, n) ==
    IF InBounds(s.mem, d) THEN [s EXCEPT !.mem[Object(d)][Offset(d) + 1] = n]
    ELSE Stop(s, "trap", << >>, << >>)

Binding(s, name) == s.scopes[Greatest({n \in DOMAIN s.scopes : name \in DOMAIN s.scopes[n]})][name]
Bound(s, name, at, dims) ==
    [s EXCEPT !.scopes[Len(s.scopes)] = (name :> [at |-> at, dims |-> dims]) @@ @]
Allocated(s, name, dims, cells) ==
    Bound([s EXCEPT !.mem = Append(@, cells)], name, Pointer(Len(s.mem) + 1, 0), dims)

RECURSIVE Eval(_, _), Exec(_, _), Placed(_, _, _)

(* The values of several expressions, in all.                               *)
EvalAll(s, exprs) ==
    LET next(acc, e) ==
          With(Onward(acc.s, LAMBDA t : Eval(t, e)), LAMBDA t : [s |-> t, all |-> Append(acc.all, t.value)])
    IN  Folded(next, [s |-> s, all |-> << >>], exprs)

Located(s, lvalue) ==
    LET binding == Binding(s, lvalue.name)
        element(t, e) ==
          Onward(t, LAMBDA u : Onward(Eval(u, e), LAMBDA i :
            [i EXCEPT !.value = u.value + i.value * Size(Tail(u.dims)), !.dims = Tail(u.dims)]))
    IN  Folded(element, [s EXCEPT !.value = binding.at, !.dims = binding.dims], lvalue.indices)

ReadFrom(s) ==
    IF s.dims # << >> THEN s
    ELSE IF InBounds(s.mem, s.value) THEN Valued(s, Cell(s.mem, s.value))
    ELSE Stop(s, "trap", << >>, << >>)

Statements(s, items) ==
    With(Folded(LAMBDA t, item : Onward(t, LAMBDA u : Exec(u, item)), [s EXCEPT !.scopes = Append(@, << >>)], items),
         LAMBDA t : [t EXCEPT !.scopes = s.scopes])

(* The library adds one to what it was given the address of.                *)
ShownAs(mem, d) == IF d >= Reach THEN <<Offset(d)>> \o mem[Object(d)] ELSE <<d>>
FromLibrary(s, data) ==
    LET given == {Object(data[k]) : k \in {n \in DOMAIN data : data[n] >= Reach}} IN
    IF s.answers = << >> THEN Stop(s, "call", << >>, [k \in DOMAIN data |-> ShownAs(s.mem, data[k])])
    ELSE [s EXCEPT !.value = Head(s.answers), !.answers = Tail(@), !.mem = [o \in DOMAIN @ |->
            IF o \in given THEN [c \in DOMAIN @[o] |-> Wrap(@[o][c] + 1)] ELSE @[o]]]

(* A parameter is an object of its own, but an array is the caller's.       *)
WithParam(s, param, d) ==
    IF param.array THEN With(EvalAll(s, param.dims), LAMBDA dims : Bound(dims.s, param.name, d, <<0>> \o dims.all))
    ELSE Allocated(s, param.name, << >>, <<d>>)

FromFunction(s, k, data) ==
    LET func == s.text.funcs[k]
        entered == [s EXCEPT !.scopes = <<@[1], << >>>>, !.fuel = @ - 1]
        params == [n \in DOMAIN data |-> n]
    IN  IF s.fuel = 0 THEN Stop(s, "none", << >>, << >>)
        ELSE With(Statements(Folded(LAMBDA t, n : WithParam(t, func.params[n], data[n]), entered, params), func.body),
               LAMBDA t : IF t.ctl = "stop" THEN t
                          ELSE [t EXCEPT !.scopes = s.scopes, !.ctl = "go", !.mem = SubSeq(@, 1, Len(s.mem)),
                                         !.value = IF t.ctl = "return" THEN @ ELSE 0])

EvalCall(s, e) ==
    With(EvalAll(s, e.args), LAMBDA data : Onward(data.s, LAMBDA t :
      IF e.name = 0 THEN FromLibrary(t, data.all) ELSE FromFunction(t, e.name, data.all)))

(* The right operand of && and || is evaluated only when it is asked.       *)
EvalLogic(s, e) ==
    Onward(Eval(s, e.lhs), LAMBDA a :
      IF (a.value # 0) = (e.e = "or") THEN Valued(a, Truth(e.e = "or"))
      ELSE Onward(Eval(a, e.rhs), LAMBDA b : Valued(b, Truth(b.value # 0))))

Eval(s, e) ==
    CASE e.e = "num" -> Valued(s, e.n)
      [] e.e = "var" -> Onward(Located(s, e), ReadFrom)
      [] e.e = "call" -> EvalCall(s, e)
      [] e.e = "un" -> Onward(Eval(s, e.arg), LAMBDA a :
                         IF e.op = "pos" THEN a ELSE Valued(a, Computed(e.op, a.value, 0)))
      [] e.e = "bin" -> Onward(Eval(s, e.lhs), LAMBDA a : Onward(Eval(a, e.rhs), LAMBDA b :
                          Valued(b, Computed(e.op, a.value, b.value))))
      [] OTHER -> EvalLogic(s, e)
-----------------------------------------------------------------------------
(* An item of a list goes to the next cell; one in braces of its own to the *)
(* largest part of the array that begins there.                             *)
PartAt(dims, offset) ==
    LET part(k) == SubSeq(dims, k, Len(dims)) IN
    part(Least({k \in 2..(Len(dims) + 1) : offset % Size(part(k)) = 0}))

PlaceItem(acc, item, dims, base) ==
    LET part == PartAt(dims, acc.pos - base) IN
    IF item.i = "expr" THEN [pos |-> acc.pos + 1, cells |-> [acc.cells EXCEPT ![acc.pos] = <<item.expr>>]]
    ELSE [pos |-> acc.pos + Size(part), cells |-> Placed(item, part, acc).cells]

Placed(list, dims, acc) ==
    IF dims = << >>
    THEN IF list.items = << >> THEN acc ELSE PlaceItem(acc, list.items[1], dims, acc.pos)
    ELSE Folded(LAMBDA so, item : PlaceItem(so, item, dims, acc.pos), acc, list.items)

Initialized(s, at, dims, init) ==
    LET blank == [pos |-> 1, cells |-> [k \in 1..Size(dims) |-> << >>]]
        cells == IF init.i = "expr" THEN << <<init.expr>> >> ELSE Placed(init, dims, blank).cells
        fill(t, k) ==
          Onward(t, LAMBDA u : IF cells[k] = << >> THEN u
                               ELSE Onward(Eval(u, cells[k][1]), LAMBDA v : Written(v, at + k - 1, v.value)))
    IN  Folded(fill, s, [k \in DOMAIN cells |-> k])

(* What an initialized array is not told is 0.                              *)
Declared(s, def, unset) ==
    With(EvalAll(s, def.dims), LAMBDA dims :
      LET fresh == IF def.init # << >> /\ dims.all # << >> THEN 0 ELSE unset IN
      With(Allocated(dims.s, def.name, dims.all, [c \in 1..Size(dims.all) |-> fresh]), LAMBDA t :
        IF def.init = << >> THEN t
        ELSE Initialized(t, Pointer(Len(t.mem), 0), dims.all, def.init[1])))

Assigned(s, st) ==
    Onward(Located(s, st.target), LAMBDA a : Onward(Eval(a, st.value), LAMBDA b : Written(b, a.value, b.value)))

Loop(s, st) ==
    Onward(IF s.fuel = 0 THEN Stop(s, "none", << >>, << >>) ELSE Eval([s EXCEPT !.fuel = @ - 1], st.cond), LAMBDA a :
      IF a.value = 0 THEN a
      ELSE With(Exec(a, st.body), LAMBDA b :
             CASE b.ctl = "break" -> [b EXCEPT !.ctl = "go"]
               [] b.ctl \in {"go", "continue"} -> Exec([b EXCEPT !.ctl = "go"], st)
               [] OTHER -> b))

Exec(s, st) ==
    CASE st.s = "decl" -> Declared(s, st.def, Junk)
      [] st.s = "assign" -> Assigned(s, st)
      [] st.s = "eval" -> Eval(s, st.expr)
      [] st.s = "block" -> Statements(s, st.items)
      [] st.s = "if" -> Onward(Eval(s, st.cond), LAMBDA a :
                          IF a.value # 0 THEN Exec(a, st.yes)
                          ELSE IF st.no # << >> THEN Exec(a, st.no[1]) ELSE a)
      [] st.s = "while" -> Loop(s, st)
      [] st.s = "return" -> With(EvalAll(s, st.result), LAMBDA r :
                              Onward(r.s, LAMBDA t : [t EXCEPT !.ctl = "return",
                                !.value = IF st.result = << >> THEN 0 ELSE @]))
      [] OTHER -> [s EXCEPT !.ctl = st.s]

(* What a text has come to once the library has given so many answers.      *)
TextRun(text, answers) ==
    LET blank == [text |-> text, mem |-> << >>, scopes |-> << << >> >>, ctl |-> "go", value |-> 0,
                  dims |-> << >>, fuel |-> Burst * MaxQuiet, answers |-> answers, event |-> Quiet]
        globals == Folded(LAMBDA s, def : Declared(s, def, 0), blank, text.decls)
        ended(s) == IF s.ctl = "stop" THEN s ELSE Stop(s, "return", <<s.value>>, << >>)
    IN  [event |-> With(FromFunction(globals, Main, << >>), ended).event, answers |-> answers, stack |-> << >>]
=============================================================================
