----------------------------- MODULE MCPassRun ------------------------------
(* Texts to lower and what they are put together with, then programs for    *)
(* the passes, each with passes that have work to do on it.                 *)
EXTENDS PassRun

N(n) == [e |-> "num", n |-> n]
E(name, indices) == [e |-> "var", name |-> name, indices |-> indices]
V(name) == E(name, << >>)
Fun(k, args) == [e |-> "call", name |-> k, ret |-> "int", args |-> args]
Get == Fun(0, << >>)
Un(op, a) == [e |-> "un", op |-> op, arg |-> a]
Bin(op, a, b) == [e |-> "bin", op |-> op, lhs |-> a, rhs |-> b]
Plus(a, b) == Bin("iadd", a, b)
And(a, b) == [e |-> "and", op |-> "and", lhs |-> a, rhs |-> b]
Or(a, b) == [e |-> "or", op |-> "or", lhs |-> a, rhs |-> b]

Tell(args) == [s |-> "eval", expr |-> [e |-> "call", name |-> 0, ret |-> "void", args |-> args]]
Run(k, args) == [s |-> "eval", expr |-> [e |-> "call", name |-> k, ret |-> "void", args |-> args]]
Var(name, dims, init) == [name |-> name, const |-> FALSE, dims |-> dims, init |-> init]
Fixed(name, dims, init) == [name |-> name, const |-> TRUE, dims |-> dims, init |-> init]
As(e) == [i |-> "expr", expr |-> e]
List(items) == [i |-> "list", items |-> items]
Numbers1(ns) == [k \in DOMAIN ns |-> As(N(ns[k]))]
Local(name, e) == [s |-> "decl", def |-> Var(name, << >>, <<As(e)>>)]
LocalArray(name, dims, items) == [s |-> "decl", def |-> Var(name, [k \in DOMAIN dims |-> N(dims[k])], <<List(items)>>)]
SetAt(name, indices, e) == [s |-> "assign", target |-> E(name, indices), value |-> e]
Set(name, e) == SetAt(name, << >>, e)
Step(name) == Set(name, Plus(V(name), N(1)))
Do(items) == [s |-> "block", items |-> items]
When(c, items) == [s |-> "if", cond |-> c, yes |-> Do(items), no |-> << >>]
IfElse(c, items, others) == [s |-> "if", cond |-> c, yes |-> Do(items), no |-> <<Do(others)>>]
While(c, items) == [s |-> "while", cond |-> c, body |-> Do(items)]
Break == [s |-> "break"]
Continue == [s |-> "continue"]
Give(e) == [s |-> "return", result |-> <<e>>]
Leave == [s |-> "return", result |-> << >>]

IntParam(name) == [name |-> name, array |-> FALSE, dims |-> << >>]
ArrayParam(name, dims) == [name |-> name, array |-> TRUE, dims |-> [k \in DOMAIN dims |-> N(dims[k])]]
Func(ret, params, body) == [ret |-> ret, params |-> params, body |-> body]
Text(decls, funcs) == [decls |-> decls, funcs |-> funcs]
-----------------------------------------------------------------------------
(* Loops left and continued from within, and names that hide others.        *)
Jumps ==
    Text(<<Fixed("k", << >>, <<As(Bin("imul", N(3), N(1)))>>), Var("g", << >>, <<As(Plus(V("k"), N(-1)))>>),
           Var("a", <<V("k")>>, <<List(Numbers1(<<1, 2>>))>>)>>,
      <<Func("int", << >>,
          <<Local("n", Get), Local("i", N(0)),
            While(Bin("lt", V("i"), N(4)),
              <<When(Bin("eq", V("i"), N(1)), <<Step("i"), Continue, Tell(<<N(9)>>)>>),
                When(And(V("n"), Bin("gt", V("i"), N(2))), <<Do(<<Break>>), Tell(<<N(8)>>)>>),
                Local("j", N(0)),
                While(Bin("lt", V("j"), V("k")),
                  <<When(Bin("eq", V("j"), V("i")), <<Break>>),
                    SetAt("a", <<V("j")>>, Plus(E("a", <<V("j")>>), V("i"))), Step("j")>>),
                Step("i")>>),
            Tell(<<V("a"), Fun(2, <<V("n")>>), V("i")>>),
            Give(Plus(E("a", <<N(0)>>), Fun(2, <<E("a", <<N(1)>>)>>)))>>),
        Func("int", <<IntParam("x")>>,
          <<Do(<<Local("x", N(5)), Set("g", Plus(V("g"), V("x")))>>),
            IfElse(Bin("gt", V("x"), N(2)), <<Local("y", V("x")), Set("x", Bin("imul", V("y"), N(2)))>>,
                   <<Give(V("x"))>>),
            Tell(<<V("x")>>), Give(Plus(V("x"), V("g")))>>)>>)

(* Operands of && and || that ask the library, within each other and within *)
(* arithmetic and comparisons.                                              *)
Logic ==
    Text(<< >>,
      <<Func("int", << >>,
          <<Local("n", Get), Local("b", N(4)), Local("i", N(0)),
            When(Or(And(Bin("gt", V("n"), N(1)), Bin("eq", Get, N(0))), Un("not", Get)), <<Tell(<<V("n")>>)>>),
            While(And(Bin("lt", V("i"), N(2)), Or(V("n"), Bin("ne", Get, Un("ineg", V("i"))))),
              <<Set("b", Bin("isub", V("b"), And(V("n"), Or(V("i"), N(0))))), Step("i")>>),
            Give(Plus(Plus(Un("not", V("b")), Bin("imul", Bin("lt", V("i"), Un("pos", V("b"))), N(3))),
                      Bin("eq", Or(V("b"), Get), Bin("ge", V("i"), N(1)))))>>)>>)

(* Functions that end without a return, return early, or go on after one.   *)
Ends ==
    Text(<<Var("g", << >>, << >>)>>,
      <<Func("int", << >>,
          <<Local("n", Get), Run(2, <<V("n")>>), Tell(<<V("g"), Fun(3, <<V("n")>>)>>),
            While(N(1), <<IfElse(V("n"), <<Give(V("g"))>>, <<Set("n", N(1)), Continue>>)>>)>>),
        Func("void", <<IntParam("x")>>,
          <<When(V("x"), <<Set("g", V("x")), Leave, Set("g", N(7))>>), Set("g", N(5))>>),
        Func("int", <<IntParam("x")>>,
          <<IfElse(Un("not", V("x")), <<Give(N(2))>>, <<Give(Bin("lt", N(1), V("x")))>>), Tell(<<N(6)>>)>>)>>)

(* sum(a, n) walks a caller's array, clear(a, n) a part of it.              *)
Walks ==
    Text(<<Var("g", <<N(3)>>, <<List(Numbers1(<<4, 5>>))>>)>>,
      <<Func("int", << >>,
          <<Local("n", Get), LocalArray("a", <<3>>, <<As(V("n")), List(<<As(Plus(V("n"), N(1)))>>)>>),
            Run(3, <<V("a"), N(1)>>), Run(3, <<V("g"), V("n")>>),
            Tell(<<V("a"), Fun(2, <<V("a"), N(3)>>)>>), Give(Fun(2, <<V("g"), N(2)>>))>>),
        Func("int", <<ArrayParam("p", << >>), IntParam("n")>>,
          <<When(Bin("eq", V("n"), N(0)), <<Give(N(0))>>),
            Give(Plus(E("p", <<Bin("isub", V("n"), N(1))>>), Fun(2, <<V("p"), Bin("isub", V("n"), N(1))>>)))>>),
        Func("void", <<ArrayParam("p", << >>), IntParam("n")>>,
          <<Local("i", N(0)), While(Bin("lt", V("i"), V("n")), <<SetAt("p", <<V("i")>>, V("i")), Step("i")>>)>>)>>)

(* Arrays of arrays with flat, braced, mixed and partial initializers, the  *)
(* rows given away.                                                         *)
Tables ==
    Text(<<Var("g", <<N(2), N(2)>>, <<List(<<List(Numbers1(<<1, 2>>)), List(Numbers1(<<3>>))>>)>>),
           Var("z", <<N(2), N(2)>>, <<List(<< >>)>>),
           Fixed("c", <<N(2), N(1), N(2)>>, <<List(<<List(<<List(Numbers1(<<0, 7>>))>>), List(<<List(Numbers1(<<8>>))>>)>>)>>)>>,
      <<Func("int", << >>,
          <<Local("n", Get),
            LocalArray("a", <<2, 2>>, Numbers1(<<1, 2>>) \o <<As(Get), As(N(4))>>),
            LocalArray("b", <<2, 3>>, <<List(<<As(N(1))>>), List(<<As(N(2)), As(V("n"))>>)>>),
            LocalArray("d", <<2, 2>>, Numbers1(<<5, 6>>) \o <<List(<<As(V("n"))>>)>>),
            LocalArray("t", <<2, 2, 2>>, <<List(<<List(Numbers1(<<1>>)), As(N(2)), As(V("n"))>>), As(N(3)), As(N(4))>>),
            LocalArray("s", <<2>>, << >>),
            SetAt("z", <<N(1), N(0)>>, Fun(2, <<V("a"), N(1)>>)), SetAt("s", <<N(1)>>, E("c", <<N(0), N(0), N(1)>>)),
            Tell(<<V("a"), V("b"), V("d"), V("t"), V("s")>>), Tell(<<E("g", <<N(1)>>), V("z")>>),
            Give(Plus(E("t", <<N(1), N(0), N(1)>>), Fun(2, <<E("t", <<N(0)>>), E("g", <<N(0), N(0)>>)>>)))>>),
        Func("int", <<ArrayParam("m", <<2>>), IntParam("i")>>,
          <<SetAt("m", <<V("i"), N(0)>>, Plus(E("m", <<V("i"), N(0)>>), N(1))), Give(Fun(3, <<E("m", <<V("i")>>)>>))>>),
        Func("int", <<ArrayParam("r", << >>)>>, <<Give(Plus(E("r", <<N(0)>>), E("r", <<N(1)>>)))>>)>>)

(* A table among the globals whose numbers are given without inner braces.  *)
FlatGlobal(items) ==
    Text(<<Var("c", <<N(2), N(2)>>, <<List(items)>>)>>,
      <<Func("int", << >>, <<Local("n", Get), Tell(<<V("c")>>), Give(E("c", <<N(1), N(0)>>))>>)>>)

-----------------------------------------------------------------------------
Value(kind, ty, lit) == [kind |-> kind, ty |-> ty, lit |-> lit]
P(ty) == Value("param", ty, 0)
C(n) == Value("const", "int", n)
B(n) == Value("const", "bool", n)
G(k) == Value("global", "ptr", k)
GA(k) == Value("global", "array", k)
I == Value("inst", "int", 0)
T == Value("inst", "bool", 0)
A == Value("inst", "ptr", 0)
AA == Value("inst", "array", 0)

Fn(ret, values, blocks) ==
    [kind |-> [v \in DOMAIN values |-> values[v].kind],
     ty |-> [v \in DOMAIN values |-> values[v].ty],
     lit |-> [v \in DOMAIN values |-> values[v].lit],
     params |-> Ascending({v \in DOMAIN values : values[v].kind = "param"}),
     ret |-> ret, blocks |-> blocks]

Op(op, result, args) == Operation(op, result, args)
Phi(result, from) == [op |-> "phi", result |-> result, args |-> [k \in DOMAIN from |-> from[k][2]],
                      preds |-> [k \in DOMAIN from |-> from[k][1]]]
Call(k, result, args) == [Op("call", result, args) EXCEPT !.op = "call"] @@ [name |-> k]
Slot(result, size) == Op("alloca", result, << >>) @@ [size |-> size]
Zero(v, size) == Op("memzero", 0, <<v>>) @@ [size |-> size]
Block(insts, term) == [insts |-> insts, term |-> term]
Ret(args) == [args |-> args, succ |-> << >>]
Go(to) == Jump(to)
If(v, a, b) == [args |-> <<v>>, succ |-> <<a, b>>]

Scalar(n) == [const |-> FALSE, array |-> FALSE, init |-> <<n>>]
Const(n) == [const |-> TRUE, array |-> FALSE, init |-> <<n>>]
Array(cells) == [const |-> FALSE, array |-> TRUE, init |-> cells]

Program(globals, funcs) == [globals |-> globals, funcs |-> funcs]

(* A program with some passes in every order.                               *)
InAnyOrder(program, passes) ==
    LET n == Cardinality(passes) IN
    {[prog |-> program, passes |-> s] : s \in {t \in [1..n -> passes] : Elements(t) = passes}}
InOrderOf(program, passes) == {[prog |-> program, passes |-> passes]}
-----------------------------------------------------------------------------
(* main reads n, computes n + 1 twice, on both sides of a branch and after  *)
(* it, with the operands swapped in between; the global is named twice.     *)
Sums ==
    Program(<<Scalar(2)>>,
      <<Fn("int", <<G(1), G(1), C(1), I, I, T, I, I, I, I, I>>,
           <<Block(<<Call(0, 4, << >>), Op("iadd", 5, <<4, 3>>), Op("lt", 6, <<4, 5>>)>>, If(6, 2, 3)),
             Block(<<Op("iadd", 7, <<3, 4>>), Op("store", 0, <<1, 7>>)>>, Go(4)),
             Block(<<Op("imul", 8, <<4, 4>>), Op("store", 0, <<2, 8>>)>>, Go(4)),
             Block(<<Op("load", 9, <<1>>), Op("imul", 10, <<4, 4>>), Op("iadd", 11, <<9, 10>>)>>, Ret(<<11>>))>>)>>)

(* for (i = 0; i < n; i++) { a[i] += (3n + 1) / n + 2n + 1; g += a[i]; }    *)
Walk ==
    Program(<<Array(<<5, 6, 7, 8>>), Scalar(0)>>,
      <<Fn("int", <<GA(1), G(2), C(0), C(1), C(3), I, I, T, I, I, I, I, A, I, I, I, I, I, I, I, I, C(2)>>,
           <<Block(<<Call(0, 6, << >>)>>, Go(2)),
             Block(<<Phi(7, <<<<1, 3>>, <<3, 20>>>>), Op("lt", 8, <<7, 6>>)>>, If(8, 3, 4)),
             Block(<<Op("imul", 9, <<6, 22>>), Op("iadd", 10, <<9, 4>>), Op("imul", 11, <<6, 5>>),
                     Op("iadd", 12, <<11, 4>>), Op("gep", 13, <<1, 7>>), Op("load", 14, <<13>>),
                     Op("idiv", 15, <<12, 6>>), Op("iadd", 16, <<14, 10>>), Op("iadd", 17, <<16, 15>>),
                     Op("store", 0, <<13, 17>>), Op("load", 18, <<2>>), Op("iadd", 19, <<18, 17>>),
                     Op("store", 0, <<2, 19>>), Op("iadd", 20, <<7, 4>>)>>, Go(2)),
             Block(<<Call(0, 0, <<1>>), Op("load", 21, <<2>>)>>, Ret(<<21>>))>>)>>)

(* f(p, q) { a = *p; *q = a + 1; return a + *p + g1; } is only given        *)
(* different globals, h(p, q) { a = *p; *q = a + 1; return a * *p; } one.   *)
Aliases ==
    Program(<<Scalar(2), Scalar(5)>>,
      <<Fn("int", <<G(1), G(2), I, I, I, I, I, I>>,
           <<Block(<<Call(0, 8, << >>), Op("store", 0, <<1, 8>>), Call(2, 3, <<1, 2>>), Call(2, 4, <<2, 1>>),
                     Call(3, 5, <<1, 1>>), Op("iadd", 6, <<3, 4>>), Op("iadd", 7, <<6, 5>>), Call(0, 0, <<2>>)>>,
                   Ret(<<7>>))>>),
        Fn("int", <<P("ptr"), P("ptr"), C(1), G(1), I, I, I, I, I, I>>,
           <<Block(<<Op("load", 5, <<1>>), Op("iadd", 6, <<5, 3>>), Op("store", 0, <<2, 6>>), Op("load", 7, <<1>>),
                     Op("load", 8, <<4>>), Op("iadd", 9, <<7, 8>>), Op("iadd", 10, <<9, 5>>)>>, Ret(<<10>>))>>),
        Fn("int", <<P("ptr"), P("ptr"), C(1), I, I, I, I>>,
           <<Block(<<Op("load", 4, <<1>>), Op("iadd", 5, <<4, 3>>), Op("store", 0, <<2, 5>>),
                     Op("load", 6, <<1>>), Op("imul", 7, <<4, 6>>)>>, Ret(<<7>>))>>)>>)

(* s = 0; a = g; if (n > 0) { s = a; s = g; } else { g = n; g = g; }        *)
(* print(g + s); return g;                                                  *)
Paths ==
    Program(<<Scalar(4)>>,
      <<Fn("int", <<G(1), C(0), A, I, I, T, I, I, I, I, I, I>>,
           <<Block(<<Slot(3, 1), Op("store", 0, <<3, 2>>), Call(0, 4, << >>), Op("load", 5, <<1>>),
                     Op("gt", 6, <<4, 2>>)>>, If(6, 2, 3)),
             Block(<<Op("store", 0, <<3, 5>>), Op("load", 7, <<1>>), Op("store", 0, <<3, 7>>)>>, Go(4)),
             Block(<<Op("store", 0, <<1, 4>>), Op("load", 8, <<1>>), Op("store", 0, <<1, 8>>)>>, Go(4)),
             Block(<<Op("load", 9, <<1>>), Op("load", 10, <<3>>), Op("iadd", 11, <<9, 10>>), Call(0, 0, <<11>>),
                     Op("load", 12, <<1>>)>>, Ret(<<12>>))>>)>>)

(* even and odd call each other, count calls itself and counts in g.        *)
Parity(other, atZero) ==
    Fn("int", <<P("int"), C(0), C(1), T, I, I>>,
       <<Block(<<Op("eq", 4, <<1, 2>>)>>, If(4, 2, 3)),
         Block(<< >>, Ret(<<IF atZero = 1 THEN 3 ELSE 2>>)),
         Block(<<Op("isub", 5, <<1, 3>>), Call(other, 6, <<5>>)>>, Ret(<<6>>))>>)
Count ==
    Fn("int", <<P("int"), C(0), C(1), G(1), I, I, T, I, I>>,
       <<Block(<<Op("load", 5, <<4>>), Op("iadd", 6, <<5, 3>>), Op("store", 0, <<4, 6>>), Op("eq", 7, <<1, 2>>)>>,
               If(7, 2, 3)),
         Block(<< >>, Ret(<<5>>)),
         Block(<<Op("isub", 8, <<1, 3>>), Call(4, 9, <<8>>)>>, Ret(<<9>>))>>)
Recursions ==
    Program(<<Scalar(0)>>,
      <<Fn("int", <<G(1), I, I, I, I, I, I, I, I, I, I>>,
           <<Block(<<Call(0, 2, << >>), Op("load", 3, <<1>>), Call(2, 4, <<2>>), Op("load", 5, <<1>>),
                     Call(4, 6, <<2>>), Call(2, 7, <<2>>), Call(4, 8, <<2>>), Op("iadd", 9, <<4, 7>>),
                     Op("iadd", 10, <<6, 8>>), Op("iadd", 11, <<3, 5>>), Call(0, 0, <<9>>), Call(0, 0, <<11>>)>>,
                   Ret(<<10>>))>>),
        Parity(3, 1), Parity(2, 0), Count>>)

(* f(x, acc) { if (x == 0) return acc; return f(x - 1, acc + 2 * x); } as   *)
(* lowering leaves it; h gives its own call the address of its slot.        *)
Sum ==
    Fn("int", <<P("int"), P("int"), A, A, C(0), C(1), C(2), I, T, I, I, I, I, I, I, I>>,
       <<Block(<<Slot(3, 1), Op("store", 0, <<3, 1>>), Slot(4, 1), Op("store", 0, <<4, 2>>),
                 Op("load", 8, <<3>>), Op("eq", 9, <<8, 5>>)>>, If(9, 2, 3)),
         Block(<<Op("load", 10, <<4>>)>>, Ret(<<10>>)),
         Block(<<Op("load", 11, <<3>>), Op("isub", 12, <<11, 6>>), Op("imul", 13, <<11, 7>>), Op("load", 14, <<4>>),
                 Op("iadd", 15, <<14, 13>>), Call(2, 16, <<12, 15>>)>>, Ret(<<16>>))>>)
Address ==
    Fn("int", <<P("int"), P("ptr"), A, A, C(0), T, I, I, I>>,
       <<Block(<<Slot(3, 1), Op("store", 0, <<3, 1>>), Op("eq", 6, <<1, 5>>)>>, If(6, 2, 3)),
         Block(<<Op("load", 7, <<2>>)>>, Ret(<<7>>)),
         Block(<<Op("load", 8, <<3>>), Call(3, 9, <<5, 3>>)>>, Ret(<<9>>))>>)
Tails ==
    Program(<<Scalar(1)>>,
      <<Fn("int", <<G(1), I, I, I, I>>,
           <<Block(<<Call(0, 2, << >>), Call(2, 3, <<2, 2>>), Call(3, 4, <<2, 1>>), Op("iadd", 5, <<3, 4>>),
                     Call(0, 0, <<3>>)>>, Ret(<<5>>))>>),
        Sum, Address>>)

(* f(x) { return 2 * x + 1; } with a slot nobody reads, and g(x) { return   *)
(* x < 3; }; main calls f(f(n)) and f(7), and g on both sides.              *)
Small ==
    Program(<< >>,
      <<Fn("int", <<C(7), I, I, I, T, I, I, T, I>>,
           <<Block(<<Call(0, 2, << >>), Call(2, 3, <<2>>), Call(2, 4, <<3>>), Call(3, 5, <<2>>)>>, If(5, 2, 3)),
             Block(<<Call(2, 6, <<1>>)>>, Go(4)),
             Block(<<Call(3, 8, <<3>>), Op("bool_to_i32", 9, <<8>>), Call(0, 0, <<9>>)>>, Go(4)),
             Block(<<Phi(7, <<<<2, 6>>, <<3, 4>>>>)>>, Ret(<<7>>))>>),
        Fn("int", <<P("int"), A, C(2), C(1), I, I>>,
           <<Block(<<Slot(2, 1), Op("store", 0, <<2, 1>>), Op("imul", 5, <<1, 3>>), Op("iadd", 6, <<5, 4>>)>>, Ret(<<6>>))>>),
        Fn("bool", <<P("int"), C(3), T>>, <<Block(<<Op("lt", 3, <<1, 2>>)>>, Ret(<<3>>))>>)>>)

(* pick(p, x) { return x > *p ? *p : x; } and keep(x) { g2 = x; return      *)
(* g1 + x; }, called where the successor has a phi, and in a loop.          *)
Pick ==
    Fn("int", <<P("ptr"), P("int"), I, T, I>>,
       <<Block(<<Op("load", 3, <<1>>), Op("gt", 4, <<2, 3>>)>>, If(4, 2, 3)),
         Block(<<Op("load", 5, <<1>>)>>, Ret(<<5>>)),
         Block(<< >>, Ret(<<2>>))>>)
Keep ==
    Fn("int", <<P("int"), G(1), G(2), I, I>>,
       <<Block(<<Op("store", 0, <<3, 1>>), Op("load", 4, <<2>>), Op("iadd", 5, <<4, 1>>)>>, Ret(<<5>>))>>)
Picks ==
    Program(<<Scalar(2), Scalar(9)>>,
      <<Fn("int", <<G(1), G(2), C(0), I, T, I, I, T, I, I, C(1)>>,
           <<Block(<<Call(0, 4, << >>), Op("gt", 5, <<4, 3>>)>>, If(5, 2, 3)),
             Block(<<Call(2, 6, <<1, 4>>)>>, Go(4)),
             Block(<< >>, Go(4)),
             Block(<<Phi(7, <<<<2, 6>>, <<3, 3>>, <<4, 9>>>>), Call(3, 9, <<7>>), Op("lt", 8, <<9, 4>>)>>, If(8, 4, 5)),
             Block(<<Op("load", 10, <<2>>), Call(0, 0, <<9>>)>>, Ret(<<10>>))>>),
        Pick, Keep>>)

(* fib(n), and a function that calls itself in its entry block beside dead  *)
(* code.                                                                    *)
Fib ==
    Fn("int", <<P("int"), C(2), C(1), T, I, I, I, I, I>>,
       <<Block(<<Op("lt", 4, <<1, 2>>)>>, If(4, 2, 3)),
         Block(<< >>, Ret(<<1>>)),
         Block(<<Op("isub", 5, <<1, 3>>), Call(2, 6, <<5>>), Op("isub", 7, <<1, 2>>), Call(2, 8, <<7>>),
                 Op("iadd", 9, <<6, 8>>)>>, Ret(<<9>>))>>)
Fibs ==
    Program(<< >>,
      <<Fn("int", <<I, I>>, <<Block(<<Call(0, 1, << >>), Call(2, 2, <<1>>), Call(0, 0, <<2>>)>>, Ret(<<2>>))>>), Fib>>)

(* scale(x, k) { return k == 0 ? x : x / k; } with different constants,     *)
(* shift(x, k) with one, and pow(x, k), which recurs on the constant.       *)
Scale ==
    Fn("int", <<P("int"), P("int"), C(0), T, I>>,
       <<Block(<<Op("eq", 4, <<2, 3>>)>>, If(4, 2, 3)),
         Block(<< >>, Ret(<<1>>)),
         Block(<<Op("idiv", 5, <<1, 2>>)>>, Ret(<<5>>))>>)
Shift == Fn("int", <<P("int"), P("int"), I>>, <<Block(<<Op("ishl", 3, <<1, 2>>)>>, Ret(<<3>>))>>)
Pow ==
    Fn("int", <<P("int"), P("int"), C(0), C(1), T, I, I, I>>,
       <<Block(<<Op("eq", 5, <<2, 3>>)>>, If(5, 2, 3)),
         Block(<< >>, Ret(<<4>>)),
         Block(<<Op("isub", 6, <<2, 4>>), Call(4, 7, <<1, 6>>), Op("imul", 8, <<1, 7>>)>>, Ret(<<8>>))>>)
Specials ==
    Program(<< >>,
      <<Fn("int", <<C(0), C(2), C(3), I, I, I, I, I, I, I>>,
           <<Block(<<Call(0, 4, << >>), Call(2, 5, <<4, 1>>), Call(2, 6, <<4, 2>>), Call(3, 7, <<4, 3>>),
                     Call(4, 8, <<4, 2>>), Op("iadd", 9, <<5, 6>>), Op("iadd", 10, <<7, 8>>), Call(0, 0, <<9>>)>>,
                   Ret(<<10>>))>>),
        Scale, Shift, Pow>>)

(* for (i = 0; i < 3; i++) { s = s * n + i; a[i] = s; } print(a); return s; *)
(* and the same with a division, once around.                               *)
Counted(op, bound) ==
    Program(<<Array(<<1, 2, 3>>)>>,
      <<Fn("int", <<GA(1), C(0), C(1), C(bound), I, I, I, T, I, I, A, I>>,
           <<Block(<<Call(0, 5, << >>)>>, Go(2)),
             Block(<<Phi(6, <<<<1, 2>>, <<3, 12>>>>), Phi(7, <<<<1, 4>>, <<3, 10>>>>), Op("lt", 8, <<6, 4>>)>>, If(8, 3, 4)),
             Block(<<Op(op, 9, <<7, 5>>), Op("iadd", 10, <<9, 6>>), Op("gep", 11, <<1, 6>>),
                     Op("store", 0, <<11, 10>>), Op("iadd", 12, <<6, 3>>)>>, Go(2)),
             Block(<<Call(0, 0, <<1>>)>>, Ret(<<7>>))>>)>>)

(* for (i = 0; i < n; i++) { g += even(n); } with a call of a function that *)
(* touches no memory.                                                       *)
Repeated ==
    Program(<<Scalar(0)>>,
      <<Fn("int", <<G(1), I, I, I>>,
           <<Block(<<Call(0, 2, << >>), Call(4, 3, <<2>>), Call(0, 0, <<1>>), Op("load", 4, <<1>>)>>, Ret(<<4>>))>>),
        Parity(3, 1), Parity(2, 0),
        Fn("int", <<P("int"), G(1), C(0), C(1), I, T, I, I, I, I, I>>,
           <<Block(<< >>, Go(2)),
             Block(<<Phi(5, <<<<1, 3>>, <<3, 10>>>>), Op("lt", 6, <<5, 1>>)>>, If(6, 3, 4)),
             Block(<<Op("load", 7, <<2>>), Call(2, 8, <<1>>), Op("iadd", 9, <<7, 8>>), Op("store", 0, <<2, 9>>),
                     Op("iadd", 10, <<5, 4>>)>>, Go(2)),
             Block(<<Op("load", 11, <<2>>)>>, Ret(<<11>>))>>)>>)

(* bump(x) { g1 += x; if (x == 0) return g1; g2 = 2 * g1; return g2; }      *)
Bump ==
    Fn("int", <<P("int"), G(1), G(2), C(0), C(2), I, I, T, I, I, I, I>>,
       <<Block(<<Op("load", 6, <<2>>), Op("iadd", 7, <<6, 1>>), Op("store", 0, <<2, 7>>), Op("eq", 8, <<1, 4>>)>>,
               If(8, 2, 3)),
         Block(<<Op("load", 9, <<2>>)>>, Ret(<<9>>)),
         Block(<<Op("load", 10, <<2>>), Op("imul", 11, <<10, 5>>), Op("store", 0, <<3, 11>>),
                 Op("load", 12, <<3>>)>>, Ret(<<12>>))>>)
Bumps ==
    Program(<<Scalar(1), Scalar(4), Const(5)>>,
      <<Fn("int", <<G(1), G(2), G(3), I, I, I, I, I, I>>,
           <<Block(<<Call(0, 4, << >>), Call(2, 5, <<4>>), Call(2, 6, <<5>>), Op("load", 7, <<3>>), Op("iadd", 8, <<5, 6>>),
                     Op("iadd", 9, <<7, 8>>), Call(0, 0, <<1>>)>>,
                   Ret(<<9>>))>>),
        Bump>>)

(* early(x) { a[2] = {0}; if (x == 0) return 0; a[0] = x; return a[0] +     *)
(* a[1]; }, late the same with a loop behind the guard, and full, which     *)
(* writes both cells before it reads them.                                  *)
Early ==
    Fn("int", <<P("int"), AA, C(0), C(1), T, A, A, I, I, I>>,
       <<Block(<<Slot(2, 2), Zero(2, 2), Op("eq", 5, <<1, 3>>)>>, If(5, 2, 3)),
         Block(<< >>, Ret(<<3>>)),
         Block(<<Op("gep", 6, <<2, 3>>), Op("gep", 7, <<2, 4>>), Op("store", 0, <<6, 1>>), Op("load", 8, <<6>>),
                 Op("load", 9, <<7>>), Op("iadd", 10, <<8, 9>>)>>, Ret(<<10>>))>>)
Late ==
    Fn("int", <<P("int"), AA, C(0), C(1), T, I, T, A, I, I, I, A, I, C(2)>>,
       <<Block(<<Slot(2, 2), Zero(2, 2), Op("eq", 5, <<1, 3>>)>>, If(5, 2, 3)),
         Block(<< >>, Ret(<<3>>)),
         Block(<<Phi(6, <<<<1, 3>>, <<4, 11>>>>), Op("lt", 7, <<6, 14>>)>>, If(7, 4, 5)),
         Block(<<Op("gep", 8, <<2, 6>>), Op("load", 9, <<8>>), Op("iadd", 10, <<9, 1>>), Op("store", 0, <<8, 10>>),
                 Op("iadd", 11, <<6, 4>>)>>, Go(3)),
         Block(<<Op("gep", 12, <<2, 4>>), Op("load", 13, <<12>>)>>, Ret(<<13>>))>>)
Full ==
    Fn("int", <<P("int"), AA, C(0), C(1), A, A, T, A, I, A, I, I>>,
       <<Block(<<Slot(2, 2), Zero(2, 2), Op("gep", 5, <<2, 3>>), Op("store", 0, <<5, 1>>), Op("eq", 7, <<1, 3>>)>>, If(7, 2, 3)),
         Block(<<Op("gep", 6, <<2, 4>>), Op("store", 0, <<6, 1>>)>>, Go(4)),
         Block(<<Op("gep", 8, <<2, 4>>), Op("store", 0, <<8, 4>>)>>, Go(4)),
         Block(<<Op("gep", 10, <<2, 4>>), Op("load", 9, <<5>>), Op("load", 11, <<10>>), Op("iadd", 12, <<9, 11>>)>>,
               Ret(<<12>>))>>)
Clears ==
    Program(<< >>,
      <<Fn("int", <<I, I, I, I, I, I>>,
           <<Block(<<Call(0, 1, << >>), Call(2, 2, <<1>>), Call(3, 3, <<1>>), Call(4, 4, <<1>>), Op("iadd", 5, <<2, 3>>),
                     Op("iadd", 6, <<4, 5>>), Call(0, 0, <<5>>)>>, Ret(<<6>>))>>),
        Early, Late, Full>>)

(* Arithmetic on n and on n - 2, which is negative for one answer:          *)
(* remainders asked whether they are 0, the last bit of a product, x - (x / *)
(* 5) * 5, (x / 3) / 5, (x / 100) / 100, x + x, 3 < x, 3 + x + 4, and the   *)
(* smallest number over -1, shifts by more than the width and absorbing     *)
(* operands among constants.                                                *)
Arithmetic ==
    Program(<< >>,
      <<Fn("int", <<C(0), C(1), C(2), C(3), C(5), C(-4), C(100), C(-128), C(-1), C(9),
                    I, I, I, T, I, I, I, I, I, I, I, I, I, I, T, I, I, I, I, I, I, I, I, I, I, I, I, I>>,
           <<Block(<<Call(0, 11, << >>), Op("isub", 12, <<11, 3>>),
                     Op("imod", 13, <<12, 6>>), Op("eq", 14, <<1, 13>>), Op("bool_to_i32", 15, <<14>>),
                     Op("imul", 16, <<12, 11>>), Op("iand", 17, <<16, 2>>),
                     Op("idiv", 18, <<12, 5>>), Op("imul", 19, <<18, 5>>), Op("isub", 20, <<12, 19>>),
                     Op("idiv", 21, <<12, 4>>), Op("idiv", 22, <<21, 5>>),
                     Op("idiv", 23, <<12, 7>>), Op("idiv", 24, <<23, 7>>),
                     Op("lt", 25, <<4, 12>>), Op("bool_to_i32", 26, <<25>>),
                     Op("iadd", 27, <<12, 12>>), Op("iadd", 28, <<4, 27>>), Op("iadd", 29, <<28, 6>>),
                     Op("idiv", 30, <<8, 9>>), Op("imod", 31, <<8, 9>>), Op("ishl", 32, <<4, 10>>),
                     Op("iashr", 33, <<6, 10>>), Op("iadd", 34, <<30, 31>>), Op("imul", 35, <<29, 32>>),
                     Op("iand", 36, <<9, 35>>), Op("ixor", 37, <<36, 33>>), Op("isub", 38, <<37, 34>>),
                     Call(0, 0, <<15, 17, 20, 22, 24, 26>>)>>, Ret(<<38>>))>>)>>)

(* r = n % 7; r / 9, r % 9, (r - 3) % 9, digit(n) / 10, a boolean over 2,   *)
(* and a sum in a loop, of which nothing is known.                          *)
Ranges ==
    Program(<< >>,
      <<Fn("int", <<C(0), C(1), C(2), C(3), C(7), C(9), C(10), I, I, I, I, I, I, I, I, T, I, I, I, T, I, I, I>>,
           <<Block(<<Call(0, 8, << >>), Op("imod", 9, <<8, 5>>), Op("idiv", 10, <<9, 6>>), Op("imod", 11, <<9, 6>>),
                     Op("isub", 12, <<9, 4>>), Op("imod", 13, <<12, 6>>), Call(2, 14, <<8>>), Op("idiv", 15, <<14, 7>>),
                     Op("gt", 16, <<8, 1>>), Op("bool_to_i32", 17, <<16>>), Op("imod", 18, <<17, 3>>)>>, Go(2)),
             Block(<<Phi(19, <<<<1, 1>>, <<2, 21>>>>), Op("iadd", 21, <<19, 2>>), Op("lt", 20, <<21, 5>>)>>, If(20, 2, 3)),
             Block(<<Op("imod", 22, <<21, 3>>), Call(0, 0, <<10, 11, 13, 15, 18>>)>>, Ret(<<22>>))>>),
        Fn("int", <<P("int"), C(10), C(4), T, I, I>>,
           <<Block(<<Op("lt", 4, <<1, 3>>)>>, If(4, 2, 3)),
             Block(<<Op("imod", 5, <<1, 2>>)>>, Ret(<<5>>)),
             Block(<<Op("imod", 6, <<1, 3>>)>>, Ret(<<6>>))>>)>>)

(* direct(n) { for (i = 0; i < n; i++) { a[i] += k; t += a[i] * k; t += k; }*)
(* } and through(p, n), which writes through p and is given a.              *)
Direct ==
    Fn("int", <<P("int"), GA(1), G(2), G(3), C(0), C(1), I, T, A, I, I, I, I, I, I, I, I, I, I, I>>,
       <<Block(<< >>, Go(2)),
         Block(<<Phi(7, <<<<1, 5>>, <<3, 19>>>>), Op("lt", 8, <<7, 1>>)>>, If(8, 3, 4)),
         Block(<<Op("gep", 9, <<2, 7>>), Op("load", 10, <<9>>), Op("load", 11, <<3>>), Op("iadd", 12, <<10, 11>>),
                 Op("store", 0, <<9, 12>>), Op("load", 14, <<3>>), Op("imul", 15, <<12, 14>>), Op("load", 16, <<4>>),
                 Op("iadd", 17, <<16, 15>>), Op("store", 0, <<4, 17>>), Op("load", 13, <<4>>), Op("iadd", 18, <<13, 11>>),
                 Op("store", 0, <<4, 18>>), Op("iadd", 19, <<7, 6>>)>>, Go(2)),
         Block(<<Op("load", 20, <<4>>)>>, Ret(<<20>>))>>)
Through ==
    Fn("int", <<P("ptr"), P("int"), G(2), G(3), C(0), C(1), I, T, I, I, I, I, I, I, I>>,
       <<Block(<< >>, Go(2)),
         Block(<<Phi(7, <<<<1, 5>>, <<3, 14>>>>), Op("lt", 8, <<7, 2>>)>>, If(8, 3, 4)),
         Block(<<Op("load", 9, <<3>>), Op("iadd", 10, <<9, 6>>), Op("store", 0, <<1, 10>>), Op("load", 11, <<3>>),
                 Op("load", 12, <<4>>), Op("iadd", 13, <<12, 11>>), Op("store", 0, <<4, 13>>), Op("iadd", 14, <<7, 6>>)>>,
               Go(2)),
         Block(<<Op("load", 15, <<4>>)>>, Ret(<<15>>))>>)
Regions ==
    Program(<<Array(<<5, 6, 7, 8>>), Scalar(2), Scalar(3)>>,
      <<Fn("int", <<C(0), GA(1), A, I, I, I, I>>,
           <<Block(<<Call(0, 4, << >>), Call(2, 5, <<4>>), Op("gep", 3, <<2, 1>>), Call(3, 6, <<3, 4>>),
                     Op("iadd", 7, <<5, 6>>), Call(0, 0, <<2>>)>>, Ret(<<7>>))>>),
        Direct, Through>>)

(* sweep(i, j) { for (k = 0; k op j; k++) m[i][j] += m[i][k]; } over        *)
(* m[3][4] where only a strict test keeps m[i][k] apart, triangle(n) { for  *)
(* (i = 0; i < 2; i++) for (k = i + d; k < n; k++) { m[i][1] += k; m[k][2]  *)
(* = m[k][1]; } } where only d > 0 does, and tally(n) { for (i = 0; i < n;  *)
(* i++) m[1][2]++; }.                                                       *)
Row(result, base, index) == Op("gep", result, <<base, index>>) @@ [size |-> 4]
Sweep(op) ==
    Fn("int", <<P("int"), P("int"), GA(1), C(0), C(1), AA, A, I, T, I, AA, A, I, I, I, I>>,
       <<Block(<<Row(6, 3, 1), Op("gep", 7, <<6, 2>>)>>, Go(2)),
         Block(<<Phi(8, <<<<1, 4>>, <<3, 15>>>>), Op(op, 9, <<8, 2>>)>>, If(9, 3, 4)),
         Block(<<Op("load", 10, <<7>>), Row(11, 3, 1), Op("gep", 12, <<11, 8>>), Op("load", 13, <<12>>),
                 Op("iadd", 14, <<10, 13>>), Op("store", 0, <<7, 14>>), Op("iadd", 15, <<8, 5>>)>>, Go(2)),
         Block(<<Op("load", 16, <<7>>)>>, Ret(<<16>>))>>)
Triangle(d) ==
    Fn("int", <<P("int"), GA(1), C(0), C(1), C(2), C(d), I, T, AA, A, I, I, T, I, AA, A, I, I, I, I, A>>,
       <<Block(<< >>, Go(2)),
         Block(<<Phi(7, <<<<1, 3>>, <<6, 20>>>>), Op("lt", 8, <<7, 5>>)>>, If(8, 3, 7)),
         Block(<<Row(9, 2, 7), Op("gep", 10, <<9, 4>>), Op("iadd", 11, <<7, 6>>)>>, Go(4)),
         Block(<<Phi(12, <<<<3, 11>>, <<5, 19>>>>), Op("lt", 13, <<12, 1>>)>>, If(13, 5, 6)),
         Block(<<Op("load", 14, <<10>>), Op("iadd", 18, <<14, 12>>), Op("store", 0, <<10, 18>>), Row(15, 2, 12),
                 Op("gep", 16, <<15, 4>>), Op("load", 17, <<16>>), Op("gep", 21, <<15, 5>>),
                 Op("store", 0, <<21, 17>>), Op("iadd", 19, <<12, 4>>)>>, Go(4)),
         Block(<<Op("iadd", 20, <<7, 4>>)>>, Go(2)),
         Block(<< >>, Ret(<<1>>))>>)
Tally ==
    Fn("int", <<P("int"), GA(1), C(0), C(1), C(2), I, T, AA, A, I, I, I>>,
       <<Block(<< >>, Go(2)),
         Block(<<Phi(6, <<<<1, 3>>, <<3, 12>>>>), Op("lt", 7, <<6, 1>>)>>, If(7, 3, 4)),
         Block(<<Row(8, 2, 4), Op("gep", 9, <<8, 5>>), Op("load", 10, <<9>>), Op("iadd", 11, <<10, 4>>),
                 Op("store", 0, <<9, 11>>), Op("iadd", 12, <<6, 4>>)>>, Go(2)),
         Block(<< >>, Ret(<<6>>))>>)
Sweeps ==
    Program(<<Array(<<1, 2, 3, 4, 5, 6, 7, 8, 9, 1, 2, 3>>)>>,
      <<Fn("int", <<GA(1), C(1), I, I, I, I, I, I, I, I>>,
           <<Block(<<Call(0, 3, << >>), Call(2, 4, <<2, 3>>), Call(3, 5, <<2, 3>>), Op("iadd", 9, <<4, 5>>),
                     Call(4, 6, <<3>>), Call(0, 0, <<1>>), Call(5, 7, <<3>>), Call(6, 8, <<3>>),
                     Op("iadd", 10, <<8, 9>>), Call(0, 0, <<1>>)>>, Ret(<<10>>))>>),
        Sweep("lt"), Sweep("le"), Triangle(1), Triangle(0), Tally>>)

(* ahead(n) { for (i = 0; i < n; i++) s += a[i + 1]; }, diagonal() { for (i *)
(* = 0; i < 2; i++) for (j = 0; j < 2; j++) s += a[i + j]; } and wraps() {  *)
(* for (i = 0; i <= 100; i += 64) if (i == 0) if ((c += a[i]) > 9) break; } *)
(* which comes by 0 again, from below.                                      *)
Ahead ==
    Fn("int", <<P("int"), GA(1), C(0), C(1), I, I, T, I, A, I, I>>,
       <<Block(<< >>, Go(2)),
         Block(<<Phi(5, <<<<1, 3>>, <<3, 8>>>>), Phi(6, <<<<1, 3>>, <<3, 11>>>>), Op("lt", 7, <<5, 1>>)>>, If(7, 3, 4)),
         Block(<<Op("iadd", 8, <<5, 4>>), Op("gep", 9, <<2, 8>>), Op("load", 10, <<9>>), Op("iadd", 11, <<6, 10>>)>>,
               Go(2)),
         Block(<< >>, Ret(<<6>>))>>)
Diagonal ==
    Fn("int", <<GA(1), C(0), C(1), C(2), I, I, T, I, I, T, I, A, I, I, I, I>>,
       <<Block(<< >>, Go(2)),
         Block(<<Phi(5, <<<<1, 2>>, <<6, 16>>>>), Phi(6, <<<<1, 2>>, <<6, 9>>>>), Op("lt", 7, <<5, 4>>)>>, If(7, 3, 7)),
         Block(<< >>, Go(4)),
         Block(<<Phi(8, <<<<3, 2>>, <<5, 15>>>>), Phi(9, <<<<3, 6>>, <<5, 14>>>>), Op("lt", 10, <<8, 4>>)>>, If(10, 5, 6)),
         Block(<<Op("iadd", 11, <<5, 8>>), Op("gep", 12, <<1, 11>>), Op("load", 13, <<12>>), Op("iadd", 14, <<9, 13>>),
                 Op("iadd", 15, <<8, 3>>)>>, Go(4)),
         Block(<<Op("iadd", 16, <<5, 3>>)>>, Go(2)),
         Block(<< >>, Ret(<<6>>))>>)
Wraps ==
    Fn("int", <<GA(1), C(0), C(9), C(100), C(64), I, I, T, T, A, I, I, T, I, I, I>>,
       <<Block(<< >>, Go(2)),
         Block(<<Phi(6, <<<<1, 2>>, <<5, 15>>>>), Phi(7, <<<<1, 2>>, <<5, 14>>>>), Op("le", 8, <<6, 4>>)>>, If(8, 3, 6)),
         Block(<<Op("eq", 9, <<6, 2>>)>>, If(9, 4, 5)),
         Block(<<Op("gep", 10, <<1, 6>>), Op("load", 11, <<10>>), Op("iadd", 12, <<7, 11>>), Op("gt", 13, <<12, 3>>)>>,
               If(13, 6, 5)),
         Block(<<Phi(14, <<<<3, 7>>, <<4, 12>>>>), Op("iadd", 15, <<6, 5>>)>>, Go(2)),
         Block(<<Phi(16, <<<<2, 7>>, <<4, 12>>>>)>>, Ret(<<16>>))>>)
Steppings ==
    Program(<<Array(<<5, 6, 7, 8>>)>>,
      <<Fn("int", <<I, I, I, I, I, I>>,
           <<Block(<<Call(0, 1, << >>), Call(2, 2, <<1>>), Call(3, 3, << >>), Call(4, 4, << >>), Op("iadd", 5, <<2, 3>>),
                     Op("iadd", 6, <<4, 5>>)>>, Ret(<<6>>))>>),
        Ahead, Diagonal, Wraps>>)

(* back(n) { for (i = n; i > 0; i--) s += a[i - 1]; } and, where i - 1     *)
(* begins below the least number, far() { for (i = -128; i < 10; i += 43)   *)
(* if (i > 0) s += a[i - 1]; }                                              *)
Back ==
    Fn("int", <<P("int"), GA(1), C(0), C(1), I, I, T, I, A, I, I>>,
       <<Block(<< >>, Go(2)),
         Block(<<Phi(5, <<<<1, 1>>, <<3, 8>>>>), Phi(6, <<<<1, 3>>, <<3, 11>>>>), Op("gt", 7, <<5, 3>>)>>, If(7, 3, 4)),
         Block(<<Op("isub", 8, <<5, 4>>), Op("gep", 9, <<2, 8>>), Op("load", 10, <<9>>), Op("iadd", 11, <<6, 10>>)>>,
               Go(2)),
         Block(<< >>, Ret(<<6>>))>>)
Far ==
    Fn("int", <<GA(1), C(0), C(-128), C(10), C(43), C(1), I, I, T, T, I, A, I, I, I, I>>,
       <<Block(<< >>, Go(2)),
         Block(<<Phi(7, <<<<1, 3>>, <<5, 16>>>>), Phi(8, <<<<1, 2>>, <<5, 15>>>>), Op("lt", 9, <<7, 4>>)>>, If(9, 3, 6)),
         Block(<<Op("gt", 10, <<7, 2>>)>>, If(10, 4, 5)),
         Block(<<Op("isub", 11, <<7, 6>>), Op("gep", 12, <<1, 11>>), Op("load", 13, <<12>>), Op("iadd", 14, <<8, 13>>)>>,
               Go(5)),
         Block(<<Phi(15, <<<<3, 8>>, <<4, 14>>>>), Op("iadd", 16, <<7, 5>>)>>, Go(2)),
         Block(<< >>, Ret(<<8>>))>>)
Descents ==
    Program(<<Array(<<5, 6, 7, 8>>)>>,
      <<Fn("int", <<I, I, I, I>>,
           <<Block(<<Call(0, 1, << >>), Call(2, 2, <<1>>), Call(3, 3, << >>), Op("iadd", 4, <<2, 3>>)>>, Ret(<<4>>))>>),
        Back, Far>>)

(* Functions over two slots x and y: control-flow skeletons in whose blocks *)
(* small pieces of code read, write, copy, swap and leak the slots.  A      *)
(* block that branches asks where to.  The values are the first answer, a   *)
(* one, the slots, and four more for each block.                            *)
x == 3
y == 4
Own(b, k) == 4 * b + k

Piece(name, b) ==
    LET load(k, v) == Op("load", Own(b, k), <<v>>)
        store(v, d) == Op("store", 0, <<v, d>>)
    IN  CASE name = "none" -> << >>
          [] name = "set x" -> <<store(x, 2)>>
          [] name = "set p" -> <<store(x, 1)>>
          [] name = "see x" -> <<load(1, x), Call(0, 0, <<Own(b, 1)>>)>>
          [] name = "1 - x" -> <<load(1, x), Op("isub", Own(b, 2), <<2, Own(b, 1)>>), store(x, Own(b, 2))>>
          [] name = "y = x" -> <<load(1, x), store(y, Own(b, 1))>>
          [] name = "swap" -> <<load(1, x), load(2, y), store(x, Own(b, 2)), store(y, Own(b, 1))>>
          [] name = "see, set x" -> <<load(1, x), Call(0, 0, <<Own(b, 1)>>), store(x, 1)>>
          [] name = "see both" -> <<load(1, x), load(2, y), Call(0, 0, <<Own(b, 1), Own(b, 2)>>)>>
          [] name = "leak x" -> <<Call(0, 0, <<x>>)>>
          [] name = "set both" -> <<store(x, 1), store(y, 2)>>

Skeleton(names, targets) ==
    LET ask(b) == IF Len(targets[b]) = 2 THEN <<Call(0, Own(b, 4), << >>)>> ELSE << >>
        insts(b) ==
          (IF b = 1 THEN <<Call(0, 1, << >>), Slot(x, 1), Slot(y, 1)>> ELSE << >>) \o Piece(names[b], b) \o ask(b)
        blocks == [b \in DOMAIN names |-> Block(insts(b),
                     [args |-> IF Len(targets[b]) = 2 THEN <<Own(b, 4)>> ELSE << >>, succ |-> targets[b]])]
        results == UNION {{i.result : i \in Elements(blocks[b].insts)} : b \in DOMAIN blocks}
        value(v) == IF v \in {x, y} THEN A ELSE IF v \in results THEN I ELSE C(IF v = 2 THEN 1 ELSE 0)
    IN  Program(<< >>, <<Fn("void", [v \in 1..(4 * (Len(names) + 1)) |-> value(v)], blocks)>>)

Starts == {"none", "set x", "set both"}

(* A diamond, a loop around one, a loop entered in the middle with a dead   *)
(* block that jumps into it, one block, and more blocks than the pass takes.*)
TooMany == MaxBlocks + 1
Skeletons ==
    {Skeleton(<<s, t, e, j>>, <<<<2, 3>>, <<4>>, <<4>>, << >>>>) :
        s \in Starts, t \in {"set p", "see, set x", "y = x", "swap", "leak x"},
        e \in {"none", "set x", "1 - x"}, j \in {"see x", "see both", "swap"}}
    \cup {Skeleton(<<s, h, t, "none", j, o>>, <<<<2>>, <<3, 6>>, <<4, 5>>, <<5>>, <<2>>, << >>>>) :
        s \in Starts, h \in {"none", "see x"}, t \in {"none", "1 - x", "swap", "see, set x"},
        j \in {"none", "1 - x", "swap", "y = x"}, o \in {"see both", "see x"}}
    \cup {Skeleton(<<s, t, e, o, d>>, <<<<2, 3>>, <<3>>, <<2, 4>>, << >>, <<3>>>>) :
        s \in Starts, t \in {"1 - x", "swap", "set p", "y = x"}, e \in {"none", "1 - x", "see, set x"},
        o \in {"see x", "see both"}, d \in {"none", "set x"}}
    \cup {Skeleton(<<s>>, <<<< >>>>) : s \in {"set x", "see, set x", "see x", "leak x"}}
    \cup {Skeleton([b \in 1..TooMany |-> IF b = 1 THEN "set x" ELSE IF b = TooMany THEN "see x" ELSE "none"],
                   [b \in 1..TooMany |-> IF b = TooMany THEN << >> ELSE <<b + 1>>])}

Promoted == {p \in Skeletons : Verified(p.funcs[1])}

Cases == {Sums, Walk, Aliases, Paths, Recursions, Tails, Small, Picks, Fibs, Specials, Counted("imul", 3),
          Counted("idiv", 2), Repeated, Bumps, Clears, Arithmetic, Ranges, Regions, Sweeps, Steppings, Descents}

(* The modelled passes in the order run_pipeline queues them for O1.        *)
Pipeline ==
    <<"GlobalConstPropInitialized", "GlobalWriteOnly", "ConstFold", "Dce", "TailRecursion",
      "GlobalScalarLocalize", "ScalarPromote", "LocalizeAcrossCalls", "ScalarPromote", "Dce", "SpecializeRecursive", "ConstFold",
      "SmallLoopFullUnroll", "ConstFold", "Dce", "RecursiveInline", "InlineSmallExpr", "CfgInlineMemory",
      "GlobalScalarLocalize", "ScalarPromote", "RangeIntegerSimplify", "Dce", "LocalForward", "Cse", "AffineReuse", "Licm",
      "RegionalInvariantGlobalLoad", "InvariantLoadForward", "DivisibilityOnly", "ConstFold", "Dce", "Cse",
      "LocalForward", "Cse", "InvariantLoadForward", "Dce", "LoopCallMemoize", "RegionalGlobalScalar", "ScalarPromote",
      "ConstantAddressReduction", "InstCombine", "ConstFold", "LoopMemoryPromotion", "ScalarPromote", "GepInduction",
      "Cse", "RegionalGlobalScalar", "ScalarPromote", "Dce", "Cse", "LocalForward", "InstCombine", "Cse", "Dce",
      "LocalMemzeroSink", "Dce">>

Lowered(text, passes) == [prog |-> text, passes |-> <<"Lower">> \o passes]
Texts ==
    {Lowered(text, passes) : text \in {Jumps, Logic, Ends, Walks}, passes \in {<< >>, Pipeline}}
    \cup {Lowered(Tables, passes) :
            passes \in {<< >>, <<"ScalarPromote", "ConstFold", "Cse", "Licm", "Dce">>}}

MCInputs ==
    UNION {InOrderOf(program, Pipeline) : program \in Cases}
    \cup Texts
    \cup {[prog |-> p, passes |-> <<"ScalarPromote">>] : p \in Promoted}
    \cup InAnyOrder(Walk, {"Licm", "AffineReuse", "LocalForward"})
    \cup InAnyOrder(Aliases, {"InvariantLoadForward", "LocalForward", "Cse"})
    \cup InAnyOrder(Paths, {"LocalForward", "Cse", "Dce"})
    \cup InAnyOrder(Recursions, {"LocalForward", "Cse"})
    \cup InAnyOrder(Small, {"InlineSmallExpr", "CfgInline", "ConstFold"})
    \cup InAnyOrder(Picks, {"CfgInline", "CfgInlineMemory", "LocalForward"})
    \cup InAnyOrder(Fibs, {"RecursiveInline", "Cse"})
    \cup InOrderOf(Fibs, <<"RecursiveInline", "RecursiveInline">>)
    \cup InAnyOrder(Specials, {"ConstSpecialize", "SpecializeRecursive"})
    \cup InAnyOrder(Counted("imul", 3), {"SmallLoopFullUnroll", "Licm", "ConstFold"})
    \cup InAnyOrder(Bumps, {"GlobalScalarLocalize", "GlobalConstProp", "LocalForward"})
    \cup InOrderOf(Bumps, <<"LocalForward", "GlobalWriteOnly">>)
    \cup InAnyOrder(Clears, {"LocalMemzeroSink", "ConstFold"})
    \cup InAnyOrder(Arithmetic, {"InstCombine", "DivisibilityOnly", "ConstFold"})
    \cup InAnyOrder(Ranges, {"RangeIntegerSimplify", "ConstFold", "InlineSmallExpr"})
    \cup InAnyOrder(Repeated, {"LoopCallMemoize", "LocalizeAcrossCalls", "LocalForward"})
    \cup InAnyOrder(Regions, {"RegionalInvariantGlobalLoad", "RegionalGlobalScalar", "ScalarPromote"})
    \cup InAnyOrder(Sweeps, {"LoopMemoryPromotion", "ConstantAddressReduction", "GepInduction"})
    \cup UNION {InOrderOf(program, <<"GepInduction", "Cse", "Licm">>) : program \in {Steppings, Descents}}

MCFunctionLimit == [insts |-> 24, blocks |-> 10]
MCModuleLimit == [insts |-> 40, blocks |-> 16]
MCFlatGlobals ==
    {Lowered(FlatGlobal(items), << >>) : items \in {<<List(Numbers1(<<1, 2>>)), List(Numbers1(<<3, 4>>))>>,
                                                   Numbers1(<<1, 2, 3, 4>>)}}
=============================================================================
