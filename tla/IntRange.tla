------------------------------ MODULE IntRange ------------------------------
(***************************************************************************)
(* The interval every value stays in, where one is known, ir/int_range.rs, *)
(* and the divisions it makes superfluous, ir/pass/range_integer.rs.  A    *)
(* range is a set: empty when nothing is known, else of one [min, max].    *)
(***************************************************************************)
EXTENDS ProgramRun

Range(min, max) == {[min |-> min, max |-> max]}
TruthRange == Range(0, 1)
Fitting(min, max) == IF min >= -Half /\ max < Half THEN Range(min, max) ELSE {}
Both(r, s) == [min |-> Least({r.min, s.min}), max |-> Greatest({r.max, s.max})]

Divisor(f, inst) == IF IsInt(f, inst.args[2]) THEN f.lit[inst.args[2]] ELSE 0

(* Mutant: a remainder is never negative.                                   *)
MutantNeverNegative(divisor, range) == Range(0, Abs(divisor) - 1)

RemainderRange(divisor, range) ==
    LET bound == Abs(divisor)
        known == range # {}
        r == CHOOSE x \in range : TRUE
    IN  CASE known /\ r.min > -bound /\ r.max < bound -> range
          [] known /\ r.min >= 0 -> Range(0, bound - 1)
          [] known /\ r.max <= 0 -> Range(-bound + 1, 0)
          [] OTHER -> Range(-bound + 1, bound - 1)

(* binary_range for two known operands.                                     *)
OperatorRange(op, a, b) ==
    LET products == {a.min * b.min, a.min * b.max, a.max * b.min, a.max * b.max} IN
    CASE op = "iadd" -> Fitting(a.min + b.min, a.max + b.max)
      [] op = "isub" -> Fitting(a.min - b.max, a.max - b.min)
      [] op = "imul" -> Fitting(Least(products), Greatest(products))
      [] op \in {"and", "or"} -> TruthRange
      [] OTHER -> {}

(* The operands an instruction's range is made of, in the order they are    *)
(* asked for; the first unknown one ends the asking.                        *)
Asked(f, inst) ==
    CASE inst.op = "imod" -> IF Divisor(f, inst) = 0 THEN << >> ELSE <<inst.args[1]>>
      [] inst.op \in {"phi"} \cup Unary \cup (Binary \ {"imod"}) -> inst.args
      [] OTHER -> << >>

InstRange(f, returns, inst, ranges) ==
    LET of(k) == CHOOSE r \in ranges[inst.args[k]] : TRUE
        known == \A v \in Uses(inst) : ranges[v] # {}
    IN  CASE inst.op = "imod" ->
               IF Divisor(f, inst) = 0 THEN {} ELSE RemainderRange(Divisor(f, inst), ranges[inst.args[1]])
          [] inst.op \in Compare \cup Cast -> TruthRange
          [] inst.op = "call" -> IF inst.name = 0 THEN {} ELSE returns[inst.name]
          [] inst.op = "phi" /\ known ->
               {Folded(LAMBDA r, k : Both(r, of(k)), of(1), [k \in DOMAIN inst.args |-> k])}
          [] inst.op = "ineg" /\ known -> Fitting(-of(1).max, -of(1).min)
          [] inst.op = "not" /\ known -> TruthRange
          [] inst.op \in Binary /\ known -> OperatorRange(inst.op, of(1), of(2))
          [] OTHER -> {}

(* value_range: st is [ranges, visiting].  A value asked for while it is    *)
(* being visited is unknown; a unary operation that gives up stays visited. *)
RECURSIVE Visited(_, _, _, _)
Visited(f, returns, st, v) ==
    LET inst == Definition(f, v)
        ask(s, u) ==
          IF s.stopped THEN s
          ELSE With(Visited(f, returns, s.st, u), LAMBDA t : [st |-> t, stopped |-> t.ranges[u] = {}])
        leave(s) ==
          IF s.stopped /\ inst.op \in Unary THEN s.st
          ELSE [ranges |-> [s.st.ranges EXCEPT ![v] = InstRange(f, returns, inst, s.st.ranges)],
                visiting |-> s.st.visiting \ {v}]
        entered == [st EXCEPT !.visiting = @ \cup {v}]
    IN  IF st.ranges[v] # {} \/ v \in st.visiting THEN st
        ELSE IF f.kind[v] = "const" THEN [st EXCEPT !.ranges[v] = Range(f.lit[v], f.lit[v])]
        ELSE IF f.kind[v] # "inst" THEN st
        ELSE With(Folded(ask, [st |-> entered, stopped |-> FALSE], Asked(f, inst)), leave)

ValueRanges(f, returns) ==
    Folded(LAMBDA st, v : Visited(f, returns, st, v),
           [ranges |-> [v \in Values(f) |-> {}], visiting |-> {}], [v \in Values(f) |-> v]).ranges

(* collect_function_return_ranges: the union over the returns of a function *)
(* all of which are known; functions found later may help the others.       *)
ReturnRanges(p) ==
    LET returned(f, ranges) ==
          LET of == [b \in {c \in Blocks(f) : IsReturn(f, c)} |-> ranges[Term(f, b).args[1]]]
              all == {CHOOSE r \in of[b] : TRUE : b \in DOMAIN of}
          IN  IF DOMAIN of = {} \/ \E b \in DOMAIN of : of[b] = {} THEN {}
              ELSE Range(Least({r.min : r \in all}), Greatest({r.max : r \in all}))
        learn(returns, k) ==
          IF p.funcs[k].ret # "int" \/ returns[k] # {} THEN returns
          ELSE With(ValueRanges(p.funcs[k], returns),
                    LAMBDA ranges : [returns EXCEPT ![k] = returned(p.funcs[k], ranges)])
    IN  Settled(LAMBDA returns : Folded(learn, returns, [k \in DOMAIN p.funcs |-> k]),
                [k \in DOMAIN p.funcs |-> {}], Len(p.funcs) + 1)
-----------------------------------------------------------------------------
(* A dividend smaller than the divisor: the remainder is the dividend, the  *)
(* quotient zero.                                                           *)
RangeSimplified(f, ranges) ==
    LET small(inst) ==
          /\ inst.op \in {"idiv", "imod"} /\ inst.result # NoValue /\ Divisor(f, inst) # 0
          /\ \E r \in ranges[inst.args[1]] : r.min > -Abs(Divisor(f, inst)) /\ r.max < Abs(Divisor(f, inst))
        sites == {s \in Sites(f) : small(At(f, s))}
        quotients == {s \in sites : At(f, s).op = "idiv"}
        g == IF quotients = {} THEN f ELSE WithConst(f, "int", 0)
        with(s) == IF s \in quotients THEN ConstOf(g, "int", 0) ELSE At(f, s).args[1]
        table == [v \in {ResultAt(f, s) : s \in sites} |-> with(SiteOf(f, v))]
    IN  IF sites = {} THEN f ELSE With(table, LAMBDA t : ReplaceSites(Rewritten(g, t), sites, Nop))

RangeIntegerSimplifyPass(p) ==
    With(ReturnRanges(p), LAMBDA returns :
        EachFunction(p, LAMBDA f : With(ValueRanges(f, returns), LAMBDA ranges : RangeSimplified(f, ranges))))
=============================================================================
