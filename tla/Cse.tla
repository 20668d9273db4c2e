-------------------------------- MODULE Cse ---------------------------------
(***************************************************************************)
(* Values computed twice. ir/pass/cse.rs: down the dominator tree, what is *)
(* computed again takes the value it has already; loads are no such        *)
(* expressions, calls that touch no memory are. ir/pass/affine_reuse.rs,   *)
(* at the end: k * x + c becomes ((k - 1) * x + c) + x where the latter is *)
(* available.                                                              *)
(***************************************************************************)
EXTENDS ProgramRun

(* canonicalize_global_values: one value for a global and its type.         *)
GlobalsCanonical(f) ==
    LET globals == {v \in Values(f) : f.kind[v] = "global"}
        same(v) == {w \in globals : f.lit[w] = f.lit[v] /\ f.ty[w] = f.ty[v]}
        table == [v \in {w \in globals : Least(same(w)) < w} |-> Least(same(v))]
    IN  With(table, LAMBDA t : Rewritten(f, t))

Commutative == {"iadd", "imul", "iand", "ior", "ixor", "and", "or", "eq", "ne"}
Normalized(op, args) ==
    IF op \in Commutative /\ args[2] < args[1] THEN <<args[2], args[1]>> ELSE args

IsExpression(p, quiet, f, inst) ==
    inst.result # NoValue /\ (inst.op \in Pure \/ CallsNoMemory(p, quiet, f, inst))

(* ExprKey: two instructions with one key compute one value.                *)
Key(f, inst, table) ==
    LET args == [k \in DOMAIN inst.args |-> Resolve(table, inst.args[k])] IN
    [op |-> inst.op, args |-> Normalized(inst.op, args),
     ty |-> IF inst.op = "gep" THEN f.ty[inst.result] ELSE "",
     callee |-> IF IsCall(inst) THEN inst.name ELSE 0]

(* cse_work_within_budget: an upper bound on the comparisons.               *)
TypeNodes(ty) == CASE ty = "array" -> 3 [] ty = "ptr" -> 2 [] OTHER -> 1
KeyOperands(f, inst) ==
    CASE inst.op = "gep" -> Len(inst.args) + TypeNodes(f.ty[inst.result])
      [] IsCall(inst) -> Len(inst.args) + 1
      [] OTHER -> Len(inst.args)
CseAffordable(f) ==
    LET candidates == {s \in Sites(f) : /\ At(f, s).op \in Pure \cup {"call"}
                                        /\ ResultAt(f, s) # NoValue}
        spend(acc, s) ==
          [keys |-> acc.keys + 1, operands |-> acc.operands + KeyOperands(f, At(f, s)),
           work |-> acc.work + acc.keys * (KeyOperands(f, At(f, s)) + 1)]
        total == Folded(spend, [keys |-> 0, operands |-> 0, work |-> 0], InOrder(f, candidates))
    IN  With(total, LAMBDA t : t.operands <= MaxWork /\ t.work <= MaxWork)

(* visit_dom_tree.                                                          *)
CseStep(p, quiet, dominates, st, s) ==
    LET inst == At(st.f, s)
        reuse(key) ==
          LET known == {e \in st.known : e.key = key /\ <<e.block, s[1]>> \in dominates} IN
          IF known = {}
          THEN [st EXCEPT !.known = @ \cup {[key |-> key, value |-> inst.result, block |-> s[1]]}]
          ELSE [st EXCEPT !.f = Replace(@, s, Nop),
                          !.table = (inst.result :> Resolve(@, Chosen(known, LAMBDA e : TRUE).value)) @@ @]
    IN  IF IsExpression(p, quiet, st.f, inst) THEN With(Key(st.f, inst, st.table), reuse) ELSE st

CseFunction(p, quiet, f) ==
    LET eliminate(g) ==
          LET walk(dominates) ==
                Folded(LAMBDA st, s : CseStep(p, quiet, dominates, st, s),
                       [f |-> g, table |-> << >>, known |-> {}], TreeWalk(g, dominates))
          IN  With(With(DominatorPairs(g), walk), LAMBDA st : Rewritten(st.f, st.table))
    IN  IF WithinSize(f) /\ CseAffordable(f) THEN With(GlobalsCanonical(f), eliminate) ELSE f

CsePass(p) == With(NoMemory(p), LAMBDA quiet : EachFunction(p, LAMBDA f : CseFunction(p, quiet, f)))
-----------------------------------------------------------------------------
(* Affine expressions that differ by one base.                              *)

(* A commutative operation on a constant; the right operand is asked first. *)
WithConstant(f, inst) ==
    IF IsInt(f, inst.args[2]) THEN {<<inst.args[1], f.lit[inst.args[2]]>>}
    ELSE IF IsInt(f, inst.args[1]) THEN {<<inst.args[2], f.lit[inst.args[1]]>>}
    ELSE {}

(* parse_affine_expression.                                                 *)
Affine(f, v) ==
    LET sum == Definition(f, v)
        scaled(o) == IF Definition(f, o[1]).op = "imul" THEN WithConstant(f, Definition(f, o[1])) ELSE {}
    IN  IF sum.op # "iadd" THEN {}
        ELSE UNION {{[value |-> v, base |-> m[1], coefficient |-> m[2], offset |-> o[2]] :
                       m \in {c \in scaled(o) : c[2] > 1 /\ f.ty[c[1]] = "int"}} :
                     o \in WithConstant(f, sum)}

AvailableBefore(f, previous, current) ==
    LET s == SiteOf(f, previous.value)
        t == SiteOf(f, current.value)
    IN  IF s[1] = t[1] THEN s[2] < t[2] ELSE Dominates(f, s[1], t[1])

(* The rewrites are found in the function as it was.                        *)
ReuseAffine(f) ==
    LET reusable(all, e) ==
          {d \in all : /\ d.base = e.base /\ d.offset = e.offset
                       /\ d.coefficient = e.coefficient - 1 /\ AvailableBefore(f, d, e)}
        latest(S) == Greatest({d.value : d \in S})
        rewrite(all) ==
          LET apply(g, v) ==
                LET e == Chosen(all, LAMBDA x : x.value = v)
                    previous == reusable(all, e)
                IN  IF previous = {} THEN g
                    ELSE Replace(g, SiteOf(f, v), Operation("iadd", v, <<latest(previous), e.base>>))
          IN  Folded(apply, f, Ascending({e.value : e \in all}))
    IN  IF WithinSize(f) THEN With(UNION {Affine(f, v) : v \in {w \in Values(f) : IsInst(f, w)}}, rewrite)
        ELSE f

AffineReusePass(p) == EachFunction(p, ReuseAffine)
=============================================================================
