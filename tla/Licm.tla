-------------------------------- MODULE Licm --------------------------------
(***************************************************************************)
(* Loop-invariant code motion, ir/pass/licm.rs: what a loop computes from  *)
(* values it does not change moves to the block that enters it, although   *)
(* the loop may never have come to it.                                     *)
(*                                                                         *)
(* Loads of memory a function never changes, ir/pass/invariant_load.rs     *)
(* with invariant_load/analysis.rs: of two loads of one place, the second  *)
(* takes the value of the first that dominates it.  What a parameter may   *)
(* point to is known from every call of the function in the program.       *)
(***************************************************************************)
EXTENDS Loops

SafeToHoist(inst) == inst.result # NoValue /\ inst.op \in Pure \ {"idiv", "imod"}

(* sorted_loop_blocks: the header, then the others by number.               *)
LoopSites(f, loop) ==
    LET sites(b) == [i \in DOMAIN Insts(f, b) |-> <<b, i>>] IN
    Folded(LAMBDA seq, b : seq \o sites(b), sites(loop.header), Ascending(loop.blocks \ {loop.header}))

(* collect_hoist_order: Kahn's schedule of the candidates.  An operand of   *)
(* the loop must be scheduled before, any other must reach the preheader.   *)
HoistOrder(f, loop) ==
    LET candidates == {s \in UNION {{<<b, i>> : i \in DOMAIN Insts(f, b)} : b \in loop.blocks} :
                         SafeToHoist(At(f, s))}
        inLoop(v) == IsInst(f, v) /\ OwnerBlock(f, v) \in loop.blocks
        needs(s) == {v \in Uses(At(f, s)) : inLoop(v)}
        outside(v) ==
          \/ OwnerBlock(f, v) = loop.preheader
          \/ Dominates(f, OwnerBlock(f, v), loop.preheader)
        blocked(s) == \E v \in Uses(At(f, s)) : IsInst(f, v) /\ ~inLoop(v) /\ ~outside(v)
        run(all) ==
          LET free == [k \in DOMAIN all |-> ~blocked(all[k])]
              needed == [k \in DOMAIN all |-> needs(all[k])]
              inText(S) == LET at == Ascending(S) IN [k \in DOMAIN at |-> all[at[k]]]
              ready(done) ==
                {k \in DOMAIN all : free[k] /\ all[k] \notin Elements(done)
                    /\ needed[k] \subseteq {ResultAt(f, t) : t \in Elements(done)}}
              first == inText({k \in DOMAIN all : free[k] /\ needed[k] = {}})
              (* one candidate leaves the queue, those it was the last to  *)
              (* hold back join it                                         *)
              serve(queue, n) ==
                IF n > Len(queue) THEN queue
                ELSE queue \o inText({k \in ready(SubSeq(queue, 1, n)) : all[k] \notin Elements(queue)})
          IN  Folded(serve, first, [n \in DOMAIN all |-> n])
    IN  With(SelectSeq(LoopSites(f, loop), LAMBDA s : s \in candidates), run)

Moved(f, s, to) == AppendInst(Replace(f, s, Nop), to, At(f, s))

HoistLoop(f, loop) ==
    IF loop.preheader = NoBlock THEN f
    ELSE Folded(LAMBDA g, s : Moved(g, s, loop.preheader), f, HoistOrder(f, loop))

LicmFunction(f) == IF WithinSize(f) THEN Folded(HoistLoop, f, LoopsOf(f)) ELSE f

LicmPass(p) == EachFunction(p, LicmFunction)
-----------------------------------------------------------------------------
CallsOf(p, k) == UNION {{[from |-> j, args |-> i.args] : i \in {c \in Calls(p.funcs[j]) : c.name = k}} :
                        j \in DOMAIN p.funcs}

(* MemoryRoot: a global object, a parameter by its place, or unknown.       *)
UnknownRoot == [kind |-> "unknown", of |-> 0]
MemoryRoot(p, f, v) ==
    LET up(u) == With(Definition(f, u), LAMBDA by : IF by.op = "gep" THEN by.args[1] ELSE u)
        root(r) ==
          CASE f.kind[r] = "global" /\ Len(p.funcs) <= MaxFunctions -> [kind |-> "global", of |-> f.lit[r]]
            [] f.kind[r] = "param" ->
                 [kind |-> "param", of |-> CHOOSE i \in DOMAIN f.params : f.params[i] = r]
            [] OTHER -> UnknownRoot
    IN  With(Iterated(up, v, MaxRounds), root)

(* The facts hold for a program whose calls are few enough to look at, and  *)
(* for a function that is called at all.                                    *)
AliasesKnown(p, k) ==
    LET count(n, f) == n + Cardinality({s \in Sites(f) : IsCall(At(f, s)) /\ At(f, s).name # 0}) IN
    /\ Len(p.funcs) <= MaxFunctions
    /\ Folded(count, 0, p.funcs) <= MaxEdges
    /\ CallsOf(p, k) # {}

(* disjoint_param_pairs: every call passes two different globals.           *)
DisjointParams(p, k, i, j) ==
    /\ AliasesKnown(p, k)
    /\ \A c \in CallsOf(p, k) :
         LET root(a) == MemoryRoot(p, p.funcs[c.from], c.args[a]) IN
         root(i).kind = "global" /\ root(j).kind = "global" /\ root(i) # root(j)

(* param_global_roots: every call passes a global, never that one.          *)
NeverPassed(p, k, i, g) ==
    /\ AliasesKnown(p, k)
    /\ \A c \in CallsOf(p, k) :
         LET root == MemoryRoot(p, p.funcs[c.from], c.args[i]) IN
         root.kind = "global" /\ root.of # g

AreDisjoint(p, k, a, b) ==
    \/ a.kind = "global" /\ b.kind = "global" /\ a # b
    \/ a.kind = "param" /\ b.kind = "param" /\ a # b /\ DisjointParams(p, k, a.of, b.of)
    \/ a.kind = "param" /\ b.kind = "global" /\ NeverPassed(p, k, a.of, b.of)
    \/ a.kind = "global" /\ b.kind = "param" /\ NeverPassed(p, k, b.of, a.of)

(* A pointer loaded from that no write of the function may go through.      *)
ReadOnlyPointers(p, k) ==
    LET f == p.funcs[k]
        addressed(ops) == {i.args[1] : i \in {j \in Instructions(f) : j.op \in ops}}
        writes == {MemoryRoot(p, f, v) : v \in addressed({"store", "memzero"})}
    IN  {v \in addressed({"load"}) :
           With(MemoryRoot(p, f, v), LAMBDA r : \A w \in writes : AreDisjoint(p, k, r, w))}

(* visit_dom_tree: an exact pointer, or a global whatever value names it.   *)
Location(p, f, v) ==
    IF f.kind[v] = "global" /\ MemoryRoot(p, f, v).kind = "global"
    THEN MemoryRoot(p, f, v) ELSE [kind |-> "exact", of |-> v]

LoadVisit(p, dominates, readonly, st, s) ==
    LET inst == At(st.f, s)
        visit(place) ==
          LET known == {e \in st.known : e.place = place /\ <<e.block, s[1]>> \in dominates} IN
          IF known = {}
          THEN [st EXCEPT !.known = @ \cup {[place |-> place, value |-> inst.result, block |-> s[1]]}]
          ELSE [st EXCEPT !.f = Replace(@, s, Nop),
                          !.table = (inst.result :> Chosen(known, LAMBDA e : TRUE).value) @@ @]
    IN  IF inst.op = "load" /\ inst.args[1] \in readonly
        THEN With(Location(p, st.f, inst.args[1]), visit) ELSE st

(* A call rejects the whole function.                                       *)
ForwardInvariantLoads(p, k) ==
    LET f == p.funcs[k]
        walk(readonly) ==
          With(DominatorPairs(f), LAMBDA dominates :
            Folded(LAMBDA st, s : LoadVisit(p, dominates, readonly, st, s),
                   [f |-> f, table |-> << >>, known |-> {}], TreeWalk(f, dominates)))
    IN  IF ~WithinSize(f) \/ Calls(f) # {} THEN f
        ELSE With(With(ReadOnlyPointers(p, k), walk), LAMBDA st : Rewritten(st.f, st.table))

(* The facts are those of the program before the pass.                      *)
InvariantLoadForwardPass(p) ==
    [p EXCEPT !.funcs = [k \in DOMAIN @ |-> ForwardInvariantLoads(p, k)]]
=============================================================================
