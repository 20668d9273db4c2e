------------------------------- MODULE Inline -------------------------------
(***************************************************************************)
(* Calls of functions that compute one expression, ir/pass/inline.rs: the  *)
(* callee's instructions take the place of the call.                       *)
(*                                                                         *)
(* Calls replaced by the called function's whole control flow graph,       *)
(* ir/pass/recursive_inline.rs: one level of a recursion, and small        *)
(* functions without local memory.                                         *)
(*                                                                         *)
(* Self calls in tail position become jumps, ir/pass/tail_recursion.rs:    *)
(* the arguments are stored to the slots the entry block keeps parameters  *)
(* in, and the body runs again.                                            *)
(***************************************************************************)
EXTENDS Program

CONSTANTS
    MaxInlineInsts,      \* instructions of a callee
    MaxInlined           \* instructions inlined into one function

IsScalar(ty) == ty \in {"int", "bool"}

(* Slots of scalars that are only written, never with their own address.    *)
DeadSlots(f) ==
    LET writes(i, v) == i.op = "store" /\ i.args[1] = v /\ i.args[2] # v
        dead(v) == /\ \A i \in Instructions(f) : v \in Uses(i) => writes(i, v)
                   /\ v \notin TerminatorUses(f)
    IN  {i.result : i \in {a \in Elements(Insts(f, Entry)) :
                             a.op = "alloca" /\ f.ty[a.result] = "ptr" /\ dead(a.result)}}

Discardable(inst, dead) ==
    \/ inst.op = "nop"
    \/ inst.result \in dead
    \/ inst.op = "store" /\ inst.args[1] \in dead

Kept(f) == With(DeadSlots(f), LAMBDA dead : SelectSeq(Insts(f, Entry), LAMBDA i : ~Discardable(i, dead)))

(* is_inline_candidate; that operands have the types of their operator is   *)
(* a matter of well-typed code.                                             *)
InlineCandidate(f) ==
    LET kept == Kept(f)
        known == Elements(f.params) \cup {v \in Values(f) : f.kind[v] = "const"}
        before(i) == known \cup {kept[j].result : j \in 1..(i - 1)}
    IN  /\ Len(f.blocks) = 1 /\ IsScalar(f.ret)
        /\ \A v \in Elements(f.params) : IsScalar(f.ty[v])
        /\ Len(Term(f, Entry).args) = 1
        /\ Len(Insts(f, Entry)) <= MaxValues /\ Len(kept) <= MaxInlineInsts
        /\ \A i \in DOMAIN kept :
              kept[i].op \in Unary \cup Binary \cup Compare \cup Cast /\ Uses(kept[i]) \subseteq before(i)
        /\ Term(f, Entry).args[1] \in before(Len(kept) + 1)

(* map_inline_value: a constant of the callee is found or added.  An        *)
(* expansion is [f, map, out, table, count].                                *)
Mapped(callee, acc, v) ==
    IF v \in DOMAIN acc.map THEN acc
    ELSE LET add(g) == [acc EXCEPT !.f = g, !.map = (v :> ConstOf(g, callee.ty[v], callee.lit[v])) @@ @]
         IN  With(WithConst(acc.f, callee.ty[v], callee.lit[v]), add)

CloneInst(callee, acc, inst) ==
    LET place(m) ==
          LET result == NewValue(m.f)
              clone == [inst EXCEPT !.result = result, !.args = [k \in DOMAIN @ |-> m.map[@[k]]]]
          IN  [m EXCEPT !.f = WithValue(@, "inst", callee.ty[inst.result], 0),
                        !.map = (inst.result :> result) @@ @, !.out = Append(@, clone)]
    IN  With(Folded(LAMBDA a, v : Mapped(callee, a, v), acc, inst.args), place)

CallTypesMatch(f, inst, callee) ==
    /\ Len(inst.args) = Len(callee.params) /\ f.ty[inst.result] = callee.ret
    /\ \A k \in DOMAIN inst.args : f.ty[inst.args[k]] = callee.ty[callee.params[k]]

InlineCallAt(callee, acc, inst) ==
    LET given == [v \in Elements(callee.params) |->
                    Resolve(acc.table, inst.args[CHOOSE k \in DOMAIN callee.params : callee.params[k] = v])]
        returned == Term(callee, Entry).args[1]
        cloned == Folded(LAMBDA a, i : CloneInst(callee, a, i), [acc EXCEPT !.map = given], Kept(callee))
        finish(m) ==
          [m EXCEPT !.out = Append(@, Nop), !.table = (inst.result :> m.map[returned]) @@ @,
                    !.count = @ + Len(Kept(callee))]
    IN  With(With(cloned, LAMBDA m : Mapped(callee, m, returned)), finish)

(* The candidates are the functions as they were before the pass.           *)
InlineInst(p, candidates, acc, inst) ==
    IF /\ IsCall(inst) /\ inst.result # NoValue /\ inst.name \in candidates
       /\ acc.count + Len(Kept(p.funcs[inst.name])) <= MaxInlined
       /\ CallTypesMatch(acc.f, inst, p.funcs[inst.name])
    THEN InlineCallAt(p.funcs[inst.name], acc, inst)
    ELSE [acc EXCEPT !.out = Append(@, inst)]

InlineCalls(p, candidates, f) ==
    LET block(acc, b) ==
          With(Folded(LAMBDA a, i : InlineInst(p, candidates, a, i), [acc EXCEPT !.out = << >>], Insts(f, b)),
               LAMBDA a : [a EXCEPT !.f.blocks[b].insts = a.out])
        start == [f |-> f, map |-> << >>, out |-> << >>, table |-> << >>, count |-> 0]
    IN  With(Folded(block, start, [b \in Blocks(f) |-> b]), LAMBDA a : Rewritten(a.f, a.table))

InlineSmallExprPass(p) ==
    With({k \in DOMAIN p.funcs : InlineCandidate(p.funcs[k])}, LAMBDA candidates :
        EachFunction(p, LAMBDA f : InlineCalls(p, candidates, f)))
-----------------------------------------------------------------------------
CONSTANTS
    MaxSourceBlocks, MaxGeneralBlocks,   \* of a function cloned by either pass
    MaxSourceInsts, MaxInstSlots,        \* not counting, and counting, Nops
    MaxCallsiteCost,
    FunctionLimit, GeneralLimit,         \* [insts, blocks] a caller may grow by
    ModuleLimit                          \* and all of them together

BlockCost == 2

NoGrowth == [insts |-> 0, blocks |-> 0]
Sum2(a, b) == [insts |-> a.insts + b.insts, blocks |-> a.blocks + b.blocks]
FitsIn(growth, limit) == growth.insts <= limit.insts /\ growth.blocks <= limit.blocks

LiveSites(f) == With(Reachable(f), LAMBDA live : {s \in Sites(f) : s[1] \in live})

(* One more for the phi that joins the returns, and for the block after it. *)
GrowthBy(f) ==
    [insts |-> 1 + Cardinality({s \in LiveSites(f) : At(f, s).op # "nop"}),
     blocks |-> 1 + Cardinality(Reachable(f))]
CallsiteFits(growth) == growth.insts + growth.blocks * BlockCost <= MaxCallsiteCost

ReturnsValue(f) == \E b \in Reachable(f) : IsReturn(f, b) /\ Term(f, b).args # << >>

(* call_types_match: any pointer will do for a pointer.                     *)
InlineTypesMatch(f, inst, callee) ==
    /\ Len(inst.args) = Len(callee.params) /\ f.ty[inst.result] = callee.ret
    /\ \A k \in DOMAIN inst.args :
          LET ty == callee.ty[callee.params[k]] IN
          f.ty[inst.args[k]] = ty \/ (IsPointer(f, inst.args[k]) /\ ty \in {"ptr", "array"})

(* Dead code may read what the entry defines; cutting the entry would put   *)
(* that behind the clone.                                                   *)
EntryIsFixed(f) == Reachable(f) # Blocks(f)
-----------------------------------------------------------------------------
(* A cloning is [f, map]; constants and globals of the source are found in  *)
(* the function or added to it, results get new values.                     *)
Alike(f, source, v) ==
    {u \in Values(f) : f.kind[u] = source.kind[v] /\ f.ty[u] = source.ty[v] /\ f.lit[u] = source.lit[v]}
Borrowed(source, acc, v) ==
    LET found(g) == [f |-> g, map |-> (v :> Least(Alike(g, source, v))) @@ acc.map] IN
    IF source.kind[v] \notin {"const", "global"} THEN acc
    ELSE With(IF Alike(acc.f, source, v) # {} THEN acc.f
              ELSE WithValue(acc.f, source.kind[v], source.ty[v], source.lit[v]), found)
Renewed(source, acc, v) ==
    [f |-> WithValue(acc.f, "inst", source.ty[v], 0), map |-> (v :> NewValue(acc.f)) @@ acc.map]

ValuesMapped(f, source, args) ==
    LET given == [v \in Elements(source.params) |-> args[CHOOSE k \in DOMAIN args : source.params[k] = v]]
        shared == Folded(LAMBDA acc, v : Borrowed(source, acc, v), [f |-> f, map |-> given],
                         [v \in Values(source) |-> v])
        results == {ResultAt(source, s) : s \in LiveSites(source)} \ {NoValue}
    IN  Folded(LAMBDA acc, v : Renewed(source, acc, v), shared, Ascending(results))

(* split_call_block and the rest of inline_call_site: the block is cut at   *)
(* the call, the clones come between its two halves, the returned values    *)
(* meet in a phi, and the successors hear from the second half.             *)
Spliced(f, source, s, place, g, map) ==
    LET n == Len(f.blocks)
        continuation == n + 1
        live == DOMAIN place
        call == At(f, s)
        merged == NewValue(g)
        new(args) == [k \in DOMAIN args |-> map[args[k]]]
        clone(inst) ==
          LET from == SelectSeq([k \in DOMAIN inst.preds |-> k], LAMBDA k : inst.preds[k] \in live) IN
          IF IsPhi(inst)
          THEN [inst EXCEPT !.result = map[@], !.preds = [k \in DOMAIN from |-> place[@[from[k]]]],
                            !.args = [k \in DOMAIN from |-> map[@[from[k]]]]]
          ELSE [inst EXCEPT !.args = new(@), !.result = IF @ = NoValue THEN @ ELSE map[@]]
        cloned(b) ==
          LET kept == SelectSeq(Insts(source, b), LAMBDA i : i.op # "nop")
              term == Term(source, b)
          IN  [insts |-> [k \in DOMAIN kept |-> clone(kept[k])],
               term |-> IF term.succ = << >> THEN Jump(continuation)
                        ELSE [args |-> new(term.args), succ |-> [k \in DOMAIN term.succ |-> place[term.succ[k]]]]]
        returns == Ascending({b \in live : IsReturn(source, b)})
        join == [Operation("phi", merged, [k \in DOMAIN returns |-> map[Term(source, returns[k]).args[1]]])
                   EXCEPT !.preds = [k \in DOMAIN returns |-> place[returns[k]]]]
        old(b) ==
          IF b \in Successors(f, s[1])
          THEN [f.blocks[b] EXCEPT !.insts = [k \in DOMAIN @ |-> HeardFromNow(@[k], s[1], continuation)]] ELSE f.blocks[b]
        block(b) ==
          CASE b = s[1] -> [insts |-> Append(SubSeq(old(b).insts, 1, s[2] - 1), Nop), term |-> Jump(place[Entry])]
            [] b = continuation -> [insts |-> <<join>> \o SubSeq(Insts(f, s[1]), s[2] + 1, Len(Insts(f, s[1]))),
                                    term |-> Term(f, s[1])]
            [] b > continuation -> cloned(CHOOSE c \in live : place[c] = b)
            [] OTHER -> old(b)
    IN  Rewritten([WithValue(g, "inst", source.ret, 0) EXCEPT
                     !.blocks = [b \in 1..(continuation + Cardinality(live)) |-> block(b)]],
                  call.result :> merged)

InlineCallSite(f, source, s) ==
    LET live == Reachable(source)
        place == [b \in live |-> Len(f.blocks) + 1 + Cardinality({c \in live : c <= b})]
        splice(acc) == With(place, LAMBDA at : Spliced(f, source, s, at, acc.f, acc.map))
    IN  With(ValuesMapped(f, source, At(f, s).args), splice)
-----------------------------------------------------------------------------
(* is_tail_position, of a call that TailRecursion takes care of.            *)
InTailPosition(f, s) ==
    /\ \A i \in (s[2] + 1)..Len(Insts(f, s[1])) : Insts(f, s[1])[i].op = "nop"
    /\ IsReturn(f, s[1]) /\ Term(f, s[1]).args = <<ResultAt(f, s)>>

SelfCalls(f, k) == {s \in LiveSites(f) : IsCall(At(f, s)) /\ At(f, s).name = k}
RecursiveSites(f, k) ==
    {s \in SelfCalls(f, k) : ~InTailPosition(f, s) /\ ~(s[1] = Entry /\ EntryIsFixed(f))}

RecursiveCandidate(f, k) ==
    LET cloneable(inst) ==
          inst.op \notin {"alloca", "memzero"} /\ (IsCall(inst) => inst.result # NoValue)
    IN  /\ f.ret \in {"int", "bool"} /\ Len(f.blocks) <= MaxSourceBlocks /\ Verified(f)
        /\ GrowthBy(f).insts - 1 <= MaxSourceInsts /\ ReturnsValue(f)
        /\ \A s \in LiveSites(f) : cloneable(At(f, s))
        /\ \A s \in SelfCalls(f, k) : InlineTypesMatch(f, At(f, s), f)
        /\ RecursiveSites(f, k) # {}

(* An inlining is [p, grown, total]; the source of all clones is the        *)
(* function as it was before the round, its last site goes first.           *)
InlineRecursion(source, k, acc, s) ==
    LET growth == GrowthBy(source) IN
    IF /\ CallsiteFits(growth)
       /\ FitsIn(Sum2(acc.grown[k], growth), FunctionLimit)
       /\ FitsIn(Sum2(acc.total, growth), ModuleLimit)
    THEN With(InlineCallSite(acc.p.funcs[k], source, s), LAMBDA f :
           [p |-> [acc.p EXCEPT !.funcs[k] = f],
            grown |-> [acc.grown EXCEPT ![k] = Sum2(@, growth)], total |-> Sum2(acc.total, growth)])
    ELSE acc

Downwards(s) == [k \in DOMAIN s |-> s[Len(s) + 1 - k]]

RecursiveRound(eligible, st) ==
    LET each(acc, k) ==
          LET source == st.p.funcs[k] IN
          IF RecursiveCandidate(source, k)
          THEN Folded(LAMBDA a, s : InlineRecursion(source, k, a, s), acc,
                      Downwards(InOrder(source, RecursiveSites(source, k))))
          ELSE acc
    IN  Folded(each, st, Ascending(eligible))

(* A function is decided about once in its life (decided: those that were). *)
RecursiveInlinePass(p, decided, rounds) ==
    LET eligible == {k \in DOMAIN p.funcs \ decided : RecursiveCandidate(p.funcs[k], k)}
        start == [p |-> p, grown |-> [k \in DOMAIN p.funcs |-> NoGrowth], total |-> NoGrowth]
    IN  With(eligible, LAMBDA E :
          [prog |-> Settled(LAMBDA st : RecursiveRound(E, st), start, rounds).p, decided |-> decided \cup E])
-----------------------------------------------------------------------------
(* inline_load_root: the parameter or global an address is built on.        *)
InlineRoots(f, v) ==
    LET up(u) == With(Definition(f, u), LAMBDA by : IF by.op = "gep" THEN by.args[1] ELSE u) IN
    {u \in {Iterated(up, v, MaxRounds)} : f.kind[u] \in {"param", "global"}}

ReadonlyInlineInst(f, inst, globalLoads, globalStores) ==
    \/ inst.op \in Pure \cup {"nop", "phi"}
    \/ /\ inst.op = "load"
       /\ \E u \in InlineRoots(f, inst.args[1]) : f.kind[u] = "param" \/ globalLoads
    \/ /\ inst.op = "store"
       /\ \/ globalLoads /\ f.kind[inst.args[1]] = "global"
          \/ globalStores /\ \E u \in InlineRoots(f, inst.args[1]) : f.kind[u] = "global"

GeneralCallee(f, globalLoads, globalStores) ==
    /\ f.ret \in {"int", "bool"} /\ Len(f.blocks) <= MaxGeneralBlocks /\ Verified(f)
    /\ ReturnsValue(f) /\ GrowthBy(f).insts - 1 <= MaxSourceInsts
    /\ Cardinality(LiveSites(f)) <= MaxInstSlots
    /\ \A s \in LiveSites(f) : ReadonlyInlineInst(f, At(f, s), globalLoads, globalStores)
    /\ \A b \in Reachable(f) : IsReturn(f, b) => Term(f, b).args # << >>

GeneralSites(p, candidates, k) ==
    LET f == p.funcs[k]
        fits(s) ==
          LET inst == At(f, s) IN
          /\ IsCall(inst) /\ inst.result # NoValue /\ inst.name \in candidates \ {k}
          /\ InlineTypesMatch(f, inst, p.funcs[inst.name])
          /\ ~(s[1] = Entry /\ EntryIsFixed(f))
          /\ CallsiteFits(GrowthBy(p.funcs[inst.name]))
    IN  {s \in LiveSites(f) : fits(s)}

(* A caller that would grow too much is left alone; when what remains is    *)
(* too much for the module, everything is.                                  *)
CfgInlinePass(p, globalLoads, globalStores) ==
    LET plan(candidates) ==
          LET cost(k) == Folded(LAMBDA sum, s : Sum2(sum, GrowthBy(p.funcs[At(p.funcs[k], s).name])),
                                NoGrowth, InOrder(p.funcs[k], GeneralSites(p, candidates, k)))
              planned == {k \in DOMAIN p.funcs : FitsIn(cost(k), GeneralLimit)}
              total == Folded(LAMBDA sum, k : Sum2(sum, cost(k)), NoGrowth, Ascending(planned))
              inline(k) ==
                Folded(LAMBDA f, s : InlineCallSite(f, p.funcs[At(p.funcs[k], s).name], s), p.funcs[k],
                       Downwards(InOrder(p.funcs[k], GeneralSites(p, candidates, k))))
          IN  IF ~FitsIn(total, ModuleLimit) THEN p
              ELSE [p EXCEPT !.funcs = [k \in DOMAIN @ |-> IF k \in planned THEN inline(k) ELSE @[k]]]
    IN  With({k \in DOMAIN p.funcs : GeneralCallee(p.funcs[k], globalLoads, globalStores)}, plan)
-----------------------------------------------------------------------------
UseCount(f, v) ==
    LET uses(args) == Cardinality({k \in DOMAIN args : args[k] = v}) IN
    Folded(LAMBDA n, b : n + uses(Term(f, b).args)
              + Folded(LAMBDA m, i : m + uses(i.args), 0, Insts(f, b)),
           0, [b \in Blocks(f) |-> b])

(* pointer_derived_from_alloca: through geps and phis.                      *)
FromAlloca(f, v) ==
    LET from(u) ==
          LET by == Definition(f, u) IN
          CASE by.op = "gep" -> {by.args[1]} [] by.op = "phi" -> Uses(by) [] OTHER -> {}
        grow(S) == S \cup UNION {from(u) : u \in S}
    IN  \E u \in Iterated(grow, {v}, Len(f.kind)) : Definition(f, u).op = "alloca"

(* The last instruction of a block that is not a Nop.                       *)
LastActive(f, b) ==
    LET active == {i \in DOMAIN Insts(f, b) : Insts(f, b)[i].op # "nop"} IN
    IF active = {} THEN Nop ELSE Insts(f, b)[Greatest(active)]

(* tail_self_call: the call comes last, and the return alone reads it.      *)
IsTailCall(f, k, b) ==
    LET call == LastActive(f, b) IN
    /\ IsReturn(f, b)
    /\ IsCall(call) /\ call.name = k /\ Len(call.args) = Len(f.params)
    /\ IF Term(f, b).args = << >> THEN f.ret = "void" /\ call.result = NoValue
       ELSE Term(f, b).args = <<call.result>> /\ UseCount(f, call.result) = 1

(* The address of a slot would not survive the frame's reuse.               *)
TailCallBlocks(f, k) ==
    {b \in Blocks(f) : /\ IsTailCall(f, k, b)
                       /\ \A v \in Uses(LastActive(f, b)) : IsPointer(f, v) => ~FromAlloca(f, v)}

(* collect_param_slots: the entry begins with an alloca and a store for     *)
(* each parameter.                                                          *)
Active(insts) == SelectSeq(insts, LAMBDA i : i.op # "nop")
HasParamSlots(f) ==
    LET head == Active(Insts(f, Entry)) IN
    /\ Len(head) >= 2 * Len(f.params)
    /\ \A i \in DOMAIN f.params :
          /\ head[2 * i - 1].op = "alloca"
          /\ head[2 * i].op = "store" /\ head[2 * i].args = <<head[2 * i - 1].result, f.params[i]>>
ParamSlots(f) == [i \in DOMAIN f.params |-> Active(Insts(f, Entry))[2 * i - 1].result]

(* split_entry: what reserves and fills slots stays, the rest becomes the   *)
(* block to come back to.                                                   *)
IsPrelude(f, slots, inst) ==
    \/ inst.op = "alloca"
    \/ inst.op = "store" /\ \E i \in DOMAIN slots : inst.args = <<slots[i], f.params[i]>>

LoopEntry(f) == Len(f.blocks) + 1
EntrySplit(f, slots) ==
    LET old == f.blocks[Entry]
        prelude(i) == IsPrelude(f, slots, i)
        body == [insts |-> SelectSeq(old.insts, LAMBDA i : ~prelude(i)), term |-> old.term]
        renamed(b) ==
          IF b \in Successors(f, Entry)
          THEN [f.blocks[b] EXCEPT !.insts = [i \in DOMAIN @ |-> HeardFromNow(@[i], Entry, LoopEntry(f))]] ELSE f.blocks[b]
    IN  [f EXCEPT !.blocks = Append([b \in DOMAIN @ |->
            IF b = Entry THEN [insts |-> SelectSeq(old.insts, prelude), term |-> Jump(LoopEntry(f))]
            ELSE renamed(b)], body)]

(* rewrite_tail_call: the stores follow where the call was.                 *)
TailCallRewritten(f, slots, to, b) ==
    LET insts == Insts(f, b)
        at == Greatest({i \in DOMAIN insts : insts[i].op # "nop"})
        stores == [i \in DOMAIN slots |-> Operation("store", NoValue, <<slots[i], insts[at].args[i]>>)]
        head == [insts EXCEPT ![at] = Nop]
    IN  [f EXCEPT !.blocks[b] =
            [insts |-> SubSeq(head, 1, at) \o stores \o SubSeq(head, at + 1, Len(head)), term |-> Jump(to)]]

TailRecursionRemoved(f, k) ==
    LET slots == ParamSlots(f)
        to == LoopEntry(f)
        rewrite(g) ==
          Folded(LAMBDA h, b : TailCallRewritten(h, slots, to, b), g, Ascending(TailCallBlocks(g, k)))
    IN  IF TailCallBlocks(f, k) = {} \/ ~HasParamSlots(f) THEN f
        ELSE With(EntrySplit(f, slots), rewrite)

TailRecursionPass(p) == [p EXCEPT !.funcs = [k \in DOMAIN @ |-> TailRecursionRemoved(@[k], k)]]
=============================================================================
