----------------------------- MODULE LoopRewrites -----------------------------
(***************************************************************************)
(* What is done once instead of in every iteration.                        *)
(* ir/pass/loop_call_memoize.rs: a call that touches no memory and is      *)
(* given the same arguments in every iteration is made in the first one    *)
(* only. ir/pass/small_loop_full_unroll.rs: a loop of a few known          *)
(* iterations is laid out in the block before it.                          *)
(***************************************************************************)
EXTENDS Loops

(* canonical_outer_counter: 0, 1, 2, ... while the header finds it less     *)
(* than something.                                                          *)
OuterCounters(f, loop) ==
    LET term == Term(f, loop.header)
        test == Definition(f, term.args[1])
        inside == {k \in DOMAIN term.succ : term.succ[k] \in loop.blocks}
    IN  IF ~IsBranch(f, loop.header) \/ Cardinality(inside) # 1 THEN {}
        ELSE IF test.op # "lt" THEN {}
        ELSE {i \in Inductions(f, loop, test.args[1]) : i.step = 1 /\ IsNumber(f, i.initial, 0)}

(* pointer_root_global, through geps.                                       *)
RootGlobal(f, v) ==
    LET up(u) == With(Definition(f, u), LAMBDA by : IF by.op = "gep" THEN by.args[1] ELSE u) IN
    With(Iterated(up, v, MaxRounds), LAMBDA r : IF f.kind[r] = "global" THEN {f.lit[r]} ELSE {})

(* value_is_loop_invariant: computed outside, or loaded from a global that  *)
(* nothing in the loop may write.                                           *)
InvariantValue(p, quiet, f, loop, v) ==
    LET by == Definition(f, v)
        inside == UNION {Elements(Insts(f, b)) : b \in loop.blocks}
        keeps(inst, g) ==
          CASE inst.op \in {"store", "memzero"} ->
                 With(RootGlobal(f, inst.args[1]), LAMBDA r : r # {} /\ g \notin r)
            [] inst.op = "call" -> CallsNoMemory(p, quiet, f, inst)
            [] OTHER -> TRUE
    IN  IsLoopInvariant(f, loop, v)
        \/ /\ by.op = "load" /\ f.kind[by.args[1]] = "global"
           /\ \A inst \in inside : keeps(inst, f.lit[by.args[1]])

MemoizableCalls(p, quiet, f, loop) ==
    LET latch == UniqueLatch(loop)
        fits(i) ==
          LET inst == Insts(f, latch)[i] IN
          /\ CallsNoMemory(p, quiet, f, inst)
          /\ \A v \in Uses(inst) : InvariantValue(p, quiet, f, loop, v)
    IN  IF loop.entering = NoBlock \/ latch = NoBlock THEN {}
        ELSE IF OuterCounters(f, loop) = {} THEN {}
        ELSE {i \in DOMAIN Insts(f, latch) : fits(i)}

(* apply_candidate: the latch is cut at the call; the call moves to a block *)
(* of its own, another takes the value the header's new phi remembers, and  *)
(* both go on with the rest.                                                *)
MemoizedAt(f, loop, at, counter) ==
    LET latch == UniqueLatch(loop)
        n == Len(f.blocks)
        execute == n + 1
        reuse == n + 2
        merge == n + 3
        call == Insts(f, latch)[at]
        result == call.result
        ty == f.ty[result]
        join(value, preds, args) == [Operation("phi", value, args) EXCEPT !.preds = preds]
        cut(g) ==
          LET cached == NewValue(g)
              memoized == cached + 1
              first == cached + 2
              grown == WithValue(WithValue(WithValue(g, "inst", ty, 0), "inst", ty, 0), "inst", "bool", 0)
              head == SubSeq(Insts(f, latch), 1, at - 1)
              split == [grown EXCEPT !.blocks =
                  [@ EXCEPT ![latch] = [insts |-> Append(head, Nop), term |-> @.term]]
                  \o <<[insts |-> <<call>>, term |-> Jump(merge)],
                       [insts |-> << >>, term |-> Jump(merge)],
                       [insts |-> SubSeq(Insts(f, latch), at + 1, Len(Insts(f, latch))), term |-> Term(f, latch)]>>]
              remembering == Inserted(split, loop.header, LeadingCount(split, loop.header, {"nop", "phi"}),
                  <<join(cached, <<loop.entering, merge>>, <<ConstOf(g, ty, 0), result>>)>>)
              rewritten == Rewritten(remembering, result :> memoized)
              joined == Inserted(rewritten, merge, 0, <<join(memoized, <<execute, reuse>>, <<result, cached>>)>>)
              linked == [joined EXCEPT !.blocks = [b \in DOMAIN @ |->
                  IF b \in Successors(f, latch)
                  THEN [@[b] EXCEPT !.insts = [i \in DOMAIN @ |-> HeardFromNow(@[i], latch, merge)]] ELSE @[b]]]
              asked == AppendInst(linked, latch, Operation("eq", first, <<counter.phi, counter.initial>>))
          IN  [asked EXCEPT !.blocks[latch].term = [args |-> <<first>>, succ |-> <<execute, reuse>>]]
    IN  With(WithConst(f, ty, 0), cut)

(* The first loop, and the first call in it.                                *)
MemoizeFunction(p, quiet, f) ==
    LET memoize(loops) ==
          LET found == {k \in DOMAIN loops : MemoizableCalls(p, quiet, f, loops[k]) # {}} IN
          IF found = {} THEN f
          ELSE LET loop == loops[Least(found)] IN
               With(MemoizedAt(f, loop, Least(MemoizableCalls(p, quiet, f, loop)),
                               CHOOSE c \in OuterCounters(f, loop) : TRUE), LAMBDA g : g)
    IN  IF WithinSize(f) THEN With(LoopsOf(f), memoize) ELSE f

LoopCallMemoizePass(p) ==
    IF Len(p.funcs) > MaxFunctions THEN p
    ELSE With(NoMemory(p), LAMBDA quiet : EachFunction(p, LAMBDA f : MemoizeFunction(p, quiet, f)))

-----------------------------------------------------------------------------
CONSTANTS
    MaxTrips,             \* MAX_TRIP_COUNT
    MaxCostlyTrips,       \* of a body with a call or a division
    MaxBodyInsts,         \* MAX_BODY_INSTRUCTIONS
    MaxCloned             \* MAX_CLONED_INSTRUCTIONS_PER_FUNCTION

ActiveInsts(insts) == SelectSeq(insts, LAMBDA i : i.op # "nop")
BodyOf(loop) == UniqueLatch(loop)

(* A header that tests, a body that jumps back, one way out.                *)
Canonical(f, loop) ==
    /\ loop.preheader # NoBlock /\ BodyOf(loop) # NoBlock
    /\ loop.blocks = {loop.header, BodyOf(loop)}
    /\ Cardinality(loop.exits) = 1 /\ \A e \in loop.exits : e[1] = loop.header
    /\ Term(f, BodyOf(loop)).succ = <<loop.header>>
    /\ Term(f, loop.header).succ = <<BodyOf(loop), UniqueExit(loop)>>

(* The iterations of for (i = a; i < b; i += 1), a and b constants; empty   *)
(* when it is not such a loop.                                              *)
TripCounts(f, loop) ==
    LET test == Definition(f, Term(f, loop.header).args[1]) IN
    IF test.op # "lt" THEN {}
    ELSE IF ~IsInt(f, test.args[2]) THEN {}
    ELSE {n \in {f.lit[test.args[2]] - f.lit[i.initial] :
                   i \in {j \in Inductions(f, loop, test.args[1]) : j.step = 1 /\ IsInt(f, j.initial)}} :
            n \in 0..MaxTrips}

HeaderOnlyTests(f, loop) ==
    LET insts == ActiveInsts(Insts(f, loop.header))
        cond == Term(f, loop.header).args[1]
    IN  /\ \A k \in DOMAIN insts : IsPhi(insts[k]) \/ insts[k].result = cond
        /\ \A q \in Phis(f, loop.header) :
              /\ Elements(q.preds) = {loop.preheader, BodyOf(loop)} /\ Len(q.preds) = 2
              /\ \A v \in Uses(q) : f.ty[v] = f.ty[q.result]
        /\ \E k \in DOMAIN insts : insts[k].result = cond

Costly == {"call", "idiv", "imod"}

(* The body reads the header's phis and itself, and so do the next values.  *)
BodyCloneable(f, loop, trips) ==
    LET body == BodyOf(loop)
        insts == Insts(f, body)
        active == ActiveInsts(insts)
        phis == PhiResults(f, loop.header)
        defined(n) == {insts[k].result : k \in 1..(n - 1)}
        readable(v, n) ==
          IsInst(f, v) => CASE OwnerBlock(f, v) = body -> v \in defined(n)
                            [] OwnerBlock(f, v) = loop.header -> v \in phis
                            [] OTHER -> TRUE
    IN  /\ Len(active) \in 1..MaxBodyInsts
        /\ trips > MaxCostlyTrips => \A k \in DOMAIN active : active[k].op \notin Costly
        /\ \A k \in DOMAIN active : active[k].op \notin {"phi", "alloca", "memzero"}
        /\ \A n \in DOMAIN insts : \A v \in Uses(insts[n]) : readable(v, n)
        /\ \A q \in Phis(f, loop.header) : Incoming(q, body) \in defined(Len(insts) + 1) \cup phis

(* exit_phi_values_are_mappable.                                            *)
ExitMappable(f, loop) ==
    \A q \in Phis(f, UniqueExit(loop)) :
        loop.header \in Elements(q.preds) =>
            LET v == Incoming(q, loop.header) IN
            v \in PhiResults(f, loop.header) \/ ~(IsInst(f, v) /\ OwnerBlock(f, v) = loop.header)

(* match_candidate: [loop, trips], at most one a loop.                      *)
UnrollCandidates(f, loop) ==
    IF ~Canonical(f, loop) THEN {}
    ELSE {[loop |-> loop, trips |-> n] : n \in
            {m \in TripCounts(f, loop) :
               HeaderOnlyTests(f, loop) /\ BodyCloneable(f, loop, m) /\ ExitMappable(f, loop)}}
-----------------------------------------------------------------------------
(* One iteration at the end of the preheader.  An unrolling is [f, phis,    *)
(* map]: what the phis are when it begins, and every value during it.       *)
CloneInto(preheader, source, st, inst) ==
    LET args == [k \in DOMAIN inst.args |-> Resolve(st.map, inst.args[k])]
        result == NewValue(st.f)
    IN  IF inst.result = NoValue THEN [st EXCEPT !.f = AppendInst(@, preheader, [inst EXCEPT !.args = args])]
        ELSE [st EXCEPT !.f = AppendInst(WithValue(@, "inst", source.ty[inst.result], 0), preheader,
                                         [inst EXCEPT !.args = args, !.result = result]),
                        !.map = (inst.result :> result) @@ @]

UnrollIteration(f, loop, st) ==
    LET next(v) == Incoming(Chosen(Phis(f, loop.header), LAMBDA q : q.result = v), BodyOf(loop))
        end(out) == [out EXCEPT !.phis = [v \in DOMAIN @ |-> Resolve(out.map, next(v))]]
    IN  With(Folded(LAMBDA acc, i : CloneInto(loop.preheader, f, acc, i),
                    [st EXCEPT !.map = st.phis], ActiveInsts(Insts(f, BodyOf(loop)))), end)

(* The exit hears from the preheader, and what is outside the loop takes    *)
(* the last values.                                                         *)
AfterLoop(g, loop, final) ==
    LET heard(inst) ==
          IF IsPhi(inst) /\ loop.header \in Elements(inst.preds)
          THEN [inst EXCEPT !.preds = Append(@, loop.preheader),
                            !.args = Append(@, Resolve(final, Incoming(inst, loop.header)))]
          ELSE inst
        mapped(inst) ==
          [inst EXCEPT !.args = [k \in DOMAIN @ |->
              IF IsPhi(inst) /\ inst.preds[k] \in loop.blocks THEN @[k] ELSE Resolve(final, @[k])]]
        forgotten(inst) ==
          IF ~IsPhi(inst) THEN inst
          ELSE LET kept == SelectSeq([k \in DOMAIN inst.preds |-> k], LAMBDA k : inst.preds[k] # loop.preheader) IN
               [inst EXCEPT !.preds = [j \in DOMAIN kept |-> @[kept[j]]], !.args = [j \in DOMAIN kept |-> @[kept[j]]]]
        inst(b, i) ==
          CASE b = loop.header -> forgotten(i)
            [] b \in loop.blocks -> i
            [] b = UniqueExit(loop) -> mapped(heard(i))
            [] OTHER -> mapped(i)
        term(b, t) ==
          CASE b = loop.preheader -> Jump(UniqueExit(loop))
            [] b \in loop.blocks -> t
            [] OTHER -> [t EXCEPT !.args = [k \in DOMAIN @ |-> Resolve(final, @[k])]]
    IN  [g EXCEPT !.blocks = [b \in DOMAIN @ |->
            [insts |-> [n \in DOMAIN @[b].insts |-> inst(b, @[b].insts[n])], term |-> term(b, @[b].term)]]]

Unrolled(f, c) ==
    LET initial == [v \in PhiResults(f, c.loop.header) |->
                      Incoming(Chosen(Phis(f, c.loop.header), LAMBDA q : q.result = v), c.loop.preheader)]
    IN  With(Iterated(LAMBDA st : UnrollIteration(f, c.loop, st),
                      [f |-> f, phis |-> initial, map |-> << >>], c.trips),
             LAMBDA st : AfterLoop(st.f, c.loop, st.phis))

(* The loop with the fewest iterations, the first of them; only that one is *)
(* judged by what it adds.                                                  *)
UnrollFunction(f) ==
    LET choose(loops) ==
          LET all == UNION {UnrollCandidates(f, loops[k]) : k \in DOMAIN loops}
              fewest == {c \in all : \A d \in all : c.trips <= d.trips}
              best == Chosen(fewest, LAMBDA c : \A d \in fewest : c.loop.header <= d.loop.header)
              growth == Len(ActiveInsts(Insts(f, BodyOf(best.loop)))) * best.trips
          IN  IF all = {} THEN f
              ELSE IF growth > MaxCloned \/ Len(f.kind) + growth > MaxValues THEN f
              ELSE With(best, LAMBDA c : Unrolled(f, c))
    IN  IF WithinSize(f) THEN With(LoopsOf(f), choose) ELSE f

(* Of the SimplifyCfg that follows a change, the rewrite that removes the   *)
(* loop left behind; the others are those of module SimplifyCfg.            *)
WithoutDeadBlocks(f) ==
    LET clean(live) ==
          LET kept == Ascending(live)
              number(b) == Cardinality({a \in live : a <= b})
              heard(inst) ==
                LET from == SelectSeq([k \in DOMAIN inst.preds |-> k], LAMBDA k : inst.preds[k] \in live) IN
                IF IsPhi(inst)
                THEN [inst EXCEPT !.preds = [j \in DOMAIN from |-> number(@[from[j]])],
                                  !.args = [j \in DOMAIN from |-> @[from[j]]]]
                ELSE inst
              moved(block) ==
                [insts |-> [n \in DOMAIN block.insts |-> heard(block.insts[n])],
                 term |-> [block.term EXCEPT !.succ = [k \in DOMAIN @ |-> number(@[k])]]]
          IN  [f EXCEPT !.blocks = [n \in DOMAIN kept |-> moved(@[kept[n]])]]
    IN  With(Reachable(f), clean)

SmallLoopFullUnrollPass(p) ==
    With(EachFunction(p, UnrollFunction), LAMBDA q : IF q = p THEN p ELSE EachFunction(q, WithoutDeadBlocks))
=============================================================================
