----------------------------- MODULE LoopMemory -----------------------------
(***************************************************************************)
(* Memory and addresses of loops.                                          *)
(* ir/pass/loop_memory_promotion.rs: an array element a loop reads and     *)
(* writes lives in a slot while it runs, when no other access of the loop  *)
(* can be to the same element.                                             *)
(* ir/pass/constant_address_reduction.rs: n times adding one to a place is *)
(* adding n once.                                                          *)
(* ir/pass/gep_induction.rs: an address that moves by the same distance in *)
(* every iteration is stepped instead of computed.                         *)
(***************************************************************************)
EXTENDS Loops

SitesIn(f, loop, ops) == {s \in Sites(f) : s[1] \in loop.blocks /\ At(f, s).op \in ops}
AddressAt(f, s) == At(f, s).args[1]

(* value_available_at.                                                      *)
ReadyAt(f, v, b) ==
    IsInst(f, v) => LET owner == OwnerBlock(f, v) IN owner = b \/ Dominates(f, owner, b)

(* access_path: where an address starts and the indices that lead on from   *)
(* there; an address without an index has no path.                          *)
AccessPaths(f, v) ==
    LET up(path) ==
          With(Definition(f, path.root), LAMBDA by :
            IF by.op = "gep" THEN [root |-> by.args[1], indices |-> Tail(by.args) \o path.indices] ELSE path)
    IN  {path \in {Settled(up, [root |-> v, indices |-> << >>], Len(f.kind))} :
           path.indices # << >> /\ ~IsConst(f, path.root)}

IsSlot(f, v) == Definition(f, v).op = "alloca"

RootsDisjoint(f, a, b) ==
    \/ f.kind[a] = "global" /\ f.kind[b] = "global" /\ f.lit[a] # f.lit[b]
    \/ IsSlot(f, a) \/ IsSlot(f, b)

(* affine_delta: what has to be added to base to get v.                     *)
Delta(f, v, base) ==
    LET by == Definition(f, v) IN
    IF v = base THEN {0}
    ELSE {f.lit[c] : c \in {a \in Uses(by) : IsInt(f, a) /\ by.op = "iadd" /\ by.args \in {<<base, a>>, <<a, base>>}}}
      \cup ({-f.lit[c] : c \in {a \in Uses(by) : IsInt(f, a) /\ by.op = "isub" /\ by.args = <<base, a>>}} \cap Words)

(* enclosing_induction_range: the least and the greatest value a loop       *)
(* around the block gives v, in each loop that steps it.                    *)
Span(a, b) == [min |-> Least({a, b}), max |-> Greatest({a, b})]
RunningAt(f, loop, v, b) == b \in loop.blocks /\ \E t \in ActiveTests(f, loop, v) : Dominates(f, t.taken, b)
EnclosingRanges(f, loops, v, b) ==
    LET last(i, count) == f.lit[i.initial] + i.step * (count - 1) IN
    UNION {UNION {{Span(f.lit[i.initial], last(i, n)) : n \in TripCount(f, loop, i) \ {0}} :
                  i \in Inductions(f, loop, v)} :
           loop \in {l \in Elements(loops) : RunningAt(f, l, v, b)}}

(* indices_proven_distinct: the header has just told them apart, or the     *)
(* loop began above the one index and only went up from there.              *)
IndicesDistinct(f, loop, loops, induction, target, other, b) ==
    \E t \in ActiveTests(f, loop, induction.phi) :
        /\ Dominates(f, t.taken, b)
        /\ \/ {target, other} = {t.bound, induction.phi} /\ t.op \in {"lt", "gt"}
           \/ /\ t.op = "lt" /\ induction.step = 1
              /\ \E from \in Delta(f, induction.initial, target), ahead \in Delta(f, other, induction.phi) :
                    /\ from > 0 /\ ahead \in {0, 1}
                    /\ \E r \in EnclosingRanges(f, loops, target, b) : {r.min + from, r.max + from} \subseteq Words

PathsDisjoint(f, loop, loops, induction, target, other, b) ==
    IF target.root # other.root THEN RootsDisjoint(f, target.root, other.root)
    ELSE /\ Len(target.indices) = Len(other.indices)
         /\ \E k \in DOMAIN target.indices :
               /\ target.indices[k] # other.indices[k]
               /\ IndicesDistinct(f, loop, loops, induction, target.indices[k], other.indices[k], b)

(* A header that only tests, left from nowhere else, for an exit that       *)
(* takes no values from it.                                                 *)
Guarded(f, loop) ==
    /\ loop.preheader # NoBlock /\ UniqueLatch(loop) # NoBlock
    /\ Term(f, loop.preheader).succ = <<loop.header>>
    /\ Cardinality(loop.exits) = 1 /\ \A e \in loop.exits : e[1] = loop.header
    /\ \A inst \in Elements(Insts(f, loop.header)) : inst.op \in Compare \cup {"nop", "phi"}
    /\ Phis(f, UniqueExit(loop)) = {}
    /\ SitesIn(f, loop, {"call", "memzero"}) = {}

(* loop_definitions_do_not_escape.                                          *)
NothingEscapes(f, loop) ==
    LET defined == UNION {Results(f, b) : b \in loop.blocks} IN
    \A b \in Blocks(f) \ loop.blocks :
        defined \cap (Elements(Term(f, b).args) \cup UNION {Uses(i) : i \in Elements(Insts(f, b))}) = {}

(* header_induction: of the first phi that has one.                         *)
HeaderInductions(f, loop) ==
    LET insts == Insts(f, loop.header)
        with == {n \in DOMAIN insts : insts[n].result # NoValue /\ Inductions(f, loop, insts[n].result) # {}}
    IN  IF with = {} THEN {} ELSE Inductions(f, loop, insts[Least(with)].result)

(* The accesses of a loop to one path, when all others are elsewhere and    *)
(* the first block after the test is sure to read it.                       *)
OnlyThere(f, loop, loops, induction, test, accesses, paths, v) ==
    LET same == {s \in accesses : paths[AddressAt(f, s)] = paths[v]} IN
    \E path \in paths[v] :
       /\ Len(path.indices) >= 2 /\ ~IsSlot(f, path.root)
       /\ {At(f, s).op : s \in same} = {"load", "store"}
       /\ \E s \in same : At(f, s).op = "load" /\ s[1] = test.taken
       /\ \A s \in accesses \ same : \E other \in paths[AddressAt(f, s)] :
             PathsDisjoint(f, loop, loops, induction, path, other, s[1])

Promotable(f, loop, loops, induction, test, accesses) ==
    LET steady(v) == f.ty[v] = "ptr" /\ IsLoopInvariant(f, loop, v) /\ ReadyAt(f, v, loop.preheader) IN
    With([v \in {AddressAt(f, s) : s \in accesses} |-> AccessPaths(f, v)], LAMBDA paths :
         {s \in accesses : /\ steady(AddressAt(f, s))
                           /\ OnlyThere(f, loop, loops, induction, test, accesses, paths, AddressAt(f, s))})

(* find_candidate within one loop: [loop, pointer, initial, test], the      *)
(* pointers in the order of the loop's blocks.                              *)
PromotionsIn(f, loop, loops) ==
    LET ready(i, t) ==
          /\ ReadyAt(f, i.initial, loop.preheader) /\ ReadyAt(f, t.bound, loop.preheader)
          /\ NothingEscapes(f, loop)
        candidate(sites, i, t) ==
          [loop |-> loop, pointer |-> AddressAt(f, InOrder(f, sites)[1]), initial |-> i.initial, test |-> t]
        tests(i) == {t \in ActiveTests(f, loop, i.phi) : ready(i, t)}
    IN  IF ~Guarded(f, loop) THEN {}
        ELSE UNION {UNION {{candidate(sites, i, t) :
                             sites \in {Promotable(f, loop, loops, i, t, SitesIn(f, loop, {"load", "store"}))} \ {{}}} :
                           t \in tests(i)} : i \in HeaderInductions(f, loop)}

(* promote_candidate: the preheader asks whether the loop will run at all,  *)
(* one new block loads the element, another stores it back.                 *)
InSlot(f, c) ==
    LET loop == c.loop
        slot == NewValue(f)
        guard == slot + 1
        initial == slot + 2
        final == slot + 3
        initialize == Len(f.blocks) + 1
        flush == initialize + 1
        exit == UniqueExit(loop)
        same == {s \in SitesIn(f, loop, {"load", "store"}) : AccessPaths(f, AddressAt(f, s)) = AccessPaths(f, c.pointer)}
        valued ==
          WithValue(WithValue(WithValue(WithValue(f, "inst", "ptr", 0), "inst", "bool", 0), "inst", "int", 0),
                    "inst", "int", 0)
        inst(b, n, i) ==
          CASE <<b, n>> \in same -> [i EXCEPT !.args[1] = slot]
            [] b = loop.header -> HeardFromNow(i, loop.preheader, initialize)
            [] OTHER -> i
        opening == <<Operation("alloca", slot, << >>) @@ [size |-> 1],
                     Operation(c.test.op, guard, <<c.initial, c.test.bound>>)>>
        term(b, t) ==
          CASE b = loop.preheader -> [args |-> <<guard>>, succ |-> <<initialize, exit>>]
            [] b = loop.header -> [t EXCEPT !.succ = [k \in DOMAIN @ |-> IF @[k] = exit THEN flush ELSE @[k]]]
            [] OTHER -> t
        block(b, old) ==
          [insts |-> [n \in DOMAIN old.insts |-> inst(b, n, old.insts[n])]
                     \o (IF b = loop.preheader THEN opening ELSE << >>),
           term |-> term(b, old.term)]
    IN  [valued EXCEPT !.blocks = [b \in DOMAIN @ |-> block(b, @[b])] \o
          <<[insts |-> <<Operation("load", initial, <<c.pointer>>), Operation("store", NoValue, <<slot, initial>>)>>,
             term |-> Jump(loop.header)],
            [insts |-> <<Operation("load", final, <<slot>>), Operation("store", NoValue, <<c.pointer, final>>)>>,
             term |-> Jump(exit)]>>]

CONSTANT MaxPromotions     \* MAX_PROMOTIONS_PER_FUNCTION

(* The first loop that has a candidate.                                     *)
PromoteIn(f, loops, g, loop) ==
    IF g # f THEN g
    ELSE With(PromotionsIn(f, loop, loops), LAMBDA cs :
           IF cs = {} THEN f ELSE InSlot(f, CHOOSE c \in cs : TRUE))

PromoteElements(f) ==
    IF ~WithinSize(f) \/ Calls(f) # {} THEN f
    ELSE With(LoopsOf(f), LAMBDA loops : Folded(LAMBDA g, loop : PromoteIn(f, loops, g, loop), f, loops))

LoopMemoryPromotionPass(p) == EachFunction(p, LAMBDA f : Settled(PromoteElements, f, MaxPromotions))
-----------------------------------------------------------------------------
(* loop_invariant_value: computed outside, or an address of such values.    *)
InvariantAddress(f, loop, v) ==
    LET inside(u) == ~IsLoopInvariant(f, loop, u)
        grow(S) == S \cup UNION {IF inside(u) THEN Uses(Definition(f, u)) ELSE {} : u \in S}
    IN  With(Iterated(grow, {v}, MaxRounds), LAMBDA all :
          grow(all) = all /\ \A u \in all : inside(u) => Definition(f, u).op = "gep")

(* match_candidate: for (i = 0; i < bound; i++) place++;  of the body, in   *)
(* this order, a load, the addition of one to it and the store back.        *)
Increments(f, loop) ==
    LET body == UniqueLatch(loop)
        insts == Insts(f, body)
        header == SelectSeq(Insts(f, loop.header), LAMBDA i : i.op # "nop")
        test == header[2]
        counts(i) == \E c \in Inductions(f, loop, test.args[1]) :
                        c.step = 1 /\ IsNumber(f, c.initial, 0) /\ i.result = c.next /\ i.op = "iadd"
        addsOne(i, v) ==
          /\ i.op = "iadd"
          /\ \E c \in Uses(i) : IsNumber(f, c, 1) /\ i.args \in {<<v, c>>, <<c, v>>}
        work == {n \in DOMAIN insts : insts[n].op \notin {"nop", "gep"} /\ ~counts(insts[n])}
        steps == Ascending(work)
        increments ==
          LET load == insts[steps[1]]
              add == insts[steps[2]]
              store == insts[steps[3]]
          IN  /\ load.op = "load" /\ InvariantAddress(f, loop, load.args[1])
              /\ addsOne(add, load.result)
              /\ store.op = "store" /\ store.args = <<load.args[1], add.result>>
    IN  IF /\ Cardinality(loop.blocks) = 2 /\ loop.preheader # NoBlock
           /\ body \notin {NoBlock, loop.header} /\ UniqueExit(loop) # NoBlock
           /\ Term(f, body).succ = <<loop.header>>
           /\ Term(f, loop.header).succ = <<body, UniqueExit(loop)>>
           /\ Len(header) = 2 /\ IsPhi(header[1])
           /\ test.op = "lt" /\ Term(f, loop.header).args = <<test.result>> /\ test.args[1] = header[1].result
           /\ f.ty[test.args[2]] = "int" /\ InvariantAddress(f, loop, test.args[2])
           /\ \E i \in Elements(insts) : counts(i)
           /\ Len(steps) = 3 /\ increments
        THEN {[header |-> loop.header, body |-> body, update |-> steps[2],
               loaded |-> insts[steps[1]].result, bound |-> test.args[2]]}
        ELSE {}

(* The first iteration adds the bound and goes on as if it were the last.   *)
AddedAtOnce(f, c) ==
    LET leave(inst) ==
          IF IsPhi(inst)
          THEN [inst EXCEPT !.args = [k \in DOMAIN @ |-> IF inst.preds[k] = c.body THEN c.bound ELSE @[k]]] ELSE inst
    IN  [f EXCEPT !.blocks[c.body].insts[c.update].args = <<c.loaded, c.bound>>,
                  !.blocks[c.header].insts = [n \in DOMAIN @ |-> leave(@[n])]]

ReduceFunction(f) ==
    LET reduce(g, loop) ==
          With(Increments(f, loop), LAMBDA cs : IF cs = {} THEN g ELSE AddedAtOnce(g, Chosen(cs, LAMBDA c : TRUE)))
        collect(loops) == Folded(reduce, f, loops)
    IN  IF WithinSize(f) THEN With(LoopsOf(f), collect) ELSE f

ConstantAddressReductionPass(p) == EachFunction(p, ReduceFunction)
-----------------------------------------------------------------------------
CONSTANTS
    MaxCandidates,     \* MAX_CANDIDATES, a function with as many is left alone
    MaxNewValues       \* MAX_NEW_VALUES

(* affine_induction_offset: what is added to phi, a number or a value.      *)
Offset0 == [n |-> 0, by |-> NoValue]
Offsets(f, v, phi) ==
    LET by == Definition(f, v)
        added(u) == IF IsInt(f, u) THEN [n |-> f.lit[u], by |-> NoValue] ELSE [n |-> 0, by |-> u]
    IN  IF v = phi THEN {Offset0}
        ELSE CASE by.op = "iadd" /\ by.args[1] = phi -> {added(by.args[2])}
               [] by.op = "iadd" /\ by.args[1] # phi /\ by.args[2] = phi -> {added(by.args[1])}
               [] by.op = "isub" -> {[n |-> d, by |-> NoValue] : d \in Delta(f, v, phi)}
               [] OTHER -> {}

(* const_trip_induction_range, the value after the last iteration included. *)
TripRanges(f, loop, induction) ==
    LET initial == f.lit[induction.initial] IN
    {Span(initial, initial + induction.step * n) :
       n \in {m \in TripCount(f, loop, induction) : initial + induction.step * m \in Words}}

(* affine_offset_range.                                                     *)
OffsetRanges(f, loops, o) ==
    IF o.by = NoValue THEN {[min |-> o.n, max |-> o.n]}
    ELSE UNION {UNION {TripRanges(f, loop, i) : i \in Inductions(f, loop, o.by)} : loop \in Elements(loops)}

(* derived_index_does_not_wrap: with ends known, by their sums; otherwise   *)
(* after a strict test one more is in range, or all that the induction may  *)
(* ever be is.                                                              *)
IndexKeeps(f, loop, loops, i, o, target) ==
    LET strict ==
          \E t \in ActiveTests(f, loop, i.phi) :
            /\ OwnerBlock(f, target) # loop.header /\ Dominates(f, t.taken, OwnerBlock(f, target))
            /\ <<i.step, t.op, o.n>> \in {<<1, "lt", 1>>, <<-1, "gt", -1>>}
        modulus == Greatest({m \in {2 ^ k : k \in 0..Bits} : Abs(i.step) % m = 0})
        initial == f.lit[i.initial]
        class == {((initial + Half) % modulus) - Half, (Half - 1) - ((Half - 1 - initial) % modulus)}
    IN  IF o = Offset0 THEN TRUE
        ELSE \E ends \in {TripRanges(f, loop, i)}, added \in {OffsetRanges(f, loops, o)} :
               IF ends # {} /\ added # {}
               THEN \A r \in ends, a \in added : {r.min + a.min, r.max + a.max} \subseteq Words
               ELSE /\ o.by = NoValue
                    /\ strict \/ (IsInt(f, i.initial) /\ \A n \in class : n + o.n \in Words)

(* induction_does_not_wrap.                                                 *)
InductionKeeps(f, loop, i) ==
    LET known(t, Test(_)) == IsInt(f, t.bound) /\ Test(f.lit[t.bound])
        upwards(t) ==
          \/ t.op = "lt" /\ (i.step = 1 \/ known(t, LAMBDA n : n <= Half - i.step))
          \/ t.op = "le" /\ known(t, LAMBDA n : n <= Half - 1 - i.step)
        downwards(t) ==
          \/ t.op = "gt" /\ (i.step = -1 \/ known(t, LAMBDA n : n >= -Half - i.step - 1))
          \/ t.op = "ge" /\ known(t, LAMBDA n : n >= -Half - i.step)
    IN  \/ TripCount(f, loop, i) # {}
        \/ \E t \in ActiveTests(f, loop, i.phi) :
              /\ f.ty[t.bound] = "int" /\ IsLoopInvariant(f, loop, t.bound) /\ ReadyAt(f, t.bound, loop.preheader)
              /\ IF i.step > 0 THEN upwards(t) ELSE downwards(t)

(* One link further up: its index moves with the loop, or does not change.  *)
SteadyIn(f, loop, v) == IsLoopInvariant(f, loop, v) /\ ReadyAt(f, v, loop.preheader)
Climbed(f, loop, loops, i, target, st) ==
    LET by == Definition(f, st.root)
        index == by.args[2]
        link == [st EXCEPT !.root = by.args[1], !.chain = <<[index |-> index, size |-> Stride(by)]>> \o @]
        moves(os) ==
          IF os = {} /\ ~SteadyIn(f, loop, index) THEN [st EXCEPT !.stuck = TRUE]
          ELSE IF os = {} THEN link
          ELSE [link EXCEPT !.cells = @ + Stride(by), !.offsets = (index :> CHOOSE o \in os : TRUE) @@ @]
    IN  IF IsLoopInvariant(f, loop, st.root) \/ st.stuck THEN st
        ELSE IF by.op # "gep" THEN [st EXCEPT !.stuck = TRUE]
        ELSE moves({o \in Offsets(f, index, i.phi) : /\ o.by # NoValue => SteadyIn(f, loop, o.by)
                                                     /\ IndexKeeps(f, loop, loops, i, o, target)})

(* analyze_candidate: the chain of steps from a root the loop does not      *)
(* change, [target, root, chain, step, offsets, loop, induction].  A link   *)
(* is [index, size]; offsets says which indices move and how.               *)
Stepping(f, loop, loops, i, target) ==
    LET size == Stride(Definition(f, target))
        finish(st) ==
          LET distance == st.cells * i.step IN
          IF st.stuck \/ ~SteadyIn(f, loop, st.root) \/ distance = 0 \/ Abs(distance) % size # 0 THEN {}
          ELSE {[target |-> target, root |-> st.root, chain |-> st.chain, step |-> Quotient(distance, size),
                 offsets |-> st.offsets, loop |-> loop, induction |-> i]}
        begin == [root |-> target, chain |-> << >>, cells |-> 0, offsets |-> << >>, stuck |-> FALSE]
    IN  With(Settled(LAMBDA st : Climbed(f, loop, loops, i, target, st), begin, MaxRounds), finish)

(* uses_are_internal_and_dominated: the header dominates its loop.          *)
UsedInside(f, loop, v) ==
    LET users == {s \in Sites(f) : v \in Uses(At(f, s))}
        fromOutside(inst) == \E k \in DOMAIN inst.preds : inst.args[k] = v /\ inst.preds[k] \notin loop.blocks
        ending == {b \in Blocks(f) : v \in Elements(Term(f, b).args)}
    IN  /\ users # {} \/ ending # {}
        /\ \A s \in users : s[1] \in loop.blocks /\ ~fromOutside(At(f, s))
        /\ ending \subseteq loop.blocks

(* has_use_not_covered_by_candidate: another address built on it will do    *)
(* without it.                                                              *)
UsedOtherwise(f, v, targets) ==
    \/ v \in TerminatorUses(f)
    \/ \E inst \in Instructions(f) :
         v \in Uses(inst) /\ ~(inst.op = "gep" /\ inst.args[1] = v /\ inst.result \in targets)

SteppingLoop(f, loop) ==
    loop.preheader # NoBlock /\ UniqueLatch(loop) # NoBlock /\ SitesIn(f, loop, {"call"}) = {}

(* What goes with one phi of a loop; an address is taken for the first phi  *)
(* it goes with.                                                            *)
SteppingSite(f, loop, loops, i, claimed, found, s) ==
    IF ResultAt(f, s) \in claimed THEN found
    ELSE With(Stepping(f, loop, loops, i, ResultAt(f, s)), LAMBDA cs :
           IF cs = {} THEN found ELSE Append(found, CHOOSE c \in cs : TRUE))

WithoutCovered(f, seq, found) ==
    LET targets == {c.target : c \in Elements(found)} IN
    seq \o (IF Len(seq) + Len(found) > MaxCandidates THEN found
            ELSE SelectSeq(found, LAMBDA c : UsedOtherwise(f, c.target, targets)))

SteppingWith(f, loop, loops, i, seq) ==
    LET claimed == {c.target : c \in Elements(seq)}
        addresses == InOrder(f, {s \in SitesIn(f, loop, {"gep"}) : UsedInside(f, loop, ResultAt(f, s))})
    IN  With(Folded(LAMBDA found, s : SteppingSite(f, loop, loops, i, claimed, found, s), << >>, addresses),
             LAMBDA found : WithoutCovered(f, seq, found))

(* The candidates of a loop, by the phis that lead its header.              *)
SteppingIn(f, loops, seq, loop) ==
    LET leading == SelectSeq(Insts(f, loop.header), IsPhi)
        kept(phi) == {i \in Inductions(f, loop, phi.result) : InductionKeeps(f, loop, i)}
        inductions == SelectSeq([k \in DOMAIN leading |-> kept(leading[k])], LAMBDA is : is # {})
        along(acc, is) == SteppingWith(f, loop, loops, CHOOSE i \in is : TRUE, acc)
    IN  IF SteppingLoop(f, loop) THEN Folded(along, seq, inductions) ELSE seq

SteppedAddresses(f, loops) == Folded(LAMBDA seq, loop : SteppingIn(f, loops, seq, loop), << >>, loops)

(* The index a link begins with, [f, at, made]: computed once for each      *)
(* offset.                                                                  *)
StartIndex(st, c, x) ==
    LET initial == c.induction.initial
        o == c.offsets[x]
        addedTo(g, rhs) ==
          IF IsNumber(g, initial, 0) THEN [st EXCEPT !.f = g, !.at = rhs, !.made = (o :> rhs) @@ @]
          ELSE [st EXCEPT !.f = AppendInst(WithValue(g, "inst", "int", 0), c.loop.preheader,
                                           Operation("iadd", NewValue(g), <<initial, rhs>>)),
                          !.at = NewValue(g), !.made = (o :> NewValue(g)) @@ @]
    IN  IF x \notin DOMAIN c.offsets THEN [st EXCEPT !.at = x]
        ELSE IF o \in DOMAIN st.made THEN [st EXCEPT !.at = st.made[o]]
        ELSE IF o.by # NoValue THEN addedTo(st.f, o.by)
        ELSE With(WithConst(st.f, "int", o.n), LAMBDA g : addedTo(g, ConstOf(g, "int", o.n)))

Gep(result, base, index, size) == Operation("gep", result, <<base, index>>) @@ [size |-> size]

(* build_pointer_recurrence, [f, table]: the chain once before the loop, a  *)
(* phi in the header, a step in the latch.                                  *)
PointerStepped(acc, c) ==
    LET pre == c.loop.preheader
        latch == UniqueLatch(c.loop)
        target == c.target
        link(st, n) ==
          LET at == StartIndex(st, c, n.index) IN
          With(at, LAMBDA s : [s EXCEPT !.f = AppendInst(WithValue(@, "inst", "array", 0), pre,
                                                         Gep(NewValue(s.f), s.base, s.at, n.size)),
                                        !.base = NewValue(s.f)])
        ends(st) ==
          LET pointer == NewValue(st.f)
              next == pointer + 1
              ty == acc.f.ty[target]
              grown == WithValue(WithValue([st.f EXCEPT !.ty[st.base] = ty], "inst", ty, 0), "inst", ty, 0)
              phi == [Operation("phi", pointer, <<st.base, next>>) EXCEPT !.preds = <<pre, latch>>]
              size == c.chain[Len(c.chain)].size
              headed == Inserted(grown, c.loop.header, LeadingCount(grown, c.loop.header, {"nop", "phi"}), <<phi>>)
              stepped(g) == AppendInst(g, latch, Gep(next, pointer, ConstOf(g, "int", c.step), size))
          IN  [f |-> stepped(WithConst(headed, "int", c.step)), table |-> (target :> pointer) @@ acc.table]
    IN  With(Folded(link, [f |-> acc.f, base |-> c.root, at |-> NoValue,
                           made |-> (Offset0 :> c.induction.initial)], c.chain), ends)

StrengthReduced(f) ==
    LET starts(c) == Cardinality({c.offsets[x] : x \in DOMAIN c.offsets} \ {Offset0})
        values(n, c) == n + Len(c.chain) + 3 + 2 * starts(c)
        finish(acc) ==
          LET gone == {SiteOf(acc.f, v) : v \in DOMAIN acc.table} IN
          ReplaceSites(Rewritten(acc.f, acc.table), gone, Nop)
        reduce(cs) ==
          LET added == Folded(values, 0, cs) IN
          IF cs = << >> \/ Len(cs) > MaxCandidates \/ added > MaxNewValues \/ Len(f.kind) + added > MaxValues THEN f
          ELSE With(Folded(PointerStepped, [f |-> f, table |-> << >>], cs), finish)
    IN  IF WithinSize(f) THEN With(With(LoopsOf(f), LAMBDA loops : SteppedAddresses(f, loops)), reduce) ELSE f

GepInductionPass(p) == EachFunction(p, StrengthReduced)
=============================================================================
