---------------------------- MODULE GlobalMemory ----------------------------
(***************************************************************************)
(* Globals nobody changes and globals nobody reads,                        *)
(* ir/pass/global_const_prop.rs and ir/pass/global_write_only.rs.          *)
(*                                                                         *)
(* Scalar globals kept in a slot while a function runs,                    *)
(* ir/pass/global_scalar_localize.rs: loaded on entry, stored back at each *)
(* return, so that ScalarPromote can take them apart.                      *)
(*                                                                         *)
(* The same within one loop, ir/pass/regional_global_scalar.rs: a global a *)
(* loop only reads is loaded before it, one it also writes lives in a slot *)
(* that is stored back on the way out.                                     *)
(***************************************************************************)
EXTENDS Loops

Globals(p) == DOMAIN p.globals
NamedBy(f, vs) == {f.lit[v] : v \in {w \in vs : f.kind[w] = "global"}}

(* An address used for anything but a direct load may be written through.   *)
Escaping(f) ==
    NamedBy(f, UNION {Uses(i) : i \in {j \in Instructions(f) : j.op \notin {"load", "nop", "alloca"}}})
        \cup NamedBy(f, TerminatorUses(f))

(* Scalars that are constants, or, when mutable ones are propagated too,    *)
(* that have an initial value.                                              *)
Propagated(p, mutable) ==
    {g \in Globals(p) : (p.globals[g].const \/ mutable) /\ ~p.globals[g].array}
        \ UNION {Escaping(p.funcs[k]) : k \in DOMAIN p.funcs}

(* propagate_function: one constant a global, added as the loads come.      *)
PropagateFunction(p, f, globals) ==
    LET isLoad(s) == At(f, s).op = "load" /\ NamedBy(f, {At(f, s).args[1]}) \cap globals # {}
        loads == InOrder(f, {s \in Sites(f) : isLoad(s)})
        of(s) == f.lit[At(f, s).args[1]]
        addOne(acc, s) ==
          IF of(s) \in DOMAIN acc.consts THEN acc
          ELSE [f |-> WithValue(acc.f, "const", "int", p.globals[of(s)].init[1]),
                consts |-> (of(s) :> NewValue(acc.f)) @@ acc.consts]
        rewrite(acc) ==
          LET table == [v \in {ResultAt(f, s) : s \in Elements(loads)} |-> acc.consts[of(SiteOf(f, v))]] IN
          With(table, LAMBDA t : ReplaceSites(Rewritten(acc.f, t), Elements(loads), Nop))
    IN  With(Folded(addOne, [f |-> f, consts |-> << >>], loads), rewrite)

GlobalConstPropPass(p, mutable) ==
    With(Propagated(p, mutable), LAMBDA globals :
        EachFunction(p, LAMBDA f : PropagateFunction(p, f, globals)))
-----------------------------------------------------------------------------
(* What a pointer is computed from, through geps and phis.                  *)
PointerSources(f, v) ==
    LET from(u) ==
          LET by == Definition(f, u) IN
          CASE by.op = "gep" -> {by.args[1]} [] by.op = "phi" -> Uses(by) [] OTHER -> {}
        grow(S) == S \cup UNION {from(u) : u \in S}
    IN  Settled(grow, {v}, Len(f.kind))

(* pointer_global_roots.                                                    *)
GlobalRoots(f, v) == NamedBy(f, PointerSources(f, v))

(* A load reads through its pointer; a call, the value of a store and an    *)
(* operation let an address out; a return does.                             *)
Observing(f, inst) ==
    CASE inst.op = "load" -> {inst.args[1]}
      [] inst.op = "store" -> {inst.args[2]}
      [] inst.op \in {"nop", "phi", "alloca", "memzero", "gep"} -> {}
      [] OTHER -> Uses(inst)

Observed(f) ==
    LET values == UNION {Observing(f, i) : i \in Instructions(f)}
                    \cup UNION {Elements(Term(f, b).args) : b \in {c \in Blocks(f) : IsReturn(f, c)}}
    IN  UNION {GlobalRoots(f, v) : v \in {w \in values : IsPointer(f, w)}}

(* Writes go when every global they may reach is never observed.            *)
GlobalWriteOnlyPass(p) ==
    LET unread == Globals(p) \ UNION {Observed(p.funcs[k]) : k \in DOMAIN p.funcs}
        erase(globals) ==
          EachFunction(p, LAMBDA f :
            ReplaceSites(f, {s \in Sites(f) :
                /\ At(f, s).op \in {"store", "memzero"}
                /\ With(GlobalRoots(f, At(f, s).args[1]), LAMBDA r : r # {} /\ r \subseteq globals)}, Nop))
    IN  With(unread, erase)
-----------------------------------------------------------------------------
CONSTANT MaxLocalized      \* MAX_LOCALIZED_GLOBALS

Names(f, v, g) == f.kind[v] = "global" /\ f.lit[v] = g

(* One pass takes functions without calls, another those whose calls touch  *)
(* no memory.                                                               *)
CallsAllow(p, quiet, f, across) ==
    /\ (Calls(f) # {}) = across
    /\ \A c \in Calls(f) : CallsNoMemory(p, quiet, f, c)

(* Written, and named by nothing but the address of a load or a store.      *)
Localizable(f, g) ==
    LET direct(i) == i.op \in {"load", "store"}
        addressed(i) == {v \in Uses(i) : Names(f, v, g)} \subseteq (IF direct(i) THEN {i.args[1]} ELSE {})
    IN  /\ \A i \in Instructions(f) : addressed(i)
        /\ \A v \in TerminatorUses(f) : ~Names(f, v, g)
        /\ \E i \in Instructions(f) : i.op = "store" /\ Names(f, i.args[1], g)

Returns(f) == {b \in Blocks(f) : IsReturn(f, b)}

(* As many as their slots, loads and stores leave room for.                 *)
ToLocalize(f) ==
    LET named == {f.lit[v] : v \in {u \in Values(f) : f.kind[u] = "global" /\ f.ty[u] = "ptr"}}
        room == (MaxValues - Len(f.kind)) \div (2 + Cardinality(Returns(f)))
        order == Ascending({g \in named : Localizable(f, g)})
    IN  SubSeq(order, 1, Least({Len(order), MaxLocalized, room}))

(* localize_global.                                                         *)
Localized(f, g) ==
    LET global == Least({v \in Values(f) : Names(f, v, g) /\ f.ty[v] = "ptr"})
        local == NewValue(f)
        redirect(i) ==
          IF i.op \in {"load", "store"} /\ Names(f, i.args[1], g) THEN [i EXCEPT !.args[1] = local] ELSE i
        redirected == [WithValue(f, "inst", "ptr", 0) EXCEPT !.blocks = [b \in DOMAIN @ |->
            [@[b] EXCEPT !.insts = [n \in DOMAIN @ |-> redirect(@[n])]]]]
        opening == <<Operation("alloca", local, << >>) @@ [size |-> 1],
                     Operation("load", local + 1, <<global>>),
                     Operation("store", NoValue, <<local, local + 1>>)>>
        opened == Inserted(WithValue(redirected, "inst", "int", 0), Entry,
                           LeadingCount(f, Entry, {"phi"}), opening)
        close(h, b) ==
          AppendInst(AppendInst(WithValue(h, "inst", "int", 0), b, Operation("load", NewValue(h), <<local>>)),
                     b, Operation("store", NoValue, <<global, NewValue(h)>>))
    IN  Folded(close, opened, Ascending(Returns(f)))

LocalizeGlobals(p, quiet, f, across) ==
    IF Len(f.blocks) > MaxBlocks \/ Len(f.kind) >= MaxValues \/ ~CallsAllow(p, quiet, f, across) THEN f
    ELSE Folded(Localized, f, ToLocalize(f))

GlobalScalarLocalizePass(p, across) ==
    With(NoMemory(p), LAMBDA quiet : EachFunction(p, LAMBDA f : LocalizeGlobals(p, quiet, f, across)))
-----------------------------------------------------------------------------
CONSTANT MaxHoists         \* MAX_READONLY_HOISTS_PER_FUNCTION

Accesses(f, loop, ops, g) ==
    {s \in Sites(f) : s[1] \in loop.blocks /\ At(f, s).op \in ops /\ Names(f, At(f, s).args[1], g)}

(* pointer_is_proven_disjoint: all it is computed from is known, and is not *)
(* the global.                                                              *)
ProvenDisjoint(f, v, g) ==
    LET elsewhere(u) ==
          IF f.kind[u] = "global" THEN f.lit[u] # g ELSE Definition(f, u).op \in {"alloca", "gep", "phi"}
        anObject(u) == f.kind[u] = "global" \/ Definition(f, u).op = "alloca"
    IN  With(PointerSources(f, v), LAMBDA all : (\A u \in all : elsewhere(u)) /\ \E u \in all : anObject(u))

(* loop_memory_is_disjoint, and no call or clear in the loop.               *)
ApartInLoop(f, loop, g) ==
    \A inst \in UNION {Elements(Insts(f, b)) : b \in loop.blocks} :
        /\ inst.op \notin {"call", "memzero"}
        /\ inst.op \in {"load", "store"} =>
              Names(f, inst.args[1], g) \/ ProvenDisjoint(f, inst.args[1], g)

NamedGlobals(f) == NamedBy(f, Values(f))

(* find_readonly_candidate, [loop, global]: read twice, never written.      *)
ReadOnlyIn(f, loop) ==
    IF loop.preheader = NoBlock THEN {}
    ELSE {g \in NamedGlobals(f) :
            /\ Cardinality(Accesses(f, loop, {"load"}, g)) >= 2
            /\ Accesses(f, loop, {"store"}, g) = {}
            /\ ApartInLoop(f, loop, g)}

(* hoist_readonly_candidate.                                                *)
LoadHoisted(f, loop, g) ==
    LET loads == Accesses(f, loop, {"load"}, g)
        global == Least({At(f, s).args[1] : s \in loads})
        invariant == NewValue(f)
        table == [v \in {ResultAt(f, s) : s \in loads} |-> invariant]
    IN  Rewritten(ReplaceSites(AppendInst(WithValue(f, "inst", "int", 0), loop.preheader,
                                          Operation("load", invariant, <<global>>)), loads, Nop), table)

(* find_candidate: one way in and one out, at the header.                   *)
WrittenIn(f, loop) ==
    IF \/ loop.preheader = NoBlock \/ UniqueLatch(loop) \in {NoBlock, loop.header}
       \/ Cardinality(loop.exits) # 1 \/ \E e \in loop.exits : e[1] # loop.header
    THEN {}
    ELSE {g \in NamedGlobals(f) :
            /\ Accesses(f, loop, {"load"}, g) # {} /\ Accesses(f, loop, {"store"}, g) # {}
            /\ ApartInLoop(f, loop, g)}

(* promote_candidate: the slot is filled before the loop, and a block on    *)
(* the way out stores it back.                                              *)
Regional(f, loop, g) ==
    LET uses == Accesses(f, loop, {"load", "store"}, g)
        global == Least({At(f, s).args[1] : s \in uses})
        local == NewValue(f)
        exit == UniqueExit(loop)
        flush == Len(f.blocks) + 1
        opening == <<Operation("alloca", local, << >>) @@ [size |-> 1],
                     Operation("load", local + 1, <<global>>),
                     Operation("store", NoValue, <<local, local + 1>>)>>
        closing == [insts |-> <<Operation("load", local + 2, <<local>>),
                                Operation("store", NoValue, <<global, local + 2>>)>>,
                    term |-> Jump(exit)]
        inst(b, n, i) ==
          CASE <<b, n>> \in uses -> [i EXCEPT !.args[1] = local]
            [] b = exit -> HeardFromNow(i, loop.header, flush)
            [] OTHER -> i
        block(b, old) ==
          [insts |-> [n \in DOMAIN old.insts |-> inst(b, n, old.insts[n])]
                     \o (IF b = loop.preheader THEN opening ELSE << >>),
           term |-> IF b = loop.header
                    THEN [old.term EXCEPT !.succ = [k \in DOMAIN @ |-> IF @[k] = exit THEN flush ELSE @[k]]]
                    ELSE old.term]
        valued == WithValue(WithValue(WithValue(f, "inst", "ptr", 0), "inst", "int", 0), "inst", "int", 0)
    IN  [valued EXCEPT !.blocks = Append([b \in DOMAIN @ |-> block(b, @[b])], closing)]

(* The first loop with such a global, again and again.                      *)
InEachLoop(f, Found(_, _), Rewrite(_, _, _)) ==
    LET first(loops) ==
          LET with == {k \in DOMAIN loops : Found(f, loops[k]) # {}} IN
          IF with = {} THEN f
          ELSE With(loops[Least(with)], LAMBDA loop : Rewrite(f, loop, Least(Found(f, loop))))
    IN  With(LoopsOf(f), first)

RegionalInvariantGlobalLoadPass(p) ==
    LET hoist(f) == IF WithinSize(f) THEN InEachLoop(f, ReadOnlyIn, LoadHoisted) ELSE f IN
    EachFunction(p, LAMBDA f : Settled(hoist, f, MaxHoists))

(* Each turn takes a global out of a loop, so the turns end.                *)
RegionalGlobalScalarPass(p) ==
    LET promote(f) == InEachLoop(f, WrittenIn, Regional) IN
    EachFunction(p, LAMBDA f : Settled(promote, f, Len(f.kind)))
=============================================================================
