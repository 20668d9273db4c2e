----------------------------- MODULE LocalMemory ------------------------------
(***************************************************************************)
(* Loads that are known, stores that are lost and arrays that are cleared  *)
(* in vain. ir/pass/local_forward.rs: within a block a store tells what a  *)
(* load reads and a store no one reads goes; a load tells a later one      *)
(* wherever no store came between on any path.                             *)
(* ir/pass/local_memzero_sink.rs: the clearing of a local array is put off *)
(* until the guards that return at once have let the call through, and     *)
(* dropped when every cell is written before it is read.                   *)
(***************************************************************************)
EXTENDS Loops

(* typed_scalar_pointer_root: the parameter, global or slot a pointer to a  *)
(* scalar is computed from.                                                 *)
NoRoot == 0
TypedRoot(f, v) ==
    LET up(u) ==
          With(Definition(f, u), LAMBDA by :
            IF by.op = "gep" /\ f.ty[u] = "ptr" /\ f.ty[by.args[2]] = "int" THEN by.args[1] ELSE u)
        root(r) == IF f.kind[r] \in {"param", "global"} \/ Definition(f, r).op = "alloca" THEN r ELSE NoRoot
    IN  IF f.ty[v] # "ptr" THEN NoRoot ELSE With(Iterated(up, v, MaxRounds), root)

(* pointers_proven_disjoint: different objects, one of them a slot.         *)
Disjoint(f, roots, a, b) ==
    /\ roots[a] # NoRoot /\ roots[b] # NoRoot /\ roots[a] # roots[b]
    /\ "alloca" \in {Definition(f, roots[a]).op, Definition(f, roots[b]).op}

(* HashMap::retain.                                                         *)
Keeping(map, Test(_)) == [k \in {x \in DOMAIN map : Test(x)} |-> map[k]]
Put(map, k, v) == (k :> v) @@ map
Nothing == << >>

(* The load of a value and the write of the same value back.                *)
WritebackStep(f, roots, st, s) ==
    LET inst == At(f, s)
        ptr == inst.args[1]
        value == inst.args[2]
        loadedFrom(v) == IF v \in DOMAIN st.from THEN st.from[v] ELSE NoValue
    IN  CASE inst.op = "load" ->
               IF roots[ptr] # NoRoot /\ f.ty[inst.result] = "int"
               THEN [st EXCEPT !.from = Put(@, inst.result, ptr)] ELSE st
          [] inst.op = "store" ->
               IF loadedFrom(value) = ptr THEN [st EXCEPT !.dead = @ \cup {s}]
               ELSE IF /\ loadedFrom(value) # NoValue
                       /\ roots[ptr] # NoRoot /\ roots[loadedFrom(value)] = roots[ptr]
               THEN [st EXCEPT !.from = value :> @[value]]
               ELSE [st EXCEPT !.from = Nothing]
          [] inst.op \in {"call", "memzero"} -> [st EXCEPT !.from = Nothing]
          [] OTHER -> st

RedundantWritebacks(f, roots) ==
    UNION {Folded(LAMBDA st, s : WritebackStep(f, roots, st, s),
                  [from |-> Nothing, dead |-> {}], SitesOf(f, b)).dead : b \in Blocks(f)}

(* A store that another to the same address follows unread.                 *)
OverwriteStep(f, roots, st, s) ==
    LET inst == At(f, s)
        ptr == inst.args[1]
        apart == Keeping(st.stored, LAMBDA k : Disjoint(f, roots, k, ptr))
    IN  CASE inst.op = "load" -> [st EXCEPT !.stored = apart]
          [] inst.op = "store" /\ roots[ptr] # NoRoot ->
               [stored |-> Put(apart, ptr, s),
                dead |-> IF ptr \in DOMAIN st.stored THEN st.dead \cup {st.stored[ptr]} ELSE st.dead]
          [] inst.op \in {"store", "call", "memzero"} -> [st EXCEPT !.stored = Nothing]
          [] OTHER -> st

OverwrittenStores(f, roots) ==
    UNION {Folded(LAMBDA st, s : OverwriteStep(f, roots, st, s),
                  [stored |-> Nothing, dead |-> {}], SitesOf(f, b)).dead : b \in Blocks(f)}
-----------------------------------------------------------------------------
(* transfer_load_state: pointers with the load that read them.              *)
LoadStep(p, quiet, f, roots, st, s) ==
    LET inst == At(f, s)
        ptr == inst.args[1]
        work == st.work + 1 + IF inst.op = "store" THEN Cardinality(DOMAIN st.known) ELSE 0
        known ==
          CASE inst.op = "load" -> IF ptr \in DOMAIN st.known THEN st.known ELSE Put(st.known, ptr, inst.result)
            [] inst.op = "store" ->
                 IF work > MaxWork \/ Cardinality(DOMAIN st.known) > MaxEdges THEN Nothing
                 ELSE Keeping(st.known, LAMBDA k : Disjoint(f, roots, k, ptr))
            [] inst.op \in {"call", "memzero"} ->
                 IF CallsNoMemory(p, quiet, f, inst) THEN st.known ELSE Nothing
            [] OTHER -> st.known
    IN  IF st.failed \/ st.work + 1 > MaxWork THEN [st EXCEPT !.failed = TRUE]
        ELSE [st EXCEPT !.known = known, !.work = work]

Capped(known) == IF Cardinality(DOMAIN known) > MaxEdges THEN Nothing ELSE known

(* Mutant: only the first way into a join is asked.                         *)
MutantFirstWayIn(f, exits, b) ==
    IF b = Entry \/ Predecessors(f, b) = {} THEN Nothing ELSE exits[Least(Predecessors(f, b))]

(* What every way into the block agrees on; an exit not computed yet knows  *)
(* nothing.                                                                 *)
Agreed(f, exits, b) ==
    LET preds == Predecessors(f, b)
        common(p) == {k \in DOMAIN exits[p] :
                        \A q \in preds : k \in DOMAIN exits[q] /\ exits[q][k] = exits[p][k]}
        of(p) == Keeping(exits[p], LAMBDA k : k \in common(p))
    IN  IF b = Entry \/ preds = {} THEN Nothing ELSE of(Least(preds))

(* available_load_entries: rounds over the blocks until nothing changes;    *)
(* no answer when that takes too long.                                      *)
LoadEntries(p, quiet, f, roots) ==
    LET empty == [b \in Blocks(f) |-> Nothing]
        visit(st, b) ==
          LET go(entry) ==
                LET pass(out) ==
                      [st EXCEPT !.entries[b] = entry, !.exits[b] = Capped(out.known),
                                 !.work = out.work, !.failed = out.failed]
                IN  With(Folded(LAMBDA acc, s : LoadStep(p, quiet, f, roots, acc, s),
                                [known |-> entry, work |-> st.work, failed |-> st.failed],
                                SitesOf(f, b)), pass)
          IN  With(Capped(Agreed(f, st.exits, b)), go)
        round(st) ==
          LET judge(next) ==
                [next EXCEPT !.settled = st.entries = next.entries /\ st.exits = next.exits]
          IN  IF st.settled THEN st ELSE With(Folded(visit, st, Ascending(Reachable(f))), judge)
        end == Iterated(round, [entries |-> empty, exits |-> empty, work |-> 0,
                                failed |-> FALSE, settled |-> FALSE], MaxRounds)
    IN  With(end, LAMBDA e : IF e.settled /\ ~e.failed THEN e.entries ELSE empty)

(* One instruction of the walk that finds the loads to replace.             *)
ForwardStep(p, quiet, f, roots, st, s) ==
    LET inst == At(f, s)
        ptr == Resolve(st.table, inst.args[1])
        apart(map) == Keeping(map, LAMBDA k : Disjoint(f, roots, k, ptr))
        found == (DOMAIN st.memory \cup DOMAIN st.loads) \cap {ptr}
        value == IF ptr \in DOMAIN st.memory THEN st.memory[ptr] ELSE st.loads[ptr]
    IN  CASE inst.op = "store" ->
               [st EXCEPT
                  !.loads = IF Cardinality(DOMAIN @) <= MaxEdges THEN apart(@) ELSE Nothing,
                  !.memory = IF roots[ptr] = NoRoot THEN Nothing
                             ELSE Put(apart(@), ptr, Resolve(st.table, inst.args[2]))]
          [] inst.op = "load" ->
               IF found = {} THEN [st EXCEPT !.loads = Put(@, ptr, inst.result)]
               ELSE IF f.ty[value] # f.ty[inst.result] THEN st
               ELSE [st EXCEPT !.table = Put(@, inst.result, value), !.gone = @ \cup {s}]
          [] inst.op = "memzero" \/ (IsCall(inst) /\ ~CallsNoMemory(p, quiet, f, inst)) ->
               [st EXCEPT !.memory = Nothing, !.loads = Nothing]
          [] OTHER -> st

LoadsForwarded(p, quiet, f, roots, entries) ==
    LET block(st, b) ==
          Folded(LAMBDA acc, s : ForwardStep(p, quiet, f, roots, acc, s),
                 [st EXCEPT !.memory = Nothing, !.loads = entries[b]], SitesOf(f, b))
        all == Folded(block, [table |-> Nothing, gone |-> {}, memory |-> Nothing, loads |-> Nothing],
                      [b \in Blocks(f) |-> b])
        apply(st) ==
          With(Rewritten(f, st.table), LAMBDA g : IF g = f THEN f ELSE ReplaceSites(g, st.gone, Nop))
    IN  With(all, apply)

Roots(f) == [v \in Values(f) |-> TypedRoot(f, v)]
WithoutLostStores(f) ==
    LET second(g) == ReplaceSites(g, OverwrittenStores(g, Roots(g)), Nop) IN
    With(ReplaceSites(f, RedundantWritebacks(f, Roots(f)), Nop), second)

(* within_budget; the sizes of types and initializers are left out.         *)
ForwardAffordable(f) ==
    WithinSize(f) /\ Cardinality(Sites(f)) + Len(f.kind) * MaxRounds <= MaxWork

ForwardRound(p, quiet, f, enabled) ==
    LET unknown == [v \in Values(f) |-> NoRoot]
        forward(g) ==
          IF enabled
          THEN With(Roots(g), LAMBDA roots :
                 With(LoadEntries(p, quiet, g, roots), LAMBDA entries :
                   LoadsForwarded(p, quiet, g, roots, entries)))
          ELSE LoadsForwarded(p, quiet, g, unknown, [b \in Blocks(g) |-> Nothing])
    IN  With(IF enabled THEN WithoutLostStores(f) ELSE f, forward)

(* forward_function: a function that does not settle is put back.           *)
ForwardFunction(p, quiet, f) ==
    LET run(enabled) ==
          LET round(g) == ForwardRound(p, quiet, g, enabled)
              settle(g) == IF enabled /\ round(g) # g THEN f ELSE g
              limit == IF enabled THEN MaxRounds - 1 ELSE Len(f.kind)
          IN  With(Iterated(round, f, limit), settle)
    IN  With(ForwardAffordable(f), run)

LocalForwardPass(p) ==
    With(NoMemory(p), LAMBDA quiet : EachFunction(p, LAMBDA f : ForwardFunction(p, quiet, f)))

-----------------------------------------------------------------------------
(* pointer_aliases: whatever may be an address inside what v points to.     *)
Derives(inst, aliases) ==
    \/ inst.op = "gep" /\ inst.args[1] \in aliases
    \/ IsPhi(inst) /\ Uses(inst) \cap aliases # {}
PointerAliases(f, v) ==
    LET derived(S) == S \cup {i.result : i \in {j \in Instructions(f) : Derives(j, S)}} IN
    Settled(derived, {v}, Len(f.kind))

IsLocal(f, v) == Definition(f, v).op = "alloca"
EntryMemzeros(f) ==
    {n \in DOMAIN Insts(f, Entry) :
       Insts(f, Entry)[n].op = "memzero" /\ IsLocal(f, Insts(f, Entry)[n].args[1])}

(* accepted_edge_after_early_returns: [from, to], to being NoBlock when the *)
(* entry is not a guard.                                                    *)
AcceptedEdge(f, headers) ==
    LET next(b) == {t \in Successors(f, b) : IsBranch(f, b) /\ ~IsReturn(f, t)}
        guard(b) == IsBranch(f, b) /\ Cardinality({k \in 1..2 : IsReturn(f, Term(f, b).succ[k])}) = 1
        follow(st) ==
          IF st.done \/ st.at \in st.seen \/ ~guard(st.at) THEN [st EXCEPT !.done = TRUE]
          ELSE With(CHOOSE t \in next(st.at) : TRUE, LAMBDA t :
                 [at |-> t, seen |-> st.seen \cup {st.at}, from |-> st.at, to |-> t, done |-> t \in headers])
        end == Iterated(follow, [at |-> Entry, seen |-> {}, from |-> NoBlock, to |-> NoBlock, done |-> FALSE],
                        Len(f.blocks))
    IN  [from |-> end.from, to |-> end.to]

(* actual_use_blocks, the memzero itself aside.                             *)
UseBlocks(f, aliases, n) ==
    {s[1] : s \in {t \in Sites(f) \ {<<Entry, n>>} :
                     Uses(At(f, t)) \cap aliases # {} /\ ~Derives(At(f, t), aliases)}}
    \cup {b \in Blocks(f) : Elements(Term(f, b).args) \cap aliases # {}}

Movable(f, accepted) ==
    LET behind(n) ==
          LET blocks == UseBlocks(f, PointerAliases(f, Insts(f, Entry)[n].args[1]), n) IN
          blocks # {} /\ \A b \in blocks : b \notin Reachable(f) \/ Dominates(f, accepted, b)
    IN  {n \in EntryMemzeros(f) : behind(n)}

(* A loop header would clear in every iteration: a block on the edge does   *)
(* it instead.                                                              *)
OnEdge(f, edge, insts) ==
    LET deferred == Len(f.blocks) + 1
        old == f.blocks
    IN  [f EXCEPT !.blocks =
          [old EXCEPT ![edge.to].insts = [n \in DOMAIN @ |-> HeardFromNow(@[n], edge.from, deferred)],
                      ![edge.from].term.succ = [k \in DOMAIN @ |-> IF @[k] = edge.to THEN deferred ELSE @[k]]]
          \o <<[insts |-> insts, term |-> Jump(edge.to)]>>]

SinkEntryMemzeros(f, headers) ==
    LET sink(edge, moved) ==
          LET sites == {<<Entry, n>> : n \in moved}
              order == Ascending(moved)
              insts == [k \in DOMAIN order |-> Insts(f, Entry)[order[k]]]
              cleared == ReplaceSites(f, sites, Nop)
          IN  IF edge.to \in headers THEN OnEdge(cleared, edge, insts)
              ELSE Inserted(cleared, edge.to, LeadingCount(f, edge.to, {"phi"}), insts)
        choose(edge) ==
          IF edge.to = NoBlock THEN f
          ELSE With(Movable(f, edge.to), LAMBDA m : IF m = {} THEN f ELSE sink(edge, m))
    IN  IF EntryMemzeros(f) = {} THEN f ELSE With(AcceptedEdge(f, headers), choose)
-----------------------------------------------------------------------------
(* constant_local_array_index, as a set of at most one.                     *)
ConstantIndex(f, v, root) ==
    LET by == Definition(f, v) IN
    IF by.op # "gep" THEN {}
    ELSE {f.lit[i] : i \in {j \in {by.args[2]} : Len(by.args) = 2 /\ by.args[1] = root /\ IsInt(f, j) /\ f.lit[j] >= 0}}

(* What one instruction does to the cells known to be written, and whether  *)
(* it may run with just those: [known, ok].                                 *)
WriteSeen(f, root, aliases, cells, st, inst) ==
    LET index(v) == ConstantIndex(f, v, root)
        touches == Uses(inst) \cap aliases # {}
    IN  CASE ~touches -> st
          [] inst.op = "gep" /\ inst.args[1] \in aliases -> st
          [] IsPhi(inst) /\ Uses(inst) \subseteq aliases -> st
          [] inst.op = "load" ->
               [st EXCEPT !.ok = @ /\ (st.known = cells \/ (index(inst.args[1]) # {}
                                                             /\ index(inst.args[1]) \subseteq st.known))]
          [] inst.op = "store" /\ inst.args[1] \in aliases ->
               [known |-> st.known \cup index(inst.args[1]),
                ok |-> st.ok /\ inst.args[2] \notin aliases /\ index(inst.args[1]) \subseteq cells]
          [] inst.op = "memzero" /\ inst.args[1] = root -> [st EXCEPT !.known = cells]
          [] OTHER -> [st EXCEPT !.ok = FALSE]

(* From the memzero on, the cells every path has written (empty: not        *)
(* reached yet), intersected where paths meet.                              *)
FullyOverwritten(f, s, cells) ==
    LET root == At(f, s).args[1]
        insts(b) == SubSeq(Insts(f, b), IF b = s[1] THEN s[2] + 1 ELSE 1, Len(Insts(f, b)))
        check(aliases) ==
          LET out(b, known) ==
                Folded(LAMBDA st, i : WriteSeen(f, root, aliases, cells, st, i), [known |-> known, ok |-> TRUE], insts(b))
              meet(in, b) ==
                LET from == {q \in Predecessors(f, b) : in[q] # {}}
                    known == {out(q, CHOOSE k \in in[q] : TRUE).known : q \in from}
                IN  IF b = s[1] \/ from = {} THEN in[b]
                    ELSE {{c \in cells : \A k \in known : c \in k}}
              in == Settled(LAMBDA x : [b \in DOMAIN x |-> meet(x, b)],
                            [b \in Blocks(f) |-> IF b = s[1] THEN {{}} ELSE {}],
                            Len(f.blocks) * (Cardinality(cells) + 2))
              fine(final) ==
                \A b \in Blocks(f) : final[b] # {} =>
                    /\ out(b, CHOOSE k \in final[b] : TRUE).ok
                    /\ Elements(Term(f, b).args) \cap aliases = {}
          IN  With(in, fine)
    IN  With(PointerAliases(f, root), check)

(* Only a memzero of a whole local array outside every loop.                *)
MaxTrackedCells == 256
RemoveOverwrittenMemzeros(f, loops) ==
    LET cells(s) == 0..(At(f, s).size - 1)
        candidate(s) ==
          /\ At(f, s).op = "memzero"
          /\ LET by == Definition(f, At(f, s).args[1]) IN
             by.op = "alloca" /\ f.ty[At(f, s).args[1]] = "array" /\ by.size = At(f, s).size
          /\ At(f, s).size \in 1..MaxTrackedCells
          /\ \A k \in DOMAIN loops : s[1] \notin loops[k].blocks
        drop(g, s) == IF FullyOverwritten(g, s, cells(s)) THEN Replace(g, s, Nop) ELSE g
    IN  Folded(drop, f, InOrder(f, {s \in Sites(f) : candidate(s)}))

(* The edge that is split adds no loop, so the loops are found again.       *)
MemzerosSunk(f) ==
    LET headers(loops) == {loops[k].header : k \in DOMAIN loops}
        sunk == With(LoopsOf(f), LAMBDA loops : SinkEntryMemzeros(f, headers(loops)))
    IN  IF WithinSize(f)
        THEN With(sunk, LAMBDA g : With(LoopsOf(g), LAMBDA loops : RemoveOverwrittenMemzeros(g, loops)))
        ELSE f

LocalMemzeroSinkPass(p) == EachFunction(p, MemzerosSunk)
=============================================================================
