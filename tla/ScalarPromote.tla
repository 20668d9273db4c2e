--------------------------- MODULE ScalarPromote ----------------------------
(***************************************************************************)
(* mem2reg, ir/pass/scalar_promote.rs: choose the stack slots no address   *)
(* of which escapes, place phis on iterated dominance frontiers, rename    *)
(* loads and stores along the dominator tree with a stack of values a      *)
(* slot, complete the phis of joins with dead predecessors, and rewrite    *)
(* every use.  Dominance is what Dominators computes, MaxBlocks is         *)
(* MAX_PROMOTION_BLOCKS and MaxValues is MAX_PROMOTION_VALUES.             *)
(***************************************************************************)
EXTENDS Program

VARIABLES
    func,          \* the function under transformation
    phase,         \* "start", "place", "rename", "fill", "rewrite" or "done"
    tree,          \* dominance: [live, dom, children, frontier]
    candidates,    \* the slots to promote, ascending
    slot,          \* the index of the slot whose phis are being placed
    worklist,      \* blocks that define it and whose frontier is to come
    placed,        \* blocks that have a phi for it
    phis,          \* the phis placed, as <<block, slot, phi>>
    path,          \* blocks being renamed: a path down the dominator tree
    stacks,        \* slot -> its values along the path, the current one last
    replaced       \* value -> the value its uses are to become

placeVars == <<slot, worklist, placed, phis>>
renameVars == <<path, stacks, replaced>>
promotionVars == <<func, phase, tree, candidates, placeVars, renameVars>>

-----------------------------------------------------------------------------
(* What Dominators::new gives the pass.                                     *)
Dominance(f) ==
    LET live == Reachable(f)
        dom == [a \in Blocks(f) |->
                   IF a \in live THEN live \ ReachedAvoiding(f, {Entry}, {a}) ELSE {a}]
        strict(b) == {a \in live : b \in dom[a] /\ a # b}
        parent(a, b) == a \in strict(b) /\ \A c \in strict(b) : a \in dom[c]
    IN  [live |-> live,
         dom |-> dom,
         children |-> [a \in Blocks(f) |-> {b \in live : parent(a, b)}],
         frontier |-> [a \in Blocks(f) |->
             {j \in live : /\ \E p \in Predecessors(f, j) \cap live : a \in live /\ p \in dom[a]
                           /\ ~(j \in dom[a] /\ j # a)}]]

-----------------------------------------------------------------------------
(* collect_candidates.                                                      *)
OpAt(s) == Insts(func, s[1])[s[2]]
ScalarSlots ==
    {ResultAt(func, s) : s \in {t \in Sites(func) : OpAt(t).op = "alloca" /\ func.ty[OpAt(t).result] = "ptr"}}

ReachedSites == {s \in Sites(func) : s[1] \in tree'.live}
LoadsOf(a) == {s \in ReachedSites : OpAt(s).op = "load" /\ OpAt(s).args[1] = a}
StoresOf(a) == {s \in ReachedSites : OpAt(s).op = "store" /\ OpAt(s).args[1] = a}

(* Used as anything but the address of a live load or store.                *)
Escapes(a) ==
    \/ \E s \in Sites(func) \ (LoadsOf(a) \cup StoresOf(a)) : a \in Uses(OpAt(s))
    \/ \E s \in StoresOf(a) : OpAt(s).args[2] = a
    \/ \E b \in Blocks(func) : a \in Elements(Term(func, b).args)

(* One store comes before the load whatever the path.                       *)
StoredBefore(store, load) ==
    IF store[1] = load[1] THEN store[2] < load[2] ELSE load[1] \in tree'.dom[store[1]]
LoadsDefined(a) == \A l \in LoadsOf(a) : \E s \in StoresOf(a) : StoredBefore(s, l)

Candidates ==
    {a \in ScalarSlots :
        ~Escapes(a) /\ LoadsOf(a) # {} /\ StoresOf(a) # {} /\ LoadsDefined(a)}

StoreBlocks(a) ==
    {s[1] : s \in {t \in Sites(func) : OpAt(t).op = "store" /\ OpAt(t).args[1] = a}}

TooLarge == Len(func.blocks) > MaxBlocks \/ Len(func.kind) > MaxValues

(* promoted_type: what is stored in a slot has its type.                    *)
StoresTo(f, a) == {i \in Instructions(f) : i.op = "store" /\ i.args[1] = a}
PromotedTypes(f, a) == {f.ty[i.args[2]] : i \in StoresTo(f, a)}

(* The pass has nothing under way, and takes up a function.                 *)
PromotionInit ==
    /\ func = << >> /\ phase = "done"
    /\ tree = << >> /\ candidates = << >>
    /\ slot = 0 /\ worklist = << >> /\ placed = {} /\ phis = {}
    /\ path = << >> /\ stacks = << >> /\ replaced = << >>

StartPromotion(f) ==
    /\ func' = f /\ phase' = "start"
    /\ tree' = << >> /\ candidates' = << >>
    /\ slot' = 0 /\ worklist' = << >> /\ placed' = {} /\ phis' = {}
    /\ path' = << >> /\ stacks' = << >> /\ replaced' = << >>

Skip ==
    /\ phase = "start" /\ TooLarge
    /\ phase' = "done"
    /\ UNCHANGED <<func, tree, candidates, placeVars, renameVars>>

Collect ==
    /\ phase = "start" /\ ~TooLarge
    /\ tree' = Dominance(func)
    /\ candidates' = Ascending(Candidates)
    /\ phase' = IF candidates' = << >> THEN "done" ELSE "place"
    /\ UNCHANGED <<func, placeVars, renameVars>>

-----------------------------------------------------------------------------
(* insert_phis: a slot at a time, from the blocks that store to it.         *)
NextSlot ==
    /\ phase = "place" /\ worklist = << >> /\ slot < Len(candidates)
    /\ slot' = slot + 1
    /\ worklist' = Ascending(StoreBlocks(candidates[slot']))
    /\ placed' = {}
    /\ UNCHANGED <<func, phase, tree, candidates, phis, renameVars>>

(* A phi goes after the nops and phis that lead the block.                  *)
PhiPosition(f, b) ==
    LET leads(i) == \A j \in 1..i : Insts(f, b)[j].op \in {"nop", "phi"} IN
    1 + Cardinality({i \in DOMAIN Insts(f, b) : leads(i)})

InsertPhi(f, b, v) ==
    LET before == PhiPosition(f, b) - 1 IN
    [f.blocks[b] EXCEPT !.insts =
        SubSeq(@, 1, before) \o <<Operation("phi", v, << >>)>> \o SubSeq(@, before + 1, Len(@))]

(* A phi at each join for the slot at hand, numbered in the joins' order.   *)
WithPhis(f, joins) ==
    LET ty == CHOOSE t \in PromotedTypes(f, candidates[slot]) : TRUE
        number(b) == Len(f.kind) + (CHOOSE k \in DOMAIN joins : joins[k] = b)
        each(x) == [k \in DOMAIN joins |-> x]
    IN  [f EXCEPT !.kind = @ \o each("inst"), !.ty = @ \o each(ty), !.lit = @ \o each(0),
                  !.blocks = [b \in DOMAIN @ |->
                      IF b \in Elements(joins) THEN InsertPhi(f, b, number(b)) ELSE @[b]]]

NewJoins(b) == tree.frontier[b] \ placed

PlaceAtFrontier ==
    /\ phase = "place" /\ worklist # << >>
    /\ LET joins == Ascending(NewJoins(Head(worklist)))
           first == Len(func.kind)
       IN  /\ func' = WithPhis(func, joins)
           /\ phis' = phis \cup {<<joins[k], candidates[slot], first + k>> : k \in DOMAIN joins}
           /\ worklist' = Tail(worklist) \o joins
           /\ placed' = placed \cup Elements(joins)
    /\ UNCHANGED <<phase, tree, candidates, slot, renameVars>>

HasPhi(a) == \E p \in phis : p[2] = a

(* Slots that received a phi start from a zero, one for each type.          *)
SeedTypes ==
    LET needed == UNION {PromotedTypes(func, a) : a \in {c \in Elements(candidates) : HasPhi(c)}} IN
    SelectSeq(<<"int", "bool", "ptr">>, LAMBDA ty : ty \in needed)
SeedOf(a) == Len(func.kind) + (CHOOSE k \in DOMAIN SeedTypes : SeedTypes[k] \in PromotedTypes(func, a))

Seeded ==
    LET each(x) == [k \in DOMAIN SeedTypes |-> x] IN
    [func EXCEPT !.kind = @ \o each("const"), !.ty = @ \o SeedTypes, !.lit = @ \o each(0)]

BeginRename ==
    /\ phase = "place" /\ worklist = << >> /\ slot = Len(candidates)
    /\ phase' = "rename"
    /\ func' = Seeded
    /\ stacks' = [a \in Elements(candidates) |-> IF HasPhi(a) THEN <<SeedOf(a)>> ELSE << >>]
    /\ replaced' = [v \in DOMAIN func'.kind |-> v]
    /\ path' = <<[block |-> Entry, next |-> 0, left |-> tree.children[Entry], pushed |-> << >>]>>
    /\ UNCHANGED <<tree, candidates, placeVars>>

-----------------------------------------------------------------------------
(* rename_block.  A frame of the path is at instruction next of its block;  *)
(* 0 pushes the block's phis, the position after the last one fills the     *)
(* phis of the successors, and beyond it the children follow.               *)
Frame == path[Len(path)]
Above == SubSeq(path, 1, Len(path) - 1)
AtFrame(n) == phase = "rename" /\ path # << >> /\ Frame.next = n
Advanced(frame) == Append(Above, [frame EXCEPT !.next = @ + 1])
InstCount == Len(Insts(func, Frame.block))
AtInst == phase = "rename" /\ path # << >> /\ Frame.next \in 1..InstCount
Here == Insts(func, Frame.block)[Frame.next]

Current(a) == stacks[a][Len(stacks[a])]
IsCandidate(v) == v \in Elements(candidates)
Push(a, v) == stacks' = [stacks EXCEPT ![a] = Append(@, v)]

PushPhis ==
    /\ AtFrame(0)
    /\ LET here == {p \in phis : p[1] = Frame.block} IN
       /\ stacks' = [a \in DOMAIN stacks |->
              LET own == {p[3] : p \in {q \in here : q[2] = a}} IN
              stacks[a] \o Ascending(own)]
       /\ path' = Advanced([Frame EXCEPT !.pushed = Ascending({p[2] : p \in here})])
    /\ UNCHANGED <<func, phase, tree, candidates, placeVars, replaced>>

Erase == func' = [func EXCEPT !.blocks[Frame.block].insts[Frame.next] = Nop]

DropAlloca ==
    /\ AtInst /\ Here.op = "alloca" /\ IsCandidate(Here.result)
    /\ Erase
    /\ path' = Advanced(Frame)
    /\ UNCHANGED <<phase, tree, candidates, placeVars, stacks, replaced>>

RenameStore ==
    /\ AtInst /\ Here.op = "store" /\ IsCandidate(Here.args[1])
    /\ Push(Here.args[1], Resolve(replaced, Here.args[2]))
    /\ Erase
    /\ path' = Advanced([Frame EXCEPT !.pushed = Append(@, Here.args[1])])
    /\ UNCHANGED <<phase, tree, candidates, placeVars, replaced>>

RenamesLoad == Here.op = "load" /\ IsCandidate(Here.args[1]) /\ stacks[Here.args[1]] # << >>

RenameLoad ==
    /\ AtInst /\ RenamesLoad
    /\ replaced' = [replaced EXCEPT ![Here.result] = Current(Here.args[1])]
    /\ Erase
    /\ path' = Advanced(Frame)
    /\ UNCHANGED <<phase, tree, candidates, placeVars, stacks>>

KeepInst ==
    /\ AtInst
    /\ ~(Here.op = "alloca" /\ IsCandidate(Here.result))
    /\ ~(Here.op = "store" /\ IsCandidate(Here.args[1]))
    /\ ~RenamesLoad
    /\ path' = Advanced(Frame)
    /\ UNCHANGED <<func, phase, tree, candidates, placeVars, stacks, replaced>>

(* add_phi_incoming, for a set of [phi, pred, value].                       *)
AddIncomings(f, incomings) ==
    [f EXCEPT !.blocks = [b \in DOMAIN @ |-> [@[b] EXCEPT !.insts = [i \in DOMAIN @ |->
        LET mine == {c \in incomings : c.phi = @[i].result /\ IsPhi(@[i])}
            order == Ascending({c.pred : c \in mine})
            value(p) == (CHOOSE c \in mine : c.pred = p).value
        IN  [@[i] EXCEPT !.preds = @ \o order, !.args = @ \o [k \in DOMAIN order |-> value(order[k])]]]]]]

OutgoingValue(a) == Resolve(replaced, Current(a))

FillSuccessors ==
    /\ AtFrame(InstCount + 1)
    /\ func' = AddIncomings(func,
          {[phi |-> p[3], pred |-> Frame.block, value |-> OutgoingValue(p[2])] :
              p \in {q \in phis : q[1] \in Successors(func, Frame.block) /\ stacks[q[2]] # << >>}})
    /\ path' = Advanced(Frame)
    /\ UNCHANGED <<phase, tree, candidates, placeVars, stacks, replaced>>

RenameChild ==
    /\ AtFrame(InstCount + 2)
    /\ \E c \in Frame.left :
          /\ \A d \in Frame.left : c <= d
          /\ path' = Append(Append(Above, [Frame EXCEPT !.left = @ \ {c}]),
                            [block |-> c, next |-> 0, left |-> tree.children[c], pushed |-> << >>])
    /\ UNCHANGED <<func, phase, tree, candidates, placeVars, stacks, replaced>>

(* Leaving a block pops what it pushed.                                     *)
(* Mutant: only what its stores pushed.                                     *)
PoppedOnce(a) == IF a \in Elements(Frame.pushed) THEN SubSeq(stacks[a], 1, Len(stacks[a]) - 1) ELSE stacks[a]
Popped(a) ==
    SubSeq(stacks[a], 1,
           Len(stacks[a]) - Cardinality({i \in DOMAIN Frame.pushed : Frame.pushed[i] = a}))

LeaveBlock ==
    /\ AtFrame(InstCount + 2) /\ Frame.left = {}
    /\ stacks' = [a \in DOMAIN stacks |-> Popped(a)]
    /\ path' = Above
    /\ UNCHANGED <<func, phase, tree, candidates, placeVars, replaced>>

EndRename ==
    /\ phase = "rename" /\ path = << >>
    /\ phase' = "fill"
    /\ UNCHANGED <<func, tree, candidates, placeVars, renameVars>>

-----------------------------------------------------------------------------
(* fill_unreachable_phi_incomings.                                          *)
MissingPreds(p) == Predecessors(func, p[1]) \ tree.live

FillUnreachable ==
    /\ phase = "fill"
    /\ func' = AddIncomings(func,
          UNION {{[phi |-> p[3], pred |-> b, value |-> Head(stacks[p[2]])] : b \in MissingPreds(p)} :
                    p \in {q \in phis : stacks[q[2]] # << >>}})
    /\ phase' = "rewrite"
    /\ UNCHANGED <<tree, candidates, placeVars, renameVars>>

(* rewrite_function_uses.                                                   *)
RewriteUses ==
    /\ phase = "rewrite"
    /\ func' = Rewritten(func, replaced)
    /\ phase' = "done"
    /\ UNCHANGED <<tree, candidates, placeVars, renameVars>>

Promote ==
    \/ Skip \/ Collect
    \/ NextSlot \/ PlaceAtFrontier \/ BeginRename
    \/ PushPhis \/ DropAlloca \/ RenameStore \/ RenameLoad \/ KeepInst
    \/ FillSuccessors \/ RenameChild \/ LeaveBlock \/ EndRename
    \/ FillUnreachable \/ RewriteUses
-----------------------------------------------------------------------------
(* The renaming takes back all it pushed: at the end every slot is left     *)
(* with its seed or nothing.                                                *)
StacksRestored ==
    phase = "fill" => \A a \in DOMAIN stacks : Len(stacks[a]) = IF HasPhi(a) THEN 1 ELSE 0
=============================================================================
