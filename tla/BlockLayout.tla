----------------------------- MODULE BlockLayout -----------------------------
(***************************************************************************)
(* Where the blocks of a function go in its assembly and how they branch:  *)
(* loop_rotated_block_order (codegen/common/loop_depths.rs) moves headers  *)
(* behind latches, entry_early_return (codegen/common/early_return.rs) may *)
(* answer before the frame is set up, and emit and emit_terminator         *)
(* (target/riscv64/emitter.rs, inst.rs) write the blocks down.  The code   *)
(* is then run.  A block's instructions are one item, and so are the phi   *)
(* moves of an edge, which PhiCopies is about.                             *)
(***************************************************************************)
EXTENDS Naturals, Sequences, FiniteSets

CONSTANTS
    Graphs,            \* the functions; see WellFormed
    MaxLayoutBlocks,   \* MAX_LAYOUT_BLOCKS
    MaxRotatedLoops    \* MAX_ROTATED_LOOPS

Entry == 1
None == 0

Elements(s) == {s[i] : i \in DOMAIN s}
EdgesOf(targets) == {e \in (DOMAIN targets) \X (DOMAIN targets) : e[2] \in Elements(targets[e[1]])}

(* targets   of each block's terminator: none, one, or then and else        *)
(* moves     the edges that copy a phi                                      *)
(* guards    blocks that only compute a condition collect_guard_values      *)
(*           accepts: they have no phis                                     *)
(* direct    blocks early_result accepts: they have no phis, and return, or *)
(*           jump to a block that returns                                   *)
(* preframe  does pre_prologue_early_return know how to write the guards?   *)
WellFormed(g) ==
    /\ g.targets \in Seq(Seq(Nat)) /\ Len(g.targets) > 0
    /\ \A b \in DOMAIN g.targets :
          Len(g.targets[b]) <= 2 /\ Elements(g.targets[b]) \subseteq (DOMAIN g.targets) \ {Entry}
    /\ g.moves \subseteq EdgesOf(g.targets)
    /\ g.guards \cup g.direct \subseteq DOMAIN g.targets
    /\ \A e \in g.moves : e[2] \notin g.guards \cup g.direct
    /\ \A b \in g.direct :
          \/ g.targets[b] = << >>
          \/ Len(g.targets[b]) = 1 /\ g.targets[g.targets[b][1]] = << >>
    /\ g.preframe \in BOOLEAN

ASSUME GraphAssumption == \A g \in Graphs : WellFormed(g)
ASSUME LimitAssumption == MaxLayoutBlocks \in Nat /\ MaxRotatedLoops \in Nat

VARIABLES
    graph,         \* the function, never changed
    phase,         \* "plan", "rotate", "setup", "emit", "run" or "returned"
    order,         \* the order of the blocks
    rotations,     \* loops still to rotate
    code,          \* the items emitted
    unemitted,     \* blocks still to emit, in order
    pc,            \* the item that runs next
    block,         \* the block that ran last
    cond,          \* the condition it left
    arrived,       \* the moves made just before it
    performed      \* the moves made since

layoutVars == <<order, rotations, code, unemitted>>
runVars == <<pc, block, cond, arrived, performed>>
vars == <<graph, phase, layoutVars, runVars>>

-----------------------------------------------------------------------------
Blocks == DOMAIN graph.targets
Targets(b) == graph.targets[b]
Preds(b) == {p \in Blocks : b \in Elements(Targets(p))}
IsBranch(b) == Len(Targets(b)) = 2 /\ Targets(b)[1] # Targets(b)[2]

ReachedAvoiding(avoided) ==
    LET step[n \in 0..Len(graph.targets)] ==
          IF n = 0 THEN {Entry} \ avoided
          ELSE LET before == step[n - 1] IN
               before \cup ((UNION {Elements(Targets(b)) : b \in before}) \ avoided)
    IN  step[Len(graph.targets)]
Reachable == ReachedAvoiding({})

(* The intervals of loop_depths.rs: dead blocks dominate nothing and are    *)
(* not dominated.                                                           *)
Dominated(a) == IF a \in Reachable THEN Reachable \ ReachedAvoiding({a}) ELSE {}

(* natural_loop_members: what reaches the latch below the header.           *)
Latches(h) == Preds(h) \cap Dominated(h)
Members(h, latch) ==
    LET below == Dominated(h)
        step[n \in 0..Len(graph.targets)] ==
          IF n = 0 THEN {latch}
          ELSE LET before == step[n - 1] IN
               before \cup ((UNION {Preds(b) : b \in before \ {h}}) \cap below)
    IN  step[Len(graph.targets)] \cup {h}

(* The loops that can be rotated: one latch, which jumps to the header, one *)
(* way in, and a header that tests whether to leave.                        *)
Rotatable(r) ==
    /\ Latches(r.header) = {r.latch} /\ r.latch # r.header
    /\ Len(Targets(r.latch)) = 1
    /\ Cardinality(Preds(r.header) \ r.members) = 1
    /\ IsBranch(r.header)
    /\ Elements(Targets(r.header)) \ r.members = {r.exit}
    /\ r.exit \notin {r.header, r.latch, Entry}
Candidates ==
    {r \in {[header |-> e[2], latch |-> e[1], exit |-> x, members |-> Members(e[2], e[1])] :
               e \in {d \in EdgesOf(graph.targets) : d[1] \in Dominated(d[2])},
               x \in Blocks} : Rotatable(r)}

InnerFirst(r, s) ==
    LET mr == Cardinality(r.members) ms == Cardinality(s.members) IN
    mr < ms \/ (mr = ms /\ r.header < s.header)
(* Vec::retain: what is left of a sequence of distinct blocks, in order.    *)
Without(s, dropped) ==
    LET kept == {i \in DOMAIN s : s[i] \notin dropped} IN
    [k \in 1..Cardinality(kept) |->
        s[CHOOSE i \in kept : Cardinality({j \in kept : j < i}) = k - 1]]

PositionOf(s, b) == CHOOSE i \in DOMAIN s : s[i] = b

(* Header and exit leave their places and follow the latch.                 *)
(* Mutant: the exit is a block of its own place already.                    *)
ExitDropped(rest, at, r) == SubSeq(rest, 1, at) \o <<r.header>> \o SubSeq(rest, at + 1, Len(rest))
Inserted(rest, at, r) ==
    SubSeq(rest, 1, at) \o <<r.header, r.exit>> \o SubSeq(rest, at + 1, Len(rest))

Rotated(s, r) ==
    LET rest == Without(s, {r.header, r.exit}) IN
    IF r.latch \in Elements(rest) THEN Inserted(rest, PositionOf(rest, r.latch), r) ELSE rest

-----------------------------------------------------------------------------
Init ==
    /\ graph \in Graphs
    /\ phase = "plan"
    /\ order = [i \in 1..Len(graph.targets) |-> i]
    /\ rotations = {} /\ code = << >> /\ unemitted = << >>
    /\ pc = 0 /\ block = 0 /\ cond = FALSE /\ arrived = << >> /\ performed = << >>

TooLarge ==
    Len(graph.targets) > MaxLayoutBlocks \/ Cardinality(Candidates) > MaxRotatedLoops

(* Too large a function keeps its order, dead blocks included.              *)
Plan ==
    /\ phase = "plan"
    /\ IF TooLarge
         THEN phase' = "setup" /\ UNCHANGED rotations
         ELSE phase' = "rotate" /\ rotations' = Candidates
    /\ UNCHANGED <<graph, order, code, unemitted, runVars>>

(* The candidates are sorted by their numbers of members, stably.           *)
Rotate ==
    /\ phase = "rotate"
    /\ \E r \in rotations :
          /\ \A s \in rotations \ {r} : InnerFirst(r, s)
          /\ order' = Rotated(order, r)
          /\ rotations' = rotations \ {r}
    /\ UNCHANGED <<graph, phase, code, unemitted, runVars>>

Prune ==
    /\ phase = "rotate" /\ rotations = {}
    /\ order' = Without(order, Blocks \ Reachable)
    /\ phase' = "setup"
    /\ UNCHANGED <<graph, rotations, code, unemitted, runVars>>

-----------------------------------------------------------------------------
(* The items of the assembly.                                               *)
Label(l) == <<[op |-> "label", to |-> l]>>
Jump(l) == <<[op |-> "jump", to |-> l]>>
BranchIf(c, l) == <<[op |-> "branch", when |-> c, to |-> l]>>
Run(b) == <<[op |-> "run", block |-> b]>>
Rerun(b) == <<[op |-> "rerun", block |-> b]>>
Ret == <<[op |-> "ret"]>>
Moves(p, t) == IF <<p, t>> \in graph.moves THEN <<[op |-> "moves", edge |-> <<p, t>>]>> ELSE << >>

Of(b) == <<"block", b>>
EdgeFrom(b) == <<"edge", b>>
ReturnLabel == <<"return", None>>
FrameLabel == <<"frame", None>>
FastLabel == <<"fast", None>>

(* entry_early_return: a guard in the entry, perhaps a second one behind    *)
(* it, either of which goes to a block whose result needs no frame.         *)
Fast == IF Targets(Entry)[1] \in graph.direct THEN Targets(Entry)[1] ELSE Targets(Entry)[2]
OtherThan(b, t) == IF Targets(b)[1] = t THEN Targets(b)[2] ELSE Targets(b)[1]
Second == OtherThan(Entry, Fast)
ReturnsEarly ==
    /\ IsBranch(Entry) /\ Entry \in graph.guards /\ graph.preframe
    /\ Elements(Targets(Entry)) \cap graph.direct # {}
Chained ==
    /\ Preds(Second) = {Entry}
    /\ IsBranch(Second) /\ Second \in graph.guards
    /\ Fast \in Elements(Targets(Second))
Guards == IF Chained THEN {Entry, Second} ELSE {Entry}
LastGuard == IF Chained THEN Second ELSE Entry
Slow == OtherThan(LastGuard, Fast)

GoesFastWhen(b) == Targets(b)[1] = Fast

(* The fast result stands for the fast block and the one it jumps to.       *)
FastResult ==
    Run(Fast) \o (IF Targets(Fast) = << >> THEN << >>
                  ELSE Moves(Fast, Targets(Fast)[1]) \o Run(Targets(Fast)[1])) \o Ret

Prelude ==
    IF Chained
    THEN Run(Entry) \o BranchIf(GoesFastWhen(Entry), FastLabel)
           \o Run(Second) \o BranchIf(GoesFastWhen(Second), FastLabel)
           \o Jump(FrameLabel) \o Label(FastLabel) \o FastResult \o Label(FrameLabel)
    ELSE Run(Entry) \o BranchIf(~GoesFastWhen(Entry), FrameLabel) \o FastResult
           \o Label(FrameLabel)

(* Behind the prologue the guards' instructions run again for their values. *)
EarlySetup ==
    Prelude \o Rerun(Entry) \o (IF Chained THEN Rerun(Second) ELSE << >>)
      \o Moves(LastGuard, Slow) \o Jump(Of(Slow))

(* The blocks that need not be written any more.                            *)
(* Mutant: the fast block is dropped although others still jump to it.      *)
SkippedAlways == Guards \cup {Fast}
Skipped == Guards \cup (IF Preds(Fast) = Guards THEN {Fast} ELSE {})

Setup ==
    /\ phase = "setup"
    /\ code' = IF ReturnsEarly THEN EarlySetup ELSE << >>
    /\ unemitted' = IF ReturnsEarly THEN Without(order, Skipped) ELSE order
    /\ phase' = "emit"
    /\ UNCHANGED <<graph, order, rotations, runVars>>

-----------------------------------------------------------------------------
(* emit_terminator, given the block that is written next.                   *)
JumpUnlessNext(t, next) == IF next = t THEN << >> ELSE Jump(Of(t))

(* Without moves on either edge one conditional branch is enough ...        *)
PlainBranch(b, next) ==
    LET then == Targets(b)[1] else == Targets(b)[2] IN
    IF next = then THEN BranchIf(FALSE, Of(else))
    ELSE IF next = else THEN BranchIf(TRUE, Of(then))
    ELSE BranchIf(FALSE, Of(else)) \o Jump(Of(then))

(* ... with moves, one edge branches to a label of its own.                 *)
(* Mutant: the else edge is taken to fall through when it comes next.       *)
SplitBranchAssumingNext(b, next) ==
    LET then == Targets(b)[1] else == Targets(b)[2] IN
    BranchIf(FALSE, EdgeFrom(b)) \o Moves(b, then) \o Jump(Of(then))
      \o Label(EdgeFrom(b)) \o Moves(b, else)
SplitBranch(b, next) ==
    LET then == Targets(b)[1] else == Targets(b)[2] IN
    IF next = then
    THEN BranchIf(TRUE, EdgeFrom(b)) \o Moves(b, else) \o Jump(Of(else))
           \o Label(EdgeFrom(b)) \o Moves(b, then)
    ELSE BranchIf(FALSE, EdgeFrom(b)) \o Moves(b, then) \o Jump(Of(then))
           \o Label(EdgeFrom(b)) \o Moves(b, else) \o JumpUnlessNext(else, next)

Terminator(b, next) ==
    IF Targets(b) = << >> THEN (IF next = None THEN << >> ELSE Jump(ReturnLabel))
    ELSE IF ~IsBranch(b) THEN Moves(b, Targets(b)[1]) \o JumpUnlessNext(Targets(b)[1], next)
    ELSE IF \E t \in Elements(Targets(b)) : <<b, t>> \in graph.moves THEN SplitBranch(b, next)
    ELSE PlainBranch(b, next)

EmitBlock ==
    /\ phase = "emit" /\ unemitted # << >>
    /\ LET b == Head(unemitted)
           next == IF Tail(unemitted) = << >> THEN None ELSE unemitted[2]
       IN  code' = code \o Label(Of(b)) \o Run(b) \o Terminator(b, next)
    /\ unemitted' = Tail(unemitted)
    /\ UNCHANGED <<graph, phase, order, rotations, runVars>>

EmitEpilogue ==
    /\ phase = "emit" /\ unemitted = << >>
    /\ code' = code \o Label(ReturnLabel) \o Ret
    /\ phase' = "run"
    /\ pc' = 1
    /\ UNCHANGED <<graph, order, rotations, unemitted, block, cond, arrived, performed>>

-----------------------------------------------------------------------------
(* The code runs.                                                           *)
At(op) == phase = "run" /\ pc \in DOMAIN code /\ code[pc].op = op
Here == code[pc]
TargetOf(l) == CHOOSE i \in DOMAIN code : code[i].op = "label" /\ code[i].to = l

RunBlock ==
    /\ At("run")
    /\ block' = Here.block /\ cond' \in BOOLEAN
    /\ arrived' = performed /\ performed' = << >>
    /\ pc' = pc + 1
    /\ UNCHANGED <<graph, phase, layoutVars>>

PassItem ==
    /\ At("label") \/ At("rerun")
    /\ pc' = pc + 1
    /\ UNCHANGED <<graph, phase, layoutVars, block, cond, arrived, performed>>

MakeMoves ==
    /\ At("moves")
    /\ performed' = Append(performed, Here.edge)
    /\ pc' = pc + 1
    /\ UNCHANGED <<graph, phase, layoutVars, block, cond, arrived>>

FollowBranch ==
    /\ At("branch")
    /\ pc' = IF cond = Here.when THEN TargetOf(Here.to) ELSE pc + 1
    /\ UNCHANGED <<graph, phase, layoutVars, block, cond, arrived, performed>>

FollowJump ==
    /\ At("jump")
    /\ pc' = TargetOf(Here.to)
    /\ UNCHANGED <<graph, phase, layoutVars, block, cond, arrived, performed>>

ReturnToCaller ==
    /\ At("ret")
    /\ phase' = "returned"
    /\ UNCHANGED <<graph, layoutVars, runVars>>

Returned == phase = "returned" /\ UNCHANGED vars

Next ==
    \/ Plan \/ Rotate \/ Prune \/ Setup \/ EmitBlock \/ EmitEpilogue
    \/ RunBlock \/ PassItem \/ MakeMoves \/ FollowBranch \/ FollowJump \/ ReturnToCaller
    \/ Returned

Spec == Init /\ [][Next]_vars
-----------------------------------------------------------------------------
(* Every variable has its type, and every label that is used is written     *)
(* exactly once.                                                            *)
LabelsOf(op) == {i \in DOMAIN code : code[i].op = op}
TypeOK ==
    /\ WellFormed(graph)
    /\ phase \in {"plan", "rotate", "setup", "emit", "run", "returned"}
    /\ Elements(order) \cup Elements(unemitted) \subseteq Blocks
    /\ block \in Blocks \cup {0} /\ cond \in BOOLEAN
    /\ Elements(arrived) \cup Elements(performed) \subseteq graph.moves
    /\ phase \in {"run", "returned"} =>
          /\ pc \in DOMAIN code
          /\ \A i \in LabelsOf("jump") \cup LabelsOf("branch") :
                \E j \in LabelsOf("label") : code[j].to = code[i].to
    /\ \A i, j \in LabelsOf("label") : code[i].to = code[j].to => i = j

(* Rotation never loses or repeats a block, and the prologue still falls    *)
(* through to the entry.                                                    *)
OrderComplete ==
    /\ \A i, j \in DOMAIN order : order[i] = order[j] => i = j
    /\ Reachable \subseteq Elements(order)
    /\ order[1] = Entry

(* The emitted code runs the blocks as the terminators say, and makes the   *)
(* moves of every edge it takes once.                                       *)
Abstract == INSTANCE ControlFlow WITH returned <- (phase = "returned")
FollowsControlFlow == Abstract!Spec

(* The comment on loop_rotated_block_order promises "body .. latch, header, *)
(* exit" for canonical loops, so that the latch falls through to the        *)
(* header.  It is not so when a loop's exit is the header of a loop with    *)
(* fewer members: that one is rotated first and loses its header again.     *)
LatchFallsThrough ==
    phase = "setup" /\ ~TooLarge =>
        \A r \in Candidates :
            r.latch \in Reachable => PositionOf(order, r.header) = PositionOf(order, r.latch) + 1
=============================================================================
