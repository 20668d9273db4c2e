------------------------------ MODULE PhiCopies ------------------------------
(***************************************************************************)
(* The phi moves of one control-flow edge, as the RISC-V emitter orders    *)
(* them (codegen/target/riscv64/inst.rs, collect_phi_copies to             *)
(* emit_snapshot_phi_copies).  The compiler emits the moves in a loop and  *)
(* the program runs them in the same order, so one variable, contents, is  *)
(* at once the machine state and what the emitter believes of it.          *)
(***************************************************************************)
EXTENDS Integers, Sequences, FiniteSets

CONSTANTS
    IntLocation,           \* integer registers and frame slots of int/ptr values
    FloatLocation,         \* float registers and frame slots of f32 values
    Remat,                 \* constants and globals: never held in a location
    Junk,                  \* what a scratch register holds after a helper used it
    Before,                \* contents when the edge is taken
    Edges,                 \* records [count, destination, incoming]
    MaxParallelPhiCopies   \* 128 in the code

(* a0, a1, t0, t1 and fa0 serve loads, pops and large frame offsets; t2    *)
(* and ft0 are reserved to open a cycle.                                   *)
Helpers == {"a0", "a1", "t0", "t1", "fa0"}
CycleScratches == {"t2", "ft0"}
Location == IntLocation \cup FloatLocation
Physical == Location \cup Helpers \cup CycleScratches
Value == {Before[s] : s \in Physical \cup Remat} \cup {Junk}

(* Distinct phis of a block have distinct locations of their own class: the *)
(* allocators guarantee it (edge uses and phi results interfere, and each  *)
(* unallocated value has a slot of its own).                               *)
WellFormedEdge(e) ==
    /\ e.count \in Nat
    /\ e.destination \in [1..e.count -> Location]
    /\ e.incoming \in [1..e.count -> Location \cup Remat]
    /\ \A p \in 1..e.count :
          e.incoming[p] \in Remat
             \/ (e.incoming[p] \in IntLocation <=> e.destination[p] \in IntLocation)
    /\ \A p, q \in 1..e.count : e.destination[p] = e.destination[q] => p = q

ASSUME LocationAssumption ==
    /\ IntLocation \cap FloatLocation = {}
    /\ Location \cap Remat = {}
    /\ (Location \cup Remat) \cap (Helpers \cup CycleScratches) = {}
ASSUME EdgeAssumption == \A e \in Edges : WellFormedEdge(e)
ASSUME LimitAssumption == MaxParallelPhiCopies \in Nat

VARIABLES
    edge,                   \* the edge taken
    source,                 \* where each copy reads now (redirected by a cycle)
    pending,                \* the Vec of copies not yet emitted, in list order
    contents,               \* physical location -> value
    pushed,                 \* the copies whose value is on the stack
    stack,                  \* values pushed by the snapshot path
    mode                    \* "collect", "parallel", "push", "pop" or "done"

vars == <<edge, source, pending, pushed, contents, stack, mode>>


(* The location each phi of the target block writes and reads, in block     *)
(* order.                                                                   *)
Phi == 1..edge.count
destination == edge.destination
incoming == edge.incoming

Init ==
    /\ edge \in Edges
    /\ source = incoming
    /\ pending = {}
    /\ pushed = {}
    /\ contents = [l \in Physical |-> Before[l]]
    /\ stack = << >>
    /\ mode = "collect"

(* load_value / load_float_value of a copy's source.                        *)
Fetch(s) == IF s \in Remat THEN Before[s] ELSE contents[s]

(* Contents after some helper registers were used for one move.             *)
Scrubbed == [l \in Physical |-> IF l \in Helpers THEN Junk ELSE contents[l]]

(* Mutant: floats are parked in the register every float move uses.         *)
CycleScratchSharedWithMoves(l) == IF l \in IntLocation THEN "t2" ELSE "fa0"
CycleScratch(l) == IF l \in IntLocation THEN "t2" ELSE "ft0"

IsFirst(p, S) == p \in S /\ \A q \in S : p <= q
(* Mutant: the stack is popped in the order it was pushed.                  *)
IsFirstAgain(p, S) == IsFirst(p, S)
IsLast(p, S) == p \in S /\ \A q \in S : q <= p

(* A copy is ready when no remaining copy, itself included, reads the       *)
(* location it overwrites.                                                  *)
(* Mutant: copies redirected to a scratch are left for the end.             *)
ReadyUnlessSaved(p) ==
    source[p] \notin CycleScratches /\ \A q \in pending : source[q] # destination[p]
Ready(p) == \A q \in pending : source[q] # destination[p]
ReadyCopies == {p \in pending : Ready(p)}

NeedsSnapshot(copies) == Cardinality(copies) > MaxParallelPhiCopies

(* collect_phi_copies drops the phis already in place and picks the plan.   *)
Collect ==
    /\ mode = "collect"
    /\ pending' = {p \in Phi : incoming[p] # destination[p]}
    /\ mode' = IF NeedsSnapshot(pending') THEN "push" ELSE "parallel"
    /\ UNCHANGED <<edge, source, pushed, contents, stack>>

(* The first ready copy leaves the list and is emitted.                     *)
EmitReady ==
    /\ mode = "parallel"
    /\ \E p \in pending :
          /\ IsFirst(p, ReadyCopies)
          /\ pending' = pending \ {p}
          /\ contents' = [Scrubbed EXCEPT ![destination[p]] = Fetch(source[p])]
    /\ UNCHANGED <<edge, source, pushed, stack, mode>>

(* Every pending reader of a saved location reads the scratch instead.      *)
(* Mutant: the rewritten list is dropped.                                   *)
NotRedirected(held) == source
Redirected(held) ==
    [q \in Phi |-> IF q \in pending /\ source[q] = held
                      THEN CycleScratch(held) ELSE source[q]]

(* Every copy is blocked: keep the first destination's old value in the     *)
(* scratch of its class and let all its readers read the scratch instead.   *)
SaveCycle ==
    /\ mode = "parallel"
    /\ ReadyCopies = {}
    /\ \E p \in pending :
          LET held == destination[p] IN
          /\ IsFirst(p, pending)
          /\ contents' = [Scrubbed EXCEPT ![CycleScratch(held)] = contents[held]]
          /\ source' = Redirected(held)
    /\ UNCHANGED <<edge, pending, pushed, stack, mode>>

(* The snapshot path pushes every incoming value in list order ...          *)
SnapshotPush ==
    /\ mode = "push"
    /\ \E p \in pending :
          /\ IsFirst(p, pending \ pushed)
          /\ pushed' = pushed \cup {p}
          /\ stack' = Append(stack, Fetch(source[p]))
    /\ mode' = IF pushed' = pending THEN "pop" ELSE "push"
    /\ contents' = Scrubbed
    /\ UNCHANGED <<edge, source, pending>>

(* ... and pops them into the results in reverse order.                     *)
SnapshotPop ==
    /\ mode = "pop"
    /\ \E p \in pending :
          /\ IsLast(p, pending)
          /\ pending' = pending \ {p}
          /\ pushed' = pushed \ {p}
          /\ contents' = [Scrubbed EXCEPT ![destination[p]] = stack[Len(stack)]]
          /\ stack' = SubSeq(stack, 1, Len(stack) - 1)
    /\ UNCHANGED <<edge, source, mode>>

Finish ==
    /\ mode \in {"parallel", "pop"}
    /\ pending = {}
    /\ mode' = "done"
    /\ UNCHANGED <<edge, source, pending, pushed, contents, stack>>

Next ==
    \/ Collect \/ EmitReady \/ SaveCycle \/ SnapshotPush \/ SnapshotPop \/ Finish

Spec == Init /\ [][Next]_vars

(* Code generation and the emitted straight-line code never pause.          *)
FairSpec == Spec /\ WF_vars(Next)

-----------------------------------------------------------------------------
(* Every variable has its type; copies keep reading locations of their own  *)
(* class or its cycle scratch.                                              *)
TypeOK ==
    /\ edge \in Edges
    /\ pending \subseteq Phi
    /\ pushed \subseteq pending
    /\ source \in [Phi -> Location \cup Remat \cup CycleScratches]
    /\ contents \in [Physical -> Value]
    /\ stack \in Seq(Value)
    /\ mode \in {"collect", "parallel", "push", "pop", "done"}

(* Opening a second cycle of a class never overwrites a scratch register    *)
(* that a copy of an earlier cycle still has to read (one scratch a class   *)
(* is enough because a cycle is emitted to its end before every remaining   *)
(* copy is blocked again).                                                  *)
CycleScratchFree ==
    [][SaveCycle => \A q \in pending :
          \A s \in CycleScratches : contents'[s] # contents[s] => source[q] # s]_vars

(* The emitted moves implement one simultaneous assignment: the locations   *)
(* the allocators hand out are seen only when the edge has been taken.      *)
AllocatedContents ==
    [l \in Location |-> IF mode = "done" THEN contents[l] ELSE Before[l]]

Abstract == INSTANCE ParallelMove
    WITH contents <- AllocatedContents, moved <- (mode = "done")

ImplementsParallelMove == Abstract!Spec

(* The worklist always empties: a blocked list is always reopened by one    *)
(* save, so code generation terminates with the edge taken.                 *)
Termination == <>(mode = "done" /\ pending = {})
=============================================================================
