# A verification project for yuezhuo

yuezhuo is an optimizing compiler from SysY to RISC-V 64 assembly, written in
Rust. The compiler is a sequential program without unit tests; what makes it hard is not threads
but long sequences of legal rewriting steps over control-flow graphs, whose
mistakes show only in the program that comes out. This directory holds TLA+
models of its central algorithms, TLC configurations that check them, and
proofs that TLAPS checks.

All paths below are those of the repository, which is under `src/`; the
compiler is under `src/src/`.

## The system

    main.rs -> lexer -> parser -> ir/lower -> ir/pass (O0 or O1 pipeline)
            -> codegen/common + codegen/target/riscv64 -> assembly text

| Component | Source | State it keeps | Operations and interaction |
|---|---|---|---|
| Driver | `main.rs` | none | reads a file, runs the stages in order, writes the assembly |
| Lexer, parser | `lexer.rs`, `token.rs`, `parser.rs`, `ast.rs` | position in the text or token list | produce the AST; panic or report on bad input |
| Lowering | `ir/lower/*` | scopes, current block, loop targets | turns the AST into blocks with `alloca`, `load`, `store`; no phis |
| IR and verifier | `ir/repr.rs`, `ir/verify.rs` | functions: values, blocks, instructions, terminators | every pass reads and rewrites a function in place; passes that restructure call the verifier and panic when it refuses |
| Pass pipeline | `ir/pass/mod.rs` | a list of passes | 74 steps in all, 5 of them for O0; the order encodes assumptions of single passes |
| Dominators | `ir/pass/dominators.rs` | orders, idom links, tree intervals, frontiers | used by ScalarPromote, Cse, Licm, LocalForward, the verifier and the loop passes |
| ScalarPromote | `ir/pass/scalar_promote.rs`, `util.rs` | phi list, one stack per slot, path in the dominator tree | replaces memory slots by SSA values |
| SimplifyCfg | `ir/pass/simplify_cfg.rs`, `simplify_cfg/structural.rs` | the round's changed flag, rejected conversions | eight rewrites of branches, phis and empty blocks, repeated until none changes anything; runs four times at O1, the last time without regard to loop preheaders |
| Dce | `ir/pass/dce.rs` | set of live values | removes what no effect or terminator needs, and slots nobody reads |
| Memory passes | `cse.rs`, `local_forward.rs`, `licm.rs`, `invariant_load.rs`, `function_effects.rs`, `local_memzero_sink.rs` | expressions by scope of the dominator tree, memory contents by block and by agreement of the ways in, effects of functions | reuse values (`cse.rs`; loads take no part in it) and loads (`local_forward.rs`), drop stores, move code in front of loops |
| Global variable passes | `global_const_prop.rs`, `global_write_only.rs`, `global_scalar_localize.rs`, `regional_global_scalar.rs` | names of globals | read all functions to judge one global; keep globals in slots that ScalarPromote then removes |
| Inlining and recursion | `inline.rs`, `recursive_inline.rs`, `tail_recursion.rs`, `const_specialize.rs` | growth budgets, functions decided about | copy bodies between functions, split blocks, add functions |
| Scalar passes | `const_fold.rs`, `inst_combine.rs`, `affine_reuse.rs`, `range_integer.rs`, `ir/int_range.rs` | replacement tables, intervals | rewrite single operations; the back end asks for the same intervals |
| Loop passes | `loop_analysis.rs` and `small_loop_full_unroll.rs`, `loop_call_memoize.rs`, `loop_memory_promotion.rs`, `constant_address_reduction.rs`, `gep_induction.rs`, `reduction_jam.rs` and others | loops found anew by each pass | unroll, memoize, keep elements in slots, step addresses |
| Register allocation | `codegen/target/riscv64/regalloc.rs`, `codegen/common/local_regs.rs` | live sets, interference graph, assignment | reads the final IR; the emitter asks it where each value lives |
| Emission | `codegen/target/riscv64/{emitter,inst,call,abi,memory}.rs` | the assembly written so far | asks the allocators for locations, orders phi moves, saves and restores registers |
| Block layout | `codegen/common/loop_depths.rs`, `early_return.rs` in `common` and `riscv64` | block order, early-return plan | tells the emitter which blocks to write and in what order |
| Frame, ABI, data | `codegen/common/{layout,sig,abi,call,data,types}.rs` | offsets | used by the emitter |

What is hard, and which property answers it, is in `PROJECT.json` under
`hazards`. In short:

- *Ordering.* SSA assigns all phis of an edge at once, machine code one by one;
  call arguments are loaded while other arguments are still in registers; each
  loop rotation moves blocks an earlier one has placed.
- *Stale facts.* Live sets before the iteration has settled, idom links after a
  single sweep, stacks of a sibling subtree, the block that used to be next in
  the layout.
- *Limits and fallbacks.* Every analysis has a budget and another path when it
  is exceeded; the second path is rarely run by a test program.
- *Unusual graphs.* Irreducible loops, dead cycles, dead predecessors of live
  joins, a loop whose exit is another loop's header.
- *What may alias, what may trap, what may wrap.* Nearly every pass is right
  because of a judgement of one of these three kinds, made about code that the
  passes before it have already rewritten.

## The models

| Module | Models | Correspondence |
|---|---|---|
| `ParallelMove` | the promise of an edge: all phis change at once | abstract specification |
| `PhiCopies` | `collect_phi_copies`, `emit_parallel_phi_copies`, `emit_snapshot_phi_copies` in `inst.rs` | `pending` and `source` are the `Vec<PhiCopy>`, `contents` the machine; an action is an iteration of the worklist or a push or pop |
| `Ir` | the functions all IR models share; `Verified` is `verify_function` without types | operators only |
| `Liveness` | budgets, candidates, the backward iteration, interference and call sets of `regalloc.rs` | `VisitBlock` is the body of the loop over blocks, `EndRound` the test of `changed` and of the round limit |
| `RegAlloc` | `Riscv64RegAlloc::new`, `new_conservative`, `IrLocalRegs` | `ColorNext` is one iteration of the colouring loop, `AssignConservatively` and `AssignLocals` are the other two allocators |
| `AllocMachine` | the code of an allocated function: `emit_params`, operand loads, `emit_call` with register arguments, edges, prologue and epilogue | composes `RegAlloc` (it compiles, then runs); each location remembers which SSA values' current instances it holds |
| `Dominators` | `DominatorInfo` | one action per step of the depth-first search, of the idom sweep and of `intersect`, a pass each for the live blocks, for the regions of dead code and for the dead tree |
| `ScalarPromote` | `promote_function` | placing, renaming, filling and rewriting as in the code; `path` is the recursion stack of the renaming walk |
| `SimplifyCfg` | `simplify_function`: one action per rewrite of a round, one per attempted if-conversion, one to begin the next round | `func` is the function being rewritten, `changed` is `round_changed`, `rejected` and `attempts` belong to the conversion under way |
| `Dce` | `eliminate_dead_code_with_alloca_cleanup` and `remove_write_only_allocas` | operators; `Eliminate` of `SimplifyCfg` is the pass that follows |
| `SimplifiedRun` | the source and the simplified function, run side by side | composes `SimplifyCfg` and `Dce` with an execution of both functions, block by block, calls answered from outside |
| `ControlFlow` | the promise of the layout: blocks follow one another as the terminators say, an edge's moves are made once | abstract specification |
| `BlockLayout` | `loop_rotated_block_order`, `entry_early_return`, the emission loop and `emit_terminator` | compiles, then runs the emitted items |
| `Words` | numbers of `Bits` bits and what the operators of the IR compute | `Computed` is the hardware, used as reference by the folding passes and by `Instructions` |
| `Program` | whole programs: globals, functions with types and constants, the edits of `repr.rs` and `util.rs`, and `function_effects.rs` | operators only |
| `ProgramRun` | what a program does: activations, memory as objects with cells, pointers, traps outside an object | one burst runs to the next call of the library, return or trap |
| `Lowering` | `ir/lower/*` for `int` and its arrays, and the words `codegen/common/data.rs` writes for a global | a pass from a text (the tree the parser makes) to a program |
| `SourceRun` | what C says a text does, initializer lists included | the reference for `Lowering`; evaluated on the tree, never on blocks |
| `Cse` | `cse.rs` and `affine_reuse.rs` | the walk over the dominator tree with its undo list, one state per block |
| `Licm` | `licm.rs`, `invariant_load.rs` and its alias analysis | hoisting by Kahn's schedule; reuse of loads |
| `LocalMemory` | `local_forward.rs`, `local_memzero_sink.rs` | known memory contents merged at joins, lost stores, clears moved behind early returns |
| `GlobalMemory` | the four passes on global variables | over all functions, or over one loop |
| `Inline` | `inline.rs`, `recursive_inline.rs`, `tail_recursion.rs` | expressions, whole graphs, one level of recursion with what has been decided, tail calls as jumps |
| `ScalarSimplify` | `const_fold.rs`, `inst_combine.rs`, `const_specialize.rs` | folding, identities, reassociation, parity and divisibility, divisions of divisions; variants of functions by constant arguments, in rounds under budgets |
| `IntRange` | `ir/int_range.rs`, `range_integer.rs` | intervals on demand with the cycle cut, and what is dropped on their account |
| `Loops` | `loop_analysis.rs` | natural loops, inductions, exact trip counts |
| `LoopRewrites` | `loop_call_memoize.rs`, `small_loop_full_unroll.rs` | memoized calls, full unrolling |
| `LoopMemory` | `loop_memory_promotion.rs`, `constant_address_reduction.rs`, `gep_induction.rs` | elements in slots, counted additions, stepped addresses |
| `PassRun`, `MCPassRun` | `run_pipeline`; the source and the optimized program side by side | one action per pass, ScalarPromote by its own steps; then both programs run |
| `AddressFolding` | the rewritten copy of a function that the allocators see | used by `AllocMachine` |
| `Instructions` | what `inst.rs`, `memory.rs`, `call.rs`, `abi.rs` and `division.rs` write for an operation, a comparison, a branch condition, an address, a load, a store, a call | the instruction list is made, then run one instruction at a time on registers and memory |

`PhiCopies` takes as an assumption that the phis of a block have different
locations; that the allocator provides it is `PhiHomesDistinct` of `AllocMachine`,
checked and proved. `AllocMachine` works on values and places; what the single instructions compute
is `Instructions`. `AllocMachine` in turn treats an edge as one simultaneous
assignment, which is what `PhiCopies` is proved to implement. `BlockLayout`
treats the moves of an edge as one item for the same reason. `RegAlloc` needs
functions the verifier accepts and without dead phis: the last pass at both
levels is Dce.

Programs are compared where the world looks: at calls of the library (the
arguments, and the memory behind pointers), and at the return. What a call
returns is chosen anew each time, so every sequence of answers is tried.
`SimplifiedRun` does this for functions over `Ir`, where conditions and values
are opaque; `PassRun` for programs over `Program`, where they are numbers of a
reduced width, memory has cells, and functions call each other. A program whose
source leaves the bounds of an array, or divides by what C does not allow, has
no promise to keep: its source run traps, and the comparison ends there.

A text is compared with the meaning C gives it, not with the meaning of the
blocks lowering made: `Lower` is the first pass in the queue of a text, and the
passes behind it are checked against the text as well.

In the modules over `Ir`, data is abstracted to identities: a value is a number, a constant or global is
a member of a set, an instruction is its kind, result and operands. Left out are
float values in the allocator (the code handles them by a second instance of
the same analysis), types, the text of instructions and all cost estimates.

## The runs

Each `MC*.tla` builds a family of inputs and each `.cfg` checks one question.

| Run | Shows | Bounds |
|---|---|---|
| `phi_copies` | moves of an edge implement one assignment; scratch never lost; the worklist empties | 4 integer phis, 2 + 2 of both classes, or 5 against a limit of 4; any incoming location |
| `reg_alloc` | live sets exact, colouring proper, live ranges and calls safe after all three allocators | loops, diamonds, straight code and nested loops with varying operands and calls; 2 `s`, 1 `a`, 2 `t` registers; each budget exceeded once |
| `alloc_machine` | on every path every operand, edge value and argument is intact; the caller's registers come back | the same functions, run, and functions with folded addresses (indices that cancel out among them) and with a comparison right before its branch; both allocators |
| `deferred_compare` | a violation: see *Findings* | one function, a call between comparison and branch |
| `dominators` | `intersect` never meets an unprocessed block; trees, frontiers, availability as defined by paths | all graphs of 4 blocks with at most 2 successors (up to the entry's), 5 blocks with 4 dead |
| `block_layout` | order complete; emitted code follows the control-flow graph | all graphs of 4 blocks (up to the entry's edges), loops to 8 blocks, early returns with one and two guards |
| `simplify_cfg` | same calls, memory and return value before and after SimplifyCfg and Dce; valid result without dead phis; preheaders kept when asked for; no more than two rounds for each block and phi | `&&` and `||` and conditional updates with operands, sides and constants varied, loops entered under a condition, threaded tests, loops that die in mid-round, slots: 5 to 7 blocks; 1 conversion per rewrite and round |
| `phi_cycle` | a violation: see *Findings* | one function of 12 blocks |
| `loop_rotation` | a violation: see *Findings* | the same as `block_layout` |
| `passes` | same events before and after lowering and the passes; functions the verifier accepts after each pass; no value outside the interval claimed for it; ScalarPromote's stacks end where they began | see below |
| `global_init` | a violation: see *Findings* | a table of 2 by 2 |
| `instructions` | the instructions compute what the operation means, put arguments where the parameters are read, and change nothing but the result and scratch registers | 8-bit words in 16-bit registers; immediates from -4 to 3; operands and results in every mix of registers, frame slots near and out of reach, and constants |

`passes` starts from twenty programs written to give each pass work it must do
and work it must refuse (pointers that alias and pointers that do not, loops
that trap when they are not entered, recursions even, odd and direct,
unprovable indices, an index that wraps around), from five texts, and from some
hundreds of control-flow skeletons over two slots, which ScalarPromote gets.
Every program goes through the modelled passes in the order `run_pipeline`
queues them for O1, and through two or three of its passes in every order, since
each must be right whatever came before. Words have 8 bits, a library call
answers 0 or 3, and a program may go 320 steps (`MaxQuiet` bursts of 20) from
one event to the next; a source that is still quiet then is reported
(`before.event # Quiet`), so the bound is never what makes the property hold.
The limits of the passes (`PassRun.cfg`) are lowered to where some programs
are over them. The text `Tables` has arrays of several dimensions; it is lowered
and given only to passes that do not depend on strides.

In `instructions`, all dividends meet all positive and some negative divisors;
sums, comparisons and shifts meet samples at the boundaries. One register of
each class is left for arguments, so that with three arguments the second and
third already go by the stack.

The bounds were chosen from what the code distinguishes. Two simultaneous phi
cycles in one class need four phis; a third cycle
meets the same situation as the second. A
register class needs more values than registers once, and each fallback is
reached by lowering one budget. Dominators of irreducible graphs need a second
sweep from four blocks on. Loop rotation interacts between two loops, so two or
three loops and both limits (`MaxLayoutBlocks`, `MaxRotatedLoops`) are enough.
SimplifyCfg's limit of 64 conversions is lowered to 1, so that it is reached and
the rest is left to the next round; `MaxRounds` is never reached.
A property is listed only when a plausible change of the modelled code breaks
it; the changes are the operators marked `Mutant` in the modules.

The only fairness assumed is weak fairness of the next step in `phi_copies`: the
compiler is a sequential loop which is never suspended, and the emitted code
has no branch there. It is used for `Termination`. The other runs check safety; that SimplifyCfg comes
to its last round is stated as a bound on the rounds (`RoundsEnd`), which is also proved;
their termination argument is the order in which each action shrinks its
worklist or its queue of passes, and deadlock is checked: a model that stops before its final state
would be reported. `phi_copies` alone does not check deadlock, since it stops
for good when the edge is taken.

## Findings

`loop_rotation` refutes `LatchFallsThrough`. The comment on
`loop_rotated_block_order` (`codegen/common/loop_depths.rs:90-93`) and
`codegen/README.md:37` promise `body .. latch, header, exit` for canonical loops
and that the latch falls through to its header. When the exit of a loop is
itself the header of a loop with fewer members, that loop is rotated first and
then the larger one moves the header behind its own (the final SimplifyCfg does
not preserve preheaders, so such a pair of loops reaches the back end). The
result is an extra jump on the smaller loop's hot path. The generated code
stays correct: `OrderComplete` and `FollowsControlFlow` hold on the same graphs.

`phi_cycle` refutes `ReplacementsResolve`: a table of replacements must lead to
a value that is not replaced, as the comment in `resolve_replacement`
(`ir/pass/util.rs:47`) has it. `simplify_trivial_phis` takes all trivial phis of
the function into one table, and a loop that `simplify_branches` cut off earlier
in the round is still there: with one way in gone and one side of an inner join
gone, header phi and join phi are each the only operand of the other, and
`while let Some(next)` never ends. The function of the run is

    t = p;
    if (k && ask())
        while (ask()) { g(1); if (k && ask()) t = 1; else f(t); }
    return t;

where `k` is a constant false by the time of the last SimplifyCfg. The run needs
a condition that only becomes constant behind the runs that keep preheaders (the
preheader must go in the first round, the empty branch of the join in the second,
and both tests must fold in the third); `LocalForward`, `InstCombine` and
`ConstFold` run between the two without a SimplifyCfg among them. How the front
end gets there is not modelled: the run shows what SimplifyCfg does with such a
function, which the verifier accepts. On every function of `simplify_cfg` the
table resolves, since the model would stop there otherwise and deadlock is
checked.

`deferred_compare` refutes `SurvivesClobber`: what an operand of an emitted
comparison needs must survive the calls before it, as the comment on the live
set at a call says (`regalloc.rs:435-437`). `direct_branch_icmp`
(`inst.rs:1322`) leaves a comparison to the branch of its block when nothing
else uses it, whatever stands between the two, while the allocators end the
lives of its operands where it stands. Lowering puts a comparison right before
its branch, but Cse lets a branch use an earlier one that is equal; the finding
in `PROJECT.json` has a source program. In `alloc_machine` such a comparison
only occurs next to its branch, and there everything holds.

`global_init` refutes `SameEvents` for `int c[2][2] = {1, 2, 3, 4}` as a
global: `lower_const_init` (`ir/lower/const_eval.rs:34`) makes one row of each
item of a list, number or list, and `emit_const_words` writes a number that
stands for a row as a single word. The table comes out short, and later cells
are not where the program looks for them. Local tables go another way
(`fill_init`), which counts cells. A test of the repository has such a table and
never reads it.

Smaller disagreements with C that no run reports, because the inputs stay clear
of them: a brace list in mid-row of a *local* table of three dimensions steps
over a whole row of the first one (`init.rs:113`); the length of a local array
is computed from global constants only, so a local constant of the same name is
passed over (`stmt.rs:25`); braces around the value of a global scalar are an
error. The folding of x / x to 1 gives 1 where the hardware gives -1 for 0 / 0,
which C leaves open; the programs of `passes` do not divide by zero.

## The proofs

TLC checks small functions; these theorems hold for every set of functions or
graphs, every register file and every limit, from the assumptions named in the
modules.

- `PhiCopiesProofs`. The invariant says that in the worklist phase every pending
  copy's source still holds what its incoming value held before the edge
  (`SourcesIntact`), every finished phi has its value, and every other location
  is untouched; the snapshot phase adds that the stack holds the pushed values in list
  order. It gives `TypeCorrect` and, with it, `Refinement`: every step is a
  stutter of `ParallelMove` or its one assignment. `ScratchNeverLost` needs a
  counting argument: when every copy is blocked, the destinations are injected
  into the sources (`InjectionOntoSelf`, `BlockedReadsDestinations`), so each
  source is a destination and no copy reads a scratch. This is why one scratch per
  class is enough.
- `RegAllocProofs`. `LivenessSolved`: the blocks visited since the last change
  satisfy their equations (`Settling`), so an iteration that stops by itself has
  solved them all. `ColoringIsProper` rests on the symmetry of the graph and on
  the chosen colour being allowed. `DefinitionsAreClear` combines the two: in a
  coloured function, nothing live beyond a definition shares its register.
  `LivenessExact` adds the other direction: whatever the
  iteration has put into a live set is demanded by some path (`NeededOnly`,
  kept by each visit through `NextInNeeded`), so a settled solution is the least
  one. `LiveRangesStayDisjoint` then follows the same argument for each
  allocator: two values live at one place meet in the interference graph,
  because the later of the two definitions sees the other one live
  (`LiveTogetherConflict`; a value live at its own function's entry would be
  read undefined, which the verifier excludes, `NothingNeededOnEntry`); the
  conservative allocator gives a register only once (`ConservativeExclusive`);
  the block-local scan keeps every unexpired interval apart from the free list
  (`ScanKeeps`, `LocalPairsApart`). `CallsPreserveLive` uses the same facts for
  the values that live across a call. Both assume what `RegAlloc` is given in
  the compiler: functions the verifier accepts, register lists without
  repetitions.
- `AllocMachineProofs` is about the code of an allocated function while it runs.
  `MachineInvariance` is one inductive invariant from compilation to return. While
  the allocators work it is that of `RegAllocProofs` (`Allocating`); when they are
  done it gives `Placed`, which mentions only what stays fixed from then on: an
  instruction's result goes where nothing is that is live after it
  (`DefinitionsSpare`), what is live across a call is in callee-saved registers or
  slots (`CallsSpare`), what a call reads and where a parameter goes is not in the argument
  registers (`OperandsSpare`, `ParamsSpare`). The last one needs a fact about the
  conservative allocator: without calls its values are computed ones
  (`ConservativeInsts`), never parameters. The machine then keeps `Holding`:
  every value that is live at the current place (`LiveAt`, from paths) is in its home. A
  definition keeps it because of `DefinitionsSpare`, an edge because a value live at the
  target is live at the end of the source (`LiveAlongEdge`) and no phi's home is in
  its way, and phis do not share homes either (`PhisApart`: a phi that is read somewhere is
  live behind the phis, `PhiResultLive`). While arguments are loaded, only the values
  outside the argument registers are claimed, and the arguments from the last
  one down (`Delivered`). The emitted function and the one the allocators saw are
  related by `ViewFacts`, `InstSeen` and `PhisSeen`: folding leaves no phi out, and
  nothing the code still reads is gone (`MadeNotRead` for comparisons that the
  branch makes). From the invariant follow all six properties of `AllocMachine`:
  `EdgeValuesStayIntact`, `ArgumentsAreDelivered`, `CallerStaysUndisturbed`,
  `PhiHomesStayDistinct`, `MachineTypeCorrect` and `OperandsStayIntact`. The last
  one has a proviso, `ComparesLast`: nothing is emitted between a comparison that a branch
  makes and the branch. Without it the claim is false, which is the finding of
  `deferred_compare`; what instructions read needs no proviso. The
  functions of `alloc_machine` all meet it (`SourcesCompareLast`, which TLC
  evaluates). Assumed of the functions is `Compilable`, what the last pass leaves.
  `ViewsAreVerified` proves that the allocators' view of such a function is again a
  function the verifier accepts, without dead phis, which is what `RegAlloc`
  assumes of its functions. The base of a folded address is the start of its own
  gep or an earlier address of the block that is itself computed
  (`FoldedGep`, `BaseComputed`), so it may be read wherever the address could be
  (`BaseReadable`, by transitivity of availability, `AvailableOrder`, in dead
  code too); the rounds that collect dead values end in a fixpoint
  (`DeadSettled`, `GrowthSettles`), so no value that is left reads an elided one
  (`OperandsKept`, `EndKept`) and no phi that is left lacks a reader
  (`ViewPhisRead`). That the first address of a group must not itself be folded onto
  a constant distance, `contains_key` in `fold_same_block_affine_memory_geps`,
  is needed here: with an index like `i - i` the view would otherwise read an address
  nobody computes. The functions `Cancelled` of the run exercise it.
- `DominatorsProofs`. `IntersectNeverPanics` and `ClimbsEnd` hold for all
  graphs, irreducible ones included. The invariant carries what the depth-first
  search guarantees (its stack is a path, every block but the root has a
  predecessor that finishes after it) into the sweeps, where it shows that one
  predecessor is always processed, that the two fingers only
  rest on processed blocks, and that a dominator is strictly later in postorder.
  `DominanceIsExact` and `FrontiersAreExact` compare the finished analysis with paths. Both sides are described by closed sets: what the root
  reaches avoiding some nodes is the least set closed under the other edges
  (`Walked`), the ancestors of a node are the least set closed under its links
  (`Above`). The invariant `DomInv` follows the computation. The search enters
  exactly what the root reaches (`Explored`). A sweep never loses a dominator: all
  dominators of a processed node are among its ancestors (`NoneLost`; for the
  intersection under way, `Meeting`), because a node is always reached from its
  link without climbing above it (`Reached`), and so moving a link up drops only
  ancestors that can be avoided. When
  a sweep changes nothing, each link is an ancestor of all predecessors
  (`Stable`); then the nodes below an ancestor form a set no other edge enters,
  so ancestors are dominators, and with `NoneLost` the links are exactly the tree
  (`SettledAncestors`, `TreeOfDominators`). The numbering keeps its stack on one
  line of the tree (`TreeWalk`), and the intervals of finished nodes are their subtrees
  (`Intervals`). The walk of `compute_frontier` visits the ancestors between a
  predecessor and the join's dominator (`ChainIsSegment`); a join with one
  predecessor has an empty frontier because that predecessor dominates it
  (`OnlyPredecessor`). This last step needs an entry without
  predecessors, which the verifier demands (`EntryAssumption`); dominance itself
  does not use it. With an edge to the entry the code would not find the entry in
  its own frontier.
  `AvailabilityIsExact` is about the dead part, where the same sweep and
  numbering run below a virtual root. What has to be shown is that this root stands for
  every way into the dead part. In the first search a block that has been left has
  led to left blocks only, or lies on a cycle with a block still on the stack
  (`Returning`); so of the blocks that reach each other, one is left after all
  they lead to (`LateMembers`). Collecting backwards from the last node left then
  collects exactly a component (`CollectsCycle`, `Classified`); the components no
  edge enters are those every walk begins in (`SourcesAreStarts`), and the
  ascending list below the virtual root holds all their members (`DeadRoots`).
  `TreeExact` is the statement about trees and intervals for both passes. The
  property's reference differs from the code's own wording: it speaks of walks
  and never of components.
  `TypesAreKept` bounds the counters: each position and each preorder number
  handed out belongs to a node of its own (`Counted`, `Numbers`), so there are no
  more of them than nodes (`CountersBounded`).
- `ScalarPromoteProofs`. `StacksAreRestored` holds for any number of functions
  taken up one after the other (`Pass`), of which nothing is assumed but their shape
  (`IsFunction`). The invariant has a part for each phase: while phis are placed, no
  block gets two for one slot (`OnePhi`, from the slots before and the set of
  placed blocks); while blocks are renamed, there are heights for each slot, one for each frame of the
  path, that start from the seed, grow by what the frame has pushed and end with
  the length of the stack (`Climbs`). A block's phis are pushed by slot but popped by
  count, which is where `OnePhi` is needed (`OwnPhi`).
- `BlockLayoutProofs`. `NoBlockLost`: as long as rotation runs, the order is a
  permutation of the blocks (`Distinct`, `Elements(order) = Blocks`); header and exit of a
  candidate are never the entry and never the latch, so both can be taken out
  and put behind the latch (`Movable`, `WithoutFacts`, `InsertedFacts`); pruning
  keeps the entry because the entry is reachable (`ReachableFacts`).
  `CodeFollowsControlFlow` is the refinement of `ControlFlow`, for any order the
  layout comes up with. It says what code does by where it leads: a place
  `Enters` a block when only labels and reruns stand before its instructions or a
  jump to it, `Delivers` an edge when the edge's moves stand there first, `Routes`
  a block's outcome when a branch decides between two such places, and `Ends`
  when it returns. `TerminatorLeads` shows that each shape `emit_terminator`
  writes routes both outcomes, given the block that is written next;
  `EarlyLeads` shows the same of the guards before the prologue. `LayoutInv` carries this
  through the emission: every block written so far leads on, except that the last
  one may count on the next in the queue (`LastOf`), which `PendingLeads`
  redeems. What is still aimed at is
  still to be written, because the order is closed under targets (`Closed`;
  `EmittedClosed` for the blocks that are left out behind the early return).
  In the running code `Running` relates the place to the block that ran last, its
  condition and the moves made since, so each item either is a stutter of
  `ControlFlow` or its one step. `LabelsWrittenOnce` is the type invariant:
  labels are distinct, every one that is aimed at exists, and the code never runs off
  its end.
- `SimplifyCfgProofs`. `SimplifiedFunctionsVerify`: whatever verified function
  SimplifyCfg is given, and however many rounds it takes, what is left after Dce
  verifies and has no dead phis (`ReadyForBackEnd`). `Verified` is not inductive. A
  rewrite that takes the last edge to a block leaves the block where it is until the
  next round, its phis name blocks that no longer jump to it, and what it reads may be
  defined nowhere above it. The invariant (`SimplifyInv`) is therefore about the
  code that control can reach (`Sound`): there every phi has one value for each
  reachable predecessor, and every read is passed by a definition on all ways from
  the entry (`MayRead`, dominance said with walks). Of the rest it asks only what the types of
  `repr.rs` guarantee (`Constructed`) and single assignment. A second part,
  `AllReached`, bridges to the end: `remove_unreachable_blocks` is the first rewrite
  of a round, so while nothing has changed since, every block is reachable; the
  last round changes nothing, and for a function all of whose blocks are reachable
  `Sound` is `Verified` (`SoundVerified`). Each rewrite has its lemma.
  `LiveSound` is the renumbering of the blocks that stay; what the others defined
  is read by none of them. `BranchesSound` takes edges away, from terminators and phis at
  once. The two if-conversions are taken back unless the result verifies, so what has to
  be shown is only that what they try is a function (`ShortCircuitMade`,
  `UpdateMade`), and that verified functions are sound (`VerifiedSound`). `ThreadedSound` is about
  `thread_boolean_phi_branches`: candidates are collected first and redirected one by
  one, so each must be looked at in the function the earlier ones have left
  (`ThreadedFrom`); a predecessor may read the value it passed to the phi at its
  own end, and the targets have no phis to complete. `TrivialSound` follows
  the replacement table to its end, and every value on the way may be read where the phi
  could be. It needs the table to have no cycles, which the action has as
  its guard: that it may have one is the finding of `phi_cycle`, after which the code
  takes no further step. `ForwardedSound` gives each predecessor of the empty block the
  value the block passed on; `MergedSound` moves a block's places behind
  another's and shows that no definition is overtaken; `EliminatedSound` is Dce, where the values
  left unmarked have no reader that stays. Assumed is `ProgramAssumption`: the functions
  given to the pass verify, as every pass before it has checked.
  `RoundsAreBounded`: the pass begins no more than two rounds for each block and phi of the
  function it was given (`RoundsEnd`), without anything in the code that counts. The size of a
  function is no measure: threading gives each predecessor a branch of its own,
  and if-conversion adds instructions. What never grows is the set of blocks that control
  reaches and of the phis in them (`Live`, its number `Weight`), and a rewrite that changes a function
  all of whose blocks are reachable takes something out of it (`Lessens`, one lemma
  for each rewrite: the block that is bypassed loses its phi, the block whose
  instruction or code has moved and the empty block are no longer reached, a trivial phi
  is gone). There are two exceptions. `remove_unreachable_blocks` keeps `Live` up to
  renumbering (`SurvivorsWeigh`) and changes nothing when it has nothing to remove
  (`NothingUnreachable`). `simplify_branches` may turn a branch with equal targets into a jump
  and lose nothing, but then no branch is left that it could decide (`Settled`,
  `BranchesLess`). So a round that took nothing away is followed by one whose first two rewrites
  have nothing to do, and which either takes something away or changes nothing and
  is the last. `Progress` is this as an invariant: rounds begun plus twice
  the weight stay below a constant, with one or two to spare (`Spare`) depending on the
  phase. "Changes nothing" means that the record is the same, so `Exact` carries along
  that a function has no more than its fields. A table of trivial phis with a cycle
  is outside the theorem, as above: the pass then hangs inside one round.
- `Iteration` holds facts the others share. Reachability and the other
  references are recursive functions, whose properties need induction. The
  library's induction theorems take a predicate and cannot be used by the
  installed provers, but its well-foundedness of `<` can: from it follow the
  least element of a set of numbers, induction for a set (`SetInduction`), the
  existence of an iteration's states and what every step of it preserves.
  `RankNumbers` counts a finite set of numbers.

Only model-checked: `DominatorsOnlyRise`; of `SimplifiedRun` the properties
`SameEvents` and `PreheadersKept`; `PassRun` with its passes; and
`Instructions`. That a sweep
only ever moves a dominator up holds on all graphs that were tried, but no inductive
reason for it is known; the theorems above do not need it. `SameEvents` of
`SimplifiedRun` and `PassRun` compares two executions, which takes a simulation
relation for every single rewrite. `Termination`, like everything about fairness and ENABLED, is left
to TLC.

## Plan

The modelling steps, all done: phi copies; liveness, allocation and the
allocated program; dominators and ScalarPromote; block layout; SimplifyCfg and
Dce; function effects with the memory passes; inlining and recursion; globals;
arithmetic at a reduced width with folding, ranges, trip counts and constant
division; the calling convention with the frame; lowering with a reference
meaning of texts; loop memory and addresses.

Worth adding: the simulation for SimplifyCfg's
simplest rewrites (`remove_unreachable_blocks`, `merge_linear_block`), as a first part of
`SameEvents`.

## Not modelled

- *Floating point*: constants, arithmetic, conversions, and the second instance
  of the allocator that serves the float registers. Arguments of float type do
  take part in the calling convention.
- *Passes for one loop shape each*: `reduction_jam`, `repeat_reduction`,
  `bitwise_digit_loop`, `guarded_shift_dispatch`, `modular_recurrence`,
  `adjacent_loop_fusion`, `pointer_recurrence_coalesce`. Each matches one
  pattern over some hundred lines and replaces it by closed arithmetic or by a
  copy of the loop; a model would restate the pattern. They are missing from the
  queue of `passes`, which runs the others in the order that remains.
- *SimplifyCfg among the other passes*: `simplify_cfg` checks it over opaque
  conditions; in `passes` only its removal of unreachable blocks is run, behind
  full unrolling, which calls it.
- *In the emitter*: memory clears, the halving of loop variables known to be
  even (`inst.rs:1341-1712`), alignment of hot labels, rematerialized addresses
  as a cost question, and the choice of plans by cost: any choice is correct.
- *The front of the compiler*: lexer and parser restate a grammar; the driver
  is input and output. Lowering leaves out strings, the line arguments of
  the timing calls, and what is a compile error.
- Test programs, tools and documents.

## Running

    tlc -workers 2 -config PhiCopies.cfg MCPhiCopies      # and so on
    tlapm PhiCopiesProofs.tla
