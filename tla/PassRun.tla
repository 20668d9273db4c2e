------------------------------ MODULE PassRun -------------------------------
(***************************************************************************)
(* The pass pipeline (PassPipeline of ir/pass/mod.rs) applied to a whole   *)
(* program, lowered first when it comes as a text, and then the program    *)
(* and its optimized version run side by side over the same inputs.        *)
(***************************************************************************)
EXTENDS Cse, Licm, GlobalMemory, LocalMemory, Inline, ScalarSimplify, IntRange,
        LoopRewrites, LoopMemory, SourceRun, ScalarPromote

CONSTANTS
    Inputs,            \* [prog, passes]: a program and the passes queued for it,
                       \* a pass with options being named for what they allow
    RecursiveRounds    \* recursive_inline_rounds

VARIABLES
    source,        \* the program as it was
    prog,          \* the module the passes share
    todo,          \* passes still queued
    decided,       \* functions RecursiveInline has decided about
    before,        \* the run of source
    after,         \* the run of prog
    promoting      \* the function ScalarPromote is at, 0 when it is not running

runVars == <<before, after>>
promoteVars == <<promoting, promotionVars>>
vars == <<source, prog, todo, decided, runVars, promoteVars>>

Init ==
    \E i \in Inputs :
      /\ source = i.prog /\ prog = i.prog /\ todo = i.passes /\ decided = {}
      /\ before = Idle /\ after = Idle
      /\ promoting = 0 /\ PromotionInit

Begun == before # Idle
IsNext(pass) == ~Begun /\ promoting = 0 /\ todo # << >> /\ Head(todo) = pass

(* The next pass of the queue leaves its result for the following ones.     *)
Runs(pass, result) ==
    /\ IsNext(pass)
    /\ prog' = result
    /\ todo' = Tail(todo)
    /\ UNCHANGED <<source, decided, runVars, promoteVars>>

Lower == Runs("Lower", LowerProgram(prog))
RunCse == Runs("Cse", CsePass(prog))
RunLicm == Runs("Licm", LicmPass(prog))
RunAffineReuse == Runs("AffineReuse", AffineReusePass(prog))
RunGlobalConstProp == Runs("GlobalConstProp", GlobalConstPropPass(prog, FALSE))
RunGlobalConstPropInitialized == Runs("GlobalConstPropInitialized", GlobalConstPropPass(prog, TRUE))
RunGlobalWriteOnly == Runs("GlobalWriteOnly", GlobalWriteOnlyPass(prog))
RunLocalForward == Runs("LocalForward", LocalForwardPass(prog))
RunInvariantLoadForward == Runs("InvariantLoadForward", InvariantLoadForwardPass(prog))
RunTailRecursion == Runs("TailRecursion", TailRecursionPass(prog))
RunInlineSmallExpr == Runs("InlineSmallExpr", InlineSmallExprPass(prog))
RunConstFold == Runs("ConstFold", ConstFoldPass(prog))
RunInstCombine == Runs("InstCombine", InstCombinePass(prog))
RunDivisibilityOnly == Runs("DivisibilityOnly", DivisibilityOnlyPass(prog))
RunRangeIntegerSimplify == Runs("RangeIntegerSimplify", RangeIntegerSimplifyPass(prog))
RunGlobalScalarLocalize == Runs("GlobalScalarLocalize", GlobalScalarLocalizePass(prog, FALSE))
RunLocalizeAcrossCalls == Runs("LocalizeAcrossCalls", GlobalScalarLocalizePass(prog, TRUE))
RunLoopCallMemoize == Runs("LoopCallMemoize", LoopCallMemoizePass(prog))
RunRegionalInvariantGlobalLoad == Runs("RegionalInvariantGlobalLoad", RegionalInvariantGlobalLoadPass(prog))
RunRegionalGlobalScalar == Runs("RegionalGlobalScalar", RegionalGlobalScalarPass(prog))
RunLoopMemoryPromotion == Runs("LoopMemoryPromotion", LoopMemoryPromotionPass(prog))
RunConstantAddressReduction == Runs("ConstantAddressReduction", ConstantAddressReductionPass(prog))
RunGepInduction == Runs("GepInduction", GepInductionPass(prog))
RunConstSpecialize == Runs("ConstSpecialize", ConstSpecializePass(prog, FALSE, FALSE))
RunSpecializeRecursive == Runs("SpecializeRecursive", ConstSpecializePass(prog, TRUE, TRUE))
RunSmallLoopFullUnroll == Runs("SmallLoopFullUnroll", SmallLoopFullUnrollPass(prog))
RunCfgInline == Runs("CfgInline", CfgInlinePass(prog, FALSE, FALSE))
RunCfgInlineMemory == Runs("CfgInlineMemory", CfgInlinePass(prog, TRUE, TRUE))
RunLocalMemzeroSink == Runs("LocalMemzeroSink", LocalMemzeroSinkPass(prog))
RunDce == Runs("Dce", EachFunction(prog, LAMBDA f : DeadCodeEliminated(f, TRUE)))

RunRecursiveInline ==
    /\ IsNext("RecursiveInline")
    /\ LET done == RecursiveInlinePass(prog, decided, RecursiveRounds) IN
       prog' = done.prog /\ decided' = done.decided
    /\ todo' = Tail(todo)
    /\ UNCHANGED <<source, runVars, promoteVars>>

(* ScalarPromotePass takes the functions one after the other.               *)
BeginPromotion ==
    /\ IsNext("ScalarPromote")
    /\ promoting' = 1 /\ StartPromotion(prog.funcs[1])
    /\ UNCHANGED <<source, prog, todo, decided, runVars>>

PromoteFunction ==
    /\ Promote
    /\ UNCHANGED <<source, prog, todo, decided, runVars, promoting>>

NextPromotion ==
    /\ promoting \in 1..(Len(prog.funcs) - 1) /\ phase = "done"
    /\ prog' = [prog EXCEPT !.funcs[promoting] = func]
    /\ promoting' = promoting + 1 /\ StartPromotion(prog.funcs[promoting + 1])
    /\ UNCHANGED <<source, todo, decided, runVars>>

EndPromotion ==
    /\ promoting = Len(prog.funcs) /\ phase = "done"
    /\ prog' = [prog EXCEPT !.funcs[promoting] = func]
    /\ promoting' = 0 /\ todo' = Tail(todo)
    /\ UNCHANGED <<source, decided, runVars, promotionVars>>

Transform ==
    \/ Lower
    \/ RunCse \/ RunLicm \/ RunAffineReuse \/ RunGlobalConstProp \/ RunGlobalConstPropInitialized
    \/ RunGlobalWriteOnly \/ RunLocalForward \/ RunInvariantLoadForward \/ RunTailRecursion
    \/ RunInlineSmallExpr \/ RunConstFold \/ RunInstCombine \/ RunDivisibilityOnly
    \/ RunRangeIntegerSimplify \/ RunGlobalScalarLocalize \/ RunLocalizeAcrossCalls
    \/ RunLoopCallMemoize \/ RunConstSpecialize \/ RunSpecializeRecursive
    \/ RunSmallLoopFullUnroll \/ RunRecursiveInline \/ RunCfgInline \/ RunCfgInlineMemory
    \/ RunRegionalInvariantGlobalLoad \/ RunRegionalGlobalScalar
    \/ RunLoopMemoryPromotion \/ RunConstantAddressReduction \/ RunGepInduction
    \/ RunLocalMemzeroSink \/ RunDce
    \/ BeginPromotion \/ PromoteFunction \/ NextPromotion \/ EndPromotion

Begin ==
    /\ todo = << >> /\ ~Begun
    /\ before' = IF IsText(source) THEN TextRun(source, << >>) ELSE ToEvent(source, Start(source, << >>))
    /\ after' = ToEvent(prog, Start(prog, << >>))
    /\ UNCHANGED <<source, prog, todo, decided, promoteVars>>

Answer ==
    /\ before.event.kind = "call" /\ after.event.kind = "call"
    /\ \E answer \in {0, 3} :
          /\ before' = IF IsText(source) THEN TextRun(source, Append(before.answers, answer))
                       ELSE ToEvent(source, Answered(source, before, answer))
          /\ after' = ToEvent(prog, Answered(prog, after, answer))
    /\ UNCHANGED <<source, prog, todo, decided, promoteVars>>

Ended == before.event.kind \in {"return", "trap"} /\ UNCHANGED vars

Next == Transform \/ Begin \/ Answer \/ Ended

Spec == Init /\ [][Next]_vars
-----------------------------------------------------------------------------
(* Whatever the library answers, the optimized program makes the same calls *)
(* with the same numbers and the same memory behind the pointers, in the    *)
(* same order, and main returns the same value; a program that leaves an    *)
(* array's bounds promises nothing.                                         *)
SameEvents ==
    Begun => /\ before.event # Quiet
             /\ before.event.kind = "trap" \/ before.event = after.event

(* Lowering is refused, and every pass panics, when a function does not     *)
(* verify.                                                                  *)
StaysVerified ==
    ~Begun /\ promoting = 0 /\ ~IsText(prog) => \A k \in DOMAIN prog.funcs : Verified(prog.funcs[k])

(* What an activation has computed by where it stands: whatever is defined  *)
(* above it in the block or in one that dominates it.                       *)
ComputedBy(f, top) ==
    {ResultAt(f, s) : s \in {t \in Sites(f) :
        IF t[1] = top.block THEN t[2] < top.next ELSE Dominates(f, t[1], top.block)}} \ {NoValue}

(* A value is in the interval int_range.rs claims for it wherever it has    *)
(* been computed, in the source and in what the passes made of it; the      *)
(* passes drop divisions, and the back end sign tests, on that account.     *)
RangesSound ==
    \A run \in {r \in {<<source, before>>, <<prog, after>>} : ~IsText(r[1])} :
       With(ReturnRanges(run[1]), LAMBDA returns :
         \A n \in DOMAIN run[2].stack :
           LET top == run[2].stack[n]
               f == run[1].funcs[top.fn]
           IN  With(ValueRanges(f, returns), LAMBDA ranges :
                 \A v \in ComputedBy(f, top) :
                   \A r \in ranges[v] : r.min <= top.env[v] /\ top.env[v] <= r.max))
=============================================================================
