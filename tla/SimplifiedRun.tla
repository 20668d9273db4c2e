--------------------------- MODULE SimplifiedRun ----------------------------
(***************************************************************************)
(* A function and what SimplifyCfg made of it, run side by side.  Their    *)
(* blocks differ, so they are compared at what the world sees: calls and   *)
(* the return.  What a call returns is up to the callee.                   *)
(***************************************************************************)
EXTENDS SimplifyCfg

CONSTANT MaxQuiet      \* steps a program may take between two events

(***************************************************************************)
(* What a function means, block by block.  Scalars are 0..2, the pointer   *)
(* to a slot is SlotBase plus its alloca's value number (a slot is one     *)
(* cell, whatever the index), and memory never written holds Junk.  A call *)
(* sees its arguments and the contents of the slots whose address it gets, *)
(* and may change those.                                                   *)
(***************************************************************************)
Junk == 7
SlotBase == 100
PointerTo(slot) == SlotBase + slot
IsPointer(d) == d > SlotBase

Total(data) == FoldSeq(LAMBDA d, sum : d + sum, 0, data)

(* What code computes, reads and reports.  A state is [env, mem, events].   *)
Datum(f, env, v) == IF IsConst(f, v) THEN Literal(v) ELSE env[v]
Data(f, env, args) == [k \in DOMAIN args |-> Datum(f, env, args[k])]

Assigned(st, v, d) == IF v = NoValue THEN st ELSE [st EXCEPT !.env[v] = d]

(* Arithmetic is modulo 3, a truth value is 0 or 1.                         *)
Truth(condition) == IF condition THEN 1 ELSE 0

Arithmetic(op, d) ==
    CASE op = "add" -> (d[1] + d[2]) % 3
      [] op = "sub" -> (d[1] + 2 * d[2]) % 3
      [] op = "mul" -> (d[1] * d[2]) % 3
      [] op = "not" -> Truth(d[1] = 0)
      [] op = "and" -> Truth(d[1] # 0 /\ d[2] # 0)
      [] op = "or" -> Truth(d[1] # 0 \/ d[2] # 0)
      [] op = "eq" -> Truth(d[1] = d[2])
      [] op = "toint" -> d[1]
      [] op = "tobool" -> Truth(d[1] # 0)
      [] OTHER -> (Total(d) + 1) % 3

RunInst(f, st, inst) ==
    LET data == Data(f, st.env, inst.args)
        pointers == {d \in Elements(data) : IsPointer(d)}
    IN  CASE inst.op \in {"nop", "phi"} -> st
          [] inst.op = "alloca" -> Assigned(st, inst.result, PointerTo(inst.result))
          [] inst.op = "load" -> Assigned(st, inst.result, st.mem[data[1]])
          [] inst.op = "store" -> [st EXCEPT !.mem[data[1]] = data[2]]
          [] inst.op = "call" ->
               LET shown == [d \in pointers |-> st.mem[d]]
                   returned == (Total(data) + 2) % 3
               IN  [Assigned(st, inst.result, returned) EXCEPT
                       !.mem = [d \in DOMAIN @ |-> IF d \in pointers THEN (@[d] + 1) % 3 ELSE @[d]],
                       !.events = Append(@, <<data, shown>>)]
          [] inst.op = "gep" -> Assigned(st, inst.result, data[1])
          [] inst.op = "memzero" -> [st EXCEPT !.mem[data[1]] = 0]
          [] OTHER -> Assigned(st, inst.result, Arithmetic(inst.op, data))

(* Phis take their values together, from the edge by which control came.    *)
EnterBlock(f, st, b, from) ==
    [st EXCEPT !.env = [v \in DOMAIN @ |->
        IF v \in PhiResults(f, b)
        THEN Datum(f, st.env, Incoming(CHOOSE q \in Phis(f, b) : q.result = v, from))
        ELSE @[v]]]

(* Before the function runs: parameters have some value, slots none.        *)
StartState(f, input) ==
    [env |-> [v \in Values(f) |-> IF f.kind[v] = "param" THEN input ELSE Junk],
     mem |-> [d \in {PointerTo(v) : v \in Values(f)} |-> Junk],
     events |-> << >>]

VARIABLES
    before,        \* the state of the source function
    after          \* the state of the simplified function

runVars == <<before, after>>
allVars == <<vars, runVars>>

Quiet == [kind |-> "none", data |-> << >>, shown |-> << >>]
Idle == [block |-> 0, event |-> Quiet]
Begun == before # Idle

RunInit == Init /\ before = Idle /\ after = Idle

Transform == Simplify /\ UNCHANGED runVars

(* A program stands before an instruction of a block, or past the last one. *)
Place(st, b, i) == [env |-> st.env, mem |-> st.mem, block |-> b, next |-> i, event |-> Quiet]
Memory(m) == [env |-> m.env, mem |-> m.mem, events |-> << >>]

Event(f, m, args) ==
    LET data == Data(f, m.env, args) IN
    [kind |-> "call", data |-> data,
     shown |-> [d \in {e \in Elements(data) : IsPointer(e)} |-> m.mem[d]]]

(* One instruction or terminator; a call and a return wait for the world.   *)
Advance(f, m) ==
    IF m.next <= Len(Insts(f, m.block))
    THEN LET inst == At(f, <<m.block, m.next>>) IN
         IF IsCall(inst) THEN [m EXCEPT !.event = Event(f, m, inst.args)]
         ELSE Place(RunInst(f, Memory(m), inst), m.block, m.next + 1)
    ELSE LET term == Term(f, m.block) IN
         IF term.succ = << >> THEN [m EXCEPT !.event = [kind |-> "return", data |-> Data(f, m.env, term.args), shown |-> << >>]]
         ELSE LET to == IF IsBranch(f, m.block) /\ Datum(f, m.env, term.args[1]) = 0
                        THEN term.succ[2] ELSE term.succ[1]
              IN  Place(EnterBlock(f, Memory(m), to, m.block), to, 1)

ToEvent(f, start) ==
    LET run[n \in 0..MaxQuiet] ==
          IF n = 0 THEN {start}
          ELSE {IF m.event = Quiet THEN Advance(f, m) ELSE m : m \in run[n - 1]}
    IN  CHOOSE m \in run[MaxQuiet] : TRUE

(* The callee returns the answer, and changes the slots it was shown.       *)
Answered(f, m, answer) ==
    LET inst == At(f, <<m.block, m.next>>)
        st == Assigned(Memory(m), inst.result, answer)
        shown == DOMAIN m.event.shown
        called == [st EXCEPT !.mem = [d \in DOMAIN @ |-> IF d \in shown THEN (@[d] + 1) % 3 ELSE @[d]]]
    IN  Place(called, m.block, m.next + 1)

Begin ==
    /\ phase = "done" /\ ~Begun
    /\ \E input \in {0, 1} :
          /\ before' = ToEvent(source, Place(StartState(source, input), Entry, 1))
          /\ after' = ToEvent(func, Place(StartState(func, input), Entry, 1))
    /\ UNCHANGED vars

Answer ==
    /\ Begun /\ before.event.kind = "call" /\ after.event.kind = "call"
    /\ \E answer \in {0, 1} :
          /\ before' = ToEvent(source, Answered(source, before, answer))
          /\ after' = ToEvent(func, Answered(func, after, answer))
    /\ UNCHANGED vars

Returned == Begun /\ before.event.kind = "return" /\ UNCHANGED allVars

RunNext == Transform \/ Begin \/ Answer \/ Returned

RunSpec == RunInit /\ [][RunNext]_allVars
-----------------------------------------------------------------------------
(* Simplification keeps the program: whatever is passed in and whatever     *)
(* callees answer, the simplified function makes the same calls with the    *)
(* same arguments and the same memory behind pointers, in the same order,   *)
(* and returns the same value.                                              *)
SameEvents == Begun => before.event # Quiet /\ before.event = after.event

(* The pass panics when a changed function does not verify, and the back    *)
(* end relies on Dce having left no phi that nothing reads.                 *)
ReadyForBackEnd == phase = "done" /\ ~Begun => Verified(func) /\ NoDeadPhis(func)

(* The loop ends, though nothing in it counts: no more than two rounds are   *)
(* begun for every block and every phi.  One may rewrite branches or remove  *)
(* what the last one cut off, but the next takes a block or a phi from what  *)
(* can be reached, or changes nothing.                                      *)
Size(f) == Len(f.blocks) + Cardinality({s \in Sites(f) : IsPhi(At(f, s))})
RoundsEnd == rounds <= 2 * Size(source)

(* preserving_loop_preheaders: when every loop had a block of its own to    *)
(* enter it, every loop that is left has one, for LICM and the loop passes  *)
(* to put code in.                                                          *)
Headers(f) == {h \in Reachable(f) : \E p \in Predecessors(f, h) \cap Reachable(f) : Dominates(f, h, p)}
Entered(f) == \A h \in Headers(f) : \E p \in DedicatedPreheaders(f) : h \in Successors(f, p)
PreheadersKept ==
    phase = "done" /\ ~Begun /\ preserve /\ Len(source.blocks) <= MaxPreheaderBlocks /\ Entered(source)
        => Entered(func)

(* resolve_replacement: "a -> b, b -> c resolves a to c".  It follows the    *)
(* table until a value is not replaced, so a table must not lead in circles.*)
ReplacementsResolve == phase = "phis" => Resolves(TrivialTable(func))
=============================================================================
