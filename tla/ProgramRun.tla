----------------------------- MODULE ProgramRun -----------------------------
(***************************************************************************)
(* What a program means: main runs on a stack of activations over a memory *)
(* of objects, and the world sees its calls of library functions, with the *)
(* memory behind the pointers it passes, and what main returns.            *)
(***************************************************************************)
EXTENDS Program

CONSTANT MaxQuiet   \* bursts of instructions a program may run between two events

(* Memory is a sequence of objects, each a sequence of cells; a pointer is  *)
(* a number that names an object and an offset, inside it or not.           *)
Reach == 1000
Middle == 500
Junk == 77
Pointer(object, offset) == Reach * object + Middle + offset
Object(d) == d \div Reach
Offset(d) == (d % Reach) - Middle
InBounds(mem, d) ==
    /\ d >= Reach /\ Object(d) \in DOMAIN mem
    /\ Offset(d) + 1 \in DOMAIN mem[Object(d)]
Cell(mem, d) == mem[Object(d)][Offset(d) + 1]
-----------------------------------------------------------------------------
(* A state of a run is [stack, mem, event]; an activation is [fn, env,      *)
(* block, next, floor], floor being the objects that were there before it.  *)
Quiet == [kind |-> "none", data |-> << >>, shown |-> << >>]
Idle == [stack |-> << >>, mem |-> << >>, event |-> Quiet]

Datum(f, env, v) ==
    CASE f.kind[v] = "const" -> f.lit[v]
      [] f.kind[v] = "global" -> Pointer(f.lit[v], 0)
      [] OTHER -> env[v]

Activation(p, k, args, floor) ==
    LET f == p.funcs[k] IN
    [fn |-> k, block |-> Entry, next |-> 1, floor |-> floor,
     env |-> [v \in Values(f) |->
        IF \E i \in DOMAIN args : f.params[i] = v
        THEN args[CHOOSE i \in DOMAIN args : f.params[i] = v] ELSE Junk]]

Start(p, args) ==
    LET mem == [g \in DOMAIN p.globals |-> p.globals[g].init] IN
    [stack |-> <<Activation(p, Main, args, Len(mem))>>, mem |-> mem, event |-> Quiet]

Top(m) == m.stack[Len(m.stack)]
Reports(m, kind, data, shown) == [m EXCEPT !.event = [kind |-> kind, data |-> data, shown |-> shown]]

(* Steps over the current instruction, with a value for its result.         *)
Stepped(m, result, d) ==
    [m EXCEPT !.event = Quiet, !.stack[Len(m.stack)] =
        [@ EXCEPT !.next = @ + 1,
                  !.env = IF result = NoValue THEN @ ELSE [@ EXCEPT ![result] = d]]]

(* Phis take their values together, from the edge by which control came.    *)
Entered(f, m, to) ==
    LET from == Top(m).block
        value(v, env) ==
          IF v \in PhiResults(f, to)
          THEN Datum(f, env, Incoming(Chosen(Phis(f, to), LAMBDA q : q.result = v), from))
          ELSE env[v]
    IN  [m EXCEPT !.stack[Len(m.stack)] =
            [@ EXCEPT !.block = to, !.next = 1, !.env = [v \in DOMAIN @ |-> value(v, @)]]]

(* What the world is shown of an argument: a number, or an object's cells.  *)
Shown(f, mem, arg, d) ==
    IF IsPointer(f, arg) /\ d >= Reach THEN <<Offset(d)>> \o mem[Object(d)] ELSE <<d>>

LibraryCall(f, m, inst, data) ==
    Reports(m, "call", << >>, [k \in DOMAIN data |-> Shown(f, m.mem, inst.args[k], data[k])])

Stride(gep) == IF "size" \in DOMAIN gep THEN gep.size ELSE 1

Executed(p, f, m, inst) ==
    LET env == Top(m).env
        data == [k \in DOMAIN inst.args |-> Datum(f, env, inst.args[k])]
    IN  CASE inst.op \in {"nop", "phi"} -> Stepped(m, NoValue, 0)
          [] inst.op = "alloca" ->
               [Stepped(m, inst.result, Pointer(Len(m.mem) + 1, 0))
                  EXCEPT !.mem = Append(@, [c \in 1..inst.size |-> Junk])]
          [] inst.op = "load" ->
               IF InBounds(m.mem, data[1]) THEN Stepped(m, inst.result, Cell(m.mem, data[1]))
               ELSE Reports(m, "trap", << >>, << >>)
          [] inst.op = "store" ->
               IF InBounds(m.mem, data[1])
               THEN [Stepped(m, NoValue, 0)
                       EXCEPT !.mem[Object(data[1])][Offset(data[1]) + 1] = data[2]]
               ELSE Reports(m, "trap", << >>, << >>)
          [] inst.op = "memzero" ->
               [Stepped(m, NoValue, 0) EXCEPT !.mem[Object(data[1])] =
                   [c \in DOMAIN @ |-> IF c - Offset(data[1]) \in 1..inst.size THEN 0 ELSE @[c]]]
          [] inst.op = "gep" ->
               Stepped(m, inst.result, Folded(LAMBDA sum, d : sum + Stride(inst) * d, data[1], Tail(data)))
          [] inst.op = "call" ->
               IF inst.name = 0 THEN LibraryCall(f, m, inst, data)
               ELSE [m EXCEPT !.stack = Append(@, Activation(p, inst.name, data, Len(m.mem)))]
          [] OTHER -> Stepped(m, inst.result, Computed(inst.op, data[1], data[Len(data)]))

Left(p, f, m) ==
    LET args == Term(f, Top(m).block).args
        d == IF args = << >> THEN 0 ELSE Datum(f, Top(m).env, args[1])
        caller == [m EXCEPT !.stack = SubSeq(@, 1, Len(@) - 1), !.mem = SubSeq(@, 1, Top(m).floor)]
        at == Top(caller)
    IN  IF Len(m.stack) = 1 THEN Reports(m, "return", <<d>>, << >>)
        ELSE Stepped(caller, Insts(p.funcs[at.fn], at.block)[at.next].result, d)

Advance(p, m) ==
    LET top == Top(m)
        f == p.funcs[top.fn]
        term == Term(f, top.block)
    IN  IF top.next <= Len(Insts(f, top.block)) THEN Executed(p, f, m, Insts(f, top.block)[top.next])
        ELSE IF IsReturn(f, top.block) THEN Left(p, f, m)
        ELSE Entered(f, m, IF IsBranch(f, top.block) /\ Datum(f, top.env, term.args[1]) = 0
                           THEN term.succ[2] ELSE term.succ[1])

Burst == 20
ToEvent(p, start) ==
    LET quietly(Step(_), from, count) ==
          Iterated(LAMBDA m : IF m.event = Quiet THEN Step(m) ELSE m, from, count)
        advance(m) == Advance(p, m)
        burst(m) == quietly(advance, m, Burst)
    IN  quietly(burst, start, MaxQuiet)

(* The library function returns the answer and adds one to what it was      *)
(* given the address of.                                                    *)
Answered(p, m, answer) ==
    LET f == p.funcs[Top(m).fn]
        inst == Insts(f, Top(m).block)[Top(m).next]
        given == {Object(Datum(f, Top(m).env, v)) : v \in {a \in Uses(inst) : IsPointer(f, a)}}
    IN  [Stepped(m, inst.result, answer) EXCEPT !.mem = [o \in DOMAIN @ |->
            IF o \in given THEN [c \in DOMAIN @[o] |-> Wrap(@[o][c] + 1)] ELSE @[o]]]
=============================================================================
