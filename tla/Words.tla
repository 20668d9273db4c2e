------------------------------- MODULE Words --------------------------------
(***************************************************************************)
(* Integers of the source language and what the IR's operators make of     *)
(* them.  They have Bits bits and wrap; division is that of RV64, where    *)
(* dividing by zero is defined and the smallest number divided by -1 is    *)
(* itself.                                                                 *)
(***************************************************************************)
EXTENDS Integers

CONSTANT Bits          \* width of an integer, a power of two

Unary == {"ineg", "not"}
Compare == {"eq", "ne", "lt", "le", "gt", "ge"}
Binary == {"iadd", "isub", "imul", "idiv", "imod", "iand", "ior", "ixor", "ishl", "iashr", "and", "or"}
Cast == {"bool_to_i32", "i32_to_bool"}

(* The comparison with its operands swapped.                               *)
Reversed(op) ==
    CASE op = "lt" -> "gt" [] op = "le" -> "ge" [] op = "gt" -> "lt" [] op = "ge" -> "le" [] OTHER -> op
Negated(op) ==
    CASE op = "eq" -> "ne" [] op = "ne" -> "eq" [] op = "lt" -> "ge"
      [] op = "le" -> "gt" [] op = "gt" -> "le" [] op = "ge" -> "lt"
-----------------------------------------------------------------------------
Half == 2 ^ (Bits - 1)
WrapTo(width, n) == ((n + 2 ^ (width - 1)) % (2 ^ width)) - (2 ^ (width - 1))
Wrap(n) == ((n + Half) % (2 * Half)) - Half
Words == (-Half)..(Half - 1)
Abs(n) == IF n < 0 THEN -n ELSE n
Truth(condition) == IF condition THEN 1 ELSE 0

(* Division rounds towards zero.                                            *)
Quotient(a, b) == IF (a < 0) = (b < 0) THEN Abs(a) \div Abs(b) ELSE -(Abs(a) \div Abs(b))

BitOf(n, k) == (n \div (2 ^ k)) % 2
BitwiseTo(width, a, b, Test(_, _)) ==
    LET sum[k \in 0..width] ==
          IF k = 0 THEN 0
          ELSE sum[k - 1] + (IF Test(BitOf(a, k - 1), BitOf(b, k - 1)) THEN 2 ^ (k - 1) ELSE 0)
    IN  WrapTo(width, sum[width])
BothBits(x, y) == x = 1 /\ y = 1
SomeBit(x, y) == x = 1 \/ y = 1
OneBit(x, y) == x # y

Compared(op, a, b) ==
    CASE op = "eq" -> a = b [] op = "ne" -> a # b
      [] op = "lt" -> a < b [] op = "le" -> a <= b
      [] op = "gt" -> a > b [] op = "ge" -> a >= b

Computed(op, a, b) ==
    CASE op = "iadd" -> Wrap(a + b)
      [] op = "isub" -> Wrap(a - b)
      [] op = "imul" -> Wrap(a * b)
      [] op = "idiv" -> IF b = 0 THEN -1 ELSE Wrap(Quotient(a, b))
      [] op = "imod" -> IF b = 0 THEN a ELSE a - b * Quotient(a, b)
      [] op = "iand" -> BitwiseTo(Bits, a, b, BothBits)
      [] op = "ior" -> BitwiseTo(Bits, a, b, SomeBit)
      [] op = "ixor" -> BitwiseTo(Bits, a, b, OneBit)
      [] op = "ishl" -> Wrap(a * 2 ^ (b % Bits))
      [] op = "iashr" -> a \div 2 ^ (b % Bits)
      [] op = "and" -> Truth(a # 0 /\ b # 0)
      [] op = "or" -> Truth(a # 0 \/ b # 0)
      [] op = "ineg" -> Wrap(-a)
      [] op = "not" -> Truth(a = 0)
      [] op = "bool_to_i32" -> a
      [] op = "i32_to_bool" -> Truth(a # 0)
      [] OTHER -> Truth(Compared(op, a, b))
=============================================================================
