------------------------------ MODULE UInt128 ------------------------------
(***************************************************************************)
(* uint128_t of src/utils/base_int.cpp: two 64-bit words, arithmetic built *)
(* from wrapping word operations, a division that subtracts shifted copies *)
(* of the divisor one loop iteration at a time, and utils::bigDivide.  The *)
(* width is a parameter: a word has two halves of UHalfBits bits.          *)
(***************************************************************************)
EXTENDS Integers

CONSTANTS UHalfBits,  \* 32 in the code
          ULeft,      \* left operands, as numbers
          URight      \* right operands, as numbers

H == 2 ^ UHalfBits         \* 2^32
W == H * H                 \* 2^64
WordBits == 2 * UHalfBits  \* 64

ASSUME UAssumption ==
    /\ UHalfBits \in Nat \ {0}
    /\ ULeft \subseteq 0 .. W * W - 1
    /\ URight \subseteq 0 .. W * W - 1

Word == 0 .. W - 1
Wide == [up : Word, lo : Word]

VARIABLES uL, uR,   \* the operands of the call
          uCall,    \* the call, "none" before it
          uPc,      \* "idle", "loop" inside divmod, "done", "thrown"
          uQ,       \* qr.first
          uRem,     \* qr.second
          uCopyd, uAdder,
          uRes      \* what the call returned

uVars == <<uL, uR, uCall, uPc, uQ, uRem, uCopyd, uAdder, uRes>>

-----------------------------------------------------------------------------
U(up, lo) == [up |-> up % W, lo |-> lo % W]
Small128(n) == U(0, n)
Zero == Small128(0)
One == Small128(1)

\* The number a uint128_t stands for, and the reverse.
Val(x) == x.up * W + x.lo
OfVal(n) == U(n \div W, n)

Less(x, y) == IF x.up = y.up THEN x.lo < y.lo ELSE x.up < y.up
AtLeast(x, y) == Less(y, x) \/ x = y

\* Mutant: adding zero counts as wrapping.
Carry_Equal(a, b) == IF (a + b) % W <= a THEN 1 ELSE 0

\* (LOWER + rhs.LOWER) < LOWER: the lower word has wrapped.
Carry(a, b) == IF (a + b) % W < a THEN 1 ELSE 0

Plus(x, y) == U(x.up + y.up + Carry(x.lo, y.lo), x.lo + y.lo)

\* (LOWER - rhs.LOWER) > LOWER
Borrow(a, b) == IF (a - b) % W > a THEN 1 ELSE 0

Minus(x, y) == U(x.up - y.up - Borrow(x.lo, y.lo), x.lo - y.lo)

\* Four halves each, their products, and the sums of the columns.
Halves(x) == <<x.up \div H, x.up % H, x.lo \div H, x.lo % H>>

Times(x, y) ==
    LET top == Halves(x)
        bottom == Halves(y)
        low(i, j) == (top[4 - i] * bottom[j + 1]) % H
        high(i, j) == (top[4 - i] * bottom[j + 1]) \div H
        fourth == low(0, 3)
        third == low(0, 2) + high(0, 3) + low(1, 3)
        second == low(0, 1) + high(0, 2) + low(1, 2) + high(1, 3) + low(2, 3)
        first == low(0, 0) + high(0, 1) + low(1, 1) + high(1, 2)
                   + low(2, 2) + high(2, 3) + low(3, 3)
    IN  Plus(Plus(Plus(U(first * H, 0), U(third \div H, third * H)), U(second, 0)), Small128(fourth))

ShiftLeft(x, y) ==
    LET k == y.lo
    IN  CASE y.up # 0 \/ k >= 2 * WordBits -> Zero
          [] y.up = 0 /\ k < WordBits ->
                IF k = 0 THEN x
                ELSE U(((x.up * 2 ^ k) % W) + (x.lo \div 2 ^ (WordBits - k)), x.lo * 2 ^ k)
          [] OTHER -> U(x.lo * 2 ^ (k - WordBits), 0)

ShiftRight(x, y) ==
    LET k == y.lo
    IN  CASE y.up # 0 \/ k >= 2 * WordBits -> Zero
          [] y.up = 0 /\ k < WordBits ->
                IF k = 0 THEN x
                ELSE U(x.up \div 2 ^ k, ((x.up * 2 ^ (WordBits - k)) % W) + (x.lo \div 2 ^ k))
          [] OTHER -> U(0, x.up \div 2 ^ (k - WordBits))

\* x | y for a y with a single bit.
OrBit(x, y) ==
    LET or(a, b) == IF b = 0 \/ (a \div b) % 2 = 1 THEN a ELSE a + b
    IN  U(or(x.up, y.up), or(x.lo, y.lo))

Bits(x) ==
    LET wordBits(w) == IF w = 0 THEN 0
                       ELSE CHOOSE n \in 1 .. WordBits : 2 ^ (n - 1) <= w /\ w < 2 ^ n
    IN  IF x.up # 0 THEN WordBits + wordBits(x.up) ELSE wordBits(x.lo)

-----------------------------------------------------------------------------
UInit ==
    /\ \E m \in ULeft, n \in URight : uL = OfVal(m) /\ uR = OfVal(n)
    /\ uCall = "none" /\ uPc = "idle"
    /\ uQ = Zero /\ uRem = Zero /\ uCopyd = Zero /\ uAdder = Zero
    /\ uRes = [val |-> Zero, ok |-> TRUE]

Done(call, val, ok) ==
    /\ uCall' = call /\ uPc' = "done"
    /\ uRes' = [val |-> val, ok |-> ok]

\* The operators without a loop.
Compute(call, val) ==
    /\ uPc = "idle"
    /\ Done(call, val, TRUE)
    /\ UNCHANGED <<uL, uR, uQ, uRem, uCopyd, uAdder>>

\* What the caller of divmod does with the quotient: operator/, operator%,
\* and bigDivide, whose answer is the lower word and whether it is all.
Finish(call, lhs, rhs, q) ==
    CASE call = "div" -> [val |-> q, ok |-> TRUE]
      [] call = "mod" -> [val |-> Minus(lhs, Times(rhs, q)), ok |-> TRUE]
      [] call = "bigDivide" -> [val |-> Small128(q.lo), ok |-> AtLeast(Small128(W - 1), q)]

\* The shift that brings the divisor under the dividend.
Align(lhs, rhs) == Bits(lhs) - Bits(rhs)

\* copyd >>= uint128_1, adder >>= uint128_1
StepDown(x) == ShiftRight(x, One)

\* divmod up to its loop; a division by zero throws.
DivStart(call, lhs, rhs) ==
    LET k == Small128(Align(lhs, rhs))
        copyd == ShiftLeft(rhs, k)
        adder == ShiftLeft(One, k)
        over == Less(lhs, copyd)
        Answer(q) == /\ uPc' = "done"
                     /\ uRes' = Finish(call, lhs, rhs, q)
                     /\ UNCHANGED <<uQ, uRem, uCopyd, uAdder>>
    IN  /\ uPc = "idle"
        /\ uCall' = call
        /\ uL' = lhs /\ uR' = rhs
        /\ CASE rhs = Zero -> uPc' = "thrown" /\ UNCHANGED <<uQ, uRem, uCopyd, uAdder, uRes>>
             [] rhs = One -> Answer(lhs)
             [] rhs \notin {Zero, One} /\ lhs = rhs -> Answer(One)
             [] rhs \notin {Zero, One} /\ Less(lhs, rhs) -> Answer(Zero)
             [] OTHER ->
                   /\ uPc' = "loop"
                   /\ uQ' = Zero /\ uRem' = lhs
                   /\ uCopyd' = IF over THEN StepDown(copyd) ELSE copyd
                   /\ uAdder' = IF over THEN StepDown(adder) ELSE adder
                   /\ UNCHANGED uRes

\* One iteration of while (qr.second >= rhs), or the return after it.
DivStep ==
    /\ uPc = "loop" /\ AtLeast(uRem, uR)
    /\ IF AtLeast(uRem, uCopyd)
       THEN uRem' = Minus(uRem, uCopyd) /\ uQ' = OrBit(uQ, uAdder)
       ELSE UNCHANGED <<uRem, uQ>>
    /\ uCopyd' = StepDown(uCopyd)
    /\ uAdder' = StepDown(uAdder)
    /\ UNCHANGED <<uL, uR, uCall, uPc, uRes>>

DivEnd ==
    /\ uPc = "loop" /\ ~AtLeast(uRem, uR)
    /\ uPc' = "done"
    /\ uRes' = Finish(uCall, uL, uR, uQ)
    /\ UNCHANGED <<uL, uR, uCall, uQ, uRem, uCopyd, uAdder>>

\* bigDivide(A, B, C) with A, B the words of the left operand and C the lower
\* word of the right one.
BigDivide ==
    DivStart("bigDivide", Times(Small128(uL.up), Small128(uL.lo)), Small128(uR.lo))

UNext ==
    \/ Compute("plus", Plus(uL, uR))
    \/ Compute("minus", Minus(uL, uR))
    \/ Compute("times", Times(uL, uR))
    \/ Compute("shl", ShiftLeft(uL, uR))
    \/ Compute("shr", ShiftRight(uL, uR))
    \/ DivStart("div", uL, uR)
    \/ DivStart("mod", uL, uR)
    \/ BigDivide
    \/ DivStep
    \/ DivEnd

USpec == UInit /\ [][UNext]_uVars

-----------------------------------------------------------------------------
(***************************************************************************)
(* Properties.                                                             *)
(***************************************************************************)
\* UTypeOK: words stay in their width.
UTypeOK ==
    /\ {uL, uR, uQ, uRem, uCopyd, uAdder, uRes.val} \subseteq Wide
    /\ uCall \in {"none", "plus", "minus", "times", "shl", "shr", "div", "mod", "bigDivide"}
    /\ uPc \in {"idle", "loop", "done", "thrown"}
    /\ uRes.ok \in BOOLEAN

\* What the operators mean on numbers, modulo 2^128.
Reference(call, m, n) ==
    CASE call = "plus" -> (m + n) % (W * W)
      [] call = "minus" -> (m - n) % (W * W)
      [] call = "times" -> (m * n) % (W * W)
      [] call = "shl" -> IF n >= 2 * WordBits THEN 0 ELSE (m * 2 ^ n) % (W * W)
      [] call = "shr" -> IF n >= 2 * WordBits THEN 0 ELSE m \div 2 ^ n
      [] call = "div" -> m \div n
      [] call = "mod" -> m % n
      [] call = "bigDivide" -> (m \div n) % W

\* UResult: an operator of uint128_t, carries, borrows and partial products
\* included, computes the operation on numbers modulo 2^128; bigDivide says
\* whether its quotient fits into 64 bits, and only a division by zero throws.
UResult ==
    /\ uPc = "thrown" => uCall \in {"div", "mod", "bigDivide"} /\ Val(uR) = 0
    /\ uPc = "done" =>
        /\ Val(uRes.val) = Reference(uCall, Val(uL), Val(uR))
        /\ uRes.ok <=> (uCall = "bigDivide" => Val(uL) \div Val(uR) < W)

=============================================================================
