--------------------------- MODULE UInt128Proofs ---------------------------
(***************************************************************************)
(* Proofs about UInt128: for every width of a word and all operands, every *)
(* operator of uint128_t, the loop of divmod and bigDivide included,       *)
(* computes the operation on numbers modulo 2^128 (ArithmeticCorrect).     *)
(*                                                                         *)
(* The provers know no law of 2 ^ n.  All that is needed follows from a    *)
(* set of n elements having 2 ^ n subsets (FS_SUBSET): PowNat, PowAdd and  *)
(* their corollaries.  Pow keeps the exponential folded everywhere else.   *)
(***************************************************************************)
EXTENDS UInt128, FiniteSetTheorems, FunctionTheorems, WellFoundedInduction, TLAPS

\* 2 ^ k, folded.
Pow(k) == 2 ^ k

\* A finite set has 2 ^ Cardinality(S) subsets.
LEMMA PowCard ==
    ASSUME NEW S, IsFiniteSet(S)
    PROVE  /\ Pow(Cardinality(S)) \in Nat
           /\ Pow(Cardinality(S)) = Cardinality(SUBSET S)
           /\ IsFiniteSet(SUBSET S)
  BY FS_SUBSET, FS_CardinalityType DEF Pow

\* The size of an interval, the empty one included.
LEMMA PowInterval ==
    ASSUME NEW a \in Int, NEW b \in Int, a <= b + 1
    PROVE  IsFiniteSet(a .. b) /\ Cardinality(a .. b) = b - a + 1
  <1>1. CASE a > b
    BY <1>1, FS_Interval
  <1>2. CASE a <= b
    BY <1>2, FS_Interval
  <1> QED BY <1>1, <1>2

\* 2 ^ n is a number greater than n: 0 .. n is mapped into the subsets.
LEMMA PowNat ==
    ASSUME NEW n \in Nat
    PROVE  /\ Pow(n) \in Nat
           /\ n < Pow(n)
  <1> DEFINE f == [x \in 0 .. n |-> IF x = 0 THEN {} ELSE {x}]
  <1>1. IsFiniteSet(1 .. n) /\ Cardinality(1 .. n) = n
    <2>1. 1 \in Int /\ n \in Int /\ 1 <= n + 1 /\ n - 1 + 1 = n  OBVIOUS
    <2> QED BY <2>1, PowInterval
  <1>2. IsFiniteSet(0 .. n) /\ Cardinality(0 .. n) = n + 1
    <2>1. 0 \in Int /\ n \in Int /\ 0 <= n + 1 /\ n - 0 + 1 = n + 1  OBVIOUS
    <2> QED BY <2>1, PowInterval
  <1>3. IsFiniteSet(SUBSET (1 .. n)) /\ Cardinality(SUBSET (1 .. n)) = Pow(n) /\ Pow(n) \in Nat
    BY <1>1, PowCard
  <1>4. f \in [0 .. n -> SUBSET (1 .. n)]
    <2>1. \A x \in 0 .. n : x # 0 => x \in 1 .. n  OBVIOUS
    <2> QED BY <2>1
  <1>5. f \in Injection(0 .. n, SUBSET (1 .. n))
    <2> SUFFICES \A x, y \in 0 .. n : f[x] = f[y] => x = y
      BY <1>4, Fun_IsInj
    <2> QED OBVIOUS
  <1>6. n + 1 <= Pow(n)
    BY <1>2, <1>3, <1>5, FS_Injection
  <1> QED BY <1>3, <1>6

\* The subsets of a disjoint union are the pairs of subsets.
LEMMA PowAdd ==
    ASSUME NEW a \in Nat, NEW b \in Nat
    PROVE  Pow(a + b) = Pow(a) * Pow(b)
  <1> DEFINE S == 1 .. (a + b)
             A == 1 .. a
             B == (a + 1) .. (a + b)
             f == [s \in SUBSET S |-> <<s \cap A, s \cap B>>]
  <1>1. IsFiniteSet(S) /\ Cardinality(S) = a + b
    <2>1. 1 \in Int /\ a + b \in Int /\ 1 <= (a + b) + 1 /\ (a + b) - 1 + 1 = a + b  OBVIOUS
    <2> QED BY <2>1, PowInterval
  <1>2. IsFiniteSet(A) /\ Cardinality(A) = a
    <2>1. 1 \in Int /\ a \in Int /\ 1 <= a + 1 /\ a - 1 + 1 = a  OBVIOUS
    <2> QED BY <2>1, PowInterval
  <1>3. IsFiniteSet(B) /\ Cardinality(B) = b
    <2>1. a + 1 \in Int /\ a + b \in Int /\ a + 1 <= (a + b) + 1 /\ (a + b) - (a + 1) + 1 = b  OBVIOUS
    <2> QED BY <2>1, PowInterval
  <1>4. S = A \cup B /\ A \cap B = {}
    OBVIOUS
  <1> HIDE DEF S, A, B
  <1>5. f \in [SUBSET S -> (SUBSET A) \X (SUBSET B)]
    OBVIOUS
  <1>6. f \in Bijection(SUBSET S, (SUBSET A) \X (SUBSET B))
    <2>1. ASSUME NEW s \in SUBSET S, NEW t \in SUBSET S, f[s] = f[t]
          PROVE  s = t
      <3>1. s \cap A = t \cap A /\ s \cap B = t \cap B
        BY <2>1
      <3> QED BY <3>1, <1>4
    <2>2. ASSUME NEW p \in (SUBSET A) \X (SUBSET B)
          PROVE  \E s \in SUBSET S : f[s] = p
      <3> DEFINE t == p[1] \cup p[2]
      <3>1. p[1] \subseteq A /\ p[2] \subseteq B /\ p = <<p[1], p[2]>>
        OBVIOUS
      <3>2. t \in SUBSET S
        BY <3>1, <1>4
      <3>3. t \cap A = p[1] /\ t \cap B = p[2]
        BY <3>1, <1>4
      <3> HIDE DEF t
      <3>4. f[t] = p
        BY <3>1, <3>2, <3>3
      <3> QED BY <3>2, <3>4
    <2> HIDE DEF f
    <2> QED BY <1>5, <2>1, <2>2, Fun_IsBij
  <1>7. ExistsBijection(SUBSET S, (SUBSET A) \X (SUBSET B))
    BY <1>6 DEF ExistsBijection
  <1> HIDE DEF f
  <1>8. IsFiniteSet(SUBSET S) /\ Cardinality(SUBSET S) = Pow(a + b)
    BY <1>1, PowCard
  <1>9. /\ IsFiniteSet(SUBSET A) /\ Cardinality(SUBSET A) = Pow(a)
        /\ IsFiniteSet(SUBSET B) /\ Cardinality(SUBSET B) = Pow(b)
    BY <1>2, <1>3, PowCard
  <1>10. Cardinality((SUBSET A) \X (SUBSET B)) = Pow(a) * Pow(b)
    BY <1>9, FS_Product
  <1> QED BY <1>7, <1>8, <1>10, FS_Bijection

\* The powers of the first two exponents.
LEMMA PowOne == Pow(0) = 1 /\ Pow(1) = 2
  <1>1. Pow(0) = 1
    BY DEF Pow
  <1>2. Pow(1) = 2
    BY DEF Pow
  <1> QED BY <1>1, <1>2

\* Quotient and remainder as variables, which is how the provers reason
\* about them.
LEMMA DivMod ==
    ASSUME NEW a \in Int, NEW m \in Nat \ {0}
    PROVE  \E q \in Int, r \in Nat :
               a \div m = q /\ a % m = r /\ r < m /\ a = q * m + r
  <1>1. a \div m \in Int /\ a % m \in Int
    OBVIOUS
  <1>2. PICK q \in Int : q = a \div m
    BY <1>1
  <1>3. PICK r \in Int : r = a % m
    BY <1>1
  <1>4. a = q * m + r
    BY <1>2, <1>3
  <1>5. 0 <= r /\ r < m
    BY <1>3
  <1> QED BY <1>2, <1>3, <1>4, <1>5
\* Products keep the order.
LEMMA MulLe ==
    ASSUME NEW a \in Int, NEW b \in Int, NEW m \in Nat, a <= b
    PROVE  a * m <= b * m
  OBVIOUS

\* A strict inequality of the factors leaves room for one more.
LEMMA MulLt ==
    ASSUME NEW a \in Int, NEW b \in Int, NEW m \in Nat \ {0}, a < b
    PROVE  a * m + m <= b * m
  <1>1. (a + 1) * m <= b * m
    BY MulLe
  <1>2. (a + 1) * m = a * m + m
    OBVIOUS
  <1>3. a * m \in Int /\ b * m \in Int
    OBVIOUS
  <1> QED BY <1>1, <1>2, <1>3

\* The same for numbers that are not negative.
LEMMA DivModNat ==
    ASSUME NEW a \in Nat, NEW m \in Nat \ {0}
    PROVE  \E q \in Nat, r \in Nat :
               a \div m = q /\ a % m = r /\ r < m /\ a = q * m + r
  <1>1. PICK q \in Int, r \in Nat :
            a \div m = q /\ a % m = r /\ r < m /\ a = q * m + r
    BY DivMod
  <1>2. ~ (q < 0)
    <2> SUFFICES ASSUME q < 0 PROVE FALSE
      OBVIOUS
    <2>1. q * m + m <= 0 * m
      BY MulLt
    <2> QED BY <1>1, <2>1
  <1> QED BY <1>1, <1>2

\* Quotient and remainder are unique.
LEMMA ModUnique ==
    ASSUME NEW m \in Nat \ {0}, NEW d \in Int, NEW r \in Nat, r < m,
           NEW a, a = d * m + r
    PROVE  a % m = r /\ a \div m = d
  <1>1. a \in Int /\ d * m \in Int
    OBVIOUS
  <1>2. PICK q \in Int, t \in Nat :
            a \div m = q /\ a % m = t /\ t < m /\ a = q * m + t
    BY <1>1, DivMod
  <1>3. q * m \in Int
    OBVIOUS
  <1>4. ~ (q < d)
    <2> SUFFICES ASSUME q < d PROVE FALSE
      OBVIOUS
    <2>1. q * m + m <= d * m
      BY MulLt
    <2> QED BY <1>1, <1>2, <1>3, <2>1
  <1>5. ~ (d < q)
    <2> SUFFICES ASSUME d < q PROVE FALSE
      OBVIOUS
    <2>1. d * m + m <= q * m
      BY MulLt
    <2> QED BY <1>1, <1>2, <1>3, <2>1
  <1>6. q = d
    BY <1>4, <1>5
  <1>7. t = r
    BY <1>1, <1>2, <1>3, <1>6
  <1> QED BY <1>2, <1>6, <1>7

\* What is smaller than the modulus is its own remainder.
LEMMA ModSmall ==
    ASSUME NEW m \in Nat \ {0}, NEW a \in Nat, a < m
    PROVE  a % m = a /\ a \div m = 0
  <1>1. a = 0 * m + a
    OBVIOUS
  <1> QED BY <1>1, ModUnique

\* Shifting the upper word left leaves the bits that its right shift drops.
LEMMA DivProduct ==
    ASSUME NEW x \in Nat, NEW p \in Nat \ {0}, NEW q \in Nat \ {0}
    PROVE  \E d \in Nat, e \in Nat :
               x \div p = d /\ e < p /\ x = d * p + e /\ (x * q) % (p * q) = e * q
  <1> DEFINE m == p * q
  <1>1. PICK d \in Nat, e \in Nat : x \div p = d /\ x % p = e /\ e < p /\ x = d * p + e
    BY DivModNat
  <1>2. PICK r \in Nat : r = e * q
    OBVIOUS
  <1>3. m \in Nat \ {0} /\ r < m
    <2>1. e * q + q <= p * q
      BY <1>1, MulLt
    <2>2. e * q \in Nat /\ p * q \in Nat
      OBVIOUS
    <2> QED BY <1>2, <2>1, <2>2
  <1>4. PICK t \in Nat : t = x * q
    OBVIOUS
  <1>5. t = d * m + r
    BY <1>1, <1>2, <1>4
  <1> HIDE DEF m
  <1>6. t % m = r
    BY <1>3, <1>5, ModUnique
  <1> QED BY <1>1, <1>2, <1>4, <1>6 DEF m

\* Powers keep the order.
LEMMA PowLe ==
    ASSUME NEW a \in Nat, NEW b \in Nat, a <= b
    PROVE  Pow(a) <= Pow(b)
  <1>1. PICK c \in Nat : b = a + c
    <2>1. b - a \in Nat /\ b = a + (b - a)
      OBVIOUS
    <2> QED BY <2>1
  <1>2. Pow(b) = Pow(a) * Pow(c)
    BY <1>1, PowAdd
  <1>3. Pow(a) \in Nat /\ Pow(c) \in Nat /\ 1 <= Pow(c)
    BY PowNat
  <1>4. 1 * Pow(a) <= Pow(c) * Pow(a)
    BY <1>3, MulLe
  <1>5. 1 * Pow(a) = Pow(a) /\ Pow(c) * Pow(a) = Pow(a) * Pow(c)
    BY <1>3
  <1> QED BY <1>2, <1>4, <1>5

\* The next power is twice as large.
LEMMA PowSucc ==
    ASSUME NEW a \in Nat
    PROVE  Pow(a + 1) = 2 * Pow(a)
  <1>1. Pow(a + 1) = Pow(a) * Pow(1)
    BY PowAdd
  <1> QED BY <1>1, PowOne, PowNat

\* The constants of the width, as numbers and as powers of two.
LEMMA WidthFacts ==
    /\ UHalfBits \in Nat /\ UHalfBits >= 1
    /\ WordBits \in Nat /\ WordBits >= 2 /\ 2 * WordBits \in Nat
    /\ H \in Nat /\ H >= 2 /\ Pow(UHalfBits) = H
    /\ W \in Nat /\ W >= 4 /\ W = H * H /\ Pow(WordBits) = W
    /\ W * W \in Nat /\ W * W >= 16 /\ Pow(2 * WordBits) = W * W
    /\ 2 * WordBits <= W
  <1>1. UHalfBits \in Nat /\ UHalfBits >= 1
    BY UAssumption
  <1>2. Pow(UHalfBits) = H
    BY DEF Pow, H
  <1>3. H \in Nat /\ H >= UHalfBits + 1
    BY <1>1, <1>2, PowNat
  <1>4. WordBits \in Nat /\ WordBits >= 2 /\ 2 * WordBits \in Nat
    BY <1>1 DEF WordBits
  <1>5. W = H * H
    BY DEF W
  <1>6. Pow(WordBits) = W
    <2>1. UHalfBits + UHalfBits = WordBits
      BY <1>1 DEF WordBits
    <2> QED BY <2>1, <1>1, <1>2, <1>5, PowAdd
  <1>7. Pow(2 * WordBits) = W * W
    <2>1. WordBits + WordBits = 2 * WordBits
      BY <1>4
    <2> QED BY <2>1, <1>4, <1>6, PowAdd
  <1>8. W \in Nat /\ W >= 4
    <2>1. 2 * 2 <= H * 2
      BY <1>1, <1>3
    <2>2. 2 * H <= H * H
      BY <1>1, <1>3, MulLe
    <2> QED BY <1>3, <1>5, <2>1, <2>2
  <1>9. W * W \in Nat /\ W * W >= 16
    <2>1. 4 * 4 <= W * 4
      BY <1>8
    <2>2. 4 * W <= W * W
      BY <1>8, MulLe
    <2> QED BY <1>8, <2>1, <2>2
  <1>10. 2 * WordBits <= W
    <2> DEFINE g == UHalfBits + 1
    <2>1. g \in Nat
      BY <1>1
    <2>2. g * g <= H * g /\ g * H <= H * H
      BY <1>3, <2>1, MulLe
    <2>3. g * g <= H * H
      <3>1. g * H = H * g
        BY <1>3, <2>1
      <3>2. g * g \in Int /\ H * g \in Int /\ H * H \in Int
        BY <1>3, <2>1
      <3> QED BY <2>2, <3>1, <3>2
    <2>4. g * g = UHalfBits * UHalfBits + 2 * UHalfBits + 1
      BY <1>1
    <2>5. 0 <= (UHalfBits - 1) * (UHalfBits - 1)
      BY <1>1
    <2>6. (UHalfBits - 1) * (UHalfBits - 1) = UHalfBits * UHalfBits - 2 * UHalfBits + 1
      BY <1>1
    <2>7. 4 * UHalfBits <= g * g
      BY <1>1, <2>4, <2>5, <2>6
    <2> HIDE DEF g
    <2>8. g * g \in Int /\ W \in Int /\ 2 * WordBits = 4 * UHalfBits
      BY <1>1, <1>8, <2>1 DEF WordBits
    <2> QED BY <1>1, <1>5, <2>3, <2>7, <2>8
  <1> QED BY <1>1, <1>2, <1>3, <1>4, <1>5, <1>6, <1>7, <1>8, <1>9, <1>10

-----------------------------------------------------------------------------
\* x stands for n modulo 2^128.
Rep(x, n) == x \in Wide /\ \E k \in Int : n = Val(x) + k * (W * W)

\* A uint128_t stands for a number below 2^128.
LEMMA WideVal ==
    ASSUME NEW x \in Wide
    PROVE  /\ x.up \in Nat /\ x.up < W
           /\ x.lo \in Nat /\ x.lo < W
           /\ Val(x) = x.up * W + x.lo
           /\ Val(x) \in Nat /\ Val(x) < W * W
  <1>1. /\ x.up \in Nat /\ x.up < W
        /\ x.lo \in Nat /\ x.lo < W
    BY WidthFacts DEF Wide, Word
  <1>2. Val(x) = x.up * W + x.lo
    BY DEF Val
  <1>3. x.up * W \in Nat
    BY <1>1, WidthFacts
  <1>4. x.up * W + W <= W * W
    BY <1>1, WidthFacts, MulLt
  <1> QED BY <1>1, <1>2, <1>3, <1>4, WidthFacts

\* Two words make a uint128_t.
LEMMA WideEq ==
    ASSUME NEW x \in Wide, NEW y \in Wide, x.up = y.up, x.lo = y.lo
    PROVE  x = y
  BY DEF Wide

\* The constructor reduces both words.
LEMMA MakeU ==
    ASSUME NEW up \in Int, NEW lo \in Int
    PROVE  /\ U(up, lo) \in Wide
           /\ U(up, lo).up = up % W
           /\ U(up, lo).lo = lo % W
  <1>1. W \in Nat \ {0}
    BY WidthFacts
  <1>2. up % W \in 0 .. W - 1 /\ lo % W \in 0 .. W - 1
    BY <1>1
  <1> QED BY <1>2 DEF U, Wide, Word

\* The constructor on words that fit.
LEMMA MakeUExact ==
    ASSUME NEW up \in Nat, NEW lo \in Nat, up < W, lo < W
    PROVE  /\ U(up, lo) \in Wide
           /\ U(up, lo).up = up
           /\ U(up, lo).lo = lo
           /\ Val(U(up, lo)) = up * W + lo
  <1>1. W \in Nat \ {0}
    BY WidthFacts
  <1>2. up % W = up /\ lo % W = lo
    <2>1. up = 0 * W + up /\ lo = 0 * W + lo
      BY <1>1
    <2> QED BY <1>1, <2>1, ModUnique
  <1>3. U(up, lo) \in Wide /\ U(up, lo).up = up /\ U(up, lo).lo = lo
    BY <1>2, MakeU
  <1> QED BY <1>3 DEF Val

\* The upper word may be given with its overflow.
LEMMA RepU ==
    ASSUME NEW up \in Int, NEW lo \in Int, NEW j \in Int, NEW r \in Nat,
           lo = j * W + r, r < W
    PROVE  Rep(U(up, lo), up * W + r) /\ U(up, lo).lo = r
  <1>1. W \in Nat \ {0} /\ W \in Int
    BY WidthFacts
  <1>2. PICK d \in Int, u \in Nat :
            up \div W = d /\ up % W = u /\ u < W /\ up = d * W + u
    BY <1>1, DivMod
  <1>3. lo % W = r
    BY <1>1, ModUnique
  <1>4. U(up, lo) \in Wide /\ U(up, lo).up = u /\ U(up, lo).lo = r
    BY <1>2, <1>3, MakeU
  <1>5. Val(U(up, lo)) = u * W + r
    BY <1>4 DEF Val
  <1>6. up * W + r = (u * W + r) + d * (W * W)
    BY <1>1, <1>2
  <1> QED BY <1>4, <1>5, <1>6 DEF Rep

\* A value represents its own number.
LEMMA RepVal ==
    ASSUME NEW x \in Wide
    PROVE  Rep(x, Val(x))
  <1>1. Val(x) = Val(x) + 0 * (W * W)
    BY WideVal, WidthFacts
  <1> QED BY <1>1 DEF Rep

\* What a representative says about the number.
LEMMA RepMod ==
    ASSUME NEW x, NEW n, Rep(x, n)
    PROVE  x \in Wide /\ n \in Int /\ Val(x) = n % (W * W)
  <1>1. x \in Wide
    BY DEF Rep
  <1>2. PICK k \in Int : n = Val(x) + k * (W * W)
    BY DEF Rep
  <1> DEFINE m == W * W
  <1>3. m \in Nat \ {0}
    BY WidthFacts
  <1>4. Val(x) \in Nat /\ Val(x) < m
    BY <1>1, WideVal
  <1>5. n = Val(x) + k * m
    BY <1>2
  <1> HIDE DEF m
  <1>6. n \in Int /\ n = k * m + Val(x)
    BY <1>3, <1>4, <1>5
  <1>7. n % m = Val(x)
    BY <1>3, <1>4, <1>6, ModUnique
  <1> QED BY <1>1, <1>6, <1>7 DEF m

\* Below 2^128 the number is represented exactly.
LEMMA RepExact ==
    ASSUME NEW x, NEW n \in Nat, Rep(x, n), n < W * W
    PROVE  x \in Wide /\ Val(x) = n
  <1> DEFINE m == W * W
  <1>1. m \in Nat \ {0} /\ n < m
    BY WidthFacts
  <1>2. x \in Wide /\ Val(x) = n % m
    BY RepMod
  <1> HIDE DEF m
  <1>3. n = 0 * m + n
    BY <1>1
  <1>4. n % m = n
    BY <1>1, <1>3, ModUnique
  <1> QED BY <1>2, <1>4

\* operator+ with its carry.
LEMMA PlusRep ==
    ASSUME NEW x \in Wide, NEW y \in Wide
    PROVE  Rep(Plus(x, y), Val(x) + Val(y))
  <1>1. W \in Nat \ {0} /\ W \in Int
    BY WidthFacts
  <1>2. /\ x.up \in Nat /\ x.up < W /\ x.lo \in Nat /\ x.lo < W
        /\ y.up \in Nat /\ y.up < W /\ y.lo \in Nat /\ y.lo < W
        /\ Val(x) = x.up * W + x.lo /\ Val(y) = y.up * W + y.lo
    BY WideVal
  <1>3. PICK xu \in Nat, xl \in Nat, yu \in Nat, yl \in Nat :
            xu = x.up /\ xl = x.lo /\ yu = y.up /\ yl = y.lo
    BY <1>2
  <1>4. xl < W /\ yl < W
    BY <1>2, <1>3
  <1>5. PICK j \in Int : /\ j = Carry(xl, yl)
                         /\ \E r \in Nat : xl + yl = j * W + r /\ r < W
    <2>1. CASE xl + yl < W
      <3>1. xl + yl = 0 * W + (xl + yl)
        BY <1>1
      <3>2. (xl + yl) % W = xl + yl
        <4>1. xl + yl \in Nat
          OBVIOUS
        <4> QED BY <1>1, <2>1, <4>1, ModSmall
      <3>3. Carry(xl, yl) = 0
        BY <3>2 DEF Carry
      <3> QED BY <2>1, <3>1, <3>3
    <2>2. CASE ~ (xl + yl < W)
      <3> DEFINE r == xl + yl - W
      <3>1. r \in Nat /\ r < W /\ r < xl /\ xl + yl = 1 * W + r
        BY <1>1, <1>4, <2>2
      <3> HIDE DEF r
      <3>2. (xl + yl) % W = r
        BY <1>1, <3>1, ModUnique
      <3>3. Carry(xl, yl) = 1
        BY <3>1, <3>2 DEF Carry
      <3> QED BY <3>1, <3>3
    <2> QED BY <2>1, <2>2
  <1>6. PICK r \in Nat : xl + yl = j * W + r /\ r < W
    BY <1>5
  <1>7. Rep(U(xu + yu + j, xl + yl), (xu + yu + j) * W + r)
    <2>1. xu + yu + j \in Int /\ xl + yl \in Int
      OBVIOUS
    <2> QED BY <1>6, <2>1, RepU
  <1>8. Plus(x, y) = U(xu + yu + j, xl + yl)
    BY <1>3, <1>5 DEF Plus
  <1>9. (xu + yu + j) * W + r = (xu * W + xl) + (yu * W + yl)
    BY <1>1, <1>6
  <1> QED BY <1>2, <1>3, <1>7, <1>8, <1>9

\* The sum of representatives represents the sum.
LEMMA RepPlus ==
    ASSUME NEW x, NEW y, NEW m, NEW n, Rep(x, m), Rep(y, n)
    PROVE  Rep(Plus(x, y), m + n)
  <1>1. x \in Wide /\ y \in Wide
    BY DEF Rep
  <1>2. PICK k \in Int : m = Val(x) + k * (W * W)
    BY DEF Rep
  <1>3. PICK j \in Int : n = Val(y) + j * (W * W)
    BY DEF Rep
  <1>4. Plus(x, y) \in Wide
    BY <1>1, PlusRep DEF Rep
  <1>5. PICK i \in Int : Val(x) + Val(y) = Val(Plus(x, y)) + i * (W * W)
    BY <1>1, PlusRep DEF Rep
  <1>6. Val(x) \in Int /\ Val(y) \in Int /\ Val(Plus(x, y)) \in Int /\ W \in Int
    BY <1>1, <1>4, WideVal, WidthFacts
  <1>7. m + n = Val(Plus(x, y)) + (i + k + j) * (W * W)
    BY <1>2, <1>3, <1>5, <1>6
  <1>8. i + k + j \in Int
    OBVIOUS
  <1> QED BY <1>4, <1>7, <1>8 DEF Rep

\* operator- with its borrow.
LEMMA MinusRep ==
    ASSUME NEW x \in Wide, NEW y \in Wide
    PROVE  Rep(Minus(x, y), Val(x) - Val(y))
  <1>1. W \in Nat \ {0} /\ W \in Int
    BY WidthFacts
  <1>2. /\ x.up \in Nat /\ x.up < W /\ x.lo \in Nat /\ x.lo < W
        /\ y.up \in Nat /\ y.up < W /\ y.lo \in Nat /\ y.lo < W
        /\ Val(x) = x.up * W + x.lo /\ Val(y) = y.up * W + y.lo
    BY WideVal
  <1>3. PICK xu \in Nat, xl \in Nat, yu \in Nat, yl \in Nat :
            xu = x.up /\ xl = x.lo /\ yu = y.up /\ yl = y.lo
    BY <1>2
  <1>4. xl < W /\ yl < W
    BY <1>2, <1>3
  <1>5. PICK j \in Int : /\ j = Borrow(xl, yl)
                         /\ \E r \in Nat : xl - yl = (0 - j) * W + r /\ r < W
    <2>1. CASE yl <= xl
      <3>1. xl - yl = 0 * W + (xl - yl) /\ xl - yl \in Nat /\ xl - yl < W /\ xl - yl <= xl
        BY <1>1, <1>4, <2>1
      <3>2. (xl - yl) % W = xl - yl
        BY <1>1, <3>1, ModSmall
      <3>3. Borrow(xl, yl) = 0
        BY <3>1, <3>2 DEF Borrow
      <3>4. (0 - 0) * W = 0 * W
        BY <1>1
      <3> QED BY <3>1, <3>3, <3>4
    <2>2. CASE ~ (yl <= xl)
      <3> DEFINE r == xl - yl + W
      <3>1. r \in Nat /\ r < W /\ r > xl /\ xl - yl = (0 - 1) * W + r /\ 0 - 1 \in Int
        BY <1>1, <1>4, <2>2
      <3> HIDE DEF r
      <3>2. (xl - yl) % W = r
        BY <1>1, <3>1, ModUnique
      <3>3. Borrow(xl, yl) = 1
        BY <3>1, <3>2 DEF Borrow
      <3> QED BY <3>1, <3>3
    <2> QED BY <2>1, <2>2
  <1>6. PICK r \in Nat : xl - yl = (0 - j) * W + r /\ r < W
    BY <1>5
  <1>7. Rep(U(xu - yu - j, xl - yl), (xu - yu - j) * W + r)
    <2>1. xu - yu - j \in Int /\ xl - yl \in Int /\ 0 - j \in Int
      OBVIOUS
    <2> QED BY <1>6, <2>1, RepU
  <1>8. Minus(x, y) = U(xu - yu - j, xl - yl)
    BY <1>3, <1>5 DEF Minus
  <1>9. (xu - yu - j) * W + r = (xu * W + xl) - (yu * W + yl)
    BY <1>1, <1>6
  <1> QED BY <1>2, <1>3, <1>7, <1>8, <1>9


\* Only the residue of the number matters.
LEMMA RepShift ==
    ASSUME NEW x, NEW m \in Int, NEW k \in Int, NEW n, Rep(x, m), n = m + k * (W * W)
    PROVE  Rep(x, n)
  <1>1. x \in Wide
    BY DEF Rep
  <1>2. PICK j \in Int : m = Val(x) + j * (W * W)
    BY DEF Rep
  <1>3. Val(x) \in Int /\ W \in Int
    BY <1>1, WideVal, WidthFacts
  <1>4. n = Val(x) + (j + k) * (W * W) /\ j + k \in Int
    BY <1>2, <1>3
  <1> QED BY <1>1, <1>4 DEF Rep

\* A value is the number that its four halves write in base 2^32.
LEMMA HalvesOf ==
    ASSUME NEW x \in Wide
    PROVE  \E a3, a2, a1, a0 \in Nat :
               /\ Halves(x) = <<a3, a2, a1, a0>>
               /\ Val(x) = ((a3 * H + a2) * H + a1) * H + a0
  <1>1. H \in Nat \ {0} /\ H \in Int /\ W = H * H
    BY WidthFacts
  <1>2. x.up \in Nat /\ x.lo \in Nat /\ Val(x) = x.up * W + x.lo
    BY WideVal
  <1>3. PICK a3 \in Nat, a2 \in Nat : x.up \div H = a3 /\ x.up % H = a2 /\ x.up = a3 * H + a2
    <2>1. PICK u \in Nat : u = x.up
      BY <1>2
    <2>2. \E q \in Nat, r \in Nat : u \div H = q /\ u % H = r /\ r < H /\ u = q * H + r
      BY <1>1, DivModNat
    <2> QED BY <2>1, <2>2
  <1>4. PICK a1 \in Nat, a0 \in Nat : x.lo \div H = a1 /\ x.lo % H = a0 /\ x.lo = a1 * H + a0
    BY <1>1, <1>2, DivModNat
  <1>5. Halves(x) = <<a3, a2, a1, a0>>
    BY <1>3, <1>4 DEF Halves
  <1>6. (a3 * H + a2) * (H * H) + (a1 * H + a0) = ((a3 * H + a2) * H + a1) * H + a0
    BY <1>1
  <1>7. Val(x) = ((a3 * H + a2) * H + a1) * H + a0
    BY <1>1, <1>2, <1>3, <1>4, <1>6
  <1> QED BY <1>5, <1>7


\* operator*: the columns of the partial products, without the ones that
\* only reach beyond 2^128.
LEMMA TimesRep ==
    ASSUME NEW x \in Wide, NEW y \in Wide
    PROVE  Rep(Times(x, y), Val(x) * Val(y))
  <1>1. H \in Nat \ {0} /\ H \in Int /\ W = H * H /\ W \in Nat /\ W \in Int
    BY WidthFacts
  <1>2. PICK a3, a2, a1, a0 \in Nat :
            /\ Halves(x) = <<a3, a2, a1, a0>>
            /\ Val(x) = ((a3 * H + a2) * H + a1) * H + a0
    BY HalvesOf
  <1>3. PICK b3, b2, b1, b0 \in Nat :
            /\ Halves(y) = <<b3, b2, b1, b0>>
            /\ Val(y) = ((b3 * H + b2) * H + b1) * H + b0
    BY HalvesOf
  <1>4. \A a, b \in Nat : \E h, l \in Nat :
            (a * b) \div H = h /\ (a * b) % H = l /\ a * b = h * H + l
    <2> SUFFICES ASSUME NEW a \in Nat, NEW b \in Nat
                 PROVE  \E h, l \in Nat :
                           (a * b) \div H = h /\ (a * b) % H = l /\ a * b = h * H + l
      OBVIOUS
    <2>1. PICK p \in Nat : p = a * b
      OBVIOUS
    <2>2. \E h \in Nat, l \in Nat : p \div H = h /\ p % H = l /\ l < H /\ p = h * H + l
      BY <1>1, DivModNat
    <2> QED BY <2>1, <2>2
  <1>5. PICK h03, l03 \in Nat :
            (a0 * b0) \div H = h03 /\ (a0 * b0) % H = l03 /\ a0 * b0 = h03 * H + l03
    BY <1>4
  <1>6. PICK h02, l02 \in Nat :
            (a0 * b1) \div H = h02 /\ (a0 * b1) % H = l02 /\ a0 * b1 = h02 * H + l02
    BY <1>4
  <1>7. PICK h13, l13 \in Nat :
            (a1 * b0) \div H = h13 /\ (a1 * b0) % H = l13 /\ a1 * b0 = h13 * H + l13
    BY <1>4
  <1>8. PICK h01, l01 \in Nat :
            (a0 * b2) \div H = h01 /\ (a0 * b2) % H = l01 /\ a0 * b2 = h01 * H + l01
    BY <1>4
  <1>9. PICK h12, l12 \in Nat :
            (a1 * b1) \div H = h12 /\ (a1 * b1) % H = l12 /\ a1 * b1 = h12 * H + l12
    BY <1>4
  <1>10. PICK h23, l23 \in Nat :
            (a2 * b0) \div H = h23 /\ (a2 * b0) % H = l23 /\ a2 * b0 = h23 * H + l23
    BY <1>4
  <1>11. PICK h00, l00 \in Nat :
            (a0 * b3) \div H = h00 /\ (a0 * b3) % H = l00 /\ a0 * b3 = h00 * H + l00
    BY <1>4
  <1>12. PICK h11, l11 \in Nat :
            (a1 * b2) \div H = h11 /\ (a1 * b2) % H = l11 /\ a1 * b2 = h11 * H + l11
    BY <1>4
  <1>13. PICK h22, l22 \in Nat :
            (a2 * b1) \div H = h22 /\ (a2 * b1) % H = l22 /\ a2 * b1 = h22 * H + l22
    BY <1>4
  <1>14. PICK h33, l33 \in Nat :
            (a3 * b0) \div H = h33 /\ (a3 * b0) % H = l33 /\ a3 * b0 = h33 * H + l33
    BY <1>4
  <1> DEFINE fourth == l03
             third == l02 + h03 + l13
             second == l01 + h02 + l12 + h13 + l23
             first == l00 + h01 + l11 + h12 + l22 + h23 + l33
  <1>15. /\ Halves(x)[4 - 0] = a0 /\ Halves(x)[4 - 1] = a1
        /\ Halves(x)[4 - 2] = a2 /\ Halves(x)[4 - 3] = a3
        /\ Halves(y)[0 + 1] = b3 /\ Halves(y)[1 + 1] = b2
        /\ Halves(y)[2 + 1] = b1 /\ Halves(y)[3 + 1] = b0
    BY <1>2, <1>3
  <1>16. Times(x, y) = Plus(Plus(Plus(U(first * H, 0), U(third \div H, third * H)),
                                 U(second, 0)), Small128(fourth))
    BY <1>15, <1>5, <1>6, <1>7, <1>8, <1>9, <1>10, <1>11, <1>12, <1>13, <1>14 DEF Times
  <1>17. first \in Nat /\ second \in Nat /\ third \in Nat /\ fourth \in Nat
    OBVIOUS
  <1>18. Val(x) * Val(y) = first * H * W + third * H + second * W + fourth
           + (h00 + h11 + h22 + h33 + a3 * b1 + a2 * b2 + a1 * b3
                + (a3 * b2 + a2 * b3) * H + a3 * b3 * (H * H)) * (W * W)
    <2>1. Val(x) * Val(y) =
            a0*b0 + (a1*b0+a0*b1)*H + (a2*b0+a1*b1+a0*b2)*(H*H) + (a3*b0+a2*b1+a1*b2+a0*b3)*(H*H*H)
              + (a3*b1+a2*b2+a1*b3 + (a3*b2+a2*b3)*H + a3*b3*(H*H))*(H*H*H*H)
      BY <1>1, <1>2, <1>3
    <2> QED BY <1>1, <2>1, <1>5, <1>6, <1>7, <1>8, <1>9, <1>10, <1>11, <1>12, <1>13, <1>14
  <1> HIDE DEF first, second, third, fourth
  <1>19. Rep(U(first * H, 0), first * H * W)
    <2>1. first * H \in Int /\ 0 = 0 * W + 0 /\ 0 < W
      BY <1>1, <1>17, WidthFacts
    <2>2. Rep(U(first * H, 0), first * H * W + 0)
      BY <2>1, RepU
    <2>3. first * H * W + 0 = first * H * W
      BY <1>1, <1>17
    <2> QED BY <2>2, <2>3
  <1>20. Rep(U(third \div H, third * H), third * H)
    <2>1. PICK t1 \in Nat, t0 \in Nat :
              third \div H = t1 /\ third % H = t0 /\ t0 < H /\ third = t1 * H + t0
      BY <1>1, <1>17, DivModNat
    <2>2. third * H = t1 * W + t0 * H
      BY <1>1, <2>1
    <2>3. t0 * H \in Nat /\ t0 * H < W
      <3>1. t0 * H + H <= H * H
        BY <1>1, <2>1, MulLt
      <3>2. t0 * H \in Nat
        BY <1>1
      <3> QED BY <1>1, <3>1, <3>2
    <2>4. third * H \in Int
      BY <1>1, <1>17
    <2>5. Rep(U(t1, third * H), t1 * W + t0 * H)
      BY <2>2, <2>3, <2>4, RepU
    <2> QED BY <2>1, <2>2, <2>5
  <1>21. Rep(U(second, 0), second * W)
    <2>1. second \in Int /\ 0 = 0 * W + 0 /\ 0 < W
      BY <1>1, <1>17, WidthFacts
    <2>2. Rep(U(second, 0), second * W + 0)
      BY <2>1, RepU
    <2>3. second * W + 0 = second * W
      BY <1>1, <1>17
    <2> QED BY <2>2, <2>3
  <1>22. Rep(Small128(fourth), fourth)
    <2>1. fourth < H
      BY <1>1, <1>5 DEF fourth
    <2>2. fourth < W
      <3>1. 1 * H <= H * H
        BY <1>1, MulLe
      <3> QED BY <1>1, <1>17, <2>1, <3>1
    <2>3. fourth = 0 * W + fourth /\ 0 * W + fourth = fourth
      BY <1>1, <1>17
    <2> QED BY <1>17, <2>2, <2>3, RepU DEF Small128
  <1>23. Rep(Times(x, y), first * H * W + third * H + second * W + fourth)
    BY <1>16, <1>19, <1>20, <1>21, <1>22, RepPlus
  <1> DEFINE k == h00 + h11 + h22 + h33 + a3 * b1 + a2 * b2 + a1 * b3
                      + (a3 * b2 + a2 * b3) * H + a3 * b3 * (H * H)
             m == first * H * W + third * H + second * W + fourth
  <1>24. k \in Int /\ m \in Int
    BY <1>1, <1>17
  <1>25. Rep(Times(x, y), m) /\ Val(x) * Val(y) = m + k * (W * W)
    BY <1>23, <1>18
  <1> HIDE DEF k, m
  <1> QED BY <1>24, <1>25, RepShift

-----------------------------------------------------------------------------
\* The test by which the shifts recognise a count that leaves nothing.
LEMMA ShiftCount ==
    ASSUME NEW y \in Wide
    PROVE  /\ (y.up # 0 \/ y.lo >= 2 * WordBits) <=> Val(y) >= 2 * WordBits
           /\ y.up = 0 => Val(y) = y.lo
  <1>1. /\ W \in Nat /\ W >= 4 /\ WordBits \in Nat /\ 2 * WordBits <= W
        /\ y.up \in Nat /\ y.lo \in Nat /\ Val(y) = y.up * W + y.lo
    BY WideVal, WidthFacts
  <1>2. CASE y.up = 0
    <2>1. Val(y) = y.lo
      BY <1>1, <1>2
    <2> QED BY <1>2, <2>1
  <1>3. CASE y.up # 0
    <2>1. 1 * W <= y.up * W
      <3>1. PICK u \in Nat : u = y.up /\ 1 <= u
        BY <1>1, <1>3
      <3> QED BY <1>1, <3>1, MulLe
    <2>2. y.up * W \in Nat
      BY <1>1
    <2>3. Val(y) >= 2 * WordBits
      BY <1>1, <2>1, <2>2
    <2> QED BY <1>3, <2>3
  <1> QED BY <1>2, <1>3

\* operator<< by fewer bits than a value has.
LEMMA ShiftLeftRep ==
    ASSUME NEW x \in Wide, NEW y \in Wide, Val(y) < 2 * WordBits
    PROVE  Rep(ShiftLeft(x, y), Val(x) * Pow(Val(y)))
  <1>1. W \in Nat \ {0} /\ W \in Int /\ WordBits \in Nat /\ Pow(WordBits) = W
    BY WidthFacts
  <1>2. PICK xu \in Nat, xl \in Nat :
            xu = x.up /\ xl = x.lo /\ xl < W /\ Val(x) = xu * W + xl
    BY WideVal
  <1>3. Val(y) \in Nat /\ y.up = 0 /\ y.lo = Val(y)
    BY <1>1, WideVal, ShiftCount
  <1>4. PICK k \in Nat : k = Val(y) /\ k < 2 * WordBits
    BY <1>3
  <1>5. CASE k = 0
    <2>1. ShiftLeft(x, y) = x
      BY <1>1, <1>3, <1>4, <1>5, WidthFacts DEF ShiftLeft
    <2>2. Val(x) * Pow(k) = Val(x)
      BY <1>5, WideVal, PowOne
    <2> QED BY <1>4, <2>1, <2>2, RepVal
  <1>6. CASE k # 0 /\ k < WordBits
    <2>1. PICK n \in Nat : n = WordBits - k /\ k + n = WordBits
      BY <1>1, <1>6
    <2>2. PICK P \in Nat \ {0}, Q \in Nat \ {0} : P = Pow(k) /\ Q = Pow(n)
      BY PowNat
    <2>3. P * Q = W
      BY <1>1, <2>1, <2>2, PowAdd
    <2>4. ShiftLeft(x, y) = U(((xu * P) % W) + (xl \div Q), xl * P)
      BY <1>1, <1>2, <1>3, <1>4, <1>6, <2>1, <2>2, WidthFacts DEF ShiftLeft, Pow
    <2>5. PICK d \in Nat, e \in Nat : xl \div Q = d /\ xl % Q = e /\ e < Q /\ xl = d * Q + e
      BY <2>2, DivModNat
    <2>6. PICK z \in Nat, c \in Nat : (xu * P) % W = c /\ xu * P = z * W + c
      <3>1. PICK p \in Nat : p = xu * P
        OBVIOUS
      <3>2. \E q \in Nat, r \in Nat : p \div W = q /\ p % W = r /\ r < W /\ p = q * W + r
        BY <1>1, DivModNat
      <3> QED BY <3>1, <3>2
    <2>7. e * P \in Nat /\ e * P < W
      <3>1. e * P + P <= Q * P
        <4>1. e < Q
          BY <2>5
        <4> QED BY <4>1, MulLt
      <3>2. e * P \in Nat /\ Q * P = P * Q
        OBVIOUS
      <3> QED BY <1>1, <2>2, <2>3, <3>1, <3>2
    <2>8. xl * P = d * W + e * P
      BY <2>3, <2>5
    <2>9. Rep(U(c + d, xl * P), (c + d) * W + e * P)
      <3>1. c + d \in Int /\ xl * P \in Int
        OBVIOUS
      <3> QED BY <2>7, <2>8, <3>1, RepU
    <2>10. Val(x) * P = ((c + d) * W + e * P) + z * (W * W)
      <3>1. Val(x) * P = (xu * P) * W + xl * P
        BY <1>1, <1>2
      <3>2. (z * W + c) * W + (d * W + e * P) = ((c + d) * W + e * P) + z * (W * W)
        BY <1>1
      <3> QED BY <2>6, <2>8, <3>1, <3>2
    <2>11. (c + d) * W + e * P \in Int
      BY <1>1
    <2>12. Rep(ShiftLeft(x, y), (c + d) * W + e * P)
      BY <2>4, <2>5, <2>6, <2>9
    <2> QED BY <1>4, <2>2, <2>10, <2>11, <2>12, RepShift
  <1>7. CASE k >= WordBits
    <2>1. PICK n \in Nat : n = k - WordBits /\ k = n + WordBits
      BY <1>1, <1>7
    <2>2. PICK P \in Nat : P = Pow(n)
      BY PowNat
    <2>3. Pow(k) = P * W
      BY <1>1, <2>1, <2>2, PowAdd
    <2>4. ShiftLeft(x, y) = U(xl * P, 0)
      <3>1. ~ (y.up # 0 \/ y.lo >= 2 * WordBits) /\ ~ (y.up = 0 /\ y.lo < WordBits)
        BY <1>1, <1>3, <1>4, <1>7
      <3>2. 2 ^ (y.lo - WordBits) = P
        BY <1>3, <1>4, <2>1, <2>2 DEF Pow
      <3> QED BY <1>2, <3>1, <3>2 DEF ShiftLeft
    <2>5. Rep(U(xl * P, 0), xl * P * W + 0)
      <3>1. xl * P \in Int /\ 0 = 0 * W + 0 /\ 0 < W
        BY <1>1
      <3> QED BY <3>1, RepU
    <2>6. Val(x) * (P * W) = (xl * P * W + 0) + (xu * P) * (W * W)
      BY <1>1, <1>2
    <2>7. xu * P \in Int /\ xl * P * W + 0 \in Int
      BY <1>1
    <2> QED BY <1>4, <2>3, <2>4, <2>5, <2>6, <2>7, RepShift
  <1> QED BY <1>1, <1>5, <1>6, <1>7

\* operator>> by fewer bits than a value has.
LEMMA ShiftRightVal ==
    ASSUME NEW x \in Wide, NEW y \in Wide, Val(y) < 2 * WordBits
    PROVE  /\ ShiftRight(x, y) \in Wide
           /\ Val(ShiftRight(x, y)) = Val(x) \div Pow(Val(y))
  <1>1. W \in Nat \ {0} /\ W \in Int /\ WordBits \in Nat /\ Pow(WordBits) = W
    BY WidthFacts
  <1>2. PICK xu \in Nat, xl \in Nat :
            xu = x.up /\ xl = x.lo /\ xu < W /\ xl < W /\ Val(x) = xu * W + xl
    BY WideVal
  <1>3. Val(y) \in Nat /\ y.up = 0 /\ y.lo = Val(y)
    BY <1>1, WideVal, ShiftCount
  <1>4. PICK k \in Nat : k = Val(y) /\ k < 2 * WordBits
    BY <1>3
  <1>5. CASE k = 0
    <2>1. ShiftRight(x, y) = x
      BY <1>1, <1>3, <1>4, <1>5, WidthFacts DEF ShiftRight
    <2>2. PICK v \in Nat : v = Val(x)
      BY WideVal
    <2>3. v \div 1 = v
      <3>1. v = v * 1 + 0
        OBVIOUS
      <3> QED BY <3>1, ModUnique
    <2> QED BY <1>4, <1>5, <2>1, <2>2, <2>3, PowOne
  <1>6. CASE k # 0 /\ k < WordBits
    <2>1. PICK n \in Nat : n = WordBits - k /\ k + n = WordBits
      BY <1>1, <1>6
    <2>2. PICK P \in Nat \ {0}, Q \in Nat \ {0} : P = Pow(k) /\ Q = Pow(n)
      BY PowNat
    <2>3. P * Q = W
      BY <1>1, <2>1, <2>2, PowAdd
    <2>4. ShiftRight(x, y) = U(xu \div P, ((xu * Q) % W) + (xl \div P))
      BY <1>1, <1>2, <1>3, <1>4, <1>6, <2>1, <2>2, WidthFacts DEF ShiftRight, Pow
    <2>5. PICK d \in Nat, e \in Nat :
              xu \div P = d /\ e < P /\ xu = d * P + e /\ (xu * Q) % W = e * Q
      <3>1. \E d \in Nat, e \in Nat :
                xu \div P = d /\ e < P /\ xu = d * P + e /\ (xu * Q) % (P * Q) = e * Q
        BY DivProduct
      <3> QED BY <2>3, <3>1
    <2>6. PICK f \in Nat, g \in Nat : xl \div P = f /\ xl % P = g /\ g < P /\ xl = f * P + g
      BY <2>2, DivModNat
    <2>7. e * Q + Q <= W
      <3>1. e * Q + Q <= P * Q
        <4>1. e < P
          BY <2>5
        <4> QED BY <4>1, MulLt
      <3> QED BY <2>3, <3>1
    <2>8. (xu * Q) % W = e * Q
      BY <2>5
    <2>9. f < Q
      <3> SUFFICES ASSUME ~ (f < Q) PROVE FALSE
        OBVIOUS
      <3>1. Q * P <= f * P
        BY MulLe
      <3>2. Q * P = P * Q /\ f * P \in Nat
        OBVIOUS
      <3> QED BY <1>1, <1>2, <2>3, <2>6, <3>1, <3>2
    <2>10. d < W
      <3>1. 1 * d <= P * d /\ 1 * d = d /\ P * d = d * P
        BY MulLe
      <3>2. d * P \in Nat
        OBVIOUS
      <3> QED BY <1>1, <1>2, <2>5, <3>1, <3>2
    <2>11. e * Q + f \in Nat /\ e * Q + f < W
      BY <1>1, <2>7, <2>9
    <2>12. ShiftRight(x, y) \in Wide /\ Val(ShiftRight(x, y)) = d * W + (e * Q + f)
      <3>1. PICK t \in Nat : t = e * Q + f /\ t < W
        BY <2>11
      <3>2. ShiftRight(x, y) = U(d, t)
        BY <2>4, <2>5, <2>6, <2>8, <3>1
      <3> QED BY <2>10, <3>1, <3>2, MakeUExact
    <2>13. xu * W + xl = (d * W + (e * Q + f)) * P + g
      <3>1. (d * P + e) * (P * Q) + (f * P + g) = (d * (P * Q) + (e * Q + f)) * P + g
        OBVIOUS
      <3> QED BY <2>3, <2>5, <2>6, <3>1
    <2>14. (xu * W + xl) \div P = d * W + (e * Q + f)
      <3>1. d * W + (e * Q + f) \in Int /\ P \in Nat \ {0}
        BY <1>1, <2>2
      <3> QED BY <2>6, <2>13, <3>1, ModUnique
    <2> QED BY <1>2, <1>4, <2>2, <2>12, <2>14
  <1>7. CASE k >= WordBits
    <2>1. PICK n \in Nat : n = k - WordBits /\ k = n + WordBits
      BY <1>1, <1>7
    <2>2. PICK P \in Nat \ {0} : P = Pow(n)
      BY PowNat
    <2>3. Pow(k) = P * W
      BY <1>1, <2>1, <2>2, PowAdd
    <2>4. ShiftRight(x, y) = U(0, xu \div P)
      <3>1. ~ (y.up # 0 \/ y.lo >= 2 * WordBits) /\ ~ (y.up = 0 /\ y.lo < WordBits)
        BY <1>1, <1>3, <1>4, <1>7
      <3>2. 2 ^ (y.lo - WordBits) = P
        BY <1>3, <1>4, <2>1, <2>2 DEF Pow
      <3> QED BY <1>2, <3>1, <3>2 DEF ShiftRight
    <2>5. PICK d \in Nat, e \in Nat : xu \div P = d /\ xu % P = e /\ e < P /\ xu = d * P + e
      BY <2>2, DivModNat
    <2>6. d < W
      <3>1. 1 * d <= P * d /\ 1 * d = d /\ P * d = d * P
        BY MulLe
      <3>2. d * P \in Nat
        OBVIOUS
      <3> QED BY <1>1, <1>2, <2>5, <3>1, <3>2
    <2>7. ShiftRight(x, y) \in Wide /\ Val(ShiftRight(x, y)) = d
      <3>1. 0 * W + d = d /\ 0 < W
        BY <1>1
      <3> QED BY <2>4, <2>5, <2>6, <3>1, MakeUExact
    <2>8. xu * W + xl = d * (P * W) + (e * W + xl)
      BY <1>1, <2>5
    <2>9. e * W + xl \in Nat /\ e * W + xl < P * W
      <3>1. e * W + W <= P * W
        BY <1>1, <2>5, MulLt
      <3>2. e * W \in Nat /\ P * W \in Nat
        BY <1>1
      <3> QED BY <1>1, <1>2, <3>1, <3>2
    <2>10. (xu * W + xl) \div (P * W) = d
      <3>1. PICK m \in Nat : m = P * W
        BY <1>1
      <3>2. m > 0
        BY <2>9, <3>1
      <3> QED BY <2>8, <2>9, <3>1, <3>2, ModUnique
    <2> QED BY <1>2, <1>4, <2>3, <2>7, <2>10
  <1> QED BY <1>1, <1>5, <1>6, <1>7

-----------------------------------------------------------------------------
\* operator< is the order of the numbers.
LEMMA LessVal ==
    ASSUME NEW x \in Wide, NEW y \in Wide
    PROVE  Less(x, y) <=> Val(x) < Val(y)
  <1>1. W \in Nat \ {0} /\ W \in Int
    BY WidthFacts
  <1>2. PICK xu \in Nat, xl \in Nat :
            xu = x.up /\ xl = x.lo /\ xl < W /\ Val(x) = xu * W + xl
    BY WideVal
  <1>3. PICK yu \in Nat, yl \in Nat :
            yu = y.up /\ yl = y.lo /\ yl < W /\ Val(y) = yu * W + yl
    BY WideVal
  <1>4. xu * W \in Nat /\ yu * W \in Nat
    BY <1>1
  <1>5. Less(x, y) <=> IF xu = yu THEN xl < yl ELSE xu < yu
    BY <1>2, <1>3 DEF Less
  <1>6. CASE xu = yu
    BY <1>2, <1>3, <1>4, <1>5, <1>6
  <1>7. CASE xu < yu
    <2>1. xu * W + W <= yu * W
      BY <1>1, <1>7, MulLt
    <2> QED BY <1>1, <1>2, <1>3, <1>4, <1>5, <1>7, <2>1
  <1>8. CASE yu < xu
    <2>1. yu * W + W <= xu * W
      BY <1>1, <1>8, MulLt
    <2> QED BY <1>1, <1>2, <1>3, <1>4, <1>5, <1>8, <2>1
  <1> QED BY <1>6, <1>7, <1>8

\* operator== is the equality of the numbers.
LEMMA ValInjective ==
    ASSUME NEW x \in Wide, NEW y \in Wide, Val(x) = Val(y)
    PROVE  x = y
  <1>1. W \in Nat \ {0} /\ W \in Int
    BY WidthFacts
  <1>2. PICK xu \in Nat, xl \in Nat :
            xu = x.up /\ xl = x.lo /\ xl < W /\ Val(x) = xu * W + xl
    BY WideVal
  <1>3. PICK yu \in Nat, yl \in Nat :
            yu = y.up /\ yl = y.lo /\ yl < W /\ Val(y) = yu * W + yl
    BY WideVal
  <1>4. xu * W \in Nat /\ yu * W \in Nat
    BY <1>1
  <1>5. xu * W + xl = yu * W + yl
    BY <1>2, <1>3
  <1>6. xl < W /\ yl < W
    BY <1>2, <1>3
  <1>7. ~ (xu < yu)
    <2> SUFFICES ASSUME xu < yu PROVE FALSE
      OBVIOUS
    <2>1. xu * W + W <= yu * W
      BY <1>1, MulLt
    <2> QED BY <1>1, <1>4, <1>5, <1>6, <2>1
  <1>8. ~ (yu < xu)
    <2> SUFFICES ASSUME yu < xu PROVE FALSE
      OBVIOUS
    <2>1. yu * W + W <= xu * W
      BY <1>1, MulLt
    <2> QED BY <1>1, <1>4, <1>5, <1>6, <2>1
  <1>9. xu = yu
    BY <1>7, <1>8
  <1>10. xl = yl
    BY <1>4, <1>9, <1>5
  <1> QED BY <1>2, <1>3, <1>9, <1>10, WideEq

\* operator>= is the order of the numbers.
LEMMA AtLeastVal ==
    ASSUME NEW x \in Wide, NEW y \in Wide
    PROVE  AtLeast(x, y) <=> Val(y) <= Val(x)
  <1>1. AtLeast(x, y) <=> (Less(y, x) \/ x = y)
    BY DEF AtLeast
  <1>2. Less(y, x) <=> Val(y) < Val(x)
    BY LessVal
  <1>3. x = y <=> Val(x) = Val(y)
    BY ValInjective
  <1> QED BY <1>1, <1>2, <1>3, WideVal

\* uint128_0 and uint128_1.
LEMMA ConstVal ==
    /\ Zero \in Wide /\ Val(Zero) = 0
    /\ One \in Wide /\ Val(One) = 1
  <1>1. W \in Nat /\ 1 < W /\ 0 < W /\ 0 * W + 0 = 0 /\ 0 * W + 1 = 1
    BY WidthFacts
  <1> QED BY <1>1, MakeUExact DEF Zero, One, Small128

\* A value made from a single word.
LEMMA SmallVal ==
    ASSUME NEW n \in Nat, n < W
    PROVE  Small128(n) \in Wide /\ Val(Small128(n)) = n
  <1>1. 0 < W /\ 0 * W + n = n
    BY WidthFacts
  <1> QED BY <1>1, MakeUExact DEF Small128

\* The operands of a call stand for the numbers they were made from.
LEMMA OfValVal ==
    ASSUME NEW n \in Nat, n < W * W
    PROVE  OfVal(n) \in Wide /\ Val(OfVal(n)) = n
  <1>1. W \in Nat \ {0} /\ W \in Int
    BY WidthFacts
  <1>2. PICK d \in Nat, r \in Nat : n \div W = d /\ n % W = r /\ r < W /\ n = d * W + r
    BY <1>1, DivModNat
  <1>3. d < W
    <2> SUFFICES ASSUME ~ (d < W) PROVE FALSE
      OBVIOUS
    <2>1. W * W <= d * W
      BY <1>1, MulLe
    <2>2. W * W \in Nat /\ d * W \in Nat
      BY <1>1
    <2> QED BY <1>2, <2>1, <2>2
  <1>4. d % W = d
    BY <1>1, <1>3, ModSmall
  <1>5. OfVal(n) = [up |-> d, lo |-> r]
    BY <1>2, <1>4 DEF OfVal, U
  <1>6. OfVal(n) \in Wide
    <2>1. d \in 0 .. W - 1 /\ r \in 0 .. W - 1
      BY <1>1, <1>2, <1>3
    <2> QED BY <1>5, <2>1 DEF Wide, Word
  <1> QED BY <1>2, <1>5, <1>6 DEF Val

-----------------------------------------------------------------------------
\* Halving, as the loop of divmod does it.
LEMMA StepDownVal ==
    ASSUME NEW x \in Wide, NEW v \in Nat, Val(x) = 2 * v
    PROVE  StepDown(x) \in Wide /\ Val(StepDown(x)) = v
  <1>1. One \in Wide /\ Val(One) = 1 /\ 1 < 2 * WordBits
    BY ConstVal, WidthFacts
  <1>2. StepDown(x) \in Wide /\ Val(StepDown(x)) = (2 * v) \div 2
    BY <1>1, ShiftRightVal, PowOne DEF StepDown
  <1>3. 2 * v = v * 2 + 0
    OBVIOUS
  <1>4. PICK t \in Nat : t = 2 * v
    OBVIOUS
  <1>5. t \div 2 = v
    BY <1>3, <1>4, ModUnique
  <1> QED BY <1>2, <1>4, <1>5

\* Halving a value that may be odd.
LEMMA StepDownWide ==
    ASSUME NEW x \in Wide
    PROVE  StepDown(x) \in Wide
  <1>1. One \in Wide /\ Val(One) = 1 /\ 1 < 2 * WordBits
    BY ConstVal, WidthFacts
  <1> QED BY <1>1, ShiftRightVal DEF StepDown

\* The length of a word in bits: the least power of two above it.
LEMMA BitLength ==
    ASSUME NEW w \in Nat \ {0}, w < W
    PROVE  \E n \in 1 .. WordBits : Pow(n - 1) <= w /\ w < Pow(n)
  <1> DEFINE T == {n \in Nat : w < Pow(n)}
  <1>1. WordBits \in T
    BY WidthFacts
  <1>2. T \subseteq Nat /\ T # {}
    BY <1>1
  <1> HIDE DEF T
  <1> DEFINE R == {ss \in Nat \X Nat : ss[1] < ss[2]}
  <1>3. IsWellFoundedOn(R, Nat)
    BY NatLessThanWellFounded, Zenon DEF OpToRel
  <1> HIDE DEF R
  <1>4. PICK n \in T : \A m \in T : ~ (<<m, n>> \in R)
    BY <1>2, <1>3, WFMin, Zenon
  <1>5. n \in Nat /\ w < Pow(n)
    BY <1>2, <1>4 DEF T
  <1>6. \A m \in T : ~ (m < n)
    BY <1>2, <1>4 DEF R
  <1>7. n # 0
    BY <1>5, PowOne
  <1>8. n - 1 \in Nat /\ n - 1 < n
    BY <1>5, <1>7
  <1>9. n - 1 \notin T
    BY <1>6, <1>8
  <1>10. ~ (w < Pow(n - 1))
    BY <1>8, <1>9 DEF T
  <1>11. Pow(n - 1) <= w
    BY <1>8, <1>10, PowNat
  <1>12. n <= WordBits
    BY <1>1, <1>5, <1>6, WidthFacts
  <1> QED BY <1>5, <1>7, <1>11, <1>12, WidthFacts

\* bits() finds the leading bit.
LEMMA BitsVal ==
    ASSUME NEW x \in Wide, Val(x) # 0
    PROVE  /\ Bits(x) \in 1 .. 2 * WordBits
           /\ Pow(Bits(x) - 1) <= Val(x) /\ Val(x) < Pow(Bits(x))
  <1> DEFINE wordBits(w) == IF w = 0 THEN 0
                            ELSE CHOOSE n \in 1 .. WordBits : Pow(n - 1) <= w /\ w < Pow(n)
  <1>1. W \in Nat \ {0} /\ W \in Int /\ WordBits \in Nat /\ Pow(WordBits) = W
    BY WidthFacts
  <1>2. PICK xu \in Nat, xl \in Nat :
            xu = x.up /\ xl = x.lo /\ xu < W /\ xl < W /\ Val(x) = xu * W + xl
    BY WideVal
  <1>3. Bits(x) = IF xu # 0 THEN WordBits + wordBits(xu) ELSE wordBits(xl)
    BY <1>2 DEF Bits, Pow
  <1>4. \A w \in Nat \ {0} : w < W => /\ wordBits(w) \in 1 .. WordBits
                                      /\ Pow(wordBits(w) - 1) <= w /\ w < Pow(wordBits(w))
    <2> SUFFICES ASSUME NEW w \in Nat \ {0}, w < W
                 PROVE  /\ wordBits(w) \in 1 .. WordBits
                        /\ Pow(wordBits(w) - 1) <= w /\ w < Pow(wordBits(w))
      OBVIOUS
    <2>1. \E n \in 1 .. WordBits : Pow(n - 1) <= w /\ w < Pow(n)
      BY BitLength
    <2>2. wordBits(w) = CHOOSE n \in 1 .. WordBits : Pow(n - 1) <= w /\ w < Pow(n)
      OBVIOUS
    <2> HIDE DEF wordBits
    <2> QED BY <2>1, <2>2
  <1> HIDE DEF wordBits
  <1>5. CASE xu = 0
    <2>1. Val(x) = xl /\ xl \in Nat \ {0}
      BY <1>1, <1>2, <1>5
    <2>2. Bits(x) = wordBits(xl)
      BY <1>3, <1>5
    <2>3. /\ wordBits(xl) \in 1 .. WordBits
          /\ Pow(wordBits(xl) - 1) <= xl /\ xl < Pow(wordBits(xl))
      BY <1>2, <1>4, <2>1
    <2> QED BY <1>1, <2>1, <2>2, <2>3
  <1>6. CASE xu # 0
    <2>1. PICK n \in 1 .. WordBits : n = wordBits(xu) /\ Pow(n - 1) <= xu /\ xu < Pow(n)
      BY <1>2, <1>4, <1>6
    <2>2. Bits(x) = n + WordBits /\ Bits(x) - 1 = (n - 1) + WordBits /\ n \in Nat /\ n - 1 \in Nat
      BY <1>1, <1>3, <1>6, <2>1
    <2>3. PICK P \in Nat, Q \in Nat : P = Pow(n - 1) /\ Q = Pow(n)
      BY <2>2, PowNat
    <2>4. Pow(Bits(x) - 1) = P * W /\ Pow(Bits(x)) = Q * W
      BY <1>1, <2>2, <2>3, PowAdd
    <2>5. P * W <= xu * W
      BY <1>1, <2>1, <2>3, MulLe
    <2>6. xu * W + W <= Q * W
      BY <1>1, <2>1, <2>3, MulLt
    <2>7. P * W \in Nat /\ xu * W \in Nat /\ Q * W \in Nat
      BY <1>1
    <2>8. P * W <= Val(x) /\ Val(x) < Q * W
      BY <1>1, <1>2, <2>5, <2>6, <2>7
    <2>9. Bits(x) \in 1 .. 2 * WordBits
      BY <1>1, <2>1, <2>2
    <2> QED BY <2>4, <2>8, <2>9
  <1> QED BY <1>5, <1>6


\* One word of x | y: the bit is not set in a multiple of twice the bit.
LEMMA OrWord ==
    ASSUME NEW p \in Nat \ {0}, NEW a \in Nat, NEW c \in Int, NEW n \in Int,
           a = c * (2 * p), W = n * (2 * p), a < W
    PROVE  (a \div p) % 2 = 0 /\ a + p < W
  <1>1. PICK d \in Int : d = 2 * c
    OBVIOUS
  <1>2. a = d * p + 0
    BY <1>1
  <1>3. a \div p = d
    BY <1>2, ModUnique
  <1>4. d % 2 = 0
    <2>1. d = c * 2 + 0
      BY <1>1
    <2> QED BY <2>1, ModUnique
  <1>5. c < n
    <2> SUFFICES ASSUME ~ (c < n) PROVE FALSE
      OBVIOUS
    <2>1. PICK q \in Nat : q = 2 * p
      OBVIOUS
    <2>2. n * q <= c * q
      BY MulLe
    <2> QED BY <2>1, <2>2, WidthFacts
  <1>6. c * (2 * p) + 2 * p <= n * (2 * p)
    BY <1>5, MulLt
  <1>7. a + p < W
    BY <1>6, WidthFacts
  <1> QED BY <1>3, <1>4, <1>7

\* A multiple of 2^64 has an empty lower word.
LEMMA WordMultiple ==
    ASSUME NEW u \in Nat, NEW l \in Nat, NEW t \in Nat, l < W, u * W + l = t * W
    PROVE  u = t /\ l = 0
  <1>1. W \in Nat \ {0} /\ W \in Int
    BY WidthFacts
  <1>2. u * W \in Nat /\ t * W \in Nat
    BY <1>1
  <1>3. ~ (u < t)
    <2> SUFFICES ASSUME u < t PROVE FALSE
      OBVIOUS
    <2>1. u * W + W <= t * W
      BY <1>1, MulLt
    <2> QED BY <1>1, <1>2, <2>1
  <1>4. ~ (t < u)
    <2> SUFFICES ASSUME t < u PROVE FALSE
      OBVIOUS
    <2>1. t * W + W <= u * W
      BY <1>1, MulLt
    <2> QED BY <1>1, <1>2, <2>1
  <1>5. u = t
    BY <1>3, <1>4
  <1> QED BY <1>2, <1>5

\* operator| with a bit below the ones that are set adds that bit.
LEMMA OrBitVal ==
    ASSUME NEW x \in Wide, NEW y \in Wide, NEW j \in Nat, NEW c \in Nat,
           j < 2 * WordBits, Val(y) = Pow(j), Val(x) = c * Pow(j + 1)
    PROVE  OrBit(x, y) \in Wide /\ Val(OrBit(x, y)) = Val(x) + Val(y)
  <1>1. W \in Nat \ {0} /\ W \in Int /\ WordBits \in Nat /\ Pow(WordBits) = W
    BY WidthFacts
  <1>2. PICK xu \in Nat, xl \in Nat :
            xu = x.up /\ xl = x.lo /\ xu < W /\ xl < W /\ Val(x) = xu * W + xl
    BY WideVal
  <1> DEFINE or(a, b) == IF b = 0 \/ (a \div b) % 2 = 1 THEN a ELSE a + b
  <1>3. OrBit(x, y) = U(or(xu, y.up), or(xl, y.lo))
    BY <1>2 DEF OrBit
  <1>4. CASE j < WordBits
    <2>1. PICK n \in Nat : n = WordBits - (j + 1) /\ WordBits = n + (j + 1)
      BY <1>1, <1>4
    <2>2. PICK p \in Nat \ {0}, N \in Nat : p = Pow(j) /\ N = Pow(n)
      BY <2>1, PowNat
    <2>3. Pow(j + 1) = 2 * p
      BY <2>2, PowSucc
    <2>4. W = N * (2 * p)
      BY <1>1, <2>1, <2>2, <2>3, PowAdd
    <2>5. PICK k \in Int : k = c - xu * N
      OBVIOUS
    <2>6. xl = k * (2 * p)
      <3>1. xu * W + xl = c * (2 * p)
        BY <1>2, <2>3
      <3>2. xu * (N * (2 * p)) + xl = c * (2 * p)
        BY <2>4, <3>1
      <3>3. xl = (c - xu * N) * (2 * p)
        BY <3>2
      <3> QED BY <2>5, <3>3
    <2>7. (xl \div p) % 2 = 0 /\ xl + p < W
      BY <1>2, <2>4, <2>6, OrWord
    <2>8. y.up = 0 /\ y.lo = p
      <3>1. 0 < W /\ p < W /\ 0 * W + p = p
        BY <1>1, <1>2, <2>7
      <3>2. U(0, p) \in Wide /\ U(0, p).up = 0 /\ U(0, p).lo = p /\ Val(U(0, p)) = p
        BY <3>1, MakeUExact
      <3>3. y = U(0, p)
        BY <2>2, <3>2, ValInjective
      <3> QED BY <3>2, <3>3
    <2>9. OrBit(x, y) = U(xu, xl + p)
      BY <1>3, <2>7, <2>8
    <2>10. OrBit(x, y) \in Wide /\ Val(OrBit(x, y)) = xu * W + (xl + p)
      <3>1. PICK t \in Nat : t = xl + p /\ t < W
        BY <2>7
      <3> QED BY <1>2, <2>9, <3>1, MakeUExact
    <2>11. xu * W + (xl + p) = (xu * W + xl) + p
      BY <1>1
    <2> QED BY <1>2, <2>2, <2>10, <2>11
  <1>5. CASE j >= WordBits
    <2>1. PICK i \in Nat, n \in Nat : j = i + WordBits /\ WordBits = n + (i + 1)
      <3>1. j - WordBits \in Nat /\ WordBits - (j - WordBits + 1) \in Nat
        BY <1>1, <1>5
      <3>2. j = (j - WordBits) + WordBits
        BY <1>1
      <3>3. WordBits = (WordBits - (j - WordBits + 1)) + ((j - WordBits) + 1)
        BY <1>1
      <3> QED BY <3>1, <3>2, <3>3
    <2>2. PICK p \in Nat \ {0}, N \in Nat : p = Pow(i) /\ N = Pow(n)
      BY PowNat
    <2>3. Pow(j) = p * W
      BY <1>1, <2>1, <2>2, PowAdd
    <2>4. Pow(i + 1) = 2 * p /\ Pow(j + 1) = 2 * (p * W)
      BY <2>2, <2>3, PowSucc
    <2>5. W = N * (2 * p)
      BY <1>1, <2>1, <2>2, <2>4, PowAdd
    <2>6. xu = c * (2 * p) /\ xl = 0
      <3>1. PICK t \in Nat : t = c * (2 * p)
        OBVIOUS
      <3>2. xu * W + xl = t * W
        BY <1>1, <1>2, <2>4, <3>1
      <3>3. xu = t /\ xl = 0
        BY <1>2, <3>2, WordMultiple
      <3> QED BY <3>1, <3>3
    <2>7. (xu \div p) % 2 = 0 /\ xu + p < W
      <3>1. c \in Int /\ N \in Int
        OBVIOUS
      <3> QED BY <1>2, <2>5, <2>6, <3>1, OrWord
    <2>8. y.up = p /\ y.lo = 0
      <3>1. 0 < W /\ p < W /\ p * W + 0 = p * W
        BY <1>1, <1>2, <2>7
      <3>2. U(p, 0) \in Wide /\ U(p, 0).up = p /\ U(p, 0).lo = 0 /\ Val(U(p, 0)) = p * W
        BY <3>1, MakeUExact
      <3>3. y = U(p, 0)
        BY <2>3, <3>2, ValInjective
      <3> QED BY <3>2, <3>3
    <2>9. OrBit(x, y) = U(xu + p, xl)
      BY <1>3, <2>7, <2>8
    <2>10. OrBit(x, y) \in Wide /\ Val(OrBit(x, y)) = (xu + p) * W + xl
      <3>1. PICK t \in Nat : t = xu + p /\ t < W
        BY <2>7
      <3> QED BY <1>2, <2>9, <3>1, MakeUExact
    <2>11. (xu + p) * W + xl = (xu * W + xl) + p * W
      BY <1>1
    <2> QED BY <1>2, <2>3, <2>10, <2>11
  <1> QED BY <1>1, <1>4, <1>5

-----------------------------------------------------------------------------
\* The lowest digit of a number.
LEMMA LowDigit ==
    ASSUME NEW m \in Nat \ {0}, NEW u \in Nat, NEW l \in Nat, l < m
    PROVE  (u * m + l) % m = l
  <1>1. PICK v \in Nat : v = u * m + l
    OBVIOUS
  <1>2. v % m = l
    BY <1>1, ModUnique
  <1> QED BY <1>1, <1>2

\* The lower word is the remainder modulo 2^64.
LEMMA LowWord ==
    ASSUME NEW x \in Wide
    PROVE  Val(x) % W = x.lo
  <1>1. PICK u \in Nat, l \in Nat : l = x.lo /\ l < W /\ Val(x) = u * W + l
    BY WideVal
  <1>2. W \in Nat \ {0}
    BY WidthFacts
  <1>3. l < W
    BY <1>1
  <1>4. (u * W + l) % W = l
    BY <1>2, <1>3, LowDigit
  <1> QED BY <1>1, <1>4

\* The calls of divmod.
Divisions == {"div", "mod", "bigDivide"}

\* What operator/, operator% and bigDivide make of the quotient.
LEMMA FinishVal ==
    ASSUME NEW call \in Divisions, NEW l \in Wide, NEW r \in Wide, NEW q \in Wide,
           NEW rem \in Nat, Val(l) = Val(r) * Val(q) + rem, rem < Val(r)
    PROVE  /\ Finish(call, l, r, q).val \in Wide
           /\ Finish(call, l, r, q).ok \in BOOLEAN
           /\ Val(Finish(call, l, r, q).val) = Reference(call, Val(l), Val(r))
           /\ Finish(call, l, r, q).ok <=> (call = "bigDivide" => Val(l) \div Val(r) < W)
  <1>1. PICK L \in Nat, R \in Nat, Q \in Nat :
            L = Val(l) /\ R = Val(r) /\ Q = Val(q) /\ L < W * W /\ Q < W * W
    BY WideVal
  <1>2. R \in Nat \ {0} /\ L = Q * R + rem /\ rem < R
    BY <1>1
  <1>3. L \div R = Q /\ L % R = rem
    BY <1>2, ModUnique
  <1>4. CASE call = "div"
    <2>1. Finish(call, l, r, q) = [val |-> q, ok |-> TRUE]
      BY <1>4 DEF Finish
    <2>2. Reference(call, Val(l), Val(r)) = Q
      BY <1>1, <1>3, <1>4 DEF Reference
    <2>3. Finish(call, l, r, q).val = q /\ Finish(call, l, r, q).ok = TRUE
      BY <2>1
    <2>4. call = "bigDivide" => Val(l) \div Val(r) < W
      BY <1>4
    <2> QED BY <1>1, <2>2, <2>3, <2>4
  <1>5. CASE call = "mod"
    <2>1. Finish(call, l, r, q) = [val |-> Minus(l, Times(r, q)), ok |-> TRUE]
      BY <1>5 DEF Finish
    <2>2. Times(r, q) \in Wide /\ Val(Times(r, q)) = R * Q
      <3>1. Rep(Times(r, q), R * Q)
        BY <1>1, TimesRep
      <3>2. R * Q \in Nat /\ R * Q < W * W
        <4>1. R * Q \in Nat /\ Q * R = R * Q
          OBVIOUS
        <4>2. R * Q <= L
          BY <1>2, <4>1
        <4> QED BY <1>1, <4>1, <4>2, WidthFacts
      <3> QED BY <3>1, <3>2, RepExact
    <2>3. Minus(l, Times(r, q)) \in Wide /\ Val(Minus(l, Times(r, q))) = rem
      <3>1. Rep(Minus(l, Times(r, q)), L - R * Q)
        BY <1>1, <2>2, MinusRep
      <3>2. L - R * Q = rem
        BY <1>2
      <3>3. rem < W * W
        <4>1. 0 <= Q * R
          OBVIOUS
        <4>2. rem <= L
          BY <1>2, <4>1
        <4> QED BY <1>1, <4>2, WidthFacts
      <3> QED BY <3>1, <3>2, <3>3, RepExact
    <2>4. Reference(call, Val(l), Val(r)) = rem
      BY <1>1, <1>3, <1>5 DEF Reference
    <2>5. /\ Finish(call, l, r, q).val = Minus(l, Times(r, q))
          /\ Finish(call, l, r, q).ok = TRUE
      BY <2>1
    <2>6. call = "bigDivide" => Val(l) \div Val(r) < W
      BY <1>5
    <2> QED BY <2>3, <2>4, <2>5, <2>6
  <1>6. CASE call = "bigDivide"
    <2>1. Finish(call, l, r, q) = [val |-> Small128(q.lo), ok |-> AtLeast(Small128(W - 1), q)]
      BY <1>6 DEF Finish
    <2>2. PICK qu \in Nat, ql \in Nat : qu = q.up /\ ql = q.lo /\ ql < W /\ Q = qu * W + ql
      BY <1>1, WideVal
    <2>3. W \in Nat \ {0}
      BY WidthFacts
    <2>4. Small128(q.lo) \in Wide /\ Val(Small128(q.lo)) = ql
      BY <2>2, SmallVal
    <2>5. Q % W = ql
      BY <1>1, <2>2, LowWord
    <2>6. Reference(call, Val(l), Val(r)) = ql
      BY <1>1, <1>3, <1>6, <2>5 DEF Reference
    <2>7. W - 1 \in Nat /\ W - 1 < W
      BY <2>3
    <2>8. Small128(W - 1) \in Wide /\ Val(Small128(W - 1)) = W - 1
      BY <2>7, SmallVal
    <2>9. AtLeast(Small128(W - 1), q) <=> Q <= W - 1
      BY <1>1, <2>8, AtLeastVal
    <2>10. Q <= W - 1 <=> Q < W
      BY <2>3
    <2>11. AtLeast(Small128(W - 1), q) \in BOOLEAN
      BY DEF AtLeast, Less
    <2>12. AtLeast(Small128(W - 1), q) <=> Val(l) \div Val(r) < W
      BY <1>1, <1>3, <2>9, <2>10
    <2> QED BY <1>6, <2>1, <2>4, <2>6, <2>11, <2>12
  <1> QED BY <1>4, <1>5, <1>6 DEF Divisions

\* Where the divisor stands before the loop: under the leading bit of the
\* dividend, at most one position too high.
LEMMA AlignVal ==
    ASSUME NEW l \in Wide, NEW r \in Wide, Val(r) >= 2, Val(r) <= Val(l)
    PROVE  \E k \in Nat, P \in Nat :
               /\ k = Align(l, r) /\ k < 2 * WordBits /\ P = Pow(k)
               /\ Val(l) < 2 * (Val(r) * P)
               /\ ShiftLeft(r, Small128(k)) \in Wide
               /\ Val(ShiftLeft(r, Small128(k))) = Val(r) * P
               /\ ShiftLeft(One, Small128(k)) \in Wide
               /\ Val(ShiftLeft(One, Small128(k))) = P
  <1>1. PICK L \in Nat, R \in Nat : L = Val(l) /\ R = Val(r) /\ 2 <= R /\ R <= L
    BY WideVal
  <1>2. /\ WordBits \in Nat /\ 2 * WordBits \in Nat /\ W \in Nat /\ 2 * WordBits <= W
        /\ W * W \in Nat /\ Pow(2 * WordBits) = W * W
    BY WidthFacts
  <1>3. PICK m \in 1 .. 2 * WordBits :
            m = Bits(l) /\ Pow(m - 1) <= L /\ L < Pow(m)
    BY <1>1, BitsVal
  <1>4. PICK n \in 1 .. 2 * WordBits :
            n = Bits(r) /\ Pow(n - 1) <= R /\ R < Pow(n)
    BY <1>1, BitsVal
  <1>5. m \in Nat /\ n \in Nat /\ m - 1 \in Nat /\ n - 1 \in Nat /\ m <= 2 * WordBits
    BY <1>2
  <1>6. /\ Pow(m) \in Nat /\ Pow(n) \in Nat
        /\ Pow(m - 1) \in Nat /\ Pow(n - 1) \in Nat
    BY <1>5, PowNat
  <1>7. n <= m
    <2> SUFFICES ASSUME ~ (n <= m) PROVE FALSE
      OBVIOUS
    <2>1. m <= n - 1
      BY <1>5
    <2>2. Pow(m) <= Pow(n - 1)
      BY <1>5, <2>1, PowLe
    <2> QED BY <1>1, <1>3, <1>4, <1>6, <2>2
  <1>8. n # 1
    BY <1>1, <1>4, PowOne
  <1>9. PICK k \in Nat : k = m - n /\ m = n + k /\ m = ((n - 1) + k) + 1
    BY <1>5, <1>7
  <1>10. k < 2 * WordBits /\ k < W
    BY <1>2, <1>5, <1>8, <1>9
  <1>11. PICK P \in Nat \ {0}, A \in Nat, B \in Nat : P = Pow(k) /\ A = Pow(n) /\ B = Pow(n - 1)
    BY <1>5, PowNat
  <1>12. Pow(m) = A * P
    BY <1>5, <1>9, <1>11, PowAdd
  <1>13. Pow(m) = 2 * (B * P)
    <2>1. (n - 1) + k \in Nat
      BY <1>5
    <2>2. Pow((n - 1) + k) = B * P
      BY <1>5, <1>11, PowAdd
    <2> QED BY <1>9, <2>1, <2>2, PowSucc
  <1>14. Pow(m) <= W * W
    BY <1>2, <1>5, PowLe
  <1>15. B * P <= R * P
    BY <1>1, <1>4, <1>11, MulLe
  <1>16. R * P + P <= A * P
    BY <1>1, <1>4, <1>11, MulLt
  <1>17. R * P \in Nat /\ B * P \in Nat /\ A * P \in Nat
    OBVIOUS
  <1>18. L < 2 * (R * P)
    BY <1>3, <1>6, <1>13, <1>15, <1>17
  <1>19. R * P < W * W
    BY <1>2, <1>12, <1>14, <1>16, <1>17
  <1>20. P < W * W
    <2>1. 1 * P <= R * P /\ 1 * P = P
      BY <1>1, MulLe
    <2> QED BY <1>2, <1>17, <1>19, <2>1
  <1>21. Small128(k) \in Wide /\ Val(Small128(k)) = k
    BY <1>10, SmallVal
  <1>22. ShiftLeft(r, Small128(k)) \in Wide /\ Val(ShiftLeft(r, Small128(k))) = R * P
    <2>1. Rep(ShiftLeft(r, Small128(k)), R * P)
      BY <1>1, <1>10, <1>11, <1>21, ShiftLeftRep
    <2> QED BY <1>17, <1>19, <2>1, RepExact
  <1>23. ShiftLeft(One, Small128(k)) \in Wide /\ Val(ShiftLeft(One, Small128(k))) = P
    <2>1. Rep(ShiftLeft(One, Small128(k)), 1 * P)
      BY <1>10, <1>11, <1>21, ShiftLeftRep, ConstVal
    <2>2. 1 * P = P
      OBVIOUS
    <2> QED BY <1>20, <2>1, <2>2, RepExact
  <1>24. Align(l, r) = k
    BY <1>3, <1>4, <1>9 DEF Align
  <1> QED BY <1>1, <1>10, <1>11, <1>18, <1>22, <1>23, <1>24

-----------------------------------------------------------------------------
(***************************************************************************)
(* The loop invariant of divmod.  The quotient so far and the remainder    *)
(* give the dividend; while the remainder is not below the divisor, adder  *)
(* is the bit j whose turn it is, copyd the divisor shifted by j, large    *)
(* enough to bring the remainder below it, and no bit of the quotient up   *)
(* to j is set.                                                            *)
(***************************************************************************)
DivLoop(l, r, q, rem, copyd, adder) ==
    /\ Val(r) >= 2
    /\ Val(l) = Val(r) * Val(q) + Val(rem)
    /\ \/ Val(rem) < Val(r)
       \/ \E j \in Nat, c \in Nat :
             /\ j < 2 * WordBits
             /\ Val(adder) = Pow(j)
             /\ Val(copyd) = Val(r) * Pow(j)
             /\ Val(rem) < 2 * Val(copyd)
             /\ Val(q) = c * Pow(j + 1)

\* divmod reaches its loop with the loop invariant.
LEMMA DivLoopStart ==
    ASSUME NEW l \in Wide, NEW r \in Wide, Val(r) >= 2, Val(r) <= Val(l),
           NEW cp, NEW ad, NEW k, k = Small128(Align(l, r)),
           cp = IF Less(l, ShiftLeft(r, k)) THEN StepDown(ShiftLeft(r, k)) ELSE ShiftLeft(r, k),
           ad = IF Less(l, ShiftLeft(r, k)) THEN StepDown(ShiftLeft(One, k)) ELSE ShiftLeft(One, k)
    PROVE  cp \in Wide /\ ad \in Wide /\ DivLoop(l, r, Zero, l, cp, ad)
  <1>1. PICK L \in Nat, R \in Nat : L = Val(l) /\ R = Val(r) /\ 2 <= R /\ R <= L
    BY WideVal
  <1>2. PICK n \in Nat, P \in Nat :
               /\ n = Align(l, r) /\ n < 2 * WordBits /\ P = Pow(n)
               /\ L < 2 * (R * P)
               /\ ShiftLeft(r, k) \in Wide
               /\ Val(ShiftLeft(r, k)) = R * P
               /\ ShiftLeft(One, k) \in Wide
               /\ Val(ShiftLeft(One, k)) = P
    BY <1>1, AlignVal
  <1>3. Less(l, ShiftLeft(r, k)) <=> L < R * P
    BY <1>1, <1>2, LessVal
  <1>4. Val(Zero) = 0 /\ Zero \in Wide
    BY ConstVal
  <1>5. Val(l) = Val(r) * Val(Zero) + Val(l)
    <2>1. L = R * 0 + L
      OBVIOUS
    <2> QED BY <1>1, <1>4, <2>1
  <1>6. Val(Zero) = 0 * Pow(n + 1) /\ Val(Zero) = 0 * Pow(n)
    <2>1. Pow(n + 1) \in Nat /\ Pow(n) \in Nat
      BY PowNat
    <2> QED BY <1>4, <2>1
  <1>7. CASE ~ (L < R * P)
    <2>1. cp = ShiftLeft(r, k) /\ ad = ShiftLeft(One, k)
      BY <1>3, <1>7
    <2>2. /\ Val(ad) = Pow(n) /\ Val(cp) = Val(r) * Pow(n)
          /\ Val(l) < 2 * Val(cp)
      BY <1>1, <1>2, <2>1
    <2> QED BY <1>1, <1>2, <1>5, <1>6, <2>1, <2>2 DEF DivLoop
  <1>8. CASE L < R * P
    <2>1. cp = StepDown(ShiftLeft(r, k)) /\ ad = StepDown(ShiftLeft(One, k))
      BY <1>3, <1>8
    <2>2. n # 0
      <3> SUFFICES ASSUME n = 0 PROVE FALSE
        OBVIOUS
      <3>1. R * P = R
        BY <1>2, PowOne
      <3> QED BY <1>1, <1>8, <3>1
    <2>3. PICK j \in Nat : n = j + 1 /\ j < 2 * WordBits
      <3>1. n - 1 \in Nat /\ n = (n - 1) + 1 /\ n - 1 < 2 * WordBits
        BY <1>2, <2>2, WidthFacts
      <3> QED BY <3>1
    <2>4. PICK p \in Nat : p = Pow(j)
      BY PowNat
    <2>5. P = 2 * p
      BY <1>2, <2>3, <2>4, PowSucc
    <2>6. R * P = 2 * (R * p) /\ R * p \in Nat
      BY <2>5
    <2>7. cp \in Wide /\ Val(cp) = R * p
      BY <1>2, <2>1, <2>6, StepDownVal
    <2>8. ad \in Wide /\ Val(ad) = p
      BY <1>2, <2>1, <2>5, StepDownVal
    <2>9. Val(l) < 2 * Val(cp)
      BY <1>1, <1>8, <2>6, <2>7
    <2>10. Val(Zero) = 0 * Pow(j + 1)
      BY <1>6, <2>3
    <2>11. Val(ad) = Pow(j) /\ Val(cp) = Val(r) * Pow(j)
      BY <1>1, <2>4, <2>7, <2>8
    <2> QED BY <1>1, <1>5, <2>3, <2>7, <2>8, <2>9, <2>10, <2>11 DEF DivLoop
  <1> QED BY <1>7, <1>8

\* An iteration of the loop keeps the loop invariant.
LEMMA DivLoopStep ==
    ASSUME NEW l \in Wide, NEW r \in Wide, NEW q \in Wide, NEW rem \in Wide,
           NEW cp \in Wide, NEW ad \in Wide,
           DivLoop(l, r, q, rem, cp, ad), AtLeast(rem, r),
           NEW q2, NEW rem2,
           q2 = IF AtLeast(rem, cp) THEN OrBit(q, ad) ELSE q,
           rem2 = IF AtLeast(rem, cp) THEN Minus(rem, cp) ELSE rem
    PROVE  /\ q2 \in Wide /\ rem2 \in Wide
           /\ StepDown(cp) \in Wide /\ StepDown(ad) \in Wide
           /\ DivLoop(l, r, q2, rem2, StepDown(cp), StepDown(ad))
  <1>1. PICK L \in Nat, R \in Nat, Q \in Nat, M \in Nat, C \in Nat :
            L = Val(l) /\ R = Val(r) /\ Q = Val(q) /\ M = Val(rem) /\ C = Val(cp)
    BY WideVal
  <1>2. 2 <= R /\ L = R * Q + M
    BY <1>1 DEF DivLoop
  <1>3. R <= M /\ M < W * W
    BY <1>1, AtLeastVal, WideVal
  <1>4. PICK j \in Nat, c \in Nat :
             /\ j < 2 * WordBits
             /\ Val(ad) = Pow(j)
             /\ Val(cp) = Val(r) * Pow(j)
             /\ Val(rem) < 2 * Val(cp)
             /\ Val(q) = c * Pow(j + 1)
    BY <1>1, <1>3 DEF DivLoop
  <1>5. PICK p \in Nat \ {0} : p = Pow(j)
    BY PowNat
  <1>6. C = R * p /\ M < 2 * C /\ Q = c * (2 * p) /\ Val(ad) = p
    BY <1>1, <1>4, <1>5, PowSucc
  <1>7. PICK N \in Nat, b \in Nat :
            /\ q2 \in Wide /\ rem2 \in Wide
            /\ Val(rem2) = N /\ N < C
            /\ Val(q2) = b * p
            /\ L = R * (b * p) + N
    <2>1. CASE C <= M
      <3>1. AtLeast(rem, cp)
        BY <1>1, <2>1, AtLeastVal
      <3>2. q2 = OrBit(q, ad) /\ rem2 = Minus(rem, cp)
        BY <3>1
      <3>3. q2 \in Wide /\ Val(q2) = Q + p
        BY <1>1, <1>4, <1>5, <3>2, OrBitVal
      <3>4. M - C \in Nat /\ M - C < W * W /\ M - C < C
        BY <1>3, <1>6, <2>1, WidthFacts
      <3>5. rem2 \in Wide /\ Val(rem2) = M - C
        <4>1. Rep(rem2, M - C)
          BY <1>1, <3>2, MinusRep
        <4> QED BY <3>4, <4>1, RepExact
      <3>6. Q + p = (2 * c + 1) * p /\ 2 * c + 1 \in Nat
        BY <1>6
      <3>7. L = R * ((2 * c + 1) * p) + (M - C)
        BY <1>2, <1>6
      <3> QED BY <3>3, <3>4, <3>5, <3>6, <3>7
    <2>2. CASE M < C
      <3>1. ~ AtLeast(rem, cp)
        BY <1>1, <2>2, AtLeastVal
      <3>2. q2 = q /\ rem2 = rem
        BY <3>1
      <3>3. Q = (2 * c) * p /\ 2 * c \in Nat
        BY <1>6
      <3>4. L = R * ((2 * c) * p) + M
        BY <1>2, <3>3
      <3> QED BY <1>1, <2>2, <3>2, <3>3, <3>4
    <2> QED BY <2>1, <2>2
  <1>8. Val(l) = Val(r) * Val(q2) + Val(rem2)
    BY <1>1, <1>7
  <1>9. CASE j = 0
    <2>1. p = 1
      BY <1>5, <1>9, PowOne
    <2>2. C = R
      BY <1>6, <2>1
    <2>3. Val(rem2) < Val(r)
      BY <1>1, <1>7, <2>2
    <2> QED BY <1>1, <1>2, <1>7, <1>8, <2>3, StepDownWide DEF DivLoop
  <1>10. CASE j # 0
    <2>1. PICK i \in Nat : j = i + 1 /\ i < 2 * WordBits
      <3>1. j - 1 \in Nat /\ j = (j - 1) + 1 /\ j - 1 < 2 * WordBits
        BY <1>4, <1>10, WidthFacts
      <3> QED BY <3>1
    <2>2. PICK s \in Nat : s = Pow(i)
      BY PowNat
    <2>3. p = 2 * s
      BY <1>5, <2>1, <2>2, PowSucc
    <2>4. C = 2 * (R * s) /\ R * s \in Nat
      BY <1>6, <2>3
    <2>5. StepDown(cp) \in Wide /\ Val(StepDown(cp)) = R * s
      BY <1>1, <2>4, StepDownVal
    <2>6. StepDown(ad) \in Wide /\ Val(StepDown(ad)) = s
      BY <1>6, <2>3, StepDownVal
    <2>7. Val(rem2) < 2 * Val(StepDown(cp))
      BY <1>7, <2>4, <2>5
    <2>8. Val(q2) = b * Pow(i + 1)
      BY <1>5, <1>7, <2>1
    <2>9. Val(StepDown(ad)) = Pow(i) /\ Val(StepDown(cp)) = Val(r) * Pow(i)
      BY <1>1, <2>2, <2>5, <2>6
    <2> QED BY <1>1, <1>2, <1>7, <1>8, <2>1, <2>5, <2>6, <2>7, <2>8, <2>9 DEF DivLoop
  <1> QED BY <1>9, <1>10

-----------------------------------------------------------------------------
(***************************************************************************)
(* The inductive invariant: the types, the loop invariant while divmod is  *)
(* in its loop, and the result when the call is over.                      *)
(***************************************************************************)
UInv ==
    /\ UTypeOK
    /\ uPc = "loop" => uCall \in Divisions /\ DivLoop(uL, uR, uQ, uRem, uCopyd, uAdder)
    /\ UResult

\* UInv holds before the call.
LEMMA UInitInv == UInit => UInv
  <1> SUFFICES ASSUME UInit PROVE UInv
    OBVIOUS
  <1>1. PICK m \in ULeft, n \in URight : uL = OfVal(m) /\ uR = OfVal(n)
    BY DEF UInit
  <1>2. m \in Nat /\ m < W * W /\ n \in Nat /\ n < W * W
    BY UAssumption, WidthFacts
  <1>3. uL \in Wide /\ uR \in Wide
    BY <1>1, <1>2, OfValVal
  <1>4. Zero \in Wide
    BY ConstVal
  <1>5. /\ uCall = "none" /\ uPc = "idle"
        /\ uQ = Zero /\ uRem = Zero /\ uCopyd = Zero /\ uAdder = Zero
        /\ uRes.val = Zero /\ uRes.ok = TRUE
    BY DEF UInit
  <1>6. UTypeOK
    BY <1>3, <1>4, <1>5 DEF UTypeOK
  <1>7. UResult
    BY <1>5 DEF UResult
  <1> QED BY <1>5, <1>6, <1>7 DEF UInv

\* The operators without a loop.
Straight == {"plus", "minus", "times", "shl", "shr"}

\* UInv after an operator without a loop.
LEMMA ComputeInv ==
    ASSUME UInv, NEW call \in Straight, NEW val \in Wide,
           Val(val) = Reference(call, Val(uL), Val(uR)), Compute(call, val)
    PROVE  UInv'
  <1>1. /\ uCall' = call /\ uPc' = "done"
        /\ uRes'.val = val /\ uRes'.ok = TRUE
        /\ uL' = uL /\ uR' = uR /\ uQ' = uQ /\ uRem' = uRem /\ uCopyd' = uCopyd /\ uAdder' = uAdder
    BY DEF Compute, Done
  <1>2. UTypeOK'
    BY <1>1 DEF UInv, UTypeOK, Straight
  <1>3. call # "bigDivide"
    BY DEF Straight
  <1>4. Val(uRes'.val) = Reference(uCall', Val(uL'), Val(uR'))
    BY <1>1
  <1>5. uRes'.ok <=> (uCall' = "bigDivide" => Val(uL') \div Val(uR') < W)
    BY <1>1, <1>3
  <1>6. UResult'
    BY <1>1, <1>4, <1>5 DEF UResult
  <1> QED BY <1>1, <1>2, <1>6 DEF UInv

\* UInv after a division has returned.
LEMMA AnswerInv ==
    ASSUME UInv, NEW call \in Divisions, NEW l \in Wide, NEW r \in Wide, NEW q \in Wide,
           NEW rem \in Nat, Val(l) = Val(r) * Val(q) + rem, rem < Val(r),
           uCall' = call, uPc' = "done", uL' = l, uR' = r, uRes' = Finish(call, l, r, q),
           uQ' = uQ, uRem' = uRem, uCopyd' = uCopyd, uAdder' = uAdder
    PROVE  UInv'
  <1>1. /\ uRes'.val \in Wide
        /\ uRes'.ok \in BOOLEAN
        /\ Val(uRes'.val) = Reference(uCall', Val(uL'), Val(uR'))
        /\ uRes'.ok <=> (uCall' = "bigDivide" => Val(uL') \div Val(uR') < W)
    BY FinishVal
  <1>2. UTypeOK'
    BY <1>1 DEF UInv, UTypeOK, Divisions
  <1>3. UResult'
    BY <1>1 DEF UResult
  <1> QED BY <1>2, <1>3 DEF UInv

\* UInv after the part of divmod that precedes its loop.
LEMMA DivStartInv ==
    ASSUME UInv, NEW call \in Divisions, NEW l \in Wide, NEW r \in Wide,
           DivStart(call, l, r)
    PROVE  UInv'
  <1>1. uCall' = call /\ uL' = l /\ uR' = r /\ uPc = "idle"
    BY DEF DivStart
  <1>2. Zero \in Wide /\ Val(Zero) = 0 /\ One \in Wide /\ Val(One) = 1 /\ Zero # One
    BY ConstVal
  <1>3. PICK L \in Nat, R \in Nat : L = Val(l) /\ R = Val(r)
    BY WideVal
  <1>4. CASE r = Zero
    <2>1. /\ uPc' = "thrown" /\ uRes' = uRes
          /\ uQ' = uQ /\ uRem' = uRem /\ uCopyd' = uCopyd /\ uAdder' = uAdder
      BY <1>2, <1>4 DEF DivStart
    <2>2. UTypeOK'
      BY <1>1, <2>1 DEF UInv, UTypeOK, Divisions
    <2>3. UResult'
      BY <1>1, <1>2, <1>4, <2>1 DEF UResult, Divisions
    <2> QED BY <2>1, <2>2, <2>3 DEF UInv
  <1>5. CASE r = One
    <2>1. /\ uPc' = "done" /\ uRes' = Finish(call, l, r, l)
          /\ uQ' = uQ /\ uRem' = uRem /\ uCopyd' = uCopyd /\ uAdder' = uAdder
      BY <1>2, <1>5 DEF DivStart
    <2>2. Val(l) = Val(r) * Val(l) + 0 /\ 0 < Val(r)
      BY <1>2, <1>3, <1>5
    <2> QED BY <1>1, <2>1, <2>2, AnswerInv
  <1>6. CASE r \notin {Zero, One} /\ l = r
    <2>1. /\ uPc' = "done" /\ uRes' = Finish(call, l, r, One)
          /\ uQ' = uQ /\ uRem' = uRem /\ uCopyd' = uCopyd /\ uAdder' = uAdder
      <3>1. ~ Less(l, r)
        BY <1>3, <1>6, LessVal
      <3> QED BY <1>6, <3>1 DEF DivStart
    <2>2. R # 0
      BY <1>2, <1>3, <1>6, ValInjective
    <2>3. Val(l) = Val(r) * Val(One) + 0 /\ 0 < Val(r)
      BY <1>2, <1>3, <1>6, <2>2
    <2> QED BY <1>1, <1>2, <2>1, <2>3, AnswerInv
  <1>7. CASE r \notin {Zero, One} /\ Less(l, r)
    <2>1. L < R
      BY <1>3, <1>7, LessVal
    <2>2. l # r
      BY <1>3, <2>1
    <2>3. /\ uPc' = "done" /\ uRes' = Finish(call, l, r, Zero)
          /\ uQ' = uQ /\ uRem' = uRem /\ uCopyd' = uCopyd /\ uAdder' = uAdder
      BY <1>7, <2>2 DEF DivStart
    <2>4. Val(l) = Val(r) * Val(Zero) + L /\ L < Val(r)
      <3>1. L = R * 0 + L
        OBVIOUS
      <3> QED BY <1>2, <1>3, <2>1, <3>1
    <2> QED BY <1>1, <1>2, <2>3, <2>4, AnswerInv
  <1>8. CASE r \notin {Zero, One} /\ l # r /\ ~ Less(l, r)
    <2> DEFINE k == Small128(Align(l, r))
    <2>1. /\ uPc' = "loop" /\ uQ' = Zero /\ uRem' = l /\ uRes' = uRes
          /\ uCopyd' = IF Less(l, ShiftLeft(r, k)) THEN StepDown(ShiftLeft(r, k)) ELSE ShiftLeft(r, k)
          /\ uAdder' = IF Less(l, ShiftLeft(r, k)) THEN StepDown(ShiftLeft(One, k)) ELSE ShiftLeft(One, k)
      BY <1>8 DEF DivStart
    <2>2. Val(r) >= 2 /\ Val(r) <= Val(l)
      <3>1. R # 0 /\ R # 1
        BY <1>2, <1>3, <1>8, ValInjective
      <3>2. ~ (L < R)
        BY <1>3, <1>8, LessVal
      <3> QED BY <1>3, <3>1, <3>2
    <2> HIDE DEF k
    <2>3. uCopyd' \in Wide /\ uAdder' \in Wide /\ DivLoop(l, r, Zero, l, uCopyd', uAdder')
      BY <2>1, <2>2, DivLoopStart DEF k
    <2>4. UTypeOK'
      BY <1>1, <1>2, <2>1, <2>3 DEF UInv, UTypeOK, Divisions
    <2>5. UResult'
      BY <2>1 DEF UResult
    <2>6. uCall' \in Divisions /\ DivLoop(uL', uR', uQ', uRem', uCopyd', uAdder')
      BY <1>1, <2>1, <2>3
    <2>7. (uCall \in Divisions /\ DivLoop(uL, uR, uQ, uRem, uCopyd, uAdder))'
      BY <2>6 DEF DivLoop, Val, Divisions
    <2> QED BY <2>4, <2>5, <2>7 DEF UInv
  <1> QED BY <1>4, <1>5, <1>6, <1>7, <1>8

\* The values of the state.
LEMMA UWide ==
    ASSUME UInv
    PROVE  {uL, uR, uQ, uRem, uCopyd, uAdder, uRes.val} \subseteq Wide
  BY DEF UInv, UTypeOK

\* UInv after an iteration of the loop.
LEMMA DivStepInv == UInv /\ DivStep => UInv'
  <1> SUFFICES ASSUME UInv, DivStep PROVE UInv'
    OBVIOUS
  <1>1. /\ uL \in Wide /\ uR \in Wide /\ uQ \in Wide /\ uRem \in Wide
        /\ uCopyd \in Wide /\ uAdder \in Wide /\ uRes.val \in Wide
    BY UWide
  <1>2. /\ uPc = "loop" /\ AtLeast(uRem, uR)
        /\ uQ' = IF AtLeast(uRem, uCopyd) THEN OrBit(uQ, uAdder) ELSE uQ
        /\ uRem' = IF AtLeast(uRem, uCopyd) THEN Minus(uRem, uCopyd) ELSE uRem
        /\ uCopyd' = StepDown(uCopyd) /\ uAdder' = StepDown(uAdder)
        /\ uL' = uL /\ uR' = uR /\ uCall' = uCall /\ uPc' = uPc /\ uRes' = uRes
    BY DEF DivStep
  <1>3. uCall \in Divisions /\ DivLoop(uL, uR, uQ, uRem, uCopyd, uAdder)
    BY <1>2 DEF UInv
  <1>4. /\ uQ' \in Wide /\ uRem' \in Wide /\ uCopyd' \in Wide /\ uAdder' \in Wide
        /\ DivLoop(uL, uR, uQ', uRem', uCopyd', uAdder')
    BY <1>1, <1>2, <1>3, DivLoopStep
  <1>5. UTypeOK'
    BY <1>1, <1>2, <1>4 DEF UInv, UTypeOK
  <1>6. UResult'
    BY <1>2 DEF UResult
  <1>7. DivLoop(uL', uR', uQ', uRem', uCopyd', uAdder') /\ uCall' \in Divisions
    BY <1>2, <1>3, <1>4
  <1>8. (uCall \in Divisions /\ DivLoop(uL, uR, uQ, uRem, uCopyd, uAdder))'
    BY <1>7 DEF DivLoop, Val, Divisions
  <1> QED BY <1>5, <1>6, <1>8 DEF UInv

\* UInv after the loop.
LEMMA DivEndInv == UInv /\ DivEnd => UInv'
  <1> SUFFICES ASSUME UInv, DivEnd PROVE UInv'
    OBVIOUS
  <1>1. uL \in Wide /\ uR \in Wide /\ uQ \in Wide /\ uRem \in Wide
    BY UWide
  <1>2. /\ uPc = "loop" /\ ~ AtLeast(uRem, uR) /\ uPc' = "done"
        /\ uRes' = Finish(uCall, uL, uR, uQ)
        /\ uL' = uL /\ uR' = uR /\ uCall' = uCall
        /\ uQ' = uQ /\ uRem' = uRem /\ uCopyd' = uCopyd /\ uAdder' = uAdder
    BY DEF DivEnd
  <1>3. uCall \in Divisions /\ Val(uL) = Val(uR) * Val(uQ) + Val(uRem)
    BY <1>2 DEF UInv, DivLoop
  <1>4. Val(uRem) \in Nat /\ Val(uRem) < Val(uR)
    BY <1>1, <1>2, AtLeastVal, WideVal
  <1> QED BY <1>1, <1>2, <1>3, <1>4, AnswerInv

\* A shift by the width of a value or more gives zero.
LEMMA ShiftPast ==
    ASSUME NEW x \in Wide, NEW y \in Wide, Val(y) >= 2 * WordBits
    PROVE  ShiftLeft(x, y) = Zero /\ ShiftRight(x, y) = Zero
  <1>1. y.up # 0 \/ y.lo >= 2 * WordBits
    BY ShiftCount
  <1>2. ~ (y.up = 0 /\ y.lo < WordBits)
    BY <1>1, WideVal, WidthFacts
  <1> QED BY <1>1, <1>2 DEF ShiftLeft, ShiftRight

\* UInv is inductive: every operation keeps it.
LEMMA UNextInv == UInv /\ [UNext]_uVars => UInv'
  <1> SUFFICES ASSUME UInv, [UNext]_uVars PROVE UInv'
    OBVIOUS
  <1>1. uL \in Wide /\ uR \in Wide
    BY UWide
  <1>2. PICK L \in Nat, R \in Nat : L = Val(uL) /\ R = Val(uR)
    BY <1>1, WideVal
  <1>3. CASE Compute("plus", Plus(uL, uR))
    <2>1. Plus(uL, uR) \in Wide /\ Val(Plus(uL, uR)) = (Val(uL) + Val(uR)) % (W * W)
      BY <1>1, PlusRep, RepMod
    <2>2. Val(Plus(uL, uR)) = Reference("plus", Val(uL), Val(uR))
      BY <2>1 DEF Reference
    <2>3. "plus" \in Straight
      BY DEF Straight
    <2> QED BY <1>3, <2>1, <2>2, <2>3, ComputeInv
  <1>4. CASE Compute("minus", Minus(uL, uR))
    <2>1. Minus(uL, uR) \in Wide /\ Val(Minus(uL, uR)) = (Val(uL) - Val(uR)) % (W * W)
      BY <1>1, MinusRep, RepMod
    <2>2. Val(Minus(uL, uR)) = Reference("minus", Val(uL), Val(uR))
      BY <2>1 DEF Reference
    <2>3. "minus" \in Straight
      BY DEF Straight
    <2> QED BY <1>4, <2>1, <2>2, <2>3, ComputeInv
  <1>5. CASE Compute("times", Times(uL, uR))
    <2>1. Times(uL, uR) \in Wide /\ Val(Times(uL, uR)) = (Val(uL) * Val(uR)) % (W * W)
      BY <1>1, TimesRep, RepMod
    <2>2. Val(Times(uL, uR)) = Reference("times", Val(uL), Val(uR))
      BY <2>1 DEF Reference
    <2>3. "times" \in Straight
      BY DEF Straight
    <2> QED BY <1>5, <2>1, <2>2, <2>3, ComputeInv
  <1>6. CASE Compute("shl", ShiftLeft(uL, uR))
    <2>1. ShiftLeft(uL, uR) \in Wide /\ Val(ShiftLeft(uL, uR)) = Reference("shl", Val(uL), Val(uR))
      <3>1. CASE R >= 2 * WordBits
        <4>1. ShiftLeft(uL, uR) = Zero
          BY <1>1, <1>2, <3>1, ShiftPast
        <4> QED BY <1>2, <3>1, <4>1, ConstVal DEF Reference
      <3>2. CASE ~ (R >= 2 * WordBits)
        <4>1. Rep(ShiftLeft(uL, uR), L * Pow(R))
          BY <1>1, <1>2, <3>2, ShiftLeftRep, WidthFacts
        <4>2. ShiftLeft(uL, uR) \in Wide /\ Val(ShiftLeft(uL, uR)) = (L * Pow(R)) % (W * W)
          BY <4>1, RepMod
        <4> QED BY <1>2, <3>2, <4>2 DEF Reference, Pow
      <3> QED BY <3>1, <3>2
    <2>2. "shl" \in Straight
      BY DEF Straight
    <2> QED BY <1>6, <2>1, <2>2, ComputeInv
  <1>7. CASE Compute("shr", ShiftRight(uL, uR))
    <2>1. ShiftRight(uL, uR) \in Wide /\ Val(ShiftRight(uL, uR)) = Reference("shr", Val(uL), Val(uR))
      <3>1. CASE R >= 2 * WordBits
        <4>1. ShiftRight(uL, uR) = Zero
          BY <1>1, <1>2, <3>1, ShiftPast
        <4> QED BY <1>2, <3>1, <4>1, ConstVal DEF Reference
      <3>2. CASE ~ (R >= 2 * WordBits)
        <4>1. ShiftRight(uL, uR) \in Wide /\ Val(ShiftRight(uL, uR)) = L \div Pow(R)
          BY <1>1, <1>2, <3>2, ShiftRightVal, WidthFacts
        <4> QED BY <1>2, <3>2, <4>1 DEF Reference, Pow
      <3> QED BY <3>1, <3>2
    <2>2. "shr" \in Straight
      BY DEF Straight
    <2> QED BY <1>7, <2>1, <2>2, ComputeInv
  <1>8. CASE DivStart("div", uL, uR)
    <2>1. "div" \in Divisions
      BY DEF Divisions
    <2> QED BY <1>1, <1>8, <2>1, DivStartInv
  <1>9. CASE DivStart("mod", uL, uR)
    <2>1. "mod" \in Divisions
      BY DEF Divisions
    <2> QED BY <1>1, <1>9, <2>1, DivStartInv
  <1>10. CASE BigDivide
    <2>1. "bigDivide" \in Divisions
      BY DEF Divisions
    <2>2. /\ uL.up \in Nat /\ uL.up < W /\ uL.lo \in Nat /\ uL.lo < W
          /\ uR.lo \in Nat /\ uR.lo < W
      BY <1>1, WideVal
    <2>3. Small128(uL.up) \in Wide /\ Small128(uL.lo) \in Wide /\ Small128(uR.lo) \in Wide
      BY <2>2, SmallVal
    <2>4. Times(Small128(uL.up), Small128(uL.lo)) \in Wide
      BY <2>3, TimesRep DEF Rep
    <2> QED BY <1>10, <2>1, <2>3, <2>4, DivStartInv DEF BigDivide
  <1>11. CASE DivStep
    BY <1>11, DivStepInv
  <1>12. CASE DivEnd
    BY <1>12, DivEndInv
  <1>13. CASE UNCHANGED uVars
    BY <1>13 DEF uVars, UInv, UTypeOK, UResult, DivLoop, Val, Divisions
  <1> QED BY <1>3, <1>4, <1>5, <1>6, <1>7, <1>8, <1>9, <1>10, <1>11, <1>12, <1>13 DEF UNext

(***************************************************************************)
(* UInvAlways: the inductive invariant holds in every reachable state, for *)
(* every UHalfBits and all operands.                                       *)
(***************************************************************************)
THEOREM UInvAlways == USpec => []UInv
  BY UInitInv, UNextInv, PTL DEF USpec

(***************************************************************************)
(* UTypeCorrect: the words of every value of the calls, intermediate ones  *)
(* included, stay in their width.                                          *)
(***************************************************************************)
THEOREM UTypeCorrect == USpec => []UTypeOK
  <1>1. UInv => UTypeOK
    BY DEF UInv
  <1> QED BY <1>1, UInvAlways, PTL

(***************************************************************************)
(* ArithmeticCorrect: a call of an operator of uint128_t or of bigDivide   *)
(* returns what the operation on numbers gives modulo 2^128, bigDivide     *)
(* reports an overflow exactly when the quotient needs more than 64 bits,  *)
(* and a call throws only for a divisor of zero.                           *)
(***************************************************************************)
THEOREM ArithmeticCorrect == USpec => []UResult
  <1>1. UInv => UResult
    BY DEF UInv
  <1> QED BY <1>1, UInvAlways, PTL

(***************************************************************************)
(* BigDivideOperands: the product that utils::bigDivide forms of two words *)
(* before it divides is the product of the numbers: it never wraps.  With  *)
(* ArithmeticCorrect, bigDivide computes A * B / C for every A, B and C.   *)
(***************************************************************************)
THEOREM BigDivideOperands ==
    USpec => [][BigDivide => Val(uL') = uL.up * uL.lo /\ Val(uR') = uR.lo]_uVars
  <1>1. UInv /\ [UNext]_uVars
            => [BigDivide => Val(uL') = uL.up * uL.lo /\ Val(uR') = uR.lo]_uVars
    <2> SUFFICES ASSUME UInv, BigDivide
                 PROVE  Val(uL') = uL.up * uL.lo /\ Val(uR') = uR.lo
      OBVIOUS
    <2>1. uL \in Wide /\ uR \in Wide
      BY UWide
    <2>2. PICK a \in Nat, b \in Nat, c \in Nat :
              a = uL.up /\ b = uL.lo /\ c = uR.lo /\ a < W /\ b < W /\ c < W
      BY <2>1, WideVal
    <2>3. /\ Small128(a) \in Wide /\ Val(Small128(a)) = a
          /\ Small128(b) \in Wide /\ Val(Small128(b)) = b
          /\ Small128(c) \in Wide /\ Val(Small128(c)) = c
      BY <2>2, SmallVal
    <2>4. uL' = Times(Small128(a), Small128(b)) /\ uR' = Small128(c)
      BY <2>2 DEF BigDivide, DivStart
    <2>5. a * b \in Nat /\ a * b < W * W
      <3>1. W \in Nat \ {0}
        BY WidthFacts
      <3>2. a * W + W <= W * W
        BY <2>2, <3>1, MulLt
      <3>3. b * a <= W * a
        BY <2>2, <3>1, MulLe
      <3>4. b * a = a * b /\ W * a = a * W /\ a * b \in Nat /\ a * W \in Nat /\ W * W \in Nat
        BY <3>1
      <3> QED BY <3>1, <3>2, <3>3, <3>4
    <2>6. Val(Times(Small128(a), Small128(b))) = a * b
      <3>1. Rep(Times(Small128(a), Small128(b)), a * b)
        BY <2>3, TimesRep
      <3> QED BY <2>5, <3>1, RepExact
    <2> QED BY <2>2, <2>3, <2>4, <2>6
  <1> QED BY <1>1, UInvAlways, PTL DEF USpec

(***************************************************************************)
(* DivLoopDecreases: every iteration of the loop of divmod makes copyd, a  *)
(* natural number, smaller, so that the loop cannot go on for ever: copyd  *)
(* is never zero while the remainder is not below the divisor.             *)
(***************************************************************************)
THEOREM DivLoopDecreases ==
    USpec => [][DivStep => Val(uCopyd) \in Nat /\ Val(uCopyd') \in Nat /\ Val(uCopyd') < Val(uCopyd)]_uVars
  <1>1. UInv /\ [UNext]_uVars
            => [DivStep => Val(uCopyd) \in Nat /\ Val(uCopyd') \in Nat /\ Val(uCopyd') < Val(uCopyd)]_uVars
    <2> SUFFICES ASSUME UInv, DivStep
                 PROVE  Val(uCopyd) \in Nat /\ Val(uCopyd') \in Nat /\ Val(uCopyd') < Val(uCopyd)
      OBVIOUS
    <2>1. uR \in Wide /\ uRem \in Wide /\ uCopyd \in Wide
      BY UWide
    <2>2. uCopyd' = StepDown(uCopyd) /\ uPc = "loop" /\ AtLeast(uRem, uR)
      BY DEF DivStep
    <2>3. PICK c \in Nat, r \in Nat, m \in Nat :
              c = Val(uCopyd) /\ r = Val(uR) /\ m = Val(uRem)
      BY <2>1, WideVal
    <2>4. r <= m /\ 2 <= r
      BY <2>1, <2>2, <2>3, AtLeastVal DEF UInv, DivLoop
    <2>5. c > 0
      <3>1. m < 2 * c
        BY <2>2, <2>3, <2>4 DEF UInv, DivLoop
      <3> QED BY <2>4, <3>1
    <2>6. One \in Wide /\ Val(One) = 1 /\ 1 < 2 * WordBits
      BY ConstVal, WidthFacts
    <2>7. Val(uCopyd') = c \div 2
      BY <2>1, <2>2, <2>3, <2>6, ShiftRightVal, PowOne DEF StepDown
    <2>8. PICK h \in Nat, e \in Nat : c \div 2 = h /\ c % 2 = e /\ e < 2 /\ c = h * 2 + e
      BY DivModNat
    <2>9. h < c
      BY <2>5, <2>8
    <2> QED BY <2>3, <2>7, <2>8, <2>9
  <1> QED BY <1>1, UInvAlways, PTL DEF USpec
=============================================================================
