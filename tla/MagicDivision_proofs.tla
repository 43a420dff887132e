------------------------ MODULE MagicDivision_proofs ------------------------
(***************************************************************************)
(* The magic division is the division, for every width.                    *)
(*                                                                         *)
(* Facts about powers of two need induction.  It is done on sets: a set of *)
(* counterexamples that is not empty has a least element.                  *)
(***************************************************************************)
EXTENDS MagicDivision, TLAPS, WellFoundedInduction

(***************************************************************************)
(* Division with remainder by a variable divisor.                          *)
(***************************************************************************)
\* A number is divisor times quotient plus remainder.
LEMMA DivMod ==
  ASSUME NEW a \in Nat, NEW d \in Nat \ {0}
  PROVE  /\ a \div d \in Nat /\ a % d \in 0 .. d - 1
         /\ a = d * (a \div d) + (a % d)
<1>1. a \div d \in Nat /\ a % d \in 0 .. d - 1
  OBVIOUS
<1>2. a = d * (a \div d) + (a % d)
  BY Z3
<1> QED BY <1>1, <1>2

\* Quotient and remainder are unique.
LEMMA DivModUnique ==
  ASSUME NEW d \in Nat \ {0}, NEW q \in Nat, NEW r \in 0 .. d - 1
  PROVE  (d * q + r) \div d = q /\ (d * q + r) % d = r
OBVIOUS

\* A number of d * k values has a quotient of k values.
LEMMA DivRange ==
  ASSUME NEW a \in Nat, NEW d \in Nat \ {0}, NEW k \in Nat, a < d * k
  PROVE  a \div d < k
<1> DEFINE q == a \div d
<1>1. q \in Nat /\ a >= d * q
  BY DivMod
<1> HIDE DEF q
<1>2. q >= k => d * q >= d * k
  BY <1>1
<1> QED BY <1>1, <1>2 DEF q

\* A number below the divisor is its own remainder.
LEMMA SmallMod ==
  ASSUME NEW d \in Nat \ {0}, NEW a \in 0 .. d - 1
  PROVE  a % d = a
OBVIOUS

\* A product with a positive factor keeps the order.
LEMMA ProductOrder ==
  ASSUME NEW d \in Nat \ {0}, NEW a \in Int, NEW b \in Int
  PROVE  /\ a < b <=> a * d < b * d
         /\ a <= b <=> a * d <= b * d
<1>1. a < b => a * d < b * d
  OBVIOUS
<1>2. b < a => b * d < a * d
  OBVIOUS
<1> QED BY <1>1, <1>2

(***************************************************************************)
(* Induction over the natural numbers, on sets.                            *)
(***************************************************************************)
NatLess == OpToRel(<, Nat)

\* A set of natural numbers that is not empty has a least element.
LEMMA LeastOf ==
  ASSUME NEW S, S \subseteq Nat, S # {}
  PROVE  \E m \in S : \A k \in S : m <= k
<1>1. IsWellFoundedOn(NatLess, Nat)
  BY NatLessThanWellFounded DEF NatLess
<1> HIDE DEF NatLess
<1>2. PICK m \in S : \A k \in S : ~(<<k, m>> \in NatLess)
  BY <1>1, WFMin
<1>3. \A k \in S : k < m => <<k, m>> \in NatLess
  BY DEF NatLess, OpToRel
<1>4. \A k \in S : ~(k < m)
  BY <1>2, <1>3
<1> QED BY <1>4

\* A set that has 0, and with each number the next, has all numbers.
LEMMA SetInduction ==
  ASSUME NEW S, 0 \in S, \A k \in Nat : k \in S => k + 1 \in S
  PROVE  Nat \subseteq S
<1> SUFFICES ASSUME Nat \ S # {}
             PROVE  FALSE
  OBVIOUS
<1>1. PICK m \in Nat \ S : \A k \in Nat \ S : m <= k
  BY LeastOf
<1>2. m # 0 /\ m - 1 \in Nat /\ m - 1 \in S
  BY <1>1
<1> QED BY <1>1, <1>2

(***************************************************************************)
(* Powers of two.                                                          *)
(***************************************************************************)
\* Powers of two as far as k, by their recursion.
PowersTo(g, k) == \A i \in 0 .. k : g[i] = IF i = 0 THEN 1 ELSE 2 * g[i - 1]

\* They exist as far as any k.
LEMMA PowersExist == \A k \in Nat : \E g \in [0 .. k -> Nat] : PowersTo(g, k)
<1> DEFINE S == {k \in Nat : \E g \in [0 .. k -> Nat] : PowersTo(g, k)}
<1>1. 0 \in S
  <2> DEFINE g == [i \in 0 .. 0 |-> 1]
  <2>1. g \in [0 .. 0 -> Nat] /\ PowersTo(g, 0)
    BY DEF PowersTo
  <2> QED BY <2>1
<1>2. ASSUME NEW k \in Nat, k \in S
      PROVE  k + 1 \in S
  <2>1. PICK g \in [0 .. k -> Nat] : PowersTo(g, k)
    BY <1>2
  <2> DEFINE h == [i \in 0 .. k + 1 |-> IF i = k + 1 THEN 2 * g[k] ELSE g[i]]
  <2>2. h \in [0 .. k + 1 -> Nat]
    OBVIOUS
  <2>3. ASSUME NEW i \in 0 .. k + 1
        PROVE  h[i] = IF i = 0 THEN 1 ELSE 2 * h[i - 1]
    <3>1. CASE i = k + 1
      <4>1. i # 0 /\ i - 1 = k /\ k \in 0 .. k + 1 /\ k # k + 1
        BY <3>1
      <4> QED BY <3>1, <4>1
    <3>2. CASE i # k + 1
      <4>1. g[i] = IF i = 0 THEN 1 ELSE 2 * g[i - 1]
        BY <2>1, <3>2 DEF PowersTo
      <4> QED BY <3>2, <4>1
    <3> QED BY <3>1, <3>2
  <2> HIDE DEF h
  <2>4. PowersTo(h, k + 1)
    BY <2>3 DEF PowersTo
  <2> QED BY <2>2, <2>4
<1> HIDE DEF S
<1>3. Nat \subseteq S
  BY <1>1, <1>2, SetInduction
<1> QED BY <1>3 DEF S

\* Two such functions agree as far as both go.
LEMMA PowersAgree ==
  ASSUME NEW k \in Nat, NEW l \in Nat, k <= l,
         NEW g \in [0 .. k -> Nat], NEW h \in [0 .. l -> Nat],
         PowersTo(g, k), PowersTo(h, l)
  PROVE  g[k] = h[k]
<1> DEFINE S == {i \in Nat : i <= k => g[i] = h[i]}
<1>1. 0 \in S
  BY DEF PowersTo
<1>2. ASSUME NEW i \in Nat, i \in S
      PROVE  i + 1 \in S
  <2> SUFFICES ASSUME i + 1 <= k
               PROVE  g[i + 1] = h[i + 1]
    OBVIOUS
  <2>1. i + 1 \in 0 .. k /\ i + 1 \in 0 .. l /\ i + 1 # 0 /\ (i + 1) - 1 = i
    OBVIOUS
  <2>2. g[i + 1] = 2 * g[i] /\ h[i + 1] = 2 * h[i]
    BY <2>1 DEF PowersTo
  <2> QED BY <1>2, <2>2
<1> HIDE DEF S
<1>3. Nat \subseteq S
  BY <1>1, <1>2, SetInduction
<1> QED BY <1>3 DEF S

\* So the recursion of Pow2 defines it.
LEMMA Pow2Def ==
  /\ Pow2 \in [Nat -> Nat]
  /\ Pow2[0] = 1 /\ \A k \in Nat : Pow2[k + 1] = 2 * Pow2[k]
<1> DEFINE To(k) == CHOOSE g \in [0 .. k -> Nat] : PowersTo(g, k)
           G     == [k \in Nat |-> To(k)[k]]
<1>1. \A k \in Nat : To(k) \in [0 .. k -> Nat] /\ PowersTo(To(k), k)
  BY PowersExist
<1> HIDE DEF To
<1>2. G \in [Nat -> Nat]
  BY <1>1
<1>3. G[0] = 1
  BY <1>1 DEF PowersTo
<1>4. ASSUME NEW k \in Nat
      PROVE  G[k + 1] = 2 * G[k]
  <2>1. To(k + 1)[k + 1] = 2 * To(k + 1)[k]
    BY <1>1 DEF PowersTo
  <2>2. To(k)[k] = To(k + 1)[k]
    <3> DEFINE g == To(k)
               h == To(k + 1)
    <3>1. /\ g \in [0 .. k -> Nat] /\ PowersTo(g, k)
          /\ h \in [0 .. k + 1 -> Nat] /\ PowersTo(h, k + 1)
          /\ k + 1 \in Nat /\ k <= k + 1
      BY <1>1
    <3> HIDE DEF g, h
    <3>2. g[k] = h[k]
      BY <3>1, PowersAgree
    <3> QED BY <3>2 DEF g, h
  <2> QED BY <2>1, <2>2
<1> HIDE DEF G
<1>5. \A k \in Nat : G[k] = IF k = 0 THEN 1 ELSE 2 * G[k - 1]
  <2> TAKE k \in Nat
  <2>1. CASE k = 0
    BY <2>1, <1>3
  <2>2. CASE k # 0
    <3>1. k - 1 \in Nat /\ (k - 1) + 1 = k
      BY <2>2
    <3> QED BY <2>2, <3>1, <1>4
  <2> QED BY <2>1, <2>2
<1>6. G = [k \in Nat |-> IF k = 0 THEN 1 ELSE 2 * G[k - 1]]
  BY <1>2, <1>5
<1>7. Pow2 = CHOOSE g : g = [k \in Nat |-> IF k = 0 THEN 1 ELSE 2 * g[k - 1]]
  BY DEF Pow2
<1>8. Pow2 = [k \in Nat |-> IF k = 0 THEN 1 ELSE 2 * Pow2[k - 1]]
  BY <1>6, <1>7, Zenon
<1> DEFINE S == {k \in Nat : Pow2[k] \in Nat}
<1>9. Nat \subseteq S
  <2>1. 0 \in S
    BY <1>8
  <2>2. ASSUME NEW k \in Nat, k \in S
        PROVE  k + 1 \in S
    BY <1>8, <2>2
  <2> HIDE DEF S
  <2> QED BY <2>1, <2>2, SetInduction
<1> QED BY <1>8, <1>9

(***************************************************************************)
(* Powers of two.                                                          *)
(***************************************************************************)
\* Adding exponents multiplies the powers.
LEMMA Pow2Plus ==
  ASSUME NEW a \in Nat, NEW b \in Nat
  PROVE  Pow2[a + b] = Pow2[a] * Pow2[b]
<1> DEFINE S == {k \in Nat : Pow2[a + k] = Pow2[a] * Pow2[k]}
<1>1. 0 \in S
  BY Pow2Def
<1>2. ASSUME NEW k \in Nat, k \in S
      PROVE  k + 1 \in S
  <2>1. Pow2[a + (k + 1)] = 2 * Pow2[a + k] /\ Pow2[k + 1] = 2 * Pow2[k]
    <3>1. a + k \in Nat /\ (a + k) + 1 = a + (k + 1)
      OBVIOUS
    <3> QED BY <3>1, Pow2Def
  <2>2. Pow2[a + k] = Pow2[a] * Pow2[k]
    BY <1>2
  <2>3. Pow2[a] \in Nat /\ Pow2[k] \in Nat
    BY Pow2Def
  <2>4. Pow2[a] * (2 * Pow2[k]) = 2 * (Pow2[a] * Pow2[k])
    BY <2>3
  <2> QED BY <2>1, <2>2, <2>4
<1> HIDE DEF S
<1>3. Nat \subseteq S
  BY <1>1, <1>2, SetInduction
<1> QED BY <1>3 DEF S

\* Powers are positive.
LEMMA Pow2Positive ==
  ASSUME NEW a \in Nat
  PROVE  Pow2[a] \in Nat \ {0}
<1> DEFINE S == {k \in Nat : Pow2[k] # 0}
<1>1. 0 \in S
  BY Pow2Def
<1>2. ASSUME NEW k \in Nat, k \in S
      PROVE  k + 1 \in S
  BY <1>2, Pow2Def
<1> HIDE DEF S
<1>3. Nat \subseteq S
  BY <1>1, <1>2, SetInduction
<1> QED BY <1>3, Pow2Def DEF S

\* They grow with the exponent, and at least double.
LEMMA Pow2Order ==
  ASSUME NEW a \in Nat, NEW b \in Nat, a < b
  PROVE  2 * Pow2[a] <= Pow2[b]
<1> DEFINE c == b - (a + 1)
<1>1. c \in Nat /\ b = (a + 1) + c
  OBVIOUS
<1> HIDE DEF c
<1>2. Pow2[b] = (2 * Pow2[a]) * Pow2[c]
  BY <1>1, Pow2Plus, Pow2Def
<1>3. Pow2[a] \in Nat \ {0} /\ Pow2[c] \in Nat \ {0}
  BY <1>1, Pow2Positive
<1> QED BY <1>2, <1>3

(***************************************************************************)
(* The quotient of the magic numbers.                                      *)
(***************************************************************************)
\* The multiplier for a divisor d, and the result for a dividend x, when N is
\* the power by which the product is shifted and p that by which the sum is.
Multiplier(N, p, d)     == ((p - d) * N) \div d + 1
MagicResult(x, m, N, p) == ((x * m) \div N + x) \div p

\* With p not below d, the multiplier exceeds (p - d) * N / d by no more than
\* one, and a dividend below N does not notice.
LEMMA MagicQuotient ==
  ASSUME NEW N \in Nat \ {0}, NEW p \in Nat \ {0}, NEW d \in Nat \ {0}, d <= p,
         NEW x \in 0 .. N - 1, NEW m \in Nat, m = Multiplier(N, p, d)
  PROVE  MagicResult(x, m, N, p) = x \div d
<1> DEFINE a == (p - d) * N
           e == d - (a % d)
           t == (x * m) \div N
           u == (x * m) % N
           q == x \div d
           r == x % d
<1>1. e \in 1 .. d /\ m * d = a + e
  <2>1. a \in Nat
    OBVIOUS
  <2>2. a \div d \in Nat /\ a % d \in 0 .. d - 1 /\ a = d * (a \div d) + (a % d)
    BY <2>1, DivMod
  <2> HIDE DEF a
  <2>3. m = (a \div d) + 1
    BY DEF a, Multiplier
  <2> DEFINE qa == a \div d
             ra == a % d
  <2>4. qa \in Nat /\ ra \in 0 .. d - 1 /\ a = d * qa + ra /\ m = qa + 1
    BY <2>2, <2>3
  <2> HIDE DEF qa, ra
  <2>5. d - ra \in 1 .. d /\ m * d = a + (d - ra)
    BY <2>4
  <2> QED BY <2>5 DEF ra
<1>2. t \in Nat /\ u \in 0 .. N - 1 /\ x * m = N * t + u
  <2>1. x * m \in Nat
    OBVIOUS
  <2> QED BY <2>1, DivMod
<1>3. q \in Nat /\ r \in 0 .. d - 1 /\ x = d * q + r
  <2>1. x \in Nat
    OBVIOUS
  <2> QED BY <2>1, DivMod
<1>4. (m + N) * d = p * N + e
  <2> HIDE DEF e
  <2> QED BY <1>1
<1> HIDE DEF a, e, t, u, q, r
<1>5. N * (t + x) = x * (m + N) - u
  <2>1. N * (t + x) = N * t + N * x /\ x * (m + N) = x * m + N * x
    BY <1>2
  <2>2. N * t \in Nat /\ x * m \in Nat /\ N * x \in Nat
    BY <1>2
  <2> QED BY <1>2, <2>1, <2>2
<1>6. p * q <= t + x
  <2>1. (d * q) * (m + N) = q * (p * N + e)
    BY <1>3, <1>4
  <2>2. (d * q) * (m + N) <= x * (m + N)
    BY <1>3
  <2>3. q * (p * N) <= q * (p * N + e)
    BY <1>1, <1>3
  <2>4. q * (p * N) = N * (p * q)
    BY <1>3
  <2>5. N * (p * q) <= N * (t + x) + u
    BY <1>5, <1>2, <1>3, <2>1, <2>2, <2>3, <2>4
  <2>6. N * (p * q) < N * (t + x + 1)
    BY <2>5, <1>2, <1>3
  <2>7. p * q < t + x + 1
    BY <2>6, <1>2, <1>3, ProductOrder
  <2> QED BY <2>7, <1>2, <1>3
<1>7. t + x < p * (q + 1)
  <2>1. (x * (m + N)) * d = x * (p * N) + x * e
    <3> DEFINE s == m + N
    <3>1. s \in Nat /\ s * d = p * N + e
      BY <1>4
    <3> HIDE DEF s
    <3>2. (x * s) * d = x * (s * d)
      BY <3>1
    <3>3. x * (p * N + e) = x * (p * N) + x * e
      BY <1>1
    <3> QED BY <3>1, <3>2, <3>3 DEF s
  <2>2. x * e < p * N
    BY <1>1
  <2>3. x * (p * N) <= (d * q + (d - 1)) * (p * N)
    BY <1>3
  <2>4. (d * q + (d - 1)) * (p * N) + p * N = (N * (p * (q + 1))) * d
    BY <1>3
  <2>5. (x * (m + N)) * d < (N * (p * (q + 1))) * d
    BY <1>1, <1>3, <2>1, <2>2, <2>3, <2>4
  <2>6. x * (m + N) < N * (p * (q + 1))
    BY <2>5, <1>3, ProductOrder
  <2>7. N * (t + x) < N * (p * (q + 1))
    BY <2>6, <1>5, <1>2, <1>3
  <2> QED BY <2>7, <1>2, <1>3, ProductOrder
<1>8. t + x \in Nat /\ (t + x) - p * q \in 0 .. p - 1 /\ t + x = p * q + ((t + x) - p * q)
  BY <1>2, <1>3, <1>6, <1>7
<1>9. (t + x) \div p = q
  BY <1>3, <1>8, DivModUnique
<1> QED BY <1>9 DEF t, q, MagicResult


(***************************************************************************)
(* The invariant of the calculation.                                       *)
(***************************************************************************)
\* Divisors and dividends within the powers that the magic product and the
\* registers have: the range of both comments in magic_div.hpp, but for the
\* dividend 1 << 16 of the second.
InRange ==
  /\ MaxDivisor <= Pow2[Bits] /\ MaxDivisor <= Pow2[RegBits - 1]
  /\ MaxDividend < Pow2[Bits] /\ MaxDividend < Pow2[RegBits - 1]

\* No smaller shift reaches the divisor.
ShiftLeast == shift = 0 \/ Pow2[shift - 1] < divisor

MagicInv ==
  /\ pc \in {"shift", "ready", "divided"}
  /\ divisor \in 1 .. MaxDivisor
  /\ shift \in 0 .. RegBits - 1
  /\ multiplier \in Reg /\ dividend \in Reg /\ quotient \in Reg
  /\ ShiftLeast
  /\ pc # "shift" =>
       /\ divisor <= Pow2[shift]
       /\ multiplier = ((Pow2[shift] - divisor) * Pow2[Bits]) \div divisor + 1
  /\ pc = "divided" => quotient = dividend \div divisor

\* The widths and the numbers of them.
LEMMA Widths ==
  /\ Bits \in Nat \ {0} /\ RegBits \in Nat \ {0} /\ Bits <= RegBits
  /\ RegBits = Bits \/ RegBits = 2 * Bits
  /\ MaxDivisor \in Nat \ {0} /\ MaxDividend \in Nat
  /\ Pow2[Bits] \in Nat \ {0} /\ Pow2[RegBits] \in Nat \ {0}
  /\ Pow2[2 * Bits] = Pow2[Bits] * Pow2[Bits]
  /\ Pow2[RegBits - 1] \in Nat \ {0} /\ Pow2[RegBits] = 2 * Pow2[RegBits - 1]
  /\ MaxDivisor \in Reg /\ MaxDividend \in Reg
<1>1. Bits \in Nat \ {0} /\ (RegBits = Bits \/ RegBits = 2 * Bits)
  BY WidthAssumption
<1>2. RegBits \in Nat \ {0} /\ Bits <= RegBits /\ RegBits - 1 \in Nat
  BY <1>1
<1>3. Pow2[Bits] \in Nat \ {0} /\ Pow2[RegBits] \in Nat \ {0} /\ Pow2[RegBits - 1] \in Nat \ {0}
  BY <1>1, <1>2, Pow2Positive
<1>4. Pow2[2 * Bits] = Pow2[Bits] * Pow2[Bits]
  <2>1. 2 * Bits = Bits + Bits
    BY <1>1
  <2> QED BY <1>1, <2>1, Pow2Plus
<1>5. Pow2[RegBits] = 2 * Pow2[RegBits - 1]
  <2>1. (RegBits - 1) + 1 = RegBits
    BY <1>2
  <2> QED BY <1>2, <2>1, Pow2Def
<1>6. MaxDivisor \in 1 .. Pow2[RegBits] - 1 /\ MaxDividend \in 0 .. Pow2[RegBits] - 1
  BY WidthAssumption
<1> QED BY <1>1, <1>2, <1>3, <1>4, <1>5, <1>6 DEF Reg

\* The initial state.
LEMMA MagicInit == Init => MagicInv
<1> SUFFICES ASSUME Init
             PROVE  MagicInv
  OBVIOUS
<1> QED BY Widths DEF Init, MagicInv, Reg, ShiftLeast

\* The loop stops before the shift leaves the register.
LEMMA MagicShift ==
  ASSUME InRange, MagicInv, IncShift
  PROVE  MagicInv'
<1>1. shift + 1 <= RegBits - 1
  <2> SUFFICES ASSUME RegBits - 1 <= shift
               PROVE  FALSE
    BY Widths DEF MagicInv
  <2>1. shift = RegBits - 1
    BY Widths DEF MagicInv
  <2>2. divisor <= Pow2[RegBits - 1]
    BY Widths DEF MagicInv, InRange
  <2> QED BY <2>1, <2>2, Widths DEF IncShift, ShiftTooSmall, MagicInv
<1>2. ShiftLeast'
  BY DEF MagicInv, IncShift, ShiftTooSmall, ShiftLeast
<1> QED BY <1>1, <1>2 DEF MagicInv, IncShift, Reg

\* The least power is below twice the divisor.
LEMMA LeastPower ==
  ASSUME MagicInv
  PROVE  /\ divisor \in Nat \ {0} /\ shift \in Nat /\ Pow2[shift] \in Nat \ {0}
         /\ Pow2[shift] < 2 * divisor
<1>1. divisor \in Nat \ {0} /\ shift \in Nat
  BY Widths DEF MagicInv
<1>2. Pow2[shift] \in Nat \ {0}
  BY <1>1, Pow2Positive
<1>3. Pow2[shift] < 2 * divisor
  <2>1. CASE shift = 0
    BY <2>1, <1>1, Pow2Def
  <2>2. CASE shift # 0
    <3>1. shift - 1 \in Nat /\ (shift - 1) + 1 = shift
      BY <2>2, <1>1
    <3>2. Pow2[shift] = 2 * Pow2[shift - 1] /\ Pow2[shift - 1] \in Nat
      BY <3>1, Pow2Def
    <3>3. Pow2[shift - 1] < divisor
      BY <2>2 DEF MagicInv, ShiftLeast
    <3> QED BY <3>2, <3>3, <1>1
  <2> QED BY <2>1, <2>2
<1> QED BY <1>1, <1>2, <1>3

\* The multiplier fits the register, and the product that it is made of fits
\* the product's width: nothing of it is lost.
LEMMA MagicMultiply ==
  ASSUME InRange, MagicInv, MagicMultiplier
  PROVE  MagicInv'
<1> DEFINE N == Pow2[Bits]
           p == Pow2[shift]
           d == divisor
           a == (p - d) * N
<1>1. /\ N \in Nat \ {0} /\ p \in Nat \ {0} /\ d \in Nat \ {0} /\ d <= p /\ p < 2 * d
      /\ d <= N
  <2>1. d <= p
    BY LeastPower DEF MagicMultiplier, ShiftTooSmall
  <2>2. d <= N
    BY Widths DEF MagicInv, InRange
  <2> QED BY <2>1, <2>2, LeastPower, Widths
<1> HIDE DEF N, p, d
<1>2. a \in Nat /\ a < d * N /\ a < N * N
  <2>1. p - d \in Nat /\ p - d <= d - 1 /\ p - d <= N - 1
    BY <1>1
  <2>2. (p - d) * N <= (d - 1) * N /\ (p - d) * N <= (N - 1) * N
    BY <2>1, <1>1
  <2>3. (d - 1) * N = d * N - N /\ (N - 1) * N = N * N - N
    BY <1>1
  <2>4. (p - d) * N \in Nat
    BY <2>1, <1>1
  <2> QED BY <2>2, <2>3, <2>4, <1>1
<1> HIDE DEF a
<1>3. a % Pow2[2 * Bits] = a
  <2>1. N * N \in Nat \ {0} /\ a \in 0 .. N * N - 1
    BY <1>1, <1>2
  <2>2. a % (N * N) = a
    BY <2>1, SmallMod
  <2> QED BY <2>2, Widths DEF N
<1>4. a \div d + 1 \in 0 .. Pow2[RegBits] - 1
  <2>1. a \div d \in Nat /\ a \div d < N
    BY <1>1, <1>2, DivMod, DivRange
  <2>2. CASE RegBits = Bits
    <3>1. 2 * d <= N
      BY <2>2, Widths, <1>1 DEF InRange, MagicInv, N, d
    <3>2. a \div d < N - 1
      <4>1. a < d * (N - 1)
        <5>1. p - d <= d - 1
          BY <1>1
        <5>2. a <= (d - 1) * N
          BY <5>1, <1>1 DEF a
        <5>3. (d - 1) * N = d * (N - 1) + d - N
          BY <1>1
        <5>4. d < N
          BY <3>1, <1>1
        <5>5. (d - 1) * N < d * (N - 1)
          BY <5>3, <5>4, <1>1
        <5> QED BY <5>2, <5>5, <1>1, <1>2
      <4> QED BY <4>1, <1>1, <1>2, DivRange
    <3>3. Pow2[RegBits] = N
      BY <2>2 DEF N
    <3> HIDE DEF a
    <3> QED BY <2>1, <3>2, <3>3, <1>1
  <2>3. CASE RegBits = 2 * Bits
    <3>1. N < Pow2[RegBits]
      <4>1. Bits < RegBits
        BY <2>3, Widths
      <4>2. 2 * N <= Pow2[RegBits]
        BY <4>1, Widths, Pow2Order DEF N
      <4> QED BY <4>2, <1>1, Widths
    <3> QED BY <2>1, <3>1, <1>1, Widths
  <2> QED BY <2>2, <2>3, Widths
<1>5. multiplier' = a \div d + 1
  <2>1. multiplier' = ((a % Pow2[2 * Bits]) \div d + 1) % Pow2[RegBits]
    BY DEF MagicMultiplier, a, p, N, d
  <2>2. (a \div d + 1) % Pow2[RegBits] = a \div d + 1
    BY <1>4, Widths, SmallMod
  <2> QED BY <2>1, <2>2, <1>3
<1>6. multiplier' \in Reg
  BY <1>4, <1>5 DEF Reg
<1>7. multiplier' = ((Pow2[shift] - divisor) * Pow2[Bits]) \div divisor + 1
  BY <1>5 DEF a, p, N, d
<1>8. divisor <= Pow2[shift]
  BY <1>1 DEF d, p
<1>9. /\ pc' = "ready"
      /\ UNCHANGED <<divisor, shift, dividend, quotient>>
  BY DEF MagicMultiplier
<1> QED BY <1>6, <1>7, <1>8, <1>9 DEF MagicInv, ShiftLeast

\* A division that loses nothing to the widths is exact.
LEMMA MagicDivide ==
  ASSUME InRange, MagicInv, Divide
  PROVE  MagicInv'
<1> DEFINE N == Pow2[Bits]
           p == Pow2[shift]
           d == divisor
           m == multiplier
<1>1. pc = "ready" /\ pc' = "divided" /\ UNCHANGED <<divisor, shift, multiplier>>
  BY DEF Divide
<1>2. PICK x \in 0 .. MaxDividend : dividend' = x /\ quotient' = do_magic_division(x)
  BY DEF Divide
<1>3. /\ N \in Nat \ {0} /\ p \in Nat \ {0} /\ d \in Nat \ {0} /\ d <= p
      /\ m \in Nat /\ m = ((p - d) * N) \div d + 1
  BY <1>1, LeastPower, Widths DEF MagicInv, Reg
<1>4. x \in 0 .. N - 1 /\ 2 * x < Pow2[RegBits] /\ x \in Nat
  BY <1>2, Widths DEF InRange
<1>5. m <= N
  <2> DEFINE a == (p - d) * N
  <2>1. p < 2 * d
    BY LeastPower
  <2>2. p - d \in Nat /\ p - d <= d - 1
    BY <1>3, <2>1
  <2> HIDE DEF N, p, d, m
  <2>3. a \in Nat /\ a < d * N
    <3>1. (p - d) * N <= (d - 1) * N /\ (d - 1) * N = d * N - N /\ (p - d) * N \in Nat
      BY <2>2, <1>3
    <3> QED BY <3>1, <1>3
  <2>4. m = a \div d + 1
    BY <1>3
  <2> HIDE DEF a
  <2>5. a \div d < N /\ a \div d \in Nat
    BY <2>3, <1>3, DivMod, DivRange
  <2> QED BY <2>4, <2>5, <1>3
<1>6. quotient' = ((((x * m) % Pow2[2 * Bits]) \div N + x) % Pow2[RegBits]) \div p
  BY <1>2 DEF do_magic_division
<1> HIDE DEF N, p, d, m
<1>7. (x * m) % Pow2[2 * Bits] = x * m
  <2>1. x * m <= (N - 1) * N /\ (N - 1) * N < N * N /\ x * m \in Nat /\ N * N \in Nat \ {0}
    BY <1>3, <1>4, <1>5
  <2>2. x * m \in 0 .. N * N - 1
    BY <2>1, <1>3
  <2>3. (x * m) % (N * N) = x * m
    BY <2>1, <2>2, SmallMod
  <2> QED BY <2>3, Widths DEF N
<1>8. ((x * m) \div N + x) % Pow2[RegBits] = (x * m) \div N + x
  <2> DEFINE t == (x * m) \div N
  <2> DEFINE y == x * m
             k == x + 1
  <2>1. y \in Nat /\ y < N * k /\ k \in Nat
    <3>1. x * m <= x * N /\ x * m \in Nat /\ N * (x + 1) = x * N + N
      BY <1>3, <1>4, <1>5
    <3> QED BY <3>1, <1>3, <1>4
  <2> HIDE DEF y, k
  <2>2. y \div N \in Nat /\ y \div N < k
    <3>1. N \in Nat \ {0}
      BY <1>3
    <3>2. y \div N \in Nat
      BY <2>1, <3>1, DivMod
    <3>3. y \div N < k
      BY <2>1, <3>1, DivRange
    <3> QED BY <3>2, <3>3
  <2>4. t \in Nat /\ t < x + 1
    BY <2>2 DEF y, k
  <2> HIDE DEF t
  <2>3. t + x \in 0 .. Pow2[RegBits] - 1
    BY <2>4, <1>4, Widths
  <2> QED BY <2>3, Widths, SmallMod DEF t
<1>9. quotient' = ((x * m) \div N + x) \div p
  BY <1>6, <1>7, <1>8
<1>10. quotient' = x \div d
  <2>1. m = Multiplier(N, p, d)
    BY <1>3 DEF Multiplier
  <2>2. MagicResult(x, m, N, p) = x \div d
    BY <1>3, <1>4, <2>1, MagicQuotient
  <2> QED BY <1>9, <2>2 DEF MagicResult
<1>11. quotient' \in Reg
  <2>1. x \div d \in Nat /\ x \div d <= x
    <3> DEFINE k == x + 1
    <3>1. x < d * k /\ k \in Nat
      BY <1>3, <1>4
    <3> HIDE DEF k
    <3>2. x \div d \in Nat
      BY <1>3, <1>4, DivMod
    <3>3. x \div d < k
      BY <3>1, <1>3, <1>4, DivRange
    <3> QED BY <3>2, <3>3, <1>4 DEF k
  <2> QED BY <2>1, <1>10, <1>4, Widths DEF Reg
<1>12. dividend' \in Reg
  BY <1>2, <1>4, Widths DEF Reg
<1>13. quotient' = dividend' \div divisor'
  BY <1>1, <1>2, <1>10 DEF d
<1> QED BY <1>1, <1>11, <1>12, <1>13 DEF MagicInv, ShiftLeast

\* Every step.
LEMMA MagicNext ==
  ASSUME InRange, MagicInv, [Next]_vars
  PROVE  MagicInv'
<1>1. CASE IncShift
  BY <1>1, MagicShift
<1>2. CASE MagicMultiplier
  BY <1>2, MagicMultiply
<1>3. CASE Divide
  BY <1>3, MagicDivide
<1>4. CASE DivideAgain
  BY <1>4 DEF DivideAgain, MagicInv, ShiftLeast, Reg
<1>5. CASE UNCHANGED vars
  BY <1>5 DEF vars, MagicInv, ShiftLeast, Reg
<1> QED BY <1>1, <1>2, <1>3, <1>4, <1>5 DEF Next

\* The invariant of every behaviour.
LEMMA MagicInvariance ==
  ASSUME InRange
  PROVE  Spec => []MagicInv
<1>1. MagicInv /\ [Next]_vars => MagicInv'
  BY MagicNext
<1> QED BY <1>1, MagicInit, PTL DEF Spec

\* The loop for the shift ends within the register, the multiplier fits it,
\* and so does every quotient: for every width, and all divisors and dividends
\* of the range.
THEOREM MagicNumbersFit ==
  ASSUME InRange
  PROVE  Spec => []TypeOK
<1>1. MagicInv => TypeOK
  BY DEF MagicInv, TypeOK
<1> QED BY <1>1, MagicInvariance, PTL

\* The magic division is the division, in 31 bits of 32 (and in the 16 bits of
\* the other variant without their upper end): for every width, and all
\* divisors and dividends of the range.
THEOREM MagicIsDivision ==
  ASSUME InRange
  PROVE  Spec => []QuotientCorrect
<1>1. MagicInv => QuotientCorrect
  BY DEF MagicInv, QuotientCorrect
<1> QED BY <1>1, MagicInvariance, PTL
=============================================================================
