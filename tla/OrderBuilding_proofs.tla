------------------------ MODULE OrderBuilding_proofs ------------------------
(***************************************************************************)
(* Machine-checked theorems about OrderBuilding, for every set of          *)
(* requests, books, tick sizes and fees, and every unit of prices and lots.*)
(***************************************************************************)
EXTENDS OrderBuilding, WellFoundedInduction, TLAPS

-----------------------------------------------------------------------------
(* Induction and recursion, from the order of the natural numbers: sets    *)
(* and functions instead of predicates and operators.                      *)

LEMMA LeastNatural ==
  ASSUME NEW S \in SUBSET Nat, S # {}
  PROVE  \E k \in S : \A j \in S : k <= j
<1> DEFINE R == {p \in Nat \X Nat : p[1] < p[2]}
<1>1. IsWellFoundedOn(R, Nat)
  BY NatLessThanWellFounded DEF OpToRel
<1>2. PICK k \in S : \A j \in S : ~(<<j, k>> \in R)
  BY <1>1, WFMin
<1>3. ASSUME NEW j \in S PROVE k <= j
  <2>1. j \in Nat /\ k \in Nat
    OBVIOUS
  <2>2. j < k => <<j, k>> \in R
    BY <2>1
  <2>3. ~(j < k)
    BY <1>2, <2>2
  <2> QED BY <2>1, <2>3
<1> QED BY <1>3

LEMMA InductionUpTo ==
  ASSUME NEW n \in Nat, NEW S, 0 \in S, \A k \in 0 .. n - 1 : k \in S => k + 1 \in S
  PROVE  0 .. n \subseteq S
<1> DEFINE Missing == (0 .. n) \ S
<1> SUFFICES ASSUME Missing # {} PROVE FALSE
  OBVIOUS
<1>1. PICK k \in Missing : \A j \in Missing : k <= j
  <2>1. Missing \in SUBSET Nat
    OBVIOUS
  <2> HIDE DEF Missing
  <2> QED BY <2>1, LeastNatural
<1>2. k \in 1 .. n /\ k - 1 \in 0 .. n - 1
  BY <1>1
<1>3. k - 1 \in S
  BY <1>1, <1>2
<1>4. (k - 1) + 1 \in S
  BY <1>2, <1>3
<1> QED BY <1>1, <1>2, <1>4

Iterates(f, n, a, step) ==
    f = [k \in 0 .. n |-> IF k = 0 THEN a ELSE step[<<k, f[k - 1]>>]]

LEMMA Recursion ==
  ASSUME NEW n \in Nat, NEW V, NEW a \in V, NEW step \in [Nat \X V -> V]
  PROVE  \E f \in [0 .. n -> V] : Iterates(f, n, a, step)
<1> DEFINE S == {m \in 0 .. n : \E f \in [0 .. m -> V] : Iterates(f, m, a, step)}
<1>1. 0 \in S
  <2> DEFINE f == [k \in 0 .. 0 |-> a]
  <2>1. f \in [0 .. 0 -> V] /\ Iterates(f, 0, a, step)
    BY DEF Iterates
  <2> QED BY <2>1
<1>2. ASSUME NEW m \in 0 .. n - 1, m \in S PROVE m + 1 \in S
  <2>1. PICK f \in [0 .. m -> V] : Iterates(f, m, a, step)
    BY <1>2
  <2> DEFINE g == [k \in 0 .. m + 1 |-> IF k = m + 1 THEN step[<<m + 1, f[m]>>] ELSE f[k]]
  <2>2. step[<<m + 1, f[m]>>] \in V
    <3>1. <<m + 1, f[m]>> \in Nat \X V
      OBVIOUS
    <3> QED BY <3>1
  <2>3. g \in [0 .. m + 1 -> V]
    BY <2>2
  <2>4. ASSUME NEW k \in 0 .. m + 1
        PROVE  g[k] = IF k = 0 THEN a ELSE step[<<k, g[k - 1]>>]
    <3>1. CASE k = m + 1
      <4>1. k # 0 /\ k - 1 = m /\ m \in 0 .. m + 1 /\ m # m + 1
        BY <3>1
      <4>2. g[k] = step[<<k, f[m]>>] /\ g[m] = f[m]
        BY <3>1, <4>1
      <4> QED BY <4>1, <4>2
    <3>2. CASE k # m + 1
      <4>1. k \in 0 .. m
        BY <3>2
      <4>2. f[k] = IF k = 0 THEN a ELSE step[<<k, f[k - 1]>>]
        BY <4>1, <2>1 DEF Iterates
      <4>3. k # 0 => k - 1 \in 0 .. m + 1 /\ k - 1 # m + 1
        BY <4>1
      <4>4. g[k] = f[k] /\ (k # 0 => g[k - 1] = f[k - 1])
        BY <3>2, <4>3
      <4> QED BY <4>2, <4>4
    <3> QED BY <3>1, <3>2
  <2>5. Iterates(g, m + 1, a, step)
    BY <2>4, Zenon DEF Iterates
  <2>6. m + 1 \in 0 .. n
    OBVIOUS
  <2> QED BY <2>3, <2>5, <2>6
<1>3. 0 .. n \subseteq S
  <2> HIDE DEF S
  <2> QED BY <1>1, <1>2, InductionUpTo
<1> QED BY <1>3

-----------------------------------------------------------------------------
(* Sums.                                                                   *)

LEMMA SumSteps ==
  ASSUME NEW n \in Nat, NEW w \in [1 .. n -> Nat]
  PROVE  /\ SumTo(w, n)[0] = 0
         /\ \A k \in 1 .. n : SumTo(w, n)[k] = SumTo(w, n)[k - 1] + w[k]
<1> DEFINE step == [p \in Nat \X Nat |-> p[2] + (IF p[1] \in 1 .. n THEN w[p[1]] ELSE 0)]
<1>1. step \in [Nat \X Nat -> Nat]
  OBVIOUS
<1>2. PICK f \in [0 .. n -> Nat] : Iterates(f, n, 0, step)
  <2> HIDE DEF step
  <2> QED BY <1>1, Recursion
<1>3. ASSUME NEW k \in 0 .. n PROVE f[k] = IF k = 0 THEN 0 ELSE f[k - 1] + w[k]
  <2>1. CASE k = 0
    BY <1>2, <2>1 DEF Iterates
  <2>2. CASE k # 0
    <3>1. k \in 1 .. n /\ f[k - 1] \in Nat /\ k \in Nat
      BY <2>2
    <3>2. f[k] = step[<<k, f[k - 1]>>]
      <4> HIDE DEF step
      <4> QED BY <1>2, <2>2 DEF Iterates
    <3> QED BY <3>1, <3>2, <2>2
  <2> QED BY <2>1, <2>2
<1>4. f = [k \in 0 .. n |-> IF k = 0 THEN 0 ELSE f[k - 1] + w[k]]
  BY <1>3, Zenon
<1>5. SumTo(w, n) = [k \in 0 .. n |-> IF k = 0 THEN 0 ELSE SumTo(w, n)[k - 1] + w[k]]
  BY <1>4 DEF SumTo
<1> HIDE DEF step
<1>6. ASSUME NEW k \in 0 .. n
      PROVE  SumTo(w, n)[k] = IF k = 0 THEN 0 ELSE SumTo(w, n)[k - 1] + w[k]
  BY <1>5
<1> QED BY <1>6

LEMMA SumTyped ==
  ASSUME NEW n \in Nat, NEW w \in [1 .. n -> Nat]
  PROVE  \A k \in 0 .. n : SumTo(w, n)[k] \in Nat
<1> DEFINE S == {k \in 0 .. n : SumTo(w, n)[k] \in Nat}
<1>1. 0 \in S
  BY SumSteps
<1>2. ASSUME NEW k \in 0 .. n - 1, k \in S PROVE k + 1 \in S
  <2>1. k + 1 \in 1 .. n /\ w[k + 1] \in Nat /\ (k + 1) - 1 = k
    OBVIOUS
  <2>2. SumTo(w, n)[k + 1] = SumTo(w, n)[k] + w[k + 1]
    BY <2>1, SumSteps
  <2> QED BY <1>2, <2>1, <2>2
<1>3. 0 .. n \subseteq S
  <2> HIDE DEF S
  <2> QED BY <1>1, <1>2, InductionUpTo
<1> QED BY <1>3

(* From p to q the larger weights add more.                                *)
LEMMA SumCompare ==
  ASSUME NEW n \in Nat, NEW v \in [1 .. n -> Nat], NEW w \in [1 .. n -> Nat],
         NEW p \in 0 .. n, \A k \in p + 1 .. n : v[k] <= w[k]
  PROVE  SumTo(v, n)[n] - SumTo(v, n)[p] <= SumTo(w, n)[n] - SumTo(w, n)[p]
<1> DEFINE V(k) == SumTo(v, n)[k]
           W(k) == SumTo(w, n)[k]
           S == {k \in 0 .. n : k >= p => V(k) - V(p) <= W(k) - W(p)}
<1>1. \A k \in 0 .. n : V(k) \in Nat /\ W(k) \in Nat
  BY SumTyped
<1>2. \A k \in 1 .. n : V(k) = V(k - 1) + v[k] /\ W(k) = W(k - 1) + w[k]
  BY SumSteps
<1> HIDE DEF V, W
<1>3. 0 \in S
  <2>1. 0 >= p => p = 0
    OBVIOUS
  <2> QED BY <1>1, <2>1
<1>4. ASSUME NEW k \in 0 .. n - 1, k \in S PROVE k + 1 \in S
  <2>1. k + 1 \in 1 .. n /\ k \in 0 .. n /\ (k + 1) - 1 = k
    OBVIOUS
  <2>2. /\ V(k + 1) = V(k) + v[k + 1] /\ W(k + 1) = W(k) + w[k + 1]
        /\ {V(k), V(p), W(k), W(p), v[k + 1], w[k + 1]} \subseteq Nat
    BY <2>1, <1>1, <1>2
  <2>3. CASE k >= p
    <3>1. v[k + 1] <= w[k + 1]
      BY <2>1, <2>3
    <3> QED BY <1>4, <2>1, <2>2, <2>3, <3>1
  <2>4. CASE k < p
    <3>1. k + 1 >= p => p = k + 1
      BY <2>1, <2>4
    <3> QED BY <2>1, <2>2, <3>1
  <2> QED BY <2>3, <2>4
<1>5. 0 .. n \subseteq S
  <2> HIDE DEF S
  <2> QED BY <1>3, <1>4, InductionUpTo
<1>6. n \in S /\ n >= p
  BY <1>5
<1> QED BY <1>6 DEF V, W

LEMMA SumOfNothing ==
  ASSUME NEW n \in Nat, NEW w \in [1 .. n -> Nat],
         NEW p \in 0 .. n, \A k \in 1 .. p : w[k] = 0
  PROVE  SumTo(w, n)[p] = 0
<1> DEFINE S == {k \in 0 .. p : SumTo(w, n)[k] = 0}
<1>1. 0 \in S
  BY SumSteps
<1>2. ASSUME NEW k \in 0 .. p - 1, k \in S PROVE k + 1 \in S
  <2>1. k + 1 \in 1 .. n /\ k + 1 \in 1 .. p /\ (k + 1) - 1 = k
    OBVIOUS
  <2>2. SumTo(w, n)[k + 1] = SumTo(w, n)[k] + w[k + 1]
    BY <2>1, SumSteps
  <2> QED BY <1>2, <2>1, <2>2
<1>3. 0 .. p \subseteq S
  <2>1. p \in Nat
    OBVIOUS
  <2> HIDE DEF S
  <2> QED BY <1>1, <1>2, <2>1, InductionUpTo
<1> QED BY <1>3

(* Summing from the other end leaves out what the beginning holds.         *)
LEMMA SumMirrored ==
  ASSUME NEW n \in Nat, NEW w \in [1 .. n -> Nat], NEW q \in 0 .. n
  PROVE  LET r == [k \in 1 .. n |-> w[n + 1 - k]]
         IN  SumTo(r, n)[q] = SumTo(w, n)[n] - SumTo(w, n)[n - q]
<1> DEFINE r == [k \in 1 .. n |-> w[n + 1 - k]]
           Q(k) == SumTo(r, n)[k]
           W(k) == SumTo(w, n)[k]
           S == {k \in 0 .. n : Q(k) = W(n) - W(n - k)}
<1>1. r \in [1 .. n -> Nat]
  OBVIOUS
<1>2. /\ Q(0) = 0
      /\ \A k \in 1 .. n : Q(k) = Q(k - 1) + w[n + 1 - k]
  <2>1. \A k \in 1 .. n : r[k] = w[n + 1 - k]
    OBVIOUS
  <2> HIDE DEF r
  <2> QED BY <1>1, <2>1, SumSteps
<1>3. \A k \in 1 .. n : W(k) = W(k - 1) + w[k]
  BY SumSteps
<1>4. \A k \in 0 .. n : W(k) \in Nat
  BY SumTyped
<1> HIDE DEF Q, W
<1>5. 0 \in S
  BY <1>2, <1>4
<1>6. ASSUME NEW k \in 0 .. n - 1, k \in S PROVE k + 1 \in S
  <2>1. /\ k + 1 \in 1 .. n /\ (k + 1) - 1 = k /\ n + 1 - (k + 1) = n - k
        /\ n - k \in 1 .. n /\ (n - k) - 1 = n - (k + 1) /\ n - (k + 1) \in 0 .. n
    OBVIOUS
  <2>2. Q(k + 1) = Q(k) + w[n - k]
    BY <1>2, <2>1
  <2>3. W(n - k) = W(n - (k + 1)) + w[n - k]
    BY <1>3, <2>1
  <2>4. {W(n), W(n - k), W(n - (k + 1)), w[n - k]} \subseteq Nat
    BY <1>4, <2>1
  <2> QED BY <1>6, <2>1, <2>2, <2>3, <2>4
<1>7. 0 .. n \subseteq S
  <2> HIDE DEF S
  <2> QED BY <1>5, <1>6, InductionUpTo
<1> QED BY <1>7 DEF Q, W

-----------------------------------------------------------------------------
(* Quotients and multiples.                                                *)

LEMMA Multiples ==
  ASSUME NEW a \in Int, NEW g \in Positive
  PROVE  /\ a % g = 0 => \E k \in Int : a = k * g
         /\ \A k \in Int : a = k * g => a % g = 0 /\ a \div g = k
<1>1. a \div g \in Int /\ a = g * (a \div g) + (a % g)
  BY DEF Positive
<1>2. a % g = 0 => a = (a \div g) * g
  BY <1>1 DEF Positive
<1>3. ASSUME NEW k \in Int, a = k * g PROVE a % g = 0 /\ a \div g = k
  BY <1>3 DEF Positive
<1> QED BY <1>1, <1>2, <1>3

LEMMA Regrouped ==
  \A x, y, l, g \in Int : (x * l) * (y * g) = (x * y) * (l * g)
OBVIOUS

LEMMA QuotientBounds ==
  ASSUME NEW a \in Nat, NEW b \in Positive
  PROVE  /\ a \div b \in Nat
         /\ (a \div b) * b <= a
         /\ a < (a \div b + 1) * b
BY DEF Positive

LEMMA MultipleOfMultiple ==
  ASSUME NEW a \in Int, NEW g \in Positive, NEW h \in Positive, a % g = 0, g % h = 0
  PROVE  a % h = 0
<1>1. PICK x \in Int : a = x * g
  BY Multiples
<1>2. PICK y \in Int : g = y * h
  BY Multiples DEF Positive
<1>3. x * y \in Int /\ a = (x * y) * h
  BY <1>1, <1>2 DEF Positive
<1> QED BY <1>3, Multiples

LEMMA TruncBounds ==
  ASSUME NEW a \in Nat, NEW g \in Positive
  PROVE  /\ Trunc(a, g) \in Nat
         /\ Trunc(a, g) <= a /\ a <= Trunc(a, g) + g - 1
         /\ a % g = 0 => Trunc(a, g) = a
BY DEF Trunc, Positive

LEMMA PowerPositive ==
  ASSUME NEW b \in Positive, NEW n \in Nat
  PROVE  Power(b, n) \in Positive
<1> DEFINE step == [p \in Nat \X Positive |-> p[2] * b]
<1>1. step \in [Nat \X Positive -> Positive]
  BY DEF Positive
<1>2. PICK f \in [0 .. n -> Positive] : Iterates(f, n, 1, step)
  <2>1. 1 \in Positive
    BY DEF Positive
  <2> HIDE DEF step
  <2> QED BY <1>1, <2>1, Recursion
<1>3. ASSUME NEW k \in 0 .. n PROVE f[k] = IF k = 0 THEN 1 ELSE f[k - 1] * b
  <2>1. CASE k = 0
    BY <1>2, <2>1 DEF Iterates
  <2>2. CASE k # 0
    <3>1. k - 1 \in 0 .. n /\ k \in Nat
      BY <2>2
    <3>2. f[k] = step[<<k, f[k - 1]>>]
      <4> HIDE DEF step
      <4> QED BY <1>2, <2>2 DEF Iterates
    <3> QED BY <3>1, <3>2, <2>2
  <2> QED BY <2>1, <2>2
<1>4. f = [k \in 0 .. n |-> IF k = 0 THEN 1 ELSE f[k - 1] * b]
  BY <1>3, Zenon
<1> DEFINE Solves(g) == g = [k \in 0 .. n |-> IF k = 0 THEN 1 ELSE g[k - 1] * b]
           power == CHOOSE g : Solves(g)
<1>5. Solves(power) /\ Power(b, n) = power[n]
  BY <1>4, Zenon DEF Power
<1> HIDE DEF step, power
<1> DEFINE S == {k \in 0 .. n : power[k] \in Positive}
<1>6. 0 \in S
  BY <1>5 DEF Positive
<1>7. ASSUME NEW k \in 0 .. n - 1, k \in S PROVE k + 1 \in S
  <2>1. k + 1 \in 0 .. n /\ k + 1 # 0 /\ (k + 1) - 1 = k
    OBVIOUS
  <2>2. power[k + 1] = power[k] * b
    BY <1>5, <2>1
  <2> QED BY <1>7, <2>1, <2>2 DEF Positive
<1>8. 0 .. n \subseteq S
  <2> HIDE DEF S
  <2> QED BY <1>6, <1>7, InductionUpTo
<1> QED BY <1>5, <1>8

(* A product of whole lots and a price on the grid of the tick size is     *)
(* kept by the truncation: nothing of it is lost.                          *)
LEMMA TimesExact ==
  ASSUME NEW t \in Ticks, NEW a \in Nat, a % LotGrain = 0,
         NEW p \in Nat, p % t.grain = 0
  PROVE  /\ Times(a, p, t) \in Nat
         /\ Times(a, p, t) * PriceOne = a * p
<1>1. PriceOne \in Positive /\ LotGrain \in Positive /\ t.grain \in Positive
      /\ (LotGrain * t.grain) % PriceOne = 0
  BY BuildingAssumption DEF TickSound
<1>2. PICK x \in Int : a = x * LotGrain
  BY <1>1, Multiples
<1>3. PICK y \in Int : p = y * t.grain
  BY <1>1, Multiples
<1>4. LotGrain * t.grain \in Positive
  BY <1>1 DEF Positive
<1>5. PICK z \in Int : LotGrain * t.grain = z * PriceOne
  <2>1. LotGrain * t.grain \in Int
    BY <1>4 DEF Positive
  <2> QED BY <1>1, <2>1, Multiples
<1>6. z \in Positive
  BY <1>1, <1>4, <1>5 DEF Positive
<1>7. AmountGrain(t) = z
  <2>1. z * PriceOne >= PriceOne /\ z * PriceOne \in Int
    BY <1>1, <1>6 DEF Positive
  <2>2. (z * PriceOne) \div PriceOne = z
    BY <1>1, <1>6, <2>1, Multiples
  <2> QED BY <1>1, <1>5, <2>1, <2>2 DEF AmountGrain, Positive
<1>8. a * p = ((x * y) * z) * PriceOne
  <2>1. a * p = (x * y) * (LotGrain * t.grain)
    <3>1. LotGrain \in Int /\ t.grain \in Int
      BY <1>1 DEF Positive
    <3> QED BY <1>2, <1>3, <3>1, Regrouped
  <2> QED BY <1>1, <1>5, <2>1 DEF Positive
<1>9. x * y \in Int /\ (x * y) * z \in Int /\ a * p \in Nat
  BY <1>6 DEF Positive
<1>10. (a * p) \div PriceOne = (x * y) * z
  BY <1>1, <1>8, <1>9, Multiples
<1>11. (x * y) * z \in Nat
  BY <1>1, <1>9, <1>10, QuotientBounds
<1>12. ((x * y) * z) % z = 0
  BY <1>6, <1>9, Multiples
<1>13. Times(a, p, t) = (x * y) * z
  BY <1>6, <1>7, <1>10, <1>11, <1>12, TruncBounds DEF Times
<1> QED BY <1>8, <1>11, <1>13

(* A quotient is truncated in favour of the price.                         *)
LEMMA OverBounds ==
  ASSUME NEW t \in Ticks, NEW a \in Nat, NEW p \in Positive
  PROVE  /\ Over(a, p, t) \in Nat
         /\ a * PriceOne >= Over(a, p, t) * p
<1>1. PriceOne \in Positive /\ LotGrain \in Positive /\ t.grain \in Positive
  BY BuildingAssumption DEF TickSound
<1>2. LotGrain * t.grain \in Positive /\ a * PriceOne \in Nat
  BY <1>1 DEF Positive
<1>3. AmountGrain(t) \in Positive
  <2>1. CASE LotGrain * t.grain < PriceOne
    BY <2>1 DEF AmountGrain, Positive
  <2>2. CASE ~(LotGrain * t.grain < PriceOne)
    <3> DEFINE q == (LotGrain * t.grain) \div PriceOne
    <3>1. q \in Nat /\ LotGrain * t.grain < (q + 1) * PriceOne
      BY <1>1, <1>2, QuotientBounds DEF Positive
    <3>2. q # 0
      BY <1>1, <1>2, <2>2, <3>1 DEF Positive
    <3> QED BY <2>2, <3>1, <3>2 DEF AmountGrain, Positive
  <2> QED BY <2>1, <2>2
<1> DEFINE d == (a * PriceOne) \div p
<1>4. d \in Nat /\ d * p <= a * PriceOne
  BY <1>2, QuotientBounds
<1> HIDE DEF d
<1>5. Trunc(d, AmountGrain(t)) \in Nat /\ Trunc(d, AmountGrain(t)) <= d
  BY <1>3, <1>4, TruncBounds
<1>6. Trunc(d, AmountGrain(t)) * p <= d * p
  BY <1>4, <1>5 DEF Positive
<1>7. Over(a, p, t) = Trunc(d, AmountGrain(t))
  BY DEF Over, d
<1> HIDE DEF Trunc
<1> QED BY <1>2, <1>4, <1>5, <1>6, <1>7 DEF Positive

-----------------------------------------------------------------------------
(* The balance.                                                            *)

LEMMA FeesTyped ==
  ASSUME NEW fee \in Fees, NEW p \in Positive, PriceOne - p \in Positive
  PROVE  FeeWhole(fee, p) \in Positive /\ FeePart(fee, p) \in Nat
<1>1. /\ fee.rate \in Nat /\ fee.exponent \in Nat /\ fee.builder \in Nat
      /\ PriceOne \in Positive /\ RateOne \in Positive
  BY BuildingAssumption
<1>2. FeeWhole(fee, p) \in Positive
  <2>1. CASE fee.exponent = 0
    BY <1>1, <2>1 DEF FeeWhole, Positive
  <2>2. CASE fee.exponent # 0
    <3>1. 2 * fee.exponent - 1 \in Nat
      BY <1>1, <2>2
    <3>2. Power(PriceOne, 2 * fee.exponent - 1) \in Positive
      BY <1>1, <3>1, PowerPositive
    <3> QED BY <1>1, <2>2, <3>2 DEF FeeWhole, Positive
  <2> QED BY <2>1, <2>2
<1>3. fee.builder * (FeeWhole(fee, p) \div RateOne) \in Nat
  <2>1. FeeWhole(fee, p) \div RateOne \in Nat
    BY <1>1, <1>2, QuotientBounds DEF Positive
  <2> QED BY <1>1, <2>1
<1>4. CASE fee.exponent = 0
  <2>1. fee.rate * PriceOne \in Nat
    BY <1>1 DEF Positive
  <2> QED BY <1>2, <1>3, <1>4, <2>1 DEF FeePart
<1>5. CASE fee.exponent # 0
  <2> DEFINE x == Power(p, fee.exponent - 1)
             y == Power(PriceOne - p, fee.exponent)
  <2>1. fee.exponent - 1 \in Nat
    BY <1>1, <1>5
  <2>2. x \in Positive /\ y \in Positive
    BY <1>1, <2>1, PowerPositive
  <2>3. fee.rate * (x * y) \in Nat
    <3> HIDE DEF x, y
    <3> QED BY <1>1, <2>2 DEF Positive
  <2> QED BY <1>2, <1>3, <1>5, <2>3 DEF FeePart
<1> QED BY <1>4, <1>5

(* The slack is less than half of what a unit costs with its fees.         *)
LEMMA SlackBounds ==
  ASSUME NEW fee \in Fees, NEW p \in Positive, PriceOne - p \in Positive
  PROVE  /\ UnitCost(fee, p) \in Positive
         /\ Slack(fee, p) \in Nat
         /\ 2 * Slack(fee, p) < UnitCost(fee, p)
<1> DEFINE s == UnitCost(fee, p)
<1>1. s \in Positive
  BY FeesTyped DEF UnitCost, Positive
<1>2. Precision \in Positive /\ Precision >= 3
  BY BuildingAssumption DEF Positive
<1> HIDE DEF s
<1>3. s \div Precision \in Nat /\ (s \div Precision) * Precision <= s
  BY <1>1, <1>2, QuotientBounds DEF Positive
<1> DEFINE q == s \div Precision
<1>4. 3 * q <= q * Precision
  <2>1. q \in Nat
    BY <1>3
  <2> HIDE DEF q
  <2> QED BY <1>2, <2>1 DEF Positive
<1>5. 2 * q < s
  <2>1. q \in Nat /\ q * Precision <= s /\ q * Precision \in Int
    BY <1>2, <1>3 DEF Positive
  <2> HIDE DEF q
  <2> QED BY <1>1, <1>4, <2>1 DEF Positive
<1>6. Slack(fee, p) = IF FeePart(fee, p) = 0 THEN 0 ELSE q
  BY DEF Slack, q, s
<1> QED BY <1>1, <1>3, <1>5, <1>6 DEF s, Positive

(* What b buys at s a piece: m and not m + 1.                              *)
LEMMA QuotientBuys ==
  ASSUME NEW b \in Int, NEW s \in Positive, Quotient(b, s) > 0
  PROVE  LET m == Quotient(b, s) IN m \in Nat /\ m * s <= b /\ b < (m + 1) * s
<1>1. b \in Nat
  <2> SUFFICES ASSUME b < 0 PROVE FALSE
    OBVIOUS
  <2>1. -b \in Nat
    OBVIOUS
  <2>2. (-b) \div s \in Nat
    BY <2>1, QuotientBounds
  <2> QED BY <2>2 DEF Quotient
<1>2. Quotient(b, s) = b \div s
  BY <1>1 DEF Quotient
<1> QED BY <1>1, <1>2, QuotientBounds

LEMMA RoundedTyped ==
  ASSUME NEW a \in Int, NEW s \in Positive, NEW slack \in Nat, NEW m \in Rounded(a, s, slack)
  PROVE  \E b \in Int : a - slack <= b /\ b <= a + slack /\ m = Quotient(b, s)
<1>1. PICK e \in {-slack, 0, slack} : m = Quotient(a + e, s)
  BY DEF Rounded
<1>2. a + e \in Int /\ a - slack <= a + e /\ a + e <= a + slack
  BY <1>1
<1> QED BY <1>1, <1>2

(* The rounded quotient stays below the amount whose cost the balance may  *)
(* be short of.                                                            *)
LEMMA Affordable ==
  ASSUME NEW whole \in Int, NEW s \in Positive, NEW slack \in Nat, 2 * slack < s,
         NEW a \in Int, whole <= a * s + slack,
         NEW m \in Rounded(whole, s, slack), m > 0
  PROVE  /\ m \in Nat /\ m <= a
         /\ m * s <= whole + slack
         /\ (m + 1) * s > whole - slack
<1>1. PICK b \in Int : whole - slack <= b /\ b <= whole + slack /\ m = Quotient(b, s)
  BY RoundedTyped
<1>2. m \in Nat /\ m * s <= b /\ b < (m + 1) * s
  BY <1>1, QuotientBuys
<1>3. m * s \in Int /\ (m + 1) * s \in Int /\ a * s \in Int /\ s \in Int
  BY <1>2 DEF Positive
<1>4. m * s <= whole + slack /\ (m + 1) * s > whole - slack
  BY <1>1, <1>2, <1>3
<1>5. m * s < a * s + s
  BY <1>3, <1>4
<1>6. ASSUME m > a PROVE FALSE
  <2>1. (m - a - 1) * s >= 0
    BY <1>2, <1>6 DEF Positive
  <2>2. m * s - a * s - s = (m - a - 1) * s
    BY <1>2 DEF Positive
  <2> QED BY <1>3, <1>5, <2>1, <2>2
<1> QED BY <1>2, <1>4, <1>6

LEMMA AdjustedTyped ==
  ASSUME NEW r \in MarketRequests, NEW fee \in Fees,
         NEW p \in Positive, PriceOne - p \in Positive, NEW m \in Adjusted(r, fee, p)
  PROVE  m \in Int
<1>1. r.amount \in Int /\ r.balance \in Int
  BY BuildingAssumption DEF MarketSound
<1>2. UnitCost(fee, p) \in Positive /\ Slack(fee, p) \in Nat
  BY SlackBounds
<1>3. r.balance * FeeWhole(fee, p) \in Int
  BY <1>1, FeesTyped DEF Positive
<1>4. CASE m = r.amount
  BY <1>1, <1>4
<1>5. CASE m \in Rounded(r.balance * FeeWhole(fee, p), UnitCost(fee, p), Slack(fee, p))
  <2>1. PICK b \in Int : m = Quotient(b, UnitCost(fee, p))
    BY <1>2, <1>3, <1>5, RoundedTyped
  <2> QED BY <1>2, <2>1 DEF Quotient, Positive
<1> QED BY <1>4, <1>5 DEF Adjusted

LEMMA AdjustedSound ==
  ASSUME NEW r \in MarketRequests, NEW fee \in Fees,
         NEW p \in Positive, PriceOne - p \in Positive,
         NEW m \in Adjusted(r, fee, p), m > 0
  PROVE  LET whole == r.balance * FeeWhole(fee, p)
             slack == Slack(fee, p)
         IN  /\ m \in Nat /\ m <= r.amount
             /\ Cost(m, fee, p) <= whole + slack
             /\ m = r.amount \/ Cost(m + 1, fee, p) > whole - slack
<1> DEFINE whole == r.balance * FeeWhole(fee, p)
           s == UnitCost(fee, p)
           slack == Slack(fee, p)
<1>1. r.amount \in Int /\ r.balance \in Int
  BY BuildingAssumption DEF MarketSound
<1>2. s \in Positive /\ slack \in Nat /\ 2 * slack < s
  BY SlackBounds
<1>3. whole \in Int
  BY <1>1, FeesTyped DEF Positive
<1>4. \A a : Cost(a, fee, p) = a * s
  BY DEF Cost
<1>5. \/ m \in Rounded(whole, s, slack) /\ whole <= r.amount * s + slack
      \/ m = r.amount /\ whole > r.amount * s - slack
  BY <1>4 DEF Adjusted, Tight, Ample
<1> HIDE DEF s, whole, slack
<1>6. CASE m \in Rounded(whole, s, slack) /\ whole <= r.amount * s + slack
  <2>1. /\ m \in Nat /\ m <= r.amount
        /\ m * s <= whole + slack
        /\ (m + 1) * s > whole - slack
    BY <1>1, <1>2, <1>3, <1>6, Affordable
  <2> QED BY <1>4, <2>1 DEF whole, slack
<1>7. CASE m = r.amount /\ whole > r.amount * s - slack
  <2>1. r.amount * s <= whole + slack
    <3>1. r.amount * s \in Int
      BY <1>1, <1>2 DEF Positive
    <3> QED BY <1>2, <1>3, <1>7, <3>1
  <2> QED BY <1>1, <1>4, <1>7, <2>1 DEF whole, slack
<1> QED BY <1>5, <1>6, <1>7

-----------------------------------------------------------------------------
(* The book.                                                               *)

Levels == Seq([price : Nat, size : Nat])

(* What the levels in I hold together.                                     *)
Held(levels, unit, I) ==
    SumTo([i \in DOMAIN levels |-> IF i \in I THEN Worth(levels[i], unit) ELSE 0],
          Len(levels))[Len(levels)]

LEMMA LevelsTyped ==
  ASSUME NEW levels \in Levels, NEW unit
  PROVE  /\ Len(levels) \in Nat /\ DOMAIN levels = 1 .. Len(levels)
         /\ \A i \in DOMAIN levels :
               /\ levels[i].price \in Nat /\ levels[i].size \in Nat
               /\ Worth(levels[i], unit) \in Nat
<1>1. Len(levels) \in Nat /\ DOMAIN levels = 1 .. Len(levels)
  BY DEF Levels
<1>2. ASSUME NEW i \in DOMAIN levels
      PROVE  /\ levels[i].price \in Nat /\ levels[i].size \in Nat
             /\ Worth(levels[i], unit) \in Nat
  <2>1. levels[i] \in [price : Nat, size : Nat]
    <3> DEFINE S == [price : Nat, size : Nat]
    <3>1. levels \in Seq(S) /\ i \in 1 .. Len(levels)
      BY <1>1 DEF Levels
    <3> HIDE DEF S
    <3>2. levels[i] \in S
      BY <3>1
    <3> QED BY <3>2 DEF S
  <2>2. PriceOne \in Nat
    BY BuildingAssumption DEF Positive
  <2>3. CASE unit = "usdc"
    BY <2>1, <2>3 DEF Worth
  <2>4. CASE unit # "usdc"
    BY <2>1, <2>2, <2>4 DEF Worth
  <2> QED BY <2>1, <2>3, <2>4
<1> QED BY <1>1, <1>2

LEMMA DepthIsTail ==
  ASSUME NEW levels \in Levels, NEW unit, NEW i \in 1 .. Len(levels) + 1
  PROVE  LET n == Len(levels)
             w == [k \in 1 .. n |-> Worth(levels[k], unit)]
         IN  Depth(levels, unit, i) = SumTo(w, n)[n] - SumTo(w, n)[i - 1]
<1> DEFINE n == Len(levels)
           w == [k \in 1 .. n |-> Worth(levels[k], unit)]
           r == [k \in 1 .. n |-> w[n + 1 - k]]
<1>1. n \in Nat /\ w \in [1 .. n -> Nat]
  BY LevelsTyped
<1>2. r = [k \in 1 .. n |-> Worth(levels[n + 1 - k], unit)]
  BY <1>1
<1>3. n + 1 - i \in 0 .. n /\ n - (n + 1 - i) = i - 1
  BY <1>1
<1>4. Depth(levels, unit, i) = SumTo(r, n)[n + 1 - i]
  BY <1>2 DEF Depth
<1>5. SumTo(r, n)[n + 1 - i] = SumTo(w, n)[n] - SumTo(w, n)[n - (n + 1 - i)]
  <2> HIDE DEF n, w
  <2> QED BY <1>1, <1>3, SumMirrored
<1> QED BY <1>3, <1>4, <1>5

LEMMA HeldWithin ==
  ASSUME NEW levels \in Levels, NEW unit, NEW i \in 1 .. Len(levels) + 1,
         NEW I, \A k \in DOMAIN levels : k \in I => k >= i
  PROVE  Held(levels, unit, I) <= Depth(levels, unit, i)
<1> DEFINE n == Len(levels)
           w == [k \in 1 .. n |-> Worth(levels[k], unit)]
           v == [k \in 1 .. n |-> IF k \in I THEN Worth(levels[k], unit) ELSE 0]
<1>1. n \in Nat /\ DOMAIN levels = 1 .. n
  BY LevelsTyped
<1>2. w \in [1 .. n -> Nat] /\ v \in [1 .. n -> Nat] /\ i - 1 \in 0 .. n /\ i \in Nat
  BY <1>1, LevelsTyped
<1>3. \A k \in i .. n : v[k] <= w[k]
  BY <1>1, <1>2, LevelsTyped
<1>4. \A k \in 1 .. i - 1 : v[k] = 0
  BY <1>1, <1>2
<1>5. Held(levels, unit, I) = SumTo(v, n)[n]
  BY <1>1 DEF Held
<1>6. Depth(levels, unit, i) = SumTo(w, n)[n] - SumTo(w, n)[i - 1]
  BY DepthIsTail
<1> HIDE DEF n, v, w
<1>7. (i - 1) + 1 = i
  BY <1>2
<1>8. SumTo(v, n)[n] - SumTo(v, n)[i - 1] <= SumTo(w, n)[n] - SumTo(w, n)[i - 1]
  BY <1>1, <1>2, <1>3, <1>7, SumCompare
<1>9. SumTo(v, n)[i - 1] = 0
  BY <1>1, <1>2, <1>4, SumOfNothing
<1>10. SumTo(v, n)[n] \in Nat
  <2>1. n \in 0 .. n
    BY <1>1
  <2> QED BY <1>1, <1>2, <2>1, SumTyped
<1> QED BY <1>5, <1>6, <1>8, <1>9, <1>10

LEMMA HeldBeyond ==
  ASSUME NEW levels \in Levels, NEW unit, NEW i \in 1 .. Len(levels) + 1,
         NEW I, \A k \in DOMAIN levels : k >= i => k \in I
  PROVE  Held(levels, unit, I) >= Depth(levels, unit, i)
<1> DEFINE n == Len(levels)
           w == [k \in 1 .. n |-> Worth(levels[k], unit)]
           v == [k \in 1 .. n |-> IF k \in I THEN Worth(levels[k], unit) ELSE 0]
<1>1. n \in Nat /\ DOMAIN levels = 1 .. n
  BY LevelsTyped
<1>2. w \in [1 .. n -> Nat] /\ v \in [1 .. n -> Nat] /\ i - 1 \in 0 .. n /\ i \in Nat
  BY <1>1, LevelsTyped
<1>3. \A k \in i .. n : w[k] <= v[k]
  BY <1>1, <1>2, LevelsTyped
<1>4. Held(levels, unit, I) = SumTo(v, n)[n]
  BY <1>1 DEF Held
<1>5. Depth(levels, unit, i) = SumTo(w, n)[n] - SumTo(w, n)[i - 1]
  BY DepthIsTail
<1> HIDE DEF n, v, w
<1>6. (i - 1) + 1 = i
  BY <1>2
<1>7. SumTo(w, n)[n] - SumTo(w, n)[i - 1] <= SumTo(v, n)[n] - SumTo(v, n)[i - 1]
  BY <1>1, <1>2, <1>3, <1>6, SumCompare
<1>8. n \in 0 .. n
  BY <1>1
<1>9. {SumTo(v, n)[n], SumTo(v, n)[i - 1], SumTo(w, n)[n], SumTo(w, n)[i - 1]} \subseteq Nat
  BY <1>1, <1>2, <1>8, SumTyped
<1> QED BY <1>4, <1>5, <1>7, <1>9

LEMMA DepthTyped ==
  ASSUME NEW levels \in Levels, NEW unit
  PROVE  /\ \A i \in 1 .. Len(levels) + 1 : Depth(levels, unit, i) \in Nat
         /\ Depth(levels, unit, Len(levels) + 1) = 0
<1> DEFINE n == Len(levels)
           w == [k \in 1 .. n |-> Worth(levels[n + 1 - k], unit)]
<1>1. n \in Nat /\ w \in [1 .. n -> Nat]
  BY LevelsTyped
<1>2. \A i \in 1 .. n + 1 : n + 1 - i \in 0 .. n
  BY <1>1
<1>3. n + 1 - (n + 1) = 0
  BY <1>1
<1>4. \A i : Depth(levels, unit, i) = SumTo(w, n)[n + 1 - i]
  BY DEF Depth
<1> HIDE DEF w, n
<1>5. SumTo(w, n)[0] = 0 /\ \A k \in 0 .. n : SumTo(w, n)[k] \in Nat
  BY <1>1, SumSteps, SumTyped
<1> QED BY <1>2, <1>3, <1>4, <1>5 DEF n

LEMMA HeldTyped ==
  ASSUME NEW levels \in Levels, NEW unit, NEW I
  PROVE  Held(levels, unit, I) \in Nat
<1> DEFINE n == Len(levels)
           v == [k \in 1 .. n |-> IF k \in I THEN Worth(levels[k], unit) ELSE 0]
<1>1. n \in Nat /\ DOMAIN levels = 1 .. n /\ n \in 0 .. n
  BY LevelsTyped
<1>2. v \in [1 .. n -> Nat]
  BY <1>1, LevelsTyped
<1>3. Held(levels, unit, I) = SumTo(v, n)[n]
  BY <1>1 DEF Held
<1> HIDE DEF n, v
<1> QED BY <1>1, <1>2, <1>3, SumTyped

(* The price found is worst enough and no worse: the levels strictly       *)
(* better fall short of the target.                                        *)
BetterThan(levels, side, p) ==
    {i \in DOMAIN levels : IF side = "Buy" THEN levels[i].price < p ELSE levels[i].price > p}
AsGoodAs(levels, side, p) ==
    {i \in DOMAIN levels : levels[i].price = p} \cup BetterThan(levels, side, p)

PriceMeets(levels, r, p) ==
    /\ ~(Held(levels, r.unit, BetterThan(levels, r.side, p)) >= r.amount * PriceOne)
    /\ \/ Held(levels, r.unit, AsGoodAs(levels, r.side, p)) >= r.amount * PriceOne
       \/ AsGoodAs(levels, r.side, p) = DOMAIN levels /\ r.type # "FOK"

LEMMA WorstFirst ==
  ASSUME NEW book \in Books, NEW side \in {"Buy", "Sell"}
  PROVE  LET levels == Opposite(book, side)
         IN  /\ levels \in Levels
             /\ \A i, j \in DOMAIN levels : i <= j =>
                   /\ side = "Buy" => levels[j].price <= levels[i].price
                   /\ side = "Sell" => levels[j].price >= levels[i].price
<1>1. BookSound(book)
  BY BuildingAssumption
<1>2. CASE side = "Buy"
  <2>1. Opposite(book, side) = book.asks /\ book.asks \in Levels
    BY <1>1, <1>2 DEF Opposite, BookSound, LevelsSound, Levels
  <2>2. \A i \in DOMAIN book.asks : book.asks[i].price \in Nat
    BY <2>1, LevelsTyped
  <2>3. \A i, j \in DOMAIN book.asks : i <= j =>
           book.asks[i].price = book.asks[j].price \/ book.asks[i].price > book.asks[j].price
    BY <1>1 DEF BookSound, LevelsSound
  <2> QED BY <1>2, <2>1, <2>2, <2>3
<1>3. CASE side = "Sell"
  <2>1. Opposite(book, side) = book.bids /\ book.bids \in Levels
    BY <1>1, <1>3 DEF Opposite, BookSound, LevelsSound, Levels
  <2>2. \A i \in DOMAIN book.bids : book.bids[i].price \in Nat
    BY <2>1, LevelsTyped
  <2>3. \A i, j \in DOMAIN book.bids : i <= j =>
           book.bids[i].price = book.bids[j].price \/ book.bids[i].price < book.bids[j].price
    BY <1>1 DEF BookSound, LevelsSound
  <2> QED BY <1>3, <2>1, <2>2, <2>3
<1> QED BY <1>2, <1>3

LEMMA Greatest ==
  ASSUME NEW n \in Nat, NEW S \in SUBSET (1 .. n), S # {}
  PROVE  \E i \in S : \A j \in S : j <= i
<1> DEFINE T == {n - i : i \in S}
<1>0. \A i \in S : i \in Nat /\ n - i \in Nat
  <2>1. ASSUME NEW i \in S PROVE i \in 1 .. n
    OBVIOUS
  <2> QED BY <2>1
<1>1. T \in SUBSET Nat /\ T # {}
  BY <1>0
<1>2. PICK k \in T : \A j \in T : k <= j
  <2> HIDE DEF T
  <2> QED BY <1>1, LeastNatural
<1>3. PICK i \in S : k = n - i
  BY <1>2
<1>4. \A j \in S : n - i <= n - j
  BY <1>2, <1>3
<1> QED BY <1>0, <1>4

LEMMA CutoffMeets ==
  ASSUME NEW r \in MarketRequests, r.amount > 0, NEW book \in Books,
         NEW p \in Cutoff(Opposite(book, r.side), r)
  PROVE  PriceMeets(Opposite(book, r.side), r, p)
<1> DEFINE levels == Opposite(book, r.side)
           n == Len(levels)
           target == r.amount * PriceOne
           enough == {i \in DOMAIN levels : Depth(levels, r.unit, i) >= target}
           D(i) == Depth(levels, r.unit, i)
<1>1. r.side \in {"Buy", "Sell"} /\ r.amount \in Int /\ PriceOne \in Positive
  BY BuildingAssumption DEF MarketSound
<1>2. levels \in Levels /\ n \in Nat /\ DOMAIN levels = 1 .. n
      /\ \A i \in DOMAIN levels : levels[i].price \in Nat
  BY <1>1, WorstFirst, LevelsTyped
<1>3. ASSUME NEW i \in DOMAIN levels, NEW j \in DOMAIN levels, i <= j
      PROVE  /\ r.side = "Buy" => levels[j].price <= levels[i].price
             /\ r.side = "Sell" => levels[j].price >= levels[i].price
  BY <1>1, <1>3, WorstFirst
<1>4. target \in Int /\ target > 0
  BY <1>1 DEF Positive
<1>5. p \in IF enough # {}
            THEN {levels[CHOOSE i \in enough : \A j \in enough : j <= i].price}
            ELSE IF levels = <<>> \/ r.type = "FOK" THEN {} ELSE {levels[1].price}
  BY DEF Cutoff
<1> HIDE DEF levels, n
(* The levels strictly better than level i come after it, and those from   *)
(* it on are as good.                                                      *)
<1>6. ASSUME NEW i \in DOMAIN levels, p = levels[i].price
      PROVE  /\ \A k \in DOMAIN levels : k \in BetterThan(levels, r.side, p) => k >= i + 1
             /\ \A k \in DOMAIN levels : k >= i => k \in AsGoodAs(levels, r.side, p)
  <2>1. ASSUME NEW k \in DOMAIN levels, k \in BetterThan(levels, r.side, p) PROVE k >= i + 1
    <3>1. i \in Nat /\ k \in Nat
      BY <1>2
    <3>2. ~(k <= i)
      BY <1>1, <1>2, <1>3, <1>6, <2>1 DEF BetterThan
    <3> QED BY <3>1, <3>2
  <2>2. ASSUME NEW k \in DOMAIN levels, k >= i PROVE k \in AsGoodAs(levels, r.side, p)
    <3>1. i <= k
      BY <1>2, <2>2
    <3> QED BY <1>1, <1>2, <1>3, <1>6, <3>1 DEF AsGoodAs, BetterThan
  <2> QED BY <2>1, <2>2
<1>7. CASE enough # {}
  <2> DEFINE i == CHOOSE i \in enough : \A j \in enough : j <= i
  <2>1. enough \in SUBSET (1 .. n)
    BY <1>2
  <2>2. i \in enough /\ \A j \in enough : j <= i
    <3> HIDE DEF enough
    <3>1. \E k \in enough : \A j \in enough : j <= k
      BY <1>2, <1>7, <2>1, Greatest
    <3> QED BY <3>1
  <2>3. p = levels[i].price
    BY <1>5, <1>7
  <2> HIDE DEF i
  <2>4. i \in DOMAIN levels /\ i \in 1 .. n + 1 /\ i + 1 \in 1 .. n + 1 /\ D(i) >= target
    BY <1>2, <2>2
  <2>5. D(i + 1) < target
    <3>1. CASE i + 1 \in DOMAIN levels
      <4>1. i + 1 \notin enough
        BY <1>2, <2>2, <2>4
      <4>2. D(i + 1) \in Nat
        BY <1>2, <2>4, DepthTyped DEF n
      <4> QED BY <1>4, <3>1, <4>1, <4>2
    <3>2. CASE i + 1 \notin DOMAIN levels
      <4>1. i + 1 = n + 1
        BY <1>2, <2>4, <3>2
      <4>2. D(i + 1) = 0
        BY <1>2, <4>1, DepthTyped DEF n
      <4> QED BY <1>4, <4>2
    <3> QED BY <3>1, <3>2
  <2>6. Held(levels, r.unit, BetterThan(levels, r.side, p)) <= D(i + 1)
    BY <1>2, <1>6, <2>3, <2>4, HeldWithin DEF n
  <2>7. Held(levels, r.unit, AsGoodAs(levels, r.side, p)) >= D(i)
    BY <1>2, <1>6, <2>3, <2>4, HeldBeyond DEF n
  <2>8. D(i) \in Nat /\ D(i + 1) \in Nat
    BY <1>2, <2>4, DepthTyped DEF n
  <2>9. /\ Held(levels, r.unit, BetterThan(levels, r.side, p)) \in Nat
        /\ Held(levels, r.unit, AsGoodAs(levels, r.side, p)) \in Nat
    BY <1>2, HeldTyped
  <2> HIDE DEF D, target
  <2>10. /\ ~(Held(levels, r.unit, BetterThan(levels, r.side, p)) >= target)
         /\ Held(levels, r.unit, AsGoodAs(levels, r.side, p)) >= target
    BY <1>4, <2>4, <2>5, <2>6, <2>7, <2>8, <2>9
  <2> QED BY <2>10 DEF PriceMeets, target, levels
<1>8. CASE enough = {}
  <2>1. p = levels[1].price /\ levels # <<>> /\ r.type # "FOK"
    BY <1>5, <1>8
  <2>2. n >= 1 /\ 1 \in DOMAIN levels /\ 1 \in 1 .. n + 1
    <3>1. n # 0
      BY <1>2, <2>1 DEF n, Levels
    <3> QED BY <1>2, <3>1
  <2>3. D(1) < target /\ D(1) \in Nat
    <3>1. D(1) \in Nat
      BY <1>2, <2>2, DepthTyped DEF n
    <3>2. ~(D(1) >= target)
      BY <1>8, <2>2
    <3> QED BY <1>4, <3>1, <3>2
  <2>4. Held(levels, r.unit, BetterThan(levels, r.side, p)) <= D(1)
    <3>1. \A k \in DOMAIN levels : k \in BetterThan(levels, r.side, p) => k >= 1
      BY <1>2
    <3> QED BY <1>2, <2>2, <3>1, HeldWithin DEF n
  <2>5. AsGoodAs(levels, r.side, p) = DOMAIN levels
    <3>1. \A k \in DOMAIN levels : k \in AsGoodAs(levels, r.side, p)
      BY <1>2, <1>6, <2>1, <2>2
    <3>2. AsGoodAs(levels, r.side, p) \subseteq DOMAIN levels
      BY DEF AsGoodAs, BetterThan
    <3> QED BY <3>1, <3>2
  <2>6. Held(levels, r.unit, BetterThan(levels, r.side, p)) \in Nat
    BY <1>2, HeldTyped
  <2> HIDE DEF D, target
  <2>7. ~(Held(levels, r.unit, BetterThan(levels, r.side, p)) >= target)
    BY <1>4, <2>3, <2>4, <2>6
  <2> QED BY <2>1, <2>5, <2>7 DEF PriceMeets, target, levels
<1> QED BY <1>7, <1>8 DEF levels

-----------------------------------------------------------------------------
(* The inductive invariant: what a request under way has found out, and    *)
(* what an order that is built says.                                       *)

Requests == LimitRequests \cup MarketRequests
AnyTick == Ticks \cup {NoTick}

Underway ==
    [at : {"booking", "pricing", "arriving", "sizing"}, request : Requests, price : Nat,
     tick : AnyTick, levels : Levels, quoted : AnyTick]

UnderwaySound(o) ==
    /\ o \in Underway
    /\ o.at = "booking" => o.request.kind = "market"
    /\ o.at \in {"arriving", "sizing"} => o.tick \in Ticks
    /\ o.request.kind = "limit" => o.price = o.request.price /\ o.levels = <<>>
    /\ o.levels # <<>> =>
          /\ o.quoted \in Ticks
          /\ OnGrid(o.price, o.quoted)
          /\ o.request.amount > 0 => PriceMeets(o.levels, o.request, o.price)

Affords(o) ==
    LET whole == o.request.balance * FeeWhole(o.fee, o.price)
        slack == Slack(o.fee, o.price)
    IN  /\ Cost(o.maker, o.fee, o.price) <= whole + slack
        /\ o.maker <= o.request.amount
        /\ \/ o.maker = o.request.amount
           \/ Cost(o.maker + 1, o.fee, o.price) > whole - slack

BuiltSound(o) ==
    /\ o.at = "built"
    /\ AmountsMean(o)
    /\ o.request.kind = "limit" => Shares(o) = o.request.size /\ o.price = o.request.price
    /\ (o.levels # <<>> /\ o.request.amount > 0) =>
          \E found \in CutFrom(o) : PriceMeets(o.levels, o.request, found)
    /\ Shrinks(o.request) => Affords(o)

OrdersInv ==
    /\ tick_size \in Ticks
    /\ tick_cached \subseteq Ticks
    /\ \/ order = NoOrder
       \/ order = [at |-> "panicked"]
       \/ UnderwaySound(order)
       \/ BuiltSound(order)

LEMMA RequestKinds ==
  /\ \A r \in Requests : r.kind = "limit" => r \in LimitRequests
  /\ \A r \in Requests : r.kind = "market" => r \in MarketRequests
  /\ \A r \in Requests : r.kind \in {"limit", "market"} /\ r.price \in Nat
BY BuildingAssumption DEF Requests, LimitSound, MarketSound

LEMMA UnderwayHere ==
  ASSUME OrdersInv, order.at \in {"booking", "pricing", "arriving", "sizing"}
  PROVE  UnderwaySound(order)
<1>1. order # NoOrder /\ order # [at |-> "panicked"]
  BY DEF NoOrder
<1>2. ~BuiltSound(order)
  BY DEF BuiltSound
<1> QED BY <1>1, <1>2 DEF OrdersInv

(* A price on the grid of a tick size is written with its decimals.        *)
LEMMA GridPrices ==
  ASSUME NEW t \in Ticks, NEW p \in Nat, OnGrid(p, t)
  PROVE  /\ p \in Positive /\ PriceOne - p \in Positive
         /\ p % t.grain = 0
         /\ Trunc(p, t.grain) = p
<1>1. t.size \in Positive /\ t.grain \in Positive /\ t.size % t.grain = 0 /\ PriceOne \in Positive
  BY BuildingAssumption DEF TickSound
<1>2. p \in Positive /\ PriceOne - p \in Positive
  BY <1>1 DEF OnGrid, Positive
<1>3. p % t.grain = 0
  BY <1>1, MultipleOfMultiple DEF OnGrid
<1>4. Trunc(p, t.grain) = p
  BY <1>1, <1>3, TruncBounds
<1> QED BY <1>2, <1>3, <1>4

LEMMA WorthSomething ==
  ASSUME NEW s \in Positive, NEW p \in Positive, NEW d \in Nat, d * PriceOne = s * p
  PROVE  d > 0
<1>1. PriceOne \in Nat
  BY BuildingAssumption DEF Positive
<1>2. s * p > 0
  BY DEF Positive
<1>3. d # 0
  BY <1>1, <1>2
<1> QED BY <1>3

-----------------------------------------------------------------------------
(* Every step keeps it.                                                    *)

LEMMA BeginKeeps ==
  ASSUME OrdersInv, Begin PROVE OrdersInv'
<1>1. PICK r \in Requests :
         order' = [at |-> IF r.kind = "limit" \/ r.price > 0 THEN "pricing" ELSE "booking",
                   request |-> r, price |-> r.price, tick |-> NoTick,
                   levels |-> <<>>, quoted |-> NoTick]
  BY DEF Begin, Requests
<1>2. r.kind \in {"limit", "market"} /\ r.price \in Nat
  BY RequestKinds
<1>3. <<>> \in Levels /\ NoTick \in AnyTick
  BY DEF Levels, AnyTick
<1>4. order' \in Underway
  <2>1. (IF r.kind = "limit" \/ r.price > 0 THEN "pricing" ELSE "booking")
           \in {"booking", "pricing", "arriving", "sizing"}
    OBVIOUS
  <2> QED BY <1>1, <1>2, <1>3, <2>1 DEF Underway
<1>5. UnderwaySound(order')
  BY <1>1, <1>2, <1>4 DEF UnderwaySound
<1> QED BY <1>5 DEF OrdersInv, Begin

LEMMA ReadBookKeeps ==
  ASSUME OrdersInv, ReadBook PROVE OrdersInv'
<1>1. UnderwaySound(order) /\ order.at = "booking"
  BY UnderwayHere DEF ReadBook
<1>2. PICK book \in Books :
         LET r == order.request
             levels == Opposite(book, r.side)
         IN  /\ \A i \in DOMAIN levels : OnGrid(levels[i].price, tick_size)
             /\ \/ \E p \in Cutoff(levels, r) :
                      order' = [order EXCEPT !.at = "pricing", !.price = p,
                                  !.levels = levels, !.quoted = tick_size]
                \/ Clear
  BY DEF ReadBook
<1>3. CASE Clear
  BY <1>3 DEF OrdersInv, ReadBook, Clear
<1>4. CASE ~Clear
  <2> DEFINE r == order.request
             levels == Opposite(book, r.side)
  <2>1. PICK p \in Cutoff(levels, r) :
           order' = [order EXCEPT !.at = "pricing", !.price = p,
                       !.levels = levels, !.quoted = tick_size]
    BY <1>2, <1>4
  <2>2. order \in Underway /\ r \in Requests /\ r.kind = "market"
    BY <1>1 DEF UnderwaySound, Underway
  <2>3. r \in MarketRequests /\ r.side \in {"Buy", "Sell"}
    BY <2>2, RequestKinds, BuildingAssumption DEF MarketSound
  <2>4. levels \in Levels
    BY <2>3, WorstFirst
  <2>5. \E i \in DOMAIN levels : p = levels[i].price
    <3> DEFINE enough == {i \in DOMAIN levels : Depth(levels, r.unit, i) >= r.amount * PriceOne}
               best == CHOOSE i \in enough : \A j \in enough : j <= i
    <3>1. p \in IF enough # {} THEN {levels[best].price}
                ELSE IF levels = <<>> \/ r.type = "FOK" THEN {} ELSE {levels[1].price}
      BY <2>1 DEF Cutoff
    <3> HIDE DEF levels
    <3>2. DOMAIN levels = 1 .. Len(levels) /\ Len(levels) \in Nat
      BY <2>4, LevelsTyped
    <3>3. CASE enough # {}
      <4>1. enough \in SUBSET (1 .. Len(levels))
        BY <3>2
      <4>2. best \in enough
        <5> HIDE DEF enough
        <5>1. \E k \in enough : \A j \in enough : j <= k
          BY <3>2, <3>3, <4>1, Greatest
        <5> QED BY <5>1
      <4> HIDE DEF best
      <4> QED BY <3>1, <3>3, <4>2
    <3>4. CASE enough = {}
      <4>1. p = levels[1].price /\ levels # <<>>
        BY <3>1, <3>4
      <4>2. Len(levels) # 0
        BY <2>4, <4>1 DEF Levels
      <4> QED BY <3>2, <4>1, <4>2
    <3> QED BY <3>3, <3>4
  <2>6. p \in Nat /\ OnGrid(p, tick_size)
    BY <1>2, <2>4, <2>5, LevelsTyped
  <2>7. r.amount > 0 => PriceMeets(levels, r, p)
    BY <2>3, CutoffMeets
  <2>8. tick_size \in Ticks
    BY DEF OrdersInv
  <2> HIDE DEF levels
  <2>9. order' \in Underway /\ order'.at = "pricing" /\ order'.request = r
        /\ order'.price = p /\ order'.levels = levels /\ order'.quoted = tick_size
    BY <2>1, <2>2, <2>4, <2>6, <2>8 DEF Underway, AnyTick
  <2>10. UnderwaySound(order')
    BY <2>2, <2>6, <2>7, <2>8, <2>9 DEF UnderwaySound
  <2> QED BY <2>10 DEF OrdersInv, ReadBook
<1> QED BY <1>3, <1>4

(* The tick size: a hit, an answer, its arrival in the cache.              *)
LEMMA TickKeeps ==
  ASSUME OrdersInv, TickHit \/ TickAnswered \/ TickArrives PROVE OrdersInv'
<1>1. UnderwaySound(order)
  BY UnderwayHere DEF TickHit, TickAnswered, TickArrives
<1>2. order \in Underway /\ tick_size \in Ticks /\ tick_cached \subseteq Ticks
  BY <1>1 DEF UnderwaySound, OrdersInv
<1>3. ASSUME NEW tick \in Ticks, NEW place \in {"arriving", "sizing"},
             order' = [order EXCEPT !.at = place, !.tick = tick]
      PROVE  UnderwaySound(order')
  <2>1. order' \in Underway /\ order'.at = place /\ order'.tick = tick
        /\ order'.request = order.request /\ order'.price = order.price
        /\ order'.levels = order.levels /\ order'.quoted = order.quoted
    BY <1>2, <1>3 DEF Underway, AnyTick
  <2> QED BY <1>1, <2>1 DEF UnderwaySound
<1>4. CASE TickHit
  <2>1. PICK tick \in tick_cached : order' = [order EXCEPT !.at = "sizing", !.tick = tick]
    BY <1>4 DEF TickHit
  <2>2. UnderwaySound(order')
    BY <1>2, <1>3, <2>1
  <2> QED BY <1>2, <1>4, <2>2 DEF OrdersInv, TickHit
<1>5. CASE TickAnswered
  <2>1. UnderwaySound(order')
    BY <1>2, <1>3, <1>5 DEF TickAnswered
  <2> QED BY <1>2, <1>5, <2>1 DEF OrdersInv, TickAnswered
<1>6. CASE TickArrives
  <2>1. order.tick \in Ticks
    BY <1>1, <1>6 DEF UnderwaySound, TickArrives
  <2>2. order' = [order EXCEPT !.at = "sizing", !.tick = order.tick]
    <3>1. order' = [order EXCEPT !.at = "sizing"]
      BY <1>6 DEF TickArrives
    <3> QED BY <1>2, <3>1 DEF Underway
  <2>3. UnderwaySound(order')
    BY <1>3, <2>1, <2>2
  <2> QED BY <1>2, <1>6, <2>1, <2>3 DEF OrdersInv, TickArrives
<1> QED BY <1>4, <1>5, <1>6

LEMMA BuildLimitKeeps ==
  ASSUME OrdersInv, BuildLimit PROVE OrdersInv'
<1> DEFINE r == order.request
           t == order.tick
           usdc == Times(r.size, r.price, t)
<1>1. UnderwaySound(order) /\ order.at = "sizing" /\ r.kind = "limit"
  BY UnderwayHere DEF BuildLimit
<1>2. r \in LimitRequests /\ t \in Ticks /\ order.price = r.price /\ order.levels = <<>>
  BY <1>1, RequestKinds DEF UnderwaySound, Underway
<1>3. tick_size' = tick_size /\ tick_cached' = tick_cached
  BY DEF BuildLimit
<1>4. CASE ~LimitAccepts(r, t)
  BY <1>3, <1>4 DEF OrdersInv, BuildLimit, Clear
<1>5. CASE LimitAccepts(r, t)
  <2>1. /\ r.price \in Nat /\ r.size \in Int /\ r.sizeGrain \in Positive
        /\ r.size % r.sizeGrain = 0 /\ LotGrain \in Positive
        /\ r.side \in {"Buy", "Sell"}
    BY <1>2, BuildingAssumption DEF LimitSound
  <2>2. /\ OnGrid(r.price, t) /\ r.sizeGrain % LotGrain = 0 /\ r.size > 0
    BY <1>5 DEF LimitAccepts
  <2>3. r.size \in Positive /\ r.size \in Nat
    BY <2>1, <2>2 DEF Positive
  <2>4. r.size % LotGrain = 0
    BY <2>1, <2>2, MultipleOfMultiple
  <2>5. r.price \in Positive /\ r.price % t.grain = 0
    BY <1>2, <2>1, <2>2, GridPrices
  <2>6. usdc \in Nat /\ usdc * PriceOne = r.size * r.price
    BY <1>2, <2>1, <2>3, <2>4, <2>5, TimesExact
  <2>7. usdc > 0
    BY <2>3, <2>5, <2>6, WorthSomething
  <2> HIDE DEF usdc
  <2>8. order' = [at |-> "built", request |-> r, price |-> r.price, tick |-> t,
                  levels |-> <<>>, quoted |-> order.quoted, fee |-> NoFee,
                  maker |-> IF r.side = "Buy" THEN usdc ELSE r.size,
                  taker |-> IF r.side = "Buy" THEN r.size ELSE usdc]
    BY <1>2, <1>5 DEF BuildLimit, Sized, usdc
  <2>9. /\ order'.at = "built" /\ order'.request = r /\ order'.price = r.price
        /\ order'.levels = <<>>
        /\ Shares(order') = r.size /\ Dollars(order') = usdc
    BY <2>8 DEF Shares, Dollars
  <2>10. AmountsMean(order')
    BY <1>1, <2>6, <2>7, <2>9 DEF AmountsMean
  <2>11. ~Shrinks(order'.request)
    BY <1>1, <2>9 DEF Shrinks
  <2>12. BuiltSound(order')
    BY <2>9, <2>10, <2>11 DEF BuiltSound
  <2> QED BY <1>3, <2>12 DEF OrdersInv
<1> QED BY <1>4, <1>5

(* What a market order says when its amount and its price are settled.     *)
LEMMA MarketBuilt ==
  ASSUME NEW o, NEW r \in MarketRequests, NEW t \in Ticks, NEW p \in Nat, OnGrid(p, t),
         NEW amount \in Nat, amount > 0 \/ ~Shrinks(r),
         r.unit = "shares" => amount = r.amount,
         o.request = r, o.price = p,
         \/ r.side = "Buy" /\ r.unit = "usdc" /\ o.maker = amount /\ o.taker = Over(amount, p, t)
         \/ /\ r.unit = "shares" /\ r.side = "Buy"
            /\ o.maker = Times(amount, p, t) /\ o.taker = amount
         \/ /\ r.unit = "shares" /\ r.side = "Sell"
            /\ o.maker = amount /\ o.taker = Times(amount, p, t)
  PROVE  AmountsMean(o)
<1>1. r.kind = "market" /\ (r.unit = "shares" => amount % LotGrain = 0)
  BY BuildingAssumption DEF MarketSound
<1>2. p \in Positive /\ p % t.grain = 0
  BY GridPrices
<1>3. CASE r.unit = "usdc"
  <2>1. Dollars(o) = amount /\ Shares(o) = Over(amount, p, t) /\ r.side = "Buy"
    BY <1>3 DEF Dollars, Shares
  <2>2. amount * PriceOne >= Over(amount, p, t) * p
    BY <1>2, OverBounds
  <2> QED BY <1>1, <1>3, <2>1, <2>2 DEF AmountsMean
<1>4. CASE r.unit = "shares"
  <2>1. Dollars(o) = Times(amount, p, t) /\ Shares(o) = amount
    BY <1>4 DEF Dollars, Shares
  <2>2. Times(amount, p, t) \in Nat /\ Times(amount, p, t) * PriceOne = amount * p
    BY <1>1, <1>2, <1>4, TimesExact
  <2>3. amount > 0 => Times(amount, p, t) > 0
    <3> SUFFICES ASSUME amount > 0 PROVE Times(amount, p, t) > 0
      OBVIOUS
    <3>1. amount \in Positive
      BY DEF Positive
    <3> QED BY <1>2, <2>2, <3>1, WorthSomething
  <2> QED BY <1>4, <2>1, <2>2, <2>3 DEF AmountsMean
<1> QED BY <1>3, <1>4

LEMMA BuildMarketKeeps ==
  ASSUME OrdersInv, BuildMarket PROVE OrdersInv'
<1> DEFINE r == order.request
           t == order.tick
           p == Trunc(order.price, t.grain)
<1>1. UnderwaySound(order) /\ order.at = "sizing" /\ r.kind = "market"
  BY UnderwayHere DEF BuildMarket
<1>2. r \in MarketRequests /\ t \in Ticks /\ order.price \in Nat
  BY <1>1, RequestKinds DEF UnderwaySound, Underway
<1>3. tick_size' = tick_size /\ tick_cached' = tick_cached
  BY DEF BuildMarket
<1>4. r.amount \in Int /\ r.unit \in {"usdc", "shares"} /\ r.side \in {"Buy", "Sell"}
  BY <1>2, BuildingAssumption DEF MarketSound
<1>5. p \in Nat
  BY <1>2, BuildingAssumption, TruncBounds DEF TickSound
<1> HIDE DEF p
<1>6. CASE Clear \/ order' = [at |-> "panicked"]
  BY <1>3, <1>6 DEF OrdersInv, Clear
<1>7. CASE ~(Clear \/ order' = [at |-> "panicked"])
  <2>a. PICK fee \in Fees :
           \E amount \in IF Shrinks(r) THEN Adjusted(r, fee, p) ELSE {r.amount} :
             /\ OnGrid(p, t) /\ ~(Shrinks(r) /\ amount = 0) /\ ~(amount < 0)
             /\ \/ r.unit = "usdc" /\ r.side = "Buy" /\ Sized(amount, Over(amount, p, t), p, fee)
                \/ r.unit = "shares" /\ r.side = "Buy" /\ Sized(Times(amount, p, t), amount, p, fee)
                \/ r.unit = "shares" /\ r.side = "Sell" /\ Sized(amount, Times(amount, p, t), p, fee)
    BY <1>4, <1>7 DEF BuildMarket, p
  <2>0. PICK amount \in IF Shrinks(r) THEN Adjusted(r, fee, p) ELSE {r.amount} :
           /\ OnGrid(p, t) /\ ~(Shrinks(r) /\ amount = 0) /\ ~(amount < 0)
           /\ \/ r.unit = "usdc" /\ r.side = "Buy" /\ Sized(amount, Over(amount, p, t), p, fee)
              \/ r.unit = "shares" /\ r.side = "Buy" /\ Sized(Times(amount, p, t), amount, p, fee)
              \/ r.unit = "shares" /\ r.side = "Sell" /\ Sized(amount, Times(amount, p, t), p, fee)
    BY <2>a
  <2>1. /\ OnGrid(p, t) /\ ~(Shrinks(r) /\ amount = 0) /\ ~(amount < 0)
        /\ \/ r.unit = "usdc" /\ r.side = "Buy" /\ Sized(amount, Over(amount, p, t), p, fee)
           \/ r.unit = "shares" /\ r.side = "Buy" /\ Sized(Times(amount, p, t), amount, p, fee)
           \/ r.unit = "shares" /\ r.side = "Sell" /\ Sized(amount, Times(amount, p, t), p, fee)
    BY <2>0
  <2>2. p \in Positive /\ PriceOne - p \in Positive
    BY <1>2, <1>5, <2>1, GridPrices
  <2>3. /\ amount \in Nat /\ (amount > 0 \/ ~Shrinks(r))
        /\ r.unit = "shares" => amount = r.amount
        /\ Shrinks(r) =>
              LET whole == r.balance * FeeWhole(fee, p)
                  slack == Slack(fee, p)
              IN  /\ Cost(amount, fee, p) <= whole + slack /\ amount <= r.amount
                  /\ amount = r.amount \/ Cost(amount + 1, fee, p) > whole - slack
    <3>1. CASE Shrinks(r)
      <4>1. amount \in Adjusted(r, fee, p) /\ r.unit = "usdc"
        BY <2>0, <3>1 DEF Shrinks
      <4>2. amount > 0
        BY <1>2, <2>1, <2>2, <3>1, <4>1, AdjustedTyped
      <4> QED BY <1>2, <2>2, <3>1, <4>1, <4>2, AdjustedSound
    <3>2. CASE ~Shrinks(r)
      BY <1>4, <2>0, <2>1, <3>2
    <3> QED BY <3>1, <3>2
  <2>4. PICK maker, taker :
           /\ \/ r.side = "Buy" /\ r.unit = "usdc" /\ maker = amount /\ taker = Over(amount, p, t)
              \/ /\ r.unit = "shares" /\ r.side = "Buy"
                 /\ maker = Times(amount, p, t) /\ taker = amount
              \/ /\ r.unit = "shares" /\ r.side = "Sell"
                 /\ maker = amount /\ taker = Times(amount, p, t)
           /\ Sized(maker, taker, p, fee)
    BY <2>1, Zenon
  <2>5. /\ order'.at = "built" /\ order'.request = r /\ order'.price = p /\ order'.tick = t
        /\ order'.levels = order.levels /\ order'.quoted = order.quoted /\ order'.fee = fee
        /\ order'.maker = maker /\ order'.taker = taker
    BY <2>4 DEF Sized
  <2>6. AmountsMean(order')
    BY <1>2, <1>5, <2>1, <2>3, <2>4, <2>5, MarketBuilt
  <2>7. Shrinks(r) => maker = amount
    BY <2>4 DEF Shrinks
  <2>8. Shrinks(r) => Affords(order')
    BY <2>3, <2>5, <2>7 DEF Affords
  <2>9. (order.levels # <<>> /\ r.amount > 0) =>
           \E found \in CutFrom(order') : PriceMeets(order.levels, r, found)
    <3> SUFFICES ASSUME order.levels # <<>>, r.amount > 0
                 PROVE  /\ order.price \in CutFrom(order')
                        /\ PriceMeets(order.levels, r, order.price)
      BY Zenon
    <3>1. /\ order.quoted \in Ticks /\ OnGrid(order.price, order.quoted)
          /\ PriceMeets(order.levels, r, order.price)
      BY <1>1 DEF UnderwaySound
    <3>2. t.grain \in Positive /\ order.quoted.grain \in Positive
      BY <1>2, <3>1, BuildingAssumption DEF TickSound
    <3>3. p <= order.price /\ order.price <= p + t.grain - 1
      BY <1>2, <3>2, TruncBounds DEF p
    <3>4. order.quoted.grain % t.grain = 0 => order.price = p
      <4> SUFFICES ASSUME order.quoted.grain % t.grain = 0 PROVE order.price = p
        OBVIOUS
      <4>1. order.price % order.quoted.grain = 0
        BY <1>2, <3>1, GridPrices
      <4>2. order.price % t.grain = 0
        BY <1>2, <3>2, <4>1, MultipleOfMultiple
      <4> QED BY <1>2, <3>2, <4>2, TruncBounds DEF p
    <3>5. order.price \in p .. p + t.grain - 1
      BY <1>2, <1>5, <3>2, <3>3 DEF Positive
    <3> QED BY <2>5, <3>1, <3>4, <3>5 DEF CutFrom
  <2>10. BuiltSound(order')
    BY <1>1, <2>5, <2>6, <2>8, <2>9 DEF BuiltSound
  <2> QED BY <1>3, <2>10 DEF OrdersInv
<1> QED BY <1>6, <1>7

(* The inductive invariant: the price found in the book meets the amount,  *)
(* and what is signed means that price, or that price cut off at the tick  *)
(* size used, and stays within the balance up to the slack of its fees.    *)
THEOREM OrdersInductive == OrdersSpec => []OrdersInv
<1>1. OrdersInit => OrdersInv
  BY DEF OrdersInit, OrdersInv
<1>2. OrdersInv /\ [OrdersNext]_ordervars => OrdersInv'
  <2> SUFFICES ASSUME OrdersInv, [OrdersNext]_ordervars PROVE OrdersInv'
    OBVIOUS
  <2>1. CASE Begin
    BY <2>1, BeginKeeps
  <2>2. CASE ReadBook
    BY <2>2, ReadBookKeeps
  <2>3. CASE TickHit \/ TickAnswered \/ TickArrives
    BY <2>3, TickKeeps
  <2>4. CASE BuildLimit
    BY <2>4, BuildLimitKeeps
  <2>5. CASE BuildMarket
    BY <2>5, BuildMarketKeeps
  <2>6. CASE BuildFails \/ HandOver
    BY <2>6 DEF OrdersInv, BuildFails, HandOver, Clear
  <2>7. CASE Invalidate \/ Retick
    <3>1. order' = order /\ tick_size' \in Ticks /\ tick_cached' \subseteq Ticks
      BY <2>7 DEF OrdersInv, Invalidate, Retick
    <3> QED BY <3>1 DEF OrdersInv
  <2>8. CASE UNCHANGED ordervars
    BY <2>8 DEF OrdersInv, ordervars
  <2> QED BY <2>1, <2>2, <2>3, <2>4, <2>5, <2>6, <2>7, <2>8 DEF OrdersNext
<1> QED BY <1>1, <1>2, PTL DEF OrdersSpec

(* The levels a property speaks of by their price are those that are held. *)
LEMMA HoldTargetIsHeld ==
  ASSUME NEW o, NEW side, NEW p
  PROVE  LET Better(q) == IF side = "Buy" THEN q < p ELSE q > p
             AsGood(q) == q = p \/ Better(q)
         IN  /\ HoldTarget(o, Better) <=>
                   Held(o.levels, o.request.unit, BetterThan(o.levels, side, p))
                       >= o.request.amount * PriceOne
             /\ HoldTarget(o, AsGood) <=>
                   Held(o.levels, o.request.unit, AsGoodAs(o.levels, side, p))
                       >= o.request.amount * PriceOne
<1> DEFINE Better(q) == IF side = "Buy" THEN q < p ELSE q > p
           AsGood(q) == q = p \/ Better(q)
           worth(i) == Worth(o.levels[i], o.request.unit)
<1>1. [i \in DOMAIN o.levels |-> IF Better(o.levels[i].price) THEN worth(i) ELSE 0]
      = [i \in DOMAIN o.levels |-> IF i \in BetterThan(o.levels, side, p) THEN worth(i) ELSE 0]
  BY DEF BetterThan
<1>2. [i \in DOMAIN o.levels |-> IF AsGood(o.levels[i].price) THEN worth(i) ELSE 0]
      = [i \in DOMAIN o.levels |-> IF i \in AsGoodAs(o.levels, side, p) THEN worth(i) ELSE 0]
  BY DEF AsGoodAs, BetterThan
<1> QED BY <1>1, <1>2 DEF HoldTarget, Held

(* A signed order says what was asked: a limit order its own size at its   *)
(* own price, a market order the worst price its amount needs, cut off by  *)
(* less than a step when the tick size has changed.                        *)
THEOREM OrdersSayWhatWasAsked == OrdersSpec => []OrdersMeetTheirPrice
<1>1. OrdersInv => OrdersMeetTheirPrice
  <2> SUFFICES ASSUME OrdersInv, order.at = "built" PROVE OrdersMeetTheirPrice
    BY DEF OrdersMeetTheirPrice
  <2>1. BuiltSound(order)
    BY DEF OrdersInv, UnderwaySound, Underway, NoOrder
  <2>2. ASSUME NEW found \in CutFrom(order), PriceMeets(order.levels, order.request, found)
        PROVE  LET Better(q) == IF order.request.side = "Buy" THEN q < found ELSE q > found
                   AsGood(q) == q = found \/ Better(q)
               IN  /\ ~HoldTarget(order, Better)
                   /\ \/ HoldTarget(order, AsGood)
                      \/ /\ \A i \in DOMAIN order.levels : AsGood(order.levels[i].price)
                         /\ order.request.type # "FOK"
    <3> DEFINE Better(q) == IF order.request.side = "Buy" THEN q < found ELSE q > found
               AsGood(q) == q = found \/ Better(q)
               Target == order.request.amount * PriceOne
               B == Held(order.levels, order.request.unit,
                         BetterThan(order.levels, order.request.side, found))
               G == Held(order.levels, order.request.unit,
                         AsGoodAs(order.levels, order.request.side, found))
    <3>1. (HoldTarget(order, Better) <=> B >= Target) /\ (HoldTarget(order, AsGood) <=> G >= Target)
      BY HoldTargetIsHeld
    <3>2. ~(B >= Target) /\ (G >= Target \/ (/\ AsGoodAs(order.levels, order.request.side, found)
                                                = DOMAIN order.levels
                                         /\ order.request.type # "FOK"))
      BY <2>2 DEF PriceMeets
    <3>3. AsGoodAs(order.levels, order.request.side, found) = DOMAIN order.levels
             => \A i \in DOMAIN order.levels : AsGood(order.levels[i].price)
      BY DEF AsGoodAs, BetterThan
    <3> QED BY <3>1, <3>2, <3>3
  <2>3. (order.levels # <<>> /\ order.request.amount > 0) =>
           \E found \in CutFrom(order) : PriceMeets(order.levels, order.request, found)
    BY <2>1 DEF BuiltSound
  <2> QED BY <2>1, <2>2, <2>3 DEF BuiltSound, OrdersMeetTheirPrice
<1> QED BY <1>1, OrdersInductive, PTL

(* A purchase with a balance spends as much of it as its fees leave, and   *)
(* no more: to the last unit, except where the balance is within the slack *)
(* of the fees of a boundary.                                              *)
THEOREM PurchasesStayWithinBalance == OrdersSpec => []WithinBalance
<1>1. OrdersInv => WithinBalance
  <2> SUFFICES ASSUME OrdersInv, order.at = "built" PROVE WithinBalance
    BY DEF WithinBalance
  <2>1. BuiltSound(order)
    BY DEF OrdersInv, UnderwaySound, Underway, NoOrder
  <2> QED BY <2>1 DEF BuiltSound, WithinBalance, Affords
<1> QED BY <1>1, OrdersInductive, PTL

=============================================================================
