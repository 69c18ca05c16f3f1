----------------------------- MODULE DecimalProofs -----------------------------
(***************************************************************************)
(* Decimal arithmetic, for any radix, words and buffers of any length and  *)
(* any literals.                                                           *)
(***************************************************************************)
EXTENDS Decimal, SequenceTheorems, FiniteSetTheorems, WellFoundedInduction, TLAPS

-----------------------------------------------------------------------------
(* Induction over the natural numbers, for a set of them.                  *)
LEMMA SetInduction ==
  ASSUME NEW S, 0 \in S, \A n \in Nat : n \in S => n + 1 \in S
  PROVE  \A n \in Nat : n \in S
<1> SUFFICES ASSUME NEW n \in Nat, n \notin S PROVE FALSE
  OBVIOUS
<1> DEFINE T == Nat \ S
           R == OpToRel(<, Nat)
<1>1. IsWellFoundedOn(R, Nat)
  BY NatLessThanWellFounded
<1>2. \A a \in Nat, b \in Nat : a < b => <<a, b>> \in R
  BY DEF OpToRel
<1> HIDE DEF R
<1>3. T \subseteq Nat /\ T # {}
  OBVIOUS
<1>4. PICK k \in T : \A l \in T : ~ (<<l, k>> \in R)
  <2> HIDE DEF T
  <2> QED BY <1>1, <1>3, WFMin
<1>5. k # 0
  OBVIOUS
<1>a. k \in Nat
  OBVIOUS
<1>b. k - 1 \in Nat /\ k - 1 < k
  BY <1>a, <1>5
<1>c. <<k - 1, k>> \in R
  BY <1>a, <1>b, <1>2
<1>6. k - 1 \in Nat /\ k - 1 \notin T
  <2> HIDE DEF T
  <2> QED BY <1>b, <1>c, <1>4
<1>7. k - 1 \in S
  BY <1>6
<1>8. k \in S
  <2>1. (k - 1) + 1 = k
    BY <1>a
  <2> QED BY <1>6, <1>7, <2>1
<1> QED
  BY <1>8

(* A value from each value before: there is such a function.               *)
Follows(r, c, G, S) ==
    r \in [Nat -> S] /\ r[0] = c /\ \A k \in Nat : r[k + 1] = G[k][r[k]]

LEMMA Recursion ==
    ASSUME NEW S, NEW c \in S, NEW G \in [Nat -> [S -> S]]
    PROVE  \E r : Follows(r, c, G, S)
<1> DEFINE Upto(f, n) == /\ f \in [0 .. n -> S]
                         /\ f[0] = c
                         /\ \A k \in 0 .. n - 1 : f[k + 1] = G[k][f[k]]
           N == {n \in Nat : \E f : Upto(f, n)}
<1>1. 0 \in N
  <2>1. PICK f : f = [k \in 0 .. 0 |-> c]
    OBVIOUS
  <2>2. Upto(f, 0)
    BY <2>1
  <2> QED
    BY <2>2
<1>2. ASSUME NEW n \in Nat, n \in N
      PROVE  n + 1 \in N
  <2>1. PICK f : Upto(f, n)
    BY <1>2
  <2>2. PICK g : g = [k \in 0 .. n + 1 |-> IF k = n + 1 THEN G[n][f[n]] ELSE f[k]]
    OBVIOUS
  <2>3. f[n] \in S /\ G[n][f[n]] \in S
    BY <2>1
  <2>4. g \in [0 .. n + 1 -> S]
    BY <2>1, <2>2, <2>3
  <2>5. g[0] = c
    BY <2>1, <2>2
  <2>6. ASSUME NEW k \in 0 .. (n + 1) - 1
        PROVE  g[k + 1] = G[k][g[k]]
    <3>1. CASE k = n
      <4>1. k + 1 = n + 1 /\ k # n + 1 /\ k + 1 \in 0 .. n + 1
        BY <3>1
      <4>2. g[k + 1] = G[n][f[n]] /\ g[k] = f[k]
        BY <2>2, <4>1
      <4> QED
        BY <3>1, <4>2
    <3>2. CASE k # n
      <4>1. k \in 0 .. n - 1 /\ k + 1 # n + 1 /\ k # n + 1 /\ k + 1 \in 0 .. n + 1
        BY <3>2
      <4>2. g[k + 1] = f[k + 1] /\ g[k] = f[k]
        BY <2>2, <4>1
      <4> QED
        BY <2>1, <4>1, <4>2
    <3> QED
      BY <3>1, <3>2
  <2>7. Upto(g, n + 1)
    BY <2>4, <2>5, <2>6
  <2> HIDE DEF Upto
  <2> QED
    BY <2>7
<1>3. \A n \in Nat : \E f : Upto(f, n)
  <2> HIDE DEF N
  <2>1. \A n \in Nat : n \in N
    BY <1>1, <1>2, SetInduction
  <2> HIDE DEF Upto
  <2> QED
    BY <2>1 DEF N
<1>4. ASSUME NEW m \in Nat, NEW n \in Nat, NEW f, NEW g, Upto(f, m), Upto(g, n)
      PROVE  \A k \in Nat : k <= m /\ k <= n => f[k] = g[k]
  <2> DEFINE K == {k \in Nat : k <= m /\ k <= n => f[k] = g[k]}
  <2>1. 0 \in K
    BY <1>4
  <2>2. ASSUME NEW k \in Nat, k \in K
        PROVE  k + 1 \in K
    <3> SUFFICES ASSUME k + 1 <= m, k + 1 <= n
                 PROVE  f[k + 1] = g[k + 1]
      OBVIOUS
    <3>1. k \in 0 .. m - 1 /\ k \in 0 .. n - 1 /\ f[k] = g[k]
      BY <2>2
    <3> QED
      BY <1>4, <3>1
  <2> HIDE DEF K, Upto
  <2>3. \A k \in Nat : k \in K
    BY <2>1, <2>2, SetInduction
  <2> QED
    BY <2>3 DEF K
<1> DEFINE F(n) == CHOOSE f : Upto(f, n)
<1>5. \A n \in Nat : Upto(F(n), n)
  <2> HIDE DEF Upto
  <2> QED
    BY <1>3
<1>6. PICK r : r = [n \in Nat |-> F(n)[n]]
  OBVIOUS
<1> HIDE DEF F
<1>7. \A n \in Nat : r[n] = F(n)[n]
  BY <1>6
<1>8. \A n \in Nat : r[n] \in S
  <2> SUFFICES ASSUME NEW n \in Nat PROVE F(n)[n] \in S
    BY <1>7
  <2>1. F(n) \in [0 .. n -> S]
    BY <1>5
  <2> QED
    BY <2>1
<1>9. r[0] = c
  BY <1>5, <1>7
<1>10. ASSUME NEW k \in Nat
       PROVE  r[k + 1] = G[k][r[k]]
  <2>1. Upto(F(k), k) /\ Upto(F(k + 1), k + 1)
    BY <1>5
  <2>2. F(k)[k] = F(k + 1)[k]
    <3> HIDE DEF Upto
    <3> QED
      BY <1>4, <2>1
  <2>3. F(k + 1)[k + 1] = G[k][F(k + 1)[k]]
    BY <2>1
  <2>4. r[k] = F(k)[k] /\ r[k + 1] = F(k + 1)[k + 1]
    BY <1>7
  <2> QED
    BY <2>2, <2>3, <2>4
<1>11. r \in [Nat -> S]
  BY <1>6, <1>7, <1>8
<1> QED
  BY <1>9, <1>10, <1>11 DEF Follows

-----------------------------------------------------------------------------
(* Powers. *)

IsPower(p, b) == p = [k \in Nat |-> IF k = 0 THEN 1 ELSE p[k - 1] * b]

(* Each power is the one before times the base.                            *)
LEMMA Powers ==
    ASSUME NEW b \in Int
    PROVE  /\ Power(b, 0) = 1
           /\ \A n \in Nat : Power(b, n) \in Int /\ Power(b, n + 1) = Power(b, n) * b
<1>1. \E p : IsPower(p, b)
  <2>1. PICK G : G = [k \in Nat |-> [y \in Int |-> y * b]]
    OBVIOUS
  <2>2. G \in [Nat -> [Int -> Int]]
    <3>1. [y \in Int |-> y * b] \in [Int -> Int]
      OBVIOUS
    <3> QED
      BY <2>1, <3>1
  <2>3. PICK r : Follows(r, 1, G, Int)
    <3>1. 1 \in Int
      OBVIOUS
    <3> QED
      BY <2>2, <3>1, Recursion, Zenon
  <2>4. \A k \in Nat : r[k] \in Int /\ r[k + 1] = r[k] * b
    BY <2>1, <2>3 DEF Follows
  <2>5. \A k \in Nat : k # 0 => r[k] = r[k - 1] * b
    <3> SUFFICES ASSUME NEW k \in Nat, k # 0 PROVE r[k] = r[k - 1] * b
      OBVIOUS
    <3>1. k - 1 \in Nat /\ (k - 1) + 1 = k
      OBVIOUS
    <3> QED
      BY <2>4, <3>1
  <2>6. r = [k \in Nat |-> IF k = 0 THEN 1 ELSE r[k - 1] * b]
    BY <2>3, <2>5 DEF Follows
  <2> QED
    BY <2>6 DEF IsPower
<1> DEFINE p == CHOOSE f : IsPower(f, b)
<1>2. \A n : Power(b, n) = p[n]
  BY Zenon DEF Power, IsPower
<1>3. IsPower(p, b)
  BY <1>1
<1> HIDE DEF p
<1>4. p[0] = 1 /\ \A k \in Nat : k # 0 => p[k] = p[k - 1] * b
  BY <1>3 DEF IsPower
<1>5. \A k \in Nat : p[k + 1] = p[k] * b
  <2> SUFFICES ASSUME NEW k \in Nat PROVE p[k + 1] = p[k] * b
    OBVIOUS
  <2>1. k + 1 \in Nat /\ k + 1 # 0 /\ (k + 1) - 1 = k
    OBVIOUS
  <2> QED
    BY <1>4, <2>1
<1>6. \A k \in Nat : p[k] \in Int
  <2> DEFINE K == {k \in Nat : p[k] \in Int}
  <2>1. 0 \in K
    BY <1>4
  <2>2. \A k \in Nat : k \in K => k + 1 \in K
    BY <1>5
  <2> HIDE DEF K
  <2>3. \A k \in Nat : k \in K
    BY <2>1, <2>2, SetInduction
  <2> QED
    BY <2>3 DEF K
<1> QED
  BY <1>2, <1>4, <1>5, <1>6

(* The power of a sum; powers are positive, and grow.                      *)
LEMMA PowerSum ==
    ASSUME NEW b \in Int, NEW m \in Nat, NEW n \in Nat
    PROVE  Power(b, m + n) = Power(b, m) * Power(b, n)
<1> DEFINE K == {k \in Nat : Power(b, m + k) = Power(b, m) * Power(b, k)}
<1>1. 0 \in K
  BY Powers
<1>2. ASSUME NEW k \in Nat, k \in K
      PROVE  k + 1 \in K
  <2>1. PICK x \in Int, y \in Int : x = Power(b, m) /\ y = Power(b, k)
    BY Powers
  <2>2. Power(b, m + k) = x * y
    BY <1>2, <2>1
  <2>3. Power(b, m + (k + 1)) = Power(b, m + k) * b /\ Power(b, k + 1) = y * b
    <3>1. m + (k + 1) = (m + k) + 1 /\ m + k \in Nat
      OBVIOUS
    <3> QED
      BY <2>1, <3>1, Powers
  <2>4. (x * y) * b = x * (y * b)
    OBVIOUS
  <2> QED
    BY <2>1, <2>2, <2>3, <2>4
<1> HIDE DEF K
<1>3. \A k \in Nat : k \in K
  BY <1>1, <1>2, SetInduction
<1> QED
  BY <1>3 DEF K

LEMMA PowerPositive ==
    ASSUME NEW b \in Nat \ {0}, NEW n \in Nat
    PROVE  Power(b, n) \in Nat \ {0}
<1> DEFINE K == {k \in Nat : Power(b, k) \in Nat \ {0}}
<1>1. 0 \in K
  <2>1. Power(b, 0) = 1
    BY Powers
  <2> QED
    BY <2>1
<1>2. ASSUME NEW k \in Nat, k \in K
      PROVE  k + 1 \in K
  <2>1. PICK y \in Nat \ {0} : y = Power(b, k)
    BY <1>2
  <2>2. Power(b, k + 1) = y * b
    BY <2>1, Powers
  <2>3. y * b \in Nat \ {0}
    OBVIOUS
  <2> QED
    BY <2>2, <2>3
<1> HIDE DEF K
<1>3. \A k \in Nat : k \in K
  BY <1>1, <1>2, SetInduction
<1> QED
  BY <1>3 DEF K

LEMMA PowerMonotonic ==
    ASSUME NEW b \in Nat \ {0}, NEW m \in Nat, NEW n \in Nat, m <= n
    PROVE  Power(b, m) <= Power(b, n)
<1>1. PICK k \in Nat : n = m + k
  <2>1. n - m \in Nat /\ n = m + (n - m)
    OBVIOUS
  <2> QED
    BY <2>1
<1>2. PICK x \in Nat \ {0}, y \in Nat \ {0} : x = Power(b, m) /\ y = Power(b, k)
  BY PowerPositive
<1>3. Power(b, n) = x * y
  BY <1>1, <1>2, PowerSum
<1>4. x <= x * y
  OBVIOUS
<1> QED
  BY <1>2, <1>3, <1>4

LEMMA PowerIncreases ==
    ASSUME NEW b \in Nat \ {0, 1}, NEW m \in Nat, NEW n \in Nat, m < n
    PROVE  /\ Power(b, m) * b <= Power(b, n)
           /\ Power(b, m) < Power(b, n)
<1>1. PICK x \in Nat \ {0} : x = Power(b, m)
  BY PowerPositive
<1>2. Power(b, m + 1) = x * b
  BY <1>1, Powers
<1>3. PICK z \in Int : z = Power(b, n)
  BY Powers
<1>4. Power(b, m + 1) <= z
  BY <1>3, PowerMonotonic
<1>5. x < x * b
  OBVIOUS
<1>6. x * b \in Int
  OBVIOUS
<1>7. x * b <= z
  BY <1>2, <1>4
<1>8. x < z
  BY <1>5, <1>6, <1>7
<1> QED
  BY <1>1, <1>3, <1>7, <1>8

(* Any number is less than some power.                                     *)
LEMMA PowerUnbounded ==
    ASSUME NEW b \in Nat \ {0, 1}, NEW n \in Nat
    PROVE  n < Power(b, n)
<1> DEFINE K == {k \in Nat : k < Power(b, k)}
<1>1. 0 \in K
  BY Powers
<1>2. ASSUME NEW k \in Nat, k \in K
      PROVE  k + 1 \in K
  <2>1. PICK y \in Nat \ {0} : y = Power(b, k)
    BY PowerPositive
  <2>2. Power(b, k + 1) = y * b
    BY <2>1, Powers
  <2>3. k + 1 <= y
    BY <1>2, <2>1
  <2>4. y < y * b /\ y * b \in Int
    OBVIOUS
  <2> QED
    BY <2>2, <2>3, <2>4
<1> HIDE DEF K
<1>3. \A k \in Nat : k \in K
  BY <1>1, <1>2, SetInduction
<1> QED
  BY <1>3 DEF K

(* A power of a power.                                                     *)
LEMMA PowerPower ==
    ASSUME NEW b \in Int, NEW m \in Nat, NEW n \in Nat
    PROVE  Power(Power(b, m), n) = Power(b, m * n)
<1>1. PICK c \in Int : c = Power(b, m)
  BY Powers
<1> DEFINE K == {k \in Nat : Power(c, k) = Power(b, m * k)}
<1>2. 0 \in K
  <2>1. m * 0 = 0
    OBVIOUS
  <2> QED
    BY <2>1, Powers
<1>3. ASSUME NEW k \in Nat, k \in K
      PROVE  k + 1 \in K
  <2>1. PICK l \in Nat : l = m * k
    OBVIOUS
  <2>2. m * (k + 1) = l + m
    BY <2>1
  <2>3. Power(c, k + 1) = Power(c, k) * c
    BY Powers
  <2>4. Power(b, l + m) = Power(b, l) * Power(b, m)
    BY PowerSum
  <2>5. Power(c, k) = Power(b, l)
    BY <1>3, <2>1
  <2>6. Power(c, k + 1) = Power(b, m * (k + 1))
    BY <1>1, <2>2, <2>3, <2>4, <2>5
  <2> QED
    BY <2>6
<1> HIDE DEF K
<1>4. \A k \in Nat : k \in K
  BY <1>2, <1>3, SetInduction
<1> QED
  BY <1>1, <1>4 DEF K

-----------------------------------------------------------------------------
(* The number that words make. *)

LEMMA Base ==
    /\ Radix \in Nat \ {0, 1}
    /\ DIG_BASE \in Nat \ {0, 1}
    /\ DIG_MAX = DIG_BASE - 1
    /\ DIG_MAX \in Nat \ {0}
<1>1. Radix \in Nat \ {0, 1} /\ DIG_PER_DEC1 \in Nat \ {0}
  BY WordAssumption
<1>2. DIG_BASE \in Nat \ {0}
  BY <1>1, PowerPositive DEF DIG_BASE
<1>3. DIG_PER_DEC1 < DIG_BASE
  BY <1>1, PowerUnbounded DEF DIG_BASE
<1>4. DIG_BASE \in Nat \ {0, 1}
  BY <1>1, <1>2, <1>3
<1> QED
  BY <1>1, <1>4 DEF DIG_MAX

IsValue(v, w, n) ==
    v = [k \in 0 .. n |-> IF k = 0 THEN 0 ELSE v[k - 1] * DIG_BASE + w[k]]

(* Each word is added to DIG_BASE times the words before it.               *)
LEMMA Positionals ==
    ASSUME NEW n \in Nat, NEW w, \A k \in 1 .. n : w[k] \in Int
    PROVE  /\ \A m \in 0 .. n : Positional(w, m) \in Int
           /\ Positional(w, 0) = 0
           /\ \A m \in 0 .. n - 1 :
                Positional(w, m + 1) = Positional(w, m) * DIG_BASE + w[m + 1]
<1> DEFINE B == DIG_BASE
<1>b. B \in Int
  BY Base
<1> HIDE DEF B
<1>1. PICK u : u = [k \in Nat |-> IF k + 1 <= n THEN w[k + 1] ELSE 0]
  OBVIOUS
<1>2. \A k \in Nat : u[k] \in Int /\ (k + 1 <= n => u[k] = w[k + 1])
  BY <1>1
<1>3. PICK G : G = [k \in Nat |-> [y \in Int |-> y * B + u[k]]]
  OBVIOUS
<1>4. G \in [Nat -> [Int -> Int]]
  <2>1. ASSUME NEW k \in Nat PROVE [y \in Int |-> y * B + u[k]] \in [Int -> Int]
    BY <1>2, <1>b
  <2> QED
    BY <1>3, <2>1
<1>5. PICK r : Follows(r, 0, G, Int)
  <2>1. 0 \in Int
    OBVIOUS
  <2> QED
    BY <1>4, <2>1, Recursion, Zenon
<1>6. /\ \A k \in Nat : r[k] \in Int
      /\ r[0] = 0
      /\ \A k \in Nat : r[k + 1] = r[k] * B + u[k]
  BY <1>3, <1>5 DEF Follows
<1>7. ASSUME NEW m \in 0 .. n
      PROVE  Positional(w, m) = r[m]
  <2>1. \E v : IsValue(v, w, m)
    <3>1. PICK v : v = [k \in 0 .. m |-> r[k]]
      OBVIOUS
    <3>2. ASSUME NEW k \in 0 .. m, k # 0
          PROVE  v[k] = v[k - 1] * B + w[k]
      <4>1. k - 1 \in Nat /\ (k - 1) + 1 = k /\ k - 1 \in 0 .. m /\ k <= n
        BY <3>2
      <4>2. u[k - 1] = w[k]
        BY <1>2, <4>1
      <4>3. r[k] = r[k - 1] * B + u[k - 1]
        BY <1>6, <4>1
      <4> QED
        BY <3>1, <4>1, <4>2, <4>3
    <3>3. v[0] = 0
      BY <1>6, <3>1
    <3>4. v = [k \in 0 .. m |-> IF k = 0 THEN 0 ELSE v[k - 1] * B + w[k]]
      BY <3>1, <3>2, <3>3
    <3> QED
      BY <3>4 DEF IsValue, B
  <2> DEFINE v == CHOOSE f : IsValue(f, w, m)
  <2>2. Positional(w, m) = v[m]
    BY Zenon DEF Positional, IsValue
  <2>3. IsValue(v, w, m)
    BY <2>1
  <2> HIDE DEF v
  <2>4. v = [k \in 0 .. m |-> IF k = 0 THEN 0 ELSE v[k - 1] * B + w[k]]
    BY <2>3 DEF IsValue, B
  <2> DEFINE K == {k \in Nat : k <= m => v[k] = r[k]}
  <2>5. 0 \in K
    BY <1>6, <2>4
  <2>6. ASSUME NEW k \in Nat, k \in K
        PROVE  k + 1 \in K
    <3> SUFFICES ASSUME k + 1 <= m PROVE v[k + 1] = r[k + 1]
      OBVIOUS
    <3>1. k + 1 \in 0 .. m /\ (k + 1) - 1 = k /\ k + 1 # 0 /\ k + 1 <= n
      OBVIOUS
    <3>2. v[k + 1] = v[k] * B + w[k + 1]
      BY <2>4, <3>1
    <3>3. v[k] = r[k]
      BY <2>6
    <3>4. u[k] = w[k + 1]
      BY <1>2, <3>1
    <3> QED
      BY <1>6, <3>2, <3>3, <3>4
  <2> HIDE DEF K
  <2>7. \A k \in Nat : k \in K
    BY <2>5, <2>6, SetInduction
  <2> QED
    BY <2>2, <2>7 DEF K
<1>8. \A m \in 0 .. n : Positional(w, m) \in Int
  BY <1>6, <1>7
<1>9. Positional(w, 0) = 0
  BY <1>6, <1>7
<1>10. ASSUME NEW m \in 0 .. n - 1
       PROVE  Positional(w, m + 1) = Positional(w, m) * B + w[m + 1]
  <2>1. m \in Nat /\ m \in 0 .. n /\ m + 1 \in 0 .. n /\ m + 1 <= n
    OBVIOUS
  <2>2. r[m + 1] = r[m] * B + w[m + 1]
    BY <1>2, <1>6, <2>1
  <2> QED
    BY <1>7, <2>1, <2>2
<1> QED
  BY <1>8, <1>9, <1>10 DEF B

LEMMA MulMonotonic ==
    ASSUME NEW a \in Int, NEW b \in Int, NEW c \in Nat, a <= b
    PROVE  a * c <= b * c
<1>1. PICK d \in Nat : d = b - a
  OBVIOUS
<1>2. d * c \in Nat
  OBVIOUS
<1>3. b * c = a * c + d * c
  <2>1. b = a + d
    BY <1>1
  <2> QED
    BY <2>1
<1> QED
  BY <1>2, <1>3

(* Words are digits of a number of base DIG_BASE.                          *)
AreWords(w, n) == \A k \in 1 .. n : w[k] \in 0 .. DIG_MAX

LEMMA PositionalRange ==
    ASSUME NEW n \in Nat, NEW w, AreWords(w, n)
    PROVE  /\ \A m \in 0 .. n : Positional(w, m) \in Nat
           /\ Positional(w, n) < Power(DIG_BASE, n)
<1>0. /\ DIG_BASE \in Nat \ {0, 1}
      /\ \A k \in 1 .. n : w[k] \in 0 .. DIG_BASE - 1
  BY Base DEF AreWords
<1> DEFINE K == {m \in Nat : m <= n =>
                   Positional(w, m) \in Nat /\ Positional(w, m) < Power(DIG_BASE, m)}
<1>1. 0 \in K
  <2>1. Positional(w, 0) = 0
    <3>1. \A k \in 1 .. n : w[k] \in Int
      BY <1>0
    <3> QED
      BY <3>1, Positionals
  <2>2. Power(DIG_BASE, 0) = 1
    BY <1>0, Powers
  <2> QED
    BY <2>1, <2>2
<1>2. ASSUME NEW m \in Nat, m \in K
      PROVE  m + 1 \in K
  <2> SUFFICES ASSUME m + 1 <= n
               PROVE  /\ Positional(w, m + 1) \in Nat
                      /\ Positional(w, m + 1) < Power(DIG_BASE, m + 1)
    OBVIOUS
  <2>1. PICK B \in Nat \ {0, 1} : B = DIG_BASE
    BY <1>0
  <2>2. m + 1 \in 1 .. n /\ m \in 0 .. n - 1
    OBVIOUS
  <2>3. PICK p \in Nat : p = Positional(w, m) /\ p < Power(DIG_BASE, m)
    BY <1>2
  <2>4. PICK q \in Int : q = Power(DIG_BASE, m) /\ Power(DIG_BASE, m + 1) = q * B
    <3>1. DIG_BASE \in Int
      BY <1>0
    <3>2. Power(DIG_BASE, m) \in Int /\ Power(DIG_BASE, m + 1) = Power(DIG_BASE, m) * DIG_BASE
      BY <3>1, Powers
    <3> QED
      BY <2>1, <3>2
  <2>5. PICK d \in 0 .. B - 1 : d = w[m + 1]
    BY <1>0, <2>1, <2>2
  <2>6. Positional(w, m + 1) = p * B + d
    BY <1>0, <2>1, <2>2, <2>3, <2>5, Positionals
  <2>7. (p + 1) * B <= q * B
    <3>1. p + 1 <= q
      BY <2>3, <2>4
    <3> QED
      BY <3>1, MulMonotonic
  <2>8. p * B \in Nat /\ (p + 1) * B = p * B + B
    OBVIOUS
  <2>9. p * B + d < q * B
    <3>1. q * B \in Int
      OBVIOUS
    <3> QED
      BY <2>7, <2>8, <3>1
  <2> QED
    BY <2>4, <2>6, <2>8, <2>9
<1> HIDE DEF K
<1>3. \A m \in Nat : m \in K
  BY <1>1, <1>2, SetInduction
<1> QED
  BY <1>3 DEF K

LEMMA PositionalSame ==
    ASSUME NEW n \in Nat, NEW v, NEW w,
           \A k \in 1 .. n : w[k] \in Int /\ v[k] = w[k]
    PROVE  Positional(v, n) = Positional(w, n)
<1> DEFINE K == {m \in Nat : m <= n => Positional(v, m) = Positional(w, m)}
<1>1. 0 \in K
  BY Positionals
<1>2. ASSUME NEW m \in Nat, m \in K
      PROVE  m + 1 \in K
  <2> SUFFICES ASSUME m + 1 <= n
               PROVE  Positional(v, m + 1) = Positional(w, m + 1)
    OBVIOUS
  <2>1. m + 1 \in 1 .. n /\ m \in 0 .. n - 1
    OBVIOUS
  <2>2. Positional(v, m + 1) = Positional(v, m) * DIG_BASE + v[m + 1]
    BY <2>1, Positionals
  <2>3. Positional(w, m + 1) = Positional(w, m) * DIG_BASE + w[m + 1]
    BY <2>1, Positionals
  <2> QED
    BY <1>2, <2>1, <2>2, <2>3
<1> HIDE DEF K
<1>3. \A m \in Nat : m \in K
  BY <1>1, <1>2, SetInduction
<1> QED
  BY <1>3 DEF K

(* The words after the first m count no further than those.                *)
LEMMA PositionalSplit ==
    ASSUME NEW m \in Nat, NEW n \in Nat, NEW w, \A k \in 1 .. m + n : w[k] \in Int, NEW v,
           \A k \in 1 .. n : v[k] = w[m + k]
    PROVE  Positional(w, m + n) = Positional(w, m) * Power(DIG_BASE, n) + Positional(v, n)
<1> DEFINE K == {k \in Nat : k <= n =>
                   Positional(w, m + k)
                     = Positional(w, m) * Power(DIG_BASE, k) + Positional(v, k)}
<1>0. /\ DIG_BASE \in Int
      /\ \A k \in 1 .. n : v[k] \in Int
      /\ m \in 0 .. m + n
  <2>1. \A k \in 1 .. n : m + k \in 1 .. m + n
    OBVIOUS
  <2> QED
    BY <2>1, Base
<1>1. PICK p \in Int : p = Positional(w, m)
  BY <1>0, Positionals
<1>2. 0 \in K
  <2>1. m + 0 = m /\ p * 1 + 0 = p
    OBVIOUS
  <2> QED
    BY <1>0, <1>1, <2>1, Powers, Positionals
<1>3. ASSUME NEW k \in Nat, k \in K
      PROVE  k + 1 \in K
  <2> SUFFICES ASSUME k + 1 <= n
               PROVE  Positional(w, m + (k + 1))
                        = Positional(w, m) * Power(DIG_BASE, k + 1) + Positional(v, k + 1)
    OBVIOUS
  <2>1. PICK B \in Int : B = DIG_BASE
    BY <1>0
  <2>2. /\ k + 1 \in 1 .. n /\ k \in 0 .. n - 1 /\ k \in 0 .. n
        /\ m + k \in 0 .. (m + n) - 1 /\ (m + k) + 1 = m + (k + 1)
        /\ m + (k + 1) \in 1 .. m + n
    OBVIOUS
  <2>3. PICK q \in Int, s \in Int, d \in Int :
           q = Power(DIG_BASE, k) /\ s = Positional(v, k) /\ d = v[k + 1]
    BY <1>0, <2>2, Powers, Positionals
  <2>4. Positional(v, k + 1) = s * B + d
    BY <1>0, <2>1, <2>2, <2>3, Positionals
  <2>5. Power(DIG_BASE, k + 1) = q * B
    BY <1>0, <2>1, <2>3, Powers
  <2>6. Positional(w, (m + k) + 1) = Positional(w, m + k) * DIG_BASE + w[(m + k) + 1]
    <3>1. m + n \in Nat
      OBVIOUS
    <3> QED
      BY <2>2, <3>1, Positionals
  <2>7. Positional(w, m + k) = p * q + s
    BY <1>1, <1>3, <2>2, <2>3
  <2>8. Positional(w, m + (k + 1)) = (p * q + s) * B + d
    BY <2>1, <2>2, <2>3, <2>6, <2>7
  <2>9. (p * q + s) * B + d = p * (q * B) + (s * B + d)
    OBVIOUS
  <2> QED
    BY <1>1, <2>4, <2>5, <2>8, <2>9
<1> HIDE DEF K
<1>4. \A k \in Nat : k \in K
  BY <1>2, <1>3, SetInduction
<1> QED
  BY <1>4 DEF K

(* The first words that differ decide which number is the smaller one.     *)
LEMMA PositionalOrder ==
    ASSUME NEW n \in Nat, NEW v, NEW w, AreWords(v, n), AreWords(w, n),
           NEW j \in 1 .. n, v[j] < w[j], \A k \in 1 .. j - 1 : v[k] = w[k]
    PROVE  Positional(v, n) < Positional(w, n)
<1>0. /\ DIG_BASE \in Nat \ {0, 1}
      /\ \A k \in 1 .. n : v[k] \in 0 .. DIG_BASE - 1 /\ w[k] \in 0 .. DIG_BASE - 1
      /\ \A m \in 0 .. n : Positional(v, m) \in Nat /\ Positional(w, m) \in Nat
  BY Base, PositionalRange DEF AreWords
<1>1. \A m \in 0 .. n - 1 :
         /\ Positional(v, m + 1) = Positional(v, m) * DIG_BASE + v[m + 1]
         /\ Positional(w, m + 1) = Positional(w, m) * DIG_BASE + w[m + 1]
  BY <1>0, Positionals
<1>2. Positional(v, j - 1) = Positional(w, j - 1)
  <2>1. j - 1 \in Nat /\ \A k \in 1 .. j - 1 : k \in 1 .. n
    OBVIOUS
  <2> QED
    BY <1>0, <2>1, PositionalSame
<1>3. Positional(v, j) < Positional(w, j)
  <2>1. j - 1 \in 0 .. n - 1 /\ (j - 1) + 1 = j /\ j - 1 \in 0 .. n
    OBVIOUS
  <2>2. PICK p \in Nat : p = Positional(v, j - 1)
    BY <1>0, <2>1
  <2>3. Positional(v, j) = p * DIG_BASE + v[j] /\ Positional(w, j) = p * DIG_BASE + w[j]
    BY <1>1, <1>2, <2>1, <2>2
  <2>4. p * DIG_BASE \in Int /\ v[j] \in Int /\ w[j] \in Int
    BY <1>0
  <2> QED
    BY <2>3, <2>4
<1> DEFINE K == {m \in Nat : j + m <= n => Positional(v, j + m) < Positional(w, j + m)}
<1>4. 0 \in K
  BY <1>3
<1>5. ASSUME NEW m \in Nat, m \in K
      PROVE  m + 1 \in K
  <2> SUFFICES ASSUME j + (m + 1) <= n
               PROVE  Positional(v, j + (m + 1)) < Positional(w, j + (m + 1))
    OBVIOUS
  <2>1. /\ j + m \in 0 .. n - 1 /\ (j + m) + 1 = j + (m + 1)
        /\ j + m \in 0 .. n /\ (j + m) + 1 \in 1 .. n
    OBVIOUS
  <2>2. PICK B \in Nat \ {0, 1} : B = DIG_BASE
    BY <1>0
  <2>3. PICK p \in Nat, q \in Nat, d \in 0 .. B - 1, e \in 0 .. B - 1 :
           /\ p = Positional(v, j + m) /\ q = Positional(w, j + m)
           /\ d = v[(j + m) + 1] /\ e = w[(j + m) + 1]
    BY <1>0, <2>1, <2>2
  <2>4. p + 1 <= q
    BY <1>5, <2>1, <2>3
  <2>5. (p + 1) * B <= q * B
    BY <2>4, MulMonotonic
  <2>6. (p + 1) * B = p * B + B /\ p * B \in Int /\ q * B \in Int
    OBVIOUS
  <2>7. p * B + d < q * B + e
    BY <2>5, <2>6
  <2>8. Positional(v, (j + m) + 1) = p * B + d /\ Positional(w, (j + m) + 1) = q * B + e
    BY <1>1, <2>1, <2>2, <2>3
  <2> QED
    BY <2>1, <2>7, <2>8
<1> HIDE DEF K
<1>6. \A m \in Nat : m \in K
  BY <1>4, <1>5, SetInduction
<1>7. n - j \in Nat /\ j + (n - j) = n
  OBVIOUS
<1> QED
  BY <1>6, <1>7 DEF K

-----------------------------------------------------------------------------
(* Quotients, maxima, rounding up to words. *)

LEMMA Division ==
    ASSUME NEW a \in Int, NEW b \in Nat \ {0}
    PROVE  /\ a \div b \in Int
           /\ a % b \in 0 .. b - 1
           /\ a = b * (a \div b) + (a % b)
OBVIOUS

LEMMA DivisionIs ==
    ASSUME NEW a \in Int, NEW b \in Nat \ {0}, NEW q \in Int, NEW r \in 0 .. b - 1,
           a = b * q + r
    PROVE  a \div b = q /\ a % b = r
<1>1. PICK p \in Int, s \in 0 .. b - 1 : p = a \div b /\ s = a % b /\ a = b * p + s
  BY Division
<1>2. p <= q
  <2> SUFFICES ASSUME q + 1 <= p PROVE FALSE
    OBVIOUS
  <2>1. (q + 1) * b <= p * b
    BY MulMonotonic
  <2>2. (q + 1) * b = b * q + b /\ p * b = b * p /\ b * q \in Int /\ b * p \in Int
    OBVIOUS
  <2> QED
    BY <1>1, <2>1, <2>2
<1>3. q <= p
  <2> SUFFICES ASSUME p + 1 <= q PROVE FALSE
    OBVIOUS
  <2>1. (p + 1) * b <= q * b
    BY MulMonotonic
  <2>2. (p + 1) * b = b * p + b /\ q * b = b * q /\ b * q \in Int /\ b * p \in Int
    OBVIOUS
  <2> QED
    BY <1>1, <2>1, <2>2
<1>4. p = q
  BY <1>2, <1>3
<1>5. s = r
  <2>1. b * p = b * q /\ b * q \in Int
    BY <1>4
  <2> QED
    BY <1>1, <2>1
<1> QED
  BY <1>1, <1>4, <1>5

LEMMA MaxOfTwo ==
    ASSUME NEW a \in Int, NEW b \in Int
    PROVE  /\ Max({a, b}) = IF a >= b THEN a ELSE b
           /\ Min({a, b}) = IF a <= b THEN a ELSE b
<1>1. CASE a >= b
  <2>1. \A m \in {a, b} : (\A y \in {a, b} : m >= y) <=> m = a
    BY <1>1
  <2>2. \A m \in {a, b} : (\A y \in {a, b} : m <= y) <=> m = b
    BY <1>1
  <2> QED
    BY <1>1, <2>1, <2>2 DEF Max, Min
<1>2. CASE ~(a >= b)
  <2>1. \A m \in {a, b} : (\A y \in {a, b} : m >= y) <=> m = b
    BY <1>2
  <2>2. \A m \in {a, b} : (\A y \in {a, b} : m <= y) <=> m = a
    BY <1>2
  <2> QED
    BY <1>2, <2>1, <2>2 DEF Max, Min
<1> QED
  BY <1>1, <1>2

(* The least number of words with so many digits.                          *)
LEMMA RoundUp ==
    ASSUME NEW n \in Int
    PROVE  /\ ROUND_UP(n) \in Int
           /\ n <= ROUND_UP(n) * DIG_PER_DEC1
           /\ ROUND_UP(n) * DIG_PER_DEC1 < n + DIG_PER_DEC1
           /\ n >= 0 => ROUND_UP(n) \in Nat
<1>1. DIG_PER_DEC1 \in Nat \ {0}
  BY WordAssumption
<1>2. PICK q \in Int, r \in 0 .. DIG_PER_DEC1 - 1 :
        q = ROUND_UP(n) /\ n + DIG_PER_DEC1 - 1 = DIG_PER_DEC1 * q + r
  <2>1. n + DIG_PER_DEC1 - 1 \in Int
    BY <1>1
  <2> QED
    BY <1>1, <2>1, Division DEF ROUND_UP
<1>3. DIG_PER_DEC1 * q = q * DIG_PER_DEC1 /\ q * DIG_PER_DEC1 \in Int
  BY <1>1
<1>4. n >= 0 => q >= 0
  <2> SUFFICES ASSUME n >= 0, q + 1 <= 0 PROVE FALSE
    OBVIOUS
  <2>1. (q + 1) * DIG_PER_DEC1 <= 0 * DIG_PER_DEC1
    BY <1>1, MulMonotonic
  <2>2. (q + 1) * DIG_PER_DEC1 = q * DIG_PER_DEC1 + DIG_PER_DEC1 /\ 0 * DIG_PER_DEC1 = 0
    BY <1>1
  <2> QED
    BY <1>1, <1>2, <1>3, <2>1, <2>2
<1> QED
  BY <1>1, <1>2, <1>3, <1>4

LEMMA RoundUpIs ==
    ASSUME NEW n \in Int, NEW q \in Int,
           n <= q * DIG_PER_DEC1, q * DIG_PER_DEC1 < n + DIG_PER_DEC1
    PROVE  ROUND_UP(n) = q
<1>1. DIG_PER_DEC1 \in Nat \ {0}
  BY WordAssumption
<1>2. PICK r \in 0 .. DIG_PER_DEC1 - 1 : n + DIG_PER_DEC1 - 1 = DIG_PER_DEC1 * q + r
  <2>1. DIG_PER_DEC1 * q = q * DIG_PER_DEC1 /\ q * DIG_PER_DEC1 \in Int
    BY <1>1
  <2> QED
    BY <1>1, <2>1
<1>3. n + DIG_PER_DEC1 - 1 \in Int
  BY <1>1
<1> QED
  BY <1>1, <1>2, <1>3, DivisionIs DEF ROUND_UP

LEMMA RoundUpMonotonic ==
    ASSUME NEW m \in Int, NEW n \in Int, m <= n
    PROVE  ROUND_UP(m) <= ROUND_UP(n)
<1>1. DIG_PER_DEC1 \in Nat \ {0}
  BY WordAssumption
<1>2. PICK p \in Int, q \in Int :
        /\ p = ROUND_UP(m) /\ q = ROUND_UP(n)
        /\ p * DIG_PER_DEC1 < m + DIG_PER_DEC1 /\ n <= q * DIG_PER_DEC1
  BY RoundUp
<1> SUFFICES ASSUME q + 1 <= p PROVE FALSE
  BY <1>2
<1>3. (q + 1) * DIG_PER_DEC1 <= p * DIG_PER_DEC1
  BY <1>1, MulMonotonic
<1>4. /\ (q + 1) * DIG_PER_DEC1 = q * DIG_PER_DEC1 + DIG_PER_DEC1
      /\ q * DIG_PER_DEC1 \in Int /\ p * DIG_PER_DEC1 \in Int
  BY <1>1
<1> QED
  BY <1>1, <1>2, <1>3, <1>4

LEMMA RoundUpWords ==
    ASSUME NEW n \in Int
    PROVE  ROUND_UP(n * DIG_PER_DEC1) = n
<1>1. DIG_PER_DEC1 \in Nat \ {0} /\ n * DIG_PER_DEC1 \in Int
  BY WordAssumption
<1> QED
  BY <1>1, RoundUpIs

LEMMA RoundUpMax ==
    ASSUME NEW m \in Int, NEW n \in Int
    PROVE  ROUND_UP(Max({m, n})) = Max({ROUND_UP(m), ROUND_UP(n)})
<1>1. ROUND_UP(m) \in Int /\ ROUND_UP(n) \in Int
  BY RoundUp
<1>2. CASE m >= n
  BY <1>1, <1>2, RoundUpMonotonic, MaxOfTwo
<1>3. CASE m < n
  <2>1. ROUND_UP(m) <= ROUND_UP(n)
    BY <1>3, RoundUpMonotonic
  <2> QED
    BY <1>1, <1>3, <2>1, MaxOfTwo
<1> QED
  BY <1>2, <1>3

-----------------------------------------------------------------------------
(* The words of a decimal, with more zeros before and after them.          *)

Decimals ==
    {d \in [sign : BOOLEAN, intg : Nat, frac : Nat, buf : Seq(0 .. DIG_MAX)] : WordsOK(d)}

WordsIn(d, i, f) == [k \in 1 .. i + f |-> Word(d, k - i)]

LEMMA DecimalTypes ==
    ASSUME NEW d \in Decimals
    PROVE  /\ d.sign \in BOOLEAN /\ d.intg \in Nat /\ d.frac \in Nat
           /\ ROUND_UP(d.intg) \in Nat /\ ROUND_UP(d.frac) \in Nat
           /\ d.buf \in Seq(0 .. DIG_MAX)
           /\ Len(d.buf) = ROUND_UP(d.intg) + ROUND_UP(d.frac)
           /\ DOMAIN d.buf = 1 .. ROUND_UP(d.intg) + ROUND_UP(d.frac)
           /\ AreWords(d.buf, Len(d.buf))
<1>1. /\ d \in [sign : BOOLEAN, intg : Nat, frac : Nat, buf : Seq(0 .. DIG_MAX)]
      /\ Len(d.buf) = ROUND_UP(d.intg) + ROUND_UP(d.frac)
      /\ \A k \in DOMAIN d.buf : d.buf[k] \in 0 .. DIG_MAX
  BY DEF Decimals, WordsOK
<1>2. d.buf \in Seq(0 .. DIG_MAX) /\ d.intg \in Nat /\ d.frac \in Nat /\ d.sign \in BOOLEAN
  BY <1>1
<1>3. DOMAIN d.buf = 1 .. Len(d.buf)
  BY <1>2, LenProperties
<1>4. ROUND_UP(d.intg) \in Nat /\ ROUND_UP(d.frac) \in Nat
  <2>1. PICK m \in Nat, n \in Nat : m = d.intg /\ n = d.frac
    BY <1>2
  <2>2. ROUND_UP(m) \in Nat /\ ROUND_UP(n) \in Nat
    BY RoundUp
  <2> QED
    BY <2>1, <2>2
<1>5. AreWords(d.buf, Len(d.buf))
  BY <1>1, <1>3 DEF AreWords
<1> QED
  BY <1>1, <1>2, <1>3, <1>4, <1>5

LEMMA WordTypes ==
    ASSUME NEW d \in Decimals, NEW p \in Int
    PROVE  /\ Word(d, p) \in 0 .. DIG_MAX
           /\ Word(d, p) \in Int
           /\ p \in 1 - ROUND_UP(d.intg) .. ROUND_UP(d.frac)
                => Word(d, p) = d.buf[p + ROUND_UP(d.intg)]
           /\ p \notin 1 - ROUND_UP(d.intg) .. ROUND_UP(d.frac) => Word(d, p) = 0
<1>1. PICK i \in Nat, f \in Nat : /\ i = ROUND_UP(d.intg) /\ f = ROUND_UP(d.frac)
                                  /\ DOMAIN d.buf = 1 .. i + f
  BY DecimalTypes
<1>2. \A k \in 1 .. i + f : d.buf[k] \in 0 .. DIG_MAX
  BY <1>1, DecimalTypes DEF AreWords
<1>3. p \in 1 - i .. f <=> p + i \in 1 .. i + f
  OBVIOUS
<1>4. Word(d, p) = IF p + i \in 1 .. i + f THEN d.buf[p + i] ELSE 0
  BY <1>1 DEF Word
<1>5. DIG_MAX \in Nat
  BY Base
<1>6. p \in 1 - i .. f => Word(d, p) = d.buf[p + i] /\ Word(d, p) \in 0 .. DIG_MAX
  BY ONLY <1>2, <1>3, <1>4
<1>7. p \notin 1 - i .. f => Word(d, p) = 0 /\ Word(d, p) \in 0 .. DIG_MAX
  BY ONLY <1>3, <1>4, <1>5
<1>8. Word(d, p) \in 0 .. DIG_MAX
  BY ONLY <1>6, <1>7
<1>9. Word(d, p) \in Int
  BY ONLY <1>8
<1> QED
  BY ONLY <1>1, <1>6, <1>7, <1>8, <1>9

LEMMA PositionalZeros ==
    ASSUME NEW n \in Nat, NEW w, \A k \in 1 .. n : w[k] = 0
    PROVE  Positional(w, n) = 0
<1>0. DIG_BASE \in Int
  BY Base
<1> DEFINE K == {m \in Nat : m <= n => Positional(w, m) = 0}
<1>1. 0 \in K
  BY Positionals
<1>2. ASSUME NEW m \in Nat, m \in K
      PROVE  m + 1 \in K
  <2> SUFFICES ASSUME m + 1 <= n
               PROVE  Positional(w, m + 1) = 0
    OBVIOUS
  <2>1. m + 1 \in 1 .. n /\ m \in 0 .. n - 1
    OBVIOUS
  <2>2. Positional(w, m + 1) = Positional(w, m) * DIG_BASE + w[m + 1]
    BY <2>1, Positionals
  <2> QED
    BY <1>0, <1>2, <2>1, <2>2
<1> HIDE DEF K
<1>3. \A m \in Nat : m \in K
  BY <1>1, <1>2, SetInduction
<1> QED
  BY <1>3 DEF K

(* The words with zeros around them are as many times the mantissa as the  *)
(* zeros after them are worth.                                             *)
LEMMA Aligned ==
    ASSUME NEW d \in Decimals, NEW i \in Nat, NEW f \in Nat, ROUND_UP(d.intg) <= i
    PROVE  /\ AreWords(WordsIn(d, i, f), i + f)
           /\ ROUND_UP(d.frac) <= f =>
                Positional(WordsIn(d, i, f), i + f)
                  = Mantissa(d) * Power(DIG_BASE, f - ROUND_UP(d.frac))
<1> DEFINE w == WordsIn(d, i, f)
<1>1. \A k \in 1 .. i + f : w[k] = Word(d, k - i) /\ w[k] \in 0 .. DIG_MAX
  BY WordTypes DEF WordsIn
<1>2. PICK di \in Nat, df \in Nat : /\ di = ROUND_UP(d.intg) /\ df = ROUND_UP(d.frac)
                                    /\ Len(d.buf) = di + df
  BY DecimalTypes
<1> HIDE DEF w
<1>3. \A k \in 1 .. i + f : w[k] \in Int
  BY <1>1, Base
<1>4. ASSUME df <= f
      PROVE  Positional(w, i + f) = Mantissa(d) * Power(DIG_BASE, f - df)
  <2>1. PICK z \in Nat, e \in Nat, n \in Nat : z = i - di /\ e = f - df /\ n = di + df
    BY <1>2, <1>4
  <2>2. z + n = i + df /\ (z + n) + e = i + f
    BY <2>1
  <2>3. Positional(w, z) = 0
    <3>1. ASSUME NEW k \in 1 .. z PROVE w[k] = 0
      <4>1. k - i \notin 1 - di .. df /\ k - i \in Int /\ k \in 1 .. i + f
        BY <2>1
      <4>2. Word(d, k - i) = 0
        BY <1>2, <4>1, WordTypes
      <4> QED
        BY <1>1, <4>1, <4>2
    <3> QED
      BY <3>1, PositionalZeros
  <2>4. Positional(w, z + n) = Positional(d.buf, n)
    <3>1. ASSUME NEW k \in 1 .. n PROVE d.buf[k] = w[z + k]
      <4>1. /\ (z + k) - i \in 1 - di .. df /\ (z + k) - i \in Int /\ z + k \in 1 .. i + f
            /\ ((z + k) - i) + di = k
        BY <1>4, <2>1
      <4> QED
        BY <1>1, <1>2, <4>1, WordTypes
    <3>2. \A k \in 1 .. z + n : w[k] \in Int
      BY <1>3, <2>1, <2>2
    <3>3. Positional(w, z + n) = Positional(w, z) * Power(DIG_BASE, n) + Positional(d.buf, n)
      <4>1. PICK v : v = d.buf
        OBVIOUS
      <4>2. \A k \in 1 .. n : v[k] = w[z + k]
        BY <3>1, <4>1
      <4>3. Positional(w, z + n) = Positional(w, z) * Power(DIG_BASE, n) + Positional(v, n)
        BY <3>2, <4>2, PositionalSplit
      <4> QED
        BY <4>1, <4>3
    <3>4. Power(DIG_BASE, n) \in Int
      BY Base, Powers
    <3>5. Positional(d.buf, n) \in Int
      <4>1. AreWords(d.buf, Len(d.buf)) /\ Len(d.buf) = n
        BY <1>2, <2>1, DecimalTypes
      <4>2. AreWords(d.buf, n) /\ n \in 0 .. n
        BY ONLY <4>1, n \in Nat
      <4> QED
        BY ONLY <4>2, n \in Nat, PositionalRange
    <3> QED
      BY <2>3, <3>3, <3>4, <3>5
  <2>5. PICK v : v = [k \in 1 .. e |-> 0]
    OBVIOUS
  <2>6. \A k \in 1 .. e : v[k] = w[(z + n) + k]
    <3> SUFFICES ASSUME NEW k \in 1 .. e PROVE w[(z + n) + k] = 0
      BY <2>5
    <3>1. /\ ((z + n) + k) - i \notin 1 - di .. df /\ ((z + n) + k) - i \in Int
          /\ (z + n) + k \in 1 .. i + f
      BY <1>4, <2>1
    <3> QED
      BY <1>1, <1>2, <3>1, WordTypes
  <2>7. Positional(v, e) = 0
    BY <2>5, PositionalZeros
  <2>8. Positional(w, (z + n) + e)
          = Positional(w, z + n) * Power(DIG_BASE, e) + Positional(v, e)
    <3>1. \A k \in 1 .. (z + n) + e : w[k] \in Int
      BY <1>3, <2>2
    <3>2. PICK m \in Nat : m = z + n
      OBVIOUS
    <3>3. \A k \in 1 .. m + e : w[k] \in Int
      BY <3>1, <3>2
    <3>4. \A k \in 1 .. e : v[k] = w[m + k]
      BY <2>6, <3>2
    <3>5. Positional(w, m + e) = Positional(w, m) * Power(DIG_BASE, e) + Positional(v, e)
      BY ONLY <3>3, <3>4, m \in Nat, e \in Nat, PositionalSplit
    <3> QED
      BY <3>2, <3>5
  <2>9. Mantissa(d) = Positional(d.buf, n) /\ Mantissa(d) \in Int
    <3>1. Mantissa(d) = Positional(d.buf, n)
      BY <1>2, <2>1 DEF Mantissa
    <3>2. Positional(d.buf, n) \in Int
      <4>1. AreWords(d.buf, Len(d.buf)) /\ Len(d.buf) = n
        BY <1>2, <2>1, DecimalTypes
      <4>2. AreWords(d.buf, n) /\ n \in 0 .. n
        BY ONLY <4>1, n \in Nat
      <4> QED
        BY ONLY <4>2, n \in Nat, PositionalRange
    <3> QED
      BY <3>1, <3>2
  <2>10. Power(DIG_BASE, e) \in Int
    BY Base, Powers
  <2>11. Mantissa(d) * Power(DIG_BASE, e) + 0 = Mantissa(d) * Power(DIG_BASE, e)
    BY <2>9, <2>10
  <2> QED
    BY <2>1, <2>2, <2>4, <2>7, <2>8, <2>9, <2>11
<1>5. AreWords(w, i + f)
  BY <1>1 DEF AreWords
<1> QED
  BY <1>2, <1>4, <1>5 DEF w

-----------------------------------------------------------------------------
(* Comparison. *)

LEMMA MulOrder ==
    ASSUME NEW a \in Int, NEW b \in Int, NEW c \in Nat \ {0}
    PROVE  /\ a < b <=> a * c < b * c
           /\ a = b <=> a * c = b * c
<1>1. ASSUME NEW x \in Int, NEW y \in Int, x < y
      PROVE  x * c < y * c
  <2>1. (x + 1) * c <= y * c
    BY <1>1, MulMonotonic
  <2>2. (x + 1) * c = x * c + c /\ x * c \in Int /\ y * c \in Int
    OBVIOUS
  <2> QED
    BY <2>1, <2>2
<1>2. a * c \in Int /\ b * c \in Int
  OBVIOUS
<1>3. a < b \/ a = b \/ b < a
  OBVIOUS
<1> QED
  BY <1>1, <1>2, <1>3

LEMMA FirstDifference ==
    ASSUME NEW n \in Nat, NEW v, NEW w
    PROVE  \/ \A k \in 1 .. n : v[k] = w[k]
           \/ \E j \in 1 .. n : v[j] # w[j] /\ \A k \in 1 .. j - 1 : v[k] = w[k]
<1> DEFINE K == {m \in Nat : m <= n =>
                   \/ \A k \in 1 .. m : v[k] = w[k]
                   \/ \E j \in 1 .. m : v[j] # w[j] /\ \A k \in 1 .. j - 1 : v[k] = w[k]}
<1>1. 0 \in K
  OBVIOUS
<1>2. ASSUME NEW m \in Nat, m \in K
      PROVE  m + 1 \in K
  <2> SUFFICES ASSUME m + 1 <= n
               PROVE  \/ \A k \in 1 .. m + 1 : v[k] = w[k]
                      \/ \E j \in 1 .. m + 1 : v[j] # w[j] /\ \A k \in 1 .. j - 1 : v[k] = w[k]
    OBVIOUS
  <2>1. CASE \E j \in 1 .. m : v[j] # w[j] /\ \A k \in 1 .. j - 1 : v[k] = w[k]
    <3>1. PICK j \in 1 .. m : v[j] # w[j] /\ \A k \in 1 .. j - 1 : v[k] = w[k]
      BY <2>1
    <3>2. j \in 1 .. m + 1
      OBVIOUS
    <3> QED
      BY <3>1, <3>2
  <2>2. CASE \A k \in 1 .. m : v[k] = w[k]
    <3>1. CASE v[m + 1] = w[m + 1]
      <4>1. \A k \in 1 .. m + 1 : k \in 1 .. m \/ k = m + 1
        OBVIOUS
      <4> QED
        BY <2>2, <3>1, <4>1
    <3>2. CASE v[m + 1] # w[m + 1]
      <4>1. m + 1 \in 1 .. m + 1 /\ (m + 1) - 1 = m
        OBVIOUS
      <4> QED
        BY <2>2, <3>2, <4>1
    <3> QED
      BY <3>1, <3>2
  <2> QED
    BY <1>2, <2>1, <2>2
<1> HIDE DEF K
<1>3. \A m \in Nat : m \in K
  BY <1>1, <1>2, SetInduction
<1> QED
  BY <1>3 DEF K

(* A decimal in units of the last of frac words after the point.           *)
LEMMA ScaledTypes ==
    ASSUME NEW d \in Decimals, NEW f \in Nat, ROUND_UP(d.frac) <= f
    PROVE  /\ Mantissa(d) \in Nat
           /\ Scaled(d, f) \in Nat
           /\ \A g \in Nat : f <= g => Scaled(d, g) = Scaled(d, f) * Power(DIG_BASE, g - f)
<1>1. Mantissa(d) \in Nat
  <2>1. PICK n \in Nat : n = Len(d.buf)
    BY DecimalTypes
  <2>2. AreWords(d.buf, n)
    BY <2>1, DecimalTypes
  <2>3. Positional(d.buf, n) \in Nat
    <3>1. PICK w : w = d.buf
      OBVIOUS
    <3>2. AreWords(w, n)
      BY <2>2, <3>1
    <3>3. n \in 0 .. n
      OBVIOUS
    <3>4. Positional(w, n) \in Nat
      BY <3>2, <3>3, PositionalRange
    <3> QED
      BY <3>1, <3>4
  <2> QED
    BY <2>1, <2>3 DEF Mantissa
<1>2. PICK m \in Nat, e \in Nat : m = Mantissa(d) /\ e = ROUND_UP(d.frac) /\ e <= f
  BY <1>1, DecimalTypes
<1>3. DIG_BASE \in Nat \ {0}
  BY Base
<1>4. \A g \in Nat : Scaled(d, g) = m * Power(DIG_BASE, g - e)
  BY <1>2 DEF Scaled
<1>5. Scaled(d, f) \in Nat
  <2>1. f - e \in Nat
    BY <1>2
  <2>2. PICK q \in Nat : q = Power(DIG_BASE, f - e)
    BY <1>3, <2>1, PowerPositive
  <2>3. m * q \in Nat
    OBVIOUS
  <2> QED
    BY <1>4, <2>2, <2>3
<1>6. ASSUME NEW g \in Nat, f <= g
      PROVE  Scaled(d, g) = Scaled(d, f) * Power(DIG_BASE, g - f)
  <2>1. PICK k \in Nat, l \in Nat : k = f - e /\ l = g - f /\ g - e = k + l
    <3>1. f - e \in Nat /\ g - f \in Nat /\ g - e = (f - e) + (g - f)
      BY <1>2, <1>6
    <3> QED
      BY <3>1
  <2>2. PICK p \in Nat \ {0}, q \in Nat \ {0} :
          p = Power(DIG_BASE, k) /\ q = Power(DIG_BASE, l)
    BY <1>3, PowerPositive
  <2>3. Power(DIG_BASE, k + l) = p * q
    BY <1>3, <2>2, PowerSum
  <2>4. m * (p * q) = (m * p) * q
    OBVIOUS
  <2> QED
    BY <1>4, <2>1, <2>2, <2>3, <2>4
<1> QED
  BY <1>1, <1>5, <1>6

LEMMA Compared ==
    ASSUME NEW a \in Decimals, NEW b \in Decimals, NEW f \in Nat,
           ROUND_UP(a.frac) <= f, ROUND_UP(b.frac) <= f
    PROVE  /\ Less(a, b) <=> Scaled(a, f) < Scaled(b, f)
           /\ SameMagnitude(a, b) <=> Scaled(a, f) = Scaled(b, f)
<1>1. PICK i \in Nat, g \in Nat :
        /\ i = Max({ROUND_UP(a.intg), ROUND_UP(b.intg)})
        /\ g = Max({ROUND_UP(a.frac), ROUND_UP(b.frac)})
        /\ ROUND_UP(a.intg) <= i /\ ROUND_UP(b.intg) <= i
        /\ ROUND_UP(a.frac) <= g /\ ROUND_UP(b.frac) <= g /\ g <= f
  <2>1. PICK ai \in Nat, af \in Nat, bi \in Nat, bf \in Nat :
          /\ ai = ROUND_UP(a.intg) /\ af = ROUND_UP(a.frac)
          /\ bi = ROUND_UP(b.intg) /\ bf = ROUND_UP(b.frac)
    BY DecimalTypes
  <2>2. /\ Max({ai, bi}) = IF ai >= bi THEN ai ELSE bi
        /\ Max({af, bf}) = IF af >= bf THEN af ELSE bf
    BY MaxOfTwo
  <2>3. /\ Max({ai, bi}) \in Nat /\ ai <= Max({ai, bi}) /\ bi <= Max({ai, bi})
        /\ Max({af, bf}) \in Nat /\ af <= Max({af, bf}) /\ bf <= Max({af, bf})
        /\ Max({af, bf}) <= f
    BY <2>1, <2>2
  <2> QED
    BY <2>1, <2>3
<1>2. Positions(a, b) = 1 - i .. g
  BY <1>1 DEF Positions, IntgOf, FracOf
<1>3a. PICK n \in Nat : n = i + g
  OBVIOUS
<1>3. PICK v, w : n = i + g /\ v = WordsIn(a, i, g) /\ w = WordsIn(b, i, g)
  BY <1>3a
<1>4. AreWords(v, n) /\ AreWords(w, n)
  BY <1>1, <1>3, Aligned
<1>5. \A k \in 1 .. n : v[k] = Word(a, k - i) /\ w[k] = Word(b, k - i)
  BY <1>3 DEF WordsIn
<1>6. /\ \A k \in 1 .. n : k - i \in 1 - i .. g
      /\ \A p \in 1 - i .. g : p + i \in 1 .. n /\ (p + i) - i = p
  BY <1>3
<1>7. PICK x \in Nat, y \in Nat : x = Positional(v, n) /\ y = Positional(w, n)
  <2>1. n \in 0 .. n
    OBVIOUS
  <2> QED
    BY <1>4, <2>1, PositionalRange
<1>8. x = Scaled(a, g) /\ y = Scaled(b, g)
  BY <1>1, <1>3, <1>7, Aligned DEF Scaled
<1>9. \A k \in 1 .. n : v[k] \in Int /\ w[k] \in Int
  BY <1>4, Base DEF AreWords
<1>10. ASSUME \A k \in 1 .. n : v[k] = w[k]
       PROVE  (Less(a, b) <=> x < y) /\ (SameMagnitude(a, b) <=> x = y)
  <2>1. x = y
    BY <1>7, <1>9, <1>10, PositionalSame
  <2>2. \A p \in 1 - i .. g : Word(a, p) = Word(b, p)
    <3> SUFFICES ASSUME NEW p \in 1 - i .. g PROVE Word(a, p) = Word(b, p)
      OBVIOUS
    <3> QED
      BY <1>5, <1>6, <1>10
  <2>3. SameMagnitude(a, b)
    BY <1>2, <2>2 DEF SameMagnitude
  <2>4. ~Less(a, b)
    <3> SUFFICES ASSUME NEW p \in 1 - i .. g, Word(a, p) < Word(b, p) PROVE FALSE
      BY <1>2 DEF Less
    <3>1. Word(a, p) = Word(b, p) /\ Word(a, p) \in Int
      BY <2>2, WordTypes
    <3> QED
      BY <3>1
  <2> QED
    BY <2>1, <2>3, <2>4
<1>11. ASSUME \E j \in 1 .. n : v[j] # w[j] /\ \A k \in 1 .. j - 1 : v[k] = w[k]
       PROVE  (Less(a, b) <=> x < y) /\ (SameMagnitude(a, b) <=> x = y)
  <2>1. PICK j \in 1 .. n : v[j] # w[j] /\ \A k \in 1 .. j - 1 : v[k] = w[k]
    BY <1>11
  <2>2. \A q \in 1 - i .. g : q < j - i => Word(a, q) = Word(b, q)
    <3> SUFFICES ASSUME NEW q \in 1 - i .. g, q < j - i PROVE Word(a, q) = Word(b, q)
      OBVIOUS
    <3>1. q + i \in 1 .. j - 1 /\ q + i \in 1 .. n /\ (q + i) - i = q
      BY <1>3
    <3> QED
      BY <1>5, <2>1, <3>1
  <2>3. j - i \in 1 - i .. g /\ Word(a, j - i) # Word(b, j - i)
    BY <1>5, <1>6, <2>1
  <2>4. ~SameMagnitude(a, b)
    BY <1>2, <2>3 DEF SameMagnitude
  <2>5. CASE v[j] < w[j]
    <3>1. x < y
      BY <1>4, <1>7, <2>1, <2>5, PositionalOrder
    <3>2. Less(a, b)
      BY <1>2, <1>5, <2>2, <2>3, <2>5 DEF Less
    <3> QED
      BY <2>4, <3>1, <3>2
  <2>6. CASE w[j] < v[j]
    <3>1. y < x
      BY <1>4, <1>7, <2>1, <2>6, PositionalOrder
    <3>2. ~Less(a, b)
      <4> SUFFICES ASSUME NEW p \in 1 - i .. g, Word(a, p) < Word(b, p),
                          \A q \in 1 - i .. g : q < p => Word(a, q) = Word(b, q)
                   PROVE  FALSE
        BY <1>2 DEF Less
      <4>1. p \in Int /\ j - i \in Int /\ Word(a, p) \in Int /\ Word(b, p) \in Int
        BY WordTypes
      <4>2. ~(j - i < p)
        BY <2>3
      <4>3. ~(p < j - i)
        BY <2>2, <4>1
      <4>4. p = j - i
        BY <4>1, <4>2, <4>3
      <4>5. Word(b, p) < Word(a, p)
        BY <1>5, <2>6, <4>4
      <4> QED
        BY <4>1, <4>5
    <3> QED
      BY <2>4, <3>1, <3>2
  <2> QED
    BY <1>9, <2>1, <2>5, <2>6
<1>12. (Less(a, b) <=> x < y) /\ (SameMagnitude(a, b) <=> x = y)
  BY <1>10, <1>11, FirstDifference
<1>13. PICK c \in Nat \ {0} : c = Power(DIG_BASE, f - g)
  <2>1. f - g \in Nat
    BY <1>1
  <2> QED
    BY <2>1, Base, PowerPositive
<1>14. Scaled(a, f) = x * c /\ Scaled(b, f) = y * c
  BY <1>1, <1>8, <1>13, ScaledTypes
<1>15. (x < y <=> x * c < y * c) /\ (x = y <=> x * c = y * c)
  BY MulOrder
<1> QED
  BY <1>12, <1>14, <1>15

(* The number a decimal is.                                                *)
IsNumber(d, m) ==
    /\ m = Scaled(d, DECIMAL_BUFF_LENGTH)
    /\ ~d.sign => Number(d) = m /\ Num(Number(d)) = m
    /\ d.sign /\ m = 0 => Number(d) = NegZero /\ Num(Number(d)) = 0
    /\ d.sign /\ m # 0 => Number(d) = -m /\ Num(Number(d)) = -m

LEMMA Numbers ==
    ASSUME NEW d \in Decimals, ROUND_UP(d.frac) <= DECIMAL_BUFF_LENGTH
    PROVE  \E m \in Nat : IsNumber(d, m)
<1>1. DECIMAL_BUFF_LENGTH \in Nat
  BY WordAssumption
<1>2. PICK m \in Nat : m = Scaled(d, DECIMAL_BUFF_LENGTH)
  BY <1>1, ScaledTypes
<1>3. Number(d) = IF ~d.sign THEN m ELSE IF m = 0 THEN NegZero ELSE -m
  BY <1>2 DEF Number, Scaled
<1>4. m # NegZero /\ -m # NegZero
  <2>1. -m \in Int
    OBVIOUS
  <2> QED
    BY <2>1, NegZeroAssumption
<1>5. Num(m) = m /\ Num(-m) = -m /\ Num(NegZero) = 0
  BY <1>4 DEF Num
<1>6. ~d.sign => Number(d) = m
  BY <1>3, Zenon
<1>7. d.sign /\ m = 0 => Number(d) = NegZero
  BY <1>3, Zenon
<1>8. d.sign /\ m # 0 => Number(d) = -m
  BY <1>3, Zenon
<1>9. IsNumber(d, m)
  BY <1>2, <1>5, <1>6, <1>7, <1>8, Zenon DEF IsNumber
<1> QED
  BY <1>9

(* decimal_cmp() orders the numbers of any two decimals.                   *)
LEMMA CmpOrders ==
    ASSUME NEW a \in Decimals, NEW b \in Decimals,
           ROUND_UP(a.frac) <= DECIMAL_BUFF_LENGTH, ROUND_UP(b.frac) <= DECIMAL_BUFF_LENGTH
    PROVE  /\ decimal_cmp(a, b) = 0 <=> Number(a) = Number(b)
           /\ Num(Number(a)) < Num(Number(b)) => decimal_cmp(a, b) = -1
           /\ Num(Number(a)) > Num(Number(b)) => decimal_cmp(a, b) = 1
<1>1. DECIMAL_BUFF_LENGTH \in Nat
  BY WordAssumption
<1>2. PICK m \in Nat, n \in Nat : IsNumber(a, m) /\ IsNumber(b, n)
  BY Numbers
<1>3. (Less(a, b) <=> m < n) /\ (SameMagnitude(a, b) <=> m = n)
  BY <1>1, <1>2, Compared DEF IsNumber
<1>4. a.sign \in BOOLEAN /\ b.sign \in BOOLEAN
  BY DecimalTypes
<1>5. m # NegZero /\ -m # NegZero /\ n # NegZero /\ -n # NegZero
  <2>1. -m \in Int /\ -n \in Int
    OBVIOUS
  <2> QED
    BY <2>1, NegZeroAssumption
<1> DEFINE c == decimal_cmp(a, b)
<1>6. /\ a.sign /\ ~b.sign => c = -1
      /\ ~a.sign /\ b.sign => c = 1
  <2>1. CASE a.sign = TRUE /\ b.sign = FALSE
    <3>1. c = -1
      BY <2>1, Zenon DEF decimal_cmp
    <3> QED
      BY <2>1, <3>1
  <2>2. CASE a.sign = FALSE /\ b.sign = TRUE
    <3>1. c = 1
      BY <2>2, Zenon DEF decimal_cmp
    <3> QED
      BY <2>2, <3>1
  <2>3. (a.sign = TRUE \/ a.sign = FALSE) /\ (b.sign = TRUE \/ b.sign = FALSE)
    BY <1>4
  <2> QED
    BY <1>4, <2>1, <2>2, <2>3
<1>7. a.sign = b.sign /\ SameMagnitude(a, b) => c = 0
  BY Zenon DEF decimal_cmp
<1>8. a.sign /\ b.sign /\ ~SameMagnitude(a, b) => c = IF Less(a, b) THEN 1 ELSE -1
  <2> SUFFICES ASSUME a.sign, b.sign, ~SameMagnitude(a, b)
               PROVE  c = IF Less(a, b) THEN 1 ELSE -1
    OBVIOUS
  <2>1. a.sign = TRUE /\ b.sign = TRUE
    BY <1>4
  <2>2. Less(a, b) = TRUE \/ Less(a, b) = FALSE
    BY DEF Less
  <2>3. c = IF Less(a, b) = a.sign THEN 1 ELSE -1
    BY <2>1, Zenon DEF decimal_cmp
  <2> QED
    BY <2>1, <2>2, <2>3
<1>9. ~a.sign /\ ~b.sign /\ ~SameMagnitude(a, b) => c = IF Less(a, b) THEN -1 ELSE 1
  <2> SUFFICES ASSUME ~a.sign, ~b.sign, ~SameMagnitude(a, b)
               PROVE  c = IF Less(a, b) THEN -1 ELSE 1
    OBVIOUS
  <2>1. a.sign = FALSE /\ b.sign = FALSE
    BY <1>4
  <2>2. Less(a, b) = TRUE \/ Less(a, b) = FALSE
    BY DEF Less
  <2>3. c = IF Less(a, b) = a.sign THEN 1 ELSE -1
    BY <2>1, Zenon DEF decimal_cmp
  <2> QED
    BY <2>1, <2>2, <2>3
<1> HIDE DEF c
<1>10. PICK x, y, p, q : x = Number(a) /\ y = Number(b) /\ p = Num(x) /\ q = Num(y)
  OBVIOUS
<1> SUFFICES (c = 0 <=> x = y) /\ (p < q => c = -1) /\ (p > q => c = 1)
  BY <1>10 DEF c
<1>11. CASE a.sign /\ ~b.sign
  <2>1. c = -1 /\ y = n /\ q = n
    BY <1>2, <1>6, <1>10, <1>11, Zenon DEF IsNumber
  <2>2. CASE m = 0
    <3>1. x = NegZero /\ p = 0
      BY <1>2, <1>10, <1>11, <2>2, Zenon DEF IsNumber
    <3> QED
      BY <1>5, <2>1, <3>1
  <2>3. CASE m # 0
    <3>1. x = -m /\ p = -m
      BY <1>2, <1>10, <1>11, <2>3, Zenon DEF IsNumber
    <3> QED
      BY <2>1, <2>3, <3>1
  <2> QED
    BY <2>2, <2>3
<1>12. CASE ~a.sign /\ b.sign
  <2>1. c = 1 /\ x = m /\ p = m
    BY <1>2, <1>6, <1>10, <1>12, Zenon DEF IsNumber
  <2>2. CASE n = 0
    <3>1. y = NegZero /\ q = 0
      BY <1>2, <1>10, <1>12, <2>2, Zenon DEF IsNumber
    <3> QED
      BY <1>5, <2>1, <3>1
  <2>3. CASE n # 0
    <3>1. y = -n /\ q = -n
      BY <1>2, <1>10, <1>12, <2>3, Zenon DEF IsNumber
    <3> QED
      BY <2>1, <2>3, <3>1
  <2> QED
    BY <2>2, <2>3
<1>13. CASE ~a.sign /\ ~b.sign
  <2>1. x = m /\ p = m /\ y = n /\ q = n
    BY <1>2, <1>10, <1>13, Zenon DEF IsNumber
  <2>2. a.sign = b.sign
    BY <1>4, <1>13
  <2>3. c = IF m = n THEN 0 ELSE IF m < n THEN -1 ELSE 1
    BY <1>3, <1>7, <1>9, <1>13, <2>2
  <2> QED
    BY <2>1, <2>3
<1>14. CASE a.sign /\ b.sign
  <2>1. p = -m /\ q = -n
    <3>1. p = (IF m = 0 THEN 0 ELSE -m) /\ q = (IF n = 0 THEN 0 ELSE -n)
      BY <1>2, <1>10, <1>14, Zenon DEF IsNumber
    <3> QED
      BY <3>1
  <2>2. x = (IF m = 0 THEN NegZero ELSE -m) /\ y = (IF n = 0 THEN NegZero ELSE -n)
    BY <1>2, <1>10, <1>14, Zenon DEF IsNumber
  <2>3. a.sign = b.sign
    BY <1>4, <1>14
  <2>4. c = IF m = n THEN 0 ELSE IF m < n THEN 1 ELSE -1
    BY <1>3, <1>7, <1>8, <1>14, <2>3
  <2>5. x = y <=> m = n
    BY <1>5, <2>2
  <2> QED
    BY <2>1, <2>4, <2>5
<1> QED
  BY <1>4, <1>11, <1>12, <1>13, <1>14

-----------------------------------------------------------------------------
(* What a program has for operands. *)

Fits(d) == ROUND_UP(d.intg) + ROUND_UP(d.frac) <= DECIMAL_BUFF_LENGTH

LEMMA FunctionSeq ==
    ASSUME NEW S, NEW n \in Nat, NEW s \in [1 .. n -> S]
    PROVE  s \in Seq(S) /\ Len(s) = n
<1>1. s \in Seq(S)
  <2>1. s = [k \in 1 .. n |-> s[k]] /\ \A k \in 1 .. n : s[k] \in S
    OBVIOUS
  <2> QED
    BY <2>1, SeqDef
<1>2. PICK m \in Nat : m = Len(s) /\ DOMAIN s = 1 .. m
  BY <1>1, LenProperties
<1>3. 1 .. m = 1 .. n
  BY <1>2
<1>4. m = n
  <2>1. (m \in 1 .. m <=> m \in 1 .. n) /\ (n \in 1 .. m <=> n \in 1 .. n)
    BY <1>3
  <2> QED
    BY <2>1
<1> QED
  BY <1>1, <1>2, <1>4

LEMMA LiteralTypes ==
    ASSUME NEW d \in Literals
    PROVE  /\ d \in Decimals
           /\ Fits(d)
           /\ d.buf # <<>>
           /\ d.sign => ~decimal_is_zero(d)
<1>1. PICK s \in Shapes :
        /\ d \in [sign : BOOLEAN, intg : {s[1]}, frac : {s[2]},
                  buf : [1 .. ROUND_UP(s[1]) + ROUND_UP(s[2]) -> 0 .. DIG_MAX]]
        /\ WordsOK(d)
        /\ d.sign => ~decimal_is_zero(d)
  BY DEF Literals
<1>2. /\ s[1] \in Nat /\ s[2] \in Nat /\ ~(s[1] = 0 /\ s[2] = 0)
      /\ ROUND_UP(s[1]) + ROUND_UP(s[2]) <= DECIMAL_BUFF_LENGTH
  BY WordAssumption, ShapesAssumption
<1>3. PICK i \in Nat, f \in Nat : i = s[1] /\ f = s[2] /\ ~(i = 0 /\ f = 0)
  BY <1>2
<1>4. /\ d \in [sign : BOOLEAN, intg : {i}, frac : {f},
                buf : [1 .. ROUND_UP(i) + ROUND_UP(f) -> 0 .. DIG_MAX]]
      /\ ROUND_UP(i) + ROUND_UP(f) <= DECIMAL_BUFF_LENGTH
  BY <1>1, <1>2, <1>3
<1>5. PICK k \in Nat, l \in Nat : k = ROUND_UP(i) /\ l = ROUND_UP(f)
  BY RoundUp
<1>6. k + l \in Nat \ {0}
  <2>1. DIG_PER_DEC1 \in Nat /\ i <= k * DIG_PER_DEC1 /\ f <= l * DIG_PER_DEC1
    BY <1>5, RoundUp, WordAssumption
  <2>2. k = 0 => k * DIG_PER_DEC1 = 0
    BY <2>1
  <2>3. l = 0 => l * DIG_PER_DEC1 = 0
    BY <2>1
  <2> QED
    BY <1>3, <2>1, <2>2, <2>3
<1>7. d.buf \in [1 .. k + l -> 0 .. DIG_MAX]
  <2>1. d.buf \in [1 .. ROUND_UP(i) + ROUND_UP(f) -> 0 .. DIG_MAX]
    BY <1>4
  <2> QED
    BY <1>5, <2>1, Zenon
<1>8. d.buf \in Seq(0 .. DIG_MAX) /\ Len(d.buf) = k + l
  <2>0. PICK n \in Nat : n = k + l
    OBVIOUS
  <2>1. PICK t : n = k + l /\ t = d.buf
    BY <2>0
  <2>2. t \in [1 .. n -> 0 .. DIG_MAX]
    BY <1>7, <2>1
  <2>3. t \in Seq(0 .. DIG_MAX) /\ Len(t) = n
    BY <2>2, FunctionSeq
  <2> QED
    BY <2>1, <2>3
<1>9. d \in [sign : BOOLEAN, intg : Nat, frac : Nat, buf : Seq(0 .. DIG_MAX)]
  BY <1>4, <1>8
<1>10. d.buf # <<>>
  BY <1>6, <1>8
<1>11. Fits(d)
  BY <1>4 DEF Fits
<1> QED
  BY <1>1, <1>9, <1>10, <1>11 DEF Decimals

LEMMA AccTypes ==
    ASSUME TypeOK
    PROVE  acc \in Decimals /\ Fits(acc)
<1>1. acc \in Decimals
  BY DEF TypeOK, Decimals
<1>2. Len(acc.buf) = ROUND_UP(acc.intg) + ROUND_UP(acc.frac)
  BY DEF TypeOK, WordsOK
<1>3. Len(acc.buf) <= DECIMAL_BUFF_LENGTH
  BY WordAssumption DEF TypeOK
<1> QED
  BY <1>1, <1>2, <1>3 DEF Fits

LEMMA FracFits ==
    ASSUME NEW d \in Decimals, Fits(d)
    PROVE  /\ ROUND_UP(d.frac) \in Nat /\ ROUND_UP(d.frac) <= DECIMAL_BUFF_LENGTH
           /\ ROUND_UP(d.intg) \in Nat /\ ROUND_UP(d.intg) <= DECIMAL_BUFF_LENGTH
           /\ DECIMAL_BUFF_LENGTH \in Nat \ {0}
<1>1. PICK i \in Nat, f \in Nat : i = ROUND_UP(d.intg) /\ f = ROUND_UP(d.frac)
  BY DecimalTypes
<1> QED
  BY <1>1, WordAssumption DEF Fits

(* A comparison of what a program made with a literal orders the numbers,  *)
(* and answers 0 for the same number only.                                 *)
THEOREM CmpIsRight == TypeOK => CmpIsOrder
<1> SUFFICES ASSUME TypeOK, NEW y \in Literals
             PROVE  /\ decimal_cmp(acc, y) = 0 <=> Number(acc) = Number(y)
                    /\ Num(Number(acc)) < Num(Number(y)) => decimal_cmp(acc, y) = -1
                    /\ Num(Number(acc)) > Num(Number(y)) => decimal_cmp(acc, y) = 1
  BY DEF CmpIsOrder
<1>1. PICK a : a = acc
  OBVIOUS
<1>2. a \in Decimals /\ Fits(a) /\ y \in Decimals /\ Fits(y)
  BY <1>1, AccTypes, LiteralTypes
<1>3. /\ ROUND_UP(a.frac) <= DECIMAL_BUFF_LENGTH
      /\ ROUND_UP(y.frac) <= DECIMAL_BUFF_LENGTH
  BY <1>2, FracFits
<1> QED
  BY <1>1, <1>2, <1>3, CmpOrders

-----------------------------------------------------------------------------
(* Carries: each word of t with what the word after it left of its sum.    *)

Carries(s, t, lo, hi) ==
    s = [p \in lo .. hi + 1 |-> IF p > hi THEN 0 ELSE t[p] + s[p + 1] \div DIG_BASE]

LEMMA CarriesExist ==
    ASSUME NEW lo \in Int, NEW hi \in Int, lo <= hi + 1, NEW t, \A p \in lo .. hi : t[p] \in Int
    PROVE  \E s : Carries(s, t, lo, hi)
<1>1. PICK B \in Nat \ {0} : B = DIG_BASE
  BY Base
<1> DEFINE G == [k \in Nat |-> [x \in Int |-> IF hi - k >= lo THEN t[hi - k] + x \div B ELSE 0]]
<1>2. G \in [Nat -> [Int -> Int]]
  <2>1. ASSUME NEW k \in Nat, NEW x \in Int
        PROVE  (IF hi - k >= lo THEN t[hi - k] + x \div B ELSE 0) \in Int
    <3>1. x \div B \in Int
      OBVIOUS
    <3>2. hi - k >= lo => hi - k \in lo .. hi
      OBVIOUS
    <3> QED
      BY <3>1, <3>2
  <2> QED
    BY <2>1
<1>3. \A k \in Nat, x \in Int : G[k][x] = IF hi - k >= lo THEN t[hi - k] + x \div B ELSE 0
  OBVIOUS
<1>4. PICK r : Follows(r, 0, G, Int)
  <2>1. 0 \in Int
    OBVIOUS
  <2> HIDE DEF G
  <2> QED
    BY <1>2, <2>1, Recursion, Zenon
<1> HIDE DEF G
<1>5. /\ r[0] = 0
      /\ \A k \in Nat : r[k] \in Int /\ r[k + 1] = IF hi - k >= lo THEN t[hi - k] + r[k] \div B ELSE 0
  <2>1. r \in [Nat -> Int] /\ r[0] = 0 /\ \A k \in Nat : r[k + 1] = G[k][r[k]]
    BY <1>4, Zenon DEF Follows
  <2>2. \A k \in Nat : r[k] \in Int
    BY <2>1
  <2> QED
    BY <1>3, <2>1, <2>2
<1> DEFINE s == [p \in lo .. hi + 1 |-> r[hi + 1 - p]]
<1>6. ASSUME NEW p \in lo .. hi + 1
      PROVE  s[p] = IF p > hi THEN 0 ELSE t[p] + s[p + 1] \div B
  <2>1. CASE p > hi
    BY <1>5, <2>1
  <2>2. CASE p <= hi
    <3>1. PICK k \in Nat : k = hi - p
      BY <2>2
    <3>2. p = hi - k /\ hi + 1 - p = k + 1 /\ hi + 1 - (p + 1) = k /\ p + 1 \in lo .. hi + 1
      BY <2>2, <3>1
    <3>3. s[p] = r[k + 1] /\ s[p + 1] = r[k]
      BY <3>2
    <3>4. hi - k >= lo
      BY <3>2
    <3>5. r[k + 1] = t[p] + r[k] \div B
      BY <1>5, <3>2, <3>4
    <3> QED
      BY <2>2, <3>3, <3>5
  <2> QED
    BY <2>1, <2>2
<1>7. s = [p \in lo .. hi + 1 |-> IF p > hi THEN 0 ELSE t[p] + s[p + 1] \div DIG_BASE]
  <2>1. s = [p \in lo .. hi + 1 |-> s[p]]
    OBVIOUS
  <2> HIDE DEF s
  <2> QED
    BY <1>1, <1>6, <2>1
<1> HIDE DEF s
<1> QED
  BY <1>7 DEF Carries

Carried(s, t, lo, n) ==
    /\ \A k \in 0 .. n : s[lo + k] \in Int
    /\ s[lo + n] = 0
    /\ \A k \in 0 .. n - 1 : s[lo + k] = t[lo + k] + s[lo + k + 1] \div DIG_BASE

LEMMA CarryTypes ==
    ASSUME NEW lo \in Int, NEW n \in Nat, NEW hi \in Int, hi = lo + n - 1, NEW t, NEW s,
           \A p \in lo .. hi : t[p] \in Int, Carries(s, t, lo, hi)
    PROVE  Carried(s, t, lo, n)
<1>1. PICK B \in Nat \ {0} : B = DIG_BASE
  BY Base
<1>2. s = [p \in lo .. lo + n |-> IF p > lo + n - 1 THEN 0 ELSE t[p] + s[p + 1] \div B]
  <2>1. hi + 1 = lo + n
    OBVIOUS
  <2> QED
    BY <1>1, <2>1 DEF Carries
<1>3. ASSUME NEW k \in 0 .. n
      PROVE  s[lo + k] = IF lo + k > lo + n - 1 THEN 0 ELSE t[lo + k] + s[lo + k + 1] \div B
  <2>1. lo + k \in lo .. lo + n
    OBVIOUS
  <2> QED
    BY <1>2, <2>1
<1>4. s[lo + n] = 0
  <2>1. n \in 0 .. n /\ lo + n > lo + n - 1
    OBVIOUS
  <2> QED
    BY <1>3, <2>1
<1>5. \A k \in 0 .. n - 1 : s[lo + k] = t[lo + k] + s[lo + k + 1] \div B
  <2> SUFFICES ASSUME NEW k \in 0 .. n - 1
               PROVE  s[lo + k] = t[lo + k] + s[lo + k + 1] \div B
    OBVIOUS
  <2>1. k \in 0 .. n /\ ~(lo + k > lo + n - 1)
    OBVIOUS
  <2> QED
    BY <1>3, <2>1
<1> DEFINE K == {m \in Nat : m <= n => s[lo + (n - m)] \in Int}
<1>6. 0 \in K
  BY <1>4
<1>7. ASSUME NEW m \in Nat, m \in K
      PROVE  m + 1 \in K
  <2> SUFFICES ASSUME m + 1 <= n
               PROVE  s[lo + (n - (m + 1))] \in Int
    OBVIOUS
  <2>1. PICK k \in 0 .. n - 1 : k = n - (m + 1)
    OBVIOUS
  <2>2. PICK x \in Int : x = s[lo + k + 1]
    <3>1. lo + (n - m) = lo + k + 1
      BY <2>1
    <3> QED
      BY <1>7, <3>1
  <2>3. lo + k \in lo .. lo + n - 1
    OBVIOUS
  <2>4. s[lo + k] = t[lo + k] + x \div B /\ t[lo + k] \in Int
    BY <1>5, <2>2, <2>3
  <2>5. x \div B \in Int
    OBVIOUS
  <2> QED
    BY <2>1, <2>4, <2>5
<1> HIDE DEF K
<1>8. \A m \in Nat : m \in K
  BY <1>6, <1>7, SetInduction
<1>9. ASSUME NEW k \in 0 .. n PROVE s[lo + k] \in Int
  <2>1. n - k \in Nat /\ n - k <= n /\ lo + (n - (n - k)) = lo + k
    OBVIOUS
  <2>2. n - k \in K
    BY <1>8, <2>1
  <2> QED
    BY <2>1, <2>2 DEF K
<1> QED
  BY <1>1, <1>4, <1>5, <1>9 DEF Carried

(* With the carries taken out the words make the same number, less what    *)
(* the first one carries.                                                  *)
TakenOut(s, u, w, lo, n) ==
    /\ AreWords(w, n)
    /\ s[lo] \in Int /\ s[lo] \div DIG_BASE \in Int
    /\ Positional(u, n) = (s[lo] \div DIG_BASE) * Power(DIG_BASE, n) + Positional(w, n)

LEMMA Carrying ==
    ASSUME NEW lo \in Int, NEW n \in Nat, NEW hi \in Int, hi = lo + n - 1, NEW t, NEW s,
           \A p \in lo .. hi : t[p] \in Int, Carries(s, t, lo, hi), NEW w, NEW u,
           \A k \in 1 .. n : w[k] = s[lo + k - 1] % DIG_BASE /\ u[k] = t[lo + k - 1]
    PROVE  TakenOut(s, u, w, lo, n)
<1>1. PICK B \in Nat \ {0} : B = DIG_BASE
  BY Base
<1>2. /\ \A k \in 0 .. n : s[lo + k] \in Int
      /\ s[lo + n] = 0
      /\ \A k \in 0 .. n - 1 : s[lo + k] = t[lo + k] + s[lo + k + 1] \div B
  <2>1. Carried(s, t, lo, n)
    BY CarryTypes
  <2> QED
    BY <1>1, <2>1 DEF Carried
<1>3. ASSUME NEW k \in 1 .. n
      PROVE  /\ w[k] \in 0 .. B - 1 /\ u[k] \in Int
             /\ w[k] = s[lo + (k - 1)] % B /\ u[k] = t[lo + (k - 1)]
  <2>1. lo + k - 1 = lo + (k - 1) /\ k - 1 \in 0 .. n /\ lo + (k - 1) \in lo .. lo + n - 1
    OBVIOUS
  <2>2. w[k] = s[lo + (k - 1)] % B /\ u[k] = t[lo + (k - 1)]
    BY <1>1, <2>1
  <2>3. PICK x \in Int : x = s[lo + (k - 1)]
    BY <1>2, <2>1
  <2> QED
    BY <2>1, <2>2, <2>3
<1>4. AreWords(w, n)
  BY <1>1, <1>3, Base DEF AreWords
<1>5. PICK c \in Int : s[lo] \in Int /\ c = s[lo] \div B
  <2>1. 0 \in 0 .. n /\ lo + 0 = lo
    OBVIOUS
  <2>2. s[lo] \in Int
    BY <1>2, <2>1
  <2> QED
    BY <2>2
<1>6. /\ \A m \in 0 .. n : Positional(u, m) \in Int /\ Positional(w, m) \in Int
      /\ Positional(u, 0) = 0 /\ Positional(w, 0) = 0
      /\ \A m \in 0 .. n - 1 : /\ Positional(u, m + 1) = Positional(u, m) * B + u[m + 1]
                               /\ Positional(w, m + 1) = Positional(w, m) * B + w[m + 1]
  BY <1>1, <1>3, Positionals
<1> DEFINE K == {m \in Nat : m <= n => Positional(u, m) + s[lo + m] \div B
                                         = c * Power(B, m) + Positional(w, m)}
<1>7. 0 \in K
  <2>1. Power(B, 0) = 1
    BY Powers
  <2>2. lo + 0 = lo
    OBVIOUS
  <2> QED
    BY <1>5, <1>6, <2>1, <2>2
<1>8. ASSUME NEW m \in Nat, m \in K
      PROVE  m + 1 \in K
  <2> SUFFICES ASSUME m + 1 <= n
               PROVE  Positional(u, m + 1) + s[lo + (m + 1)] \div B
                        = c * Power(B, m + 1) + Positional(w, m + 1)
    OBVIOUS
  <2>1. m \in 0 .. n - 1 /\ m \in 0 .. n /\ m + 1 \in 0 .. n /\ m + 1 \in 1 .. n
        /\ lo + (m + 1) = lo + m + 1 /\ (m + 1) - 1 = m
    OBVIOUS
  <2>2. PICK p \in Int, q \in Int, x \in Int, y \in Int :
          p = Positional(u, m) /\ q = Positional(w, m) /\ x = s[lo + m] /\ y = s[lo + (m + 1)]
    BY <1>2, <1>6, <2>1
  <2>3. PICK e \in Int : e = Power(B, m) /\ Power(B, m + 1) = e * B
    <3>1. B \in Int
      OBVIOUS
    <3>2. Power(B, m) \in Int /\ Power(B, m + 1) = Power(B, m) * B
      BY <3>1, Powers
    <3> QED
      BY <3>2
  <2>4. p + x \div B = c * e + q
    BY <1>8, <2>2, <2>3
  <2>5. PICK i \in Int, j \in Int, g \in Int :
          i = x \div B /\ j = y \div B /\ g = x % B /\ x = B * i + g
    <3>1. x \div B \in Int /\ x % B \in 0 .. B - 1 /\ x = B * (x \div B) + (x % B)
      BY Division
    <3>2. y \div B \in Int
      BY Division
    <3> QED
      BY <3>1, <3>2
  <2>6. w[m + 1] = g
    BY <1>3, <2>1, <2>2, <2>5
  <2>7. u[m + 1] = x - j
    <3>1. x = t[lo + m] + j
      BY <1>2, <2>1, <2>2, <2>5
    <3>2. t[lo + m] \in Int /\ u[m + 1] = t[lo + m]
      BY <1>3, <2>1
    <3> QED
      BY <3>1, <3>2
  <2>8. Positional(u, m + 1) = p * B + (x - j) /\ Positional(w, m + 1) = q * B + g
    BY <1>6, <2>1, <2>2, <2>6, <2>7
  <2>9. p * B + (x - j) + j = c * (e * B) + (q * B + g)
    <3>1. p * B + x = (p + i) * B + g
      BY <2>5
    <3>2. (p + i) * B = (c * e + q) * B
      BY <2>4, <2>5
    <3>3. (c * e + q) * B = c * (e * B) + q * B
      OBVIOUS
    <3>4. p * B \in Int /\ q * B \in Int /\ c * (e * B) \in Int
      OBVIOUS
    <3> QED
      BY <3>1, <3>2, <3>3, <3>4
  <2>10. p * B + (x - j) \in Int /\ p * B \in Int
    OBVIOUS
  <2> QED
    BY <2>2, <2>3, <2>5, <2>8, <2>9
<1> HIDE DEF K
<1>9. \A m \in Nat : m \in K
  BY <1>7, <1>8, SetInduction
<1>10. Positional(u, n) + s[lo + n] \div B = c * Power(B, n) + Positional(w, n)
  BY <1>9 DEF K
<1>11. s[lo + n] \div B = 0
  BY <1>2
<1>12. Positional(u, n) \in Int
  BY <1>6
<1> QED
  BY <1>1, <1>4, <1>5, <1>10, <1>11, <1>12 DEF TakenOut

(* Words that are sums or differences make the sum or the difference.      *)
LEMMA PositionalLinear ==
    ASSUME NEW n \in Nat, NEW c \in Int, NEW u, NEW v, NEW w,
           \A k \in 1 .. n : v[k] \in Int /\ w[k] \in Int /\ u[k] = v[k] + c * w[k]
    PROVE  Positional(u, n) = Positional(v, n) + c * Positional(w, n)
<1>1. PICK B \in Int : B = DIG_BASE
  BY Base
<1>2. /\ \A m \in 0 .. n : Positional(u, m) \in Int /\ Positional(v, m) \in Int /\ Positional(w, m) \in Int
      /\ Positional(u, 0) = 0 /\ Positional(v, 0) = 0 /\ Positional(w, 0) = 0
      /\ \A m \in 0 .. n - 1 : /\ Positional(u, m + 1) = Positional(u, m) * B + u[m + 1]
                               /\ Positional(v, m + 1) = Positional(v, m) * B + v[m + 1]
                               /\ Positional(w, m + 1) = Positional(w, m) * B + w[m + 1]
  <2>1. \A k \in 1 .. n : u[k] \in Int
    OBVIOUS
  <2> QED
    BY <1>1, <2>1, Positionals
<1> DEFINE K == {m \in Nat : m <= n => Positional(u, m) = Positional(v, m) + c * Positional(w, m)}
<1>3. 0 \in K
  BY <1>2
<1>4. ASSUME NEW m \in Nat, m \in K
      PROVE  m + 1 \in K
  <2> SUFFICES ASSUME m + 1 <= n
               PROVE  Positional(u, m + 1) = Positional(v, m + 1) + c * Positional(w, m + 1)
    OBVIOUS
  <2>1. m \in 0 .. n - 1 /\ m \in 0 .. n /\ m + 1 \in 1 .. n
    OBVIOUS
  <2>2. PICK x \in Int, y \in Int, z \in Int :
          x = Positional(u, m) /\ y = Positional(v, m) /\ z = Positional(w, m)
    BY <1>2, <2>1
  <2>3. PICK i \in Int, j \in Int : i = v[m + 1] /\ j = w[m + 1] /\ u[m + 1] = i + c * j
    BY <2>1
  <2>4. /\ Positional(u, m + 1) = x * B + (i + c * j)
        /\ Positional(v, m + 1) = y * B + i
        /\ Positional(w, m + 1) = z * B + j
    BY <1>2, <2>1, <2>2, <2>3
  <2>5. x = y + c * z
    BY <1>4, <2>1, <2>2
  <2>6. x * B = y * B + c * (z * B)
    BY <2>5
  <2>7. c * (z * B + j) = c * (z * B) + c * j
    OBVIOUS
  <2> QED
    BY <2>4, <2>6, <2>7
<1> HIDE DEF K
<1>5. \A m \in Nat : m \in K
  BY <1>3, <1>4, SetInduction
<1> QED
  BY <1>5 DEF K

(* Without the words after the first f of the fraction less than one of    *)
(* the last kept word is lost, and nothing if they are zeros.              *)
IsCut(d, i, f, g) ==
    \E p \in Nat, c \in Nat \ {0}, r \in Nat :
        /\ p = Positional(WordsIn(d, i, f), i + f)
        /\ c = Power(DIG_BASE, g - f)
        /\ Scaled(d, g) = p * c + r
        /\ r < c
        /\ ROUND_UP(d.frac) <= f => r = 0

LEMMA Cut ==
    ASSUME NEW d \in Decimals, NEW i \in Nat, NEW f \in Nat, NEW g \in Nat,
           ROUND_UP(d.intg) <= i, ROUND_UP(d.frac) <= g, f <= g
    PROVE  IsCut(d, i, f, g)
<1>1. PICK e \in Nat : e = g - f /\ g = f + e
  OBVIOUS
<1>2. PICK c \in Nat \ {0} : c = Power(DIG_BASE, e)
  BY Base, PowerPositive
<1>3. PICK w, u, v : w = WordsIn(d, i, g) /\ u = WordsIn(d, i, f)
                     /\ v = [k \in 1 .. e |-> Word(d, f + k)]
  OBVIOUS
<1>4. AreWords(w, i + g) /\ AreWords(u, i + f)
  <2>1. AreWords(WordsIn(d, i, g), i + g) /\ AreWords(WordsIn(d, i, f), i + f)
    BY Aligned
  <2> QED
    BY <1>3, <2>1
<1>5. \A k \in 1 .. e : f + k \in Int /\ v[k] = Word(d, f + k) /\ v[k] \in 0 .. DIG_MAX
  <2> SUFFICES ASSUME NEW k \in 1 .. e
               PROVE  f + k \in Int /\ v[k] = Word(d, f + k) /\ v[k] \in 0 .. DIG_MAX
    OBVIOUS
  <2>1. f + k \in Int
    OBVIOUS
  <2>2. v[k] = Word(d, f + k)
    BY <1>3
  <2> QED
    BY <2>1, <2>2, WordTypes
<1>6. \A k \in 1 .. i + g : w[k] \in Int
  BY <1>4, Base DEF AreWords
<1>7. \A k \in 1 .. i + f : w[k] \in Int /\ u[k] = w[k]
  <2> SUFFICES ASSUME NEW k \in 1 .. i + f PROVE w[k] \in Int /\ u[k] = w[k]
    OBVIOUS
  <2>1. k \in 1 .. i + g
    BY <1>1
  <2> QED
    BY <1>3, <1>6, <2>1 DEF WordsIn
<1>8. PICK n \in Nat : n = i + f /\ n + e = i + g
  BY <1>1
<1>9. \A k \in 1 .. e : v[k] = w[n + k]
  <2> SUFFICES ASSUME NEW k \in 1 .. e PROVE v[k] = w[n + k]
    OBVIOUS
  <2>1. n + k \in 1 .. i + g /\ (n + k) - i = f + k
    BY <1>8
  <2>2. w[n + k] = Word(d, (n + k) - i)
    BY <1>3, <2>1 DEF WordsIn
  <2> QED
    BY <1>5, <2>1, <2>2
<1>10. Positional(w, n + e) = Positional(w, n) * Power(DIG_BASE, e) + Positional(v, e)
  <2>1. \A k \in 1 .. n + e : w[k] \in Int
    BY <1>6, <1>8
  <2> QED
    BY <1>9, <2>1, PositionalSplit
<1>11. Positional(u, n) = Positional(w, n)
  BY <1>7, <1>8, PositionalSame
<1>12. AreWords(v, e)
  BY <1>5 DEF AreWords
<1>13. PICK r \in Nat : r = Positional(v, e) /\ r < c
  BY <1>2, <1>12, PositionalRange
<1>14. PICK p \in Nat : p = Positional(u, n)
  BY <1>4, <1>8, PositionalRange
<1>15. Scaled(d, g) = Positional(w, n + e)
  <2>1. Positional(WordsIn(d, i, g), i + g)
          = Mantissa(d) * Power(DIG_BASE, g - ROUND_UP(d.frac))
    BY Aligned
  <2> QED
    BY <1>3, <1>8, <2>1 DEF Scaled
<1>16. Scaled(d, g) = p * c + r
  BY <1>2, <1>10, <1>11, <1>13, <1>14, <1>15
<1>17. ASSUME ROUND_UP(d.frac) <= f PROVE r = 0
  <2>1. PICK h \in Nat : h = ROUND_UP(d.frac)
    BY DecimalTypes
  <2>2. \A k \in 1 .. e : v[k] = 0
    <3> SUFFICES ASSUME NEW k \in 1 .. e PROVE v[k] = 0
      OBVIOUS
    <3>1. f + k \in Int /\ f + k > h
      BY <1>17, <2>1
    <3>2. f + k \notin 1 - ROUND_UP(d.intg) .. h
      BY <3>1
    <3> QED
      BY <1>5, <2>1, <3>1, <3>2, WordTypes
  <2> QED
    BY <1>13, <2>2, PositionalZeros
<1> QED
  BY <1>1, <1>2, <1>3, <1>8, <1>13, <1>14, <1>16, <1>17 DEF IsCut

-----------------------------------------------------------------------------
(* What the sums and differences make of their words.                      *)

LEMMA WholeWords ==
    ASSUME NEW n \in Int
    PROVE  (n * DIG_PER_DEC1) % DIG_PER_DEC1 = 0
<1>1. PICK b \in Nat \ {0} : b = DIG_PER_DEC1
  BY WordAssumption
<1>2. n * b \in Int /\ n * b = b * n + 0 /\ 0 \in 0 .. b - 1
  OBVIOUS
<1>3. (n * b) % b = 0
  BY <1>2, DivisionIs
<1> QED
  BY <1>1, <1>3

(* Digits of the last word that frac does not count are zeros.             *)
LastDigits(frac, F, word) ==
    F = ROUND_UP(frac) /\ frac % DIG_PER_DEC1 # 0
      => word[F] % Power(Radix, DIG_PER_DEC1 - (frac % DIG_PER_DEC1)) = 0

Makes(r, sign, error, I, F, word) ==
    /\ r.error = error
    /\ r.to \in Decimals
    /\ r.to.sign = sign
    /\ r.to.intg = I * DIG_PER_DEC1
    /\ ROUND_UP(r.to.intg) = I
    /\ ROUND_UP(r.to.frac) = F
    /\ r.to.buf = [k \in 1 .. I + F |-> word[k - I]]
    /\ Mantissa(r.to) = Positional([k \in 1 .. I + F |-> word[k - I]], I + F)

LEMMA ResultMakes ==
    ASSUME NEW sign \in BOOLEAN, NEW frac \in Nat, NEW fix, NEW word, NEW I \in Nat, NEW F \in Nat,
           fix.intg = I, fix.frac = F, F <= ROUND_UP(frac),
           \A p \in 1 - I .. F : word[p] \in 0 .. DIG_MAX, LastDigits(frac, F, word)
    PROVE  Makes(Result(sign, frac, fix, word), sign, fix.error, I, F, word)
<1>1. PICK b \in Nat \ {0} : b = DIG_PER_DEC1
  BY WordAssumption
<1>2. PICK u \in Nat : u = ROUND_UP(frac) /\ frac <= u * b /\ u * b < frac + b
  <2>1. ROUND_UP(frac) \in Nat
    BY RoundUp
  <2>2. frac <= ROUND_UP(frac) * DIG_PER_DEC1 /\ ROUND_UP(frac) * DIG_PER_DEC1 < frac + DIG_PER_DEC1
    BY RoundUp
  <2> QED
    BY <1>1, <2>1, <2>2
<1>3. F * b \in Nat /\ I * b \in Nat
  OBVIOUS
<1>4. PICK g \in Nat : /\ g = Min({frac, F * DIG_PER_DEC1})
                       /\ ROUND_UP(g) = F
                       /\ \/ g = frac /\ F = u
                          \/ g = F * DIG_PER_DEC1
  <2>1. CASE frac <= F * b
    <3>1. Min({frac, F * DIG_PER_DEC1}) = frac
      <4>1. PICK h \in Int : h = F * DIG_PER_DEC1 /\ frac <= h
        BY <1>1, <1>3, <2>1
      <4>2. Min({frac, h}) = IF frac <= h THEN frac ELSE h
        <5>1. frac \in Int
          OBVIOUS
        <5> QED
          BY ONLY <4>1, <5>1, MaxOfTwo
      <4> QED
        BY <4>1, <4>2
    <3>2. ROUND_UP(frac) <= ROUND_UP(F * DIG_PER_DEC1)
      BY <1>1, <1>3, <2>1, RoundUpMonotonic
    <3>3. u <= F
      BY <1>2, <3>2, RoundUpWords
    <3> QED
      BY <1>2, <3>1, <3>3
  <2>2. CASE ~(frac <= F * b)
    <3>1. Min({frac, F * DIG_PER_DEC1}) = F * DIG_PER_DEC1
      <4>1. PICK h \in Int : h = F * DIG_PER_DEC1 /\ ~(frac <= h)
        BY <1>1, <1>3, <2>2
      <4>2. Min({frac, h}) = IF frac <= h THEN frac ELSE h
        <5>1. frac \in Int
          OBVIOUS
        <5> QED
          BY ONLY <4>1, <5>1, MaxOfTwo
      <4> QED
        BY <4>1, <4>2
    <3>2. ROUND_UP(F * DIG_PER_DEC1) = F
      BY RoundUpWords
    <3> QED
      BY <1>1, <1>3, <3>1, <3>2
  <2> QED
    BY <2>1, <2>2
<1> DEFINE buf == [k \in 1 .. I + F |-> word[k - I]]
           to == [sign |-> sign, intg |-> I * DIG_PER_DEC1, frac |-> g, buf |-> buf]
<1>5. Result(sign, frac, fix, word) = [to |-> to, error |-> fix.error]
  BY <1>4 DEF Result
<1>6. \A k \in 1 .. I + F : k - I \in 1 - I .. F /\ buf[k] = word[k - I] /\ buf[k] \in 0 .. DIG_MAX
  OBVIOUS
<1>7. buf \in Seq(0 .. DIG_MAX) /\ Len(buf) = I + F /\ DOMAIN buf = 1 .. I + F
  <2>1. PICK n \in Nat : n = I + F
    OBVIOUS
  <2>2. buf \in [1 .. n -> 0 .. DIG_MAX]
    BY <1>6, <2>1
  <2> HIDE DEF buf
  <2> QED
    BY <2>1, <2>2, FunctionSeq
<1>8. ROUND_UP(I * DIG_PER_DEC1) = I /\ (I * DIG_PER_DEC1) % DIG_PER_DEC1 = 0
  BY RoundUpWords, WholeWords
<1>9. g % DIG_PER_DEC1 # 0 => Last(buf) % Power(Radix, DIG_PER_DEC1 - (g % DIG_PER_DEC1)) = 0
  <2> SUFFICES ASSUME g % DIG_PER_DEC1 # 0
               PROVE  Last(buf) % Power(Radix, DIG_PER_DEC1 - (g % DIG_PER_DEC1)) = 0
    OBVIOUS
  <2>1. g = frac /\ F = u
    BY <1>4, WholeWords
  <2>2. word[F] % Power(Radix, DIG_PER_DEC1 - (g % DIG_PER_DEC1)) = 0
    BY <1>2, <2>1 DEF LastDigits
  <2>3. F # 0
    <3>1. ASSUME F = 0 PROVE FALSE
      <4>1. g = 0 /\ g % b = 0
        BY <1>2, <2>1, <3>1
      <4> QED
        BY <1>1, <2>1, <4>1
    <3> QED
      BY <3>1
  <2>4. Last(buf) = buf[I + F]
    BY <1>7 DEF Last
  <2>5. I + F \in 1 .. I + F /\ (I + F) - I = F
    BY <2>3
  <2>6. buf[I + F] = word[F]
    BY <1>6, <2>5
  <2> QED
    BY <2>2, <2>4, <2>6
<1> HIDE DEF buf
<1>10. to \in Decimals
  <2>1. to \in [sign : BOOLEAN, intg : Nat, frac : Nat, buf : Seq(0 .. DIG_MAX)]
    BY <1>1, <1>3, <1>7
  <2>2. /\ to.intg = I * DIG_PER_DEC1 /\ to.frac = g /\ to.buf = buf
    OBVIOUS
  <2>3. WordsOK(to)
    BY <1>4, <1>6, <1>7, <1>8, <1>9, <2>2 DEF WordsOK
  <2> QED
    BY <2>1, <2>3 DEF Decimals
<1>11. Mantissa(to) = Positional(buf, I + F)
  BY <1>7 DEF Mantissa
<1>12. Result(sign, frac, fix, word).to = to /\ Result(sign, frac, fix, word).error = fix.error
  BY <1>5
<1>13. /\ to.sign = sign /\ to.intg = I * DIG_PER_DEC1 /\ to.frac = g /\ to.buf = buf
  OBVIOUS
<1> HIDE DEF to
<1> QED
  BY <1>4, <1>8, <1>10, <1>11, <1>12, <1>13 DEF Makes, buf

LEMMA FixIs ==
    ASSUME NEW i \in Nat, NEW f \in Nat
    PROVE  /\ i + f <= DECIMAL_BUFF_LENGTH =>
                FixIntgFrac(i, f) = [intg |-> i, frac |-> f, error |-> E_DEC_OK]
           /\ i > DECIMAL_BUFF_LENGTH =>
                FixIntgFrac(i, f) = [intg |-> DECIMAL_BUFF_LENGTH, frac |-> 0, error |-> E_DEC_OVERFLOW]
           /\ i <= DECIMAL_BUFF_LENGTH /\ i + f > DECIMAL_BUFF_LENGTH =>
                FixIntgFrac(i, f) = [intg |-> i, frac |-> DECIMAL_BUFF_LENGTH - i,
                                     error |-> E_DEC_TRUNCATED]
<1>1. PICK n \in Nat : n = DECIMAL_BUFF_LENGTH
  BY WordAssumption
<1>2. /\ i + f <= n => ~(i > n)
      /\ i > n => ~(i + f <= n)
      /\ i + f > n => ~(i + f <= n)
      /\ i <= n => ~(i > n)
  OBVIOUS
<1> QED
  BY <1>1, <1>2 DEF FixIntgFrac

AddWord(i, fix, sum) ==
    [p \in 1 - fix.intg .. fix.frac |->
       IF p < 1 - i THEN sum[p + 1] \div DIG_BASE ELSE sum[p] % DIG_BASE]

LEMMA DoAddIs ==
    ASSUME NEW a, NEW b
    PROVE  DoAdd(a, b) =
             IF SumFix(a, b).error = E_DEC_OVERFLOW
             THEN [to |-> MaxDecimal, error |-> SumFix(a, b).error]
             ELSE Result(a.sign, Max({a.frac, b.frac}), SumFix(a, b),
                         AddWord(IntgOf(a, b), SumFix(a, b),
                                 ADD(a, b, 1 - IntgOf(a, b), SumFix(a, b).frac)))
  BY Zenon DEF DoAdd, AddWord

LEMMA AddCarries ==
    ASSUME NEW a \in Decimals, NEW b \in Decimals, NEW lo \in Int, NEW hi \in Int, lo <= hi + 1
    PROVE  Carries(ADD(a, b, lo, hi), [p \in lo .. hi |-> Word(a, p) + Word(b, p)], lo, hi)
<1> DEFINE t == [p \in lo .. hi |-> Word(a, p) + Word(b, p)]
           IsSum(s) == s = [p \in lo .. hi + 1 |->
                              IF p > hi THEN 0 ELSE Word(a, p) + Word(b, p) + s[p + 1] \div DIG_BASE]
<1>1. ASSUME NEW p \in lo .. hi PROVE t[p] \in Int /\ t[p] = Word(a, p) + Word(b, p)
  BY WordTypes
<1> HIDE DEF t
<1>2. ASSUME NEW s PROVE Carries(s, t, lo, hi) <=> IsSum(s)
  <2>1. [p \in lo .. hi + 1 |-> IF p > hi THEN 0 ELSE t[p] + s[p + 1] \div DIG_BASE]
          = [p \in lo .. hi + 1 |->
               IF p > hi THEN 0 ELSE Word(a, p) + Word(b, p) + s[p + 1] \div DIG_BASE]
    <3>1. ASSUME NEW p \in lo .. hi + 1
          PROVE  (IF p > hi THEN 0 ELSE t[p] + s[p + 1] \div DIG_BASE)
                   = IF p > hi THEN 0 ELSE Word(a, p) + Word(b, p) + s[p + 1] \div DIG_BASE
      <4>1. p > hi \/ p \in lo .. hi
        OBVIOUS
      <4> QED
        BY <1>1, <4>1
    <3> QED
      BY <3>1, Zenon
  <2> QED
    BY <2>1, Zenon DEF Carries, IsSum
<1>3. \E s : IsSum(s)
  <2>1. \E s : Carries(s, t, lo, hi)
    BY <1>1, CarriesExist
  <2> QED
    BY <1>2, <2>1, Zenon
<1>4. ADD(a, b, lo, hi) = CHOOSE s : IsSum(s)
  BY Zenon DEF ADD, IsSum
<1> HIDE DEF IsSum
<1>5. IsSum(ADD(a, b, lo, hi))
  BY <1>3, <1>4, Zenon
<1>6. Carries(ADD(a, b, lo, hi), t, lo, hi)
  BY <1>2, <1>5, Zenon
<1> QED
  BY <1>6, Zenon DEF t

LEMMA Divides ==
    ASSUME NEW x \in Int, NEW y \in Nat \ {0}
    PROVE  x % y = 0 <=> \E k \in Int : x = k * y
<1>1. ASSUME x % y = 0 PROVE \E k \in Int : x = k * y
  <2>1. x \div y \in Int /\ x = y * (x \div y) + (x % y)
    BY Division
  <2>2. PICK k \in Int : x = y * k
    BY <1>1, <2>1
  <2>3. y * k = k * y
    OBVIOUS
  <2> QED
    BY <2>2, <2>3
<1>2. ASSUME NEW k \in Int, x = k * y PROVE x % y = 0
  <2>1. x = y * k + 0 /\ 0 \in 0 .. y - 1
    BY <1>2
  <2> QED
    BY <2>1, DivisionIs
<1> QED
  BY <1>1, <1>2

(* A number of digits that ends inside of a word.                          *)
LEMMA LastWordDigits ==
    ASSUME NEW n \in Nat, NEW F \in Int, F = ROUND_UP(n)
    PROVE  /\ n % DIG_PER_DEC1 \in Nat /\ n % DIG_PER_DEC1 < DIG_PER_DEC1
           /\ n % DIG_PER_DEC1 = 0 => n = F * DIG_PER_DEC1
           /\ n % DIG_PER_DEC1 # 0 => n = (F - 1) * DIG_PER_DEC1 + (n % DIG_PER_DEC1) /\ F >= 1
<1>1. PICK b \in Nat \ {0} : b = DIG_PER_DEC1
  BY WordAssumption
<1>2. PICK q \in Int, r \in 0 .. b - 1 : r = n % b /\ n = b * q + r
  <2>1. n \div b \in Int /\ n % b \in 0 .. b - 1 /\ n = b * (n \div b) + (n % b)
    BY Division
  <2> QED
    BY <2>1
<1>3. q * b = b * q /\ (q + 1) * b = b * q + b
  OBVIOUS
<1>4. CASE r = 0
  <2>1. n <= q * b /\ q * b < n + b
    BY <1>2, <1>3, <1>4
  <2>2. F = q
    BY <1>1, <2>1, RoundUpIs
  <2> QED
    BY <1>1, <1>2, <1>3, <1>4, <2>2
<1>5. CASE r # 0
  <2>1. n <= (q + 1) * b /\ (q + 1) * b < n + b
    BY <1>2, <1>3, <1>5
  <2>2. PICK p \in Int : p = q + 1
    OBVIOUS
  <2>3. F = p
    BY <1>1, <2>1, <2>2, RoundUpIs
  <2>4. q >= 0
    <3>1. ASSUME q + 1 <= 0 PROVE FALSE
      <4>1. (q + 1) * b <= 0 * b
        BY <3>1, MulMonotonic
      <4>2. b * q + b <= 0
        BY <1>3, <4>1
      <4>3. b * q \in Int
        OBVIOUS
      <4> QED
        BY <1>2, <4>2, <4>3
    <3> QED
      BY <3>1
  <2> QED
    <3>1. F - 1 = q /\ F >= 1
      BY <2>2, <2>3, <2>4
    <3>2. n = (F - 1) * b + r
      BY <1>2, <1>3, <3>1
    <3> QED
      BY <1>1, <1>2, <1>5, <3>1, <3>2
<1> QED
  BY <1>4, <1>5

Multiple(x, q) == \E k \in Int : x = k * q

(* A word at the end of a longer fraction has no digits beyond it.         *)
LEMMA LastWord ==
    ASSUME NEW d \in Decimals, NEW frac \in Nat, d.frac <= frac, frac % DIG_PER_DEC1 # 0,
           NEW F \in Int, F = ROUND_UP(frac),
           NEW q \in Nat \ {0}, q = Power(Radix, DIG_PER_DEC1 - (frac % DIG_PER_DEC1))
    PROVE  Multiple(Word(d, F), q)
<1>1. PICK b \in Nat \ {0} : b = DIG_PER_DEC1
  BY WordAssumption
<1>2. PICK r \in 0 .. b - 1 : r = frac % b /\ r # 0 /\ frac = (F - 1) * b + r /\ F >= 1
  <2>1. /\ frac % DIG_PER_DEC1 \in Nat /\ frac % DIG_PER_DEC1 < DIG_PER_DEC1
        /\ frac = (F - 1) * DIG_PER_DEC1 + (frac % DIG_PER_DEC1) /\ F >= 1
    BY LastWordDigits
  <2> QED
    BY <1>1, <2>1
<1>3. PICK n \in Nat, G \in Nat, i \in Nat : n = d.frac /\ G = ROUND_UP(n) /\ i = ROUND_UP(d.intg)
  BY DecimalTypes
<1>4. G <= F
  BY <1>3, RoundUpMonotonic
<1>5. CASE G < F
  <2>1. F \notin 1 - i .. G
    BY <1>5
  <2>2. Word(d, F) = 0
    BY <1>3, <2>1, WordTypes
  <2>3. 0 \in Int /\ 0 = 0 * q
    OBVIOUS
  <2> QED
    BY <2>2, <2>3 DEF Multiple
<1>6. CASE G = F
  <2>1. /\ n % DIG_PER_DEC1 \in Nat /\ n % DIG_PER_DEC1 < DIG_PER_DEC1
        /\ n % DIG_PER_DEC1 = 0 => n = G * DIG_PER_DEC1
        /\ n % DIG_PER_DEC1 # 0 => n = (G - 1) * DIG_PER_DEC1 + (n % DIG_PER_DEC1)
    BY <1>3, LastWordDigits
  <2>2. PICK s \in 0 .. b - 1 : /\ s = n % b
                                /\ s = 0 => n = F * b
                                /\ s # 0 => n = (F - 1) * b + s
    BY <1>1, <1>6, <2>1
  <2>3. s # 0 /\ s <= r
    <3>1. n <= (F - 1) * b + r
      BY <1>2, <1>3
    <3>2. F * b = (F - 1) * b + b
      OBVIOUS
    <3>3. (F - 1) * b \in Int
      OBVIOUS
    <3> QED
      BY <1>2, <2>2, <3>1, <3>2, <3>3
  <2>4. PICK e \in Nat, c \in Nat : e = b - r /\ c = r - s /\ e + c = b - s
    BY <2>3
  <2>5. Power(Radix, b - s) = Power(Radix, e) * Power(Radix, c)
    <3>1. Radix \in Int
      BY Base
    <3> QED
      BY <2>4, <3>1, PowerSum
  <2>6. PICK p \in Nat \ {0} : p = Power(Radix, c)
    <3>1. Radix \in Nat \ {0}
      BY Base
    <3> QED
      BY <3>1, PowerPositive
  <2>7. q = Power(Radix, e)
    BY <1>1, <1>2, <2>4
  <2>8. PICK x \in Int : x = Word(d, F)
    BY WordTypes
  <2>9. x % Power(Radix, b - s) = 0
    <3>1. Last(d.buf) % Power(Radix, DIG_PER_DEC1 - (d.frac % DIG_PER_DEC1)) = 0
      <4>1. WordsOK(d) /\ d.frac % DIG_PER_DEC1 # 0
        BY <1>1, <1>3, <2>2, <2>3 DEF Decimals
      <4> QED
        BY <4>1 DEF WordsOK
    <3>2. Last(d.buf) = d.buf[i + F]
      <4>1. Len(d.buf) = i + F
        BY <1>3, <1>6, DecimalTypes
      <4> QED
        BY <4>1, Zenon DEF Last
    <3>3. F \in 1 - i .. G
      <4>1. F >= 1 /\ G = F
        BY <1>2, <1>6
      <4> QED
        BY ONLY <4>1, i \in Nat, F \in Int
    <3>4. x = d.buf[F + i]
      BY <1>3, <2>8, <3>3, WordTypes
    <3>5. F + i = i + F
      OBVIOUS
    <3> QED
      BY <1>1, <1>3, <2>2, <3>1, <3>2, <3>4, <3>5
  <2>10. PICK y \in Nat \ {0} : y = q * p /\ y = Power(Radix, b - s)
    BY <2>5, <2>6, <2>7
  <2>11. PICK k \in Int : x = k * y
    BY <2>9, <2>10, Divides
  <2>12. k * (q * p) = (k * p) * q /\ k * p \in Int
    OBVIOUS
  <2> QED
    BY <2>8, <2>10, <2>11, <2>12 DEF Multiple
<1> QED
  BY <1>4, <1>5, <1>6

LEMMA LastDigit ==
    ASSUME NEW frac \in Nat, frac % DIG_PER_DEC1 # 0, NEW a \in Decimals, NEW b \in Decimals,
           a.frac <= frac, b.frac <= frac, NEW F \in Int, F = ROUND_UP(frac), NEW c \in Int
    PROVE  ((Word(a, F) + c * Word(b, F)) % DIG_BASE)
             % Power(Radix, DIG_PER_DEC1 - (frac % DIG_PER_DEC1)) = 0
<1>1. PICK r \in Nat, e \in Nat : r = frac % DIG_PER_DEC1 /\ e = DIG_PER_DEC1 - r /\ e + r = DIG_PER_DEC1
  <2>1. frac % DIG_PER_DEC1 \in Nat /\ frac % DIG_PER_DEC1 < DIG_PER_DEC1
    BY LastWordDigits
  <2> QED
    BY <2>1, WordAssumption
<1>2. Radix \in Nat \ {0} /\ Radix \in Int
  BY Base
<1>3. PICK q \in Nat \ {0}, m \in Nat \ {0} : q = Power(Radix, e) /\ m = Power(Radix, r)
  BY <1>2, PowerPositive
<1>4. DIG_BASE = q * m
  <2>1. Power(Radix, e + r) = Power(Radix, e) * Power(Radix, r)
    BY <1>2, PowerSum
  <2> QED
    BY <1>1, <1>3, <2>1 DEF DIG_BASE
<1>5. q = Power(Radix, DIG_PER_DEC1 - (frac % DIG_PER_DEC1))
  BY <1>1, <1>3
<1>6. Multiple(Word(a, F), q) /\ Multiple(Word(b, F), q)
  BY <1>5, LastWord
<1>7. PICK k \in Int, l \in Int : Word(a, F) = k * q /\ Word(b, F) = l * q
  BY <1>6 DEF Multiple
<1>8. PICK x \in Int, B \in Nat \ {0} : B = q * m /\ x = Word(a, F) + c * Word(b, F) /\ x = k * q + c * (l * q)
  BY <1>7
<1>9. PICK i \in Int, j \in Int : i = x \div B /\ j = x % B /\ x = B * i + j
  <2>1. x \div B \in Int /\ x % B \in 0 .. B - 1 /\ x = B * (x \div B) + (x % B)
    BY Division
  <2> QED
    BY <2>1
<1>10. j = (k + c * l - m * i) * q
  <2>1. j = k * q + c * (l * q) - q * m * i
    <3>1. x = (q * m) * i + j
      BY <1>8, <1>9
    <3>2. j = x - (q * m) * i
      BY ONLY <3>1, q \in Int, m \in Int, i \in Int, j \in Int, x \in Int
    <3>3. (q * m) * i = q * m * i
      OBVIOUS
    <3> QED
      BY <1>8, <3>2, <3>3
  <2>2. (k + c * l - m * i) * q = k * q + c * (l * q) - q * m * i
    OBVIOUS
  <2> QED
    BY <2>1, <2>2
<1>11. j % q = 0
  <2>1. k + c * l - m * i \in Int
    OBVIOUS
  <2> QED
    BY <1>10, <2>1, Divides
<1> QED
  BY <1>4, <1>5, <1>8, <1>9, <1>11

LEMMA Ends ==
    ASSUME NEW a \in Decimals, NEW b \in Decimals
    PROVE  /\ IntgOf(a, b) \in Nat /\ FracOf(a, b) \in Nat
           /\ ROUND_UP(a.intg) <= IntgOf(a, b) /\ ROUND_UP(b.intg) <= IntgOf(a, b)
           /\ ROUND_UP(a.frac) <= FracOf(a, b) /\ ROUND_UP(b.frac) <= FracOf(a, b)
           /\ IntgOf(a, b) \in {ROUND_UP(a.intg), ROUND_UP(b.intg)}
           /\ FracOf(a, b) \in {ROUND_UP(a.frac), ROUND_UP(b.frac)}
           /\ Max({a.frac, b.frac}) \in Nat
           /\ a.frac <= Max({a.frac, b.frac}) /\ b.frac <= Max({a.frac, b.frac})
           /\ ROUND_UP(Max({a.frac, b.frac})) = FracOf(a, b)
<1>1. PICK ia \in Nat, ib \in Nat, fa \in Nat, fb \in Nat, m \in Nat, n \in Nat :
        /\ ia = ROUND_UP(a.intg) /\ ib = ROUND_UP(b.intg)
        /\ fa = ROUND_UP(a.frac) /\ fb = ROUND_UP(b.frac)
        /\ m = a.frac /\ n = b.frac
  BY DecimalTypes
<1>2. IntgOf(a, b) = IF ia >= ib THEN ia ELSE ib
  <2>1. Max({ia, ib}) = IF ia >= ib THEN ia ELSE ib
    BY ONLY ia \in Int, ib \in Int, MaxOfTwo
  <2> QED
    BY <1>1, <2>1 DEF IntgOf
<1>3. FracOf(a, b) = IF fa >= fb THEN fa ELSE fb
  <2>1. Max({fa, fb}) = IF fa >= fb THEN fa ELSE fb
    BY ONLY fa \in Int, fb \in Int, MaxOfTwo
  <2> QED
    BY <1>1, <2>1 DEF FracOf
<1>4. Max({m, n}) = IF m >= n THEN m ELSE n
  BY ONLY m \in Int, n \in Int, MaxOfTwo
<1>5. ROUND_UP(Max({m, n})) = Max({fa, fb})
  BY <1>1, RoundUpMax
<1>6. FracOf(a, b) = Max({fa, fb})
  BY <1>1 DEF FracOf
<1> QED
  BY <1>1, <1>2, <1>3, <1>4, <1>5, <1>6

LEMMA CarryRange ==
    ASSUME NEW c \in Int, NEW m \in Nat, NEW x \in Nat, NEW y \in Nat, x < m, NEW k \in Int,
           y < k * m, c * m + x = y
    PROVE  c \in 0 .. k - 1
<1>1. ~(c + 1 <= 0)
  <2> SUFFICES ASSUME c + 1 <= 0 PROVE FALSE
    OBVIOUS
  <2>1. (c + 1) * m <= 0 * m
    BY MulMonotonic
  <2>2. (c + 1) * m = c * m + m /\ c * m \in Int
    OBVIOUS
  <2> QED
    BY <2>1, <2>2
<1>2. ~(k <= c)
  <2> SUFFICES ASSUME k <= c PROVE FALSE
    OBVIOUS
  <2>1. k * m <= c * m /\ k * m \in Int /\ c * m \in Int
    BY MulMonotonic
  <2> QED
    BY <2>1
<1> QED
  BY <1>1, <1>2

(* A word before the others.                                               *)
LEMMA PositionalFirst ==
    ASSUME NEW n \in Nat, NEW w, \A k \in 1 .. n + 1 : w[k] \in Int, NEW v,
           \A k \in 1 .. n : v[k] = w[k + 1]
    PROVE  Positional(w, n + 1) = w[1] * Power(DIG_BASE, n) + Positional(v, n)
<1>1. \A k \in 1 .. 1 + n : w[k] \in Int
  OBVIOUS
<1>2. \A k \in 1 .. n : v[k] = w[1 + k]
  <2> SUFFICES ASSUME NEW k \in 1 .. n PROVE v[k] = w[1 + k]
    OBVIOUS
  <2>1. 1 + k = k + 1
    OBVIOUS
  <2> QED
    BY <2>1
<1>3. Positional(w, 1 + n) = Positional(w, 1) * Power(DIG_BASE, n) + Positional(v, n)
  <2>1. 1 \in Nat
    OBVIOUS
  <2> QED
    BY <1>1, <1>2, <2>1, PositionalSplit
<1>4. Positional(w, 1) = w[1]
  <2>1. 0 \in 0 .. (n + 1) - 1 /\ 0 + 1 = 1 /\ n + 1 \in Nat /\ 1 \in 1 .. n + 1
    OBVIOUS
  <2>2. Positional(w, 0) = 0 /\ Positional(w, 0 + 1) = Positional(w, 0) * DIG_BASE + w[0 + 1]
    BY <2>1, Positionals
  <2>3. w[1] \in Int /\ DIG_BASE \in Int
    BY <2>1, Base
  <2> QED
    BY <2>1, <2>2, <2>3
<1>5. 1 + n = n + 1
  OBVIOUS
<1> QED
  BY <1>3, <1>4, <1>5

WordSums(a, b, s, w, i, F) ==
    \E c \in 0 .. 1, p \in Nat, q \in Nat, x \in Nat :
        /\ c = s[1 - i] \div DIG_BASE
        /\ p = Positional(WordsIn(a, i, F), i + F)
        /\ q = Positional(WordsIn(b, i, F), i + F)
        /\ x = Positional(w, i + F)
        /\ AreWords(w, i + F)
        /\ p + q = c * Power(DIG_BASE, i + F) + x
        /\ Word(a, 1 - i) + Word(b, 1 - i) <= DIG_MAX - 1 => c = 0
        /\ F >= 1 \/ i >= 1 => s[F] = Word(a, F) + Word(b, F)

(* Sums of words: the carry of the first, and that there is none if the    *)
(* first words leave room for it.                                          *)
LEMMA SumOfWords ==
    ASSUME NEW a \in Decimals, NEW b \in Decimals, NEW i \in Nat, NEW F \in Nat,
           ROUND_UP(a.intg) <= i, ROUND_UP(b.intg) <= i,
           NEW s, s = ADD(a, b, 1 - i, F), NEW w, \A k \in 1 .. i + F : w[k] = s[k - i] % DIG_BASE
    PROVE  WordSums(a, b, s, w, i, F)
<1>1. PICK n \in Nat, lo \in Int : n = i + F /\ lo = 1 - i /\ F = lo + n - 1
  OBVIOUS
<1>2. PICK t : t = [p \in lo .. F |-> Word(a, p) + Word(b, p)]
  OBVIOUS
<1>3. Carries(s, t, lo, F)
  <2>1. lo <= F + 1
    BY <1>1
  <2> QED
    BY <1>1, <1>2, <2>1, AddCarries
<1>4. \A p \in lo .. F : t[p] \in Int /\ t[p] = Word(a, p) + Word(b, p)
  BY <1>2, WordTypes
<1>5. PICK u : u = [k \in 1 .. n |-> t[lo + k - 1]]
  OBVIOUS
<1>6. \A k \in 1 .. n : w[k] = s[lo + k - 1] % DIG_BASE /\ u[k] = t[lo + k - 1]
  <2> SUFFICES ASSUME NEW k \in 1 .. n
               PROVE  w[k] = s[lo + k - 1] % DIG_BASE /\ u[k] = t[lo + k - 1]
    OBVIOUS
  <2>1. lo + k - 1 = k - i /\ k \in 1 .. i + F
    BY <1>1
  <2>2. w[k] = s[k - i] % DIG_BASE
    BY <2>1
  <2> QED
    BY <1>5, <2>1, <2>2
<1>7. /\ AreWords(w, n)
      /\ s[lo] \in Int /\ s[lo] \div DIG_BASE \in Int
      /\ Positional(u, n) = (s[lo] \div DIG_BASE) * Power(DIG_BASE, n) + Positional(w, n)
  <2>1. F \in Int /\ F = lo + n - 1 /\ \A p \in lo .. F : t[p] \in Int
    BY <1>1, <1>4
  <2>2. TakenOut(s, u, w, lo, n)
    BY ONLY <1>3, <1>6, <2>1, lo \in Int, n \in Nat, Carrying
  <2> QED
    BY <2>2 DEF TakenOut
<1>8. PICK va, vb : va = WordsIn(a, i, F) /\ vb = WordsIn(b, i, F)
  OBVIOUS
<1>9. AreWords(va, n) /\ AreWords(vb, n)
  <2>1. AreWords(WordsIn(a, i, F), i + F) /\ AreWords(WordsIn(b, i, F), i + F)
    BY Aligned
  <2> QED
    BY <1>1, <1>8, <2>1
<1>10. \A k \in 1 .. n : /\ va[k] \in Int /\ vb[k] \in Int
                         /\ va[k] = Word(a, k - i) /\ vb[k] = Word(b, k - i)
                         /\ u[k] = va[k] + 1 * vb[k]
  <2> SUFFICES ASSUME NEW k \in 1 .. n
               PROVE  /\ va[k] \in Int /\ vb[k] \in Int
                      /\ va[k] = Word(a, k - i) /\ vb[k] = Word(b, k - i)
                      /\ u[k] = va[k] + 1 * vb[k]
    OBVIOUS
  <2>1. lo + k - 1 = k - i /\ k \in 1 .. i + F /\ k - i \in Int /\ k - i \in lo .. F
    BY <1>1
  <2>2. va[k] = Word(a, k - i) /\ vb[k] = Word(b, k - i)
    BY <1>8, <2>1 DEF WordsIn
  <2>3. Word(a, k - i) \in Int /\ Word(b, k - i) \in Int
    BY <2>1, WordTypes
  <2>4. u[k] = Word(a, k - i) + Word(b, k - i)
    BY <1>4, <1>6, <2>1
  <2> QED
    BY <2>2, <2>3, <2>4
<1>11. PICK B \in Nat \ {0, 1}, m \in Nat \ {0} : B = DIG_BASE /\ m = Power(DIG_BASE, n) /\ DIG_MAX = B - 1
  BY Base, PowerPositive
<1>12. PICK c \in Int : c = s[lo] \div DIG_BASE
  BY <1>7
<1>13. PICK p \in Nat, q \in Nat, x \in Nat :
         /\ p = Positional(va, n) /\ q = Positional(vb, n) /\ x = Positional(w, n)
         /\ p < m /\ q < m /\ x < m
  BY <1>7, <1>9, <1>11, PositionalRange
<1>14. Positional(u, n) = p + 1 * q
  <2>1. 1 \in Int
    OBVIOUS
  <2> QED
    BY <1>10, <1>13, <2>1, PositionalLinear
<1>15. c * m + x = p + q
  BY <1>7, <1>11, <1>12, <1>13, <1>14
<1>16. c \in 0 .. 1
  <2>1. p + q < 2 * m /\ p + q \in Nat
    BY <1>13
  <2>2. c \in 0 .. 2 - 1
    BY <1>13, <1>15, <2>1, CarryRange
  <2> QED
    BY <2>2
<1>17. ASSUME Word(a, 1 - i) + Word(b, 1 - i) <= DIG_MAX - 1 PROVE c = 0
  <2>1. CASE n = 0
    <3>1. p = 0 /\ q = 0 /\ x = 0
      <4>1. p < m /\ q < m /\ x < m
        BY <1>13
      <4>2. m = 1
        BY <1>11, <2>1, Base, Powers
      <4> QED
        BY ONLY <4>1, <4>2, p \in Nat, q \in Nat, x \in Nat
    <3> QED
      BY <1>15, <1>16, <3>1
  <2>2. CASE n # 0
    <3>1. PICK k \in Nat : n = k + 1
      BY <2>2
    <3>2. PICK ra, rb : /\ ra = [j \in 1 .. k |-> va[j + 1]]
                        /\ rb = [j \in 1 .. k |-> vb[j + 1]]
      OBVIOUS
    <3>3. AreWords(ra, k) /\ AreWords(rb, k)
      BY <1>9, <3>1, <3>2 DEF AreWords
    <3>4. PICK e \in Nat \ {0} : e = Power(DIG_BASE, k) /\ m = e * B
      <4>1. DIG_BASE \in Int /\ DIG_BASE \in Nat \ {0}
        BY Base
      <4>2. Power(DIG_BASE, k + 1) = Power(DIG_BASE, k) * DIG_BASE
        BY <4>1, Powers
      <4>3. Power(DIG_BASE, k) \in Nat \ {0}
        BY <4>1, PowerPositive
      <4> QED
        BY <1>11, <3>1, <4>2, <4>3
    <3>5. PICK y \in Nat, z \in Nat : /\ y = Positional(ra, k) /\ y < e
                                      /\ z = Positional(rb, k) /\ z < e
      BY <3>3, <3>4, PositionalRange
    <3>6. PICK g \in Int, h \in Int : g = va[1] /\ h = vb[1] /\ g + h <= B - 2
      <4>1. 1 \in 1 .. n
        BY <2>2
      <4> QED
        BY <1>10, <1>11, <1>17, <4>1
    <3>7. p = g * e + y /\ q = h * e + z
      <4>1. \A j \in 1 .. k + 1 : va[j] \in Int /\ vb[j] \in Int
        BY <1>10, <3>1
      <4>2. \A j \in 1 .. k : ra[j] = va[j + 1] /\ rb[j] = vb[j + 1]
        BY <3>2
      <4>3. /\ Positional(va, k + 1) = va[1] * Power(DIG_BASE, k) + Positional(ra, k)
            /\ Positional(vb, k + 1) = vb[1] * Power(DIG_BASE, k) + Positional(rb, k)
        BY <4>1, <4>2, PositionalFirst
      <4> QED
        BY <1>13, <3>1, <3>4, <3>5, <3>6, <4>3
    <3>8. (g + h) * e <= (B - 2) * e
      <4>1. g + h \in Int /\ B - 2 \in Int
        OBVIOUS
      <4> QED
        BY <3>6, <4>1, MulMonotonic
    <3>9. p + q < 1 * m
      <4>1. (g + h) * e = g * e + h * e /\ (B - 2) * e = e * B - 2 * e
            /\ g * e \in Int /\ h * e \in Int /\ e * B \in Int
        OBVIOUS
      <4> QED
        BY <3>4, <3>5, <3>7, <3>8, <4>1
    <3>10. c \in 0 .. 1 - 1
      <4>1. p + q \in Nat
        OBVIOUS
      <4> QED
        BY <1>13, <1>15, <3>9, <4>1, CarryRange
    <3> QED
      BY <3>10
  <2> QED
    BY <2>1, <2>2
<1>18. ASSUME F >= 1 \/ i >= 1 PROVE s[F] = Word(a, F) + Word(b, F)
  <2>1. Carried(s, t, lo, n)
    BY <1>1, <1>3, <1>4, CarryTypes
  <2>2. n - 1 \in 0 .. n - 1 /\ lo + (n - 1) = F /\ lo + (n - 1) + 1 = lo + n /\ F \in lo .. F
    BY <1>1, <1>18
  <2>3. s[F] = t[F] + s[lo + n] \div B /\ s[lo + n] = 0
    BY <1>11, <2>1, <2>2 DEF Carried
  <2>4. 0 \div B = 0
    OBVIOUS
  <2> QED
    BY <1>4, <2>2, <2>3, <2>4
<1> QED
  BY <1>1, <1>7, <1>8, <1>11, <1>12, <1>13, <1>15, <1>16, <1>17, <1>18 DEF WordSums

LEMMA Tops ==
    ASSUME NEW a \in Decimals, NEW b \in Decimals
    PROVE  /\ TopWords(a, b) = Word(a, 1 - IntgOf(a, b)) + Word(b, 1 - IntgOf(a, b))
           /\ TopWords(a, b) \in Int
<1>1. PICK ia \in Nat, ib \in Nat, i \in Nat :
        /\ ia = ROUND_UP(a.intg) /\ ib = ROUND_UP(b.intg) /\ i = IntgOf(a, b)
        /\ ia <= i /\ ib <= i /\ i \in {ia, ib}
  BY DecimalTypes, Ends
<1>2. 1 - i \in Int /\ 1 - ia \in Int /\ 1 - ib \in Int
  BY <1>1
<1>3. Word(a, 1 - i) \in Int /\ Word(b, 1 - i) \in Int
  BY <1>2, WordTypes
<1>4. TopWords(a, b) = (IF ia >= ib THEN Word(a, 1 - ia) ELSE 0) + (IF ib >= ia THEN Word(b, 1 - ib) ELSE 0)
  BY <1>1 DEF TopWords
<1>5. ia < i => Word(a, 1 - i) = 0
  <2> SUFFICES ASSUME ia < i PROVE Word(a, 1 - i) = 0
    OBVIOUS
  <2>1. 1 - i \notin 1 - ia .. ROUND_UP(a.frac)
    BY <1>1, <1>2
  <2> QED
    BY <1>1, <1>2, <2>1, WordTypes
<1>6. ib < i => Word(b, 1 - i) = 0
  <2> SUFFICES ASSUME ib < i PROVE Word(b, 1 - i) = 0
    OBVIOUS
  <2>1. 1 - i \notin 1 - ib .. ROUND_UP(b.frac)
    BY <1>1, <1>2
  <2> QED
    BY <1>1, <1>2, <2>1, WordTypes
<1>7. CASE ia = i /\ ib = i
  BY <1>1, <1>3, <1>4, <1>7
<1>8. CASE ia = i /\ ib < i
  BY <1>1, <1>3, <1>4, <1>6, <1>8
<1>9. CASE ia < i /\ ib = i
  BY <1>1, <1>3, <1>4, <1>5, <1>9
<1> QED
  BY <1>1, <1>7, <1>8, <1>9

(* A result of a number of words.                                          *)
IsResult(r, sign, error, I, F, m) ==
    /\ r.error = error
    /\ r.to \in Decimals
    /\ r.to.sign = sign
    /\ r.to.intg = I * DIG_PER_DEC1
    /\ ROUND_UP(r.to.intg) = I
    /\ ROUND_UP(r.to.frac) = F
    /\ Mantissa(r.to) = m

(* What do_add() makes of the words that are not cut.                      *)
SumIs(r, a, b, i, j, F, error) ==
    \E p \in Nat, q \in Nat :
        /\ p = Positional(WordsIn(a, i, F), i + F)
        /\ q = Positional(WordsIn(b, i, F), i + F)
        /\ IsResult(r, a.sign, error, j, F, p + q)

LEMMA SumMakes ==
    ASSUME NEW a \in Decimals, NEW b \in Decimals, NEW i \in Nat, i = IntgOf(a, b),
           NEW j \in Nat, j = IF TopWords(a, b) > DIG_MAX - 1 THEN i + 1 ELSE i,
           NEW F \in Nat, F <= FracOf(a, b), NEW fix, fix = SumFix(a, b),
           fix.intg = j, fix.frac = F, fix.error # E_DEC_OVERFLOW
    PROVE  SumIs(DoAdd(a, b), a, b, i, j, F, fix.error)
<1>1. PICK s : s = ADD(a, b, 1 - i, F)
  OBVIOUS
<1>2. PICK w : w = [k \in 1 .. i + F |-> s[k - i] % DIG_BASE]
  OBVIOUS
<1>3. ROUND_UP(a.intg) <= i /\ ROUND_UP(b.intg) <= i
  BY Ends
<1>4. PICK c \in 0 .. 1, p \in Nat, q \in Nat, x \in Nat :
         /\ c = s[1 - i] \div DIG_BASE
         /\ p = Positional(WordsIn(a, i, F), i + F)
         /\ q = Positional(WordsIn(b, i, F), i + F)
         /\ x = Positional(w, i + F)
         /\ AreWords(w, i + F)
         /\ p + q = c * Power(DIG_BASE, i + F) + x
         /\ Word(a, 1 - i) + Word(b, 1 - i) <= DIG_MAX - 1 => c = 0
         /\ F >= 1 \/ i >= 1 => s[F] = Word(a, F) + Word(b, F)
  <2>1. \A k \in 1 .. i + F : w[k] = s[k - i] % DIG_BASE
    BY <1>2
  <2>2. WordSums(a, b, s, w, i, F)
    BY <1>1, <1>3, <2>1, SumOfWords
  <2> QED
    BY <2>2 DEF WordSums
<1>5. PICK frac \in Nat : /\ frac = Max({a.frac, b.frac}) /\ ROUND_UP(frac) = FracOf(a, b)
                          /\ a.frac <= frac /\ b.frac <= frac
  BY Ends
<1>6. PICK word : word = AddWord(i, fix, s)
  OBVIOUS
<1>7. DoAdd(a, b) = Result(a.sign, frac, fix, word)
  BY <1>1, <1>5, <1>6, DoAddIs
<1>8. ASSUME NEW k \in 1 - j .. F
      PROVE  /\ k < 1 - i => word[k] = c
             /\ k >= 1 - i => word[k] = w[k + i] /\ word[k] = s[k] % DIG_BASE /\ k + i \in 1 .. i + F
  <2>1. word[k] = IF k < 1 - i THEN s[k + 1] \div DIG_BASE ELSE s[k] % DIG_BASE
    BY <1>6 DEF AddWord
  <2>2. j = i \/ j = i + 1
    OBVIOUS
  <2>3. ASSUME k < 1 - i PROVE word[k] = c
    <3>1. k + 1 = 1 - i
      BY <2>2, <2>3
    <3> QED
      BY <1>4, <2>1, <2>3, <3>1
  <2>4. ASSUME k >= 1 - i
        PROVE  word[k] = w[k + i] /\ word[k] = s[k] % DIG_BASE /\ k + i \in 1 .. i + F
    <3>1. k + i \in 1 .. i + F /\ (k + i) - i = k /\ ~(k < 1 - i)
      BY <2>4
    <3>2. w[k + i] = s[k] % DIG_BASE
      BY <1>2, <3>1
    <3> QED
      BY <2>1, <3>1, <3>2
  <2> QED
    BY <2>3, <2>4
<1>9. DIG_MAX \in Nat \ {0}
  BY Base
<1>10. \A k \in 1 - j .. F : word[k] \in 0 .. DIG_MAX
  <2> SUFFICES ASSUME NEW k \in 1 - j .. F PROVE word[k] \in 0 .. DIG_MAX
    OBVIOUS
  <2>1. CASE k < 1 - i
    BY <1>8, <1>9, <2>1
  <2>2. CASE k >= 1 - i
    BY <1>4, <1>8, <2>2 DEF AreWords
  <2> QED
    BY <2>1, <2>2
<1>11. LastDigits(frac, F, word)
  <2> SUFFICES ASSUME F = ROUND_UP(frac), frac % DIG_PER_DEC1 # 0
               PROVE  word[F] % Power(Radix, DIG_PER_DEC1 - (frac % DIG_PER_DEC1)) = 0
    BY DEF LastDigits
  <2>1. F >= 1
    BY LastWordDigits
  <2>2. F \in 1 - j .. F /\ F >= 1 - i
    BY <2>1
  <2>3. word[F] = (Word(a, F) + Word(b, F)) % DIG_BASE
    BY <1>4, <1>8, <2>1, <2>2
  <2>4. 1 * Word(b, F) = Word(b, F)
    BY WordTypes
  <2>5. ((Word(a, F) + 1 * Word(b, F)) % DIG_BASE)
             % Power(Radix, DIG_PER_DEC1 - (frac % DIG_PER_DEC1)) = 0
    <3>1. 1 \in Int
      OBVIOUS
    <3> QED
      BY <1>5, <3>1, LastDigit
  <2> QED
    BY <2>3, <2>4, <2>5
<1>12. PICK r : r = DoAdd(a, b) /\ Makes(r, a.sign, fix.error, j, F, word)
  <2>1. a.sign \in BOOLEAN /\ F <= ROUND_UP(frac)
    BY <1>5, DecimalTypes
  <2> QED
    BY <1>7, <1>10, <1>11, <2>1, ResultMakes
<1>13. PICK v : v = [k \in 1 .. j + F |-> word[k - j]]
  OBVIOUS
<1>14. Positional(v, j + F) = p + q
  <2>1. CASE j = i
    <3>1. \A k \in 1 .. i + F : w[k] \in Int /\ v[k] = w[k]
      <4> SUFFICES ASSUME NEW k \in 1 .. i + F PROVE w[k] \in Int /\ v[k] = w[k]
        OBVIOUS
      <4>1. k - j \in 1 - j .. F /\ k - j >= 1 - i /\ (k - j) + i = k
        BY <2>1
      <4>2. word[k - j] = w[k]
        BY <1>8, <4>1
      <4>3. w[k] \in Int
        BY <1>4, <1>9 DEF AreWords
      <4>4. v[k] = word[k - j]
        BY <1>13, <2>1
      <4> QED
        BY <4>2, <4>3, <4>4
    <3>2. Positional(v, i + F) = x
      <4>1. PICK n \in Nat : n = i + F
        OBVIOUS
      <4>2. Positional(v, n) = Positional(w, n)
        BY <3>1, <4>1, PositionalSame
      <4> QED
        BY <1>4, <4>1, <4>2
    <3>3. c = 0
      <4>1. ~(TopWords(a, b) > DIG_MAX - 1)
        BY <2>1
      <4>2. TopWords(a, b) = Word(a, 1 - i) + Word(b, 1 - i) /\ TopWords(a, b) \in Int
        BY Tops
      <4> QED
        BY <1>4, <1>9, <4>1, <4>2
    <3>4. p + q = 0 * Power(DIG_BASE, i + F) + x
      BY <1>4, <3>3
    <3>5. Power(DIG_BASE, i + F) \in Nat
      BY Base, PowerPositive
    <3> QED
      BY <2>1, <3>2, <3>4, <3>5
  <2>2. CASE j = i + 1
    <3>1. PICK n \in Nat : n = i + F /\ j + F = n + 1
      BY <2>2
    <3>2. v[1] = c
      <4>1. 1 - j \in 1 - j .. F /\ 1 - j < 1 - i /\ 1 \in 1 .. j + F
        BY <2>2
      <4> QED
        BY <1>8, <1>13, <4>1
    <3>3. \A k \in 1 .. n : w[k] = v[k + 1] /\ w[k] \in Int
      <4> SUFFICES ASSUME NEW k \in 1 .. n PROVE w[k] = v[k + 1] /\ w[k] \in Int
        OBVIOUS
      <4>1. k + 1 \in 1 .. j + F /\ (k + 1) - j \in 1 - j .. F /\ (k + 1) - j >= 1 - i
            /\ ((k + 1) - j) + i = k
        BY <2>2, <3>1
      <4>2. v[k + 1] = w[k]
        BY <1>8, <1>13, <4>1
      <4> QED
        BY <1>4, <1>9, <3>1, <4>2 DEF AreWords
    <3>4. \A k \in 1 .. n + 1 : v[k] \in Int
      <4> SUFFICES ASSUME NEW k \in 1 .. n + 1 PROVE v[k] \in Int
        OBVIOUS
      <4>1. CASE k = 1
        BY <3>2, <4>1
      <4>2. CASE k # 1
        <5>1. k - 1 \in 1 .. n /\ (k - 1) + 1 = k
          BY <4>2
        <5>2. w[k - 1] = v[(k - 1) + 1] /\ w[k - 1] \in Int
          BY <3>3, <5>1
        <5> QED
          BY <5>1, <5>2
      <4> QED
        BY <4>1, <4>2
    <3>5. Positional(v, n + 1) = v[1] * Power(DIG_BASE, n) + Positional(w, n)
      <4>1. \A k \in 1 .. n : w[k] = v[k + 1]
        BY <3>3
      <4> QED
        BY <3>4, <4>1, PositionalFirst
    <3> QED
      BY <1>4, <3>1, <3>2, <3>5
  <2> QED
    BY <2>1, <2>2
<1>15. IsResult(r, a.sign, fix.error, j, F, p + q)
  BY <1>12, <1>13, <1>14 DEF IsResult, Makes
<1> QED
  BY <1>4, <1>12, <1>15 DEF SumIs

LEMMA Greatest ==
    ASSUME NEW S, NEW n \in Int, S \subseteq Int, S # {}, \A y \in S : y <= n
    PROVE  Max(S) \in S /\ \A y \in S : y <= Max(S)
<1> DEFINE T == {m \in Nat : n - m \in S}
           R == OpToRel(<, Nat)
<1>1. IsWellFoundedOn(R, Nat)
  BY NatLessThanWellFounded
<1>2. \A a \in Nat, b \in Nat : a < b => <<a, b>> \in R
  BY DEF OpToRel
<1> HIDE DEF R
<1>3. T \subseteq Nat /\ T # {}
  <2>1. PICK y \in S : y \in Int /\ y <= n
    OBVIOUS
  <2>2. n - y \in Nat /\ n - (n - y) = y
    BY <2>1
  <2> QED
    BY <2>1, <2>2
<1>4. PICK k \in T : \A l \in T : ~ (<<l, k>> \in R)
  <2> HIDE DEF T
  <2> QED BY <1>1, <1>3, WFMin
<1>5. k \in Nat /\ n - k \in S
  OBVIOUS
<1>6. ASSUME NEW y \in S PROVE y <= n - k
  <2>1. PICK l \in Nat : l = n - y /\ y = n - l
    OBVIOUS
  <2>2. l \in T
    BY <2>1
  <2>3. ~(l < k)
    BY <1>2, <1>4, <1>5, <2>1, <2>2
  <2> QED
    BY <1>5, <2>1, <2>3
<1>7. \E x \in S : \A y \in S : x >= y
  <2>1. \A y \in S : n - k >= y
    BY <1>5, <1>6
  <2> QED
    BY <1>5, <2>1
<1>8. Max(S) \in S /\ \A y \in S : Max(S) >= y
  <2>1. Max(S) = CHOOSE x \in S : \A y \in S : x >= y
    BY DEF Max
  <2> HIDE DEF Max
  <2> QED
    BY <1>7, <2>1, Zenon
<1> QED
  BY <1>8

LEMMA Significance ==
    ASSUME NEW d \in Decimals
    PROVE  /\ IntgWords(d) \in Nat /\ IntgWords(d) <= ROUND_UP(d.intg)
           /\ \A p \in Int : p <= -IntgWords(d) => Word(d, p) = 0
           /\ IntgWords(d) # 0 => Word(d, 1 - IntgWords(d)) # 0
<1>1. PICK i \in Nat : i = ROUND_UP(d.intg)
  BY DecimalTypes
<1>2. PICK S : S = {0} \cup {1 - p : p \in {q \in 1 - i .. 0 : Word(d, q) # 0}}
  OBVIOUS
<1>3. IntgWords(d) = Max(S)
  BY <1>1, <1>2 DEF IntgWords
<1>4. \A y \in S : y \in Nat /\ y <= i /\ (y # 0 => Word(d, 1 - y) # 0)
  <2> SUFFICES ASSUME NEW y \in S, y # 0 PROVE y \in Nat /\ y <= i /\ Word(d, 1 - y) # 0
    BY <1>2
  <2>1. PICK p \in 1 - i .. 0 : Word(d, p) # 0 /\ y = 1 - p
    BY <1>2
  <2>2. 1 - y = p
    BY <2>1
  <2> QED
    BY <2>1, <2>2
<1>5. Max(S) \in S /\ \A y \in S : y <= Max(S)
  <2>1. S \subseteq Int /\ S # {} /\ \A y \in S : y <= i
    BY <1>2, <1>4
  <2>2. i \in Int
    OBVIOUS
  <2> QED
    BY <2>1, <2>2, Greatest, Zenon
<1>6. PICK m \in Nat : m = Max(S) /\ m <= i /\ (m # 0 => Word(d, 1 - m) # 0)
  BY <1>4, <1>5
<1>7. ASSUME NEW p \in Int, p <= -m PROVE Word(d, p) = 0
  <2> SUFFICES ASSUME Word(d, p) # 0 PROVE FALSE
    OBVIOUS
  <2>1. p \in 1 - i .. ROUND_UP(d.frac)
    BY <1>1, WordTypes
  <2>2. p \in 1 - i .. 0
    BY <1>7, <2>1
  <2>3. 1 - p \in S
    BY <1>2, <2>2
  <2>4. 1 - p <= m
    BY <1>5, <1>6, <2>3
  <2> QED
    BY <1>7, <2>4
<1> QED
  BY <1>1, <1>3, <1>6, <1>7

(* Zeros before the other words.                                           *)
LEMMA Leading ==
    ASSUME NEW d \in Decimals, NEW i \in Nat, NEW j \in Nat, j <= i,
           NEW F \in Int, j + F \in Nat,
           \A p \in Int : p <= -j => Word(d, p) = 0
    PROVE  Positional(WordsIn(d, i, F), i + F) = Positional(WordsIn(d, j, F), j + F)
<1>1. PICK m \in Nat, n \in Nat : m = i - j /\ n = j + F /\ m + n = i + F
  OBVIOUS
<1>2. PICK w, v : w = WordsIn(d, i, F) /\ v = WordsIn(d, j, F)
  OBVIOUS
<1>3. \A k \in 1 .. m + n : w[k] = Word(d, k - i) /\ w[k] \in Int
  <2> SUFFICES ASSUME NEW k \in 1 .. m + n PROVE w[k] = Word(d, k - i) /\ w[k] \in Int
    OBVIOUS
  <2>1. w[k] = Word(d, k - i)
    BY <1>1, <1>2 DEF WordsIn
  <2>2. k - i \in Int
    OBVIOUS
  <2>3. Word(d, k - i) \in Int
    BY <2>2, WordTypes
  <2> QED
    BY <2>1, <2>3
<1>4. \A k \in 1 .. n : v[k] = w[m + k]
  <2> SUFFICES ASSUME NEW k \in 1 .. n PROVE v[k] = w[m + k]
    OBVIOUS
  <2>1. m + k \in 1 .. m + n /\ (m + k) - i = k - j /\ k \in 1 .. j + F
    BY <1>1
  <2>2. v[k] = Word(d, k - j)
    BY <1>2, <2>1 DEF WordsIn
  <2> QED
    BY <1>3, <2>1, <2>2
<1>5. Positional(w, m + n) = Positional(w, m) * Power(DIG_BASE, n) + Positional(v, n)
  BY <1>3, <1>4, PositionalSplit
<1>6. Positional(w, m) = 0
  <2>1. \A k \in 1 .. m : w[k] = 0
    <3> SUFFICES ASSUME NEW k \in 1 .. m PROVE w[k] = 0
      OBVIOUS
    <3>1. k \in 1 .. m + n /\ k - i \in Int /\ k - i <= -j
      BY <1>1
    <3> QED
      BY <1>3, <3>1
  <2> QED
    BY <2>1, PositionalZeros
<1>7. 0 * Power(DIG_BASE, n) = 0
  <2>1. Power(DIG_BASE, n) \in Nat
    BY Base, PowerPositive
  <2> QED
    BY <2>1
<1>8. Positional(v, n) \in Int
  <2>1. \A k \in 1 .. n : v[k] \in Int
    <3> SUFFICES ASSUME NEW k \in 1 .. n PROVE v[k] \in Int
      OBVIOUS
    <3>1. m + k \in 1 .. m + n
      OBVIOUS
    <3> QED
      BY <1>3, <1>4, <3>1
  <2>2. n \in 0 .. n
    OBVIOUS
  <2> QED
    BY <2>1, <2>2, Positionals
<1> QED
  BY <1>1, <1>2, <1>5, <1>6, <1>7, <1>8

DiffFix(a, b) == FixIntgFrac(IntgWords(a), FracOf(a, b))

DiffWord(fix, diff) == [p \in 1 - fix.intg .. fix.frac |-> diff[p] % DIG_BASE]

LEMMA DifferenceIs ==
    ASSUME NEW a, NEW b, NEW sign
    PROVE  Difference(a, b, sign) =
             Result(sign, Max({a.frac, b.frac}), DiffFix(a, b),
                    DiffWord(DiffFix(a, b), SUB(a, b, 1 - DiffFix(a, b).intg, DiffFix(a, b).frac)))
  BY Zenon DEF Difference, DiffFix, DiffWord

LEMMA SubCarries ==
    ASSUME NEW a \in Decimals, NEW b \in Decimals, NEW lo \in Int, NEW hi \in Int, lo <= hi + 1
    PROVE  Carries(SUB(a, b, lo, hi), [p \in lo .. hi |-> Word(a, p) - Word(b, p)], lo, hi)
<1> DEFINE t == [p \in lo .. hi |-> Word(a, p) - Word(b, p)]
           IsDiff(s) == s = [p \in lo .. hi + 1 |->
                              IF p > hi THEN 0 ELSE Word(a, p) - Word(b, p) + s[p + 1] \div DIG_BASE]
<1>1. ASSUME NEW p \in lo .. hi PROVE t[p] \in Int /\ t[p] = Word(a, p) - Word(b, p)
  BY WordTypes
<1> HIDE DEF t
<1>2. ASSUME NEW s PROVE Carries(s, t, lo, hi) <=> IsDiff(s)
  <2>1. [p \in lo .. hi + 1 |-> IF p > hi THEN 0 ELSE t[p] + s[p + 1] \div DIG_BASE]
          = [p \in lo .. hi + 1 |->
               IF p > hi THEN 0 ELSE Word(a, p) - Word(b, p) + s[p + 1] \div DIG_BASE]
    <3>1. ASSUME NEW p \in lo .. hi + 1
          PROVE  (IF p > hi THEN 0 ELSE t[p] + s[p + 1] \div DIG_BASE)
                   = IF p > hi THEN 0 ELSE Word(a, p) - Word(b, p) + s[p + 1] \div DIG_BASE
      <4>1. p > hi \/ p \in lo .. hi
        OBVIOUS
      <4> QED
        BY <1>1, <4>1
    <3> QED
      BY <3>1, Zenon
  <2> QED
    BY <2>1, Zenon DEF Carries, IsDiff
<1>3. \E s : IsDiff(s)
  <2>1. \E s : Carries(s, t, lo, hi)
    BY <1>1, CarriesExist
  <2> QED
    BY <1>2, <2>1, Zenon
<1>4. SUB(a, b, lo, hi) = CHOOSE s : IsDiff(s)
  BY Zenon DEF SUB, IsDiff
<1> HIDE DEF IsDiff
<1>5. IsDiff(SUB(a, b, lo, hi))
  BY <1>3, <1>4, Zenon
<1>6. Carries(SUB(a, b, lo, hi), t, lo, hi)
  BY <1>2, <1>5, Zenon
<1> QED
  BY <1>6, Zenon DEF t

(* Differences of words: nothing is borrowed in the end.                   *)
WordDifferences(a, b, s, w, i, j, F) ==
    \E p \in Nat, q \in Nat :
        /\ p = Positional(WordsIn(a, i, F), i + F)
        /\ q = Positional(WordsIn(b, i, F), i + F)
        /\ q <= p
        /\ AreWords(w, j + F)
        /\ Positional(w, j + F) = p - q
        /\ F >= 1 \/ j >= 1 => s[F] = Word(a, F) - Word(b, F)

LEMMA DifferenceOfWords ==
    ASSUME NEW a \in Decimals, NEW b \in Decimals, NEW i \in Nat, NEW F \in Nat,
           NEW j \in Nat, j <= i,
           \A p \in Int : p <= -j => Word(a, p) = 0 /\ Word(b, p) = 0,
           ROUND_UP(a.intg) <= i, ROUND_UP(b.intg) <= i,
           Positional(WordsIn(b, i, F), i + F) <= Positional(WordsIn(a, i, F), i + F),
           NEW s, s = SUB(a, b, 1 - j, F), NEW w, \A k \in 1 .. j + F : w[k] = s[k - j] % DIG_BASE
    PROVE  WordDifferences(a, b, s, w, i, j, F)
<1>1. PICK n \in Nat, lo \in Int : n = j + F /\ lo = 1 - j /\ F = lo + n - 1
  OBVIOUS
<1>2. PICK t : t = [p \in lo .. F |-> Word(a, p) - Word(b, p)]
  OBVIOUS
<1>3. Carries(s, t, lo, F)
  <2>1. lo <= F + 1 /\ F \in Int
    BY <1>1
  <2>2. Carries(SUB(a, b, lo, F), [p \in lo .. F |-> Word(a, p) - Word(b, p)], lo, F)
    BY <2>1, SubCarries
  <2> QED
    BY <1>1, <1>2, <2>2
<1>4. \A p \in lo .. F : t[p] \in Int /\ t[p] = Word(a, p) - Word(b, p)
  BY <1>2, WordTypes, SMTT(60)
<1>5. PICK u : u = [k \in 1 .. n |-> t[lo + k - 1]]
  OBVIOUS
<1>6. \A k \in 1 .. n : w[k] = s[lo + k - 1] % DIG_BASE /\ u[k] = t[lo + k - 1]
  <2> SUFFICES ASSUME NEW k \in 1 .. n
               PROVE  w[k] = s[lo + k - 1] % DIG_BASE /\ u[k] = t[lo + k - 1]
    OBVIOUS
  <2>1. lo + k - 1 = k - j /\ k \in 1 .. j + F
    BY <1>1
  <2>2. w[k] = s[k - j] % DIG_BASE
    BY <2>1
  <2> QED
    BY <1>5, <2>1, <2>2
<1>7. /\ AreWords(w, n)
      /\ s[lo] \in Int /\ s[lo] \div DIG_BASE \in Int
      /\ Positional(u, n) = (s[lo] \div DIG_BASE) * Power(DIG_BASE, n) + Positional(w, n)
  <2>1. F \in Int /\ F = lo + n - 1 /\ \A p \in lo .. F : t[p] \in Int
    BY <1>1, <1>4
  <2>2. TakenOut(s, u, w, lo, n)
    BY ONLY <1>3, <1>6, <2>1, lo \in Int, n \in Nat, Carrying
  <2> QED
    BY <2>2 DEF TakenOut
<1>8. PICK va, vb : va = WordsIn(a, j, F) /\ vb = WordsIn(b, j, F)
  OBVIOUS
<1>9. \A k \in 1 .. n : /\ va[k] \in 0 .. DIG_MAX /\ vb[k] \in 0 .. DIG_MAX
                        /\ va[k] \in Int /\ vb[k] \in Int
                        /\ u[k] = va[k] + (-1) * vb[k]
  <2> SUFFICES ASSUME NEW k \in 1 .. n
               PROVE  /\ va[k] \in 0 .. DIG_MAX /\ vb[k] \in 0 .. DIG_MAX
                      /\ va[k] \in Int /\ vb[k] \in Int
                      /\ u[k] = va[k] + (-1) * vb[k]
    OBVIOUS
  <2>1. lo + k - 1 = k - j /\ k \in 1 .. j + F /\ k - j \in Int /\ k - j \in lo .. F
    BY <1>1
  <2>2. va[k] = Word(a, k - j) /\ vb[k] = Word(b, k - j)
    BY <1>8, <2>1 DEF WordsIn
  <2>3. /\ Word(a, k - j) \in 0 .. DIG_MAX /\ Word(b, k - j) \in 0 .. DIG_MAX
        /\ Word(a, k - j) \in Int /\ Word(b, k - j) \in Int
    BY <2>1, WordTypes
  <2>4. u[k] = Word(a, k - j) - Word(b, k - j)
    BY <1>4, <1>6, <2>1
  <2> QED
    BY <2>2, <2>3, <2>4
<1>10. AreWords(va, n) /\ AreWords(vb, n)
  BY <1>9 DEF AreWords
<1>11. PICK m \in Nat \ {0} : m = Power(DIG_BASE, n)
  BY Base, PowerPositive
<1>12. PICK c \in Int : c = s[lo] \div DIG_BASE
  BY <1>7
<1>13. PICK p \in Nat, q \in Nat, x \in Nat :
         /\ p = Positional(va, n) /\ q = Positional(vb, n) /\ x = Positional(w, n)
         /\ p < m /\ q < m /\ x < m
  BY <1>7, <1>10, <1>11, PositionalRange
<1>14. /\ Positional(WordsIn(a, i, F), i + F) = p
       /\ Positional(WordsIn(b, i, F), i + F) = q
       /\ q <= p
  <2>1. /\ Positional(WordsIn(a, i, F), i + F) = Positional(WordsIn(a, j, F), j + F)
        /\ Positional(WordsIn(b, i, F), i + F) = Positional(WordsIn(b, j, F), j + F)
    <3>1. j + F \in Nat /\ F \in Int
      OBVIOUS
    <3> QED
      BY <3>1, Leading
  <2> QED
    BY <1>1, <1>8, <1>13, <2>1
<1>15. Positional(u, n) = p + (-1) * q
  <2>1. -1 \in Int
    OBVIOUS
  <2>2. \A k \in 1 .. n : va[k] \in Int /\ vb[k] \in Int /\ u[k] = va[k] + (-1) * vb[k]
    BY <1>9
  <2> QED
    BY <1>13, <2>1, <2>2, PositionalLinear
<1>16. c * m + x = p - q
  BY <1>7, <1>11, <1>12, <1>13, <1>15
<1>17. c = 0
  <2>1. p - q < 1 * m /\ p - q \in Nat
    BY <1>13, <1>14
  <2>2. c \in 0 .. 1 - 1
    BY <1>13, <1>16, <2>1, CarryRange
  <2> QED
    BY <2>2
<1>18. x = p - q
  BY <1>16, <1>17
<1>19. ASSUME F >= 1 \/ j >= 1 PROVE s[F] = Word(a, F) - Word(b, F)
  <2>1. Carried(s, t, lo, n)
    BY <1>1, <1>3, <1>4, CarryTypes
  <2>2. n - 1 \in 0 .. n - 1 /\ lo + (n - 1) = F /\ lo + (n - 1) + 1 = lo + n /\ F \in lo .. F
    BY <1>1, <1>19
  <2>3. PICK B \in Nat \ {0} : B = DIG_BASE
    BY Base
  <2>4. s[F] = t[F] + s[lo + n] \div B /\ s[lo + n] = 0
    BY <2>1, <2>2, <2>3 DEF Carried
  <2>5. 0 \div B = 0
    OBVIOUS
  <2> QED
    BY <1>4, <2>2, <2>4, <2>5
<1> QED
  BY <1>1, <1>7, <1>13, <1>14, <1>18, <1>19 DEF WordDifferences

(* Words before the first of a larger number are zeros.                    *)
LEMMA NoWordsBefore ==
    ASSUME NEW a \in Decimals, NEW b \in Decimals, Less(b, a), NEW j \in Nat,
           \A p \in Int : p <= -j => Word(a, p) = 0
    PROVE  \A p \in Int : p <= -j => Word(b, p) = 0
<1> SUFFICES ASSUME NEW p \in Int, p <= -j, Word(b, p) # 0 PROVE FALSE
  OBVIOUS
<1>1. PICK i \in Nat, g \in Nat, ib \in Nat :
        /\ i = IntgOf(b, a) /\ g = FracOf(b, a) /\ ib = ROUND_UP(b.intg)
        /\ ib <= i /\ ROUND_UP(b.frac) <= g
  BY Ends, DecimalTypes
<1>2. Positions(b, a) = 1 - i .. g
  BY <1>1 DEF Positions
<1>3. PICK q \in 1 - i .. g : /\ Word(b, q) < Word(a, q)
                              /\ \A o \in 1 - i .. g : o < q => Word(b, o) = Word(a, o)
  BY <1>2 DEF Less
<1>4. q > -j
  <2> SUFFICES ASSUME q <= -j PROVE FALSE
    OBVIOUS
  <2>1. Word(a, q) = 0
    OBVIOUS
  <2>2. Word(b, q) \in 0 .. DIG_MAX
    BY WordTypes
  <2> QED
    BY <1>3, <2>1, <2>2, Base
<1>5. p \in 1 - i .. g
  <2>1. p \in 1 - ib .. ROUND_UP(b.frac)
    BY <1>1, WordTypes
  <2>2. ROUND_UP(b.frac) \in Nat
    BY DecimalTypes
  <2> QED
    BY <1>1, <2>1, <2>2
<1>6. Word(b, p) = Word(a, p)
  BY <1>3, <1>4, <1>5
<1> QED
  BY <1>6

LEMMA CutOrder ==
    ASSUME NEW a \in Decimals, NEW b \in Decimals, NEW i \in Nat, NEW F \in Nat, NEW g \in Nat,
           ROUND_UP(a.intg) <= i, ROUND_UP(b.intg) <= i,
           ROUND_UP(a.frac) <= g, ROUND_UP(b.frac) <= g, F <= g, Scaled(b, g) <= Scaled(a, g)
    PROVE  Positional(WordsIn(b, i, F), i + F) <= Positional(WordsIn(a, i, F), i + F)
<1>1. PICK c \in Nat \ {0} : c = Power(DIG_BASE, g - F)
  <2>1. g - F \in Nat
    OBVIOUS
  <2> QED
    BY <2>1, Base, PowerPositive
<1>2. PICK p \in Nat, r \in Nat :
        p = Positional(WordsIn(a, i, F), i + F) /\ Scaled(a, g) = p * c + r /\ r < c
  <2>1. IsCut(a, i, F, g)
    BY Cut
  <2> QED
    BY <1>1, <2>1 DEF IsCut
<1>3. PICK q \in Nat, s \in Nat :
        q = Positional(WordsIn(b, i, F), i + F) /\ Scaled(b, g) = q * c + s /\ s < c
  <2>1. IsCut(b, i, F, g)
    BY Cut
  <2> QED
    BY <1>1, <2>1 DEF IsCut
<1>4. q <= p
  <2> SUFFICES ASSUME p + 1 <= q PROVE FALSE
    OBVIOUS
  <2>1. (p + 1) * c <= q * c
    BY MulMonotonic
  <2>2. (p + 1) * c = p * c + c /\ p * c \in Nat /\ q * c \in Nat
    OBVIOUS
  <2> QED
    BY <1>2, <1>3, <2>1, <2>2
<1> QED
  BY <1>2, <1>3, <1>4

DifferenceMade(r, a, b, sign, i, j, F, error) ==
    \E p \in Nat, q \in Nat :
        /\ p = Positional(WordsIn(a, i, F), i + F)
        /\ q = Positional(WordsIn(b, i, F), i + F)
        /\ q <= p
        /\ IsResult(r, sign, error, j, F, p - q)

LEMMA DifferenceMakes ==
    ASSUME NEW a \in Decimals, NEW b \in Decimals, Less(b, a), NEW sign \in BOOLEAN,
           NEW i \in Nat, i = IntgOf(a, b), NEW j \in Nat, j = IntgWords(a),
           NEW F \in Nat, F <= FracOf(a, b), NEW fix, fix = DiffFix(a, b),
           fix.intg = j, fix.frac = F
    PROVE  DifferenceMade(Difference(a, b, sign), a, b, sign, i, j, F, fix.error)
<1>1. PICK s : s = SUB(a, b, 1 - j, F)
  OBVIOUS
<1>2. PICK w : w = [k \in 1 .. j + F |-> s[k - j] % DIG_BASE]
  OBVIOUS
<1>3. PICK g \in Nat : /\ g = FracOf(a, b) /\ F <= g
                       /\ ROUND_UP(a.intg) <= i /\ ROUND_UP(b.intg) <= i
                       /\ ROUND_UP(a.frac) <= g /\ ROUND_UP(b.frac) <= g
  BY Ends
<1>4. j <= i
  <2>1. IntgWords(a) <= ROUND_UP(a.intg) /\ ROUND_UP(a.intg) \in Nat
    BY Significance, DecimalTypes
  <2> QED
    BY <1>3, <2>1
<1>5. \A p \in Int : p <= -j => Word(a, p) = 0 /\ Word(b, p) = 0
  <2>1. \A p \in Int : p <= -j => Word(a, p) = 0
    BY Significance
  <2>2. \A p \in Int : p <= -j => Word(b, p) = 0
    BY <2>1, NoWordsBefore
  <2> QED
    BY <2>1, <2>2
<1>6. Positional(WordsIn(b, i, F), i + F) <= Positional(WordsIn(a, i, F), i + F)
  <2>1. Scaled(b, g) < Scaled(a, g)
    BY <1>3, Compared
  <2>2. Scaled(b, g) \in Nat /\ Scaled(a, g) \in Nat
    BY <1>3, ScaledTypes
  <2>3. Scaled(b, g) <= Scaled(a, g)
    BY <2>1, <2>2
  <2> QED
    BY <1>3, <2>3, CutOrder
<1>7. WordDifferences(a, b, s, w, i, j, F)
  <2>1. \A k \in 1 .. j + F : w[k] = s[k - j] % DIG_BASE
    BY <1>2
  <2> QED
    BY <1>1, <1>3, <1>4, <1>5, <1>6, <2>1, DifferenceOfWords
<1>8. PICK p \in Nat, q \in Nat :
         /\ p = Positional(WordsIn(a, i, F), i + F)
         /\ q = Positional(WordsIn(b, i, F), i + F)
         /\ q <= p
         /\ AreWords(w, j + F)
         /\ Positional(w, j + F) = p - q
         /\ F >= 1 \/ j >= 1 => s[F] = Word(a, F) - Word(b, F)
  BY <1>7 DEF WordDifferences
<1>9. PICK frac \in Nat : /\ frac = Max({a.frac, b.frac}) /\ ROUND_UP(frac) = FracOf(a, b)
                          /\ a.frac <= frac /\ b.frac <= frac
  BY Ends
<1>10. PICK word : word = DiffWord(fix, s)
  OBVIOUS
<1>11. Difference(a, b, sign) = Result(sign, frac, fix, word)
  BY <1>1, <1>9, <1>10, DifferenceIs
<1>12. ASSUME NEW k \in 1 - j .. F
       PROVE  word[k] = w[k + j] /\ word[k] = s[k] % DIG_BASE /\ word[k] \in 0 .. DIG_MAX
  <2>1. word[k] = s[k] % DIG_BASE
    BY <1>10 DEF DiffWord
  <2>2. k + j \in 1 .. j + F /\ (k + j) - j = k
    OBVIOUS
  <2>3. w[k + j] = s[k] % DIG_BASE
    BY <1>2, <2>2
  <2>4. w[k + j] \in 0 .. DIG_MAX
    BY <1>8, <2>2 DEF AreWords
  <2> QED
    BY <2>1, <2>3, <2>4
<1>13. LastDigits(frac, F, word)
  <2> SUFFICES ASSUME F = ROUND_UP(frac), frac % DIG_PER_DEC1 # 0
               PROVE  word[F] % Power(Radix, DIG_PER_DEC1 - (frac % DIG_PER_DEC1)) = 0
    BY DEF LastDigits
  <2>1. F >= 1
    BY LastWordDigits
  <2>2. F \in 1 - j .. F
    BY <2>1
  <2>3. word[F] = (Word(a, F) - Word(b, F)) % DIG_BASE
    BY <1>8, <1>12, <2>1, <2>2
  <2>4. Word(a, F) + (-1) * Word(b, F) = Word(a, F) - Word(b, F)
    BY WordTypes
  <2>5. ((Word(a, F) + (-1) * Word(b, F)) % DIG_BASE)
             % Power(Radix, DIG_PER_DEC1 - (frac % DIG_PER_DEC1)) = 0
    <3>1. -1 \in Int
      OBVIOUS
    <3> QED
      BY <1>9, <3>1, LastDigit
  <2> QED
    BY <2>3, <2>4, <2>5
<1>14. PICK r : r = Difference(a, b, sign) /\ Makes(r, sign, fix.error, j, F, word)
  <2>1. F <= ROUND_UP(frac)
    BY <1>9
  <2>2. \A k \in 1 - j .. F : word[k] \in 0 .. DIG_MAX
    BY <1>12
  <2> QED
    BY <1>11, <1>13, <2>1, <2>2, ResultMakes
<1>15. PICK v : v = [k \in 1 .. j + F |-> word[k - j]]
  OBVIOUS
<1>16. Positional(v, j + F) = p - q
  <2>1. PICK n \in Nat : n = j + F
    OBVIOUS
  <2>2. \A k \in 1 .. n : w[k] \in Int /\ v[k] = w[k]
    <3> SUFFICES ASSUME NEW k \in 1 .. n PROVE w[k] \in Int /\ v[k] = w[k]
      OBVIOUS
    <3>1. k - j \in 1 - j .. F /\ (k - j) + j = k
      BY <2>1
    <3>2. word[k - j] = w[k]
      BY <1>12, <3>1
    <3>3. w[k] \in Int
      BY <1>8, <2>1, Base DEF AreWords
    <3>4. v[k] = word[k - j]
      BY <1>15, <2>1
    <3> QED
      BY <3>2, <3>3, <3>4
  <2>3. Positional(v, n) = Positional(w, n)
    BY <2>2, PositionalSame
  <2> QED
    BY <1>8, <2>1, <2>3
<1>17. IsResult(r, sign, fix.error, j, F, p - q)
  BY <1>14, <1>15, <1>16 DEF IsResult, Makes
<1> QED
  BY <1>8, <1>14, <1>17 DEF DifferenceMade

-----------------------------------------------------------------------------
(* Sums of numbers with signs.                                             *)

WithSign(sign, m) == IF ~sign THEN m ELSE IF m = 0 THEN NegZero ELSE -m

LEMMA SignedNumber ==
    ASSUME NEW d \in Decimals, ROUND_UP(d.frac) <= DECIMAL_BUFF_LENGTH
    PROVE  /\ Scaled(d, DECIMAL_BUFF_LENGTH) \in Nat
           /\ Number(d) = WithSign(d.sign, Scaled(d, DECIMAL_BUFF_LENGTH))
<1>1. Scaled(d, DECIMAL_BUFF_LENGTH) \in Nat
  BY WordAssumption, ScaledTypes
<1>2. Number(d) = WithSign(d.sign, Scaled(d, DECIMAL_BUFF_LENGTH))
  BY Zenon DEF Number, WithSign, Scaled
<1> QED
  BY <1>1, <1>2

LEMMA SignedNum ==
    ASSUME NEW sign \in BOOLEAN, NEW m \in Nat
    PROVE  /\ sign = FALSE => WithSign(sign, m) = m
           /\ sign = TRUE /\ m = 0 => WithSign(sign, m) = NegZero
           /\ sign = TRUE /\ m # 0 => WithSign(sign, m) = -m
           /\ sign = TRUE => Num(WithSign(sign, m)) = -m
           /\ sign = FALSE => Num(WithSign(sign, m)) = m
           /\ WithSign(sign, m) # Junk
           /\ WithSign(sign, m) = NegZero => sign = TRUE /\ m = 0
<1>1. -m \in Int /\ m \in Int
  OBVIOUS
<1>2. sign = FALSE => WithSign(sign, m) = m
  BY DEF WithSign
<1>3. sign = TRUE /\ m = 0 => WithSign(sign, m) = NegZero
  BY DEF WithSign
<1>4. sign = TRUE /\ m # 0 => WithSign(sign, m) = -m
  BY DEF WithSign
<1>5. /\ m # NegZero /\ -m # NegZero /\ m # Junk /\ -m # Junk /\ NegZero # Junk
  BY <1>1, NegZeroAssumption, JunkAssumption
<1>6. Num(m) = m /\ Num(-m) = -m /\ Num(NegZero) = 0
  BY <1>5 DEF Num
<1>7. sign = TRUE \/ sign = FALSE
  OBVIOUS
<1> QED
  BY <1>2, <1>3, <1>4, <1>5, <1>6, <1>7

(* Numbers of one sign add up; of two, the larger one has its way.         *)
LEMMA PlusSigned ==
    ASSUME NEW s \in BOOLEAN, NEW t \in BOOLEAN, NEW m \in Nat, NEW n \in Nat,
           NEW v, v = Plus(WithSign(s, m), WithSign(t, n), "decimal")
    PROVE  /\ s = t => v = WithSign(s, m + n)
           /\ s # t /\ n < m => v = WithSign(s, m - n)
           /\ s # t /\ m < n => v = WithSign(t, n - m)
           /\ s # t /\ m = n => v = 0
<1>1. PICK x, y : x = WithSign(s, m) /\ y = WithSign(t, n)
  OBVIOUS
<1>2. /\ x # Junk /\ y # Junk
      /\ (s = TRUE => Num(x) = -m) /\ (s = FALSE => Num(x) = m)
      /\ (t = TRUE => Num(y) = -n) /\ (t = FALSE => Num(y) = n)
      /\ (x = NegZero <=> s = TRUE /\ m = 0)
      /\ (y = NegZero <=> t = TRUE /\ n = 0)
  BY <1>1, SignedNum
<1>3. v = IF x = NegZero /\ y = NegZero THEN NegZero ELSE Num(x) + Num(y)
  BY <1>1, <1>2 DEF Plus, Fit
<1>4. m + n \in Nat /\ (n < m => m - n \in Nat) /\ (m < n => n - m \in Nat)
  OBVIOUS
<1>5. ASSUME s = t PROVE v = WithSign(s, m + n)
  <2>1. CASE s = FALSE
    <3>1. v = m + n
      BY <1>2, <1>3, <1>5, <2>1
    <3> QED
      BY <1>4, <2>1, <3>1, SignedNum
  <2>2. CASE s = TRUE /\ m + n = 0
    <3>0. t = TRUE /\ m = 0 /\ n = 0
      BY <1>5, <2>2
    <3>1. v = NegZero
      BY <1>2, <1>3, <2>2, <3>0
    <3> QED
      BY <1>4, <2>2, <3>1, SignedNum
  <2>3. CASE s = TRUE /\ m + n # 0
    <3>0. t = TRUE /\ ~(m = 0 /\ n = 0)
      BY <1>5, <2>3
    <3>1. Num(x) = -m /\ Num(y) = -n /\ v = Num(x) + Num(y)
      BY <1>2, <1>3, <2>3, <3>0
    <3>2. v = -(m + n)
      BY <3>1
    <3> QED
      BY <1>4, <2>3, <3>2, SignedNum
  <2> QED
    BY <2>1, <2>2, <2>3
<1>6. ASSUME s # t PROVE v = Num(x) + Num(y)
  BY <1>2, <1>3, <1>6
<1>7. ASSUME s # t, n < m PROVE v = WithSign(s, m - n)
  <2>1. CASE s = FALSE
    BY <1>2, <1>4, <1>6, <1>7, <2>1, SignedNum
  <2>2. CASE s = TRUE
    <3>0. t = FALSE
      BY <1>7, <2>2
    <3>1. Num(x) = -m /\ Num(y) = n
      BY <1>2, <2>2, <3>0
    <3>2. v = -(m - n) /\ m - n # 0
      BY <1>6, <1>7, <3>1
    <3> QED
      BY <1>4, <1>7, <2>2, <3>2, SignedNum
  <2> QED
    BY <2>1, <2>2
<1>8. ASSUME s # t, m < n PROVE v = WithSign(t, n - m)
  <2>1. CASE t = FALSE
    <3>1. v = n - m
      BY <1>2, <1>6, <1>8, <2>1
    <3> QED
      BY <1>4, <1>8, <2>1, <3>1, SignedNum
  <2>2. CASE t = TRUE
    <3>0. s = FALSE
      BY <1>8, <2>2
    <3>1. Num(x) = m /\ Num(y) = -n
      BY <1>2, <2>2, <3>0
    <3>2. v = -(n - m) /\ n - m # 0
      BY <1>6, <1>8, <3>1
    <3> QED
      BY <1>4, <1>8, <2>2, <3>2, SignedNum
  <2> QED
    BY <2>1, <2>2
<1>9. ASSUME s # t, m = n PROVE v = 0
  BY <1>2, <1>6, <1>9
<1> QED
  BY <1>5, <1>7, <1>8, <1>9

FixCut(fix, i, f) ==
    /\ fix.intg \in Nat /\ fix.frac \in Nat
    /\ fix.intg + fix.frac <= DECIMAL_BUFF_LENGTH
    /\ fix.frac <= f
    /\ fix.error \in {E_DEC_OK, E_DEC_TRUNCATED, E_DEC_OVERFLOW}
    /\ fix.error = E_DEC_OVERFLOW <=> i > DECIMAL_BUFF_LENGTH
    /\ fix.error # E_DEC_OVERFLOW => fix.intg = i
    /\ fix.error = E_DEC_OK <=> i + f <= DECIMAL_BUFF_LENGTH
    /\ fix.error = E_DEC_OK => fix.frac = f

LEMMA FixCuts ==
    ASSUME NEW i \in Nat, NEW f \in Nat
    PROVE  FixCut(FixIntgFrac(i, f), i, f)
<1>1. PICK n \in Nat : n = DECIMAL_BUFF_LENGTH
  BY WordAssumption
<1>2. PICK fix : fix = FixIntgFrac(i, f)
  OBVIOUS
<1>3. E_DEC_OK = 0 /\ E_DEC_TRUNCATED = 1 /\ E_DEC_OVERFLOW = 2
  BY DEF E_DEC_OK, E_DEC_TRUNCATED, E_DEC_OVERFLOW
<1>4. CASE i + f <= n
  <2>1. fix = [intg |-> i, frac |-> f, error |-> E_DEC_OK]
    BY <1>1, <1>2, <1>4, FixIs
  <2>2. fix.intg = i /\ fix.frac = f /\ fix.error = E_DEC_OK
    BY <2>1
  <2>3. ~(i > n)
    BY <1>4
  <2> QED
    BY <1>1, <1>2, <1>3, <1>4, <2>2, <2>3 DEF FixCut
<1>5. CASE i > n
  <2>1. fix = [intg |-> n, frac |-> 0, error |-> E_DEC_OVERFLOW]
    BY <1>1, <1>2, <1>5, FixIs
  <2>2. fix.intg = n /\ fix.frac = 0 /\ fix.error = E_DEC_OVERFLOW
    BY <2>1
  <2>3. ~(i + f <= n) /\ n + 0 <= n /\ 0 <= f
    BY <1>5
  <2> QED
    BY <1>1, <1>2, <1>3, <1>5, <2>2, <2>3 DEF FixCut
<1>6. CASE i <= n /\ i + f > n
  <2>1. fix = [intg |-> i, frac |-> n - i, error |-> E_DEC_TRUNCATED]
    BY <1>1, <1>2, <1>6, FixIs
  <2>2. fix.intg = i /\ fix.frac = n - i /\ fix.error = E_DEC_TRUNCATED
    BY <2>1
  <2>3. ~(i + f <= n) /\ n - i <= f /\ ~(i > n) /\ n - i \in Nat /\ i + (n - i) <= n
    BY <1>6
  <2> QED
    BY <1>1, <1>2, <1>3, <2>2, <2>3 DEF FixCut
<1> QED
  BY <1>4, <1>5, <1>6

(* A result of sign and about the magnitude m: the same number unless it   *)
(* reports an error, and if it was cut, off by less than two of its last   *)
(* word.                                                                   *)
IsNear(r, sign, m) ==
    /\ r.to \in Decimals /\ Fits(r.to) /\ r.to.sign = sign
    /\ \E n \in Nat, c \in Nat \ {0} :
         /\ n = Scaled(r.to, DECIMAL_BUFF_LENGTH)
         /\ c = Power(DIG_BASE, DECIMAL_BUFF_LENGTH - ROUND_UP(r.to.frac))
         /\ r.error = E_DEC_OK => n = m
         /\ -2 * c < m - n /\ m - n < 2 * c

LEMMA Near ==
    ASSUME NEW r, NEW sign, NEW error, NEW i \in Nat, NEW F \in Nat, NEW k \in Nat,
           IsResult(r, sign, error, i, F, k), i + F <= DECIMAL_BUFF_LENGTH,
           NEW c \in Nat \ {0}, c = Power(DIG_BASE, DECIMAL_BUFF_LENGTH - F),
           NEW m \in Int, error = E_DEC_OK => k * c = m,
           -2 * c < m - k * c, m - k * c < 2 * c
    PROVE  IsNear(r, sign, m)
<1>1. /\ r.error = error /\ r.to \in Decimals /\ r.to.sign = sign
      /\ ROUND_UP(r.to.intg) = i /\ ROUND_UP(r.to.frac) = F /\ Mantissa(r.to) = k
  BY DEF IsResult
<1>2. Scaled(r.to, DECIMAL_BUFF_LENGTH) = k * c
  BY <1>1 DEF Scaled
<1>3. Fits(r.to)
  BY <1>1 DEF Fits
<1>4. k * c \in Nat
  OBVIOUS
<1> QED
  BY <1>1, <1>2, <1>3, <1>4 DEF IsNear

(* do_add() adds the magnitudes.                                           *)
LEMMA SumNear ==
    ASSUME NEW a \in Decimals, NEW b \in Decimals, Fits(a), Fits(b),
           SumFix(a, b).error # E_DEC_OVERFLOW
    PROVE  /\ DoAdd(a, b).error = SumFix(a, b).error
           /\ IsNear(DoAdd(a, b), a.sign,
                     Scaled(a, DECIMAL_BUFF_LENGTH) + Scaled(b, DECIMAL_BUFF_LENGTH))
<1>1. PICK N \in Nat \ {0} : N = DECIMAL_BUFF_LENGTH
  BY WordAssumption
<1>2. PICK i \in Nat, f \in Nat :
        /\ i = IntgOf(a, b) /\ f = FracOf(a, b)
        /\ ROUND_UP(a.intg) <= i /\ ROUND_UP(b.intg) <= i
        /\ ROUND_UP(a.frac) <= f /\ ROUND_UP(b.frac) <= f
        /\ f \in {ROUND_UP(a.frac), ROUND_UP(b.frac)}
  BY Ends
<1>3. ROUND_UP(a.frac) <= N /\ ROUND_UP(b.frac) <= N
  BY <1>1, FracFits
<1>4. PICK j \in Nat : j = IF TopWords(a, b) > DIG_MAX - 1 THEN i + 1 ELSE i
  OBVIOUS
<1>5. PICK fix : fix = SumFix(a, b) /\ FixCut(fix, j, f)
  <2>1. SumFix(a, b) = FixIntgFrac(j, f)
    BY <1>2, <1>4 DEF SumFix
  <2> QED
    BY <2>1, FixCuts
<1>6. PICK F \in Nat : /\ F = fix.frac /\ fix.intg = j /\ F <= f /\ j + F <= N
                       /\ fix.error = E_DEC_OK => F = f
  BY <1>1, <1>5 DEF FixCut
<1>7. PICK r : r = DoAdd(a, b) /\ SumIs(r, a, b, i, j, F, fix.error)
  BY <1>2, <1>4, <1>5, <1>6, SumMakes
<1>8. PICK p \in Nat, q \in Nat :
         /\ p = Positional(WordsIn(a, i, F), i + F)
         /\ q = Positional(WordsIn(b, i, F), i + F)
         /\ IsResult(r, a.sign, fix.error, j, F, p + q)
  BY <1>7 DEF SumIs
<1>9. F <= N
  BY <1>2, <1>3, <1>6
<1>10. PICK c \in Nat \ {0}, ra \in Nat :
         /\ c = Power(DIG_BASE, N - F) /\ Scaled(a, N) = p * c + ra /\ ra < c
         /\ ROUND_UP(a.frac) <= F => ra = 0
  <2>1. IsCut(a, i, F, N)
    BY <1>2, <1>3, <1>9, Cut
  <2> QED
    BY <1>8, <2>1 DEF IsCut
<1>11. PICK rb \in Nat :
         /\ Scaled(b, N) = q * c + rb /\ rb < c
         /\ ROUND_UP(b.frac) <= F => rb = 0
  <2>1. IsCut(b, i, F, N)
    BY <1>2, <1>3, <1>9, Cut
  <2> QED
    BY <1>8, <1>10, <2>1 DEF IsCut
<1>12. PICK m \in Nat : m = Scaled(a, N) + Scaled(b, N) /\ m = (p + q) * c + (ra + rb)
  <2>1. (p + q) * c = p * c + q * c /\ p * c \in Nat /\ q * c \in Nat
    OBVIOUS
  <2> QED
    BY <1>10, <1>11, <2>1
<1>13. fix.error = E_DEC_OK => ra + rb = 0
  BY <1>2, <1>6, <1>10, <1>11
<1>14. IsNear(r, a.sign, m)
  <2>1. PICK k \in Nat, e \in Nat : k = p + q /\ e = k * c
    OBVIOUS
  <2>2. m - e = ra + rb /\ -2 * c < m - e /\ m - e < 2 * c /\ (fix.error = E_DEC_OK => e = m)
    BY <1>10, <1>11, <1>12, <1>13, <2>1
  <2> QED
    BY <1>1, <1>6, <1>8, <1>10, <2>1, <2>2, Near
<1>15. r.error = fix.error
  BY <1>8 DEF IsResult
<1> QED
  BY <1>1, <1>5, <1>7, <1>12, <1>14, <1>15

(* A difference is never too large, and exact if there is room for it.     *)
LEMMA DifferenceNear ==
    ASSUME NEW a \in Decimals, NEW b \in Decimals, Fits(a), Fits(b), Less(b, a),
           NEW sign \in BOOLEAN
    PROVE  /\ Difference(a, b, sign).error \in {E_DEC_OK, E_DEC_TRUNCATED}
           /\ IntgOf(a, b) + FracOf(a, b) <= DECIMAL_BUFF_LENGTH
                => Difference(a, b, sign).error = E_DEC_OK
           /\ IsNear(Difference(a, b, sign), sign,
                     Scaled(a, DECIMAL_BUFF_LENGTH) - Scaled(b, DECIMAL_BUFF_LENGTH))
<1>1. PICK N \in Nat \ {0} : N = DECIMAL_BUFF_LENGTH
  BY WordAssumption
<1>2. PICK i \in Nat, f \in Nat :
        /\ i = IntgOf(a, b) /\ f = FracOf(a, b)
        /\ ROUND_UP(a.intg) <= i /\ ROUND_UP(b.intg) <= i
        /\ ROUND_UP(a.frac) <= f /\ ROUND_UP(b.frac) <= f
  BY Ends
<1>3. ROUND_UP(a.frac) <= N /\ ROUND_UP(b.frac) <= N
  BY <1>1, FracFits
<1>4. PICK j \in Nat : j = IntgWords(a) /\ j <= i /\ j <= N
  <2>1. PICK k \in Nat : k = ROUND_UP(a.intg) /\ k <= N
    BY <1>1, FracFits
  <2> QED
    BY <1>2, <2>1, Significance
<1>5. PICK fix : fix = DiffFix(a, b) /\ FixCut(fix, j, f)
  <2>1. DiffFix(a, b) = FixIntgFrac(j, f)
    BY <1>2, <1>4 DEF DiffFix
  <2> QED
    BY <2>1, FixCuts
<1>6. PICK F \in Nat : /\ F = fix.frac /\ F <= f /\ fix.intg + F <= N
                       /\ fix.error \in {E_DEC_OK, E_DEC_TRUNCATED, E_DEC_OVERFLOW}
                       /\ fix.error = E_DEC_OVERFLOW <=> j > N
                       /\ fix.error # E_DEC_OVERFLOW => fix.intg = j
                       /\ j + f <= N => fix.error = E_DEC_OK
                       /\ fix.error = E_DEC_OK => F = f
  BY <1>1, <1>5 DEF FixCut
<1>7. fix.error # E_DEC_OVERFLOW /\ fix.intg = j /\ j + F <= N
  BY <1>4, <1>6
<1>8. PICK r : r = Difference(a, b, sign) /\ DifferenceMade(r, a, b, sign, i, j, F, fix.error)
  BY <1>2, <1>4, <1>5, <1>6, <1>7, DifferenceMakes
<1>9. PICK p \in Nat, q \in Nat, k \in Nat :
         /\ p = Positional(WordsIn(a, i, F), i + F)
         /\ q = Positional(WordsIn(b, i, F), i + F)
         /\ k = p - q
         /\ IsResult(r, sign, fix.error, j, F, k)
  <2>1. PICK p \in Nat, q \in Nat :
         /\ p = Positional(WordsIn(a, i, F), i + F)
         /\ q = Positional(WordsIn(b, i, F), i + F)
         /\ q <= p
         /\ IsResult(r, sign, fix.error, j, F, p - q)
    BY <1>8 DEF DifferenceMade
  <2>2. p - q \in Nat
    BY <2>1
  <2> QED
    BY <2>1, <2>2
<1>10. PICK c \in Nat \ {0}, ra \in Nat :
         /\ c = Power(DIG_BASE, N - F) /\ Scaled(a, N) = p * c + ra /\ ra < c
         /\ ROUND_UP(a.frac) <= F => ra = 0
  <2>1. F <= N
    BY <1>7
  <2>2. IsCut(a, i, F, N)
    BY <1>2, <1>3, <2>1, Cut
  <2> QED
    BY <1>9, <2>2 DEF IsCut
<1>11. PICK rb \in Nat :
         /\ Scaled(b, N) = q * c + rb /\ rb < c
         /\ ROUND_UP(b.frac) <= F => rb = 0
  <2>1. F <= N
    BY <1>7
  <2>2. IsCut(b, i, F, N)
    BY <1>2, <1>3, <2>1, Cut
  <2> QED
    BY <1>9, <1>10, <2>2 DEF IsCut
<1>12. PICK m \in Int : m = Scaled(a, N) - Scaled(b, N) /\ m = k * c + (ra - rb)
  <2>1. k * c = p * c - q * c /\ p * c \in Nat /\ q * c \in Nat
    BY <1>9
  <2> QED
    BY <1>10, <1>11, <2>1
<1>13. fix.error = E_DEC_OK => ra - rb = 0
  BY <1>2, <1>6, <1>10, <1>11
<1>14. IsNear(r, sign, m)
  <2>1. PICK e \in Nat : e = k * c
    OBVIOUS
  <2>2. m - e = ra - rb /\ -2 * c < m - e /\ m - e < 2 * c /\ (fix.error = E_DEC_OK => e = m)
    BY <1>10, <1>11, <1>12, <1>13, <2>1
  <2> QED
    BY <1>1, <1>7, <1>9, <1>10, <2>1, <2>2, Near
<1>15. r.error = fix.error
  BY <1>9 DEF IsResult
<1>16. i + f <= N => j + f <= N
  BY <1>4
<1> QED
  BY <1>1, <1>2, <1>6, <1>7, <1>8, <1>12, <1>14, <1>15, <1>16

(* The first words of a sum that is too large.                             *)
LEMMA TooLarge ==
    ASSUME NEW a \in Decimals, NEW b \in Decimals, Fits(a), Fits(b)
    PROVE  /\ SumFix(a, b).error \in {E_DEC_OK, E_DEC_TRUNCATED, E_DEC_OVERFLOW}
           /\ SumFix(a, b).error = E_DEC_OVERFLOW =>
                Scaled(a, DECIMAL_BUFF_LENGTH) + Scaled(b, DECIMAL_BUFF_LENGTH)
                  >= DIG_MAX * Power(DIG_BASE, 2 * DECIMAL_BUFF_LENGTH - 1)
<1>1. PICK N \in Nat \ {0} : N = DECIMAL_BUFF_LENGTH
  BY WordAssumption
<1>2. PICK i \in Nat, f \in Nat :
        /\ i = IntgOf(a, b) /\ f = FracOf(a, b)
        /\ ROUND_UP(a.intg) <= i /\ ROUND_UP(b.intg) <= i
        /\ i \in {ROUND_UP(a.intg), ROUND_UP(b.intg)}
  BY Ends
<1>3. /\ ROUND_UP(a.frac) <= N /\ ROUND_UP(b.frac) <= N
      /\ ROUND_UP(a.intg) <= N /\ ROUND_UP(b.intg) <= N
  BY <1>1, FracFits
<1>4. PICK j \in Nat : j = IF TopWords(a, b) > DIG_MAX - 1 THEN i + 1 ELSE i
  OBVIOUS
<1>5. PICK fix : fix = SumFix(a, b) /\ FixCut(fix, j, f)
  <2>1. SumFix(a, b) = FixIntgFrac(j, f)
    BY <1>2, <1>4 DEF SumFix
  <2> QED
    BY <2>1, FixCuts
<1>6. /\ fix.error \in {E_DEC_OK, E_DEC_TRUNCATED, E_DEC_OVERFLOW}
      /\ fix.error = E_DEC_OVERFLOW => j > N
  BY <1>1, <1>5 DEF FixCut
<1>7. ASSUME j > N
      PROVE  Scaled(a, N) + Scaled(b, N) >= DIG_MAX * Power(DIG_BASE, 2 * N - 1)
  <2>1. i = N /\ TopWords(a, b) > DIG_MAX - 1
    BY <1>2, <1>3, <1>4, <1>7
  <2>2. PICK n \in Nat, c \in Nat \ {0} : n = 2 * N - 1 /\ n + 1 = N + N /\ c = Power(DIG_BASE, n)
    <3>1. 2 * N - 1 \in Nat /\ (2 * N - 1) + 1 = N + N
      OBVIOUS
    <3> QED
      BY <3>1, Base, PowerPositive
  <2>3. ASSUME NEW d \in Decimals, ROUND_UP(d.intg) <= N, ROUND_UP(d.frac) <= N
        PROVE  /\ Scaled(d, N) \in Nat /\ Word(d, 1 - N) \in Int
               /\ Scaled(d, N) >= Word(d, 1 - N) * c
    <3>1. PICK w : w = WordsIn(d, N, N)
      OBVIOUS
    <3>2. AreWords(w, N + N) /\ Positional(w, N + N) = Scaled(d, N)
      BY <2>3, <3>1, Aligned DEF Scaled
    <3>3. w[1] = Word(d, 1 - N)
      BY <3>1 DEF WordsIn
    <3>4. PICK v : v = [k \in 1 .. n |-> w[k + 1]]
      OBVIOUS
    <3>5. \A k \in 1 .. n + 1 : w[k] \in 0 .. DIG_MAX /\ w[k] \in Int
      BY <2>2, <3>2, Base DEF AreWords
    <3>6. Positional(w, n + 1) = w[1] * c + Positional(v, n)
      <4>1. \A k \in 1 .. n + 1 : w[k] \in Int
        BY <3>5
      <4>2. \A k \in 1 .. n : v[k] = w[k + 1]
        BY <3>4
      <4> QED
        BY <2>2, <4>1, <4>2, PositionalFirst
    <3>7. AreWords(v, n)
      <4> SUFFICES ASSUME NEW k \in 1 .. n PROVE v[k] \in 0 .. DIG_MAX
        BY DEF AreWords
      <4>1. k + 1 \in 1 .. n + 1
        OBVIOUS
      <4> QED
        BY <3>4, <3>5, <4>1
    <3>8. PICK x \in Nat : x = Positional(v, n)
      <4>1. n \in 0 .. n
        OBVIOUS
      <4> QED
        BY <3>7, <4>1, PositionalRange
    <3>9. PICK k \in Nat : k = w[1]
      BY <3>5, Base
    <3>10. k * c \in Nat /\ k * c + x \in Nat /\ k * c + x >= k * c
      OBVIOUS
    <3> QED
      BY <2>2, <3>2, <3>3, <3>6, <3>8, <3>9, <3>10
  <2>4. PICK x \in Int, y \in Int, M \in Nat :
          /\ x = Word(a, 1 - N) /\ y = Word(b, 1 - N) /\ M = DIG_MAX
          /\ Scaled(a, N) \in Nat /\ Scaled(b, N) \in Nat
          /\ Scaled(a, N) >= x * c /\ Scaled(b, N) >= y * c
    BY <1>3, <2>3, Base
  <2>5. M <= x + y
    <3>1. TopWords(a, b) = x + y
      BY <1>2, <2>1, <2>4, Tops
    <3> QED
      BY <2>1, <2>4, <3>1
  <2>6. M * c <= (x + y) * c
    <3>1. x + y \in Int
      OBVIOUS
    <3> QED
      BY <2>5, <3>1, MulMonotonic
  <2>7. (x + y) * c = x * c + y * c /\ x * c \in Int /\ y * c \in Int /\ M * c \in Int
    OBVIOUS
  <2> QED
    BY <2>2, <2>4, <2>6, <2>7
<1> QED
  BY <1>1, <1>5, <1>6, <1>7

LEMMA ZeroIs ==
    /\ Zero \in Decimals /\ Fits(Zero) /\ Zero.sign = FALSE
    /\ Number(Zero) = 0
<1>1. PICK b \in Nat \ {0}, N \in Nat \ {0} : b = DIG_PER_DEC1 /\ N = DECIMAL_BUFF_LENGTH
  BY WordAssumption
<1>2. ROUND_UP(0) = 0 /\ ROUND_UP(1) = 1
  <2>1. 0 * b = 0 /\ 1 * b = b
    OBVIOUS
  <2>2. 0 \in Int /\ 1 \in Int /\ 0 * b < 0 + b /\ 0 <= 0 * b /\ 1 <= 1 * b /\ 1 * b < 1 + b
    BY <2>1
  <2> QED
    BY <1>1, <2>2, RoundUpIs
<1>3. /\ Zero.sign = FALSE /\ Zero.intg = 1 /\ Zero.frac = 0 /\ Zero.buf = <<0>>
      /\ Zero = [sign |-> FALSE, intg |-> 1, frac |-> 0, buf |-> <<0>>]
  BY DEF Zero
<1>4. Len(<<0>>) = 1 /\ DOMAIN <<0>> = 1 .. 1 /\ <<0>>[1] = 0
  OBVIOUS
<1>5. 0 \in 0 .. DIG_MAX /\ <<0>> \in Seq(0 .. DIG_MAX)
  <2>1. 0 \in 0 .. DIG_MAX
    BY Base
  <2> QED
    BY <2>1
<1>6. 0 % b = 0
  OBVIOUS
<1>7. WordsOK(Zero)
  <2>1. 1 % b # 0 => 0 < Power(Radix, 1 % b)
    <3>1. 1 % b \in Nat
      OBVIOUS
    <3>2. PICK k \in Nat : k = 1 % b
      BY <3>1
    <3>3. Power(Radix, k) \in Nat \ {0}
      BY WordAssumption, PowerPositive
    <3> QED
      BY <3>2, <3>3
  <2>2. \A k \in DOMAIN <<0>> : <<0>>[k] \in 0 .. DIG_MAX
    BY <1>4, <1>5
  <2> QED
    BY <1>1, <1>2, <1>3, <1>4, <1>6, <2>1, <2>2 DEF WordsOK
<1>8. Zero \in Decimals
  BY <1>3, <1>5, <1>7 DEF Decimals
<1>9. Fits(Zero)
  BY <1>1, <1>2, <1>3 DEF Fits
<1>10. Mantissa(Zero) = 0
  <2>1. \A k \in 1 .. 1 : <<0>>[k] = 0
    BY <1>4
  <2>2. Positional(<<0>>, 1) = 0
    BY <2>1, PositionalZeros
  <2> QED
    BY <1>3, <1>4, <2>2 DEF Mantissa
<1>11. Number(Zero) = 0
  <2>1. Power(DIG_BASE, N) \in Nat /\ N - 0 = N
    BY Base, PowerPositive
  <2> QED
    BY <1>1, <1>2, <1>3, <1>10, <2>1 DEF Number
<1> QED
  BY <1>3, <1>8, <1>9, <1>11

LEMMA MaxDecimalIs == MaxDecimal \in Decimals /\ Fits(MaxDecimal)
<1>1. PICK b \in Nat \ {0}, N \in Nat \ {0}, m \in Nat :
        b = DIG_PER_DEC1 /\ N = DECIMAL_BUFF_LENGTH /\ m = DIG_MAX
  BY WordAssumption, Base
<1>2. PICK s : s = [k \in 1 .. N |-> m]
  OBVIOUS
<1>3. s \in Seq(0 .. m) /\ Len(s) = N /\ DOMAIN s = 1 .. N
  <2>1. s \in [1 .. N -> 0 .. m]
    BY <1>2
  <2> QED
    BY <2>1, FunctionSeq
<1>4. /\ MaxDecimal.sign = FALSE /\ MaxDecimal.intg = N * DIG_PER_DEC1 /\ MaxDecimal.frac = 0
      /\ MaxDecimal.buf = s
      /\ MaxDecimal = [sign |-> FALSE, intg |-> N * DIG_PER_DEC1, frac |-> 0, buf |-> s]
  BY <1>1, <1>2 DEF MaxDecimal
<1>5. /\ ROUND_UP(N * DIG_PER_DEC1) = N /\ (N * DIG_PER_DEC1) % DIG_PER_DEC1 = 0
      /\ ROUND_UP(0) = 0
  <2>1. 0 * b = 0 /\ 0 \in Int
    OBVIOUS
  <2>2. ROUND_UP(0 * DIG_PER_DEC1) = 0
    BY RoundUpWords
  <2> QED
    BY <1>1, <2>1, <2>2, RoundUpWords, WholeWords
<1>6. WordsOK(MaxDecimal)
  <2>1. \A k \in DOMAIN s : s[k] \in 0 .. DIG_MAX
    BY <1>1, <1>2, <1>3
  <2>2. 0 % b = 0
    OBVIOUS
  <2> QED
    BY <1>1, <1>3, <1>4, <1>5, <2>1, <2>2 DEF WordsOK
<1>7. N * DIG_PER_DEC1 \in Nat
  BY <1>1
<1>8. MaxDecimal \in Decimals
  BY <1>1, <1>3, <1>4, <1>6, <1>7 DEF Decimals
<1>9. Fits(MaxDecimal)
  BY <1>1, <1>4, <1>5 DEF Fits
<1> QED
  BY <1>8, <1>9

(* What SumIsHonest says of r, the sum of a and b; and what later          *)
(* operations rely on.                                                     *)
Honest(r, a, b) ==
    LET want == Plus(Number(a), Number(b), "decimal")
        off == Num(want) - Num(Number(r.to))
        one == Power(DIG_BASE, DECIMAL_BUFF_LENGTH - ROUND_UP(r.to.frac))
        big == DIG_MAX * Power(DIG_BASE, 2 * DECIMAL_BUFF_LENGTH - 1)
    IN  /\ r.to \in Decimals /\ Fits(r.to)
        /\ r.error = E_DEC_OK => Number(r.to) = want
        /\ r.error = E_DEC_TRUNCATED => -2 * one < off /\ off < 2 * one
        /\ r.error = E_DEC_OVERFLOW => Num(want) >= big \/ Num(want) <= -big

LEMMA NearIsHonest ==
    ASSUME NEW a, NEW b, NEW r, NEW sign \in BOOLEAN, NEW m \in Nat, IsNear(r, sign, m),
           Plus(Number(a), Number(b), "decimal") = WithSign(sign, m), r.error # E_DEC_OVERFLOW
    PROVE  Honest(r, a, b)
<1>1. PICK n \in Nat, c \in Nat \ {0} :
         /\ n = Scaled(r.to, DECIMAL_BUFF_LENGTH)
         /\ c = Power(DIG_BASE, DECIMAL_BUFF_LENGTH - ROUND_UP(r.to.frac))
         /\ r.error = E_DEC_OK => n = m
         /\ -2 * c < m - n /\ m - n < 2 * c
  BY DEF IsNear
<1>2. r.to \in Decimals /\ Fits(r.to) /\ r.to.sign = sign
  BY DEF IsNear
<1>3. Number(r.to) = WithSign(sign, n)
  <2>1. PICK d \in Decimals : d = r.to /\ Fits(d)
    BY <1>2
  <2>2. ROUND_UP(d.frac) <= DECIMAL_BUFF_LENGTH
    BY <2>1, FracFits
  <2>3. Number(d) = WithSign(d.sign, Scaled(d, DECIMAL_BUFF_LENGTH))
    BY <2>2, SignedNumber
  <2> QED
    BY <1>1, <1>2, <2>1, <2>3
<1>4. PICK x \in Int, y \in Int :
         /\ x = Num(WithSign(sign, m)) /\ y = Num(WithSign(sign, n))
         /\ -2 * c < x - y /\ x - y < 2 * c
  <2>1. CASE sign = TRUE
    <3>1. Num(WithSign(sign, m)) = -m /\ Num(WithSign(sign, n)) = -n
      BY <2>1, SignedNum
    <3> QED
      BY <1>1, <3>1
  <2>2. CASE sign = FALSE
    <3>1. Num(WithSign(sign, m)) = m /\ Num(WithSign(sign, n)) = n
      BY <2>2, SignedNum
    <3> QED
      BY <1>1, <3>1
  <2> QED
    BY <2>1, <2>2
<1>5. r.error = E_DEC_OK => Number(r.to) = WithSign(sign, m)
  BY <1>1, <1>3
<1> QED
  BY <1>1, <1>2, <1>3, <1>4, <1>5 DEF Honest

(* decimal_add() of any two decimals that a buffer holds.                  *)
LEMMA AddIsHonest ==
    ASSUME NEW a \in Decimals, NEW b \in Decimals, Fits(a), Fits(b)
    PROVE  Honest(decimal_add(a, b), a, b)
<1>1. PICK N \in Nat \ {0}, m \in Nat, n \in Nat, s \in BOOLEAN, t \in BOOLEAN :
         /\ N = DECIMAL_BUFF_LENGTH
         /\ m = Scaled(a, N) /\ n = Scaled(b, N) /\ s = a.sign /\ t = b.sign
         /\ Number(a) = WithSign(s, m) /\ Number(b) = WithSign(t, n)
         /\ ROUND_UP(a.frac) <= N /\ ROUND_UP(b.frac) <= N
  BY FracFits, SignedNumber, DecimalTypes
<1>2. PICK v : v = Plus(Number(a), Number(b), "decimal")
  OBVIOUS
<1>3. v = Plus(WithSign(s, m), WithSign(t, n), "decimal")
  BY <1>1, <1>2
<1>4. CASE s = t
  <2>1. decimal_add(a, b) = DoAdd(a, b)
    BY <1>1, <1>4 DEF decimal_add
  <2>2. v = WithSign(s, m + n) /\ m + n \in Nat
    BY <1>3, <1>4, PlusSigned
  <2>3. CASE SumFix(a, b).error # E_DEC_OVERFLOW
    <3>1. PICK r : r = DoAdd(a, b) /\ IsNear(r, s, m + n) /\ r.error # E_DEC_OVERFLOW
      BY <1>1, <2>3, SumNear
    <3> QED
      BY <1>2, <2>1, <2>2, <3>1, NearIsHonest
  <2>4. CASE SumFix(a, b).error = E_DEC_OVERFLOW
    <3>1. PICK r : r = DoAdd(a, b) /\ r = [to |-> MaxDecimal, error |-> E_DEC_OVERFLOW]
      BY <2>4, DoAddIs
    <3>2. PICK big \in Int : /\ big = DIG_MAX * Power(DIG_BASE, 2 * DECIMAL_BUFF_LENGTH - 1)
                             /\ m + n >= big
      <4>1. PICK e \in Nat : e = 2 * DECIMAL_BUFF_LENGTH - 1
        <5>1. 2 * N - 1 \in Nat
          OBVIOUS
        <5> QED
          BY <1>1, <5>1
      <4>2. PICK c \in Nat, M \in Nat : c = Power(DIG_BASE, e) /\ M = DIG_MAX
        BY Base, PowerPositive
      <4>3. M * c \in Int
        OBVIOUS
      <4>4. m + n >= DIG_MAX * Power(DIG_BASE, 2 * DECIMAL_BUFF_LENGTH - 1)
        BY <1>1, <2>4, TooLarge
      <4> QED
        BY <4>1, <4>2, <4>3, <4>4
    <3>3. Num(v) >= big \/ Num(v) <= -big
      <4>1. CASE s = TRUE
        <5>1. Num(v) = -(m + n)
          BY <2>2, <4>1, SignedNum
        <5> QED
          BY <3>2, <5>1
      <4>2. CASE s = FALSE
        <5>1. Num(v) = m + n
          BY <2>2, <4>2, SignedNum
        <5> QED
          BY <3>2, <5>1
      <4> QED
        BY <4>1, <4>2
    <3>4. r.to = MaxDecimal /\ r.error = E_DEC_OVERFLOW
      BY <3>1
    <3>5. /\ r.error # E_DEC_OK /\ r.error # E_DEC_TRUNCATED
          /\ r.to \in Decimals /\ Fits(r.to)
      BY <3>4, MaxDecimalIs DEF E_DEC_OK, E_DEC_TRUNCATED, E_DEC_OVERFLOW
    <3>6. Honest(r, a, b)
      BY <1>2, <3>2, <3>3, <3>5 DEF Honest
    <3> QED
      BY <2>1, <3>1, <3>6
  <2> QED
    BY <2>3, <2>4
<1>5. CASE s # t
  <2>1. decimal_add(a, b) = DoSub(a, b)
    BY <1>1, <1>5 DEF decimal_add
  <2>2. /\ Less(a, b) <=> m < n
        /\ Less(b, a) <=> n < m
        /\ SameMagnitude(a, b) <=> m = n
    BY <1>1, Compared
  <2>3. E_DEC_OVERFLOW # E_DEC_OK /\ E_DEC_OVERFLOW # E_DEC_TRUNCATED
    BY DEF E_DEC_OK, E_DEC_TRUNCATED, E_DEC_OVERFLOW
  <2>4. CASE m = n
    <3>1. PICK r : r = DoSub(a, b) /\ r = [to |-> Zero, error |-> E_DEC_OK]
      <4>1. SameMagnitude(a, b) /\ ~Less(a, b)
        BY <2>2, <2>4
      <4> QED
        BY <4>1, Zenon DEF DoSub
    <3>2. r.to = Zero /\ r.error = E_DEC_OK
      BY <3>1
    <3>3. v = 0
      BY <1>3, <1>5, <2>4, PlusSigned
    <3>4. E_DEC_OK # E_DEC_TRUNCATED
      BY DEF E_DEC_OK, E_DEC_TRUNCATED
    <3>5. Honest(r, a, b)
      BY <1>2, <2>3, <3>2, <3>3, <3>4, ZeroIs DEF Honest
    <3> QED
      BY <2>1, <3>1, <3>5
  <2>5. CASE m < n
    <3>1. DoSub(a, b) = Difference(b, a, ~a.sign)
      <4>1. ~SameMagnitude(a, b) /\ Less(a, b)
        BY <2>2, <2>5
      <4> QED
        BY <4>1, Zenon DEF DoSub
    <3>2. (~a.sign) = t
      BY <1>1, <1>5
    <3>3. PICK r : /\ r = Difference(b, a, t) /\ IsNear(r, t, n - m)
                   /\ r.error \in {E_DEC_OK, E_DEC_TRUNCATED}
      BY <1>1, <2>2, <2>5, DifferenceNear
    <3>4. v = WithSign(t, n - m) /\ n - m \in Nat
      BY <1>3, <1>5, <2>5, PlusSigned
    <3>5. Honest(r, a, b)
      BY <1>2, <2>3, <3>3, <3>4, NearIsHonest
    <3>6. Difference(b, a, ~a.sign) = Difference(b, a, t)
      BY <3>2, Zenon
    <3> QED
      BY <2>1, <3>1, <3>3, <3>5, <3>6, Zenon
  <2>6. CASE n < m
    <3>1. DoSub(a, b) = Difference(a, b, a.sign)
      <4>1. ~SameMagnitude(a, b) /\ ~Less(a, b)
        BY <2>2, <2>6
      <4> QED
        BY <4>1, Zenon DEF DoSub
    <3>2. PICK r : /\ r = Difference(a, b, s) /\ IsNear(r, s, m - n)
                   /\ r.error \in {E_DEC_OK, E_DEC_TRUNCATED}
      BY <1>1, <2>2, <2>6, DifferenceNear
    <3>3. v = WithSign(s, m - n) /\ m - n \in Nat
      BY <1>3, <1>5, <2>6, PlusSigned
    <3>4. Honest(r, a, b)
      BY <1>2, <2>3, <3>2, <3>3, NearIsHonest
    <3> QED
      BY <1>1, <2>1, <3>1, <3>2, <3>4
  <2> QED
    BY <2>4, <2>5, <2>6
<1> QED
  BY <1>4, <1>5

(* If the digits before the point do not fill their first word, the sum of *)
(* the first words has room in one.                                        *)
LEMMA TopDigit ==
    ASSUME NEW d \in Decimals, NEW n \in Nat, d.intg <= n, n % DIG_PER_DEC1 # 0,
           NEW i \in Int, i = ROUND_UP(n), NEW h, h = Power(Radix, DIG_PER_DEC1 - 1)
    PROVE  /\ h \in Nat /\ 2 * h <= DIG_BASE
           /\ Word(d, 1 - i) \in Nat /\ Word(d, 1 - i) < h
<1>1. PICK b \in Nat \ {0}, R \in Nat \ {0, 1} : b = DIG_PER_DEC1 /\ R = Radix
  BY WordAssumption
<1>2. PICK m \in Nat, k \in Nat : m = d.intg /\ k = ROUND_UP(m) /\ m <= n
  BY DecimalTypes
<1>3. /\ n % b \in Nat /\ n % b < b /\ n = (i - 1) * DIG_PER_DEC1 + (n % b) /\ i >= 1
  BY <1>1, LastWordDigits
<1>4. PICK c \in Nat : c = b - 1
  BY <1>1
<1>5. h \in Nat \ {0}
  BY <1>1, <1>4, PowerPositive
<1>6. 2 * h <= DIG_BASE
  <2>1. Power(R, c + 1) = h * R
    BY <1>1, <1>4, Powers
  <2>2. c + 1 = b
    BY <1>4
  <2>3. 2 * h <= R * h /\ R * h = h * R
    BY <1>5, MulMonotonic
  <2> QED
    BY <1>1, <2>1, <2>2, <2>3 DEF DIG_BASE
<1>7. k <= i
  BY <1>2, RoundUpMonotonic
<1>8. Word(d, 1 - i) \in Nat
  <2>1. 1 - i \in Int
    OBVIOUS
  <2> QED
    BY <2>1, WordTypes, Base
<1>9. CASE k < i
  <2>1. 1 - i \in Int /\ 1 - i \notin 1 - k .. ROUND_UP(d.frac)
    BY <1>9
  <2>2. Word(d, 1 - i) = 0
    BY <1>2, <2>1, WordTypes
  <2> QED
    BY <1>5, <1>6, <2>2
<1>10. CASE k = i
  <2>1. /\ m % b \in Nat /\ m % b < b
        /\ m % b = 0 => m = i * DIG_PER_DEC1
    BY <1>1, <1>2, <1>10, LastWordDigits
  <2>2. m % b # 0
    <3> SUFFICES ASSUME m % b = 0 PROVE FALSE
      OBVIOUS
    <3>1. m = i * b /\ n = (i - 1) * b + (n % b) /\ i * b = (i - 1) * b + b
      BY <1>1, <1>3, <2>1
    <3> QED
      BY <1>2, <1>3, <3>1
  <2>3. PICK e \in Nat : e = m % b /\ e <= c
    BY <1>4, <2>1
  <2>4. d.buf[1] < Power(Radix, e)
    BY <1>1, <1>2, <2>2, <2>3 DEF Decimals, WordsOK
  <2>5. Power(R, e) <= Power(R, c) /\ Power(R, e) \in Nat
    BY <2>3, PowerMonotonic, PowerPositive
  <2>6. Word(d, 1 - i) = d.buf[1]
    <3>1. PICK f \in Nat : f = ROUND_UP(d.frac)
      BY DecimalTypes
    <3>2. 1 - i \in Int /\ 1 - i \in 1 - k .. f /\ (1 - i) + k = 1
      BY <1>3, <1>10, <3>1
    <3> QED
      BY <1>2, <3>1, <3>2, WordTypes
  <2> QED
    BY <1>1, <1>4, <1>5, <1>6, <1>8, <2>4, <2>5, <2>6
<1> QED
  BY <1>7, <1>9, <1>10

(* The words do_add() asks for, and those the digits of the operands can   *)
(* need.                                                                   *)
SumWords(a, b) == IF TopWords(a, b) > DIG_MAX - 1 THEN IntgOf(a, b) + 1 ELSE IntgOf(a, b)

WordsNeeded(a, b) ==
    \E n \in Nat, f \in Nat, i \in Nat, g \in Nat, j \in Nat :
        /\ n = Max({a.intg, b.intg}) /\ f = Max({a.frac, b.frac})
        /\ i = ROUND_UP(n) /\ g = ROUND_UP(f) /\ j = SumWords(a, b)
        /\ i = IntgOf(a, b) /\ g = FracOf(a, b)
        /\ n % DIG_PER_DEC1 # 0 => j = i
        /\ n % DIG_PER_DEC1 = 0 => n = i * DIG_PER_DEC1
        /\ j \in {i, i + 1}

LEMMA NeededWords ==
    ASSUME NEW a \in Decimals, NEW b \in Decimals
    PROVE  WordsNeeded(a, b)
<1>1. PICK ia \in Nat, ib \in Nat, m \in Nat, n \in Nat :
        /\ ia = ROUND_UP(m) /\ ib = ROUND_UP(n)
        /\ m = a.intg /\ n = b.intg
  BY DecimalTypes
<1>2. PICK x \in Nat : x = Max({m, n}) /\ m <= x /\ n <= x
  <2>1. Max({m, n}) = IF m >= n THEN m ELSE n
    BY ONLY m \in Int, n \in Int, MaxOfTwo
  <2> QED
    BY <2>1
<1>3. ROUND_UP(x) = Max({ia, ib})
  BY <1>1, <1>2, RoundUpMax
<1>4. PICK i \in Nat : i = IntgOf(a, b) /\ i = ROUND_UP(x)
  <2>1. IntgOf(a, b) = Max({ia, ib})
    BY <1>1 DEF IntgOf
  <2> QED
    BY <1>3, <2>1, RoundUp
<1>5. PICK f \in Nat, g \in Nat : f = Max({a.frac, b.frac}) /\ g = ROUND_UP(f) /\ g = FracOf(a, b)
  BY Ends
<1>6. PICK j \in Nat : j = SumWords(a, b) /\ j \in {i, i + 1}
  <2>1. SumWords(a, b) \in {i, i + 1}
    BY <1>4 DEF SumWords
  <2> QED
    BY <2>1
<1>7. ASSUME x % DIG_PER_DEC1 # 0 PROVE j = i
  <2>0. PICK M \in Nat : M = DIG_MAX /\ M = DIG_BASE - 1
    BY Base
  <2>1. PICK h : h = Power(Radix, DIG_PER_DEC1 - 1)
    OBVIOUS
  <2>2. /\ h \in Nat /\ 2 * h <= DIG_BASE
        /\ Word(a, 1 - i) \in Nat /\ Word(a, 1 - i) < h
    BY <1>1, <1>2, <1>4, <1>7, <2>1, TopDigit
  <2>3. Word(b, 1 - i) \in Nat /\ Word(b, 1 - i) < h
    BY <1>1, <1>2, <1>4, <1>7, <2>1, TopDigit
  <2>4. TopWords(a, b) = Word(a, 1 - i) + Word(b, 1 - i)
    BY <1>4, Tops
  <2>5. DIG_BASE \in Nat
    BY Base
  <2>6. ~(TopWords(a, b) > DIG_MAX - 1)
    BY <2>0, <2>2, <2>3, <2>4, <2>5
  <2> QED
    BY <1>4, <1>6, <2>6 DEF SumWords
<1>8. x % DIG_PER_DEC1 = 0 => x = i * DIG_PER_DEC1
  BY <1>4, LastWordDigits
<1> QED
  BY <1>1, <1>2, <1>4, <1>5, <1>6, <1>7, <1>8 DEF WordsNeeded

(* A sum is exact if there is room for the words do_add() asks for.        *)
LEMMA Room ==
    ASSUME NEW a \in Decimals, NEW b \in Decimals, Fits(a), Fits(b),
           NEW j \in Nat, j = SumWords(a, b), NEW g \in Nat, g = FracOf(a, b),
           j + g <= DECIMAL_BUFF_LENGTH
    PROVE  decimal_add(a, b).error = E_DEC_OK
<1>1. PICK N \in Nat \ {0} : N = DECIMAL_BUFF_LENGTH
  BY WordAssumption
<1>2. PICK i \in Nat : i = IntgOf(a, b) /\ j \in {i, i + 1} /\ i <= j
  <2>1. PICK i \in Nat : i = IntgOf(a, b)
    BY Ends
  <2> QED
    BY <2>1 DEF SumWords
<1>3. i + g <= N
  BY <1>1, <1>2
<1>4. CASE a.sign = b.sign
  <2>1. FixCut(SumFix(a, b), j, g)
    <3>1. SumFix(a, b) = FixIntgFrac(j, g)
      BY DEF SumFix, SumWords
    <3> QED
      BY <3>1, FixCuts
  <2>2. SumFix(a, b).error = E_DEC_OK
    BY <2>1 DEF FixCut
  <2>3. E_DEC_OK # E_DEC_OVERFLOW
    BY DEF E_DEC_OK, E_DEC_OVERFLOW
  <2>4. DoAdd(a, b).error = E_DEC_OK
    BY <2>2, <2>3, SumNear
  <2> QED
    BY <1>4, <2>4 DEF decimal_add
<1>5. CASE a.sign # b.sign
  <2>1. decimal_add(a, b) = DoSub(a, b)
    BY <1>5 DEF decimal_add
  <2>2. PICK m \in Nat, n \in Nat :
          /\ Less(a, b) <=> m < n
          /\ Less(b, a) <=> n < m
          /\ SameMagnitude(a, b) <=> m = n
    <3>1. ROUND_UP(a.frac) <= N /\ ROUND_UP(b.frac) <= N
      BY <1>1, FracFits
    <3>2. PICK m \in Nat, n \in Nat : m = Scaled(a, N) /\ n = Scaled(b, N)
      BY <3>1, ScaledTypes
    <3> QED
      BY <3>1, <3>2, Compared
  <2>3. CASE SameMagnitude(a, b)
    <3>1. ~Less(a, b)
      BY <2>2, <2>3
    <3>2. DoSub(a, b) = [to |-> Zero, error |-> E_DEC_OK]
      BY <2>3, <3>1, Zenon DEF DoSub
    <3> QED
      BY <2>1, <3>2
  <2>4. CASE ~SameMagnitude(a, b) /\ Less(a, b)
    <3>1. PICK t \in BOOLEAN : t = (~a.sign)
      OBVIOUS
    <3>2. DoSub(a, b) = Difference(b, a, t)
      BY <2>4, <3>1, Zenon DEF DoSub
    <3>3. IntgOf(b, a) = i /\ FracOf(b, a) = g
      <4>1. {ROUND_UP(a.intg), ROUND_UP(b.intg)} = {ROUND_UP(b.intg), ROUND_UP(a.intg)}
        OBVIOUS
      <4>2. {ROUND_UP(a.frac), ROUND_UP(b.frac)} = {ROUND_UP(b.frac), ROUND_UP(a.frac)}
        OBVIOUS
      <4> QED
        BY <1>2, <4>1, <4>2 DEF IntgOf, FracOf
    <3>4. Difference(b, a, t).error = E_DEC_OK
      BY <1>1, <1>3, <2>4, <3>3, DifferenceNear
    <3> QED
      BY <2>1, <3>2, <3>4
  <2>5. CASE ~SameMagnitude(a, b) /\ ~Less(a, b)
    <3>1. Less(b, a)
      BY <2>2, <2>5
    <3>2. PICK t \in BOOLEAN : t = a.sign
      BY DecimalTypes
    <3>3. DoSub(a, b) = Difference(a, b, t)
      BY <2>5, <3>2, Zenon DEF DoSub
    <3>4. Difference(a, b, t).error = E_DEC_OK
      BY <1>1, <1>2, <1>3, <3>1, DifferenceNear
    <3> QED
      BY <2>1, <3>3, <3>4
  <2> QED
    BY <2>3, <2>4, <2>5
<1> QED
  BY <1>4, <1>5

(* The guaranteed precision leaves room, and so does the size that         *)
(* decimal_result_size() tells.                                            *)
LEMMA Guaranteed ==
    ASSUME NEW a \in Decimals, NEW b \in Decimals, Fits(a), Fits(b),
           Max({a.intg, b.intg}) + Max({a.frac, b.frac}) <= DECIMAL_MAX_PRECISION
    PROVE  decimal_add(a, b).error = E_DEC_OK
<1>1. PICK N \in Nat \ {0}, D \in Nat \ {0, 1} : N = DECIMAL_BUFF_LENGTH /\ D = DIG_PER_DEC1
  BY WordAssumption
<1>2. PICK n \in Nat, f \in Nat, i \in Nat, g \in Nat, j \in Nat :
        /\ n = Max({a.intg, b.intg}) /\ f = Max({a.frac, b.frac})
        /\ i = ROUND_UP(n) /\ g = ROUND_UP(f) /\ j = SumWords(a, b)
        /\ i = IntgOf(a, b) /\ g = FracOf(a, b)
        /\ n % DIG_PER_DEC1 # 0 => j = i
        /\ n % DIG_PER_DEC1 = 0 => n = i * DIG_PER_DEC1
        /\ j \in {i, i + 1}
  BY NeededWords DEF WordsNeeded
<1>3. PICK x \in Int, y \in Int, z \in Int :
        /\ x = i * D /\ y = g * D /\ z = N * D
        /\ x < n + D /\ y < f + D
        /\ n + f <= z - 2 * (D - 1)
  <2>1. i * D < n + D /\ g * D < f + D
    <3>1. /\ ROUND_UP(n) * DIG_PER_DEC1 < n + DIG_PER_DEC1
          /\ ROUND_UP(f) * DIG_PER_DEC1 < f + DIG_PER_DEC1
      BY RoundUp
    <3> QED
      BY <1>1, <1>2, <3>1
  <2>2. n + f <= N * D - 2 * (D - 1)
    BY <1>1, <1>2 DEF DECIMAL_MAX_PRECISION
  <2> QED
    BY <2>1, <2>2
<1>4. j + g <= N
  <2> SUFFICES ASSUME N + 1 <= j + g PROVE FALSE
    OBVIOUS
  <2>1. (N + 1) * D <= (j + g) * D
    BY MulMonotonic
  <2>2. (N + 1) * D = z + D /\ (j + g) * D = j * D + y
    BY <1>3
  <2>3. CASE j = i
    <3>1. j * D = x
      BY <1>3, <2>3
    <3> QED
      BY <1>3, <2>1, <2>2, <3>1
  <2>4. CASE j = i + 1 /\ n = i * D
    <3>1. j * D = x + D /\ n = x
      BY <1>3, <2>4
    <3> QED
      BY <1>3, <2>1, <2>2, <3>1
  <2> QED
    BY <1>1, <1>2, <2>3, <2>4
<1> QED
  BY <1>1, <1>2, <1>4, Room

LEMMA SizeOfSum ==
    ASSUME NEW a \in Decimals, NEW b \in Decimals, Fits(a), Fits(b),
           decimal_result_size(a, b, "+", 0) <= DECIMAL_BUFF_LENGTH
    PROVE  decimal_add(a, b).error = E_DEC_OK
<1>1. PICK N \in Nat \ {0}, D \in Nat \ {0, 1} : N = DECIMAL_BUFF_LENGTH /\ D = DIG_PER_DEC1
  BY WordAssumption
<1>2. PICK n \in Nat, f \in Nat, i \in Nat, g \in Nat, j \in Nat :
        /\ n = Max({a.intg, b.intg}) /\ f = Max({a.frac, b.frac})
        /\ i = ROUND_UP(n) /\ g = ROUND_UP(f) /\ j = SumWords(a, b)
        /\ i = IntgOf(a, b) /\ g = FracOf(a, b)
        /\ n % DIG_PER_DEC1 # 0 => j = i
        /\ n % DIG_PER_DEC1 = 0 => n = i * DIG_PER_DEC1
        /\ j \in {i, i + 1}
  BY NeededWords DEF WordsNeeded
<1>3. decimal_result_size(a, b, "+", 0) = ROUND_UP(n + 1) + g
  <2>1. decimal_result_size(a, b, "+", 0)
          = ROUND_UP(Max({a.intg, b.intg}) + 1) + ROUND_UP(Max({a.frac, b.frac}))
    BY Zenon DEF decimal_result_size
  <2> QED
    BY <1>2, <2>1
<1>4. PICK k \in Nat : k = ROUND_UP(n + 1) /\ i <= k /\ n + 1 <= k * D
  <2>1. n + 1 \in Int /\ n \in Int /\ n <= n + 1 /\ n + 1 >= 0
    OBVIOUS
  <2>2. /\ ROUND_UP(n + 1) \in Nat /\ ROUND_UP(n) <= ROUND_UP(n + 1)
        /\ n + 1 <= ROUND_UP(n + 1) * DIG_PER_DEC1
    BY <2>1, RoundUp, RoundUpMonotonic
  <2> QED
    BY <1>1, <1>2, <2>2
<1>5. j <= k
  <2>1. CASE j = i
    BY <1>4, <2>1
  <2>2. CASE j = i + 1 /\ n = i * D
    <3> SUFFICES ASSUME k <= i PROVE FALSE
      BY <2>2
    <3>1. k * D <= i * D /\ k * D \in Int /\ i * D \in Int
      BY MulMonotonic
    <3> QED
      BY <1>4, <2>2, <3>1
  <2> QED
    BY <1>1, <1>2, <2>1, <2>2
<1>6. j + g <= N
  BY <1>1, <1>3, <1>4, <1>5
<1> QED
  BY <1>1, <1>2, <1>6, Room

(* decimal_neg() changes the sign of any number, zeros included.           *)
LEMMA NegIs ==
    ASSUME NEW d \in Decimals, Fits(d)
    PROVE  /\ decimal_neg(d) \in Decimals /\ Fits(decimal_neg(d))
           /\ Number(decimal_neg(d)) = Neg(Number(d), "decimal")
<1>1. PICK N \in Nat, m \in Nat, s \in BOOLEAN :
        /\ N = DECIMAL_BUFF_LENGTH /\ s = d.sign /\ m = Scaled(d, N) /\ Number(d) = WithSign(s, m)
        /\ ROUND_UP(d.frac) <= N
  BY FracFits, SignedNumber, DecimalTypes
<1>2. d \in [sign : BOOLEAN, intg : Nat, frac : Nat, buf : Seq(0 .. DIG_MAX)] /\ WordsOK(d)
  BY DEF Decimals
<1>3. PICK e : e = decimal_neg(d)
  OBVIOUS
<1>4. /\ e \in [sign : BOOLEAN, intg : Nat, frac : Nat, buf : Seq(0 .. DIG_MAX)]
      /\ e.intg = d.intg /\ e.frac = d.frac /\ e.buf = d.buf
      /\ e.sign = ~d.sign
  BY <1>2, <1>3 DEF decimal_neg
<1>5. e \in Decimals
  <2>1. WordsOK(e)
    BY <1>2, <1>4 DEF WordsOK
  <2> QED
    BY <1>4, <2>1 DEF Decimals
<1>6. Fits(e) /\ Scaled(e, N) = m
  BY <1>1, <1>4 DEF Fits, Scaled, Mantissa
<1>7. PICK t \in BOOLEAN : t = e.sign /\ t = (~s)
  BY <1>1, <1>4
<1>8. Number(e) = WithSign(t, m)
  BY <1>1, <1>4, <1>5, <1>6, <1>7, SignedNumber
<1>9. PICK x : x = Number(d)
  OBVIOUS
<1>10. x # Junk
  BY <1>1, <1>9, SignedNum
<1>11. Neg(x, "decimal") = IF x = 0 THEN NegZero ELSE -Num(x)
  BY <1>10 DEF Neg, Fit
<1>12. CASE s = FALSE /\ m = 0
  <2>1. t = TRUE /\ x = 0
    BY <1>1, <1>7, <1>9, <1>12, SignedNum
  <2> QED
    BY <1>3, <1>5, <1>6, <1>8, <1>9, <1>11, <1>12, <2>1, SignedNum
<1>13. CASE s = FALSE /\ m # 0
  <2>1. t = TRUE /\ x = m /\ Num(x) = m
    BY <1>1, <1>7, <1>9, <1>13, SignedNum
  <2> QED
    BY <1>3, <1>5, <1>6, <1>8, <1>9, <1>11, <1>13, <2>1, SignedNum
<1>14. CASE s = TRUE
  <2>1. t = FALSE /\ Num(x) = -m
    BY <1>1, <1>7, <1>9, <1>14, SignedNum
  <2>2. x # 0
    <3>1. x = IF m = 0 THEN NegZero ELSE -m
      BY <1>1, <1>9, <1>14, SignedNum
    <3>2. NegZero # 0
      BY NegZeroAssumption
    <3> QED
      BY <3>1, <3>2
  <2>3. -Num(x) = m
    BY <2>1
  <2> QED
    BY <1>3, <1>5, <1>6, <1>8, <1>9, <1>11, <2>1, <2>2, <2>3, SignedNum
<1> QED
  BY <1>12, <1>13, <1>14

LEMMA PlusCommutes ==
    ASSUME NEW v, NEW w, Num(v) \in Int, Num(w) \in Int
    PROVE  Plus(v, w, "decimal") = Plus(w, v, "decimal")
<1>1. Num(v) + Num(w) = Num(w) + Num(v)
  OBVIOUS
<1> QED
  BY <1>1 DEF Plus, Fit

(* A sum of what a program made and a literal is exact, or reports an      *)
(* error that is as large as it says, and none where the precision is      *)
(* guaranteed.                                                             *)
THEOREM SumIsRight == TypeOK => SumIsHonest
<1> SUFFICES ASSUME TypeOK PROVE SumIsHonest
  OBVIOUS
<1>1. PICK a \in Decimals : a = acc /\ Fits(a)
  BY AccTypes
<1>2. ASSUME NEW x \in Literals, NEW s \in SumsWith(x)
      PROVE  /\ s.r.error = E_DEC_OK => Number(s.r.to) = s.want
             /\ s.r.error = E_DEC_TRUNCATED =>
                  LET off == Num(s.want) - Num(Number(s.r.to))
                      one == Power(DIG_BASE, DECIMAL_BUFF_LENGTH - ROUND_UP(s.r.to.frac))
                  IN  -2 * one < off /\ off < 2 * one
             /\ s.r.error = E_DEC_OVERFLOW =>
                  LET big == DIG_MAX * Power(DIG_BASE, 2 * DECIMAL_BUFF_LENGTH - 1)
                  IN  Num(s.want) >= big \/ Num(s.want) <= -big
             /\ Max({acc.intg, x.intg}) + Max({acc.frac, x.frac}) <= DECIMAL_MAX_PRECISION
                  => s.r.error = E_DEC_OK
  <2>1. x \in Decimals /\ Fits(x)
    BY LiteralTypes
  <2>2. PICK want : want = Plus(Number(a), Number(x), "decimal")
    OBVIOUS
  <2>3. want = Plus(Number(x), Number(a), "decimal")
    <3>1. Num(Number(a)) \in Int /\ Num(Number(x)) \in Int
      <4>1. ASSUME NEW d \in Decimals, Fits(d) PROVE Num(Number(d)) \in Int
        <5>1. PICK m \in Nat, t \in BOOLEAN : t = d.sign /\ Number(d) = WithSign(t, m)
          BY <4>1, FracFits, SignedNumber, DecimalTypes
        <5>2. Num(WithSign(t, m)) = -m \/ Num(WithSign(t, m)) = m
          BY SignedNum
        <5> QED
          BY <5>1, <5>2
      <4> QED
        BY <1>1, <2>1, <4>1
    <3> QED
      BY <2>2, <3>1, PlusCommutes
  <2>4. PICK r : \/ r = decimal_add(a, x) /\ s = [r |-> r, want |-> want]
                 \/ r = decimal_add(x, a) /\ s = [r |-> r, want |-> want]
    BY <1>1, <2>2 DEF SumsWith
  <2>5. s.r = r /\ s.want = want
    BY <2>4
  <2>6. CASE r = decimal_add(a, x)
    <3>1. Honest(r, a, x)
      BY <1>1, <2>1, <2>6, AddIsHonest
    <3>2. Max({a.intg, x.intg}) + Max({a.frac, x.frac}) <= DECIMAL_MAX_PRECISION
            => r.error = E_DEC_OK
      BY <1>1, <2>1, <2>6, Guaranteed
    <3> QED
      BY <1>1, <2>2, <2>5, <3>1, <3>2 DEF Honest
  <2>7. CASE r = decimal_add(x, a)
    <3>1. Honest(r, x, a)
      BY <1>1, <2>1, <2>7, AddIsHonest
    <3>2. Max({x.intg, a.intg}) + Max({x.frac, a.frac}) <= DECIMAL_MAX_PRECISION
            => r.error = E_DEC_OK
      BY <1>1, <2>1, <2>7, Guaranteed
    <3>3. {x.intg, a.intg} = {a.intg, x.intg} /\ {x.frac, a.frac} = {a.frac, x.frac}
      OBVIOUS
    <3> QED
      BY <1>1, <2>3, <2>5, <3>1, <3>2, <3>3 DEF Honest
  <2> QED
    BY <2>4, <2>6, <2>7
<1>3. OkIsExact
  BY <1>1, <1>2, NegIs DEF OkIsExact
<1>4. ErrorsAreHonest
  BY <1>2 DEF ErrorsAreHonest
<1>5. GuaranteedPrecision
  BY <1>2 DEF GuaranteedPrecision
<1> QED
  BY <1>3, <1>4, <1>5 DEF SumIsHonest

-----------------------------------------------------------------------------
(* decimal2longlong(): x is minus the magnitude, unless it has wrapped.     *)

LEMMA Wraps ==
    ASSUME NEW n \in Int
    PROVE  /\ Wrap(n) \in Int
           /\ -LonglongHalf <= n /\ n < LonglongHalf => Wrap(n) = n
           /\ -(2 * LonglongHalf) < n /\ n < -LonglongHalf => Wrap(n) = n + 2 * LonglongHalf
<1>1. PICK L \in Nat \ {0} : L = LonglongHalf
  BY WidthAssumption
<1>2. PICK M \in Nat \ {0} : M = 2 * L
  OBVIOUS
<1>3. n + L \in Int /\ Wrap(n) = ((n + L) % M) - L
  BY <1>1, <1>2 DEF Wrap
<1>4. Wrap(n) \in Int
  <2>1. (n + L) % M \in 0 .. M - 1
    BY <1>3, Division
  <2> QED
    BY <1>3, <2>1
<1>5. ASSUME -L <= n, n < L PROVE Wrap(n) = n
  <2>1. n + L = M * 0 + (n + L) /\ n + L \in 0 .. M - 1 /\ 0 \in Int
    BY <1>2, <1>5
  <2>2. (n + L) % M = n + L
    BY <1>3, <2>1, DivisionIs
  <2> QED
    BY <1>3, <2>2
<1>6. ASSUME -M < n, n < -L PROVE Wrap(n) = n + M
  <2>1. n + L = M * (-1) + (n + L + M) /\ n + L + M \in 0 .. M - 1 /\ -1 \in Int
    BY <1>2, <1>6
  <2>2. (n + L) % M = n + L + M
    BY <1>3, <2>1, DivisionIs
  <2> QED
    BY <1>3, <2>2
<1> QED
  BY <1>1, <1>2, <1>4, <1>5, <1>6

AreMinusWords(x, w, n) ==
    x = [k \in 0 .. n |-> IF k = 0 THEN 0 ELSE Wrap(x[k - 1] * DIG_BASE - w[k])]

LEMMA MinusWordsExist ==
    ASSUME NEW n \in Nat, NEW w, \A k \in 1 .. n : w[k] \in Int
    PROVE  \E x : AreMinusWords(x, w, n)
<1>1. PICK B \in Int : B = DIG_BASE
  BY Base
<1>2. PICK u : u = [k \in Nat |-> IF k + 1 <= n THEN w[k + 1] ELSE 0]
  OBVIOUS
<1>3. \A k \in Nat : u[k] \in Int /\ (k + 1 <= n => u[k] = w[k + 1])
  BY <1>2
<1>4. PICK G : G = [k \in Nat |-> [y \in Int |-> Wrap(y * B - u[k])]]
  OBVIOUS
<1>5. G \in [Nat -> [Int -> Int]]
  <2>1. ASSUME NEW k \in Nat PROVE [y \in Int |-> Wrap(y * B - u[k])] \in [Int -> Int]
    <3>1. ASSUME NEW y \in Int PROVE Wrap(y * B - u[k]) \in Int
      <4>1. y * B - u[k] \in Int
        BY <1>3
      <4> QED
        BY <4>1, Wraps
    <3> QED
      BY <3>1
  <2> QED
    BY <1>4, <2>1
<1>6. PICK r : Follows(r, 0, G, Int)
  <2>1. 0 \in Int
    OBVIOUS
  <2> QED
    BY <1>5, <2>1, Recursion, Zenon
<1>7. /\ \A k \in Nat : r[k] \in Int
      /\ r[0] = 0
      /\ \A k \in Nat : r[k + 1] = Wrap(r[k] * B - u[k])
  BY <1>4, <1>6 DEF Follows
<1>8. PICK x : x = [k \in 0 .. n |-> r[k]]
  OBVIOUS
<1>9. ASSUME NEW k \in 0 .. n, k # 0
      PROVE  x[k] = Wrap(x[k - 1] * B - w[k])
  <2>1. k - 1 \in Nat /\ (k - 1) + 1 = k /\ k - 1 \in 0 .. n
    BY <1>9
  <2>2. u[k - 1] = w[k]
    BY <1>3, <2>1
  <2>3. r[k] = Wrap(r[k - 1] * B - u[k - 1])
    BY <1>7, <2>1
  <2> QED
    BY <1>8, <2>1, <2>2, <2>3
<1>10. x[0] = 0
  BY <1>7, <1>8
<1>11. x = [k \in 0 .. n |-> IF k = 0 THEN 0 ELSE Wrap(x[k - 1] * B - w[k])]
  <2>1. x = [k \in 0 .. n |-> x[k]]
    BY <1>8
  <2>2. ASSUME NEW k \in 0 .. n
        PROVE  x[k] = IF k = 0 THEN 0 ELSE Wrap(x[k - 1] * B - w[k])
    BY <1>9, <1>10
  <2>3. [k \in 0 .. n |-> x[k]]
          = [k \in 0 .. n |-> IF k = 0 THEN 0 ELSE Wrap(x[k - 1] * B - w[k])]
    BY <2>2, Zenon
  <2> QED
    BY <2>1, <2>3, Zenon
<1> QED
  BY <1>1, <1>11 DEF AreMinusWords

(* The prefixes are right as long as they are in the range of a longlong,  *)
(* and the first that is not is found out.                                 *)
WordsMade(x, w, n) ==
    /\ Positional(w, n) > LonglongHalf => Wrapped(x, n)
    /\ Positional(w, n) <= LonglongHalf => ~Wrapped(x, n) /\ x[n] = -Positional(w, n)

LEMMA MinusWordsMade ==
    ASSUME NEW n \in Nat, NEW w, AreWords(w, n), NEW x, AreMinusWords(x, w, n)
    PROVE  WordsMade(x, w, n)
<1>1. PICK B \in Nat \ {0}, L \in Nat \ {0}, q \in Int :
        /\ B = DIG_BASE /\ L = LonglongHalf /\ B <= L
        /\ q = L \div B /\ q * B <= L /\ L < q * B + B
  <2>1. PICK B \in Nat \ {0}, L \in Nat \ {0} : B = DIG_BASE /\ L = LonglongHalf /\ B <= L
    BY Base, WidthAssumption, DigitAssumption
  <2>2. PICK q \in Int, e \in 0 .. B - 1 : q = L \div B /\ L = B * q + e
    <3>1. L \div B \in Int /\ L % B \in 0 .. B - 1 /\ L = B * (L \div B) + (L % B)
      BY Division
    <3> QED
      BY <3>1
  <2>3. PICK z \in Int : z = q * B /\ z = B * q
    OBVIOUS
  <2>4. q * B <= L /\ L < q * B + B
    BY <2>2, <2>3
  <2> QED
    BY <2>1, <2>2, <2>4
<1>2. \A k \in 1 .. n : w[k] \in 0 .. B - 1 /\ w[k] \in Int
  BY <1>1, Base DEF AreWords
<1>3. /\ \A k \in 0 .. n : Positional(w, k) \in Nat
      /\ Positional(w, 0) = 0
      /\ \A k \in 0 .. n - 1 : Positional(w, k + 1) = Positional(w, k) * B + w[k + 1]
  <2>1. \A k \in 1 .. n : w[k] \in Int
    BY <1>2
  <2>2. /\ Positional(w, 0) = 0
        /\ \A k \in 0 .. n - 1 : Positional(w, k + 1) = Positional(w, k) * B + w[k + 1]
    BY <1>1, <2>1, Positionals
  <2>3. \A k \in 0 .. n : Positional(w, k) \in Nat
    BY PositionalRange
  <2> QED
    BY <2>2, <2>3
<1>4. /\ x[0] = 0
      /\ \A k \in 0 .. n - 1 : x[k + 1] = Wrap(x[k] * B - w[k + 1])
  <2>1. x = [k \in 0 .. n |-> IF k = 0 THEN 0 ELSE Wrap(x[k - 1] * B - w[k])]
    BY <1>1 DEF AreMinusWords
  <2>2. x[0] = 0
    BY <2>1
  <2>3. ASSUME NEW k \in 0 .. n - 1 PROVE x[k + 1] = Wrap(x[k] * B - w[k + 1])
    <3>1. k + 1 \in 0 .. n /\ k + 1 # 0 /\ (k + 1) - 1 = k
      OBVIOUS
    <3> QED
      BY <2>1, <3>1
  <2> QED
    BY <2>2, <2>3
<1>5. \A k \in Nat : k + 1 <= n =>
        /\ Positional(w, k) \in Nat /\ Positional(w, k + 1) \in Nat
        /\ Positional(w, k + 1) >= Positional(w, k)
        /\ w[k + 1] \in 0 .. B - 1
        /\ Positional(w, k + 1) = Positional(w, k) * B + w[k + 1]
  <2> SUFFICES ASSUME NEW k \in Nat, k + 1 <= n
               PROVE  /\ Positional(w, k) \in Nat /\ Positional(w, k + 1) \in Nat
                      /\ Positional(w, k + 1) >= Positional(w, k)
                      /\ w[k + 1] \in 0 .. B - 1
                      /\ Positional(w, k + 1) = Positional(w, k) * B + w[k + 1]
    OBVIOUS
  <2>1. k \in 0 .. n - 1 /\ k \in 0 .. n /\ k + 1 \in 0 .. n /\ k + 1 \in 1 .. n
    OBVIOUS
  <2>2. PICK p \in Nat, u \in Nat : p = Positional(w, k) /\ u = w[k + 1]
    BY <1>2, <1>3, <2>1
  <2>3. p * B >= p
    OBVIOUS
  <2>4. p * B + u >= p
    BY <2>3
  <2> QED
    BY <1>2, <1>3, <2>1, <2>2, <2>4
<1> DEFINE K == {k \in Nat : k <= n /\ Positional(w, k) <= L => x[k] = -Positional(w, k)}
<1>6. 0 \in K
  BY <1>3, <1>4
<1>7. ASSUME NEW k \in Nat, k \in K
      PROVE  k + 1 \in K
  <2> SUFFICES ASSUME k + 1 <= n, Positional(w, k + 1) <= L
               PROVE  x[k + 1] = -Positional(w, k + 1)
    OBVIOUS
  <2>1. PICK p \in Nat, r \in Nat, u \in Nat :
          p = Positional(w, k) /\ r = Positional(w, k + 1) /\ u = w[k + 1]
          /\ p <= r /\ r = p * B + u /\ r <= L
    BY <1>5
  <2>2. x[k] = -p
    BY <1>7, <2>1
  <2>3. x[k + 1] = Wrap((-p) * B - u)
    BY <1>4, <2>1, <2>2
  <2>4. (-p) * B - u = -r /\ -r \in Int /\ -L <= -r /\ -r < L
    BY <2>1
  <2> QED
    BY <1>1, <2>1, <2>3, <2>4, Wraps
<1> HIDE DEF K
<1>8. \A k \in Nat : k <= n /\ Positional(w, k) <= L => x[k] = -Positional(w, k)
  <2>1. \A k \in Nat : k \in K
    BY <1>6, <1>7, SetInduction
  <2> QED
    BY <2>1 DEF K
<1>9. Positional(w, n) \in Nat
  BY <1>3
<1> DEFINE J == {k \in Nat : k <= n /\ Positional(w, n) <= L => Positional(w, n - k) <= L}
<1>10. ASSUME Positional(w, n) <= L
       PROVE  \A k \in Nat : k <= n => Positional(w, k) <= L
  <2>1. 0 \in J
    OBVIOUS
  <2>2. ASSUME NEW k \in Nat, k \in J PROVE k + 1 \in J
    <3> SUFFICES ASSUME k + 1 <= n PROVE Positional(w, n - (k + 1)) <= L
      OBVIOUS
    <3>1. PICK l \in Nat : l = n - (k + 1) /\ l + 1 = n - k
      OBVIOUS
    <3>2. Positional(w, l + 1) <= L
      BY <1>10, <2>2, <3>1
    <3>3. Positional(w, l) \in Nat /\ Positional(w, l + 1) \in Nat /\ Positional(w, l + 1) >= Positional(w, l)
      BY <1>5, <3>1
    <3> QED
      BY <3>1, <3>2, <3>3
  <2> HIDE DEF J
  <2>3. \A k \in Nat : k \in J
    BY <2>1, <2>2, SetInduction
  <2> SUFFICES ASSUME NEW k \in Nat, k <= n PROVE Positional(w, k) <= L
    OBVIOUS
  <2>4. n - k \in Nat /\ n - (n - k) = k /\ n - k <= n
    OBVIOUS
  <2>5. n - k \in J
    BY <2>3, <2>4
  <2> QED
    BY <1>10, <2>4, <2>5 DEF J
<1>11. Wrapped(x, n) <=> \E k \in 1 .. n : x[k - 1] < -q \/ x[k] > x[k - 1]
  BY <1>1 DEF Wrapped
<1>12. ASSUME Positional(w, n) <= L
       PROVE  ~Wrapped(x, n) /\ x[n] = -Positional(w, n)
  <2>1. x[n] = -Positional(w, n)
    BY <1>8, <1>12
  <2>2. ASSUME NEW k \in 1 .. n PROVE ~(x[k - 1] < -q) /\ ~(x[k] > x[k - 1])
    <3>1. PICK l \in Nat : l = k - 1 /\ l + 1 = k /\ l + 1 <= n
      OBVIOUS
    <3>2. PICK p \in Nat, r \in Nat, u \in Nat :
            p = Positional(w, l) /\ r = Positional(w, l + 1) /\ u = w[l + 1]
            /\ p <= r /\ r = p * B + u /\ r <= L
      BY <1>5, <1>10, <1>12, <3>1
    <3>3. x[l] = -p /\ x[l + 1] = -r
      <4>1. l + 1 \in Nat /\ l <= n /\ p <= L
        BY <3>1, <3>2
      <4>2. x[l] = -Positional(w, l) /\ x[l + 1] = -Positional(w, l + 1)
        BY <1>8, <3>1, <3>2, <4>1
      <4> QED
        BY <3>2, <4>2
    <3>4. p <= q
      <4> SUFFICES ASSUME q + 1 <= p PROVE FALSE
        OBVIOUS
      <4>1. (q + 1) * B <= p * B /\ (q + 1) * B = q * B + B /\ p * B \in Int /\ q * B \in Int
        BY MulMonotonic
      <4> QED
        BY <1>1, <3>2, <4>1
    <3> QED
      BY <3>1, <3>2, <3>3, <3>4
  <2> QED
    BY <1>11, <2>1, <2>2
<1>13. ASSUME Positional(w, n) > L
       PROVE  Wrapped(x, n)
  <2> DEFINE I == {k \in Nat : k <= n => Positional(w, k) <= L}
  <2>1. n \notin I
    BY <1>9, <1>13
  <2>2. PICK k \in Nat : k \in I /\ k + 1 \notin I
    <3>1. 0 \in I
      BY <1>3
    <3> HIDE DEF I
    <3>2. ASSUME \A k \in Nat : k \in I => k + 1 \in I PROVE FALSE
      <4>1. \A k \in Nat : k \in I
        BY <3>1, <3>2, SetInduction
      <4> QED
        BY <2>1, <4>1
    <3> QED
      BY <3>2
  <2>3. k + 1 <= n /\ Positional(w, k) <= L /\ ~(Positional(w, k + 1) <= L)
    BY <2>2
  <2>4. PICK p \in Nat, r \in Nat, u \in Nat :
          p = Positional(w, k) /\ r = Positional(w, k + 1) /\ u = w[k + 1]
          /\ u <= B - 1 /\ r = p * B + u /\ p <= L /\ r > L
    BY <1>5, <2>3
  <2>5. x[k] = -p
    BY <1>8, <2>3, <2>4
  <2>6. k + 1 \in 1 .. n /\ (k + 1) - 1 = k
    BY <2>3
  <2>7. CASE p > q
    <3>1. x[k] < -q
      BY <2>5, <2>7
    <3> QED
      BY <1>11, <2>6, <3>1
  <2>8. CASE p <= q
    <3>1. p * B <= q * B /\ p * B \in Int /\ q * B \in Int
      BY <2>8, MulMonotonic
    <3>2. r <= 2 * L - 1
      BY <1>1, <2>4, <3>1
    <3>3. x[k + 1] = Wrap((-p) * B - u)
      <4>1. k \in 0 .. n - 1
        BY <2>3
      <4> QED
        BY <1>4, <2>4, <2>5, <4>1
    <3>4. (-p) * B - u = -r /\ -r \in Int
      BY <2>4
    <3>5. x[k + 1] = -r + 2 * L
      <4>1. -(2 * L) < -r /\ -r < -L
        BY <2>4, <3>2
      <4> QED
        BY <1>1, <3>3, <3>4, <4>1, Wraps
    <3>6. x[k + 1] > x[k]
      BY <2>4, <2>5, <3>2, <3>5
    <3> QED
      BY <1>11, <2>6, <3>6
  <2> QED
    BY <1>1, <2>7, <2>8
<1> QED
  BY <1>1, <1>12, <1>13 DEF WordsMade

(* The number of the words before the point, and what is left.             *)
IsWhole(d, p, m, s) ==
    /\ p = Positional(d.buf, ROUND_UP(d.intg))
    /\ m = Scaled(d, DECIMAL_BUFF_LENGTH)
    /\ m = p * One + s /\ s < One
    /\ s = 0 <=> \A k \in ROUND_UP(d.intg) + 1 .. Len(d.buf) : d.buf[k] = 0

LEMMA Whole ==
    ASSUME NEW d \in Decimals, Fits(d)
    PROVE  \E p \in Nat, m \in Nat, s \in Nat : IsWhole(d, p, m, s)
<1>1. PICK N \in Nat, i \in Nat, f \in Nat :
        /\ N = DECIMAL_BUFF_LENGTH /\ i = ROUND_UP(d.intg) /\ f = ROUND_UP(d.frac) /\ f <= N
        /\ Len(d.buf) = i + f
  BY FracFits, DecimalTypes
<1>2. PICK w : w = d.buf /\ AreWords(w, i + f)
  BY <1>1, DecimalTypes
<1>3. PICK v : v = [k \in 1 .. f |-> w[i + k]]
  OBVIOUS
<1>4. \A k \in 1 .. i + f : w[k] \in 0 .. DIG_MAX /\ w[k] \in Nat /\ w[k] \in Int
  BY <1>2, Base DEF AreWords
<1>5. AreWords(w, i) /\ AreWords(v, f)
  <2>1. ASSUME NEW k \in 1 .. i PROVE w[k] \in 0 .. DIG_MAX
    <3>1. k \in 1 .. i + f
      OBVIOUS
    <3> QED
      BY <1>4, <3>1
  <2>2. ASSUME NEW k \in 1 .. f PROVE v[k] \in 0 .. DIG_MAX
    <3>1. i + k \in 1 .. i + f
      OBVIOUS
    <3> QED
      BY <1>3, <1>4, <3>1
  <2> QED
    BY <2>1, <2>2 DEF AreWords
<1>6. PICK p \in Nat, r \in Nat : p = Positional(w, i) /\ r = Positional(v, f)
  <2>1. i \in 0 .. i /\ f \in 0 .. f
    OBVIOUS
  <2>2. AreWords(w, i) /\ AreWords(v, f)
    BY <1>5
  <2>3. Positional(w, i) \in Nat
    BY <2>1, <2>2, PositionalRange
  <2>4. Positional(v, f) \in Nat
    BY <2>1, <2>2, PositionalRange
  <2> QED
    BY <2>3, <2>4
<1>7. PICK g \in Nat \ {0}, h \in Nat \ {0}, o \in Nat \ {0} :
        /\ g = Power(DIG_BASE, f) /\ h = Power(DIG_BASE, N - f) /\ o = One
        /\ o = g * h
  <2>1. PICK e \in Nat : e = N - f /\ f + e = N
    BY <1>1
  <2>2. PICK g \in Nat \ {0}, h \in Nat \ {0} : g = Power(DIG_BASE, f) /\ h = Power(DIG_BASE, e)
    BY Base, PowerPositive
  <2>3. Power(DIG_BASE, f + e) = g * h
    BY <2>2, Base, PowerSum
  <2>4. One = g * h
    BY <1>1, <2>1, <2>3, DigitAssumption
  <2>5. One \in Nat \ {0}
    BY WidthAssumption
  <2> QED
    BY <2>1, <2>2, <2>4, <2>5
<1>8. Positional(w, i + f) = p * g + r
  <2>1. \A k \in 1 .. i + f : w[k] \in Int
    BY <1>4
  <2>2. \A k \in 1 .. f : v[k] = w[i + k]
    BY <1>3
  <2> QED
    BY <1>6, <1>7, <2>1, <2>2, PositionalSplit
<1>9. r < g
  BY <1>5, <1>6, <1>7, PositionalRange
<1>10. Scaled(d, N) = (p * g + r) * h
  BY <1>1, <1>2, <1>7, <1>8 DEF Scaled, Mantissa
<1>11. PICK s \in Nat : s = r * h
  OBVIOUS
<1>12. PICK m \in Nat : m = Scaled(d, N) /\ m = p * o + s
  <2>1. (p * g + r) * h = p * (g * h) + r * h
    OBVIOUS
  <2>2. p * o + s \in Nat
    OBVIOUS
  <2> QED
    BY <1>7, <1>10, <1>11, <2>1, <2>2
<1>13. s < o
  <2>1. r * h < g * h
    BY <1>9, MulOrder
  <2> QED
    BY <1>7, <1>11, <2>1
<1>14. s = 0 <=> \A k \in i + 1 .. i + f : w[k] = 0
  <2>1. s = 0 <=> r = 0
    BY <1>11
  <2>2. ASSUME \A k \in i + 1 .. i + f : w[k] = 0 PROVE r = 0
    <3>1. \A k \in 1 .. f : v[k] = 0
      <4> SUFFICES ASSUME NEW k \in 1 .. f PROVE v[k] = 0
        OBVIOUS
      <4>1. i + k \in i + 1 .. i + f
        OBVIOUS
      <4> QED
        BY <1>3, <2>2, <4>1
    <3> QED
      BY <1>6, <3>1, PositionalZeros
  <2>3. ASSUME r = 0, NEW k \in i + 1 .. i + f PROVE w[k] = 0
    <3> SUFFICES ASSUME w[k] # 0 PROVE FALSE
      OBVIOUS
    <3>1. PICK z : z = [l \in 1 .. f |-> 0]
      OBVIOUS
    <3>2. PICK l \in 1 .. f : l = k - i /\ i + l = k
      <4>1. k - i \in 1 .. f /\ i + (k - i) = k
        OBVIOUS
      <4> QED
        BY <4>1
    <3>3. \A j \in 1 .. f : v[j] \in Nat /\ z[j] = 0
      <4> SUFFICES ASSUME NEW j \in 1 .. f PROVE v[j] \in Nat /\ z[j] = 0
        OBVIOUS
      <4>1. i + j \in 1 .. i + f
        OBVIOUS
      <4> QED
        BY <1>3, <1>4, <3>1, <4>1
    <3>4. AreWords(z, f) /\ Positional(z, f) = 0
      <4>1. \A j \in 1 .. f : z[j] \in 0 .. DIG_MAX
        BY <3>3, Base
      <4>2. \A j \in 1 .. f : z[j] = 0
        BY <3>3
      <4> QED
        BY <4>1, <4>2, PositionalZeros DEF AreWords
    <3>5. v[l] # z[l]
      BY <1>3, <3>2, <3>3
    <3>6. PICK j \in 1 .. f : v[j] # z[j] /\ \A n \in 1 .. j - 1 : z[n] = v[n]
      <4>1. \A n \in 1 .. f : z[n] \in Int /\ v[n] \in Int
        BY <3>3
      <4>2. \E j \in 1 .. f : z[j] # v[j] /\ \A n \in 1 .. j - 1 : z[n] = v[n]
        BY <3>2, <3>5, FirstDifference
      <4> QED
        BY <4>2
    <3>7. z[j] < v[j]
      BY <3>3, <3>6
    <3>8. Positional(z, f) < Positional(v, f)
      BY <1>5, <3>4, <3>6, <3>7, PositionalOrder
    <3> QED
      BY <1>6, <2>3, <3>4, <3>8
  <2> QED
    BY <2>1, <2>2, <2>3
<1>15. IsWhole(d, p, m, s)
  BY <1>1, <1>2, <1>6, <1>7, <1>12, <1>13, <1>14 DEF IsWhole
<1> QED
  BY <1>15

LEMMA TruncIs ==
    ASSUME NEW p \in Nat, NEW s \in Nat, s < One, NEW m \in Nat, m = p * One + s
    PROVE  /\ Trunc(m) \div One = p /\ Trunc(-m) \div One = -p
           /\ m % One = 0 <=> s = 0
           /\ (-m) % One = 0 <=> s = 0
<1>1. PICK o \in Nat \ {0} : o = One
  BY WidthAssumption
<1>2. PICK z \in Nat : z = p * o /\ z = o * p
  OBVIOUS
<1>a. m = z + s
  BY <1>1, <1>2
<1>3. m % o = s /\ m \div o = p
  <2>1. m = o * p + s /\ s \in 0 .. o - 1 /\ m \in Int /\ p \in Int
    BY <1>1, <1>2
  <2> QED
    BY <2>1, DivisionIs
<1>4. z \div o = p
  <2>1. z = o * p + 0 /\ 0 \in 0 .. o - 1 /\ z \in Int /\ p \in Int
    BY <1>2
  <2> QED
    BY <2>1, DivisionIs
<1>5. (-z) \div o = -p
  <2>1. -z = o * (-p) + 0
    BY <1>2
  <2>2. 0 \in 0 .. o - 1 /\ -z \in Int /\ -p \in Int
    OBVIOUS
  <2> QED
    BY <2>1, <2>2, DivisionIs
<1>6. Trunc(m) = z
  <2>1. m >= 0
    OBVIOUS
  <2>2. Trunc(m) = m - (m % o)
    BY <1>1, <2>1 DEF Trunc
  <2> QED
    BY <1>a, <1>3, <2>2
<1>7. Trunc(-m) = -z
  <2>1. CASE m = 0
    <3>1. s = 0 /\ z = 0 /\ -m = m
      BY <1>1, <1>2, <2>1
    <3> QED
      BY <1>6, <3>1
  <2>2. CASE m # 0
    <3>1. ~(-m >= 0) /\ -(-m) = m
      BY <2>2
    <3>2. Trunc(-m) = -m + (m % o)
      BY <1>1, <3>1 DEF Trunc
    <3> QED
      BY <1>a, <1>3, <3>2
  <2> QED
    BY <2>1, <2>2
<1>8. (-m) % o = 0 <=> m % o = 0
  <2>1. -m \in Int /\ m \in Int
    OBVIOUS
  <2>2. ASSUME NEW k \in Int, m = k * o PROVE -m = (-k) * o /\ -k \in Int
    BY <2>2
  <2>3. ASSUME NEW k \in Int, -m = k * o PROVE m = (-k) * o /\ -k \in Int
    BY <2>3
  <2>4. (m % o = 0 <=> \E k \in Int : m = k * o) /\ ((-m) % o = 0 <=> \E k \in Int : -m = k * o)
    BY <2>1, Divides
  <2> QED
    BY <2>2, <2>3, <2>4
<1> QED
  BY <1>1, <1>3, <1>4, <1>5, <1>6, <1>7, <1>8

LEMMA MinusWordsOf ==
    ASSUME NEW d \in Decimals
    PROVE  WordsMade(MinusWords(d), d.buf, ROUND_UP(d.intg))
<1>1. PICK i \in Nat : i = ROUND_UP(d.intg)
  BY DecimalTypes
<1>2. PICK w : w = d.buf
  OBVIOUS
<1>3. AreWords(w, i)
  <2>1. PICK n \in Nat : AreWords(w, i + n)
    BY <1>1, <1>2, DecimalTypes
  <2>2. ASSUME NEW k \in 1 .. i PROVE w[k] \in 0 .. DIG_MAX
    <3>1. k \in 1 .. i + n
      OBVIOUS
    <3> QED
      BY <2>1, <3>1 DEF AreWords
  <2> QED
    BY <2>2 DEF AreWords
<1>4. \E x : AreMinusWords(x, w, i)
  <2>1. \A k \in 1 .. i : w[k] \in Int
    BY <1>3, Base DEF AreWords
  <2> QED
    BY <2>1, MinusWordsExist
<1>5. MinusWords(d) = CHOOSE x : AreMinusWords(x, d.buf, ROUND_UP(d.intg))
  BY Zenon DEF MinusWords, AreMinusWords
<1>6. PICK x : x = MinusWords(d) /\ AreMinusWords(x, w, i)
  <2>1. MinusWords(d) = CHOOSE x : AreMinusWords(x, w, i)
    BY <1>1, <1>2, <1>5
  <2>2. AreMinusWords(CHOOSE x : AreMinusWords(x, w, i), w, i)
    BY <1>4, Zenon
  <2> QED
    BY <2>1, <2>2
<1>7. WordsMade(x, w, i)
  BY <1>3, <1>6, MinusWordsMade
<1> QED
  BY <1>1, <1>2, <1>6, <1>7

(* decimal2longlong() drops the fraction, says so, and stops at the ends   *)
(* of the range: the overflow that wraps is always found out.              *)
THEOREM LonglongIsRight == TypeOK => LonglongIsTrunc
<1> SUFFICES ASSUME TypeOK PROVE LonglongIsTrunc
  OBVIOUS
<1>1. PICK d \in Decimals : d = acc /\ Fits(d)
  BY AccTypes
<1>a. PICK L \in Nat \ {0}, i \in Nat, sign \in BOOLEAN :
        L = LonglongHalf /\ i = ROUND_UP(d.intg) /\ sign = d.sign
  BY WidthAssumption, DecimalTypes
<1>2. PICK x : L = LonglongHalf /\ i = ROUND_UP(d.intg) /\ x = MinusWords(d) /\ sign = d.sign
  BY <1>a
<1>3. PICK p \in Nat, m \in Nat, s \in Nat : IsWhole(d, p, m, s)
  BY <1>1, Whole
<1>4. /\ p = Positional(d.buf, i)
      /\ m = Scaled(d, DECIMAL_BUFF_LENGTH)
      /\ m = p * One + s /\ s < One
      /\ s = 0 <=> \A k \in i + 1 .. Len(d.buf) : d.buf[k] = 0
  BY <1>2, <1>3 DEF IsWhole
<1>5. /\ p > L => Wrapped(x, i)
      /\ p <= L => ~Wrapped(x, i) /\ x[i] = -p
  BY <1>2, <1>4, MinusWordsOf DEF WordsMade
<1>6. PICK error : error = IF \E k \in i + 1 .. Len(d.buf) : d.buf[k] # 0
                           THEN E_DEC_TRUNCATED ELSE E_DEC_OK
  OBVIOUS
<1>7. error = IF s = 0 THEN E_DEC_OK ELSE E_DEC_TRUNCATED
  BY <1>4, <1>6
<1>8. PICK r : r = Decimal2longlong(d)
  OBVIOUS
<1>9. r = IF Wrapped(x, i) \/ (~d.sign /\ x[i] = -L)
          THEN [to |-> IF d.sign THEN -L ELSE L - 1, error |-> E_DEC_OVERFLOW]
          ELSE [to |-> IF d.sign THEN x[i] ELSE -x[i], error |-> error]
  BY <1>2, <1>6, <1>8, Zenon DEF Decimal2longlong
<1>10. PICK v : v = Num(Number(d))
  OBVIOUS
<1>11. PICK n : n = Trunc(v) \div One
  OBVIOUS
<1>12. LonglongIsTrunc <=> CASE n < -L  -> r = [to |-> -L, error |-> E_DEC_OVERFLOW]
                             [] n >= L  -> r = [to |-> L - 1, error |-> E_DEC_OVERFLOW]
                             [] OTHER -> /\ r.to = n
                                         /\ r.error = IF v % One = 0 THEN E_DEC_OK ELSE E_DEC_TRUNCATED
  BY <1>1, <1>2, <1>8, <1>10, <1>11, Zenon DEF LonglongIsTrunc
<1>13. Number(d) = WithSign(sign, m)
  <2>1. ROUND_UP(d.frac) <= DECIMAL_BUFF_LENGTH
    BY <1>1, FracFits
  <2> QED
    BY <1>2, <1>4, <2>1, SignedNumber
<1>14. CASE sign = TRUE
  <2>1. v = -m
    BY <1>10, <1>13, <1>14, SignedNum
  <2>2. n = -p /\ (v % One = 0 <=> s = 0)
    BY <1>4, <1>11, <2>1, TruncIs
  <2>3. CASE p > L
    <3>1. n < -L
      BY <2>2, <2>3
    <3>2. r = [to |-> -L, error |-> E_DEC_OVERFLOW]
      BY <1>2, <1>5, <1>9, <1>14, <2>3
    <3>3. ~(n >= L)
      BY <2>2
    <3> QED
      BY <1>12, <3>1, <3>2, <3>3, Zenon
  <2>4. CASE p <= L
    <3>1. ~(n < -L) /\ ~(n >= L)
      BY <2>2, <2>4
    <3>2. r = [to |-> x[i], error |-> error]
      BY <1>2, <1>5, <1>9, <1>14, <2>4
    <3>3. r.to = n /\ r.error = error
      BY <1>5, <2>2, <2>4, <3>2
    <3>4. r.error = IF v % One = 0 THEN E_DEC_OK ELSE E_DEC_TRUNCATED
      BY <1>7, <2>2, <3>3
    <3> QED
      BY <1>12, <3>1, <3>3, <3>4, Zenon
  <2> QED
    BY <2>3, <2>4
<1>15. CASE sign = FALSE
  <2>1. v = m
    BY <1>10, <1>13, <1>15, SignedNum
  <2>2. n = p /\ (v % One = 0 <=> s = 0)
    BY <1>4, <1>11, <2>1, TruncIs
  <2>3. CASE p >= L
    <3>1. n >= L /\ ~(n < -L)
      BY <2>2, <2>3
    <3>2. Wrapped(x, i) \/ x[i] = -L
      BY <1>5, <2>3
    <3>3. r = [to |-> L - 1, error |-> E_DEC_OVERFLOW]
      BY <1>2, <1>9, <1>15, <3>2
    <3> QED
      BY <1>12, <3>1, <3>3, Zenon
  <2>4. CASE p < L
    <3>1. ~(n < -L) /\ ~(n >= L)
      BY <2>2, <2>4
    <3>2. ~Wrapped(x, i) /\ x[i] = -p /\ x[i] # -L /\ -x[i] = p
      BY <1>5, <2>4
    <3>3. r = [to |-> -x[i], error |-> error]
      BY <1>2, <1>9, <1>15, <3>2
    <3>4. r.to = n /\ r.error = error
      BY <2>2, <3>2, <3>3
    <3>5. r.error = IF v % One = 0 THEN E_DEC_OK ELSE E_DEC_TRUNCATED
      BY <1>7, <2>2, <3>4
    <3> QED
      BY <1>12, <3>1, <3>4, <3>5, Zenon
  <2> QED
    BY <2>3, <2>4
<1> QED
  BY <1>14, <1>15

-----------------------------------------------------------------------------
(* Products. *)

(* A turn of the outer loop adds the products of one word with carries.    *)
LEMMA SumsCarry ==
    ASSUME NEW a \in Decimals, NEW b \in Decimals, NEW row, NEW p \in Int, NEW kept,
           NEW f \in Int, kept.frac2 = f, kept.intg2 = ROUND_UP(b.intg),
           NEW lo \in Int, lo <= p + f + 1, \A q \in lo .. p + f : row[q] \in Int
    PROVE  Carries(Sums(row, a, p, b, kept, lo),
                   [q \in lo .. p + f |-> row[q] + Word(a, p) * Word(b, q - p)], lo, p + f)
<1> DEFINE hi == p + f
           t == [q \in lo .. hi |-> row[q] + Word(a, p) * Word(b, q - p)]
           IsSum(s) == s = [q \in lo .. hi + 1 |->
               IF q > hi THEN 0
               ELSE row[q] + (IF q - p > -kept.intg2 THEN Word(a, p) * Word(b, q - p) ELSE 0)
                           + s[q + 1] \div DIG_BASE]
<1>1. ASSUME NEW q \in lo .. hi
      PROVE  /\ t[q] \in Int
             /\ t[q] = row[q] + (IF q - p > -kept.intg2 THEN Word(a, p) * Word(b, q - p) ELSE 0)
  <2>1. q - p \in Int /\ row[q] \in Int /\ t[q] = row[q] + Word(a, p) * Word(b, q - p)
    OBVIOUS
  <2> HIDE DEF t
  <2>2. PICK x \in Int, y \in Int, i \in Nat, z \in Int :
          /\ x = Word(a, p) /\ y = Word(b, q - p) /\ i = ROUND_UP(b.intg) /\ z = x * y
    <3>1. Word(a, p) \in Int /\ Word(b, q - p) \in Int /\ ROUND_UP(b.intg) \in Nat
      BY <2>1, WordTypes, DecimalTypes
    <3>2. Word(a, p) * Word(b, q - p) \in Int
      BY <3>1
    <3> QED
      BY <3>1, <3>2
  <2>3. q - p <= -i => y = 0
    <3>1. q - p <= -i => q - p \notin 1 - ROUND_UP(b.intg) .. ROUND_UP(b.frac)
      BY <2>1, <2>2
    <3> QED
      BY <2>1, <2>2, <3>1, WordTypes
  <2>4. q - p <= -i => z = 0
    <3>1. y = 0 => x * y = 0
      BY <2>2
    <3> QED
      BY <2>2, <2>3, <3>1
  <2>5. t[q] = row[q] + z /\ kept.intg2 = i /\ Word(a, p) * Word(b, q - p) = z
    BY <2>1, <2>2
  <2>6. (IF q - p > -i THEN z ELSE 0) = z
    BY <2>4
  <2> QED
    BY <2>1, <2>2, <2>5, <2>6
<1> HIDE DEF t
<1>2. ASSUME NEW s PROVE Carries(s, t, lo, hi) <=> IsSum(s)
  <2>1. [q \in lo .. hi + 1 |-> IF q > hi THEN 0 ELSE t[q] + s[q + 1] \div DIG_BASE]
          = [q \in lo .. hi + 1 |->
               IF q > hi THEN 0
               ELSE row[q] + (IF q - p > -kept.intg2 THEN Word(a, p) * Word(b, q - p) ELSE 0)
                           + s[q + 1] \div DIG_BASE]
    <3>1. ASSUME NEW q \in lo .. hi + 1
          PROVE  (IF q > hi THEN 0 ELSE t[q] + s[q + 1] \div DIG_BASE)
                   = IF q > hi THEN 0
                     ELSE row[q] + (IF q - p > -kept.intg2 THEN Word(a, p) * Word(b, q - p) ELSE 0)
                                 + s[q + 1] \div DIG_BASE
      <4>1. q > hi \/ q \in lo .. hi
        OBVIOUS
      <4>2. CASE q > hi
        BY <4>2
      <4>3. CASE q \in lo .. hi
        <5>1. t[q] = row[q] + (IF q - p > -kept.intg2 THEN Word(a, p) * Word(b, q - p) ELSE 0)
          BY <1>1, <4>3
        <5> QED
          BY <5>1
      <4> QED
        BY <4>1, <4>2, <4>3
    <3> QED
      BY <3>1, Zenon
  <2> QED
    BY <2>1, Zenon DEF Carries, IsSum
<1>3. \E s : IsSum(s)
  <2>1. \E s : Carries(s, t, lo, hi)
    <3>1. hi \in Int /\ lo <= hi + 1 /\ \A q \in lo .. hi : t[q] \in Int
      BY <1>1
    <3> HIDE DEF hi
    <3> QED
      BY <3>1, CarriesExist
  <2> QED
    BY <1>2, <2>1, Zenon
<1>4. Sums(row, a, p, b, kept, lo) = CHOOSE s : IsSum(s)
  BY Zenon DEF Sums, IsSum
<1> HIDE DEF IsSum
<1>5. IsSum(Sums(row, a, p, b, kept, lo))
  BY <1>3, <1>4, Zenon
<1>6. Carries(Sums(row, a, p, b, kept, lo), t, lo, hi)
  BY <1>2, <1>5, Zenon
<1> QED
  BY <1>6, Zenon DEF t

(* The words of a product at the positions from 1 - I to F.                *)
IsRow(row, I, F) == row \in [1 - I .. F -> 0 .. DIG_MAX]

RowWords(row, I, F) == [k \in 1 .. I + F |-> row[k - I]]

RowValue(row, I, F) == Positional(RowWords(row, I, F), I + F)

RowAdds(new, row, a, p, b, kept, f, I, F, L, t, c, x, y, u, v, m, n) ==
    /\ x = Word(a, p) /\ y = Positional(WordsIn(b, p + I, f), L)
    /\ u = RowValue(row, I, F) /\ v = RowValue(new, I, F)
    /\ m = Power(DIG_BASE, t) /\ n = Power(DIG_BASE, I + F)
    /\ u + (x * y) * m = c * n + v
    /\ c = 0 => ~CarryOut(row, a, p, b, kept, 1 - I)

RowIs(new, row, a, p, b, kept, f, I, F, L, t) ==
    /\ IsRow(new, I, F)
    /\ \E c \in Nat, x \in Nat, y \in Nat, u \in Nat, v \in Nat, m \in Nat \ {0}, n \in Nat \ {0} :
         RowAdds(new, row, a, p, b, kept, f, I, F, L, t, c, x, y, u, v, m, n)

LEMMA RowAdded ==
    ASSUME NEW a \in Decimals, NEW b \in Decimals, NEW I \in Nat, NEW F \in Nat,
           NEW row, IsRow(row, I, F), NEW p \in Int, NEW kept, NEW f \in Int, kept.frac2 = f,
           kept.intg2 = ROUND_UP(b.intg), NEW L \in Nat, L = p + f + I, NEW t \in Nat, t = F - (p + f)
    PROVE  RowIs(AddRow(row, a, p, b, kept, 1 - I), row, a, p, b, kept, f, I, F, L, t)
<1>1. PICK lo \in Int, hi \in Int : lo = 1 - I /\ hi = p + f
  OBVIOUS
<1>2. hi = lo + L - 1 /\ L + t = I + F /\ hi = F - t /\ lo <= hi + 1 /\ hi <= F
  BY <1>1
<1>3. PICK B \in Nat \ {0, 1} : B = DIG_BASE /\ DIG_MAX = B - 1
  BY Base
<1>4. PICK x \in Nat : x = Word(a, p)
  <2>1. Word(a, p) \in 0 .. DIG_MAX
    BY WordTypes
  <2> QED
    BY <1>3, <2>1
<1>5. \A q \in lo .. F : row[q] \in 0 .. B - 1
  BY <1>1, <1>3 DEF IsRow
<1> DEFINE T == [q \in lo .. hi |-> row[q] + Word(a, p) * Word(b, q - p)]
<1>6. PICK s : s = Sums(row, a, p, b, kept, lo)
  OBVIOUS
<1>7. Carries(s, T, lo, hi)
  <2>1. \A q \in lo .. p + f : row[q] \in Int
    BY <1>1, <1>2, <1>5
  <2>2. lo <= p + f + 1
    BY <1>1, <1>2
  <2>3. Carries(Sums(row, a, p, b, kept, lo),
                [q \in lo .. p + f |-> row[q] + Word(a, p) * Word(b, q - p)], lo, p + f)
    BY <2>1, <2>2, SumsCarry
  <2> QED
    BY <1>1, <1>6, <2>3
<1>8. PICK wb : wb = WordsIn(b, p + I, f)
  OBVIOUS
<1>9. PICK R : R = RowWords(row, I, F)
  OBVIOUS
<1>10. \A k \in 1 .. I + F : R[k] = row[k - I] /\ R[k] \in 0 .. B - 1
  <2> SUFFICES ASSUME NEW k \in 1 .. I + F PROVE R[k] = row[k - I] /\ R[k] \in 0 .. B - 1
    OBVIOUS
  <2>1. R[k] = row[k - I]
    BY <1>9 DEF RowWords
  <2>2. k - I \in lo .. F
    BY <1>1
  <2> QED
    BY <1>5, <2>1, <2>2
<1>11. \A k \in 1 .. L : wb[k] = Word(b, k - (p + I)) /\ wb[k] \in 0 .. B - 1
  <2> SUFFICES ASSUME NEW k \in 1 .. L PROVE wb[k] = Word(b, k - (p + I)) /\ wb[k] \in 0 .. B - 1
    OBVIOUS
  <2>1. k \in 1 .. (p + I) + f /\ k - (p + I) \in Int
    OBVIOUS
  <2>2. wb[k] = Word(b, k - (p + I))
    BY <1>8, <2>1 DEF WordsIn
  <2>3. Word(b, k - (p + I)) \in 0 .. DIG_MAX
    BY <2>1, WordTypes
  <2> QED
    BY <1>3, <2>2, <2>3
<1>12. \A q \in lo .. hi : T[q] \in Int
  <2> SUFFICES ASSUME NEW q \in lo .. hi PROVE row[q] + Word(a, p) * Word(b, q - p) \in Int
    OBVIOUS
  <2>1. q - p \in Int /\ q \in lo .. F
    BY <1>2
  <2>2. PICK y \in Int : y = Word(b, q - p)
    BY <2>1, WordTypes
  <2>3. row[q] \in Int
    BY <1>5, <2>1
  <2>4. x * y \in Int
    OBVIOUS
  <2> QED
    BY <1>4, <2>2, <2>3, <2>4
<1> DEFINE u == [k \in 1 .. L |-> T[lo + k - 1]]
           w == [k \in 1 .. L |-> s[lo + k - 1] % B]
<1>13. \A k \in 1 .. L : u[k] = T[lo + k - 1] /\ w[k] = s[lo + k - 1] % B
  OBVIOUS
<1>14. \A k \in 1 .. L : u[k] = R[k] + x * wb[k]
  <2> SUFFICES ASSUME NEW k \in 1 .. L PROVE u[k] = R[k] + x * wb[k]
    OBVIOUS
  <2>1. lo + k - 1 \in lo .. hi /\ lo + k - 1 = k - I /\ (k - I) - p = k - (p + I) /\ k \in 1 .. I + F
    BY <1>1, <1>2
  <2>2. u[k] = row[k - I] + Word(a, p) * Word(b, (k - I) - p)
    BY <2>1
  <2> HIDE DEF u
  <2>3. u[k] = R[k] + x * Word(b, k - (p + I))
    BY <1>4, <1>10, <2>1, <2>2
  <2> QED
    BY <1>11, <2>3
<1> HIDE DEF T, u, w
<1>15. TakenOut(s, u, w, lo, L)
  <2>1. \A k \in 1 .. L : w[k] = s[lo + k - 1] % DIG_BASE /\ u[k] = T[lo + k - 1]
    BY <1>3, <1>13
  <2> QED
    <3>1. hi = lo + L - 1
      BY <1>2
    <3> QED
      BY ONLY <1>7, <1>12, <2>1, <3>1, lo \in Int, hi \in Int, L \in Nat, Carrying
<1>16. AreWords(w, L) /\ s[lo] \in Int /\ s[lo] \div B \in Int
       /\ Positional(u, L) = (s[lo] \div B) * Power(DIG_BASE, L) + Positional(w, L)
  BY <1>3, <1>15 DEF TakenOut
<1>17. AreWords(wb, L) /\ AreWords(R, I + F) /\ AreWords(R, L)
  <2>1. \A k \in 1 .. L : k \in 1 .. I + F
    BY <1>2
  <2> QED
    BY <1>3, <1>10, <1>11, <2>1 DEF AreWords
<1>18. PICK new : new = AddRow(row, a, p, b, kept, 1 - I)
  OBVIOUS
<1>19. /\ IsRow(new, I, F)
       /\ \A q \in lo .. hi : new[q] = s[q] % B
       /\ \A q \in hi + 1 .. F : new[q] = row[q]
  <2>1. new = [q \in lo .. F |-> IF q > hi THEN row[q] ELSE s[q] % B]
    <3>1. DOMAIN row = lo .. F
      BY <1>1 DEF IsRow
    <3>2. p + kept.frac2 = hi
      BY <1>1
    <3>3. new = [q \in DOMAIN row |-> IF q > p + kept.frac2 THEN row[q] ELSE s[q] % DIG_BASE]
      BY <1>1, <1>6, <1>18, Zenon DEF AddRow
    <3> QED
      BY <1>3, <3>1, <3>2, <3>3
  <2>2. \A q \in lo .. F : new[q] = IF q > hi THEN row[q] ELSE s[q] % B
    BY <2>1
  <2>3. ASSUME NEW q \in lo .. hi PROVE new[q] = s[q] % B
    <3>1. q \in lo .. F /\ ~(q > hi)
      BY <1>2
    <3> QED
      BY <2>2, <3>1
  <2>4. ASSUME NEW q \in hi + 1 .. F PROVE new[q] = row[q]
    <3>1. q \in lo .. F /\ q > hi
      BY <1>2
    <3> QED
      BY <2>2, <3>1
  <2>5. ASSUME NEW q \in lo .. F PROVE new[q] \in 0 .. B - 1
    <3>1. CASE q \in lo .. hi
      <4>1. PICK k \in 1 .. L : q = lo + k - 1
        <5>1. q - lo + 1 \in 1 .. L /\ q = lo + (q - lo + 1) - 1
          BY <1>2, <3>1
        <5> QED
          BY <5>1
      <4>2. w[k] \in 0 .. B - 1
        BY <1>3, <1>16 DEF AreWords
      <4> QED
        BY <1>13, <2>3, <3>1, <4>1, <4>2
    <3>2. CASE q \in hi + 1 .. F
      BY <1>5, <2>4, <3>2
    <3> QED
      BY <3>1, <3>2
  <2>6. new \in [lo .. F -> 0 .. B - 1]
    BY <2>1, <2>5
  <2> QED
    BY <1>1, <1>3, <2>3, <2>4, <2>6 DEF IsRow
<1>20. PICK N : N = RowWords(new, I, F)
  OBVIOUS
<1>21. /\ \A k \in 1 .. I + F : N[k] = new[k - I] /\ N[k] \in 0 .. B - 1
       /\ \A k \in 1 .. L : N[k] = w[k]
       /\ \A k \in L + 1 .. I + F : N[k] = R[k]
  <2>1. \A k \in 1 .. I + F : N[k] = new[k - I] /\ N[k] \in 0 .. B - 1
    <3> SUFFICES ASSUME NEW k \in 1 .. I + F PROVE N[k] = new[k - I] /\ N[k] \in 0 .. B - 1
      OBVIOUS
    <3>1. N[k] = new[k - I]
      BY <1>20 DEF RowWords
    <3>2. k - I \in 1 - I .. F
      OBVIOUS
    <3>3. new[k - I] \in 0 .. B - 1
      BY <1>3, <1>19, <3>2 DEF IsRow
    <3> QED
      BY <3>1, <3>3
  <2>2. ASSUME NEW k \in 1 .. L PROVE N[k] = w[k]
    <3>1. k \in 1 .. I + F /\ k - I \in lo .. hi /\ lo + k - 1 = k - I
      BY <1>1, <1>2
    <3> QED
      BY <1>13, <1>19, <2>1, <3>1
  <2>3. ASSUME NEW k \in L + 1 .. I + F PROVE N[k] = R[k]
    <3>1. k \in 1 .. I + F /\ k - I \in hi + 1 .. F
      BY <1>1, <1>2
    <3> QED
      BY <1>10, <1>19, <2>1, <3>1
  <2> QED
    BY <2>1, <2>2, <2>3
<1>22. PICK low : low = [k \in 1 .. t |-> R[L + k]]
  OBVIOUS
<1>23. \A k \in 1 .. t : low[k] = R[L + k] /\ low[k] = N[L + k] /\ low[k] \in 0 .. B - 1
  <2> SUFFICES ASSUME NEW k \in 1 .. t
               PROVE  low[k] = R[L + k] /\ low[k] = N[L + k] /\ low[k] \in 0 .. B - 1
    OBVIOUS
  <2>1. L + k \in 1 .. I + F /\ L + k \in L + 1 .. I + F
    BY <1>2
  <2> QED
    BY <1>10, <1>21, <1>22, <2>1
<1>24. PICK m \in Nat \ {0}, l \in Nat \ {0}, n \in Nat \ {0} :
         m = Power(DIG_BASE, t) /\ l = Power(DIG_BASE, L) /\ n = Power(DIG_BASE, I + F) /\ n = l * m
  <2>1. Power(DIG_BASE, t) \in Nat \ {0} /\ Power(DIG_BASE, L) \in Nat \ {0}
        /\ Power(DIG_BASE, L + t) \in Nat \ {0}
    BY <1>3, PowerPositive
  <2>2. Power(DIG_BASE, L + t) = Power(DIG_BASE, L) * Power(DIG_BASE, t)
    BY <1>3, PowerSum
  <2> QED
    BY <1>2, <2>1, <2>2
<1>25. PICK h \in Nat, g \in Nat, o \in Nat, e \in Nat, y \in Nat :
         /\ h = Positional(R, L) /\ g = RowValue(row, I, F) /\ o = Positional(low, t)
         /\ y = Positional(wb, L) /\ e = Positional(w, L)
  <2>1. AreWords(low, t)
    BY <1>3, <1>23 DEF AreWords
  <2>2. Positional(R, L) \in Nat /\ Positional(R, I + F) \in Nat /\ Positional(low, t) \in Nat
        /\ Positional(wb, L) \in Nat /\ Positional(w, L) \in Nat
    <3>1. L \in 0 .. L /\ t \in 0 .. t /\ I + F \in 0 .. I + F /\ I + F \in Nat
      OBVIOUS
    <3> QED
      BY <1>16, <1>17, <2>1, <3>1, PositionalRange
  <2> QED
    BY <1>9, <2>2 DEF RowValue
<1>26. g = h * m + o
  <2>1. \A k \in 1 .. L + t : R[k] \in Int
    BY <1>2, <1>10
  <2>2. Positional(R, L + t) = Positional(R, L) * Power(DIG_BASE, t) + Positional(low, t)
    BY <1>23, <2>1, PositionalSplit
  <2> QED
    BY <1>2, <1>9, <1>24, <1>25, <2>2 DEF RowValue
<1>27. PICK v \in Nat : v = RowValue(new, I, F) /\ v < n
  <2>1. AreWords(N, I + F)
    BY <1>3, <1>21 DEF AreWords
  <2>2. I + F \in Nat /\ I + F \in 0 .. I + F
    OBVIOUS
  <2>3. Positional(N, I + F) \in Nat /\ Positional(N, I + F) < Power(DIG_BASE, I + F)
    BY <2>1, <2>2, PositionalRange
  <2> QED
    BY <1>20, <1>24, <2>3 DEF RowValue
<1>28. v = e * m + o
  <2>1. \A k \in 1 .. L + t : N[k] \in Int
    BY <1>2, <1>21
  <2>2. Positional(N, L + t) = Positional(N, L) * Power(DIG_BASE, t) + Positional(low, t)
    BY <1>23, <2>1, PositionalSplit
  <2>3. Positional(N, L) = Positional(w, L)
    <3>1. \A k \in 1 .. L : w[k] \in Int /\ N[k] = w[k]
      BY <1>2, <2>1, <1>21
    <3> QED
      BY <3>1, PositionalSame
  <2> QED
    BY <1>2, <1>20, <1>24, <1>25, <1>27, <2>2, <2>3 DEF RowValue
<1>29. PICK c \in Int : c = s[lo] \div B
  BY <1>16
<1>30. h + x * y = c * l + e
  <2>1. \A k \in 1 .. L : R[k] \in Int /\ wb[k] \in Int /\ u[k] = R[k] + x * wb[k]
    BY <1>2, <1>10, <1>11, <1>14
  <2>2. Positional(u, L) = Positional(R, L) + x * Positional(wb, L)
    BY <2>1, PositionalLinear
  <2> QED
    BY <1>16, <1>24, <1>25, <1>29, <2>2
<1>31. g + (x * y) * m = c * n + v
  <2>1. PICK z \in Nat : z = x * y
    OBVIOUS
  <2>2. (h + z) * m = (c * l + e) * m
    BY <1>30, <2>1
  <2>3. (h + z) * m = h * m + z * m /\ (c * l + e) * m = c * (l * m) + e * m
    OBVIOUS
  <2>4. PICK i1 \in Int, i2 \in Int, i3 \in Int, i4 \in Int :
          i1 = h * m /\ i2 = z * m /\ i3 = e * m /\ i4 = c * n
    <3>1. h * m \in Int /\ z * m \in Int /\ e * m \in Int /\ c * n \in Int
      OBVIOUS
    <3> QED
      BY <3>1
  <2>5. g = i1 + o /\ v = i3 + o /\ i1 + i2 = i4 + i3
    BY <1>24, <1>26, <1>28, <2>2, <2>3, <2>4
  <2>6. g + i2 = i4 + v
    BY <2>5
  <2> QED
    BY <2>1, <2>4, <2>6
<1>32. c \in Nat
  <2>1. (x * y) * m \in Nat
    OBVIOUS
  <2>2. c * n > -n
    BY <1>27, <1>31, <2>1
  <2>3. c <= -1 => c * n <= (-1) * n
    BY MulMonotonic
  <2> QED
    BY <2>2, <2>3
<1>33. c = 0 => ~CarryOut(row, a, p, b, kept, 1 - I)
  <2>1. c = 0 => s[lo] < B
    <3>1. PICK z \in Int : z = s[lo]
      BY <1>16
    <3>2. z = B * (z \div B) + (z % B) /\ z % B \in 0 .. B - 1
      BY Division
    <3>3. B * 0 = 0
      OBVIOUS
    <3>4. c = 0 => z = 0 + (z % B)
      BY <1>29, <3>1, <3>2, <3>3
    <3> QED
      <4>1. PICK r \in 0 .. B - 1 : r = z % B
        BY <3>2
      <4>2. c = 0 => z = r
        BY <3>4, <4>1
      <4>3. c = 0 => z < B
        BY <4>2
      <4> QED
        BY <3>1, <4>3
  <2>2. CarryOut(row, a, p, b, kept, 1 - I) => s[lo] >= B
    BY <1>1, <1>3, <1>6, Zenon DEF CarryOut
  <2>3. s[lo] \in Int
    BY <1>16
  <2> QED
    BY <2>1, <2>2, <2>3
<1>34. /\ x = Word(a, p) /\ y = Positional(WordsIn(b, p + I, f), L)
       /\ g = RowValue(row, I, F) /\ v = RowValue(new, I, F)
       /\ m = Power(DIG_BASE, t) /\ n = Power(DIG_BASE, I + F)
       /\ g + (x * y) * m = c * n + v
       /\ c = 0 => ~CarryOut(row, a, p, b, kept, 1 - I)
  BY <1>4, <1>8, <1>24, <1>25, <1>27, <1>31, <1>33
<1> QED
  <2>1. IsRow(new, I, F)
    BY <1>19
  <2>2. RowAdds(new, row, a, p, b, kept, f, I, F, L, t, c, x, y, g, v, m, n)
    BY <1>34, Zenon DEF RowAdds
  <2>3. RowIs(new, row, a, p, b, kept, f, I, F, L, t)
    BY <1>32, <2>1, <2>2, Zenon DEF RowIs
  <2> QED
    BY <1>18, <2>3, Zenon

(* The rows of a product: the last is empty, each adds a word of a to the  *)
(* one after it.                                                           *)
NoRow(I, F) == [q \in 1 - I .. F |-> 0]

RowsAre(rows, a, b, kept, I, F, i, f) ==
    rows = [p \in 1 - i .. f + 1 |->
              IF p > f THEN NoRow(I, F) ELSE AddRow(rows[p + 1], a, p, b, kept, 1 - I)]

LEMMA RowsExist ==
    ASSUME NEW a \in Decimals, NEW b \in Decimals, NEW I \in Nat, NEW F \in Nat,
           NEW i \in Nat, NEW f \in Int, i + f \in Nat, NEW kept, NEW g \in Int, kept.frac2 = g,
           kept.intg2 = ROUND_UP(b.intg),
           \A p \in 1 - i .. f : p + g + I \in Nat /\ F - (p + g) \in Nat
    PROVE  \E rows : RowsAre(rows, a, b, kept, I, F, i, f)
<1> DEFINE S == [1 - I .. F -> 0 .. DIG_MAX]
           G == [k \in Nat |-> [row \in S |->
                   IF f - k >= 1 - i THEN AddRow(row, a, f - k, b, kept, 1 - I) ELSE row]]
<1>1. ASSUME NEW row \in S, NEW p \in 1 - i .. f
      PROVE  AddRow(row, a, p, b, kept, 1 - I) \in S
  <2>1. PICK L \in Nat, t \in Nat : L = p + g + I /\ t = F - (p + g) /\ p \in Int
    <3>1. p + g + I \in Nat /\ F - (p + g) \in Nat /\ p \in Int
      OBVIOUS
    <3> QED
      BY <3>1
  <2>2. IsRow(row, I, F)
    BY DEF IsRow
  <2> HIDE DEF S
  <2>3. RowIs(AddRow(row, a, p, b, kept, 1 - I), row, a, p, b, kept, g, I, F, L, t)
    BY <2>1, <2>2, RowAdded
  <2>4. IsRow(AddRow(row, a, p, b, kept, 1 - I), I, F)
    BY <2>3, Zenon DEF RowIs, RowAdds
  <2> QED
    BY <2>4 DEF IsRow, S
<1>2. NoRow(I, F) \in S
  BY Base DEF NoRow
<1> HIDE DEF S
<1>3. ASSUME NEW k \in Nat, NEW row \in S
      PROVE  /\ G[k][row] = IF f - k >= 1 - i THEN AddRow(row, a, f - k, b, kept, 1 - I) ELSE row
             /\ G[k][row] \in S
  <2>1. G[k][row] = IF f - k >= 1 - i THEN AddRow(row, a, f - k, b, kept, 1 - I) ELSE row
    OBVIOUS
  <2>2. f - k >= 1 - i => f - k \in 1 - i .. f
    OBVIOUS
  <2> HIDE DEF G
  <2> QED
    BY <1>1, <2>1, <2>2
<1>4. G \in [Nat -> [S -> S]]
  <2>1. ASSUME NEW k \in Nat
        PROVE  [row \in S |->
                  IF f - k >= 1 - i THEN AddRow(row, a, f - k, b, kept, 1 - I) ELSE row] \in [S -> S]
    <3>1. ASSUME NEW row \in S
          PROVE  (IF f - k >= 1 - i THEN AddRow(row, a, f - k, b, kept, 1 - I) ELSE row) \in S
      BY <1>3, Zenon
    <3> QED
      BY <3>1, Zenon
  <2> QED
    BY <2>1, Zenon
<1> HIDE DEF G
<1>5. PICK r : Follows(r, NoRow(I, F), G, S)
  BY <1>2, <1>4, Recursion, Zenon
<1>6. /\ r[0] = NoRow(I, F)
      /\ \A k \in Nat : r[k] \in S /\ r[k + 1] = G[k][r[k]]
  <2>1. r \in [Nat -> S] /\ r[0] = NoRow(I, F) /\ \A k \in Nat : r[k + 1] = G[k][r[k]]
    BY <1>5, Zenon DEF Follows
  <2>2. \A k \in Nat : r[k] \in S
    BY <2>1
  <2> QED
    BY <2>1, <2>2
<1> DEFINE rows == [p \in 1 - i .. f + 1 |-> r[f + 1 - p]]
<1>7. ASSUME NEW p \in 1 - i .. f + 1
      PROVE  rows[p] = IF p > f THEN NoRow(I, F) ELSE AddRow(rows[p + 1], a, p, b, kept, 1 - I)
  <2>1. CASE p > f
    <3>1. f + 1 - p = 0
      BY <2>1
    <3>2. rows[p] = r[0]
      BY <3>1
    <3> QED
      BY <1>6, <2>1, <3>2
  <2>2. CASE p <= f
    <3>1. PICK k \in Nat : k = f - p
      BY <2>2
    <3>2. p = f - k /\ f + 1 - p = k + 1 /\ f + 1 - (p + 1) = k /\ p + 1 \in 1 - i .. f + 1
      BY <2>2, <3>1
    <3>3. rows[p] = r[k + 1] /\ rows[p + 1] = r[k]
      BY <3>2
    <3>4. f - k >= 1 - i /\ ~(p > f)
      BY <2>2, <3>2
    <3>5. r[k + 1] = AddRow(r[k], a, f - k, b, kept, 1 - I)
      BY <1>3, <1>6, <3>4
    <3> HIDE DEF rows
    <3>6. rows[p] = AddRow(rows[p + 1], a, p, b, kept, 1 - I)
      BY <3>2, <3>3, <3>5
    <3> QED
      BY <3>4, <3>6
  <2> QED
    BY <2>1, <2>2
<1>8. rows = [p \in 1 - i .. f + 1 |->
                IF p > f THEN NoRow(I, F) ELSE AddRow(rows[p + 1], a, p, b, kept, 1 - I)]
  <2>1. rows = [p \in 1 - i .. f + 1 |-> rows[p]]
    OBVIOUS
  <2> HIDE DEF rows
  <2> QED
    BY <1>7, <2>1, Zenon
<1> HIDE DEF rows
<1> QED
  BY <1>8, Zenon DEF RowsAre

LEMMA RowsOf ==
    ASSUME NEW a \in Decimals, NEW b \in Decimals, NEW I \in Nat, NEW F \in Nat,
           NEW i \in Nat, NEW f \in Int, i + f \in Nat, NEW kept, NEW g \in Int, kept.frac2 = g,
           kept.intg2 = ROUND_UP(b.intg), kept.intg1 = i, kept.frac1 = f,
           NEW fix, fix.intg = I, fix.frac = F,
           \A p \in 1 - i .. f : p + g + I \in Nat /\ F - (p + g) \in Nat
    PROVE  RowsAre(Rows(a, b, kept, fix), a, b, kept, I, F, i, f)
<1>1. \E rows : RowsAre(rows, a, b, kept, I, F, i, f)
  BY RowsExist
<1> DEFINE P(rows) == RowsAre(rows, a, b, kept, I, F, i, f)
<1>2. Rows(a, b, kept, fix) = CHOOSE rows : P(rows)
  <2>1. Rows(a, b, kept, fix)
          = CHOOSE rows : rows = [p \in 1 - kept.intg1 .. kept.frac1 + 1 |->
              IF p > kept.frac1 THEN [q \in 1 - fix.intg .. fix.frac |-> 0]
              ELSE AddRow(rows[p + 1], a, p, b, kept, 1 - fix.intg)]
    BY Zenon DEF Rows
  <2>2. Rows(a, b, kept, fix)
          = CHOOSE rows : rows = [p \in 1 - i .. f + 1 |->
              IF p > f THEN [q \in 1 - I .. F |-> 0]
              ELSE AddRow(rows[p + 1], a, p, b, kept, 1 - I)]
    BY <2>1, Zenon
  <2> QED
    BY <2>2, Zenon DEF RowsAre, NoRow
<1> HIDE DEF P
<1>3. P(Rows(a, b, kept, fix))
  <2>1. \E rows : P(rows)
    BY <1>1, Zenon DEF P
  <2> QED
    BY <1>2, <2>1, Zenon
<1> QED
  BY <1>3, Zenon DEF P

(* The last t + 1 of the kept words of a, and the last t.                  *)
LastWords(d, i, f, t) ==
    \E x \in Nat, p \in Nat, q \in Nat, r \in Nat, m \in Nat \ {0} :
        /\ x = Word(d, f - t)
        /\ p = Positional(WordsIn(d, t - f, f), t)
        /\ q = Positional(WordsIn(d, t + 1 - f, f), t + 1)
        /\ r = Positional(WordsIn(d, i, f), i + f)
        /\ m = Power(DIG_BASE, t)
        /\ q = x * m + p
        /\ q <= r

LEMMA LastWordsAre ==
    ASSUME NEW d \in Decimals, NEW i \in Nat, NEW f \in Int, NEW t \in Nat, t + 1 <= i + f
    PROVE  LastWords(d, i, f, t)
<1>1. PICK B \in Nat \ {0, 1} : B = DIG_BASE /\ DIG_MAX = B - 1
  BY Base
<1>2. PICK n \in Nat, e \in Nat : n = i + f /\ e = n - (t + 1) /\ n = e + (t + 1)
  <2>1. i + f \in Nat /\ (i + f) - (t + 1) \in Nat
    OBVIOUS
  <2> QED
    BY <2>1
<1>3. PICK u, v, w : u = WordsIn(d, t - f, f) /\ v = WordsIn(d, t + 1 - f, f) /\ w = WordsIn(d, i, f)
  OBVIOUS
<1>4. \A p \in Int : Word(d, p) \in 0 .. B - 1
  BY <1>1, WordTypes
<1>5. \A k \in 1 .. t : u[k] = Word(d, k - (t - f)) /\ u[k] \in 0 .. B - 1
  <2> SUFFICES ASSUME NEW k \in 1 .. t PROVE u[k] = Word(d, k - (t - f)) /\ u[k] \in 0 .. B - 1
    OBVIOUS
  <2>1. k \in 1 .. (t - f) + f /\ k - (t - f) \in Int
    OBVIOUS
  <2>2. u[k] = Word(d, k - (t - f))
    BY <1>3, <2>1 DEF WordsIn
  <2> QED
    BY <1>4, <2>1, <2>2
<1>6. \A k \in 1 .. t + 1 : v[k] = Word(d, k - (t + 1 - f)) /\ v[k] \in 0 .. B - 1
  <2> SUFFICES ASSUME NEW k \in 1 .. t + 1
               PROVE  v[k] = Word(d, k - (t + 1 - f)) /\ v[k] \in 0 .. B - 1
    OBVIOUS
  <2>1. k \in 1 .. (t + 1 - f) + f /\ k - (t + 1 - f) \in Int
    OBVIOUS
  <2>2. v[k] = Word(d, k - (t + 1 - f))
    BY <1>3, <2>1 DEF WordsIn
  <2> QED
    BY <1>4, <2>1, <2>2
<1>7. \A k \in 1 .. n : w[k] = Word(d, k - i) /\ w[k] \in 0 .. B - 1
  <2> SUFFICES ASSUME NEW k \in 1 .. n PROVE w[k] = Word(d, k - i) /\ w[k] \in 0 .. B - 1
    OBVIOUS
  <2>1. k \in 1 .. i + f /\ k - i \in Int
    BY <1>2
  <2>2. w[k] = Word(d, k - i)
    BY <1>3, <2>1 DEF WordsIn
  <2> QED
    BY <1>4, <2>1, <2>2
<1>8. \A k \in 1 .. t : u[k] = v[k + 1]
  <2> SUFFICES ASSUME NEW k \in 1 .. t PROVE u[k] = v[k + 1]
    OBVIOUS
  <2>1. k + 1 \in 1 .. t + 1 /\ (k + 1) - (t + 1 - f) = k - (t - f)
    OBVIOUS
  <2> QED
    BY <1>5, <1>6, <2>1
<1>9. \A k \in 1 .. t + 1 : v[k] = w[e + k]
  <2> SUFFICES ASSUME NEW k \in 1 .. t + 1 PROVE v[k] = w[e + k]
    OBVIOUS
  <2>1. e + k \in 1 .. n /\ (e + k) - i = k - (t + 1 - f)
    BY <1>2
  <2> QED
    BY <1>6, <1>7, <2>1
<1>10. PICK x \in Nat : x = Word(d, f - t) /\ v[1] = x
  <2>1. 1 \in 1 .. t + 1 /\ 1 - (t + 1 - f) = f - t
    OBVIOUS
  <2> QED
    BY <1>1, <1>6, <2>1
<1>11. PICK m \in Nat \ {0}, l \in Nat \ {0} : m = Power(DIG_BASE, t) /\ l = Power(DIG_BASE, t + 1)
  <2>1. t + 1 \in Nat
    OBVIOUS
  <2> QED
    BY <1>1, <2>1, PowerPositive
<1>12. PICK p \in Nat, q \in Nat, r \in Nat, h \in Nat :
         /\ p = Positional(u, t) /\ q = Positional(v, t + 1) /\ r = Positional(w, n)
         /\ h = Positional(w, e)
  <2>1. AreWords(u, t) /\ AreWords(v, t + 1) /\ AreWords(w, n)
    BY <1>1, <1>5, <1>6, <1>7 DEF AreWords
  <2>2. t \in 0 .. t /\ t + 1 \in 0 .. t + 1 /\ n \in 0 .. n /\ e \in 0 .. n /\ t + 1 \in Nat
    BY <1>2
  <2> QED
    BY <2>1, <2>2, PositionalRange
<1>13. q = x * m + p
  <2>1. \A k \in 1 .. t + 1 : v[k] \in Int
    BY <1>1, <1>6
  <2>2. Positional(v, t + 1) = v[1] * Power(DIG_BASE, t) + Positional(u, t)
    BY ONLY <1>8, <2>1, t \in Nat, PositionalFirst
  <2> QED
    BY <1>10, <1>11, <1>12, <2>2
<1>14. r = h * l + q
  <2>1. \A k \in 1 .. e + (t + 1) : w[k] \in Int
    BY <1>1, <1>2, <1>7
  <2>2. t + 1 \in Nat
    OBVIOUS
  <2> QED
    BY <1>2, <1>9, <1>11, <1>12, <2>1, <2>2, PositionalSplit, SMTT(60)
<1>15. q <= r
  <2>1. h * l \in Nat
    OBVIOUS
  <2> QED
    BY <1>14, <2>1
<1>16. r = Positional(WordsIn(d, i, f), i + f)
  BY <1>2, <1>3, <1>12
<1>17. \E x_1 \in Nat, p_1 \in Nat, q_1 \in Nat, r_1 \in Nat, m_1 \in Nat \ {0} :
         /\ x_1 = Word(d, f - t)
         /\ p_1 = Positional(WordsIn(d, t - f, f), t)
         /\ q_1 = Positional(WordsIn(d, t + 1 - f, f), t + 1)
         /\ r_1 = Positional(WordsIn(d, i, f), i + f)
         /\ m_1 = Power(DIG_BASE, t)
         /\ q_1 = x_1 * m_1 + p_1
         /\ q_1 <= r_1
  <2> WITNESS x \in Nat, p \in Nat, q \in Nat, r \in Nat, m \in Nat \ {0}
  <2> QED
    BY <1>3, <1>10, <1>11, <1>12, <1>13, <1>15, <1>16
<1> QED
  BY <1>17, Zenon DEF LastWords

(* The first row is the product of the kept words, and no carry ran out.   *)
RowsMade(rows, a, b, kept, I, F, i, f, n) ==
    /\ IsRow(rows[1 - i], I, F)
    /\ RowValue(rows[1 - i], I, F) = n
    /\ \A p \in 1 - i .. f : ~CarryOut(rows[p + 1], a, p, b, kept, 1 - I)

LEMMA RowsMake ==
    ASSUME NEW a \in Decimals, NEW b \in Decimals, NEW I \in Nat, NEW F \in Nat,
           NEW i \in Nat, NEW j \in Nat, NEW f \in Int, NEW g \in Int, i + f \in Nat, j + g \in Nat,
           j = ROUND_UP(b.intg), i + j <= I + 1, F = f + g,
           NEW kept, kept.frac2 = g, kept.intg2 = j, kept.intg1 = i, kept.frac1 = f,
           NEW fix, fix.intg = I, fix.frac = F,
           NEW P \in Nat, P = Positional(WordsIn(a, i, f), i + f),
           NEW Q \in Nat, Q = Positional(WordsIn(b, j, g), j + g),
           P * Q < Power(DIG_BASE, I + F)
    PROVE  RowsMade(Rows(a, b, kept, fix), a, b, kept, I, F, i, f, P * Q)
<1>1. PICK B \in Nat \ {0, 1} : B = DIG_BASE /\ DIG_MAX = B - 1
  BY Base
<1>2. PICK n \in Nat : n = i + f
  OBVIOUS
<1>3. PICK N \in Nat \ {0} : N = Power(DIG_BASE, I + F)
  <2>1. I + F \in Nat
    OBVIOUS
  <2> QED
    BY <1>1, <2>1, PowerPositive
<1>4. \A p \in 1 - i .. f : p + g + I \in Nat /\ F - (p + g) \in Nat
  <2> SUFFICES ASSUME NEW p \in 1 - i .. f PROVE p + g + I \in Nat /\ F - (p + g) \in Nat
    OBVIOUS
  <2>1. p + I >= j /\ j + g >= 0
    OBVIOUS
  <2>2. F - (p + g) = f - p /\ p <= f
    OBVIOUS
  <2> QED
    BY <2>1, <2>2
<1>5. PICK rows : rows = Rows(a, b, kept, fix)
  OBVIOUS
<1>6. RowsAre(rows, a, b, kept, I, F, i, f)
  <2>1. kept.intg2 = ROUND_UP(b.intg)
    OBVIOUS
  <2> QED
    BY <1>4, <1>5, <2>1, RowsOf
<1>7. /\ rows[f + 1] = NoRow(I, F)
      /\ \A p \in 1 - i .. f : rows[p] = AddRow(rows[p + 1], a, p, b, kept, 1 - I)
  <2>1. rows = [p \in 1 - i .. f + 1 |->
                  IF p > f THEN NoRow(I, F) ELSE AddRow(rows[p + 1], a, p, b, kept, 1 - I)]
    BY <1>6, Zenon DEF RowsAre
  <2>2. ASSUME NEW p \in 1 - i .. f + 1
        PROVE  rows[p] = IF p > f THEN NoRow(I, F) ELSE AddRow(rows[p + 1], a, p, b, kept, 1 - I)
    BY <2>1, Zenon
  <2>3. f + 1 \in 1 - i .. f + 1 /\ f + 1 > f
    OBVIOUS
  <2>4. \A p \in 1 - i .. f : p \in 1 - i .. f + 1 /\ ~(p > f)
    OBVIOUS
  <2> QED
    BY <2>2, <2>3, <2>4, Zenon
<1> DEFINE V(t) == RowValue(rows[f + 1 - t], I, F)
           A(t) == Positional(WordsIn(a, t - f, f), t)
           C(p) == CarryOut(rows[p + 1], a, p, b, kept, 1 - I)
           K == {t \in Nat : t <= n =>
                   /\ IsRow(rows[f + 1 - t], I, F)
                   /\ V(t) = A(t) * Q
                   /\ \A p \in f + 1 - t .. f : ~C(p)}
<1>8. 0 \in K
  <2>1. f + 1 - 0 = f + 1
    OBVIOUS
  <2>2. IsRow(NoRow(I, F), I, F)
    BY <1>1 DEF IsRow, NoRow
  <2>3. RowValue(NoRow(I, F), I, F) = 0
    <3>1. PICK w : w = RowWords(NoRow(I, F), I, F)
      OBVIOUS
    <3>2. \A k \in 1 .. I + F : w[k] = 0
      <4> SUFFICES ASSUME NEW k \in 1 .. I + F PROVE w[k] = 0
        OBVIOUS
      <4>1. k - I \in 1 - I .. F
        OBVIOUS
      <4> QED
        BY <3>1, <4>1 DEF RowWords, NoRow
    <3>3. I + F \in Nat
      OBVIOUS
    <3> QED
      BY <3>1, <3>2, <3>3, PositionalZeros DEF RowValue
  <2>4. A(0) = 0
    <3>1. PICK w : w = WordsIn(a, 0 - f, f)
      OBVIOUS
    <3>2. \A k \in 1 .. 0 : w[k] = 0
      OBVIOUS
    <3> QED
      BY <3>1, <3>2, PositionalZeros
  <2>5. 0 * Q = 0
    OBVIOUS
  <2>6. \A p \in f + 1 - 0 .. f : FALSE
    OBVIOUS
  <2> HIDE DEF A, C
  <2> QED
    BY <1>7, <2>1, <2>2, <2>3, <2>4, <2>5, <2>6
<1>9. ASSUME NEW t \in Nat, t \in K
      PROVE  t + 1 \in K
  <2> SUFFICES ASSUME t + 1 <= n
               PROVE  /\ IsRow(rows[f + 1 - (t + 1)], I, F)
                      /\ V(t + 1) = A(t + 1) * Q
                      /\ \A p \in f + 1 - (t + 1) .. f : ~C(p)
    OBVIOUS
  <2>1. PICK p \in 1 - i .. f :
          p = f - t /\ p + 1 = f + 1 - t /\ f + 1 - (t + 1) = p /\ F - (p + g) = t /\ p \in Int
    <3>1. f - t \in 1 - i .. f
      BY <1>2
    <3>2. (f - t) + 1 = f + 1 - t /\ f + 1 - (t + 1) = f - t /\ F - ((f - t) + g) = t
      OBVIOUS
    <3> QED
      BY <3>1, <3>2
  <2>2. PICK row, new : row = rows[p + 1] /\ new = rows[p]
    OBVIOUS
  <2>3. IsRow(row, I, F) /\ RowValue(row, I, F) = A(t) * Q /\ \A r \in p + 1 .. f : ~C(r)
    <3>1. t <= n
      OBVIOUS
    <3> QED
      BY <1>9, <2>1, <2>2, <3>1
  <2>4. new = AddRow(row, a, p, b, kept, 1 - I)
    BY <1>7, <2>2
  <2>5. PICK L \in Nat : L = p + g + I
    BY <1>4
  <2>6. RowIs(new, row, a, p, b, kept, g, I, F, L, t)
    <3>1. t = F - (p + g) /\ kept.intg2 = ROUND_UP(b.intg)
      BY <2>1
    <3> QED
      BY <2>1, <2>3, <2>4, <2>5, <3>1, RowAdded
  <2>7. PICK c \in Nat, x \in Nat, y \in Nat, u \in Nat, v \in Nat, m \in Nat \ {0}, z \in Nat \ {0} :
          /\ x = Word(a, p) /\ y = Positional(WordsIn(b, p + I, g), L)
          /\ u = RowValue(row, I, F) /\ v = RowValue(new, I, F)
          /\ m = Power(DIG_BASE, t) /\ z = Power(DIG_BASE, I + F)
          /\ u + (x * y) * m = c * z + v
          /\ c = 0 => ~CarryOut(row, a, p, b, kept, 1 - I)
    BY <2>6, Zenon DEF RowIs, RowAdds
  <2>8. IsRow(new, I, F)
    BY <2>6, Zenon DEF RowIs, RowAdds
  <2>9. y = Q
    <3>1. PICK h \in Nat : h = p + I /\ j <= h /\ h + g = L
      <4>1. p + I \in Nat /\ j <= p + I
        BY <2>1
      <4> QED
        BY <2>5, <4>1
    <3>2. \A q \in Int : q <= -j => Word(b, q) = 0
      <4> SUFFICES ASSUME NEW q \in Int, q <= -j PROVE Word(b, q) = 0
        OBVIOUS
      <4>1. q \notin 1 - ROUND_UP(b.intg) .. ROUND_UP(b.frac)
        <5>1. PICK k \in Nat : k = ROUND_UP(b.frac)
          BY DecimalTypes
        <5>2. q \notin 1 - j .. k
          OBVIOUS
        <5> QED
          BY <5>1, <5>2
      <4> QED
        BY <4>1, WordTypes
    <3>3. Positional(WordsIn(b, h, g), h + g) = Positional(WordsIn(b, j, g), j + g)
      BY <3>1, <3>2, Leading
    <3> QED
      BY <2>7, <3>1, <3>3
  <2>10. PICK q \in Nat, r \in Nat :
           r = A(t) /\ q = A(t + 1) /\ q = x * m + r /\ q <= P
    <3>1. LastWords(a, i, f, t)
      BY <1>2, LastWordsAre
    <3>2. PICK x1 \in Nat, p1 \in Nat, q1 \in Nat, r1 \in Nat, m1 \in Nat \ {0} :
            /\ x1 = Word(a, f - t)
            /\ p1 = Positional(WordsIn(a, t - f, f), t)
            /\ q1 = Positional(WordsIn(a, t + 1 - f, f), t + 1)
            /\ r1 = Positional(WordsIn(a, i, f), i + f)
            /\ m1 = Power(DIG_BASE, t)
            /\ q1 = x1 * m1 + p1
            /\ q1 <= r1
      BY <3>1, Zenon DEF LastWords
    <3>3. x1 = x /\ m1 = m /\ r1 = P
      BY <2>1, <2>7, <3>2
    <3> QED
      BY <3>2, <3>3
  <2> HIDE DEF A
  <2>11. q * Q = c * z + v
    <3>1. (x * m + r) * Q = (x * Q) * m + r * Q
      OBVIOUS
    <3>2. PICK s1 \in Nat, s2 \in Nat, s3 \in Nat, s4 \in Nat :
            s1 = (x * Q) * m /\ s2 = r * Q /\ s3 = q * Q /\ s4 = c * z
      <4>1. (x * Q) * m \in Nat /\ r * Q \in Nat /\ q * Q \in Nat /\ c * z \in Nat
        OBVIOUS
      <4> QED
        BY <4>1
    <3>3. u = s2 /\ u + s1 = s4 + v
      BY <2>3, <2>7, <2>9, <2>10, <3>2
    <3>4. s3 = s1 + s2
      BY <2>10, <3>1, <3>2
    <3> QED
      BY <3>2, <3>3, <3>4
  <2>12. c = 0
    <3>1. q * Q <= P * Q
      BY <2>10, MulMonotonic
    <3>2. z = N
      BY <1>3, <2>7
    <3>3. PICK s1 \in Nat, s2 \in Nat, s3 \in Nat : s1 = q * Q /\ s2 = P * Q /\ s3 = c * z
      <4>1. q * Q \in Nat /\ P * Q \in Nat /\ c * z \in Nat
        OBVIOUS
      <4> QED
        BY <4>1
    <3>4. s3 < z
      BY <1>3, <2>11, <3>1, <3>2, <3>3
    <3>5. c >= 1 => 1 * z <= c * z
      BY MulMonotonic
    <3>6. 1 * z = z
      OBVIOUS
    <3> QED
      BY <3>3, <3>4, <3>5, <3>6
  <2>13. v = q * Q
    <3>1. 0 * z = 0
      OBVIOUS
    <3>2. q * Q \in Int
      OBVIOUS
    <3> QED
      BY <2>11, <2>12, <3>1, <3>2
  <2>14. ~C(p)
    BY <2>2, <2>7, <2>12
  <2>15. \A r1 \in p .. f : ~C(r1)
    <3> HIDE DEF C
    <3>1. \A r1 \in p .. f : r1 = p \/ r1 \in p + 1 .. f
      OBVIOUS
    <3> QED
      BY <2>3, <2>14, <3>1
  <2>16. V(t + 1) = A(t + 1) * Q
    BY <2>1, <2>2, <2>7, <2>10, <2>13
  <2>17. IsRow(rows[f + 1 - (t + 1)], I, F)
    BY <2>1, <2>2, <2>8
  <2>18. \A r1 \in f + 1 - (t + 1) .. f : ~C(r1)
    <3> HIDE DEF C
    <3> QED
      BY <2>1, <2>15
  <2> HIDE DEF C, V
  <2> QED
    BY <2>16, <2>17, <2>18
<1> HIDE DEF K
<1>10. n \in K
  BY <1>8, <1>9, SetInduction
<1>11. /\ IsRow(rows[f + 1 - n], I, F)
       /\ V(n) = A(n) * Q
       /\ \A p \in f + 1 - n .. f : ~C(p)
  <2> HIDE DEF V, A, C
  <2> QED
    BY <1>10 DEF K
<1>12. f + 1 - n = 1 - i /\ n - f = i
  BY <1>2
<1>13. A(n) = P
  BY <1>2, <1>12
<1>14. RowValue(rows[1 - i], I, F) = P * Q
  <2> HIDE DEF A
  <2> QED
    BY <1>11, <1>12, <1>13
<1>15. \A p \in 1 - i .. f : ~CarryOut(rows[p + 1], a, p, b, kept, 1 - I)
  BY <1>11, <1>12
<1> QED
  BY <1>5, <1>11, <1>12, <1>14, <1>15 DEF RowsMade

LEMMA RoundUpSum ==
    ASSUME NEW m \in Int, NEW n \in Int,
           NEW x \in Int, NEW y \in Int, NEW z \in Int,
           x = ROUND_UP(m), y = ROUND_UP(n), z = ROUND_UP(m + n)
    PROVE  z <= x + y /\ x + y <= z + 1
<1>1. PICK D \in Nat \ {0} : D = DIG_PER_DEC1
  BY WordAssumption
<1>2. PICK xx \in Int, yy \in Int, zz \in Int, s \in Int :
        /\ xx = x * D /\ yy = y * D /\ zz = z * D /\ s = (x + y) * D /\ s = xx + yy
        /\ m <= xx /\ xx < m + D /\ n <= yy /\ yy < n + D /\ m + n <= zz /\ zz < (m + n) + D
  <2>1. /\ m <= x * D /\ x * D < m + D
        /\ n <= y * D /\ y * D < n + D
        /\ m + n <= z * D /\ z * D < (m + n) + D
    <3>1. m + n \in Int
      OBVIOUS
    <3> QED
      BY <1>1, <3>1, RoundUp
  <2>2. (x + y) * D = x * D + y * D /\ x * D \in Int /\ y * D \in Int /\ z * D \in Int
        /\ (x + y) * D \in Int
    OBVIOUS
  <2> QED
    BY <2>1, <2>2
<1>3. z <= x + y
  <2>1. PICK t \in Int : t = (x + y + 1) * D /\ t = s + D
    <3>1. (x + y + 1) * D = (x + y) * D + D /\ (x + y + 1) * D \in Int
      OBVIOUS
    <3> QED
      BY <1>2, <3>1
  <2>2. zz < t
    BY <1>2, <2>1
  <2>3. x + y + 1 \in Int
    OBVIOUS
  <2>4. z * D < (x + y + 1) * D
    BY <1>2, <2>1, <2>2
  <2>5. z < x + y + 1
    BY <2>3, <2>4, MulOrder
  <2> QED
    BY <2>5
<1>4. x + y <= z + 1
  <2>1. PICK t \in Int : t = (z + 2) * D /\ t = zz + 2 * D
    <3>1. (z + 2) * D = z * D + 2 * D /\ (z + 2) * D \in Int
      OBVIOUS
    <3> QED
      BY <1>2, <3>1
  <2>2. s < t
    BY <1>2, <2>1
  <2>3. x + y \in Int /\ z + 2 \in Int
    OBVIOUS
  <2>4. (x + y) * D < (z + 2) * D
    BY <1>2, <2>1, <2>2
  <2>5. x + y < z + 2
    BY <2>3, <2>4, MulOrder
  <2> QED
    BY <2>5
<1> QED
  BY <1>3, <1>4

(* A decimal has no more digits before the point than it says.             *)
LEMMA MantissaBound ==
    ASSUME NEW d \in Decimals
    PROVE  Mantissa(d) < Power(Radix, d.intg) * Power(DIG_BASE, ROUND_UP(d.frac))
<1>1. PICK D \in Nat \ {0, 1}, B \in Nat \ {0, 1}, R \in Nat \ {0, 1} :
        D = DIG_PER_DEC1 /\ B = DIG_BASE /\ DIG_MAX = B - 1 /\ R = Radix
  BY WordAssumption, Base
<1>2. PICK n \in Nat, i \in Nat, g \in Nat, w \in {d.buf} :
        n = d.intg /\ i = ROUND_UP(n) /\ g = ROUND_UP(d.frac) /\ w = d.buf
  BY DecimalTypes
<1>3. AreWords(w, i + g) /\ Len(w) = i + g /\ i + g \in Nat
  BY <1>2, DecimalTypes
<1>4. \A k \in 1 .. i + g : w[k] \in 0 .. B - 1
  BY <1>1, <1>3 DEF AreWords
<1>5. Mantissa(d) = Positional(w, i + g)
  BY <1>2, <1>3 DEF Mantissa
<1>6. PICK bg \in Nat \ {0} : bg = Power(DIG_BASE, g)
  BY <1>1, PowerPositive
<1>7. \A k \in Nat : Power(Radix, k * D) = Power(DIG_BASE, k)
  <2>1. ASSUME NEW k \in Nat PROVE Power(Radix, k * D) = Power(DIG_BASE, k)
    <3>1. Power(Power(R, D), k) = Power(R, D * k)
      BY PowerPower
    <3>2. D * k = k * D
      OBVIOUS
    <3> QED
      BY <1>1, <3>1, <3>2 DEF DIG_BASE
  <2> QED
    BY <2>1
<1>8. CASE n % D = 0
  <2>1. n = i * D
    BY <1>1, <1>2, <1>8, LastWordDigits
  <2>2. Power(Radix, n) = Power(DIG_BASE, i)
    BY <1>7, <2>1
  <2>3. Positional(w, i + g) < Power(DIG_BASE, i + g)
    BY <1>3, PositionalRange
  <2>4. Power(DIG_BASE, i + g) = Power(DIG_BASE, i) * Power(DIG_BASE, g)
    BY <1>1, PowerSum
  <2> QED
    BY <1>2, <1>5, <2>2, <2>3, <2>4
<1>9. CASE n % D # 0
  <2>1. PICK r \in Nat, j \in Nat : r = n % D /\ j = i - 1 /\ i = j + 1 /\ n = j * D + r
    <3>1. n % D \in Nat /\ n = (i - 1) * D + (n % D) /\ i >= 1
      BY <1>1, <1>2, <1>9, LastWordDigits
    <3> QED
      BY <3>1
  <2>2. PICK h \in Nat \ {0}, bj \in Nat \ {0}, b \in Nat \ {0} :
          h = Power(Radix, r) /\ bj = Power(DIG_BASE, j) /\ b = Power(DIG_BASE, j + g) /\ b = bj * bg
    <3>1. Power(Radix, r) \in Nat \ {0} /\ Power(DIG_BASE, j) \in Nat \ {0}
      BY <1>1, PowerPositive
    <3>2. Power(DIG_BASE, j + g) = Power(DIG_BASE, j) * Power(DIG_BASE, g)
      BY <1>1, PowerSum
    <3>3. j + g \in Nat
      OBVIOUS
    <3>4. Power(DIG_BASE, j + g) \in Nat \ {0}
      BY <1>1, <3>3, PowerPositive
    <3> QED
      BY <1>6, <3>1, <3>2, <3>4
  <2>3. Power(Radix, n) = bj * h
    <3>1. j * D \in Nat
      OBVIOUS
    <3>2. PICK jd \in Nat : jd = j * D
      BY <3>1
    <3>3. Power(Radix, jd + r) = Power(Radix, jd) * Power(Radix, r)
      BY <1>1, PowerSum
    <3>4. Power(Radix, jd) = bj
      BY <1>7, <2>2, <3>2
    <3> QED
      BY <2>1, <2>2, <3>2, <3>3, <3>4
  <2>4. PICK e \in Nat : e = j + g /\ i + g = e + 1
    BY <2>1
  <2>5. PICK t \in Nat : t = w[1] /\ t < h
    <3>1. w[1] < Power(Radix, n % D)
      <4>1. WordsOK(d)
        BY DEF Decimals
      <4>2. d.intg % DIG_PER_DEC1 # 0 => d.buf[1] < Power(Radix, d.intg % DIG_PER_DEC1)
        BY <4>1, Zenon DEF WordsOK
      <4> QED
        BY <1>1, <1>2, <1>9, <4>2
    <3>2. 1 \in 1 .. i + g
      BY <2>4
    <3>3. w[1] \in 0 .. B - 1
      BY <1>4, <3>2
    <3>4. w[1] < h
      BY <1>1, <2>1, <2>2, <3>1
    <3> QED
      BY ONLY <3>3, <3>4, B \in Nat
  <2>6. PICK v : v = [k \in 1 .. e |-> w[k + 1]]
    OBVIOUS
  <2>7. \A k \in 1 .. e : v[k] = w[k + 1] /\ v[k] \in 0 .. B - 1
    <3> SUFFICES ASSUME NEW k \in 1 .. e PROVE v[k] = w[k + 1] /\ v[k] \in 0 .. B - 1
      OBVIOUS
    <3>1. k + 1 \in 1 .. i + g
      BY <2>4
    <3> QED
      BY <1>4, <2>6, <3>1
  <2>8. PICK q \in Nat : q = Positional(v, e) /\ q < b
    <3>1. AreWords(v, e)
      BY <1>1, <2>7 DEF AreWords
    <3>2. e \in 0 .. e
      OBVIOUS
    <3>3. Positional(v, e) \in Nat /\ Positional(v, e) < Power(DIG_BASE, e)
      BY <3>1, <3>2, PositionalRange
    <3> QED
      BY <2>2, <2>4, <3>3
  <2>9. Positional(w, e + 1) = t * b + q
    <3>1. \A k \in 1 .. e + 1 : w[k] \in Int
      BY <1>4, <2>4
    <3>2. Positional(w, e + 1) = w[1] * Power(DIG_BASE, e) + Positional(v, e)
      BY <2>7, <3>1, PositionalFirst
    <3> QED
      BY <2>2, <2>4, <2>5, <2>8, <3>2
  <2>10. t * b + q < h * b
    <3>1. (t + 1) * b <= h * b
      <4>1. t + 1 \in Int /\ t + 1 <= h
        BY <2>5
      <4> QED
        BY <4>1, MulMonotonic
    <3>2. (t + 1) * b = t * b + b
      OBVIOUS
    <3>3. t * b \in Int /\ h * b \in Int
      OBVIOUS
    <3> QED
      BY <2>8, <3>1, <3>2, <3>3
  <2>11. (bj * h) * bg = h * b
    <3>1. (bj * h) * bg = h * (bj * bg)
      OBVIOUS
    <3> QED
      BY <2>2, <3>1
  <2> QED
    BY <1>2, <1>5, <1>6, <2>3, <2>4, <2>9, <2>10, <2>11
<1> QED
  BY <1>8, <1>9

(* A decimal and its words down to position f, which may be one before the *)
(* point.                                                                  *)
IsPart(d, i, f) ==
    \E p \in Nat, c \in Nat \ {0}, r \in Nat :
        /\ p = Positional(WordsIn(d, i, f), i + f)
        /\ c = Power(DIG_BASE, ROUND_UP(d.frac) - f)
        /\ Mantissa(d) = p * c + r
        /\ r < c

LEMMA Parts ==
    ASSUME NEW d \in Decimals, NEW i \in Nat, NEW f \in Int, i = ROUND_UP(d.intg),
           i + f \in Nat, f <= ROUND_UP(d.frac)
    PROVE  IsPart(d, i, f)
<1>1. PICK B \in Nat \ {0, 1} : B = DIG_BASE /\ DIG_MAX = B - 1
  BY Base
<1>2. PICK g \in Nat, m \in Nat, n \in Nat, w \in {d.buf} :
        /\ g = ROUND_UP(d.frac) /\ m = i + f /\ n = g - f /\ m + n = i + g /\ w = d.buf
  <2>1. ROUND_UP(d.frac) \in Nat
    BY DecimalTypes
  <2>2. PICK g \in Nat : g = ROUND_UP(d.frac)
    BY <2>1
  <2>3. g - f \in Nat /\ (i + f) + (g - f) = i + g
    BY <2>2
  <2> QED
    BY <2>2, <2>3
<1>3. AreWords(w, m + n) /\ Mantissa(d) = Positional(w, m + n)
  <2>1. AreWords(w, Len(w)) /\ Len(w) = i + g
    BY <1>2, DecimalTypes
  <2> QED
    BY <1>2, <2>1 DEF Mantissa
<1>4. \A k \in 1 .. m + n : w[k] \in 0 .. B - 1
  BY <1>1, <1>3 DEF AreWords
<1>5. PICK u, v : u = WordsIn(d, i, f) /\ v = [k \in 1 .. n |-> w[m + k]]
  OBVIOUS
<1>6. \A k \in 1 .. m : u[k] = w[k] /\ u[k] \in 0 .. B - 1
  <2> SUFFICES ASSUME NEW k \in 1 .. m PROVE u[k] = w[k] /\ u[k] \in 0 .. B - 1
    OBVIOUS
  <2>1. k \in 1 .. i + f /\ k - i \in Int /\ k \in 1 .. m + n
    BY <1>2
  <2>2. u[k] = Word(d, k - i)
    BY <1>5, <2>1 DEF WordsIn
  <2>3. k - i \in 1 - ROUND_UP(d.intg) .. ROUND_UP(d.frac)
    BY <1>2, <2>1
  <2>4. Word(d, k - i) = d.buf[(k - i) + ROUND_UP(d.intg)]
    BY <2>1, <2>3, WordTypes
  <2>5. (k - i) + ROUND_UP(d.intg) = k
    OBVIOUS
  <2> QED
    BY <1>2, <1>4, <2>1, <2>2, <2>4, <2>5
<1>7. \A k \in 1 .. n : v[k] = w[m + k] /\ v[k] \in 0 .. B - 1
  <2> SUFFICES ASSUME NEW k \in 1 .. n PROVE v[k] = w[m + k] /\ v[k] \in 0 .. B - 1
    OBVIOUS
  <2>1. m + k \in 1 .. m + n
    OBVIOUS
  <2> QED
    BY <1>4, <1>5, <2>1
<1>8. PICK p \in Nat, r \in Nat, c \in Nat \ {0} :
        p = Positional(u, m) /\ r = Positional(v, n) /\ c = Power(DIG_BASE, n) /\ r < c
  <2>1. AreWords(u, m) /\ AreWords(v, n)
    BY <1>1, <1>6, <1>7 DEF AreWords
  <2>2. m \in 0 .. m /\ n \in 0 .. n
    OBVIOUS
  <2>3. /\ Positional(u, m) \in Nat /\ Positional(v, n) \in Nat
        /\ Positional(v, n) < Power(DIG_BASE, n)
    BY <2>1, <2>2, PositionalRange
  <2>4. Power(DIG_BASE, n) \in Nat \ {0}
    BY <1>1, PowerPositive
  <2> QED
    BY <2>3, <2>4
<1>9. Positional(w, m + n) = p * c + r
  <2>1. \A k \in 1 .. m + n : w[k] \in Int
    BY <1>4
  <2>2. Positional(w, m + n) = Positional(w, m) * Power(DIG_BASE, n) + Positional(v, n)
    BY <1>7, <2>1, PositionalSplit
  <2>3. Positional(u, m) = Positional(w, m)
    <3>1. \A k \in 1 .. m : w[k] \in Int /\ u[k] = w[k]
      BY <1>4, <1>6
    <3> QED
      BY <3>1, PositionalSame
  <2> QED
    BY <1>8, <2>2, <2>3
<1>10. /\ p = Positional(WordsIn(d, i, f), i + f)
       /\ c = Power(DIG_BASE, ROUND_UP(d.frac) - f)
       /\ Mantissa(d) = p * c + r
       /\ r < c
  BY <1>2, <1>3, <1>5, <1>8, <1>9
<1> QED
  BY <1>10 DEF IsPart

(* What decimal_mul() keeps when the factors fit.                          *)
KeptAre(kept, fix, a, b, i, j, m, n, f, g, I, F, e, h) ==
    /\ i = ROUND_UP(a.intg) /\ j = ROUND_UP(b.intg)
    /\ m = ROUND_UP(a.frac) /\ n = ROUND_UP(b.frac)
    /\ I = ROUND_UP(a.intg + b.intg) /\ I <= i + j /\ i + j <= I + 1
    /\ fix.intg = I /\ fix.frac = F /\ I + F <= DECIMAL_BUFF_LENGTH
    /\ kept.intg1 = i /\ kept.intg2 = j /\ kept.frac1 = f /\ kept.frac2 = g
    /\ i + f \in Nat /\ j + g \in Nat /\ f <= m /\ g <= n /\ F = f + g
    /\ e = (m + n) - F /\ h = (e + 1) \div 2 /\ m - f <= h /\ n - g <= h
    /\ fix.error = E_DEC_OK => e = 0
    /\ fix.error # E_DEC_OK => e >= 1 /\ e = (I + m + n) - DECIMAL_BUFF_LENGTH
    /\ e = 1 => (f = m /\ g = n - 1) \/ (f = m - 1 /\ g = n)

KeptWords(kept, fix, a, b) ==
    \E i \in Nat, j \in Nat, m \in Nat, n \in Nat, f \in Int, g \in Int,
       I \in Nat, F \in Nat, e \in Nat, h \in Nat :
        KeptAre(kept, fix, a, b, i, j, m, n, f, g, I, F, e, h)

LEMMA KeptIs ==
    ASSUME NEW a \in Decimals, NEW b \in Decimals, Fits(a), Fits(b),
           NEW fix, fix = MulFix(a, b), fix.error # E_DEC_OVERFLOW
    PROVE  KeptWords(Kept(a, b, fix), fix, a, b)
<1>1. PICK i \in Nat, j \in Nat, m \in Nat, n \in Nat, N \in Nat :
        /\ i = ROUND_UP(a.intg) /\ j = ROUND_UP(b.intg)
        /\ m = ROUND_UP(a.frac) /\ n = ROUND_UP(b.frac)
        /\ N = DECIMAL_BUFF_LENGTH /\ i + m <= N /\ j + n <= N
  BY DecimalTypes, FracFits DEF Fits
<1>2. PICK I \in Nat : I = ROUND_UP(a.intg + b.intg) /\ I <= i + j /\ i + j <= I + 1
  <2>1. a.intg \in Nat /\ b.intg \in Nat
    BY DecimalTypes
  <2>2. PICK x \in Nat, y \in Nat : x = a.intg /\ y = b.intg
    BY <2>1
  <2>3. x + y \in Int /\ x + y >= 0 /\ ROUND_UP(x + y) \in Nat
    <3>1. x + y \in Int /\ x + y >= 0
      OBVIOUS
    <3> QED
      BY <3>1, RoundUp
  <2>4. PICK I \in Nat : I = ROUND_UP(x + y)
    BY <2>3
  <2>5. I <= i + j /\ i + j <= I + 1
    <3>1. i = ROUND_UP(x) /\ j = ROUND_UP(y)
      BY <1>1, <2>2
    <3>2. x \in Int /\ y \in Int /\ i \in Int /\ j \in Int /\ I \in Int
      OBVIOUS
    <3> QED
      BY ONLY <2>4, <3>1, <3>2, RoundUpSum
  <2> QED
    BY <2>2, <2>4, <2>5
<1>3. fix = FixIntgFrac(I, m + n) /\ m + n \in Nat
  BY <1>1, <1>2 DEF MulFix
<1>4. PICK F \in Nat, e \in Nat :
        /\ fix.intg = I /\ fix.frac = F /\ I + F <= N
        /\ e = (m + n) - F
        /\ fix.error = E_DEC_OK => e = 0
        /\ fix.error # E_DEC_OK => e >= 1 /\ e = (I + m + n) - N
  <2>1. CASE I + (m + n) <= N
    <3>1. fix = [intg |-> I, frac |-> m + n, error |-> E_DEC_OK]
      BY <1>1, <1>3, <2>1, FixIs
    <3>2. fix.intg = I /\ fix.frac = m + n /\ fix.error = E_DEC_OK
      BY <3>1
    <3> QED
      BY <2>1, <3>2
  <2>2. CASE I <= N /\ I + (m + n) > N
    <3>1. fix = [intg |-> I, frac |-> N - I, error |-> E_DEC_TRUNCATED]
      BY <1>1, <1>3, <2>2, FixIs
    <3>2. fix.intg = I /\ fix.frac = N - I /\ fix.error = E_DEC_TRUNCATED
      BY <3>1
    <3>3. fix.error # E_DEC_OK
      BY <3>2 DEF E_DEC_OK, E_DEC_TRUNCATED
    <3>4. N - I \in Nat /\ (m + n) - (N - I) \in Nat /\ (m + n) - (N - I) >= 1
          /\ (m + n) - (N - I) = (I + m + n) - N /\ I + (N - I) <= N
      BY <2>2
    <3> QED
      BY <3>2, <3>3, <3>4
  <2>3. CASE I > N
    <3>1. fix = [intg |-> N, frac |-> 0, error |-> E_DEC_OVERFLOW]
      BY <1>1, <1>3, <2>3, FixIs
    <3> QED
      BY <3>1
  <2> QED
    BY <2>1, <2>2, <2>3
<1>5. PICK q \in Nat, h \in Nat : q = e \div 2 /\ h = (e + 1) \div 2 /\ h = e - q /\ q <= h /\ h <= e
  <2>1. e \div 2 \in Nat /\ (e + 1) \div 2 \in Nat /\ (e + 1) \div 2 = e - (e \div 2)
        /\ e \div 2 <= (e + 1) \div 2 /\ (e + 1) \div 2 <= e
    OBVIOUS
  <2> QED
    BY <2>1
<1> DEFINE fewer == IF m <= n THEN q ELSE h
<1>6. Kept(a, b, fix) = [intg1 |-> i, intg2 |-> j, frac1 |-> m - fewer, frac2 |-> n - (e - fewer)]
  <2>1. /\ ROUND_UP(a.intg + b.intg) - fix.intg = 0
        /\ ROUND_UP(a.frac) + ROUND_UP(b.frac) - fix.frac = e
    BY <1>1, <1>2, <1>4
  <2>2. ~(0 > 0)
    OBVIOUS
  <2>3. Kept(a, b, fix)
          = [intg1 |-> ROUND_UP(a.intg), intg2 |-> ROUND_UP(b.intg),
             frac1 |-> ROUND_UP(a.frac)
                        - (IF ROUND_UP(a.frac) <= ROUND_UP(b.frac) THEN e \div 2 ELSE e - (e \div 2)),
             frac2 |-> ROUND_UP(b.frac)
                        - (e - (IF ROUND_UP(a.frac) <= ROUND_UP(b.frac) THEN e \div 2 ELSE e - (e \div 2)))]
    BY <2>1, <2>2, Zenon DEF Kept
  <2>4. q = e \div 2 /\ h = e - (e \div 2)
    BY <1>5
  <2> QED
    BY <1>1, <2>3, <2>4, Zenon
<1>7. PICK f \in Int, g \in Int :
        /\ Kept(a, b, fix) = [intg1 |-> i, intg2 |-> j, frac1 |-> f, frac2 |-> g]
        /\ (m <= n /\ f = m - q /\ g = n - h) \/ (~(m <= n) /\ f = m - h /\ g = n - q)
  <2>1. fewer = q \/ fewer = h
    OBVIOUS
  <2>2. m - fewer \in Int /\ n - (e - fewer) \in Int
    BY <2>1
  <2>3. \/ m <= n /\ m - fewer = m - q /\ n - (e - fewer) = n - h
        \/ ~(m <= n) /\ m - fewer = m - h /\ n - (e - fewer) = n - q
    BY <1>5
  <2> HIDE DEF fewer
  <2> QED
    BY <1>6, <2>2, <2>3
<1>8. e = 0 \/ (e <= i + m /\ e <= j + n)
  <2>1. fix.error # E_DEC_OK => e = (I + m + n) - N
    BY <1>4
  <2> QED
    BY <1>1, <1>2, <1>4, <2>1
<1>9. /\ i + f \in Nat /\ j + g \in Nat /\ f <= m /\ g <= n /\ F = f + g
      /\ m - f <= h /\ n - g <= h
      /\ e = 1 => (f = m /\ g = n - 1) \/ (f = m - 1 /\ g = n)
  <2>1. e = 1 => h = 1 /\ q = 0
    BY <1>5
  <2>2. CASE m <= n /\ f = m - q /\ g = n - h
    BY <1>4, <1>5, <1>8, <2>1, <2>2
  <2>3. CASE ~(m <= n) /\ f = m - h /\ g = n - q
    BY <1>4, <1>5, <1>8, <2>1, <2>3
  <2> QED
    BY <1>7, <2>2, <2>3
<1>10. PICK kept : kept = Kept(a, b, fix)
  OBVIOUS
<1>11. kept.intg1 = i /\ kept.intg2 = j /\ kept.frac1 = f /\ kept.frac2 = g
  BY <1>7, <1>10
<1>12. KeptWords(kept, fix, a, b)
  <2>1. KeptAre(kept, fix, a, b, i, j, m, n, f, g, I, F, e, h)
    BY <1>1, <1>2, <1>4, <1>5, <1>9, <1>11 DEF KeptAre
  <2> QED
    BY <2>1, Zenon DEF KeptWords
<1> QED
  BY <1>10, <1>12

(* A product without the zero words at its ends is the same number.        *)
TrimmedTo(e, sign, I, F, s, f, c, m) ==
    /\ e \in Decimals
    /\ e.sign = sign
    /\ s <= I /\ f <= F /\ c = Power(DIG_BASE, F - f)
    /\ ROUND_UP(e.intg) = I - s
    /\ ROUND_UP(e.frac) = f
    /\ m = Mantissa(e) * c

IsTrimmed(e, sign, I, F, m) ==
    \E s \in Nat, f \in Nat, c \in Nat \ {0} : TrimmedTo(e, sign, I, F, s, f, c, m)

LEMMA TrimmedIs ==
    ASSUME NEW sign \in BOOLEAN, NEW I \in Nat, NEW F \in Nat, NEW frac \in Nat,
           NEW g \in Nat, g = ROUND_UP(frac), g <= F,
           NEW w \in [1 .. I + F -> 0 .. DIG_MAX], \A k \in I + g + 1 .. I + F : w[k] = 0,
           frac % DIG_PER_DEC1 # 0 =>
             w[I + g] % Power(Radix, DIG_PER_DEC1 - (frac % DIG_PER_DEC1)) = 0,
           NEW d, d = [sign |-> sign, intg |-> I * DIG_PER_DEC1, frac |-> frac, buf |-> w]
    PROVE  IsTrimmed(Trimmed(d), sign, I, F, Positional(w, I + F))
<1>1. PICK D \in Nat \ {0}, B \in Nat \ {0, 1} : D = DIG_PER_DEC1 /\ B = DIG_BASE /\ DIG_MAX = B - 1
  BY WordAssumption, Base
<1>2. PICK n \in Nat, ID \in Nat : n = I + F /\ ID = I * DIG_PER_DEC1 /\ ROUND_UP(ID) = I
  <2>1. I + F \in Nat /\ I * D \in Nat
    OBVIOUS
  <2>2. ROUND_UP(I * DIG_PER_DEC1) = I
    BY RoundUpWords
  <2> QED
    BY <1>1, <2>1, <2>2
<1>3. d.sign = sign /\ d.intg = ID /\ d.frac = frac /\ d.buf = w
  BY <1>2
<1>4. \A k \in 1 .. n : w[k] \in 0 .. B - 1
  BY <1>1, <1>2
<1>5. \A p \in 1 .. g : Word(d, p) = w[I + p]
  <2> SUFFICES ASSUME NEW p \in 1 .. g PROVE Word(d, p) = w[I + p]
    OBVIOUS
  <2>1. p + I = I + p /\ I + p \in 1 .. n /\ DOMAIN w = 1 .. n
    BY <1>2
  <2> QED
    BY <1>2, <1>3, <2>1 DEF Word
<1>6. PICK f \in Nat : /\ f = Max({0} \cup {p \in 1 .. ROUND_UP(d.frac) : Word(d, p) # 0})
                       /\ f <= g
                       /\ \A p \in f + 1 .. g : w[I + p] = 0
  <2> DEFINE S == {0} \cup {p \in 1 .. ROUND_UP(d.frac) : Word(d, p) # 0}
  <2>1. S = {0} \cup {p \in 1 .. g : Word(d, p) # 0}
    BY <1>3
  <2>2. S \subseteq 0 .. g /\ S # {} /\ \A p \in 1 .. g : Word(d, p) # 0 => p \in S
    BY <2>1
  <2> HIDE DEF S
  <2>3. S \subseteq Int /\ \A y \in S : y <= g
    BY <2>2
  <2>4. Max(S) \in S /\ \A y \in S : y <= Max(S)
    <3>1. g \in Int
      OBVIOUS
    <3> QED
      BY ONLY <2>2, <2>3, <3>1, Greatest
  <2>5. PICK f \in Nat : f = Max(S) /\ f <= g
    <3>1. Max(S) \in 0 .. g
      BY ONLY <2>2, <2>4
    <3> QED
      BY <3>1
  <2>6. ASSUME NEW p \in f + 1 .. g PROVE w[I + p] = 0
    <3>1. p \in 1 .. g /\ ~(p <= f)
      OBVIOUS
    <3>2. Word(d, p) = 0
      BY <2>2, <2>4, <2>5, <3>1
    <3> QED
      BY <1>5, <3>1, <3>2
  <2> QED
    BY <2>5, <2>6 DEF S
<1>7. PICK s \in Nat : /\ s = Max({k \in 0 .. ROUND_UP(d.intg) :
                                     /\ k = 0 \/ k < ROUND_UP(d.intg)
                                     /\ \A i \in 1 .. k : d.buf[i] = 0})
                       /\ s <= I
                       /\ \A i \in 1 .. s : w[i] = 0
  <2> DEFINE S == {k \in 0 .. ROUND_UP(d.intg) :
                     /\ k = 0 \/ k < ROUND_UP(d.intg)
                     /\ \A i \in 1 .. k : d.buf[i] = 0}
  <2>1. /\ S \subseteq 0 .. I /\ S \subseteq Int /\ (\A y \in S : y <= I) /\ S # {}
        /\ \A k \in S : \A i \in 1 .. k : w[i] = 0
    <3>1. ROUND_UP(d.intg) = I /\ d.buf = w
      BY <1>2, <1>3
    <3>2. 0 \in S
      BY <3>1
    <3>3. S \subseteq 0 .. I
      BY <3>1
    <3>4. \A k \in S : \A i \in 1 .. k : w[i] = 0
      BY <3>1
    <3> HIDE DEF S
    <3>5. S \subseteq Int /\ (\A y \in S : y <= I) /\ S # {}
      BY ONLY <3>2, <3>3, I \in Nat
    <3> QED
      BY <3>3, <3>4, <3>5
  <2> HIDE DEF S
  <2>2. Max(S) \in S
    <3>1. I \in Int
      OBVIOUS
    <3> QED
      BY ONLY <2>1, <3>1, Greatest
  <2>3. PICK s \in Nat : s = Max(S) /\ s <= I /\ s \in S
    <3>1. Max(S) \in 0 .. I
      BY ONLY <2>1, <2>2
    <3> QED
      BY <2>2, <3>1
  <2>4. \A i \in 1 .. s : w[i] = 0
    BY <2>1, <2>3
  <2> QED
    BY <2>3, <2>4 DEF S
<1>8. PICK e : e = Trimmed(d)
  OBVIOUS
<1>9. PICK v : v = SubSeq(w, s + 1, I + f)
  OBVIOUS
<1> DEFINE fr == IF f = g THEN frac ELSE f * DIG_PER_DEC1
<1>10. e = [sign |-> sign, intg |-> ID - s * DIG_PER_DEC1, frac |-> fr, buf |-> v]
  <2>1. e = [d EXCEPT !.intg = @ - s * DIG_PER_DEC1,
                      !.frac = IF f = ROUND_UP(@) THEN @ ELSE f * DIG_PER_DEC1,
                      !.buf  = SubSeq(@, s + 1, ROUND_UP(d.intg) + f)]
    BY <1>6, <1>7, <1>8, Zenon DEF Trimmed
  <2>2. ROUND_UP(d.intg) = I /\ ROUND_UP(frac) = g
    BY <1>2, <1>3
  <2>3. d = [sign |-> sign, intg |-> ID, frac |-> frac, buf |-> w]
    BY <1>2
  <2>4. e = [d EXCEPT !.intg = ID - s * DIG_PER_DEC1, !.frac = fr, !.buf = v]
    <3>1. /\ d.intg - s * DIG_PER_DEC1 = ID - s * DIG_PER_DEC1
          /\ (IF f = ROUND_UP(d.frac) THEN d.frac ELSE f * DIG_PER_DEC1) = fr
          /\ SubSeq(d.buf, s + 1, ROUND_UP(d.intg) + f) = v
      BY <1>3, <1>9, <2>2, Zenon
    <3> QED
      BY <2>1, <3>1, Zenon
  <2> HIDE DEF fr
  <2>5. e = [[sign |-> sign, intg |-> ID, frac |-> frac, buf |-> w]
               EXCEPT !.intg = ID - s * DIG_PER_DEC1, !.frac = fr, !.buf = v]
    BY <2>3, <2>4, Zenon
  <2> QED
    BY ONLY <2>5
<1>11. PICK t \in Nat : t = I - s /\ I = s + t /\ ROUND_UP(ID - s * DIG_PER_DEC1) = t
                        /\ ID - s * DIG_PER_DEC1 \in Nat
                        /\ (ID - s * DIG_PER_DEC1) % DIG_PER_DEC1 = 0
  <2>1. PICK t \in Nat : t = I - s /\ I = s + t
    <3>1. I - s \in Nat /\ I = s + (I - s)
      BY <1>7
    <3> QED
      BY <3>1
  <2>2. ID - s * D = t * D /\ t * D \in Nat
    <3>1. (s + t) * D = s * D + t * D
      OBVIOUS
    <3>2. ID = (s + t) * D
      BY <1>1, <1>2, <2>1
    <3>3. s * D \in Int /\ t * D \in Nat
      OBVIOUS
    <3> QED
      BY <3>1, <3>2, <3>3
  <2>3. ROUND_UP(t * DIG_PER_DEC1) = t /\ (t * DIG_PER_DEC1) % DIG_PER_DEC1 = 0
    BY RoundUpWords, WholeWords
  <2> QED
    BY <1>1, <2>1, <2>2, <2>3
<1>12. fr \in Nat /\ ROUND_UP(fr) = f /\ (fr % DIG_PER_DEC1 # 0 => f = g /\ fr = frac)
  <2>1. CASE f = g
    BY <2>1
  <2>2. CASE f # g
    <3>1. ROUND_UP(f * DIG_PER_DEC1) = f /\ (f * DIG_PER_DEC1) % DIG_PER_DEC1 = 0
      BY RoundUpWords, WholeWords
    <3>2. f * DIG_PER_DEC1 \in Nat
      BY <1>1
    <3> QED
      BY <2>2, <3>1, <3>2
  <2> QED
    BY <2>1, <2>2
<1> HIDE DEF fr
<1>13. v \in Seq(0 .. DIG_MAX) /\ Len(v) = t + f /\ \A k \in 1 .. t + f : v[k] = w[s + k]
  <2>1. \A k \in s + 1 .. I + f : w[k] \in 0 .. DIG_MAX
    <3>1. \A k \in s + 1 .. I + f : k \in 1 .. I + F
      BY <1>6
    <3> QED
      BY <3>1
  <2>2. s + 1 \in Int /\ I + f \in Int
    OBVIOUS
  <2>3. PICK x \in Int, y \in Int : x = s + 1 /\ y = I + f
    BY <2>2
  <2>4. /\ SubSeq(w, x, y) \in Seq(0 .. DIG_MAX)
        /\ Len(SubSeq(w, x, y)) = IF x <= y THEN y - x + 1 ELSE 0
        /\ \A k \in 1 .. y - x + 1 : SubSeq(w, x, y)[k] = w[x + k - 1]
    <3>1. \A k \in x .. y : w[k] \in 0 .. DIG_MAX
      BY <2>1, <2>3
    <3> QED
      BY <3>1, SubSeqProperties
  <2>5. (IF x <= y THEN y - x + 1 ELSE 0) = t + f /\ y - x + 1 = t + f
    BY <1>11, <2>3
  <2>6. \A k \in 1 .. t + f : x + k - 1 = s + k
    BY <2>3
  <2> QED
    BY <1>9, <2>3, <2>4, <2>5, <2>6
<1>14. /\ e.sign = sign /\ e.intg = ID - s * DIG_PER_DEC1 /\ e.frac = fr /\ e.buf = v
       /\ e \in [sign : BOOLEAN, intg : Nat, frac : Nat, buf : Seq(0 .. DIG_MAX)]
  BY <1>10, <1>11, <1>12, <1>13
<1>15. e \in Decimals
  <2>1. Len(e.buf) = ROUND_UP(e.intg) + ROUND_UP(e.frac)
    BY <1>11, <1>12, <1>13, <1>14
  <2>2. \A k \in DOMAIN e.buf : e.buf[k] \in 0 .. DIG_MAX
    <3>1. DOMAIN v = 1 .. t + f
      BY <1>13
    <3>2. \A k \in 1 .. t + f : v[k] \in 0 .. DIG_MAX
      <4>1. \A k \in 1 .. t + f : s + k \in 1 .. I + F
        BY <1>6, <1>11
      <4> QED
        BY <1>13, <4>1
    <3> QED
      BY <1>14, <3>1, <3>2
  <2>3. e.intg % DIG_PER_DEC1 = 0
    BY <1>11, <1>14
  <2>4. e.frac % DIG_PER_DEC1 # 0 =>
          Last(e.buf) % Power(Radix, DIG_PER_DEC1 - (e.frac % DIG_PER_DEC1)) = 0
    <3> SUFFICES ASSUME e.frac % DIG_PER_DEC1 # 0
                 PROVE  Last(e.buf) % Power(Radix, DIG_PER_DEC1 - (e.frac % DIG_PER_DEC1)) = 0
      OBVIOUS
    <3>1. f = g /\ e.frac = frac /\ frac % DIG_PER_DEC1 # 0
      BY <1>12, <1>14
    <3>2. g >= 1
      BY <3>1, LastWordDigits
    <3>3. Last(e.buf) = v[t + f]
      BY <1>13, <1>14 DEF Last
    <3>4. t + f \in 1 .. t + f /\ s + (t + f) = I + g
      <4>1. I = s + t /\ f = g
        BY <1>11, <3>1
      <4> QED
        BY ONLY <3>2, <4>1, s \in Nat, t \in Nat, f \in Nat, g \in Nat
    <3>5. v[t + f] = w[I + g]
      BY <1>13, <3>4
    <3>6. w[I + g] % Power(Radix, DIG_PER_DEC1 - (frac % DIG_PER_DEC1)) = 0
      BY <3>1
    <3> QED
      BY ONLY <3>1, <3>3, <3>5, <3>6
  <2>5. WordsOK(e)
    BY <2>1, <2>2, <2>3, <2>4 DEF WordsOK
  <2> QED
    BY <1>14, <2>5 DEF Decimals
<1>16. PICK c \in Nat \ {0}, q \in Nat, l \in Nat :
         c = Power(DIG_BASE, q) /\ q = F - f /\ l = I + f /\ n = l + q /\ l = s + (t + f)
  <2>1. F - f \in Nat /\ I + f \in Nat /\ n = (I + f) + (F - f) /\ I + f = s + (t + f)
    BY <1>2, <1>6, <1>11
  <2>2. Power(DIG_BASE, F - f) \in Nat \ {0}
    BY <1>1, <2>1, PowerPositive
  <2> QED
    BY <2>1, <2>2
<1>17. Positional(w, l + q) = Positional(w, l) * c
  <2>1. PICK z : z = [k \in 1 .. q |-> w[l + k]]
    OBVIOUS
  <2>2. \A k \in 1 .. q : z[k] = w[l + k] /\ z[k] = 0
    <3> SUFFICES ASSUME NEW k \in 1 .. q PROVE z[k] = w[l + k] /\ w[l + k] = 0
      OBVIOUS
    <3>1. z[k] = w[l + k]
      BY <2>1
    <3>2. CASE k <= g - f
      <4>1. f + k \in f + 1 .. g /\ I + (f + k) = l + k
        BY <1>16, <3>2
      <4> QED
        BY <1>6, <3>1, <4>1
    <3>3. CASE k > g - f
      <4>1. l + k \in I + g + 1 .. I + F
        BY <1>16, <3>3
      <4> QED
        BY <3>1, <4>1
    <3> QED
      BY <3>2, <3>3
  <2>3. Positional(z, q) = 0
    BY <2>2, PositionalZeros
  <2>4. \A k \in 1 .. l + q : w[k] \in Int
    BY <1>4, <1>16
  <2>5. Positional(w, l + q) = Positional(w, l) * Power(DIG_BASE, q) + Positional(z, q)
    <3>1. \A k \in 1 .. q : z[k] = w[l + k]
      BY <2>2
    <3> QED
      BY ONLY <2>4, <3>1, l \in Nat, q \in Nat, PositionalSplit
  <2>6. Positional(w, l) * c \in Int
    <3>1. Positional(w, l) \in Int
      <4>1. l \in 0 .. l + q /\ l + q \in Nat
        OBVIOUS
      <4> QED
        BY <2>4, <4>1, Positionals
    <3> QED
      BY <3>1
  <2> QED
    BY <1>16, <2>3, <2>5, <2>6
<1>18. Positional(w, l) = Positional(v, t + f)
  <2>1. PICK r \in Nat : r = t + f /\ l = s + r
    BY <1>16
  <2>2. \A k \in 1 .. s + r : w[k] \in Int
    BY <1>4, <1>16, <2>1
  <2>3. \A k \in 1 .. r : v[k] = w[s + k]
    BY <1>13, <2>1
  <2>4. Positional(w, s + r) = Positional(w, s) * Power(DIG_BASE, r) + Positional(v, r)
    <3>1. PICK ww, vv : ww = w /\ vv = v
      OBVIOUS
    <3>2. PICK aa \in Nat, bb \in Nat : aa = s /\ bb = r
      OBVIOUS
    <3>3. /\ \A k \in 1 .. aa + bb : ww[k] \in Int
          /\ \A k \in 1 .. bb : vv[k] = ww[aa + k]
      BY ONLY <2>2, <2>3, <3>1, <3>2
    <3>4. Positional(ww, aa + bb) = Positional(ww, aa) * Power(DIG_BASE, bb) + Positional(vv, bb)
      BY ONLY <3>3, aa \in Nat, bb \in Nat, PositionalSplit
    <3> QED
      BY ONLY <3>1, <3>2, <3>4
  <2>5. Positional(w, s) = 0
    BY <1>7, PositionalZeros
  <2>6. Power(DIG_BASE, r) \in Int
    BY <1>1, PowerPositive
  <2>7. 0 * Power(DIG_BASE, r) = 0
    BY <2>6
  <2>8. Positional(v, r) \in Int
    <3>1. \A k \in 1 .. r : v[k] \in Int
      <4>1. \A k \in 1 .. r : s + k \in 1 .. s + r
        OBVIOUS
      <4> QED
        BY <2>2, <2>3, <4>1
    <3>2. r \in 0 .. r
      OBVIOUS
    <3> QED
      BY <3>1, <3>2, Positionals
  <2> QED
    BY <2>1, <2>4, <2>5, <2>7, <2>8
<1>19. Mantissa(e) = Positional(v, t + f)
  BY <1>13, <1>14 DEF Mantissa
<1>20. TrimmedTo(e, sign, I, F, s, f, c, Positional(w, I + F))
  <2>1. Positional(w, I + F) = Mantissa(e) * c
    BY <1>2, <1>16, <1>17, <1>18, <1>19
  <2>2. s <= I /\ f <= F /\ c = Power(DIG_BASE, F - f)
    BY <1>6, <1>7, <1>16
  <2>3. ROUND_UP(e.intg) = I - s /\ ROUND_UP(e.frac) = f
    BY <1>11, <1>12, <1>14
  <2> QED
    BY <1>14, <1>15, <2>1, <2>2, <2>3 DEF TrimmedTo
<1> QED
  BY <1>8, <1>20, Zenon DEF IsTrimmed

(* What is lost of a product of factors that lost less than c and d.       *)
Loses(P, Q, c, d, r, s, k, x, y) ==
    \E l \in Nat : /\ x * y = (P * Q) * (c * d) + l
                   /\ l <= (x + y) * k
                   /\ r = 0 /\ s = 0 => l = 0

LEMMA LostIs ==
    ASSUME NEW P \in Nat, NEW Q \in Nat, NEW c \in Nat \ {0}, NEW d \in Nat \ {0},
           NEW r \in Nat, NEW s \in Nat, r < c, s < d, NEW k \in Nat, c <= k, d <= k,
           NEW x \in Nat, NEW y \in Nat, x = P * c + r, y = Q * d + s
    PROVE  Loses(P, Q, c, d, r, s, k, x, y)
<1>1. PICK p \in Nat, q \in Nat : p = P * c /\ q = Q * d /\ x = p + r /\ y = q + s
  <2>1. P * c \in Nat /\ Q * d \in Nat
    OBVIOUS
  <2> QED
    BY <2>1
<1>2. PICK u \in Nat, v \in Nat, w \in Nat : u = p * q /\ v = p * s /\ w = r * y
  <2>1. p * q \in Nat /\ p * s \in Nat /\ r * y \in Nat
    OBVIOUS
  <2> QED
    BY <2>1
<1>3. x * y = u + v + w
  <2>1. (p + r) * y = p * y + r * y
    OBVIOUS
  <2>2. p * (q + s) = p * q + p * s
    OBVIOUS
  <2>3. p * y = u + v
    BY <1>1, <1>2, <2>2
  <2> QED
    BY <1>1, <1>2, <2>1, <2>3
<1>4. u = (P * Q) * (c * d)
  <2>1. (P * c) * (Q * d) = (P * Q) * (c * d)
    OBVIOUS
  <2> QED
    BY <1>1, <1>2, <2>1
<1>5. v <= x * k /\ w <= y * k
  <2>1. p * s <= x * s /\ s * x <= k * x /\ r * y <= k * y
    <3>1. p <= x /\ s <= k /\ r <= k
      BY <1>1
    <3> QED
      BY <3>1, MulMonotonic
  <2>2. s * x = x * s /\ k * x = x * k /\ k * y = y * k
    OBVIOUS
  <2>3. PICK z1 \in Int, z2 \in Int, z3 \in Int : z1 = x * s /\ z2 = x * k /\ z3 = y * k
    OBVIOUS
  <2> QED
    BY <1>2, <2>1, <2>2, <2>3
<1>6. v + w <= (x + y) * k
  <2>1. (x + y) * k = x * k + y * k
    OBVIOUS
  <2>2. PICK z2 \in Int, z3 \in Int : z2 = x * k /\ z3 = y * k
    OBVIOUS
  <2> QED
    BY <1>5, <2>1, <2>2
<1>7. r = 0 /\ s = 0 => v + w = 0
  <2>1. p * 0 = 0 /\ 0 * y = 0
    OBVIOUS
  <2> QED
    BY <1>2, <2>1
<1>8. PICK l \in Nat : l = v + w
  OBVIOUS
<1>9. x * y = (P * Q) * (c * d) + l
  BY <1>3, <1>4, <1>8
<1>10. l <= (x + y) * k /\ (r = 0 /\ s = 0 => l = 0)
  BY <1>6, <1>7, <1>8
<1> QED
  BY <1>9, <1>10, Zenon DEF Loses

(* The product of the kept words, what it is short of the product of the   *)
(* factors, and that there is room for it.                                 *)
ProductIs(P, Q, x, y, l, c, k, a, b, i, j, f, g, I, F, e, h) ==
    /\ P = Positional(WordsIn(a, i, f), i + f) /\ Q = Positional(WordsIn(b, j, g), j + g)
    /\ x = Mantissa(a) /\ y = Mantissa(b)
    /\ c = Power(DIG_BASE, e) /\ k = Power(DIG_BASE, h)
    /\ x * y = (P * Q) * c + l
    /\ l <= (x + y) * k
    /\ e = 0 => l = 0
    /\ P * Q < Power(DIG_BASE, I + F)

IsProduct(a, b, i, j, f, g, I, F, e, h) ==
    \E P \in Nat, Q \in Nat, x \in Nat, y \in Nat, l \in Nat, c \in Nat \ {0}, k \in Nat \ {0} :
        ProductIs(P, Q, x, y, l, c, k, a, b, i, j, f, g, I, F, e, h)

LEMMA ProductOf ==
    ASSUME NEW a \in Decimals, NEW b \in Decimals, NEW kept, NEW fix,
           NEW i \in Nat, NEW j \in Nat, NEW m \in Nat, NEW n \in Nat, NEW f \in Int, NEW g \in Int,
           NEW I \in Nat, NEW F \in Nat, NEW e \in Nat, NEW h \in Nat,
           KeptAre(kept, fix, a, b, i, j, m, n, f, g, I, F, e, h)
    PROVE  IsProduct(a, b, i, j, f, g, I, F, e, h)
<1>1. PICK B \in Nat \ {0, 1}, R \in Nat \ {0, 1}, D \in Nat \ {0, 1} :
        B = DIG_BASE /\ R = Radix /\ D = DIG_PER_DEC1 /\ B = Power(R, D)
  BY WordAssumption, Base DEF DIG_BASE
<1>2. /\ i = ROUND_UP(a.intg) /\ j = ROUND_UP(b.intg)
      /\ m = ROUND_UP(a.frac) /\ n = ROUND_UP(b.frac)
      /\ I = ROUND_UP(a.intg + b.intg)
      /\ i + f \in Nat /\ j + g \in Nat /\ f <= m /\ g <= n /\ F = f + g
      /\ e = (m + n) - F /\ h = (e + 1) \div 2 /\ m - f <= h /\ n - g <= h
  BY DEF KeptAre
<1>3. PICK u \in Nat, v \in Nat : u = m - f /\ v = n - g /\ e = u + v /\ u <= h /\ v <= h
  <2>1. m - f \in Nat /\ n - g \in Nat /\ e = (m - f) + (n - g)
    BY <1>2
  <2> QED
    BY <1>2, <2>1
<1>4. PICK P \in Nat, c1 \in Nat \ {0}, r \in Nat :
        /\ P = Positional(WordsIn(a, i, f), i + f) /\ c1 = Power(DIG_BASE, u)
        /\ Mantissa(a) = P * c1 + r /\ r < c1
  <2>1. IsPart(a, i, f)
    BY <1>2, Parts
  <2> QED
    BY <1>2, <1>3, <2>1 DEF IsPart
<1>5. PICK Q \in Nat, c2 \in Nat \ {0}, s \in Nat :
        /\ Q = Positional(WordsIn(b, j, g), j + g) /\ c2 = Power(DIG_BASE, v)
        /\ Mantissa(b) = Q * c2 + s /\ s < c2
  <2>1. IsPart(b, j, g)
    BY <1>2, Parts
  <2> QED
    BY <1>2, <1>3, <2>1 DEF IsPart
<1>6. PICK k \in Nat \ {0}, c \in Nat \ {0} :
        k = Power(DIG_BASE, h) /\ c = Power(DIG_BASE, e) /\ c1 <= k /\ c2 <= k /\ c = c1 * c2
  <2>1. Power(DIG_BASE, h) \in Nat \ {0} /\ Power(DIG_BASE, e) \in Nat \ {0}
    BY <1>1, PowerPositive
  <2>2. Power(DIG_BASE, u) <= Power(DIG_BASE, h) /\ Power(DIG_BASE, v) <= Power(DIG_BASE, h)
    BY <1>1, <1>3, PowerMonotonic
  <2>3. Power(DIG_BASE, u + v) = Power(DIG_BASE, u) * Power(DIG_BASE, v)
    BY <1>1, PowerSum
  <2> QED
    BY <1>3, <1>4, <1>5, <2>1, <2>2, <2>3
<1>7. PICK x \in Nat, y \in Nat : x = Mantissa(a) /\ y = Mantissa(b) /\ x = P * c1 + r /\ y = Q * c2 + s
  <2>1. P * c1 + r \in Nat /\ Q * c2 + s \in Nat
    OBVIOUS
  <2> QED
    BY <1>4, <1>5, <2>1
<1>8. PICK l \in Nat : /\ x * y = (P * Q) * c + l
                       /\ l <= (x + y) * k
                       /\ r = 0 /\ s = 0 => l = 0
  <2>1. r < c1 /\ s < c2 /\ c1 <= k /\ c2 <= k /\ x = P * c1 + r /\ y = Q * c2 + s
    BY <1>4, <1>5, <1>6, <1>7
  <2>2. k \in Nat
    OBVIOUS
  <2>3. Loses(P, Q, c1, c2, r, s, k, x, y)
    BY ONLY <2>1, <2>2, c1 \in Nat \ {0}, c2 \in Nat \ {0}, P \in Nat, Q \in Nat,
            r \in Nat, s \in Nat, x \in Nat, y \in Nat, LostIs
  <2> QED
    BY <1>6, <2>3, Zenon DEF Loses
<1>9. e = 0 => l = 0
  <2> SUFFICES ASSUME e = 0 PROVE l = 0
    OBVIOUS
  <2>1. u = 0 /\ v = 0
    BY <1>3
  <2>2. Power(DIG_BASE, 0) = 1
    BY <1>1, Powers
  <2>3. c1 = 1 /\ c2 = 1
    BY <1>4, <1>5, <2>1, <2>2
  <2>4. r = 0 /\ s = 0
    BY <1>4, <1>5, <2>3
  <2> QED
    BY <1>8, <2>4
<1>10. P * Q < Power(DIG_BASE, I + F)
  <2>1. PICK p \in Nat, q \in Nat, pq \in Nat : p = a.intg /\ q = b.intg /\ pq = p + q /\ pq <= I * D
    <3>1. a.intg \in Nat /\ b.intg \in Nat
      BY DecimalTypes
    <3>2. PICK p \in Nat, q \in Nat : p = a.intg /\ q = b.intg
      BY <3>1
    <3>3. p + q \in Nat /\ p + q \in Int
      OBVIOUS
    <3>4. p + q <= ROUND_UP(p + q) * DIG_PER_DEC1
      BY <3>3, RoundUp
    <3> QED
      BY <1>1, <1>2, <3>2, <3>3, <3>4
  <2>2. PICK rp \in Nat \ {0}, rq \in Nat \ {0}, bm \in Nat \ {0}, bn \in Nat \ {0},
             bi \in Nat \ {0}, bt \in Nat \ {0} :
          /\ rp = Power(Radix, p) /\ rq = Power(Radix, q)
          /\ bm = Power(DIG_BASE, m) /\ bn = Power(DIG_BASE, n)
          /\ bi = Power(DIG_BASE, I) /\ bt = Power(DIG_BASE, I + F)
    <3>1. Power(Radix, p) \in Nat \ {0} /\ Power(Radix, q) \in Nat \ {0}
      BY <1>1, PowerPositive
    <3>2. /\ Power(DIG_BASE, m) \in Nat \ {0} /\ Power(DIG_BASE, n) \in Nat \ {0}
          /\ Power(DIG_BASE, I) \in Nat \ {0}
      BY <1>1, PowerPositive
    <3>3. I + F \in Nat
      OBVIOUS
    <3>4. Power(DIG_BASE, I + F) \in Nat \ {0}
      BY <1>1, <3>3, PowerPositive
    <3> QED
      BY <3>1, <3>2, <3>4
  <2>3. x < rp * bm /\ y < rq * bn
    <3>1. /\ Mantissa(a) < Power(Radix, a.intg) * Power(DIG_BASE, ROUND_UP(a.frac))
          /\ Mantissa(b) < Power(Radix, b.intg) * Power(DIG_BASE, ROUND_UP(b.frac))
      BY MantissaBound
    <3> QED
      BY <1>2, <1>7, <2>1, <2>2, <3>1
  <2>4. rp * rq <= bi
    <3>1. Power(Radix, p + q) = Power(Radix, p) * Power(Radix, q)
      BY <1>1, PowerSum
    <3>2. PICK d \in Nat : d = I * D
      OBVIOUS
    <3>3. Power(Radix, pq) <= Power(Radix, d)
      BY <1>1, <2>1, <3>2, PowerMonotonic
    <3>4. Power(Power(Radix, D), I) = Power(Radix, D * I)
      BY <1>1, PowerPower
    <3>5. D * I = d
      BY <3>2
    <3> QED
      BY <1>1, <2>1, <2>2, <3>1, <3>3, <3>4, <3>5
  <2>5. (bi * bm) * bn = bt * c
    <3>1. Power(DIG_BASE, I + m) = bi * bm
      <4>1. Power(DIG_BASE, I + m) = Power(DIG_BASE, I) * Power(DIG_BASE, m)
        BY <1>1, PowerSum
      <4> QED
        BY <2>2, <4>1
    <3>2. PICK im \in Nat, t \in Nat : im = I + m /\ t = I + F
      OBVIOUS
    <3>3. Power(DIG_BASE, im + n) = Power(DIG_BASE, im) * Power(DIG_BASE, n)
      BY <1>1, PowerSum
    <3>4. Power(DIG_BASE, t + e) = Power(DIG_BASE, t) * Power(DIG_BASE, e)
      BY <1>1, PowerSum
    <3>5. im + n = t + e
      BY <1>2, <3>2
    <3> QED
      BY <1>6, <2>2, <3>1, <3>2, <3>3, <3>4, <3>5
  <2>6. (P * Q) * c <= x * y
    <3>1. PICK z1 \in Int, z2 \in Int : z1 = (P * Q) * c /\ z2 = x * y
      OBVIOUS
    <3> QED
      BY <1>8, <3>1
  <2>7. x * y < bt * c
    <3>1. PICK am \in Nat, an \in Nat : am = rp * bm /\ an = rq * bn
      <4>1. rp * bm \in Nat /\ rq * bn \in Nat
        OBVIOUS
      <4> QED
        BY <4>1
    <3>2. x * y < am * an
      <4>1. x * y <= am * y
        BY <2>3, <3>1, MulMonotonic
      <4>2. y * am < an * am
        <5>1. am \in Nat \ {0} /\ y < an
          BY <2>3, <3>1
        <5> QED
          BY <5>1, MulOrder
      <4>3. PICK z1 \in Int, z2 \in Int, z3 \in Int : z1 = x * y /\ z2 = am * y /\ z3 = am * an
        OBVIOUS
      <4>4. y * am = am * y /\ an * am = am * an
        OBVIOUS
      <4> QED
        BY <4>1, <4>2, <4>3, <4>4
    <3>3. (rp * bm) * (rq * bn) = (rp * rq) * (bm * bn)
      OBVIOUS
    <3>4. (rp * rq) * (bm * bn) <= bi * (bm * bn)
      <4>1. rp * rq \in Int /\ bm * bn \in Nat
        OBVIOUS
      <4>2. PICK z1 \in Int, z2 \in Nat : z1 = rp * rq /\ z2 = bm * bn
        BY <4>1
      <4>3. z1 * z2 <= bi * z2
        BY <2>4, <4>2, MulMonotonic
      <4> QED
        BY <4>2, <4>3
    <3>5. bi * (bm * bn) = (bi * bm) * bn
      OBVIOUS
    <3>6. PICK z1 \in Int, z2 \in Int, z3 \in Int, z4 \in Int :
            /\ z1 = x * y /\ z2 = am * an /\ z3 = bi * (bm * bn) /\ z4 = bt * c
            /\ z2 = (rp * rq) * (bm * bn)
      BY <3>1, <3>3
    <3> QED
      BY <2>5, <3>2, <3>4, <3>5, <3>6
  <2>8. (P * Q) * c < bt * c
    <3>1. PICK z1 \in Int, z2 \in Int, z3 \in Int : z1 = (P * Q) * c /\ z2 = x * y /\ z3 = bt * c
      OBVIOUS
    <3> QED
      BY <2>6, <2>7, <3>1
  <2>9. PICK z \in Int : z = P * Q
    OBVIOUS
  <2>10. z < bt
    BY <2>8, <2>9, MulOrder
  <2> QED
    BY <2>2, <2>9, <2>10
<1>11. ProductIs(P, Q, x, y, l, c, k, a, b, i, j, f, g, I, F, e, h)
  BY <1>4, <1>5, <1>6, <1>7, <1>8, <1>9, <1>10 DEF ProductIs
<1> QED
  BY <1>11, Zenon DEF IsProduct

(* Multiples. *)
LEMMA MultipleTimes ==
    ASSUME NEW x \in Int, NEW q \in Nat, NEW y \in Int, Multiple(x, q)
    PROVE  Multiple(x * y, q) /\ Multiple(y * x, q)
<1>1. PICK k \in Int : x = k * q
  BY DEF Multiple
<1>2. x * y = (k * y) * q /\ y * x = (k * y) * q
  BY <1>1
<1>3. k * y \in Int
  OBVIOUS
<1> QED
  BY <1>2, <1>3 DEF Multiple

LEMMA MultipleBoth ==
    ASSUME NEW x \in Int, NEW p \in Nat, NEW y \in Int, NEW q \in Nat, Multiple(x, p), Multiple(y, q)
    PROVE  Multiple(x * y, p * q)
<1>1. PICK k \in Int, l \in Int : x = k * p /\ y = l * q
  BY DEF Multiple
<1>2. x * y = (k * l) * (p * q)
  <2>1. (k * p) * (l * q) = (k * l) * (p * q)
    OBVIOUS
  <2> QED
    BY <1>1, <2>1
<1>3. k * l \in Int
  OBVIOUS
<1> QED
  BY <1>2, <1>3 DEF Multiple

LEMMA MultipleOf ==
    ASSUME NEW x \in Int, NEW p \in Nat, NEW q \in Nat, NEW z \in Nat, z = p * q, Multiple(x, z)
    PROVE  Multiple(x, p) /\ Multiple(x, q)
<1>1. PICK k \in Int : x = k * z
  BY DEF Multiple
<1>2. x = (k * q) * p /\ x = (k * p) * q
  <2>1. k * (p * q) = (k * q) * p /\ k * (p * q) = (k * p) * q
    OBVIOUS
  <2> QED
    BY <1>1, <2>1
<1>3. k * q \in Int /\ k * p \in Int
  OBVIOUS
<1> QED
  BY <1>2, <1>3 DEF Multiple

LEMMA MultipleSum ==
    ASSUME NEW x \in Int, NEW y \in Int, NEW q \in Nat, Multiple(x, q)
    PROVE  Multiple(x + y, q) <=> Multiple(y, q)
<1>1. PICK k \in Int : x = k * q
  BY DEF Multiple
<1>2. ASSUME Multiple(x + y, q) PROVE Multiple(y, q)
  <2>1. PICK l \in Int : x + y = l * q
    BY <1>2 DEF Multiple
  <2>2. (l - k) * q = l * q - k * q /\ l * q \in Int /\ k * q \in Int
    OBVIOUS
  <2>3. y = (l - k) * q
    BY <1>1, <2>1, <2>2
  <2>4. l - k \in Int
    OBVIOUS
  <2> QED
    BY <2>3, <2>4 DEF Multiple
<1>3. ASSUME Multiple(y, q) PROVE Multiple(x + y, q)
  <2>1. PICK l \in Int : y = l * q
    BY <1>3 DEF Multiple
  <2>2. (k + l) * q = k * q + l * q
    OBVIOUS
  <2>3. x + y = (k + l) * q
    BY <1>1, <2>1, <2>2
  <2>4. k + l \in Int
    OBVIOUS
  <2> QED
    BY <2>3, <2>4 DEF Multiple
<1> QED
  BY <1>2, <1>3

(* A decimal has no digits beyond those of its fraction.                   *)
LEMMA MantissaMultiple ==
    ASSUME NEW d \in Decimals, NEW F \in Nat, F = ROUND_UP(d.frac),
           NEW t \in Nat, t = F * DIG_PER_DEC1 - d.frac
    PROVE  Multiple(Mantissa(d), Power(Radix, t))
<1>1. PICK B \in Nat \ {0, 1}, R \in Nat \ {0, 1}, D \in Nat \ {0, 1} :
        B = DIG_BASE /\ R = Radix /\ D = DIG_PER_DEC1 /\ B = Power(R, D) /\ DIG_MAX = B - 1
  BY WordAssumption, Base DEF DIG_BASE
<1>2. PICK i \in Nat, frac \in Nat, m \in Nat : i = ROUND_UP(d.intg) /\ frac = d.frac /\ m = Mantissa(d)
  <2>1. ROUND_UP(d.frac) <= F
    BY DecimalTypes
  <2> QED
    BY <2>1, DecimalTypes, ScaledTypes
<1>3. CASE frac % D = 0
  <2>1. frac = F * D
    BY <1>1, <1>2, <1>3, LastWordDigits
  <2>2. t = 0
    BY <1>1, <1>2, <2>1
  <2>3. Power(Radix, t) = 1
    BY <1>1, <2>2, Powers
  <2>4. m = m * 1 /\ m \in Int
    OBVIOUS
  <2>5. Multiple(m, 1)
    BY <2>4 DEF Multiple
  <2> QED
    BY <1>2, <2>3, <2>5
<1>4. CASE frac % D # 0
  <2>1. PICK r \in Nat : r = frac % D /\ r < D /\ frac = (F - 1) * D + r /\ F >= 1
    BY <1>1, <1>2, <1>4, LastWordDigits
  <2>2. t = D - r
    <3>1. (F - 1) * D = F * D - D /\ F * D \in Int
      OBVIOUS
    <3> QED
      BY <1>1, <1>2, <2>1, <3>1
  <2>3. PICK q \in Nat \ {0}, p \in Nat \ {0} :
          q = Power(Radix, t) /\ p = Power(Radix, r) /\ B = q * p
    <3>1. Power(Radix, t) \in Nat \ {0} /\ Power(Radix, r) \in Nat \ {0}
      BY <1>1, PowerPositive
    <3>2. Power(Radix, t + r) = Power(Radix, t) * Power(Radix, r)
      BY <1>1, PowerSum
    <3>3. t + r = D
      BY <2>2
    <3> QED
      BY <1>1, <3>1, <3>2, <3>3
  <2>4. Multiple(Word(d, F), q)
    <3>1. frac % DIG_PER_DEC1 # 0 /\ d.frac <= frac /\ F = ROUND_UP(frac)
      BY <1>1, <1>2, <1>4
    <3>2. q = Power(Radix, DIG_PER_DEC1 - (frac % DIG_PER_DEC1))
      BY <1>1, <2>1, <2>2, <2>3
    <3>3. F \in Int
      OBVIOUS
    <3> QED
      BY <3>1, <3>2, <3>3, LastWord
  <2>5. PICK n \in Nat : n = i + F - 1 /\ n + 1 = i + F
    BY <2>1
  <2>6. m = Positional(d.buf, n + 1) /\ (\A k \in 1 .. n + 1 : d.buf[k] \in Int)
        /\ Word(d, F) = d.buf[n + 1]
    <3>1. Len(d.buf) = i + F /\ AreWords(d.buf, Len(d.buf))
      BY <1>2, DecimalTypes
    <3>2. \A k \in 1 .. n + 1 : d.buf[k] \in Int
      <4>1. Len(d.buf) = n + 1
        BY <2>5, <3>1
      <4>2. \A k \in 1 .. n + 1 : d.buf[k] \in 0 .. DIG_MAX
        BY <3>1, <4>1, Zenon DEF AreWords
      <4> QED
        BY <1>1, <4>2
    <3>3. F \in 1 - ROUND_UP(d.intg) .. ROUND_UP(d.frac) /\ F \in Int
      BY <1>2, <2>1
    <3>4. Word(d, F) = d.buf[F + ROUND_UP(d.intg)]
      BY <3>3, WordTypes
    <3>5. F + ROUND_UP(d.intg) = n + 1
      BY <1>2, <2>5
    <3> QED
      BY <1>2, <2>5, <3>1, <3>2, <3>4, <3>5 DEF Mantissa
  <2>7. PICK x \in Int, y \in Int : x = Positional(d.buf, n) /\ y = d.buf[n + 1] /\ m = x * B + y
    <3>1. n + 1 \in Nat /\ n \in 0 .. (n + 1) - 1 /\ n \in 0 .. n + 1 /\ n + 1 \in 1 .. n + 1
      OBVIOUS
    <3>2. Positional(d.buf, n) \in Int
      BY <2>6, <3>1, Positionals
    <3>3. Positional(d.buf, n + 1) = Positional(d.buf, n) * DIG_BASE + d.buf[n + 1]
      BY <2>6, <3>1, Positionals
    <3> QED
      BY <1>1, <2>6, <3>1, <3>2, <3>3
  <2>8. Multiple(x * B, q)
    <3>1. x * B = (x * p) * q
      <4>1. x * (q * p) = (x * p) * q
        OBVIOUS
      <4> QED
        BY <2>3, <4>1
    <3>2. x * p \in Int
      OBVIOUS
    <3> QED
      BY <3>1, <3>2 DEF Multiple
  <2>9. Multiple(y, q)
    BY <2>4, <2>6, <2>7
  <2>10. Multiple(x * B + y, q)
    <3>1. PICK z \in Int : z = x * B
      OBVIOUS
    <3>2. Multiple(z + y, q)
      BY <2>8, <2>9, <3>1, MultipleSum
    <3> QED
      BY <3>1, <3>2
  <2> QED
    BY <1>2, <2>3, <2>7, <2>10
<1> QED
  BY <1>1, <1>3, <1>4

(* A product has no digits beyond those of both fractions.                 *)
LEMMA ProductMultiple ==
    ASSUME NEW a \in Decimals, NEW b \in Decimals, NEW kept, NEW fix,
           NEW i \in Nat, NEW j \in Nat, NEW m \in Nat, NEW n \in Nat, NEW f \in Int, NEW g \in Int,
           NEW I \in Nat, NEW F \in Nat, NEW e \in Nat, NEW h \in Nat,
           KeptAre(kept, fix, a, b, i, j, m, n, f, g, I, F, e, h),
           NEW P \in Nat, P = Positional(WordsIn(a, i, f), i + f),
           NEW Q \in Nat, Q = Positional(WordsIn(b, j, g), j + g),
           NEW t \in Nat, t = F * DIG_PER_DEC1 - (a.frac + b.frac)
    PROVE  Multiple(P * Q, Power(Radix, t))
<1>1. PICK B \in Nat \ {0, 1}, R \in Nat \ {0, 1}, D \in Nat \ {0, 1} :
        B = DIG_BASE /\ R = Radix /\ D = DIG_PER_DEC1
  BY WordAssumption, Base
<1>2. /\ i = ROUND_UP(a.intg) /\ j = ROUND_UP(b.intg)
      /\ m = ROUND_UP(a.frac) /\ n = ROUND_UP(b.frac)
      /\ i + f \in Nat /\ j + g \in Nat /\ f <= m /\ g <= n /\ F = f + g
      /\ e = (m + n) - F
      /\ e = 1 => (f = m /\ g = n - 1) \/ (f = m - 1 /\ g = n)
  BY DEF KeptAre
<1>3. PICK x \in Nat, y \in Nat, mD \in Nat, nD \in Nat, FD \in Nat :
        /\ x = a.frac /\ y = b.frac /\ mD = m * D /\ nD = n * D /\ FD = F * D
        /\ x <= mD /\ mD < x + D /\ y <= nD /\ nD < y + D
        /\ FD = mD + nD - e * D /\ e * D \in Nat
        /\ t = FD - (x + y)
  <2>1. PICK x \in Nat, y \in Nat : x = a.frac /\ y = b.frac
    BY DecimalTypes
  <2>2. m * D \in Nat /\ n * D \in Nat /\ F * D \in Nat /\ e * D \in Nat
    OBVIOUS
  <2>3. /\ x <= ROUND_UP(x) * DIG_PER_DEC1 /\ ROUND_UP(x) * DIG_PER_DEC1 < x + DIG_PER_DEC1
        /\ y <= ROUND_UP(y) * DIG_PER_DEC1 /\ ROUND_UP(y) * DIG_PER_DEC1 < y + DIG_PER_DEC1
    <3>1. x \in Int /\ y \in Int
      OBVIOUS
    <3> QED
      BY <3>1, RoundUp
  <2>4. (F + e) * D = F * D + e * D /\ (m + n) * D = m * D + n * D
    OBVIOUS
  <2>5. F + e = m + n
    BY <1>2
  <2>6. PICK mD \in Nat, nD \in Nat, FD \in Nat, eD \in Nat :
          mD = m * D /\ nD = n * D /\ FD = F * D /\ eD = e * D
    BY <2>2
  <2>7. FD + eD = mD + nD
    BY <2>4, <2>5, <2>6
  <2>8. x <= mD /\ mD < x + D /\ y <= nD /\ nD < y + D
    BY <1>1, <1>2, <2>1, <2>3, <2>6
  <2>9. t = FD - (x + y)
    BY <1>1, <2>1, <2>6
  <2>10. FD = mD + nD - e * D /\ e * D \in Nat
    BY <2>6, <2>7
  <2> QED
    BY <2>1, <2>6, <2>8, <2>9, <2>10
<1>4. e \in {0, 1}
  <2> SUFFICES ASSUME e >= 2 PROVE FALSE
    OBVIOUS
  <2>1. 2 * D <= e * D
    BY MulMonotonic
  <2>2. PICK eD \in Nat : eD = e * D
    BY <1>3
  <2> QED
    BY <1>3, <2>1, <2>2
<1>5. PICK u \in Nat, v \in Nat : u = mD - x /\ v = nD - y
  BY <1>3
<1>6. PICK M \in Nat, N \in Nat : M = Mantissa(a) /\ N = Mantissa(b)
  <2>1. ROUND_UP(a.frac) <= m /\ ROUND_UP(b.frac) <= n
    BY <1>2
  <2>2. Mantissa(a) \in Nat /\ Mantissa(b) \in Nat
    BY <2>1, ScaledTypes
  <2> QED
    BY <2>2
<1>7. PICK pt \in Nat \ {0}, pu \in Nat \ {0}, pv \in Nat \ {0} :
        pt = Power(Radix, t) /\ pu = Power(Radix, u) /\ pv = Power(Radix, v)
  BY <1>1, PowerPositive
<1>8. Multiple(M, pu) /\ Multiple(N, pv)
  <2>1. Multiple(Mantissa(a), Power(Radix, u))
    <3>1. u = m * DIG_PER_DEC1 - a.frac
      BY <1>1, <1>3, <1>5
    <3> QED
      BY <1>2, <3>1, MantissaMultiple
  <2>2. Multiple(Mantissa(b), Power(Radix, v))
    <3>1. v = n * DIG_PER_DEC1 - b.frac
      BY <1>1, <1>3, <1>5
    <3> QED
      BY <1>2, <3>1, MantissaMultiple
  <2> QED
    BY <1>6, <1>7, <2>1, <2>2
<1>9. f = m => P = M
  <2> SUFFICES ASSUME f = m PROVE P = M
    OBVIOUS
  <2>1. PICK c \in Nat \ {0}, r \in Nat : c = Power(DIG_BASE, ROUND_UP(a.frac) - f) /\ M = P * c + r /\ r < c
    <3>1. IsPart(a, i, f)
      BY <1>2, Parts
    <3> QED
      BY <1>6, <3>1 DEF IsPart
  <2>2. ROUND_UP(a.frac) - f = 0
    BY <1>2
  <2>3. c = 1
    BY <1>1, <2>1, <2>2, Powers
  <2> QED
    BY <2>1, <2>3
<1>10. g = n => Q = N
  <2> SUFFICES ASSUME g = n PROVE Q = N
    OBVIOUS
  <2>1. PICK c \in Nat \ {0}, r \in Nat : c = Power(DIG_BASE, ROUND_UP(b.frac) - g) /\ N = Q * c + r /\ r < c
    <3>1. IsPart(b, j, g)
      BY <1>2, Parts
    <3> QED
      BY <1>6, <3>1 DEF IsPart
  <2>2. ROUND_UP(b.frac) - g = 0
    BY <1>2
  <2>3. c = 1
    BY <1>1, <2>1, <2>2, Powers
  <2> QED
    BY <2>1, <2>3
<1>11. CASE e = 0
  <2>1. f = m /\ g = n
    BY <1>2, <1>11
  <2>2. 0 * D = 0
    OBVIOUS
  <2>3. t = u + v
    <3>1. e * D = 0
      BY <1>11, <2>2
    <3>2. PICK eD \in Nat : eD = e * D /\ FD = mD + nD - eD
      BY <1>3
    <3>3. eD = 0 /\ t = FD - (x + y)
      BY <1>3, <3>1, <3>2
    <3> QED
      BY ONLY <1>5, <3>2, <3>3, mD \in Nat, nD \in Nat, FD \in Nat, t \in Nat, x \in Nat, y \in Nat
  <2>4. pt = pu * pv
    <3>1. Power(Radix, u + v) = Power(Radix, u) * Power(Radix, v)
      BY <1>1, PowerSum
    <3> QED
      BY ONLY <1>7, <2>3, <3>1
  <2>5. Multiple(M * N, pu * pv)
    BY <1>8, MultipleBoth
  <2> QED
    BY <1>7, <1>9, <1>10, <2>1, <2>4, <2>5
<1>12. CASE e = 1
  <2>1. 1 * D = D
    OBVIOUS
  <2>2. t <= u /\ t <= v
    BY <1>3, <1>5, <1>12, <2>1
  <2>3. PICK s \in Nat, z \in Nat : s = u - t /\ z = v - t
    BY <2>2
  <2>4. PICK ps \in Nat \ {0}, pz \in Nat \ {0} : ps = Power(Radix, s) /\ pz = Power(Radix, z)
    BY <1>1, PowerPositive
  <2>5. pu = pt * ps /\ pv = pt * pz
    <3>1. u = t + s /\ v = t + z
      BY <2>3
    <3>2. Power(Radix, t + s) = Power(Radix, t) * Power(Radix, s)
      BY <1>1, PowerSum
    <3>3. Power(Radix, t + z) = Power(Radix, t) * Power(Radix, z)
      BY <1>1, PowerSum
    <3> QED
      BY <1>7, <2>4, <3>1, <3>2, <3>3
  <2>6. Multiple(M, pt) /\ Multiple(N, pt)
    <3>1. pu = pt * ps /\ Multiple(M, pu) /\ M \in Int /\ pu \in Nat /\ pt \in Nat /\ ps \in Nat
      BY <1>8, <2>5
    <3>2. pv = pt * pz /\ Multiple(N, pv) /\ N \in Int /\ pv \in Nat /\ pz \in Nat
      BY <1>8, <2>5
    <3>3. Multiple(M, pt)
      BY ONLY <3>1, MultipleOf
    <3>4. Multiple(N, pt)
      BY ONLY <3>1, <3>2, MultipleOf
    <3> QED
      BY <3>3, <3>4
  <2>7. P = M \/ Q = N
    BY <1>2, <1>9, <1>10, <1>12
  <2>8. Multiple(P * Q, pt)
    <3>1. CASE P = M
      <4>1. Multiple(P, pt)
        BY <2>6, <3>1
      <4> QED
        BY <4>1, MultipleTimes
    <3>2. CASE Q = N
      <4>1. Multiple(Q, pt)
        BY <2>6, <3>2
      <4> QED
        BY <4>1, MultipleTimes
    <3> QED
      BY <2>7, <3>1, <3>2
  <2> QED
    BY <1>7, <2>8
<1> QED
  BY <1>4, <1>11, <1>12

LEMMA NoWordsLeft ==
    ASSUME NEW n \in Nat, NEW w, AreWords(w, n), Positional(w, n) = 0
    PROVE  \A k \in 1 .. n : w[k] = 0
<1>1. PICK v : v = [k \in 1 .. n |-> 0]
  OBVIOUS
<1>2. \A k \in 1 .. n : v[k] = 0
  BY <1>1
<1>3. Positional(v, n) = 0
  BY <1>2, PositionalZeros
<1>4. AreWords(v, n)
  BY <1>2, Base DEF AreWords
<1>5. CASE \A k \in 1 .. n : v[k] = w[k]
  BY <1>2, <1>5
<1>6. CASE \E j \in 1 .. n : v[j] # w[j] /\ \A k \in 1 .. j - 1 : v[k] = w[k]
  <2>1. PICK j \in 1 .. n : v[j] # w[j] /\ \A k \in 1 .. j - 1 : v[k] = w[k]
    BY <1>6
  <2>2. v[j] < w[j]
    <3>1. w[j] \in 0 .. DIG_MAX
      BY DEF AreWords
    <3> QED
      BY <1>2, <2>1, <3>1, Base
  <2>3. Positional(v, n) < Positional(w, n)
    BY <1>4, <2>1, <2>2, PositionalOrder
  <2> QED
    BY <1>3, <2>3
<1> QED
  BY <1>5, <1>6, FirstDifference

(* Words after the last that the digits need are zeros, and so is what is  *)
(* left of that one.                                                       *)
ZeroEnd(w, I, F, g, frac) ==
    /\ \A k \in I + g + 1 .. I + F : w[k] = 0
    /\ frac % DIG_PER_DEC1 # 0 =>
         w[I + g] % Power(Radix, DIG_PER_DEC1 - (frac % DIG_PER_DEC1)) = 0

LEMMA LastZeros ==
    ASSUME NEW I \in Nat, NEW F \in Nat, NEW frac \in Nat, NEW g \in Nat, g = ROUND_UP(frac), g <= F,
           NEW w, AreWords(w, I + F), NEW t \in Nat, t = F * DIG_PER_DEC1 - frac,
           Multiple(Positional(w, I + F), Power(Radix, t))
    PROVE  ZeroEnd(w, I, F, g, frac)
<1>1. PICK B \in Nat \ {0, 1}, R \in Nat \ {0, 1}, D \in Nat \ {0, 1} :
        B = DIG_BASE /\ R = Radix /\ D = DIG_PER_DEC1 /\ B = Power(R, D) /\ DIG_MAX = B - 1
  BY WordAssumption, Base DEF DIG_BASE
<1>2. PICK l \in Nat, q \in Nat, s \in Nat, qD \in Nat :
        /\ l = I + g /\ q = F - g /\ l + q = I + F /\ s = g * D - frac /\ qD = q * D /\ t = qD + s
        /\ s < D
  <2>1. F - g \in Nat /\ (I + g) + (F - g) = I + F
    OBVIOUS
  <2>2. PICK q \in Nat, gD \in Nat, FD \in Nat, qD \in Nat :
          q = F - g /\ gD = g * D /\ FD = F * D /\ qD = q * D
    <3>1. F - g \in Nat /\ g * D \in Nat /\ F * D \in Nat
      OBVIOUS
    <3>2. PICK q \in Nat : q = F - g
      BY <3>1
    <3>3. q * D \in Nat
      OBVIOUS
    <3> QED
      BY <3>1, <3>2, <3>3
  <2>3. FD = gD + qD
    <3>1. (g + q) * D = g * D + q * D /\ g + q = F
      BY <2>2
    <3> QED
      BY <2>2, <3>1
  <2>4. frac <= gD /\ gD < frac + D
    <3>1. frac \in Int
      OBVIOUS
    <3>2. frac <= ROUND_UP(frac) * DIG_PER_DEC1 /\ ROUND_UP(frac) * DIG_PER_DEC1 < frac + DIG_PER_DEC1
      BY <3>1, RoundUp
    <3> QED
      BY <1>1, <2>2, <3>2
  <2>5. gD - frac \in Nat /\ FD - frac = qD + (gD - frac) /\ gD - frac < D
    BY <2>3, <2>4
  <2>6. t = FD - frac
    BY <1>1, <2>2
  <2> QED
    BY <2>1, <2>2, <2>5, <2>6
<1>3. PICK v : v = [k \in 1 .. q |-> w[l + k]]
  OBVIOUS
<1>4. \A k \in 1 .. l + q : w[k] \in 0 .. B - 1
  BY <1>1, <1>2 DEF AreWords
<1>5. \A k \in 1 .. q : v[k] = w[l + k] /\ v[k] \in 0 .. B - 1
  <2> SUFFICES ASSUME NEW k \in 1 .. q PROVE v[k] = w[l + k] /\ v[k] \in 0 .. B - 1
    OBVIOUS
  <2>1. l + k \in 1 .. l + q
    OBVIOUS
  <2> QED
    BY <1>3, <1>4, <2>1
<1>6. PICK c \in Nat \ {0}, z \in Nat \ {0}, ps \in Nat \ {0} :
        c = Power(DIG_BASE, q) /\ z = Power(Radix, t) /\ ps = Power(Radix, s) /\ z = c * ps
  <2>1. /\ Power(DIG_BASE, q) \in Nat \ {0} /\ Power(Radix, t) \in Nat \ {0}
        /\ Power(Radix, s) \in Nat \ {0}
    BY <1>1, PowerPositive
  <2>2. Power(Radix, qD + s) = Power(Radix, qD) * Power(Radix, s)
    BY <1>1, PowerSum
  <2>3. Power(Power(Radix, D), q) = Power(Radix, D * q)
    BY <1>1, PowerPower
  <2>4. D * q = qD
    BY <1>2
  <2>5. Power(DIG_BASE, q) = Power(Radix, qD)
    BY <1>1, <2>3, <2>4
  <2>6. Power(Radix, t) = Power(DIG_BASE, q) * Power(Radix, s)
    BY <1>2, <2>2, <2>5
  <2> QED
    BY <2>1, <2>6
<1>7. PICK y \in Nat, x \in Nat, n \in Nat :
        y = Positional(v, q) /\ y < c /\ x = Positional(w, l) /\ n = Positional(w, I + F) /\ n = x * c + y
  <2>1. AreWords(v, q)
    BY <1>1, <1>5 DEF AreWords
  <2>2. q \in 0 .. q /\ l \in 0 .. l + q /\ l + q \in Nat /\ l + q \in 0 .. l + q
    OBVIOUS
  <2>3. Positional(v, q) \in Nat /\ Positional(v, q) < Power(DIG_BASE, q)
    BY <2>1, <2>2, PositionalRange
  <2>4. AreWords(w, l + q)
    BY <1>2
  <2>5. Positional(w, l) \in Nat /\ Positional(w, l + q) \in Nat
    BY <2>2, <2>4, PositionalRange
  <2>6. Positional(w, l + q) = Positional(w, l) * Power(DIG_BASE, q) + Positional(v, q)
    <3>1. (\A k \in 1 .. l + q : w[k] \in Int) /\ (\A k \in 1 .. q : v[k] = w[l + k])
      BY <1>4, <1>5
    <3> QED
      BY <3>1, PositionalSplit
  <2> QED
    BY <1>2, <1>6, <2>3, <2>5, <2>6
<1>8. PICK k \in Int : n = (k * ps) * c
  <2>1. PICK k \in Int : n = k * z
    BY <1>6, <1>7 DEF Multiple
  <2>2. k * (c * ps) = (k * ps) * c
    OBVIOUS
  <2> QED
    BY <1>6, <2>1, <2>2
<1>9. y = 0 /\ x = k * ps
  <2>1. PICK u \in Int : u = k * ps
    OBVIOUS
  <2>2. n = c * u + 0 /\ n = c * x + y
    <3>1. c * u = u * c /\ c * x = x * c /\ u * c \in Int /\ x * c \in Int
      OBVIOUS
    <3> QED
      BY <1>7, <1>8, <2>1, <3>1
  <2>3. 0 \in 0 .. c - 1 /\ y \in 0 .. c - 1
    BY <1>7
  <2>4. n \div c = u /\ n % c = 0
    <3>1. n \in Int /\ x \in Int /\ u \in Int /\ c \in Nat \ {0}
      OBVIOUS
    <3>2. PICK o \in 0 .. c - 1 : o = 0 /\ n = c * u + o
      BY <2>2, <2>3
    <3>3. n \div c = u /\ n % c = o
      BY ONLY <3>1, <3>2, o \in 0 .. c - 1, DivisionIs
    <3> QED
      BY <3>2, <3>3
  <2>5. n \div c = x /\ n % c = y
    <3>1. n \in Int /\ x \in Int /\ c \in Nat \ {0}
      OBVIOUS
    <3>2. n = c * x + y
      BY <2>2
    <3> QED
      BY ONLY <3>1, <3>2, <2>3, DivisionIs
  <2> QED
    BY <2>1, <2>4, <2>5
<1>10. \A p \in I + g + 1 .. I + F : w[p] = 0
  <2>1. AreWords(v, q)
    BY <1>1, <1>5 DEF AreWords
  <2>2. \A p \in 1 .. q : v[p] = 0
    BY <1>7, <1>9, <2>1, NoWordsLeft
  <2> SUFFICES ASSUME NEW p \in I + g + 1 .. I + F PROVE w[p] = 0
    OBVIOUS
  <2>3. p - l \in 1 .. q /\ l + (p - l) = p
    BY <1>2
  <2> QED
    BY <1>5, <2>2, <2>3
<1>11. ASSUME frac % D # 0 PROVE w[l] % Power(Radix, D - (frac % D)) = 0
  <2>1. PICK r \in Nat : r = frac % D /\ r < D /\ frac = (g - 1) * D + r /\ g >= 1
    BY <1>1, <1>11, LastWordDigits
  <2>2. s = D - r
    <3>1. (g - 1) * D = g * D - D /\ g * D \in Int
      OBVIOUS
    <3> QED
      BY <1>2, <2>1, <3>1
  <2>3. PICK p \in Nat \ {0} : p = Power(Radix, r) /\ B = ps * p
    <3>1. Power(Radix, r) \in Nat \ {0}
      BY <1>1, PowerPositive
    <3>2. Power(Radix, s + r) = Power(Radix, s) * Power(Radix, r)
      BY <1>1, PowerSum
    <3>3. s + r = D
      BY <2>2
    <3> QED
      BY <1>1, <1>6, <3>1, <3>2, <3>3
  <2>4. PICK m \in Nat : l = m + 1
    <3>1. l - 1 \in Nat /\ l = (l - 1) + 1
      BY <1>2, <2>1
    <3> QED
      BY <3>1
  <2>5. PICK d \in Nat, u \in Nat : d = w[l] /\ u = Positional(w, m) /\ x = u * B + d
    <3>1. l \in 1 .. l + q /\ m \in 0 .. l - 1 /\ m \in 0 .. l
      BY <2>4
    <3>2. AreWords(w, l)
      <4>1. \A p2 \in 1 .. l : p2 \in 1 .. l + q
        OBVIOUS
      <4> QED
        BY <1>1, <1>4, <4>1 DEF AreWords
    <3>3. Positional(w, m) \in Nat
      BY <3>1, <3>2, PositionalRange
    <3>4. \A p2 \in 1 .. l : w[p2] \in Int
      BY <1>1, <3>2 DEF AreWords
    <3>5. Positional(w, m + 1) = Positional(w, m) * DIG_BASE + w[m + 1]
      BY <3>1, <3>4, Positionals
    <3> QED
      BY <1>1, <1>4, <1>7, <2>4, <3>1, <3>3, <3>5
  <2>6. Multiple(u * B, ps)
    <3>1. u * B = (u * p) * ps
      <4>1. u * (ps * p) = (u * p) * ps
        OBVIOUS
      <4> QED
        BY <2>3, <4>1
    <3>2. u * p \in Int
      OBVIOUS
    <3> QED
      BY <3>1, <3>2 DEF Multiple
  <2>7. Multiple(d, ps)
    <3>1. PICK b \in Int : b = u * B
      OBVIOUS
    <3>2. Multiple(b + d, ps)
      <4>1. b + d = k * ps
        BY <1>9, <2>5, <3>1
      <4> QED
        BY <4>1 DEF Multiple
    <3> QED
      BY <2>6, <3>1, <3>2, MultipleSum
  <2>8. d % ps = 0
    BY <2>7, Divides DEF Multiple
  <2> QED
    BY <1>6, <2>1, <2>2, <2>5, <2>8
<1>12. frac % DIG_PER_DEC1 # 0 =>
         w[I + g] % Power(Radix, DIG_PER_DEC1 - (frac % DIG_PER_DEC1)) = 0
  BY <1>1, <1>2, <1>11
<1> QED
  BY <1>10, <1>12, Zenon DEF ZeroEnd

(* A product is that of the kept words: what it is short of, and that it   *)
(* has the sign of a product unless it is zero.                            *)
Short(r, a, b, x, y, z, l, e, k) ==
    /\ x = Mantissa(a) /\ y = Mantissa(b)
    /\ z = Scaled(r.to, ROUND_UP(a.frac) + ROUND_UP(b.frac))
    /\ x * y = z + l
    /\ k = Power(DIG_BASE, (e + 1) \div 2)
    /\ l <= (x + y) * k
    /\ r.error = E_DEC_OK => l = 0
    /\ r.error # E_DEC_OK => e = ROUND_UP(a.intg + b.intg)
                                   + (ROUND_UP(a.frac) + ROUND_UP(b.frac)) - DECIMAL_BUFF_LENGTH
    /\ r.to.sign = (a.sign # b.sign) \/ (z = 0 /\ ~r.to.sign)

IsShort(r, a, b) ==
    /\ r.to \in Decimals /\ Fits(r.to)
    /\ \E x \in Nat, y \in Nat, z \in Nat, l \in Nat, e \in Nat, k \in Nat :
          Short(r, a, b, x, y, z, l, e, k)

(* A decimal that is a zero without a sign, or the trimmed one.            *)
LEMMA SignedIs ==
    ASSUME NEW e \in Decimals
    PROVE  \/ Signed(e) = e
           \/ Signed(e) = Zero /\ Mantissa(e) = 0
<1>1. CASE ~(e.sign /\ e.frac = 0 /\ decimal_is_zero(e))
  BY <1>1, Zenon DEF Signed
<1>2. CASE e.sign /\ e.frac = 0 /\ decimal_is_zero(e)
  <2>1. Signed(e) = Zero
    BY <1>2, Zenon DEF Signed
  <2>2. /\ Len(e.buf) = ROUND_UP(e.intg) + ROUND_UP(e.frac)
        /\ DOMAIN e.buf = 1 .. ROUND_UP(e.intg) + ROUND_UP(e.frac)
        /\ ROUND_UP(e.intg) \in Nat /\ ROUND_UP(e.frac) \in Nat
    BY DecimalTypes
  <2>3. PICK n \in Nat : n = Len(e.buf) /\ \A k \in 1 .. n : e.buf[k] = 0
    <3>1. PICK n \in Nat : n = ROUND_UP(e.intg) + ROUND_UP(e.frac)
      BY <2>2
    <3>2. \A k \in 1 .. n : e.buf[k] = 0
      BY <1>2, <2>2, <3>1 DEF decimal_is_zero
    <3> QED
      BY <2>2, <3>1, <3>2
  <2>4. Positional(e.buf, n) = 0
    BY <2>3, PositionalZeros
  <2>5. Mantissa(e) = 0
    BY <2>3, <2>4 DEF Mantissa
  <2> QED
    BY <2>1, <2>5
<1> QED
  BY <1>1, <1>2

(* The sign and the ends: the same number in the same words, or fewer.     *)
SameNumber(v, sign, m, c, t) ==
    /\ v \in Decimals /\ Fits(v)
    /\ Scaled(v, t) = m * c
    /\ v.sign = sign \/ (m = 0 /\ v.sign = FALSE)

LEMMA SignedTrimmed ==
    ASSUME NEW d, NEW sign \in BOOLEAN, NEW I \in Nat, NEW F \in Nat, NEW m \in Nat, NEW e \in Nat,
           IsTrimmed(Trimmed(d), sign, I, F, m), I + F <= DECIMAL_BUFF_LENGTH,
           NEW c \in Nat \ {0}, c = Power(DIG_BASE, e),
           NEW t \in Nat, t = F + e
    PROVE  SameNumber(Signed(Trimmed(d)), sign, m, c, t)
<1>1. PICK v : v = Trimmed(d)
  OBVIOUS
<1>2. PICK s \in Nat, f \in Nat, q \in Nat \ {0} : TrimmedTo(v, sign, I, F, s, f, q, m)
  BY <1>1 DEF IsTrimmed
<1>3. /\ v \in Decimals /\ v.sign = sign /\ s <= I /\ f <= F /\ q = Power(DIG_BASE, F - f)
      /\ ROUND_UP(v.intg) = I - s /\ ROUND_UP(v.frac) = f
  BY <1>2, Zenon DEF TrimmedTo
<1>4. m = Mantissa(v) * q
  BY <1>2, Zenon DEF TrimmedTo
<1>5. PICK n \in Nat : n = Mantissa(v) /\ m = n * q
  <2>1. ROUND_UP(v.frac) <= f
    BY <1>3
  <2>2. Mantissa(v) \in Nat
    BY <1>3, <2>1, ScaledTypes
  <2> QED
    BY <1>4, <2>2
<1>6. Scaled(v, t) = m * c
  <2>1. PICK g \in Nat : g = F - f /\ t - f = g + e
    <3>1. F - f \in Nat /\ t - f = (F - f) + e
      BY <1>3
    <3> QED
      BY <3>1
  <2>2. DIG_BASE \in Int
    BY Base
  <2>3. Power(DIG_BASE, g + e) = Power(DIG_BASE, g) * Power(DIG_BASE, e)
    BY <2>2, PowerSum
  <2>4. Scaled(v, t) = n * (q * c)
    BY <1>3, <1>5, <2>1, <2>3 DEF Scaled
  <2>5. n * (q * c) = (n * q) * c
    OBVIOUS
  <2> QED
    BY <1>5, <2>4, <2>5
<1>7. Fits(v)
  <2>1. PICK N \in Nat : N = DECIMAL_BUFF_LENGTH /\ I + F <= N
    BY WordAssumption
  <2>2. (I - s) + f <= N
    BY <1>3, <2>1
  <2> QED
    BY <1>3, <2>1, <2>2 DEF Fits
<1>8. CASE Signed(v) = v
  BY <1>1, <1>3, <1>6, <1>7, <1>8 DEF SameNumber
<1>9. CASE Signed(v) = Zero /\ Mantissa(v) = 0
  <2>1. m = 0
    <3>1. 0 * q = 0
      OBVIOUS
    <3> QED
      BY <1>5, <1>9, <3>1
  <2>2. 0 * c = 0
    OBVIOUS
  <2>3. Scaled(Zero, t) = 0
    <3>1. Mantissa(Zero) = 0 /\ ROUND_UP(Zero.frac) = 0
      <4>1. Zero.frac = 0 * DIG_PER_DEC1
        <5>1. Zero.frac = 0 /\ DIG_PER_DEC1 \in Nat
          BY WordAssumption DEF Zero
        <5> QED
          BY <5>1
      <4>2. ROUND_UP(Zero.frac) = 0
        BY <4>1, RoundUpWords
      <4>3. Zero.buf = <<0>>
        BY DEF Zero
      <4>4. Len(Zero.buf) = 1 /\ \A k \in 1 .. 1 : Zero.buf[k] = 0
        BY <4>3
      <4>5. Positional(Zero.buf, 1) = 0
        BY <4>4, PositionalZeros
      <4> QED
        BY <4>2, <4>4, <4>5 DEF Mantissa
    <3>2. t - 0 = t
      OBVIOUS
    <3>3. Power(DIG_BASE, t) \in Int
      BY Base, PowerPositive
    <3>4. 0 * Power(DIG_BASE, t) = 0
      BY <3>3
    <3> QED
      BY <3>1, <3>2, <3>4 DEF Scaled
  <2> QED
    BY <1>1, <1>9, <2>1, <2>2, <2>3, ZeroIs DEF SameNumber
<1> QED
  BY <1>3, <1>8, <1>9, SignedIs

(* Digits and ends of the words that Result() is given of a product.       *)
LEMMA ResultTrims ==
    ASSUME NEW sign \in BOOLEAN, NEW ab \in Nat, NEW fix, NEW row, NEW I \in Nat, NEW F \in Nat,
           fix.intg = I, fix.frac = F, IsRow(row, I, F), NEW n \in Nat, n = RowValue(row, I, F),
           \A t \in Nat : t = F * DIG_PER_DEC1 - ab => Multiple(n, Power(Radix, t))
    PROVE  IsTrimmed(Trimmed(Result(sign, ab, fix, row).to), sign, I, F, n)
<1>1. PICK D \in Nat \ {0, 1}, FD \in Nat : D = DIG_PER_DEC1 /\ FD = F * D
  <2>1. PICK D \in Nat \ {0, 1} : D = DIG_PER_DEC1
    BY WordAssumption
  <2>2. F * D \in Nat
    OBVIOUS
  <2> QED
    BY <2>1, <2>2
<1>2. PICK w \in [1 .. I + F -> 0 .. DIG_MAX] : w = RowWords(row, I, F) /\ n = Positional(w, I + F)
  <2>1. RowWords(row, I, F) \in [1 .. I + F -> 0 .. DIG_MAX]
    <3>1. \A k \in 1 .. I + F : k - I \in 1 - I .. F
      OBVIOUS
    <3> QED
      BY <3>1 DEF RowWords, IsRow
  <2> QED
    BY <2>1 DEF RowValue
<1>3. PICK frac \in Nat : frac = Min({ab, FD}) /\ frac <= FD /\ (frac = ab \/ frac = FD)
  <2>1. ab \in Int /\ FD \in Int
    OBVIOUS
  <2>2. Min({ab, FD}) = IF ab <= FD THEN ab ELSE FD
    BY <2>1, MaxOfTwo
  <2> QED
    BY <2>2
<1>4. PICK g \in Nat : g = ROUND_UP(frac) /\ g <= F
  <2>1. frac \in Int /\ FD \in Int /\ F \in Int
    OBVIOUS
  <2>2. ROUND_UP(frac) \in Nat
    <3>1. frac >= 0
      OBVIOUS
    <3> QED
      BY <2>1, <3>1, RoundUp
  <2>3. ROUND_UP(frac) <= ROUND_UP(FD)
    BY <1>3, <2>1, RoundUpMonotonic
  <2>4. ROUND_UP(F * DIG_PER_DEC1) = F
    BY <2>1, RoundUpWords
  <2> QED
    BY <1>1, <2>2, <2>3, <2>4
<1>5. PICK t \in Nat : t = FD - frac
  BY <1>3
<1>6. Multiple(Positional(w, I + F), Power(Radix, t))
  <2>1. CASE frac = ab
    BY <1>1, <1>2, <1>5, <2>1
  <2>2. CASE frac = FD
    <3>1. t = 0
      BY <1>5, <2>2
    <3>2. Power(Radix, t) = 1
      BY <3>1, Base, Powers
    <3>3. n = n * 1 /\ n \in Int
      OBVIOUS
    <3> QED
      BY <1>2, <3>2, <3>3 DEF Multiple
  <2> QED
    BY <1>3, <2>1, <2>2
<1>7. AreWords(w, I + F)
  BY DEF AreWords
<1>8. /\ \A k \in I + g + 1 .. I + F : w[k] = 0
      /\ frac % DIG_PER_DEC1 # 0 =>
           w[I + g] % Power(Radix, DIG_PER_DEC1 - (frac % DIG_PER_DEC1)) = 0
  <2>1. t = F * DIG_PER_DEC1 - frac
    BY <1>1, <1>5
  <2>2. g = ROUND_UP(frac) /\ g <= F
    BY <1>4
  <2>3. ZeroEnd(w, I, F, g, frac)
    BY ONLY <1>6, <1>7, <2>1, <2>2, I \in Nat, F \in Nat, frac \in Nat, g \in Nat, t \in Nat,
            LastZeros
  <2> QED
    BY <2>3, Zenon DEF ZeroEnd
<1>9. PICK d : d = Result(sign, ab, fix, row).to
  OBVIOUS
<1>10. d = [sign |-> sign, intg |-> I * DIG_PER_DEC1, frac |-> frac, buf |-> w]
  <2>1. Result(sign, ab, fix, row).to
          = [sign |-> sign, intg |-> I * DIG_PER_DEC1, frac |-> Min({ab, F * DIG_PER_DEC1}),
             buf |-> [k \in 1 .. I + F |-> row[k - I]]]
    BY DEF Result
  <2>2. w = [k \in 1 .. I + F |-> row[k - I]]
    BY <1>2 DEF RowWords
  <2>3. Min({ab, F * DIG_PER_DEC1}) = frac
    BY <1>1, <1>3
  <2> QED
    BY <1>9, <2>1, <2>2, <2>3, Zenon
<1>11. IsTrimmed(Trimmed(d), sign, I, F, Positional(w, I + F))
  BY <1>4, <1>8, <1>10, TrimmedIs
<1> QED
  BY <1>2, <1>9, <1>11

(* decimal_mul() of factors whose digits fit.                              *)
LEMMA MulIs ==
    ASSUME NEW a \in Decimals, NEW b \in Decimals, Fits(a), Fits(b),
           NEW fix, fix = MulFix(a, b), fix.error # E_DEC_OVERFLOW
    PROVE  /\ decimal_mul(a, b).error = fix.error
           /\ IsShort(decimal_mul(a, b), a, b)
<1>1. PICK kept : kept = Kept(a, b, fix)
  OBVIOUS
<1>2. PICK i \in Nat, j \in Nat, m \in Nat, n \in Nat, f \in Int, g \in Int,
           I \in Nat, F \in Nat, e \in Nat, h \in Nat :
        KeptAre(kept, fix, a, b, i, j, m, n, f, g, I, F, e, h)
  <2>1. KeptWords(kept, fix, a, b)
    BY <1>1, KeptIs
  <2> QED
    BY <2>1, Zenon DEF KeptWords
<1>3. PICK P \in Nat, Q \in Nat, x \in Nat, y \in Nat, l \in Nat, c \in Nat \ {0}, k \in Nat \ {0} :
        ProductIs(P, Q, x, y, l, c, k, a, b, i, j, f, g, I, F, e, h)
  <2>1. IsProduct(a, b, i, j, f, g, I, F, e, h)
    BY <1>2, ProductOf
  <2> QED
    BY <2>1, Zenon DEF IsProduct
<1>4. /\ i = ROUND_UP(a.intg) /\ j = ROUND_UP(b.intg)
      /\ m = ROUND_UP(a.frac) /\ n = ROUND_UP(b.frac)
      /\ I = ROUND_UP(a.intg + b.intg) /\ i + j <= I + 1
      /\ fix.intg = I /\ fix.frac = F /\ I + F <= DECIMAL_BUFF_LENGTH
      /\ kept.intg1 = i /\ kept.intg2 = j /\ kept.frac1 = f /\ kept.frac2 = g
      /\ i + f \in Nat /\ j + g \in Nat /\ F = f + g
      /\ e = (m + n) - F /\ h = (e + 1) \div 2
      /\ fix.error = E_DEC_OK => e = 0
      /\ fix.error # E_DEC_OK => e = (I + m + n) - DECIMAL_BUFF_LENGTH
  BY <1>2 DEF KeptAre
<1>5. /\ P = Positional(WordsIn(a, i, f), i + f) /\ Q = Positional(WordsIn(b, j, g), j + g)
      /\ x = Mantissa(a) /\ y = Mantissa(b)
      /\ c = Power(DIG_BASE, e) /\ k = Power(DIG_BASE, h)
      /\ x * y = (P * Q) * c + l
      /\ l <= (x + y) * k
      /\ e = 0 => l = 0
      /\ P * Q < Power(DIG_BASE, I + F)
  BY <1>3 DEF ProductIs
<1>6. PICK rows : rows = Rows(a, b, kept, fix)
  OBVIOUS
<1>7. RowsMade(rows, a, b, kept, I, F, i, f, P * Q)
  BY <1>4, <1>5, <1>6, RowsMake
<1>8. PICK row : row = rows[1 - i]
  OBVIOUS
<1>9. PICK pq \in Nat : pq = P * Q /\ IsRow(row, I, F) /\ RowValue(row, I, F) = pq
  <2>1. P * Q \in Nat
    OBVIOUS
  <2> QED
    BY <1>7, <1>8, <2>1 DEF RowsMade
<1>10. PICK ab \in Nat, sign \in BOOLEAN : ab = a.frac + b.frac /\ sign = (a.sign # b.sign)
  <2>1. a.frac \in Nat /\ b.frac \in Nat
    BY DecimalTypes
  <2>2. a.frac + b.frac \in Nat
    BY <2>1
  <2> QED
    BY <2>2
<1>11. PICK r : r = Result(sign, ab, fix, row)
  OBVIOUS
<1>12. decimal_mul(a, b) = [to |-> Signed(Trimmed(r.to)), error |-> fix.error]
  <2>1. ~(\E p \in 1 - kept.intg1 .. kept.frac1 :
            CarryOut(rows[p + 1], a, p, b, kept, 1 - fix.intg))
    <3>1. \A p \in 1 - i .. f : ~CarryOut(rows[p + 1], a, p, b, kept, 1 - I)
      BY <1>7, Zenon DEF RowsMade
    <3> QED
      BY <1>4, <3>1, Zenon
  <2>2. r.error = fix.error
    BY <1>11 DEF Result
  <2>3. decimal_mul(a, b)
          = [to |-> Signed(Trimmed(Result(a.sign # b.sign, a.frac + b.frac, fix,
                                          rows[1 - kept.intg1]).to)),
             error |-> IF \E p \in 1 - kept.intg1 .. kept.frac1 :
                            CarryOut(rows[p + 1], a, p, b, kept, 1 - fix.intg)
                       THEN E_DEC_OVERFLOW
                       ELSE Result(a.sign # b.sign, a.frac + b.frac, fix,
                                   rows[1 - kept.intg1]).error]
    BY <1>1, <1>6, Zenon DEF decimal_mul
  <2>4. Result(a.sign # b.sign, a.frac + b.frac, fix, rows[1 - kept.intg1]) = r
    BY <1>4, <1>8, <1>10, <1>11
  <2> QED
    BY <2>1, <2>2, <2>3, <2>4, Zenon
<1>13. IsTrimmed(Trimmed(r.to), sign, I, F, pq)
  <2>1. ASSUME NEW t \in Nat, t = F * DIG_PER_DEC1 - ab PROVE Multiple(pq, Power(Radix, t))
    <3>1. t = F * DIG_PER_DEC1 - (a.frac + b.frac)
      BY <1>10, <2>1
    <3> QED
      BY <1>2, <1>5, <1>9, <3>1, ProductMultiple
  <2> QED
    BY <1>4, <1>9, <1>11, <2>1, ResultTrims
<1>14. PICK t \in Nat : t = m + n /\ t = F + e
  BY <1>4
<1>15. PICK v : v = Signed(Trimmed(r.to))
  OBVIOUS
<1>16. /\ v \in Decimals /\ Fits(v)
       /\ Scaled(v, t) = pq * c
       /\ v.sign = sign \/ (pq = 0 /\ v.sign = FALSE)
  <2>1. PICK d : d = r.to
    OBVIOUS
  <2>2. IsTrimmed(Trimmed(d), sign, I, F, pq) /\ v = Signed(Trimmed(d))
    BY <1>13, <1>15, <2>1
  <2>3. I + F <= DECIMAL_BUFF_LENGTH /\ c = Power(DIG_BASE, e) /\ t = F + e
    BY <1>4, <1>5, <1>14
  <2>4. sign \in BOOLEAN /\ I \in Nat /\ F \in Nat /\ pq \in Nat /\ e \in Nat
        /\ c \in Nat \ {0} /\ t \in Nat
    OBVIOUS
  <2>5. SameNumber(Signed(Trimmed(d)), sign, pq, c, t)
    BY ONLY <2>2, <2>3, <2>4, SignedTrimmed
  <2> QED
    BY <2>2, <2>5 DEF SameNumber
<1>17. PICK z \in Nat : z = pq * c /\ z = Scaled(v, t)
  <2>1. pq * c \in Nat
    OBVIOUS
  <2> QED
    BY <1>16, <2>1
<1>18. PICK q : q = decimal_mul(a, b)
  OBVIOUS
<1>19. q.to = v /\ q.error = fix.error
  BY <1>12, <1>15, <1>18
<1>20. Short(q, a, b, x, y, z, l, e, k)
  <2>1. z = Scaled(q.to, ROUND_UP(a.frac) + ROUND_UP(b.frac))
    BY <1>4, <1>14, <1>17, <1>19
  <2>2. x * y = z + l
    BY <1>5, <1>9, <1>17
  <2>3. k = Power(DIG_BASE, (e + 1) \div 2)
    BY <1>4, <1>5
  <2>4. q.error = E_DEC_OK => l = 0
    BY <1>4, <1>5, <1>19
  <2>5. q.error # E_DEC_OK => e = ROUND_UP(a.intg + b.intg)
                                    + (ROUND_UP(a.frac) + ROUND_UP(b.frac)) - DECIMAL_BUFF_LENGTH
    <3>1. PICK N \in Nat : N = DECIMAL_BUFF_LENGTH
      BY WordAssumption
    <3>2. (I + m + n) - N = I + (m + n) - N
      OBVIOUS
    <3> QED
      BY <1>4, <1>19, <3>1, <3>2
  <2>6. q.to.sign = (a.sign # b.sign) \/ (z = 0 /\ ~q.to.sign)
    <3>1. pq = 0 => z = 0
      <4>1. 0 * c = 0
        OBVIOUS
      <4> QED
        BY <1>17, <4>1
    <3>2. v.sign = sign \/ (z = 0 /\ v.sign = FALSE)
      BY <1>16, <3>1
    <3> QED
      BY <1>10, <1>19, <3>2
  <2> QED
    BY <1>5, <2>1, <2>2, <2>3, <2>4, <2>5, <2>6 DEF Short
<1>21. IsShort(q, a, b)
  <2>1. k \in Nat
    OBVIOUS
  <2>2. q.to \in Decimals /\ Fits(q.to)
    BY <1>16, <1>19
  <2> QED
    BY <1>20, <2>1, <2>2, Zenon DEF IsShort
<1> QED
  BY <1>18, <1>19, <1>21

(* The words a product would need.                                         *)
MulWords(fix, a, b, I, t) ==
    /\ I = ROUND_UP(a.intg + b.intg)
    /\ t = ROUND_UP(a.frac) + ROUND_UP(b.frac)
    /\ fix.error \in {E_DEC_OK, E_DEC_TRUNCATED, E_DEC_OVERFLOW}
    /\ fix.error = E_DEC_OVERFLOW <=> I > DECIMAL_BUFF_LENGTH
    /\ fix.error = E_DEC_OK <=> I + t <= DECIMAL_BUFF_LENGTH
    /\ I > DECIMAL_BUFF_LENGTH <=> a.intg + b.intg > DECIMAL_BUFF_LENGTH * DIG_PER_DEC1

LEMMA MulFixIs ==
    ASSUME NEW a \in Decimals, NEW b \in Decimals
    PROVE  \E I \in Nat, t \in Nat : MulWords(MulFix(a, b), a, b, I, t)
<1>1. PICK N \in Nat, D \in Nat \ {0}, p \in Nat, q \in Nat, m \in Nat, n \in Nat :
        /\ N = DECIMAL_BUFF_LENGTH /\ D = DIG_PER_DEC1 /\ p = a.intg /\ q = b.intg
        /\ m = ROUND_UP(a.frac) /\ n = ROUND_UP(b.frac)
  BY WordAssumption, DecimalTypes
<1>2. PICK pq \in Nat : pq = p + q
  OBVIOUS
<1>3. pq \in Int /\ pq >= 0
  OBVIOUS
<1>4. PICK I \in Nat, ID \in Nat, ND \in Nat :
        /\ I = ROUND_UP(pq) /\ ID = I * D /\ ND = N * D /\ pq <= ID /\ ID < pq + D
  <2>1. ROUND_UP(pq) \in Nat /\ pq <= ROUND_UP(pq) * DIG_PER_DEC1
        /\ ROUND_UP(pq) * DIG_PER_DEC1 < pq + DIG_PER_DEC1
    BY <1>3, RoundUp
  <2>2. PICK I \in Nat : I = ROUND_UP(pq)
    BY <2>1
  <2>3. I * D \in Nat /\ N * D \in Nat
    OBVIOUS
  <2> QED
    BY <1>1, <2>1, <2>2, <2>3
<1>5. I > N <=> pq > ND
  <2>1. ASSUME I > N PROVE pq > ND
    <3>1. (N + 1) * D <= I * D
      BY <2>1, MulMonotonic
    <3>2. (N + 1) * D = N * D + D
      OBVIOUS
    <3> QED
      BY <1>4, <3>1, <3>2
  <2>2. ASSUME I <= N PROVE pq <= ND
    <3>1. I * D <= N * D
      BY <2>2, MulMonotonic
    <3> QED
      BY <1>4, <3>1
  <2> QED
    BY <2>1, <2>2
<1>6. PICK t \in Nat : t = m + n
  OBVIOUS
<1>7. PICK fix : fix = MulFix(a, b)
  OBVIOUS
<1>8. FixCut(fix, I, t)
  <2>1. fix = FixIntgFrac(I, t)
    BY <1>1, <1>2, <1>4, <1>6, <1>7 DEF MulFix
  <2> QED
    BY <2>1, FixCuts
<1>9. /\ fix.error \in {E_DEC_OK, E_DEC_TRUNCATED, E_DEC_OVERFLOW}
      /\ fix.error = E_DEC_OVERFLOW <=> I > DECIMAL_BUFF_LENGTH
      /\ fix.error = E_DEC_OK <=> I + t <= DECIMAL_BUFF_LENGTH
  BY <1>8 DEF FixCut
<1>10. MulWords(fix, a, b, I, t)
  BY <1>1, <1>2, <1>4, <1>5, <1>6, <1>9 DEF MulWords
<1> QED
  BY <1>7, <1>10

(* What ProductIsHonest says of r, the product of a and b; and what later  *)
(* operations rely on.                                                     *)
HonestProduct(r, a, b) ==
    LET frac == ROUND_UP(a.frac) + ROUND_UP(b.frac)
        exact == Mantissa(a) * Mantissa(b)
        lost == exact - Scaled(r.to, frac)
        missing == ROUND_UP(a.intg + b.intg) + frac - DECIMAL_BUFF_LENGTH
    IN  /\ r.error = E_DEC_OVERFLOW
              <=> a.intg + b.intg > DECIMAL_BUFF_LENGTH * DIG_PER_DEC1
        /\ r.error = E_DEC_OK =>
              /\ lost = 0
              /\ r.to.sign = (a.sign # b.sign) \/ (exact = 0 /\ ~r.to.sign)
        /\ r.error = E_DEC_TRUNCATED =>
              /\ lost >= 0
              /\ lost <= (Mantissa(a) + Mantissa(b)) * Power(DIG_BASE, (missing + 1) \div 2)

LEMMA MulIsHonest ==
    ASSUME NEW a \in Decimals, NEW b \in Decimals, Fits(a), Fits(b)
    PROVE  /\ HonestProduct(decimal_mul(a, b), a, b)
           /\ decimal_mul(a, b).error = MulFix(a, b).error
           /\ decimal_mul(a, b).error # E_DEC_OVERFLOW =>
                decimal_mul(a, b).to \in Decimals /\ Fits(decimal_mul(a, b).to)
<1>1. PICK fix, r : fix = MulFix(a, b) /\ r = decimal_mul(a, b)
  OBVIOUS
<1>2. PICK I \in Nat, t \in Nat : MulWords(fix, a, b, I, t)
  BY <1>1, MulFixIs
<1>3. E_DEC_OVERFLOW # E_DEC_OK /\ E_DEC_OVERFLOW # E_DEC_TRUNCATED /\ E_DEC_TRUNCATED # E_DEC_OK
  BY DEF E_DEC_OVERFLOW, E_DEC_OK, E_DEC_TRUNCATED
<1>4. fix.error = E_DEC_OVERFLOW <=> a.intg + b.intg > DECIMAL_BUFF_LENGTH * DIG_PER_DEC1
  BY <1>2, Zenon DEF MulWords
<1>5. CASE fix.error = E_DEC_OVERFLOW
  <2>1. r.error = E_DEC_OVERFLOW
    <3>1. PICK kept, rows : kept = Kept(a, b, fix) /\ rows = Rows(a, b, kept, fix)
      OBVIOUS
    <3>2. PICK q : q = Result(a.sign # b.sign, a.frac + b.frac, fix, rows[1 - kept.intg1])
      OBVIOUS
    <3>3. r = [to |-> Signed(Trimmed(q.to)),
               error |-> IF \E p \in 1 - kept.intg1 .. kept.frac1 :
                              CarryOut(rows[p + 1], a, p, b, kept, 1 - fix.intg)
                         THEN E_DEC_OVERFLOW ELSE q.error]
      BY <1>1, <3>1, <3>2, Zenon DEF decimal_mul
    <3>4. q.error = fix.error
      BY <3>2 DEF Result
    <3> QED
      BY <1>5, <3>3, <3>4
  <2>2. HonestProduct(r, a, b)
    BY <1>3, <1>4, <1>5, <2>1 DEF HonestProduct
  <2> QED
    BY <1>1, <1>5, <2>1, <2>2
<1>6. CASE fix.error # E_DEC_OVERFLOW
  <2>1. r.error = fix.error /\ IsShort(r, a, b)
    BY <1>1, <1>6, MulIs
  <2>2. PICK x \in Nat, y \in Nat, z \in Nat, l \in Nat, e \in Nat, k \in Nat :
          Short(r, a, b, x, y, z, l, e, k)
    BY <2>1, Zenon DEF IsShort
  <2>3. /\ x = Mantissa(a) /\ y = Mantissa(b)
        /\ z = Scaled(r.to, ROUND_UP(a.frac) + ROUND_UP(b.frac))
        /\ x * y = z + l
        /\ k = Power(DIG_BASE, (e + 1) \div 2)
        /\ l <= (x + y) * k
        /\ r.error = E_DEC_OK => l = 0
        /\ r.error # E_DEC_OK => e = ROUND_UP(a.intg + b.intg)
                                       + (ROUND_UP(a.frac) + ROUND_UP(b.frac)) - DECIMAL_BUFF_LENGTH
        /\ r.to.sign = (a.sign # b.sign) \/ (z = 0 /\ ~r.to.sign)
    BY <2>2 DEF Short
  <2>4. PICK exact \in Int, lost \in Int : exact = Mantissa(a) * Mantissa(b) /\ lost = l
          /\ lost = exact - Scaled(r.to, ROUND_UP(a.frac) + ROUND_UP(b.frac)) /\ exact = z + l
    <3>1. PICK xy \in Int : xy = x * y
      OBVIOUS
    <3>2. l = xy - z
      BY <2>3, <3>1
    <3> QED
      BY <2>3, <3>1, <3>2
  <2>5. r.error = E_DEC_OK =>
          /\ lost = 0
          /\ r.to.sign = (a.sign # b.sign) \/ (exact = 0 /\ ~r.to.sign)
    BY <2>3, <2>4
  <2>6. r.error = E_DEC_TRUNCATED =>
          /\ lost >= 0
          /\ lost <= (Mantissa(a) + Mantissa(b))
                       * Power(DIG_BASE, (ROUND_UP(a.intg + b.intg)
                                            + (ROUND_UP(a.frac) + ROUND_UP(b.frac))
                                            - DECIMAL_BUFF_LENGTH + 1) \div 2)
    BY <1>3, <2>3, <2>4
  <2>7. r.error = E_DEC_OVERFLOW <=> a.intg + b.intg > DECIMAL_BUFF_LENGTH * DIG_PER_DEC1
    BY <1>4, <2>1
  <2>8. HonestProduct(r, a, b)
    BY <2>4, <2>5, <2>6, <2>7, Zenon DEF HonestProduct
  <2> QED
    BY <1>1, <2>1, <2>8 DEF IsShort
<1> QED
  BY <1>5, <1>6

(* A product of what a program made and a literal that is reported as      *)
(* exact is; one that is cut is too small by no more than the words that   *)
(* were missing account for; and the digits before the point alone decide  *)
(* whether it overflows: no carry ever runs out of the first word.         *)
THEOREM ProductIsRight == TypeOK => ProductIsHonest
<1> SUFFICES ASSUME TypeOK, NEW x \in Literals PROVE HonestProduct(decimal_mul(acc, x), acc, x)
  BY Zenon DEF ProductIsHonest, HonestProduct
<1>1. acc \in Decimals /\ Fits(acc) /\ x \in Decimals /\ Fits(x)
  BY AccTypes, LiteralTypes
<1> QED
  BY <1>1, MulIsHonest

(* Where decimal_result_size() says that the buffer is large enough, a sum *)
(* in either order is exact, and so is a product.                          *)
THEOREM SizeIsRight == TypeOK => SizeIsEnough
<1> SUFFICES ASSUME TypeOK, NEW x \in Literals
             PROVE  /\ decimal_result_size(acc, x, "+", 0) <= DECIMAL_BUFF_LENGTH
                         => \A s \in SumsWith(x) : s.r.error = E_DEC_OK
                    /\ decimal_result_size(acc, x, "*", 0) <= DECIMAL_BUFF_LENGTH
                         => decimal_mul(acc, x).error = E_DEC_OK
  BY Zenon DEF SizeIsEnough
<1>1. acc \in Decimals /\ Fits(acc) /\ x \in Decimals /\ Fits(x)
  BY AccTypes, LiteralTypes
<1>2. ASSUME decimal_result_size(acc, x, "+", 0) <= DECIMAL_BUFF_LENGTH, NEW s \in SumsWith(x)
      PROVE  s.r.error = E_DEC_OK
  <2>1. decimal_result_size(x, acc, "+", 0) = decimal_result_size(acc, x, "+", 0)
    <3>1. {x.intg, acc.intg} = {acc.intg, x.intg} /\ {x.frac, acc.frac} = {acc.frac, x.frac}
      OBVIOUS
    <3> QED
      BY <3>1, Zenon DEF decimal_result_size
  <2>2. decimal_add(acc, x).error = E_DEC_OK /\ decimal_add(x, acc).error = E_DEC_OK
    BY <1>1, <1>2, <2>1, SizeOfSum
  <2>3. s.r = decimal_add(acc, x) \/ s.r = decimal_add(x, acc)
    BY DEF SumsWith
  <2> QED
    BY <2>2, <2>3
<1>3. ASSUME decimal_result_size(acc, x, "*", 0) <= DECIMAL_BUFF_LENGTH
      PROVE  decimal_mul(acc, x).error = E_DEC_OK
  <2>1. PICK I \in Nat, t \in Nat : MulWords(MulFix(acc, x), acc, x, I, t)
    BY <1>1, MulFixIs
  <2>2. decimal_result_size(acc, x, "*", 0)
          = ROUND_UP(acc.intg + x.intg) + ROUND_UP(acc.frac) + ROUND_UP(x.frac)
    BY Zenon DEF decimal_result_size
  <2>3. PICK m \in Nat, n \in Nat : m = ROUND_UP(acc.frac) /\ n = ROUND_UP(x.frac)
    BY <1>1, DecimalTypes
  <2>4. I = ROUND_UP(acc.intg + x.intg) /\ t = m + n
    BY <2>1, <2>3 DEF MulWords
  <2>5. I + m + n = I + t
    BY <2>4
  <2>6. I + t <= DECIMAL_BUFF_LENGTH
    BY <1>3, <2>2, <2>3, <2>4, <2>5
  <2>7. MulFix(acc, x).error = E_DEC_OK
    BY <2>1, <2>6, Zenon DEF MulWords
  <2> QED
    BY <1>1, <2>7, MulIsHonest
<1> QED
  BY <1>2, <1>3

=============================================================================
